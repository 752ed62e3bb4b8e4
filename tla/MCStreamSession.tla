--------------------------- MODULE MCStreamSession ---------------------------
(***************************************************************************)
(* Instances of StreamSession for TLC.                                     *)
(***************************************************************************)
EXTENDS StreamSession

CONSTANTS h1, h2, h3

TwoCalls == {h1, h2}
ThreeCalls == {h1, h2, h3}
AllWires == {"openai", "anthropic", "gemini"}
OneWire == {"openai"}
=============================================================================
