---------------------------- MODULE MCThinkFilter ----------------------------
(***************************************************************************)
(* Instances of ThinkFilter for TLC: tags of two characters that share     *)
(* their first, as <think> and </think> do.                                *)
(***************************************************************************)
EXTENDS ThinkFilter

MCAlphabet == {"<", ">", "/", "x", " ", "\n"}
MCWhitespace == {" ", "\n"}
MCNewline == "\n"
MCOpen == <<"<", ">">>
MCClose == <<"<", "/">>
=============================================================================
