---------------------------- MODULE BoundedRetry ----------------------------
(***************************************************************************)
(* What a caller is promised about the requests made on its behalf         *)
(* (_retry.py): a call sends at most Budget requests, it stops sending the *)
(* moment a stream has opened, and a call that has settled sends nothing   *)
(* until its task makes another call.                                      *)
(***************************************************************************)
EXTENDS Integers

CONSTANTS Tasks, Budget

VARIABLES phase,    \* of each task's current call
          sent      \* requests sent for it so far
vars == <<phase, sent>>

Phases == {"settled", "trying", "delivering"}

Init == /\ phase = [t \in Tasks |-> "settled"]
        /\ sent = [t \in Tasks |-> 0]

Call(t) == /\ phase[t] = "settled"
           /\ phase' = [phase EXCEPT ![t] = "trying"]
           /\ sent' = [sent EXCEPT ![t] = 0]

Request(t) == /\ phase[t] = "trying"
              /\ sent[t] < Budget
              /\ sent' = [sent EXCEPT ![t] = @ + 1]
              /\ UNCHANGED phase

Deliver(t) == /\ phase[t] = "trying"
              /\ sent[t] > 0
              /\ phase' = [phase EXCEPT ![t] = "delivering"]
              /\ UNCHANGED sent

Settle(t) == /\ phase[t] \in {"trying", "delivering"}
             /\ phase' = [phase EXCEPT ![t] = "settled"]
             /\ UNCHANGED sent

Next == \E t \in Tasks : Call(t) \/ Request(t) \/ Deliver(t) \/ Settle(t)

Spec == Init /\ [][Next]_vars
=============================================================================
