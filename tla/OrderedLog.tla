----------------------------- MODULE OrderedLog -----------------------------
(***************************************************************************)
(* What the normal case promises: every slot of a common log is filled at  *)
(* most once, for good, and every replica executes the log in order,       *)
(* without gaps.                                                           *)
(***************************************************************************)
EXTENDS Naturals

CONSTANTS Replicas, Slots, Values, Nil

VARIABLES
    chosen,   \* chosen[s] is the value of slot s, or Nil
    log       \* log[r][s] is the value replica r has executed in slot s

vars == <<chosen, log>>

Init == /\ chosen = [s \in Slots |-> Nil]
        /\ log = [r \in Replicas |-> [s \in Slots |-> Nil]]

Choose(s, v) == /\ chosen[s] = Nil
                /\ chosen' = [chosen EXCEPT ![s] = v]
                /\ UNCHANGED log

\* A replica executes the chosen slots up to some slot that it has not
\* executed yet.
Execute(r, last) ==
    /\ log[r][last] = Nil
    /\ \A s \in Slots : s <= last => chosen[s] # Nil
    /\ log' = [log EXCEPT ![r] = [s \in Slots |-> IF s <= last THEN chosen[s]
                                                  ELSE Nil]]
    /\ UNCHANGED chosen

Next == \/ \E s \in Slots, v \in Values : Choose(s, v)
        \/ \E r \in Replicas, last \in Slots : Execute(r, last)

Spec == Init /\ [][Next]_vars
=============================================================================
