---------------------------- MODULE AtomicChange ----------------------------
(***************************************************************************)
(* What 2pc/node.go promises (its header comment, lines 3-14): one value   *)
(* that changes atomically, and a second participant that either sees the  *)
(* current value or knows that it is uncertain.                            *)
(***************************************************************************)
CONSTANTS Values,   \* the values a client can ask for
          Unset,    \* the value before the first change
          Unknown   \* what the second participant sees while uncertain

VARIABLES val,      \* the value of the distributed state
          view      \* the second participant's view of it

vars == <<val, view>>

Init == val = Unset /\ view = Unset

(* The participant gives up its view: it votes for a change. *)
Blind == view' = Unknown /\ UNCHANGED val

(* The value changes only while the participant is uncertain. *)
Change(v) == view = Unknown /\ val' = v /\ UNCHANGED view

(* The participant learns the outcome: the current value, nothing else. *)
See == view' = val /\ UNCHANGED val

Next == Blind \/ See \/ \E v \in Values : Change(v)

Spec == Init /\ [][Next]_vars
=============================================================================
