----------------------------- MODULE UPLearner ------------------------------
(***************************************************************************)
(* The learner goroutine of paxos/upaxos.go, learn().                      *)
(***************************************************************************)
EXTENDS UPNet

VARIABLES heard,    \* heard[q][i][s]: the last accept of s that counts (as.v, as.p)
          count,    \* count[q][i][v]: as.n, the hosts that accepted v
          written,  \* written[q][i]: the learned value
          llog      \* llog[q][i]: the value in the "learn" record

learnerVars == <<heard, count, written, llog>>

Unheard == [i \in Instances |-> [s \in Ids |-> [p |-> -1, v |-> NoValue]]]
Uncounted == [i \in Instances |-> [v \in Vals |-> 0]]
Unlearned == [i \in Instances |-> NoValue]

LearnerOK ==
  /\ heard \in [Ids -> [Instances -> [Ids -> [p : Numbers \cup {-1},
                                            v : Vals \cup {NoValue}]]]]
  /\ count \in [Ids -> [Instances -> [Vals -> Int]]]
  /\ written \in [Ids -> [Instances -> Vals \cup {NoValue}]]
  /\ llog \in [Ids -> [Instances -> Vals \cup {NoValue}]]

LearnerInit ==
  /\ heard = [q \in Ids |-> Unheard]
  /\ count = [q \in Ids |-> Uncounted]
  /\ written = [q \in Ids |-> Unlearned]
  /\ llog = [q \in Ids |-> Unlearned]

(* Bug: what the host accepted before still counts. *)
RecountWithOld(n, old, v) == [w \in Vals |-> n[w] + (IF w = v THEN 1 ELSE 0)]

(* as.n after s has accepted v instead of old. *)
Recount(n, old, v) ==
  [w \in Vals |-> n[w] + (IF w = v THEN 1 ELSE 0)
                       - (IF old # NoValue /\ w = old THEN 1 ELSE 0)]

(* An accept that counts: the instance is not settled, and the host has   *)
(* not been heard with a higher number.                                    *)
Learn(q, m) ==
  LET n == Recount(count[q][m.i], heard[q][m.i][m.s].v, m.v)
  IN /\ m.op = "Accept"
     /\ written[q][m.i] = NoValue
     /\ m.p >= heard[q][m.i][m.s].p
     /\ Received("learner", q, m)
     /\ heard' = [heard EXCEPT ![q][m.i][m.s] = [p |-> m.p, v |-> m.v]]
     /\ count' = [count EXCEPT ![q][m.i] = n]
     /\ IF Majority(n[m.v])
        THEN /\ llog' = [llog EXCEPT ![q][m.i] = m.v]
             /\ written' = [written EXCEPT ![q][m.i] = m.v]
        ELSE UNCHANGED <<llog, written>>
     /\ UNCHANGED <<up, sent>>

LearnerDown(q) ==
  /\ heard' = [heard EXCEPT ![q] = Unheard]
  /\ count' = [count EXCEPT ![q] = Uncounted]
  /\ written' = [written EXCEPT ![q] = Unlearned]
  /\ UNCHANGED llog

(* Bug: the "learn" records are not loaded. *)
LearnerRecoversNothing(q) == UNCHANGED learnerVars

LearnerRecovers(q) ==
  /\ written' = [written EXCEPT ![q] =
       [i \in Instances |-> IF llog[q][i] = NoValue THEN NoValue
                                                    ELSE FirstWord(llog[q][i])]]
  /\ UNCHANGED <<heard, count, llog>>
=============================================================================
