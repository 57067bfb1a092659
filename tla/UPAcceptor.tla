----------------------------- MODULE UPAcceptor -----------------------------
(***************************************************************************)
(* The acceptor goroutine of paxos/upaxos.go, accept(), with the records   *)
(* of its log that recovery goes by: the last one of each kind for each    *)
(* instance.                                                               *)
(***************************************************************************)
EXTENDS UPNet

VARIABLES minp,      \* minp[q][i]: lowest number q accepts in instance i, -1 if none
          accepted,  \* accepted[q][i]: what q accepted last
          plog,      \* plog[q][i]: the last "promise" record
          alog       \* alog[q][i]: the last "accept" record

acceptorVars == <<minp, accepted, plog, alog>>

None == [p |-> -1, v |-> NoValue]

Blank(x) == [q \in Ids |-> [i \in Instances |-> x]]

Pairs == [p : Numbers, v : Vals] \cup {None}

AcceptorOK ==
  /\ minp \in [Ids -> [Instances -> Numbers \cup {-1}]]
  /\ plog \in [Ids -> [Instances -> Numbers \cup {-1}]]
  /\ accepted \in [Ids -> [Instances -> Pairs]]
  /\ alog \in [Ids -> [Instances -> Pairs]]

AcceptorInit ==
  /\ minp = Blank(-1)
  /\ accepted = Blank(None)
  /\ plog = Blank(-1)
  /\ alog = Blank(None)

(* NACK: a proposal, or a write, below the promised number. *)
Refuse(q, m) ==
  /\ m.op \in {"Propose", "Write"}
  /\ m.p < minp[q][m.i]
  /\ Received("acceptor", q, m)
  /\ Send(Msg("NACK", q, m.i, minp[q][m.i], NoValue))
  /\ UNCHANGED <<up, minp, accepted, plog, alog>>

Promise(q, i, p) ==
  [Msg("Promise", q, i, p, accepted[q][i].v) EXCEPT !.vp = accepted[q][i].p]

(* Bug: a promise is not logged. *)
PromiseToUnlogged(q, m) ==
  /\ m.op = "Propose"
  /\ m.p >= minp[q][m.i]
  /\ Received("acceptor", q, m)
  /\ minp' = [minp EXCEPT ![q][m.i] = m.p]
  /\ Send(Promise(q, m.i, m.p))
  /\ UNCHANGED <<up, accepted, plog, alog>>

PromiseTo(q, m) ==
  /\ m.op = "Propose"
  /\ m.p >= minp[q][m.i]
  /\ Received("acceptor", q, m)
  /\ minp' = [minp EXCEPT ![q][m.i] = m.p]
  /\ plog' = [plog EXCEPT ![q][m.i] = m.p]
  /\ Send(Promise(q, m.i, m.p))
  /\ UNCHANGED <<up, accepted, alog>>

(* Bug: an accept is not logged. *)
AcceptWriteUnlogged(q, m) ==
  /\ m.op = "Write"
  /\ m.p >= minp[q][m.i]
  /\ Received("acceptor", q, m)
  /\ accepted' = [accepted EXCEPT ![q][m.i] = [p |-> m.p, v |-> m.v]]
  /\ Send(Msg("Accept", q, m.i, m.p, m.v))
  /\ UNCHANGED <<up, minp, plog, alog>>

(* The promised number stays as it is. *)
AcceptWrite(q, m) ==
  /\ m.op = "Write"
  /\ m.p >= minp[q][m.i]
  /\ Received("acceptor", q, m)
  /\ accepted' = [accepted EXCEPT ![q][m.i] = [p |-> m.p, v |-> m.v]]
  /\ alog' = [alog EXCEPT ![q][m.i] = [p |-> m.p, v |-> m.v]]
  /\ Send(Msg("Accept", q, m.i, m.p, m.v))
  /\ UNCHANGED <<up, minp, plog>>

(* The memory of a dead process, and what recovery makes of the log. *)
AcceptorDown(q) ==
  /\ minp' = [minp EXCEPT ![q] = [i \in Instances |-> -1]]
  /\ accepted' = [accepted EXCEPT ![q] = [i \in Instances |-> None]]
  /\ UNCHANGED <<plog, alog>>

(* Bug: recovery takes the field behind the value. *)
KeptNextField(rec) == IF rec = None THEN None ELSE [rec EXCEPT !.v = Tail(@)]

Kept(rec) == IF rec = None THEN None ELSE [rec EXCEPT !.v = FirstWord(@)]

AcceptorRecovers(q) ==
  /\ minp' = [minp EXCEPT ![q] = plog[q]]
  /\ accepted' = [accepted EXCEPT ![q] = [i \in Instances |-> Kept(alog[q][i])]]
  /\ UNCHANGED <<plog, alog>>

Acceptor(q, m) == Refuse(q, m) \/ PromiseTo(q, m) \/ AcceptWrite(q, m)
=============================================================================
