------------------------------ MODULE UPLeader ------------------------------
(***************************************************************************)
(* The leader goroutine of paxos/upaxos.go, lead(): every participant      *)
(* leads for the requests it hears.                                        *)
(***************************************************************************)
EXTENDS UPNet

CONSTANT MaxReqQ  \* maxReqQ, 10 in the code

ASSUME LeaderAssumption == MaxReqQ \in Nat

VARIABLES instance,  \* the instance q tries to use
          lastp,     \* the proposal number q sent last
          req,       \* r, the request in progress, or NoValue
          queued,    \* nrq, requests behind it
          wval,      \* v, the value to write, or NoValue
          wp,        \* vp, the number that came with it
          npromise,  \* promises counted for this proposal
          naccepts,  \* accepts counted for this proposal
          told       \* history: the accepts that the promises counted since q
                     \* came to this instance have reported

leaderVars == <<instance, lastp, req, queued, wval, wp, npromise, naccepts, told>>

LeaderOK ==
  /\ instance \in [Ids -> Instances \cup {MaxInstance + 1}]
  /\ lastp \in [Ids -> Nat]
  /\ req \in [Ids -> Values \cup {NoValue}]
  /\ queued \in [Ids -> 0..MaxReqQ]
  /\ wval \in [Ids -> Vals \cup {NoValue}]
  /\ wp \in [Ids -> Numbers \cup {-1}]
  /\ npromise \in [Ids -> 0..N]
  /\ naccepts \in [Ids -> 0..N]
  /\ told \in [Ids -> SUBSET [v : Vals, vp : Numbers]]

LeaderInit ==
  /\ instance = [q \in Ids |-> 1]
  /\ lastp = [q \in Ids |-> q]
  /\ req = [q \in Ids |-> NoValue]
  /\ queued = [q \in Ids |-> 0]
  /\ wval = [q \in Ids |-> NoValue]
  /\ wp = [q \in Ids |-> -1]
  /\ npromise = [q \in Ids |-> 0]
  /\ naccepts = [q \in Ids |-> 0]
  /\ told = [q \in Ids |-> {}]

(* The counts are only compared with N \div 2: they need not exceed N. *)
PlusOne(n) == IF n < N THEN n + 1 ELSE n

(* The next number of q above p: q's are those congruent to q. *)
NumberAbove(q, p) == (p \div N + 1) * N + q

Proposal(q, i, p, v) == Msg("Propose", q, i, p, v)

MayPropose(i, p) == i <= MaxInstance /\ p <= MaxNumber

(* catchup(i, p). *)
Catchup(q, i, p) ==
  /\ instance' = [instance EXCEPT ![q] = i]
  /\ lastp' = [lastp EXCEPT ![q] = NumberAbove(q, p)]
  /\ wval' = [wval EXCEPT ![q] = IF i = instance[q] THEN @ ELSE NoValue]
  /\ wp' = [wp EXCEPT ![q] = IF i = instance[q] THEN @ ELSE -1]
  /\ npromise' = [npromise EXCEPT ![q] = 0]
  /\ naccepts' = [naccepts EXCEPT ![q] = 0]
  /\ told' = [told EXCEPT ![q] = IF i = instance[q] THEN @ ELSE {}]

(* propose() after a catchup, if a request is in progress. *)
ProposeAgain(q, i, p) ==
  IF req[q] = NoValue THEN UNCHANGED sent
  ELSE MayPropose(i, NumberAbove(q, p)) /\ Send(Proposal(q, i, NumberAbove(q, p), NoValue))

-----------------------------------------------------------------------------
(* "Request": propose it, queue it, or tell the client that q is busy. *)
TakeRequest(q, m) ==
  /\ m.op = "Request" /\ req[q] = NoValue
  /\ MayPropose(instance[q], lastp[q])
  /\ Received("leader", q, m)
  /\ req' = [req EXCEPT ![q] = m.v]
  /\ Send(Proposal(q, instance[q], lastp[q], NoValue))
  /\ UNCHANGED <<up, instance, lastp, queued, wval, wp, npromise, naccepts, told>>

QueueRequest(q, m) ==
  /\ m.op = "Request" /\ req[q] # NoValue /\ queued[q] < MaxReqQ
  /\ Received("leader", q, m)
  /\ queued' = [queued EXCEPT ![q] = @ + 1]
  /\ UNCHANGED <<up, sent, instance, lastp, req, wval, wp, npromise, naccepts, told>>

Heed(q, m) ==
  told' = [told EXCEPT ![q] = IF m.v = NoValue THEN @ ELSE @ \cup {[v |-> m.v, vp |-> m.vp]}]

(* Bug: the values that the promises report are not looked at. *)
CountPromiseOwnValue(q, m) ==
  LET n == PlusOne(npromise[q])
  IN /\ m.op = "Promise" /\ req[q] # NoValue
     /\ m.i = instance[q] /\ m.p = lastp[q]
     /\ Received("leader", q, m)
     /\ npromise' = [npromise EXCEPT ![q] = n]
     /\ wval' = [wval EXCEPT ![q] = req[q]]
     /\ IF Majority(n) THEN Send(Msg("Write", q, m.i, m.p, req[q]))
                       ELSE UNCHANGED sent
     /\ Heed(q, m)
     /\ UNCHANGED <<up, instance, lastp, req, queued, wp, naccepts>>

(* "Promise" for what q proposed last.  From the majority on, every one of *)
(* them has q send a Write, with the value known by then.                  *)
CountPromise(q, m) ==
  LET higher == m.v # NoValue /\ m.vp > wp[q]
      n == PlusOne(npromise[q])
      best == IF higher THEN m.v ELSE wval[q]
      v == IF Majority(n) /\ best = NoValue THEN req[q] ELSE best
  IN /\ m.op = "Promise" /\ req[q] # NoValue
     /\ m.i = instance[q] /\ m.p = lastp[q]
     /\ Received("leader", q, m)
     /\ npromise' = [npromise EXCEPT ![q] = n]
     /\ wval' = [wval EXCEPT ![q] = v]
     /\ wp' = [wp EXCEPT ![q] = IF higher THEN m.vp ELSE @]
     /\ IF Majority(n)
        THEN Send(Msg("Write", q, m.i, m.p, v))
        ELSE UNCHANGED sent
     /\ Heed(q, m)
     /\ UNCHANGED <<up, instance, lastp, req, queued, naccepts>>

(* "Promise" of another instance, or of a higher number: q follows it and  *)
(* proposes nothing.                                                       *)
SnoopPromise(q, m) ==
  /\ m.op = "Promise" /\ req[q] # NoValue
  /\ m.i # instance[q] \/ m.p > lastp[q]
  /\ Received("leader", q, m)
  /\ Catchup(q, m.i, m.p)
  /\ UNCHANGED <<up, sent, req, queued>>

Counts(q, m) ==
  /\ m.op = "Accept" /\ req[q] # NoValue
  /\ wval[q] # NoValue /\ m.v = wval[q]
  /\ m.i = instance[q] /\ m.p = lastp[q]

(* "Accept", no majority yet. *)
CountAccept(q, m) ==
  /\ Counts(q, m) /\ ~Majority(PlusOne(naccepts[q]))
  /\ Received("leader", q, m)
  /\ naccepts' = [naccepts EXCEPT ![q] = PlusOne(@)]
  /\ UNCHANGED <<up, sent, instance, lastp, req, queued, wval, wp, npromise, told>>

(* "Accept" that makes the majority for the request: OK, next instance. *)
Succeed(q, m) ==
  /\ Counts(q, m) /\ Majority(PlusOne(naccepts[q]))
  /\ m.v = req[q] /\ queued[q] = 0
  /\ Received("leader", q, m)
  /\ Send(Msg("OK", q, m.i, m.p, m.v))
  /\ req' = [req EXCEPT ![q] = NoValue]
  /\ Catchup(q, instance[q] + 1, 0)
  /\ UNCHANGED <<up, queued>>

(* The same with a request queued: it was queued as Req and is taken out   *)
(* as *Req.  The OK may or may not leave before the process is dead.       *)
PanicOnQueue(q, m) ==
  /\ Counts(q, m) /\ Majority(PlusOne(naccepts[q]))
  /\ m.v = req[q] /\ queued[q] > 0
  /\ Received("leader", q, m)
  /\ Send(Msg("OK", q, m.i, m.p, m.v)) \/ UNCHANGED sent

(* "Accept" that makes the majority for somebody else's value: the request *)
(* is proposed for the next instance.                                      *)
TryNext(q, m) ==
  /\ Counts(q, m) /\ Majority(PlusOne(naccepts[q]))
  /\ m.v # req[q]
  /\ Received("leader", q, m)
  /\ Catchup(q, instance[q] + 1, 0)
  /\ ProposeAgain(q, instance[q] + 1, 0)
  /\ UNCHANGED <<up, req, queued>>

(* "NACK". *)
HearNack(q, m) ==
  /\ m.op = "NACK"
  /\ m.i > instance[q] \/ m.p > lastp[q]
  /\ Received("leader", q, m)
  /\ Catchup(q, m.i, m.p)
  /\ ProposeAgain(q, m.i, m.p)
  /\ UNCHANGED <<up, req, queued>>

(* A dead leader forgets everything; a new one starts over. *)
LeaderDown(q) ==
  /\ instance' = [instance EXCEPT ![q] = 1]
  /\ lastp' = [lastp EXCEPT ![q] = q]
  /\ req' = [req EXCEPT ![q] = NoValue]
  /\ queued' = [queued EXCEPT ![q] = 0]
  /\ wval' = [wval EXCEPT ![q] = NoValue]
  /\ wp' = [wp EXCEPT ![q] = -1]
  /\ npromise' = [npromise EXCEPT ![q] = 0]
  /\ naccepts' = [naccepts EXCEPT ![q] = 0]
  /\ told' = [told EXCEPT ![q] = {}]

Leader(q, m) ==
  TakeRequest(q, m) \/ QueueRequest(q, m) \/ CountPromise(q, m)
    \/ SnoopPromise(q, m) \/ CountAccept(q, m) \/ Succeed(q, m)
    \/ TryNext(q, m) \/ HearNack(q, m)
=============================================================================
