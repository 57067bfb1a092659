---------------------------- MODULE UPaxosTypes -----------------------------
(***************************************************************************)
(* Proof that UPaxos keeps its types, with the lemmas on datagrams and     *)
(* numbers that the other proofs use.                                      *)
(***************************************************************************)
EXTENDS UPaxos, FiniteSetTheorems, TLAPS

(* A text that a participant q may send.                                   *)
Sound(m) == m \in Datagrams /\ WellFormed(m) /\ m.copy = 0

(* Sending adds one datagram, a copy of the text.                          *)
LEMMA SendAdds ==
  ASSUME NetOK, NEW m, Sound(m), Send(m)
  PROVE  /\ \E c \in Nat : sent' = sent \cup {[m EXCEPT !.copy = c]}
         /\ IsFiniteSet(sent') /\ sent' \subseteq Datagrams
         /\ \A k \in sent' : WellFormed(k)
<1> DEFINE c == IF Duplicates THEN 0 ELSE Cardinality(Twins(m))
<1>1. c \in Nat
  <2>1. IsFiniteSet(Twins(m))
    BY FS_Subset DEF Twins, NetOK
  <2> QED
    BY <2>1, FS_CardinalityType
<1>2. sent' = sent \cup {[m EXCEPT !.copy = c]}
  BY DEF Send
<1>3. [m EXCEPT !.copy = c] \in Datagrams /\ WellFormed([m EXCEPT !.copy = c])
  <2> HIDE DEF c
  <2> QED
    BY <1>1 DEF Sound, Datagrams, WellFormed
<1>4. IsFiniteSet(sent')
  BY <1>2, FS_AddElement DEF NetOK
<1> HIDE DEF c
<1> QED
  BY <1>1, <1>2, <1>3, <1>4 DEF NetOK

(* The value that recovery keeps is a value, and no value is NoValue.      *)
LEMMA ValueFacts ==
  /\ NoValue \notin Vals
  /\ Values \subseteq Vals
  /\ \A v \in Vals : FirstWord(v) \in Vals /\ FirstWord(FirstWord(v)) = FirstWord(v)
BY NetAssumption DEF Vals, FirstWord

(* What recovery keeps of a record is a pair of a number and a value.       *)
LEMMA KeptPair ==
  ASSUME NEW r \in Pairs
  PROVE  /\ Kept(r) \in Pairs
         /\ r # None => Kept(r) = [p |-> r.p, v |-> FirstWord(r.v)]
<1>1. CASE r = None
  BY <1>1 DEF Kept, Pairs
<1>2. CASE r # None
  <2>1. r \in [p : Numbers, v : Vals]
    BY <1>2 DEF Pairs
  <2>2. Kept(r) = [p |-> r.p, v |-> FirstWord(r.v)]
    BY <1>2, <2>1 DEF Kept
  <2> QED
    BY <2>1, <2>2, ValueFacts DEF Pairs
<1> QED
  BY <1>1, <1>2

(* A leader's next number is a number.                                     *)
LEMMA NumberAboveNat ==
  ASSUME NEW q \in Ids, NEW p \in Nat
  PROVE  NumberAbove(q, p) \in Nat
<1>1. p \div N \in Nat
  BY NetAssumption
<1>2. q \in Nat
  BY NetAssumption DEF Ids
<1> DEFINE d == p \div N
<1>3. (d + 1) * N \in Nat
  <2> HIDE DEF d
  <2> QED
    BY <1>1, NetAssumption DEF d
<1> HIDE DEF d
<1> QED
  BY <1>2, <1>3 DEF NumberAbove, d

(* What a role receives was sent by somebody who may send it.              *)
LEMMA ReceivedOK ==
  ASSUME NetOK, NEW role, NEW q, NEW m, Received(role, q, m)
  PROVE  m \in Datagrams /\ WellFormed(m) /\ m \in sent
BY DEF Received, NetOK

(* A text made by Msg is sound if its fields are.                          *)
LEMMA MsgSound ==
  ASSUME NEW op \in {"Propose", "Write", "Accept", "NACK", "OK"},
         NEW q \in Ids, NEW i \in Instances, NEW p \in Numbers,
         NEW v \in Vals \cup {NoValue},
         op \in {"Write", "Accept", "OK"} => v \in Vals
  PROVE  Sound(Msg(op, q, i, p, v))
BY DEF Sound, Msg, Datagrams, WellFormed

(* accept() keeps the types.                                               *)
LEMMA AcceptorTypes ==
  ASSUME NetOK, AcceptorOK, NEW q \in Ids, NEW m, Acceptor(q, m)
  PROVE  NetOK' /\ AcceptorOK'
<1>1. CASE Refuse(q, m)
  <2>1. m \in Datagrams /\ m.i \in Instances
    BY <1>1, ReceivedOK DEF Refuse, WellFormed
  <2>2. minp[q][m.i] \in Numbers
    BY <1>1, <2>1 DEF Refuse, AcceptorOK, Datagrams, Numbers
  <2>3. Sound(Msg("NACK", q, m.i, minp[q][m.i], NoValue))
    BY <2>1, <2>2, MsgSound
  <2> QED
    BY <1>1, <2>3, SendAdds DEF Refuse, NetOK, AcceptorOK
<1>2. CASE PromiseTo(q, m)
  <2>1. m \in Datagrams /\ m.i \in Instances /\ m.p \in Numbers
    BY <1>2, ReceivedOK DEF PromiseTo, WellFormed, Datagrams
  <2>2. accepted[q][m.i] \in Pairs
    BY <2>1 DEF AcceptorOK
  <2>3. Sound(Promise(q, m.i, m.p))
    BY <2>1, <2>2, ValueFacts DEF Promise, Msg, Pairs, None, Sound, Datagrams, WellFormed, Numbers
  <2>4. AcceptorOK'
    BY <1>2, <2>1 DEF PromiseTo, AcceptorOK
  <2> QED
    BY <1>2, <2>3, <2>4, SendAdds DEF PromiseTo, NetOK
<1>3. CASE AcceptWrite(q, m)
  <2>1. m \in Datagrams /\ m.i \in Instances /\ m.p \in Numbers /\ m.v \in Vals
    BY <1>3, ReceivedOK DEF AcceptWrite, WellFormed, Datagrams
  <2>2. Sound(Msg("Accept", q, m.i, m.p, m.v))
    BY <2>1, MsgSound
  <2>3. [p |-> m.p, v |-> m.v] \in Pairs
    BY <2>1 DEF Pairs
  <2>4. AcceptorOK'
    BY <1>3, <2>1, <2>3 DEF AcceptWrite, AcceptorOK
  <2> QED
    BY <1>3, <2>2, <2>4, SendAdds DEF AcceptWrite, NetOK
<1> QED
  BY <1>1, <1>2, <1>3 DEF Acceptor

(* learn() keeps the types, and sends nothing.                             *)
LEMMA LearnTypes ==
  ASSUME NetOK, LearnerOK, NEW q \in Ids, NEW m, Learn(q, m)
  PROVE  NetOK' /\ LearnerOK'
<1>1. /\ m \in Datagrams /\ m.i \in Instances /\ m.p \in Numbers /\ m.v \in Vals
      /\ m.s \in Ids
  BY ReceivedOK DEF Learn, WellFormed, Datagrams
<1> DEFINE n == Recount(count[q][m.i], heard[q][m.i][m.s].v, m.v)
<1>2. n \in [Vals -> Int]
  BY <1>1 DEF Recount, LearnerOK
<1>3. heard' \in [Ids -> [Instances -> [Ids -> [p : Numbers \cup {-1}, v : Vals \cup {NoValue}]]]]
  <2>1. heard' = [heard EXCEPT ![q] = [heard[q] EXCEPT ![m.i] =
                   [heard[q][m.i] EXCEPT ![m.s] = [p |-> m.p, v |-> m.v]]]]
    BY DEF Learn
  <2>2. [p |-> m.p, v |-> m.v] \in [p : Numbers \cup {-1}, v : Vals \cup {NoValue}]
    BY <1>1
  <2> DEFINE R == [p : Numbers \cup {-1}, v : Vals \cup {NoValue}]
  <2>3. heard \in [Ids -> [Instances -> [Ids -> R]]] /\ [p |-> m.p, v |-> m.v] \in R
    BY <2>2 DEF LearnerOK
  <2> HIDE DEF R
  <2>4. heard' \in [Ids -> [Instances -> [Ids -> R]]]
    BY <1>1, <2>1, <2>3
  <2> QED
    BY <2>4 DEF R
<1>4. count' \in [Ids -> [Instances -> [Vals -> Int]]]
  <2>1. count' = [count EXCEPT ![q] = [count[q] EXCEPT ![m.i] = n]]
    BY DEF Learn
  <2> HIDE DEF n
  <2> QED
    BY <1>1, <1>2, <2>1 DEF LearnerOK
<1>5. /\ written' \in [Ids -> [Instances -> Vals \cup {NoValue}]]
      /\ llog' \in [Ids -> [Instances -> Vals \cup {NoValue}]]
  <2>1. CASE Majority(n[m.v])
    <3>1. /\ llog' = [llog EXCEPT ![q][m.i] = m.v]
          /\ written' = [written EXCEPT ![q][m.i] = m.v]
      BY <2>1 DEF Learn
    <3> QED
      BY <1>1, <3>1 DEF LearnerOK
  <2>2. CASE ~Majority(n[m.v])
    BY <2>2 DEF Learn, LearnerOK
  <2> QED
    BY <2>1, <2>2
<1> QED
  BY <1>3, <1>4, <1>5 DEF Learn, NetOK, LearnerOK

(* catchup(i, p) keeps the leader's types.                                 *)
LEMMA CatchupTypes ==
  ASSUME LeaderOK, NEW q \in Ids, NEW i \in Instances \cup {MaxInstance + 1},
         NEW p \in Nat, Catchup(q, i, p)
  PROVE  /\ instance' \in [Ids -> Instances \cup {MaxInstance + 1}]
         /\ lastp' \in [Ids -> Nat]
         /\ wval' \in [Ids -> Vals \cup {NoValue}]
         /\ wp' \in [Ids -> Numbers \cup {-1}]
         /\ npromise' \in [Ids -> 0..N]
         /\ naccepts' \in [Ids -> 0..N]
         /\ told' \in [Ids -> SUBSET [v : Vals, vp : Numbers]]
<1>1. NumberAbove(q, p) \in Nat
  BY NumberAboveNat
<1>2. 0 \in 0..N
  BY NetAssumption
<1> QED
  BY <1>1, <1>2 DEF Catchup, LeaderOK

(* propose() sends a sound text or nothing.                                *)
LEMMA ProposeAgainTypes ==
  ASSUME NetOK, NEW q \in Ids, NEW i \in Instances \cup {MaxInstance + 1},
         NEW p \in Nat, ProposeAgain(q, i, p), up' = up
  PROVE  NetOK'
<1>1. CASE req[q] = NoValue
  BY <1>1 DEF ProposeAgain, NetOK
<1>2. CASE req[q] # NoValue
  <2>1. NumberAbove(q, p) \in Numbers
    BY <1>2, NumberAboveNat, NetAssumption DEF ProposeAgain, MayPropose, Numbers
  <2>2. i \in Instances
    BY <1>2, NetAssumption DEF ProposeAgain, MayPropose, Instances
  <2>3. Sound(Proposal(q, i, NumberAbove(q, p), NoValue))
    BY <2>1, <2>2, MsgSound DEF Proposal
  <2> QED
    BY <1>2, <2>3, SendAdds DEF ProposeAgain, NetOK
<1> QED
  BY <1>1, <1>2

(* "Promise" for q's own proposal, and the Write that a majority brings.   *)
LEMMA CountPromiseTypes ==
  ASSUME NetOK, LeaderOK, NEW q \in Ids, NEW m, CountPromise(q, m)
  PROVE  NetOK' /\ LeaderOK'
<1> DEFINE higher == m.v # NoValue /\ m.vp > wp[q]
           n == PlusOne(npromise[q])
           best == IF higher THEN m.v ELSE wval[q]
           v == IF Majority(n) /\ best = NoValue THEN req[q] ELSE best
<1>1. /\ m \in Datagrams /\ m.i \in Instances /\ m.p \in Numbers
      /\ m.v \in Vals \cup {NoValue} /\ m.vp \in Numbers \cup {-1}
      /\ higher => m.vp \in Numbers
  BY ReceivedOK, ValueFacts DEF CountPromise, WellFormed, Datagrams
<1>2. n \in 0..N
  BY NetAssumption DEF PlusOne, LeaderOK
<1>3. v \in Vals \cup {NoValue} /\ (Majority(n) => v \in Vals)
  BY <1>1, ValueFacts DEF CountPromise, LeaderOK
<1>4. /\ npromise' = [npromise EXCEPT ![q] = n]
      /\ wval' = [wval EXCEPT ![q] = v]
      /\ wp' = [wp EXCEPT ![q] = IF higher THEN m.vp ELSE @]
      /\ IF Majority(n) THEN Send(Msg("Write", q, m.i, m.p, v)) ELSE sent' = sent
      /\ UNCHANGED <<up, instance, lastp, req, queued, naccepts>>
  BY DEF CountPromise
<1>5. told' \in [Ids -> SUBSET [v : Vals, vp : Numbers]]
  <2>1. told' = [told EXCEPT ![q] = IF m.v = NoValue THEN @ ELSE @ \cup {[v |-> m.v, vp |-> m.vp]}]
    BY DEF CountPromise, Heed
  <2>2. m.v # NoValue => [v |-> m.v, vp |-> m.vp] \in [v : Vals, vp : Numbers]
    BY <1>1, ReceivedOK DEF CountPromise, WellFormed
  <2> QED
    BY <2>1, <2>2 DEF LeaderOK
<1> HIDE DEF n, v, higher
<1>6. LeaderOK'
  BY <1>1, <1>2, <1>3, <1>4, <1>5 DEF LeaderOK
<1>7. NetOK'
  <2>1. CASE Majority(n)
    <3>1. Sound(Msg("Write", q, m.i, m.p, v))
      BY <1>1, <1>3, <2>1, MsgSound
    <3> QED
      BY <1>4, <2>1, <3>1, SendAdds DEF NetOK
  <2>2. CASE ~Majority(n)
    BY <1>4, <2>2 DEF NetOK
  <2> QED
    BY <2>1, <2>2
<1> QED
  BY <1>6, <1>7

(* What a leader needs for a majority of accepts to matter to it.          *)
LEMMA CountsTypes ==
  ASSUME NetOK, LeaderOK, NEW q \in Ids, NEW m, Counts(q, m), m \in Datagrams, WellFormed(m)
  PROVE  /\ m.i \in Instances /\ m.p \in Numbers /\ m.v \in Vals
         /\ instance[q] + 1 \in Instances \cup {MaxInstance + 1}
BY NetAssumption DEF Counts, WellFormed, Datagrams, Instances

(* lead() keeps the types.                                                 *)
LEMMA LeaderTypes ==
  ASSUME NetOK, LeaderOK, NEW q \in Ids, NEW m, Leader(q, m)
  PROVE  NetOK' /\ LeaderOK'
<1>1. CASE TakeRequest(q, m)
  <2>1. m \in Datagrams /\ m.v \in Values
    BY <1>1, ReceivedOK DEF TakeRequest, WellFormed
  <2>2. instance[q] \in Instances /\ lastp[q] \in Numbers
    BY <1>1, NetAssumption DEF TakeRequest, MayPropose, LeaderOK, Instances, Numbers
  <2>3. Sound(Proposal(q, instance[q], lastp[q], NoValue))
    BY <2>2, MsgSound DEF Proposal
  <2>4. NetOK'
    BY <1>1, <2>3, SendAdds DEF TakeRequest, NetOK
  <2>5. LeaderOK'
    BY <1>1, <2>1 DEF TakeRequest, LeaderOK
  <2> QED
    BY <2>4, <2>5
<1>2. CASE QueueRequest(q, m)
  <2>1. NetOK'
    BY <1>2 DEF QueueRequest, NetOK
  <2>2. LeaderOK'
    BY <1>2, LeaderAssumption DEF QueueRequest, LeaderOK
  <2> QED
    BY <2>1, <2>2
<1>3. CASE CountPromise(q, m)
  BY <1>3, CountPromiseTypes
<1>4. CASE SnoopPromise(q, m)
  <2>1. m.i \in Instances /\ m.p \in Nat /\ Catchup(q, m.i, m.p)
    BY <1>4, ReceivedOK DEF SnoopPromise, WellFormed, Datagrams, Numbers
  <2>2. UNCHANGED <<up, sent, req, queued>>
    BY <1>4 DEF SnoopPromise
  <2> QED
    BY <2>1, <2>2, CatchupTypes DEF LeaderOK, NetOK
<1>5. CASE CountAccept(q, m)
  <2>1. NetOK'
    BY <1>5 DEF CountAccept, NetOK
  <2>2. PlusOne(naccepts[q]) \in 0..N
    BY NetAssumption DEF PlusOne, LeaderOK
  <2>3. LeaderOK'
    BY <1>5, <2>2 DEF CountAccept, LeaderOK
  <2> QED
    BY <2>1, <2>3
<1>6. CASE Succeed(q, m)
  <2>1. /\ m.i \in Instances /\ m.p \in Numbers /\ m.v \in Vals
        /\ instance[q] + 1 \in Instances \cup {MaxInstance + 1}
    BY <1>6, ReceivedOK, CountsTypes DEF Succeed
  <2>2. Sound(Msg("OK", q, m.i, m.p, m.v))
    BY <2>1, MsgSound
  <2>3. NetOK'
    BY <1>6, <2>2, SendAdds DEF Succeed, NetOK
  <2>4. Catchup(q, instance[q] + 1, 0) /\ queued' = queued
        /\ req' = [req EXCEPT ![q] = NoValue]
    BY <1>6 DEF Succeed
  <2>5. LeaderOK'
    BY <2>1, <2>4, CatchupTypes DEF LeaderOK
  <2> QED
    BY <2>3, <2>5
<1>7. CASE TryNext(q, m)
  <2>1. instance[q] + 1 \in Instances \cup {MaxInstance + 1}
    BY <1>7, ReceivedOK, CountsTypes DEF TryNext
  <2>2. /\ Catchup(q, instance[q] + 1, 0) /\ ProposeAgain(q, instance[q] + 1, 0)
        /\ UNCHANGED <<up, req, queued>>
    BY <1>7 DEF TryNext
  <2>3. NetOK'
    BY <2>1, <2>2, ProposeAgainTypes
  <2>4. LeaderOK'
    BY <2>1, <2>2, CatchupTypes DEF LeaderOK
  <2> QED
    BY <2>3, <2>4
<1>8. CASE HearNack(q, m)
  <2>1. m.i \in Instances /\ m.p \in Nat
    BY <1>8, ReceivedOK DEF HearNack, WellFormed, Datagrams, Numbers
  <2>2. /\ Catchup(q, m.i, m.p) /\ ProposeAgain(q, m.i, m.p)
        /\ UNCHANGED <<up, req, queued>>
    BY <1>8 DEF HearNack
  <2>3. NetOK'
    BY <2>1, <2>2, ProposeAgainTypes
  <2>4. LeaderOK'
    BY <2>1, <2>2, CatchupTypes DEF LeaderOK
  <2> QED
    BY <2>3, <2>4
<1> QED
  BY <1>1, <1>2, <1>3, <1>4, <1>5, <1>6, <1>7, <1>8 DEF Leader

(* A dead process, its memory blank.                                       *)
LEMMA DieTypes ==
  ASSUME TypeOK, NEW q \in Ids, Die(q)
  PROVE  AcceptorOK' /\ LearnerOK' /\ LeaderOK' /\ up' \in [Ids -> BOOLEAN]
<1>1. up' \in [Ids -> BOOLEAN]
  BY DEF Die, TypeOK, NetOK
<1>2. AcceptorOK'
  BY DEF Die, TypeOK, AcceptorDown, AcceptorOK, Pairs
<1>3. LearnerOK'
  <2>1. /\ Unheard \in [Instances -> [Ids -> [p : Numbers \cup {-1}, v : Vals \cup {NoValue}]]]
        /\ Uncounted \in [Instances -> [Vals -> Int]]
        /\ Unlearned \in [Instances -> Vals \cup {NoValue}]
    BY DEF Unheard, Uncounted, Unlearned
  <2>2. /\ heard' = [heard EXCEPT ![q] = Unheard]
        /\ count' = [count EXCEPT ![q] = Uncounted]
        /\ written' = [written EXCEPT ![q] = Unlearned]
        /\ llog' = llog
    BY DEF Die, LearnerDown
  <2> QED
    BY <2>1, <2>2 DEF TypeOK, LearnerOK
<1>4. LeaderOK'
  <2>1. /\ 1 \in Instances \cup {MaxInstance + 1}
        /\ q \in Nat /\ 0 \in 0..MaxReqQ /\ 0 \in 0..N
    BY NetAssumption, LeaderAssumption DEF Instances, Ids
  <2> QED
    BY <2>1 DEF Die, LeaderDown, TypeOK, LeaderOK
<1> QED
  BY <1>1, <1>2, <1>3, <1>4

(* A process that starts again with what its log holds.                    *)
LEMMA RestartTypes ==
  ASSUME TypeOK, NEW q \in Ids, Restart(q)
  PROVE  TypeOK'
<1>1. NetOK'
  BY DEF Restart, TypeOK, NetOK
<1>2. AcceptorOK'
  <2>1. ASSUME NEW i \in Instances PROVE Kept(alog[q][i]) \in Pairs
    BY KeptPair DEF TypeOK, AcceptorOK
  <2> DEFINE a == [i \in Instances |-> Kept(alog[q][i])]
  <2>2. a \in [Instances -> Pairs]
    BY <2>1
  <2>3. /\ minp' = [minp EXCEPT ![q] = plog[q]]
        /\ accepted' = [accepted EXCEPT ![q] = a]
        /\ UNCHANGED <<plog, alog>>
    BY DEF Restart, AcceptorRecovers
  <2> HIDE DEF a
  <2> QED
    BY <2>2, <2>3 DEF TypeOK, AcceptorOK
<1>3. LearnerOK'
  <2> DEFINE w == [i \in Instances |-> IF llog[q][i] = NoValue THEN NoValue
                                       ELSE FirstWord(llog[q][i])]
  <2>1. w \in [Instances -> Vals \cup {NoValue}]
    BY ValueFacts DEF TypeOK, LearnerOK
  <2>2. /\ written' = [written EXCEPT ![q] = w]
        /\ UNCHANGED <<heard, count, llog>>
    BY DEF Restart, LearnerRecovers
  <2> HIDE DEF w
  <2> QED
    BY <2>1, <2>2 DEF TypeOK, LearnerOK
<1>4. LeaderOK'
  BY DEF Restart, TypeOK, leaderVars, LeaderOK
<1> QED
  BY <1>1, <1>2, <1>3, <1>4 DEF TypeOK

LEMMA InitTypes == Init => TypeOK
<1> SUFFICES ASSUME Init PROVE TypeOK
  OBVIOUS
<1>1. NetOK
  <2>1. IsFiniteSet(sent)
    <3> DEFINE R(v) == Msg("Request", Clients, 0, 0, v)
    <3> DEFINE S == {R(v) : v \in Values}
               f == [v \in Values |-> R(v)]
    <3>1. f \in Surjection(Values, S)
      BY DEF Surjection
    <3> HIDE DEF f
    <3>2. IsFiniteSet(S)
      BY <3>1, NetAssumption, FS_Surjection
    <3> QED
      BY <3>2 DEF Init, NetInit
  <2>2. \A m \in sent : m \in Datagrams /\ WellFormed(m)
    BY ValueFacts, NetAssumption DEF Init, NetInit, Msg, Datagrams, WellFormed, Numbers, Clients
  <2> QED
    BY <2>1, <2>2 DEF Init, NetInit, NetOK
<1>2. AcceptorOK
  BY DEF Init, AcceptorInit, Blank, AcceptorOK, Pairs
<1>3. LearnerOK
  BY DEF Init, LearnerInit, Unheard, Uncounted, Unlearned, LearnerOK
<1>4. LeaderOK
  BY NetAssumption, LeaderAssumption DEF Init, LeaderInit, LeaderOK, Instances, Ids
<1> QED
  BY <1>1, <1>2, <1>3, <1>4 DEF TypeOK

LEMMA NextTypes == TypeOK /\ [Next]_vars => TypeOK'
<1> SUFFICES ASSUME TypeOK, [Next]_vars PROVE TypeOK'
  OBVIOUS
<1>1. ASSUME NEW q \in Ids, Lead(q) PROVE TypeOK'
  BY <1>1, LeaderTypes DEF Lead, TypeOK, acceptorVars, learnerVars, AcceptorOK, LearnerOK
<1>2. ASSUME NEW q \in Ids, Accept(q) PROVE TypeOK'
  BY <1>2, AcceptorTypes DEF Accept, TypeOK, learnerVars, leaderVars, LearnerOK, LeaderOK
<1>3. ASSUME NEW q \in Ids, Hear(q) PROVE TypeOK'
  BY <1>3, LearnTypes DEF Hear, TypeOK, acceptorVars, leaderVars, AcceptorOK, LeaderOK
<1>4. ASSUME NEW q \in Ids, Crash(q) PROVE TypeOK'
  BY <1>4, DieTypes DEF Crash, TypeOK, NetOK
<1>5. ASSUME NEW q \in Ids, Panic(q) PROVE TypeOK'
  <2>1. PICK m \in sent : PanicOnQueue(q, m)
    BY <1>5 DEF Panic
  <2>2. m.i \in Instances /\ m.p \in Numbers /\ m.v \in Vals
    BY <2>1, ReceivedOK, CountsTypes DEF PanicOnQueue, TypeOK
  <2>3. Sound(Msg("OK", q, m.i, m.p, m.v))
    BY <2>2, MsgSound
  <2>4. IsFiniteSet(sent') /\ sent' \subseteq Datagrams /\ \A k \in sent' : WellFormed(k)
    BY <2>1, <2>3, SendAdds DEF PanicOnQueue, TypeOK, NetOK
  <2> QED
    BY <1>5, <2>4, DieTypes DEF Panic, TypeOK, NetOK
<1>6. ASSUME NEW q \in Ids, Restart(q) PROVE TypeOK'
  BY <1>6, RestartTypes
<1>7. CASE UNCHANGED vars
  BY <1>7 DEF vars, netVars, acceptorVars, learnerVars, leaderVars,
              TypeOK, NetOK, AcceptorOK, LearnerOK, LeaderOK
<1> QED
  BY <1>1, <1>2, <1>3, <1>4, <1>5, <1>6, <1>7 DEF Next

(* UPaxos keeps its types: in particular the values written, accepted and  *)
(* learned are requested ones or the first words of such, and the counts   *)
(* never leave their ranges (upaxos.go:184-440).                           *)
THEOREM UPaxosTypeOK == Spec => []TypeOK
BY InitTypes, NextTypes, PTL DEF Spec
=============================================================================
