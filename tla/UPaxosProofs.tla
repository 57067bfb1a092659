---------------------------- MODULE UPaxosProofs ----------------------------
(***************************************************************************)
(* Proofs about UPaxos for groups of any size, with or without duplicated  *)
(* datagrams: the acceptors keep their promises and tell what they have    *)
(* accepted across crashes, leaders write what they were told of, and      *)
(* learners learn from majorities.                                         *)
(***************************************************************************)
EXTENDS UPaxosTypes

(* What a value is after any number of restarts: itself or its first word. *)
Same(v, w) == v = w \/ v = FirstWord(w)

(* If values are words, it is itself.                                      *)
LEMMA OneWordStays ==
  ASSUME OneWordEach, NEW v, NEW w \in Vals, Same(v, w)
  PROVE  v = w
BY DEF OneWordEach, Vals, Same, FirstWord

(* The log of an acceptor against what it has sent, and its memory against *)
(* its log.                                                                *)
PromisesLogged(q, i) ==
  \A k \in From("Promise", q, i) : k.p <= plog[q][i]

AcceptsLogged(q, i) ==
  IF alog[q][i] = None THEN From("Accept", q, i) = {}
  ELSE \E k \in From("Accept", q, i) : k.p = alog[q][i].p /\ k.v = alog[q][i].v

Remembers(q, i) ==
  /\ minp[q][i] = plog[q][i]
  /\ IF alog[q][i] = None THEN accepted[q][i] = None
     ELSE /\ accepted[q][i] # None
          /\ accepted[q][i].p = alog[q][i].p
          /\ Same(accepted[q][i].v, alog[q][i].v)

(* A promise tells of an accept of its sender, or of its first word.        *)
TellsWords ==
  \A m \in New("Promise") :
    IF m.v = NoValue THEN From("Accept", m.s, m.i) = {}
    ELSE \E k \in From("Accept", m.s, m.i) : k.p = m.vp /\ Same(m.v, k.v)

AcceptorInv ==
  \A q \in Ids, i \in Instances :
    PromisesLogged(q, i) /\ AcceptsLogged(q, i) /\ (up[q] => Remembers(q, i))

(* Sending a text adds datagrams of that text only.                        *)
LEMMA SendsText ==
  ASSUME NEW op, NEW s, NEW i, NEW p, NEW v, Send(Msg(op, s, i, p, v))
  PROVE  /\ sent \subseteq sent'
         /\ \A k \in sent' \ sent : k.op = op /\ k.s = s /\ k.i = i /\ k.p = p /\ k.v = v
         /\ \E k \in sent' : k.op = op /\ k.s = s /\ k.i = i /\ k.p = p /\ k.v = v
<1> DEFINE c == IF Duplicates THEN 0 ELSE Cardinality(Twins(Msg(op, s, i, p, v)))
           d == [Msg(op, s, i, p, v) EXCEPT !.copy = c]
<1>1. sent' = sent \cup {d}
  BY DEF Send
<1> HIDE DEF c
<1>2. d.op = op /\ d.s = s /\ d.i = i /\ d.p = p /\ d.v = v
  BY DEF Msg
<1> HIDE DEF d
<1> QED
  BY <1>1, <1>2

(* No step of a leader sends a promise or an accept.                       *)
Silent == sent \subseteq sent' /\ \A k \in sent' \ sent : k.op \notin {"Promise", "Accept"}

LEMMA LeaderSilent ==
  ASSUME NEW q, NEW m, Leader(q, m)
  PROVE  Silent
<1>1. ASSUME NEW i, NEW p, ProposeAgain(q, i, p) PROVE Silent
  BY <1>1, SendsText DEF ProposeAgain, Proposal, Silent
<1>2. CASE TakeRequest(q, m)
  BY <1>2, SendsText DEF TakeRequest, Proposal, Silent
<1>3. CASE QueueRequest(q, m) \/ SnoopPromise(q, m) \/ CountAccept(q, m)
  BY <1>3 DEF QueueRequest, SnoopPromise, CountAccept, Silent
<1>4. CASE CountPromise(q, m)
  <2>1. (\E v : Send(Msg("Write", q, m.i, m.p, v))) \/ sent' = sent
    BY <1>4 DEF CountPromise
  <2> QED
    BY <2>1, SendsText DEF Silent
<1>5. CASE Succeed(q, m)
  BY <1>5, SendsText DEF Succeed, Silent
<1>6. CASE TryNext(q, m) \/ HearNack(q, m)
  BY <1>1, <1>6 DEF TryNext, HearNack
<1> QED
  BY <1>2, <1>3, <1>4, <1>5, <1>6 DEF Leader

(* After a silent step everybody has sent the same promises and accepts.   *)
LEMMA SilentFrom ==
  ASSUME Silent, NEW q, NEW i
  PROVE  /\ From("Promise", q, i)' = From("Promise", q, i)
         /\ From("Accept", q, i)' = From("Accept", q, i)
         /\ New("Promise") = {} /\ New("Accept") = {}
BY DEF Silent, From, New

LEMMA SilentKeeps ==
  ASSUME AcceptorInv, Silent, UNCHANGED <<up, acceptorVars>>
  PROVE  AcceptorInv' /\ KeepsPromises /\ TellsWords
<1>1. KeepsPromises /\ TellsWords
  BY SilentFrom DEF KeepsPromises, TellsWords
<1>2. ASSUME NEW q \in Ids, NEW i \in Instances
      PROVE  (PromisesLogged(q, i) /\ AcceptsLogged(q, i) /\ (up[q] => Remembers(q, i)))'
  BY SilentFrom DEF AcceptorInv, PromisesLogged, AcceptsLogged, Remembers, acceptorVars
<1> QED
  BY <1>1, <1>2 DEF AcceptorInv

(* Another acceptor or another instance is left alone by q's step on i.    *)
Elsewhere(q, i) ==
  \A r \in Ids, j \in Instances : <<r, j>> # <<q, i>> =>
    /\ minp'[r][j] = minp[r][j] /\ plog'[r][j] = plog[r][j]
    /\ accepted'[r][j] = accepted[r][j] /\ alog'[r][j] = alog[r][j]

SpeaksOf(op, q, i) ==
  /\ sent \subseteq sent'
  /\ \A k \in sent' \ sent : k.op = op /\ k.s = q /\ k.i = i

LEMMA ElsewhereKeeps ==
  ASSUME AcceptorInv, up' = up, NEW op, NEW q \in Ids, NEW i \in Instances,
         Elsewhere(q, i), SpeaksOf(op, q, i),
         (PromisesLogged(q, i) /\ AcceptsLogged(q, i) /\ (up[q] => Remembers(q, i)))'
  PROVE  AcceptorInv'
<1> SUFFICES ASSUME NEW r \in Ids, NEW j \in Instances, <<r, j>> # <<q, i>>
             PROVE  (PromisesLogged(r, j) /\ AcceptsLogged(r, j) /\ (up[r] => Remembers(r, j)))'
  BY DEF AcceptorInv
<1>1. From("Promise", r, j)' = From("Promise", r, j) /\ From("Accept", r, j)' = From("Accept", r, j)
  BY DEF SpeaksOf, From
<1>2. PromisesLogged(r, j)'
  BY <1>1 DEF AcceptorInv, PromisesLogged, Elsewhere
<1>3. AcceptsLogged(r, j)'
  BY <1>1 DEF AcceptorInv, AcceptsLogged, Elsewhere
<1>4. (up[r] => Remembers(r, j))'
  BY DEF AcceptorInv, Remembers, Elsewhere
<1> QED
  BY <1>2, <1>3, <1>4

(* "Propose" answered by a promise: the promise is logged before it is     *)
(* sent (upaxos.go:351-353), and it is at least the ones before.           *)
LEMMA PromiseKeeps ==
  ASSUME TypeOK, AcceptorInv, NEW q \in Ids, NEW m, PromiseTo(q, m)
  PROVE  AcceptorInv' /\ KeepsPromises /\ TellsWords
<1> DEFINE i == m.i
           a == accepted[q][i]
<1>1. i \in Instances /\ m.p \in Numbers /\ up[q]
  BY ReceivedOK DEF PromiseTo, TypeOK, WellFormed, Datagrams, Received
<1>2. /\ minp' = [minp EXCEPT ![q][i] = m.p] /\ plog' = [plog EXCEPT ![q][i] = m.p]
      /\ m.p >= minp[q][i] /\ UNCHANGED <<up, accepted, alog>>
  BY DEF PromiseTo
<1>3. Remembers(q, i) /\ PromisesLogged(q, i) /\ AcceptsLogged(q, i)
  BY <1>1 DEF AcceptorInv
<1>4. \E c \in Nat : sent' = sent \cup {[Promise(q, i, m.p) EXCEPT !.copy = c]}
  <2>1. a \in Pairs
    BY <1>1 DEF TypeOK, AcceptorOK
  <2>2. Sound(Promise(q, i, m.p))
    BY <1>1, <2>1, ValueFacts
    DEF Promise, Msg, Pairs, None, Sound, Datagrams, WellFormed, Numbers
  <2> QED
    BY <2>2, SendAdds DEF PromiseTo, TypeOK
<1>5. PICK d \in sent' : /\ sent' = sent \cup {d}
                         /\ d.op = "Promise" /\ d.s = q /\ d.i = i /\ d.p = m.p
                         /\ d.v = a.v /\ d.vp = a.p
  <2>1. PICK c \in Nat : sent' = sent \cup {[Promise(q, i, m.p) EXCEPT !.copy = c]}
    BY <1>4
  <2> DEFINE e == [Promise(q, i, m.p) EXCEPT !.copy = c]
  <2>2. e.op = "Promise" /\ e.s = q /\ e.i = i /\ e.p = m.p /\ e.v = a.v /\ e.vp = a.p
    BY DEF Promise, Msg
  <2>3. sent' = sent \cup {e}
    BY <2>1
  <2> HIDE DEF e
  <2> QED
    BY <2>2, <2>3
<1>6. SpeaksOf("Promise", q, i)
  BY <1>5 DEF SpeaksOf
<1>7. Elsewhere(q, i)
  BY <1>1, <1>2 DEF Elsewhere, TypeOK, AcceptorOK
<1>8. plog'[q][i] = m.p /\ minp'[q][i] = m.p
  BY <1>1, <1>2 DEF TypeOK, AcceptorOK
<1>9. PromisesLogged(q, i)'
  <2> SUFFICES ASSUME NEW k \in From("Promise", q, i)' PROVE k.p <= m.p
    BY <1>8 DEF PromisesLogged
  <2>1. CASE k = d
    BY <1>1, <1>5, <2>1 DEF Numbers
  <2>2. CASE k # d
    <3>1. k \in From("Promise", q, i) /\ k \in sent
      BY <1>5, <2>2 DEF From
    <3>2. k.p <= minp[q][i]
      BY <1>3, <3>1 DEF Remembers, PromisesLogged
    <3>3. k.p \in Int /\ minp[q][i] \in Int /\ m.p \in Int
      BY <1>1, <3>1 DEF TypeOK, NetOK, AcceptorOK, Datagrams, Numbers
    <3> QED
      BY <1>2, <3>2, <3>3
  <2> QED
    BY <2>1, <2>2
<1>10. From("Accept", q, i)' = From("Accept", q, i)
  BY <1>5 DEF From
<1>11. AcceptsLogged(q, i)' /\ Remembers(q, i)'
  BY <1>2, <1>3, <1>8, <1>10 DEF AcceptsLogged, Remembers
<1>12. AcceptorInv'
  BY <1>2, <1>1, <1>6, <1>7, <1>9, <1>11, ElsewhereKeeps
<1>13. KeepsPromises
  BY <1>5 DEF KeepsPromises, New
<1>14. TellsWords
  <2> SUFFICES IF d.v = NoValue THEN From("Accept", q, i) = {}
               ELSE \E k \in From("Accept", q, i) : k.p = d.vp /\ Same(d.v, k.v)
    BY <1>5 DEF TellsWords, New
  <2>1. CASE alog[q][i] = None
    BY <1>3, <1>5, <2>1 DEF Remembers, AcceptsLogged, None
  <2>2. CASE alog[q][i] # None
    <3>1. a # None /\ a.p = alog[q][i].p /\ Same(a.v, alog[q][i].v)
      BY <1>3, <2>2 DEF Remembers
    <3>2. a.v # NoValue
      BY <1>1, <3>1, ValueFacts DEF TypeOK, AcceptorOK, Pairs
    <3> QED
      BY <1>3, <1>5, <2>2, <3>1, <3>2 DEF AcceptsLogged
  <2> QED
    BY <2>1, <2>2
<1> QED
  BY <1>12, <1>13, <1>14

(* "Write" answered by an accept: what is accepted is what is logged and   *)
(* sent (upaxos.go:369-371).                                               *)
LEMMA AcceptKeeps ==
  ASSUME TypeOK, AcceptorInv, NEW q \in Ids, NEW m, AcceptWrite(q, m)
  PROVE  AcceptorInv' /\ KeepsPromises /\ TellsWords
<1> DEFINE i == m.i
           w == [p |-> m.p, v |-> m.v]
<1>1. i \in Instances /\ m.p \in Numbers /\ m.v \in Vals /\ up[q]
  BY ReceivedOK DEF AcceptWrite, TypeOK, WellFormed, Datagrams, Received
<1>2. /\ accepted' = [accepted EXCEPT ![q][i] = w] /\ alog' = [alog EXCEPT ![q][i] = w]
      /\ m.p >= minp[q][i] /\ UNCHANGED <<up, minp, plog>>
  BY DEF AcceptWrite
<1>3. Remembers(q, i) /\ PromisesLogged(q, i)
  BY <1>1 DEF AcceptorInv
<1>4. /\ SpeaksOf("Accept", q, i)
      /\ \A k \in sent' \ sent : k.op = "Accept" /\ k.s = q /\ k.i = i /\ k.p = m.p
      /\ \E k \in sent' : k.op = "Accept" /\ k.s = q /\ k.i = i /\ k.p = m.p /\ k.v = m.v
  BY SendsText DEF AcceptWrite, SpeaksOf
<1>5. Elsewhere(q, i)
  BY <1>1, <1>2 DEF Elsewhere, TypeOK, AcceptorOK
<1>6. alog'[q][i] = w /\ accepted'[q][i] = w /\ w # None
  BY <1>1, <1>2, ValueFacts DEF TypeOK, AcceptorOK, None
<1>7. AcceptsLogged(q, i)'
  <2>1. \E k \in From("Accept", q, i)' : k.p = m.p /\ k.v = m.v
    BY <1>4 DEF From
  <2> QED
    BY <1>6, <2>1 DEF AcceptsLogged
<1>8. Remembers(q, i)'
  BY <1>2, <1>3, <1>6 DEF Remembers, Same
<1>9. PromisesLogged(q, i)'
  <2>1. From("Promise", q, i)' = From("Promise", q, i)
    BY <1>4 DEF From, SpeaksOf
  <2> QED
    BY <1>2, <1>3, <2>1 DEF PromisesLogged
<1>10. AcceptorInv'
  BY <1>2, <1>1, <1>4, <1>5, <1>7, <1>8, <1>9, ElsewhereKeeps
<1>11. KeepsPromises
  <2> SUFFICES ASSUME NEW d \in New("Accept"), NEW k \in From("Promise", d.s, d.i)
               PROVE  k.p <= d.p
    BY DEF KeepsPromises
  <2>1. d.s = q /\ d.i = i /\ d.p = m.p
    BY <1>4 DEF New
  <2>2. k.p <= minp[q][i]
    BY <1>3, <2>1 DEF PromisesLogged, Remembers
  <2>3. k.p \in Int /\ minp[q][i] \in Int /\ m.p \in Int
    BY <1>1 DEF From, TypeOK, NetOK, AcceptorOK, Datagrams, Numbers
  <2> QED
    BY <1>2, <2>1, <2>2, <2>3
<1>12. TellsWords
  BY <1>4 DEF TellsWords, New
<1> QED
  BY <1>10, <1>11, <1>12

(* A dead acceptor keeps its log; the death may lose its last datagrams.   *)
LEMMA DownKeeps ==
  ASSUME TypeOK, AcceptorInv, NEW q \in Ids, Die(q), Silent
  PROVE  AcceptorInv' /\ KeepsPromises /\ TellsWords
<1>1. KeepsPromises /\ TellsWords
  BY SilentFrom DEF KeepsPromises, TellsWords
<1>2. plog' = plog /\ alog' = alog /\ ~up'[q]
  BY DEF Die, AcceptorDown, TypeOK, NetOK
<1>3. ASSUME NEW r \in Ids, NEW i \in Instances
      PROVE  (PromisesLogged(r, i) /\ AcceptsLogged(r, i) /\ (up[r] => Remembers(r, i)))'
  <2>1. PromisesLogged(r, i)' /\ AcceptsLogged(r, i)'
    BY <1>2, SilentFrom DEF AcceptorInv, PromisesLogged, AcceptsLogged
  <2>2. CASE r = q
    BY <1>2, <2>1, <2>2
  <2>3. CASE r # q
    <3>1. up'[r] = up[r] /\ minp'[r] = minp[r] /\ accepted'[r] = accepted[r]
      BY <2>3 DEF Die, AcceptorDown, TypeOK, NetOK, AcceptorOK
    <3> QED
      BY <1>2, <2>1, <3>1 DEF AcceptorInv, Remembers
  <2> QED
    BY <2>2, <2>3
<1> QED
  BY <1>1, <1>3 DEF AcceptorInv

(* Recovery puts the log back into memory.                                 *)
LEMMA RestartKeeps ==
  ASSUME TypeOK, AcceptorInv, NEW q \in Ids, Restart(q)
  PROVE  AcceptorInv' /\ KeepsPromises /\ TellsWords
<1>1. KeepsPromises /\ TellsWords /\ Silent
  BY SilentFrom DEF Restart, KeepsPromises, TellsWords, New, Silent
<1>2. plog' = plog /\ alog' = alog
  BY DEF Restart, AcceptorRecovers
<1>3. ASSUME NEW r \in Ids, NEW i \in Instances
      PROVE  (PromisesLogged(r, i) /\ AcceptsLogged(r, i) /\ (up[r] => Remembers(r, i)))'
  <2>1. PromisesLogged(r, i)' /\ AcceptsLogged(r, i)'
    BY <1>1, <1>2, SilentFrom DEF AcceptorInv, PromisesLogged, AcceptsLogged
  <2>2. CASE r = q
    <3>1. minp'[q][i] = plog[q][i] /\ accepted'[q][i] = Kept(alog[q][i])
      BY DEF Restart, AcceptorRecovers, TypeOK, AcceptorOK
    <3>2. CASE alog[q][i] = None
      BY <1>2, <2>1, <2>2, <3>1, <3>2 DEF Remembers, Kept
    <3>3. CASE alog[q][i] # None
      <4>1. alog[q][i] \in Pairs
        BY DEF TypeOK, AcceptorOK
      <4>2. alog[q][i].v \in Vals
        BY <3>3, <4>1 DEF Pairs
      <4>3. Kept(alog[q][i]) = [p |-> alog[q][i].p, v |-> FirstWord(alog[q][i].v)]
        BY <3>3, <4>1, KeptPair
      <4>4. accepted'[q][i] # None
        BY <3>1, <4>2, <4>3, ValueFacts DEF None
      <4> QED
        BY <1>2, <2>1, <2>2, <3>1, <3>3, <4>3, <4>4 DEF Remembers, Same
    <3> QED
      BY <3>2, <3>3
  <2>3. CASE r # q
    <3>1. up'[r] = up[r] /\ minp'[r] = minp[r] /\ accepted'[r] = accepted[r]
      BY <2>3 DEF Restart, AcceptorRecovers, TypeOK, NetOK, AcceptorOK
    <3> QED
      BY <1>2, <2>1, <3>1 DEF AcceptorInv, Remembers
  <2> QED
    BY <2>2, <2>3
<1> QED
  BY <1>1, <1>3 DEF AcceptorInv

LEMMA InitAcceptors == Init => AcceptorInv
<1> SUFFICES ASSUME Init PROVE AcceptorInv
  OBVIOUS
<1>1. \A q, i : From("Promise", q, i) = {} /\ From("Accept", q, i) = {}
  BY DEF Init, NetInit, From, Msg
<1> QED
  BY <1>1 DEF Init, AcceptorInit, Blank, AcceptorInv, PromisesLogged, AcceptsLogged, Remembers

LEMMA NextAcceptors ==
  TypeOK /\ AcceptorInv /\ [Next]_vars => AcceptorInv' /\ KeepsPromises /\ TellsWords
<1> SUFFICES ASSUME TypeOK, AcceptorInv, [Next]_vars
             PROVE  AcceptorInv' /\ KeepsPromises /\ TellsWords
  OBVIOUS
<1>1. ASSUME NEW q \in Ids, Lead(q)
      PROVE  AcceptorInv' /\ KeepsPromises /\ TellsWords
  <2>1. PICK m \in sent : Leader(q, m)
    BY <1>1 DEF Lead
  <2>2. up' = up
    BY <2>1 DEF Leader, TakeRequest, QueueRequest, CountPromise, SnoopPromise,
                CountAccept, Succeed, TryNext, HearNack
  <2> QED
    BY <1>1, <2>1, <2>2, LeaderSilent, SilentKeeps DEF Lead
<1>2. ASSUME NEW q \in Ids, Accept(q)
      PROVE  AcceptorInv' /\ KeepsPromises /\ TellsWords
  <2>1. PICK m \in sent : Acceptor(q, m)
    BY <1>2 DEF Accept
  <2>2. CASE Refuse(q, m)
    <3>1. Silent /\ UNCHANGED <<up, acceptorVars>>
      BY <2>2, SendsText DEF Refuse, Silent, acceptorVars
    <3> QED
      BY <3>1, SilentKeeps
  <2> QED
    BY <2>1, <2>2, PromiseKeeps, AcceptKeeps DEF Acceptor
<1>3. ASSUME NEW q \in Ids, Hear(q)
      PROVE  AcceptorInv' /\ KeepsPromises /\ TellsWords
  <2>1. Silent /\ UNCHANGED <<up, acceptorVars>>
    BY <1>3 DEF Hear, Learn, Silent, acceptorVars
  <2> QED
    BY <2>1, SilentKeeps
<1>4. ASSUME NEW q \in Ids, Crash(q)
      PROVE  AcceptorInv' /\ KeepsPromises /\ TellsWords
  <2>1. Die(q) /\ Silent
    BY <1>4 DEF Crash, Silent
  <2> QED
    BY <2>1, DownKeeps
<1>5. ASSUME NEW q \in Ids, Panic(q)
      PROVE  AcceptorInv' /\ KeepsPromises /\ TellsWords
  <2>1. Die(q) /\ Silent
    BY <1>5, SendsText DEF Panic, PanicOnQueue, Silent
  <2> QED
    BY <2>1, DownKeeps
<1>6. ASSUME NEW q \in Ids, Restart(q)
      PROVE  AcceptorInv' /\ KeepsPromises /\ TellsWords
  BY <1>6, RestartKeeps
<1>7. CASE UNCHANGED vars
  <2>1. Silent /\ UNCHANGED <<up, acceptorVars>>
    BY <1>7 DEF vars, netVars, acceptorVars, Silent
  <2> QED
    BY <2>1, SilentKeeps
<1> QED
  BY <1>1, <1>2, <1>3, <1>4, <1>5, <1>6, <1>7 DEF Next

(* No step takes a datagram back.                                          *)
LEMMA SentGrows == TypeOK /\ [Next]_vars => sent \subseteq sent'
<1> SUFFICES ASSUME TypeOK, [Next]_vars PROVE sent \subseteq sent'
  OBVIOUS
<1>1. ASSUME NEW q \in Ids, Lead(q) PROVE sent \subseteq sent'
  BY <1>1, LeaderSilent DEF Lead, Silent
<1>2. ASSUME NEW q \in Ids, Accept(q) PROVE sent \subseteq sent'
  BY <1>2, SendsText DEF Accept, Acceptor, Refuse, PromiseTo, AcceptWrite, Promise, Send
<1>3. ASSUME NEW q \in Ids, Panic(q) PROVE sent \subseteq sent'
  BY <1>3 DEF Panic, PanicOnQueue, Send
<1>4. ASSUME NEW q \in Ids, Hear(q) \/ Crash(q) \/ Restart(q) PROVE sent \subseteq sent'
  BY <1>4 DEF Hear, Learn, Crash, Restart
<1>5. CASE UNCHANGED vars
  BY <1>5 DEF vars, netVars
<1> QED
  BY <1>1, <1>2, <1>3, <1>4, <1>5 DEF Next

LEMMA UPaxosAcceptorInv == Spec => []AcceptorInv
BY InitAcceptors, NextAcceptors, UPaxosTypeOK, PTL DEF Spec

(* No acceptor accepts a number below one it has promised, in however many *)
(* lives (upaxos.go:344-372 and 331-337).                                  *)
THEOREM UPaxosPromisesKept == Spec => PromisesKept
BY NextAcceptors, UPaxosAcceptorInv, UPaxosTypeOK, PTL DEF Spec, PromisesKept

(* A word that is told is the value that was accepted.                     *)
LEMMA WordsTold == OneWordEach /\ TypeOK /\ TellsWords => TellsAccepts
<1> SUFFICES ASSUME OneWordEach, TypeOK, TellsWords, NEW m \in New("Promise")
             PROVE  IF m.v = NoValue THEN From("Accept", m.s, m.i) = {}
                    ELSE \E k \in From("Accept", m.s, m.i) : k.p = m.vp /\ k.v = m.v
  BY DEF TellsAccepts
<1>1. CASE m.v = NoValue
  BY <1>1 DEF TellsWords
<1>2. CASE m.v # NoValue
  <2>1. PICK k \in From("Accept", m.s, m.i) : k.p = m.vp /\ Same(m.v, k.v)
    BY <1>2 DEF TellsWords
  <2>2. k.v \in Vals
    BY DEF From, TypeOK, NetOK, WellFormed
  <2> QED
    BY <1>2, <2>1, <2>2, OneWordStays
<1> QED
  BY <1>1, <1>2

(* Of values of one word each, every promise tells exactly what its sender *)
(* has accepted, if anything, in however many lives (upaxos.go:88-89,      *)
(* 354-358, 372 and 519-531).                                              *)
THEOREM UPaxosPromisesTell == OneWordEach /\ Spec => PromisesTell
<1> SUFFICES ASSUME OneWordEach PROVE Spec => PromisesTell
  OBVIOUS
<1>1. TypeOK /\ AcceptorInv /\ [Next]_vars => [TellsAccepts]_vars
  BY NextAcceptors, WordsTold
<1> QED
  BY <1>1, UPaxosAcceptorInv, UPaxosTypeOK, PTL DEF Spec, PromisesTell

(* So all that was ever promised had been accepted: only values of several *)
(* words bring the comment at upaxos.go:88-89 and the code apart.          *)
THEOREM UPaxosPromisedWasAccepted ==
  OneWordEach /\ Spec => []PromisedWasAccepted
<1> SUFFICES ASSUME OneWordEach PROVE Spec => []PromisedWasAccepted
  OBVIOUS
<1>1. Init => PromisedWasAccepted
  BY DEF Init, NetInit, Msg, PromisedWasAccepted
<1>2. TypeOK /\ AcceptorInv /\ PromisedWasAccepted /\ [Next]_vars => PromisedWasAccepted'
  <2> SUFFICES ASSUME TypeOK, AcceptorInv, PromisedWasAccepted, [Next]_vars,
                      NEW m \in sent', m.op = "Promise", m.v # NoValue
               PROVE  \E k \in From("Accept", m.s, m.i)' : k.p = m.vp /\ k.v = m.v
    BY DEF PromisedWasAccepted
  <2>1. From("Accept", m.s, m.i) \subseteq From("Accept", m.s, m.i)'
    BY SentGrows DEF From
  <2>2. CASE m \in sent
    BY <2>1, <2>2 DEF PromisedWasAccepted
  <2>3. CASE m \notin sent
    <3>1. TellsAccepts /\ m \in New("Promise")
      BY <2>3, NextAcceptors, WordsTold DEF New
    <3> QED
      BY <2>1, <3>1 DEF TellsAccepts
  <2> QED
    BY <2>2, <2>3
<1> QED
  BY <1>1, <1>2, UPaxosAcceptorInv, UPaxosTypeOK, PTL DEF Spec

-----------------------------------------------------------------------------
(* History.                                                                *)

(* Whatever the values: the log, or what recovery keeps of it.             *)
HistorySame ==
  \A q \in Ids, i \in Instances :
    up[q] => IF llog[q][i] = NoValue THEN written[q][i] = NoValue
                                     ELSE Same(written[q][i], llog[q][i])

LEMMA NextHistory ==
  TypeOK /\ HistorySame /\ [Next]_vars => HistorySame'
<1> SUFFICES ASSUME TypeOK, HistorySame, [Next]_vars,
                    NEW r \in Ids, NEW j \in Instances
             PROVE  (up[r] => IF llog[r][j] = NoValue THEN written[r][j] = NoValue
                              ELSE Same(written[r][j], llog[r][j]))'
  BY DEF HistorySame
<1> USE DEF HistorySame
<1>1. CASE UNCHANGED <<up, written, llog>>
  BY <1>1
<1>2. ASSUME NEW q \in Ids, Lead(q) \/ Accept(q) PROVE UNCHANGED <<up, written, llog>>
  BY <1>2 DEF Lead, Accept, learnerVars, Leader, TakeRequest, QueueRequest, CountPromise,
              SnoopPromise, CountAccept, Succeed, TryNext, HearNack,
              Acceptor, Refuse, PromiseTo, AcceptWrite
<1>3. ASSUME NEW q \in Ids, NEW m \in sent, Learn(q, m), ~UNCHANGED <<written, llog>>
      PROVE  /\ up' = up
             /\ llog' = [llog EXCEPT ![q][m.i] = m.v]
             /\ written' = [written EXCEPT ![q][m.i] = m.v]
  BY <1>3 DEF Learn
<1>4. ASSUME NEW q \in Ids, Hear(q)
      PROVE  (up[r] => IF llog[r][j] = NoValue THEN written[r][j] = NoValue
                       ELSE Same(written[r][j], llog[r][j]))'
  <2>1. PICK m \in sent : Learn(q, m)
    BY <1>4 DEF Hear
  <2>2. up' = up
    BY <2>1 DEF Learn
  <2>3. CASE UNCHANGED <<written, llog>>
    BY <1>1, <2>2, <2>3
  <2>4. CASE ~UNCHANGED <<written, llog>>
    <3>1. /\ llog' = [llog EXCEPT ![q][m.i] = m.v]
          /\ written' = [written EXCEPT ![q][m.i] = m.v]
      BY <1>3, <2>1, <2>4
    <3>2. CASE r = q /\ j = m.i
      <4>1. llog'[r][j] = m.v /\ written'[r][j] = m.v
        BY <3>1, <3>2 DEF TypeOK, LearnerOK
      <4> QED
        BY <4>1 DEF Same
    <3>3. CASE ~(r = q /\ j = m.i)
      <4>1. llog'[r][j] = llog[r][j] /\ written'[r][j] = written[r][j]
        BY <3>1, <3>3 DEF TypeOK, LearnerOK
      <4> QED
        BY <2>2, <4>1
    <3> QED
      BY <3>2, <3>3
  <2> QED
    BY <2>3, <2>4
<1>5. ASSUME NEW q \in Ids, Die(q)
      PROVE  (up[r] => IF llog[r][j] = NoValue THEN written[r][j] = NoValue
                       ELSE Same(written[r][j], llog[r][j]))'
  BY <1>5 DEF Die, LearnerDown, TypeOK, NetOK, LearnerOK
<1>6. ASSUME NEW q \in Ids, Restart(q)
      PROVE  (up[r] => IF llog[r][j] = NoValue THEN written[r][j] = NoValue
                       ELSE Same(written[r][j], llog[r][j]))'
  BY <1>6 DEF Restart, LearnerRecovers, Same, TypeOK, NetOK, LearnerOK
<1>7. CASE UNCHANGED vars
  BY <1>1, <1>7 DEF vars, netVars, learnerVars
<1> QED
  BY <1>1, <1>2, <1>4, <1>5, <1>6, <1>7 DEF Next, Crash, Panic

(* Of values of one word each, a running participant knows exactly the     *)
(* ones in its log (upaxos.go:393-401 and 430-441).                        *)
THEOREM UPaxosHistoryKept == OneWordEach /\ Spec => []HistoryKept
<1> SUFFICES ASSUME OneWordEach PROVE Spec => []HistoryKept
  OBVIOUS
<1>1. Init => HistorySame
  BY DEF Init, LearnerInit, Unlearned, HistorySame
<1>2. TypeOK /\ HistorySame => HistoryKept
  <2> SUFFICES ASSUME TypeOK, HistorySame, NEW q \in Ids, up[q]
               PROVE  written[q] = llog[q]
    BY DEF HistoryKept
  <2>1. ASSUME NEW i \in Instances
        PROVE  written[q][i] = llog[q][i]
    <3>1. llog[q][i] \in Vals \cup {NoValue}
      BY DEF TypeOK, LearnerOK
    <3> QED
      BY <2>1, <3>1, OneWordStays DEF HistorySame
  <2>2. /\ written[q] \in [Instances -> Vals \cup {NoValue}]
        /\ llog[q] \in [Instances -> Vals \cup {NoValue}]
    BY DEF TypeOK, LearnerOK
  <2> QED
    BY <2>1, <2>2
<1> QED
  BY <1>1, <1>2, NextHistory, UPaxosTypeOK, PTL DEF Spec

-----------------------------------------------------------------------------
(* Majorities.                                                             *)

(* The hosts that have value v in h.                                       *)
Backers(h, v) == {s \in Ids : h[s].v = v}

LearnerInv(q, i) ==
  /\ \A s \in Ids : heard[q][i][s].v # NoValue => s \in AcceptedBy(i, heard[q][i][s].v)
  /\ \A v \in Vals : count[q][i][v] = Cardinality(Backers(heard[q][i], v))
  /\ llog[q][i] # NoValue => Majority(Cardinality(AcceptedBy(i, llog[q][i])))
  /\ written[q][i] # NoValue => llog[q][i] # NoValue /\ Same(written[q][i], llog[q][i])

MajorityInv == \A q \in Ids, i \in Instances : LearnerInv(q, i)

LEMMA IdsFinite ==
  /\ IsFiniteSet(Ids)
  /\ \A S \in SUBSET Ids : IsFiniteSet(S) /\ Cardinality(S) \in Nat
<1>1. IsFiniteSet(Ids)
  <2>1. 0 \in Int /\ N - 1 \in Int
    BY NetAssumption
  <2> QED
    BY <2>1, FS_Interval DEF Ids
<1> QED
  BY <1>1, FS_Subset, FS_CardinalityType

(* A larger set of hosts is a majority if a smaller one is.                *)
LEMMA MajorityGrows ==
  ASSUME NEW S \in SUBSET Ids, NEW T \in SUBSET Ids, S \subseteq T,
         Majority(Cardinality(S))
  PROVE  Majority(Cardinality(T))
<1>1. Cardinality(S) <= Cardinality(T)
  BY IdsFinite, FS_Subset
<1>2. Cardinality(S) \in Nat /\ Cardinality(T) \in Nat /\ N \div 2 \in Nat
  BY IdsFinite, NetAssumption
<1> QED
  BY <1>1, <1>2 DEF Majority

(* Recount keeps the counts of the hosts by value.                         *)
LEMMA RecountCounts ==
  ASSUME NEW h, NEW g, NEW n \in [Vals -> Int], NEW s \in Ids, NEW v \in Vals,
         NEW w \in Vals,
         n[w] = Cardinality(Backers(h, w)),
         g[s].v = v, \A t \in Ids \ {s} : g[t] = h[t]
  PROVE  Recount(n, h[s].v, v)[w] = Cardinality(Backers(g, w))
<1> DEFINE old == h[s].v
           S == Backers(h, w)
           T == Backers(g, w)
<1>1. Recount(n, old, v)[w] = n[w] + (IF w = v THEN 1 ELSE 0)
                                   - (IF w = old THEN 1 ELSE 0)
  BY ValueFacts DEF Recount
<1>2. IsFiniteSet(S) /\ Cardinality(S) \in Nat /\ n[w] = Cardinality(S)
  BY IdsFinite DEF Backers
<1>3. CASE (w = v) <=> (w = old)
  <2>1. S = T
    BY <1>3 DEF Backers
  <2> HIDE DEF S, T
  <2>2. Recount(n, old, v)[w] = n[w]
    BY <1>1, <1>2, <1>3
  <2> QED
    BY <1>2, <2>1, <2>2 DEF T
<1>4. CASE w = v /\ w # old
  <2>1. s \notin S /\ T = S \cup {s}
    BY <1>4 DEF Backers
  <2> HIDE DEF S, T
  <2>2. Cardinality(T) = Cardinality(S) + 1
    BY <1>2, <2>1, FS_AddElement
  <2> QED
    BY <1>1, <1>2, <1>4, <2>2 DEF T
<1>5. CASE w # v /\ w = old
  <2>1. s \in S /\ T = S \ {s}
    BY <1>5 DEF Backers
  <2> HIDE DEF S, T
  <2>2. Cardinality(T) = Cardinality(S) - 1
    BY <1>2, <2>1, FS_RemoveElement
  <2> QED
    BY <1>1, <1>2, <1>5, <2>2 DEF T
<1> QED
  BY <1>3, <1>4, <1>5

(* More accepts sent, or none, leaves a learner's invariant in place.      *)
LEMMA LearnerSameOn ==
  ASSUME NEW q \in Ids, NEW i \in Instances, LearnerInv(q, i), sent \subseteq sent',
         /\ heard'[q][i] = heard[q][i] /\ count'[q][i] = count[q][i]
         /\ written'[q][i] = written[q][i] /\ llog'[q][i] = llog[q][i]
  PROVE  LearnerInv(q, i)'
<1>1. \A k \in sent : k \in sent'
  OBVIOUS
<1>2. \A s \in Ids : (heard[q][i][s].v # NoValue => s \in AcceptedBy(i, heard[q][i][s].v))'
  BY <1>1 DEF LearnerInv, AcceptedBy, From
<1>3. \A v \in Vals : Backers(heard[q][i], v)' = Backers(heard[q][i], v)
  BY DEF Backers
<1>4. (llog[q][i] # NoValue => Majority(Cardinality(AcceptedBy(i, llog[q][i]))))'
  <2> DEFINE S == AcceptedBy(i, llog[q][i])
  <2>1. llog'[q][i] # NoValue => Majority(Cardinality(S))
    BY DEF LearnerInv
  <2>2. S \subseteq S' /\ S \in SUBSET Ids /\ S' \in SUBSET Ids
    BY <1>1 DEF AcceptedBy, From
  <2> HIDE DEF S
  <2>3. llog'[q][i] # NoValue => Majority(Cardinality(S'))
    BY <2>1, <2>2, MajorityGrows
  <2> QED
    BY <2>3 DEF S
<1>5. \A v \in Vals : count'[q][i][v] = Cardinality(Backers(heard[q][i], v)')
  BY <1>3 DEF LearnerInv
<1>6. (written[q][i] # NoValue => llog[q][i] # NoValue /\ Same(written[q][i], llog[q][i]))'
  BY DEF LearnerInv, Same
<1> QED
  BY <1>2, <1>4, <1>5, <1>6 DEF LearnerInv

(* An accept heard.                                                        *)
LEMMA LearnKeeps ==
  ASSUME TypeOK, NEW q \in Ids, NEW m, Learn(q, m), LearnerInv(q, m.i)
  PROVE  LearnerInv(q, m.i)'
<1> DEFINE i == m.i
           h == heard[q][i]
           g == heard'[q][i]
           n == Recount(count[q][i], h[m.s].v, m.v)
<1>1. /\ m \in sent /\ m.op = "Accept"
      /\ i \in Instances /\ m.p \in Numbers /\ m.v \in Vals /\ m.s \in Ids
  BY ReceivedOK DEF Learn, TypeOK, WellFormed, Datagrams
<1>2. g = [h EXCEPT ![m.s] = [p |-> m.p, v |-> m.v]]
  BY <1>1 DEF Learn, TypeOK, LearnerOK
<1>3. g[m.s].v = m.v /\ \A t \in Ids \ {m.s} : g[t] = h[t]
  BY <1>1, <1>2 DEF TypeOK, LearnerOK
<1>4. sent' = sent /\ count'[q][i] = n
  BY <1>1 DEF Learn, TypeOK, LearnerOK
<1>5. \A v : AcceptedBy(i, v)' = AcceptedBy(i, v)
  BY <1>4 DEF AcceptedBy, From
<1>6. m.s \in AcceptedBy(i, m.v)
  BY <1>1 DEF AcceptedBy, From
<1>7. \A s \in Ids : g[s].v # NoValue => s \in AcceptedBy(i, g[s].v)
  BY <1>3, <1>6 DEF LearnerInv
<1>8. ASSUME NEW w \in Vals PROVE n[w] = Cardinality(Backers(g, w))
  <2>1. count[q][i] \in [Vals -> Int]
    BY <1>1 DEF TypeOK, LearnerOK
  <2>2. count[q][i][w] = Cardinality(Backers(h, w))
    BY DEF LearnerInv
  <2>3. \A x, y : \A c \in [Vals -> Int] :
          /\ c[w] = Cardinality(Backers(x, w))
          /\ y[m.s].v = m.v /\ \A t \in Ids \ {m.s} : y[t] = x[t]
          => Recount(c, x[m.s].v, m.v)[w] = Cardinality(Backers(y, w))
    BY <1>1, RecountCounts
  <2> QED
    BY <1>3, <2>1, <2>2, <2>3
<1>9. Majority(n[m.v]) => Majority(Cardinality(AcceptedBy(i, m.v)))
  <2> DEFINE S == Backers(g, m.v)
  <2>1. S \subseteq AcceptedBy(i, m.v)
    BY <1>1, <1>7, ValueFacts DEF Backers
  <2>2. n[m.v] = Cardinality(S)
    BY <1>1, <1>8
  <2>3. S \subseteq Ids /\ AcceptedBy(i, m.v) \subseteq Ids
    BY DEF AcceptedBy, Backers
  <2> HIDE DEF S
  <2> QED
    BY <2>1, <2>2, <2>3, MajorityGrows
<1>10. /\ llog'[q][i] # NoValue => Majority(Cardinality(AcceptedBy(i, llog'[q][i])))
       /\ written'[q][i] # NoValue => llog'[q][i] # NoValue /\ Same(written'[q][i], llog'[q][i])
  <2>1. CASE Majority(n[m.v])
    <3>1. llog'[q][i] = m.v /\ written'[q][i] = m.v
      BY <1>1, <2>1 DEF Learn, TypeOK, LearnerOK
    <3> QED
      BY <1>1, <1>9, <2>1, <3>1, ValueFacts DEF Same
  <2>2. CASE ~Majority(n[m.v])
    BY <2>2 DEF Learn, LearnerInv
  <2> QED
    BY <2>1, <2>2
<1> HIDE DEF n
<1>11. \A v \in Vals : count'[q][i][v] = Cardinality(Backers(heard[q][i], v)')
  BY <1>4, <1>8 DEF Backers
<1> QED
  BY <1>5, <1>7, <1>10, <1>11 DEF LearnerInv

(* A blank memory is backed by anything, and a log keeps its backing.      *)
LEMMA BlankLearner ==
  ASSUME NEW q \in Ids, NEW i \in Instances, LearnerInv(q, i), sent \subseteq sent',
         heard'[q] = Unheard, count'[q] = Uncounted, llog' = llog,
         written'[q][i] = NoValue
  PROVE  LearnerInv(q, i)'
<1>1. \A s \in Ids : heard'[q][i][s].v = NoValue
  BY DEF Unheard
<1>2. \A v \in Vals : count'[q][i][v] = Cardinality(Backers(heard[q][i], v)')
  <2>1. \A v \in Vals : Backers(heard[q][i], v)' = {}
    BY <1>1, ValueFacts DEF Backers
  <2> QED
    BY <2>1, FS_EmptySet DEF Uncounted
<1>3. (llog[q][i] # NoValue => Majority(Cardinality(AcceptedBy(i, llog[q][i]))))'
  <2> DEFINE S == AcceptedBy(i, llog[q][i])
  <2>1. llog'[q][i] # NoValue => Majority(Cardinality(S))
    BY DEF LearnerInv
  <2>2. S \subseteq S' /\ S \in SUBSET Ids /\ S' \in SUBSET Ids
    BY DEF AcceptedBy, From
  <2> HIDE DEF S
  <2>3. llog'[q][i] # NoValue => Majority(Cardinality(S'))
    BY <2>1, <2>2, MajorityGrows
  <2> QED
    BY <2>3 DEF S
<1> QED
  BY <1>1, <1>2, <1>3 DEF LearnerInv

LEMMA InitMajority == Init => MajorityInv
<1> SUFFICES ASSUME Init, NEW q \in Ids, NEW i \in Instances PROVE LearnerInv(q, i)
  BY DEF MajorityInv
<1>1. /\ \A s \in Ids : heard[q][i][s].v = NoValue
      /\ \A v \in Vals : count[q][i][v] = 0
      /\ llog[q][i] = NoValue /\ written[q][i] = NoValue
  BY DEF Init, LearnerInit, Unheard, Uncounted, Unlearned
<1>2. \A v \in Vals : Backers(heard[q][i], v) = {}
  BY <1>1, ValueFacts DEF Backers
<1> QED
  BY <1>1, <1>2, FS_EmptySet DEF LearnerInv

LEMMA NextMajority == TypeOK /\ MajorityInv /\ [Next]_vars => MajorityInv'
<1> SUFFICES ASSUME TypeOK, MajorityInv, [Next]_vars,
                    NEW r \in Ids, NEW j \in Instances
             PROVE  LearnerInv(r, j)'
  BY DEF MajorityInv
<1>1. LearnerInv(r, j)
  BY DEF MajorityInv
<1>2. ASSUME sent \subseteq sent', UNCHANGED learnerVars PROVE LearnerInv(r, j)'
  BY <1>1, <1>2, LearnerSameOn DEF learnerVars
<1>3. ASSUME NEW q \in Ids, Lead(q) PROVE LearnerInv(r, j)'
  BY <1>2, <1>3, LeaderSilent DEF Lead, Silent
<1>4. ASSUME NEW q \in Ids, Accept(q) PROVE LearnerInv(r, j)'
  <2>1. PICK m \in sent : Acceptor(q, m)
    BY <1>4 DEF Accept
  <2>2. sent \subseteq sent'
    BY <2>1 DEF Acceptor, Refuse, PromiseTo, AcceptWrite, Send
  <2> QED
    BY <1>2, <1>4, <2>2 DEF Accept
<1>5. ASSUME NEW q \in Ids, Hear(q) PROVE LearnerInv(r, j)'
  <2>1. PICK m \in sent : Learn(q, m)
    BY <1>5 DEF Hear
  <2>2. CASE r = q /\ j = m.i
    BY <1>1, <2>1, <2>2, LearnKeeps
  <2>3. CASE ~(r = q /\ j = m.i)
    <3>1. /\ heard'[r][j] = heard[r][j] /\ count'[r][j] = count[r][j]
          /\ written'[r][j] = written[r][j] /\ llog'[r][j] = llog[r][j] /\ sent' = sent
      BY <2>1, <2>3 DEF Learn, TypeOK, LearnerOK
    <3> QED
      BY <1>1, <3>1, LearnerSameOn
  <2> QED
    BY <2>2, <2>3
<1>6. ASSUME NEW q \in Ids, Die(q), sent \subseteq sent' PROVE LearnerInv(r, j)'
  <2>1. CASE r = q
    <3>1. /\ heard'[r] = Unheard /\ count'[r] = Uncounted /\ llog' = llog
          /\ written'[r][j] = NoValue
      BY <1>6, <2>1 DEF Die, LearnerDown, Unlearned, TypeOK, LearnerOK
    <3> QED
      BY <1>1, <1>6, <3>1, BlankLearner
  <2>2. CASE r # q
    <3>1. /\ heard'[r][j] = heard[r][j] /\ count'[r][j] = count[r][j]
          /\ written'[r][j] = written[r][j] /\ llog'[r][j] = llog[r][j]
      BY <1>6, <2>2 DEF Die, LearnerDown, TypeOK, LearnerOK
    <3> QED
      BY <1>1, <1>6, <3>1, LearnerSameOn
  <2> QED
    BY <2>1, <2>2
<1>7. ASSUME NEW q \in Ids, Crash(q) PROVE LearnerInv(r, j)'
  BY <1>6, <1>7 DEF Crash
<1>8. ASSUME NEW q \in Ids, Panic(q) PROVE LearnerInv(r, j)'
  BY <1>6, <1>8 DEF Panic, PanicOnQueue, Send
<1>9. ASSUME NEW q \in Ids, Restart(q) PROVE LearnerInv(r, j)'
  <2>1. sent' = sent /\ heard' = heard /\ count' = count /\ llog' = llog
    BY <1>9 DEF Restart, LearnerRecovers
  <2>2. (written[r][j] # NoValue => llog[r][j] # NoValue /\ Same(written[r][j], llog[r][j]))'
    BY <1>1, <1>9 DEF Restart, LearnerRecovers, LearnerInv, Same, TypeOK, LearnerOK
  <2>3. LearnerInv(r, j)' <=>
          /\ \A s \in Ids : heard[r][j][s].v # NoValue
                               => s \in AcceptedBy(j, heard[r][j][s].v)
          /\ \A v \in Vals : count[r][j][v] = Cardinality(Backers(heard[r][j], v))
          /\ llog[r][j] # NoValue => Majority(Cardinality(AcceptedBy(j, llog[r][j])))
          /\ (written[r][j] # NoValue => llog[r][j] # NoValue /\ Same(written[r][j], llog[r][j]))'
    BY <2>1 DEF LearnerInv, Backers, AcceptedBy, From
  <2> QED
    BY <1>1, <2>2, <2>3 DEF LearnerInv
<1>10. CASE UNCHANGED vars
  BY <1>2, <1>10 DEF vars, netVars
<1> QED
  BY <1>3, <1>4, <1>5, <1>7, <1>8, <1>9, <1>10 DEF Next

(* Of values of one word each, a learned value was accepted by a majority  *)
(* of the hosts, though maybe under different numbers (upaxos.go:393-444). *)
THEOREM UPaxosLearnedByMajority == OneWordEach /\ Spec => []LearnedByMajority
<1> SUFFICES ASSUME OneWordEach PROVE Spec => []LearnedByMajority
  OBVIOUS
<1>1. ASSUME TypeOK, MajorityInv, NEW q \in Ids, NEW i \in Instances,
             written[q][i] # NoValue
      PROVE  Majority(Cardinality(AcceptedBy(i, written[q][i])))
  <2>1. /\ llog[q][i] # NoValue /\ Same(written[q][i], llog[q][i])
        /\ Majority(Cardinality(AcceptedBy(i, llog[q][i])))
    BY <1>1 DEF MajorityInv, LearnerInv
  <2>2. llog[q][i] \in Vals
    BY <1>1, <2>1 DEF TypeOK, LearnerOK
  <2>3. written[q][i] = llog[q][i]
    BY <1>1, <2>1, <2>2, OneWordStays
  <2> QED
    BY <2>1, <2>3
<1>2. TypeOK /\ MajorityInv => LearnedByMajority
  BY <1>1 DEF LearnedByMajority
<1> QED
  BY <1>2, InitMajority, NextMajority, UPaxosTypeOK, PTL DEF Spec

-----------------------------------------------------------------------------
(* Leaders.                                                                *)

(* What a leader has to write is of the highest report it was given in its *)
(* instance, or its own request if it has written that.                    *)
Remembered(q) ==
  IF told[q] = {} THEN wp[q] = -1 /\ wval[q] \in {NoValue, req[q]}
  ELSE /\ [v |-> wval[q], vp |-> wp[q]] \in told[q]
       /\ \A k \in told[q] : k.vp <= wp[q] /\ Reports(k, instance[q])

LeaderInv == \A q \in Ids : Remembered(q)

LEMMA ReportsStay ==
  ASSUME NEW k, NEW i, Reports(k, i), sent \subseteq sent'
  PROVE  Reports(k, i)'
BY DEF Reports

LEMMA RememberedStays ==
  ASSUME NEW q \in Ids, Remembered(q), sent \subseteq sent', instance'[q] = instance[q],
         told'[q] = told[q], wp'[q] = wp[q], wval'[q] = wval[q],
         req'[q] = req[q] \/ wval[q] = NoValue \/ told[q] # {}
  PROVE  Remembered(q)'
BY ReportsStay DEF Remembered

(* A blank memory.                                                         *)
LEMMA Forgotten ==
  ASSUME NEW q, told[q] = {}, wp[q] = -1, wval[q] = NoValue
  PROVE  Remembered(q)
BY DEF Remembered

(* catchup() keeps what it was told in its instance and forgets the rest.  *)
LEMMA CatchupRemembers ==
  ASSUME LeaderOK, NEW q \in Ids, NEW r \in Ids, Remembered(r), sent \subseteq sent',
         NEW i, NEW p, Catchup(q, i, p),
         \A x \in Ids : x # q \/ i = instance[q] => req'[x] = req[x]
  PROVE  Remembered(r)'
<1>1. CASE r = q /\ i # instance[q]
  <2>1. told'[r] = {} /\ wp'[r] = -1 /\ wval'[r] = NoValue
    BY <1>1 DEF Catchup, LeaderOK
  <2> QED
    BY <2>1 DEF Remembered
<1>2. CASE r # q \/ i = instance[q]
  <2>1. /\ told'[r] = told[r] /\ wp'[r] = wp[r] /\ wval'[r] = wval[r]
        /\ instance'[r] = instance[r] /\ req'[r] = req[r]
    BY <1>2 DEF Catchup, LeaderOK
  <2> QED
    BY <2>1, RememberedStays
<1> QED
  BY <1>1, <1>2

(* A promise counted: the highest report is the one to write.              *)
LEMMA CountRemembers ==
  ASSUME NetOK, LeaderOK, NEW q \in Ids, Remembered(q), NEW m, CountPromise(q, m)
  PROVE  /\ Remembered(q)' /\ sent \subseteq sent'
         /\ req' = req /\ instance' = instance /\ instance[q] = m.i
         /\ wval'[q] = NoValue => sent' = sent
         /\ Send(Msg("Write", q, m.i, m.p, wval'[q])) \/ sent' = sent
         /\ \A r \in Ids \ {q} : told'[r] = told[r] /\ wp'[r] = wp[r] /\ wval'[r] = wval[r]
<1> DEFINE higher == m.v # NoValue /\ m.vp > wp[q]
           n == PlusOne(npromise[q])
           best == IF higher THEN m.v ELSE wval[q]
           v == IF Majority(n) /\ best = NoValue THEN req[q] ELSE best
           t == IF m.v = NoValue THEN told[q] ELSE told[q] \cup {[v |-> m.v, vp |-> m.vp]}
           w == IF higher THEN m.vp ELSE wp[q]
<1>1. /\ m \in sent /\ m.op = "Promise" /\ m.i = instance[q] /\ req[q] # NoValue
      /\ m.v \in Vals \cup {NoValue} /\ (m.v = NoValue <=> m.vp = -1)
      /\ m.vp \in Numbers \cup {-1}
  BY ReceivedOK DEF CountPromise, WellFormed, Datagrams
<1>2. /\ wval[q] \in Vals \cup {NoValue} /\ Numbers \subseteq Nat
      /\ m.vp \in Int /\ wp[q] \in Int
      /\ m.v # NoValue => m.vp \in Nat
  <2>1. wval[q] \in Vals \cup {NoValue} /\ wp[q] \in Numbers \cup {-1}
    BY DEF LeaderOK
  <2>2. Numbers \subseteq Nat
    BY NetAssumption DEF Numbers
  <2>3. \A x \in Numbers \cup {-1} : x \in Int /\ (x # -1 => x \in Nat)
    BY <2>2
  <2> HIDE DEF higher, n, best, v, t, w
  <2> QED
    BY <1>1, <2>1, <2>2, <2>3
<1>3. told[q] \subseteq [v : Vals, vp : Numbers]
  BY DEF LeaderOK
<1>4. /\ wval' = [wval EXCEPT ![q] = v] /\ wp' = [wp EXCEPT ![q] = w]
      /\ told' = [told EXCEPT ![q] = t]
      /\ IF Majority(n) THEN Send(Msg("Write", q, m.i, m.p, v)) ELSE sent' = sent
      /\ req' = req /\ instance' = instance
  BY DEF CountPromise, Heed
<1>5. sent \subseteq sent'
  BY <1>4 DEF Send
<1>6. /\ wval'[q] = v /\ wp'[q] = w /\ told'[q] = t
      /\ \A r \in Ids \ {q} : told'[r] = told[r] /\ wp'[r] = wp[r] /\ wval'[r] = wval[r]
  BY <1>4 DEF LeaderOK
<1>7. Majority(n) => v # NoValue
  BY <1>1
<1>8. m.v # NoValue => Reports([v |-> m.v, vp |-> m.vp], m.i)'
  BY <1>1, <1>5 DEF Reports
<1>9. \A k \in told[q] : Reports(k, m.i)'
  <2>1. \A k \in told[q] : Reports(k, m.i)
    BY <1>1 DEF Remembered
  <2> QED
    BY <1>5, <2>1, ReportsStay
<1>10. /\ t = {} => w = -1 /\ v \in {NoValue, req[q]}
       /\ t # {} => [v |-> v, vp |-> w] \in t /\ \A k \in t : k.vp <= w
       /\ \A k \in t : Reports(k, m.i)'
  <2>1. CASE m.v = NoValue
    <3>1. t = told[q] /\ w = wp[q]
      BY <2>1
    <3>2. told[q] = {} => w = -1 /\ v \in {NoValue, req[q]}
      BY <2>1 DEF Remembered
    <3>3. told[q] # {} => v = wval[q] /\ [v |-> wval[q], vp |-> w] \in told[q]
                                      /\ \A k \in told[q] : k.vp <= w
      <4>1. told[q] # {} => wval[q] \in Vals
        BY <1>3 DEF Remembered
      <4> QED
        BY <2>1, <4>1, ValueFacts DEF Remembered
    <3> HIDE DEF v, t, w
    <3> QED
      BY <1>9, <3>1, <3>2, <3>3
  <2>2. CASE m.v # NoValue /\ higher
    <3>1. v = m.v /\ w = m.vp /\ t = told[q] \cup {[v |-> m.v, vp |-> m.vp]}
      BY <2>2
    <3>2. \A k \in told[q] : k.vp <= m.vp
      <4>1. \A k \in told[q] : k.vp <= wp[q] /\ k.vp \in Nat
        BY <1>2, <1>3 DEF Remembered
      <4>2. m.vp \in Int /\ wp[q] \in Int /\ m.vp > wp[q]
        BY <1>2, <2>2
      <4> HIDE DEF v, t, w, higher
      <4> QED
        BY <4>1, <4>2
    <3>3. m.vp <= m.vp
      BY <1>2
    <3> HIDE DEF v, t, w
    <3> QED
      BY <1>8, <1>9, <2>2, <3>1, <3>2, <3>3
  <2>3. CASE m.v # NoValue /\ ~higher
    <3>1. m.vp \in Nat /\ wp[q] \in Int /\ m.vp <= wp[q]
      BY <1>2, <2>3
    <3>2. told[q] # {}
      BY <3>1 DEF Remembered
    <3>3. /\ wval[q] \in Vals /\ [v |-> wval[q], vp |-> wp[q]] \in told[q]
          /\ \A k \in told[q] : k.vp <= wp[q]
      BY <1>3, <3>2 DEF Remembered
    <3>4. v = wval[q] /\ w = wp[q] /\ t = told[q] \cup {[v |-> m.v, vp |-> m.vp]}
      BY <2>3, <3>3, ValueFacts
    <3> HIDE DEF v, t, w, higher
    <3> QED
      BY <1>8, <1>9, <2>3, <3>1, <3>3, <3>4
  <2> QED
    BY <2>1, <2>2, <2>3
<1> HIDE DEF v, t, w
<1>11. Remembered(q)'
  BY <1>1, <1>4, <1>6, <1>10 DEF Remembered
<1> QED
  BY <1>1, <1>4, <1>5, <1>6, <1>7, <1>11

(* Nothing else that a leader sends is a Write.                            *)
Unwriting == sent \subseteq sent' /\ New("Write") = {}

LEMMA OthersUnwriting ==
  ASSUME NEW q, NEW m, Leader(q, m), ~CountPromise(q, m)
  PROVE  Unwriting
<1>1. ASSUME NEW i, NEW p, ProposeAgain(q, i, p) PROVE Unwriting
  BY <1>1, SendsText DEF ProposeAgain, Proposal, Unwriting, New
<1>2. CASE TakeRequest(q, m)
  BY <1>2, SendsText DEF TakeRequest, Proposal, Unwriting, New
<1>3. CASE QueueRequest(q, m) \/ SnoopPromise(q, m) \/ CountAccept(q, m)
  BY <1>3 DEF QueueRequest, SnoopPromise, CountAccept, Unwriting, New
<1>4. CASE Succeed(q, m)
  BY <1>4, SendsText DEF Succeed, Unwriting, New
<1>5. CASE TryNext(q, m) \/ HearNack(q, m)
  BY <1>1, <1>5 DEF TryNext, HearNack
<1> QED
  BY <1>2, <1>3, <1>4, <1>5 DEF Leader

LEMMA LeadRemembers ==
  ASSUME NetOK, LeaderOK, LeaderInv, NEW q \in Ids, NEW m, Leader(q, m)
  PROVE  LeaderInv' /\ AdoptsTold
<1>1. CASE CountPromise(q, m)
  <2>1. /\ Remembered(q)' /\ sent \subseteq sent'
        /\ req' = req /\ instance' = instance /\ instance[q] = m.i
        /\ wval'[q] = NoValue => sent' = sent
        /\ Send(Msg("Write", q, m.i, m.p, wval'[q])) \/ sent' = sent
        /\ \A r \in Ids \ {q} : told'[r] = told[r] /\ wp'[r] = wp[r] /\ wval'[r] = wval[r]
    BY <1>1, CountRemembers DEF LeaderInv
  <2>2. LeaderInv'
    BY <2>1, RememberedStays DEF LeaderInv
  <2>3. ASSUME NEW k \in New("Write")
        PROVE  k.s = q /\ k.i = m.i /\ k.v = wval'[q] /\ k.v # NoValue
    BY <2>1, <2>3, SendsText DEF New
  <2>4. ASSUME NEW k \in New("Write"), told'[q] # {}
        PROVE  /\ [v |-> wval'[q], vp |-> wp'[q]] \in told'[q]
               /\ \A j \in told'[q] : j.vp <= wp'[q]
               /\ Reports([v |-> wval'[q], vp |-> wp'[q]], m.i)
    <3>1. /\ [v |-> wval'[q], vp |-> wp'[q]] \in told'[q]
          /\ \A j \in told'[q] : j.vp <= wp'[q] /\ Reports(j, m.i)'
      BY <2>1, <2>4 DEF Remembered
    <3>2. ASSUME NEW j, Reports(j, m.i)' PROVE Reports(j, m.i)
      <4>1. \A a \in sent' : a.op = "Promise" => a \in sent
        BY <2>1, SendsText
      <4> QED
        BY <3>2, <4>1 DEF Reports
    <3> QED
      BY <3>1, <3>2
  <2>5. told'[q] = {} => wval'[q] \in {NoValue, req[q]}
    BY <2>1 DEF Remembered
  <2>6. AdoptsTold
    <3> SUFFICES ASSUME NEW k \in New("Write")
                 PROVE  IF told'[k.s] = {} THEN k.v = req[k.s]
                        ELSE \E j \in told'[k.s] : /\ j.v = k.v /\ Reports(j, k.i)
                                                  /\ \A l \in told'[k.s] : l.vp <= j.vp
      BY DEF AdoptsTold
    <3>1. CASE told'[q] = {}
      BY <2>3, <2>5, <3>1
    <3>2. CASE told'[q] # {}
      BY <2>3, <2>4, <3>2
    <3> QED
      BY <2>3, <3>1, <3>2
  <2> QED
    BY <2>2, <2>6
<1>2. CASE ~CountPromise(q, m)
  <2>1. Unwriting
    BY <1>2, OthersUnwriting
  <2>2. AdoptsTold
    BY <2>1 DEF Unwriting, AdoptsTold
  <2>3. sent \subseteq sent'
    BY <2>1 DEF Unwriting
  <2>4. ASSUME NEW r \in Ids PROVE Remembered(r)'
    <3>1. Remembered(r)
      BY DEF LeaderInv
    <3>2. CASE TakeRequest(q, m)
      <4>1. /\ UNCHANGED <<instance, wval, wp, told>>
            /\ req' = [req EXCEPT ![q] = m.v] /\ req[q] = NoValue
        BY <3>2 DEF TakeRequest
      <4>2. r # q => req'[r] = req[r]
        BY <4>1 DEF LeaderOK
      <4>3. told[q] = {} /\ Remembered(q) => wval[q] = NoValue
        BY <4>1 DEF Remembered
      <4> QED
        BY <2>3, <3>1, <4>1, <4>2, <4>3, RememberedStays
    <3>3. CASE QueueRequest(q, m) \/ CountAccept(q, m)
      BY <2>3, <3>1, <3>3, RememberedStays DEF QueueRequest, CountAccept
    <3>4. CASE SnoopPromise(q, m) \/ HearNack(q, m)
      <4>1. Catchup(q, m.i, m.p) /\ req' = req
        BY <3>4 DEF SnoopPromise, HearNack
      <4> QED
        BY <2>3, <3>1, <4>1, CatchupRemembers
    <3>5. CASE Succeed(q, m) \/ TryNext(q, m)
      <4>1. Catchup(q, instance[q] + 1, 0) /\ \A x \in Ids \ {q} : req'[x] = req[x]
        BY <3>5 DEF Succeed, TryNext, LeaderOK
      <4>2. instance[q] + 1 # instance[q]
        <5>1. instance[q] \in Int
          BY NetAssumption DEF LeaderOK, Instances
        <5> QED
          BY <5>1
      <4> QED
        BY <2>3, <3>1, <4>1, <4>2, CatchupRemembers
    <3> QED
      BY <1>2, <3>2, <3>3, <3>4, <3>5 DEF Leader
  <2> QED
    BY <2>2, <2>4 DEF LeaderInv
<1> QED
  BY <1>1, <1>2

LEMMA NextLeaders ==
  TypeOK /\ LeaderInv /\ [Next]_vars => LeaderInv' /\ AdoptsTold
<1> SUFFICES ASSUME TypeOK, LeaderInv, [Next]_vars
             PROVE  LeaderInv' /\ AdoptsTold
  OBVIOUS
<1>1. ASSUME Unwriting, UNCHANGED leaderVars PROVE LeaderInv' /\ AdoptsTold
  <2>1. AdoptsTold
    BY <1>1 DEF Unwriting, AdoptsTold
  <2>2. LeaderInv'
    BY <1>1, RememberedStays DEF LeaderInv, Unwriting, leaderVars
  <2> QED
    BY <2>1, <2>2
<1>2. ASSUME Unwriting, NEW q \in Ids, Die(q) PROVE LeaderInv' /\ AdoptsTold
  <2>1. AdoptsTold
    BY <1>2 DEF Unwriting, AdoptsTold
  <2>2. ASSUME NEW r \in Ids PROVE Remembered(r)'
    <3>1. CASE r = q
      <4>1. told'[r] = {} /\ wp'[r] = -1 /\ wval'[r] = NoValue
        BY <1>2, <3>1 DEF Die, LeaderDown, TypeOK, LeaderOK
      <4> QED
        BY <4>1 DEF Remembered
    <3>2. CASE r # q
      <4>1. /\ told'[r] = told[r] /\ wp'[r] = wp[r] /\ wval'[r] = wval[r]
            /\ instance'[r] = instance[r] /\ req'[r] = req[r]
        BY <1>2, <3>2 DEF Die, LeaderDown, TypeOK, LeaderOK
      <4> QED
        BY <1>2, <4>1, RememberedStays DEF LeaderInv, Unwriting
    <3> QED
      BY <3>1, <3>2
  <2> QED
    BY <2>1, <2>2 DEF LeaderInv
<1>3. ASSUME NEW q \in Ids, Lead(q) PROVE LeaderInv' /\ AdoptsTold
  BY <1>3, LeadRemembers DEF Lead, TypeOK
<1>4. ASSUME NEW q \in Ids, Accept(q) PROVE LeaderInv' /\ AdoptsTold
  <2>1. PICK m \in sent : Acceptor(q, m)
    BY <1>4 DEF Accept
  <2>2. Unwriting
    <3>1. CASE Refuse(q, m)
      BY <3>1, SendsText DEF Refuse, Unwriting, New
    <3>2. CASE PromiseTo(q, m)
      BY <3>2 DEF PromiseTo, Promise, Msg, Send, Unwriting, New
    <3>3. CASE AcceptWrite(q, m)
      BY <3>3, SendsText DEF AcceptWrite, Unwriting, New
    <3> QED
      BY <2>1, <3>1, <3>2, <3>3 DEF Acceptor
  <2> QED
    BY <1>1, <1>4, <2>2 DEF Accept
<1>5. ASSUME NEW q \in Ids, Hear(q) PROVE LeaderInv' /\ AdoptsTold
  BY <1>1, <1>5 DEF Hear, Learn, Unwriting, New
<1>6. ASSUME NEW q \in Ids, Crash(q) PROVE LeaderInv' /\ AdoptsTold
  BY <1>2, <1>6 DEF Crash, Unwriting, New
<1>7. ASSUME NEW q \in Ids, Panic(q) PROVE LeaderInv' /\ AdoptsTold
  <2>1. Unwriting
    BY <1>7, SendsText DEF Panic, PanicOnQueue, Unwriting, New
  <2> QED
    BY <1>2, <1>7, <2>1 DEF Panic
<1>8. ASSUME NEW q \in Ids, Restart(q) PROVE LeaderInv' /\ AdoptsTold
  BY <1>1, <1>8 DEF Restart, Unwriting, New
<1>9. CASE UNCHANGED vars
  BY <1>1, <1>9 DEF vars, netVars, Unwriting, New
<1> QED
  BY <1>3, <1>4, <1>5, <1>6, <1>7, <1>8, <1>9 DEF Next

(* A leader that was told of accepted values in its instance writes the    *)
(* one of the highest number that was reported to it, else its request, in *)
(* groups of any size and whatever is lost, duplicated or late             *)
(* (upaxos.go:178-191 and 247-261).                                        *)
THEOREM UPaxosWritesAdopt == Spec => WritesAdopt
<1>1. Init => LeaderInv
  BY Forgotten DEF Init, LeaderInit, LeaderInv
<1> QED
  BY <1>1, NextLeaders, UPaxosTypeOK, PTL DEF Spec, WritesAdopt
=============================================================================
