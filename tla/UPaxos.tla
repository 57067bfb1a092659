------------------------------- MODULE UPaxos -------------------------------
(***************************************************************************)
(* paxos/upaxos.go: a group of participants, each with the goroutines      *)
(* lead, accept and learn, and clients that broadcast requests.            *)
(***************************************************************************)
EXTENDS UPLeader, UPAcceptor, UPLearner

CONSTANTS Hears,      \* bound: which participants hear which requests
          Learners,   \* bound: participants whose learner is looked at
          Mortals,    \* bound: participants that die
          MaxCrashes  \* bound: deaths in the whole group

ASSUME GroupAssumption ==
  /\ Hears \subseteq Ids \X Values
  /\ Learners \subseteq Ids
  /\ Mortals \subseteq Ids
  /\ MaxCrashes \in Nat

VARIABLE crashes  \* deaths so far, by a crash or a panic

vars == <<netVars, acceptorVars, learnerVars, leaderVars, crashes>>

Init ==
  /\ NetInit /\ AcceptorInit /\ LearnerInit /\ LeaderInit
  /\ crashes = 0

(* listen() hands a datagram to the goroutines of its participant. *)
Lead(q) ==
  /\ \E m \in sent : /\ m.op = "Request" => <<q, m.v>> \in Hears
                     /\ Leader(q, m)
  /\ UNCHANGED <<acceptorVars, learnerVars, crashes>>

Accept(q) ==
  /\ \E m \in sent : Acceptor(q, m)
  /\ UNCHANGED <<learnerVars, leaderVars, crashes>>

Hear(q) ==
  /\ q \in Learners
  /\ \E m \in sent : Learn(q, m)
  /\ UNCHANGED <<acceptorVars, leaderVars, crashes>>

(* A participant ends: "quit", a panic, or any other death. *)
Die(q) ==
  /\ q \in Mortals /\ crashes < MaxCrashes
  /\ up' = [up EXCEPT ![q] = FALSE]
  /\ crashes' = crashes + 1
  /\ AcceptorDown(q) /\ LearnerDown(q) /\ LeaderDown(q)

Crash(q) ==
  /\ up[q]
  /\ Die(q)
  /\ UNCHANGED <<sent, taken>>

Panic(q) ==
  /\ \E m \in sent : PanicOnQueue(q, m)
  /\ Die(q)

(* It starts again and loads its log. *)
Restart(q) ==
  /\ ~up[q]
  /\ up' = [up EXCEPT ![q] = TRUE]
  /\ AcceptorRecovers(q) /\ LearnerRecovers(q)
  /\ UNCHANGED <<sent, taken, leaderVars, crashes>>

Next ==
  \E q \in Ids : Lead(q) \/ Accept(q) \/ Hear(q)
                   \/ Crash(q) \/ Panic(q) \/ Restart(q)

Spec == Init /\ [][Next]_vars

-----------------------------------------------------------------------------
(* Properties.                                                             *)

TypeOK == NetOK /\ AcceptorOK /\ LearnerOK /\ LeaderOK

(* The datagrams of s about instance i. *)
From(op, s, i) == {m \in sent : m.op = op /\ m.s = s /\ m.i = i}

New(op) == {m \in sent' \ sent : m.op = op}

(* An acceptor never accepts below a number it has promised, however often *)
(* it has crashed and recovered since.                                     *)
KeepsPromises ==
  \A m \in New("Accept") : \A k \in From("Promise", m.s, m.i) : k.p <= m.p

PromisesKept == [][KeepsPromises]_vars

(* Every requested value is one word, as in the example of paxos/README:   *)
(* all of a value survives a restart then.                                 *)
OneWordEach == \A v \in Values : v = FirstWord(v)

(* A promise tells of an accept of its sender, number and value, and not   *)
(* of none when there was one, before a crash or after it.                 *)
TellsAccepts ==
  \A m \in New("Promise") :
    IF m.v = NoValue THEN From("Accept", m.s, m.i) = {}
    ELSE \E k \in From("Accept", m.s, m.i) : k.p = m.vp /\ k.v = m.v

PromisesTell == [][TellsAccepts]_vars

(* "B the proposal number associated with previously accepted value,       *)
(* V the previously accepted value" (upaxos.go:88-89), whatever was        *)
(* requested: what a promise reports has been accepted by its sender.      *)
PromisedWasAccepted ==
  \A m \in sent :
    m.op = "Promise" /\ m.v # NoValue =>
      \E k \in From("Accept", m.s, m.i) : k.p = m.vp /\ k.v = m.v

(* What a learner has learned was accepted by a majority.  The accepts may *)
(* be of different numbers (paxos/README:43 speaks of a quorum).           *)
AcceptedBy(i, v) == {s \in Ids : \E k \in From("Accept", s, i) : k.v = v}

LearnedByMajority ==
  \A q \in Ids, i \in Instances :
    written[q][i] # NoValue => Majority(Cardinality(AcceptedBy(i, written[q][i])))

(* History stays readable: a running participant knows exactly the values  *)
(* in its log, crash or not.                                               *)
HistoryKept == \A q \in Ids : up[q] => written[q] = llog[q]

(* The heart of Paxos: a leader that has been told of accepted values      *)
(* since it came to an instance writes the one that a promise for that     *)
(* instance reported with the highest number, whichever of its proposals   *)
(* the promises were for; else it writes its request.  A leader that       *)
(* leaves an instance or dies forgets what it was told.                    *)
Reports(k, i) ==
  \E a \in sent : a.op = "Promise" /\ a.i = i /\ a.v = k.v /\ a.vp = k.vp

AdoptsTold ==
  \A m \in New("Write") :
    IF told'[m.s] = {} THEN m.v = req[m.s]
    ELSE \E k \in told'[m.s] : /\ k.v = m.v /\ Reports(k, m.i)
                              /\ \A j \in told'[m.s] : j.vp <= k.vp

WritesAdopt == [][AdoptsTold]_vars

(* "When you see OK in the logs, that's Paxos responding to you that there *)
(* has been consensus on a value" (paxos/README:66-67).                    *)
OkMeansConsensus ==
  \A m \in sent : m.op = "OK" => Majority(Cardinality(AcceptedBy(m.i, m.v)))
=============================================================================
