------------------------------- MODULE UPNet -------------------------------
(***************************************************************************)
(* paxos/upaxos.go: what the participants of a group share, an unreliable  *)
(* broadcast.  Every datagram goes to everybody, each send in a goroutine  *)
(* of its own, so that datagrams of one sender also overtake each other.   *)
(***************************************************************************)
EXTENDS Integers, FiniteSets, Sequences

CONSTANTS N,            \* nGroup
          Values,       \* the values clients request: sequences of words
          NoValue,      \* no value: nil, or a missing field
          MaxInstance,  \* bound: instances that are proposed for
          MaxNumber,    \* bound: proposal numbers
          MaxSent,      \* bound: different datagrams
          Duplicates    \* TRUE: the network may deliver a datagram again

ASSUME NetAssumption ==
  /\ N \in Nat \ {0}
  /\ IsFiniteSet(Values)
  /\ \A v \in Values : v \in Seq(STRING) /\ v # <<>>
  /\ \A v \in Values : NoValue # v /\ NoValue # <<v[1]>>
  /\ MaxInstance \in Nat
  /\ MaxNumber \in Nat
  /\ MaxSent \in Nat
  /\ Duplicates \in BOOLEAN

VARIABLES up,     \* up[q]: participant q runs
          sent,   \* every datagram sent so far
          taken   \* taken[q]: what the roles of q have received

netVars == <<up, sent, taken>>

Ids == 0..(N - 1)
Instances == 1..MaxInstance
Numbers == 0..MaxNumber

(* What loadLogData keeps of a value: its first word. *)
FirstWord(v) == <<v[1]>>

Vals == Values \cup {FirstWord(v) : v \in Values}

Majority(n) == n > N \div 2

(* A datagram.  "copy" tells apart datagrams of the same text, which only  *)
(* matters if the network does not duplicate any.                          *)
Msg(op, s, i, p, v) ==
  [op |-> op, s |-> s, i |-> i, p |-> p, v |-> v, vp |-> -1, copy |-> 0]

Clients == -1

Datagrams == [op : {"Request", "Propose", "Promise", "Write", "Accept", "NACK", "OK"},
              s : Ids \cup {Clients}, i : Instances \cup {0}, p : Numbers,
              v : Vals \cup {NoValue}, vp : Numbers \cup {-1}, copy : Nat]

(* Who sends what. *)
WellFormed(m) ==
  IF m.op = "Request" THEN m.v \in Values
  ELSE /\ m.s \in Ids
       /\ m.i \in Instances
       /\ m.op \in {"Write", "Accept", "OK"} => m.v \in Vals
       /\ m.op = "Promise" => (m.v = NoValue <=> m.vp = -1)

NetOK ==
  /\ up \in [Ids -> BOOLEAN]
  /\ IsFiniteSet(sent) /\ sent \subseteq Datagrams
  /\ \A m \in sent : WellFormed(m)

Received(role, q, m) ==
  /\ up[q] /\ m \in sent
  /\ Duplicates \/ <<role, m>> \notin taken[q]
  /\ taken' = IF Duplicates THEN taken
              ELSE [taken EXCEPT ![q] = @ \cup {<<role, m>>}]

Twins(m) == {k \in sent : [k EXCEPT !.copy = 0] = m}

Send(m) ==
  /\ Cardinality(sent) < MaxSent
  /\ sent' = sent \cup
       {[m EXCEPT !.copy = IF Duplicates THEN 0 ELSE Cardinality(Twins(m))]}

(* The clients' requests are there from the start; each is heard sooner or *)
(* later or not at all.                                                    *)
NetInit ==
  /\ up = [q \in Ids |-> TRUE]
  /\ sent = {Msg("Request", Clients, 0, 0, v) : v \in Values}
  /\ taken = [q \in Ids |-> {}]
=============================================================================
