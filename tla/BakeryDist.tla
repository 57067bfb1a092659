----------------------------- MODULE BakeryDist -----------------------------
(***************************************************************************)
(* bakery/bakery-dist.go and bakery/observer.go: hosts that read each      *)
(* other's tickets by RPC and take turns in a critical section, of which   *)
(* an observer is told.  A host's server answers at any time, whatever its *)
(* main goroutine is doing.  An RPC that reads, or HostUp, is one step,    *)
(* what the server does: a reply that is lost, because the host has died   *)
(* since, leaves no more behind than a call that fails.  HostDown is two,  *)
(* as a host that has been told by all of them may exit before it replies. *)
(***************************************************************************)
EXTENDS Integers, FiniteSets

CONSTANTS N,         \* hosts, numbered in the order of their names
          NIters,    \* nIters of each host, its first argument
          MaxDeaths  \* bound: hosts that die by themselves

ASSUME BakeryAssumption ==
  /\ N \in Nat \ {0, 1}
  /\ NIters \in [1..N -> Nat]
  /\ MaxDeaths \in Nat

VARIABLES pc,         \* where main() is
          choosing,   \* me.choosing
          number,     \* me.number
          live,       \* live[h][k]: liveHosts[k] on host h
          todo,       \* the rest of hostList in the loop h is in
          highest,    \* m of maxNumber
          left,       \* iterations left
          owner,      \* the observer's owner
          violation,  \* the observer has logged "VIOLATION"
          deaths      \* hosts that died by themselves

vars == <<pc, choosing, number, live, todo, highest, left, owner, violation, deaths>>

Hosts == 1..N
Nobody == 0
Others(h) == Hosts \ {h}

(* Parts of the program, in order. *)
Starting == {"announce", "waitup"}
Choosing == {"choose", "max", "take"}
Waiting == {"unchoose", "waitchoose", "waitnum"}
Critical == {"enter", "entering", "cs", "exiting", "leave"}
Ending == {"goodbye", "told", "waitdown", "gone"}
Places == Starting \cup Choosing \cup Waiting \cup Critical \cup Ending \cup {"dead"}

TypeOK ==
  /\ pc \in [Hosts -> Places]
  /\ choosing \in [Hosts -> BOOLEAN]
  /\ number \in [Hosts -> Nat]
  /\ live \in [Hosts -> [Hosts -> BOOLEAN]]
  /\ todo \in [Hosts -> SUBSET Hosts]
  /\ highest \in [Hosts -> Nat]
  /\ left \in [Hosts -> Nat] /\ \A h \in Hosts : left[h] \in 0..NIters[h]
  /\ owner \in Hosts \cup {Nobody}
  /\ violation \in BOOLEAN
  /\ deaths \in Nat

(* The servers are up: the hosts were started "within a few seconds". *)
Init ==
  /\ pc = [h \in Hosts |-> "announce"]
  /\ choosing = [h \in Hosts |-> FALSE]
  /\ number = [h \in Hosts |-> 0]
  /\ live = [h \in Hosts |-> [k \in Hosts |-> FALSE]]
  /\ todo = [h \in Hosts |-> Others(h)]
  /\ highest = [h \in Hosts |-> 0]
  /\ left = NIters
  /\ owner = Nobody
  /\ violation = FALSE
  /\ deaths = 0

Running(h) == pc[h] \notin {"gone", "dead"}

(* hostList is in the order of names: k is next. *)
NextHost(h, k) == k \in todo[h] /\ \A l \in todo[h] : k <= l

(* The loop over hostList moves on from k, and to "then" after the last. *)
Advance(h, k, again, then) ==
  /\ todo' = [todo EXCEPT ![h] = IF @ = {k} THEN Others(h) ELSE @ \ {k}]
  /\ pc' = [pc EXCEPT ![h] = IF todo[h] = {k} THEN then ELSE again]

-----------------------------------------------------------------------------
(* waitLive() and waitDead(): tell everybody, then wait for everybody.     *)

AnnounceUp(h, k) ==
  /\ pc[h] = "announce" /\ Running(k)
  /\ live' = [live EXCEPT ![k][h] = TRUE]
  /\ Advance(h, k, "announce", "waitup")
  /\ UNCHANGED <<choosing, number, highest, left, owner, violation, deaths>>

SeeUp(h, k) ==
  /\ pc[h] = "waitup" /\ live[h][k]
  /\ Advance(h, k, "waitup", IF left[h] = 0 THEN "goodbye" ELSE "choose")
  /\ UNCHANGED <<choosing, number, live, highest, left, owner, violation, deaths>>

(* HostDown() on k, and its reply, if k is still there to send it. *)
AnnounceDown(h, k) ==
  /\ pc[h] = "goodbye" /\ Running(k)
  /\ live' = [live EXCEPT ![k][h] = FALSE]
  /\ pc' = [pc EXCEPT ![h] = "told"]
  /\ UNCHANGED <<choosing, number, todo, highest, left, owner, violation, deaths>>

DownReply(h, k) ==
  /\ pc[h] = "told" /\ Running(k)
  /\ Advance(h, k, "goodbye", "waitdown")
  /\ UNCHANGED <<choosing, number, live, highest, left, owner, violation, deaths>>

(* Bug: a host exits without waiting for the others. *)
SeeDownNone(h, k) ==
  /\ pc[h] = "waitdown"
  /\ Advance(h, k, "waitdown", "gone")
  /\ UNCHANGED <<choosing, number, live, highest, left, owner, violation, deaths>>

SeeDown(h, k) ==
  /\ pc[h] = "waitdown" /\ ~live[h][k]
  /\ Advance(h, k, "waitdown", "gone")
  /\ UNCHANGED <<choosing, number, live, highest, left, owner, violation, deaths>>

(* A host that is not as it should be: waitHosts() looks at all again. *)
LookAgain(h, k) ==
  /\ \/ pc[h] = "waitup" /\ ~live[h][k]
     \/ pc[h] = "waitdown" /\ live[h][k]
  /\ todo[h] # Others(h)
  /\ todo' = [todo EXCEPT ![h] = Others(h)]
  /\ UNCHANGED <<pc, choosing, number, live, highest, left, owner, violation, deaths>>

-----------------------------------------------------------------------------
(* bakeryFun().                                                            *)

Choose(h) ==
  /\ pc[h] = "choose"
  /\ choosing' = [choosing EXCEPT ![h] = TRUE]
  /\ highest' = [highest EXCEPT ![h] = 0]
  /\ pc' = [pc EXCEPT ![h] = "max"]
  /\ UNCHANGED <<number, live, todo, left, owner, violation, deaths>>

(* numOfHost(k) and isChoosing(k), which do not ask a host that is not up. *)
NumOfHost(h, k) == IF live[h][k] THEN number[k] ELSE 0
IsChoosing(h, k) == live[h][k] /\ choosing[k]
Answers(h, k) == live[h][k] => Running(k)

ReadMax(h, k) ==
  /\ pc[h] = "max" /\ Answers(h, k)
  /\ highest' = [highest EXCEPT ![h] = IF NumOfHost(h, k) > @ THEN NumOfHost(h, k) ELSE @]
  /\ Advance(h, k, "max", "take")
  /\ UNCHANGED <<choosing, number, live, left, owner, violation, deaths>>

Take(h) ==
  /\ pc[h] = "take"
  /\ number' = [number EXCEPT ![h] = 1 + highest[h]]
  /\ pc' = [pc EXCEPT ![h] = "unchoose"]
  /\ UNCHANGED <<choosing, live, todo, highest, left, owner, violation, deaths>>

Unchoose(h) ==
  /\ pc[h] = "unchoose"
  /\ choosing' = [choosing EXCEPT ![h] = FALSE]
  /\ pc' = [pc EXCEPT ![h] = "waitchoose"]
  /\ UNCHANGED <<number, live, todo, highest, left, owner, violation, deaths>>

(* Bug: nobody waits for a host that is choosing. *)
SeeChosenAnyway(h, k) ==
  /\ pc[h] = "waitchoose" /\ Answers(h, k)
  /\ pc' = [pc EXCEPT ![h] = "waitnum"]
  /\ UNCHANGED <<choosing, number, live, todo, highest, left, owner, violation, deaths>>

SeeChosen(h, k) ==
  /\ pc[h] = "waitchoose" /\ Answers(h, k)
  /\ ~IsChoosing(h, k)
  /\ pc' = [pc EXCEPT ![h] = "waitnum"]
  /\ UNCHANGED <<choosing, number, live, todo, highest, left, owner, violation, deaths>>

(* Bug: of two hosts with the same ticket each waits for the other. *)
LtOrTie(na, a, nb, b) == na <= nb

(* Bug: the order of names alone. *)
LtByName(na, a, nb, b) == a < b

(* lt() *)
Lt(na, a, nb, b) == na < nb \/ (na = nb /\ a < b)

SeeNumber(h, k) ==
  /\ pc[h] = "waitnum" /\ Answers(h, k)
  /\ NumOfHost(h, k) = 0 \/ ~Lt(NumOfHost(h, k), k, number[h], h)
  /\ Advance(h, k, "waitchoose", "enter")
  /\ UNCHANGED <<choosing, number, live, highest, left, owner, violation, deaths>>

(* Bug: off by one in the number of iterations. *)
LeaveOnceMore(h) ==
  /\ pc[h] = "leave"
  /\ number' = [number EXCEPT ![h] = 0]
  /\ left' = [left EXCEPT ![h] = @ - 1]
  /\ pc' = [pc EXCEPT ![h] = IF left[h] = 0 THEN "goodbye" ELSE "choose"]
  /\ UNCHANGED <<choosing, live, todo, highest, owner, violation, deaths>>

Leave(h) ==
  /\ pc[h] = "leave"
  /\ number' = [number EXCEPT ![h] = 0]
  /\ left' = [left EXCEPT ![h] = @ - 1]
  /\ pc' = [pc EXCEPT ![h] = IF left[h] = 1 THEN "goodbye" ELSE "choose"]
  /\ UNCHANGED <<choosing, live, todo, highest, owner, violation, deaths>>

-----------------------------------------------------------------------------
(* critical_section(), with the observer's EnterCS and ExitCS, which look  *)
(* at owner in one step and set it in the next.  Without an observer hosts *)
(* do the same, and nobody looks.                                          *)

(* "VIOLATION": the call fails, which is fatal to the caller. *)
Object(h) ==
  /\ violation' = TRUE
  /\ pc' = [pc EXCEPT ![h] = "dead"]

EnterCS(h) ==
  /\ \/ /\ pc[h] = "enter"
        /\ IF owner # Nobody THEN Object(h)
           ELSE pc' = [pc EXCEPT ![h] = "entering"] /\ UNCHANGED violation
        /\ UNCHANGED owner
     \/ /\ pc[h] = "entering"
        /\ pc' = [pc EXCEPT ![h] = "cs"]
        /\ owner' = h
        /\ UNCHANGED violation
  /\ UNCHANGED <<choosing, number, live, todo, highest, left, deaths>>

(* Bug: the owner stays. *)
ExitCSKeepsOwner(h) ==
  /\ \/ pc[h] = "cs" /\ pc' = [pc EXCEPT ![h] = "exiting"]
     \/ pc[h] = "exiting" /\ pc' = [pc EXCEPT ![h] = "leave"]
  /\ UNCHANGED <<choosing, number, live, todo, highest, left, owner, violation, deaths>>

ExitCS(h) ==
  /\ \/ /\ pc[h] = "cs"
        /\ IF owner = Nobody THEN Object(h)
           ELSE pc' = [pc EXCEPT ![h] = "exiting"] /\ UNCHANGED violation
        /\ UNCHANGED owner
     \/ /\ pc[h] = "exiting"
        /\ pc' = [pc EXCEPT ![h] = "leave"]
        /\ owner' = Nobody
        /\ UNCHANGED violation
  /\ UNCHANGED <<choosing, number, live, todo, highest, left, deaths>>

-----------------------------------------------------------------------------
(* doRPC() to a host that is not there, or not any more, is fatal.         *)
Calls(h, k) ==
  \/ pc[h] \in {"announce", "goodbye", "told"}
  \/ pc[h] \in {"max", "waitchoose", "waitnum"} /\ live[h][k]

CallFails(h, k) ==
  /\ Calls(h, k) /\ ~Running(k)
  /\ pc' = [pc EXCEPT ![h] = "dead"]
  /\ UNCHANGED <<choosing, number, live, todo, highest, left, owner, violation, deaths>>

(* A host dies; the observer may still serve the call it has made. *)
Die(h) ==
  /\ Running(h) /\ deaths < MaxDeaths
  /\ pc' = [pc EXCEPT ![h] = "dead"]
  /\ deaths' = deaths + 1
  /\ \/ UNCHANGED owner
     \/ pc[h] = "entering" /\ owner' = h
     \/ pc[h] = "exiting" /\ owner' = Nobody
  /\ UNCHANGED <<choosing, number, live, todo, highest, left, violation>>

Step(h) ==
  \/ \E k \in Hosts :
       /\ NextHost(h, k)
       /\ \/ AnnounceUp(h, k) \/ SeeUp(h, k) \/ LookAgain(h, k)
          \/ ReadMax(h, k) \/ SeeChosen(h, k) \/ SeeNumber(h, k)
          \/ AnnounceDown(h, k) \/ DownReply(h, k) \/ SeeDown(h, k)
          \/ CallFails(h, k)
  \/ Choose(h) \/ Take(h) \/ Unchoose(h) \/ Leave(h)
  \/ EnterCS(h) \/ ExitCS(h)

Next == \E h \in Hosts : Step(h) \/ Die(h)

Spec == Init /\ [][Next]_vars

(* The goroutines of a host run, and a call of a host that is there is     *)
(* answered.                                                               *)
FairSpec == Spec /\ \A h \in Hosts : WF_vars(Step(h))

-----------------------------------------------------------------------------
(* Properties.                                                             *)

(* "mutual exclusion": at most one host is in critical_section().          *)
MutualExclusion ==
  \A h, k \in Hosts : pc[h] \in Critical /\ pc[k] \in Critical => h = k

(* Tickets are served in order: whoever has one while h is in the critical *)
(* section has a later one, also if h or others have died.                 *)
TicketOrder ==
  \A h, k \in Hosts :
    /\ h # k /\ pc[h] \in Critical
    /\ pc[k] \in Waiting \cup Critical
    => Lt(number[h], h, number[k], k)

(* The observer never sees a reason to log "VIOLATION", whoever dies and   *)
(* wherever (observer.go:25 and 35).                                       *)
ObserverQuiet == ~violation

(* waitDead() keeps a host there until all have finished: while none has   *)
(* died by itself, a host exits, or dies of a call to one that has exited, *)
(* only after the last critical section of them all                        *)
(* (bakery-dist.go:250-257).                                               *)
NobodyLeavesEarly ==
  deaths = 0 /\ (\E h \in Hosts : ~Running(h)) =>
    \A k \in Hosts : left[k] = 0 /\ pc[k] \in Ending \cup {"dead"}

(* Nobody waits for ever at the counter: a host with a ticket is served,   *)
(* unless a host has died.                                                 *)
SomeDead == \E k \in Hosts : pc[k] = "dead"

Served == \A h \in Hosts : pc[h] \in Waiting ~> pc[h] \in Critical \/ SomeDead

(* "then they wait for all the hosts to check in before starting the       *)
(* bakery algorithm" (bakery-dist.go:22-23): they all do start.            *)
AllStart == \A h \in Hosts : <>(pc[h] \notin Starting)
=============================================================================
