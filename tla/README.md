# go-getting: a verification project

`go-getting` is a collection of Go programs, most of them exercises in
concurrency and distributed agreement. This directory holds TLA+ models of them,
the TLC configurations that check the models on small instances, and proofs that
TLAPS checks for every instance. Line numbers below refer to `src/`.

## Inventory

| Part | State it keeps | Operations | Hard behaviour | What makes it correct |
|---|---|---|---|---|
| `2pc/node.go`: coordinator and cohort of a two-phase commit with presumed abort | state, value and request in memory, a synchronous log, two unbuffered channels, two UDP sockets | client request, prepare, vote, commit, abort, ack, peek, value, recovery from the log | dropped datagrams, two timers, late answers, crash and restart of either process, three goroutines per process | the logs change atomically; answers to clients are true; recovery gives back the state; requests are answered |
| `paxos/upaxos.go`: Paxos participant over unreliable broadcast (leader, acceptor and learner goroutines) | per instance the minimum proposal number and the accepted value; counts of promises and accepts; learned values; a log | Request, Propose, Promise, Write, Accept, NACK, recovery | loss, reordering (`go send`), duplicates, restart, several leaders, late messages of earlier instances | promises are kept across restarts; a learned value was accepted by a majority; agreement |
| `paxos/bpaxos.go`: Paxos with goroutines and channels in one process | biggest number and value of each acceptor | prepare, accept, propose | all acceptors share one channel; each command runs in a goroutine of its own | agreement among proposers |
| `paxos/pircxos.go`: IRC moderator (and bot) of a Paxos game | players with ids, proposals, promises, values | propose, promise, set, accept, join, part, new game | players come and go in the middle; old games leak into new ones | only legal moves are let through |
| `paxos/clubpaxos.go`: member of a Paxos "club" on IRC | proposal numbers seen | join, ask, propose | numbers of several members | proposal numbers are unique and grow |
| `bakery/bakery.go`, `bakery-v.go`: Lamport's bakery with goroutines | shared slices `choosing` and `number` | choose, wait, enter, leave | plain loads and stores on several CPUs | mutual exclusion, first come first served |
| `bakery/bakery-dist.go`, `observer.go`: the bakery over RPC | `me.choosing`, `me.number`, `liveHosts`; owner in the observer | HostUp, HostDown, BakeryNumber, IsChoosing, EnterCS, ExitCS | values are used after they were read; a failed call ends the caller; start and end races | mutual exclusion, every host finishes |
| `clhlock.go`: CLH queue lock | tail pointer, a node per thread | lock, unlock | swap, spin, node recycling | mutual exclusion, order of arrival |
| `l77rw1.go`: Lamport's 1977 concurrent reading and writing | two versions and a datum of four bytes | read and write in opposite byte orders | readers overlap the writer in the middle of a number | no torn read is returned |
| `web/shareform/shform.go`: hub that shares form updates between WebSockets | the set of connections, a bounded channel per connection | register, unregister, share | slow readers, closing of channels by two parties | a channel is closed once; nobody blocks the hub |
| `web/shareform/shform.js`: the form in the browser | view models, the last message received | local edit, message received | echo, concurrent edits, rate limit | browsers converge; a lit field fades |
| `threefourths/main.go`, `clrs3/`, `wc.go`, `collate.go` | local data | pure algorithms | edge cases | they compute what they say |
| UDP/IP test programs, `linesrv.go`, `closure.go`, `json.go`, `jumpin.go`, `selfexe/`, `selfwrite.go`, `android-apps/` | none worth a state machine | I/O | | not modelled |
| `web/shareform/pub/.../bootstrap.js`: the plugins of the page, vendored | an object per element, classes of elements, callbacks, timers | click, hover, key; end of a transition or a delay | callbacks come late, several at once, from children, in any order | at rest an element, its object and what depends on it agree; timers are not lost |
| `web/shareform/pub/.../knockout-3.1.0.js`: observables, vendored | value, subscribers | write, notify, rate limit | a limited observable tells later | a change is told once |

The programs do not call each other. Within a program the parts interact through
channels (2pc, upaxos, bpaxos, shareform), datagrams (2pc, upaxos), RPC
(bakery-dist, observer), IRC lines (pircxos, clubpaxos) and shared memory
(bakery, clhlock, l77rw1). `PROJECT.json` lists the hazards of each at the line
where they bite.

## Plan

1. `TwoPhase` with its abstract specification `AtomicChange`: done, see below.
2. `UPNet`, `UPAcceptor`, `UPLearner`, `UPLeader` and their composition
   `UPaxos`: done, see below. Left: a search for two learners that learn differently (an old
   write that arrives late, `upaxos.go:370`), which needs longer runs than TLC
   explores here in five minutes.
3. `BakeryDist`, with the life cycle of hosts and the observer: done, see below.
4. `Pircxos` (moderator), with `ClubPaxos` (the choice of proposal numbers): the
   largest part of the code that is left.
5. `ShareWire`, `ShareHub` (hub, handlers, slow clients), `ShareClient`
   (browsers) and their composition `SharedForm`: done, see below.
   `ShareHighlight` and the plugins of `bootstrap.js` that wait for something
   (`BSTransition` and five modules above it, composed by `BSPage`): done, see
   below, with `SharedFormProofs` and `BSPageProofs`. Left: the plugins that wait
   for nothing, and knockout's bindings.
6. `Bakery` over plain memory: with sequentially consistent memory it excludes,
   with store buffers (what the compiled code gets on amd64) it should not.
7. `CLHLock` (refines an abstract FIFO lock) and `ReadersWriter`
   (no torn read), with theorems.
8. `BPaxos`; then the pure algorithms.

Abstract specifications worth stating: `AtomicChange` (2pc), a single-value
consensus (bpaxos), a FIFO lock (bakery, CLH), an atomic register
(l77rw1).

## The two-phase commit

### How the model corresponds to the code

`TwoPhase.tla` models both processes of `2pc/node.go`, with the three goroutines
of each as far as they can block:

| Variable | Code |
|---|---|
| `up`, `port` | the process runs; which start it is (its dial socket has a new UDP port each time, so replies to an earlier life are lost) |
| `state`, `value`, `req` | the variables of `main` (239, 238, 261) |
| `main` | where `main` waits: `select` (289), sending on `dialc` (266, 307, 325, 341, 361), sending on `srvc` (327, 329, 342, 362), or the startup loop (267, `peek`) |
| `out` | the message main sends on `dialc` |
| `dial`, `given` | where `dial` waits: for a message (124, `recv`), for the network or its timer (143, `wait`), sending on `dialc` (150, `give`), or with a refused write (128, `refused`) |
| `inbox`, `replies` | the receive queues of the server and dial sockets |
| `log` | the file of `startLog`: the records that follow the time stamp |
| `serving`, `answer` | the client request that `serve` waits to answer (96), and what it was answered |
| `drops` | datagrams eaten by `drop()` (98, 126) |

The actions and their lines are in the `map` of `PROJECT.json`. Each is the step
of one goroutine from one blocking point to the next; a rendezvous on an
unbuffered channel is one step of both sides. The reductions made:

* A client's datagram, `serve`'s hand-over and main's handler are one action
  (`CoordReq`): between them `serve` only blocks on main. The same holds for a
  datagram to the cohort (`CohortPrepare`, `CohortCommit`, `CohortAbort`): its
  handler and the reply of `serve` are one step. A crash in between is the same
  as a dropped reply after the log was written, and the runs with drops have it.
* `pause()` only makes the interleavings visible that TLC explores anyway.
* `rand` decisions (a vote of "no", an abort after "yes", a drop) are
  nondeterministic.
* After a timed-out exchange its reader goroutine is still there, so that as
  many readers as queued datagrams may run: `DialReply` hands over any of them.
  Their race on the shared buffer is not modelled.
* The values clients ask for are distinct, so that a value names a request. The
  cases "timeout" and "value" of the main loop cannot happen in a cohort (its
  dial goroutine only moves in the startup loop); they have no action.
* The hangs of the code are part of the model: `Hung(p)` is a state in which
  both goroutines of `p` send on `dialc`. Nothing moves them on.

`AtomicChange.tla` is the promise of the header comment (3-14): a value that
changes in one step, and a second participant that sees either the current value
or that it does not know it. `AppearsAtomic` maps its `val` to what recovery
would read from the coordinator's log and its `view` to what it would read from
the cohort's, or `"uncertain"` while the last decisive record there is a "yes".

### Bounds

`MaxStarts = 2` (each process runs, dies and runs again), `MaxDrops = 2` (one to
lose the decision, one more to lose a retry or the next prepare; the shortest
counterexamples of the violation runs need two), two values (two transactions,
so that messages of the first can disturb the second), `Window` larger than any
log of the runs. No other quantity grows: the queues are
bounded by the drops and the two lives. The constants `Prompt` and `Patient`
restrict the environment: with `Prompt` a timer does not fire while an answer is
on its way, on loopback the normal case for the 2 s timer; with `Patient` a
client sends no request while an exchange with the cohort is open.

### Runs

| Run | Question | Result |
|---|---|---|
| `tp_prompt` | With prompt answers, any drops and crashes: logs atomic (`AppearsAtomic`, `LogAgreement`), answers true (`AnswersTrue`), memory in agreement until a drop (`UndroppedAgreement`), and the inductive invariant `TwoPhaseInv` | hold |
| `tp_live` | Without `Prompt`, with `Patient` clients and fair goroutines: recovery is faithful (`RecoveryFaithful`), a decision is final (`DecisionsFinal`), accepted requests are answered (`RequestsSettled`), the period of uncertainty ends (`UncertaintyEnds`) | hold |
| `tpv_coord_hang` | "listen for more requests from clients" (349) | violated: a request taken before the ack makes `main` and `dial` both send on `dialc` |
| `tpv_late_logs` | "the participants will still have the right state in their logs" (56-57) | violated when an answer is later than the timer: it is taken for the answer to the next prepare |

`UndroppedAgreement` ends with the first drop for a reason: when a commit is
lost, and then the next prepare, the abort of that prepare ends the cohort's
uncertainty about the committed transaction (421), and it shows the old value,
against the header comment (8-12, 50-53). The logs agree even then.

`tp_live` has answers that come before, at and after the timer. Its clients are
`Patient`, since the others meet the hang that `tpv_coord_hang` shows, after
which nothing is ever answered; for impatient clients too, the two invariants of
the run are theorems. `Window` is a premise of all the runs: none of them asks
what recovery makes of a log that is longer.

No process has to keep running and no client has to ask, so the systems of
these runs may stop: `CHECK_DEADLOCK FALSE`.

Fairness (`tp_live`): weak fairness of each goroutine (`Dial(p)`, `CoordMain`,
`CohortMain`): the Go scheduler runs a goroutine that can run, and a timer that
is due fires. There is none for starting or killing a process, for requests and
for drops. Crashes and drops excuse `UncertaintyEnds`: a cohort that lost its
commit waits for a restart by hand, as the header comment says.

### Proofs

`TwoPhaseTypes.tla` proves `TypeOK`, one lemma per action. `TwoPhaseProofs.tla`
proves, for every set of values and every bound:

* `TwoPhaseInvariant`: `Spec => [](Prompt /\ LogsFit => TwoPhaseInv)`. The
  inductive invariant adds to `LogAgreement` what makes it inductive: a dead
  process holds nothing (`DownInv`), memory mirrors the log (`MemoryInv`), at
  most one exchange is open and it is about the current transaction
  (`ExchangeInv`), a "yes" on its way binds the cohort to the coordinator's
  request (`VoteInv`), a commit on its way finds the cohort bound to the
  committed value (`CommitInv`), and a value on its way to a starting cohort is
  still the current one (`PeekInv`). Without `ExchangeInv` a late vote could be
  counted for the next request, which is what `tpv_late_logs` shows.
* `LogsAgree`: `LogAgreement` under the same premises.
* `LogsChangeAtomically`: under the same premises the logs implement
  `AtomicChange`: initial states map to initial states and every step to a step
  or a stutter (`AtomicInit`, `AtomicStep`).
* `RecoveryIsFaithful`: `RecoveryFaithful` as long as the logs fit the window,
  with no premise on timing.

`TwoPhaseAnswers.tla` goes on to what the participants tell:

* `DecisionsAreFinal` (`DecisionsFinal`) and `CoordinatorTellsItsLog`: no request
  is both committed and aborted in the coordinator's log, and a client is told OK
  only of what that log commits and SORRY only of what it does not, with no
  premise at all: answers may be late, and logs longer than the window.
  `FinalInv` follows a request through the coordinator: it is not in the log
  while it is new (`ToldInv`) or being prepared (`OpenInv`), and from the decision
  to the answer what waits to be told is the record just written (`DecidedInv`).
  This needs no agreement between the two processes, so a late vote cannot
  disturb it.
* `AnswersAreTrue` (`AnswersTrue`, which speaks of both logs). What is added is
  `CohortFollows`: the cohort commits nothing the coordinator has not. Its step
  for a cohort that takes a commit rests on `CommitInv` of `TwoPhaseInv`, and so
  on `Prompt` and `LogsFit`.
* `UndroppedMemoryAgrees` (`UndroppedAgreement`), under the same premises. The
  invariant `ShownInv` says why a cohort that has missed a commit cannot be told
  to abort, which would end its uncertainty and show the old value
  (`BehindInv`): no abort is on its way to it; and of a transaction the
  coordinator prepares meanwhile, the question is still to be sent or waits for
  the cohort, which dies of a prepare that comes while it is uncertain (408) and
  reads the commit's fate from the coordinator when it starts. A yes on its way
  was sent by a cohort that is uncertain since (`YesUncertain`).
  One dropped datagram breaks this, as the last section shows.

The premise `LogsFit` is needed: recovery reads 9000 bytes, and a commit that
aborted requests have pushed further back is forgotten (169-177).
The proofs use no assumption other than `ConstantsAssumption`.

Of the two-phase commit only the liveness properties are left to TLC: liveness
is out of the prover's reach.

## The Paxos group (upaxos)

### How the model corresponds to the code

A participant is one process with four goroutines: `listen` copies every
datagram to `lead`, `accept` and `learn` (and to `main`, which only looks for
"quit"). `UPNet` has the network, `UPAcceptor`, `UPLearner` and `UPLeader` a
goroutine each, and `UPaxos` composes them and adds death and restart.

| Variable | Code |
|---|---|
| `up` | the participant runs |
| `sent` | every datagram written by `send` (472); it is never taken out, so each may arrive late, after others, or not at all |
| `taken` | what each role has received, so that a datagram arrives once (`Duplicates = FALSE`); with `Duplicates = TRUE` it may arrive any number of times |
| `minp`, `accepted` | the maps of `accept` (328-329), -1 and `None` for a missing key |
| `plog`, `alog`, `llog` | the last "promise", "accept" and "learn" record of an instance in the log file, which is all that recovery makes use of |
| `heard`, `count`, `written` | `Accepts.v` and `.p`, `Accepts.n`, `written` (380-395) |
| `instance`, `lastp`, `req`, `queued`, `wval`, `wp`, `npromise`, `naccepts` | `instance`, `lastp`, `r`, `nrq`, `v`, `vp`, `npromise`, `naccepts` of `lead` (176-184) |
| `told` | a history variable, which no guard reads: the accepted values that the promises `lead` has counted since it came to its instance have reported (249-254); `catchup` to another instance and death empty it |

An action is one goroutine's handling of one datagram, with what it logs and
sends. The reductions made:

* The three roles receive a datagram in steps of their own. They share no
  memory, so their order only matters when the process dies in between.
* A value is a sequence of words, because recovery keeps only the first
  (`f[3]`, 532): `FirstWord`. The other fields of a datagram are numbers.
* The queue of requests is its length: taking anything out of it panics (297:
  queued as `Req`, taken out as `*Req`), so its contents are never used.
  `Panic` is that death. The OK before it may or may not get out.
* Requests are there from the start and each is heard by the participants that
  `Hears` names, at any time or never. Lookups, BUSY and the 30 s timer change
  no state. The cap of 50 datagrams per process (473) is a loss.
* `npromise` and `naccepts` stop at `N`: they are only compared with `N \div 2`.
* A datagram that a dying process has logged but not sent is one that nobody
  receives.
* A datagram that a role ignores changes nothing and has no action: for that role
  it is as if it arrived later, or never.

### Bounds

`up_group`: two participants, both of which lead; two values of one word, since
recovery cuts longer ones (see `upv_words`); `MaxInstance = 2` (the loser's request moves
on to the next instance), `MaxNumber = 3` (each leader has two numbers),
`MaxReqQ = 1` instead of 10 (one queued request is enough to panic),
`MaxSent = 11` datagrams (a full round takes seven beyond the two requests, and
the rest lets the other leader interfere), one death of participant 0, whose
learner is the one looked at. `upv_ok`: three participants, one leader, one
instance. `upv_words`: two participants, one value of two words, one instance,
one death. The bounds only restrict the environment and how far TLC looks; the
theorems have none of them fixed.

### Runs

| Run | Question | Result |
|---|---|---|
| `up_group` | Two leaders compete for values of one word and one participant dies and recovers: promises are kept (`PromisesKept`) and tell exactly what was accepted (`PromisesTell`), a leader writes the value of the highest number reported to it in its instance (`WritesAdopt`), a learned value has a majority behind it (`LearnedByMajority`) and the learner knows it as it logged it (`HistoryKept`) | hold |
| `upv_words` | "V the previously accepted value" (89): what a promise reports was accepted by its sender (`PromisedWasAccepted`), with a value of two words | violated: after a restart the acceptor reports the first word alone (532), a value nobody accepted; line 537 cuts what the learner knows in the same way |
| `upv_ok` | "When you see OK in the logs, that's Paxos responding to you that there has been consensus on a value" (`paxos/README:66-67`) | violated without any failure: the third promise makes the leader send its Write again (256), the same acceptor answers both, and both answers are counted (290) |

A group whose datagrams are all received or lost stops: `CHECK_DEADLOCK FALSE`.
No liveness is stated: the code retries nothing, so any lost datagram may stop a
request for good.

What the model does not promise is agreement. The code has several ways to lose
it, and each is a step of the model: `AcceptWrite` leaves `minp` alone, so a
write of a lower number than the accepted one may still overwrite it (370);
`LeaderDown` makes a leader start again with its first number (177); a
repeated Write may carry another value than the first (249-262); a leader that
leaves an instance or dies forgets what it was told there, and may come back to
the same number (185-197), which is why `WritesAdopt` speaks of what it was told
since it came to the instance; the learner
counts accepts of different numbers together (429-440), which `LearnedByMajority`
allows.

`PromisesTell`, `HistoryKept` and `LearnedByMajority` compare values word for
word. They are false of values of several words, for the one reason `upv_words`
shows, and are asked, and proved, of values of one word (`OneWordEach`).

### Proofs

`UPaxosTypes.tla` proves `TypeOK` (`UPaxosTypeOK`), with the lemmas on sending,
receiving and numbers that the rest uses. `UPaxosProofs.tla` proves for every
group size, any values, bounds and deaths, and with duplicated datagrams too:

* `UPaxosPromisesKept`, `UPaxosPromisesTell` and `UPaxosPromisedWasAccepted`,
  from one inductive invariant, `AcceptorInv`: the log of an acceptor bounds every promise it has sent
  (`PromisesLogged`), it has an accept exactly if one was sent
  (`AcceptsLogged`), and the memory of a running acceptor is what recovery would
  make of the log, up to the words recovery drops (`Remembers`). The action
  properties alone are not inductive: a crash throws `minp` away, and only the
  log carries it to the next life. The last two have the premise `OneWordEach`:
  then every value ever sent or logged has one word (`TellsWords`, `WordsTold`),
  and what recovery makes of it is the value itself (`OneWordStays`).
  `UPaxosPromisesKept` needs no such premise.
* `UPaxosLearnedByMajority`, from `MajorityInv`: what a learner has heard was
  sent, `count` is the number of hosts by value (`RecountCounts`, with the
  theorems on cardinality), and a logged value has a majority. Also for
  `OneWordEach`; without it the majority is behind the value whose first word
  the learner knows (`Same`).
* `UPaxosHistoryKept`, under `OneWordEach`: what a running learner knows is its
  log, value for value.
* `UPaxosWritesAdopt`, from `LeaderInv`: `v` and `vp` are the report of the
  highest number in `told`, each of which a promise for the leader's instance
  has made; and if there is none, `vp` is -1 and `v` is nil or the request. The
  second half is what makes it inductive: the first counted report must beat a
  `v` that the leader has set to its own request (`CountRemembers`), and a new
  request must not meet a `v` of the one before (`Succeed` empties it).

They use `NetAssumption`, `LeaderAssumption` and `GroupAssumption`. No property
of this system is left to TLC alone.

## The bakery over RPC

### How the model corresponds to the code

`BakeryDist.tla` models `main` of every host of `bakery/bakery-dist.go`, from
`waitLive` to its exit, and the observer. The server goroutines of a host only
read `me` and write `liveHosts`, so their steps are actions of the caller.

| Variable | Code |
|---|---|
| `pc` | where `main` is; `"gone"` after `waitDead`, `"dead"` after a `log.Fatal` or a death |
| `choosing`, `number` | `me.choosing`, `me.number` |
| `live[h][k]` | `liveHosts[k]` on host `h` |
| `todo` | what the loop over `hostList` that `h` is in has left; hosts are numbered in the order of their names |
| `highest` | `m` in `maxNumber` |
| `left` | iterations of `bakeryFun` that are left |
| `owner`, `violation` | the observer's `owner`, and that it has logged "VIOLATION" |
| `deaths` | hosts that died by themselves |

An RPC that reads, or `HostUp`, is one step, the one in which the other host's
server reads or writes. What its caller does with the answer before its next
call is local (it compares, or goes on in a loop), so nobody can tell when it does
it; and the other host does not exit before it has replied, since its `waitDead`
waits for the caller's own `HostDown`. If it dies, the caller dies, as it does of a
call that fails.

`HostDown` is two steps (`AnnounceDown`, `DownReply`): once the handler has written
`liveHosts` (89) the other host's `main`, which polls (217), may have been told by
all, leave `waitDead` and exit before the reply is written. The caller then dies
of `log.Fatal` (235-237, `CallFails` at `"told"`) although nobody has died before,
and hosts it has not told yet wait in `waitDead` for ever. By then all have had
their turns, which is what `NobodyLeavesEarly` says.

The check of `liveHosts` before a call (109, 117) is in the same step as the
call: when it becomes false after the check, the other host has sent `HostDown`,
its number is 0 and it is still there, because it waits for the caller's own
`HostDown`, or has died, which is also a way for the caller to die (`Die`). The reductions
and assumptions:

* The servers are up when `waitLive` starts: "You have to start the program
  within a few seconds on all the hosts" (21-22), and `main` sleeps for 5 s.
* `waitHosts` looks at all hosts again after a pass in which one was not as it
  should be; the model starts the new pass at once (`LookAgain`).
* The handlers read `me.choosing` and `me.number` without a lock while `main`
  writes them. Both are word-sized, and `main` makes a system call (an RPC, or
  printing) after each write and before anyone can depend on it, so
  the only outcomes are the old and the new value. `liveHosts` is a map that is
  read and written without a lock, which may end the program: a death (`Die`).
* `EnterCS` and `ExitCS` of the observer test `owner` in one step and set it in
  the next, since net/rpc runs each call in a goroutine of its own. When the caller
  dies in between, the call may still be served. A run without an observer is
  one in which nobody looks at `owner`.
* A host that died does not come back: the program keeps nothing.

### Bounds

`bd_three`: three hosts (one to be in the critical section, one to wait for it,
one to choose meanwhile), of which the last has two turns, so that it chooses
again while the others wait with their old tickets; one death, at any point.
`bdv_start`: two hosts with one turn, no death. Numbers are not bounded: they
fall back to 0, and a host's turns bound how far they grow.

### Runs

| Run | Question | Result |
|---|---|---|
| `bd_three` | Mutual exclusion, in the order of tickets (`TicketOrder`), also after a death; the observer never objects (`ObserverQuiet`); while no host has died by itself, none exits, or dies of calling one that has, before all have had their last turn (`NobodyLeavesEarly`); a host with a ticket is served unless one has died (`Served`) | hold |
| `bdv_start` | "then they wait for all the hosts to check in before starting the bakery algorithm" (22-23): all start | violated: a host that has seen everybody may finish and take its `HostUp` back with a `HostDown` before a slower one has looked (218), and that one waits for ever |

Fairness: weak fairness of each host's `Step`: the goroutines of a host that is
alive run, and the server of a host that is there answers. There is none for
deaths. When hosts are gone the system stops: `CHECK_DEADLOCK FALSE`.

### Proofs

`BakeryDistProofs.tla` proves, for any number of hosts (two or more), of turns
and of deaths, `BakeryTypeOK`, `BakeryExclusion`, `BakeryOrder`, `BakeryQuiet`
and `BakeryNobodyLeavesEarly`, all from one inductive invariant, `BInv /\ OInv`.
`Passed(p, k)` is the heart of it: once `p` has waited for `k`, whatever ticket
`k` has, or will take, is later than `p`'s. It needs to look into the future of
a host that is still reading numbers, which is `WillSee`: `k` has either
counted `p`'s number already or still has `p` in its list. `Copy(h, k)` relates
`k`'s entry for `h` to how far `h` is: a host that takes part is believed live by
all, so nobody skips it, and a host is only gone when all have told it that they
are down (`ToldDown`, which a host is from the handler's write on, not from the
reply). `Owner` says that a dead owner in the critical section stops every
other host at its ticket (`Stuck`), so that the observer, which never learns of
the death, is not asked again. `MutualExclusion` alone is not inductive: it says
nothing of hosts that have not entered yet. The only assumption is
`BakeryAssumption`.

`Served` is liveness, and model-checked only.

## The shared form

### How the model corresponds to the code

`ShareWire` is the WebSocket between a page and the server, `ShareHub` the server
(`shform.go`: the hub, and for each connection `serveWs`, its reader and its
writer), `ShareClient` the pages (`shform.js`, with the rate limit of knockout),
`SharedForm` all of them together.

| Variable | Code |
|---|---|
| `conn`, `up`, `down` | `readyState` of the WebSocket, messages under way in each direction |
| `hub` | the server runs, or has panicked |
| `reg` | `h.connections` (102) |
| `srv` | where `serveWs` is: before `h.register <- c`, in `c.reader()`, in the deferred `h.unregister <- c`, done |
| `writer`, `chan`, `closed` | the writer goroutine runs; contents of `c.send`; it has been closed |
| `page`, `val`, `lastReceived` | the page is open; its observables; the variable of that name |
| `slow`, `timer` | what `bandSlowVal` last told, and whether its 400 ms run |
| `last`, `shared`, `total`, `edits` | history: the last update of each field the hub shared, how many it shared of each and of all, how many the users made |

The reductions made:

* The hub's loop over its clients (135-153) is one step: it sends to each client
  at most once, and what a writer takes from its channel during the loop it might
  have taken before or after it. A reader's `h.share <- m` is the same step.
* Closing the WebSocket is a step of whoever closes it. A message the reader holds
  when the server closes can still be handed to the hub (`ServerCloses`), what
  is behind it cannot be read any more.
* A page is loaded once. There is no reconnection in the code (onclose logs).
* Messages are a field and a value. `JSON.stringify` of two equal messages gives
  equal strings, since all are built in the same order.
* Fields without a rate limit are alike (the three selections); one stands for
  them.
* The hub tells the sender by its address (136); two connections have two.

### Bounds

`sf_edits`: two pages, of which `b2` may leave or be cut off at any point; one
selection, edited twice, and the limited field, edited once; `BufSize = 1`
instead of 256 (two updates while a writer is stuck overflow it, as 257 do);
`CountTo = 3`, more than the edits of any one field, and more than `BufSize`, as
`PanicAfterOverflow` requires (`HubAssumption`). Three values: the default, and two that
can be told apart from it. `sfv_sync`: two pages that stay, one selection,
three edits, no edit before the last has arrived everywhere.

### Runs

| Run | Question | Result |
|---|---|---|
| `sf_edits` | The hub never sends to a closed channel (`RegisteredCanSend`); the server's only panic, a second close, takes a full buffer (`PanicAfterOverflow`); an update is shared once (`NoEcho`), and not lost or overtaken on the way to those it was shared with (`LastShareShows`); everything comes to rest, with exactly the open connections registered (`Settles`) | hold |
| `sfv_sync` | "You'll be able to see changes to the form in both browsers" (`README.rst:34`), for users who take turns | violated: an edit that equals the message received last is taken for an echo and dropped (`shform.js:17`) |

What the checks do not claim: that a full buffer is harmless. It ends the server
(150 and 132 both close the channel), and `PanicAfterOverflow` only says that
nothing else does. Nor do the pages of users who edit the same field at the same
time agree: the section "Data Conflicts" of `README.rst` says so. Nor is the
limited field free of echoes: when it tells, 400 ms after it has received a
value, another message may have replaced `lastReceived`, and the value is sent
once more. `Settles` shows that this ends.

Fairness: weak fairness of each connection's `Progress`: the goroutines of the
server run, the network delivers what it does not lose, the event loop of an open
page handles messages and timers. There is none for loading, editing, leaving
and losing a connection. Nobody has to do anything: `CHECK_DEADLOCK FALSE`.

### Proofs

`SharedFormProofs.tla` proves for any finite set of pages, any fields, values,
buffer size and bounds on edits (`WireAssumption`, `HubAssumption`,
`ClientAssumption`):

- `SharedFormTypeOK`: the types, one lemma per action, and with them that a
  channel never holds more than its buffer.
- `HubCanSend` (`RegisteredCanSend`). Not inductive alone: `Register` would add a
  client whose channel is closed already. `Life` says why there is none: who has
  yet to register has an open channel, the hub closes channels of clients only as
  it takes them from the map, and a handler is started once for a connection
  (`conn`, `srv`).
- `UpdatesAreNotEchoed` (`NoEcho`). The invariant `AllPaidFor` counts: for a field
  without a rate limit, the updates shared and the messages about it that still
  wait in all the queues to the hub (`Unread`) are together at most the edits. An
  edit pays for the one message it may send, `Share` moves one from the queues to
  the count (`UnreadTail`), a connection that is cut loses some (`UnreadCut`), and
  `Receive` sends nothing, as `lastReceived` is set before the observable.

- `PanicTakesOverflow` (`PanicAfterOverflow`). `Overflow` adds where a second close
  comes from: a channel holds no more than the hub has shared in all, so one
  closed before its client unregisters was found full by one update more than it
  holds.
- `LastShareIsShown` (`LastShareShows`). The invariant says nothing of a system in
  motion; `OnItsWay` says where the last update of a field is for each receiver
  that is still connected: the last about its field in the channel; or on the
  wire, with nothing about it left in the channel; or arrived and shown, with
  nothing about the field behind it and `lastReceived` not about to swallow
  another value; or the page has changed the field since and has a message of its
  own under way, which will be the last one when the hub takes it. Each action
  moves it one place on (`WayShared`, `WayWritten`, `WayReceived`, `WayEdited`).
  Nothing in the invariant asks the network or the writers to be fast, and a page
  that leaves or is dropped is no longer asked.

Only `Settles`, which is liveness, is left to TLC.

## The widgets of the page

### How the model corresponds to the code

The plugins of `bootstrap.js` share one pattern: change classes, leave a callback
with `.one($.support.transition.end, fn).emulateTransitionEnd(ms)`, and finish in
the callback. `BSTransition` has what they share. A callback may come from the
browser's event, from the event of a child, which bubbles, from the timer, or from
a timer that an earlier transition has left; so the modules let all callbacks of
an element fire together at any time after they are left. Each plugin has a
module:

| Module | Code | Variables |
|---|---|---|
| `BSCollapse` | `Collapse` (476-628) | `panel`: class, object and its `$parent`, `transitioning`, callbacks; `collapsed`: class of the trigger |
| `BSModal` | `Modal` (795-1020) | `modal`: `isShown`, `$backdrop`, display, class, listeners, focus, body; `drops`: each backdrop ever appended |
| `BSTooltip` | `Tooltip` (1041-1409) | `tooltip`: `enabled`, `hoverState`, `timeout`, classes, attached; `told`: what the last event asked for |
| `BSCarousel` | `Carousel` (270-457) | `carousel`: `active`, `sliding`, `paused`, `interval`, the intervals that run, indicator, handlers of `slid.bs.carousel` |
| `BSTab` | `Tab` (1704-1811) | `tabs`: classes of tabs and panes; `fading`: calls of `next()` that wait |
| `ShareHighlight` | `highlightFn` (`shform.js:54-78`) | `glow`: brightness, timers that run |

`BSPage` puts them on a page; `page` is the widget looked at, since they share no
state. An action is one event with all its handler does; JavaScript runs it
without interruption. `animated` says whether there are transitions, `hasty`
whether the user acts before they have ended: several properties hold for one
who waits only, and say so (`~hasty`); TLC violates them without. In the modal
the user who waits may press everything that can be reached; only the toggler
behind the backdrop is out of reach of the mouse. The other user has a keyboard,
but cannot close a modal with its toggler: `modal('toggle', this)` hands `hide` the
toggler for an event, whose `preventDefault` it calls (868), a TypeError.

The page itself, `index.html`, has one of the widgets, the navbar's collapse; the
others are modelled as the library they are, for any page that uses them.

Left out: events that a page handler cancels (`isDefaultPrevented`; no handler
of this page does), the size and placement of elements, remote modal content,
dropdown menus in tabs, delegated tooltips (`selector`).

### Bounds

`MaxClicks = 6`: open and close something, do the same to its neighbour, and
twice more while the callbacks of all of these are still waiting. Four panels,
three of them in an accordion (one that is open, one that opens, one that might
be taken for either); three items (next and previous differ) and
three tabs (a click can go on to a third while the first fades). `HlMax = 3`
steps instead of 15: a message that comes at the start, in the middle and at the
end of a fade.

### Runs

| Run | Question | Result |
|---|---|---|
| `bs_page` | One open panel of an accordion (`OneOpen`); triggers outside it tell the truth, however fast they are clicked (`NavbarTells`); a modal at rest has left nothing behind (`ModalRests`); no tip stays without its pointer, and it is there with it (`TipFollows`); one item is active (`OneActive`), one interval runs (`OneInterval`), the indicator is the item's (`IndicatorTells`); the pane is the tab's (`TabTells`); a lit border will fade (`NoGlowLeft`); everything ends (`ComesToRest`) | hold |

Fairness: weak fairness of `Ends`: timers that are due fire and transitions end
(by the timer, if not by the browser). There is none for users and for the
carousel's interval, so that it may be still: `CHECK_DEADLOCK FALSE`.

### Proofs

`BSPageProofs.tla` proves every invariant of the page, for any number of panels,
tabs, items, steps of the highlight and acts of the user. The widgets share no
state, so each has an inductive invariant of its own (of its type, `hasty` and
`clicks`), and `PageInv` is all of them.

What a widget does at the end of a transition depends on how many callbacks wait
with the element, and the models put no bound on that. `InTurn` calls them in
turn: `InTurnKeeps` says that what each callback keeps all of them keep. It rests
on induction over the number of callbacks called, for a set of numbers
(`SetInduction`), which follows from the library's theorem that a non-empty set of
naturals has a least element. (The library's induction theorems take an operator
as a parameter, which the provers here cannot use.) `InTurnRuns` has to prove
first that the function in `InTurn` exists.

| Theorem | Invariant | What makes it inductive |
|---|---|---|
| `TriggersTell` | `NavbarTells` | `NavFollows`: a panel outside the accordion either rests with no callback, or has exactly one of its own, which gets it to where its trigger points already. A click on its way changes neither (the `transitioning` guards of the data-api handler and of `toggle` agree), and no other panel ever throws its object away (`ToggleLeaves`) |
| `OnePanelOpen` | `OneOpen` | `Orderly`, for one who waits: at most one panel of the accordion is open or on its way to it (`Will`), and any other is closed or on its way there, with the one callback that gets it there. `show` opens a panel, and closes the open one through an object that it throws away again, in one step |
| `ModalsRest` | `ModalRests` | A modal is `Closed`, `Opening`, `Opened`, `Hiding` or `Vanishing`; each phase says which listeners it has, which callbacks wait, and that `$backdrop` is the last one appended. Any older backdrop is out of the body and has no callback. None of it is true of one who reaches the toggler behind the backdrop by keyboard, whom the property leaves out |
| `TipsFollow` | `TipFollows` | `Gone` and `Stays`: what the last event asked for is where the tip is, or what its timeout will do, or what its last callback will do. A late hide looks at `hoverState` first |
| `OneItemActive`, `IntervalIsHeld` | `OneActive`, `OneInterval` | the type of the state: `sliding` is true exactly while one item is on its way, and the interval that runs is the object's. Handlers of `slid` slide again, in turn, and keep both |
| `IndicatorsTell` | `IndicatorTells` | `Lit`, for one who waits: whenever the indicator is not the active item's, a handler that will light it waits for a `slid` that will come |
| `TabsTell` | `TabTells` | `OnePane`, for one who waits: the pane that shows is that of the active tab, or is fading and leaves behind one call of `next()`, which shows it |
| `LitBorderFades` | `NoGlowLeft` | the ranges of the brightness and of the counts of timers (`HighlightTypeOK`) |
| `PageType` | `TypeOK` | inductive with the above: the callbacks that wait are the widget's own, `$backdrop` is a backdrop that was appended |

They rest on the named assumptions of the modules: there is an item beside the
active one (`ItemsAssumption`), a finite set of tabs that is not empty
(`TabsAssumption`), a finite set of numbered panels (`PanelsAssumption`), bounds that are
numbers (`ClicksAssumption`, `HlAssumption`). `ComesToRest` is liveness, and only
model-checked.

## What is not modelled

Steps 4 and 6 to 8 of the plan, for now (`pircxos`, `clubpaxos`, the bakery in
shared memory, the CLH lock, readers and writer, `bpaxos`, pure algorithms); the
test programs and small exercises (pure I/O, no state). In `2pc/node.go`: the
text of messages beyond their first word and value, log formatting, and the
byte-level race on the buffer shared by leftover reader goroutines. In
`shform.go`: sessions, tokens and static pages. Of the vendored libraries: the
plugins that wait for nothing or only for one callback (alert, button, dropdown,
popover, scrollspy, affix), and all of knockout but the observables' equality
and rate limit.
