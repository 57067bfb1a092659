------------------------------ MODULE TwoPhase ------------------------------
(***************************************************************************)
(* 2pc/node.go: two-phase commit with presumed abort between one           *)
(* coordinator and one cohort over loopback UDP.                           *)
(*                                                                         *)
(* Each process runs three goroutines joined by two unbuffered channels:   *)
(* serve (a UDP server, channel srvc), dial (a UDP client, channel dialc,  *)
(* used in both directions) and the main state machine.  An action below   *)
(* is a step of one of them up to the next point where it can block.       *)
(***************************************************************************)
EXTENDS Integers, Sequences, SequencesExt

CONSTANTS Values,      \* the values clients ask for, each of them once
          Unset,       \* "(unset value)", also the field of a message without value
          Window,      \* log lines that fit in the 9000 bytes read on recovery
          MaxStarts,   \* bound: times each process is started
          MaxDrops,    \* bound: datagrams dropped by drop()
          Prompt,      \* TRUE: an answer that is coming beats the 2 s timer
          Patient      \* TRUE: no request while an exchange is in progress

ASSUME ConstantsAssumption ==
  /\ Unset \notin Values
  /\ "uncertain" \notin Values \cup {Unset}
  /\ Window \in Nat
  /\ MaxStarts \in Nat
  /\ MaxDrops \in Nat
  /\ Prompt \in BOOLEAN
  /\ Patient \in BOOLEAN

VARIABLES
  up,       \* up[p]: process p runs
  state,    \* state[p]: the variable of the state machine
  value,    \* value[p]: the value in memory
  req,      \* req[p]: the value of the current transaction
  main,     \* main[p]: where the main goroutine waits
  out,      \* out[p]: what main sends on dialc
  dial,     \* dial[p]: where the dial goroutine waits
  given,    \* given[p]: what dial sends back on dialc
  port,     \* port[p]: the UDP port of p's dial socket, new on every start
  inbox,    \* inbox[p]: datagrams queued in p's server socket
  replies,  \* replies[p]: datagrams queued in p's dial socket
  log,      \* log[p]: the log file on stable storage
  serving,  \* the request the coordinator's serve waits to answer, or Unset
  answer,   \* answer[v]: the answer given to the request for v
  drops     \* datagrams dropped so far

vars == <<up, state, value, req, main, out, dial, given, port, inbox,
          replies, log, serving, answer, drops>>

Nodes == {"coord", "cohort"}
Peer(p) == IF p = "coord" THEN "cohort" ELSE "coord"

Vals == Values \cup {Unset}
Msg(o, v) == [op |-> o, val |-> v]
Nothing == Msg("none", Unset)

-----------------------------------------------------------------------------
(* The log.  startLog reads the last Window lines; only "commit" and "yes" *)
(* matter to it, the last of them decides.                                 *)

Decisive == {"commit", "yes"}

Marks(lg) == {i \in 1..Len(lg) : i > Len(lg) - Window /\ lg[i].op \in Decisive}

LastMark(lg) == {i \in Marks(lg) : \A j \in Marks(lg) : j <= i}

Recovered(lg) == IF LastMark(lg) = {} THEN Msg("commit", Unset)
                                      ELSE lg[CHOOSE i \in LastMark(lg) : TRUE]

Logged(p, o, v) == \E i \in 1..Len(log[p]) : log[p][i] = Msg(o, v)

WriteLog(p, o, v) == log' = [log EXCEPT ![p] = Append(@, Msg(o, v))]

-----------------------------------------------------------------------------
TypeOK ==
  /\ up \in [Nodes -> BOOLEAN]
  /\ state \in [Nodes -> {"listening", "uncertain", "prep"}]
  /\ value \in [Nodes -> Vals]
  /\ req \in [Nodes -> Vals]
  /\ main \in [Nodes -> {"select", "dialc", "srvc", "peek"}]
  /\ out \in [Nodes -> [op : {"none", "prepare", "commit", "abort", "peek"},
                        val : Vals]]
  /\ \A p \in Nodes : main[p] \in {"dialc", "peek"} => out[p].op # "none"
  /\ dial \in [Nodes -> {"recv", "wait", "give", "refused"}]
  /\ given \in [Nodes -> [op : {"none", "yes", "no", "ack", "value", "timeout"},
                          val : Vals]]
  /\ port \in [Nodes -> Nat]
  /\ inbox \in [Nodes -> Seq([op : {"prepare", "commit", "abort", "peek"},
                              val : Vals, from : Nat])]
  /\ replies \in [Nodes -> Seq([op : {"yes", "no", "ack", "value"}, val : Vals])]
  /\ log \in [Nodes -> Seq([op : {"START", "prepare", "yes", "no", "commit", "abort"},
                            val : Vals])]
  /\ serving \in Vals
  /\ answer \in [Values -> {"unasked", "asked", "OK", "SORRY"}]
  /\ drops \in Nat

Init ==
  /\ up = [p \in Nodes |-> FALSE]
  /\ state = [p \in Nodes |-> "listening"]
  /\ value = [p \in Nodes |-> Unset]
  /\ req = [p \in Nodes |-> Unset]
  /\ main = [p \in Nodes |-> "select"]
  /\ out = [p \in Nodes |-> Nothing]
  /\ dial = [p \in Nodes |-> "recv"]
  /\ given = [p \in Nodes |-> Nothing]
  /\ port = [p \in Nodes |-> 0]
  /\ inbox = [p \in Nodes |-> <<>>]
  /\ replies = [p \in Nodes |-> <<>>]
  /\ log = [p \in Nodes |-> <<>>]
  /\ serving = Unset
  /\ answer = [v \in Values |-> "unasked"]
  /\ drops = 0

-----------------------------------------------------------------------------
(* Start, crash, panic.                                                    *)

(* p starts: an uncertain cohort asks for the value before it serves. *)
Start(p) ==
  LET r == Recovered(log[p])
      uncertain == r.op = "yes"
  IN /\ ~up[p]
     /\ port[p] < MaxStarts
     /\ p = "coord" => ~uncertain
     /\ up' = [up EXCEPT ![p] = TRUE]
     /\ port' = [port EXCEPT ![p] = @ + 1]
     /\ value' = [value EXCEPT ![p] = r.val]
     /\ state' = [state EXCEPT ![p] = IF uncertain THEN "uncertain" ELSE "listening"]
     /\ main' = [main EXCEPT ![p] = IF uncertain THEN "dialc" ELSE "select"]
     /\ out' = [out EXCEPT ![p] = IF uncertain THEN Msg("peek", Unset) ELSE Nothing]
     /\ WriteLog(p, "START", r.val)
     /\ UNCHANGED <<req, dial, given, inbox, replies, serving, answer, drops>>

(* p ends: its memory and the datagrams in its sockets are gone. *)
Down(p) ==
  /\ up' = [up EXCEPT ![p] = FALSE]
  /\ state' = [state EXCEPT ![p] = "listening"]
  /\ value' = [value EXCEPT ![p] = Unset]
  /\ req' = [req EXCEPT ![p] = Unset]
  /\ main' = [main EXCEPT ![p] = "select"]
  /\ out' = [out EXCEPT ![p] = Nothing]
  /\ dial' = [dial EXCEPT ![p] = "recv"]
  /\ given' = [given EXCEPT ![p] = Nothing]
  /\ inbox' = [inbox EXCEPT ![p] = <<>>]
  /\ replies' = [replies EXCEPT ![p] = <<>>]
  /\ serving' = IF p = "coord" THEN Unset ELSE serving
  /\ UNCHANGED <<port, log, answer, drops>>

(* The "quit" message, or any other death of the process. *)
Crash(p) == up[p] /\ port[p] < MaxStarts /\ Down(p)

-----------------------------------------------------------------------------
(* The dial goroutine.                                                     *)

(* Both goroutines of p send on dialc: neither will ever move again. *)
Hung(p) == up[p] /\ main[p] = "dialc" /\ dial[p] \in {"wait", "give"}

Lose == drops < MaxDrops /\ drops' = drops + 1

(* dial takes out[p] from main and writes it, unless drop() eats it.  A   *)
(* datagram to a dead process comes back as ECONNREFUSED.                  *)
DialSend(p) ==
  /\ up[p] /\ main[p] = "dialc" /\ dial[p] = "recv"
  /\ main' = [main EXCEPT ![p] = CASE out[p].op = "prepare" -> "select"
                                   [] out[p].op = "peek"    -> "peek"
                                   [] OTHER                 -> "srvc"]
  /\ \/ /\ Lose
        /\ dial' = [dial EXCEPT ![p] = "wait"]
        /\ UNCHANGED inbox
     \/ /\ up[Peer(p)]
        /\ dial' = [dial EXCEPT ![p] = "wait"]
        /\ inbox' = [inbox EXCEPT ![Peer(p)] =
             Append(@, [op |-> out[p].op, val |-> out[p].val, from |-> port[p]])]
        /\ UNCHANGED drops
     \/ /\ ~up[Peer(p)]
        /\ dial' = [dial EXCEPT ![p] = "refused"]
        /\ UNCHANGED <<inbox, drops>>
  /\ UNCHANGED <<up, state, value, req, out, given, port, replies, log,
                 serving, answer>>

DialPanic(p) == up[p] /\ dial[p] = "refused" /\ Down(p)

(* A reader goroutine hands a datagram over.  Timed-out exchanges leave    *)
(* their reader behind, so there are as many readers as datagrams can be   *)
(* queued and any of those may be first.                                   *)
DialReply(p) ==
  /\ up[p] /\ dial[p] = "wait"
  /\ \E i \in 1..Len(replies[p]) :
       /\ given' = [given EXCEPT ![p] = replies[p][i]]
       /\ replies' = [replies EXCEPT ![p] = RemoveAt(@, i)]
  /\ dial' = [dial EXCEPT ![p] = "give"]
  /\ UNCHANGED <<up, state, value, req, main, out, port, inbox, log, serving,
                 answer, drops>>

AnswerComing(p) ==
  \/ replies[p] # <<>>
  \/ /\ ~Hung(Peer(p))
     /\ \E i \in 1..Len(inbox[Peer(p)]) : inbox[Peer(p)][i].from = port[p]

(* Bug: the reader is not raced against a timer. *)
DialNeverTimesOut(p) == FALSE

(* The 2 s timer.  It cannot beat the 1 s timer of the startup loop. *)
DialTimeout(p) ==
  /\ up[p] /\ dial[p] = "wait" /\ main[p] # "peek"
  /\ Prompt => ~AnswerComing(p)
  /\ dial' = [dial EXCEPT ![p] = "give"]
  /\ given' = [given EXCEPT ![p] = Msg("timeout", Unset)]
  /\ UNCHANGED <<up, state, value, req, main, out, port, inbox, replies, log,
                 serving, answer, drops>>

(* The server of some process answers the exchange opened from port pt. *)
Reply(to, pt, m) ==
  \/ /\ up[to] /\ port[to] = pt
     /\ replies' = [replies EXCEPT ![to] = Append(@, m)]
     /\ UNCHANGED drops
  \/ /\ ~(up[to] /\ port[to] = pt)
     /\ UNCHANGED <<replies, drops>>
  \/ Lose /\ UNCHANGED replies

-----------------------------------------------------------------------------
(* The coordinator's state machine.                                        *)

(* A client's "req v" reaches the state machine. *)
CoordReq(v) ==
  /\ up["coord"] /\ main["coord"] = "select" /\ serving = Unset
  /\ Patient => dial["coord"] = "recv"
  /\ answer[v] = "unasked"
  /\ state["coord"] = "listening"
  /\ answer' = [answer EXCEPT ![v] = "asked"]
  /\ serving' = v
  /\ req' = [req EXCEPT !["coord"] = v]
  /\ state' = [state EXCEPT !["coord"] = "prep"]
  /\ out' = [out EXCEPT !["coord"] = Msg("prepare", v)]
  /\ main' = [main EXCEPT !["coord"] = "dialc"]
  /\ WriteLog("coord", "prepare", v)
  /\ UNCHANGED <<up, value, dial, given, port, inbox, replies, drops>>

(* Main takes what dial gives. *)
CoordTakes(ops) ==
  /\ up["coord"] /\ main["coord"] = "select"
  /\ dial["coord"] = "give" /\ given["coord"].op \in ops

(* The decision is logged, then sent to the cohort. *)
Decide(final) ==
  /\ WriteLog("coord", final, req["coord"])
  /\ state' = [state EXCEPT !["coord"] = "listening"]
  /\ out' = [out EXCEPT !["coord"] = Msg(final, req["coord"])]
  /\ main' = [main EXCEPT !["coord"] = "dialc"]
  /\ dial' = [dial EXCEPT !["coord"] = "recv"]
  /\ given' = [given EXCEPT !["coord"] = Nothing]
  /\ UNCHANGED <<up, req, port, inbox, replies, serving, answer, drops>>

(* Bug: "yes" is accepted in any state. *)
CoordYesAnyState ==
  /\ CoordTakes({"yes"})
  /\ Decide("commit") /\ value' = [value EXCEPT !["coord"] = req["coord"]]

(* Bug: the committed value is not kept in memory. *)
CoordYesForgetsValue ==
  /\ CoordTakes({"yes"}) /\ state["coord"] = "prep"
  /\ \E final \in {"commit", "abort"} : Decide(final)
  /\ UNCHANGED value

(* Bug: the coordinator's own abort is logged but not sent. *)
CoordYesAbortsSilently ==
  /\ CoordTakes({"yes"}) /\ state["coord"] = "prep"
  /\ \/ Decide("commit") /\ value' = [value EXCEPT !["coord"] = req["coord"]]
     \/ /\ WriteLog("coord", "abort", req["coord"])
        /\ state' = [state EXCEPT !["coord"] = "listening"]
        /\ out' = [out EXCEPT !["coord"] = Msg("abort", req["coord"])]
        /\ main' = [main EXCEPT !["coord"] = "srvc"]
        /\ dial' = [dial EXCEPT !["coord"] = "recv"]
        /\ given' = [given EXCEPT !["coord"] = Nothing]
        /\ UNCHANGED <<up, value, req, port, inbox, replies, serving, answer, drops>>

(* "yes": commit, or abort for the sake of the demo. *)
CoordYes ==
  /\ CoordTakes({"yes"}) /\ state["coord"] = "prep"
  /\ \/ Decide("commit") /\ value' = [value EXCEPT !["coord"] = req["coord"]]
     \/ Decide("abort") /\ UNCHANGED value

(* Bug: silence is consent. *)
CoordNoCommits ==
  /\ CoordTakes({"no", "timeout"}) /\ state["coord"] = "prep"
  /\ Decide("commit") /\ value' = [value EXCEPT !["coord"] = req["coord"]]

(* "no", or no answer to "prepare". *)
CoordNo ==
  /\ CoordTakes({"no", "timeout"}) /\ state["coord"] = "prep"
  /\ Decide("abort")
  /\ UNCHANGED value

(* "ack", or no answer to the decision. *)
CoordAck ==
  /\ CoordTakes({"ack", "timeout"}) /\ state["coord"] = "listening"
  /\ dial' = [dial EXCEPT !["coord"] = "recv"]
  /\ given' = [given EXCEPT !["coord"] = Nothing]
  /\ UNCHANGED <<up, state, value, req, main, out, port, inbox, replies, log,
                 serving, answer, drops>>

(* "wasn't preparing", "wasn't listening". *)
CoordPanic ==
  /\ \/ CoordTakes({"yes", "no"}) /\ state["coord"] = "listening"
     \/ CoordTakes({"ack"}) /\ state["coord"] = "prep"
  /\ Down("coord")

(* Bug: the answer is the decision's own word. *)
CoordAnswersWord ==
  /\ up["coord"] /\ main["coord"] = "srvc"
  /\ answer' = [answer EXCEPT ![serving] = out["coord"].op]
  /\ serving' = Unset
  /\ main' = [main EXCEPT !["coord"] = "select"]
  /\ UNCHANGED <<up, state, value, req, out, dial, given, port, inbox, replies,
                 log, drops>>

(* Bug: the answer is always OK. *)
CoordAnswersOK ==
  /\ up["coord"] /\ main["coord"] = "srvc"
  /\ answer' = [answer EXCEPT ![serving] = "OK"]
  /\ serving' = Unset
  /\ main' = [main EXCEPT !["coord"] = "select"]
  /\ UNCHANGED <<up, state, value, req, out, dial, given, port, inbox, replies,
                 log, drops>>

(* Main hands OK or SORRY to serve. *)
CoordAnswer ==
  /\ up["coord"] /\ main["coord"] = "srvc"
  /\ answer' = [answer EXCEPT ![serving] =
                  IF out["coord"].op = "commit" THEN "OK" ELSE "SORRY"]
  /\ serving' = Unset
  /\ main' = [main EXCEPT !["coord"] = "select"]
  /\ UNCHANGED <<up, state, value, req, out, dial, given, port, inbox, replies,
                 log, drops>>

(* The cohort's "peek" is answered with the value in memory. *)
CoordPeek ==
  /\ up["coord"] /\ main["coord"] = "select" /\ serving = Unset
  /\ inbox["coord"] # <<>>
  /\ inbox' = [inbox EXCEPT !["coord"] = Tail(@)]
  /\ Reply("cohort", Head(inbox["coord"]).from, Msg("value", value["coord"]))
  /\ UNCHANGED <<up, state, value, req, main, out, dial, given, port, log,
                 serving, answer>>

-----------------------------------------------------------------------------
(* The cohort's state machine.                                             *)

CohortTakes(op) ==
  /\ up["cohort"] /\ main["cohort"] = "select"
  /\ inbox["cohort"] # <<>> /\ Head(inbox["cohort"]).op = op

Answered(m) ==
  /\ inbox' = [inbox EXCEPT !["cohort"] = Tail(@)]
  /\ Reply("coord", Head(inbox["cohort"]).from, m)
  /\ UNCHANGED <<up, main, out, dial, given, port, serving, answer>>

(* Bug: the vote is sent without being logged. *)
CohortPrepareUnlogged ==
  /\ CohortTakes("prepare") /\ state["cohort"] = "listening"
  /\ LET v == Head(inbox["cohort"]).val
     IN \E agree \in {"yes", "no"} :
          /\ req' = [req EXCEPT !["cohort"] = v]
          /\ state' = [state EXCEPT !["cohort"] =
                         IF agree = "yes" THEN "uncertain" ELSE "listening"]
          /\ Answered(Msg(agree, v))
  /\ UNCHANGED <<value, log>>

(* "prepare": vote yes, or no for the sake of the demo; the vote is logged *)
(* before it is sent.                                                      *)
CohortPrepare ==
  /\ CohortTakes("prepare") /\ state["cohort"] = "listening"
  /\ LET v == Head(inbox["cohort"]).val
     IN \E agree \in {"yes", "no"} :
          /\ req' = [req EXCEPT !["cohort"] = v]
          /\ WriteLog("cohort", agree, v)
          /\ state' = [state EXCEPT !["cohort"] =
                         IF agree = "yes" THEN "uncertain" ELSE "listening"]
          /\ Answered(Msg(agree, v))
  /\ UNCHANGED value

(* Bug: the committed value stays in the log only. *)
CohortCommitForgetsValue ==
  /\ CohortTakes("commit") /\ state["cohort"] = "uncertain"
  /\ WriteLog("cohort", "commit", req["cohort"])
  /\ state' = [state EXCEPT !["cohort"] = "listening"]
  /\ Answered(Msg("ack", Unset))
  /\ UNCHANGED <<value, req>>

(* "commit": what is committed is the cohort's own req. *)
CohortCommit ==
  /\ CohortTakes("commit") /\ state["cohort"] = "uncertain"
  /\ WriteLog("cohort", "commit", req["cohort"])
  /\ value' = [value EXCEPT !["cohort"] = req["cohort"]]
  /\ state' = [state EXCEPT !["cohort"] = "listening"]
  /\ Answered(Msg("ack", Unset))
  /\ UNCHANGED req

CohortAbort ==
  /\ CohortTakes("abort")
  /\ WriteLog("cohort", "abort", req["cohort"])
  /\ state' = [state EXCEPT !["cohort"] = "listening"]
  /\ Answered(Msg("ack", Unset))
  /\ UNCHANGED <<value, req>>

(* "cohort wasn't listening", "cohort wasn't uncertain". *)
CohortFatal ==
  /\ \/ CohortTakes("prepare") /\ state["cohort"] = "uncertain"
     \/ CohortTakes("commit") /\ state["cohort"] = "listening"
  /\ Down("cohort")

(* Bug: the value peeked at startup is logged but not kept. *)
CohortLearnForgetsValue ==
  /\ up["cohort"] /\ main["cohort"] = "peek"
  /\ dial["cohort"] = "give" /\ given["cohort"].op = "value"
  /\ WriteLog("cohort", "commit", given["cohort"].val)
  /\ state' = [state EXCEPT !["cohort"] = "listening"]
  /\ main' = [main EXCEPT !["cohort"] = "select"]
  /\ dial' = [dial EXCEPT !["cohort"] = "recv"]
  /\ given' = [given EXCEPT !["cohort"] = Nothing]
  /\ out' = [out EXCEPT !["cohort"] = Nothing]
  /\ UNCHANGED <<up, value, req, port, inbox, replies, serving, answer, drops>>

(* Startup: the answer to "peek" arrives within a second ... *)
CohortLearn ==
  /\ up["cohort"] /\ main["cohort"] = "peek"
  /\ dial["cohort"] = "give" /\ given["cohort"].op = "value"
  /\ value' = [value EXCEPT !["cohort"] = given["cohort"].val]
  /\ WriteLog("cohort", "commit", given["cohort"].val)
  /\ state' = [state EXCEPT !["cohort"] = "listening"]
  /\ main' = [main EXCEPT !["cohort"] = "select"]
  /\ dial' = [dial EXCEPT !["cohort"] = "recv"]
  /\ given' = [given EXCEPT !["cohort"] = Nothing]
  /\ out' = [out EXCEPT !["cohort"] = Nothing]
  /\ UNCHANGED <<up, req, port, inbox, replies, serving, answer, drops>>

(* The 1 s timer does not beat an answer that is at hand either. *)
PeekAnswered ==
  \/ dial["cohort"] = "give"
  \/ replies["cohort"] # <<>>
  \/ inbox["coord"] # <<>> /\ main["coord"] = "select" /\ serving = Unset

(* ... or does not, and main sends "peek" again. *)
CohortPeekTimer ==
  /\ up["cohort"] /\ main["cohort"] = "peek"
  /\ Prompt => ~PeekAnswered
  /\ main' = [main EXCEPT !["cohort"] = "dialc"]
  /\ UNCHANGED <<up, state, value, req, out, dial, given, port, inbox, replies,
                 log, serving, answer, drops>>

-----------------------------------------------------------------------------
Dial(p) == DialSend(p) \/ DialPanic(p) \/ DialReply(p) \/ DialTimeout(p)

CoordMain == CoordYes \/ CoordNo \/ CoordAck \/ CoordPanic \/ CoordAnswer \/ CoordPeek

CohortMain == CohortPrepare \/ CohortCommit \/ CohortAbort \/ CohortFatal
                \/ CohortLearn \/ CohortPeekTimer

Next ==
  \/ \E p \in Nodes : Start(p) \/ Crash(p) \/ Dial(p)
  \/ \E v \in Values : CoordReq(v)
  \/ CoordMain
  \/ CohortMain

Spec == Init /\ [][Next]_vars

(* A goroutine that can take a step takes one; nobody has to start or kill *)
(* a process or to send a request.                                         *)
Fairness ==
  /\ \A p \in Nodes : WF_vars(Dial(p))
  /\ WF_vars(CoordMain)
  /\ WF_vars(CohortMain)

FairSpec == Spec /\ Fairness

-----------------------------------------------------------------------------
(* Properties.                                                             *)

LogsFit == \A p \in Nodes : Len(log[p]) <= Window

CohortCertain == Recovered(log["cohort"]).op = "commit"

(* Whenever the cohort's log says it is certain of its value, the          *)
(* coordinator's log holds the same value: "the participants will still    *)
(* have the right state in their logs" (2pc/node.go:56-57).                *)
LogAgreement ==
  CohortCertain => Recovered(log["cohort"]).val = Recovered(log["coord"]).val

(* A cohort that is not uncertain shows the coordinator's committed value. *)
MemoryAgreement ==
  up["cohort"] /\ state["cohort"] = "listening" =>
    value["cohort"] = Recovered(log["coord"]).val

(* Until the first datagram is dropped it always does, crashes or not.     *)
UndroppedAgreement == drops = 0 => MemoryAgreement

(* Recovery gives back what was in memory: a running process whose log is  *)
(* certain holds the value that startLog would read from the log now.      *)
RecoveryFaithful ==
  \A p \in Nodes : up[p] /\ Recovered(log[p]).op = "commit" =>
                     value[p] = Recovered(log[p]).val

(* "OK" means that the change is in the coordinator's log, "SORRY" that    *)
(* neither log committed it (2pc/node.go:33-36).                           *)
AnswersTrue ==
  \A v \in Values :
    /\ answer[v] = "OK" => Logged("coord", "commit", v)
    /\ answer[v] = "SORRY" => ~Logged("coord", "commit", v)
                              /\ ~Logged("cohort", "commit", v)

(* A decision is final: no request is both committed and aborted in the    *)
(* coordinator's log, however late an answer arrives and across restarts.  *)
DecisionsFinal ==
  \A v \in Values :
    ~(Logged("coord", "commit", v) /\ Logged("coord", "abort", v))

(* The two logs together change atomically: the refinement of AtomicChange.*)
Atomic == INSTANCE AtomicChange WITH
  val     <- Recovered(log["coord"]).val,
  view    <- IF CohortCertain THEN Recovered(log["cohort"]).val ELSE "uncertain",
  Unknown <- "uncertain"

AppearsAtomic == Atomic!Spec

(* The coordinator answers every request it accepts, unless it dies.       *)
RequestsSettled ==
  \A v \in Values :
    serving = v ~> answer[v] \in {"OK", "SORRY"} \/ ~up["coord"]

(* A vote is followed by a decision: the cohort does not stay uncertain    *)
(* unless a datagram is dropped or a process dies (2pc/node.go:8-12).      *)
UncertaintyEnds ==
  state["cohort"] = "uncertain" ~>
    \/ state["cohort"] = "listening"
    \/ drops > 0
    \/ \E p \in Nodes : port[p] > 1 \/ ~up[p]

(* A coordinator keeps listening for requests (2pc/node.go:349). *)
CoordNeverHangs == ~Hung("coord")

-----------------------------------------------------------------------------
(* The inductive invariant behind LogAgreement, when answers are prompt    *)
(* and the logs fit the window.                                            *)

Starting == main["cohort"] \in {"dialc", "peek"}

YesPending ==
  \/ \E i \in 1..Len(replies["coord"]) : replies["coord"][i].op = "yes"
  \/ dial["coord"] = "give" /\ given["coord"].op = "yes"

CommitPending == main["coord"] = "dialc" /\ out["coord"].op = "commit"

LogC == Recovered(log["coord"])
LogH == Recovered(log["cohort"])

(* A dead process holds nothing. *)
DownInv ==
  \A p \in Nodes : ~up[p] =>
    /\ main[p] = "select" /\ dial[p] = "recv"
    /\ inbox[p] = <<>> /\ replies[p] = <<>>
    /\ state[p] = "listening"

(* Memory and log of each process. *)
MemoryInv ==
  /\ RecoveryFaithful
  /\ LogC.op = "commit"
  /\ state["coord"] # "uncertain" /\ state["cohort"] # "prep"
  /\ state["coord"] = "prep" => serving # Unset /\ serving = req["coord"]
  /\ CommitPending => dial["coord"] = "recv"
  /\ main["coord"] = "dialc" =>
       IF out["coord"].op = "prepare"
       THEN state["coord"] = "prep" /\ req["coord"] = out["coord"].val
       ELSE state["coord"] = "listening"
  /\ main["coord"] = "srvc" => state["coord"] = "listening"
  /\ Starting => out["cohort"].op = "peek"
  /\ state["cohort"] = "uncertain" => LogH.op = "yes"
  /\ state["cohort"] = "uncertain" /\ ~Starting => req["cohort"] = LogH.val

(* At most one answer is on its way to the coordinator, or one question to *)
(* a cohort that is not hung, and it is about the current transaction.     *)
ExchangeInv ==
  /\ \A i \in 1..Len(inbox["cohort"]) : inbox["cohort"][i].from <= port["coord"]
  /\ replies["coord"] # <<>> => Len(replies["coord"]) = 1 /\ dial["coord"] = "wait"
  /\ up["coord"] /\ ~Hung("cohort") =>
       \A i \in 1..Len(inbox["cohort"]) :
         LET m == inbox["cohort"][i]
         IN m.from = port["coord"] =>
              /\ i = Len(inbox["cohort"])
              /\ dial["coord"] = "wait" /\ replies["coord"] = <<>>
              /\ m.op = "prepare" => state["coord"] = "prep" /\ req["coord"] = m.val

(* A vote on its way binds the cohort. *)
VoteInv ==
  YesPending => /\ state["coord"] = "prep"
                /\ LogH = Msg("yes", req["coord"])
                /\ inbox["cohort"] = <<>>

(* So does a commit that is about to be sent, and one that is on its way. *)
CommitInv ==
  /\ CommitPending => /\ inbox["cohort"] = <<>>
                      /\ LogH = Msg("yes", LogC.val)
  /\ \A i \in 1..Len(inbox["cohort"]) :
       inbox["cohort"][i].op = "commit" =>
         /\ i = 1
         /\ LogH.val = LogC.val
         /\ LogH.op = "yes" \/ state["cohort"] = "listening"

(* A value on its way to a starting cohort is the committed one. *)
Current(v) == v = LogC.val /\ ~YesPending /\ ~CommitPending

PeekInv ==
  Starting =>
    /\ \A i \in 1..Len(replies["cohort"]) :
         replies["cohort"][i].op = "value" => Current(replies["cohort"][i].val)
    /\ dial["cohort"] = "give" /\ given["cohort"].op = "value" =>
         Current(given["cohort"].val)

(* Everything together: at every state, if the premises hold. *)
TwoPhaseInv ==
  /\ DownInv /\ MemoryInv /\ ExchangeInv /\ VoteInv /\ CommitInv /\ PeekInv
  /\ LogAgreement
=============================================================================
