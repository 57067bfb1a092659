-------------------------- MODULE TwoPhaseAnswers --------------------------
(***************************************************************************)
(* What the participants of 2pc/node.go tell: decisions are final, answers *)
(* to clients are true, and until a datagram is dropped a cohort that is   *)
(* not uncertain shows the committed value.                                *)
(***************************************************************************)
EXTENDS TwoPhaseProofs

Outcomes == {"START", "prepare", "yes", "no", "commit", "abort"}

(* A line that is written is in the log afterwards, with all there was.    *)
LEMMA LoggedWrite ==
  ASSUME TypeOK, NEW p \in Nodes, NEW o \in Outcomes, NEW v \in Vals, WriteLog(p, o, v)
  PROVE  /\ \A w : Logged(p, o, w)' <=> Logged(p, o, w) \/ w = v
         /\ \A u, w : u # o => (Logged(p, u, w)' <=> Logged(p, u, w))
         /\ \A q, u, w : q \in Nodes /\ q # p => (Logged(q, u, w)' <=> Logged(q, u, w))
<1>1. log[p] \in Seq(LogRec) /\ Msg(o, v) \in LogRec
  BY DEF TypeOK, LogRec, Msg, Outcomes
<1>2. log'[p] = Append(log[p], Msg(o, v)) /\ \A q \in Nodes : q # p => log'[q] = log[q]
  BY DEF WriteLog, TypeOK
<1>3. /\ Len(log'[p]) = Len(log[p]) + 1 /\ Len(log[p]) \in Nat
      /\ \A i \in 1..Len(log[p]) : log'[p][i] = log[p][i]
      /\ log'[p][Len(log[p]) + 1] = Msg(o, v)
  BY <1>1, <1>2, AppendProperties, LenProperties
<1>4. ASSUME NEW u, NEW w
      PROVE  Logged(p, u, w)' <=> Logged(p, u, w) \/ Msg(o, v) = Msg(u, w)
  <2>1. Logged(p, u, w)' <=> \E i \in 1..Len(log'[p]) : log'[p][i] = Msg(u, w)
    BY DEF Logged
  <2>2. Logged(p, u, w) <=> \E i \in 1..Len(log[p]) : log[p][i] = Msg(u, w)
    BY DEF Logged
  <2>3. \A i : i \in 1..Len(log'[p]) <=> i \in 1..Len(log[p]) \/ i = Len(log[p]) + 1
    BY <1>3
  <2>. QED BY <1>3, <2>1, <2>2, <2>3
<1>5. \A u, w : Msg(o, v) = Msg(u, w) <=> u = o /\ w = v
  BY DEF Msg
<1>6. \A q, u, w : q \in Nodes /\ q # p => (Logged(q, u, w)' <=> Logged(q, u, w))
  BY <1>2 DEF Logged
<1>. QED BY <1>4, <1>5, <1>6

(* What recovery finds committed is in the log, but for the initial value. *)
LEMMA RecoveredLogged ==
  ASSUME TypeOK, NEW p \in Nodes, NEW v \in Values, Recovered(log[p]) = Msg("commit", v)
  PROVE  Logged(p, "commit", v)
<1>1. LastMark(log[p]) # {}
  BY ConstantsAssumption DEF Recovered, Msg
<1>2. PICK i \in LastMark(log[p]) : i = CHOOSE k \in LastMark(log[p]) : TRUE
  BY <1>1
<1>3. i \in 1..Len(log[p])
  BY DEF LastMark, Marks
<1>4. log[p][i] = Msg("commit", v)
  BY <1>1, <1>2 DEF Recovered
<1>. QED BY <1>3, <1>4 DEF Logged

-----------------------------------------------------------------------------
(* The coordinator by itself, whatever the timing, the drops and the rest  *)
(* of the world: a request is new until it is taken, open while it is      *)
(* prepared, and decided once; the answer it waits for is that decision.   *)
Decided(v) == Logged("coord", "commit", v) \/ Logged("coord", "abort", v)

OpenInv ==
  state["coord"] = "prep" =>
    /\ req["coord"] \in Values /\ serving = req["coord"]
    /\ answer[serving] = "asked" /\ ~Decided(serving)
    /\ main["coord"] = "dialc" => out["coord"].op = "prepare"
    /\ main["coord"] # "srvc"

DecidedInv ==
  main["coord"] \in {"dialc", "srvc"} /\ state["coord"] # "prep" =>
    /\ serving \in Values /\ answer[serving] = "asked"
    /\ out["coord"].op \in {"commit", "abort"}
    /\ Logged("coord", out["coord"].op, serving)

ToldInv ==
  \A v \in Values :
    /\ answer[v] = "unasked" => ~Decided(v)
    /\ answer[v] = "OK" => Logged("coord", "commit", v)
    /\ answer[v] = "SORRY" => ~Logged("coord", "commit", v)

FinalInv == OpenInv /\ DecidedInv /\ ToldInv /\ DecisionsFinal

(* FinalInv speaks of the coordinator's main goroutine and its log only.   *)
LEMMA FinalSame ==
  ASSUME TypeOK, FinalInv, log'["coord"] = log["coord"], UNCHANGED <<answer, serving>>,
         state'["coord"] = state["coord"], req'["coord"] = req["coord"],
         main'["coord"] = main["coord"], out'["coord"] = out["coord"]
  PROVE  FinalInv'
<1>1. \A o, v : Logged("coord", o, v)' <=> Logged("coord", o, v)
  BY DEF Logged
<1>. QED BY <1>1 DEF FinalInv, OpenInv, DecidedInv, ToldInv, DecisionsFinal, Decided

LEMMA FinalDown ==
  ASSUME TypeOK, FinalInv, NEW p \in Nodes, Down(p) PROVE FinalInv'
<1>1. CASE p = "coord"
  <2>1. state'["coord"] = "listening" /\ main'["coord"] = "select"
    BY <1>1 DEF Down, TypeOK, Nodes
  <2>2. answer' = answer /\ \A o, v : Logged("coord", o, v)' <=> Logged("coord", o, v)
    BY DEF Down, Logged
  <2>. QED
    BY <2>1, <2>2 DEF FinalInv, OpenInv, DecidedInv, ToldInv, DecisionsFinal, Decided
<1>2. CASE p = "cohort"
  <2>1. /\ log' = log /\ UNCHANGED <<answer, serving>>
        /\ state'["coord"] = state["coord"] /\ req'["coord"] = req["coord"]
        /\ main'["coord"] = main["coord"] /\ out'["coord"] = out["coord"]
    BY <1>2 DEF Down, TypeOK, Nodes
  <2>. QED BY <2>1, FinalSame
<1>. QED BY <1>1, <1>2 DEF Nodes

LEMMA FinalStart ==
  ASSUME TypeOK, FinalInv, NEW p \in Nodes, Start(p) PROVE FinalInv'
<1>1. Recovered(log[p]).val \in Vals /\ WriteLog(p, "START", Recovered(log[p]).val)
  BY RecoveredType DEF Start, TypeOK, LogRec
<1>2. UNCHANGED <<answer, serving, req>>
  BY DEF Start
<1>3. CASE p = "coord"
  <2>1. state'["coord"] = "listening" /\ main'["coord"] = "select"
    BY <1>3 DEF Start, TypeOK, Nodes
  <2>2. \A v : /\ Logged("coord", "commit", v)' <=> Logged("coord", "commit", v)
               /\ Logged("coord", "abort", v)' <=> Logged("coord", "abort", v)
    BY <1>1, <1>3, LoggedWrite DEF Outcomes
  <2>. QED
    BY <1>2, <2>1, <2>2 DEF FinalInv, OpenInv, DecidedInv, ToldInv, DecisionsFinal, Decided
<1>4. CASE p = "cohort"
  <2>1. /\ log'["coord"] = log["coord"]
        /\ state'["coord"] = state["coord"]
        /\ main'["coord"] = main["coord"] /\ out'["coord"] = out["coord"]
    BY <1>4 DEF Start, WriteLog, TypeOK, Nodes
  <2>. QED BY <1>2, <2>1, FinalSame
<1>. QED BY <1>3, <1>4 DEF Nodes

LEMMA FinalDialSend ==
  ASSUME TypeOK, FinalInv, NEW p \in Nodes, DialSend(p) PROVE FinalInv'
<1>1. /\ log' = log /\ UNCHANGED <<answer, serving, state, req, out>>
      /\ main[p] = "dialc"
      /\ main'[p] = CASE out[p].op = "prepare" -> "select"
                      [] out[p].op = "peek" -> "peek"
                      [] OTHER -> "srvc"
      /\ \A q \in Nodes : q # p => main'[q] = main[q]
  BY DEF DialSend, TypeOK
<1>2. CASE p = "cohort"
  BY <1>1, <1>2, FinalSame DEF Nodes
<1>3. CASE p = "coord"
  <2>1. \A o, v : Logged("coord", o, v)' <=> Logged("coord", o, v)
    BY <1>1 DEF Logged
  <2>2. CASE state["coord"] = "prep"
    <3>1. main'["coord"] = "select"
      BY <1>1, <1>3, <2>2 DEF FinalInv, OpenInv
    <3>. QED
      BY <1>1, <2>1, <3>1 DEF FinalInv, OpenInv, DecidedInv, ToldInv, DecisionsFinal, Decided
  <2>3. CASE state["coord"] # "prep"
    BY <1>1, <1>3, <2>1, <2>3
    DEF FinalInv, OpenInv, DecidedInv, ToldInv, DecisionsFinal, Decided
  <2>. QED BY <2>2, <2>3
<1>. QED BY <1>2, <1>3 DEF Nodes

(* The coordinator takes a request nobody has decided, for a request is    *)
(* made once.                                                              *)
LEMMA FinalCoordReq ==
  ASSUME TypeOK, FinalInv, NEW v \in Values, CoordReq(v) PROVE FinalInv'
<1>1. /\ answer[v] = "unasked" /\ answer' = [answer EXCEPT ![v] = "asked"]
      /\ serving' = v /\ req'["coord"] = v /\ state'["coord"] = "prep"
      /\ out'["coord"] = Msg("prepare", v) /\ main'["coord"] = "dialc"
      /\ WriteLog("coord", "prepare", v)
  BY DEF CoordReq, TypeOK, Nodes
<1>2. \A w : /\ Logged("coord", "commit", w)' <=> Logged("coord", "commit", w)
             /\ Logged("coord", "abort", w)' <=> Logged("coord", "abort", w)
  BY <1>1, LoggedWrite DEF Outcomes, Vals, Nodes
<1>3. /\ answer'[v] = "asked"
      /\ \A w \in Values : w # v => answer'[w] = answer[w]
  BY <1>1 DEF TypeOK
<1>4. OpenInv'
  BY <1>1, <1>2, <1>3 DEF FinalInv, ToldInv, OpenInv, Decided, Msg
<1>5. DecidedInv'
  BY <1>1 DEF DecidedInv
<1>6. ToldInv' /\ DecisionsFinal'
  BY <1>2, <1>3 DEF FinalInv, ToldInv, Decided, DecisionsFinal
<1>. QED BY <1>4, <1>5, <1>6 DEF FinalInv

(* It decides what is open only, and then it is open no more.              *)
LEMMA FinalDecide ==
  ASSUME TypeOK, FinalInv, NEW final \in {"commit", "abort"}, Decide(final),
         state["coord"] = "prep"
  PROVE  FinalInv'
<1>0. PICK r \in Values : r = req["coord"]
  BY DEF FinalInv, OpenInv
<1>1. /\ WriteLog("coord", final, r) /\ UNCHANGED <<serving, answer>>
      /\ state'["coord"] = "listening" /\ main'["coord"] = "dialc"
      /\ out'["coord"] = Msg(final, r)
  BY <1>0 DEF Decide, TypeOK, Nodes
<1>2. serving = r /\ answer[r] = "asked" /\ ~Decided(r)
  BY <1>0 DEF FinalInv, OpenInv
<1>3. /\ \A w : Logged("coord", final, w)' <=> Logged("coord", final, w) \/ w = r
      /\ \A u, w : u # final => (Logged("coord", u, w)' <=> Logged("coord", u, w))
  BY <1>1, <1>2, LoggedWrite DEF Outcomes, Vals, Nodes
<1>4. OpenInv' /\ DecidedInv'
  BY <1>1, <1>2, <1>3 DEF OpenInv, DecidedInv, Msg
<1>5. ASSUME NEW v \in Values, v # r
      PROVE  /\ Logged("coord", "commit", v)' <=> Logged("coord", "commit", v)
             /\ Logged("coord", "abort", v)' <=> Logged("coord", "abort", v)
  BY <1>3, <1>5
<1>6. ToldInv'
  BY <1>1, <1>2, <1>5 DEF FinalInv, ToldInv, Decided
<1>7. DecisionsFinal'
  <2>1. CASE final = "commit"
    <3>1. ~Logged("coord", "abort", r)'
      BY <1>2, <1>3, <2>1 DEF Decided
    <3>. QED BY <1>5, <3>1 DEF FinalInv, DecisionsFinal
  <2>2. CASE final = "abort"
    <3>1. ~Logged("coord", "commit", r)'
      BY <1>2, <1>3, <2>2 DEF Decided
    <3>. QED BY <1>5, <3>1 DEF FinalInv, DecisionsFinal
  <2>. QED BY <2>1, <2>2
<1>. QED BY <1>4, <1>6, <1>7 DEF FinalInv

LEMMA FinalCoordAnswer ==
  ASSUME TypeOK, FinalInv, CoordAnswer PROVE FinalInv'
<1>1. /\ main["coord"] = "srvc" /\ main'["coord"] = "select"
      /\ answer' = [answer EXCEPT ![serving] =
                      IF out["coord"].op = "commit" THEN "OK" ELSE "SORRY"]
      /\ UNCHANGED <<state, req, out, log>>
  BY DEF CoordAnswer, TypeOK, Nodes
<1>2. state["coord"] # "prep"
  BY <1>1 DEF FinalInv, OpenInv
<1>3. /\ serving \in Values /\ out["coord"].op \in {"commit", "abort"}
      /\ Logged("coord", out["coord"].op, serving)
  BY <1>1, <1>2 DEF FinalInv, DecidedInv
<1>4. /\ answer'[serving] = IF out["coord"].op = "commit" THEN "OK" ELSE "SORRY"
      /\ \A v \in Values : v # serving => answer'[v] = answer[v]
  BY <1>1, <1>3 DEF TypeOK
<1>5. \A o, v : Logged("coord", o, v)' <=> Logged("coord", o, v)
  BY <1>1 DEF Logged
<1>6. OpenInv' /\ DecidedInv'
  BY <1>1, <1>2 DEF OpenInv, DecidedInv
<1>7. DecisionsFinal'
  BY <1>5 DEF FinalInv, DecisionsFinal
<1>8. ToldInv'
  BY <1>3, <1>4, <1>5 DEF FinalInv, ToldInv, Decided, DecisionsFinal
<1>. QED BY <1>6, <1>7, <1>8 DEF FinalInv

LEMMA FinalCoordMain ==
  ASSUME TypeOK, FinalInv, CoordMain PROVE FinalInv'
<1>1. CASE CoordYes \/ CoordNo
  BY <1>1, FinalDecide DEF CoordYes, CoordNo
<1>2. CASE CoordPanic
  BY <1>2, FinalDown DEF CoordPanic, Nodes
<1>3. CASE CoordAck \/ CoordPeek
  BY <1>3, FinalSame DEF CoordAck, CoordPeek
<1>. QED BY <1>1, <1>2, <1>3, FinalCoordAnswer DEF CoordMain

LEMMA FinalCohortMain ==
  ASSUME TypeOK, FinalInv, CohortMain PROVE FinalInv'
<1>1. CASE CohortFatal
  BY <1>1, FinalDown DEF CohortFatal, Nodes
<1>2. CASE ~CohortFatal
  <2>1. /\ log'["coord"] = log["coord"] /\ UNCHANGED <<answer, serving>>
        /\ state'["coord"] = state["coord"] /\ req'["coord"] = req["coord"]
        /\ main'["coord"] = main["coord"] /\ out'["coord"] = out["coord"]
    BY <1>2 DEF CohortMain, CohortPrepare, CohortCommit, CohortAbort, CohortLearn,
                CohortPeekTimer, Answered, WriteLog, TypeOK, Nodes
  <2>. QED BY <2>1, FinalSame
<1>. QED BY <1>1, <1>2

LEMMA FinalStep == TypeOK /\ FinalInv /\ [Next]_vars => FinalInv'
<1>. SUFFICES ASSUME TypeOK, FinalInv, [Next]_vars PROVE FinalInv'
  OBVIOUS
<1>1. ASSUME NEW p \in Nodes, Dial(p) PROVE FinalInv'
  BY <1>1, FinalDialSend, FinalDown, FinalSame
  DEF Dial, DialPanic, DialReply, DialTimeout
<1>2. ASSUME NEW p \in Nodes, Crash(p) PROVE FinalInv'
  BY <1>2, FinalDown DEF Crash
<1>3. CASE UNCHANGED vars
  BY <1>3, FinalSame DEF vars
<1>. QED
  BY <1>1, <1>2, <1>3, FinalStart, FinalCoordReq, FinalCoordMain, FinalCohortMain DEF Next

LEMMA FinalInit == Init => FinalInv
<1>. SUFFICES ASSUME Init PROVE FinalInv
  OBVIOUS
<1>1. \A o, v : ~Logged("coord", o, v)
  BY DEF Init, Logged, Nodes
<1>. QED
  BY <1>1 DEF Init, FinalInv, OpenInv, DecidedInv, ToldInv, DecisionsFinal, Decided, Nodes

(* No request is both committed and aborted in the coordinator's log, for  *)
(* any requests, restarts and drops, and however late answers come.        *)
THEOREM DecisionsAreFinal == Spec => []DecisionsFinal
<1>1. FinalInv => DecisionsFinal
  BY DEF FinalInv
<1>. QED BY <1>1, FinalInit, FinalStep, TwoPhaseTypeOK, PTL DEF Spec

(* A client is told OK only of what the coordinator's log commits, SORRY   *)
(* only of what it does not, however late answers come (2pc/node.go:33-36).*)
THEOREM CoordinatorTellsItsLog ==
  Spec => [](\A v \in Values : /\ answer[v] = "OK" => Logged("coord", "commit", v)
                               /\ answer[v] = "SORRY" => ~Logged("coord", "commit", v))
<1>1. FinalInv => \A v \in Values : /\ answer[v] = "OK" => Logged("coord", "commit", v)
                                    /\ answer[v] = "SORRY" => ~Logged("coord", "commit", v)
  BY DEF FinalInv, ToldInv
<1>. QED BY <1>1, FinalInit, FinalStep, TwoPhaseTypeOK, PTL DEF Spec

-----------------------------------------------------------------------------
(* What the cohort's log commits, the coordinator's log commits: the answer*)
(* SORRY is true of both logs.                                             *)
CohortFollows ==
  \A v \in Values : Logged("cohort", "commit", v) => Logged("coord", "commit", v)

(* The cohort logs a commit of a value only when that is the value the     *)
(* coordinator has committed; other lines of either log change nothing.    *)
LEMMA FollowsWrite ==
  ASSUME TypeOK, CohortFollows, NEW p \in Nodes, NEW o \in Outcomes, NEW v \in Vals,
         WriteLog(p, o, v),
         p = "cohort" /\ o = "commit" => LogC = Msg("commit", v)
  PROVE  CohortFollows'
<1>1. /\ \A w : Logged(p, o, w)' <=> Logged(p, o, w) \/ w = v
      /\ \A u, w : u # o => (Logged(p, u, w)' <=> Logged(p, u, w))
      /\ \A q, u, w : q \in Nodes /\ q # p => (Logged(q, u, w)' <=> Logged(q, u, w))
  BY LoggedWrite
<1>2. p \in {"coord", "cohort"} /\ "coord" \in Nodes /\ "cohort" \in Nodes
  BY DEF Nodes
<1>3. CASE p = "coord"
  BY <1>1, <1>2, <1>3 DEF CohortFollows
<1>4. CASE p = "cohort" /\ o # "commit"
  BY <1>1, <1>2, <1>4 DEF CohortFollows
<1>5. CASE p = "cohort" /\ o = "commit"
  <2>1. v \in Values => Logged("coord", "commit", v)
    BY <1>2, <1>5, RecoveredLogged DEF LogC
  <2>. QED BY <1>1, <1>2, <1>5, <2>1 DEF CohortFollows
<1>. QED BY <1>2, <1>3, <1>4, <1>5

(* A commit meets a cohort that voted for what the coordinator committed.  *)
LEMMA CommitMeetsVote ==
  ASSUME TypeOK, TwoPhaseInv, main["cohort"] = "select", inbox["cohort"] # <<>>,
         Head(inbox["cohort"]).op = "commit", state["cohort"] = "uncertain"
  PROVE  req["cohort"] = LogC.val
<1>1. inbox["cohort"] \in Seq(Question)
  BY DEF TypeOK, Question, Nodes
<1>2. Head(inbox["cohort"]) = inbox["cohort"][1] /\ 1 \in 1..Len(inbox["cohort"])
  BY <1>1, EmptySeq, LenProperties
<1>3. LogH.val = LogC.val
  BY <1>2 DEF TwoPhaseInv, CommitInv
<1>4. req["cohort"] = LogH.val
  BY DEF TwoPhaseInv, MemoryInv, Starting
<1>. QED BY <1>3, <1>4

LEMMA FollowsStep ==
  ASSUME TypeOK, TwoPhaseInv, CohortFollows, [Next]_vars
  PROVE  CohortFollows'
<1>1. ASSUME log' = log PROVE CohortFollows'
  BY <1>1 DEF CohortFollows, Logged
<1>2. ASSUME NEW p \in Nodes, Start(p) PROVE CohortFollows'
  <2>1. Recovered(log[p]).val \in Vals /\ WriteLog(p, "START", Recovered(log[p]).val)
    BY <1>2, RecoveredType DEF Start, TypeOK, LogRec
  <2>. QED BY <2>1, FollowsWrite DEF Outcomes
<1>3. ASSUME NEW v \in Values, CoordReq(v) PROVE CohortFollows'
  <2>1. v \in Vals /\ WriteLog("coord", "prepare", v)
    BY <1>3 DEF CoordReq, Vals
  <2>. QED BY <2>1, FollowsWrite DEF Outcomes, Nodes
<1>4. CASE CoordMain
  <2>1. CASE CoordYes \/ CoordNo
    <3>1. PICK final \in {"commit", "abort"} : WriteLog("coord", final, req["coord"])
      BY <2>1 DEF CoordYes, CoordNo, Decide
    <3>2. req["coord"] \in Vals
      BY DEF TypeOK, Nodes
    <3>. QED BY <3>1, <3>2, FollowsWrite DEF Outcomes, Nodes
  <2>2. CASE CoordAck \/ CoordPanic \/ CoordAnswer \/ CoordPeek
    BY <1>1, <2>2 DEF CoordAck, CoordPanic, Down, CoordAnswer, CoordPeek
  <2>. QED BY <1>4, <2>1, <2>2 DEF CoordMain
<1>5. LogC.op = "commit" /\ LogC = Msg(LogC.op, LogC.val)
  <2>1. LogC \in [op : Decisive, val : Vals]
    BY RecoveredType DEF LogC, TypeOK, LogRec, Nodes
  <2>. QED BY <2>1 DEF TwoPhaseInv, MemoryInv, Msg
<1>6. CASE CohortMain
  <2>1. req["cohort"] \in Vals /\ given["cohort"].val \in Vals
    BY DEF TypeOK, Nodes
  <2>2. CASE CohortPrepare
    <3>1. inbox["cohort"] # <<>> /\ inbox["cohort"] \in Seq(Question)
      BY <2>2 DEF CohortPrepare, CohortTakes, TypeOK, Question, Nodes
    <3>2. Head(inbox["cohort"]).val \in Vals
      <4>1. Head(inbox["cohort"]) \in Question
        BY <3>1, HeadTailProperties
      <4>. QED BY <4>1 DEF Question
    <3>3. PICK agree \in {"yes", "no"} :
            WriteLog("cohort", agree, Head(inbox["cohort"]).val)
      BY <2>2 DEF CohortPrepare
    <3>. QED BY <3>2, <3>3, FollowsWrite DEF Outcomes, Nodes
  <2>3. CASE CohortCommit
    <3>1. /\ WriteLog("cohort", "commit", req["cohort"])
          /\ main["cohort"] = "select" /\ inbox["cohort"] # <<>>
          /\ Head(inbox["cohort"]).op = "commit" /\ state["cohort"] = "uncertain"
      BY <2>3 DEF CohortCommit, CohortTakes
    <3>2. req["cohort"] = LogC.val
      BY <3>1, CommitMeetsVote
    <3>. QED BY <1>5, <2>1, <3>1, <3>2, FollowsWrite DEF Outcomes, Nodes
  <2>4. CASE CohortAbort
    BY <2>1, <2>4, FollowsWrite DEF CohortAbort, Outcomes, Nodes
  <2>5. CASE CohortFatal \/ CohortPeekTimer
    BY <1>1, <2>5 DEF CohortFatal, Down, CohortPeekTimer
  <2>6. CASE CohortLearn
    <3>1. WriteLog("cohort", "commit", given["cohort"].val) /\ given["cohort"].val = LogC.val
      BY <2>6 DEF CohortLearn, TwoPhaseInv, PeekInv, Current, Starting
    <3>. QED BY <1>5, <2>1, <3>1, FollowsWrite DEF Outcomes, Nodes
  <2>. QED BY <1>6, <2>2, <2>3, <2>4, <2>5, <2>6 DEF CohortMain
<1>7. ASSUME NEW p \in Nodes, Crash(p) \/ Dial(p) PROVE CohortFollows'
  BY <1>1, <1>7 DEF Crash, Down, Dial, DialSend, DialPanic, DialReply, DialTimeout
<1>8. CASE UNCHANGED vars
  BY <1>1, <1>8 DEF vars
<1>. QED BY <1>2, <1>3, <1>4, <1>6, <1>7, <1>8 DEF Next

(* As long as answers are prompt and the logs fit the window recovery      *)
(* reads, OK is said of what the coordinator's log commits and SORRY of    *)
(* what neither log commits, across restarts and drops (node.go:33-36).    *)
THEOREM AnswersAreTrue == Spec => [](Prompt /\ LogsFit => AnswersTrue)
<1>. DEFINE Inv == Prompt /\ LogsFit => CohortFollows
<1>1. Init => Inv
  BY DEF Init, CohortFollows, Logged, Nodes
<1>2. TypeOK /\ (Prompt /\ LogsFit => TwoPhaseInv) /\ Inv /\ [Next]_vars => Inv'
  BY LogsFitBefore, FollowsStep
<1>3. FinalInv /\ Inv => (Prompt /\ LogsFit => AnswersTrue)
  BY DEF FinalInv, ToldInv, CohortFollows, AnswersTrue
<1>4. Spec => []Inv
  BY <1>1, <1>2, TwoPhaseTypeOK, TwoPhaseInvariant, PTL DEF Spec
<1>5. Spec => []FinalInv
  BY FinalInit, FinalStep, TwoPhaseTypeOK, PTL DEF Spec
<1>. QED BY <1>3, <1>4, <1>5, PTL

-----------------------------------------------------------------------------
(* Until a datagram is dropped.  A yes on its way was sent by a cohort     *)
(* that is uncertain since; and an uncertain cohort that is behind, one    *)
(* whose value in memory is no longer the committed one, will not be told  *)
(* to abort: of a transaction the coordinator prepares meanwhile, the      *)
(* question is still to be sent or waits for the cohort, which dies of it. *)
YesUncertain == YesPending /\ up["cohort"] => state["cohort"] = "uncertain"

Behind == up["cohort"] /\ ~Starting /\ state["cohort"] = "uncertain"
            /\ value["cohort"] # LogC.val

PrepareComing ==
  /\ dial["coord"] = "wait"
  /\ \E i \in 1..Len(inbox["cohort"]) : /\ inbox["cohort"][i].op = "prepare"
                                        /\ inbox["cohort"][i].from = port["coord"]

BehindInv ==
  Behind =>
    /\ \A i \in 1..Len(inbox["cohort"]) : inbox["cohort"][i].op # "abort"
    /\ ~(main["coord"] = "dialc" /\ out["coord"].op = "abort")
    /\ state["coord"] = "prep" => main["coord"] = "dialc" \/ PrepareComing

ShownInv == YesUncertain /\ (drops = 0 => MemoryAgreement /\ BehindInv)

(* Drops are not taken back.                                               *)
LEMMA DropsGrow ==
  ASSUME TypeOK, [Next]_vars, drops' = 0
  PROVE  drops = 0
<1>1. drops \in Nat
  BY DEF TypeOK
<1>2. drops' = drops \/ Lose => drops = 0
  BY <1>1 DEF Lose
<1>3. ASSUME NEW p \in Nodes, Start(p) \/ Crash(p) \/ Dial(p)
      PROVE  drops' = drops \/ Lose
  BY <1>3 DEF Start, Crash, Down, Dial, DialSend, DialPanic, DialReply, DialTimeout
<1>4. ASSUME NEW v \in Values, CoordReq(v) PROVE drops' = drops
  BY <1>4 DEF CoordReq
<1>5. CoordMain => drops' = drops \/ Lose
  BY DEF CoordMain, CoordYes, CoordNo, Decide, CoordAck, CoordPanic, Down, CoordAnswer,
         CoordPeek, Reply
<1>6. CohortMain => drops' = drops \/ Lose
  BY DEF CohortMain, CohortPrepare, CohortCommit, CohortAbort, CohortFatal, Down,
         CohortLearn, CohortPeekTimer, Answered, Reply
<1>7. UNCHANGED vars => drops' = drops
  BY DEF vars
<1>. QED BY <1>2, <1>3, <1>4, <1>5, <1>6, <1>7 DEF Next

(* What ShownInv speaks of.                                                *)
LEMMA ShownSame ==
  ASSUME TypeOK, TwoPhaseInv, ShownInv, drops' = 0 => drops = 0,
         up'["cohort"] = up["cohort"], state' = state, value'["cohort"] = value["cohort"],
         Starting' = Starting, main'["coord"] = main["coord"], out'["coord"] = out["coord"],
         dial'["coord"] = dial["coord"], given'["coord"] = given["coord"],
         port'["coord"] = port["coord"], inbox'["cohort"] = inbox["cohort"],
         replies'["coord"] = replies["coord"], log'["coord"] = log["coord"]
  PROVE  ShownInv'
<1>1. YesPending' = YesPending /\ LogC' = LogC
  BY DEF YesPending, LogC
<1>2. Behind' = Behind /\ PrepareComing' = PrepareComing
  BY <1>1 DEF Behind, PrepareComing
<1>. QED
  BY <1>1, <1>2 DEF ShownInv, YesUncertain, BehindInv, MemoryAgreement, LogC

LEMMA ShownDown ==
  ASSUME TypeOK, TwoPhaseInv, ShownInv, NEW p \in Nodes, Down(p)
  PROVE  ShownInv'
<1>1. LogC' = LogC /\ drops' = drops
  BY DEF Down, LogC
<1>2. CASE p = "coord"
  <2>1. /\ state'["coord"] = "listening" /\ main'["coord"] = "select"
        /\ dial'["coord"] = "recv" /\ replies'["coord"] = <<>>
        /\ up'["cohort"] = up["cohort"] /\ state'["cohort"] = state["cohort"]
        /\ value'["cohort"] = value["cohort"] /\ main'["cohort"] = main["cohort"]
        /\ inbox'["cohort"] = inbox["cohort"]
    BY <1>2 DEF Down, TypeOK, Nodes
  <2>2. ~YesPending'
    BY <2>1 DEF YesPending
  <2>3. Behind' = Behind
    BY <1>1, <2>1 DEF Behind, Starting
  <2>. QED
    BY <1>1, <2>1, <2>2, <2>3 DEF ShownInv, YesUncertain, BehindInv, MemoryAgreement, LogC
<1>3. CASE p = "cohort"
  <2>1. ~up'["cohort"]
    BY <1>3 DEF Down, TypeOK, Nodes
  <2>. QED
    BY <2>1 DEF ShownInv, YesUncertain, BehindInv, Behind, MemoryAgreement
<1>. QED BY <1>2, <1>3 DEF Nodes

(* A cohort that starts is certain of the committed value, or asks for it. *)
LEMMA ShownStart ==
  ASSUME TypeOK, TwoPhaseInv, ShownInv, LogsFit', NEW p \in Nodes, Start(p)
  PROVE  ShownInv'
<1>. DEFINE r == Recovered(log[p])
<1>1. /\ ~up[p] /\ value'[p] = r.val
      /\ state'[p] = IF r.op = "yes" THEN "uncertain" ELSE "listening"
      /\ main'[p] = IF r.op = "yes" THEN "dialc" ELSE "select"
      /\ \A q \in Nodes \ {p} :
           /\ up'[q] = up[q] /\ value'[q] = value[q] /\ state'[q] = state[q]
           /\ main'[q] = main[q] /\ out'[q] = out[q] /\ port'[q] = port[q]
      /\ UNCHANGED <<dial, given, inbox, replies, drops>>
      /\ p = "coord" => r.op # "yes"
  BY DEF Start, TypeOK
<1>2. dial[p] = "recv" /\ inbox[p] = <<>> /\ replies[p] = <<>>
  BY <1>1 DEF TwoPhaseInv, DownInv
<1>3. r.op \in Decisive /\ r.val \in Vals
  BY RecoveredType DEF TypeOK, LogRec
<1>4. LogC' = LogC /\ YesPending' = YesPending
  <2>1. WriteLog(p, "START", r.val)
    BY DEF Start
  <2>2. Recovered(log'["coord"]) = Recovered(log["coord"])
    BY <1>3, <2>1, WriteLogEffect DEF Decisive, Nodes
  <2>. QED BY <1>1, <2>2 DEF LogC, YesPending
<1>5. CASE p = "coord"
  <2>1. ~YesPending
    BY <1>2, <1>5 DEF YesPending
  <2>2. Behind' = Behind
    BY <1>1, <1>4, <1>5 DEF Behind, Starting, Nodes
  <2>3. state'["coord"] = "listening" /\ main'["coord"] = "select"
    BY <1>1, <1>5
  <2>. QED
    BY <1>1, <1>4, <1>5, <2>1, <2>2, <2>3
    DEF ShownInv, YesUncertain, BehindInv, MemoryAgreement, LogC, Nodes
<1>6. CASE p = "cohort"
  <2>1. YesPending => r.op = "yes"
    BY <1>6 DEF TwoPhaseInv, VoteInv, LogH, Msg
  <2>2. r.op = "yes" => state'["cohort"] = "uncertain" /\ Starting'
    BY <1>1, <1>6 DEF Starting
  <2>3. r.op # "yes" => state'["cohort"] = "listening" /\ value'["cohort"] = LogC.val
    BY <1>1, <1>3, <1>6 DEF Decisive, TwoPhaseInv, LogAgreement, CohortCertain, LogC
  <2>. QED
    BY <1>4, <2>1, <2>2, <2>3 DEF ShownInv, YesUncertain, BehindInv, Behind, MemoryAgreement, LogC
<1>. QED BY <1>5, <1>6 DEF Nodes

LEMMA ShownDialSend ==
  ASSUME TypeOK, TwoPhaseInv, ShownInv, drops' = 0 => drops = 0,
         NEW p \in Nodes, DialSend(p)
  PROVE  ShownInv'
<1>. DEFINE m == [op |-> out[p].op, val |-> out[p].val, from |-> port[p]]
<1>1. /\ up[p] /\ main[p] = "dialc" /\ dial[p] = "recv"
      /\ main'[p] = CASE out[p].op = "prepare" -> "select"
                      [] out[p].op = "peek"    -> "peek"
                      [] OTHER                 -> "srvc"
      /\ \A q \in Nodes \ {p} : main'[q] = main[q] /\ dial'[q] = dial[q]
      /\ UNCHANGED <<up, state, value, req, out, given, port, replies, log>>
  BY DEF DialSend, TypeOK
<1>2. \/ inbox' = inbox /\ (Lose \/ ~up[Peer(p)])
      \/ /\ dial'[p] = "wait"
         /\ inbox' = [inbox EXCEPT ![Peer(p)] = Append(@, m)]
  BY DEF DialSend, TypeOK
<1>3. Peer("coord") = "cohort" /\ Peer("cohort") = "coord"
  BY DEF Peer
<1>. HIDE DEF m
<1>4. CASE p = "cohort"
  <2>1. inbox'["cohort"] = inbox["cohort"]
    BY <1>2, <1>3, <1>4 DEF TypeOK, Nodes
  <2>2. Starting' = Starting
    BY <1>1, <1>4 DEF TwoPhaseInv, MemoryInv, Starting
  <2>3. main'["coord"] = main["coord"] /\ dial'["coord"] = dial["coord"]
    BY <1>1, <1>4 DEF Nodes
  <2>. QED BY <1>1, <2>1, <2>2, <2>3, ShownSame
<1>5. CASE p = "coord"
  <2>1. LogC' = LogC /\ main'["cohort"] = main["cohort"] /\ dial'["coord"] \in {"wait", "refused"}
    BY <1>1, <1>5 DEF LogC, DialSend, TypeOK, Nodes
  <2>2. ~YesPending'
    BY <1>1, <1>5, <2>1 DEF YesPending, TwoPhaseInv, ExchangeInv
  <2>3. Behind' = Behind
    BY <1>1, <2>1 DEF Behind, Starting
  <2>4. ASSUME drops' = 0, Behind PROVE BehindInv'
    <3>1. /\ \A i \in 1..Len(inbox["cohort"]) : inbox["cohort"][i].op # "abort"
          /\ out["coord"].op # "abort"
      BY <1>1, <1>5, <2>4 DEF ShownInv, BehindInv
    <3>2. up["cohort"] /\ ~Lose
      BY <2>4 DEF Behind, Lose, TypeOK
    <3>3. dial'["coord"] = "wait" /\ inbox'["cohort"] = Append(inbox["cohort"], m)
      BY <1>2, <1>3, <1>5, <3>2 DEF TypeOK, Nodes
    <3>4. /\ Len(inbox["cohort"]) \in Nat
          /\ Len(inbox'["cohort"]) = Len(inbox["cohort"]) + 1
          /\ \A i \in 1..Len(inbox["cohort"]) : inbox'["cohort"][i] = inbox["cohort"][i]
          /\ inbox'["cohort"][Len(inbox["cohort"]) + 1] = m
      <4>1. inbox["cohort"] \in Seq(Question) /\ m \in Question
        BY <1>1, <1>5 DEF TypeOK, Question, Nodes, m
      <4>. QED BY <3>3, <4>1, AppendProperties, LenProperties
    <3>5. m.op = out["coord"].op /\ m.from = port["coord"]
      BY <1>5 DEF m
    <3>6. \A i \in 1..Len(inbox'["cohort"]) : inbox'["cohort"][i].op # "abort"
      BY <3>1, <3>4, <3>5
    <3>7. state["coord"] = "prep" => out["coord"].op = "prepare"
      BY <1>1, <1>5 DEF TwoPhaseInv, MemoryInv
    <3>8. state["coord"] = "prep" => PrepareComing'
      BY <1>1, <3>3, <3>4, <3>5, <3>7 DEF PrepareComing
    <3>. QED BY <1>1, <3>1, <3>6, <3>8 DEF BehindInv
  <2>. QED
    BY <1>1, <2>1, <2>2, <2>3, <2>4
    DEF ShownInv, YesUncertain, BehindInv, MemoryAgreement, LogC
<1>. QED BY <1>4, <1>5 DEF Nodes

(* A prepare that waits for a cohort that is behind keeps dial waiting:    *)
(* nothing has answered it, and the timer does not beat the answer.        *)
LEMMA ShownDialGives ==
  ASSUME TypeOK, TwoPhaseInv, Prompt, ShownInv, NEW p \in Nodes,
         DialReply(p) \/ DialTimeout(p)
  PROVE  ShownInv'
<1>1. /\ up[p] /\ dial'[p] = "give"
      /\ \A q \in Nodes \ {p} : dial'[q] = dial[q] /\ given'[q] = given[q]
                                /\ replies'[q] = replies[q]
      /\ UNCHANGED <<up, state, value, req, main, out, port, inbox, log, drops>>
  BY DEF DialReply, DialTimeout, TypeOK
<1>2. CASE p = "cohort"
  BY <1>1, <1>2, ShownSame DEF Starting, Nodes
<1>3. CASE p = "coord"
  <2>1. LogC' = LogC /\ Behind' = Behind
    BY <1>1 DEF LogC, Behind, Starting
  <2>2. YesPending' => YesPending
    <3>1. CASE DialTimeout(p)
      BY <1>3, <3>1 DEF DialTimeout, YesPending, TypeOK, Msg, Nodes
    <3>2. CASE DialReply(p)
      <4>1. PICK i \in 1..Len(replies["coord"]) :
              /\ given'["coord"] = replies["coord"][i]
              /\ replies'["coord"] = RemoveAt(replies["coord"], i)
        BY <1>3, <3>2 DEF DialReply, TypeOK, Nodes
      <4>2. replies["coord"] \in Seq(Response)
        BY DEF TypeOK, Response, Nodes
      <4>3. \A j \in 1..Len(replies'["coord"]) : \E k \in 1..Len(replies["coord"]) :
              replies'["coord"][j] = replies["coord"][k]
        <5>. SUFFICES ASSUME NEW j \in 1..Len(RemoveAt(replies["coord"], i))
                      PROVE  \E k \in 1..Len(replies["coord"]) :
                               RemoveAt(replies["coord"], i)[j] = replies["coord"][k]
          BY <4>1
        <5>. QED BY <4>2, RemoveAtType
      <4>. QED BY <4>1, <4>3 DEF YesPending
    <3>. QED BY <3>1, <3>2
  <2>3. Behind => ~PrepareComing
    <3>. SUFFICES ASSUME Behind, PrepareComing PROVE FALSE
      OBVIOUS
    <3>1. ~Hung("cohort")
      BY DEF Behind, Hung, Starting
    <3>2. PICK i \in 1..Len(inbox["cohort"]) : inbox["cohort"][i].from = port["coord"]
      BY DEF PrepareComing
    <3>3. CASE DialTimeout(p)
      BY <1>3, <3>1, <3>2, <3>3 DEF DialTimeout, AnswerComing, Peer
    <3>4. CASE DialReply(p)
      <4>1. replies["coord"] = <<>>
        BY <1>1, <1>3, <3>1, <3>2 DEF TwoPhaseInv, ExchangeInv
      <4>2. \E k \in 1..Len(replies["coord"]) : TRUE
        BY <1>3, <3>4 DEF DialReply
      <4>. QED BY <4>1, <4>2
    <3>. QED BY <3>3, <3>4
  <2>4. BehindInv => BehindInv'
    BY <1>1, <2>1, <2>3 DEF BehindInv
  <2>. QED
    BY <1>1, <2>1, <2>2, <2>4 DEF ShownInv, YesUncertain, MemoryAgreement, LogC
<1>. QED BY <1>2, <1>3 DEF Nodes

LEMMA ShownCoordReq ==
  ASSUME TypeOK, TwoPhaseInv, ShownInv, LogsFit', NEW v \in Values, CoordReq(v)
  PROVE  ShownInv'
<1>1. /\ state'["coord"] = "prep" /\ main'["coord"] = "dialc"
      /\ out'["coord"] = Msg("prepare", v)
      /\ state'["cohort"] = state["cohort"] /\ main'["cohort"] = main["cohort"]
      /\ WriteLog("coord", "prepare", v) /\ v \in Vals
      /\ UNCHANGED <<up, value, dial, given, port, inbox, replies, drops>>
  BY DEF CoordReq, TypeOK, Nodes, Vals
<1>2. LogC' = LogC
  BY <1>1, WriteLogEffect DEF LogC, Decisive, Nodes
<1>3. YesPending' = YesPending /\ Behind' = Behind
  BY <1>1, <1>2 DEF YesPending, Behind, Starting
<1>. QED
  BY <1>1, <1>2, <1>3 DEF ShownInv, YesUncertain, BehindInv, MemoryAgreement, LogC, Msg

(* A commit leaves an uncertain cohort behind with nothing in its queue; an *)
(* abort is decided only while no cohort is behind.                        *)
LEMMA ShownDecide ==
  ASSUME TypeOK, TwoPhaseInv, ShownInv, LogsFit', NEW final \in {"commit", "abort"},
         CoordTakes({"yes", "no", "timeout"}), state["coord"] = "prep", Decide(final),
         final = "commit" => given["coord"].op = "yes",
         value'["cohort"] = value["cohort"]
  PROVE  ShownInv'
<1>1. /\ main["coord"] = "select" /\ dial["coord"] = "give" /\ up["coord"]
      /\ state'["coord"] = "listening" /\ state'["cohort"] = state["cohort"]
      /\ out'["coord"] = Msg(final, req["coord"])
      /\ main'["cohort"] = main["cohort"] /\ dial'["coord"] = "recv"
      /\ WriteLog("coord", final, req["coord"]) /\ req["coord"] \in Vals
      /\ UNCHANGED <<up, port, inbox, replies, drops>>
  BY DEF CoordTakes, Decide, TypeOK, Nodes
<1>2. ~YesPending'
  BY <1>1 DEF YesPending, TwoPhaseInv, ExchangeInv
<1>3. CASE final = "commit"
  <2>1. YesPending /\ inbox["cohort"] = <<>>
    BY <1>1, <1>3 DEF YesPending, TwoPhaseInv, VoteInv
  <2>2. up'["cohort"] => state'["cohort"] = "uncertain"
    BY <1>1, <2>1 DEF ShownInv, YesUncertain
  <2>3. MemoryAgreement'
    BY <2>2 DEF MemoryAgreement
  <2>4. BehindInv'
    BY <1>1, <1>3, <2>1 DEF BehindInv, Msg
  <2>. QED BY <1>2, <2>3, <2>4 DEF ShownInv, YesUncertain
<1>4. CASE final = "abort"
  <2>1. LogC' = LogC
    BY <1>1, <1>4, WriteLogEffect DEF LogC, Decisive, Nodes
  <2>2. drops = 0 => ~Behind
    BY <1>1 DEF ShownInv, BehindInv, PrepareComing
  <2>3. Behind' = Behind
    BY <1>1, <2>1 DEF Behind, Starting
  <2>. QED
    BY <1>1, <1>2, <2>1, <2>2, <2>3
    DEF ShownInv, YesUncertain, BehindInv, MemoryAgreement, LogC
<1>. QED BY <1>3, <1>4

LEMMA ShownCoordMain ==
  ASSUME TypeOK, TwoPhaseInv, ShownInv, LogsFit', drops' = 0 => drops = 0, CoordMain
  PROVE  ShownInv'
<1>1. CASE CoordYes
  <2>1. /\ CoordTakes({"yes", "no", "timeout"}) /\ given["coord"].op = "yes"
        /\ state["coord"] = "prep" /\ value'["cohort"] = value["cohort"]
        /\ \E final \in {"commit", "abort"} : Decide(final)
    BY <1>1 DEF CoordYes, CoordTakes, TypeOK, Nodes
  <2>. QED BY <2>1, ShownDecide
<1>2. CASE CoordNo
  BY <1>2, ShownDecide DEF CoordNo, CoordTakes
<1>3. CASE CoordPanic
  BY <1>3, ShownDown DEF CoordPanic, Nodes
<1>4. CASE CoordAck \/ CoordAnswer
  <2>1. /\ state["coord"] # "prep" /\ main'["cohort"] = main["cohort"]
        /\ main'["coord"] = main["coord"] \/ main'["coord"] = "select"
        /\ \/ dial'["coord"] = dial["coord"] /\ given'["coord"] = given["coord"]
           \/ dial'["coord"] = "recv"
        /\ UNCHANGED <<up, state, value, out, port, inbox, replies, log, drops>>
    BY <1>4 DEF CoordAck, CoordAnswer, TwoPhaseInv, MemoryInv, TypeOK, Nodes
  <2>2. (YesPending' => YesPending) /\ LogC' = LogC /\ Behind' = Behind
    BY <2>1 DEF YesPending, LogC, Behind, Starting
  <2>. QED
    BY <2>1, <2>2 DEF ShownInv, YesUncertain, BehindInv, MemoryAgreement, LogC
<1>5. CASE CoordPeek
  <2>1. /\ inbox'["cohort"] = inbox["cohort"] /\ replies'["coord"] = replies["coord"]
        /\ UNCHANGED <<up, state, value, main, out, dial, given, port, log>>
    BY <1>5 DEF CoordPeek, Reply, TypeOK, Nodes
  <2>. QED BY <2>1, ShownSame DEF Starting
<1>. QED BY <1>1, <1>2, <1>3, <1>4, <1>5 DEF CoordMain

(* The cohort certain again, by commit, abort or peek, shows the committed *)
(* value; voting yes, it is not behind yet.                                *)
LEMMA ShownCohortMain ==
  ASSUME TypeOK, TwoPhaseInv, ShownInv, LogsFit', drops' = 0 => drops = 0, CohortMain
  PROVE  ShownInv'
<1>. DEFINE hd == Head(inbox["cohort"])
<1>1. ASSUME NEW m \in Response, inbox["cohort"] # <<>>, Answered(m),
             main["cohort"] = "select",
             state'["coord"] = state["coord"], req'["coord"] = req["coord"]
      PROVE  /\ ~YesPending /\ ~Starting /\ ~Starting'
             /\ YesPending' => m.op = "yes"
             /\ hd = inbox["cohort"][1] /\ 1 \in 1..Len(inbox["cohort"])
  BY <1>1, ExchangeAnswered, AnsweredEffect DEF Starting, Answered
<1>2. ASSUME NEW o \in {"yes", "no", "commit", "abort"}, NEW v \in Vals,
             WriteLog("cohort", o, v)
      PROVE  LogC' = LogC
  BY <1>2, WriteLogEffect DEF LogC, Nodes
<1>3. req["cohort"] \in Vals /\ given["cohort"].val \in Vals
  BY DEF TypeOK, Nodes
<1>4. CASE CohortPrepare
  <2>1. /\ main["cohort"] = "select" /\ inbox["cohort"] # <<>>
        /\ state["cohort"] = "listening" /\ up["cohort"] /\ value' = value
    BY <1>4 DEF CohortPrepare, CohortTakes
  <2>2. PICK agree \in {"yes", "no"} :
          /\ WriteLog("cohort", agree, hd.val) /\ Answered(Msg(agree, hd.val))
          /\ state'["cohort"] = IF agree = "yes" THEN "uncertain" ELSE "listening"
          /\ state'["coord"] = state["coord"] /\ req'["coord"] = req["coord"]
    BY <1>4 DEF CohortPrepare, TypeOK, Nodes
  <2>3. hd.val \in Vals /\ Msg(agree, hd.val) \in Response /\ Msg(agree, hd.val).op = agree
    <3>1. inbox["cohort"] \in Seq(Question)
      BY DEF TypeOK, Question, Nodes
    <3>2. hd \in Question
      BY <2>1, <3>1, HeadTailProperties
    <3>. QED BY <3>2 DEF Question, Response, Msg
  <2>4. LogC' = LogC
    BY <1>2, <2>2, <2>3
  <2>5. YesPending' => agree = "yes"
    BY <1>1, <2>1, <2>2, <2>3
  <2>6. drops = 0 => value["cohort"] = LogC.val
    BY <2>1 DEF ShownInv, MemoryAgreement, LogC
  <2>. QED
    BY <2>1, <2>2, <2>4, <2>5, <2>6
    DEF ShownInv, YesUncertain, BehindInv, Behind, MemoryAgreement, LogC
<1>5. CASE CohortCommit \/ CohortAbort
  <2>1. /\ main["cohort"] = "select" /\ inbox["cohort"] # <<>> /\ up["cohort"]
        /\ hd.op \in {"commit", "abort"} /\ WriteLog("cohort", hd.op, req["cohort"])
        /\ Answered(Msg("ack", Unset))
        /\ state'["cohort"] = "listening"
        /\ state'["coord"] = state["coord"] /\ req'["coord"] = req["coord"]
        /\ hd.op = "commit" => /\ state["cohort"] = "uncertain"
                               /\ value'["cohort"] = req["cohort"]
        /\ hd.op = "abort" => value'["cohort"] = value["cohort"]
    BY <1>5 DEF CohortCommit, CohortAbort, CohortTakes, TypeOK, Nodes
  <2>2. Msg("ack", Unset) \in Response /\ Msg("ack", Unset).op = "ack"
    BY DEF Response, Msg, Vals
  <2>3. /\ ~YesPending' /\ ~Starting
        /\ hd = inbox["cohort"][1] /\ 1 \in 1..Len(inbox["cohort"])
    BY <1>1, <2>1, <2>2
  <2>4. LogC' = LogC
    BY <1>2, <1>3, <2>1
  <2>5. drops = 0 => value'["cohort"] = LogC.val
    <3>1. CASE hd.op = "commit"
      BY <2>1, <3>1, CommitMeetsVote
    <3>2. CASE hd.op = "abort"
      <4>1. drops = 0 => ~Behind
        BY <2>3, <3>2 DEF ShownInv, BehindInv
      <4>2. state["cohort"] \in {"listening", "uncertain"}
        BY DEF TwoPhaseInv, MemoryInv, TypeOK, Nodes
      <4>. QED
        BY <2>1, <2>3, <3>2, <4>1, <4>2 DEF Behind, ShownInv, MemoryAgreement, LogC
    <3>. QED BY <2>1, <3>1, <3>2
  <2>. QED
    BY <2>1, <2>3, <2>4, <2>5
    DEF ShownInv, YesUncertain, BehindInv, Behind, MemoryAgreement, LogC
<1>6. CASE CohortFatal
  BY <1>6, ShownDown DEF CohortFatal, Nodes
<1>7. CASE CohortLearn
  <2>1. /\ WriteLog("cohort", "commit", given["cohort"].val)
        /\ value'["cohort"] = given["cohort"].val /\ state'["cohort"] = "listening"
        /\ dial'["coord"] = dial["coord"] /\ given'["coord"] = given["coord"]
        /\ UNCHANGED replies
    BY <1>7 DEF CohortLearn, TypeOK, Nodes
  <2>2. LogC' = LogC
    BY <1>2, <1>3, <2>1
  <2>3. given["cohort"].val = LogC.val /\ ~YesPending
    BY <1>7 DEF CohortLearn, TwoPhaseInv, PeekInv, Current, Starting
  <2>4. ~YesPending'
    BY <2>1, <2>3 DEF YesPending
  <2>. QED
    BY <2>1, <2>2, <2>3, <2>4
    DEF ShownInv, YesUncertain, BehindInv, Behind, MemoryAgreement, LogC
<1>8. CASE CohortPeekTimer
  <2>1. /\ Starting' = Starting /\ main'["coord"] = main["coord"]
        /\ UNCHANGED <<up, state, value, out, dial, given, port, inbox, replies, log>>
    BY <1>8 DEF CohortPeekTimer, Starting, TypeOK, Nodes
  <2>. QED BY <2>1, ShownSame
<1>. QED BY <1>4, <1>5, <1>6, <1>7, <1>8 DEF CohortMain

LEMMA ShownStep ==
  ASSUME TypeOK, TwoPhaseInv, Prompt, LogsFit', ShownInv, [Next]_vars
  PROVE  ShownInv'
<1>1. drops' = 0 => drops = 0
  BY DropsGrow
<1>2. ASSUME NEW p \in Nodes, Crash(p) \/ Dial(p) PROVE ShownInv'
  BY <1>1, <1>2, ShownDown, ShownDialSend, ShownDialGives DEF Crash, Dial, DialPanic
<1>3. CASE UNCHANGED vars
  BY <1>1, <1>3, ShownSame DEF vars, Starting
<1>. QED
  BY <1>1, <1>2, <1>3, ShownStart, ShownCoordReq, ShownCoordMain, ShownCohortMain DEF Next

(* As long as answers are prompt and the logs fit, a running cohort that   *)
(* is not uncertain shows the coordinator's committed value until the      *)
(* first datagram is dropped, crashes and restarts or not.                 *)
THEOREM UndroppedMemoryAgrees == Spec => [](Prompt /\ LogsFit => UndroppedAgreement)
<1>. DEFINE Inv == Prompt /\ LogsFit => ShownInv
<1>1. Init => Inv
  BY DEF Init, ShownInv, YesUncertain, MemoryAgreement, BehindInv, Behind, YesPending, Nodes
<1>2. TypeOK /\ (Prompt /\ LogsFit => TwoPhaseInv) /\ Inv /\ [Next]_vars => Inv'
  BY LogsFitBefore, ShownStep
<1>3. Inv => (Prompt /\ LogsFit => UndroppedAgreement)
  BY DEF ShownInv, UndroppedAgreement
<1>4. Spec => []Inv
  BY <1>1, <1>2, TwoPhaseTypeOK, TwoPhaseInvariant, PTL DEF Spec
<1>. QED BY <1>3, <1>4, PTL
=============================================================================
