---------------------------- MODULE TwoPhaseTypes ----------------------------
(***************************************************************************)
(* Type correctness of TwoPhase, and the lemmas about logs and queues that *)
(* its other proofs use.                                                   *)
(***************************************************************************)
EXTENDS TwoPhase, SequenceTheorems, TLAPS

LogRec == [op : {"START", "prepare", "yes", "no", "commit", "abort"}, val : Vals]
Question == [op : {"prepare", "commit", "abort", "peek"}, val : Vals, from : Nat]
Response == [op : {"yes", "no", "ack", "value"}, val : Vals]

(* What recovery reads is one of the decisive records of the log, or the   *)
(* initial value (startLog).                                               *)
LEMMA RecoveredType ==
  ASSUME NEW lg \in Seq(LogRec)
  PROVE  Recovered(lg) \in [op : Decisive, val : Vals]
<1>1. CASE LastMark(lg) = {}
  BY <1>1 DEF Recovered, Msg, Vals, Decisive
<1>2. CASE LastMark(lg) # {}
  <2>1. PICK i \in LastMark(lg) : i = CHOOSE k \in LastMark(lg) : TRUE
    BY <1>2
  <2>2. i \in 1..Len(lg) /\ lg[i].op \in Decisive
    BY DEF LastMark, Marks
  <2>3. lg[i] \in LogRec
    BY <2>2, ElementOfSeq
  <2>4. Recovered(lg) = lg[i]
    BY <1>2, <2>1 DEF Recovered
  <2>. QED
    BY <2>2, <2>3, <2>4 DEF LogRec
<1>. QED BY <1>1, <1>2

(* Taking an element out of a sequence leaves elements of it.              *)
LEMMA RemoveAtType ==
  ASSUME NEW S, NEW s \in Seq(S), NEW i \in 1..Len(s)
  PROVE  /\ RemoveAt(s, i) \in Seq(S)
         /\ Len(RemoveAt(s, i)) = Len(s) - 1
         /\ \A j \in 1..Len(RemoveAt(s, i)) :
              \E k \in 1..Len(s) : RemoveAt(s, i)[j] = s[k]
<1>. DEFINE a == SubSeq(s, 1, i-1)
            b == SubSeq(s, i+1, Len(s))
<1>0. /\ Len(s) \in Nat /\ i \in Nat /\ i >= 1 /\ i <= Len(s)
      /\ \A k \in 1..Len(s) : s[k] \in S
  BY ElementOfSeq, LenProperties
<1>1. /\ a \in Seq(S) /\ Len(a) = i - 1
      /\ \A k \in 1..(i-1) : a[k] = s[k]
  <2>1. /\ 1 \in Int /\ i-1 \in Int
        /\ \A k \in 1..(i-1) : s[k] \in S
    BY <1>0
  <2>2. /\ a \in Seq(S)
        /\ Len(a) = IF 1 <= i-1 THEN (i-1)-1+1 ELSE 0
        /\ \A k \in 1..((i-1)-1+1) : a[k] = s[1+k-1]
    BY <2>1, SubSeqProperties
  <2>. QED BY <1>0, <2>2
<1>2. /\ b \in Seq(S) /\ Len(b) = Len(s) - i
      /\ \A k \in 1..(Len(s)-i) : b[k] = s[i+k]
  <2>1. /\ i+1 \in Int /\ Len(s) \in Int
        /\ \A k \in (i+1)..Len(s) : s[k] \in S
    BY <1>0
  <2>2. /\ b \in Seq(S)
        /\ Len(b) = IF i+1 <= Len(s) THEN Len(s)-(i+1)+1 ELSE 0
        /\ \A k \in 1..(Len(s)-(i+1)+1) : b[k] = s[(i+1)+k-1]
    BY <2>1, SubSeqProperties
  <2>. QED BY <1>0, <2>2
<1>. HIDE DEF a, b
<1>3. /\ a \o b \in Seq(S) /\ Len(a \o b) = Len(s) - 1
      /\ \A k \in 1..(Len(s) - 1) :
           (a \o b)[k] = IF k <= i - 1 THEN a[k] ELSE b[k - (i - 1)]
  <2>1. /\ a \o b \in Seq(S) /\ Len(a \o b) = Len(a) + Len(b)
        /\ \A k \in 1..(Len(a) + Len(b)) :
             (a \o b)[k] = IF k <= Len(a) THEN a[k] ELSE b[k - Len(a)]
    BY <1>1, <1>2, ConcatProperties
  <2>. QED BY <1>0, <1>1, <1>2, <2>1
<1>4. ASSUME NEW j \in 1..(Len(s) - 1)
      PROVE  \E k \in 1..Len(s) : (a \o b)[j] = s[k]
  <2>1. CASE j <= i - 1
    <3>1. j \in 1..Len(s) /\ j \in 1..(i-1)
      BY <2>1, <1>0
    <3>. QED BY <3>1, <2>1, <1>1, <1>3
  <2>2. CASE ~(j <= i - 1)
    <3>1. j - (i-1) \in 1..(Len(s)-i) /\ i + (j - (i-1)) \in 1..Len(s)
      BY <2>2, <1>0
    <3>2. (a \o b)[j] = b[j - (i-1)]
      BY <2>2, <1>3
    <3>3. b[j - (i-1)] = s[i + (j - (i-1))]
      BY <3>1, <1>2
    <3>. QED BY <3>1, <3>2, <3>3
  <2>. QED BY <2>1, <2>2
<1>5. RemoveAt(s, i) = a \o b
  BY DEF RemoveAt, a, b
<1>. QED BY <1>0, <1>3, <1>4, <1>5

-----------------------------------------------------------------------------
(* Type correctness.                                                       *)

LEMMA TypeInit == Init => TypeOK
  BY DEF Init, TypeOK, Nodes, Vals, Nothing, Msg

LEMMA TypeStart ==
  ASSUME TypeOK, NEW p \in Nodes, Start(p)
  PROVE  TypeOK'
<1>. DEFINE r == Recovered(log[p])
            rec == Msg("START", r.val)
<1>1. r.val \in Vals
  BY RecoveredType DEF TypeOK, LogRec
<1>2. Append(log[p], rec) \in Seq(LogRec)
  <2>1. log[p] \in Seq(LogRec)
    BY DEF TypeOK, LogRec
  <2>2. rec \in LogRec
    BY <1>1 DEF LogRec, Msg
  <2>. QED BY <2>1, <2>2, AppendProperties
<1>3. log' \in [Nodes -> Seq(LogRec)]
  BY <1>2 DEF Start, WriteLog, TypeOK, LogRec
<1>4. /\ value' \in [Nodes -> Vals]
      /\ up' \in [Nodes -> BOOLEAN]
      /\ state' \in [Nodes -> {"listening", "uncertain", "prep"}]
      /\ main' \in [Nodes -> {"select", "dialc", "srvc", "peek"}]
      /\ port' \in [Nodes -> Nat]
  BY <1>1 DEF Start, TypeOK
<1>5. /\ out' \in [Nodes -> [op : {"none", "prepare", "commit", "abort", "peek"},
                            val : Vals]]
      /\ \A q \in Nodes : main'[q] \in {"dialc", "peek"} => out'[q].op # "none"
  BY DEF Start, TypeOK, Msg, Nothing, Vals
<1>. QED
  BY <1>3, <1>4, <1>5 DEF Start, TypeOK, LogRec

LEMMA TypeDown ==
  ASSUME TypeOK, NEW p \in Nodes, Down(p)
  PROVE  TypeOK'
  BY DEF Down, TypeOK, Nodes, Msg, Nothing, Vals

LEMMA TypeDialSend ==
  ASSUME TypeOK, NEW p \in Nodes, DialSend(p)
  PROVE  TypeOK'
<1>. DEFINE m == [op |-> out[p].op, val |-> out[p].val, from |-> port[p]]
<1>1. /\ Peer(p) \in Nodes
      /\ main' \in [Nodes -> {"select", "dialc", "srvc", "peek"}]
      /\ dial' \in [Nodes -> {"recv", "wait", "give", "refused"}]
      /\ drops' \in Nat
  BY DEF DialSend, Lose, TypeOK, Nodes, Peer
<1>2. m \in Question
  BY DEF DialSend, TypeOK, Question
<1>3. inbox' \in [Nodes -> Seq(Question)]
  <2>1. inbox' = inbox \/ inbox' = [inbox EXCEPT ![Peer(p)] = Append(@, m)]
    BY DEF DialSend
  <2>2. inbox \in [Nodes -> Seq(Question)]
    BY DEF TypeOK, Question
  <2>3. Append(inbox[Peer(p)], m) \in Seq(Question)
    BY <1>1, <1>2, <2>2, AppendProperties
  <2>. QED BY <1>1, <2>1, <2>2, <2>3
<1>4. \A q \in Nodes : main'[q] \in {"dialc", "peek"} => out'[q].op # "none"
  BY DEF DialSend, TypeOK
<1>. QED
  BY <1>1, <1>3, <1>4 DEF DialSend, TypeOK, Question

LEMMA TypeDialReply ==
  ASSUME TypeOK, NEW p \in Nodes, DialReply(p)
  PROVE  TypeOK'
<1>1. PICK i \in 1..Len(replies[p]) :
        /\ given' = [given EXCEPT ![p] = replies[p][i]]
        /\ replies' = [replies EXCEPT ![p] = RemoveAt(@, i)]
  BY DEF DialReply
<1>2. replies[p] \in Seq(Response)
  BY DEF TypeOK, Response
<1>3. replies[p][i] \in Response /\ RemoveAt(replies[p], i) \in Seq(Response)
  BY <1>2, ElementOfSeq, RemoveAtType
<1>. QED
  BY <1>1, <1>3 DEF DialReply, TypeOK, Response, Nodes

LEMMA TypeDialTimeout ==
  ASSUME TypeOK, NEW p \in Nodes, DialTimeout(p)
  PROVE  TypeOK'
  BY DEF DialTimeout, TypeOK, Nodes, Msg, Vals

LEMMA TypeReply ==
  ASSUME TypeOK, NEW to \in Nodes, NEW pt, NEW m \in Response, Reply(to, pt, m)
  PROVE  replies' \in [Nodes -> Seq(Response)] /\ drops' \in Nat
<1>1. replies \in [Nodes -> Seq(Response)] /\ drops \in Nat
  BY DEF TypeOK, Response
<1>2. Append(replies[to], m) \in Seq(Response)
  BY <1>1, AppendProperties
<1>3. replies' \in [Nodes -> Seq(Response)]
  <2>1. replies' = replies \/ replies' = [replies EXCEPT ![to] = Append(@, m)]
    BY DEF Reply
  <2>. QED BY <1>1, <1>2, <2>1
<1>4. drops' \in Nat
  BY <1>1 DEF Reply, Lose
<1>. QED BY <1>3, <1>4

LEMMA TypeLog ==
  ASSUME TypeOK, NEW p \in Nodes, NEW v \in Vals,
         NEW o \in {"START", "prepare", "yes", "no", "commit", "abort"},
         WriteLog(p, o, v)
  PROVE  log' \in [Nodes -> Seq(LogRec)]
<1>1. log \in [Nodes -> Seq(LogRec)] /\ Msg(o, v) \in LogRec
  BY DEF TypeOK, LogRec, Msg
<1>2. Append(log[p], Msg(o, v)) \in Seq(LogRec)
  BY <1>1, AppendProperties
<1>. QED BY <1>1, <1>2 DEF WriteLog

LEMMA TypeCoordReq ==
  ASSUME TypeOK, NEW v \in Values, CoordReq(v)
  PROVE  TypeOK'
<1>1. log' \in [Nodes -> Seq(LogRec)]
  BY TypeLog DEF CoordReq, Nodes, Vals
<1>. QED
  BY <1>1 DEF CoordReq, TypeOK, LogRec, Nodes, Msg, Vals

LEMMA TypeDecide ==
  ASSUME TypeOK, NEW final \in {"commit", "abort"}, Decide(final),
         value' \in [Nodes -> Vals]
  PROVE  TypeOK'
<1>1. log' \in [Nodes -> Seq(LogRec)]
  BY TypeLog DEF Decide, TypeOK, Nodes
<1>. QED
  BY <1>1 DEF Decide, TypeOK, LogRec, Nodes, Msg, Nothing, Vals

LEMMA TypeCoordMain ==
  ASSUME TypeOK, CoordMain
  PROVE  TypeOK'
<1>1. CASE CoordYes
  <2>1. value' \in [Nodes -> Vals]
    BY <1>1 DEF CoordYes, TypeOK, Nodes
  <2>. QED BY <1>1, <2>1, TypeDecide DEF CoordYes
<1>2. CASE CoordNo
  BY <1>2, TypeDecide DEF CoordNo, TypeOK
<1>3. CASE CoordAck
  BY <1>3 DEF CoordAck, TypeOK, Nodes, Nothing, Msg, Vals
<1>4. CASE CoordPanic
  BY <1>4, TypeDown DEF CoordPanic, Nodes
<1>5. CASE CoordAnswer
  BY <1>5 DEF CoordAnswer, TypeOK, Nodes, Vals
<1>6. CASE CoordPeek
  <2>1. Msg("value", value["coord"]) \in Response
    BY DEF TypeOK, Response, Msg, Nodes
  <2>2. replies' \in [Nodes -> Seq(Response)] /\ drops' \in Nat
    BY <1>6, <2>1, TypeReply DEF CoordPeek, Nodes
  <2>3. Tail(inbox["coord"]) \in Seq(Question)
    BY <1>6, HeadTailProperties DEF CoordPeek, TypeOK, Question, Nodes
  <2>. QED
    BY <1>6, <2>2, <2>3 DEF CoordPeek, TypeOK, Response, Question, Nodes
<1>. QED
  BY <1>1, <1>2, <1>3, <1>4, <1>5, <1>6 DEF CoordMain

(* The cohort takes a datagram of its inbox and answers it.                *)
LEMMA TypeAnswered ==
  ASSUME TypeOK, NEW m \in Response, inbox["cohort"] # <<>>, Answered(m),
         log' \in [Nodes -> Seq(LogRec)],
         value' \in [Nodes -> Vals],
         req' \in [Nodes -> Vals],
         state' \in [Nodes -> {"listening", "uncertain", "prep"}]
  PROVE  TypeOK'
<1>1. replies' \in [Nodes -> Seq(Response)] /\ drops' \in Nat
  BY TypeReply DEF Answered, Nodes
<1>2. Tail(inbox["cohort"]) \in Seq(Question)
  BY HeadTailProperties DEF TypeOK, Question, Nodes
<1>. QED
  BY <1>1, <1>2 DEF Answered, TypeOK, Response, Question, LogRec, Nodes

LEMMA TypeCohortMain ==
  ASSUME TypeOK, CohortMain
  PROVE  TypeOK'
<1>1. CASE CohortPrepare
  <2>. DEFINE v == Head(inbox["cohort"]).val
  <2>1. inbox["cohort"] # <<>> /\ v \in Vals
    <3>1. inbox["cohort"] # <<>> /\ inbox["cohort"] \in Seq(Question)
      BY <1>1 DEF CohortPrepare, CohortTakes, TypeOK, Question, Nodes
    <3>2. Head(inbox["cohort"]) \in Question
      BY <3>1, HeadTailProperties
    <3>. QED BY <3>1, <3>2 DEF Question
  <2>2. PICK agree \in {"yes", "no"} :
          /\ req' = [req EXCEPT !["cohort"] = v]
          /\ WriteLog("cohort", agree, v)
          /\ state' = [state EXCEPT !["cohort"] =
                         IF agree = "yes" THEN "uncertain" ELSE "listening"]
          /\ Answered(Msg(agree, v))
          /\ value' = value
    BY <1>1 DEF CohortPrepare
  <2>3. Msg(agree, v) \in Response
    BY <2>1 DEF Response, Msg
  <2>4. log' \in [Nodes -> Seq(LogRec)]
    BY <2>1, <2>2, TypeLog DEF Nodes
  <2>5. /\ value' \in [Nodes -> Vals] /\ req' \in [Nodes -> Vals]
        /\ state' \in [Nodes -> {"listening", "uncertain", "prep"}]
    BY <2>1, <2>2 DEF TypeOK
  <2>. QED BY <2>1, <2>2, <2>3, <2>4, <2>5, TypeAnswered
<1>2. CASE CohortCommit \/ CohortAbort
  <2>1. Msg("ack", Unset) \in Response
    BY DEF Response, Msg, Vals
  <2>2. log' \in [Nodes -> Seq(LogRec)]
    BY <1>2, TypeLog DEF CohortCommit, CohortAbort, TypeOK, Nodes
  <2>3. /\ value' \in [Nodes -> Vals] /\ req' \in [Nodes -> Vals]
        /\ state' \in [Nodes -> {"listening", "uncertain", "prep"}]
    BY <1>2 DEF CohortCommit, CohortAbort, TypeOK, Nodes
  <2>. QED
    BY <1>2, <2>1, <2>2, <2>3, TypeAnswered DEF CohortCommit, CohortAbort, CohortTakes
<1>3. CASE CohortFatal
  BY <1>3, TypeDown DEF CohortFatal, Nodes
<1>4. CASE CohortLearn
  <2>1. log' \in [Nodes -> Seq(LogRec)]
    BY <1>4, TypeLog DEF CohortLearn, TypeOK, Nodes
  <2>. QED
    BY <1>4, <2>1 DEF CohortLearn, TypeOK, LogRec, Nodes, Nothing, Msg, Vals
<1>5. CASE CohortPeekTimer
  BY <1>5 DEF CohortPeekTimer, TypeOK, Nodes
<1>. QED
  BY <1>1, <1>2, <1>3, <1>4, <1>5 DEF CohortMain

(* Every value the processes keep, send and log has its type, for every    *)
(* number of values, starts and drops, prompt or not.                      *)
THEOREM TwoPhaseTypeOK == Spec => []TypeOK
<1>1. ASSUME TypeOK, [Next]_vars
      PROVE  TypeOK'
  <2>1. CASE Next
    BY <1>1, <2>1, TypeStart, TypeDown, TypeDialSend, TypeDialReply, TypeDialTimeout,
       TypeCoordReq, TypeCoordMain, TypeCohortMain
    DEF Next, Crash, Dial, DialPanic
  <2>2. CASE UNCHANGED vars
    BY <1>1, <2>2 DEF vars, TypeOK
  <2>. QED BY <1>1, <2>1, <2>2
<1>. QED BY <1>1, TypeInit, PTL DEF Spec
=============================================================================
