--------------------------- MODULE TwoPhaseProofs ---------------------------
(***************************************************************************)
(* The two logs of 2pc/node.go agree, for any number of requests, restarts *)
(* and dropped datagrams, as long as answers are prompt and the logs fit   *)
(* the part of them that recovery reads.                                   *)
(***************************************************************************)
EXTENDS TwoPhaseTypes

(* What recovery reads after one more line (startLog): the line if it is   *)
(* decisive, what it read before otherwise.                                *)
LEMMA RecoveredAppend ==
  ASSUME NEW lg \in Seq(LogRec), NEW r \in LogRec, Len(Append(lg, r)) <= Window
  PROVE  Recovered(Append(lg, r)) = IF r.op \in Decisive THEN r ELSE Recovered(lg)
<1>. DEFINE n == Len(lg)
            L == Append(lg, r)
<1>1. /\ n \in Nat /\ Len(L) = n + 1 /\ L[n+1] = r
      /\ \A i \in 1..n : L[i] = lg[i]
  BY AppendProperties, LenProperties
<1>2. Window \in Nat /\ n + 1 <= Window
  BY <1>1, ConstantsAssumption
<1>. HIDE DEF L, n
<1>3. Marks(lg) = {i \in 1..n : lg[i].op \in Decisive}
  BY <1>1, <1>2 DEF Marks, n
<1>4. Marks(L) = {i \in 1..(n+1) : L[i].op \in Decisive}
  BY <1>1, <1>2 DEF Marks
<1>5. CASE r.op \in Decisive
  <2>1. n + 1 \in Marks(L) /\ \A j \in Marks(L) : j <= n + 1
    BY <1>1, <1>4, <1>5
  <2>2. LastMark(L) = {n + 1}
    BY <1>1, <1>4, <2>1 DEF LastMark
  <2>. QED
    BY <1>1, <1>5, <2>2 DEF Recovered, L
<1>6. CASE r.op \notin Decisive
  <2>1. Marks(L) = Marks(lg)
    BY <1>1, <1>3, <1>4, <1>6
  <2>2. LastMark(L) = LastMark(lg)
    BY <2>1 DEF LastMark
  <2>3. LastMark(lg) \subseteq 1..n
    BY <1>3 DEF LastMark
  <2>. QED
    BY <1>1, <1>6, <2>2, <2>3 DEF Recovered, L
<1>. QED BY <1>5, <1>6

LEMMA WriteLogEffect ==
  ASSUME TypeOK, NEW p \in Nodes, NEW v \in Vals,
         NEW o \in {"START", "prepare", "yes", "no", "commit", "abort"},
         WriteLog(p, o, v), LogsFit'
  PROVE  /\ LogsFit
         /\ Recovered(log'[p]) = IF o \in Decisive THEN Msg(o, v) ELSE Recovered(log[p])
         /\ \A q \in Nodes : q # p => log'[q] = log[q]
<1>1. log[p] \in Seq(LogRec) /\ Msg(o, v) \in LogRec /\ Msg(o, v).op = o
  BY DEF TypeOK, LogRec, Msg
<1>2. log'[p] = Append(log[p], Msg(o, v)) /\ \A q \in Nodes : q # p => log'[q] = log[q]
  BY DEF WriteLog, TypeOK
<1>3. Len(log'[p]) <= Window
  BY DEF LogsFit
<1>4. Recovered(log'[p]) = IF o \in Decisive THEN Msg(o, v) ELSE Recovered(log[p])
  BY <1>1, <1>2, <1>3, RecoveredAppend
<1>5. LogsFit
  <2>1. Len(log'[p]) = Len(log[p]) + 1 /\ Len(log[p]) \in Nat
    BY <1>1, <1>2, AppendProperties, LenProperties
  <2>2. \A q \in Nodes : Len(log'[q]) <= Window
    BY DEF LogsFit
  <2>. QED BY <1>2, <2>1, <2>2, ConstantsAssumption DEF LogsFit
<1>. QED BY <1>2, <1>4, <1>5

-----------------------------------------------------------------------------
(* TwoPhaseInv is inductive: one lemma per action.                         *)

LEMMA InvInit == Init => TwoPhaseInv
<1>. SUFFICES ASSUME Init PROVE TwoPhaseInv
  OBVIOUS
<1>1. \A p \in Nodes : Recovered(log[p]) = Msg("commit", Unset)
  BY DEF Init, Recovered, LastMark, Marks
<1>2. ~Starting /\ ~YesPending /\ ~CommitPending
  BY DEF Init, Starting, YesPending, CommitPending, Nodes
<1>3. LogC = LogH
  BY <1>1 DEF LogC, LogH, Nodes
<1>. QED
  BY <1>1, <1>2, <1>3
  DEF Init, TwoPhaseInv, DownInv, MemoryInv, ExchangeInv, VoteInv, CommitInv, PeekInv,
      LogAgreement, RecoveryFaithful, LogC, LogH, Msg, Nodes

LEMMA InvDown ==
  ASSUME TypeOK, TwoPhaseInv, NEW p \in Nodes, Down(p)
  PROVE  TwoPhaseInv'
<1>1. LogC' = LogC /\ LogH' = LogH /\ log' = log
  BY DEF Down, LogC, LogH
<1>2. DownInv'
  BY DEF Down, TypeOK, TwoPhaseInv, DownInv, Nodes
<1>3. MemoryInv'
  BY <1>1 DEF Down, TypeOK, TwoPhaseInv, MemoryInv, RecoveryFaithful, CommitPending, Starting,
     Nodes, LogC, LogH
<1>4. ExchangeInv'
  BY DEF Down, TypeOK, TwoPhaseInv, ExchangeInv, Hung, Nodes
<1>5. VoteInv' /\ (YesPending' => YesPending)
  <2>1. YesPending' => YesPending /\ p = "cohort"
    BY DEF Down, TypeOK, YesPending, Nodes
  <2>2. p = "cohort" => state'["coord"] = state["coord"] /\ req'["coord"] = req["coord"]
                        /\ inbox'["cohort"] = <<>>
    BY DEF Down, TypeOK, Nodes
  <2>. QED BY <1>1, <2>1, <2>2 DEF TwoPhaseInv, VoteInv
<1>6. CommitInv' /\ (CommitPending' => CommitPending)
  BY <1>1 DEF Down, TypeOK, TwoPhaseInv, CommitInv, CommitPending, Nodes
<1>7. PeekInv'
  BY <1>1, <1>5, <1>6 DEF Down, TypeOK, TwoPhaseInv, PeekInv, Current, Starting, Nodes
<1>8. LogAgreement'
  BY <1>1 DEF TwoPhaseInv, LogAgreement, CohortCertain, LogC, LogH
<1>. QED
  BY <1>2, <1>3, <1>4, <1>5, <1>6, <1>7, <1>8 DEF TwoPhaseInv

LEMMA InvDialTimeout ==
  ASSUME TypeOK, TwoPhaseInv, Prompt, NEW p \in Nodes, DialTimeout(p)
  PROVE  TwoPhaseInv'
<1>1. LogC' = LogC /\ LogH' = LogH /\ log' = log /\ CommitPending' = CommitPending
  BY DEF DialTimeout, LogC, LogH, CommitPending
<1>2. DownInv'
  BY DEF DialTimeout, TypeOK, TwoPhaseInv, DownInv, Nodes
<1>3. MemoryInv'
  BY <1>1 DEF DialTimeout, TypeOK, TwoPhaseInv, MemoryInv, RecoveryFaithful, CommitPending,
     Starting, Nodes, LogC, LogH
<1>4. ExchangeInv'
  <2>1. CASE p = "coord"
    <3>1. /\ replies["coord"] = <<>>
          /\ ~Hung("cohort") => \A i \in 1..Len(inbox["cohort"]) :
                                  inbox["cohort"][i].from # port["coord"]
      BY <2>1 DEF DialTimeout, AnswerComing, Peer
    <3>2. Hung("cohort")' = Hung("cohort")
      BY <2>1 DEF DialTimeout, Hung, TypeOK, Nodes
    <3>. QED
      BY <2>1, <3>1, <3>2 DEF DialTimeout, TwoPhaseInv, ExchangeInv
  <2>2. CASE p = "cohort"
    <3>1. Hung("cohort") => Hung("cohort")'
      BY <2>2 DEF DialTimeout, Hung, TypeOK, Nodes
    <3>2. dial'["coord"] = dial["coord"]
      BY <2>2 DEF DialTimeout, TypeOK, Nodes
    <3>. QED
      BY <2>2, <3>1, <3>2 DEF DialTimeout, TwoPhaseInv, ExchangeInv
  <2>. QED BY <2>1, <2>2 DEF Nodes
<1>5. VoteInv' /\ (YesPending' => YesPending)
  BY <1>1 DEF DialTimeout, TypeOK, TwoPhaseInv, VoteInv, YesPending, Nodes, Msg
<1>6. CommitInv'
  BY <1>1 DEF DialTimeout, TypeOK, TwoPhaseInv, CommitInv, Nodes
<1>7. PeekInv'
  BY <1>1, <1>5 DEF DialTimeout, TypeOK, TwoPhaseInv, PeekInv, Current, Starting, Nodes, Msg
<1>8. LogAgreement'
  BY <1>1 DEF TwoPhaseInv, LogAgreement, CohortCertain, LogC, LogH
<1>. QED
  BY <1>2, <1>3, <1>4, <1>5, <1>6, <1>7, <1>8 DEF TwoPhaseInv

LEMMA InvDialReply ==
  ASSUME TypeOK, TwoPhaseInv, NEW p \in Nodes, DialReply(p)
  PROVE  TwoPhaseInv'
<1>1. LogC' = LogC /\ LogH' = LogH /\ log' = log /\ CommitPending' = CommitPending
  BY DEF DialReply, LogC, LogH, CommitPending
<1>2. PICK i \in 1..Len(replies[p]) :
        /\ given' = [given EXCEPT ![p] = replies[p][i]]
        /\ replies' = [replies EXCEPT ![p] = RemoveAt(@, i)]
  BY DEF DialReply
<1>3. /\ RemoveAt(replies[p], i) \in Seq(Response)
      /\ Len(RemoveAt(replies[p], i)) = Len(replies[p]) - 1
      /\ \A j \in 1..Len(RemoveAt(replies[p], i)) :
           \E k \in 1..Len(replies[p]) : RemoveAt(replies[p], i)[j] = replies[p][k]
  <2>1. replies[p] \in Seq(Response)
    BY DEF TypeOK, Response
  <2>. QED BY <2>1, RemoveAtType
<1>4. p = "coord" => RemoveAt(replies[p], i) = <<>>
  <2>1. replies[p] # <<>>
    BY EmptySeq
  <2>2. p = "coord" => Len(RemoveAt(replies[p], i)) = 0
    BY <1>3, <2>1 DEF TwoPhaseInv, ExchangeInv
  <2>. QED BY <1>3, <2>2, EmptySeq
<1>5. /\ replies'[p] = RemoveAt(replies[p], i)
      /\ given'[p] = replies[p][i]
      /\ dial[p] = "wait" /\ dial'[p] = "give"
      /\ \A q \in Nodes \ {p} : /\ replies'[q] = replies[q]
                                /\ given'[q] = given[q] /\ dial'[q] = dial[q]
      /\ UNCHANGED <<up, state, value, req, main, out, port, inbox, log, serving,
                     answer, drops>>
      /\ up[p]
  BY <1>2 DEF DialReply, TypeOK
<1>6. DownInv'
  BY <1>5 DEF TwoPhaseInv, DownInv
<1>7. MemoryInv'
  BY <1>1, <1>5 DEF TwoPhaseInv, MemoryInv, RecoveryFaithful, CommitPending, Starting, Nodes
<1>8. ExchangeInv'
  <2>1. Hung("cohort")' = Hung("cohort")
    BY <1>5 DEF Hung, Nodes
  <2>2. CASE p = "coord"
    BY <1>4, <1>5, <2>1, <2>2 DEF TwoPhaseInv, ExchangeInv
  <2>3. CASE p = "cohort"
    BY <1>5, <2>1, <2>3 DEF TwoPhaseInv, ExchangeInv, Nodes
  <2>. QED BY <2>2, <2>3 DEF Nodes
<1>9. YesPending' => YesPending
  BY <1>4, <1>5 DEF YesPending, Nodes
<1>10. VoteInv'
  BY <1>1, <1>5, <1>9 DEF TwoPhaseInv, VoteInv
<1>11. CommitInv'
  BY <1>1, <1>5 DEF TwoPhaseInv, CommitInv
<1>12. PeekInv'
  <2>1. Starting' = Starting
    BY <1>5 DEF Starting
  <2>2. CASE p = "coord"
    <3>1. UNCHANGED <<replies["cohort"], dial["cohort"], given["cohort"]>>
      BY <1>5, <2>2 DEF Nodes
    <3>. QED
      BY <1>1, <1>9, <2>1, <3>1 DEF TwoPhaseInv, PeekInv, Current
  <2>3. CASE p = "cohort"
    <3>1. replies'["cohort"] = RemoveAt(replies["cohort"], i)
      BY <1>5, <2>3
    <3>2. \A j \in 1..Len(replies'["cohort"]) : \E k \in 1..Len(replies["cohort"]) :
            replies'["cohort"][j] = replies["cohort"][k]
      <4>. SUFFICES ASSUME NEW j \in 1..Len(RemoveAt(replies[p], i))
                    PROVE  \E k \in 1..Len(replies[p]) :
                             RemoveAt(replies[p], i)[j] = replies[p][k]
        BY <2>3, <3>1
      <4>. QED BY <1>3
    <3>3. given'["cohort"] = replies["cohort"][i] /\ i \in 1..Len(replies["cohort"])
      BY <1>5, <2>3
    <3>4. \A k \in 1..Len(replies["cohort"]) :
            Starting' /\ replies["cohort"][k].op = "value" =>
              replies["cohort"][k].val = (LogC.val)' /\ ~YesPending' /\ ~CommitPending'
      BY <1>1, <1>9, <2>1 DEF TwoPhaseInv, PeekInv, Current
    <3>. QED
      BY <3>2, <3>3, <3>4 DEF PeekInv, Current
  <2>. QED BY <2>2, <2>3 DEF Nodes
<1>13. LogAgreement'
  BY <1>1 DEF TwoPhaseInv, LogAgreement, CohortCertain, LogC, LogH
<1>. QED
  BY <1>6, <1>7, <1>8, <1>10, <1>11, <1>12, <1>13 DEF TwoPhaseInv

LEMMA InvStart ==
  ASSUME TypeOK, TwoPhaseInv, LogsFit', NEW p \in Nodes, Start(p)
  PROVE  TwoPhaseInv'
<1>. DEFINE r == Recovered(log[p])
<1>1. /\ ~up[p] /\ up'[p] /\ value'[p] = r.val
      /\ state'[p] = IF r.op = "yes" THEN "uncertain" ELSE "listening"
      /\ main'[p] = IF r.op = "yes" THEN "dialc" ELSE "select"
      /\ out'[p] = IF r.op = "yes" THEN Msg("peek", Unset) ELSE Nothing
      /\ port'[p] = port[p] + 1
      /\ \A q \in Nodes \ {p} :
           /\ up'[q] = up[q] /\ value'[q] = value[q] /\ state'[q] = state[q]
           /\ main'[q] = main[q] /\ out'[q] = out[q] /\ port'[q] = port[q]
      /\ UNCHANGED <<req, dial, given, inbox, replies, serving, answer, drops>>
      /\ p = "coord" => r.op # "yes"
  BY DEF Start, TypeOK
<1>2. /\ main[p] = "select" /\ dial[p] = "recv"
      /\ inbox[p] = <<>> /\ replies[p] = <<>>
  BY <1>1 DEF TwoPhaseInv, DownInv
<1>3. \A q \in Nodes : Recovered(log'[q]) = Recovered(log[q])
  <2>1. r.val \in Vals
    BY RecoveredType DEF TypeOK, LogRec
  <2>2. WriteLog(p, "START", r.val)
    BY DEF Start
  <2>. QED BY <2>1, <2>2, WriteLogEffect DEF Decisive
<1>4. LogC' = LogC /\ LogH' = LogH
  BY <1>3 DEF LogC, LogH, Nodes
<1>5. LogH.op \in {"commit", "yes"}
  BY RecoveredType DEF LogH, TypeOK, LogRec, Decisive, Nodes
<1>6. DownInv'
  BY <1>1 DEF TwoPhaseInv, DownInv
<1>7. CommitPending' => CommitPending
  BY <1>1 DEF CommitPending, Nodes, Msg, Nothing
<1>8. YesPending' = YesPending
  BY <1>1 DEF YesPending
<1>9. RecoveryFaithful'
  BY <1>1, <1>3 DEF TwoPhaseInv, MemoryInv, RecoveryFaithful
<1>10. MemoryInv'
  <2>1. CASE p = "coord"
    BY <1>1, <1>2, <1>4, <1>7, <1>9, <2>1
    DEF TwoPhaseInv, MemoryInv, Starting, Nodes
  <2>2. CASE p = "cohort"
    <3>1. r = LogH
      BY <2>2 DEF LogH
    <3>. QED
      BY <1>1, <1>4, <1>5, <1>7, <1>9, <2>2, <3>1
      DEF TwoPhaseInv, MemoryInv, Starting, Nodes, Msg
  <2>. QED BY <2>1, <2>2 DEF Nodes
<1>11. ExchangeInv'
  <2>1. CASE p = "coord"
    <3>1. port["coord"] \in Nat /\ port'["coord"] = port["coord"] + 1
      BY <1>1, <2>1 DEF TypeOK, Nodes
    <3>2. \A i \in 1..Len(inbox["cohort"]) :
            /\ inbox["cohort"][i].from \in Nat
            /\ inbox["cohort"][i].from <= port["coord"]
      <4>1. inbox["cohort"] \in Seq(Question)
        BY DEF TypeOK, Question, Nodes
      <4>2. \A i \in 1..Len(inbox["cohort"]) : inbox["cohort"][i] \in Question
        BY <4>1, ElementOfSeq
      <4>3. \A i \in 1..Len(inbox["cohort"]) : inbox["cohort"][i].from <= port["coord"]
        BY DEF TwoPhaseInv, ExchangeInv
      <4>. QED BY <4>2, <4>3 DEF Question
    <3>3. \A i \in 1..Len(inbox["cohort"]) :
            /\ inbox["cohort"][i].from <= port'["coord"]
            /\ inbox["cohort"][i].from # port'["coord"]
      BY <3>1, <3>2
    <3>. QED
      BY <1>1, <1>2, <2>1, <3>3 DEF ExchangeInv
  <2>2. CASE p = "cohort"
    BY <1>1, <1>2, <2>2 DEF TwoPhaseInv, ExchangeInv, Nodes
  <2>. QED BY <2>1, <2>2 DEF Nodes
<1>12. VoteInv'
  <2>1. YesPending => p # "coord"
    BY <1>2 DEF YesPending
  <2>2. state'["coord"] = state["coord"] \/ p = "coord"
    BY <1>1 DEF Nodes
  <2>. QED
    BY <1>1, <1>4, <1>8, <2>1, <2>2 DEF TwoPhaseInv, VoteInv
<1>13. CommitInv'
  <2>1. p = "cohort" => inbox["cohort"] = <<>>
    BY <1>2
  <2>2. state'["cohort"] = state["cohort"] \/ p = "cohort"
    BY <1>1 DEF Nodes
  <2>3. inbox'["cohort"] = inbox["cohort"]
    BY <1>1
  <2>4. \A i \in 1..Len(inbox["cohort"]) : p # "cohort"
    BY <2>1
  <2>5. CommitPending' => /\ inbox'["cohort"] = <<>>
                          /\ LogH' = Msg("yes", (LogC.val)')
    BY <1>4, <1>7, <2>3 DEF TwoPhaseInv, CommitInv
  <2>. QED
    BY <1>4, <2>2, <2>3, <2>4, <2>5 DEF TwoPhaseInv, CommitInv
<1>14. PeekInv'
  <2>1. CASE p = "coord"
    BY <1>1, <1>4, <1>7, <1>8, <2>1 DEF TwoPhaseInv, PeekInv, Current, Starting, Nodes
  <2>2. CASE p = "cohort"
    BY <1>1, <1>2, <2>2 DEF PeekInv
  <2>. QED BY <2>1, <2>2 DEF Nodes
<1>15. LogAgreement'
  BY <1>4 DEF TwoPhaseInv, LogAgreement, CohortCertain, LogC, LogH
<1>. QED
  BY <1>6, <1>10, <1>11, <1>12, <1>13, <1>14, <1>15 DEF TwoPhaseInv

LEMMA InvDialSend ==
  ASSUME TypeOK, TwoPhaseInv, NEW p \in Nodes, DialSend(p)
  PROVE  TwoPhaseInv'
<1>. DEFINE m == [op |-> out[p].op, val |-> out[p].val, from |-> port[p]]
<1>1. /\ up[p] /\ main[p] = "dialc" /\ dial[p] = "recv" /\ dial'[p] \in {"wait", "refused"}
      /\ main'[p] = CASE out[p].op = "prepare" -> "select"
                      [] out[p].op = "peek"    -> "peek"
                      [] OTHER                 -> "srvc"
      /\ \A q \in Nodes \ {p} : main'[q] = main[q] /\ dial'[q] = dial[q]
      /\ UNCHANGED <<up, state, value, req, out, given, port, replies, log,
                     serving, answer>>
  BY DEF DialSend, TypeOK
<1>2. \/ inbox' = inbox
      \/ /\ up[Peer(p)] /\ dial'[p] = "wait"
         /\ inbox' = [inbox EXCEPT ![Peer(p)] = Append(@, m)]
  BY DEF DialSend, TypeOK
<1>3. LogC' = LogC /\ LogH' = LogH
  BY <1>1 DEF LogC, LogH
<1>4. Peer("coord") = "cohort" /\ Peer("cohort") = "coord"
  BY DEF Peer
<1>. HIDE DEF m
<1>5. p = "cohort" => inbox'["cohort"] = inbox["cohort"]
  BY <1>2, <1>4 DEF TypeOK, Nodes
<1>6. p = "coord" => \/ inbox'["cohort"] = inbox["cohort"]
                     \/ /\ inbox'["cohort"] = Append(inbox["cohort"], m)
                        /\ dial'["coord"] = "wait"
  BY <1>2, <1>4 DEF TypeOK, Nodes
<1>7. /\ Len(Append(inbox["cohort"], m)) = Len(inbox["cohort"]) + 1
      /\ Len(inbox["cohort"]) \in Nat
      /\ \A i \in 1..Len(inbox["cohort"]) :
           Append(inbox["cohort"], m)[i] = inbox["cohort"][i]
      /\ Append(inbox["cohort"], m)[Len(inbox["cohort"]) + 1] = m
  <2>1. inbox["cohort"] \in Seq(Question) /\ m \in Question
    BY <1>1 DEF TypeOK, Question, Nodes, m
  <2>. QED BY <2>1, AppendProperties, LenProperties
<1>8. DownInv'
  BY <1>1, <1>2, <1>4 DEF TwoPhaseInv, DownInv, TypeOK, Nodes
<1>9. CommitPending' => CommitPending /\ p = "cohort"
  BY <1>1 DEF CommitPending, Nodes
<1>10. YesPending' = YesPending /\ (p = "coord" => ~YesPending)
  <2>1. p = "coord" => ~YesPending
    BY <1>1 DEF YesPending, TwoPhaseInv, ExchangeInv
  <2>2. YesPending' = YesPending
    BY <1>1 DEF YesPending, Nodes
  <2>. QED BY <2>1, <2>2
<1>11. Starting' = Starting
  BY <1>1 DEF TwoPhaseInv, MemoryInv, Starting, Nodes
<1>12. MemoryInv'
  BY <1>1, <1>3, <1>9, <1>11 DEF TwoPhaseInv, MemoryInv, RecoveryFaithful, Starting, Nodes
<1>13. ExchangeInv'
  <2>1. CASE inbox'["cohort"] = inbox["cohort"] /\ p = "coord"
    <3>1. dial["coord"] = "recv" /\ Hung("cohort")' = Hung("cohort")
      BY <1>1, <2>1 DEF Hung, Nodes
    <3>. QED
      BY <1>1, <2>1, <3>1 DEF TwoPhaseInv, ExchangeInv
  <2>2. CASE p = "cohort"
    <3>1. dial'["coord"] = dial["coord"] /\ ~Hung("cohort")
      BY <1>1, <2>2 DEF Hung, Nodes
    <3>. QED
      BY <1>1, <1>5, <2>2, <3>1 DEF TwoPhaseInv, ExchangeInv
  <2>3. CASE p = "coord" /\ inbox'["cohort"] = Append(inbox["cohort"], m)
                         /\ dial'["coord"] = "wait"
    <3>1. dial["coord"] = "recv" /\ replies["coord"] = <<>> /\ up["coord"]
      BY <1>1, <2>3 DEF TwoPhaseInv, ExchangeInv
    <3>2. Hung("cohort")' = Hung("cohort")
      BY <1>1, <2>3 DEF Hung, Nodes
    <3>3. m.from = port["coord"] /\ port["coord"] \in Nat
      BY <2>3 DEF m, TypeOK, Nodes
    <3>4. m.op = "prepare" => state["coord"] = "prep" /\ req["coord"] = m.val
      BY <1>1, <2>3 DEF m, TwoPhaseInv, MemoryInv
    <3>5. ~Hung("cohort") => \A i \in 1..Len(inbox["cohort"]) :
                               inbox["cohort"][i].from # port["coord"]
      BY <3>1 DEF TwoPhaseInv, ExchangeInv
    <3>6. \A i \in 1..Len(inbox'["cohort"]) :
            \/ /\ i \in 1..Len(inbox["cohort"])
               /\ inbox'["cohort"][i] = inbox["cohort"][i]
            \/ i = Len(inbox'["cohort"]) /\ inbox'["cohort"][i] = m
      BY <1>7, <2>3
    <3>7. \A i \in 1..Len(inbox'["cohort"]) : inbox'["cohort"][i].from <= port["coord"]
      BY <3>3, <3>6 DEF TwoPhaseInv, ExchangeInv
    <3>. QED
      BY <1>1, <2>3, <3>1, <3>2, <3>4, <3>5, <3>6, <3>7 DEF ExchangeInv
  <2>. QED BY <1>6, <2>1, <2>2, <2>3 DEF Nodes
<1>14. VoteInv'
  BY <1>1, <1>3, <1>5, <1>10 DEF TwoPhaseInv, VoteInv, Nodes
<1>15. CommitInv'
  <2>1. CASE inbox'["cohort"] = inbox["cohort"]
    BY <1>1, <1>3, <1>9, <2>1 DEF TwoPhaseInv, CommitInv
  <2>2. CASE p = "coord" /\ inbox'["cohort"] = Append(inbox["cohort"], m)
    <3>1. ~CommitPending'
      BY <1>9, <2>2
    <3>2. CASE m.op # "commit"
      BY <1>1, <1>3, <1>7, <2>2, <3>1, <3>2 DEF TwoPhaseInv, CommitInv
    <3>3. CASE m.op = "commit"
      <4>1. CommitPending
        BY <1>1, <2>2, <3>3 DEF CommitPending, m
      <4>2. inbox["cohort"] = <<>> /\ LogH.op = "yes" /\ LogH.val = LogC.val
        BY <4>1 DEF TwoPhaseInv, CommitInv, Msg
      <4>. QED
        BY <1>3, <1>7, <2>2, <3>1, <4>2 DEF CommitInv
    <3>. QED BY <3>2, <3>3
  <2>. QED BY <1>5, <1>6, <2>1, <2>2 DEF Nodes
<1>16. PeekInv'
  BY <1>1, <1>3, <1>9, <1>10, <1>11 DEF TwoPhaseInv, PeekInv, Current, Nodes
<1>17. LogAgreement'
  BY <1>1 DEF TwoPhaseInv, LogAgreement, CohortCertain
<1>. QED
  BY <1>8, <1>12, <1>13, <1>14, <1>15, <1>16, <1>17 DEF TwoPhaseInv

LEMMA InvCoordReq ==
  ASSUME TypeOK, TwoPhaseInv, LogsFit', NEW v \in Values, CoordReq(v)
  PROVE  TwoPhaseInv'
<1>1. /\ up["coord"] /\ main["coord"] = "select" /\ state["coord"] = "listening"
      /\ serving' = v /\ v # Unset
      /\ req'["coord"] = v /\ req'["cohort"] = req["cohort"]
      /\ state'["coord"] = "prep" /\ state'["cohort"] = state["cohort"]
      /\ out'["coord"] = Msg("prepare", v) /\ out'["cohort"] = out["cohort"]
      /\ main'["coord"] = "dialc" /\ main'["cohort"] = main["cohort"]
      /\ UNCHANGED <<up, value, dial, given, port, inbox, replies, drops>>
  BY ConstantsAssumption DEF CoordReq, TypeOK, Nodes
<1>2. \A q \in Nodes : Recovered(log'[q]) = Recovered(log[q])
  <2>1. WriteLog("coord", "prepare", v) /\ v \in Vals
    BY DEF CoordReq, Vals
  <2>. QED BY <2>1, WriteLogEffect DEF Decisive, Nodes
<1>3. LogC' = LogC /\ LogH' = LogH
  BY <1>2 DEF LogC, LogH, Nodes
<1>4. DownInv'
  BY <1>1 DEF TwoPhaseInv, DownInv, Nodes
<1>5. ~CommitPending' /\ YesPending' = YesPending /\ ~YesPending /\ Starting' = Starting
  BY <1>1 DEF CommitPending, YesPending, Starting, TwoPhaseInv, VoteInv, Msg
<1>6. RecoveryFaithful'
  BY <1>1, <1>2 DEF TwoPhaseInv, MemoryInv, RecoveryFaithful
<1>7. MemoryInv'
  BY <1>1, <1>3, <1>5, <1>6 DEF TwoPhaseInv, MemoryInv, Msg
<1>8. ExchangeInv'
  <2>1. Hung("cohort")' = Hung("cohort")
    BY <1>1 DEF Hung
  <2>2. ASSUME NEW i \in 1..Len(inbox["cohort"]),
               up["coord"], ~Hung("cohort"), inbox["cohort"][i].from = port["coord"]
        PROVE  inbox["cohort"][i].op # "prepare"
    BY <1>1, <2>2 DEF TwoPhaseInv, ExchangeInv
  <2>. QED
    BY <1>1, <2>1, <2>2 DEF TwoPhaseInv, ExchangeInv
<1>9. VoteInv'
  BY <1>5 DEF VoteInv
<1>10. CommitInv'
  BY <1>1, <1>3, <1>5 DEF TwoPhaseInv, CommitInv
<1>11. PeekInv'
  BY <1>1, <1>3, <1>5 DEF TwoPhaseInv, PeekInv, Current
<1>12. LogAgreement'
  BY <1>3 DEF TwoPhaseInv, LogAgreement, CohortCertain, LogC, LogH
<1>. QED
  BY <1>4, <1>7, <1>8, <1>9, <1>10, <1>11, <1>12 DEF TwoPhaseInv

(* A decision to abort, or to commit what the cohort voted for. *)
LEMMA InvDecide ==
  ASSUME TypeOK, TwoPhaseInv, LogsFit', NEW final \in {"commit", "abort"},
         state["coord"] = "prep", up["coord"], main["coord"] = "select",
         dial["coord"] = "give", Decide(final),
         final = "commit" => /\ given["coord"].op = "yes"
                             /\ value' = [value EXCEPT !["coord"] = req["coord"]],
         final = "abort" => value' = value
  PROVE  TwoPhaseInv'
<1>1. /\ state'["coord"] = "listening" /\ state'["cohort"] = state["cohort"]
      /\ out'["coord"] = Msg(final, req["coord"]) /\ out'["cohort"] = out["cohort"]
      /\ main'["coord"] = "dialc" /\ main'["cohort"] = main["cohort"]
      /\ dial'["coord"] = "recv" /\ dial'["cohort"] = dial["cohort"]
      /\ given'["cohort"] = given["cohort"]
      /\ UNCHANGED <<up, req, port, inbox, replies, serving, answer, drops>>
  BY DEF Decide, TypeOK, Nodes
<1>2. /\ Recovered(log'["coord"]) = IF final = "commit" THEN Msg("commit", req["coord"])
                                    ELSE Recovered(log["coord"])
      /\ log'["cohort"] = log["cohort"]
  <2>1. WriteLog("coord", final, req["coord"]) /\ req["coord"] \in Vals
    BY DEF Decide, TypeOK, Nodes
  <2>. QED BY <2>1, WriteLogEffect DEF Decisive, Nodes
<1>3. /\ LogC' = IF final = "commit" THEN Msg("commit", req["coord"]) ELSE LogC
      /\ LogH' = LogH
  BY <1>2 DEF LogC, LogH
<1>4. replies["coord"] = <<>>
  BY DEF TwoPhaseInv, ExchangeInv
<1>5. ~YesPending'
  BY <1>1, <1>4 DEF YesPending
<1>6. final = "commit" => /\ YesPending /\ LogH = Msg("yes", req["coord"])
                          /\ inbox["cohort"] = <<>>
  BY DEF YesPending, TwoPhaseInv, VoteInv
<1>7. (CommitPending' => final = "commit") /\ Starting' = Starting
  BY <1>1 DEF CommitPending, Starting, Msg
<1>8. DownInv'
  BY <1>1 DEF TwoPhaseInv, DownInv, Nodes
<1>9. RecoveryFaithful'
  <2>1. value'["cohort"] = value["cohort"]
    BY DEF TypeOK, Nodes
  <2>2. value'["coord"] = IF final = "commit" THEN req["coord"] ELSE value["coord"]
    BY DEF TypeOK, Nodes
  <2>. QED
    BY <1>1, <1>2, <2>1, <2>2 DEF TwoPhaseInv, MemoryInv, RecoveryFaithful, Nodes, Msg
<1>10. MemoryInv'
  BY <1>1, <1>3, <1>7, <1>9 DEF TwoPhaseInv, MemoryInv, Msg
<1>11. ExchangeInv'
  <2>1. Hung("cohort")' = Hung("cohort")
    BY <1>1 DEF Hung
  <2>. QED BY <1>1, <1>4, <2>1 DEF TwoPhaseInv, ExchangeInv
<1>12. VoteInv'
  BY <1>5 DEF VoteInv
<1>13. CommitInv'
  <2>1. CASE final = "commit"
    <3>1. \A i \in 1..Len(inbox'["cohort"]) : FALSE
      BY <1>1, <1>6, <2>1
    <3>. QED
      BY <1>1, <1>3, <1>6, <2>1, <3>1 DEF CommitInv, Msg
  <2>2. CASE final = "abort"
    BY <1>1, <1>3, <1>7, <2>2 DEF TwoPhaseInv, CommitInv
  <2>. QED BY <2>1, <2>2
<1>14. PeekInv'
  <2>1. CASE final = "commit"
    BY <1>1, <1>6, <1>7, <2>1 DEF TwoPhaseInv, PeekInv, Current
  <2>2. CASE final = "abort"
    BY <1>1, <1>3, <1>5, <1>7, <2>2 DEF TwoPhaseInv, PeekInv, Current
  <2>. QED BY <2>1, <2>2
<1>15. LogAgreement'
  <2>1. CASE final = "commit"
    BY <1>2, <1>6, <2>1 DEF LogAgreement, CohortCertain, LogH, Msg
  <2>2. CASE final = "abort"
    BY <1>2, <2>2 DEF TwoPhaseInv, LogAgreement, CohortCertain
  <2>. QED BY <2>1, <2>2
<1>. QED
  BY <1>8, <1>10, <1>11, <1>12, <1>13, <1>14, <1>15 DEF TwoPhaseInv

LEMMA InvCoordAck ==
  ASSUME TypeOK, TwoPhaseInv, CoordAck
  PROVE  TwoPhaseInv'
<1>1. /\ dial["coord"] = "give"
      /\ dial'["coord"] = "recv" /\ dial'["cohort"] = dial["cohort"]
      /\ given'["cohort"] = given["cohort"]
      /\ UNCHANGED <<up, state, value, req, main, out, port, inbox, replies, log,
                     serving, answer, drops>>
  BY DEF CoordAck, CoordTakes, TypeOK, Nodes
<1>2. LogC' = LogC /\ LogH' = LogH /\ CommitPending' = CommitPending /\ Starting' = Starting
  BY <1>1 DEF LogC, LogH, CommitPending, Starting
<1>3. YesPending' => YesPending
  BY <1>1 DEF YesPending
<1>4. DownInv'
  BY <1>1 DEF TwoPhaseInv, DownInv, Nodes
<1>5. MemoryInv'
  BY <1>1, <1>2 DEF TwoPhaseInv, MemoryInv, RecoveryFaithful
<1>6. ExchangeInv'
  <2>1. Hung("cohort")' = Hung("cohort")
    BY <1>1 DEF Hung
  <2>. QED BY <1>1, <2>1 DEF TwoPhaseInv, ExchangeInv
<1>7. VoteInv'
  BY <1>1, <1>2, <1>3 DEF TwoPhaseInv, VoteInv
<1>8. CommitInv'
  BY <1>1, <1>2 DEF TwoPhaseInv, CommitInv
<1>9. PeekInv'
  BY <1>1, <1>2, <1>3 DEF TwoPhaseInv, PeekInv, Current
<1>10. LogAgreement'
  BY <1>1 DEF TwoPhaseInv, LogAgreement, CohortCertain
<1>. QED
  BY <1>4, <1>5, <1>6, <1>7, <1>8, <1>9, <1>10 DEF TwoPhaseInv

LEMMA InvCoordAnswer ==
  ASSUME TypeOK, TwoPhaseInv, CoordAnswer
  PROVE  TwoPhaseInv'
<1>1. /\ main["coord"] = "srvc"
      /\ main'["coord"] = "select" /\ main'["cohort"] = main["cohort"]
      /\ UNCHANGED <<up, state, value, req, out, dial, given, port, inbox, replies,
                     log, drops>>
  BY DEF CoordAnswer, TypeOK, Nodes
<1>2. /\ LogC' = LogC /\ LogH' = LogH /\ Starting' = Starting
      /\ ~CommitPending' /\ YesPending' = YesPending
  BY <1>1 DEF LogC, LogH, CommitPending, Starting, YesPending
<1>3. DownInv'
  BY <1>1 DEF TwoPhaseInv, DownInv, Nodes
<1>4. MemoryInv'
  BY <1>1, <1>2 DEF TwoPhaseInv, MemoryInv, RecoveryFaithful
<1>5. ExchangeInv'
  <2>1. Hung("cohort")' = Hung("cohort")
    BY <1>1 DEF Hung
  <2>. QED BY <1>1, <2>1 DEF TwoPhaseInv, ExchangeInv
<1>6. VoteInv'
  BY <1>1, <1>2 DEF TwoPhaseInv, VoteInv
<1>7. CommitInv'
  BY <1>1, <1>2 DEF TwoPhaseInv, CommitInv
<1>8. PeekInv'
  BY <1>1, <1>2 DEF TwoPhaseInv, PeekInv, Current
<1>9. LogAgreement'
  BY <1>1 DEF TwoPhaseInv, LogAgreement, CohortCertain
<1>. QED
  BY <1>3, <1>4, <1>5, <1>6, <1>7, <1>8, <1>9 DEF TwoPhaseInv

LEMMA InvCoordPeek ==
  ASSUME TypeOK, TwoPhaseInv, CoordPeek
  PROVE  TwoPhaseInv'
<1>. DEFINE m == Msg("value", value["coord"])
<1>1. /\ up["coord"] /\ main["coord"] = "select" /\ serving = Unset
      /\ inbox'["cohort"] = inbox["cohort"] /\ inbox["coord"] # <<>>
      /\ replies'["coord"] = replies["coord"]
      /\ \/ replies'["cohort"] = replies["cohort"]
         \/ up["cohort"] /\ replies'["cohort"] = Append(replies["cohort"], m)
      /\ UNCHANGED <<up, state, value, req, main, out, dial, given, port, log,
                     serving, answer>>
  BY DEF CoordPeek, Reply, TypeOK, Nodes
<1>2. /\ LogC' = LogC /\ LogH' = LogH /\ Starting' = Starting
      /\ CommitPending' = CommitPending /\ YesPending' = YesPending
  BY <1>1 DEF LogC, LogH, CommitPending, Starting, YesPending
<1>3. ~CommitPending /\ ~YesPending /\ value["coord"] = LogC.val
  BY <1>1 DEF CommitPending, TwoPhaseInv, MemoryInv, VoteInv, RecoveryFaithful, LogC, Nodes
<1>4. DownInv'
  <2>1. up["cohort"] \/ replies'["cohort"] = replies["cohort"]
    BY <1>1
  <2>2. inbox'["cohort"] = inbox["cohort"] /\ replies'["coord"] = replies["coord"]
    BY <1>1
  <2>. QED
    BY <1>1, <2>1, <2>2 DEF TwoPhaseInv, DownInv, Nodes
<1>5. MemoryInv'
  BY <1>1, <1>2 DEF TwoPhaseInv, MemoryInv, RecoveryFaithful
<1>6. ExchangeInv'
  <2>1. Hung("cohort")' = Hung("cohort")
    BY <1>1 DEF Hung
  <2>. QED BY <1>1, <2>1 DEF TwoPhaseInv, ExchangeInv
<1>7. VoteInv'
  BY <1>2, <1>3 DEF VoteInv
<1>8. CommitInv'
  BY <1>1, <1>2 DEF TwoPhaseInv, CommitInv
<1>9. PeekInv'
  <2>1. \A i \in 1..Len(replies'["cohort"]) :
          \/ i \in 1..Len(replies["cohort"]) /\ replies'["cohort"][i] = replies["cohort"][i]
          \/ replies'["cohort"][i] = m
    <3>1. replies["cohort"] \in Seq(Response) /\ m \in Response
      BY DEF TypeOK, Response, Nodes, Msg
    <3>. QED BY <1>1, <3>1, AppendProperties, LenProperties
  <2>2. m.val = value["coord"]
    BY DEF Msg
  <2>. QED
    BY <1>1, <1>2, <1>3, <2>1, <2>2 DEF TwoPhaseInv, PeekInv, Current
<1>10. LogAgreement'
  BY <1>1 DEF TwoPhaseInv, LogAgreement, CohortCertain
<1>. QED
  BY <1>4, <1>5, <1>6, <1>7, <1>8, <1>9, <1>10 DEF TwoPhaseInv

(* What the cohort's inbox and the coordinator's replies look like after   *)
(* the cohort has taken a datagram and answered it.                        *)
LEMMA AnsweredEffect ==
  ASSUME TypeOK, TwoPhaseInv, NEW m \in Response, inbox["cohort"] # <<>>, Answered(m)
  PROVE  LET hd == Head(inbox["cohort"])
             current == up["coord"] /\ port["coord"] = hd.from
         IN /\ hd = inbox["cohort"][1] /\ 1 \in 1..Len(inbox["cohort"])
            /\ inbox'["cohort"] = Tail(inbox["cohort"])
            /\ Len(inbox'["cohort"]) = Len(inbox["cohort"]) - 1
            /\ \A i \in 1..Len(inbox'["cohort"]) :
                 i + 1 \in 1..Len(inbox["cohort"])
                 /\ inbox'["cohort"][i] = inbox["cohort"][i+1]
            /\ inbox'["coord"] = inbox["coord"]
            /\ replies'["cohort"] = replies["cohort"]
            /\ \/ replies'["coord"] = replies["coord"]
               \/ current /\ replies'["coord"] = Append(replies["coord"], m)
            /\ UNCHANGED <<up, main, out, dial, given, port, serving, answer>>
<1>1. inbox["cohort"] \in Seq(Question)
  BY DEF TypeOK, Question, Nodes
<1>2. /\ Tail(inbox["cohort"]) \in Seq(Question)
      /\ Len(Tail(inbox["cohort"])) = Len(inbox["cohort"]) - 1
      /\ \A i \in 1..Len(Tail(inbox["cohort"])) :
           Tail(inbox["cohort"])[i] = inbox["cohort"][i+1]
      /\ Len(inbox["cohort"]) \in Nat \ {0}
  BY <1>1, HeadTailProperties, EmptySeq
<1>3. Head(inbox["cohort"]) = inbox["cohort"][1]
  BY <1>1
<1>4. inbox'["cohort"] = Tail(inbox["cohort"]) /\ inbox'["coord"] = inbox["coord"]
  BY DEF Answered, TypeOK, Nodes
<1>5. /\ replies'["cohort"] = replies["cohort"]
      /\ \/ replies'["coord"] = replies["coord"]
         \/ /\ up["coord"] /\ port["coord"] = Head(inbox["cohort"]).from
            /\ replies'["coord"] = Append(replies["coord"], m)
  BY DEF Answered, Reply, TypeOK, Nodes
<1>6. 1 \in 1..Len(inbox["cohort"])
      /\ \A i \in 1..Len(Tail(inbox["cohort"])) : i + 1 \in 1..Len(inbox["cohort"])
  BY <1>2
<1>7. UNCHANGED <<up, main, out, dial, given, port, serving, answer>>
  BY DEF Answered
<1>. QED
  BY <1>2, <1>3, <1>4, <1>5, <1>6, <1>7

LEMMA ExchangeAnswered ==
  ASSUME TypeOK, TwoPhaseInv, NEW m \in Response, inbox["cohort"] # <<>>, Answered(m),
         main["cohort"] = "select",
         state'["coord"] = state["coord"], req'["coord"] = req["coord"]
  PROVE  /\ ExchangeInv'
         /\ DownInv'
         /\ ~YesPending
         /\ YesPending' =>
              /\ m.op = "yes" /\ inbox'["cohort"] = <<>>
              /\ Head(inbox["cohort"]).op = "prepare" =>
                   /\ state["coord"] = "prep"
                   /\ req["coord"] = Head(inbox["cohort"]).val
<1>. DEFINE hd == Head(inbox["cohort"])
            current == up["coord"] /\ port["coord"] = hd.from
<1>1. /\ hd = inbox["cohort"][1] /\ 1 \in 1..Len(inbox["cohort"])
      /\ Len(inbox'["cohort"]) = Len(inbox["cohort"]) - 1
      /\ \A i \in 1..Len(inbox'["cohort"]) :
           i + 1 \in 1..Len(inbox["cohort"]) /\ inbox'["cohort"][i] = inbox["cohort"][i+1]
      /\ replies'["cohort"] = replies["cohort"]
      /\ inbox'["coord"] = inbox["coord"]
      /\ \/ replies'["coord"] = replies["coord"]
         \/ current /\ replies'["coord"] = Append(replies["coord"], m)
      /\ UNCHANGED <<up, main, out, dial, given, port, serving, answer>>
  BY AnsweredEffect
<1>2. ~Hung("cohort") /\ Hung("cohort")' = Hung("cohort")
  BY <1>1 DEF Hung
<1>3. current => /\ Len(inbox["cohort"]) = 1
                 /\ dial["coord"] = "wait" /\ replies["coord"] = <<>>
                 /\ hd.op = "prepare" => state["coord"] = "prep" /\ req["coord"] = hd.val
  BY <1>1, <1>2 DEF TwoPhaseInv, ExchangeInv
<1>4. replies["coord"] = <<>> => /\ Len(Append(replies["coord"], m)) = 1
                                 /\ Append(replies["coord"], m)[1] = m
  OBVIOUS
<1>5. ExchangeInv'
  <2>1. \A i \in 1..Len(inbox'["cohort"]) : inbox'["cohort"][i].from <= port'["coord"]
    BY <1>1 DEF TwoPhaseInv, ExchangeInv
  <2>2. replies'["coord"] # <<>> =>
          Len(replies'["coord"]) = 1 /\ dial'["coord"] = "wait"
    BY <1>1, <1>3, <1>4 DEF TwoPhaseInv, ExchangeInv
  <2>3. ASSUME NEW i \in 1..Len(inbox'["cohort"]), up["coord"],
               inbox'["cohort"][i].from = port["coord"]
        PROVE  /\ i = Len(inbox'["cohort"])
               /\ dial["coord"] = "wait" /\ replies'["coord"] = <<>>
               /\ inbox'["cohort"][i].op = "prepare" =>
                    state["coord"] = "prep" /\ req["coord"] = inbox'["cohort"][i].val
    <3>1. ~current
      BY <1>1, <1>3
    <3>2. /\ i + 1 = Len(inbox["cohort"])
          /\ dial["coord"] = "wait" /\ replies["coord"] = <<>>
          /\ inbox["cohort"][i+1].op = "prepare" =>
               state["coord"] = "prep" /\ req["coord"] = inbox["cohort"][i+1].val
      BY <1>1, <1>2, <2>3 DEF TwoPhaseInv, ExchangeInv
    <3>. QED BY <1>1, <3>1, <3>2
  <2>. QED BY <1>1, <2>1, <2>2, <2>3 DEF ExchangeInv
<1>6. ~YesPending
  BY DEF TwoPhaseInv, VoteInv
<1>7. YesPending' => current /\ m.op = "yes" /\ inbox'["cohort"] = <<>>
  <2>1. SUFFICES ASSUME YesPending' PROVE current /\ m.op = "yes" /\ inbox'["cohort"] = <<>>
    OBVIOUS
  <2>2. current /\ replies'["coord"] = Append(replies["coord"], m)
    BY <1>1, <1>6, <2>1 DEF YesPending
  <2>3. m.op = "yes"
    <3>1. ~(dial'["coord"] = "give")
      BY <1>1, <1>3, <2>2
    <3>. QED BY <1>3, <1>4, <2>1, <2>2, <3>1 DEF YesPending
  <2>4. inbox'["cohort"] = <<>>
    <3>1. inbox["cohort"] \in Seq(Question)
      BY DEF TypeOK, Question, Nodes
    <3>2. inbox'["cohort"] = Tail(inbox["cohort"])
      BY AnsweredEffect
    <3>3. inbox'["cohort"] \in Seq(Question) /\ Len(inbox'["cohort"]) = 0
      BY <1>1, <1>3, <2>2, <3>1, <3>2, HeadTailProperties
    <3>. QED BY <3>3, EmptySeq
  <2>. QED BY <2>2, <2>3, <2>4
<1>8. DownInv'
  <2>1. up["cohort"]
    BY DEF TwoPhaseInv, DownInv, Nodes
  <2>2. ~up["coord"] => replies'["coord"] = replies["coord"]
    BY <1>1
  <2>. QED
    BY <1>1, <2>1, <2>2 DEF TwoPhaseInv, DownInv, Nodes
<1>9. current => (hd.op = "prepare" => state["coord"] = "prep" /\ req["coord"] = hd.val)
  BY <1>3
<1>. QED BY <1>5, <1>6, <1>7, <1>8, <1>9

(* The cohort's handlers of the coordinator's messages. *)
LEMMA InvCohortPrepare ==
  ASSUME TypeOK, TwoPhaseInv, LogsFit', CohortPrepare
  PROVE  TwoPhaseInv'
<1>. DEFINE hd == Head(inbox["cohort"])
<1>1. /\ up["cohort"] /\ main["cohort"] = "select" /\ inbox["cohort"] # <<>>
      /\ hd.op = "prepare" /\ state["cohort"] = "listening" /\ value' = value
  BY DEF CohortPrepare, CohortTakes
<1>2. PICK agree \in {"yes", "no"} :
        /\ req' = [req EXCEPT !["cohort"] = hd.val]
        /\ WriteLog("cohort", agree, hd.val)
        /\ state' = [state EXCEPT !["cohort"] =
                       IF agree = "yes" THEN "uncertain" ELSE "listening"]
        /\ Answered(Msg(agree, hd.val))
  BY DEF CohortPrepare
<1>3. hd \in Question
  <2>1. inbox["cohort"] \in Seq(Question)
    BY DEF TypeOK, Question, Nodes
  <2>. QED BY <1>1, <2>1, HeadTailProperties
<1>4. Msg(agree, hd.val) \in Response /\ Msg(agree, hd.val).op = agree
  BY <1>3 DEF Response, Question, Msg
<1>5. /\ req'["cohort"] = hd.val /\ req'["coord"] = req["coord"]
      /\ state'["cohort"] = IF agree = "yes" THEN "uncertain" ELSE "listening"
      /\ state'["coord"] = state["coord"]
  BY <1>2 DEF TypeOK, Nodes
<1>6. /\ Recovered(log'["cohort"]) = IF agree = "yes" THEN Msg("yes", hd.val)
                                     ELSE Recovered(log["cohort"])
      /\ log'["coord"] = log["coord"]
  BY <1>2, <1>3, WriteLogEffect DEF Decisive, Question, Nodes
<1>7. LogC' = LogC /\ LogH' = IF agree = "yes" THEN Msg("yes", hd.val) ELSE LogH
  BY <1>6 DEF LogC, LogH
<1>8. /\ hd = inbox["cohort"][1] /\ 1 \in 1..Len(inbox["cohort"])
      /\ \A i \in 1..Len(inbox'["cohort"]) :
           i + 1 \in 1..Len(inbox["cohort"]) /\ inbox'["cohort"][i] = inbox["cohort"][i+1]
      /\ replies'["cohort"] = replies["cohort"]
      /\ UNCHANGED <<up, main, out, dial, given, port, serving, answer>>
  BY <1>1, <1>2, <1>4, AnsweredEffect
<1>9. /\ ExchangeInv' /\ DownInv' /\ ~YesPending
      /\ YesPending' => /\ agree = "yes" /\ inbox'["cohort"] = <<>>
                        /\ state["coord"] = "prep" /\ req["coord"] = hd.val
  BY <1>1, <1>2, <1>4, <1>5, ExchangeAnswered
<1>10. ~CommitPending' /\ ~CommitPending /\ ~Starting' /\ ~Starting
  BY <1>1, <1>8 DEF CommitPending, Starting, TwoPhaseInv, CommitInv
<1>11. RecoveryFaithful'
  BY <1>1, <1>6, <1>8 DEF TwoPhaseInv, MemoryInv, RecoveryFaithful, Msg, Nodes
<1>12. MemoryInv'
  BY <1>1, <1>5, <1>7, <1>8, <1>10, <1>11 DEF TwoPhaseInv, MemoryInv, Msg
<1>13. VoteInv'
  BY <1>5, <1>7, <1>9 DEF VoteInv
<1>14. CommitInv'
  BY <1>8, <1>10 DEF TwoPhaseInv, CommitInv
<1>15. PeekInv'
  BY <1>10 DEF PeekInv
<1>16. LogAgreement'
  BY <1>6 DEF TwoPhaseInv, LogAgreement, CohortCertain, Msg
<1>. QED
  BY <1>9, <1>12, <1>13, <1>14, <1>15, <1>16 DEF TwoPhaseInv

LEMMA InvCohortDecided ==
  ASSUME TypeOK, TwoPhaseInv, LogsFit', CohortCommit \/ CohortAbort
  PROVE  TwoPhaseInv'
<1>. DEFINE hd == Head(inbox["cohort"])
<1>1. /\ up["cohort"] /\ main["cohort"] = "select" /\ inbox["cohort"] # <<>>
      /\ hd.op \in {"commit", "abort"}
      /\ Answered(Msg("ack", Unset)) /\ req' = req
      /\ WriteLog("cohort", hd.op, req["cohort"])
      /\ state' = [state EXCEPT !["cohort"] = "listening"]
      /\ hd.op = "commit" => state["cohort"] = "uncertain"
      /\ value' = IF hd.op = "commit" THEN [value EXCEPT !["cohort"] = req["cohort"]]
                                      ELSE value
  BY DEF CohortCommit, CohortAbort, CohortTakes
<1>2. Msg("ack", Unset) \in Response /\ Msg("ack", Unset).op = "ack"
  BY DEF Response, Msg, Vals
<1>3. /\ state'["cohort"] = "listening" /\ state'["coord"] = state["coord"]
      /\ value'["coord"] = value["coord"]
      /\ value'["cohort"] = IF hd.op = "commit" THEN req["cohort"] ELSE value["cohort"]
  BY <1>1 DEF TypeOK, Nodes
<1>4. /\ Recovered(log'["cohort"]) = IF hd.op = "commit" THEN Msg("commit", req["cohort"])
                                     ELSE Recovered(log["cohort"])
      /\ log'["coord"] = log["coord"]
  <2>1. req["cohort"] \in Vals
    BY DEF TypeOK, Nodes
  <2>. QED BY <1>1, <2>1, WriteLogEffect DEF Decisive, Nodes
<1>5. LogC' = LogC /\ LogH' = IF hd.op = "commit" THEN Msg("commit", req["cohort"]) ELSE LogH
  BY <1>4 DEF LogC, LogH
<1>6. /\ hd = inbox["cohort"][1] /\ 1 \in 1..Len(inbox["cohort"])
      /\ \A i \in 1..Len(inbox'["cohort"]) :
           i + 1 \in 1..Len(inbox["cohort"]) /\ inbox'["cohort"][i] = inbox["cohort"][i+1]
      /\ replies'["cohort"] = replies["cohort"]
      /\ UNCHANGED <<up, main, out, dial, given, port, serving, answer>>
  BY <1>1, <1>2, AnsweredEffect
<1>7. ExchangeInv' /\ DownInv' /\ ~YesPending /\ ~YesPending'
  BY <1>1, <1>2, <1>3, ExchangeAnswered
<1>8. ~CommitPending' /\ ~CommitPending /\ ~Starting' /\ ~Starting
  BY <1>1, <1>6 DEF CommitPending, Starting, TwoPhaseInv, CommitInv
(* A commit meets a cohort that voted for what the coordinator committed. *)
<1>9. hd.op = "commit" => req["cohort"] = LogH.val /\ LogH.val = LogC.val
  BY <1>1, <1>6, <1>8 DEF TwoPhaseInv, CommitInv, MemoryInv
<1>10. RecoveryFaithful'
  BY <1>1, <1>3, <1>4, <1>6 DEF TwoPhaseInv, MemoryInv, RecoveryFaithful, Msg, Nodes
<1>11. MemoryInv'
  BY <1>1, <1>3, <1>5, <1>6, <1>8, <1>10 DEF TwoPhaseInv, MemoryInv, Msg
<1>12. VoteInv'
  BY <1>7 DEF VoteInv
<1>13. CommitInv'
  BY <1>6, <1>8 DEF TwoPhaseInv, CommitInv
<1>14. PeekInv'
  BY <1>8 DEF PeekInv
<1>15. LogAgreement'
  BY <1>4, <1>9 DEF TwoPhaseInv, LogAgreement, CohortCertain, Msg, LogC
<1>. QED
  BY <1>7, <1>11, <1>12, <1>13, <1>14, <1>15 DEF TwoPhaseInv

LEMMA InvCohortLearn ==
  ASSUME TypeOK, TwoPhaseInv, LogsFit', CohortLearn
  PROVE  TwoPhaseInv'
<1>. DEFINE v == given["cohort"].val
<1>1. /\ up["cohort"] /\ main["cohort"] = "peek"
      /\ dial["cohort"] = "give" /\ given["cohort"].op = "value"
      /\ value'["cohort"] = v /\ value'["coord"] = value["coord"]
      /\ state'["cohort"] = "listening" /\ state'["coord"] = state["coord"]
      /\ main'["cohort"] = "select" /\ main'["coord"] = main["coord"]
      /\ dial'["cohort"] = "recv" /\ dial'["coord"] = dial["coord"]
      /\ given'["coord"] = given["coord"] /\ out'["coord"] = out["coord"]
      /\ UNCHANGED <<up, req, port, inbox, replies, serving, answer, drops>>
  BY DEF CohortLearn, TypeOK, Nodes
<1>2. /\ Recovered(log'["cohort"]) = Msg("commit", v)
      /\ log'["coord"] = log["coord"]
  <2>1. WriteLog("cohort", "commit", v) /\ v \in Vals
    BY DEF CohortLearn, TypeOK, Nodes
  <2>. QED BY <2>1, WriteLogEffect DEF Decisive, Nodes
<1>3. LogC' = LogC /\ LogH' = Msg("commit", v)
  BY <1>2 DEF LogC, LogH
(* The value peeked at is still the committed one. *)
<1>4. v = LogC.val /\ ~YesPending /\ ~CommitPending
  BY <1>1 DEF TwoPhaseInv, PeekInv, Current, Starting
<1>5. YesPending' = YesPending /\ CommitPending' = CommitPending /\ ~Starting'
  BY <1>1 DEF YesPending, CommitPending, Starting
<1>6. DownInv'
  BY <1>1 DEF TwoPhaseInv, DownInv, Nodes
<1>7. RecoveryFaithful'
  BY <1>1, <1>2 DEF TwoPhaseInv, MemoryInv, RecoveryFaithful, Msg, Nodes
<1>8. MemoryInv'
  BY <1>1, <1>3, <1>4, <1>5, <1>7 DEF TwoPhaseInv, MemoryInv
<1>9. ExchangeInv'
  <2>1. ~Hung("cohort")
    BY <1>1 DEF Hung
  <2>. QED BY <1>1, <2>1 DEF TwoPhaseInv, ExchangeInv
<1>10. VoteInv'
  BY <1>4, <1>5 DEF VoteInv
<1>11. CommitInv'
  BY <1>1, <1>3, <1>4, <1>5 DEF TwoPhaseInv, CommitInv, Msg
<1>12. PeekInv'
  BY <1>5 DEF PeekInv
<1>13. LogAgreement'
  BY <1>2, <1>4 DEF LogAgreement, Msg, LogC
<1>. QED
  BY <1>6, <1>8, <1>9, <1>10, <1>11, <1>12, <1>13 DEF TwoPhaseInv

LEMMA InvCohortPeekTimer ==
  ASSUME TypeOK, TwoPhaseInv, CohortPeekTimer
  PROVE  TwoPhaseInv'
<1>1. /\ up["cohort"] /\ main["cohort"] = "peek"
      /\ main'["cohort"] = "dialc" /\ main'["coord"] = main["coord"]
      /\ UNCHANGED <<up, state, value, req, out, dial, given, port, inbox, replies,
                     log, serving, answer, drops>>
  BY DEF CohortPeekTimer, TypeOK, Nodes
<1>2. /\ LogC' = LogC /\ LogH' = LogH /\ YesPending' = YesPending
      /\ CommitPending' = CommitPending /\ Starting' = Starting
  BY <1>1 DEF LogC, LogH, YesPending, CommitPending, Starting
<1>3. DownInv'
  BY <1>1 DEF TwoPhaseInv, DownInv, Nodes
<1>4. MemoryInv'
  BY <1>1, <1>2 DEF TwoPhaseInv, MemoryInv, RecoveryFaithful
<1>5. ExchangeInv'
  <2>1. ~Hung("cohort")
    BY <1>1 DEF Hung
  <2>. QED BY <1>1, <2>1 DEF TwoPhaseInv, ExchangeInv
<1>6. VoteInv' /\ CommitInv' /\ PeekInv' /\ LogAgreement'
  BY <1>1, <1>2
  DEF TwoPhaseInv, VoteInv, CommitInv, PeekInv, Current, LogAgreement, CohortCertain
<1>. QED
  BY <1>3, <1>4, <1>5, <1>6 DEF TwoPhaseInv

-----------------------------------------------------------------------------

(* Logs only grow: if they fit after a step, they did before it. *)
LEMMA LogsFitBefore ==
  ASSUME TypeOK, LogsFit', [Next]_vars
  PROVE  LogsFit
<1>1. CASE log' = log
  BY <1>1 DEF LogsFit
<1>2. ASSUME NEW p \in Nodes, NEW v \in Vals,
             NEW o \in {"START", "prepare", "yes", "no", "commit", "abort"},
             WriteLog(p, o, v)
      PROVE  LogsFit
  BY <1>2, WriteLogEffect
<1>3. ASSUME NEW p \in Nodes, Start(p) PROVE LogsFit
  <2>1. Recovered(log[p]).val \in Vals
    BY RecoveredType DEF TypeOK, LogRec
  <2>. QED BY <1>2, <1>3, <2>1 DEF Start
<1>4. ASSUME NEW v \in Values, CoordReq(v) PROVE LogsFit
  BY <1>2, <1>4 DEF CoordReq, Vals, Nodes
<1>5. CASE CoordMain
  <2>1. req["coord"] \in Vals
    BY DEF TypeOK, Nodes
  <2>. QED
    BY <1>1, <1>2, <1>5, <2>1 DEF CoordMain, CoordYes, CoordNo, Decide, CoordAck,
       CoordPanic, Down, CoordAnswer, CoordPeek, Nodes
<1>6. CASE CohortMain
  <2>1. req["cohort"] \in Vals /\ given["cohort"].val \in Vals
    BY DEF TypeOK, Nodes
  <2>2. CASE CohortPrepare
    <3>1. inbox["cohort"] # <<>> /\ inbox["cohort"] \in Seq(Question)
      BY <2>2 DEF CohortPrepare, CohortTakes, TypeOK, Question, Nodes
    <3>2. Head(inbox["cohort"]).val \in Vals
      <4>1. Head(inbox["cohort"]) \in Question
        BY <3>1, HeadTailProperties
      <4>. QED BY <4>1 DEF Question
    <3>3. PICK agree \in {"yes", "no"} :
            WriteLog("cohort", agree, Head(inbox["cohort"]).val)
      BY <2>2 DEF CohortPrepare
    <3>. QED BY <1>2, <3>2, <3>3 DEF Nodes
  <2>3. CASE CohortCommit \/ CohortAbort
    BY <1>2, <2>1, <2>3 DEF CohortCommit, CohortAbort, Nodes
  <2>4. CASE CohortFatal \/ CohortPeekTimer
    BY <1>1, <2>4 DEF CohortFatal, Down, CohortPeekTimer
  <2>5. CASE CohortLearn
    BY <1>2, <2>1, <2>5 DEF CohortLearn, Nodes
  <2>. QED
    BY <1>6, <2>2, <2>3, <2>4, <2>5 DEF CohortMain
<1>7. ASSUME NEW p \in Nodes, Crash(p) \/ Dial(p) PROVE LogsFit
  BY <1>1, <1>7 DEF Crash, Down, Dial, DialSend, DialPanic, DialReply, DialTimeout
<1>8. CASE UNCHANGED vars
  BY <1>1, <1>8 DEF vars
<1>. QED
  BY <1>3, <1>4, <1>5, <1>6, <1>7, <1>8 DEF Next

LEMMA InvNext ==
  ASSUME TypeOK, TwoPhaseInv, Prompt, LogsFit', [Next]_vars
  PROVE  TwoPhaseInv'
<1>1. CASE CoordMain
  <2>1. CASE CoordYes
    <3>1. CASE Decide("commit") /\ value' = [value EXCEPT !["coord"] = req["coord"]]
      BY <2>1, <3>1, InvDecide DEF CoordYes, CoordTakes
    <3>2. CASE Decide("abort") /\ UNCHANGED value
      BY <2>1, <3>2, InvDecide DEF CoordYes, CoordTakes
    <3>. QED BY <2>1, <3>1, <3>2 DEF CoordYes
  <2>2. CASE CoordNo
    BY <2>2, InvDecide DEF CoordNo, CoordTakes
  <2>3. CASE CoordPanic
    BY <2>3, InvDown DEF CoordPanic, Nodes
  <2>. QED
    BY <1>1, <2>1, <2>2, <2>3, InvCoordAck, InvCoordAnswer, InvCoordPeek DEF CoordMain
<1>2. CASE CohortMain
  BY <1>2, InvCohortPrepare, InvCohortDecided, InvDown, InvCohortLearn, InvCohortPeekTimer
  DEF CohortMain, CohortFatal, Nodes
<1>3. ASSUME NEW p \in Nodes, Start(p) \/ Crash(p) \/ Dial(p)
      PROVE  TwoPhaseInv'
  BY <1>3, InvStart, InvDown, InvDialSend, InvDialReply, InvDialTimeout
  DEF Crash, Dial, DialPanic
<1>4. CASE UNCHANGED vars
  BY <1>4 DEF vars, TwoPhaseInv, DownInv, MemoryInv, RecoveryFaithful, ExchangeInv, Hung,
     VoteInv, CommitInv, PeekInv, Current, LogAgreement, CohortCertain, Starting,
     YesPending, CommitPending, LogC, LogH
<1>. QED
  BY <1>1, <1>2, <1>3, <1>4, InvCoordReq DEF Next

(* Two-phase commit keeps its invariant as long as answers are prompt and  *)
(* the logs fit the window that recovery reads.                            *)
THEOREM TwoPhaseInvariant == Spec => [](Prompt /\ LogsFit => TwoPhaseInv)
<1>. DEFINE Inv == Prompt /\ LogsFit => TwoPhaseInv
<1>1. Init => Inv
  BY InvInit
<1>2. TypeOK /\ Inv /\ [Next]_vars => Inv'
  BY LogsFitBefore, InvNext
<1>. QED
  BY <1>1, <1>2, TwoPhaseTypeOK, PTL DEF Spec

(* The participants have the same committed value in their logs whenever   *)
(* the cohort's log is not uncertain (2pc/node.go:56-57).                  *)
THEOREM LogsAgree == Spec => [](Prompt /\ LogsFit => LogAgreement)
<1>1. TwoPhaseInv => LogAgreement
  BY DEF TwoPhaseInv
<1>. QED
  BY <1>1, TwoPhaseInvariant, PTL

(* The initial states and the steps of the two logs are those of           *)
(* AtomicChange.                                                           *)
LEMMA AtomicInit == Init => Atomic!Init
  BY DEF Init, Atomic!Init, Recovered, LastMark, Marks, CohortCertain, Msg, Nodes

LEMMA CommitsOnlyOnYes ==
  ASSUME TypeOK, LogsFit', [Next]_vars, ~CoordYes
  PROVE  LogC' = LogC
<1>1. SUFFICES log'["coord"] = log["coord"]
               \/ \E o \in {"START", "prepare", "abort"}, v \in Vals : WriteLog("coord", o, v)
  <2>1. ASSUME NEW o \in {"START", "prepare", "abort"}, NEW v \in Vals,
               WriteLog("coord", o, v)
        PROVE  LogC' = LogC
    BY <2>1, WriteLogEffect DEF LogC, Decisive, Nodes
  <2>2. ASSUME log'["coord"] = log["coord"] PROVE LogC' = LogC
    BY <2>2 DEF LogC
  <2>. QED BY <2>1, <2>2
<1>2. ASSUME NEW p \in Nodes, Start(p)
      PROVE  log'["coord"] = log["coord"] \/ \E v \in Vals : WriteLog("coord", "START", v)
  <2>1. Recovered(log[p]).val \in Vals
    BY RecoveredType DEF TypeOK, LogRec
  <2>2. WriteLog(p, "START", Recovered(log[p]).val)
    BY <1>2 DEF Start
  <2>3. p = "cohort" => log'["coord"] = log["coord"]
    BY <2>2 DEF WriteLog, TypeOK, Nodes
  <2>. QED BY <2>1, <2>2, <2>3 DEF Nodes
<1>3. ASSUME NEW v \in Values, CoordReq(v)
      PROVE  v \in Vals /\ WriteLog("coord", "prepare", v)
  BY <1>3 DEF CoordReq, Vals
<1>4. CoordNo => req["coord"] \in Vals /\ WriteLog("coord", "abort", req["coord"])
  BY DEF CoordNo, Decide, TypeOK, Nodes
<1>5. CoordAck \/ CoordPanic \/ CoordAnswer \/ CoordPeek => log' = log
  BY DEF CoordAck, CoordPanic, Down, CoordAnswer, CoordPeek
<1>6. CohortMain => log'["coord"] = log["coord"]
  <2>1. ASSUME NEW o, NEW v, WriteLog("cohort", o, v) PROVE log'["coord"] = log["coord"]
    BY <2>1 DEF WriteLog, TypeOK, Nodes
  <2>2. CohortFatal \/ CohortPeekTimer => log' = log
    BY DEF CohortFatal, Down, CohortPeekTimer
  <2>3. CohortPrepare => log'["coord"] = log["coord"]
    BY <2>1 DEF CohortPrepare
  <2>4. CohortCommit \/ CohortAbort \/ CohortLearn => log'["coord"] = log["coord"]
    BY <2>1 DEF CohortCommit, CohortAbort, CohortLearn
  <2>. QED BY <2>2, <2>3, <2>4 DEF CohortMain
<1>7. ASSUME NEW p \in Nodes, Crash(p) \/ Dial(p) PROVE log' = log
  BY <1>7 DEF Crash, Down, Dial, DialSend, DialPanic, DialReply, DialTimeout
<1>8. UNCHANGED vars => log' = log
  BY DEF vars
<1>. QED
  BY <1>2, <1>3, <1>4, <1>5, <1>6, <1>7, <1>8 DEF Next, CoordMain

(* Every step of the system is a step of AtomicChange or a stutter. *)
LEMMA AtomicStep ==
  ASSUME TypeOK, TwoPhaseInv, TwoPhaseInv', LogsFit', [Next]_vars
  PROVE  [Atomic!Next]_Atomic!vars
<1>. DEFINE view == IF LogH.op = "commit" THEN LogH.val ELSE "uncertain"
<1>1. /\ Atomic!Next <=> \/ view' = "uncertain" /\ (LogC.val)' = LogC.val
                         \/ view' = (LogC.val)' /\ (LogC.val)' = LogC.val
                         \/ \E v \in Values : /\ view = "uncertain" /\ view' = view
                                              /\ (LogC.val)' = v
      /\ Atomic!vars = <<LogC.val, view>>
      /\ (Atomic!vars)' = <<(LogC.val)', view'>>
  BY DEF Atomic!Next, Atomic!Blind, Atomic!See, Atomic!Change, Atomic!vars, CohortCertain,
     LogC, LogH
<1>2. view' \in {"uncertain", (LogC.val)'}
  BY DEF TwoPhaseInv, LogAgreement, CohortCertain, LogC, LogH
<1>4. CASE CoordYes
  <2>1. PICK final \in {"commit", "abort"} : Decide(final)
    BY <1>4 DEF CoordYes
  <2>2. state["coord"] = "prep" /\ dial["coord"] = "give" /\ given["coord"].op = "yes"
    BY <1>4 DEF CoordYes, CoordTakes
  <2>3. req["coord"] \in Values
    BY <2>2 DEF TwoPhaseInv, MemoryInv, TypeOK, Vals, Nodes
  <2>4. /\ log'["cohort"] = log["cohort"]
        /\ LogC' = IF final = "commit" THEN Msg("commit", req["coord"]) ELSE LogC
    <3>1. WriteLog("coord", final, req["coord"]) /\ req["coord"] \in Vals
      BY <2>1, <2>3 DEF Decide, Vals
    <3>. QED BY <3>1, WriteLogEffect DEF LogC, Decisive, Nodes
  <2>5. LogH' = LogH /\ LogH.op = "yes"
    BY <2>2, <2>4 DEF LogH, TwoPhaseInv, VoteInv, YesPending, Msg
  <2>6. view' = view /\ view = "uncertain"
    BY <2>5
  <2>. QED BY <1>1, <1>2, <2>3, <2>4, <2>6 DEF Msg
<1>5. CASE ~CoordYes
  <2>1. LogC' = LogC
    BY <1>5, CommitsOnlyOnYes
  <2>. QED BY <1>1, <1>2, <2>1
<1>. QED BY <1>4, <1>5

(* The two logs implement an atomic change of one value, seen by a         *)
(* participant that knows when it is uncertain (2pc/node.go:3-14).         *)
THEOREM LogsChangeAtomically == Spec /\ [](Prompt /\ LogsFit) => AppearsAtomic
<1>1. [](Prompt /\ LogsFit => TwoPhaseInv) /\ [](Prompt /\ LogsFit) => []TwoPhaseInv
  BY PTL
<1>2. TypeOK /\ TwoPhaseInv /\ TwoPhaseInv' /\ LogsFit' /\ [Next]_vars
        => [Atomic!Next]_Atomic!vars
  BY AtomicStep
<1>3. [](Prompt /\ LogsFit) => []LogsFit
  BY PTL
<1>. QED
  BY <1>1, <1>2, <1>3, AtomicInit, TwoPhaseTypeOK, TwoPhaseInvariant, PTL
  DEF Spec, AppearsAtomic, Atomic!Spec

LEMMA FaithfulStep ==
  ASSUME TypeOK, RecoveryFaithful, LogsFit', [Next]_vars
  PROVE  RecoveryFaithful'
<1>. DEFINE Same(p) == up'[p] = up[p] /\ value'[p] = value[p] /\ log'[p] = log[p]
            Faithful(p) == up[p] /\ Recovered(log[p]).op = "commit" =>
                             value[p] = Recovered(log[p]).val
<1>1. ASSUME NEW p \in Nodes, Same(p) PROVE Faithful(p)'
  BY <1>1 DEF RecoveryFaithful
<1>2. ASSUME NEW p \in Nodes, Down(p) PROVE RecoveryFaithful'
  BY <1>2 DEF Down, RecoveryFaithful, TypeOK
<1>3. ASSUME NEW p \in Nodes, NEW v \in Vals,
             NEW o \in {"START", "prepare", "yes", "no", "commit", "abort"},
             WriteLog(p, o, v),
             \A q \in Nodes \ {p} : up'[q] = up[q] /\ value'[q] = value[q],
             \/ o = "commit" /\ value'[p] = v
             \/ o = "yes"
             \/ o = "START" /\ value'[p] = Recovered(log[p]).val
             \/ o \in {"prepare", "no", "abort"} /\ up'[p] = up[p] /\ value'[p] = value[p]
      PROVE  RecoveryFaithful'
  <2>1. /\ Recovered(log'[p]) = IF o \in {"commit", "yes"} THEN Msg(o, v)
                                                           ELSE Recovered(log[p])
        /\ \A q \in Nodes : q # p => log'[q] = log[q]
    BY <1>3, WriteLogEffect DEF Decisive
  <2>2. Faithful(p)'
    <3>1. CASE o \in {"commit", "yes"}
      BY <1>3, <2>1, <3>1 DEF Msg
    <3>2. CASE o = "START"
      BY <1>3, <2>1, <3>2
    <3>3. CASE o \in {"prepare", "no", "abort"}
      <4>1. up'[p] = up[p] /\ value'[p] = value[p]
        BY <1>3, <3>3
      <4>2. Recovered(log'[p]) = Recovered(log[p])
        BY <2>1, <3>3
      <4>. QED BY <4>1, <4>2 DEF RecoveryFaithful
    <3>. QED BY <3>1, <3>2, <3>3
  <2>3. ASSUME NEW q \in Nodes, q # p PROVE Faithful(q)'
    BY <1>1, <1>3, <2>1, <2>3
  <2>. QED BY <2>2, <2>3 DEF RecoveryFaithful
<1>4. ASSUME NEW p \in Nodes, Start(p) PROVE RecoveryFaithful'
  <2>1. Recovered(log[p]).val \in Vals
    BY RecoveredType DEF TypeOK, LogRec
  <2>2. /\ WriteLog(p, "START", Recovered(log[p]).val)
        /\ value'[p] = Recovered(log[p]).val
        /\ \A q \in Nodes \ {p} : up'[q] = up[q] /\ value'[q] = value[q]
    BY <1>4 DEF Start, TypeOK
  <2>. QED BY <1>3, <2>1, <2>2
<1>5. ASSUME NEW v \in Values, CoordReq(v) PROVE RecoveryFaithful'
  <2>1. WriteLog("coord", "prepare", v) /\ v \in Vals /\ up' = up /\ value' = value
    BY <1>5 DEF CoordReq, Vals
  <2>. QED BY <1>3, <2>1 DEF Nodes
<1>6. CASE CoordMain
  <2>1. CASE CoordYes \/ CoordNo
    <3>1. PICK o \in {"commit", "abort"} :
            /\ WriteLog("coord", o, req["coord"]) /\ up' = up
            /\ value' = IF o = "commit" THEN [value EXCEPT !["coord"] = req["coord"]]
                                        ELSE value
      BY <2>1 DEF CoordYes, CoordNo, Decide
    <3>2. req["coord"] \in Vals /\ value'["cohort"] = value["cohort"]
          /\ (o = "commit" => value'["coord"] = req["coord"])
      BY <3>1 DEF TypeOK, Nodes
    <3>. QED BY <1>3, <3>1, <3>2 DEF Nodes
  <2>2. CASE CoordPanic
    BY <1>2, <2>2 DEF CoordPanic, Nodes
  <2>3. CASE CoordAck \/ CoordAnswer \/ CoordPeek
    BY <2>3 DEF CoordAck, CoordAnswer, CoordPeek, RecoveryFaithful
  <2>. QED BY <1>6, <2>1, <2>2, <2>3 DEF CoordMain
<1>7. CASE CohortMain
  <2>1. CASE CohortPrepare
    <3>1. inbox["cohort"] # <<>> /\ inbox["cohort"] \in Seq(Question)
      BY <2>1 DEF CohortPrepare, CohortTakes, TypeOK, Question, Nodes
    <3>2. Head(inbox["cohort"]) \in Question
      BY <3>1, HeadTailProperties
    <3>3. PICK agree \in {"yes", "no"} :
            /\ WriteLog("cohort", agree, Head(inbox["cohort"]).val)
            /\ up' = up /\ value' = value
      BY <2>1 DEF CohortPrepare, Answered
    <3>4. Head(inbox["cohort"]).val \in Vals
      BY <3>2 DEF Question
    <3>. QED BY <1>3, <3>3, <3>4 DEF Nodes
  <2>2. CASE CohortCommit
    <3>1. /\ WriteLog("cohort", "commit", req["cohort"]) /\ up' = up
          /\ req["cohort"] \in Vals
          /\ value'["cohort"] = req["cohort"] /\ value'["coord"] = value["coord"]
      BY <2>2 DEF CohortCommit, Answered, TypeOK, Nodes
    <3>. QED BY <1>3, <3>1 DEF Nodes
  <2>3. CASE CohortAbort
    <3>1. WriteLog("cohort", "abort", req["cohort"]) /\ up' = up /\ value' = value
          /\ req["cohort"] \in Vals
      BY <2>3 DEF CohortAbort, Answered, TypeOK, Nodes
    <3>. QED BY <1>3, <3>1 DEF Nodes
  <2>4. CASE CohortFatal
    BY <1>2, <2>4 DEF CohortFatal, Nodes
  <2>5. CASE CohortLearn
    <3>1. /\ WriteLog("cohort", "commit", given["cohort"].val) /\ up' = up
          /\ given["cohort"].val \in Vals
          /\ value'["cohort"] = given["cohort"].val /\ value'["coord"] = value["coord"]
      BY <2>5 DEF CohortLearn, TypeOK, Nodes
    <3>. QED BY <1>3, <3>1 DEF Nodes
  <2>6. CASE CohortPeekTimer
    BY <2>6 DEF CohortPeekTimer, RecoveryFaithful
  <2>. QED BY <1>7, <2>1, <2>2, <2>3, <2>4, <2>5, <2>6 DEF CohortMain
<1>8. ASSUME NEW p \in Nodes, Crash(p) \/ Dial(p) PROVE RecoveryFaithful'
  <2>1. CASE Crash(p) \/ DialPanic(p)
    BY <1>2, <2>1 DEF Crash, DialPanic
  <2>2. CASE DialSend(p) \/ DialReply(p) \/ DialTimeout(p)
    BY <2>2 DEF DialSend, DialReply, DialTimeout, RecoveryFaithful
  <2>. QED BY <1>8, <2>1, <2>2 DEF Dial
<1>9. CASE UNCHANGED vars
  BY <1>9 DEF vars, RecoveryFaithful
<1>. QED
  BY <1>4, <1>5, <1>6, <1>7, <1>8, <1>9 DEF Next

(* In memory as in the log, whatever the timing of answers: a running      *)
(* process whose log is certain holds the value recovery would read.       *)
THEOREM RecoveryIsFaithful == Spec => [](LogsFit => RecoveryFaithful)
<1>1. Init => RecoveryFaithful
  BY DEF Init, RecoveryFaithful, Nodes
<1>2. TypeOK /\ (LogsFit => RecoveryFaithful) /\ [Next]_vars
        => (LogsFit => RecoveryFaithful)'
  BY LogsFitBefore, FaithfulStep
<1>. QED
  BY <1>1, <1>2, TwoPhaseTypeOK, PTL DEF Spec
=============================================================================
