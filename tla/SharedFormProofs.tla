-------------------------- MODULE SharedFormProofs --------------------------
(***************************************************************************)
(* What holds of SharedForm for any number of pages, fields and values:    *)
(* types, that the hub never sends to a closed channel, and that no page   *)
(* sends back what it has received.                                        *)
(***************************************************************************)
EXTENDS SharedForm, SequenceTheorems, FiniteSetTheorems, TLAPS

LEMMA TypeInit == Init => TypeOK
<1>. SUFFICES ASSUME Init PROVE TypeOK
  OBVIOUS
<1>1. <<>> \in Seq(Message) /\ Len(<<>>) = 0
  BY EmptySeq
<1>2. WireTypeOK
  BY <1>1 DEF Init, WireInit, WireTypeOK
<1>3. HubTypeOK
  BY <1>1, HubAssumption DEF Init, HubInit, HubTypeOK
<1>4. ClientTypeOK
  BY WireAssumption DEF Init, ClientInit, ClientTypeOK
<1>. QED BY <1>2, <1>3, <1>4 DEF TypeOK

(* The counter of the history stays below its bound (Counted).             *)
LEMMA CountedType == \A n \in 0..CountTo : Counted(n) \in 0..CountTo
  BY HubAssumption DEF Counted

LEMMA UpgradeType ==
  ASSUME TypeOK, NEW b \in Browsers, Upgrade(b) PROVE WireTypeOK' /\ HubTypeOK'
  BY DEF TypeOK, WireTypeOK, HubTypeOK, Upgrade

LEMMA RefuseType ==
  ASSUME TypeOK, NEW b \in Browsers, Refuse(b) PROVE WireTypeOK' /\ HubTypeOK'
  BY DEF TypeOK, WireTypeOK, HubTypeOK, Refuse, hubVars, serverVars

LEMMA RegisterType ==
  ASSUME TypeOK, NEW b \in Browsers, Register(b) PROVE WireTypeOK' /\ HubTypeOK'
  BY DEF TypeOK, WireTypeOK, HubTypeOK, Register, wireVars

(* Of a queue that is not empty, the first element is a message and the    *)
(* rest a queue of messages.                                               *)
LEMMA HeadTail ==
  ASSUME NEW q \in Seq(Message), q # <<>>
  PROVE  Head(q) \in Message /\ Tail(q) \in Seq(Message) /\ Len(Tail(q)) <= Len(q)
  BY HeadTailProperties

LEMMA ShareType ==
  ASSUME TypeOK, NEW b \in Browsers, Share(b) PROVE WireTypeOK' /\ HubTypeOK'
<1>. DEFINE m == Head(up[b])
            others == reg \ {b}
            room == {c \in others : Len(chan[c]) < BufSize}
            full == others \ room
<1>. USE DEF TypeOK
<1>1. m \in Message /\ Tail(up[b]) \in Seq(Message)
  BY HeadTail DEF WireTypeOK, Share
<1>2. m.field \in Fields
  BY <1>1 DEF Message
<1>3. others \subseteq Browsers
  BY DEF HubTypeOK
<1>4. WireTypeOK'
  BY <1>1 DEF WireTypeOK, Share
<1>5. ASSUME NEW c \in Browsers
      PROVE  chan'[c] \in Seq(Message) /\ Len(chan'[c]) <= BufSize
  <2>1. chan[c] \in Seq(Message) /\ Len(chan[c]) <= BufSize /\ Len(chan[c]) \in Nat
    BY LenProperties DEF HubTypeOK
  <2>2. Append(chan[c], m) \in Seq(Message) /\ Len(Append(chan[c], m)) = Len(chan[c]) + 1
    BY <1>1, <2>1, AppendProperties
  <2>3. chan'[c] = IF c \in room THEN Append(chan[c], m) ELSE chan[c]
    BY DEF Share
  <2>. QED BY <2>1, <2>2, <2>3, HubAssumption
<1>6. chan' = [c \in Browsers |-> chan'[c]]
  BY DEF Share
<1>7. chan' \in [Browsers -> Seq(Message)]
  <2>. HIDE DEF m, room
  <2>. QED BY <1>5, <1>6
<1>8. last' \in [Fields -> Shares \cup {NoShare}]
  <2>1. [msg |-> m, from |-> b, to |-> others] \in Shares
    BY <1>1, <1>3 DEF Shares
  <2>2. last' = [last EXCEPT ![m.field] = [msg |-> m, from |-> b, to |-> others]]
    BY DEF Share
  <2>. HIDE DEF m, others
  <2>. QED BY <1>2, <2>1, <2>2 DEF HubTypeOK
<1>9. shared' \in [Fields -> 0..CountTo] /\ total' \in 0..CountTo
  BY <1>2, CountedType DEF HubTypeOK, Share
<1>10. reg' \subseteq Browsers /\ closed' \in [Browsers -> BOOLEAN]
  BY DEF HubTypeOK, Share
<1>. QED BY <1>4, <1>5, <1>7, <1>8, <1>9, <1>10 DEF HubTypeOK, Share

(* What the server cuts off of the messages to come are messages.          *)
LEMMA ServerClosesType ==
  ASSUME TypeOK, NEW b \in Browsers, ServerCloses(b) PROVE WireTypeOK'
<1>1. SubSeq(up[b], 1, IF up[b] = <<>> THEN 0 ELSE 1) \in Seq(Message)
  <2>1. up[b] \in Seq(Message)
    BY DEF TypeOK, WireTypeOK
  <2>2. \A i \in 1..(IF up[b] = <<>> THEN 0 ELSE 1) : up[b][i] \in Message
    BY <2>1, HeadTailProperties, ElementOfSeq, LenProperties, EmptySeq
  <2>. QED BY <2>2, SubSeqProperties
<1>. QED BY <1>1 DEF TypeOK, WireTypeOK, ServerCloses

LEMMA CloseDroppedType ==
  ASSUME TypeOK, NEW b \in Browsers, CloseDropped(b) PROVE WireTypeOK' /\ HubTypeOK'
<1>1. WireTypeOK'
  BY ServerClosesType DEF CloseDropped
<1>. QED BY <1>1 DEF TypeOK, HubTypeOK, CloseDropped, hubVars, serverVars

LEMMA ReaderEndsType ==
  ASSUME TypeOK, NEW b \in Browsers, ReaderEnds(b) PROVE WireTypeOK' /\ HubTypeOK'
<1>1. <<>> \in Seq(Message)
  BY EmptySeq
<1>. QED BY <1>1 DEF TypeOK, WireTypeOK, HubTypeOK, ReaderEnds

LEMMA UnregisterType ==
  ASSUME TypeOK, NEW b \in Browsers, Unregister(b) PROVE WireTypeOK' /\ HubTypeOK'
<1>1. conn' \in [Browsers -> {"none", "connecting", "open", "closed"}]
  BY DEF TypeOK, WireTypeOK, Unregister
<1>2. /\ hub' \in {"runs", "panicked"} /\ reg' \subseteq Browsers
      /\ closed' \in [Browsers -> BOOLEAN]
  BY DEF TypeOK, HubTypeOK, Unregister
<1>. QED BY <1>1, <1>2 DEF TypeOK, WireTypeOK, HubTypeOK, Unregister

LEMMA WriterSendsType ==
  ASSUME TypeOK, NEW b \in Browsers, WriterSends(b) PROVE WireTypeOK' /\ HubTypeOK'
<1>0. chan[b] \in Seq(Message) /\ chan[b] # <<>> /\ down[b] \in Seq(Message)
  BY DEF TypeOK, HubTypeOK, WireTypeOK, WriterSends
<1>1. Head(chan[b]) \in Message /\ Tail(chan[b]) \in Seq(Message)
      /\ Len(Tail(chan[b])) <= Len(chan[b])
  BY <1>0, HeadTail
<1>2. Len(Tail(chan[b])) \in Nat /\ Len(chan[b]) \in Nat
  BY <1>0, <1>1, LenProperties
<1>3. Append(down[b], Head(chan[b])) \in Seq(Message)
  BY <1>0, <1>1, AppendProperties
<1>4. WireTypeOK'
  BY <1>3 DEF TypeOK, WireTypeOK, WriterSends
<1>5. \A c \in Browsers : Len(chan'[c]) <= BufSize
  BY <1>1, <1>2, HubAssumption DEF TypeOK, HubTypeOK, WriterSends
<1>. QED BY <1>1, <1>4, <1>5 DEF TypeOK, HubTypeOK, WriterSends

LEMMA WriterFailsType ==
  ASSUME TypeOK, NEW b \in Browsers, WriterFails(b) PROVE WireTypeOK' /\ HubTypeOK'
<1>0. chan[b] \in Seq(Message) /\ chan[b] # <<>>
  BY DEF TypeOK, HubTypeOK, WriterFails
<1>1. Tail(chan[b]) \in Seq(Message) /\ Len(Tail(chan[b])) <= Len(chan[b])
  BY <1>0, HeadTail
<1>2. Len(Tail(chan[b])) \in Nat /\ Len(chan[b]) \in Nat
  BY <1>0, <1>1, LenProperties
<1>5. \A c \in Browsers : Len(chan'[c]) <= BufSize
  BY <1>1, <1>2, HubAssumption DEF TypeOK, HubTypeOK, WriterFails
<1>. QED BY <1>1, <1>5 DEF TypeOK, WireTypeOK, HubTypeOK, WriterFails, wireVars

LEMMA WriterEndsType ==
  ASSUME TypeOK, NEW b \in Browsers, WriterEnds(b) PROVE WireTypeOK' /\ HubTypeOK'
<1>1. CASE ServerCloses(b)
  BY <1>1, ServerClosesType DEF TypeOK, HubTypeOK, WriterEnds
<1>2. CASE UNCHANGED wireVars
  BY <1>2 DEF TypeOK, WireTypeOK, HubTypeOK, WriterEnds, wireVars
<1>. QED BY <1>1, <1>2 DEF WriterEnds

LEMMA ServeOneType ==
  ASSUME TypeOK, NEW b \in Browsers, ServeOne(b) PROVE TypeOK'
<1>1. ClientTypeOK'
  BY DEF TypeOK, ClientTypeOK, ServeOne, clientVars, pageVars
<1>2. WireTypeOK' /\ HubTypeOK'
  BY UpgradeType, RefuseType, RegisterType, ShareType, CloseDroppedType, ReaderEndsType,
     UnregisterType, WriterSendsType, WriterFailsType, WriterEndsType
  DEF ServeOne, Serve
<1>. QED BY <1>1, <1>2 DEF TypeOK

-----------------------------------------------------------------------------
(* What a page may send is a message, and so is what it then has sent.     *)
LEMMA SendType ==
  ASSUME TypeOK, NEW b \in Browsers, NEW m \in Message, NEW received, Send(b, m, received)
  PROVE  up' \in [Browsers -> Seq(Message)]
<1>1. Append(up[b], m) \in Seq(Message)
  BY AppendProperties DEF TypeOK, WireTypeOK
<1>. QED BY <1>1 DEF TypeOK, WireTypeOK, Send

LEMMA ChangeType ==
  ASSUME TypeOK, NEW b \in Browsers, NEW f \in Fields, NEW v \in Values, NEW received,
         Change(b, f, v, received)
  PROVE  /\ up' \in [Browsers -> Seq(Message)]
         /\ val' \in [Browsers -> [Fields -> Values]]
         /\ timer' \in [Browsers -> [Fields -> BOOLEAN]]
         /\ \A c \in Browsers, g \in Fields : timer'[c][g] => g \in Limited
<1>1. [field |-> f, val |-> v] \in Message
  BY DEF Message
<1>2. up' \in [Browsers -> Seq(Message)]
  BY <1>1, SendType DEF Change, TypeOK, WireTypeOK
<1>3. val' \in [Browsers -> [Fields -> Values]]
  BY DEF Change, TypeOK, ClientTypeOK
<1>4. CASE f \in Limited
  <2>1. timer' = [timer EXCEPT ![b][f] = TRUE]
    BY <1>4 DEF Change
  <2>2. timer' \in [Browsers -> [Fields -> BOOLEAN]]
    BY <2>1 DEF TypeOK, ClientTypeOK
  <2>3. ASSUME NEW c \in Browsers, NEW g \in Fields, timer'[c][g] PROVE g \in Limited
    <3>1. CASE g = f
      BY <1>4, <3>1
    <3>2. CASE g # f
      <4>1. timer'[c][g] = timer[c][g]
        BY <2>1, <3>2 DEF TypeOK, ClientTypeOK
      <4>. QED BY <2>3, <4>1 DEF TypeOK, ClientTypeOK
    <3>. QED BY <3>1, <3>2
  <2>. QED BY <1>2, <1>3, <2>2, <2>3
<1>5. CASE f \notin Limited
  BY <1>2, <1>3, <1>5 DEF Change, TypeOK, ClientTypeOK
<1>. QED BY <1>4, <1>5

LEMMA LoadType ==
  ASSUME TypeOK, NEW b \in Browsers, Load(b) PROVE WireTypeOK' /\ ClientTypeOK'
  BY DEF TypeOK, WireTypeOK, ClientTypeOK, Load

LEMMA EditType ==
  ASSUME TypeOK, NEW b \in Browsers, NEW f \in Fields, NEW v \in Values, Edit(b, f, v)
  PROVE  WireTypeOK' /\ ClientTypeOK'
<1>1. Change(b, f, v, lastReceived[b])
  BY DEF Edit
<1>2. edits' \in [Fields -> Nat]
  BY DEF Edit, TypeOK, ClientTypeOK
<1>. QED BY <1>1, <1>2, ChangeType DEF Edit, TypeOK, WireTypeOK, ClientTypeOK

LEMMA ReceiveType ==
  ASSUME TypeOK, NEW b \in Browsers, Receive(b) PROVE WireTypeOK' /\ ClientTypeOK'
<1>. DEFINE m == Head(down[b])
<1>1. m \in Message /\ Tail(down[b]) \in Seq(Message)
  BY HeadTail DEF TypeOK, WireTypeOK, Receive
<1>2. m.field \in Fields /\ m.val \in Values
  BY <1>1 DEF Message
<1>3. Change(b, m.field, m.val, m) \/ UNCHANGED <<up, val, timer>>
  BY DEF Receive
<1>4. /\ up' \in [Browsers -> Seq(Message)]
      /\ val' \in [Browsers -> [Fields -> Values]]
      /\ timer' \in [Browsers -> [Fields -> BOOLEAN]]
      /\ \A c \in Browsers, g \in Fields : timer'[c][g] => g \in Limited
  BY <1>2, <1>3, ChangeType DEF TypeOK, WireTypeOK, ClientTypeOK
<1>5. lastReceived' \in [Browsers -> Message \cup {None}]
  BY <1>1 DEF TypeOK, ClientTypeOK, Receive
<1>6. down' \in [Browsers -> Seq(Message)]
  BY <1>1 DEF TypeOK, WireTypeOK, Receive
<1>. QED BY <1>4, <1>5, <1>6 DEF Receive, TypeOK, WireTypeOK, ClientTypeOK

LEMMA FlushType ==
  ASSUME TypeOK, NEW b \in Browsers, NEW f \in Limited, Flush(b, f)
  PROVE  WireTypeOK' /\ ClientTypeOK'
<1>1. f \in Fields /\ val[b][f] \in Values
  BY ClientAssumption DEF TypeOK, ClientTypeOK
<1>2. [field |-> f, val |-> val[b][f]] \in Message
  BY <1>1 DEF Message
<1>3. up' \in [Browsers -> Seq(Message)]
  BY <1>2, SendType DEF Flush, TypeOK, WireTypeOK
<1>4. /\ timer' \in [Browsers -> [Fields -> BOOLEAN]]
      /\ \A c \in Browsers, g \in Fields : timer'[c][g] => g \in Limited
      /\ slow' \in [Browsers -> [Fields -> Values]]
  BY <1>1 DEF Flush, TypeOK, ClientTypeOK
<1>. QED BY <1>3, <1>4 DEF Flush, TypeOK, WireTypeOK, ClientTypeOK

LEMMA CutType ==
  ASSUME TypeOK, NEW b \in Browsers, Cut(b) PROVE WireTypeOK'
<1>1. <<>> \in Seq(Message)
  BY EmptySeq
<1>. QED BY <1>1 DEF TypeOK, WireTypeOK, Cut

LEMMA GoType ==
  ASSUME TypeOK, NEW b \in Browsers, Go(b) PROVE WireTypeOK' /\ ClientTypeOK'
<1>1. WireTypeOK'
  BY CutType DEF Go, Leave, Disconnect
<1>2. CASE Leave(b)
  BY <1>1, <1>2 DEF TypeOK, ClientTypeOK, Leave
<1>3. CASE Disconnect(b)
  BY <1>1, <1>3 DEF TypeOK, ClientTypeOK, Disconnect, clientVars, pageVars
<1>. QED BY <1>2, <1>3 DEF Go

LEMMA TypeStep == TypeOK /\ [Next]_vars => TypeOK'
<1>. SUFFICES ASSUME TypeOK, [Next]_vars PROVE TypeOK'
  OBVIOUS
<1>1. ASSUME NEW b \in Browsers, Browse(b) PROVE TypeOK'
  <2>1. HubTypeOK'
    BY <1>1 DEF TypeOK, HubTypeOK, Browse, hubVars, serverVars
  <2>2. WireTypeOK' /\ ClientTypeOK'
    BY <1>1, LoadType, EditType, ReceiveType, FlushType DEF Browse, UserEdits
  <2>. QED BY <2>1, <2>2 DEF TypeOK
<1>2. ASSUME NEW b \in Browsers, Go(b) PROVE TypeOK'
  <2>1. HubTypeOK'
    BY <1>2 DEF TypeOK, HubTypeOK, Go, hubVars, serverVars
  <2>. QED BY <1>2, <2>1, GoType DEF TypeOK
<1>3. CASE UNCHANGED vars
  BY <1>3 DEF vars, wireVars, hubVars, serverVars, clientVars, pageVars,
              TypeOK, WireTypeOK, HubTypeOK, ClientTypeOK
<1>. QED BY <1>1, <1>2, <1>3, ServeOneType DEF Next

(* Every reachable state has the declared types, for any number of pages,  *)
(* whatever they edit and whoever leaves; no channel ever holds more than  *)
(* its buffer (hub.run, select with default).                              *)
THEOREM SharedFormTypeOK == Spec => []TypeOK
<1>1. Init => TypeOK
  BY TypeInit
<1>2. TypeOK /\ [Next]_vars => TypeOK'
  BY TypeStep
<1>. QED BY <1>1, <1>2, PTL DEF Spec

-----------------------------------------------------------------------------
(* The life of a connection at the server: it registers once, is there     *)
(* while its handler runs at most, and its channel is closed by the hub    *)
(* only, after it has registered.                                          *)
LifeOf(b) ==
  /\ conn[b] \in {"none", "connecting"} => srv[b] = "none"
  /\ b \in reg => srv[b] \in {"reads", "unregisters"} /\ ~closed[b]
  /\ srv[b] \in {"none", "registers"} => ~closed[b]

Life == \A b \in Browsers : LifeOf(b)

LEMMA LifeServes ==
  ASSUME TypeOK, Life, NEW b \in Browsers, ServeOne(b) PROVE Life'
<1>. USE DEF TypeOK, WireTypeOK, HubTypeOK, Life, LifeOf
<1>1. CASE Upgrade(b)
  BY <1>1 DEF Upgrade
<1>2. CASE Refuse(b)
  BY <1>2 DEF Refuse, hubVars, serverVars
<1>3. CASE Register(b)
  BY <1>3 DEF Register, wireVars
<1>4. CASE Share(b)
  <2>1. PICK full \in SUBSET reg : /\ reg' = reg \ full
                                  /\ closed' = [c \in Browsers |-> closed[c] \/ c \in full]
    BY <1>4 DEF Share
  <2>2. UNCHANGED <<conn, srv>>
    BY <1>4 DEF Share
  <2>. QED BY <2>1, <2>2
<1>5. CASE CloseDropped(b)
  BY <1>5 DEF CloseDropped, ServerCloses, hubVars, serverVars
<1>6. CASE ReaderEnds(b)
  BY <1>6 DEF ReaderEnds
<1>7. CASE Unregister(b)
  <2>1. \A c \in Browsers : conn'[c] \in {"none", "connecting"} => conn[c] = conn'[c]
    BY <1>7 DEF Unregister
  <2>2. \A c \in Browsers : c # b => closed'[c] = closed[c] /\ srv'[c] = srv[c]
    BY <1>7 DEF Unregister
  <2>3. srv'[b] = "done" /\ reg' = reg \ {b} /\ srv[b] = "unregisters"
    BY <1>7 DEF Unregister
  <2>. QED BY <2>1, <2>2, <2>3
<1>8. CASE WriterSends(b) \/ WriterFails(b)
  BY <1>8 DEF WriterSends, WriterFails, wireVars
<1>9. CASE WriterEnds(b)
  BY <1>9 DEF WriterEnds, ServerCloses, wireVars
<1>. QED BY <1>1, <1>2, <1>3, <1>4, <1>5, <1>6, <1>7, <1>8, <1>9 DEF ServeOne, Serve

(* The pages only touch their own end of the connection, which they open   *)
(* once.                                                                   *)
LEMMA LifeBrowses ==
  ASSUME TypeOK, Life, NEW b \in Browsers, Browse(b) \/ Go(b) PROVE Life'
<1>. USE DEF TypeOK, WireTypeOK, HubTypeOK, Life, LifeOf
<1>1. UNCHANGED <<srv, reg, closed>>
  BY DEF Browse, Go, hubVars, serverVars
<1>2. \A c \in Browsers :
        \/ conn'[c] = conn[c] \/ conn'[c] = "closed"
        \/ conn[c] = "none" /\ conn'[c] = "connecting"
  BY DEF Browse, Go, Load, UserEdits, Edit, Receive, Flush, Leave, Disconnect, Cut
<1>. QED BY <1>1, <1>2

LEMMA LifeStep == TypeOK /\ Life /\ [Next]_vars => Life'
<1>. SUFFICES ASSUME TypeOK, Life, [Next]_vars PROVE Life'
  OBVIOUS
<1>1. CASE UNCHANGED vars
  BY <1>1 DEF vars, wireVars, hubVars, serverVars, Life, LifeOf
<1>. QED BY <1>1, LifeServes, LifeBrowses DEF Next

LEMMA LifeAlways == Spec => []Life
<1>1. Init => Life
  BY DEF Init, WireInit, HubInit, Life, LifeOf
<1>2. TypeOK /\ Life /\ [Next]_vars => Life'
  BY LifeStep
<1>. QED BY <1>1, <1>2, SharedFormTypeOK, PTL DEF Spec

(* The hub never sends to a closed channel, which would panic, for any     *)
(* number of clients: who is registered has an open one (hub.run).         *)
THEOREM HubCanSend == Spec => []RegisteredCanSend
<1>1. TypeOK /\ Life => RegisteredCanSend
  BY DEF TypeOK, HubTypeOK, Life, LifeOf, RegisteredCanSend
<1>. QED BY <1>1, LifeAlways, SharedFormTypeOK, PTL

-----------------------------------------------------------------------------
(* A channel holds no more than has been shared, so one that is closed     *)
(* before its client unregisters was found full after that much: the next  *)
(* update makes it more than a buffer.                                     *)
OverflowOf(b) ==
  /\ Len(chan[b]) <= total
  /\ closed[b] /\ srv[b] \in {"reads", "unregisters"} => total > BufSize

Overflow ==
  /\ \A b \in Browsers : OverflowOf(b)
  /\ hub = "panicked" => total > BufSize

(* The history counts what is shared until it exceeds a buffer.            *)
LEMMA CountedGrows ==
  \A n \in 0..CountTo :
    /\ Counted(n) >= n
    /\ \A k \in 0..BufSize : k <= n => k + 1 <= Counted(n)
  BY HubAssumption DEF Counted

(* The channels only shrink, and none is closed that is still in use.      *)
LEMMA OverflowShrinks ==
  ASSUME TypeOK, TypeOK', Overflow, UNCHANGED <<hub, total>>,
         \A c \in Browsers :
           /\ Len(chan'[c]) <= Len(chan[c])
           /\ closed'[c] /\ srv'[c] \in {"reads", "unregisters"} =>
                closed[c] /\ srv[c] \in {"reads", "unregisters"}
  PROVE  Overflow'
<1>1. \A c \in Browsers : Len(chan[c]) \in Nat /\ Len(chan'[c]) \in Nat
  BY LenProperties DEF TypeOK, HubTypeOK
<1>2. total \in Nat
  BY DEF TypeOK, HubTypeOK
<1>. QED BY <1>1, <1>2 DEF Overflow, OverflowOf

LEMMA OverflowShare ==
  ASSUME TypeOK, TypeOK', Overflow, NEW b \in Browsers, Share(b)
  PROVE  Overflow'
<1>. DEFINE m == Head(up[b])
            others == reg \ {b}
            room == {c \in others : Len(chan[c]) < BufSize}
            full == others \ room
<1>1. total \in 0..CountTo /\ total' = Counted(total) /\ hub' = "runs" /\ srv' = srv
  BY DEF TypeOK, HubTypeOK, Share
<1>2. total' \in Nat /\ total' >= total /\ \A k \in 0..BufSize : k <= total => k + 1 <= total'
  BY <1>1, CountedGrows DEF TypeOK, HubTypeOK
<1>3. ASSUME NEW c \in Browsers PROVE OverflowOf(c)'
  <2>1. /\ Len(chan[c]) \in 0..BufSize /\ Len(chan[c]) <= total
        /\ Len(Append(chan[c], m)) = Len(chan[c]) + 1
    <3>1. chan[c] \in Seq(Message) /\ m \in Message
      BY HeadTail DEF Share, TypeOK, WireTypeOK, HubTypeOK
    <3>2. Len(chan[c]) \in Nat /\ Len(chan[c]) <= BufSize
      BY <3>1, LenProperties DEF TypeOK, HubTypeOK
    <3>. QED
      BY <3>1, <3>2, AppendProperties, HubAssumption DEF Overflow, OverflowOf
  <2>2. /\ chan'[c] = IF c \in room THEN Append(chan[c], m) ELSE chan[c]
        /\ closed'[c] <=> closed[c] \/ c \in full
    BY DEF Share
  <2>3. Len(chan'[c]) <= total'
    <3>. HIDE DEF m, room
    <3>. QED BY <1>1, <1>2, <2>1, <2>2
  <2>4. c \in full => total' > BufSize
    <3>1. c \in full => Len(chan[c]) = BufSize
      BY <2>1, HubAssumption
    <3>. QED BY <1>2, <2>1, <3>1, HubAssumption
  <2>5. closed[c] /\ srv[c] \in {"reads", "unregisters"} => total' > BufSize
    BY <1>1, <1>2, HubAssumption DEF Overflow, OverflowOf
  <2>. HIDE DEF full
  <2>. QED BY <1>1, <2>2, <2>3, <2>4, <2>5 DEF OverflowOf
<1>. QED BY <1>1, <1>3 DEF Overflow

LEMMA OverflowServes ==
  ASSUME TypeOK, TypeOK', Life, Overflow, NEW b \in Browsers, ServeOne(b)
  PROVE  Overflow'
<1>0. \A c \in Browsers : chan[c] \in Seq(Message) /\ Len(chan[c]) \in Nat
  BY LenProperties DEF TypeOK, HubTypeOK
<1>1. CASE Share(b)
  BY <1>1, OverflowShare
<1>2. CASE Upgrade(b) \/ Refuse(b) \/ CloseDropped(b) \/ ReaderEnds(b) \/ WriterEnds(b)
  <2>1. /\ UNCHANGED <<hub, total, chan, closed>>
        /\ \A c \in Browsers : srv'[c] \in {"reads", "unregisters"} =>
                                 srv[c] \in {"reads", "unregisters"}
    BY <1>2 DEF Upgrade, Refuse, CloseDropped, ReaderEnds, WriterEnds, hubVars, serverVars,
                TypeOK, HubTypeOK
  <2>. QED BY <1>0, <2>1, OverflowShrinks
<1>3. CASE Register(b)
  <2>1. ~closed[b] /\ \A c \in Browsers : c # b => srv'[c] = srv[c]
    BY <1>3 DEF Register, Life, LifeOf, TypeOK, HubTypeOK
  <2>2. UNCHANGED <<hub, total, chan, closed>>
    BY <1>3 DEF Register
  <2>. QED BY <1>0, <2>1, <2>2, OverflowShrinks
<1>4. CASE WriterSends(b) \/ WriterFails(b)
  <2>1. Len(Tail(chan[b])) <= Len(chan[b])
    BY <1>0, <1>4, HeadTail DEF WriterSends, WriterFails
  <2>2. /\ UNCHANGED <<hub, total, closed, srv>>
        /\ chan'[b] = Tail(chan[b]) /\ \A c \in Browsers : c # b => chan'[c] = chan[c]
    BY <1>4 DEF WriterSends, WriterFails, TypeOK, HubTypeOK
  <2>3. ASSUME NEW c \in Browsers PROVE Len(chan'[c]) <= Len(chan[c])
    <3>1. CASE c = b
      BY <2>1, <2>2, <3>1, Zenon
    <3>2. CASE c # b
      <4>1. chan'[c] = chan[c] /\ Len(chan[c]) \in Nat
        BY <1>0, <2>2, <3>2
      <4>. QED BY <4>1
    <3>. QED BY <3>1, <3>2
  <2>. QED BY <2>2, <2>3, OverflowShrinks
<1>5. CASE Unregister(b)
  <2>1. /\ srv[b] = "unregisters" /\ srv'[b] = "done" /\ UNCHANGED <<chan, total>>
        /\ \A c \in Browsers : c # b => srv'[c] = srv[c] /\ closed'[c] = closed[c]
        /\ hub' = "panicked" => closed[b]
    BY <1>5 DEF Unregister, TypeOK, HubTypeOK
  <2>2. hub' = "panicked" => total > BufSize
    BY <2>1 DEF Overflow, OverflowOf
  <2>. QED BY <2>1, <2>2 DEF Overflow, OverflowOf
<1>. QED BY <1>1, <1>2, <1>3, <1>4, <1>5 DEF ServeOne, Serve

LEMMA OverflowStep == TypeOK /\ TypeOK' /\ Life /\ Overflow /\ [Next]_vars => Overflow'
<1>. SUFFICES ASSUME TypeOK, TypeOK', Life, Overflow, [Next]_vars PROVE Overflow'
  OBVIOUS
<1>1. CASE UNCHANGED hubVars
  BY <1>1 DEF hubVars, serverVars, Overflow, OverflowOf
<1>2. (\E b \in Browsers : Browse(b) \/ Go(b)) \/ UNCHANGED vars => UNCHANGED hubVars
  BY DEF Browse, Go, vars
<1>. QED BY <1>1, <1>2, OverflowServes DEF Next

(* For any buffer and any number of clients, the hub closes a channel a    *)
(* second time, and panics, only after it has shared more updates than a   *)
(* buffer holds (hub.run).                                                 *)
THEOREM PanicTakesOverflow == Spec => []PanicAfterOverflow
<1>1. Init => Overflow
  BY EmptySeq DEF Init, HubInit, Overflow, OverflowOf
<1>2. TypeOK /\ TypeOK' /\ Life /\ Overflow /\ [Next]_vars => Overflow'
  BY OverflowStep
<1>3. Overflow => PanicAfterOverflow
  BY DEF Overflow, PanicAfterOverflow
<1>. QED BY <1>1, <1>2, <1>3, LifeAlways, SharedFormTypeOK, PTL DEF Spec

-----------------------------------------------------------------------------
(* The messages about f that wait in the queues q, by sender and place.    *)
Unread(q, f) ==
  {p \in Browsers \X Nat : p[2] \in 1..Len(q[p[1]]) /\ q[p[1]][p[2]].field = f}

Queues == [Browsers -> Seq(Message)]

Finite(S, n) == IsFiniteSet(S) /\ Cardinality(S) \in Nat /\ Cardinality(S) <= n

(* A part of what is finite is finite, and no larger.                      *)
LEMMA FinitePart ==
  ASSUME NEW S, NEW T, NEW n \in Nat, T \subseteq S, Finite(S, n) PROVE Finite(T, n)
<1>1. T \in SUBSET S
  OBVIOUS
<1>2. IsFiniteSet(T) /\ Cardinality(T) <= Cardinality(S)
  BY <1>1, FS_Subset DEF Finite
<1>3. Cardinality(T) \in Nat
  BY <1>2, FS_CardinalityType
<1>. QED BY <1>2, <1>3 DEF Finite

(* A message that is sent adds one to those about its field.               *)
LEMMA UnreadAppend ==
  ASSUME NEW q \in Queues, NEW b \in Browsers, NEW m \in Message, NEW f \in Fields,
         NEW n \in Nat, Finite(Unread(q, f), n)
  PROVE  Finite(Unread([q EXCEPT ![b] = Append(@, m)], f), IF m.field = f THEN n + 1 ELSE n)
<1>. DEFINE r == [q EXCEPT ![b] = Append(@, m)]
            x == <<b, Len(q[b]) + 1>>
<1>1. q[b] \in Seq(Message) /\ Len(q[b]) \in Nat
  BY LenProperties DEF Queues
<1>2. /\ Len(Append(q[b], m)) = Len(q[b]) + 1
      /\ \A i \in 1..Len(q[b]) : Append(q[b], m)[i] = q[b][i]
      /\ Append(q[b], m)[Len(q[b]) + 1] = m
  BY <1>1, AppendProperties
<1>3. r[b] = Append(q[b], m) /\ \A c \in Browsers : c # b => r[c] = q[c]
  BY DEF Queues
<1>. HIDE DEF r
<1>4. ASSUME NEW p \in Unread(r, f) PROVE p \in Unread(q, f) \/ (p = x /\ m.field = f)
  <2>1. /\ p[1] \in Browsers /\ p[2] \in Nat /\ p = <<p[1], p[2]>>
        /\ p[2] \in 1..Len(r[p[1]]) /\ r[p[1]][p[2]].field = f
    BY DEF Unread
  <2>2. CASE p[1] # b
    BY <2>1, <2>2, <1>3 DEF Unread
  <2>3. CASE p[1] = b /\ p[2] = Len(q[b]) + 1
    BY <2>1, <2>3, <1>2, <1>3
  <2>4. CASE p[1] = b /\ p[2] # Len(q[b]) + 1
    <3>1. p[2] \in 1..Len(q[b])
      BY <2>1, <2>4, <1>1, <1>2, <1>3
    <3>2. q[b][p[2]].field = f
      BY <3>1, <2>1, <2>4, <1>2, <1>3
    <3>. QED BY <3>1, <3>2, <2>1, <2>4 DEF Unread
  <2>. QED BY <2>2, <2>3, <2>4
<1>5. CASE m.field # f
  <2>1. Unread(r, f) \subseteq Unread(q, f)
    BY <1>4, <1>5
  <2>. QED BY <2>1, <1>5, FinitePart DEF r
<1>6. CASE m.field = f
  <2>1. Finite(Unread(q, f) \cup {x}, n + 1)
    <3>1. /\ IsFiniteSet(Unread(q, f) \cup {x})
          /\ Cardinality(Unread(q, f) \cup {x}) =
               IF x \in Unread(q, f) THEN Cardinality(Unread(q, f))
               ELSE Cardinality(Unread(q, f)) + 1
      BY FS_AddElement DEF Finite
    <3>. QED BY <3>1 DEF Finite
  <2>2. Unread(r, f) \subseteq Unread(q, f) \cup {x}
    BY <1>4
  <2>3. n + 1 \in Nat
    OBVIOUS
  <2>4. Finite(Unread(r, f), n + 1)
    BY <2>1, <2>2, <2>3, FinitePart
  <2>. QED BY <2>4, <1>6 DEF r
<1>. QED BY <1>5, <1>6

(* Queues that are cut short have no more.                                 *)
LEMMA UnreadCut ==
  ASSUME NEW q \in Queues, NEW r \in Queues, NEW f \in Fields, NEW n \in Nat,
         \A c \in Browsers : /\ Len(r[c]) <= Len(q[c])
                            /\ \A i \in 1..Len(r[c]) : r[c][i] = q[c][i],
         Finite(Unread(q, f), n)
  PROVE  Finite(Unread(r, f), n)
<1>1. ASSUME NEW p \in Unread(r, f) PROVE p \in Unread(q, f)
  <2>1. /\ p[1] \in Browsers /\ p[2] \in Nat /\ p \in Browsers \X Nat
        /\ p[2] \in 1..Len(r[p[1]]) /\ r[p[1]][p[2]].field = f
    BY DEF Unread
  <2>2. Len(r[p[1]]) \in Nat /\ Len(q[p[1]]) \in Nat
    BY <2>1, LenProperties DEF Queues
  <2>3. p[2] \in 1..Len(q[p[1]])
    BY <2>1, <2>2
  <2>4. q[p[1]][p[2]].field = f
    BY <2>1
  <2>. QED BY <2>1, <2>3, <2>4 DEF Unread
<1>. QED BY <1>1, FinitePart

(* A message that the hub has taken is one less about its field.           *)
LEMMA UnreadTail ==
  ASSUME NEW q \in Queues, NEW b \in Browsers, q[b] # <<>>, NEW f \in Fields,
         NEW n \in Nat, Finite(Unread(q, f), n)
  PROVE  IF Head(q[b]).field = f
         THEN n # 0 /\ Finite(Unread([q EXCEPT ![b] = Tail(@)], f), n - 1)
         ELSE Finite(Unread([q EXCEPT ![b] = Tail(@)], f), n)
<1>. DEFINE r == [q EXCEPT ![b] = Tail(@)]
            x == <<b, 1>>
            R == Unread(r, f)
            Q == Unread(q, f) \ {x}
            g == [p \in R |-> IF p[1] = b THEN <<b, p[2] + 1>> ELSE p]
<1>1. q[b] \in Seq(Message) /\ Len(q[b]) \in Nat /\ Len(q[b]) # 0
  BY LenProperties, EmptySeq DEF Queues
<1>2. /\ Tail(q[b]) \in Seq(Message) /\ Len(Tail(q[b])) = Len(q[b]) - 1
      /\ \A i \in 1..Len(Tail(q[b])) : Tail(q[b])[i] = q[b][i + 1]
      /\ Head(q[b]) = q[b][1]
  BY <1>1, HeadTailProperties
<1>3. r[b] = Tail(q[b]) /\ \A c \in Browsers : c # b => r[c] = q[c]
  BY DEF Queues
<1>. HIDE DEF r
<1>4. ASSUME NEW p \in R PROVE g[p] \in Q
  <2>1. /\ p[1] \in Browsers /\ p[2] \in Nat /\ p = <<p[1], p[2]>>
        /\ p[2] \in 1..Len(r[p[1]]) /\ r[p[1]][p[2]].field = f
    BY DEF Unread
  <2>2. CASE p[1] # b
    <3>1. g[p] = p
      BY <2>2
    <3>2. p \in Unread(q, f)
      BY <2>1, <2>2, <1>3 DEF Unread
    <3>3. p # x
      BY <2>1, <2>2
    <3>. QED BY <3>1, <3>2, <3>3
  <2>3. CASE p[1] = b
    <3>1. g[p] = <<b, p[2] + 1>>
      BY <2>3
    <3>2. p[2] + 1 \in 1..Len(q[b]) /\ p[2] + 1 # 1 /\ p[2] + 1 \in Nat
      BY <2>1, <2>3, <1>1, <1>2, <1>3
    <3>3. q[b][p[2] + 1].field = f
      BY <2>1, <2>3, <1>2, <1>3
    <3>4. <<b, p[2] + 1>> \in Unread(q, f)
      BY <3>2, <3>3 DEF Unread
    <3>5. <<b, p[2] + 1>> # x
      BY <3>2
    <3>. QED BY <3>1, <3>4, <3>5
  <2>. QED BY <2>2, <2>3
<1>5. ASSUME NEW p1 \in R, NEW p2 \in R, g[p1] = g[p2] PROVE p1 = p2
  <2>1. /\ p1 = <<p1[1], p1[2]>> /\ p2 = <<p2[1], p2[2]>>
        /\ p1[2] \in Nat /\ p2[2] \in Nat
    BY DEF Unread
  <2>2. ASSUME NEW p \in R
        PROVE  IF p[1] = b THEN g[p] = <<b, p[2] + 1>> ELSE g[p] = p
    OBVIOUS
  <2>. HIDE DEF g
  <2>3. CASE p1[1] = b /\ p2[1] = b
    <3>1. <<b, p1[2] + 1>> = <<b, p2[2] + 1>>
      BY <1>5, <2>2, <2>3
    <3>2. p1[2] + 1 = p2[2] + 1
      BY <3>1
    <3>3. p1[2] = p2[2]
      BY <3>2, <2>1
    <3>. QED BY <3>3, <2>1, <2>3
  <2>4. CASE p1[1] = b /\ p2[1] # b
    <3>1. <<b, p1[2] + 1>> = p2
      BY <1>5, <2>2, <2>4
    <3>. QED BY <3>1, <2>4
  <2>5. CASE p1[1] # b /\ p2[1] = b
    <3>1. p1 = <<b, p2[2] + 1>>
      BY <1>5, <2>2, <2>5
    <3>. QED BY <3>1, <2>5
  <2>6. CASE p1[1] # b /\ p2[1] # b
    BY <1>5, <2>2, <2>6
  <2>. QED BY <2>3, <2>4, <2>5, <2>6
<1>6. g \in Injection(R, Q)
  <2>1. g \in [R -> Q]
    BY <1>4
  <2>. QED BY <2>1, <1>5 DEF Injection, IsInjective
<1>7. /\ IsFiniteSet(Q)
      /\ Cardinality(Q) = IF x \in Unread(q, f) THEN Cardinality(Unread(q, f)) - 1
                          ELSE Cardinality(Unread(q, f))
  BY FS_RemoveElement DEF Finite
<1>8. IsFiniteSet(R) /\ Cardinality(R) <= Cardinality(Q)
  BY <1>6, <1>7, FS_Injection
<1>9. Cardinality(Q) \in Nat /\ Cardinality(R) \in Nat
  BY <1>7, <1>8, FS_CardinalityType
<1>10. CASE Head(q[b]).field = f
  <2>1. x \in Unread(q, f)
    BY <1>1, <1>2, <1>10 DEF Unread
  <2>2. n # 0 /\ Finite(R, n - 1)
    BY <2>1, <1>7, <1>8, <1>9 DEF Finite
  <2>. QED BY <2>2, <1>10 DEF r
<1>11. CASE Head(q[b]).field # f
  <2>1. Finite(R, n)
    BY <1>7, <1>8, <1>9 DEF Finite
  <2>. QED BY <2>1, <1>11 DEF r
<1>. QED BY <1>10, <1>11
-----------------------------------------------------------------------------
(* Every update the hub has shared, and every one that still waits to be   *)
(* shared, has an edit of its own: what a page receives it never sends.    *)
PaidFor(f) ==
  /\ shared[f] <= edits[f]
  /\ Finite(Unread(up, f), edits[f] - shared[f])

AllPaidFor == \A f \in Fields \ Limited : PaidFor(f)

LEMMA NumbersType ==
  ASSUME TypeOK, NEW f \in Fields PROVE shared[f] \in Nat /\ edits[f] \in Nat
  BY HubAssumption DEF TypeOK, HubTypeOK, ClientTypeOK

LEMMA PaidInit == Init => AllPaidFor
<1>. SUFFICES ASSUME Init, NEW f \in Fields \ Limited PROVE PaidFor(f)
  BY DEF AllPaidFor
<1>1. \A b \in Browsers : up[b] = <<>> /\ Len(up[b]) = 0
  BY EmptySeq DEF Init, WireInit
<1>2. Unread(up, f) = {}
  BY <1>1 DEF Unread
<1>3. shared[f] = 0 /\ edits[f] = 0
  BY DEF Init, HubInit, ClientInit
<1>. QED BY <1>2, <1>3, FS_EmptySet DEF PaidFor, Finite

(* Nothing is sent, edited or shared, and at most something is cut off.    *)
LEMMA PaidCut ==
  ASSUME TypeOK, TypeOK', AllPaidFor, UNCHANGED <<shared, edits>>,
         \A c \in Browsers : /\ Len(up'[c]) <= Len(up[c])
                            /\ \A i \in 1..Len(up'[c]) : up'[c][i] = up[c][i]
  PROVE  AllPaidFor'
<1>. SUFFICES ASSUME NEW f \in Fields \ Limited PROVE PaidFor(f)'
  BY DEF AllPaidFor
<1>1. up \in Queues /\ up' \in Queues
  BY DEF TypeOK, WireTypeOK, Queues
<1>2. shared[f] <= edits[f] /\ Finite(Unread(up, f), edits[f] - shared[f])
  BY DEF AllPaidFor, PaidFor
<1>3. edits[f] - shared[f] \in Nat
  BY <1>2, NumbersType
<1>4. Finite(Unread(up', f), edits[f] - shared[f])
  BY <1>1, <1>2, <1>3, UnreadCut
<1>. QED BY <1>2, <1>4 DEF PaidFor, Unread

(* The server cuts off what the page has sent but for one message.         *)
LEMMA ClosesCut ==
  ASSUME TypeOK, NEW b \in Browsers, ServerCloses(b)
  PROVE  \A c \in Browsers : /\ Len(up'[c]) <= Len(up[c])
                            /\ \A i \in 1..Len(up'[c]) : up'[c][i] = up[c][i]
<1>. DEFINE k == IF up[b] = <<>> THEN 0 ELSE 1
<1>1. /\ \A c \in Browsers : up[c] \in Seq(Message) /\ Len(up[c]) \in Nat
      /\ up'[b] = SubSeq(up[b], 1, k)
      /\ \A c \in Browsers : c # b => up'[c] = up[c]
  BY LenProperties DEF TypeOK, WireTypeOK, ServerCloses
<1>2. k <= Len(up[b]) /\ k \in 0..Len(up[b])
  BY <1>1, EmptySeq
<1>3. /\ Len(SubSeq(up[b], 1, k)) = k
      /\ \A i \in 1..k : SubSeq(up[b], 1, k)[i] = up[b][i]
  <2>1. \A i \in 1..k : up[b][i] \in Message
    BY <1>1, <1>2, ElementOfSeq
  <2>. HIDE DEF k
  <2>. QED BY <1>1, <1>2, <2>1, SubSeqProperties
<1>. QED
  <2>. HIDE DEF k
  <2>. QED BY <1>1, <1>2, <1>3

LEMMA PaidShare ==
  ASSUME TypeOK, AllPaidFor, NEW b \in Browsers, Share(b), UNCHANGED edits
  PROVE  AllPaidFor'
<1>. SUFFICES ASSUME NEW f \in Fields \ Limited PROVE PaidFor(f)'
  BY DEF AllPaidFor
<1>. DEFINE m == Head(up[b])
            n == edits[f] - shared[f]
<1>1. up \in Queues /\ up[b] # <<>> /\ up' = [up EXCEPT ![b] = Tail(@)]
  BY DEF TypeOK, WireTypeOK, Queues, Share
<1>2. shared[f] <= edits[f] /\ Finite(Unread(up, f), n) /\ n \in Nat
  BY NumbersType DEF AllPaidFor, PaidFor
<1>3. m \in Message /\ m.field \in Fields
  BY <1>1, HeadTail DEF Queues, Message
<1>4. shared' = [shared EXCEPT ![m.field] = Counted(@)]
  BY DEF Share
<1>5. IF m.field = f THEN n # 0 /\ Finite(Unread(up', f), n - 1)
                     ELSE Finite(Unread(up', f), n)
  BY <1>1, <1>2, UnreadTail
<1>. HIDE DEF m
<1>6. CASE m.field # f
  <2>1. shared'[f] = shared[f]
    BY <1>4, <1>6 DEF TypeOK, HubTypeOK
  <2>. QED BY <1>2, <1>5, <1>6, <2>1 DEF PaidFor, Unread
<1>7. CASE m.field = f
  <2>1. /\ shared'[f] = Counted(shared[f])
        /\ Counted(shared[f]) \in Nat /\ Counted(shared[f]) <= shared[f] + 1
    BY <1>4, <1>7, NumbersType DEF TypeOK, HubTypeOK, Counted
  <2>2. /\ edits[f] - shared'[f] \in Nat /\ n - 1 \in Nat
        /\ n - 1 <= edits[f] - shared'[f] /\ shared'[f] <= edits[f]
    BY <1>2, <1>5, <1>7, <2>1, NumbersType
  <2>3. Finite(Unread(up', f), edits[f] - shared'[f])
    BY <1>5, <1>7, <2>2 DEF Finite
  <2>. QED BY <2>2, <2>3 DEF PaidFor, Unread
<1>. QED BY <1>6, <1>7

LEMMA PaidServes ==
  ASSUME TypeOK, TypeOK', AllPaidFor, NEW b \in Browsers, ServeOne(b) PROVE AllPaidFor'
<1>1. UNCHANGED edits
  BY DEF ServeOne, clientVars
<1>2. CASE Share(b)
  BY <1>1, <1>2, PaidShare
<1>3. CASE ReaderEnds(b)
  <2>1. /\ \A c \in Browsers : up[c] \in Seq(Message) /\ Len(up[c]) \in Nat
        /\ up'[b] = <<>> /\ \A c \in Browsers : c # b => up'[c] = up[c]
    BY <1>3, LenProperties DEF ReaderEnds, TypeOK, WireTypeOK
  <2>2. UNCHANGED shared
    BY <1>3 DEF ReaderEnds
  <2>3. \A c \in Browsers : /\ Len(up'[c]) <= Len(up[c])
                            /\ \A i \in 1..Len(up'[c]) : up'[c][i] = up[c][i]
    BY <2>1, EmptySeq
  <2>. QED BY <1>1, <2>2, <2>3, PaidCut
<1>4. CASE ServerCloses(b) /\ UNCHANGED shared
  BY <1>1, <1>4, ClosesCut, PaidCut
<1>5. CASE UNCHANGED <<up, shared>>
  <2>1. \A c \in Browsers : Len(up[c]) \in Nat
    BY LenProperties DEF TypeOK, WireTypeOK
  <2>. QED BY <1>1, <1>5, <2>1, PaidCut
<1>6. \/ Share(b) \/ ReaderEnds(b)
      \/ ServerCloses(b) /\ UNCHANGED shared
      \/ UNCHANGED <<up, shared>>
  BY DEF ServeOne, Serve, Upgrade, Refuse, Register, CloseDropped, Unregister,
         WriterSends, WriterFails, WriterEnds, wireVars, hubVars
<1>. QED BY <1>2, <1>3, <1>4, <1>5, <1>6

(* An edit pays for the one message the page may send about it.            *)
LEMMA PaidEdit ==
  ASSUME TypeOK, TypeOK', AllPaidFor, NEW b \in Browsers, NEW f \in Fields,
         NEW v \in Values, Edit(b, f, v), UNCHANGED shared
  PROVE  AllPaidFor'
<1>. SUFFICES ASSUME NEW g \in Fields \ Limited PROVE PaidFor(g)'
  BY DEF AllPaidFor
<1>. DEFINE m == [field |-> f, val |-> v]
            n == edits[g] - shared[g]
<1>1. up \in Queues /\ m \in Message /\ m.field = f
  BY DEF TypeOK, WireTypeOK, Queues, Message
<1>2. shared[g] <= edits[g] /\ Finite(Unread(up, g), n) /\ n \in Nat
  BY NumbersType DEF AllPaidFor, PaidFor
<1>3. edits'[g] = IF g = f THEN edits[g] + 1 ELSE edits[g]
  BY DEF Edit, TypeOK, ClientTypeOK
<1>4. \/ up' = up
      \/ up' = [up EXCEPT ![b] = Append(@, m)]
  BY DEF Edit, Change, Send
<1>. HIDE DEF m
<1>5. Finite(Unread(up', g), IF g = f THEN n + 1 ELSE n)
  <2>1. CASE up' = up
    BY <1>2, <2>1 DEF Finite
  <2>2. CASE up' = [up EXCEPT ![b] = Append(@, m)]
    BY <1>1, <1>2, <2>2, UnreadAppend
  <2>. QED BY <1>4, <2>1, <2>2
<1>6. /\ shared'[g] <= edits'[g]
      /\ edits'[g] - shared'[g] = IF g = f THEN n + 1 ELSE n
  BY <1>2, <1>3, NumbersType
<1>. QED BY <1>5, <1>6 DEF PaidFor, Unread

(* Nothing about a field without a limit is sent for what was received, or *)
(* when a wait is over.                                                    *)
LEMMA PaidReceive ==
  ASSUME TypeOK, NEW b \in Browsers, Receive(b) PROVE up' = up
<1>. DEFINE m == Head(down[b])
<1>1. m \in Message
  BY HeadTail DEF TypeOK, WireTypeOK, Receive
<1>2. [field |-> m.field, val |-> m.val] = m
  BY <1>1 DEF Message
<1>3. \/ UNCHANGED up
      \/ Send(b, [field |-> m.field, val |-> m.val], m)
  BY DEF Receive, Change
<1>. QED BY <1>2, <1>3 DEF Send, Sends

LEMMA PaidFlush ==
  ASSUME TypeOK, TypeOK', AllPaidFor, NEW b \in Browsers, NEW f \in Limited, Flush(b, f),
         UNCHANGED shared
  PROVE  AllPaidFor'
<1>. SUFFICES ASSUME NEW g \in Fields \ Limited PROVE PaidFor(g)'
  BY DEF AllPaidFor
<1>. DEFINE m == [field |-> f, val |-> val[b][f]]
            n == edits[g] - shared[g]
<1>1. up \in Queues /\ m \in Message /\ m.field = f /\ f # g
  <2>1. f \in Fields /\ val[b][f] \in Values
    BY ClientAssumption DEF TypeOK, ClientTypeOK
  <2>. QED BY <2>1 DEF TypeOK, WireTypeOK, Queues, Message
<1>2. shared[g] <= edits[g] /\ Finite(Unread(up, g), n) /\ n \in Nat
  BY NumbersType DEF AllPaidFor, PaidFor
<1>3. UNCHANGED edits
  BY DEF Flush
<1>4. up' = up \/ up' = [up EXCEPT ![b] = Append(@, m)]
  BY DEF Flush, Send
<1>. HIDE DEF m
<1>5. Finite(Unread(up', g), n)
  <2>1. CASE up' = [up EXCEPT ![b] = Append(@, m)]
    BY <1>1, <1>2, <2>1, UnreadAppend
  <2>. QED BY <1>2, <1>4, <2>1
<1>. QED BY <1>2, <1>3, <1>5 DEF PaidFor, Unread

LEMMA PaidBrowses ==
  ASSUME TypeOK, TypeOK', AllPaidFor, NEW b \in Browsers, Browse(b) \/ Go(b)
  PROVE  AllPaidFor'
<1>1. UNCHANGED shared
  BY DEF Browse, Go, hubVars
<1>2. CASE UserEdits(b)
  BY <1>1, <1>2, PaidEdit DEF UserEdits
<1>3. CASE \E f \in Limited : Flush(b, f)
  BY <1>1, <1>3, PaidFlush
<1>4. CASE UNCHANGED <<up, edits>>
  <2>1. \A c \in Browsers : Len(up[c]) \in Nat
    BY LenProperties DEF TypeOK, WireTypeOK
  <2>. QED BY <1>1, <1>4, <2>1, PaidCut
<1>5. CASE Receive(b)
  BY <1>4, <1>5, PaidReceive DEF Receive
<1>6. CASE Load(b) \/ Go(b)
  BY <1>4, <1>6 DEF Load, Go, Leave, Disconnect, Cut, clientVars
<1>. QED BY <1>2, <1>3, <1>5, <1>6 DEF Browse

LEMMA PaidStep == TypeOK /\ TypeOK' /\ AllPaidFor /\ [Next]_vars => AllPaidFor'
<1>. SUFFICES ASSUME TypeOK, TypeOK', AllPaidFor, [Next]_vars PROVE AllPaidFor'
  OBVIOUS
<1>1. CASE UNCHANGED vars
  BY <1>1 DEF vars, wireVars, hubVars, clientVars, AllPaidFor, PaidFor, Unread, Finite
<1>. QED BY <1>1, PaidServes, PaidBrowses DEF Next

(* No update is sent back by those who receive it: for any number of pages *)
(* and any edits, the hub shares no more updates of a field without a rate *)
(* limit than users made (onmessage, send).                                *)
THEOREM UpdatesAreNotEchoed == Spec => []NoEcho
<1>1. Init => AllPaidFor
  BY PaidInit
<1>2. TypeOK /\ TypeOK' /\ AllPaidFor /\ [Next]_vars => AllPaidFor'
  BY PaidStep
<1>3. AllPaidFor => NoEcho
  BY DEF AllPaidFor, PaidFor, NoEcho
<1>. QED BY <1>1, <1>2, <1>3, SharedFormTypeOK, PTL DEF Spec

-----------------------------------------------------------------------------
(* Messages about a field f in a queue: m is the last of them, or there is *)
(* none.                                                                   *)
About(q, f) == {i \in 1..Len(q) : q[i].field = f}

EndsWith(q, m, f) ==
  \E i \in About(q, f) : q[i] = m /\ \A j \in About(q, f) : j <= i

Free(q, f) == About(q, f) = {}

LEMMA AboutAppend ==
  ASSUME NEW q \in Seq(Message), NEW x \in Message, NEW f
  PROVE  /\ x.field = f => EndsWith(Append(q, x), x, f)
         /\ x.field # f => /\ \A m : EndsWith(q, m, f) => EndsWith(Append(q, x), m, f)
                           /\ Free(q, f) => Free(Append(q, x), f)
         /\ ~Free(q, f) => ~Free(Append(q, x), f)
<1>. DEFINE r == Append(q, x)
            n == Len(q)
<1>1. /\ n \in Nat /\ Len(r) = n + 1 /\ r[n + 1] = x
      /\ \A i \in 1..n : r[i] = q[i]
  BY AppendProperties, LenProperties
<1>. HIDE DEF r, n
<1>2. /\ About(q, f) = {i \in 1..n : q[i].field = f}
      /\ About(r, f) = {i \in 1..(n + 1) : r[i].field = f}
  BY <1>1 DEF About, n
<1>3. /\ About(q, f) \subseteq 1..n
      /\ \A i \in About(q, f) : i \in About(r, f) /\ r[i] = q[i]
      /\ \A i \in About(r, f) : i \in About(q, f) \/ i = n + 1
      /\ n + 1 \in About(r, f) <=> x.field = f
  BY <1>1, <1>2
<1>4. x.field = f => EndsWith(r, x, f)
  BY <1>1, <1>3 DEF EndsWith
<1>5. ASSUME x.field # f, NEW m, EndsWith(q, m, f) PROVE EndsWith(r, m, f)
  BY <1>1, <1>3, <1>5 DEF EndsWith
<1>6. x.field # f /\ Free(q, f) => Free(r, f)
  BY <1>3 DEF Free
<1>7. ~Free(q, f) => ~Free(r, f)
  BY <1>3 DEF Free
<1>. QED BY <1>4, <1>5, <1>6, <1>7 DEF r

LEMMA AboutTail ==
  ASSUME NEW q \in Seq(Message), q # <<>>, NEW f
  PROVE  /\ \A m : EndsWith(q, m, f) =>
              \/ EndsWith(Tail(q), m, f)
              \/ Free(Tail(q), f) /\ Head(q) = m /\ m.field = f
         /\ Free(q, f) => Free(Tail(q), f) /\ Head(q).field # f
         /\ ~Free(q, f) /\ Head(q).field # f => ~Free(Tail(q), f)
<1>. DEFINE r == Tail(q)
            h == Head(q)
            n == Len(q)
<1>1. /\ n \in Nat /\ n # 0 /\ Len(r) = n - 1 /\ h = q[1]
      /\ \A i \in 1..(n - 1) : r[i] = q[i + 1]
  BY HeadTailProperties, LenProperties, EmptySeq
<1>. HIDE DEF r, h, n
<1>2. /\ About(q, f) = {i \in 1..n : q[i].field = f}
      /\ About(r, f) = {i \in 1..(n - 1) : r[i].field = f}
  BY <1>1 DEF About, n
<1>3. /\ About(q, f) \subseteq 1..n /\ About(r, f) \subseteq 1..(n - 1)
      /\ \A i \in About(r, f) : i + 1 \in About(q, f) /\ r[i] = q[i + 1]
      /\ \A i \in About(q, f) : i = 1 \/ (i - 1 \in About(r, f) /\ r[i - 1] = q[i])
      /\ 1 \in About(q, f) <=> h.field = f
  BY <1>1, <1>2
<1>4. ASSUME NEW m, EndsWith(q, m, f)
      PROVE  EndsWith(r, m, f) \/ (Free(r, f) /\ h = m /\ m.field = f)
  <2>1. PICK i \in About(q, f) : q[i] = m /\ \A j \in About(q, f) : j <= i
    BY <1>4 DEF EndsWith
  <2>2. CASE i = 1
    <3>1. ASSUME NEW k \in About(r, f) PROVE FALSE
      <4>1. k \in Nat /\ k >= 1 /\ k + 1 \in About(q, f)
        BY <1>1, <1>3
      <4>2. k + 1 <= 1
        BY <2>1, <2>2, <4>1
      <4>. QED BY <4>1, <4>2
    <3>. QED BY <1>1, <1>3, <2>1, <2>2, <3>1 DEF Free
  <2>3. CASE i # 1
    <3>1. i - 1 \in About(r, f) /\ r[i - 1] = m /\ i \in Nat
      BY <1>1, <1>3, <2>1, <2>3
    <3>2. ASSUME NEW k \in About(r, f) PROVE k <= i - 1
      <4>1. k \in Nat /\ k + 1 <= i
        BY <1>1, <1>3, <2>1
      <4>. QED BY <3>1, <4>1
    <3>. QED BY <3>1, <3>2 DEF EndsWith
  <2>. QED BY <2>2, <2>3
<1>5. Free(q, f) => Free(r, f) /\ h.field # f
  BY <1>3 DEF Free
<1>6. ~Free(q, f) /\ h.field # f => ~Free(r, f)
  BY <1>3 DEF Free
<1>. QED BY <1>4, <1>5, <1>6 DEF r, h

-----------------------------------------------------------------------------
(* Where the last shared update m of f is on its way to a page: the last   *)
(* about f in its channel, or on the wire behind an empty channel, or      *)
(* arrived and shown, so that any edit makes a message worth sending; or   *)
(* the page has a newer one to share, and will not be among its receivers. *)
Way(inChan, inDown, inUp, shown, received, m, f) ==
  \/ EndsWith(inChan, m, f)
  \/ Free(inChan, f) /\ EndsWith(inDown, m, f)
  \/ /\ Free(inChan, f) /\ Free(inDown, f)
     /\ shown = m.val
     /\ received.field = f => received = m
  \/ ~Free(inUp, f)

OnItsWay ==
  /\ \A b \in reg : conn[b] = "open" => writer[b]
  /\ \A f \in Fields \ Limited : \A b \in last[f].to :
       /\ srv[b] \notin {"none", "registers"}
       /\ b \in reg /\ conn[b] = "open" =>
            Way(chan[b], down[b], up[b], val[b][f], lastReceived[b], last[f].msg, f)

LEMMA WayShared ==
  ASSUME NEW c \in Seq(Message), NEW d, NEW u, NEW v, NEW r, NEW m, NEW f,
         NEW x \in Message
  PROVE  /\ x.field = f => Way(Append(c, x), d, u, v, r, x, f)
         /\ x.field # f /\ Way(c, d, u, v, r, m, f) => Way(Append(c, x), d, u, v, r, m, f)
  BY AboutAppend DEF Way

LEMMA WayWritten ==
  ASSUME NEW c \in Seq(Message), c # <<>>, NEW d \in Seq(Message),
         NEW u, NEW v, NEW r, NEW m, NEW f, Way(c, d, u, v, r, m, f)
  PROVE  Way(Tail(c), Append(d, Head(c)), u, v, r, m, f)
<1>. DEFINE h == Head(c)
<1>1. h \in Message
  BY HeadTail
<1>2. CASE EndsWith(c, m, f)
  <2>1. CASE EndsWith(Tail(c), m, f)
    BY <2>1 DEF Way
  <2>2. CASE Free(Tail(c), f) /\ h = m /\ m.field = f
    BY <1>1, <2>2, AboutAppend DEF Way
  <2>. QED BY <1>2, <2>1, <2>2, AboutTail
<1>3. CASE Free(c, f)
  <2>1. Free(Tail(c), f) /\ h.field # f
    BY <1>3, AboutTail
  <2>2. /\ EndsWith(d, m, f) => EndsWith(Append(d, h), m, f)
        /\ Free(d, f) => Free(Append(d, h), f)
    BY <1>1, <2>1, AboutAppend
  <2>3. ~EndsWith(c, m, f)
    BY <1>3 DEF EndsWith, Free
  <2>. HIDE DEF h
  <2>. QED BY <1>3, <2>1, <2>2, <2>3 DEF Way, h
<1>4. CASE ~Free(u, f)
  BY <1>4 DEF Way
<1>. QED BY <1>2, <1>3, <1>4 DEF Way

LEMMA WayReceived ==
  ASSUME NEW c, NEW d \in Seq(Message), d # <<>>,
         NEW u, NEW v, NEW r, NEW m, NEW f, Way(c, d, u, v, r, m, f)
  PROVE  Way(c, Tail(d), u, IF Head(d).field = f THEN Head(d).val ELSE v, Head(d), m, f)
<1>. DEFINE h == Head(d)
<1>1. CASE EndsWith(c, m, f) \/ ~Free(u, f)
  BY <1>1 DEF Way
<1>2. CASE Free(c, f) /\ EndsWith(d, m, f)
  <2>1. CASE EndsWith(Tail(d), m, f)
    BY <1>2, <2>1 DEF Way
  <2>2. CASE Free(Tail(d), f) /\ h = m /\ m.field = f
    BY <1>2, <2>2 DEF Way
  <2>. QED BY <1>2, <2>1, <2>2, AboutTail
<1>3. CASE Free(c, f) /\ Free(d, f) /\ v = m.val
  <2>1. Free(Tail(d), f) /\ h.field # f
    BY <1>3, AboutTail
  <2>. QED BY <1>3, <2>1 DEF Way
<1>. QED BY <1>1, <1>2, <1>3 DEF Way

LEMMA WayEdited ==
  ASSUME NEW c, NEW d, NEW u \in Seq(Message), NEW v, NEW r, NEW m, NEW f \in Fields,
         NEW w \in Values, w # v, Way(c, d, u, v, r, m, f)
  PROVE  LET x == [field |-> f, val |-> w]
         IN Way(c, d, IF x # r THEN Append(u, x) ELSE u, w, r, m, f)
<1>. DEFINE x == [field |-> f, val |-> w]
<1>1. x \in Message /\ x.field = f /\ x.val = w
  BY DEF Message
<1>. HIDE DEF x
<1>2. ~Free(Append(u, x), f)
  BY <1>1, AboutAppend DEF EndsWith, Free
<1>3. CASE EndsWith(c, m, f) \/ (Free(c, f) /\ EndsWith(d, m, f))
  BY <1>3 DEF Way, x
<1>4. CASE ~Free(u, f)
  BY <1>1, <1>2, <1>4 DEF Way, x
<1>5. CASE v = m.val /\ (r.field = f => r = m)
  <2>1. x # r
    BY <1>1, <1>5
  <2>. QED BY <1>2, <2>1 DEF Way, x
<1>. QED BY <1>3, <1>4, <1>5 DEF Way

LEMMA Receivers ==
  ASSUME TypeOK, NEW f \in Fields PROVE last[f].to \subseteq Browsers
<1>1. last[f] \in Shares \cup {NoShare}
  BY DEF TypeOK, HubTypeOK
<1>. QED BY <1>1 DEF Shares, NoShare

(* What has to be shown of a step.                                         *)
LEMMA OnItsWayNext ==
  ASSUME \A b \in reg' : conn'[b] = "open" => writer'[b],
         \A f \in Fields \ Limited : \A b \in last'[f].to :
           /\ srv'[b] \notin {"none", "registers"}
           /\ b \in reg' /\ conn'[b] = "open" =>
                Way(chan'[b], down'[b], up'[b], val'[b][f], lastReceived'[b],
                    last'[f].msg, f)
  PROVE  OnItsWay'
  BY DEF OnItsWay, Way, EndsWith, Free, About

(* A step of the connection of c which only ends connections, or lets      *)
(* somebody join, or leave, who is not among the receivers of an update.   *)
LEMMA WayQuiet ==
  ASSUME TypeOK, OnItsWay, UNCHANGED <<val, lastReceived, last>>,
         \A b \in Browsers :
           /\ srv[b] \notin {"none", "registers"} => srv'[b] \notin {"none", "registers"}
           /\ b \in reg' /\ conn'[b] = "open" =>
                /\ writer'[b]
                /\ (b \in reg /\ conn[b] = "open") \/ srv[b] \in {"none", "registers"}
                /\ chan'[b] = chan[b] /\ down'[b] = down[b] /\ up'[b] = up[b],
         reg' \subseteq Browsers
  PROVE  OnItsWay'
<1>1. ASSUME NEW f \in Fields \ Limited, NEW b \in last'[f].to
      PROVE  /\ srv'[b] \notin {"none", "registers"}
             /\ b \in reg' /\ conn'[b] = "open" =>
                  Way(chan'[b], down'[b], up'[b], val'[b][f], lastReceived'[b],
                      last'[f].msg, f)
  <2>1. b \in last[f].to /\ b \in Browsers
    BY <1>1, Receivers
  <2>2. /\ srv[b] \notin {"none", "registers"}
        /\ b \in reg /\ conn[b] = "open" =>
             Way(chan[b], down[b], up[b], val[b][f], lastReceived[b], last[f].msg, f)
    BY <2>1 DEF OnItsWay
  <2>. QED BY <2>1, <2>2
<1>. QED BY <1>1, OnItsWayNext

LEMMA WayShare ==
  ASSUME TypeOK, Life, OnItsWay, NEW c \in Browsers, Share(c),
         UNCHANGED <<val, lastReceived>>
  PROVE  OnItsWay'
<1>. DEFINE m == Head(up[c])
            others == reg \ {c}
            room == {b \in others : Len(chan[b]) < BufSize}
            full == others \ room
<1>1. m \in Message /\ m.field \in Fields
  <2>1. m \in Message
    BY HeadTail DEF Share, TypeOK, WireTypeOK
  <2>. QED BY <2>1 DEF Message
<1>2. /\ last' = [last EXCEPT ![m.field] = [msg |-> m, from |-> c, to |-> others]]
      /\ reg' = reg \ full
      /\ \A b \in Browsers : chan'[b] = IF b \in room THEN Append(chan[b], m) ELSE chan[b]
      /\ up' = [up EXCEPT ![c] = Tail(@)] /\ up[c] # <<>>
      /\ UNCHANGED <<conn, down, srv, writer>>
  BY DEF Share
<1>3. reg \subseteq Browsers /\ \A b \in Browsers : chan[b] \in Seq(Message)
                              /\ up[b] \in Seq(Message)
  BY DEF TypeOK, HubTypeOK, WireTypeOK
<1>4. \A b \in reg' : conn'[b] = "open" => writer'[b]
  BY <1>2 DEF OnItsWay
<1>. HIDE DEF m
<1>5. ASSUME NEW f \in Fields \ Limited, NEW b \in last'[f].to
      PROVE  /\ srv'[b] \notin {"none", "registers"}
             /\ b \in reg' /\ conn'[b] = "open" =>
                  Way(chan'[b], down'[b], up'[b], val'[b][f], lastReceived'[b],
                      last'[f].msg, f)
  <2>1. CASE f = m.field
    <3>1. last'[f] = [msg |-> m, from |-> c, to |-> others]
      BY <1>1, <1>2, <2>1 DEF TypeOK, HubTypeOK
    <3>2. last'[f].msg = m /\ b \in others /\ b \in Browsers
      BY <1>3, <1>5, <3>1
    <3>3. srv[b] \notin {"none", "registers"}
      BY <3>2 DEF Life, LifeOf
    <3>4. b \in reg' => chan'[b] = Append(chan[b], m)
      BY <1>2, <3>2
    <3>. HIDE DEF others, room, full
    <3>. QED BY <1>1, <1>2, <1>3, <2>1, <3>2, <3>3, <3>4, WayShared
  <2>2. CASE f # m.field
    <3>1. last'[f] = last[f] /\ b \in last[f].to /\ b \in Browsers
      <4>1. last'[f] = last[f]
        BY <1>1, <1>2, <1>5, <2>2 DEF TypeOK, HubTypeOK
      <4>. QED BY <1>5, <4>1, Receivers
    <3>2. srv[b] \notin {"none", "registers"}
      BY <3>1 DEF OnItsWay
    <3>3. ASSUME b \in reg', conn'[b] = "open"
          PROVE  Way(chan'[b], down[b], up'[b], val[b][f], lastReceived[b], last[f].msg, f)
      <4>1. Way(chan[b], down[b], up[b], val[b][f], lastReceived[b], last[f].msg, f)
        BY <1>2, <3>1, <3>3 DEF OnItsWay
      <4>2. chan'[b] = chan[b] \/ chan'[b] = Append(chan[b], m)
        BY <1>2, <3>1
      <4>3. Way(chan'[b], down[b], up[b], val[b][f], lastReceived[b], last[f].msg, f)
        BY <1>1, <1>3, <2>2, <3>1, <4>1, <4>2, WayShared
      <4>4. ~Free(up[b], f) => ~Free(up'[b], f)
        <5>1. CASE b = c
          <6>1. up'[b] = Tail(up[c])
            BY <1>2, <5>1 DEF TypeOK, WireTypeOK
          <6>2. ~Free(up[c], f) => ~Free(Tail(up[c]), f)
            BY <1>2, <1>3, <2>2, AboutTail DEF m
          <6>. QED BY <5>1, <6>1, <6>2
        <5>2. CASE b # c
          BY <1>2, <3>1, <5>2 DEF TypeOK, WireTypeOK
        <5>. QED BY <5>1, <5>2
      <4>. QED BY <4>3, <4>4 DEF Way
    <3>. QED BY <1>2, <3>1, <3>2, <3>3
  <2>. QED BY <2>1, <2>2
<1>. QED BY <1>4, <1>5, OnItsWayNext

LEMMA WayWriterSends ==
  ASSUME TypeOK, OnItsWay, NEW c \in Browsers, WriterSends(c),
         UNCHANGED <<val, lastReceived>>
  PROVE  OnItsWay'
<1>1. /\ chan[c] # <<>> /\ chan[c] \in Seq(Message) /\ down[c] \in Seq(Message)
      /\ chan'[c] = Tail(chan[c]) /\ down'[c] = Append(down[c], Head(chan[c]))
      /\ \A b \in Browsers : b # c => chan'[b] = chan[b] /\ down'[b] = down[b]
      /\ UNCHANGED <<conn, up, reg, srv, writer, last>>
  BY DEF WriterSends, TypeOK, WireTypeOK, HubTypeOK
<1>2. ASSUME NEW f \in Fields \ Limited, NEW b \in last'[f].to
      PROVE  /\ srv'[b] \notin {"none", "registers"}
             /\ b \in reg' /\ conn'[b] = "open" =>
                  Way(chan'[b], down'[b], up'[b], val'[b][f], lastReceived'[b],
                      last'[f].msg, f)
  <2>1. b \in last[f].to /\ b \in Browsers
    BY <1>1, <1>2, Receivers
  <2>2. /\ srv[b] \notin {"none", "registers"}
        /\ b \in reg /\ conn[b] = "open" =>
             Way(chan[b], down[b], up[b], val[b][f], lastReceived[b], last[f].msg, f)
    BY <2>1 DEF OnItsWay
  <2>3. CASE b = c
    <3>1. ASSUME Way(chan[c], down[c], up[c], val[c][f], lastReceived[c], last[f].msg, f)
          PROVE  Way(Tail(chan[c]), Append(down[c], Head(chan[c])), up[c], val[c][f],
                     lastReceived[c], last[f].msg, f)
      BY <1>1, <3>1, WayWritten
    <3>. QED BY <1>1, <2>2, <2>3, <3>1
  <2>4. CASE b # c
    BY <1>1, <2>1, <2>2, <2>4
  <2>. QED BY <2>3, <2>4
<1>3. \A b \in reg' : conn'[b] = "open" => writer'[b]
  BY <1>1 DEF OnItsWay
<1>. QED BY <1>2, <1>3, OnItsWayNext

LEMMA WayServes ==
  ASSUME TypeOK, Life, OnItsWay, NEW c \in Browsers, ServeOne(c) PROVE OnItsWay'
<1>1. UNCHANGED <<val, lastReceived>>
  BY DEF ServeOne, clientVars, pageVars
<1>2. CASE Share(c)
  BY <1>1, <1>2, WayShare
<1>3. CASE WriterSends(c)
  BY <1>1, <1>3, WayWriterSends
<1>. USE DEF TypeOK, WireTypeOK, HubTypeOK
<1>4. CASE Upgrade(c)
  <2>1. c \notin reg
    BY <1>4 DEF Upgrade, Life, LifeOf
  <2>. QED BY <1>1, <1>4, <2>1, WayQuiet DEF Upgrade, OnItsWay, Life, LifeOf
<1>5. CASE Refuse(c)
  BY <1>1, <1>5, WayQuiet DEF Refuse, hubVars, serverVars, OnItsWay
<1>6. CASE Register(c)
  BY <1>1, <1>6, WayQuiet DEF Register, wireVars, OnItsWay
<1>7. CASE CloseDropped(c)
  BY <1>1, <1>7, WayQuiet DEF CloseDropped, ServerCloses, hubVars, serverVars, OnItsWay
<1>8. CASE ReaderEnds(c)
  BY <1>1, <1>8, WayQuiet DEF ReaderEnds, OnItsWay
<1>9. CASE Unregister(c)
  <2>1. \A b \in Browsers : /\ b # c => srv'[b] = srv[b]
                            /\ conn'[b] = "open" => conn[b] = "open"
    BY <1>9 DEF Unregister
  <2>2. /\ reg' = reg \ {c} /\ srv'[c] = "done"
        /\ UNCHANGED <<up, down, writer, chan, last>>
    BY <1>9 DEF Unregister
  <2>. QED BY <1>1, <2>1, <2>2, WayQuiet DEF OnItsWay
<1>10. CASE WriterFails(c)
  BY <1>1, <1>10, WayQuiet DEF WriterFails, wireVars, OnItsWay
<1>11. CASE WriterEnds(c)
  <2>1. c \notin reg
    BY <1>11 DEF WriterEnds, Life, LifeOf
  <2>2. CASE ServerCloses(c)
    BY <1>1, <1>11, <2>1, <2>2, WayQuiet DEF WriterEnds, ServerCloses, OnItsWay
  <2>3. CASE UNCHANGED wireVars
    BY <1>1, <1>11, <2>1, <2>3, WayQuiet DEF WriterEnds, wireVars, OnItsWay
  <2>. QED BY <1>11, <2>2, <2>3 DEF WriterEnds
<1>. QED
  BY <1>2, <1>3, <1>4, <1>5, <1>6, <1>7, <1>8, <1>9, <1>10, <1>11 DEF ServeOne, Serve

(* A page that sends something has no less to share than before.           *)
LEMMA WaySaid ==
  ASSUME NEW c, NEW d, NEW u \in Seq(Message), NEW v, NEW r, NEW m, NEW f,
         NEW w, NEW x \in Message, w = u \/ w = Append(u, x),
         Way(c, d, u, v, r, m, f)
  PROVE  Way(c, d, w, v, r, m, f)
<1>1. ~Free(u, f) => ~Free(w, f)
  BY AboutAppend
<1>. QED BY <1>1 DEF Way

(* A step of the page of c, which the hub does not notice: what it is      *)
(* waiting for is still on its way.                                        *)
LEMMA WayPage ==
  ASSUME TypeOK, OnItsWay, NEW c \in Browsers,
         UNCHANGED <<conn, chan, reg, srv, writer, last>>,
         \A b \in Browsers : b # c => /\ down'[b] = down[b] /\ up'[b] = up[b]
                                      /\ val'[b] = val[b]
                                      /\ lastReceived'[b] = lastReceived[b],
         \A f \in Fields \ Limited : \A m :
           conn[c] = "open" /\ Way(chan[c], down[c], up[c], val[c][f], lastReceived[c], m, f)
           => Way(chan[c], down'[c], up'[c], val'[c][f], lastReceived'[c], m, f)
  PROVE  OnItsWay'
<1>1. ASSUME NEW f \in Fields \ Limited, NEW b \in last'[f].to
      PROVE  /\ srv'[b] \notin {"none", "registers"}
             /\ b \in reg' /\ conn'[b] = "open" =>
                  Way(chan'[b], down'[b], up'[b], val'[b][f], lastReceived'[b],
                      last'[f].msg, f)
  <2>1. b \in last[f].to /\ b \in Browsers
    BY <1>1, Receivers
  <2>2. /\ srv[b] \notin {"none", "registers"}
        /\ b \in reg /\ conn[b] = "open" =>
             Way(chan[b], down[b], up[b], val[b][f], lastReceived[b], last[f].msg, f)
    BY <2>1 DEF OnItsWay
  <2>3. CASE b = c
    BY <2>2, <2>3
  <2>4. CASE b # c
    BY <2>1, <2>2, <2>4
  <2>. QED BY <2>3, <2>4
<1>2. \A b \in reg' : conn'[b] = "open" => writer'[b]
  BY DEF OnItsWay
<1>. QED BY <1>1, <1>2, OnItsWayNext

LEMMA WayUserEdits ==
  ASSUME TypeOK, OnItsWay, NEW c \in Browsers, UserEdits(c), UNCHANGED hubVars
  PROVE  OnItsWay'
<1>1. PICK g \in Fields, w \in Values : Edit(c, g, w)
  BY DEF UserEdits
<1>. DEFINE x == [field |-> g, val |-> w]
<1>2. /\ x \in Message /\ x.field = g
      /\ up[c] \in Seq(Message)
  BY DEF Message, TypeOK, WireTypeOK
<1>3. /\ w # val[c][g]
      /\ val' = [val EXCEPT ![c][g] = w]
      /\ UNCHANGED <<conn, down, lastReceived, chan, reg, srv, writer, last>>
      /\ g \in Limited => up' = up
      /\ g \notin Limited => Send(c, x, lastReceived[c])
  BY <1>1 DEF Edit, Change, hubVars, serverVars
<1>4. /\ \A b \in Browsers : b # c => up'[b] = up[b] /\ val'[b] = val[b]
      /\ \A f \in Fields : f # g => val'[c][f] = val[c][f]
      /\ val'[c][g] = w
  BY <1>3 DEF Send, TypeOK, WireTypeOK, ClientTypeOK
<1>5. up'[c] = up[c] \/ up'[c] = Append(up[c], x)
  BY <1>3 DEF Send, TypeOK, WireTypeOK
<1>6. conn[c] = "open" /\ g \notin Limited
        => up'[c] = IF x # lastReceived[c] THEN Append(up[c], x) ELSE up[c]
  BY <1>3 DEF Send, Sends, TypeOK, WireTypeOK
<1>7. ASSUME NEW f \in Fields \ Limited, NEW m, conn[c] = "open",
             Way(chan[c], down[c], up[c], val[c][f], lastReceived[c], m, f)
      PROVE  Way(chan[c], down'[c], up'[c], val'[c][f], lastReceived'[c], m, f)
  <2>1. CASE f = g
    <3>. HIDE DEF x
    <3>1. Way(chan[c], down[c], IF x # lastReceived[c] THEN Append(up[c], x) ELSE up[c], w,
              lastReceived[c], m, f)
      BY <1>2, <1>3, <1>7, <2>1, WayEdited DEF x
    <3>. QED BY <1>3, <1>4, <1>6, <1>7, <2>1, <3>1
  <2>2. CASE f # g
    <3>. HIDE DEF x
    <3>1. Way(chan[c], down[c], up'[c], val[c][f], lastReceived[c], m, f)
      BY <1>2, <1>5, <1>7, WaySaid
    <3>. QED BY <1>3, <1>4, <2>2, <3>1
  <2>. QED BY <2>1, <2>2
<1>. QED BY <1>3, <1>4, <1>7, WayPage

LEMMA WayReceive ==
  ASSUME TypeOK, OnItsWay, NEW c \in Browsers, Receive(c), UNCHANGED hubVars
  PROVE  OnItsWay'
<1>. DEFINE h == Head(down[c])
<1>1. down[c] \in Seq(Message) /\ down[c] # <<>> /\ h \in Message
  BY HeadTail DEF Receive, TypeOK, WireTypeOK
<1>2. h.field \in Fields /\ h.val \in Values
  BY <1>1 DEF Message
<1>3. /\ down' = [down EXCEPT ![c] = Tail(@)]
      /\ lastReceived' = [lastReceived EXCEPT ![c] = h]
      /\ \/ val' = [val EXCEPT ![c][h.field] = h.val]
         \/ val' = val /\ h.val = val[c][h.field]
      /\ UNCHANGED <<conn, chan, reg, srv, writer, last>>
  BY DEF Receive, Change, hubVars, serverVars
<1>. HIDE DEF h
<1>4. /\ \A b \in Browsers : b # c => /\ down'[b] = down[b] /\ val'[b] = val[b]
                                      /\ lastReceived'[b] = lastReceived[b]
      /\ down'[c] = Tail(down[c]) /\ lastReceived'[c] = h
      /\ \A f \in Fields : val'[c][f] = IF h.field = f THEN h.val ELSE val[c][f]
  BY <1>2, <1>3 DEF TypeOK, WireTypeOK, ClientTypeOK
<1>5. up' = up
  BY PaidReceive
<1>6. ASSUME NEW f \in Fields \ Limited, NEW m, conn[c] = "open",
             Way(chan[c], down[c], up[c], val[c][f], lastReceived[c], m, f)
      PROVE  Way(chan[c], down'[c], up'[c], val'[c][f], lastReceived'[c], m, f)
  <2>1. Way(chan[c], Tail(down[c]), up[c], IF h.field = f THEN h.val ELSE val[c][f], h, m, f)
    BY <1>1, <1>6, WayReceived DEF h
  <2>. QED BY <1>4, <1>5, <2>1
<1>. QED BY <1>3, <1>4, <1>5, <1>6, WayPage

LEMMA WayFlush ==
  ASSUME TypeOK, OnItsWay, NEW c \in Browsers, NEW g \in Limited, Flush(c, g),
         UNCHANGED hubVars
  PROVE  OnItsWay'
<1>. DEFINE x == [field |-> g, val |-> val[c][g]]
<1>1. x \in Message /\ up[c] \in Seq(Message)
  BY ClientAssumption DEF Message, TypeOK, WireTypeOK, ClientTypeOK
<1>2. /\ UNCHANGED <<conn, down, val, lastReceived, chan, reg, srv, writer, last>>
      /\ up' = up \/ up' = [up EXCEPT ![c] = Append(@, x)]
  BY DEF Flush, Send, hubVars, serverVars
<1>3. /\ \A b \in Browsers : b # c => up'[b] = up[b]
      /\ up'[c] = up[c] \/ up'[c] = Append(up[c], x)
  BY <1>2 DEF TypeOK, WireTypeOK
<1>4. ASSUME NEW f \in Fields \ Limited, NEW m, conn[c] = "open",
             Way(chan[c], down[c], up[c], val[c][f], lastReceived[c], m, f)
      PROVE  Way(chan[c], down'[c], up'[c], val'[c][f], lastReceived'[c], m, f)
  <2>. HIDE DEF x
  <2>1. Way(chan[c], down[c], up'[c], val[c][f], lastReceived[c], m, f)
    BY <1>1, <1>3, <1>4, WaySaid
  <2>. QED BY <1>2, <2>1
<1>. QED BY <1>2, <1>3, <1>4, WayPage

LEMMA WayBrowses ==
  ASSUME TypeOK, Life, OnItsWay, NEW c \in Browsers, Browse(c) \/ Go(c)
  PROVE  OnItsWay'
<1>1. UNCHANGED hubVars
  BY DEF Browse, Go
<1>2. CASE Load(c) \/ Go(c)
  <2>1. UNCHANGED <<up, val, lastReceived, last, reg, srv, writer, chan>>
    BY <1>1, <1>2 DEF Load, Go, Leave, Disconnect, Cut, clientVars, pageVars,
                      hubVars, serverVars
  <2>2. \A b \in Browsers :
          conn'[b] = "open" => b # c /\ conn[b] = "open" /\ down'[b] = down[b]
    BY <1>2 DEF Load, Go, Leave, Disconnect, Cut, TypeOK, WireTypeOK
  <2>3. reg \subseteq Browsers
    BY DEF TypeOK, HubTypeOK
  <2>. QED BY <2>1, <2>2, <2>3, WayQuiet DEF OnItsWay
<1>3. CASE UserEdits(c)
  BY <1>1, <1>3, WayUserEdits
<1>4. CASE Receive(c)
  BY <1>1, <1>4, WayReceive
<1>5. CASE \E f \in Limited : Flush(c, f)
  BY <1>1, <1>5, WayFlush
<1>. QED BY <1>2, <1>3, <1>4, <1>5 DEF Browse

LEMMA OnItsWayStep == TypeOK /\ Life /\ OnItsWay /\ [Next]_vars => OnItsWay'
<1>. SUFFICES ASSUME TypeOK, Life, OnItsWay, [Next]_vars PROVE OnItsWay'
  OBVIOUS
<1>1. CASE UNCHANGED vars
  BY <1>1 DEF vars, wireVars, hubVars, serverVars, clientVars, pageVars, OnItsWay, Way,
              EndsWith, Free, About
<1>. QED BY <1>1, WayServes, WayBrowses DEF Next

(* For any number of pages, and however clients join, leave, are dropped   *)
(* and lost: when nothing is under way, everybody the hub passed the last  *)
(* update of a field without a rate limit to shows it, if still connected  *)
(* (hub.run, the writer, onmessage, send).                                 *)
THEOREM LastShareIsShown == Spec => []LastShareShows
<1>1. Init => OnItsWay
  BY DEF Init, HubInit, NoShare, OnItsWay
<1>2. TypeOK /\ Life /\ OnItsWay /\ [Next]_vars => OnItsWay'
  BY OnItsWayStep
<1>3. TypeOK /\ OnItsWay => LastShareShows
  <2>. SUFFICES ASSUME TypeOK, OnItsWay, Quiet,
                       NEW f \in Fields \ Limited, NEW b \in last[f].to, conn[b] = "open"
                PROVE  val[b][f] = last[f].msg.val
    BY DEF LastShareShows
  <2>1. b \in Browsers
    BY Receivers
  <2>2. b \in reg /\ up[b] = <<>> /\ down[b] = <<>> /\ chan[b] = <<>>
    BY <2>1 DEF Quiet, OnItsWay
  <2>3. Way(<<>>, <<>>, <<>>, val[b][f], lastReceived[b], last[f].msg, f)
    BY <2>2 DEF OnItsWay
  <2>4. About(<<>>, f) = {}
    BY DEF About
  <2>. QED BY <2>3, <2>4 DEF Way, EndsWith, Free
<1>. QED BY <1>1, <1>2, <1>3, SharedFormTypeOK, LifeAlways, PTL DEF Spec
=============================================================================
