-------------------------- MODULE BakeryDistProofs --------------------------
(***************************************************************************)
(* Proofs about BakeryDist for any number of hosts, iterations and deaths. *)
(***************************************************************************)
EXTENDS BakeryDist, TLAPS

(* What a host knows about its own loops and ticket. *)
Own(h) ==
  /\ todo[h] # {} /\ todo[h] \subseteq Others(h)
  /\ pc[h] \in {"choose", "take", "unchoose"} \cup Critical => todo[h] = Others(h)
  /\ pc[h] \in {"max", "take", "unchoose"} => choosing[h]
  /\ pc[h] \in Waiting \cup Critical => number[h] > 0
  /\ pc[h] \in Choosing \cup Waiting \cup Critical => left[h] > 0
  /\ pc[h] \in Ending => left[h] = 0

(* Where h has told k that it is up, and where that it is down again. *)
ToldUp(h, k) == pc[h] = "announce" => k \notin todo[h]
ToldDown(h, k) ==
  \/ pc[h] \in {"waitdown", "gone", "dead"}
  \/ pc[h] = "goodbye" /\ k \notin todo[h]
  \/ pc[h] = "told" /\ (k \notin todo[h] \/ NextHost(h, k))

(* k's copy of h's state, and what k has seen of it. *)
Copy(h, k) ==
  /\ ToldUp(h, k) /\ ~ToldDown(h, k) => live[k][h]
  /\ live[k][h] => ToldUp(h, k)
  /\ pc[k] \notin Starting \cup {"dead"} => ToldUp(h, k)
  /\ pc[k] = "waitup" /\ h \notin todo[k] => ToldUp(h, k)
  /\ pc[k] = "waitdown" /\ h \notin todo[k] => ToldDown(h, k)
  /\ pc[k] = "gone" => ToldDown(h, k)

(* k reads p's ticket before it takes its own, and takes a later one. *)
WillSee(p, k) ==
  /\ pc[k] = "max" => p \in todo[k] \/ highest[k] >= number[p]
  /\ pc[k] = "take" => highest[k] >= number[p]

Before(p, k) ==
  /\ WillSee(p, k)
  /\ pc[k] \in Waiting \cup Critical => Lt(number[p], p, number[k], k)

(* p is before every host it has waited for. *)
Passed(p, k) ==
  /\ pc[p] \in Critical => Before(p, k)
  /\ pc[p] \in {"waitchoose", "waitnum"} /\ k \notin todo[p] => Before(p, k)
  /\ pc[p] = "waitnum" /\ NextHost(p, k) => WillSee(p, k)

(* h died in the critical section: k does not get past it. *)
Stuck(k, h) ==
  /\ live[k][h]
  /\ pc[k] \notin Critical
  /\ pc[k] \in {"waitchoose", "waitnum"} => h \in todo[k]

(* The observer's owner is the host that is there, or has died there. *)
Owner(h) ==
  /\ pc[h] \in {"cs", "exiting"} => owner = h
  /\ owner = h =>
       \/ pc[h] \in {"cs", "exiting"}
       \/ pc[h] = "dead" /\ \A k \in Others(h) : Stuck(k, h)

BInv ==
  /\ TypeOK
  /\ \A h \in Hosts : Own(h)
  /\ \A h, k \in Hosts : h # k => Copy(h, k)
  /\ \A p, k \in Hosts : p # k => Passed(p, k)

OInv ==
  /\ \A h \in Hosts : Owner(h)
  /\ ~violation
  /\ NobodyLeavesEarly

(* What a host does. *)
LEMMA StepCases ==
  ASSUME NEW x \in Hosts, Step(x) \/ Die(x)
  PROVE  \/ \E y \in Hosts :
              /\ NextHost(x, y)
              /\ \/ AnnounceUp(x, y) \/ SeeUp(x, y) \/ LookAgain(x, y)
                 \/ ReadMax(x, y) \/ SeeChosen(x, y) \/ SeeNumber(x, y)
                 \/ AnnounceDown(x, y) \/ DownReply(x, y) \/ SeeDown(x, y)
                 \/ CallFails(x, y)
         \/ Choose(x) \/ Take(x) \/ Unchoose(x) \/ Leave(x)
         \/ EnterCS(x) \/ ExitCS(x) \/ Die(x)
BY DEF Step

(* A loop over the other hosts: one is done, and what is left.             *)
Looped(h, k, again, then) ==
  /\ k # h /\ k \in todo[h]
  /\ \/ todo[h] = {k} /\ pc'[h] = then /\ todo'[h] = Others(h)
     \/ todo[h] # {k} /\ pc'[h] = again /\ todo'[h] = todo[h] \ {k}
  /\ todo'[h] # {} /\ todo'[h] \subseteq Others(h)
  /\ \A l \in Hosts \ {h} : pc'[l] = pc[l] /\ todo'[l] = todo[l]
  /\ todo' \in [Hosts -> SUBSET Hosts]
  /\ again \in Places /\ then \in Places => pc' \in [Hosts -> Places]

LEMMA Loop ==
  ASSUME TypeOK, NEW h \in Hosts, Own(h), NEW k \in Hosts, NextHost(h, k),
         NEW again, NEW then, Advance(h, k, again, then)
  PROVE  Looped(h, k, again, then)
<1> USE DEF TypeOK, Own, NextHost, Advance, Others, Looped
<1>1. k # h /\ k \in todo[h]
  OBVIOUS
<1>2. Others(h) # {}
  BY <1>1
<1>3. todo[h] # {k} => todo[h] \ {k} # {}
  BY <1>1
<1> QED
  BY <1>1, <1>2, <1>3

(* What the other hosts keep. *)
Same(h) ==
  /\ pc'[h] = pc[h] /\ todo'[h] = todo[h] /\ choosing'[h] = choosing[h]
  /\ number'[h] = number[h] /\ highest'[h] = highest[h] /\ left'[h] = left[h]

LEMMA Frame ==
  ASSUME BInv, NEW x \in Hosts, Step(x) \/ Die(x), NEW h \in Hosts \ {x}
  PROVE  Same(h)
<1> USE DEF Same
<1>0. TypeOK /\ Own(x)
  BY DEF BInv
<1>1. ASSUME NEW y \in Hosts, NextHost(x, y), AnnounceUp(x, y)
      PROVE  Same(h)
  <2>1. Looped(x, y, "announce", "waitup")
    BY <1>0, <1>1, Loop DEF AnnounceUp
  <2> QED
    BY <1>0, <2>1, <1>1 DEF Looped, AnnounceUp, TypeOK
<1>2. ASSUME NEW y \in Hosts, NextHost(x, y), SeeUp(x, y)
      PROVE  Same(h)
  <2>1. Looped(x, y, "waitup", IF left[x] = 0 THEN "goodbye" ELSE "choose")
    BY <1>0, <1>2, Loop DEF SeeUp
  <2> QED
    BY <1>0, <2>1, <1>2 DEF Looped, SeeUp, TypeOK
<1>3. ASSUME NEW y \in Hosts, NextHost(x, y), LookAgain(x, y)
      PROVE  Same(h)
  BY <1>0, <1>3 DEF LookAgain, TypeOK
<1>4. ASSUME NEW y \in Hosts, NextHost(x, y), ReadMax(x, y)
      PROVE  Same(h)
  <2>1. Looped(x, y, "max", "take")
    BY <1>0, <1>4, Loop DEF ReadMax
  <2> QED
    BY <1>0, <2>1, <1>4 DEF Looped, ReadMax, NumOfHost, TypeOK
<1>5. ASSUME NEW y \in Hosts, NextHost(x, y), SeeChosen(x, y)
      PROVE  Same(h)
  BY <1>0, <1>5 DEF SeeChosen, TypeOK
<1>6. ASSUME NEW y \in Hosts, NextHost(x, y), SeeNumber(x, y)
      PROVE  Same(h)
  <2>1. Looped(x, y, "waitchoose", "enter")
    BY <1>0, <1>6, Loop DEF SeeNumber
  <2> QED
    BY <1>0, <2>1, <1>6 DEF Looped, SeeNumber, NumOfHost, TypeOK
<1>7. ASSUME NEW y \in Hosts, NextHost(x, y), AnnounceDown(x, y)
      PROVE  Same(h)
  BY <1>0, <1>7 DEF AnnounceDown, TypeOK
<1>17. ASSUME NEW y \in Hosts, NextHost(x, y), DownReply(x, y)
      PROVE  Same(h)
  <2>1. Looped(x, y, "goodbye", "waitdown")
    BY <1>0, <1>17, Loop DEF DownReply
  <2> QED
    BY <1>0, <2>1, <1>17 DEF Looped, DownReply, TypeOK
<1>8. ASSUME NEW y \in Hosts, NextHost(x, y), SeeDown(x, y)
      PROVE  Same(h)
  <2>1. Looped(x, y, "waitdown", "gone")
    BY <1>0, <1>8, Loop DEF SeeDown
  <2> QED
    BY <1>0, <2>1, <1>8 DEF Looped, SeeDown, TypeOK
<1>9. ASSUME NEW y \in Hosts, NextHost(x, y), CallFails(x, y)
      PROVE  Same(h)
  BY <1>0, <1>9 DEF CallFails, TypeOK
<1>10. ASSUME Choose(x)
      PROVE  Same(h)
  BY <1>0, <1>10 DEF Choose, TypeOK
<1>11. ASSUME Take(x)
      PROVE  Same(h)
  BY <1>0, <1>11 DEF Take, TypeOK
<1>12. ASSUME Unchoose(x)
      PROVE  Same(h)
  BY <1>0, <1>12 DEF Unchoose, TypeOK
<1>13. ASSUME Leave(x)
      PROVE  Same(h)
  BY <1>0, <1>13 DEF Leave, TypeOK
<1>14. ASSUME EnterCS(x)
      PROVE  Same(h)
  BY <1>0, <1>14 DEF EnterCS, Object, TypeOK
<1>15. ASSUME ExitCS(x)
      PROVE  Same(h)
  BY <1>0, <1>15 DEF ExitCS, Object, TypeOK
<1>16. ASSUME Die(x)
      PROVE  Same(h)
  BY <1>0, <1>16 DEF Die, Running, TypeOK
<1> QED
  BY StepCases, <1>1, <1>2, <1>3, <1>4, <1>5, <1>6, <1>7, <1>8, <1>9, <1>10, <1>11, <1>12, <1>13, <1>14, <1>15, <1>16, <1>17

(* A step keeps the types. *)
LEMMA TypeStep ==
  ASSUME BInv, NEW x \in Hosts, Step(x) \/ Die(x)
  PROVE  TypeOK'
<1> USE BakeryAssumption DEF TypeOK, Nobody
<1>0. TypeOK /\ (\A h \in Hosts : Own(h)) /\ left[x] \in Nat /\ left[x] \in 0..NIters[x]
  BY DEF BInv
<1>p. {"waitup", "choose", "max", "take", "unchoose", "waitchoose", "waitnum",
        "enter", "entering", "cs", "exiting", "leave", "goodbye", "told", "waitdown",
        "gone", "dead", "announce"} \subseteq Places
  BY DEF Places, Starting, Choosing, Waiting, Critical, Ending
<1>1. ASSUME NEW y \in Hosts, NextHost(x, y), AnnounceUp(x, y)
      PROVE  TypeOK'
  <2>1. Looped(x, y, "announce", "waitup")
    BY <1>0, <1>1, Loop DEF AnnounceUp
  <2> QED
    BY <1>0, <1>p, <2>1, <1>1 DEF Looped, AnnounceUp
<1>2. ASSUME NEW y \in Hosts, NextHost(x, y), SeeUp(x, y)
      PROVE  TypeOK'
  <2>1. Looped(x, y, "waitup", IF left[x] = 0 THEN "goodbye" ELSE "choose")
    BY <1>0, <1>2, Loop DEF SeeUp
  <2> QED
    BY <1>0, <1>p, <2>1, <1>2 DEF Looped, SeeUp
<1>3. ASSUME NEW y \in Hosts, NextHost(x, y), LookAgain(x, y)
      PROVE  TypeOK'
  BY <1>0, <1>p, <1>3 DEF LookAgain, Others
<1>4. ASSUME NEW y \in Hosts, NextHost(x, y), ReadMax(x, y)
      PROVE  TypeOK'
  <2>1. Looped(x, y, "max", "take")
    BY <1>0, <1>4, Loop DEF ReadMax
  <2> QED
    BY <1>0, <1>p, <2>1, <1>4 DEF Looped, ReadMax, NumOfHost
<1>5. ASSUME NEW y \in Hosts, NextHost(x, y), SeeChosen(x, y)
      PROVE  TypeOK'
  BY <1>0, <1>p, <1>5 DEF SeeChosen
<1>6. ASSUME NEW y \in Hosts, NextHost(x, y), SeeNumber(x, y)
      PROVE  TypeOK'
  <2>1. Looped(x, y, "waitchoose", "enter")
    BY <1>0, <1>6, Loop DEF SeeNumber
  <2> QED
    BY <1>0, <1>p, <2>1, <1>6 DEF Looped, SeeNumber, NumOfHost
<1>7. ASSUME NEW y \in Hosts, NextHost(x, y), AnnounceDown(x, y)
      PROVE  TypeOK'
  BY <1>0, <1>p, <1>7 DEF AnnounceDown
<1>17. ASSUME NEW y \in Hosts, NextHost(x, y), DownReply(x, y)
      PROVE  TypeOK'
  <2>1. Looped(x, y, "goodbye", "waitdown")
    BY <1>0, <1>17, Loop DEF DownReply
  <2> QED
    BY <1>0, <1>p, <2>1, <1>17 DEF Looped, DownReply
<1>8. ASSUME NEW y \in Hosts, NextHost(x, y), SeeDown(x, y)
      PROVE  TypeOK'
  <2>1. Looped(x, y, "waitdown", "gone")
    BY <1>0, <1>8, Loop DEF SeeDown
  <2> QED
    BY <1>0, <1>p, <2>1, <1>8 DEF Looped, SeeDown
<1>9. ASSUME NEW y \in Hosts, NextHost(x, y), CallFails(x, y)
      PROVE  TypeOK'
  BY <1>0, <1>p, <1>9 DEF CallFails
<1>10. ASSUME Choose(x)
      PROVE  TypeOK'
  BY <1>0, <1>p, <1>10 DEF Choose
<1>11. ASSUME Take(x)
      PROVE  TypeOK'
  BY <1>0, <1>p, <1>11 DEF Take
<1>12. ASSUME Unchoose(x)
      PROVE  TypeOK'
  BY <1>0, <1>p, <1>12 DEF Unchoose
<1>13. ASSUME Leave(x)
      PROVE  TypeOK'
  <2>1. left[x] > 0
    BY <1>0, <1>13 DEF Own, Leave, Critical
  <2>2. left' \in [Hosts -> Nat] /\ \A h \in Hosts : left'[h] \in 0..NIters[h]
    <3>1. left[x] - 1 \in Nat /\ left[x] - 1 \in 0..NIters[x]
      BY <1>0, <2>1, SMT DEF Hosts
    <3> QED
      BY <3>1, <1>0, <1>13 DEF Leave
  <2>3. pc' \in [Hosts -> Places] /\ number' \in [Hosts -> Nat]
    BY <1>0, <1>p, <1>13 DEF Leave
  <2> QED
    BY <2>2, <2>3, <1>0, <1>13 DEF Leave
<1>14. ASSUME EnterCS(x)
      PROVE  TypeOK'
  BY <1>0, <1>p, <1>14 DEF EnterCS, Object
<1>15. ASSUME ExitCS(x)
      PROVE  TypeOK'
  BY <1>0, <1>p, <1>15 DEF ExitCS, Object
<1>16. ASSUME Die(x)
      PROVE  TypeOK'
  BY <1>0, <1>p, <1>16 DEF Die, Running
<1> QED
  BY StepCases, <1>1, <1>2, <1>3, <1>4, <1>5, <1>6, <1>7, <1>8, <1>9, <1>10, <1>11, <1>12, <1>13, <1>14, <1>15, <1>16, <1>17

(* A step keeps what a host knows of itself. *)
LEMMA OwnStep ==
  ASSUME BInv, NEW x \in Hosts, Step(x) \/ Die(x), NEW h \in Hosts
  PROVE  Own(h)'
<1> USE BakeryAssumption DEF Hosts, Others, Nobody, Starting, Choosing, Waiting, Critical, Ending
<1>0. TypeOK /\ (\A k \in Hosts : Own(k)) /\ Own(h) /\ Own(x)
  BY DEF BInv
<1>a. CASE h # x
  <2>1. Same(h)
    BY <1>a, Frame
  <2> QED
    BY <1>0, <2>1 DEF Own, Same
<1>b. CASE h = x
  <2>1. ASSUME NEW y \in Hosts, NextHost(x, y), AnnounceUp(x, y)
        PROVE  Own(h)'
    <3>1. Looped(x, y, "announce", "waitup")
      BY <1>0, <2>1, Loop DEF AnnounceUp
    <3> QED
      BY <1>0, <1>b, <3>1, <2>1 DEF Looped, AnnounceUp, Own, TypeOK
  <2>2. ASSUME NEW y \in Hosts, NextHost(x, y), SeeUp(x, y)
        PROVE  Own(h)'
    <3>1. Looped(x, y, "waitup", IF left[x] = 0 THEN "goodbye" ELSE "choose")
      BY <1>0, <2>2, Loop DEF SeeUp
    <3>2. pc[x] = "waitup" /\ left'[x] = left[x] /\ left[x] \in Nat
      BY <1>0, <2>2 DEF SeeUp, TypeOK
    <3>3. left[x] # 0 => left[x] > 0
      BY <3>2
    <3>4. \/ pc'[x] = "waitup"
          \/ pc'[x] = "goodbye" /\ left'[x] = 0
          \/ pc'[x] = "choose" /\ left'[x] > 0 /\ todo'[x] = Others(x)
      <4>1. CASE left[x] = 0
        BY <3>1, <3>2, <4>1 DEF Looped
      <4>2. CASE left[x] # 0
        BY <3>1, <3>2, <3>3, <4>2 DEF Looped
      <4> QED
        BY <4>1, <4>2
    <3> QED
      BY <1>b, <3>1, <3>4 DEF Looped, Own
  <2>3. ASSUME NEW y \in Hosts, NextHost(x, y), LookAgain(x, y)
        PROVE  Own(h)'
    BY <1>0, <1>b, <2>3 DEF LookAgain, Own, TypeOK, NextHost
  <2>4. ASSUME NEW y \in Hosts, NextHost(x, y), ReadMax(x, y)
        PROVE  Own(h)'
    <3>1. Looped(x, y, "max", "take")
      BY <1>0, <2>4, Loop DEF ReadMax
    <3> QED
      BY <1>0, <1>b, <3>1, <2>4 DEF Looped, ReadMax, NumOfHost, Own, TypeOK
  <2>5. ASSUME NEW y \in Hosts, NextHost(x, y), SeeChosen(x, y)
        PROVE  Own(h)'
    <3>1. pc'[x] = "waitnum" /\ number'[x] = number[x] /\ todo'[x] = todo[x] /\ left'[x] = left[x]
      BY <1>0, <2>5 DEF SeeChosen, TypeOK
    <3>2. number[x] > 0 /\ left[x] > 0
      BY <1>0, <2>5 DEF SeeChosen, Own
    <3> QED
      BY <1>0, <1>b, <3>1, <3>2 DEF Own
  <2>6. ASSUME NEW y \in Hosts, NextHost(x, y), SeeNumber(x, y)
        PROVE  Own(h)'
    <3>1. Looped(x, y, "waitchoose", "enter")
      BY <1>0, <2>6, Loop DEF SeeNumber
    <3> QED
      BY <1>0, <1>b, <3>1, <2>6 DEF Looped, SeeNumber, NumOfHost, Own, TypeOK
  <2>7. ASSUME NEW y \in Hosts, NextHost(x, y), AnnounceDown(x, y)
        PROVE  Own(h)'
    <3>1. /\ pc[x] = "goodbye" /\ pc'[x] = "told"
          /\ todo'[x] = todo[x] /\ left'[x] = left[x] /\ number'[x] = number[x]
      BY <1>0, <2>7 DEF AnnounceDown, TypeOK
    <3> QED
      BY <1>0, <1>b, <3>1 DEF Own
  <2>17. ASSUME NEW y \in Hosts, NextHost(x, y), DownReply(x, y)
        PROVE  Own(h)'
    <3>1. Looped(x, y, "goodbye", "waitdown")
      BY <1>0, <2>17, Loop DEF DownReply
    <3> QED
      BY <1>0, <1>b, <3>1, <2>17 DEF Looped, DownReply, Own, TypeOK
  <2>8. ASSUME NEW y \in Hosts, NextHost(x, y), SeeDown(x, y)
        PROVE  Own(h)'
    <3>1. Looped(x, y, "waitdown", "gone")
      BY <1>0, <2>8, Loop DEF SeeDown
    <3> QED
      BY <1>0, <1>b, <3>1, <2>8 DEF Looped, SeeDown, Own, TypeOK
  <2>9. ASSUME NEW y \in Hosts, NextHost(x, y), CallFails(x, y)
        PROVE  Own(h)'
    BY <1>0, <1>b, <2>9 DEF CallFails, Own, TypeOK
  <2>10. ASSUME Choose(x)
        PROVE  Own(h)'
    <3>1. /\ pc[x] = "choose" /\ pc'[x] = "max"
          /\ todo'[x] = todo[x] /\ left'[x] = left[x] /\ number'[x] = number[x]
          /\ choosing'[x]
      BY <1>0, <2>10 DEF Choose, TypeOK
    <3> QED
      BY <1>0, <1>b, <3>1 DEF Own
  <2>11. ASSUME Take(x)
        PROVE  Own(h)'
    <3>1. /\ pc[x] = "take" /\ pc'[x] = "unchoose"
          /\ todo'[x] = todo[x] /\ left'[x] = left[x]
      BY <1>0, <2>11 DEF Take, TypeOK
    <3>a. number'[x] = 1 + highest[x]
      BY <1>0, <2>11 DEF Take, TypeOK
    <3>b. choosing[x] /\ choosing'[x]
      BY <1>0, <3>1, <2>11 DEF Take, Own
    <3>n. highest[x] \in Nat
      BY <1>0 DEF TypeOK
    <3>2. 1 + highest[x] > 0
      BY <3>n
    <3> QED
      BY <1>0, <1>b, <3>1, <3>2, <3>a, <3>b DEF Own
  <2>12. ASSUME Unchoose(x)
        PROVE  Own(h)'
    <3>1. /\ pc[x] = "unchoose" /\ pc'[x] = "waitchoose"
          /\ todo'[x] = todo[x] /\ left'[x] = left[x] /\ number'[x] = number[x]
      BY <1>0, <2>12 DEF Unchoose, TypeOK
    <3> QED
      BY <1>0, <1>b, <3>1 DEF Own
  <2>13. ASSUME Leave(x)
        PROVE  Own(h)'
    <3>1. /\ pc[x] = "leave" /\ pc'[x] = IF left[x] = 1 THEN "goodbye" ELSE "choose"
          /\ left'[x] = left[x] - 1 /\ todo'[x] = todo[x]
      BY <1>0, <2>13 DEF Leave, TypeOK
    <3>2. left[x] \in Nat /\ left[x] > 0
      BY <1>0, <3>1 DEF TypeOK, Own
    <3>3. IF left[x] = 1 THEN left[x] - 1 = 0 ELSE left[x] - 1 > 0
      BY <3>2
    <3> QED
      BY <1>0, <1>b, <3>1, <3>3 DEF Own
  <2>14. ASSUME EnterCS(x)
        PROVE  Own(h)'
    <3>1. /\ pc[x] \in {"enter", "entering"} /\ pc'[x] \in {"entering", "cs", "dead"}
          /\ todo'[x] = todo[x] /\ left'[x] = left[x] /\ number'[x] = number[x]
      BY <1>0, <2>14 DEF EnterCS, Object, TypeOK
    <3> QED
      BY <1>0, <1>b, <3>1 DEF Own
  <2>15. ASSUME ExitCS(x)
        PROVE  Own(h)'
    <3>1. /\ pc[x] \in {"cs", "exiting"} /\ pc'[x] \in {"exiting", "leave", "dead"}
          /\ todo'[x] = todo[x] /\ left'[x] = left[x] /\ number'[x] = number[x]
      BY <1>0, <2>15 DEF ExitCS, Object, TypeOK
    <3> QED
      BY <1>0, <1>b, <3>1 DEF Own
  <2>16. ASSUME Die(x)
        PROVE  Own(h)'
    <3>1. pc'[x] = "dead" /\ todo'[x] = todo[x]
      BY <1>0, <2>16 DEF Die, TypeOK
    <3> QED
      BY <1>0, <1>b, <3>1 DEF Own
  <2> QED
    BY StepCases, <2>1, <2>2, <2>3, <2>4, <2>5, <2>6, <2>7, <2>8, <2>9, <2>10, <2>11, <2>12, <2>13, <2>14, <2>15, <2>16, <2>17
<1> QED
  BY <1>a, <1>b

(* A step keeps what a host knows of another, and what it tells it. *)
LEMMA CopyStep ==
  ASSUME BInv, NEW x \in Hosts, Step(x) \/ Die(x),
         NEW h \in Hosts, NEW k \in Hosts, h # k
  PROVE  Copy(h, k)'
<1> USE BakeryAssumption DEF Hosts, Others, Nobody, Starting, Choosing, Waiting, Critical, Ending
<1> USE DEF Copy, ToldUp, ToldDown
<1>0. TypeOK /\ (\A l \in Hosts : Own(l)) /\ Own(h) /\ Own(k) /\ Copy(h, k)
  BY DEF BInv
<1>s. todo'[h] = todo[h] => (NextHost(h, k)' <=> NextHost(h, k))
  BY DEF NextHost
<1>d. ASSUME live' = live, todo' = todo, \A l \in Hosts \ {x} : pc'[l] = pc[l], pc'[x] = "dead"
      PROVE  Copy(h, k)'
  <2>1. CASE h = x
    BY <1>0, <1>d, <2>1
  <2>2. CASE h # x
    BY <1>0, <1>s, <1>d, <2>2
  <2> QED
    BY <2>1, <2>2
<1>m. ASSUME live' = live, todo' = todo, \A l \in Hosts \ {x} : pc'[l] = pc[l],
             pc[x] \in Choosing \cup Waiting \cup Critical,
             pc'[x] \in Choosing \cup Waiting \cup Critical
      PROVE  Copy(h, k)'
  BY <1>0, <1>s, <1>m
<1>1. ASSUME NEW y \in Hosts, NextHost(x, y), AnnounceUp(x, y)
      PROVE  Copy(h, k)'
  <2>1. Looped(x, y, "announce", "waitup")
    BY <1>0, <1>1, Loop DEF AnnounceUp
  <2>2. pc[x] = "announce"
    BY <1>0, <1>1 DEF AnnounceUp, TypeOK
  <2>3. IF h = x /\ k = y THEN live'[k][h] ELSE live'[k][h] = live[k][h]
    BY <1>0, <1>1 DEF AnnounceUp, TypeOK
  <2>4. CASE h = x
    <3>1. pc'[k] = pc[k] /\ todo'[k] = todo[k]
      BY <2>1, <2>4 DEF Looped
    <3>2. CASE pc'[h] = "announce"
      <4>1. todo'[h] = todo[h] \ {y}
        BY <2>1, <2>2, <2>4, <3>2 DEF Looped
      <4> QED
        BY <1>0, <1>s, <2>2, <2>3, <2>4, <3>1, <3>2, <4>1
    <3>3. CASE pc'[h] = "waitup"
      <4>1. todo[h] = {y}
        BY <2>1, <2>2, <2>4, <3>3 DEF Looped
      <4>2. k # y => k \notin todo[h]
        BY <4>1
      <4> QED
        BY <1>0, <1>s, <2>2, <2>3, <2>4, <3>1, <3>3, <4>2
    <3> QED
      BY <2>1, <2>4, <3>2, <3>3 DEF Looped
  <2>5. CASE k = x
    <3>1. pc'[h] = pc[h] /\ todo'[h] = todo[h]
      BY <2>1, <2>5 DEF Looped
    <3>2. CASE pc'[k] = "announce"
      <4>1. todo'[k] = todo[k] \ {y}
        BY <2>1, <2>2, <2>5, <3>2 DEF Looped
      <4> QED
        BY <1>0, <1>s, <2>2, <2>3, <2>5, <3>1, <3>2, <4>1
    <3>3. CASE pc'[k] = "waitup"
      <4>1. todo[k] = {y} /\ todo'[k] = Others(k)
        BY <2>1, <2>2, <2>5, <3>3 DEF Looped
      <4>2. h # y => h \notin todo[k]
        BY <4>1
      <4> QED
        BY <1>0, <1>s, <2>2, <2>3, <2>5, <3>1, <3>3, <4>1, <4>2
    <3> QED
      BY <2>1, <2>5, <3>2, <3>3 DEF Looped
  <2>6. CASE h # x /\ k # x
    BY <1>0, <1>s, <2>1, <2>3, <2>6 DEF Looped
  <2> QED
    BY <2>4, <2>5, <2>6
<1>2. ASSUME NEW y \in Hosts, NextHost(x, y), SeeUp(x, y)
      PROVE  Copy(h, k)'
  <2>1. Looped(x, y, "waitup", IF left[x] = 0 THEN "goodbye" ELSE "choose")
    BY <1>0, <1>2, Loop DEF SeeUp
  <2>2. pc[x] = "waitup" /\ live[x][y]
    BY <1>0, <1>2 DEF SeeUp, TypeOK
  <2>3. live'[k][h] = live[k][h]
    BY <1>0, <1>2 DEF SeeUp, TypeOK
  <2>4. CASE h = x
    <3>1. pc'[k] = pc[k] /\ todo'[k] = todo[k]
      BY <2>1, <2>4 DEF Looped
    <3>2. CASE pc'[h] = "waitup"
      <4>1. todo'[h] = todo[h] \ {y}
        BY <2>1, <2>2, <2>4, <3>2 DEF Looped
      <4> QED
        BY <1>0, <1>s, <2>2, <2>3, <2>4, <3>1, <3>2, <4>1
    <3>3. CASE pc'[h] = IF left[x] = 0 THEN "goodbye" ELSE "choose"
      <4>1. todo[h] = {y}
        BY <2>1, <2>2, <2>4, <3>3 DEF Looped
      <4>2. k # y => k \notin todo[h]
        BY <4>1
      <4> QED
        BY <1>0, <1>s, <2>2, <2>3, <2>4, <3>1, <3>3, <4>2
    <3> QED
      BY <2>1, <2>4, <3>2, <3>3 DEF Looped
  <2>5. CASE k = x
    <3>1. pc'[h] = pc[h] /\ todo'[h] = todo[h]
      BY <2>1, <2>5 DEF Looped
    <3>2. CASE pc'[k] = "waitup"
      <4>1. todo'[k] = todo[k] \ {y}
        BY <2>1, <2>2, <2>5, <3>2 DEF Looped
      <4> QED
        BY <1>0, <1>s, <2>2, <2>3, <2>5, <3>1, <3>2, <4>1
    <3>3. CASE pc'[k] = IF left[x] = 0 THEN "goodbye" ELSE "choose"
      <4>1. todo[k] = {y} /\ todo'[k] = Others(k)
        BY <2>1, <2>2, <2>5, <3>3 DEF Looped
      <4>2. h # y => h \notin todo[k]
        BY <4>1
      <4> QED
        BY <1>0, <1>s, <2>2, <2>3, <2>5, <3>1, <3>3, <4>1, <4>2
    <3> QED
      BY <2>1, <2>5, <3>2, <3>3 DEF Looped
  <2>6. CASE h # x /\ k # x
    BY <1>0, <1>s, <2>1, <2>3, <2>6 DEF Looped
  <2> QED
    BY <2>4, <2>5, <2>6
<1>3. ASSUME NEW y \in Hosts, NextHost(x, y), LookAgain(x, y)
      PROVE  Copy(h, k)'
  <2>1. /\ pc' = pc /\ live' = live /\ pc[x] \in {"waitup", "waitdown"}
        /\ todo'[x] = Others(x) /\ \A l \in Hosts \ {x} : todo'[l] = todo[l]
    BY <1>0, <1>3 DEF LookAgain, TypeOK
  <2>2. CASE h = x
    BY <1>0, <2>1, <2>2
  <2>3. CASE h # x
    BY <1>0, <1>s, <2>1, <2>3
  <2> QED
    BY <2>2, <2>3
<1>4. ASSUME NEW y \in Hosts, NextHost(x, y), ReadMax(x, y)
      PROVE  Copy(h, k)'
  <2>1. Looped(x, y, "max", "take")
    BY <1>0, <1>4, Loop DEF ReadMax
  <2> QED
    BY <1>0, <1>s, <2>1, <1>4 DEF Looped, ReadMax, NumOfHost, Own, TypeOK
<1>5. ASSUME NEW y \in Hosts, NextHost(x, y), SeeChosen(x, y)
      PROVE  Copy(h, k)'
  <2>1. /\ pc[x] = "waitchoose" /\ pc'[x] = "waitnum" /\ live' = live /\ todo' = todo
        /\ \A l \in Hosts \ {x} : pc'[l] = pc[l]
    BY <1>0, <1>5 DEF SeeChosen, TypeOK
  <2> QED
    BY <1>m, <2>1
<1>6. ASSUME NEW y \in Hosts, NextHost(x, y), SeeNumber(x, y)
      PROVE  Copy(h, k)'
  <2>1. Looped(x, y, "waitchoose", "enter")
    BY <1>0, <1>6, Loop DEF SeeNumber
  <2> QED
    BY <1>0, <1>s, <2>1, <1>6 DEF Looped, SeeNumber, NumOfHost, Own, TypeOK
<1>7. ASSUME NEW y \in Hosts, NextHost(x, y), AnnounceDown(x, y)
      PROVE  Copy(h, k)'
  <2>1. /\ pc[x] = "goodbye" /\ pc'[x] = "told" /\ todo' = todo
        /\ \A l \in Hosts \ {x} : pc'[l] = pc[l]
    BY <1>0, <1>7 DEF AnnounceDown, TypeOK
  <2>2. IF h = x /\ k = y THEN ~live'[k][h] ELSE live'[k][h] = live[k][h]
    BY <1>0, <1>7 DEF AnnounceDown, TypeOK
  <2>3. CASE h = x
    <3>1. NextHost(h, y)' /\ (NextHost(h, k)' => k = y)
      BY <1>0, <1>7, <2>1, <2>3 DEF NextHost
    <3> QED
      BY <1>0, <1>s, <2>1, <2>2, <2>3, <3>1
  <2>4. CASE h # x
    BY <1>0, <1>s, <2>1, <2>2, <2>4
  <2> QED
    BY <2>3, <2>4
<1>17. ASSUME NEW y \in Hosts, NextHost(x, y), DownReply(x, y)
      PROVE  Copy(h, k)'
  <2>1. Looped(x, y, "goodbye", "waitdown")
    BY <1>0, <1>17, Loop DEF DownReply
  <2>2. pc[x] = "told"
    BY <1>0, <1>17 DEF DownReply, TypeOK
  <2>3. live' = live
    BY <1>17 DEF DownReply
  <2>n. h = x => (NextHost(h, k) <=> k = y)
    BY <1>17 DEF NextHost
  <2>4. CASE h = x
    <3>1. pc'[k] = pc[k] /\ todo'[k] = todo[k]
      BY <2>1, <2>4 DEF Looped
    <3>2. CASE pc'[h] = "goodbye"
      <4>1. todo'[h] = todo[h] \ {y}
        BY <2>1, <2>2, <2>4, <3>2 DEF Looped
      <4> QED
        BY <1>0, <1>s, <2>2, <2>3, <2>n, <2>4, <3>1, <3>2, <4>1
    <3>3. CASE pc'[h] = "waitdown"
      <4>1. todo[h] = {y}
        BY <2>1, <2>2, <2>4, <3>3 DEF Looped
      <4>2. k # y => k \notin todo[h]
        BY <4>1
      <4> QED
        BY <1>0, <1>s, <2>2, <2>3, <2>n, <2>4, <3>1, <3>3, <4>2
    <3> QED
      BY <2>1, <2>4, <3>2, <3>3 DEF Looped
  <2>5. CASE k = x
    <3>1. pc'[h] = pc[h] /\ todo'[h] = todo[h]
      BY <2>1, <2>5 DEF Looped
    <3>2. CASE pc'[k] = "goodbye"
      <4>1. todo'[k] = todo[k] \ {y}
        BY <2>1, <2>2, <2>5, <3>2 DEF Looped
      <4> QED
        BY <1>0, <1>s, <2>2, <2>3, <2>5, <3>1, <3>2, <4>1
    <3>3. CASE pc'[k] = "waitdown"
      <4>1. todo[k] = {y} /\ todo'[k] = Others(k)
        BY <2>1, <2>2, <2>5, <3>3 DEF Looped
      <4>2. h # y => h \notin todo[k]
        BY <4>1
      <4> QED
        BY <1>0, <1>s, <2>2, <2>3, <2>5, <3>1, <3>3, <4>1, <4>2
    <3> QED
      BY <2>1, <2>5, <3>2, <3>3 DEF Looped
  <2>6. CASE h # x /\ k # x
    BY <1>0, <1>s, <2>1, <2>3, <2>6 DEF Looped
  <2> QED
    BY <2>4, <2>5, <2>6
<1>8. ASSUME NEW y \in Hosts, NextHost(x, y), SeeDown(x, y)
      PROVE  Copy(h, k)'
  <2>1. Looped(x, y, "waitdown", "gone")
    BY <1>0, <1>8, Loop DEF SeeDown
  <2>2. pc[x] = "waitdown" /\ ~live[x][y]
    BY <1>0, <1>8 DEF SeeDown, TypeOK
  <2>3. live'[k][h] = live[k][h]
    BY <1>0, <1>8 DEF SeeDown, TypeOK
  <2>4. CASE h = x
    <3>1. pc'[k] = pc[k] /\ todo'[k] = todo[k]
      BY <2>1, <2>4 DEF Looped
    <3>2. CASE pc'[h] = "waitdown"
      <4>1. todo'[h] = todo[h] \ {y}
        BY <2>1, <2>2, <2>4, <3>2 DEF Looped
      <4> QED
        BY <1>0, <1>s, <2>2, <2>3, <2>4, <3>1, <3>2, <4>1
    <3>3. CASE pc'[h] = "gone"
      <4>1. todo[h] = {y}
        BY <2>1, <2>2, <2>4, <3>3 DEF Looped
      <4>2. k # y => k \notin todo[h]
        BY <4>1
      <4> QED
        BY <1>0, <1>s, <2>2, <2>3, <2>4, <3>1, <3>3, <4>2
    <3> QED
      BY <2>1, <2>4, <3>2, <3>3 DEF Looped
  <2>5. CASE k = x
    <3>1. pc'[h] = pc[h] /\ todo'[h] = todo[h]
      BY <2>1, <2>5 DEF Looped
    <3>2. CASE pc'[k] = "waitdown"
      <4>1. todo'[k] = todo[k] \ {y}
        BY <2>1, <2>2, <2>5, <3>2 DEF Looped
      <4> QED
        BY <1>0, <1>s, <2>2, <2>3, <2>5, <3>1, <3>2, <4>1
    <3>3. CASE pc'[k] = "gone"
      <4>1. todo[k] = {y} /\ todo'[k] = Others(k)
        BY <2>1, <2>2, <2>5, <3>3 DEF Looped
      <4>2. h # y => h \notin todo[k]
        BY <4>1
      <4> QED
        BY <1>0, <1>s, <2>2, <2>3, <2>5, <3>1, <3>3, <4>1, <4>2
    <3> QED
      BY <2>1, <2>5, <3>2, <3>3 DEF Looped
  <2>6. CASE h # x /\ k # x
    BY <1>0, <1>s, <2>1, <2>3, <2>6 DEF Looped
  <2> QED
    BY <2>4, <2>5, <2>6
<1>9. ASSUME NEW y \in Hosts, NextHost(x, y), CallFails(x, y)
      PROVE  Copy(h, k)'
  <2>1. /\ pc'[x] = "dead" /\ live' = live /\ todo' = todo
        /\ \A l \in Hosts \ {x} : pc'[l] = pc[l]
    BY <1>0, <1>9 DEF CallFails, TypeOK
  <2> QED
    BY <1>d, <2>1
<1>10. ASSUME Choose(x)
      PROVE  Copy(h, k)'
  <2>1. /\ pc[x] = "choose" /\ pc'[x] = "max" /\ live' = live /\ todo' = todo
        /\ \A l \in Hosts \ {x} : pc'[l] = pc[l]
    BY <1>0, <1>10 DEF Choose, TypeOK
  <2> QED
    BY <1>m, <2>1
<1>11. ASSUME Take(x)
      PROVE  Copy(h, k)'
  <2>1. /\ pc[x] = "take" /\ pc'[x] = "unchoose" /\ live' = live /\ todo' = todo
        /\ \A l \in Hosts \ {x} : pc'[l] = pc[l]
    BY <1>0, <1>11 DEF Take, TypeOK
  <2> QED
    BY <1>m, <2>1
<1>12. ASSUME Unchoose(x)
      PROVE  Copy(h, k)'
  <2>1. /\ pc[x] = "unchoose" /\ pc'[x] = "waitchoose" /\ live' = live /\ todo' = todo
        /\ \A l \in Hosts \ {x} : pc'[l] = pc[l]
    BY <1>0, <1>12 DEF Unchoose, TypeOK
  <2> QED
    BY <1>m, <2>1
<1>13. ASSUME Leave(x)
      PROVE  Copy(h, k)'
  <2>1. /\ pc[x] = "leave" /\ pc'[x] \in {"goodbye", "choose"} /\ live' = live /\ todo' = todo
        /\ \A l \in Hosts \ {x} : pc'[l] = pc[l]
    BY <1>0, <1>13 DEF Leave, TypeOK
  <2>2. todo[x] = Others(x)
    BY <1>0, <2>1 DEF Own
  <2>3. CASE h = x
    BY <1>0, <2>1, <2>2, <2>3
  <2>4. CASE h # x
    BY <1>0, <1>s, <2>1, <2>4
  <2> QED
    BY <2>3, <2>4
<1>14. ASSUME EnterCS(x)
      PROVE  Copy(h, k)'
  <2>1. /\ pc[x] \in Critical /\ pc'[x] \in Critical \cup {"dead"}
        /\ live' = live /\ todo' = todo /\ \A l \in Hosts \ {x} : pc'[l] = pc[l]
    BY <1>0, <1>14 DEF EnterCS, Object, TypeOK
  <2> QED
    BY <1>0, <1>s, <2>1
<1>15. ASSUME ExitCS(x)
      PROVE  Copy(h, k)'
  <2>1. /\ pc[x] \in Critical /\ pc'[x] \in Critical \cup {"dead"}
        /\ live' = live /\ todo' = todo /\ \A l \in Hosts \ {x} : pc'[l] = pc[l]
    BY <1>0, <1>15 DEF ExitCS, Object, TypeOK
  <2> QED
    BY <1>0, <1>s, <2>1
<1>16. ASSUME Die(x)
      PROVE  Copy(h, k)'
  <2>1. /\ pc'[x] = "dead" /\ live' = live /\ todo' = todo
        /\ \A l \in Hosts \ {x} : pc'[l] = pc[l]
    BY <1>0, <1>16 DEF Die, Running, TypeOK
  <2> QED
    BY <1>d, <2>1
<1> QED
  BY StepCases, <1>1, <1>2, <1>3, <1>4, <1>5, <1>6, <1>7, <1>8, <1>9, <1>10, <1>11, <1>12, <1>13, <1>14, <1>15, <1>16, <1>17

(* A host that takes a ticket, or has one, stays behind the hosts whose   *)
(* tickets it has seen or will see.                                        *)
LEMMA StaysBehind ==
  ASSUME BInv, NEW x \in Hosts, Step(x) \/ Die(x),
         NEW p \in Hosts, p # x, pc[p] \in Waiting \cup Critical
  PROVE  /\ WillSee(p, x) => WillSee(p, x)'
         /\ Before(p, x) => Before(p, x)'
<1> USE BakeryAssumption DEF Hosts, Others, Nobody, Starting, Choosing, Waiting, Critical, Ending
<1> USE DEF WillSee, Before, Lt
<1>0. TypeOK /\ Own(x) /\ Own(p) /\ Copy(p, x)
  BY DEF BInv
<1>f. Same(p)
  BY Frame
<1>n. number[p] \in Nat /\ number[x] \in Nat /\ highest[x] \in Nat /\ p \in Int /\ x \in Int
  BY <1>0 DEF TypeOK
<1>1. ASSUME NEW y \in Hosts, NextHost(x, y), AnnounceUp(x, y)
      PROVE  (WillSee(p, x) => WillSee(p, x)') /\ (Before(p, x) => Before(p, x)')
  <2>1. Looped(x, y, "announce", "waitup")
    BY <1>0, <1>1, Loop DEF AnnounceUp
  <2> QED
    BY <1>0, <1>f, <1>n, <2>1, <1>1 DEF Looped, AnnounceUp, Own, TypeOK, Same
<1>2. ASSUME NEW y \in Hosts, NextHost(x, y), SeeUp(x, y)
      PROVE  (WillSee(p, x) => WillSee(p, x)') /\ (Before(p, x) => Before(p, x)')
  <2>1. Looped(x, y, "waitup", IF left[x] = 0 THEN "goodbye" ELSE "choose")
    BY <1>0, <1>2, Loop DEF SeeUp
  <2> QED
    BY <1>0, <1>f, <1>n, <2>1, <1>2 DEF Looped, SeeUp, Own, TypeOK, Same
<1>3. ASSUME NEW y \in Hosts, NextHost(x, y), LookAgain(x, y)
      PROVE  (WillSee(p, x) => WillSee(p, x)') /\ (Before(p, x) => Before(p, x)')
  BY <1>0, <1>f, <1>n, <1>3 DEF LookAgain, Own, TypeOK, Same
<1>4. ASSUME NEW y \in Hosts, NextHost(x, y), ReadMax(x, y)
      PROVE  (WillSee(p, x) => WillSee(p, x)') /\ (Before(p, x) => Before(p, x)')
  <2>1. Looped(x, y, "max", "take")
    BY <1>0, <1>4, Loop DEF ReadMax
  <2>n. NumOfHost(x, y) \in Nat
    BY <1>0 DEF NumOfHost, TypeOK
  <2>h. pc[x] = "max" /\ highest'[x] = IF NumOfHost(x, y) > highest[x] THEN NumOfHost(x, y) ELSE highest[x]
    BY <1>0, <1>4 DEF ReadMax, TypeOK
  <2>2. /\ highest'[x] \in Nat /\ highest'[x] >= highest[x] /\ highest'[x] >= NumOfHost(x, y)
        /\ pc[x] = "max"
    BY <1>n, <2>n, <2>h
  <2>3. live[x][p]
    BY <1>0 DEF Copy, ToldUp, ToldDown
  <2>4. y = p => highest'[x] >= number[p]
    BY <2>2, <2>3 DEF NumOfHost
  <2>a. WillSee(p, x) => p \in todo[x] \/ highest'[x] >= number[p]
    BY <1>n, <2>2
  <2>b. pc'[x] = "max" => todo'[x] = todo[x] \ {y}
    BY <2>1 DEF Looped
  <2>c. pc'[x] = "take" => todo[x] = {y}
    BY <2>1, <2>2 DEF Looped
  <2>5. WillSee(p, x) => WillSee(p, x)'
    BY <1>f, <2>4, <2>a, <2>b, <2>c DEF Same
  <2> QED
    BY <2>1, <2>5 DEF Looped
<1>5. ASSUME NEW y \in Hosts, NextHost(x, y), SeeChosen(x, y)
      PROVE  (WillSee(p, x) => WillSee(p, x)') /\ (Before(p, x) => Before(p, x)')
  BY <1>0, <1>f, <1>n, <1>5 DEF SeeChosen, Own, TypeOK, Same
<1>6. ASSUME NEW y \in Hosts, NextHost(x, y), SeeNumber(x, y)
      PROVE  (WillSee(p, x) => WillSee(p, x)') /\ (Before(p, x) => Before(p, x)')
  <2>1. Looped(x, y, "waitchoose", "enter")
    BY <1>0, <1>6, Loop DEF SeeNumber
  <2> QED
    BY <1>0, <1>f, <1>n, <2>1, <1>6 DEF Looped, SeeNumber, NumOfHost, Own, TypeOK, Same
<1>7. ASSUME NEW y \in Hosts, NextHost(x, y), AnnounceDown(x, y)
      PROVE  (WillSee(p, x) => WillSee(p, x)') /\ (Before(p, x) => Before(p, x)')
  BY <1>0, <1>f, <1>n, <1>7 DEF AnnounceDown, Own, TypeOK, Same
<1>17. ASSUME NEW y \in Hosts, NextHost(x, y), DownReply(x, y)
      PROVE  (WillSee(p, x) => WillSee(p, x)') /\ (Before(p, x) => Before(p, x)')
  <2>1. Looped(x, y, "goodbye", "waitdown")
    BY <1>0, <1>17, Loop DEF DownReply
  <2> QED
    BY <1>0, <1>f, <1>n, <2>1, <1>17 DEF Looped, DownReply, Own, TypeOK, Same
<1>8. ASSUME NEW y \in Hosts, NextHost(x, y), SeeDown(x, y)
      PROVE  (WillSee(p, x) => WillSee(p, x)') /\ (Before(p, x) => Before(p, x)')
  <2>1. Looped(x, y, "waitdown", "gone")
    BY <1>0, <1>8, Loop DEF SeeDown
  <2> QED
    BY <1>0, <1>f, <1>n, <2>1, <1>8 DEF Looped, SeeDown, Own, TypeOK, Same
<1>9. ASSUME NEW y \in Hosts, NextHost(x, y), CallFails(x, y)
      PROVE  (WillSee(p, x) => WillSee(p, x)') /\ (Before(p, x) => Before(p, x)')
  BY <1>0, <1>f, <1>n, <1>9 DEF CallFails, Own, TypeOK, Same
<1>10. ASSUME Choose(x)
      PROVE  (WillSee(p, x) => WillSee(p, x)') /\ (Before(p, x) => Before(p, x)')
  BY <1>0, <1>f, <1>n, <1>10 DEF Choose, Own, TypeOK, Same
<1>11. ASSUME Take(x)
      PROVE  (WillSee(p, x) => WillSee(p, x)') /\ (Before(p, x) => Before(p, x)')
  BY <1>0, <1>f, <1>n, <1>11 DEF Take, Own, TypeOK, Same
<1>12. ASSUME Unchoose(x)
      PROVE  (WillSee(p, x) => WillSee(p, x)') /\ (Before(p, x) => Before(p, x)')
  BY <1>0, <1>f, <1>n, <1>12 DEF Unchoose, Own, TypeOK, Same
<1>13. ASSUME Leave(x)
      PROVE  (WillSee(p, x) => WillSee(p, x)') /\ (Before(p, x) => Before(p, x)')
  BY <1>0, <1>f, <1>n, <1>13 DEF Leave, Own, TypeOK, Same
<1>14. ASSUME EnterCS(x)
      PROVE  (WillSee(p, x) => WillSee(p, x)') /\ (Before(p, x) => Before(p, x)')
  BY <1>0, <1>f, <1>n, <1>14 DEF EnterCS, Object, Own, TypeOK, Same
<1>15. ASSUME ExitCS(x)
      PROVE  (WillSee(p, x) => WillSee(p, x)') /\ (Before(p, x) => Before(p, x)')
  BY <1>0, <1>f, <1>n, <1>15 DEF ExitCS, Object, Own, TypeOK, Same
<1>16. ASSUME Die(x)
      PROVE  (WillSee(p, x) => WillSee(p, x)') /\ (Before(p, x) => Before(p, x)')
  BY <1>0, <1>f, <1>n, <1>16 DEF Die, Running, Own, TypeOK, Same
<1> QED
  BY StepCases, <1>1, <1>2, <1>3, <1>4, <1>5, <1>6, <1>7, <1>8, <1>9, <1>10, <1>11, <1>12, <1>13, <1>14, <1>15, <1>16, <1>17

(* A host passes another only when the other is behind it.                 *)
LEMMA Passes ==
  ASSUME BInv, NEW x \in Hosts, Step(x) \/ Die(x), NEW k \in Hosts, k # x
  PROVE  Passed(x, k)'
<1> USE BakeryAssumption DEF Hosts, Others, Nobody, Starting, Choosing, Waiting, Critical, Ending
<1>0. TypeOK /\ Own(x) /\ Own(k) /\ Copy(k, x) /\ Passed(x, k)
  BY DEF BInv
<1>f. Same(k)
  BY Frame
<1>n. number[k] \in Nat /\ number[x] \in Nat /\ x \in Int /\ k \in Int
  BY <1>0 DEF TypeOK
<1>1. ASSUME NEW y \in Hosts, NextHost(x, y), AnnounceUp(x, y)
      PROVE  Passed(x, k)'
  <2>1. Looped(x, y, "announce", "waitup")
    BY <1>0, <1>1, Loop DEF AnnounceUp
  <2> QED
    BY <1>0, <1>f, <1>n, <2>1, <1>1 DEF Looped, AnnounceUp, Own, TypeOK, Same, Passed, WillSee, Before
<1>2. ASSUME NEW y \in Hosts, NextHost(x, y), SeeUp(x, y)
      PROVE  Passed(x, k)'
  <2>1. Looped(x, y, "waitup", IF left[x] = 0 THEN "goodbye" ELSE "choose")
    BY <1>0, <1>2, Loop DEF SeeUp
  <2> QED
    BY <1>0, <1>f, <1>n, <2>1, <1>2 DEF Looped, SeeUp, Own, TypeOK, Same, Passed, WillSee, Before
<1>3. ASSUME NEW y \in Hosts, NextHost(x, y), LookAgain(x, y)
      PROVE  Passed(x, k)'
  BY <1>0, <1>f, <1>n, <1>3 DEF LookAgain, Own, TypeOK, Same, Passed, WillSee, Before
<1>4. ASSUME NEW y \in Hosts, NextHost(x, y), ReadMax(x, y)
      PROVE  Passed(x, k)'
  <2>1. Looped(x, y, "max", "take")
    BY <1>0, <1>4, Loop DEF ReadMax
  <2> QED
    BY <1>0, <1>f, <1>n, <2>1, <1>4 DEF Looped, ReadMax, NumOfHost, Own, TypeOK, Same, Passed, WillSee, Before
<1>5. ASSUME NEW y \in Hosts, NextHost(x, y), SeeChosen(x, y)
      PROVE  Passed(x, k)'
  <2>1. /\ pc[x] = "waitchoose" /\ pc'[x] = "waitnum" /\ todo'[x] = todo[x]
        /\ number'[x] = number[x] /\ ~IsChoosing(x, y)
    BY <1>0, <1>5 DEF SeeChosen, TypeOK
  <2>2. Before(x, k) => Before(x, k)'
    BY <1>f, <2>1 DEF Before, WillSee, Same
  <2>3. NextHost(x, k)' => k = y
    BY <1>0, <1>n, <2>1, <1>5 DEF NextHost, Own
  <2>4. k = y => pc[k] \notin {"max", "take"}
    BY <1>0, <2>1 DEF IsChoosing, Copy, ToldUp, ToldDown, Own
  <2> QED
    BY <1>0, <1>f, <2>1, <2>2, <2>3, <2>4 DEF Passed, WillSee, Same
<1>6. ASSUME NEW y \in Hosts, NextHost(x, y), SeeNumber(x, y)
      PROVE  Passed(x, k)'
  <2>1. Looped(x, y, "waitchoose", "enter")
    BY <1>0, <1>6, Loop DEF SeeNumber
  <2>2. /\ pc[x] = "waitnum" /\ number'[x] = number[x]
        /\ NumOfHost(x, y) = 0 \/ ~Lt(NumOfHost(x, y), y, number[x], x)
    BY <1>0, <1>6 DEF SeeNumber, TypeOK
  <2>3. k = y /\ pc[k] \in Waiting \cup Critical => live[x][k] /\ number[k] > 0
    BY <1>0 DEF Copy, ToldUp, ToldDown, Own
  <2>4. k = y /\ pc[k] \in Waiting \cup Critical => Lt(number[x], x, number[k], k)
    BY <1>n, <2>2, <2>3 DEF NumOfHost, Lt
  <2>5. k = y => Before(x, k)
    BY <1>0, <2>2, <2>4, <1>6 DEF Passed, Before
  <2>6. Before(x, k) => Before(x, k)'
    BY <1>f, <2>2 DEF Before, WillSee, Same
  <2>7. pc'[x] # "waitnum" /\ (pc'[x] = "waitchoose" \/ k = y \/ k \notin todo[x])
    BY <2>1 DEF Looped
  <2>8. pc'[x] = "waitchoose" /\ k \notin todo'[x] => k = y \/ k \notin todo[x]
    BY <1>0, <2>1 DEF Looped
  <2> QED
    BY <1>0, <2>2, <2>5, <2>6, <2>7, <2>8 DEF Passed
<1>7. ASSUME NEW y \in Hosts, NextHost(x, y), AnnounceDown(x, y)
      PROVE  Passed(x, k)'
  BY <1>0, <1>f, <1>n, <1>7 DEF AnnounceDown, Own, TypeOK, Same, Passed, WillSee, Before
<1>17. ASSUME NEW y \in Hosts, NextHost(x, y), DownReply(x, y)
      PROVE  Passed(x, k)'
  <2>1. Looped(x, y, "goodbye", "waitdown")
    BY <1>0, <1>17, Loop DEF DownReply
  <2> QED
    BY <1>0, <1>f, <1>n, <2>1, <1>17 DEF Looped, DownReply, Own, TypeOK, Same, Passed, WillSee, Before
<1>8. ASSUME NEW y \in Hosts, NextHost(x, y), SeeDown(x, y)
      PROVE  Passed(x, k)'
  <2>1. Looped(x, y, "waitdown", "gone")
    BY <1>0, <1>8, Loop DEF SeeDown
  <2> QED
    BY <1>0, <1>f, <1>n, <2>1, <1>8 DEF Looped, SeeDown, Own, TypeOK, Same, Passed, WillSee, Before
<1>9. ASSUME NEW y \in Hosts, NextHost(x, y), CallFails(x, y)
      PROVE  Passed(x, k)'
  BY <1>0, <1>f, <1>n, <1>9 DEF CallFails, Own, TypeOK, Same, Passed, WillSee, Before
<1>10. ASSUME Choose(x)
      PROVE  Passed(x, k)'
  BY <1>0, <1>f, <1>n, <1>10 DEF Choose, Own, TypeOK, Same, Passed, WillSee, Before
<1>11. ASSUME Take(x)
      PROVE  Passed(x, k)'
  BY <1>0, <1>f, <1>n, <1>11 DEF Take, Own, TypeOK, Same, Passed, WillSee, Before
<1>12. ASSUME Unchoose(x)
      PROVE  Passed(x, k)'
  BY <1>0, <1>f, <1>n, <1>12 DEF Unchoose, Own, TypeOK, Same, Passed, WillSee, Before
<1>13. ASSUME Leave(x)
      PROVE  Passed(x, k)'
  BY <1>0, <1>f, <1>n, <1>13 DEF Leave, Own, TypeOK, Same, Passed, WillSee, Before
<1>14. ASSUME EnterCS(x)
      PROVE  Passed(x, k)'
  BY <1>0, <1>f, <1>n, <1>14 DEF EnterCS, Object, Own, TypeOK, Same, Passed, WillSee, Before
<1>15. ASSUME ExitCS(x)
      PROVE  Passed(x, k)'
  BY <1>0, <1>f, <1>n, <1>15 DEF ExitCS, Object, Own, TypeOK, Same, Passed, WillSee, Before
<1>16. ASSUME Die(x)
      PROVE  Passed(x, k)'
  BY <1>0, <1>f, <1>n, <1>16 DEF Die, Running, Own, TypeOK, Same, Passed, WillSee, Before
<1> QED
  BY StepCases, <1>1, <1>2, <1>3, <1>4, <1>5, <1>6, <1>7, <1>8, <1>9, <1>10, <1>11, <1>12, <1>13, <1>14, <1>15, <1>16, <1>17

(* A step keeps the order of the hosts that have passed each other. *)
LEMMA PassedStep ==
  ASSUME BInv, NEW x \in Hosts, Step(x) \/ Die(x),
         NEW p \in Hosts, NEW k \in Hosts, p # k
  PROVE  Passed(p, k)'
<1>0. Passed(p, k)
  BY DEF BInv
<1>1. CASE x = p
  BY <1>1, Passes
<1>2. CASE x = k
  BY <1>0, <1>2, StaysBehind, Frame DEF Passed, Same, NextHost, Waiting
<1>3. CASE x # p /\ x # k
  BY <1>0, <1>3, Frame DEF Passed, Same, NextHost, Before, WillSee
<1> QED
  BY <1>1, <1>2, <1>3

(* The order of tickets holds wherever the invariant does. *)
LEMMA Order ==
  ASSUME BInv
  PROVE  TicketOrder /\ MutualExclusion
<1>1. ASSUME NEW h \in Hosts, NEW k \in Hosts, h # k, pc[h] \in Critical,
             pc[k] \in Waiting \cup Critical
      PROVE  Lt(number[h], h, number[k], k)
  BY <1>1 DEF BInv, Passed, Before
<1>2. ASSUME NEW h \in Hosts, NEW k \in Hosts, h # k, pc[h] \in Critical
      PROVE  pc[k] \notin Critical
  <2>1. number[h] \in Nat /\ number[k] \in Nat /\ h \in Int /\ k \in Int
    BY DEF BInv, TypeOK, Hosts
  <2>2. SUFFICES ASSUME pc[k] \in Critical PROVE FALSE
    OBVIOUS
  <2>3. Lt(number[h], h, number[k], k) /\ Lt(number[k], k, number[h], h)
    BY <1>1, <1>2, <2>2
  <2> QED
    BY <2>1, <2>3 DEF Lt
<1> QED
  BY <1>1, <1>2 DEF TicketOrder, MutualExclusion

(* A host that dies in the critical section stops all the others at it.    *)
LEMMA DeadStops ==
  ASSUME BInv, NEW h \in Hosts, pc[h] \in Critical, NEW k \in Others(h)
  PROVE  Stuck(k, h)
<1>1. k \in Hosts /\ k # h
  BY DEF Others
<1>2. live[k][h]
  BY <1>1 DEF BInv, Copy, ToldUp, ToldDown, Critical
<1>3. pc[k] \notin Critical
  BY <1>1, Order DEF MutualExclusion
<1>4. pc[k] \in {"waitchoose", "waitnum"} => h \in todo[k]
  <2>1. SUFFICES ASSUME pc[k] \in {"waitchoose", "waitnum"}, h \notin todo[k] PROVE FALSE
    OBVIOUS
  <2>2. number[h] \in Nat /\ number[k] \in Nat /\ h \in Int /\ k \in Int
    BY <1>1 DEF BInv, TypeOK, Hosts
  <2>3. Lt(number[k], k, number[h], h)
    BY <1>1, <2>1 DEF BInv, Passed, Before
  <2>4. Lt(number[h], h, number[k], k)
    BY <1>1, <2>1, Order DEF TicketOrder, Waiting
  <2> QED
    BY <2>2, <2>3, <2>4 DEF Lt
<1> QED
  BY <1>2, <1>3, <1>4 DEF Stuck

(* And it stays so. *)
LEMMA StaysStuck ==
  ASSUME BInv, NEW x \in Hosts, Step(x) \/ Die(x),
         NEW h \in Hosts, h # x, pc[h] = "dead", Stuck(x, h)
  PROVE  Stuck(x, h)'
<1> USE BakeryAssumption DEF Hosts, Others, Nobody, Starting, Choosing, Waiting, Critical, Ending
<1> USE DEF Stuck
<1>0. TypeOK /\ Own(x)
  BY DEF BInv
<1>d. ~Running(h)
  BY DEF Running
<1>1. ASSUME NEW y \in Hosts, NextHost(x, y), AnnounceUp(x, y)
      PROVE  Stuck(x, h)'
  <2>1. Looped(x, y, "announce", "waitup")
    BY <1>0, <1>1, Loop DEF AnnounceUp
  <2>2. live'[x][h] /\ TRUE
    BY <1>0, <1>d, <1>1 DEF AnnounceUp, TypeOK, Answers
  <2> QED
    BY <1>0, <2>1, <2>2, <1>1 DEF Looped, Own, AnnounceUp
<1>2. ASSUME NEW y \in Hosts, NextHost(x, y), SeeUp(x, y)
      PROVE  Stuck(x, h)'
  <2>1. Looped(x, y, "waitup", IF left[x] = 0 THEN "goodbye" ELSE "choose")
    BY <1>0, <1>2, Loop DEF SeeUp
  <2>2. live'[x][h] /\ TRUE
    BY <1>0, <1>d, <1>2 DEF SeeUp, TypeOK, Answers
  <2> QED
    BY <1>0, <2>1, <2>2, <1>2 DEF Looped, Own, SeeUp
<1>3. ASSUME NEW y \in Hosts, NextHost(x, y), LookAgain(x, y)
      PROVE  Stuck(x, h)'
  BY <1>0, <1>d, <1>3 DEF LookAgain, Own, TypeOK
<1>4. ASSUME NEW y \in Hosts, NextHost(x, y), ReadMax(x, y)
      PROVE  Stuck(x, h)'
  <2>1. Looped(x, y, "max", "take")
    BY <1>0, <1>4, Loop DEF ReadMax
  <2>2. live'[x][h] /\ y # h
    BY <1>0, <1>d, <1>4 DEF ReadMax, TypeOK, Answers
  <2> QED
    BY <1>0, <2>1, <2>2, <1>4 DEF Looped, Own, ReadMax
<1>5. ASSUME NEW y \in Hosts, NextHost(x, y), SeeChosen(x, y)
      PROVE  Stuck(x, h)'
  BY <1>0, <1>d, <1>5 DEF SeeChosen, Own, TypeOK
<1>6. ASSUME NEW y \in Hosts, NextHost(x, y), SeeNumber(x, y)
      PROVE  Stuck(x, h)'
  <2>1. Looped(x, y, "waitchoose", "enter")
    BY <1>0, <1>6, Loop DEF SeeNumber
  <2>2. live'[x][h] /\ y # h
    BY <1>0, <1>d, <1>6 DEF SeeNumber, TypeOK, Answers
  <2> QED
    BY <1>0, <2>1, <2>2, <1>6 DEF Looped, Own, SeeNumber
<1>7. ASSUME NEW y \in Hosts, NextHost(x, y), AnnounceDown(x, y)
      PROVE  Stuck(x, h)'
  BY <1>0, <1>d, <1>7 DEF Own, AnnounceDown, TypeOK
<1>17. ASSUME NEW y \in Hosts, NextHost(x, y), DownReply(x, y)
      PROVE  Stuck(x, h)'
  <2>1. Looped(x, y, "goodbye", "waitdown")
    BY <1>0, <1>17, Loop DEF DownReply
  <2>2. live'[x][h] /\ TRUE
    BY <1>0, <1>d, <1>17 DEF DownReply, TypeOK, Answers
  <2> QED
    BY <1>0, <2>1, <2>2, <1>17 DEF Looped, Own, DownReply
<1>8. ASSUME NEW y \in Hosts, NextHost(x, y), SeeDown(x, y)
      PROVE  Stuck(x, h)'
  <2>1. Looped(x, y, "waitdown", "gone")
    BY <1>0, <1>8, Loop DEF SeeDown
  <2>2. live'[x][h] /\ TRUE
    BY <1>0, <1>d, <1>8 DEF SeeDown, TypeOK, Answers
  <2> QED
    BY <1>0, <2>1, <2>2, <1>8 DEF Looped, Own, SeeDown
<1>9. ASSUME NEW y \in Hosts, NextHost(x, y), CallFails(x, y)
      PROVE  Stuck(x, h)'
  BY <1>0, <1>d, <1>9 DEF CallFails, Own, TypeOK
<1>10. ASSUME Choose(x)
      PROVE  Stuck(x, h)'
  BY <1>0, <1>d, <1>10 DEF Choose, Own, TypeOK
<1>11. ASSUME Take(x)
      PROVE  Stuck(x, h)'
  BY <1>0, <1>d, <1>11 DEF Take, Own, TypeOK
<1>12. ASSUME Unchoose(x)
      PROVE  Stuck(x, h)'
  BY <1>0, <1>d, <1>12 DEF Unchoose, Own, TypeOK
<1>13. ASSUME Leave(x)
      PROVE  Stuck(x, h)'
  BY <1>0, <1>d, <1>13 DEF Leave, Own, TypeOK
<1>14. ASSUME EnterCS(x)
      PROVE  Stuck(x, h)'
  BY <1>0, <1>d, <1>14 DEF EnterCS, Object, Own, TypeOK
<1>15. ASSUME ExitCS(x)
      PROVE  Stuck(x, h)'
  BY <1>0, <1>d, <1>15 DEF ExitCS, Object, Own, TypeOK
<1>16. ASSUME Die(x)
      PROVE  Stuck(x, h)'
  BY <1>0, <1>d, <1>16 DEF Die, Running, Own, TypeOK
<1> QED
  BY StepCases, <1>1, <1>2, <1>3, <1>4, <1>5, <1>6, <1>7, <1>8, <1>9, <1>10, <1>11, <1>12, <1>13, <1>14, <1>15, <1>16, <1>17

(* The observer has nothing to object to. *)
LEMMA NoObjection ==
  ASSUME BInv, OInv, NEW x \in Hosts
  PROVE  /\ pc[x] \in {"enter", "entering"} => owner = Nobody
         /\ pc[x] \in {"cs", "exiting"} => owner = x
<1>1. pc[x] \in {"cs", "exiting"} => owner = x
  BY DEF OInv, Owner
<1>2. ASSUME pc[x] \in {"enter", "entering"}, owner # Nobody PROVE FALSE
  <2>1. owner \in Hosts /\ owner # x
    BY <1>2 DEF BInv, TypeOK, OInv, Owner
  <2>2. pc[owner] \notin Critical
    BY <1>2, <2>1, Order DEF MutualExclusion, Critical
  <2>3. Stuck(x, owner)
    BY <2>1, <2>2 DEF OInv, Owner, Others, Critical
  <2> QED
    BY <1>2, <2>3 DEF Stuck, Critical
<1> QED
  BY <1>1, <1>2

(* What a step can do to the owner. *)
Moves(x) ==
  /\ \/ owner' = owner
     \/ pc[x] = "entering" /\ owner' = x /\ pc'[x] \in {"cs", "dead"}
     \/ pc[x] = "exiting" /\ owner' = Nobody
  /\ pc[x] = "exiting" => pc'[x] = "dead" \/ owner' = Nobody
  /\ pc[x] \notin {"gone", "dead"}
  /\ pc[x] = "cs" => pc'[x] \in {"exiting", "dead"}
  /\ pc'[x] = "cs" => owner' = x
  /\ pc'[x] = "exiting" => pc[x] = "cs" /\ owner' = owner
  /\ violation' = violation
  /\ pc[x] \in Critical => live' = live
  /\ \A h, k \in Hosts : h # x => live'[k][h] = live[k][h]

LEMMA OwnerMoves ==
  ASSUME BInv, OInv, NEW x \in Hosts, Step(x) \/ Die(x)
  PROVE  Moves(x)
<1> USE DEF Moves, Critical
<1>0. TypeOK /\ Own(x)
  BY DEF BInv
<1>o. /\ pc[x] \in {"enter", "entering"} => owner = Nobody
      /\ pc[x] \in {"cs", "exiting"} => owner = x
      /\ x # Nobody
  BY NoObjection DEF Hosts, Nobody
<1>1. ASSUME NEW y \in Hosts, NextHost(x, y), AnnounceUp(x, y)
      PROVE  Moves(x)
  <2>1. Looped(x, y, "announce", "waitup")
    BY <1>0, <1>1, Loop DEF AnnounceUp
  <2> QED
    BY <1>0, <1>o, <2>1, <1>1 DEF Looped, AnnounceUp, TypeOK
<1>2. ASSUME NEW y \in Hosts, NextHost(x, y), SeeUp(x, y)
      PROVE  Moves(x)
  <2>1. Looped(x, y, "waitup", IF left[x] = 0 THEN "goodbye" ELSE "choose")
    BY <1>0, <1>2, Loop DEF SeeUp
  <2> QED
    BY <1>0, <1>o, <2>1, <1>2 DEF Looped, SeeUp, TypeOK
<1>3. ASSUME NEW y \in Hosts, NextHost(x, y), LookAgain(x, y)
      PROVE  Moves(x)
  BY <1>0, <1>o, <1>3 DEF LookAgain, TypeOK
<1>4. ASSUME NEW y \in Hosts, NextHost(x, y), ReadMax(x, y)
      PROVE  Moves(x)
  <2>1. Looped(x, y, "max", "take")
    BY <1>0, <1>4, Loop DEF ReadMax
  <2> QED
    BY <1>0, <1>o, <2>1, <1>4 DEF Looped, ReadMax, NumOfHost, TypeOK
<1>5. ASSUME NEW y \in Hosts, NextHost(x, y), SeeChosen(x, y)
      PROVE  Moves(x)
  BY <1>0, <1>o, <1>5 DEF SeeChosen, TypeOK
<1>6. ASSUME NEW y \in Hosts, NextHost(x, y), SeeNumber(x, y)
      PROVE  Moves(x)
  <2>1. Looped(x, y, "waitchoose", "enter")
    BY <1>0, <1>6, Loop DEF SeeNumber
  <2> QED
    BY <1>0, <1>o, <2>1, <1>6 DEF Looped, SeeNumber, NumOfHost, TypeOK
<1>7. ASSUME NEW y \in Hosts, NextHost(x, y), AnnounceDown(x, y)
      PROVE  Moves(x)
  BY <1>0, <1>o, <1>7 DEF AnnounceDown, TypeOK
<1>17. ASSUME NEW y \in Hosts, NextHost(x, y), DownReply(x, y)
      PROVE  Moves(x)
  <2>1. Looped(x, y, "goodbye", "waitdown")
    BY <1>0, <1>17, Loop DEF DownReply
  <2> QED
    BY <1>0, <1>o, <2>1, <1>17 DEF Looped, DownReply, TypeOK
<1>8. ASSUME NEW y \in Hosts, NextHost(x, y), SeeDown(x, y)
      PROVE  Moves(x)
  <2>1. Looped(x, y, "waitdown", "gone")
    BY <1>0, <1>8, Loop DEF SeeDown
  <2> QED
    BY <1>0, <1>o, <2>1, <1>8 DEF Looped, SeeDown, TypeOK
<1>9. ASSUME NEW y \in Hosts, NextHost(x, y), CallFails(x, y)
      PROVE  Moves(x)
  BY <1>0, <1>o, <1>9 DEF CallFails, TypeOK, Calls
<1>10. ASSUME Choose(x)
      PROVE  Moves(x)
  BY <1>0, <1>o, <1>10 DEF Choose, TypeOK
<1>11. ASSUME Take(x)
      PROVE  Moves(x)
  BY <1>0, <1>o, <1>11 DEF Take, TypeOK
<1>12. ASSUME Unchoose(x)
      PROVE  Moves(x)
  BY <1>0, <1>o, <1>12 DEF Unchoose, TypeOK
<1>13. ASSUME Leave(x)
      PROVE  Moves(x)
  BY <1>0, <1>o, <1>13 DEF Leave, TypeOK
<1>14. ASSUME EnterCS(x)
      PROVE  Moves(x)
  <2>1. CASE pc[x] = "enter"
    <3>o. owner = Nobody
      BY <1>o, <2>1
    <3>1. pc' = [pc EXCEPT ![x] = "entering"] /\ UNCHANGED <<owner, violation, live>>
      BY <2>1, <3>o, <1>14 DEF EnterCS, Object
    <3> QED
      BY <1>0, <2>1, <3>1 DEF TypeOK
  <2>2. CASE pc[x] = "entering"
    <3>1. pc' = [pc EXCEPT ![x] = "cs"] /\ owner' = x /\ UNCHANGED <<violation, live>>
      BY <2>2, <1>14 DEF EnterCS
    <3> QED
      BY <1>0, <2>2, <3>1 DEF TypeOK
  <2> QED
    BY <2>1, <2>2, <1>14 DEF EnterCS
<1>15. ASSUME ExitCS(x)
      PROVE  Moves(x)
  <2>1. CASE pc[x] = "cs"
    <3>o. owner # Nobody
      BY <1>o, <2>1
    <3>1. pc' = [pc EXCEPT ![x] = "exiting"] /\ UNCHANGED <<owner, violation, live>>
      BY <2>1, <3>o, <1>15 DEF ExitCS, Object
    <3> QED
      BY <1>0, <2>1, <3>1 DEF TypeOK
  <2>2. CASE pc[x] = "exiting"
    <3>1. pc' = [pc EXCEPT ![x] = "leave"] /\ owner' = Nobody /\ UNCHANGED <<violation, live>>
      BY <2>2, <1>15 DEF ExitCS
    <3> QED
      BY <1>0, <2>2, <3>1 DEF TypeOK
  <2> QED
    BY <2>1, <2>2, <1>15 DEF ExitCS
<1>16. ASSUME Die(x)
      PROVE  Moves(x)
  BY <1>0, <1>o, <1>16 DEF Die, Running, TypeOK
<1> QED
  BY StepCases, <1>1, <1>2, <1>3, <1>4, <1>5, <1>6, <1>7, <1>8, <1>9, <1>10, <1>11, <1>12, <1>13, <1>14, <1>15, <1>16, <1>17

(* A step keeps what the observer knows. *)
LEMMA OwnerStep ==
  ASSUME BInv, OInv, NEW x \in Hosts, Step(x) \/ Die(x), NEW h \in Hosts
  PROVE  Owner(h)'
<1>0. Owner(h) /\ TypeOK
  BY DEF BInv, OInv
<1>c. {"cs", "exiting", "entering"} \subseteq Critical
  BY DEF Critical
<1>1. CASE h # x
  <2>1. Same(h)
    BY <1>1, Frame
  <2>2. pc[h] \in {"cs", "exiting"} => owner' = owner
    BY <1>1, <1>c, Order, OwnerMoves DEF MutualExclusion, Moves
  <2>3. owner' = h => owner = h
    BY <1>1, OwnerMoves DEF Nobody, Hosts, Moves
  <2>4. ASSUME pc[h] = "dead", NEW k \in Others(h), Stuck(k, h)
        PROVE  Stuck(k, h)'
    <3>1. CASE k = x
      BY <1>1, <2>4, <3>1, StaysStuck
    <3>2. CASE k # x
      <4>1. k \in Hosts /\ Same(k)
        BY <3>2, Frame DEF Others
      <4> QED
        BY <1>1, <2>4, <4>1, OwnerMoves DEF Stuck, Same, Moves
    <3> QED
      BY <3>1, <3>2
  <2> QED
    BY <1>0, <2>1, <2>2, <2>3, <2>4 DEF Owner, Same, Others, Hosts
<1>2. CASE h = x
  <2>1. ASSUME pc[x] \in Critical, pc'[x] = "dead", NEW k \in Others(x)
        PROVE  Stuck(k, x)'
    <3>1. Stuck(k, x)
      BY <2>1, DeadStops
    <3>2. Same(k)
      BY Frame DEF Others
    <3>3. live'[k][x] = live[k][x]
      BY <2>1, OwnerMoves DEF Moves
    <3> QED
      BY <3>1, <3>2, <3>3 DEF Stuck, Same
  <2>2. pc'[x] \in {"cs", "exiting"} => owner' = x
    BY OwnerMoves, NoObjection DEF Moves
  <2>3. ASSUME owner' = x, pc'[x] \notin {"cs", "exiting"}
        PROVE  pc[x] \in Critical /\ pc'[x] = "dead"
    <3>1. owner = x => pc[x] \in {"cs", "exiting"}
      BY <1>0, <1>2, OwnerMoves DEF Owner, Moves
    <3>2. x # Nobody
      BY DEF Hosts, Nobody
    <3> QED
      BY <1>c, <2>3, <3>1, <3>2, OwnerMoves DEF Moves
  <2> QED
    BY <1>2, <2>1, <2>2, <2>3 DEF Owner, Others, Hosts
<1> QED
  BY <1>1, <1>2

(* How a host comes to its end.                                            *)
Ends(x) ==
  /\ pc[x] \notin {"gone", "dead"}
  /\ pc[x] \in Ending => pc'[x] \in Ending \cup {"dead"} /\ left'[x] = left[x]
  /\ pc'[x] = "dead" => deaths' > 0 \/ \E y \in Hosts : ~Running(y)
  /\ deaths' >= deaths

LEMMA EndsSo ==
  ASSUME BInv, OInv, NEW x \in Hosts, Step(x) \/ Die(x)
  PROVE  Ends(x)
<1> USE DEF Ends, Ending
<1>0. TypeOK /\ Own(x) /\ deaths \in Nat
  BY DEF BInv, TypeOK
<1>a. pc[x] \in {"enter", "entering"} => owner = Nobody
  BY NoObjection
<1>b. pc[x] \in {"cs", "exiting"} => owner # Nobody
  BY NoObjection DEF Hosts, Nobody
<1>1. ASSUME NEW y \in Hosts, NextHost(x, y), AnnounceUp(x, y)
      PROVE  Ends(x)
  <2>1. Looped(x, y, "announce", "waitup")
    BY <1>0, <1>1, Loop DEF AnnounceUp
  <2> QED
    BY <1>0, <1>1, <2>1 DEF Looped, AnnounceUp, TypeOK
<1>2. ASSUME NEW y \in Hosts, NextHost(x, y), SeeUp(x, y)
      PROVE  Ends(x)
  <2>1. Looped(x, y, "waitup", IF left[x] = 0 THEN "goodbye" ELSE "choose")
    BY <1>0, <1>2, Loop DEF SeeUp
  <2> QED
    BY <1>0, <1>2, <2>1 DEF Looped, SeeUp, TypeOK
<1>3. ASSUME NEW y \in Hosts, NextHost(x, y), LookAgain(x, y)
      PROVE  Ends(x)
  BY <1>0, <1>3 DEF LookAgain, TypeOK
<1>4. ASSUME NEW y \in Hosts, NextHost(x, y), ReadMax(x, y)
      PROVE  Ends(x)
  <2>1. Looped(x, y, "max", "take")
    BY <1>0, <1>4, Loop DEF ReadMax
  <2> QED
    BY <1>0, <1>4, <2>1 DEF Looped, ReadMax, NumOfHost, TypeOK
<1>5. ASSUME NEW y \in Hosts, NextHost(x, y), SeeChosen(x, y)
      PROVE  Ends(x)
  BY <1>0, <1>5 DEF SeeChosen, TypeOK
<1>6. ASSUME NEW y \in Hosts, NextHost(x, y), SeeNumber(x, y)
      PROVE  Ends(x)
  <2>1. Looped(x, y, "waitchoose", "enter")
    BY <1>0, <1>6, Loop DEF SeeNumber
  <2> QED
    BY <1>0, <1>6, <2>1 DEF Looped, SeeNumber, NumOfHost, TypeOK
<1>7. ASSUME NEW y \in Hosts, NextHost(x, y), AnnounceDown(x, y)
      PROVE  Ends(x)
  BY <1>0, <1>7 DEF AnnounceDown, TypeOK
<1>8. ASSUME NEW y \in Hosts, NextHost(x, y), DownReply(x, y)
      PROVE  Ends(x)
  <2>1. Looped(x, y, "goodbye", "waitdown")
    BY <1>0, <1>8, Loop DEF DownReply
  <2> QED
    BY <1>0, <1>8, <2>1 DEF Looped, DownReply, TypeOK
<1>9. ASSUME NEW y \in Hosts, NextHost(x, y), SeeDown(x, y)
      PROVE  Ends(x)
  <2>1. Looped(x, y, "waitdown", "gone")
    BY <1>0, <1>9, Loop DEF SeeDown
  <2> QED
    BY <1>0, <1>9, <2>1 DEF Looped, SeeDown, TypeOK
<1>10. ASSUME NEW y \in Hosts, NextHost(x, y), CallFails(x, y)
      PROVE  Ends(x)
  BY <1>0, <1>10 DEF CallFails, Calls, Running, TypeOK
<1>11. ASSUME Choose(x)
      PROVE  Ends(x)
  BY <1>0, <1>11 DEF Choose, TypeOK
<1>12. ASSUME Take(x)
      PROVE  Ends(x)
  BY <1>0, <1>12 DEF Take, TypeOK
<1>13. ASSUME Unchoose(x)
      PROVE  Ends(x)
  BY <1>0, <1>13 DEF Unchoose, TypeOK
<1>14. ASSUME Leave(x)
      PROVE  Ends(x)
  BY <1>0, <1>14 DEF Leave, TypeOK
<1>15. ASSUME EnterCS(x)
      PROVE  Ends(x)
  BY <1>0, <1>a, <1>15 DEF EnterCS, TypeOK
<1>16. ASSUME ExitCS(x)
      PROVE  Ends(x)
  BY <1>0, <1>b, <1>16 DEF ExitCS, TypeOK
<1>17. ASSUME Die(x)
      PROVE  Ends(x)
  BY <1>0, <1>17 DEF Die, Running, TypeOK
<1> QED
  BY StepCases, <1>1, <1>2, <1>3, <1>4, <1>5, <1>6, <1>7, <1>8, <1>9, <1>10, <1>11, <1>12, <1>13, <1>14, <1>15, <1>16, <1>17

(* Until a host dies by itself, the first to exit has been told by all the *)
(* others that they are down.                                              *)
LEMMA NobodyLeaves ==
  ASSUME BInv, OInv, NEW x \in Hosts, Step(x) \/ Die(x), BInv'
  PROVE  NobodyLeavesEarly'
<1> SUFFICES ASSUME deaths' = 0, NEW z \in Hosts, ~Running(z)', NEW k \in Hosts
             PROVE  left'[k] = 0 /\ pc'[k] \in Ending \cup {"dead"}
  BY DEF NobodyLeavesEarly
<1>1. Ends(x)
  BY EndsSo
<1>2. deaths = 0
  BY <1>1 DEF Ends, BInv, TypeOK
<1>3. k # x => Same(k)
  BY Frame
<1>4. CASE \E h \in Hosts : ~Running(h)
  <2>1. left[k] = 0 /\ pc[k] \in Ending \cup {"dead"}
    BY <1>2, <1>4 DEF OInv, NobodyLeavesEarly
  <2> QED
    BY <1>1, <1>3, <2>1 DEF Same, Ends
<1>5. CASE \A h \in Hosts : Running(h)
  <2>1. z = x
    BY <1>5, Frame DEF Same, Running
  <2>2. pc'[x] = "gone"
    BY <1>1, <1>5, <2>1 DEF Ends, Running
  <2>3. k # x => ToldDown(k, x)' /\ pc'[k] # "dead"
    BY <1>3, <1>5, <2>2 DEF BInv, Copy, Same, Running
  <2>4. pc'[k] \in Ending
    BY <2>2, <2>3 DEF ToldDown, Ending
  <2> QED
    BY <2>4 DEF BInv, Own
<1> QED
  BY <1>4, <1>5

(* The program starts in the invariant. *)
LEMMA Start == Init => BInv /\ OInv
<1> SUFFICES ASSUME Init PROVE BInv /\ OInv
  OBVIOUS
<1> USE BakeryAssumption DEF Init, Nobody
<1>1. TypeOK
  <2>1. left \in [Hosts -> Nat] /\ \A h \in Hosts : left[h] \in 0..NIters[h]
    BY DEF Hosts
  <2> QED
    BY <2>1 DEF TypeOK, Places, Starting, Others
<1>2. ASSUME NEW h \in Hosts PROVE Own(h)
  <2>1. Others(h) # {}
    <3>1. 1 \in Hosts /\ 2 \in Hosts
      BY DEF Hosts
    <3>2. 1 \in Others(h) \/ 2 \in Others(h)
      BY <3>1 DEF Others
    <3> QED
      BY <3>2
  <2> QED
    BY <2>1 DEF Own, Starting, Choosing, Waiting, Critical, Ending
<1>3. ASSUME NEW h \in Hosts, NEW k \in Hosts, h # k PROVE Copy(h, k) /\ Passed(h, k)
  BY <1>3 DEF Copy, Passed, ToldUp, ToldDown, Starting, Critical, Others
<1>4. OInv
  BY DEF OInv, Owner, Hosts, NobodyLeavesEarly, Running
<1> QED
  BY <1>1, <1>2, <1>3, <1>4 DEF BInv

(* Every step keeps it. *)
LEMMA Keeps == BInv /\ OInv /\ [Next]_vars => BInv' /\ OInv'
<1> SUFFICES ASSUME BInv, OInv, [Next]_vars PROVE BInv' /\ OInv'
  OBVIOUS
<1>1. CASE UNCHANGED vars
  BY <1>1 DEF vars, BInv, OInv, TypeOK, Own, Copy, ToldUp, ToldDown, Passed, Before, WillSee,
              NextHost, Owner, Stuck, NobodyLeavesEarly, Running
<1>2. ASSUME NEW x \in Hosts, Step(x) \/ Die(x) PROVE BInv' /\ OInv'
  <2>1. BInv'
    BY <1>2, TypeStep, OwnStep, CopyStep, PassedStep DEF BInv
  <2>2. OInv'
    <3>1. ~violation'
      BY <1>2, OwnerMoves DEF OInv, Moves
    <3> QED
      BY <1>2, <2>1, <3>1, OwnerStep, NobodyLeaves DEF OInv
  <2> QED
    BY <2>1, <2>2
<1> QED
  BY <1>1, <1>2 DEF Next

LEMMA Always == Spec => [](BInv /\ OInv)
  BY Start, Keeps, PTL DEF Spec

-----------------------------------------------------------------------------
(* The variables have their types, and no host runs an iteration too many  *)
(* (bakeryFun's loop, bakery-dist.go:164-193).                             *)
THEOREM BakeryTypeOK == Spec => []TypeOK
<1>1. BInv /\ OInv => TypeOK
  BY DEF BInv
<1> QED
  BY <1>1, Always, PTL

(* Any number of hosts take turns in critical_section, whoever dies.       *)
THEOREM BakeryExclusion == Spec => []MutualExclusion
<1>1. BInv /\ OInv => MutualExclusion
  BY Order
<1> QED
  BY <1>1, Always, PTL

(* Whoever has a ticket while another is in the critical section has a     *)
(* later one (lt and the second wait, bakery-dist.go:136-144 and 183-190). *)
THEOREM BakeryOrder == Spec => []TicketOrder
<1>1. BInv /\ OInv => TicketOrder
  BY Order
<1> QED
  BY <1>1, Always, PTL

(* The observer never logs "VIOLATION" (observer.go:25 and 35), although   *)
(* the owner that died in the critical section stays its owner.            *)
THEOREM BakeryQuiet == Spec => []ObserverQuiet
<1>1. BInv /\ OInv => ObserverQuiet
  BY DEF OInv, ObserverQuiet
<1> QED
  BY <1>1, Always, PTL

(* Nobody exits, or is killed by an exit, before all have had their turns  *)
(* (waitDead, bakery-dist.go:250-257).                                     *)
THEOREM BakeryNobodyLeavesEarly == Spec => []NobodyLeavesEarly
<1>1. BInv /\ OInv => NobodyLeavesEarly
  BY DEF OInv
<1> QED
  BY <1>1, Always, PTL
=============================================================================
