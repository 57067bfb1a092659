---------------------------- MODULE BSPageProofs ----------------------------
(***************************************************************************)
(* What holds of the page for any number of panels, tabs, items, steps of  *)
(* a highlight and acts of the user: all of its invariants.  A callback    *)
(* may find others waiting with it, so what they do in turn is proved by   *)
(* induction over them; then each widget has an inductive invariant, and   *)
(* the page, whose widgets share no state, has all of them.                *)
(***************************************************************************)
EXTENDS BSPage, FiniteSetTheorems, SequenceTheorems, WellFoundedInduction, TLAPS

(* Induction over the naturals, for a set: the least number that is not in *)
(* the set has a predecessor that is.                                      *)
LEMMA SetInduction ==
  ASSUME NEW S, 0 \in S, \A n \in Nat : n \in S => n + 1 \in S
  PROVE  Nat \subseteq S
<1>. DEFINE T == Nat \ S
<1>1. ASSUME T # {} PROVE FALSE
  <2>1. PICK x \in T : \A y \in T : ~(<<y, x>> \in OpToRel(<, Nat))
    BY <1>1, NatLessThanWellFounded, WFMin
  <2>2. x - 1 \in T /\ x - 1 < x /\ x \in Nat
    OBVIOUS
  <2>3. <<x - 1, x>> \in OpToRel(<, Nat)
    BY <2>2 DEF OpToRel
  <2>. QED BY <2>1, <2>2, <2>3
<1>. QED BY <1>1

(* The recursive function in InTurn is well defined.                       *)
LEMMA InTurnRuns ==
  ASSUME NEW calls, NEW s, NEW F, NEW waits \in Seq(F)
  PROVE  \E after : /\ after[0] = s
                    /\ \A i \in 1..Len(waits) : after[i] = calls[waits[i]][after[i - 1]]
                    /\ InTurn(calls, s, waits) = after[Len(waits)]
<1>. DEFINE n == Len(waits)
            Runs(m) ==
       \E r : r = [i \in 0..m |-> IF i = 0 THEN s ELSE calls[waits[i]][r[i - 1]]]
            S == {m \in Nat : Runs(m)}
<1>1. 0 \in S
  <2>1. \A i \in 0..0 : i = 0
    OBVIOUS
  <2>2. [i \in 0..0 |-> s] =
          [i \in 0..0 |-> IF i = 0 THEN s ELSE calls[waits[i]][[j \in 0..0 |-> s][i - 1]]]
    BY <2>1
  <2>. QED BY <2>2
<1>2. ASSUME NEW m \in Nat, Runs(m) PROVE Runs(m + 1)
  <2>1. PICK r : r = [i \in 0..m |-> IF i = 0 THEN s ELSE calls[waits[i]][r[i - 1]]]
    BY <1>2
  <2>. DEFINE q == [i \in 0..(m + 1) |-> IF i = m + 1 THEN calls[waits[m + 1]][r[m]] ELSE r[i]]
  <2>2. ASSUME NEW i \in 0..(m + 1)
        PROVE  q[i] = IF i = 0 THEN s ELSE calls[waits[i]][q[i - 1]]
    <3>1. CASE i = m + 1
      <4>1. q[m] = r[m] /\ i - 1 = m /\ i # 0
        BY <3>1
      <4>. QED BY <3>1, <4>1
    <3>2. CASE i # m + 1
      <4>1. i \in 0..m /\ (i # 0 => i - 1 \in 0..m /\ i - 1 # m + 1)
        BY <3>2
      <4>2. r[i] = IF i = 0 THEN s ELSE calls[waits[i]][r[i - 1]]
        BY <2>1, <4>1
      <4>. QED BY <3>2, <4>1, <4>2
    <3>. QED BY <3>1, <3>2
  <2>3. q = [i \in 0..(m + 1) |-> IF i = 0 THEN s ELSE calls[waits[i]][q[i - 1]]]
    <3>1. q = [i \in 0..(m + 1) |-> q[i]]
      OBVIOUS
    <3>. HIDE DEF q
    <3>. QED BY <2>2, <3>1
  <2>. QED BY <2>3
<1>3. n \in S
  <2>. HIDE DEF Runs
  <2>1. \A m \in Nat : m \in S => m + 1 \in S
    BY <1>2
  <2>2. n \in Nat
    BY LenProperties
  <2>. HIDE DEF S
  <2>. QED BY <1>1, <2>1, <2>2, SetInduction
<1>4. n \in Nat /\ Runs(n)
  <2>. HIDE DEF Runs, n
  <2>. QED BY <1>3
<1>. DEFINE after == CHOOSE r : r = [i \in 0..n |-> IF i = 0 THEN s ELSE calls[waits[i]][r[i - 1]]]
<1>5. InTurn(calls, s, waits) = after[n]
  BY DEF InTurn
<1>. HIDE DEF n
<1>6. after = [i \in 0..n |-> IF i = 0 THEN s ELSE calls[waits[i]][after[i - 1]]]
  BY <1>4
<1>. HIDE DEF after
<1>7. after[0] = s /\ \A i \in 1..n : after[i] = calls[waits[i]][after[i - 1]]
  BY <1>4, <1>6
<1>. QED BY <1>5, <1>7 DEF n

(* What each of the callbacks preserves, all of them in turn preserve.     *)
LEMMA InTurnKeeps ==
  ASSUME NEW S, NEW F, NEW calls, NEW s \in S, NEW waits \in Seq(F),
         \A t \in S, fn \in F : calls[fn][t] \in S
  PROVE  InTurn(calls, s, waits) \in S
<1>. DEFINE n == Len(waits)
<1>1. n \in Nat /\ \A i \in 1..n : waits[i] \in F
  BY LenProperties, ElementOfSeq
<1>2. PICK after : /\ after[0] = s
                   /\ \A i \in 1..n : after[i] = calls[waits[i]][after[i - 1]]
                   /\ InTurn(calls, s, waits) = after[n]
  BY InTurnRuns
<1>. HIDE DEF n
<1>. DEFINE T == {i \in Nat : i <= n => after[i] \in S}
<1>3. 0 \in T
  BY <1>2
<1>4. \A m \in Nat : m \in T => m + 1 \in T
  <2>. SUFFICES ASSUME NEW m \in Nat, m \in T, m + 1 <= n PROVE after[m + 1] \in S
    OBVIOUS
  <2>1. after[m] \in S /\ m + 1 \in 1..n /\ (m + 1) - 1 = m
    BY <1>1
  <2>2. after[m + 1] = calls[waits[m + 1]][after[m]]
    BY <1>2, <2>1
  <2>. QED BY <1>1, <2>1, <2>2
<1>5. n \in T
  <2>. HIDE DEF T
  <2>. QED BY <1>1, <1>3, <1>4, SetInduction
<1>. QED BY <1>1, <1>2, <1>5

LEMMA InTurnNone ==
  ASSUME NEW calls, NEW s PROVE InTurn(calls, s, <<>>) = s
<1>. DEFINE w == <<>>
<1>1. \A F : w \in Seq(F)
  BY EmptySeq
<1>2. Len(w) = 0
  OBVIOUS
<1>. HIDE DEF w
<1>3. PICK after : /\ after[0] = s
                   /\ \A i \in 1..Len(w) : after[i] = calls[w[i]][after[i - 1]]
                   /\ InTurn(calls, s, w) = after[Len(w)]
  BY <1>1, InTurnRuns
<1>4. InTurn(calls, s, w) = s
  BY <1>2, <1>3
<1>. QED BY <1>4 DEF w

LEMMA InTurnOne ==
  ASSUME NEW calls, NEW s, NEW fn PROVE InTurn(calls, s, <<fn>>) = calls[fn][s]
<1>. DEFINE w == <<fn>>
<1>1. w \in Seq({fn}) /\ Len(w) = 1 /\ w[1] = fn
  OBVIOUS
<1>. HIDE DEF w
<1>2. PICK after : /\ after[0] = s
                   /\ \A i \in 1..Len(w) : after[i] = calls[w[i]][after[i - 1]]
                   /\ InTurn(calls, s, w) = after[Len(w)]
  BY <1>1, InTurnRuns
<1>3. after[1] = calls[w[1]][after[1 - 1]]
  BY <1>1, <1>2
<1>4. InTurn(calls, s, w) = calls[fn][s]
  BY <1>1, <1>2, <1>3
<1>. QED BY <1>4 DEF w

LEMMA AwaitFirst ==
  ASSUME NEW fn PROVE Await(<<>>, fn) = <<fn>>
<1>1. <<>> \in Seq({fn}) /\ <<fn>> \in Seq({fn}) /\ Len(<<>>) = 0
  BY EmptySeq
<1>2. Append(<<>>, fn) \in Seq({fn}) /\ Len(Append(<<>>, fn)) = 1 /\ Append(<<>>, fn)[1] = fn
  BY <1>1, AppendProperties
<1>3. Len(<<fn>>) = 1 /\ <<fn>>[1] = fn
  OBVIOUS
<1>. QED BY <1>1, <1>2, <1>3, SeqEqual DEF Await

-----------------------------------------------------------------------------
(* The glow and its timers are numbers in their ranges.                    *)
LEMMA GlowType == HighlightTypeOK /\ [Next]_vars => HighlightTypeOK'
<1>. SUFFICES ASSUME HighlightTypeOK, [Next]_vars PROVE HighlightTypeOK'
  OBVIOUS
<1>1. PICK a \in 0..HlMax, f \in Nat, s \in Nat :
        glow = [hlalpha |-> a, fades |-> f, steps |-> s]
  BY DEF HighlightTypeOK
<1>2. CASE DoHighlight
  <2>1. glow' = [hlalpha |-> HlMax, fades |-> f + 1, steps |-> s]
    BY <1>1, <1>2 DEF DoHighlight
  <2>. QED BY <2>1, HlAssumption DEF HighlightTypeOK
<1>3. CASE Fade
  <2>1. f > 0 /\ glow' = [hlalpha |-> a, fades |-> f - 1, steps |-> s + 1]
    BY <1>1, <1>3 DEF Fade
  <2>2. f - 1 \in Nat /\ s + 1 \in Nat
    BY <2>1
  <2>. QED BY <2>1, <2>2 DEF HighlightTypeOK
<1>4. CASE FadeStep
  <2>1. s > 0 /\ glow.hlalpha = a
    BY <1>1, <1>4 DEF FadeStep
  <2>2. s - 1 \in Nat /\ f + 1 \in Nat /\ 0 \in 0..HlMax /\ (a > 1 => a - 1 \in 0..HlMax)
    BY <2>1, HlAssumption
  <2>3. CASE a <= 1
    <3>1. glow' = [hlalpha |-> 0, fades |-> f, steps |-> s - 1]
      BY <1>1, <1>4, <2>1, <2>3 DEF FadeStep
    <3>. QED BY <2>2, <3>1 DEF HighlightTypeOK
  <2>4. CASE a > 1
    <3>. ~(a <= 1)
      BY <2>4
    <3>1. glow' = [hlalpha |-> a - 1, fades |-> f + 1, steps |-> s - 1]
      BY <1>1, <1>4, <2>1, <2>4 DEF FadeStep
    <3>. QED BY <2>2, <2>4, <3>1 DEF HighlightTypeOK
  <2>. QED BY <2>3, <2>4
<1>5. CASE UNCHANGED glow
  BY <1>5 DEF HighlightTypeOK
<1>. QED BY <1>2, <1>3, <1>4, <1>5
  DEF Next, Use, Ends, EndHighlight, vars, Collapsing, Dialog, Tipping, Turning, Tabbing

LEMMA GlowStep == HighlightTypeOK /\ NoGlowLeft /\ [Next]_vars => NoGlowLeft'
<1>. SUFFICES ASSUME HighlightTypeOK, NoGlowLeft, [Next]_vars PROVE NoGlowLeft'
  OBVIOUS
<1>. USE HlAssumption DEF HighlightTypeOK, NoGlowLeft
<1>1. CASE DoHighlight
  BY <1>1 DEF DoHighlight
<1>2. CASE Fade
  BY <1>2 DEF Fade
<1>3. CASE FadeStep
  BY <1>3 DEF FadeStep
<1>4. CASE UNCHANGED glow
  BY <1>4
<1>. QED BY <1>1, <1>2, <1>3, <1>4
  DEF Next, Use, Ends, EndHighlight, vars, Collapsing, Dialog, Tipping, Turning, Tabbing

(* A border that is lit has a timer that will darken it, for any number of *)
(* messages and steps, whichever chain of timers ends first (highlightFn). *)
THEOREM LitBorderFades == Spec => []NoGlowLeft
<1>1. Init => HighlightTypeOK /\ NoGlowLeft
  BY HlAssumption DEF Init, HighlightInit, HighlightTypeOK, NoGlowLeft
<1>. QED BY <1>1, GlowType, GlowStep, PTL DEF Spec

-----------------------------------------------------------------------------
(* A panel outside the accordion is at rest, closed until it is first      *)
(* clicked and then as its trigger tells; or it is on its way to what the  *)
(* trigger tells, with the one callback that gets it there.                *)
Rests(r, c) ==
  /\ r.waits = <<>> /\ ~r.transitioning
  /\ r.cls \in {"collapse", "in"}
  /\ IF r.data = "none" THEN r.cls = "collapse" ELSE c <=> r.cls = "collapse"

Moves(r, c) ==
  /\ r.waits = <<[fn |-> IF c THEN "hidden" ELSE "shown", own |-> TRUE]>>
  /\ r.transitioning /\ r.cls = "collapsing" /\ r.data # "none"

Follows(r, c) ==
  r \in PanelStates /\ r.data # "parent" /\ (Rests(r, c) \/ Moves(r, c))

NavFollows ==
  /\ panel = [p \in Panels |-> panel[p]]
  /\ collapsed \in [Panels -> BOOLEAN]
  /\ \A p \in Panels \ Accordion : Follows(panel[p], collapsed[p])

LEMMA NavInit == Init => NavFollows
<1>. SUFFICES ASSUME Init PROVE NavFollows
  OBVIOUS
<1>1. PICK open \in {{}} \cup {{p} : p \in Accordion} :
        panel = [p \in Panels |-> Fresh(IF p \in open THEN "in" ELSE "collapse")]
  BY DEF Init, CollapseInit
<1>2. \A p \in Panels \ Accordion : panel[p] = Fresh("collapse")
  BY <1>1
<1>3. Fresh("collapse") \in PanelStates
  <2>1. <<>> \in Seq(Callbacks)
    BY EmptySeq
  <2>. QED BY <2>1 DEF Fresh, PanelStates
<1>4. Rests(Fresh("collapse"), FALSE) /\ Fresh("collapse").data # "parent"
  BY DEF Fresh, Rests
<1>5. collapsed = [p \in Panels |-> FALSE]
  BY DEF Init, CollapseInit
<1>. QED BY <1>1, <1>2, <1>3, <1>4, <1>5 DEF NavFollows, Follows

(* What show and hide make of a panel at rest.                             *)
LEMMA OpenFollows ==
  ASSUME NEW r \in PanelStates, Rests(r, TRUE) \/ Rests(r, FALSE),
         r.cls = "collapse", r.data = "alone"
  PROVE  Follows(Open(r), FALSE)
<1>1. Await(<<>>, [fn |-> "shown", own |-> TRUE]) = <<[fn |-> "shown", own |-> TRUE]>>
  BY DEF Await
<1>2. <<[fn |-> "shown", own |-> TRUE]>> \in Seq(Callbacks)
  BY DEF Callbacks
<1>3. CASE animated
  <2>1. Open(r) = [r EXCEPT !.cls = "collapsing", !.transitioning = TRUE,
                            !.waits = <<[fn |-> "shown", own |-> TRUE]>>]
    BY <1>1, <1>3 DEF Open, Rests, PanelStates
  <2>2. Open(r) \in PanelStates
    BY <1>2, <2>1 DEF PanelStates
  <2>3. Moves(Open(r), FALSE)
    BY <2>1 DEF PanelStates, Moves
  <2>4. Open(r).data = "alone"
    BY <2>1 DEF PanelStates
  <2>. QED BY <2>2, <2>3, <2>4 DEF Follows
<1>4. CASE ~animated
  BY <1>4 DEF Open, Rests, Follows, PanelStates
<1>. QED BY <1>3, <1>4

LEMMA HideFollows ==
  ASSUME NEW r \in PanelStates, Rests(r, TRUE) \/ Rests(r, FALSE),
         r.cls = "in", r.data = "alone"
  PROVE  Follows(Hide(r), TRUE)
<1>1. Await(<<>>, [fn |-> "hidden", own |-> TRUE]) = <<[fn |-> "hidden", own |-> TRUE]>>
  BY DEF Await
<1>2. <<[fn |-> "hidden", own |-> TRUE]>> \in Seq(Callbacks)
  BY DEF Callbacks
<1>3. CASE animated
  <2>1. Hide(r) = [r EXCEPT !.cls = "collapsing", !.transitioning = TRUE,
                            !.waits = <<[fn |-> "hidden", own |-> TRUE]>>]
    BY <1>1, <1>3 DEF Hide, Rests, PanelStates
  <2>2. Hide(r) \in PanelStates
    BY <1>2, <2>1 DEF PanelStates
  <2>3. Moves(Hide(r), TRUE)
    BY <2>1 DEF PanelStates, Moves
  <2>4. Hide(r).data = "alone"
    BY <2>1 DEF PanelStates
  <2>. QED BY <2>2, <2>3, <2>4 DEF Follows
<1>4. CASE ~animated
  BY <1>4 DEF Hide, Rests, Follows, PanelStates
<1>. QED BY <1>3, <1>4

(* Toggling a panel changes that panel, and others of the accordion only.  *)
LEMMA ToggleLeaves ==
  ASSUME NEW p \in Panels, NEW ps, ps = [q \in Panels |-> ps[q]],
         NEW q \in Panels \ Accordion, q # p
  PROVE  Toggle(ps, p)[q] = ps[q] /\ Toggle(ps, p) = [c \in Panels |-> Toggle(ps, p)[c]]
<1>1. CASE ps[p].cls = "in"
  BY <1>1 DEF Toggle
<1>2. CASE ps[p].cls # "in"
  <2>1. Toggle(ps, p) = Show(ps, p)
    BY <1>2 DEF Toggle
  <2>2. Show(ps, p)[q] = ps[q] /\ Show(ps, p) = [c \in Panels |-> Show(ps, p)[c]]
    BY DEF Show
  <2>. QED BY <2>1, <2>2
<1>. QED BY <1>1, <1>2

LEMMA NavClick ==
  ASSUME NavFollows, NEW p \in Panels, Click(p) PROVE NavFollows'
<1>. DEFINE r == Constructed(panel[p], p)
            ps == [panel EXCEPT ![p] = r]
<1>1. panel = [q \in Panels |-> panel[q]] /\ collapsed \in [Panels -> BOOLEAN]
  BY DEF NavFollows
<1>2. panel' = Toggle(ps, p)
  BY DEF Click
<1>3. ps = [q \in Panels |-> ps[q]] /\ ps[p] = r /\ \A q \in Panels : q # p => ps[q] = panel[q]
  BY <1>1
<1>. HIDE DEF ps, r
<1>4. panel' = [q \in Panels |-> panel'[q]]
  BY <1>2, <1>3 DEF Toggle, Show
<1>5. collapsed' \in [Panels -> BOOLEAN]
  BY <1>1 DEF Click
<1>6. ASSUME NEW q \in Panels \ Accordion, q # p PROVE Follows(panel'[q], collapsed'[q])
  <2>1. panel'[q] = panel[q]
    BY <1>2, <1>3, <1>6, ToggleLeaves
  <2>2. collapsed'[q] = collapsed[q]
    BY <1>1, <1>6 DEF Click
  <2>. QED BY <2>1, <2>2 DEF NavFollows
<1>7. ASSUME p \notin Accordion PROVE Follows(panel'[p], collapsed'[p])
  <2>1. Follows(panel[p], collapsed[p]) /\ panel[p] \in PanelStates
    BY <1>7 DEF NavFollows, Follows
  <2>2. CASE Moves(panel[p], collapsed[p])
    <3>1. r = panel[p] /\ panel[p].transitioning /\ panel[p].cls = "collapsing"
      BY <2>2 DEF r, Constructed, Moves
    <3>2. panel'[p] = panel[p]
      BY <1>2, <1>3, <3>1 DEF Toggle, Show
    <3>3. collapsed'[p] = collapsed[p]
      BY <3>1 DEF Click
    <3>. QED BY <2>1, <3>2, <3>3
  <2>3. CASE Rests(panel[p], collapsed[p])
    <3>1. r = [panel[p] EXCEPT !.data = "alone"]
      BY <1>7, <2>1, <2>3 DEF r, Constructed, PanelStates, Follows
    <3>2. /\ r \in PanelStates /\ r.cls = panel[p].cls /\ ~r.transitioning
          /\ r.waits = panel[p].waits /\ r.data = "alone"
      BY <2>1, <2>3, <3>1 DEF PanelStates, Rests
    <3>3. Rests(r, TRUE) \/ Rests(r, FALSE)
      BY <2>3, <3>2 DEF Rests
    <3>4. collapsed'[p] = (panel[p].cls = "in")
      BY <2>3 DEF Click, Rests
    <3>5. CASE panel[p].cls = "in"
      <4>1. panel'[p] = Hide(r)
        BY <1>2, <1>3, <3>2, <3>5 DEF Toggle
      <4>. QED BY <3>2, <3>3, <3>4, <3>5, <4>1, HideFollows
    <3>6. CASE panel[p].cls = "collapse"
      <4>1. panel'[p] = Open(r)
        BY <1>2, <1>3, <3>2, <3>6 DEF Toggle, Show
      <4>. QED BY <3>2, <3>3, <3>4, <3>6, <4>1, OpenFollows
    <3>. QED BY <2>3, <3>5, <3>6 DEF Rests
  <2>. QED BY <2>1, <2>2, <2>3 DEF Follows
<1>. QED BY <1>4, <1>5, <1>6, <1>7 DEF NavFollows

(* The callback of a panel outside the accordion is its own: no other      *)
(* panel throws its object away.                                           *)
LEMMA NavEnd ==
  ASSUME NavFollows, NEW p \in Panels, CollapseEnd(p) PROVE NavFollows'
<1>1. panel = [q \in Panels |-> panel[q]] /\ UNCHANGED collapsed
  BY DEF NavFollows, CollapseEnd
<1>2. panel' = [q \in Panels |-> panel'[q]] /\ \A q \in Panels : q # p => panel'[q] = panel[q]
  BY <1>1 DEF CollapseEnd
<1>3. ASSUME p \notin Accordion PROVE Follows(panel'[p], collapsed[p])
  <2>1. /\ panel[p] \in PanelStates /\ Moves(panel[p], collapsed[p])
        /\ panel[p].data # "parent"
    BY <1>3 DEF NavFollows, Follows, Rests, CollapseEnd
  <2>. DEFINE w == [fn |-> IF collapsed[p] THEN "hidden" ELSE "shown", own |-> TRUE]
              fired == {panel[p].waits[i] : i \in DOMAIN panel[p].waits}
  <2>2. panel[p].waits = <<w>>
    BY <2>1 DEF Moves
  <2>3. fired = {w}
    <3>. HIDE DEF w
    <3>1. DOMAIN <<w>> = {1} /\ <<w>>[1] = w
      OBVIOUS
    <3>. QED BY <2>2, <3>1
  <2>4. panel'[p] = [panel[p] EXCEPT
          !.cls = IF \E v \in fired : v.fn = "shown" THEN "in" ELSE "collapse",
          !.transitioning = @ /\ ~\E v \in fired : v.own,
          !.waits = <<>>]
    BY <1>1 DEF CollapseEnd
  <2>5. /\ (\E v \in fired : v.fn = "shown") <=> ~collapsed[p]
        /\ \E v \in fired : v.own
    <3>1. w.fn = (IF collapsed[p] THEN "hidden" ELSE "shown") /\ w.own
      OBVIOUS
    <3>2. w.fn = "shown" <=> ~collapsed[p]
      BY <3>1
    <3>. HIDE DEF w, fired
    <3>. QED BY <2>3, <3>1, <3>2
  <2>6. panel'[p] = [panel[p] EXCEPT !.cls = IF collapsed[p] THEN "collapse" ELSE "in",
                                    !.transitioning = FALSE, !.waits = <<>>]
    <3>. HIDE DEF fired
    <3>. QED BY <2>1, <2>4, <2>5 DEF PanelStates
  <2>7. <<>> \in Seq(Callbacks)
    BY EmptySeq
  <2>. QED BY <2>1, <2>6, <2>7 DEF Follows, Rests, Moves, PanelStates
<1>. QED BY <1>1, <1>2, <1>3 DEF NavFollows

LEMMA NavStep == NavFollows /\ [Next]_vars => NavFollows'
<1>. SUFFICES ASSUME NavFollows, [Next]_vars PROVE NavFollows'
  OBVIOUS
<1>1. CASE UNCHANGED collapseVars
  BY <1>1 DEF collapseVars, NavFollows
<1>. QED BY <1>1, NavClick, NavEnd
  DEF Next, Use, Ends, UseCollapse, EndCollapse, vars,
      Dialog, Tipping, Turning, Tabbing, Glowing

(* However fast the triggers are clicked and whatever any other panel      *)
(* does, at rest the trigger of a panel outside the accordion tells after  *)
(* its first click whether the panel is open (the data-api handler and     *)
(* toggle agree), for any number of panels and clicks.                     *)
THEOREM TriggersTell == Spec => []NavbarTells
<1>1. Init => NavFollows
  BY NavInit
<1>2. NavFollows /\ [Next]_vars => NavFollows'
  BY NavStep
<1>3. NavFollows => NavbarTells
  <2>. SUFFICES ASSUME NavFollows, CollapseRest, NEW p \in Panels \ Accordion,
                       panel[p].data # "none"
                PROVE  collapsed[p] <=> panel[p].cls = "collapse"
    BY DEF NavbarTells
  <2>1. ~Moves(panel[p], collapsed[p])
    BY DEF CollapseRest, Moves
  <2>2. Rests(panel[p], collapsed[p])
    BY <2>1 DEF NavFollows, Follows
  <2>. QED BY <2>2 DEF Rests
<1>. QED BY <1>1, <1>2, <1>3, PTL DEF Spec

-----------------------------------------------------------------------------
(* Every act of the user is counted, and nothing changes how the user and  *)
(* the browser are.                                                        *)
LEMMA SameUser ==
  ASSUME [Next]_vars
  PROVE  /\ UNCHANGED <<animated, hasty>>
         /\ UNCHANGED clicks \/ (clicks < MaxClicks /\ clicks' = clicks + 1)
<1>1. CASE UNCHANGED vars
  BY <1>1 DEF vars, transitionVars
<1>2. CASE Use
  BY <1>2 DEF Use, UseCollapse, UseModal, UseTooltip, UseCarousel, UseTab, DoHighlight,
     Click, ClickToggler, Dismiss, PointerIn, PointerOut, ToggleTip, ToggleEnabled,
     DestroyTip, TipEvent, Ride, Hover, Tick, Control, Indicate, ClickTab, UserActs,
     transitionVars
<1>3. CASE Ends
  BY <1>3 DEF Ends, EndCollapse, EndModal, EndTooltip, EndCarousel, EndTab, EndHighlight,
     CollapseEnd, ModalEnds, ElementEnd, DialogEnd, BackdropEnd, Timeout, TipEnd,
     SlideEnd, SlidEvent, PaneEnd, Fade, FadeStep, transitionVars
<1>. QED BY <1>1, <1>2, <1>3 DEF Next

LEMMA UserType == TransitionTypeOK /\ [Next]_vars => TransitionTypeOK'
  BY SameUser, ClicksAssumption DEF TransitionTypeOK

-----------------------------------------------------------------------------
(* Tabs.  What next() makes of the panes has its type, any number of times.*)
LEMMA NextsType ==
  ASSUME NEW s \in TabStates, NEW ns \in Seq(Nexts)
  PROVE  InTurn(NextPanes, s, ns) \in TabStates
<1>1. \A t \in TabStates, n \in Nexts : NextPanes[n][t] \in TabStates
  BY DEF NextPanes, NextPane, TabStates, Nexts
<1>. QED BY <1>1, InTurnKeeps

LEMMA TabType == TabTypeOK /\ TransitionTypeOK /\ [Next]_vars => TabTypeOK'
<1>. SUFFICES ASSUME TabTypeOK, TransitionTypeOK, [Next]_vars PROVE TabTypeOK'
  OBVIOUS
<1>1. tabs \in TabStates /\ fading \in [Tabs -> Seq(Nexts)] /\ animated \in BOOLEAN
  BY DEF TabTypeOK, TransitionTypeOK
<1>2. ASSUME NEW t \in Tabs, ClickTab(t) PROVE TabTypeOK'
  <2>. DEFINE n == [from |-> tabs.pane, to |-> t,
                    transition |-> animated /\ tabs.pane \cap tabs.fade # {}]
              s == [tabs EXCEPT !.item = {t}, !.in = @ \ n.from]
  <2>1. n \in Nexts /\ s \in TabStates
    BY <1>1 DEF Nexts, TabStates
  <2>2. NextPane(s, n) \in TabStates
    <3>. HIDE DEF n, s
    <3>. QED BY <2>1 DEF NextPane, TabStates, Nexts
  <2>3. \A p \in Tabs : Append(fading[p], n) \in Seq(Nexts)
    BY <1>1, <2>1
  <2>4. \/ /\ tabs' = s
           /\ fading' = [p \in Tabs |-> IF p \in n.from THEN Append(fading[p], n) ELSE fading[p]]
        \/ tabs' = NextPane(s, n) /\ fading' = fading
    BY <1>2 DEF ClickTab, Await
  <2>. HIDE DEF n, s
  <2>. QED BY <1>1, <2>1, <2>2, <2>3, <2>4 DEF TabTypeOK
<1>3. ASSUME NEW t \in Tabs, PaneEnd(t) PROVE TabTypeOK'
  <2>1. tabs' \in TabStates
    BY <1>1, <1>3, NextsType DEF PaneEnd
  <2>2. <<>> \in Seq(Nexts)
    BY EmptySeq
  <2>. QED BY <1>1, <1>3, <2>1, <2>2 DEF PaneEnd, TabTypeOK
<1>4. CASE UNCHANGED tabVars
  BY <1>4 DEF tabVars, TabTypeOK
<1>. QED BY <1>2, <1>3, <1>4
  DEF Next, Use, Ends, UseTab, EndTab, vars, Collapsing, Dialog, Tipping, Turning, Glowing

(* For one who waits: the pane is the tab's and not transparent, or the    *)
(* one pane there is fades and will give way to that of the tab.           *)
OnePane(a) ==
  /\ tabs.item = {a}
  /\ \/ /\ \A t \in Tabs : fading[t] = <<>>
        /\ tabs.pane = {a} /\ tabs.pane \cap tabs.fade \subseteq tabs.in
     \/ \E b \in Tabs :
          /\ tabs.pane = {b}
          /\ fading[b] = <<[from |-> {b}, to |-> a, transition |-> TRUE]>>
          /\ \A t \in Tabs \ {b} : fading[t] = <<>>

TabsFollow == ~hasty => \E a \in Tabs : OnePane(a)

LEMMA FollowClick ==
  ASSUME TabTypeOK, TransitionTypeOK, TabsFollow, ~hasty, NEW t \in Tabs, ClickTab(t)
  PROVE  OnePane(t)'
<1>1. tabs \in TabStates /\ fading \in [Tabs -> Seq(Nexts)] /\ animated \in BOOLEAN
  BY DEF TabTypeOK, TransitionTypeOK
<1>2. \A p \in Tabs : fading[p] = <<>>
  BY DEF ClickTab, UserActs, TabRest
<1>3. PICK a \in Tabs : tabs.item = {a} /\ tabs.pane = {a}
  <2>1. PICK a \in Tabs : OnePane(a)
    BY DEF TabsFollow
  <2>2. ASSUME NEW b \in Tabs, NEW w, fading[b] = <<w>> PROVE FALSE
    BY <1>2, <2>2
  <2>. QED BY <2>1, <2>2 DEF OnePane
<1>. DEFINE tr == animated /\ tabs.pane \cap tabs.fade # {}
            n == [from |-> {a}, to |-> t, transition |-> tr]
            s == [tabs EXCEPT !.item = {t}, !.in = @ \ {a}]
<1>4. /\ tr => /\ tabs' = s
               /\ fading' = [p \in Tabs |-> IF p \in {a} THEN <<n>> ELSE fading[p]]
      /\ ~tr => tabs' = NextPane(s, n) /\ fading' = fading
  <2>1. [from |-> tabs.pane, to |-> t, transition |-> tr] = n
    BY <1>3
  <2>2. s = [tabs EXCEPT !.item = {t}, !.in = @ \ tabs.pane]
    BY <1>3
  <2>3. \A p \in Tabs : Append(fading[p], n) = <<n>>
    BY <1>2, AwaitFirst DEF Await
  <2>4. /\ tr => /\ tabs' = s
                 /\ fading' = [p \in Tabs |-> IF p \in tabs.pane THEN Append(fading[p], n)
                                              ELSE fading[p]]
        /\ ~tr => tabs' = NextPane(s, n) /\ fading' = fading
    BY <2>1, <2>2 DEF ClickTab, Await
  <2>. HIDE DEF n, s, tr
  <2>. QED BY <1>3, <2>3, <2>4
<1>5. tr \in BOOLEAN /\ n.from = {a} /\ n.to = t /\ n.transition = tr
  BY <1>1
<1>6. CASE tr
  <2>1. tabs'.item = {t} /\ tabs'.pane = {a}
    BY <1>1, <1>3, <1>4, <1>6 DEF TabStates
  <2>2. n = [from |-> {a}, to |-> t, transition |-> TRUE]
    BY <1>5, <1>6
  <2>3. fading'[a] = <<n>> /\ \A p \in Tabs \ {a} : fading'[p] = <<>>
    BY <1>2, <1>4, <1>6
  <2>. HIDE DEF n, tr, s
  <2>. QED BY <2>1, <2>2, <2>3 DEF OnePane
<1>7. CASE ~tr
  <2>1. tabs' = NextPane(s, n) /\ fading' = fading
    BY <1>4, <1>7
  <2>2. tabs'.item = {t} /\ tabs'.pane = {t} /\ t \notin tabs'.fade
    <3>1. s.item = {t} /\ s.pane = {a} /\ s \in TabStates
      BY <1>1, <1>3 DEF TabStates
    <3>. HIDE DEF s, n
    <3>. QED BY <1>5, <1>7, <2>1, <3>1 DEF NextPane, TabStates
  <2>. QED BY <1>2, <2>1, <2>2 DEF OnePane
<1>. QED BY <1>6, <1>7

LEMMA FollowEnd ==
  ASSUME TabTypeOK, NEW a \in Tabs, OnePane(a), NEW t \in Tabs, PaneEnd(t)
  PROVE  OnePane(a)'
<1>1. tabs \in TabStates /\ fading \in [Tabs -> Seq(Nexts)]
  BY DEF TabTypeOK
<1>. DEFINE n == [from |-> {t}, to |-> a, transition |-> TRUE]
<1>2. /\ tabs.item = {a} /\ tabs.pane = {t} /\ fading[t] = <<n>>
      /\ \A p \in Tabs \ {t} : fading[p] = <<>>
  BY DEF OnePane, PaneEnd
<1>3. n \in Nexts /\ n.from = {t} /\ n.to = a /\ n.transition
  BY DEF Nexts
<1>. HIDE DEF n
<1>4. tabs' = NextPane(tabs, n)
  <2>3. InTurn(NextPanes, tabs, <<n>>) = NextPanes[n][tabs]
    BY InTurnOne
  <2>4. NextPanes[n][tabs] = NextPane(tabs, n)
    BY <1>1, <1>3 DEF NextPanes
  <2>. QED BY <1>2, <2>3, <2>4 DEF PaneEnd
<1>5. tabs'.item = {a} /\ tabs'.pane = {a} /\ a \in tabs'.in
  BY <1>1, <1>2, <1>3, <1>4 DEF NextPane, TabStates
<1>6. \A p \in Tabs : fading'[p] = <<>>
  BY <1>1, <1>2 DEF PaneEnd
<1>. QED BY <1>5, <1>6 DEF OnePane

LEMMA FollowStep ==
  TabTypeOK /\ TransitionTypeOK /\ TabsFollow /\ [Next]_vars => TabsFollow'
<1>. SUFFICES ASSUME TabTypeOK, TransitionTypeOK, TabsFollow, [Next]_vars, ~hasty'
              PROVE  \E a \in Tabs : OnePane(a)'
  BY DEF TabsFollow
<1>1. ~hasty
  BY SameUser
<1>2. PICK a \in Tabs : OnePane(a)
  BY <1>1 DEF TabsFollow
<1>3. CASE UNCHANGED tabVars
  BY <1>2, <1>3 DEF tabVars, OnePane
<1>. QED BY <1>1, <1>2, <1>3, FollowClick, FollowEnd
  DEF Next, Use, Ends, UseTab, EndTab, vars, Collapsing, Dialog, Tipping, Turning, Glowing

TabInv == TransitionTypeOK /\ TabTypeOK /\ TabsFollow

LEMMA TabInvInit == Init => TabInv
<1>. SUFFICES ASSUME Init PROVE TabInv
  OBVIOUS
<1>1. TransitionTypeOK
  BY ClicksAssumption DEF Init, TransitionInit, TransitionTypeOK
<1>2. PICK t \in Tabs, fade \in {Tabs, {}} :
         tabs = [item |-> {t}, pane |-> {t}, in |-> {t}, fade |-> fade]
  BY DEF Init, TabInit
<1>3. fading = [p \in Tabs |-> <<>>]
  BY DEF Init, TabInit
<1>4. <<>> \in Seq(Nexts)
  BY EmptySeq
<1>5. TabTypeOK
  BY <1>2, <1>3, <1>4 DEF TabTypeOK, TabStates
<1>6. OnePane(t)
  BY <1>2, <1>3 DEF OnePane
<1>. QED BY <1>1, <1>5, <1>6 DEF TabInv, TabsFollow

(* For one who waits for the fades, one tab is active at rest and its pane *)
(* is the one that shows (activate() is called for both, and the second    *)
(* call goes on in next(), at the end of the fade), for any number of tabs.*)
THEOREM TabsTell == Spec => []TabTells
<1>1. Init => TabInv
  BY TabInvInit
<1>2. TabInv /\ [Next]_vars => TabInv'
  BY UserType, TabType, FollowStep DEF TabInv
<1>3. TabInv => TabTells
  <2>. SUFFICES ASSUME TabInv, ~hasty, TabRest
                PROVE  /\ Cardinality(tabs.item) = 1 /\ tabs.pane = tabs.item
                       /\ tabs.pane \cap tabs.fade \subseteq tabs.in
    BY DEF TabTells
  <2>1. PICK a \in Tabs : OnePane(a)
    BY DEF TabInv, TabsFollow
  <2>2. ASSUME NEW b \in Tabs, NEW w, fading[b] = <<w>> PROVE FALSE
    BY <2>2 DEF TabRest
  <2>3. tabs.item = {a} /\ tabs.pane = {a} /\ tabs.pane \cap tabs.fade \subseteq tabs.in
    BY <2>1, <2>2 DEF OnePane
  <2>4. Cardinality({a}) = 1
    BY FS_Singleton
  <2>. QED BY <2>3, <2>4
<1>. QED BY <1>1, <1>2, <1>3, PTL DEF Spec

-----------------------------------------------------------------------------
(* The callbacks that wait.                                                *)
Waits(waits, fn) == \E i \in DOMAIN waits : waits[i] = fn

LEMMA AwaitAdds ==
  ASSUME NEW F, NEW waits \in Seq(F), NEW fn \in F
  PROVE  /\ Await(waits, fn) \in Seq(F)
         /\ \A g : Waits(Await(waits, fn), g) <=> Waits(waits, g) \/ g = fn
<1>. DEFINE w == Append(waits, fn)
            n == Len(waits)
<1>1. /\ w \in Seq(F) /\ Len(w) = n + 1 /\ w[n + 1] = fn /\ n \in Nat
      /\ \A i \in 1..n : w[i] = waits[i]
  BY AppendProperties, LenProperties
<1>2. DOMAIN w = 1..(n + 1) /\ DOMAIN waits = 1..n
  BY <1>1, LenProperties
<1>. HIDE DEF w, n
<1>3. \A i \in 1..(n + 1) : i \in 1..n \/ i = n + 1
  BY <1>1
<1>4. n + 1 \in 1..(n + 1) /\ 1..n \subseteq 1..(n + 1)
  BY <1>1
<1>5. ASSUME NEW g PROVE Waits(w, g) <=> Waits(waits, g) \/ g = fn
  BY <1>1, <1>2, <1>3, <1>4 DEF Waits
<1>. QED BY <1>1, <1>5 DEF w, Await

LEMMA NoneWaits == ASSUME NEW g PROVE ~Waits(<<>>, g)
  BY DEF Waits

-----------------------------------------------------------------------------
(* Tooltips.  What each of the methods makes of the tip.                   *)
LEMMA ShowTipIs ==
  ASSUME NEW t \in TooltipStates, animated \in BOOLEAN, NEW u, u = ShowTip(t)
  PROVE  /\ u \in TooltipStates
         /\ u.enabled = t.enabled /\ u.alive = t.alive /\ u.timeout = t.timeout
         /\ ~t.enabled => u = t
         /\ t.enabled => /\ u.attached /\ u.in /\ u.hoverState = "null"
                         /\ Waits(u.waits, "hidden") <=> Waits(t.waits, "hidden")
<1>1. t.waits \in Seq({"shown", "hidden"})
  BY DEF TooltipStates
<1>. DEFINE w == IF animated THEN Await(t.waits, "shown") ELSE t.waits
<1>2. w \in Seq({"shown", "hidden"}) /\ (Waits(w, "hidden") <=> Waits(t.waits, "hidden"))
  BY <1>1, AwaitAdds
<1>3. CASE ~t.enabled
  BY <1>3 DEF ShowTip
<1>4. CASE t.enabled
  <2>1. u = [t EXCEPT !.attached = TRUE, !.in = TRUE, !.fade = animated,
                      !.hoverState = "null", !.waits = w]
    BY <1>4 DEF ShowTip
  <2>. HIDE DEF w
  <2>2. u \in TooltipStates
    BY <1>2, <2>1 DEF TooltipStates
  <2>. QED BY <1>2, <1>4, <2>1, <2>2 DEF TooltipStates
<1>. QED BY <1>3, <1>4

LEMMA HiddenTipIs ==
  ASSUME NEW t \in TooltipStates, NEW u, u = HiddenTip(t)
  PROVE  /\ u \in TooltipStates
         /\ u.enabled = t.enabled /\ u.alive = t.alive /\ u.timeout = t.timeout
         /\ u.waits = t.waits /\ u.hoverState = t.hoverState /\ u.in = t.in
         /\ t.hoverState # "in" => ~u.attached
  BY DEF HiddenTip, TooltipStates

LEMMA HideTipIs ==
  ASSUME NEW t \in TooltipStates, NEW u, u = HideTip(t)
  PROVE  /\ u \in TooltipStates
         /\ u.enabled = t.enabled /\ u.alive = t.alive /\ u.timeout = t.timeout
         /\ u.hoverState = "null"
         /\ t.hoverState # "in" /\ u.attached => Waits(u.waits, "hidden")
<1>1. t.waits \in Seq({"shown", "hidden"})
  BY DEF TooltipStates
<1>2. PICK w : w = Await(t.waits, "hidden")
  OBVIOUS
<1>3. w \in Seq({"shown", "hidden"}) /\ Waits(w, "hidden")
  BY <1>1, <1>2, AwaitAdds
<1>4. PICK h : h = [t EXCEPT !.in = FALSE]
  OBVIOUS
<1>5. /\ h \in TooltipStates /\ h.waits = t.waits /\ h.hoverState = t.hoverState
      /\ h.enabled = t.enabled /\ h.alive = t.alive /\ h.timeout = t.timeout
  BY <1>4 DEF TooltipStates
<1>6. CASE t.fade
  <2>1. PICK v : v = [h EXCEPT !.waits = w]
    OBVIOUS
  <2>2. /\ v \in TooltipStates /\ v.waits = w
        /\ v.enabled = t.enabled /\ v.alive = t.alive /\ v.timeout = t.timeout
    BY <1>3, <1>5, <2>1 DEF TooltipStates
  <2>3. u = [v EXCEPT !.hoverState = "null"]
    BY <1>2, <1>4, <1>5, <1>6, <2>1 DEF HideTip
  <2>. QED BY <1>3, <2>2, <2>3 DEF TooltipStates
<1>7. CASE ~t.fade
  <2>1. PICK v : v = HiddenTip(h)
    OBVIOUS
  <2>2. u = [v EXCEPT !.hoverState = "null"]
    BY <1>4, <1>7, <2>1 DEF HideTip
  <2>3. /\ v \in TooltipStates
        /\ v.enabled = t.enabled /\ v.alive = t.alive /\ v.timeout = t.timeout
        /\ t.hoverState # "in" => ~v.attached
    BY <1>5, <2>1, HiddenTipIs
  <2>. QED BY <2>2, <2>3 DEF TooltipStates
<1>. QED BY <1>6, <1>7

(* The tip is gone or on its way out, and nothing brings it back: the      *)
(* callbacks that wait may only detach it.  Or it is there to stay.        *)
Gone(t) ==
  /\ t.timeout # "show" /\ t.hoverState # "in"
  /\ t.attached => \/ t.timeout = "hide" /\ t.hoverState = "out"
                   \/ Waits(t.waits, "hidden")

Stays(t) ==
  /\ t.enabled
  /\ \/ t.timeout = "show" /\ t.hoverState = "in" /\ t.waits = <<>>
     \/ t.timeout = "none" /\ t.attached /\ t.in /\ ~Waits(t.waits, "hidden")

LEMMA EnterIs ==
  ASSUME NEW t \in TooltipStates, animated \in BOOLEAN, NEW u, u = Enter(t)
  PROVE  /\ u \in TooltipStates
         /\ t.waits = <<>> /\ t.enabled => Stays(u)
<1>1. PICK e : e = [t EXCEPT !.hoverState = "in", !.timeout = "none"]
  OBVIOUS
<1>2. /\ e \in TooltipStates /\ e.waits = t.waits /\ e.enabled = t.enabled
      /\ e.timeout = "none" /\ e.hoverState = "in"
  BY <1>1 DEF TooltipStates
<1>3. CASE delay.show
  <2>1. u = [e EXCEPT !.timeout = "show"]
    BY <1>1, <1>3 DEF Enter
  <2>. QED BY <1>2, <2>1 DEF TooltipStates, Stays
<1>4. CASE ~delay.show
  <2>1. u = ShowTip(e)
    BY <1>1, <1>4 DEF Enter
  <2>. QED BY <1>2, <2>1, ShowTipIs, NoneWaits DEF Stays
<1>. QED BY <1>3, <1>4

LEMMA LeaveTipIs ==
  ASSUME NEW t \in TooltipStates, NEW u, u = LeaveTip(t)
  PROVE  u \in TooltipStates /\ Gone(u)
<1>1. PICK l : l = [t EXCEPT !.hoverState = "out", !.timeout = "none"]
  OBVIOUS
<1>2. l \in TooltipStates /\ l.timeout = "none" /\ l.hoverState = "out"
  BY <1>1 DEF TooltipStates
<1>3. CASE delay.hide
  <2>1. u = [l EXCEPT !.timeout = "hide"]
    BY <1>1, <1>3 DEF LeaveTip
  <2>. QED BY <1>2, <2>1 DEF TooltipStates, Gone
<1>4. CASE ~delay.hide
  <2>1. u = HideTip(l)
    BY <1>1, <1>4 DEF LeaveTip
  <2>. QED BY <1>2, <2>1, HideTipIs DEF Gone
<1>. QED BY <1>3, <1>4

TipInv ==
  tooltip.alive => /\ told = "go" => Gone(tooltip)
                   /\ told = "come" /\ ~hasty => Stays(tooltip)

TooltipInv == TransitionTypeOK /\ TooltipTypeOK /\ TipInv

LEMMA TooltipInvInit == Init => TooltipInv
<1>1. <<>> \in Seq({"shown", "hidden"})
  BY EmptySeq
<1>. QED BY <1>1, ClicksAssumption
  DEF Init, TransitionInit, TransitionTypeOK, TooltipInit, TooltipTypeOK, TooltipStates,
      TooltipInv, TipInv, Gone

LEMMA TipUser ==
  ASSUME TooltipInv, UseTooltip PROVE TooltipTypeOK' /\ TipInv'
<1>1. /\ tooltip \in TooltipStates /\ animated \in BOOLEAN /\ delay' = delay
      /\ trigger' = trigger /\ tooltip.alive /\ hasty' = hasty
      /\ ~hasty => tooltip.waits = <<>>
  BY DEF UseTooltip, PointerIn, PointerOut, ToggleTip, ToggleEnabled, DestroyTip, TipEvent,
     UserActs, TooltipRest, TooltipInv, TooltipTypeOK, TransitionTypeOK
<1>2. CASE /\ tooltip' = Enter(tooltip)
           /\ told' = IF tooltip.enabled THEN "come" ELSE "stay"
  <2>1. tooltip' \in TooltipStates
    BY <1>1, <1>2, EnterIs
  <2>2. ~hasty /\ tooltip.enabled => Stays(tooltip')
    BY <1>1, <1>2, EnterIs
  <2>3. told' = "come" => tooltip.enabled
    BY <1>2
  <2>4. told' \in {"come", "stay"}
    BY <1>2
  <2>. QED BY <1>1, <2>1, <2>2, <2>3, <2>4 DEF TooltipInv, TooltipTypeOK, TipInv, Stays
<1>3. CASE tooltip' = LeaveTip(tooltip) /\ told' = "go"
  BY <1>1, <1>3, LeaveTipIs DEF TooltipInv, TooltipTypeOK, TipInv, Gone
<1>4. CASE ToggleEnabled
  <2>1. /\ tooltip' = [tooltip EXCEPT !.enabled = ~@]
        /\ told' = IF told = "go" THEN "go" ELSE "stay"
    BY <1>4 DEF ToggleEnabled, TipEvent
  <2>2. /\ tooltip' \in TooltipStates /\ tooltip'.timeout = tooltip.timeout
        /\ tooltip'.hoverState = tooltip.hoverState /\ tooltip'.attached = tooltip.attached
        /\ tooltip'.waits = tooltip.waits
    BY <1>1, <2>1 DEF TooltipStates
  <2>. QED BY <1>1, <2>1, <2>2 DEF TooltipInv, TooltipTypeOK, TipInv, Gone
<1>5. CASE DestroyTip
  <2>1. PICK t : t = [tooltip EXCEPT !.timeout = "none", !.alive = FALSE]
    OBVIOUS
  <2>2. t \in TooltipStates /\ ~t.alive
    BY <1>1, <2>1 DEF TooltipStates
  <2>3. tooltip' = HideTip(t) /\ told' = "go"
    BY <1>5, <2>1 DEF DestroyTip, TipEvent
  <2>4. tooltip' \in TooltipStates /\ ~tooltip'.alive
    BY <2>2, <2>3, HideTipIs
  <2>. QED BY <1>1, <2>3, <2>4 DEF TooltipInv, TooltipTypeOK, TipInv
<1>. QED BY <1>2, <1>3, <1>4, <1>5
  DEF UseTooltip, PointerIn, PointerOut, ToggleTip, TipEvent

LEMMA TipTimeout ==
  ASSUME TooltipInv, Timeout PROVE TooltipTypeOK' /\ TipInv'
<1>1. /\ tooltip \in TooltipStates /\ animated \in BOOLEAN /\ UNCHANGED <<told, hasty>>
      /\ tooltip.timeout \in {"show", "hide"}
  BY DEF Timeout, transitionVars, TooltipInv, TooltipTypeOK, TransitionTypeOK, TooltipStates
<1>2. PICK t : t = [tooltip EXCEPT !.timeout = "none"]
  OBVIOUS
<1>3. /\ t \in TooltipStates /\ t.timeout = "none" /\ t.waits = tooltip.waits
      /\ t.alive = tooltip.alive /\ t.enabled = tooltip.enabled
      /\ t.hoverState = tooltip.hoverState /\ t.attached = tooltip.attached
  BY <1>1, <1>2 DEF TooltipStates
<1>4. \/ tooltip.timeout = "show" /\ t.hoverState = "in" /\ tooltip' = ShowTip(t)
      \/ tooltip.timeout = "show" /\ t.hoverState # "in" /\ tooltip' = t
      \/ tooltip.timeout = "hide" /\ t.hoverState = "out" /\ tooltip' = HideTip(t)
      \/ tooltip.timeout = "hide" /\ t.hoverState # "out" /\ tooltip' = t
  BY <1>1, <1>2 DEF Timeout
<1>5. tooltip' \in TooltipStates /\ tooltip'.alive = tooltip.alive
  BY <1>1, <1>3, <1>4, ShowTipIs, HideTipIs
<1>6. TooltipTypeOK'
  BY <1>5 DEF Timeout, TooltipInv, TooltipTypeOK
<1>7. ASSUME Gone(tooltip) PROVE Gone(tooltip')
  BY <1>1, <1>3, <1>4, <1>7, HideTipIs DEF Gone
<1>8. ASSUME Stays(tooltip) PROVE Stays(tooltip')
  <2>1. tooltip.timeout = "show" /\ tooltip.waits = <<>> /\ t.enabled /\ t.hoverState = "in"
    BY <1>1, <1>3, <1>8 DEF Stays
  <2>2. tooltip' = ShowTip(t)
    BY <1>4, <2>1
  <2>. QED BY <1>1, <1>3, <2>1, <2>2, ShowTipIs, NoneWaits DEF Stays
<1>. QED BY <1>1, <1>5, <1>6, <1>7, <1>8 DEF TooltipInv, TipInv, Gone, Stays

LEMMA TipEnds ==
  ASSUME TooltipInv, TipEnd PROVE TooltipTypeOK' /\ TipInv'
<1>1. /\ tooltip \in TooltipStates /\ UNCHANGED <<told, hasty>> /\ tooltip.waits # <<>>
  BY DEF TipEnd, transitionVars, TooltipInv, TooltipTypeOK
<1>2. PICK t : t = [tooltip EXCEPT !.waits = <<>>]
  OBVIOUS
<1>3. <<>> \in Seq({"shown", "hidden"})
  BY EmptySeq
<1>4. /\ t \in TooltipStates /\ t.timeout = tooltip.timeout /\ t.waits = <<>>
      /\ t.alive = tooltip.alive /\ t.enabled = tooltip.enabled /\ t.in = tooltip.in
      /\ t.hoverState = tooltip.hoverState /\ t.attached = tooltip.attached
  BY <1>1, <1>2, <1>3 DEF TooltipStates
<1>5. tooltip' = IF Waits(tooltip.waits, "hidden") THEN HiddenTip(t) ELSE t
  BY <1>2 DEF TipEnd, Waits
<1>6. tooltip' \in TooltipStates /\ tooltip'.alive = tooltip.alive
  BY <1>4, <1>5, HiddenTipIs
<1>7. TooltipTypeOK'
  BY <1>6 DEF TipEnd, TooltipInv, TooltipTypeOK
<1>8. ASSUME Gone(tooltip) PROVE Gone(tooltip')
  BY <1>4, <1>5, <1>8, HiddenTipIs DEF Gone
<1>9. ASSUME Stays(tooltip) PROVE Stays(tooltip')
  BY <1>1, <1>4, <1>5, <1>9, NoneWaits DEF Stays
<1>. QED BY <1>1, <1>6, <1>7, <1>8, <1>9 DEF TooltipInv, TipInv, Gone, Stays

LEMMA TipStep == TooltipInv /\ [Next]_vars => TooltipInv'
<1>. SUFFICES ASSUME TooltipInv, [Next]_vars PROVE TooltipInv'
  OBVIOUS
<1>1. TransitionTypeOK'
  BY UserType DEF TooltipInv
<1>2. CASE UNCHANGED tooltipVars
  BY <1>1, <1>2, SameUser DEF tooltipVars, TooltipInv, TooltipTypeOK, TipInv, Gone, Stays
<1>. QED BY <1>1, <1>2, TipUser, TipTimeout, TipEnds
  DEF TooltipInv, Next, Use, Ends, EndTooltip, vars,
      Collapsing, Dialog, Turning, Tabbing, Glowing

(* When the delays and transitions of a tip are over, it is not left on    *)
(* the page by a pointer that has gone, however hasty it was, and for one  *)
(* who waits it is there when it should be: the timeouts that enter and    *)
(* leave clear, and the late hides of earlier visits, do no harm.          *)
THEOREM TipsFollow == Spec => []TipFollows
<1>1. Init => TooltipInv
  BY TooltipInvInit
<1>2. TooltipInv /\ [Next]_vars => TooltipInv'
  BY TipStep
<1>3. TooltipInv => TipFollows
  BY NoneWaits DEF TooltipInv, TipInv, Gone, Stays, TipFollows, TooltipRest
<1>. QED BY <1>1, <1>2, <1>3, PTL DEF Spec

-----------------------------------------------------------------------------
(* The accordion.  A panel is open or on its way to be.                    *)
Will(r) == r.cls = "in" \/ \E i \in DOMAIN r.waits : r.waits[i].fn = "shown"

(* For one who waits each panel is at rest or waits for the one transition *)
(* it has begun; if another panel has thrown its object away, transitioning*)
(* went with the object.  In the accordion the only object without $parent *)
(* is one that PluginHide has made, and that one goes at once.             *)
Still(r) == r.waits = <<>> /\ ~r.transitioning /\ r.cls # "collapsing"

Going(r) ==
  \E fn \in {"shown", "hidden"} :
    r.cls = "collapsing" /\ r.waits = <<[fn |-> fn, own |-> r.transitioning]>>

Quiet(r) == Still(r) \/ Going(r)

LEMMA OneWait ==
  ASSUME NEW fn, NEW own, NEW waits, waits = <<[fn |-> fn, own |-> own]>>
  PROVE  DOMAIN waits = {1} /\ waits[1].fn = fn /\ waits[1].own = own
<1>. DEFINE w == [fn |-> fn, own |-> own]
<1>1. w.fn = fn /\ w.own = own
  OBVIOUS
<1>. HIDE DEF w
<1>2. DOMAIN <<w>> = {1} /\ <<w>>[1] = w
  OBVIOUS
<1>3. waits = <<w>>
  BY DEF w
<1>. QED BY <1>1, <1>2, <1>3

LEMMA StartsOne ==
  ASSUME NEW fn \in {"shown", "hidden"}, NEW r \in PanelStates, NEW u,
         u = [r EXCEPT !.cls = "collapsing", !.transitioning = TRUE,
                       !.waits = Await(@, [fn |-> fn, own |-> TRUE])]
  PROVE  /\ u \in PanelStates /\ u.data = r.data
         /\ Still(r) => Going(u) /\ (Will(u) => fn = "shown")
<1>1. PICK w : w = [fn |-> fn, own |-> TRUE]
  OBVIOUS
<1>2. w \in Callbacks /\ r.waits \in Seq(Callbacks)
  BY <1>1 DEF Callbacks, PanelStates
<1>3. PICK v : v = Await(r.waits, w)
  OBVIOUS
<1>4. v \in Seq(Callbacks)
  BY <1>2, <1>3, AwaitAdds
<1>5. u = [r EXCEPT !.cls = "collapsing", !.transitioning = TRUE, !.waits = v]
  BY <1>1, <1>3
<1>6. /\ u \in PanelStates /\ u.cls = "collapsing" /\ u.transitioning = TRUE /\ u.waits = v
      /\ u.data = r.data
  BY <1>4, <1>5 DEF PanelStates
<1>7. ASSUME Still(r) PROVE Going(u) /\ (Will(u) => fn = "shown")
  <2>1. v = <<w>>
    BY <1>3, <1>7, AwaitFirst DEF Still
  <2>2. u.waits = <<[fn |-> fn, own |-> TRUE]>>
    BY <1>1, <1>6, <2>1
  <2>3. DOMAIN u.waits = {1} /\ u.waits[1].fn = fn
    BY <2>2, OneWait
  <2>4. Will(u) => fn = "shown"
    BY <1>6, <2>3 DEF Will
  <2>5. <<[fn |-> fn, own |-> u.transitioning]>> = <<[fn |-> fn, own |-> TRUE]>>
    BY <1>6
  <2>6. Going(u)
    BY <1>6, <2>2, <2>5 DEF Going
  <2>. QED BY <2>4, <2>6
<1>. QED BY <1>6, <1>7

LEMMA HideIs ==
  ASSUME NEW r \in PanelStates, NEW u, u = Hide(r)
  PROVE  /\ u \in PanelStates /\ u.data = r.data
         /\ Still(r) => Quiet(u) /\ ~Will(u)
         /\ r.transitioning \/ r.cls # "in" => u = r
<1>1. CASE r.transitioning \/ r.cls # "in"
  <2>1. u = r
    BY <1>1 DEF Hide
  <2>2. Still(r) => ~Will(r)
    BY <1>1 DEF Still, Will
  <2>. QED BY <2>1, <2>2 DEF Quiet
<1>2. CASE ~(r.transitioning \/ r.cls # "in") /\ animated
  <2>1. u = [r EXCEPT !.cls = "collapsing", !.transitioning = TRUE,
                      !.waits = Await(@, [fn |-> "hidden", own |-> TRUE])]
    BY <1>2 DEF Hide
  <2>. QED BY <1>2, <2>1, StartsOne DEF Quiet
<1>3. CASE ~(r.transitioning \/ r.cls # "in") /\ ~animated
  <2>1. u = [r EXCEPT !.cls = "collapse"]
    BY <1>3 DEF Hide
  <2>. QED BY <1>3, <2>1 DEF PanelStates, Still, Will, Quiet
<1>. QED BY <1>1, <1>2, <1>3

LEMMA OpenIs ==
  ASSUME NEW r \in PanelStates, NEW u, u = Open(r)
  PROVE  u \in PanelStates /\ u.data = r.data /\ (Still(r) => Quiet(u))
<1>1. CASE animated
  <2>1. u = [r EXCEPT !.cls = "collapsing", !.transitioning = TRUE,
                      !.waits = Await(@, [fn |-> "shown", own |-> TRUE])]
    BY <1>1 DEF Open
  <2>. QED BY <2>1, StartsOne DEF Quiet
<1>2. CASE ~animated
  BY <1>2 DEF Open, PanelStates, Still, Quiet
<1>. QED BY <1>1, <1>2

LEMMA PluginHideIs ==
  ASSUME NEW r \in PanelStates, NEW u, u = PluginHide(r)
  PROVE  /\ u \in PanelStates /\ (r.data # "none" => u.data = r.data)
         /\ Still(r) => Quiet(u) /\ ~Will(u)
<1>1. CASE r.data # "none"
  BY <1>1, HideIs DEF PluginHide
<1>2. CASE r.data = "none"
  <2>1. PICK v : v = [r EXCEPT !.data = "alone"]
    OBVIOUS
  <2>2. v \in PanelStates /\ (Still(r) => Still(v))
    BY <2>1 DEF PanelStates, Still
  <2>3. PICK w : w = Hide(v)
    OBVIOUS
  <2>4. w \in PanelStates /\ (Still(v) => Quiet(w) /\ ~Will(w))
    BY <2>2, <2>3, HideIs
  <2>5. u = Hide(w)
    BY <1>2, <2>1, <2>3 DEF PluginHide
  <2>6. u \in PanelStates /\ (w.cls # "in" => u = w)
    BY <2>4, <2>5, HideIs
  <2>7. ~Will(w) => w.cls # "in"
    BY DEF Will
  <2>. QED BY <1>2, <2>2, <2>4, <2>6, <2>7
<1>. QED BY <1>1, <1>2

LEMMA ForgetIs ==
  ASSUME NEW r \in PanelStates, NEW u, u = Forget(r)
  PROVE  /\ u \in PanelStates /\ u.data = "none"
         /\ Quiet(r) /\ ~Will(r) => Quiet(u) /\ ~Will(u)
<1>1. r.waits \in Seq(Callbacks)
  BY DEF PanelStates
<1>2. PICK v : v = [i \in DOMAIN r.waits |-> [r.waits[i] EXCEPT !.own = FALSE]]
  OBVIOUS
<1>3. \A i \in DOMAIN r.waits : r.waits[i] \in Callbacks
  BY <1>1, ElementOfSeq, LenProperties
<1>4. \A i \in DOMAIN r.waits :
        v[i] \in Callbacks /\ v[i].fn = r.waits[i].fn /\ v[i].own = FALSE
  BY <1>2, <1>3 DEF Callbacks
<1>5. DOMAIN r.waits = 1..Len(r.waits) /\ Len(r.waits) \in Nat
  BY <1>1, LenProperties
<1>6. v \in Seq(Callbacks) /\ Len(v) = Len(r.waits) /\ DOMAIN v = DOMAIN r.waits
  BY <1>2, <1>4, <1>5
<1>7. u = [r EXCEPT !.data = "none", !.transitioning = FALSE, !.waits = v]
  BY <1>2 DEF Forget
<1>8. /\ u \in PanelStates /\ u.data = "none" /\ u.transitioning = FALSE /\ u.waits = v
      /\ u.cls = r.cls
  BY <1>6, <1>7 DEF PanelStates
<1>9. ASSUME ~Will(r) PROVE ~Will(u)
  BY <1>4, <1>6, <1>8, <1>9 DEF Will
<1>10. ASSUME Still(r) PROVE Still(u)
  <2>1. Len(v) = 0
    BY <1>6, <1>10 DEF Still
  <2>2. v = <<>>
    BY <1>6, <2>1
  <2>. QED BY <1>8, <1>10, <2>2 DEF Still
<1>11. ASSUME Going(r) PROVE Going(u)
  <2>1. PICK fn \in {"shown", "hidden"} :
          r.cls = "collapsing" /\ r.waits = <<[fn |-> fn, own |-> r.transitioning]>>
    BY <1>11 DEF Going
  <2>2. DOMAIN v = {1} /\ v[1].fn = fn /\ v[1].own = FALSE /\ v[1] \in Callbacks
    BY <1>4, <1>6, <2>1, OneWait
  <2>3. v[1] = [fn |-> fn, own |-> FALSE]
    BY <2>2 DEF Callbacks
  <2>4. v = <<v[1]>>
    <3>1. Len(v) = 1
      BY <1>6, <2>1
    <3>. QED BY <1>6, <3>1
  <2>5. u.waits = <<[fn |-> fn, own |-> u.transitioning]>>
    BY <1>8, <2>3, <2>4
  <2>. QED BY <1>8, <2>1, <2>5 DEF Going
<1>. QED BY <1>8, <1>9, <1>10, <1>11 DEF Quiet

Orderly(ps) ==
  /\ \A q \in Panels : Quiet(ps[q])
  /\ \A q \in Accordion : ps[q].data # "alone"
  /\ \A q, r \in Accordion : Will(ps[q]) /\ Will(ps[r]) => q = r

(* show() closes what is open in the accordion, one panel at most, so that *)
(* "first" stands for all of them.                                         *)
LEMMA ShowIs ==
  ASSUME NEW ps \in [Panels -> PanelStates], NEW p \in Panels, NEW us, us = Show(ps, p)
  PROVE  /\ us \in [Panels -> PanelStates]
         /\ /\ Orderly(ps) /\ \A q \in Panels : Still(ps[q])
            /\ p \in Accordion => ps[p].data = "parent"
            => Orderly(us)
<1>. DEFINE actives == IF ps[p].data = "parent" THEN {q \in Accordion : ps[q].cls = "in"} ELSE {}
            first == CHOOSE q \in actives : \A r \in actives : q <= r
            hasData == actives # {} /\ ps[first].data # "none"
            Closed(q) == IF hasData THEN PluginHide(ps[q]) ELSE Forget(PluginHide(ps[q]))
            vs == [q \in Panels |-> IF q = p THEN Open(ps[p])
                                    ELSE IF q \in actives THEN Closed(q) ELSE ps[q]]
<1>1. us = ps \/ us = vs
  BY DEF Show
<1>2. actives \subseteq Panels
  BY PanelsAssumption
<1>3. Open(ps[p]) \in PanelStates /\ (Still(ps[p]) => Quiet(Open(ps[p])))
  BY OpenIs
<1>4. ASSUME NEW q \in Panels
      PROVE  /\ Closed(q) \in PanelStates
             /\ Still(ps[q]) => Quiet(Closed(q)) /\ ~Will(Closed(q))
             /\ Closed(q).data = IF hasData /\ ps[q].data # "none" THEN ps[q].data
                                 ELSE IF hasData THEN PluginHide(ps[q]).data ELSE "none"
  <2>1. PICK h : h = PluginHide(ps[q])
    OBVIOUS
  <2>2. /\ h \in PanelStates /\ (ps[q].data # "none" => h.data = ps[q].data)
        /\ Still(ps[q]) => Quiet(h) /\ ~Will(h)
    BY <2>1, PluginHideIs
  <2>3. PICK f : f = Forget(h)
    OBVIOUS
  <2>4. /\ f \in PanelStates /\ f.data = "none"
        /\ Quiet(h) /\ ~Will(h) => Quiet(f) /\ ~Will(f)
    BY <2>2, <2>3, ForgetIs
  <2>. HIDE DEF hasData
  <2>5. Closed(q) = IF hasData THEN h ELSE f
    BY <2>1, <2>3
  <2>. QED BY <2>1, <2>2, <2>4, <2>5
<1>5. \A q, r \in Panels : q <= r /\ r <= q => q = r
  BY PanelsAssumption
<1>. HIDE DEF Closed, hasData
<1>6. vs \in [Panels -> PanelStates]
  <2>. HIDE DEF actives
  <2>. QED BY <1>3, <1>4
<1>7. ASSUME Orderly(ps), \A q \in Panels : Still(ps[q]),
             p \in Accordion => ps[p].data = "parent"
      PROVE  Orderly(vs)
  <2>1. ASSUME NEW q \in actives PROVE q = first
    <3>1. \A r \in actives : q = r
      BY <1>7, <2>1 DEF Orderly, Will
    <3>2. q <= q
      BY <1>2, PanelsAssumption
    <3>. HIDE DEF actives
    <3>3. \A r \in actives : q <= r
      BY <3>1, <3>2
    <3>4. first \in actives
      BY <3>3
    <3>. QED BY <3>1, <3>4
  <2>2. ASSUME NEW q \in actives PROVE Closed(q).data # "alone"
    <3>1. q \in Accordion /\ q \in Panels
      BY PanelsAssumption
    <3>2. hasData <=> ps[q].data # "none"
      <4>1. actives # {}
        OBVIOUS
      <4>2. q = first
        BY <2>1
      <4>. HIDE DEF actives, first
      <4>. QED BY <4>1, <4>2 DEF hasData
    <3>3. ps[q].data # "alone"
      BY <1>7, <3>1 DEF Orderly
    <3>. HIDE DEF actives
    <3>. QED BY <1>4, <3>1, <3>2, <3>3
  <2>3. ASSUME NEW q \in Accordion, q # p PROVE vs[q].data # "alone"
    <3>. HIDE DEF actives
    <3>. QED BY <1>7, <2>2, <2>3, PanelsAssumption DEF Orderly
  <2>4. p \in Accordion => vs[p].data # "alone"
    <3>1. Open(ps[p]).data = ps[p].data
      BY OpenIs
    <3>. QED BY <1>7, <3>1 DEF Orderly
  <2>5. ASSUME NEW q \in Panels PROVE Quiet(vs[q])
    <3>1. Still(ps[q])
      BY <1>7
    <3>2. Quiet(ps[q])
      BY <3>1 DEF Quiet
    <3>. HIDE DEF actives
    <3>. QED BY <1>3, <1>4, <3>1, <3>2
  <2>6. CASE p \in Accordion
    <3>1. ASSUME NEW q \in Accordion, q # p PROVE ~Will(vs[q])
      <4>1. q \in Panels /\ Still(ps[q])
        BY <1>7, <3>1, PanelsAssumption
      <4>2. q \in actives => vs[q] = Closed(q)
        BY <3>1, <4>1
      <4>3. q \notin actives => vs[q] = ps[q] /\ ps[q].cls # "in"
        BY <1>7, <2>6, <3>1, <4>1
      <4>4. Still(ps[q]) /\ ps[q].cls # "in" => ~Will(ps[q])
        BY DEF Still, Will
      <4>. HIDE DEF actives, vs
      <4>. QED BY <1>4, <4>1, <4>2, <4>3, <4>4
    <3>. HIDE DEF vs
    <3>. QED BY <2>3, <2>4, <2>5, <3>1 DEF Orderly
  <2>7. CASE p \notin Accordion
    <3>1. ASSUME NEW q \in Accordion PROVE Will(vs[q]) => Will(ps[q])
      <4>1. q \in Panels /\ Still(ps[q]) /\ q # p
        BY <1>7, <2>7, <3>1, PanelsAssumption
      <4>2. vs[q] = IF q \in actives THEN Closed(q) ELSE ps[q]
        BY <4>1
      <4>. HIDE DEF actives, vs
      <4>. QED BY <1>4, <4>1, <4>2
    <3>. HIDE DEF vs
    <3>. QED BY <1>7, <2>3, <2>5, <2>7, <3>1 DEF Orderly
  <2>. QED BY <2>6, <2>7
<1>. HIDE DEF vs
<1>. QED BY <1>1, <1>6, <1>7

AccordionInv == CollapseTypeOK /\ (~hasty => Orderly(panel))

LEMMA AccordionClick ==
  ASSUME AccordionInv, NEW p \in Panels, Click(p)
  PROVE  CollapseTypeOK' /\ (~hasty => Orderly(panel'))
<1>1. panel \in [Panels -> PanelStates] /\ collapsed \in [Panels -> BOOLEAN]
  BY DEF AccordionInv, CollapseTypeOK
<1>2. PICK r : r = Constructed(panel[p], p)
  OBVIOUS
<1>3. /\ r \in PanelStates /\ r.cls = panel[p].cls /\ r.waits = panel[p].waits
      /\ r.transitioning = panel[p].transitioning
      /\ r.data = IF panel[p].data # "none" THEN panel[p].data
                  ELSE IF p \in Accordion THEN "parent" ELSE "alone"
  BY <1>1, <1>2 DEF Constructed, PanelStates
<1>4. PICK ps : ps = [panel EXCEPT ![p] = r]
  OBVIOUS
<1>5. /\ ps \in [Panels -> PanelStates] /\ ps[p] = r
      /\ \A q \in Panels : q # p => ps[q] = panel[q]
  BY <1>1, <1>3, <1>4
<1>6. panel' = Toggle(ps, p)
  BY <1>2, <1>4 DEF Click
<1>7. PICK h : h = Hide(r)
  OBVIOUS
<1>8. h \in PanelStates /\ h.data = r.data /\ (Still(r) => Quiet(h) /\ ~Will(h))
  BY <1>3, <1>7, HideIs
<1>9. panel' = (IF r.cls = "in" THEN [ps EXCEPT ![p] = h] ELSE Show(ps, p))
  BY <1>5, <1>6, <1>7 DEF Toggle
<1>10. panel' \in [Panels -> PanelStates]
  BY <1>5, <1>8, <1>9, ShowIs
<1>11. collapsed' \in [Panels -> BOOLEAN]
  BY <1>1 DEF Click
<1>12. ASSUME ~hasty PROVE Orderly(panel')
  <2>1. Orderly(panel) /\ \A q \in Panels : panel[q].waits = <<>>
    BY <1>12 DEF AccordionInv, Click, UserActs, CollapseRest
  <2>2. ASSUME NEW q \in Panels PROVE Still(panel[q])
    <3>1. ~Going(panel[q])
      BY <2>1 DEF Going
    <3>. QED BY <2>1, <3>1 DEF Orderly, Quiet
  <2>3. Still(r) /\ (Will(r) <=> Will(panel[p]))
    BY <1>3, <2>2 DEF Still, Will
  <2>4. \A q \in Panels : Still(ps[q]) /\ (Will(ps[q]) <=> Will(panel[q]))
    BY <1>5, <2>2, <2>3
  <2>5. p \in Accordion => r.data = "parent"
    BY <1>1, <1>3, <2>1 DEF Orderly, PanelStates
  <2>6. \A q \in Accordion : q \in Panels /\ ps[q].data # "alone"
    BY <1>5, <2>1, <2>5, PanelsAssumption DEF Orderly
  <2>7. Orderly(ps)
    BY <2>1, <2>4, <2>6 DEF Orderly, Quiet
  <2>8. CASE r.cls = "in"
    <3>1. /\ panel'[p] = h /\ Quiet(h) /\ ~Will(h)
          /\ \A q \in Panels : q # p => panel'[q] = ps[q]
      BY <1>5, <1>8, <1>9, <2>3, <2>8
    <3>. QED BY <1>8, <2>5, <2>6, <2>7, <3>1 DEF Orderly
  <2>. QED BY <1>5, <1>9, <2>4, <2>5, <2>7, <2>8, ShowIs
<1>. QED BY <1>10, <1>11, <1>12 DEF CollapseTypeOK

LEMMA AccordionEnd ==
  ASSUME AccordionInv, NEW p \in Panels, CollapseEnd(p)
  PROVE  CollapseTypeOK' /\ (~hasty => Orderly(panel'))
<1>1. panel \in [Panels -> PanelStates] /\ collapsed \in [Panels -> BOOLEAN]
  BY DEF AccordionInv, CollapseTypeOK
<1>. DEFINE fired == {panel[p].waits[i] : i \in DOMAIN panel[p].waits}
            shown == \E w \in fired : w.fn = "shown"
            own == \E w \in fired : w.own
<1>2. PICK r : r = [panel[p] EXCEPT !.cls = IF shown THEN "in" ELSE "collapse",
                                    !.transitioning = @ /\ ~own, !.waits = <<>>]
  OBVIOUS
<1>3. panel' = [panel EXCEPT ![p] = r]
  BY <1>1, <1>2 DEF CollapseEnd
<1>4. <<>> \in Seq(Callbacks) /\ own \in BOOLEAN
  BY EmptySeq
<1>5. shown <=> \E i \in DOMAIN panel[p].waits : panel[p].waits[i].fn = "shown"
  OBVIOUS
<1>6. own <=> \E i \in DOMAIN panel[p].waits : panel[p].waits[i].own
  OBVIOUS
<1>. HIDE DEF shown, own, fired
<1>7. /\ r \in PanelStates /\ r.data = panel[p].data /\ r.waits = <<>>
      /\ r.cls = IF shown THEN "in" ELSE "collapse"
      /\ r.transitioning <=> panel[p].transitioning /\ ~own
  BY <1>1, <1>2, <1>4 DEF PanelStates
<1>8. CollapseTypeOK'
  <2>1. panel' \in [Panels -> PanelStates]
    BY <1>1, <1>3, <1>7
  <2>2. UNCHANGED collapsed
    BY DEF CollapseEnd
  <2>. QED BY <1>1, <2>1, <2>2 DEF CollapseTypeOK
<1>9. ASSUME ~hasty PROVE Orderly(panel')
  <2>1. Orderly(panel)
    BY <1>9 DEF AccordionInv
  <2>2. Going(panel[p])
    BY <2>1 DEF Orderly, Quiet, Still, CollapseEnd
  <2>3. PICK fn \in {"shown", "hidden"} :
          panel[p].waits = <<[fn |-> fn, own |-> panel[p].transitioning]>>
    BY <2>2 DEF Going
  <2>4. /\ DOMAIN panel[p].waits = {1} /\ panel[p].waits[1].fn = fn
        /\ panel[p].waits[1].own = panel[p].transitioning
    BY <2>3, OneWait
  <2>5. (shown <=> fn = "shown") /\ (own <=> panel[p].transitioning)
    BY <1>5, <1>6, <2>4
  <2>6. Quiet(r)
    BY <1>7, <2>5 DEF Still, Quiet
  <2>7. Will(r) => Will(panel[p])
    BY <1>5, <1>7 DEF Will
  <2>8. panel'[p] = r /\ \A q \in Panels : q # p => panel'[q] = panel[q]
    BY <1>1, <1>3
  <2>. QED BY <1>7, <2>1, <2>6, <2>7, <2>8, PanelsAssumption DEF Orderly
<1>. QED BY <1>8, <1>9

LEMMA AccordionInit == Init => AccordionInv
<1>. SUFFICES ASSUME Init PROVE AccordionInv
  OBVIOUS
<1>1. PICK open \in {{}} \cup {{p} : p \in Accordion} :
        panel = [p \in Panels |-> Fresh(IF p \in open THEN "in" ELSE "collapse")]
  BY DEF Init, CollapseInit
<1>2. collapsed = [p \in Panels |-> FALSE] /\ <<>> \in Seq(Callbacks)
  BY EmptySeq DEF Init, CollapseInit
<1>3. ASSUME NEW c \in {"in", "collapse"}
      PROVE  /\ Fresh(c) \in PanelStates /\ Fresh(c).data = "none" /\ Still(Fresh(c))
             /\ Will(Fresh(c)) => c = "in"
  BY <1>2, <1>3 DEF Fresh, PanelStates, Still, Will
<1>4. \A p \in Panels : /\ panel[p] \in PanelStates /\ panel[p].data = "none" /\ Still(panel[p])
                        /\ Will(panel[p]) => p \in open
  BY <1>1, <1>3
<1>5. panel \in [Panels -> PanelStates]
  BY <1>1, <1>4
<1>6. \A p, q \in open : p = q
  BY <1>1
<1>. QED BY <1>2, <1>4, <1>5, <1>6, PanelsAssumption
  DEF AccordionInv, CollapseTypeOK, Orderly, Quiet

LEMMA AccordionStep == AccordionInv /\ [Next]_vars => AccordionInv'
<1>. SUFFICES ASSUME AccordionInv, [Next]_vars PROVE AccordionInv'
  OBVIOUS
<1>1. hasty' = hasty
  BY SameUser
<1>2. CASE UNCHANGED collapseVars
  BY <1>1, <1>2 DEF collapseVars, AccordionInv, CollapseTypeOK
<1>. QED BY <1>1, <1>2, AccordionClick, AccordionEnd
  DEF AccordionInv, Next, Use, Ends, UseCollapse, EndCollapse, vars,
      Dialog, Tipping, Turning, Tabbing, Glowing

(* Whoever waits for the transitions never sees two panels of the accordion*)
(* open: show() closes the one that is, though it gives it an object and   *)
(* throws that away again, which leaves its callback without one.          *)
THEOREM OnePanelOpen == Spec => []OneOpen
<1>1. Init => AccordionInv
  BY AccordionInit
<1>2. AccordionInv /\ [Next]_vars => AccordionInv'
  BY AccordionStep
<1>3. AccordionInv => OneOpen
  BY DEF AccordionInv, Orderly, Will, OneOpen
<1>. QED BY <1>1, <1>2, <1>3, PTL DEF Spec

-----------------------------------------------------------------------------
(* The carousel.  Its interval is one that runs, or none does.             *)
Timed(c) == c.timers = IF c.interval = "runs" THEN 1 ELSE 0

(* One item is active, at most one other moves, and "sliding" tells.       *)
Single(c) ==
  /\ \E x \in Positions : c.active = {x}
  /\ \/ c.moving = {}
     \/ \E y \in Positions : c.moving = {y} /\ y \notin c.active
  /\ c.sliding <=> c.moving # {}

Turns == {c \in CarouselStates : Timed(c) /\ Single(c)}

(* Only the timer and the pause are different.                             *)
SameItems(c, d) ==
  /\ d.active = c.active /\ d.moving = c.moving /\ d.sliding = c.sliding
  /\ d.indicator = c.indicator /\ d.slid = c.slid /\ d.events = c.events

LEMMA ActiveIs ==
  ASSUME NEW c \in CarouselStates, Single(c)
  PROVE  ActiveIndex(c) \in Positions /\ c.active = {ActiveIndex(c)}
<1>1. PICK x \in Positions : c.active = {x}
  BY DEF Single
<1>2. x \in Nat /\ x <= x
  BY ItemsAssumption DEF Positions
<1>3. Min({x}) = x
  BY <1>2 DEF Min
<1>. QED BY <1>1, <1>3 DEF ActiveIndex

LEMMA ClearedIs ==
  ASSUME NEW c \in CarouselStates, Timed(c), NEW u, u = Cleared(c)
  PROVE  /\ u \in CarouselStates /\ SameItems(c, u) /\ u.paused = c.paused
         /\ u.timers = 0 /\ u.interval # "runs" /\ u.cycles = c.cycles
<1>1. CASE c.interval = "runs"
  <2>1. PICK k : k = c.timers - 1
    OBVIOUS
  <2>2. k = 0
    BY <1>1, <2>1 DEF Timed
  <2>3. PICK v : v = [c EXCEPT !.interval = "cleared"]
    OBVIOUS
  <2>4. /\ v \in CarouselStates /\ SameItems(c, v) /\ v.paused = c.paused
        /\ v.interval = "cleared" /\ v.cycles = c.cycles
    BY <2>3 DEF CarouselStates, SameItems
  <2>5. u = [v EXCEPT !.timers = k]
    BY <1>1, <2>1, <2>3 DEF Cleared
  <2>. QED BY <2>2, <2>4, <2>5 DEF CarouselStates, SameItems
<1>2. CASE c.interval # "runs"
  BY <1>2 DEF Cleared, Timed, SameItems
<1>. QED BY <1>1, <1>2

LEMMA CycleIs ==
  ASSUME NEW c \in CarouselStates, Timed(c), NEW event \in BOOLEAN, NEW u, u = Cycle(c, event)
  PROVE  u \in CarouselStates /\ Timed(u) /\ SameItems(c, u)
<1>1. PICK b : b = Cleared(c)
  OBVIOUS
<1>2. /\ b \in CarouselStates /\ SameItems(c, b) /\ b.timers = 0 /\ b.interval # "runs"
  BY <1>1, ClearedIs
<1>3. PICK d : d = [b EXCEPT !.paused = @ /\ event]
  OBVIOUS
<1>4. d \in CarouselStates /\ SameItems(c, d) /\ d.timers = 0 /\ d.interval # "runs"
  <2>1. (b.paused /\ event) \in BOOLEAN
    OBVIOUS
  <2>. QED BY <1>2, <1>3, <2>1 DEF CarouselStates, SameItems
<1>5. u = IF d.cycles /\ ~d.paused
          THEN [d EXCEPT !.interval = "runs", !.timers = @ + 1] ELSE d
  BY <1>1, <1>3 DEF Cycle
<1>6. CASE u = d
  BY <1>4, <1>6 DEF Timed
<1>7. CASE u = [d EXCEPT !.interval = "runs", !.timers = @ + 1]
  <2>1. PICK k : k = d.timers + 1
    OBVIOUS
  <2>2. k = 1
    BY <1>4, <2>1
  <2>3. PICK v : v = [d EXCEPT !.interval = "runs"]
    OBVIOUS
  <2>4. v \in CarouselStates /\ SameItems(c, v) /\ v.interval = "runs"
    BY <1>4, <2>3 DEF CarouselStates, SameItems
  <2>5. u = [v EXCEPT !.timers = k]
    BY <1>7, <2>1, <2>3
  <2>. QED BY <2>2, <2>4, <2>5 DEF CarouselStates, SameItems, Timed
<1>. QED BY <1>5, <1>6, <1>7

LEMMA PauseIs ==
  ASSUME NEW c \in CarouselStates, Timed(c), NEW event \in BOOLEAN, NEW u, u = Pause(c, event)
  PROVE  u \in CarouselStates /\ Timed(u) /\ SameItems(c, u)
<1>1. PICK d : d = [c EXCEPT !.paused = @ \/ ~event]
  OBVIOUS
<1>2. d \in CarouselStates /\ Timed(d) /\ SameItems(c, d)
  <2>1. (c.paused \/ ~event) \in BOOLEAN
    OBVIOUS
  <2>. QED BY <1>1, <2>1 DEF CarouselStates, Timed, SameItems
<1>3. PICK e : e = IF d.moving # {} THEN Cycle(d, TRUE) ELSE d
  OBVIOUS
<1>4. e \in CarouselStates /\ Timed(e) /\ SameItems(c, e)
  <2>1. PICK k : k = Cycle(d, TRUE)
    OBVIOUS
  <2>2. k \in CarouselStates /\ Timed(k) /\ SameItems(d, k)
    BY <1>2, <2>1, CycleIs
  <2>. QED BY <1>2, <1>3, <2>1, <2>2 DEF SameItems
<1>5. PICK f : f = Cleared(e)
  OBVIOUS
<1>6. f \in CarouselStates /\ SameItems(c, f) /\ f.timers = 0
  BY <1>4, <1>5, ClearedIs DEF SameItems
<1>7. u = [f EXCEPT !.interval = "none"]
  BY <1>1, <1>3, <1>5 DEF Pause
<1>. QED BY <1>6, <1>7 DEF CarouselStates, Timed, SameItems

(* What slide(), next(), prev() and to() make of the items.                *)
Moved(c, u) ==
  /\ u.events = c.events
  /\ \/ /\ u.active = c.active /\ u.moving = c.moving
        /\ u.indicator = c.indicator /\ u.slid = c.slid
     \/ u.active = {u.indicator} /\ u.moving = {} /\ u.slid = c.slid
     \/ u.moving # {} /\ u.slid = Append(c.slid, 0)

LEMMA SlideIs ==
  ASSUME NEW c \in Turns, ~c.sliding, NEW to \in Positions, animated \in BOOLEAN,
         NEW u, u = Slide(c, to)
  PROVE  u \in Turns /\ Moved(c, u)
<1>1. c \in CarouselStates /\ Timed(c) /\ Single(c) /\ c.moving = {} /\ c.slid \in Seq(Positions \cup {0})
  BY DEF Turns, Single, CarouselStates
<1>2. CASE to \in c.active
  <2>1. u = [c EXCEPT !.sliding = FALSE]
    BY <1>2 DEF Slide
  <2>2. /\ u \in CarouselStates /\ u.active = c.active /\ u.moving = c.moving
        /\ u.sliding = FALSE /\ u.indicator = c.indicator /\ u.slid = c.slid
        /\ u.events = c.events /\ u.timers = c.timers /\ u.interval = c.interval
    BY <1>1, <2>1 DEF CarouselStates
  <2>. QED BY <1>1, <2>2 DEF Turns, Timed, Single, Moved
<1>3. CASE to \notin c.active
  <2>. DEFINE cycling == c.interval # "none"
  <2>1. PICK b : b = [c EXCEPT !.sliding = TRUE]
    OBVIOUS
  <2>2. /\ b \in CarouselStates /\ Timed(b) /\ b.active = c.active /\ b.moving = {}
        /\ b.slid = c.slid /\ b.sliding = TRUE /\ b.events = c.events
    BY <1>1, <2>1 DEF CarouselStates, Timed
  <2>3. PICK p : p = IF cycling THEN Pause(b, FALSE) ELSE b
    OBVIOUS
  <2>4. p \in CarouselStates /\ Timed(p) /\ SameItems(b, p)
    <3>1. PICK q : q = Pause(b, FALSE)
      OBVIOUS
    <3>2. q \in CarouselStates /\ Timed(q) /\ SameItems(b, q)
      BY <2>2, <3>1, PauseIs
    <3>. QED BY <2>2, <2>3, <3>1, <3>2 DEF SameItems
  <2>5. PICK w : w = Append(c.slid, 0)
    OBVIOUS
  <2>6. w \in Seq(Positions \cup {0})
    BY <1>1, <2>5, AppendProperties
  <2>7. PICK s : s = IF animated
                     THEN [p EXCEPT !.moving = @ \cup {to}, !.indicator = 0, !.slid = Append(@, 0)]
                     ELSE [p EXCEPT !.active = {to}, !.indicator = to, !.sliding = FALSE]
    OBVIOUS
  <2>8. CASE animated
    <3>1. s = [p EXCEPT !.moving = {to}, !.indicator = 0, !.slid = w]
      BY <2>2, <2>4, <2>5, <2>7, <2>8 DEF SameItems
    <3>2. PICK m : m = [p EXCEPT !.moving = {to}, !.indicator = 0]
      OBVIOUS
    <3>3. /\ m \in CarouselStates /\ m.moving = {to} /\ m.active = p.active
          /\ m.sliding = p.sliding /\ m.events = p.events
          /\ m.timers = p.timers /\ m.interval = p.interval
      BY <2>4, <3>2 DEF CarouselStates
    <3>4. s = [m EXCEPT !.slid = w]
      BY <3>1, <3>2
    <3>5. /\ s \in CarouselStates /\ s.moving = {to} /\ s.active = c.active /\ s.slid = w
          /\ s.sliding = TRUE /\ s.events = c.events /\ Timed(s)
      BY <2>2, <2>4, <2>6, <3>3, <3>4 DEF CarouselStates, SameItems, Timed
    <3>6. PICK k : k = Cycle(s, FALSE)
      OBVIOUS
    <3>7. k \in CarouselStates /\ Timed(k) /\ SameItems(s, k)
      BY <3>5, <3>6, CycleIs
    <3>8. u = IF cycling THEN k ELSE s
      BY <1>3, <2>1, <2>3, <2>7, <3>6 DEF Slide
    <3>9. /\ u \in CarouselStates /\ Timed(u) /\ u.moving = {to} /\ u.active = c.active
          /\ u.slid = w /\ u.sliding = TRUE /\ u.events = c.events
      BY <3>5, <3>7, <3>8 DEF SameItems
    <3>. QED BY <1>1, <1>3, <2>5, <3>9 DEF Turns, Single, Moved
  <2>9. CASE ~animated
    <3>1. s = [p EXCEPT !.active = {to}, !.indicator = to, !.sliding = FALSE]
      BY <2>7, <2>9
    <3>2. PICK m : m = [p EXCEPT !.active = {to}, !.indicator = to]
      OBVIOUS
    <3>3. /\ m \in CarouselStates /\ m.moving = p.moving /\ m.active = {to} /\ m.indicator = to
          /\ m.slid = p.slid /\ m.events = p.events
          /\ m.timers = p.timers /\ m.interval = p.interval
      BY <2>4, <3>2 DEF CarouselStates
    <3>4. s = [m EXCEPT !.sliding = FALSE]
      BY <3>1, <3>2
    <3>5. /\ s \in CarouselStates /\ s.moving = {} /\ s.active = {to} /\ s.slid = c.slid
          /\ s.indicator = to /\ s.sliding = FALSE /\ s.events = c.events /\ Timed(s)
      BY <2>2, <2>4, <3>3, <3>4 DEF CarouselStates, SameItems, Timed
    <3>6. PICK k : k = Cycle(s, FALSE)
      OBVIOUS
    <3>7. k \in CarouselStates /\ Timed(k) /\ SameItems(s, k)
      BY <3>5, <3>6, CycleIs
    <3>8. u = IF cycling THEN k ELSE s
      BY <1>3, <2>1, <2>3, <2>7, <3>6 DEF Slide
    <3>9. /\ u \in CarouselStates /\ Timed(u) /\ u.moving = {} /\ u.active = {to}
          /\ u.slid = c.slid /\ u.indicator = to /\ u.sliding = FALSE /\ u.events = c.events
      BY <3>5, <3>7, <3>8 DEF SameItems
    <3>. QED BY <3>9 DEF Turns, Single, Moved
  <2>. QED BY <2>8, <2>9
<1>. QED BY <1>2, <1>3

LEMMA StepIs ==
  ASSUME NEW c \in Turns, animated \in BOOLEAN, NEW type \in {"next", "prev"},
         NEW u, u = Step(c, type)
  PROVE  u \in Turns /\ Moved(c, u)
<1>1. ActiveIndex(c) \in Positions
  BY ActiveIs DEF Turns
<1>2. Neighbour(c, type) \in Positions
  BY <1>1, ItemsAssumption DEF Neighbour, Positions
<1>3. CASE u = c
  BY <1>3 DEF Moved
<1>4. CASE ~c.sliding /\ u = Slide(c, Neighbour(c, type))
  BY <1>2, <1>4, SlideIs
<1>. QED BY <1>3, <1>4 DEF Step

(* to() of an item that slides puts itself off.                            *)
LEMMA ToIs ==
  ASSUME NEW c \in Turns, animated \in BOOLEAN, NEW pos \in Positions, NEW u, u = To(c, pos)
  PROVE  u \in Turns /\ u.events = c.events /\ (~c.sliding => Moved(c, u))
<1>1. c \in CarouselStates /\ Timed(c) /\ Single(c)
  BY DEF Turns
<1>2. CASE c.sliding
  <2>1. PICK w : w = Append(c.slid, pos)
    OBVIOUS
  <2>2. w \in Seq(Positions \cup {0})
    BY <1>1, <2>1, AppendProperties DEF CarouselStates
  <2>3. u = [c EXCEPT !.slid = w]
    BY <1>2, <2>1 DEF To
  <2>4. /\ u \in CarouselStates /\ u.active = c.active /\ u.moving = c.moving
        /\ u.sliding = c.sliding /\ u.events = c.events
        /\ u.timers = c.timers /\ u.interval = c.interval
    BY <1>1, <2>2, <2>3 DEF CarouselStates
  <2>. QED BY <1>1, <1>2, <2>4 DEF Turns, Timed, Single
<1>3. CASE ~c.sliding /\ pos = ActiveIndex(c)
  <2>1. PICK p : p = Pause(c, FALSE)
    OBVIOUS
  <2>2. p \in CarouselStates /\ Timed(p) /\ SameItems(c, p)
    BY <1>1, <2>1, PauseIs
  <2>3. u = Cycle(p, FALSE)
    BY <1>3, <2>1 DEF To
  <2>4. u \in CarouselStates /\ Timed(u) /\ SameItems(p, u)
    BY <2>2, <2>3, CycleIs
  <2>. QED BY <1>1, <2>2, <2>4 DEF Turns, Single, SameItems, Moved
<1>4. CASE ~c.sliding /\ pos # ActiveIndex(c)
  <2>1. u = Slide(c, pos)
    BY <1>4 DEF To
  <2>. QED BY <1>4, <2>1, SlideIs DEF Moved
<1>. QED BY <1>2, <1>3, <1>4

(* For one who waits: at rest the indicator is lit, and else it waits for  *)
(* the end of the transition and then for the event.                       *)
Lit(c) ==
  \/ c.moving = {} /\ c.events = 0 /\ c.slid = <<>> /\ c.active = {c.indicator}
  \/ c.moving # {} /\ c.events = 0 /\ c.slid = <<0>>
  \/ c.moving = {} /\ c.events = 1 /\ c.slid = <<0>>

CarouselInv ==
  /\ TransitionTypeOK
  /\ carousel \in Turns /\ wrap \in BOOLEAN
  /\ ~hasty => Lit(carousel)

LEMMA SameTurns ==
  ASSUME NEW c \in Turns, NEW u \in CarouselStates, Timed(u), SameItems(c, u)
  PROVE  u \in Turns /\ (Lit(c) => Lit(u))
  BY DEF Turns, Single, SameItems, Lit

LEMMA MovedLit ==
  ASSUME NEW c, NEW u, Lit(c), c.moving = {}, c.events = 0, Moved(c, u)
  PROVE  Lit(u)
<1>1. c.slid = <<>> /\ c.active = {c.indicator}
  BY DEF Lit
<1>2. Append(<<>>, 0) = <<0>>
  BY AwaitFirst DEF Await
<1>. QED BY <1>1, <1>2 DEF Moved, Lit

LEMMA CarouselInvInit == Init => CarouselInv
<1>. SUFFICES ASSUME Init PROVE CarouselInv
  OBVIOUS
<1>1. TransitionTypeOK /\ wrap \in BOOLEAN
  BY ClicksAssumption DEF Init, TransitionInit, TransitionTypeOK, CarouselInit
<1>2. carousel = [data |-> FALSE, cycles |-> FALSE, active |-> {1}, moving |-> {},
                  sliding |-> FALSE, paused |-> FALSE, interval |-> "none",
                  timers |-> 0, indicator |-> 1, slid |-> <<>>, events |-> 0]
  BY DEF Init, CarouselInit
<1>3. <<>> \in Seq(Positions \cup {0}) /\ 1 \in Positions
  BY EmptySeq, ItemsAssumption DEF Positions
<1>4. carousel \in CarouselStates
  BY <1>2, <1>3 DEF CarouselStates
<1>5. Timed(carousel) /\ Single(carousel) /\ Lit(carousel)
  BY <1>2, <1>3 DEF Timed, Single, Lit
<1>. QED BY <1>1, <1>4, <1>5 DEF CarouselInv, Turns

LEMMA CarouselUser ==
  ASSUME CarouselInv, UseCarousel
  PROVE  carousel' \in Turns /\ (~hasty => Lit(carousel'))
<1>1. /\ carousel \in Turns /\ carousel \in CarouselStates /\ Timed(carousel)
      /\ animated \in BOOLEAN
  BY DEF CarouselInv, Turns, TransitionTypeOK
<1>2. ASSUME NEW u \in Turns, CarouselRest, NEW d, SameItems(carousel, d), Moved(d, u)
      PROVE  ~hasty => Lit(u)
  <2>1. Lit(carousel) => Lit(d)
    BY <1>2 DEF SameItems, Lit
  <2>2. d.moving = {} /\ d.events = 0
    BY <1>2 DEF SameItems, CarouselRest
  <2>. QED BY <1>2, <2>1, <2>2, MovedLit DEF CarouselInv
<1>3. ASSUME NEW u \in CarouselStates, Timed(u), SameItems(carousel, u), carousel' = u
      PROVE  carousel' \in Turns /\ (~hasty => Lit(carousel'))
  BY <1>1, <1>3, SameTurns DEF CarouselInv
<1>4. CASE Ride
  <2>1. PICK d : d = [carousel EXCEPT !.data = TRUE, !.cycles = TRUE]
    OBVIOUS
  <2>2. d \in CarouselStates /\ Timed(d) /\ SameItems(carousel, d)
    BY <1>1, <2>1 DEF CarouselStates, Timed, SameItems
  <2>3. PICK p : p = Pause(d, FALSE)
    OBVIOUS
  <2>4. p \in CarouselStates /\ Timed(p) /\ SameItems(d, p)
    BY <2>2, <2>3, PauseIs
  <2>5. PICK u : u = Cycle(p, FALSE)
    OBVIOUS
  <2>6. u \in CarouselStates /\ Timed(u) /\ SameItems(p, u)
    BY <2>4, <2>5, CycleIs
  <2>7. carousel' = u
    BY <1>4, <2>1, <2>3, <2>5 DEF Ride
  <2>8. SameItems(carousel, u)
    BY <2>2, <2>4, <2>6 DEF SameItems
  <2>. QED BY <1>3, <2>6, <2>7, <2>8
<1>5. CASE Hover
  BY <1>1, <1>3, <1>5, PauseIs, CycleIs DEF Hover
<1>6. CASE Tick
  <2>1. carousel' \in Turns /\ Moved(carousel, carousel')
    BY <1>1, <1>6, StepIs DEF Tick
  <2>. QED BY <1>2, <1>6, <2>1 DEF Tick, SameItems
<1>7. ASSUME NEW type \in {"next", "prev"}, Control(type)
      PROVE  carousel' \in Turns /\ (~hasty => Lit(carousel'))
  <2>1. PICK d : d = [carousel EXCEPT !.data = TRUE, !.cycles = @ \/ ~carousel.data]
    OBVIOUS
  <2>2. d \in CarouselStates /\ Timed(d) /\ SameItems(carousel, d)
    <3>1. PICK b \in BOOLEAN : b = (carousel.cycles \/ ~carousel.data)
      OBVIOUS
    <3>2. d = [carousel EXCEPT !.data = TRUE, !.cycles = b]
      BY <2>1, <3>1
    <3>. QED BY <1>1, <3>2 DEF CarouselStates, Timed, SameItems
  <2>3. carousel' = Step(d, type)
    BY <1>7, <2>1 DEF Control
  <2>4. d \in Turns
    BY <1>1, <2>2, SameTurns
  <2>5. carousel' \in Turns /\ Moved(d, carousel')
    BY <1>1, <2>3, <2>4, StepIs
  <2>. QED BY <1>2, <1>7, <2>2, <2>5 DEF Control, UserActs
<1>8. ASSUME NEW pos \in Positions, Indicate(pos)
      PROVE  carousel' \in Turns /\ (~hasty => Lit(carousel'))
  <2>1. PICK d : d = [carousel EXCEPT !.data = TRUE]
    OBVIOUS
  <2>2. d \in CarouselStates /\ Timed(d) /\ SameItems(carousel, d)
    BY <1>1, <2>1 DEF CarouselStates, Timed, SameItems
  <2>3. carousel' = To(d, pos)
    BY <1>8, <2>1 DEF Indicate
  <2>4. d \in Turns
    BY <1>1, <2>2, SameTurns
  <2>5. carousel' \in Turns /\ (~d.sliding => Moved(d, carousel'))
    BY <1>1, <2>3, <2>4, ToIs
  <2>6. ~hasty => CarouselRest /\ ~d.sliding
    BY <1>8, <2>2, <2>4 DEF Indicate, UserActs, CarouselRest, SameItems, Turns, Single
  <2>. QED BY <1>2, <2>2, <2>5, <2>6
<1>. QED BY <1>4, <1>5, <1>6, <1>7, <1>8 DEF UseCarousel

LEMMA CarouselSlid ==
  ASSUME CarouselInv, SlideEnd
  PROVE  carousel' \in Turns /\ (~hasty => Lit(carousel'))
<1>1. carousel \in CarouselStates /\ Timed(carousel) /\ Single(carousel)
  BY DEF CarouselInv, Turns
<1>2. PICK y \in Positions : carousel.moving = {y} /\ carousel.moving # {}
  BY <1>1 DEF SlideEnd, Single
<1>3. PICK b : b = [carousel EXCEPT !.active = {y}, !.moving = {}]
  OBVIOUS
<1>4. /\ b \in CarouselStates /\ b.active = {y} /\ b.moving = {} /\ b.slid = carousel.slid
      /\ b.timers = carousel.timers /\ b.interval = carousel.interval
      /\ b.events = carousel.events
  BY <1>1, <1>2, <1>3 DEF CarouselStates
<1>5. PICK k : k = carousel.events + 1
  OBVIOUS
<1>6. k \in Nat
  BY <1>1, <1>5 DEF CarouselStates
<1>7. carousel' = [b EXCEPT !.sliding = FALSE, !.events = k]
  BY <1>2, <1>3, <1>5 DEF SlideEnd
<1>8. /\ carousel' \in CarouselStates /\ carousel'.active = {y} /\ carousel'.moving = {}
      /\ carousel'.sliding = FALSE /\ carousel'.events = k /\ carousel'.slid = carousel.slid
      /\ carousel'.timers = carousel.timers /\ carousel'.interval = carousel.interval
  BY <1>4, <1>6, <1>7 DEF CarouselStates
<1>9. carousel' \in Turns
  BY <1>1, <1>8 DEF Turns, Timed, Single
<1>10. Lit(carousel) => Lit(carousel')
  BY <1>2, <1>5, <1>8 DEF Lit
<1>. QED BY <1>9, <1>10 DEF CarouselInv

LEMMA CarouselEvent ==
  ASSUME CarouselInv, SlidEvent
  PROVE  carousel' \in Turns /\ (~hasty => Lit(carousel'))
<1>1. /\ carousel \in CarouselStates /\ Timed(carousel) /\ Single(carousel)
      /\ carousel.slid \in Seq(Positions \cup {0}) /\ animated \in BOOLEAN
  BY DEF CarouselInv, Turns, CarouselStates, TransitionTypeOK
<1>2. PICK k : k = carousel.events - 1
  OBVIOUS
<1>3. k \in Nat
  BY <1>1, <1>2 DEF SlidEvent, CarouselStates
<1>4. PICK s : s = [carousel EXCEPT !.slid = <<>>, !.events = k]
  OBVIOUS
<1>5. <<>> \in Seq(Positions \cup {0})
  BY EmptySeq
<1>6. /\ s \in CarouselStates /\ s.active = carousel.active /\ s.moving = carousel.moving
      /\ s.sliding = carousel.sliding /\ s.slid = <<>> /\ s.events = k
      /\ s.timers = carousel.timers /\ s.interval = carousel.interval
  BY <1>1, <1>3, <1>4, <1>5 DEF CarouselStates
<1>7. s \in Turns
  BY <1>1, <1>6 DEF Turns, Timed, Single
<1>8. carousel' = InTurn(Handlers, s, carousel.slid)
  BY <1>2, <1>4 DEF SlidEvent
<1>9. ASSUME NEW c \in Turns
      PROVE  /\ Handle(c, 0) = [c EXCEPT !.indicator = ActiveIndex(c)]
             /\ Handle(c, 0) \in Turns
  <2>1. c \in CarouselStates /\ Timed(c) /\ Single(c)
    BY DEF Turns
  <2>2. PICK i \in Positions : i = ActiveIndex(c)
    BY <2>1, ActiveIs
  <2>3. PICK u : u = [c EXCEPT !.indicator = i]
    OBVIOUS
  <2>4. /\ u \in CarouselStates /\ u.active = c.active /\ u.moving = c.moving
        /\ u.sliding = c.sliding /\ u.timers = c.timers /\ u.interval = c.interval
    BY <2>1, <2>3 DEF CarouselStates
  <2>5. u \in Turns
    BY <2>1, <2>4 DEF Turns, Timed, Single
  <2>. QED BY <2>2, <2>3, <2>5 DEF Handle
<1>10. \A c \in Turns, h \in Positions \cup {0} : Handlers[h][c] = Handle(c, h)
  BY DEF Handlers, Turns
<1>11. ASSUME NEW c \in Turns, NEW h \in Positions \cup {0} PROVE Handlers[h][c] \in Turns
  <2>1. CASE h = 0
    BY <1>9, <1>10, <2>1
  <2>2. CASE h # 0
    <3>1. h \in Positions /\ Handle(c, h) = To(c, h)
      BY <2>2 DEF Handle
    <3>. QED BY <1>1, <1>10, <3>1, ToIs
  <2>. QED BY <2>1, <2>2
<1>12. carousel' \in Turns
  BY <1>1, <1>7, <1>8, <1>11, InTurnKeeps
<1>13. ASSUME ~hasty PROVE Lit(carousel')
  <2>1. carousel.moving = {} /\ carousel.events = 1 /\ carousel.slid = <<0>>
    BY <1>1, <1>13 DEF CarouselInv, Lit, SlidEvent
  <2>2. carousel' = Handlers[0][s]
    BY <1>8, <2>1, InTurnOne
  <2>3. carousel' = [s EXCEPT !.indicator = ActiveIndex(s)]
    BY <1>7, <1>9, <1>10, <2>2
  <2>4. s.active = {ActiveIndex(s)}
    BY <1>7, ActiveIs DEF Turns
  <2>5. /\ carousel'.active = {carousel'.indicator} /\ carousel'.moving = {}
        /\ carousel'.events = 0 /\ carousel'.slid = <<>>
    BY <1>2, <1>6, <2>1, <2>3, <2>4 DEF CarouselStates
  <2>. QED BY <2>5 DEF Lit
<1>. QED BY <1>12, <1>13

LEMMA CarouselStep == CarouselInv /\ [Next]_vars => CarouselInv'
<1>. SUFFICES ASSUME CarouselInv, [Next]_vars PROVE CarouselInv'
  OBVIOUS
<1>1. TransitionTypeOK' /\ hasty' = hasty
  BY UserType, SameUser DEF CarouselInv
<1>2. ASSUME carousel' \in Turns /\ (~hasty => Lit(carousel')), wrap' = wrap
      PROVE  CarouselInv'
  BY <1>1, <1>2 DEF CarouselInv, Lit
<1>3. CASE UNCHANGED carouselVars
  BY <1>2, <1>3 DEF carouselVars, CarouselInv
<1>4. CASE UseCarousel
  <2>1. wrap' = wrap
    BY <1>4 DEF UseCarousel, Ride, Hover, Tick, Control, Indicate
  <2>. QED BY <1>2, <1>4, <2>1, CarouselUser
<1>5. CASE EndCarousel
  <2>1. wrap' = wrap
    BY <1>5 DEF EndCarousel, SlideEnd, SlidEvent
  <2>. QED BY <1>2, <1>5, <2>1, CarouselSlid, CarouselEvent DEF EndCarousel
<1>. QED BY <1>3, <1>4, <1>5
  DEF Next, Use, Ends, vars, Collapsing, Dialog, Tipping, Tabbing, Glowing

(* Exactly one item of the carousel is active and "sliding" tells whether  *)
(* one is on the move, however many handlers wait for 'slid' and whatever  *)
(* they call in turn (slide, next, prev, to): by induction over them.      *)
THEOREM OneItemActive == Spec => []OneActive
<1>1. Init => CarouselInv
  BY CarouselInvInit
<1>2. CarouselInv /\ [Next]_vars => CarouselInv'
  BY CarouselStep
<1>3. CarouselInv => OneActive
  <2>. SUFFICES ASSUME CarouselInv PROVE OneActive
    OBVIOUS
  <2>1. Single(carousel)
    BY DEF CarouselInv, Turns
  <2>2. PICK x \in Positions : carousel.active = {x}
    BY <2>1 DEF Single
  <2>3. Cardinality({x}) = 1
    BY FS_Singleton
  <2>. QED BY <2>1, <2>2, <2>3 DEF Single, OneActive
<1>. QED BY <1>1, <1>2, <1>3, PTL DEF Spec

(* The interval that runs is the one this.interval holds, so that pause    *)
(* and slide can clear it (cycle clears the one before it sets another).   *)
THEOREM IntervalIsHeld == Spec => []OneInterval
<1>1. Init => CarouselInv
  BY CarouselInvInit
<1>2. CarouselInv /\ [Next]_vars => CarouselInv'
  BY CarouselStep
<1>3. CarouselInv => OneInterval
  BY DEF CarouselInv, Turns, Timed, OneInterval
<1>. QED BY <1>1, <1>2, <1>3, PTL DEF Spec

(* For one who waits the indicator that is lit at rest is that of the      *)
(* active item: the handler that slide() leaves for 'slid' is called once  *)
(* before the next slide.                                                  *)
THEOREM IndicatorsTell == Spec => []IndicatorTells
<1>1. Init => CarouselInv
  BY CarouselInvInit
<1>2. CarouselInv /\ [Next]_vars => CarouselInv'
  BY CarouselStep
<1>3. CarouselInv => IndicatorTells
  BY DEF CarouselInv, Lit, IndicatorTells, CarouselRest
<1>. QED BY <1>1, <1>2, <1>3, PTL DEF Spec

-----------------------------------------------------------------------------
(* The modal.  What each of the methods makes of the pair.                 *)
Pairs == {s \in ModalPairs : s.m.drop \in 0..Len(s.d)}

SameListeners(m, n) ==
  /\ n.isShown = m.isShown /\ n.dismiss = m.dismiss /\ n.outside = m.outside
  /\ n.keys = m.keys /\ n.elWaits = m.elWaits

LEMMA ShowElementIs ==
  ASSUME NEW s \in Pairs, animated \in BOOLEAN, NEW u, u = ShowElement(s)
  PROVE  /\ u \in Pairs /\ u.d = s.d /\ SameListeners(s.m, u.m)
         /\ u.m.drop = s.m.drop /\ u.m.bodyOpen = s.m.bodyOpen
         /\ u.m.displayed /\ u.m.in /\ u.m.trap
<1>1. s \in ModalPairs /\ s.m \in ModalStates /\ s.m.dialogWaits \in Seq({"shown"})
  BY DEF Pairs, ModalPairs, ModalStates
<1>2. PICK w : w = IF animated THEN Await(s.m.dialogWaits, "shown") ELSE s.m.dialogWaits
  OBVIOUS
<1>3. w \in Seq({"shown"})
  BY <1>1, <1>2, AwaitAdds
<1>4. PICK m : m = [s.m EXCEPT !.displayed = TRUE, !.in = TRUE, !.trap = TRUE,
                               !.dialogWaits = w]
  OBVIOUS
<1>5. /\ m \in ModalStates /\ SameListeners(s.m, m) /\ m.drop = s.m.drop
      /\ m.bodyOpen = s.m.bodyOpen /\ m.displayed /\ m.in /\ m.trap
  BY <1>1, <1>3, <1>4 DEF ModalStates, SameListeners
<1>6. u = [s EXCEPT !.m = m]
  BY <1>1, <1>2, <1>4 DEF ShowElement, ModalPairs, ModalStates
<1>7. u = [m |-> m, d |-> s.d]
  BY <1>1, <1>6 DEF ModalPairs
<1>. QED BY <1>1, <1>5, <1>7 DEF Pairs, ModalPairs

LEMMA RemovedIs ==
  ASSUME NEW s \in Pairs, NEW u, u = Removed(s)
  PROVE  /\ u \in Pairs /\ SameListeners(s.m, u.m)
         /\ u.m.displayed = s.m.displayed /\ u.m.in = s.m.in /\ u.m.trap = s.m.trap
         /\ ~u.m.bodyOpen /\ u.m.drop = 0
         /\ DOMAIN u.d = DOMAIN s.d
         /\ \A i \in DOMAIN s.d : i # s.m.drop => u.d[i] = s.d[i]
         /\ s.m.drop # 0 => ~u.d[s.m.drop].inBody /\ u.d[s.m.drop].waits = <<>>
<1>1. s.m \in ModalStates /\ s.d \in Seq(Backdrops) /\ s.m.drop \in 0..Len(s.d)
  BY DEF Pairs, ModalPairs
<1>2. PICK m : m = [s.m EXCEPT !.drop = 0, !.bodyOpen = FALSE]
  OBVIOUS
<1>3. /\ m \in ModalStates /\ SameListeners(s.m, m) /\ m.drop = 0 /\ ~m.bodyOpen
      /\ m.displayed = s.m.displayed /\ m.in = s.m.in /\ m.trap = s.m.trap
  BY <1>1, <1>2 DEF ModalStates, SameListeners
<1>4. PICK b : b = [inBody |-> FALSE, waits |-> <<>>]
  OBVIOUS
<1>5. <<>> \in Seq({"showElement", "remove"})
  BY EmptySeq
<1>6. b \in Backdrops /\ ~b.inBody /\ b.waits = <<>>
  BY <1>4, <1>5 DEF Backdrops
<1>7. PICK d : d = IF s.m.drop = 0 THEN s.d ELSE [s.d EXCEPT ![s.m.drop] = b]
  OBVIOUS
<1>8. /\ d \in Seq(Backdrops) /\ Len(d) = Len(s.d) /\ DOMAIN d = DOMAIN s.d
      /\ \A i \in DOMAIN s.d : i # s.m.drop => d[i] = s.d[i]
      /\ s.m.drop # 0 => d[s.m.drop] = b
  <2>1. DOMAIN s.d = 1..Len(s.d) /\ Len(s.d) \in Nat
    BY <1>1, LenProperties
  <2>2. CASE s.m.drop = 0
    BY <1>1, <1>7, <2>2
  <2>3. CASE s.m.drop # 0
    <3>1. s.m.drop \in 1..Len(s.d)
      BY <1>1, <2>3
    <3>2. d = [s.d EXCEPT ![s.m.drop] = b]
      BY <1>7, <2>3
    <3>. QED BY <1>1, <1>6, <2>1, <3>1, <3>2, ExceptSeq
  <2>. QED BY <2>2, <2>3
<1>9. u = [m |-> m, d |-> d]
  BY <1>2, <1>4, <1>7 DEF Removed
<1>10. u.m = m /\ u.d = d
  BY <1>9
<1>11. u \in Pairs
  BY <1>3, <1>8, <1>9 DEF Pairs, ModalPairs
<1>. QED BY <1>3, <1>6, <1>8, <1>10, <1>11

LEMMA WaitsAt ==
  ASSUME NEW s \in Pairs, NEW k \in 1..Len(s.d), NEW w \in Seq({"showElement", "remove"}),
         NEW u, u = [s EXCEPT !.d[k].waits = w]
  PROVE  /\ u \in Pairs /\ u.m = s.m /\ DOMAIN u.d = DOMAIN s.d
         /\ \A i \in DOMAIN s.d : i # k => u.d[i] = s.d[i]
         /\ u.d[k].inBody = s.d[k].inBody /\ u.d[k].waits = w
<1>1. s.m \in ModalStates /\ s.d \in Seq(Backdrops) /\ s.m.drop \in 0..Len(s.d)
  BY DEF Pairs, ModalPairs
<1>2. s.d[k] \in Backdrops
  BY <1>1, ElementOfSeq
<1>3. PICK b : b = [s.d[k] EXCEPT !.waits = w]
  OBVIOUS
<1>4. b \in Backdrops /\ b.inBody = s.d[k].inBody /\ b.waits = w
  BY <1>2, <1>3 DEF Backdrops
<1>5. PICK d : d = [s.d EXCEPT ![k] = b]
  OBVIOUS
<1>6. /\ d \in Seq(Backdrops) /\ Len(d) = Len(s.d) /\ DOMAIN d = DOMAIN s.d /\ d[k] = b
      /\ \A i \in DOMAIN s.d : i # k => d[i] = s.d[i]
  BY <1>1, <1>4, <1>5, ExceptSeq, LenProperties
<1>7. u = [m |-> s.m, d |-> d]
  BY <1>3, <1>5 DEF Pairs, ModalPairs
<1>8. u.m = s.m /\ u.d = d
  BY <1>7
<1>9. u \in Pairs
  <2>1. u \in ModalPairs
    <3>1. PICK m \in ModalStates : m = s.m
      BY <1>1
    <3>2. [m |-> m, d |-> d] \in ModalPairs
      BY <1>6 DEF ModalPairs
    <3>. QED BY <1>7, <3>1, <3>2
  <2>2. u.m.drop \in 0..Len(u.d)
    BY <1>1, <1>6, <1>8
  <2>. QED BY <2>1, <2>2 DEF Pairs
<1>. QED BY <1>4, <1>6, <1>8, <1>9

(* backdrop() appends a new backdrop, if there is to be one, and lets the  *)
(* current one, if there is one, fade.                                     *)
Covered(s, t) ==
  /\ t.m.drop = Len(s.d) + 1
  /\ t.m.isShown = s.m.isShown /\ t.m.dismiss = s.m.dismiss /\ t.m.keys = s.m.keys
  /\ t.m.elWaits = s.m.elWaits /\ t.m.displayed = s.m.displayed /\ t.m.in = s.m.in
  /\ t.m.trap = s.m.trap /\ t.m.bodyOpen = s.m.bodyOpen
  /\ DOMAIN t.d = DOMAIN s.d \cup {t.m.drop}
  /\ \A i \in DOMAIN s.d : i # t.m.drop /\ t.d[i] = s.d[i]
  /\ t.d[t.m.drop].inBody /\ t.d[t.m.drop].waits = <<>>

Fading(t, u, fn) ==
  /\ u.m = t.m /\ DOMAIN u.d = DOMAIN t.d
  /\ \A i \in DOMAIN t.d : i # t.m.drop => u.d[i] = t.d[i]
  /\ u.d[t.m.drop].inBody = t.d[t.m.drop].inBody
  /\ u.d[t.m.drop].waits = Await(t.d[t.m.drop].waits, fn)

Covers(s) == s.m.isShown /\ options.backdrop # "false"

LEMMA CoveredIs ==
  ASSUME NEW s \in Pairs,
         NEW t, t = [m |-> [s.m EXCEPT !.drop = Len(s.d) + 1, !.outside = TRUE],
                     d |-> Append(s.d, [inBody |-> TRUE, waits |-> <<>>])]
  PROVE  t \in Pairs /\ Covered(s, t)
<1>1. s.m \in ModalStates /\ s.d \in Seq(Backdrops)
  BY DEF Pairs, ModalPairs
<1>2. PICK n : n = Len(s.d) + 1
  OBVIOUS
<1>3. n \in Nat /\ DOMAIN s.d = 1..Len(s.d) /\ Len(s.d) \in Nat
  BY <1>1, <1>2, LenProperties
<1>4. PICK m : m = [s.m EXCEPT !.drop = n, !.outside = TRUE]
  OBVIOUS
<1>5. /\ m \in ModalStates /\ m.drop = n /\ m.isShown = s.m.isShown
      /\ m.dismiss = s.m.dismiss /\ m.keys = s.m.keys /\ m.elWaits = s.m.elWaits
      /\ m.displayed = s.m.displayed /\ m.in = s.m.in /\ m.trap = s.m.trap
      /\ m.bodyOpen = s.m.bodyOpen
  BY <1>1, <1>3, <1>4 DEF ModalStates
<1>6. PICK b : b = [inBody |-> TRUE, waits |-> <<>>]
  OBVIOUS
<1>7. <<>> \in Seq({"showElement", "remove"})
  BY EmptySeq
<1>8. b \in Backdrops /\ b.inBody /\ b.waits = <<>>
  BY <1>6, <1>7 DEF Backdrops
<1>9. PICK d : d = Append(s.d, b)
  OBVIOUS
<1>10. /\ d \in Seq(Backdrops) /\ Len(d) = n /\ d[n] = b
       /\ \A i \in 1..Len(s.d) : d[i] = s.d[i]
  BY <1>1, <1>2, <1>8, <1>9, AppendProperties
<1>11. t = [m |-> m, d |-> d]
  BY <1>2, <1>4, <1>6, <1>9
<1>12. t.m = m /\ t.d = d
  BY <1>11
<1>13. DOMAIN d = 1..n
  BY <1>10, LenProperties
<1>14. 1..n = 1..Len(s.d) \cup {n} /\ \A i \in 1..Len(s.d) : i # n
  BY <1>2, <1>3
<1>15. t \in ModalPairs
  <2>1. [m |-> m, d |-> d] \in ModalPairs
    BY <1>5, <1>10 DEF ModalPairs
  <2>. QED BY <1>11, <2>1
<1>16. t.m.drop \in 0..Len(t.d)
  BY <1>3, <1>5, <1>10, <1>12
<1>17. Covered(s, t)
  BY <1>2, <1>3, <1>5, <1>8, <1>10, <1>12, <1>13, <1>14 DEF Covered
<1>. QED BY <1>15, <1>16, <1>17 DEF Pairs

LEMMA BackdropIs ==
  ASSUME NEW s \in Pairs, animated \in BOOLEAN, NEW fn \in {"showElement", "remove"},
         NEW u, u = Backdrop(s, fn)
  PROVE  \E t \in Pairs :
           /\ IF Covers(s) THEN Covered(s, t) ELSE t = s
           /\ \/ /\ animated /\ t.m.drop # 0 /\ (Covers(s) \/ ~s.m.isShown)
                 /\ u \in Pairs /\ Fading(t, u, fn)
              \/ /\ ~animated \/ t.m.drop = 0 \/ (s.m.isShown /\ ~Covers(s))
                 /\ u = Callback(t, fn)
<1>1. s.m \in ModalStates /\ s.d \in Seq(Backdrops) /\ s.m.drop \in 0..Len(s.d)
  BY DEF Pairs, ModalPairs
<1>2. PICK n : n = Len(s.d) + 1
  OBVIOUS
<1>3. PICK t : t = IF Covers(s)
                   THEN [m |-> [s.m EXCEPT !.drop = n, !.outside = TRUE],
                         d |-> Append(s.d, [inBody |-> TRUE, waits |-> <<>>])]
                   ELSE s
  OBVIOUS
<1>4. t \in Pairs /\ IF Covers(s) THEN Covered(s, t) ELSE t = s
  BY <1>2, <1>3, CoveredIs
<1>. DEFINE fades == animated /\ t.m.drop # 0 /\ (s.m.isShown => t.m.drop = n)
<1>5. u = IF fades THEN [t EXCEPT !.d[t.m.drop].waits = Await(@, fn)] ELSE Callback(t, fn)
  <2>1. u = LET new == Len(s.d) + 1
                r == IF Covers(s)
                     THEN [m |-> [s.m EXCEPT !.drop = new, !.outside = TRUE],
                           d |-> Append(s.d, [inBody |-> TRUE, waits |-> <<>>])]
                     ELSE s
                f == animated /\ r.m.drop # 0 /\ (s.m.isShown => r.m.drop = new)
            IN IF f THEN [r EXCEPT !.d[r.m.drop].waits = Await(@, fn)] ELSE Callback(r, fn)
    BY Zenon DEF Backdrop, Covers
  <2>. QED
    BY <2>1, <1>2, <1>3, Zenon
<1>6. fades <=> animated /\ t.m.drop # 0 /\ (Covers(s) \/ ~s.m.isShown)
  <2>1. Len(s.d) \in Nat
    BY <1>1, LenProperties
  <2>2. s.m.drop # n
    BY <1>1, <1>2, <2>1
  <2>3. Covers(s) => t.m.drop = n
    BY <1>2, <1>4 DEF Covered
  <2>4. ~Covers(s) => t.m.drop # n
    BY <1>4, <2>2
  <2>. QED BY <2>3, <2>4 DEF Covers
<1>. HIDE DEF fades
<1>7. CASE fades
  <2>1. t.d \in Seq(Backdrops) /\ t.m.drop \in 1..Len(t.d)
    BY <1>4, <1>6, <1>7, LenProperties DEF Pairs, ModalPairs
  <2>2. t.d[t.m.drop].waits \in Seq({"showElement", "remove"})
    <3>1. t.d[t.m.drop] \in Backdrops
      BY <2>1, ElementOfSeq
    <3>. QED BY <3>1 DEF Backdrops
  <2>3. PICK w : w = Await(t.d[t.m.drop].waits, fn)
    OBVIOUS
  <2>4. w \in Seq({"showElement", "remove"})
    BY <2>2, <2>3, AwaitAdds
  <2>5. u = [t EXCEPT !.d[t.m.drop].waits = w]
    BY <1>5, <1>7, <2>3
  <2>6. u \in Pairs /\ Fading(t, u, fn)
    <3>1. PICK k \in 1..Len(t.d) : k = t.m.drop
      BY <2>1
    <3>2. u = [t EXCEPT !.d[k].waits = w]
      BY <2>5, <3>1
    <3>3. /\ u \in Pairs /\ u.m = t.m /\ DOMAIN u.d = DOMAIN t.d
          /\ \A i \in DOMAIN t.d : i # k => u.d[i] = t.d[i]
          /\ u.d[k].inBody = t.d[k].inBody /\ u.d[k].waits = w
      BY <1>4, <2>4, <3>2, WaitsAt
    <3>. QED BY <2>3, <3>1, <3>3 DEF Fading
  <2>. QED BY <1>4, <1>6, <1>7, <2>6
<1>8. CASE ~fades
  BY <1>4, <1>5, <1>6, <1>8 DEF Covers
<1>. QED BY <1>7, <1>8

LEMMA CallbackKeeps ==
  ASSUME NEW s \in Pairs, animated \in BOOLEAN, NEW fn PROVE Callback(s, fn) \in Pairs
  BY ShowElementIs, RemovedIs DEF Callback

LEMMA BackdropKeeps ==
  ASSUME NEW s \in Pairs, animated \in BOOLEAN, NEW fn \in {"showElement", "remove"}
  PROVE  Backdrop(s, fn) \in Pairs
  BY BackdropIs, CallbackKeeps

(* show() before it calls backdrop(): the listeners.                       *)
LEMMA ShowModalIs ==
  ASSUME NEW s \in Pairs, options.keyboard \in BOOLEAN, ~s.m.isShown
  PROVE  \E h \in Pairs :
           /\ ShowModal(s) = Backdrop(h, "showElement")
           /\ h.m.isShown /\ h.m.dismiss /\ h.m.bodyOpen
           /\ h.m.keys = (s.m.keys \/ options.keyboard)
           /\ h.m.displayed = s.m.displayed /\ h.m.in = s.m.in /\ h.m.trap = s.m.trap
           /\ h.m.drop = s.m.drop /\ h.m.elWaits = s.m.elWaits /\ h.d = s.d
<1>1. s \in ModalPairs /\ s.m \in ModalStates /\ s.d \in Seq(Backdrops) /\ s.m.drop \in 0..Len(s.d)
  BY DEF Pairs, ModalPairs
<1>2. PICK k \in BOOLEAN : k = (s.m.keys \/ options.keyboard)
  OBVIOUS
<1>3. PICK m : m = [s.m EXCEPT !.bodyOpen = TRUE, !.isShown = TRUE, !.dismiss = TRUE,
                               !.keys = s.m.keys \/ options.keyboard]
  OBVIOUS
<1>4. /\ m \in ModalStates /\ m.isShown /\ m.dismiss /\ m.bodyOpen /\ m.keys = k
      /\ m.displayed = s.m.displayed /\ m.in = s.m.in /\ m.trap = s.m.trap
      /\ m.drop = s.m.drop /\ m.elWaits = s.m.elWaits
  BY <1>1, <1>2, <1>3 DEF ModalStates
<1>5. PICK h : h = [m |-> m, d |-> s.d]
  OBVIOUS
<1>6. h.m = m /\ h.d = s.d
  BY <1>5
<1>7. h \in Pairs
  <2>1. h \in ModalPairs
    BY <1>1, <1>4, <1>5 DEF ModalPairs
  <2>. QED BY <1>1, <1>4, <1>6, <2>1 DEF Pairs
<1>8. h = [s EXCEPT !.m = m]
  BY <1>1, <1>5 DEF ModalPairs
<1>9. ShowModal(s) = Backdrop(h, "showElement")
  BY <1>3, <1>8 DEF ShowModal
<1>. QED BY <1>2, <1>4, <1>6, <1>7, <1>9

(* hide() before it waits or calls hideModal(): no listener is left.       *)
Off(m) == ~m.isShown /\ ~m.in /\ ~m.trap /\ ~m.dismiss /\ ~m.outside /\ ~m.keys

LEMMA HideModalIs ==
  ASSUME NEW s \in Pairs, s.m.isShown, animated \in BOOLEAN
  PROVE  \E h \in Pairs :
           /\ HideModal(s) = IF animated THEN h ELSE HideElement(h)
           /\ Off(h.m) /\ h.m.displayed = s.m.displayed /\ h.m.bodyOpen = s.m.bodyOpen
           /\ h.m.elWaits = IF animated THEN Await(s.m.elWaits, "hideModal") ELSE s.m.elWaits
           /\ h.m.drop = s.m.drop /\ h.d = s.d
<1>1. s \in ModalPairs /\ s.m \in ModalStates /\ s.d \in Seq(Backdrops) /\ s.m.drop \in 0..Len(s.d)
  BY DEF Pairs, ModalPairs
<1>2. PICK w : w = IF animated THEN Await(s.m.elWaits, "hideModal") ELSE s.m.elWaits
  OBVIOUS
<1>3. s.m.elWaits \in Seq({"hideModal"})
  BY <1>1 DEF ModalStates
<1>4. w \in Seq({"hideModal"})
  BY <1>2, <1>3, AwaitAdds
<1>5. PICK n : n = [s.m EXCEPT !.isShown = FALSE, !.keys = FALSE, !.trap = FALSE,
                               !.in = FALSE, !.dismiss = FALSE, !.outside = FALSE]
  OBVIOUS
<1>6. /\ n \in ModalStates /\ Off(n) /\ n.displayed = s.m.displayed
      /\ n.bodyOpen = s.m.bodyOpen /\ n.elWaits = s.m.elWaits /\ n.drop = s.m.drop
  BY <1>1, <1>5 DEF ModalStates, Off
<1>7. PICK m : m = [n EXCEPT !.elWaits = w]
  OBVIOUS
<1>8. /\ m \in ModalStates /\ Off(m) /\ m.displayed = s.m.displayed
      /\ m.bodyOpen = s.m.bodyOpen /\ m.elWaits = w /\ m.drop = s.m.drop
  BY <1>4, <1>6, <1>7 DEF ModalStates, Off
<1>9. PICK g : g = [m |-> n, d |-> s.d]
  OBVIOUS
<1>10. g = [s EXCEPT !.m = [s.m EXCEPT !.isShown = FALSE, !.keys = FALSE, !.trap = FALSE,
                                       !.in = FALSE, !.dismiss = FALSE, !.outside = FALSE]]
  <2>1. g = [s EXCEPT !.m = n]
    BY <1>1, <1>9 DEF ModalPairs
  <2>. QED BY <1>5, <2>1
<1>11. PICK h : h = [m |-> m, d |-> s.d]
  OBVIOUS
<1>12. h.m = m /\ h.d = s.d
  BY <1>11
<1>13. h \in Pairs
  <2>1. h \in ModalPairs
    BY <1>1, <1>8, <1>11 DEF ModalPairs
  <2>. QED BY <1>1, <1>8, <1>12, <2>1 DEF Pairs
<1>14. CASE animated
  <2>1. h = [g EXCEPT !.m.elWaits = w]
    BY <1>7, <1>9, <1>11
  <2>2. g.m.elWaits = s.m.elWaits
    BY <1>6, <1>9
  <2>3. HideModal(s) = h
    BY <1>2, <1>10, <1>14, <2>1, <2>2 DEF HideModal
  <2>. QED BY <1>2, <1>8, <1>12, <1>13, <1>14, <2>3
<1>15. CASE ~animated
  <2>1. w = n.elWaits
    BY <1>2, <1>6, <1>15
  <2>2. m = n
    BY <1>6, <1>7, <2>1 DEF ModalStates
  <2>3. HideModal(s) = HideElement(h)
    BY <1>9, <1>10, <1>11, <1>15, <2>2 DEF HideModal
  <2>. QED BY <1>2, <1>8, <1>12, <1>13, <1>15, <2>3
<1>. QED BY <1>14, <1>15

(* For one who does not reach under it, the modal goes through five phases,*)
(* in each of which one callback at most waits, and no backdrop but the    *)
(* current one is left in the page.                                        *)
On(m) ==
  m.isShown /\ m.dismiss /\ m.bodyOpen /\ m.keys = options.keyboard /\ m.elWaits = <<>>

Behind(s, waits) ==
  IF options.backdrop = "false" THEN s.m.drop = 0
  ELSE s.m.drop \in DOMAIN s.d /\ s.d[s.m.drop].inBody /\ s.d[s.m.drop].waits = waits

Others(s) ==
  \A i \in DOMAIN s.d : i # s.m.drop => ~s.d[i].inBody /\ s.d[i].waits = <<>>

Closed(s) ==
  Off(s.m) /\ ~s.m.displayed /\ ~s.m.bodyOpen /\ s.m.drop = 0 /\ s.m.elWaits = <<>>

Opening(s) ==
  /\ On(s.m) /\ ~s.m.displayed /\ ~s.m.in /\ ~s.m.trap
  /\ options.backdrop # "false" /\ Behind(s, <<"showElement">>)

Opened(s) == On(s.m) /\ s.m.displayed /\ s.m.in /\ s.m.trap /\ Behind(s, <<>>)

Hiding(s) ==
  /\ Off(s.m) /\ s.m.displayed /\ s.m.bodyOpen /\ s.m.elWaits = <<"hideModal">>
  /\ Behind(s, <<>>)

Vanishing(s) ==
  /\ Off(s.m) /\ ~s.m.displayed /\ s.m.bodyOpen /\ s.m.elWaits = <<>>
  /\ options.backdrop # "false" /\ Behind(s, <<"remove">>)

Phase(s) ==
  /\ Others(s)
  /\ Closed(s) \/ Opening(s) \/ Opened(s) \/ Hiding(s) \/ Vanishing(s)

LEMMA ElementAppears ==
  ASSUME NEW s \in Pairs, animated \in BOOLEAN, On(s.m), Behind(s, <<>>), Others(s)
  PROVE  Phase(Callback(s, "showElement"))
<1>1. PICK u : u = ShowElement(s)
  OBVIOUS
<1>2. /\ u.d = s.d /\ SameListeners(s.m, u.m) /\ u.m.drop = s.m.drop
      /\ u.m.bodyOpen = s.m.bodyOpen /\ u.m.displayed /\ u.m.in /\ u.m.trap
  BY <1>1, ShowElementIs
<1>3. Callback(s, "showElement") = u
  BY <1>1 DEF Callback
<1>4. Others(u) /\ Behind(u, <<>>)
  BY <1>2 DEF Others, Behind
<1>5. Opened(u)
  BY <1>2, <1>4 DEF Opened, On, SameListeners
<1>. QED BY <1>3, <1>4, <1>5 DEF Phase

LEMMA BackdropGoes ==
  ASSUME NEW s \in Pairs, Off(s.m), ~s.m.displayed, s.m.elWaits = <<>>, Others(s)
  PROVE  Phase(Callback(s, "remove"))
<1>1. PICK u : u = Removed(s)
  OBVIOUS
<1>2. /\ SameListeners(s.m, u.m) /\ u.m.displayed = s.m.displayed
      /\ u.m.in = s.m.in /\ u.m.trap = s.m.trap /\ ~u.m.bodyOpen /\ u.m.drop = 0
      /\ DOMAIN u.d = DOMAIN s.d
      /\ \A i \in DOMAIN s.d : i # s.m.drop => u.d[i] = s.d[i]
      /\ s.m.drop # 0 => ~u.d[s.m.drop].inBody /\ u.d[s.m.drop].waits = <<>>
  BY <1>1, RemovedIs
<1>3. Callback(s, "remove") = u
  BY <1>1 DEF Callback
<1>4. \A i \in DOMAIN s.d : i # 0
  BY LenProperties DEF Pairs, ModalPairs
<1>5. Others(u)
  BY <1>2, <1>4 DEF Others
<1>6. Closed(u)
  BY <1>2 DEF Closed, Off, SameListeners
<1>. QED BY <1>3, <1>5, <1>6 DEF Phase

LEMMA ShowPhase ==
  ASSUME NEW s \in Pairs, animated \in BOOLEAN, options.keyboard \in BOOLEAN,
         Closed(s), Others(s)
  PROVE  Phase(ShowModal(s))
<1>1. PICK h \in Pairs :
        /\ ShowModal(s) = Backdrop(h, "showElement")
        /\ h.m.isShown /\ h.m.dismiss /\ h.m.bodyOpen
        /\ h.m.keys = (s.m.keys \/ options.keyboard)
        /\ h.m.displayed = s.m.displayed /\ h.m.in = s.m.in /\ h.m.trap = s.m.trap
        /\ h.m.drop = s.m.drop /\ h.m.elWaits = s.m.elWaits /\ h.d = s.d
  BY ShowModalIs DEF Closed, Off
<1>2. /\ On(h.m) /\ ~h.m.displayed /\ ~h.m.in /\ ~h.m.trap /\ h.m.drop = 0 /\ Others(h)
  BY <1>1 DEF Closed, Off, On, Others
<1>3. PICK u : u = Backdrop(h, "showElement")
  OBVIOUS
<1>4. PICK t \in Pairs :
        /\ IF Covers(h) THEN Covered(h, t) ELSE t = h
        /\ \/ /\ animated /\ t.m.drop # 0 /\ (Covers(h) \/ ~h.m.isShown)
              /\ u \in Pairs /\ Fading(t, u, "showElement")
           \/ /\ ~animated \/ t.m.drop = 0 \/ (h.m.isShown /\ ~Covers(h))
              /\ u = Callback(t, "showElement")
  BY <1>3, BackdropIs
<1>5. Covers(h) <=> options.backdrop # "false"
  BY <1>2 DEF Covers, On
<1>6. \A i \in DOMAIN h.d : ~h.d[i].inBody /\ h.d[i].waits = <<>>
  <2>1. \A i \in DOMAIN h.d : i # 0
    BY LenProperties DEF Pairs, ModalPairs
  <2>. QED BY <1>2, <2>1 DEF Others
<1>7. On(t.m) /\ Others(t) /\ ~t.m.displayed /\ ~t.m.in /\ ~t.m.trap
  <2>1. CASE Covered(h, t)
    <3>1. \A i \in DOMAIN t.d : i # t.m.drop => i \in DOMAIN h.d /\ t.d[i] = h.d[i]
      BY <2>1 DEF Covered
    <3>2. Others(t)
      BY <1>6, <3>1 DEF Others
    <3>. QED BY <1>2, <2>1, <3>2 DEF On, Covered
  <2>2. CASE t = h
    BY <1>2, <2>2
  <2>. QED BY <1>4, <2>1, <2>2
<1>8. Behind(t, <<>>)
  BY <1>2, <1>4, <1>5 DEF Behind, Covered
<1>9. CASE u = Callback(t, "showElement")
  BY <1>1, <1>3, <1>7, <1>8, <1>9, ElementAppears
<1>10. CASE Covers(h) /\ Fading(t, u, "showElement")
  <2>1. t.d[t.m.drop].waits = <<>> /\ t.d[t.m.drop].inBody /\ t.m.drop \in DOMAIN t.d
    BY <1>4, <1>10 DEF Covered
  <2>2. u.d[u.m.drop].waits = <<"showElement">>
    BY <1>10, <2>1, AwaitFirst DEF Fading
  <2>3. Others(u) /\ Behind(u, <<"showElement">>)
    <3>1. u.m = t.m /\ \A i \in DOMAIN u.d : i # u.m.drop => i \in DOMAIN t.d /\ u.d[i] = t.d[i]
      BY <1>10 DEF Fading
    <3>2. Others(u)
      BY <1>7, <3>1 DEF Others
    <3>3. u.m.drop \in DOMAIN u.d /\ u.d[u.m.drop].inBody
      BY <1>10, <2>1 DEF Fading
    <3>. QED BY <1>5, <1>10, <2>2, <3>2, <3>3 DEF Behind
  <2>4. Opening(u)
    BY <1>5, <1>7, <1>10, <2>3 DEF Opening, Fading
  <2>. QED BY <1>1, <1>3, <2>3, <2>4 DEF Phase
<1>. QED BY <1>2, <1>4, <1>9, <1>10 DEF On

LEMMA HideElementIs ==
  ASSUME NEW s \in Pairs
  PROVE  \E h \in Pairs :
           /\ HideElement(s) = Backdrop(h, "remove")
           /\ ~h.m.displayed /\ SameListeners(s.m, h.m) /\ h.m.in = s.m.in
           /\ h.m.trap = s.m.trap /\ h.m.bodyOpen = s.m.bodyOpen
           /\ h.m.drop = s.m.drop /\ h.d = s.d
<1>1. s \in ModalPairs /\ s.m \in ModalStates /\ s.d \in Seq(Backdrops) /\ s.m.drop \in 0..Len(s.d)
  BY DEF Pairs, ModalPairs
<1>2. PICK m : m = [s.m EXCEPT !.displayed = FALSE]
  OBVIOUS
<1>3. /\ m \in ModalStates /\ ~m.displayed /\ SameListeners(s.m, m) /\ m.in = s.m.in
      /\ m.trap = s.m.trap /\ m.bodyOpen = s.m.bodyOpen /\ m.drop = s.m.drop
  BY <1>1, <1>2 DEF ModalStates, SameListeners
<1>4. PICK h : h = [m |-> m, d |-> s.d]
  OBVIOUS
<1>5. h.m = m /\ h.d = s.d
  BY <1>4
<1>6. h \in Pairs
  <2>1. h \in ModalPairs
    BY <1>1, <1>3, <1>4 DEF ModalPairs
  <2>. QED BY <1>1, <1>3, <1>5, <2>1 DEF Pairs
<1>7. h = [s EXCEPT !.m.displayed = FALSE]
  <2>1. h = [s EXCEPT !.m = m]
    BY <1>1, <1>4 DEF ModalPairs
  <2>. QED BY <1>2, <2>1
<1>8. HideElement(s) = Backdrop(h, "remove")
  BY <1>7 DEF HideElement
<1>. QED BY <1>3, <1>5, <1>6, <1>8

LEMMA HideElementPhase ==
  ASSUME NEW s \in Pairs, animated \in BOOLEAN, Off(s.m), s.m.bodyOpen, s.m.elWaits = <<>>,
         Behind(s, <<>>), Others(s)
  PROVE  Phase(HideElement(s))
<1>1. PICK h \in Pairs :
        /\ HideElement(s) = Backdrop(h, "remove")
        /\ ~h.m.displayed /\ SameListeners(s.m, h.m) /\ h.m.in = s.m.in
        /\ h.m.trap = s.m.trap /\ h.m.bodyOpen = s.m.bodyOpen
        /\ h.m.drop = s.m.drop /\ h.d = s.d
  BY HideElementIs
<1>2. /\ Off(h.m) /\ ~h.m.displayed /\ h.m.bodyOpen /\ h.m.elWaits = <<>>
      /\ Behind(h, <<>>) /\ Others(h)
  BY <1>1 DEF Off, SameListeners, Behind, Others
<1>3. PICK u : u = Backdrop(h, "remove")
  OBVIOUS
<1>4. \/ h.m.drop # 0 /\ Fading(h, u, "remove")
      \/ u = Callback(h, "remove")
  BY <1>2, <1>3, BackdropIs DEF Covers, Off
<1>5. CASE u = Callback(h, "remove")
  BY <1>1, <1>2, <1>3, <1>5, BackdropGoes
<1>6. CASE h.m.drop # 0 /\ Fading(h, u, "remove")
  <2>1. /\ options.backdrop # "false" /\ h.m.drop \in DOMAIN h.d
        /\ h.d[h.m.drop].inBody /\ h.d[h.m.drop].waits = <<>>
    BY <1>2, <1>6 DEF Behind
  <2>2. u.d[u.m.drop].waits = <<"remove">>
    BY <1>6, <2>1, AwaitFirst DEF Fading
  <2>3. u.m = h.m /\ \A i \in DOMAIN u.d : i # u.m.drop => i \in DOMAIN h.d /\ u.d[i] = h.d[i]
    BY <1>6 DEF Fading
  <2>4. Others(u)
    BY <1>2, <2>3 DEF Others
  <2>5. u.m.drop \in DOMAIN u.d /\ u.d[u.m.drop].inBody
    BY <1>6, <2>1 DEF Fading
  <2>6. Behind(u, <<"remove">>)
    BY <2>1, <2>2, <2>5 DEF Behind
  <2>7. Vanishing(u)
    BY <1>2, <2>1, <2>3, <2>6 DEF Vanishing
  <2>. QED BY <1>1, <1>3, <2>4, <2>7 DEF Phase
<1>. QED BY <1>4, <1>5, <1>6

LEMMA HidePhase ==
  ASSUME NEW s \in Pairs, animated \in BOOLEAN, Opened(s), Others(s)
  PROVE  Phase(HideModal(s))
<1>1. PICK h \in Pairs :
        /\ HideModal(s) = IF animated THEN h ELSE HideElement(h)
        /\ Off(h.m) /\ h.m.displayed = s.m.displayed /\ h.m.bodyOpen = s.m.bodyOpen
        /\ h.m.elWaits = IF animated THEN Await(s.m.elWaits, "hideModal") ELSE s.m.elWaits
        /\ h.m.drop = s.m.drop /\ h.d = s.d
  BY HideModalIs DEF Opened, On
<1>2. h.m.displayed /\ h.m.bodyOpen /\ Behind(h, <<>>) /\ Others(h) /\ s.m.elWaits = <<>>
  BY <1>1 DEF Opened, On, Behind, Others
<1>3. CASE animated
  <2>1. h.m.elWaits = <<"hideModal">>
    BY <1>1, <1>2, <1>3, AwaitFirst
  <2>2. Hiding(h)
    BY <1>1, <1>2, <2>1 DEF Hiding
  <2>. QED BY <1>1, <1>2, <1>3, <2>2 DEF Phase
<1>4. CASE ~animated
  BY <1>1, <1>2, <1>4, HideElementPhase
<1>. QED BY <1>3, <1>4

LEMMA HideElementKeeps ==
  ASSUME NEW s \in Pairs, animated \in BOOLEAN PROVE HideElement(s) \in Pairs
  BY HideElementIs, BackdropKeeps

LEMMA ToggleKeeps ==
  ASSUME NEW s \in Pairs, animated \in BOOLEAN, options.keyboard \in BOOLEAN
  PROVE  /\ HideModal(s) \in Pairs
         /\ ~s.m.isShown => ShowModal(s) \in Pairs
<1>1. HideModal(s) \in Pairs
  <2>1. CASE s.m.isShown
    BY <2>1, HideModalIs, HideElementKeeps
  <2>2. CASE ~s.m.isShown
    BY <2>2 DEF HideModal
  <2>. QED BY <2>1, <2>2
<1>2. ~s.m.isShown => ShowModal(s) \in Pairs
  BY ShowModalIs, BackdropKeeps
<1>. QED BY <1>1, <1>2

(* The end of a transition of the element, for all its callbacks in turn.  *)
LEMMA FireIs ==
  ASSUME NEW s \in Pairs, animated \in BOOLEAN, NEW u, u = Fire(s)
  PROVE  u \in Pairs /\ (Phase(s) => Phase(u))
<1>1. s \in ModalPairs /\ s.m \in ModalStates /\ s.d \in Seq(Backdrops) /\ s.m.drop \in 0..Len(s.d)
  BY DEF Pairs, ModalPairs
<1>2. s.m.elWaits \in Seq({"hideModal"}) /\ <<>> \in Seq({"hideModal"})
  BY <1>1, EmptySeq DEF ModalStates
<1>3. PICK m : m = [s.m EXCEPT !.elWaits = <<>>]
  OBVIOUS
<1>4. /\ m \in ModalStates /\ m.elWaits = <<>> /\ m.drop = s.m.drop
      /\ m.bodyOpen = s.m.bodyOpen /\ m.displayed = s.m.displayed
      /\ Off(s.m) => Off(m)
      /\ s.m.elWaits = <<>> => m = s.m
  BY <1>1, <1>2, <1>3 DEF ModalStates, Off
<1>5. PICK h : h = [m |-> m, d |-> s.d]
  OBVIOUS
<1>6. h.m = m /\ h.d = s.d
  BY <1>5
<1>7. h \in Pairs
  <2>1. h \in ModalPairs
    BY <1>1, <1>4, <1>5 DEF ModalPairs
  <2>. QED BY <1>1, <1>4, <1>6, <2>1 DEF Pairs
<1>8. h = [s EXCEPT !.m.elWaits = <<>>]
  BY <1>1, <1>3, <1>5 DEF ModalPairs
<1>9. u = InTurn(ElementCalls, h, s.m.elWaits)
  BY <1>8 DEF Fire
<1>10. \A t \in Pairs : ElementCalls["hideModal"][t] = HideElement(t)
  BY DEF ElementCalls, Pairs
<1>11. \A t \in Pairs, fn \in {"hideModal"} : ElementCalls[fn][t] \in Pairs
  BY <1>10, HideElementKeeps
<1>12. u \in Pairs
  <2>1. PICK F, w : F = {"hideModal"} /\ w = s.m.elWaits
    OBVIOUS
  <2>2. w \in Seq(F) /\ \A t \in Pairs, fn \in F : ElementCalls[fn][t] \in Pairs
    BY <1>2, <1>11, <2>1
  <2>3. InTurn(ElementCalls, h, w) \in Pairs
    BY <1>7, <2>2, InTurnKeeps
  <2>. QED BY <1>9, <2>1, <2>3
<1>13. CASE s.m.elWaits = <<>>
  <2>1. h = s
    BY <1>1, <1>4, <1>5, <1>13 DEF ModalPairs
  <2>2. u = s
    BY <1>9, <1>13, <2>1, InTurnNone
  <2>. QED BY <1>12, <2>2
<1>14. CASE s.m.elWaits # <<>>
  <2>. SUFFICES ASSUME Phase(s) PROVE Phase(u)
    BY <1>12
  <2>1. Hiding(s) /\ Others(s)
    BY <1>14 DEF Phase, Closed, Opening, Opened, Vanishing, On
  <2>2. u = HideElement(h)
    <3>1. s.m.elWaits = <<"hideModal">>
      BY <2>1 DEF Hiding
    <3>2. u = ElementCalls["hideModal"][h]
      BY <1>9, <3>1, InTurnOne
    <3>. QED BY <1>7, <1>10, <3>2
  <2>3. Off(h.m) /\ h.m.bodyOpen /\ Behind(h, <<>>) /\ Others(h)
    BY <1>4, <1>6, <2>1 DEF Hiding, Behind, Others
  <2>. QED BY <1>4, <1>6, <1>7, <2>2, <2>3, HideElementPhase
<1>. QED BY <1>13, <1>14

ModalInv ==
  /\ TransitionTypeOK
  /\ Now \in Pairs /\ options \in [backdrop : {"true", "static", "false"}, keyboard : BOOLEAN]
  /\ ~hasty => Phase(Now)

LEMMA ModalBecomes ==
  ASSUME ModalInv, hasty' = hasty, TransitionTypeOK', NEW u \in Pairs, Becomes(u),
         ~hasty => Phase(u)
  PROVE  ModalInv'
<1>1. u = [m |-> u.m, d |-> u.d]
  BY DEF Pairs, ModalPairs
<1>2. Now' = u /\ options' = options
  BY <1>1 DEF Becomes, Now
<1>3. ~hasty' => Phase(Now)'
  BY <1>2 DEF Phase, Others, Closed, Opening, Opened, Hiding, Vanishing, On, Off, Behind
<1>. QED BY <1>2, <1>3 DEF ModalInv

LEMMA ModalInvInit == Init => ModalInv
<1>. SUFFICES ASSUME Init PROVE ModalInv
  OBVIOUS
<1>1. TransitionTypeOK
  BY ClicksAssumption DEF Init, TransitionInit, TransitionTypeOK
<1>2. /\ modal = [isShown |-> FALSE, displayed |-> FALSE, in |-> FALSE,
                  dismiss |-> FALSE, outside |-> FALSE, keys |-> FALSE,
                  trap |-> FALSE, bodyOpen |-> FALSE, drop |-> 0,
                  elWaits |-> <<>>, dialogWaits |-> <<>>]
      /\ drops = <<>>
      /\ options \in [backdrop : {"true", "static", "false"}, keyboard : BOOLEAN]
  BY DEF Init, ModalInit
<1>3. /\ <<>> \in Seq({"hideModal"}) /\ <<>> \in Seq({"shown"}) /\ <<>> \in Seq(Backdrops)
      /\ Len(<<>>) = 0
  BY EmptySeq
<1>4. modal \in ModalStates /\ drops \in Seq(Backdrops) /\ modal.drop \in 0..Len(drops)
  BY <1>2, <1>3 DEF ModalStates
<1>5. Now.m = modal /\ Now.d = drops /\ Now \in Pairs
  BY <1>4 DEF Now, Pairs, ModalPairs
<1>6. Others(Now) /\ Closed(Now)
  BY <1>2, <1>5 DEF Others, Closed, Off
<1>. QED BY <1>1, <1>2, <1>5, <1>6 DEF ModalInv, Phase

LEMMA ModalUser ==
  ASSUME ModalInv, hasty' = hasty, TransitionTypeOK', UseModal PROVE ModalInv'
<1>1. /\ Now \in Pairs /\ animated \in BOOLEAN /\ options.keyboard \in BOOLEAN
      /\ Now.m = modal /\ Now.d = drops /\ hasty \in BOOLEAN
  BY DEF ModalInv, TransitionTypeOK, Now
<1>2. CASE ClickToggler
  <2>1. ~hasty => Closed(Now) /\ Others(Now)
    <3>1. ASSUME ~hasty PROVE ~modal.displayed /\ \A d \in DOMAIN drops : ~drops[d].inBody
      BY <1>2, <3>1 DEF ClickToggler
    <3>. QED BY <1>1, <3>1 DEF ModalInv, Phase, Opening, Opened, Hiding, Vanishing, Behind
  <2>2. CASE modal.isShown
    <3>1. ~hasty => FALSE
      BY <1>1, <2>1, <2>2 DEF Closed, Off
    <3>2. Becomes(Now)
      BY <1>2, <2>2 DEF ClickToggler
    <3>. QED BY <1>1, <3>1, <3>2, ModalBecomes
  <2>3. CASE ~modal.isShown
    <3>1. Becomes(ShowModal(Now))
      BY <1>2, <2>3 DEF ClickToggler
    <3>2. ShowModal(Now) \in Pairs
      BY <1>1, <2>3, ToggleKeeps
    <3>3. ~hasty => Phase(ShowModal(Now))
      BY <1>1, <2>1, ShowPhase
    <3>. QED BY <3>1, <3>2, <3>3, ModalBecomes
  <2>. QED BY <2>2, <2>3
<1>3. CASE Dismiss
  <2>1. Becomes(HideModal(Now)) /\ HideModal(Now) \in Pairs
    BY <1>1, <1>3, ToggleKeeps DEF Dismiss
  <2>2. ~hasty => Opened(Now) /\ Others(Now)
    <3>1. modal.displayed /\ (modal.dismiss \/ modal.outside \/ modal.keys)
      BY <1>3 DEF Dismiss
    <3>. QED BY <1>1, <3>1 DEF ModalInv, Phase, Closed, Opening, Hiding, Vanishing, Off
  <2>3. ~hasty => Phase(HideModal(Now))
    BY <1>1, <2>2, HidePhase
  <2>. QED BY <2>1, <2>3, ModalBecomes
<1>. QED BY <1>2, <1>3 DEF UseModal

LEMMA ModalEnding ==
  ASSUME ModalInv, hasty' = hasty, TransitionTypeOK', ModalEnds PROVE ModalInv'
<1>1. /\ Now \in Pairs /\ animated \in BOOLEAN /\ Now.m = modal /\ Now.d = drops
      /\ modal \in ModalStates /\ drops \in Seq(Backdrops) /\ modal.drop \in 0..Len(drops)
  BY DEF ModalInv, TransitionTypeOK, Now, Pairs, ModalPairs
<1>2. CASE ElementEnd
  BY <1>1, <1>2, FireIs, ModalBecomes DEF ElementEnd, ModalInv
<1>3. CASE DialogEnd
  <2>1. PICK m : m = [modal EXCEPT !.dialogWaits = <<>>]
    OBVIOUS
  <2>2. <<>> \in Seq({"shown"})
    BY EmptySeq
  <2>3. /\ m \in ModalStates /\ SameListeners(modal, m) /\ m.displayed = modal.displayed
        /\ m.in = modal.in /\ m.trap = modal.trap /\ m.bodyOpen = modal.bodyOpen
        /\ m.drop = modal.drop
    BY <1>1, <2>1, <2>2 DEF ModalStates, SameListeners
  <2>4. PICK h : h = [m |-> m, d |-> drops]
    OBVIOUS
  <2>5. h.m = m /\ h.d = drops
    BY <2>4
  <2>6. h \in Pairs
    <3>1. h \in ModalPairs
      BY <1>1, <2>3, <2>4 DEF ModalPairs
    <3>. QED BY <1>1, <2>3, <2>5, <3>1 DEF Pairs
  <2>7. h = [Now EXCEPT !.m.dialogWaits = <<>>]
    BY <2>1, <2>4 DEF Now
  <2>8. Phase(Now) => Phase(h)
    BY <1>1, <2>3, <2>5 DEF Phase, Others, Closed, Opening, Opened, Hiding, Vanishing, On, Off,
       Behind, SameListeners
  <2>9. Becomes(Fire(h))
    BY <1>3, <2>7 DEF DialogEnd
  <2>. QED BY <1>1, <2>6, <2>8, <2>9, FireIs, ModalBecomes DEF ModalInv
<1>4. ASSUME NEW d \in DOMAIN drops, BackdropEnd(d) PROVE ModalInv'
  <2>1. d \in 1..Len(drops)
    BY <1>1, LenProperties
  <2>2. drops[d].waits \in Seq({"showElement", "remove"}) /\ <<>> \in Seq({"showElement", "remove"})
    <3>1. drops[d] \in Backdrops
      BY <1>1, <2>1, ElementOfSeq
    <3>. QED BY <3>1, EmptySeq DEF Backdrops
  <2>3. PICK h : h = [Now EXCEPT !.d[d].waits = <<>>]
    OBVIOUS
  <2>4. /\ h \in Pairs /\ h.m = modal /\ DOMAIN h.d = DOMAIN drops
        /\ \A i \in DOMAIN drops : i # d => h.d[i] = drops[i]
        /\ h.d[d].inBody = drops[d].inBody /\ h.d[d].waits = <<>>
    <3>1. PICK s \in Pairs : s = Now
      BY <1>1
    <3>2. PICK w \in Seq({"showElement", "remove"}) : w = <<>>
      BY <2>2
    <3>3. d \in 1..Len(s.d) /\ h = [s EXCEPT !.d[d].waits = w]
      BY <1>1, <2>1, <2>3, <3>1, <3>2
    <3>4. /\ h \in Pairs /\ h.m = s.m /\ DOMAIN h.d = DOMAIN s.d
          /\ \A i \in DOMAIN s.d : i # d => h.d[i] = s.d[i]
          /\ h.d[d].inBody = s.d[d].inBody /\ h.d[d].waits = w
      BY <3>3, WaitsAt
    <3>. QED BY <1>1, <3>1, <3>2, <3>4
  <2>5. PICK F, w : F = {"showElement", "remove"} /\ w = drops[d].waits
    OBVIOUS
  <2>6. PICK u : u = InTurn(BackdropCalls, h, w)
    OBVIOUS
  <2>7. Becomes(u)
    BY <1>4, <2>3, <2>5, <2>6 DEF BackdropEnd
  <2>8. \A fn \in F, t \in Pairs : BackdropCalls[fn][t] = Callback(t, fn)
    BY <2>5 DEF BackdropCalls, Pairs
  <2>9. \A t \in Pairs, fn \in F : BackdropCalls[fn][t] \in Pairs
    BY <1>1, <2>8, CallbackKeeps
  <2>10. u \in Pairs
    BY <2>2, <2>4, <2>5, <2>6, <2>9, InTurnKeeps
  <2>11. ASSUME ~hasty PROVE Phase(u)
    <3>1. Phase(Now) /\ w # <<>>
      BY <1>4, <2>5, <2>11 DEF ModalInv, BackdropEnd
    <3>2. d = modal.drop /\ (Opening(Now) \/ Vanishing(Now)) /\ Others(Now)
      BY <1>1, <2>5, <3>1 DEF Phase, Others, Closed, Opened, Hiding, Opening, Vanishing, Behind
    <3>3. Others(h)
      BY <1>1, <2>4, <3>2 DEF Others
    <3>4. options.backdrop # "false" /\ Behind(h, <<>>)
      BY <1>1, <2>4, <3>2 DEF Opening, Vanishing, Behind
    <3>5. CASE Opening(Now)
      <4>1. w = <<"showElement">>
        BY <1>1, <2>5, <3>2, <3>5 DEF Opening, Behind
      <4>2. u = Callback(h, "showElement")
        BY <2>4, <2>5, <2>6, <2>8, <4>1, InTurnOne
      <4>3. On(h.m)
        BY <1>1, <2>4, <3>5 DEF Opening
      <4>. QED BY <1>1, <2>4, <3>3, <3>4, <4>2, <4>3, ElementAppears
    <3>6. CASE Vanishing(Now)
      <4>1. w = <<"remove">>
        BY <1>1, <2>5, <3>2, <3>6 DEF Vanishing, Behind
      <4>2. u = Callback(h, "remove")
        BY <2>4, <2>5, <2>6, <2>8, <4>1, InTurnOne
      <4>3. Off(h.m) /\ ~h.m.displayed /\ h.m.elWaits = <<>>
        BY <1>1, <2>4, <3>6 DEF Vanishing
      <4>. QED BY <2>4, <3>3, <4>2, <4>3, BackdropGoes
    <3>. QED BY <3>2, <3>5, <3>6
  <2>. QED BY <2>7, <2>10, <2>11, ModalBecomes
<1>. QED BY <1>2, <1>3, <1>4 DEF ModalEnds

LEMMA ModalStep == ModalInv /\ [Next]_vars => ModalInv'
<1>. SUFFICES ASSUME ModalInv, [Next]_vars PROVE ModalInv'
  OBVIOUS
<1>1. hasty' = hasty /\ TransitionTypeOK'
  BY SameUser, UserType DEF ModalInv
<1>2. CASE UNCHANGED modalVars
  <2>1. Becomes(Now)
    BY <1>2 DEF modalVars, Becomes, Now
  <2>. QED BY <1>1, <2>1, ModalBecomes DEF ModalInv
<1>. QED BY <1>1, <1>2, ModalUser, ModalEnding
  DEF Next, Use, Ends, EndModal, vars, Collapsing, Tipping, Turning, Tabbing, Glowing

(* Whatever is clicked and pressed while the modal comes and goes, but for *)
(* the toggler under it, at rest its element, listeners, focus, backdrop   *)
(* and body agree (show, hide, hideModal, backdrop and their callbacks).   *)
THEOREM ModalsRest == Spec => []ModalRests
<1>1. Init => ModalInv
  BY ModalInvInit
<1>2. ModalInv /\ [Next]_vars => ModalInv'
  BY ModalStep
<1>3. ModalInv => ModalRests
  <2>. SUFFICES ASSUME ModalInv, ~hasty, ModalRest PROVE ModalRests
    BY DEF ModalRests
  <2>1. Now.m = modal /\ Now.d = drops /\ Phase(Now) /\ Now \in Pairs
    BY DEF ModalInv, Now
  <2>2. modal \in ModalStates /\ \A i \in DOMAIN drops : i # 0
    BY <2>1, LenProperties DEF Pairs, ModalPairs
  <2>3. (Closed(Now) \/ Opened(Now)) /\ Others(Now)
    BY <2>1 DEF ModalRest, Phase, Opening, Hiding, Vanishing, Behind
  <2>4. options.backdrop = "false" \/ options.backdrop # "false"
    OBVIOUS
  <2>5. CASE Closed(Now)
    BY <2>1, <2>2, <2>3, <2>5 DEF Closed, Off, Others, ModalRests, ModalStates
  <2>6. CASE Opened(Now)
    BY <2>1, <2>2, <2>3, <2>6 DEF Opened, On, Behind, Others, ModalRests, ModalStates
  <2>. QED BY <2>3, <2>5, <2>6
<1>. QED BY <1>1, <1>2, <1>3, PTL DEF Spec

-----------------------------------------------------------------------------
(* The whole page.                                                         *)
PageInv ==
  /\ page \in Widgets /\ HighlightTypeOK
  /\ AccordionInv /\ ModalInv /\ TooltipInv /\ CarouselInv /\ TabInv

(* Every widget keeps the type of its state, whatever is done to it: each  *)
(* sequence of callbacks holds callbacks of its own, called in turn they   *)
(* lead from states to states, this.$backdrop is one of the backdrops that *)
(* were appended, and the count of timers that run is never below zero.    *)
THEOREM PageType == Spec => []TypeOK
<1>1. Init => PageInv
  <2>1. Init => page \in Widgets /\ HighlightTypeOK
    BY HlAssumption DEF Init, HighlightInit, HighlightTypeOK
  <2>. QED BY <2>1, AccordionInit, ModalInvInit, TooltipInvInit, CarouselInvInit, TabInvInit
    DEF PageInv
<1>2. PageInv /\ [Next]_vars => PageInv'
  <2>. SUFFICES ASSUME PageInv, [Next]_vars PROVE PageInv'
    OBVIOUS
  <2>1. page' = page
    BY DEF Next, Use, Ends, vars, Collapsing, Dialog, Tipping, Turning, Tabbing, Glowing
  <2>2. TabInv'
    BY UserType, TabType, FollowStep DEF PageInv, TabInv
  <2>. QED BY <2>1, <2>2, GlowType, AccordionStep, ModalStep, TipStep, CarouselStep DEF PageInv
<1>3. PageInv => TypeOK
  <2>. SUFFICES ASSUME PageInv PROVE TypeOK
    OBVIOUS
  <2>1. ModalTypeOK
    <3>1. Now \in Pairs /\ Now.m = modal /\ Now.d = drops
      BY DEF PageInv, ModalInv, Now
    <3>. QED BY <3>1 DEF PageInv, ModalInv, ModalTypeOK, Pairs, ModalPairs
  <2>. QED BY <2>1 DEF TypeOK, PageInv, AccordionInv, ModalInv, TooltipInv, CarouselInv,
     CarouselTypeOK, Turns, TabInv
<1>. QED BY <1>1, <1>2, <1>3, PTL DEF Spec
=============================================================================
