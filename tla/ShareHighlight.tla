--------------------------- MODULE ShareHighlight ---------------------------
(***************************************************************************)
(* web/shareform/shform.js, highlightFn: the border that lights up around  *)
(* a field when a message changes it, and fades in steps of a timer.  Each *)
(* message starts a chain of timers of its own; they share the brightness. *)
(***************************************************************************)
EXTENDS BSTransition

CONSTANT HlMax  \* steps from hlmax until it is below 0.001: 15 in the code

ASSUME HlAssumption == HlMax \in Nat \ {0}

VARIABLE glow

(* "fades" counts the timers that will call fade, "steps" those that fade  *)
(* has set.                                                                *)
HighlightTypeOK == glow \in [hlalpha : 0..HlMax, fades : Nat, steps : Nat]

HighlightInit == glow = [hlalpha |-> 0, fades |-> 0, steps |-> 0]

HighlightRest == glow.fades = 0 /\ glow.steps = 0

(* A message comes: doHighlight.                                           *)
DoHighlight ==
  /\ UserActs(TRUE)
  /\ glow' = [glow EXCEPT !.hlalpha = HlMax, !.fades = @ + 1]

(* fade                                                                    *)
Fade ==
  /\ glow.fades > 0
  /\ glow' = [glow EXCEPT !.fades = @ - 1, !.steps = @ + 1]
  /\ UNCHANGED transitionVars

(* Mutant: a chain ends only if it switches the border off itself.         *)
FadeStepExact ==
  /\ glow.steps > 0
  /\ glow' = IF glow.hlalpha = 1
             THEN [glow EXCEPT !.steps = @ - 1, !.hlalpha = 0]
             ELSE [glow EXCEPT !.steps = @ - 1, !.hlalpha = @ - 1, !.fades = @ + 1]
  /\ UNCHANGED transitionVars

(* Mutant: a chain that ends leaves the border as it is.                   *)
FadeStepLeaves ==
  /\ glow.steps > 0
  /\ glow' = IF glow.hlalpha <= 1
             THEN [glow EXCEPT !.steps = @ - 1]
             ELSE [glow EXCEPT !.steps = @ - 1, !.hlalpha = @ - 1, !.fades = @ + 1]
  /\ UNCHANGED transitionVars

(* Mutant: the timer is set again when the border is off already.          *)
FadeStepForever ==
  /\ glow.steps > 0
  /\ glow' = [glow EXCEPT !.steps = @ - 1, !.fades = @ + 1,
                          !.hlalpha = IF @ = 0 THEN 0 ELSE @ - 1]
  /\ UNCHANGED transitionVars

(* The function fade sets a timer for: darker, and off at the end.         *)
FadeStep ==
  /\ glow.steps > 0
  /\ glow' = IF glow.hlalpha <= 1
             THEN [glow EXCEPT !.steps = @ - 1, !.hlalpha = 0]
             ELSE [glow EXCEPT !.steps = @ - 1, !.hlalpha = @ - 1, !.fades = @ + 1]
  /\ UNCHANGED transitionVars

(* A border that is lit has a timer that will darken it, whichever of the  *)
(* chains that run at the same time has ended first.                       *)
NoGlowLeft ==
  glow.hlalpha > 0 => glow.fades + glow.steps > 0
=============================================================================
