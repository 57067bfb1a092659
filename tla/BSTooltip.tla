----------------------------- MODULE BSTooltip -----------------------------
(***************************************************************************)
(* bootstrap.js, tooltip.js: a tip that is attached to the page while the  *)
(* pointer is over an element, with delays before it comes and goes.       *)
(***************************************************************************)
EXTENDS BSTransition

VARIABLES tooltip,  \* the Tooltip object and its tip
          delay,    \* options.delay: is there one to show, one to hide
          trigger,  \* options.trigger: "hover" (or focus), or "click"
          told      \* history: what the last event should lead to

tooltipVars == <<tooltip, delay, trigger, told>>

TooltipStates == [enabled : BOOLEAN,
                  alive : BOOLEAN,      \* not destroyed
                  hoverState : {"null", "in", "out"},
                  timeout : {"none", "show", "hide"},
                  attached : BOOLEAN,   \* the tip is in the page
                  in : BOOLEAN,         \* its class "in"
                  fade : BOOLEAN,       \* its class "fade", from the first show on
                  waits : Seq({"shown", "hidden"})]

TooltipTypeOK ==
  /\ tooltip \in TooltipStates
  /\ delay \in [show : BOOLEAN, hide : BOOLEAN]
  /\ trigger \in {"hover", "click"}
  /\ told \in {"come", "stay", "go"}

TooltipInit ==
  /\ tooltip = [enabled |-> TRUE, alive |-> TRUE, hoverState |-> "null",
                timeout |-> "none", attached |-> FALSE, in |-> FALSE, fade |-> FALSE,
                waits |-> <<>>]
  /\ delay \in [show : BOOLEAN, hide : BOOLEAN]
  /\ trigger \in {"hover", "click"}
  /\ told = "go"

TooltipRest == tooltip.waits = <<>> /\ tooltip.timeout = "none"

-----------------------------------------------------------------------------
(* show(): unless disabled, the tip is taken out of the page, filled and   *)
(* put back in, and the hover state forgotten.                             *)
ShowTip(t) ==
  IF ~t.enabled THEN t
  ELSE [t EXCEPT !.attached = TRUE, !.in = TRUE, !.fade = animated,
                 !.hoverState = "null",
                 !.waits = IF animated THEN Await(@, "shown") ELSE @]

(* Mutant: complete() detaches the tip only if the pointer is still out.   *)
HiddenIfOut(t) == [t EXCEPT !.attached = @ /\ t.hoverState # "out"]

(* complete() of hide()                                                    *)
HiddenTip(t) == [t EXCEPT !.attached = @ /\ t.hoverState = "in"]

(* hide()                                                                  *)
HideTip(t) ==
  LET h == [t EXCEPT !.in = FALSE]
  IN [(IF t.fade THEN [h EXCEPT !.waits = Await(@, "hidden")] ELSE HiddenTip(h))
        EXCEPT !.hoverState = "null"]

(* enter() and leave(): the timeout that runs is cleared.                  *)
Enter(t) ==
  LET e == [t EXCEPT !.hoverState = "in", !.timeout = "none"]
  IN IF delay.show THEN [e EXCEPT !.timeout = "show"] ELSE ShowTip(e)

LeaveTip(t) ==
  LET l == [t EXCEPT !.hoverState = "out", !.timeout = "none"]
  IN IF delay.hide THEN [l EXCEPT !.timeout = "hide"] ELSE HideTip(l)

-----------------------------------------------------------------------------
(* The pointer or the focus comes and goes, or the element is clicked:     *)
(* toggle() goes by the class of the tip.                                  *)
TipEvent(t) ==
  /\ tooltip.alive
  /\ UserActs(TooltipRest)
  /\ tooltip' = t
  /\ UNCHANGED <<delay, trigger>>

PointerIn ==
  /\ trigger = "hover"
  /\ TipEvent(Enter(tooltip))
  /\ told' = IF tooltip.enabled THEN "come" ELSE "stay"

PointerOut ==
  /\ trigger = "hover"
  /\ TipEvent(LeaveTip(tooltip))
  /\ told' = "go"

ToggleTip ==
  /\ trigger = "click"
  /\ IF tooltip.in THEN TipEvent(LeaveTip(tooltip)) /\ told' = "go"
     ELSE TipEvent(Enter(tooltip)) /\ told' = IF tooltip.enabled THEN "come" ELSE "stay"

(* The page calls disable, enable, toggleEnabled.                          *)
ToggleEnabled ==
  /\ TipEvent([tooltip EXCEPT !.enabled = ~@])
  /\ told' = IF told = "go" THEN "go" ELSE "stay"

(* destroy()                                                               *)
DestroyTip ==
  /\ TipEvent(HideTip([tooltip EXCEPT !.timeout = "none", !.alive = FALSE]))
  /\ told' = "go"

(* A delay is over.                                                        *)
Timeout ==
  /\ tooltip.timeout # "none"
  /\ LET t == [tooltip EXCEPT !.timeout = "none"]
     IN tooltip' = IF tooltip.timeout = "show"
                   THEN IF t.hoverState = "in" THEN ShowTip(t) ELSE t
                   ELSE IF t.hoverState = "out" THEN HideTip(t) ELSE t
  /\ UNCHANGED <<delay, trigger, told, transitionVars>>

(* The end of a transition of the tip.                                     *)
TipEnd ==
  /\ tooltip.waits # <<>>
  /\ LET t == [tooltip EXCEPT !.waits = <<>>]
         hides == \E i \in DOMAIN tooltip.waits : tooltip.waits[i] = "hidden"
     IN tooltip' = IF hides THEN HiddenTip(t) ELSE t
  /\ UNCHANGED <<delay, trigger, told, transitionVars>>

-----------------------------------------------------------------------------
(* When all delays and transitions are over, no tip is left behind by a    *)
(* pointer that has gone, however it came and went before; and for one who *)
(* waits, the tip is there while the pointer is (enter, leave, hide).      *)
TipFollows ==
  TooltipRest /\ tooltip.alive =>
    /\ told = "go" => ~tooltip.attached
    /\ told = "come" /\ ~hasty => tooltip.attached /\ tooltip.in
=============================================================================
