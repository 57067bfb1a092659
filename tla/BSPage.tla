------------------------------- MODULE BSPage -------------------------------
(***************************************************************************)
(* A page with one of the widgets that run on timers and transitions:      *)
(* five plugins of bootstrap.js, and the highlight of shform.js.           *)
(***************************************************************************)
EXTENDS BSCollapse, BSModal, BSTooltip, BSCarousel, BSTab, ShareHighlight

VARIABLE page  \* the widget that is looked at

vars == <<page, transitionVars, collapseVars, modalVars, tooltipVars, carouselVars,
          tabVars, glow>>

Widgets == {"collapse", "modal", "tooltip", "carousel", "tab", "highlight"}

TypeOK ==
  /\ page \in Widgets
  /\ TransitionTypeOK
  /\ CollapseTypeOK /\ ModalTypeOK /\ TooltipTypeOK /\ CarouselTypeOK /\ TabTypeOK
  /\ HighlightTypeOK

(* The options of the other widgets do not matter.                         *)
Init ==
  /\ page \in Widgets
  /\ TransitionInit
  /\ CollapseInit /\ ModalInit /\ TooltipInit /\ CarouselInit /\ TabInit /\ HighlightInit
  /\ page # "collapse" => \A p \in Panels : panel[p].cls = "collapse"
  /\ page # "modal" => options = [backdrop |-> "true", keyboard |-> TRUE]
  /\ page # "tooltip" => delay = [show |-> FALSE, hide |-> FALSE] /\ trigger = "hover"
  /\ page # "carousel" => wrap
  /\ page # "tab" => tabs.item = {CHOOSE t \in Tabs : TRUE} /\ tabs.fade = Tabs

UseCollapse == \E p \in Panels : Click(p)
EndCollapse == \E p \in Panels : CollapseEnd(p)

UseModal == ClickToggler \/ Dismiss
EndModal == ModalEnds

UseTooltip == PointerIn \/ PointerOut \/ ToggleTip \/ ToggleEnabled \/ DestroyTip
EndTooltip == Timeout \/ TipEnd

UseCarousel ==
  \/ Ride \/ Hover \/ Tick
  \/ \E type \in {"next", "prev"} : Control(type)
  \/ \E pos \in Positions : Indicate(pos)
EndCarousel == SlideEnd \/ SlidEvent

UseTab == \E t \in Tabs : ClickTab(t)
EndTab == \E t \in Tabs : PaneEnd(t)

EndHighlight == Fade \/ FadeStep

(* A step of one widget leaves the others alone.                           *)
Collapsing ==
  page = "collapse" /\ UNCHANGED <<page, modalVars, tooltipVars, carouselVars, tabVars, glow>>
Dialog ==
  page = "modal" /\ UNCHANGED <<page, collapseVars, tooltipVars, carouselVars, tabVars, glow>>
Tipping ==
  page = "tooltip" /\ UNCHANGED <<page, collapseVars, modalVars, carouselVars, tabVars, glow>>
Turning ==
  page = "carousel" /\ UNCHANGED <<page, collapseVars, modalVars, tooltipVars, tabVars, glow>>
Tabbing ==
  page = "tab" /\ UNCHANGED <<page, collapseVars, modalVars, tooltipVars, carouselVars, glow>>
Glowing ==
  page = "highlight" /\ UNCHANGED <<page, collapseVars, modalVars, tooltipVars, carouselVars, tabVars>>

(* The user, and the interval of the carousel.                             *)
Use ==
  \/ Collapsing /\ UseCollapse
  \/ Dialog /\ UseModal
  \/ Tipping /\ UseTooltip
  \/ Turning /\ UseCarousel
  \/ Tabbing /\ UseTab
  \/ Glowing /\ DoHighlight

(* Transitions end, and timers are over.                                   *)
Ends ==
  \/ Collapsing /\ EndCollapse
  \/ Dialog /\ EndModal
  \/ Tipping /\ EndTooltip
  \/ Turning /\ EndCarousel
  \/ Tabbing /\ EndTab
  \/ Glowing /\ EndHighlight

Next == Use \/ Ends

(* The browser's timers fire.                                              *)
Spec == Init /\ [][Next]_vars /\ WF_vars(Ends)

AtRest ==
  CollapseRest /\ ModalRest /\ TooltipRest /\ CarouselRest /\ TabRest /\ HighlightRest

(* No widget is for ever on its way: whatever was done to it, again and    *)
(* again all its transitions have ended and no callback waits.             *)
ComesToRest == []<>AtRest
=============================================================================
