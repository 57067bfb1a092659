----------------------------- MODULE BSCollapse -----------------------------
(***************************************************************************)
(* bootstrap.js, collapse.js: panels that a click on their trigger opens   *)
(* and closes, as in the navigation bar of index.html; those of an         *)
(* accordion (data-parent) close each other.                               *)
(***************************************************************************)
EXTENDS BSTransition

CONSTANTS Panels,    \* the panels, numbered as they are on the page
          Accordion  \* those with the data-parent of the accordion

ASSUME PanelsAssumption ==
  /\ Panels \subseteq Nat /\ IsFiniteSet(Panels)
  /\ Accordion \subseteq Panels

VARIABLES panel,     \* panel[p]: the element, its Collapse object, callbacks
          collapsed  \* collapsed[p]: the trigger of p has class "collapsed"

collapseVars == <<panel, collapsed>>

(* "cls" are the classes: "in" stands for "collapse in".  "data" tells the *)
(* Collapse object that belongs to the panel: none, or one with or without *)
(* $parent.  A callback is "own" if it belongs to that object.             *)
Callbacks == [fn : {"shown", "hidden"}, own : BOOLEAN]

PanelStates == [cls : {"collapse", "collapsing", "in"},
                data : {"none", "alone", "parent"},
                transitioning : BOOLEAN,
                waits : Seq(Callbacks)]

CollapseTypeOK ==
  /\ panel \in [Panels -> PanelStates]
  /\ collapsed \in [Panels -> BOOLEAN]

Fresh(c) == [cls |-> c, data |-> "none", transitioning |-> FALSE, waits |-> <<>>]

(* The page as it is loaded: at most one panel of the accordion is open.   *)
CollapseInit ==
  /\ \E open \in {{}} \cup {{p} : p \in Accordion} :
       panel = [p \in Panels |-> Fresh(IF p \in open THEN "in" ELSE "collapse")]
  /\ collapsed = [p \in Panels |-> FALSE]

CollapseRest == \A p \in Panels : panel[p].waits = <<>>

-----------------------------------------------------------------------------
(* hide(): of an open panel without a transition under way.                *)
Hide(r) ==
  IF r.transitioning \/ r.cls # "in" THEN r
  ELSE IF animated
       THEN [r EXCEPT !.cls = "collapsing", !.transitioning = TRUE,
                      !.waits = Await(@, [fn |-> "hidden", own |-> TRUE])]
       ELSE [r EXCEPT !.cls = "collapse"]

(* actives.collapse('hide'): a panel without an object gets one, which     *)
(* hides it already in its constructor.                                    *)
PluginHide(r) ==
  Hide(IF r.data = "none" THEN Hide([r EXCEPT !.data = "alone"]) ELSE r)

(* actives.data('bs.collapse', null)                                       *)
Forget(r) ==
  [r EXCEPT !.data = "none", !.transitioning = FALSE,
            !.waits = [i \in DOMAIN @ |-> [@[i] EXCEPT !.own = FALSE]]]

Open(r) ==
  IF animated
  THEN [r EXCEPT !.cls = "collapsing", !.transitioning = TRUE,
                 !.waits = Await(@, [fn |-> "shown", own |-> TRUE])]
  ELSE [r EXCEPT !.cls = "in"]

(* Mutant: show() leaves the other panels of the accordion open.           *)
ShowOnly(ps, p) ==
  IF ps[p].transitioning \/ ps[p].cls = "in" THEN ps ELSE [ps EXCEPT ![p] = Open(@)]

(* show(): the first of the open panels of the accordion tells whether     *)
(* they are to keep their objects, and stops it if it has just begun.      *)
Show(ps, p) ==
  LET actives == IF ps[p].data = "parent" THEN {q \in Accordion : ps[q].cls = "in"} ELSE {}
      first == CHOOSE q \in actives : \A r \in actives : q <= r
      hasData == actives # {} /\ ps[first].data # "none"
      Closed(q) == IF hasData THEN PluginHide(ps[q]) ELSE Forget(PluginHide(ps[q]))
  IN IF \/ ps[p].transitioning \/ ps[p].cls = "in"
        \/ hasData /\ ps[first].transitioning
     THEN ps
     ELSE [q \in Panels |-> IF q = p THEN Open(ps[p])
                            ELSE IF q \in actives THEN Closed(q) ELSE ps[q]]

Toggle(ps, p) ==
  IF ps[p].cls = "in" THEN [ps EXCEPT ![p] = Hide(@)] ELSE Show(ps, p)

(* The first click creates the object, which toggles in its constructor.   *)
Constructed(r, p) ==
  IF r.data = "none"
  THEN [r EXCEPT !.data = IF p \in Accordion THEN "parent" ELSE "alone"]
  ELSE r

(* Mutant: the trigger changes though the panel is on its way.             *)
ClickAnyway(p) ==
  /\ UserActs(CollapseRest)
  /\ collapsed' = [q \in Panels |-> IF q = p THEN panel[p].cls = "in"
                                    ELSE collapsed[q] \/ {p, q} \subseteq Accordion]
  /\ panel' = Toggle([panel EXCEPT ![p] = Constructed(@, p)], p)

(* A click on the trigger of p.                                            *)
Click(p) ==
  /\ UserActs(CollapseRest)
  /\ collapsed' =
       IF panel[p].transitioning THEN collapsed
       ELSE [q \in Panels |-> IF q = p THEN panel[p].cls = "in"
                              ELSE collapsed[q] \/ {p, q} \subseteq Accordion]
  /\ panel' = Toggle([panel EXCEPT ![p] = Constructed(@, p)], p)

(* The end of the transition of a panel: complete() of show and of hide.   *)
CollapseEnd(p) ==
  /\ panel[p].waits # <<>>
  /\ LET fired == {panel[p].waits[i] : i \in DOMAIN panel[p].waits}
         shown == \E w \in fired : w.fn = "shown"
         own == \E w \in fired : w.own
     IN panel' = [panel EXCEPT
          ![p].cls = IF shown THEN "in" ELSE "collapse",
          ![p].transitioning = @ /\ ~own,
          ![p].waits = <<>>]
  /\ UNCHANGED <<collapsed, transitionVars>>

-----------------------------------------------------------------------------
(* Whoever waits for the transitions never sees two panels of the          *)
(* accordion open at rest (show, data-parent).                             *)
OneOpen ==
  ~hasty /\ CollapseRest =>
    \A p, q \in Accordion : panel[p].cls = "in" /\ panel[q].cls = "in" => p = q

(* However fast the trigger of a panel outside the accordion is clicked,   *)
(* at rest it tells after the first click whether the panel is open        *)
(* (the data-api handler and toggle agree on what a click does).           *)
NavbarTells ==
  CollapseRest => \A p \in Panels \ Accordion :
    panel[p].data # "none" => (collapsed[p] <=> panel[p].cls = "collapse")
=============================================================================
