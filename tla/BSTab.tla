------------------------------- MODULE BSTab -------------------------------
(***************************************************************************)
(* bootstrap.js, tab.js: tabs and their panes.  The tab changes at once,   *)
(* the pane when the one before has faded.                                 *)
(***************************************************************************)
EXTENDS BSTransition

CONSTANT Tabs

ASSUME TabsAssumption == IsFiniteSet(Tabs) /\ Tabs # {}

VARIABLES tabs,   \* which tabs and panes have which of the classes
          fading  \* fading[t]: the calls of next() that wait with pane t

tabVars == <<tabs, fading>>

(* Tabs with "active"; panes with "active", with "in", and with "fade",    *)
(* which are transparent without "in".                                     *)
TabStates == [item : SUBSET Tabs, pane : SUBSET Tabs, in : SUBSET Tabs, fade : SUBSET Tabs]

(* next() takes "active" from the panes that had it and gives it to one.   *)
Nexts == [from : SUBSET Tabs, to : Tabs, transition : BOOLEAN]

TabTypeOK ==
  /\ tabs \in TabStates
  /\ fading \in [Tabs -> Seq(Nexts)]

TabInit ==
  /\ \E t \in Tabs, fade \in {Tabs, {}} :
       /\ tabs = [item |-> {t}, pane |-> {t}, in |-> {t}, fade |-> fade]
       /\ animated => fade = Tabs
  /\ fading = [t \in Tabs |-> <<>>]

TabRest == \A t \in Tabs : fading[t] = <<>>

-----------------------------------------------------------------------------
(* Mutant: next() leaves "active" where it is.                             *)
NextAdds(s, n) ==
  [s EXCEPT !.pane = @ \cup {n.to},
            !.in = IF n.transition THEN @ \cup {n.to} ELSE @,
            !.fade = IF n.transition THEN @ ELSE @ \ {n.to}]

(* next() of activate(): a pane that is not to fade in is not to be faded. *)
NextPane(s, n) ==
  [s EXCEPT !.pane = (@ \ n.from) \cup {n.to},
            !.in = IF n.transition THEN @ \cup {n.to} ELSE @,
            !.fade = IF n.transition THEN @ ELSE @ \ {n.to}]

NextPanes == [n \in Nexts |-> [s \in TabStates |-> NextPane(s, n)]]

(* A click on a tab that is not active: show(), activate() for the tab and *)
(* for its pane.                                                           *)
ClickTab(t) ==
  /\ t \notin tabs.item
  /\ UserActs(TabRest)
  /\ LET n == [from |-> tabs.pane, to |-> t,
               transition |-> animated /\ tabs.pane \cap tabs.fade # {}]
         s == [tabs EXCEPT !.item = {t}, !.in = @ \ n.from]
     IN IF n.transition
        THEN /\ tabs' = s
             /\ fading' = [p \in Tabs |-> IF p \in n.from THEN Await(fading[p], n)
                                          ELSE fading[p]]
        ELSE /\ tabs' = NextPane(s, n)
             /\ UNCHANGED fading

(* The end of the transition of a pane.                                    *)
PaneEnd(t) ==
  /\ fading[t] # <<>>
  /\ tabs' = InTurn(NextPanes, tabs, fading[t])
  /\ fading' = [fading EXCEPT ![t] = <<>>]
  /\ UNCHANGED transitionVars

-----------------------------------------------------------------------------
(* For one who waits, one tab is active at rest, and the pane that shows   *)
(* is its pane, not left transparent (activate is called for both).        *)
TabTells ==
  ~hasty /\ TabRest => /\ Cardinality(tabs.item) = 1
                       /\ tabs.pane = tabs.item
                       /\ tabs.pane \cap tabs.fade \subseteq tabs.in
=============================================================================
