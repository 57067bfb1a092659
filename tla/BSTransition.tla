---------------------------- MODULE BSTransition ----------------------------
(***************************************************************************)
(* bootstrap.js, transition.js: what the plugins share.  A plugin that     *)
(* starts a CSS transition leaves a callback with the element,             *)
(*     .one($.support.transition.end, fn).emulateTransitionEnd(duration)   *)
(* which is called by the browser's event, by the event of a child, which  *)
(* bubbles, or by the timer: in any case once, with all the callbacks left *)
(* with that element, and after any time, since an event that belongs to   *)
(* an earlier transition may come during a later one.                      *)
(***************************************************************************)
EXTENDS Naturals, Sequences, FiniteSets

CONSTANT MaxClicks  \* bound: what the user does to the page

ASSUME ClicksAssumption == MaxClicks \in Nat

VARIABLES animated,  \* the browser has transitions and the elements use them
          hasty,     \* the user acts without waiting for transitions to end
          clicks     \* what the user has done so far

transitionVars == <<animated, hasty, clicks>>

TransitionTypeOK ==
  /\ animated \in BOOLEAN
  /\ hasty \in BOOLEAN
  /\ clicks \in 0..MaxClicks

TransitionInit ==
  /\ animated \in BOOLEAN
  /\ hasty \in BOOLEAN
  /\ clicks = 0

(* The callback fn waits with an element for the end of its transition.    *)
Await(waits, fn) == Append(waits, fn)

(* What the callbacks that wait make of a state s, called in turn:         *)
(* calls[fn] is the function of states that fn computes.                   *)
InTurn(calls, s, waits) ==
  LET after[i \in 0..Len(waits)] == IF i = 0 THEN s ELSE calls[waits[i]][after[i - 1]]
  IN after[Len(waits)]

(* The user does something, at rest unless hasty.                          *)
UserActs(rest) ==
  /\ clicks < MaxClicks
  /\ hasty \/ rest
  /\ clicks' = clicks + 1
  /\ UNCHANGED <<animated, hasty>>
=============================================================================
