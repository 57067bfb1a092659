----------------------------- MODULE BSCarousel -----------------------------
(***************************************************************************)
(* bootstrap.js, carousel.js: items of which one is active, which slide by *)
(* an interval, by the controls, and by the indicators.                    *)
(***************************************************************************)
EXTENDS BSTransition, FiniteSetsExt

CONSTANT Items  \* how many items there are

ASSUME ItemsAssumption == Items \in Nat \ {0, 1}

VARIABLES carousel,  \* the Carousel object and its element
          wrap       \* options.wrap

carouselVars == <<carousel, wrap>>

Positions == 1..Items

(* "moving" are the items that slide in, with a callback that waits at the *)
(* active one.  this.interval may hold a timer that runs, one that was     *)
(* cleared, or nothing.  "slid" are the handlers that wait for             *)
(* 'slid.bs.carousel': of the indicators (0) and of to(pos).               *)
CarouselStates == [data : BOOLEAN,            \* there is an object
                   cycles : BOOLEAN,          \* options.interval
                   active : SUBSET Positions, \* items with class "active"
                   moving : SUBSET Positions,
                   sliding : BOOLEAN,
                   paused : BOOLEAN,
                   interval : {"none", "runs", "cleared"},
                   timers : Nat,              \* intervals that run
                   indicator : Positions \cup {0},
                   slid : Seq(Positions \cup {0}),
                   events : Nat]              \* setTimeout(trigger slid, 0)

CarouselTypeOK ==
  /\ carousel \in CarouselStates
  /\ wrap \in BOOLEAN

CarouselInit ==
  /\ carousel = [data |-> FALSE, cycles |-> FALSE, active |-> {1}, moving |-> {},
                 sliding |-> FALSE, paused |-> FALSE, interval |-> "none",
                 timers |-> 0, indicator |-> 1, slid |-> <<>>, events |-> 0]
  /\ wrap \in BOOLEAN

CarouselRest == carousel.moving = {} /\ carousel.events = 0

-----------------------------------------------------------------------------
(* clearInterval(this.interval)                                            *)
Cleared(c) ==
  IF c.interval = "runs" THEN [c EXCEPT !.interval = "cleared", !.timers = @ - 1] ELSE c

(* Mutant: cycle() sets a timer without clearing the one there is.         *)
CycleOnTop(c, event) ==
  LET d == [c EXCEPT !.paused = @ /\ event]
  IN IF d.cycles /\ ~d.paused
     THEN [d EXCEPT !.interval = "runs", !.timers = @ + 1]
     ELSE d

(* cycle(e): without an event it also ends a pause.                        *)
Cycle(c, event) ==
  LET d == [Cleared(c) EXCEPT !.paused = @ /\ event]
  IN IF d.cycles /\ ~d.paused
     THEN [d EXCEPT !.interval = "runs", !.timers = @ + 1]
     ELSE d

(* pause(e): with an item on the move it starts and clears a timer.        *)
Pause(c, event) ==
  LET d == [c EXCEPT !.paused = @ \/ ~event]
      e == IF d.moving # {} THEN Cycle(d, TRUE) ELSE d
  IN [Cleared(e) EXCEPT !.interval = "none"]

ActiveIndex(c) == Min(c.active)

(* Mutant: nobody waits to light the new indicator.                        *)
SlideForgets(c, to) ==
  IF to \in c.active THEN [c EXCEPT !.sliding = FALSE]
  ELSE LET cycling == c.interval # "none"
           p == IF cycling THEN Pause([c EXCEPT !.sliding = TRUE], FALSE)
                           ELSE [c EXCEPT !.sliding = TRUE]
           s == IF animated
                THEN [p EXCEPT !.moving = @ \cup {to}, !.indicator = 0]
                ELSE [p EXCEPT !.active = {to}, !.indicator = to, !.sliding = FALSE]
       IN IF cycling THEN Cycle(s, FALSE) ELSE s

(* slide(type, next): "from" is active, "to" is to be, and the indicator   *)
(* waits for the event that tells they are.                                *)
Slide(c, to) ==
  IF to \in c.active THEN [c EXCEPT !.sliding = FALSE]
  ELSE LET cycling == c.interval # "none"
           p == IF cycling THEN Pause([c EXCEPT !.sliding = TRUE], FALSE)
                           ELSE [c EXCEPT !.sliding = TRUE]
           s == IF animated
                THEN [p EXCEPT !.moving = @ \cup {to}, !.indicator = 0, !.slid = Append(@, 0)]
                ELSE [p EXCEPT !.active = {to}, !.indicator = to, !.sliding = FALSE]
       IN IF cycling THEN Cycle(s, FALSE) ELSE s

(* next() and prev(): nothing while an item slides, and nothing past the   *)
(* last one without wrap.                                                  *)
Neighbour(c, type) ==
  LET i == ActiveIndex(c)
  IN IF type = "next" THEN IF i = Items THEN 1 ELSE i + 1
                      ELSE IF i = 1 THEN Items ELSE i - 1

AtEdge(c, type) == ActiveIndex(c) = (IF type = "next" THEN Items ELSE 1)

(* Mutant: it does not matter that an item slides.                         *)
StepAnyway(c, type) ==
  IF AtEdge(c, type) /\ ~wrap THEN c ELSE Slide(c, Neighbour(c, type))

Step(c, type) ==
  IF c.sliding \/ (AtEdge(c, type) /\ ~wrap) THEN c ELSE Slide(c, Neighbour(c, type))

(* to(pos): later, if an item slides.                                      *)
To(c, pos) ==
  IF c.sliding THEN [c EXCEPT !.slid = Append(@, pos)]
  ELSE IF pos = ActiveIndex(c) THEN Cycle(Pause(c, FALSE), FALSE)
  ELSE Slide(c, pos)

-----------------------------------------------------------------------------
(* The page is loaded with data-ride="carousel".                           *)
Ride ==
  /\ ~carousel.data /\ clicks = 0
  /\ UserActs(TRUE)
  /\ carousel' = Cycle(Pause([carousel EXCEPT !.data = TRUE, !.cycles = TRUE], FALSE), FALSE)
  /\ UNCHANGED wrap

(* A click on a control; the first one makes the object.                   *)
Control(type) ==
  /\ UserActs(CarouselRest)
  /\ carousel' = Step([carousel EXCEPT !.data = TRUE, !.cycles = @ \/ ~carousel.data], type)
  /\ UNCHANGED wrap

(* A click on an indicator: an object it makes has no interval.            *)
Indicate(pos) ==
  /\ UserActs(CarouselRest)
  /\ carousel' = To([carousel EXCEPT !.data = TRUE], pos)
  /\ UNCHANGED wrap

(* pause: 'hover'                                                          *)
Hover ==
  /\ carousel.data
  /\ UserActs(CarouselRest)
  /\ carousel' = Pause(carousel, TRUE) \/ carousel' = Cycle(carousel, TRUE)
  /\ UNCHANGED wrap

(* An interval is over.  It is longer than a transition.                   *)
Tick ==
  /\ carousel.timers > 0 /\ CarouselRest
  /\ carousel' = Step(carousel, "next")
  /\ UNCHANGED <<wrap, transitionVars>>

(* The end of the transition of the item that was active, which gives way  *)
(* to what slid in.                                                        *)
SlideEnd ==
  /\ carousel.moving # {}
  /\ carousel' = [carousel EXCEPT !.active = carousel.moving, !.moving = {},
                                  !.sliding = FALSE, !.events = @ + 1]
  /\ UNCHANGED <<wrap, transitionVars>>

(* 'slid.bs.carousel': what waits for it, in order.                        *)
Handle(c, h) == IF h = 0 THEN [c EXCEPT !.indicator = ActiveIndex(c)] ELSE To(c, h)

Handlers == [h \in Positions \cup {0} |-> [c \in CarouselStates |-> Handle(c, h)]]

SlidEvent ==
  /\ carousel.events > 0
  /\ carousel' = InTurn(Handlers, [carousel EXCEPT !.slid = <<>>, !.events = @ - 1], carousel.slid)
  /\ UNCHANGED <<wrap, transitionVars>>

-----------------------------------------------------------------------------
(* Exactly one item is active, however fast controls and indicators are    *)
(* clicked, and "sliding" tells whether one is on the move.                *)
OneActive ==
  /\ Cardinality(carousel.active) = 1
  /\ carousel.sliding <=> carousel.moving # {}
  /\ carousel.moving \cap carousel.active = {}

(* No interval runs that this.interval has lost: it could never be cleared *)
(* and the carousel would go faster and faster (cycle, pause, slide).      *)
OneInterval ==
  carousel.timers = IF carousel.interval = "runs" THEN 1 ELSE 0

(* For one who waits, the indicator is at rest that of the active item.    *)
IndicatorTells ==
  ~hasty /\ CarouselRest => carousel.active = {carousel.indicator}
=============================================================================
