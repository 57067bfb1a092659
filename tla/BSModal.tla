------------------------------ MODULE BSModal ------------------------------
(***************************************************************************)
(* bootstrap.js, modal.js: a dialog over the page, opened by a toggler,    *)
(* with a backdrop behind it.  Showing waits for the backdrop, then for    *)
(* the dialog; hiding for the element, then for the backdrop.              *)
(***************************************************************************)
EXTENDS BSTransition

VARIABLES modal,   \* the Modal object, its element, and the document
          drops,   \* every backdrop ever appended to the body
          options  \* options.backdrop and options.keyboard

modalVars == <<modal, drops, options>>

(* "drop" is the number of the backdrop in this.$backdrop, or 0 for null.  *)
(* Callbacks wait with the element, the dialog in it, or a backdrop.       *)
ModalStates == [isShown : BOOLEAN,
                displayed : BOOLEAN,   \* the element: show(), hide()
                in : BOOLEAN,          \* its class "in"
                dismiss : BOOLEAN,     \* it listens to data-dismiss
                outside : BOOLEAN,     \* and to clicks outside the dialog
                keys : BOOLEAN,        \* and to the escape key
                trap : BOOLEAN,        \* the document keeps the focus in it
                bodyOpen : BOOLEAN,    \* the body has class "modal-open"
                drop : Nat,
                elWaits : Seq({"hideModal"}),
                dialogWaits : Seq({"shown"})]

Backdrops == [inBody : BOOLEAN, waits : Seq({"showElement", "remove"})]

ModalTypeOK ==
  /\ modal \in ModalStates
  /\ drops \in Seq(Backdrops)
  /\ modal.drop \in 0..Len(drops)
  /\ options \in [backdrop : {"true", "static", "false"}, keyboard : BOOLEAN]

ModalInit ==
  /\ modal = [isShown |-> FALSE, displayed |-> FALSE, in |-> FALSE,
              dismiss |-> FALSE, outside |-> FALSE, keys |-> FALSE,
              trap |-> FALSE, bodyOpen |-> FALSE, drop |-> 0,
              elWaits |-> <<>>, dialogWaits |-> <<>>]
  /\ drops = <<>>
  /\ options \in [backdrop : {"true", "static", "false"}, keyboard : BOOLEAN]

ModalRest ==
  /\ modal.elWaits = <<>> /\ modal.dialogWaits = <<>>
  /\ \A d \in DOMAIN drops : drops[d].waits = <<>>

-----------------------------------------------------------------------------
(* The operators below map the pair of both variables to their new values. *)
ModalPairs == [m : ModalStates, d : Seq(Backdrops)]

(* The callback of show(): the element appears and takes the focus.        *)
ShowElement(s) ==
  [s EXCEPT !.m.displayed = TRUE, !.m.in = TRUE, !.m.trap = TRUE,
            !.m.dialogWaits = IF animated THEN Await(@, "shown") ELSE @]

(* The callback of hideModal(): removeBackdrop() and 'hidden.bs.modal'.    *)
Removed(s) ==
  LET d == s.m.drop
  IN [m |-> [s.m EXCEPT !.drop = 0, !.bodyOpen = FALSE],
      d |-> IF d = 0 THEN s.d
            ELSE [s.d EXCEPT ![d] = [inBody |-> FALSE, waits |-> <<>>]]]

Callback(s, fn) == IF fn = "showElement" THEN ShowElement(s) ELSE Removed(s)

BackdropCalls ==
  [fn \in {"showElement", "remove"} |-> [s \in ModalPairs |-> Callback(s, fn)]]

(* backdrop(callback): a new one when the modal is shown, the old one      *)
(* fades when it is not, and there may be none.                            *)
Backdrop(s, fn) ==
  LET new == Len(s.d) + 1
      t == IF s.m.isShown /\ options.backdrop # "false"
           THEN [m |-> [s.m EXCEPT !.drop = new, !.outside = TRUE],
                 d |-> Append(s.d, [inBody |-> TRUE, waits |-> <<>>])]
           ELSE s
      fades == animated /\ t.m.drop # 0 /\ (s.m.isShown => t.m.drop = new)
  IN IF fades THEN [t EXCEPT !.d[t.m.drop].waits = Await(@, fn)] ELSE Callback(t, fn)

(* show(), and the body's handler of 'show.bs.modal'.                      *)
ShowModal(s) ==
  IF s.m.isShown THEN [s EXCEPT !.m.bodyOpen = TRUE]
  ELSE Backdrop([s EXCEPT !.m = [@ EXCEPT !.bodyOpen = TRUE, !.isShown = TRUE, !.dismiss = TRUE,
                                          !.keys = s.m.keys \/ options.keyboard]], "showElement")

(* hideModal()                                                             *)
HideElement(s) == Backdrop([s EXCEPT !.m.displayed = FALSE], "remove")

(* Mutant: the document goes on to listen for focusin.                     *)
HideKeepsTrap(s) ==
  LET h == [s EXCEPT !.m = [@ EXCEPT !.isShown = FALSE, !.keys = FALSE,
                                     !.in = FALSE, !.dismiss = FALSE, !.outside = FALSE]]
  IN IF ~s.m.isShown THEN s
     ELSE IF animated THEN [h EXCEPT !.m.elWaits = Await(@, "hideModal")]
     ELSE HideElement(h)

(* hide()                                                                  *)
HideModal(s) ==
  LET h == [s EXCEPT !.m = [@ EXCEPT !.isShown = FALSE, !.keys = FALSE, !.trap = FALSE,
                                     !.in = FALSE, !.dismiss = FALSE, !.outside = FALSE]]
  IN IF ~s.m.isShown THEN s
     ELSE IF animated THEN [h EXCEPT !.m.elWaits = Await(@, "hideModal")]
     ELSE HideElement(h)

Now == [m |-> modal, d |-> drops]

Becomes(s) == modal' = s.m /\ drops' = s.d /\ UNCHANGED options

-----------------------------------------------------------------------------
(* The toggler can be reached with the mouse unless the element or a       *)
(* backdrop covers it; a hasty user presses a key while it has the focus.  *)
(* A shown modal stays: hide() takes the toggler it is given for an event, *)
(* and ends there with a TypeError.                                        *)
ClickToggler ==
  /\ \/ ~modal.displayed /\ \A d \in DOMAIN drops : ~drops[d].inBody
     \/ hasty
  /\ UserActs(TRUE)
  /\ Becomes(IF modal.isShown THEN Now ELSE ShowModal(Now))

(* A dismissing button of the dialog, a click next to the dialog, the      *)
(* escape key: at any moment they are there and listened to.               *)
Dismiss ==
  /\ modal.displayed
  /\ \/ modal.dismiss
     \/ modal.outside /\ options.backdrop # "static"
     \/ modal.keys
  /\ UserActs(TRUE)
  /\ Becomes(HideModal(Now))

(* The end of a transition of the element, or of something else in it.     *)
ElementCalls == [fn \in {"hideModal"} |-> [s \in ModalPairs |-> HideElement(s)]]

Fire(s) == InTurn(ElementCalls, [s EXCEPT !.m.elWaits = <<>>], s.m.elWaits)

ElementEnd ==
  /\ modal.elWaits # <<>>
  /\ Becomes(Fire(Now))
  /\ UNCHANGED transitionVars

(* That of the dialog, which bubbles to the element.                       *)
DialogEnd ==
  /\ modal.dialogWaits # <<>>
  /\ Becomes(Fire([Now EXCEPT !.m.dialogWaits = <<>>]))
  /\ UNCHANGED transitionVars

(* That of a backdrop.                                                     *)
BackdropEnd(d) ==
  /\ drops[d].waits # <<>>
  /\ Becomes(InTurn(BackdropCalls, [Now EXCEPT !.d[d].waits = <<>>], drops[d].waits))
  /\ UNCHANGED transitionVars

ModalEnds == ElementEnd \/ DialogEnd \/ \E d \in DOMAIN drops : BackdropEnd(d)

-----------------------------------------------------------------------------
(* Whatever is clicked and pressed while the modal comes and goes, but for *)
(* the toggler under it: at rest the element, its listeners, the focus,    *)
(* the backdrop and the body agree with isShown, and no backdrop but the   *)
(* current one is left in the page.                                        *)
ModalRests ==
  ~hasty /\ ModalRest =>
    /\ modal.displayed = modal.isShown
    /\ modal.in = modal.isShown
    /\ modal.trap = modal.isShown
    /\ modal.bodyOpen = modal.isShown
    /\ modal.dismiss = modal.isShown
    /\ modal.keys = (modal.isShown /\ options.keyboard)
    /\ modal.drop # 0 <=> modal.isShown /\ options.backdrop # "false"
    /\ \A d \in DOMAIN drops : drops[d].inBody <=> d = modal.drop
=============================================================================
