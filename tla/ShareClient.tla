---------------------------- MODULE ShareClient ----------------------------
(***************************************************************************)
(* web/shareform/shform.js: the pages.  Each keeps its own copy of the     *)
(* form in knockout observables, sends what its user changes, and takes    *)
(* over what it receives.                                                  *)
(***************************************************************************)
EXTENDS ShareWire

CONSTANTS Limited,   \* the fields with a rate limit: bandVal
          MaxEdits   \* bound: MaxEdits[f] edits of f by all users together

ASSUME ClientAssumption ==
  /\ Limited \subseteq Fields
  /\ MaxEdits \in [Fields -> Nat]

VARIABLES page,          \* page[b]: the page is loaded and not left
          val,           \* val[b][f]: the observable, and what the form shows
          slow,          \* slow[b][f]: what the limited observable last told
          timer,         \* timer[b][f]: it waits for the changes to stop
          lastReceived,  \* lastReceived[b]
          edits          \* history: edits[f] counts what users did to f

pageVars == <<page, val, slow, timer, lastReceived>>
clientVars == <<pageVars, edits>>

None == [field |-> "none"]

ClientTypeOK ==
  /\ page \in [Browsers -> BOOLEAN]
  /\ val \in [Browsers -> [Fields -> Values]]
  /\ slow \in [Browsers -> [Fields -> Values]]
  /\ timer \in [Browsers -> [Fields -> BOOLEAN]]
  /\ \A b \in Browsers, f \in Fields : timer[b][f] => f \in Limited
  /\ lastReceived \in [Browsers -> Message \cup {None}]
  /\ edits \in [Fields -> Nat]

ClientInit ==
  /\ page = [b \in Browsers |-> FALSE]
  /\ val = [b \in Browsers |-> [f \in Fields |-> Default]]
  /\ slow = [b \in Browsers |-> [f \in Fields |-> Default]]
  /\ timer = [b \in Browsers |-> [f \in Fields |-> FALSE]]
  /\ lastReceived = [b \in Browsers |-> None]
  /\ edits = [f \in Fields |-> 0]

-----------------------------------------------------------------------------
(* The page is loaded: setupWs, and view models with their defaults.       *)
Load(b) ==
  /\ ~page[b] /\ conn[b] = "none"
  /\ page' = [page EXCEPT ![b] = TRUE]
  /\ conn' = [conn EXCEPT ![b] = "connecting"]
  /\ UNCHANGED <<up, down, val, slow, timer, lastReceived, edits>>

(* send(): not what was received last, and not without a connection: a     *)
(* WebSocket that still connects throws, one that has closed discards.     *)
Sends(b, m, received) == m # received /\ conn[b] = "open"

Send(b, m, received) ==
  up' = IF Sends(b, m, received) THEN [up EXCEPT ![b] = Append(@, m)] ELSE up

(* The observable of f changes to v: a limited one waits before it tells,  *)
(* and starts to wait again with every change; another tells at once.      *)
Change(b, f, v, received) ==
  /\ val' = [val EXCEPT ![b][f] = v]
  /\ IF f \in Limited
     THEN /\ timer' = [timer EXCEPT ![b][f] = TRUE]
          /\ UNCHANGED up
     ELSE /\ Send(b, [field |-> f, val |-> v], received)
          /\ UNCHANGED timer

(* A user changes a field.  What was typed is never the initial undefined. *)
Edit(b, f, v) ==
  /\ page[b]
  /\ v # val[b][f]
  /\ f \in Limited => v # Default
  /\ edits[f] < MaxEdits[f]
  /\ edits' = [edits EXCEPT ![f] = @ + 1]
  /\ Change(b, f, v, lastReceived[b])
  /\ UNCHANGED <<conn, down, page, slow, lastReceived>>

(* Mutant: lastReceived is set after the observable.                       *)
ReceiveThenNote(b) ==
  /\ page[b] /\ down[b] # <<>>
  /\ LET m == Head(down[b])
     IN /\ lastReceived' = [lastReceived EXCEPT ![b] = m]
        /\ IF m.val # val[b][m.field] THEN Change(b, m.field, m.val, lastReceived[b])
                                      ELSE UNCHANGED <<up, val, timer>>
  /\ down' = [down EXCEPT ![b] = Tail(@)]
  /\ UNCHANGED <<conn, page, slow, edits>>

(* wsconn.onmessage.  An observable that has the value already is silent.  *)
Receive(b) ==
  /\ page[b] /\ down[b] # <<>>
  /\ LET m == Head(down[b])
     IN /\ lastReceived' = [lastReceived EXCEPT ![b] = m]
        /\ IF m.val # val[b][m.field] THEN Change(b, m.field, m.val, m)
                                      ELSE UNCHANGED <<up, val, timer>>
  /\ down' = [down EXCEPT ![b] = Tail(@)]
  /\ UNCHANGED <<conn, page, slow, edits>>

(* The 400 ms without a change are over: the limited observable tells its  *)
(* value if it differs from the one it told before.                        *)
Flush(b, f) ==
  /\ page[b] /\ timer[b][f]
  /\ timer' = [timer EXCEPT ![b][f] = FALSE]
  /\ slow' = [slow EXCEPT ![b][f] = val[b][f]]
  /\ IF val[b][f] # slow[b][f]
     THEN Send(b, [field |-> f, val |-> val[b][f]], lastReceived[b])
     ELSE UNCHANGED up
  /\ UNCHANGED <<conn, down, page, val, lastReceived, edits>>

(* The user closes the page. *)
Leave(b) ==
  /\ page[b]
  /\ page' = [page EXCEPT ![b] = FALSE]
  /\ timer' = [timer EXCEPT ![b] = [f \in Fields |-> FALSE]]
  /\ Cut(b)
  /\ UNCHANGED <<val, slow, lastReceived, edits>>

(* The network drops the connection: onclose logs it, nothing reconnects.  *)
Disconnect(b) ==
  /\ page[b] /\ conn[b] = "open"
  /\ Cut(b)
  /\ UNCHANGED clientVars
=============================================================================
