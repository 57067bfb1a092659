----------------------------- MODULE SharedForm -----------------------------
(***************************************************************************)
(* web/shareform: the hub with the pages that share its form.              *)
(***************************************************************************)
EXTENDS ShareHub, ShareClient

CONSTANTS Leavers,  \* bound: browsers that may leave or lose the network
          Patient   \* bound: TRUE if users wait until all have joined and
                    \* every change has arrived before they edit

ASSUME FormAssumption ==
  /\ Leavers \subseteq Browsers
  /\ Patient \in BOOLEAN

vars == <<wireVars, hubVars, clientVars>>

TypeOK == WireTypeOK /\ HubTypeOK /\ ClientTypeOK

Init == WireInit /\ HubInit /\ ClientInit

(* Nothing is under way and no timer runs. *)
Quiet ==
  \A b \in Browsers :
    /\ conn[b] # "connecting"
    /\ up[b] = <<>> /\ down[b] = <<>>
    /\ writer[b] => chan[b] = <<>>
    /\ conn[b] = "open" <=> b \in reg
    /\ srv[b] \in {"none", "reads", "done"}
    /\ \A f \in Limited : ~timer[b][f]

UserEdits(b) ==
  /\ Patient => Quiet /\ reg = Browsers
  /\ \E f \in Fields, v \in Values : Edit(b, f, v)

Browse(b) ==
  /\ Load(b) \/ UserEdits(b) \/ Receive(b) \/ \E f \in Limited : Flush(b, f)
  /\ UNCHANGED hubVars

Go(b) ==
  /\ b \in Leavers
  /\ Leave(b) \/ Disconnect(b)
  /\ UNCHANGED hubVars

ServeOne(b) ==
  /\ Upgrade(b) \/ Refuse(b) \/ Serve(b)
  /\ UNCHANGED clientVars

Next ==
  \E b \in Browsers : Browse(b) \/ Go(b) \/ ServeOne(b)

(* The goroutines of the server, the network, and the event loop of a page *)
(* that is open.  Nobody has to load a page, edit or leave.                *)
Progress(b) ==
  \/ ServeOne(b)
  \/ (Receive(b) \/ \E f \in Limited : Flush(b, f)) /\ UNCHANGED hubVars

Spec == Init /\ [][Next]_vars /\ \A b \in Browsers : WF_vars(Progress(b))

-----------------------------------------------------------------------------
(* No update is sent back by those who receive it: the hub never shares    *)
(* more updates of a field than users made, but for the fields with a rate *)
(* limit (onmessage, send).                                                *)
NoEcho ==
  \A f \in Fields \ Limited : shared[f] <= edits[f]

(* When nothing is under way, everybody the hub passed the last update of  *)
(* a field to shows it, if still connected: no update is lost, or          *)
(* overtaken, or replaced by an older one on the way.                      *)
LastShareShows ==
  Quiet => \A f \in Fields \ Limited : \A b \in last[f].to :
             conn[b] = "open" => val[b][f] = last[f].msg.val

(* The hub never sends to a closed channel, which would panic: whoever is  *)
(* registered has an open one, however clients are dropped, leave and are  *)
(* lost (hub.run).                                                         *)
RegisteredCanSend ==
  \A b \in reg : ~closed[b]

(* The one panic there is, closing the channel of a client a second time   *)
(* when it unregisters, takes a client that has been dropped: not before   *)
(* more updates than a buffer holds have been shared.                      *)
PanicAfterOverflow ==
  hub = "panicked" => total > BufSize

(* Updates do not go back and forth for ever, and the server forgets who   *)
(* has gone: in the end nothing is under way and exactly the open          *)
(* connections are registered, unless the server has panicked.             *)
Settles == <>[](hub = "panicked" \/ Quiet)

(* "You'll be able to see changes to the form in both browsers" (README):  *)
(* when nothing is under way, the browsers show the same form.             *)
InSync ==
  Quiet /\ reg = Browsers => \A b, c \in Browsers : val[b] = val[c]
=============================================================================
