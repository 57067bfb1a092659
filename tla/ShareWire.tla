----------------------------- MODULE ShareWire -----------------------------
(***************************************************************************)
(* web/shareform: the WebSocket between each page and the server, what the *)
(* hub (ShareHub) and the pages (ShareClient) have in common.              *)
(***************************************************************************)
EXTENDS Naturals, Sequences, FiniteSets

CONSTANTS Browsers,  \* the pages; each is loaded at most once
          Fields,    \* the properties of the view models
          Values,    \* what a field may show
          Default    \* what it shows when the page has been loaded

ASSUME WireAssumption ==
  /\ IsFiniteSet(Browsers)
  /\ Default \in Values

VARIABLES conn,  \* conn[b]: state of the WebSocket
          up,    \* up[b]: messages sent by the page, not yet read by the hub
          down   \* down[b]: messages sent to the page, not yet received

wireVars == <<conn, up, down>>

Message == [field : Fields, val : Values]

WireTypeOK ==
  /\ conn \in [Browsers -> {"none", "connecting", "open", "closed"}]
  /\ up \in [Browsers -> Seq(Message)]
  /\ down \in [Browsers -> Seq(Message)]

WireInit ==
  /\ conn = [b \in Browsers |-> "none"]
  /\ up = [b \in Browsers |-> <<>>]
  /\ down = [b \in Browsers |-> <<>>]

(* The page or the network ends the connection: what was under way to the  *)
(* page is lost, what has come as far as the server can still be read.     *)
Cut(b) ==
  /\ conn' = [conn EXCEPT ![b] = "closed"]
  /\ down' = [down EXCEPT ![b] = <<>>]
  /\ UNCHANGED up

(* The server ends it, c.ws.Close(): what the page has sent can no longer  *)
(* be read, but for a message the reader has in its hands.                 *)
ServerCloses(b) ==
  /\ conn' = [conn EXCEPT ![b] = "closed"]
  /\ up' = [up EXCEPT ![b] = SubSeq(@, 1, IF @ = <<>> THEN 0 ELSE 1)]
  /\ UNCHANGED down
=============================================================================
