------------------------------ MODULE ShareHub ------------------------------
(***************************************************************************)
(* web/shareform/shform.go: the hub, and for each WebSocket the handler    *)
(* serveWs, which becomes the reader, and the writer.                      *)
(***************************************************************************)
EXTENDS ShareWire

CONSTANTS BufSize,  \* room in the channel to a writer, 256 in the code
          CountTo   \* bound: the history counts no further, but beyond BufSize

ASSUME HubAssumption ==
  /\ BufSize \in Nat \ {0}
  /\ CountTo \in Nat /\ CountTo > BufSize

VARIABLES hub,     \* "runs", or "panicked" and the server with it
          reg,     \* h.connections
          srv,     \* srv[b]: where serveWs is for b
          writer,  \* writer[b]: c.writer() runs
          chan,    \* chan[b]: what c.send holds
          closed,  \* closed[b]: c.send has been closed
          last,    \* history: last[f] is the last update of f the hub shared
          shared,  \* history: shared[f] counts the updates of f it shared
          total    \* history: total counts the updates of all fields

serverVars == <<hub, reg, srv, writer, chan, closed>>
hubVars == <<serverVars, last, shared, total>>

Shares == [msg : Message, from : Browsers, to : SUBSET Browsers]
NoShare == [to |-> {}]

Counted(n) == IF n < CountTo THEN n + 1 ELSE n

HubTypeOK ==
  /\ hub \in {"runs", "panicked"}
  /\ reg \subseteq Browsers
  /\ srv \in [Browsers -> {"none", "registers", "reads", "unregisters", "done"}]
  /\ writer \in [Browsers -> BOOLEAN]
  /\ chan \in [Browsers -> Seq(Message)]
  /\ \A b \in Browsers : Len(chan[b]) <= BufSize
  /\ closed \in [Browsers -> BOOLEAN]
  /\ last \in [Fields -> Shares \cup {NoShare}]
  /\ shared \in [Fields -> 0..CountTo]
  /\ total \in 0..CountTo

HubInit ==
  /\ hub = "runs"
  /\ reg = {}
  /\ srv = [b \in Browsers |-> "none"]
  /\ writer = [b \in Browsers |-> FALSE]
  /\ chan = [b \in Browsers |-> <<>>]
  /\ closed = [b \in Browsers |-> FALSE]
  /\ last = [f \in Fields |-> NoShare]
  /\ shared = [f \in Fields |-> 0]
  /\ total = 0

-----------------------------------------------------------------------------
(* serveWs: the upgrade succeeds, or the request is refused (no session, a *)
(* bad handshake), or the server is gone.                                  *)
Upgrade(b) ==
  /\ hub = "runs"
  /\ conn[b] = "connecting"
  /\ conn' = [conn EXCEPT ![b] = "open"]
  /\ srv' = [srv EXCEPT ![b] = "registers"]
  /\ UNCHANGED <<up, down, hub, reg, writer, chan, closed, last, shared, total>>

Refuse(b) ==
  /\ conn[b] = "connecting"
  /\ conn' = [conn EXCEPT ![b] = "closed"]
  /\ UNCHANGED <<up, down, hubVars>>

(* h.register <- c, then the writer and the reader start. *)
Register(b) ==
  /\ hub = "runs" /\ srv[b] = "registers"
  /\ reg' = reg \cup {b}
  /\ srv' = [srv EXCEPT ![b] = "reads"]
  /\ writer' = [writer EXCEPT ![b] = TRUE]
  /\ UNCHANGED <<wireVars, hub, chan, closed, last, shared, total>>

(* Mutants: a buffer of one more; a full client loses the update only.     *)
ShareOffByOne(b) ==
  /\ hub = "runs" /\ srv[b] = "reads" /\ up[b] # <<>>
  /\ LET m == Head(up[b])
         room == {c \in reg \ {b} : Len(chan[c]) <= BufSize}
     IN /\ chan' = [c \in Browsers |-> IF c \in room THEN Append(chan[c], m) ELSE chan[c]]
        /\ last' = [last EXCEPT ![m.field] = [msg |-> m, from |-> b, to |-> room]]
        /\ shared' = [shared EXCEPT ![m.field] = Counted(@)]
        /\ total' = Counted(total)
  /\ up' = [up EXCEPT ![b] = Tail(@)]
  /\ UNCHANGED <<conn, down, hub, reg, srv, writer, closed>>

ShareForgetsFull(b) ==
  /\ hub = "runs" /\ srv[b] = "reads" /\ up[b] # <<>>
  /\ LET m == Head(up[b])
         room == {c \in reg \ {b} : Len(chan[c]) < BufSize}
     IN /\ chan' = [c \in Browsers |-> IF c \in room THEN Append(chan[c], m) ELSE chan[c]]
        /\ last' = [last EXCEPT ![m.field] = [msg |-> m, from |-> b, to |-> reg \ {b}]]
        /\ shared' = [shared EXCEPT ![m.field] = Counted(@)]
        /\ total' = Counted(total)
  /\ up' = [up EXCEPT ![b] = Tail(@)]
  /\ UNCHANGED <<conn, down, hub, reg, srv, writer, closed>>

(* The reader of b hands a message to the hub, which passes it to every    *)
(* other client that has room and drops every client that has none.  The   *)
(* loop over the clients is one step: what a writer or a page does during  *)
(* the loop might as well have been done before it or after it.            *)
Share(b) ==
  /\ hub = "runs" /\ srv[b] = "reads" /\ up[b] # <<>>
  /\ LET m == Head(up[b])
         others == reg \ {b}
         room == {c \in others : Len(chan[c]) < BufSize}
         full == others \ room
     IN /\ chan' = [c \in Browsers |-> IF c \in room THEN Append(chan[c], m) ELSE chan[c]]
        /\ reg' = reg \ full
        /\ closed' = [c \in Browsers |-> closed[c] \/ c \in full]
        /\ last' = [last EXCEPT ![m.field] = [msg |-> m, from |-> b, to |-> others]]
        /\ shared' = [shared EXCEPT ![m.field] = Counted(@)]
        /\ total' = Counted(total)
  /\ up' = [up EXCEPT ![b] = Tail(@)]
  /\ UNCHANGED <<conn, down, hub, srv, writer>>

(* "go c.ws.Close()" for a client that was dropped. *)
CloseDropped(b) ==
  /\ hub = "runs" /\ closed[b] /\ conn[b] = "open"
  /\ ServerCloses(b)
  /\ UNCHANGED hubVars

(* Mutant: the reader closes the channel itself.                           *)
ReaderClosesChannel(b) ==
  /\ hub = "runs" /\ srv[b] = "reads" /\ conn[b] # "open"
  /\ srv' = [srv EXCEPT ![b] = "unregisters"]
  /\ up' = [up EXCEPT ![b] = <<>>]
  /\ closed' = [closed EXCEPT ![b] = TRUE]
  /\ UNCHANGED <<conn, down, hub, reg, writer, chan, last, shared, total>>

(* Mutant: serveWs returns without the deferred unregister.                *)
ReaderJustEnds(b) ==
  /\ hub = "runs" /\ srv[b] = "reads" /\ conn[b] # "open"
  /\ srv' = [srv EXCEPT ![b] = "done"]
  /\ up' = [up EXCEPT ![b] = <<>>]
  /\ UNCHANGED <<conn, down, hub, reg, writer, chan, closed, last, shared, total>>

(* ReadMessage fails: the reader closes the WebSocket and serveWs returns. *)
ReaderEnds(b) ==
  /\ hub = "runs" /\ srv[b] = "reads" /\ conn[b] # "open"
  /\ srv' = [srv EXCEPT ![b] = "unregisters"]
  /\ up' = [up EXCEPT ![b] = <<>>]
  /\ UNCHANGED <<conn, down, hub, reg, writer, chan, closed, last, shared, total>>

(* Mutant: a client that unregisters stays in h.connections.               *)
UnregisterKeeps(b) ==
  /\ hub = "runs" /\ srv[b] = "unregisters"
  /\ srv' = [srv EXCEPT ![b] = "done"]
  /\ closed' = [closed EXCEPT ![b] = TRUE]
  /\ UNCHANGED <<wireVars, hub, reg, writer, chan, last, shared, total>>

(* The deferred h.unregister <- c.  Closing a channel twice panics, and    *)
(* ends the server with all its connections.                               *)
Unregister(b) ==
  /\ hub = "runs" /\ srv[b] = "unregisters"
  /\ reg' = reg \ {b}
  /\ srv' = [srv EXCEPT ![b] = "done"]
  /\ IF closed[b]
     THEN /\ hub' = "panicked"
          /\ conn' = [c \in Browsers |-> IF conn[c] = "none" THEN "none" ELSE "closed"]
          /\ UNCHANGED closed
     ELSE /\ closed' = [closed EXCEPT ![b] = TRUE]
          /\ UNCHANGED <<hub, conn>>
  /\ UNCHANGED <<up, down, writer, chan, last, shared, total>>

(* The writer sends what it takes from the channel, which may be closed    *)
(* already but keeps what it holds.                                        *)
WriterSends(b) ==
  /\ hub = "runs" /\ writer[b] /\ chan[b] # <<>> /\ conn[b] = "open"
  /\ chan' = [chan EXCEPT ![b] = Tail(@)]
  /\ down' = [down EXCEPT ![b] = Append(@, Head(chan[b]))]
  /\ UNCHANGED <<conn, up, hub, reg, srv, writer, closed, last, shared, total>>

(* It ends when a write fails, or the channel is closed and empty, and     *)
(* closes the WebSocket.                                                   *)
WriterFails(b) ==
  /\ hub = "runs" /\ writer[b] /\ chan[b] # <<>> /\ conn[b] # "open"
  /\ chan' = [chan EXCEPT ![b] = Tail(@)]
  /\ writer' = [writer EXCEPT ![b] = FALSE]
  /\ UNCHANGED <<wireVars, hub, reg, srv, closed, last, shared, total>>

WriterEnds(b) ==
  /\ hub = "runs" /\ writer[b] /\ chan[b] = <<>> /\ closed[b]
  /\ writer' = [writer EXCEPT ![b] = FALSE]
  /\ IF conn[b] = "open" THEN ServerCloses(b) ELSE UNCHANGED wireVars
  /\ UNCHANGED <<hub, reg, srv, chan, closed, last, shared, total>>

Serve(b) ==
  \/ Register(b) \/ Share(b) \/ CloseDropped(b) \/ ReaderEnds(b)
  \/ Unregister(b) \/ WriterSends(b) \/ WriterFails(b) \/ WriterEnds(b)
=============================================================================
