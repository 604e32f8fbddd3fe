----------------------------- MODULE Rendezvous -----------------------------
(***************************************************************************)
(* The self-hosted signaling server (apps/signaling): one goroutine reads  *)
(* each connection and routes its envelopes, one writes to it.  The hub    *)
(* keeps the connection registered for each device and the envelopes of    *)
(* devices that have none.                                                 *)
(*                                                                         *)
(* What a goroutine does while it holds the hub's lock is one step; every  *)
(* place where it holds none between two steps is a stage of its own.      *)
(***************************************************************************)
EXTENDS Integers, Sequences, SequencesExt

CONSTANTS
  Conns,              \* websocket connections, each used once
  Devices,
  DeviceOf,           \* the device that signs in on each connection
  NoConn,             \* no connection is registered, or looked up
  NoEnvelope,         \* the reader has nothing to route
  OutCapacity,        \* envelopes the channel the writer reads can hold
  MaxQueuedPerPeer,   \* ... and the peer's second channel, and the hub's queue
  Senders,            \* bound: the connections that send envelopes
  MaxSent             \* bound: envelopes each of them sends

ASSUME ConstantsAssumption ==
  /\ DeviceOf \in [Conns -> Devices]
  /\ NoConn \notin Conns
  /\ Senders \subseteq Conns
  /\ OutCapacity \in Nat \ {0}
  /\ MaxQueuedPerPeer \in Nat \ {0}
  /\ MaxSent \in Nat

\* The n-th envelope that a connection sent, and its destination.
Envelopes == [from : Senders, n : 1..MaxSent, to : Devices]

ASSUME EnvelopeAssumption == NoEnvelope \notin Envelopes

VARIABLES
  peers,      \* the connection registered for each device
  offline,    \* envelopes kept for each device that has none
  phase,      \* where ServeWebSocket is with each connection
  open,       \* the socket can be read and written
  outgoing,   \* the channel the connection's writer reads
  queue,      \* the channel used when that one is full
  writer,     \* the connection's writer goroutine
  routing,    \* how far the connection's reader is with an envelope
  held,       \* ... that envelope
  dest,       \* ... and the connection it found for it
  sent,       \* envelopes read from each connection
  delivered   \* envelopes written to each connection

connVars == <<phase, open>>
readerVars == <<routing, held, dest, sent>>
vars == <<peers, offline, connVars, outgoing, queue, writer, readerVars,
          delivered>>

Phases   == {"new", "signedIn", "flushing", "serving", "leaving",
             "unregistered", "gone"}
Stages   == {"idle", "read", "found", "missed"}
Writers  == {"none", "running", "stopped"}
Attached == {"flushing", "serving", "leaving"}

Init ==
  /\ peers = [d \in Devices |-> NoConn]
  /\ offline = [d \in Devices |-> <<>>]
  /\ phase = [c \in Conns |-> "new"]
  /\ open = [c \in Conns |-> TRUE]
  /\ outgoing = [c \in Conns |-> <<>>]
  /\ queue = [c \in Conns |-> <<>>]
  /\ writer = [c \in Conns |-> "none"]
  /\ routing = [c \in Conns |-> "idle"]
  /\ held = [c \in Conns |-> NoEnvelope]
  /\ dest = [c \in Conns |-> NoConn]
  /\ sent = [c \in Conns |-> 0]
  /\ delivered = [c \in Conns |-> <<>>]

-----------------------------------------------------------------------------
(* A connection's life.                                                    *)

Goes(c, from, to) ==
  /\ phase[c] = from
  /\ phase' = [phase EXCEPT ![c] = to]

\* The device proves its key within the nonce's time, or the socket is closed.
Authenticate(c) ==
  /\ open[c]
  /\ Goes(c, "new", "signedIn")
  /\ UNCHANGED <<peers, offline, open, outgoing, queue, writer, readerVars,
                 delivered>>

AuthFails(c) ==
  /\ Goes(c, "new", "gone")
  /\ open' = [open EXCEPT ![c] = FALSE]
  /\ UNCHANGED <<peers, offline, outgoing, queue, writer, readerVars,
                 delivered>>

Least(m, n) == IF m <= n THEN m ELSE n

\* Under the lock: the device's earlier connection is closed, the new one takes
\* its place, and what waited for the device goes into its channels, which
\* nobody else could fill before.
RegisterPeer(c) ==
  LET d      == DeviceOf[c]
      waits  == offline[d]
      first  == Least(Len(waits), OutCapacity)
      second == Least(Len(waits), OutCapacity + MaxQueuedPerPeer)
  IN  /\ Goes(c, "signedIn", "flushing")
      /\ open' = [x \in Conns |-> open[x] /\ x # peers[d]]
      /\ peers' = [peers EXCEPT ![d] = c]
      /\ outgoing' = [outgoing EXCEPT ![c] = SubSeq(waits, 1, first)]
      /\ queue' = [queue EXCEPT ![c] = SubSeq(waits, first + 1, second)]
      /\ offline' = [offline EXCEPT ![d] = SubSeq(waits, second + 1, Len(waits))]
      /\ UNCHANGED <<writer, readerVars, delivered>>

\* Mutant: what does not fit is put back and tried again.
FlushRetries(c) ==
  /\ phase[c] = "flushing"
  /\ queue[c] # <<>>
  /\ IF Len(outgoing[c]) < OutCapacity
     THEN /\ queue' = [queue EXCEPT ![c] = Tail(@)]
          /\ outgoing' = [outgoing EXCEPT ![c] = Append(@, Head(queue[c]))]
     ELSE UNCHANGED <<queue, outgoing>>
  /\ UNCHANGED <<peers, offline, connVars, writer, readerVars, delivered>>

\* The loop that moves the second channel's envelopes to the first gives up at
\* the first one that does not fit: the one it has already taken out.
FlushOne(c) ==
  /\ phase[c] = "flushing"
  /\ queue[c] # <<>>
  /\ queue' = [queue EXCEPT ![c] = Tail(@)]
  /\ IF Len(outgoing[c]) < OutCapacity
     THEN /\ outgoing' = [outgoing EXCEPT ![c] = Append(@, Head(queue[c]))]
          /\ UNCHANGED <<phase, writer>>
     ELSE /\ phase' = [phase EXCEPT ![c] = "serving"]
          /\ writer' = [writer EXCEPT ![c] = "running"]
          /\ UNCHANGED outgoing
  /\ UNCHANGED <<peers, offline, open, readerVars, delivered>>

FlushEnds(c) ==
  /\ queue[c] = <<>>
  /\ Goes(c, "flushing", "serving")
  /\ writer' = [writer EXCEPT ![c] = "running"]
  /\ UNCHANGED <<peers, offline, open, outgoing, queue, readerVars, delivered>>

\* The read fails: the socket is closed, or nothing came for too long.
ReaderEnds(c) ==
  /\ routing[c] = "idle"
  /\ Goes(c, "serving", "leaving")
  /\ UNCHANGED <<peers, offline, open, outgoing, queue, writer, readerVars,
                 delivered>>

\* Mutant: whoever is registered for the device is removed.
UnregisterAny(c) ==
  /\ Goes(c, "leaving", "unregistered")
  /\ peers' = [peers EXCEPT ![DeviceOf[c]] = NoConn]
  /\ UNCHANGED <<offline, open, outgoing, queue, writer, readerVars, delivered>>

UnregisterPeer(c) ==
  /\ Goes(c, "leaving", "unregistered")
  /\ peers' = [d \in Devices |->
                 IF d = DeviceOf[c] /\ peers[d] = c THEN NoConn ELSE peers[d]]
  /\ UNCHANGED <<offline, open, outgoing, queue, writer, readerVars, delivered>>

\* The deferred close also ends the writer's context.
Close(c) ==
  /\ Goes(c, "unregistered", "gone")
  /\ open' = [open EXCEPT ![c] = FALSE]
  /\ writer' = [writer EXCEPT ![c] = "stopped"]
  /\ UNCHANGED <<peers, offline, outgoing, queue, readerVars, delivered>>

\* The device's end of the connection goes away.
ClientGoes(c) ==
  /\ open[c]
  /\ open' = [open EXCEPT ![c] = FALSE]
  /\ UNCHANGED <<peers, offline, phase, outgoing, queue, writer, readerVars,
                 delivered>>

-----------------------------------------------------------------------------
(* The writer.                                                             *)

\* Mutant: the writer also takes from the second channel.
WriteEither(c) ==
  /\ writer[c] = "running"
  /\ open[c]
  /\ \/ /\ outgoing[c] # <<>>
        /\ outgoing' = [outgoing EXCEPT ![c] = Tail(@)]
        /\ delivered' = [delivered EXCEPT ![c] = Append(@, Head(outgoing[c]))]
        /\ UNCHANGED queue
     \/ /\ queue[c] # <<>>
        /\ queue' = [queue EXCEPT ![c] = Tail(@)]
        /\ delivered' = [delivered EXCEPT ![c] = Append(@, Head(queue[c]))]
        /\ UNCHANGED outgoing
  /\ UNCHANGED <<peers, offline, connVars, writer, readerVars>>

WriteNext(c) ==
  /\ writer[c] = "running"
  /\ outgoing[c] # <<>>
  /\ outgoing' = [outgoing EXCEPT ![c] = Tail(@)]
  /\ \/ /\ open[c]
        /\ delivered' = [delivered EXCEPT ![c] = Append(@, Head(outgoing[c]))]
        /\ UNCHANGED writer
     \/ /\ writer' = [writer EXCEPT ![c] = "stopped"]   \* the write fails
        /\ UNCHANGED delivered
  /\ UNCHANGED <<peers, offline, connVars, queue, readerVars>>

PingFails(c) ==
  /\ writer[c] = "running"
  /\ writer' = [writer EXCEPT ![c] = "stopped"]
  /\ UNCHANGED <<peers, offline, connVars, outgoing, queue, readerVars,
                 delivered>>

-----------------------------------------------------------------------------
(* The reader.                                                             *)

\* An envelope of the connection's own device; a push it starts comes first
\* and takes any time.
Read(c) ==
  /\ c \in Senders
  /\ phase[c] = "serving"
  /\ open[c]
  /\ routing[c] = "idle"
  /\ sent[c] < MaxSent
  /\ sent' = [sent EXCEPT ![c] = @ + 1]
  /\ \E d \in Devices \ {DeviceOf[c]} :
       held' = [held EXCEPT ![c] = [from |-> c, n |-> sent[c] + 1, to |-> d]]
  /\ routing' = [routing EXCEPT ![c] = "read"]
  /\ UNCHANGED <<peers, offline, connVars, outgoing, queue, writer, dest,
                 delivered>>

\* Under the read lock only: whoever is found may be gone when it is sent to.
LookUp(c) ==
  /\ routing[c] = "read"
  /\ LET found == peers[held[c].to]
     IN  /\ dest' = [dest EXCEPT ![c] = found]
         /\ routing' = [routing EXCEPT
                          ![c] = IF found = NoConn THEN "missed" ELSE "found"]
  /\ UNCHANGED <<peers, offline, connVars, outgoing, queue, writer, held, sent,
                 delivered>>

\* Never waits: the first channel, else the second, else the envelope is lost.
Send(x, e) ==
  \/ /\ Len(outgoing[x]) < OutCapacity
     /\ outgoing' = [outgoing EXCEPT ![x] = Append(@, e)]
     /\ UNCHANGED queue
  \/ /\ Len(outgoing[x]) >= OutCapacity
     /\ Len(queue[x]) < MaxQueuedPerPeer
     /\ queue' = [queue EXCEPT ![x] = Append(@, e)]
     /\ UNCHANGED outgoing
  \/ /\ Len(outgoing[x]) >= OutCapacity
     /\ Len(queue[x]) >= MaxQueuedPerPeer
     /\ UNCHANGED <<outgoing, queue>>

Routed(c) ==
  /\ routing' = [routing EXCEPT ![c] = "idle"]
  /\ held' = [held EXCEPT ![c] = NoEnvelope]
  /\ dest' = [dest EXCEPT ![c] = NoConn]
  /\ UNCHANGED sent

SendFound(c) ==
  /\ routing[c] = "found"
  /\ Send(dest[c], held[c])
  /\ Routed(c)
  /\ UNCHANGED <<peers, offline, connVars, writer, delivered>>

\* Mutant: the device is not looked up again.
QueueUnchecked(c) ==
  /\ routing[c] = "missed"
  /\ IF Len(offline[held[c].to]) < MaxQueuedPerPeer
     THEN offline' = [offline EXCEPT ![held[c].to] = Append(@, held[c])]
     ELSE UNCHANGED offline
  /\ Routed(c)
  /\ UNCHANGED <<peers, connVars, outgoing, queue, writer, delivered>>

\* Under the lock, which shows whether the device has come in between.
QueueForOffline(c) ==
  LET e == held[c]
      d == e.to
  IN  /\ routing[c] = "missed"
      /\ \/ /\ peers[d] # NoConn
            /\ Send(peers[d], e)
            /\ UNCHANGED offline
         \/ /\ peers[d] = NoConn
            /\ Len(offline[d]) < MaxQueuedPerPeer
            /\ offline' = [offline EXCEPT ![d] = Append(@, e)]
            /\ UNCHANGED <<outgoing, queue>>
         \/ /\ peers[d] = NoConn
            /\ Len(offline[d]) >= MaxQueuedPerPeer
            /\ UNCHANGED <<offline, outgoing, queue>>
      /\ Routed(c)
      /\ UNCHANGED <<peers, connVars, writer, delivered>>

-----------------------------------------------------------------------------
Next ==
  \E c \in Conns :
    \/ Authenticate(c) \/ AuthFails(c) \/ RegisterPeer(c)
    \/ FlushOne(c) \/ FlushEnds(c)
    \/ ReaderEnds(c) \/ UnregisterPeer(c) \/ Close(c) \/ ClientGoes(c)
    \/ WriteNext(c) \/ PingFails(c)
    \/ Read(c) \/ LookUp(c) \/ SendFound(c) \/ QueueForOffline(c)

Spec == Init /\ [][Next]_vars

\* Every goroutine that can run does.  No client has to come back, and a read
\* has to end only once its socket is closed.
Fairness ==
  \A c \in Conns :
    /\ WF_vars(FlushOne(c) \/ FlushEnds(c))
    /\ WF_vars(~open[c] /\ ReaderEnds(c))
    /\ WF_vars(UnregisterPeer(c) \/ Close(c))
    /\ WF_vars(WriteNext(c))
    /\ WF_vars(LookUp(c) \/ SendFound(c) \/ QueueForOffline(c))

FairSpec == Spec /\ Fairness

-----------------------------------------------------------------------------
(* Properties.                                                             *)

TypeOK ==
  /\ peers \in [Devices -> Conns \cup {NoConn}]
  /\ offline \in [Devices -> Seq(Envelopes)]
  /\ phase \in [Conns -> Phases]
  /\ open \in [Conns -> BOOLEAN]
  /\ outgoing \in [Conns -> Seq(Envelopes)]
  /\ queue \in [Conns -> Seq(Envelopes)]
  /\ writer \in [Conns -> Writers]
  /\ routing \in [Conns -> Stages]
  /\ held \in [Conns -> Envelopes \cup {NoEnvelope}]
  /\ dest \in [Conns -> Conns \cup {NoConn}]
  /\ sent \in [Conns -> 0..MaxSent]
  /\ delivered \in [Conns -> Seq(Envelopes)]
  /\ \A d \in Devices : Len(offline[d]) <= MaxQueuedPerPeer
  /\ \A c \in Conns :
       Len(outgoing[c]) <= OutCapacity /\ Len(queue[c]) <= MaxQueuedPerPeer

\* Whatever order connections of one device come and go in, the hub routes to
\* the one whose socket still works: an attached connection with an open socket
\* is the registered one, and no connection stays registered after it left
\* (registerPeer closes the one it replaces, unregisterPeer removes only its
\* own).
RegisteredIsAttached ==
  /\ \A c \in Conns :
       phase[c] \in Attached /\ open[c] => peers[DeviceOf[c]] = c
  /\ \A d \in Devices :
       peers[d] # NoConn =>
         phase[peers[d]] \in Attached /\ DeviceOf[peers[d]] = d

\* No envelope is left in the hub's queue of a device that is connected, where
\* only its next reconnect would find it: registerPeer drains all of it, and
\* queueForOffline looks again before it keeps one.
OnlineHasNoBacklog ==
  \A d \in Devices : peers[d] # NoConn => offline[d] = <<>>

\* Envelopes from one connection are written to another in the order they were
\* sent, and none twice, although they may pass the hub's queue, two channels
\* and a reconnect.
DeliveredInOrder ==
  \A c \in Conns : \A i, j \in 1..Len(delivered[c]) :
    i < j /\ delivered[c][i].from = delivered[c][j].from
      => delivered[c][i].n < delivered[c][j].n

\* What reaches the writer's channel is written, unless the socket or the
\* writer fails first: a connection whose channels were filled before its
\* writer started still gets a writer.
OutgoingIsWritten ==
  \A c \in Conns : \A e \in Envelopes :
    Contains(outgoing[c], e) ~>
      Contains(delivered[c], e) \/ ~open[c] \/ writer[c] = "stopped"

\* A receiver that reads nothing never holds up the connection that sends to
\* it: routing an envelope always ends.
RoutingEnds ==
  \A c \in Conns : routing[c] # "idle" ~> routing[c] = "idle"

\* A replaced or broken connection leaves the hub.
ClosedIsRemoved ==
  \A c \in Conns :
    ~open[c] /\ phase[c] \in Attached ~> phase[c] = "gone"

\* What was queued for a device is delivered when it reconnects
\* (apps/signaling/README.md), also what its reconnect put in the second
\* channel.
QueuedIsDelivered ==
  \A c \in Conns : \A e \in Envelopes :
    Contains(queue[c], e) ~>
      Contains(delivered[c], e) \/ ~open[c] \/ writer[c] = "stopped"
=============================================================================
