---------------------------- MODULE SignalQueue ----------------------------
(***************************************************************************)
(* Connections of one device to the signaling hub and the envelopes sent   *)
(* to it (SignalingHub in cloudflare-signal/src/index.ts): how a newer     *)
(* connection replaces an older one, what is sent at once, what waits in   *)
(* the offline queue, and what a hibernated or crashed object keeps of it. *)
(* Whether a sender may reach the device is PairAccess; here that check is *)
(* the await it takes.                                                     *)
(***************************************************************************)
EXTENDS Naturals, Sequences, FiniteSets, FiniteSetsExt, Subsequence

CONSTANTS
  MaxConns,      \* bound: connections of the device
  MaxEnvelopes,  \* bound: envelopes sent to it
  MaxQueued,     \* MAX_QUEUED_PER_PEER
  TTL,           \* OFFLINE_QUEUE_TTL_MS, in ticks
  MaxNow,        \* bound: ticks
  MaxFaults      \* bound: rebuilds of the object and failed cleanups of the alarm

Sockets == 1 .. MaxConns
Envelopes == 1 .. MaxEnvelopes
Never == MaxNow + TTL + 1
Unsent == MaxConns + 1     \* an envelope that has not arrived
Handled == MaxConns + 2    \* one whose handler ended
Running == 0 .. MaxConns   \* one whose handler runs, with its destination

VARIABLES
  now, alarm,
  conn,      \* where each connection's handler is
  open,      \* connections whose socket is open
  peer,      \* the registered connection, or 0
  silent,    \* the registered connection stopped pinging without a close
  queue,     \* the offline queue in memory
  stored,    \* the offline queue in storage
  flush,     \* entries a connection's flush still has to send, and where to
  checking,  \* where an envelope's handler found its destination, Unsent or Handled
  got,       \* how often each envelope was sent
  faults,
  crashed    \* history: an object with a flush or an envelope's check running was lost

sockets == <<conn, open, peer, silent>>
queues == <<queue, stored, alarm>>
vars == <<now, sockets, queues, flush, checking, got, faults, crashed>>

NoFlush == [to |-> 0, items |-> <<>>]

Init ==
  /\ now = 0 /\ alarm = Never
  /\ conn = [c \in Sockets |-> "none"] /\ open = {} /\ peer = 0 /\ silent = FALSE
  /\ queue = <<>> /\ stored = <<>>
  /\ flush = [c \in Sockets |-> NoFlush]
  /\ checking = [e \in Envelopes |-> Unsent]
  /\ got = [e \in Envelopes |-> 0]
  /\ faults = 0 /\ crashed = FALSE

-----------------------------------------------------------------------------
(* Helpers. *)

Fresh(entry) == now - entry.at < TTL
FreshOnly(q) == Keep(q, {i \in DOMAIN q : Fresh(q[i])})

\* The last MaxQueued entries.
Limited(q) == IF Len(q) > MaxQueued THEN SubSeq(q, Len(q) - MaxQueued + 1, Len(q)) ELSE q

\* scheduleQueueCleanup: when the first entry of q expires.
NextExpiry(q) ==
  IF q = <<>> THEN Never
  ELSE Min({IF Fresh(q[i]) THEN q[i].at + TTL ELSE now : i \in DOMAIN q})

Persist(q) == queue' = q /\ stored' = q /\ alarm' = NextExpiry(q)

\* evictExpiredState: memory is pruned, and storage when that changed anything.
Evict == Persist(FreshOnly(queue)) \/ (FreshOnly(queue) = queue /\ UNCHANGED <<queue, stored>> /\ alarm' = NextExpiry(queue))

Unregister(c) == IF peer = c THEN peer' = 0 /\ silent' = FALSE ELSE UNCHANGED <<peer, silent>>

-----------------------------------------------------------------------------
(* Connections: fetch, handleClientAuth, webSocketClose. *)

\* The socket is accepted and its client_auth arrives; the signature check yields.
Accept(c) ==
  /\ conn[c] = "none" /\ \A d \in Sockets : d < c => conn[d] # "none"
  /\ conn' = [conn EXCEPT ![c] = "verify"] /\ open' = open \cup {c}
  /\ UNCHANGED <<now, peer, silent, queues, flush, checking, got, faults, crashed>>

\* Signed in: a connection of the same device is closed and replaced.
Register(c) ==
  /\ conn[c] = "verify" /\ c \in open
  /\ open' = open \ ({peer} \ {c})
  /\ peer' = c /\ silent' = FALSE
  /\ conn' = [conn EXCEPT ![c] = "touch"]
  /\ UNCHANGED <<now, queues, flush, checking, got, faults, crashed>>

\* After last-seen was written: a connection that closed meanwhile goes.
Touched(c) ==
  /\ conn[c] = "touch"
  /\ IF c \in open THEN conn' = [conn EXCEPT ![c] = "identity"] /\ UNCHANGED <<peer, silent>>
     ELSE conn' = [conn EXCEPT ![c] = "gone"] /\ Unregister(c)
  /\ UNCHANGED <<now, open, queues, flush, checking, got, faults, crashed>>

\* webSocketClose and webSocketError unregister after an await of their own.
Close(c) ==
  /\ c \in open /\ open' = open \ {c}
  /\ UNCHANGED <<now, conn, peer, silent, queues, flush, checking, got, faults, crashed>>

Closed(c) ==
  /\ c \notin open /\ (peer = c \/ conn[c] = "verify")
  /\ Unregister(c)
  /\ conn' = IF conn[c] = "verify" THEN [conn EXCEPT ![c] = "gone"] ELSE conn
  /\ UNCHANGED <<now, open, queues, flush, checking, got, faults, crashed>>

GoesSilent ==
  /\ peer \in open /\ ~silent /\ silent' = TRUE
  /\ UNCHANGED <<now, conn, open, peer, queues, flush, checking, got, faults, crashed>>

-----------------------------------------------------------------------------
(* The flush: it takes the queue from memory, asks for each entry whether   *)
(* its sender may still send it, and stores the queue at its end.           *)

FlushStarts(c) ==
  /\ conn[c] = "identity"
  /\ IF peer = 0 THEN conn' = [conn EXCEPT ![c] = "ready"] /\ UNCHANGED <<flush, queue>>
     ELSE /\ flush' = [flush EXCEPT ![c] = [to |-> peer, items |-> queue]]
          /\ queue' = <<>>
          /\ conn' = [conn EXCEPT ![c] = "flush"]
  /\ UNCHANGED <<now, open, peer, silent, stored, alarm, checking, got, faults, crashed>>

\* An entry that expired meanwhile is dropped; one whose destination closed
\* goes back into the queue.
FlushDrops(c) ==
  /\ conn[c] = "flush" /\ flush[c].items # <<>>
  /\ LET entry == Head(flush[c].items)
     IN  IF Fresh(entry) /\ flush[c].to \in open THEN got' = [got EXCEPT ![entry.e] = @ + 1] ELSE UNCHANGED got
  /\ flush' = [flush EXCEPT ![c].items = Tail(@)]
  /\ UNCHANGED <<now, sockets, queues, checking, faults, crashed>>

FlushNext(c) ==
  /\ conn[c] = "flush" /\ flush[c].items # <<>>
  /\ LET entry == Head(flush[c].items)
     IN  \/ Fresh(entry) /\ flush[c].to \in open
            /\ got' = [got EXCEPT ![entry.e] = @ + 1] /\ UNCHANGED queue
         \/ Fresh(entry) /\ flush[c].to \notin open
            /\ queue' = Limited(Append(queue, entry)) /\ UNCHANGED got
         \/ ~Fresh(entry) /\ UNCHANGED <<got, queue>>
  /\ flush' = [flush EXCEPT ![c].items = Tail(@)]
  /\ UNCHANGED <<now, sockets, stored, alarm, checking, faults, crashed>>

FlushEnds(c) ==
  /\ conn[c] = "flush" /\ flush[c].items = <<>>
  /\ Persist(queue)
  /\ flush' = [flush EXCEPT ![c] = NoFlush]
  /\ conn' = [conn EXCEPT ![c] = "ready"]
  /\ UNCHANGED <<now, open, peer, silent, checking, got, faults, crashed>>

-----------------------------------------------------------------------------
(* An envelope: handleEnvelope. *)

\* The destination is looked up before the check; a silent Mac's socket is
\* closed, so that the envelope waits for its reconnect.
Envelope(e) ==
  /\ checking[e] = Unsent /\ got[e] = 0 /\ \A d \in Envelopes : d < e => checking[d] # Unsent
  /\ Evict
  /\ IF silent
     THEN open' = open \ {peer} /\ peer' = 0 /\ silent' = FALSE /\ checking' = [checking EXCEPT ![e] = 0]
     ELSE UNCHANGED <<open, peer, silent>> /\ checking' = [checking EXCEPT ![e] = peer]
  /\ UNCHANGED <<now, conn, flush, got, faults, crashed>>

EnvelopeChecked(e) ==
  /\ checking[e] \in Running
  /\ checking' = [checking EXCEPT ![e] = Handled]
  /\ IF checking[e] \in open
     THEN got' = [got EXCEPT ![e] = @ + 1] /\ UNCHANGED <<peer, silent, queues>>
     ELSE /\ Unregister(checking[e])
          /\ Persist(Limited(Append(queue, [e |-> e, at |-> now])))
          /\ UNCHANGED got
  /\ UNCHANGED <<now, conn, open, flush, faults, crashed>>

-----------------------------------------------------------------------------
(* Time, the alarm, and the object's memory. *)

Tick ==
  /\ now < MaxNow /\ alarm > now
  /\ now' = now + 1
  /\ UNCHANGED <<sockets, queues, flush, checking, got, faults, crashed>>

\* A failed cleanup is retried, and may already have pruned memory.
Alarm ==
  /\ alarm <= now
  /\ \/ Persist(FreshOnly(queue)) /\ UNCHANGED faults
     \/ /\ faults < MaxFaults /\ faults' = faults + 1
        /\ queue' = FreshOnly(queue) /\ alarm' = now + 1 /\ UNCHANGED stored
  /\ UNCHANGED <<now, sockets, flush, checking, got, crashed>>

Flushing == \E c \in Sockets : conn[c] = "flush"
Quiet == ~Flushing /\ \A e \in Envelopes : checking[e] \notin Running

Rebuilt ==
  /\ faults < MaxFaults /\ faults' = faults + 1
  /\ flush' = [c \in Sockets |-> NoFlush]
  /\ checking' = [e \in Envelopes |-> IF checking[e] = Unsent THEN Unsent ELSE Handled]
  /\ queue' = FreshOnly(stored)
  /\ stored' = FreshOnly(stored) /\ alarm' = NextExpiry(stored')
  /\ UNCHANGED <<now, got>>

\* Evicted while it waits: the sockets stay, and are registered again.
Hibernate ==
  /\ Quiet /\ \A c \in Sockets : conn[c] \in {"none", "ready", "gone"}
  /\ Rebuilt
  /\ silent' = FALSE /\ UNCHANGED <<conn, open, peer, crashed>>

Crash ==
  /\ Rebuilt
  /\ open' = {} /\ peer' = 0 /\ silent' = FALSE
  /\ conn' = [c \in Sockets |-> IF conn[c] = "none" THEN "none" ELSE "gone"]
  /\ crashed' = (crashed \/ ~Quiet)

-----------------------------------------------------------------------------
Handler(c) == Register(c) \/ Touched(c) \/ Closed(c) \/ FlushStarts(c) \/ FlushNext(c) \/ FlushEnds(c)

Next ==
  \/ \E c \in Sockets : Handler(c) \/ Accept(c) \/ Close(c)
  \/ \E e \in Envelopes : Envelope(e) \/ EnvelopeChecked(e)
  \/ GoesSilent \/ Tick \/ Alarm \/ Hibernate \/ Crash

Spec == Init /\ [][Next]_vars

-----------------------------------------------------------------------------
(* Properties. *)

Queue == Seq([e : Envelopes, at : 0 .. MaxNow])

\* The types, and the limit of the queue in memory and storage.
TypeOK ==
  /\ queue \in Queue /\ stored \in Queue /\ Len(queue) <= MaxQueued /\ Len(stored) <= MaxQueued
  /\ open \subseteq Sockets /\ peer \in 0 .. MaxConns /\ alarm \in 0 .. Never

\* Of a device's signed-in connections at most one is open, and envelopes go
\* to that one: a replaced connection gets nothing more.
OneLiveConnection ==
  \A c \in open : conn[c] \in {"touch", "identity", "flush", "ready"} => peer = c

\* An envelope is sent at most once, unless a crash cut off a flush.
SentOnce == ~crashed => \A e \in Envelopes : got[e] <= 1

\* With no flush running, storage holds the queue: a crash loses no envelope
\* the hub accepted.
QueueIsDurable == ~Flushing => FreshOnly(stored) = FreshOnly(queue)

\* Every queued envelope has an alarm at or before its expiry, or one that is
\* due, or the retry of a failed cleanup.
ExpiryIsWatched ==
  ~Flushing => \A i \in DOMAIN queue :
    alarm <= queue[i].at + TTL \/ alarm <= now \/ (faults > 0 /\ alarm <= now + 1)

Waits(e) ==
  \/ \E i \in DOMAIN queue : queue[i].e = e
  \/ \E c \in Sockets : \E i \in DOMAIN flush[c].items : flush[c].items[i].e = e

\* Before anything expires, an envelope that was accepted was sent or waits,
\* whatever connections were replaced, closed or fell silent under it: only
\* those over the limit of the queue are gone.
NothingIsLost ==
  LET accepted == {e \in Envelopes : checking[e] = Handled}
      lost == {e \in accepted : got[e] = 0 /\ ~Waits(e)}
  IN  ~crashed /\ now < TTL => Cardinality(accepted) >= Cardinality(lost) + MaxQueued \/ lost = {}

\* What the queue promises for a device, together.
QueueIsSound ==
  TypeOK /\ OneLiveConnection /\ SentOnce /\ QueueIsDurable /\ ExpiryIsWatched /\ NothingIsLost
=============================================================================
