-------------------------- MODULE RendezvousProofs --------------------------
(* Proofs about what waits for a device: what the self-hosted hub holds for *)
(* it and the order in which envelopes reach it; the hosted hub's offline   *)
(* queue; and the push deliveries that prune a phone's subscriptions.       *)
EXTENDS MCRendezvous, Subsequence, SequenceTheorems, FiniteSetTheorems,
        WellFoundedInduction, TLAPS

\* What a reader has in hand at each stage of routing.
ReaderHolds ==
  \A c \in Conns :
    /\ routing[c] = "idle" => held[c] = NoEnvelope
    /\ routing[c] # "idle" =>
         held[c] \in Envelopes /\ held[c].from = c /\ held[c].n = sent[c]
    /\ routing[c] = "found" => dest[c] \in Conns
    /\ held[c] # NoEnvelope => c \in Senders

\* Until its flush is over, a connection's second channel holds something only
\* while its first one is full.
FlushFindsNoRoom ==
  \A c \in Conns :
    phase[c] = "flushing" /\ queue[c] # <<>> => Len(outgoing[c]) = OutCapacity

\* A connection that was never registered has empty channels and no writer.
FreshIsEmpty ==
  \A c \in Conns :
    phase[c] \in {"new", "signedIn"} =>
      /\ outgoing[c] = <<>> /\ delivered[c] = <<>>
      /\ writer[c] = "none"
      /\ \A s \in Conns : dest[s] # c

\* The writer starts when the flush is over.
WriterFollowsFlush ==
  \A c \in Conns : phase[c] = "flushing" => writer[c] = "none"

\* How many envelopes of each connection have left its reader's hands.
Settled == [s \in Conns |-> IF held[s] = NoEnvelope THEN sent[s] ELSE sent[s] - 1]

Increasing(q) ==
  \A i, j \in 1..Len(q) : i < j /\ q[i].from = q[j].from => q[i].n < q[j].n

Follows(q, r) ==
  \A i \in 1..Len(q), j \in 1..Len(r) :
    q[i].from = r[j].from => q[i].n < r[j].n

AtMost(q, limit) == \A i \in 1..Len(q) : q[i].n <= limit[q[i].from]

\* What is queued for a device, or on its way to a connection, is in order, and
\* what a reader still holds comes after it.
InOrder ==
  /\ \A d \in Devices : Increasing(offline[d]) /\ AtMost(offline[d], Settled)
  /\ \A c \in Conns :
       /\ Increasing(outgoing[c]) /\ AtMost(outgoing[c], Settled)
       /\ Increasing(delivered[c]) /\ AtMost(delivered[c], Settled)
       /\ Follows(delivered[c], outgoing[c])

Registry ==
  /\ TypeOK
  /\ ReaderHolds
  /\ RegisteredIsAttached
  /\ OnlineHasNoBacklog

Order == FlushFindsNoRoom /\ FreshIsEmpty /\ WriterFollowsFlush /\ InOrder

-----------------------------------------------------------------------------
(* The channels' and queues' contents.                                      *)

\* Sending to a connection keeps its channels within their capacity.
LEMMA SendType ==
  ASSUME TypeOK, NEW x \in Conns, NEW e \in Envelopes, Send(x, e)
  PROVE  /\ outgoing' \in [Conns -> Seq(Envelopes)]
         /\ queue' \in [Conns -> Seq(Envelopes)]
         /\ \A c \in Conns : Len(outgoing'[c]) <= OutCapacity
                             /\ Len(queue'[c]) <= MaxQueuedPerPeer
<1> USE ConstantsAssumption DEF TypeOK
<1>1. CASE /\ Len(outgoing[x]) < OutCapacity
           /\ outgoing' = [outgoing EXCEPT ![x] = Append(@, e)]
           /\ UNCHANGED queue
  <2>1. /\ Append(outgoing[x], e) \in Seq(Envelopes)
        /\ Len(Append(outgoing[x], e)) <= OutCapacity
    BY <1>1
  <2> QED BY <1>1, <2>1
<1>2. CASE /\ Len(queue[x]) < MaxQueuedPerPeer
           /\ queue' = [queue EXCEPT ![x] = Append(@, e)]
           /\ UNCHANGED outgoing
  <2>1. /\ Append(queue[x], e) \in Seq(Envelopes)
        /\ Len(Append(queue[x], e)) <= MaxQueuedPerPeer
    BY <1>2
  <2> QED BY <1>2, <2>1
<1>3. CASE UNCHANGED <<outgoing, queue>>
  BY <1>3
<1> QED BY <1>1, <1>2, <1>3 DEF Send

\* The pieces that registerPeer cuts a device's queue into.
LEMMA DrainType ==
  ASSUME NEW q \in Seq(Envelopes), Len(q) <= MaxQueuedPerPeer,
         NEW first, NEW second,
         first = Least(Len(q), OutCapacity),
         second = Least(Len(q), OutCapacity + MaxQueuedPerPeer)
  PROVE  /\ SubSeq(q, 1, first) \in Seq(Envelopes)
         /\ SubSeq(q, first + 1, second) \in Seq(Envelopes)
         /\ SubSeq(q, second + 1, Len(q)) = <<>>
         /\ Len(SubSeq(q, 1, first)) = first
         /\ Len(SubSeq(q, first + 1, second)) = Len(q) - first
         /\ first \in Nat /\ first <= Len(q) /\ first <= OutCapacity
         /\ first < Len(q) => first = OutCapacity
         /\ second = Len(q)
<1>1. Len(q) \in Nat /\ OutCapacity \in Nat \ {0} /\ MaxQueuedPerPeer \in Nat \ {0}
  BY ConstantsAssumption
<1>2. /\ first \in Nat /\ first <= Len(q) /\ first <= OutCapacity
      /\ first < Len(q) => first = OutCapacity
      /\ second = Len(q)
  BY <1>1 DEF Least
<1>3. /\ SubSeq(q, 1, first) \in Seq(Envelopes)
      /\ Len(SubSeq(q, 1, first)) = first
  BY <1>1, <1>2, SubSeqProperties
<1>4. /\ SubSeq(q, first + 1, second) \in Seq(Envelopes)
      /\ Len(SubSeq(q, first + 1, second)) = Len(q) - first
  BY <1>1, <1>2, SubSeqProperties
<1>5. SubSeq(q, second + 1, Len(q)) = <<>>
  BY <1>1, <1>2, SubSeqProperties
<1> QED BY <1>2, <1>3, <1>4, <1>5

-----------------------------------------------------------------------------
(* Types.                                                                   *)

LEMMA RegistryHoldsInitially == Init => Registry
BY ConstantsAssumption, EnvelopeAssumption
   DEF Init, Registry, TypeOK, ReaderHolds, RegisteredIsAttached,
       OnlineHasNoBacklog, Phases, Stages, Writers, Attached

LEMMA TypeStep == TypeOK /\ ReaderHolds /\ RegisteredIsAttached /\ [Next]_vars => TypeOK'
<1> SUFFICES ASSUME TypeOK, ReaderHolds, RegisteredIsAttached, [Next]_vars
             PROVE  TypeOK'
  OBVIOUS
<1> USE ConstantsAssumption
<1>0. CASE UNCHANGED vars
  BY <1>0 DEF TypeOK, vars, connVars, readerVars
<1>1. ASSUME NEW c \in Conns, Authenticate(c) PROVE TypeOK'
  BY <1>1 DEF Authenticate, Goes, TypeOK, Phases, Writers, readerVars
<1>2. ASSUME NEW c \in Conns, AuthFails(c) PROVE TypeOK'
  BY <1>2 DEF AuthFails, Goes, TypeOK, Phases, Writers, readerVars
<1>3. ASSUME NEW c \in Conns, RegisterPeer(c) PROVE TypeOK'
  <2> DEFINE q      == offline[DeviceOf[c]]
             first  == Least(Len(q), OutCapacity)
             second == Least(Len(q), OutCapacity + MaxQueuedPerPeer)
  <2>1. q \in Seq(Envelopes) /\ Len(q) <= MaxQueuedPerPeer /\ DeviceOf[c] \in Devices
    BY DEF TypeOK
  <2>2. /\ SubSeq(q, 1, first) \in Seq(Envelopes)
        /\ SubSeq(q, first + 1, second) \in Seq(Envelopes)
        /\ SubSeq(q, second + 1, Len(q)) = <<>>
        /\ Len(SubSeq(q, 1, first)) <= OutCapacity
        /\ Len(SubSeq(q, first + 1, second)) <= MaxQueuedPerPeer
    <3> HIDE DEF q, first, second
    <3>1. first = Least(Len(q), OutCapacity)
      BY DEF first
    <3>2. second = Least(Len(q), OutCapacity + MaxQueuedPerPeer)
      BY DEF second
    <3>3. /\ SubSeq(q, 1, first) \in Seq(Envelopes)
          /\ SubSeq(q, first + 1, second) \in Seq(Envelopes)
          /\ SubSeq(q, second + 1, Len(q)) = <<>>
          /\ Len(SubSeq(q, 1, first)) = first
          /\ Len(SubSeq(q, first + 1, second)) = Len(q) - first
          /\ first \in Nat /\ first <= Len(q) /\ first <= OutCapacity
      BY <2>1, <3>1, <3>2, DrainType
    <3>4. Len(q) \in Nat
      BY <2>1
    <3> QED BY <2>1, <3>3, <3>4
  <2>3. /\ outgoing' = [outgoing EXCEPT ![c] = SubSeq(q, 1, first)]
        /\ queue' = [queue EXCEPT ![c] = SubSeq(q, first + 1, second)]
        /\ offline' = [offline EXCEPT ![DeviceOf[c]] = <<>>]
    BY <1>3, <2>2 DEF RegisterPeer
  <2> HIDE DEF q, first, second
  <2>4. /\ peers' \in [Devices -> Conns \cup {NoConn}]
        /\ phase' \in [Conns -> Phases]
        /\ open' \in [Conns -> BOOLEAN]
    BY <1>3, <2>1 DEF RegisterPeer, Goes, TypeOK, Phases
  <2>5. /\ outgoing' \in [Conns -> Seq(Envelopes)]
        /\ queue' \in [Conns -> Seq(Envelopes)]
        /\ offline' \in [Devices -> Seq(Envelopes)]
        /\ \A d \in Devices : Len(offline'[d]) <= MaxQueuedPerPeer
        /\ \A x \in Conns :
             Len(outgoing'[x]) <= OutCapacity /\ Len(queue'[x]) <= MaxQueuedPerPeer
    <3>1. 0 <= MaxQueuedPerPeer
      BY ConstantsAssumption
    <3>2. Len(<<>>) = 0 /\ <<>> \in Seq(Envelopes)
      OBVIOUS
    <3>3. /\ outgoing' \in [Conns -> Seq(Envelopes)]
          /\ \A x \in Conns : Len(outgoing'[x]) <= OutCapacity
      BY <2>2, <2>3 DEF TypeOK
    <3>4. /\ queue' \in [Conns -> Seq(Envelopes)]
          /\ \A x \in Conns : Len(queue'[x]) <= MaxQueuedPerPeer
      BY <2>2, <2>3 DEF TypeOK
    <3>5. /\ offline' \in [Devices -> Seq(Envelopes)]
          /\ \A d \in Devices : Len(offline'[d]) <= MaxQueuedPerPeer
      BY <2>3, <3>1, <3>2 DEF TypeOK
    <3> QED BY <3>3, <3>4, <3>5
  <2>6. UNCHANGED <<writer, readerVars, delivered>>
    BY <1>3 DEF RegisterPeer
  <2> QED BY <2>4, <2>5, <2>6 DEF readerVars, TypeOK
<1>4. ASSUME NEW c \in Conns, FlushOne(c) PROVE TypeOK'
  <2>1. /\ Head(queue[c]) \in Envelopes /\ Tail(queue[c]) \in Seq(Envelopes)
        /\ Len(Tail(queue[c])) <= MaxQueuedPerPeer
        /\ queue' = [queue EXCEPT ![c] = Tail(@)]
    BY <1>4, HeadTailProperties DEF FlushOne, TypeOK
  <2>2. CASE /\ Len(outgoing[c]) < OutCapacity
             /\ outgoing' = [outgoing EXCEPT ![c] = Append(@, Head(queue[c]))]
             /\ UNCHANGED <<phase, writer>>
    <3>1. /\ Append(outgoing[c], Head(queue[c])) \in Seq(Envelopes)
          /\ Len(Append(outgoing[c], Head(queue[c]))) <= OutCapacity
      BY <2>1, <2>2, AppendProperties, ConstantsAssumption DEF TypeOK
    <3>2. UNCHANGED <<peers, offline, open, readerVars, delivered>>
      BY <1>4 DEF FlushOne
    <3> QED BY <2>1, <2>2, <3>1, <3>2 DEF TypeOK, readerVars
  <2>3. CASE /\ phase' = [phase EXCEPT ![c] = "serving"]
             /\ writer' = [writer EXCEPT ![c] = "running"]
             /\ UNCHANGED outgoing
    BY <1>4, <2>1, <2>3 DEF FlushOne, TypeOK, Phases, Writers, readerVars
  <2> QED BY <1>4, <2>2, <2>3 DEF FlushOne
<1>5. ASSUME NEW c \in Conns, FlushEnds(c) PROVE TypeOK'
  BY <1>5 DEF FlushEnds, Goes, TypeOK, Phases, Writers, readerVars
<1>6. ASSUME NEW c \in Conns, ReaderEnds(c) PROVE TypeOK'
  BY <1>6 DEF ReaderEnds, Goes, TypeOK, Phases, Writers, readerVars
<1>7. ASSUME NEW c \in Conns, UnregisterPeer(c) PROVE TypeOK'
  BY <1>7 DEF UnregisterPeer, Goes, TypeOK, Phases, Writers, readerVars
<1>8. ASSUME NEW c \in Conns, Close(c) PROVE TypeOK'
  BY <1>8 DEF Close, Goes, TypeOK, Phases, Writers, readerVars
<1>9. ASSUME NEW c \in Conns, ClientGoes(c) PROVE TypeOK'
  BY <1>9 DEF ClientGoes, Goes, TypeOK, Phases, Writers, readerVars
<1>10. ASSUME NEW c \in Conns, WriteNext(c) PROVE TypeOK'
  <2>1. /\ Head(outgoing[c]) \in Envelopes /\ Tail(outgoing[c]) \in Seq(Envelopes)
        /\ Len(Tail(outgoing[c])) <= OutCapacity
        /\ outgoing' = [outgoing EXCEPT ![c] = Tail(@)]
    BY <1>10, HeadTailProperties, ConstantsAssumption DEF WriteNext, TypeOK
  <2>2. writer' \in [Conns -> Writers]
    <3>1. PICK w \in {"running", "stopped"} : writer' = [writer EXCEPT ![c] = w] \/ writer' = writer
      BY <1>10 DEF WriteNext
    <3> QED BY <3>1 DEF TypeOK, Writers
  <2>3. Append(delivered[c], Head(outgoing[c])) \in Seq(Envelopes)
    BY <2>1, AppendProperties DEF TypeOK
  <2>4. delivered' \in [Conns -> Seq(Envelopes)]
    BY <1>10, <2>3 DEF WriteNext, TypeOK
  <2>5. UNCHANGED <<peers, offline, connVars, queue, readerVars>>
    BY <1>10 DEF WriteNext
  <2> QED BY <2>1, <2>2, <2>4, <2>5 DEF TypeOK, connVars, readerVars
<1>11. ASSUME NEW c \in Conns, PingFails(c) PROVE TypeOK'
  BY <1>11 DEF PingFails, TypeOK, Writers, connVars, readerVars
<1>12. ASSUME NEW c \in Conns, Read(c) PROVE TypeOK'
  <2>1. PICK d \in Devices :
          held' = [held EXCEPT ![c] = [from |-> c, n |-> sent[c] + 1, to |-> d]]
    BY <1>12 DEF Read
  <2>2. c \in Senders /\ sent[c] + 1 \in 1..MaxSent /\ sent[c] + 1 \in 0..MaxSent
    BY <1>12, ConstantsAssumption DEF Read, TypeOK
  <2>3. [from |-> c, n |-> sent[c] + 1, to |-> d] \in Envelopes
    BY <2>2 DEF Envelopes
  <2>4. /\ held' \in [Conns -> Envelopes \cup {NoEnvelope}]
        /\ sent' \in [Conns -> 0..MaxSent]
        /\ routing' \in [Conns -> Stages]
    BY <1>12, <2>1, <2>2, <2>3 DEF Read, TypeOK, Stages
  <2> QED BY <1>12, <2>4 DEF Read, TypeOK, connVars
<1>13. ASSUME NEW c \in Conns, LookUp(c) PROVE TypeOK'
  BY <1>13 DEF LookUp, TypeOK, Stages, connVars, ReaderHolds, Envelopes
<1>14. ASSUME NEW c \in Conns, SendFound(c) PROVE TypeOK'
  <2>1. dest[c] \in Conns /\ held[c] \in Envelopes
    BY <1>14 DEF SendFound, ReaderHolds
  <2>2. Send(dest[c], held[c])
    BY <1>14 DEF SendFound
  <2> QED BY <1>14, <2>1, <2>2, SendType DEF SendFound, Routed, TypeOK, Stages, connVars
<1>15. ASSUME NEW c \in Conns, QueueForOffline(c) PROVE TypeOK'
  <2>1. held[c] \in Envelopes /\ held[c].to \in Devices
    BY <1>15 DEF QueueForOffline, ReaderHolds, Envelopes
  <2>2. CASE peers[held[c].to] # NoConn /\ Send(peers[held[c].to], held[c]) /\ UNCHANGED offline
    <3>1. peers[held[c].to] \in Conns
      BY <2>1, <2>2 DEF TypeOK
    <3>2. /\ outgoing' \in [Conns -> Seq(Envelopes)]
          /\ queue' \in [Conns -> Seq(Envelopes)]
          /\ \A x \in Conns : Len(outgoing'[x]) <= OutCapacity
                              /\ Len(queue'[x]) <= MaxQueuedPerPeer
      BY <2>1, <2>2, <3>1, SendType
    <3> QED BY <1>15, <2>2, <3>2 DEF QueueForOffline, Routed, TypeOK, Stages, connVars
  <2>3. CASE /\ Len(offline[held[c].to]) < MaxQueuedPerPeer
             /\ offline' = [offline EXCEPT ![held[c].to] = Append(@, held[c])]
             /\ UNCHANGED <<outgoing, queue>>
    <3>1. /\ offline' \in [Devices -> Seq(Envelopes)]
          /\ \A d \in Devices : Len(offline'[d]) <= MaxQueuedPerPeer
      BY <2>1, <2>3, ConstantsAssumption DEF TypeOK
    <3>2. Routed(c) /\ UNCHANGED <<peers, phase, open, writer, delivered>>
      BY <1>15 DEF QueueForOffline, connVars
    <3> QED BY <2>3, <3>1, <3>2 DEF Routed, TypeOK, Stages
  <2>4. CASE UNCHANGED <<offline, outgoing, queue>>
    BY <1>15, <2>4 DEF QueueForOffline, Routed, TypeOK, Stages, connVars
  <2> QED BY <1>15, <2>2, <2>3, <2>4 DEF QueueForOffline
<1> QED BY <1>0, <1>1, <1>2, <1>3, <1>4, <1>5, <1>6, <1>7, <1>8, <1>9, <1>10, <1>11, <1>12, <1>13, <1>14, <1>15 DEF Next

-----------------------------------------------------------------------------
(* The registry.                                                            *)

\* A reader keeps an envelope in hand exactly while it routes it.
LEMMA ReaderStep == TypeOK /\ ReaderHolds /\ [Next]_vars => ReaderHolds'
<1> SUFFICES ASSUME TypeOK, ReaderHolds, [Next]_vars PROVE ReaderHolds'
  OBVIOUS
<1>1. CASE UNCHANGED readerVars
  BY <1>1 DEF ReaderHolds, readerVars
<1>2. ASSUME NEW c \in Conns, Read(c) PROVE ReaderHolds'
  <2>1. PICK d \in Devices :
          held' = [held EXCEPT ![c] = [from |-> c, n |-> sent[c] + 1, to |-> d]]
    BY <1>2 DEF Read
  <2>2. c \in Senders /\ sent[c] + 1 \in 1..MaxSent
    BY <1>2, ConstantsAssumption DEF Read, TypeOK
  <2>3. [from |-> c, n |-> sent[c] + 1, to |-> d] \in Envelopes
    BY <2>2 DEF Envelopes
  <2>4. /\ sent' = [sent EXCEPT ![c] = @ + 1]
        /\ routing' = [routing EXCEPT ![c] = "read"]
        /\ dest' = dest
    BY <1>2 DEF Read
  <2> QED BY <2>1, <2>2, <2>3, <2>4 DEF ReaderHolds, TypeOK
<1>3. ASSUME NEW c \in Conns, LookUp(c) PROVE ReaderHolds'
  <2>1. held[c].to \in Devices
    BY <1>3 DEF LookUp, ReaderHolds, Envelopes
  <2>2. peers[held[c].to] \in Conns \cup {NoConn}
    BY <2>1 DEF TypeOK
  <2> QED BY <1>3, <2>2 DEF LookUp, ReaderHolds, TypeOK
<1>4. ASSUME NEW c \in Conns, Routed(c) PROVE ReaderHolds'
  BY <1>4 DEF Routed, ReaderHolds, TypeOK
<1> QED
  BY <1>1, <1>2, <1>3, <1>4
     DEF Next, vars, Authenticate, AuthFails, RegisterPeer, FlushOne, FlushEnds,
         ReaderEnds, UnregisterPeer, Close, ClientGoes, WriteNext, PingFails,
         SendFound, QueueForOffline

\* A step that attaches and detaches nobody and opens no socket.
LEMMA SameRegistry ==
  ASSUME TypeOK, RegisteredIsAttached, peers' = peers,
         \A x \in Conns : open'[x] => open[x],
         \A x \in Conns : phase'[x] \in Attached <=> phase[x] \in Attached
  PROVE  RegisteredIsAttached'
<1>1. \A d \in Devices : peers[d] # NoConn => peers[d] \in Conns
  BY DEF TypeOK
<1> QED BY <1>1, Zenon DEF RegisteredIsAttached

\* Registering closes the device's earlier connection; unregistering touches
\* only the connection's own entry.
LEMMA RegisteredStep ==
  TypeOK /\ RegisteredIsAttached /\ [Next]_vars => RegisteredIsAttached'
<1> SUFFICES ASSUME TypeOK, RegisteredIsAttached, [Next]_vars
             PROVE  RegisteredIsAttached'
  OBVIOUS
<1>1. CASE UNCHANGED <<peers, connVars>>
  BY <1>1 DEF RegisteredIsAttached, connVars
<1>2. ASSUME NEW c \in Conns, Authenticate(c) \/ AuthFails(c) PROVE RegisteredIsAttached'
  <2>1. peers' = peers
    BY <1>2 DEF Authenticate, AuthFails
  <2>2. \A x \in Conns : open'[x] => open[x]
    BY <1>2 DEF Authenticate, AuthFails, TypeOK
  <2>3. \A x \in Conns : phase'[x] \in Attached <=> phase[x] \in Attached
    BY <1>2 DEF Authenticate, AuthFails, Goes, TypeOK, Attached
  <2> QED BY <2>1, <2>2, <2>3, SameRegistry
<1>3. ASSUME NEW c \in Conns, RegisterPeer(c) PROVE RegisteredIsAttached'
  <2>1. /\ phase[c] = "signedIn"
        /\ phase' = [phase EXCEPT ![c] = "flushing"]
        /\ open' = [x \in Conns |-> open[x] /\ x # peers[DeviceOf[c]]]
        /\ peers' = [peers EXCEPT ![DeviceOf[c]] = c]
    BY <1>3 DEF RegisterPeer, Goes
  <2>2. DeviceOf \in [Conns -> Devices] /\ NoConn \notin Conns
    BY ConstantsAssumption
  <2>3. ASSUME NEW x \in Conns, phase'[x] \in Attached, open'[x]
        PROVE  peers'[DeviceOf[x]] = x
    BY <2>1, <2>2, <2>3 DEF RegisteredIsAttached, TypeOK, Attached
  <2>4. ASSUME NEW d \in Devices, peers'[d] # NoConn
        PROVE  phase'[peers'[d]] \in Attached /\ DeviceOf[peers'[d]] = d
    <3>1. CASE d = DeviceOf[c]
      BY <2>1, <2>2, <3>1 DEF TypeOK, Attached
    <3>2. CASE d # DeviceOf[c]
      <4>1. peers'[d] = peers[d] /\ peers[d] \in Conns
        BY <2>1, <2>2, <2>4, <3>2 DEF TypeOK
      <4> QED BY <2>1, <2>4, <4>1 DEF RegisteredIsAttached, TypeOK, Attached
    <3> QED BY <3>1, <3>2
  <2> QED BY <2>3, <2>4 DEF RegisteredIsAttached
<1>4. ASSUME NEW c \in Conns, FlushOne(c) \/ FlushEnds(c) \/ ReaderEnds(c)
      PROVE  RegisteredIsAttached'
  <2>1. /\ peers' = peers /\ open' = open
        /\ \A x \in Conns : phase'[x] \in Attached <=> phase[x] \in Attached
    BY <1>4 DEF FlushOne, FlushEnds, ReaderEnds, Goes, Attached, TypeOK
  <2> QED BY <2>1, SameRegistry
<1>5. ASSUME NEW c \in Conns, UnregisterPeer(c) PROVE RegisteredIsAttached'
  <2>1. /\ phase[c] = "leaving"
        /\ phase' = [phase EXCEPT ![c] = "unregistered"]
        /\ open' = open
        /\ peers' = [d \in Devices |->
                       IF d = DeviceOf[c] /\ peers[d] = c THEN NoConn ELSE peers[d]]
    BY <1>5 DEF UnregisterPeer, Goes
  <2>2. DeviceOf \in [Conns -> Devices] /\ NoConn \notin Conns
    BY ConstantsAssumption
  <2>3. ASSUME NEW x \in Conns, phase'[x] \in Attached, open'[x]
        PROVE  peers'[DeviceOf[x]] = x
    BY <2>1, <2>2, <2>3 DEF RegisteredIsAttached, TypeOK, Attached
  <2>4. ASSUME NEW d \in Devices, peers'[d] # NoConn
        PROVE  phase'[peers'[d]] \in Attached /\ DeviceOf[peers'[d]] = d
    BY <2>1, <2>2, <2>4 DEF RegisteredIsAttached, TypeOK, Attached
  <2> QED BY <2>3, <2>4 DEF RegisteredIsAttached
<1>6. ASSUME NEW c \in Conns, Close(c) \/ ClientGoes(c) PROVE RegisteredIsAttached'
  <2>1. peers' = peers
    BY <1>6 DEF Close, ClientGoes
  <2>2. \A x \in Conns : open'[x] => open[x]
    BY <1>6 DEF Close, ClientGoes, TypeOK
  <2>3. \A x \in Conns : phase'[x] \in Attached <=> phase[x] \in Attached
    BY <1>6 DEF Close, ClientGoes, Goes, TypeOK, Attached
  <2> QED BY <2>1, <2>2, <2>3, SameRegistry
<1> QED
  BY <1>1, <1>2, <1>3, <1>4, <1>5, <1>6
     DEF Next, vars, connVars, WriteNext, PingFails, Read, LookUp, SendFound,
         QueueForOffline

\* A device's queue is emptied when it comes and used only while it is away.
LEMMA BacklogStep ==
  TypeOK /\ OnlineHasNoBacklog /\ [Next]_vars => OnlineHasNoBacklog'
<1> SUFFICES ASSUME TypeOK, OnlineHasNoBacklog, [Next]_vars
             PROVE  OnlineHasNoBacklog'
  OBVIOUS
<1>1. CASE UNCHANGED <<peers, offline>>
  BY <1>1 DEF OnlineHasNoBacklog
<1>2. ASSUME NEW c \in Conns, RegisterPeer(c) PROVE OnlineHasNoBacklog'
  <2> DEFINE q      == offline[DeviceOf[c]]
             first  == Least(Len(q), OutCapacity)
             second == Least(Len(q), OutCapacity + MaxQueuedPerPeer)
  <2>1. /\ DeviceOf[c] \in Devices
        /\ q \in Seq(Envelopes) /\ Len(q) <= MaxQueuedPerPeer
    BY ConstantsAssumption DEF TypeOK
  <2>2. /\ peers' = [peers EXCEPT ![DeviceOf[c]] = c]
        /\ offline' = [offline EXCEPT ![DeviceOf[c]] = SubSeq(q, second + 1, Len(q))]
    BY <1>2 DEF RegisterPeer
  <2>3. SubSeq(q, second + 1, Len(q)) = <<>>
    <3> HIDE DEF q, first, second
    <3>1. /\ first = Least(Len(q), OutCapacity)
          /\ second = Least(Len(q), OutCapacity + MaxQueuedPerPeer)
      BY DEF first, second
    <3> QED BY <2>1, <3>1, DrainType
  <2> HIDE DEF q, first, second
  <2> QED BY <2>1, <2>2, <2>3 DEF OnlineHasNoBacklog, TypeOK
<1>3. ASSUME NEW c \in Conns, UnregisterPeer(c) PROVE OnlineHasNoBacklog'
  BY <1>3 DEF UnregisterPeer, OnlineHasNoBacklog, TypeOK
<1>4. ASSUME NEW c \in Conns, QueueForOffline(c) PROVE OnlineHasNoBacklog'
  <2>1. peers' = peers
    BY <1>4 DEF QueueForOffline
  <2>2. CASE peers[held[c].to] # NoConn /\ offline' = offline
    BY <2>1, <2>2 DEF OnlineHasNoBacklog
  <2>3. CASE /\ peers[held[c].to] = NoConn
             /\ offline' = [offline EXCEPT ![held[c].to] = Append(@, held[c])]
    BY <2>1, <2>3 DEF OnlineHasNoBacklog, TypeOK
  <2>4. CASE offline' = offline
    BY <2>1, <2>4 DEF OnlineHasNoBacklog
  <2> QED BY <1>4, <2>2, <2>3, <2>4 DEF QueueForOffline
<1> QED
  BY <1>1, <1>2, <1>3, <1>4
     DEF Next, vars, connVars, Authenticate, AuthFails, FlushOne, FlushEnds,
         ReaderEnds, Close, ClientGoes, WriteNext, PingFails, Read, LookUp,
         SendFound

\* The registry's invariant, for every number of devices and connections.
THEOREM RegistryInvariant == Spec => []Registry
<1>1. Init => Registry
  BY RegistryHoldsInitially
<1>2. Registry /\ [Next]_vars => Registry'
  BY TypeStep, ReaderStep, RegisteredStep, BacklogStep DEF Registry
<1> QED BY <1>1, <1>2, PTL DEF Spec

\* The hub's state is well formed and no channel or queue exceeds its capacity.
THEOREM HubTypeOK == Spec => []TypeOK
BY RegistryInvariant, PTL DEF Registry

\* An attached connection whose socket is open is the one its device is
\* registered with, in whatever order its connections came and went.
THEOREM HubRoutesToOpenSocket == Spec => []RegisteredIsAttached
BY RegistryInvariant, PTL DEF Registry

\* A connected device has nothing waiting in the hub's queue.
THEOREM HubKeepsNoBacklog == Spec => []OnlineHasNoBacklog
BY RegistryInvariant, PTL DEF Registry

-----------------------------------------------------------------------------
(* Sequences of envelopes.                                                  *)

LEMMA EnvelopeFields ==
  ASSUME NEW e \in Envelopes
  PROVE  e.from \in Conns /\ e.from \in Senders /\ e.n \in Int
BY ConstantsAssumption DEF Envelopes

\* An envelope later than all others of its sender may be added at the end.
LEMMA AppendKeepsOrder ==
  ASSUME NEW q \in Seq(Envelopes), NEW e \in Envelopes, Increasing(q),
         \A i \in 1..Len(q) : q[i].from = e.from => q[i].n < e.n
  PROVE  Increasing(Append(q, e))
<1>1. /\ Len(q) \in Nat
      /\ Len(Append(q, e)) = Len(q) + 1
      /\ \A i \in 1..Len(q) : Append(q, e)[i] = q[i]
      /\ Append(q, e)[Len(q) + 1] = e
  BY AppendProperties
<1> DEFINE r == Append(q, e)
<1>2. ASSUME NEW i \in 1..Len(r), NEW j \in 1..Len(r), i < j, r[i].from = r[j].from
      PROVE  r[i].n < r[j].n
  <2>1. i \in 1..Len(q) /\ r[i] = q[i]
    BY <1>1, <1>2
  <2>2. CASE j \in 1..Len(q)
    BY <1>1, <1>2, <2>1, <2>2 DEF Increasing
  <2>3. CASE j = Len(q) + 1
    BY <1>1, <1>2, <2>1, <2>3
  <2> QED BY <1>1, <2>2, <2>3
<1> QED BY <1>2 DEF Increasing

LEMMA AppendKeepsLimit ==
  ASSUME NEW q \in Seq(Envelopes), NEW e \in Envelopes, NEW limit,
         AtMost(q, limit), e.n <= limit[e.from]
  PROVE  AtMost(Append(q, e), limit)
BY AppendProperties DEF AtMost

LEMMA LimitGrows ==
  ASSUME NEW q \in Seq(Envelopes), NEW old \in [Conns -> Int], NEW new \in [Conns -> Int],
         AtMost(q, old), \A s \in Conns : old[s] <= new[s]
  PROVE  AtMost(q, new)
<1> SUFFICES ASSUME NEW i \in 1..Len(q) PROVE q[i].n <= new[q[i].from]
  BY DEF AtMost
<1>1. q[i].from \in Conns /\ q[i].n \in Int
  BY EnvelopeFields
<1>2. q[i].n <= old[q[i].from]
  BY DEF AtMost
<1>3. old[q[i].from] \in Int /\ new[q[i].from] \in Int
  BY <1>1
<1> QED BY <1>1, <1>2, <1>3

\* Envelopes in hand come after all that are settled.
LEMMA HeldComesLast ==
  ASSUME NEW q \in Seq(Envelopes), NEW e \in Envelopes, NEW limit \in [Conns -> Int],
         AtMost(q, limit), e.n = limit[e.from] + 1
  PROVE  \A i \in 1..Len(q) : q[i].from = e.from => q[i].n < e.n
<1> SUFFICES ASSUME NEW i \in 1..Len(q), q[i].from = e.from PROVE q[i].n < e.n
  OBVIOUS
<1>1. q[i].n \in Int /\ e.from \in Conns
  BY EnvelopeFields
<1>2. q[i].n <= limit[e.from]
  BY DEF AtMost
<1> QED BY <1>1, <1>2

\* The first envelopes of a queue, and those after the first, are in order too.
LEMMA PartKeepsOrder ==
  ASSUME NEW q \in Seq(Envelopes), NEW r \in Seq(Envelopes), NEW k \in Nat,
         NEW limit, Increasing(q), AtMost(q, limit), Len(r) + k <= Len(q),
         \A i \in 1..Len(r) : r[i] = q[i + k]
  PROVE  Increasing(r) /\ AtMost(r, limit)
<1>1. Len(r) \in Nat /\ Len(q) \in Nat
  OBVIOUS
<1>2. \A i \in 1..Len(r) : i + k \in 1..Len(q)
  BY <1>1
<1>3. Increasing(r)
  <2> SUFFICES ASSUME NEW i \in 1..Len(r), NEW j \in 1..Len(r), i < j,
                      r[i].from = r[j].from
               PROVE  r[i].n < r[j].n
    BY DEF Increasing
  <2>1. i + k \in 1..Len(q) /\ j + k \in 1..Len(q) /\ i + k < j + k
    BY <1>2
  <2>2. r[i] = q[i + k] /\ r[j] = q[j + k]
    OBVIOUS
  <2> QED BY <2>1, <2>2 DEF Increasing
<1>4. AtMost(r, limit)
  BY <1>2 DEF AtMost
<1> QED BY <1>3, <1>4

\* Writing the first envelope of a channel.
LEMMA WritingKeepsOrder ==
  ASSUME NEW q \in Seq(Envelopes), NEW r \in Seq(Envelopes), r # <<>>, NEW limit,
         Increasing(q), AtMost(q, limit), Increasing(r), AtMost(r, limit), Follows(q, r)
  PROVE  /\ Increasing(Tail(r)) /\ AtMost(Tail(r), limit) /\ Follows(q, Tail(r))
         /\ Increasing(Append(q, Head(r))) /\ AtMost(Append(q, Head(r)), limit)
         /\ Follows(Append(q, Head(r)), Tail(r))
<1>1. /\ Head(r) \in Envelopes /\ Head(r) = r[1]
      /\ Tail(r) \in Seq(Envelopes) /\ Len(Tail(r)) = Len(r) - 1
      /\ \A i \in 1..Len(Tail(r)) : Tail(r)[i] = r[i + 1]
      /\ Len(r) \in Nat \ {0} /\ 1 \in 1..Len(r)
  <2>1. Len(r) \in Nat /\ Len(r) # 0
    BY EmptySeq
  <2>2. Head(r) = r[1]
    OBVIOUS
  <2> QED BY <2>1, <2>2, HeadTailProperties
<1>2. Increasing(Tail(r)) /\ AtMost(Tail(r), limit)
  <2> DEFINE t == Tail(r)
  <2>1. /\ t \in Seq(Envelopes) /\ Len(t) + 1 <= Len(r)
        /\ \A i \in 1..Len(t) : t[i] = r[i + 1]
    BY <1>1
  <2>2. 1 \in Nat
    OBVIOUS
  <2> HIDE DEF t
  <2>3. Increasing(t) /\ AtMost(t, limit)
    BY <2>1, <2>2, PartKeepsOrder, Zenon
  <2> QED BY <2>3 DEF t
<1>3. Follows(q, Tail(r))
  <2> SUFFICES ASSUME NEW i \in 1..Len(q), NEW j \in 1..Len(Tail(r)),
                      q[i].from = Tail(r)[j].from
               PROVE  q[i].n < Tail(r)[j].n
    BY DEF Follows
  <2>1. j + 1 \in 1..Len(r) /\ Tail(r)[j] = r[j + 1]
    BY <1>1
  <2> QED BY <2>1 DEF Follows
<1>4. Increasing(Append(q, Head(r)))
  <2>1. \A i \in 1..Len(q) : q[i].from = Head(r).from => q[i].n < Head(r).n
    BY <1>1 DEF Follows
  <2> QED BY <1>1, <2>1, AppendKeepsOrder
<1>5. AtMost(Append(q, Head(r)), limit)
  <2>1. Head(r).n <= limit[Head(r).from]
    BY <1>1 DEF AtMost
  <2> QED BY <1>1, <2>1, AppendKeepsLimit
<1>6. Follows(Append(q, Head(r)), Tail(r))
  <2> SUFFICES ASSUME NEW i \in 1..Len(Append(q, Head(r))), NEW j \in 1..Len(Tail(r)),
                      Append(q, Head(r))[i].from = Tail(r)[j].from
               PROVE  Append(q, Head(r))[i].n < Tail(r)[j].n
    BY DEF Follows
  <2>1. /\ Len(q) \in Nat /\ Len(Append(q, Head(r))) = Len(q) + 1
        /\ i \in 1..Len(q) => Append(q, Head(r))[i] = q[i]
        /\ Append(q, Head(r))[Len(q) + 1] = r[1]
    BY <1>1, AppendProperties
  <2>2. CASE i \in 1..Len(q)
    BY <1>3, <2>1, <2>2 DEF Follows
  <2>3. CASE i = Len(q) + 1
    <3>1. j + 1 \in 1..Len(r) /\ Tail(r)[j] = r[j + 1] /\ 1 < j + 1
      BY <1>1
    <3> QED BY <1>1, <2>1, <2>3, <3>1 DEF Increasing
  <2> QED BY <2>1, <2>2, <2>3
<1> QED BY <1>2, <1>3, <1>4, <1>5, <1>6

-----------------------------------------------------------------------------
(* The order of delivery.                                                   *)

LEMMA OrderHoldsInitially == Init => Order
<1> SUFFICES ASSUME Init PROVE Order
  OBVIOUS
<1>1. \A limit : Increasing(<<>>) /\ AtMost(<<>>, limit) /\ Follows(<<>>, <<>>)
  BY DEF Increasing, AtMost, Follows
<1>2. FlushFindsNoRoom /\ WriterFollowsFlush
  BY DEF Init, FlushFindsNoRoom, WriterFollowsFlush
<1>3. FreshIsEmpty
  BY ConstantsAssumption DEF Init, FreshIsEmpty
<1>4. InOrder
  BY <1>1 DEF Init, InOrder
<1> QED BY <1>2, <1>3, <1>4 DEF Order

\* A sent envelope goes to a registered connection, or to one that was.
LEMMA SendReaches ==
  ASSUME Registry, FreshIsEmpty, NEW c \in Conns,
         SendFound(c) \/ QueueForOffline(c)
  PROVE  /\ held[c] \in Envelopes /\ held[c].from = c /\ held[c].n = sent[c]
         /\ held[c].to \in Devices
         /\ \/ /\ \E x \in Conns : phase[x] \notin {"new", "signedIn"} /\ Send(x, held[c])
               /\ UNCHANGED offline
            \/ /\ offline' = [offline EXCEPT ![held[c].to] = Append(@, held[c])]
               /\ UNCHANGED <<outgoing, queue>>
            \/ UNCHANGED <<offline, outgoing, queue>>
<1>1. held[c] \in Envelopes /\ held[c].from = c /\ held[c].n = sent[c]
  BY DEF SendFound, QueueForOffline, Registry, ReaderHolds
<1>2. held[c].to \in Devices
  BY <1>1 DEF Envelopes
<1>3. CASE SendFound(c)
  <2>1. dest[c] \in Conns /\ Send(dest[c], held[c]) /\ UNCHANGED offline
    BY <1>3 DEF SendFound, Registry, ReaderHolds
  <2>2. phase[dest[c]] \notin {"new", "signedIn"}
    BY <2>1 DEF FreshIsEmpty
  <2> QED BY <1>1, <1>2, <2>1, <2>2
<1>4. CASE QueueForOffline(c)
  <2>1. CASE peers[held[c].to] # NoConn /\ Send(peers[held[c].to], held[c]) /\ UNCHANGED offline
    <3>1. peers[held[c].to] \in Conns
      BY <1>2, <2>1 DEF Registry, TypeOK
    <3>2. phase[peers[held[c].to]] \notin {"new", "signedIn"}
      BY <1>2, <2>1 DEF Registry, RegisteredIsAttached, Attached
    <3> QED BY <1>1, <1>2, <2>1, <3>1, <3>2
  <2> QED BY <1>1, <1>2, <1>4, <2>1 DEF QueueForOffline
<1> QED BY <1>3, <1>4

\* What a flush finds, and what a connection that was not registered has.
LEMMA BookkeepingStep ==
  Registry /\ FlushFindsNoRoom /\ FreshIsEmpty /\ WriterFollowsFlush /\ [Next]_vars
    => FlushFindsNoRoom' /\ FreshIsEmpty' /\ WriterFollowsFlush'
<1> SUFFICES ASSUME Registry, FlushFindsNoRoom, FreshIsEmpty, WriterFollowsFlush,
                    [Next]_vars
             PROVE  FlushFindsNoRoom' /\ FreshIsEmpty' /\ WriterFollowsFlush'
  OBVIOUS
<1> USE DEF FlushFindsNoRoom, FreshIsEmpty, WriterFollowsFlush
<1>t. TypeOK
  BY DEF Registry
<1>0. CASE UNCHANGED vars
  BY <1>0 DEF vars, connVars, readerVars
<1>1. ASSUME NEW c \in Conns,
             Authenticate(c) \/ AuthFails(c) \/ FlushEnds(c) \/ ReaderEnds(c)
               \/ UnregisterPeer(c) \/ Close(c) \/ ClientGoes(c) \/ PingFails(c)
      PROVE  FlushFindsNoRoom' /\ FreshIsEmpty' /\ WriterFollowsFlush'
  <2>1. UNCHANGED <<outgoing, queue, delivered, dest>>
    BY <1>1 DEF Authenticate, AuthFails, FlushEnds, ReaderEnds, UnregisterPeer,
                Close, ClientGoes, PingFails, readerVars
  <2>2. \A x \in Conns : phase'[x] = "flushing" =>
          phase[x] = "flushing" /\ writer'[x] = writer[x]
    BY <1>t, <1>1 DEF Authenticate, AuthFails, FlushEnds, ReaderEnds, UnregisterPeer,
                Close, ClientGoes, PingFails, Goes, TypeOK, connVars
  <2>3. \A x \in Conns : phase'[x] \in {"new", "signedIn"} =>
          phase[x] \in {"new", "signedIn"} /\ writer'[x] = writer[x]
    BY <1>t, <1>1 DEF Authenticate, AuthFails, FlushEnds, ReaderEnds, UnregisterPeer,
                Close, ClientGoes, PingFails, Goes, TypeOK, connVars
  <2> QED BY <2>1, <2>2, <2>3
<1>2. ASSUME NEW c \in Conns, RegisterPeer(c)
      PROVE  FlushFindsNoRoom' /\ FreshIsEmpty' /\ WriterFollowsFlush'
  <2> DEFINE q      == offline[DeviceOf[c]]
             first  == Least(Len(q), OutCapacity)
             second == Least(Len(q), OutCapacity + MaxQueuedPerPeer)
  <2>1. DeviceOf[c] \in Devices /\ q \in Seq(Envelopes) /\ Len(q) <= MaxQueuedPerPeer
    BY <1>t, ConstantsAssumption DEF TypeOK
  <2>2. /\ outgoing' = [outgoing EXCEPT ![c] = SubSeq(q, 1, first)]
        /\ queue' = [queue EXCEPT ![c] = SubSeq(q, first + 1, second)]
        /\ phase[c] = "signedIn" /\ phase' = [phase EXCEPT ![c] = "flushing"]
        /\ UNCHANGED <<writer, delivered, dest>>
    BY <1>2 DEF RegisterPeer, Goes, readerVars
  <2>3. SubSeq(q, first + 1, second) # <<>> => Len(SubSeq(q, 1, first)) = OutCapacity
    <3> HIDE DEF q, first, second
    <3>1. /\ first = Least(Len(q), OutCapacity)
          /\ second = Least(Len(q), OutCapacity + MaxQueuedPerPeer)
      BY DEF first, second
    <3>2. /\ Len(SubSeq(q, 1, first)) = first
          /\ SubSeq(q, first + 1, second) \in Seq(Envelopes)
          /\ Len(SubSeq(q, first + 1, second)) = Len(q) - first
          /\ first \in Nat /\ first <= Len(q)
          /\ first < Len(q) => first = OutCapacity
      BY <2>1, <3>1, DrainType
    <3>3. Len(q) \in Nat
      BY <2>1
    <3>4. SubSeq(q, first + 1, second) # <<>> => Len(SubSeq(q, first + 1, second)) # 0
      BY <3>2, EmptySeq
    <3>5. ASSUME SubSeq(q, first + 1, second) # <<>> PROVE first < Len(q)
      <4>1. Len(q) - first # 0
        BY <3>2, <3>4, <3>5, Zenon
      <4> QED BY <3>2, <3>3, <4>1
    <3> QED BY <3>2, <3>5, Zenon
  <2> HIDE DEF q, first, second
  <2> QED BY <1>t, <2>2, <2>3 DEF TypeOK
<1>3. ASSUME NEW c \in Conns, FlushOne(c)
      PROVE  FlushFindsNoRoom' /\ FreshIsEmpty' /\ WriterFollowsFlush'
  <2>1. /\ phase[c] = "flushing" /\ Len(outgoing[c]) = OutCapacity
    BY <1>3 DEF FlushOne
  <2>2. /\ phase' = [phase EXCEPT ![c] = "serving"]
        /\ writer' = [writer EXCEPT ![c] = "running"]
        /\ queue' = [queue EXCEPT ![c] = Tail(@)]
        /\ UNCHANGED <<outgoing, delivered, dest>>
    BY <1>3, <2>1, ConstantsAssumption DEF FlushOne, readerVars
  <2> QED BY <1>t, <2>1, <2>2 DEF TypeOK
<1>4. ASSUME NEW c \in Conns, WriteNext(c)
      PROVE  FlushFindsNoRoom' /\ FreshIsEmpty' /\ WriterFollowsFlush'
  <2>1. phase[c] # "flushing" /\ phase[c] \notin {"new", "signedIn"}
    BY <1>4 DEF WriteNext
  <2>2. UNCHANGED <<phase, queue, dest>>
    BY <1>4 DEF WriteNext, connVars, readerVars
  <2>3. \A x \in Conns \ {c} : outgoing'[x] = outgoing[x] /\ delivered'[x] = delivered[x]
                               /\ writer'[x] = writer[x]
    BY <1>t, <1>4 DEF WriteNext, TypeOK
  <2> QED BY <2>1, <2>2, <2>3
<1>5. ASSUME NEW c \in Conns, Read(c)
      PROVE  FlushFindsNoRoom' /\ FreshIsEmpty' /\ WriterFollowsFlush'
  BY <1>5 DEF Read, connVars
<1>6. ASSUME NEW c \in Conns, LookUp(c)
      PROVE  FlushFindsNoRoom' /\ FreshIsEmpty' /\ WriterFollowsFlush'
  <2>1. /\ dest' = [dest EXCEPT ![c] = peers[held[c].to]]
        /\ UNCHANGED <<phase, outgoing, queue, writer, delivered>>
    BY <1>6 DEF LookUp, connVars
  <2>2. held[c].to \in Devices
    BY <1>6 DEF LookUp, Registry, ReaderHolds, Envelopes
  <2>3. \A x \in Conns : phase[x] \in {"new", "signedIn"} => peers[held[c].to] # x
    BY <2>2, ConstantsAssumption DEF Registry, RegisteredIsAttached, Attached
  <2> QED BY <1>t, <2>1, <2>3 DEF TypeOK
<1>7. ASSUME NEW c \in Conns, SendFound(c) \/ QueueForOffline(c)
      PROVE  FlushFindsNoRoom' /\ FreshIsEmpty' /\ WriterFollowsFlush'
  <2>1. /\ UNCHANGED <<phase, writer, delivered>>
        /\ dest' = [dest EXCEPT ![c] = NoConn]
    BY <1>7 DEF SendFound, QueueForOffline, Routed, connVars
  <2>2. \A x \in Conns : \A s \in Conns : dest[s] # x => dest'[s] # x
    BY <1>t, <2>1, ConstantsAssumption DEF TypeOK
  <2>3. CASE UNCHANGED <<outgoing, queue>>
    BY <2>1, <2>2, <2>3
  <2>4. ASSUME NEW x \in Conns, phase[x] \notin {"new", "signedIn"}, Send(x, held[c])
        PROVE  FlushFindsNoRoom' /\ FreshIsEmpty' /\ WriterFollowsFlush'
    <3>1. held[c] \in Envelopes
      BY <1>7, SendReaches
    <3>2. \A y \in Conns \ {x} : outgoing'[y] = outgoing[y] /\ queue'[y] = queue[y]
      BY <1>t, <2>4 DEF Send, TypeOK
    <3>3. phase[x] = "flushing" /\ queue'[x] # <<>> => Len(outgoing'[x]) = OutCapacity
      <4> SUFFICES ASSUME phase[x] = "flushing", queue'[x] # <<>>
                   PROVE  Len(outgoing'[x]) = OutCapacity
        OBVIOUS
      <4>1. Len(outgoing[x]) \in Nat /\ Len(outgoing[x]) <= OutCapacity /\ OutCapacity \in Nat
        BY <1>t, ConstantsAssumption DEF TypeOK
      <4>2. CASE Len(outgoing[x]) < OutCapacity
        <5>1. queue' = queue
          BY <2>4, <4>1, <4>2 DEF Send
        <5> QED BY <4>1, <4>2, <5>1
      <4>3. CASE Len(outgoing[x]) >= OutCapacity
        <5>1. outgoing' = outgoing
          BY <2>4, <4>1, <4>3 DEF Send
        <5> QED BY <4>1, <4>3, <5>1
      <4> QED BY <4>1, <4>2, <4>3
    <3> QED BY <2>1, <2>2, <2>4, <3>2, <3>3
  <2> QED BY <1>7, <2>3, <2>4, SendReaches
<1> QED BY <1>0, <1>1, <1>2, <1>3, <1>4, <1>5, <1>6, <1>7 DEF Next

\* Envelopes leave a reader's hands one after the other.
LEMMA SettledType ==
  ASSUME TypeOK PROVE Settled \in [Conns -> Int]
BY DEF TypeOK, Settled

LEMMA SettledGrows ==
  ASSUME TypeOK, ReaderHolds, [Next]_vars
  PROVE  \A s \in Conns : Settled[s] <= Settled'[s]
<1>1. CASE UNCHANGED <<held, sent>>
  <2>1. Settled' = Settled
    BY <1>1 DEF Settled
  <2> QED BY <2>1, SettledType
<1>2. ASSUME NEW c \in Conns, Read(c) PROVE \A s \in Conns : Settled[s] <= Settled'[s]
  <2>1. PICK d \in Devices :
          held' = [held EXCEPT ![c] = [from |-> c, n |-> sent[c] + 1, to |-> d]]
    BY <1>2 DEF Read
  <2>2. held[c] = NoEnvelope /\ sent' = [sent EXCEPT ![c] = @ + 1]
    BY <1>2 DEF Read, ReaderHolds
  <2>3. [from |-> c, n |-> sent[c] + 1, to |-> d] # NoEnvelope
    <3>1. c \in Senders /\ sent[c] + 1 \in 1..MaxSent
      BY <1>2, ConstantsAssumption DEF Read, TypeOK
    <3> QED BY <3>1, EnvelopeAssumption DEF Envelopes
  <2> QED BY <2>1, <2>2, <2>3 DEF Settled, TypeOK
<1>3. ASSUME NEW c \in Conns, Routed(c) PROVE \A s \in Conns : Settled[s] <= Settled'[s]
  BY <1>3 DEF Routed, Settled, TypeOK
<1> QED
  BY <1>1, <1>2, <1>3
     DEF Next, vars, readerVars, Authenticate, AuthFails, RegisterPeer, FlushOne,
         FlushEnds, ReaderEnds, UnregisterPeer, Close, ClientGoes, WriteNext,
         PingFails, LookUp, SendFound, QueueForOffline

\* The channels and queues as they stand are still in order after the step.
LEMMA StandingOrder ==
  ASSUME TypeOK, TypeOK', ReaderHolds, InOrder, [Next]_vars
  PROVE  /\ \A d \in Devices : AtMost(offline[d], Settled')
         /\ \A c \in Conns : AtMost(outgoing[c], Settled') /\ AtMost(delivered[c], Settled')
<1>1. Settled \in [Conns -> Int]
  BY DEF TypeOK, Settled
<1>n. Settled' \in [Conns -> Int]
  BY DEF TypeOK, Settled
<1>2. \A s \in Conns : Settled[s] <= Settled'[s]
  BY SettledGrows
<1>3. ASSUME NEW q \in Seq(Envelopes), AtMost(q, Settled) PROVE AtMost(q, Settled')
  BY <1>1, <1>n, <1>2, <1>3, LimitGrows
<1>4. /\ \A d \in Devices : offline[d] \in Seq(Envelopes) /\ AtMost(offline[d], Settled)
      /\ \A c \in Conns : /\ outgoing[c] \in Seq(Envelopes) /\ AtMost(outgoing[c], Settled)
                          /\ delivered[c] \in Seq(Envelopes) /\ AtMost(delivered[c], Settled)
  BY DEF TypeOK, InOrder
<1> QED BY <1>3, <1>4

LEMMA OrderStep == Registry /\ Registry' /\ Order /\ [Next]_vars => InOrder'
<1> SUFFICES ASSUME Registry, Registry', Order, [Next]_vars PROVE InOrder'
  OBVIOUS
<1>t. TypeOK /\ TypeOK' /\ ReaderHolds /\ InOrder
  BY DEF Registry, Order
<1>s. /\ \A d \in Devices : Increasing(offline[d]) /\ AtMost(offline[d], Settled')
      /\ \A c \in Conns :
           /\ Increasing(outgoing[c]) /\ AtMost(outgoing[c], Settled')
           /\ Increasing(delivered[c]) /\ AtMost(delivered[c], Settled')
           /\ Follows(delivered[c], outgoing[c])
  BY <1>t, StandingOrder DEF InOrder
<1>1. CASE UNCHANGED <<offline, outgoing, delivered>>
  BY <1>1, <1>s DEF InOrder
<1>2. ASSUME NEW c \in Conns, RegisterPeer(c) PROVE InOrder'
  <2> DEFINE d      == DeviceOf[c]
             q      == offline[d]
             first  == Least(Len(q), OutCapacity)
             second == Least(Len(q), OutCapacity + MaxQueuedPerPeer)
             taken  == SubSeq(q, 1, first)
  <2>1. /\ d \in Devices /\ q \in Seq(Envelopes) /\ Len(q) <= MaxQueuedPerPeer
        /\ Increasing(q) /\ AtMost(q, Settled') /\ Len(q) \in Nat
    BY <1>t, <1>s, ConstantsAssumption DEF TypeOK
  <2>2. /\ outgoing' = [outgoing EXCEPT ![c] = taken]
        /\ offline' = [offline EXCEPT ![d] = SubSeq(q, second + 1, Len(q))]
        /\ delivered' = delivered /\ delivered[c] = <<>>
    BY <1>2 DEF RegisterPeer, Goes, Order, FreshIsEmpty
  <2>3. /\ taken \in Seq(Envelopes) /\ Len(taken) <= Len(q)
        /\ \A i \in 1..Len(taken) : taken[i] = q[i]
        /\ SubSeq(q, second + 1, Len(q)) = <<>>
    <3> HIDE DEF d, q, first, second
    <3>1. /\ first = Least(Len(q), OutCapacity)
          /\ second = Least(Len(q), OutCapacity + MaxQueuedPerPeer)
      BY DEF first, second
    <3>2. /\ taken \in Seq(Envelopes) /\ Len(taken) = first
          /\ first \in Nat /\ first <= Len(q)
          /\ SubSeq(q, second + 1, Len(q)) = <<>>
      BY <2>1, <3>1, DrainType
    <3>3. \A i \in 1..first : taken[i] = q[i]
      <4>1. 1 \in Int /\ first \in Int /\ \A i \in 1..first : q[i] \in Envelopes
        BY <2>1, <3>2
      <4>2. \A i \in 1..first : taken[i] = q[1 + i - 1]
        <5>1. \A i \in 1..first - 1 + 1 : taken[i] = q[1 + i - 1]
          BY <4>1, SubSeqProperties
        <5> QED BY <3>2, <5>1
      <4> QED BY <3>2, <4>2
    <3> QED BY <2>1, <3>2, <3>3
  <2> HIDE DEF d, q, first, second, taken
  <2>4. Increasing(taken) /\ AtMost(taken, Settled')
    <3>1. \A i \in 1..Len(taken) : taken[i] = q[i + 0]
      BY <2>3
    <3>2. Len(taken) + 0 <= Len(q)
      BY <2>1, <2>3
    <3>3. 0 \in Nat
      OBVIOUS
    <3> QED BY <2>1, <2>3, <3>1, <3>2, <3>3, PartKeepsOrder, Zenon
  <2>5. /\ Increasing(<<>>) /\ AtMost(<<>>, Settled')
        /\ Follows(<<>>, taken)
    BY DEF Increasing, AtMost, Follows
  <2>6. \A x \in Devices : offline'[x] = offline[x] \/ offline'[x] = <<>>
    BY <1>t, <2>2, <2>3 DEF TypeOK
  <2>7. \A x \in Conns : x # c => outgoing'[x] = outgoing[x]
    BY <1>t, <2>2 DEF TypeOK
  <2>8. outgoing'[c] = taken
    BY <1>t, <2>2 DEF TypeOK
  <2> QED BY <1>s, <2>2, <2>4, <2>5, <2>6, <2>7, <2>8, Zenon DEF InOrder
<1>3. ASSUME NEW c \in Conns, FlushOne(c) PROVE InOrder'
  <2>1. Len(outgoing[c]) = OutCapacity
    BY <1>3 DEF FlushOne, Order, FlushFindsNoRoom
  <2>2. UNCHANGED <<offline, outgoing, delivered>>
    BY <1>3, <2>1, ConstantsAssumption DEF FlushOne
  <2> QED BY <1>1, <2>2
<1>4. ASSUME NEW c \in Conns, WriteNext(c) PROVE InOrder'
  <2>1. /\ outgoing[c] # <<>>
        /\ outgoing' = [outgoing EXCEPT ![c] = Tail(@)]
        /\ offline' = offline
        /\ \/ delivered' = [delivered EXCEPT ![c] = Append(@, Head(outgoing[c]))]
           \/ delivered' = delivered
    BY <1>4 DEF WriteNext
  <2>2. /\ Increasing(Tail(outgoing[c])) /\ AtMost(Tail(outgoing[c]), Settled')
        /\ Follows(delivered[c], Tail(outgoing[c]))
        /\ Increasing(Append(delivered[c], Head(outgoing[c])))
        /\ AtMost(Append(delivered[c], Head(outgoing[c])), Settled')
        /\ Follows(Append(delivered[c], Head(outgoing[c])), Tail(outgoing[c]))
    <3>1. outgoing[c] \in Seq(Envelopes) /\ delivered[c] \in Seq(Envelopes)
      BY <1>t DEF TypeOK
    <3> QED BY <1>s, <2>1, <3>1, WritingKeepsOrder, Zenon
  <2>3. /\ outgoing'[c] = Tail(outgoing[c])
        /\ delivered'[c] = Append(delivered[c], Head(outgoing[c])) \/ delivered'[c] = delivered[c]
        /\ \A x \in Conns : x # c => outgoing'[x] = outgoing[x] /\ delivered'[x] = delivered[x]
    BY <1>t, <2>1 DEF TypeOK
  <2> QED BY <1>s, <2>1, <2>2, <2>3, Zenon DEF InOrder
<1>5. ASSUME NEW c \in Conns, SendFound(c) \/ QueueForOffline(c) PROVE InOrder'
  <2> DEFINE e == held[c]
  <2>1. e \in Envelopes /\ e.from = c /\ e.n = sent[c] /\ e.to \in Devices
    BY <1>5, SendReaches DEF Order
  <2>2. /\ held' = [held EXCEPT ![c] = NoEnvelope] /\ sent' = sent
        /\ delivered' = delivered
    BY <1>5 DEF SendFound, QueueForOffline, Routed
  <2>3. /\ Settled \in [Conns -> Int] /\ Settled' \in [Conns -> Int]
        /\ e.n = Settled[e.from] + 1 /\ e.n <= Settled'[e.from]
    <3>1. Settled \in [Conns -> Int]
      BY <1>t, SettledType
    <3>2. Settled' \in [Conns -> Int]
      <4>1. sent' \in [Conns -> 0..MaxSent] /\ MaxSent \in Nat
        BY <1>t, ConstantsAssumption DEF TypeOK
      <4> QED BY <4>1 DEF Settled
    <3>3. e # NoEnvelope /\ sent[c] \in Int
      BY <1>t, <2>1, EnvelopeAssumption DEF TypeOK
    <3>4. Settled[c] = sent[c] - 1 /\ Settled'[c] = sent[c]
      BY <1>t, <2>2, <3>3 DEF TypeOK, Settled
    <3> QED BY <2>1, <3>1, <3>2, <3>3, <3>4
  <2> HIDE DEF e
  <2>4. ASSUME NEW q \in Seq(Envelopes), Increasing(q), AtMost(q, Settled), AtMost(q, Settled')
        PROVE  Increasing(Append(q, e)) /\ AtMost(Append(q, e), Settled')
    <3>1. \A i \in 1..Len(q) : q[i].from = e.from => q[i].n < e.n
      BY <2>1, <2>3, <2>4, HeldComesLast
    <3>2. Increasing(Append(q, e))
      BY <2>1, <2>4, <3>1, AppendKeepsOrder
    <3>3. AtMost(Append(q, e), Settled')
      BY <2>1, <2>3, <2>4, AppendKeepsLimit
    <3> QED BY <3>2, <3>3
  <2>5. CASE UNCHANGED <<offline, outgoing>>
    BY <1>1, <2>2, <2>5
  <2>6. CASE offline' = [offline EXCEPT ![e.to] = Append(@, e)] /\ outgoing' = outgoing
    <3>1. offline[e.to] \in Seq(Envelopes) /\ AtMost(offline[e.to], Settled)
      BY <1>t, <2>1 DEF TypeOK, InOrder
    <3>2. Increasing(Append(offline[e.to], e)) /\ AtMost(Append(offline[e.to], e), Settled')
      BY <1>s, <2>1, <2>4, <3>1
    <3>3. /\ offline'[e.to] = Append(offline[e.to], e)
          /\ \A x \in Devices : x # e.to => offline'[x] = offline[x]
      BY <1>t, <2>1, <2>6 DEF TypeOK
    <3> QED BY <1>s, <2>2, <2>6, <3>2, <3>3, Zenon DEF InOrder
  <2>7. ASSUME NEW x \in Conns, offline' = offline,
               outgoing' = [outgoing EXCEPT ![x] = Append(@, e)]
        PROVE  InOrder'
    <3>1. /\ outgoing[x] \in Seq(Envelopes) /\ AtMost(outgoing[x], Settled)
          /\ delivered[x] \in Seq(Envelopes) /\ AtMost(delivered[x], Settled)
      BY <1>t DEF TypeOK, InOrder
    <3>2. Increasing(Append(outgoing[x], e)) /\ AtMost(Append(outgoing[x], e), Settled')
      BY <1>s, <2>4, <3>1
    <3>3. Follows(delivered[x], Append(outgoing[x], e))
      <4>1. \A i \in 1..Len(delivered[x]) : delivered[x][i].from = e.from
                                              => delivered[x][i].n < e.n
        BY <2>1, <2>3, <3>1, HeldComesLast
      <4>2. Follows(delivered[x], outgoing[x])
        BY <1>s
      <4>3. /\ Len(Append(outgoing[x], e)) = Len(outgoing[x]) + 1 /\ Len(outgoing[x]) \in Nat
            /\ \A j \in 1..Len(outgoing[x]) : Append(outgoing[x], e)[j] = outgoing[x][j]
            /\ Append(outgoing[x], e)[Len(outgoing[x]) + 1] = e
        BY <2>1, <3>1, AppendProperties
      <4> SUFFICES ASSUME NEW i \in 1..Len(delivered[x]),
                          NEW j \in 1..Len(Append(outgoing[x], e)),
                          delivered[x][i].from = Append(outgoing[x], e)[j].from
                   PROVE  delivered[x][i].n < Append(outgoing[x], e)[j].n
        BY DEF Follows
      <4>4. CASE j \in 1..Len(outgoing[x])
        BY <4>2, <4>3, <4>4 DEF Follows
      <4>5. CASE j = Len(outgoing[x]) + 1
        BY <4>1, <4>3, <4>5
      <4> QED BY <4>3, <4>4, <4>5
    <3>4. /\ outgoing'[x] = Append(outgoing[x], e)
          /\ \A y \in Conns : y # x => outgoing'[y] = outgoing[y]
      BY <1>t, <2>7 DEF TypeOK
    <3> QED BY <1>s, <2>2, <2>7, <3>2, <3>3, <3>4, Zenon DEF InOrder
  <2>8. ASSUME NEW x \in Conns, Send(x, e), offline' = offline PROVE InOrder'
    BY <2>5, <2>7, <2>8 DEF Send
  <2>9. \/ \E x \in Conns : Send(x, e) /\ offline' = offline
        \/ offline' = [offline EXCEPT ![e.to] = Append(@, e)] /\ outgoing' = outgoing
        \/ UNCHANGED <<offline, outgoing>>
    BY <1>5, SendReaches DEF Order, e
  <2> QED BY <2>5, <2>6, <2>8, <2>9
<1> QED
  BY <1>1, <1>2, <1>3, <1>4, <1>5
     DEF Next, vars, readerVars, Authenticate, AuthFails, FlushEnds, ReaderEnds,
         UnregisterPeer, Close, ClientGoes, PingFails, Read, LookUp

\* Envelopes from one connection to another are delivered in the order in which
\* they were sent and never twice, whatever is lost between them.
THEOREM HubDeliversInOrder == Spec => []DeliveredInOrder
<1>1. Init => Registry /\ Order
  BY RegistryHoldsInitially, OrderHoldsInitially
<1>2. Registry /\ Order /\ [Next]_vars => Registry' /\ Order'
  <2>1. Registry /\ [Next]_vars => Registry'
    BY TypeStep, ReaderStep, RegisteredStep, BacklogStep DEF Registry
  <2> QED BY <2>1, BookkeepingStep, OrderStep DEF Order
<1>3. Order => DeliveredInOrder
  BY DEF Order, InOrder, Increasing, DeliveredInOrder
<1> QED BY <1>1, <1>2, <1>3, PTL DEF Spec

-----------------------------------------------------------------------------
(* Induction with a set for the predicate, and what Keep keeps.             *)

LEMMA SetInduction ==
  ASSUME NEW S, 0 \in S, \A n \in Nat : n \in S => n + 1 \in S
  PROVE  \A n \in Nat : n \in S
<1> SUFFICES ASSUME Nat \ S # {} PROVE FALSE
  OBVIOUS
<1> DEFINE R == OpToRel(<, Nat)
<1>1. PICK x \in Nat \ S : \A y \in Nat \ S : <<y, x>> \notin R
  <2>1. IsWellFoundedOn(R, Nat) BY NatLessThanWellFounded
  <2> HIDE DEF R
  <2> QED BY <2>1, WFMin
<1>2. x # 0 /\ x - 1 \in Nat /\ x - 1 + 1 = x
  OBVIOUS
<1>3. <<x - 1, x>> \in R
  BY <1>2 DEF OpToRel
<1> QED
  BY <1>1, <1>2, <1>3

LEMMA SeqInduction ==
  ASSUME NEW T, NEW P, <<>> \in P,
         \A s \in Seq(T), x \in T : s \in P => Append(s, x) \in P
  PROVE  \A s \in Seq(T) : s \in P
<1> DEFINE S == {n \in Nat : \A s \in Seq(T) : Len(s) = n => s \in P}
<1>1. 0 \in S
  BY EmptySeq
<1>2. ASSUME NEW n \in Nat, n \in S PROVE n + 1 \in S
  <2> SUFFICES ASSUME NEW s \in Seq(T), Len(s) = n + 1 PROVE s \in P
    OBVIOUS
  <2>1. PICK t \in Seq(T), x \in T : s = Append(t, x)
    <3>1. s # <<>> BY EmptySeq
    <3> QED BY <3>1, SequenceEmptyOrAppend
  <2>2. Len(t) = n
    BY <2>1, AppendProperties
  <2> QED BY <1>2, <2>1, <2>2
<1>3. \A n \in Nat : n \in S
  <2> HIDE DEF S
  <2> QED BY <1>1, <1>2, SetInduction
<1> QED
  BY <1>3

KeepStep(s, I, g, n) ==
  IF n = 0 THEN <<>> ELSE IF n \in I THEN Append(g[n - 1], s[n]) ELSE g[n - 1]

IsKept(s, I, g) == g = [n \in 0 .. Len(s) |-> KeepStep(s, I, g, n)]

\* The recursive function in Keep exists.
LEMMA KeepIsRecursive ==
  ASSUME NEW s, NEW I, Len(s) \in Nat
  PROVE  \E g : IsKept(s, I, g) /\ Keep(s, I) = g[Len(s)]
<1> DEFINE S == {m \in Nat : \E g : g = [n \in 0 .. m |-> KeepStep(s, I, g, n)]}
<1>1. 0 \in S
  <2> DEFINE g == [n \in 0 .. 0 |-> <<>>]
  <2> g = [n \in 0 .. 0 |-> KeepStep(s, I, g, n)] BY DEF KeepStep
  <2> QED OBVIOUS
<1>2. ASSUME NEW m \in Nat, m \in S PROVE m + 1 \in S
  <2> PICK g : g = [n \in 0 .. m |-> KeepStep(s, I, g, n)] BY <1>2
  <2> DEFINE h == [n \in 0 .. (m + 1) |-> IF n \in 0 .. m THEN g[n] ELSE KeepStep(s, I, g, n)]
  <2>1. ASSUME NEW n \in 0 .. (m + 1) PROVE h[n] = KeepStep(s, I, h, n)
    <3>1. n # 0 => n - 1 \in 0 .. m /\ n - 1 \in 0 .. (m + 1) OBVIOUS
    <3>2. n # 0 => h[n - 1] = g[n - 1] BY <3>1
    <3>3. KeepStep(s, I, h, n) = KeepStep(s, I, g, n) BY <3>2 DEF KeepStep
    <3> QED BY <3>3
  <2>2. h = [n \in 0 .. (m + 1) |-> KeepStep(s, I, h, n)]
    BY <2>1
  <2> QED BY <2>2
<1>3. Len(s) \in S
  <2> HIDE DEF S
  <2> QED BY <1>1, <1>2, SetInduction
<1> DEFINE F == CHOOSE g : IsKept(s, I, g)
<1>4. IsKept(s, I, F)
  BY <1>3 DEF IsKept
<1>5. Keep(s, I) = F[Len(s)]
  BY DEF Keep, KeepStep, IsKept
<1> QED BY <1>4, <1>5

\* Two sequences that agree up to m are filtered alike up to m.
LEMMA KeepAgrees ==
  ASSUME NEW s, NEW t, NEW I, NEW J, NEW g, NEW h, NEW m \in Nat,
         Len(s) \in Nat, Len(t) \in Nat, m <= Len(s), m <= Len(t),
         \A n \in 1 .. m : s[n] = t[n] /\ (n \in I <=> n \in J),
         IsKept(s, I, g), IsKept(t, J, h)
  PROVE  g[m] = h[m]
<1> DEFINE S == {n \in Nat : n <= m => g[n] = h[n]}
<1>1. 0 \in S
  BY DEF IsKept, KeepStep
<1>2. ASSUME NEW n \in Nat, n \in S PROVE n + 1 \in S
  <2> SUFFICES ASSUME n + 1 <= m PROVE g[n + 1] = h[n + 1]
    OBVIOUS
  <2>1. g[n + 1] = KeepStep(s, I, g, n + 1) /\ h[n + 1] = KeepStep(t, J, h, n + 1)
    <3>1. n + 1 \in 0 .. Len(s) /\ n + 1 \in 0 .. Len(t)
      OBVIOUS
    <3>2. g[n + 1] = KeepStep(s, I, g, n + 1)
      BY <3>1 DEF IsKept
    <3>3. h[n + 1] = KeepStep(t, J, h, n + 1)
      BY <3>1 DEF IsKept
    <3> QED BY <3>2, <3>3
  <2>2. n + 1 \in 1 .. m /\ n + 1 # 0 /\ n + 1 - 1 = n /\ g[n] = h[n]
    BY <1>2
  <2> QED BY <2>1, <2>2 DEF KeepStep
<1>3. m \in S
  <2> HIDE DEF S
  <2> QED BY <1>1, <1>2, SetInduction
<1> QED BY <1>3

LEMMA KeepEmpty ==
  ASSUME NEW I
  PROVE  Keep(<<>>, I) = <<>>
<1>1. Len(<<>>) = 0
  OBVIOUS
<1> QED BY <1>1, KeepIsRecursive DEF IsKept, KeepStep

LEMMA KeepAppend ==
  ASSUME NEW T, NEW s \in Seq(T), NEW x \in T, NEW I, NEW J,
         \A n \in DOMAIN s : n \in I <=> n \in J
  PROVE  Keep(Append(s, x), I) =
           IF Len(s) + 1 \in I THEN Append(Keep(s, J), x) ELSE Keep(s, J)
<1> DEFINE t == Append(s, x)
           m == Len(s)
<1>1. /\ m \in Nat /\ Len(t) = m + 1 /\ t[m + 1] = x
      /\ DOMAIN s = 1 .. m /\ \A n \in 1 .. m : t[n] = s[n]
  BY AppendProperties, LenProperties
<1>2. PICK g : IsKept(t, I, g) /\ Keep(t, I) = g[m + 1]
  <2>1. Len(t) \in Nat
    BY <1>1
  <2> HIDE DEF t
  <2>2. \E g : IsKept(t, I, g) /\ Keep(t, I) = g[Len(t)]
    BY <2>1, KeepIsRecursive
  <2> QED BY <1>1, <2>2
<1>3. PICK h : IsKept(s, J, h) /\ Keep(s, J) = h[m]
  BY <1>1, KeepIsRecursive
<1> HIDE DEF t, m
<1>4. g[m] = h[m]
  BY <1>1, <1>2, <1>3, KeepAgrees DEF m
<1>5. g[m + 1] = KeepStep(t, I, g, m + 1)
  BY <1>1, <1>2 DEF IsKept
<1>6. m + 1 # 0 /\ m + 1 - 1 = m
  BY <1>1
<1>7. g[m + 1] = IF m + 1 \in I THEN Append(h[m], x) ELSE h[m]
  BY <1>1, <1>4, <1>5, <1>6 DEF KeepStep
<1>8. Keep(t, I) = IF m + 1 \in I THEN Append(Keep(s, J), x) ELSE Keep(s, J)
  BY <1>2, <1>3, <1>7
<1> QED BY <1>8 DEF t, m

\* k has some of the elements of s, among them those at the indexes in I.
KeptFrom(T, s, I, k) ==
  /\ k \in Seq(T) /\ Len(k) <= Len(s)
  /\ \A i \in 1 .. Len(s) : i \in I => \E j \in 1 .. Len(k) : k[j] = s[i]
  /\ \A j \in 1 .. Len(k) : \E i \in 1 .. Len(s) : i \in I /\ s[i] = k[j]

LEMMA KeepElements ==
  ASSUME NEW T, NEW I
  PROVE  \A s \in Seq(T) : KeptFrom(T, s, I, Keep(s, I))
<1> DEFINE P == {s \in Seq(T) : KeptFrom(T, s, I, Keep(s, I))}
<1>1. <<>> \in P
  <2>1. <<>> \in Seq(T) /\ Len(<<>>) = 0 /\ 1 .. 0 = {}
    BY EmptySeq
  <2>2. KeptFrom(T, <<>>, I, <<>>)
    BY <2>1 DEF KeptFrom
  <2> QED BY <2>1, <2>2, KeepEmpty
<1>2. ASSUME NEW s \in Seq(T), NEW x \in T, s \in P PROVE Append(s, x) \in P
  <2> DEFINE t == Append(s, x)
             m == Len(s)
             k == Keep(s, I)
             l == Keep(t, I)
  <2>1. /\ t \in Seq(T) /\ m \in Nat /\ Len(t) = m + 1 /\ t[m + 1] = x
        /\ \A n \in 1 .. m : t[n] = s[n]
    BY AppendProperties, LenProperties
  <2>2. l = IF m + 1 \in I THEN Append(k, x) ELSE k
    BY KeepAppend
  <2>3. KeptFrom(T, s, I, k) BY <1>2
  <2> HIDE DEF t, k, l
  <2> SUFFICES KeptFrom(T, t, I, l)
    BY <2>1 DEF t, l
  <2>4. CASE m + 1 \notin I
    <3>1. Len(s) = m /\ 1 .. m \subseteq 1 .. (m + 1)
      BY <2>1
    <3> HIDE DEF m
    <3>2. \A i \in 1 .. (m + 1) : i \in I => i \in 1 .. m
      BY <2>1, <2>4
    <3>3. /\ k \in Seq(T) /\ Len(k) \in Nat /\ Len(k) <= m
          /\ \A i \in 1 .. m : i \in I => \E j \in 1 .. Len(k) : k[j] = s[i]
          /\ \A j \in 1 .. Len(k) : \E i \in 1 .. m : i \in I /\ s[i] = k[j]
      BY <2>3, <3>1, LenProperties DEF KeptFrom
    <3>4. l = k
      BY <2>2, <2>4
    <3>5. \A i \in 1 .. (m + 1) : i \in I => \E j \in 1 .. Len(k) : k[j] = t[i]
      BY <2>1, <3>2, <3>3
    <3>6. \A j \in 1 .. Len(k) : \E i \in 1 .. (m + 1) : i \in I /\ t[i] = k[j]
      BY <2>1, <3>1, <3>3
    <3> QED BY <2>1, <3>3, <3>4, <3>5, <3>6 DEF KeptFrom
  <2>5. CASE m + 1 \in I
    <3> DEFINE c == Len(k)
    <3>1. /\ c \in Nat /\ l \in Seq(T) /\ Len(l) = c + 1 /\ l[c + 1] = x
          /\ \A n \in 1 .. c : l[n] = k[n]
      BY <2>2, <2>3, <2>5, AppendProperties, LenProperties DEF KeptFrom
    <3>2. c <= m /\ m = Len(s)
      BY <2>3 DEF KeptFrom
    <3> HIDE DEF c, m
    <3>3. ASSUME NEW i \in 1 .. (m + 1), i \in I PROVE \E j \in 1 .. (c + 1) : l[j] = t[i]
      <4>1. CASE i = m + 1
        BY <2>1, <3>1, <4>1
      <4>2. CASE i # m + 1
        <5>1. i \in 1 .. m
          BY <2>1, <4>2
        <5>2. PICK j \in 1 .. c : k[j] = s[i]
          BY <2>3, <3>2, <3>3, <5>1 DEF KeptFrom, c
        <5> QED BY <2>1, <3>1, <5>1, <5>2
      <4> QED BY <4>1, <4>2
    <3>4. ASSUME NEW j \in 1 .. (c + 1) PROVE \E i \in 1 .. (m + 1) : i \in I /\ t[i] = l[j]
      <4>1. CASE j = c + 1
        BY <2>1, <2>5, <3>1, <4>1
      <4>2. CASE j # c + 1
        <5>1. j \in 1 .. c
          BY <3>1, <4>2
        <5>2. PICK i \in 1 .. m : i \in I /\ s[i] = k[j]
          BY <2>3, <3>2, <5>1 DEF KeptFrom, c
        <5> QED BY <2>1, <3>1, <5>1, <5>2
      <4> QED BY <4>1, <4>2
    <3> QED BY <2>1, <3>1, <3>2, <3>3, <3>4 DEF KeptFrom
  <2> QED BY <2>4, <2>5
<1>3. \A s \in Seq(T) : s \in P
  <2> HIDE DEF P
  <2> QED BY <1>1, <1>2, SeqInduction
<1> QED BY <1>3

LEMMA KeepAll ==
  ASSUME NEW T, NEW I
  PROVE  \A s \in Seq(T) : 1 .. Len(s) \subseteq I => Keep(s, I) = s
<1> DEFINE P == {s \in Seq(T) : 1 .. Len(s) \subseteq I => Keep(s, I) = s}
<1>1. <<>> \in P
  BY KeepEmpty, EmptySeq
<1>2. ASSUME NEW s \in Seq(T), NEW x \in T, s \in P PROVE Append(s, x) \in P
  <2>1. /\ Append(s, x) \in Seq(T) /\ Len(Append(s, x)) = Len(s) + 1 /\ Len(s) \in Nat
    BY AppendProperties, LenProperties
  <2>2. Keep(Append(s, x), I) = IF Len(s) + 1 \in I THEN Append(Keep(s, I), x) ELSE Keep(s, I)
    BY KeepAppend
  <2> QED BY <1>2, <2>1, <2>2
<1>3. \A s \in Seq(T) : s \in P
  <2> HIDE DEF P
  <2> QED BY <1>1, <1>2, SeqInduction
<1> QED BY <1>3

-----------------------------------------------------------------------------
(* The offline queue: filtered by the elements' age.                        *)

\* The elements of s in A.
Only(s, A) == Keep(s, {i \in DOMAIN s : s[i] \in A})

LEMMA OnlyEmpty ==
  ASSUME NEW A
  PROVE  Only(<<>>, A) = <<>>
BY KeepEmpty DEF Only

LEMMA OnlyAppend ==
  ASSUME NEW T, NEW s \in Seq(T), NEW x \in T, NEW A
  PROVE  Only(Append(s, x), A) = IF x \in A THEN Append(Only(s, A), x) ELSE Only(s, A)
<1> DEFINE t == Append(s, x)
           m == Len(s)
           I == {i \in DOMAIN t : t[i] \in A}
           J == {i \in DOMAIN s : s[i] \in A}
<1>1. /\ m \in Nat /\ t[m + 1] = x /\ DOMAIN t = 1 .. (m + 1)
      /\ DOMAIN s = 1 .. m /\ \A n \in 1 .. m : t[n] = s[n]
  BY AppendProperties, LenProperties
<1>2. (\A n \in DOMAIN s : n \in I <=> n \in J) /\ (m + 1 \in I <=> x \in A)
  BY <1>1
<1>3. Keep(t, I) = IF m + 1 \in I THEN Append(Keep(s, J), x) ELSE Keep(s, J)
  <2> HIDE DEF I, J
  <2> QED BY <1>2, KeepAppend
<1> QED BY <1>2, <1>3 DEF Only

LEMMA OnlyType ==
  ASSUME NEW T, NEW s \in Seq(T), NEW A
  PROVE  /\ Only(s, A) \in Seq(T) /\ Len(Only(s, A)) <= Len(s)
         /\ \A i \in 1 .. Len(s) : s[i] \in A => \E j \in 1 .. Len(Only(s, A)) : Only(s, A)[j] = s[i]
         /\ \A j \in 1 .. Len(Only(s, A)) :
              Only(s, A)[j] \in A /\ \E i \in 1 .. Len(s) : s[i] = Only(s, A)[j]
<1> DEFINE I == {i \in DOMAIN s : s[i] \in A}
<1>1. KeptFrom(T, s, I, Keep(s, I))
  BY KeepElements
<1>2. DOMAIN s = 1 .. Len(s)
  BY LenProperties
<1>3. \A i \in 1 .. Len(s) : i \in I <=> s[i] \in A
  BY <1>2
<1>4. Only(s, A) = Keep(s, I)
  BY DEF Only
<1> HIDE DEF I
<1> QED BY <1>1, <1>3, <1>4 DEF KeptFrom

LEMMA OnlyAll ==
  ASSUME NEW T, NEW s \in Seq(T), NEW A, \A i \in 1 .. Len(s) : s[i] \in A
  PROVE  Only(s, A) = s
<1> DEFINE I == {i \in DOMAIN s : s[i] \in A}
<1>1. 1 .. Len(s) \subseteq I
  BY LenProperties
<1> HIDE DEF I
<1> QED BY <1>1, KeepAll DEF Only, I

\* Filtering twice is filtering by both.
LEMMA OnlyTwice ==
  ASSUME NEW T, NEW A, NEW B
  PROVE  \A s \in Seq(T) : Only(Only(s, A), B) = Only(s, A \cap B)
<1> DEFINE P == {s \in Seq(T) : Only(Only(s, A), B) = Only(s, A \cap B)}
<1>1. <<>> \in P
  BY OnlyEmpty, EmptySeq
<1>2. ASSUME NEW s \in Seq(T), NEW x \in T, s \in P PROVE Append(s, x) \in P
  <2>1. Only(s, A) \in Seq(T)
    BY OnlyType
  <2>2. /\ Only(Append(s, x), A) = IF x \in A THEN Append(Only(s, A), x) ELSE Only(s, A)
        /\ Only(Append(s, x), A \cap B) =
             IF x \in A \cap B THEN Append(Only(s, A \cap B), x) ELSE Only(s, A \cap B)
    BY OnlyAppend
  <2>3. Only(Append(Only(s, A), x), B) =
          IF x \in B THEN Append(Only(Only(s, A), B), x) ELSE Only(Only(s, A), B)
    BY <2>1, OnlyAppend
  <2>4. Append(s, x) \in Seq(T)
    BY AppendProperties
  <2>5. Only(Only(s, A), B) = Only(s, A \cap B)
    BY <1>2
  <2>6. Only(Only(Append(s, x), A), B) = Only(Append(s, x), A \cap B)
    <3>1. CASE x \notin A
      BY <2>2, <2>5, <3>1
    <3>2. CASE x \in A
      <4>1. Only(Append(s, x), A) = Append(Only(s, A), x) /\ (x \in A \cap B <=> x \in B)
        BY <2>2, <3>2
      <4>2. CASE x \in B
        BY <2>2, <2>3, <2>5, <4>1, <4>2
      <4>3. CASE x \notin B
        BY <2>2, <2>3, <2>5, <4>1, <4>3
      <4> QED BY <4>2, <4>3
    <3> QED BY <3>1, <3>2
  <2> QED BY <2>4, <2>6
<1>3. \A s \in Seq(T) : s \in P
  <2> HIDE DEF P
  <2> QED BY <1>1, <1>2, SeqInduction
<1> QED BY <1>3

Differ(s) == \A i, j \in 1 .. Len(s) : s[i].e = s[j].e => i = j

\* Elements of different envelopes stay so.
LEMMA OnlyDiffers ==
  ASSUME NEW T, NEW A
  PROVE  \A s \in Seq(T) : Differ(s) => Differ(Only(s, A))
<1> DEFINE P == {s \in Seq(T) : Differ(s) => Differ(Only(s, A))}
<1>1. <<>> \in P
  <2>1. <<>> \in Seq(T) /\ Only(<<>>, A) = <<>>
    BY OnlyEmpty, EmptySeq
  <2> QED BY <2>1
<1>2. ASSUME NEW s \in Seq(T), NEW x \in T, Differ(s) => Differ(Only(s, A)),
             Differ(Append(s, x))
      PROVE  Differ(Only(Append(s, x), A))
  <2> DEFINE t == Append(s, x)
             m == Len(s)
             k == Only(s, A)
             c == Len(k)
  <2>1. /\ m \in Nat /\ Len(t) = m + 1 /\ t[m + 1] = x /\ \A n \in 1 .. m : t[n] = s[n]
    BY AppendProperties, LenProperties
  <2>2. Differ(s)
    BY <1>2, <2>1 DEF Differ
  <2>3. k \in Seq(T) /\ \A j \in 1 .. c : \E i \in 1 .. m : s[i] = k[j]
    BY OnlyType
  <2>4. Differ(k)
    BY <1>2, <2>2
  <2>5. Only(t, A) = IF x \in A THEN Append(k, x) ELSE k
    BY OnlyAppend
  <2>6. \A j \in 1 .. c : k[j].e # x.e
    <3> SUFFICES ASSUME NEW j \in 1 .. c, k[j].e = x.e PROVE FALSE
      OBVIOUS
    <3>1. PICK i \in 1 .. m : s[i] = k[j]
      BY <2>3
    <3>2. t[i].e = t[m + 1].e /\ i \in 1 .. Len(t) /\ m + 1 \in 1 .. Len(t) /\ i # m + 1
      BY <2>1, <3>1
    <3> QED BY <1>2, <3>2 DEF Differ
  <2>7. /\ c \in Nat /\ Len(Append(k, x)) = c + 1 /\ Append(k, x)[c + 1] = x
        /\ \A n \in 1 .. c : Append(k, x)[n] = k[n]
    BY <2>3, AppendProperties, LenProperties
  <2>8. Differ(Append(k, x))
    <3> DEFINE l == Append(k, x)
    <3> SUFFICES ASSUME NEW i \in 1 .. (c + 1), NEW j \in 1 .. (c + 1), l[i].e = l[j].e
                 PROVE  i = j
      BY <2>7 DEF Differ
    <3> HIDE DEF l, c, k
    <3>1. (i \in 1 .. c \/ i = c + 1) /\ (j \in 1 .. c \/ j = c + 1)
      BY <2>7
    <3> QED BY <2>4, <2>6, <2>7, <3>1 DEF Differ, l, c
  <2> QED BY <2>4, <2>5, <2>8
<1>3. \A s \in Seq(T) : s \in P
  <2>1. \A s \in Seq(T), x \in T : Append(s, x) \in Seq(T)
    OBVIOUS
  <2>2. \A s \in Seq(T), x \in T : s \in P => Append(s, x) \in P
    BY <1>2, <2>1
  <2> HIDE DEF P
  <2> QED BY <1>1, <2>2, SeqInduction
<1> QED BY <1>3

Entries == [e : Offline!Envelopes, at : 0 .. MaxNow]
FreshAt(n) == {x \in Entries : n - x.at < TTL}
Limit(q) == IF Len(q) > MaxQueued THEN SubSeq(q, Len(q) - MaxQueued + 1, Len(q)) ELSE q

QueueTypes ==
  /\ now \in 0 .. MaxNow /\ alarm \in 0 .. Offline!Never
  /\ conn \in [Offline!Sockets -> {"none", "verify", "touch", "identity", "flush", "ready", "gone"}]
  /\ alive \subseteq Offline!Sockets /\ peer \in 0 .. MaxConns /\ silent \in BOOLEAN
  /\ waiting \in Seq(Entries) /\ Len(waiting) <= MaxQueued
  /\ stored \in Seq(Entries) /\ Len(stored) <= MaxQueued
  /\ flush \in [Offline!Sockets -> [to : 0 .. MaxConns, items : Seq(Entries)]]
  /\ checking \in [Offline!Envelopes -> 0 .. (MaxConns + 2)]
  /\ got \in [Offline!Envelopes -> Nat] /\ faults \in Nat /\ crashed \in BOOLEAN

LEMMA FreshIsOnly ==
  ASSUME NEW q \in Seq(Entries), NEW n
  PROVE  Keep(q, {i \in DOMAIN q : n - q[i].at < TTL}) = Only(q, FreshAt(n))
<1>1. \A i \in DOMAIN q : q[i] \in Entries
  BY ElementOfSeq, LenProperties
<1>2. {i \in DOMAIN q : n - q[i].at < TTL} = {i \in DOMAIN q : q[i] \in FreshAt(n)}
  BY <1>1 DEF FreshAt
<1> QED BY <1>2 DEF Only

LEMMA FreshOnlyIsOnly ==
  ASSUME NEW q \in Seq(Entries)
  PROVE  Offline!FreshOnly(q) = Only(q, FreshAt(now))
BY FreshIsOnly DEF Offline!FreshOnly, Offline!Fresh, Offline!Keep, Keep

LEMMA LimitIsSuffix ==
  ASSUME NEW q \in Seq(Entries)
  PROVE  /\ Limit(q) \in Seq(Entries) /\ Len(Limit(q)) <= MaxQueued
         /\ Len(q) <= MaxQueued => Limit(q) = q
         /\ Len(q) > MaxQueued => Len(Limit(q)) = MaxQueued
         /\ \E d \in Nat : /\ d + Len(Limit(q)) = Len(q)
                           /\ \A i \in 1 .. Len(Limit(q)) : Limit(q)[i] = q[i + d]
<1> DEFINE m == Len(q) - MaxQueued
<1>1. Len(q) \in Nat /\ MaxQueued \in Nat \ {0}
  BY LenProperties, QueueAssumption
<1>2. CASE Len(q) <= MaxQueued
  BY <1>1, <1>2 DEF Limit
<1>3. CASE Len(q) > MaxQueued
  <2>1. m \in Nat /\ m + 1 \in 1 .. Len(q) /\ Limit(q) = SubSeq(q, m + 1, Len(q))
    BY <1>1, <1>3 DEF Limit
  <2>2. /\ Limit(q) \in Seq(Entries) /\ Len(Limit(q)) = MaxQueued
        /\ \A i \in 1 .. MaxQueued : Limit(q)[i] = q[i + m]
    BY <1>1, <1>3, <2>1, SubSeqProperties
  <2>3. m + Len(Limit(q)) = Len(q)
    BY <1>1, <2>2
  <2>4. \E d \in Nat : /\ d + Len(Limit(q)) = Len(q)
                       /\ \A i \in 1 .. Len(Limit(q)) : Limit(q)[i] = q[i + d]
    <3>1. \A i \in 1 .. Len(Limit(q)) : Limit(q)[i] = q[i + m]
      BY <2>2
    <3> HIDE DEF m
    <3> QED BY <2>1, <2>3, <3>1
  <2> HIDE DEF m
  <2>5. Len(Limit(q)) <= MaxQueued
    BY <1>1, <2>2
  <2>6. ~(Len(q) <= MaxQueued)
    BY <1>1, <1>3
  <2> QED BY <1>3, <2>2, <2>4, <2>5, <2>6
<1> QED BY <1>1, <1>2, <1>3

LEMMA NextExpiryWatches ==
  ASSUME NEW q \in Seq(Entries), now \in 0 .. MaxNow
  PROVE  /\ Offline!NextExpiry(q) \in 0 .. Offline!Never
         /\ \A i \in 1 .. Len(q) :
              Offline!NextExpiry(q) <= q[i].at + TTL \/ Offline!NextExpiry(q) <= now
<1> DEFINE due(i) == IF Offline!Fresh(q[i]) THEN q[i].at + TTL ELSE now
           S == {due(i) : i \in 1 .. Len(q)}
<1>1. /\ \A i \in 1 .. Len(q) : q[i] \in Entries
      /\ DOMAIN q = 1 .. Len(q) /\ Len(q) \in Nat
  BY ElementOfSeq, LenProperties
<1>2. \A i \in 1 .. Len(q) : due(i) \in 0 .. Offline!Never
  BY <1>1, QueueAssumption DEF Entries, Offline!Never
<1>3. CASE q = <<>>
  <2>1. Offline!NextExpiry(q) = Offline!Never /\ 1 .. Len(q) = {}
    BY <1>3 DEF Offline!NextExpiry
  <2> QED BY <2>1, QueueAssumption DEF Offline!Never
<1>4. CASE q # <<>>
  <2>1. Offline!NextExpiry(q) = Offline!Min(S)
    BY <1>1, <1>4 DEF Offline!NextExpiry
  <2>2. S # {} /\ S \subseteq Nat
    BY <1>1, <1>2, <1>4, EmptySeq, QueueAssumption DEF Offline!Never
  <2>3. \E x \in S : \A y \in S : x <= y
    <3> HIDE DEF S
    <3> DEFINE R == OpToRel(<, Nat)
    <3>1. IsWellFoundedOn(R, Nat) BY NatLessThanWellFounded
    <3>2. PICK x \in S : \A y \in S : <<y, x>> \notin R
      <4> HIDE DEF R
      <4> QED BY <2>2, <3>1, WFMin
    <3>3. \A y \in S : ~(y < x)
      BY <2>2, <3>2 DEF OpToRel
    <3> QED BY <2>2, <3>3
  <2>4. Offline!Min(S) \in S /\ \A y \in S : Offline!Min(S) <= y
    <3> HIDE DEF S
    <3> QED BY <2>3 DEF Offline!Min
  <2>5. \A i \in 1 .. Len(q) : Offline!Min(S) <= due(i)
    BY <2>4
  <2>6. Offline!Min(S) \in 0 .. Offline!Never
    BY <1>2, <2>4
  <2> HIDE DEF S
  <2> QED BY <2>1, <2>5, <2>6
<1> QED BY <1>3, <1>4

\* What storing the queue leaves: the queue in both, watched by the alarm.
LEMMA PersistTypes ==
  ASSUME NEW q \in Seq(Entries), Len(q) <= MaxQueued, now \in 0 .. MaxNow, Offline!Persist(q)
  PROVE  /\ waiting' = q /\ stored' = q /\ alarm' = Offline!NextExpiry(q)
         /\ alarm' \in 0 .. Offline!Never
BY NextExpiryWatches DEF Offline!Persist

LEMMA LimitedIsLimit == \A q : Offline!Limited(q) = Limit(q)
BY DEF Offline!Limited, Limit

\* Evicting and storing leave queues within their limit.
LEMMA EvictTypes ==
  ASSUME QueueTypes, Offline!Evict
  PROVE  /\ waiting' \in {waiting, Only(waiting, FreshAt(now))}
         /\ waiting' \in Seq(Entries) /\ Len(waiting') <= MaxQueued
         /\ stored' \in {stored, waiting'}
         /\ stored' = stored => waiting' = waiting \/ stored' = waiting'
         /\ alarm' = Offline!NextExpiry(waiting') /\ alarm' \in 0 .. Offline!Never
<1> DEFINE f == Offline!FreshOnly(waiting)
<1>1. f = Only(waiting, FreshAt(now)) /\ f \in Seq(Entries) /\ Len(f) <= MaxQueued
  <2>1. f = Only(waiting, FreshAt(now))
    BY FreshOnlyIsOnly DEF QueueTypes
  <2>2. Only(waiting, FreshAt(now)) \in Seq(Entries) /\ Len(Only(waiting, FreshAt(now))) <= Len(waiting)
    BY OnlyType DEF QueueTypes
  <2>3. Len(Only(waiting, FreshAt(now))) \in Nat /\ Len(waiting) \in Nat /\ MaxQueued \in Nat
    BY <2>2, LenProperties, QueueAssumption DEF QueueTypes
  <2> QED BY <2>1, <2>2, <2>3 DEF QueueTypes
<1>2. CASE Offline!Persist(f)
  <2> HIDE DEF f
  <2> QED BY <1>1, <1>2, PersistTypes DEF QueueTypes
<1>3. CASE f = waiting /\ UNCHANGED <<waiting, stored>> /\ alarm' = Offline!NextExpiry(waiting)
  BY <1>1, <1>3, NextExpiryWatches DEF QueueTypes
<1> QED BY <1>2, <1>3 DEF Offline!Evict

LEMMA AppendTypes ==
  ASSUME NEW q \in Seq(Entries), NEW x \in Entries
  PROVE  Limit(Append(q, x)) \in Seq(Entries) /\ Len(Limit(Append(q, x))) <= MaxQueued
BY AppendProperties, LimitIsSuffix

LEMMA RebuiltTypes ==
  ASSUME QueueTypes, Offline!Rebuilt
  PROVE  /\ waiting' = Only(stored, FreshAt(now)) /\ stored' = waiting'
         /\ waiting' \in Seq(Entries) /\ Len(waiting') <= MaxQueued
         /\ alarm' = Offline!NextExpiry(waiting') /\ alarm' \in 0 .. Offline!Never
         /\ flush' \in [Offline!Sockets -> [to : 0 .. MaxConns, items : Seq(Entries)]]
         /\ checking' \in [Offline!Envelopes -> 0 .. (MaxConns + 2)]
         /\ now' = now /\ got' = got /\ faults' \in Nat
<1>1. waiting' = Only(stored, FreshAt(now)) /\ stored' = waiting' /\ alarm' = Offline!NextExpiry(waiting')
  BY FreshOnlyIsOnly DEF QueueTypes, Offline!Rebuilt
<1>2. waiting' \in Seq(Entries) /\ Len(waiting') <= Len(stored)
  BY <1>1, OnlyType DEF QueueTypes
<1>3. Len(waiting') <= MaxQueued
  BY <1>2, LenProperties, QueueAssumption DEF QueueTypes
<1>4. alarm' \in 0 .. Offline!Never
  BY <1>1, <1>2, NextExpiryWatches DEF QueueTypes
<1>5. flush' \in [Offline!Sockets -> [to : 0 .. MaxConns, items : Seq(Entries)]]
  BY EmptySeq, QueueAssumption DEF Offline!Rebuilt, Offline!NoFlush
<1>6. checking' \in [Offline!Envelopes -> 0 .. (MaxConns + 2)]
  BY QueueAssumption DEF QueueTypes, Offline!Rebuilt, Offline!Unsent, Offline!Handled
<1> QED BY <1>1, <1>2, <1>3, <1>4, <1>5, <1>6 DEF QueueTypes, Offline!Rebuilt

LEMMA QueueTypesStep ==
  ASSUME QueueTypes, [Offline!Next]_offlineVars
  PROVE  QueueTypes'
<1> USE QueueAssumption
<1>1. ASSUME NEW c \in Offline!Sockets,
             \/ Offline!Accept(c) \/ Offline!Register(c) \/ Offline!Touched(c)
             \/ Offline!Close(c) \/ Offline!Closed(c)
      PROVE  QueueTypes'
  <2>1. UNCHANGED <<now, alarm, waiting, stored, flush, checking, got, faults, crashed>>
    BY <1>1 DEF Offline!Accept, Offline!Register, Offline!Touched, Offline!Close,
                Offline!Closed, Offline!queues
  <2>2. conn' = conn \/ \E v \in {"verify", "touch", "identity", "gone"} : conn' = [conn EXCEPT ![c] = v]
    BY <1>1 DEF Offline!Accept, Offline!Register, Offline!Touched, Offline!Close, Offline!Closed
  <2>3. alive' \subseteq alive \cup {c}
    BY <1>1 DEF Offline!Accept, Offline!Register, Offline!Touched, Offline!Close, Offline!Closed
  <2>4. peer' \in {peer, c, 0} /\ (silent' = silent \/ silent' = FALSE)
    BY <1>1 DEF Offline!Accept, Offline!Register, Offline!Touched, Offline!Close, Offline!Closed,
                Offline!Unregister
  <2>5. peer' \in 0 .. MaxConns /\ silent' \in BOOLEAN
    <3>1. peer' \in 0 .. MaxConns
      BY <2>4 DEF QueueTypes, Offline!Sockets
    <3>2. silent' \in BOOLEAN
      BY <2>4 DEF QueueTypes
    <3> QED BY <3>1, <3>2
  <2>6. conn' \in [Offline!Sockets -> {"none", "verify", "touch", "identity", "flush", "ready", "gone"}]
    BY <2>2 DEF QueueTypes
  <2>7. alive' \subseteq Offline!Sockets
    BY <2>3 DEF QueueTypes
  <2> QED BY <2>1, <2>5, <2>6, <2>7 DEF QueueTypes
<1>2. ASSUME NEW c \in Offline!Sockets, Offline!FlushStarts(c)
      PROVE  QueueTypes'
  <2>1. /\ \/ flush' = flush /\ waiting' = waiting /\ conn' = [conn EXCEPT ![c] = "ready"]
           \/ /\ flush' = [flush EXCEPT ![c] = [to |-> peer, items |-> waiting]]
              /\ waiting' = <<>> /\ conn' = [conn EXCEPT ![c] = "flush"]
        /\ UNCHANGED <<now, alarm, alive, peer, silent, stored, checking, got, faults, crashed>>
    BY <1>2 DEF Offline!FlushStarts
  <2>2. <<>> \in Seq(Entries) /\ Len(<<>>) <= MaxQueued
    BY EmptySeq
  <2>3. [to |-> peer, items |-> waiting] \in [to : 0 .. MaxConns, items : Seq(Entries)]
    BY DEF QueueTypes
  <2>4. conn' \in [Offline!Sockets -> {"none", "verify", "touch", "identity", "flush", "ready", "gone"}]
    BY <2>1 DEF QueueTypes
  <2>5. flush' \in [Offline!Sockets -> [to : 0 .. MaxConns, items : Seq(Entries)]]
    BY <2>1, <2>3 DEF QueueTypes
  <2>6. waiting' \in Seq(Entries) /\ Len(waiting') <= MaxQueued
    BY <2>1, <2>2 DEF QueueTypes
  <2> QED BY <2>1, <2>4, <2>5, <2>6 DEF QueueTypes
<1>3. ASSUME NEW c \in Offline!Sockets, Offline!FlushNext(c)
      PROVE  QueueTypes'
  <2> DEFINE items == flush[c].items
             x == Head(items)
  <2>1. items \in Seq(Entries) /\ items # <<>>
    BY <1>3 DEF QueueTypes, Offline!FlushNext
  <2>2. x \in Entries /\ Tail(items) \in Seq(Entries)
    BY <2>1, HeadTailProperties
  <2>3. x.e \in Offline!Envelopes
    BY <2>2 DEF Entries
  <2>4. Limit(Append(waiting, x)) \in Seq(Entries) /\ Len(Limit(Append(waiting, x))) <= MaxQueued
    BY <2>2, AppendTypes DEF QueueTypes
  <2>5. flush' = [flush EXCEPT ![c].items = Tail(items)]
    BY <1>3 DEF Offline!FlushNext
  <2>6. flush' \in [Offline!Sockets -> [to : 0 .. MaxConns, items : Seq(Entries)]]
    <3> HIDE DEF items
    <3> QED BY <2>2, <2>5 DEF QueueTypes
  <2>7. \/ got' = [got EXCEPT ![x.e] = @ + 1] /\ waiting' = waiting
        \/ waiting' = Limit(Append(waiting, x)) /\ got' = got
        \/ waiting' = waiting /\ got' = got
    BY <1>3, LimitedIsLimit DEF Offline!FlushNext
  <2>8. UNCHANGED <<now, alarm, conn, alive, peer, silent, stored, checking, faults, crashed>>
    BY <1>3 DEF Offline!FlushNext, Offline!sockets
  <2> HIDE DEF items, x
  <2>9. got' \in [Offline!Envelopes -> Nat]
    BY <2>3, <2>7 DEF QueueTypes
  <2>10. waiting' \in Seq(Entries) /\ Len(waiting') <= MaxQueued
    BY <2>4, <2>7 DEF QueueTypes
  <2> QED BY <2>6, <2>8, <2>9, <2>10 DEF QueueTypes
<1>4. ASSUME NEW c \in Offline!Sockets, Offline!FlushEnds(c)
      PROVE  QueueTypes'
  <2>1. stored' = waiting /\ waiting' = waiting /\ alarm' \in 0 .. Offline!Never
    BY <1>4, PersistTypes DEF QueueTypes, Offline!FlushEnds
  <2>2. /\ flush' = [flush EXCEPT ![c] = Offline!NoFlush] /\ conn' = [conn EXCEPT ![c] = "ready"]
        /\ UNCHANGED <<now, alive, peer, silent, checking, got, faults, crashed>>
    BY <1>4 DEF Offline!FlushEnds
  <2>3. Offline!NoFlush \in [to : 0 .. MaxConns, items : Seq(Entries)]
    BY EmptySeq DEF Offline!NoFlush
  <2>4. flush' \in [Offline!Sockets -> [to : 0 .. MaxConns, items : Seq(Entries)]]
    BY <2>2, <2>3 DEF QueueTypes
  <2>5. conn' \in [Offline!Sockets -> {"none", "verify", "touch", "identity", "flush", "ready", "gone"}]
    BY <2>2 DEF QueueTypes
  <2> QED BY <2>1, <2>2, <2>4, <2>5 DEF QueueTypes
<1>5. ASSUME NEW e \in Offline!Envelopes, Offline!Envelope(e)
      PROVE  QueueTypes'
  <2>1. /\ waiting' \in Seq(Entries) /\ Len(waiting') <= MaxQueued /\ stored' \in {stored, waiting'}
        /\ alarm' \in 0 .. Offline!Never
    BY <1>5, EvictTypes DEF Offline!Envelope
  <2>2. /\ alive' \subseteq Offline!Sockets /\ peer' \in 0 .. MaxConns /\ silent' \in BOOLEAN
        /\ checking' \in [Offline!Envelopes -> 0 .. (MaxConns + 2)]
        /\ UNCHANGED <<now, conn, flush, got, faults, crashed>>
    <3>1. /\ alive' \subseteq alive /\ peer' \in {peer, 0} /\ (silent' = silent \/ silent' = FALSE)
          /\ UNCHANGED <<now, conn, flush, got, faults, crashed>>
          /\ \E d \in {0, peer} : checking' = [checking EXCEPT ![e] = d]
      BY <1>5 DEF Offline!Envelope
    <3>2. peer \in 0 .. (MaxConns + 2) /\ 0 \in 0 .. (MaxConns + 2)
      BY DEF QueueTypes
    <3>3. checking' \in [Offline!Envelopes -> 0 .. (MaxConns + 2)]
      BY <3>1, <3>2 DEF QueueTypes
    <3>4. alive' \subseteq Offline!Sockets /\ peer' \in 0 .. MaxConns
      BY <3>1 DEF QueueTypes
    <3>5. silent' \in BOOLEAN
      BY <3>1 DEF QueueTypes
    <3> QED BY <3>1, <3>3, <3>4, <3>5
  <2> QED BY <2>1, <2>2 DEF QueueTypes
<1>6. ASSUME NEW e \in Offline!Envelopes, Offline!EnvelopeChecked(e)
      PROVE  QueueTypes'
  <2> DEFINE x == [e |-> e, at |-> now]
             q == Limit(Append(waiting, x))
  <2>1. x \in Entries
    BY DEF QueueTypes, Entries
  <2>2. q \in Seq(Entries) /\ Len(q) <= MaxQueued
    BY <2>1, AppendTypes DEF QueueTypes
  <2>3. \/ /\ got' = [got EXCEPT ![e] = @ + 1]
           /\ UNCHANGED <<peer, silent, waiting, stored, alarm>>
        \/ Offline!Unregister(checking[e]) /\ Offline!Persist(q) /\ got' = got
    BY <1>6, LimitedIsLimit DEF Offline!EnvelopeChecked, Offline!queues
  <2>4. Offline!Persist(q) => waiting' = q /\ stored' = q /\ alarm' \in 0 .. Offline!Never
    <3> HIDE DEF q
    <3> QED BY <2>2, PersistTypes DEF QueueTypes
  <2>5. /\ checking' = [checking EXCEPT ![e] = Offline!Handled]
        /\ UNCHANGED <<now, conn, alive, flush, faults, crashed>>
    BY <1>6 DEF Offline!EnvelopeChecked
  <2> HIDE DEF q
  <2>6. checking' \in [Offline!Envelopes -> 0 .. (MaxConns + 2)]
    BY <2>5 DEF QueueTypes, Offline!Handled
  <2>7. got' \in [Offline!Envelopes -> Nat]
    <3>1. got' = [got EXCEPT ![e] = @ + 1] \/ got' = got
      BY <2>3
    <3>2. got \in [Offline!Envelopes -> Nat]
      BY DEF QueueTypes
    <3> QED BY <3>1, <3>2
  <2>8. /\ waiting' \in Seq(Entries) /\ Len(waiting') <= MaxQueued
        /\ stored' \in Seq(Entries) /\ Len(stored') <= MaxQueued
        /\ alarm' \in 0 .. Offline!Never
    BY <2>2, <2>3, <2>4 DEF QueueTypes
  <2>9. peer' \in {peer, 0} /\ (silent' = silent \/ silent' = FALSE)
    BY <2>3 DEF Offline!Unregister
  <2>10. peer' \in 0 .. MaxConns
    BY <2>9 DEF QueueTypes
  <2>11. silent' \in BOOLEAN
    BY <2>9 DEF QueueTypes
  <2> QED BY <2>5, <2>6, <2>7, <2>8, <2>10, <2>11 DEF QueueTypes
<1>7. CASE Offline!GoesSilent
  BY <1>7 DEF QueueTypes, Offline!GoesSilent, Offline!queues
<1>8. CASE Offline!Tick
  BY <1>8 DEF QueueTypes, Offline!Tick, Offline!queues, Offline!sockets
<1>9. CASE Offline!Alarm
  <2> DEFINE f == Offline!FreshOnly(waiting)
  <2>1. f \in Seq(Entries) /\ Len(f) <= Len(waiting) /\ Len(f) \in Nat /\ Len(waiting) \in Nat
    BY FreshOnlyIsOnly, OnlyType, LenProperties DEF QueueTypes
  <2>2. Len(f) <= MaxQueued
    BY <2>1 DEF QueueTypes
  <2>3. /\ waiting' = f
        /\ \/ Offline!Persist(f) /\ faults' = faults
           \/ stored' = stored /\ alarm' = now + 1 /\ faults' = faults + 1
        /\ UNCHANGED <<now, conn, alive, peer, silent, flush, checking, got, crashed>>
    BY <1>9 DEF Offline!Alarm, Offline!sockets, Offline!Persist
  <2> HIDE DEF f
  <2>4. Offline!Persist(f) => stored' = f /\ alarm' \in 0 .. Offline!Never
    BY <2>1, <2>2, PersistTypes DEF QueueTypes
  <2>5. now + 1 \in 0 .. Offline!Never
    BY DEF QueueTypes, Offline!Never
  <2> QED BY <2>1, <2>2, <2>3, <2>4, <2>5 DEF QueueTypes
<1>10. CASE Offline!Hibernate
  <2>1. UNCHANGED <<conn, alive, peer, crashed>> /\ silent' = FALSE /\ Offline!Rebuilt
    BY <1>10 DEF Offline!Hibernate
  <2> QED BY <2>1, RebuiltTypes DEF QueueTypes
<1>11. CASE Offline!Crash
  <2>1. /\ Offline!Rebuilt /\ alive' = {} /\ peer' = 0 /\ silent' = FALSE /\ crashed' \in BOOLEAN
        /\ conn' = [c \in Offline!Sockets |-> IF conn[c] = "none" THEN "none" ELSE "gone"]
    BY <1>11 DEF QueueTypes, Offline!Crash
  <2>2. conn' \in [Offline!Sockets -> {"none", "verify", "touch", "identity", "flush", "ready", "gone"}]
    BY <2>1 DEF QueueTypes
  <2>3. peer' \in 0 .. MaxConns
    BY <2>1 DEF QueueTypes
  <2> QED BY <2>1, <2>2, <2>3, RebuiltTypes DEF QueueTypes
<1>12. CASE UNCHANGED offlineVars
  BY <1>12 DEF QueueTypes, offlineVars
<1> QED
  BY <1>1, <1>2, <1>3, <1>4, <1>5, <1>6, <1>7, <1>8, <1>9, <1>10, <1>11, <1>12
     DEF Offline!Next, Offline!Handler

-----------------------------------------------------------------------------
(* The envelopes of a sequence of entries.                                  *)

Of(s) == {s[i].e : i \in 1 .. Len(s)}

LEMMA OfEmpty == Of(<<>>) = {} /\ Differ(<<>>)
<1>1. 1 .. Len(<<>>) = {}
  OBVIOUS
<1> QED BY <1>1 DEF Of, Differ

LEMMA OfAppend ==
  ASSUME NEW s \in Seq(Entries), NEW x \in Entries
  PROVE  /\ Of(Append(s, x)) = Of(s) \cup {x.e}
         /\ Differ(s) /\ x.e \notin Of(s) => Differ(Append(s, x))
<1> DEFINE t == Append(s, x)
           m == Len(s)
<1>1. /\ m \in Nat /\ Len(t) = m + 1 /\ t[m + 1] = x /\ \A n \in 1 .. m : t[n] = s[n]
  BY AppendProperties, LenProperties
<1>2. 1 .. (m + 1) = 1 .. m \cup {m + 1} /\ m + 1 \notin 1 .. m
  BY <1>1
<1> HIDE DEF t
<1>3. Of(t) = Of(s) \cup {x.e}
  BY <1>1, <1>2 DEF Of
<1>4. ASSUME Differ(s), x.e \notin Of(s) PROVE Differ(t)
  <2> SUFFICES ASSUME NEW i \in 1 .. (m + 1), NEW j \in 1 .. (m + 1), t[i].e = t[j].e
               PROVE  i = j
    BY <1>1 DEF Differ
  <2>1. \A n \in 1 .. m : t[n].e # x.e
    BY <1>1, <1>4 DEF Of
  <2> QED BY <1>1, <1>2, <1>4, <2>1 DEF Differ
<1> QED BY <1>3, <1>4 DEF t

LEMMA OfTail ==
  ASSUME NEW s \in Seq(Entries), s # <<>>
  PROVE  /\ Of(s) = {Head(s).e} \cup Of(Tail(s))
         /\ Differ(s) => Differ(Tail(s)) /\ Head(s).e \notin Of(Tail(s))
<1> DEFINE t == Tail(s)
           m == Len(t)
<1>1. /\ m \in Nat /\ Len(s) = m + 1 /\ \A n \in 1 .. m : t[n] = s[n + 1]
      /\ Head(s) = s[1]
  <2>1. Len(s) \in Nat /\ Len(s) # 0
    BY EmptySeq
  <2>2. t \in Seq(Entries) /\ Len(t) = Len(s) - 1 /\ \A n \in 1 .. Len(t) : t[n] = s[n + 1]
    BY HeadTailProperties
  <2> QED BY <2>1, <2>2
<1> HIDE DEF t
<1>2. \A n \in 1 .. m : n + 1 \in 1 .. (m + 1) /\ n + 1 # 1
  BY <1>1
<1>3. 1 \in 1 .. (m + 1) /\ \A i \in 1 .. (m + 1) : i # 1 => i - 1 \in 1 .. m /\ i - 1 + 1 = i
  BY <1>1
<1>4. Of(s) \subseteq {s[1].e} \cup Of(t)
  <2> SUFFICES ASSUME NEW i \in 1 .. (m + 1), i # 1 PROVE s[i].e \in Of(t)
    BY <1>1 DEF Of
  <2>1. i - 1 \in 1 .. m /\ t[i - 1] = s[i]
    BY <1>1, <1>3
  <2> QED BY <2>1 DEF Of
<1>5. s[1].e \in Of(s) /\ Of(t) \subseteq Of(s)
  BY <1>1, <1>2, <1>3 DEF Of
<1>6. ASSUME Differ(s) PROVE Differ(t) /\ s[1].e \notin Of(t)
  <2>1. ASSUME NEW i \in 1 .. m, NEW j \in 1 .. m, t[i].e = t[j].e PROVE i = j
    <3>1. i + 1 = j + 1
      BY <1>1, <1>2, <1>6, <2>1 DEF Differ
    <3> QED BY <1>1, <3>1
  <2>2. ASSUME NEW i \in 1 .. m, t[i].e = s[1].e PROVE FALSE
    BY <1>1, <1>2, <1>3, <1>6, <2>2 DEF Differ
  <2> QED BY <2>1, <2>2 DEF Differ, Of
<1> QED BY <1>1, <1>4, <1>5, <1>6 DEF t

LEMMA OfLimit ==
  ASSUME NEW s \in Seq(Entries)
  PROVE  Of(Limit(s)) \subseteq Of(s) /\ (Differ(s) => Differ(Limit(s)))
<1> DEFINE t == Limit(s)
<1>1. PICK d \in Nat : d + Len(t) = Len(s) /\ \A i \in 1 .. Len(t) : t[i] = s[i + d]
  BY LimitIsSuffix
<1>2. Len(t) \in Nat
  BY LimitIsSuffix, LenProperties
<1> HIDE DEF t
<1>3. \A i \in 1 .. Len(t) : i + d \in 1 .. Len(s)
  BY <1>1, <1>2
<1>4. Of(t) \subseteq Of(s)
  BY <1>1, <1>3 DEF Of
<1>5. ASSUME Differ(s), NEW i \in 1 .. Len(t), NEW j \in 1 .. Len(t), t[i].e = t[j].e
      PROVE  i = j
  <2>1. i + d = j + d
    BY <1>1, <1>3, <1>5 DEF Differ
  <2> QED BY <1>2, <2>1
<1> QED BY <1>4, <1>5 DEF Differ, t

LEMMA OfOnly ==
  ASSUME NEW s \in Seq(Entries), NEW A
  PROVE  Of(Only(s, A)) \subseteq Of(s) /\ (Differ(s) => Differ(Only(s, A)))
<1>1. \A j \in 1 .. Len(Only(s, A)) : \E i \in 1 .. Len(s) : s[i] = Only(s, A)[j]
  BY OnlyType
<1> QED BY <1>1, OnlyDiffers DEF Of

\* Entries of different envelopes are as many as their envelopes.
LEMMA OfCardinality ==
  ASSUME NEW s \in Seq(Entries), Differ(s)
  PROVE  IsFiniteSet(Of(s)) /\ Cardinality(Of(s)) = Len(s)
<1> DEFINE f == [i \in 1 .. Len(s) |-> s[i].e]
<1>1. Len(s) \in Nat
  BY LenProperties
<1>2. f \in Bijection(1 .. Len(s), Of(s))
  BY DEF Bijection, Injection, Surjection, Differ, Of, IsInjective
<1>3. IsFiniteSet(1 .. Len(s)) /\ Cardinality(1 .. Len(s)) = Len(s)
  BY <1>1, FS_Interval
<1> HIDE DEF f
<1>4. ExistsBijection(1 .. Len(s), Of(s))
  BY <1>2 DEF ExistsBijection
<1> QED BY <1>3, <1>4, FS_Bijection

-----------------------------------------------------------------------------
(* The connections.                                                         *)

\* A flush has something left to send only while it runs.
FlushesFit == \A c \in Offline!Sockets : flush[c].items # <<>> => conn[c] = "flush"

\* The steps of a connection up to its flush, and its end.
LEMMA Connecting ==
  ASSUME QueueTypes, NEW c \in Offline!Sockets,
         \/ Offline!Accept(c) \/ Offline!Register(c) \/ Offline!Touched(c)
         \/ Offline!Close(c) \/ Offline!Closed(c)
  PROVE  /\ UNCHANGED <<now, alarm, waiting, stored, flush, checking, got, faults, crashed>>
         /\ \A d \in Offline!Sockets : conn[d] = "flush" <=> conn'[d] = "flush"
<1>1. UNCHANGED <<now, alarm, waiting, stored, flush, checking, got, faults, crashed>>
  BY DEF Offline!Accept, Offline!Register, Offline!Touched, Offline!Close, Offline!Closed, Offline!queues
<1>2. conn' = conn \/ \E v \in {"verify", "touch", "identity", "gone"} : conn' = [conn EXCEPT ![c] = v]
  BY DEF Offline!Accept, Offline!Register, Offline!Touched, Offline!Close, Offline!Closed
<1>3. conn' = conn \/ conn[c] \in {"none", "verify", "touch"}
  BY DEF Offline!Accept, Offline!Register, Offline!Touched, Offline!Close, Offline!Closed
<1>4. \A d \in Offline!Sockets : conn[d] = "flush" <=> conn'[d] = "flush"
  BY <1>2, <1>3 DEF QueueTypes
<1> QED BY <1>1, <1>4

LEMMA FlushesFitStep ==
  ASSUME QueueTypes, FlushesFit, [Offline!Next]_offlineVars
  PROVE  FlushesFit'
<1>1. ASSUME NEW c \in Offline!Sockets,
             \/ Offline!Accept(c) \/ Offline!Register(c) \/ Offline!Touched(c)
             \/ Offline!Close(c) \/ Offline!Closed(c)
      PROVE  FlushesFit'
  BY <1>1, Connecting DEF FlushesFit
<1>2. ASSUME NEW c \in Offline!Sockets, Offline!FlushStarts(c)
      PROVE  FlushesFit'
  <2>1. CASE peer = 0
    <3>1. flush' = flush /\ conn' = [conn EXCEPT ![c] = "ready"] /\ conn[c] = "identity"
      BY <1>2, <2>1 DEF Offline!FlushStarts
    <3> QED BY <3>1 DEF FlushesFit, QueueTypes
  <2>2. CASE peer # 0
    <3>1. /\ flush' = [flush EXCEPT ![c] = [to |-> peer, items |-> waiting]]
          /\ conn' = [conn EXCEPT ![c] = "flush"]
      BY <1>2, <2>2 DEF Offline!FlushStarts
    <3> QED BY <3>1 DEF FlushesFit, QueueTypes
  <2> QED BY <2>1, <2>2
<1>3. ASSUME NEW c \in Offline!Sockets, Offline!FlushNext(c)
      PROVE  FlushesFit'
  <2>1. conn[c] = "flush" /\ conn' = conn /\ \E s : flush' = [flush EXCEPT ![c].items = s]
    BY <1>3 DEF Offline!FlushNext, Offline!sockets
  <2> QED BY <2>1 DEF FlushesFit, QueueTypes
<1>4. ASSUME NEW c \in Offline!Sockets, Offline!FlushEnds(c)
      PROVE  FlushesFit'
  <2>1. /\ flush' = [flush EXCEPT ![c] = Offline!NoFlush] /\ conn' = [conn EXCEPT ![c] = "ready"]
        /\ Offline!NoFlush.items = <<>>
    BY <1>4 DEF Offline!FlushEnds, Offline!NoFlush
  <2> QED BY <2>1 DEF FlushesFit, QueueTypes
<1>5. CASE Offline!Rebuilt
  BY <1>5 DEF Offline!Rebuilt, Offline!NoFlush, FlushesFit
<1>6. CASE UNCHANGED <<flush, conn>>
  BY <1>6 DEF FlushesFit
<1>7. ASSUME NEW e \in Offline!Envelopes, Offline!Envelope(e) \/ Offline!EnvelopeChecked(e)
      PROVE  FlushesFit'
  BY <1>6, <1>7 DEF Offline!Envelope, Offline!EnvelopeChecked
<1> QED
  BY <1>1, <1>2, <1>3, <1>4, <1>5, <1>6, <1>7
     DEF Offline!Next, Offline!Handler, Offline!GoesSilent, Offline!Tick, Offline!Alarm,
         Offline!Hibernate, Offline!Crash, Offline!sockets, offlineVars

LEMMA OneLiveConnectionStep ==
  ASSUME QueueTypes, Offline!OneLiveConnection, [Offline!Next]_offlineVars
  PROVE  Offline!OneLiveConnection'
<1> DEFINE Live == {"touch", "identity", "flush", "ready"}
<1> USE DEF Offline!OneLiveConnection
<1>1. ASSUME NEW c \in Offline!Sockets, Offline!Accept(c)
      PROVE  Offline!OneLiveConnection'
  BY <1>1 DEF Offline!Accept, QueueTypes
<1>2. ASSUME NEW c \in Offline!Sockets, Offline!Register(c)
      PROVE  Offline!OneLiveConnection'
  BY <1>2 DEF Offline!Register, QueueTypes
<1>3. ASSUME NEW c \in Offline!Sockets, Offline!Touched(c)
      PROVE  Offline!OneLiveConnection'
  BY <1>3 DEF Offline!Touched, Offline!Unregister, QueueTypes
<1>4. ASSUME NEW c \in Offline!Sockets, Offline!Close(c)
      PROVE  Offline!OneLiveConnection'
  BY <1>4 DEF Offline!Close, QueueTypes
<1>5. ASSUME NEW c \in Offline!Sockets, Offline!Closed(c)
      PROVE  Offline!OneLiveConnection'
  BY <1>5 DEF Offline!Closed, Offline!Unregister, QueueTypes
<1>6. ASSUME NEW c \in Offline!Sockets, Offline!FlushStarts(c) \/ Offline!FlushNext(c) \/ Offline!FlushEnds(c)
      PROVE  Offline!OneLiveConnection'
  <2>1. peer' = peer /\ alive' = alive /\ conn[c] \in Live
    BY <1>6 DEF Offline!FlushStarts, Offline!FlushNext, Offline!FlushEnds, Offline!sockets
  <2>2. \A d \in Offline!Sockets : d # c => conn'[d] = conn[d]
    BY <1>6 DEF QueueTypes, Offline!FlushStarts, Offline!FlushNext, Offline!FlushEnds, Offline!sockets
  <2> QED BY <2>1, <2>2 DEF QueueTypes
<1>7. ASSUME NEW e \in Offline!Envelopes, Offline!Envelope(e)
      PROVE  Offline!OneLiveConnection'
  BY <1>7 DEF Offline!Envelope, QueueTypes
<1>8. ASSUME NEW e \in Offline!Envelopes, Offline!EnvelopeChecked(e)
      PROVE  Offline!OneLiveConnection'
  <2>1. conn' = conn /\ alive' = alive /\ (peer' = peer \/ peer \notin alive)
    <3>1. /\ conn' = conn /\ alive' = alive
          /\ peer' = peer \/ (checking[e] \notin alive /\ Offline!Unregister(checking[e]))
      BY <1>8 DEF Offline!EnvelopeChecked
    <3> QED BY <3>1 DEF Offline!Unregister
  <2> QED BY <2>1
<1>9. CASE Offline!Crash
  BY <1>9 DEF Offline!Crash
<1>10. CASE UNCHANGED <<conn, alive, peer>>
  BY <1>10
<1> QED
  BY <1>1, <1>2, <1>3, <1>4, <1>5, <1>6, <1>7, <1>8, <1>9, <1>10
     DEF Offline!Next, Offline!Handler, Offline!GoesSilent, Offline!Tick, Offline!Alarm,
         Offline!Hibernate, Offline!sockets, offlineVars

-----------------------------------------------------------------------------
(* The copies of the queue and the alarm.                                   *)

\* What a step may do to them.
LEMMA QueueChanges ==
  ASSUME QueueTypes, [Offline!Next]_offlineVars
  PROVE  \/ Offline!Flushing'
         \/ /\ UNCHANGED <<now, alarm, waiting, stored, faults>>
            /\ Offline!Flushing => Offline!Flushing'
         \/ now' = now /\ stored' = waiting' /\ alarm' = Offline!NextExpiry(waiting')
         \/ UNCHANGED <<now, waiting, stored, conn>> /\ alarm' = Offline!NextExpiry(waiting)
         \/ now' = now + 1 /\ alarm > now /\ UNCHANGED <<alarm, waiting, stored, conn, faults>>
         \/ /\ UNCHANGED <<now, stored, conn>> /\ waiting' = Only(waiting, FreshAt(now))
            /\ alarm' = now + 1 /\ faults' > 0
<1>1. ASSUME NEW c \in Offline!Sockets,
             \/ Offline!Accept(c) \/ Offline!Register(c) \/ Offline!Touched(c)
             \/ Offline!Close(c) \/ Offline!Closed(c)
      PROVE  /\ UNCHANGED <<now, alarm, waiting, stored, faults>>
             /\ Offline!Flushing => Offline!Flushing'
  BY <1>1, Connecting DEF Offline!Flushing
<1>2. ASSUME NEW c \in Offline!Sockets, Offline!FlushStarts(c)
      PROVE  \/ Offline!Flushing'
             \/ /\ UNCHANGED <<now, alarm, waiting, stored, faults>>
                /\ Offline!Flushing => Offline!Flushing'
  <2>1. CASE peer = 0
    <3>1. UNCHANGED <<now, alarm, waiting, stored, faults>> /\ conn[c] = "identity" /\ conn' = [conn EXCEPT ![c] = "ready"]
      BY <1>2, <2>1 DEF Offline!FlushStarts
    <3> QED BY <3>1 DEF Offline!Flushing, QueueTypes
  <2>2. CASE peer # 0
    <3>1. conn' = [conn EXCEPT ![c] = "flush"]
      BY <1>2, <2>2 DEF Offline!FlushStarts
    <3> QED BY <3>1 DEF Offline!Flushing, QueueTypes
  <2> QED BY <2>1, <2>2
<1>3. ASSUME NEW c \in Offline!Sockets, Offline!FlushNext(c)
      PROVE  Offline!Flushing'
  BY <1>3 DEF Offline!FlushNext, Offline!sockets, Offline!Flushing
<1>4. ASSUME NEW c \in Offline!Sockets, Offline!FlushEnds(c)
      PROVE  now' = now /\ stored' = waiting' /\ alarm' = Offline!NextExpiry(waiting')
  BY <1>4 DEF Offline!FlushEnds, Offline!Persist
<1>5. ASSUME NEW e \in Offline!Envelopes, Offline!Envelope(e)
      PROVE  \/ now' = now /\ stored' = waiting' /\ alarm' = Offline!NextExpiry(waiting')
             \/ UNCHANGED <<now, waiting, stored, conn>> /\ alarm' = Offline!NextExpiry(waiting)
  <2>1. Offline!Evict /\ UNCHANGED <<now, conn>>
    BY <1>5 DEF Offline!Envelope
  <2> QED BY <2>1 DEF Offline!Evict, Offline!Persist
<1>6. ASSUME NEW e \in Offline!Envelopes, Offline!EnvelopeChecked(e)
      PROVE  \/ now' = now /\ stored' = waiting' /\ alarm' = Offline!NextExpiry(waiting')
             \/ /\ UNCHANGED <<now, alarm, waiting, stored, faults>>
                /\ Offline!Flushing => Offline!Flushing'
  BY <1>6 DEF Offline!EnvelopeChecked, Offline!Persist, Offline!queues, Offline!Flushing
<1>7. CASE Offline!Tick
  BY <1>7 DEF Offline!Tick, Offline!sockets, Offline!queues
<1>8. CASE Offline!Alarm
  BY <1>8, FreshOnlyIsOnly DEF Offline!Alarm, Offline!sockets, Offline!Persist, QueueTypes
<1>9. CASE Offline!Rebuilt
  <2>1. now' = now /\ stored' = waiting' /\ alarm' = Offline!NextExpiry(waiting')
    BY <1>9, RebuiltTypes
  <2> QED BY <2>1
<1>10. CASE Offline!GoesSilent \/ UNCHANGED offlineVars
  BY <1>10 DEF Offline!GoesSilent, Offline!queues, Offline!Flushing, offlineVars
<1>11. faults \in Nat
  BY DEF QueueTypes
<1> QED
  BY <1>1, <1>2, <1>3, <1>4, <1>5, <1>6, <1>7, <1>8, <1>9, <1>10, <1>11
     DEF Offline!Next, Offline!Handler, Offline!Hibernate, Offline!Crash

LEMMA QueueIsDurableStep ==
  ASSUME QueueTypes, QueueTypes', Offline!QueueIsDurable, [Offline!Next]_offlineVars
  PROVE  Offline!QueueIsDurable'
<1> DEFINE S == Only(stored, FreshAt(now))
           W == Only(waiting, FreshAt(now))
<1>1. /\ ~Offline!Flushing => S = W
      /\ (~Offline!Flushing' => S' = W') => Offline!QueueIsDurable'
  <2>1. Offline!FreshOnly(stored) = S /\ Offline!FreshOnly(waiting) = W
    BY FreshOnlyIsOnly DEF QueueTypes
  <2>2. Offline!FreshOnly(stored)' = S' /\ Offline!FreshOnly(waiting)' = W'
    BY FreshIsOnly DEF QueueTypes, Offline!FreshOnly, Offline!Fresh, Offline!Keep, Keep
  <2> QED BY <2>1, <2>2 DEF Offline!QueueIsDurable
<1> HIDE DEF S, W
<1> SUFFICES ASSUME ~Offline!Flushing' PROVE S' = W'
  BY <1>1
<1>2. CASE UNCHANGED <<now, waiting, stored>> /\ ~Offline!Flushing
  BY <1>1, <1>2 DEF S, W
<1>3. CASE stored' = waiting'
  BY <1>3 DEF S, W
<1>4. CASE now' = now + 1 /\ UNCHANGED <<waiting, stored>> /\ ~Offline!Flushing
  <2>1. FreshAt(now + 1) = FreshAt(now) \cap FreshAt(now + 1)
    <3>1. \A x \in Entries : x.at \in Nat
      BY QueueAssumption DEF Entries
    <3>2. now \in Nat /\ TTL \in Nat
      BY QueueAssumption DEF QueueTypes
    <3>3. \A a \in Nat : (now + 1) - a < TTL => now - a < TTL
      BY <3>2
    <3>4. \A x \in Entries : (now + 1) - x.at < TTL => now - x.at < TTL
      BY <3>1, <3>3
    <3>5. FreshAt(now + 1) \subseteq FreshAt(now)
      BY <3>4 DEF FreshAt
    <3> QED BY <3>5
  <2>2. /\ Only(stored, FreshAt(now + 1)) = Only(S, FreshAt(now + 1))
        /\ Only(waiting, FreshAt(now + 1)) = Only(W, FreshAt(now + 1))
    BY <2>1, OnlyTwice DEF S, W, QueueTypes
  <2> QED BY <1>1, <1>4, <2>2 DEF S, W
<1>5. CASE UNCHANGED <<now, stored>> /\ waiting' = W /\ ~Offline!Flushing
  <2>1. Only(W, FreshAt(now)) = W
    BY OnlyTwice DEF W, QueueTypes
  <2> QED BY <1>1, <1>5, <2>1 DEF S, W
<1>6. UNCHANGED conn => ~Offline!Flushing
  BY DEF Offline!Flushing
<1> QED BY <1>2, <1>3, <1>4, <1>5, <1>6, QueueChanges DEF W

LEMMA ExpiryIsWatchedStep ==
  ASSUME QueueTypes, QueueTypes', Offline!ExpiryIsWatched, [Offline!Next]_offlineVars
  PROVE  Offline!ExpiryIsWatched'
<1> SUFFICES ASSUME ~Offline!Flushing', NEW i \in DOMAIN waiting'
             PROVE  \/ alarm' <= waiting'[i].at + TTL \/ alarm' <= now'
                    \/ faults' > 0 /\ alarm' <= now' + 1
  BY DEF Offline!ExpiryIsWatched
<1>1. i \in 1 .. Len(waiting') /\ waiting'[i] \in Entries
  BY ElementOfSeq, LenProperties DEF QueueTypes
<1>2. CASE UNCHANGED <<now, alarm, waiting, faults>> /\ ~Offline!Flushing
  BY <1>2 DEF Offline!ExpiryIsWatched
<1>3. CASE now' = now /\ alarm' = Offline!NextExpiry(waiting')
  BY <1>1, <1>3, NextExpiryWatches DEF QueueTypes
<1>4. CASE now' = now + 1 /\ alarm > now /\ UNCHANGED <<alarm, waiting, faults>> /\ ~Offline!Flushing
  <2>1. \/ alarm <= waiting[i].at + TTL \/ alarm <= now
        \/ faults > 0 /\ alarm <= now + 1
    BY <1>4 DEF Offline!ExpiryIsWatched
  <2> QED BY <1>4, <2>1 DEF QueueTypes
<1>5. CASE now' = now /\ alarm' = now + 1 /\ faults' > 0
  BY <1>5 DEF QueueTypes
<1>6. UNCHANGED conn => ~Offline!Flushing
  BY DEF Offline!Flushing
<1> QED BY <1>2, <1>3, <1>4, <1>5, <1>6, QueueChanges

-----------------------------------------------------------------------------
(* Where each envelope is.                                                  *)

\* The envelopes a connection's flush still has, and those that wait anywhere.
Taken(c) == Of(flush[c].items)
Held == Of(waiting) \cup UNION {Taken(c) : c \in Offline!Sockets}

\* Unless a crash cut a flush off, an envelope is in one place: with the
\* sender, in a check, in the queue, in one flush, or sent.
Placed ==
  /\ Differ(waiting)
  /\ \A c \in Offline!Sockets : Differ(flush[c].items) /\ Of(waiting) \cap Taken(c) = {}
  /\ \A c, d \in Offline!Sockets : c # d => Taken(c) \cap Taken(d) = {}
  /\ \A e \in Offline!Envelopes :
       /\ checking[e] # Offline!Handled => got[e] = 0 /\ e \notin Held
       /\ e \in Held => got[e] = 0
       /\ got[e] <= 1

LEMMA HeldNow ==
  ASSUME QueueTypes
  PROVE  \A e : e \in Held <=> e \in Of(waiting) \/ \E c \in Offline!Sockets : e \in Taken(c)
BY DEF Held

\* A step that only takes entries away keeps the others where they are.
LEMMA LessIsPlaced ==
  ASSUME Placed, Differ(waiting'), Of(waiting') \subseteq Of(waiting), got' = got,
         \A c \in Offline!Sockets : flush'[c].items \in {flush[c].items, <<>>},
         \A e \in Offline!Envelopes :
           checking'[e] # Offline!Handled => checking[e] # Offline!Handled
  PROVE  Placed'
<1>1. \A c \in Offline!Sockets : Taken(c)' \subseteq Taken(c) /\ (Differ(flush[c].items) => Differ(flush'[c].items))
  BY OfEmpty DEF Taken
<1>2. Held' \subseteq Held
  BY <1>1 DEF Held
<1>3. \A c \in Offline!Sockets : Differ(flush'[c].items) /\ Of(waiting') \cap Taken(c)' = {}
  BY <1>1 DEF Placed
<1>4. \A c, d \in Offline!Sockets : c # d => Taken(c)' \cap Taken(d)' = {}
  BY <1>1 DEF Placed
<1>5. \A e \in Offline!Envelopes :
        /\ checking'[e] # Offline!Handled => got'[e] = 0 /\ e \notin Held'
        /\ e \in Held' => got'[e] = 0
        /\ got'[e] <= 1
  BY <1>2 DEF Placed
<1> QED BY <1>3, <1>4, <1>5 DEF Placed

LEMMA FlushStartsPlaces ==
  ASSUME QueueTypes, FlushesFit, NEW c \in Offline!Sockets, Offline!FlushStarts(c)
  PROVE  Held' = Held /\ (Placed => Placed')
<1>1. CASE peer = 0
  <2>1. UNCHANGED <<waiting, flush, checking, got>>
    BY <1>1 DEF Offline!FlushStarts
  <2> QED BY <2>1, LessIsPlaced DEF Held, Taken, Placed
<1>2. CASE peer # 0
  <2>1. /\ flush' = [flush EXCEPT ![c] = [to |-> peer, items |-> waiting]]
        /\ waiting' = <<>> /\ checking' = checking /\ got' = got /\ conn[c] = "identity"
    BY <1>2 DEF Offline!FlushStarts
  <2>2. flush[c].items = <<>>
    BY <2>1 DEF FlushesFit
  <2>3. /\ flush'[c].items = waiting
        /\ \A d \in Offline!Sockets : d # c => flush'[d].items = flush[d].items
    BY <2>1 DEF QueueTypes
  <2>4. /\ Taken(c)' = Of(waiting) /\ Taken(c) = {} /\ Of(waiting') = {} /\ Differ(waiting')
        /\ \A d \in Offline!Sockets : d # c => Taken(d)' = Taken(d)
    BY <2>1, <2>2, <2>3, OfEmpty DEF Taken
  <2>5. Held' = Held
    BY <2>4 DEF Held
  <2>6. ASSUME Placed PROVE Placed'
    <3>1. \A d \in Offline!Sockets : Differ(flush'[d].items) /\ Of(waiting') \cap Taken(d)' = {}
      BY <2>3, <2>4, <2>6 DEF Placed
    <3>2. \A a, b \in Offline!Sockets : a # b => Taken(a)' \cap Taken(b)' = {}
      BY <2>4, <2>6 DEF Placed
    <3> QED BY <2>1, <2>4, <2>5, <2>6, <3>1, <3>2 DEF Placed
  <2> QED BY <2>5, <2>6
<1> QED BY <1>1, <1>2

\* Before the lifetime of an entry is over since the start, none has expired.
LEMMA YoungIsFresh ==
  ASSUME NEW n \in Nat, NEW from \in Nat, NEW life \in Nat, n < life
  PROVE  n - from < life
OBVIOUS

\* Appending to the queue: the envelope joins the others, or the queue is full.
LEMMA AppendPlaces ==
  ASSUME QueueTypes, NEW x \in Entries
  PROVE  /\ Of(Limit(Append(waiting, x))) \subseteq Of(waiting) \cup {x.e}
         /\ \/ Of(Limit(Append(waiting, x))) = Of(waiting) \cup {x.e}
            \/ Len(Limit(Append(waiting, x))) = MaxQueued
         /\ Differ(waiting) /\ x.e \notin Of(waiting) => Differ(Limit(Append(waiting, x)))
<1> DEFINE q == Append(waiting, x)
<1>1. /\ q \in Seq(Entries) /\ Of(q) = Of(waiting) \cup {x.e}
      /\ Differ(waiting) /\ x.e \notin Of(waiting) => Differ(q)
  BY OfAppend, AppendProperties DEF QueueTypes
<1> HIDE DEF q
<1>2. Limit(q) = q \/ Len(Limit(q)) = MaxQueued
  BY <1>1, LimitIsSuffix, LenProperties, QueueAssumption
<1> QED BY <1>1, <1>2, OfLimit DEF q

LEMMA FlushNextPlaces ==
  ASSUME QueueTypes, NEW c \in Offline!Sockets, Offline!FlushNext(c), Placed
  PROVE  /\ Placed' /\ checking' = checking
         /\ now < TTL => \/ Len(waiting') = MaxQueued
                         \/ \A e \in Offline!Envelopes :
                              got[e] > 0 \/ e \in Held => got'[e] > 0 \/ e \in Held'
<1> DEFINE items == flush[c].items
           x == Head(items)
<1>1. items \in Seq(Entries) /\ items # <<>>
  BY DEF QueueTypes, Offline!FlushNext
<1>2. x \in Entries /\ x.e \in Offline!Envelopes
  <2>1. x \in Entries
    BY <1>1, HeadTailProperties
  <2> QED BY <2>1 DEF Entries
<1>3. /\ Of(items) = {x.e} \cup Of(Tail(items))
      /\ Differ(items) => Differ(Tail(items)) /\ x.e \notin Of(Tail(items))
  BY <1>1, OfTail
<1>4. /\ flush' = [flush EXCEPT ![c].items = Tail(items)] /\ checking' = checking
      /\ \/ got' = [got EXCEPT ![x.e] = @ + 1] /\ waiting' = waiting
         \/ waiting' = Limit(Append(waiting, x)) /\ got' = got
         \/ waiting' = waiting /\ got' = got /\ ~Offline!Fresh(x)
  BY LimitedIsLimit DEF Offline!FlushNext
<1>5. /\ flush'[c].items = Tail(items)
      /\ \A d \in Offline!Sockets : d # c => flush'[d].items = flush[d].items
  BY <1>4 DEF QueueTypes
<1> HIDE DEF items, x
<1>6. /\ Taken(c) = {x.e} \cup Taken(c)' /\ x.e \notin Taken(c)'
      /\ \A d \in Offline!Sockets : d # c => Taken(d)' = Taken(d)
      /\ \A d \in Offline!Sockets : Differ(flush'[d].items)
  BY <1>3, <1>5 DEF Taken, Placed, items
<1>7. /\ x.e \in Held /\ got[x.e] = 0 /\ x.e \notin Of(waiting) /\ checking[x.e] = Offline!Handled
      /\ \A d \in Offline!Sockets : x.e \notin Taken(d)'
  BY <1>2, <1>6 DEF Held, Placed
<1>8. Of(waiting') \subseteq Of(waiting) \cup {x.e} /\ Differ(waiting')
  BY <1>2, <1>4, <1>7, AppendPlaces DEF Placed
<1>9. \A d \in Offline!Sockets : Of(waiting') \cap Taken(d)' = {}
  BY <1>6, <1>7, <1>8 DEF Placed
<1>10. \A a, b \in Offline!Sockets : a # b => Taken(a)' \cap Taken(b)' = {}
  BY <1>6 DEF Placed
<1>11. Held' \subseteq Held
  BY <1>6, <1>7, <1>8 DEF Held
<1>12. \A e \in Offline!Envelopes : e # x.e => got'[e] = got[e]
  BY <1>2, <1>4 DEF QueueTypes
<1>13. got'[x.e] <= 1 /\ (x.e \in Held' => got'[x.e] = 0)
  <2>1. CASE got' = got
    BY <1>7, <2>1
  <2>2. CASE got' = [got EXCEPT ![x.e] = @ + 1] /\ waiting' = waiting
    <3>1. got'[x.e] = 1
      BY <1>2, <1>7, <2>2 DEF QueueTypes
    <3>2. x.e \notin Held'
      BY <1>7, <2>2 DEF Held
    <3> QED BY <3>1, <3>2
  <2> QED BY <1>4, <2>1, <2>2
<1>14. Placed'
  <2>1. ASSUME NEW e \in Offline!Envelopes
        PROVE  /\ checking'[e] # Offline!Handled => got'[e] = 0 /\ e \notin Held'
               /\ e \in Held' => got'[e] = 0
               /\ got'[e] <= 1
    <3>1. CASE e = x.e
      BY <1>4, <1>7, <1>13, <3>1
    <3>2. CASE e # x.e
      BY <1>4, <1>11, <1>12, <3>2 DEF Placed
    <3> QED BY <3>1, <3>2
  <2> QED BY <1>6, <1>8, <1>9, <1>10, <2>1 DEF Placed
<1>15. ASSUME now < TTL, Len(waiting') # MaxQueued, NEW e \in Offline!Envelopes, got[e] > 0 \/ e \in Held
       PROVE  got'[e] > 0 \/ e \in Held'
  <2>1. Offline!Fresh(x)
    <3>1. now \in Nat /\ x.at \in Nat /\ TTL \in Nat
      BY <1>2, QueueAssumption DEF QueueTypes, Entries
    <3>2. now - x.at < TTL
      BY <1>15, <3>1, YoungIsFresh
    <3> QED BY <3>2 DEF Offline!Fresh
  <2> DEFINE q == Limit(Append(waiting, x))
  <2>2. waiting' = q => Of(waiting') = Of(waiting) \cup {x.e}
    <3>1. Of(q) = Of(waiting) \cup {x.e} \/ Len(q) = MaxQueued
      BY <1>2, AppendPlaces
    <3> HIDE DEF q
    <3> QED BY <1>15, <3>1
  <2>3. waiting' = waiting \/ waiting' = q
    BY <1>4
  <2> HIDE DEF q
  <2>5. Of(waiting) \subseteq Of(waiting')
    BY <2>2, <2>3
  <2>6. x.e \in Of(waiting') \/ got'[x.e] > 0
    <3>1. CASE waiting' = q
      BY <2>2, <3>1
    <3>2. CASE got' = [got EXCEPT ![x.e] = @ + 1]
      BY <1>2, <1>7, <3>2 DEF QueueTypes
    <3> QED BY <1>4, <2>1, <3>1, <3>2 DEF q
  <2>4. e \in Held => e = x.e \/ e \in Held'
    BY <1>6, <2>5 DEF Held
  <2> QED BY <1>12, <1>15, <2>4, <2>6 DEF Held
<1> QED BY <1>4, <1>14, <1>15

LEMMA EnvelopeCheckedPlaces ==
  ASSUME QueueTypes, NEW e \in Offline!Envelopes, Offline!EnvelopeChecked(e), Placed
  PROVE  /\ Placed'
         /\ \A d \in Offline!Envelopes : d # e => checking'[d] = checking[d]
         /\ \/ Len(waiting') = MaxQueued
            \/ /\ got'[e] > 0 \/ e \in Held'
               /\ \A d \in Offline!Envelopes : got[d] > 0 \/ d \in Held => got'[d] > 0 \/ d \in Held'
<1> DEFINE x == [e |-> e, at |-> now]
<1>1. x \in Entries /\ x.e = e
  BY DEF Entries, QueueTypes
<1>2. /\ checking' = [checking EXCEPT ![e] = Offline!Handled] /\ flush' = flush
      /\ checking[e] \in 0 .. MaxConns
      /\ \/ got' = [got EXCEPT ![e] = @ + 1] /\ waiting' = waiting
         \/ waiting' = Limit(Append(waiting, x)) /\ got' = got
  BY LimitedIsLimit DEF Offline!EnvelopeChecked, Offline!Persist, Offline!queues, Offline!Running
<1> HIDE DEF x
<1>3. checking[e] # Offline!Handled
  BY <1>2, QueueAssumption DEF Offline!Handled
<1>4. got[e] = 0 /\ e \notin Held
  BY <1>3 DEF Placed
<1>5. /\ \A d \in Offline!Envelopes : d # e => checking'[d] = checking[d] /\ got'[d] = got[d]
      /\ checking'[e] = Offline!Handled
  BY <1>2 DEF QueueTypes
<1>6. \A c \in Offline!Sockets : Taken(c)' = Taken(c) /\ e \notin Taken(c)
  BY <1>2, <1>4 DEF Taken, Held
<1>7. CASE got' = [got EXCEPT ![e] = @ + 1] /\ waiting' = waiting
  <2>1. got'[e] = 1 /\ Held' = Held
    BY <1>4, <1>6, <1>7 DEF QueueTypes, Held
  <2>2. ASSUME NEW d \in Offline!Envelopes
        PROVE  /\ checking'[d] # Offline!Handled => got'[d] = 0 /\ d \notin Held'
               /\ d \in Held' => got'[d] = 0
               /\ got'[d] <= 1
    BY <1>4, <1>5, <2>1 DEF Placed
  <2>3. Placed'
    BY <1>2, <1>6, <1>7, <2>2 DEF Placed
  <2> QED BY <1>5, <2>1, <2>3
<1>8. CASE waiting' = Limit(Append(waiting, x)) /\ got' = got
  <2>1. /\ Of(waiting') \subseteq Of(waiting) \cup {e} /\ e \notin Of(waiting)
        /\ Of(waiting') = Of(waiting) \cup {e} \/ Len(waiting') = MaxQueued
        /\ Differ(waiting')
    BY <1>1, <1>4, <1>8, AppendPlaces DEF Held, Placed
  <2>2. Held' \subseteq Held \cup {e}
    BY <1>6, <2>1 DEF Held
  <2>3. ASSUME NEW d \in Offline!Envelopes
        PROVE  /\ checking'[d] # Offline!Handled => got'[d] = 0 /\ d \notin Held'
               /\ d \in Held' => got'[d] = 0
               /\ got'[d] <= 1
    BY <1>4, <1>5, <1>8, <2>2 DEF Placed
  <2>4. \A c \in Offline!Sockets : Of(waiting') \cap Taken(c)' = {}
    BY <1>6, <2>1 DEF Placed
  <2>5. Placed'
    BY <1>2, <1>6, <2>1, <2>3, <2>4 DEF Placed
  <2>6. Of(waiting') = Of(waiting) \cup {e} => e \in Held' /\ Held \subseteq Held'
    BY <1>6 DEF Held
  <2> QED BY <1>5, <1>8, <2>1, <2>5, <2>6
<1> QED BY <1>2, <1>7, <1>8

\* The queue less what expired, and before anything expires all of it.
LEMMA PrunedPlaces ==
  ASSUME QueueTypes, Placed
  PROVE  /\ Differ(Only(waiting, FreshAt(now))) /\ Of(Only(waiting, FreshAt(now))) \subseteq Of(waiting)
         /\ now < TTL => Only(waiting, FreshAt(now)) = waiting
<1>1. ASSUME now < TTL PROVE \A i \in 1 .. Len(waiting) : waiting[i] \in FreshAt(now)
  <2> SUFFICES ASSUME NEW i \in 1 .. Len(waiting) PROVE waiting[i] \in FreshAt(now)
    OBVIOUS
  <2>1. waiting[i] \in Entries
    BY ElementOfSeq DEF QueueTypes
  <2>2. waiting[i].at \in Nat
    BY <2>1 DEF Entries
  <2>3. now \in Nat /\ TTL \in Nat
    BY QueueAssumption DEF QueueTypes
  <2>4. now - waiting[i].at < TTL
    <3> DEFINE at == waiting[i].at
    <3>1. at \in Nat
      BY <2>2
    <3> HIDE DEF at
    <3>2. now - at < TTL
      BY <1>1, <2>3, <3>1, YoungIsFresh
    <3> QED BY <3>2 DEF at
  <2> QED BY <2>1, <2>4 DEF FreshAt
<1> QED BY <1>1, OfOnly, OnlyAll DEF QueueTypes, Placed

\* The other steps take away at most what expired.
LEMMA OtherPlaces ==
  ASSUME QueueTypes, FlushesFit, Offline!QueueIsDurable, Placed, ~crashed',
         \/ \E c \in Offline!Sockets :
              \/ Offline!Accept(c) \/ Offline!Register(c) \/ Offline!Touched(c)
              \/ Offline!Close(c) \/ Offline!Closed(c) \/ Offline!FlushEnds(c)
         \/ \E e \in Offline!Envelopes : Offline!Envelope(e)
         \/ Offline!GoesSilent \/ Offline!Tick \/ Offline!Alarm \/ Offline!Hibernate \/ Offline!Crash
         \/ UNCHANGED offlineVars
  PROVE  /\ Placed'
         /\ now' >= now /\ got' = got
         /\ \A e \in Offline!Envelopes : checking'[e] = Offline!Handled <=> checking[e] = Offline!Handled
         /\ now < TTL => Held' = Held
<1> DEFINE P == Only(waiting, FreshAt(now))
           Goal == /\ Placed' /\ now' >= now /\ got' = got
                   /\ \A e \in Offline!Envelopes :
                        checking'[e] = Offline!Handled <=> checking[e] = Offline!Handled
                   /\ now < TTL => Held' = Held
<1>1. /\ Differ(P) /\ Of(P) \subseteq Of(waiting) /\ (now < TTL => P = waiting)
      /\ Differ(waiting) /\ now >= now /\ now + 1 >= now
  BY PrunedPlaces DEF Placed, QueueTypes
<1> HIDE DEF P
<1>2. ASSUME waiting' \in {waiting, P}, got' = got, now' \in {now, now + 1},
             \A c \in Offline!Sockets : flush'[c].items = flush[c].items,
             \A e \in Offline!Envelopes :
               checking'[e] = Offline!Handled <=> checking[e] = Offline!Handled
      PROVE  Goal
  <2>1. Placed'
    BY <1>1, <1>2, LessIsPlaced
  <2>2. now < TTL => Held' = Held
    BY <1>1, <1>2 DEF Held, Taken
  <2> QED BY <1>1, <1>2, <2>1, <2>2
<1>3. ASSUME NEW c \in Offline!Sockets,
             \/ Offline!Accept(c) \/ Offline!Register(c) \/ Offline!Touched(c)
             \/ Offline!Close(c) \/ Offline!Closed(c)
      PROVE  Goal
  <2>1. UNCHANGED <<now, waiting, flush, checking, got>>
    BY <1>3, Connecting
  <2> QED BY <1>2, <2>1
<1>4. ASSUME NEW c \in Offline!Sockets, Offline!FlushEnds(c)
      PROVE  Goal
  <2>1. /\ UNCHANGED <<now, waiting, checking, got>> /\ flush[c].items = <<>>
        /\ flush' = [flush EXCEPT ![c] = Offline!NoFlush] /\ Offline!NoFlush.items = <<>>
    BY <1>4 DEF Offline!FlushEnds, Offline!Persist, Offline!NoFlush
  <2>2. \A d \in Offline!Sockets : flush'[d].items = flush[d].items
    BY <2>1 DEF QueueTypes
  <2> QED BY <1>2, <2>1, <2>2
<1>5. ASSUME NEW e \in Offline!Envelopes, Offline!Envelope(e)
      PROVE  Goal
  <2>1. UNCHANGED <<now, flush, got>> /\ waiting' \in {waiting, P}
    BY <1>5, EvictTypes DEF Offline!Envelope, P
  <2>2. checking[e] = Offline!Unsent /\ \E d \in {0, peer} : checking' = [checking EXCEPT ![e] = d]
    BY <1>5 DEF Offline!Envelope
  <2>3. /\ Offline!Unsent # Offline!Handled /\ peer # Offline!Handled /\ 0 # Offline!Handled
    BY QueueAssumption DEF QueueTypes, Offline!Unsent, Offline!Handled
  <2>4. \A d \in Offline!Envelopes : checking'[d] = Offline!Handled <=> checking[d] = Offline!Handled
    BY <2>2, <2>3 DEF QueueTypes
  <2> QED BY <1>2, <2>1, <2>4
<1>6. CASE Offline!GoesSilent \/ Offline!Tick \/ UNCHANGED offlineVars
  <2>1. UNCHANGED <<waiting, flush, checking, got>> /\ now' \in {now, now + 1}
    BY <1>6 DEF Offline!GoesSilent, Offline!Tick, Offline!queues, offlineVars
  <2> QED BY <1>2, <2>1
<1>7. CASE Offline!Alarm
  <2>1. UNCHANGED <<now, flush, checking, got>> /\ waiting' = P
    BY <1>7, FreshOnlyIsOnly DEF Offline!Alarm, Offline!Persist, QueueTypes, P
  <2> QED BY <1>2, <2>1
<1>8. CASE Offline!Hibernate \/ Offline!Crash
  <2>1. Offline!Rebuilt /\ Offline!Quiet
    BY <1>8 DEF Offline!Hibernate, Offline!Crash
  <2>2. waiting' = Only(stored, FreshAt(now)) /\ now' = now /\ got' = got
    BY <2>1, RebuiltTypes
  <2>3. Only(stored, FreshAt(now)) = P
    BY <2>1, FreshOnlyIsOnly DEF Offline!QueueIsDurable, Offline!Quiet, QueueTypes, P
  <2>4. \A c \in Offline!Sockets : flush'[c].items = flush[c].items
    BY <2>1 DEF FlushesFit, Offline!Quiet, Offline!Flushing, Offline!Rebuilt, Offline!NoFlush
  <2>5. ASSUME NEW e \in Offline!Envelopes
        PROVE  checking'[e] = Offline!Handled <=> checking[e] = Offline!Handled
    <3>1. checking[e] \in 0 .. (MaxConns + 2) /\ checking[e] \notin 0 .. MaxConns
      BY <2>1 DEF QueueTypes, Offline!Quiet, Offline!Running
    <3>2. checking[e] = Offline!Unsent \/ checking[e] = Offline!Handled
      BY <3>1, QueueAssumption DEF Offline!Unsent, Offline!Handled
    <3>3. Offline!Unsent # Offline!Handled
      BY QueueAssumption DEF Offline!Unsent, Offline!Handled
    <3>4. checking'[e] = IF checking[e] = Offline!Unsent THEN Offline!Unsent ELSE Offline!Handled
      BY <2>1 DEF Offline!Rebuilt
    <3> QED BY <3>2, <3>3, <3>4
  <2> QED BY <1>2, <2>2, <2>3, <2>4, <2>5
<1> QED BY <1>3, <1>4, <1>5, <1>6, <1>7, <1>8

-----------------------------------------------------------------------------
(* What may be lost.                                                        *)

Accepted == {e \in Offline!Envelopes : checking[e] = Offline!Handled}
Kept == {e \in Offline!Envelopes : got[e] > 0 \/ e \in Held}

\* Before anything expires, an accepted envelope is lost only when others
\* filled the queue.
KeptOrFull == now < TTL => Accepted \subseteq Kept \/ Cardinality(Kept) >= MaxQueued

LEMMA EnvelopesAreFinite ==
  ASSUME NEW S \in SUBSET Offline!Envelopes
  PROVE  IsFiniteSet(S) /\ Cardinality(S) \in Nat
<1>1. IsFiniteSet(Offline!Envelopes)
  BY FS_Interval, QueueAssumption DEF Offline!Envelopes
<1>2. IsFiniteSet(S)
  BY <1>1, FS_Subset
<1> QED BY <1>2, FS_CardinalityType

\* A step that keeps what was kept, and every newly accepted envelope.
LEMMA KeepsKept ==
  ASSUME KeptOrFull, now' >= now, QueueTypes, QueueTypes',
         now < TTL => Kept \subseteq Kept' /\ Accepted' \subseteq Accepted \cup Kept'
  PROVE  KeptOrFull'
<1> SUFFICES ASSUME now' < TTL, ~(Accepted' \subseteq Kept') PROVE Cardinality(Kept') >= MaxQueued
  BY DEF KeptOrFull
<1>1. now < TTL
  BY QueueAssumption DEF QueueTypes
<1>2. Kept \subseteq Kept' /\ Cardinality(Kept) >= MaxQueued
  BY <1>1 DEF KeptOrFull
<1>3. Kept' \in SUBSET Offline!Envelopes /\ Kept \in SUBSET Offline!Envelopes
  BY DEF Kept
<1>4. IsFiniteSet(Kept') /\ Cardinality(Kept') \in Nat /\ Cardinality(Kept) \in Nat
  BY <1>3, EnvelopesAreFinite
<1>5. Cardinality(Kept) <= Cardinality(Kept')
  BY <1>2, <1>4, FS_Subset
<1> QED BY <1>2, <1>4, <1>5, QueueAssumption

\* A full queue keeps MaxQueued envelopes.
LEMMA FullKeeps ==
  ASSUME QueueTypes', Placed', Len(waiting') = MaxQueued
  PROVE  KeptOrFull'
<1>1. \A i \in 1 .. Len(waiting') : waiting'[i].e \in Offline!Envelopes
  <2>1. \A i \in 1 .. Len(waiting') : waiting'[i] \in Entries
    BY ElementOfSeq DEF QueueTypes
  <2> QED BY <2>1 DEF Entries
<1>2. Of(waiting') \in SUBSET Kept'
  BY <1>1 DEF Of, Kept, Held
<1>3. Cardinality(Of(waiting')) = MaxQueued
  BY OfCardinality DEF QueueTypes, Placed
<1>4. Kept' \in SUBSET Offline!Envelopes
  BY DEF Kept
<1>5. IsFiniteSet(Kept') /\ Cardinality(Kept') \in Nat
  BY <1>4, EnvelopesAreFinite
<1>6. Cardinality(Of(waiting')) <= Cardinality(Kept')
  BY <1>2, <1>5, FS_Subset
<1> QED BY <1>3, <1>5, <1>6, QueueAssumption DEF KeptOrFull

\* The invariant of the queue.
QueueInvariant ==
  /\ QueueTypes /\ FlushesFit /\ Offline!OneLiveConnection
  /\ Offline!QueueIsDurable /\ Offline!ExpiryIsWatched
  /\ ~crashed => Placed /\ KeptOrFull

LEMMA PlacedStep ==
  ASSUME QueueInvariant, QueueTypes', [Offline!Next]_offlineVars, ~crashed'
  PROVE  Placed' /\ KeptOrFull'
<1>1. ~crashed
  BY DEF Offline!Next, Offline!Handler, Offline!Accept, Offline!Register, Offline!Touched,
         Offline!Close, Offline!Closed, Offline!FlushStarts, Offline!FlushNext, Offline!FlushEnds,
         Offline!Envelope, Offline!EnvelopeChecked, Offline!GoesSilent, Offline!Tick, Offline!Alarm,
         Offline!Hibernate, Offline!Crash, offlineVars
<1>2. Placed /\ KeptOrFull /\ QueueTypes /\ FlushesFit /\ Offline!QueueIsDurable
  BY <1>1 DEF QueueInvariant
<1>3. now >= now
  BY <1>2 DEF QueueTypes
<1>4. ASSUME NEW c \in Offline!Sockets, Offline!FlushStarts(c)
      PROVE  Placed' /\ KeptOrFull'
  <2>1. Held' = Held /\ Placed' /\ UNCHANGED <<now, checking, got>>
    BY <1>2, <1>4, FlushStartsPlaces DEF Offline!FlushStarts
  <2>2. Kept' = Kept /\ Accepted' = Accepted
    BY <2>1 DEF Kept, Accepted
  <2> QED BY <1>2, <1>3, <2>1, <2>2, KeepsKept
<1>5. ASSUME NEW c \in Offline!Sockets, Offline!FlushNext(c)
      PROVE  Placed' /\ KeptOrFull'
  <2>1. Placed' /\ UNCHANGED <<now, checking>>
    BY <1>2, <1>5, FlushNextPlaces DEF Offline!FlushNext
  <2>2. now < TTL => Len(waiting') = MaxQueued \/ Kept \subseteq Kept'
    BY <1>2, <1>5, FlushNextPlaces DEF Kept
  <2>3. Accepted' = Accepted
    BY <2>1 DEF Accepted
  <2>4. CASE Len(waiting') = MaxQueued
    BY <2>1, <2>4, FullKeeps
  <2>5. CASE Len(waiting') # MaxQueued
    BY <1>2, <1>3, <2>1, <2>2, <2>3, <2>5, KeepsKept
  <2> QED BY <2>4, <2>5
<1>6. ASSUME NEW e \in Offline!Envelopes, Offline!EnvelopeChecked(e)
      PROVE  Placed' /\ KeptOrFull'
  <2>1. /\ Placed' /\ now' = now
        /\ \A d \in Offline!Envelopes : d # e => checking'[d] = checking[d]
    BY <1>2, <1>6, EnvelopeCheckedPlaces DEF Offline!EnvelopeChecked
  <2>2. Len(waiting') = MaxQueued \/ (e \in Kept' /\ Kept \subseteq Kept')
    BY <1>2, <1>6, EnvelopeCheckedPlaces DEF Kept
  <2>3. Accepted' \subseteq Accepted \cup {e}
    BY <2>1 DEF Accepted
  <2>4. CASE Len(waiting') = MaxQueued
    BY <2>1, <2>4, FullKeeps
  <2>5. CASE e \in Kept' /\ Kept \subseteq Kept'
    BY <1>2, <1>3, <2>1, <2>3, <2>5, KeepsKept
  <2> QED BY <2>1, <2>2, <2>4, <2>5
<1>7. ASSUME \/ \E c \in Offline!Sockets :
                  \/ Offline!Accept(c) \/ Offline!Register(c) \/ Offline!Touched(c)
                  \/ Offline!Close(c) \/ Offline!Closed(c) \/ Offline!FlushEnds(c)
             \/ \E e \in Offline!Envelopes : Offline!Envelope(e)
             \/ Offline!GoesSilent \/ Offline!Tick \/ Offline!Alarm
             \/ Offline!Hibernate \/ Offline!Crash \/ UNCHANGED offlineVars
      PROVE  Placed' /\ KeptOrFull'
  <2>1. /\ Placed' /\ now' >= now /\ got' = got
        /\ \A e \in Offline!Envelopes : checking'[e] = Offline!Handled <=> checking[e] = Offline!Handled
        /\ now < TTL => Held' = Held
    BY <1>2, <1>7, OtherPlaces
  <2>2. Accepted' = Accepted /\ (now < TTL => Kept' = Kept)
    BY <2>1 DEF Accepted, Kept
  <2> QED BY <1>2, <2>1, <2>2, KeepsKept
<1> QED
  BY <1>4, <1>5, <1>6, <1>7 DEF Offline!Next, Offline!Handler

LEMMA QueueInvariantStep ==
  ASSUME QueueInvariant, [Offline!Next]_offlineVars
  PROVE  QueueInvariant'
<1>1. QueueTypes /\ QueueTypes'
  BY QueueTypesStep DEF QueueInvariant
<1>2. FlushesFit' /\ Offline!OneLiveConnection'
  BY <1>1, FlushesFitStep, OneLiveConnectionStep DEF QueueInvariant
<1>3. Offline!QueueIsDurable' /\ Offline!ExpiryIsWatched'
  BY <1>1, QueueIsDurableStep, ExpiryIsWatchedStep DEF QueueInvariant
<1>4. ~crashed' => Placed' /\ KeptOrFull'
  BY <1>1, PlacedStep
<1> QED BY <1>1, <1>2, <1>3, <1>4 DEF QueueInvariant

LEMMA QueueInvariantInit ==
  ASSUME Offline!Init
  PROVE  QueueInvariant
<1> USE QueueAssumption
<1>0. /\ now = 0 /\ alarm = Offline!Never /\ alive = {} /\ peer = 0 /\ silent = FALSE
      /\ waiting = <<>> /\ stored = <<>> /\ faults = 0 /\ crashed = FALSE
      /\ flush = [c \in Offline!Sockets |-> [to |-> 0, items |-> <<>>]]
  BY DEF Offline!Init, Offline!NoFlush
<1>1. <<>> \in Seq(Entries) /\ Len(<<>>) = 0 /\ 1 .. 0 = {}
  BY EmptySeq
<1>2. QueueTypes
  <2>1. now \in 0 .. MaxNow /\ alarm \in 0 .. Offline!Never
    BY <1>0 DEF Offline!Never
  <2>2. conn = [c \in Offline!Sockets |-> "none"]
    BY DEF Offline!Init
  <2>3. alive \subseteq Offline!Sockets /\ peer \in 0 .. MaxConns
    BY <1>0
  <2>4. silent \in BOOLEAN /\ crashed \in BOOLEAN
    BY <1>0, Zenon
  <2>5. Len(waiting) <= MaxQueued /\ Len(stored) <= MaxQueued /\ faults \in Nat
    BY <1>0, <1>1
  <2>6. flush \in [Offline!Sockets -> [to : 0 .. MaxConns, items : Seq(Entries)]]
    BY <1>0, <1>1
  <2>7. checking = [e \in Offline!Envelopes |-> MaxConns + 1] /\ got = [e \in Offline!Envelopes |-> 0]
    BY DEF Offline!Init, Offline!Unsent
  <2>8. conn \in [Offline!Sockets -> {"none", "verify", "touch", "identity", "flush", "ready", "gone"}]
    BY <2>2
  <2>9. /\ checking \in [Offline!Envelopes -> 0 .. (MaxConns + 2)]
        /\ got \in [Offline!Envelopes -> Nat]
    BY <2>7
  <2> QED BY <1>0, <1>1, <2>1, <2>3, <2>4, <2>5, <2>6, <2>8, <2>9, Zenon DEF QueueTypes
<1>3. FlushesFit
  BY <1>0 DEF FlushesFit
<1>4. Offline!OneLiveConnection
  BY <1>0 DEF Offline!OneLiveConnection
<1>5. Offline!QueueIsDurable /\ Offline!ExpiryIsWatched
  BY <1>0, <1>1 DEF Offline!QueueIsDurable, Offline!ExpiryIsWatched
<1>6. Held = {} /\ \A c \in Offline!Sockets : Taken(c) = {}
  BY <1>0, OfEmpty DEF Held, Taken
<1>7. Placed
  BY <1>0, <1>6, OfEmpty DEF Placed, Offline!Init
<1>8. Accepted = {}
  BY DEF Accepted, Offline!Init, Offline!Unsent, Offline!Handled
<1> QED BY <1>2, <1>3, <1>4, <1>5, <1>7, <1>8 DEF QueueInvariant, KeptOrFull

\* NothingIsLost, from what is kept.
LEMMA KeptMeansNothingIsLost ==
  ASSUME QueueTypes, ~crashed => Placed /\ KeptOrFull
  PROVE  Offline!NothingIsLost
<1> DEFINE Lost == {e \in Accepted : got[e] = 0 /\ ~Offline!Waits(e)}
<1>0. \A S : Offline!Cardinality(S) = Cardinality(S)
  BY DEF Offline!Cardinality, Cardinality
<1>1. SUFFICES ASSUME ~crashed, now < TTL
               PROVE  Cardinality(Accepted) >= Cardinality(Lost) + MaxQueued \/ Lost = {}
  BY <1>0 DEF Offline!NothingIsLost, Accepted
<1>2. \A e : Offline!Waits(e) <=> e \in Held
  <2>1. \A c \in Offline!Sockets : DOMAIN flush[c].items = 1 .. Len(flush[c].items)
    BY LenProperties DEF QueueTypes
  <2>2. DOMAIN waiting = 1 .. Len(waiting)
    BY LenProperties DEF QueueTypes
  <2> QED BY <2>1, <2>2 DEF Offline!Waits, Held, Taken, Of
<1>3. \A e \in Offline!Envelopes : got[e] \in Nat
  BY DEF QueueTypes
<1>4. Lost = Accepted \ Kept
  BY <1>2, <1>3 DEF Accepted, Kept
<1>5. Kept \subseteq Accepted
  BY <1>1 DEF Placed, Kept, Accepted
<1>6. Accepted \subseteq Kept \/ Cardinality(Kept) >= MaxQueued
  BY <1>1 DEF KeptOrFull
<1>7. Accepted \in SUBSET Offline!Envelopes /\ Kept \in SUBSET Offline!Envelopes
  BY DEF Accepted, Kept
<1>8. /\ IsFiniteSet(Accepted) /\ Cardinality(Accepted) \in Nat /\ Cardinality(Kept) \in Nat
      /\ Accepted \cap Kept = Kept
  BY <1>5, <1>7, EnvelopesAreFinite
<1>9. Cardinality(Accepted \ Kept) = Cardinality(Accepted) - Cardinality(Kept)
  BY <1>8, FS_Difference
<1> HIDE DEF Lost
<1> QED BY <1>4, <1>6, <1>8, <1>9, QueueAssumption

LEMMA InvariantMeansSound ==
  ASSUME QueueInvariant
  PROVE  QueueIsSound
<1>1. QueueTypes
  BY DEF QueueInvariant
<1>2. Offline!TypeOK
  BY <1>1 DEF QueueTypes, Offline!TypeOK, Offline!Queue, Entries
<1>3. Offline!SentOnce
  BY DEF QueueInvariant, Placed, Offline!SentOnce
<1>4. Offline!NothingIsLost
  BY KeptMeansNothingIsLost DEF QueueInvariant
<1> QED BY <1>2, <1>3, <1>4 DEF QueueInvariant, QueueIsSound, Offline!QueueIsSound

\* What the hosted hub's queue promises for a device, for every number of
\* connections, envelopes and ticks, limit and lifetime of the entries.
THEOREM OfflineQueueIsSound == MCSpec => []QueueIsSound
<1>1. MCInit => QueueInvariant
  BY QueueInvariantInit DEF MCInit
<1>2. QueueInvariant /\ [MCNext]_allVars => QueueInvariant'
  <2>1. [MCNext]_allVars => [Offline!Next]_offlineVars
    BY DEF MCNext, allVars
  <2> QED BY <2>1, QueueInvariantStep
<1>3. QueueInvariant => QueueIsSound
  BY InvariantMeansSound
<1> QED BY <1>1, <1>2, <1>3, PTL DEF MCSpec

-----------------------------------------------------------------------------
(* Push deliveries.                                                         *)

\* A delivery has found gone what it is going to prune.
PushTypes ==
  /\ Push!TypeOK
  /\ dead \in [Readers -> SUBSET Nat]
  /\ \A r \in Readers : next[r] > 0 /\ \A i \in dead[r] : list[r][i] \in gone

IsCurrent(r) ==
  /\ Len(list[r]) <= Len(subs)
  /\ \A i \in 1 .. Len(list[r]) : subs[i] = list[r][i]

\* The copy a delivery works on is still how the list begins.
CopiesAreCurrent ==
  \A r \in Readers : stage[r] \in {"sending", "pruning"} => IsCurrent(r)

LEMMA PruneKeeps ==
  ASSUME NEW s \in Seq(Endpoints), NEW D
  PROVE  /\ Push!Without(s, D) \in Seq(Endpoints)
         /\ \A i \in 1 .. Len(s) : i \notin D => s[i] \in Push!ToSet(Push!Without(s, D))
<1> DEFINE I == DOMAIN s \ D
           k == Keep(s, I)
<1>1. KeptFrom(Endpoints, s, I, k)
  <2> HIDE DEF I
  <2> QED BY KeepElements
<1>2. k \in Seq(Endpoints) /\ DOMAIN k = 1 .. Len(k) /\ DOMAIN s = 1 .. Len(s)
  BY <1>1, LenProperties DEF KeptFrom
<1>3. Push!Without(s, D) = k
  BY DEF Push!Without, Push!Keep, Keep
<1> HIDE DEF k
<1>4. ASSUME NEW i \in 1 .. Len(s), i \notin D PROVE s[i] \in Push!ToSet(k)
  <2>1. PICK j \in 1 .. Len(k) : k[j] = s[i]
    BY <1>1, <1>2, <1>4 DEF KeptFrom
  <2> QED BY <1>2, <2>1 DEF Push!ToSet
<1> QED BY <1>2, <1>3, <1>4

LEMMA PushTypesStep ==
  ASSUME PushTypes, [Push!Next]_pushVars
  PROVE  PushTypes'
<1> USE PushAssumption DEF PushTypes, Push!TypeOK
<1>1. ASSUME NEW e \in Endpoints, Push!Register(e)
      PROVE  PushTypes'
  <2>1. subs' = Append(subs, e) /\ UNCHANGED <<gone, stage, reports, list, next, dead>>
    BY <1>1 DEF Push!Register, Push!deliveryVars
  <2>2. subs' \in Seq(Endpoints)
    BY <2>1, AppendProperties
  <2> QED BY <2>1, <2>2
<1>2. ASSUME NEW e \in Endpoints, Push!EndpointGoes(e)
      PROVE  PushTypes'
  BY <1>2 DEF Push!EndpointGoes, Push!deliveryVars
<1>3. ASSUME NEW r \in Readers, Push!Report(r)
      PROVE  PushTypes'
  <2>1. /\ reports' = [reports EXCEPT ![r] = @ + 1] /\ reports[r] < MaxReports
        /\ \E v \in {"delivering", "idle"} : stage' = [stage EXCEPT ![r] = v]
        /\ UNCHANGED <<subs, gone, list, next, dead>>
    BY <1>3 DEF Push!Report, Push!deliveryVars
  <2>2. stage' \in [Readers -> Push!Stages]
    BY <2>1 DEF Push!Stages
  <2>3. reports' \in [Readers -> 0 .. MaxReports]
    BY <2>1
  <2> QED BY <2>1, <2>2, <2>3
<1>4. ASSUME NEW r \in Readers, Push!StartDelivery(r)
      PROVE  PushTypes'
  <2>1. /\ list' = [list EXCEPT ![r] = subs] /\ next' = [next EXCEPT ![r] = 1]
        /\ dead' = [dead EXCEPT ![r] = {}]
        /\ \E v \in {"sending", "idle"} : stage' = [stage EXCEPT ![r] = v]
        /\ UNCHANGED <<subs, gone, reports>>
    BY <1>4 DEF Push!StartDelivery
  <2>2. stage' \in [Readers -> Push!Stages]
    BY <2>1 DEF Push!Stages
  <2>3. /\ list' \in [Readers -> Seq(Endpoints)] /\ next' \in [Readers -> Nat]
        /\ dead' \in [Readers -> SUBSET Nat]
    BY <2>1
  <2>4. \A q \in Readers :
          /\ dead'[q] \subseteq 1 .. Len(list'[q]) /\ next'[q] > 0
          /\ \A i \in dead'[q] : list'[q][i] \in gone
    BY <2>1
  <2> QED BY <2>1, <2>2, <2>3, <2>4
<1>5. ASSUME NEW r \in Readers, Push!SendNext(r)
      PROVE  PushTypes'
  <2>1. /\ next' = [next EXCEPT ![r] = @ + 1] /\ next[r] <= Len(list[r])
        /\ \/ dead' = dead
           \/ list[r][next[r]] \in gone /\ dead' = [dead EXCEPT ![r] = @ \cup {next[r]}]
        /\ UNCHANGED <<subs, gone, stage, reports, list>>
    BY <1>5 DEF Push!SendNext
  <2>2. next[r] \in 1 .. Len(list[r]) /\ next[r] \in Nat
    BY <2>1, LenProperties
  <2>3. next' \in [Readers -> Nat] /\ dead' \in [Readers -> SUBSET Nat]
    <3>1. next' \in [Readers -> Nat]
      BY <2>1, <2>2
    <3>2. dead[r] \cup {next[r]} \in SUBSET Nat
      BY <2>2
    <3>3. dead' \in [Readers -> SUBSET Nat]
      BY <2>1, <3>2
    <3> QED BY <3>1, <3>3
  <2>4. \A q \in Readers :
          /\ dead'[q] \subseteq 1 .. Len(list[q]) /\ next'[q] > 0
          /\ \A i \in dead'[q] : list[q][i] \in gone
    BY <2>1, <2>2
  <2> QED BY <2>1, <2>3, <2>4
<1>6. ASSUME NEW r \in Readers, Push!EndDelivery(r) \/ Push!Prune(r)
      PROVE  PushTypes'
  <2>1. /\ subs' = subs \/ subs' = Push!Without(subs, dead[r])
        /\ \E v \in {"pruning", "idle"} : stage' = [stage EXCEPT ![r] = v]
        /\ UNCHANGED <<gone, reports, list, next, dead>>
    BY <1>6 DEF Push!EndDelivery, Push!Prune, Push!deliveryVars
  <2>2. subs' \in Seq(Endpoints)
    BY <2>1, PruneKeeps
  <2>3. stage' \in [Readers -> Push!Stages]
    BY <2>1 DEF Push!Stages
  <2> QED BY <2>1, <2>2, <2>3
<1>7. CASE UNCHANGED pushVars
  BY <1>7 DEF pushVars
<1> QED
  BY <1>1, <1>2, <1>3, <1>4, <1>5, <1>6, <1>7 DEF Push!Next

\* Pruning takes nothing live away if every delivery's copy is still current,
\* however many deliveries there are.
LEMMA CurrentCopiesPruneTheDead ==
  ASSUME PushTypes, CopiesAreCurrent, [Push!Next]_pushVars
  PROVE  Push!ToSet(subs) \ Push!ToSet(subs') \subseteq gone
<1>1. subs \in Seq(Endpoints) /\ DOMAIN subs = 1 .. Len(subs)
  BY LenProperties DEF PushTypes, Push!TypeOK
<1>2. ASSUME NEW e \in Endpoints, Push!Register(e)
      PROVE  Push!ToSet(subs) \subseteq Push!ToSet(subs')
  <2>1. subs' = Append(subs, e)
    BY <1>2 DEF Push!Register
  <2>2. /\ DOMAIN subs' = 1 .. (Len(subs) + 1) /\ Len(subs) \in Nat
        /\ \A i \in 1 .. Len(subs) : subs'[i] = subs[i]
    BY <1>1, <2>1, AppendProperties, LenProperties
  <2> QED BY <1>1, <2>2 DEF Push!ToSet
<1>3. ASSUME NEW r \in Readers, Push!Prune(r)
      PROVE  Push!ToSet(subs) \ Push!ToSet(subs') \subseteq gone
  <2> SUFFICES ASSUME NEW i \in 1 .. Len(subs), subs[i] \notin Push!ToSet(subs')
               PROVE  subs[i] \in gone
    BY <1>1 DEF Push!ToSet
  <2>1. subs' = Push!Without(subs, dead[r]) /\ stage[r] = "pruning"
    BY <1>3 DEF Push!Prune
  <2>2. i \in dead[r]
    BY <1>1, <2>1, PruneKeeps
  <2>3. list[r][i] \in gone /\ i \in 1 .. Len(list[r])
    BY <2>2 DEF PushTypes, Push!TypeOK
  <2>4. subs[i] = list[r][i]
    BY <2>1, <2>3 DEF CopiesAreCurrent, IsCurrent
  <2> QED BY <2>3, <2>4
<1>4. CASE subs' = subs
  BY <1>4
<1> QED
  BY <1>2, <1>3, <1>4 DEF Push!Next, Push!EndpointGoes, Push!Report, Push!StartDelivery,
     Push!SendNext, Push!EndDelivery, pushVars

OneReader == \A r, s \in Readers : r = s

LEMMA CopiesAreCurrentStep ==
  ASSUME OneReader, PushTypes, CopiesAreCurrent, [Push!Next]_pushVars
  PROVE  CopiesAreCurrent'
<1> USE DEF CopiesAreCurrent, IsCurrent
<1>1. ASSUME NEW e \in Endpoints, Push!Register(e)
      PROVE  CopiesAreCurrent'
  <2>1. subs' = Append(subs, e) /\ UNCHANGED <<stage, list>> /\ subs \in Seq(Endpoints)
    BY <1>1 DEF Push!Register, Push!deliveryVars, PushTypes, Push!TypeOK
  <2>2. /\ Len(subs') = Len(subs) + 1 /\ Len(subs) \in Nat
        /\ \A i \in 1 .. Len(subs) : subs'[i] = subs[i]
    BY <2>1, AppendProperties, LenProperties
  <2>3. \A r \in Readers : Len(list[r]) \in Nat
    BY LenProperties DEF PushTypes, Push!TypeOK
  <2>4. ASSUME NEW r \in Readers, IsCurrent(r)
        PROVE  IsCurrent(r)'
    BY <2>1, <2>2, <2>3, <2>4
  <2> QED BY <2>1, <2>4
<1>2. ASSUME NEW r \in Readers, Push!StartDelivery(r)
      PROVE  CopiesAreCurrent'
  <2>1. list'[r] = subs /\ subs' = subs /\ \A q \in Readers : q = r
    BY <1>2 DEF Push!StartDelivery, PushTypes, Push!TypeOK, OneReader
  <2>2. Len(subs) \in Nat
    BY LenProperties DEF PushTypes, Push!TypeOK
  <2> QED BY <2>1, <2>2
<1>3. ASSUME NEW r \in Readers, Push!Report(r)
      PROVE  CopiesAreCurrent'
  <2>1. stage'[r] \in {"delivering", "idle"} /\ \A q \in Readers : q = r
    BY <1>3 DEF Push!Report, PushTypes, Push!TypeOK, OneReader
  <2> QED BY <2>1
<1>4. ASSUME NEW r \in Readers, Push!SendNext(r)
      PROVE  CopiesAreCurrent'
  BY <1>4 DEF Push!SendNext
<1>5. ASSUME NEW r \in Readers, Push!EndDelivery(r)
      PROVE  CopiesAreCurrent'
  <2>1. /\ UNCHANGED <<subs, list>> /\ stage[r] = "sending" /\ \A q \in Readers : q = r
    BY <1>5 DEF Push!EndDelivery, Push!deliveryVars, OneReader
  <2> QED BY <2>1
<1>6. ASSUME NEW r \in Readers, Push!Prune(r)
      PROVE  CopiesAreCurrent'
  <2>1. stage'[r] = "idle" /\ \A q \in Readers : q = r
    BY <1>6 DEF Push!Prune, PushTypes, Push!TypeOK, OneReader
  <2> QED BY <2>1
<1>7. CASE UNCHANGED <<subs, stage, list>>
  BY <1>7
<1> QED
  BY <1>1, <1>2, <1>3, <1>4, <1>5, <1>6, <1>7 DEF Push!Next, Push!EndpointGoes, Push!deliveryVars, pushVars

\* With one connection of a Mac, a subscription leaves a phone's list only when
\* its own endpoint is gone, whatever the browser registers meanwhile.
THEOREM OneReaderKeepsLiveSubscriptions ==
  ASSUME OneReader
  PROVE  MCSpec => LiveSubscriptionStays
<1> DEFINE Inv == PushTypes /\ CopiesAreCurrent
<1>1. MCInit => Inv
  <2> SUFFICES ASSUME Push!Init PROVE Inv
    BY DEF MCInit
  <2>1. <<>> \in Seq(Endpoints) /\ subs = <<>> /\ gone = {}
    BY EmptySeq DEF Push!Init
  <2>2. /\ stage = [r \in Readers |-> "idle"] /\ reports = [r \in Readers |-> 0]
        /\ list = [r \in Readers |-> <<>>] /\ next = [r \in Readers |-> 1]
        /\ dead = [r \in Readers |-> {}]
    BY DEF Push!Init
  <2>3. PushTypes
    BY <2>1, <2>2, PushAssumption DEF PushTypes, Push!TypeOK, Push!Stages
  <2>4. CopiesAreCurrent
    BY <2>2 DEF CopiesAreCurrent
  <2> QED BY <2>3, <2>4
<1>2. [MCNext]_allVars => [Push!Next]_pushVars
  BY DEF MCNext, allVars
<1>3. Inv /\ [MCNext]_allVars => Inv'
  BY <1>2, PushTypesStep, CopiesAreCurrentStep
<1>4. Inv /\ [MCNext]_allVars => [Push!ToSet(subs) \ Push!ToSet(subs') \subseteq gone]_(Push!vars)
  BY <1>2, CurrentCopiesPruneTheDead
<1>5. Inv => Push!TypeOK
  BY DEF PushTypes
<1> HIDE DEF Inv
<1> QED
  BY <1>1, <1>3, <1>4, <1>5, PTL DEF MCSpec, LiveSubscriptionStays, Push!LiveSubscriptionStays
=============================================================================
