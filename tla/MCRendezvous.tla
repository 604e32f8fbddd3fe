---------------------------- MODULE MCRendezvous ----------------------------
(***************************************************************************)
(* What waits for a device, for TLC: the self-hosted server's hub with one *)
(* connection of a Mac (m1) and two of a phone (p's) ("hub"), its push     *)
(* subscriptions of one phone ("push"), and the offline queue of one       *)
(* device at the hosted hub ("offline").  Nothing that one of them keeps   *)
(* depends on another, so in a behaviour one, `part', runs and the others  *)
(* stay as they began.                                                     *)
(***************************************************************************)
EXTENDS Rendezvous, TLC

CONSTANTS
  m1, p1, p2, mac, phone,
  Readers, Endpoints, Statuses, MaxSubscriptions, MaxReports,
  MaxConns, MaxEnvelopes, MaxQueued, TTL, MaxNow, MaxFaults

\* What SignalQueue and PushService take their constants to be.
ASSUME QueueAssumption ==
  /\ MaxConns \in Nat /\ MaxEnvelopes \in Nat /\ MaxNow \in Nat /\ MaxFaults \in Nat
  /\ MaxQueued \in Nat \ {0} /\ TTL \in Nat \ {0}

ASSUME PushAssumption == MaxSubscriptions \in Nat /\ MaxReports \in Nat

VARIABLES
  part,
  subs, gone, stage, reports, list, next, dead,
  now, alarm, conn, alive, peer, silent, waiting, stored, flush, checking, got, faults, crashed

Push    == INSTANCE PushService
Offline == INSTANCE SignalQueue WITH open <- alive, queue <- waiting

hubVars     == <<peers, offline, phase, open, outgoing, queue, writer, routing, held, dest, sent,
                 delivered>>
pushVars    == <<subs, gone, stage, reports, list, next, dead>>
offlineVars == <<now, alarm, conn, alive, peer, silent, waiting, stored, flush, checking, got,
                 faults, crashed>>
allVars     == <<part, hubVars, pushVars, offlineVars>>

MCInit == part \in {"hub", "push", "offline"} /\ Init /\ Push!Init /\ Offline!Init

MCNext ==
  \/ part = "hub" /\ Next /\ UNCHANGED <<part, pushVars, offlineVars>>
  \/ part = "push" /\ Push!Next /\ UNCHANGED <<part, hubVars, offlineVars>>
  \/ part = "offline" /\ Offline!Next /\ UNCHANGED <<part, hubVars, pushVars>>

MCSpec == MCInit /\ [][MCNext]_allVars

\* The device behind each connection.
PhoneTwice == (m1 :> mac) @@ (p1 :> phone) @@ (p2 :> phone)

-----------------------------------------------------------------------------
\* A subscription leaves the list only when its own endpoint is gone, and the
\* types of the deliveries hold (PushService).
LiveSubscriptionStays == []Push!TypeOK /\ Push!LiveSubscriptionStays

\* What the hosted hub's queue promises for a device (SignalQueue).
QueueIsSound == Offline!QueueIsSound
=============================================================================
