---------------------------- MODULE MCRelayAlarm ----------------------------
(***************************************************************************)
(* How long things are kept, for TLC: the relay's one alarm for sign-ins,  *)
(* silence and content ("alarm"), and the copies two tabs of the phone app *)
(* keep of that content ("copies").  In a behaviour one of them, `part',   *)
(* runs and the other stays as it began.                                   *)
(***************************************************************************)
EXTENDS RelayAlarm, TLC

CONSTANTS Tabs, Hosts, NoHost, NoCopy, Nobody, CopyTTL, MaxNow, MaxOps, MaxJobs

VARIABLES part, clock, ops, db, tab, lane, reuse, lock, cleared, adopted

Copies == INSTANCE OfflineCopies WITH now <- clock, TTL <- CopyTTL, None <- NoCopy

\* What stands for no copy, no Mac or no tab is none; copies have a lifetime.
ASSUME CopyAssumption ==
  /\ NoCopy \notin Copies!Copy \cup Nat /\ NoHost \notin Hosts /\ Nobody \notin Tabs
  /\ CopyTTL \in Nat \ {0} /\ MaxNow \in Nat /\ MaxJobs \in Nat

relayVars == <<now, hostSocket, reachable, heard, lastHostSeenAt, persistedSeenAt, expires,
               asked, stored, cleanupAt, alarmScheduledAt, alarm, wakes>>
copyVars == <<clock, ops, db, tab, lane, reuse, lock, cleared, adopted>>
allVars == <<part, relayVars, copyVars>>

MCInit ==
  /\ part \in {"alarm", "copies"} /\ Init /\ Copies!Init
  /\ part # "copies" => \A h \in Hosts : db.copy[h] = NoCopy

MCNext ==
  \/ part = "alarm" /\ Next /\ UNCHANGED <<part, copyVars>>
  \/ part = "copies" /\ Copies!Next /\ UNCHANGED <<part, relayVars>>

MCSpec == MCInit /\ [][MCNext]_allVars

\* Browsers are alike, and so are the tabs of one and a person's Macs.
Symmetry == Permutations(Clients) \cup Permutations(Tabs) \cup Permutations(Hosts)

-----------------------------------------------------------------------------
(* The properties of the copies; their module says what they are      *)
(* about.                                                                  *)

\* A copy another tab erased does not come back.
ErasedStaysErased == Copies!ErasedStaysErased
\* A copy is what its Mac sent, under that Mac, for its lifetime.
KeptAsReceived == Copies!KeptAsReceived
=============================================================================
