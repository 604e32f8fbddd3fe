--------------------------- MODULE AccountService ---------------------------
(***************************************************************************)
(* The account service as its callers see it: one table state, changed by  *)
(* one mutation at a time, in any order and with any arguments the Worker  *)
(* can pass.  An id may name a row that has gone: the Worker looked it up  *)
(* before its call arrived.                                                *)
(***************************************************************************)
EXTENDS AccountPlane

CONSTANTS
  StartTables,     \* the tables to begin with: registered devices and nothing else
  MaxIds     \* bound: ids handed out

ASSUME StartAssumption ==
  /\ StartTables \in Plane
  /\ \A r, s \in StartTables.devices : r.device = s.device \/ r.id = s.id => r = s
  /\ \A r \in StartTables.devices : r.id < StartTables.next
  /\ StartTables.codes = {} /\ StartTables.pairings = {} /\ StartTables.approvals = {}

VARIABLE plane

Init == plane = StartTables

Ids == 1 .. plane.next - 1
RowIds(kinds) ==     \* ids a device row of one of these kinds has or may have had
  Ids \ ({r.id : r \in plane.codes} \cup {r.id : r \in plane.approvals}
           \cup {r.id : r \in {s \in plane.devices : s.device \notin kinds}})
CanGrow == plane.next <= MaxIds

Registers == \E a \in Accounts, d \in Hosts \cup Browsers :
               CanGrow /\ plane' = UpsertDevice(plane, a, d).plane
Removes == \/ \E a \in Accounts, h \in Hosts : plane' = RemoveHost(plane, a, h).plane
           \/ \E i \in RowIds(Hosts) : plane' = DeleteDevice(plane, i).plane
CreatesCode == \E h \in Hosts, c \in Codes :
                 CanGrow /\ plane' = CreateCode(plane, h, c).plane
ClaimsCode == \E c \in Codes : plane' = ClaimCode(plane, c).plane
CodeExpires == \E r \in {s \in plane.codes : s.state = "live"} : plane' = ExpireCode(plane, r)
PrunesCodes == \E rows \in SUBSET {r \in plane.codes : r.state # "live"} :
                 plane' = PruneCodes(plane, rows)
DeletesCodes == \E h \in Hosts : plane' = DeleteCodes(plane, h).plane
Pairs == \E a \in Accounts, h \in RowIds(Hosts), b \in RowIds(Browsers) :
           plane' = EnsurePairing(plane, a, h, b).plane
Revokes == \E r \in plane.devices, b \in RowIds(Browsers) :
             r.device \in Hosts /\ plane' = RevokePairing(plane, r.owner, r.id, b).plane
Restores == \E r \in plane.devices, b \in RowIds(Browsers) :
              r.device \in Hosts /\
              plane' = DeleteRevokedPairings(plane, r.owner, r.id, b).plane
AsksApproval == \E a \in Accounts, h \in RowIds(Hosts), b \in RowIds(Browsers) :
                  CanGrow /\ plane' = InsertApproval(plane, a, h, b).plane
Decides == \E i \in Ids, s \in {"approved", "rejected", "expired"} :
             plane' = MarkApproval(plane, i, s).plane

Next == \/ Registers \/ Removes \/ CreatesCode \/ ClaimsCode \/ CodeExpires
        \/ PrunesCodes \/ DeletesCodes \/ Pairs \/ Revokes \/ Restores
        \/ AsksApproval \/ Decides

Spec == Init /\ [][Next]_plane

-----------------------------------------------------------------------------
(* Properties. *)

TypeOK == plane \in Plane

\* One account has a device: two registrations that race cannot both insert
\* (the existing row is read in the same transaction, upsertUserDevice).
OneRowPerDevice == \A r, s \in plane.devices : r.device = s.device => r = s

\* Two Macs never show the same working code: a claim finds the Mac the code
\* was shown on (createHostLinkCode refuses a live clash).
OneLiveRowPerCode ==
  \A r, s \in plane.codes : r.code = s.code /\ r.state = "live" /\ s.state = "live" => r = s

\* Access needs both ends in the account: no pairing that is in force outlives
\* the Mac's or the browser's row (cascades of removeHostDevice and
\* deleteDeviceByUuid, checks of ensurePairing).
ActivePairingHasBothEnds ==
  \A r \in plane.pairings : ~r.revoked =>
     /\ \E d \in plane.devices : d.id = r.host /\ d.device \in Hosts /\ d.owner = r.owner
     /\ \E d \in plane.devices : d.id = r.phone /\ d.device \in Browsers /\ d.owner = r.owner

\* A revocation is not outvoted: while a browser's access to a Mac is revoked
\* for an account, no row of the same account grants it.
RevokedIsNotPaired ==
  \A r, s \in plane.pairings :
     r.revoked /\ s.owner = r.owner /\ s.host = r.host /\ s.phone = r.phone => s.revoked

\* A Mac is asked once: one undecided request per browser.
OnePendingApproval ==
  \A r, s \in plane.approvals :
     r.status = "pending" /\ s.status = "pending" /\ r.host = s.host
       /\ r.requester = s.requester => r = s

\* A code links one Mac once: a claimed or expired code never works again.
SpentCodesStaySpent ==
  [][\A r \in plane.codes, s \in plane'.codes :
        r.id = s.id /\ r.state # "live" => s.state # "live"]_plane

\* The tables agree with each other, without foreign keys, whatever was called.
TablesAgree ==
  /\ TypeOK /\ OneRowPerDevice /\ OneLiveRowPerCode
  /\ ActivePairingHasBothEnds /\ RevokedIsNotPaired /\ OnePendingApproval
=============================================================================
