---------------------------- MODULE AccountPlane ----------------------------
(***************************************************************************)
(* The account service's tables and its mutations (convex/accountPlane.ts). *)
(* A mutation is one serializable transaction, so it is an operator from   *)
(* the tables to the tables it leaves and the answer it gives.  Rows keep  *)
(* what later calls decide on: ids, owners, revocation, approval status,   *)
(* and whether a link code is live, expired or claimed.  A device id is a  *)
(* hash of the device's key and its kind never changes, so the checks on   *)
(* key and kind are membership in Hosts or Browsers.                       *)
(***************************************************************************)
EXTENDS Naturals, FiniteSets, FiniteSetsExt

CONSTANTS
  Accounts,      \* account user ids
  Hosts,         \* device ids of Macs
  Browsers,      \* device ids of phones and browsers
  Codes,         \* texts a link code may have
  NoRow,         \* the answer of a query that finds nothing
  Refused,       \* the answer of a mutation that throws a ConvexError
  KeptCodes      \* unclaimed codes a Mac keeps (the code keeps 3)

Device == [id : Nat, device : Hosts \cup Browsers, owner : Accounts]
Code == [id : Nat, code : Codes, host : Hosts, state : {"live", "expired", "claimed"}]
ASSUME NoRowAssumption == NoRow \notin Device

Pairing == [owner : Accounts, host : Nat, phone : Nat, revoked : BOOLEAN]
Approval == [id : Nat, owner : Accounts, host : Nat, requester : Nat,
             status : {"pending", "approved", "rejected", "expired"}]

Plane == [devices : SUBSET Device, codes : SUBSET Code, pairings : SUBSET Pairing,
          approvals : SUBSET Approval, next : Nat]

EmptyPlane ==
  [devices |-> {}, codes |-> {}, pairings |-> {}, approvals |-> {}, next |-> 1]

Answer(p, x) == [plane |-> p, answer |-> x]
Refuse(p) == Answer(p, Refused)

-----------------------------------------------------------------------------
(* Queries. *)

First(rows) == IF rows = {} THEN NoRow ELSE CHOOSE r \in rows : TRUE

FindDevice(p, d) == First({r \in p.devices : r.device = d})
FindDeviceById(p, id) == First({r \in p.devices : r.id = id})
Between(p, a, h, b) ==
  {r \in p.pairings : r.owner = a /\ r.host = h /\ r.phone = b}
ActivePairing(p, a, h, b) == \E r \in Between(p, a, h, b) : ~r.revoked
RevokedPairing(p, a, h, b) == \E r \in Between(p, a, h, b) : r.revoked
FindApproval(p, id) == First({r \in p.approvals : r.id = id})
PendingApprovals(p, h) == {r \in p.approvals : r.host = h /\ r.status = "pending"}

ActiveHostOf(p, a, d) == \E r \in p.devices : r.device = d /\ r.owner = a /\ d \in Hosts

-----------------------------------------------------------------------------
(* Devices. *)

\* Registers a device, or refreshes the caller's own row; another account's
\* device is refused.
UpsertDevice(p, a, d) ==
  LET row == FindDevice(p, d)
      new == [id |-> p.next, device |-> d, owner |-> a]
  IN  IF row = NoRow
      THEN Answer([p EXCEPT !.devices = @ \cup {new}, !.next = @ + 1], new)
      ELSE IF row.owner = a THEN Answer(p, row) ELSE Refuse(p)

\* A rename changes a label, which nothing decides on: only the ownership
\* check and the answered row remain.
RenameHost(p, a, d) ==
  IF ActiveHostOf(p, a, d) THEN Answer(p, FindDevice(p, d)) ELSE Refuse(p)

RemoveHost(p, a, d) ==
  IF ~ActiveHostOf(p, a, d) THEN Refuse(p)
  ELSE LET row == FindDevice(p, d)
       IN  Answer([p EXCEPT !.devices = @ \ {row},
                            !.pairings = {r \in @ : r.host # row.id},
                            !.approvals = {r \in @ : r.host # row.id},
                            !.codes = {r \in @ : r.host # d}], row)

DeleteDeviceRow(p, id) ==
  IF FindDeviceById(p, id) = NoRow THEN Answer(p, FALSE)
  ELSE Answer([p EXCEPT !.devices = {r \in @ : r.id # id},
                        !.approvals = {r \in @ : r.host # id}], TRUE)

DeleteDevice(p, id) ==
  IF FindDeviceById(p, id) = NoRow THEN Answer(p, FALSE)
  ELSE Answer([p EXCEPT !.devices = {r \in @ : r.id # id},
                        !.pairings = {r \in @ : r.host # id /\ r.phone # id},
                        !.approvals = {r \in @ : r.host # id}], TRUE)

-----------------------------------------------------------------------------
(* Link codes. *)

Unclaimed(codes, h) == {r \in codes : r.host = h /\ r.state # "claimed"}
Newest(rows) == {r \in rows : Cardinality({s \in rows : s.id > r.id}) < KeptCodes}

ReviveCode(p, h, c) ==
  IF \E r \in p.codes : r.code = c /\ r.state = "live" THEN Refuse(p)
  ELSE LET kept == {r \in p.codes : r.code = c /\ r.host = h}
           new == IF kept = {} THEN [id |-> p.next, code |-> c, host |-> h, state |-> "live"]
                  ELSE [First(kept) EXCEPT !.state = "live"]
       IN  Answer([p EXCEPT !.codes = (@ \ kept) \cup {new}, !.next = @ + 1], c)

CreateCode(p, h, c) ==
  IF \E r \in p.codes : r.code = c /\ r.state = "live" THEN Refuse(p)
  ELSE LET new == [id |-> p.next, code |-> c, host |-> h, state |-> "live"]
           all == p.codes \cup {new}
           old == Unclaimed(all, h) \ Newest(Unclaimed(all, h))
       IN  Answer([p EXCEPT !.codes = all \ old, !.next = @ + 1], c)

\* Exactly one live row is claimed; none, or two, is refused.
ClaimCode(p, c) ==
  LET live == {r \in p.codes : r.code = c /\ r.state = "live"}
  IN  IF Cardinality(live) # 1 THEN Refuse(p)
      ELSE LET row == CHOOSE r \in live : TRUE
           IN  Answer([p EXCEPT !.codes = (@ \ {row}) \cup {[row EXCEPT !.state = "claimed"]}],
                      row.host)

ExpireCode(p, row) ==
  [p EXCEPT !.codes = (@ \ {row}) \cup {[row EXCEPT !.state = "expired"]}]

\* Daily: codes that expired a day ago go, claimed or not.
PruneCodes(p, rows) == [p EXCEPT !.codes = @ \ rows]

DeleteCodes(p, h) == Answer([p EXCEPT !.codes = {r \in @ : r.host # h}], TRUE)

-----------------------------------------------------------------------------
(* Pairings of a Mac's row h and a browser's row b. *)

EnsurePairing(p, a, h, b) ==
  LET host == FindDeviceById(p, h)
      phone == FindDeviceById(p, b)
      new == [owner |-> a, host |-> h, phone |-> b, revoked |-> FALSE]
  IN  IF \/ host = NoRow \/ phone = NoRow
         \/ host.device \notin Hosts \/ phone.device \in Hosts
         \/ host.owner # a \/ phone.owner # a
         \/ RevokedPairing(p, a, h, b)
      THEN Refuse(p)
      ELSE Answer([p EXCEPT !.pairings = @ \cup {new}], TRUE)

\* Every pairing of the two is revoked, whichever account it belongs to, and
\* the caller's account has a revoked row even when there was no pairing.
RevokePairing(p, a, h, b) ==
  LET rows == {r \in p.pairings : r.host = h /\ r.phone = b}
      mark == [owner |-> a, host |-> h, phone |-> b, revoked |-> TRUE]
  IN  Answer([p EXCEPT !.pairings = (@ \ rows) \cup {mark}
                                      \cup {[r EXCEPT !.revoked = TRUE] : r \in rows}], TRUE)

DeleteRevokedPairings(p, a, h, b) ==
  Answer([p EXCEPT !.pairings = {r \in @ : ~(r \in Between(p, a, h, b) /\ r.revoked)}],
         RevokedPairing(p, a, h, b))

-----------------------------------------------------------------------------
(* Approval requests. *)

InsertApproval(p, a, h, b) ==
  LET pending == {r \in PendingApprovals(p, h) : r.requester = b}
      new == [id |-> p.next, owner |-> a, host |-> h, requester |-> b, status |-> "pending"]
  IN  IF pending # {} THEN Answer(p, First(pending))
      ELSE Answer([p EXCEPT !.approvals = @ \cup {new}, !.next = @ + 1], new)

\* Whatever the status was: the caller looked it up before.
MarkApproval(p, id, s) ==
  Answer([p EXCEPT !.approvals = {IF r.id = id THEN [r EXCEPT !.status = s] ELSE r : r \in @}],
         TRUE)
=============================================================================
