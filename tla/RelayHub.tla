------------------------------ MODULE RelayHub ------------------------------
(***************************************************************************)
(* Connection control of one Mac's relay: the RelayHub Durable Object of    *)
(* apps/cloudflare-signal/src/index.ts.                                     *)
(*                                                                          *)
(* The object is single-threaded and its storage awaits admit no other     *)
(* event, so a handler runs as one step up to its next call of the account *)
(* service; there every other event may run first.  A lookup is two steps: *)
(* the service reads its rows, and the handler goes on, later, with what it *)
(* read.  Time is the stage of an authorization (deadline); when the alarm  *)
(* runs is the subject of module RelayAlarm.                                *)
(***************************************************************************)
EXTENDS Naturals, FiniteSets

CONSTANTS
  Sockets,    \* WebSockets that may ever reach this relay
  Browsers,   \* device ids of browsers
  Accounts,   \* accounts that may own the Mac
  Mac,        \* device id of the Mac this relay serves
  PeerOf,     \* the device at the far end of each socket
  AccountOf,  \* the account each browser is signed in to
  NoSocket, NoAccount,
  Revocable,  \* bound: browsers the Mac may revoke
  MaxUnlinks  \* bound: times the Mac leaves its account

ASSUME ConstantsAssumption ==
  /\ Mac \notin Browsers
  /\ PeerOf \in [Sockets -> Browsers \cup {Mac}]
  /\ AccountOf \in [Browsers -> Accounts]
  /\ NoSocket \notin Sockets
  /\ NoAccount \notin Accounts
  /\ Accounts \cap {"idle", "clear", "hosts"} = {}
  /\ Revocable \subseteq Browsers
  /\ MaxUnlinks \in Nat

VARIABLES
  ready,          \* readyState; "closing" until the close callback ran
  step,           \* where handleRelayAuth of the socket stands
  authed,         \* sockets whose attachment is authenticated
  deadline,       \* stage of authorizationExpiresAt
  asked,          \* sockets with reauthRequestedAt
  renewal,        \* where handleClientReauth of the socket stands
  sessions,       \* keys of this.sessions
  hostSocket,     \* this.hostSocket
  clientSockets,  \* this.clientSockets
  presence,       \* last relay_presence sent to each socket
  cached,         \* whether any hello, apps or snapshot record is kept
  revokedDevices, \* this.revokedDevices, equal to the revoked-device:* keys
  revoking,       \* where /internal/revoke-device of a browser stands
  restoring,      \* where /internal/restore-device of a browser stands
  removal,        \* where /internal/host-removed stands
  toClose,        \* Mac sockets host-removed has still to close
  owner,          \* account rows: whose Mac it is
  unlinks,        \* times it was unlinked so far, for the bound only
  pairingRevoked, \* account rows: browsers with a revoked pairing
  verdict,        \* history: what host-removed found, until the Mac moves again
  confirmed       \* history: revocations answered ok and not lifted since

socketVars  == <<ready, sessions, hostSocket, clientSockets, presence>>
authVars    == <<step, authed, deadline>>
renewVars   == <<asked, renewal>>
removalVars == <<removal, toClose, cached, verdict>>
denialVars  == <<revokedDevices, revoking, restoring, pairingRevoked, confirmed>>
ownerVars   == <<owner, unlinks>>
vars == <<socketVars, authVars, renewVars, removalVars, denialVars, ownerVars>>

-----------------------------------------------------------------------------
Open(s)     == ready[s] = "open"
IsClient(s) == PeerOf[s] \in Browsers

TypeOK ==
  /\ ready \in [Sockets -> {"unused", "open", "closing", "closed"}]
  /\ step \in [Sockets -> {"none", "hostRow", "hostFound", "replacing", "touching",
                           "verify", "pairing", "active", "done"}]
  /\ authed \subseteq Sockets
  /\ deadline \in [Sockets -> {"valid", "lead", "over"}]
  /\ asked \subseteq Sockets
  /\ renewal \in [Sockets -> {"none", "rows", "pairing", "renew"}]
  /\ sessions \subseteq Sockets
  /\ hostSocket \in Sockets \cup {NoSocket}
  /\ clientSockets \in [Browsers -> Sockets \cup {NoSocket}]
  /\ presence \in [Sockets -> {"untold", "online", "offline"}]
  /\ cached \in BOOLEAN
  /\ revokedDevices \subseteq Browsers
  /\ revoking \in [Browsers -> {"idle", "rows", "confirm"}]
  /\ restoring \in [Browsers -> {"idle", "asked"}]
  /\ removal \in {"idle", "clear", "hosts"} \cup Accounts
  /\ toClose \subseteq Sockets
  /\ owner \in Accounts \cup {NoAccount}
  /\ unlinks \in 0..MaxUnlinks
  /\ pairingRevoked \subseteq Browsers
  /\ verdict \in {"none", "unlinked", "linked"}
  /\ confirmed \subseteq Browsers

Init ==
  /\ ready = [s \in Sockets |-> "unused"]
  /\ step = [s \in Sockets |-> "none"]
  /\ authed = {}
  /\ deadline = [s \in Sockets |-> "valid"]
  /\ asked = {}
  /\ renewal = [s \in Sockets |-> "none"]
  /\ sessions = {}
  /\ hostSocket = NoSocket
  /\ clientSockets = [b \in Browsers |-> NoSocket]
  /\ presence = [s \in Sockets |-> "untold"]
  /\ cached = FALSE
  /\ revokedDevices = {}
  /\ revoking = [b \in Browsers |-> "idle"]
  /\ restoring = [b \in Browsers |-> "idle"]
  /\ removal = "idle"
  /\ toClose = {}
  /\ owner \in Accounts
  /\ unlinks = 0
  /\ pairingRevoked = {}
  /\ verdict = "none"
  /\ confirmed = {}

-----------------------------------------------------------------------------
(* What the handlers share.                                                 *)

\* broadcastToClients walks the registered sockets of browsers not revoked,
\* closes those past their deadline and sends to those still open.
Listeners == {clientSockets[b] : b \in Browsers \ revokedDevices} \ {NoSocket}
Overdue   == {s \in Listeners : deadline[s] = "over"}

\* ws.close(): no effect on a socket that is not open.
Closing(C) == [s \in Sockets |-> IF s \in C /\ Open(s) THEN "closing" ELSE ready[s]]

\* A broadcast of relay_presence to sockets other than those in S.
Told(online, S) ==
  [s \in Sockets |->
     IF s \in Listeners \ (S \cup Overdue) /\ Open(s)
     THEN IF online THEN "online" ELSE "offline"
     ELSE presence[s]]

Forget(S) ==
  /\ sessions' = sessions \ S
  /\ hostSocket' = IF hostSocket \in S THEN NoSocket ELSE hostSocket
  /\ clientSockets' =
       [b \in Browsers |-> IF clientSockets[b] \in S THEN NoSocket ELSE clientSockets[b]]

\* Losing the registered host is announced, and the broadcast closes and
\* forgets the browsers it finds overdue.
Lapsing(S) == IF hostSocket \in S THEN Overdue ELSE {}

\* Mutant: losing the host is not announced.
UnregisterSilently(S) == Forget(S) /\ UNCHANGED presence

\* unregisterRelaySocket of every socket in S, browsers first.  The entry of a
\* Mac's socket leaves this.sessions after one more account call, which
\* nothing observes: the socket is closed by then.
Unregister(S) ==
  /\ Forget(S \cup Lapsing(S))
  /\ presence' = IF hostSocket \in S THEN Told(FALSE, S) ELSE presence

\* Close the sockets in C, then unregister those in S.
Drop(C, S) ==
  /\ ready' = Closing(C \cup Lapsing(S))
  /\ Unregister(S)

\* Mutant: closeExpiredClient forgets the socket and leaves it open.
BroadcastLeavingOpen == Forget(Overdue) /\ UNCHANGED ready

\* A broadcast that leaves the registered host in place.
Broadcast ==
  /\ ready' = Closing(Overdue)
  /\ Forget(Overdue)

-----------------------------------------------------------------------------
(* Connecting.                                                              *)

\* fetch /relay accepts the socket and says server_hello; the peer answers
\* with client_auth and the handler asks the account service.
Connect(s) ==
  /\ ready[s] = "unused"
  /\ ready' = [ready EXCEPT ![s] = "open"]
  /\ sessions' = sessions \cup {s}
  /\ step' = [step EXCEPT ![s] = IF IsClient(s) THEN "verify" ELSE "hostRow"]
  /\ UNCHANGED <<hostSocket, clientSockets, presence, authed, deadline,
                 renewVars, removalVars, denialVars, ownerVars>>

\* ws.close() and return: the client_auth, the token, a row or a key is refused.
Refuse(s) ==
  /\ ready' = Closing({s})
  /\ step' = [step EXCEPT ![s] = "done"]
  /\ UNCHANGED <<sessions, hostSocket, clientSockets, presence, authed, deadline>>

\* The account service does not answer: webSocketMessage closes and forgets.
LookupFails(s) ==
  /\ step[s] \in {"hostRow", "verify", "pairing", "active"}
  /\ Drop({s}, {s})
  /\ step' = [step EXCEPT ![s] = "done"]
  /\ UNCHANGED <<authed, deadline, renewVars, removalVars, denialVars, ownerVars>>

\* A sign-in goes on if the Mac's row is linked; other reasons may refuse it.
HostRow(s) ==
  /\ step[s] = "hostRow"
  /\ \/ /\ owner # NoAccount
        /\ step' = [step EXCEPT ![s] = "hostFound"]
        /\ UNCHANGED <<socketVars, authed, deadline>>
     \/ Refuse(s)
  /\ UNCHANGED <<renewVars, removalVars, denialVars, ownerVars>>

\* this.hostSocket = ws; the handler then waits for the last-seen touch.
RegisterHost(s) ==
  /\ hostSocket' = s
  /\ step' = [step EXCEPT ![s] = "touching"]
  /\ UNCHANGED <<ready, sessions, clientSockets, presence>>

\* The Mac's row was good.  An earlier host socket is closed and unregistered,
\* which waits for the account service before this socket takes its place.
HostFound(s) ==
  /\ step[s] = "hostFound"
  /\ IF ~Open(s)
     THEN /\ Drop({}, {s})
          /\ step' = [step EXCEPT ![s] = "done"]
          /\ UNCHANGED authed
     ELSE /\ authed' = authed \cup {s}
          /\ IF hostSocket # NoSocket
             THEN /\ Drop({hostSocket}, {hostSocket})
                  /\ step' = [step EXCEPT ![s] = "replacing"]
             ELSE RegisterHost(s)
  /\ UNCHANGED <<deadline, renewVars, removalVars, denialVars, ownerVars>>

HostReplaced(s) ==
  /\ step[s] = "replacing"
  /\ IF Open(s)
     THEN RegisterHost(s)
     ELSE /\ Drop({}, {s})
          /\ step' = [step EXCEPT ![s] = "done"]
  /\ UNCHANGED <<authed, deadline, renewVars, removalVars, denialVars, ownerVars>>

\* auth_ok to the Mac, presence to every browser.
HostReady(s) ==
  /\ step[s] = "touching"
  /\ IF Open(s)
     THEN /\ Broadcast
          /\ presence' = Told(TRUE, {})
     ELSE Drop({}, {s})
  /\ step' = [step EXCEPT ![s] = "done"]
  /\ UNCHANGED <<authed, deadline, renewVars, removalVars, denialVars, ownerVars>>

\* A browser goes on if its account is the Mac's.
ClientRows(s) ==
  /\ step[s] = "verify"
  /\ \/ /\ owner = AccountOf[PeerOf[s]]
        /\ step' = [step EXCEPT ![s] = "pairing"]
        /\ UNCHANGED <<socketVars, authed, deadline>>
     \/ Refuse(s)
  /\ UNCHANGED <<renewVars, removalVars, denialVars, ownerVars>>

ClientPairing(s) ==
  /\ step[s] = "pairing"
  /\ IF PeerOf[s] \in pairingRevoked
     THEN Refuse(s)
     ELSE /\ step' = [step EXCEPT ![s] = "active"]
          /\ UNCHANGED <<socketVars, authed, deadline>>
  /\ UNCHANGED <<renewVars, removalVars, denialVars, ownerVars>>

\* Mutant: the browser's earlier socket is overwritten and stays open.
RegisterClientBeside(s) ==
  /\ authed' = authed \cup {s}
  /\ clientSockets' = [clientSockets EXCEPT ![PeerOf[s]] = s]
  /\ UNCHANGED <<ready, sessions, hostSocket, presence>>

\* The browser's earlier socket is replaced, and the cached state is replayed.
RegisterClient(s) ==
  LET b == PeerOf[s]
      previous == {clientSockets[b]} \ {NoSocket} IN
  /\ authed' = authed \cup {s}
  /\ ready' = Closing(previous)
  /\ sessions' = sessions \ previous
  /\ clientSockets' = [clientSockets EXCEPT ![b] = s]
  /\ presence' = [presence EXCEPT ![s] =
                    IF hostSocket # NoSocket THEN "online" ELSE "offline"]
  /\ UNCHANGED hostSocket

\* Mutant: the denial list is not looked at again after the lookups.
ClientReadyUnchecked(s) ==
  /\ step[s] = "active"
  /\ step' = [step EXCEPT ![s] = "done"]
  /\ IF Open(s) THEN RegisterClient(s) ELSE Drop({s}, {s}) /\ UNCHANGED authed
  /\ UNCHANGED <<deadline, renewVars, removalVars, denialVars, ownerVars>>

\* The last answer is in: the denial list and the socket are checked again.
ClientReady(s) ==
  /\ step[s] = "active"
  /\ step' = [step EXCEPT ![s] = "done"]
  /\ IF PeerOf[s] \in revokedDevices \/ ~Open(s)
     THEN Drop({s}, {s}) /\ UNCHANGED authed
     ELSE RegisterClient(s)
  /\ UNCHANGED <<deadline, renewVars, removalVars, denialVars, ownerVars>>

-----------------------------------------------------------------------------
(* Connected sockets.                                                       *)

PeerCloses(s) ==
  /\ Open(s)
  /\ ready' = [ready EXCEPT ![s] = "closing"]
  /\ UNCHANGED <<sessions, hostSocket, clientSockets, presence,
                 authVars, renewVars, removalVars, denialVars, ownerVars>>

\* webSocketClose and webSocketError.  The attachment goes with the socket.
CloseCallback(s) ==
  /\ ready[s] = "closing"
  /\ ready' = [Closing(Lapsing({s})) EXCEPT ![s] = "closed"]
  /\ Unregister({s})
  /\ authed' = authed \ {s}
  /\ asked' = asked \ {s}
  /\ deadline' = [deadline EXCEPT ![s] = "valid"]
  /\ UNCHANGED <<step, renewal, removalVars, denialVars, ownerVars>>

\* The Mac publishes its hello, apps, a snapshot or a screen frame: broadcast
\* and, a frame apart, kept.
HostPublish(s) ==
  /\ s \in authed /\ ~IsClient(s) /\ Open(s)
  /\ \E kept \in BOOLEAN : cached' = (cached \/ kept)
  /\ Broadcast
  /\ UNCHANGED <<presence, authVars, renewVars, removal, toClose, verdict,
                 denialVars, ownerVars>>

\* A command from a browser.  Overdue or revoked it is closed; a host
\* socket found closed is unregistered and the browser hears host_offline.
\* Forwarding to an open host socket leaves the relay as it is.
ClientCommand(s) ==
  /\ s \in authed /\ IsClient(s) /\ Open(s)
  /\ \/ /\ deadline[s] = "over" \/ PeerOf[s] \in revokedDevices
        /\ Drop({s}, {s})
     \/ /\ deadline[s] # "over" /\ PeerOf[s] \notin revokedDevices
        /\ hostSocket # NoSocket
        /\ ~Open(hostSocket)
        /\ Drop({}, {hostSocket})
  /\ UNCHANGED <<authVars, renewVars, removalVars, denialVars, ownerVars>>

Age(s) ==
  /\ IsClient(s) /\ Open(s)
  /\ step[s] \in {"verify", "pairing", "active"} \/ s \in authed
  /\ deadline[s] # "over"
  /\ deadline' = [deadline EXCEPT ![s] = IF @ = "valid" THEN "lead" ELSE "over"]
  /\ UNCHANGED <<socketVars, step, authed, renewVars, removalVars, denialVars, ownerVars>>

AuthedClients == {s \in sessions \cap authed : IsClient(s)}

\* The alarm asks for renewals, closes overdue browsers and, if the Mac has
\* been silent too long, its socket.  Without one it repeats the bad news.
Alarm(silent) ==
  /\ asked' = asked \cup {s \in AuthedClients : deadline[s] = "lead"}
  /\ LET expired == {s \in AuthedClients : deadline[s] = "over"}
         dropped == expired \cup (IF silent THEN {hostSocket} \ {NoSocket} ELSE {}) IN
     /\ ready' = Closing(dropped)
     /\ Forget(dropped)
     /\ presence' = IF silent THEN Told(FALSE, dropped) ELSE presence
  /\ UNCHANGED <<authVars, renewal, removalVars, denialVars, ownerVars>>

\* The object leaves memory while nothing is in flight, a close callback
\* included, and is built again from its sockets' attachments and the stored
\* denials.
Idle ==
  /\ \A s \in Sockets :
       step[s] \in {"none", "done"} /\ renewal[s] = "none" /\ ready[s] # "closing"
  /\ \A b \in Browsers : revoking[b] = "idle" /\ restoring[b] = "idle"
  /\ removal = "idle"

Hibernate ==
  /\ Idle
  /\ LET alive   == {s \in Sockets : Open(s)}
         hosts   == {s \in alive \cap authed : ~IsClient(s)}
         clients == {s \in alive \cap authed : IsClient(s)}
         closed  == {s \in clients : PeerOf[s] \in revokedDevices \/ deadline[s] = "over"}
         of(b)   == {s \in clients \ closed : PeerOf[s] = b} IN
     /\ ready' = Closing(closed)
     /\ sessions' = alive \ closed
     /\ \/ hosts = {} /\ hostSocket' = NoSocket
        \/ hostSocket' \in hosts
     /\ clientSockets' \in [Browsers -> Sockets \cup {NoSocket}]
     /\ \A b \in Browsers : IF of(b) = {} THEN clientSockets'[b] = NoSocket
                                          ELSE clientSockets'[b] \in of(b)
  /\ UNCHANGED <<presence, authVars, renewVars, removalVars, denialVars, ownerVars>>

-----------------------------------------------------------------------------
(* Renewing an authorization in place.                                      *)

\* The browser answers relay_reauth_required.
RenewStart(s) ==
  /\ s \in asked /\ s \in authed /\ Open(s) /\ renewal[s] = "none"
  /\ IF deadline[s] = "over"
     THEN Drop({s}, {s}) /\ UNCHANGED renewal
     ELSE renewal' = [renewal EXCEPT ![s] = "rows"] /\ UNCHANGED socketVars
  /\ UNCHANGED <<authVars, asked, removalVars, denialVars, ownerVars>>

RenewRefused(s) ==
  /\ Drop({s}, {s})
  /\ renewal' = [renewal EXCEPT ![s] = "none"]

RenewRows(s) ==
  /\ renewal[s] = "rows"
  /\ \/ /\ owner = AccountOf[PeerOf[s]]
        /\ renewal' = [renewal EXCEPT ![s] = "pairing"]
        /\ UNCHANGED socketVars
     \/ RenewRefused(s)
  /\ UNCHANGED <<authVars, asked, removalVars, denialVars, ownerVars>>

\* Mutant: the account's revoked pairings are not asked for.
RenewPairingUnasked(s) ==
  /\ renewal[s] = "pairing"
  /\ IF PeerOf[s] \in revokedDevices
     THEN RenewRefused(s)
     ELSE renewal' = [renewal EXCEPT ![s] = "renew"] /\ UNCHANGED socketVars
  /\ UNCHANGED <<authVars, asked, removalVars, denialVars, ownerVars>>

RenewPairing(s) ==
  /\ renewal[s] = "pairing"
  /\ IF PeerOf[s] \in revokedDevices \cup pairingRevoked
     THEN RenewRefused(s)
     ELSE renewal' = [renewal EXCEPT ![s] = "renew"] /\ UNCHANGED socketVars
  /\ UNCHANGED <<authVars, asked, removalVars, denialVars, ownerVars>>

\* The account service was unreachable: the browser keeps its deadline.
RenewUnanswered(s) ==
  /\ renewal[s] # "none"
  /\ IF Open(s) THEN UNCHANGED socketVars ELSE Drop({}, {s})
  /\ renewal' = [renewal EXCEPT ![s] = "none"]
  /\ UNCHANGED <<authVars, asked, removalVars, denialVars, ownerVars>>

RenewDone(s) ==
  /\ renewal[s] = "renew"
  /\ renewal' = [renewal EXCEPT ![s] = "none"]
  /\ IF Open(s)
     THEN /\ deadline' = [deadline EXCEPT ![s] = "valid"]
          /\ asked' = asked \ {s}
          /\ UNCHANGED socketVars
     ELSE Drop({}, {s}) /\ UNCHANGED <<deadline, asked>>
  /\ UNCHANGED <<step, authed, removalVars, denialVars, ownerVars>>

-----------------------------------------------------------------------------
(* Access taken away on the Mac and given back by a link code.              *)

RevokeRows(b) ==
  /\ b \in Revocable
  /\ revoking[b] = "idle"
  /\ owner = AccountOf[b]
  /\ revoking' = [revoking EXCEPT ![b] = "rows"]
  /\ UNCHANGED <<socketVars, authVars, renewVars, removalVars,
                 revokedDevices, restoring, pairingRevoked, confirmed, ownerVars>>

\* Deny, close every socket of the browser, and store the denial.
RevokeApply(b) ==
  /\ revoking[b] = "rows"
  /\ revoking' = [revoking EXCEPT ![b] = "confirm"]
  /\ revokedDevices' = revokedDevices \cup {b}
  /\ LET own == {s \in sessions \cap authed : PeerOf[s] = b} IN Drop(own, own)
  /\ UNCHANGED <<authVars, renewVars, removalVars,
                 restoring, pairingRevoked, confirmed, ownerVars>>

\* The account records the revocation or not, and its answer arrives or not;
\* only a recorded and answered one is reported ok to the Mac.
RevokeConfirm(b) ==
  /\ revoking[b] = "confirm"
  /\ revoking' = [revoking EXCEPT ![b] = "idle"]
  /\ \E recorded, answered \in SUBSET {b} :
       /\ answered \subseteq recorded
       /\ pairingRevoked' = pairingRevoked \cup recorded
       /\ confirmed' = confirmed \cup answered
  /\ UNCHANGED <<socketVars, authVars, renewVars, removalVars,
                 revokedDevices, restoring, ownerVars>>

\* liftPairingDenial deletes the revoked pairing, then calls restore-device.
LiftPairing(b) ==
  /\ restoring[b] = "idle"
  /\ b \in pairingRevoked
  /\ owner = AccountOf[b]
  /\ pairingRevoked' = pairingRevoked \ {b}
  /\ confirmed' = confirmed \ {b}
  /\ restoring' = [restoring EXCEPT ![b] = "asked"]
  /\ UNCHANGED <<socketVars, authVars, renewVars, removalVars,
                 revokedDevices, revoking, ownerVars>>

RestoreApply(b) ==
  /\ restoring[b] = "asked"
  /\ restoring' = [restoring EXCEPT ![b] = "idle"]
  /\ \/ revokedDevices' = revokedDevices \ {b}
     \/ UNCHANGED revokedDevices
  /\ UNCHANGED <<socketVars, authVars, renewVars, removalVars,
                 revoking, pairingRevoked, confirmed, ownerVars>>

-----------------------------------------------------------------------------
(* The Mac leaving and joining accounts.                                    *)

Unlink ==
  /\ owner # NoAccount
  /\ unlinks < MaxUnlinks
  /\ owner' = NoAccount
  /\ unlinks' = unlinks + 1
  /\ verdict' = "none"
  /\ UNCHANGED <<socketVars, authVars, renewVars, removal, toClose, cached, denialVars>>

Link(a) ==
  /\ owner = NoAccount
  /\ owner' = a
  /\ verdict' = "none"
  /\ UNCHANGED <<socketVars, authVars, renewVars, removal, toClose, cached, denialVars, unlinks>>

\* host-removed reads the Mac's row before it touches anything.
RemovalRow ==
  /\ removal = "idle"
  /\ removal' = IF owner = NoAccount THEN "clear" ELSE owner
  /\ verdict' = IF owner = NoAccount THEN "unlinked" ELSE verdict
  /\ UNCHANGED <<socketVars, authVars, renewVars, toClose, cached, denialVars, ownerVars>>

\* Still linked, to account removal: browsers of other accounts are closed.
RemovalRelinked ==
  /\ removal \in Accounts
  /\ removal' = "idle"
  /\ verdict' = IF owner = removal THEN "linked" ELSE verdict
  /\ LET others == {s \in authed : /\ Open(s)
                                   /\ IsClient(s)
                                   /\ AccountOf[PeerOf[s]] # removal} IN
     Drop(others, others)
  /\ UNCHANGED <<authVars, renewVars, toClose, cached, denialVars, ownerVars>>

HostsAmong(S) == {s \in S : s \in authed /\ ~IsClient(s)}

\* Mutant: sockets still authenticating are left alone.
RemovalClearAuthedOnly ==
  /\ removal = "clear"
  /\ removal' = "hosts"
  /\ LET all == {s \in authed : Open(s)} IN
       /\ toClose' = HostsAmong(all)
       /\ Drop(all \ HostsAmong(all), all \ HostsAmong(all))
  /\ UNCHANGED <<authVars, renewVars, cached, verdict, denialVars, ownerVars>>

\* Every socket that is not an authenticated Mac's, then the first Mac's.
RemovalClear ==
  /\ removal = "clear"
  /\ removal' = "hosts"
  /\ LET all   == {s \in Sockets : Open(s)}
         hosts == HostsAmong(all) IN
     \E now \in SUBSET hosts :
       /\ IF hosts = {} THEN now = {} ELSE \E h \in hosts : now = {h}
       /\ toClose' = hosts \ now
       /\ Drop((all \ hosts) \cup now, (all \ hosts) \cup now)
  /\ UNCHANGED <<authVars, renewVars, cached, verdict, denialVars, ownerVars>>

\* The remaining Mac sockets, an account call apart, then the cached content.
RemovalNext ==
  /\ removal = "hosts"
  /\ \/ \E h \in toClose :
          /\ toClose' = toClose \ {h}
          /\ Drop({h}, {h})
          /\ UNCHANGED <<removal, cached>>
     \/ /\ toClose = {}
        /\ removal' = "idle"
        /\ cached' = FALSE
        /\ UNCHANGED <<socketVars, toClose>>
  /\ UNCHANGED <<authVars, renewVars, verdict, denialVars, ownerVars>>

-----------------------------------------------------------------------------
HostAuth(s)   == HostRow(s) \/ HostFound(s) \/ HostReplaced(s) \/ HostReady(s)
ClientAuth(s) == ClientRows(s) \/ ClientPairing(s) \/ ClientReady(s)
Renew(s)      == RenewStart(s) \/ RenewRows(s) \/ RenewPairing(s) \/ RenewUnanswered(s) \/ RenewDone(s)
Access(b)     == RevokeRows(b) \/ RevokeApply(b) \/ RevokeConfirm(b) \/ LiftPairing(b) \/ RestoreApply(b)
Removal       == RemovalRow \/ RemovalRelinked \/ RemovalClear \/ RemovalNext

Next ==
  \/ \E s \in Sockets :
       \/ Connect(s) \/ LookupFails(s) \/ HostAuth(s) \/ ClientAuth(s)
       \/ PeerCloses(s) \/ CloseCallback(s) \/ HostPublish(s) \/ ClientCommand(s)
       \/ Age(s) \/ Renew(s)
  \/ \E silent \in BOOLEAN : Alarm(silent)
  \/ Hibernate
  \/ \E b \in Browsers : Access(b)
  \/ Removal
  \/ Unlink
  \/ \E a \in Accounts : Link(a)

Spec == Init /\ [][Next]_vars

\* Deadlines pass and the alarm for them runs (RelayAlarm).  Nothing else is
\* assumed: a browser may never answer and a lookup may hang.
FairSpec ==
  /\ Spec
  /\ \A s \in Sockets : WF_vars(Age(s))
  /\ WF_vars(Alarm(FALSE))

-----------------------------------------------------------------------------
(* Safety.                                                                  *)

\* A browser the Mac has revoked (revokeDevice) holds no open authenticated
\* socket, whatever sign-in or renewal was waiting on the account service.
RevokedCutOff ==
  \A s \in authed : Open(s) => PeerOf[s] \notin revokedDevices

\* A browser has at most one open authenticated socket and it is the one
\* clientSockets delivers to, through reconnects that overtake each other.
OneSocketPerBrowser ==
  \A s \in authed : Open(s) /\ IsClient(s) => clientSockets[PeerOf[s]] = s

\* Every open socket has an entry in this.sessions, where revokeDevice and the
\* alarm look for the sockets they have to close.
SessionsCoverOpenSockets == \A s \in Sockets : Open(s) => s \in sessions

\* Losing the registered Mac socket, whichever handler finds it gone, is told
\* in the same step to every browser that stays connected
\* (unregisterRelaySocket, broadcastPresence): none is left thinking that its
\* commands reach the Mac.
LossIsAnnounced ==
  [][hostSocket # NoSocket /\ hostSocket' = NoSocket =>
       \A b \in Browsers :
         LET s == clientSockets'[b] IN
         s # NoSocket /\ ready'[s] = "open" => presence'[s] = "offline"]_vars

\* Once a host-removed call that found the Mac unlinked is through, and until
\* the Mac is linked again, no authenticated socket is open and no content is
\* kept for replay.
RemovedMacIsCleared ==
  verdict = "unlinked" /\ removal = "idle" => ~cached /\ \A s \in authed : ~Open(s)

\* A Mac socket that was told auth_ok and is still open is the registered one:
\* a newer host relay replaces an older one (handleRelayAuth).
ReadyHostIsRegistered ==
  \A s \in authed : ~IsClient(s) /\ Open(s) /\ step[s] = "done" => hostSocket = s

\* "A revoked existing identity cannot read new/cached remote content or execute
\* another operation through any active or new session": a browser whose
\* revocation was answered ok, and not lifted since, is not connected.
Connected(b) == \E s \in authed : Open(s) /\ PeerOf[s] = b
ConfirmedRevocationHolds == \A b \in confirmed : ~Connected(b)

(* Liveness.                                                                *)

Entitled(b)  == owner = AccountOf[b] /\ b \notin pairingRevoked

\* "Reauthentication also bounds stale account decisions": a browser that the
\* account rows no longer let in is off the relay within one authorization
\* period, even if a race lost the relay's own denial or removal.
StaleAccessEnds == \A b \in Browsers : ~Entitled(b) ~> (~Connected(b) \/ Entitled(b))
=============================================================================
