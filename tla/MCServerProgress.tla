------------------------- MODULE MCServerProgress -------------------------
(***************************************************************************)
(* What must eventually happen in the servers, for TLC: the self-hosted    *)
(* hub's goroutines, with one connection of a Mac and one of a phone       *)
(* ("hub"), the end of a browser's authorization at the relay ("relay"),   *)
(* and the end of a phone's session at the account service ("session").    *)
(* In a behaviour one of them, `part', runs and the others stay as they    *)
(* began.                                                                  *)
(***************************************************************************)
EXTENDS Naturals, Sequences, TLC

CONSTANTS
  Conns, Devices, DeviceOf, NoConn, NoEnvelope, OutCapacity, MaxQueuedPerPeer, Senders, MaxSent,
  Sockets, Browsers, Accounts, Mac, PeerOf, AccountOf, NoSocket, NoAccount, Revocable, MaxUnlinks,
  Tabs, None, MaxTokens, MaxFailures,
  m1, p1, mac, phone, c1, b1, a1

VARIABLES
  part,
  peers, offline, phase, open, outgoing, queue, writer, routing, held, dest, sent, delivered,
  ready, step, authed, deadline, asked, renewal, sessions, hostSocket, clientSockets, presence,
  cached, revokedDevices, revoking, restoring, removal, toClose, owner, unlinks,
  pairingRevoked, verdict, confirmed,
  server, store, tab, read, events, signingOut, faults, stranded

Hub     == INSTANCE Rendezvous
Relay   == INSTANCE RelayHub
Session == INSTANCE AuthSession WITH Accounts <- {a1}, revoking <- signingOut

hubVars == <<peers, offline, phase, open, outgoing, queue, writer, routing, held, dest, sent,
             delivered>>
relayVars == <<ready, step, authed, deadline, asked, renewal, sessions, hostSocket,
               clientSockets, presence, cached, revokedDevices, revoking, restoring, removal,
               toClose, owner, unlinks, pairingRevoked, verdict, confirmed>>
sessionVars == <<server, store, tab, read, events, signingOut, faults, stranded>>
allVars == <<part, hubVars, relayVars, sessionVars>>

MCInit ==
  /\ part \in {"hub", "relay", "session"} /\ Hub!Init /\ Relay!Init /\ Session!Init
  /\ part # "relay" => owner = a1

MCNext ==
  \/ part = "hub" /\ Hub!Next /\ UNCHANGED <<part, relayVars, sessionVars>>
  \/ part = "relay" /\ Relay!Next /\ UNCHANGED <<part, hubVars, sessionVars>>
  \/ part = "session" /\ Session!Next /\ UNCHANGED <<part, hubVars, relayVars>>

\* The fairness of each part, as its module states it.
Fairness ==
  /\ \A c \in Conns :
       /\ WF_hubVars(part = "hub" /\ (Hub!FlushOne(c) \/ Hub!FlushEnds(c)))
       /\ WF_hubVars(part = "hub" /\ ~open[c] /\ Hub!ReaderEnds(c))
       /\ WF_hubVars(part = "hub" /\ (Hub!UnregisterPeer(c) \/ Hub!Close(c)))
       /\ WF_hubVars(part = "hub" /\ Hub!WriteNext(c))
       /\ WF_hubVars(part = "hub" /\ (Hub!LookUp(c) \/ Hub!SendFound(c) \/ Hub!QueueForOffline(c)))
  /\ \A s \in Sockets : WF_relayVars(part = "relay" /\ Relay!Age(s))
  /\ WF_relayVars(part = "relay" /\ Relay!Alarm(FALSE))
  /\ WF_sessionVars(part = "session" /\ \E k \in Session!Issued : Session!Revoke(k))
  /\ WF_sessionVars(part = "session" /\ \E t \in Tabs : Session!ReadConfirmed(t) \/ Session!ReadRefused(t))
  /\ WF_sessionVars(part = "session" /\ \E t \in Tabs : Session!Redirected(t, a1, TRUE))
  /\ SF_sessionVars(part = "session" /\ \E t \in Tabs : Session!StartRead(t))

MCSpec == MCInit /\ [][MCNext]_allVars /\ Fairness

\* The device behind each connection, and the account of the browser.
OneEach    == (m1 :> mac) @@ (p1 :> phone)
BrowserOne == c1 :> b1
OneAccount == b1 :> a1

-----------------------------------------------------------------------------
(* The properties of the parts; their modules say what they are about.     *)

\* An envelope for the phone that reached its connection's channel is written.
OutgoingIsWritten ==
  \A n \in 1 .. MaxSent : LET e == [from |-> m1, n |-> n, to |-> phone] IN
    Hub!Contains(outgoing[p1], e) ~>
      Hub!Contains(delivered[p1], e) \/ ~open[p1] \/ writer[p1] = "stopped"
\* Routing an envelope ends (only the Mac sends).
RoutingEnds == routing[m1] # "idle" ~> routing[m1] = "idle"
\* A broken connection leaves the hub.
ClosedIsRemoved == \A c \in Conns : ~open[c] /\ phase[c] \in Hub!Attached ~> phase[c] = "gone"
\* The hub's goroutines do not wait for each other for ever.
HubProgress == OutgoingIsWritten /\ RoutingEnds /\ ClosedIsRemoved
\* A browser that lost its access is off the relay in the end.
StaleAccessEnds ==
  \A b \in Browsers : ~Relay!Entitled(b) ~> (~Relay!Connected(b) \/ Relay!Entitled(b))
\* A session that was signed out ends at the server.
SignedOutEnds ==
  \A k \in Session!Tokens : k \in signingOut ~> (k \notin server.live \/ k \in stranded)
=============================================================================
