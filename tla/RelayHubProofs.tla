--------------------------- MODULE RelayHubProofs ---------------------------
(***************************************************************************)
(* What RelayHub keeps for every number of sockets, browsers and accounts.  *)
(***************************************************************************)
EXTENDS RelayHub, TLAPS

USE ConstantsAssumption

SocketTypeOK ==
  /\ ready \in [Sockets -> {"unused", "open", "closing", "closed"}]
  /\ sessions \subseteq Sockets
  /\ hostSocket \in Sockets \cup {NoSocket}
  /\ clientSockets \in [Browsers -> Sockets \cup {NoSocket}]
  /\ presence \in [Sockets -> {"untold", "online", "offline"}]

LEMMA ClosingType ==
  ASSUME ready \in [Sockets -> {"unused", "open", "closing", "closed"}], NEW C
  PROVE  Closing(C) \in [Sockets -> {"unused", "open", "closing", "closed"}]
BY DEF Closing

LEMMA ToldType ==
  ASSUME presence \in [Sockets -> {"untold", "online", "offline"}],
         NEW online \in BOOLEAN, NEW S
  PROVE  Told(online, S) \in [Sockets -> {"untold", "online", "offline"}]
BY DEF Told

LEMMA ForgetType ==
  ASSUME SocketTypeOK, NEW S, Forget(S)
  PROVE  /\ sessions' \subseteq Sockets
         /\ hostSocket' \in Sockets \cup {NoSocket}
         /\ clientSockets' \in [Browsers -> Sockets \cup {NoSocket}]
BY DEF SocketTypeOK, Forget

\* Dropping sockets keeps the connection state well typed.
LEMMA DropType ==
  ASSUME SocketTypeOK, NEW C, NEW S, Drop(C, S)
  PROVE  SocketTypeOK'
BY ClosingType, ToldType, ForgetType DEF SocketTypeOK, Drop, Unregister

LEMMA BroadcastType ==
  ASSUME SocketTypeOK, Broadcast
  PROVE  /\ ready' \in [Sockets -> {"unused", "open", "closing", "closed"}]
         /\ sessions' \subseteq Sockets
         /\ hostSocket' \in Sockets \cup {NoSocket}
         /\ clientSockets' \in [Browsers -> Sockets \cup {NoSocket}]
BY ClosingType, ForgetType DEF SocketTypeOK, Broadcast

\* Every step keeps every variable in its type.
LEMMA TypeStep == TypeOK /\ [Next]_vars => TypeOK'
<1> SUFFICES ASSUME TypeOK, [Next]_vars PROVE TypeOK'
  OBVIOUS
<1>0. SocketTypeOK
  BY DEF TypeOK, SocketTypeOK
<1> USE DEF socketVars, authVars, renewVars, removalVars, denialVars, ownerVars
<1>1. CASE UNCHANGED vars
  BY <1>1 DEF vars, TypeOK
<1>2. ASSUME NEW s \in Sockets, Connect(s) PROVE TypeOK'
  BY <1>2 DEF TypeOK, Connect
<1>3. ASSUME NEW s \in Sockets, LookupFails(s) PROVE TypeOK'
  <2>1. SocketTypeOK'
    BY <1>0, <1>3, DropType, BroadcastType DEF SocketTypeOK, LookupFails
  <2> QED BY <1>3, <2>1 DEF TypeOK, SocketTypeOK, LookupFails
<1>4. ASSUME NEW s \in Sockets, HostRow(s) PROVE TypeOK'
  BY <1>4, ClosingType DEF TypeOK, HostRow, Refuse
<1>5. ASSUME NEW s \in Sockets, HostFound(s) PROVE TypeOK'
  <2>1. SocketTypeOK'
    BY <1>0, <1>5, DropType, BroadcastType DEF SocketTypeOK, HostFound, RegisterHost
  <2> QED BY <1>5, <2>1 DEF TypeOK, SocketTypeOK, HostFound, RegisterHost
<1>6. ASSUME NEW s \in Sockets, HostReplaced(s) PROVE TypeOK'
  <2>1. SocketTypeOK'
    BY <1>0, <1>6, DropType, BroadcastType DEF SocketTypeOK, HostReplaced, RegisterHost
  <2> QED BY <1>6, <2>1 DEF TypeOK, SocketTypeOK, HostReplaced, RegisterHost
<1>7. ASSUME NEW s \in Sockets, HostReady(s) PROVE TypeOK'
  <2>1. SocketTypeOK'
    <3>1. CASE Open(s)
      <4>1. Broadcast /\ presence' = Told(TRUE, {})
        BY <1>7, <3>1 DEF HostReady
      <4> QED BY <1>0, <4>1, BroadcastType, ToldType DEF SocketTypeOK
    <3>2. CASE ~Open(s)
      BY <1>0, <1>7, <3>2, DropType DEF HostReady
    <3> QED BY <3>1, <3>2
  <2> QED BY <1>7, <2>1 DEF TypeOK, SocketTypeOK, HostReady
<1>8. ASSUME NEW s \in Sockets, ClientRows(s) PROVE TypeOK'
  BY <1>8, ClosingType DEF TypeOK, ClientRows, Refuse
<1>9. ASSUME NEW s \in Sockets, ClientPairing(s) PROVE TypeOK'
  BY <1>9, ClosingType DEF TypeOK, ClientPairing, Refuse
<1>10. ASSUME NEW s \in Sockets, ClientReady(s) PROVE TypeOK'
  <2>1. CASE RegisterClient(s)
    <3>1. SocketTypeOK'
      <4>1. ready' \in [Sockets -> {"unused", "open", "closing", "closed"}]
        BY <1>0, <2>1, ClosingType DEF SocketTypeOK, RegisterClient
      <4> QED BY <1>0, <2>1, <4>1 DEF SocketTypeOK, RegisterClient
    <3>2. authed' \subseteq Sockets
      BY <2>1 DEF TypeOK, RegisterClient
    <3> QED BY <1>10, <3>1, <3>2 DEF TypeOK, SocketTypeOK, ClientReady
  <2>2. CASE Drop({s}, {s}) /\ UNCHANGED authed
    <3>1. SocketTypeOK'
      BY <1>0, <2>2, DropType
    <3> QED BY <1>10, <2>2, <3>1 DEF TypeOK, SocketTypeOK, ClientReady
  <2> QED BY <1>10, <2>1, <2>2 DEF ClientReady
<1>11. ASSUME NEW s \in Sockets, PeerCloses(s) PROVE TypeOK'
  BY <1>11, ClosingType DEF TypeOK, PeerCloses
<1>12. ASSUME NEW s \in Sockets, CloseCallback(s) PROVE TypeOK'
  <2>1. SocketTypeOK'
    BY <1>0, <1>12, ClosingType, ForgetType, ToldType
    DEF SocketTypeOK, CloseCallback, Unregister
  <2> QED BY <1>12, <2>1 DEF TypeOK, SocketTypeOK, CloseCallback
<1>13. ASSUME NEW s \in Sockets, HostPublish(s) PROVE TypeOK'
  <2>1. SocketTypeOK'
    BY <1>0, <1>13, BroadcastType DEF SocketTypeOK, HostPublish
  <2> QED BY <1>13, <2>1 DEF TypeOK, SocketTypeOK, HostPublish
<1>14. ASSUME NEW s \in Sockets, ClientCommand(s) PROVE TypeOK'
  <2>1. SocketTypeOK'
    BY <1>0, <1>14, DropType, BroadcastType DEF SocketTypeOK, ClientCommand
  <2> QED BY <1>14, <2>1 DEF TypeOK, SocketTypeOK, ClientCommand
<1>15. ASSUME NEW s \in Sockets, Age(s) PROVE TypeOK'
  BY <1>15 DEF TypeOK, Age
<1>16. ASSUME NEW s \in Sockets, RenewStart(s) PROVE TypeOK'
  <2>1. SocketTypeOK'
    BY <1>0, <1>16, DropType, BroadcastType DEF SocketTypeOK, RenewStart
  <2> QED BY <1>16, <2>1 DEF TypeOK, SocketTypeOK, RenewStart
<1>17. ASSUME NEW s \in Sockets, RenewRows(s) PROVE TypeOK'
  <2>1. SocketTypeOK'
    BY <1>0, <1>17, DropType, BroadcastType DEF SocketTypeOK, RenewRows, RenewRefused
  <2> QED BY <1>17, <2>1 DEF TypeOK, SocketTypeOK, RenewRows, RenewRefused
<1>18. ASSUME NEW s \in Sockets, RenewPairing(s) PROVE TypeOK'
  <2>1. SocketTypeOK'
    BY <1>0, <1>18, DropType, BroadcastType DEF SocketTypeOK, RenewPairing, RenewRefused
  <2> QED BY <1>18, <2>1 DEF TypeOK, SocketTypeOK, RenewPairing, RenewRefused
<1>19. ASSUME NEW s \in Sockets, RenewUnanswered(s) PROVE TypeOK'
  <2>1. SocketTypeOK'
    BY <1>0, <1>19, DropType, BroadcastType DEF SocketTypeOK, RenewUnanswered
  <2> QED BY <1>19, <2>1 DEF TypeOK, SocketTypeOK, RenewUnanswered
<1>20. ASSUME NEW s \in Sockets, RenewDone(s) PROVE TypeOK'
  <2>1. SocketTypeOK'
    <3>1. CASE Open(s)
      BY <1>0, <1>20, <3>1 DEF SocketTypeOK, RenewDone
    <3>2. CASE ~Open(s)
      BY <1>0, <1>20, <3>2, DropType DEF RenewDone
    <3> QED BY <3>1, <3>2
  <2>2. deadline' \in [Sockets -> {"valid", "lead", "over"}] /\ asked' \subseteq Sockets
    BY <1>20 DEF TypeOK, RenewDone
  <2> QED BY <1>20, <2>1, <2>2 DEF TypeOK, SocketTypeOK, RenewDone
<1>21. ASSUME NEW b \in Browsers, RevokeRows(b) PROVE TypeOK'
  BY <1>21 DEF TypeOK, RevokeRows
<1>22. ASSUME NEW b \in Browsers, RevokeApply(b) PROVE TypeOK'
  <2>1. SocketTypeOK'
    BY <1>0, <1>22, DropType, BroadcastType DEF SocketTypeOK, RevokeApply
  <2> QED BY <1>22, <2>1 DEF TypeOK, SocketTypeOK, RevokeApply
<1>23. ASSUME NEW b \in Browsers, RevokeConfirm(b) PROVE TypeOK'
  BY <1>23 DEF TypeOK, RevokeConfirm
<1>24. ASSUME NEW b \in Browsers, LiftPairing(b) PROVE TypeOK'
  BY <1>24 DEF TypeOK, LiftPairing
<1>25. ASSUME NEW b \in Browsers, RestoreApply(b) PROVE TypeOK'
  BY <1>25 DEF TypeOK, RestoreApply
<1>26. ASSUME NEW silent \in BOOLEAN, Alarm(silent) PROVE TypeOK'
  <2>1. SocketTypeOK'
    BY <1>0, <1>26, ClosingType, ForgetType, ToldType DEF SocketTypeOK, Alarm
  <2>2. asked' \subseteq Sockets
    BY <1>26 DEF TypeOK, Alarm, AuthedClients
  <2> QED BY <1>26, <2>1, <2>2 DEF TypeOK, SocketTypeOK, Alarm
<1>27. ASSUME NEW a \in Accounts, Link(a) PROVE TypeOK'
  BY <1>27 DEF TypeOK, Link
<1>28. ASSUME Hibernate PROVE TypeOK'
  BY <1>28, ClosingType DEF TypeOK, Hibernate
<1>29. ASSUME RemovalRow PROVE TypeOK'
  BY <1>29 DEF TypeOK, RemovalRow
<1>30. ASSUME RemovalRelinked PROVE TypeOK'
  <2>1. SocketTypeOK'
    BY <1>0, <1>30, DropType, BroadcastType DEF SocketTypeOK, RemovalRelinked
  <2> QED BY <1>30, <2>1 DEF TypeOK, SocketTypeOK, RemovalRelinked
<1>31. ASSUME RemovalClear PROVE TypeOK'
  <2>1. SocketTypeOK'
    BY <1>0, <1>31, DropType DEF RemovalClear
  <2>2. toClose' \subseteq Sockets
    BY <1>31 DEF RemovalClear, HostsAmong
  <2> QED BY <1>31, <2>1, <2>2 DEF TypeOK, SocketTypeOK, RemovalClear
<1>32. ASSUME RemovalNext PROVE TypeOK'
  <2>1. SocketTypeOK'
    BY <1>0, <1>32, DropType, BroadcastType DEF SocketTypeOK, RemovalNext
  <2> QED BY <1>32, <2>1 DEF TypeOK, SocketTypeOK, RemovalNext
<1>33. ASSUME Unlink PROVE TypeOK'
  BY <1>33 DEF TypeOK, Unlink
<1> QED
  BY <1>1, <1>2, <1>3, <1>4, <1>5, <1>6, <1>7, <1>8, <1>9, <1>10, <1>11, <1>12, <1>13, <1>14, <1>15, <1>16, <1>17, <1>18, <1>19, <1>20, <1>21, <1>22, <1>23, <1>24, <1>25, <1>26, <1>27, <1>28, <1>29, <1>30, <1>31, <1>32, <1>33
  DEF Next, HostAuth, ClientAuth, Renew, Access, Removal

-----------------------------------------------------------------------------
(* Connections.                                                             *)

\* Each kind of device goes through its own sign-in.
StepsFitPeers ==
  \A s \in Sockets :
    /\ step[s] \in {"verify", "pairing", "active"} => IsClient(s)
    /\ step[s] \in {"hostRow", "hostFound", "replacing", "touching"} => ~IsClient(s)

\* A socket that never connected has no attachment.
UnusedUnknown ==
  \A s \in Sockets : ready[s] = "unused" => s \notin authed /\ step[s] = "none"

\* The conjuncts need each other: revokeDevice finds a browser's sockets by
\* this.sessions, and a new sign-in finds the old socket by clientSockets.
Connections ==
  /\ TypeOK
  /\ StepsFitPeers
  /\ UnusedUnknown
  /\ SessionsCoverOpenSockets
  /\ OneSocketPerBrowser
  /\ RevokedCutOff

\* No socket of a browser gains access, none opens, and denials may be lifted.
NoneAdmitted ==
  /\ \A s \in Sockets : Open(s)' => Open(s)
  /\ authed' \subseteq Sockets
  /\ \A s \in authed' \ authed : ~IsClient(s)

LEMMA NoneAdmittedKeepsCutOff ==
  ASSUME Connections, NoneAdmitted, revokedDevices' \subseteq revokedDevices
  PROVE  RevokedCutOff'
BY DEF Connections, TypeOK, NoneAdmitted, RevokedCutOff, IsClient, Open

LEMMA NoneAdmittedInPlace ==
  ASSUME Connections, NoneAdmitted,
         sessions' = sessions, clientSockets' = clientSockets
  PROVE  SessionsCoverOpenSockets' /\ OneSocketPerBrowser'
BY DEF Connections, TypeOK, NoneAdmitted, SessionsCoverOpenSockets,
       OneSocketPerBrowser, IsClient, Open

\* Forgetting sockets that are closed in the same step.
LEMMA ForgetClosed ==
  ASSUME Connections, NoneAdmitted, NEW S, Forget(S),
         \A s \in Sockets : s \in S => ~Open(s)'
  PROVE  SessionsCoverOpenSockets' /\ OneSocketPerBrowser'
<1>1. SessionsCoverOpenSockets'
  BY DEF Connections, NoneAdmitted, SessionsCoverOpenSockets, Forget, Open
<1>2. OneSocketPerBrowser'
  <2> SUFFICES ASSUME NEW s \in authed', Open(s)', IsClient(s)
               PROVE  clientSockets'[PeerOf[s]] = s
    BY DEF OneSocketPerBrowser, IsClient
  <2>1. s \in Sockets /\ s \in authed /\ Open(s)
    BY DEF NoneAdmitted
  <2>2. clientSockets[PeerOf[s]] = s /\ s \notin S /\ PeerOf[s] \in Browsers
    BY <2>1 DEF Connections, OneSocketPerBrowser, IsClient
  <2> QED BY <2>2 DEF Forget
<1> QED BY <1>1, <1>2

\* Drop(C, S) is safe whenever what it forgets it closes or finds closed.
LEMMA DropForgetsClosed ==
  ASSUME Connections, NEW C, NEW S, Drop(C, S),
         \A s \in Sockets : s \in S => s \in C \/ ~Open(s),
         authed' \subseteq Sockets, \A s \in authed' \ authed : ~IsClient(s)
  PROVE  /\ NoneAdmitted
         /\ SessionsCoverOpenSockets' /\ OneSocketPerBrowser'
         /\ \A s \in Sockets : s \in C => ~Open(s)'
<1>1. \A s \in Sockets : Open(s)' => Open(s) /\ s \notin C \cup Lapsing(S)
  BY DEF Drop, Closing, Open
<1>2. NoneAdmitted
  BY <1>1 DEF NoneAdmitted
<1>3. Forget(S \cup Lapsing(S))
  BY DEF Drop, Unregister
<1>4. \A s \in Sockets : s \in S \cup Lapsing(S) => ~Open(s)'
  BY <1>1
<1> QED BY <1>1, <1>2, <1>3, <1>4, ForgetClosed

LEMMA Undisturbed ==
  ASSUME Connections, UNCHANGED <<ready, sessions, clientSockets>>,
         authed' \subseteq Sockets, \A s \in authed' \ authed : ~IsClient(s)
  PROVE  NoneAdmitted /\ SessionsCoverOpenSockets' /\ OneSocketPerBrowser'
<1>1. NoneAdmitted
  BY DEF NoneAdmitted, Open
<1> QED BY <1>1, NoneAdmittedInPlace

LEMMA BroadcastForgetsClosed ==
  ASSUME Connections, Broadcast, authed' = authed
  PROVE  NoneAdmitted /\ SessionsCoverOpenSockets' /\ OneSocketPerBrowser'
<1>1. \A s \in Sockets : Open(s)' => Open(s) /\ s \notin Overdue
  BY DEF Broadcast, Closing, Open
<1>2. NoneAdmitted
  BY <1>1 DEF NoneAdmitted, Connections, TypeOK
<1> QED BY <1>1, <1>2, ForgetClosed DEF Broadcast

LEMMA StepsFitPeersStep == TypeOK /\ StepsFitPeers /\ [Next]_vars => StepsFitPeers'
<1> SUFFICES ASSUME TypeOK, StepsFitPeers, [Next]_vars PROVE StepsFitPeers'
  OBVIOUS
<1> USE DEF StepsFitPeers, IsClient, authVars
<1>1. CASE UNCHANGED step
  BY <1>1
<1>2. ASSUME NEW s \in Sockets, Connect(s) PROVE StepsFitPeers'
  BY <1>2 DEF TypeOK, Connect
<1>3. ASSUME NEW s \in Sockets, LookupFails(s) PROVE StepsFitPeers'
  BY <1>3 DEF TypeOK, LookupFails
<1>4. ASSUME NEW s \in Sockets, HostRow(s) PROVE StepsFitPeers'
  BY <1>4 DEF TypeOK, HostRow, Refuse
<1>5. ASSUME NEW s \in Sockets, HostFound(s) PROVE StepsFitPeers'
  BY <1>5 DEF TypeOK, HostFound, RegisterHost
<1>6. ASSUME NEW s \in Sockets, HostReplaced(s) PROVE StepsFitPeers'
  BY <1>6 DEF TypeOK, HostReplaced, RegisterHost
<1>7. ASSUME NEW s \in Sockets, HostReady(s) PROVE StepsFitPeers'
  BY <1>7 DEF TypeOK, HostReady
<1>8. ASSUME NEW s \in Sockets, ClientRows(s) PROVE StepsFitPeers'
  BY <1>8 DEF TypeOK, ClientRows, Refuse
<1>9. ASSUME NEW s \in Sockets, ClientPairing(s) PROVE StepsFitPeers'
  BY <1>9 DEF TypeOK, ClientPairing, Refuse
<1>10. ASSUME NEW s \in Sockets, ClientReady(s) PROVE StepsFitPeers'
  BY <1>10 DEF TypeOK, ClientReady
<1> QED
  BY <1>1, <1>2, <1>3, <1>4, <1>5, <1>6, <1>7, <1>8, <1>9, <1>10
  DEF Next, HostAuth, ClientAuth, Renew, Access, Removal, vars,
      PeerCloses, CloseCallback, HostPublish, ClientCommand, Age, RenewStart, RenewRows, RenewPairing, RenewUnanswered, RenewDone, RevokeRows, RevokeApply, RevokeConfirm, LiftPairing, RestoreApply, Alarm, Link, Hibernate, RemovalRow, RemovalRelinked, RemovalClear, RemovalNext, Unlink

LEMMA UnusedStep == TypeOK /\ UnusedUnknown /\ [Next]_vars => UnusedUnknown'
<1> SUFFICES ASSUME TypeOK, UnusedUnknown, [Next]_vars PROVE UnusedUnknown'
  OBVIOUS
<1> USE DEF TypeOK, UnusedUnknown, Open, socketVars, authVars
<1>1. CASE UNCHANGED <<ready, authed, step>>
  BY <1>1
<1>2. ASSUME NEW s \in Sockets, Connect(s) PROVE UnusedUnknown'
  BY <1>2 DEF Connect
<1>3. ASSUME NEW s \in Sockets, LookupFails(s) PROVE UnusedUnknown'
  BY <1>3 DEF LookupFails, Drop, Closing
<1>4. ASSUME NEW s \in Sockets, HostRow(s) PROVE UnusedUnknown'
  BY <1>4 DEF HostRow, Refuse, Closing
<1>5. ASSUME NEW s \in Sockets, HostFound(s) PROVE UnusedUnknown'
  BY <1>5 DEF HostFound, RegisterHost, Drop, Closing
<1>6. ASSUME NEW s \in Sockets, HostReplaced(s) PROVE UnusedUnknown'
  BY <1>6 DEF HostReplaced, RegisterHost, Drop, Closing
<1>7. ASSUME NEW s \in Sockets, HostReady(s) PROVE UnusedUnknown'
  <2>1. \A t \in Sockets : ready'[t] = "unused" => ready[t] = "unused"
    <3>1. CASE Open(s)
      BY <1>7, <3>1 DEF HostReady, Broadcast, Closing
    <3>2. CASE ~Open(s)
      BY <1>7, <3>2 DEF HostReady, Drop, Closing
    <3> QED BY <3>1, <3>2
  <2> QED BY <1>7, <2>1 DEF HostReady
<1>8. ASSUME NEW s \in Sockets, ClientRows(s) PROVE UnusedUnknown'
  BY <1>8 DEF ClientRows, Refuse, Closing
<1>9. ASSUME NEW s \in Sockets, ClientPairing(s) PROVE UnusedUnknown'
  BY <1>9 DEF ClientPairing, Refuse, Closing
<1>10. ASSUME NEW s \in Sockets, ClientReady(s) PROVE UnusedUnknown'
  BY <1>10 DEF ClientReady, RegisterClient, Drop, Closing
<1>11. ASSUME NEW s \in Sockets, PeerCloses(s) PROVE UnusedUnknown'
  BY <1>11 DEF PeerCloses
<1>12. ASSUME NEW s \in Sockets, CloseCallback(s) PROVE UnusedUnknown'
  BY <1>12 DEF CloseCallback, Closing
<1>13. ASSUME NEW s \in Sockets, HostPublish(s) PROVE UnusedUnknown'
  BY <1>13 DEF HostPublish, Broadcast, Closing
<1>14. ASSUME NEW s \in Sockets, ClientCommand(s) PROVE UnusedUnknown'
  BY <1>14 DEF ClientCommand, Drop, Closing
<1>15. ASSUME NEW s \in Sockets, RenewStart(s) PROVE UnusedUnknown'
  BY <1>15 DEF RenewStart, Drop, Closing
<1>16. ASSUME NEW s \in Sockets, RenewRows(s) PROVE UnusedUnknown'
  BY <1>16 DEF RenewRows, RenewRefused, Drop, Closing
<1>17. ASSUME NEW s \in Sockets, RenewPairing(s) PROVE UnusedUnknown'
  BY <1>17 DEF RenewPairing, RenewRefused, Drop, Closing
<1>18. ASSUME NEW s \in Sockets, RenewUnanswered(s) PROVE UnusedUnknown'
  BY <1>18 DEF RenewUnanswered, Drop, Closing
<1>19. ASSUME NEW s \in Sockets, RenewDone(s) PROVE UnusedUnknown'
  BY <1>19 DEF RenewDone, Drop, Closing
<1>20. ASSUME NEW b \in Browsers, RevokeApply(b) PROVE UnusedUnknown'
  BY <1>20 DEF RevokeApply, Drop, Closing
<1>21. ASSUME NEW silent \in BOOLEAN, Alarm(silent) PROVE UnusedUnknown'
  BY <1>21 DEF Alarm, Closing
<1>22. ASSUME Hibernate PROVE UnusedUnknown'
  BY <1>22 DEF Hibernate, Closing
<1>23. ASSUME RemovalRelinked PROVE UnusedUnknown'
  BY <1>23 DEF RemovalRelinked, Drop, Closing
<1>24. ASSUME RemovalClear PROVE UnusedUnknown'
  BY <1>24 DEF RemovalClear, Drop, Closing
<1>25. ASSUME RemovalNext PROVE UnusedUnknown'
  <2>1. CASE UNCHANGED socketVars
    BY <1>25, <2>1 DEF RemovalNext
  <2>2. CASE \E h \in toClose : Drop({h}, {h})
    BY <1>25, <2>2 DEF RemovalNext, Drop, Closing
  <2> QED BY <1>25, <2>1, <2>2 DEF RemovalNext
<1> QED
  BY <1>1, <1>2, <1>3, <1>4, <1>5, <1>6, <1>7, <1>8, <1>9, <1>10, <1>11, <1>12, <1>13, <1>14, <1>15, <1>16, <1>17, <1>18, <1>19, <1>20, <1>21, <1>22, <1>23, <1>24, <1>25
  DEF Next, HostAuth, ClientAuth, Renew, Access, Removal, vars,
      Age, RevokeRows, RevokeConfirm, LiftPairing, RestoreApply, Link, Unlink, RemovalRow

\* Every step keeps the connections in order.
LEMMA ConnectionsStep == Connections /\ [Next]_vars => Connections'
<1> SUFFICES ASSUME Connections, [Next]_vars PROVE Connections'
  OBVIOUS
<1> DEFINE Kept == SessionsCoverOpenSockets' /\ OneSocketPerBrowser' /\ RevokedCutOff'
<1>a. TypeOK' /\ StepsFitPeers' /\ UnusedUnknown'
  BY TypeStep, StepsFitPeersStep, UnusedStep DEF Connections
<1>b. authed \subseteq Sockets /\ hostSocket \in Sockets \cup {NoSocket}
  BY DEF Connections, TypeOK
<1>c. SUFFICES Kept
  BY <1>a DEF Connections
<1> USE DEF socketVars, authVars, renewVars, removalVars, denialVars, ownerVars
<1>1. CASE UNCHANGED vars
  BY <1>1, NoneAdmittedInPlace, NoneAdmittedKeepsCutOff
  DEF vars, Connections, TypeOK, NoneAdmitted, Open
<1>2. ASSUME NEW s \in Sockets, Connect(s) PROVE Kept
  <2>1. SessionsCoverOpenSockets'
    BY <1>2 DEF Connections, TypeOK, SessionsCoverOpenSockets, Connect, Open
  <2>2. s \notin authed
    BY <1>2 DEF Connections, UnusedUnknown, Connect
  <2>3. \A t \in authed' : Open(t)' => t \in authed /\ Open(t)
    BY <1>2, <2>2 DEF Connections, TypeOK, Connect, Open
  <2>4. OneSocketPerBrowser' /\ RevokedCutOff'
    BY <1>2, <2>3 DEF Connections, OneSocketPerBrowser, RevokedCutOff, Connect, IsClient
  <2> QED BY <2>1, <2>4
<1>3. ASSUME NEW s \in Sockets, LookupFails(s) PROVE Kept
  <2>1. NoneAdmitted /\ SessionsCoverOpenSockets' /\ OneSocketPerBrowser'
    BY <1>3, DropForgetsClosed, BroadcastForgetsClosed DEF Connections, TypeOK, LookupFails
  <2> QED BY <1>3, <2>1, NoneAdmittedKeepsCutOff DEF LookupFails
<1>4. ASSUME NEW s \in Sockets, HostRow(s) PROVE Kept
  <2>1. NoneAdmitted
    BY <1>4 DEF Connections, TypeOK, NoneAdmitted, Closing, Open, HostRow, Refuse
  <2> QED
    BY <1>4, <2>1, NoneAdmittedInPlace, NoneAdmittedKeepsCutOff DEF HostRow, Refuse
<1>5. ASSUME NEW s \in Sockets, HostFound(s) PROVE Kept
  <2>1. NoneAdmitted /\ SessionsCoverOpenSockets' /\ OneSocketPerBrowser'
    <3>1. CASE ~Open(s)
      BY <1>5, <3>1, DropForgetsClosed DEF Connections, TypeOK, HostFound
    <3>2. CASE Open(s) /\ hostSocket # NoSocket
      BY <1>5, <3>2, <1>b, DropForgetsClosed DEF Connections, TypeOK, StepsFitPeers, HostFound
    <3>3. CASE Open(s) /\ hostSocket = NoSocket
      BY <1>5, <3>3, <1>b, Undisturbed DEF Connections, TypeOK, StepsFitPeers, HostFound, RegisterHost
    <3> QED BY <3>1, <3>2, <3>3
  <2> QED BY <1>5, <2>1, NoneAdmittedKeepsCutOff DEF HostFound, RegisterHost
<1>6. ASSUME NEW s \in Sockets, HostReplaced(s) PROVE Kept
  <2>1. NoneAdmitted /\ SessionsCoverOpenSockets' /\ OneSocketPerBrowser'
    <3>1. CASE Open(s)
      BY <1>6, <3>1, Undisturbed DEF Connections, TypeOK, HostReplaced, RegisterHost
    <3>2. CASE ~Open(s)
      BY <1>6, <3>2, DropForgetsClosed DEF Connections, TypeOK, HostReplaced
    <3> QED BY <3>1, <3>2
  <2> QED BY <1>6, <2>1, NoneAdmittedKeepsCutOff DEF HostReplaced, RegisterHost
<1>7. ASSUME NEW s \in Sockets, HostReady(s) PROVE Kept
  <2>1. NoneAdmitted /\ SessionsCoverOpenSockets' /\ OneSocketPerBrowser'
    <3>1. CASE Open(s)
      BY <1>7, <3>1, BroadcastForgetsClosed DEF Connections, TypeOK, HostReady
    <3>2. CASE ~Open(s)
      BY <1>7, <3>2, DropForgetsClosed DEF Connections, TypeOK, HostReady
    <3> QED BY <3>1, <3>2
  <2> QED BY <1>7, <2>1, NoneAdmittedKeepsCutOff DEF HostReady
<1>8. ASSUME NEW s \in Sockets, ClientRows(s) PROVE Kept
  <2>1. NoneAdmitted
    BY <1>8 DEF Connections, TypeOK, NoneAdmitted, Closing, Open, ClientRows, Refuse
  <2> QED
    BY <1>8, <2>1, NoneAdmittedInPlace, NoneAdmittedKeepsCutOff DEF ClientRows, Refuse
<1>9. ASSUME NEW s \in Sockets, ClientPairing(s) PROVE Kept
  <2>1. NoneAdmitted
    BY <1>9 DEF Connections, TypeOK, NoneAdmitted, Closing, Open, ClientPairing, Refuse
  <2> QED
    BY <1>9, <2>1, NoneAdmittedInPlace, NoneAdmittedKeepsCutOff DEF ClientPairing, Refuse
<1>10. ASSUME NEW s \in Sockets, ClientReady(s) PROVE Kept
  <2>1. CASE PeerOf[s] \in revokedDevices \/ ~Open(s)
    <3>1. NoneAdmitted /\ SessionsCoverOpenSockets' /\ OneSocketPerBrowser'
      BY <1>10, <2>1, DropForgetsClosed DEF Connections, TypeOK, ClientReady
    <3> QED BY <1>10, <3>1, NoneAdmittedKeepsCutOff DEF ClientReady
  <2>2. CASE PeerOf[s] \notin revokedDevices /\ Open(s)
    <3> DEFINE previous == {clientSockets[PeerOf[s]]} \ {NoSocket}
    <3>1. IsClient(s) /\ PeerOf[s] \in Browsers
      BY <1>10 DEF Connections, StepsFitPeers, ClientReady, IsClient
    <3>2. RegisterClient(s) /\ revokedDevices' = revokedDevices
      BY <1>10, <2>2 DEF ClientReady
    <3>3. \A t \in Sockets : Open(t)' <=> Open(t) /\ t \notin previous
      BY <3>2 DEF RegisterClient, Closing, Open
    <3>4. SessionsCoverOpenSockets'
      BY <3>2, <3>3 DEF Connections, SessionsCoverOpenSockets, RegisterClient
    <3>5. RevokedCutOff'
      BY <2>2, <3>2, <3>3 DEF Connections, TypeOK, RevokedCutOff, RegisterClient
    <3>6. OneSocketPerBrowser'
      <4> SUFFICES ASSUME NEW t \in authed', Open(t)', IsClient(t)
                   PROVE  clientSockets'[PeerOf[t]] = t
        BY DEF OneSocketPerBrowser, IsClient
      <4>1. clientSockets' = [clientSockets EXCEPT ![PeerOf[s]] = s] /\ t \in authed \cup {s}
        BY <3>2 DEF RegisterClient
      <4>2. CASE t = s
        BY <3>1, <4>1, <4>2 DEF Connections, TypeOK
      <4>3. CASE t # s
        <5>1. t \in authed /\ t \in Sockets /\ Open(t) /\ t \notin previous
          BY <3>3, <4>1, <4>3 DEF Connections, TypeOK
        <5>2. clientSockets[PeerOf[t]] = t
          BY <5>1 DEF Connections, OneSocketPerBrowser, IsClient
        <5>3. PeerOf[t] # PeerOf[s]
          BY <5>1, <5>2
        <5> QED BY <4>1, <5>2, <5>3 DEF Connections, TypeOK, IsClient
      <4> QED BY <4>2, <4>3
    <3> QED BY <3>4, <3>5, <3>6
  <2> QED BY <2>1, <2>2
<1>11. ASSUME NEW s \in Sockets, PeerCloses(s) PROVE Kept
  <2>1. NoneAdmitted
    BY <1>11 DEF Connections, TypeOK, NoneAdmitted, Closing, Open, PeerCloses
  <2> QED
    BY <1>11, <2>1, NoneAdmittedInPlace, NoneAdmittedKeepsCutOff DEF PeerCloses
<1>12. ASSUME NEW s \in Sockets, CloseCallback(s) PROVE Kept
  <2>1. /\ NoneAdmitted
        /\ \A t \in Sockets : t \in {s} \cup Lapsing({s}) => ~Open(t)'
    BY <1>12 DEF Connections, TypeOK, NoneAdmitted, CloseCallback, Closing, Open
  <2>2. SessionsCoverOpenSockets' /\ OneSocketPerBrowser'
    BY <1>12, <2>1, ForgetClosed DEF CloseCallback, Unregister
  <2> QED BY <1>12, <2>1, <2>2, NoneAdmittedKeepsCutOff DEF CloseCallback
<1>13. ASSUME NEW s \in Sockets, HostPublish(s) PROVE Kept
  <2>1. NoneAdmitted /\ SessionsCoverOpenSockets' /\ OneSocketPerBrowser'
    BY <1>13, DropForgetsClosed, BroadcastForgetsClosed DEF Connections, TypeOK, HostPublish
  <2> QED BY <1>13, <2>1, NoneAdmittedKeepsCutOff DEF HostPublish
<1>14. ASSUME NEW s \in Sockets, ClientCommand(s) PROVE Kept
  <2>1. NoneAdmitted /\ SessionsCoverOpenSockets' /\ OneSocketPerBrowser'
    BY <1>14, DropForgetsClosed, BroadcastForgetsClosed DEF Connections, TypeOK, ClientCommand
  <2> QED BY <1>14, <2>1, NoneAdmittedKeepsCutOff DEF ClientCommand
<1>15. ASSUME NEW s \in Sockets, Age(s) PROVE Kept
  <2>1. NoneAdmitted
    BY <1>15 DEF Connections, TypeOK, NoneAdmitted, Closing, Open, Age
  <2> QED
    BY <1>15, <2>1, NoneAdmittedInPlace, NoneAdmittedKeepsCutOff DEF Age
<1>16. ASSUME NEW s \in Sockets, RenewStart(s) PROVE Kept
  <2>1. NoneAdmitted /\ SessionsCoverOpenSockets' /\ OneSocketPerBrowser'
    <3>1. CASE deadline[s] = "over"
      BY <1>16, <3>1, DropForgetsClosed DEF Connections, TypeOK, RenewStart
    <3>2. CASE deadline[s] # "over"
      BY <1>16, <3>2, Undisturbed DEF Connections, TypeOK, RenewStart
    <3> QED BY <3>1, <3>2
  <2> QED BY <1>16, <2>1, NoneAdmittedKeepsCutOff DEF RenewStart
<1>17. ASSUME NEW s \in Sockets, RenewRows(s) PROVE Kept
  <2>1. NoneAdmitted /\ SessionsCoverOpenSockets' /\ OneSocketPerBrowser'
    <3>1. CASE UNCHANGED socketVars
      BY <1>17, <3>1, Undisturbed DEF Connections, TypeOK, RenewRows
    <3>2. CASE RenewRefused(s)
      BY <1>17, <3>2, DropForgetsClosed DEF Connections, TypeOK, RenewRows, RenewRefused
    <3> QED BY <1>17, <3>1, <3>2 DEF RenewRows
  <2> QED BY <1>17, <2>1, NoneAdmittedKeepsCutOff DEF RenewRows, RenewRefused
<1>18. ASSUME NEW s \in Sockets, RenewPairing(s) PROVE Kept
  <2>1. NoneAdmitted /\ SessionsCoverOpenSockets' /\ OneSocketPerBrowser'
    <3>1. CASE PeerOf[s] \in revokedDevices \cup pairingRevoked
      BY <1>18, <3>1, DropForgetsClosed DEF Connections, TypeOK, RenewPairing, RenewRefused
    <3>2. CASE PeerOf[s] \notin revokedDevices \cup pairingRevoked
      BY <1>18, <3>2, Undisturbed DEF Connections, TypeOK, RenewPairing
    <3> QED BY <3>1, <3>2
  <2> QED BY <1>18, <2>1, NoneAdmittedKeepsCutOff DEF RenewPairing, RenewRefused
<1>19. ASSUME NEW s \in Sockets, RenewUnanswered(s) PROVE Kept
  <2>1. NoneAdmitted /\ SessionsCoverOpenSockets' /\ OneSocketPerBrowser'
    <3>1. CASE Open(s)
      BY <1>19, <3>1, Undisturbed DEF Connections, TypeOK, RenewUnanswered
    <3>2. CASE ~Open(s)
      BY <1>19, <3>2, DropForgetsClosed DEF Connections, TypeOK, RenewUnanswered
    <3> QED BY <3>1, <3>2
  <2> QED BY <1>19, <2>1, NoneAdmittedKeepsCutOff DEF RenewUnanswered
<1>20. ASSUME NEW s \in Sockets, RenewDone(s) PROVE Kept
  <2>1. NoneAdmitted /\ SessionsCoverOpenSockets' /\ OneSocketPerBrowser'
    <3>1. CASE Open(s)
      BY <1>20, <3>1, Undisturbed DEF Connections, TypeOK, RenewDone
    <3>2. CASE ~Open(s)
      BY <1>20, <3>2, DropForgetsClosed DEF Connections, TypeOK, RenewDone
    <3> QED BY <3>1, <3>2
  <2> QED BY <1>20, <2>1, NoneAdmittedKeepsCutOff DEF RenewDone
<1>21. ASSUME NEW b \in Browsers, RevokeRows(b) PROVE Kept
  <2>1. NoneAdmitted
    BY <1>21 DEF Connections, TypeOK, NoneAdmitted, Closing, Open, RevokeRows
  <2> QED
    BY <1>21, <2>1, NoneAdmittedInPlace, NoneAdmittedKeepsCutOff DEF RevokeRows
<1>22. ASSUME NEW b \in Browsers, RevokeApply(b) PROVE Kept
  <2> DEFINE own == {s \in sessions \cap authed : PeerOf[s] = b}
  <2>1. /\ NoneAdmitted
        /\ SessionsCoverOpenSockets' /\ OneSocketPerBrowser'
        /\ \A s \in Sockets : s \in own => ~Open(s)'
    BY <1>22, DropForgetsClosed DEF Connections, TypeOK, RevokeApply
  <2>2. RevokedCutOff'
    <3> SUFFICES ASSUME NEW s \in authed', Open(s)' PROVE PeerOf[s] \notin revokedDevices'
      BY DEF RevokedCutOff
    <3>1. s \in authed /\ s \in Sockets
      BY <1>22 DEF RevokeApply, Connections, TypeOK
    <3>2. Open(s) /\ s \notin own
      BY <2>1, <3>1 DEF NoneAdmitted
    <3>3. PeerOf[s] # b
      BY <3>1, <3>2 DEF Connections, SessionsCoverOpenSockets
    <3>4. PeerOf[s] \notin revokedDevices
      BY <3>1, <3>2 DEF Connections, RevokedCutOff
    <3> QED BY <1>22, <3>3, <3>4 DEF RevokeApply
  <2> QED BY <2>1, <2>2
<1>23. ASSUME NEW b \in Browsers, RevokeConfirm(b) PROVE Kept
  <2>1. NoneAdmitted
    BY <1>23 DEF Connections, TypeOK, NoneAdmitted, Closing, Open, RevokeConfirm
  <2> QED
    BY <1>23, <2>1, NoneAdmittedInPlace, NoneAdmittedKeepsCutOff DEF RevokeConfirm
<1>24. ASSUME NEW b \in Browsers, LiftPairing(b) PROVE Kept
  <2>1. NoneAdmitted
    BY <1>24 DEF Connections, TypeOK, NoneAdmitted, Closing, Open, LiftPairing
  <2> QED
    BY <1>24, <2>1, NoneAdmittedInPlace, NoneAdmittedKeepsCutOff DEF LiftPairing
<1>25. ASSUME NEW b \in Browsers, RestoreApply(b) PROVE Kept
  <2>1. NoneAdmitted
    BY <1>25 DEF Connections, TypeOK, NoneAdmitted, Closing, Open, RestoreApply
  <2> QED
    BY <1>25, <2>1, NoneAdmittedInPlace, NoneAdmittedKeepsCutOff DEF RestoreApply
<1>26. ASSUME NEW silent \in BOOLEAN, Alarm(silent) PROVE Kept
  <2>1. PICK dropped \in SUBSET (Sockets \cup {NoSocket}) :
          ready' = Closing(dropped) /\ Forget(dropped)
    BY <1>26 DEF Connections, TypeOK, Alarm, AuthedClients
  <2>2. /\ NoneAdmitted
        /\ \A t \in Sockets : t \in dropped => ~Open(t)'
    BY <1>26, <2>1 DEF Connections, TypeOK, NoneAdmitted, Alarm, Closing, Open
  <2>3. SessionsCoverOpenSockets' /\ OneSocketPerBrowser'
    BY <2>1, <2>2, ForgetClosed
  <2> QED BY <1>26, <2>2, <2>3, NoneAdmittedKeepsCutOff DEF Alarm
<1>27. ASSUME NEW a \in Accounts, Link(a) PROVE Kept
  <2>1. NoneAdmitted
    BY <1>27 DEF Connections, TypeOK, NoneAdmitted, Closing, Open, Link
  <2> QED
    BY <1>27, <2>1, NoneAdmittedInPlace, NoneAdmittedKeepsCutOff DEF Link
<1>28. ASSUME Hibernate PROVE Kept
  <2> DEFINE clients == {s \in Sockets : Open(s) /\ s \in authed /\ IsClient(s)}
             closed  == {s \in clients : PeerOf[s] \in revokedDevices \/ deadline[s] = "over"}
             of(b)   == {s \in clients \ closed : PeerOf[s] = b}
  <2>1. /\ ready' = Closing(closed)
        /\ sessions' = {s \in Sockets : Open(s)} \ closed
        /\ \A b \in Browsers : of(b) # {} => clientSockets'[b] \in of(b)
        /\ authed' = authed /\ revokedDevices' = revokedDevices
    BY <1>28 DEF Hibernate
  <2>2. \A s \in Sockets : Open(s)' <=> Open(s) /\ s \notin closed
    BY <2>1 DEF Closing, Open
  <2>3. NoneAdmitted /\ SessionsCoverOpenSockets'
    BY <2>1, <2>2 DEF Connections, TypeOK, NoneAdmitted, SessionsCoverOpenSockets
  <2>4. OneSocketPerBrowser'
    <3> SUFFICES ASSUME NEW s \in authed', Open(s)', IsClient(s)
                 PROVE  clientSockets'[PeerOf[s]] = s
      BY DEF OneSocketPerBrowser, IsClient
    <3>1. s \in of(PeerOf[s]) /\ PeerOf[s] \in Browsers
      BY <2>1, <2>2 DEF Connections, TypeOK, IsClient
    <3>2. \A t \in of(PeerOf[s]) : t = s
      BY <3>1 DEF Connections, OneSocketPerBrowser
    <3> QED BY <2>1, <3>1, <3>2
  <2> QED BY <2>1, <2>3, <2>4, NoneAdmittedKeepsCutOff
<1>29. ASSUME RemovalRow PROVE Kept
  <2>1. NoneAdmitted
    BY <1>29 DEF Connections, TypeOK, NoneAdmitted, Closing, Open, RemovalRow
  <2> QED
    BY <1>29, <2>1, NoneAdmittedInPlace, NoneAdmittedKeepsCutOff DEF RemovalRow
<1>30. ASSUME RemovalRelinked PROVE Kept
  <2>1. NoneAdmitted /\ SessionsCoverOpenSockets' /\ OneSocketPerBrowser'
    BY <1>30, DropForgetsClosed, BroadcastForgetsClosed DEF Connections, TypeOK, RemovalRelinked
  <2> QED BY <1>30, <2>1, NoneAdmittedKeepsCutOff DEF RemovalRelinked
<1>31. ASSUME RemovalClear PROVE Kept
  <2>1. NoneAdmitted /\ SessionsCoverOpenSockets' /\ OneSocketPerBrowser'
    BY <1>31, DropForgetsClosed, BroadcastForgetsClosed DEF Connections, TypeOK, RemovalClear
  <2> QED BY <1>31, <2>1, NoneAdmittedKeepsCutOff DEF RemovalClear
<1>32. ASSUME RemovalNext PROVE Kept
  <2>1. NoneAdmitted /\ SessionsCoverOpenSockets' /\ OneSocketPerBrowser'
    <3>1. CASE UNCHANGED socketVars
      BY <1>32, <3>1, Undisturbed DEF Connections, TypeOK, RemovalNext
    <3>2. CASE \E h \in toClose : Drop({h}, {h})
      BY <1>32, <3>2, DropForgetsClosed DEF Connections, TypeOK, RemovalNext
    <3> QED BY <1>32, <3>1, <3>2 DEF RemovalNext
  <2> QED BY <1>32, <2>1, NoneAdmittedKeepsCutOff DEF RemovalNext
<1>33. ASSUME Unlink PROVE Kept
  <2>1. NoneAdmitted
    BY <1>33 DEF Connections, TypeOK, NoneAdmitted, Closing, Open, Unlink
  <2> QED
    BY <1>33, <2>1, NoneAdmittedInPlace, NoneAdmittedKeepsCutOff DEF Unlink
<1> QED
  BY <1>1, <1>2, <1>3, <1>4, <1>5, <1>6, <1>7, <1>8, <1>9, <1>10, <1>11, <1>12, <1>13, <1>14, <1>15, <1>16, <1>17, <1>18, <1>19, <1>20, <1>21, <1>22, <1>23, <1>24, <1>25, <1>26, <1>27, <1>28, <1>29, <1>30, <1>31, <1>32, <1>33
  DEF Next, HostAuth, ClientAuth, Renew, Access, Removal

LEMMA ConnectionsInit == Init => Connections
<1> SUFFICES ASSUME Init PROVE Connections
  OBVIOUS
<1>1. TypeOK
  <2>1. unlinks \in 0..MaxUnlinks
    BY DEF Init
  <2>2. removal \in {"idle", "clear", "hosts"} \cup Accounts
    BY DEF Init
  <2>3. SocketTypeOK
    BY DEF Init, SocketTypeOK
  <2> QED BY <2>1, <2>2, <2>3 DEF Init, TypeOK, SocketTypeOK
<1>2. StepsFitPeers /\ UnusedUnknown
  BY DEF Init, StepsFitPeers, UnusedUnknown
<1>3. SessionsCoverOpenSockets /\ OneSocketPerBrowser /\ RevokedCutOff
  BY DEF Init, SessionsCoverOpenSockets, OneSocketPerBrowser, RevokedCutOff, Open
<1> QED BY <1>1, <1>2, <1>3 DEF Connections

\* The variables keep their types.
THEOREM RelayTypeOK == Spec => []TypeOK
<1>1. Init => TypeOK
  BY ConnectionsInit DEF Connections
<1> QED BY <1>1, TypeStep, PTL DEF Spec

LEMMA RelayConnections == Spec => []Connections
BY ConnectionsInit, ConnectionsStep, PTL DEF Spec

\* However many sign-ins and renewals wait for the account service, a browser
\* on the relay's denial list holds no open authenticated socket.
THEOREM RelayCutsOffRevoked == Spec => []RevokedCutOff
<1>1. Connections => RevokedCutOff
  BY DEF Connections
<1> QED BY <1>1, RelayConnections, PTL

\* A browser has at most one open authenticated socket: the registered one.
THEOREM RelayOneSocketPerBrowser == Spec => []OneSocketPerBrowser
<1>1. Connections => OneSocketPerBrowser
  BY DEF Connections
<1> QED BY <1>1, RelayConnections, PTL

\* this.sessions never loses an open socket.
THEOREM RelaySessionsCover == Spec => []SessionsCoverOpenSockets
<1>1. Connections => SessionsCoverOpenSockets
  BY DEF Connections
<1> QED BY <1>1, RelayConnections, PTL

-----------------------------------------------------------------------------
(* What is registered.                                                      *)

Attached(s) == s \in authed /\ ready[s] \in {"open", "closing"}

\* What the object's fields name is a socket of the right device that may
\* still be open: only its close callback, which unregisters it, ends it.
Registry ==
  /\ hostSocket # NoSocket => Attached(hostSocket) /\ ~IsClient(hostSocket)
  /\ \A b \in Browsers : clientSockets[b] # NoSocket =>
       Attached(clientSockets[b]) /\ PeerOf[clientSockets[b]] = b
  /\ \A s \in Sockets : step[s] = "replacing" /\ Open(s) => s \in authed

Announced ==
  hostSocket # NoSocket /\ hostSocket' = NoSocket =>
    \A b \in Browsers :
      LET s == clientSockets'[b] IN
      s # NoSocket /\ ready'[s] = "open" => presence'[s] = "offline"

\* No socket of the two fields is new, and none ends.
LEMMA RegistryShrinks ==
  ASSUME Connections, Registry, authed \subseteq authed',
         hostSocket' \in {hostSocket, NoSocket},
         \A b \in Browsers : clientSockets'[b] \in {clientSockets[b], NoSocket},
         \A s \in Sockets : ready[s] \in {"open", "closing"} => ready'[s] \in {"open", "closing"},
         \A s \in Sockets : step'[s] = "replacing" /\ Open(s)' =>
           s \in authed' \/ (step[s] = "replacing" /\ Open(s))
  PROVE  Registry'
BY DEF Connections, TypeOK, Registry, Attached, IsClient

LEMMA ForgetLeaves ==
  ASSUME TypeOK, NEW S, Forget(S)
  PROVE  /\ hostSocket' \in {hostSocket, NoSocket}
         /\ \A b \in Browsers : clientSockets'[b] \in {clientSockets[b], NoSocket}
         /\ \A b \in Browsers : clientSockets'[b] # NoSocket => clientSockets'[b] \notin S
BY DEF Forget

LEMMA ClosingLeaves ==
  ASSUME TypeOK, NEW C
  PROVE  \A s \in Sockets :
           /\ ready[s] \in {"open", "closing"} => Closing(C)[s] \in {"open", "closing"}
           /\ Closing(C)[s] = "open" => Open(s) /\ s \notin C
BY DEF TypeOK, Closing, Open

\* The browsers that hear that the registered Mac socket is lost.
LEMMA LossIsTold ==
  ASSUME Connections, Registry, NEW S, NEW b \in Browsers, NEW s, s = clientSockets[b],
         s # NoSocket, Open(s), s \notin S \cup Overdue
  PROVE  Told(FALSE, S)[s] = "offline"
<1>1. s \in Sockets /\ s \in authed /\ PeerOf[s] = b
  BY DEF Connections, TypeOK, Registry, Attached
<1>2. b \notin revokedDevices
  BY <1>1 DEF Connections, RevokedCutOff
<1>3. s \in Listeners
  BY <1>2 DEF Listeners
<1> QED BY <1>1, <1>3 DEF Told

\* Drop announces the loss, and registers nothing.
LEMMA DropAnnounces ==
  ASSUME Connections, Registry, NEW C, NEW S, Drop(C, S), authed \subseteq authed',
         \A s \in Sockets : step'[s] = "replacing" /\ Open(s)' =>
           s \in authed' \/ (step[s] = "replacing" /\ Open(s))
  PROVE  Registry' /\ Announced
<1>1. /\ ready' = Closing(C \cup Lapsing(S)) /\ Forget(S \cup Lapsing(S))
      /\ presence' = IF hostSocket \in S THEN Told(FALSE, S) ELSE presence
  BY DEF Drop, Unregister
<1>2. TypeOK
  BY DEF Connections
<1>3. Registry'
  BY <1>1, <1>2, ForgetLeaves, ClosingLeaves, RegistryShrinks
<1>4. Announced
  <2> SUFFICES ASSUME hostSocket # NoSocket, hostSocket' = NoSocket,
                      NEW b \in Browsers, NEW s, s = clientSockets'[b],
                      s # NoSocket, ready'[s] = "open"
               PROVE  presence'[s] = "offline"
    BY DEF Announced
  <2>1. s = clientSockets[b] /\ s \notin S \cup Lapsing(S)
    BY <1>1, <1>2, ForgetLeaves
  <2>2. s \in Sockets
    BY <1>2, <2>1 DEF TypeOK
  <2>3. Open(s)
    BY <1>1, <1>2, <2>2, ClosingLeaves
  <2>4. hostSocket \in S
    <3>1. Lapsing(S) # {} => hostSocket \in S
      BY DEF Lapsing
    <3> QED BY <1>1, <3>1 DEF Forget
  <2>5. s \notin S \cup Overdue
    BY <2>1, <2>4 DEF Lapsing
  <2> QED BY <1>1, <2>1, <2>3, <2>4, <2>5, LossIsTold
<1> QED BY <1>3, <1>4

\* A step that leaves the registered Mac socket in place announces nothing.
LEMMA HostInPlace == ASSUME hostSocket' = hostSocket PROVE Announced
BY DEF Announced

LEMMA BroadcastKeepsHost ==
  ASSUME Connections, Registry, Broadcast, authed' = authed,
         \A s \in Sockets : step'[s] = "replacing" => step[s] = "replacing"
  PROVE  Registry' /\ hostSocket' = hostSocket
<1>1. TypeOK
  BY DEF Connections
<1>2. ready' = Closing(Overdue) /\ Forget(Overdue)
  BY DEF Broadcast
<1>3. \A s \in Sockets : Open(s)' => Open(s)
  BY <1>1, <1>2, ClosingLeaves DEF Open
<1>4. Registry'
  BY <1>1, <1>2, <1>3, ForgetLeaves, ClosingLeaves, RegistryShrinks
<1>5. \A s \in Overdue : IsClient(s)
  BY DEF Overdue, Listeners, Registry, IsClient
<1>6. hostSocket' = hostSocket
  BY <1>2, <1>5 DEF Forget, Registry
<1> QED BY <1>4, <1>6

\* A step of a sign-in or a renewal that drops nothing.
LEMMA SocketsInPlace ==
  ASSUME Connections, Registry, UNCHANGED <<ready, hostSocket, clientSockets>>,
         authed \subseteq authed',
         \A s \in Sockets : step'[s] = "replacing" => step[s] = "replacing"
  PROVE  Registry' /\ Announced
BY RegistryShrinks, HostInPlace DEF Connections, TypeOK, Open

\* A refusal closes the socket and leaves it in the fields until its close callback.
LEMMA RefuseKeeps ==
  ASSUME Connections, Registry, NEW s \in Sockets, Refuse(s)
  PROVE  Registry' /\ Announced
<1>1. TypeOK
  BY DEF Connections
<1>2. \A t \in Sockets : step'[t] = "replacing" /\ Open(t)' => step[t] = "replacing" /\ Open(t)
  BY <1>1, ClosingLeaves DEF Refuse, TypeOK, Open
<1>3. Registry'
  BY <1>1, <1>2, ClosingLeaves, RegistryShrinks DEF Refuse
<1> QED BY <1>3, HostInPlace DEF Refuse

\* A Mac's socket that is still open takes hostSocket.
LEMMA RegisterHostKeeps ==
  ASSUME Connections, Registry, NEW s \in Sockets, RegisterHost(s), Open(s), ~IsClient(s),
         authed \subseteq authed', s \in authed'
  PROVE  Registry' /\ Announced
<1>1. \A t \in Sockets : step'[t] = "replacing" => step[t] = "replacing"
  BY DEF RegisterHost, Connections, TypeOK
<1>2. Registry'
  <2>1. hostSocket' = s /\ Attached(s)' /\ s # NoSocket
    BY DEF RegisterHost, Attached, Open
  <2>2. \A b \in Browsers : clientSockets'[b] # NoSocket =>
          Attached(clientSockets[b])' /\ PeerOf[clientSockets'[b]] = b
    BY DEF Registry, RegisterHost, Attached
  <2>3. \A t \in Sockets : step'[t] = "replacing" /\ Open(t)' => t \in authed'
    BY <1>1 DEF Registry, RegisterHost, Open
  <2> QED BY <2>1, <2>2, <2>3 DEF Registry, IsClient
<1>3. Announced
  BY DEF Announced, RegisterHost
<1> QED BY <1>2, <1>3

LEMMA RegistryStep == Connections /\ Registry /\ [Next]_vars => Registry' /\ Announced
<1> SUFFICES ASSUME Connections, Registry, [Next]_vars PROVE Registry' /\ Announced
  OBVIOUS
<1> DEFINE Kept == Registry' /\ Announced
<1>0. TypeOK
  BY DEF Connections
<1> USE DEF authVars, socketVars
<1>1. CASE UNCHANGED vars
  BY <1>1, SocketsInPlace DEF vars
<1>2. ASSUME NEW s \in Sockets, Connect(s) PROVE Kept
  <2>1. \A t \in Sockets : ready[t] \in {"open", "closing"} => ready'[t] \in {"open", "closing"}
    BY <1>0, <1>2 DEF Connect, TypeOK
  <2>2. \A t \in Sockets : step'[t] = "replacing" /\ Open(t)' => step[t] = "replacing" /\ Open(t)
    BY <1>0, <1>2 DEF Connect, TypeOK, Open
  <2> QED BY <1>2, <2>1, <2>2, RegistryShrinks, HostInPlace DEF Connect
<1>3. ASSUME NEW s \in Sockets, LookupFails(s) PROVE Kept
  <2>1. \A t \in Sockets : step'[t] = "replacing" /\ Open(t)' => step[t] = "replacing" /\ Open(t)
    BY <1>0, <1>3, ClosingLeaves DEF LookupFails, TypeOK, Drop, Open
  <2> QED BY <1>3, <2>1, DropAnnounces DEF LookupFails
<1>4. ASSUME NEW s \in Sockets, HostRow(s) PROVE Kept
  <2>1. CASE Refuse(s)
    BY <2>1, RefuseKeeps
  <2>2. CASE step' = [step EXCEPT ![s] = "hostFound"] /\ UNCHANGED <<socketVars, authed>>
    BY <1>0, <2>2, SocketsInPlace DEF TypeOK
  <2> QED BY <1>4, <2>1, <2>2 DEF HostRow
<1>5. ASSUME NEW s \in Sockets, HostFound(s) PROVE Kept
  <2>0. ~IsClient(s)
    BY <1>5 DEF Connections, StepsFitPeers, HostFound
  <2>1. CASE ~Open(s)
    <3>1. \A t \in Sockets : step'[t] = "replacing" => step[t] = "replacing"
      BY <1>0, <1>5, <2>1 DEF HostFound, TypeOK
    <3>2. \A t \in Sockets : Open(t)' => Open(t)
      BY <1>0, <1>5, <2>1, ClosingLeaves DEF HostFound, Drop, Open
    <3> QED BY <1>5, <2>1, <3>1, <3>2, DropAnnounces DEF HostFound
  <2>2. CASE Open(s) /\ hostSocket # NoSocket
    <3>1. \A t \in Sockets : Open(t)' => Open(t)
      BY <1>0, <1>5, <2>2, ClosingLeaves DEF HostFound, Drop, Open
    <3>2. authed' = authed \cup {s} /\ step' = [step EXCEPT ![s] = "replacing"]
      BY <1>5, <2>2 DEF HostFound
    <3>3. \A t \in Sockets : step'[t] = "replacing" /\ Open(t)' =>
            t \in authed' \/ (step[t] = "replacing" /\ Open(t))
      BY <1>0, <3>1, <3>2 DEF TypeOK
    <3> QED BY <1>5, <2>2, <3>2, <3>3, DropAnnounces DEF HostFound
  <2>3. CASE Open(s) /\ hostSocket = NoSocket
    BY <1>5, <2>0, <2>3, RegisterHostKeeps DEF HostFound
  <2> QED BY <2>1, <2>2, <2>3
<1>6. ASSUME NEW s \in Sockets, HostReplaced(s) PROVE Kept
  <2>0. ~IsClient(s)
    BY <1>6 DEF Connections, StepsFitPeers, HostReplaced
  <2>1. CASE Open(s)
    <3>1. s \in authed
      BY <1>6, <2>1 DEF Registry, HostReplaced
    <3> QED BY <1>6, <2>0, <2>1, <3>1, RegisterHostKeeps DEF HostReplaced
  <2>2. CASE ~Open(s)
    <3>1. \A t \in Sockets : step'[t] = "replacing" => step[t] = "replacing"
      BY <1>0, <1>6, <2>2 DEF HostReplaced, TypeOK
    <3>2. \A t \in Sockets : Open(t)' => Open(t)
      BY <1>0, <1>6, <2>2, ClosingLeaves DEF HostReplaced, Drop, Open
    <3> QED BY <1>6, <2>2, <3>1, <3>2, DropAnnounces DEF HostReplaced
  <2> QED BY <2>1, <2>2
<1>7. ASSUME NEW s \in Sockets, HostReady(s) PROVE Kept
  <2>1. authed' = authed /\ \A t \in Sockets : step'[t] = "replacing" => step[t] = "replacing"
    BY <1>0, <1>7 DEF HostReady, TypeOK
  <2>2. CASE Open(s)
    BY <1>7, <2>1, <2>2, BroadcastKeepsHost, HostInPlace DEF HostReady
  <2>3. CASE ~Open(s)
    <3>1. \A t \in Sockets : Open(t)' => Open(t)
      BY <1>0, <1>7, <2>3, ClosingLeaves DEF HostReady, Drop, Open
    <3> QED BY <1>7, <2>1, <2>3, <3>1, DropAnnounces DEF HostReady
  <2> QED BY <2>2, <2>3
<1>8. ASSUME NEW s \in Sockets, ClientRows(s) PROVE Kept
  <2>1. CASE Refuse(s)
    BY <2>1, RefuseKeeps
  <2>2. CASE step' = [step EXCEPT ![s] = "pairing"] /\ UNCHANGED <<socketVars, authed>>
    BY <1>0, <2>2, SocketsInPlace DEF TypeOK
  <2> QED BY <1>8, <2>1, <2>2 DEF ClientRows
<1>9. ASSUME NEW s \in Sockets, ClientPairing(s) PROVE Kept
  <2>1. CASE Refuse(s)
    BY <2>1, RefuseKeeps
  <2>2. CASE step' = [step EXCEPT ![s] = "active"] /\ UNCHANGED <<socketVars, authed>>
    BY <1>0, <2>2, SocketsInPlace DEF TypeOK
  <2> QED BY <1>9, <2>1, <2>2 DEF ClientPairing
<1>10. ASSUME NEW s \in Sockets, ClientReady(s) PROVE Kept
  <2>0. \A t \in Sockets : step'[t] = "replacing" => step[t] = "replacing"
    BY <1>0, <1>10 DEF ClientReady, TypeOK
  <2>1. CASE PeerOf[s] \in revokedDevices \/ ~Open(s)
    <3>1. \A t \in Sockets : Open(t)' => Open(t)
      BY <1>0, <1>10, <2>1, ClosingLeaves DEF ClientReady, Drop, Open
    <3> QED BY <1>10, <2>0, <2>1, <3>1, DropAnnounces DEF ClientReady
  <2>2. CASE PeerOf[s] \notin revokedDevices /\ Open(s)
    <3> DEFINE previous == {clientSockets[PeerOf[s]]} \ {NoSocket}
    <3>1. /\ RegisterClient(s) /\ hostSocket' = hostSocket /\ authed' = authed \cup {s}
          /\ ready' = Closing(previous)
          /\ clientSockets' = [clientSockets EXCEPT ![PeerOf[s]] = s]
      BY <1>10, <2>2 DEF ClientReady, RegisterClient
    <3>2. \A t \in Sockets : /\ ready[t] \in {"open", "closing"} => ready'[t] \in {"open", "closing"}
                             /\ Open(t)' => Open(t)
      BY <1>0, <3>1, ClosingLeaves DEF Open
    <3>3. s # NoSocket /\ Attached(s)'
      <4>1. clientSockets[PeerOf[s]] # s => s \notin previous
        OBVIOUS
      <4> QED BY <2>2, <3>1, <3>2 DEF Attached, Open
    <3>4. hostSocket' # NoSocket => Attached(hostSocket)' /\ ~IsClient(hostSocket)'
      BY <1>0, <3>1, <3>2 DEF Registry, Attached, TypeOK, IsClient
    <3>5. ASSUME NEW b \in Browsers, clientSockets'[b] # NoSocket
          PROVE  Attached(clientSockets[b])' /\ PeerOf[clientSockets'[b]] = b
      <4>1. CASE b = PeerOf[s]
        <5>1. clientSockets'[b] = s
          BY <1>0, <3>1, <4>1 DEF TypeOK
        <5> QED BY <3>3, <4>1, <5>1 DEF Attached
      <4>2. CASE b # PeerOf[s]
        <5>1. clientSockets'[b] = clientSockets[b]
          BY <1>0, <3>1, <4>2 DEF TypeOK
        <5>2. Attached(clientSockets[b]) /\ PeerOf[clientSockets[b]] = b
          BY <3>5, <5>1 DEF Registry
        <5>3. clientSockets[b] \in Sockets
          BY <1>0, <3>5, <5>1 DEF TypeOK
        <5>4. /\ clientSockets[b] \in authed
              /\ ready[clientSockets[b]] \in {"open", "closing"}
          BY <5>2 DEF Attached
        <5>5. /\ clientSockets[b] \in authed'
              /\ ready'[clientSockets[b]] \in {"open", "closing"}
          BY <3>1, <3>2, <5>3, <5>4
        <5> QED BY <5>1, <5>2, <5>5 DEF Attached
      <4> QED BY <4>1, <4>2
    <3>6. \A t \in Sockets : step'[t] = "replacing" /\ Open(t)' => t \in authed'
      BY <2>0, <3>1, <3>2 DEF Registry
    <3>7. Registry'
      BY <3>4, <3>5, <3>6 DEF Registry
    <3> QED BY <3>1, <3>7, HostInPlace
  <2> QED BY <2>1, <2>2
<1>11. ASSUME NEW s \in Sockets, PeerCloses(s) PROVE Kept
  <2>1. \A t \in Sockets : /\ ready[t] \in {"open", "closing"} => ready'[t] \in {"open", "closing"}
                           /\ Open(t)' => Open(t)
    BY <1>0, <1>11 DEF PeerCloses, TypeOK, Open
  <2> QED BY <1>0, <1>11, <2>1, RegistryShrinks, HostInPlace DEF PeerCloses, TypeOK
<1>12. ASSUME NEW s \in Sockets, CloseCallback(s) PROVE Kept
  <2> DEFINE gone == {s} \cup Lapsing({s})
  <2>1. /\ ready' = [Closing(Lapsing({s})) EXCEPT ![s] = "closed"] /\ Forget(gone)
        /\ presence' = IF hostSocket \in {s} THEN Told(FALSE, {s}) ELSE presence
        /\ authed' = authed \ {s} /\ step' = step
    BY <1>12 DEF CloseCallback, Unregister
  <2>2. Closing(Lapsing({s})) \in [Sockets -> {"unused", "open", "closing", "closed"}]
    BY <1>0, ClosingType DEF TypeOK
  <2>3. \A t \in Sockets : t # s =>
          /\ ready[t] \in {"open", "closing"} => ready'[t] \in {"open", "closing"}
          /\ Open(t)' => Open(t)
    BY <1>0, <2>1, <2>2, ClosingLeaves DEF Open
  <2>4. ~Open(s)'
    BY <2>1, <2>2 DEF Open
  <2>5. /\ hostSocket' \in {hostSocket, NoSocket}
        /\ \A b \in Browsers : /\ clientSockets'[b] \in {clientSockets[b], NoSocket}
                               /\ clientSockets'[b] # NoSocket => clientSockets'[b] \notin gone
    <3> HIDE DEF gone
    <3> QED BY <1>0, <2>1, ForgetLeaves
  <2>6. Registry'
    <3>1. hostSocket' # s
      <4>1. hostSocket' = IF hostSocket \in gone THEN NoSocket ELSE hostSocket
        BY <2>1 DEF Forget
      <4> QED BY <4>1
    <3>2. ASSUME hostSocket' # NoSocket
          PROVE  Attached(hostSocket)' /\ ~IsClient(hostSocket)'
      <4>1. hostSocket' = hostSocket /\ hostSocket # s /\ hostSocket \in Sockets
        BY <1>0, <2>5, <3>1, <3>2 DEF TypeOK
      <4>2. Attached(hostSocket) /\ ~IsClient(hostSocket)
        BY <3>2, <4>1 DEF Registry
      <4> QED BY <2>1, <2>3, <4>1, <4>2 DEF Attached, IsClient
    <3>3. ASSUME NEW b \in Browsers, clientSockets'[b] # NoSocket
          PROVE  Attached(clientSockets[b])' /\ PeerOf[clientSockets'[b]] = b
      <4>1. clientSockets'[b] = clientSockets[b] /\ clientSockets[b] # s
        BY <2>5, <3>3
      <4> QED BY <1>0, <2>1, <2>3, <3>3, <4>1 DEF Registry, Attached, TypeOK
    <3>4. \A t \in Sockets : step'[t] = "replacing" /\ Open(t)' => t \in authed'
      BY <2>1, <2>3, <2>4 DEF Registry
    <3> QED BY <3>2, <3>3, <3>4 DEF Registry
  <2>7. Announced
    <3> SUFFICES ASSUME hostSocket # NoSocket, hostSocket' = NoSocket,
                        NEW b \in Browsers, NEW t, t = clientSockets'[b],
                        t # NoSocket, ready'[t] = "open"
                 PROVE  presence'[t] = "offline"
      BY DEF Announced
    <3>1. t = clientSockets[b] /\ t \notin gone /\ t \in Sockets
      <4>1. clientSockets[b] \in Sockets \cup {NoSocket}
        BY <1>0 DEF TypeOK
      <4> QED BY <2>5, <4>1
    <3>2. Open(t)
      BY <2>3, <3>1 DEF Open
    <3>3. hostSocket = s
      BY <2>1 DEF Forget, Lapsing
    <3>4. t \notin {s} \cup Overdue
      BY <3>1, <3>3 DEF Lapsing
    <3> QED BY <2>1, <3>1, <3>2, <3>3, <3>4, LossIsTold
  <2> QED BY <2>6, <2>7
<1>13. ASSUME NEW s \in Sockets, HostPublish(s) PROVE Kept
  BY <1>13, BroadcastKeepsHost, HostInPlace DEF HostPublish
<1>14. ASSUME UNCHANGED <<step, authed>>, NEW C, NEW S, Drop(C, S) PROVE Kept
  <2>1. \A t \in Sockets : Open(t)' => Open(t)
    BY <1>0, <1>14, ClosingLeaves DEF Drop, Open
  <2> QED BY <1>14, <2>1, DropAnnounces
<1>15. ASSUME UNCHANGED <<step, authed, ready, hostSocket, clientSockets>> PROVE Kept
  BY <1>15, SocketsInPlace
<1>16. ASSUME NEW s \in Sockets, ClientCommand(s) \/ Age(s) \/ Renew(s) PROVE Kept
  BY <1>14, <1>15, <1>16
  DEF ClientCommand, Age, Renew, RenewStart, RenewRows, RenewPairing, RenewUnanswered, RenewDone,
      RenewRefused
<1>17. ASSUME NEW b \in Browsers, Access(b) PROVE Kept
  BY <1>14, <1>15, <1>17
  DEF Access, RevokeRows, RevokeApply, RevokeConfirm, LiftPairing, RestoreApply
<1>18. ASSUME Removal \/ Unlink \/ \E a \in Accounts : Link(a) PROVE Kept
  BY <1>14, <1>15, <1>18
  DEF Removal, RemovalRow, RemovalRelinked, RemovalClear, RemovalNext, Unlink, Link
<1>19. ASSUME NEW silent \in BOOLEAN, Alarm(silent) PROVE Kept
  <2> DEFINE expired == {s \in AuthedClients : deadline[s] = "over"}
             dropped == expired \cup (IF silent THEN {hostSocket} \ {NoSocket} ELSE {})
  <2>1. /\ ready' = Closing(dropped) /\ Forget(dropped)
        /\ presence' = IF silent THEN Told(FALSE, dropped) ELSE presence
        /\ authed' = authed /\ step' = step
    BY <1>19 DEF Alarm
  <2> HIDE DEF dropped
  <2>2. \A t \in Sockets : /\ ready[t] \in {"open", "closing"} => ready'[t] \in {"open", "closing"}
                           /\ Open(t)' => Open(t)
    BY <1>0, <2>1, ClosingLeaves DEF Open
  <2>3. Registry'
    BY <1>0, <2>1, <2>2, ForgetLeaves, RegistryShrinks
  <2>4. CASE silent
    <3> SUFFICES ASSUME hostSocket # NoSocket, hostSocket' = NoSocket,
                        NEW b \in Browsers, NEW t, t = clientSockets'[b],
                        t # NoSocket, ready'[t] = "open"
                 PROVE  presence'[t] = "offline"
      BY <2>3 DEF Announced
    <3>1. t = clientSockets[b] /\ t \notin dropped /\ t \in Sockets
      BY <1>0, <2>1, ForgetLeaves DEF TypeOK
    <3>2. Open(t) /\ t \in authed /\ IsClient(t)
      BY <2>2, <3>1 DEF Open, Registry, Attached, IsClient
    <3>3. t \in AuthedClients
      BY <3>1, <3>2 DEF AuthedClients, Connections, SessionsCoverOpenSockets
    <3>4. t \notin dropped \cup Overdue
      BY <3>1, <3>3 DEF dropped, Overdue
    <3> QED BY <2>1, <2>4, <3>1, <3>2, <3>4, LossIsTold
  <2>5. CASE ~silent
    <3>1. hostSocket # NoSocket => hostSocket \notin dropped
      BY <2>5 DEF dropped, AuthedClients, Registry
    <3> QED BY <2>1, <2>3, <3>1, HostInPlace DEF Forget
  <2> QED BY <2>4, <2>5
<1>20. ASSUME Hibernate PROVE Kept
  <2> DEFINE alive   == {s \in Sockets : Open(s)}
             hosts   == {s \in alive \cap authed : ~IsClient(s)}
             clients == {s \in alive \cap authed : IsClient(s)}
             closed  == {s \in clients : PeerOf[s] \in revokedDevices \/ deadline[s] = "over"}
             of(b)   == {s \in clients \ closed : PeerOf[s] = b}
  <2>1. /\ ready' = Closing(closed)
        /\ (hosts = {} /\ hostSocket' = NoSocket) \/ hostSocket' \in hosts
        /\ \A b \in Browsers : IF of(b) = {} THEN clientSockets'[b] = NoSocket
                                             ELSE clientSockets'[b] \in of(b)
        /\ authed' = authed /\ step' = step
        /\ \A s \in Sockets : step[s] \in {"none", "done"} /\ ready[s] # "closing"
    BY <1>20 DEF Hibernate, Idle
  <2>2. \A t \in Sockets : ready[t] \in {"open", "closing"} => ready'[t] \in {"open", "closing"}
    BY <1>0, <2>1, ClosingLeaves
  <2>3. Registry'
    <3>1. \A b \in Browsers : clientSockets'[b] # NoSocket => clientSockets'[b] \in of(b)
      BY <2>1
    <3>2. \A s \in hosts : s \in Sockets /\ s \in authed /\ ready[s] = "open" /\ ~IsClient(s)
      BY DEF Open
    <3>3. \A b \in Browsers : \A s \in of(b) :
            s \in Sockets /\ s \in authed /\ ready[s] = "open" /\ PeerOf[s] = b
      BY DEF Open
    <3> QED BY <2>1, <2>2, <3>1, <3>2, <3>3 DEF Registry, Attached, IsClient
  <2>4. hostSocket # NoSocket => hostSocket' # NoSocket
    <3>1. hostSocket # NoSocket => hostSocket \in hosts
      BY <1>0, <2>1 DEF Registry, Attached, Open, TypeOK
    <3>2. NoSocket \notin hosts
      OBVIOUS
    <3> HIDE DEF hosts
    <3> QED BY <2>1, <3>1, <3>2
  <2> QED BY <2>3, <2>4 DEF Announced
<1> QED
  BY <1>1, <1>2, <1>3, <1>4, <1>5, <1>6, <1>7, <1>8, <1>9, <1>10, <1>11, <1>12, <1>13,
     <1>16, <1>17, <1>18, <1>19, <1>20
  DEF Next, HostAuth, ClientAuth

LEMMA RegistryInit == Init => Registry
BY DEF Init, Registry

LEMMA RelayRegistry == Spec => [](Connections /\ Registry)
<1>1. Connections /\ Registry /\ [Next]_vars => (Connections /\ Registry)'
  BY ConnectionsStep, RegistryStep
<1> QED BY <1>1, ConnectionsInit, RegistryInit, PTL DEF Spec

\* Whichever handler unregisters the Mac's socket, every browser that stays
\* connected hears it in that step (unregisterRelaySocket).
THEOREM RelayLossIsAnnounced == Spec => LossIsAnnounced
<1>1. Connections /\ Registry /\ [Next]_vars
        => [hostSocket # NoSocket /\ hostSocket' = NoSocket =>
              \A b \in Browsers :
                LET s == clientSockets'[b] IN
                s # NoSocket /\ ready'[s] = "open" => presence'[s] = "offline"]_vars
  BY RegistryStep DEF Announced
<1> QED BY <1>1, RelayRegistry, PTL DEF Spec, LossIsAnnounced

-----------------------------------------------------------------------------
(* The Mac that was removed.                                                *)

\* A socket that connected after the Mac was unlinked: its sign-in still has to
\* ask whose the Mac is.
Fresh(s) == s \notin authed /\ step[s] \in {"hostRow", "verify"}

\* host-removed found the Mac unlinked.  Since its sweep every open socket is
\* one it has still to close or a fresh one.
Swept == \A s \in Sockets : Open(s) => s \in toClose \/ Fresh(s)

Emptied ==
  /\ verdict = "unlinked" => owner = NoAccount /\ removal \notin Accounts
  /\ removal # "hosts" => toClose = {}
  /\ verdict = "unlinked" /\ removal \in {"hosts", "idle"} => Swept
  /\ verdict = "unlinked" /\ removal = "idle" => ~cached

\* A step that lets no socket in, while the Mac's account and the removal stay.
LEMMA EmptiedStays ==
  ASSUME Connections, Emptied, UNCHANGED <<removal, toClose, verdict, owner>>,
         cached' = cached \/ \E s \in Sockets : s \in authed /\ Open(s),
         \A s \in Sockets : Open(s)' => (Open(s) /\ (Fresh(s) => Fresh(s)')) \/ Fresh(s)'
  PROVE  Emptied'
<1>1. Swept => Swept'
  BY DEF Swept
<1>2. ASSUME verdict = "unlinked", removal = "idle"
      PROVE  cached' = cached
  BY <1>2 DEF Emptied, Swept, Fresh
<1> QED BY <1>1, <1>2 DEF Emptied

LEMMA DropOpensNone ==
  ASSUME TypeOK, NEW C, NEW S, Drop(C, S)
  PROVE  \A s \in Sockets : Open(s)' => Open(s) /\ s \notin C
BY ClosingLeaves DEF Drop, Open

LEMMA RefuseOpensNone ==
  ASSUME TypeOK, NEW s \in Sockets, Refuse(s)
  PROVE  /\ \A t \in Sockets : Open(t)' => Open(t) /\ t # s
         /\ \A t \in Sockets : t # s => step'[t] = step[t]
         /\ authed' = authed
BY ClosingLeaves DEF TypeOK, Refuse, Open

\* While host-removed's verdict stands, no sign-in that is past its first
\* question is open, save that of a Mac's socket about to be closed.
LEMMA EmptiedStep == Connections /\ Emptied /\ [Next]_vars => Emptied'
<1> SUFFICES ASSUME Connections, Emptied, [Next]_vars PROVE Emptied'
  OBVIOUS
<1>0. TypeOK
  BY DEF Connections
<1> USE DEF authVars, socketVars, removalVars, ownerVars
<1>1. CASE UNCHANGED vars
  BY <1>1 DEF vars, Emptied, Swept, Fresh, Open
<1>2. ASSUME NEW s \in Sockets, Connect(s) PROVE Emptied'
  <2>1. \A t \in Sockets : t # s => ready'[t] = ready[t] /\ step'[t] = step[t]
    BY <1>0, <1>2 DEF Connect, TypeOK
  <2>2. Fresh(s)'
    BY <1>0, <1>2 DEF Connect, TypeOK, Fresh, Connections, UnusedUnknown
  <2> QED BY <1>2, <2>1, <2>2, EmptiedStays DEF Connect, Fresh, Open
<1>3. ASSUME NEW s \in Sockets, LookupFails(s) PROVE Emptied'
  <2>1. \A t \in Sockets : Open(t)' => Open(t) /\ t # s
    BY <1>0, <1>3, DropOpensNone DEF LookupFails
  <2>2. \A t \in Sockets : t # s => step'[t] = step[t]
    BY <1>0, <1>3 DEF LookupFails, TypeOK
  <2> QED BY <1>3, <2>1, <2>2, EmptiedStays DEF LookupFails, Fresh
\* A sign-in that is past its first question goes on.
<1>4. ASSUME NEW s \in Sockets, step[s] \notin {"hostRow", "verify"},
             UNCHANGED <<removalVars, owner>>, \A t \in Sockets : Open(t)' => Open(t),
             \A t \in Sockets : t # s => step'[t] = step[t], authed' \subseteq authed \cup {s}
      PROVE  Emptied'
  BY <1>4, EmptiedStays DEF Fresh
\* The first question is answered.
<1>5. ASSUME NEW s \in Sockets, HostRow(s) \/ ClientRows(s) PROVE Emptied'
  <2>1. CASE Refuse(s)
    BY <1>0, <1>5, <2>1, RefuseOpensNone, EmptiedStays DEF HostRow, ClientRows, Fresh
  <2>2. CASE owner # NoAccount
    BY <1>5, <2>2 DEF HostRow, ClientRows, Emptied
  <2>3. CASE owner = AccountOf[PeerOf[s]] /\ ClientRows(s)
    <3>1. PeerOf[s] \in Browsers
      BY <2>3 DEF ClientRows, Connections, StepsFitPeers, IsClient
    <3>2. owner # NoAccount
      BY <2>3, <3>1
    <3> QED BY <2>2, <3>2
  <2> QED BY <1>5, <2>1, <2>2, <2>3 DEF HostRow, ClientRows
<1>6. ASSUME NEW s \in Sockets, HostFound(s) \/ HostReplaced(s) \/ HostReady(s) PROVE Emptied'
  <2>1. \A t \in Sockets : Open(t)' => Open(t)
    <3>1. CASE \E C, S : Drop(C, S)
      BY <1>0, <3>1, DropOpensNone
    <3>2. CASE ready' = ready
      BY <3>2 DEF Open
    <3>3. CASE Broadcast
      BY <1>0, <3>3, ClosingLeaves DEF Broadcast, Open
    <3> QED BY <1>6, <3>1, <3>2, <3>3 DEF HostFound, HostReplaced, HostReady, RegisterHost
  <2>2. \A t \in Sockets : t # s => step'[t] = step[t]
    <3>1. PICK to \in {"done", "replacing", "touching"} : step' = [step EXCEPT ![s] = to]
      BY <1>6 DEF HostFound, HostReplaced, HostReady, RegisterHost
    <3> QED BY <1>0, <3>1 DEF TypeOK
  <2>3. authed' \subseteq authed \cup {s} /\ step[s] \notin {"hostRow", "verify"}
    BY <1>6 DEF HostFound, HostReplaced, HostReady
  <2> QED BY <1>4, <1>6, <2>1, <2>2, <2>3 DEF HostFound, HostReplaced, HostReady
<1>7. ASSUME NEW s \in Sockets, ClientPairing(s) PROVE Emptied'
  <2>1. /\ \A t \in Sockets : Open(t)' => Open(t)
        /\ \A t \in Sockets : t # s => step'[t] = step[t]
    BY <1>0, <1>7, RefuseOpensNone DEF ClientPairing, TypeOK, Open
  <2>2. authed' = authed /\ step[s] \notin {"hostRow", "verify"}
    BY <1>7 DEF ClientPairing, Refuse
  <2> QED BY <1>4, <1>7, <2>1, <2>2 DEF ClientPairing
<1>8. ASSUME NEW s \in Sockets, ClientReady(s) PROVE Emptied'
  <2>1. \A t \in Sockets : Open(t)' => Open(t)
    BY <1>0, <1>8, DropOpensNone, ClosingLeaves DEF ClientReady, RegisterClient, Open
  <2>2. \A t \in Sockets : t # s => step'[t] = step[t]
    BY <1>0, <1>8 DEF ClientReady, TypeOK
  <2>3. authed' \subseteq authed \cup {s} /\ step[s] \notin {"hostRow", "verify"}
    BY <1>8 DEF ClientReady, RegisterClient
  <2> QED BY <1>4, <1>8, <2>1, <2>2, <2>3 DEF ClientReady
\* No sign-in moves.
<1>9. ASSUME UNCHANGED <<step, removalVars, owner>>, authed' \subseteq authed,
             \A t \in Sockets : Open(t)' => Open(t)
      PROVE  Emptied'
  BY <1>9, EmptiedStays DEF Fresh
<1>10. ASSUME UNCHANGED <<step, authed, removalVars, owner>>, NEW C, NEW S, Drop(C, S)
       PROVE  Emptied'
  BY <1>0, <1>9, <1>10, DropOpensNone
<1>11. ASSUME UNCHANGED <<ready, step, authed, removalVars, owner>> PROVE Emptied'
  BY <1>9, <1>11 DEF Open
<1>12. ASSUME NEW s \in Sockets, PeerCloses(s) PROVE Emptied'
  <2>1. \A t \in Sockets : Open(t)' => Open(t)
    BY <1>0, <1>12 DEF PeerCloses, TypeOK, Open
  <2> QED BY <1>9, <1>12, <2>1 DEF PeerCloses
<1>13. ASSUME NEW s \in Sockets, CloseCallback(s) PROVE Emptied'
  <2>1. Closing(Lapsing({s})) \in [Sockets -> {"unused", "open", "closing", "closed"}]
    BY <1>0, ClosingType DEF TypeOK
  <2>2. \A t \in Sockets : Open(t)' => Open(t)
    BY <1>0, <1>13, <2>1, ClosingLeaves DEF CloseCallback, Open
  <2> QED BY <1>9, <1>13, <2>2 DEF CloseCallback
<1>14. ASSUME NEW s \in Sockets, HostPublish(s) PROVE Emptied'
  <2>1. \A t \in Sockets : Open(t)' => Open(t)
    BY <1>0, <1>14, ClosingLeaves DEF HostPublish, Broadcast, Open
  <2>2. cached' = cached \/ \E t \in Sockets : t \in authed /\ Open(t)
    BY <1>14 DEF HostPublish
  <2> QED BY <1>14, <2>1, <2>2, EmptiedStays DEF HostPublish, Fresh
<1>15. ASSUME NEW s \in Sockets, ClientCommand(s) \/ Age(s) \/ Renew(s) PROVE Emptied'
  BY <1>10, <1>11, <1>15
  DEF ClientCommand, Age, Renew, RenewStart, RenewRows, RenewPairing, RenewUnanswered, RenewDone,
      RenewRefused
<1>16. ASSUME NEW b \in Browsers, Access(b) PROVE Emptied'
  BY <1>10, <1>11, <1>16
  DEF Access, RevokeRows, RevokeApply, RevokeConfirm, LiftPairing, RestoreApply
<1>17. ASSUME NEW silent \in BOOLEAN, Alarm(silent) PROVE Emptied'
  <2>1. PICK dropped : ready' = Closing(dropped)
    BY <1>17 DEF Alarm
  <2>2. \A t \in Sockets : Open(t)' => Open(t)
    BY <1>0, <2>1, ClosingLeaves DEF Open
  <2> QED BY <1>9, <1>17, <2>2 DEF Alarm
<1>18. ASSUME Hibernate PROVE Emptied'
  <2>1. PICK closed : ready' = Closing(closed)
    BY <1>18 DEF Hibernate
  <2>2. \A t \in Sockets : Open(t)' => Open(t)
    BY <1>0, <2>1, ClosingLeaves DEF Open
  <2> QED BY <1>9, <1>18, <2>2 DEF Hibernate
<1>19. ASSUME Unlink \/ \E a \in Accounts : Link(a) PROVE Emptied'
  BY <1>19 DEF Unlink, Link, Emptied
<1>20. ASSUME RemovalRow PROVE Emptied'
  BY <1>0, <1>20 DEF RemovalRow, Emptied, TypeOK
<1>21. ASSUME RemovalRelinked PROVE Emptied'
  BY <1>0, <1>21 DEF RemovalRelinked, Emptied, TypeOK
<1>22. ASSUME RemovalClear PROVE Emptied'
  <2> DEFINE all   == {s \in Sockets : Open(s)}
             hosts == HostsAmong(all)
  <2>1. PICK now \in SUBSET hosts :
          toClose' = hosts \ now /\ Drop((all \ hosts) \cup now, (all \ hosts) \cup now)
    BY <1>22 DEF RemovalClear
  <2> HIDE DEF hosts
  <2>2. \A s \in Sockets : Open(s)' => Open(s) /\ s \notin (all \ hosts) \cup now
    BY <1>0, <2>1, DropOpensNone
  <2>3. Swept'
    BY <2>1, <2>2 DEF Swept
  <2> QED BY <1>22, <2>3 DEF RemovalClear, Emptied
<1>23. ASSUME RemovalNext PROVE Emptied'
  <2>1. CASE toClose = {} /\ removal' = "idle"
    BY <1>23, <2>1 DEF RemovalNext, Emptied, Swept, Fresh, Open
  <2>2. ASSUME NEW h \in toClose, toClose' = toClose \ {h}, Drop({h}, {h}),
               UNCHANGED <<removal, cached>>
        PROVE  Emptied'
    <3>1. \A s \in Sockets : Open(s)' => Open(s) /\ s # h
      BY <1>0, <2>2, DropOpensNone
    <3>2. Swept => Swept'
      BY <1>23, <2>2, <3>1 DEF RemovalNext, Swept, Fresh
    <3> QED BY <1>23, <2>2, <3>2 DEF RemovalNext, Emptied
  <2> QED BY <1>23, <2>1, <2>2 DEF RemovalNext
<1> QED
  BY <1>1, <1>2, <1>3, <1>5, <1>6, <1>7, <1>8, <1>12, <1>13, <1>14, <1>15, <1>16, <1>17, <1>18,
     <1>19, <1>20, <1>21, <1>22, <1>23
  DEF Next, HostAuth, ClientAuth, Removal

LEMMA EmptiedInit == Init => Emptied
BY DEF Init, Emptied

\* However its sockets sign in, close and publish while host-removed runs, a
\* removed Mac leaves no connection and no content behind (hostRemoved).
THEOREM RelayClearsRemovedMac == Spec => []RemovedMacIsCleared
<1>1. Connections /\ Emptied /\ [Next]_vars => (Connections /\ Emptied)'
  BY ConnectionsStep, EmptiedStep
<1>2. Connections /\ Emptied => RemovedMacIsCleared
  BY DEF Connections, TypeOK, Emptied, Swept, Fresh, RemovedMacIsCleared
<1> QED BY <1>1, <1>2, ConnectionsInit, EmptiedInit, PTL DEF Spec
=============================================================================
