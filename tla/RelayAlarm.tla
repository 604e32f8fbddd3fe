----------------------------- MODULE RelayAlarm -----------------------------
(***************************************************************************)
(* The one alarm of a Mac's relay (RelayHub in                              *)
(* apps/cloudflare-signal/src/index.ts).  A Durable Object has a single     *)
(* alarm; the relay uses it for four deadlines at once: a Mac that went     *)
(* silent, a browser to be asked for a new authorization, a browser whose   *)
(* authorization is over, and kept content that has expired.               *)
(*                                                                          *)
(* Handlers are single steps here (module RelayHub has their interleaving), *)
(* and time is a clock.  The platform runs an alarm when it is due.         *)
(***************************************************************************)
EXTENDS Integers, FiniteSets

CONSTANTS
  Clients,       \* browsers, one relay socket each
  Kinds,         \* keys of kept content: hello, apps, one per agent
  Ping,          \* the Mac's ping interval
  Persist,       \* RELAY_LAST_SEEN_PERSIST_INTERVAL_MS
  Silence,       \* HOST_SILENCE_CLOSE_MS
  Stale,         \* RELAY_PRESENCE_STALE_MS
  Lead,          \* RELAY_REAUTH_LEAD_MS
  Refresh,       \* RELAY_ALARM_REFRESH_MIN_INTERVAL_MS
  Authorization, \* the longest authorization, 5 min
  Poll,          \* the alarm's interval with browsers and no Mac, 5 min
  TTL,           \* CACHE_TTL_MS
  MaxBackoff,    \* the longest wait before a failed cleanup is retried, 15 min
  MaxTime,       \* bound on the clock
  MaxWakes       \* bound: times the object is rebuilt from storage

ASSUME TimesAssumption ==
  /\ {Ping, Persist, Silence, Stale, Lead, Refresh, Authorization, Poll, TTL,
      MaxBackoff} \subseteq Nat \ {0}
  /\ {MaxTime, MaxWakes} \subseteq Nat
  /\ Ping < Silence
  /\ Silence <= TTL

VARIABLES
  now,               \* Date.now()
  hostSocket,        \* whether a Mac's socket is registered
  reachable,         \* whether the registered Mac is still at the other end
  heard,             \* history: when the registered Mac last sent something
  lastHostSeenAt,    \* this.lastHostSeenAt, in memory
  persistedSeenAt,   \* relayLastHostSeenAt in storage, and lastHostSeenPersistedAt
  expires,           \* authorizationExpiresAt of each connected browser
  asked,             \* browsers with reauthRequestedAt
  stored,            \* expiresAt of each kept record
  cleanupAt,         \* this.cleanupAt
  alarmScheduledAt,  \* this.alarmScheduledAt, in memory
  alarm,             \* the object's alarm
  wakes              \* times rebuilt so far, for the bound only

hostVars  == <<hostSocket, reachable, heard, lastHostSeenAt, persistedSeenAt>>
cacheVars == <<stored, cleanupAt>>
alarmVars == <<alarmScheduledAt, alarm>>
vars == <<now, hostVars, expires, asked, cacheVars, alarmVars, wakes>>

Never == 0  \* no such time: 0, null, undefined and Infinity in the code
Time  == Nat \ {Never}

TypeOK ==
  /\ now \in Time
  /\ hostSocket \in BOOLEAN
  /\ reachable \in BOOLEAN
  /\ heard \in Nat /\ lastHostSeenAt \in Nat /\ persistedSeenAt \in Nat
  /\ expires \in [Clients -> Nat]
  /\ asked \subseteq Clients
  /\ stored \in [Kinds -> Nat]
  /\ cleanupAt \in Nat
  /\ alarmScheduledAt \in Nat
  /\ alarm \in Nat
  /\ wakes \in 0..MaxWakes

\* The clock starts late enough for every deadline to be a time.
Init ==
  /\ now = Lead + 1
  /\ hostSocket = FALSE
  /\ reachable = FALSE
  /\ heard = Never /\ lastHostSeenAt = Never /\ persistedSeenAt = Never
  /\ expires = [c \in Clients |-> Never]
  /\ asked = {}
  /\ stored = [k \in Kinds |-> Never]
  /\ cleanupAt = Never
  /\ alarmScheduledAt = Never
  /\ alarm = Never
  /\ wakes = 0

-----------------------------------------------------------------------------
(* scheduleAlarm.                                                           *)

Connected   == {c \in Clients : expires[c] # Never}
Over        == {c \in Connected : expires[c] <= now}
Remaining(S) == [c \in Clients |-> IF c \in S THEN Never ELSE expires[c]]
CloseClients(S) == expires' = Remaining(S) /\ asked' = asked \ S

Earliest(S) == {t \in S : \A u \in S : t <= u}

\* When each browser needs the alarm, given its deadline and whether it was asked.
Wanted(exp, req) ==
  [c \in Clients |-> IF exp[c] = Never \/ c \in req THEN exp[c] ELSE exp[c] - Lead]

\* Mutant: browsers' deadlines are left to the handlers that set them.
DeadlinesOfHost(at, want) ==
  ({at, cleanupAt'} \ {Never})
    \cup {lastHostSeenAt' + Silence : h \in {hostSocket'} \ {FALSE}}

\* Every deadline the object has, beside the one it is called for.
Deadlines(at, want) ==
  ({at, cleanupAt'} \cup {want[c] : c \in Clients}
                   \cup {lastHostSeenAt' + Silence : h \in {hostSocket'} \ {FALSE}})
  \ {Never}

\* An alarm set moments away from the wanted time is left where it is.
Near(t, set) == set # Never /\ t < set + Refresh /\ set < t + Refresh

\* The browsers' wishes before and after a handler closed or renewed some.
Before == Wanted(expires, asked)
After  == Wanted(expires', asked')

SetAlarm(t) == alarm' = t /\ alarmScheduledAt' = t

ForceAlarm(at, want) == \E t \in Earliest(Deadlines(at, want)) : SetAlarm(t)

ScheduleAlarm(at, want) ==
  \E t \in Earliest(Deadlines(at, want)) :
    IF Near(t, alarmScheduledAt) THEN UNCHANGED alarmVars ELSE SetAlarm(t)

-----------------------------------------------------------------------------
(* The Mac.                                                                 *)

\* handleRelayAuth of a Mac: registration, markHostSeen(true) and a broadcast.
HostConnects ==
  /\ ~hostSocket
  /\ hostSocket' = TRUE /\ reachable' = TRUE
  /\ heard' = now /\ lastHostSeenAt' = now /\ persistedSeenAt' = now
  /\ CloseClients(Over)
  /\ UNCHANGED <<now, cacheVars, wakes>>
  /\ ForceAlarm(now + Silence, Before)

\* Mutant: relay_ping answers without markHostSeen.
HostUnmarked ==
  /\ hostSocket /\ reachable
  /\ heard' = now
  /\ UNCHANGED <<now, hostSocket, reachable, lastHostSeenAt, persistedSeenAt, expires,
                 asked, cacheVars, alarmVars, wakes>>

\* markHostSeen of any message; storage is written once in a while.
MarkHostSeen ==
  /\ hostSocket /\ reachable
  /\ heard' = now /\ lastHostSeenAt' = now
  /\ persistedSeenAt' = IF now - persistedSeenAt >= Persist THEN now ELSE persistedSeenAt
  /\ UNCHANGED <<now, hostSocket, reachable, wakes>>

\* relay_ping, or a message to one browser that is kept out of the cache.
HostPing ==
  /\ MarkHostSeen
  /\ UNCHANGED <<expires, asked, cacheVars>>
  /\ ScheduleAlarm(now + Silence, Before)

Sooner(a, b) == IF a # Never /\ (b = Never \/ a <= b) THEN a ELSE b

\* A record is kept and broadcast; the broadcast closes browsers it finds over.
\* The second scheduleAlarm, for a cleanup a day away, leaves the first's alarm.
HostPublish(k) ==
  /\ MarkHostSeen
  /\ stored' = [stored EXCEPT ![k] = now + TTL]
  /\ cleanupAt' = Sooner(cleanupAt, now + TTL)
  /\ CloseClients(Over)
  /\ ScheduleAlarm(now + Silence, Before)

\* The network path is gone and nobody says so.
HostVanishes ==
  /\ hostSocket /\ reachable
  /\ reachable' = FALSE
  /\ UNCHANGED <<now, hostSocket, heard, lastHostSeenAt, persistedSeenAt,
                 expires, asked, cacheVars, alarmVars, wakes>>

\* unregisterRelaySocket of the Mac's socket, up to its broadcast.
HostUnregistered(want) ==
  /\ hostSocket' = FALSE /\ reachable' = FALSE
  /\ lastHostSeenAt' = now /\ persistedSeenAt' = now
  /\ UNCHANGED heard
  /\ ForceAlarm(now + Stale, want)

HostCloses ==
  /\ hostSocket
  /\ CloseClients(Over)
  /\ UNCHANGED <<now, cacheVars, wakes>>
  /\ HostUnregistered(Before)

-----------------------------------------------------------------------------
(* Browsers.                                                                *)

\* The deadline was set before the last lookups were answered.
ClientConnects(c) ==
  /\ expires[c] = Never
  /\ \E e \in now..(now + Authorization) : expires' = [expires EXCEPT ![c] = e]
  /\ asked' = asked \ {c}
  /\ UNCHANGED <<now, hostVars, cacheVars, wakes>>
  /\ ForceAlarm(expires'[c], After)

\* relay_reauth and its lookups; a browser already over is closed instead.
ClientRenews(c) ==
  /\ c \in Connected \cap asked
  /\ UNCHANGED <<now, hostVars, cacheVars, wakes>>
  /\ \/ /\ c \in Over
        /\ CloseClients({c})
        /\ UNCHANGED alarmVars
     \/ /\ c \notin Over
        /\ \E e \in now..(now + Authorization) : expires' = [expires EXCEPT ![c] = e]
        /\ asked' = asked \ {c}
        /\ ForceAlarm(expires'[c] - Lead, After)

ClientLeaves(c) ==
  /\ c \in Connected
  /\ CloseClients({c})
  /\ UNCHANGED <<now, hostVars, cacheVars, alarmVars, wakes>>

-----------------------------------------------------------------------------
(* The alarm.                                                               *)

Due == alarm # Never /\ alarm <= now

Fresh     == {k \in Kinds : stored[k] > now}
NextExpiry == {stored[k] : k \in Fresh}

\* cacheMaintenance deletes what has expired, or fails and is put off.
Cleanup ==
  \/ /\ stored' = [k \in Kinds |-> IF k \in Fresh THEN stored[k] ELSE Never]
     /\ IF Fresh = {} THEN cleanupAt' = Never ELSE cleanupAt' \in Earliest(NextExpiry)
  \/ /\ \E wait \in 1..MaxBackoff : cleanupAt' = now + wait
     /\ UNCHANGED stored

Silent == lastHostSeenAt # Never /\ now - lastHostSeenAt >= Silence

Alarm ==
  /\ Due
  /\ IF cleanupAt # Never /\ cleanupAt <= now THEN Cleanup ELSE UNCHANGED cacheVars
  /\ expires' = Remaining(Over)
  /\ asked' = {c \in Connected \ Over : c \in asked \/ expires[c] - now <= Lead}
  /\ UNCHANGED <<now, wakes>>
  /\ \/ /\ hostSocket /\ lastHostSeenAt # Never /\ Silent
        /\ HostUnregistered(After)
     \/ /\ hostSocket /\ ~Silent
        /\ UNCHANGED hostVars
        /\ ForceAlarm(lastHostSeenAt + Silence, After)
     \/ /\ ~hostSocket
        /\ UNCHANGED hostVars
        /\ IF Connected \ Over # {} \/ cleanupAt' # Never
           THEN ForceAlarm(now + Poll, After)
           ELSE SetAlarm(Never)

\* The object left memory and the next event builds it again: memory comes
\* from storage and attachments, browsers that are over are closed.  An alarm
\* that is the event still runs.
Wake ==
  /\ wakes < MaxWakes
  /\ wakes' = wakes + 1
  /\ lastHostSeenAt' = persistedSeenAt
  /\ CloseClients(Over)
  /\ cleanupAt' \in IF \E k \in Kinds : stored[k] # Never /\ k \notin Fresh
                    THEN {now}
                    ELSE IF Fresh = {} THEN {Never} ELSE Earliest(NextExpiry)
  /\ UNCHANGED <<now, hostSocket, reachable, heard, persistedSeenAt, stored>>
  /\ \/ cleanupAt' # Never /\ ForceAlarm(cleanupAt', After)
     \/ /\ cleanupAt' = Never \/ Due
        /\ alarmScheduledAt' = Never
        /\ UNCHANGED alarm

\* A due alarm runs before the clock goes on, and a reachable Mac pings in time.
Tick ==
  /\ now < MaxTime
  /\ ~Due
  /\ hostSocket /\ reachable => now - heard < Ping
  /\ now' = now + 1
  /\ UNCHANGED <<hostVars, expires, asked, cacheVars, alarmVars, wakes>>

Next ==
  \/ HostConnects \/ HostPing \/ HostVanishes \/ HostCloses
  \/ \E k \in Kinds : HostPublish(k)
  \/ \E c \in Clients : ClientConnects(c) \/ ClientRenews(c) \/ ClientLeaves(c)
  \/ Alarm
  \/ Wake
  \/ Tick

Spec == Init /\ [][Next]_vars

-----------------------------------------------------------------------------
\* A browser is off the relay once its authorization is over, at most one
\* skipped alarm move late (closeExpiredClient from alarm).
ExpiredClientsLeave == \A c \in Connected : now < expires[c] + Refresh

\* "Browsers are asked to renew their account token this long before the relay
\* deadline" (RELAY_REAUTH_LEAD_MS): at the latest one skipped alarm move later
\* it was asked, or the alarm that asks it is due.
ClientsAreAskedInTime ==
  \A c \in Connected \ Over :
    now + Lead >= expires[c] + Refresh => c \in asked \/ Due

\* A Mac that went silent does not stay registered past HOST_SILENCE_CLOSE_MS,
\* whatever else moved the alarm meanwhile.
SilentHostLeaves == hostSocket => now <= heard + Silence

\* Kept content that has expired is always about to be cleaned up, also after
\* failed attempts and rebuilds (cacheMaintenance, loadRelayState).
ExpiredContentIsWatched ==
  \A k \in Kinds \ Fresh :
    stored[k] # Never => alarm # Never /\ alarm < now + MaxBackoff + Refresh

\* "A host socket that stays OPEN through three missed pings has lost its
\* network path" (HOST_SILENCE_CLOSE_MS): while the object stays in memory, no
\* alarm closes a Mac that is there and pings in time.
AlarmSparesLiveHost == Alarm /\ hostSocket /\ reachable => hostSocket'
LiveHostIsKept == [][wakes = 0 => AlarmSparesLiveHost]_vars

\* The same of an object that was rebuilt from storage.
RebuiltKeepsLiveHost == [][AlarmSparesLiveHost]_vars

\* The one alarm keeps all four kinds of deadline, whatever moved it last.
DeadlinesAreKept ==
  ExpiredClientsLeave /\ ClientsAreAskedInTime /\ SilentHostLeaves /\ ExpiredContentIsWatched
=============================================================================
