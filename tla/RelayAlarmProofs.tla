-------------------------- MODULE RelayAlarmProofs --------------------------
(***************************************************************************)
(* How long things are kept.  The relay's one alarm covers all of its      *)
(* deadlines, for every choice of the intervals and any number of browsers *)
(* and records.  The copies a browser's tabs share are what their Macs     *)
(* sent, and an erased one stays erased, for any number of tabs and Macs   *)
(* (CopyInv is the inductive invariant).                                   *)
(***************************************************************************)
EXTENDS MCRelayAlarm, SequenceTheorems, TLAPS

LEMMA Times ==
  /\ Silence \in Nat /\ Stale \in Nat /\ Lead \in Nat /\ Refresh \in Nat
  /\ Authorization \in Nat /\ Poll \in Nat /\ TTL \in Nat /\ MaxBackoff \in Nat
  /\ Silence > 0 /\ Stale > 0 /\ Lead > 0 /\ Refresh > 0
  /\ Authorization > 0 /\ Poll > 0 /\ TTL > 0 /\ MaxBackoff > 0
  /\ MaxWakes \in Nat
BY TimesAssumption

\* When c needs the alarm.
Wish(c) == Wanted(expires, asked)[c]

\* Memory knows the alarm, or nothing since the object was rebuilt.
AlarmKnown == alarmScheduledAt \in {Never, alarm}

\* No deadline is before the clock's start.
Started == now > Lead /\ \A c \in Clients : expires[c] # Never => expires[c] > Lead

HostSeen == hostSocket => /\ lastHostSeenAt <= heard
                          /\ persistedSeenAt <= heard
                          /\ heard <= now

CoversClients ==
  \A c \in Clients : Wish(c) # Never => alarm # Never /\ alarm < Wish(c) + Refresh

CoversHost == hostSocket => alarm # Never /\ alarm <= heard + Silence

CoversCleanup == cleanupAt # Never => alarm # Never /\ alarm < cleanupAt + Refresh

\* Kept content has a cleanup, when it expires or one backoff away.
CleanupCovers ==
  \A k \in Kinds : stored[k] # Never =>
    /\ cleanupAt # Never
    /\ cleanupAt <= stored[k] \/ cleanupAt <= now + MaxBackoff

Cover ==
  /\ TypeOK
  /\ AlarmKnown
  /\ Started
  /\ HostSeen
  /\ CoversClients
  /\ CoversHost
  /\ CoversCleanup
  /\ CleanupCovers
  /\ ExpiredClientsLeave
  /\ SilentHostLeaves

-----------------------------------------------------------------------------
(* Setting the alarm.  The provers want the values after a step named by    *)
(* constants, so the lemmas take them as parameters.                        *)

Wishes == [Clients -> Nat]

\* A browser's wish is a time, and no later than its deadline.
LEMMA WantedType ==
  ASSUME NEW exp \in [Clients -> Nat], NEW req,
         \A c \in Clients : exp[c] # Never => exp[c] > Lead
  PROVE  /\ Wanted(exp, req) \in Wishes
         /\ \A c \in Clients : Wanted(exp, req)[c] <= exp[c]
         /\ \A c \in Clients : Wanted(exp, req)[c] = Never <=> exp[c] = Never
BY Times DEF Wanted, Wishes, Never

\* The least deadline is a time no later than any of them.
LEMMA EarliestBound ==
  ASSUME NEW at \in Nat, NEW want \in Wishes,
         NEW clean \in Nat, cleanupAt' = clean,
         NEW seen \in Nat, lastHostSeenAt' = seen,
         NEW host \in BOOLEAN, hostSocket' = host,
         NEW t \in Earliest(Deadlines(at, want))
  PROVE  /\ t \in Nat \ {Never}
         /\ clean # Never => t <= clean
         /\ host => t <= seen + Silence
         /\ \A c \in Clients : want[c] # Never => t <= want[c]
<1>1. t \in Deadlines(at, want) /\ \A u \in Deadlines(at, want) : t <= u
  BY DEF Earliest
<1>2. seen + Silence \in Nat \ {Never}
  BY Times DEF Never
<1>3. Deadlines(at, want) =
        ({at, clean} \cup {want[c] : c \in Clients}
                     \cup {seen + Silence : h \in {host} \ {FALSE}}) \ {Never}
  BY DEF Deadlines
<1>4. t \in Nat \ {Never}
  BY <1>1, <1>2, <1>3 DEF Wishes
<1>5. clean # Never => clean \in Deadlines(at, want)
  BY <1>3
<1>6. host => seen + Silence \in Deadlines(at, want)
  BY <1>2, <1>3
<1>7. \A c \in Clients : want[c] # Never => want[c] \in Deadlines(at, want)
  BY <1>3
<1> QED BY <1>1, <1>4, <1>5, <1>6, <1>7

\* The alarm a covers a cleanup and the browsers' wishes.
AlarmCovers(a, clean, want) ==
  /\ clean # Never => a < clean + Refresh
  /\ \A c \in Clients : want[c] # Never => a < want[c] + Refresh

LEMMA ForceCovers ==
  ASSUME NEW at \in Nat, NEW want \in Wishes,
         NEW clean \in Nat, cleanupAt' = clean,
         NEW seen \in Nat, lastHostSeenAt' = seen,
         NEW host \in BOOLEAN, hostSocket' = host,
         ForceAlarm(at, want)
  PROVE  \E a \in Nat \ {Never} :
           /\ alarm' = a /\ alarmScheduledAt' = a
           /\ AlarmCovers(a, clean, want)
           /\ host => a <= seen + Silence
<1>1. PICK t \in Earliest(Deadlines(at, want)) : SetAlarm(t)
  BY DEF ForceAlarm
<1>2. /\ t \in Nat \ {Never}
      /\ clean # Never => t <= clean
      /\ host => t <= seen + Silence
      /\ \A c \in Clients : want[c] # Never => t <= want[c]
  BY EarliestBound
<1>3. AlarmCovers(t, clean, want)
  BY <1>2, Times DEF AlarmCovers, Wishes
<1> QED BY <1>1, <1>2, <1>3 DEF SetAlarm

LEMMA ScheduleCovers ==
  ASSUME NEW at \in Nat, NEW want \in Wishes,
         NEW clean \in Nat, cleanupAt' = clean,
         NEW seen \in Nat, lastHostSeenAt' = seen,
         NEW host \in BOOLEAN, hostSocket' = host,
         TypeOK, AlarmKnown,
         ScheduleAlarm(at, want)
  PROVE  \E a \in Nat \ {Never} :
           /\ alarm' = a /\ alarmScheduledAt' = a
           /\ AlarmCovers(a, clean, want)
           /\ host => a <= seen + Silence \/ a = alarm
<1>1. PICK t \in Earliest(Deadlines(at, want)) :
        IF Near(t, alarmScheduledAt) THEN UNCHANGED alarmVars ELSE SetAlarm(t)
  BY DEF ScheduleAlarm
<1>2. /\ t \in Nat \ {Never}
      /\ clean # Never => t <= clean
      /\ host => t <= seen + Silence
      /\ \A c \in Clients : want[c] # Never => t <= want[c]
  BY EarliestBound
<1>3. CASE Near(t, alarmScheduledAt)
  <2>1. /\ alarm \in Nat \ {Never} /\ alarmScheduledAt = alarm
        /\ alarm < t + Refresh
    BY <1>3 DEF Near, AlarmKnown, TypeOK
  <2>2. alarm' = alarm /\ alarmScheduledAt' = alarm
    BY <1>1, <1>3, <2>1 DEF alarmVars
  <2>3. AlarmCovers(alarm, clean, want)
    BY <1>2, <2>1, Times DEF AlarmCovers, Wishes
  <2> QED BY <2>1, <2>2, <2>3
<1>4. CASE ~Near(t, alarmScheduledAt)
  <2>1. AlarmCovers(t, clean, want)
    BY <1>2, Times DEF AlarmCovers, Wishes
  <2> QED BY <1>1, <1>2, <1>4, <2>1 DEF SetAlarm
<1> QED BY <1>3, <1>4

-----------------------------------------------------------------------------
(* The invariant.                                                           *)

LEMMA CoverInit == Init => Cover
<1> SUFFICES ASSUME Init PROVE Cover
  OBVIOUS
<1> USE DEF Init, Never
<1>1. TypeOK
  <2>1. now \in Time /\ wakes \in 0..MaxWakes
    BY Times DEF Time
  <2>2. expires \in [Clients -> Nat] /\ stored \in [Kinds -> Nat]
    OBVIOUS
  <2> QED BY <2>1, <2>2 DEF TypeOK
<1>2. AlarmKnown /\ HostSeen /\ CoversHost /\ CoversCleanup /\ CleanupCovers
  BY DEF AlarmKnown, HostSeen, CoversHost, CoversCleanup, CleanupCovers
<1>3. Started
  BY Times DEF Started
<1>4. CoversClients
  BY DEF CoversClients, Wish, Wanted
<1>5. ExpiredClientsLeave /\ SilentHostLeaves
  BY DEF ExpiredClientsLeave, SilentHostLeaves, Connected
<1> QED BY <1>1, <1>2, <1>3, <1>4, <1>5 DEF Cover

\* What a handler leaves behind: the Mac's socket, when it was heard and seen,
\* the browsers, the kept content and its cleanup, and the alarm.
Leaves(host, hd, seen, kept, exp, req, st, clean, a, known) ==
  /\ now' = now /\ reachable' \in BOOLEAN /\ wakes' \in 0..MaxWakes
  /\ host \in BOOLEAN /\ hostSocket' = host
  /\ hd \in Nat /\ heard' = hd
  /\ seen \in Nat /\ lastHostSeenAt' = seen
  /\ kept \in Nat /\ persistedSeenAt' = kept
  /\ exp \in [Clients -> Nat] /\ expires' = exp
  /\ req \in SUBSET Clients /\ asked' = req
  /\ st \in [Kinds -> Nat] /\ stored' = st
  /\ clean \in Nat /\ cleanupAt' = clean
  /\ a \in Nat /\ alarm' = a
  /\ known \in {Never, a} /\ alarmScheduledAt' = known

\* The browsers left were there before, or have their deadline to come.
ClientsLeft(exp) == \A c \in Clients : exp[c] \in {Never, expires[c]} \/ exp[c] >= now

HostCovered(host, hd, seen, kept, a) ==
  host => /\ seen <= hd /\ kept <= hd /\ hd <= now /\ now <= hd + Silence
          /\ a # Never /\ a <= hd + Silence

CleanupSet(st, clean) ==
  \A k \in Kinds : st[k] # Never =>
    clean # Never /\ (clean <= st[k] \/ clean <= now + MaxBackoff)

LEMMA HandlerCovers ==
  ASSUME Cover, NEW host, NEW hd, NEW seen, NEW kept, NEW exp, NEW req, NEW st,
         NEW clean, NEW a, NEW known,
         Leaves(host, hd, seen, kept, exp, req, st, clean, a, known),
         ClientsLeft(exp),
         HostCovered(host, hd, seen, kept, a),
         AlarmCovers(a, clean, Wanted(exp, req)),
         CleanupSet(st, clean),
         a # Never \/ (clean = Never /\ \A c \in Clients : exp[c] = Never)
  PROVE  Cover'
<1> USE DEF Leaves, ClientsLeft, HostCovered, CleanupSet
<1> USE DEF Never
<1>0. now \in Nat /\ now > Lead
  BY DEF Cover, TypeOK, Time, Started
<1>1. TypeOK'
  BY DEF Cover, TypeOK
<1>2. AlarmKnown'
  BY DEF AlarmKnown
<1>3. Started'
  BY <1>0, Times DEF Cover, TypeOK, Started
<1>4. HostSeen' /\ CoversHost' /\ SilentHostLeaves'
  BY DEF HostSeen, CoversHost, SilentHostLeaves
<1>5. CoversClients'
  BY DEF CoversClients, Wish, Wanted, AlarmCovers
<1>6. CoversCleanup' /\ CleanupCovers'
  BY DEF CoversCleanup, CleanupCovers, AlarmCovers
<1>7. ExpiredClientsLeave'
  BY <1>0, Times DEF Cover, TypeOK, ExpiredClientsLeave, Connected
<1> QED BY <1>1, <1>2, <1>3, <1>4, <1>5, <1>6, <1>7 DEF Cover

LEMMA TickCovers == Cover /\ Tick => Cover'
<1> SUFFICES ASSUME Cover, Tick PROVE Cover'
  OBVIOUS
<1> USE DEF Never
<1>1. /\ now \in Nat /\ now' = now + 1 /\ ~Due
      /\ UNCHANGED <<hostSocket, reachable, heard, lastHostSeenAt, persistedSeenAt, expires,
                     asked, stored, cleanupAt, alarmScheduledAt, alarm, wakes>>
  BY DEF Tick, hostVars, cacheVars, alarmVars, Cover, TypeOK, Time
<1>2. TypeOK' /\ AlarmKnown' /\ Started' /\ HostSeen' /\ CoversHost' /\ CoversCleanup'
  BY <1>1, Times DEF Cover, TypeOK, Time, AlarmKnown, Started, HostSeen, CoversHost, CoversCleanup
<1>3. CoversClients'
  BY <1>1 DEF Cover, CoversClients, Wish, Wanted
<1>4. CleanupCovers'
  BY <1>1, Times DEF Cover, TypeOK, CleanupCovers
<1>5. ExpiredClientsLeave'
  <2> SUFFICES ASSUME NEW c \in Clients, expires[c] # Never
               PROVE  now + 1 < expires[c] + Refresh
    BY <1>1 DEF ExpiredClientsLeave, Connected
  <2>1. expires[c] \in Nat /\ alarm \in Nat /\ expires[c] > Lead
    BY DEF Cover, TypeOK, Started
  <2>2. Wish(c) \in Nat /\ Wish(c) # Never /\ Wish(c) <= expires[c]
    BY <2>1, Times DEF Wish, Wanted
  <2>3. alarm # Never /\ alarm < Wish(c) + Refresh
    BY <2>2 DEF Cover, CoversClients
  <2>4. now + 1 <= alarm
    BY <1>1, <2>1, <2>3 DEF Due
  <2> QED BY <1>1, <2>1, <2>2, <2>3, <2>4, Times
<1>6. SilentHostLeaves'
  BY <1>1, Times DEF Cover, TypeOK, CoversHost, SilentHostLeaves, Due
<1> QED BY <1>2, <1>3, <1>4, <1>5, <1>6 DEF Cover

-----------------------------------------------------------------------------
(* Each handler.                                                            *)

\* What holds of browsers before a handler, and when it closed some.
LEMMA Wishing ==
  ASSUME Cover
  PROVE  /\ Before \in Wishes
         /\ \A c \in Clients : Before[c] = Wish(c)
         /\ \A S : Remaining(S) \in [Clients -> Nat]
         /\ \A S, req : Wanted(Remaining(S), req) \in Wishes
         /\ \A S : \A c \in Clients : Remaining(S)[c] \in {Never, expires[c]}
<1>1. expires \in [Clients -> Nat] /\ \A c \in Clients : expires[c] # Never => expires[c] > Lead
  BY DEF Cover, TypeOK, Started
<1>2. \A S : /\ Remaining(S) \in [Clients -> Nat]
             /\ \A c \in Clients : Remaining(S)[c] \in {Never, expires[c]}
  BY <1>1 DEF Remaining, Never
<1>3. \A S, req : Wanted(Remaining(S), req) \in Wishes
  BY <1>1, <1>2, WantedType
<1> QED BY <1>1, <1>2, <1>3, WantedType DEF Before, Wish

\* Closing browsers only takes wishes away.
LEMMA FewerWishes ==
  ASSUME Cover, NEW S, NEW a, NEW clean, AlarmCovers(a, clean, Before)
  PROVE  AlarmCovers(a, clean, Wanted(Remaining(S), asked \ S))
BY DEF AlarmCovers, Before, Wanted, Remaining, Never

\* What the invariant says of the values before a handler.
LEMMA Standing ==
  ASSUME Cover
  PROVE  /\ now \in Nat \ {Never} /\ now \in Nat /\ now > Lead
         /\ hostSocket \in BOOLEAN /\ reachable \in BOOLEAN
         /\ heard \in Nat /\ lastHostSeenAt \in Nat /\ persistedSeenAt \in Nat
         /\ cleanupAt \in Nat /\ alarm \in Nat /\ alarmScheduledAt \in {Never, alarm}
         /\ expires \in [Clients -> Nat] /\ asked \in SUBSET Clients
         /\ stored \in [Kinds -> Nat] /\ wakes \in 0..MaxWakes
         /\ HostCovered(hostSocket, heard, lastHostSeenAt, persistedSeenAt, alarm)
         /\ AlarmCovers(alarm, cleanupAt, Before)
         /\ CleanupSet(stored, cleanupAt)
         /\ ClientsLeft(expires)
         /\ \A S : ClientsLeft(Remaining(S))
         /\ cleanupAt # Never => alarm # Never
         /\ \A c \in Clients : expires[c] # Never => alarm # Never
<1>1. TypeOK /\ AlarmKnown /\ Started
  BY DEF Cover
<1>2. HostCovered(hostSocket, heard, lastHostSeenAt, persistedSeenAt, alarm)
  BY DEF Cover, HostSeen, CoversHost, SilentHostLeaves, HostCovered
<1>3. AlarmCovers(alarm, cleanupAt, Before) /\ (cleanupAt # Never => alarm # Never)
  BY Wishing DEF Cover, CoversClients, CoversCleanup, AlarmCovers
<1>4. CleanupSet(stored, cleanupAt)
  BY DEF Cover, CleanupCovers, CleanupSet
<1>5. ClientsLeft(expires) /\ \A S : ClientsLeft(Remaining(S))
  BY Wishing DEF ClientsLeft
<1>6. \A c \in Clients : expires[c] # Never => alarm # Never
  <2>1. \A c \in Clients : expires[c] # Never => Wish(c) # Never
    BY <1>1, WantedType DEF Wish, TypeOK, Started
  <2> QED BY <2>1 DEF Cover, CoversClients
<1> QED BY <1>1, <1>2, <1>3, <1>4, <1>5, <1>6 DEF TypeOK, AlarmKnown, Started, Time

LEMMA HostConnectsCovers == Cover /\ HostConnects => Cover'
<1> SUFFICES ASSUME Cover, HostConnects PROVE Cover'
  OBVIOUS
<1>1. PICK a \in Nat \ {Never} :
        /\ alarm' = a /\ alarmScheduledAt' = a
        /\ AlarmCovers(a, cleanupAt, Before)
        /\ TRUE => a <= now + Silence
  <2>1. now + Silence \in Nat /\ now \in Nat /\ cleanupAt \in Nat
    BY Standing, Times
  <2>2. /\ hostSocket' = TRUE /\ lastHostSeenAt' = now /\ cleanupAt' = cleanupAt
        /\ ForceAlarm(now + Silence, Before)
    BY DEF HostConnects, cacheVars
  <2>3. TRUE \in BOOLEAN /\ Before \in Wishes
    BY Wishing
  <2> QED BY <2>1, <2>2, <2>3, ForceCovers, Zenon
<1>2. AlarmCovers(a, cleanupAt, Wanted(Remaining(Over), asked \ Over))
  BY <1>1, FewerWishes
<1>3. Leaves(TRUE, now, now, now, Remaining(Over), asked \ Over, stored, cleanupAt, a, a)
  BY <1>1, Standing, Wishing DEF Leaves, HostConnects, CloseClients, cacheVars
<1>4. HostCovered(TRUE, now, now, now, a)
  BY <1>1, Standing, Times DEF HostCovered
<1> QED BY <1>1, <1>2, <1>3, <1>4, Standing, HandlerCovers

\* The Mac is seen, and the alarm kept or moved for it.
LEMMA SeenCovers ==
  ASSUME Cover, MarkHostSeen, NEW clean \in Nat, cleanupAt' = clean,
         ScheduleAlarm(now + Silence, Before)
  PROVE  /\ hostSocket
         /\ \E a \in Nat \ {Never}, kept \in Nat :
              /\ alarm' = a /\ alarmScheduledAt' = a /\ persistedSeenAt' = kept
              /\ AlarmCovers(a, clean, Before)
              /\ HostCovered(TRUE, now, now, kept, a)
<1>1. hostSocket /\ hostSocket' = TRUE /\ lastHostSeenAt' = now
  BY Standing DEF MarkHostSeen
<1>2. PICK a \in Nat \ {Never} :
        /\ alarm' = a /\ alarmScheduledAt' = a
        /\ AlarmCovers(a, clean, Before)
        /\ TRUE => a <= now + Silence \/ a = alarm
  <2>1. now + Silence \in Nat /\ now \in Nat /\ clean \in Nat
    BY Standing, Times
  <2>2. TRUE \in BOOLEAN /\ Before \in Wishes /\ TypeOK /\ AlarmKnown
    BY Wishing DEF Cover
  <2> QED BY <1>1, <2>1, <2>2, ScheduleCovers, Zenon
<1> DEFINE kept == IF now - persistedSeenAt >= Persist THEN now ELSE persistedSeenAt
<1>3. kept \in Nat /\ kept <= now /\ persistedSeenAt' = kept
  BY <1>1, Standing DEF MarkHostSeen, HostCovered
<1>4. a <= now + Silence
  BY <1>1, <1>2, Standing, Times DEF HostCovered
<1>5. HostCovered(TRUE, now, now, kept, a)
  BY <1>2, <1>3, <1>4, Standing, Times DEF HostCovered
<1> HIDE DEF kept
<1> QED BY <1>1, <1>2, <1>3, <1>5

LEMMA HostPingCovers == Cover /\ HostPing => Cover'
<1> SUFFICES ASSUME Cover, HostPing PROVE Cover'
  OBVIOUS
<1>1. cleanupAt \in Nat /\ cleanupAt' = cleanupAt
  BY Standing DEF HostPing, cacheVars
<1>2. PICK a \in Nat \ {Never}, kept \in Nat :
        /\ alarm' = a /\ alarmScheduledAt' = a /\ persistedSeenAt' = kept
        /\ AlarmCovers(a, cleanupAt, Before)
        /\ HostCovered(TRUE, now, now, kept, a)
  BY <1>1, SeenCovers DEF HostPing
<1>3. Leaves(TRUE, now, now, kept, expires, asked, stored, cleanupAt, a, a)
  BY <1>2, Standing DEF Leaves, HostPing, MarkHostSeen, cacheVars
<1> QED BY <1>2, <1>3, Standing, HandlerCovers DEF Before

LEMMA HostPublishCovers ==
  ASSUME Cover, NEW k \in Kinds, HostPublish(k)
  PROVE  Cover'
<1> DEFINE clean == Sooner(cleanupAt, now + TTL)
           st    == [stored EXCEPT ![k] = now + TTL]
<1>1. clean \in Nat /\ cleanupAt' = clean /\ st \in [Kinds -> Nat] /\ stored' = st
  BY Standing, Times DEF HostPublish, Sooner
<1>2. CleanupSet(st, clean)
  BY Standing, Times DEF CleanupSet, Sooner, Never
<1> HIDE DEF clean, st
<1>3. PICK a \in Nat \ {Never}, kept \in Nat :
        /\ alarm' = a /\ alarmScheduledAt' = a /\ persistedSeenAt' = kept
        /\ AlarmCovers(a, clean, Before)
        /\ HostCovered(TRUE, now, now, kept, a)
  BY <1>1, SeenCovers DEF HostPublish
<1>4. AlarmCovers(a, clean, Wanted(Remaining(Over), asked \ Over))
  BY <1>3, FewerWishes
<1>5. Leaves(TRUE, now, now, kept, Remaining(Over), asked \ Over, st, clean, a, a)
  BY <1>1, <1>3, Standing, Wishing DEF Leaves, HostPublish, MarkHostSeen, CloseClients
<1> QED BY <1>2, <1>3, <1>4, <1>5, Standing, HandlerCovers

LEMMA HostVanishesCovers == Cover /\ HostVanishes => Cover'
<1> SUFFICES ASSUME Cover, HostVanishes PROVE Cover'
  OBVIOUS
<1>1. alarm # Never
  BY Standing DEF HostVanishes, HostCovered
<1>2. Leaves(hostSocket, heard, lastHostSeenAt, persistedSeenAt, expires, asked, stored,
             cleanupAt, alarm, alarmScheduledAt)
  BY Standing DEF Leaves, HostVanishes, cacheVars, alarmVars
<1> QED BY <1>1, <1>2, Standing, HandlerCovers DEF Before

LEMMA HostClosesCovers == Cover /\ HostCloses => Cover'
<1> SUFFICES ASSUME Cover, HostCloses PROVE Cover'
  OBVIOUS
<1>1. PICK a \in Nat \ {Never} :
        /\ alarm' = a /\ alarmScheduledAt' = a
        /\ AlarmCovers(a, cleanupAt, Before)
        /\ FALSE => a <= now + Silence
  <2>1. now + Stale \in Nat /\ now \in Nat /\ cleanupAt \in Nat
    BY Standing, Times
  <2>2. /\ hostSocket' = FALSE /\ lastHostSeenAt' = now /\ cleanupAt' = cleanupAt
        /\ ForceAlarm(now + Stale, Before)
    BY DEF HostCloses, HostUnregistered, cacheVars
  <2>3. FALSE \in BOOLEAN /\ Before \in Wishes
    BY Wishing
  <2> QED BY <2>1, <2>2, <2>3, ForceCovers, Zenon
<1>2. AlarmCovers(a, cleanupAt, Wanted(Remaining(Over), asked \ Over))
  BY <1>1, FewerWishes
<1>3. Leaves(FALSE, heard, now, now, Remaining(Over), asked \ Over, stored, cleanupAt, a, a)
  BY <1>1, Standing, Wishing
  DEF Leaves, HostCloses, HostUnregistered, CloseClients, cacheVars
<1>4. HostCovered(FALSE, heard, now, now, a)
  BY DEF HostCovered
<1> QED BY <1>1, <1>2, <1>3, <1>4, Standing, HandlerCovers

\* A browser whose deadline is new: it was set to e, and the alarm forced.
LEMMA DeadlineCovers ==
  ASSUME Cover, NEW c \in Clients, NEW e \in Nat, e >= now, NEW at \in Nat,
         expires' = [expires EXCEPT ![c] = e], asked' = asked \ {c},
         UNCHANGED <<now, hostVars, cacheVars, wakes>>,
         ForceAlarm(at, After)
  PROVE  Cover'
<1> DEFINE exp == [expires EXCEPT ![c] = e]
           req == asked \ {c}
<1>1. exp \in [Clients -> Nat] /\ expires' = exp /\ req \in SUBSET Clients /\ asked' = req
  BY Standing
<1>2. \A d \in Clients : exp[d] # Never => exp[d] > Lead
  BY Standing, Times DEF Cover, Started
<1>3. ClientsLeft(exp)
  BY Standing DEF ClientsLeft
<1> HIDE DEF exp, req
<1>4. Wanted(exp, req) \in Wishes /\ After = Wanted(exp, req)
  BY <1>1, <1>2, WantedType DEF After
<1>5. /\ now' = now /\ hostSocket' = hostSocket /\ reachable' = reachable
      /\ heard' = heard /\ lastHostSeenAt' = lastHostSeenAt
      /\ persistedSeenAt' = persistedSeenAt
      /\ stored' = stored /\ cleanupAt' = cleanupAt /\ wakes' = wakes
  BY DEF hostVars, cacheVars
<1>6. PICK a \in Nat \ {Never} :
        /\ alarm' = a /\ alarmScheduledAt' = a
        /\ AlarmCovers(a, cleanupAt, Wanted(exp, req))
        /\ hostSocket => a <= lastHostSeenAt + Silence
  <2>1. cleanupAt \in Nat /\ lastHostSeenAt \in Nat /\ hostSocket \in BOOLEAN
    BY Standing
  <2>2. ForceAlarm(at, Wanted(exp, req))
    BY <1>4
  <2> QED BY <1>4, <1>5, <2>1, <2>2, ForceCovers, Zenon
<1>7. HostCovered(hostSocket, heard, lastHostSeenAt, persistedSeenAt, a)
  BY <1>6, Standing, Times DEF HostCovered
<1>8. Leaves(hostSocket, heard, lastHostSeenAt, persistedSeenAt, exp, req, stored, cleanupAt, a, a)
  BY <1>1, <1>5, <1>6, Standing DEF Leaves
<1> QED BY <1>3, <1>6, <1>7, <1>8, Standing, HandlerCovers

LEMMA ClientConnectsCovers ==
  ASSUME Cover, NEW c \in Clients, ClientConnects(c)
  PROVE  Cover'
<1>1. PICK e \in now..(now + Authorization) : expires' = [expires EXCEPT ![c] = e]
  BY DEF ClientConnects
<1>2. e \in Nat /\ e >= now
  BY <1>1, Standing, Times
<1>3. expires'[c] = e
  BY <1>1, Standing
<1> QED BY <1>1, <1>2, <1>3, DeadlineCovers DEF ClientConnects

\* A browser closed or gone leaves the alarm as it is.
LEMMA ClientGoneCovers ==
  ASSUME Cover, NEW c \in Connected, CloseClients({c}),
         UNCHANGED <<now, hostVars, cacheVars, alarmVars, wakes>>
  PROVE  Cover'
<1>1. alarm # Never
  BY Standing DEF Connected
<1>2. AlarmCovers(alarm, cleanupAt, Wanted(Remaining({c}), asked \ {c}))
  BY Standing, FewerWishes
<1>3. Leaves(hostSocket, heard, lastHostSeenAt, persistedSeenAt, Remaining({c}), asked \ {c},
             stored, cleanupAt, alarm, alarmScheduledAt)
  BY Standing, Wishing DEF Leaves, CloseClients, hostVars, cacheVars, alarmVars
<1> QED BY <1>1, <1>2, <1>3, Standing, HandlerCovers

LEMMA ClientRenewsCovers ==
  ASSUME Cover, NEW c \in Clients, ClientRenews(c)
  PROVE  Cover'
<1>1. CASE c \in Over
  BY <1>1, ClientGoneCovers DEF ClientRenews, alarmVars, hostVars, cacheVars
<1>2. CASE c \notin Over
  <2>1. PICK e \in now..(now + Authorization) : expires' = [expires EXCEPT ![c] = e]
    BY <1>2 DEF ClientRenews
  <2>2. e \in Nat /\ e >= now /\ e - Lead \in Nat
    BY <2>1, Standing, Times
  <2>3. expires'[c] = e
    BY <2>1, Standing
  <2> QED BY <1>2, <2>1, <2>2, <2>3, DeadlineCovers DEF ClientRenews
<1> QED BY <1>1, <1>2

LEMMA ClientLeavesCovers ==
  ASSUME Cover, NEW c \in Clients, ClientLeaves(c)
  PROVE  Cover'
BY ClientGoneCovers DEF ClientLeaves

\* The next cleanup is for the first record to expire, if there is one.
LEMMA NextCleanup ==
  ASSUME Cover, NEW clean,
         IF Fresh = {} THEN clean = Never ELSE clean \in Earliest(NextExpiry)
  PROVE  /\ clean \in Nat
         /\ \A k \in Fresh : clean # Never /\ clean <= stored[k]
         /\ clean # Never => clean > now
<1>1. \A k \in Fresh : stored[k] \in Nat /\ stored[k] > now
  BY Standing DEF Fresh
<1>2. CASE Fresh = {}
  BY <1>2 DEF Never
<1>3. CASE Fresh # {}
  <2>1. clean \in NextExpiry /\ \A u \in NextExpiry : clean <= u
    BY <1>3 DEF Earliest
  <2> QED BY <1>1, <2>1, Standing DEF NextExpiry, Never
<1> QED BY <1>2, <1>3

\* After a cleanup, done or put off, what is kept has its next one.
LEMMA CleanupLeaves ==
  ASSUME Cover, Cleanup
  PROVE  \E st \in [Kinds -> Nat], clean \in Nat :
           stored' = st /\ cleanupAt' = clean /\ CleanupSet(st, clean)
<1>1. CASE /\ stored' = [k \in Kinds |-> IF k \in Fresh THEN stored[k] ELSE Never]
           /\ IF Fresh = {} THEN cleanupAt' = Never ELSE cleanupAt' \in Earliest(NextExpiry)
  <2> DEFINE st == [k \in Kinds |-> IF k \in Fresh THEN stored[k] ELSE Never]
  <2>1. PICK clean : cleanupAt' = clean
    OBVIOUS
  <2>2. IF Fresh = {} THEN clean = Never ELSE clean \in Earliest(NextExpiry)
    BY <1>1, <2>1
  <2>3. clean \in Nat /\ \A k \in Fresh : clean # Never /\ clean <= stored[k]
    BY <2>2, NextCleanup
  <2>4. st \in [Kinds -> Nat] /\ CleanupSet(st, clean)
    BY <2>3, Standing DEF CleanupSet, Never
  <2> QED BY <1>1, <2>1, <2>3, <2>4
<1>2. CASE (\E wait \in 1..MaxBackoff : cleanupAt' = now + wait) /\ UNCHANGED stored
  <2>1. PICK wait \in 1..MaxBackoff : cleanupAt' = now + wait
    BY <1>2
  <2>2. now + wait \in Nat /\ now + wait # Never /\ now + wait <= now + MaxBackoff
    BY <2>1, Standing, Times DEF Never
  <2>3. CleanupSet(stored, now + wait)
    BY <2>2 DEF CleanupSet
  <2> QED BY <1>2, <2>1, <2>2, <2>3, Standing
<1> QED BY <1>1, <1>2 DEF Cleanup

LEMMA RingingCovers == Cover /\ Alarm => Cover'
<1> SUFFICES ASSUME Cover, Alarm PROVE Cover'
  OBVIOUS
<1>1. PICK st \in [Kinds -> Nat], clean \in Nat :
        stored' = st /\ cleanupAt' = clean /\ CleanupSet(st, clean)
  <2>1. CASE Cleanup
    BY <2>1, CleanupLeaves
  <2>2. CASE UNCHANGED cacheVars
    BY <2>2, Standing DEF cacheVars
  <2> QED BY <2>1, <2>2 DEF Alarm
<1> DEFINE exp == Remaining(Over)
           req == {c \in Connected \ Over : c \in asked \/ expires[c] - now <= Lead}
<1>2. /\ now' = now /\ wakes' = wakes /\ expires' = exp /\ asked' = req
      /\ exp \in [Clients -> Nat] /\ req \in SUBSET Clients /\ ClientsLeft(exp)
  BY Standing, Wishing DEF Alarm, Connected
<1>3. Wanted(exp, req) \in Wishes /\ After = Wanted(exp, req)
  BY <1>2, Wishing DEF After
<1>4. Connected \ Over = {} => \A c \in Clients : exp[c] = Never
  BY DEF Remaining, Connected
<1> HIDE DEF exp, req
<1>5. CASE hostSocket /\ Silent /\ HostUnregistered(After)
  <2>1. now + Stale \in Nat /\ now \in Nat /\ clean \in Nat /\ FALSE \in BOOLEAN
    BY Standing, Times
  <2>2. /\ hostSocket' = FALSE /\ lastHostSeenAt' = now /\ cleanupAt' = clean
        /\ ForceAlarm(now + Stale, Wanted(exp, req))
    BY <1>1, <1>3, <1>5 DEF HostUnregistered
  <2>3. PICK a \in Nat \ {Never} :
          /\ alarm' = a /\ alarmScheduledAt' = a
          /\ AlarmCovers(a, clean, Wanted(exp, req))
          /\ FALSE => a <= now + Silence
    BY <1>3, <2>1, <2>2, ForceCovers, Zenon
  <2>4. Leaves(FALSE, heard, now, now, exp, req, st, clean, a, a)
    BY <1>1, <1>2, <1>5, <2>3, Standing DEF Leaves, HostUnregistered
  <2>5. HostCovered(FALSE, heard, now, now, a)
    BY DEF HostCovered
  <2> QED BY <1>1, <1>2, <2>3, <2>4, <2>5, HandlerCovers
<1>6. CASE hostSocket /\ ~Silent /\ UNCHANGED hostVars
           /\ ForceAlarm(lastHostSeenAt + Silence, After)
  <2>1. lastHostSeenAt + Silence \in Nat /\ lastHostSeenAt \in Nat /\ clean \in Nat
        /\ TRUE \in BOOLEAN
    BY Standing, Times
  <2>2. /\ hostSocket' = TRUE /\ lastHostSeenAt' = lastHostSeenAt /\ cleanupAt' = clean
        /\ ForceAlarm(lastHostSeenAt + Silence, Wanted(exp, req))
    BY <1>1, <1>3, <1>6, Standing DEF hostVars
  <2>3. PICK a \in Nat \ {Never} :
          /\ alarm' = a /\ alarmScheduledAt' = a
          /\ AlarmCovers(a, clean, Wanted(exp, req))
          /\ TRUE => a <= lastHostSeenAt + Silence
    BY <1>3, <2>1, <2>2, ForceCovers, Zenon
  <2>4. Leaves(TRUE, heard, lastHostSeenAt, persistedSeenAt, exp, req, st, clean, a, a)
    BY <1>1, <1>2, <1>6, <2>2, <2>3, Standing DEF Leaves, hostVars
  <2>5. HostCovered(TRUE, heard, lastHostSeenAt, persistedSeenAt, a)
    BY <1>6, <2>3, Standing, Times DEF HostCovered
  <2> QED BY <1>1, <1>2, <2>3, <2>4, <2>5, HandlerCovers
<1>7. CASE ~hostSocket /\ UNCHANGED hostVars /\ ForceAlarm(now + Poll, After)
  <2>1. now + Poll \in Nat /\ lastHostSeenAt \in Nat /\ clean \in Nat /\ FALSE \in BOOLEAN
    BY Standing, Times
  <2>2. /\ hostSocket' = FALSE /\ lastHostSeenAt' = lastHostSeenAt /\ cleanupAt' = clean
        /\ ForceAlarm(now + Poll, Wanted(exp, req))
    BY <1>1, <1>3, <1>7, Standing DEF hostVars
  <2>3. PICK a \in Nat \ {Never} :
          /\ alarm' = a /\ alarmScheduledAt' = a
          /\ AlarmCovers(a, clean, Wanted(exp, req))
          /\ FALSE => a <= lastHostSeenAt + Silence
    BY <1>3, <2>1, <2>2, ForceCovers, Zenon
  <2>4. Leaves(FALSE, heard, lastHostSeenAt, persistedSeenAt, exp, req, st, clean, a, a)
    BY <1>1, <1>2, <1>7, <2>2, <2>3, Standing DEF Leaves, hostVars
  <2>5. HostCovered(FALSE, heard, lastHostSeenAt, persistedSeenAt, a)
    BY DEF HostCovered
  <2> QED BY <1>1, <1>2, <2>3, <2>4, <2>5, HandlerCovers
<1>8. CASE /\ ~hostSocket /\ UNCHANGED hostVars
           /\ Connected \ Over = {} /\ cleanupAt' = Never
           /\ SetAlarm(Never)
  <2>1. clean = Never /\ \A c \in Clients : exp[c] = Never
    BY <1>1, <1>4, <1>8
  <2>2. AlarmCovers(Never, clean, Wanted(exp, req))
    BY <2>1 DEF AlarmCovers, Wanted
  <2>3. Leaves(FALSE, heard, lastHostSeenAt, persistedSeenAt, exp, req, st, clean, Never, Never)
    BY <1>1, <1>2, <1>8, Standing DEF Leaves, hostVars, SetAlarm, Never
  <2>4. HostCovered(FALSE, heard, lastHostSeenAt, persistedSeenAt, Never)
    BY DEF HostCovered
  <2> QED BY <1>1, <1>2, <2>1, <2>2, <2>3, <2>4, HandlerCovers
<1> QED BY <1>5, <1>6, <1>7, <1>8 DEF Alarm

LEMMA WakeCovers == Cover /\ Wake => Cover'
<1> SUFFICES ASSUME Cover, Wake PROVE Cover'
  OBVIOUS
<1>1. PICK clean : cleanupAt' = clean
  OBVIOUS
<1>2. clean \in Nat /\ CleanupSet(stored, clean) /\ (clean # Never => clean >= now)
  <2>1. CASE \E k \in Kinds : stored[k] # Never /\ k \notin Fresh
    <3>1. clean = now
      BY <1>1, <2>1 DEF Wake
    <3> QED BY <3>1, Standing, Times DEF CleanupSet
  <2>2. CASE ~ \E k \in Kinds : stored[k] # Never /\ k \notin Fresh
    <3>1. IF Fresh = {} THEN clean = Never ELSE clean \in Earliest(NextExpiry)
      BY <1>1, <2>2 DEF Wake
    <3>2. /\ clean \in Nat
          /\ \A k \in Fresh : clean # Never /\ clean <= stored[k]
          /\ clean # Never => clean > now
      BY <3>1, NextCleanup
    <3> QED BY <2>2, <3>2, Standing DEF CleanupSet
  <2> QED BY <2>1, <2>2
<1>3. /\ lastHostSeenAt' = persistedSeenAt /\ hostSocket' = hostSocket /\ wakes' \in 0..MaxWakes
      /\ now' = now /\ reachable' = reachable /\ heard' = heard
      /\ persistedSeenAt' = persistedSeenAt /\ stored' = stored
      /\ expires' = Remaining(Over) /\ asked' = asked \ Over
  BY Standing, Times DEF Wake, CloseClients
<1>4. hostSocket => persistedSeenAt <= heard /\ heard <= now /\ now <= heard + Silence
  BY Standing DEF HostCovered
<1>5. CASE ForceAlarm(clean, After)
  <2>1. /\ persistedSeenAt \in Nat /\ hostSocket \in BOOLEAN
        /\ Wanted(Remaining(Over), asked \ Over) \in Wishes
    BY Standing, Wishing
  <2>2. ForceAlarm(clean, Wanted(Remaining(Over), asked \ Over))
    BY <1>3, <1>5 DEF After
  <2>3. PICK a \in Nat \ {Never} :
          /\ alarm' = a /\ alarmScheduledAt' = a
          /\ AlarmCovers(a, clean, Wanted(Remaining(Over), asked \ Over))
          /\ hostSocket => a <= persistedSeenAt + Silence
    BY <1>1, <1>2, <1>3, <2>1, <2>2, ForceCovers, Zenon
  <2>4. Leaves(hostSocket, heard, persistedSeenAt, persistedSeenAt, Remaining(Over),
               asked \ Over, stored, clean, a, a)
    BY <1>1, <1>2, <1>3, <2>3, Standing, Wishing DEF Leaves
  <2>5. HostCovered(hostSocket, heard, persistedSeenAt, persistedSeenAt, a)
    BY <1>4, <2>3, Standing, Times DEF HostCovered
  <2> QED BY <1>2, <2>3, <2>4, <2>5, Standing, HandlerCovers
<1>6. CASE (clean = Never \/ Due) /\ alarmScheduledAt' = Never /\ UNCHANGED alarm
  <2>1. AlarmCovers(alarm, cleanupAt, Wanted(Remaining(Over), asked \ Over))
    BY Standing, FewerWishes
  <2>2. clean # Never => alarm # Never /\ alarm < clean + Refresh
    BY <1>2, <1>6, Standing, Times DEF Due
  <2>3. AlarmCovers(alarm, clean, Wanted(Remaining(Over), asked \ Over))
    BY <2>1, <2>2 DEF AlarmCovers
  <2>4. Leaves(hostSocket, heard, persistedSeenAt, persistedSeenAt, Remaining(Over),
               asked \ Over, stored, clean, alarm, Never)
    BY <1>1, <1>2, <1>3, <1>6, Standing, Wishing DEF Leaves
  <2>5. HostCovered(hostSocket, heard, persistedSeenAt, persistedSeenAt, alarm)
    BY <1>4, Standing DEF HostCovered
  <2>6. alarm # Never \/ (clean = Never /\ \A c \in Clients : Remaining(Over)[c] = Never)
    BY <2>2, Standing, Wishing
  <2> QED BY <1>2, <2>3, <2>4, <2>5, <2>6, Standing, HandlerCovers
<1> QED BY <1>1, <1>5, <1>6 DEF Wake

-----------------------------------------------------------------------------
(* The theorems.                                                            *)

\* Every step keeps the invariant.
LEMMA CoverStep == Cover /\ [Next]_vars => Cover'
<1> SUFFICES ASSUME Cover, [Next]_vars PROVE Cover'
  OBVIOUS
<1>1. CASE UNCHANGED vars
  <2>1. /\ UNCHANGED <<now, hostSocket, reachable, heard, lastHostSeenAt, persistedSeenAt>>
        /\ UNCHANGED <<expires, asked, stored, cleanupAt, alarmScheduledAt, alarm, wakes>>
    BY <1>1 DEF vars, hostVars, cacheVars, alarmVars
  <2>2. Leaves(hostSocket, heard, lastHostSeenAt, persistedSeenAt, expires, asked, stored,
               cleanupAt, alarm, alarmScheduledAt)
    BY <2>1, Standing DEF Leaves
  <2>3. alarm # Never \/ (cleanupAt = Never /\ \A c \in Clients : expires[c] = Never)
    BY Standing
  <2> QED BY <2>2, <2>3, Standing, HandlerCovers DEF Before
<1>2. CASE Next
  BY <1>2, HostConnectsCovers, HostPingCovers, HostVanishesCovers, HostClosesCovers,
     HostPublishCovers, ClientConnectsCovers, ClientRenewsCovers, ClientLeavesCovers,
     RingingCovers, WakeCovers, TickCovers DEF Next
<1> QED BY <1>1, <1>2

THEOREM AlarmInvariant == Spec => []Cover
BY CoverInit, CoverStep, PTL DEF Spec

\* Types, for every choice of the intervals.
THEOREM AlarmTypeOK == Spec => []TypeOK
<1>1. Cover => TypeOK
  BY DEF Cover
<1> QED BY <1>1, AlarmInvariant, PTL

\* No browser outlives its authorization by more than one skipped alarm move.
THEOREM AlarmClosesExpired == Spec => []ExpiredClientsLeave
<1>1. Cover => ExpiredClientsLeave
  BY DEF Cover
<1> QED BY <1>1, AlarmInvariant, PTL

\* Every browser is asked to renew, Lead before its deadline.
THEOREM AlarmAsksInTime == Spec => []ClientsAreAskedInTime
<1>1. Cover => ClientsAreAskedInTime
  <2> SUFFICES ASSUME Cover, NEW c \in Clients, expires[c] # Never, c \notin asked,
                      now + Lead >= expires[c] + Refresh
               PROVE  Due
    BY DEF ClientsAreAskedInTime, Connected
  <2>1. Before[c] = expires[c] - Lead /\ expires[c] \in Nat /\ expires[c] > Lead
    BY Standing DEF Before, Wanted, Cover, Started
  <2>2. alarm < Before[c] + Refresh /\ alarm # Never
    BY <2>1, Standing, Times DEF AlarmCovers, Never
  <2> QED BY <2>1, <2>2, Standing, Times DEF Due
<1> QED BY <1>1, AlarmInvariant, PTL

\* A silent Mac does not stay registered, also after the object was rebuilt.
THEOREM AlarmClosesSilentHost == Spec => []SilentHostLeaves
<1>1. Cover => SilentHostLeaves
  BY DEF Cover
<1> QED BY <1>1, AlarmInvariant, PTL

\* Expired content never waits for a cleanup that nobody will start.
THEOREM AlarmWatchesContent == Spec => []ExpiredContentIsWatched
<1>1. Cover => ExpiredContentIsWatched
  <2> SUFFICES ASSUME Cover, NEW k \in Kinds, ~(stored[k] > now), stored[k] # Never
               PROVE  alarm # Never /\ alarm < now + MaxBackoff + Refresh
    BY DEF ExpiredContentIsWatched, Fresh
  <2>1. cleanupAt # Never /\ (cleanupAt <= stored[k] \/ cleanupAt <= now + MaxBackoff)
    BY Standing DEF CleanupSet
  <2>2. stored[k] \in Nat
    BY Standing
  <2> QED BY <2>1, <2>2, Standing, Times DEF AlarmCovers
<1> QED BY <1>1, AlarmInvariant, PTL

\* All four kinds of deadline at once.
THEOREM AlarmKeepsDeadlines == Spec => []DeadlinesAreKept
<1>1. ExpiredClientsLeave /\ ClientsAreAskedInTime /\ SilentHostLeaves
        /\ ExpiredContentIsWatched => DeadlinesAreKept
  BY DEF DeadlinesAreKept
<1> QED BY <1>1, AlarmClosesExpired, AlarmAsksInTime, AlarmClosesSilentHost,
           AlarmWatchesContent, PTL

-----------------------------------------------------------------------------
(* A Mac that pings in time, in one life of the object.                     *)

\* Until a rebuild, lastHostSeenAt is when the registered Mac last sent
\* something, and a Mac that is there did so within its ping interval.
Hearing ==
  wakes = 0 /\ hostSocket /\ reachable => lastHostSeenAt = heard /\ now - heard <= Ping

LEMMA HearingStep ==
  ASSUME TypeOK, Hearing, [Next]_vars
  PROVE  Hearing'
<1> USE DEF Hearing
<1>0. Ping \in Nat /\ Ping > 0
  BY TimesAssumption
<1>1. CASE HostConnects
  BY <1>0, <1>1 DEF HostConnects, TypeOK, Time
<1>2. CASE HostPing
  BY <1>0, <1>2 DEF HostPing, MarkHostSeen, TypeOK, Time
<1>3. CASE HostVanishes
  BY <1>3 DEF HostVanishes
<1>4. CASE HostCloses
  BY <1>4 DEF HostCloses, HostUnregistered
<1>5. ASSUME NEW k \in Kinds, HostPublish(k) PROVE Hearing'
  BY <1>0, <1>5 DEF HostPublish, MarkHostSeen, TypeOK, Time
<1>6. ASSUME NEW c \in Clients, ClientConnects(c) \/ ClientRenews(c) \/ ClientLeaves(c)
      PROVE  Hearing'
  BY <1>6 DEF ClientConnects, ClientRenews, ClientLeaves, hostVars
<1>7. CASE Alarm
  BY <1>7 DEF Alarm, HostUnregistered, hostVars
<1>8. CASE Wake
  BY <1>8 DEF Wake, TypeOK
<1>9. CASE Tick
  BY <1>0, <1>9 DEF Tick, TypeOK, Time, hostVars
<1>10. CASE UNCHANGED vars
  BY <1>10 DEF vars, hostVars
<1> QED BY <1>1, <1>2, <1>3, <1>4, <1>5, <1>6, <1>7, <1>8, <1>9, <1>10 DEF Next

\* An alarm closes a Mac only after Silence, which is longer than Ping.
LEMMA AlarmListens ==
  ASSUME TypeOK, Hearing
  PROVE  wakes = 0 => AlarmSparesLiveHost
<1> SUFFICES ASSUME wakes = 0, Alarm, hostSocket, reachable
             PROVE  hostSocket'
  BY DEF AlarmSparesLiveHost
<1>1. ~Silent
  BY TimesAssumption DEF Silent, Hearing, TypeOK, Time
<1> QED BY <1>1 DEF Alarm, hostVars

\* While the object stays in memory, a Mac that pings in time is not closed.
THEOREM AlarmKeepsLiveHost == Spec => LiveHostIsKept
<1>1. Init => Hearing
  BY DEF Init, Hearing
<1>2. TypeOK /\ Hearing /\ [Next]_vars => Hearing'
  BY HearingStep
<1>3. TypeOK /\ Hearing /\ [Next]_vars => [wakes = 0 => AlarmSparesLiveHost]_vars
  BY AlarmListens
<1> QED BY <1>1, <1>2, <1>3, AlarmTypeOK, PTL DEF Spec, LiveHostIsKept


-----------------------------------------------------------------------------
(* The offline copies (OfflineCopies, with the names MCRelayAlarm gives    *)
(* its variables and constants).                                           *)

Entries == Copies!Copy \cup {NoCopy}
Memory == [host : Hosts \cup {NoHost}, gen : Nat, rev : Nat, items : Entries]
StorageJob == [kind : {"save", "open", "clear"}, gen : Nat, rev : Nat, host : Hosts \cup {NoHost},
               items : Entries, pc : {"start", "write", "check", "read", "adopt", "erase"}]
Reuse == [gen : Nat, left : Nat, rev : Nat \cup {NoCopy}] \cup {NoCopy}

LaneTypes == lane \in [Tabs -> Seq(StorageJob)] /\ \A t \in Tabs : Len(lane[t]) <= MaxJobs

CopyTypes ==
  /\ clock \in 0 .. MaxNow /\ db \in [rev : Nat, copy : [Hosts -> Entries]]
  /\ tab \in [Tabs -> Memory] /\ LaneTypes
  /\ reuse \in [Tabs -> Reuse] /\ cleared \in [Hosts -> Nat] /\ adopted \in BOOLEAN

Jobs(t) == {lane[t][i] : i \in 1 .. Len(lane[t])}

\* Content filed under h, for its lifetime.
AsReceived(item, h) == item # NoCopy => item.host = h /\ item.expires <= item.sent + CopyTTL

\* A clear has raised the revision and has not erased yet.
Raised ==
  \E t \in Tabs : /\ lock = t /\ lane[t] # <<>> /\ lane[t][1].kind = "clear"
                  /\ lane[t][1].pc \in {"adopt", "erase"}

\* What may still be written under rev was received after the last clear that
\* erased it, or that is about to.
NewEnough(item, rev) ==
  item # NoCopy /\ rev = db.rev => item.rev >= IF Raised THEN db.rev ELSE cleared[item.host]

CopiesFit ==
  /\ \A h \in Hosts : AsReceived(db.copy[h], h)
  /\ \A h \in Hosts : cleared[h] <= db.rev
  /\ ~adopted => \A h \in Hosts : db.copy[h] # NoCopy => db.copy[h].rev >= cleared[h]

TabFits(t) ==
  /\ tab[t].rev <= db.rev /\ AsReceived(tab[t].items, tab[t].host)
  /\ ~adopted => NewEnough(tab[t].items, tab[t].rev)

\* An open of the Mac already open looks at the memory it began with.
ReuseFits(t) ==
  reuse[t] # NoCopy => /\ reuse[t].gen <= tab[t].gen
                       /\ reuse[t].gen = tab[t].gen => tab[t].host \in Hosts

\* A job that no change of memory overtook is about the Mac in memory, and
\* until an open has read, memory holds nothing.
JobFits(t, j) ==
  /\ j.gen <= tab[t].gen /\ j.rev <= db.rev
  /\ j.kind # "clear" => j.host \in Hosts
  /\ j.kind # "clear" /\ j.gen = tab[t].gen => j.host = tab[t].host
  /\ j.kind = "open" /\ j.gen = tab[t].gen => tab[t].items = NoCopy
  /\ AsReceived(j.items, j.host)
  /\ ~adopted => NewEnough(j.items, j.rev)

JobsFit == \A t \in Tabs : \A j \in Jobs(t) : JobFits(t, j)

\* Only the first job of the tab that has the lock is under way.
OneUnderWay ==
  \A t \in Tabs : \A i \in 1 .. Len(lane[t]) : lane[t][i].pc # "start" => i = 1 /\ lock = t

\* An open overtakes the jobs before it.
OpensOvertake ==
  \A t \in Tabs : \A i, k \in 1 .. Len(lane[t]) :
    i < k /\ lane[t][k].kind = "open" => lane[t][i].gen < lane[t][k].gen

Memories == \A t \in Tabs : TabFits(t) /\ ReuseFits(t)
Lanes == OneUnderWay /\ OpensOvertake
CopyInv == CopyTypes /\ CopiesFit /\ Memories /\ JobsFit /\ Lanes

-----------------------------------------------------------------------------
(* The lanes: what a step leaves in them. *)

\* A job is added at the end of t's lane.
Appends(t, j) == Len(lane[t]) < MaxJobs /\ lane' = [lane EXCEPT ![t] = Append(@, j)]

LEMMA LaneAppend ==
  ASSUME CopyTypes, Lanes, NEW t \in Tabs, NEW j \in StorageJob, Appends(t, j), lock' = lock,
         j.pc = "start", j.kind = "open" => \A i \in Jobs(t) : i.gen < j.gen
  PROVE  /\ LaneTypes' /\ Lanes' /\ (Raised' => Raised)
         /\ Jobs(t)' = Jobs(t) \cup {j} /\ \A s \in Tabs \ {t} : Jobs(s)' = Jobs(s)
<1> USE CopyAssumption DEF Appends
<1>1. lane \in [Tabs -> Seq(StorageJob)] /\ lane[t] \in Seq(StorageJob)
  BY DEF CopyTypes, LaneTypes
<1>2. lane'[t] = Append(lane[t], j) /\ \A s \in Tabs \ {t} : lane'[s] = lane[s]
  BY <1>1
<1>3. /\ Append(lane[t], j) \in Seq(StorageJob) /\ Len(Append(lane[t], j)) = Len(lane[t]) + 1
      /\ Append(lane[t], j)[Len(lane[t]) + 1] = j
      /\ \A i \in 1 .. Len(lane[t]) : Append(lane[t], j)[i] = lane[t][i]
  BY <1>1
<1>4. LaneTypes'
  <2>1. lane' \in [Tabs -> Seq(StorageJob)]
    BY <1>1, <1>3
  <2>2. ASSUME NEW s \in Tabs PROVE Len(lane'[s]) <= MaxJobs
    BY <1>1, <1>2, <1>3 DEF CopyTypes, LaneTypes
  <2> QED BY <2>1, <2>2 DEF LaneTypes
<1>5. Jobs(t)' = Jobs(t) \cup {j} /\ \A s \in Tabs \ {t} : Jobs(s)' = Jobs(s)
  <2>1. Jobs(t)' = {lane'[t][i] : i \in 1 .. Len(lane'[t])}
    BY DEF Jobs
  <2>2. Len(lane[t]) \in Nat
    BY <1>1
  <2>3. Jobs(t)' = Jobs(t) \cup {j}
    BY <1>2, <1>3, <2>1, <2>2 DEF Jobs
  <2>4. \A s \in Tabs \ {t} : Jobs(s)' = Jobs(s)
    BY <1>2 DEF Jobs
  <2> QED BY <2>3, <2>4
<1>6. OneUnderWay'
  <2> SUFFICES ASSUME NEW s \in Tabs, NEW i \in 1 .. Len(lane'[s]), lane'[s][i].pc # "start"
               PROVE  i = 1 /\ lock' = s
    BY DEF OneUnderWay
  <2>1. i \in 1 .. Len(lane[s]) /\ lane'[s][i] = lane[s][i]
    <3>1. CASE s = t
      BY <1>1, <1>2, <1>3, <3>1
    <3>2. CASE s # t
      BY <1>2, <3>2
    <3> QED BY <3>1, <3>2
  <2> QED BY <2>1 DEF Lanes, OneUnderWay
<1>7. OpensOvertake'
  <2> SUFFICES ASSUME NEW s \in Tabs, NEW i \in 1 .. Len(lane'[s]), NEW k \in 1 .. Len(lane'[s]),
                      i < k, lane'[s][k].kind = "open"
               PROVE  lane'[s][i].gen < lane'[s][k].gen
    BY DEF OpensOvertake
  <2>1. CASE s # t
    BY <1>2, <2>1 DEF Lanes, OpensOvertake
  <2>2. CASE s = t /\ k # Len(lane[t]) + 1
    <3>1. i \in 1 .. Len(lane[t]) /\ k \in 1 .. Len(lane[t])
      <4>1. Len(lane[t]) \in Nat /\ Len(lane'[s]) = Len(lane[t]) + 1
        BY <1>1, <1>2, <1>3, <2>2
      <4> QED BY <2>2, <4>1
    <3>2. lane'[t][i] = lane[t][i] /\ lane'[t][k] = lane[t][k]
      BY <1>2, <1>3, <3>1
    <3> QED BY <2>2, <3>1, <3>2 DEF Lanes, OpensOvertake
  <2>3. CASE s = t /\ k = Len(lane[t]) + 1
    <3>1. i \in 1 .. Len(lane[t])
      BY <1>1, <1>2, <1>3, <2>3
    <3>2. lane'[t][i] = lane[t][i] /\ lane'[t][k] = j /\ lane[t][i] \in Jobs(t)
      BY <1>2, <1>3, <2>3, <3>1 DEF Jobs
    <3> QED BY <2>3, <3>2
  <2> QED BY <2>1, <2>2, <2>3
<1>8. Raised' => Raised
  <2> SUFFICES ASSUME NEW s \in Tabs, lock' = s, lane'[s] # <<>>, lane'[s][1].kind = "clear",
                      lane'[s][1].pc \in {"adopt", "erase"}
               PROVE  Raised
    BY DEF Raised
  <2>1. lane[s] # <<>> /\ lane'[s][1] = lane[s][1]
    <3>1. CASE s # t
      BY <1>2, <3>1
    <3>2. CASE s = t
      <4>1. lane'[t][1].pc # "start"
        BY <3>2
      <4>2. Len(lane[t]) # 0
        BY <1>1, <1>2, <1>3, <4>1
      <4> QED BY <1>1, <1>2, <1>3, <3>2, <4>2
    <3> QED BY <3>1, <3>2
  <2> QED BY <2>1 DEF Raised
<1> QED BY <1>4, <1>5, <1>6, <1>7, <1>8 DEF Lanes

\* The first job of t's lane ends and lets go of the lock.
LEMMA LaneFinish ==
  ASSUME CopyTypes, Lanes, NEW t \in Tabs, lane[t] # <<>>, lock = t,
         lane' = [lane EXCEPT ![t] = Tail(@)], lock' = Nobody
  PROVE  /\ LaneTypes' /\ Lanes' /\ ~Raised'
         /\ \A s \in Tabs : Jobs(s)' \subseteq Jobs(s)
         /\ \A j \in Jobs(t)' : j.kind = "open" => lane[t][1].gen < j.gen
<1> USE CopyAssumption
<1>1. /\ lane \in [Tabs -> Seq(StorageJob)] /\ lane[t] \in Seq(StorageJob)
      /\ Len(lane[t]) \in Nat \ {0}
  BY DEF CopyTypes, LaneTypes
<1>2. lane'[t] = Tail(lane[t]) /\ \A s \in Tabs \ {t} : lane'[s] = lane[s]
  BY <1>1
<1>3. /\ Tail(lane[t]) \in Seq(StorageJob) /\ Len(Tail(lane[t])) = Len(lane[t]) - 1
      /\ \A i \in 1 .. Len(lane[t]) - 1 : Tail(lane[t])[i] = lane[t][i + 1]
  BY <1>1
<1>4. LaneTypes'
  <2>1. lane' \in [Tabs -> Seq(StorageJob)]
    BY <1>1, <1>3
  <2>2. ASSUME NEW s \in Tabs PROVE Len(lane'[s]) <= MaxJobs
    BY <1>1, <1>2, <1>3 DEF CopyTypes, LaneTypes
  <2> QED BY <2>1, <2>2 DEF LaneTypes
<1>5. /\ \A s \in Tabs : Jobs(s)' \subseteq Jobs(s)
      /\ \A j \in Jobs(t)' : j.kind = "open" => lane[t][1].gen < j.gen
  <2>1. \A s \in Tabs \ {t} : Jobs(s)' = Jobs(s)
    BY <1>2 DEF Jobs
  <2>2. ASSUME NEW j \in Jobs(t)'
        PROVE  j \in Jobs(t) /\ (j.kind = "open" => lane[t][1].gen < j.gen)
    <3>1. PICK i \in 1 .. Len(lane'[t]) : j = lane'[t][i]
      BY DEF Jobs
    <3>2. i + 1 \in 1 .. Len(lane[t]) /\ 1 \in 1 .. Len(lane[t]) /\ 1 < i + 1 /\ j = lane[t][i + 1]
      BY <1>1, <1>2, <1>3, <3>1
    <3> QED BY <3>2 DEF Jobs, Lanes, OpensOvertake
  <2> QED BY <2>1, <2>2
<1>6. OneUnderWay'
  <2> SUFFICES ASSUME NEW s \in Tabs, NEW i \in 1 .. Len(lane'[s]) PROVE lane'[s][i].pc = "start"
    BY DEF OneUnderWay
  <2>1. CASE s # t
    BY <1>2, <2>1 DEF Lanes, OneUnderWay
  <2>2. CASE s = t
    <3>1. i + 1 \in 1 .. Len(lane[t]) /\ i + 1 # 1 /\ lane'[t][i] = lane[t][i + 1]
      BY <1>1, <1>2, <1>3, <2>2
    <3> QED BY <2>2, <3>1 DEF Lanes, OneUnderWay
  <2> QED BY <2>1, <2>2
<1>7. OpensOvertake'
  <2> SUFFICES ASSUME NEW s \in Tabs, NEW i \in 1 .. Len(lane'[s]), NEW k \in 1 .. Len(lane'[s]),
                      i < k, lane'[s][k].kind = "open"
               PROVE  lane'[s][i].gen < lane'[s][k].gen
    BY DEF OpensOvertake
  <2>1. CASE s # t
    BY <1>2, <2>1 DEF Lanes, OpensOvertake
  <2>2. CASE s = t
    <3>1. /\ i + 1 \in 1 .. Len(lane[t]) /\ k + 1 \in 1 .. Len(lane[t]) /\ i + 1 < k + 1
          /\ lane'[t][i] = lane[t][i + 1] /\ lane'[t][k] = lane[t][k + 1]
      BY <1>1, <1>2, <1>3, <2>2
    <3> QED BY <2>2, <3>1 DEF Lanes, OpensOvertake
  <2> QED BY <2>1, <2>2
<1>8. ~Raised'
  BY DEF Raised
<1> QED BY <1>4, <1>5, <1>6, <1>7, <1>8 DEF Lanes

\* The first job of t's lane goes on: to pc.
LEMMA LaneGoto ==
  ASSUME CopyTypes, Lanes, NEW t \in Tabs, NEW pc \in {"write", "check", "read", "adopt", "erase"},
         lane[t] # <<>>, lock = t, lane' = [lane EXCEPT ![t][1].pc = pc], lock' = lock
  PROVE  /\ LaneTypes' /\ Lanes'
         /\ lane'[t] # <<>> /\ lane'[t][1] = [lane[t][1] EXCEPT !.pc = pc]
         /\ Jobs(t)' \subseteq Jobs(t) \cup {[lane[t][1] EXCEPT !.pc = pc]}
         /\ \A s \in Tabs \ {t} : Jobs(s)' = Jobs(s)
<1> USE CopyAssumption
<1> DEFINE y == [lane[t][1] EXCEPT !.pc = pc]
<1>1. /\ lane \in [Tabs -> Seq(StorageJob)] /\ lane[t] \in Seq(StorageJob)
      /\ Len(lane[t]) \in Nat \ {0} /\ lane[t][1] \in StorageJob
  BY DEF CopyTypes, LaneTypes
<1>2. y \in StorageJob /\ y.kind = lane[t][1].kind /\ y.gen = lane[t][1].gen
  BY <1>1 DEF StorageJob
<1> HIDE DEF y
<1>3. lane' = [lane EXCEPT ![t] = [lane[t] EXCEPT ![1] = y]]
  BY DEF y
<1>4. lane'[t] = [lane[t] EXCEPT ![1] = y] /\ \A s \in Tabs \ {t} : lane'[s] = lane[s]
  BY <1>1, <1>3
<1>5. /\ lane'[t] \in Seq(StorageJob) /\ Len(lane'[t]) = Len(lane[t])
      /\ lane'[t][1] = y /\ \A i \in 1 .. Len(lane[t]) : i # 1 => lane'[t][i] = lane[t][i]
  <2>1. 1 \in 1 .. Len(lane[t])
    BY <1>1
  <2>2. PICK z : z = [lane[t] EXCEPT ![1] = y]
    OBVIOUS
  <2>3. z \in Seq(StorageJob)
    BY <1>1, <1>2, <2>1, <2>2, ExceptSeq
  <2>4. Len(z) = Len(lane[t])
    BY <1>1, <1>2, <2>1, <2>2, ExceptSeq
  <2>5. \A i \in 1 .. Len(lane[t]) : z[i] = IF i = 1 THEN y ELSE lane[t][i]
    BY <1>1, <1>2, <2>1, <2>2, ExceptSeq
  <2> QED BY <1>4, <2>1, <2>2, <2>3, <2>4, <2>5
<1>6. LaneTypes'
  <2>1. lane' \in [Tabs -> Seq(StorageJob)]
    BY <1>1, <1>3, <1>4, <1>5
  <2>2. ASSUME NEW s \in Tabs PROVE Len(lane'[s]) <= MaxJobs
    BY <1>1, <1>4, <1>5 DEF CopyTypes, LaneTypes
  <2> QED BY <2>1, <2>2 DEF LaneTypes
<1>7. Jobs(t)' \subseteq Jobs(t) \cup {y} /\ \A s \in Tabs \ {t} : Jobs(s)' = Jobs(s)
  <2>1. \A s \in Tabs \ {t} : Jobs(s)' = Jobs(s)
    BY <1>4 DEF Jobs
  <2>2. ASSUME NEW j \in Jobs(t)' PROVE j \in Jobs(t) \cup {y}
    <3>1. PICK i \in 1 .. Len(lane'[t]) : j = lane'[t][i]
      BY DEF Jobs
    <3> QED BY <1>5, <3>1 DEF Jobs
  <2> QED BY <2>1, <2>2
<1>8. OneUnderWay'
  <2> SUFFICES ASSUME NEW s \in Tabs, NEW i \in 1 .. Len(lane'[s]), lane'[s][i].pc # "start"
               PROVE  i = 1 /\ lock' = s
    BY DEF OneUnderWay
  <2>1. CASE s # t
    BY <1>4, <2>1 DEF Lanes, OneUnderWay
  <2>2. CASE s = t /\ i # 1
    BY <1>5, <2>2 DEF Lanes, OneUnderWay
  <2>3. CASE s = t /\ i = 1
    BY <2>3
  <2> QED BY <2>1, <2>2, <2>3
<1>9. OpensOvertake'
  <2> SUFFICES ASSUME NEW s \in Tabs, NEW i \in 1 .. Len(lane'[s]), NEW k \in 1 .. Len(lane'[s]),
                      i < k, lane'[s][k].kind = "open"
               PROVE  lane'[s][i].gen < lane'[s][k].gen
    BY DEF OpensOvertake
  <2>1. CASE s # t
    BY <1>4, <2>1 DEF Lanes, OpensOvertake
  <2>2. CASE s = t
    <3>1. k # 1 /\ i \in 1 .. Len(lane[t]) /\ k \in 1 .. Len(lane[t]) /\ lane'[t][k] = lane[t][k]
      BY <1>5, <2>2
    <3>2. lane'[t][i].gen = lane[t][i].gen
      BY <1>2, <1>5, <3>1
    <3> QED BY <2>2, <3>1, <3>2 DEF Lanes, OpensOvertake
  <2> QED BY <2>1, <2>2
<1>10. lane'[t] # <<>>
  BY <1>1, <1>5
<1> QED BY <1>5, <1>6, <1>7, <1>8, <1>9, <1>10 DEF Lanes, y

-----------------------------------------------------------------------------
(* What stays true of what a step leaves alone. *)

\* A clear raises the revision; what it erases is erased before it lets go.
Ages ==
  \/ db'.rev = db.rev /\ cleared' = cleared /\ (Raised' => Raised)
  \/ db'.rev > db.rev
  \/ db'.rev = db.rev /\ Raised /\ \A h \in Hosts : cleared'[h] <= db.rev

LEMMA NewStays ==
  ASSUME CopyTypes, CopyTypes', CopiesFit, Ages, NEW item \in Entries, NEW rev \in Nat,
         rev <= db.rev, NewEnough(item, rev)
  PROVE  NewEnough(item, rev)'
<1> SUFFICES ASSUME item # NoCopy, rev = db'.rev
             PROVE  item.rev >= IF Raised' THEN db'.rev ELSE cleared'[item.host]
  BY DEF NewEnough
<1>1. item.host \in Hosts /\ item.rev \in Nat
  BY DEF Entries, Copies!Copy
<1>2. /\ db.rev \in Nat /\ db'.rev \in Nat /\ cleared[item.host] \in Nat /\ cleared'[item.host] \in Nat
      /\ cleared[item.host] <= db.rev
  BY <1>1 DEF CopyTypes, CopiesFit
<1>3. rev = db.rev /\ db'.rev = db.rev
  BY <1>2 DEF Ages
<1>4. item.rev >= IF Raised THEN db.rev ELSE cleared[item.host]
  BY <1>3 DEF NewEnough
<1>5. CASE cleared' = cleared /\ (Raised' => Raised)
  BY <1>1, <1>2, <1>3, <1>4, <1>5
<1>6. CASE Raised /\ \A h \in Hosts : cleared'[h] <= db.rev
  BY <1>1, <1>2, <1>3, <1>4, <1>6
<1> QED BY <1>2, <1>3, <1>5, <1>6 DEF Ages

\* A tab's memory goes on to a new generation, or keeps its Mac.
LEMMA JobStays ==
  ASSUME CopyTypes, CopyTypes', CopiesFit, Ages, adopted => adopted',
         NEW t \in Tabs, NEW j \in StorageJob, JobFits(t, j),
         \/ tab'[t].gen > tab[t].gen
         \/ /\ tab'[t].gen = tab[t].gen /\ tab'[t].host = tab[t].host
            /\ j.kind = "open" /\ j.gen = tab[t].gen => tab'[t].items = NoCopy
  PROVE  JobFits(t, j)'
<1>1. /\ j.gen \in Nat /\ j.rev \in Nat /\ j.items \in Entries
      /\ tab[t].gen \in Nat /\ tab'[t].gen \in Nat /\ db.rev \in Nat /\ db'.rev \in Nat
  BY DEF CopyTypes, Memory, StorageJob
<1>2. db.rev <= db'.rev
  BY <1>1 DEF Ages
<1>3. ~adopted' => NewEnough(j.items, j.rev)'
  <2>1. PICK z : z = j.items
    OBVIOUS
  <2>2. PICK r : r = j.rev
    OBVIOUS
  <2>3. ~adopted' => NewEnough(z, r)
    BY <2>1, <2>2 DEF JobFits
  <2>4. ~adopted' => NewEnough(z, r)'
    BY <1>1, <2>1, <2>2, <2>3, NewStays DEF JobFits
  <2> QED BY <2>1, <2>2, <2>4
<1> QED BY <1>1, <1>2, <1>3 DEF JobFits

LEMMA TabStays ==
  ASSUME CopyTypes, CopyTypes', CopiesFit, Ages, adopted => adopted',
         NEW t \in Tabs, TabFits(t), tab'[t].host = tab[t].host \/ tab'[t].items = NoCopy,
         tab'[t].rev = tab[t].rev, tab'[t].items \in {NoCopy, tab[t].items}
  PROVE  TabFits(t)'
<1>1. /\ tab[t].rev \in Nat /\ tab[t].items \in Entries /\ db.rev \in Nat /\ db'.rev \in Nat
  BY DEF CopyTypes, Memory
<1>2. tab'[t].rev <= db'.rev
  BY <1>1 DEF TabFits, Ages
<1>3. AsReceived(tab[t].items, tab[t].host)'
  BY DEF TabFits, AsReceived
<1>4. ~adopted' => NewEnough(tab[t].items, tab[t].rev)'
  <2>1. PICK z : z = tab[t].items
    OBVIOUS
  <2>2. PICK r : r = tab[t].rev
    OBVIOUS
  <2>3. ~adopted' => NewEnough(z, r)'
    BY <1>1, <2>1, <2>2, NewStays DEF TabFits
  <2>4. ~adopted' => (tab'[t].items = z => NewEnough(tab[t].items, tab[t].rev)')
    BY <2>2, <2>3 DEF NewEnough
  <2>5. tab'[t].items = NoCopy => NewEnough(tab[t].items, tab[t].rev)'
    BY DEF NewEnough
  <2> QED BY <2>1, <2>4, <2>5
<1> QED BY <1>2, <1>3, <1>4 DEF TabFits

\* A step of tab t leaves the other tabs alone.
Alone(t) ==
  \A s \in Tabs \ {t} : tab'[s] = tab[s] /\ reuse'[s] = reuse[s] /\ Jobs(s)' \subseteq Jobs(s)

LEMMA JobsAreTyped ==
  ASSUME CopyTypes, NEW t \in Tabs, NEW j \in Jobs(t)
  PROVE  j \in StorageJob
<1>1. lane[t] \in Seq(StorageJob)
  BY DEF CopyTypes, LaneTypes
<1> QED BY <1>1 DEF Jobs

LEMMA OthersStay ==
  ASSUME CopyInv, CopyTypes', Ages, adopted => adopted', CopiesFit', Lanes',
         NEW t \in Tabs, Alone(t), TabFits(t)', ReuseFits(t)',
         \A j \in Jobs(t)' : JobFits(t, j)'
  PROVE  CopyInv'
<1> USE DEF CopyInv
<1>1. ASSUME NEW s \in Tabs, s # t PROVE TabFits(s)' /\ ReuseFits(s)'
  <2>1. tab'[s] = tab[s] /\ reuse'[s] = reuse[s]
    BY <1>1 DEF Alone
  <2>2. TabFits(s)'
    BY <2>1, TabStays DEF Memories
  <2>3. ReuseFits(s)'
    BY <2>1 DEF Memories, ReuseFits
  <2> QED BY <2>2, <2>3
<1>2. ASSUME NEW s \in Tabs, s # t, NEW j \in Jobs(s)' PROVE JobFits(s, j)'
  <2>1. tab'[s] = tab[s] /\ j \in Jobs(s)
    BY <1>2 DEF Alone
  <2>2. JobFits(s, j) /\ j \in StorageJob
    BY <2>1, JobsAreTyped DEF JobsFit
  <2>3. j.kind = "open" /\ j.gen = tab[s].gen => tab'[s].items = NoCopy
    BY <2>1, <2>2 DEF JobFits
  <2> QED BY <2>1, <2>2, <2>3, JobStays
<1>3. Memories'
  BY <1>1 DEF Memories
<1>4. JobsFit'
  BY <1>2 DEF JobsFit
<1> QED BY <1>3, <1>4

-----------------------------------------------------------------------------
(* What the store calls: memory becomes m, and a job may be added.         *)

\* m is what tab t may hold next.
MayHold(t, m) ==
  /\ m \in Memory /\ tab' = [tab EXCEPT ![t] = m] /\ m.rev = tab[t].rev
  /\ AsReceived(m.items, m.host)
  /\ m.items \in {NoCopy, tab[t].items} \/ m.items.rev = m.rev
  /\ \/ m.gen > tab[t].gen
     \/ /\ m.gen = tab[t].gen /\ m.host = tab[t].host
        /\ \A j \in Jobs(t) : j.kind = "open" /\ j.gen = tab[t].gen => m.items = NoCopy

\* j is a job about m.
Suits(t, m, j) ==
  /\ j \in StorageJob /\ j.pc = "start" /\ j.gen = m.gen
  /\ j.kind # "clear" => m.host \in Hosts /\ j.host = m.host
  /\ j.kind = "open" => m.items = NoCopy /\ m.gen > tab[t].gen
  /\ (j.items = NoCopy /\ j.rev <= m.rev) \/ (j.items = m.items /\ j.rev = m.rev /\ j.kind = "save")

LEMMA StoreStep ==
  ASSUME CopyInv, NEW t \in Tabs, NEW m, MayHold(t, m), NEW j,
         (Suits(t, m, j) /\ Appends(t, j)) \/ lane' = lane,
         reuse' \in [Tabs -> Reuse], \A s \in Tabs \ {t} : reuse'[s] = reuse[s], ReuseFits(t)',
         UNCHANGED <<clock, db, lock, cleared, adopted>>
  PROVE  CopyInv'
<1> USE DEF CopyInv
<1>1. tab'[t] = m /\ (\A s \in Tabs \ {t} : tab'[s] = tab[s]) /\ tab' \in [Tabs -> Memory]
  BY DEF MayHold, CopyTypes
<1>2. /\ tab[t] \in Memory /\ m \in Memory /\ tab[t].gen \in Nat /\ tab[t].rev \in Nat /\ m.gen \in Nat
      /\ m.items \in Entries /\ db.rev \in Nat
  BY <1>1 DEF CopyTypes, MayHold, Memory
<1>3. /\ LaneTypes' /\ Lanes' /\ (Raised' => Raised) /\ (\A s \in Tabs \ {t} : Jobs(s)' = Jobs(s))
      /\ \/ Jobs(t)' = Jobs(t)
         \/ Suits(t, m, j) /\ Jobs(t)' = Jobs(t) \cup {j}
  <2>1. CASE lane' = lane
    BY <2>1 DEF LaneTypes, Lanes, OneUnderWay, OpensOvertake, Raised, Jobs, CopyTypes
  <2>2. CASE Suits(t, m, j) /\ Appends(t, j)
    <3>1. ASSUME NEW i \in Jobs(t), j.kind = "open" PROVE i.gen < j.gen
      <4>1. i.gen \in Nat /\ i.gen <= tab[t].gen
        BY JobsAreTyped DEF JobsFit, JobFits, StorageJob
      <4> QED BY <1>2, <2>2, <3>1, <4>1 DEF Suits
    <3>2. j \in StorageJob /\ j.pc = "start"
      BY <2>2 DEF Suits
    <3> QED BY <2>2, <3>1, <3>2, LaneAppend
  <2> QED BY <2>1, <2>2
<1>4. CopyTypes'
  BY <1>1, <1>3 DEF CopyTypes
<1>5. Ages
  BY <1>2, <1>3 DEF Ages
<1>6. CopiesFit'
  BY DEF CopiesFit, AsReceived
<1>7. TabFits(t)'
  <2>1. CASE m.items \in {NoCopy, tab[t].items}
    <3>1. tab'[t].rev <= db'.rev /\ AsReceived(tab[t].items, tab[t].host)'
      BY <1>1 DEF MayHold, Memories, TabFits, AsReceived
    <3>2. ~adopted' => NewEnough(tab[t].items, tab[t].rev)'
      <4>1. CASE m.items = NoCopy
        BY <1>1, <4>1 DEF NewEnough
      <4>2. CASE m.items = tab[t].items
        <5>1. PICK z : z = m.items
          OBVIOUS
        <5>2. PICK r : r = m.rev
          OBVIOUS
        <5>3. ~adopted => NewEnough(z, r)
          BY <4>2, <5>1, <5>2 DEF Memories, TabFits, MayHold
        <5>4. r \in Nat /\ r <= db.rev /\ z \in Entries
          BY <1>2, <5>1, <5>2 DEF Memories, TabFits, MayHold
        <5>5. ~adopted' => NewEnough(z, r)'
          BY <1>4, <1>5, <5>3, <5>4, NewStays
        <5> QED BY <1>1, <5>1, <5>2, <5>5 DEF NewEnough
      <4> QED BY <2>1, <4>1, <4>2
    <3> QED BY <3>1, <3>2 DEF TabFits
  <2>2. CASE m.items.rev = m.rev
    <3>1. tab'[t].rev <= db'.rev /\ AsReceived(tab[t].items, tab[t].host)'
      BY <1>1 DEF MayHold, Memories, TabFits, AsReceived
    <3>2. NewEnough(tab[t].items, tab[t].rev)'
      <4>1. SUFFICES ASSUME m.items # NoCopy, m.rev = db.rev
                     PROVE  m.items.rev >= IF Raised' THEN db.rev ELSE cleared[m.items.host]
        BY <1>1 DEF NewEnough
      <4>2. m.items.host \in Hosts
        BY <1>2, <4>1 DEF Entries, Copies!Copy
      <4>3. cleared[m.items.host] \in Nat /\ cleared[m.items.host] <= db.rev
        BY <4>2 DEF CopyTypes, CopiesFit
      <4> QED BY <1>2, <2>2, <4>1, <4>3
    <3> QED BY <3>1, <3>2 DEF TabFits
  <2> QED BY <2>1, <2>2 DEF MayHold
<1>8. ASSUME NEW i \in Jobs(t) PROVE JobFits(t, i)'
  <2>1. i \in StorageJob /\ JobFits(t, i)
    BY JobsAreTyped DEF JobsFit
  <2>2. \/ tab'[t].gen > tab[t].gen
        \/ /\ tab'[t].gen = tab[t].gen /\ tab'[t].host = tab[t].host
           /\ i.kind = "open" /\ i.gen = tab[t].gen => tab'[t].items = NoCopy
    BY <1>1 DEF MayHold
  <2> QED BY <1>4, <1>5, <2>1, <2>2, JobStays
<1>9. ASSUME Suits(t, m, j) PROVE JobFits(t, j)'
  <2>1. /\ j.gen <= tab'[t].gen /\ j.rev <= db'.rev /\ (j.kind # "clear" => j.host \in Hosts)
        /\ (j.kind # "clear" /\ j.gen = tab'[t].gen => j.host = tab'[t].host)
        /\ (j.kind = "open" /\ j.gen = tab'[t].gen => tab'[t].items = NoCopy)
    <3>1. j.gen = m.gen
      BY <1>9 DEF Suits
    <3>2. j.rev <= m.rev /\ j.rev \in Nat
      BY <1>2, <1>9 DEF Suits, MayHold, StorageJob
    <3>3. m.rev \in Nat /\ m.rev <= db.rev
      BY <1>2 DEF MayHold, Memories, TabFits
    <3> QED BY <1>1, <1>2, <1>9, <3>1, <3>2, <3>3 DEF Suits
  <2>2. AsReceived(j.items, j.host)' /\ (~adopted' => NewEnough(j.items, j.rev)')
    <3>1. CASE j.items = NoCopy
      BY <3>1 DEF AsReceived, NewEnough
    <3>2. CASE j.items = m.items /\ j.rev = m.rev /\ j.kind = "save"
      BY <1>1, <1>7, <1>9, <3>2 DEF AsReceived, NewEnough, TabFits, Suits
    <3> QED BY <1>9, <3>1, <3>2 DEF Suits
  <2> QED BY <2>1, <2>2 DEF JobFits
<1>10. \A i \in Jobs(t)' : JobFits(t, i)'
  BY <1>3, <1>8, <1>9
<1>11. Alone(t)
  BY <1>1, <1>3 DEF Alone
<1> QED BY <1>3, <1>4, <1>5, <1>6, <1>7, <1>10, <1>11, OthersStay

\* A generation that begins empty.
LEMMA Begins ==
  ASSUME CopyInv, NEW t \in Tabs, NEW h \in Hosts \cup {NoHost}, NEW m,
         m = [host |-> h, gen |-> tab[t].gen + 1, rev |-> tab[t].rev, items |-> NoCopy],
         tab' = [tab EXCEPT ![t] = m]
  PROVE  MayHold(t, m)
<1>1. tab[t].gen \in Nat /\ tab[t].rev \in Nat
  BY DEF CopyInv, CopyTypes, Memory
<1>2. m \in Memory
  BY <1>1 DEF Memory, Entries
<1> QED BY <1>1, <1>2 DEF MayHold, AsReceived

\* The same generation, with what it held or nothing.
LEMMA HoldsOn ==
  ASSUME CopyInv, NEW t \in Tabs, NEW items \in {NoCopy, tab[t].items}, NEW gen \in Nat, NEW m,
         m = [host |-> tab[t].host, gen |-> gen, rev |-> tab[t].rev, items |-> items],
         gen = tab[t].gen \/ gen = tab[t].gen + 1,
         tab' = [tab EXCEPT ![t] = m]
  PROVE  MayHold(t, m)
<1>1. tab[t] \in Memory /\ tab[t].gen \in Nat
  BY DEF CopyInv, CopyTypes, Memory
<1>2. m \in Memory
  BY <1>1 DEF Memory, Entries
<1>3. AsReceived(tab[t].items, tab[t].host)
  BY DEF CopyInv, Memories, TabFits
<1>4. AsReceived(m.items, m.host)
  BY <1>3 DEF AsReceived
<1>5. ASSUME NEW j \in Jobs(t), j.kind = "open", j.gen = tab[t].gen PROVE items = NoCopy
  BY <1>5 DEF CopyInv, JobsFit, JobFits
<1> QED BY <1>1, <1>2, <1>4, <1>5 DEF MayHold

LEMMA JobSuits ==
  ASSUME CopyInv, NEW t \in Tabs, NEW m, MayHold(t, m), NEW j,
         \/ m.host \in Hosts /\ j = Copies!SaveOf(m)
         \/ m.host \in Hosts /\ m.items = NoCopy /\ m.gen > tab[t].gen /\ j = Copies!OpenOf(m)
         \/ \E h \in Hosts \cup {NoHost} : j = Copies!ClearOf(m, h)
  PROVE  Suits(t, m, j)
<1> USE DEF Suits
<1>1. m \in Memory /\ m.gen \in Nat /\ m.rev \in Nat /\ m.items \in Entries
  BY DEF MayHold, Memory
<1>2. NoCopy \in Entries
  BY DEF Entries
<1>3. CASE m.host \in Hosts /\ j = Copies!SaveOf(m)
  <2>1. j = [kind |-> "save", gen |-> m.gen, rev |-> m.rev, host |-> m.host,
             items |-> m.items, pc |-> "start"]
    BY <1>3 DEF Copies!SaveOf
  <2>2. j \in StorageJob
    BY <1>1, <1>3, <2>1 DEF StorageJob
  <2> QED BY <1>1, <1>3, <2>1, <2>2
<1>4. CASE m.host \in Hosts /\ m.items = NoCopy /\ m.gen > tab[t].gen /\ j = Copies!OpenOf(m)
  <2>1. j = [kind |-> "open", gen |-> m.gen, rev |-> m.rev, host |-> m.host,
             items |-> NoCopy, pc |-> "start"]
    BY <1>4 DEF Copies!OpenOf
  <2>2. j \in StorageJob
    BY <1>1, <1>2, <1>4, <2>1 DEF StorageJob
  <2> QED BY <1>1, <1>4, <2>1, <2>2
<1>5. CASE \E h \in Hosts \cup {NoHost} : j = Copies!ClearOf(m, h)
  <2>1. PICK h \in Hosts \cup {NoHost} : j = [kind |-> "clear", gen |-> m.gen, rev |-> 0, host |-> h,
                                               items |-> NoCopy, pc |-> "start"]
    BY <1>5 DEF Copies!ClearOf
  <2>2. j \in StorageJob
    BY <1>1, <1>2, <2>1 DEF StorageJob
  <2> QED BY <1>1, <2>1, <2>2
<1> QED BY <1>3, <1>4, <1>5

\* Waiting opens of t keep its memory; what a reuse began with is no newer.
LEMMA ReuseKept ==
  ASSUME CopyInv, NEW t \in Tabs, NEW m, MayHold(t, m), reuse' = reuse
  PROVE  reuse' \in [Tabs -> Reuse] /\ ReuseFits(t)'
<1>1. tab'[t] = m /\ m.gen \in Nat /\ tab[t].gen \in Nat
  BY DEF MayHold, CopyInv, CopyTypes, Memory
<1>2. reuse[t] # NoCopy => reuse[t].gen \in Nat
  BY DEF CopyInv, CopyTypes, Reuse
<1> QED BY <1>1, <1>2 DEF CopyInv, CopyTypes, Memories, ReuseFits, MayHold

LEMMA CopyReset ==
  ASSUME CopyInv, NEW t \in Tabs, Copies!Reset(t)
  PROVE  CopyInv'
<1>1. PICK m : m = [host |-> NoHost, gen |-> tab[t].gen + 1, rev |-> tab[t].rev, items |-> NoCopy]
  OBVIOUS
<1>2. tab' = [tab EXCEPT ![t] = m] /\ UNCHANGED <<clock, db, lane, reuse, lock, cleared, adopted>>
  BY <1>1 DEF Copies!Reset
<1>3. MayHold(t, m)
  BY <1>1, <1>2, Begins
<1>4. reuse' \in [Tabs -> Reuse] /\ ReuseFits(t)'
  BY <1>2, <1>3, ReuseKept
<1> QED BY <1>2, <1>3, <1>4, StoreStep

LEMMA CopyOpenAnew ==
  ASSUME CopyInv, NEW t \in Tabs, NEW h \in Hosts, Copies!OpenAnew(t, h),
         reuse' = reuse \/ reuse' = [reuse EXCEPT ![t] = NoCopy],
         UNCHANGED <<clock, db, lock, cleared, adopted>>
  PROVE  CopyInv'
<1>1. PICK m : m = [host |-> h, gen |-> tab[t].gen + 1, rev |-> tab[t].rev, items |-> NoCopy]
  OBVIOUS
<1>2. PICK j : j = Copies!OpenOf(m)
  OBVIOUS
<1>3. tab' = [tab EXCEPT ![t] = m] /\ Appends(t, j)
  BY <1>1, <1>2 DEF Copies!OpenAnew, Copies!Queue, Appends
<1>4. MayHold(t, m)
  BY <1>1, <1>3, Begins
<1>5. Suits(t, m, j)
  <2>1. tab[t].gen \in Nat
    BY DEF CopyInv, CopyTypes, Memory
  <2>2. m.host \in Hosts /\ m.items = NoCopy /\ m.gen > tab[t].gen
    BY <1>1, <2>1
  <2> QED BY <1>2, <1>4, <2>2, JobSuits
<1>6. reuse' \in [Tabs -> Reuse] /\ ReuseFits(t)' /\ \A s \in Tabs \ {t} : reuse'[s] = reuse[s]
  <2>1. CASE reuse' = reuse
    BY <1>4, <2>1, ReuseKept
  <2>2. CASE reuse' = [reuse EXCEPT ![t] = NoCopy]
    BY <2>2 DEF CopyInv, CopyTypes, Reuse, ReuseFits
  <2> QED BY <2>1, <2>2
<1> QED BY <1>3, <1>4, <1>5, <1>6, StoreStep

\* A step that touches only what waits to be reused.
LEMMA ReuseStep ==
  ASSUME CopyInv, NEW t \in Tabs, reuse' \in [Tabs -> Reuse],
         \A s \in Tabs \ {t} : reuse'[s] = reuse[s], ReuseFits(t)',
         UNCHANGED <<clock, db, tab, lane, lock, cleared, adopted>>
  PROVE  CopyInv'
<1>1. PICK m : m = tab[t]
  OBVIOUS
<1>2. tab' = [tab EXCEPT ![t] = m]
  BY <1>1 DEF CopyInv, CopyTypes
<1>3. MayHold(t, m)
  BY <1>1, <1>2 DEF MayHold, CopyInv, CopyTypes, Memories, TabFits, JobsFit, JobFits
<1> QED BY <1>2, <1>3, StoreStep

LEMMA CopyOpen ==
  ASSUME CopyInv, NEW t \in Tabs, NEW h \in Hosts, Copies!Open(t, h)
  PROVE  CopyInv'
<1>1. CASE tab[t].host = h
  <2>1. PICK r : r = [gen |-> tab[t].gen, left |-> Len(lane[t]), rev |-> NoCopy]
    OBVIOUS
  <2>2. /\ reuse' = [reuse EXCEPT ![t] = r]
        /\ UNCHANGED <<clock, db, tab, lane, lock, cleared, adopted>>
    BY <1>1, <2>1 DEF Copies!Open
  <2>3. tab[t].gen \in Nat /\ Len(lane[t]) \in Nat
    BY DEF CopyInv, CopyTypes, LaneTypes, Memory
  <2>4. r \in Reuse
    BY <2>1, <2>3 DEF Reuse
  <2>5. reuse' \in [Tabs -> Reuse] /\ reuse'[t] = r /\ \A s \in Tabs \ {t} : reuse'[s] = reuse[s]
    BY <2>2, <2>4 DEF CopyInv, CopyTypes
  <2>6. ReuseFits(t)'
    BY <1>1, <2>1, <2>2, <2>3, <2>5 DEF ReuseFits
  <2> QED BY <2>2, <2>5, <2>6, ReuseStep
<1>2. CASE tab[t].host # h
  <2>1. /\ Copies!OpenAnew(t, h) /\ reuse' = reuse
        /\ UNCHANGED <<clock, db, lock, cleared, adopted>>
    BY <1>2 DEF Copies!Open
  <2> QED BY <2>1, CopyOpenAnew
<1> QED BY <1>1, <1>2

LEMMA CopyReuseReads ==
  ASSUME CopyInv, NEW t \in Tabs, Copies!ReuseReads(t)
  PROVE  CopyInv'
<1>1. PICK r : r = [reuse[t] EXCEPT !.rev = db.rev]
  OBVIOUS
<1>2. reuse' = [reuse EXCEPT ![t] = r] /\ UNCHANGED <<clock, db, tab, lane, lock, cleared, adopted>>
  BY <1>1 DEF Copies!ReuseReads
<1>3. reuse[t] # NoCopy /\ reuse[t] \in Reuse /\ db.rev \in Nat
  BY DEF Copies!ReuseReads, CopyInv, CopyTypes
<1>4. r \in Reuse /\ r.gen = reuse[t].gen
  BY <1>1, <1>3 DEF Reuse
<1>5. reuse' \in [Tabs -> Reuse] /\ reuse'[t] = r /\ \A s \in Tabs \ {t} : reuse'[s] = reuse[s]
  BY <1>2, <1>4 DEF CopyInv, CopyTypes
<1>6. ReuseFits(t)'
  BY <1>2, <1>3, <1>4, <1>5 DEF CopyInv, Memories, ReuseFits
<1> QED BY <1>2, <1>5, <1>6, ReuseStep

LEMMA JobsWait ==
  ASSUME CopyTypes, NEW t \in Tabs, ~Copies!Waiting(t, "open"), NEW j \in Jobs(t)
  PROVE  ~(j.kind = "open" /\ j.gen = tab[t].gen)
<1>1. lane[t] \in Seq(StorageJob)
  BY DEF CopyTypes, LaneTypes
<1>2. PICK i \in 1 .. Len(lane[t]) : j = lane[t][i]
  BY DEF Jobs
<1>3. i \in DOMAIN lane[t]
  BY <1>1, <1>2
<1> QED BY <1>2, <1>3 DEF Copies!Waiting

\* What t holds has gone: it is saved without it.
LEMMA CopyDrop ==
  ASSUME CopyInv, NEW t \in Tabs, tab[t].host \in Hosts, NEW m, m = [tab[t] EXCEPT !.items = NoCopy],
         tab' = [tab EXCEPT ![t] = m], Copies!Queue(t, Copies!SaveOf(m)),
         reuse' = reuse \/ reuse' = [reuse EXCEPT ![t] = NoCopy],
         UNCHANGED <<clock, db, lock, cleared, adopted>>
  PROVE  CopyInv'
<1>1. tab[t] \in Memory
  BY DEF CopyInv, CopyTypes
<1>2. m = [host |-> tab[t].host, gen |-> tab[t].gen, rev |-> tab[t].rev, items |-> NoCopy]
  BY <1>1 DEF Memory
<1>3. MayHold(t, m)
  BY <1>1, <1>2, HoldsOn DEF Memory
<1>4. PICK j : j = Copies!SaveOf(m)
  OBVIOUS
<1>5. Suits(t, m, j) /\ Appends(t, j)
  BY <1>2, <1>3, <1>4, JobSuits DEF Copies!Queue, Appends
<1>6. reuse' \in [Tabs -> Reuse] /\ ReuseFits(t)' /\ \A s \in Tabs \ {t} : reuse'[s] = reuse[s]
  <2>1. CASE reuse' = reuse
    BY <1>3, <2>1, ReuseKept
  <2>2. CASE reuse' = [reuse EXCEPT ![t] = NoCopy]
    BY <2>2 DEF CopyInv, CopyTypes, Reuse, ReuseFits
  <2> QED BY <2>1, <2>2
<1> QED BY <1>3, <1>5, <1>6, StoreStep

LEMMA CopyPrune ==
  ASSUME CopyInv, NEW t \in Tabs, Copies!Prune(t)
  PROVE  CopyInv'
<1>1. tab[t].items # NoCopy /\ tab[t].items \in Entries /\ tab[t].items.host = tab[t].host
  BY DEF Copies!Prune, CopyInv, CopyTypes, Memory, Memories, TabFits, AsReceived
<1>2. tab[t].host \in Hosts
  BY <1>1 DEF Entries, Copies!Copy
<1>3. PICK m : m = [tab[t] EXCEPT !.items = NoCopy]
  OBVIOUS
<1>4. /\ tab' = [tab EXCEPT ![t] = m] /\ Copies!Queue(t, Copies!SaveOf(m))
      /\ UNCHANGED <<clock, db, reuse, lock, cleared, adopted>>
  BY <1>3 DEF Copies!Prune
<1> QED BY <1>2, <1>3, <1>4, CopyDrop

LEMMA CopyReuseEnds ==
  ASSUME CopyInv, NEW t \in Tabs, Copies!ReuseEnds(t)
  PROVE  CopyInv'
<1>1. /\ reuse[t] # NoCopy /\ reuse' = [reuse EXCEPT ![t] = NoCopy]
      /\ UNCHANGED <<clock, db, lock, cleared, adopted>>
  BY DEF Copies!ReuseEnds
<1>2. reuse[t].gen = tab[t].gen => tab[t].host \in Hosts
  BY <1>1 DEF CopyInv, Memories, ReuseFits
<1>3. CASE UNCHANGED <<tab, lane>>
  <2>1. reuse' \in [Tabs -> Reuse] /\ ReuseFits(t)' /\ \A s \in Tabs \ {t} : reuse'[s] = reuse[s]
    BY <1>1 DEF CopyInv, CopyTypes, Reuse, ReuseFits
  <2> QED BY <1>1, <1>3, <2>1, ReuseStep
<1>4. CASE reuse[t].gen = tab[t].gen /\ Copies!OpenAnew(t, tab[t].host)
  <2>1. PICK h \in Hosts : h = tab[t].host
    BY <1>2, <1>4
  <2>2. Copies!OpenAnew(t, h)
    BY <1>4, <2>1
  <2> QED BY <1>1, <2>2, CopyOpenAnew
<1>5. CASE /\ reuse[t].gen = tab[t].gen
           /\ LET m == [tab[t] EXCEPT !.items = NoCopy]
              IN  tab' = [tab EXCEPT ![t] = m] /\ Copies!Queue(t, Copies!SaveOf(m))
  <2>1. PICK m : m = [tab[t] EXCEPT !.items = NoCopy]
    OBVIOUS
  <2>2. tab' = [tab EXCEPT ![t] = m] /\ Copies!Queue(t, Copies!SaveOf(m)) /\ tab[t].host \in Hosts
    BY <1>2, <1>5, <2>1
  <2> QED BY <1>1, <2>1, <2>2, CopyDrop
<1> QED BY <1>3, <1>4, <1>5 DEF Copies!ReuseEnds

LEMMA CopyReceive ==
  ASSUME CopyInv, NEW t \in Tabs, NEW sent \in 0 .. clock, NEW cached \in BOOLEAN, NEW timed \in BOOLEAN,
         Copies!Receive(t, sent, cached, timed)
  PROVE  CopyInv'
<1> USE CopyAssumption
<1>1. PICK deadline : deadline = Copies!Deadline(sent, cached, timed)
  OBVIOUS
<1>2. PICK new : new = [host |-> tab[t].host, sent |-> sent, expires |-> deadline, rev |-> tab[t].rev]
  OBVIOUS
<1>3. PICK m : m = [tab[t] EXCEPT !.items = new]
  OBVIOUS
<1>4. /\ tab' = [tab EXCEPT ![t] = m] /\ Copies!Queue(t, Copies!SaveOf(m))
      /\ tab[t].host # NoHost /\ ~Copies!Waiting(t, "open") /\ (cached \/ sent = clock)
      /\ deadline > clock /\ UNCHANGED <<clock, db, reuse, lock, cleared, adopted>>
  BY <1>1, <1>2, <1>3 DEF Copies!Receive
<1>5. tab[t] \in Memory /\ clock \in 0 .. MaxNow
  BY DEF CopyInv, CopyTypes
<1>6. deadline \in 1 .. MaxNow + CopyTTL /\ deadline <= sent + CopyTTL
  BY <1>1, <1>4, <1>5 DEF Copies!Deadline
<1>7. new \in Copies!Copy
  BY <1>2, <1>4, <1>5, <1>6 DEF Copies!Copy, Memory
<1>8. m = [host |-> tab[t].host, gen |-> tab[t].gen, rev |-> tab[t].rev, items |-> new]
  BY <1>3, <1>5 DEF Memory
<1>9. MayHold(t, m)
  <2>1. m \in Memory
    BY <1>5, <1>7, <1>8 DEF Memory, Entries
  <2>2. AsReceived(m.items, m.host)
    BY <1>2, <1>6, <1>8 DEF AsReceived
  <2>3. ASSUME NEW j \in Jobs(t) PROVE ~(j.kind = "open" /\ j.gen = tab[t].gen)
    BY <1>4, JobsWait DEF CopyInv
  <2> QED BY <1>2, <1>4, <1>8, <2>1, <2>2, <2>3 DEF MayHold
<1>10. PICK j : j = Copies!SaveOf(m)
  OBVIOUS
<1>11. m.host \in Hosts
  BY <1>4, <1>5, <1>8 DEF Memory
<1>12. Suits(t, m, j) /\ Appends(t, j)
  BY <1>4, <1>9, <1>10, <1>11, JobSuits DEF Copies!Queue, Appends
<1>13. reuse' \in [Tabs -> Reuse] /\ ReuseFits(t)'
  BY <1>4, <1>9, ReuseKept
<1> QED BY <1>4, <1>9, <1>12, <1>13, StoreStep

LEMMA CopyReceiveOther ==
  ASSUME CopyInv, NEW t \in Tabs, Copies!ReceiveOther(t)
  PROVE  CopyInv'
<1>1. PICK m : m = tab[t]
  OBVIOUS
<1>2. /\ Copies!Queue(t, Copies!SaveOf(m)) /\ m.host # NoHost
      /\ UNCHANGED <<clock, db, tab, reuse, lock, cleared, adopted>>
  BY <1>1 DEF Copies!ReceiveOther
<1>3. m \in Memory /\ tab' = [tab EXCEPT ![t] = m]
  BY <1>1, <1>2 DEF CopyInv, CopyTypes
<1>4. MayHold(t, m)
  BY <1>1, <1>3 DEF MayHold, CopyInv, Memories, TabFits, JobsFit, JobFits
<1>5. PICK j : j = Copies!SaveOf(m)
  OBVIOUS
<1>6. m.host \in Hosts
  BY <1>2, <1>3 DEF Memory
<1>7. Suits(t, m, j) /\ Appends(t, j)
  BY <1>2, <1>4, <1>5, <1>6, JobSuits DEF Copies!Queue, Appends
<1>8. reuse' \in [Tabs -> Reuse] /\ ReuseFits(t)'
  BY <1>2, <1>4, ReuseKept
<1> QED BY <1>2, <1>4, <1>7, <1>8, StoreStep

LEMMA CopyClear ==
  ASSUME CopyInv, NEW t \in Tabs, NEW h \in Hosts \cup {NoHost}, Copies!Clear(t, h)
  PROVE  CopyInv'
<1>1. PICK kept : kept = IF h \in {NoHost, tab[t].host} THEN NoCopy ELSE tab[t].items
  OBVIOUS
<1>2. tab[t] \in Memory
  BY DEF CopyInv, CopyTypes
<1>3. PICK m : m = [host |-> tab[t].host, gen |-> tab[t].gen + 1, rev |-> tab[t].rev, items |-> kept]
  OBVIOUS
<1>4. /\ tab' = [tab EXCEPT ![t] = m] /\ Copies!Queue(t, Copies!ClearOf(m, h))
      /\ UNCHANGED <<clock, db, reuse, lock, cleared, adopted>>
  BY <1>1, <1>3 DEF Copies!Clear
<1>5. MayHold(t, m)
  <2>1. tab[t].gen + 1 \in Nat /\ kept \in {NoCopy, tab[t].items}
    BY <1>1, <1>2 DEF Memory
  <2>2. PICK gen \in Nat : gen = tab[t].gen + 1
    BY <2>1
  <2>3. m = [host |-> tab[t].host, gen |-> gen, rev |-> tab[t].rev, items |-> kept]
    BY <1>3, <2>2
  <2>4. tab' = [tab EXCEPT ![t] = m]
    BY <1>4
  <2> QED BY <2>1, <2>2, <2>3, <2>4, HoldsOn
<1>6. PICK j : j = Copies!ClearOf(m, h)
  OBVIOUS
<1>7. Suits(t, m, j) /\ Appends(t, j)
  BY <1>4, <1>5, <1>6, JobSuits DEF Copies!Queue, Appends
<1>8. reuse' \in [Tabs -> Reuse] /\ ReuseFits(t)'
  BY <1>4, <1>5, ReuseKept
<1> QED BY <1>4, <1>5, <1>7, <1>8, StoreStep

-----------------------------------------------------------------------------
(* Jobs. *)

LEMMA FirstJob ==
  ASSUME CopyInv, NEW t \in Tabs, lane[t] # <<>>
  PROVE  lane[t][1] \in StorageJob /\ lane[t][1] \in Jobs(t) /\ JobFits(t, lane[t][1])
<1>1. lane[t] \in Seq(StorageJob)
  BY DEF CopyInv, CopyTypes, LaneTypes
<1>2. 1 \in 1 .. Len(lane[t])
  BY <1>1
<1>3. lane[t][1] \in Jobs(t) /\ lane[t][1] \in StorageJob
  BY <1>1, <1>2 DEF Jobs
<1>4. \A j \in Jobs(t) : JobFits(t, j)
  BY DEF CopyInv, JobsFit
<1> QED BY <1>3, <1>4

\* A step of the first job of t: storage, memory and what was erased change
\* only in ways that fit.
Works(t) ==
  /\ lane[t] # <<>> /\ lock = t /\ clock' = clock
  /\ db' \in [rev : Nat, copy : [Hosts -> Entries]] /\ tab' \in [Tabs -> Memory]
  /\ cleared' \in [Hosts -> Nat] /\ adopted' \in BOOLEAN /\ (adopted => adopted') /\ CopiesFit'
  /\ \A s \in Tabs \ {t} : tab'[s] = tab[s]
  /\ tab'[t].gen = tab[t].gen /\ tab'[t].host = tab[t].host
  /\ tab' = tab \/ TabFits(t)'

LEMMA GotoStep ==
  ASSUME CopyInv, NEW t \in Tabs, NEW pc \in {"write", "check", "read", "adopt", "erase"},
         Works(t), Copies!Goto(t, pc), cleared' = cleared, tab'[t].items = tab[t].items,
         \/ db'.rev = db.rev /\ (Raised \/ lane[t][1].kind # "clear")
         \/ db'.rev > db.rev
  PROVE  CopyInv'
<1> USE DEF CopyInv
<1>1. lane' = [lane EXCEPT ![t][1].pc = pc] /\ lock' = lock /\ reuse' = reuse
  BY DEF Copies!Goto
<1>2. PICK y : y = [lane[t][1] EXCEPT !.pc = pc]
  OBVIOUS
<1>3. /\ LaneTypes' /\ Lanes' /\ lane'[t] # <<>> /\ lane'[t][1] = y
      /\ Jobs(t)' \subseteq Jobs(t) \cup {y} /\ \A s \in Tabs \ {t} : Jobs(s)' = Jobs(s)
  BY <1>1, <1>2, LaneGoto DEF Works
<1>4. lane[t][1] \in StorageJob /\ JobFits(t, lane[t][1])
  BY FirstJob DEF Works
<1>5. /\ y \in StorageJob /\ y.kind = lane[t][1].kind /\ y.gen = lane[t][1].gen /\ y.rev = lane[t][1].rev
      /\ y.host = lane[t][1].host /\ y.items = lane[t][1].items
  BY <1>2, <1>4 DEF StorageJob
<1>6. JobFits(t, y)
  BY <1>4, <1>5 DEF JobFits, AsReceived, NewEnough
<1>7. CopyTypes'
  BY <1>1, <1>3 DEF CopyTypes, Works
<1>8. Ages
  <2>1. CASE db'.rev = db.rev /\ (Raised \/ lane[t][1].kind # "clear")
    <3>1. lane[t][1].kind # "clear" => ~Raised'
      BY <1>1, <1>3, <1>5 DEF Raised, Works
    <3> QED BY <2>1, <3>1 DEF Ages
  <2>2. CASE db'.rev > db.rev
    BY <2>2 DEF Ages
  <2> QED BY <2>1, <2>2
<1>9. ASSUME NEW j \in Jobs(t)' PROVE JobFits(t, j)'
  <2>1. j \in StorageJob /\ JobFits(t, j)
    <3>1. CASE j = y
      BY <1>5, <1>6, <3>1
    <3>2. CASE j \in Jobs(t)
      BY <3>2, JobsAreTyped DEF JobsFit
    <3> QED BY <1>3, <3>1, <3>2
  <2>2. j.kind = "open" /\ j.gen = tab[t].gen => tab'[t].items = NoCopy
    BY <2>1 DEF JobFits
  <2> QED BY <1>7, <1>8, <2>1, <2>2, JobStays DEF Works
<1>10. TabFits(t)'
  <2>1. CASE tab' = tab
    BY <1>7, <1>8, <2>1, TabStays DEF Works, Memories
  <2> QED BY <2>1 DEF Works
<1>11. ReuseFits(t)'
  BY <1>1 DEF Works, Memories, ReuseFits
<1>12. Alone(t)
  BY <1>1, <1>3 DEF Works, Alone
<1> QED BY <1>3, <1>7, <1>8, <1>9, <1>10, <1>11, <1>12, OthersStay DEF Works

LEMMA FinishStep ==
  ASSUME CopyInv, NEW t \in Tabs, Works(t), Copies!Finish(t), db'.rev = db.rev,
         cleared' = cleared \/ (Raised /\ \A h \in Hosts : cleared'[h] <= db.rev),
         \/ tab'[t].items = tab[t].items
         \/ lane[t][1].kind = "open" /\ lane[t][1].gen = tab[t].gen
  PROVE  CopyInv'
<1> USE DEF CopyInv
<1>1. lane' = [lane EXCEPT ![t] = Tail(@)] /\ lock' = Nobody
  BY DEF Copies!Finish
<1>2. /\ LaneTypes' /\ Lanes' /\ ~Raised' /\ (\A s \in Tabs : Jobs(s)' \subseteq Jobs(s))
      /\ \A j \in Jobs(t)' : j.kind = "open" => lane[t][1].gen < j.gen
  BY <1>1, LaneFinish DEF Works
<1>3. /\ reuse' \in [Tabs -> Reuse] /\ (\A s \in Tabs \ {t} : reuse'[s] = reuse[s])
      /\ reuse'[t] # NoCopy => reuse[t] # NoCopy /\ reuse'[t].gen = reuse[t].gen
  <2>1. PICK r : r = IF reuse[t] # NoCopy /\ reuse[t].left > 0
                     THEN [reuse[t] EXCEPT !.left = @ - 1] ELSE reuse[t]
    OBVIOUS
  <2>2. reuse' = [reuse EXCEPT ![t] = r]
    BY <2>1 DEF Copies!Finish, Copies!Awaited
  <2>3. reuse[t] \in Reuse
    BY DEF CopyTypes
  <2>4. CASE reuse[t] # NoCopy /\ reuse[t].left > 0
    <3>1. r = [reuse[t] EXCEPT !.left = @ - 1] /\ reuse[t].left \in Nat /\ reuse[t].left > 0
      BY <2>1, <2>3, <2>4 DEF Reuse
    <3>2. r \in Reuse /\ r.gen = reuse[t].gen
      <4>1. PICK n \in Nat : n = reuse[t].left - 1
        BY <3>1
      <4>2. reuse[t] \in [gen : Nat, left : Nat, rev : Nat \cup {NoCopy}]
        BY <2>3, <2>4 DEF Reuse
      <4>3. r = [reuse[t] EXCEPT !.left = n]
        BY <3>1, <4>1
      <4>4. r \in [gen : Nat, left : Nat, rev : Nat \cup {NoCopy}] /\ r.gen = reuse[t].gen
        BY <4>2, <4>3
      <4> QED BY <4>4 DEF Reuse
    <3> QED BY <2>2, <2>4, <3>2 DEF CopyTypes
  <2>5. CASE ~(reuse[t] # NoCopy /\ reuse[t].left > 0)
    BY <2>1, <2>2, <2>3, <2>5 DEF CopyTypes
  <2> QED BY <2>4, <2>5
<1>4. CopyTypes'
  BY <1>2, <1>3 DEF CopyTypes, Works
<1>5. Ages
  BY <1>2 DEF Ages
<1>6. ASSUME NEW j \in Jobs(t)' PROVE JobFits(t, j)'
  <2>1. j \in StorageJob /\ JobFits(t, j)
    BY <1>2, JobsAreTyped DEF JobsFit
  <2>2. j.kind = "open" /\ j.gen = tab[t].gen => tab'[t].items = NoCopy
    <3>1. CASE tab'[t].items = tab[t].items
      BY <2>1, <3>1 DEF JobFits
    <3>2. CASE lane[t][1].gen = tab[t].gen
      <4>1. tab[t].gen \in Nat
        BY DEF CopyTypes, Memory
      <4> QED BY <1>2, <3>2, <4>1
    <3> QED BY <3>1, <3>2
  <2> QED BY <1>4, <1>5, <2>1, <2>2, JobStays DEF Works
<1>7. TabFits(t)'
  <2>1. CASE tab' = tab
    BY <1>4, <1>5, <2>1, TabStays DEF Works, Memories
  <2> QED BY <2>1 DEF Works
<1>8. ReuseFits(t)'
  BY <1>3 DEF Works, Memories, ReuseFits
<1>9. Alone(t)
  BY <1>2, <1>3 DEF Works, Alone
<1> QED BY <1>2, <1>4, <1>5, <1>6, <1>7, <1>8, <1>9, OthersStay DEF Works

\* Storage and memory as they were.
LEMMA WorksQuietly ==
  ASSUME CopyInv, NEW t \in Tabs, lane[t] # <<>>, lock = t,
         UNCHANGED <<clock, db, tab, cleared, adopted>>
  PROVE  Works(t)
BY DEF Works, CopyInv, CopyTypes, CopiesFit, AsReceived

LEMMA CopySaveStarts ==
  ASSUME CopyInv, NEW t \in Tabs, Copies!SaveStarts(t)
  PROVE  CopyInv'
<1>1. /\ lane[t] # <<>> /\ lock = t /\ lane[t][1].kind = "save"
      /\ UNCHANGED <<clock, db, tab, cleared, adopted>>
  BY DEF Copies!SaveStarts, Copies!At
<1>2. Works(t)
  BY <1>1, WorksQuietly
<1>3. CASE Copies!Finish(t)
  BY <1>1, <1>2, <1>3, FinishStep
<1>4. CASE Copies!Goto(t, "write")
  BY <1>1, <1>2, <1>4, GotoStep
<1> QED BY <1>3, <1>4 DEF Copies!SaveStarts

\* A Mac's copy is replaced by item, which fits.
LEMMA WorksOnCopy ==
  ASSUME CopyInv, NEW t \in Tabs, lane[t] # <<>>, lock = t, NEW h \in Hosts, NEW item \in Entries,
         AsReceived(item, h), ~adopted /\ item # NoCopy => item.rev >= cleared[h],
         db' = [db EXCEPT !.copy[h] = item], UNCHANGED <<clock, cleared, adopted>>
  PROVE  /\ db' \in [rev : Nat, copy : [Hosts -> Entries]] /\ CopiesFit' /\ db'.rev = db.rev
         /\ tab' = tab => Works(t)
<1>1. PICK c : c = [db.copy EXCEPT ![h] = item]
  OBVIOUS
<1>2. db' = [db EXCEPT !.copy = c] /\ db \in [rev : Nat, copy : [Hosts -> Entries]]
  BY <1>1 DEF CopyInv, CopyTypes
<1>3. c \in [Hosts -> Entries] /\ c[h] = item /\ \A g \in Hosts \ {h} : c[g] = db.copy[g]
  BY <1>1, <1>2
<1>4. db' \in [rev : Nat, copy : [Hosts -> Entries]] /\ db'.rev = db.rev /\ db'.copy = c
  BY <1>2, <1>3
<1>5. CopiesFit'
  BY <1>3, <1>4 DEF CopyInv, CopiesFit, AsReceived
<1> QED BY <1>4, <1>5 DEF Works, CopyInv, CopyTypes

\* While a save or an open has the lock, no clear is between its two writes.
LEMMA NothingRaised ==
  ASSUME NEW t \in Tabs, lock = t, lane[t][1].kind # "clear"
  PROVE  ~Raised
BY DEF Raised

LEMMA CopySaveWrites ==
  ASSUME CopyInv, NEW t \in Tabs, Copies!SaveWrites(t)
  PROVE  CopyInv'
<1>1. /\ lane[t] # <<>> /\ lock = t /\ lane[t][1].kind = "save"
      /\ UNCHANGED <<clock, tab, cleared, adopted>>
  BY DEF Copies!SaveWrites, Copies!At
<1>2. CASE Copies!Finish(t) /\ db' = db
  <2>1. Works(t)
    BY <1>1, <1>2, WorksQuietly
  <2> QED BY <1>1, <1>2, <2>1, FinishStep
<1>3. CASE /\ db.rev = lane[t][1].rev
           /\ db' = [db EXCEPT !.copy[lane[t][1].host] = lane[t][1].items] /\ Copies!Goto(t, "check")
  <2>1. lane[t][1] \in StorageJob /\ JobFits(t, lane[t][1]) /\ ~Raised
    BY <1>1, FirstJob, NothingRaised
  <2>2. PICK h \in Hosts : h = lane[t][1].host
    BY <1>1, <2>1 DEF JobFits
  <2>3. PICK item \in Entries : item = lane[t][1].items
    BY <2>1 DEF StorageJob
  <2>4. AsReceived(item, h)
    BY <2>1, <2>2, <2>3 DEF JobFits
  <2>5. ~adopted /\ item # NoCopy => item.rev >= cleared[h]
    BY <1>3, <2>1, <2>2, <2>3, <2>4 DEF JobFits, NewEnough, AsReceived
  <2>6. Works(t) /\ db'.rev = db.rev
    <3>1. db' = [db EXCEPT !.copy[h] = item]
      BY <1>3, <2>2, <2>3
    <3> QED BY <1>1, <2>4, <2>5, <3>1, WorksOnCopy
  <2> QED BY <1>1, <1>3, <2>6, GotoStep
<1> QED BY <1>2, <1>3 DEF Copies!SaveWrites

LEMMA CopySaveEnds ==
  ASSUME CopyInv, NEW t \in Tabs, Copies!SaveEnds(t)
  PROVE  CopyInv'
<1>1. /\ lane[t] # <<>> /\ lock = t /\ lane[t][1].kind = "save" /\ Copies!Finish(t)
      /\ UNCHANGED <<clock, tab, cleared, adopted>>
  BY DEF Copies!SaveEnds, Copies!At
<1>2. Works(t) /\ db'.rev = db.rev
  <2>1. CASE db' = db
    BY <1>1, <2>1, WorksQuietly
  <2>2. CASE db' = [db EXCEPT !.copy[lane[t][1].host] = NoCopy]
    <3>1. PICK h \in Hosts : h = lane[t][1].host
      BY <1>1, FirstJob DEF JobFits
    <3>2. NoCopy \in Entries /\ AsReceived(NoCopy, h)
      BY DEF Entries, AsReceived
    <3>3. db' = [db EXCEPT !.copy[h] = NoCopy]
      BY <2>2, <3>1
    <3> QED BY <1>1, <3>2, <3>3, WorksOnCopy
  <2> QED BY <2>1, <2>2 DEF Copies!SaveEnds
<1> QED BY <1>1, <1>2, FinishStep

LEMMA CopyOpenStarts ==
  ASSUME CopyInv, NEW t \in Tabs, Copies!OpenStarts(t)
  PROVE  CopyInv'
<1>1. /\ lane[t] # <<>> /\ lock = t /\ lane[t][1].kind = "open"
      /\ UNCHANGED <<clock, db, cleared, adopted>>
  BY DEF Copies!OpenStarts, Copies!At
<1>2. CASE Copies!Finish(t) /\ tab' = tab
  <2>1. Works(t)
    BY <1>1, <1>2, WorksQuietly
  <2> QED BY <1>1, <1>2, <2>1, FinishStep
<1>3. CASE /\ lane[t][1].gen = tab[t].gen
           /\ tab' = [tab EXCEPT ![t].rev = db.rev] /\ Copies!Goto(t, "read")
  <2>1. JobFits(t, lane[t][1])
    BY <1>1, FirstJob
  <2>2. tab[t].items = NoCopy
    BY <1>1, <1>3, <2>1 DEF JobFits
  <2>3. tab[t] \in Memory /\ db.rev \in Nat /\ tab \in [Tabs -> Memory]
    BY DEF CopyInv, CopyTypes
  <2>4. PICK m : m = [tab[t] EXCEPT !.rev = db.rev]
    OBVIOUS
  <2>5. tab' = [tab EXCEPT ![t] = m]
    BY <1>3, <2>4
  <2>6. /\ m \in Memory /\ m.gen = tab[t].gen /\ m.host = tab[t].host /\ m.items = tab[t].items
        /\ m.rev = db.rev
    BY <2>3, <2>4 DEF Memory
  <2>7. TabFits(t)'
    BY <1>1, <2>2, <2>3, <2>5, <2>6 DEF TabFits, AsReceived, NewEnough
  <2>8. CopiesFit' /\ Works(t)
    BY <1>1, <2>3, <2>5, <2>6, <2>7 DEF Works, CopyInv, CopyTypes, CopiesFit, AsReceived
  <2>9. tab'[t].items = tab[t].items
    BY <2>3, <2>5, <2>6
  <2> QED BY <1>1, <1>3, <2>8, <2>9, GotoStep
<1> QED BY <1>2, <1>3 DEF Copies!OpenStarts, Copies!Overtaken

LEMMA CopyOpenReads ==
  ASSUME CopyInv, NEW t \in Tabs, Copies!OpenReads(t)
  PROVE  CopyInv'
<1>1. /\ lane[t] # <<>> /\ lock = t /\ lane[t][1].kind = "open" /\ Copies!Finish(t)
      /\ UNCHANGED <<clock, cleared, adopted>>
  BY DEF Copies!OpenReads, Copies!At
<1>2. CASE UNCHANGED <<tab, db>>
  <2>1. Works(t)
    BY <1>1, <1>2, WorksQuietly
  <2> QED BY <1>1, <1>2, <2>1, FinishStep
<1>3. ASSUME lane[t][1].gen = tab[t].gen,
             NEW found, found = Copies!ValidOrNone(db.copy[lane[t][1].host]),
             tab' = [tab EXCEPT ![t].items = found],
             db' = [db EXCEPT !.copy[lane[t][1].host] = found]
      PROVE  CopyInv'
  <2>1. JobFits(t, lane[t][1]) /\ ~Raised
    BY <1>1, FirstJob, NothingRaised
  <2>2. PICK h \in Hosts : h = lane[t][1].host /\ h = tab[t].host
    BY <1>1, <1>3, <2>1 DEF JobFits
  <2>3. found \in {NoCopy, db.copy[h]}
    BY <1>3, <2>2 DEF Copies!ValidOrNone
  <2>4. found \in Entries /\ AsReceived(found, h)
    BY <2>3 DEF CopyInv, CopyTypes, CopiesFit, AsReceived, Entries
  <2>5. ~adopted /\ found # NoCopy => found.rev >= cleared[h]
    BY <2>3 DEF CopyInv, CopiesFit
  <2>6. db' = [db EXCEPT !.copy[h] = found]
    BY <1>3, <2>2
  <2>7. db' \in [rev : Nat, copy : [Hosts -> Entries]] /\ CopiesFit' /\ db'.rev = db.rev
    BY <1>1, <2>4, <2>5, <2>6, WorksOnCopy
  <2>8. tab[t] \in Memory /\ tab \in [Tabs -> Memory]
    BY DEF CopyInv, CopyTypes
  <2>9. PICK m : m = [tab[t] EXCEPT !.items = found]
    OBVIOUS
  <2>10. tab' = [tab EXCEPT ![t] = m]
    BY <1>3, <2>9
  <2>11. /\ m \in Memory /\ m.gen = tab[t].gen /\ m.host = tab[t].host /\ m.items = found
         /\ m.rev = tab[t].rev
    BY <2>4, <2>8, <2>9 DEF Memory
  <2>12. tab'[t] = m /\ tab' \in [Tabs -> Memory] /\ \A s \in Tabs \ {t} : tab'[s] = tab[s]
    BY <2>8, <2>10, <2>11
  <2>13. ~Raised'
    BY <1>1, LaneFinish DEF CopyInv, Copies!Finish
  <2>14. TabFits(t)'
    <3>1. tab'[t].rev <= db'.rev /\ AsReceived(tab[t].items, tab[t].host)'
      BY <2>2, <2>4, <2>7, <2>11, <2>12 DEF CopyInv, Memories, TabFits, AsReceived
    <3>2. ~adopted' => NewEnough(tab[t].items, tab[t].rev)'
      BY <1>1, <2>2, <2>4, <2>5, <2>11, <2>12, <2>13 DEF NewEnough, AsReceived
    <3> QED BY <3>1, <3>2 DEF TabFits
  <2>15. Works(t)
    BY <1>1, <2>7, <2>11, <2>12, <2>14 DEF Works, CopyInv, CopyTypes
  <2> QED BY <1>1, <1>3, <2>7, <2>15, FinishStep
<1> QED BY <1>2, <1>3 DEF Copies!OpenReads, Copies!Overtaken

LEMMA CopyClearRaises ==
  ASSUME CopyInv, NEW t \in Tabs, Copies!ClearRaises(t)
  PROVE  CopyInv'
<1>1. /\ lane[t] # <<>> /\ lock = t /\ Copies!Goto(t, "adopt")
      /\ db' = [db EXCEPT !.rev = @ + 1] /\ UNCHANGED <<clock, tab, cleared, adopted>>
  BY DEF Copies!ClearRaises, Copies!At
<1>2. /\ db' \in [rev : Nat, copy : [Hosts -> Entries]] /\ db'.rev > db.rev /\ db'.copy = db.copy
      /\ db.rev \in Nat
  <2>1. db \in [rev : Nat, copy : [Hosts -> Entries]] /\ db.rev \in Nat
    BY DEF CopyInv, CopyTypes
  <2>2. PICK n \in Nat : n = db.rev + 1
    BY <2>1
  <2>3. db' = [db EXCEPT !.rev = n]
    BY <1>1, <2>2
  <2>4. db' \in [rev : Nat, copy : [Hosts -> Entries]] /\ db'.rev = n /\ db'.copy = db.copy
    BY <2>1, <2>3
  <2> QED BY <2>1, <2>2, <2>4
<1>3. CopiesFit'
  BY <1>1, <1>2 DEF CopyInv, CopyTypes, CopiesFit, AsReceived
<1>4. Works(t)
  BY <1>1, <1>2, <1>3 DEF Works, CopyInv, CopyTypes
<1> QED BY <1>1, <1>2, <1>4, GotoStep

LEMMA CopyClearAdopts ==
  ASSUME CopyInv, NEW t \in Tabs, Copies!ClearAdopts(t)
  PROVE  CopyInv'
<1>1. /\ lane[t] # <<>> /\ lock = t /\ lane[t][1].kind = "clear" /\ lane[t][1].pc = "adopt"
      /\ Copies!Goto(t, "erase") /\ UNCHANGED <<clock, db, cleared>>
  BY DEF Copies!ClearAdopts, Copies!At
<1>2. Raised
  BY <1>1 DEF Raised
<1>3. CASE UNCHANGED <<tab, adopted>>
  <2>1. Works(t)
    BY <1>1, <1>3, WorksQuietly
  <2> QED BY <1>1, <1>2, <1>3, <2>1, GotoStep
<1>4. CASE /\ tab' = [tab EXCEPT ![t].rev = db.rev]
           /\ adopted' = (adopted \/ tab[t].items # NoCopy)
  <2>1. tab[t] \in Memory /\ db.rev \in Nat /\ tab \in [Tabs -> Memory]
    BY DEF CopyInv, CopyTypes
  <2>2. PICK m : m = [tab[t] EXCEPT !.rev = db.rev]
    OBVIOUS
  <2>3. tab' = [tab EXCEPT ![t] = m]
    BY <1>4, <2>2
  <2>4. /\ m \in Memory /\ m.gen = tab[t].gen /\ m.host = tab[t].host /\ m.items = tab[t].items
        /\ m.rev = db.rev
    BY <2>1, <2>2 DEF Memory
  <2>5. tab'[t] = m /\ tab' \in [Tabs -> Memory] /\ \A s \in Tabs \ {t} : tab'[s] = tab[s]
    BY <2>1, <2>3, <2>4
  <2>6. adopted' \in BOOLEAN /\ (adopted => adopted') /\ (~adopted' => tab[t].items = NoCopy)
    BY <1>4, Zenon DEF CopyInv, CopyTypes
  <2>7. TabFits(t)'
    <3>1. tab'[t].rev <= db'.rev
      BY <1>1, <2>1, <2>4, <2>5
    <3>2. AsReceived(tab[t].items, tab[t].host)'
      BY <2>4, <2>5 DEF CopyInv, Memories, TabFits, AsReceived
    <3>3. ~adopted' => NewEnough(tab[t].items, tab[t].rev)'
      BY <2>4, <2>5, <2>6 DEF NewEnough
    <3> QED BY <3>1, <3>2, <3>3 DEF TabFits
  <2>8. CopiesFit'
    BY <1>1, <2>6 DEF CopyInv, CopiesFit, AsReceived
  <2>9. Works(t)
    BY <1>1, <2>4, <2>5, <2>6, <2>7, <2>8 DEF Works, CopyInv, CopyTypes
  <2> QED BY <1>1, <1>2, <2>4, <2>5, <2>9, GotoStep
<1> QED BY <1>3, <1>4, Zenon DEF Copies!ClearAdopts

LEMMA CopyClearErases ==
  ASSUME CopyInv, NEW t \in Tabs, Copies!ClearErases(t)
  PROVE  CopyInv'
<1>1. /\ lane[t] # <<>> /\ lock = t /\ lane[t][1].kind = "clear" /\ lane[t][1].pc = "erase"
      /\ Copies!Finish(t) /\ UNCHANGED <<clock, tab, adopted>>
  BY DEF Copies!ClearErases, Copies!At
<1>2. PICK scope : scope = IF lane[t][1].host = NoHost THEN Hosts ELSE {lane[t][1].host}
  OBVIOUS
<1>3. PICK c : c = [h \in Hosts |-> IF h \in scope THEN NoCopy ELSE db.copy[h]]
  OBVIOUS
<1>4. db' = [db EXCEPT !.copy = c] /\ cleared' = [h \in Hosts |-> IF h \in scope THEN db.rev ELSE cleared[h]]
  BY <1>2, <1>3 DEF Copies!ClearErases
<1>5. /\ db \in [rev : Nat, copy : [Hosts -> Entries]] /\ db.rev \in Nat /\ cleared \in [Hosts -> Nat]
      /\ \A h \in Hosts : cleared[h] <= db.rev
  BY DEF CopyInv, CopyTypes, CopiesFit
<1>6. c \in [Hosts -> Entries] /\ \A h \in Hosts : c[h] = NoCopy \/ (h \notin scope /\ c[h] = db.copy[h])
  BY <1>3, <1>5 DEF Entries
<1>7. db' \in [rev : Nat, copy : [Hosts -> Entries]] /\ db'.rev = db.rev /\ db'.copy = c
  BY <1>4, <1>5, <1>6
<1>8. cleared' \in [Hosts -> Nat] /\ (\A h \in Hosts : cleared'[h] <= db.rev)
      /\ \A h \in Hosts : h \notin scope => cleared'[h] = cleared[h]
  BY <1>4, <1>5
<1>9. CopiesFit'
  BY <1>1, <1>6, <1>7, <1>8 DEF CopyInv, CopiesFit, AsReceived
<1>10. Works(t)
  BY <1>1, <1>7, <1>8, <1>9 DEF Works, CopyInv, CopyTypes
<1>11. Raised
  BY <1>1 DEF Raised
<1> QED BY <1>1, <1>7, <1>8, <1>10, <1>11, FinishStep

LEMMA CopyTakeLock ==
  ASSUME CopyInv, NEW t \in Tabs, Copies!TakeLock(t)
  PROVE  CopyInv'
<1> USE CopyAssumption DEF CopyInv
<1>1. /\ lane[t] # <<>> /\ lock = Nobody /\ lock' = t
      /\ UNCHANGED <<clock, db, tab, lane, reuse, cleared, adopted>>
  BY DEF Copies!TakeLock
<1>2. \A s \in Tabs : \A i \in 1 .. Len(lane[s]) : lane[s][i].pc = "start"
  BY <1>1 DEF Lanes, OneUnderWay
<1>3. Lanes'
  BY <1>1, <1>2 DEF Lanes, OneUnderWay, OpensOvertake
<1>4. ~Raised'
  <2>1. lane[t] \in Seq(StorageJob) /\ 1 \in 1 .. Len(lane[t])
    BY <1>1 DEF CopyTypes, LaneTypes
  <2>2. lane[t][1].pc = "start"
    BY <1>2, <2>1
  <2> QED BY <1>1, <2>2 DEF Raised
<1>5. CopyTypes'
  BY <1>1 DEF CopyTypes, LaneTypes
<1>6. Ages
  BY <1>1, <1>4 DEF Ages
<1>7. CopiesFit'
  BY <1>1 DEF CopiesFit, AsReceived
<1>8. TabFits(t)'
  BY <1>1, <1>5, <1>6, TabStays DEF Memories
<1>9. ReuseFits(t)'
  BY <1>1 DEF Memories, ReuseFits
<1>10. ASSUME NEW j \in Jobs(t)' PROVE JobFits(t, j)'
  <2>1. j \in Jobs(t)
    BY <1>1 DEF Jobs
  <2>2. j \in StorageJob /\ JobFits(t, j)
    BY <2>1, JobsAreTyped DEF JobsFit
  <2>3. j.kind = "open" /\ j.gen = tab[t].gen => tab'[t].items = NoCopy
    BY <1>1, <2>2 DEF JobFits
  <2> QED BY <1>1, <1>5, <1>6, <2>2, <2>3, JobStays
<1>11. Alone(t)
  BY <1>1 DEF Alone, Jobs
<1> QED BY <1>1, <1>3, <1>5, <1>6, <1>7, <1>8, <1>9, <1>10, <1>11, OthersStay

LEMMA CopyCloseTab ==
  ASSUME CopyInv, NEW t \in Tabs, Copies!CloseTab(t)
  PROVE  CopyInv'
<1> USE CopyAssumption DEF CopyInv
<1>1. PICK m : m = [host |-> NoHost, gen |-> tab[t].gen + 1, rev |-> 0, items |-> NoCopy]
  OBVIOUS
<1>2. /\ tab' = [tab EXCEPT ![t] = m] /\ lane' = [lane EXCEPT ![t] = <<>>]
      /\ reuse' = [reuse EXCEPT ![t] = NoCopy] /\ lock' = IF lock = t THEN Nobody ELSE lock
      /\ UNCHANGED <<clock, db, cleared, adopted>>
  BY <1>1 DEF Copies!CloseTab
<1>3. /\ tab \in [Tabs -> Memory] /\ lane \in [Tabs -> Seq(StorageJob)] /\ tab[t].gen \in Nat
      /\ reuse \in [Tabs -> Reuse]
  BY DEF CopyTypes, LaneTypes, Memory
<1>4. m \in Memory
  BY <1>1, <1>3 DEF Memory, Entries
<1>5. /\ tab' \in [Tabs -> Memory] /\ tab'[t] = m /\ (\A s \in Tabs \ {t} : tab'[s] = tab[s])
      /\ lane' \in [Tabs -> Seq(StorageJob)] /\ lane'[t] = <<>>
      /\ (\A s \in Tabs \ {t} : lane'[s] = lane[s])
  BY <1>2, <1>3, <1>4
<1>6. /\ reuse' \in [Tabs -> Reuse] /\ reuse'[t] = NoCopy
      /\ \A s \in Tabs \ {t} : reuse'[s] = reuse[s]
  BY <1>2, <1>3 DEF Reuse
<1>7. LaneTypes'
  <2>1. ASSUME NEW s \in Tabs PROVE Len(lane'[s]) <= MaxJobs
    <3>1. CASE s = t
      <4>1. lane'[s] = << >> /\ Len(<< >>) = 0
        BY <1>5, <3>1
      <4> QED BY <4>1
    <3>2. CASE s # t
      BY <1>5, <3>2 DEF CopyTypes, LaneTypes
    <3> QED BY <3>1, <3>2
  <2> QED BY <1>5, <2>1 DEF LaneTypes
<1>8. CopyTypes'
  BY <1>2, <1>5, <1>6, <1>7 DEF CopyTypes
<1>9. Lanes'
  <2>1. OneUnderWay'
    <3> SUFFICES ASSUME NEW s \in Tabs, NEW i \in 1 .. Len(lane'[s]), lane'[s][i].pc # "start"
                 PROVE  i = 1 /\ lock' = s
      BY DEF OneUnderWay
    <3>1. s # t
      BY <1>5
    <3>2. i = 1 /\ lock = s
      BY <1>5, <3>1 DEF Lanes, OneUnderWay
    <3> QED BY <1>2, <3>1, <3>2
  <2>2. OpensOvertake'
    <3> SUFFICES ASSUME NEW s \in Tabs, NEW i \in 1 .. Len(lane'[s]), NEW k \in 1 .. Len(lane'[s]),
                        i < k, lane'[s][k].kind = "open"
                 PROVE  lane'[s][i].gen < lane'[s][k].gen
      BY DEF OpensOvertake
    <3>1. s # t
      BY <1>5
    <3> QED BY <1>5, <3>1 DEF Lanes, OpensOvertake
  <2> QED BY <2>1, <2>2 DEF Lanes
<1>10. Raised' => Raised
  BY <1>2, <1>5 DEF Raised
<1>11. Ages
  BY <1>2, <1>10 DEF Ages
<1>12. CopiesFit'
  BY <1>2 DEF CopiesFit, AsReceived
<1>13. TabFits(t)'
  <2>1. db'.rev \in Nat
    BY <1>8 DEF CopyTypes
  <2> QED BY <1>1, <1>5, <2>1 DEF TabFits, AsReceived, NewEnough
<1>14. ReuseFits(t)'
  BY <1>6 DEF ReuseFits
<1>15. Jobs(t)' = {} /\ \A s \in Tabs \ {t} : Jobs(s)' = Jobs(s)
  BY <1>5 DEF Jobs
<1>16. Alone(t)
  BY <1>5, <1>6, <1>15 DEF Alone
<1> QED BY <1>2, <1>8, <1>9, <1>11, <1>12, <1>13, <1>14, <1>15, <1>16, OthersStay

\* Time passes, or nothing happens.
LEMMA CopiesUntouched ==
  ASSUME CopyInv, clock' \in 0 .. MaxNow, UNCHANGED <<db, tab, lane, reuse, lock, cleared, adopted>>
  PROVE  CopyInv'
<1> USE DEF CopyInv
<1>1. CopyTypes' /\ CopiesFit' /\ Lanes'
  BY DEF CopyTypes, LaneTypes, CopiesFit, AsReceived, Lanes, OneUnderWay, OpensOvertake
<1>2. \A item, rev : NewEnough(item, rev) => NewEnough(item, rev)'
  BY DEF NewEnough, Raised
<1>3. Memories'
  BY DEF Memories, TabFits, ReuseFits, AsReceived, NewEnough, Raised
<1>4. JobsFit'
  BY DEF JobsFit, JobFits, Jobs, AsReceived, NewEnough, Raised
<1> QED BY <1>1, <1>3, <1>4

LEMMA CopyInitOk == Copies!Init => CopyInv
<1> USE CopyAssumption
<1> SUFFICES ASSUME Copies!Init PROVE CopyInv
  OBVIOUS
<1>1. PICK held \in SUBSET Hosts :
        db = [rev |-> 0, copy |-> [h \in Hosts |-> IF h \in held THEN Copies!Fresh(h) ELSE NoCopy]]
  BY DEF Copies!Init
<1>2. ASSUME NEW h \in Hosts PROVE Copies!Fresh(h) \in Copies!Copy
  BY DEF Copies!Fresh, Copies!Copy
<1>3. /\ clock = 0 /\ tab = [t \in Tabs |-> [host |-> NoHost, gen |-> 0, rev |-> 0, items |-> NoCopy]]
      /\ lane = [t \in Tabs |-> <<>>] /\ reuse = [t \in Tabs |-> NoCopy] /\ lock = Nobody
      /\ cleared = [h \in Hosts |-> 0] /\ adopted = FALSE
  BY DEF Copies!Init
<1>4. db \in [rev : Nat, copy : [Hosts -> Entries]] /\ db.rev = 0
  BY <1>1, <1>2 DEF Entries
<1>5. LaneTypes
  BY <1>3 DEF LaneTypes
<1>6. CopyTypes
  <2>1. tab \in [Tabs -> Memory]
    BY <1>3 DEF Memory, Entries
  <2>2. clock \in 0 .. MaxNow /\ reuse \in [Tabs -> Reuse] /\ cleared \in [Hosts -> Nat]
    BY <1>3 DEF Reuse
  <2>3. adopted \in BOOLEAN
    BY <1>3
  <2> QED BY <1>4, <1>5, <2>1, <2>2, <2>3 DEF CopyTypes
<1>7. CopiesFit
  BY <1>1, <1>2, <1>3 DEF CopiesFit, AsReceived, Copies!Fresh
<1>8. Memories
  BY <1>3, <1>4 DEF Memories, TabFits, ReuseFits, AsReceived, NewEnough
<1>9. JobsFit /\ Lanes
  BY <1>3 DEF JobsFit, Jobs, Lanes, OneUnderWay, OpensOvertake
<1> QED BY <1>6, <1>7, <1>8, <1>9 DEF CopyInv

LEMMA CopyNextOk == CopyInv /\ [Copies!Next]_(Copies!vars) => CopyInv'
<1> SUFFICES ASSUME CopyInv, [Copies!Next]_(Copies!vars) PROVE CopyInv'
  OBVIOUS
<1>1. CASE UNCHANGED Copies!vars
  BY <1>1, CopiesUntouched DEF Copies!vars, CopyInv, CopyTypes
<1>2. CASE Copies!Tick
  BY <1>2, CopyAssumption, CopiesUntouched DEF Copies!Tick, CopyInv, CopyTypes
<1>3. ASSUME NEW t \in Tabs, Copies!Job(t) PROVE CopyInv'
  BY <1>3, CopyTakeLock, CopySaveStarts, CopySaveWrites, CopySaveEnds, CopyOpenStarts, CopyOpenReads,
     CopyClearRaises, CopyClearAdopts, CopyClearErases DEF Copies!Job
<1>4. ASSUME NEW t \in Tabs,
             \/ Copies!Reset(t) \/ Copies!ReuseReads(t) \/ Copies!ReuseEnds(t)
             \/ Copies!ReceiveOther(t) \/ Copies!Prune(t) \/ Copies!CloseTab(t)
      PROVE  CopyInv'
  BY <1>4, CopyReset, CopyReuseReads, CopyReuseEnds, CopyReceiveOther, CopyPrune, CopyCloseTab
<1>5. ASSUME NEW t \in Tabs, NEW h \in Hosts, Copies!Open(t, h) PROVE CopyInv'
  BY <1>5, CopyOpen
<1>6. ASSUME NEW t \in Tabs, NEW h \in Hosts \cup {NoHost}, Copies!Clear(t, h) PROVE CopyInv'
  BY <1>6, CopyClear
<1>7. ASSUME NEW t \in Tabs, NEW sent \in 0 .. clock, NEW cached \in BOOLEAN, NEW timed \in BOOLEAN,
             Copies!Receive(t, sent, cached, timed)
      PROVE  CopyInv'
  BY <1>7, CopyReceive
<1> QED BY <1>1, <1>2, <1>3, <1>4, <1>5, <1>6, <1>7 DEF Copies!Next

LEMMA CopyInvHolds == Copies!Spec => []CopyInv
BY CopyInitOk, CopyNextOk, PTL DEF Copies!Spec

\* A tab shows, and storage keeps, only what a Mac sent, under that Mac and for
\* its lifetime, in any number of tabs, whatever is opened, reset, cleared or
\* closed while a storage job waits for an answer.
THEOREM CopiesAreAsReceived == Copies!Spec => []KeptAsReceived
<1>1. CopyInv => KeptAsReceived
  <2> SUFFICES ASSUME CopyInv PROVE KeptAsReceived
    OBVIOUS
  <2>1. Entries = Copies!Entry
    BY DEF Entries, Copies!Entry
  <2>2. Copies!TypeOK
    BY <2>1 DEF CopyInv, CopyTypes, LaneTypes, Memory, Copies!TypeOK
  <2>3. Copies!FiledUnderItsMac
    BY DEF CopyInv, CopiesFit, Memories, TabFits, AsReceived, Copies!FiledUnderItsMac
  <2>4. Copies!LivesNoLonger
    BY DEF CopyInv, Memories, TabFits, AsReceived, Copies!LivesNoLonger
  <2> QED BY <2>2, <2>3, <2>4 DEF KeptAsReceived, Copies!KeptAsReceived
<1> QED BY <1>1, CopyInvHolds, PTL

\* What one tab erased does not come back from another that had it open, as
\* long as no tab's own clear brought it up to date under what it holds.
THEOREM ErasedDoesNotReturn == Copies!Spec => []ErasedStaysErased
<1>1. CopyInv => ErasedStaysErased
  BY DEF CopyInv, CopiesFit, ErasedStaysErased, Copies!ErasedStaysErased
<1> QED BY <1>1, CopyInvHolds, PTL
=============================================================================
