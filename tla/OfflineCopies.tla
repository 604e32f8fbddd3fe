--------------------------- MODULE OfflineCopies ---------------------------
(***************************************************************************)
(* The offline copies of a browser's workspaces (OfflineCache in           *)
(* mobile-pwa/src/lib/offlineCache.ts and the store functions that use     *)
(* it).  Tabs of one signed-in account share IndexedDB: one copy per Mac   *)
(* and a revision that every clear raises.  A tab runs its storage jobs    *)
(* one after another, each under a Web Lock all tabs share; its memory     *)
(* changes between a job's awaits.                                         *)
(***************************************************************************)
EXTENDS Naturals, Sequences, FiniteSets

CONSTANTS
  Tabs, Hosts,
  NoHost, None, Nobody,   \* no Mac; no copy or revision; no tab
  TTL,       \* CACHE_TTL_MS, in ticks
  MaxNow,    \* bound: ticks
  MaxOps,    \* bound: calls of reset, open, receive and clear
  MaxJobs    \* bound: jobs a tab has waiting

VARIABLES
  now, ops,
  db,        \* IndexedDB: the revision and each Mac's copy
  tab,       \* each tab's memory
  lane,      \* each tab's storage jobs, the running one first
  reuse,     \* a tab's open of the Mac it already has open, waiting
  lock,      \* the tab whose job holds the Web Lock
  cleared,   \* history: the revision at which each Mac's copy was last erased
  adopted    \* history: a clear gave a tab a newer revision under the copy it keeps

vars == <<now, ops, db, tab, lane, reuse, lock, cleared, adopted>>


\* What a copy holds: the Mac, when the Mac sent it, when it expires, and the
\* revision the tab that received it had opened.
Copy == [host : Hosts, sent : 0 .. MaxNow, expires : 1 .. MaxNow + TTL, rev : Nat]

Fresh(h) == [host |-> h, sent |-> 0, expires |-> TTL, rev |-> 0]

Init ==
  /\ now = 0 /\ ops = 0
  /\ \E held \in SUBSET Hosts :      \* copies an earlier visit left
       db = [rev |-> 0, copy |-> [h \in Hosts |-> IF h \in held THEN Fresh(h) ELSE None]]
  /\ tab = [t \in Tabs |-> [host |-> NoHost, gen |-> 0, rev |-> 0, items |-> None]]
  /\ lane = [t \in Tabs |-> <<>>]
  /\ reuse = [t \in Tabs |-> None]
  /\ lock = Nobody
  /\ cleared = [h \in Hosts |-> 0] /\ adopted = FALSE

-----------------------------------------------------------------------------
(* Helpers. *)

Valid(item) == item # None /\ item.expires > now
ValidOrNone(item) == IF Valid(item) THEN item ELSE None

Called == ops < MaxOps /\ ops' = ops + 1
Queue(t, job) == /\ Len(lane[t]) < MaxJobs
                 /\ lane' = [lane EXCEPT ![t] = Append(@, job)]
Waiting(t, kind) == \E i \in DOMAIN lane[t] : lane[t][i].kind = kind /\ lane[t][i].gen = tab[t].gen

\* A job that writes a tab's items as they are now, under the revision it opened.
SaveOf(m) == [kind |-> "save", gen |-> m.gen, rev |-> m.rev, host |-> m.host,
              items |-> m.items, pc |-> "start"]
OpenOf(m) == [kind |-> "open", gen |-> m.gen, rev |-> m.rev, host |-> m.host,
              items |-> None, pc |-> "start"]
ClearOf(m, h) == [kind |-> "clear", gen |-> m.gen, rev |-> 0, host |-> h,
                  items |-> None, pc |-> "start"]

\* The deadline receive gives content: a full lifetime when the Mac just sent
\* it, what the relay says remains of a cached item, nothing without that.
Deadline(sent, cached, timed) ==
  IF cached THEN (IF timed THEN sent + TTL ELSE 0) ELSE now + TTL

-----------------------------------------------------------------------------
(* What the store calls. *)

\* disconnectPeer.
Reset(t) ==
  /\ Called
  /\ tab' = [tab EXCEPT ![t] = [host |-> NoHost, gen |-> @.gen + 1, rev |-> @.rev, items |-> None]]
  /\ UNCHANGED <<now, db, lane, reuse, lock, cleared, adopted>>

OpenAnew(t, h) ==
  LET m == [host |-> h, gen |-> tab[t].gen + 1, rev |-> tab[t].rev, items |-> None]
  IN  tab' = [tab EXCEPT ![t] = m] /\ Queue(t, OpenOf(m))

\* loadRelayCache: the Mac already open is reused after the jobs before it.
Open(t, h) ==
  /\ Called /\ reuse[t] = None
  /\ IF tab[t].host = h
     THEN /\ reuse' = [reuse EXCEPT ![t] = [gen |-> tab[t].gen, left |-> Len(lane[t]), rev |-> None]]
          /\ UNCHANGED <<tab, lane>>
     ELSE OpenAnew(t, h) /\ UNCHANGED reuse
  /\ UNCHANGED <<now, db, lock, cleared, adopted>>

\* The jobs have ended: the revision is read, then compared.
ReuseReads(t) ==
  /\ reuse[t] # None /\ reuse[t].left = 0 /\ reuse[t].rev = None
  /\ reuse' = [reuse EXCEPT ![t].rev = db.rev]
  /\ UNCHANGED <<now, ops, db, tab, lane, lock, cleared, adopted>>

ReuseEnds(t) ==
  /\ reuse[t] # None /\ reuse[t].rev # None
  /\ reuse' = [reuse EXCEPT ![t] = None]
  /\ \/ reuse[t].gen # tab[t].gen /\ UNCHANGED <<tab, lane>>
     \/ /\ reuse[t].gen = tab[t].gen /\ reuse[t].rev = tab[t].rev
        /\ IF Valid(tab[t].items) \/ tab[t].items = None THEN UNCHANGED <<tab, lane>>
           ELSE LET m == [tab[t] EXCEPT !.items = None]
                IN tab' = [tab EXCEPT ![t] = m] /\ Queue(t, SaveOf(m))
     \/ reuse[t].gen = tab[t].gen /\ reuse[t].rev # tab[t].rev /\ OpenAnew(t, tab[t].host)
  /\ UNCHANGED <<now, ops, db, lock, cleared, adopted>>

\* Content of the open Mac, from the Mac or from the relay's cache.  The store
\* connects only after its open returned.
Receive(t, sent, cached, timed) ==
  LET deadline == Deadline(sent, cached, timed)
      m == [tab[t] EXCEPT !.items = [host |-> tab[t].host, sent |-> sent, expires |-> deadline,
                                     rev |-> tab[t].rev]]
  IN  /\ Called /\ tab[t].host # NoHost /\ reuse[t] = None /\ ~Waiting(t, "open")
      /\ cached \/ sent = now
      /\ deadline > now
      /\ tab' = [tab EXCEPT ![t] = m] /\ Queue(t, SaveOf(m))
      /\ UNCHANGED <<now, db, reuse, lock, cleared, adopted>>

\* Other content of the open Mac arrives or goes: all that is held is saved.
ReceiveOther(t) ==
  /\ Called /\ tab[t].host # NoHost /\ ~Waiting(t, "open")
  /\ Queue(t, SaveOf(tab[t]))
  /\ UNCHANGED <<now, db, tab, reuse, lock, cleared, adopted>>

\* The expiry timer.
Prune(t) ==
  /\ tab[t].items # None /\ ~Valid(tab[t].items)
  /\ LET m == [tab[t] EXCEPT !.items = None]
     IN  tab' = [tab EXCEPT ![t] = m] /\ Queue(t, SaveOf(m))
  /\ UNCHANGED <<now, ops, db, reuse, lock, cleared, adopted>>

\* Sign-out clears every Mac's copy (NoHost), a removed Mac only its own.
Clear(t, h) ==
  LET kept == IF h \in {NoHost, tab[t].host} THEN None ELSE tab[t].items
      m == [host |-> tab[t].host, gen |-> tab[t].gen + 1, rev |-> tab[t].rev, items |-> kept]
  IN  /\ Called
      /\ tab' = [tab EXCEPT ![t] = m] /\ Queue(t, ClearOf(m, h))
      /\ UNCHANGED <<now, db, reuse, lock, cleared, adopted>>

-----------------------------------------------------------------------------
(* Jobs: a step per await. *)

At(t, kind, pc) == lane[t] # <<>> /\ lane[t][1].kind = kind /\ lane[t][1].pc = pc /\ lock = t
Overtaken(t) == lane[t][1].gen # tab[t].gen
Goto(t, pc) == lane' = [lane EXCEPT ![t][1].pc = pc] /\ UNCHANGED <<reuse, lock>>
Awaited(r) == IF r # None /\ r.left > 0 THEN [r EXCEPT !.left = @ - 1] ELSE r
Finish(t) ==
  /\ lane' = [lane EXCEPT ![t] = Tail(@)]
  /\ reuse' = [reuse EXCEPT ![t] = Awaited(@)]
  /\ lock' = Nobody

TakeLock(t) ==
  /\ lane[t] # <<>> /\ lock = Nobody /\ lock' = t
  /\ UNCHANGED <<now, ops, db, tab, lane, reuse, cleared, adopted>>

SaveStarts(t) ==
  /\ At(t, "save", "start")
  /\ IF Overtaken(t) THEN Finish(t) ELSE Goto(t, "write")
  /\ UNCHANGED <<now, ops, db, tab, cleared, adopted>>

SaveWritesAnyway(t) ==
  /\ At(t, "save", "write")
  /\ db' = [db EXCEPT !.copy[lane[t][1].host] = lane[t][1].items] /\ Goto(t, "check")
  /\ UNCHANGED <<now, ops, tab, cleared, adopted>>

\* Only under the revision the tab opened.
SaveWrites(t) ==
  /\ At(t, "save", "write")
  /\ IF db.rev # lane[t][1].rev THEN Finish(t) /\ UNCHANGED db
     ELSE db' = [db EXCEPT !.copy[lane[t][1].host] = lane[t][1].items] /\ Goto(t, "check")
  /\ UNCHANGED <<now, ops, tab, cleared, adopted>>

SaveEnds(t) ==
  /\ At(t, "save", "check") /\ Finish(t)
  /\ db' = IF Overtaken(t) THEN [db EXCEPT !.copy[lane[t][1].host] = None] ELSE db
  /\ UNCHANGED <<now, ops, tab, cleared, adopted>>

OpenStarts(t) ==
  /\ At(t, "open", "start")
  /\ IF Overtaken(t) THEN Finish(t) /\ UNCHANGED tab
     ELSE tab' = [tab EXCEPT ![t].rev = db.rev] /\ Goto(t, "read")
  /\ UNCHANGED <<now, ops, db, cleared, adopted>>

OpenReadsAnyway(t) ==
  /\ At(t, "open", "read")
  /\ LET found == ValidOrNone(db.copy[lane[t][1].host])
     IN  tab' = [tab EXCEPT ![t].items = found] /\ db' = [db EXCEPT !.copy[lane[t][1].host] = found]
  /\ Finish(t)
  /\ UNCHANGED <<now, ops, cleared, adopted>>

\* What expired is dropped; the rest is shown and written back.
OpenReads(t) ==
  /\ At(t, "open", "read")
  /\ LET found == ValidOrNone(db.copy[lane[t][1].host])
     IN  IF Overtaken(t) \/ db.copy[lane[t][1].host] = None THEN UNCHANGED <<tab, db>>
         ELSE tab' = [tab EXCEPT ![t].items = found] /\ db' = [db EXCEPT !.copy[lane[t][1].host] = found]
  /\ Finish(t)
  /\ UNCHANGED <<now, ops, cleared, adopted>>

ClearRaises(t) ==
  /\ At(t, "clear", "start")
  /\ db' = [db EXCEPT !.rev = @ + 1] /\ Goto(t, "adopt")
  /\ UNCHANGED <<now, ops, tab, cleared, adopted>>

ClearAdopts(t) ==
  /\ At(t, "clear", "adopt") /\ Goto(t, "erase")
  /\ IF Overtaken(t) THEN UNCHANGED <<tab, adopted>>
     ELSE tab' = [tab EXCEPT ![t].rev = db.rev] /\ adopted' = (adopted \/ tab[t].items # None)
  /\ UNCHANGED <<now, ops, db, cleared>>

ClearErases(t) ==
  LET scope == IF lane[t][1].host = NoHost THEN Hosts ELSE {lane[t][1].host}
  IN  /\ At(t, "clear", "erase") /\ Finish(t)
      /\ db' = [db EXCEPT !.copy = [h \in Hosts |-> IF h \in scope THEN None ELSE @[h]]]
      /\ cleared' = [h \in Hosts |-> IF h \in scope THEN db.rev ELSE cleared[h]]
      /\ UNCHANGED <<now, ops, tab, adopted>>

Job(t) == \/ TakeLock(t) \/ SaveStarts(t) \/ SaveWrites(t) \/ SaveEnds(t) \/ OpenStarts(t)
          \/ OpenReads(t) \/ ClearRaises(t) \/ ClearAdopts(t) \/ ClearErases(t)

\* A closed tab loses its memory and jobs; the browser releases its lock.
CloseTab(t) ==
  /\ Called
  /\ tab' = [tab EXCEPT ![t] = [host |-> NoHost, gen |-> @.gen + 1, rev |-> 0, items |-> None]]
  /\ lane' = [lane EXCEPT ![t] = <<>>] /\ reuse' = [reuse EXCEPT ![t] = None]
  /\ lock' = IF lock = t THEN Nobody ELSE lock
  /\ UNCHANGED <<now, db, cleared, adopted>>

Tick == now < MaxNow /\ now' = now + 1 /\ UNCHANGED <<ops, db, tab, lane, reuse, lock, cleared, adopted>>

Next ==
  \/ \E t \in Tabs :
       \/ Reset(t) \/ ReuseReads(t) \/ ReuseEnds(t) \/ ReceiveOther(t) \/ Prune(t)
       \/ Job(t) \/ CloseTab(t)
       \/ \E h \in Hosts : Open(t, h)
       \/ \E h \in Hosts \cup {NoHost} : Clear(t, h)
       \/ \E sent \in 0 .. now, cached, timed \in BOOLEAN : Receive(t, sent, cached, timed)
  \/ Tick

\* Storage answers, and a lock that is free is granted.
Spec == Init /\ [][Next]_vars /\ \A t \in Tabs : SF_vars(Job(t))

-----------------------------------------------------------------------------
(* Properties. *)

Entry == Copy \cup {None}
TypeOK ==
  /\ now \in 0 .. MaxNow /\ db.rev \in Nat /\ \A h \in Hosts : db.copy[h] \in Entry
  /\ \A t \in Tabs : tab[t].items \in Entry /\ tab[t].host \in Hosts \cup {NoHost} /\ Len(lane[t]) <= MaxJobs

\* A copy another tab erased does not come back: a tab that opened it before
\* writes nothing more of it (unless that tab itself erased another Mac's
\* copies since, which brings it up to the newest revision).
ErasedStaysErased ==
  ~adopted => \A h \in Hosts : db.copy[h] # None => db.copy[h].rev >= cleared[h]

\* A tab shows, and storage files, a copy only under the Mac it came from,
\* whatever Mac was opened, reset or cleared while a job was reading.
FiledUnderItsMac ==
  /\ \A t \in Tabs : tab[t].items # None => tab[t].items.host = tab[t].host
  /\ \A h \in Hosts : db.copy[h] # None => db.copy[h].host = h

\* Content is kept no longer than its lifetime from when the Mac sent it,
\* through however many caches it came back.
LivesNoLonger ==
  \A t \in Tabs : tab[t].items # None => tab[t].items.expires <= tab[t].items.sent + TTL

\* A clear that was asked for ends: it is not stuck behind another tab's jobs.
ClearEnds == \A t \in Tabs : Waiting(t, "clear") ~> ~Waiting(t, "clear")

\* A copy is what its Mac sent, under that Mac, for its lifetime.
KeptAsReceived == TypeOK /\ FiledUnderItsMac /\ LivesNoLonger
=============================================================================
