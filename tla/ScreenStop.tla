------------------------------ MODULE ScreenStop ------------------------------
(***************************************************************************)
(* Turning a Mac's screen sharing off from a browser (store.ts and         *)
(* remoteApps.ts of apps/mobile-pwa).  The stop is pending until the Mac   *)
(* confirms it with a list of apps that says so: until then the page shows *)
(* the screen as off whatever arrives, and asks the Mac again whenever it  *)
(* hears from it.                                                          *)
(*                                                                         *)
(* The relay between the two and the Mac (external here) are the sequences *)
(* of what is under way in each direction, lost when a link drops; the     *)
(* relay keeps the Mac's last list and sends it first to a page that       *)
(* returns.  Bounds: MaxQueue messages to the page, MaxPresses of the person, *)
(* MaxDrops of a link, MaxAtMac changes made at the Mac.                   *)
(***************************************************************************)

EXTENDS Naturals, Sequences, SequencesExt

CONSTANTS MaxQueue, MaxPresses, MaxDrops, MaxAtMac

VARIABLES pending,   \* pendingScreenStop
          list,      \* the screen in the page's remoteApps: none, off or on
          frame,     \* the page shows a relayed frame of the screen
          online,    \* relayHostOnline
          linked,    \* the page's relay connection is open
          macLinked, \* the Mac's is
          shares,    \* the Mac shares its screen
          kept,      \* the list the relay keeps: none, off or on
          toMac, toPage,
          presses, drops, atMac,
          asked      \* the person's last word in this workspace (history)

page == <<pending, list, frame, online, asked>>
mac == <<shares, kept>>
links == <<linked, macLinked>>
bounds == <<presses, drops, atMac>>
vars == <<page, mac, links, toMac, toPage, bounds>>

Word(b) == IF b THEN "on" ELSE "off"
Message == [type : {"apps", "hello"}, screen : {"on", "off"}, cached : BOOLEAN]
             \cup [type : {"frame"}] \cup [type : {"presence"}, on : BOOLEAN]

TypeOK ==
  /\ {pending, frame, online, linked, macLinked, shares} \subseteq BOOLEAN
  /\ list \in {"none", "off", "on"} /\ kept \in {"none", "off", "on"}
  /\ asked \in {"none", "start", "stop"}
  /\ toMac \in Seq({"start", "stop"}) /\ toPage \in Seq(Message)
  /\ Len(toMac) <= MaxPresses + 1 /\ Len(toPage) <= MaxQueue + 3
  /\ presses \in 0 .. MaxPresses /\ drops \in 0 .. MaxDrops /\ atMac \in 0 .. MaxAtMac
  \* a page that asked for a stop and is not told of it yet shows no screen
  /\ pending => list # "on" /\ ~frame

Init ==
  /\ pending = FALSE /\ list = "none" /\ frame = FALSE /\ online = FALSE
  /\ linked = FALSE /\ macLinked = FALSE /\ shares = FALSE /\ kept = "none"
  /\ toMac = <<>> /\ toPage = <<>>
  /\ presses = 0 /\ drops = 0 /\ atMac = 0 /\ asked = "none"

----------------------------------------------------------------------------
(* The page                                                                *)

\* Two stops in a row do what one does.
With(command) ==
  IF command = "stop" /\ toMac # <<>> /\ Last(toMac) = "stop" THEN toMac
  ELSE Append(toMac, command)

\* sendRemoteAppAction: dropped unless the socket is open and the Mac online;
\* the relay drops what it cannot hand to the Mac.
Send(command) ==
  toMac' = IF linked /\ online /\ macLinked THEN With(command) ELSE toMac

Off(l) == IF l = "none" THEN "none" ELSE "off"

PressStop ==
  /\ presses < MaxPresses
  /\ presses' = presses + 1 /\ asked' = "stop"
  /\ pending' = TRUE /\ list' = Off(list) /\ frame' = FALSE
  /\ Send("stop")
  /\ UNCHANGED <<online, mac, links, toPage, drops, atMac>>

PressStart ==
  /\ presses < MaxPresses
  /\ presses' = presses + 1 /\ asked' = "start"
  /\ pending' = FALSE
  /\ Send("start")
  /\ UNCHANGED <<list, frame, online, mac, links, toPage, drops, atMac>>

\* What remoteAppsForScreenStopState shows of a list.
Shown(word) == IF pending THEN "off" ELSE word

\* A list of apps that says the screen is off confirms the stop.
ConfirmedAsShown(m) == m.type = "apps" /\ Shown(m.screen) = "off"
Confirms(m) == m.type = "apps" /\ m.screen = "off"

\* flushPendingScreenStop, once the page heard of the Mac.
Flush == pending' /\ online' /\ linked /\ macLinked

ReceiveList ==
  /\ toPage # <<>> /\ Head(toPage).type \in {"apps", "hello"}
  /\ LET m == Head(toPage) IN
       /\ list' = Shown(m.screen)
       /\ pending' = (pending /\ ~Confirms(m))
       /\ frame' = (frame /\ (m.type = "hello" \/ Shown(m.screen) = "on") /\ ~pending)
       /\ online' = (online \/ ~m.cached)
  /\ toMac' = IF Flush THEN With("stop") ELSE toMac
  /\ toPage' = Tail(toPage)
  /\ UNCHANGED <<asked, mac, links, bounds>>

ReceivePresence ==
  /\ toPage # <<>> /\ Head(toPage).type = "presence"
  /\ online' = Head(toPage).on
  /\ toPage' = Tail(toPage)
  /\ UNCHANGED <<pending, list, frame, asked, mac, links, toMac, bounds>>

\* shouldAcceptRelayScreenFrame
AcceptedUnlessPending == ~pending
Accepted == list = "on" /\ ~pending

ReceiveFrame ==
  /\ toPage # <<>> /\ Head(toPage).type = "frame"
  /\ frame' = Accepted
  /\ online' = TRUE
  /\ toPage' = Tail(toPage)
  /\ UNCHANGED <<pending, list, asked, mac, links, toMac, bounds>>

\* warnIfScreenStopUnconfirmed, 12 s after the stop and every 12 s from then on.
Warn ==
  /\ pending /\ online
  /\ linked /\ macLinked
  /\ toMac' = With("stop")
  /\ list' = Off(list) /\ frame' = FALSE
  /\ UNCHANGED <<pending, online, asked, mac, links, toPage, bounds>>

\* disconnectPeer: another Mac is chosen, or the person leaves.
Leave ==
  /\ list # "none" \/ pending
  /\ pending' = FALSE /\ list' = "none" /\ frame' = FALSE /\ online' = FALSE
  /\ asked' = "none"
  /\ linked' = FALSE /\ toPage' = <<>>
  /\ UNCHANGED <<macLinked, mac, toMac, bounds>>
----------------------------------------------------------------------------
(* The links                                                               *)

\* The relay's first messages to a page: what it keeps, then who is there.
Welcome ==
  (IF kept = "none" THEN <<>>
   ELSE <<[type |-> "hello", screen |-> kept, cached |-> TRUE],
          [type |-> "apps", screen |-> kept, cached |-> TRUE]>>)
    \o <<[type |-> "presence", on |-> macLinked]>>

\* startPeer: the page's own copy, if there is one, has the screen off.
PageLinks ==
  /\ ~linked /\ linked' = TRUE
  /\ list' \in {list, Off(list)} /\ frame' = FALSE /\ online' = FALSE
  /\ toPage' = Welcome
  /\ UNCHANGED <<pending, asked, macLinked, mac, toMac, bounds>>

PageDrops ==
  /\ linked /\ drops < MaxDrops /\ drops' = drops + 1
  /\ linked' = FALSE /\ online' = FALSE /\ toPage' = <<>>
  /\ toMac' \in {toMac, <<>>}
  /\ UNCHANGED <<pending, list, frame, asked, macLinked, mac, presses, atMac>>

Publish(m) == toPage' = IF linked THEN Append(toPage, m) ELSE toPage
AppList(b) == [type |-> "apps", screen |-> Word(b), cached |-> FALSE]

\* A Mac that connects says hello with its list.
MacLinks ==
  /\ ~macLinked /\ macLinked' = TRUE /\ Len(toPage) < MaxQueue
  /\ kept' = Word(shares)
  /\ Publish([type |-> "hello", screen |-> Word(shares), cached |-> FALSE])
  /\ UNCHANGED <<page, linked, shares, toMac, bounds>>

MacDrops ==
  /\ macLinked /\ drops < MaxDrops /\ drops' = drops + 1 /\ Len(toPage) < MaxQueue
  /\ macLinked' = FALSE /\ toMac' = <<>>
  /\ Publish([type |-> "presence", on |-> FALSE])
  /\ UNCHANGED <<page, linked, mac, presses, atMac>>
----------------------------------------------------------------------------
(* The Mac                                                                 *)

MacObeys ==
  /\ macLinked /\ toMac # <<>> /\ Len(toPage) < MaxQueue
  /\ shares' = (Head(toMac) = "start")
  /\ kept' = Word(shares')
  /\ Publish(AppList(shares'))
  /\ toMac' = Tail(toMac)
  /\ UNCHANGED <<page, links, bounds>>

\* Someone at the Mac, or another browser, turns sharing on or off.
AtMac ==
  /\ macLinked /\ atMac < MaxAtMac /\ atMac' = atMac + 1 /\ Len(toPage) < MaxQueue
  /\ shares' = ~shares /\ kept' = Word(shares')
  /\ Publish(AppList(shares'))
  /\ UNCHANGED <<page, links, toMac, presses, drops>>

MacSendsFrame ==
  /\ macLinked /\ shares /\ linked /\ Len(toPage) < MaxQueue
  /\ \A i \in 1 .. Len(toPage) : toPage[i].type # "frame"
  /\ Publish([type |-> "frame"])
  /\ UNCHANGED <<page, mac, links, toMac, bounds>>

Receive == ReceiveList \/ ReceivePresence \/ ReceiveFrame

Next ==
  \/ PressStop \/ PressStart \/ Receive \/ Warn \/ Leave
  \/ PageLinks \/ PageDrops \/ MacLinks \/ MacDrops
  \/ MacObeys \/ AtMac \/ MacSendsFrame

\* Both sides reconnect, what is under way arrives unless a link drops, the
\* warning's timer runs.
Fairness == /\ WF_vars(Receive) /\ WF_vars(Warn) /\ WF_vars(MacObeys)
            /\ WF_vars(PageLinks) /\ WF_vars(MacLinks)

Spec == Init /\ [][Next]_vars /\ Fairness
----------------------------------------------------------------------------
Quiet == linked /\ macLinked /\ online /\ toMac = <<>> /\ toPage = <<>>

(* Once nothing is under way, a page that shows the screen as off is right *)
(* or still asks: sharing never goes on behind a page that says it is off. *)
OffIsTrueOrAsked == Quiet /\ list = "off" /\ shares => pending \/ asked = "start"

(* A frame on the page is one of a screen the page's list has on: a late   *)
(* frame of a sharing that ended is not shown.                             *)
FrameIsOfAnOpenScreen == frame => list = "on"

(* connectionCopy.ts:25: "Screen sharing will stop when the Mac            *)
(* reconnects."                                                            *)
StopIsKept == asked = "stop" ~> (~shares \/ asked # "stop")

(* A stop ends in a Mac that does not share, a page that says it still     *)
(* does, or another word of the person.                                    *)
StopIsAnswered == asked = "stop" ~> (~shares \/ list = "on" \/ asked # "stop")

(* A page that says the screen is off is right, and shows nothing of it.   *)
StopHolds == TypeOK /\ OffIsTrueOrAsked /\ FrameIsOfAnOpenScreen
=============================================================================
