--------------------------- MODULE PhoneLinkProofs ---------------------------
(***************************************************************************)
(* What a page of the phone app holds and shows, for any number of calls,  *)
(* flows, messages and pieces: one live flow of the screen's video, a      *)
(* screen shown as off that is off, reports of uploads that are true, and  *)
(* one connection to the relay.                                            *)
(***************************************************************************)
EXTENDS MCPhoneLink, SequenceTheorems, TLAPS

-----------------------------------------------------------------------------
(* The screen's video.  OnlyCurrentFlow is not inductive: a flow whose code *)
(* still loads holds nothing yet, and will open its socket although another *)
(* one took its place, unless it learns then that it was aborted.           *)

FlowTypes ==
  /\ phase \in [Flows -> Video!Alive \cup {"over", "begun", "refused"}]
  /\ conn \in [Flows -> {"new", "up", "down"}]
  /\ sock \subseteq {f \in Flows : phase[f] \in Video!Alive} /\ aborted \subseteq Flows

ShownTypes ==
  newest \in Flows \cup {None} /\ flowPeer \in Flows \cup {None} /\ picture \in Flows \cup {None}

AskTypes ==
  /\ wanted \in BOOLEAN /\ retry \in BOOLEAN /\ sharing \in BOOLEAN /\ reached \in BOOLEAN
  /\ away \in BOOLEAN /\ back \in BOOLEAN /\ panel \in BOOLEAN

\* A flow whose code still loads is the current one, or was told to stop.
OthersAreAborted == \A f \in Flows : phase[f] = "begun" /\ f \notin aborted => f = newest

VideoInv ==
  FlowTypes /\ ShownTypes /\ AskTypes /\ OthersAreAborted /\ Video!NothingLeftOpen /\ Video!PictureIsLive

\* What a step of the page changes of the flows and of what it shows.
Flowing == FlowTypes /\ ShownTypes /\ OthersAreAborted /\ Video!NothingLeftOpen /\ Video!PictureIsLive

LEMMA VideoStarts ==
  ASSUME Flowing, AskTypes, Video!StartVideoPeer
  PROVE  Flowing' /\ wanted' \in BOOLEAN /\ retry' \in BOOLEAN
<1>1. wanted' = TRUE /\ retry' = FALSE
  BY DEF Video!StartVideoPeer
<1>2. CASE away
  BY <1>1, <1>2 DEF Video!StartVideoPeer, Flowing, FlowTypes, ShownTypes, OthersAreAborted,
     Video!NothingLeftOpen, Video!PictureIsLive, Video!flows, Video!shown
<1>3. CASE ~away
  <2>1. PICK f \in Flows :
          /\ phase[f] \in {"over", "refused"}
          /\ phase' = [g \in Flows |-> IF g = f THEN "begun"
                                       ELSE IF Video!Cancel(g) THEN "over" ELSE phase[g]]
          /\ sock' = {g \in sock : ~Video!Cancel(g)}
          /\ aborted' = {g \in Flows \ {f} : phase[g] = "begun"}
          /\ conn' = [conn EXCEPT ![f] = "new"]
          /\ newest' = f /\ flowPeer' = None /\ picture' = None
    BY <1>3 DEF Video!StartVideoPeer
  <2>2. FlowTypes'
    BY <2>1 DEF Flowing, FlowTypes, Video!Cancel, Video!Alive
  <2>3. ShownTypes' /\ OthersAreAborted' /\ Video!NothingLeftOpen' /\ Video!PictureIsLive'
    BY <2>1 DEF Flowing, FlowTypes, ShownTypes, OthersAreAborted, Video!NothingLeftOpen, Video!PictureIsLive,
       Video!Cancel, Video!Alive
  <2> QED BY <1>1, <2>2, <2>3 DEF Flowing
<1> QED BY <1>2, <1>3 DEF AskTypes

LEMMA VideoCancels ==
  ASSUME Flowing, Video!CancelAll, conn' = conn, newest' = None, flowPeer' = None, picture' = None
  PROVE  Flowing'
<1>1. FlowTypes'
  BY DEF Flowing, FlowTypes, Video!CancelAll, Video!Cancel, Video!Alive
<1>2. ShownTypes' /\ OthersAreAborted' /\ Video!NothingLeftOpen' /\ Video!PictureIsLive'
  BY DEF Flowing, FlowTypes, ShownTypes, OthersAreAborted, Video!NothingLeftOpen, Video!PictureIsLive,
     Video!CancelAll, Video!Cancel, Video!Alive
<1> QED BY <1>1, <1>2 DEF Flowing

LEMMA FlowsUntouched ==
  ASSUME Flowing, UNCHANGED <<Video!flows, Video!shown>>
  PROVE  Flowing'
BY DEF Flowing, FlowTypes, ShownTypes, OthersAreAborted, Video!NothingLeftOpen, Video!PictureIsLive,
   Video!flows, Video!shown

\* A flow that gives up was the current one, and the page lets go of it.
LEMMA VideoGivesUp ==
  ASSUME Flowing, AskTypes, NEW f \in Flows, phase[f] \in Video!Alive, NEW to \in {"over", "failed"},
         phase' = [phase EXCEPT ![f] = to], sock' \subseteq sock, to = "over" => f \notin sock',
         UNCHANGED <<conn, aborted>>, Video!GivesUp(f)
  PROVE  Flowing' /\ wanted' = wanted /\ retry' \in BOOLEAN
<1>1. f = newest
  BY DEF Flowing, Video!NothingLeftOpen
<1>2. flowPeer' = None /\ picture' = None /\ newest' = newest /\ wanted' = wanted /\ retry' \in BOOLEAN
  BY <1>1 DEF Video!GivesUp, Video!Cleared
<1>3. FlowTypes'
  BY DEF Flowing, FlowTypes, Video!Alive
<1>4. ShownTypes' /\ OthersAreAborted' /\ Video!NothingLeftOpen' /\ Video!PictureIsLive'
  BY <1>1, <1>2 DEF Flowing, FlowTypes, ShownTypes, OthersAreAborted, Video!NothingLeftOpen, Video!PictureIsLive,
     Video!Alive
<1> QED BY <1>2, <1>3, <1>4 DEF Flowing

LEMMA FlowKeeps ==
  ASSUME Flowing, AskTypes, NEW f \in Flows, Video!FlowStep(f)
  PROVE  /\ Flowing' /\ wanted' \in BOOLEAN /\ retry' \in BOOLEAN /\ reached' \in BOOLEAN
         /\ UNCHANGED <<sharing, away, back>>
<1> USE DEF Video!asks, Video!env, Video!shown, Video!flows
<1>1. CASE Video!Starts(f)
  <2>1. CASE f \in aborted
    BY <1>1, <2>1 DEF Video!Starts, Video!AbortSeen, Video!Becomes, Video!Alive, Flowing, FlowTypes, ShownTypes,
       OthersAreAborted, Video!NothingLeftOpen, Video!PictureIsLive, AskTypes
  <2>2. CASE f \notin aborted
    <3>1. f = newest /\ phase[f] = "begun"
      BY <1>1, <2>2 DEF Video!Starts, Flowing, OthersAreAborted
    <3>2. /\ phase' = [phase EXCEPT ![f] = "dialing"] /\ sock' = sock \cup {f}
          /\ UNCHANGED <<conn, aborted, newest, flowPeer, picture, wanted, retry, sharing, reached, away, back>>
      BY <1>1, <2>2 DEF Video!Starts, Video!AbortSeen, Video!Becomes
    <3> QED BY <3>1, <3>2 DEF Video!Alive, Flowing, FlowTypes, ShownTypes,
       OthersAreAborted, Video!NothingLeftOpen, Video!PictureIsLive, AskTypes
  <2> QED BY <2>1, <2>2
<1>2. CASE Video!Dialled(f) \/ Video!Greeted(f) \/ Video!Refuses(f)
  BY <1>2 DEF Video!Dialled, Video!Greeted, Video!Refuses, Video!Becomes, Video!Alive, Flowing, FlowTypes, ShownTypes,
     OthersAreAborted, Video!NothingLeftOpen, Video!PictureIsLive, AskTypes
<1>3. CASE Video!PeerConnects(f) \/ Video!PeerDrops(f) \/ Video!Track(f)
  BY <1>3 DEF Video!PeerConnects, Video!PeerDrops, Video!Track, Video!Alive, Flowing, FlowTypes, ShownTypes,
     OthersAreAborted, Video!NothingLeftOpen, Video!PictureIsLive, AskTypes
<1>4. CASE Video!Fails(f)
  BY <1>4, VideoGivesUp DEF Video!Fails, Video!Becomes, Video!Alive, AskTypes
<1>5. ASSUME phase[f] \in Video!Alive, Video!CloseFlow(f), UNCHANGED Video!env
      PROVE  Flowing' /\ wanted' \in BOOLEAN /\ retry' \in BOOLEAN /\ reached' \in BOOLEAN
             /\ UNCHANGED <<sharing, away, back>>
  BY <1>5, VideoGivesUp DEF Video!CloseFlow, Video!Dispose, Video!Becomes, AskTypes
<1>6. CASE Video!PeerEnds(f)
  BY <1>5, <1>6 DEF Video!PeerEnds
<1>7. CASE Video!SignalingCloses(f)
  <2>1. phase[f] \in Video!Alive
    BY <1>7 DEF Video!SignalingCloses, Flowing, FlowTypes
  <2>2. CASE conn[f] = "new"
    BY <1>5, <1>7, <2>1, <2>2 DEF Video!SignalingCloses
  <2>3. CASE conn[f] # "new"
    BY <1>7, <2>3 DEF Video!SignalingCloses, Flowing, FlowTypes, ShownTypes,
       OthersAreAborted, Video!NothingLeftOpen, Video!PictureIsLive, AskTypes
  <2> QED BY <2>2, <2>3
<1> QED BY <1>1, <1>2, <1>3, <1>4, <1>6, <1>7 DEF Video!FlowStep

LEMMA VideoNextKeeps == VideoInv /\ [Video!Next]_(Video!vars) => VideoInv'
<1> SUFFICES ASSUME VideoInv, [Video!Next]_(Video!vars) PROVE VideoInv'
  OBVIOUS
<1> USE DEF Video!asks, Video!env
<1>1. Flowing /\ AskTypes
  BY DEF VideoInv, Flowing
<1>2. ASSUME NEW f \in Flows, Video!Page(Video!FlowStep(f)) PROVE VideoInv'
  BY <1>1, <1>2, FlowKeeps DEF Video!Page, VideoInv, Flowing, AskTypes
<1>3. ASSUME NEW b \in BOOLEAN, Video!Page(Video!Shared(b)) \/ Video!Page(Video!Presence(b)) PROVE VideoInv'
  BY <1>1, <1>3, FlowsUntouched DEF Video!Page, Video!Shared, Video!Presence, VideoInv, Flowing, AskTypes
<1>4. CASE Video!Page(Video!Hide) \/ Video!Page(Video!Show)
  BY <1>1, <1>4, FlowsUntouched DEF Video!Page, Video!Hide, Video!Show, VideoInv, Flowing, AskTypes
<1>5. CASE Video!Page(Video!RetryFires)
  BY <1>1, <1>5, FlowsUntouched, VideoStarts DEF Video!Page, Video!RetryFires, VideoInv, Flowing, AskTypes
<1>6. CASE Video!Page(Video!ResumeRuns)
  BY <1>1, <1>6, FlowsUntouched, VideoStarts DEF Video!Page, Video!ResumeRuns, VideoInv, Flowing, AskTypes
<1>7. CASE Video!Page(Video!RestartStalled)
  BY <1>1, <1>7, VideoStarts DEF Video!Page, Video!RestartStalled, VideoInv, Flowing, AskTypes
<1>8. CASE Video!Page(Video!RelayRestarts)
  BY <1>1, <1>8, VideoCancels DEF Video!Page, Video!RelayRestarts, VideoInv, Flowing, AskTypes
<1>9. CASE Video!EffectRuns
  BY <1>1, <1>9, FlowsUntouched, VideoStarts, VideoCancels
  DEF Video!EffectRuns, Video!StopVideoPeer, VideoInv, Flowing, AskTypes
<1>10. CASE UNCHANGED Video!vars
  BY <1>1, <1>10, FlowsUntouched DEF Video!vars, VideoInv, Flowing, AskTypes
<1> QED BY <1>2, <1>3, <1>4, <1>5, <1>6, <1>7, <1>8, <1>9, <1>10 DEF Video!Next

\* Whatever starts, retries, stops, hides and drops overlap, only the flow begun
\* last holds a socket or a peer, and the picture is its own (startVideoPeer,
\* PeerFlowAbortRegistry).
THEOREM VideoHasOneFlow == Video!Spec => []OnlyCurrentFlow
<1>1. Video!Init => VideoInv
  BY DEF Video!Init, VideoInv, FlowTypes, ShownTypes, AskTypes, OthersAreAborted, Video!NothingLeftOpen,
     Video!PictureIsLive, Video!Alive
<1>2. VideoInv => OnlyCurrentFlow
  BY DEF VideoInv, FlowTypes, ShownTypes, AskTypes, OnlyCurrentFlow, Video!OnlyCurrentFlow, Video!TypeOK
<1> QED BY <1>1, <1>2, VideoNextKeeps, PTL DEF Video!Spec

-----------------------------------------------------------------------------
(* The screen's stop.  What the page shows once nothing is under way rests  *)
(* on what is under way until then: the last list is the Mac's, and a hello *)
(* that has the screen off, which leaves the frame where it is, follows a   *)
(* list that says so too or is the first message of all.                    *)

IsList(m) == m.type \in {"apps", "hello"}
NoLists == \A i \in 1 .. Len(toPage) : ~IsList(toPage[i])

StopTypes ==
  /\ pending \in BOOLEAN /\ frame \in BOOLEAN /\ macOnline \in BOOLEAN /\ linked \in BOOLEAN
  /\ macLinked \in BOOLEAN /\ shares \in BOOLEAN
  /\ list \in {"none", "off", "on"} /\ kept \in {"none", "off", "on"}
  /\ asked \in {"none", "start", "stop"}
  /\ presses \in 0 .. MaxPresses /\ drops \in 0 .. MaxDrops /\ atMac \in 0 .. MaxAtMac

PageQueue ==
  toPage \in Seq(Stop!Message) /\ Len(toPage) <= MaxQueue + 3 /\ (~linked => toPage = <<>>)

\* Every command under way was pressed for; a stop that is pending and not the
\* last of them has a press of its own to spare.
PressedFor ==
  /\ toMac \in Seq({"start", "stop"}) /\ Len(toMac) <= presses
  /\ pending /\ (toMac = <<>> \/ toMac[Len(toMac)] = "start") => Len(toMac) < presses

PageDark == (pending => list # "on" /\ ~frame) /\ (frame => list = "on")

\* The relay keeps what the Mac shares, and nothing is shown before it does.
KeptIsCurrent ==
  /\ kept \in {"none", Stop!Word(shares)} /\ (macLinked => kept # "none")
  /\ kept = "none" => list = "none" /\ NoLists

\* The last list under way is the Mac's.
NewestIsCurrent ==
  \A i \in 1 .. Len(toPage) :
    IsList(toPage[i]) /\ toPage[i].screen # Stop!Word(shares) =>
      \E k \in (i + 1) .. Len(toPage) : IsList(toPage[k]) /\ toPage[k].screen = Stop!Word(shares)

\* A hello that has the screen off is no news, or the page's first message.
HelloIsNoNews ==
  \A i \in 1 .. Len(toPage) :
    toPage[i].type = "hello" /\ toPage[i].screen = "off" =>
      /\ \A j \in 1 .. (i - 1) : IsList(toPage[j]) /\ toPage[j].screen = "on" =>
           \E k \in (j + 1) .. (i - 1) : IsList(toPage[k]) /\ toPage[k].screen = "off"
      /\ (\A j \in 1 .. (i - 1) : ~IsList(toPage[j])) => list # "on" \/ (i = 1 /\ ~frame)

\* What the page shows once no list is under way.
ListIsCurrent ==
  linked /\ NoLists =>
    /\ list = "on" => shares
    /\ macLinked /\ shares => list # "off" \/ pending \/ asked = "start"

\* What a step changes of the messages to the page, and of what they say.
Underway == PageQueue /\ KeptIsCurrent /\ NewestIsCurrent /\ HelloIsNoNews /\ ListIsCurrent

StopInv == StopTypes /\ PressedFor /\ PageDark /\ Underway

LEMMA Words ==
  /\ \A b \in BOOLEAN : Stop!Word(b) \in {"on", "off"} /\ (Stop!Word(b) = "on" <=> b)
  /\ \A m \in Stop!Message : IsList(m) => m.screen \in {"on", "off"}
BY DEF Stop!Word, Stop!Message, IsList

\* A message published is the last one under way.
LEMMA Published ==
  ASSUME StopInv, shares' \in BOOLEAN, NEW m \in Stop!Message, Stop!Publish(m), Len(toPage) < MaxQueue,
         UNCHANGED <<pending, list, frame, asked, linked>>,
         IsList(m) => /\ m.screen = Stop!Word(shares') /\ kept' = Stop!Word(shares')
                      /\ m.type = "hello" => shares' = shares,
         ~IsList(m) => shares' = shares /\ kept' = kept /\ (macLinked' => macLinked)
  PROVE  Underway'
<1>1. CASE ~linked
  <2>1. toPage' = toPage /\ toPage = <<>>
    BY <1>1 DEF Stop!Publish, StopInv, Underway, PageQueue
  <2>2. PageQueue'
    BY <2>1 DEF StopInv, Underway, PageQueue
  <2>3. KeptIsCurrent'
    BY <2>1, Words DEF StopInv, Underway, KeptIsCurrent, NoLists
  <2> QED BY <1>1, <2>1, <2>2, <2>3 DEF Underway, NewestIsCurrent, HelloIsNoNews, ListIsCurrent
<1>2. CASE linked
  <2>1. toPage' = Append(toPage, m) /\ toPage \in Seq(Stop!Message) /\ Len(toPage) \in Nat
    BY <1>2 DEF Stop!Publish, StopInv, Underway, PageQueue
  <2>2. /\ toPage' \in Seq(Stop!Message) /\ Len(toPage') = Len(toPage) + 1
        /\ toPage'[Len(toPage) + 1] = m /\ \A i \in 1 .. Len(toPage) : toPage'[i] = toPage[i]
    BY <2>1
  <2>3. PICK n \in Nat : n = Len(toPage)
    BY <2>1
  <2>4. PageQueue'
    BY <1>2, <2>1, <2>2, PageAssumption DEF PageQueue
  <2>5. NoLists' => ~IsList(m) /\ NoLists
    BY <2>1, <2>2 DEF NoLists
  <2>6. KeptIsCurrent'
    <3>1. CASE IsList(m)
      BY <3>1, Words DEF KeptIsCurrent
    <3>2. CASE ~IsList(m)
      BY <2>1, <2>2, <3>2 DEF StopInv, Underway, KeptIsCurrent, NoLists
    <3> QED BY <3>1, <3>2
  <2>7. NewestIsCurrent'
    <3> SUFFICES ASSUME NEW i \in 1 .. (n + 1), IsList(toPage'[i]), toPage'[i].screen # Stop!Word(shares')
                 PROVE  \E k \in (i + 1) .. (n + 1) : IsList(toPage'[k]) /\ toPage'[k].screen = Stop!Word(shares')
      BY <2>2, <2>3 DEF NewestIsCurrent
    <3>1. CASE i = n + 1
      BY <2>2, <2>3, <3>1
    <3>2. CASE i # n + 1 /\ IsList(m)
      BY <2>2, <2>3, <3>2
    <3>3. CASE i # n + 1 /\ ~IsList(m)
      <4>1. PICK k \in (i + 1) .. n : IsList(toPage[k]) /\ toPage[k].screen = Stop!Word(shares)
        BY <2>2, <2>3, <3>3 DEF StopInv, Underway, NewestIsCurrent
      <4> QED BY <2>2, <2>3, <3>3, <4>1
    <3> QED BY <3>1, <3>2, <3>3
  <2>8. HelloIsNoNews'
    <3> SUFFICES ASSUME NEW i \in 1 .. (n + 1), toPage'[i].type = "hello", toPage'[i].screen = "off"
                 PROVE  /\ \A j \in 1 .. (i - 1) : IsList(toPage'[j]) /\ toPage'[j].screen = "on" =>
                             \E k \in (j + 1) .. (i - 1) : IsList(toPage'[k]) /\ toPage'[k].screen = "off"
                        /\ (\A j \in 1 .. (i - 1) : ~IsList(toPage'[j])) => list' # "on" \/ (i = 1 /\ ~frame')
      BY <2>2, <2>3 DEF HelloIsNoNews
    <3>1. CASE i # n + 1
      BY <2>2, <2>3, <3>1 DEF StopInv, Underway, HelloIsNoNews
    <3>2. CASE i = n + 1
      <4>1. IsList(m) /\ m.type = "hello" /\ shares' = shares /\ Stop!Word(shares) = "off" /\ ~shares
        BY <2>2, <2>3, <3>2, Words DEF IsList
      <4>2. ASSUME NEW j \in 1 .. n, IsList(toPage[j]), toPage[j].screen = "on"
            PROVE  \E k \in (j + 1) .. n : IsList(toPage[k]) /\ toPage[k].screen = "off"
        BY <2>3, <4>1, <4>2 DEF StopInv, Underway, NewestIsCurrent
      <4>3. (\A j \in 1 .. n : ~IsList(toPage[j])) => list # "on"
        BY <1>2, <2>3, <4>1 DEF StopInv, Underway, ListIsCurrent, NoLists
      <4> QED BY <2>2, <2>3, <3>2, <4>2, <4>3
    <3> QED BY <3>1, <3>2
  <2>9. ListIsCurrent'
    BY <1>2, <2>5 DEF StopInv, Underway, ListIsCurrent
  <2> QED BY <2>4, <2>6, <2>7, <2>8, <2>9 DEF Underway
<1> QED BY <1>1, <1>2 DEF StopInv, StopTypes

\* The first message under way is received.
LEMMA Received ==
  ASSUME StopInv, toPage # <<>>, toPage' = Tail(toPage),
         UNCHANGED <<linked, macLinked, shares, kept, asked>>, list' \in {"none", "off", "on"},
         IsList(Head(toPage)) =>
           /\ list' = Stop!Shown(Head(toPage).screen)
           /\ pending' = (pending /\ ~Stop!Confirms(Head(toPage))),
         ~IsList(Head(toPage)) => UNCHANGED <<list, pending>>
  PROVE  Underway'
<1>1. toPage \in Seq(Stop!Message) /\ Len(toPage) \in Nat /\ Len(toPage) >= 1 /\ Head(toPage) = toPage[1]
  BY DEF StopInv, Underway, PageQueue
<1>2. PICK n \in Nat : Len(toPage) = n + 1
  BY <1>1
<1>3. /\ toPage' \in Seq(Stop!Message) /\ Len(toPage') = n
      /\ \A i \in 1 .. n : toPage'[i] = toPage[i + 1]
  BY <1>1, <1>2
<1>4. PICK m \in Stop!Message : m = toPage[1]
  BY <1>1
<1>5. PageQueue'
  BY <1>2, <1>3, PageAssumption DEF StopInv, Underway, PageQueue
<1>6. NoLists' => \A i \in 2 .. (n + 1) : ~IsList(toPage[i])
  <2> SUFFICES ASSUME NoLists', NEW i \in 2 .. (n + 1) PROVE ~IsList(toPage[i])
    OBVIOUS
  <2>1. i - 1 \in 1 .. n /\ toPage'[i - 1] = toPage[i]
    BY <1>3
  <2> QED BY <1>3, <2>1 DEF NoLists
<1>7. KeptIsCurrent'
  <2>1. kept = "none" => NoLists /\ list = "none"
    BY DEF StopInv, Underway, KeptIsCurrent
  <2>2. NoLists => ~IsList(m)
    BY <1>2, <1>4 DEF NoLists
  <2>3. NoLists => NoLists'
    BY <1>2, <1>3 DEF NoLists
  <2> QED BY <1>1, <1>4, <2>1, <2>2, <2>3 DEF StopInv, Underway, KeptIsCurrent
<1>8. NewestIsCurrent'
  <2> SUFFICES ASSUME NEW i \in 1 .. n, IsList(toPage'[i]), toPage'[i].screen # Stop!Word(shares)
               PROVE  \E k \in (i + 1) .. n : IsList(toPage'[k]) /\ toPage'[k].screen = Stop!Word(shares)
    BY <1>3 DEF NewestIsCurrent
  <2>1. PICK k \in (i + 2) .. (n + 1) : IsList(toPage[k]) /\ toPage[k].screen = Stop!Word(shares)
    BY <1>2, <1>3 DEF StopInv, Underway, NewestIsCurrent
  <2>2. k - 1 \in (i + 1) .. n /\ toPage'[k - 1] = toPage[k]
    BY <1>3
  <2> QED BY <2>1, <2>2
<1>9. HelloIsNoNews'
  <2> SUFFICES ASSUME NEW i \in 1 .. n, toPage'[i].type = "hello", toPage'[i].screen = "off"
               PROVE  /\ \A j \in 1 .. (i - 1) : IsList(toPage'[j]) /\ toPage'[j].screen = "on" =>
                           \E k \in (j + 1) .. (i - 1) : IsList(toPage'[k]) /\ toPage'[k].screen = "off"
                      /\ (\A j \in 1 .. (i - 1) : ~IsList(toPage'[j])) => list' # "on"
    BY <1>3 DEF HelloIsNoNews
  <2>1. /\ \A j \in 1 .. i : IsList(toPage[j]) /\ toPage[j].screen = "on" =>
             \E k \in (j + 1) .. i : IsList(toPage[k]) /\ toPage[k].screen = "off"
        /\ (\A j \in 1 .. i : ~IsList(toPage[j])) => list # "on"
    <3>1. PICK l \in 1 .. Len(toPage) : l = i + 1
      BY <1>2
    <3>2. toPage[l].type = "hello" /\ toPage[l].screen = "off" /\ l # 1
      BY <1>3, <3>1
    <3>3. /\ \A j \in 1 .. (l - 1) : IsList(toPage[j]) /\ toPage[j].screen = "on" =>
               \E k \in (j + 1) .. (l - 1) : IsList(toPage[k]) /\ toPage[k].screen = "off"
          /\ (\A j \in 1 .. (l - 1) : ~IsList(toPage[j])) => list # "on"
      BY <3>2 DEF StopInv, Underway, HelloIsNoNews
    <3>4. l - 1 = i
      BY <3>1
    <3> QED BY <3>3, <3>4
  <2>2. ASSUME NEW j \in 1 .. (i - 1), IsList(toPage'[j]), toPage'[j].screen = "on"
        PROVE  \E k \in (j + 1) .. (i - 1) : IsList(toPage'[k]) /\ toPage'[k].screen = "off"
    <3>1. PICK k \in (j + 2) .. i : IsList(toPage[k]) /\ toPage[k].screen = "off"
      BY <1>3, <2>1, <2>2
    <3>2. k - 1 \in (j + 1) .. (i - 1) /\ toPage'[k - 1] = toPage[k]
      BY <1>3
    <3> QED BY <3>1, <3>2
  <2>3. ASSUME \A j \in 1 .. (i - 1) : ~IsList(toPage'[j]) PROVE list' # "on"
    <3>1. ASSUME NEW j \in 2 .. i PROVE ~IsList(toPage[j])
      <4>1. j - 1 \in 1 .. (i - 1) /\ toPage'[j - 1] = toPage[j]
        BY <1>3
      <4> QED BY <2>3, <4>1
    <3>2. IsList(m) => m.screen = "off"
      BY <1>4, <2>1, <3>1, Words
    <3>3. ~IsList(m) => list # "on"
      BY <1>4, <2>1, <3>1
    <3> QED BY <1>1, <1>4, <3>2, <3>3 DEF Stop!Shown
  <2> QED BY <2>2, <2>3
<1>10. ListIsCurrent'
  <2> SUFFICES ASSUME linked, NoLists'
               PROVE  /\ list' = "on" => shares
                      /\ macLinked /\ shares => list' # "off" \/ pending' \/ asked = "start"
    BY DEF ListIsCurrent
  <2>1. CASE IsList(m)
    <3>1. m.screen = Stop!Word(shares)
      BY <1>2, <1>4, <1>6, <2>1 DEF StopInv, Underway, NewestIsCurrent
    <3>2. m.screen = "on" <=> shares
      BY <3>1, Words DEF StopInv, StopTypes
    <3> QED BY <1>1, <1>4, <2>1, <3>2, Words DEF Stop!Shown, Stop!Confirms
  <2>2. CASE ~IsList(m)
    <3>1. NoLists
      BY <1>2, <1>4, <1>6, <2>2 DEF NoLists
    <3> QED BY <1>1, <1>4, <2>2, <3>1 DEF StopInv, Underway, ListIsCurrent
  <2> QED BY <2>1, <2>2
<1> QED BY <1>5, <1>7, <1>8, <1>9, <1>10 DEF Underway

\* A command joins those under way, or is there already.
LEMMA Commanded ==
  ASSUME StopInv, presses' \in Nat, NEW command \in {"start", "stop"}, toMac' = Stop!With(command),
         \/ presses' = presses + 1 /\ (command = "start" => ~pending')
         \/ presses' = presses /\ pending /\ command = "stop"
  PROVE  PressedFor'
<1>1. toMac \in Seq({"start", "stop"}) /\ Len(toMac) \in Nat /\ presses \in Nat /\ Len(toMac) <= presses
  BY DEF StopInv, StopTypes, PressedFor
<1>2. CASE command = "stop" /\ toMac # <<>> /\ toMac[Len(toMac)] = "stop"
  BY <1>1, <1>2 DEF Stop!With, Stop!Last, PressedFor
<1>3. CASE ~(command = "stop" /\ toMac # <<>> /\ toMac[Len(toMac)] = "stop")
  <2>1. toMac' = Append(toMac, command)
    BY <1>3 DEF Stop!With, Stop!Last
  <2>2. /\ toMac' \in Seq({"start", "stop"}) /\ Len(toMac') = Len(toMac) + 1
        /\ toMac'[Len(toMac')] = command /\ toMac' # <<>>
    BY <1>1, <2>1
  <2>3. CASE presses' = presses + 1
    BY <1>1, <2>2, <2>3 DEF PressedFor
  <2>4. CASE presses' = presses
    <3>1. toMac = <<>> \/ toMac[Len(toMac)] = "start"
      BY <1>1, <1>3, <2>4
    <3> QED BY <1>1, <2>2, <2>4, <3>1 DEF StopInv, PressedFor
  <2> QED BY <2>3, <2>4
<1> QED BY <1>2, <1>3

LEMMA CommandsStay ==
  ASSUME StopInv, presses' \in {presses, presses + 1}, toMac' = toMac,
         pending' => pending \/ presses' = presses + 1
  PROVE  PressedFor'
BY DEF StopInv, StopTypes, PressedFor

LEMMA CommandsLost ==
  ASSUME StopInv, presses' = presses, toMac' = <<>>, pending' => pending
  PROVE  PressedFor'
<1>1. toMac \in Seq({"start", "stop"}) /\ Len(toMac) \in Nat /\ presses \in Nat /\ Len(toMac) <= presses
  BY DEF StopInv, StopTypes, PressedFor
<1>2. toMac' \in Seq({"start", "stop"}) /\ Len(toMac') = 0
  OBVIOUS
<1>3. pending => 0 < presses
  BY <1>1 DEF StopInv, PressedFor
<1> QED BY <1>1, <1>2, <1>3 DEF PressedFor

LEMMA CommandTaken ==
  ASSUME StopInv, presses' = presses, pending' = pending, toMac # <<>>, toMac' = Tail(toMac)
  PROVE  PressedFor'
<1>1. /\ toMac \in Seq({"start", "stop"}) /\ Len(toMac) \in Nat /\ presses \in Nat /\ Len(toMac) <= presses
      /\ Len(toMac) >= 1
  BY DEF StopInv, StopTypes, PressedFor
<1>2. /\ toMac' \in Seq({"start", "stop"}) /\ Len(toMac') = Len(toMac) - 1
      /\ \A i \in 1 .. Len(toMac') : toMac'[i] = toMac[i + 1]
  BY <1>1
<1>3. toMac' # <<>> => toMac'[Len(toMac')] = toMac[Len(toMac)]
  BY <1>1, <1>2
<1> QED BY <1>1, <1>2, <1>3 DEF StopInv, PressedFor

\* Nothing arrives, and neither the Mac nor a link changes.
LEMMA NothingArrives ==
  ASSUME StopInv, UNCHANGED <<toPage, linked, macLinked, shares, kept>>,
         list' # list => list' = "off" /\ pending' /\ list # "none",
         pending' # pending => (pending' /\ asked' = "stop") \/ (~pending' /\ asked' = "start"),
         asked' # asked => pending' \/ asked' = "start",
         frame' => frame
  PROVE  Underway'
<1>1. PageQueue' /\ KeptIsCurrent' /\ NewestIsCurrent'
  BY DEF StopInv, Underway, PageQueue, KeptIsCurrent, NewestIsCurrent, NoLists
<1>2. HelloIsNoNews'
  BY DEF StopInv, Underway, HelloIsNoNews
<1>3. ListIsCurrent'
  BY DEF StopInv, StopTypes, Underway, ListIsCurrent, NoLists
<1> QED BY <1>1, <1>2, <1>3 DEF Underway

LEMMA StopPressed == ASSUME StopInv, Stop!PressStop \/ Stop!PressStart PROVE StopInv'
<1> USE DEF Stop!mac, Stop!links
<1>1. presses \in Nat /\ presses' = presses + 1 /\ presses' \in 0 .. MaxPresses
  BY PageAssumption DEF Stop!PressStop, Stop!PressStart, StopInv, StopTypes
<1>2. StopTypes'
  BY <1>1 DEF Stop!PressStop, Stop!PressStart, Stop!Off, StopInv, StopTypes
<1>3. PressedFor'
  <2>1. CASE Stop!PressStop
    <3>1. toMac' = toMac \/ toMac' = Stop!With("stop")
      BY <2>1 DEF Stop!PressStop, Stop!Send
    <3> QED BY <1>1, <3>1, CommandsStay, Commanded
  <2>2. CASE Stop!PressStart
    <3>1. (toMac' = toMac \/ toMac' = Stop!With("start")) /\ ~pending'
      BY <2>2 DEF Stop!PressStart, Stop!Send
    <3> QED BY <1>1, <3>1, CommandsStay, Commanded
  <2> QED BY <2>1, <2>2
<1>4. PageDark'
  BY DEF Stop!PressStop, Stop!PressStart, Stop!Off, StopInv, StopTypes, PageDark
<1>5. Underway'
  BY NothingArrives DEF Stop!PressStop, Stop!PressStart, Stop!Off, StopInv, StopTypes
<1> QED BY <1>2, <1>3, <1>4, <1>5 DEF StopInv

LEMMA StopWarned == ASSUME StopInv, Stop!Warn PROVE StopInv'
<1> USE DEF Stop!mac, Stop!links, Stop!bounds
<1>1. StopTypes' /\ PageDark'
  BY DEF Stop!Warn, Stop!Off, StopInv, StopTypes, PageDark
<1>2. PressedFor'
  BY Commanded DEF Stop!Warn, StopInv, StopTypes
<1>3. Underway'
  BY NothingArrives DEF Stop!Warn, Stop!Off, StopInv, StopTypes
<1> QED BY <1>1, <1>2, <1>3 DEF StopInv

LEMMA StopReceived == ASSUME StopInv, Stop!Receive PROVE StopInv'
<1> USE DEF Stop!mac, Stop!links, Stop!bounds
<1>1. toPage \in Seq(Stop!Message) /\ toPage # <<>> /\ toPage' = Tail(toPage)
  BY DEF Stop!Receive, Stop!ReceiveList, Stop!ReceivePresence, Stop!ReceiveFrame, StopInv, Underway, PageQueue
<1>2. PICK m \in Stop!Message : m = Head(toPage) /\ m = toPage[1]
  BY <1>1
<1>3. CASE Stop!ReceiveList
  <2>1. /\ m.type \in {"apps", "hello"} /\ IsList(m) /\ m.screen \in {"on", "off"}
        /\ m.type = "apps" \/ m.type = "hello"
    BY <1>2, <1>3, Words DEF Stop!ReceiveList, IsList
  <2>2. /\ list' = Stop!Shown(m.screen) /\ pending' = (pending /\ ~Stop!Confirms(m))
        /\ frame' = (frame /\ (m.type = "hello" \/ Stop!Shown(m.screen) = "on") /\ ~pending)
        /\ macOnline' = (macOnline \/ ~m.cached)
        /\ toMac' = IF Stop!Flush THEN Stop!With("stop") ELSE toMac
        /\ UNCHANGED <<asked, shares, kept, linked, macLinked, presses, drops, atMac>>
    BY <1>2, <1>3 DEF Stop!ReceiveList
  <2>3. StopTypes'
    BY <2>1, <2>2 DEF StopInv, StopTypes, Stop!Shown
  <2>4. Underway'
    <3>1. IsList(Head(toPage)) =>
            /\ list' = Stop!Shown(Head(toPage).screen)
            /\ pending' = (pending /\ ~Stop!Confirms(Head(toPage)))
      BY <1>3 DEF Stop!ReceiveList
    <3>2. IsList(Head(toPage)) /\ list' \in {"none", "off", "on"}
      BY <1>2, <2>1, <2>3 DEF StopTypes
    <3>3. UNCHANGED <<linked, macLinked, shares, kept, asked>>
      BY <2>2
    <3> QED BY <1>1, <3>1, <3>2, <3>3, Received
  <2>5. PageDark'
    <3>1. m.type = "hello" /\ m.screen = "off" => list # "on" \/ ~frame
      <4>1. 1 \in 1 .. Len(toPage)
        BY <1>1
      <4> QED BY <1>2, <2>1, <4>1 DEF StopInv, Underway, HelloIsNoNews
    <3> QED BY <2>1, <2>2, <3>1 DEF StopInv, PageDark, Stop!Shown
  <2>6. PressedFor'
    <3>1. CASE Stop!Flush
      BY <2>2, <3>1, Commanded DEF Stop!Flush, StopInv, StopTypes
    <3>2. CASE ~Stop!Flush
      BY <2>2, <3>2, CommandsStay
    <3> QED BY <3>1, <3>2
  <2> QED BY <2>3, <2>4, <2>5, <2>6 DEF StopInv
<1>4. CASE Stop!ReceivePresence
  <2>1. /\ ~IsList(m) /\ m.on \in BOOLEAN /\ macOnline' = m.on
        /\ UNCHANGED <<pending, list, frame, asked, shares, kept, linked, macLinked, toMac, presses, drops, atMac>>
    BY <1>2, <1>4 DEF Stop!ReceivePresence, IsList, Stop!Message
  <2>2. StopTypes' /\ PageDark'
    BY <2>1 DEF StopInv, StopTypes, PageDark
  <2>3. Underway'
    BY <1>1, <1>2, <2>1, <2>2, Received DEF StopTypes
  <2>4. PressedFor'
    BY <2>1, CommandsStay
  <2> QED BY <2>2, <2>3, <2>4 DEF StopInv
<1>5. CASE Stop!ReceiveFrame
  <2>1. /\ ~IsList(m) /\ frame' = (list = "on" /\ ~pending) /\ macOnline' = TRUE
        /\ UNCHANGED <<pending, list, asked, shares, kept, linked, macLinked, toMac, presses, drops, atMac>>
    BY <1>2, <1>5 DEF Stop!ReceiveFrame, Stop!Accepted, IsList
  <2>2. StopTypes' /\ PageDark'
    BY <2>1 DEF StopInv, StopTypes, PageDark
  <2>3. Underway'
    BY <1>1, <1>2, <2>1, <2>2, Received DEF StopTypes
  <2>4. PressedFor'
    BY <2>1, CommandsStay
  <2> QED BY <2>2, <2>3, <2>4 DEF StopInv
<1> QED BY <1>3, <1>4, <1>5 DEF Stop!Receive

LEMMA MacPublished ==
  ASSUME StopInv,
         Stop!MacLinks \/ Stop!MacDrops \/ Stop!MacObeys \/ Stop!AtMac \/ Stop!MacSendsFrame
  PROVE  StopInv'
<1> USE DEF Stop!page, Stop!mac, Stop!links, Stop!bounds
<1>1. StopTypes' /\ PageDark'
  <2>1. CASE Stop!MacLinks
    <3>1. kept' = Stop!Word(shares) /\ macLinked' = TRUE
      BY <2>1 DEF Stop!MacLinks
    <3>2. kept' \in {"none", "off", "on"}
      BY <3>1, Words DEF StopInv, StopTypes
    <3> QED BY <2>1, <3>1, <3>2 DEF Stop!MacLinks, StopInv, StopTypes, PageDark
  <2>2. CASE Stop!MacDrops
    <3>1. drops' \in 0 .. MaxDrops
      BY <2>2, PageAssumption DEF Stop!MacDrops, StopInv, StopTypes
    <3> QED BY <2>2, <3>1 DEF Stop!MacDrops, StopInv, StopTypes, PageDark
  <2>3. CASE Stop!MacObeys
    <3>1. shares' \in BOOLEAN /\ kept' = Stop!Word(shares')
      BY <2>3 DEF Stop!MacObeys
    <3>2. kept' \in {"none", "off", "on"}
      BY <3>1, Words
    <3> QED BY <2>3, <3>1, <3>2 DEF Stop!MacObeys, StopInv, StopTypes, PageDark
  <2>4. CASE Stop!AtMac
    <3>1. shares' \in BOOLEAN /\ kept' = Stop!Word(shares')
      BY <2>4 DEF Stop!AtMac
    <3>2. kept' \in {"none", "off", "on"}
      BY <3>1, Words
    <3>3. atMac' \in 0 .. MaxAtMac
      BY <2>4, PageAssumption DEF Stop!AtMac, StopInv, StopTypes
    <3> QED BY <2>4, <3>1, <3>2, <3>3 DEF Stop!AtMac, StopInv, StopTypes, PageDark
  <2>5. CASE Stop!MacSendsFrame
    BY <2>5 DEF Stop!MacSendsFrame, StopInv, StopTypes, PageDark
  <2> QED BY <2>1, <2>2, <2>3, <2>4, <2>5
<1>2. PressedFor'
  <2>1. CASE toMac' = toMac
    BY <2>1, CommandsStay DEF Stop!MacLinks, Stop!MacDrops, Stop!MacObeys, Stop!AtMac, Stop!MacSendsFrame
  <2>2. CASE Stop!MacDrops
    BY <2>2, CommandsLost DEF Stop!MacDrops
  <2>3. CASE Stop!MacObeys
    BY <2>3, CommandTaken DEF Stop!MacObeys
  <2> QED BY <2>1, <2>2, <2>3 DEF Stop!MacLinks, Stop!AtMac, Stop!MacSendsFrame
<1>3. Underway'
  <2>0. shares' \in BOOLEAN
    BY <1>1 DEF StopTypes
  <2>1. CASE Stop!MacLinks
    <3>1. PICK m : m = [type |-> "hello", screen |-> Stop!Word(shares), cached |-> FALSE]
      OBVIOUS
    <3>2. m \in Stop!Message /\ m.type = "hello" /\ m.screen = Stop!Word(shares) /\ IsList(m)
      BY <3>1, Words DEF Stop!Message, IsList, StopInv, StopTypes
    <3>3. /\ Stop!Publish(m) /\ Len(toPage) < MaxQueue /\ shares' = shares /\ kept' = Stop!Word(shares)
          /\ UNCHANGED <<pending, list, frame, asked, linked>>
      BY <2>1, <3>1 DEF Stop!MacLinks
    <3> QED BY <2>0, <3>2, <3>3, Published
  <2>2. CASE Stop!MacDrops
    <3>1. PICK m : m = [type |-> "presence", on |-> FALSE]
      OBVIOUS
    <3>2. m \in Stop!Message /\ ~IsList(m)
      BY <3>1 DEF Stop!Message, IsList
    <3>3. /\ Stop!Publish(m) /\ Len(toPage) < MaxQueue /\ macLinked' = FALSE
          /\ UNCHANGED <<pending, list, frame, asked, linked, shares, kept>>
      BY <2>2, <3>1 DEF Stop!MacDrops
    <3> QED BY <2>0, <3>2, <3>3, Published
  <2>3. CASE Stop!MacObeys \/ Stop!AtMac
    <3>1. PICK b \in BOOLEAN : b = shares'
      BY <2>0
    <3>2. PICK m : m = Stop!AppList(b)
      OBVIOUS
    <3>3. m \in Stop!Message /\ m.type = "apps" /\ m.screen = Stop!Word(b) /\ IsList(m)
      BY <3>2, Words DEF Stop!AppList, Stop!Message, IsList
    <3>4. /\ Stop!Publish(Stop!AppList(shares')) /\ Len(toPage) < MaxQueue
          /\ kept' = Stop!Word(shares') /\ UNCHANGED <<pending, list, frame, asked, linked>>
      BY <2>3 DEF Stop!MacObeys, Stop!AtMac
    <3>5. Stop!Publish(m) /\ m.screen = Stop!Word(shares')
      BY <3>1, <3>2, <3>3, <3>4
    <3> QED BY <2>0, <3>3, <3>4, <3>5, Published
  <2>4. CASE Stop!MacSendsFrame
    <3>1. PICK m : m = [type |-> "frame"]
      OBVIOUS
    <3>2. m \in Stop!Message /\ ~IsList(m)
      BY <3>1 DEF Stop!Message, IsList
    <3>3. /\ Stop!Publish(m) /\ Len(toPage) < MaxQueue
          /\ UNCHANGED <<pending, list, frame, asked, linked, macLinked, shares, kept>>
      BY <2>4, <3>1 DEF Stop!MacSendsFrame
    <3> QED BY <2>0, <3>2, <3>3, Published
  <2> QED BY <2>1, <2>2, <2>3, <2>4
<1> QED BY <1>1, <1>2, <1>3 DEF StopInv

\* A page without a connection has nothing under way to it.
LEMMA NothingUnderway ==
  ASSUME StopInv, toPage' = <<>>, linked' = FALSE, list' \in {list, "none"}, UNCHANGED <<macLinked, shares, kept>>
  PROVE  Underway'
<1>1. toPage' \in Seq(Stop!Message) /\ Len(toPage') = 0
  OBVIOUS
<1>2. PageQueue'
  BY <1>1, PageAssumption DEF PageQueue
<1>3. KeptIsCurrent'
  BY <1>1 DEF StopInv, Underway, KeptIsCurrent, NoLists
<1> QED BY <1>1, <1>2, <1>3 DEF Underway, NewestIsCurrent, HelloIsNoNews, ListIsCurrent

LEMMA PageLeft == ASSUME StopInv, Stop!Leave \/ Stop!PageDrops PROVE StopInv'
<1> USE DEF Stop!mac, Stop!links, Stop!bounds
<1>1. StopTypes' /\ PageDark'
  <2>1. CASE Stop!Leave
    BY <2>1 DEF Stop!Leave, StopInv, StopTypes, PageDark
  <2>2. CASE Stop!PageDrops
    <3>1. drops' \in 0 .. MaxDrops
      BY <2>2, PageAssumption DEF Stop!PageDrops, StopInv, StopTypes
    <3> QED BY <2>2, <3>1 DEF Stop!PageDrops, StopInv, StopTypes, PageDark
  <2> QED BY <2>1, <2>2
<1>2. PressedFor'
  BY CommandsStay, CommandsLost DEF Stop!Leave, Stop!PageDrops
<1>3. Underway'
  BY NothingUnderway DEF Stop!Leave, Stop!PageDrops
<1> QED BY <1>1, <1>2, <1>3 DEF StopInv

\* What the relay sends a page first: its list twice, then who is there.
LEMMA PageWelcomed == ASSUME StopInv, Stop!PageLinks PROVE StopInv'
<1> USE DEF Stop!mac, Stop!bounds
<1>1. /\ ~linked /\ linked' = TRUE /\ list' \in {list, Stop!Off(list)} /\ frame' = FALSE
      /\ macOnline' = FALSE /\ toPage' = Stop!Welcome
      /\ UNCHANGED <<pending, asked, macLinked, shares, kept, toMac, presses, drops, atMac>>
  BY DEF Stop!PageLinks
<1>2. StopTypes' /\ PageDark'
  BY <1>1 DEF Stop!Off, StopInv, StopTypes, PageDark
<1>3. PressedFor'
  BY <1>1, CommandsStay
<1>4. PICK p : p = [type |-> "presence", on |-> macLinked]
  OBVIOUS
<1>5. p \in Stop!Message /\ ~IsList(p) /\ p.type = "presence"
  BY <1>4 DEF Stop!Message, IsList, StopInv, StopTypes
<1>6. CASE kept = "none"
  <2>0. PICK q : q = <<p>>
    OBVIOUS
  <2>1. q \in Seq(Stop!Message) /\ Len(q) = 1 /\ q[1] = p
    BY <1>5, <2>0
  <2>2. toPage' \in Seq(Stop!Message) /\ Len(toPage') = 1 /\ toPage'[1] = p
    <3>1. toPage' = <<>> \o q
      BY <1>1, <1>4, <1>6, <2>0 DEF Stop!Welcome
    <3> QED BY <2>1, <3>1
  <2>3. NoLists' /\ list' = "none" /\ ~macLinked
    BY <1>1, <1>4, <1>5, <1>6, <2>2 DEF NoLists, StopInv, Underway, KeptIsCurrent, Stop!Off
  <2>4. PageQueue' /\ KeptIsCurrent'
    BY <1>1, <1>6, <2>2, <2>3, PageAssumption DEF PageQueue, KeptIsCurrent
  <2>5. NewestIsCurrent' /\ HelloIsNoNews' /\ ListIsCurrent'
    BY <1>1, <1>4, <1>5, <2>2, <2>3 DEF NewestIsCurrent, HelloIsNoNews, ListIsCurrent, NoLists
  <2> QED BY <1>2, <1>3, <2>4, <2>5 DEF StopInv, Underway
<1>7. CASE kept # "none"
  <2>1. kept = Stop!Word(shares) /\ kept \in {"on", "off"}
    BY <1>7 DEF StopInv, StopTypes, Underway, KeptIsCurrent
  <2>2. PICK h \in Stop!Message, a \in Stop!Message :
          /\ h = [type |-> "hello", screen |-> kept, cached |-> TRUE]
          /\ a = [type |-> "apps", screen |-> kept, cached |-> TRUE]
    BY <2>1 DEF Stop!Message
  <2>3. IsList(h) /\ h.screen = kept /\ IsList(a) /\ a.screen = kept /\ a.type = "apps"
    BY <2>2 DEF IsList
  <2>0. PICK s, q : s = <<h, a>> /\ q = <<p>>
    OBVIOUS
  <2>4. /\ s \in Seq(Stop!Message) /\ Len(s) = 2 /\ s[1] = h /\ s[2] = a
        /\ q \in Seq(Stop!Message) /\ Len(q) = 1 /\ q[1] = p
    BY <1>5, <2>0
  <2>5. /\ toPage' \in Seq(Stop!Message) /\ Len(toPage') = 3
        /\ toPage'[1] = h /\ toPage'[2] = a /\ toPage'[3] = p
    <3>1. toPage' = s \o q
      BY <1>1, <1>4, <1>7, <2>0, <2>2 DEF Stop!Welcome
    <3>2. PICK t : t = s \o q
      OBVIOUS
    <3>3. /\ t \in Seq(Stop!Message) /\ Len(t) = 3
          /\ \A i \in 1 .. 3 : t[i] = IF i <= 2 THEN s[i] ELSE q[i - 2]
      BY <2>4, <3>2, ConcatProperties
    <3>4. t[1] = s[1] /\ t[2] = s[2] /\ t[3] = q[1]
      BY <3>3
    <3> QED BY <2>4, <3>1, <3>2, <3>3, <3>4
  <2>6. PageQueue'
    BY <1>1, <2>5, PageAssumption DEF PageQueue
  <2>7. KeptIsCurrent'
    BY <1>1, <1>7, <2>1 DEF KeptIsCurrent
  <2>8. NewestIsCurrent'
    BY <1>1, <1>4, <1>5, <2>1, <2>3, <2>5 DEF NewestIsCurrent
  <2>9. HelloIsNoNews'
    BY <1>1, <1>4, <1>5, <2>3, <2>5 DEF HelloIsNoNews
  <2>10. ListIsCurrent'
    BY <2>3, <2>5 DEF ListIsCurrent, NoLists
  <2> QED BY <1>2, <1>3, <2>6, <2>7, <2>8, <2>9, <2>10 DEF StopInv, Underway
<1> QED BY <1>6, <1>7

LEMMA StopNextKeeps == StopInv /\ [Stop!Next]_(Stop!vars) => StopInv'
<1> SUFFICES ASSUME StopInv, [Stop!Next]_(Stop!vars) PROVE StopInv'
  OBVIOUS
<1>1. CASE UNCHANGED Stop!vars
  <2>1. UNCHANGED <<pending, list, frame, macOnline, asked, shares, kept, linked, macLinked, toMac, toPage,
                    presses, drops, atMac>>
    BY <1>1 DEF Stop!vars, Stop!page, Stop!mac, Stop!links, Stop!bounds
  <2>2. Underway' /\ PressedFor'
    BY <2>1, NothingArrives, CommandsStay
  <2> QED BY <2>1, <2>2 DEF StopInv, StopTypes, PageDark
<1> QED BY <1>1, StopPressed, StopWarned, StopReceived, MacPublished, PageLeft, PageWelcomed DEF Stop!Next

\* A page that shows the screen as off, once nothing is under way, is right or
\* still asks, and it never shows a frame then, however the links drop and come
\* back and whoever turns the sharing on and off (pendingScreenStop,
\* shouldAcceptRelayScreenFrame).
THEOREM ScreenStopHolds == Stop!Spec => []StopHolds
<1>1. Stop!Init => StopInv
  <2> SUFFICES ASSUME Stop!Init PROVE StopInv
    OBVIOUS
  <2>1. /\ toPage \in Seq(Stop!Message) /\ Len(toPage) = 0
        /\ toMac \in Seq({"start", "stop"}) /\ Len(toMac) = 0
    BY DEF Stop!Init
  <2>2. presses \in 0 .. MaxPresses /\ drops \in 0 .. MaxDrops /\ atMac \in 0 .. MaxAtMac /\ presses = 0
    BY PageAssumption DEF Stop!Init
  <2>3. StopTypes /\ PressedFor /\ PageDark
    <3>1. StopTypes
      BY <2>2 DEF Stop!Init, StopTypes
    <3>2. PressedFor /\ PageDark
      BY <2>1, <2>2 DEF Stop!Init, PressedFor, PageDark
    <3> QED BY <3>1, <3>2
  <2>4. Underway
    BY <2>1, PageAssumption DEF Stop!Init, Underway, PageQueue, KeptIsCurrent, NewestIsCurrent, HelloIsNoNews,
       ListIsCurrent, NoLists
  <2> QED BY <2>3, <2>4 DEF StopInv
<1>2. StopInv => StopHolds
  <2> SUFFICES ASSUME StopInv PROVE StopHolds
    OBVIOUS
  <2>1. /\ toMac \in Seq({"start", "stop"}) /\ Len(toMac) <= MaxPresses + 1
        /\ toPage \in Seq(Stop!Message) /\ Len(toPage) <= MaxQueue + 3
    BY PageAssumption DEF StopInv, StopTypes, PressedFor, Underway, PageQueue
  <2>2. Stop!TypeOK
    BY <2>1 DEF StopInv, StopTypes, PageDark, Stop!TypeOK
  <2>3. Stop!OffIsTrueOrAsked
    <3>1. toPage = <<>> => NoLists
      BY DEF NoLists
    <3> QED BY <3>1 DEF StopInv, Underway, ListIsCurrent, Stop!OffIsTrueOrAsked, Stop!Quiet
  <2>4. Stop!FrameIsOfAnOpenScreen
    BY DEF StopInv, PageDark, Stop!FrameIsOfAnOpenScreen
  <2> QED BY <2>2, <2>3, <2>4 DEF StopHolds, Stop!StopHolds
<1> QED BY <1>1, <1>2, StopNextKeeps, PTL DEF Stop!Spec

-----------------------------------------------------------------------------
(* Uploads.  What ReportIsTrue says of a batch that ended rests on what the *)
(* Mac has of one under way: never its last piece, and, of a batch of which *)
(* nothing was lost, every piece before the one it is at.                   *)

Progress == [app : Apps, path : {"none"} \cup Upload!Paths, file : 1 .. Files, chunk : 1 .. Chunks]

UploadTypes ==
  /\ card \in Apps
  /\ draft \in BOOLEAN /\ picked \in BOOLEAN /\ uploading \in BOOLEAN /\ readOnly \in BOOLEAN
  /\ uploads \in [Upload!Batches -> Progress \cup {None}]
  /\ parts \in [Upload!Paths -> [Upload!Batches -> SUBSET Upload!Pieces]]
  /\ prompts \in [Upload!Batches -> 0 .. 1]
  /\ reported \in [Upload!Batches -> {"no", "sent", "failed"}]
  /\ whole \subseteq Upload!Batches

LastPiece == <<Files, Chunks>>
Before(f, c) == {x \in Upload!Pieces : x[1] < f \/ (x[1] = f /\ x[2] < c)}

\* A batch that was not sent lacks its last piece everywhere.
LacksLast(b) ==
  reported[b] # "sent" => prompts[b] = 0 /\ \A p \in Upload!Paths : LastPiece \notin parts[p][b]

\* One of which nothing was lost has arrived up to where it is.
HasArrived(b) ==
  b \in whole =>
    /\ reported[b] = "sent" => prompts[b] = 1
    /\ uploads[b] = None /\ reported[b] = "no" => parts["relay"][b] = {}
    /\ uploads[b] # None =>
         /\ uploads[b].path # "peer"
         /\ parts["relay"][b] = Before(uploads[b].file, uploads[b].chunk)

UploadInv ==
  /\ UploadTypes
  /\ \A b \in Upload!Batches :
       (uploads[b] # None => reported[b] = "no") /\ LacksLast(b) /\ HasArrived(b)

\* The order in which a batch hands over its pieces.
LEMMA PiecesInOrder ==
  /\ LastPiece \in Upload!Pieces
  /\ Before(1, 1) = {}
  /\ Before(Files, Chunks) \cup {LastPiece} = Upload!Pieces
  /\ \A f \in 1 .. Files, c \in 1 .. Chunks :
       /\ <<f, c>> \in Upload!Pieces /\ LastPiece \notin Before(f, c)
       /\ c < Chunks => Before(f, c) \cup {<<f, c>>} = Before(f, c + 1)
       /\ c = Chunks => Before(f, c) \cup {<<f, c>>} = Before(f + 1, 1)
       /\ <<f, c>> = LastPiece <=> f = Files /\ c = Chunks
<1> USE PageAssumption
<1>1. \A x \in Upload!Pieces : x = <<x[1], x[2]>> /\ x[1] \in 1 .. Files /\ x[2] \in 1 .. Chunks
  BY DEF Upload!Pieces
<1>2. LastPiece \in Upload!Pieces /\ LastPiece = <<Files, Chunks>>
  BY DEF LastPiece, Upload!Pieces
<1>3. Before(1, 1) = {}
  BY <1>1 DEF Before
<1>4. Before(Files, Chunks) \cup {LastPiece} = Upload!Pieces
  BY <1>1, <1>2 DEF Before
<1>5. ASSUME NEW f \in 1 .. Files, NEW c \in 1 .. Chunks
      PROVE  /\ <<f, c>> \in Upload!Pieces /\ LastPiece \notin Before(f, c)
             /\ c < Chunks => Before(f, c) \cup {<<f, c>>} = Before(f, c + 1)
             /\ c = Chunks => Before(f, c) \cup {<<f, c>>} = Before(f + 1, 1)
             /\ <<f, c>> = LastPiece <=> f = Files /\ c = Chunks
  <2>1. <<f, c>> \in Upload!Pieces
    BY DEF Upload!Pieces
  <2>2. LastPiece \notin Before(f, c)
    BY <1>2 DEF Before
  <2>3. c < Chunks => Before(f, c) \cup {<<f, c>>} = Before(f, c + 1)
    BY <1>1, <2>1 DEF Before
  <2>4. c = Chunks => Before(f, c) \cup {<<f, c>>} = Before(f + 1, 1)
    BY <1>1, <2>1 DEF Before
  <2>5. <<f, c>> = LastPiece <=> f = Files /\ c = Chunks
    BY DEF LastPiece
  <2> QED BY <2>1, <2>2, <2>3, <2>4, <2>5
<1> QED BY <1>2, <1>3, <1>4, <1>5

\* What the invariant says of one batch.
BatchInv(b) == (uploads[b] # None => reported[b] = "no") /\ LacksLast(b) /\ HasArrived(b)

\* A step of batch b leaves the others as they are.
OthersStay(b) ==
  \A d \in Upload!Batches \ {b} :
    /\ uploads'[d] = uploads[d] /\ reported'[d] = reported[d] /\ prompts'[d] = prompts[d]
    /\ (d \in whole') = (d \in whole)
    /\ \A p \in Upload!Paths : parts'[p][d] = parts[p][d]

LEMMA OneBatch ==
  ASSUME UploadInv, NEW b \in Upload!Batches, UploadTypes', OthersStay(b), BatchInv(b)'
  PROVE  UploadInv'
<1> SUFFICES ASSUME NEW d \in Upload!Batches, d # b PROVE BatchInv(d)'
  BY DEF UploadInv, BatchInv
<1>1. BatchInv(d)
  BY DEF UploadInv, BatchInv
<1>2. /\ uploads'[d] = uploads[d] /\ reported'[d] = reported[d] /\ prompts'[d] = prompts[d]
      /\ d \in whole' => d \in whole
      /\ \A p \in Upload!Paths : parts'[p][d] = parts[p][d]
  BY DEF OthersStay
<1>3. parts'["relay"][d] = parts["relay"][d]
  BY <1>2 DEF Upload!Paths
<1> QED BY <1>1, <1>2, <1>3 DEF BatchInv, LacksLast, HasArrived

IsAt(b, p, f, c) ==
  /\ uploads \in [Upload!Batches -> Progress \cup {None}]
  /\ uploads[b] # None /\ uploads[b].path = p /\ uploads[b].file = f /\ uploads[b].chunk = c

\* A batch goes to another place: nothing else of it changes.
LEMMA GoesToType ==
  ASSUME UploadInv, NEW b \in Upload!Batches, NEW a \in Apps, NEW p \in {"none"} \cup Upload!Paths,
         NEW f \in 1 .. Files, NEW c \in 1 .. Chunks, Upload!GoesTo(b, a, p, f, c)
  PROVE  /\ IsAt(b, p, f, c)'
         /\ \A d \in Upload!Batches \ {b} : uploads'[d] = uploads[d]
<1>1. PICK r : r = [app |-> a, path |-> p, file |-> f, chunk |-> c]
  OBVIOUS
<1>2. r \in Progress /\ r.path = p /\ r.file = f /\ r.chunk = c
  BY <1>1 DEF Progress
<1>3. Progress = Upload!Stage
  BY DEF Progress, Upload!Stage
<1>4. r # None
  BY <1>2, <1>3, PageAssumption
<1>5. uploads' = [uploads EXCEPT ![b] = r]
  BY <1>1 DEF Upload!GoesTo
<1> QED BY <1>1, <1>2, <1>4, <1>5 DEF UploadInv, UploadTypes, IsAt

\* A batch that ends: what is reported of it.
LEMMA BatchEnds ==
  ASSUME UploadInv, NEW b \in Upload!Batches, NEW as \in {"sent", "failed"},
         reported' = [reported EXCEPT ![b] = as], uploads' = [uploads EXCEPT ![b] = None]
  PROVE  /\ uploads' \in [Upload!Batches -> Progress \cup {None}] /\ uploads'[b] = None
         /\ reported' \in [Upload!Batches -> {"no", "sent", "failed"}] /\ reported'[b] = as
         /\ \A d \in Upload!Batches \ {b} : uploads'[d] = uploads[d] /\ reported'[d] = reported[d]
<1> QED BY DEF UploadInv, UploadTypes

LEMMA BatchStarts ==
  ASSUME UploadInv, NEW b \in Upload!Batches, Upload!SubmitFiles(b)
  PROVE  UploadInv'
<1>1. /\ Upload!GoesTo(b, card, "none", 1, 1) /\ reported[b] = "no" /\ uploads[b] = None
      /\ reported' = [reported EXCEPT ![b] = "no"] /\ uploading' = TRUE
      /\ UNCHANGED <<card, draft, picked, readOnly, parts, prompts, whole>>
  BY DEF Upload!SubmitFiles, Upload!NewBatch, Upload!Unused, Upload!mac
<1>2. card \in Apps /\ 1 \in 1 .. Files /\ 1 \in 1 .. Chunks /\ "none" \in {"none"} \cup Upload!Paths
  BY PageAssumption DEF UploadInv, UploadTypes
<1>3. /\ IsAt(b, "none", 1, 1)'
      /\ \A d \in Upload!Batches \ {b} : uploads'[d] = uploads[d]
  BY <1>1, <1>2, GoesToType
<1>4. reported' = reported
  BY <1>1 DEF UploadInv, UploadTypes
<1>5. UploadTypes'
  BY <1>1, <1>3, <1>4 DEF UploadInv, UploadTypes, IsAt
<1>6. OthersStay(b)
  BY <1>1, <1>3, <1>4 DEF OthersStay
<1>7. BatchInv(b)'
  BY <1>1, <1>3, <1>4, PiecesInOrder DEF UploadInv, BatchInv, LacksLast, HasArrived, IsAt
<1> QED BY <1>5, <1>6, <1>7, OneBatch

LEMMA FileStarts ==
  ASSUME UploadInv, NEW b \in Upload!Batches, Upload!StartFile(b)
  PROVE  UploadInv'
<1> DEFINE u == uploads[b]
<1>1. /\ u # None /\ u.path = "none" /\ u \in Progress
      /\ u.app \in Apps /\ u.file \in 1 .. Files /\ u.chunk \in 1 .. Chunks /\ reported[b] = "no"
  BY DEF Upload!StartFile, UploadInv, UploadTypes, Progress
<1>2. UNCHANGED <<card, readOnly, parts, prompts, whole>>
  BY DEF Upload!StartFile, Upload!mac
<1>3. CASE readOnly
  <2>1. Upload!NotSent(b)
    BY <1>3 DEF Upload!StartFile
  <2>2. /\ reported' = [reported EXCEPT ![b] = "failed"] /\ uploads' = [uploads EXCEPT ![b] = None]
        /\ uploading' = FALSE /\ UNCHANGED <<draft, picked>>
    BY <2>1 DEF Upload!NotSent
  <2>3. UploadTypes'
    BY <1>2, <2>2, BatchEnds DEF UploadInv, UploadTypes
  <2>4. OthersStay(b)
    BY <1>2, <2>2, BatchEnds DEF OthersStay
  <2>5. BatchInv(b)'
    BY <1>1, <1>2, <2>2, BatchEnds DEF UploadInv, BatchInv, LacksLast, HasArrived
  <2> QED BY <2>3, <2>4, <2>5, OneBatch
<1>4. CASE ~readOnly
  <2>1. PICK a \in Apps, f \in 1 .. Files, c \in 1 .. Chunks : a = u.app /\ f = u.file /\ c = u.chunk
    BY <1>1
  <2>2. Upload!GoesTo(b, a, "relay", f, c) /\ UNCHANGED <<draft, picked, uploading, reported>>
    BY <1>4, <2>1 DEF Upload!StartFile
  <2>3. "relay" \in {"none"} \cup Upload!Paths
    BY DEF Upload!Paths
  <2>4. IsAt(b, "relay", f, c)' /\ \A d \in Upload!Batches \ {b} : uploads'[d] = uploads[d]
    BY <2>2, <2>3, GoesToType
  <2>5. UploadTypes'
    BY <1>2, <2>2, <2>4 DEF UploadInv, UploadTypes, IsAt
  <2>6. OthersStay(b)
    BY <1>2, <2>2, <2>4 DEF OthersStay
  <2>7. BatchInv(b)'
    BY <1>1, <1>2, <2>1, <2>2, <2>4 DEF UploadInv, BatchInv, LacksLast, HasArrived, IsAt
  <2> QED BY <2>5, <2>6, <2>7, OneBatch
<1> QED BY <1>3, <1>4

LEMMA PathFails ==
  ASSUME UploadInv, NEW b \in Upload!Batches, Upload!PathRefuses(b)
  PROVE  UploadInv'
<1> DEFINE u == uploads[b]
<1>1. /\ u # None /\ u \in Progress
      /\ u.app \in Apps /\ u.file \in 1 .. Files /\ u.chunk \in 1 .. Chunks /\ reported[b] = "no"
  BY DEF Upload!PathRefuses, UploadInv, UploadTypes, Progress
<1>2. whole' = whole \ {b} /\ UNCHANGED <<card, readOnly, parts, prompts>>
  BY DEF Upload!PathRefuses, Upload!mac
<1>3. CASE u.path # "relay"
  <2>1. /\ reported' = [reported EXCEPT ![b] = "failed"] /\ uploads' = [uploads EXCEPT ![b] = None]
        /\ uploading' = FALSE /\ UNCHANGED <<draft, picked>>
    BY <1>3 DEF Upload!PathRefuses, Upload!NotSent
  <2>2. UploadTypes'
    BY <1>2, <2>1, BatchEnds DEF UploadInv, UploadTypes
  <2>3. OthersStay(b)
    BY <1>2, <2>1, BatchEnds DEF OthersStay
  <2>4. BatchInv(b)'
    BY <1>1, <1>2, <2>1, BatchEnds DEF UploadInv, BatchInv, LacksLast, HasArrived
  <2> QED BY <2>2, <2>3, <2>4, OneBatch
<1>4. CASE u.path = "relay"
  <2>1. PICK a \in Apps, f \in 1 .. Files : a = u.app /\ f = u.file
    BY <1>1
  <2>2. Upload!GoesTo(b, a, "peer", f, 1) /\ UNCHANGED <<draft, picked, uploading, reported>>
    BY <1>4, <2>1 DEF Upload!PathRefuses
  <2>3. "peer" \in {"none"} \cup Upload!Paths /\ 1 \in 1 .. Chunks
    BY PageAssumption DEF Upload!Paths
  <2>4. IsAt(b, "peer", f, 1)' /\ \A d \in Upload!Batches \ {b} : uploads'[d] = uploads[d]
    BY <2>2, <2>3, GoesToType
  <2>5. UploadTypes'
    BY <1>2, <2>2, <2>4 DEF UploadInv, UploadTypes, IsAt
  <2>6. OthersStay(b)
    BY <1>2, <2>2, <2>4 DEF OthersStay
  <2>7. BatchInv(b)'
    BY <1>1, <1>2, <2>2, <2>4 DEF UploadInv, BatchInv, LacksLast, HasArrived, IsAt
  <2> QED BY <2>5, <2>6, <2>7, OneBatch
<1> QED BY <1>3, <1>4

\* What a chunk does at the Mac: it completes the batch only as its last piece.
LEMMA ChunkArrives ==
  ASSUME UploadInv, NEW b \in Upload!Batches, NEW p \in Upload!Paths, NEW x \in Upload!Pieces,
         reported[b] = "no", Upload!Arrives(b, p, x)
  PROVE  /\ parts' \in [Upload!Paths -> [Upload!Batches -> SUBSET Upload!Pieces]]
         /\ prompts' \in [Upload!Batches -> 0 .. 1] /\ whole' = whole
         /\ \A d \in Upload!Batches \ {b} : /\ prompts'[d] = prompts[d]
                                            /\ \A q \in Upload!Paths : parts'[q][d] = parts[q][d]
         /\ x # LastPiece =>
              /\ prompts'[b] = 0 /\ \A q \in Upload!Paths : LastPiece \notin parts'[q][b]
              /\ parts'[p][b] = parts[p][b] \cup {x}
         /\ parts[p][b] \cup {x} = Upload!Pieces => prompts'[b] = 1
<1>1. PICK z : z = parts[p][b] \cup {x}
  OBVIOUS
<1>2. PICK y : y = IF z = Upload!Pieces THEN {} ELSE z
  OBVIOUS
<1>3. /\ parts \in [Upload!Paths -> [Upload!Batches -> SUBSET Upload!Pieces]]
      /\ prompts \in [Upload!Batches -> 0 .. 1] /\ prompts[b] = 0
      /\ \A q \in Upload!Paths : LastPiece \notin parts[q][b]
  BY DEF UploadInv, UploadTypes, LacksLast
<1>4. /\ parts' = [parts EXCEPT ![p][b] = y] /\ whole' = whole
      /\ prompts' = [prompts EXCEPT ![b] = @ + IF z = Upload!Pieces THEN 1 ELSE 0]
  BY <1>1, <1>2 DEF Upload!Arrives, Upload!Received, Upload!Complete
<1>5. z \in SUBSET Upload!Pieces /\ y \in SUBSET Upload!Pieces
  BY <1>1, <1>2, <1>3
<1>6. parts' \in [Upload!Paths -> [Upload!Batches -> SUBSET Upload!Pieces]]
  BY <1>3, <1>4, <1>5
<1>7. /\ parts'[p][b] = y
      /\ \A q \in Upload!Paths, d \in Upload!Batches : q # p \/ d # b => parts'[q][d] = parts[q][d]
  BY <1>3, <1>4, <1>5
<1>8. /\ prompts' \in [Upload!Batches -> 0 .. 1]
      /\ prompts'[b] = IF z = Upload!Pieces THEN 1 ELSE 0
      /\ \A d \in Upload!Batches \ {b} : prompts'[d] = prompts[d]
  BY <1>3, <1>4
<1>9. x # LastPiece => z # Upload!Pieces /\ LastPiece \notin z
  BY <1>1, <1>3, PiecesInOrder
<1>10. x # LastPiece => prompts'[b] = 0 /\ y = z
  BY <1>2, <1>8, <1>9
<1>11. x # LastPiece => \A q \in Upload!Paths : LastPiece \notin parts'[q][b]
  BY <1>3, <1>7, <1>9, <1>10
<1> QED BY <1>1, <1>4, <1>6, <1>7, <1>8, <1>10, <1>11

\* The end of a chunk that arrived or was lost: the batch goes on, or was sent.
LEMMA ChunkHandedOver ==
  ASSUME UploadInv, NEW b \in Upload!Batches, Upload!SendChunk(b)
  PROVE  UploadInv'
<1>1. PICK a \in Apps, p \in Upload!Paths, f \in 1 .. Files, c \in 1 .. Chunks :
        /\ uploads[b] # None /\ uploads[b].app = a /\ uploads[b].path = p
        /\ uploads[b].file = f /\ uploads[b].chunk = c
  BY DEF Upload!SendChunk, UploadInv, UploadTypes, Progress
<1>2. /\ reported[b] = "no" /\ prompts[b] = 0
      /\ \A q \in Upload!Paths : LastPiece \notin parts[q][b]
      /\ b \in whole => p = "relay" /\ parts["relay"][b] = Before(f, c)
  BY <1>1 DEF UploadInv, LacksLast, HasArrived, Upload!Paths
<1>3. /\ Upload!Arrives(b, p, <<f, c>>) \/ Upload!Lost(b)
      /\ \/ /\ c < Chunks /\ Upload!GoesTo(b, a, p, f, c + 1)
            /\ UNCHANGED <<draft, picked, uploading, reported>>
         \/ /\ c = Chunks /\ f < Files /\ Upload!GoesTo(b, a, "none", f + 1, 1)
            /\ UNCHANGED <<draft, picked, uploading, reported>>
         \/ c = Chunks /\ f = Files /\ Upload!Sent(b)
      /\ UNCHANGED <<card, readOnly>>
  BY <1>1 DEF Upload!SendChunk
<1>4. PICK x \in Upload!Pieces : x = <<f, c>>
  BY PiecesInOrder
\* What the Mac has of the batch now.
<1>5. /\ parts' \in [Upload!Paths -> [Upload!Batches -> SUBSET Upload!Pieces]]
      /\ prompts' \in [Upload!Batches -> 0 .. 1] /\ whole' \subseteq whole
      /\ \A d \in Upload!Batches \ {b} : /\ prompts'[d] = prompts[d] /\ (d \in whole') = (d \in whole)
                                         /\ \A q \in Upload!Paths : parts'[q][d] = parts[q][d]
      /\ x # LastPiece => prompts'[b] = 0 /\ \A q \in Upload!Paths : LastPiece \notin parts'[q][b]
      /\ b \in whole' =>
           /\ p = "relay"
           /\ x # LastPiece => parts'["relay"][b] = Before(f, c) \cup {x}
           /\ x = LastPiece => prompts'[b] = 1
  <2>1. CASE Upload!Arrives(b, p, <<f, c>>)
    <3>1. Upload!Arrives(b, p, x)
      BY <1>4, <2>1
    <3>2. b \in whole /\ x = LastPiece => parts[p][b] \cup {x} = Upload!Pieces
      BY <1>2, <1>4, PiecesInOrder
    <3> QED BY <1>2, <3>1, <3>2, ChunkArrives
  <2>2. CASE Upload!Lost(b)
    BY <1>2, <2>2 DEF Upload!Lost, Upload!mac, UploadInv, UploadTypes
  <2> QED BY <1>3, <2>1, <2>2
<1>6. whole' \subseteq Upload!Batches
  BY <1>5 DEF UploadInv, UploadTypes
<1>7. CASE c < Chunks
  <2>1. Upload!GoesTo(b, a, p, f, c + 1) /\ UNCHANGED <<draft, picked, uploading, reported>>
    BY <1>3, <1>7
  <2>2. PICK n \in 1 .. Chunks : n = c + 1
    BY <1>7, PageAssumption
  <2>3. Upload!GoesTo(b, a, p, f, n) /\ p \in {"none"} \cup Upload!Paths
    BY <2>1, <2>2
  <2>4. IsAt(b, p, f, n)' /\ \A d \in Upload!Batches \ {b} : uploads'[d] = uploads[d]
    BY <2>3, GoesToType
  <2>5. UploadTypes'
    BY <1>3, <1>5, <1>6, <2>1, <2>4 DEF UploadInv, UploadTypes, IsAt
  <2>6. OthersStay(b)
    BY <1>5, <2>1, <2>4 DEF OthersStay
  <2>7. x # LastPiece /\ Before(f, c) \cup {x} = Before(f, n)
    BY <1>4, <1>7, <2>2, PiecesInOrder
  <2>8. BatchInv(b)'
    BY <1>2, <1>5, <2>1, <2>4, <2>7 DEF BatchInv, LacksLast, HasArrived, IsAt
  <2> QED BY <2>5, <2>6, <2>8, OneBatch
<1>8. CASE c = Chunks /\ f < Files
  <2>1. Upload!GoesTo(b, a, "none", f + 1, 1) /\ UNCHANGED <<draft, picked, uploading, reported>>
    BY <1>3, <1>8
  <2>2. PICK n \in 1 .. Files : n = f + 1
    BY <1>8, PageAssumption
  <2>3. Upload!GoesTo(b, a, "none", n, 1) /\ "none" \in {"none"} \cup Upload!Paths /\ 1 \in 1 .. Chunks
    BY <2>1, <2>2, PageAssumption
  <2>4. IsAt(b, "none", n, 1)' /\ \A d \in Upload!Batches \ {b} : uploads'[d] = uploads[d]
    BY <2>3, GoesToType
  <2>5. UploadTypes'
    BY <1>3, <1>5, <1>6, <2>1, <2>4 DEF UploadInv, UploadTypes, IsAt
  <2>6. OthersStay(b)
    BY <1>5, <2>1, <2>4 DEF OthersStay
  <2>7. x # LastPiece /\ Before(f, c) \cup {x} = Before(n, 1)
    BY <1>4, <1>8, <2>2, PiecesInOrder
  <2>8. BatchInv(b)'
    BY <1>2, <1>5, <2>1, <2>4, <2>7 DEF BatchInv, LacksLast, HasArrived, IsAt
  <2> QED BY <2>5, <2>6, <2>8, OneBatch
<1>9. CASE c = Chunks /\ f = Files
  <2>1. /\ reported' = [reported EXCEPT ![b] = "sent"] /\ uploads' = [uploads EXCEPT ![b] = None]
        /\ draft' = FALSE /\ picked' = FALSE /\ uploading' = FALSE
    BY <1>3, <1>9 DEF Upload!Sent
  <2>2. UploadTypes'
    BY <1>3, <1>5, <1>6, <2>1, BatchEnds DEF UploadInv, UploadTypes
  <2>3. OthersStay(b)
    BY <1>5, <2>1, BatchEnds DEF OthersStay
  <2>4. x = LastPiece
    BY <1>4, <1>9, PiecesInOrder
  <2>5. BatchInv(b)'
    BY <1>5, <2>1, <2>4, BatchEnds DEF BatchInv, LacksLast, HasArrived
  <2> QED BY <2>2, <2>3, <2>5, OneBatch
<1> QED BY <1>3, <1>7, <1>8, <1>9

LEMMA BatchForgotten ==
  ASSUME UploadInv, NEW b \in Upload!Batches, NEW p \in Upload!Paths, Upload!Forget(p, b)
  PROVE  UploadInv'
<1>1. /\ parts' = [parts EXCEPT ![p][b] = {}] /\ whole' = whole \ {b}
      /\ UNCHANGED <<card, draft, picked, uploading, readOnly, uploads, prompts, reported>>
  BY DEF Upload!Forget, Upload!composer
<1>2. parts \in [Upload!Paths -> [Upload!Batches -> SUBSET Upload!Pieces]]
  BY DEF UploadInv, UploadTypes
<1>3. /\ parts' \in [Upload!Paths -> [Upload!Batches -> SUBSET Upload!Pieces]]
      /\ \A q \in Upload!Paths : parts'[q][b] \subseteq parts[q][b]
      /\ \A q \in Upload!Paths, d \in Upload!Batches \ {b} : parts'[q][d] = parts[q][d]
  BY <1>1, <1>2
<1>4. UploadTypes'
  BY <1>1, <1>3 DEF UploadInv, UploadTypes
<1>5. OthersStay(b)
  BY <1>1, <1>3 DEF OthersStay
<1>6. BatchInv(b)'
  BY <1>1, <1>3 DEF UploadInv, BatchInv, LacksLast, HasArrived
<1> QED BY <1>4, <1>5, <1>6, OneBatch

LEMMA BatchesUntouched ==
  ASSUME UploadInv, UNCHANGED <<uploads, parts, prompts, reported, whole>>, card' \in Apps,
         draft' \in BOOLEAN, picked' \in BOOLEAN, uploading' \in BOOLEAN, readOnly' \in BOOLEAN
  PROVE  UploadInv'
BY DEF UploadInv, UploadTypes, LacksLast, HasArrived

LEMMA UploadNextKeeps == UploadInv /\ [Upload!Next]_(Upload!vars) => UploadInv'
<1> SUFFICES ASSUME UploadInv, [Upload!Next]_(Upload!vars) PROVE UploadInv'
  OBVIOUS
<1>1. /\ card \in Apps /\ draft \in BOOLEAN /\ picked \in BOOLEAN /\ uploading \in BOOLEAN
      /\ readOnly \in BOOLEAN
  BY DEF UploadInv, UploadTypes
<1>2. CASE Upload!Write \/ Upload!ChooseAttachments \/ Upload!ReadOnly \/ Upload!SubmitText
  BY <1>1, <1>2, BatchesUntouched
  DEF Upload!Write, Upload!ChooseAttachments, Upload!ReadOnly, Upload!SubmitText, Upload!mac
<1>3. ASSUME NEW a \in Apps, Upload!OpenCard(a) PROVE UploadInv'
  BY <1>1, <1>3, BatchesUntouched DEF Upload!OpenCard, Upload!mac
<1>4. ASSUME NEW b \in Upload!Batches, Upload!SubmitFiles(b) \/ Upload!Upload(b) PROVE UploadInv'
  BY <1>4, BatchStarts, FileStarts, ChunkHandedOver, PathFails DEF Upload!Upload
<1>5. ASSUME NEW b \in Upload!Batches, NEW p \in Upload!Paths, Upload!Forget(p, b) PROVE UploadInv'
  BY <1>5, BatchForgotten
<1>6. CASE UNCHANGED Upload!vars
  BY <1>1, <1>6, BatchesUntouched DEF Upload!vars, Upload!composer, Upload!mac
<1> QED BY <1>2, <1>3, <1>4, <1>5, <1>6 DEF Upload!Next

\* A batch reported as failed has made no prompt and never will, whichever path
\* its pieces took; one reported as sent over one path without a loss has made
\* one, for any number of files and of chunks (submit, sendFileAttachment and
\* the Mac's tables).
THEOREM ReportsAreTrue == Upload!Spec => []ReportIsTrue
<1>1. Upload!Init => UploadInv
  <2> SUFFICES ASSUME Upload!Init PROVE UploadInv
    OBVIOUS
  <2>1. PICK none : none = [b \in Upload!Batches |-> {}]
    OBVIOUS
  <2>2. /\ none \in [Upload!Batches -> SUBSET Upload!Pieces] /\ \A b \in Upload!Batches : none[b] = {}
        /\ parts = [p \in Upload!Paths |-> none]
    BY <2>1 DEF Upload!Init
  <2>3. "relay" \in Upload!Paths
    BY DEF Upload!Paths
  <2>4. UploadTypes
    <3>1. parts \in [Upload!Paths -> [Upload!Batches -> SUBSET Upload!Pieces]]
      BY <2>2
    <3>2. uploads \in [Upload!Batches -> Progress \cup {None}]
      BY DEF Upload!Init
    <3>3. prompts \in [Upload!Batches -> 0 .. 1] /\ reported \in [Upload!Batches -> {"no", "sent", "failed"}]
      BY DEF Upload!Init
    <3> QED BY <3>1, <3>2, <3>3 DEF Upload!Init, UploadTypes
  <2> QED BY <2>2, <2>3, <2>4 DEF Upload!Init, UploadInv, LacksLast, HasArrived
<1>2. UploadInv => ReportIsTrue
  <2> SUFFICES ASSUME UploadInv PROVE ReportIsTrue
    OBVIOUS
  <2>1. Progress = Upload!Stage
    BY DEF Progress, Upload!Stage
  <2>2. Upload!TypeOK
    BY <2>1 DEF UploadInv, UploadTypes, Upload!TypeOK
  <2>3. \A b \in Upload!Batches :
          /\ reported[b] = "failed" => prompts[b] = 0
          /\ reported[b] = "sent" /\ b \in whole => prompts[b] = 1
    BY DEF UploadInv, UploadTypes, LacksLast, HasArrived
  <2> QED BY <2>2, <2>3 DEF ReportIsTrue, Upload!ReportIsTrue
<1> QED BY <1>1, <1>2, UploadNextKeeps, PTL DEF Upload!Spec

-----------------------------------------------------------------------------
(* The connection to the relay.  KeptVideoIsAlive is not inductive: a       *)
(* second call that keeps the video, started while the first one that does  *)
(* not still waits for its offline copy, would keep a picture whose flow    *)
(* has ended.  That no such call starts is the doing of                     *)
(* recoverConnectionInFlight: the first one is the recovery in flight, and  *)
(* every later one joins it.                                                *)

USE CallsAssumption

\* The types, apart from what only a whole step of the page settles: the calls
\* and the recovery that waits for one of them, and what the page shows.
CallTypes ==
  /\ calls \in [Calls -> {"idle", "open"} \cup Waiting]
  /\ current \in Calls \cup {None}
  /\ recovery \in Calls \cup Reads \cup {None}
  /\ recovery \in Calls => calls[recovery] \in Waiting

PageTypes ==
  /\ relay \in BOOLEAN /\ online \in {"yes", "no", "unknown"}
  /\ hello \in BOOLEAN /\ error \in {"none", "screen", "other"}
  /\ timer \in BOOLEAN /\ peer \in BOOLEAN /\ stream \in BOOLEAN
  /\ hidden \in BOOLEAN /\ choosing \in BOOLEAN
  /\ flow \in {"none", "starting", "playing"}
  /\ route \in {"hosts", "workspace"} /\ resume \in {"none", "soft", "forced"}

Types == CallTypes /\ PageTypes

\* A picture whose flow has ended is shown by the recovery in flight only.
EndedVideoIsRecovered ==
  stream /\ flow # "playing" =>
    current \in Calls /\ calls[current] = "cache" /\ recovery = current

\* While a Mac is being chosen the page has no video.
DarkWhileChoosing == choosing => flow = "none" /\ ~stream

Inv == Types /\ OneLink /\ EndedVideoIsRecovered /\ DarkWhileChoosing

LEMMA HungType ==
  ASSUME Types
  PROVE  /\ Hung \in [Calls -> {"idle"} \cup Waiting]
         /\ Hung \in [Calls -> {"idle", "open"} \cup Waiting]
         /\ \A c \in Calls : calls[c] \in Waiting => Hung[c] = calls[c]
BY DEF Types, CallTypes, PageTypes, Hung, Waiting

\* A new call takes a free slot and leaves no socket open.
LEMMA StartPeerType ==
  ASSUME Types, NEW c \in Calls, NEW keep \in BOOLEAN, StartPeer(c, keep)
  PROVE  /\ calls' \in [Calls -> {"idle"} \cup Waiting]
         /\ calls' \in [Calls -> {"idle", "open"} \cup Waiting]
         /\ calls[c] = "idle" /\ calls'[c] = Caching(KeepsVideo(keep)) /\ calls'[c] \in Waiting
         /\ \A d \in Calls : calls[d] \in Waiting => calls'[d] = calls[d]
         /\ current' = c /\ timer' = FALSE
         /\ flow' = IF KeepsVideo(keep) THEN flow ELSE "none"
         /\ KeepsVideo(keep) \in BOOLEAN
<1>1. /\ calls[c] = "idle" /\ calls' = [Hung EXCEPT ![c] = Caching(KeepsVideo(keep))]
      /\ current' = c /\ timer' = FALSE
      /\ flow' = IF KeepsVideo(keep) THEN flow ELSE "none"
  BY DEF StartPeer, IsFree
<1>2. KeepsVideo(keep) \in BOOLEAN
  BY DEF KeepsVideo, Types, CallTypes, PageTypes
<1>3. Caching(KeepsVideo(keep)) \in {"cache", "cacheKeeping"}
  BY DEF Caching
<1> HIDE DEF Hung
<1> QED BY <1>1, <1>2, <1>3, HungType DEF Waiting

\* A call is over: only its own slot changes, and no recovery waits for it.
LEMMA OverType ==
  ASSUME Types, CallTypes, PageTypes, NEW c \in Calls, Over(c)
  PROVE  /\ calls' \in [Calls -> {"idle", "open"} \cup Waiting] /\ calls'[c] = "idle"
         /\ \A d \in Calls : d # c => calls'[d] = calls[d]
         /\ recovery' \in Calls \cup Reads \cup {None}
         /\ recovery' # c /\ (recovery # c => recovery' = recovery)
         /\ recovery' \in Calls => calls'[recovery'] \in Waiting
BY DEF Types, CallTypes, PageTypes, Over, Reads

LEMMA ScheduleReconnectType ==
  ASSUME Types, NEW e \in {"none", "screen", "other"}, ScheduleReconnect(e)
  PROVE  timer' \in BOOLEAN /\ error' \in {"none", "screen", "other"}
BY DEF Types, CallTypes, PageTypes, ScheduleReconnect

\* A recovery starts a call only when none is in flight.
LEMMA RecoverKeeps ==
  ASSUME Inv, NEW force \in BOOLEAN, NEW keep \in BOOLEAN, NEW byPerson \in BOOLEAN, NEW t \in BOOLEAN,
         Recover(force, keep, byPerson, t),
         UNCHANGED <<peer, stream, online, hello, error, route, hidden, choosing>>,
         resume' \in {"none", "soft", "forced"}
  PROVE  Inv'
<1>1. CASE timer' = t /\ UNCHANGED <<link, recovery, flow>>
  BY <1>1 DEF Inv, Types, CallTypes, PageTypes, OneLink, EndedVideoIsRecovered, DarkWhileChoosing, Live, link
<1>2. CASE recovery = None /\ recovery' = Reading(keep) /\ timer' = t /\ UNCHANGED <<link, flow>>
  BY <1>2 DEF Inv, Types, CallTypes, PageTypes, OneLink, EndedVideoIsRecovered, DarkWhileChoosing, Live, link,
              Reading, Reads
<1>3. ASSUME NEW c \in Calls, recovery = None, StartPeer(c, keep), recovery' = c, relay' = relay
      PROVE  Inv'
  <2>0. Types
    BY DEF Inv
  <2>1. /\ calls' \in [Calls -> {"idle"} \cup Waiting]
        /\ calls'[c] = Caching(KeepsVideo(keep)) /\ calls'[c] \in Waiting
        /\ current' = c /\ timer' = FALSE
        /\ flow' = IF KeepsVideo(keep) THEN flow ELSE "none"
    BY <1>3, <2>0, StartPeerType
  <2>2. Types'
    <3>1. CallTypes'
      BY <1>3, <2>0, <2>1, StartPeerType DEF CallTypes
    <3>2. PageTypes'
      BY <1>3, <2>0, <2>1 DEF Types, PageTypes
    <3> QED BY <3>1, <3>2 DEF Types
  <2>3. OneLink'
    BY <2>1 DEF OneLink, Waiting
  <2>4. stream /\ KeepsVideo(keep) => flow = "playing"
    BY <1>3 DEF Inv, EndedVideoIsRecovered
  <2>5. EndedVideoIsRecovered'
    BY <1>3, <2>1, <2>4 DEF EndedVideoIsRecovered, KeepsVideo, Caching
  <2>6. DarkWhileChoosing'
    BY <1>3, <2>1 DEF Inv, DarkWhileChoosing
  <2> QED BY <2>2, <2>3, <2>5, <2>6 DEF Inv
<1> QED BY <1>1, <1>2, <1>3 DEF Recover

LEMMA StepKeeps == ASSUME Inv, Step PROVE Inv'
<1> USE DEF Live, page, shown, video, link
<1>0. Types
  BY DEF Inv
<1>1. ASSUME NEW c \in Calls, TokenAnswers(c) PROVE Inv'
  <2>1. CASE Live(c)
    BY <1>1, <2>1 DEF TokenAnswers, Inv, Types, CallTypes, PageTypes, OneLink, EndedVideoIsRecovered, DarkWhileChoosing,
                      Waiting
  <2>2. CASE ~Live(c)
    BY <1>0, <1>1, <2>2, OverType
    DEF TokenAnswers, Inv, Types, CallTypes, PageTypes, OneLink, EndedVideoIsRecovered, DarkWhileChoosing
  <2> QED BY <2>1, <2>2
<1>2. ASSUME NEW c \in Calls, Refused(c) PROVE Inv'
  <2>1. CASE Live(c)
    <3>1. /\ Over(c) /\ peer' = FALSE /\ relay' = FALSE /\ online' = "no"
          /\ ScheduleReconnect("other")
          /\ UNCHANGED <<flow, stream, hello, current, page>>
      BY <1>2, <2>1 DEF Refused, Failed
    <3>2. Types'
      <4>1. CallTypes'
        BY <1>0, <3>1, OverType DEF CallTypes, Types
      <4>2. PageTypes'
        BY <1>0, <3>1, ScheduleReconnectType DEF PageTypes, Types, page
      <4> QED BY <4>1, <4>2 DEF Types
    <3>3. calls[c] \in {"token", "dial"}
      BY <1>2 DEF Refused
    <3>4. OneLink'
      BY <1>0, <2>1, <3>1, <3>3, OverType DEF Inv, OneLink, Types, CallTypes, PageTypes
    <3>5. EndedVideoIsRecovered' /\ DarkWhileChoosing'
      BY <1>0, <2>1, <3>1, <3>3, OverType DEF Inv, EndedVideoIsRecovered, DarkWhileChoosing
    <3> QED BY <3>2, <3>4, <3>5 DEF Inv
  <2>2. CASE ~Live(c)
    BY <1>0, <1>2, <2>2, OverType
    DEF Refused, Inv, Types, CallTypes, PageTypes, OneLink, EndedVideoIsRecovered, DarkWhileChoosing
  <2> QED BY <2>1, <2>2
<1>3. ASSUME NEW c \in Calls, Authenticated(c) PROVE Inv'
  <2>1. CASE Live(c)
    BY <1>3, <2>1 DEF Authenticated, Superseded, Inv, Types, CallTypes, PageTypes, OneLink, EndedVideoIsRecovered,
                      DarkWhileChoosing, Waiting, Reads
  <2>2. CASE ~Live(c)
    BY <1>0, <1>3, <2>2, OverType
    DEF Authenticated, Superseded, Inv, Types, CallTypes, PageTypes, OneLink, EndedVideoIsRecovered, DarkWhileChoosing
  <2> QED BY <2>1, <2>2
<1>4. ASSUME NEW c \in Calls, NEW keep \in BOOLEAN, NEW cached \in BOOLEAN,
             CacheAnswers(c, keep, cached)
      PROVE  Inv'
  <2>1. CASE Live(c)
    <3>1. /\ calls[c] = Caching(keep) /\ calls' = [calls EXCEPT ![c] = "token"]
          /\ PictureAfter(keep) /\ relay' = FALSE
          /\ online' \in {"no", "unknown"} /\ hello' \in BOOLEAN /\ error' = "other"
          /\ UNCHANGED <<recovery, current, route, hidden, choosing, resume, timer>>
      BY <1>0, <1>4, <2>1 DEF CacheAnswers, Types, CallTypes, PageTypes
    <3>2. flow' = flow /\ stream' \in BOOLEAN /\ peer' \in BOOLEAN
      BY <1>0, <3>1 DEF PictureAfter, Types, CallTypes, PageTypes
    <3>3. Types'
      <4>1. CallTypes'
        BY <1>0, <3>1 DEF Types, CallTypes, Waiting
      <4>2. PageTypes'
        BY <1>0, <3>1, <3>2 DEF Types, PageTypes
      <4> QED BY <4>1, <4>2 DEF Types
    <3>4. OneLink'
      BY <1>0, <2>1, <3>1 DEF Inv, OneLink, Types, CallTypes, PageTypes, Caching
    <3>5. EndedVideoIsRecovered'
      BY <1>0, <2>1, <3>1, <3>2 DEF Inv, EndedVideoIsRecovered, Types, CallTypes, PageTypes, Caching, PictureAfter
    <3>6. DarkWhileChoosing'
      BY <3>1, <3>2 DEF Inv, DarkWhileChoosing, PictureAfter
    <3> QED BY <3>3, <3>4, <3>5, <3>6 DEF Inv
  <2>2. CASE ~Live(c)
    BY <1>0, <1>4, <2>2, OverType
    DEF CacheAnswers, Inv, Types, CallTypes, PageTypes, OneLink, EndedVideoIsRecovered, DarkWhileChoosing
  <2> QED BY <2>1, <2>2
<1>5. ASSUME NEW b \in BOOLEAN, Presence(b) \/ Hello(b) \/ Show(b) PROVE Inv'
  <2>1. /\ online' \in {"yes", "no", "unknown"} /\ hello' \in BOOLEAN
        /\ error' \in {"none", "screen", "other"} /\ hidden' \in BOOLEAN
        /\ resume' \in {"none", "soft", "forced"}
        /\ UNCHANGED <<calls, current, relay, recovery, flow, peer, stream, route, choosing, timer>>
    BY <1>0, <1>5 DEF Presence, Hello, Show, Types, CallTypes, PageTypes
  <2>2. Types'
    BY <1>0, <2>1 DEF Types, CallTypes, PageTypes
  <2> QED BY <2>1, <2>2 DEF Inv, OneLink, EndedVideoIsRecovered, DarkWhileChoosing
<1>6. ASSUME NEW a \in BOOLEAN, NEW b \in BOOLEAN, ChoiceStored(a, b) PROVE Inv'
  <2>1. /\ choosing /\ choosing' = FALSE /\ route' = "workspace"
        /\ online' \in {"yes", "no"} /\ error' \in {"none", "other"} /\ hello' = b
        /\ UNCHANGED <<relay, recovery, peer, stream, hidden, resume>>
    BY <1>6 DEF ChoiceStored
  <2>2. PICK c \in Calls : StartPeer(c, FALSE)
    BY <1>6 DEF ChoiceStored
  <2>3. /\ calls' \in [Calls -> {"idle"} \cup Waiting]
        /\ calls' \in [Calls -> {"idle", "open"} \cup Waiting]
        /\ \A d \in Calls : calls[d] \in Waiting => calls'[d] = calls[d]
        /\ current' = c /\ timer' = FALSE /\ flow' \in {flow, "none"}
    BY <1>0, <2>2, StartPeerType
  <2>4. Types'
    <3>1. recovery' \in Calls => calls'[recovery'] \in Waiting
      BY <1>0, <2>1, <2>3 DEF Types, CallTypes, PageTypes
    <3>2. flow' \in {"none", "starting", "playing"} /\ hello' \in BOOLEAN
      BY <1>0, <2>1, <2>3 DEF Types, CallTypes, PageTypes
    <3>3. recovery' \in Calls \cup Reads \cup {None}
      BY <1>0, <2>1 DEF Types, CallTypes, PageTypes
    <3> QED BY <1>0, <2>1, <2>3, <3>1, <3>2, <3>3 DEF Types, CallTypes, PageTypes
  <2>5. OneLink'
    BY <2>3 DEF OneLink, Waiting
  <2>6. ~stream' /\ ~choosing'
    BY <2>1 DEF Inv, DarkWhileChoosing
  <2> QED BY <2>4, <2>5, <2>6 DEF Inv, EndedVideoIsRecovered, DarkWhileChoosing
<1>7. ASSUME NEW keep \in BOOLEAN, NEW on \in BOOLEAN, HostsAnswer(keep, on) PROVE Inv'
  <2>1. PICK c \in Calls : StartPeer(c, keep) /\ recovery' = c
    BY <1>7 DEF HostsAnswer
  <2>2. /\ calls' \in [Calls -> {"idle"} \cup Waiting]
        /\ calls' \in [Calls -> {"idle", "open"} \cup Waiting]
        /\ calls'[c] = Caching(KeepsVideo(keep)) /\ calls'[c] \in Waiting
        /\ current' = c /\ timer' = FALSE
        /\ flow' = IF KeepsVideo(keep) THEN flow ELSE "none"
    BY <1>0, <2>1, StartPeerType
  <2>3. /\ online' \in {online, "no"} /\ error' \in {error, "other"}
        /\ UNCHANGED <<relay, peer, stream, hello, route, hidden, choosing, resume>>
    BY <1>7 DEF HostsAnswer
  <2>4. recovery \notin Calls
    BY <1>7 DEF HostsAnswer, Reading
  <2>5. Types'
    <3>1. online' \in {"yes", "no", "unknown"} /\ error' \in {"none", "screen", "other"}
      BY <1>0, <2>3 DEF Types, CallTypes, PageTypes
    <3> QED BY <1>0, <2>1, <2>2, <2>3, <3>1 DEF Types, CallTypes, PageTypes
  <2>6. OneLink'
    BY <2>2 DEF OneLink, Waiting
  <2>7. stream /\ KeepsVideo(keep) => flow = "playing"
    BY <2>4 DEF Inv, EndedVideoIsRecovered
  <2>8. EndedVideoIsRecovered'
    BY <2>1, <2>2, <2>3, <2>7 DEF EndedVideoIsRecovered, KeepsVideo, Caching
  <2>9. DarkWhileChoosing'
    BY <2>2, <2>3 DEF Inv, DarkWhileChoosing
  <2> QED BY <2>5, <2>6, <2>8, <2>9 DEF Inv
<1>8. CASE HostsFail
  BY <1>0, <1>8, ScheduleReconnectType
  DEF HostsFail, Inv, Types, CallTypes, PageTypes, OneLink, EndedVideoIsRecovered, DarkWhileChoosing, Reads
<1>9. CASE TimerFires
  BY <1>0, <1>9, RecoverKeeps DEF TimerFires, Types, CallTypes, PageTypes
<1>10. CASE PersonRetries
  BY <1>0, <1>10, RecoverKeeps DEF PersonRetries, Types, CallTypes, PageTypes
<1>11. CASE ResumeFires
  BY <1>0, <1>11, RecoverKeeps DEF ResumeFires, Types, CallTypes, PageTypes
<1>12. CASE Leave \/ ChooseHost
  <2>1. /\ calls' = Hung /\ current' = None /\ timer' = FALSE /\ flow' = "none"
        /\ peer' = FALSE /\ stream' = FALSE /\ relay' = FALSE /\ online' = "unknown"
        /\ hello' = FALSE /\ recovery' = recovery /\ choosing' \in BOOLEAN
        /\ route' \in {"hosts", "workspace"} /\ UNCHANGED <<error, hidden, resume>>
    BY <1>0, <1>12 DEF Leave, ChooseHost, DisconnectPeer, Types, CallTypes, PageTypes
  <2>2. Types'
    BY <1>0, <2>1, HungType DEF Types, CallTypes, PageTypes
  <2> QED BY <1>0, <2>1, <2>2, HungType
          DEF Inv, OneLink, EndedVideoIsRecovered, DarkWhileChoosing, Waiting
<1>13. CASE Hide
  BY <1>13 DEF Hide, Inv, Types, CallTypes, PageTypes, OneLink, EndedVideoIsRecovered, DarkWhileChoosing
<1>14. CASE StartVideo \/ VideoSignals \/ VideoPlays \/ VideoEnds
  <2>1. /\ flow' \in {"none", "starting", "playing"} /\ peer' \in BOOLEAN /\ stream' \in BOOLEAN
        /\ online' \in {"yes", "no", "unknown"} /\ error' \in {"none", "screen", "other"}
        /\ UNCHANGED <<calls, current, relay, recovery, hello, route, hidden, choosing, resume, timer>>
    BY <1>0, <1>14 DEF StartVideo, VideoSignals, VideoPlays, VideoEnds, Types, CallTypes, PageTypes
  <2>2. Types'
    BY <1>0, <2>1 DEF Types, CallTypes, PageTypes
  <2>3. OneLink'
    BY <2>1 DEF Inv, OneLink
  <2>4. EndedVideoIsRecovered' /\ DarkWhileChoosing'
    BY <1>14 DEF StartVideo, VideoSignals, VideoPlays, VideoEnds,
       Inv, EndedVideoIsRecovered, DarkWhileChoosing
  <2> QED BY <2>2, <2>3, <2>4 DEF Inv
<1> QED
  BY <1>1, <1>2, <1>3, <1>4, <1>5, <1>6, <1>7, <1>8, <1>9, <1>10, <1>11, <1>12, <1>13, <1>14
  DEF Step

LEMMA RelayClosesKeeps ==
  ASSUME Inv, NEW code \in {"renew", "lost"}, RelayCloses(code)
  PROVE  Inv'
<1>0. Types
  BY DEF Inv
<1>1. /\ online' \in {"yes", "no", "unknown"} /\ relay' = FALSE
      /\ timer' \in BOOLEAN /\ error' \in {"none", "screen", "other"}
      /\ UNCHANGED <<current, recovery, flow, peer, stream, hello, route, hidden, choosing, resume>>
  BY <1>0, ScheduleReconnectType DEF RelayCloses, Types, CallTypes, PageTypes, video, page
<1>2. current \in Calls /\ calls[current] = "open" /\ calls' = Hung
  BY <1>0 DEF RelayCloses, Types, CallTypes
<1> HIDE DEF Hung
<1>3. /\ calls' \in [Calls -> {"idle"} \cup Waiting]
      /\ calls' \in [Calls -> {"idle", "open"} \cup Waiting]
  BY <1>0, <1>2, HungType
<1>4. CallTypes'
  BY <1>0, <1>1, <1>2, <1>3, HungType DEF Types, CallTypes
<1>5. Types'
  <2>1. PageTypes'
    BY <1>0, <1>1 DEF Types, PageTypes
  <2> QED BY <1>4, <2>1 DEF Types
<1>6. OneLink'
  BY <1>3 DEF OneLink, Waiting
<1>7. EndedVideoIsRecovered'
  BY <1>1, <1>2 DEF Inv, EndedVideoIsRecovered
<1>8. DarkWhileChoosing'
  BY <1>1 DEF Inv, DarkWhileChoosing
<1> QED BY <1>5, <1>6, <1>7, <1>8 DEF Inv

\* What a step of the page settles: whether App's effect runs, and since when
\* the relay is away.
Settled == effect \in BOOLEAN /\ since \in {"none", "renewal", "overtaken"}

LEMMA NextKeeps == Inv /\ Settled /\ [Next]_vars => Inv' /\ Settled'
<1> SUFFICES ASSUME Inv, Settled, [Next]_vars PROVE Inv' /\ Settled'
  OBVIOUS
<1>1. CASE Page(Step)
  BY <1>1, StepKeeps DEF Page, Rendered, Settled
<1>2. CASE EffectRuns
  <2>1. Settled'
    BY <1>2 DEF EffectRuns, Settled
  <2>2. CASE Bare
    <3>1. /\ Recover(FALSE, FALSE, FALSE, timer) /\ timer \in BOOLEAN
          /\ resume' \in {"none", "soft", "forced"}
          /\ UNCHANGED <<peer, stream, online, hello, error, route, hidden, choosing>>
      BY <1>2, <2>2 DEF EffectRuns, Inv, Types, CallTypes, PageTypes, shown, page
    <3> QED BY <2>1, <3>1, RecoverKeeps
  <2>3. CASE ~Bare
    BY <1>2, <2>1, <2>3
    DEF EffectRuns, Inv, Types, CallTypes, PageTypes, OneLink, EndedVideoIsRecovered, DarkWhileChoosing, Live,
        shown, page, link
  <2> QED BY <2>2, <2>3
<1>3. ASSUME NEW code \in {"renew", "lost"}, RelayCloses(code) PROVE Inv' /\ Settled'
  BY <1>3, RelayClosesKeeps DEF RelayCloses, Rendered, Settled
<1>4. CASE UNCHANGED vars
  BY <1>4 DEF vars, link, video, shown, page, Inv, Types, CallTypes, PageTypes, OneLink, EndedVideoIsRecovered,
              DarkWhileChoosing, Live, Settled
<1> QED BY <1>1, <1>2, <1>3, <1>4 DEF Next

\* The page never has two connections to the relay, nor one that is not its
\* own, and it shows no picture of a video that ended (startPeer).
THEOREM PageHasOneLiveLink == Spec => []OneLiveLink
<1>1. Init => Inv /\ Settled
  BY DEF Init, Inv, Types, CallTypes, PageTypes, OneLink, EndedVideoIsRecovered, DarkWhileChoosing, Settled, Reads
<1>2. Inv /\ Settled => OneLiveLink
  BY DEF Inv, Types, CallTypes, PageTypes, Settled, EndedVideoIsRecovered, OneLiveLink, TypeOK, KeptVideoIsAlive
<1> QED BY <1>1, <1>2, NextKeeps, PTL DEF Spec
=============================================================================
