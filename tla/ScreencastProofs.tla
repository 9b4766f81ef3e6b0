--------------------------- MODULE ScreencastProofs ---------------------------
(***************************************************************************)
(* Proofs about Screencast.tla, for any tabs, pumps, frames and bounds: the *)
(* types for any viewers, agents and sites, and for one viewer that nobody  *)
(* disturbs that the pump and the watchdog run for it only and that none of *)
(* the frames it should see is lost.                                        *)
(***************************************************************************)
EXTENDS Screencast, TLAPS

-----------------------------------------------------------------------------
(* The list of tabs *)

\* A tab that closes leaves the list, one shorter, and no other does.
LEMMA WithoutIsShorter ==
    ASSUME tabs \in Seq(Tabs), NEW t \in Range(tabs)
    PROVE  /\ Without(t) \in Seq(Tabs)
           /\ Len(Without(t)) = Len(tabs) - 1
           /\ Range(tabs) \ {t} \subseteq Range(Without(t))
           /\ Range(Without(t)) \subseteq Range(tabs)
           /\ (\A i, j \in DOMAIN tabs : tabs[i] = tabs[j] => i = j)
              => /\ t \notin Range(Without(t))
                 /\ \A i, j \in DOMAIN Without(t) : Without(t)[i] = Without(t)[j] => i = j
  <1> DEFINE k == CHOOSE i \in DOMAIN tabs : tabs[i] = t
             front == SubSeq(tabs, 1, k - 1)
             back == SubSeq(tabs, k + 1, Len(tabs))
  <1>1. k \in 1..Len(tabs) /\ tabs[k] = t
    BY DEF Range
  <1>2. Without(t) = front \o back
    BY DEF Without, RemoveAt
  <1> HIDE DEF k
  <1>3. front \in Seq(Tabs) /\ Len(front) = k - 1 /\ \A i \in 1..(k - 1) : front[i] = tabs[i]
    BY <1>1
  <1>4. /\ back \in Seq(Tabs) /\ Len(back) = Len(tabs) - k
        /\ \A i \in 1..(Len(tabs) - k) : back[i] = tabs[k + i]
    BY <1>1
  <1> HIDE DEF front, back
  <1>c. \A a, b \in Seq(Tabs) :
               /\ a \o b \in Seq(Tabs) /\ Len(a \o b) = Len(a) + Len(b)
               /\ \A i \in 1..(Len(a) + Len(b)) :
                    (a \o b)[i] = IF i <= Len(a) THEN a[i] ELSE b[i - Len(a)]
    OBVIOUS
  <1>j. /\ Without(t) \in Seq(Tabs) /\ Len(Without(t)) = Len(front) + Len(back)
        /\ \A i \in 1..(Len(front) + Len(back)) :
             Without(t)[i] = IF i <= Len(front) THEN front[i] ELSE back[i - Len(front)]
    <2>1. front \in Seq(Tabs) /\ back \in Seq(Tabs)
      BY <1>3, <1>4
    <2> DEFINE joined == front \o back
    <2>2. /\ joined \in Seq(Tabs) /\ Len(joined) = Len(front) + Len(back)
          /\ \A i \in 1..(Len(front) + Len(back)) :
               joined[i] = IF i <= Len(front) THEN front[i] ELSE back[i - Len(front)]
      BY <2>1, <1>c
    <2>3. Without(t) = joined
      BY <1>2
    <2> HIDE DEF joined
    <2> QED BY <2>2, <2>3
  <1>5. Without(t) \in Seq(Tabs) /\ Len(Without(t)) = Len(tabs) - 1
    BY <1>1, <1>3, <1>4, <1>j
  <1>6. \A i \in 1..(Len(tabs) - 1) : Without(t)[i] = tabs[IF i < k THEN i ELSE i + 1]
    <2> SUFFICES ASSUME NEW i \in 1..(Len(tabs) - 1)
                 PROVE  Without(t)[i] = tabs[IF i < k THEN i ELSE i + 1]
      OBVIOUS
    <2>1. CASE i < k
      BY <2>1, <1>1, <1>3, <1>4, <1>j, SMTT(30)
    <2>2. CASE ~ (i < k)
      <3>1. i \in 1..(Len(front) + Len(back)) /\ ~ (i <= Len(front))
        BY <2>2, <1>1, <1>3, <1>4
      <3>2. i - Len(front) \in 1..(Len(tabs) - k) /\ k + (i - Len(front)) = i + 1
        BY <2>2, <1>1, <1>3, <1>4
      <3> QED BY <2>2, <3>1, <3>2, <1>4, <1>j
    <2> QED BY <2>1, <2>2
  <1>7. Range(tabs) \ {t} \subseteq Range(Without(t))
    <2> SUFFICES ASSUME NEW i \in 1..Len(tabs), tabs[i] # t
                 PROVE  \E j \in 1..(Len(tabs) - 1) : Without(t)[j] = tabs[i]
      BY <1>5 DEF Range
    <2>1. CASE i < k
      BY <2>1, <1>1, <1>6
    <2>2. CASE i > k
      <3>1. i - 1 \in 1..(Len(tabs) - 1) /\ ~ (i - 1 < k) /\ (i - 1) + 1 = i
        BY <2>2, <1>1
      <3> QED BY <3>1, <1>6
    <2> QED BY <2>1, <2>2, <1>1
  <1>8. Range(Without(t)) \subseteq Range(tabs)
    BY <1>1, <1>5, <1>6, SMTT(30) DEF Range
  <1>9. ASSUME \A i, j \in DOMAIN tabs : tabs[i] = tabs[j] => i = j
        PROVE  /\ t \notin Range(Without(t))
               /\ \A i, j \in DOMAIN Without(t) : Without(t)[i] = Without(t)[j] => i = j
    <2> DEFINE Place(i) == IF i < k THEN i ELSE i + 1
    <2>1. \A i \in DOMAIN Without(t) :
            Place(i) \in DOMAIN tabs /\ Place(i) # k /\ Without(t)[i] = tabs[Place(i)]
      BY <1>1, <1>5, <1>6, SMTT(30)
    <2>2. t \notin Range(Without(t))
      BY <1>1, <1>9, <2>1 DEF Range
    <2>3. ASSUME NEW i \in DOMAIN Without(t), NEW j \in DOMAIN Without(t),
                 Without(t)[i] = Without(t)[j]
          PROVE  i = j
      <3>1. Place(i) = Place(j)
        BY <1>9, <2>1, <2>3
      <3> QED BY <3>1, <1>1, <1>5
    <2> QED BY <2>2, <2>3
  <1> QED BY <1>5, <1>7, <1>8, <1>9

LEMMA WithoutType == ASSUME tabs \in Seq(Tabs), NEW t PROVE Without(t) \in Seq(Tabs)
  BY WithoutIsShorter DEF Without

-----------------------------------------------------------------------------
(* The types.  An activation touches the active tab, the capture, the latest  *)
(* frame and its own task.                                                    *)

CoreTypes ==
    /\ active \in Tabs \cup {NoTab} /\ latest \in Frames \cup {NoFrame}
    /\ tracked \subseteq Tabs /\ leaked \subseteq Tabs /\ casting \subseteq Tabs
    /\ pc \in [Tasks -> Steps] /\ target \in [Tasks -> Tabs \cup {NoTab}]

LEMMA SetActiveTypes ==
    ASSUME TypeOK, NEW u \in Tasks, NEW list, NEW t \in Tabs \cup {NoTab},
           SetActive(u, list, t)
    PROVE  /\ active' \in Tabs \cup {NoTab} /\ latest' \in Frames \cup {NoFrame}
           /\ pc' \in [Tasks -> Steps] /\ target' \in [Tasks -> Tabs \cup {NoTab}]
  BY DEF SetActive, At, TypeOK, Steps

LEMMA ActivateTypes ==
    ASSUME TypeOK, NEW u \in Tasks, NEW list, NEW id \in Tabs \cup {NoTab}, NEW t \in Tabs,
           NEW pages, Activate(u, list, id, t, pages)
    PROVE  CoreTypes'
  <1>1. CASE sinks = {}
    BY <1>1, SetActiveTypes DEF Activate, PageGone, TypeOK, CoreTypes
  <1>2. CASE sinks # {}
    BY <1>2 DEF Activate, StopOn, At, TypeOK, CoreTypes, Steps
  <1> QED BY <1>1, <1>2

LEMMA ReplaceTypes ==
    ASSUME TypeOK, NEW u \in Tasks, NEW list \in Seq(Tabs), NEW wasActive \in BOOLEAN,
           NEW id \in Tabs \cup {NoTab}, NEW pages, Replace(u, list, wasActive, id, pages)
    PROVE  CoreTypes'
  <1>1. CASE list = <<>>
    BY <1>1 DEF Replace, LeftToExtension, PageGone, At, TypeOK, CoreTypes, Steps
  <1>2. CASE list # <<>> /\ wasActive
    <2>1. Head(list) \in Tabs
      BY <1>2
    <2> QED BY <1>2, <2>1, ActivateTypes DEF Replace
  <1>3. CASE list # <<>> /\ ~wasActive
    BY <1>3 DEF Replace, PageGone, At, TypeOK, CoreTypes, Steps
  <1> QED BY <1>1, <1>2, <1>3

LEMMA DropTabTypes ==
    ASSUME TypeOK, NEW u \in Tasks, NEW t, NEW wasActive \in BOOLEAN, DropTab(u, t, wasActive)
    PROVE  CoreTypes' /\ tabs' \in Seq(Tabs) /\ bare' \in BOOLEAN
  <1>1. Without(t) \in Seq(Tabs)
    BY WithoutType DEF TypeOK
  <1>2. CoreTypes'
    BY <1>1, ReplaceTypes DEF DropTab, TypeOK
  <1>3. bare' = bare /\ bare \in BOOLEAN
    BY Zenon DEF DropTab, TypeOK
  <1> QED BY <1>1, <1>2, <1>3 DEF DropTab, TypeOK

LEMMA ActiveTabType == ASSUME TypeOK, tabs # <<>> PROVE ActiveTab \in Tabs
  BY DEF TypeOK, ActiveTab, ActiveOf, Range

\* What a task does keeps the types, a viewer's, an agent's or the site's.
LEMMA TaskTypes ==
    ASSUME TypeOK, NEW u \in Tasks, TaskStep(u)
    PROVE  TypeOK'
  <1> USE DEF listVars, viewerVars, captureVars, frameVars, pumpVars, paintVars, streamVars,
              taskVars
  <1>1. ASSUME NEW t \in Tabs, SwitchTab(u, t) PROVE TypeOK'
    <2>1. CoreTypes'
      BY <1>1, ActivateTypes DEF SwitchTab, TypeOK
    <2> QED BY <1>1, <2>1 DEF SwitchTab, TypeOK, CoreTypes
  <1>2. ASSUME NEW t \in Tabs, CloseTab(u, t) PROVE TypeOK'
    <2>1. CASE t = active /\ sinks # {}
      BY <1>2, <2>1 DEF CloseTab, StopOn, At, Steps, TypeOK
    <2>2. CASE ~ (t = active /\ sinks # {})
      <3>1. DropTab(u, t, t = active)
        BY <1>2, <2>2 DEF CloseTab
      <3>2. CoreTypes' /\ tabs' \in Seq(Tabs) /\ bare' \in BOOLEAN
        BY <3>1, DropTabTypes
      <3> QED BY <1>2, <3>2 DEF CloseTab, TypeOK, CoreTypes
    <2> QED BY <2>1, <2>2
  <1>3. CASE Navigate(u)
    BY <1>3 DEF Navigate, ExpectRepaint, TypeOK
  <1>4. CASE NewTab(u)
    BY <1>4 DEF NewTab, At, Steps, TypeOK
  <1>5. CASE Stopped(u)
    <2>1. target[u] \in Tabs \cup {NoTab}
      BY DEF TypeOK
    <2>2. /\ active' \in Tabs \cup {NoTab} /\ latest' \in Frames \cup {NoFrame}
          /\ pc' \in [Tasks -> Steps] /\ target' \in [Tasks -> Tabs \cup {NoTab}]
      BY <1>5, <2>1, SetActiveTypes DEF Stopped
    <2> QED BY <1>5, <2>2 DEF Stopped, TypeOK
  <1>6. CASE Fronted(u)
    <2>1. CASE sinks = {} \/ tabs = <<>>
      BY <1>6, <2>1 DEF Fronted, Finish, At, Steps, TypeOK
    <2>2. CASE ~ (sinks = {} \/ tabs = <<>>)
      <3>1. ActiveTab \in Tabs
        BY <2>2, ActiveTabType
      <3> QED BY <1>6, <2>2, <3>1 DEF Fronted, ExpectRepaint, StartOn, At, Steps, TypeOK
    <2> QED BY <2>1, <2>2
  <1>7. CASE Started(u)
    BY <1>7 DEF Started, Finish, ExpectRepaint, At, Steps, TypeOK
  <1>8. CASE Opened(u)
    <2>1. PICK t \in FreshTabs :
            /\ tabs' = Append(tabs, t)
            /\ Activate(u, Append(tabs, t), IF Replacing(u) THEN NoTab ELSE active, t, {})
      BY <1>8 DEF Opened
    <2>2. t \in Tabs /\ (IF Replacing(u) THEN NoTab ELSE active) \in Tabs \cup {NoTab}
      BY DEF FreshTabs, TypeOK
    <2>3. CoreTypes'
      BY <2>1, <2>2, ActivateTypes
    <2>4. tabs' \in Seq(Tabs)
      BY <1>8, <2>1, <2>2 DEF Opened, TypeOK
    <2> QED BY <1>8, <2>3, <2>4 DEF Opened, TypeOK, CoreTypes
  <1>9. CASE ClosingStopped(u)
    <2>1. CoreTypes' /\ tabs' \in Seq(Tabs) /\ bare' \in BOOLEAN
      BY <1>9, DropTabTypes DEF ClosingStopped
    <2> QED BY <1>9, <2>1 DEF ClosingStopped, TypeOK, CoreTypes
  <1>10. CASE PageClosed(u)
    BY <1>10 DEF PageClosed, PageGone, At, Steps, TypeOK
  <1>11. CASE OpenFails(u)
    <2>1. bare' \in BOOLEAN
      BY <1>11, Zenon DEF OpenFails, TypeOK
    <2> QED BY <1>11, <2>1 DEF OpenFails, At, Steps, TypeOK
  <1> QED BY <1>1, <1>2, <1>3, <1>4, <1>5, <1>6, <1>7, <1>8, <1>9, <1>10, <1>11 DEF TaskStep

LEMMA SiteTypes ==
    ASSUME TypeOK, SiteOpens \/ \E t \in Tabs : SiteCloses(t)
    PROVE  TypeOK'
  <1> USE DEF listVars, viewerVars, captureVars, frameVars, pumpVars, paintVars, streamVars,
              taskVars
  <1>1. CASE SiteOpens
    <2>1. PICK t \in FreshTabs : tabs' = Append(tabs, t)
      BY <1>1 DEF SiteOpens
    <2>2. tabs' \in Seq(Tabs)
      BY <1>1, <2>1 DEF SiteOpens, FreshTabs, TypeOK
    <2> QED BY <1>1, <2>2 DEF SiteOpens, TypeOK
  <1>2. ASSUME NEW t \in Tabs, SiteCloses(t) PROVE TypeOK'
    <2>1. Without(t) \in Seq(Tabs)
      BY WithoutType DEF TypeOK
    <2>2. Site \in Tasks /\ (t = active) \in BOOLEAN /\ NoTab \in Tabs \cup {NoTab}
      BY DEF Tasks
    <2>3. CoreTypes'
      BY <1>2, <2>1, <2>2, ReplaceTypes DEF SiteCloses
    <2>4. bare' \in BOOLEAN
      BY <1>2, Zenon DEF SiteCloses, LeftToExtension, TypeOK
    <2>5. tabs' \in Seq(Tabs)
      BY <1>2, <2>1 DEF SiteCloses, TypeOK
    <2> QED BY <1>2, <2>3, <2>4, <2>5 DEF SiteCloses, TypeOK, CoreTypes
  <1> QED BY <1>1, <1>2

LEMMA NoFrameType == NoFrame \in Frames \cup {NoFrame}
  OBVIOUS

LEMMA ViewerTypes ==
    ASSUME TypeOK, NEW v \in Viewers, ViewerStep(v)
    PROVE  TypeOK'
  <1> USE DEF listVars, viewerVars, captureVars, frameVars, pumpVars, paintVars, streamVars,
              taskVars
  <1>0. v \in Tasks
    BY DEF Tasks
  <1>1. CASE Join(v)
    <2>1. CASE sinks = {}
      <3>1. ActiveTab \in Tabs
        BY <1>1, <2>1, ActiveTabType DEF Join
      <3>2. PICK p \in Pumps :
              /\ pumpTask' = p
              /\ pump' = [q \in Pumps |-> IF q = p THEN "waiting" ELSE Orphaned(q)]
              /\ lastSent' = [lastSent EXCEPT ![p] = NoFrame]
              /\ fanOut' = [fanOut EXCEPT ![p] = {}]
        BY <1>1, <2>1 DEF Join, NewPump
      <3>3. pump' \in [Pumps -> PumpStates]
        BY <3>2 DEF Orphaned, PumpStates, TypeOK
      <3> QED BY <1>0, <1>1, <2>1, <3>1, <3>2, <3>3, ZenonT(40) DEF Join, StartOn, At, Steps, TypeOK
    <2>2. CASE sinks # {}
      BY <1>0, <1>1, <2>2 DEF Join, At, Steps, TypeOK
    <2> QED BY <2>1, <2>2
  <1>2. CASE JoinFails(v)
    <2>1. PICK p \in Pumps :
            pumpTask' = p /\ pump' = [q \in Pumps |-> Orphaned(q)]
      BY <1>2 DEF JoinFails
    <2>2. pump' \in [Pumps -> PumpStates]
      BY <2>1 DEF Orphaned, PumpStates, TypeOK
    <2> QED BY <1>0, <1>2, <2>1, <2>2 DEF JoinFails, At, Steps, TypeOK
  <1>3. CASE Joined(v)
    BY <1>0, <1>3 DEF Joined, At, Steps, TypeOK
  <1>4. CASE SocketDrops(v)
    BY <1>4 DEF SocketDrops, TypeOK
  <1>5. CASE Leave(v)
    <2>1. CASE sinks # {v}
      BY <1>0, <1>5, <2>1 DEF Leave, At, Steps, TypeOK
    <2>2. CASE sinks = {v} /\ pumpTask = NoPump
      BY <1>0, <1>5, <2>2 DEF Leave, DisarmRepaint, Uncast, StopOn, At, Steps, TypeOK
    <2>3. CASE sinks = {v} /\ pumpTask # NoPump
      BY <1>0, <1>5, <2>3 DEF Leave, DisarmRepaint, CancelPump, PumpStates, At, Steps, TypeOK
    <2> QED BY <2>1, <2>2, <2>3
  <1>6. CASE PumpStopped(v)
    BY <1>0, <1>6 DEF PumpStopped, Uncast, StopOn, At, Steps, TypeOK
  <1>7. CASE Left(v)
    BY <1>0, <1>7 DEF Left, At, Steps, TypeOK
  <1> QED BY <1>1, <1>2, <1>3, <1>4, <1>5, <1>6, <1>7 DEF ViewerStep

LEMMA StreamTypes ==
    ASSUME TypeOK, FrameStep \/ (\E p \in Pumps : PumpStep(p)) \/ RepaintTimesOut
    PROVE  TypeOK'
  <1> USE DEF listVars, viewerVars, captureVars, frameVars, pumpVars, paintVars, streamVars,
              taskVars
  <1>1. ASSUME NEW t \in Tabs, Paint(t) PROVE TypeOK'
    <2>1. emitted + 1 \in 1..MaxFrames
      BY <1>1, BoundAssumption DEF Paint, TypeOK
    <2>2. [tab |-> t, n |-> emitted + 1] \in Frames
      BY <2>1 DEF Frames
    <2>3. acking' \subseteq Frames /\ emitted' \in 0..MaxFrames
      BY <1>1, <2>1, <2>2 DEF Paint, TypeOK
    <2> QED BY <1>1, <2>3 DEF Paint, TypeOK
  <1>2. ASSUME NEW f \in acking, Acked(f) PROVE TypeOK'
    BY <1>2 DEF Acked, TypeOK
  <1>3. ASSUME NEW p \in Pumps, PumpWakes(p) PROVE TypeOK'
    BY <1>3 DEF PumpWakes, PumpStates, TypeOK
  <1>4. ASSUME NEW p \in Pumps, PumpTakes(p) PROVE TypeOK'
    BY <1>4 DEF PumpTakes, PumpStates, TypeOK
  <1>5. ASSUME NEW p \in Pumps, NEW v \in Viewers, PumpSends(p, v) PROVE TypeOK'
    <2>1. fanOut' \in [Pumps -> SUBSET Viewers] /\ pump' \in [Pumps -> PumpStates]
      BY <1>5 DEF PumpSends, PumpStates, TypeOK
    <2>2. shown' \in [Viewers -> Frames \cup {NoFrame}]
      BY <1>5 DEF PumpSends, TypeOK
    <2> QED BY <1>5, <2>1, <2>2 DEF PumpSends, Painted, TypeOK
  <1>6. CASE RepaintTimesOut
    BY <1>6 DEF RepaintTimesOut, TypeOK
  <1> QED BY <1>1, <1>2, <1>3, <1>4, <1>5, <1>6 DEF FrameStep, PumpStep

LEMMA NextTypes == TypeOK /\ [Next]_vars => TypeOK'
  <1> SUFFICES ASSUME TypeOK, [Next]_vars PROVE TypeOK'
    OBVIOUS
  <1>1. ASSUME NEW v \in Viewers, TaskStep(v) PROVE TypeOK'
    BY <1>1, TaskTypes DEF Tasks
  <1>2. ASSUME NEW v \in Viewers, ViewerStep(v) PROVE TypeOK'
    BY <1>2, ViewerTypes
  <1>3. CASE UNCHANGED vars
    BY <1>3 DEF vars, listVars, viewerVars, captureVars, frameVars, pumpVars, paintVars,
                streamVars, taskVars, TypeOK
  <1> QED BY <1>1, <1>2, <1>3, StreamTypes DEF Next

\* The variables of the driver have their types, whatever the viewers do.
THEOREM TypeCorrect == Spec => []TypeOK
  <1>1. Init => TypeOK
    <2> SUFFICES ASSUME Init PROVE TypeOK
      OBVIOUS
    <2>1. tabs \in Seq(Tabs) /\ active \in Tabs
      BY DEF Init
    <2>2. emitted \in 0..MaxFrames
      BY BoundAssumption DEF Init
    <2>7. bare \in BOOLEAN /\ ready \in BOOLEAN /\ expected \in BOOLEAN /\ watch \in BOOLEAN
      BY Zenon DEF Init
    <2>4. /\ sinks \subseteq Viewers /\ sockets \subseteq Viewers /\ acking \subseteq Frames
          /\ tracked \subseteq Tabs /\ leaked \subseteq Tabs /\ casting \subseteq Tabs
          /\ gotos \subseteq Tasks
      BY DEF Init
    <2>5. /\ latest \in Frames \cup {NoFrame} /\ pumpTask \in Pumps \cup {NoPump}
          /\ shown \in [Viewers -> Frames \cup {NoFrame}]
          /\ lastSent \in [Pumps -> Frames \cup {NoFrame}]
          /\ fanOut \in [Pumps -> SUBSET Viewers]
      BY DEF Init
    <2>6. /\ pump \in [Pumps -> PumpStates] /\ pc \in [Tasks -> Steps]
          /\ target \in [Tasks -> Tabs \cup {NoTab}] /\ victim \in [Tasks -> Tabs \cup {NoTab}]
      BY DEF Init, PumpStates, Steps
    <2> QED BY <2>1, <2>2, <2>4, <2>5, <2>6, <2>7 DEF TypeOK
  <1> QED BY <1>1, NextTypes, PTL DEF Spec

-----------------------------------------------------------------------------
(* One viewer, whom nobody disturbs.  Whether it counts as a sink depends on  *)
(* the await its task is suspended in.                                        *)

Gone == {"away", "unpumping", "uncasting"}

WorkInv(v) ==
    /\ sinks = IF pc[v] \in Gone THEN {} ELSE {v}
    /\ {p \in Pumps : pump[p] # "dead"} = IF sinks = {} THEN {} ELSE {pumpTask}
    /\ expected => watch /\ sinks # {}

\* Operations on tabs leave sinks and pumps alone.
LEMMA TaskWork ==
    ASSUME TypeOK, NEW v, Viewers = {v}, WorkInv(v), TaskStep(v)
    PROVE  WorkInv(v)'
  <1> USE DEF listVars, viewerVars, captureVars, frameVars, pumpVars, paintVars, streamVars,
              taskVars
  <1>0. v \in Tasks /\ pc \in [Tasks -> Steps]
    BY DEF Tasks, TypeOK
  <1>1. UNCHANGED <<sinks, pumpTask, pump>>
    BY DEF TaskStep, SwitchTab, CloseTab, Navigate, NewTab, Stopped, Fronted, Started, Opened,
           OpenFails, ClosingStopped, PageClosed
  <1>2. pc[v] \notin Gone
    BY DEF TaskStep, SwitchTab, CloseTab, Navigate, NewTab, Stopped, Fronted, Started, Opened,
           OpenFails, ClosingStopped, PageClosed, CanAct, Gone
  <1>3. pc'[v] \notin Gone
    <2>1. pc' = pc \/ \E s \in Steps \ Gone : At(v, s)
      <3>1. CASE \E t \in Tabs : SwitchTab(v, t) \/ CloseTab(v, t)
        BY <3>1 DEF SwitchTab, CloseTab, DropTab, Replace, Activate, SetActive, Steps, Gone
      <3>2. CASE Opened(v) \/ ClosingStopped(v)
        BY <3>2 DEF Opened, ClosingStopped, DropTab, Replace, Activate, SetActive, Steps, Gone
      <3>3. CASE Stopped(v) \/ Fronted(v) \/ Started(v) \/ PageClosed(v)
        BY <3>3 DEF Stopped, SetActive, Fronted, Started, Finish, PageClosed, Steps, Gone
      <3>4. CASE Navigate(v) \/ NewTab(v) \/ OpenFails(v)
        BY <3>4 DEF Navigate, NewTab, OpenFails, Steps, Gone
      <3> QED BY <3>1, <3>2, <3>3, <3>4 DEF TaskStep
    <2> QED BY <1>0, <1>2, <2>1 DEF At
  <1>4. expected' => watch' /\ sinks # {}
    <2>1. UNCHANGED paintVars \/ ExpectRepaint
      BY DEF TaskStep, SwitchTab, CloseTab, Navigate, NewTab, Stopped, Fronted, Started,
             Opened, OpenFails, ClosingStopped, PageClosed
    <2>2. CASE UNCHANGED paintVars
      <3>1. expected' = expected /\ watch' = watch
        BY <2>2
      <3> QED BY <3>1 DEF WorkInv
    <2>3. CASE ExpectRepaint /\ sinks # {}
      BY <2>3 DEF ExpectRepaint
    <2> QED BY <2>1, <2>2, <2>3 DEF ExpectRepaint
  <1> QED BY <1>1, <1>2, <1>3, <1>4 DEF WorkInv

\* The first viewer starts a pump, the last one cancels it.
LEMMA ViewerWork ==
    ASSUME TypeOK, NEW v, Viewers = {v}, WorkInv(v), ViewerStep(v)
    PROVE  WorkInv(v)'
  <1> USE DEF listVars, viewerVars, captureVars, frameVars, pumpVars, paintVars, streamVars,
              taskVars
  <1>0. v \in Tasks /\ v \in Viewers
    BY DEF Tasks
  <1>t. pc \in [Tasks -> Steps] /\ pump \in [Pumps -> PumpStates] /\ NoPump \notin Pumps
    BY PoolAssumption DEF TypeOK
  <1>1. CASE Join(v)
    <2>1. /\ pc[v] = "away" /\ At(v, "joining") /\ sinks' = {v} /\ NewPump
          /\ UNCHANGED <<expected, watch>>
      BY <1>1 DEF Join, WorkInv, Gone
    <2>2. pc'[v] = "joining"
      BY <1>0, <1>t, <2>1 DEF At
    <2>3. (\A p \in Pumps : pump[p] = "dead") /\ ~expected
      BY <2>1 DEF WorkInv, Gone
    <2>4. PICK p \in Pumps :
            /\ pumpTask' = p
            /\ pump' = [q \in Pumps |-> IF q = p THEN "waiting" ELSE Orphaned(q)]
      BY <2>1 DEF NewPump
    <2>5. {q \in Pumps : pump'[q] # "dead"} = {pumpTask'}
      BY <2>3, <2>4 DEF Orphaned
    <2> QED BY <2>1, <2>2, <2>3, <2>5 DEF WorkInv, Gone
  <1>2. CASE JoinFails(v)
    <2>1. /\ pc[v] = "away" /\ At(v, "unpumping") /\ UNCHANGED <<sinks, expected, watch>>
          /\ pump' = [q \in Pumps |-> Orphaned(q)]
      BY <1>2 DEF JoinFails
    <2>2. pc'[v] = "unpumping"
      BY <1>0, <1>t, <2>1 DEF At
    <2>3. sinks = {} /\ (\A p \in Pumps : pump[p] = "dead") /\ ~expected
      BY <2>1 DEF WorkInv, Gone
    <2>4. {q \in Pumps : pump'[q] # "dead"} = {}
      BY <2>1, <2>3 DEF Orphaned
    <2> QED BY <2>1, <2>2, <2>3, <2>4 DEF WorkInv, Gone
  <1>3. CASE Joined(v)
    <2>1. pc[v] = "joining" /\ At(v, "ready") /\ UNCHANGED <<expected, watch, sinks, pump, pumpTask>>
      BY <1>3 DEF Joined
    <2>2. pc'[v] = "ready"
      BY <1>0, <1>t, <2>1 DEF At
    <2> QED BY <2>1, <2>2 DEF WorkInv, Gone
  <1>4. CASE SocketDrops(v)
    BY <1>4 DEF SocketDrops, WorkInv
  <1>5. CASE Leave(v)
    <2>1. pc[v] = "ready" /\ sinks' = sinks \ {v}
      BY <1>5 DEF Leave
    <2>2. sinks = {v} /\ {p \in Pumps : pump[p] # "dead"} = {pumpTask}
      BY <2>1 DEF WorkInv, Gone
    <2>3. pumpTask # NoPump
      BY <1>t, <2>2
    <2>4. At(v, "unpumping") /\ CancelPump /\ DisarmRepaint /\ UNCHANGED pumpTask
      BY <1>5, <2>2, <2>3 DEF Leave
    <2>5. pc'[v] = "unpumping"
      BY <1>0, <1>t, <2>4 DEF At
    <2>6. {p \in Pumps : pump'[p] # "dead"} = {}
      BY <1>t, <2>2, <2>4 DEF CancelPump
    <2> QED BY <2>1, <2>2, <2>4, <2>5, <2>6 DEF WorkInv, Gone, DisarmRepaint
  <1>6. CASE PumpStopped(v)
    <2>1. pc[v] = "unpumping" /\ At(v, "uncasting") /\ UNCHANGED <<expected, watch, sinks, pump>>
      BY <1>6 DEF PumpStopped, Uncast
    <2>2. pc'[v] = "uncasting"
      BY <1>0, <1>t, <2>1 DEF At
    <2> QED BY <2>1, <2>2 DEF WorkInv, Gone
  <1>7. CASE Left(v)
    <2>1. /\ pc[v] = "uncasting" /\ At(v, "away")
          /\ UNCHANGED <<expected, watch, sinks, pump, pumpTask>>
      BY <1>7 DEF Left
    <2>2. pc'[v] = "away"
      BY <1>0, <1>t, <2>1 DEF At
    <2> QED BY <2>1, <2>2 DEF WorkInv, Gone
  <1> QED BY <1>1, <1>2, <1>3, <1>4, <1>5, <1>6, <1>7 DEF ViewerStep

\* Frames, pump and watchdog start and end no pump, and end expectations only.
LEMMA StreamWork ==
    ASSUME TypeOK, NEW v, Viewers = {v}, WorkInv(v),
           FrameStep \/ (\E p \in Pumps : PumpStep(p)) \/ RepaintTimesOut
    PROVE  WorkInv(v)'
  <1> USE DEF listVars, viewerVars, captureVars, frameVars, pumpVars, paintVars, streamVars,
              taskVars
  <1>1. UNCHANGED <<sinks, pumpTask, pc>>
    <2>1. CASE FrameStep
      BY <2>1 DEF FrameStep, Paint, Acked
    <2>2. ASSUME NEW p \in Pumps, PumpStep(p)
          PROVE  UNCHANGED <<sinks, pumpTask, pc>>
      BY <2>2 DEF PumpStep, PumpWakes, PumpTakes, PumpSends
    <2>3. CASE RepaintTimesOut
      BY <2>3 DEF RepaintTimesOut
    <2> QED BY <2>1, <2>2, <2>3
  <1>2. pump \in [Pumps -> PumpStates]
    BY DEF TypeOK
  <1>3. \A p \in Pumps : pump'[p] = "dead" <=> pump[p] = "dead"
    <2>1. ASSUME NEW q \in Pumps, PumpStep(q)
          PROVE  \A p \in Pumps : pump'[p] = "dead" <=> pump[p] = "dead"
      <3>1. /\ pump[q] \in {"waiting", "throttled", "sending"}
            /\ \E s \in {"waiting", "throttled", "sending"} : pump' = [pump EXCEPT ![q] = s]
        <4>1. CASE PumpWakes(q)
          BY <4>1 DEF PumpWakes
        <4>2. CASE PumpTakes(q)
          BY <4>2 DEF PumpTakes
        <4>3. ASSUME NEW w \in Viewers, PumpSends(q, w)
              PROVE  /\ pump[q] \in {"waiting", "throttled", "sending"}
                     /\ \E s \in {"waiting", "throttled", "sending"} :
                          pump' = [pump EXCEPT ![q] = s]
          BY <4>3 DEF PumpSends
        <4> QED BY <2>1, <4>1, <4>2, <4>3 DEF PumpStep
      <3> QED BY <1>2, <3>1
    <2>2. CASE FrameStep \/ RepaintTimesOut
      BY <2>2 DEF FrameStep, Paint, Acked, RepaintTimesOut
    <2> QED BY <2>1, <2>2
  <1>4. expected' => expected /\ watch'
    <2>1. ASSUME NEW p \in Pumps, PumpStep(p) PROVE expected' => expected /\ (watch => watch')
      BY <2>1 DEF PumpStep, PumpWakes, PumpTakes, PumpSends, Painted
    <2>2. CASE FrameStep
      <3>1. expected' = expected /\ watch' = watch
        BY <2>2 DEF FrameStep, Paint, Acked
      <3> QED BY <3>1 DEF WorkInv
    <2>3. CASE RepaintTimesOut
      BY <2>3 DEF RepaintTimesOut
    <2> QED BY <2>1, <2>2, <2>3 DEF WorkInv
  <1> QED BY <1>1, <1>3, <1>4 DEF WorkInv

LEMMA WorkAlways == ASSUME NEW v, Viewers = {v} PROVE Spec => [](TypeOK /\ WorkInv(v))
  <1>1. Init => WorkInv(v)
    <2> SUFFICES ASSUME Init PROVE WorkInv(v)
      OBVIOUS
    <2>1. pc[v] = "away"
      BY DEF Init, Tasks
    <2> QED BY <2>1 DEF Init, WorkInv, Gone
  <1>2. TypeOK /\ WorkInv(v) /\ [Next]_vars => WorkInv(v)'
    <2> SUFFICES ASSUME TypeOK, WorkInv(v), [Next]_vars PROVE WorkInv(v)'
      OBVIOUS
    <2>1. CASE UNCHANGED vars
      BY <2>1 DEF vars, viewerVars, pumpVars, paintVars, streamVars, taskVars, WorkInv
    <2> QED BY <2>1, TaskWork, ViewerWork, StreamWork DEF Next
  <1> QED BY <1>1, <1>2, TypeCorrect, PTL DEF Spec

\* One viewer: its pump is the only one, and runs while it watches; nobody expects a
\* repaint that no watchdog gives up on.
THEOREM WorkEndsWithViewer ==
    ASSUME NEW v, Viewers = {v} PROVE Spec => []WorksWhileWatched
  <1>1. WorkInv(v) => WorksWhileWatched
    BY DEF WorkInv, WorksWhileWatched
  <1> QED BY <1>1, WorkAlways, PTL

-----------------------------------------------------------------------------
(* The pump of one viewer: what it sent last is on the canvas or on its way   *)
(* there, and what has come since sets the event or finds the pump throttled. *)

PumpInv(v) ==
    /\ \A p \in Pumps : pump[p] # "sending" => fanOut[p] = {}
    /\ pc[v] \notin Gone /\ v \in sockets =>
        /\ IF lastSent[pumpTask] = NoFrame THEN shown[v] = NoFrame
           ELSE shown[v] = lastSent[pumpTask] \/ v \in fanOut[pumpTask]
        /\ latest # NoFrame /\ lastSent[pumpTask] \notin {NoFrame, latest}
             => ready \/ pump[pumpTask] = "throttled"

\* Operations on tabs forget the latest frame or leave it.
LEMMA TaskPump ==
    ASSUME TypeOK, NEW v, Viewers = {v}, PumpInv(v), TaskStep(v)
    PROVE  PumpInv(v)'
  <1> USE DEF listVars, viewerVars, captureVars, frameVars, pumpVars, paintVars, streamVars,
              taskVars
  <1>1. UNCHANGED <<ready, pumpTask, pump, lastSent, fanOut, sockets, shown>>
    BY DEF TaskStep, SwitchTab, CloseTab, Navigate, NewTab, Stopped, Fronted, Started, Opened,
           OpenFails, ClosingStopped, PageClosed
  <1>2. pc[v] \notin Gone
    BY DEF TaskStep, SwitchTab, CloseTab, Navigate, NewTab, Stopped, Fronted, Started, Opened,
           OpenFails, ClosingStopped, PageClosed, CanAct, Gone
  <1>3. latest' \in {latest, NoFrame}
    BY DEF TaskStep, SwitchTab, CloseTab, Navigate, NewTab, Stopped, Fronted, Started, Opened,
           OpenFails, ClosingStopped, PageClosed, Activate, SetActive, DropTab, Replace
  <1> QED BY <1>1, <1>2, <1>3 DEF PumpInv

LEMMA ViewerPump ==
    ASSUME TypeOK, NEW v, Viewers = {v}, WorkInv(v), PumpInv(v), ViewerStep(v)
    PROVE  PumpInv(v)'
  <1> USE DEF listVars, viewerVars, captureVars, frameVars, pumpVars, paintVars, streamVars,
              taskVars
  <1>0. /\ v \in Tasks /\ v \in Viewers
        /\ pc \in [Tasks -> Steps] /\ pump \in [Pumps -> PumpStates]
        /\ lastSent \in [Pumps -> Frames \cup {NoFrame}] /\ fanOut \in [Pumps -> SUBSET Viewers]
        /\ shown \in [Viewers -> Frames \cup {NoFrame}]
    BY DEF Tasks, TypeOK
  <1>1. CASE Join(v)
    <2>1. pc[v] = "away" /\ sinks = {} /\ NewPump /\ shown' = [shown EXCEPT ![v] = NoFrame]
      BY <1>1 DEF Join, WorkInv, Gone
    <2>2. PICK p \in Pumps :
            /\ pumpTask' = p
            /\ pump' = [q \in Pumps |-> IF q = p THEN "waiting" ELSE Orphaned(q)]
            /\ lastSent' = [lastSent EXCEPT ![p] = NoFrame]
            /\ fanOut' = [fanOut EXCEPT ![p] = {}]
      BY <2>1 DEF NewPump
    <2>3. \A q \in Pumps : pump[q] = "dead" /\ fanOut[q] = {}
      BY <2>1 DEF WorkInv, PumpInv
    <2>4. \A q \in Pumps : fanOut'[q] = {}
      BY <1>0, <2>2, <2>3
    <2>5. lastSent'[pumpTask'] = NoFrame /\ shown'[v] = NoFrame
      BY <1>0, <2>1, <2>2
    <2> QED BY <2>4, <2>5 DEF PumpInv
  <1>2. CASE Joined(v)
    <2>1. /\ pc[v] \notin Gone
          /\ UNCHANGED <<ready, pumpTask, pump, lastSent, fanOut, sockets, shown, latest>>
      BY <1>2 DEF Joined, Gone
    <2> QED BY <2>1 DEF PumpInv
  <1>3. CASE SocketDrops(v)
    <2>1. v \notin sockets' /\ UNCHANGED <<pump, fanOut>>
      BY <1>3 DEF SocketDrops
    <2> QED BY <2>1 DEF PumpInv
  <1>4. CASE Leave(v)
    <2>1. v \notin sockets'
      BY <1>4 DEF Leave
    <2>2. CASE UNCHANGED <<pump, fanOut>>
      BY <2>1, <2>2 DEF PumpInv
    <2>3. CASE CancelPump
      <3>1. \A p \in Pumps : pump'[p] # "sending" => fanOut'[p] = {}
        BY <1>0, <2>3 DEF CancelPump, PumpInv
      <3> QED BY <2>1, <3>1 DEF PumpInv
    <2> QED BY <1>4, <2>2, <2>3 DEF Leave
  <1>5. CASE PumpStopped(v) \/ Left(v)
    <2>1. pc'[v] \in Gone /\ UNCHANGED <<pump, fanOut>>
      BY <1>0, <1>5 DEF PumpStopped, Left, Uncast, At, Gone
    <2> QED BY <2>1 DEF PumpInv
  <1>6. CASE JoinFails(v)
    <2>1. pc[v] = "away" /\ pump' = [q \in Pumps |-> Orphaned(q)] /\ fanOut' = fanOut
      BY <1>6 DEF JoinFails
    <2>2. pc'[v] = "unpumping"
      BY <1>0, <1>6 DEF JoinFails, At
    <2>3. \A q \in Pumps : pump[q] = "dead" /\ fanOut[q] = {}
      BY <2>1 DEF WorkInv, PumpInv, Gone
    <2> QED BY <2>1, <2>2, <2>3 DEF PumpInv, Gone
  <1> QED BY <1>1, <1>2, <1>3, <1>4, <1>5, <1>6 DEF ViewerStep

LEMMA StreamPump ==
    ASSUME TypeOK, NEW v, Viewers = {v}, WorkInv(v), PumpInv(v),
           FrameStep \/ (\E p \in Pumps : PumpStep(p)) \/ RepaintTimesOut
    PROVE  PumpInv(v)'
  <1> USE DEF listVars, viewerVars, captureVars, frameVars, pumpVars, paintVars, streamVars,
              taskVars
  <1>0. /\ v \in Viewers
        /\ pump \in [Pumps -> PumpStates]
        /\ lastSent \in [Pumps -> Frames \cup {NoFrame}] /\ fanOut \in [Pumps -> SUBSET Viewers]
        /\ shown \in [Viewers -> Frames \cup {NoFrame}]
    BY DEF TypeOK
  <1>1. CASE FrameStep
    <2>1. /\ UNCHANGED <<pc, pumpTask, pump, lastSent, fanOut, sockets, shown>>
          /\ (ready' = TRUE) \/ (ready' = ready /\ latest' = latest)
      BY <1>1 DEF FrameStep, Paint, Acked
    <2> QED BY <2>1 DEF PumpInv
  <1>2. CASE RepaintTimesOut
    <2>1. UNCHANGED <<pc, pumpTask, pump, lastSent, fanOut, sockets, shown, ready, latest>>
      BY <1>2 DEF RepaintTimesOut
    <2> QED BY <2>1 DEF PumpInv
  <1>3. ASSUME NEW p \in Pumps, PumpStep(p) PROVE PumpInv(v)'
    <2>0. UNCHANGED <<pc, pumpTask, latest, sockets>> /\ pump[p] # "dead"
      BY <1>3 DEF PumpStep, PumpWakes, PumpTakes, PumpSends
    <2>1. p = pumpTask /\ sinks = {v}
      BY <2>0 DEF WorkInv
    <2>2. CASE PumpWakes(p)
      BY <1>0, <2>0, <2>1, <2>2 DEF PumpWakes, PumpInv
    <2>3. CASE PumpTakes(p) /\ (latest = NoFrame \/ latest = lastSent[p])
      BY <1>0, <2>0, <2>1, <2>3 DEF PumpTakes, PumpInv
    <2>4. CASE PumpTakes(p) /\ ~(latest = NoFrame \/ latest = lastSent[p])
      <3>1. /\ lastSent'[p] = latest /\ fanOut'[p] = {v} /\ pump'[p] = "sending"
            /\ \A q \in Pumps \ {p} : fanOut'[q] = fanOut[q] /\ pump'[q] = pump[q]
        BY <1>0, <2>1, <2>4 DEF PumpTakes
      <3> QED BY <2>0, <2>1, <2>4, <3>1 DEF PumpInv
    <2>5. ASSUME PumpSends(p, v) PROVE PumpInv(v)'
      <3>1. /\ lastSent' = lastSent /\ ready' = ready /\ pump[p] = "sending" /\ v \in fanOut[p]
            /\ v \in sockets => shown'[v] = lastSent[p]
            /\ fanOut'[p] = {}
            /\ \A q \in Pumps \ {p} : fanOut'[q] = fanOut[q] /\ pump'[q] = pump[q]
        BY <1>0, <2>5 DEF PumpSends
      <3> QED BY <2>0, <2>1, <3>1 DEF PumpInv
    <2> QED BY <1>3, <2>2, <2>3, <2>4, <2>5 DEF PumpStep
  <1> QED BY <1>1, <1>2, <1>3

\* One viewer: whatever comes while the pump is throttled or sends, a viewer that has
\* seen a frame is not left with an older one than the latest.
THEOREM LatestIsOnItsWay ==
    ASSUME NEW v, Viewers = {v} PROVE Spec => []NeverLeftBehind
  <1>1. Init => PumpInv(v)
    BY DEF Init, PumpInv
  <1>2. TypeOK /\ WorkInv(v) /\ PumpInv(v) /\ [Next]_vars => PumpInv(v)'
    <2> SUFFICES ASSUME TypeOK, WorkInv(v), PumpInv(v), [Next]_vars PROVE PumpInv(v)'
      OBVIOUS
    <2>1. CASE UNCHANGED vars
      BY <2>1 DEF vars, viewerVars, pumpVars, streamVars, taskVars, PumpInv
    <2> QED BY <2>1, TaskPump, ViewerPump, StreamPump DEF Next
  <1>3. TypeOK /\ WorkInv(v) /\ PumpInv(v) => NeverLeftBehind
    <2> SUFFICES ASSUME TypeOK, WorkInv(v), PumpInv(v), NEW w \in sinks \cap sockets,
                        shown[w] # NoFrame, latest # NoFrame, shown[w] # latest
                 PROVE  \/ ready
                        \/ \E p \in Pumps : \/ pump[p] = "throttled"
                                            \/ lastSent[p] = latest /\ w \in fanOut[p]
      BY DEF NeverLeftBehind
    <2>1. w = v /\ sinks = {v} /\ pc[v] \notin Gone /\ pumpTask \in Pumps
      BY DEF WorkInv
    <2> QED BY <2>1 DEF PumpInv
  <1> QED BY <1>1, <1>2, <1>3, WorkAlways, PTL DEF Spec
=============================================================================
