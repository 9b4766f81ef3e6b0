------------------------------ MODULE Screencast ------------------------------
(***************************************************************************)
(* The tabs of one PlaywrightDriver and the screencast of the active one   *)
(* (src/src/browser_driver.py): viewers register frame sinks, the capture  *)
(* and the pump run once for all of them, and every change of the active   *)
(* tab moves the capture.                                                  *)
(*                                                                         *)
(* Viewers (their receive loops), agent calls and the handler of pages the *)
(* site closes are tasks of one loop; an action is the code between two    *)
(* awaits.  A CDP command takes effect when it is sent: a session keeps    *)
(* their order.  _capturing_cdp only feeds metrics and is left out.        *)
(***************************************************************************)
EXTENDS Integers, FiniteSets, Sequences, SequencesExt

CONSTANTS
    Viewers,      \* pool of co-browse connections, recycled once unreferenced
    Agents,       \* agent tool calls
    Site,         \* the task that handles a page the site closed
    Extension,    \* whether the browser is the user's own, under the extension
    Tabs,         \* pool of tab identities, recycled once unreferenced
    Pumps,        \* pool of pump tasks, recycled once they can do nothing more
    NoTab, NoPump,
    MaxTabs,      \* bound on the tabs opened on demand
    MaxFrames     \* bound on the frames the browser emits

Tasks == Viewers \cup Agents \cup {Site}

ASSUME TaskAssumption == /\ Viewers \cap Agents = {}
                         /\ Site \notin Viewers \cup Agents
ASSUME PoolAssumption == NoTab \notin Tabs /\ NoPump \notin Pumps /\ Tabs # {}
ASSUME ModeAssumption == Extension \in BOOLEAN
ASSUME BoundAssumption == {MaxTabs, MaxFrames} \subseteq Nat

VARIABLES
    tabs,       \* Seq(Tabs): _tabs
    active,     \* _active_id
    bare,       \* whether nobody is to put a tab on the empty list (history)
    sinks,      \* SUBSET Viewers: _sinks
    sockets,    \* SUBSET Viewers: those whose WebSocket is still up
    tracked,    \* SUBSET Tabs: tabs with a _screencast_handler, a frame listener
    leaked,     \* SUBSET Tabs: tabs with further listeners nobody remembers
    casting,    \* SUBSET Tabs: tabs the browser captures
    acking,     \* frames whose _on_frame awaits the acknowledgement
    emitted,    \* frames emitted so far, the number of the newest
    latest,     \* _latest_frame
    ready,      \* _frame_ready.is_set()
    pumpTask,   \* _pump_task
    pump,       \* [Pumps -> state of a pump task]
    lastSent,   \* [Pumps -> last_sent_frame]
    fanOut,     \* [Pumps -> SUBSET Viewers]: sinks still to be sent that frame
    shown,      \* [Viewers -> frame on the viewer's canvas]
    expected,   \* whether _repaint_expected_at is set
    watch,      \* whether _repaint_watch is running
    pc,         \* [Tasks -> the await the task is suspended in]
    target,     \* [Tasks -> tab being made active]
    victim,     \* [Tasks -> tab being closed]
    gotos       \* SUBSET Tasks: those whose new tab is for a URL to open

listVars == <<tabs, bare>>
viewerVars == <<sinks, sockets, shown>>
captureVars == <<tracked, leaked, casting>>
frameVars == <<acking, emitted>>
pumpVars == <<ready, pumpTask, pump, lastSent, fanOut>>
paintVars == <<expected, watch>>
streamVars == <<frameVars, pumpVars, paintVars>>
taskVars == <<pc, target, victim, gotos>>
vars == <<listVars, active, viewerVars, captureVars, latest, streamVars, taskVars>>

Frames == [tab : Tabs, n : 1..MaxFrames]
NoFrame == [tab |-> NoTab, n |-> 0]
PumpStates == {"dead", "waiting", "throttled", "sending", "stuck"}
Steps == {"away", "ready", "joining", "unpumping", "uncasting", "stopping", "fronting",
          "starting", "opening", "closing", "pageClosing"}

-----------------------------------------------------------------------------
(* Helpers *)

\* _active(): the first tab when the active id names none; with no tab at all
\* it raises.
ActiveOf(list, id) == IF id \in Range(list) THEN id ELSE Head(list)
ActiveTab == ActiveOf(tabs, active)

\* The list without t; a tab is on it once.
Without(t) ==
    IF t \in Range(tabs) THEN RemoveAt(tabs, CHOOSE i \in DOMAIN tabs : tabs[i] = t) ELSE tabs

FreshTabs == {t \in Tabs :
    /\ t \notin Range(tabs) /\ active # t /\ latest.tab # t
    /\ \A u \in Tasks : target[u] # t /\ victim[u] # t
    /\ \A f \in acking : f.tab # t
    /\ t \notin tracked \cup leaked \cup casting}

\* The bound on tabs that nobody has to open.
RoomForTab == Len(tabs) + Cardinality({u \in Tasks : pc[u] = "opening"}) < MaxTabs

\* Nobody is in the middle of an operation.
Quiet == \A u \in Tasks : pc[u] \in {"away", "ready"}

\* Pages that close take their sessions along.
PageGone(pages) ==
    /\ tracked' = tracked \ pages
    /\ leaked' = leaked \ pages
    /\ casting' = casting \ pages

\* Mutant: the handler is removed but the browser goes on capturing.
StopOnSilently(t, pages) ==
    /\ tracked' = tracked \ (pages \cup {t})
    /\ leaked' = leaked \ pages
    /\ casting' = casting \ pages

\* _stop_screencast_on(t) removes the handler the tab remembers.  `pages` are
\* those that close in the same step.
StopOn(t, pages) ==
    /\ tracked' = tracked \ (pages \cup {t})
    /\ leaked' = leaked \ pages
    /\ casting' = casting \ (pages \cup {t})

\* _start_screencast_on(t) overwrites the handler, if there is one.
StartOn(t) ==
    /\ tracked' = tracked \cup {t}
    /\ leaked' = leaked \cup (tracked \cap {t})
    /\ casting' = casting \cup {t}

\* _expect_repaint
ExpectRepaint ==
    IF sinks = {} THEN UNCHANGED paintVars
    ELSE expected' = TRUE /\ watch' = TRUE

\* _resolve_repaint
Painted ==
    IF expected THEN expected' = FALSE /\ watch' = FALSE
    ELSE UNCHANGED paintVars

At(u, step) == pc' = [pc EXCEPT ![u] = step]

-----------------------------------------------------------------------------
(* _activate and the operations that end in it *)

\* The middle of _activate, from the assignment of _active_id to the awaits of
\* _hydrate_tab and bring_to_front.
SetActive(u, list, t) ==
    /\ active' = t
    /\ latest' = IF list = <<>> THEN latest ELSE NoFrame
    /\ target' = [target EXCEPT ![u] = NoTab]
    /\ At(u, IF list = <<>> THEN "ready" ELSE "fronting")

\* _activate(t) is entered with the tab list `list` and the active id `id`.
Activate(u, list, id, t, pages) ==
    IF sinks = {}
    THEN SetActive(u, list, t) /\ PageGone(pages)
    ELSE /\ active' = id
         /\ target' = [target EXCEPT ![u] = t]
         /\ At(u, "stopping")
         /\ StopOn(ActiveOf(list, id), pages)
         /\ UNCHANGED latest

\* A viewer's socket may have gone while it was at work; the loop finds out
\* when it reads the next message.
CanAct(u) == pc[u] = "ready" /\ u # Site

\* switch_tab of a viewer; an agent's activate_num leaves the active tab alone.
SwitchTab(u, t) ==
    /\ CanAct(u)
    /\ t \in Range(tabs)
    /\ u \in Agents => t # active
    /\ Activate(u, tabs, active, t, {})
    /\ victim' = [victim EXCEPT ![u] = NoTab]
    /\ UNCHANGED <<listVars, viewerVars, streamVars, gotos>>

\* The old session has answered Page.stopScreencast.
Stopped(u) ==
    /\ pc[u] = "stopping"
    /\ SetActive(u, tabs, target[u])
    /\ UNCHANGED <<listVars, viewerVars, captureVars, streamVars, victim, gotos>>

\* What the task does after _activate: close_tab has the page itself to close.
Finish(u) == /\ At(u, IF victim[u] = NoTab THEN "ready" ELSE "pageClosing")
             /\ gotos' = gotos \ {u}

\* bring_to_front is done: the capture of the active tab starts.
Fronted(u) ==
    /\ pc[u] = "fronting"
    /\ IF sinks = {} \/ tabs = <<>>
       THEN Finish(u) /\ UNCHANGED <<captureVars, paintVars>>
       ELSE /\ ExpectRepaint
            /\ StartOn(ActiveTab)
            /\ At(u, "starting")
            /\ UNCHANGED gotos
    /\ UNCHANGED <<listVars, active, viewerVars, latest, frameVars, pumpVars, target,
                   victim>>

Started(u) ==
    /\ pc[u] = "starting"
    /\ Finish(u)
    /\ IF u \in gotos THEN ExpectRepaint ELSE UNCHANGED paintVars
    /\ UNCHANGED <<listVars, active, viewerVars, captureVars, latest, frameVars, pumpVars,
                   target, victim>>

\* open of another URL in the active tab: it must repaint.
Navigate(u) ==
    /\ CanAct(u)
    /\ tabs # <<>>
    /\ ExpectRepaint
    /\ UNCHANGED <<listVars, active, viewerVars, captureVars, latest, frameVars, pumpVars,
                   taskVars>>

\* new_tab, or a viewer's open(new_tab=True): the page is awaited, activated and,
\* for the latter, navigated.
NewTab(u) ==
    /\ CanAct(u)
    /\ RoomForTab
    /\ At(u, "opening")
    /\ victim' = [victim EXCEPT ![u] = NoTab]
    /\ gotos' = gotos \cup (Viewers \cap {u})
    /\ UNCHANGED <<listVars, active, viewerVars, captureVars, latest, streamVars, target>>

\* The page that is being opened replaces the last one.
Replacing(u) == u = Site \/ victim[u] # NoTab

\* _new_page_tab is through.  A close that emptied the list forgets the active
\* id before it activates the new tab.
Opened(u) ==
    /\ pc[u] = "opening"
    /\ \E t \in FreshTabs :
         /\ tabs' = Append(tabs, t)
         /\ Activate(u, Append(tabs, t), IF Replacing(u) THEN NoTab ELSE active, t, {})
    /\ bare' = FALSE
    /\ UNCHANGED <<viewerVars, streamVars, victim, gotos>>

\* new_page or the registration of the page raises: the list stays as it is, empty
\* perhaps, and the page close_tab has taken off it stays open (victim[u], until the
\* task's next operation).
OpenFails(u) ==
    /\ pc[u] = "opening"
    /\ At(u, "ready")
    /\ gotos' = gotos \ {u}
    /\ bare' = (bare \/ (Replacing(u) /\ tabs = <<>>))
    /\ UNCHANGED <<tabs, active, viewerVars, captureVars, latest, streamVars, target,
                   victim>>

\* Mutant: no new tab replaces the last one.
ReplaceNever(u, list, wasActive, id, pages) ==
    IF list # <<>> /\ wasActive THEN Activate(u, list, id, Head(list), pages)
    ELSE /\ At(u, IF u = Site THEN "ready" ELSE "pageClosing")
         /\ PageGone(pages)
         /\ UNCHANGED <<active, latest, target>>

\* The user closed the last tab they gave: the extension is about to end the session.
LeftToExtension(u, list) == u = Site /\ Extension /\ list = <<>>

\* close_tab and _on_page_closed once the tab is out of the list.
Replace(u, list, wasActive, id, pages) ==
    IF list = <<>> THEN /\ At(u, IF LeftToExtension(u, list) THEN "ready" ELSE "opening")
                        /\ PageGone(pages)
                        /\ UNCHANGED <<active, latest, target>>
    ELSE IF wasActive THEN Activate(u, list, id, Head(list), pages)
    ELSE /\ At(u, IF u = Site THEN "ready" ELSE "pageClosing")
         /\ PageGone(pages)
         /\ UNCHANGED <<active, latest, target>>

\* The tab leaves the list.
DropTab(u, t, wasActive) ==
    /\ tabs' = Without(t)
    /\ UNCHANGED bare
    /\ Replace(u, Without(t), wasActive, active, {})

\* close_tab: an active tab's capture is stopped on its own session first.
CloseTab(u, t) ==
    /\ CanAct(u)
    /\ t \in Range(tabs)
    /\ victim' = [victim EXCEPT ![u] = t]
    /\ IF t = active /\ sinks # {}
       THEN StopOn(t, {}) /\ At(u, "closing") /\ UNCHANGED <<listVars, active, latest, target>>
       ELSE DropTab(u, t, t = active)
    /\ UNCHANGED <<viewerVars, streamVars, gotos>>

ClosingStopped(u) ==
    /\ pc[u] = "closing"
    /\ DropTab(u, victim[u], TRUE)
    /\ UNCHANGED <<viewerVars, streamVars, victim, gotos>>

\* page.close() is done; the close event finds the tab off the list.
PageClosed(u) ==
    /\ pc[u] = "pageClosing"
    /\ PageGone({victim[u]})
    /\ victim' = [victim EXCEPT ![u] = NoTab]
    /\ At(u, "ready")
    /\ UNCHANGED <<listVars, active, viewerVars, latest, streamVars, target, gotos>>

\* The site closes a page: _on_page_closed.
SiteCloses(t) ==
    /\ pc[Site] = "ready"
    /\ t \in Range(tabs)
    /\ tabs' = Without(t)
    /\ bare' = (bare \/ LeftToExtension(Site, Without(t)))
    /\ Replace(Site, Without(t), t = active, NoTab, {t})
    /\ UNCHANGED <<viewerVars, streamVars, victim, gotos>>

\* The site opens a page: _on_context_page adopts it, the active tab stays.
SiteOpens ==
    /\ RoomForTab
    /\ \E t \in FreshTabs : tabs' = Append(tabs, t)
    /\ bare' = FALSE
    /\ UNCHANGED <<active, viewerVars, captureVars, latest, streamVars, taskVars>>

-----------------------------------------------------------------------------
(* Viewers *)

\* What a new event makes of an older pump: one that waits on the old event wakes
\* up if that was set, and never otherwise.
Orphaned(q) == IF pump[q] # "waiting" THEN pump[q]
               ELSE IF ready THEN "throttled" ELSE "stuck"

\* The first sink starts a pump on a new event.
NewPump ==
    \E p \in Pumps :
        /\ pump[p] \in {"dead", "stuck"}
        /\ pumpTask' = p
        /\ pump' = [q \in Pumps |-> IF q = p THEN "waiting"
                                    ELSE Orphaned(q)]
        /\ lastSent' = [lastSent EXCEPT ![p] = NoFrame]
        /\ fanOut' = [fanOut EXCEPT ![p] = {}]

\* add_frame_sink: the first viewer starts the capture; a later one is handed
\* the cached frame, if there is one.
Join(v) ==
    /\ pc[v] = "away"
    /\ \A p \in Pumps : v \notin fanOut[p]
    /\ sinks = {} => tabs # <<>>
    /\ sinks' = sinks \cup {v}
    /\ sockets' = sockets \cup {v}
    /\ IF sinks = {}
       THEN /\ NewPump
            /\ ready' = FALSE
            /\ StartOn(ActiveTab)
            /\ At(v, "joining")
            /\ shown' = [shown EXCEPT ![v] = NoFrame]
       ELSE /\ shown' = [shown EXCEPT ![v] = latest]
            /\ At(v, IF latest = NoFrame THEN "ready" ELSE "joining")
            /\ UNCHANGED <<captureVars, pumpVars>>
    /\ UNCHANGED <<listVars, active, latest, frameVars, paintVars, target, victim, gotos>>

\* A first viewer that comes while there is no tab: _active() raises and the
\* connection takes its sink back at once.
JoinFails(v) ==
    /\ pc[v] = "away"
    /\ sinks = {} /\ tabs = <<>>
    /\ \E p \in Pumps :
         /\ pump[p] \in {"dead", "stuck"}
         /\ pumpTask' = p
         /\ pump' = [q \in Pumps |-> Orphaned(q)]
    /\ ready' = FALSE
    /\ At(v, "unpumping")
    /\ UNCHANGED <<listVars, active, viewerVars, captureVars, latest, frameVars, lastSent,
                   fanOut, paintVars, target, victim, gotos>>

Joined(v) ==
    /\ pc[v] = "joining"
    /\ At(v, "ready")
    /\ UNCHANGED <<listVars, active, viewerVars, captureVars, latest, streamVars, target,
                   victim, gotos>>

\* The viewer's connection drops; the pod has not noticed yet.
SocketDrops(v) ==
    /\ v \in sockets
    /\ sockets' = sockets \ {v}
    /\ UNCHANGED <<listVars, active, sinks, shown, captureVars, latest, streamVars,
                   taskVars>>

\* The end of _stop_capture: with the pump gone, the cache is dropped and the
\* active tab's capture stopped.
Uncast(v) ==
    /\ latest' = NoFrame
    /\ IF tabs = <<>> THEN UNCHANGED captureVars ELSE StopOn(ActiveTab, {})
    /\ At(v, "uncasting")

\* The head of _stop_capture: nobody waits for a repaint any more.
DisarmRepaint == expected' = FALSE /\ watch' = FALSE

\* Mutant: the pump is forgotten without being cancelled.
LetPumpRun == UNCHANGED <<pump, fanOut>>

CancelPump ==
    /\ pump' = [pump EXCEPT ![pumpTask] = "dead"]
    /\ fanOut' = [fanOut EXCEPT ![pumpTask] = {}]

\* remove_frame_sink; the last viewer out cancels the watchdog and the pump and
\* awaits the latter.
Leave(v) ==
    /\ pc[v] = "ready" /\ v \in Viewers
    /\ sinks' = sinks \ {v}
    /\ sockets' = sockets \ {v}
    /\ shown' = [shown EXCEPT ![v] = NoFrame]
    /\ IF sinks # {v}
       THEN At(v, "away") /\ UNCHANGED <<captureVars, latest, pumpVars, paintVars>>
       ELSE /\ DisarmRepaint
            /\ IF pumpTask = NoPump THEN Uncast(v) /\ UNCHANGED pumpVars
               ELSE /\ At(v, "unpumping")
                    /\ CancelPump
                    /\ UNCHANGED <<captureVars, latest, pumpTask, lastSent>>
    /\ UNCHANGED <<listVars, active, frameVars, ready, target, victim, gotos>>

\* The cancelled pump is gone; _pump_task is forgotten, whichever it is by now.
PumpStopped(v) ==
    /\ pc[v] = "unpumping"
    /\ pumpTask' = NoPump
    /\ Uncast(v)
    /\ UNCHANGED <<listVars, active, viewerVars, frameVars, ready, pump, lastSent, fanOut,
                   paintVars, target, victim, gotos>>

Left(v) ==
    /\ pc[v] = "uncasting"
    /\ At(v, "away")
    /\ UNCHANGED <<listVars, active, viewerVars, captureVars, latest, streamVars, target,
                   victim, gotos>>

-----------------------------------------------------------------------------
(* Frames, the pump, the repaint watchdog *)

\* The browser emits a frame of a captured tab, whose handler sends the
\* acknowledgement.  One frame of a tab is unacknowledged at a time.
Paint(t) ==
    /\ t \in casting
    /\ t \in tracked \cup leaked
    /\ emitted < MaxFrames
    /\ \A f \in acking : f.tab # t
    /\ acking' = acking \cup {[tab |-> t, n |-> emitted + 1]}
    /\ emitted' = emitted + 1
    /\ UNCHANGED <<listVars, active, viewerVars, captureVars, latest, pumpVars, paintVars,
                   taskVars>>

\* The rest of _on_frame: the frame becomes the latest, wherever it came from.
Acked(f) ==
    /\ acking' = acking \ {f}
    /\ latest' = f
    /\ ready' = TRUE
    /\ UNCHANGED <<listVars, active, viewerVars, captureVars, emitted, pumpTask, pump,
                   lastSent, fanOut, paintVars, taskVars>>

PumpWakes(p) ==
    /\ pump[p] = "waiting"
    /\ ready
    /\ pump' = [pump EXCEPT ![p] = "throttled"]
    /\ UNCHANGED <<listVars, active, viewerVars, captureVars, latest, frameVars, ready,
                   pumpTask, lastSent, fanOut, paintVars, taskVars>>

\* The throttle is over: the freshest frame is taken, unless it went out before.
PumpTakes(p) ==
    /\ pump[p] = "throttled"
    /\ ready' = FALSE
    /\ IF latest = NoFrame \/ latest = lastSent[p]
       THEN pump' = [pump EXCEPT ![p] = "waiting"] /\ UNCHANGED <<lastSent, fanOut>>
       ELSE /\ lastSent' = [lastSent EXCEPT ![p] = latest]
            /\ fanOut' = [fanOut EXCEPT ![p] = sinks]
            /\ pump' = [pump EXCEPT ![p] = IF sinks = {} THEN "waiting" ELSE "sending"]
    /\ UNCHANGED <<listVars, active, viewerVars, captureVars, latest, frameVars, pumpTask,
                   paintVars, taskVars>>

\* Mutant: the event is cleared when the fan-out is over.
PumpSendsClear(p, v) ==
    /\ pump[p] = "sending"
    /\ v \in fanOut[p]
    /\ fanOut' = [fanOut EXCEPT ![p] = @ \ {v}]
    /\ pump' = [pump EXCEPT ![p] = IF fanOut[p] = {v} THEN "waiting" ELSE "sending"]
    /\ shown' = IF v \in sockets THEN [shown EXCEPT ![v] = lastSent[p]] ELSE shown
    /\ Painted
    /\ ready' = (ready /\ fanOut[p] # {v})
    /\ UNCHANGED <<listVars, active, sinks, sockets, captureVars, latest, frameVars,
                   pumpTask, lastSent, taskVars>>

\* One send of the fan-out.  The adapter swallows the failure of a closed
\* socket, so the send counts as a paint either way.
PumpSends(p, v) ==
    /\ pump[p] = "sending"
    /\ v \in fanOut[p]
    /\ fanOut' = [fanOut EXCEPT ![p] = @ \ {v}]
    /\ pump' = [pump EXCEPT ![p] = IF fanOut[p] = {v} THEN "waiting" ELSE "sending"]
    /\ shown' = IF v \in sockets THEN [shown EXCEPT ![v] = lastSent[p]] ELSE shown
    /\ Painted
    /\ UNCHANGED <<listVars, active, sinks, sockets, captureVars, latest, frameVars, ready,
                   pumpTask, lastSent, taskVars>>

\* _watch_repaint: the deadline passes without a frame.
RepaintTimesOut ==
    /\ watch
    /\ watch' = FALSE
    /\ expected' = FALSE
    /\ UNCHANGED <<listVars, active, viewerVars, captureVars, latest, frameVars, pumpVars,
                   taskVars>>

-----------------------------------------------------------------------------
\* start() has adopted the browser's first page.
Init ==
    /\ \E t \in Tabs : tabs = <<t>> /\ active = t
    /\ bare = FALSE
    /\ sinks = {} /\ sockets = {}
    /\ tracked = {} /\ leaked = {} /\ casting = {}
    /\ acking = {} /\ emitted = 0
    /\ latest = NoFrame /\ ready = FALSE
    /\ pumpTask = NoPump
    /\ pump = [p \in Pumps |-> "dead"]
    /\ lastSent = [p \in Pumps |-> NoFrame]
    /\ fanOut = [p \in Pumps |-> {}]
    /\ shown = [v \in Viewers |-> NoFrame]
    /\ expected = FALSE /\ watch = FALSE
    /\ pc = [u \in Tasks |-> IF u \in Viewers THEN "away" ELSE "ready"]
    /\ target = [u \in Tasks |-> NoTab]
    /\ victim = [u \in Tasks |-> NoTab]
    /\ gotos = {}

TaskStep(u) ==
    \/ \E t \in Tabs : SwitchTab(u, t) \/ CloseTab(u, t)
    \/ Navigate(u) \/ NewTab(u)
    \/ Stopped(u) \/ Fronted(u) \/ Started(u)
    \/ Opened(u) \/ OpenFails(u) \/ ClosingStopped(u) \/ PageClosed(u)

ViewerStep(v) ==
    \/ Join(v) \/ JoinFails(v) \/ Joined(v) \/ SocketDrops(v)
    \/ Leave(v) \/ PumpStopped(v) \/ Left(v)

FrameStep ==
    \/ \E t \in Tabs : Paint(t)
    \/ \E f \in acking : Acked(f)

PumpStep(p) == PumpWakes(p) \/ PumpTakes(p) \/ \E v \in Viewers : PumpSends(p, v)

\* What viewers do by themselves.  AgentCalls puts them next to agents and sites
\* (SiteOpens, SiteCloses).
Next ==
    \/ \E v \in Viewers : TaskStep(v)
    \/ \E v \in Viewers : ViewerStep(v)
    \/ FrameStep
    \/ \E p \in Pumps : PumpStep(p)
    \/ RepaintTimesOut

Spec == Init /\ [][Next]_vars

\* A pump wakes, takes and sends, and acknowledgements arrive; nobody has to
\* join, leave or act, and the browser need not paint.
Fairness ==
    /\ \A p \in Pumps : WF_vars(PumpStep(p))
    /\ \A t \in Tabs : WF_vars(\E f \in acking : f.tab = t /\ Acked(f))

FairSpec == Spec /\ Fairness

-----------------------------------------------------------------------------
(* Properties *)

TypeOK ==
    /\ tabs \in Seq(Tabs) /\ active \in Tabs \cup {NoTab} /\ bare \in BOOLEAN
    /\ sinks \subseteq Viewers /\ sockets \subseteq Viewers
    /\ tracked \subseteq Tabs /\ leaked \subseteq Tabs /\ casting \subseteq Tabs
    /\ acking \subseteq Frames /\ emitted \in 0..MaxFrames
    /\ latest \in Frames \cup {NoFrame} /\ ready \in BOOLEAN
    /\ pumpTask \in Pumps \cup {NoPump} /\ pump \in [Pumps -> PumpStates]
    /\ lastSent \in [Pumps -> Frames \cup {NoFrame}]
    /\ fanOut \in [Pumps -> SUBSET Viewers]
    /\ shown \in [Viewers -> Frames \cup {NoFrame}]
    /\ expected \in BOOLEAN
    /\ watch \in BOOLEAN
    /\ pc \in [Tasks -> Steps]
    /\ target \in [Tasks -> Tabs \cup {NoTab}] /\ victim \in [Tasks -> Tabs \cup {NoTab}]
    /\ gotos \subseteq Tasks

\* The capture follows the active tab and ends with the last viewer: between
\* operations exactly that tab is captured, through the one listener it remembers;
\* and nothing while there is no tab because none could be opened.
CaptureFollowsActive ==
    Quiet => LET on == IF sinks = {} \/ tabs = <<>> THEN {} ELSE {ActiveTab}
             IN  casting = on /\ tracked = on /\ leaked = {}

\* What runs for viewers runs while there are some: one pump between operations, and
\* a repaint is expected only with viewers to disappoint and a watchdog that resolves
\* the expectation, so none stays armed for good.
WorksWhileWatched ==
    /\ Quiet => {p \in Pumps : pump[p] # "dead"} = IF sinks = {} THEN {} ELSE {pumpTask}
    /\ expected => watch /\ sinks # {}

\* "Never leave the session tab-less": whoever closes what, between operations there
\* is a tab, unless opening the replacement of the last one failed, or the user closed
\* the last tab under the extension, which then ends the session.
NeverTabless == Quiet /\ tabs = <<>> => bare

\* A viewer that has been shown a frame is not left with an older one than the latest:
\* the event is set, a pump is about to take the latest, or is sending it to the viewer.
NeverLeftBehind ==
    \A v \in sinks \cap sockets :
        shown[v] # NoFrame /\ latest # NoFrame /\ shown[v] # latest
            => \/ ready
               \/ \E p \in Pumps : \/ pump[p] = "throttled"
                                   \/ lastSent[p] = latest /\ v \in fanOut[p]

\* "the cap trades fps, never latency-to-current-state": a frame that stays
\* the latest reaches every viewer that stays, whenever it arrived.
FreshestGetsThrough ==
    \A v \in Viewers :
        ready /\ latest # NoFrame /\ v \in sinks \cap sockets
            ~> shown[v] = latest \/ latest = NoFrame \/ v \notin sinks \cap sockets

-----------------------------------------------------------------------------
(* What a comment says and the code does not always do *)

\* "while any sink remains the screencast keeps running for the others"
WatchedIsCast == Quiet /\ sinks # {} /\ tabs # <<>> => ActiveTab \in casting
=============================================================================
