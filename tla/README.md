# TLA+ verification of mcp-browser

mcp-browser is a tool pod: an MCP server whose tools drive Chromium for an
agent, and a WebSocket through which a human watches and drives the same
browser.  Both planes act on one `BrowserDriver` per chat.  Everything but a few
blocking file operations (worker threads) runs on one asyncio loop, so the
interleavings that matter are those of tasks at their `await`s, plus threads,
other pods on the same volume, and the browser itself.

Source lines below are of this repository's `src/` directory (Python), written
`src/src/<file>` in PROJECT.json.

## Inventory

| component | source | state it keeps | operations | what makes it correct |
|---|---|---|---|---|
| session registry | `sessions.py` | `_sessions`, `_locks`, per session `viewers`, idle clock, `agent_paused` | `get_or_create`, `close`, `_evict_for_headroom`, `reap_idle`, `close_all` | one browser per chat, none lost, none closed under a viewer, abandoned ones reclaimed |
| co-browse connection | `cobrowse_ws.py` | frame sink, `_ended`, cursor probe, egress tally | `run`, `_recv_loop`, `_dispatch`, `_apply_control`, `_start_stream` | counts itself in and out of the session once, never acts on a replaced session |
| agent operations | `agent_ops.py` | none (works on session and driver) | one function per tool, `run_batch`, `run_recipe` | acts on the tab it named, honours the human's pause, never on a ref of another document |
| browser driver: screencast | `browser_driver.py` 2610-2896 | `_sinks`, `_pump_task`, `_latest_frame`, `_frame_event`, repaint watch, active tab's capture | `add_frame_sink`, `remove_frame_sink`, `_activate`, `_on_frame`, `_screencast_pump`, `set_viewport` | capture runs iff somebody watches, on the active tab only; what is shown is the active tab |
| browser driver: tabs | `browser_driver.py` 1029-1090, 1887-2027 | `_tabs`, `_active_id`, `doc_epoch`, refs | `open`, `new_tab`, `switch_tab`, `close_tab`, popups, `_activate` | there is an active tab unless none can be opened, refs die with their document |
| browser driver: tab persistence | `browser_driver.py` 412-431, 1387-1612 | `open_tabs.json`, `_tab_persist_want`, `_last_persisted`, restore mark | snapshot, writer task, flush, restore, hydrate | the file is a tab list the browser had; a crash loop is cut off |
| browser driver: profile | `browser_driver.py` 363-488, 1101-1160, 1298-1383, 2898-2929 | profile directory, flock, Singleton links | `start`, `close`, `_prepare_profile_dir`, boot sweep | one Chromium per profile, across pods |
| profile GC | `profile_gc.py`, `server.py` 205-253 | directories of chats, tombs | `live_chat_ids`, `sweep`, `_delete_one` | never deletes a profile in use or of a live chat |
| CDP relay | `cdp_relay.py` | tab sessions, pending calls, the two sockets | extension events, CDP commands, attach, create, close | one session per tab, a tab list equal to the extension's |
| bridge extension | `extension/src/*.ts` | offered and attached tabs, tab group, reattach timers | `handleCommand`, tab events, `attachTab`, `detachTab`, reattach | commands reach offered tabs only, the connection ends with its last tab |
| tool server | `server.py` | reaper task, GC throttle | tool handlers, lifespan, WebSocket adapter | reaps, drains on shutdown |
| downloads in extension mode | `browser_driver.py` 2300-2382, `cdp_relay.py` 164-178, 465-490 | the relay's record of what `chrome.downloads` announced | click, poll, search, copy | hands over the file the click saved, and comes back |
| page reading and ranking | `refs_tree.py`, `find_model.py`, `page_state.py`, `scroll_hint.py` | none | pure text functions over the accessibility tree | |
| recipes | `recipes.py`, `agent_ops.py` 961-1051 | recipe files | validation, step refusal, replay | |
| input mapping | `input_map.py`, `keys.py` | none | pure translation to CDP | |
| wire protocol | `protocol.py`, `viewer/src/protocol.ts` | none | parsing, formatting | |
| viewer page | `viewer/src/*.ts` | canvas, socket | painting, input capture | |
| credentials, metrics | `portal_creds.py`, `metrics.py` | files; counters | lookup; counting | |

How they meet: a tool call or a viewer resolves its session through
`SessionManager.get_or_create`, then calls the driver; the driver's callbacks
(CDP frames, page events) run as tasks of their own; the driver persists tabs
from a writer task through worker threads; profile GC runs in a thread after a
launch; in extension mode the driver talks CDP to the relay, which talks to the
extension over a second socket.

The hard part is always the same: state read before an `await` and used after
it, by tasks nobody ordered.  PROJECT.json lists each such place as a hazard.

## Plan

Done, in the order of what the system stands on:

1. `Sessions`: the registry with its agent calls, viewers, reaper and shutdown;
   what it promises one chat is `ChatBrowser`; proofs in `SessionsProofs`.
2. `Screencast`: tabs of a driver, viewers, capture, frames, pump, watchdog.
3. `TabStore`: snapshots, writer, flushes, restore with its mark, kills.
4. `ProfileLock`: launches and closes in several pods, the flock, the boot sweep
   and the collector; proofs in `ProfileLockProofs`.

5. `CdpRelay` and `BridgeExtension` over a common `Link`, composed in `Bridge`:
   tabs offered and taken back, attaches in flight, re-attachment, both ends of
   the connection.

6. `AgentCalls` on top of `Screencast`: the tools of an agent, alone and in
   batches and recipes, next to a person who drives the same browser; refs and
   document epochs, reading, settling, the pause.
7. `Downloads`: the browser-wide list a call in extension mode picks its file from.

8. Proofs: every safety invariant and action property of the passing runs but
   `CaptureFollowsActive`, for any constants, and the types of every component; that `Sessions` implements
   `ChatBrowser` for any chat; and for the liveness properties, where there is one,
   an invariant that says what is under way while they have not come true yet.

Still to do, in this order:

9. Pure algorithms against reference definitions: the tree of refs and its cuts,
   recipe validation and how a step finds its target again, scroll hints,
   classification of profile directories.
10. `Bridge`: alias sessions of the relay, several connections of the extension
   (`background.ts`), a third disturbance within TLC's reach.

## Modules

| module | is | uses |
|---|---|---|
| `Sessions` | the registry and the tasks on it | `ChatBrowser` (refinement) |
| `ChatBrowser` | abstract specification of one chat's browser | |
| `Screencast` | one driver's tabs and their screencast | |
| `AgentCalls` | agents' calls on those tabs, next to a viewer | extends `Screencast` |
| `Downloads` | downloads in extension mode | |
| `TabStore` | the saved tabs of one profile | |
| `ProfileLock` | the profiles on the volume | |
| `Link` | the socket between relay and extension: a queue in each direction | |
| `CdpRelay` | the relay's end | `Link` |
| `BridgeExtension` | the extension's end, with Chrome and the person | `Link` |
| `Bridge` | both ends together, fairness and properties | `CdpRelay`, `BridgeExtension` |
| `SessionsProofs` | types, usable sessions, nothing lost | extends `Sessions` |
| `SessionsPromiseProofs` | viewers, shutdown, the refinement of `ChatBrowser` | extends `SessionsProofs` |
| `ScreencastProofs`, `TabStoreProofs`, `DownloadsProofs`, `ProfileLockProofs`, `BridgeProofs` | theorems | extend the module they are about |
| `AgentCallsProofs` | theorems | extends `AgentCalls`, `ScreencastProofs` |
| `MCSessions`, `MCScreencast`, `MCAgentCalls`, `MCDownloads`, `MCTabStore`, `MCProfileLock`, `MCBridge` | model values, symmetry | their module |

### How code becomes actions

One asyncio task runs from one `await` to the next without interruption, so an
action is the code between two awaits that can really suspend (taking a free
lock, for one, does not).  The variable `pc` says which await a task is in.
What a worker thread does is split at its system calls, because another thread
or another process may come in between.  Identities (drivers, locks, tabs,
pumps, threads, inodes) come from finite pools and are used again when nothing
refers to them: a behaviour may use up any number of them, and a run's pool has
to cover only those alive at a time.

### `Sessions`

`registry` is `_sessions`, `lockOf` is `_locks`, `queue` the waiters of each
`asyncio.Lock`.  A caller (an agent call or a viewer) goes through
`get_or_create`: `Call` and `Granted` are the two `_live` checks, with what
follows each of them up to the next await; `Evicted`, `TakeProfile`,
`LaunchFails` and `Launched` are the rest of the way, `RaiseGone` the error of a
detached browser.  Then it uses its session (`ViewerActs`, `EndSession`,
`Leave`).  `ReapIdle`/`ReapNext` are `reap_idle`, `Shutdown`/`CloseAllNext` the
end of the lifespan.  `Mode` chooses the factory: a persistent profile under its
flock, a throwaway context, or the user's browser, which may detach.

`close` is modelled with what makes it hard: the session and the lock leave
their maps first, the browser quits later, and who waited for the lock still
waits for the old one.  It also swallows what the driver's `close` raises: the caller goes
on either way, and the driver is `down` or `aborted`, that is, its flock (and
perhaps its Chromium) is left behind, and the chat's next launches fail on it
(`ProfileHeld`).  `Shutdown` may come at any moment: the reaper is cancelled in the
middle of its close or not, `close_all` makes its list, and callers that were
accepted (`LateCalls`) go on meanwhile; browsers that come up after the list was
made are remembered in `late` (history).

`OneOrder` lets the pools give out drivers and locks in one order instead of any:
they are interchangeable, and a liveness run cannot use symmetry.

Left out: a limit on how many locks or tasks there are, and what a launch does
inside (that is `ProfileLock`).

### `Screencast`

`tabs`, `active`, `sinks`, `latest`, `ready`, `pumpTask` are the fields of
`PlaywrightDriver`.  `tracked` are the tabs with a `_screencast_handler`,
`leaked` those with a listener that was overwritten, `casting` those the browser
captures.  `SwitchTab`, `NewTab`, `CloseTab`, `SiteCloses` all end in
`Activate`, which goes through `stopping`, `fronting` and `starting` as
`_activate` does.  `Join`/`Leave` are `add_frame_sink`/`remove_frame_sink` with
`_stop_capture`; `PumpWakes`, `PumpTakes`, `PumpSends` the three awaits of
`_screencast_pump`; `Acked` the second half of `_on_frame`.

Opening a page may raise (`OpenFails`): a close that was to replace the last tab then
leaves none, `_active()` raises for whoever comes next (`JoinFails`, and every call
of `AgentCalls`), until a tab is opened.  With `Extension`, the last tab the user
closes is not replaced (`LeftToExtension`), because the extension is about to end
the session.  `bare` (history) says that an empty list has one of these reasons.

Left out: `_capturing_cdp` and the tabs gauge (metrics), the content of frames, the
resize of the viewport, dialogs, downloads.  A CDP command takes effect when it is sent.

### `AgentCalls`

A call (`call[a]`) names a tab, makes it the active one (`driver`, through
`Activate` of `Screencast`), works on it (`acting`), waits for what that caused
(`settling`, `loading`) and reads the page (`reading`, `read`, `masking`);
between the calls of a batch or a recipe it is `between`.  A driver operation is
the sequence of its awaits on the page (`Click`, `TypeText`, `FillLogin`, ...),
taken off `todo` one per step: each may act, fail or be overtaken.  The tools
are those sequences with what the handler adds: `settle`, and which kind of
read.  `Admitted` is the pause check of `_session`, `Accepted` the check of a
ref.  Which tool comes next, and how a script goes on, is chosen when it is
needed, so that a script is as long as the bound allows.

`page` has both ends of a document: the browser's number of it (`doc`) and the
number the driver has been told (`epoch`), with the documents whose trees were
`taken`, those of them whose refs are recorded (`refs`) and the epoch they were
recorded under (`read`).  A ref is a name, `e1`, `e2`, ..., that every document
gives out afresh: the model knows a caller's ref by the document whose tree it is
from, and lets any ref be a name of any other tree as well or of none.  So
`Accepted` asks what `_check_ref` asks, whether the last read is of the current
document; a ref of an older document passes with the name it has in common,
or is `Refused` (see the divergences).  `Commits` is the navigation in the
browser, `Told` the event in the driver.  A person acts through
`ViewerActs`, `ViewerGoesOn` (the broadcast that follows) and `Control` (take over,
hand back).
`moved`, `late`, `torn` and `astray` are history: whose tab was taken away or
switched, how many calls touched a page since the pause, which reads straddled a
navigation, and which calls were given a ref that passed for another document's or
was checked against such a read.

Left out: frames and pumps (`Screencast` has them), `pending_url`, the set of
tabs and the dialogs that `settle` reports, the text of trees and answers.  A
step of a recipe ends where its handler ends; the look-up of its target in the
stored tree is taken to find one or none.

### `Downloads`

`chrome` is the browser's list, `wire` the events on their way, `reported` the
relay's `downloads`.  `Begin` to `Copied` are `_download_via_extension` with
`_await_browser_download`: the click and its timeout, the choice of an id
(`OwnDownloadId`) at a turn of the loop, the question to the extension
(`Searched`, `SearchFails`), the copy.  Times are kept as the comparison the
code makes with them: whether a download was more than a second old at the
click.  `from` is the page the click was made on, which is the referrer unless hidden, however
much later the file comes.  `blind` is history.

Assumed of Chrome: ids increase, an event of a download is sent when it starts
and when it ends, a page may hide the referrer.  Left out: file names, and the
check of the extension's id that comes first.

### `TabStore`

`want`, `last`, `wake` and `writer` are the fields of the writer,
`job` the threads that run `_write_open_tabs` (open, write, rename as steps of
their own on `disk`, `fileAt`, `tmpAt`).  `Start`, `Replay`, `Restored`,
`Reported` are the restore with its attempt mark.  `Close` makes the browser quit
(`quitting`) at any moment, also in the middle of an operation, because eviction
does not count an agent's call; operations go on until `StopPersisting` stops the
writer, with a flush (`Flushed`) if a snapshot is pending.  A close that raises stays
`quitting` until a kill.  `Crash` is the kill of the pod, which may leave a thread of another process behind.

Assumed: once Playwright has stopped, what operated the browser has failed and taken
its last snapshot (`Settled`).

Simplified: the attempt counter is none or some (the code only asks whether it
is at least one); an operation on tabs is one step, but for the load it starts;
a temporary file nobody writes any more is forgotten (it is truncated before it
is used); disk errors do not happen.  `diedLoading`, `overlapped` and `outlived`
are history: they say what the properties need to know about the past.

### `ProfileLock`

`stage` is where `start()` or `close()` of a driver is, `holder` who has a
profile's flock, `links` whom Chromium's Singleton links name, `old` and `tombs`
what the collector sees.  A start may fail or be cancelled at each of its steps,
`close()` may raise, a pod may be killed anywhere, Chromium may die.

Assumed: a new chat's files land within the grace period of its profile, a
deleted chat does not come back (see below what happens if it does), Chromium
refuses a profile whose links name another one.  Left out: permission errors,
reserved directory names, the archive migration, the caps on a sweep (it may end
at any time).

### `Link`, `CdpRelay`, `BridgeExtension`, `Bridge`

`up` carries the extension's events and answers, `down` the relay's calls; the
end of a side is its last message.  In the relay, the reader handles a message
without suspending (`RelayReceives`: `on_extension_message` and the end of
`_serve_extension`), while `_attach_tab`, `_create_target`, `_close_target` and
forwarded commands are tasks of `task`, which become runnable in the order of
`ready` (`RunTask`): a turn goes from one answer of the extension to the next
call.  `pages` counts what the CDP client has been told of a tab.  In the
extension an action is an event handler up to its `await`: `ExtReceives` accepts
or refuses a call, `Attach`, `Forward`, `Create` are what follows when the
`chrome.*` promise resolves (`running` in between), `Checked` is what every
detach ends in, `TryReattach`, `Verified`, `CooledDown` the three timers of a
re-attachment, `Joined` the end of `_addTabToGroup`.

Assumed of Chrome: a tab has one debugger; a call in flight fails when its
debugger is detached; a closed tab reports `onRemoved` and `onDetach` in either
order; the cooldown is longer than the two other timers.  Left out: alias and
child sessions, downloads, the handshake of the connect page, badges, keepalive,
and calls outside CDP, which have a bound of their own.

## Runs

| run | instance | distinct states | asks |
|---|---|---|---|
| `sessions_profile` | 2 chats, 1 agent, 1 viewer, cap 1, timeout 1, profiles, calls go on in the drain | 319 k | nothing lost, the drain misses nobody who was there, each chat gets a `ChatBrowser` |
| `sessions_live` | 1 chat, 1 agent, 2 viewers, timeout 1, profiles, calls go on in the drain | 517 k | every call returns, abandoned browsers are reaped |
| `sessions_extension` | 2 chats, 1 agent, 2 viewers, cap 1, timeout 0, browsers that detach | 2.45 M | a lost browser is reported once and not handed out, nobody is closed under a viewer who was counted, whoever waits for a lock waits behind one that will leave it |
| `screencast_alone` | 1 viewer, 2 tabs on demand, 4 tab identities, 2 pumps, 2 frames | 1.93 M | the capture follows the active tab, one pump, the latest frame is never lost and arrives |
| `screencast_stopbug` | 2 viewers | | violated: `WatchedIsCast` |
| `agent_calls` | 1 agent, 1 viewer, the site, 2 tabs on demand, 2 documents, 3 turns | 505 k | calls stay on their tab unless disturbed, replies tell of navigations, a takeover is obeyed after one call, the list stays empty only when a page cannot be opened |
| `downloads` | 1 call, 2 pages, 2 downloads, one of them older than the connection | 239 k | a wrong file has one of two reasons, every call returns |
| `tabstore_restart` | 1 address, 2 tabs, 2 threads, 2 inodes | 4.8 M | the mark, the degraded restore, the flush of a close, no snapshot forgotten |
| `tabstore_torn` | as `tabstore_restart`, 3 inodes | | violated: `NeverTorn` |
| `profile_pods` | 2 pods, 2 chats, 2 drivers | 2.5 M | one Chromium per profile, undisturbed; only profiles of deleted chats go |
| `profile_latefail` | 1 pod, 1 chat, 2 drivers | | violated: `LockedWhileRunning` |
| `bridge_pair` | 2 tabs, 5 tasks, 2 turns of person, client or failing call | 581 k | attached tabs reach the client, no call is forgotten and none waits for anything but Chrome, the connection ends with its last tab and on both sides |

Why these bounds are enough to see the interesting cases: with a cap of one and
two chats every second launch evicts; two viewers and an agent let a third task
come in between two others' check and use; a timeout of one tick separates a session that was
just touched from one that expired, and the clock goes past it.  Where the timeout
is 0 (`sessions_extension`) the reaper may take any unwatched
session at any time, which allows more than any clock does; `sessions_live`, whose
question is the clock's, has one.  It has one chat, hence no evictions: `CallsReturn`
was also checked with two chats, one viewer and a timeout of 0 (796 k states).
Two locks are the current one and one that was
dropped, a third one a lock that was dropped before.  Two tabs are what a
switch needs, a third identity one that opens while another closes; two frames
are an old and a new one; a second pump is one that was leaked or cancelled.
Two threads are the writer's and a flush's; two inodes the file and the temporary
file.  A third inode, one that has lost its name and is still written, matters where
files are torn (`tabstore_torn`); with two, a thread that needs one waits until the
other has let go of it.  Two pods and two drivers are a holder and
an intruder.  Two tabs of the bridge are the one that was handed over and one
that is opened, created, dragged in, or that keeps the connection when the first
goes; two turns are two of those things at any two moments, besides all that
relay, extension and timers make of them.  Five tasks are as many as the relay
runs at a time in two turns.  The invariants were also simulated with three
tabs, seven tasks and eight turns (160 million states).  The inductive invariants
behind the proofs were checked on this instance before they were proved.

In `agent_calls` three turns are shared by calls, person and sites: an agent's
call with a person's switch and a navigation in it, or a script of several calls
with a takeover in between.  The same properties were checked with two agents, no
viewer and four turns (2.6 million states), under the extension (283 k states, with the
last tab the user closes not replaced), and simulated with two agents, a
viewer, eight turns and four documents (130 million states).  Two downloads are
the call's and somebody else's; `Downloads` was
simulated with two calls and four downloads (206 million states).

`MaxTurns` bounds what person and client do and which calls fail.
`MaxTabs`, `MaxFrames`, `IdleTimeout` bound counters: an age stays
one past the timeout, the site opens no tab beyond `MaxTabs`.  The cap on restored
tabs does not bite with as many tabs; the theorems hold for any.

`CaptureFollowsActive` and `WorksWhileWatched` hold when one viewer acts alone; with
several tasks on one driver each of them can be violated (see the divergences).
`screencast_alone` therefore says what the code does in order, for one viewer among
frames, the pump and failing pages; `screencast_stopbug` what goes wrong in a crowd,
`agent_calls` (`NeverTabless`) what is left in one.  The properties of `agent_calls` about one call except the calls
somebody disturbed (`moved`), because the code does.  `sessions_*`,
`bridge_pair`, `agent_calls` and `downloads` disable the deadlock check because
the server may stop, a connection ends, and calls and downloads run out.

### Fairness

- `Sessions`: what was awaited returns, because every launch step and every
  close has a timeout in the driver, and ends with or without an exception; a lock is handed to its first waiter by
  asyncio; the clock ticks and the reaper's timer fires.  Nobody has to call,
  use or leave a session; viewers may stay for ever.
- `Screencast`: pump tasks are scheduled, the browser answers an
  acknowledgement.  It need not paint, and no viewer has to do anything.
- `Downloads`: Playwright bounds the click, the clock passes the deadline, the
  loop takes its turns, a search is answered or runs into its bound of
  `_EXTENSION_CALL_TIMEOUT_S`, a copy ends.  Extension and Chrome owe nothing.
- `Bridge`: the event loop and the service worker take their messages, and timers
  fire.  Chrome owes nothing, and neither do the person, the client, group changes
  and the cooldown: a CDP command has no bound of its own, and `unanswered()`
  (`cdp_relay.py:492`) exists for "the tab that never answered Page.getFrameTree, the
  attach Chrome never acknowledged".  `CommandsAnswered` says what is promised all the
  same: a task waits for Chrome and for nothing else, and no longer than the
  connection lives.

Everything else (users, sites, kills, failures) is free to happen or not.

## What is proved

`SessionsProofs`, for any chats, callers, drivers, locks, caps and timeouts:

- `TypeCorrect`, `SessionsUsable` (`RegisteredIsUp`), `GoneOnce`
  (`GoneReportedOnce`) in every mode.  The invariant is `LifeInv`: besides the
  types it says that every driver that is launching or closing has exactly one
  task at it (`LaunchOwned`, `CloseOwned`, for the callers and the sweep), which
  is what makes `driver.close()`'s return step harmless to everybody else.
- `NothingLost` (`OpenIsRegistered`) when `Mode = "profile"`: `LifeInv` plus
  `OneOwner` — at most one driver of a chat is past its flock.  `OneOwner` is
  needed because the per-id lock does *not* serialise launches (`close` drops
  it): two launches for one id are kept apart by the flock alone, and only so is
  the second registration impossible that would lose the first browser.

- `LocksGoRound` (`WaitersAreServed`) in every mode: whoever waits for a lock is
  in the queue of one whose first caller is in the middle of its own call and
  waits for no other lock.  It is the safety half of `CallsReturn`, and holds for
  the locks that `close` has dropped, too, which nobody new can join.

`SessionsPromiseProofs`, on top of it:

- `ViewersAreCounted` (`ViewersCounted`) and `EvictionSparesViewers`
  (`EvictedIsUnwatched`) in every mode.  `WatchInv`: the counter of a driver is the
  number of viewers that use it, and nobody uses what an eviction has picked.
- `ShutdownQuitsAll` (`DrainQuitsBrowsers`) when `Mode = "profile"`, with calls,
  launches and closes under way during the whole drain.  `PhaseOwned`
  says which task a driver that is neither up nor down waits for, `ServerInv` that
  every session is on the drain's list or has come up since the list was made.
  What is left when the drain is through is what the property names: a browser whose
  close was cancelled or raised, one in the hands of a call, one that came late.
- `PromiseKept` when `Mode = "profile"`: `Spec => Promise(s)!Spec` for *every* chat
  `s` (the run checks one of two): initial states map to initial states, and each
  step to a step of `ChatBrowser` or a stutter (`Lives` per driver, `LivesKept`).

`ScreencastProofs`:

- `TypeCorrect` (`TypeOK`) for any viewers, agents, tabs and pumps.
- `WorkEndsWithViewer` (`WorksWhileWatched`) when there is one viewer,
  for any tabs, pumps and frames.  `WorkInv` says at each await of the viewer who is
  served, by which pump.  The hypothesis is not a convenience: with two viewers the
  code violates it (see the divergences).
- `LatestIsOnItsWay` (`NeverLeftBehind`), with one viewer as well: the safety half
  of `FreshestGetsThrough`.  `PumpInv`: what the pump sent last is on the canvas or
  being sent, and what has come since has set the event or finds the pump
  throttled.  A viewer that has seen nothing yet is excepted: a frame acknowledged
  after the last viewer had left is cached and not sent to the next one (see the
  divergences).

`TabStoreProofs`, for any addresses, tabs, threads and inodes:

- `TypeCorrect`, `DegradedRestoresAll` (`DegradedKeepsAll`), `CloseKeepsSnapshot`
  (`ClosedIsSaved`), `MarkTellsOfAttempt` (`MarkIsEvidence`), `NoCrashLoop`
  (`CrashLoopEnds`).  `SoleInv` follows a snapshot from `want` through its thread to
  the file while no two threads have overlapped; `MarkInv` follows the attempt mark
  the same way, phase by phase, from the thread that writes it to the report that
  clears it; `DiedInv` adds what a kill while loading leaves.
- `NoSnapshotForgotten` (`SnapshotUnderWay`): while a driver is up, its latest snapshot is the file, or
  the event is set, or a thread of the writer carries that very snapshot.
  `WakeInv` needs the restore as well: its report sets the event, records nothing
  before it is through, and a writer that took it up meanwhile would overlap.

`AgentCallsProofs`, for any agents, viewers, tabs and bounds:

- `CallsTypeCorrect`, `NeverWithoutTab` (`NeverTabless`, in both modes; an empty list
  is `bare` for a reason or somebody is at opening a replacement, `TabComes`, and
  whoever is in the middle of a close has a tab of its own to close, `ClosesOwn`),
  `TakeoverIsRespected` (`TakeoverHolds`, by `LateInv`),
  `CallsActWhereNamed` (`ActsWhereNamed`), `RepliesTellWhatHappened`
  (`ReportsWhatHappened`).  `CallsInv` carries what each phase says of a call's
  record (`Sound`, with `Marked`: marker and ref are of one document unless the ref is astray), `NamedInv`
  how far its own activation has got and that its tab is still the active one.
- The last of them corrected the property: with two agents, a ref from a read
  across a navigation can be accepted, and a second agent's read can make the tab
  whole again before the first call settles.  What counts is what the read was when
  the ref was accepted, so a call remembers it (`astray`).

`DownloadsProofs`, for any calls, pages and downloads: `TypeCorrect` and
`WrongFilesHaveReason` (`WrongFileHasReason`).  What the relay has recorded is what
Chrome has (`ReportedTrue`), and what a call has chosen is its own or has one of
the two reasons, from the choice on (`Chosen`).

`BridgeProofs`, for any tabs, tasks and disturbances:

- `TabsAreTold` (`AttachedIsTold`).  The invariant (`Good`, while connection and
  client live): each call of the relay is in one place (`DownInv`, `RunInv`,
  `UpInv`), runnable tasks are queued once (`ReadyOK`), and every attached tab is
  in the client's sessions with nothing on the wire to take it out (`Told`), or some
  task is at one of the stages that will put it there (`Telling`: answered,
  runnable, asking) with the same proviso (`TellInv`).
- `CallsAreInOnePlace`: the first part by itself.  No answer comes twice or for a
  task that does not wait for it.
- `BridgeTypes` (`TypeOK`), `NoCallIsForgotten` (`NoCallForgotten`) and
  `EndsFollow` (`EndIsUnderWay`), to the very end of a connection, when the
  invariant above does not hold any more.  The invariant (`Whole`) names the
  messages each queue may hold (`LineInv`: nothing follows a `bye`), says that a
  call that is out belongs to a task that knows of it (`Aware`), has been started
  (`Started`) and has one turn (`Once`), that each call of a waiting task is on its
  way down, in Chrome's hands, or answered or overtaken by the `bye` that will fail
  it (`OwedInv`), and that the end of one side has reached the others or is on the
  wire (`EndInv`).  Together the last two are the safety halves of
  `CommandsAnswered` and `LinksEndTogether`.
- `StaysForTabs` (`StaysForATab`): a connection that had a tab lives on only while
  a tab has a debugger or a timer is to bring one back, the safety half of
  `ConnectionEnds`.

`ProfileLockProofs`, for any pods, chats and drivers:

- `TypeCorrect`, `OneChromiumHolds` (`OneChromium`), `Undisturbed`
  (`ChromiumUndisturbed`), `LocksHaveReason` (`LockHasReason`), `OnlyDeletedGo`
  (`OnlyOrphansGo`).  The invariant says that whoever is at work has the lock
  (`WorkersHold`, `ChromiumHolds`, `SweepsHold`), that a lock names nobody else
  (`HoldersKnown`), that a running Chromium is undisturbed, and that what a
  collector has in hand belongs to deleted chats (`CollectsGone`).

The type invariants of `Sessions`, `Screencast`, `TabStore`, `ProfileLock` and
`Downloads` are proved for all constants and not evaluated again by the runs; those
of `Bridge` and `AgentCalls` are both.  `StaysForATab` is a theorem as well, the
run checks the `ConnectionEnds` that it is the safety half of.

The assumptions on the constants are the `ASSUME`s of the modules: placeholders
are no members of their sets, agents are not viewers, bounds are numbers, and
what a torn or empty file reads as is no document (`ContentAssumption`).

Only model-checked:

- liveness, which the prover does not reach: `CallsReturn`, `AbandonedAreReaped`,
  `FreshestGetsThrough`, `DownloadsReturn`, `ConnectionEnds`,
  `CommandsAnswered`, `LinksEndTogether`.  Of all but `AbandonedAreReaped` and
  `DownloadsReturn` the safety half is proved: that what they wait for is under
  way.  That it comes needs the fairness, and stays with TLC;
- `CaptureFollowsActive`, which is about one viewer whom nobody disturbs;
- that the pool of tasks of `Bridge` suffices, which depends on the constants: a
  relay that found no task free would stop, and `CommandsAnswered` fail;
- the properties of `screencast_stopbug`, `tabstore_torn` and `profile_latefail`,
  which the code violates.

## Not modelled

- Page reading and ranking, recipe validation, input mapping and the wire protocol
  are pure functions of text: no state, and short inputs would show little.
- The viewer page paints and captures input; nothing in the pod waits for it.
- Credentials are files read on demand, the archive migration runs once under the
  profile's lock, metrics are counters that nothing in the pod reads back.
- That the last snapshot reaches the disk is the liveness half of `SnapshotUnderWay`:
  it needs threads that end and a writer that is scheduled, and no more.
- Attaching to the user's browser over the relay, the alias sessions of the relay
  and the several connections of `background.ts` are left (see the plan).

## Known divergences

Three runs show the code at odds with what it says of itself:

- `screencast_stopbug` — `_stop_capture` awaits the pump and then stops the
  capture without looking at the sinks again (`browser_driver.py:2856`); a
  viewer that came meanwhile watches nothing (2840-2841).
- `tabstore_torn` — two threads write through one temporary name
  (`browser_driver.py:1569`, 1455), so the file can be torn (416-417, 1443-1444).
- `profile_latefail` — a `start()` that fails after Chromium is up releases the
  lock and leaves Chromium (`browser_driver.py:1151`; 347-348, 376-377).

Seen while modelling, and part of the models without a run of their own:

- `close` drops the id's lock while others hold it or wait for it
  (`sessions.py:191`), so creation is not "serialized per id with a lock"
  (9-10).  With profiles the flock still keeps launches apart (`OpenIsRegistered`),
  in the other modes two browsers of one id may be launched.
- The cap counts registered sessions only; launches in flight are not seen by it
  (`sessions.py:164`).
- The reaper closes what was idle when it made its list; a viewer that joined
  during an earlier close of the same sweep loses its browser (`sessions.py:212`).
- After END_SESSION the next start may find the flock still held and fails,
  although the comment promises a fresh start (`cobrowse_ws.py:375`, `sessions.py:190`).
- Shutdown cancels a reaper in the middle of a close, which `close_all` cannot
  find any more (`server.py:1112`), and a launch that ends after `close_all` has made
  its list leaves a browser open (`sessions.py:200`): hence "aborted" and `late` in
  `DrainQuitsBrowsers`.
- What a driver's `close` raises is swallowed (`sessions.py:197`), and the flock, with
  Chromium perhaps, stays behind: the chat's next launches fail until the pod ends.
- A switch while the last viewer leaves lets `_stop_capture` stop the wrong tab
  (`browser_driver.py:2862`); a join during a switch stacks listeners (2027);
  a frame of the old tab acknowledged after the switch becomes the cached frame
  (2705 after 2014); a send to a closed socket counts as painted
  (`server.py:1153`, `browser_driver.py:2822`); two closes of one tab count it out of the gauge
  twice (1995; "Tabs currently open", `metrics.py:373`); a pump leaked by the first of these sends next to its successor.
- A flush and the writer at once may leave the older snapshot, and remember the
  wrong one as written (`browser_driver.py:1455`); a writer thread that outlives
  its driver writes after the profile's lock is released (1458); a tab's parked
  address is forgotten before it has loaded (1599), so a snapshot or a kill in
  between saves a blank; a popup is in no snapshot until something else takes
  one (1073).
- A cancelled `start()`, or a `close()` that raises, keeps the flock until the
  pod ends (1148, 2918): the third case of `LockHasReason`.
- The collector reads its keep-set once (`profile_gc.py:143`): a chat restored
  from the trash during a sweep may lose its profile.
- Two attaches of one tab may be in flight, because `_attach_tab` asks for the
  session before its awaits (`cdp_relay.py:423`) and the extension announces a
  tab again on every navigation until it is attached
  (`connectedTabGroup.ts:115`).  With a detach in between both succeed: the
  client gets two sessions of one tab and the older one is never detached.
- A tab that is detached after its last answer and before the task's turn is
  registered all the same (`cdp_relay.py:433`): the relay has a session that no
  debugger stands behind, and takes the tab's return for nothing new.
- A connection that closes while `chrome.debugger.attach` is in flight attaches
  the tab and groups it afterwards (`relayConnection.ts:299-301`): the user does
  not get this tab back (`cdp_relay.py:709-710`).
- A tab dragged out while its re-attachment is pending is announced and grouped
  again (`relayConnection.ts:130`, `connectedTabGroup.ts:139`).
- The pause is looked at when a call comes in (`agent_ops.py:100`): the call goes
  on for as many awaits as it has, hence one call in `TakeoverHolds`.  A
  `navigate` in a batch or a recipe clears a takeover (206), since any does.
- A paused agent may read, and reading makes its tab the active one
  (`agent_ops.py:110`): the view of the person who took over moves.  Every such
  activation also resets the frame an agent had switched to.
- A call works on the active tab, which a person may switch meanwhile; the rest
  of it lands on the person's tab, hence "undisturbed" in `ActsWhereNamed`.  The
  password step of a login looks the tab up again (`browser_driver.py:2583`).
- `settle` does not compare the tab of its marker (`browser_driver.py:2417`): a
  switch by the person is reported to the agent as "Page navigated".
- "Refs are valid for one document ... a stale ref is refused by name, never guessed"
  (`README.md:168-169`).  Two ways around it: refs of a read that straddles a
  navigation are recorded under the epoch after it (`browser_driver.py:2076`), so refs
  of the page before pass the check afterwards; and every document numbers its
  elements afresh (`e1`, `e2`, ...) while `_check_ref` asks for the epoch of the last
  read and the name only (2031-2048), so a ref of the page before passes once the new
  page has been read, and means another element there.  Both are calls that are
  `astray` in `AgentCalls`, and `ReportsWhatHappened` leaves them out.
- A second modifier key whose press fails leaves the first one pressed
  (`browser_driver.py:2158-2161`).
- A download of somebody else is taken for the click's own if it is announced
  first and nothing has been announced as the page's — because the link hides the
  referrer, or the page went elsewhere meanwhile (`browser_driver.py:2353`, 786):
  `blind` in `WrongFileHasReason`.  `_await_browser_download` says it never hands
  over "someone else's file" (2341-2345).  Two overlapping calls on one page take
  the same id.
