------------------------------ MODULE Sessions ------------------------------
(***************************************************************************)
(* The session registry of src/src/sessions.py and the tasks that use it:  *)
(* agent tool calls and co-browse viewers that call get_or_create, the     *)
(* reaper loop of src/src/server.py, and the shutdown that runs close_all. *)
(*                                                                         *)
(* Everything runs on one asyncio loop, so an action is the code between   *)
(* two awaits of one task.  A BrowserSession and its driver are created    *)
(* together and never parted, so a driver stands for both: registry is     *)
(* SessionManager._sessions, and viewers and age are the session's fields. *)
(***************************************************************************)
EXTENDS Integers, FiniteSets, Sequences

CONSTANTS
    Chats,        \* the session ids (chat ids) in use
    Agents,       \* concurrent agent tool calls
    Viewers,      \* concurrent co-browse WebSocket connections
    Drivers,      \* pool of BrowserDriver identities, recycled once unreferenced
    Locks,        \* pool of asyncio.Lock identities, recycled likewise
    NoDriver, NoLock, NoChat,
    MaxSessions,  \* SessionManager._max_sessions
    IdleTimeout,  \* idle_timeout_s, in ticks: an age past the timeout stays there
    OneOrder,     \* the pools give out their identities in one order, not in any
    LateCalls,    \* requests accepted before the lifespan ends may call after that
    Mode          \* how the factory starts a browser, see below

Callers == Agents \cup Viewers

\* "profile":   a persistent profile directory, guarded by a flock
\* "ephemeral": a throwaway context, no profile directory
\* "extension": the user's own browser, which may detach
Modes == {"profile", "ephemeral", "extension"}

ASSUME ModeAssumption == Mode \in Modes /\ {OneOrder, LateCalls} \subseteq BOOLEAN
ASSUME NoneAssumption == NoDriver \notin Drivers /\ NoLock \notin Locks /\ NoChat \notin Chats
ASSUME BoundsAssumption == MaxSessions \in Nat /\ IdleTimeout \in Nat
ASSUME TasksAssumption == Agents \cap Viewers = {}

VARIABLES
    registry,   \* [Chats -> Drivers or NoDriver]: SessionManager._sessions
    lockOf,     \* [Chats -> Locks or NoLock]: SessionManager._locks
    queue,      \* [Locks -> Seq(Callers)]: head holds the lock, the tail waits for it
    pc,         \* [Callers -> step]: the await a caller is suspended in
    chat,       \* [Callers -> Chats or NoChat]: the id of the call in progress
    drv,        \* [Callers -> Drivers or NoDriver]: driver it launches, uses or closes
    phase,      \* [Drivers -> phase of the browser's life]
    chatOf,     \* [Drivers -> Chats or NoChat]: the id the factory was given
    viewers,    \* [Drivers -> Nat]: BrowserSession.viewers
    age,        \* [Drivers -> 0..IdleTimeout + 1]: idle_seconds(), in ticks
    server,     \* "serving", "closing" (close_all) or "stopped": the lifespan
    todo,       \* ids the current sweep (reap_idle or close_all) has still to close
    sweepDrv,   \* the driver the current sweep is closing; NoDriver between sweeps
    late        \* history: drivers whose launch came through in spite of the shutdown

callerVars == <<pc, chat, drv>>
sweepVars == <<server, todo, sweepDrv>>
vars == <<registry, lockOf, queue, pc, chat, drv, phase, chatOf, viewers, age,
          server, todo, sweepDrv, late>>

Steps == {"idle", "waiting", "reporting", "evicting", "launching", "using", "ending"}

\* "launching": the factory was called and holds nothing yet
\* "starting":  the browser is coming up (with the profile's flock, if any)
\* "gone":      up, but detached from us; driver.gone() says so
\* "aborted":   driver.close() was cancelled half-way, or it has raised: what it had not
\*              yet given back, browser and flock, stays as it is
Phases == {"down", "launching", "starting", "open", "gone", "closing", "aborted"}

-----------------------------------------------------------------------------
(* Helpers *)

Registered == {registry[s] : s \in Chats} \ {NoDriver}
Warm == {s \in Chats : registry[s] # NoDriver}

\* A driver or a lock nobody can reach any more, free to stand for a new one.
IdleDriver(d) == phase[d] = "down" /\ \A c \in Callers : drv[c] # d
IdleLock(l) == queue[l] = <<>> /\ \A s \in Chats : lockOf[s] # l
FreshDrivers == {d \in Drivers : /\ IdleDriver(d)
                                 /\ OneOrder => d = CHOOSE e \in Drivers : IdleDriver(e)}
FreshLocks == {l \in Locks : /\ IdleLock(l)
                             /\ OneOrder => l = CHOOSE m \in Locks : IdleLock(m)}

\* _live: no session, a session whose browser is up, one whose browser left.
Cold(s) == registry[s] = NoDriver
Live(s) == registry[s] # NoDriver /\ phase[registry[s]] # "gone"
Gone(s) == registry[s] # NoDriver /\ phase[registry[s]] = "gone"

Holds(c, l) == queue[l] # <<>> /\ Head(queue[l]) = c
Queued(c, l) == \E i \in DOMAIN queue[l] : queue[l][i] = c

\* Mutant: the lock is never given back.
NeverReleased(c) == queue

\* Leaving `async with lock`; the next waiter runs at some later step.
Released(c) == [l \in Locks |-> IF Holds(c, l) THEN Tail(queue[l]) ELSE queue[l]]

\* _lock_for: the id's lock, a new one when close() has dropped it.
LockFor(s, l) == IF lockOf[s] = NoLock THEN l \in FreshLocks ELSE l = lockOf[s]

\* _evict_for_headroom: sessions nobody watches, longest idle first.
AtCap == Cardinality(Warm) >= MaxSessions
\* Mutant: watched sessions are candidates too.
AnyEvictable == Warm
Evictable == {s \in Warm : viewers[registry[s]] = 0}
Victims == {s \in Evictable : \A t \in Evictable : age[registry[t]] <= age[registry[s]]}

\* Mutant: the session stays in the map until driver.close() has returned.
PopAfterClose(s, locks, ph) ==
    /\ registry' = registry
    /\ lockOf' = [locks EXCEPT ![s] = NoLock]
    /\ phase' = [ph EXCEPT ![registry[s]] = "closing"]

\* Mutant: so it does, and the browser goes on saying that it is gone.
PopAfterReport(s, locks, ph) == registry' = registry /\ lockOf' = locks /\ phase' = ph

\* The pop half of SessionManager.close: session and lock leave their maps
\* together, then driver.close() is awaited.  `locks` and `ph` are the maps as
\* the surrounding step has already changed them.
PopSession(s, locks, ph) ==
    /\ registry' = [registry EXCEPT ![s] = NoDriver]
    /\ lockOf' = [locks EXCEPT ![s] = NoLock]
    /\ phase' = [ph EXCEPT ![registry[s]] = "closing"]

\* driver.close() is over, or start() has raised.  What close() raises is logged and
\* forgotten (SessionManager.close), so it ends either way for who awaits it.  What it
\* leaves behind then is in somebody's way only if it has the flock of a profile.
Ends == IF Mode = "profile" THEN {"down", "aborted"} ELSE {"down"}
After(d, end) == [phase EXCEPT ![d] = end]
IdAfter(d, end) == [chatOf EXCEPT ![d] = IF end = "down" THEN NoChat ELSE @]
Closed(d) == \E end \in Ends : phase' = After(d, end) /\ chatOf' = IdAfter(d, end)

\* The call leaves get_or_create by an error, or is over.
Return(c) ==
    /\ pc' = [pc EXCEPT ![c] = "idle"]
    /\ chat' = [chat EXCEPT ![c] = NoChat]
    /\ drv' = [drv EXCEPT ![c] = NoDriver]

\* await self._factory(session_id) begins.
StartLaunch(c, s, ph, ids) ==
    \E d \in FreshDrivers :
        /\ drv' = [drv EXCEPT ![c] = d]
        /\ phase' = [ph EXCEPT ![d] = "launching"]
        /\ chatOf' = [ids EXCEPT ![d] = s]
        /\ viewers' = [viewers EXCEPT ![d] = 0]
        /\ age' = [age EXCEPT ![d] = 0]
        /\ pc' = [pc EXCEPT ![c] = "launching"]

-----------------------------------------------------------------------------
(* get_or_create *)

\* The caller has its session: an agent call touches it and goes on, a viewer
\* also counts itself in before its first await (CoBrowseConnection.run).
Attach(c, d) ==
    /\ pc' = [pc EXCEPT ![c] = "using"]
    /\ drv' = [drv EXCEPT ![c] = d]
    /\ age' = [age EXCEPT ![d] = 0]
    /\ viewers' = IF c \in Viewers THEN [viewers EXCEPT ![d] = @ + 1] ELSE viewers

\* _live finds the browser gone: the session is closed and, once that is done,
\* BrowserGoneError is raised.
FindGone(c, s) ==
    /\ PopSession(s, lockOf, phase)
    /\ drv' = [drv EXCEPT ![c] = registry[s]]
    /\ pc' = [pc EXCEPT ![c] = "reporting"]
    /\ UNCHANGED <<queue, chatOf, viewers, age>>

\* Under the lock with still no session: make room, then launch.  Without a
\* victim nothing is awaited before the factory.
EvictOrLaunch(c, s, locks) ==
    \/ /\ AtCap
       /\ \E v \in Victims :
            /\ PopSession(v, locks, phase)
            /\ drv' = [drv EXCEPT ![c] = registry[v]]
       /\ pc' = [pc EXCEPT ![c] = "evicting"]
       /\ UNCHANGED <<chatOf, viewers, age>>
    \/ /\ ~AtCap \/ Evictable = {}
       /\ StartLaunch(c, s, phase, chatOf)
       /\ lockOf' = locks
       /\ UNCHANGED registry

\* The first _live check and, when the id is cold, the way to the lock: a free
\* lock with no waiter is taken without suspending, else the caller queues.
Call(c, s) ==
    /\ server = "serving" \/ LateCalls
    /\ pc[c] = "idle"
    /\ chat' = [chat EXCEPT ![c] = s]
    /\ \/ /\ Live(s)
          /\ Attach(c, registry[s])
          /\ UNCHANGED <<registry, lockOf, queue, phase, chatOf>>
       \/ /\ Gone(s)
          /\ FindGone(c, s)
       \/ /\ Cold(s)
          /\ \E l \in Locks :
               /\ LockFor(s, l)
               /\ queue' = [queue EXCEPT ![l] = Append(@, c)]
               /\ \/ /\ queue[l] = <<>>
                     /\ EvictOrLaunch(c, s, [lockOf EXCEPT ![s] = l])
                  \/ /\ queue[l] # <<>>
                     /\ pc' = [pc EXCEPT ![c] = "waiting"]
                     /\ lockOf' = [lockOf EXCEPT ![s] = l]
                     /\ UNCHANGED <<registry, drv, phase, chatOf, viewers, age>>
    /\ UNCHANGED <<sweepVars, late>>

\* The lock is granted to a waiter, which checks _live again.
Granted(c) ==
    /\ pc[c] = "waiting"
    /\ \E l \in Locks : Holds(c, l)
    /\ \/ /\ Live(chat[c])
          /\ Attach(c, registry[chat[c]])
          /\ queue' = Released(c)
          /\ UNCHANGED <<registry, lockOf, phase, chatOf>>
       \/ /\ Gone(chat[c])
          /\ FindGone(c, chat[c])
       \/ /\ Cold(chat[c])
          /\ EvictOrLaunch(c, chat[c], lockOf)
          /\ UNCHANGED queue
    /\ UNCHANGED <<chat, sweepVars, late>>

\* driver.close() of the gone browser returned; the error leaves get_or_create
\* (and the lock, if this was the re-check).
RaiseGone(c) ==
    /\ pc[c] = "reporting"
    /\ Closed(drv[c])
    /\ queue' = Released(c)
    /\ Return(c)
    /\ UNCHANGED <<registry, lockOf, viewers, age, sweepVars, late>>

\* The victim's driver.close() returned; the factory is called at once.
Evicted(c) ==
    /\ pc[c] = "evicting"
    /\ \E end \in Ends : StartLaunch(c, chat[c], After(drv[c], end), IdAfter(drv[c], end))
    /\ UNCHANGED <<registry, lockOf, queue, chat, sweepVars, late>>

\* The browser of d still has (or is about to give back) its profile's flock.
ProfileHeld(s) == \E d \in Drivers :
    chatOf[d] = s /\ phase[d] \in {"starting", "open", "gone", "closing", "aborted"}

\* Mutant: the flock is not taken.
TakeProfileUnlocked(c) ==
    /\ pc[c] = "launching"
    /\ phase[drv[c]] = "launching"
    /\ phase' = [phase EXCEPT ![drv[c]] = "starting"]
    /\ UNCHANGED <<registry, lockOf, queue, callerVars, chatOf, viewers, age, sweepVars, late>>

\* PlaywrightDriver.start reaches the flock of the profile, taken without
\* waiting (_acquire_profile_lock); the other modes have nothing to take.
TakeProfile(c) ==
    /\ pc[c] = "launching"
    /\ phase[drv[c]] = "launching"
    /\ Mode = "profile" => ~ProfileHeld(chat[c])
    /\ phase' = [phase EXCEPT ![drv[c]] = "starting"]
    /\ UNCHANGED <<registry, lockOf, queue, callerVars, chatOf, viewers, age,
                   sweepVars, late>>

\* start() raised: "profile is in use", or any other failure to come up.
LaunchFails(c) ==
    /\ pc[c] = "launching"
    /\ phase' = After(drv[c], "down")
    /\ chatOf' = IdAfter(drv[c], "down")
    /\ queue' = Released(c)
    /\ Return(c)
    /\ UNCHANGED <<registry, lockOf, viewers, age, sweepVars, late>>

\* The factory returned: the session is registered under the id, whatever is
\* there, and the caller goes on with it.
Launched(c) ==
    /\ pc[c] = "launching"
    /\ phase[drv[c]] = "starting"
    /\ phase' = [phase EXCEPT ![drv[c]] = "open"]
    /\ registry' = [registry EXCEPT ![chat[c]] = drv[c]]
    /\ queue' = Released(c)
    /\ Attach(c, drv[c])
    /\ late' = IF server = "serving" THEN late ELSE late \cup {drv[c]}
    /\ UNCHANGED <<lockOf, chat, chatOf, sweepVars>>

-----------------------------------------------------------------------------
(* Using a session *)

\* A drive frame of a viewer, if the session it serves is still the registered
\* one (_recv_loop); it resets the idle clock.
ViewerActs(c) ==
    /\ c \in Viewers
    /\ pc[c] = "using"
    /\ registry[chat[c]] = drv[c]
    /\ age' = [age EXCEPT ![drv[c]] = 0]
    /\ UNCHANGED <<registry, lockOf, queue, callerVars, phase, chatOf, viewers,
                   sweepVars, late>>

\* BrowserEndSession: close by id; the viewer counts itself out afterwards.
EndSession(c) ==
    /\ c \in Viewers
    /\ pc[c] = "using"
    /\ registry[chat[c]] = drv[c]
    /\ PopSession(chat[c], lockOf, phase)
    /\ pc' = [pc EXCEPT ![c] = "ending"]
    /\ UNCHANGED <<queue, chat, drv, chatOf, viewers, age, sweepVars, late>>

\* Mutant: a viewer that ended the session skips the bookkeeping.
CountOutUnlessEnded(c) ==
    /\ viewers' = IF c \in Viewers /\ pc[c] = "using"
                  THEN [viewers EXCEPT ![drv[c]] = @ - 1] ELSE viewers
    /\ Return(c)

\* Mutant: no viewer ever counts itself out.
CountsNobodyOut(c) == viewers' = viewers /\ Return(c)

CountOut(c) ==
    /\ viewers' = IF c \in Viewers THEN [viewers EXCEPT ![drv[c]] = @ - 1] ELSE viewers
    /\ Return(c)

SessionEnded(c) ==
    /\ pc[c] = "ending"
    /\ Closed(drv[c])
    /\ CountOut(c)
    /\ UNCHANGED <<registry, lockOf, queue, age, sweepVars, late>>

\* The tool call returns, or the socket closes.
Leave(c) ==
    /\ pc[c] = "using"
    /\ CountOut(c)
    /\ UNCHANGED <<registry, lockOf, queue, phase, chatOf, age, sweepVars, late>>

-----------------------------------------------------------------------------
(* The environment: time, and the user's browser in extension mode *)

\* Nobody reads the clock of a session that is not registered any more.
Tick ==
    /\ \E d \in Registered : age[d] <= IdleTimeout
    /\ age' = [d \in Drivers |-> IF d \notin Registered THEN 0
                                ELSE IF age[d] <= IdleTimeout THEN age[d] + 1 ELSE age[d]]
    /\ UNCHANGED <<registry, lockOf, queue, callerVars, phase, chatOf, viewers,
                   sweepVars, late>>

BrowserLeaves(d) ==
    /\ Mode = "extension"
    /\ phase[d] = "open"
    /\ phase' = [phase EXCEPT ![d] = "gone"]
    /\ UNCHANGED <<registry, lockOf, queue, callerVars, chatOf, viewers, age,
                   sweepVars, late>>

-----------------------------------------------------------------------------
(* The reaper loop and the shutdown, which closes what close_all lists *)

Expired == {s \in Warm : viewers[registry[s]] = 0 /\ age[registry[s]] >= IdleTimeout}

\* Mutant: the sweep ends with the first close.
CloseOnlyOne(list, ph) ==
    \/ \E s \in list \cap Warm :
         /\ PopSession(s, lockOf, ph)
         /\ sweepDrv' = registry[s]
         /\ todo' = {}
    \/ /\ list \cap Warm = {}
       /\ phase' = ph
       /\ sweepDrv' = NoDriver
       /\ todo' = {}
       /\ UNCHANGED <<registry, lockOf>>

\* The next id of the list: close() it and await driver.close().  Ids that have
\* lost their session in the meantime are passed over without an await, though
\* close() drops their lock all the same.
CloseNext(list, ph) ==
    \/ \E s \in list \cap Warm, skipped \in SUBSET (list \ Warm) :
         /\ PopSession(s, [t \in Chats |-> IF t \in skipped THEN NoLock ELSE lockOf[t]], ph)
         /\ sweepDrv' = registry[s]
         /\ todo' = list \ (skipped \cup {s})
    \/ /\ list \cap Warm = {}
       /\ lockOf' = [t \in Chats |-> IF t \in list THEN NoLock ELSE lockOf[t]]
       /\ phase' = ph
       /\ sweepDrv' = NoDriver
       /\ todo' = {}
       /\ UNCHANGED registry

\* reap_idle: the list is made once, then closed one by one.
ReapIdle ==
    /\ server = "serving"
    /\ sweepDrv = NoDriver
    /\ Expired # {}
    /\ CloseNext(Expired, phase)
    /\ UNCHANGED <<queue, callerVars, chatOf, viewers, age, server, late>>

\* The close of the sweep is over, and the next of its list begins.
SweepOn ==
    \E end \in Ends : /\ CloseNext(todo, After(sweepDrv, end))
                      /\ chatOf' = IdAfter(sweepDrv, end)

ReapNext ==
    /\ server = "serving"
    /\ sweepDrv # NoDriver
    /\ SweepOn
    /\ UNCHANGED <<queue, callerVars, viewers, age, server, late>>

\* The lifespan ends: the reaper is cancelled, wherever it is, and close_all goes through
\* the sessions.  Tool calls under way are tasks of their own and go on meanwhile.
Shutdown ==
    /\ server = "serving"
    /\ CloseNext(Warm, IF sweepDrv = NoDriver THEN phase ELSE After(sweepDrv, "aborted"))
    /\ server' = IF Warm = {} THEN "stopped" ELSE "closing"
    /\ UNCHANGED <<queue, callerVars, chatOf, viewers, age, late>>

CloseAllNext ==
    /\ server = "closing"
    /\ SweepOn
    /\ server' = IF todo \cap Warm = {} THEN "stopped" ELSE "closing"
    /\ UNCHANGED <<queue, callerVars, viewers, age, late>>

-----------------------------------------------------------------------------
Init ==
    /\ registry = [s \in Chats |-> NoDriver]
    /\ lockOf = [s \in Chats |-> NoLock]
    /\ queue = [l \in Locks |-> <<>>]
    /\ pc = [c \in Callers |-> "idle"]
    /\ chat = [c \in Callers |-> NoChat]
    /\ drv = [c \in Callers |-> NoDriver]
    /\ phase = [d \in Drivers |-> "down"]
    /\ chatOf = [d \in Drivers |-> NoChat]
    /\ viewers = [d \in Drivers |-> 0]
    /\ age = [d \in Drivers |-> 0]
    /\ server = "serving"
    /\ todo = {}
    /\ sweepDrv = NoDriver
    /\ late = {}

CallerStep(c) ==
    \/ \E s \in Chats : Call(c, s)
    \/ Granted(c)
    \/ RaiseGone(c)
    \/ Evicted(c)
    \/ TakeProfile(c)
    \/ LaunchFails(c)
    \/ Launched(c)
    \/ ViewerActs(c)
    \/ EndSession(c)
    \/ SessionEnded(c)
    \/ Leave(c)

SweepStep == ReapIdle \/ ReapNext \/ Shutdown \/ CloseAllNext

\* The process ends with its lifespan, and with it whatever its tasks are at.
Next ==
    /\ server # "stopped"
    /\ \/ \E c \in Callers : CallerStep(c)
       \/ \E d \in Drivers : BrowserLeaves(d)
       \/ Tick
       \/ SweepStep

\* Awaits return: a granted lock runs its waiter, the factory comes up or
\* raises (every launch step has a timeout), driver.close() ends.  Time passes
\* and the reaper runs on a timer.  Nobody has to call, leave, act or end.
Returns(c) ==
    \/ Granted(c) \/ RaiseGone(c) \/ Evicted(c) \/ SessionEnded(c)
    \/ TakeProfile(c) \/ LaunchFails(c) \/ Launched(c)

Fairness ==
    /\ \A c \in Callers : WF_vars(server # "stopped" /\ Returns(c))
    /\ WF_vars(server # "stopped" /\ Tick)
    /\ WF_vars(ReapIdle)
    /\ WF_vars(ReapNext)
    /\ WF_vars(CloseAllNext)

Spec == Init /\ [][Next]_vars
FairSpec == Spec /\ Fairness

-----------------------------------------------------------------------------
(* Properties *)

TypeOK ==
    /\ registry \in [Chats -> Drivers \cup {NoDriver}]
    /\ lockOf \in [Chats -> Locks \cup {NoLock}]
    /\ queue \in [Locks -> Seq(Callers)]
    /\ pc \in [Callers -> Steps]
    /\ chat \in [Callers -> Chats \cup {NoChat}]
    /\ drv \in [Callers -> Drivers \cup {NoDriver}]
    /\ phase \in [Drivers -> Phases]
    /\ chatOf \in [Drivers -> Chats \cup {NoChat}]
    /\ viewers \in [Drivers -> Int]
    /\ age \in [Drivers -> 0..(IdleTimeout + 1)]
    /\ server \in {"serving", "closing", "stopped"}
    /\ todo \in SUBSET Chats
    /\ sweepDrv \in Drivers \cup {NoDriver}
    /\ late \in SUBSET Drivers

\* A registered session always has a browser of its own id that nobody has
\* begun to close, so no caller is ever handed one on its way out (close pops
\* the session before it awaits driver.close()).
RegisteredIsUp ==
    \A s \in Warm : phase[registry[s]] \in {"open", "gone"} /\ chatOf[registry[s]] = s

\* No browser is lost track of: one that is up is the registered one of its id,
\* where eviction, the reaper and close_all can find it.  With a profile this
\* holds although two launches for one id can overlap: the flock stops one.
OpenIsRegistered ==
    \A d \in Drivers : phase[d] \in {"open", "gone"} => /\ chatOf[d] \in Chats
                                                       /\ registry[chatOf[d]] = d

\* A browser that left is reported by one caller only (BrowserGoneError is
\* "raised ONCE"): two callers that report never report the same browser.
GoneReportedOnce ==
    \A b, c \in Callers :
        pc[b] = "reporting" /\ pc[c] = "reporting" /\ drv[b] = drv[c] => b = c

\* While a browser is closed to make room, no viewer is on it and none joins.
EvictedIsUnwatched ==
    \A c \in Callers, v \in Viewers :
        pc[c] = "evicting" /\ pc[v] \in {"using", "ending"} => drv[v] # drv[c]

\* BrowserSession.viewers, which eviction and the reaper trust, is the number
\* of viewers attached, whatever became of the session under them.
ViewersCounted ==
    \A d \in Drivers :
        viewers[d] = Cardinality({v \in Viewers : /\ drv[v] = d
                                                  /\ pc[v] \in {"using", "ending"}})

\* What close_all leaves when it is through: browsers whose close was cancelled or has
\* raised, what a call that is still under way starts or closes, and browsers that came
\* up after it had made its list.  It misses none of those that were there.
DrainQuitsBrowsers ==
    server = "stopped" =>
        \A d \in Drivers : \/ phase[d] \in {"down", "aborted"}
                           \/ d \in late
                           \/ \E c \in Callers : drv[c] = d /\ pc[c] \notin {"waiting", "using"}

\* A waiter is in the queue of a lock whose holder is on its way out of it: awaits a
\* launch or a close, or has its turn, and waits for no other lock.  So it is for locks
\* that close() has dropped from the map, too, and for victims of other ids.
WaitersAreServed ==
    \A c \in Callers : pc[c] = "waiting" =>
        \E l \in Locks :
            /\ Queued(c, l)
            /\ pc[Head(queue[l])] \in {"waiting", "reporting", "evicting", "launching"}
            /\ \A m \in Locks : Queued(Head(queue[l]), m) => m = l

\* get_or_create and END_SESSION always come back: nobody waits forever for the
\* per-id lock, even one that close() has dropped from the map.
CallsReturn ==
    \A c \in Callers :
        pc[c] \notin {"idle", "using"} ~> pc[c] \in {"idle", "using"} \/ server = "stopped"

\* Sessions nobody uses any more do not pin a browser: once no task calls or holds a
\* session, their clocks pass the timeout and the reaper closes every one.
AbandonedAreReaped ==
    <>[](server = "serving" /\ \A c \in Callers : pc[c] = "idle")
        => <>[](\A d \in Drivers : phase[d] \in {"down", "aborted"})

-----------------------------------------------------------------------------
(* Each chat gets the browser ChatBrowser.tla promises: the one that owns the *)
(* profile.                                                                   *)

Owners(s) == {d \in Drivers : /\ chatOf[d] = s
                              /\ phase[d] \notin {"down", "launching"}}

LifeOf(s) ==
    IF Owners(s) = {} THEN "down"
    ELSE LET p == phase[CHOOSE d \in Owners(s) : TRUE]
         IN  CASE p = "starting" -> "starting"
               [] p \in {"open", "gone"} -> "up"
               [] p = "closing" -> "stopping"
               [] OTHER -> "aborted"

UsersOf(s) == {c \in Callers : pc[c] \in {"using", "ending"} /\ drv[c] \in Owners(s)}

Promise(s) == INSTANCE ChatBrowser
                WITH Users <- Callers, life <- LifeOf(s), users <- UsersOf(s)

=============================================================================
