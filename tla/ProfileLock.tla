----------------------------- MODULE ProfileLock -----------------------------
(***************************************************************************)
(* The profile directories on the shared volume and who may touch them:    *)
(* drivers that launch Chromium on one (src/src/browser_driver.py), the    *)
(* boot sweep of a pod (src/src/server.py) and the garbage collector of    *)
(* profiles without a chat (src/src/profile_gc.py), in several pods.  All  *)
(* of them go by one flock per profile, outside the profile's directory.   *)
(***************************************************************************)
EXTENDS Integers, FiniteSets

CONSTANTS
    Pods, Chats,
    Drivers,      \* pool of drivers, recycled once nothing is left of them
    Nobody        \* who holds a free lock

Sweeper(p) == <<"sweep", p>>

ASSUME HolderAssumption == /\ Nobody \notin Drivers \cup {Sweeper(p) : p \in Pods}
                           /\ Drivers \cap {Sweeper(p) : p \in Pods} = {}
                           /\ Drivers \cap {"none", "stale"} = {}

VARIABLES
    phase,    \* [Pods -> "down", "booting", "serving"]
    chat,     \* [Chats -> "new", "live", "deleted"], the chat's own files
    stage,    \* [Drivers -> where start() or close() is]
    pod,      \* [Drivers -> Pods]
    profile,  \* [Drivers -> Chats]
    chrome,   \* SUBSET Drivers: those whose Chromium runs
    holder,   \* [Chats -> who holds the flock]
    dir,      \* [Chats -> "none", "empty", "data"], the profile directory
    links,    \* [Chats -> the Chromium its Singleton links name, "none" or "stale"]
    old,      \* SUBSET Chats: directories past the grace period
    tombs,    \* SUBSET Chats: those with a renamed directory not yet removed
    sweep     \* [Pods -> the sweep it runs]

driverVars == <<stage, pod, profile, chrome>>
fsVars == <<dir, links, old, tombs>>
vars == <<phase, chat, driverVars, holder, fsVars, sweep>>

Stages == {"off", "made", "locked", "cleared", "adopting", "up", "closing", "lost", "orphan"}

\* A sweep: the profiles still to look at, the one at hand, and the keep-set.
Idle == [step |-> "idle", todo |-> {}, at |-> {}]
Sweeps == [step : {"idle", "boot", "bootLocked", "gc", "checked", "gcLocked", "renamed"},
           todo : SUBSET Chats, at : SUBSET Chats]

Free(c) == holder[c] = Nobody
Live == {c \in Chats : chat[c] = "live"}
Exists(c) == dir[c] # "none"

-----------------------------------------------------------------------------
(* Drivers *)

\* os.makedirs(profile, exist_ok=True)
MakeDir(c) == dir' = [dir EXCEPT ![c] = IF @ = "none" THEN "empty" ELSE @]

\* start() on a thread makes the directory before it has the lock.
Start(d, p, c) ==
    /\ stage[d] = "off"
    /\ phase[p] = "serving"
    /\ stage' = [stage EXCEPT ![d] = "made"]
    /\ pod' = [pod EXCEPT ![d] = p]
    /\ profile' = [profile EXCEPT ![d] = c]
    /\ MakeDir(c)
    /\ old' = IF Exists(c) THEN old ELSE old \ {c}
    /\ UNCHANGED <<phase, chat, chrome, holder, links, tombs, sweep>>

\* Mutant: a held lock does not keep the driver off.
BargeIn(d) ==
    /\ stage[d] = "made"
    /\ holder' = [holder EXCEPT ![profile[d]] = d]
    /\ stage' = [stage EXCEPT ![d] = "locked"]
    /\ UNCHANGED <<phase, chat, pod, profile, chrome, fsVars, sweep>>

\* _acquire_profile_lock does not wait: a held lock fails the launch.  With the
\* lock the thread cleans up caches and archives, and nothing else sees it.
AcquireLock(d) ==
    /\ stage[d] = "made"
    /\ IF Free(profile[d])
       THEN /\ holder' = [holder EXCEPT ![profile[d]] = d]
            /\ stage' = [stage EXCEPT ![d] = "locked"]
       ELSE /\ stage' = [stage EXCEPT ![d] = "off"]
            /\ UNCHANGED holder
    /\ UNCHANGED <<phase, chat, pod, profile, chrome, fsVars, sweep>>

\* _prepare_persistent_dir
Prepare(d) ==
    /\ stage[d] = "locked"
    /\ stage' = [stage EXCEPT ![d] = "cleared"]
    /\ MakeDir(profile[d])
    /\ links' = [links EXCEPT ![profile[d]] = "none"]
    /\ old' = IF Exists(profile[d]) /\ links[profile[d]] = "none" THEN old
              ELSE old \ {profile[d]}
    /\ UNCHANGED <<phase, chat, pod, profile, chrome, holder, tombs, sweep>>

\* Chromium takes the profile; it refuses one whose links name another.
ComesUp(d) ==
    /\ links[profile[d]] = "none"
    /\ chrome' = chrome \cup {d}
    /\ links' = [links EXCEPT ![profile[d]] = d]
    /\ dir' = [dir EXCEPT ![profile[d]] = "data"]
    /\ old' = old \ {profile[d]}

Launch(d) ==
    /\ stage[d] = "cleared"
    /\ stage' = [stage EXCEPT ![d] = "adopting"]
    /\ ComesUp(d)
    /\ UNCHANGED <<phase, chat, pod, profile, holder, tombs, sweep>>

\* Mutant: the lock stays.
KeepLock(d) == UNCHANGED holder

\* _release_profile_lock
Release(d) == holder' = [c \in Chats |-> IF holder[c] = d THEN Nobody ELSE holder[c]]

\* Chromium does not come up; start() releases the lock.
LaunchFails(d) ==
    /\ stage[d] \in {"locked", "cleared"}
    /\ stage' = [stage EXCEPT ![d] = "off"]
    /\ Release(d)
    /\ UNCHANGED <<phase, chat, pod, profile, chrome, fsVars, sweep>>

\* start() returns.
Ready(d) ==
    /\ stage[d] = "adopting"
    /\ stage' = [stage EXCEPT ![d] = "up"]
    /\ UNCHANGED <<phase, chat, pod, profile, chrome, holder, fsVars, sweep>>

\* A page cannot be opened in the new Chromium: start() releases the lock and
\* forgets the driver, Chromium goes on.
FailsLate(d) ==
    /\ stage[d] = "adopting"
    /\ stage' = [stage EXCEPT ![d] = "orphan"]
    /\ Release(d)
    /\ UNCHANGED <<phase, chat, pod, profile, chrome, fsVars, sweep>>

\* The task in start() is cancelled: no handler runs, the thread takes the lock
\* all the same, and a Chromium on its way may still come up.
Cancelled(d) ==
    /\ stage[d] \in {"made", "locked", "cleared", "adopting"}
    /\ stage' = [stage EXCEPT ![d] = "lost"]
    /\ holder' = IF stage[d] = "made" /\ Free(profile[d])
                 THEN [holder EXCEPT ![profile[d]] = d] ELSE holder
    /\ \/ UNCHANGED <<chrome, links, dir, old>>
       \/ stage[d] = "cleared" /\ ComesUp(d)
    /\ UNCHANGED <<phase, chat, pod, profile, tombs, sweep>>

\* Chromium quits or dies; only a quit removes its links.
Quit(d, left) ==
    /\ chrome' = chrome \ {d}
    /\ links' = [links EXCEPT ![profile[d]] = IF @ = d THEN left ELSE @]

\* close(): context.close() is an in-Chrome quit.
Close(d) ==
    /\ stage[d] = "up"
    /\ stage' = [stage EXCEPT ![d] = "closing"]
    /\ Quit(d, "none")
    /\ old' = old \ {profile[d]}
    /\ UNCHANGED <<phase, chat, pod, profile, holder, dir, tombs, sweep>>

Closed(d) ==
    /\ stage[d] = "closing"
    /\ stage' = [stage EXCEPT ![d] = "off"]
    /\ Release(d)
    /\ UNCHANGED <<phase, chat, pod, profile, chrome, fsVars, sweep>>

\* context.close() raises, close() is left and the lock stays.
CloseRaises(d) ==
    /\ stage[d] = "up"
    /\ stage' = [stage EXCEPT ![d] = "lost"]
    /\ UNCHANGED <<phase, chat, pod, profile, chrome, holder, fsVars, sweep>>

ChromeDies(d) ==
    /\ d \in chrome
    /\ Quit(d, "stale")
    /\ UNCHANGED <<phase, chat, stage, pod, profile, holder, dir, old, tombs, sweep>>

-----------------------------------------------------------------------------
(* Sweeps: one at a time in a pod, at boot and by the collector *)

Goes(p, step, todo, at) ==
    sweep' = [sweep EXCEPT ![p] = [step |-> step, todo |-> todo, at |-> at]]

Todo(p) == sweep[p].todo
At(p) == sweep[p].at

\* A container starts: nothing of it runs Chromium yet.
Boot(p) ==
    /\ phase[p] = "down"
    /\ phase' = [phase EXCEPT ![p] = "booting"]
    /\ Goes(p, "boot", {c \in Chats : Exists(c)}, {})
    /\ UNCHANGED <<chat, driverVars, holder, fsVars>>

\* clear_stale_profile_locks looks at one profile: a held lock is left alone.
BootTries(p, c) ==
    /\ sweep[p].step = "boot"
    /\ c \in Todo(p)
    /\ IF Free(c)
       THEN /\ holder' = [holder EXCEPT ![c] = Sweeper(p)]
            /\ Goes(p, "bootLocked", Todo(p) \ {c}, {c})
       ELSE /\ Goes(p, "boot", Todo(p) \ {c}, {})
            /\ UNCHANGED holder
    /\ UNCHANGED <<phase, chat, driverVars, fsVars>>

Unlocked(p) == [c \in Chats |-> IF holder[c] = Sweeper(p) THEN Nobody ELSE holder[c]]

BootClears(p) ==
    /\ sweep[p].step = "bootLocked"
    /\ links' = [c \in Chats |-> IF c \in At(p) THEN "none" ELSE links[c]]
    /\ old' = old \ {c \in At(p) : links[c] # "none"}
    /\ holder' = Unlocked(p)
    /\ Goes(p, "boot", Todo(p), {})
    /\ UNCHANGED <<phase, chat, driverVars, dir, tombs>>

Serve(p) ==
    /\ sweep[p].step = "boot"
    /\ Todo(p) = {}
    /\ phase' = [phase EXCEPT ![p] = "serving"]
    /\ Goes(p, "idle", {}, {})
    /\ UNCHANGED <<chat, driverVars, holder, fsVars>>

\* Mutant: the keep-set is not asked.
OldOnes == {c \in old : Exists(c)}

\* What a sweep may delete: old directories of chats that are not there.  No chat
\* at all is an unusable keep-set.
Orphans == IF Live = {} THEN {} ELSE {c \in old : Exists(c)} \ Live

\* The keep-set, the entries and the time are read when the sweep starts.
GcStarts(p) ==
    /\ phase[p] = "serving"
    /\ sweep[p].step = "idle"
    /\ Orphans # {}
    /\ Goes(p, "gc", Orphans, {})
    /\ UNCHANGED <<phase, chat, driverVars, holder, fsVars>>

\* The next candidate.  Its age is taken at the time the sweep started: one that
\* was touched since then is too young.
GcChecks(p, c) ==
    /\ sweep[p].step = "gc"
    /\ c \in Todo(p)
    /\ IF c \in old /\ Exists(c) THEN Goes(p, "checked", Todo(p) \ {c}, {c})
                                 ELSE Goes(p, "gc", Todo(p) \ {c}, {})
    /\ UNCHANGED <<phase, chat, driverVars, holder, fsVars>>

\* Mutant: a lock that is held is taken for a stale one.
GcBreaksIn(p) ==
    /\ sweep[p].step = "checked"
    /\ holder' = [c \in Chats |-> IF c \in At(p) THEN Sweeper(p) ELSE holder[c]]
    /\ Goes(p, "gcLocked", Todo(p), At(p))
    /\ UNCHANGED <<phase, chat, driverVars, fsVars>>

\* _delete_one: a held lock is a live Chromium's.
GcLocks(p) ==
    /\ sweep[p].step = "checked"
    /\ IF \A c \in At(p) : Free(c)
       THEN /\ holder' = [c \in Chats |-> IF c \in At(p) THEN Sweeper(p) ELSE holder[c]]
            /\ Goes(p, "gcLocked", Todo(p), At(p))
       ELSE /\ Goes(p, "gc", Todo(p), {})
            /\ UNCHANGED holder
    /\ UNCHANGED <<phase, chat, driverVars, fsVars>>

\* _rename_then_rm: the directory leaves its name at once.
GcRenames(p) ==
    /\ sweep[p].step = "gcLocked"
    /\ tombs' = tombs \cup {c \in At(p) : Exists(c)}
    /\ dir' = [c \in Chats |-> IF c \in At(p) THEN "none" ELSE dir[c]]
    /\ links' = [c \in Chats |-> IF c \in At(p) THEN "none" ELSE links[c]]
    /\ old' = old \ At(p)
    /\ Goes(p, "renamed", Todo(p), At(p))
    /\ UNCHANGED <<phase, chat, driverVars, holder>>

GcRemoves(p) ==
    /\ sweep[p].step = "renamed"
    /\ tombs' = tombs \ At(p)
    /\ holder' = Unlocked(p)
    /\ Goes(p, "gc", Todo(p), {})
    /\ UNCHANGED <<phase, chat, driverVars, dir, links, old>>

\* A tomb of a sweep that was killed is removed without a lock.
GcTomb(p, c) ==
    /\ sweep[p].step = "gc"
    /\ tombs' = tombs \ {c}
    /\ c \in tombs
    /\ UNCHANGED <<phase, chat, driverVars, holder, dir, links, old, sweep>>

\* The end, or the cap on the deletions of a sweep.
GcEnds(p) ==
    /\ sweep[p].step = "gc"
    /\ Goes(p, "idle", {}, {})
    /\ UNCHANGED <<phase, chat, driverVars, holder, fsVars>>

-----------------------------------------------------------------------------
(* Pods and chats *)

\* A pod is killed or restarts: its processes end, their locks go, links stay.
Crash(p) ==
    LET gone == {d \in Drivers : pod[d] = p}
    IN  /\ phase[p] # "down"
        /\ phase' = [phase EXCEPT ![p] = "down"]
        /\ stage' = [d \in Drivers |-> IF d \in gone THEN "off" ELSE stage[d]]
        /\ chrome' = chrome \ gone
        /\ links' = [c \in Chats |-> IF links[c] \in gone THEN "stale" ELSE links[c]]
        /\ holder' = [c \in Chats |-> IF holder[c] \in gone \cup {Sweeper(p)} THEN Nobody
                                      ELSE holder[c]]
        /\ Goes(p, "idle", {}, {})
        /\ UNCHANGED <<chat, pod, profile, dir, old, tombs>>

\* The chat's files appear; it is deleted for good.
Land(c) ==
    /\ chat[c] = "new"
    /\ chat' = [chat EXCEPT ![c] = "live"]
    /\ UNCHANGED <<phase, driverVars, holder, fsVars, sweep>>

Delete(c) ==
    /\ chat[c] = "live"
    /\ chat' = [chat EXCEPT ![c] = "deleted"]
    /\ UNCHANGED <<phase, driverVars, holder, fsVars, sweep>>

\* The grace period passes; a chat that comes lands within it.
Age(c) ==
    /\ Exists(c)
    /\ chat[c] # "new"
    /\ old' = old \cup {c}
    /\ UNCHANGED <<phase, chat, driverVars, holder, dir, links, tombs, sweep>>

-----------------------------------------------------------------------------
Init ==
    /\ phase = [p \in Pods |-> "down"]
    /\ chat = [c \in Chats |-> "new"]
    /\ stage = [d \in Drivers |-> "off"]
    /\ pod \in [Drivers -> Pods] /\ profile \in [Drivers -> Chats]
    /\ chrome = {}
    /\ holder = [c \in Chats |-> Nobody]
    /\ dir = [c \in Chats |-> "none"] /\ links = [c \in Chats |-> "none"]
    /\ old = {} /\ tombs = {}
    /\ sweep = [p \in Pods |-> Idle]

DriverStep(d) ==
    \/ \E p \in Pods, c \in Chats : Start(d, p, c)
    \/ AcquireLock(d) \/ Prepare(d) \/ Launch(d) \/ LaunchFails(d) \/ Ready(d)
    \/ FailsLate(d) \/ Cancelled(d) \/ Close(d) \/ Closed(d) \/ CloseRaises(d)
    \/ ChromeDies(d)

SweepStep(p) ==
    \/ Boot(p) \/ BootClears(p) \/ Serve(p)
    \/ GcStarts(p) \/ GcLocks(p) \/ GcRenames(p) \/ GcRemoves(p) \/ GcEnds(p)
    \/ \E c \in Chats : BootTries(p, c) \/ GcChecks(p, c) \/ GcTomb(p, c)

Next ==
    \/ \E d \in Drivers : DriverStep(d)
    \/ \E p \in Pods : SweepStep(p) \/ Crash(p)
    \/ \E c \in Chats : Land(c) \/ Delete(c) \/ Age(c)

Spec == Init /\ [][Next]_vars

-----------------------------------------------------------------------------
(* Properties *)

TypeOK ==
    /\ phase \in [Pods -> {"down", "booting", "serving"}]
    /\ chat \in [Chats -> {"new", "live", "deleted"}]
    /\ stage \in [Drivers -> Stages]
    /\ pod \in [Drivers -> Pods] /\ profile \in [Drivers -> Chats]
    /\ chrome \subseteq Drivers
    /\ holder \in [Chats -> Drivers \cup {Nobody} \cup {Sweeper(p) : p \in Pods}]
    /\ dir \in [Chats -> {"none", "empty", "data"}]
    /\ links \in [Chats -> Drivers \cup {"none", "stale"}]
    /\ old \subseteq Chats /\ tombs \subseteq Chats
    /\ sweep \in [Pods -> Sweeps]

Orphan(d) == stage[d] = "orphan"

\* Two Chromiums never run on one profile, but for one that a failed start() left
\* behind.
OneChromium ==
    \A d, e \in chrome : profile[d] = profile[e] => d = e \/ Orphan(d) \/ Orphan(e)

\* "Anyone clearing Singleton* - or garbage-collecting a profile - MUST hold this":
\* a running Chromium keeps its links and its directory, with the same exception.
ChromiumUndisturbed ==
    \A d \in chrome : ~Orphan(d) => links[profile[d]] = d /\ dir[profile[d]] = "data"

\* Only the profile of a chat that is gone is reclaimed, never that of one that
\* exists, whatever the sweep read before.
OnlyOrphansGo ==
    [][\A c \in Chats : Exists(c) /\ ~Exists(c)' => chat[c] = "deleted"]_vars

\* "a failed launch must not wedge the profile": a lock is held by a driver that is
\* at work, by a sweep that is at it, or by one left over from a cancelled start or
\* a close that raised.
LockHasReason ==
    \A c \in Chats :
        \/ Free(c)
        \/ \E d \in Drivers : holder[c] = d /\ profile[d] = c /\ stage[d] \notin {"off", "made"}
        \/ \E p \in Pods : holder[c] = Sweeper(p) /\ c \in At(p)
-----------------------------------------------------------------------------
(* What a comment says and the code does not always do *)

\* "Cross-pod mutual exclusion: an fcntl flock held for the whole session
\* (launch -> close)"
LockedWhileRunning == \A d \in chrome : holder[profile[d]] = d
=============================================================================
