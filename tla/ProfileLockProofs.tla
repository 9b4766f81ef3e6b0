-------------------------- MODULE ProfileLockProofs --------------------------
(***************************************************************************)
(* Proofs about ProfileLock.tla: what the flock protects, for any pods,    *)
(* chats and drivers.                                                      *)
(***************************************************************************)
EXTENDS ProfileLock, TLAPS

-----------------------------------------------------------------------------
(* The inductive invariant *)

\* A driver between taking the lock and releasing it has it.
Working == {"locked", "cleared", "adopting", "up", "closing"}
WorkersHold == \A d \in Drivers : stage[d] \in Working => holder[profile[d]] = d

\* Chromium runs under a lock, unless its start() failed late.
ChromiumHolds ==
    \A d \in chrome : /\ stage[d] \in {"adopting", "up", "lost", "orphan"}
                      /\ ~Orphan(d) => holder[profile[d]] = d

\* A driver has the lock of its own profile only, and has a reason.
HoldersKnown ==
    \A c \in Chats : \A d \in Drivers :
        holder[c] = d => profile[d] = c /\ stage[d] \notin {"off", "made", "orphan"}

\* A sweep has the locks of the profile at hand, and no other.
SweepLocked == {"bootLocked", "gcLocked", "renamed"}
SweepsHold ==
    \A p \in Pods : \A c \in Chats :
        holder[c] = Sweeper(p) <=> sweep[p].step \in SweepLocked /\ c \in sweep[p].at

\* A pod that is down sweeps nothing.
DownIdle == \A p \in Pods : phase[p] = "down" => sweep[p].step = "idle"

LockInv == WorkersHold /\ ChromiumHolds /\ HoldersKnown /\ SweepsHold

\* What a collector has in hand are chats that are gone for good.
Collecting == {"gc", "checked", "gcLocked", "renamed"}
CollectsGone ==
    /\ \A c \in old : chat[c] # "new"
    /\ \A p \in Pods : sweep[p].step \in Collecting =>
           \A c \in sweep[p].todo \cup sweep[p].at : chat[c] = "deleted"

-----------------------------------------------------------------------------
(* Types *)

\* Who may hold a lock: the sweeps of different pods, the drivers and nobody are
\* told apart.
LEMMA HoldersDiffer ==
    /\ \A p, q \in Pods : Sweeper(p) = Sweeper(q) => p = q
    /\ \A p \in Pods : Sweeper(p) \notin Drivers /\ Sweeper(p) # Nobody
    /\ Nobody \notin Drivers
  <1>1. \A p, q \in Pods : Sweeper(p) = Sweeper(q) => p = q
    BY DEF Sweeper
  <1> QED BY <1>1, HolderAssumption

\* Every variable starts with a value of its type.
LEMMA InitType == Init => TypeOK
  BY DEF Init, TypeOK, Stages, Sweeps, Idle

\* A step of a driver keeps the types.
LEMMA DriverType ==
    ASSUME TypeOK, NEW d \in Drivers, DriverStep(d)
    PROVE  TypeOK'
  <1> USE DEF TypeOK, Stages, driverVars, fsVars
  <1>1. ASSUME NEW p \in Pods, NEW c \in Chats, Start(d, p, c) PROVE TypeOK'
    BY <1>1 DEF Start, MakeDir
  <1>2. CASE AcquireLock(d) BY <1>2 DEF AcquireLock
  <1>3. CASE Prepare(d) BY <1>3 DEF Prepare, MakeDir
  <1>4. CASE Launch(d) BY <1>4 DEF Launch, ComesUp
  <1>5. CASE LaunchFails(d) BY <1>5 DEF LaunchFails, Release
  <1>6. CASE Ready(d) BY <1>6 DEF Ready
  <1>7. CASE FailsLate(d) BY <1>7 DEF FailsLate, Release
  <1>8. CASE Cancelled(d) BY <1>8 DEF Cancelled, ComesUp
  <1>9. CASE Close(d) BY <1>9 DEF Close, Quit
  <1>10. CASE Closed(d) BY <1>10 DEF Closed, Release
  <1>11. CASE CloseRaises(d) BY <1>11 DEF CloseRaises
  <1>12. CASE ChromeDies(d) BY <1>12 DEF ChromeDies, Quit
  <1> QED BY <1>1, <1>2, <1>3, <1>4, <1>5, <1>6, <1>7, <1>8, <1>9, <1>10, <1>11,
             <1>12 DEF DriverStep

\* Who may hold a lock.
Holders == Drivers \cup {Nobody} \cup {Sweeper(p) : p \in Pods}

\* Taking a lock for a sweep and giving it back leave a holder each.
LEMMA HolderType ==
    ASSUME TypeOK, NEW p \in Pods, NEW cs \in SUBSET Chats
    PROVE  /\ Unlocked(p) \in [Chats -> Holders]
           /\ [c \in Chats |-> IF c \in cs THEN Sweeper(p) ELSE holder[c]] \in [Chats -> Holders]
           /\ \A c \in Chats : [holder EXCEPT ![c] = Sweeper(p)] \in [Chats -> Holders]
  <1>1. /\ holder \in [Chats -> Holders]
        /\ Sweeper(p) \in Holders /\ Nobody \in Holders
    BY DEF TypeOK, Holders
  <1> HIDE DEF Holders
  <1>2. Unlocked(p) \in [Chats -> Holders]
    BY <1>1 DEF Unlocked
  <1>3. [c \in Chats |-> IF c \in cs THEN Sweeper(p) ELSE holder[c]] \in [Chats -> Holders]
    BY <1>1
  <1>4. ASSUME NEW c \in Chats PROVE [holder EXCEPT ![c] = Sweeper(p)] \in [Chats -> Holders]
    BY <1>1
  <1> QED BY <1>2, <1>3, <1>4

\* The sweeps keep their type.
LEMMA SweepsType ==
    ASSUME TypeOK, NEW p \in Pods, SweepStep(p)
    PROVE  sweep' \in [Pods -> Sweeps]
  <1> USE DEF Goes, Sweeps
  <1>1. At(p) \in SUBSET Chats /\ Todo(p) \in SUBSET Chats
    BY DEF TypeOK, At, Todo
  <1>0. sweep \in [Pods -> Sweeps]
    BY DEF TypeOK
  <1>2. CASE Boot(p) BY <1>0, <1>2 DEF Boot
  <1>3. CASE BootClears(p) BY <1>0, <1>1, <1>3 DEF BootClears
  <1>4. CASE Serve(p) BY <1>0, <1>4 DEF Serve
  <1>5. CASE GcStarts(p)
    <2>1. Orphans \in SUBSET Chats BY DEF Orphans, TypeOK
    <2> QED BY <1>0, <1>5, <2>1 DEF GcStarts
  <1>6. CASE GcLocks(p) BY <1>0, <1>1, <1>6 DEF GcLocks
  <1>7. CASE GcRenames(p) BY <1>0, <1>1, <1>7 DEF GcRenames
  <1>8. CASE GcRemoves(p) BY <1>0, <1>1, <1>8 DEF GcRemoves
  <1>9. CASE GcEnds(p) BY <1>0, <1>9 DEF GcEnds
  <1>10. ASSUME NEW c \in Chats, BootTries(p, c) PROVE sweep' \in [Pods -> Sweeps]
    BY <1>0, <1>1, <1>10 DEF BootTries
  <1>11. ASSUME NEW c \in Chats, GcChecks(p, c) PROVE sweep' \in [Pods -> Sweeps]
    BY <1>0, <1>1, <1>11 DEF GcChecks
  <1>12. ASSUME NEW c \in Chats, GcTomb(p, c) PROVE sweep' \in [Pods -> Sweeps]
    BY <1>0, <1>12 DEF GcTomb, TypeOK
  <1> QED BY <1>2, <1>3, <1>4, <1>5, <1>6, <1>7, <1>8, <1>9, <1>10, <1>11, <1>12
          DEF SweepStep

\* So do the locks.
LEMMA LocksType ==
    ASSUME TypeOK, NEW p \in Pods, SweepStep(p)
    PROVE  holder' \in [Chats -> Holders]
  <1> USE HolderType
  <1>1. At(p) \in SUBSET Chats /\ holder \in [Chats -> Holders]
    BY DEF TypeOK, Sweeps, At, Holders
  <1>2. CASE BootClears(p) \/ GcRemoves(p) BY <1>2 DEF BootClears, GcRemoves
  <1>3. CASE GcLocks(p) BY <1>1, <1>3 DEF GcLocks
  <1>4. ASSUME NEW c \in Chats, BootTries(p, c) PROVE holder' \in [Chats -> Holders]
    BY <1>1, <1>4 DEF BootTries
  <1>5. CASE UNCHANGED holder BY <1>1, <1>5
  <1> QED BY <1>2, <1>3, <1>4, <1>5
          DEF SweepStep, Boot, Serve, GcStarts, GcRenames, GcEnds, GcChecks, GcTomb

\* A step of a sweep keeps the types.
LEMMA SweepStepType ==
    ASSUME TypeOK, NEW p \in Pods, SweepStep(p)
    PROVE  TypeOK'
  <1>1. At(p) \in SUBSET Chats
    BY DEF TypeOK, Sweeps, At
  <1>2. sweep' \in [Pods -> Sweeps] /\ holder' \in [Chats -> Holders]
    BY SweepsType, LocksType
  <1>3. /\ stage' = stage /\ pod' = pod /\ profile' = profile /\ chrome' = chrome
        /\ chat' = chat
        /\ phase' \in {phase, [phase EXCEPT ![p] = "booting"], [phase EXCEPT ![p] = "serving"]}
    BY DEF SweepStep, Boot, BootClears, Serve, GcStarts, GcLocks, GcRenames, GcRemoves, GcEnds,
           BootTries, GcChecks, GcTomb, driverVars
  <1>4. /\ dir \in [Chats -> {"none", "empty", "data"}]
        /\ links \in [Chats -> Drivers \cup {"none", "stale"}]
        /\ old \subseteq Chats /\ tombs \subseteq Chats
    BY DEF TypeOK
  <1>0. phase' \in [Pods -> {"down", "booting", "serving"}]
    BY <1>3 DEF TypeOK
  <1>5. CASE BootClears(p) \/ GcRenames(p) \/ GcRemoves(p)
    <2>1. /\ dir' \in [Chats -> {"none", "empty", "data"}]
          /\ links' \in [Chats -> Drivers \cup {"none", "stale"}]
          /\ old' \subseteq Chats /\ tombs' \subseteq Chats
      BY <1>1, <1>4, <1>5 DEF BootClears, GcRenames, GcRemoves
    <2> QED BY <1>0, <1>2, <1>3, <2>1 DEF TypeOK, Holders
  <1>6. CASE dir' = dir /\ links' = links /\ old' = old /\ tombs' \subseteq tombs
    BY <1>0, <1>2, <1>3, <1>4, <1>6 DEF TypeOK, Holders
  <1> QED BY <1>5, <1>6
          DEF SweepStep, Boot, Serve, GcStarts, GcLocks, GcEnds, BootTries, GcChecks, GcTomb,
              fsVars

\* So do a pod's end and what happens to chats.
LEMMA WorldType ==
    ASSUME TypeOK,
           \/ \E p \in Pods : Crash(p)
           \/ \E c \in Chats : Land(c) \/ Delete(c) \/ Age(c)
    PROVE  TypeOK'
  <1>1. ASSUME NEW p \in Pods, Crash(p) PROVE TypeOK'
    <2>1. sweep' \in [Pods -> Sweeps]
      BY <1>1 DEF Crash, Goes, TypeOK, Sweeps
    <2>2. holder' \in [Chats -> Holders]
      BY <1>1 DEF Crash, TypeOK, Holders
    <2> QED BY <1>1, <2>1, <2>2 DEF Crash, TypeOK, Holders, Stages
  <1>2. ASSUME NEW c \in Chats, Land(c) \/ Delete(c) \/ Age(c) PROVE TypeOK'
    BY <1>2 DEF Land, Delete, Age, TypeOK, driverVars, fsVars
  <1> QED BY <1>1, <1>2

-----------------------------------------------------------------------------
(* The locks *)

\* The facts every step below needs of the types.
LEMMA Typed ==
    ASSUME TypeOK
    PROVE  /\ phase \in [Pods -> {"down", "booting", "serving"}]
           /\ stage \in [Drivers -> Stages] /\ profile \in [Drivers -> Chats]
           /\ pod \in [Drivers -> Pods] /\ chrome \subseteq Drivers
           /\ holder \in [Chats -> Holders] /\ sweep \in [Pods -> Sweeps]
           /\ links \in [Chats -> Drivers \cup {"none", "stale"}]
  BY DEF TypeOK, Holders

\* A step of a driver leaves the sweeps' locks to them and takes or gives back only
\* the lock of its own profile.
LEMMA DriverLocks ==
    ASSUME TypeOK, LockInv, NEW d \in Drivers, DriverStep(d)
    PROVE  LockInv'
  <1> USE Typed, HoldersDiffer
      DEF LockInv, WorkersHold, ChromiumHolds, HoldersKnown, SweepsHold, Working, Orphan, Free
  <1>1. ASSUME NEW p \in Pods, NEW c \in Chats, Start(d, p, c) PROVE LockInv'
    BY <1>1 DEF Start
  <1>2. CASE AcquireLock(d) BY <1>2 DEF AcquireLock
  <1>3. CASE Prepare(d) BY <1>3 DEF Prepare
  <1>4. CASE Launch(d) BY <1>4 DEF Launch, ComesUp
  <1>5. CASE LaunchFails(d) BY <1>5 DEF LaunchFails, Release
  <1>6. CASE Ready(d) BY <1>6 DEF Ready
  <1>7. CASE FailsLate(d) BY <1>7 DEF FailsLate, Release
  <1>8. CASE Cancelled(d) BY <1>8 DEF Cancelled, ComesUp
  <1>9. CASE Close(d) BY <1>9 DEF Close, Quit
  <1>10. CASE Closed(d) BY <1>10 DEF Closed, Release
  <1>11. CASE CloseRaises(d) BY <1>11 DEF CloseRaises
  <1>12. CASE ChromeDies(d) BY <1>12 DEF ChromeDies, Quit
  <1> QED BY <1>1, <1>2, <1>3, <1>4, <1>5, <1>6, <1>7, <1>8, <1>9, <1>10, <1>11,
             <1>12 DEF DriverStep

\* A sweep that takes free locks, and no driver moves.
LEMMA Taken ==
    ASSUME TypeOK, LockInv, NEW p \in Pods, NEW step \in SweepLocked,
           NEW todo \in SUBSET Chats, NEW at \in SUBSET Chats,
           Goes(p, step, todo, at), \A c \in at : Free(c),
           sweep[p].step \notin SweepLocked,
           holder' = [c \in Chats |-> IF c \in at THEN Sweeper(p) ELSE holder[c]],
           UNCHANGED <<stage, pod, profile, chrome>>
    PROVE  LockInv'
  <1>1. /\ sweep'[p].step \in SweepLocked /\ sweep'[p].at = at
        /\ \A q \in Pods \ {p} : sweep'[q] = sweep[q]
    BY Typed DEF Goes
  <1>2. \A c \in Chats : holder'[c] = IF c \in at THEN Sweeper(p) ELSE holder[c]
    OBVIOUS
  <1>3. SweepsHold'
    BY <1>1, <1>2, HoldersDiffer DEF LockInv, SweepsHold, Free
  <1>4. \A d \in Drivers : \A c \in Chats : holder'[c] = d <=> holder[c] = d
    BY <1>2, HoldersDiffer DEF Free
  <1>5. WorkersHold' /\ ChromiumHolds' /\ HoldersKnown'
    BY <1>4, Typed DEF LockInv, WorkersHold, ChromiumHolds, HoldersKnown, Orphan
  <1> QED BY <1>3, <1>5 DEF LockInv

\* A step of a sweep takes a free lock for itself, or gives its own back.
LEMMA SweepLocks ==
    ASSUME TypeOK, DownIdle, LockInv, NEW p \in Pods, SweepStep(p)
    PROVE  LockInv'
  <1>1. Todo(p) \in SUBSET Chats /\ At(p) \in SUBSET Chats
    BY Typed DEF Todo, At, Sweeps
  <1>2. ASSUME GcLocks(p), \A c \in At(p) : Free(c) PROVE LockInv'
    <2>1. /\ Goes(p, "gcLocked", Todo(p), At(p)) /\ sweep[p].step = "checked"
          /\ holder' = [c \in Chats |-> IF c \in At(p) THEN Sweeper(p) ELSE holder[c]]
          /\ UNCHANGED <<stage, pod, profile, chrome>>
      BY <1>2 DEF GcLocks, driverVars
    <2> QED BY <1>1, <1>2, <2>1, Taken DEF SweepLocked
  <1>3. ASSUME NEW c \in Chats, BootTries(p, c), Free(c) PROVE LockInv'
    <2>1. /\ Goes(p, "bootLocked", Todo(p) \ {c}, {c}) /\ sweep[p].step = "boot"
          /\ holder' = [holder EXCEPT ![c] = Sweeper(p)]
          /\ UNCHANGED <<stage, pod, profile, chrome>>
      BY <1>3 DEF BootTries, driverVars
    <2>2. holder' = [b \in Chats |-> IF b \in {c} THEN Sweeper(p) ELSE holder[b]]
      BY <2>1, Typed
    <2>3. \A b \in {c} : Free(b)
      BY <1>3
    <2>4. Todo(p) \ {c} \in SUBSET Chats /\ {c} \in SUBSET Chats
      BY <1>1
    <2> QED BY <2>1, <2>2, <2>3, <2>4, Taken DEF SweepLocked
  <1> USE Typed, HoldersDiffer
      DEF LockInv, WorkersHold, ChromiumHolds, HoldersKnown, SweepsHold, SweepLocked, Orphan,
          Free, Goes, At, Sweeps, driverVars
  <1>4. CASE Boot(p) BY <1>4 DEF Boot, DownIdle
  <1>5. CASE BootClears(p) BY <1>5 DEF BootClears, Unlocked
  <1>6. CASE Serve(p) BY <1>6 DEF Serve
  <1>7. CASE GcStarts(p) BY <1>7 DEF GcStarts
  <1>8. CASE GcLocks(p)
    <2>1. CASE \A c \in At(p) : Free(c) BY <1>8, <2>1, <1>2
    <2>2. CASE ~\A c \in At(p) : Free(c) BY <1>8, <2>2 DEF GcLocks
    <2> QED BY <2>1, <2>2
  <1>9. CASE GcRenames(p) BY <1>9 DEF GcRenames
  <1>10. CASE GcRemoves(p) BY <1>10 DEF GcRemoves, Unlocked
  <1>11. CASE GcEnds(p) BY <1>11 DEF GcEnds
  <1>12. ASSUME NEW c \in Chats, BootTries(p, c) PROVE LockInv'
    <2>1. CASE Free(c) BY <1>12, <2>1, <1>3
    <2>2. CASE ~Free(c) BY <1>12, <2>2 DEF BootTries
    <2> QED BY <2>1, <2>2
  <1>13. ASSUME NEW c \in Chats, GcChecks(p, c) PROVE LockInv'
    BY <1>13 DEF GcChecks
  <1>14. ASSUME NEW c \in Chats, GcTomb(p, c) PROVE LockInv'
    BY <1>14 DEF GcTomb
  <1> QED BY <1>4, <1>5, <1>6, <1>7, <1>8, <1>9, <1>10, <1>11, <1>12, <1>13, <1>14
          DEF SweepStep

\* The end of a pod frees exactly the locks of what ran in it.
LEMMA WorldLocks ==
    ASSUME TypeOK, LockInv,
           \/ \E p \in Pods : Crash(p)
           \/ \E c \in Chats : Land(c) \/ Delete(c) \/ Age(c)
    PROVE  LockInv'
  <1> USE Typed, HoldersDiffer
      DEF LockInv, WorkersHold, ChromiumHolds, HoldersKnown, SweepsHold, SweepLocked, Orphan,
          Working
  <1>1. ASSUME NEW p \in Pods, Crash(p) PROVE LockInv'
    BY <1>1 DEF Crash, Goes
  <1>2. ASSUME NEW c \in Chats, Land(c) \/ Delete(c) \/ Age(c) PROVE LockInv'
    BY <1>2 DEF Land, Delete, Age, driverVars
  <1> QED BY <1>1, <1>2

\* A driver's step leaves the other drivers' Chromiums alone: what it changes is in
\* its own profile, and it has that profile's lock.
LEMMA DriverUndisturbed ==
    ASSUME TypeOK, LockInv, ChromiumUndisturbed, NEW d \in Drivers, DriverStep(d)
    PROVE  ChromiumUndisturbed'
  <1> USE Typed, HoldersDiffer
      DEF LockInv, WorkersHold, ChromiumHolds, Working, ChromiumUndisturbed, Orphan, fsVars
  <1>0. dir \in [Chats -> {"none", "empty", "data"}] BY DEF TypeOK
  <1>1. ASSUME NEW p \in Pods, NEW c \in Chats, Start(d, p, c) PROVE ChromiumUndisturbed'
    BY <1>0, <1>1 DEF Start, MakeDir
  <1>2. CASE AcquireLock(d) BY <1>2 DEF AcquireLock
  <1>3. CASE Prepare(d) BY <1>0, <1>3 DEF Prepare, MakeDir
  <1>4. CASE Launch(d) BY <1>0, <1>4 DEF Launch, ComesUp
  <1>5. CASE LaunchFails(d) BY <1>5 DEF LaunchFails
  <1>6. CASE Ready(d) BY <1>6 DEF Ready
  <1>7. CASE FailsLate(d) BY <1>7 DEF FailsLate
  <1>8. CASE Cancelled(d) BY <1>0, <1>8 DEF Cancelled, ComesUp
  <1>9. CASE Close(d) BY <1>9 DEF Close, Quit
  <1>10. CASE Closed(d) BY <1>10 DEF Closed
  <1>11. CASE CloseRaises(d) BY <1>11 DEF CloseRaises
  <1>12. CASE ChromeDies(d) BY <1>12 DEF ChromeDies, Quit
  <1> QED BY <1>1, <1>2, <1>3, <1>4, <1>5, <1>6, <1>7, <1>8, <1>9, <1>10, <1>11,
             <1>12 DEF DriverStep

\* A sweep clears links and moves directories only in profiles it has locked, where
\* no Chromium runs.
LEMMA SweepUndisturbed ==
    ASSUME TypeOK, LockInv, ChromiumUndisturbed, NEW p \in Pods, SweepStep(p)
    PROVE  ChromiumUndisturbed'
  <1>1. /\ chrome' = chrome /\ stage' = stage /\ profile' = profile
        /\ dir \in [Chats -> {"none", "empty", "data"}]
    BY DEF SweepStep, Boot, BootClears, Serve, GcStarts, GcLocks, GcRenames, GcRemoves, GcEnds,
           BootTries, GcChecks, GcTomb, driverVars, TypeOK
  <1>2. CASE BootClears(p) \/ GcRenames(p)
    <2>1. \A c \in At(p) : c \in Chats => holder[c] \notin Drivers
      BY <1>2, HoldersDiffer
         DEF BootClears, GcRenames, LockInv, SweepsHold, SweepLocked, At
    <2>2. \A d \in chrome : ~Orphan(d) => profile[d] \notin At(p)
      BY <2>1, Typed DEF LockInv, ChromiumHolds
    <2>3. \A c \in Chats : c \notin At(p) => dir'[c] = dir[c] /\ links'[c] = links[c]
      BY <1>1, <1>2, Typed DEF BootClears, GcRenames
    <2> QED BY <1>1, <2>2, <2>3, Typed DEF ChromiumUndisturbed, Orphan
  <1>3. CASE dir' = dir /\ links' = links
    BY <1>1, <1>3 DEF ChromiumUndisturbed, Orphan
  <1> QED BY <1>2, <1>3
          DEF SweepStep, Boot, Serve, GcStarts, GcLocks, GcRemoves, GcEnds, BootTries, GcChecks,
              GcTomb, fsVars

\* The end of a pod makes only the links of its own Chromiums stale.
LEMMA WorldUndisturbed ==
    ASSUME TypeOK, ChromiumUndisturbed,
           \/ \E p \in Pods : Crash(p)
           \/ \E c \in Chats : Land(c) \/ Delete(c) \/ Age(c)
    PROVE  ChromiumUndisturbed'
  <1> USE Typed DEF ChromiumUndisturbed, Orphan
  <1>1. ASSUME NEW p \in Pods, Crash(p) PROVE ChromiumUndisturbed'
    BY <1>1 DEF Crash
  <1>2. ASSUME NEW c \in Chats, Land(c) \/ Delete(c) \/ Age(c) PROVE ChromiumUndisturbed'
    BY <1>2 DEF Land, Delete, Age, driverVars, fsVars
  <1> QED BY <1>1, <1>2

-----------------------------------------------------------------------------
(* What a collector may take *)

\* A step of a driver takes no directory away and makes none older.
LEMMA DriverKeeps ==
    ASSUME TypeOK, NEW d \in Drivers, DriverStep(d)
    PROVE  /\ phase' = phase /\ chat' = chat /\ sweep' = sweep /\ old' \subseteq old
           /\ \A c \in Chats : Exists(c) => Exists(c)'
  <1> USE DEF TypeOK, Exists, fsVars
  <1>1. ASSUME NEW p \in Pods, NEW c \in Chats, Start(d, p, c)
        PROVE  /\ phase' = phase /\ chat' = chat /\ sweep' = sweep /\ old' \subseteq old
               /\ \A b \in Chats : Exists(b) => Exists(b)'
    BY <1>1 DEF Start, MakeDir
  <1>2. CASE Prepare(d) \/ Launch(d) \/ Cancelled(d)
    BY <1>2 DEF Prepare, Launch, Cancelled, MakeDir, ComesUp
  <1>3. CASE UNCHANGED <<phase, chat, sweep, dir>> /\ old' \subseteq old
    BY <1>3
  <1> QED BY <1>1, <1>2, <1>3
          DEF DriverStep, AcquireLock, LaunchFails, Ready, FailsLate, Close, Closed, CloseRaises,
              ChromeDies

\* Only a rename takes a directory away, and only a chat that exists or has existed
\* has one that grows old; so what a sweep finds orphaned stays so.
LEMMA SweepGone ==
    ASSUME TypeOK, DownIdle, CollectsGone, NEW p \in Pods, SweepStep(p)
    PROVE  /\ CollectsGone' /\ DownIdle'
           /\ \A c \in Chats : Exists(c) /\ ~Exists(c)' => chat[c] = "deleted"
  <1> DEFINE Gone == \A c \in Chats : Exists(c) /\ ~Exists(c)' => chat[c] = "deleted"
  <1>1. /\ chat' = chat /\ old' \subseteq old
        /\ \A q \in Pods \ {p} : phase'[q] = phase[q] /\ sweep'[q] = sweep[q]
        /\ sweep'[p].step = "idle" \/ phase'[p] # "down"
    BY Typed
       DEF SweepStep, Boot, BootClears, Serve, GcStarts, GcLocks, GcRenames, GcRemoves, GcEnds,
           BootTries, GcChecks, GcTomb, fsVars, Goes, DownIdle
  <1>2. DownIdle'
    BY <1>1 DEF DownIdle
  <1>3. ASSUME NEW c \in sweep'[p].todo \cup sweep'[p].at, sweep'[p].step \in Collecting
        PROVE  chat[c] = "deleted"
    BY <1>3, Typed
       DEF SweepStep, Boot, BootClears, Serve, GcStarts, GcLocks, GcRenames, GcRemoves, GcEnds,
           BootTries, GcChecks, GcTomb, Goes, Todo, At, Collecting, CollectsGone, Orphans, Live,
           TypeOK, Sweeps
  <1>4. CollectsGone'
    BY <1>1, <1>3 DEF CollectsGone
  <1>5. Gone
    <2>1. CASE GcRenames(p)
      BY <2>1 DEF GcRenames, At, CollectsGone, Collecting, Exists, TypeOK
    <2>2. CASE dir' = dir
      BY <2>2 DEF Exists
    <2> QED BY <2>1, <2>2
            DEF SweepStep, Boot, BootClears, Serve, GcStarts, GcLocks, GcRemoves, GcEnds,
                BootTries, GcChecks, GcTomb, fsVars
  <1> QED BY <1>2, <1>4, <1>5

\* Chats only appear and go; a directory grows old once its chat has appeared.
LEMMA WorldGone ==
    ASSUME TypeOK, DownIdle, CollectsGone,
           \/ \E p \in Pods : Crash(p)
           \/ \E c \in Chats : Land(c) \/ Delete(c) \/ Age(c)
    PROVE  CollectsGone' /\ DownIdle' /\ dir' = dir
  <1> USE Typed DEF CollectsGone, DownIdle
  <1>1. ASSUME NEW p \in Pods, Crash(p) PROVE CollectsGone' /\ DownIdle' /\ dir' = dir
    BY <1>1 DEF Crash, Goes, Collecting
  <1>2. ASSUME NEW c \in Chats, Land(c) \/ Delete(c) \/ Age(c)
        PROVE  CollectsGone' /\ DownIdle' /\ dir' = dir
    BY <1>2 DEF Land, Delete, Age, fsVars, TypeOK, Sweeps
  <1> QED BY <1>1, <1>2

-----------------------------------------------------------------------------
(* The theorems *)

\* The locks make the sweeps and the launches exclude each other, the keep-set makes
\* what a sweep has in hand deletable; both are needed at once.
Inv == TypeOK /\ LockInv /\ ChromiumUndisturbed /\ DownIdle /\ CollectsGone

\* Nothing runs and nothing is locked at first.
LEMMA InitInv == Init => Inv
  BY InitType, HoldersDiffer
     DEF Init, Inv, LockInv, WorkersHold, ChromiumHolds, HoldersKnown, SweepsHold, Working,
         SweepLocked, ChromiumUndisturbed, DownIdle, CollectsGone, Collecting, Idle

\* Every step keeps the invariant.
LEMMA NextInv == Inv /\ [Next]_vars => Inv'
  <1> SUFFICES ASSUME Inv, [Next]_vars PROVE Inv'
    OBVIOUS
  <1>1. TypeOK'
    BY DriverType, SweepStepType, WorldType
       DEF Inv, Next, vars, driverVars, fsVars, TypeOK
  <1>2. ASSUME NEW d \in Drivers, DriverStep(d) PROVE Inv'
    BY <1>1, <1>2, DriverLocks, DriverUndisturbed, DriverKeeps
       DEF Inv, DownIdle, CollectsGone
  <1>3. ASSUME NEW p \in Pods, SweepStep(p) PROVE Inv'
    BY <1>1, <1>3, SweepLocks, SweepUndisturbed, SweepGone DEF Inv
  <1>4. CASE \/ \E p \in Pods : Crash(p)
             \/ \E c \in Chats : Land(c) \/ Delete(c) \/ Age(c)
    BY <1>1, <1>4, WorldLocks, WorldUndisturbed, WorldGone DEF Inv
  <1>5. CASE UNCHANGED vars
    BY <1>5
       DEF Inv, vars, driverVars, fsVars, TypeOK, LockInv, WorkersHold, ChromiumHolds,
           HoldersKnown, SweepsHold, ChromiumUndisturbed, Orphan, DownIdle, CollectsGone
  <1> QED BY <1>2, <1>3, <1>4, <1>5 DEF Next

\* Locks, directories, links and sweeps keep the types TypeOK gives them in every
\* reachable state.
THEOREM TypeCorrect == Spec => []TypeOK
  BY InitInv, NextInv, PTL DEF Spec, Inv

\* The flock keeps two Chromiums off one profile, in any number of pods, whatever
\* fails, but for one that a failed start() has left running.
THEOREM OneChromiumHolds == Spec => []OneChromium
  <1>1. Inv => OneChromium
    BY Typed, HoldersDiffer DEF Inv, LockInv, ChromiumHolds, OneChromium
  <1> QED BY <1>1, InitInv, NextInv, PTL DEF Spec

\* No sweep, no other driver and no crash of another pod touches the links or the
\* directory of a running Chromium.
THEOREM Undisturbed == Spec => []ChromiumUndisturbed
  BY InitInv, NextInv, PTL DEF Spec, Inv

\* A lock that is held is held for its own profile, by a driver at work, one left over,
\* or a sweep that has the profile at hand: no step leaves a lock with no one.
THEOREM LocksHaveReason == Spec => []LockHasReason
  <1>1. Inv => LockHasReason
    BY Typed, HoldersDiffer
       DEF Inv, LockInv, HoldersKnown, SweepsHold, LockHasReason, Free, Holders, At
  <1> QED BY <1>1, InitInv, NextInv, PTL DEF Spec

\* Only the directories of deleted chats are ever removed, though a sweep reads its
\* keep-set once and removes long after.
THEOREM OnlyDeletedGo == Spec => OnlyOrphansGo
  <1>1. Inv /\ [Next]_vars => [\A c \in Chats : Exists(c) /\ ~Exists(c)' => chat[c] = "deleted"]_vars
    BY DriverKeeps, SweepGone, WorldGone DEF Inv, Next, Exists
  <1> QED BY <1>1, InitInv, NextInv, PTL DEF Spec, OnlyOrphansGo
=============================================================================
