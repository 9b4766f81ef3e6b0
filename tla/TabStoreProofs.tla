--------------------------- MODULE TabStoreProofs ---------------------------
(***************************************************************************)
(* Proofs about TabStore.tla: the types of its variables, and what the     *)
(* saved tabs are worth after a close, a kill or an unfinished restore.    *)
(***************************************************************************)
EXTENDS TabStore, TLAPS

-----------------------------------------------------------------------------
(* The type invariant: a document has an address, and the active tab is one   *)
(* of the list whenever the browser is up.                                    *)

RealDocs == {d \in Docs : d.urls # <<>>}

Stages == {"idle", "called", "open", "written", "done"}
Owners == {"nobody", "writer", "driver"}

JobType == [stage : Stages, doc : RealDocs \cup {None}, inode : Inodes \cup {NoInode},
            owner : Owners, ok : BOOLEAN]

Restoring == pc \in {"marking", "loading", "reporting"}

TypeInv ==
    /\ pc \in Phases /\ saved \in RealDocs \cup {None}
    /\ tabs \in Seq(Tab) /\ active \in 0..Len(tabs)
    /\ want \in RealDocs \cup {None} /\ last \in RealDocs \cup {None} /\ wake \in BOOLEAN
    /\ writer \in {"none", "waiting", "writing"}
    /\ job \in [Threads -> JobType]
    /\ disk \in [Inodes -> RealDocs \cup {Empty, Garbled}]
    /\ fileAt \in Inodes \cup {NoInode} /\ tmpAt \in Inodes \cup {NoInode}
    /\ diedLoading \in BOOLEAN /\ overlapped \in BOOLEAN /\ outlived \in BOOLEAN
    /\ pc # "down" => active # 0
    /\ Restoring => saved \in RealDocs
    /\ \A th \in Threads : job[th].stage # "idle" => job[th].doc \in RealDocs

-----------------------------------------------------------------------------
(* Whose threads are at work, and what they have made of the file.            *)

Idle(th) == job[th].stage = "idle"

JobShape(j) ==
    /\ j.stage = "idle" => j = NoJob
    /\ (j.inode # NoInode) = (j.stage = "open")
    /\ j.stage = "done" => j.owner # "nobody"

\* No two threads work for the same.
Apart(jobs) ==
    \A t, u \in Threads : jobs[t].owner = jobs[u].owner /\ jobs[t].owner # "nobody" => t = u

\* A thread works for the writer, for start() or close(), or for a driver that is gone:
\* then the driver was outlived.
JobsOwned ==
    /\ \A th \in Threads : JobShape(job[th])
    /\ \A th \in Threads : job[th].owner = "writer" => writer = "writing"
    /\ \A th \in Threads : job[th].owner = "driver" => pc \in {"marking", "reporting", "flushing"}
    /\ Apart(job)
    /\ ~outlived => \A th \in Threads : Idle(th) \/ job[th].owner # "nobody"

\* Nothing is written but the mark before the restored tabs are reported.
QuietStart ==
    /\ pc \in {"marking", "loading"} =>
          /\ writer = "waiting" /\ wake = FALSE /\ last = None /\ want = None
          /\ outlived \/ ~overlapped
    /\ pc = "down" => writer = "none" /\ last = None
    /\ tmpAt # NoInode => tmpAt # fileAt

SavedAs(doc) == IF AllBlank(doc) THEN fileAt = NoInode ELSE File = doc

\* How far a thread that is alone has come.
Track(th) ==
    /\ job[th].stage = "open" => tmpAt = job[th].inode /\ disk[tmpAt] = Empty
    /\ job[th].stage = "written" => tmpAt # NoInode /\ disk[tmpAt] = job[th].doc
    /\ job[th].stage \in {"open", "written"} => ~AllBlank(job[th].doc)
    /\ job[th].stage = "done" => SavedAs(job[th].doc) /\ job[th].ok

SoleInv ==
    ~outlived /\ ~overlapped =>
        /\ \A t, u \in Threads : ~Idle(t) /\ ~Idle(u) => t = u
        /\ \A th \in Threads : Track(th)
        /\ last # None /\ (\A th \in Threads : job[th].stage # "done") => SavedAs(last)
        /\ pc = "down" /\ want # None => SavedAs(want)

FlushInv == pc = "flushing" => \A th \in Threads : job[th].owner = "driver" => job[th].doc = want

-----------------------------------------------------------------------------
(* The attempt mark *)

Unmarked(c) == c \in RealDocs => ~c.marked
FileUnmarked == fileAt # NoInode => Unmarked(disk[fileAt])
FileMarked == Readable => File.marked

\* Where the mark is: in the thread that writes it, then in the file; gone with the report.
MarkInv ==
    /\ Unmarked(want)
    /\ pc = "marking" => \A th \in Threads : job[th].owner = "driver" => job[th].doc = Mark(saved)
    /\ ~outlived =>
        /\ pc = "loading" => File = Mark(saved)
        /\ pc \in {"reporting", "up", "quitting", "flushing"} =>
            /\ \A th \in Threads : Unmarked(job[th].doc)
            /\ tmpAt # NoInode /\ (\E th \in Threads : job[th].stage \in {"open", "written"})
                 => Unmarked(disk[tmpAt])
        /\ pc = "reporting" => \A th \in Threads : job[th].owner = "driver" =>
             /\ job[th].stage \in {"open", "written"} => tmpAt # NoInode \/ FileUnmarked
             /\ job[th].stage = "done" => FileUnmarked
        /\ pc \in {"up", "quitting", "flushing"} => FileUnmarked

\* What is left of a driver that was killed while it loaded.
DiedInv ==
    /\ pc \in {"up", "quitting", "flushing"} => ~diedLoading
    /\ diedLoading /\ ~outlived =>
        /\ pc \in {"down", "marking"} => FileMarked
        /\ pc = "marking" => saved.marked
        /\ pc # "loading"

\* An unfinished attempt loads nothing: no tab moves before it is reported.
DegradedInv ==
    /\ pc = "loading" => ~saved.marked
    /\ pc = "reporting" /\ saved.marked =>
         /\ want.urls = saved.urls
         /\ \A i \in DOMAIN tabs : tabs[i].at = Blank /\ tabs[i].load = Blank

-----------------------------------------------------------------------------
(* Documents and tab lists *)

LEMMA DocTypes ==
    \A d \in RealDocs : /\ d \notin {None, Empty, Garbled}
                        /\ d = [urls |-> d.urls, active |-> d.active, marked |-> d.marked]
                        /\ d.urls \in Seq(Addresses) /\ d.urls # <<>>
                        /\ d.active \in Nat /\ d.marked \in BOOLEAN
  BY ContentAssumption DEF RealDocs, Docs

LEMMA SnapshotType ==
    ASSUME NEW list \in Seq(Tab), list # <<>>, NEW i \in Nat
    PROVE  /\ Snapshot(list, i) \in RealDocs /\ ~Snapshot(list, i).marked
           /\ Snapshot(list, i).urls = [k \in DOMAIN list |-> TabUrl(list[k])]
  <1> DEFINE urls == [k \in DOMAIN list |-> TabUrl(list[k])]
  <1>1. ASSUME NEW k \in DOMAIN list PROVE TabUrl(list[k]) \in Addresses
    <2>1. list[k] \in Tab
      OBVIOUS
    <2> QED BY <2>1 DEF Tab, TabUrl
  <1>2. DOMAIN list = 1..Len(list) /\ Len(list) \in Nat
    OBVIOUS
  <1>3. urls \in Seq(Addresses) /\ Len(urls) = Len(list)
    BY <1>1, <1>2
  <1>4. urls # <<>>
    BY <1>3
  <1>5. Snapshot(list, i) = [urls |-> urls, active |-> i, marked |-> FALSE]
    BY DEF Snapshot, Doc
  <1> HIDE DEF urls
  <1>6. Snapshot(list, i).urls = urls /\ ~Snapshot(list, i).marked
    BY <1>5
  <1>7. Snapshot(list, i) \in Docs
    BY <1>3, <1>5 DEF Docs
  <1> QED BY <1>4, <1>6, <1>7 DEF RealDocs, urls

LEMMA MarkType ==
    ASSUME NEW d \in RealDocs
    PROVE  Mark(d) \in RealDocs /\ Mark(d).urls = d.urls /\ Mark(d).marked
  <1>1. d \in Docs /\ d.urls # <<>>
    BY DEF RealDocs
  <1>2. Mark(d) \in Docs /\ Mark(d).urls = d.urls /\ Mark(d).marked
    BY <1>1 DEF Mark, Docs
  <1> QED BY <1>1, <1>2 DEF RealDocs

LEMMA CappedType ==
    ASSUME NEW d \in RealDocs
    PROVE  Capped(d) \in RealDocs /\ Capped(d).marked = d.marked
  <1> DEFINE n == IF Len(d.urls) < MaxRestoreTabs THEN Len(d.urls) ELSE MaxRestoreTabs
             urls == SubSeq(d.urls, 1, n)
  <1>1. d.urls \in Seq(Addresses) /\ d.urls # <<>>
    BY DocTypes
  <1>2. n \in 1..Len(d.urls)
    BY <1>1, PoolAssumption
  <1>3. urls \in Seq(Addresses) /\ Len(urls) = n
    BY <1>1, <1>2
  <1>4. urls # <<>>
    BY <1>2, <1>3
  <1>5. Capped(d) = [d EXCEPT !.urls = urls] /\ d \in Docs
    BY DEF Capped, RealDocs
  <1> HIDE DEF urls, n
  <1>6. Capped(d) \in Docs /\ Capped(d).urls = urls /\ Capped(d).marked = d.marked
    BY <1>3, <1>5 DEF Docs
  <1> QED BY <1>4, <1>6 DEF RealDocs

LEMMA FreshType == Fresh \in Tab
  BY DEF Fresh, Tab, Addresses

\* A tab of the list may change; the list is as long as before.
LEMMA HydrateType ==
    ASSUME NEW list \in Seq(Tab), NEW i \in DOMAIN list
    PROVE  Hydrate(list, i) \in Seq(Tab) /\ Len(Hydrate(list, i)) = Len(list)
  <1>0. list[i] \in Tab
    OBVIOUS
  <1>1. list[i].parked \in Addresses
    BY <1>0 DEF Tab
  <1>2. [list[i] EXCEPT !.parked = Blank, !.load = list[i].parked] \in Tab
    BY <1>0, <1>1 DEF Tab, Addresses
  <1>3. [list EXCEPT ![i].parked = Blank, ![i].load = list[i].parked]
          = [list EXCEPT ![i] = [list[i] EXCEPT !.parked = Blank, !.load = list[i].parked]]
    OBVIOUS
  <1> QED BY <1>2, <1>3 DEF Hydrate

LEMMA RemoveAtType ==
    ASSUME NEW list \in Seq(Tab), NEW i \in DOMAIN list
    PROVE  RemoveAt(list, i) \in Seq(Tab) /\ Len(RemoveAt(list, i)) = Len(list) - 1
  <1>1. i \in 1..Len(list)
    OBVIOUS
  <1> DEFINE front == SubSeq(list, 1, i - 1)
             back == SubSeq(list, i + 1, Len(list))
  <1>2. /\ front \in Seq(Tab) /\ Len(front) = i - 1
        /\ back \in Seq(Tab) /\ Len(back) = Len(list) - i
    BY <1>1
  <1>3. RemoveAt(list, i) = front \o back
    BY DEF RemoveAt
  <1> HIDE DEF front, back
  <1> QED BY <1>1, <1>2, <1>3
-----------------------------------------------------------------------------
(* Type correctness *)

NewJob(owner, doc) == [NoJob EXCEPT !.stage = "called", !.doc = doc, !.owner = owner]

LEMMA NewJobType ==
    ASSUME NEW owner \in Owners, NEW doc \in RealDocs
    PROVE  /\ NoJob \in JobType /\ NewJob(owner, doc) \in JobType
           /\ NewJob(owner, doc).stage = "called" /\ NewJob(owner, doc).doc = doc
           /\ NewJob(owner, doc).inode = NoInode /\ NewJob(owner, doc).owner = owner
  <1>1. NoJob \in JobType /\ NoJob.inode = NoInode
    BY DEF NoJob, JobType, Stages, Owners
  <1> QED BY <1>1 DEF NewJob, JobType, Stages

\* A thread that was idle begins; only if all were is there no overlap.
LEMMA SpawnJob ==
    ASSUME NEW jobs \in [Threads -> JobType], NEW owner \in Owners, NEW doc \in RealDocs,
           NEW before \in BOOLEAN, Spawn(jobs, owner, doc, before)
    PROVE  /\ \E th \in Threads : /\ jobs[th].stage = "idle"
                                  /\ job' = [jobs EXCEPT ![th] = NewJob(owner, doc)]
           /\ job' \in [Threads -> JobType]
           /\ overlapped' \in BOOLEAN
           /\ ~overlapped' <=> ~before /\ \A th \in Threads : jobs[th].stage = "idle"
  <1>2. NewJob(owner, doc) \in JobType
    BY NewJobType
  <1>3. PICK th \in Threads : /\ jobs[th].stage = "idle"
                              /\ job' = [jobs EXCEPT ![th] = NewJob(owner, doc)]
    BY DEF Spawn, NewJob
  <1>4. overlapped' = (before \/ {t \in Threads : jobs[t].stage = "idle"} # Threads)
    BY DEF Spawn
  <1>5. overlapped' \in BOOLEAN
    BY <1>4
  <1>6. ~overlapped' <=> ~before /\ \A t \in Threads : jobs[t].stage = "idle"
    BY <1>4
  <1> QED BY <1>2, <1>3, <1>5, <1>6

\* The parts of the type invariant that a step may leave alone.
TabsType ==
    /\ tabs \in Seq(Tab) /\ active \in 0..Len(tabs)
    /\ pc # "down" => active # 0
SnapsType == want \in RealDocs \cup {None} /\ last \in RealDocs \cup {None} /\ wake \in BOOLEAN
JobsType ==
    /\ job \in [Threads -> JobType]
    /\ \A th \in Threads : job[th].stage # "idle" => job[th].doc \in RealDocs
FilesType ==
    /\ disk \in [Inodes -> RealDocs \cup {Empty, Garbled}]
    /\ fileAt \in Inodes \cup {NoInode} /\ tmpAt \in Inodes \cup {NoInode}
DriverType ==
    /\ pc \in Phases /\ saved \in RealDocs \cup {None}
    /\ Restoring => saved \in RealDocs
    /\ writer \in {"none", "waiting", "writing"}
GhostsType == diedLoading \in BOOLEAN /\ overlapped \in BOOLEAN /\ outlived \in BOOLEAN

LEMMA TypeParts ==
    /\ TypeInv <=> /\ TabsType /\ SnapsType /\ JobsType
                   /\ FilesType /\ DriverType /\ GhostsType
    /\ TypeInv' <=> /\ TabsType' /\ SnapsType' /\ JobsType'
                    /\ FilesType' /\ DriverType' /\ GhostsType'
  BY DEF TypeInv, TabsType, SnapsType, JobsType, FilesType, DriverType, GhostsType

LEMMA PersistType ==
    ASSUME TypeInv, NEW list \in Seq(Tab), NEW i \in 1..Len(list), Persist(list, i)
    PROVE  /\ want' \in RealDocs \cup {None} /\ wake' \in BOOLEAN
           /\ pc = "loading" => want' = want /\ wake' = wake
           /\ want' = want \/ want' = Snapshot(list, i)
  <1>1. list # <<>> /\ i \in Nat
    OBVIOUS
  <1>2. Snapshot(list, i) \in RealDocs
    BY <1>1, SnapshotType
  <1>3. wake' \in BOOLEAN
    <2>1. CASE Replaying
      BY <2>1 DEF Persist, snapVars, TypeInv
    <2>2. CASE ~Replaying
      <3>1. wake' = (writer # "none")
        BY <2>2 DEF Persist
      <3> QED BY <3>1
    <2> QED BY <2>1, <2>2
  <1> QED BY <1>2, <1>3 DEF Persist, Replaying, snapVars, TypeInv

\* What a step on the tabs leaves alone, and what it makes of the snapshot.
TabsOnly ==
    /\ UNCHANGED <<pc, saved, writeVars, job, fsVars, ghosts>>
    /\ BrowserUp
    /\ want' = want \/ \E list \in Seq(Tab), i \in Nat : list # <<>> /\ want' = Snapshot(list, i)
    /\ pc = "loading" => want' = want /\ wake' = wake

LEMMA OperateType ==
    ASSUME TypeInv, NEW list \in Seq(Tab), NEW i \in 1..Len(list), Operate(list, i)
    PROVE  TabsType' /\ SnapsType' /\ TabsOnly
  <1>1. /\ Hydrate(list, i) \in Seq(Tab) /\ Len(Hydrate(list, i)) = Len(list)
        /\ tabs' = Hydrate(list, i) /\ active' = i
    BY HydrateType DEF Operate
  <1>2. TabsType'
    BY <1>1 DEF TabsType
  <1>3. /\ want' \in RealDocs \cup {None} /\ wake' \in BOOLEAN
        /\ want' = want \/ want' = Snapshot(list, i)
    BY PersistType DEF Operate, snapVars, TypeInv
  <1>4. UNCHANGED <<pc, saved, writeVars, job, fsVars, ghosts>> /\ InUse
    BY DEF Operate
  <1>5. last' \in RealDocs \cup {None}
    BY <1>4 DEF writeVars, TypeInv
  <1>6. list # <<>> /\ i \in Nat
    OBVIOUS
  <1> QED BY <1>2, <1>3, <1>4, <1>5, <1>6 DEF SnapsType, TabsOnly, BrowserUp, InUse

LEMMA TabStepType == ASSUME TypeInv, TabStep PROVE TypeInv' /\ TabsOnly
  <1>0. /\ tabs \in Seq(Tab) /\ active \in 0..Len(tabs) /\ (pc # "down" => active # 0)
        /\ Fresh \in Tab /\ DOMAIN tabs = 1..Len(tabs) /\ last \in RealDocs \cup {None}
        /\ SnapsType
    BY FreshType DEF TypeInv, SnapsType
  <1>a. ASSUME TabsType', SnapsType', TabsOnly PROVE TypeInv' /\ TabsOnly
    <2>1. JobsType' /\ FilesType' /\ DriverType' /\ GhostsType'
      BY <1>a DEF TabsOnly, writeVars, fsVars, ghosts, TypeInv, JobsType, FilesType,
                  DriverType, GhostsType, Restoring
    <2> QED BY <1>a, <2>1, TypeParts
  \* The list changes, keeping an active tab, and perhaps a snapshot is taken.
  <1>b. ASSUME NEW list \in Seq(Tab), NEW i \in 1..Len(list), tabs' = list, active' = i, BrowserUp,
               Persist(list, i) \/ UNCHANGED snapVars,
               UNCHANGED <<pc, saved, writeVars, job, fsVars, ghosts>>
        PROVE  TypeInv' /\ TabsOnly
    <2>1. TabsType'
      BY <1>b DEF TabsType
    <2>2. /\ want' \in RealDocs \cup {None} /\ wake' \in BOOLEAN
          /\ pc = "loading" => want' = want /\ wake' = wake
          /\ want' = want \/ want' = Snapshot(list, i)
      BY <1>b, PersistType DEF snapVars, TypeInv
    <2>3. list # <<>> /\ i \in Nat
      OBVIOUS
    <2>4. last' = last
      BY <1>b DEF writeVars
    <2>5. SnapsType'
      BY <1>0, <2>2, <2>4 DEF SnapsType
    <2>6. TabsOnly
      BY <1>b, <2>2, <2>3 DEF TabsOnly
    <2> QED BY <1>a, <2>1, <2>5, <2>6
  <1>1. CASE NewTab
    <2>1. Append(tabs, Fresh) \in Seq(Tab) /\ Len(tabs) + 1 \in 1..Len(Append(tabs, Fresh))
      BY <1>0
    <2> QED BY <1>1, <1>a, <2>1, OperateType DEF NewTab
  <1>2. ASSUME NEW i \in DOMAIN tabs, SwitchTab(i) PROVE TypeInv' /\ TabsOnly
    BY <1>0, <1>2, <1>a, OperateType DEF SwitchTab
  <1>3. ASSUME NEW i \in DOMAIN tabs, CloseTab(i) PROVE TypeInv' /\ TabsOnly
    <2> DEFINE rest == RemoveAt(tabs, i)
    <2>1. rest \in Seq(Tab) /\ Len(rest) = Len(tabs) - 1
      BY <1>0, <1>3, RemoveAtType
    <2>2. CASE rest = <<>> /\ Operate(<<Fresh>>, 1)
      <3>1. <<Fresh>> \in Seq(Tab) /\ 1 \in 1..Len(<<Fresh>>)
        BY <1>0
      <3> QED BY <1>a, <2>2, <3>1, OperateType
    <2>3. CASE rest # <<>> /\ Operate(rest, 1)
      <3> HIDE DEF rest
      <3>1. 1 \in 1..Len(rest)
        BY <2>1, <2>3
      <3> QED BY <1>a, <2>1, <2>3, <3>1, OperateType
    <2>4. CASE /\ InUse /\ i # active
               /\ tabs' = rest
               /\ active' = IndexWithout(i)
               /\ Persist(rest, active')
               /\ UNCHANGED <<pc, saved, writeVars, job, fsVars, ghosts>>
      <3>1. IndexWithout(i) \in 1..Len(rest)
        BY <1>0, <1>3, <2>1, <2>4 DEF InUse, IndexWithout
      <3>2. tabs' = rest /\ active' = IndexWithout(i) /\ Persist(rest, IndexWithout(i))
        BY <2>4
      <3>3. BrowserUp
        BY <2>4 DEF BrowserUp, InUse
      <3> HIDE DEF rest
      <3> QED BY <1>b, <2>1, <2>4, <3>1, <3>2, <3>3
    <2> QED BY <1>3, <2>2, <2>3, <2>4 DEF CloseTab
  <1>4. CASE SiteOpens
    <2>1. PICK u \in Urls : tabs' = Append(tabs, [Fresh EXCEPT !.at = u])
      BY <1>4 DEF SiteOpens
    <2>2. [Fresh EXCEPT !.at = u] \in Tab
      BY DEF Fresh, Tab, Addresses
    <2>3. tabs' \in Seq(Tab) /\ active' = active /\ active \in 1..Len(tabs')
      BY <1>0, <1>4, <2>1, <2>2 DEF SiteOpens, BrowserUp, InUse
    <2> QED BY <1>4, <1>b, <2>3 DEF SiteOpens
  <1>5. CASE Open
    <2>1. active \in DOMAIN tabs
      BY <1>0, <1>5 DEF InUse, Open
    <2>2. [tabs[active] EXCEPT !.parked = Blank] \in Tab
      <3>1. tabs[active] \in Tab
        BY <1>0, <2>1
      <3> QED BY <3>1 DEF Tab, Addresses
    <2>3. tabs' = [tabs EXCEPT ![active] = [tabs[active] EXCEPT !.parked = Blank]]
      BY <1>5, <2>1 DEF Open
    <2>4. tabs' \in Seq(Tab) /\ active' = active /\ active \in 1..Len(tabs')
      BY <1>0, <1>5, <2>1, <2>2, <2>3 DEF Open
    <2> QED BY <1>5, <1>b, <2>4 DEF Open, BrowserUp, InUse
  <1>6. ASSUME NEW i \in DOMAIN tabs, NEW tab \in Tab, tabs' = [tabs EXCEPT ![i] = tab],
               Persist(tabs', active), BrowserUp,
               UNCHANGED <<pc, saved, active, writeVars, job, fsVars, ghosts>>
        PROVE  TypeInv' /\ TabsOnly
    <2> DEFINE list == [tabs EXCEPT ![i] = tab]
    <2>1. list \in Seq(Tab) /\ active \in 1..Len(list)
      BY <1>0, <1>6 DEF BrowserUp, InUse
    <2>2. tabs' = list /\ Persist(list, active) /\ active' = active
      BY <1>6
    <2> HIDE DEF list
    <2> QED BY <1>6, <1>b, <2>1, <2>2
  <1>7. ASSUME NEW i \in DOMAIN tabs, Navigated(i) PROVE TypeInv' /\ TabsOnly
    <2>1. PICK u \in Urls : /\ tabs' = [tabs EXCEPT ![i].at = u, ![i].load = Blank]
                            /\ Persist(tabs', active)
      BY <1>7 DEF Navigated
    <2>2. tabs[i] \in Tab
      BY <1>0, <1>7
    <2>3. [tabs[i] EXCEPT !.at = u, !.load = Blank] \in Tab
      BY <2>2 DEF Tab, Addresses
    <2>4. tabs' = [tabs EXCEPT ![i] = [tabs[i] EXCEPT !.at = u, !.load = Blank]]
      BY <1>7, <2>1
    <2> QED BY <1>6, <1>7, <2>1, <2>3, <2>4 DEF Navigated
  <1>8. ASSUME NEW i \in DOMAIN tabs, LoadFails(i) PROVE TypeInv' /\ TabsOnly
    <2>1. /\ tabs' = [tabs EXCEPT ![i].load = Blank]
          /\ Persist(tabs', active)
      BY <1>8 DEF LoadFails
    <2>2. tabs[i] \in Tab
      BY <1>0, <1>8
    <2>3. [tabs[i] EXCEPT !.load = Blank] \in Tab
      BY <2>2 DEF Tab, Addresses
    <2>4. tabs' = [tabs EXCEPT ![i] = [tabs[i] EXCEPT !.load = Blank]]
      BY <1>8, <2>1
    <2> QED BY <1>6, <1>8, <2>1, <2>3, <2>4 DEF LoadFails
  <1> QED BY <1>1, <1>2, <1>3, <1>4, <1>5, <1>7, <1>8 DEF TabStep

LEMMA LinkedType ==
    ASSUME NEW content \in [Inodes -> RealDocs \cup {Empty, Garbled}], NEW names, NEW jobs
    PROVE  /\ Linked(content, names, jobs) \in [Inodes -> RealDocs \cup {Empty, Garbled}]
           /\ \A i \in names \cap Inodes : Linked(content, names, jobs)[i] = content[i]
           /\ \A i \in Inodes : Linked(content, names, jobs)[i] \in {content[i], Empty}
  BY DEF Linked

LEMMA EndedJob ==
    ASSUME TypeInv, NEW th \in Threads, NEW ok \in BOOLEAN
    PROVE  /\ Ended(th, ok) \in JobType
           /\ job[th].owner = "nobody" => Ended(th, ok) = NoJob
           /\ job[th].owner # "nobody" => /\ Ended(th, ok).stage = "done"
                                          /\ Ended(th, ok).doc = job[th].doc
                                          /\ Ended(th, ok).owner = job[th].owner
                                          /\ Ended(th, ok).inode = job[th].inode
                                          /\ Ended(th, ok).ok = ok
  <1>1. job[th] \in JobType /\ NoJob \in JobType
    BY NewJobType, ContentAssumption DEF TypeInv, NoJob, JobType, Stages, Owners
  <1> QED BY <1>1 DEF Ended, JobType, Stages

\* What a step of a thread makes of the file.
ThreadOnly == UNCHANGED <<pc, saved, tabVars, snapVars, writeVars, ghosts>>

LEMMA ThreadStepType ==
    ASSUME TypeInv, NEW th \in Threads, ThreadStep(th)
    PROVE  TypeInv' /\ ThreadOnly
  <1>0. /\ job \in [Threads -> JobType] /\ job[th] \in JobType
        /\ disk \in [Inodes -> RealDocs \cup {Empty, Garbled}]
        /\ fileAt \in Inodes \cup {NoInode} /\ tmpAt \in Inodes \cup {NoInode}
        /\ \A t \in Threads : job[t].stage # "idle" => job[t].doc \in RealDocs
        /\ NoJob.stage = "idle"
    BY DEF TypeInv, NoJob
  <1>1. ThreadOnly
    BY DEF ThreadStep, RemoveFile, OpenTmp, WriteTmp, ReplaceFile, ThreadOnly
  <1>2. ASSUME JobsType', FilesType' PROVE TypeInv' /\ ThreadOnly
    <2>1. TabsType' /\ SnapsType' /\ DriverType' /\ GhostsType'
      BY <1>1 DEF ThreadOnly, tabVars, snapVars, writeVars, ghosts, TypeInv, TabsType, SnapsType,
                  DriverType, GhostsType, Restoring
    <2> QED BY <1>1, <1>2, <2>1, TypeParts
  <1>3. ASSUME NEW ok \in BOOLEAN, job[th].stage # "idle", job' = [job EXCEPT ![th] = Ended(th, ok)]
        PROVE  JobsType'
    <2>1. /\ Ended(th, ok) \in JobType
          /\ Ended(th, ok).stage # "idle" => Ended(th, ok).doc \in RealDocs
      BY <1>0, <1>3, EndedJob
    <2> QED BY <1>0, <1>3, <2>1 DEF JobsType
  <1>4. CASE RemoveFile(th)
    <2>1. JobsType'
      <3>1. job' = [job EXCEPT ![th] = Ended(th, TRUE)] /\ job[th].stage # "idle"
        BY <1>4 DEF RemoveFile
      <3> QED BY <1>3, <3>1
    <2>2. FilesType'
      BY <1>0, <1>4, LinkedType DEF RemoveFile, FilesType
    <2> QED BY <1>2, <2>1, <2>2
  <1>5. CASE OpenTmp(th)
    <2>1. PICK i \in Inodes : /\ tmpAt' = i
                              /\ disk' = [disk EXCEPT ![i] = Empty]
                              /\ job' = [job EXCEPT ![th].stage = "open", ![th].inode = i]
      <3>1. (IF tmpAt = NoInode THEN FreeInodes ELSE {tmpAt}) \subseteq Inodes
        BY <1>0 DEF FreeInodes
      <3> QED BY <1>5, <3>1 DEF OpenTmp
    <2>2. /\ job' = [job EXCEPT ![th] = [job[th] EXCEPT !.stage = "open", !.inode = i]]
          /\ [job[th] EXCEPT !.stage = "open", !.inode = i] \in JobType
          /\ job[th].stage = "called"
      BY <1>0, <1>5, <2>1 DEF JobType, Stages, OpenTmp
    <2>3. JobsType'
      BY <1>0, <2>2 DEF JobsType, JobType
    <2>4. FilesType'
      BY <1>0, <1>5, <2>1 DEF OpenTmp, FilesType
    <2> QED BY <1>2, <2>3, <2>4
  <1>6. CASE WriteTmp(th)
    <2>1. /\ job' = [job EXCEPT ![th] = [job[th] EXCEPT !.stage = "written", !.inode = NoInode]]
          /\ [job[th] EXCEPT !.stage = "written", !.inode = NoInode] \in JobType
          /\ job[th].stage = "open" /\ job[th].doc \in RealDocs
      BY <1>0, <1>6 DEF JobType, Stages, WriteTmp
    <2>2. JobsType'
      BY <1>0, <2>1 DEF JobsType, JobType
    <2>3. PICK c \in {job[th].doc, Garbled} :
             disk' = Linked([disk EXCEPT ![job[th].inode] = c], {fileAt, tmpAt}, job')
      BY <1>6 DEF WriteTmp, Overwritten
    <2>4. [disk EXCEPT ![job[th].inode] = c] \in [Inodes -> RealDocs \cup {Empty, Garbled}]
      BY <1>0, <2>1
    <2>5. FilesType'
      BY <1>0, <1>6, <2>3, <2>4, LinkedType DEF WriteTmp, FilesType
    <2> QED BY <1>2, <2>2, <2>5
  <1>7. CASE ReplaceFile(th)
    <2>1. JobsType'
      <3> DEFINE ok == tmpAt # NoInode
      <3>1. job' = [job EXCEPT ![th] = Ended(th, ok)] /\ job[th].stage # "idle"
        BY <1>7 DEF ReplaceFile
      <3>2. ok \in BOOLEAN
        OBVIOUS
      <3> HIDE DEF ok
      <3> QED BY <1>3, <3>1, <3>2
    <2>2. FilesType'
      BY <1>0, <1>7, LinkedType DEF ReplaceFile, FilesType
    <2> QED BY <1>2, <2>1, <2>2
  <1> QED BY <1>4, <1>5, <1>6, <1>7 DEF ThreadStep

LEMMA WriterStepType == ASSUME TypeInv, WriterStep PROVE TypeInv'
  <1>0. /\ job \in [Threads -> JobType]
        /\ \A t \in Threads : job[t].stage # "idle" => job[t].doc \in RealDocs
        /\ want \in RealDocs \cup {None} /\ last \in RealDocs \cup {None}
        /\ NoJob.stage = "idle" /\ NoJob \in JobType /\ overlapped \in BOOLEAN
    BY NewJobType DEF TypeInv, NoJob, JobType, Stages, Owners
  <1>1. CASE WriterWakes
    <2>1. /\ UNCHANGED <<pc, saved, tabVars, want, last, fsVars, diedLoading, outlived>>
          /\ wake' = FALSE /\ writer' \in {"waiting", "writing"}
      BY <1>1 DEF WriterWakes
    <2>2. CASE want # None /\ Spawn(job, "writer", want, overlapped)
      <3>1. /\ want \in RealDocs /\ "writer" \in Owners
        BY <1>0, <2>2 DEF Owners
      <3>2. PICK th \in Threads : job' = [job EXCEPT ![th] = NewJob("writer", want)]
        BY <1>0, <2>2, <3>1, SpawnJob
      <3>3. JobsType' /\ overlapped' \in BOOLEAN
        BY <1>0, <2>2, <3>1, <3>2, SpawnJob, NewJobType DEF JobsType
      <3>4. TabsType' /\ SnapsType' /\ FilesType' /\ DriverType' /\ GhostsType'
        BY <2>1, <3>3 DEF tabVars, fsVars, TypeInv, TabsType, SnapsType, FilesType,
                    DriverType, GhostsType, Restoring
      <3> QED BY <3>3, <3>4, TypeParts
    <2>3. CASE UNCHANGED <<writer, job, overlapped>>
      <3>1. TabsType' /\ SnapsType' /\ FilesType' /\ DriverType' /\ GhostsType' /\ JobsType'
        BY <2>1, <2>3 DEF tabVars, fsVars, TypeInv, TabsType, SnapsType, FilesType, JobsType,
                    DriverType, GhostsType, Restoring
      <3> QED BY <3>1, TypeParts
    <2> QED BY <1>1, <2>2, <2>3 DEF WriterWakes, Pending
  <1>2. ASSUME NEW th \in Threads, WriterReturns(th) PROVE TypeInv'
    <2>1. last' \in RealDocs \cup {None} /\ writer' = "waiting" /\ job' = [job EXCEPT ![th] = NoJob]
      BY <1>0, <1>2 DEF WriterReturns, Returned, Record
    <2>2. JobsType'
      BY <1>0, <2>1 DEF JobsType
    <2>3. TabsType' /\ SnapsType' /\ FilesType' /\ DriverType' /\ GhostsType'
      BY <1>2, <2>1 DEF WriterReturns, tabVars, snapVars, fsVars, ghosts, TypeInv, TabsType, SnapsType,
                  FilesType, DriverType, GhostsType, Restoring
    <2> QED BY <2>2, <2>3, TypeParts
  <1> QED BY <1>1, <1>2 DEF WriterStep

AreJobs(jobs) == /\ jobs \in [Threads -> JobType]
                 /\ \A th \in Threads : jobs[th].stage # "idle" => jobs[th].doc \in RealDocs

LEMMA WithoutJob ==
    ASSUME TypeInv, NEW th \in Threads PROVE AreJobs([job EXCEPT ![th] = NoJob])
  <1>1. NoJob \in JobType /\ NoJob.stage = "idle"
    BY NewJobType DEF NoJob, JobType, Stages, Owners
  <1> QED BY <1>1 DEF TypeInv, AreJobs

LEMMA SpawnType ==
    ASSUME NEW jobs, AreJobs(jobs), NEW owner \in Owners, NEW doc \in RealDocs,
           NEW before \in BOOLEAN, Spawn(jobs, owner, doc, before)
    PROVE  JobsType' /\ overlapped' \in BOOLEAN
  <1>1. jobs \in [Threads -> JobType]
    BY DEF AreJobs
  <1>2. PICK th \in Threads : job' = [jobs EXCEPT ![th] = NewJob(owner, doc)]
    BY <1>1, SpawnJob
  <1>3. overlapped' \in BOOLEAN
    BY <1>1, SpawnJob
  <1> QED BY <1>1, <1>2, <1>3, NewJobType DEF AreJobs, JobsType

\* The tab set of a restore: as many tabs, their addresses parked.
Parked(urls) == [k \in DOMAIN urls |-> [Fresh EXCEPT !.parked = urls[k]]]

LEMMA ParkedType ==
    ASSUME NEW urls \in Seq(Addresses), urls # <<>>
    PROVE  Parked(urls) \in Seq(Tab) /\ Len(Parked(urls)) = Len(urls) /\ Parked(urls) # <<>>
  <1>1. ASSUME NEW k \in DOMAIN urls PROVE [Fresh EXCEPT !.parked = urls[k]] \in Tab
    <2>1. urls[k] \in Addresses
      OBVIOUS
    <2> QED BY <2>1 DEF Fresh, Tab, Addresses
  <1>2. DOMAIN urls = 1..Len(urls) /\ Len(urls) \in Nat \ {0}
    OBVIOUS
  <1>3. Parked(urls) \in Seq(Tab) /\ Len(Parked(urls)) = Len(urls)
    BY <1>1, <1>2 DEF Parked
  <1> QED BY <1>2, <1>3

LEMMA ReportType ==
    ASSUME TypeInv, NEW list \in Seq(Tab), list # <<>>, NEW i \in Nat, NEW jobs, AreJobs(jobs),
           Report(list, i, jobs)
    PROVE  /\ want' = Snapshot(list, i) /\ want' \in RealDocs /\ wake' \in BOOLEAN
           /\ pc' \in {"up", "reporting"}
           /\ JobsType' /\ overlapped' \in BOOLEAN
  <1>1. Snapshot(list, i) \in RealDocs
    BY SnapshotType
  <1>2. want' = Snapshot(list, i) /\ wake' = TRUE /\ pc' \in {"up", "reporting"}
    BY DEF Report
  <1>3. JobsType' /\ overlapped' \in BOOLEAN
    <2>1. CASE job' = jobs /\ UNCHANGED overlapped
      BY <2>1 DEF AreJobs, JobsType, TypeInv
    <2>2. CASE Spawn(jobs, "driver", Snapshot(list, i), overlapped)
      <3>1. "driver" \in Owners /\ overlapped \in BOOLEAN
        BY DEF Owners, TypeInv
      <3> QED BY <1>1, <2>2, <3>1, SpawnType
    <2> QED BY <2>1, <2>2 DEF Report
  <1>4. wake' \in BOOLEAN
    BY <1>2
  <1> QED BY <1>1, <1>2, <1>3, <1>4

\* Everything the driver holds is gone with it.
LEMMA GoneType ==
    ASSUME Gone PROVE TabsType' /\ DriverType' /\ (want' \in RealDocs \cup {None} => SnapsType')
  <1>1. <<>> \in Seq(Tab) /\ Len(<<>>) = 0
    OBVIOUS
  <1>2. TabsType'
    BY <1>1 DEF Gone, TabsType
  <1>3. DriverType'
    BY DEF Gone, DriverType, Phases, Restoring
  <1>4. want' \in RealDocs \cup {None} => SnapsType'
    BY DEF Gone, SnapsType
  <1> QED BY <1>2, <1>3, <1>4

LEMMA StopType ==
    ASSUME TypeInv, NEW jobs, AreJobs(jobs), StopWriter(jobs), UNCHANGED <<want, fsVars, diedLoading>>
    PROVE  TypeInv'
  <1>1. TabsType' /\ DriverType' /\ SnapsType'
    BY GoneType DEF StopWriter, TypeInv
  <1>2. JobsType'
    <2>1. ASSUME NEW th \in Threads
          PROVE  job'[th] \in JobType /\ (job'[th].stage # "idle" => job'[th].doc \in RealDocs)
      <3>1. job'[th] = IF jobs[th].stage = "done" THEN NoJob ELSE [jobs[th] EXCEPT !.owner = "nobody"]
        BY DEF StopWriter
      <3>2. NoJob \in JobType /\ NoJob.stage = "idle"
        BY NewJobType DEF NoJob, JobType, Stages, Owners
      <3>3. jobs[th] \in JobType /\ (jobs[th].stage # "idle" => jobs[th].doc \in RealDocs)
        BY DEF AreJobs
      <3> QED BY <3>1, <3>2, <3>3 DEF JobType, Owners
    <2>2. job' = [th \in Threads |-> job'[th]]
      BY DEF StopWriter
    <2> QED BY <2>1, <2>2 DEF JobsType
  <1>3. GhostsType'
    <2>1. outlived' = (outlived \/ writer = "writing") /\ overlapped' = overlapped
      BY DEF StopWriter
    <2>2. outlived' \in BOOLEAN
      BY <2>1
    <2> QED BY <2>1, <2>2 DEF TypeInv, GhostsType
  <1>4. FilesType'
    BY DEF TypeInv, FilesType, fsVars
  <1> QED BY <1>1, <1>2, <1>3, <1>4, TypeParts

LEMMA StartType == ASSUME TypeInv, Start PROVE TypeInv'
  <1>1. TabsType'
    <2>1. <<Fresh>> \in Seq(Tab) /\ Len(<<Fresh>>) = 1
      BY FreshType
    <2> QED BY <2>1 DEF Start, TabsType
  <1>2. SnapsType'
    BY DEF Start, SnapsType
  <1>3. FilesType'
    BY DEF Start, FilesType, fsVars, TypeInv
  <1>4. outlived' \in BOOLEAN
    <2>1. outlived' = (outlived /\ (Busy # {} \/ diedLoading))
      BY DEF Start
    <2> QED BY <2>1
  <1>5. CASE Readable
    <2> DEFINE doc == Mark(Capped(File))
    <2>1. File \in RealDocs
      BY <1>5 DEF Readable, File, TypeInv
    <2>2. Capped(File) \in RealDocs /\ doc \in RealDocs /\ "driver" \in Owners
      BY <2>1, CappedType, MarkType DEF Owners
    <2>3. /\ saved' = Capped(File) /\ pc' = "marking" /\ Spawn(job, "driver", doc, FALSE)
          /\ writer' = "waiting" /\ diedLoading' = diedLoading
      BY <1>5 DEF Start
    <2>4. AreJobs(job)
      BY DEF TypeInv, AreJobs
    <2> HIDE DEF doc
    <2>5. JobsType' /\ overlapped' \in BOOLEAN
      BY <2>2, <2>3, <2>4, SpawnType
    <2>6. DriverType'
      BY <2>2, <2>3 DEF DriverType, Phases
    <2>7. GhostsType'
      BY <1>4, <2>3, <2>5 DEF GhostsType, TypeInv
    <2> QED BY <1>1, <1>2, <1>3, <2>5, <2>6, <2>7, TypeParts
  <1>6. CASE ~Readable
    <2>1. /\ pc' = "up" /\ diedLoading' = FALSE /\ overlapped' = FALSE /\ saved' = saved /\ job' = job
          /\ writer' = "waiting"
      BY <1>6 DEF Start
    <2>2. JobsType' /\ DriverType'
      BY <2>1 DEF TypeInv, JobsType, DriverType, Restoring, Phases
    <2>3. GhostsType'
      BY <1>4, <2>1 DEF GhostsType
    <2> QED BY <1>1, <1>2, <1>3, <2>2, <2>3, TypeParts
  <1> QED BY <1>5, <1>6

\* close() lets everything go on but its own start.
LEMMA CloseOnly ==
    ASSUME Close
    PROVE  /\ pc = "up" /\ pc' = "quitting"
           /\ UNCHANGED <<saved, tabs, active, want, wake, last, writer, job, fsVars,
                          diedLoading, overlapped, outlived>>
  BY DEF Close, tabVars, snapVars, writeVars, ghosts

LEMMA DriverStepType == ASSUME TypeInv, DriverStep PROVE TypeInv'
  <1>0. /\ AreJobs(job) /\ "driver" \in Owners /\ overlapped \in BOOLEAN
        /\ tabs \in Seq(Tab) /\ active \in 0..Len(tabs)
        /\ want \in RealDocs \cup {None} /\ last \in RealDocs \cup {None}
    BY DEF TypeInv, AreJobs, Owners
  <1>1. CASE Start
    BY <1>1, StartType
  <1>2. CASE Restored
    <2>1. tabs # <<>> /\ active \in Nat
      BY <1>0, <1>2 DEF Restored, TypeInv
    <2>2. /\ Report(tabs, active, job)
          /\ UNCHANGED <<saved, tabs, active, last, writer, fsVars, diedLoading, outlived>>
          /\ saved \in RealDocs /\ active # 0
      BY <1>2 DEF Restored, writeVars, tabVars, TypeInv, Restoring
    <2>3. /\ want' \in RealDocs /\ wake' \in BOOLEAN /\ pc' \in {"up", "reporting"}
          /\ JobsType' /\ overlapped' \in BOOLEAN
      BY <1>0, <2>1, <2>2, ReportType
    <2>4. TabsType' /\ SnapsType'
      BY <2>2, <2>3 DEF TypeInv, TabsType, SnapsType
    <2>5. FilesType' /\ DriverType' /\ GhostsType'
      BY <2>2, <2>3 DEF TypeInv, FilesType, DriverType, GhostsType, fsVars, Phases
    <2> QED BY <2>3, <2>4, <2>5, TypeParts
  <1>3. CASE StopPersisting
    <2>1. /\ UNCHANGED <<want, fsVars, diedLoading>> /\ pc = "quitting"
      BY <1>3 DEF StopPersisting
    <2>2. CASE StopWriter(job)
      BY <1>0, <2>1, <2>2, StopType
    <2>3. CASE /\ Pending /\ pc' = "flushing" /\ Spawn(job, "driver", want, overlapped)
               /\ UNCHANGED <<saved, tabVars, wake, writeVars, outlived>>
      <3>1. want \in RealDocs
        BY <1>0, <2>3 DEF Pending
      <3>2. JobsType' /\ overlapped' \in BOOLEAN
        BY <1>0, <2>3, <3>1, SpawnType
      <3>3. TabsType' /\ SnapsType' /\ FilesType' /\ DriverType' /\ GhostsType'
        BY <2>1, <2>3, <3>2 DEF tabVars, fsVars, writeVars, TypeInv, TabsType, SnapsType, FilesType,
                    DriverType, GhostsType, Restoring, Phases
      <3> QED BY <3>2, <3>3, TypeParts
    <2> QED BY <1>3, <2>2, <2>3 DEF StopPersisting
  <1>4. ASSUME NEW th \in Threads, Replay(th) PROVE TypeInv'
    <2> DEFINE list == Parked(saved.urls)
               i == IF saved.active \in DOMAIN list THEN saved.active ELSE 1
               loaded == IF LoadActive THEN Hydrate(list, i) ELSE list
               jobs == [job EXCEPT ![th] = NoJob]
    <2>1. saved \in RealDocs /\ pc = "marking"
      BY <1>4 DEF Replay, TypeInv, Restoring
    <2>2. /\ tabs' = loaded /\ active' = i
          /\ IF loaded = list THEN Report(list, i, jobs)
             ELSE /\ pc' = "loading"
                  /\ job' = jobs
                  /\ UNCHANGED <<snapVars, overlapped>>
          /\ UNCHANGED <<last, saved, writer, fsVars, diedLoading, outlived>>
      BY <1>4 DEF Replay, MarkApart, Parked
    <2>3. list \in Seq(Tab) /\ list # <<>>
      BY <2>1, DocTypes, ParkedType
    <2> HIDE DEF list
    <2>4. i \in DOMAIN list /\ i \in Nat /\ i # 0
      BY <2>3
    <2> HIDE DEF i
    <2>5. loaded \in Seq(Tab) /\ Len(loaded) = Len(list)
      BY <2>3, <2>4, HydrateType
    <2> HIDE DEF loaded
    <2>6. AreJobs(jobs)
      BY WithoutJob
    <2> HIDE DEF jobs
    <2>7. TabsType'
      BY <2>2, <2>3, <2>4, <2>5 DEF TabsType
    <2>8. /\ want' \in RealDocs \cup {None} /\ wake' \in BOOLEAN
          /\ pc' \in {"up", "reporting", "loading"} /\ JobsType' /\ overlapped' \in BOOLEAN
      <3>1. CASE Report(list, i, jobs)
        BY <2>3, <2>4, <2>6, <3>1, ReportType
      <3>2. CASE pc' = "loading" /\ job' = jobs /\ UNCHANGED <<snapVars, overlapped>>
        BY <2>6, <3>2 DEF snapVars, TypeInv, JobsType, AreJobs
      <3> QED BY <2>2, <3>1, <3>2
    <2>9. SnapsType' /\ FilesType' /\ DriverType' /\ GhostsType'
      BY <2>1, <2>2, <2>8 DEF fsVars, TypeInv, SnapsType, FilesType, DriverType, GhostsType, Phases
    <2> QED BY <2>7, <2>8, <2>9, TypeParts
  <1>5. ASSUME NEW th \in Threads, StartFails(th) \/ Flushed(th) PROVE TypeInv'
    <2>1. AreJobs([job EXCEPT ![th] = NoJob])
      BY WithoutJob
    <2> QED BY <1>5, <2>1, StopType DEF StartFails, Flushed
  <1>6. ASSUME NEW th \in Threads, Reported(th) PROVE TypeInv'
    <2>1. /\ job' = [job EXCEPT ![th] = NoJob] /\ last' \in RealDocs \cup {None}
      BY <1>0, <1>6 DEF Reported, Returned, Record, AreJobs
    <2>2. JobsType'
      BY <2>1, WithoutJob DEF JobsType, AreJobs
    <2>3. TabsType' /\ SnapsType' /\ FilesType' /\ DriverType' /\ GhostsType'
      BY <1>6, <2>1 DEF Reported, tabVars, snapVars, fsVars, TypeInv, TabsType, SnapsType,
                  FilesType, DriverType, GhostsType, Restoring, Phases
    <2> QED BY <2>2, <2>3, TypeParts
  <1>40. CASE Close
    BY <1>40, CloseOnly, TypeParts DEF TypeInv, TabsType, SnapsType, FilesType, DriverType, GhostsType, JobsType, Restoring, Phases, fsVars
  <1> QED BY <1>1, <1>40, <1>2, <1>3, <1>4, <1>5, <1>6 DEF DriverStep

LEMMA CrashType == ASSUME TypeInv, Crash PROVE TypeInv'
  <1>1. TabsType' /\ DriverType' /\ SnapsType'
    BY GoneType DEF Crash
  <1>2. PICK alive \in SUBSET Threads :
           job' = [th \in Threads |-> IF th \in alive THEN job[th] ELSE NoJob]
    BY DEF Crash
  <1>3. JobsType'
    <2>1. NoJob \in JobType /\ NoJob.stage = "idle"
      BY NewJobType DEF NoJob, JobType, Stages, Owners
    <2> QED BY <1>2, <2>1 DEF JobsType, TypeInv
  <1>4. FilesType'
    BY LinkedType DEF Crash, FilesType, TypeInv
  <1>5. GhostsType'
    <2>1. diedLoading' = (pc = "loading" \/ (diedLoading /\ pc = "marking"))
      BY DEF Crash
    <2>2. diedLoading' \in BOOLEAN
      BY <2>1
    <2> QED BY <2>2 DEF Crash, GhostsType, TypeInv
  <1> QED BY <1>1, <1>3, <1>4, <1>5, TypeParts

LEMMA InitType == Init => TypeInv
  <1> SUFFICES ASSUME Init PROVE TypeInv
    OBVIOUS
  <1>1. <<>> \in Seq(Tab) /\ Len(<<>>) = 0
    OBVIOUS
  <1>2. NoJob \in JobType /\ NoJob.stage = "idle"
    BY NewJobType DEF NoJob, JobType, Stages, Owners
  <1>3. TabsType /\ FilesType
    BY <1>1 DEF Init, TabsType, FilesType
  <1>6. SnapsType
    BY DEF Init, SnapsType
  <1>4. JobsType
    BY <1>2 DEF Init, JobsType
  <1>5. DriverType /\ GhostsType
    BY DEF Init, DriverType, GhostsType, Restoring, Phases
  <1> QED BY <1>3, <1>4, <1>5, <1>6, TypeParts

LEMMA StepType == TypeInv /\ [Next]_vars => TypeInv'
  <1> SUFFICES ASSUME TypeInv, [Next]_vars PROVE TypeInv'
    OBVIOUS
  <1>1. CASE UNCHANGED vars
    BY <1>1 DEF vars, tabVars, snapVars, writeVars, fsVars, ghosts, TypeInv, Restoring
  <1> QED BY <1>1, TabStepType, ThreadStepType, WriterStepType, DriverStepType, CrashType DEF Next

LEMMA TypeCorrectInv == Spec => []TypeInv
  BY InitType, StepType, PTL DEF Spec

\* Type correctness of the saved tabs, their writers and the files they write.
THEOREM TypeCorrect == Spec => []TypeOK
  <1>1. TypeInv => TypeOK
    <2> SUFFICES ASSUME TypeInv PROVE TypeOK
      OBVIOUS
    <2>1. RealDocs \subseteq Docs /\ Stages = {"idle", "called", "open", "written", "done"}
      BY DEF RealDocs, Stages
    <2>2. ASSUME NEW th \in Threads
          PROVE  job[th] \in [stage : {"idle", "called", "open", "written", "done"},
                              doc : Docs \cup {None}, inode : Inodes \cup {NoInode},
                              owner : {"nobody", "writer", "driver"}, ok : BOOLEAN]
      <3>1. job[th] \in JobType
        BY DEF TypeInv
      <3> QED BY <2>1, <3>1 DEF JobType, Owners
    <2>3. \A d \in RealDocs : d \in Docs
      BY <2>1
    <2> QED BY <2>2, <2>3 DEF TypeInv, TypeOK
  <1> QED BY <1>1, TypeCorrectInv, PTL

-----------------------------------------------------------------------------
(* After an unfinished attempt nothing loads and nothing is lost.             *)

LEMMA RestedTabs ==
    ASSUME TypeInv, pc = "reporting", TabStep,
           \A i \in DOMAIN tabs : tabs[i].at = Blank /\ tabs[i].load = Blank
    PROVE  FALSE
  <1>1. ASSUME NEW list, NEW i, Operate(list, i) PROVE FALSE
    BY <1>1 DEF InUse, Operate
  <1>2. ASSUME NEW i \in DOMAIN tabs, CloseTab(i) PROVE FALSE
    BY <1>1, <1>2 DEF InUse, CloseTab
  <1>3. ASSUME NEW i \in DOMAIN tabs, Navigated(i) PROVE FALSE
    <2>1. \A u \in Urls : u # Blank
      BY PoolAssumption
    <2> QED BY <1>3, <2>1 DEF InUse, Navigated
  <1>4. ASSUME NEW i \in DOMAIN tabs, LoadFails(i) PROVE FALSE
    BY <1>4 DEF LoadFails
  <1> QED BY <1>1, <1>2, <1>3, <1>4 DEF InUse, TabStep, NewTab, SwitchTab, SiteOpens, Open

LEMMA ReplayDegraded == ASSUME TypeInv, NEW th \in Threads, Replay(th) PROVE DegradedInv'
  <1> DEFINE list == Parked(saved.urls)
             i == IF saved.active \in DOMAIN list THEN saved.active ELSE 1
             loaded == IF LoadActive THEN Hydrate(list, i) ELSE list
             jobs == [job EXCEPT ![th] = NoJob]
  <1>1. saved \in RealDocs /\ saved.urls \in Seq(Addresses) /\ saved.urls # <<>>
    BY DocTypes DEF Replay, TypeInv, Restoring
  <1>2. /\ tabs' = loaded
        /\ IF loaded = list THEN Report(list, i, jobs) ELSE pc' = "loading"
        /\ saved' = saved
    BY DEF Replay, Parked
  <1>3. /\ list \in Seq(Tab) /\ list # <<>> /\ DOMAIN list = DOMAIN saved.urls
        /\ \A k \in DOMAIN list : list[k] = [Fresh EXCEPT !.parked = saved.urls[k]]
    BY <1>1, ParkedType DEF Parked
  <1>4. i \in Nat
    BY <1>1, DocTypes
  <1>5. \A k \in DOMAIN list : /\ list[k].at = Blank /\ list[k].load = Blank
                               /\ TabUrl(list[k]) = saved.urls[k]
    BY <1>3 DEF Fresh, TabUrl
  <1> HIDE DEF list, i, jobs
  <1>6. CASE saved.marked
    <2>1. tabs' = list /\ want' = Snapshot(list, i) /\ pc' # "loading"
      BY <1>2, <1>6 DEF LoadActive, Report
    <2>2. want'.urls = [k \in DOMAIN list |-> TabUrl(list[k])]
      BY <1>3, <1>4, <2>1, SnapshotType
    <2>3. want'.urls = saved.urls
      <3>1. saved.urls = [k \in DOMAIN saved.urls |-> saved.urls[k]]
        BY <1>1
      <3> QED BY <1>3, <1>5, <2>2, <3>1
    <2> QED BY <1>2, <1>5, <2>1, <2>3 DEF DegradedInv
  <1> QED BY <1>2, <1>6 DEF DegradedInv

LEMMA DegradedCorrect == Spec => []DegradedInv
  <1>1. Init => DegradedInv
    BY DEF Init, DegradedInv
  <1>2. TypeInv /\ DegradedInv /\ [Next]_vars => DegradedInv'
    <2> SUFFICES ASSUME TypeInv, DegradedInv, [Next]_vars PROVE DegradedInv'
      OBVIOUS
    <2>1. ASSUME UNCHANGED <<pc, saved, tabs, want>> PROVE DegradedInv'
      BY <2>1 DEF DegradedInv
    <2>2. ASSUME pc' \notin {"loading", "reporting"} PROVE DegradedInv'
      BY <2>2 DEF DegradedInv
    <2>3. CASE TabStep
      <3>1. pc' = pc /\ saved' = saved
        BY <2>3, TabStepType DEF TabsOnly
      <3> QED BY <2>3, <3>1, RestedTabs DEF DegradedInv
    <2>4. CASE Restored
      BY <2>4 DEF Restored, Report, DegradedInv
    <2>5. ASSUME NEW th \in Threads, Replay(th) PROVE DegradedInv'
      BY <2>5, ReplayDegraded
    <2>6. CASE WriterStep
      BY <2>1, <2>6 DEF WriterStep, WriterWakes, WriterReturns, tabVars, snapVars
    <2>7. ASSUME NEW th \in Threads, ThreadStep(th) PROVE DegradedInv'
      BY <2>1, <2>7, ThreadStepType DEF ThreadOnly, tabVars, snapVars
    <2>8. CASE Start \/ Close \/ StopPersisting \/ Crash
      BY <2>2, <2>8 DEF Start, Close, StopPersisting, StopWriter, Crash, Gone
    <2>9. ASSUME NEW th \in Threads, StartFails(th) \/ Reported(th) \/ Flushed(th) PROVE DegradedInv'
      BY <2>2, <2>9 DEF StartFails, Reported, Flushed, StopWriter, Gone
    <2>10. CASE UNCHANGED vars
      BY <2>1, <2>10 DEF vars, tabVars, snapVars
    <2> QED BY <2>3, <2>4, <2>5, <2>6, <2>7, <2>8, <2>9, <2>10 DEF Next, DriverStep
  <1> QED BY <1>1, <1>2, TypeCorrectInv, PTL DEF Spec

\* A restore that finds its set marked brings back every tab with its address, however
\* often attempts have failed before: no human's tab is deleted.
THEOREM DegradedRestoresAll == Spec => []DegradedKeepsAll
  <1>1. DegradedInv => DegradedKeepsAll
    BY DEF DegradedInv, DegradedKeepsAll
  <1> QED BY <1>1, DegradedCorrect, PTL

-----------------------------------------------------------------------------
(* Whose threads are at work, stepwise                                        *)

OwnedInv == JobsOwned /\ QuietStart

\* A step of a thread keeps what it works at and for whom, or ends.
LEMMA ThreadJob ==
    ASSUME TypeInv, JobsOwned, NEW th \in Threads, ThreadStep(th)
    PROVE  /\ ~Idle(th)
           /\ \A u \in Threads \ {th} : job'[u] = job[u]
           /\ \/ job[th].owner = "nobody" /\ job'[th] = NoJob
              \/ /\ job'[th].owner = job[th].owner /\ job'[th].doc = job[th].doc
                 /\ job'[th].stage \in {"open", "written", "done"}
                 /\ job'[th].inode # NoInode <=> job'[th].stage = "open"
                 /\ job'[th].stage = "done" => job[th].owner # "nobody"
  <1>0. job \in [Threads -> JobType] /\ job[th] \in JobType
    BY DEF TypeInv
  <1>1. ASSUME NEW ok \in BOOLEAN, job' = [job EXCEPT ![th] = Ended(th, ok)],
               job[th].stage \in {"called", "written"}
        PROVE  /\ \A u \in Threads \ {th} : job'[u] = job[u]
               /\ \/ job[th].owner = "nobody" /\ job'[th] = NoJob
                  \/ /\ job'[th].owner = job[th].owner /\ job'[th].doc = job[th].doc
                     /\ job'[th].stage \in {"open", "written", "done"}
                     /\ job'[th].inode # NoInode <=> job'[th].stage = "open"
                     /\ job'[th].stage = "done" => job[th].owner # "nobody"
    <2>1. job'[th] = Ended(th, ok) /\ \A u \in Threads \ {th} : job'[u] = job[u]
      BY <1>0, <1>1
    <2>2. job[th].inode = NoInode
      BY <1>1 DEF JobsOwned, JobShape
    <2> QED BY <2>1, <2>2, EndedJob
  <1>2. CASE RemoveFile(th)
    <2>1. job' = [job EXCEPT ![th] = Ended(th, TRUE)] /\ job[th].stage = "called"
      BY <1>2 DEF RemoveFile
    <2> QED BY <1>1, <2>1 DEF Idle
  <1>3. CASE OpenTmp(th)
    <2>1. PICK i \in Inodes : job' = [job EXCEPT ![th].stage = "open", ![th].inode = i]
      <3>1. (IF tmpAt = NoInode THEN FreeInodes ELSE {tmpAt}) \subseteq Inodes
        BY DEF FreeInodes, TypeInv
      <3> QED BY <1>3, <3>1 DEF OpenTmp
    <2>2. job'[th] = [job[th] EXCEPT !.stage = "open", !.inode = i] /\ job[th].stage = "called"
      BY <1>0, <1>3, <2>1 DEF OpenTmp
    <2>3. \A u \in Threads \ {th} : job'[u] = job[u]
      BY <1>0, <2>1
    <2> QED BY <1>0, <2>2, <2>3, PoolAssumption DEF JobType, Idle
  <1>4. CASE WriteTmp(th)
    <2>1. /\ job'[th] = [job[th] EXCEPT !.stage = "written", !.inode = NoInode]
          /\ job[th].stage = "open"
          /\ \A u \in Threads \ {th} : job'[u] = job[u]
      BY <1>0, <1>4 DEF WriteTmp
    <2> QED BY <1>0, <2>1 DEF JobType, Idle
  <1>5. CASE ReplaceFile(th)
    <2> DEFINE ok == tmpAt # NoInode
    <2>1. job' = [job EXCEPT ![th] = Ended(th, ok)] /\ job[th].stage = "written"
      BY <1>5 DEF ReplaceFile
    <2>2. ok \in BOOLEAN
      OBVIOUS
    <2> HIDE DEF ok
    <2> QED BY <1>1, <2>1, <2>2 DEF Idle
  <1> QED BY <1>2, <1>3, <1>4, <1>5 DEF ThreadStep

\* The temporary file is never the file.
LEMMA ThreadFiles ==
    ASSUME TypeInv, OwnedInv, NEW th \in Threads, ThreadStep(th)
    PROVE  tmpAt' # NoInode => tmpAt' # fileAt'
  <1>1. CASE OpenTmp(th)
    <2>1. \A i \in IF tmpAt = NoInode THEN FreeInodes ELSE {tmpAt} : i # fileAt
      BY DEF FreeInodes, OwnedInv, QuietStart
    <2> QED BY <1>1, <2>1 DEF OpenTmp
  <1>2. CASE RemoveFile(th)
    BY <1>2 DEF RemoveFile
  <1>3. CASE WriteTmp(th) \/ ReplaceFile(th)
    BY <1>3 DEF WriteTmp, ReplaceFile, OwnedInv, QuietStart
  <1> QED BY <1>1, <1>2, <1>3 DEF ThreadStep

LEMMA ThreadOwned ==
    ASSUME TypeInv, OwnedInv, NEW th \in Threads, ThreadStep(th)
    PROVE  OwnedInv'
  <1>1. ThreadOnly /\ JobsOwned
    BY ThreadStepType DEF OwnedInv
  <1>2. NoJob.stage = "idle" /\ NoJob.owner = "nobody" /\ NoJob.inode = NoInode
    BY DEF NoJob
  <1>3. JobsOwned'
    <2>1. \A u \in Threads : JobShape(job'[u])
      BY <1>1, <1>2, ThreadJob DEF JobsOwned, JobShape
    <2>2. \A u \in Threads : job'[u].owner \in {job[u].owner, "nobody"}
      BY <1>2, ThreadJob, <1>1
    <2>3. Apart(job')
      BY <1>1, <2>2 DEF JobsOwned, Apart
    <2>4. \A u \in Threads : Idle(u) \/ job[u].owner # "nobody"
             => job'[u].stage = "idle" \/ job'[u].owner # "nobody"
      BY <1>1, <1>2, ThreadJob DEF Idle
    <2> QED BY <1>1, <2>1, <2>2, <2>3, <2>4 DEF ThreadOnly, writeVars, ghosts, JobsOwned, Idle
  <1>4. QuietStart'
    BY <1>1, ThreadFiles DEF ThreadOnly, snapVars, writeVars, ghosts, OwnedInv, QuietStart
  <1> QED BY <1>3, <1>4 DEF OwnedInv

\* A job of the driver or of the writer begins on an idle thread, when neither has one.
OthersOwned(jobs, owner) ==
    /\ jobs \in [Threads -> JobType]
    /\ \A th \in Threads : JobShape(jobs[th]) /\ jobs[th].owner # owner
    /\ Apart(jobs)

LEMMA SpawnOwned ==
    ASSUME NEW owner \in {"writer", "driver"}, NEW jobs, OthersOwned(jobs, owner),
           NEW doc \in RealDocs, NEW before \in BOOLEAN, Spawn(jobs, owner, doc, before),
           owner = "writer" \/ (\E th \in Threads : jobs[th].owner = "writer") => writer' = "writing",
           owner = "driver" \/ (\E th \in Threads : jobs[th].owner = "driver")
             => pc' \in {"marking", "reporting", "flushing"},
           ~outlived' => \A th \in Threads : jobs[th].stage = "idle" \/ jobs[th].owner # "nobody"
    PROVE  JobsOwned'
  <1>1. PICK th \in Threads : /\ jobs[th].stage = "idle"
                              /\ job' = [jobs EXCEPT ![th] = NewJob(owner, doc)]
    BY SpawnJob DEF Owners, OthersOwned
  <1>2. /\ job'[th].stage = "called" /\ job'[th].owner = owner /\ job'[th].inode = NoInode
        /\ \A u \in Threads \ {th} : job'[u] = jobs[u]
    BY <1>1, NewJobType DEF Owners, OthersOwned
  <1>3. JobShape(job'[th])
    BY <1>2 DEF JobShape
  <1>4. \A u \in Threads : JobShape(job'[u])
    BY <1>2, <1>3 DEF OthersOwned
  <1>5. Apart(job')
    BY <1>2 DEF Apart, OthersOwned
  <1> QED BY <1>2, <1>4, <1>5 DEF JobsOwned, Idle, OthersOwned

LEMMA ReturnedJobs ==
    ASSUME TypeInv, JobsOwned, NEW owner \in {"writer", "driver"}, NEW th \in Threads,
           Returned(th, owner)
    PROVE  OthersOwned([job EXCEPT ![th] = NoJob], owner)
  <1>1. NoJob \in JobType /\ NoJob.owner = "nobody" /\ NoJob.stage = "idle" /\ NoJob.inode = NoInode
    BY NewJobType, ContentAssumption DEF NoJob, JobType, Stages, Owners
  <1>2. job \in [Threads -> JobType]
    BY DEF TypeInv
  <1> DEFINE rest == [job EXCEPT ![th] = NoJob]
  <1>3. /\ rest \in [Threads -> JobType] /\ rest[th] = NoJob
        /\ \A u \in Threads \ {th} : rest[u] = job[u]
    BY <1>1, <1>2
  <1> HIDE DEF rest
  <1>4. JobShape(NoJob)
    BY <1>1 DEF JobShape
  <1>5. \A u \in Threads : JobShape(rest[u])
    BY <1>3, <1>4 DEF JobsOwned
  <1>6. \A u \in Threads : rest[u].owner # owner
    BY <1>1, <1>3 DEF JobsOwned, Apart, Returned
  <1>7. Apart(rest)
    BY <1>1, <1>3 DEF JobsOwned, Apart
  <1>8. OthersOwned(rest, owner)
    BY <1>3, <1>5, <1>6, <1>7 DEF OthersOwned
  <1> QED BY <1>8 DEF rest

\* The writer is cancelled: what still runs belongs to nobody, and if that is anything
\* the driver is outlived.
LEMMA StopOwned ==
    ASSUME TypeInv, OwnedInv, NEW jobs, StopWriter(jobs), UNCHANGED <<fileAt, tmpAt>>,
           \/ jobs = job /\ pc = "quitting"
           \/ \E th \in Threads : Returned(th, "driver") /\ jobs = [job EXCEPT ![th] = NoJob]
    PROVE  /\ OwnedInv'
           /\ ~outlived' => \A th \in Threads : job'[th].stage = "idle" /\ jobs[th] = NoJob
  <1>1. ASSUME NEW th \in Threads
        PROVE  /\ jobs[th] \in JobType /\ (jobs[th] = job[th] \/ jobs[th] = NoJob)
               /\ jobs[th].owner # "driver"
    <2>1. NoJob \in JobType /\ NoJob.owner = "nobody" /\ job \in [Threads -> JobType]
      BY NewJobType DEF NoJob, TypeInv, JobType, Stages, Owners
    <2>2. CASE jobs = job /\ pc = "quitting"
      BY <2>1, <2>2 DEF OwnedInv, JobsOwned
    <2>3. ASSUME NEW t \in Threads, job[t].owner = "driver", jobs = [job EXCEPT ![t] = NoJob]
          PROVE  /\ jobs[th] \in JobType /\ (jobs[th] = job[th] \/ jobs[th] = NoJob)
                 /\ jobs[th].owner # "driver"
      BY <2>1, <2>3 DEF OwnedInv, JobsOwned, Apart
    <2> QED BY <2>2, <2>3 DEF Returned
  <1>2. /\ NoJob.stage = "idle" /\ NoJob.owner = "nobody" /\ NoJob.inode = NoInode
    BY DEF NoJob
  <1>3. ASSUME NEW th \in Threads
        PROVE  /\ job'[th].owner = "nobody" /\ job'[th].stage # "done"
               /\ JobShape(job'[th])
               /\ ~outlived' => job'[th].stage = "idle" /\ jobs[th] = NoJob
    <2>1. job'[th] = IF jobs[th].stage = "done" THEN NoJob ELSE [jobs[th] EXCEPT !.owner = "nobody"]
      BY DEF StopWriter
    <2>2. JobShape(jobs[th])
      BY <1>1, <1>2 DEF OwnedInv, JobsOwned, JobShape
    <2>3. ~outlived' => jobs[th].stage = "idle"
      <3>1. ~outlived' => ~outlived /\ writer # "writing"
        BY DEF StopWriter
      <3> QED BY <1>1, <1>2, <3>1 DEF OwnedInv, JobsOwned, Idle, JobType, Owners
    <2>4. NoJob = [NoJob EXCEPT !.owner = "nobody"]
      <3>1. NoJob \in JobType
        BY NewJobType, ContentAssumption DEF NoJob, JobType, Stages, Owners
      <3> QED BY <1>2, <3>1 DEF JobType
    <2> QED BY <1>1, <1>2, <2>1, <2>2, <2>3, <2>4 DEF JobType, JobShape
  <1>4. JobsOwned'
    BY <1>3 DEF JobsOwned, Apart, Idle
  <1>5. QuietStart'
    BY DEF StopWriter, Gone, OwnedInv, QuietStart
  <1> QED BY <1>3, <1>4, <1>5 DEF OwnedInv

LEMMA WriterOwned == ASSUME TypeInv, OwnedInv, WriterStep PROVE OwnedInv'
  <1>0. /\ job \in [Threads -> JobType] /\ overlapped \in BOOLEAN /\ pc \in Phases
        /\ NoJob.owner = "nobody"
    BY DEF TypeInv, NoJob
  <1>1. ASSUME WriterWakes, want # None, Spawn(job, "writer", want, overlapped), writer' = "writing"
        PROVE  OwnedInv'
    <2>1. want \in RealDocs
      BY <1>1 DEF TypeInv
    <2>2. OthersOwned(job, "writer")
      BY <1>0, <1>1 DEF WriterWakes, OwnedInv, JobsOwned, Idle, OthersOwned
    <2>3. JobsOwned'
      BY <1>0, <1>1, <2>1, <2>2, SpawnOwned DEF WriterWakes, OwnedInv, JobsOwned, Idle
    <2>4. QuietStart'
      BY <1>1 DEF WriterWakes, fsVars, OwnedInv, QuietStart
    <2> QED BY <2>3, <2>4 DEF OwnedInv
  <1>2. ASSUME WriterWakes, UNCHANGED <<writer, job, overlapped>> PROVE OwnedInv'
    BY <1>2 DEF WriterWakes, fsVars, OwnedInv, JobsOwned, Idle, QuietStart
  <1>3. ASSUME NEW th \in Threads, WriterReturns(th) PROVE OwnedInv'
    <2>1. /\ job' = [job EXCEPT ![th] = NoJob] /\ job[th].owner = "writer" /\ writer' = "waiting"
          /\ OthersOwned([job EXCEPT ![th] = NoJob], "writer")
          /\ UNCHANGED <<pc, saved, tabVars, snapVars, fsVars, ghosts>>
      BY <1>3, ReturnedJobs DEF WriterReturns, Returned, OwnedInv
    <2>2. JobsOwned'
      <3>1. \A u \in Threads : job'[u] = job[u] \/ job'[u] = NoJob
        BY <1>0, <2>1
      <3>2. job' = [job EXCEPT ![th] = NoJob] /\ OthersOwned(job', "writer")
        BY <2>1
      <3>3. NoJob.stage = "idle"
        BY DEF NoJob
      <3> QED BY <1>0, <2>1, <3>1, <3>2, <3>3 DEF ghosts, JobsOwned, Idle, OthersOwned, OwnedInv
    <2>3. QuietStart'
      BY <2>1 DEF snapVars, fsVars, ghosts, OwnedInv, QuietStart, JobsOwned
    <2> QED BY <2>2, <2>3 DEF OwnedInv
  <1> QED BY <1>1, <1>2, <1>3 DEF WriterStep, WriterWakes, Pending

\* While the driver is down only threads of drivers before it run.
LEMMA DownJobs ==
    ASSUME TypeInv, OwnedInv, pc = "down"
    PROVE  /\ \A th \in Threads : job[th].owner = "nobody"
           /\ ~outlived => \A th \in Threads : job[th].stage = "idle"
  BY DEF TypeInv, JobType, Owners, OwnedInv, QuietStart, JobsOwned, Idle

LEMMA StartOwned == ASSUME TypeInv, OwnedInv, Start PROVE OwnedInv'
  <1>0. /\ job \in [Threads -> JobType] /\ pc = "down" /\ UNCHANGED fsVars
        /\ want' = None /\ last' = None /\ wake' = FALSE /\ writer' = "waiting"
    BY DEF Start, TypeInv
  <1>1. ~outlived' => \A th \in Threads : job[th].stage = "idle"
    BY <1>0, DownJobs DEF Start, Busy
  <1>2. CASE Readable
    <2> DEFINE doc == Mark(Capped(File))
    <2>1. File \in RealDocs
      BY <1>2 DEF Readable, File, TypeInv
    <2>2. doc \in RealDocs
      BY <2>1, CappedType, MarkType
    <2>3. pc' = "marking" /\ Spawn(job, "driver", doc, FALSE)
      BY <1>2 DEF Start
    <2> HIDE DEF doc
    <2>4. OthersOwned(job, "driver")
      BY <1>0, DownJobs DEF OthersOwned, OwnedInv, JobsOwned, Idle
    <2>5. JobsOwned'
      BY <1>0, <1>1, <2>2, <2>3, <2>4, DownJobs, SpawnOwned
    <2>6. outlived' \/ ~overlapped'
      BY <1>0, <1>1, <2>2, <2>3, SpawnJob DEF Owners
    <2>7. QuietStart'
      BY <1>0, <2>3, <2>6 DEF fsVars, OwnedInv, QuietStart
    <2> QED BY <2>5, <2>7 DEF OwnedInv
  <1>3. CASE ~Readable
    <2>1. pc' = "up" /\ job' = job
      BY <1>3 DEF Start
    <2>2. JobsOwned'
      BY <1>0, <1>1, <2>1, DownJobs DEF JobsOwned, Idle, OwnedInv
    <2>3. QuietStart'
      BY <1>0, <2>1 DEF fsVars, OwnedInv, QuietStart
    <2> QED BY <2>2, <2>3 DEF OwnedInv
  <1> QED BY <1>2, <1>3

\* The report is always written: nothing has been recorded yet.
LEMMA ReportSpawns ==
    ASSUME TypeInv, OwnedInv, pc \in {"marking", "loading"}, last' = last,
           NEW list \in Seq(Tab), list # <<>>, NEW i \in Nat, NEW jobs, Report(list, i, jobs)
    PROVE  /\ pc' = "reporting" /\ want' = Snapshot(list, i) /\ want' \in RealDocs
           /\ Spawn(jobs, "driver", Snapshot(list, i), overlapped)
  <1>1. Snapshot(list, i) \in RealDocs /\ Snapshot(list, i) # last'
    BY SnapshotType, DocTypes DEF OwnedInv, QuietStart
  <1> QED BY <1>1 DEF Report

LEMMA ReportOwned ==
    ASSUME TypeInv, OwnedInv, pc \in {"marking", "loading"}, last' = last, writer' = writer,
           outlived' = outlived, UNCHANGED fsVars,
           NEW list \in Seq(Tab), list # <<>>, NEW i \in Nat, NEW jobs, Report(list, i, jobs),
           OthersOwned(jobs, "driver"), \A u \in Threads : jobs[u] \in {job[u], NoJob}
    PROVE  OwnedInv'
  <1>1. pc' = "reporting" /\ want' \in RealDocs /\ Spawn(jobs, "driver", want', overlapped)
    BY ReportSpawns
  <1>2. JobsOwned'
    <2>1. overlapped \in BOOLEAN /\ NoJob.owner = "nobody" /\ NoJob.stage = "idle"
      BY DEF TypeInv, NoJob
    <2>2. ~outlived => \A th \in Threads : jobs[th].stage = "idle" \/ jobs[th].owner # "nobody"
      BY <2>1 DEF OwnedInv, JobsOwned, Idle
    <2>3. \A th \in Threads : jobs[th].owner # "writer" /\ jobs[th].owner # "driver"
      BY <2>1 DEF OwnedInv, JobsOwned, QuietStart, OthersOwned
    <2> HIDE DEF OthersOwned
    <2> QED BY <1>1, <2>1, <2>2, <2>3, SpawnOwned
  <1>3. QuietStart'
    BY <1>1 DEF fsVars, OwnedInv, QuietStart
  <1> QED BY <1>2, <1>3 DEF OwnedInv

LEMMA ReplayOwned == ASSUME TypeInv, OwnedInv, NEW th \in Threads, Replay(th) PROVE OwnedInv'
  <1> DEFINE list == Parked(saved.urls)
             i == IF saved.active \in DOMAIN list THEN saved.active ELSE 1
             loaded == IF LoadActive THEN Hydrate(list, i) ELSE list
             jobs == [job EXCEPT ![th] = NoJob]
  <1>1. saved \in RealDocs /\ pc = "marking" /\ Returned(th, "driver")
    BY DEF Replay, TypeInv, Restoring
  <1>2. /\ IF loaded = list THEN Report(list, i, jobs)
           ELSE /\ pc' = "loading"
                /\ job' = jobs
                /\ UNCHANGED <<snapVars, overlapped>>
        /\ UNCHANGED <<last, saved, writer, fsVars, diedLoading, outlived>>
    BY DEF Replay, MarkApart, Parked
  <1>3. list \in Seq(Tab) /\ list # <<>> /\ i \in Nat
    BY <1>1, DocTypes, ParkedType
  <1> HIDE DEF list, i, loaded
  <1>4. OthersOwned(jobs, "driver") /\ \A u \in Threads : jobs[u] \in {job[u], NoJob}
    BY <1>1, ReturnedJobs DEF OwnedInv, TypeInv
  <1> HIDE DEF jobs
  <1>5. CASE Report(list, i, jobs)
    BY <1>1, <1>2, <1>3, <1>4, <1>5, ReportOwned
  <1>6. CASE pc' = "loading" /\ job' = jobs /\ UNCHANGED <<snapVars, overlapped>>
    <2>1. NoJob.owner = "nobody" /\ NoJob.stage = "idle"
      BY DEF NoJob
    <2>2. JobsOwned'
      BY <1>2, <1>4, <1>6, <2>1 DEF OthersOwned, OwnedInv, JobsOwned, Idle
    <2>3. QuietStart'
      BY <1>1, <1>2, <1>6 DEF snapVars, fsVars, OwnedInv, QuietStart
    <2> QED BY <2>2, <2>3 DEF OwnedInv
  <1> QED BY <1>2, <1>5, <1>6

LEMMA DriverOwned == ASSUME TypeInv, OwnedInv, DriverStep PROVE OwnedInv'
  <1>0. /\ job \in [Threads -> JobType] /\ overlapped \in BOOLEAN
        /\ NoJob.owner = "nobody" /\ NoJob.stage = "idle"
    BY DEF TypeInv, NoJob
  <1>1. CASE Restored
    <2>1. tabs \in Seq(Tab) /\ tabs # <<>> /\ active \in Nat
      BY <1>1 DEF Restored, TypeInv
    <2>2. OthersOwned(job, "driver")
      BY <1>0, <1>1 DEF Restored, OthersOwned, OwnedInv, JobsOwned, Idle
    <2> QED BY <1>1, <2>1, <2>2, ReportOwned DEF Restored, writeVars
  <1>2. CASE StopPersisting
    <2>1. CASE StopWriter(job)
      BY <1>2, <2>1, StopOwned DEF StopPersisting, fsVars
    <2>2. CASE /\ Pending /\ pc' = "flushing" /\ Spawn(job, "driver", want, overlapped)
               /\ UNCHANGED <<saved, tabVars, wake, writeVars, outlived>>
      <3>1. want \in RealDocs /\ pc = "quitting" /\ UNCHANGED fsVars
        BY <1>2, <2>2 DEF StopPersisting, Pending, TypeInv
      <3>2. OthersOwned(job, "driver")
        BY <1>0, <3>1 DEF OthersOwned, OwnedInv, JobsOwned, Idle
      <3>3. JobsOwned'
        BY <1>0, <2>2, <3>1, <3>2, SpawnOwned DEF writeVars, OwnedInv, JobsOwned, Idle
      <3>4. QuietStart'
        BY <2>2, <3>1 DEF fsVars, OwnedInv, QuietStart
      <3> QED BY <3>3, <3>4 DEF OwnedInv
    <2> QED BY <1>2, <2>1, <2>2 DEF StopPersisting
  <1>3. ASSUME NEW th \in Threads, StartFails(th) \/ Flushed(th) PROVE OwnedInv'
    BY <1>3, StopOwned DEF StartFails, Flushed, fsVars
  <1>4. ASSUME NEW th \in Threads, Reported(th) PROVE OwnedInv'
    <2>1. /\ job' = [job EXCEPT ![th] = NoJob] /\ OthersOwned([job EXCEPT ![th] = NoJob], "driver")
          /\ pc' = "up" /\ UNCHANGED <<writer, outlived, fsVars>>
      BY <1>4, ReturnedJobs DEF Reported, OwnedInv
    <2>2. (\A u \in Threads : job'[u] = job[u] \/ job'[u] = NoJob) /\ OthersOwned(job', "driver")
      BY <1>0, <2>1
    <2>3. JobsOwned'
      BY <1>0, <2>1, <2>2 DEF JobsOwned, Idle, OthersOwned, OwnedInv
    <2>4. QuietStart'
      BY <2>1 DEF fsVars, OwnedInv, QuietStart
    <2> QED BY <2>3, <2>4 DEF OwnedInv
  <1>5. CASE Close
    BY <1>5, CloseOnly DEF fsVars, OwnedInv, JobsOwned, QuietStart, Idle
  <1> QED BY <1>1, <1>5, <1>2, <1>3, <1>4, StartOwned, ReplayOwned DEF DriverStep

\* Of the threads at work only those of nobody may survive a kill.
LEMMA CrashOwned ==
    ASSUME TypeInv, OwnedInv, Crash
    PROVE  OwnedInv' /\ (~outlived => \A th \in Threads : job'[th] = NoJob)
  <1>1. PICK alive \in SUBSET {th \in Threads : job[th].owner = "nobody"} :
           job' = [th \in Threads |-> IF th \in alive THEN job[th] ELSE NoJob]
    BY DEF Crash
  <1>2. NoJob.owner = "nobody" /\ NoJob.stage = "idle" /\ NoJob.inode = NoInode
    BY DEF NoJob
  <1>3. \A th \in Threads : /\ job'[th] = NoJob \/ (job'[th] = job[th] /\ job[th].owner = "nobody")
                            /\ ~outlived => job'[th] = NoJob
    BY <1>1 DEF OwnedInv, JobsOwned, JobShape, Idle
  <1>4. outlived' = outlived /\ fileAt' = fileAt /\ pc' = "down" /\ tmpAt' \in {tmpAt, NoInode}
        /\ writer' = "none" /\ last' = None
    BY DEF Crash, Gone
  <1>5. JobsOwned'
    <2>1. \A u \in Threads : JobShape(job'[u])
      BY <1>2, <1>3 DEF OwnedInv, JobsOwned, JobShape
    <2> QED BY <1>2, <1>3, <1>4, <2>1 DEF OwnedInv, JobsOwned, Apart, Idle
  <1>6. QuietStart'
    BY <1>4 DEF OwnedInv, QuietStart
  <1> QED BY <1>3, <1>5, <1>6 DEF OwnedInv

LEMMA OwnedCorrect == Spec => []OwnedInv
  <1>1. Init => OwnedInv
    BY DEF Init, OwnedInv, JobsOwned, JobShape, Apart, QuietStart, Idle, NoJob
  <1>2. TypeInv /\ OwnedInv /\ [Next]_vars => OwnedInv'
    <2> SUFFICES ASSUME TypeInv, OwnedInv, [Next]_vars PROVE OwnedInv'
      OBVIOUS
    <2>1. CASE TabStep
      <3>1. /\ UNCHANGED <<pc, job, writer, last, outlived, overlapped, fileAt, tmpAt>>
            /\ BrowserUp /\ (pc = "loading" => want' = want /\ wake' = wake)
        BY <2>1, TabStepType DEF TabsOnly, writeVars, fsVars, ghosts
      <3>2. JobsOwned'
        BY <3>1 DEF OwnedInv, JobsOwned, Idle
      <3>3. QuietStart'
        BY <3>1 DEF BrowserUp, InUse, OwnedInv, QuietStart
      <3> QED BY <3>2, <3>3 DEF OwnedInv
    <2>2. CASE UNCHANGED vars
      BY <2>2 DEF vars, snapVars, writeVars, fsVars, ghosts, OwnedInv, JobsOwned, Idle, QuietStart
    <2> QED BY <2>1, <2>2, ThreadOwned, WriterOwned, DriverOwned, CrashOwned DEF Next
  <1> QED BY <1>1, <1>2, TypeCorrectInv, PTL DEF Spec

-----------------------------------------------------------------------------
(* A thread that is alone makes the file what it was given.                   *)

Sole == ~outlived /\ ~overlapped

\* A thread that begins and is not alone is an overlap.
LEMMA SpawnSole ==
    ASSUME NEW owner \in Owners, NEW jobs \in [Threads -> JobType],
           NEW doc \in RealDocs, NEW before \in BOOLEAN, Spawn(jobs, owner, doc, before), ~overlapped'
    PROVE  /\ ~before /\ \A th \in Threads : jobs[th].stage = "idle"
           /\ \A t, u \in Threads : ~Idle(t)' /\ ~Idle(u)' => t = u
           /\ \A th \in Threads : job'[th].stage \in {"idle", "called"}
  <1>1. ~before /\ \A th \in Threads : jobs[th].stage = "idle"
    BY SpawnJob
  <1>2. PICK th \in Threads : job' = [jobs EXCEPT ![th] = NewJob(owner, doc)]
    BY SpawnJob
  <1>3. /\ job'[th].stage = "called"
        /\ \A u \in Threads \ {th} : job'[u] = jobs[u]
    BY <1>2, NewJobType
  <1> QED BY <1>1, <1>3 DEF Idle

\* Where no thread has opened the temporary file there is nothing to follow.
LEMMA Untracked ==
    ASSUME NEW th \in Threads, job'[th].stage \in {"idle", "called"} PROVE Track(th)'
  BY DEF Track

LEMMA TrackOpen ==
    ASSUME TypeInv, OwnedInv, NEW th \in Threads, OpenTmp(th), job[th].owner # "nobody"
    PROVE  Track(th)' /\ fileAt' = fileAt /\ File' = File
  <1>0. job \in [Threads -> JobType] /\ job[th] \in JobType
    BY DEF TypeInv
  <1>1. PICK i \in Inodes : /\ tmpAt' = i /\ i # fileAt
                            /\ disk' = [disk EXCEPT ![i] = Empty]
                            /\ job' = [job EXCEPT ![th].stage = "open", ![th].inode = i]
    <2>1. /\ (IF tmpAt = NoInode THEN FreeInodes ELSE {tmpAt}) \subseteq Inodes
          /\ \A i \in IF tmpAt = NoInode THEN FreeInodes ELSE {tmpAt} : i # fileAt
      BY DEF FreeInodes, TypeInv, OwnedInv, QuietStart
    <2> QED BY <2>1 DEF OpenTmp
  <1>2. job'[th] = [job[th] EXCEPT !.stage = "open", !.inode = i]
    BY <1>0, <1>1
  <1>3. job'[th].stage = "open" /\ job'[th].inode = i /\ job'[th].doc = job[th].doc
    BY <1>0, <1>2 DEF JobType
  <1>4. disk'[i] = Empty /\ fileAt' = fileAt /\ (fileAt # NoInode => disk'[fileAt] = disk[fileAt])
    BY <1>1 DEF OpenTmp, TypeInv
  <1>5. ~AllBlank(job'[th].doc)
    BY <1>3 DEF OpenTmp
  <1> QED BY <1>1, <1>3, <1>4, <1>5 DEF Track, File

LEMMA TrackWrite ==
    ASSUME TypeInv, OwnedInv, NEW th \in Threads, WriteTmp(th), Track(th)
    PROVE  Track(th)' /\ fileAt' = fileAt /\ File' = File
  <1>0. /\ job \in [Threads -> JobType] /\ job[th] \in JobType
        /\ disk \in [Inodes -> RealDocs \cup {Empty, Garbled}]
        /\ fileAt \in Inodes \cup {NoInode} /\ tmpAt \in Inodes \cup {NoInode}
    BY DEF TypeInv
  <1>1. /\ job[th].stage = "open" /\ job[th].inode = tmpAt /\ disk[tmpAt] = Empty
        /\ ~AllBlank(job[th].doc) /\ tmpAt # NoInode /\ tmpAt # fileAt
        /\ job[th].doc \in RealDocs
    BY DEF WriteTmp, Track, OwnedInv, JobsOwned, JobShape, QuietStart, TypeInv
  <1>2. job'[th] = [job[th] EXCEPT !.stage = "written", !.inode = NoInode]
    BY <1>0 DEF WriteTmp
  <1>3. job'[th].stage = "written" /\ job'[th].doc = job[th].doc
    BY <1>0, <1>2 DEF JobType
  <1> DEFINE content == [disk EXCEPT ![tmpAt] = job[th].doc]
  <1>4. disk' = Linked(content, {fileAt, tmpAt}, job')
    BY <1>1 DEF WriteTmp, Overwritten
  <1>5. content \in [Inodes -> RealDocs \cup {Empty, Garbled}]
    BY <1>0, <1>1
  <1>6. content[tmpAt] = job[th].doc /\ (fileAt # NoInode => content[fileAt] = disk[fileAt])
    BY <1>0, <1>1
  <1> HIDE DEF content
  <1>7. disk'[tmpAt] = content[tmpAt] /\ (fileAt # NoInode => disk'[fileAt] = content[fileAt])
    BY <1>0, <1>1, <1>4, <1>5, LinkedType
  <1>8. fileAt' = fileAt /\ tmpAt' = tmpAt
    BY DEF WriteTmp
  <1>9. ~AllBlank(job'[th].doc)
    BY <1>1, <1>3
  <1> QED BY <1>1, <1>3, <1>6, <1>7, <1>8, <1>9 DEF Track, File

LEMMA TrackEnd ==
    ASSUME TypeInv, OwnedInv, NEW th \in Threads, RemoveFile(th) \/ ReplaceFile(th), Track(th),
           job[th].owner # "nobody"
    PROVE  Track(th)' /\ job'[th].stage = "done"
  <1>0. /\ job \in [Threads -> JobType] /\ job[th] \in JobType
        /\ disk \in [Inodes -> RealDocs \cup {Empty, Garbled}]
        /\ fileAt \in Inodes \cup {NoInode} /\ tmpAt \in Inodes \cup {NoInode}
    BY DEF TypeInv
  <1>1. CASE RemoveFile(th)
    <2>1. job'[th] = Ended(th, TRUE) /\ fileAt' = NoInode /\ AllBlank(job[th].doc)
      BY <1>0, <1>1 DEF RemoveFile
    <2>2. job'[th].stage = "done" /\ job'[th].doc = job[th].doc /\ job'[th].ok = TRUE
      BY <2>1, EndedJob
    <2>3. AllBlank(job'[th].doc)
      BY <2>1, <2>2
    <2> QED BY <2>1, <2>2, <2>3 DEF Track, SavedAs
  <1>2. CASE ReplaceFile(th)
    <2> DEFINE ok == tmpAt # NoInode
    <2>1. /\ tmpAt # NoInode /\ disk[tmpAt] = job[th].doc /\ ~AllBlank(job[th].doc)
      BY <1>2 DEF ReplaceFile, Track
    <2>2. fileAt' = tmpAt /\ disk' = Linked(disk, {fileAt'}, job) /\ job'[th] = Ended(th, ok)
      BY <1>0, <1>2, <2>1 DEF ReplaceFile
    <2>3. ok = TRUE
      BY <2>1
    <2> HIDE DEF ok
    <2>4. job'[th].stage = "done" /\ job'[th].doc = job[th].doc /\ job'[th].ok = TRUE
      BY <2>2, <2>3, EndedJob
    <2>5. disk'[tmpAt] = disk[tmpAt]
      BY <1>0, <2>1, <2>2, LinkedType
    <2>6. File' = job'[th].doc
      BY <2>1, <2>2, <2>4, <2>5 DEF File
    <2>7. ~AllBlank(job'[th].doc)
      BY <2>1, <2>4
    <2> QED BY <2>4, <2>6, <2>7 DEF Track, SavedAs
  <1> QED BY <1>1, <1>2

LEMMA ThreadSole ==
    ASSUME TypeInv, OwnedInv, SoleInv, NEW th \in Threads, ThreadStep(th)
    PROVE  SoleInv'
  <1> SUFFICES ASSUME Sole' PROVE SoleInv'
    BY DEF SoleInv, Sole
  <1>0. /\ UNCHANGED <<pc, last, want, overlapped, outlived>>
        /\ Sole
    BY ThreadStepType DEF ThreadOnly, writeVars, snapVars, ghosts, Sole
  <1>1. /\ ~Idle(th) /\ job[th].owner # "nobody" /\ Track(th)
        /\ \A u \in Threads \ {th} : Idle(u) /\ job'[u] = job[u]
        /\ pc # "down"
    BY <1>0, ThreadJob, DownJobs DEF Sole, SoleInv, OwnedInv, JobsOwned, Idle
  <1>2. /\ Track(th)'
        /\ job'[th].stage # "done" => job[th].stage # "done" /\ fileAt' = fileAt /\ File' = File
    <2>1. CASE OpenTmp(th)
      BY <1>1, <2>1, TrackOpen DEF OpenTmp
    <2>2. CASE WriteTmp(th)
      BY <1>1, <2>2, TrackWrite DEF WriteTmp
    <2>3. CASE RemoveFile(th) \/ ReplaceFile(th)
      BY <1>1, <2>3, TrackEnd
    <2> QED BY <2>1, <2>2, <2>3 DEF ThreadStep
  <1>3. \A u \in Threads : Track(u)'
    <2>1. \A u \in Threads \ {th} : Track(u)'
      BY <1>1, Untracked DEF Idle
    <2> QED BY <1>2, <2>1
  <1>4. \A t, u \in Threads : ~Idle(t)' /\ ~Idle(u)' => t = u
    BY <1>1 DEF Idle
  <1>5. last' # None /\ (\A u \in Threads : job'[u].stage # "done") => SavedAs(last)'
    <2> SUFFICES ASSUME last' # None, \A u \in Threads : job'[u].stage # "done" PROVE SavedAs(last)'
      OBVIOUS
    <2>1. \A u \in Threads : job[u].stage # "done"
      BY <1>1, <1>2 DEF Idle
    <2>2. SavedAs(last)
      BY <1>0, <2>1 DEF Sole, SoleInv
    <2> QED BY <1>0, <1>2, <2>2 DEF SavedAs
  <1> QED BY <1>0, <1>1, <1>3, <1>4, <1>5 DEF SoleInv

\* Without a thread that has opened the file, all that matters is what it was told.
LEMMA Quieted ==
    ASSUME UNCHANGED fsVars,
           \A th \in Threads : job'[th].stage \in {"idle", "called"},
           \A t, u \in Threads : ~Idle(t)' /\ ~Idle(u)' => t = u,
           last' # None => SavedAs(last'),
           pc' = "down" /\ want' # None => SavedAs(want')
    PROVE  SoleInv'
  <1>1. \A th \in Threads : Track(th)'
    BY Untracked
  <1>2. fileAt' = fileAt /\ File' = File
    BY DEF fsVars, File
  <1>3. last' # None => SavedAs(last)'
    BY <1>2 DEF SavedAs
  <1>4. pc' = "down" /\ want' # None => SavedAs(want)'
    BY <1>2 DEF SavedAs
  <1> QED BY <1>1, <1>3, <1>4 DEF SoleInv

\* All threads but one that ends were idle: now all are.
LEMMA EndSole ==
    ASSUME TypeInv, OwnedInv, SoleInv, Sole, NEW th \in Threads, NEW owner, Returned(th, owner)
    PROVE  /\ job[th].ok /\ SavedAs(job[th].doc) /\ job[th].doc \in RealDocs
           /\ \A u \in Threads : [job EXCEPT ![th] = NoJob][u].stage = "idle"
  <1>1. job \in [Threads -> JobType] /\ job[th].doc \in RealDocs
    BY DEF TypeInv, Returned
  <1>2. \A u \in Threads \ {th} : job[u].stage = "idle"
    BY DEF SoleInv, Sole, Returned, Idle
  <1>3. NoJob.stage = "idle"
    BY DEF NoJob
  <1>4. Track(th)
    BY DEF SoleInv, Sole
  <1> QED BY <1>1, <1>2, <1>3, <1>4 DEF Track, Returned

LEMMA WriterSole == ASSUME TypeInv, OwnedInv, SoleInv, WriterStep PROVE SoleInv'
  <1> SUFFICES ASSUME Sole' PROVE SoleInv'
    BY DEF SoleInv, Sole
  <1>0. /\ UNCHANGED <<pc, want, outlived, fsVars>> /\ pc # "down"
        /\ job \in [Threads -> JobType] /\ overlapped \in BOOLEAN
    BY DEF WriterStep, WriterWakes, WriterReturns, Returned, snapVars, ghosts, OwnedInv,
           QuietStart, JobsOwned, TypeInv
  <1>1. CASE WriterWakes /\ want # None /\ Spawn(job, "writer", want, overlapped)
    <2>1. want \in RealDocs /\ "writer" \in Owners
      BY <1>1 DEF TypeInv, Owners
    <2>2. /\ ~overlapped /\ \A th \in Threads : job[th].stage = "idle"
          /\ \A t, u \in Threads : ~Idle(t)' /\ ~Idle(u)' => t = u
          /\ \A th \in Threads : job'[th].stage \in {"idle", "called"}
      BY <1>0, <1>1, <2>1, SpawnSole DEF Sole
    <2>3. last' # None => SavedAs(last')
      BY <1>0, <1>1, <2>2 DEF WriterWakes, Sole, SoleInv
    <2> QED BY <1>0, <2>2, <2>3, Quieted
  <1>2. CASE WriterWakes /\ UNCHANGED <<job, overlapped>>
    BY <1>0, <1>2 DEF WriterWakes, fsVars, SoleInv, Sole, Idle, Track, SavedAs, File
  <1>3. ASSUME NEW th \in Threads, WriterReturns(th) PROVE SoleInv'
    <2>1. Sole /\ job' = [job EXCEPT ![th] = NoJob] /\ Returned(th, "writer") /\ Record(th)
      BY <1>3 DEF WriterReturns, ghosts, Sole
    <2>2. job[th].ok /\ SavedAs(job[th].doc) /\ \A u \in Threads : job'[u].stage = "idle"
      BY <2>1, EndSole
    <2>3. last' = job[th].doc
      BY <2>1, <2>2 DEF Record
    <2>4. SavedAs(last')
      BY <2>2, <2>3
    <2> QED BY <1>0, <2>2, <2>4, Quieted DEF Idle
  <1> QED BY <1>1, <1>2, <1>3 DEF WriterStep, WriterWakes, Pending

\* The driver reports: a thread begins, and nothing was recorded before.
LEMMA ReportSole ==
    ASSUME TypeInv, OwnedInv, Sole', pc \in {"marking", "loading"}, last' = last, UNCHANGED fsVars,
           NEW list \in Seq(Tab), list # <<>>, NEW i \in Nat, NEW jobs \in [Threads -> JobType],
           Report(list, i, jobs)
    PROVE  SoleInv'
  <1>1. /\ pc' = "reporting" /\ Snapshot(list, i) \in RealDocs
        /\ Spawn(jobs, "driver", Snapshot(list, i), overlapped)
    BY ReportSpawns
  <1>2. overlapped \in BOOLEAN /\ "driver" \in Owners /\ last = None
    BY DEF TypeInv, Owners, OwnedInv, QuietStart
  <1>3. /\ \A t, u \in Threads : ~Idle(t)' /\ ~Idle(u)' => t = u
        /\ \A th \in Threads : job'[th].stage \in {"idle", "called"}
    BY <1>1, <1>2, SpawnSole DEF Sole
  <1> QED BY <1>1, <1>2, <1>3, Quieted

LEMMA ReplaySole ==
    ASSUME TypeInv, OwnedInv, SoleInv, NEW th \in Threads, Replay(th) PROVE SoleInv'
  <1> SUFFICES ASSUME Sole' PROVE SoleInv'
    BY DEF SoleInv, Sole
  <1> DEFINE list == Parked(saved.urls)
             i == IF saved.active \in DOMAIN list THEN saved.active ELSE 1
             loaded == IF LoadActive THEN Hydrate(list, i) ELSE list
             jobs == [job EXCEPT ![th] = NoJob]
  <1>1. saved \in RealDocs /\ pc = "marking" /\ Returned(th, "driver")
    BY DEF Replay, TypeInv, Restoring
  <1>2. /\ IF loaded = list THEN Report(list, i, jobs)
           ELSE /\ pc' = "loading"
                /\ job' = jobs
                /\ UNCHANGED <<snapVars, overlapped>>
        /\ UNCHANGED <<last, saved, writer, fsVars, diedLoading, outlived>>
    BY DEF Replay, MarkApart, Parked
  <1>3. list \in Seq(Tab) /\ list # <<>> /\ i \in Nat
    BY <1>1, DocTypes, ParkedType
  <1>4. jobs \in [Threads -> JobType]
    BY WithoutJob DEF AreJobs
  <1> HIDE DEF list, i, loaded
  <1>5. CASE Report(list, i, jobs)
    <2> HIDE DEF jobs
    <2> QED BY <1>1, <1>2, <1>3, <1>4, <1>5, ReportSole
  <1>6. CASE pc' = "loading" /\ job' = jobs /\ UNCHANGED overlapped
    <2>1. Sole
      BY <1>2, <1>6 DEF Sole
    <2>2. \A u \in Threads : job'[u].stage = "idle"
      BY <1>1, <1>6, <2>1, EndSole
    <2>3. last' = None
      BY <1>1, <1>2 DEF OwnedInv, QuietStart
    <2> HIDE DEF jobs
    <2> QED BY <1>2, <1>6, <2>2, <2>3, Quieted DEF Idle
  <1> QED BY <1>2, <1>5, <1>6

\* A driver that is closed has what it was last told in the file.
LEMMA StopSole ==
    ASSUME TypeInv, OwnedInv, SoleInv, NEW jobs, StopWriter(jobs), UNCHANGED <<want, fsVars>>,
           \/ jobs = job /\ pc = "quitting"
           \/ \E th \in Threads : Returned(th, "driver") /\ jobs = [job EXCEPT ![th] = NoJob],
           Sole /\ (\A u \in Threads : jobs[u] = NoJob) => want = None \/ SavedAs(want)
    PROVE  SoleInv'
  <1> SUFFICES ASSUME Sole' PROVE SoleInv'
    BY DEF SoleInv, Sole
  <1>1. UNCHANGED <<fileAt, tmpAt>>
    BY DEF fsVars
  <1>2. \A th \in Threads : job'[th].stage = "idle" /\ jobs[th] = NoJob
    BY <1>1, StopOwned DEF Sole
  <1>3. Sole /\ last' = None
    BY DEF StopWriter, Gone, Sole
  <1>4. want' # None => SavedAs(want')
    BY <1>2, <1>3
  <1> QED BY <1>2, <1>3, <1>4, Quieted DEF Idle

LEMMA StartSole == ASSUME TypeInv, OwnedInv, SoleInv, Start PROVE SoleInv'
  <1> SUFFICES ASSUME Sole' PROVE SoleInv'
    BY DEF SoleInv, Sole
  <1>1. /\ UNCHANGED fsVars /\ last' = None /\ pc' # "down" /\ job \in [Threads -> JobType]
    BY DEF Start, TypeInv
  <1>2. CASE Readable
    <2> DEFINE doc == Mark(Capped(File))
    <2>1. File \in RealDocs
      BY <1>2 DEF Readable, File, TypeInv
    <2>2. doc \in RealDocs /\ "driver" \in Owners
      BY <2>1, CappedType, MarkType DEF Owners
    <2>3. Spawn(job, "driver", doc, FALSE)
      BY <1>2 DEF Start
    <2> HIDE DEF doc
    <2>4. /\ \A t, u \in Threads : ~Idle(t)' /\ ~Idle(u)' => t = u
          /\ \A th \in Threads : job'[th].stage \in {"idle", "called"}
      BY <1>1, <2>2, <2>3, SpawnSole DEF Sole
    <2> QED BY <1>1, <2>4, Quieted
  <1>3. CASE ~Readable
    <2>1. job' = job /\ \A th \in Threads : job[th].stage = "idle"
      BY <1>3, DownJobs DEF Start, Busy, Sole
    <2> QED BY <1>1, <2>1, Quieted DEF Idle
  <1> QED BY <1>2, <1>3

LEMMA DriverSole == ASSUME TypeInv, OwnedInv, SoleInv, FlushInv, DriverStep PROVE SoleInv'
  <1>0. job \in [Threads -> JobType] /\ overlapped \in BOOLEAN /\ "driver" \in Owners
    BY DEF TypeInv, Owners
  <1>1. CASE Restored
    <2>1. tabs \in Seq(Tab) /\ tabs # <<>> /\ active \in Nat
      BY <1>1 DEF Restored, TypeInv
    <2>2. Sole' => SoleInv'
      BY <1>0, <1>1, <2>1, ReportSole DEF Restored, writeVars
    <2> QED BY <2>2 DEF Sole, SoleInv
  <1>2. CASE StopPersisting
    <2>0. pc = "quitting" /\ UNCHANGED <<want, fsVars>>
      BY <1>2 DEF StopPersisting
    <2>1. CASE StopWriter(job) /\ ~Pending
      <3>1. Sole /\ (\A u \in Threads : job[u] = NoJob) => want = None \/ SavedAs(want)
        <4>1. NoJob.stage # "done"
          BY DEF NoJob
        <4> QED BY <2>1, <4>1 DEF Pending, Sole, SoleInv
      <3> QED BY <2>0, <2>1, <3>1, StopSole
    <2>2. CASE Pending /\ pc' = "flushing" /\ Spawn(job, "driver", want, overlapped)
               /\ UNCHANGED <<last, outlived>>
      <3> SUFFICES ASSUME Sole' PROVE SoleInv'
        BY DEF SoleInv, Sole
      <3>1. want \in RealDocs
        BY <2>2 DEF Pending, TypeInv
      <3>2. /\ ~overlapped /\ \A th \in Threads : job[th].stage = "idle"
            /\ \A t, u \in Threads : ~Idle(t)' /\ ~Idle(u)' => t = u
            /\ \A th \in Threads : job'[th].stage \in {"idle", "called"}
        BY <1>0, <2>2, <3>1, SpawnSole DEF Sole
      <3>3. last' # None => SavedAs(last')
        BY <2>2, <3>2 DEF Sole, SoleInv
      <3> QED BY <2>0, <2>2, <3>2, <3>3, Quieted
    <2> QED BY <1>2, <2>1, <2>2 DEF StopPersisting, writeVars
  <1>3. ASSUME NEW th \in Threads, StartFails(th) PROVE SoleInv'
    <2>1. want = None
      BY <1>3 DEF StartFails, OwnedInv, QuietStart
    <2> QED BY <1>3, <2>1, StopSole DEF StartFails
  <1>4. ASSUME NEW th \in Threads, Flushed(th) PROVE SoleInv'
    <2>1. Sole => SavedAs(job[th].doc)
      BY <1>4, EndSole DEF Flushed
    <2>2. job[th].doc = want
      BY <1>4 DEF Flushed, Returned, FlushInv
    <2>3. Sole => SavedAs(want)
      BY <2>1, <2>2
    <2> QED BY <1>4, <2>3, StopSole DEF Flushed
  <1>5. ASSUME NEW th \in Threads, Reported(th) PROVE SoleInv'
    <2> SUFFICES ASSUME Sole' PROVE SoleInv'
      BY DEF SoleInv, Sole
    <2>1. /\ Sole /\ job' = [job EXCEPT ![th] = NoJob] /\ Returned(th, "driver") /\ Record(th)
          /\ pc' = "up" /\ UNCHANGED fsVars
      BY <1>5 DEF Reported, Sole
    <2>2. job[th].ok /\ SavedAs(job[th].doc) /\ \A u \in Threads : job'[u].stage = "idle"
      BY <2>1, EndSole
    <2>3. last' = job[th].doc
      BY <2>1, <2>2 DEF Record
    <2>4. SavedAs(last')
      BY <2>2, <2>3
    <2> QED BY <2>1, <2>2, <2>4, Quieted DEF Idle
  <1>6. CASE Close
    BY <1>6, CloseOnly DEF fsVars, SoleInv, Idle, Track, SavedAs, File
  <1> QED BY <1>1, <1>6, <1>2, <1>3, <1>4, <1>5, StartSole, ReplaySole DEF DriverStep

LEMMA FlushStep == ASSUME TypeInv, OwnedInv, FlushInv, [Next]_vars PROVE FlushInv'
  <1>0. job \in [Threads -> JobType] /\ NoJob.owner = "nobody" /\ overlapped \in BOOLEAN
    BY DEF TypeInv, NoJob
  <1>1. CASE TabStep
    BY <1>1, TabStepType DEF TabsOnly, BrowserUp, InUse, FlushInv
  <1>2. ASSUME NEW th \in Threads, ThreadStep(th) PROVE FlushInv'
    <2>1. pc' = pc /\ want' = want
      BY <1>2, ThreadStepType DEF ThreadOnly, snapVars
    <2>2. \A u \in Threads : job'[u].owner = "driver" =>
             job[u].owner = "driver" /\ job'[u].doc = job[u].doc
      BY <1>0, <1>2, ThreadJob DEF OwnedInv
    <2> QED BY <2>1, <2>2 DEF FlushInv
  <1>3. CASE WriterWakes
    <2>1. CASE UNCHANGED job
      BY <1>3, <2>1 DEF WriterWakes, FlushInv
    <2>2. CASE want # None /\ Spawn(job, "writer", want, overlapped)
      <3>1. want \in RealDocs /\ "writer" \in Owners
        BY <2>2 DEF TypeInv, Owners
      <3>2. PICK th \in Threads : job' = [job EXCEPT ![th] = NewJob("writer", want)]
        BY <1>0, <2>2, <3>1, SpawnJob
      <3>3. job'[th].owner = "writer" /\ \A u \in Threads \ {th} : job'[u] = job[u]
        BY <1>0, <3>1, <3>2, NewJobType
      <3> QED BY <1>3, <3>3 DEF WriterWakes, FlushInv
    <2> QED BY <1>3, <2>1, <2>2 DEF WriterWakes, Pending
  <1>4. ASSUME NEW th \in Threads, WriterReturns(th) PROVE FlushInv'
    BY <1>0, <1>4 DEF WriterReturns, snapVars, FlushInv
  <1>5. CASE StopPersisting
    <2>1. CASE pc' # "flushing"
      BY <2>1 DEF FlushInv
    <2>2. CASE Pending /\ Spawn(job, "driver", want, overlapped)
      <3>1. want \in RealDocs /\ want' = want /\ "driver" \in Owners /\ pc = "quitting"
        BY <1>5, <2>2 DEF StopPersisting, Pending, TypeInv, Owners
      <3>2. PICK th \in Threads : job' = [job EXCEPT ![th] = NewJob("driver", want)]
        BY <1>0, <2>2, <3>1, SpawnJob
      <3>3. job'[th].doc = want /\ \A u \in Threads \ {th} : job'[u] = job[u]
        BY <1>0, <3>1, <3>2, NewJobType
      <3> QED BY <3>1, <3>3 DEF OwnedInv, JobsOwned, FlushInv
    <2> QED BY <1>5, <2>1, <2>2 DEF StopPersisting, StopWriter, Gone
  <1>6. CASE Start \/ Restored \/ Crash
    BY <1>6 DEF Start, Restored, Report, Crash, Gone, FlushInv
  <1>7. ASSUME NEW th \in Threads, Replay(th) \/ StartFails(th) \/ Reported(th) \/ Flushed(th)
        PROVE  FlushInv'
    BY <1>7 DEF Replay, Report, StartFails, Reported, Flushed, StopWriter, Gone, FlushInv
  <1>8. CASE UNCHANGED vars
    BY <1>8 DEF vars, snapVars, FlushInv
  <1>9. CASE Close
    BY <1>9, CloseOnly DEF FlushInv
  <1> QED BY <1>1, <1>9, <1>2, <1>3, <1>4, <1>5, <1>6, <1>7, <1>8 DEF Next, WriterStep, DriverStep

LEMMA SoleStep == ASSUME TypeInv, OwnedInv, SoleInv, FlushInv, [Next]_vars PROVE SoleInv'
  <1>1. CASE TabStep
    <2>1. UNCHANGED <<pc, job, last, outlived, overlapped, fsVars>> /\ pc # "down"
      BY <1>1, TabStepType DEF TabsOnly, BrowserUp, InUse, writeVars, ghosts
    <2> QED BY <2>1 DEF fsVars, SoleInv, Idle, Track, SavedAs, File
  <1>2. CASE Crash
    <2> SUFFICES ASSUME Sole' PROVE SoleInv'
      BY DEF SoleInv, Sole
    <2>1. last' = None /\ want' = None /\ ~outlived
      BY <1>2 DEF Crash, Gone, Sole
    <2>2. \A th \in Threads : job'[th].stage = "idle"
      BY <1>2, <2>1, CrashOwned DEF NoJob
    <2>3. \A th \in Threads : Track(th)'
      BY <2>2, Untracked
    <2> QED BY <2>1, <2>2, <2>3 DEF SoleInv, Idle
  <1>3. CASE UNCHANGED vars
    BY <1>3 DEF vars, snapVars, writeVars, ghosts, fsVars, SoleInv, Idle, Track, SavedAs, File
  <1> QED BY <1>1, <1>2, <1>3, ThreadSole, WriterSole, DriverSole DEF Next

LEMMA SoleCorrect == Spec => []SoleInv
  <1>1. Init => SoleInv /\ FlushInv
    BY DEF Init, SoleInv, FlushInv, Idle, Track, NoJob
  <1>2. TypeInv /\ OwnedInv /\ SoleInv /\ FlushInv /\ [Next]_vars => (SoleInv /\ FlushInv)'
    BY SoleStep, FlushStep
  <1> QED BY <1>1, <1>2, TypeCorrectInv, OwnedCorrect, PTL DEF Spec

\* The file of a driver that was closed is the last snapshot it took, or there is none
\* when every tab was blank, as long as no two threads wrote at a time and nobody was
\* closed while its writer waited.
THEOREM CloseKeepsSnapshot == Spec => []ClosedIsSaved
  <1>1. SoleInv => ClosedIsSaved
    BY DEF SoleInv, ClosedIsSaved, Saved, SavedAs
  <1> QED BY <1>1, SoleCorrect, PTL

-----------------------------------------------------------------------------
(* No snapshot is forgotten: the report leaves the event set, and the event   *)
(* is only cleared for a snapshot that is written now or that is the file.    *)

Carried == \E th \in Threads : job[th].owner = "writer" /\ job[th].doc = want
AllIdle == \A th \in Threads : Idle(th)

WakeInv ==
    /\ pc # "down" => writer # "none"
    /\ ~outlived /\ ~overlapped =>
        /\ pc = "reporting" =>
             /\ wake /\ want # None /\ last = None
             /\ \E th \in Threads : job[th].owner = "driver"
        /\ InUse /\ want # None => wake \/ (SavedAs(want) /\ AllIdle) \/ Carried

\* An operation that takes a snapshot calls the writer there is.
LEMMA TabCalls ==
    ASSUME TabStep
    PROVE  UNCHANGED snapVars \/ wake' = (writer # "none")
  <1>1. ASSUME NEW list, NEW i, Persist(list, i)
        PROVE  UNCHANGED snapVars \/ wake' = (writer # "none")
    BY <1>1 DEF Persist
  <1>2. ASSUME NEW list, NEW i, Operate(list, i)
        PROVE  UNCHANGED snapVars \/ wake' = (writer # "none")
    BY <1>1, <1>2 DEF Operate
  <1>3. CASE NewTab \/ SiteOpens \/ Open
    BY <1>2, <1>3 DEF NewTab, SiteOpens, Open
  <1>4. ASSUME NEW i \in DOMAIN tabs, SwitchTab(i) \/ CloseTab(i)
        PROVE  UNCHANGED snapVars \/ wake' = (writer # "none")
    BY <1>1, <1>2, <1>4 DEF SwitchTab, CloseTab
  <1>5. ASSUME NEW i \in DOMAIN tabs, Navigated(i) \/ LoadFails(i)
        PROVE  UNCHANGED snapVars \/ wake' = (writer # "none")
    BY <1>1, <1>5 DEF Navigated, LoadFails
  <1> QED BY <1>3, <1>4, <1>5 DEF TabStep

LEMMA TabWake == ASSUME TypeInv, WakeInv, TabStep PROVE WakeInv'
  <1>1. UNCHANGED <<pc, writer, last, job, overlapped, outlived, fileAt, disk>> /\ pc # "down"
    BY TabStepType DEF TabsOnly, BrowserUp, InUse, writeVars, ghosts, fsVars
  <1>2. writer # "none"
    BY <1>1 DEF WakeInv
  <1>3. CASE UNCHANGED snapVars
    BY <1>1, <1>3 DEF InUse, snapVars, WakeInv, Carried, AllIdle, Idle, SavedAs, File
  <1>4. CASE wake' = (writer # "none") /\ ~UNCHANGED snapVars
    <2>1. wake'
      BY <1>2, <1>4
    <2>2. Sole /\ pc = "reporting" => want' # None
      <3>1. want' = want \/ \E list \in Seq(Tab), i \in Nat : list # <<>> /\ want' = Snapshot(list, i)
        BY TabStepType DEF TabsOnly
      <3>2. CASE want' = want
        BY <3>2 DEF WakeInv, Sole
      <3>3. ASSUME NEW list \in Seq(Tab), NEW i \in Nat, list # <<>>, want' = Snapshot(list, i)
            PROVE  want' # None
        <4>1. want' \in RealDocs
          BY <3>3, SnapshotType
        <4> QED BY <4>1, DocTypes
      <3> QED BY <3>1, <3>2, <3>3
    <2>3. CASE Sole
      BY <1>1, <1>2, <2>1, <2>2, <2>3 DEF WakeInv, Sole
    <2> QED BY <1>1, <1>2, <2>3 DEF WakeInv, Sole
  <1> QED BY <1>3, <1>4, TabCalls

\* The thread that carries the snapshot goes on carrying it.
LEMMA ThreadWake ==
    ASSUME TypeInv, OwnedInv, WakeInv, NEW th \in Threads, ThreadStep(th) PROVE WakeInv'
  <1>0. UNCHANGED <<pc, want, wake, writer, last, overlapped, outlived>>
    BY ThreadStepType DEF ThreadOnly, snapVars, writeVars, ghosts
  <1>1. /\ ~Idle(th) /\ \A u \in Threads \ {th} : job'[u] = job[u]
        /\ job[th].owner = "nobody" \/ (job'[th].owner = job[th].owner /\ job'[th].doc = job[th].doc)
    BY ThreadJob DEF OwnedInv
  <1>2. \A u \in Threads : job[u].owner # "nobody" =>
           job'[u].owner = job[u].owner /\ job'[u].doc = job[u].doc
    BY <1>1
  <1>3. ~AllIdle
    BY <1>1 DEF AllIdle
  <1>4. Carried => Carried'
    BY <1>0, <1>2 DEF Carried
  <1>5. (\E u \in Threads : job[u].owner = "driver") => (\E u \in Threads : job'[u].owner = "driver")
    BY <1>2
  <1> QED BY <1>0, <1>3, <1>4, <1>5 DEF InUse, WakeInv

\* A writer that waits is alone with the file once the driver is up.
LEMMA WaitingAlone ==
    ASSUME TypeInv, OwnedInv, ~outlived, writer = "waiting", InUse
    PROVE  AllIdle
  BY DEF InUse, TypeInv, JobType, Owners, OwnedInv, JobsOwned, AllIdle, Idle

LEMMA WriterWake == ASSUME TypeInv, OwnedInv, SoleInv, WakeInv, WriterStep PROVE WakeInv'
  <1>0. /\ UNCHANGED <<pc, want, outlived, fileAt, disk>> /\ writer' # "none"
        /\ job \in [Threads -> JobType] /\ overlapped \in BOOLEAN
    BY DEF WriterStep, WriterWakes, WriterReturns, Returned, snapVars, ghosts, fsVars, TypeInv
  <1> SUFFICES ASSUME Sole' PROVE WakeInv'
    BY <1>0 DEF WakeInv, Sole
  <1>1. CASE WriterWakes /\ Pending /\ Spawn(job, "writer", want, overlapped)
    <2>1. want \in RealDocs /\ "writer" \in Owners
      BY <1>1 DEF TypeInv, Owners, Pending
    <2>2. ~overlapped /\ \A th \in Threads : job[th].stage = "idle"
      BY <1>0, <1>1, <2>1, SpawnSole DEF Sole
    <2>3. pc # "reporting"
      BY <1>0, <2>2 DEF WakeInv, Sole, OwnedInv, JobsOwned, JobShape, NoJob
    <2>4. PICK th \in Threads : job' = [job EXCEPT ![th] = NewJob("writer", want)]
      BY <1>0, <1>1, <2>1, SpawnJob
    <2>5. job'[th].owner = "writer" /\ job'[th].doc = want
      BY <1>0, <2>1, <2>4, NewJobType
    <2>6. Carried'
      BY <1>0, <2>5 DEF Carried
    <2> QED BY <1>0, <2>3, <2>6 DEF WakeInv
  <1>2. CASE WriterWakes /\ ~Pending /\ UNCHANGED <<job, overlapped>>
    <2>1. Sole /\ writer = "waiting"
      BY <1>0, <1>2 DEF Sole, WriterWakes
    <2>2. pc # "reporting"
      BY <1>2, <2>1 DEF WakeInv, Sole, Pending
    <2>3. ASSUME InUse, want # None PROVE SavedAs(want) /\ AllIdle
      <3>1. AllIdle
        BY <2>1, <2>3, WaitingAlone DEF Sole
      <3>2. want = last
        BY <1>2, <2>3 DEF Pending
      <3> QED BY <2>1, <2>3, <3>1, <3>2 DEF AllIdle, Idle, Sole, SoleInv
    <2>4. InUse' /\ want' # None => SavedAs(want)' /\ AllIdle'
      BY <1>0, <1>2, <2>3 DEF InUse, SavedAs, File, AllIdle, Idle
    <2> QED BY <1>0, <2>2, <2>4 DEF WakeInv
  <1>3. ASSUME NEW th \in Threads, WriterReturns(th) PROVE WakeInv'
    <2>1. /\ Sole /\ job' = [job EXCEPT ![th] = NoJob] /\ Returned(th, "writer")
          /\ wake' = wake
      BY <1>3 DEF WriterReturns, ghosts, snapVars, Sole
    <2>2. SavedAs(job[th].doc) /\ AllIdle'
      BY <2>1, EndSole DEF AllIdle, Idle
    <2>3. pc # "reporting"
      <3>1. SUFFICES ASSUME NEW u \in Threads, job[u].owner = "driver" PROVE FALSE
        BY <2>1 DEF WakeInv, Sole
      <3>2. ~Idle(u) /\ ~Idle(th) /\ u # th
        BY <2>1, <3>1 DEF OwnedInv, JobsOwned, JobShape, NoJob, Idle, Returned
      <3> QED BY <2>1, <3>2 DEF Sole, SoleInv
    <2>4. ASSUME Carried PROVE SavedAs(want)
      BY <2>1, <2>2, <2>4 DEF Carried, Returned, OwnedInv, JobsOwned, Apart
    <2>5. SavedAs(want) => SavedAs(want)'
      BY <1>0 DEF SavedAs, File
    <2> QED BY <1>0, <2>1, <2>2, <2>3, <2>4, <2>5 DEF InUse, WakeInv, Sole
  <1> QED BY <1>1, <1>2, <1>3 DEF WriterStep, WriterWakes

\* The report is on its way with the event set, and nothing recorded before it.
LEMMA ReportWake ==
    ASSUME TypeInv, OwnedInv, WakeInv, pc \in {"marking", "loading"}, UNCHANGED <<last, writer>>,
           NEW list \in Seq(Tab), list # <<>>, NEW i \in Nat, NEW jobs \in [Threads -> JobType],
           Report(list, i, jobs)
    PROVE  WakeInv'
  <1>1. /\ pc' = "reporting" /\ want' \in RealDocs /\ Snapshot(list, i) \in RealDocs
        /\ Spawn(jobs, "driver", Snapshot(list, i), overlapped)
    BY ReportSpawns
  <1>2. wake' /\ overlapped \in BOOLEAN /\ "driver" \in Owners
    BY DEF Report, TypeInv, Owners
  <1>3. PICK th \in Threads : job' = [jobs EXCEPT ![th] = NewJob("driver", Snapshot(list, i))]
    BY <1>1, <1>2, SpawnJob
  <1>4. job'[th].owner = "driver"
    BY <1>1, <1>2, <1>3, NewJobType
  <1>5. want' # None
    BY <1>1, DocTypes
  <1>6. writer' # "none" /\ last' = None
    BY DEF WakeInv, OwnedInv, QuietStart
  <1> QED BY <1>1, <1>2, <1>4, <1>5, <1>6 DEF WakeInv

LEMMA DriverWake == ASSUME TypeInv, OwnedInv, WakeInv, DriverStep PROVE WakeInv'
  <1>1. CASE Start
    BY <1>1 DEF Start, WakeInv
  <1>2. CASE Restored
    <2>1. tabs \in Seq(Tab) /\ tabs # <<>> /\ active \in Nat /\ job \in [Threads -> JobType]
      BY <1>2 DEF Restored, TypeInv
    <2> QED BY <1>2, <2>1, ReportWake DEF Restored, writeVars
  <1>3. CASE StopPersisting
    BY <1>3 DEF InUse, StopPersisting, StopWriter, Gone, WakeInv, writeVars
  <1>4. ASSUME NEW th \in Threads, StartFails(th) \/ Flushed(th) PROVE WakeInv'
    BY <1>4 DEF InUse, StartFails, Flushed, StopWriter, Gone, WakeInv
  <1>5. ASSUME NEW th \in Threads, Reported(th) PROVE WakeInv'
    <2>1. pc = "reporting" /\ pc' = "up" /\ UNCHANGED <<want, wake, writer, overlapped, outlived>>
      BY <1>5 DEF Reported, snapVars
    <2> QED BY <2>1 DEF WakeInv
  <1>6. ASSUME NEW th \in Threads, Replay(th) PROVE WakeInv'
    <2> DEFINE list == Parked(saved.urls)
               i == IF saved.active \in DOMAIN list THEN saved.active ELSE 1
               loaded == IF LoadActive THEN Hydrate(list, i) ELSE list
               jobs == [job EXCEPT ![th] = NoJob]
    <2>1. saved \in RealDocs /\ pc = "marking"
      BY <1>6 DEF Replay, TypeInv, Restoring
    <2>2. /\ Report(list, i, jobs) \/ pc' = "loading"
          /\ UNCHANGED <<last, writer>>
      BY <1>6 DEF Replay, MarkApart, Parked
    <2>3. list \in Seq(Tab) /\ list # <<>> /\ i \in Nat
      BY <2>1, DocTypes, ParkedType
    <2>4. jobs \in [Threads -> JobType]
      BY WithoutJob DEF AreJobs
    <2> HIDE DEF list, i, loaded, jobs
    <2>5. CASE Report(list, i, jobs)
      BY <2>1, <2>2, <2>3, <2>4, <2>5, ReportWake
    <2>6. CASE pc' = "loading"
      BY <2>1, <2>2, <2>6 DEF InUse, WakeInv
    <2> QED BY <2>2, <2>5, <2>6
  <1>10. CASE Close
    BY <1>10, CloseOnly DEF fsVars, InUse, WakeInv, Carried, AllIdle, Idle, SavedAs, File
  <1> QED BY <1>1, <1>10, <1>2, <1>3, <1>4, <1>5, <1>6 DEF DriverStep

LEMMA WakeStep == ASSUME TypeInv, OwnedInv, SoleInv, WakeInv, [Next]_vars PROVE WakeInv'
  <1>1. CASE Crash
    BY <1>1 DEF Crash, Gone, WakeInv
  <1>2. CASE UNCHANGED vars
    BY <1>2 DEF InUse, vars, snapVars, writeVars, ghosts, fsVars, WakeInv, Carried, AllIdle, Idle,
                SavedAs, File
  <1> QED BY <1>1, <1>2, TabWake, ThreadWake, WriterWake, DriverWake DEF Next

\* While a driver is up, its latest snapshot is the file, or the writer is called, or a
\* thread of the writer carries this very snapshot: none is forgotten, unless two threads
\* wrote at a time or a driver was closed while its writer waited.
THEOREM NoSnapshotForgotten == Spec => []SnapshotUnderWay
  <1>1. Init => WakeInv
    BY DEF Init, WakeInv
  <1>2. TypeInv /\ OwnedInv /\ SoleInv /\ WakeInv /\ [Next]_vars => WakeInv'
    BY WakeStep
  <1>3. WakeInv => SnapshotUnderWay
    BY DEF WakeInv, SnapshotUnderWay, Saved, SavedAs, Carried
  <1> QED BY <1>1, <1>2, <1>3, TypeCorrectInv, OwnedCorrect, SoleCorrect, PTL DEF Spec

-----------------------------------------------------------------------------
(* The mark is in the file while the restore runs, and gone with its report.  *)

LEMMA PlainContents ==
    /\ Unmarked(None) /\ Unmarked(Empty) /\ Unmarked(Garbled) /\ Unmarked(NoJob.doc)
    /\ \A d : Unmarked(d) \/ d \in RealDocs
  BY DocTypes DEF Unmarked, NoJob

\* What snapshots and the threads that write them are made of.
PlainJobs ==
    /\ \A th \in Threads : Unmarked(job[th].doc)
    /\ tmpAt # NoInode /\ (\E th \in Threads : job[th].stage \in {"open", "written"})
         => Unmarked(disk[tmpAt])

LEMMA PlainStep ==
    ASSUME TypeInv, OwnedInv, PlainJobs, NEW th \in Threads, ThreadStep(th)
    PROVE  /\ PlainJobs'
           /\ FileUnmarked => FileUnmarked'
           /\ tmpAt = NoInode \/ tmpAt' # NoInode \/ FileUnmarked'
           /\ job'[th].stage \in {"open", "written"} => tmpAt' # NoInode \/ tmpAt' = tmpAt
           /\ job[th].stage = "called" /\ job'[th].stage \in {"open", "written"} => tmpAt' # NoInode
           /\ job[th].stage = "called" /\ job'[th].stage = "done" => FileUnmarked'
  <1>0. /\ job \in [Threads -> JobType] /\ job[th] \in JobType
        /\ disk \in [Inodes -> RealDocs \cup {Empty, Garbled}]
        /\ fileAt \in Inodes \cup {NoInode} /\ tmpAt \in Inodes \cup {NoInode}
        /\ NoJob.stage = "idle"
    BY DEF TypeInv, NoJob
  <1>1. \A u \in Threads : Unmarked(job'[u].doc)
    <2>1. \A u \in Threads : job'[u] = NoJob \/ job'[u].doc = job[u].doc
      BY ThreadJob DEF OwnedInv
    <2> QED BY <2>1, PlainContents DEF PlainJobs
  <1>2. \A u \in Threads \ {th} : job'[u] = job[u]
    BY ThreadJob DEF OwnedInv
  <1>3. CASE RemoveFile(th)
    <2>1. /\ fileAt' = NoInode /\ tmpAt' = tmpAt /\ disk' = Linked(disk, {tmpAt}, job)
          /\ job[th].stage = "called" /\ job' = [job EXCEPT ![th] = Ended(th, TRUE)]
      BY <1>3 DEF RemoveFile
    <2>2. job'[th].stage \in {"idle", "done"}
      BY <1>0, <2>1, EndedJob
    <2>3. tmpAt # NoInode => disk'[tmpAt] = disk[tmpAt]
      BY <1>0, <2>1, LinkedType
    <2>4. PlainJobs'
      BY <1>1, <1>2, <2>1, <2>2, <2>3 DEF PlainJobs
    <2>5. FileUnmarked'
      BY <2>1 DEF FileUnmarked
    <2> QED BY <2>1, <2>2, <2>4, <2>5
  <1>4. CASE OpenTmp(th)
    <2>1. PICK i \in Inodes : /\ tmpAt' = i /\ i # fileAt
                              /\ disk' = [disk EXCEPT ![i] = Empty]
                              /\ job' = [job EXCEPT ![th].stage = "open", ![th].inode = i]
      <3>1. /\ (IF tmpAt = NoInode THEN FreeInodes ELSE {tmpAt}) \subseteq Inodes
            /\ \A i \in IF tmpAt = NoInode THEN FreeInodes ELSE {tmpAt} : i # fileAt
        BY <1>0 DEF FreeInodes, OwnedInv, QuietStart
      <3> QED BY <1>4, <3>1 DEF OpenTmp
    <2>2. job'[th].stage = "open"
      BY <1>0, <2>1 DEF JobType
    <2>3. tmpAt' # NoInode /\ disk'[tmpAt'] = Empty /\ fileAt' = fileAt
          /\ (fileAt # NoInode => disk'[fileAt] = disk[fileAt])
      BY <1>0, <1>4, <2>1, PoolAssumption DEF OpenTmp
    <2>4. PlainJobs'
      BY <1>1, <2>3, PlainContents DEF PlainJobs
    <2>5. FileUnmarked => FileUnmarked'
      BY <2>3 DEF FileUnmarked
    <2> QED BY <2>2, <2>3, <2>4, <2>5
  <1>5. CASE WriteTmp(th)
    <2>1. job[th].stage = "open" /\ job[th].inode # NoInode /\ job[th].inode \in Inodes
          /\ job[th].doc \in RealDocs
      BY <1>0, <1>5 DEF WriteTmp, OwnedInv, JobsOwned, JobShape, JobType, TypeInv
    <2>2. PICK c \in {job[th].doc, Garbled} :
             disk' = Linked([disk EXCEPT ![job[th].inode] = c], {fileAt, tmpAt}, job')
      BY <1>5 DEF WriteTmp, Overwritten
    <2> DEFINE content == [disk EXCEPT ![job[th].inode] = c]
    <2>3. /\ content \in [Inodes -> RealDocs \cup {Empty, Garbled}]
          /\ \A i \in Inodes : content[i] \in {c, disk[i]}
      BY <1>0, <2>1, <2>2
    <2>4. disk' = Linked(content, {fileAt, tmpAt}, job')
      BY <2>2
    <2> HIDE DEF content
    <2>5. \A i \in {fileAt, tmpAt} : i # NoInode => disk'[i] \in {c, disk[i]}
      BY <1>0, <2>3, <2>4, LinkedType
    <2>6. Unmarked(c)
      BY <2>2, PlainContents DEF PlainJobs
    <2>7. fileAt' = fileAt /\ tmpAt' = tmpAt
      BY <1>5 DEF WriteTmp
    <2>8. PlainJobs'
      BY <1>1, <2>1, <2>5, <2>6, <2>7 DEF PlainJobs
    <2>9. FileUnmarked => FileUnmarked'
      BY <2>5, <2>6, <2>7 DEF FileUnmarked
    <2> QED BY <2>1, <2>7, <2>8, <2>9
  <1>6. CASE ReplaceFile(th)
    <2>1. /\ job[th].stage = "written" /\ tmpAt' = NoInode /\ disk' = Linked(disk, {fileAt'}, job)
          /\ fileAt' = IF tmpAt = NoInode THEN fileAt ELSE tmpAt
      BY <1>6 DEF ReplaceFile
    <2>2. fileAt' # NoInode => disk'[fileAt'] = disk[fileAt']
      BY <1>0, <2>1, LinkedType
    <2>3. PlainJobs'
      BY <1>1, <2>1 DEF PlainJobs
    <2>4. tmpAt = NoInode /\ FileUnmarked => FileUnmarked'
      BY <2>1, <2>2 DEF FileUnmarked
    <2>5. tmpAt # NoInode => FileUnmarked'
      <3>1. tmpAt # NoInode => Unmarked(disk[tmpAt])
        BY <2>1 DEF PlainJobs
      <3> QED BY <2>1, <2>2, <3>1 DEF FileUnmarked
    <2>6. job'[th].stage \in {"idle", "done"}
      <3> DEFINE ok == tmpAt # NoInode
      <3>1. job'[th] = Ended(th, ok)
        BY <1>0, <1>6 DEF ReplaceFile
      <3>2. ok \in BOOLEAN
        OBVIOUS
      <3> HIDE DEF ok
      <3> QED BY <1>0, <3>1, <3>2, EndedJob
    <2> QED BY <2>1, <2>3, <2>4, <2>5, <2>6
  <1> QED BY <1>3, <1>4, <1>5, <1>6 DEF ThreadStep

\* A thread that begins with a snapshot changes nothing about the files.
LEMMA PlainSpawn ==
    ASSUME NEW jobs \in [Threads -> JobType], NEW owner \in Owners, NEW doc \in RealDocs,
           NEW before \in BOOLEAN, Spawn(jobs, owner, doc, before), UNCHANGED fsVars,
           Unmarked(doc), \A th \in Threads : Unmarked(jobs[th].doc),
           \/ \A th \in Threads : jobs[th].stage = "idle"
           \/ jobs = job /\ PlainJobs
    PROVE  /\ PlainJobs'
           /\ \A th \in Threads : job'[th] = jobs[th] \/ job'[th].stage = "called"
  <1>1. PICK th \in Threads : /\ jobs[th].stage = "idle"
                              /\ job' = [jobs EXCEPT ![th] = NewJob(owner, doc)]
    BY SpawnJob
  <1>2. /\ job'[th].stage = "called" /\ job'[th].doc = doc
        /\ \A u \in Threads \ {th} : job'[u] = jobs[u]
    BY <1>1, NewJobType
  <1> QED BY <1>2 DEF PlainJobs, fsVars

\* The threads of a restore that loads: none.
LEMMA LoadingJobs ==
    ASSUME OwnedInv, pc = "loading", ~outlived, TypeInv PROVE \A th \in Threads : job[th] = NoJob
  BY DEF OwnedInv, JobsOwned, JobShape, QuietStart, Idle, TypeInv, JobType, Owners

\* A snapshot is never marked; a mark is written by the thread of start().
MarkJobs == pc = "marking" => \A th \in Threads : job[th].owner = "driver" => job[th].doc = Mark(saved)

MarkFiles ==
    /\ pc = "loading" => File = Mark(saved)
    /\ pc \in {"reporting", "up", "quitting", "flushing"} => PlainJobs
    /\ pc = "reporting" => \A th \in Threads : job[th].owner = "driver" =>
         /\ job[th].stage \in {"open", "written"} => tmpAt # NoInode \/ FileUnmarked
         /\ job[th].stage = "done" => FileUnmarked
    /\ pc \in {"up", "quitting", "flushing"} => FileUnmarked

LEMMA MarkParts ==
    /\ MarkInv <=> Unmarked(want) /\ MarkJobs /\ (~outlived => MarkFiles)
    /\ MarkInv' <=> Unmarked(want)' /\ MarkJobs' /\ (~outlived' => MarkFiles')
  BY DEF MarkInv, MarkJobs, MarkFiles, PlainJobs

LEMMA ThreadMark ==
    ASSUME TypeInv, OwnedInv, MarkInv, NEW th \in Threads, ThreadStep(th) PROVE MarkInv'
  <1>0. UNCHANGED <<pc, saved, want, outlived>> /\ OwnedInv'
    BY ThreadStepType, ThreadOwned DEF ThreadOnly, snapVars, ghosts
  <1>1. /\ \A u \in Threads \ {th} : job'[u] = job[u]
        /\ job'[th].owner # "nobody" => job'[th].owner = job[th].owner /\ job'[th].doc = job[th].doc
        /\ job'[th].stage \in {"idle", "open", "written", "done"} /\ ~Idle(th)
        /\ job[th].owner # "nobody" => job'[th].owner = job[th].owner
    BY ThreadJob DEF OwnedInv, NoJob
  <1>2. Unmarked(want)' /\ MarkJobs'
    BY <1>0, <1>1, MarkParts DEF MarkJobs
  <1>3. ASSUME ~outlived' PROVE MarkFiles'
    <2>1. MarkFiles /\ pc # "loading"
      BY <1>0, <1>1, <1>3, MarkParts, LoadingJobs DEF Idle, NoJob
    <2>2. CASE pc \notin {"reporting", "up", "quitting", "flushing"}
      BY <1>0, <2>1, <2>2 DEF MarkFiles
    <2>3. CASE pc \in {"reporting", "up", "quitting", "flushing"}
      <3>1. /\ PlainJobs'
            /\ FileUnmarked => FileUnmarked'
            /\ tmpAt = NoInode \/ tmpAt' # NoInode \/ FileUnmarked'
            /\ job'[th].stage \in {"open", "written"} => tmpAt' # NoInode \/ tmpAt' = tmpAt
            /\ job[th].stage = "called" /\ job'[th].stage \in {"open", "written"} => tmpAt' # NoInode
            /\ job[th].stage = "called" /\ job'[th].stage = "done" => FileUnmarked'
        BY <2>1, <2>3, PlainStep DEF MarkFiles
      <3>2. job[th].stage \in {"called", "open", "written"}
        BY DEF ThreadStep, RemoveFile, OpenTmp, WriteTmp, ReplaceFile
      <3>3. job'[th].stage = "done" /\ job[th].stage # "called" => tmpAt' = NoInode
        BY <1>0, PoolAssumption DEF ThreadStep, RemoveFile, OpenTmp, WriteTmp, ReplaceFile, TypeInv, JobType
      <3>4. pc = "reporting" => \A u \in Threads : job'[u].owner = "driver" =>
               /\ job'[u].stage \in {"open", "written"} => tmpAt' # NoInode \/ FileUnmarked'
               /\ job'[u].stage = "done" => FileUnmarked'
        <4> SUFFICES ASSUME pc = "reporting", NEW u \in Threads, job'[u].owner = "driver"
                     PROVE  /\ job'[u].stage \in {"open", "written"} => tmpAt' # NoInode \/ FileUnmarked'
                            /\ job'[u].stage = "done" => FileUnmarked'
          OBVIOUS
        <4>1. job[u].owner = "driver"
          BY <1>1
        <4>2. /\ job[u].stage \in {"open", "written"} => tmpAt # NoInode \/ FileUnmarked
              /\ job[u].stage = "done" => FileUnmarked
          BY <2>1, <4>1 DEF MarkFiles
        <4>3. CASE u # th
          BY <1>1, <3>1, <4>2, <4>3
        <4>4. CASE u = th
          BY <3>1, <3>2, <3>3, <4>2, <4>4
        <4> QED BY <4>3, <4>4
      <3>5. pc \in {"up", "quitting", "flushing"} => FileUnmarked'
        BY <2>1, <3>1 DEF MarkFiles
      <3> QED BY <1>0, <2>3, <3>1, <3>4, <3>5 DEF MarkFiles
    <2> QED BY <2>2, <2>3
  <1> QED BY <1>2, <1>3, MarkParts

\* The files stay, and so do the threads that have begun to write.
LEMMA KeepMark ==
    ASSUME UNCHANGED <<pc, saved, fsVars>>, MarkFiles, ~outlived,
           \A th \in Threads : \/ job'[th] \in {job[th], NoJob}
                               \/ job'[th].stage = "called" /\ Unmarked(job'[th].doc)
    PROVE  MarkFiles'
  <1>1. File' = File /\ FileUnmarked' = FileUnmarked
    BY DEF fsVars, File, FileUnmarked, Unmarked
  <1>2. NoJob.stage = "idle" /\ NoJob.owner = "nobody" /\ Unmarked(NoJob.doc)
    BY PlainContents DEF NoJob
  <1>3. PlainJobs => PlainJobs'
    BY <1>2 DEF fsVars, PlainJobs
  <1> QED BY <1>1, <1>2, <1>3 DEF fsVars, MarkFiles

LEMMA WriterMark == ASSUME TypeInv, OwnedInv, MarkInv, WriterStep PROVE MarkInv'
  <1>0. /\ UNCHANGED <<pc, saved, want, fsVars, outlived>>
        /\ job \in [Threads -> JobType] /\ overlapped \in BOOLEAN /\ pc # "marking"
    BY DEF WriterStep, WriterWakes, WriterReturns, Returned, snapVars, ghosts, OwnedInv, QuietStart,
           JobsOwned, TypeInv
  <1>1. \A th \in Threads : \/ job'[th] \in {job[th], NoJob}
                            \/ job'[th].stage = "called" /\ Unmarked(job'[th].doc)
    <2>1. ASSUME want # None, Spawn(job, "writer", want, overlapped)
          PROVE  \A th \in Threads : \/ job'[th] = job[th]
                                     \/ job'[th].stage = "called" /\ Unmarked(job'[th].doc)
      <3>1. want \in RealDocs /\ "writer" \in Owners /\ Unmarked(want)
        BY <2>1, MarkParts DEF TypeInv, Owners
      <3>2. PICK th \in Threads : job' = [job EXCEPT ![th] = NewJob("writer", want)]
        BY <1>0, <2>1, <3>1, SpawnJob
      <3>3. /\ job'[th].stage = "called" /\ job'[th].doc = want
            /\ \A u \in Threads \ {th} : job'[u] = job[u]
        BY <1>0, <3>1, <3>2, NewJobType
      <3> QED BY <3>1, <3>3
    <2>2. ASSUME NEW th \in Threads, WriterReturns(th)
          PROVE  \A u \in Threads : job'[u] \in {job[u], NoJob}
      BY <1>0, <2>2 DEF WriterReturns
    <2> QED BY <2>1, <2>2 DEF WriterStep, WriterWakes, Pending
  <1>2. ~outlived' => MarkFiles'
    BY <1>0, <1>1, KeepMark, MarkParts
  <1>3. Unmarked(want)' /\ MarkJobs'
    BY <1>0, MarkParts DEF MarkJobs
  <1> QED BY <1>2, <1>3, MarkParts

\* The report begins with every thread idle, unless a driver was outlived.
LEMMA ReportMark ==
    ASSUME TypeInv, OwnedInv, pc \in {"marking", "loading"}, last' = last, UNCHANGED fsVars,
           NEW list \in Seq(Tab), list # <<>>, NEW i \in Nat, NEW jobs \in [Threads -> JobType],
           Report(list, i, jobs), ~outlived' => \A th \in Threads : jobs[th] = NoJob
    PROVE  MarkInv'
  <1>1. /\ pc' = "reporting" /\ want' = Snapshot(list, i) /\ want' \in RealDocs
        /\ Spawn(jobs, "driver", Snapshot(list, i), overlapped)
    BY ReportSpawns
  <1>2. Unmarked(Snapshot(list, i))
    BY SnapshotType DEF Unmarked
  <1>3. Unmarked(want)'
    BY <1>1, <1>2
  <1>4. ASSUME ~outlived' PROVE MarkFiles'
    <2>1. overlapped \in BOOLEAN /\ "driver" \in Owners /\ Snapshot(list, i) \in RealDocs
          /\ NoJob.stage = "idle"
      BY <1>1 DEF TypeInv, Owners, NoJob
    <2>2. \A th \in Threads : Unmarked(jobs[th].doc) /\ jobs[th].stage = "idle"
      BY <1>4, <2>1, PlainContents
    <2>3. /\ PlainJobs'
          /\ \A th \in Threads : job'[th] = jobs[th] \/ job'[th].stage = "called"
      BY <1>1, <1>2, <2>1, <2>2, PlainSpawn
    <2> QED BY <1>1, <2>2, <2>3 DEF MarkFiles
  <1> QED BY <1>1, <1>3, <1>4, MarkParts DEF MarkJobs

LEMMA ReplayMark ==
    ASSUME TypeInv, OwnedInv, SoleInv, MarkInv, NEW th \in Threads, Replay(th) PROVE MarkInv'
  <1> DEFINE list == Parked(saved.urls)
             i == IF saved.active \in DOMAIN list THEN saved.active ELSE 1
             loaded == IF LoadActive THEN Hydrate(list, i) ELSE list
             jobs == [job EXCEPT ![th] = NoJob]
  <1>1. saved \in RealDocs /\ pc = "marking" /\ Returned(th, "driver")
        /\ job \in [Threads -> JobType]
    BY DEF Replay, TypeInv, Restoring
  <1>2. /\ IF loaded = list THEN Report(list, i, jobs)
           ELSE /\ pc' = "loading"
                /\ job' = jobs
                /\ UNCHANGED <<snapVars, overlapped>>
        /\ UNCHANGED <<last, saved, writer, fsVars, diedLoading, outlived>>
    BY DEF Replay, MarkApart, Parked
  <1>3. list \in Seq(Tab) /\ list # <<>> /\ i \in DOMAIN list /\ i \in Nat
    BY <1>1, DocTypes, ParkedType
  <1>4. jobs \in [Threads -> JobType]
    BY WithoutJob DEF AreJobs
  <1>5. ASSUME ~outlived
        PROVE  SavedAs(job[th].doc) /\ \A u \in Threads : jobs[u] = NoJob
    <2>1. Sole
      BY <1>1, <1>5 DEF Sole, OwnedInv, QuietStart
    <2>2. SavedAs(job[th].doc) /\ \A u \in Threads \ {th} : Idle(u)
      BY <1>1, <2>1, EndSole DEF SoleInv, Sole, Returned, Idle
    <2>3. \A u \in Threads \ {th} : job[u] = NoJob
      BY <2>2 DEF OwnedInv, JobsOwned, JobShape, Idle
    <2> QED BY <1>1, <2>2, <2>3
  <1>6. CASE loaded = list
    <2>1. Report(list, i, jobs)
      BY <1>2, <1>6
    <2>2. ~outlived' => \A u \in Threads : jobs[u] = NoJob
      BY <1>2, <1>5
    <2> HIDE DEF list, i, loaded, jobs
    <2> QED BY <1>1, <1>2, <1>3, <1>4, <2>1, <2>2, ReportMark
  <1>7. CASE loaded # list
    <2>1. saved.urls[i] # Blank /\ i \in DOMAIN saved.urls
      <3>1. list[i].parked # Blank
        BY <1>7 DEF Hydrate
      <3>2. DOMAIN list = DOMAIN saved.urls /\ list[i] = [Fresh EXCEPT !.parked = saved.urls[i]]
        BY <1>3 DEF Parked
      <3> HIDE DEF list, i
      <3> QED BY <1>3, <3>1, <3>2 DEF Fresh
    <2>2. pc' = "loading" /\ want' = want /\ UNCHANGED <<saved, fsVars, outlived>>
      BY <1>2, <1>7 DEF snapVars
    <2>3. job[th].doc = Mark(saved)
      BY <1>1, MarkParts DEF MarkJobs, Returned
    <2>4. ~AllBlank(Mark(saved))
      <3> HIDE DEF i
      <3>1. Mark(saved).urls = saved.urls
        BY <1>1, MarkType
      <3> QED BY <2>1, <3>1 DEF AllBlank
    <2>5. ~outlived => File = Mark(saved)
      BY <1>5, <2>3, <2>4 DEF SavedAs
    <2>6. File' = File /\ Mark(saved)' = Mark(saved)
      BY <2>2 DEF fsVars, File, Mark
    <2>7. ~outlived' => MarkFiles'
      BY <2>2, <2>5, <2>6 DEF MarkFiles
    <2> QED BY <2>2, <2>7, MarkParts DEF MarkJobs
  <1> QED BY <1>6, <1>7

LEMMA StartMark == ASSUME TypeInv, OwnedInv, MarkInv, Start PROVE MarkInv'
  <1>0. /\ UNCHANGED fsVars /\ want' = None /\ pc = "down" /\ job \in [Threads -> JobType]
        /\ ~outlived' => \A th \in Threads : job[th].stage = "idle"
    BY DownJobs DEF Start, TypeInv, Busy
  <1>1. Unmarked(want)'
    BY <1>0, PlainContents
  <1>2. CASE Readable
    <2> DEFINE set == Capped(File)
               doc == Mark(set)
    <2>1. File \in RealDocs
      BY <1>2 DEF Readable, File, TypeInv
    <2>2. doc \in RealDocs /\ "driver" \in Owners
      BY <2>1, CappedType, MarkType DEF Owners
    <2>3. pc' = "marking" /\ saved' = set /\ Spawn(job, "driver", doc, FALSE)
      BY <1>2 DEF Start
    <2> HIDE DEF set
    <2>4. Mark(saved)' = doc
      BY <2>3 DEF Mark
    <2> HIDE DEF doc
    <2>5. PICK th \in Threads : job' = [job EXCEPT ![th] = NewJob("driver", doc)]
      BY <2>3 DEF Spawn, NewJob
    <2>6. job'[th].doc = doc /\ \A u \in Threads \ {th} : job'[u] = job[u]
      BY <1>0, <2>2, <2>5, NewJobType
    <2>7. MarkJobs'
      BY <1>0, <2>4, <2>6, DownJobs DEF MarkJobs
    <2>8. MarkFiles'
      BY <2>3 DEF MarkFiles
    <2> QED BY <1>1, <2>7, <2>8, MarkParts
  <1>3. CASE ~Readable
    <2>1. pc' = "up" /\ job' = job
      BY <1>3 DEF Start
    <2>2. FileUnmarked'
      <3>1. FileUnmarked
        BY <1>3, DocTypes DEF Readable, File, FileUnmarked, Unmarked
      <3> QED BY <1>0, <3>1 DEF fsVars, FileUnmarked, Unmarked
    <2>3. ~outlived' => PlainJobs'
      <3> SUFFICES ASSUME ~outlived' PROVE PlainJobs'
        OBVIOUS
      <3>1. \A th \in Threads : job[th] = NoJob
        BY <1>0 DEF OwnedInv, JobsOwned, JobShape
      <3>2. NoJob.stage = "idle"
        BY DEF NoJob
      <3> QED BY <2>1, <3>1, <3>2, PlainContents DEF PlainJobs
    <2>4. ~outlived' => MarkFiles'
      BY <2>1, <2>2, <2>3 DEF MarkFiles
    <2> QED BY <1>1, <2>1, <2>4, MarkParts DEF MarkJobs
  <1> QED BY <1>2, <1>3

LEMMA DriverMark == ASSUME TypeInv, OwnedInv, SoleInv, MarkInv, DriverStep PROVE MarkInv'
  <1>0. /\ job \in [Threads -> JobType] /\ overlapped \in BOOLEAN /\ "driver" \in Owners
        /\ NoJob.stage = "idle" /\ NoJob.owner = "nobody"
    BY DEF TypeInv, Owners, NoJob
  <1>1. CASE Restored
    <2>1. tabs \in Seq(Tab) /\ tabs # <<>> /\ active \in Nat
      BY <1>1 DEF Restored, TypeInv
    <2>2. ~outlived' => \A th \in Threads : job[th] = NoJob
      BY <1>1, LoadingJobs DEF Restored
    <2> QED BY <1>0, <1>1, <2>1, <2>2, ReportMark DEF Restored, writeVars
  <1>2. ASSUME StopWriter(job) \/ \E th \in Threads : StopWriter([job EXCEPT ![th] = NoJob]),
               want' = want
        PROVE  MarkInv'
    <2>1. pc' = "down"
      BY <1>2 DEF StopWriter, Gone
    <2> QED BY <1>2, <2>1, MarkParts DEF MarkJobs, MarkFiles
  <1>3. CASE StopPersisting
    <2>1. CASE StopWriter(job)
      BY <1>2, <1>3, <2>1 DEF StopPersisting
    <2>2. CASE /\ Pending /\ pc' = "flushing" /\ Spawn(job, "driver", want, overlapped)
               /\ outlived' = outlived
      <3>1. want \in RealDocs /\ pc = "quitting" /\ UNCHANGED <<fsVars, want>> /\ Unmarked(want)
        BY <1>3, <2>2, MarkParts DEF StopPersisting, Pending, TypeInv
      <3>2. ASSUME ~outlived' PROVE MarkFiles'
        <4>1. PlainJobs /\ FileUnmarked
          BY <2>2, <3>1, <3>2, MarkParts DEF MarkFiles
        <4>2. PlainJobs'
          BY <1>0, <2>2, <3>1, <4>1, PlainSpawn DEF PlainJobs
        <4>3. FileUnmarked'
          BY <3>1, <4>1 DEF fsVars, FileUnmarked
        <4> QED BY <2>2, <4>2, <4>3 DEF MarkFiles
      <3> QED BY <2>2, <3>1, <3>2, MarkParts DEF MarkJobs
    <2> QED BY <1>3, <2>1, <2>2 DEF StopPersisting
  <1>4. ASSUME NEW th \in Threads, StartFails(th) \/ Flushed(th) PROVE MarkInv'
    BY <1>2, <1>4 DEF StartFails, Flushed
  <1>5. ASSUME NEW th \in Threads, Reported(th) PROVE MarkInv'
    <2>1. /\ job' = [job EXCEPT ![th] = NoJob] /\ Returned(th, "driver") /\ pc = "reporting"
          /\ pc' = "up" /\ UNCHANGED <<want, fsVars, outlived>>
      BY <1>5 DEF Reported, snapVars
    <2>2. ASSUME ~outlived' PROVE MarkFiles'
      <3>1. PlainJobs /\ FileUnmarked
        BY <2>1, <2>2, MarkParts DEF MarkFiles, Returned
      <3>2. \A u \in Threads : job'[u] \in {job[u], NoJob}
        BY <1>0, <2>1
      <3>3. PlainJobs'
        BY <1>0, <2>1, <3>1, <3>2, PlainContents DEF PlainJobs, fsVars
      <3>4. FileUnmarked'
        BY <2>1, <3>1 DEF fsVars, FileUnmarked
      <3> QED BY <2>1, <3>3, <3>4 DEF MarkFiles
    <2> QED BY <2>1, <2>2, MarkParts DEF MarkJobs
  <1>6. CASE Close
    <2>1. /\ pc = "up" /\ pc' = "quitting" /\ UNCHANGED <<saved, job, outlived, fsVars, want>>
      BY <1>6, CloseOnly
    <2>2. ~outlived' => MarkFiles'
      BY <2>1, MarkParts, PlainContents DEF MarkFiles, PlainJobs, FileUnmarked, fsVars
    <2> QED BY <2>1, <2>2, MarkParts DEF MarkJobs
  <1> QED BY <1>1, <1>6, <1>3, <1>4, <1>5, StartMark, ReplayMark DEF DriverStep

LEMMA TabMark == ASSUME TypeInv, OwnedInv, MarkInv, TabStep PROVE MarkInv'
  <1>1. /\ UNCHANGED <<pc, saved, job, outlived, fsVars>>
        /\ want' = want \/ \E list \in Seq(Tab), i \in Nat : list # <<>> /\ want' = Snapshot(list, i)
    BY TabStepType DEF TabsOnly, ghosts
  <1>2. Unmarked(want)'
    BY <1>1, SnapshotType, MarkParts DEF Unmarked
  <1>3. ~outlived' => MarkFiles'
    BY <1>1, KeepMark, MarkParts
  <1>4. MarkJobs'
    BY <1>1, MarkParts DEF MarkJobs
  <1> QED BY <1>2, <1>3, <1>4, MarkParts

LEMMA MarkCorrect == Spec => []MarkInv
  <1>1. Init => MarkInv
    BY PlainContents DEF Init, MarkInv
  <1>2. TypeInv /\ OwnedInv /\ SoleInv /\ MarkInv /\ [Next]_vars => MarkInv'
    <2> SUFFICES ASSUME TypeInv, OwnedInv, SoleInv, MarkInv, [Next]_vars PROVE MarkInv'
      OBVIOUS
    <2>1. CASE Crash
      <3>1. pc' = "down" /\ want' = None
        BY <2>1 DEF Crash, Gone
      <3> QED BY <3>1, PlainContents, MarkParts DEF MarkJobs, MarkFiles
    <2>2. CASE UNCHANGED vars
      <3>1. UNCHANGED <<pc, saved, job, outlived, fsVars, want>>
        BY <2>2 DEF vars, snapVars, ghosts
      <3>2. ~outlived' => MarkFiles'
        BY <3>1, KeepMark, MarkParts
      <3> QED BY <3>1, <3>2, MarkParts DEF MarkJobs
    <2> QED BY <2>1, <2>2, TabMark, ThreadMark, WriterMark, DriverMark DEF Next
  <1> QED BY <1>1, <1>2, TypeCorrectInv, OwnedCorrect, SoleCorrect, PTL DEF Spec

\* While restored tabs load, the file is the marked set; a driver that is up has
\* replaced it: a mark that a start finds tells of a restore that did not finish.
THEOREM MarkTellsOfAttempt == Spec => []MarkIsEvidence
  <1>1. TypeInv /\ MarkInv => MarkIsEvidence
    <2> SUFFICES ASSUME TypeInv, MarkInv, ~outlived
                 PROVE  /\ Replaying => File = [saved EXCEPT !.marked = TRUE]
                        /\ InUse /\ Readable => ~File.marked
      BY DEF MarkIsEvidence
    <2>1. MarkFiles
      BY MarkParts
    <2>2. Replaying => File = [saved EXCEPT !.marked = TRUE]
      BY <2>1 DEF Replaying, MarkFiles, Mark
    <2>3. Readable => fileAt # NoInode /\ File = disk[fileAt] /\ File \in RealDocs
      BY DEF Readable, File, TypeInv
    <2>4. InUse => FileUnmarked
      BY <2>1 DEF MarkFiles, InUse
    <2> QED BY <2>2, <2>3, <2>4 DEF FileUnmarked, Unmarked
  <1> QED BY <1>1, TypeCorrectInv, MarkCorrect, PTL

-----------------------------------------------------------------------------
(* A driver that was killed while it loaded is not followed by one that loads. *)

\* In the marking of a lone driver the file is what it was, or gone, or the mark.
LEMMA MarkingFile ==
    ASSUME TypeInv, OwnedInv, SoleInv, MarkInv, pc = "marking", ~outlived,
           NEW th \in Threads, ThreadStep(th)
    PROVE  File' \in {File, None, Mark(saved)}
  <1>1. Sole
    BY DEF Sole, OwnedInv, QuietStart
  <1>2. ~Idle(th)
    BY ThreadJob DEF OwnedInv
  <1>3. job[th].owner = "driver" /\ Track(th) /\ job[th].doc = Mark(saved)
    <2>1. job[th].owner \in Owners
      BY DEF TypeInv, JobType
    <2>2. job[th].owner = "driver"
      BY <1>2, <2>1 DEF OwnedInv, JobsOwned, QuietStart, Owners
    <2> QED BY <1>1, <2>2, MarkParts DEF SoleInv, Sole, MarkJobs
  <1>4. CASE OpenTmp(th) \/ WriteTmp(th)
    BY <1>3, <1>4, TrackOpen, TrackWrite
  <1>5. CASE RemoveFile(th) \/ ReplaceFile(th)
    <2>1. Track(th)' /\ job'[th].stage = "done"
      BY <1>3, <1>5, TrackEnd
    <2>2. job'[th].doc = job[th].doc
      BY <2>1, ThreadJob DEF OwnedInv, NoJob
    <2>3. fileAt' = NoInode \/ File' = job'[th].doc
      BY <2>1 DEF Track, SavedAs
    <2> QED BY <1>3, <2>2, <2>3 DEF File
  <1> QED BY <1>4, <1>5 DEF ThreadStep

LEMMA DiedStep ==
    ASSUME TypeInv, OwnedInv, SoleInv, MarkInv, DiedInv, [Next]_vars PROVE DiedInv'
  <1>1. ASSUME UNCHANGED <<pc, saved, fsVars, diedLoading, outlived>> PROVE DiedInv'
    BY <1>1 DEF fsVars, DiedInv, FileMarked, Readable, File
  <1>2. CASE TabStep \/ WriterStep \/ UNCHANGED vars
    BY <1>1, <1>2, TabStepType DEF TabsOnly, WriterStep, WriterWakes, WriterReturns, vars, ghosts, writeVars
  <1>3. ASSUME NEW th \in Threads, ThreadStep(th) PROVE DiedInv'
    <2>1. UNCHANGED <<pc, saved, diedLoading, outlived>>
      BY <1>3, ThreadStepType DEF ThreadOnly, ghosts
    <2>2. diedLoading /\ ~outlived /\ pc = "marking" => FileMarked'
      <3> SUFFICES ASSUME diedLoading, ~outlived, pc = "marking" PROVE FileMarked'
        OBVIOUS
      <3>1. Mark(saved).marked
        BY MarkType DEF TypeInv, Restoring
      <3> QED BY <1>3, <3>1, MarkingFile DEF DiedInv, FileMarked, Readable
    <2>3. ~outlived => pc # "down"
      BY <1>3, DownJobs, ThreadJob DEF OwnedInv, Idle
    <2> QED BY <2>1, <2>2, <2>3 DEF DiedInv
  <1>4. CASE Start
    <2>1. CASE Readable /\ diedLoading /\ ~outlived'
      <3>1. ~outlived /\ saved' = Capped(File) /\ pc' = "marking" /\ UNCHANGED fsVars /\ pc = "down"
        BY <1>4, <2>1 DEF Start
      <3>2. File \in RealDocs /\ File.marked
        BY <2>1, <3>1 DEF Readable, File, TypeInv, DiedInv, FileMarked
      <3>3. saved'.marked
        BY <3>1, <3>2, CappedType
      <3>4. File' = File
        BY <3>1 DEF fsVars, File
      <3> QED BY <3>1, <3>2, <3>3, <3>4 DEF DiedInv, FileMarked
    <2>2. CASE ~Readable
      BY <1>4, <2>2 DEF Start, DiedInv
    <2>3. CASE Readable /\ (~diedLoading \/ outlived')
      BY <1>4, <2>3 DEF Start, DiedInv
    <2> QED BY <2>1, <2>2, <2>3
  <1>5. ASSUME NEW list \in Seq(Tab), list # <<>>, NEW i \in Nat, NEW jobs, Report(list, i, jobs),
               pc \in {"marking", "loading"}, last' = last
        PROVE  DiedInv'
    <2>1. pc' = "reporting"
      BY <1>5, ReportSpawns
    <2> QED BY <2>1 DEF DiedInv
  <1>6. CASE Restored
    <2>1. tabs \in Seq(Tab) /\ tabs # <<>> /\ active \in Nat
      BY <1>6 DEF Restored, TypeInv
    <2> QED BY <1>5, <1>6, <2>1 DEF Restored, writeVars
  <1>7. ASSUME NEW th \in Threads, Replay(th) PROVE DiedInv'
    <2> DEFINE list == Parked(saved.urls)
               i == IF saved.active \in DOMAIN list THEN saved.active ELSE 1
               loaded == IF LoadActive THEN Hydrate(list, i) ELSE list
               jobs == [job EXCEPT ![th] = NoJob]
    <2>1. saved \in RealDocs /\ pc = "marking"
      BY <1>7 DEF Replay, TypeInv, Restoring
    <2>2. /\ IF loaded = list THEN Report(list, i, jobs) ELSE pc' = "loading"
          /\ UNCHANGED <<last, diedLoading, outlived>>
      BY <1>7 DEF Replay, MarkApart, Parked
    <2>3. list \in Seq(Tab) /\ list # <<>> /\ i \in Nat
      BY <2>1, DocTypes, ParkedType
    <2>4. CASE loaded = list
      <3> HIDE DEF list, i, loaded, jobs
      <3> QED BY <1>5, <2>1, <2>2, <2>3, <2>4
    <2>5. CASE loaded # list
      <3>1. ~saved.marked
        BY <2>5 DEF LoadActive
      <3> QED BY <2>1, <2>2, <2>5, <3>1 DEF DiedInv
    <2> QED BY <2>4, <2>5
  <1>8. ASSUME NEW th \in Threads, Reported(th) PROVE DiedInv'
    BY <1>8 DEF Reported, DiedInv
  <1>9. ASSUME NEW th \in Threads, StartFails(th) PROVE DiedInv'
    <2>1. /\ pc = "marking" /\ pc' = "down" /\ UNCHANGED <<fsVars, diedLoading>>
          /\ ~outlived' => ~outlived
      BY <1>9 DEF StartFails, StopWriter, Gone
    <2> QED BY <2>1 DEF fsVars, DiedInv, FileMarked, Readable, File
  <1>10. CASE Close \/ StopPersisting \/ \E th \in Threads : Flushed(th)
    <2>1. pc \in {"up", "quitting", "flushing"} /\ diedLoading' = diedLoading
      BY <1>10, CloseOnly DEF StopPersisting, Flushed
    <2> QED BY <2>1 DEF DiedInv
  <1>11. CASE Crash
    <2>1. /\ pc' = "down" /\ outlived' = outlived /\ fileAt' = fileAt
          /\ disk' = Linked(disk, {fileAt, tmpAt'}, job')
          /\ diedLoading' = (pc = "loading" \/ (diedLoading /\ pc = "marking"))
      BY <1>11 DEF Crash, Gone
    <2>2. fileAt # NoInode => disk'[fileAt] = disk[fileAt]
      BY <2>1, LinkedType DEF TypeInv
    <2>3. File' = File
      BY <2>1, <2>2 DEF File
    <2>4. pc = "loading" /\ ~outlived => FileMarked
      <3> SUFFICES ASSUME pc = "loading", ~outlived PROVE FileMarked
        OBVIOUS
      <3>1. File = Mark(saved) /\ saved \in RealDocs
        BY MarkParts DEF MarkFiles, TypeInv, Restoring
      <3> QED BY <3>1, MarkType DEF FileMarked
    <2>5. diedLoading' /\ ~outlived => FileMarked
      BY <2>1, <2>4 DEF DiedInv
    <2> QED BY <2>1, <2>3, <2>5 DEF DiedInv, FileMarked, Readable
  <1> QED BY <1>2, <1>3, <1>4, <1>6, <1>7, <1>8, <1>9, <1>10, <1>11 DEF Next, DriverStep

\* Whatever is killed and started again, and however often: after a kill during the
\* load of a restored tab no driver loads one before a start has come up or found
\* nothing to restore, as long as no thread of an earlier driver writes.
THEOREM NoCrashLoop == Spec => []CrashLoopEnds
  <1>1. Init => DiedInv
    BY DEF Init, DiedInv
  <1>2. DiedInv => CrashLoopEnds
    BY DEF DiedInv, CrashLoopEnds
  <1>3. TypeInv /\ OwnedInv /\ SoleInv /\ MarkInv /\ DiedInv /\ [Next]_vars => DiedInv'
    BY DiedStep
  <1> QED BY <1>1, <1>2, <1>3, TypeCorrectInv, OwnedCorrect, SoleCorrect, MarkCorrect, PTL DEF Spec
=============================================================================
