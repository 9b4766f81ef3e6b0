------------------------------- MODULE TabStore -------------------------------
(***************************************************************************)
(* The saved tabs of one profile (src/src/browser_driver.py): snapshots of *)
(* the tab list, the writer task and the flushes that put them on disk     *)
(* through worker threads, the restore with its attempt mark, and drivers  *)
(* that are closed or killed and started again.                            *)
(*                                                                         *)
(* The file is written to a temporary name and renamed; threads keep the   *)
(* inode they opened, whatever its name is by then.                        *)
(***************************************************************************)
EXTENDS Integers, Sequences, SequencesExt

CONSTANTS
    Urls,         \* addresses a tab may show
    Blank,        \* about:blank
    Threads,      \* pool of worker threads that write the file
    Inodes,       \* pool of inodes
    NoInode,
    None,         \* no snapshot yet
    Empty,        \* content of a file just opened for writing
    Garbled,      \* content that is no JSON document
    MaxTabs,      \* bound on the tabs a user opens
    MaxRestoreTabs  \* _MAX_RESTORE_TABS

ASSUME PoolAssumption == /\ Blank \notin Urls /\ NoInode \notin Inodes
                         /\ MaxTabs \in Nat \ {0} /\ MaxRestoreTabs \in Nat \ {0}

VARIABLES
    pc,        \* where start() or close() of the driver is
    saved,     \* what _read_saved_tabs returned
    tabs,      \* Seq(Tab): _tabs
    active,    \* index of _active_id in it
    want,      \* _tab_persist_want
    last,      \* _last_persisted
    wake,      \* _tab_persist_wake.is_set()
    writer,    \* _tab_persist_writer
    job,       \* [Threads -> the _write_open_tabs it runs]
    disk,      \* [Inodes -> content]
    fileAt,    \* inode named .cobrowse_open_tabs.json
    tmpAt,     \* inode named .cobrowse_open_tabs.json.tmp
    diedLoading,  \* the last driver was killed while it loaded the restored tab
    overlapped,   \* two threads have run at a time since the driver started
    outlived      \* a driver was closed while its writer waited for a thread

tabVars == <<tabs, active>>
snapVars == <<want, wake>>
writeVars == <<last, writer>>
fsVars == <<disk, fileAt, tmpAt>>
ghosts == <<diedLoading, overlapped, outlived>>
vars == <<pc, saved, tabVars, snapVars, writeVars, job, fsVars, ghosts>>

Addresses == Urls \cup {Blank}
Tab == [at : Addresses, parked : Addresses, load : Addresses]
Phases == {"down", "marking", "loading", "reporting", "up", "quitting", "flushing"}
NoJob == [stage |-> "idle", doc |-> None, inode |-> NoInode, owner |-> "nobody", ok |-> FALSE]

\* A document of the file: a snapshot, or the attempt mark with the restored set.
Doc(urls, i, marked) == [urls |-> urls, active |-> i, marked |-> marked]
Docs == [urls : Seq(Addresses), active : Nat, marked : BOOLEAN]

ASSUME ContentAssumption == {None, Empty, Garbled} \cap Docs = {}

-----------------------------------------------------------------------------
(* Tabs and snapshots *)

Fresh == [at |-> Blank, parked |-> Blank, load |-> Blank]

\* Mutant: a parked tab counts as blank.
UrlShown(tab) == tab.at

\* _tab_url
TabUrl(tab) == IF tab.parked # Blank THEN tab.parked ELSE tab.at

Snapshot(list, i) == Doc([k \in DOMAIN list |-> TabUrl(list[k])], i, FALSE)

Replaying == pc = "loading"

\* _persist_open_tabs
Persist(list, i) ==
    IF Replaying THEN UNCHANGED snapVars
    ELSE want' = Snapshot(list, i) /\ wake' = (writer # "none")

\* _hydrate_tab: the parked address is forgotten before it loads.
Hydrate(list, i) ==
    IF list[i].parked = Blank THEN list
    ELSE [list EXCEPT ![i].parked = Blank, ![i].load = list[i].parked]

\* What has a driver may operate it until it is gone, also while it is closed.
InUse == pc \in {"up", "quitting"}

BrowserUp == pc \in {"loading", "reporting"} \/ InUse

\* Nothing loads on behalf of an operation.
Settled == \A i \in DOMAIN tabs : tabs[i].load = Blank

\* An operation activates tab i of the list and takes a snapshot when it is
\* through: at once, or when the tab, parked until now, has loaded.
Operate(list, i) ==
    /\ InUse
    /\ tabs' = Hydrate(list, i)
    /\ active' = i
    /\ IF list[i].parked = Blank THEN Persist(list, i) ELSE UNCHANGED snapVars
    /\ UNCHANGED <<pc, saved, writeVars, job, fsVars, ghosts>>

NewTab == Len(tabs) < MaxTabs /\ Operate(Append(tabs, Fresh), Len(tabs) + 1)

SwitchTab(i) == Operate(tabs, i)

\* The active tab is known by its id: its index moves when tab i goes.
IndexWithout(i) == IF i < active THEN active - 1 ELSE active

\* close_tab, and a page the site closes: the first tab follows an active one, a
\* blank one the last one.
CloseTab(i) ==
    LET rest == RemoveAt(tabs, i)
    IN  IF rest = <<>> THEN Operate(<<Fresh>>, 1)
        ELSE IF i = active THEN Operate(rest, 1)
        ELSE /\ InUse
             /\ tabs' = rest
             /\ active' = IndexWithout(i)
             /\ Persist(rest, active')
             /\ UNCHANGED <<pc, saved, writeVars, job, fsVars, ghosts>>

\* A loaded page opens another one: _on_context_page takes no snapshot.
SiteOpens ==
    /\ BrowserUp
    /\ Len(tabs) < MaxTabs
    /\ \E i \in DOMAIN tabs : tabs[i].at # Blank
    /\ \E u \in Urls : tabs' = Append(tabs, [Fresh EXCEPT !.at = u])
    /\ UNCHANGED <<pc, saved, active, snapVars, writeVars, job, fsVars, ghosts>>

\* open supersedes a parked address; where it leads shows when it commits.
Open ==
    /\ InUse
    /\ tabs[active].parked # Blank
    /\ tabs' = [tabs EXCEPT ![active].parked = Blank]
    /\ UNCHANGED <<pc, saved, active, snapVars, writeVars, job, fsVars, ghosts>>

\* on_frame_navigated: the address of a tab changes, by a load or by its user.
Navigated(i) ==
    /\ BrowserUp
    /\ \E u \in Urls :
         /\ \/ u = tabs[i].load
            \/ tabs[i].at \notin {u, Blank}
            \/ i = active /\ InUse /\ tabs[i].at # u /\ tabs[i].parked = Blank
         /\ LET list == [tabs EXCEPT ![i].at = u, ![i].load = Blank]
            IN  tabs' = list /\ Persist(list, active)
    /\ UNCHANGED <<pc, saved, active, writeVars, job, fsVars, ghosts>>

\* A load fails or times out and its failure is swallowed; the tab stays as it is.
LoadFails(i) ==
    /\ BrowserUp
    /\ tabs[i].load # Blank
    /\ LET list == [tabs EXCEPT ![i].load = Blank]
       IN  tabs' = list /\ Persist(list, active)
    /\ UNCHANGED <<pc, saved, active, writeVars, job, fsVars, ghosts>>

-----------------------------------------------------------------------------
(* Threads that write the file *)

Busy == {th \in Threads : job[th].stage # "idle"}

\* asyncio.to_thread(_write_open_tabs, ...); other threads may be at work.
Spawn(jobs, owner, doc, before) ==
    LET idle == {th \in Threads : jobs[th].stage = "idle"}
    IN  /\ \E th \in idle :
             job' = [jobs EXCEPT ![th] = [NoJob EXCEPT !.stage = "called", !.doc = doc,
                                                       !.owner = owner]]
        /\ overlapped' = (before \/ idle # Threads)

AllBlank(doc) == \A i \in DOMAIN doc.urls : doc.urls[i] = Blank

\* Inodes without a name that no thread writes are gone.
Linked(content, names, jobs) ==
    [i \in Inodes |-> IF i \in names \cup {jobs[th].inode : th \in Threads} THEN content[i]
                     ELSE Empty]

\* A thread ends; one of a driver that is gone has nobody who waits for it.
Ended(th, ok) == IF job[th].owner = "nobody" THEN NoJob
                 ELSE [job[th] EXCEPT !.stage = "done", !.ok = ok]

\* A tab set without an address removes the file.
RemoveFile(th) ==
    /\ job[th].stage = "called" /\ AllBlank(job[th].doc)
    /\ fileAt' = NoInode
    /\ disk' = Linked(disk, {tmpAt}, job)
    /\ job' = [job EXCEPT ![th] = Ended(th, TRUE)]
    /\ UNCHANGED <<pc, saved, tabVars, snapVars, writeVars, tmpAt, ghosts>>

FreeInodes == Inodes \ ({fileAt, tmpAt} \cup {job[th].inode : th \in Threads})

\* open(tmp, "w") truncates what has the name, or creates it.
OpenTmp(th) ==
    /\ job[th].stage = "called" /\ ~AllBlank(job[th].doc)
    /\ \E i \in IF tmpAt = NoInode THEN FreeInodes ELSE {tmpAt} :
         /\ tmpAt' = i
         /\ disk' = [disk EXCEPT ![i] = Empty]
         /\ job' = [job EXCEPT ![th].stage = "open", ![th].inode = i]
    /\ UNCHANGED <<pc, saved, tabVars, snapVars, writeVars, fileAt, ghosts>>

\* What the inode holds after a write from offset 0: another document that was
\* longer leaves its tail.
Overwritten(old, doc) == IF old \in {Empty, doc} THEN {doc} ELSE {doc, Garbled}

WriteTmp(th) ==
    /\ job[th].stage = "open"
    /\ job' = [job EXCEPT ![th].stage = "written", ![th].inode = NoInode]
    /\ \E c \in Overwritten(disk[job[th].inode], job[th].doc) :
         disk' = Linked([disk EXCEPT ![job[th].inode] = c], {fileAt, tmpAt}, job')
    /\ UNCHANGED <<pc, saved, tabVars, snapVars, writeVars, fileAt, tmpAt, ghosts>>

\* os.replace fails when another thread has taken the temporary file along.
ReplaceFile(th) ==
    /\ job[th].stage = "written"
    /\ fileAt' = IF tmpAt = NoInode THEN fileAt ELSE tmpAt
    /\ tmpAt' = NoInode
    /\ disk' = Linked(disk, {fileAt'}, job)
    /\ job' = [job EXCEPT ![th] = Ended(th, tmpAt # NoInode)]
    /\ UNCHANGED <<pc, saved, tabVars, snapVars, writeVars, ghosts>>

\* The file is what the thread of `owner` made of it; the coroutine goes on.
Returned(th, owner) ==
    /\ job[th].stage = "done" /\ job[th].owner = owner

\* The end of _do_persist_open_tabs: only a successful write is remembered.
Record(th) == last' = IF job[th].ok THEN job[th].doc ELSE last

Pending == want # None /\ want # last

\* _tab_persist_writer
WriterWakes ==
    /\ writer = "waiting" /\ wake
    /\ wake' = FALSE
    /\ IF Pending THEN writer' = "writing" /\ Spawn(job, "writer", want, overlapped)
       ELSE UNCHANGED <<writer, job, overlapped>>
    /\ UNCHANGED <<pc, saved, tabVars, want, last, fsVars, diedLoading, outlived>>

\* Mutant: the event is cleared after the write, not before.
WriterReturnsLate(th) ==
    /\ Returned(th, "writer")
    /\ Record(th)
    /\ writer' = "waiting"
    /\ wake' = FALSE
    /\ job' = [job EXCEPT ![th] = NoJob]
    /\ UNCHANGED <<pc, saved, tabVars, want, fsVars, ghosts>>

WriterReturns(th) ==
    /\ Returned(th, "writer")
    /\ Record(th)
    /\ writer' = "waiting"
    /\ job' = [job EXCEPT ![th] = NoJob]
    /\ UNCHANGED <<pc, saved, tabVars, snapVars, fsVars, ghosts>>

-----------------------------------------------------------------------------
(* start() and its restore *)

File == IF fileAt = NoInode THEN None ELSE disk[fileAt]
Readable == File \notin {None, Empty, Garbled}

\* The set to restore, with one more attempt.
Mark(doc) == [doc EXCEPT !.marked = TRUE]

Capped(doc) ==
    [doc EXCEPT !.urls = SubSeq(@, 1, IF Len(@) < MaxRestoreTabs THEN Len(@)
                                      ELSE MaxRestoreTabs)]

\* The profile is locked, Chromium is up and its blank page adopted: the file is
\* read, and marked before anything loads.  Nothing readable, nothing to restore.
Start ==
    /\ pc = "down"
    /\ tabs' = <<Fresh>> /\ active' = 1
    /\ want' = None /\ last' = None /\ wake' = FALSE
    /\ writer' = "waiting"
    /\ outlived' = (outlived /\ (Busy # {} \/ diedLoading))
    /\ IF Readable
       THEN /\ saved' = Capped(File)
            /\ pc' = "marking"
            /\ Spawn(job, "driver", Mark(Capped(File)), FALSE)
            /\ UNCHANGED diedLoading
       ELSE /\ pc' = "up" /\ diedLoading' = FALSE /\ overlapped' = FALSE
            /\ UNCHANGED <<saved, job>>
    /\ UNCHANGED fsVars

\* Mutant: the mark is taken for the snapshot it is made of.
MarkClaimed == last' = [saved EXCEPT !.marked = FALSE]

\* _mark_restore_attempt leaves _last_persisted alone.
MarkApart == UNCHANGED last

\* The snapshot at the end of the restore, and its flush: the success report.
Report(list, i, jobs) ==
    LET snap == Snapshot(list, i)
    IN  /\ want' = snap /\ wake' = TRUE
        /\ IF snap = last'
           THEN pc' = "up" /\ job' = jobs /\ UNCHANGED overlapped
           ELSE /\ pc' = "reporting"
                /\ Spawn(jobs, "driver", snap, overlapped)

\* Mutant: the active tab loads whatever happened before.
AlwaysLoad == TRUE

\* An unfinished attempt loads nothing.
LoadActive == ~saved.marked

\* The mark is written, or its failure suppressed: all tabs are recreated with
\* their addresses parked; the active one loads.
Replay(th) ==
    /\ pc = "marking"
    /\ Returned(th, "driver")
    /\ MarkApart
    /\ LET list == [i \in DOMAIN saved.urls |-> [Fresh EXCEPT !.parked = saved.urls[i]]]
           i == IF saved.active \in DOMAIN list THEN saved.active ELSE 1
           loaded == IF LoadActive THEN Hydrate(list, i) ELSE list
           jobs == [job EXCEPT ![th] = NoJob]
       IN  /\ tabs' = loaded
           /\ active' = i
           /\ IF loaded = list THEN Report(list, i, jobs)
              ELSE /\ pc' = "loading"
                   /\ job' = jobs
                   /\ UNCHANGED <<snapVars, overlapped>>
    /\ UNCHANGED <<saved, writer, fsVars, diedLoading, outlived>>

\* The active tab is loaded, or has failed to.
Restored ==
    /\ pc = "loading"
    /\ tabs[active].load = Blank
    /\ UNCHANGED writeVars
    /\ Report(tabs, active, job)
    /\ UNCHANGED <<saved, tabVars, fsVars, diedLoading, outlived>>

Reported(th) ==
    /\ pc = "reporting"
    /\ Returned(th, "driver")
    /\ Record(th)
    /\ pc' = "up"
    /\ saved' = None
    /\ diedLoading' = FALSE
    /\ job' = [job EXCEPT ![th] = NoJob]
    /\ UNCHANGED <<tabVars, snapVars, writer, fsVars, overlapped, outlived>>

-----------------------------------------------------------------------------
(* close(), a failing start(), and kills *)

Gone ==
    /\ pc' = "down"
    /\ saved' = None
    /\ tabs' = <<>> /\ active' = 0
    /\ wake' = FALSE
    /\ writer' = "none" /\ last' = None

\* The writer task is cancelled; a thread it waits for goes on.
StopWriter(jobs) ==
    /\ Gone
    /\ job' = [th \in Threads |->
                 IF jobs[th].stage = "done" THEN NoJob ELSE [jobs[th] EXCEPT !.owner = "nobody"]]
    /\ outlived' = (outlived \/ writer = "writing")
    /\ UNCHANGED overlapped

\* A page of the restore cannot be opened: start() fails with nothing to flush.
StartFails(th) ==
    /\ pc = "marking"
    /\ Returned(th, "driver")
    /\ StopWriter([job EXCEPT ![th] = NoJob])
    /\ UNCHANGED <<want, fsVars, diedLoading>>

\* close() makes the browser quit, whatever operates it.  One that raises has not
\* stopped the writer.
Close ==
    /\ pc = "up"
    /\ pc' = "quitting"
    /\ UNCHANGED <<saved, tabVars, snapVars, writeVars, job, fsVars, ghosts>>

\* Mutant: the writer is stopped without a flush.
StopUnflushed ==
    /\ pc = "quitting" /\ Settled
    /\ StopWriter(job)
    /\ UNCHANGED <<want, fsVars, diedLoading>>

\* Playwright has stopped, and with it what operated the browser;
\* _stop_tab_persist_writer flushes first.
StopPersisting ==
    /\ pc = "quitting" /\ Settled
    /\ IF Pending
       THEN /\ pc' = "flushing"
            /\ Spawn(job, "driver", want, overlapped)
            /\ UNCHANGED <<saved, tabVars, wake, writeVars, outlived>>
       ELSE StopWriter(job)
    /\ UNCHANGED <<want, fsVars, diedLoading>>

Flushed(th) ==
    /\ pc = "flushing"
    /\ Returned(th, "driver")
    /\ StopWriter([job EXCEPT ![th] = NoJob])
    /\ UNCHANGED <<want, fsVars, diedLoading>>

\* SIGKILL: the driver's threads die with it; those of drivers closed before may
\* be another process's.
Crash ==
    /\ pc # "down"
    /\ Gone
    /\ want' = None
    /\ \E alive \in SUBSET {th \in Threads : job[th].owner = "nobody"} :
         job' = [th \in Threads |-> IF th \in alive THEN job[th] ELSE NoJob]
    \* A temporary file that no thread is at is truncated before it is used.
    /\ tmpAt' = IF \A th \in Threads : job'[th] = NoJob THEN NoInode ELSE tmpAt
    /\ disk' = Linked(disk, {fileAt, tmpAt'}, job')
    /\ diedLoading' = (pc = "loading"
                       \/ (diedLoading /\ pc = "marking"))
    /\ UNCHANGED <<fileAt, overlapped, outlived>>

-----------------------------------------------------------------------------
Init ==
    /\ pc = "down" /\ saved = None
    /\ tabs = <<>> /\ active = 0
    /\ want = None /\ last = None /\ wake = FALSE /\ writer = "none"
    /\ job = [th \in Threads |-> NoJob]
    /\ disk = [i \in Inodes |-> Empty] /\ fileAt = NoInode /\ tmpAt = NoInode
    /\ diedLoading = FALSE /\ overlapped = FALSE /\ outlived = FALSE

TabStep ==
    \/ NewTab \/ SiteOpens \/ Open
    \/ \E i \in DOMAIN tabs : SwitchTab(i) \/ CloseTab(i) \/ Navigated(i) \/ LoadFails(i)

ThreadStep(th) ==
    RemoveFile(th) \/ OpenTmp(th) \/ WriteTmp(th) \/ ReplaceFile(th)

WriterStep == WriterWakes \/ \E th \in Threads : WriterReturns(th)

DriverStep ==
    \/ Start \/ Restored \/ Close \/ StopPersisting
    \/ \E th \in Threads : Replay(th) \/ StartFails(th) \/ Reported(th) \/ Flushed(th)

Next == TabStep \/ WriterStep \/ DriverStep \/ Crash \/ \E th \in Threads : ThreadStep(th)

Spec == Init /\ [][Next]_vars

-----------------------------------------------------------------------------
(* Properties *)

TypeOK ==
    /\ pc \in Phases /\ saved \in Docs \cup {None}
    /\ tabs \in Seq(Tab) /\ active \in 0..Len(tabs)
    /\ {want, last} \subseteq Docs \cup {None} /\ wake \in BOOLEAN
    /\ writer \in {"none", "waiting", "writing"}
    /\ job \in [Threads -> [stage : {"idle", "called", "open", "written", "done"},
                            doc : Docs \cup {None}, inode : Inodes \cup {NoInode},
                            owner : {"nobody", "writer", "driver"}, ok : BOOLEAN]]
    /\ disk \in [Inodes -> Docs \cup {Empty, Garbled}]
    /\ {fileAt, tmpAt} \subseteq Inodes \cup {NoInode}
    /\ {diedLoading, overlapped, outlived} \subseteq BOOLEAN

\* The file is the latest snapshot.
Saved == IF AllBlank(want) THEN fileAt = NoInode ELSE File = want

\* A driver killed while it loaded the restored tab is not followed by one that
\* loads it again: "replaying the same load" would be a crash loop.
CrashLoopEnds == pc = "loading" => ~diedLoading \/ outlived

\* "a mark still set on the next boot is the only evidence": while the restore
\* runs, the file holds the whole set it restores, marked; "the flush IS the success
\* report": a driver that came up leaves no mark.
MarkIsEvidence ==
    ~outlived => /\ Replaying => File = [saved EXCEPT !.marked = TRUE]
                 /\ InUse /\ Readable => ~File.marked

\* After an unfinished attempt nothing loads and nothing is lost: "keep every URL
\* ... rather than quietly deleting a human's tabs".
DegradedKeepsAll == pc = "reporting" /\ saved.marked => want.urls = saved.urls

\* "the last thing a session does is close its tabs, and losing that write is
\* losing the restore": a closed driver's last snapshot is the file.
ClosedIsSaved ==
    pc = "down" /\ want # None /\ ~overlapped /\ ~outlived => Saved

\* "Last-write-wins": a snapshot that is not the file yet is about to be written, by a
\* writer that is called or by a thread that carries this very snapshot.
SnapshotUnderWay ==
    InUse /\ want # None /\ ~overlapped /\ ~outlived
        => Saved \/ wake \/ \E th \in Threads : job[th].owner = "writer" /\ job[th].doc = want

-----------------------------------------------------------------------------
(* What a comment says and the code does not always do *)

\* "Atomic (tmp + os.replace) so a crash can't leave a torn file"
NeverTorn == File \notin {Empty, Garbled}
=============================================================================
