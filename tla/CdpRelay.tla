------------------------------ MODULE CdpRelay ------------------------------
(***************************************************************************)
(* The relay between Playwright and the extension (src/cdp_relay.py):  *)
(* the tabs it knows, a CDP session for each tab it has attached, and the  *)
(* tasks that wait for answers of the extension.                           *)
(*                                                                         *)
(* The reader handles a message without suspending and goes on to the next *)
(* if there is one; the tasks it has made runnable have their turn later,  *)
(* in that order.  An action is one turn.                                  *)
(***************************************************************************)
EXTENDS Link, FiniteSetsExt, SequencesExt

VARIABLES
    initialized,
    closed,    \* the extension link is gone: ExtensionBridge.closed
    known,     \* _known_tabs
    session,   \* _sessions
    pages,     \* [Tabs -> attached minus detached sessions, as the client heard]
    auto,      \* _auto_attach
    client,    \* "away", "here", "gone": the CDP connection
    task,      \* [Tasks -> what a task does and waits for]
    ready      \* runnable tasks, first come first served

tabModel == <<known, session, pages>>
taskVars == <<task, ready>>
relayVars == <<initialized, closed, tabModel, auto, client, taskVars>>

Idle == [goal |-> "none", step |-> "idle", tab |-> NoTab, ok |-> TRUE]
Job(goal, t) == [goal |-> goal, step |-> "start", tab |-> t, ok |-> TRUE]
TaskStates == [goal : {"none", "spawned", "attach", "create", "remove", "command"},
               step : {"idle", "start", "attach", "info", "create", "remove", "command", "cancelled"},
               tab : Tabs \cup {NoTab}, ok : BOOLEAN]

-----------------------------------------------------------------------------
(* Helpers *)

FreshTasks == {k \in Tasks : task[k].step = "idle"}
Fresh == CHOOSE k \in FreshTasks : TRUE

Busy(k) == task[k].step \notin {"idle", "cancelled"}
\* Tasks that wait for an answer: _ext_pending.
Waiting == {k \in Tasks : Busy(k) /\ ~Contains(ready, k)}
\* Their call is still out, but they were cancelled: nobody waits for the answer.
Orphans == {k \in Tasks : task[k].step = "cancelled" /\ ~Contains(ready, k)}

\* Asked of the extension and answered with an error at once if it is gone.
Ask(k, t, step, rest) ==
    /\ IF closed
       THEN task' = [task EXCEPT ![k] = Idle] /\ UNCHANGED down
       ELSE /\ task' = [task EXCEPT ![k] = [@ EXCEPT !.step = step, !.tab = t]]
            /\ down' = Append(down, Command(step, k, t))
    /\ ready' = rest

End(k, rest) == task' = [task EXCEPT ![k] = Idle] /\ ready' = rest /\ UNCHANGED down

\* Mutant: the detach is announced for a tab without a session, too.
DetachUnchecked(t) ==
    session' = session \ {t} /\ pages' = [pages EXCEPT ![t] = @ - 1]

\* _detach_tab
DetachTab(t) ==
    /\ session' = session \ {t}
    /\ pages' = IF t \in session /\ client = "here" THEN [pages EXCEPT ![t] = @ - 1] ELSE pages

-----------------------------------------------------------------------------
(* The reader of the extension's messages *)

\* A future is resolved: its task becomes runnable.  An answer nobody waits for is
\* thrown away.
OnAnswer(m) ==
    /\ IF m.task \in Waiting
       THEN /\ task' = [task EXCEPT ![m.task].ok = m.ok, ![m.task].tab = m.tab]
            /\ ready' = Append(ready, m.task)
       ELSE /\ task' = [k \in Tasks |-> IF k = m.task /\ k \in Orphans THEN Idle ELSE task[k]]
            /\ UNCHANGED ready
    /\ UNCHANGED <<initialized, closed, tabModel, auto, client>>

\* _on_tab_created
OnCreated(m) ==
    /\ known' = known \cup {m.tab}
    /\ IF auto THEN /\ FreshTasks # {}
                    /\ task' = [task EXCEPT ![Fresh] = Job("spawned", m.tab)]
                    /\ ready' = Append(ready, Fresh)
       ELSE UNCHANGED taskVars
    /\ UNCHANGED <<initialized, closed, session, pages, auto, client>>

\* _on_tab_removed, chrome.debugger.onDetach
OnRemoved(m) ==
    /\ known' = IF m.kind = "removed" THEN known \ {m.tab} ELSE known
    /\ DetachTab(m.tab)
    /\ UNCHANGED <<initialized, closed, auto, client, taskVars>>

OnInitialized ==
    /\ initialized' = TRUE
    /\ UNCHANGED <<closed, tabModel, auto, client, taskVars>>

\* Mutants: the calls in flight are forgotten; the client is not disconnected.
OnByeForgets ==
    /\ closed' = TRUE
    /\ client' = IF client = "here" THEN "gone" ELSE client
    /\ UNCHANGED <<initialized, tabModel, auto, taskVars>>
OnByeKeepsClient ==
    /\ closed' = TRUE
    /\ task' = [k \in Tasks |-> IF k \in Waiting THEN [task[k] EXCEPT !.ok = FALSE] ELSE task[k]]
    /\ ready' = ready \o SetToSeq(Waiting)
    /\ UNCHANGED <<initialized, tabModel, auto, client>>

\* The link ends: every waiting task gets an error, the client is disconnected and
\* its tasks cancelled.
OnBye ==
    LET failed == Waiting
    IN  /\ closed' = TRUE
        /\ client' = IF client = "here" THEN "gone" ELSE client
        /\ task' = [k \in Tasks |-> IF k \in failed THEN [task[k] EXCEPT !.ok = FALSE]
                                   ELSE IF k \in Orphans THEN Idle ELSE task[k]]
        /\ ready' = ready \o SetToSeq(failed)
        /\ UNCHANGED <<initialized, tabModel, auto>>

RelayReceives ==
    /\ up # <<>> /\ ~closed
    /\ up' = Tail(up)
    /\ UNCHANGED down
    /\ LET m == Head(up)
       IN  \/ m.kind = "answer" /\ OnAnswer(m)
           \/ m.kind = "created" /\ OnCreated(m)
           \/ m.kind \in {"removed", "detached"} /\ OnRemoved(m)
           \/ m.kind = "initialized" /\ OnInitialized
           \/ m.kind = "bye" /\ OnBye

-----------------------------------------------------------------------------
(* Tasks *)

\* _attach_tab: a tab with a session is left alone.
StartAttach(k, t, rest) ==
    IF t \in session THEN End(k, rest) ELSE Ask(k, t, "attach", rest)

\* The first turn of a task.
Begins(k, rest) ==
    LET j == task[k]
    IN  /\ j.step = "start"
        /\ \/ j.goal \in {"spawned", "attach"} /\ StartAttach(k, j.tab, rest)
           \/ j.goal = "create" /\ Ask(k, NoTab, "create", rest)
           \/ /\ j.goal \in {"remove", "command"}
              /\ IF j.tab \in session THEN Ask(k, j.tab, j.goal, rest) ELSE End(k, rest)
        /\ UNCHANGED tabModel

\* The answer of the extension is an error, or all the task wanted; or the task
\* was cancelled before its turn.
Ends(k, rest) ==
    /\ task[k].step # "start"
    /\ ~task[k].ok \/ task[k].step \in {"remove", "command", "cancelled"}
    /\ End(k, rest)
    /\ UNCHANGED tabModel

\* The rest of _create_target: the new tab is attached.
Created(k, rest) ==
    /\ task[k].step = "create" /\ task[k].ok
    /\ known' = known \cup {task[k].tab}
    /\ StartAttach(k, task[k].tab, rest)
    /\ UNCHANGED <<session, pages>>

\* The debugger is attached: the target is asked for its info.
AttachDone(k, rest) ==
    /\ task[k].step = "attach" /\ task[k].ok
    /\ Ask(k, task[k].tab, "info", rest)
    /\ UNCHANGED tabModel

\* The session is registered and announced.
InfoDone(k, rest) ==
    LET t == task[k].tab
    IN  /\ task[k].step = "info" /\ task[k].ok
        /\ session' = session \cup {t}
        /\ pages' = IF client = "here" THEN [pages EXCEPT ![t] = @ + 1] ELSE pages
        /\ End(k, rest)
        /\ UNCHANGED known

RunTask ==
    /\ ready # <<>>
    /\ LET k == Head(ready)
           rest == Tail(ready)
       IN  Begins(k, rest) \/ Ends(k, rest) \/ Created(k, rest) \/ AttachDone(k, rest) \/ InfoDone(k, rest)
    /\ UNCHANGED <<up, initialized, closed, auto, client>>

-----------------------------------------------------------------------------
(* The CDP client *)

ClientConnects ==
    /\ client = "away" /\ initialized /\ ~closed
    /\ client' = "here"
    /\ UNCHANGED <<linkVars, initialized, closed, tabModel, auto, taskVars>>

\* Target.setAutoAttach: all known tabs are attached, at the same time.
AutoAttach ==
    /\ client = "here" /\ ~auto
    /\ auto' = TRUE
    /\ \E f \in [known -> FreshTasks] :
         /\ \A t, u \in known : f[t] = f[u] => t = u
         /\ task' = [k \in Tasks |-> IF \E t \in known : f[t] = k
                                     THEN Job("attach", CHOOSE t \in known : f[t] = k) ELSE task[k]]
         /\ ready' = ready \o SetToSeq({f[t] : t \in known})
    /\ UNCHANGED <<linkVars, initialized, closed, tabModel, client>>

\* A command of the client becomes a task of its own.
ClientAsks(goal, t) ==
    /\ client = "here" /\ auto
    /\ FreshTasks # {}
    /\ goal = "create" <=> t = NoTab
    /\ t # NoTab => pages[t] > 0
    /\ task' = [task EXCEPT ![Fresh] = Job(goal, t)]
    /\ ready' = Append(ready, Fresh)
    /\ UNCHANGED <<linkVars, initialized, closed, tabModel, auto, client>>

\* Mutant: the extension's link is left open.
ClientLeavesQuietly ==
    /\ client = "here" /\ client' = "gone"
    /\ task' = [k \in Tasks |-> IF Busy(k) /\ task[k].goal # "spawned"
                               THEN [Idle EXCEPT !.step = "cancelled"] ELSE task[k]]
    /\ UNCHANGED <<linkVars, initialized, closed, tabModel, auto, ready>>

\* The client leaves: its tasks are cancelled, those the reader spawned are not,
\* and the extension's link is closed.
ClientLeaves ==
    /\ client = "here"
    /\ client' = "gone"
    /\ task' = [k \in Tasks |-> IF Busy(k) /\ task[k].goal # "spawned"
                               THEN [Idle EXCEPT !.step = "cancelled"] ELSE task[k]]
    /\ down' = Append(down, Command("bye", NoTask, NoTab))
    /\ UNCHANGED <<up, initialized, closed, tabModel, auto, ready>>

-----------------------------------------------------------------------------
RelayInit ==
    /\ initialized = FALSE /\ closed = FALSE
    /\ known = {} /\ session = {} /\ pages = [t \in Tabs |-> 0]
    /\ auto = FALSE /\ client = "away"
    /\ task = [k \in Tasks |-> Idle] /\ ready = <<>>

RelayStep ==
    \/ RelayReceives \/ RunTask
    \/ ClientConnects \/ AutoAttach

ClientCommand ==
    \/ ClientLeaves
    \/ \E goal \in {"create", "remove", "command"}, t \in Tabs \cup {NoTab} : ClientAsks(goal, t)

RelayTypeOK ==
    /\ {initialized, closed, auto} \subseteq BOOLEAN
    /\ known \subseteq Tabs /\ session \subseteq Tabs
    /\ pages \in [Tabs -> Nat]
    /\ client \in {"away", "here", "gone"}
    /\ task \in [Tasks -> TaskStates] /\ ready \in Seq(Tasks)
=============================================================================
