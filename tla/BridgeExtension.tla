--------------------------- MODULE BridgeExtension ---------------------------
(***************************************************************************)
(* One live connection of the browser extension (extension/src): the   *)
(* tabs the user handed over, their debuggers, the tab group, and the      *)
(* re-attachment of tabs whose debugger Chrome has dropped.                *)
(*                                                                         *)
(* The service worker handles one event at a time; an action is a handler  *)
(* up to its await.  A chrome.* call takes effect when its promise         *)
(* resolves, and any number of events may come before that.                *)
(***************************************************************************)
EXTENDS Link, SequencesExt

CONSTANT Picked    \* the tab the user picked on the connect page
ASSUME PickedAssumption == Picked \in Tabs

VARIABLES
    page,      \* [Tabs -> "unborn", "open", "closed"]: the browser's own list
    alive,     \* ~_closed
    offered,   \* _offeredTabs
    attached,  \* _attachedTabs
    ever,      \* _hasEverAttached
    pend,      \* [Tabs -> the timer of a tab in _pendingReattach]
    recent,    \* _recentReattach
    grouped,   \* _groupTabIds
    joining,   \* tabs _addTabToGroup is at
    running    \* commands whose chrome.* call has not returned

tabVars == <<offered, attached, pend, recent, grouped>>
extVars == <<page, alive, tabVars, ever, joining, running>>

NoPend == [t \in Tabs |-> "no"]

-----------------------------------------------------------------------------
(* Helpers *)

Send(msgs) == up' = IF alive THEN up \o msgs ELSE up

\* Chrome fails what a debugger was asked when it is detached.
Asked(T) == {c \in running : c.kind \in {"info", "command"} /\ c.tab \in T}
Refusals(calls) == SetToSeq({Answer(c.task, c.tab, FALSE) : c \in calls})

\* _onClose: the debuggers are detached, the group is released.
Closed(msgs) ==
    /\ up' = up \o msgs \o <<Bye>>
    /\ alive' = FALSE
    /\ running' = running \ Asked(Tabs)
    /\ offered' = {} /\ attached' = {} /\ grouped' = {} /\ recent' = {}
    /\ pend' = NoPend

\* _checkLastTabDetached, for the tabs attached and pending after the step.
NoneLeft(att, pd) == ever /\ att = {} /\ pd = NoPend

\* A step that detached something or gave up a re-attachment ends in that check.
Checked(off, att, pd, rec, grp, msgs) ==
    IF NoneLeft(att, pd) THEN Closed(msgs)
    ELSE /\ up' = up \o msgs
         /\ offered' = off /\ attached' = att /\ pend' = pd /\ recent' = rec /\ grouped' = grp
         /\ running' = running \ Asked(Tabs \ att)
         /\ UNCHANGED alive

\* attachTab: announced unless it is attached; the relay answers with an attach.
Announce(t) ==
    IF t \in attached \/ ~alive THEN UNCHANGED <<up, offered>>
    ELSE /\ offered' = offered \cup {t}
         /\ up' = Append(up, Event("created", t))

-----------------------------------------------------------------------------
(* Commands of the relay *)

\* handleCommand up to the chrome.* call: a tab that was not handed over is refused,
\* and Chrome refuses to ask a debugger that is not attached, or to attach a second.
Accepted(c) ==
    /\ c.tab \in offered \cup {NoTab}
    /\ c.kind \in {"info", "command"} => c.tab \in attached
    /\ c.kind = "attach" => c.tab \notin attached

ExtReceives ==
    /\ down # <<>>
    /\ down' = Tail(down)
    /\ LET c == Head(down)
       IN  CASE ~alive -> UNCHANGED <<up, alive, tabVars, running>>
             [] alive /\ c.kind = "bye" -> Closed(<<>>)
             [] alive /\ c.kind # "bye" ->
                  /\ IF Accepted(c)
                     THEN running' = running \cup {c} /\ UNCHANGED up
                     ELSE Send(<<Answer(c.task, c.tab, FALSE)>>) /\ UNCHANGED running
                  /\ UNCHANGED <<alive, tabVars>>
    /\ UNCHANGED <<page, ever, joining>>

\* Attaching, creating and removing may fail, and do if there is nothing to attach or
\* to create; a target whose debugger is attached answers.
Impossible(c) ==
    \/ c.kind = "attach" /\ (page[c.tab] # "open" \/ c.tab \in attached)
    \/ c.kind = "create" /\ \A t \in Tabs : page[t] # "unborn"

CallFails(c) ==
    /\ c.kind \in {"attach", "create", "remove"}
    /\ running' = running \ {c}
    /\ Send(<<Answer(c.task, c.tab, FALSE)>>)
    /\ UNCHANGED <<down, page, alive, tabVars, ever, joining>>

\* chrome.debugger.attach: a tab has one debugger, and the other calls that are at it
\* are refused.  The tab joins the group, whatever has become of it, or of the
\* connection, in the meantime.
Attach(c) ==
    LET others == {d \in running \ {c} : d.kind = "attach" /\ d.tab = c.tab}
    IN  /\ c.kind = "attach"
        /\ page[c.tab] = "open" /\ c.tab \notin attached
        /\ attached' = attached \cup {c.tab}
        /\ ever' = TRUE
        /\ pend' = [pend EXCEPT ![c.tab] = "no"]
        /\ joining' = IF c.tab \in grouped THEN joining ELSE joining \cup {c.tab}
        /\ running' = (running \ {c}) \ others
        /\ Send(<<Answer(c.task, c.tab, TRUE)>> \o Refusals(others))
        /\ UNCHANGED <<down, page, alive, offered, recent, grouped>>

\* chrome.debugger.sendCommand; chrome.tabs.remove of a tab that has gone.
Forward(c) ==
    /\ \/ c.kind \in {"info", "command"}
       \/ c.kind = "remove" /\ page[c.tab] = "closed"
    /\ running' = running \ {c}
    /\ Send(<<Answer(c.task, c.tab, TRUE)>>)
    /\ UNCHANGED <<down, page, alive, tabVars, ever, joining>>

\* chrome.tabs.create: the new tab is offered.
Create(c) ==
    /\ c.kind = "create"
    /\ \E t \in {u \in Tabs : page[u] = "unborn"} :
         /\ page' = [page EXCEPT ![t] = "open"]
         /\ offered' = offered \cup {t}
         /\ Send(<<Answer(c.task, t, TRUE)>>)
    /\ running' = running \ {c}
    /\ UNCHANGED <<down, alive, attached, pend, recent, grouped, ever, joining>>

-----------------------------------------------------------------------------
(* What happens to tabs *)

\* _maybeScheduleReattach: not twice within the cooldown.
Dropped(t, off, grp, msgs) ==
    LET again == t \notin recent
    IN  Checked(off, attached \ {t},
                IF again THEN [pend EXCEPT ![t] = "delay"] ELSE pend,
                recent \cup {t}, grp, msgs)

\* Chrome detaches the debugger: a navigation to another process, which comes
\* back, or a person who cancels the debugging.
TargetDetached(t) ==
    /\ alive /\ t \in attached /\ page[t] = "open"
    /\ Dropped(t, offered, grouped, Refusals(Asked({t})) \o <<Event("detached", t)>>)
    /\ UNCHANGED <<down, page, ever, joining>>

Cancelled(t) ==
    /\ alive /\ t \in attached /\ page[t] = "open"
    /\ Checked(offered, attached \ {t}, pend, recent, grouped, Refusals(Asked({t})) \o <<Event("detached", t)>>)
    /\ UNCHANGED <<down, page, ever, joining>>

\* The tab goes; onRemoved is forwarded if it comes before onDetach.
TabCloses(t) ==
    /\ page[t] = "open"
    /\ page' = [page EXCEPT ![t] = "closed"]
    /\ IF ~alive
       THEN attached' = attached \ {t} /\ UNCHANGED <<up, alive, offered, pend, recent, grouped, running>>
       ELSE IF t \in attached
       THEN \/ Dropped(t, offered, grouped \ {t}, Refusals(Asked({t})) \o <<Event("detached", t)>>)
            \/ Dropped(t, offered \ {t}, grouped \ {t},
                       Refusals(Asked({t})) \o <<Event("removed", t), Event("detached", t)>>)
       ELSE /\ grouped' = grouped \ {t}
            /\ UNCHANGED <<up, alive, offered, attached, pend, recent, running>>
    /\ UNCHANGED <<down, ever, joining>>

\* A tab is dragged into the group; one that cannot be debugged waits there for a
\* navigation.
DragIn(t) ==
    /\ alive /\ page[t] = "open" /\ t \notin grouped /\ grouped # {}
    /\ grouped' = grouped \cup {t}
    /\ Announce(t) \/ UNCHANGED <<up, offered>>
    /\ UNCHANGED <<down, page, alive, attached, pend, recent, ever, joining, running>>

\* Mutant: the debugger is forgotten.
DragOutKeeps(t) ==
    /\ alive /\ t \in grouped
    /\ grouped' = grouped \ {t}
    /\ IF t \in attached THEN offered' = offered \ {t} /\ up' = Append(up, Event("detached", t))
       ELSE UNCHANGED <<up, offered>>
    /\ UNCHANGED <<down, page, alive, attached, pend, recent, ever, joining, running>>

\* Dragged out: an attached tab is withdrawn and detached.
DragOut(t) ==
    /\ alive /\ t \in grouped
    /\ IF t \in attached
       THEN Checked(offered \ {t}, attached \ {t}, pend, recent, grouped \ {t},
                    <<Event("detached", t)>> \o Refusals(Asked({t})))
       ELSE /\ grouped' = grouped \ {t}
            /\ UNCHANGED <<up, alive, offered, attached, pend, recent, running>>
    /\ UNCHANGED <<down, page, ever, joining>>

\* A navigation attaches a tab of the group again.
Navigated(t) ==
    /\ alive /\ t \in grouped \ attached /\ page[t] = "open"
    /\ Announce(t)
    /\ UNCHANGED <<down, page, alive, attached, pend, recent, grouped, ever, joining, running>>

\* A page of an attached tab opens another one.
Popup(t) ==
    /\ alive /\ attached # {} /\ page[t] = "unborn"
    /\ page' = [page EXCEPT ![t] = "open"]
    /\ offered' = offered \cup {t}
    /\ up' = Append(up, Event("created", t))
    /\ UNCHANGED <<down, alive, attached, pend, recent, grouped, ever, joining, running>>

\* _addTabToGroup is through.  Chrome reports the new member, which is news to a
\* group that knows its id: it is announced if it is not attached any more.
Joined(t) ==
    /\ t \in joining
    /\ joining' = joining \ {t}
    /\ IF page[t] # "open" THEN UNCHANGED <<up, offered, grouped>>
       ELSE \/ /\ grouped' = grouped \cup {t}
               /\ IF grouped = {} THEN UNCHANGED <<up, offered>> ELSE Announce(t)
            \/ grouped = {} /\ UNCHANGED <<up, offered, grouped>>
    /\ UNCHANGED <<down, page, alive, attached, pend, recent, ever, running>>

UserDisconnects ==
    /\ alive
    /\ Closed(<<>>)
    /\ UNCHANGED <<down, page, ever, joining>>

-----------------------------------------------------------------------------
(* Timers of the re-attachment *)

\* _tryReattach: a tab that is still there is announced again.
TryReattach(t) ==
    /\ pend[t] = "delay"
    /\ IF page[t] = "open"
       THEN /\ Announce(t)
            /\ pend' = [pend EXCEPT ![t] = "verify"]
            /\ UNCHANGED <<alive, attached, recent, grouped, running>>
       ELSE Checked(offered, attached, [pend EXCEPT ![t] = "no"], recent, grouped, <<>>)
    /\ UNCHANGED <<down, page, ever, joining>>

\* Mutant: nobody looks whether that was the last tab.
VerifiedQuietly(t) ==
    /\ pend[t] = "verify" /\ pend' = [pend EXCEPT ![t] = "no"]
    /\ UNCHANGED <<linkVars, page, alive, offered, attached, recent, grouped, ever, joining, running>>

\* It had its time to come back.
Verified(t) ==
    /\ pend[t] = "verify"
    /\ Checked(offered, attached, [pend EXCEPT ![t] = "no"], recent, grouped, <<>>)
    /\ UNCHANGED <<down, page, ever, joining>>

\* The cooldown is longer than the two timers together.
CooledDown(t) ==
    /\ t \in recent /\ pend[t] = "no"
    /\ recent' = recent \ {t}
    /\ UNCHANGED <<linkVars, page, alive, offered, attached, pend, grouped, ever, joining, running>>

-----------------------------------------------------------------------------
\* The group of a new connection announces the tab that was picked.
ExtInit ==
    /\ page \in [Tabs -> {"unborn", "open"}] /\ page[Picked] = "open"
    /\ offered = {Picked}
    /\ up = <<Event("created", Picked), Event("initialized", NoTab)>>
    /\ alive = TRUE
    /\ attached = {} /\ ever = FALSE /\ pend = NoPend /\ recent = {}
    /\ grouped = {} /\ joining = {} /\ running = {}

Call(c) ==
    \/ Attach(c) \/ Forward(c) \/ Create(c)
    \/ c.kind = "remove" /\ TabCloses(c.tab)
    \/ Impossible(c) /\ CallFails(c)
Timer(t) == TryReattach(t) \/ Verified(t)

Incident ==
    \/ UserDisconnects
    \/ \E c \in running : ~Impossible(c) /\ CallFails(c)
    \/ \E t \in Tabs : \/ TargetDetached(t) \/ Cancelled(t) \/ TabCloses(t)
                      \/ DragIn(t) \/ DragOut(t) \/ Navigated(t) \/ Popup(t)

ExtStep ==
    \/ ExtReceives
    \/ \E c \in running : Call(c)
    \/ \E t \in Tabs : Timer(t) \/ CooledDown(t) \/ Joined(t)

ExtTypeOK ==
    /\ page \in [Tabs -> {"unborn", "open", "closed"}]
    /\ {alive, ever} \subseteq BOOLEAN
    /\ offered \subseteq Tabs /\ attached \subseteq Tabs /\ recent \subseteq Tabs
    /\ grouped \subseteq Tabs /\ joining \subseteq Tabs
    /\ pend \in [Tabs -> {"no", "delay", "verify"}]
    /\ running \subseteq Commands
=============================================================================
