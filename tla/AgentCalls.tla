------------------------------ MODULE AgentCalls ------------------------------
(***************************************************************************)
(* What an agent does to a chat's browser while a person uses it as well:  *)
(* the tool calls of src/src/agent_ops.py on the driver's operations of    *)
(* src/src/browser_driver.py.  Tabs, their activation, viewers and sites   *)
(* are those of Screencast; frames are left out.                           *)
(*                                                                         *)
(* A call names a tab, makes it the active one and from then on works on   *)
(* "the active tab", which every operation of the driver looks up anew.    *)
(* Documents of a tab are numbered.  The number the driver has been told   *)
(* of, by framenavigated, is its epoch, and the address it knows goes with *)
(* it.  Refs are names that every document gives out afresh (e1, e2, ...): *)
(* the model follows the document whose tree a caller has a ref from, and  *)
(* any ref may be a name in any other tree as well.                        *)
(***************************************************************************)
EXTENDS Screencast

CONSTANTS
    MaxDocs,     \* bound on the documents a tab goes through
    MaxTurns     \* bound on calls and on what person and sites do, together

ASSUME CallAssumption == {MaxDocs, MaxTurns} \subseteq Nat \ {0}

VARIABLES
    page,     \* [Tabs -> what browser and driver know of the tab's page]
    paused,   \* agent_paused
    call,     \* [Agents -> the call in progress, and the script it belongs to]
    moved,    \* SUBSET Agents: calls whose tab somebody else took away or
              \* switched from, since they came in (history)
    late,     \* [Agents -> calls that touched a page since the pause] (history)
    turns     \* how many of MaxTurns are used up

castVars == <<listVars, active, viewerVars, captureVars, latest, streamVars, taskVars>>
allVars == <<castVars, page, paused, call, moved, late, turns>>

\* doc_epoch, refs (the documents of their trees) and refs_epoch of a _Tab next to
\* the browser's own count; 0 stands for the refs_epoch of a tab that has not been
\* read.  A document answers to refs once its tree was `taken`.  History: a read is
\* torn when the driver was told of a navigation before it recorded the refs.
BlankPage == [doc |-> 1, epoch |-> 1, taken |-> {}, refs |-> {}, read |-> 0,
              torn |-> FALSE]
Docs == 1..MaxDocs

ReadModes == {"none", "tree", "subtree", "text", "find"}
Phases == {"idle", "driver", "acting", "settling", "loading", "reading", "read", "masking",
           "between"}

\* A call's ref is known by the document it is from.  History: it is astray when it
\* passed for one of another document, or the read it was checked against is torn.
Idle == [at |-> "idle", kind |-> "view", tab |-> NoTab, ref |-> 0, astray |-> FALSE,
         todo |-> <<>>, settles |-> FALSE, read |-> "none", on |-> NoTab, mark |-> 0,
         got |-> 0, late |-> FALSE, script |-> "none", tree |-> 0]
Scripts == {"none", "batch", "recipe"}

-----------------------------------------------------------------------------
(* The driver's operations as sequences of what they ask of the page, one    *)
(* await each:                                                                *)
(*   "ref"    on the element of the ref; fails when it is not there           *)
(*   "input"  keyboard, mouse or script on the tab                            *)
(*   "peek"   on the element, "eval" on the tab, with failures swallowed      *)
(*   "field"  looks for the element, without it the call has nothing to do    *)
(*   "goto"   a navigation; "landed" waits for it                             *)
(*   "again"  looks the active tab up once more                               *)

\* click: by ref or by coordinate, modifiers around it on the same page.
Click == {<<"ref">>, <<"input">>}

\* type_text: focus, type, read back.
TypeText == {<<"input">>, <<"ref", "input", "peek">>}

PressKeys == {<<"input">>}

Scroll == {<<"input">>, <<"ref", "input">>}

\* scroll_to answers False instead of failing.
ScrollTo == {<<"peek">>}

Hover == {<<"ref">>, <<"input">>}

\* drag: move, press, move, release.
Drag == {<<"input", "input", "input", "input">>}

\* form_input: what kind of field, set it, read it back unless it is a choice.
FormInput == {<<"ref", "ref">>, <<"ref", "ref", "peek">>}

UploadFiles == {<<"ref">>}

\* download: the click; what it starts is awaited and saved apart from the page.
Download == {<<"ref">>}

\* eval_js turns a failure into a result.
EvalJs == {<<"eval">>}

\* open, go_back and go_forward.
OpenPage == <<"goto", "landed">>

\* fill_login: no form, both fields and Enter, or the username first and the password
\* on the screen that follows, whose frame is looked up anew, if it comes.
FillLogin == {<<>>, <<"input">>, <<"input", "again">>, <<"input", "again", "input">>}

\* fill_login_at: the same around the field of a ref.
FillLoginAt ==
    {<<"field", "ref", "input">>, <<"field", "ref", "again">>,
     <<"field", "ref", "again", "input">>}

Tool(steps, settles, read) == [steps |-> steps, settles |-> settles, read |-> read]

\* computer's actions and form_input reply with what changed, and with the page
\* if the call asks for it.
ComputerTools ==
    {Tool(steps, TRUE, read) :
        steps \in Click \cup TypeText \cup PressKeys \cup ScrollTo \cup Scroll \cup Hover
                  \cup Drag \cup FormInput,
        read \in {"none", "tree", "text"}}

\* javascript_tool, file_upload, download and login at a ref.
PageTools ==
    {Tool(steps, FALSE, "none") :
        steps \in EvalJs \cup UploadFiles \cup Download \cup FillLoginAt}

\* login at the stored address.
LoginTools == {Tool(OpenPage \o <<"again">> \o steps, FALSE, "none") : steps \in FillLogin}

\* What a paused agent may do as well.
ReadTools == {Tool(<<>>, FALSE, read) : read \in {"tree", "subtree", "text"}}
FindTools == {Tool(<<>>, FALSE, "find")}

\* resize, console, network, screenshots: nothing that matters here.
LookTools == {Tool(<<>>, FALSE, "none")}

\* wait_for, list_frames, switch_frame, last_dialog: with the page if asked for.
WaitTools == {Tool(<<>>, FALSE, read) : read \in {"none", "tree", "text"}}

\* navigate takes control back.
NavigateTools == {Tool(OpenPage, TRUE, read) : read \in {"none", "tree", "text"}}

ToolsOf(kind) ==
    CASE kind = "view" -> ReadTools \cup FindTools \cup LookTools \cup WaitTools
      [] kind = "act" -> ComputerTools \cup PageTools \cup LoginTools
      [] kind = "login" -> LoginTools
      [] kind = "navigate" -> NavigateTools

OnElement == {"ref", "peek", "field"}
NeedsRef(tool) == tool.read = "subtree" \/ Range(tool.steps) \cap OnElement # {}

-----------------------------------------------------------------------------
(* Helpers *)

\* A page is there until it is closed, be it on the list or not.
Open(t) == t \in Range(tabs) \/ \E u \in Tasks : victim[u] = t

\* The pages as a step of task u leaves them: a new tab starts anew, a closed one
\* is forgotten.
PagesAfter(u) ==
    page' = [t \in Tabs |-> IF t \in Range(tabs') \/ \E w \in Tasks : victim'[w] = t
                            THEN page[t] ELSE BlankPage]

\* No call refers to a tab that is opened: numbers of tabs are never used again.
NewNumber ==
    \A t \in Range(tabs') \ Range(tabs), a \in Agents : t \notin {call[a].tab, call[a].on}

\* History: task u may have taken the tab of others' calls away from them.
Track(u) ==
    moved' = {a \in Agents :
        /\ call'[a].tab # NoTab
        /\ \/ a \in moved
           \/ /\ a # u /\ call[a].tab # NoTab
              /\ active' # active \/ call[a].tab \notin Range(tabs')}

Put(a, c) == call' = [call EXCEPT ![a] = c]

\* The call raises; a batch or a recipe stops with it.
Fail(a) == Put(a, Idle)

\* run_batch: the item is done and there are more, in between it waits for a
\* navigation the item may have started.
BatchGoesOn(a, c) ==
    /\ c.script \in {"none", "batch"}
    /\ Put(a, [Idle EXCEPT !.at = "between", !.script = "batch"])

\* run_recipe: the step is done and there are more; the last tree is kept.
RecipeGoesOn(a, c) ==
    /\ c.script \in {"none", "recipe"}
    /\ Put(a, [Idle EXCEPT !.at = "between", !.script = "recipe", !.tree = c.tree])

\* The call returns.  It may have been an item of a batch or a step of a recipe.
Done(a, c) == Put(a, Idle) \/ BatchGoesOn(a, c) \/ RecipeGoesOn(a, c)

\* page_after and read_page: the tab read is the one active now.
Reply(a, c) ==
    IF c.read = "none" THEN Done(a, c)
    ELSE IF tabs = <<>> THEN Fail(a)
    ELSE Put(a, [c EXCEPT !.at = "reading", !.on = ActiveTab, !.mark = 0, !.settles = FALSE,
                       !.astray = FALSE, !.ref = IF c.read = "subtree" THEN @ ELSE 0])

\* settle looks the active tab up as well.
Settle(a, c) ==
    IF ~c.settles THEN Reply(a, c)
    ELSE IF tabs = <<>> THEN Fail(a)
    ELSE Put(a, [c EXCEPT !.at = "settling", !.on = ActiveTab])

Proceed(a, c) == IF c.todo = <<>> THEN Settle(a, c) ELSE Put(a, [c EXCEPT !.at = "acting"])

\* _check_ref lets a ref pass: the tab was read, in the document the driver knows it
\* to show, and the name is among those of the read, whichever document it is from.
Accepted(t) ==
    /\ page[t].read # 0
    /\ page[t].read = page[t].epoch

\* Refs of trees the caller may have seen; a recipe's targets are looked up in the
\* tree its last read_page returned.
RefsFor(c) == IF c.script = "recipe" THEN {c.tree} \ {0} ELSE page[ActiveTab].taken

\* _check_ref refuses: a login at a ref answers that, another call raises.  There is
\* always a name that was in no tree.
Refused(a, c, tool) == IF "field" \in Range(tool.steps) THEN Done(a, c) ELSE Fail(a)

\* What the call is from here on.
Engaged(c, tool, ref) ==
    [c EXCEPT !.on = ActiveTab, !.ref = ref, !.todo = tool.steps, !.settles = tool.settles,
              !.astray = ref # 0 /\ (page[ActiveTab].torn \/ ref \notin page[ActiveTab].refs),
              !.read = IF c.script = "recipe" /\ c.kind # "view" THEN "none" ELSE tool.read,
              !.mark = IF tool.settles THEN page[ActiveTab].epoch ELSE 0]

\* The named tab is active: the marker is taken, the ref checked and the driver's
\* operation begun, without an await in between.  Only here it matters which tool
\* was called.
Engage(a, c) ==
    IF tabs = <<>> THEN Fail(a)
    ELSE \E tool \in ToolsOf(c.kind) :
         IF ~NeedsRef(tool) THEN Proceed(a, Engaged(c, tool, 0))
         ELSE \/ /\ Accepted(ActiveTab)
                 /\ \E ref \in RefsFor(c) : Proceed(a, Engaged(c, tool, ref))
              \/ Refused(a, c, tool)

-----------------------------------------------------------------------------
(* A call comes in *)

\* Mutant: a script asks once, when it begins.
AdmittedOnce(a, kind) == kind \in {"view", "navigate"} \/ ~paused \/ call[a].at = "between"

\* _session: the pause is looked at once, for every item of a script; navigate
\* takes control back instead.
Admitted(a, kind) == kind \in {"view", "navigate"} \/ ~paused

ClearsPause(kind) ==
    /\ paused' = (paused /\ kind # "navigate")
    /\ late' = IF kind = "navigate" THEN [a \in Agents |-> 0] ELSE late

\* A call comes by itself or as the next item of a script.
Comes(a, kind) ==
    /\ turns < MaxTurns
    /\ call[a].at \in {"idle", "between"}
    /\ Admitted(a, kind)
    /\ turns' = turns + 1

\* Mutant: only acting calls activate the tab.
ActivateToAct(a, c) ==
    IF c.tab = active \/ c.kind = "view" THEN Engage(a, c) /\ UNCHANGED castVars
    ELSE SwitchTab(a, c.tab) /\ Put(a, [c EXCEPT !.at = "driver"])

\* _on_tab: the named tab is activated, unless it is active already.
ActivateNum(a, c) ==
    IF c.tab = active THEN Engage(a, c) /\ UNCHANGED castVars
    ELSE SwitchTab(a, c.tab) /\ Put(a, [c EXCEPT !.at = "driver"])

CallTool(a) ==
    /\ \E kind \in {"view", "act", "navigate"}, t \in Range(tabs) :
         /\ Comes(a, kind)
         /\ ClearsPause(kind)
         /\ ActivateNum(a, [call[a] EXCEPT !.kind = kind, !.tab = t])
    /\ UNCHANGED page
    /\ Track(a)

\* login may name no tab: it takes the active one.
Login(a) ==
    /\ Comes(a, "login")
    /\ Engage(a, [call[a] EXCEPT !.kind = "login"])
    /\ UNCHANGED <<castVars, page, paused, late>>
    /\ Track(a)

\* tabs_create and tabs_close.
TabTool(a) ==
    /\ Comes(a, "act")
    /\ NewTab(a) \/ \E t \in Tabs : CloseTab(a, t)
    /\ Put(a, [call[a] EXCEPT !.at = "driver", !.kind = "act"])
    /\ PagesAfter(a)
    /\ UNCHANGED <<paused, late>>
    /\ Track(a)

\* The rest of an activation, a new tab or a close.
DriverGoesOn(a) ==
    /\ \/ Stopped(a) \/ Fronted(a) \/ Started(a) \/ Opened(a) \/ OpenFails(a)
       \/ ClosingStopped(a) \/ PageClosed(a)
    /\ NewNumber
    /\ IF pc'[a] # "ready" THEN UNCHANGED call
       ELSE IF call[a].tab # NoTab THEN Engage(a, call[a])
       ELSE IF tabs = <<>> THEN Fail(a)
       ELSE Done(a, call[a])
    /\ PagesAfter(a)
    /\ UNCHANGED <<paused, late, turns>>
    /\ Track(a)

-----------------------------------------------------------------------------
(* The call goes on *)

\* An element may be there under the name of the ref, be it another document's.
Found(c) == Open(c.on) /\ page[c.on].doc \in page[c.on].taken

\* History: a call that touches a page after the pause counts, once.
Touches(a, c, rest) ==
    /\ late' = IF paused /\ ~c.late THEN [late EXCEPT ![a] = @ + 1] ELSE late
    /\ Proceed(a, [rest EXCEPT !.late = c.late \/ paused])

Step(a) ==
    /\ call[a].at = "acting"
    /\ LET c == call[a]
           step == Head(c.todo)
           rest == [c EXCEPT !.todo = Tail(c.todo)]
       IN  \/ /\ (step = "ref" /\ Found(c)) \/ (step = "input" /\ Open(c.on))
              /\ Touches(a, c, rest)
              /\ UNCHANGED page
           \/ /\ step \in {"peek", "eval"}
              /\ \/ Open(c.on) /\ (step = "peek" => Found(c)) /\ Touches(a, c, rest)
                 \/ Proceed(a, rest) /\ UNCHANGED late
              /\ UNCHANGED page
           \/ /\ step = "goto" /\ Open(c.on) /\ page[c.on].doc < MaxDocs
              /\ page' = [page EXCEPT ![c.on].doc = @ + 1]
              /\ Touches(a, c, rest)
           \/ /\ step = "landed" /\ page[c.on].epoch = page[c.on].doc
              /\ Proceed(a, rest)
              /\ UNCHANGED <<page, late>>
           \/ /\ step = "field"
              /\ (Found(c) /\ Proceed(a, rest)) \/ Done(a, c)
              /\ UNCHANGED <<page, late>>
           \/ /\ step = "again" /\ tabs # <<>>
              /\ Proceed(a, [rest EXCEPT !.on = ActiveTab])
              /\ UNCHANGED <<page, late>>
    /\ UNCHANGED <<castVars, paused, turns>>
    /\ Track(a)

\* A step fails, or the next item is refused or is none; a recipe also stops at a
\* wait, a login or a navigation that says it did not work.
Fails(a) ==
    /\ \/ call[a].at \in {"reading", "between"}
       \/ call[a].at = "acting" /\ Head(call[a].todo) \notin {"peek", "eval", "field"}
    /\ Fail(a)
    /\ UNCHANGED <<castVars, page, paused, late, turns>>
    /\ Track(a)

\* Mutant: only addresses are compared, and a reload keeps its address.
SettledByAddress(a) ==
    /\ call[a].at = "settling"
    /\ LET c == call[a] IN
         \/ c.on # c.tab /\ Put(a, [c EXCEPT !.at = "loading"])
         \/ Reply(a, c)
    /\ UNCHANGED <<castVars, page, paused, late, turns>>
    /\ Track(a)

\* settle compares epoch and address of the tab it looked up with the marker's;
\* addresses of different tabs may differ or not.
Settled(a) ==
    /\ call[a].at = "settling"
    /\ LET c == call[a] IN
         \/ /\ page[c.on].epoch # c.mark \/ c.on # c.tab
            /\ Put(a, [c EXCEPT !.at = "loading"])
         \/ /\ page[c.on].epoch = c.mark
            /\ Reply(a, c)
    /\ UNCHANGED <<castVars, page, paused, late, turns>>
    /\ Track(a)

\* "Page navigated to ...": its load state and title have come.
Loaded(a) ==
    /\ call[a].at = "loading"
    /\ Reply(a, call[a])
    /\ UNCHANGED <<castVars, page, paused, late, turns>>
    /\ Track(a)

\* The browser takes the snapshot.
Snapshot(a) ==
    /\ call[a].at = "reading"
    /\ LET c == call[a] IN
         /\ Open(c.on)
         /\ c.read = "subtree" => Found(c)
         /\ Put(a, [c EXCEPT !.at = "read", !.ref = 0,
                             !.got = IF c.read = "text" THEN 0 ELSE page[c.on].doc])
         /\ page' = IF c.read = "text" THEN page
                    ELSE [page EXCEPT ![c.on].taken = @ \cup {page[c.on].doc}]
    /\ UNCHANGED <<castVars, paused, late, turns>>
    /\ Track(a)

\* read_page records the refs, under the epoch of this moment; a subtree adds some.
\* Then the secrets of the active tab are looked for.
Record(a) ==
    /\ call[a].at = "read"
    /\ LET c == call[a] IN
         /\ page' = IF c.read = "text" \/ ~Open(c.on) THEN page
                    ELSE [page EXCEPT ![c.on].refs = IF c.read = "subtree" THEN @ \cup {c.got}
                                                     ELSE {c.got},
                                      ![c.on].read = page[c.on].epoch,
                                      ![c.on].torn = \/ c.got # page[c.on].epoch
                                                     \/ /\ c.read = "subtree"
                                                        /\ @ \/ page[c.on].read # page[c.on].epoch]
         /\ IF tabs = <<>> THEN Fail(a) ELSE Put(a, [c EXCEPT !.at = "masking"])
    /\ UNCHANGED <<castVars, paused, late, turns>>
    /\ Track(a)

\* The reply names the active tab's address; a recipe keeps the tree.
Masked(a) ==
    /\ call[a].at = "masking" /\ call[a].read # "find"
    /\ LET c == call[a] IN
         IF tabs = <<>> THEN Fail(a)
         ELSE Done(a, IF c.got # 0 THEN [c EXCEPT !.tree = c.got] ELSE c)
    /\ UNCHANGED <<castVars, page, paused, late, turns>>
    /\ Track(a)

\* find reads again while a hit is without a ref, or answers: with its hits, or with
\* the model's or none and where the page can scroll.
FindAnswers(a) ==
    /\ call[a].at = "masking" /\ call[a].read = "find"
    /\ Reply(a, [call[a] EXCEPT !.got = 0]) \/ Done(a, call[a])
    /\ UNCHANGED <<castVars, page, paused, late, turns>>
    /\ Track(a)

-----------------------------------------------------------------------------
(* Person, sites and browser *)

\* What a viewer begins, one message at a time.
ViewerActs(v) ==
    /\ turns < MaxTurns
    /\ Join(v) \/ JoinFails(v) \/ Leave(v) \/ NewTab(v) \/ \E t \in Tabs : SwitchTab(v, t) \/ CloseTab(v, t)
    /\ turns' = turns + 1
    /\ PagesAfter(v)
    /\ UNCHANGED <<paused, call, late>>
    /\ Track(v)

ViewerGoesOn(v) ==
    /\ \/ Stopped(v) \/ Fronted(v) \/ Started(v) \/ Opened(v) \/ OpenFails(v)
       \/ ClosingStopped(v) \/ PageClosed(v) \/ Joined(v) \/ PumpStopped(v) \/ Left(v)
    /\ NewNumber
    /\ PagesAfter(v)
    /\ UNCHANGED <<paused, call, late, turns>>
    /\ Track(v)

\* pause_agent, takeover; resume_agent, release.
Control(v) ==
    /\ turns < MaxTurns
    /\ v \in Viewers /\ pc[v] = "ready"
    /\ paused' = ~paused
    /\ late' = [a \in Agents |-> 0]
    /\ call' = [a \in Agents |-> [call[a] EXCEPT !.late = FALSE]]
    /\ turns' = turns + 1
    /\ UNCHANGED <<castVars, page>>
    /\ Track(v)

SiteStep ==
    /\ turns < MaxTurns
    /\ SiteOpens \/ \E t \in Tabs : SiteCloses(t)
    /\ NewNumber
    /\ turns' = turns + 1
    /\ PagesAfter(Site)
    /\ UNCHANGED <<paused, call, late>>
    /\ Track(Site)

SiteGoesOn ==
    /\ Stopped(Site) \/ Fronted(Site) \/ Started(Site) \/ Opened(Site) \/ OpenFails(Site)
    /\ NewNumber
    /\ PagesAfter(Site)
    /\ UNCHANGED <<paused, call, late, turns>>
    /\ Track(Site)

\* A page goes to another document: a link, a script, the address bar, a click.
Commits(t) ==
    /\ turns < MaxTurns
    /\ t \in Range(tabs) /\ page[t].doc < MaxDocs
    /\ page' = [page EXCEPT ![t].doc = @ + 1]
    /\ turns' = turns + 1
    /\ UNCHANGED <<castVars, paused, call, moved, late>>

\* Mutant: subframes count as well.
ToldOfFrames(t) ==
    /\ t \in Range(tabs)
    /\ page' = [page EXCEPT ![t].epoch = @ + 1]
    /\ UNCHANGED <<castVars, paused, call, moved, late, turns>>

\* on_frame_navigated: the driver learns of it.
Told(t) ==
    /\ page[t].epoch < page[t].doc
    /\ page' = [page EXCEPT ![t].epoch = @ + 1]
    /\ UNCHANGED <<castVars, paused, call, moved, late, turns>>

-----------------------------------------------------------------------------
\* The viewers have joined.
CallsInit ==
    /\ \E t \in Tabs : /\ tabs = <<t>> /\ active = t
                      /\ tracked = {t} /\ casting = {t}
    /\ bare = FALSE /\ leaked = {}
    /\ sinks = Viewers /\ sockets = Viewers
    /\ acking = {} /\ emitted = 0 /\ latest = NoFrame /\ ready = FALSE
    /\ pumpTask \in Pumps
    /\ pump = [p \in Pumps |-> IF p = pumpTask THEN "waiting" ELSE "dead"]
    /\ lastSent = [p \in Pumps |-> NoFrame] /\ fanOut = [p \in Pumps |-> {}]
    /\ shown = [v \in Viewers |-> NoFrame]
    /\ expected = FALSE /\ watch = FALSE
    /\ pc = [u \in Tasks |-> "ready"]
    /\ target = [u \in Tasks |-> NoTab] /\ victim = [u \in Tasks |-> NoTab]
    /\ gotos = {}
    /\ page = [t \in Tabs |-> BlankPage]
    /\ paused = FALSE
    /\ call = [a \in Agents |-> Idle]
    /\ moved = {}
    /\ late = [a \in Agents |-> 0]
    /\ turns = 0

AgentStep(a) ==
    \/ CallTool(a) \/ Login(a) \/ TabTool(a) \/ DriverGoesOn(a)
    \/ Step(a) \/ Fails(a) \/ Settled(a) \/ Loaded(a)
    \/ Snapshot(a) \/ Record(a) \/ Masked(a) \/ FindAnswers(a)

CallsNext ==
    \/ \E a \in Agents : AgentStep(a)
    \/ \E v \in Viewers : ViewerActs(v) \/ ViewerGoesOn(v) \/ Control(v)
    \/ SiteStep \/ SiteGoesOn
    \/ \E t \in Tabs : Commits(t) \/ Told(t)

CallsSpec == CallsInit /\ [][CallsNext]_allVars

-----------------------------------------------------------------------------
(* Properties *)

CallsTypeOK ==
    /\ page \in [Tabs -> [doc : Docs, epoch : Docs, taken : SUBSET Docs, refs : SUBSET Docs,
                          read : 0..MaxDocs, torn : BOOLEAN]]
    /\ paused \in BOOLEAN
    /\ \A a \in Agents : LET c == call[a] IN
         /\ c.at \in Phases /\ c.kind \in {"view", "act", "login", "navigate"}
         /\ c.script \in Scripts /\ c.read \in ReadModes
         /\ c.tab \in Tabs \cup {NoTab} /\ c.on \in Tabs \cup {NoTab}
         /\ {c.ref, c.mark, c.got, c.tree} \subseteq 0..MaxDocs
         /\ {c.settles, c.late, c.astray} \subseteq BOOLEAN
    /\ moved \subseteq Agents
    /\ late \in [Agents -> 0..MaxTurns]
    /\ turns \in 0..MaxTurns

\* "Acting on a tab activates it": unless somebody else switches tabs or closes
\* this one meanwhile, every step of a call, its settling and its reading are on
\* the tab it names, and that is the tab the person sees.
ActsWhereNamed ==
    \A a \in Agents \ moved :
        call[a].on # NoTab /\ call[a].tab # NoTab
            => call[a].on = call[a].tab /\ ActiveTab = call[a].tab

\* settle replies with what changed: undisturbed, a call that worked on a ref says
\* "Page navigated" if and only if the ref's document has gone, as far as the driver
\* knows, unless the ref passed for another document's or was read across a
\* navigation.  So an agent that is told of none may go on with its refs.
ReportsWhatHappened ==
    [][\A a \in Agents \ moved :
          LET c == call[a] IN
          c.at = "settling" /\ call'[a].at # "settling" /\ c.ref # 0 /\ ~c.astray
              => (call'[a].at = "loading" <=> page[c.tab].epoch # c.ref)]_allVars

\* A person who takes over is disturbed by the call in progress at most, however
\* long the batch or the recipe it belongs to, until somebody hands back or
\* navigates.
TakeoverHolds == \A a \in Agents : late[a] <= 1
=============================================================================
