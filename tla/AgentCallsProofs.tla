--------------------------- MODULE AgentCallsProofs ---------------------------
(***************************************************************************)
(* Proofs about AgentCalls.tla, for any agents, viewers, tabs and bounds:  *)
(* the types, that the session is left without a tab only where nobody is  *)
(* to put one there, that a pause holds but for the call in progress, that *)
(* calls act where they were told to, and that replies tell of the         *)
(* navigations that happened.                                              *)
(***************************************************************************)
EXTENDS AgentCalls, ScreencastProofs

-----------------------------------------------------------------------------
(* What a call may be *)

Kinds == {"view", "act", "login", "navigate"}
StepNames == {"ref", "input", "peek", "eval", "field", "goto", "landed", "again"}
States == [at : Phases, kind : Kinds, tab : Tabs \cup {NoTab}, ref : 0..MaxDocs,
           astray : BOOLEAN, todo : Seq(StepNames), settles : BOOLEAN, read : ReadModes,
           on : Tabs \cup {NoTab}, mark : 0..MaxDocs, got : 0..MaxDocs, late : BOOLEAN,
           script : Scripts, tree : 0..MaxDocs]
Pages == [doc : Docs, epoch : Docs, taken : SUBSET Docs, refs : SUBSET Docs, read : 0..MaxDocs,
          torn : BOOLEAN]

\* Between calls: no call, or the next item of a batch or a recipe is awaited.
Rests(n) ==
    \/ n = Idle
    \/ n = [Idle EXCEPT !.at = "between", !.script = "batch"]
    \/ \E d \in 0..MaxDocs : n = [Idle EXCEPT !.at = "between", !.script = "recipe", !.tree = d]

LEMMA Bounds == MaxDocs \in Nat \ {0} /\ MaxTurns \in Nat \ {0} /\ 1 \in Docs /\ 0 \in 0..MaxDocs
  BY CallAssumption DEF Docs

LEMMA RestingType ==
    ASSUME NEW n, Rests(n)
    PROVE  /\ n \in States /\ n.at \in {"idle", "between"} /\ n.kind = "view"
           /\ n.tab = NoTab /\ n.on = NoTab /\ n.ref = 0 /\ n.late = FALSE /\ n.todo = <<>>
           /\ n.settles = FALSE
  <1>1. Idle \in States
    <2>1. <<>> \in Seq(StepNames)
      OBVIOUS
    <2> QED BY <2>1, Bounds DEF Idle, States, Phases, Kinds, ReadModes, Scripts
  <1>2. CASE n = Idle
    BY <1>1, <1>2 DEF Idle
  <1>3. CASE n = [Idle EXCEPT !.at = "between", !.script = "batch"]
    <2>1. n \in States
      BY <1>1, <1>3 DEF States, Phases, Scripts
    <2> QED BY <1>3, <2>1 DEF Idle
  <1>4. ASSUME NEW d \in 0..MaxDocs,
               n = [Idle EXCEPT !.at = "between", !.script = "recipe", !.tree = d]
        PROVE  /\ n \in States /\ n.at \in {"idle", "between"} /\ n.kind = "view"
               /\ n.tab = NoTab /\ n.on = NoTab /\ n.ref = 0 /\ n.late = FALSE /\ n.todo = <<>>
               /\ n.settles = FALSE
    <2>1. n \in States
      BY <1>1, <1>4 DEF States, Phases, Scripts
    <2> QED BY <1>4, <2>1 DEF Idle
  <1> QED BY <1>2, <1>3, <1>4 DEF Rests

LEMMA StepSequences ==
    ASSUME NEW s \in Click \cup TypeText \cup PressKeys \cup ScrollTo \cup Scroll \cup Hover
                     \cup Drag \cup FormInput \cup EvalJs \cup UploadFiles \cup Download
                     \cup FillLoginAt \cup FillLogin \cup {OpenPage, <<>>}
    PROVE  s \in Seq(StepNames)
  <1>1. ASSUME NEW x \in StepNames, NEW y \in StepNames, NEW z \in StepNames,
               NEW w \in StepNames
        PROVE  /\ <<>> \in Seq(StepNames) /\ <<x>> \in Seq(StepNames)
               /\ <<x, y>> \in Seq(StepNames) /\ <<x, y, z>> \in Seq(StepNames)
               /\ <<x, y, z, w>> \in Seq(StepNames)
    OBVIOUS
  <1>2. /\ "ref" \in StepNames /\ "input" \in StepNames /\ "peek" \in StepNames
        /\ "eval" \in StepNames /\ "field" \in StepNames /\ "goto" \in StepNames
        /\ "landed" \in StepNames /\ "again" \in StepNames
    BY DEF StepNames
  <1>3. /\ <<"ref">> \in Seq(StepNames) /\ <<"input">> \in Seq(StepNames)
        /\ <<"peek">> \in Seq(StepNames) /\ <<"eval">> \in Seq(StepNames)
        /\ <<>> \in Seq(StepNames) /\ <<"ref", "ref">> \in Seq(StepNames)
        /\ <<"ref", "input">> \in Seq(StepNames) /\ <<"input", "again">> \in Seq(StepNames)
        /\ <<"goto", "landed">> \in Seq(StepNames)
        /\ <<"ref", "input", "peek">> \in Seq(StepNames)
        /\ <<"ref", "ref", "peek">> \in Seq(StepNames)
        /\ <<"input", "again", "input">> \in Seq(StepNames)
        /\ <<"field", "ref", "input">> \in Seq(StepNames)
        /\ <<"field", "ref", "again">> \in Seq(StepNames)
        /\ <<"input", "input", "input", "input">> \in Seq(StepNames)
        /\ <<"field", "ref", "again", "input">> \in Seq(StepNames)
    BY <1>1, <1>2
  <1> QED BY <1>3, Zenon DEF Click, TypeText, PressKeys, ScrollTo, Scroll, Hover, Drag,
                FormInput, EvalJs, UploadFiles, Download, FillLoginAt, FillLogin, OpenPage

LEMMA ToolTypes ==
    ASSUME NEW kind \in Kinds, NEW tool \in ToolsOf(kind)
    PROVE  /\ tool.steps \in Seq(StepNames) /\ tool.settles \in BOOLEAN
           /\ tool.read \in ReadModes
           /\ kind = "view" => tool.steps = <<>>
           /\ kind = "login" => tool.settles = FALSE
  <1> DEFINE Good(x) == /\ x.steps \in Seq(StepNames) /\ x.settles \in BOOLEAN
                        /\ x.read \in ReadModes
  <1>t. ASSUME NEW s \in Seq(StepNames), NEW b \in BOOLEAN, NEW r \in ReadModes
        PROVE  Good(Tool(s, b, r)) /\ Tool(s, b, r).steps = s
    BY DEF Tool
  <1>n. <<>> \in Seq(StepNames)
    OBVIOUS
  <1> HIDE DEF Good
  <1>1. \A x \in ComputerTools : Good(x)
    <2> SUFFICES ASSUME NEW x \in ComputerTools PROVE Good(x)
      OBVIOUS
    <2> DEFINE Moves == Click \cup TypeText \cup PressKeys \cup ScrollTo \cup Scroll
                         \cup Hover \cup Drag \cup FormInput
    <2>1. x \in {Tool(s, TRUE, r) : s \in Moves, r \in {"none", "tree", "text"}}
      BY SMT DEF ComputerTools, Tool
    <2>2. Moves \subseteq Seq(StepNames)
      BY StepSequences
    <2> HIDE DEF Moves
    <2>3. PICK s \in Moves, r \in {"none", "tree", "text"} : x = Tool(s, TRUE, r)
      BY <2>1, SMT DEF Tool
    <2> QED BY <1>t, <2>2, <2>3 DEF ReadModes
  <1>2. \A x \in PageTools : Good(x)
    BY <1>t, StepSequences DEF PageTools, ReadModes
  <1>3. \A x \in LoginTools : Good(x) /\ x.settles = FALSE
    <2>1. \A s \in FillLogin : OpenPage \o <<"again">> \o s \in Seq(StepNames)
      <3>1. OpenPage \in Seq(StepNames) /\ <<"again">> \in Seq(StepNames)
        BY DEF OpenPage, StepNames
      <3>2. \A s \in FillLogin : s \in Seq(StepNames)
        BY StepSequences
      <3> QED BY <3>1, <3>2
    <2>2. ASSUME NEW x \in LoginTools PROVE Good(x) /\ x.settles = FALSE
      <3>1. PICK s \in FillLogin : x = Tool(OpenPage \o <<"again">> \o s, FALSE, "none")
        BY DEF LoginTools
      <3>2. x.settles = FALSE
        BY <3>1 DEF Tool
      <3> QED BY <1>t, <2>1, <3>1, <3>2 DEF ReadModes
    <2> QED BY <2>2
  <1>4. \A x \in ReadTools \cup FindTools \cup LookTools \cup WaitTools : Good(x) /\ x.steps = <<>>
    <2>1. \A x \in ReadTools \cup FindTools \cup LookTools \cup WaitTools :
            \E r \in ReadModes : x = Tool(<<>>, FALSE, r)
      BY DEF ReadTools, FindTools, LookTools, WaitTools, ReadModes
    <2> QED BY <1>t, <1>n, <2>1
  <1>5. \A x \in NavigateTools : Good(x)
    <2>1. \A x \in NavigateTools : \E r \in ReadModes : x = Tool(OpenPage, TRUE, r)
      BY DEF NavigateTools, ReadModes
    <2> QED BY <1>t, <2>1, StepSequences
  <1>6. /\ Good(tool) /\ (kind = "view" => tool.steps = <<>>)
        /\ kind = "login" => tool.settles = FALSE
    BY <1>1, <1>2, <1>3, <1>4, <1>5 DEF ToolsOf, Kinds
  <1> QED BY <1>6 DEF Good

LEMMA RefsForType ==
    ASSUME NEW c \in States, ActiveTab \in Tabs, page \in [Tabs -> Pages]
    PROVE  RefsFor(c) \subseteq 0..MaxDocs
  <1>1. page[ActiveTab].taken \subseteq Docs
    BY DEF Pages
  <1>2. c.tree \in 0..MaxDocs
    BY DEF States
  <1> QED BY <1>1, <1>2, Bounds DEF RefsFor, Docs

-----------------------------------------------------------------------------
(* What becomes of a call *)

Reading(c) == [c EXCEPT !.at = "reading", !.on = ActiveTab, !.mark = 0, !.settles = FALSE,
                        !.astray = FALSE, !.ref = IF c.read = "subtree" THEN @ ELSE 0]
Settling(c) == [c EXCEPT !.at = "settling", !.on = ActiveTab]
Acting(c) == [c EXCEPT !.at = "acting"]

\* n is what a call with the record c goes on as: it rests, or goes on as itself, on
\* the tab that is active now or, while it acts, on its own.
Becomes(c, n) ==
    \/ Rests(n)
    \/ tabs # <<>> /\ n = Reading(c)
    \/ tabs # <<>> /\ c.settles /\ n = Settling(c)
    \/ c.todo # <<>> /\ n = Acting(c)

LEMMA DoneGives ==
    ASSUME NEW a, NEW c \in States, Done(a, c)
    PROVE  \E n : Put(a, n) /\ Rests(n)
  <1>1. c.tree \in 0..MaxDocs
    BY DEF States
  <1> QED BY <1>1, Zenon DEF Done, BatchGoesOn, RecipeGoesOn, Rests

LEMMA FailGives == ASSUME NEW a, Fail(a) PROVE \E n : Put(a, n) /\ Rests(n)
  BY Zenon DEF Fail, Rests

LEMMA ReplyGives ==
    ASSUME NEW a, NEW c \in States, Reply(a, c)
    PROVE  \E n : Put(a, n) /\ Becomes(c, n)
  <1>1. CASE c.read = "none"
    BY <1>1, DoneGives DEF Reply, Becomes
  <1>2. CASE c.read # "none" /\ tabs = <<>>
    BY <1>2, FailGives DEF Reply, Becomes
  <1>3. CASE c.read # "none" /\ tabs # <<>>
    BY <1>3 DEF Reply, Becomes, Reading
  <1> QED BY <1>1, <1>2, <1>3

LEMMA ProceedGives ==
    ASSUME NEW a, NEW c \in States, Proceed(a, c)
    PROVE  \E n : Put(a, n) /\ Becomes(c, n)
  <1>1. CASE c.todo # <<>>
    BY <1>1 DEF Proceed, Becomes, Acting
  <1>2. CASE c.todo = <<>> /\ ~c.settles
    BY <1>2, ReplyGives DEF Proceed, Settle
  <1>3. CASE c.todo = <<>> /\ c.settles /\ tabs = <<>>
    BY <1>3, FailGives DEF Proceed, Settle, Becomes
  <1>4. CASE c.todo = <<>> /\ c.settles /\ tabs # <<>>
    BY <1>4 DEF Proceed, Settle, Becomes, Settling
  <1> QED BY <1>1, <1>2, <1>3, <1>4

\* The marker of a call that has been given a ref of the tab's document is of that
\* document, and only a call that names a tab settles.
Marked(c) ==
    /\ c.settles => c.tab # NoTab
    /\ c.settles /\ c.ref # 0 /\ ~c.astray => c.mark = c.ref

\* The facts about a record that the operations of its call rely on.
Sound(c) ==
    /\ c \in States
    /\ c.at \in {"idle", "between"} => Rests(c)
    /\ c.at \notin {"idle", "between", "driver"} => c.on \in Tabs
    /\ c.at = "acting" => c.todo # <<>>
    /\ c.todo # <<>> => c.kind # "view"
    /\ c.at = "driver" => c.on = NoTab
    /\ c.at = "read" /\ c.read # "text" => c.got # 0
    /\ c.at = "settling" => c.settles
    /\ Marked(c)

\* What a call keeps until it rests.
Keeps(c, n) == n.kind = c.kind /\ n.tab = c.tab /\ n.late = c.late

LEMMA BecomesSound ==
    ASSUME TypeOK, NEW c \in States, NEW n, Becomes(c, n),
           c.todo # <<>> => c.on \in Tabs /\ c.kind # "view", Marked(c)
    PROVE  /\ Sound(n)
           /\ \/ Rests(n)
              \/ /\ Keeps(c, n) /\ n.at \in {"reading", "settling"}
                 /\ n.on = ActiveTab /\ tabs # <<>>
                 /\ n.ref \in {0, c.ref} /\ (n.at = "settling" => n.ref = c.ref /\ n.mark = c.mark)
              \/ /\ Keeps(c, n) /\ n.at = "acting"
                 /\ n.on = c.on /\ n.ref = c.ref /\ n.mark = c.mark
  <1>1. CASE Rests(n)
    BY <1>1, RestingType DEF Sound, Marked
  <1>2. CASE tabs # <<>> /\ n = Reading(c)
    <2>1. ActiveTab \in Tabs
      BY <1>2, ActiveTabType
    <2> DEFINE ref == IF c.read = "subtree" THEN c.ref ELSE 0
    <2>2. ref \in 0..MaxDocs /\ ref \in {0, c.ref}
      BY Bounds DEF States
    <2>3. n = [c EXCEPT !.at = "reading", !.on = ActiveTab, !.mark = 0, !.settles = FALSE,
                        !.astray = FALSE, !.ref = ref]
      BY <1>2 DEF Reading
    <2> HIDE DEF ref
    <2>4. /\ n \in States /\ n.at = "reading" /\ n.on = ActiveTab /\ n.ref = ref
          /\ n.todo = c.todo /\ n.settles = FALSE /\ Keeps(c, n)
      BY <2>1, <2>2, <2>3, Bounds DEF States, Phases, Keeps
    <2> QED BY <1>2, <2>1, <2>2, <2>4 DEF Sound, Keeps, Marked
  <1>3. CASE tabs # <<>> /\ c.settles /\ n = Settling(c)
    <2>1. ActiveTab \in Tabs
      BY <1>3, ActiveTabType
    <2>2. /\ n \in States /\ n.at = "settling" /\ n.on = ActiveTab /\ n.ref = c.ref
          /\ n.mark = c.mark /\ n.todo = c.todo /\ Keeps(c, n)
          /\ n.settles = c.settles /\ n.astray = c.astray
      BY <1>3, <2>1 DEF Settling, States, Phases, Keeps
    <2> QED BY <1>3, <2>1, <2>2 DEF Sound, Keeps, Marked
  <1>4. CASE c.todo # <<>> /\ n = Acting(c)
    <2>1. /\ n \in States /\ n.at = "acting" /\ n.on = c.on /\ n.ref = c.ref
          /\ n.mark = c.mark /\ n.todo = c.todo /\ Keeps(c, n)
          /\ n.settles = c.settles /\ n.astray = c.astray
      BY <1>4 DEF Acting, States, Phases, Keeps
    <2> QED BY <1>4, <2>1 DEF Sound, Keeps, Marked
  <1> QED BY <1>1, <1>2, <1>3, <1>4 DEF Becomes

-----------------------------------------------------------------------------
(* Types, and what the phase of a call says of its record.  Refs that were not *)
(* read across a navigation are of the document they were recorded under.      *)

PageOK(p) ==
    /\ p \in Pages /\ p.epoch <= p.doc
    /\ p.read # 0 /\ ~p.torn => p.refs \subseteq {p.read}

PagesOK == page \in [Tabs -> Pages] /\ \A t \in Tabs : PageOK(page[t])

CallsInv ==
    /\ TypeOK /\ PagesOK
    /\ paused \in BOOLEAN /\ moved \subseteq Agents /\ turns \in 0..MaxTurns
    /\ call \in [Agents -> States] /\ \A a \in Agents : Sound(call[a])

\* The call of a becomes n, which is as it should be.
Turns(a, n) == Put(a, n) /\ Sound(n)

LEMMA PutSound ==
    ASSUME CallsInv, NEW a \in Agents, NEW n, Turns(a, n)
    PROVE  call' \in [Agents -> States] /\ \A b \in Agents : Sound(call'[b])
  <1>1. n \in States /\ Sound(n) /\ call' = [call EXCEPT ![a] = n]
    BY DEF Turns, Put, Sound
  <1>2. call \in [Agents -> States] /\ \A b \in Agents : Sound(call[b])
    BY DEF CallsInv
  <1>3. call' \in [Agents -> States] /\ \A b \in Agents : call'[b] = IF b = a THEN n ELSE call[b]
    BY <1>1, <1>2
  <1> QED BY <1>1, <1>2, <1>3

\* A call that begins or goes on at the active tab.
LEMMA EngageGives ==
    ASSUME TypeOK, PagesOK, NEW a, NEW c \in States, Engage(a, c),
           c.kind = "login" \/ c.tab # NoTab
    PROVE  \E n : /\ Turns(a, n)
                  /\ \/ Rests(n)
                     \/ /\ Keeps(c, n) /\ n.at \in {"reading", "settling", "acting"}
                        /\ tabs # <<>> /\ n.on = ActiveTab
  <1>r. ASSUME NEW n, Put(a, n), Rests(n) PROVE Turns(a, n)
    BY <1>r, RestingType DEF Turns, Sound, Marked
  <1>1. CASE tabs = <<>>
    BY <1>1, <1>r, FailGives DEF Engage
  <1>2. CASE tabs # <<>>
    <2> DEFINE p == page[ActiveTab]
    <2>1. ActiveTab \in Tabs
      BY <1>2, ActiveTabType
    <2>p. p \in Pages /\ PageOK(p) /\ page \in [Tabs -> Pages]
      BY <2>1 DEF PagesOK
    <2>2. PICK tool \in ToolsOf(c.kind) :
            IF ~NeedsRef(tool) THEN Proceed(a, Engaged(c, tool, 0))
            ELSE \/ /\ Accepted(ActiveTab)
                    /\ \E ref \in RefsFor(c) : Proceed(a, Engaged(c, tool, ref))
                 \/ Refused(a, c, tool)
      BY <1>2, Zenon DEF Engage
    <2>3. /\ tool.steps \in Seq(StepNames) /\ tool.settles \in BOOLEAN /\ tool.read \in ReadModes
          /\ c.kind = "view" => tool.steps = <<>>
          /\ c.kind = "login" => tool.settles = FALSE
      BY ToolTypes DEF States
    <2>4. ASSUME NEW ref \in 0..MaxDocs, Proceed(a, Engaged(c, tool, ref)),
                 ref # 0 => Accepted(ActiveTab)
          PROVE  \E n : /\ Turns(a, n)
                        /\ \/ Rests(n)
                           \/ /\ Keeps(c, n) /\ n.at \in {"reading", "settling", "acting"}
                              /\ tabs # <<>> /\ n.on = ActiveTab
      <3> DEFINE read == IF c.script = "recipe" /\ c.kind # "view" THEN "none" ELSE tool.read
                 mark == IF tool.settles THEN p.epoch ELSE 0
                 astray == ref # 0 /\ (p.torn \/ ref \notin p.refs)
                 next == [c EXCEPT !.on = ActiveTab, !.ref = ref, !.todo = tool.steps,
                                   !.settles = tool.settles, !.astray = astray, !.read = read,
                                   !.mark = mark]
      <3>1. Proceed(a, next)
        BY <2>4 DEF Engaged
      <3>2. read \in ReadModes /\ astray \in BOOLEAN
        BY <2>3 DEF ReadModes
      <3>3. mark \in 0..MaxDocs
        BY <2>p, Bounds DEF Docs, Pages
      <3>4. tool.settles /\ ref # 0 /\ ~astray => mark = ref
        <4>1. ASSUME ref # 0, ~astray PROVE p.epoch = ref
          <5>1. p.read # 0 /\ p.read = p.epoch /\ ~p.torn /\ ref \in p.refs
            BY <2>4, <4>1 DEF Accepted
          <5> QED BY <2>p, <5>1 DEF PageOK
        <4> QED BY <4>1
      <3> HIDE DEF read, mark, astray
      <3>5. /\ next \in States /\ next.on = ActiveTab /\ next.ref = ref /\ next.todo = tool.steps
            /\ Keeps(c, next) /\ next.settles = tool.settles /\ next.astray = astray
            /\ next.mark = mark
        BY <2>1, <2>3, <2>4, <3>2, <3>3 DEF States, Keeps
      <3>6. Marked(next)
        BY <2>3, <3>4, <3>5 DEF Marked, Keeps
      <3>7. next.todo # <<>> => next.on \in Tabs /\ next.kind # "view"
        BY <2>1, <2>3, <3>5 DEF Keeps
      <3> HIDE DEF next
      <3>8. PICK n : Put(a, n) /\ Becomes(next, n)
        BY <3>1, <3>5, ProceedGives
      <3>9. /\ Sound(n)
            /\ \/ Rests(n)
               \/ /\ Keeps(next, n) /\ n.at \in {"reading", "settling"}
                  /\ n.on = ActiveTab /\ tabs # <<>>
               \/ Keeps(next, n) /\ n.at = "acting" /\ n.on = next.on
        BY <3>5, <3>6, <3>7, <3>8, BecomesSound
      <3> QED BY <1>2, <3>5, <3>8, <3>9 DEF Turns, Keeps
    <2>5. CASE ~NeedsRef(tool)
      BY <2>2, <2>4, <2>5, Bounds
    <2>6. CASE Refused(a, c, tool)
      <3>1. Done(a, c) \/ Fail(a)
        BY <2>6 DEF Refused
      <3> QED BY <1>r, <3>1, DoneGives, FailGives
    <2>7. ASSUME Accepted(ActiveTab), NEW ref \in RefsFor(c), Proceed(a, Engaged(c, tool, ref))
          PROVE  \E n : /\ Turns(a, n)
                        /\ \/ Rests(n)
                           \/ /\ Keeps(c, n) /\ n.at \in {"reading", "settling", "acting"}
                              /\ tabs # <<>> /\ n.on = ActiveTab
      <3>1. ref \in 0..MaxDocs
        BY <2>1, <2>p, RefsForType
      <3> QED BY <2>4, <2>7, <3>1
    <2> QED BY <2>2, <2>5, <2>6, <2>7
  <1> QED BY <1>1, <1>2

\* What a call has to know about its ref and its marker.
SameMark(c, n) ==
    n.settles = c.settles /\ n.ref = c.ref /\ n.astray = c.astray /\ n.mark = c.mark

\* What a call that is under way, on the browser as it stands, makes of its record.
WorkStep(a) ==
    \/ Step(a) \/ Fails(a) \/ Settled(a) \/ Loaded(a)
    \/ Snapshot(a) \/ Record(a) \/ Masked(a) \/ FindAnswers(a)

OnSomeTab(c, n) == n.on = c.on \/ (tabs # <<>> /\ n.on = ActiveTab)

\* It rests, or goes on with the same tab, never back to the driver's activation.
Works(c, n) ==
    \/ Rests(n)
    \/ /\ n.kind = c.kind /\ n.tab = c.tab /\ OnSomeTab(c, n)
       /\ n.at \notin {"idle", "between", "driver"}

\* History: whether it touched a page that the person has taken over.
Untouched(c, n) == late' = late /\ (Rests(n) \/ n.late = c.late)
Touched(a, c, n) ==
    /\ c.at = "acting"
    /\ late' = IF paused /\ ~c.late THEN [late EXCEPT ![a] = @ + 1] ELSE late
    /\ Rests(n) \/ n.late = (c.late \/ paused)

LEMMA WorkedOut ==
    ASSUME TypeOK, NEW a, NEW c \in States, NEW d \in States, Proceed(a, d),
           d.todo # <<>> => d.on \in Tabs /\ d.kind # "view",
           d.kind = c.kind, d.tab = c.tab, OnSomeTab(c, d), Marked(d)
    PROVE  \E n : Turns(a, n) /\ Works(c, n) /\ (Rests(n) \/ n.late = d.late)
  <1>1. PICK n : Put(a, n) /\ Becomes(d, n)
    BY ProceedGives
  <1>2. /\ Sound(n)
        /\ \/ Rests(n)
           \/ Keeps(d, n) /\ n.at \in {"reading", "settling"} /\ n.on = ActiveTab /\ tabs # <<>>
           \/ Keeps(d, n) /\ n.at = "acting" /\ n.on = d.on
    BY <1>1, BecomesSound
  <1> QED BY <1>1, <1>2 DEF Turns, Works, Keeps, OnSomeTab

LEMMA RepliedOut ==
    ASSUME TypeOK, NEW a, NEW c \in States, Reply(a, c), c.on \in Tabs, Marked(c),
           c.todo # <<>> => c.kind # "view"
    PROVE  \E n : Turns(a, n) /\ Works(c, n) /\ (Rests(n) \/ n.late = c.late)
  <1>1. PICK n : Put(a, n) /\ Becomes(c, n)
    BY ReplyGives
  <1>2. /\ Sound(n)
        /\ \/ Rests(n)
           \/ Keeps(c, n) /\ n.at \in {"reading", "settling"} /\ n.on = ActiveTab /\ tabs # <<>>
           \/ Keeps(c, n) /\ n.at = "acting" /\ n.on = c.on
    BY <1>1, BecomesSound
  <1> QED BY <1>1, <1>2 DEF Turns, Works, Keeps, OnSomeTab

LEMMA StepGives ==
    ASSUME CallsInv, NEW a \in Agents, Step(a)
    PROVE  \E n : /\ Turns(a, n) /\ Works(call[a], n)
                  /\ Untouched(call[a], n) \/ Touched(a, call[a], n)
  <1> DEFINE c == call[a]
             step == Head(c.todo)
             rest == [c EXCEPT !.todo = Tail(c.todo)]
             l == c.late \/ paused
  <1>1. c \in States /\ Sound(c) /\ c.at = "acting" /\ TypeOK
    BY DEF CallsInv, Step
  <1>l. l \in BOOLEAN
    OBVIOUS
  <1>d. rest = [c EXCEPT !.todo = Tail(c.todo)] /\ l = (c.late \/ paused)
    OBVIOUS
  <1> HIDE DEF c, rest, l
  <1>r. ASSUME NEW n, Put(a, n), Rests(n) PROVE Turns(a, n) /\ Works(c, n)
    BY <1>r, RestingType DEF Turns, Sound, Marked, Works
  <1>c. c.todo \in Seq(StepNames) /\ c.todo # <<>> /\ c.on \in Tabs /\ c.kind # "view"
    BY <1>1 DEF Sound, States
  <1>t. Tail(c.todo) \in Seq(StepNames)
    BY <1>c
  <1>2. /\ rest \in States /\ rest.kind = c.kind /\ rest.tab = c.tab /\ rest.on = c.on
        /\ rest.late = c.late /\ c.on \in Tabs /\ c.kind # "view"
        /\ SameMark(c, rest)
    BY <1>1, <1>c, <1>d, <1>t DEF States, SameMark
  <1>m. ASSUME NEW r, SameMark(c, r), r.tab = c.tab PROVE Marked(r)
    BY <1>1, <1>m DEF Sound, Marked, SameMark
  <1>3. ASSUME Touches(a, c, rest)
        PROVE  \E n : Turns(a, n) /\ Works(c, n) /\ Touched(a, c, n)
    <2> DEFINE r == [rest EXCEPT !.late = l]
    <2>1. /\ Proceed(a, r)
          /\ late' = IF paused /\ ~c.late THEN [late EXCEPT ![a] = @ + 1] ELSE late
      BY <1>3 DEF Touches, l
    <2>2. /\ r \in States /\ r.kind = c.kind /\ r.tab = c.tab /\ r.on = c.on /\ r.late = l
          /\ SameMark(c, r)
      BY <1>2, <1>l DEF States, SameMark
    <2> HIDE DEF r
    <2>3. \E n : Turns(a, n) /\ Works(c, n) /\ (Rests(n) \/ n.late = r.late)
      BY <1>1, <1>2, <1>m, <2>1, <2>2, WorkedOut DEF OnSomeTab
    <2> QED BY <1>1, <1>d, <2>1, <2>2, <2>3 DEF Touched
  <1>4. ASSUME Proceed(a, rest), late' = late
        PROVE  \E n : Turns(a, n) /\ Works(c, n) /\ Untouched(c, n)
    <2>1. \E n : Turns(a, n) /\ Works(c, n) /\ (Rests(n) \/ n.late = rest.late)
      BY <1>1, <1>2, <1>m, <1>4, WorkedOut DEF OnSomeTab
    <2> QED BY <1>2, <1>4, <2>1 DEF Untouched
  <1>5. ASSUME Done(a, c), late' = late
        PROVE  \E n : Turns(a, n) /\ Works(c, n) /\ Untouched(c, n)
    BY <1>1, <1>5, <1>r, DoneGives DEF Untouched
  <1>6. ASSUME tabs # <<>>, Proceed(a, [rest EXCEPT !.on = ActiveTab]), late' = late
        PROVE  \E n : Turns(a, n) /\ Works(c, n) /\ Untouched(c, n)
    <2> DEFINE r == [rest EXCEPT !.on = ActiveTab]
    <2>1. ActiveTab \in Tabs
      BY <1>1, <1>6, ActiveTabType
    <2>2. r \in States /\ r.kind = c.kind /\ r.tab = c.tab /\ r.on = ActiveTab /\ r.late = c.late
          /\ SameMark(c, r)
      BY <1>2, <2>1 DEF States, SameMark
    <2>3. Proceed(a, r)
      BY <1>6
    <2> HIDE DEF r
    <2>4. \E n : Turns(a, n) /\ Works(c, n) /\ (Rests(n) \/ n.late = r.late)
      BY <1>1, <1>2, <1>6, <1>m, <2>1, <2>2, <2>3, WorkedOut DEF OnSomeTab
    <2> QED BY <1>6, <2>2, <2>4 DEF Untouched
  <1>7. \/ Touches(a, c, rest)
        \/ Proceed(a, rest) /\ late' = late
        \/ Done(a, c) /\ late' = late
        \/ tabs # <<>> /\ Proceed(a, [rest EXCEPT !.on = ActiveTab]) /\ late' = late
    BY Zenon DEF Step, c, rest
  <1> QED BY <1>3, <1>4, <1>5, <1>6, <1>7 DEF c

LEMMA WorkGives ==
    ASSUME CallsInv, NEW a \in Agents, WorkStep(a)
    PROVE  \E n : /\ Turns(a, n) /\ Works(call[a], n)
                  /\ Untouched(call[a], n) \/ Touched(a, call[a], n)
  <1> DEFINE c == call[a]
  <1>1. c \in States /\ Sound(c) /\ TypeOK
    BY DEF CallsInv
  <1>r. ASSUME late' = late, \E n : Put(a, n) /\ Rests(n)
        PROVE  \E n : Turns(a, n) /\ Works(c, n) /\ Untouched(c, n)
    BY <1>r, RestingType DEF Turns, Sound, Marked, Works, Untouched
  <1>2. ASSUME Reply(a, c), late' = late, c.on \in Tabs
        PROVE  \E n : Turns(a, n) /\ Works(c, n) /\ Untouched(c, n)
    BY <1>1, <1>2, RepliedOut DEF Untouched, Sound
  <1>3. ASSUME NEW n, Put(a, n), late' = late, n \in States, n.kind = c.kind, n.tab = c.tab,
               n.on = c.on, n.late = c.late, c.on \in Tabs, n.todo = c.todo,
               n.at \in {"loading", "read", "masking"},
               n.at = "read" => n.read = "text" \/ n.got # 0, Marked(n)
        PROVE  \E m : Turns(a, m) /\ Works(c, m) /\ Untouched(c, m)
    <2>1. Sound(n)
      BY <1>1, <1>3 DEF Sound
    <2>2. Works(c, n) /\ Untouched(c, n)
      BY <1>3 DEF Works, OnSomeTab, Untouched
    <2> QED BY <1>3, <2>1, <2>2 DEF Turns
  <1>4. CASE Step(a)
    BY <1>4, StepGives
  <1>5. CASE Fails(a)
    BY <1>5, <1>r, FailGives DEF Fails
  <1>6. CASE Settled(a)
    <2>1. c.on \in Tabs /\ late' = late
      BY <1>1, <1>6 DEF Settled, Sound
    <2>2. Put(a, [c EXCEPT !.at = "loading"]) \/ Reply(a, c)
      BY <1>6 DEF Settled
    <2>3. LET n == [c EXCEPT !.at = "loading"]
          IN  /\ n \in States /\ n.kind = c.kind /\ n.tab = c.tab /\ n.on = c.on
              /\ n.late = c.late /\ n.todo = c.todo /\ n.at = "loading" /\ Marked(n)
      BY <1>1 DEF States, Phases, Sound, Marked
    <2> QED BY <1>2, <1>3, <2>1, <2>2, <2>3
  <1>7. CASE Loaded(a)
    <2>1. c.on \in Tabs /\ late' = late /\ Reply(a, c)
      BY <1>1, <1>7 DEF Loaded, Sound
    <2> QED BY <1>2, <2>1
  <1>8. CASE Snapshot(a)
    <2> DEFINE got == IF c.read = "text" THEN 0 ELSE page[c.on].doc
               n == [c EXCEPT !.at = "read", !.ref = 0, !.got = got]
    <2>1. c.on \in Tabs /\ late' = late /\ Put(a, n)
      BY <1>1, <1>8 DEF Snapshot, Sound
    <2>2. got \in 0..MaxDocs /\ (c.read = "text" \/ got # 0)
      <3>1. page[c.on].doc \in Docs
        BY <2>1 DEF CallsInv, PagesOK, Pages
      <3> QED BY <3>1, Bounds DEF Docs
    <2> HIDE DEF got
    <2>3. /\ n \in States /\ n.kind = c.kind /\ n.tab = c.tab /\ n.on = c.on
          /\ n.late = c.late /\ n.todo = c.todo /\ n.at = "read"
          /\ n.got = got /\ n.read = c.read /\ Marked(n)
      BY <1>1, <2>2, Bounds DEF States, Phases, Sound, Marked
    <2> QED BY <1>3, <2>1, <2>2, <2>3
  <1>9. CASE Record(a)
    <2>1. c.on \in Tabs /\ late' = late
      BY <1>1, <1>9 DEF Record, Sound
    <2>2. Fail(a) \/ Put(a, [c EXCEPT !.at = "masking"])
      BY <1>9 DEF Record
    <2>3. LET n == [c EXCEPT !.at = "masking"]
          IN  /\ n \in States /\ n.kind = c.kind /\ n.tab = c.tab /\ n.on = c.on
              /\ n.late = c.late /\ n.todo = c.todo /\ n.at = "masking" /\ Marked(n)
      BY <1>1 DEF States, Phases, Sound, Marked
    <2> QED BY <1>3, <1>r, <2>1, <2>2, <2>3, FailGives
  <1>10. CASE Masked(a)
    <2>1. /\ late' = late
          /\ Fail(a) \/ Done(a, IF c.got # 0 THEN [c EXCEPT !.tree = c.got] ELSE c)
      BY <1>10 DEF Masked
    <2>2. (IF c.got # 0 THEN [c EXCEPT !.tree = c.got] ELSE c) \in States
      BY <1>1 DEF States
    <2> QED BY <1>r, <2>1, <2>2, FailGives, DoneGives
  <1>11. CASE FindAnswers(a)
    <2> DEFINE d == [c EXCEPT !.got = 0]
    <2>1. c.on \in Tabs /\ late' = late /\ (Reply(a, d) \/ Done(a, c))
      BY <1>1, <1>11 DEF FindAnswers, Sound
    <2>2. /\ d \in States /\ d.kind = c.kind /\ d.tab = c.tab /\ d.on = c.on /\ d.late = c.late
          /\ d.todo = c.todo /\ Marked(d)
      BY <1>1, Bounds DEF States, Sound, Marked
    <2> HIDE DEF d
    <2>3. ASSUME Reply(a, d) PROVE \E n : Turns(a, n) /\ Works(c, n) /\ Untouched(c, n)
      <3>1. \E n : Turns(a, n) /\ Works(d, n) /\ (Rests(n) \/ n.late = d.late)
        BY <1>1, <2>1, <2>2, <2>3, RepliedOut DEF Sound
      <3> QED BY <2>1, <2>2, <3>1 DEF Works, OnSomeTab, Untouched
    <2> QED BY <1>1, <1>r, <2>1, <2>3, DoneGives
  <1> QED BY <1>4, <1>5, <1>6, <1>7, <1>8, <1>9, <1>10, <1>11 DEF WorkStep

\* A call at work on the active tab.
AtWork(n) ==
    /\ n.at \in {"reading", "settling", "acting"}
    /\ tabs # <<>> /\ n.on = ActiveTab

LEMMA EngagedAs ==
    ASSUME CallsInv, NEW a, NEW c \in States, Engage(a, c),
           c.kind = "login" \/ c.tab # NoTab
    PROVE  \E n : Turns(a, n) /\ (Rests(n) \/ (Keeps(c, n) /\ AtWork(n)))
  BY EngageGives DEF CallsInv, AtWork

\* A call comes in for the tab t: that is active, or becomes it first.
LEMMA CallToolGives ==
    ASSUME CallsInv, NEW a \in Agents, CallTool(a)
    PROVE  \E kind \in {"view", "act", "navigate"}, t \in Range(tabs) : \E n :
             /\ Comes(a, kind) /\ ClearsPause(kind) /\ Turns(a, n)
             /\ Rests(n) \/ (n.kind = kind /\ n.tab = t /\ n.late = FALSE)
             /\ \/ UNCHANGED castVars /\ t = active /\ (Rests(n) \/ AtWork(n))
                \/ SwitchTab(a, t) /\ ~Rests(n) /\ n.at = "driver" /\ n.on = NoTab
  <1>1. PICK kind \in {"view", "act", "navigate"}, t \in Range(tabs) :
          /\ Comes(a, kind) /\ ClearsPause(kind)
          /\ ActivateNum(a, [call[a] EXCEPT !.kind = kind, !.tab = t])
    BY DEF CallTool
  <1> DEFINE c == [call[a] EXCEPT !.kind = kind, !.tab = t]
  <1>2. Rests(call[a]) /\ TypeOK
    BY <1>1 DEF Comes, CallsInv, Sound
  <1>3. t \in Tabs
    BY <1>2 DEF TypeOK, Range
  <1>r. /\ call[a] \in States /\ call[a].tab = NoTab /\ call[a].on = NoTab
        /\ call[a].late = FALSE /\ call[a].todo = <<>> /\ call[a].settles = FALSE
    BY <1>2, RestingType
  <1>4. /\ c \in States /\ c.kind = kind /\ c.tab = t /\ c.late = FALSE /\ c.on = NoTab
        /\ c.todo = <<>> /\ c.settles = FALSE
    BY <1>r, <1>3 DEF States, Kinds
  <1>5. ActivateNum(a, c)
    BY <1>1
  <1> HIDE DEF c
  <1>6. CASE t = active
    <2>1. Engage(a, c) /\ UNCHANGED castVars
      BY <1>4, <1>5, <1>6 DEF ActivateNum
    <2>2. \E n : Turns(a, n) /\ (Rests(n) \/ (Keeps(c, n) /\ AtWork(n)))
      BY <1>3, <1>4, <2>1, EngagedAs, PoolAssumption
    <2> QED BY <1>1, <1>4, <1>6, <2>1, <2>2 DEF Keeps
  <1>7. CASE t # active
    <2> DEFINE n == [c EXCEPT !.at = "driver"]
    <2>1. SwitchTab(a, t) /\ Put(a, n)
      BY <1>4, <1>5, <1>7 DEF ActivateNum
    <2>2. /\ n \in States /\ n.kind = kind /\ n.tab = t /\ n.late = FALSE /\ n.on = NoTab
          /\ n.at = "driver" /\ n.todo = <<>> /\ n.settles = FALSE
      BY <1>4 DEF States, Phases
    <2> HIDE DEF n
    <2>3. Sound(n) /\ ~Rests(n)
      BY <2>2, RestingType DEF Sound, Marked
    <2> QED BY <1>1, <2>1, <2>2, <2>3 DEF Turns
  <1> QED BY <1>6, <1>7

LEMMA LoginGives ==
    ASSUME CallsInv, NEW a \in Agents, Login(a)
    PROVE  /\ Comes(a, "login") /\ UNCHANGED <<castVars, page, paused, late>>
           /\ \E n : /\ Turns(a, n)
                     /\ Rests(n) \/ (n.kind = "login" /\ n.tab = NoTab /\ n.late = FALSE /\ AtWork(n))
  <1> DEFINE c == [call[a] EXCEPT !.kind = "login"]
  <1>1. Rests(call[a]) /\ Engage(a, c)
    BY DEF Login, Comes, CallsInv, Sound
  <1>k. "login" \in Kinds
    BY DEF Kinds
  <1>r. /\ call[a] \in States /\ call[a].tab = NoTab /\ call[a].on = NoTab
        /\ call[a].late = FALSE /\ call[a].todo = <<>>
    BY <1>1, RestingType
  <1>2. c \in States /\ c.kind = "login" /\ c.tab = NoTab /\ c.late = FALSE
    BY <1>r, <1>k DEF States
  <1> HIDE DEF c
  <1>3. \E n : Turns(a, n) /\ (Rests(n) \/ (Keeps(c, n) /\ AtWork(n)))
    BY <1>1, <1>2, EngagedAs
  <1> QED BY <1>2, <1>3 DEF Login, Keeps

LEMMA TabToolGives ==
    ASSUME CallsInv, NEW a \in Agents, TabTool(a)
    PROVE  /\ Comes(a, "act") /\ UNCHANGED <<paused, late>> /\ PagesAfter(a)
           /\ NewTab(a) \/ \E t \in Tabs : CloseTab(a, t)
           /\ \E n : /\ Turns(a, n) /\ n.at = "driver" /\ n.kind = "act" /\ n.tab = NoTab
                     /\ n.on = NoTab /\ n.late = FALSE
  <1> DEFINE n == [call[a] EXCEPT !.at = "driver", !.kind = "act"]
  <1>1. Rests(call[a]) /\ Put(a, n)
    BY DEF TabTool, Comes, CallsInv, Sound
  <1>k. "act" \in Kinds /\ "driver" \in Phases
    BY DEF Kinds, Phases
  <1>r. /\ call[a] \in States /\ call[a].tab = NoTab /\ call[a].on = NoTab
        /\ call[a].late = FALSE /\ call[a].todo = <<>> /\ call[a].settles = FALSE
    BY <1>1, RestingType
  <1>2. /\ n \in States /\ n.at = "driver" /\ n.kind = "act" /\ n.tab = NoTab /\ n.on = NoTab
        /\ n.late = FALSE /\ n.todo = <<>> /\ n.settles = FALSE
    BY <1>r, <1>k DEF States
  <1> HIDE DEF n
  <1> QED BY <1>1, <1>2 DEF TabTool, Turns, Sound, Marked

LEMMA DriverGives ==
    ASSUME CallsInv, NEW a \in Agents, DriverGoesOn(a)
    PROVE  /\ TaskStep(a) /\ PagesAfter(a) /\ UNCHANGED <<paused, late, turns>>
           /\ \E n : /\ Turns(a, n)
                     /\ \/ n = call[a] /\ pc'[a] # "ready"
                        \/ pc'[a] = "ready" /\ Rests(n)
                        \/ /\ pc'[a] = "ready" /\ call[a].tab # NoTab
                           /\ Keeps(call[a], n) /\ AtWork(n)
  <1>0. call[a] \in States /\ Sound(call[a])
    BY DEF CallsInv
  <1>1. CASE pc'[a] # "ready"
    <2>1. call' = call
      BY <1>1 DEF DriverGoesOn
    <2>2. Put(a, call[a])
      BY <2>1 DEF Put, CallsInv
    <2> QED BY <1>0, <1>1, <2>2 DEF DriverGoesOn, TaskStep, Turns
  <1>2. CASE pc'[a] = "ready" /\ call[a].tab # NoTab
    <2>1. Engage(a, call[a])
      BY <1>2 DEF DriverGoesOn
    <2> QED BY <1>0, <1>2, <2>1, EngagedAs DEF DriverGoesOn, TaskStep
  <1>3. CASE pc'[a] = "ready" /\ call[a].tab = NoTab
    <2>1. Fail(a) \/ Done(a, call[a])
      BY <1>3 DEF DriverGoesOn
    <2>2. \E n : Turns(a, n) /\ Rests(n)
      BY <1>0, <2>1, FailGives, DoneGives, RestingType DEF Turns, Sound, Marked
    <2> QED BY <1>3, <2>2 DEF DriverGoesOn, TaskStep
  <1> QED BY <1>1, <1>2, <1>3

\* So every step of an agent makes something sound of its call and leaves the others'.
LEMMA AgentGives ==
    ASSUME CallsInv, NEW a \in Agents, AgentStep(a)
    PROVE  \E n : Turns(a, n)
  <1>1. CASE WorkStep(a)
    BY <1>1, WorkGives
  <1> QED BY <1>1, CallToolGives, LoginGives, TabToolGives, DriverGives DEF AgentStep, WorkStep

-----------------------------------------------------------------------------
(* Pages *)

LEMMA BlankPageOK == PageOK(BlankPage)
  <1>1. BlankPage \in Pages
    BY Bounds DEF BlankPage, Pages, Docs
  <1> QED BY <1>1 DEF BlankPage, PageOK

LEMMA PagesAfterOK == ASSUME PagesOK, NEW u, PagesAfter(u) PROVE PagesOK'
  <1>1. \A t \in Tabs : page'[t] \in {page[t], BlankPage}
    BY DEF PagesAfter
  <1>2. page' = [t \in Tabs |-> page'[t]]
    BY DEF PagesAfter
  <1>3. \A t \in Tabs : PageOK(page'[t])
    BY <1>1, BlankPageOK DEF PagesOK
  <1>4. page' \in [Tabs -> Pages]
    BY <1>2, <1>3 DEF PageOK
  <1> QED BY <1>3, <1>4 DEF PagesOK

LEMMA OnePageOK ==
    ASSUME PagesOK, NEW t \in Tabs, NEW p, PageOK(p), page' = [page EXCEPT ![t] = p]
    PROVE  PagesOK'
  <1>1. p \in Pages /\ page \in [Tabs -> Pages]
    BY DEF PageOK, PagesOK
  <1>2. page' \in [Tabs -> Pages] /\ \A u \in Tabs : page'[u] = IF u = t THEN p ELSE page[u]
    BY <1>1
  <1> QED BY <1>2 DEF PagesOK

LEMMA NextDocOK ==
    ASSUME PagesOK, NEW t \in Tabs, page[t].doc < MaxDocs,
           page' = [page EXCEPT ![t].doc = @ + 1]
    PROVE  PagesOK'
  <1> DEFINE p == [page[t] EXCEPT !.doc = @ + 1]
  <1>1. page[t] \in Pages /\ PageOK(page[t])
    BY DEF PagesOK
  <1>2. page[t].doc + 1 \in Docs /\ page[t].epoch <= page[t].doc + 1
    BY <1>1, Bounds DEF Pages, Docs, PageOK
  <1>3. PageOK(p)
    <2>1. p \in Pages /\ p.epoch <= p.doc
      BY <1>1, <1>2 DEF Pages
    <2>2. p.read = page[t].read /\ p.torn = page[t].torn /\ p.refs = page[t].refs
      BY <1>1 DEF Pages
    <2> QED BY <1>1, <2>1, <2>2 DEF PageOK
  <1>4. page' = [page EXCEPT ![t] = p]
    BY DEF PagesOK
  <1> QED BY <1>3, <1>4, OnePageOK

LEMMA ToldOK == ASSUME PagesOK, NEW t \in Tabs, Told(t) PROVE PagesOK'
  <1> DEFINE p == [page[t] EXCEPT !.epoch = @ + 1]
  <1>1. page[t] \in Pages /\ PageOK(page[t])
    BY DEF PagesOK
  <1>2. page[t].epoch + 1 \in Docs /\ page[t].epoch + 1 <= page[t].doc
    BY <1>1, Bounds DEF Pages, Docs, PageOK, Told
  <1>3. PageOK(p)
    <2>1. p \in Pages /\ p.epoch <= p.doc
      BY <1>1, <1>2 DEF Pages
    <2>2. p.read = page[t].read /\ p.torn = page[t].torn /\ p.refs = page[t].refs
      BY <1>1 DEF Pages
    <2> QED BY <1>1, <2>1, <2>2 DEF PageOK
  <1>4. page' = [page EXCEPT ![t] = p]
    BY DEF PagesOK, Told
  <1> QED BY <1>3, <1>4, OnePageOK

LEMMA SnapshotOK == ASSUME CallsInv, NEW a \in Agents, Snapshot(a) PROVE PagesOK'
  <1> DEFINE c == call[a]
             p == page[c.on]
             new == [p EXCEPT !.taken = @ \cup {p.doc}]
  <1>1. c \in States /\ c.on \in Tabs /\ PagesOK
    BY DEF CallsInv, Snapshot, Sound
  <1>2. p \in Pages /\ PageOK(p)
    BY <1>1 DEF PagesOK
  <1>3. CASE c.read = "text"
    BY <1>1, <1>3 DEF Snapshot, PagesOK
  <1>4. CASE c.read # "text"
    <2>1. page' = [page EXCEPT ![c.on] = new]
      BY <1>1, <1>4 DEF Snapshot, PagesOK
    <2>2. /\ new \in Pages /\ new.epoch = p.epoch /\ new.doc = p.doc
          /\ new.refs = p.refs /\ new.torn = p.torn /\ new.read = p.read
      BY <1>2 DEF Pages
    <2>3. PageOK(new)
      BY <1>2, <2>2 DEF PageOK
    <2> QED BY <1>1, <2>1, <2>3, OnePageOK
  <1> QED BY <1>3, <1>4

LEMMA RecordOK == ASSUME CallsInv, NEW a \in Agents, Record(a) PROVE PagesOK'
  <1> DEFINE c == call[a]
             p == page[c.on]
             refs == IF c.read = "subtree" THEN p.refs \cup {c.got} ELSE {c.got}
             torn == c.got # p.epoch \/ (c.read = "subtree" /\ (p.torn \/ p.read # p.epoch))
             new == [p EXCEPT !.refs = refs, !.read = p.epoch, !.torn = torn]
  <1>1. c \in States /\ c.on \in Tabs /\ c.at = "read" /\ PagesOK
    BY DEF CallsInv, Record, Sound
  <1>2. p \in Pages /\ PageOK(p)
    BY <1>1 DEF PagesOK
  <1>3. CASE c.read = "text" \/ ~Open(c.on)
    BY <1>1, <1>3 DEF Record, PagesOK
  <1>4. CASE ~ (c.read = "text" \/ ~Open(c.on))
    <2>1. page' = [page EXCEPT ![c.on] = new]
      BY <1>1, <1>4 DEF Record, PagesOK
    <2>2. c.got \in Docs
      <3>1. c.got \in 0..MaxDocs /\ c.got # 0
        BY <1>1, <1>4 DEF CallsInv, Sound, States
      <3> QED BY <3>1, Bounds DEF Docs
    <2>3. p.epoch \in Docs /\ refs \in SUBSET Docs /\ p.epoch # 0 /\ p.epoch \in 0..MaxDocs
      BY <1>2, <2>2, Bounds DEF Pages, Docs
    <2>4. torn \in BOOLEAN
      OBVIOUS
    <2>5. ~torn => refs \subseteq {p.epoch}
      BY <1>2, <2>3 DEF PageOK
    <2> HIDE DEF refs, torn
    <2>6. /\ new \in Pages /\ new.epoch = p.epoch /\ new.doc = p.doc
          /\ new.refs = refs /\ new.torn = torn /\ new.read = p.epoch
      BY <1>2, <2>3, <2>4 DEF Pages
    <2>7. PageOK(new)
      BY <1>2, <2>5, <2>6 DEF PageOK
    <2> QED BY <1>1, <2>1, <2>7, OnePageOK
  <1> QED BY <1>3, <1>4

-----------------------------------------------------------------------------
(* Every step keeps the types *)

LEMMA CastSame == ASSUME TypeOK, UNCHANGED castVars PROVE TypeOK'
  BY DEF castVars, listVars, viewerVars, captureVars, frameVars, pumpVars, paintVars,
         streamVars, taskVars, TypeOK

\* What an agent's step is for the tabs: nothing or a step of its task.
LEMMA AgentCast ==
    ASSUME CallsInv, NEW a \in Agents, AgentStep(a)
    PROVE  UNCHANGED castVars \/ TaskStep(a)
  <1>1. CASE WorkStep(a)
    BY <1>1 DEF WorkStep, Step, Fails, Settled, Loaded, Snapshot, Record, Masked, FindAnswers
  <1>2. CASE CallTool(a)
    <2>1. PICK t \in Range(tabs) : UNCHANGED castVars \/ SwitchTab(a, t)
      BY <1>2, CallToolGives
    <2>2. t \in Tabs
      BY <2>1 DEF CallsInv, TypeOK, Range
    <2> QED BY <2>1, <2>2 DEF TaskStep
  <1>3. CASE Login(a)
    BY <1>3, LoginGives
  <1>4. CASE TabTool(a)
    BY <1>4, TabToolGives DEF TaskStep
  <1>5. CASE DriverGoesOn(a)
    BY <1>5, DriverGives
  <1> QED BY <1>1, <1>2, <1>3, <1>4, <1>5 DEF AgentStep, WorkStep

\* A viewer's or the site's: a step of theirs.
OutsideStep(u) ==
    \/ u \in Viewers /\ (TaskStep(u) \/ ViewerStep(u) \/ UNCHANGED castVars)
    \/ u = Site /\ (TaskStep(u) \/ SiteOpens \/ \E t \in Tabs : SiteCloses(t))

LEMMA OutsideCast ==
    /\ \A v \in Viewers : ViewerActs(v) \/ ViewerGoesOn(v) \/ Control(v) => OutsideStep(v)
    /\ SiteStep \/ SiteGoesOn => OutsideStep(Site)
  <1>1. ASSUME NEW v \in Viewers, ViewerActs(v) PROVE OutsideStep(v)
    BY <1>1 DEF ViewerActs, OutsideStep, TaskStep, ViewerStep
  <1>2. ASSUME NEW v \in Viewers, ViewerGoesOn(v) PROVE OutsideStep(v)
    BY <1>2 DEF ViewerGoesOn, OutsideStep, TaskStep, ViewerStep
  <1>3. ASSUME NEW v \in Viewers, Control(v) PROVE OutsideStep(v)
    BY <1>3 DEF Control, OutsideStep
  <1>4. ASSUME SiteStep PROVE OutsideStep(Site)
    BY <1>4 DEF SiteStep, OutsideStep
  <1>5. ASSUME SiteGoesOn PROVE OutsideStep(Site)
    BY <1>5 DEF SiteGoesOn, OutsideStep, TaskStep
  <1> QED BY <1>1, <1>2, <1>3, <1>4, <1>5

LEMMA OutsideTypes == ASSUME TypeOK, NEW u, OutsideStep(u) PROVE TypeOK'
  <1>1. CASE u \in Viewers
    <2>1. u \in Tasks /\ u # Site
      BY <1>1, TaskAssumption DEF Tasks
    <2> QED BY <1>1, <2>1, TaskTypes, ViewerTypes, CastSame DEF OutsideStep
  <1>2. CASE u = Site
    <2>1. u \in Tasks /\ u \notin Viewers
      BY <1>2, TaskAssumption DEF Tasks
    <2> QED BY <1>2, <2>1, TaskTypes, SiteTypes DEF OutsideStep
  <1> QED BY <1>1, <1>2 DEF OutsideStep

LEMMA PagesKept ==
    ASSUME CallsInv, CallsNext
    PROVE  PagesOK'
  <1>0. PagesOK
    BY DEF CallsInv
  <1>s. ASSUME page' = page PROVE PagesOK'
    BY <1>0, <1>s DEF PagesOK
  <1>1. ASSUME NEW a \in Agents, AgentStep(a) PROVE PagesOK'
    <2>1. CASE CallTool(a) \/ Login(a) \/ Fails(a) \/ Settled(a) \/ Loaded(a)
               \/ Masked(a) \/ FindAnswers(a)
      BY <1>s, <2>1 DEF CallTool, Login, Fails, Settled, Loaded, Masked, FindAnswers
    <2>2. CASE TabTool(a) \/ DriverGoesOn(a)
      BY <1>0, <2>2, PagesAfterOK DEF TabTool, DriverGoesOn
    <2>3. CASE Record(a) \/ Snapshot(a)
      BY <2>3, RecordOK, SnapshotOK
    <2>4. CASE Step(a)
      <3> DEFINE t == call[a].on
      <3>1. t \in Tabs
        BY <2>4 DEF Step, CallsInv, Sound
      <3>2. \/ page' = page
            \/ page[t].doc < MaxDocs /\ page' = [page EXCEPT ![t].doc = @ + 1]
        BY <2>4 DEF Step
      <3> QED BY <1>0, <1>s, <3>1, <3>2, NextDocOK
    <2> QED BY <1>1, <2>1, <2>2, <2>3, <2>4 DEF AgentStep
  <1>2. ASSUME NEW v \in Viewers, ViewerActs(v) \/ ViewerGoesOn(v) \/ Control(v) PROVE PagesOK'
    BY <1>0, <1>s, <1>2, PagesAfterOK DEF ViewerActs, ViewerGoesOn, Control
  <1>3. ASSUME SiteStep \/ SiteGoesOn PROVE PagesOK'
    BY <1>0, <1>3, PagesAfterOK DEF SiteStep, SiteGoesOn
  <1>4. ASSUME NEW t \in Tabs, Commits(t) PROVE PagesOK'
    BY <1>0, <1>4, NextDocOK DEF Commits
  <1>5. ASSUME NEW t \in Tabs, Told(t) PROVE PagesOK'
    BY <1>0, <1>5, ToldOK
  <1> QED BY <1>1, <1>2, <1>3, <1>4, <1>5 DEF CallsNext

LEMMA CallsKept ==
    ASSUME CallsInv, CallsNext
    PROVE  call' \in [Agents -> States] /\ \A a \in Agents : Sound(call'[a])
  <1>1. ASSUME NEW a \in Agents, AgentStep(a)
        PROVE  call' \in [Agents -> States] /\ \A b \in Agents : Sound(call'[b])
    BY <1>1, AgentGives, PutSound
  <1>2. ASSUME call' = call
        PROVE  call' \in [Agents -> States] /\ \A b \in Agents : Sound(call'[b])
    BY <1>2 DEF CallsInv
  <1>3. ASSUME NEW v \in Viewers, Control(v)
        PROVE  call' \in [Agents -> States] /\ \A b \in Agents : Sound(call'[b])
    <2>1. ASSUME NEW b \in Agents PROVE call'[b] \in States /\ Sound(call'[b])
      <3> DEFINE c == call[b]
                 n == [c EXCEPT !.late = FALSE]
      <3>1. c \in States /\ Sound(c) /\ call'[b] = n
        BY <1>3 DEF CallsInv, Control
      <3>2. n \in States
        BY <3>1 DEF States
      <3>3. Rests(c) => n = c
        <4>1. ASSUME Rests(c) PROVE n = c
          <5>1. c.late = FALSE
            BY <4>1, RestingType
          <5> QED BY <3>1, <5>1 DEF States
        <4> QED BY <4>1
      <3>4. /\ n.at = c.at /\ n.on = c.on /\ n.todo = c.todo /\ n.kind = c.kind
            /\ n.got = c.got /\ n.read = c.read /\ n.tab = c.tab /\ SameMark(c, n)
        BY <3>1 DEF States, SameMark
      <3>5. Sound(n)
        BY <3>1, <3>2, <3>3, <3>4 DEF Sound, Marked, SameMark
      <3> QED BY <3>1, <3>2, <3>5
    <2>2. call' = [b \in Agents |-> call'[b]]
      BY <1>3 DEF Control
    <2> QED BY <2>1, <2>2
  <1>4. ASSUME NEW v \in Viewers, ViewerActs(v) \/ ViewerGoesOn(v) PROVE call' = call
    BY <1>4 DEF ViewerActs, ViewerGoesOn
  <1>5. ASSUME SiteStep \/ SiteGoesOn \/ \E t \in Tabs : Commits(t) \/ Told(t)
        PROVE  call' = call
    BY <1>5 DEF SiteStep, SiteGoesOn, Commits, Told
  <1> QED BY <1>1, <1>2, <1>3, <1>4, <1>5 DEF CallsNext

LEMMA CountersKept ==
    ASSUME CallsInv, CallsNext
    PROVE  paused' \in BOOLEAN /\ moved' \subseteq Agents /\ turns' \in 0..MaxTurns
  <1>1. moved' \subseteq Agents
    <2>1. (\E u : Track(u)) \/ moved' = moved
      BY DEF CallsNext, AgentStep, CallTool, Login, TabTool, DriverGoesOn, Step, Fails, Settled,
             Loaded, Snapshot, Record, Masked, FindAnswers, ViewerActs, ViewerGoesOn, Control,
             SiteStep, SiteGoesOn, Commits, Told
    <2> QED BY <2>1 DEF Track, CallsInv
  <1>2. turns' = turns \/ (turns < MaxTurns /\ turns' = turns + 1)
    BY DEF CallsNext, AgentStep, CallTool, Login, TabTool, DriverGoesOn, Step, Fails, Settled,
           Loaded, Snapshot, Record, Masked, FindAnswers, ViewerActs, ViewerGoesOn, Control,
           SiteStep, SiteGoesOn, Commits, Told, Comes
  <1>3. turns' \in 0..MaxTurns
    BY <1>2, Bounds DEF CallsInv
  <1>4. paused' = paused \/ paused' \in BOOLEAN
    BY Zenon DEF CallsNext, AgentStep, CallTool, Login, TabTool, DriverGoesOn, Step, Fails,
           Settled, Loaded, Snapshot, Record, Masked, FindAnswers, ViewerActs, ViewerGoesOn,
           Control, SiteStep, SiteGoesOn, Commits, Told, ClearsPause
  <1>5. paused' \in BOOLEAN
    BY <1>4 DEF CallsInv
  <1> QED BY <1>1, <1>3, <1>5

LEMMA CallsInvKept == CallsInv /\ [CallsNext]_allVars => CallsInv'
  <1> SUFFICES ASSUME CallsInv, [CallsNext]_allVars PROVE CallsInv'
    OBVIOUS
  <1>1. CASE UNCHANGED allVars
    <2>1. UNCHANGED castVars /\ UNCHANGED <<page, paused, call, moved, turns>>
      BY <1>1 DEF allVars
    <2>2. TypeOK'
      BY <2>1, CastSame DEF CallsInv
    <2> QED BY <2>1, <2>2 DEF CallsInv, PagesOK
  <1>2. CASE CallsNext
    <2>1. TypeOK'
      <3>1. ASSUME NEW a \in Agents, AgentStep(a) PROVE TypeOK'
        BY <3>1, AgentCast, CastSame, TaskTypes DEF CallsInv, Tasks
      <3>2. ASSUME NEW t \in Tabs, Commits(t) \/ Told(t) PROVE TypeOK'
        BY <3>2, CastSame DEF Commits, Told, CallsInv
      <3> QED BY <1>2, <3>1, <3>2, OutsideCast, OutsideTypes DEF CallsNext, CallsInv
    <2> QED BY <1>2, <2>1, PagesKept, CallsKept, CountersKept DEF CallsInv
  <1> QED BY <1>1, <1>2

LEMMA InitCalls == CallsInit => CallsInv
  <1> SUFFICES ASSUME CallsInit PROVE CallsInv
    OBVIOUS
  <1>1. PICK t \in Tabs : tabs = <<t>> /\ active = t /\ tracked = {t} /\ casting = {t}
    BY DEF CallsInit
  <1>2. /\ tabs \in Seq(Tabs) /\ active \in Tabs \cup {NoTab}
        /\ tracked \subseteq Tabs /\ casting \subseteq Tabs /\ leaked \subseteq Tabs
    BY <1>1 DEF CallsInit
  <1>3. emitted \in 0..MaxFrames
    BY BoundAssumption DEF CallsInit
  <1>4. /\ sinks \subseteq Viewers /\ sockets \subseteq Viewers /\ acking \subseteq Frames
        /\ gotos \subseteq Tasks
    BY DEF CallsInit
  <1>5. /\ latest \in Frames \cup {NoFrame} /\ pumpTask \in Pumps \cup {NoPump}
        /\ shown \in [Viewers -> Frames \cup {NoFrame}]
        /\ lastSent \in [Pumps -> Frames \cup {NoFrame}]
        /\ fanOut \in [Pumps -> SUBSET Viewers]
    BY DEF CallsInit
  <1>6. /\ pump \in [Pumps -> PumpStates] /\ pc \in [Tasks -> Steps]
        /\ target \in [Tasks -> Tabs \cup {NoTab}] /\ victim \in [Tasks -> Tabs \cup {NoTab}]
    BY DEF CallsInit, PumpStates, Steps
  <1>7. /\ ready \in BOOLEAN /\ expected \in BOOLEAN /\ watch \in BOOLEAN /\ paused \in BOOLEAN
        /\ bare \in BOOLEAN
    BY Zenon DEF CallsInit
  <1>8. TypeOK
    BY <1>2, <1>3, <1>4, <1>5, <1>6, <1>7 DEF TypeOK
  <1>9. PagesOK
    BY BlankPageOK DEF CallsInit, PagesOK, PageOK
  <1>10. Rests(Idle)
    BY DEF Rests
  <1>11. Idle \in States /\ Sound(Idle)
    BY <1>10, RestingType DEF Sound, Marked
  <1>12. call \in [Agents -> States] /\ \A a \in Agents : Sound(call[a])
    BY <1>11 DEF CallsInit
  <1>13. moved \subseteq Agents /\ turns \in 0..MaxTurns
    BY Bounds DEF CallsInit
  <1> QED BY <1>7, <1>8, <1>9, <1>12, <1>13 DEF CallsInv

LEMMA CallsInvAlways == CallsSpec => []CallsInv
  BY InitCalls, CallsInvKept, PTL DEF CallsSpec

-----------------------------------------------------------------------------
(* Taking over.  A call that has touched a page since the pause carries the    *)
(* mark of it as long as it could touch one again, and what may come while the *)
(* pause lasts touches none.                                                   *)

LateInv ==
    /\ late \in [Agents -> {0, 1}]
    /\ \A a \in Agents : late[a] = 1 => paused /\ (call[a].late \/ call[a].kind = "view")

\* Where nothing has been touched, or the pause is over.
LEMMA LateReset ==
    ASSUME late' = [a \in Agents |-> 0]
    PROVE  LateInv'
  BY DEF LateInv

LEMMA LateSame ==
    ASSUME LateInv, CallsInv, NEW a \in Agents, NEW n, Put(a, n), late' = late, paused' = paused,
           \/ ~paused
           \/ n.kind = "view"
           \/ n.late = call[a].late /\ n.kind = call[a].kind
    PROVE  LateInv'
  <1>1. \A b \in Agents : call'[b] = IF b = a THEN n ELSE call[b]
    BY DEF Put, CallsInv
  <1>2. ASSUME NEW b \in Agents, late'[b] = 1
        PROVE  paused' /\ (call'[b].late \/ call'[b].kind = "view")
    <2>1. late[b] = 1 /\ paused /\ (call[b].late \/ call[b].kind = "view")
      BY <1>2 DEF LateInv
    <2> QED BY <1>1, <2>1
  <1> QED BY <1>2 DEF LateInv

LEMMA LateWork ==
    ASSUME LateInv, CallsInv, NEW a \in Agents, WorkStep(a)
    PROVE  LateInv'
  <1> DEFINE c == call[a]
  <1>1. paused' = paused
    BY DEF WorkStep, Step, Fails, Settled, Loaded, Snapshot, Record, Masked, FindAnswers
  <1>2. PICK n : /\ Turns(a, n) /\ Works(c, n)
                 /\ Untouched(c, n) \/ Touched(a, c, n)
    BY WorkGives
  <1>3. Put(a, n)
    BY <1>2 DEF Turns
  <1>4. Rests(n) => n.kind = "view"
    BY RestingType
  <1>5. CASE Untouched(c, n)
    BY <1>1, <1>2, <1>3, <1>4, <1>5, LateSame DEF Untouched, Works
  <1>6. CASE Touched(a, c, n)
    <2>1. c.at = "acting" /\ c.kind # "view"
      BY <1>6 DEF Touched, CallsInv, Sound
    <2>2. CASE paused /\ ~c.late
      <3>1. late[a] = 0
        BY <2>1, <2>2 DEF LateInv
      <3>2. late' = [late EXCEPT ![a] = 1] /\ late \in [Agents -> {0, 1}]
        BY <1>6, <2>2, <3>1 DEF Touched, LateInv
      <3>3. n.late \/ n.kind = "view"
        BY <1>4, <1>6, <2>2 DEF Touched
      <3>4. \A b \in Agents : call'[b] = IF b = a THEN n ELSE call[b]
        BY <1>3 DEF Put, CallsInv
      <3> QED BY <1>1, <2>2, <3>2, <3>3, <3>4 DEF LateInv
    <2>3. CASE ~ (paused /\ ~c.late)
      <3>1. late' = late
        BY <1>6, <2>3 DEF Touched
      <3>2. CASE ~paused \/ Rests(n)
        BY <1>1, <1>3, <1>4, <3>1, <3>2, LateSame
      <3>3. CASE paused /\ ~Rests(n)
        <4>1. n.late /\ c.late
          BY <1>6, <2>3, <3>3 DEF Touched
        <4>2. \A b \in Agents : call'[b] = IF b = a THEN n ELSE call[b]
          BY <1>3 DEF Put, CallsInv
        <4> QED BY <1>1, <3>1, <4>1, <4>2 DEF LateInv
      <3> QED BY <3>2, <3>3
    <2> QED BY <2>2, <2>3
  <1> QED BY <1>2, <1>5, <1>6

LEMMA LateKept == LateInv /\ CallsInv /\ [CallsNext]_allVars => LateInv'
  <1> SUFFICES ASSUME LateInv, CallsInv, [CallsNext]_allVars PROVE LateInv'
    OBVIOUS
  <1>s. ASSUME UNCHANGED <<late, paused, call>> PROVE LateInv'
    BY <1>s DEF LateInv
  <1>r. \A n : Rests(n) => n.kind = "view"
    BY RestingType
  <1>1. ASSUME NEW a \in Agents, CallTool(a) PROVE LateInv'
    <2>0. PICK kind \in {"view", "act", "navigate"} : \E n :
            /\ Comes(a, kind) /\ ClearsPause(kind) /\ Turns(a, n)
            /\ Rests(n) \/ n.kind = kind
      BY <1>1, CallToolGives
    <2>1. PICK n : /\ Comes(a, kind) /\ ClearsPause(kind) /\ Turns(a, n)
                   /\ Rests(n) \/ n.kind = kind
      BY <2>0
    <2>2. CASE kind = "navigate"
      BY <2>1, <2>2, LateReset DEF ClearsPause
    <2>3. CASE kind # "navigate"
      <3>1. late' = late /\ paused' = paused /\ Put(a, n)
        BY <2>1, <2>3 DEF ClearsPause, Turns, CallsInv
      <3>2. ~paused \/ n.kind = "view"
        BY <1>r, <2>1, <2>3 DEF Comes, Admitted
      <3> QED BY <3>1, <3>2, LateSame
    <2> QED BY <2>2, <2>3
  <1>2. ASSUME NEW a \in Agents, Login(a) PROVE LateInv'
    <2>1. ~paused /\ late' = late /\ paused' = paused /\ \E n : Put(a, n)
      BY <1>2, LoginGives DEF Comes, Admitted, Turns
    <2> QED BY <2>1, LateSame
  <1>3. ASSUME NEW a \in Agents, TabTool(a) PROVE LateInv'
    <2>1. ~paused /\ late' = late /\ paused' = paused /\ \E n : Put(a, n)
      BY <1>3, TabToolGives DEF Comes, Admitted, Turns
    <2> QED BY <2>1, LateSame
  <1>4. ASSUME NEW a \in Agents, DriverGoesOn(a) PROVE LateInv'
    <2>1. late' = late /\ paused' = paused
      BY <1>4, DriverGives
    <2>2. PICK n : Turns(a, n) /\ (n = call[a] \/ Rests(n) \/ Keeps(call[a], n))
      BY <1>4, DriverGives
    <2> QED BY <1>r, <2>1, <2>2, LateSame DEF Turns, Keeps
  <1>5. ASSUME NEW v \in Viewers, Control(v) PROVE LateInv'
    BY <1>5, LateReset DEF Control
  <1>6. ASSUME NEW v \in Viewers, ViewerActs(v) \/ ViewerGoesOn(v) PROVE LateInv'
    BY <1>6, <1>s DEF ViewerActs, ViewerGoesOn
  <1>7. ASSUME SiteStep \/ SiteGoesOn \/ (\E t \in Tabs : Commits(t) \/ Told(t))
               \/ UNCHANGED allVars
        PROVE  LateInv'
    BY <1>7, <1>s DEF SiteStep, SiteGoesOn, Commits, Told, allVars
  <1> QED BY <1>1, <1>2, <1>3, <1>4, <1>5, <1>6, <1>7, LateWork DEF CallsNext, AgentStep, WorkStep

\* A person who takes over is disturbed by the call in progress of each agent at most,
\* however many items its batch or recipe has left, until somebody hands back or
\* navigates.
THEOREM TakeoverIsRespected == CallsSpec => []TakeoverHolds
  <1>1. CallsInit => LateInv
    BY DEF CallsInit, LateInv
  <1>2. LateInv => TakeoverHolds
    BY DEF LateInv, TakeoverHolds
  <1> QED BY <1>1, <1>2, CallsInvAlways, LateKept, PTL DEF CallsSpec

\* Pages, calls and counters have their types, whoever does what.
THEOREM CallsTypeCorrect == CallsSpec => []CallsTypeOK
  <1>1. CallsInit => LateInv
    BY DEF CallsInit, LateInv
  <1>2. CallsInv /\ LateInv => CallsTypeOK
    <2> SUFFICES ASSUME CallsInv, LateInv PROVE CallsTypeOK
      OBVIOUS
    <2>1. page \in [Tabs -> Pages]
      BY DEF CallsInv, PagesOK
    <2>2. late \in [Agents -> 0..MaxTurns]
      BY Bounds DEF LateInv
    <2>3. \A a \in Agents : call[a] \in States
      BY DEF CallsInv
    <2> QED BY <2>1, <2>2, <2>3 DEF CallsInv, CallsTypeOK, Pages, States, Kinds
  <1> QED BY <1>1, <1>2, CallsInvAlways, LateKept, PTL DEF CallsSpec

-----------------------------------------------------------------------------
(* Tabs.  Whoever empties the list waits for the tab that replaces the last,   *)
(* and says so (Replacing) as long as the tab has neither come nor failed to.  *)

\* A step of one task leaves the others where they are.
LEMMA TaskKeepsOthers ==
    ASSUME NEW u \in Tasks, TypeOK,
           \/ TaskStep(u)
           \/ u \in Viewers /\ (ViewerStep(u) \/ UNCHANGED castVars)
           \/ u = Site /\ (SiteOpens \/ \E t \in Tabs : SiteCloses(t))
    PROVE  \A w \in Tasks \ {u} : pc'[w] = pc[w] /\ target'[w] = target[w] /\ victim'[w] = victim[w]
  <1> DEFINE Kept(f, g) == g = f \/ \E s : g = [f EXCEPT ![u] = s]
  <1>0. /\ pc \in [Tasks -> Steps] /\ target \in [Tasks -> Tabs \cup {NoTab}]
        /\ victim \in [Tasks -> Tabs \cup {NoTab}]
    BY DEF TypeOK
  <1>k. ASSUME Kept(pc, pc'), Kept(target, target'), Kept(victim, victim')
        PROVE  \A w \in Tasks \ {u} :
                 pc'[w] = pc[w] /\ target'[w] = target[w] /\ victim'[w] = victim[w]
    BY <1>0, <1>k
  <1>s. ASSUME NEW list, NEW t, SetActive(u, list, t) PROVE Kept(pc, pc') /\ Kept(target, target')
    BY <1>s DEF SetActive, At
  <1>a. ASSUME NEW list, NEW id, NEW t, NEW pages, Activate(u, list, id, t, pages)
        PROVE  Kept(pc, pc') /\ Kept(target, target')
    <2>1. CASE sinks = {}
      BY <1>a, <1>s, <2>1 DEF Activate
    <2>2. CASE sinks # {}
      BY <1>a, <2>2 DEF Activate, At
    <2> QED BY <2>1, <2>2
  <1>r. ASSUME NEW list, NEW b, NEW id, NEW pages, Replace(u, list, b, id, pages)
        PROVE  Kept(pc, pc') /\ Kept(target, target')
    <2>1. ASSUME Activate(u, list, id, Head(list), pages)
          PROVE  Kept(pc, pc') /\ Kept(target, target')
      BY <1>a, <2>1
    <2>2. ASSUME \E s : pc' = [pc EXCEPT ![u] = s], target' = target
          PROVE  Kept(pc, pc') /\ Kept(target, target')
      BY <2>2
    <2> HIDE DEF Kept
    <2> QED BY <1>r, <2>1, <2>2 DEF Replace, At
  <1>d. ASSUME NEW t, NEW b, DropTab(u, t, b) PROVE Kept(pc, pc') /\ Kept(target, target')
    <2> HIDE DEF Kept
    <2> QED BY <1>d, <1>r DEF DropTab
  <1> USE DEF listVars, viewerVars, captureVars, streamVars, taskVars
  <1>1. ASSUME TaskStep(u) PROVE Kept(pc, pc') /\ Kept(target, target') /\ Kept(victim, victim')
    <2>1. ASSUME NEW t \in Tabs, SwitchTab(u, t)
          PROVE  Kept(pc, pc') /\ Kept(target, target') /\ Kept(victim, victim')
      <3>1. Kept(pc, pc') /\ Kept(target, target')
        BY <1>a, <2>1 DEF SwitchTab
      <3> QED BY <2>1, <3>1 DEF SwitchTab
    <2>2. ASSUME NEW t \in Tabs, CloseTab(u, t)
          PROVE  Kept(pc, pc') /\ Kept(target, target') /\ Kept(victim, victim')
      <3>1. CASE t = active /\ sinks # {}
        BY <2>2, <3>1 DEF CloseTab, At
      <3>2. CASE ~ (t = active /\ sinks # {})
        <4>1. Kept(pc, pc') /\ Kept(target, target')
          BY <1>d, <2>2, <3>2 DEF CloseTab
        <4> QED BY <2>2, <4>1 DEF CloseTab
      <3> QED BY <3>1, <3>2
    <2>3. CASE Navigate(u) \/ NewTab(u) \/ Fronted(u) \/ Started(u) \/ PageClosed(u) \/ OpenFails(u)
      BY <2>3 DEF Navigate, NewTab, Fronted, Started, PageClosed, OpenFails, Finish, At
    <2>4. CASE Stopped(u)
      <3>1. Kept(pc, pc') /\ Kept(target, target')
        BY <1>s, <2>4 DEF Stopped
      <3> QED BY <2>4, <3>1 DEF Stopped
    <2>5. CASE Opened(u)
      <3>1. Kept(pc, pc') /\ Kept(target, target')
        BY <1>a, <2>5 DEF Opened
      <3> QED BY <2>5, <3>1 DEF Opened
    <2>6. CASE ClosingStopped(u)
      <3>1. Kept(pc, pc') /\ Kept(target, target')
        BY <1>d, <2>6 DEF ClosingStopped
      <3> QED BY <2>6, <3>1 DEF ClosingStopped
    <2> HIDE DEF Kept
    <2> QED BY <1>1, <2>1, <2>2, <2>3, <2>4, <2>5, <2>6 DEF TaskStep
  <1>2. ASSUME ViewerStep(u)
        PROVE  Kept(pc, pc') /\ Kept(target, target') /\ Kept(victim, victim')
    BY <1>2 DEF ViewerStep, Join, JoinFails, Joined, SocketDrops, Leave, PumpStopped, Left,
                Uncast, At
  <1>3. ASSUME UNCHANGED castVars \/ SiteOpens
        PROVE  Kept(pc, pc') /\ Kept(target, target') /\ Kept(victim, victim')
    BY <1>3 DEF castVars, SiteOpens
  <1>4. ASSUME NEW t \in Tabs, u = Site, SiteCloses(t)
        PROVE  Kept(pc, pc') /\ Kept(target, target') /\ Kept(victim, victim')
    <2>1. Kept(pc, pc') /\ Kept(target, target')
      BY <1>r, <1>4 DEF SiteCloses
    <2> QED BY <1>4, <2>1 DEF SiteCloses
  <1> HIDE DEF Kept
  <1> QED BY <1>k, <1>1, <1>2, <1>3, <1>4

LEMMA EmptyOrNot ==
    ASSUME NEW list \in Seq(Tabs)
    PROVE  (list # <<>> => Head(list) \in Range(list)) /\ (list = <<>> <=> Range(list) = {})
  <1>1. list # <<>> => 1 \in DOMAIN list /\ Head(list) = list[1]
    OBVIOUS
  <1>2. list = <<>> => DOMAIN list = {}
    OBVIOUS
  <1> QED BY <1>1, <1>2 DEF Range

TabComes == tabs = <<>> => bare \/ \E u \in Tasks : pc[u] = "opening" /\ Replacing(u)

\* It is close_tab that awaits the end of a capture before it takes its tab off the list.
ClosesOwn == \A u \in Tasks : pc[u] = "closing" => u # Site /\ victim[u] # NoTab

SiteClosesOne(u) == u = Site /\ \E t \in Tabs : SiteCloses(t)

\* Where a task is after it has dealt with a list that lost a tab.
LEMMA ReplaceLeads ==
    ASSUME pc \in [Tasks -> Steps], NEW u \in Tasks, NEW list, NEW b \in BOOLEAN, NEW id,
           NEW pages, Replace(u, list, b, id, pages)
    PROVE  /\ pc'[u] # "closing"
           /\ list = <<>> => IF LeftToExtension(u, list) THEN pc'[u] = "ready"
                                                         ELSE pc'[u] = "opening"
  <1>1. CASE list = <<>>
    BY <1>1 DEF Replace, At
  <1>2. CASE list # <<>>
    BY <1>2 DEF Replace, At, Activate, SetActive
  <1> QED BY <1>1, <1>2

\* A step of u after which there is no tab: nobody is to put one there, u is about to,
\* or there was none before and u was not the one to put one there.
LEMMA Emptied ==
    ASSUME TypeOK, ClosesOwn, NEW u \in Tasks, TaskStep(u) \/ SiteClosesOne(u), tabs' = <<>>
    PROVE  \/ bare'
           \/ pc'[u] = "opening" /\ (u = Site \/ victim'[u] # NoTab)
           \/ tabs = <<>> /\ (bare => bare') /\ ~ (pc[u] = "opening" /\ Replacing(u))
  <1> USE DEF listVars, taskVars
  <1>0. /\ pc \in [Tasks -> Steps] /\ tabs \in Seq(Tabs)
        /\ victim \in [Tasks -> Tabs \cup {NoTab}]
    BY DEF TypeOK
  <1>1. ASSUME NEW t \in Tabs, SwitchTab(u, t) PROVE FALSE
    <2>1. tabs' = tabs /\ t \in Range(tabs)
      BY <1>1 DEF SwitchTab
    <2> QED BY <1>0, <2>1, EmptyOrNot
  <1>2. ASSUME NEW t \in Tabs, CloseTab(u, t) PROVE pc'[u] = "opening" /\ victim'[u] # NoTab
    <2>1. t \in Range(tabs) /\ tabs # <<>> /\ u # Site
      BY <1>0, <1>2, EmptyOrNot DEF CloseTab, CanAct
    <2>2. DropTab(u, t, t = active)
      BY <1>2, <2>1 DEF CloseTab
    <2>3. Replace(u, <<>>, t = active, active, {}) /\ victim'[u] = t
      BY <1>0, <1>2, <2>2 DEF DropTab, CloseTab
    <2>4. pc'[u] = "opening"
      BY <1>0, <2>1, <2>3, ReplaceLeads DEF LeftToExtension
    <2> QED BY <2>3, <2>4, PoolAssumption
  <1>3. CASE Navigate(u)
    BY <1>0, <1>3 DEF Navigate
  <1>4. CASE NewTab(u)
    BY <1>0, <1>4 DEF NewTab, CanAct
  <1>5. CASE Stopped(u) \/ Fronted(u) \/ Started(u) \/ PageClosed(u)
    BY <1>0, <1>5 DEF Stopped, Fronted, Started, PageClosed
  <1>6. ASSUME OpenFails(u) PROVE bare' \/ (tabs = <<>> /\ (bare => bare') /\ ~Replacing(u))
    <2>1. bare' = (bare \/ (Replacing(u) /\ tabs = <<>>)) /\ tabs' = tabs
      BY <1>6 DEF OpenFails
    <2>2. tabs = <<>>
      BY <2>1
    <2> QED BY <2>1, <2>2, Zenon
  <1>7. CASE Opened(u)
    <2>1. PICK t \in Tabs : tabs' = Append(tabs, t)
      BY <1>7 DEF Opened, FreshTabs
    <2> QED BY <1>0, <2>1
  <1>8. ASSUME ClosingStopped(u) PROVE pc'[u] = "opening" /\ victim'[u] # NoTab
    <2>1. Replace(u, <<>>, TRUE, active, {}) /\ victim' = victim /\ pc[u] = "closing"
      BY <1>8 DEF ClosingStopped, DropTab
    <2>2. u # Site /\ victim[u] # NoTab
      BY <2>1 DEF ClosesOwn
    <2>3. pc'[u] = "opening"
      BY <1>0, <2>1, <2>2, ReplaceLeads DEF LeftToExtension
    <2> QED BY <2>1, <2>2, <2>3
  <1>9. ASSUME NEW t \in Tabs, u = Site, SiteCloses(t) PROVE bare' \/ pc'[u] = "opening"
    <2>1. /\ Replace(u, <<>>, t = active, NoTab, {t})
          /\ bare' = (bare \/ LeftToExtension(Site, <<>>))
      BY <1>9 DEF SiteCloses
    <2> QED BY <1>0, <1>9, <2>1, ReplaceLeads
  <1> QED BY <1>1, <1>2, <1>3, <1>4, <1>5, <1>6, <1>7, <1>8, <1>9 DEF TaskStep, SiteClosesOne

\* A task that closes a tab has one to close.
LEMMA ClosesOwnStep ==
    ASSUME TypeOK, ClosesOwn, NEW u \in Tasks, TaskStep(u) \/ SiteClosesOne(u)
    PROVE  pc'[u] = "closing" => u # Site /\ victim'[u] # NoTab
  <1> USE DEF listVars, taskVars
  <1>0. pc \in [Tasks -> Steps] /\ victim \in [Tasks -> Tabs \cup {NoTab}]
    BY DEF TypeOK
  <1>1. ASSUME NEW t \in Tabs, SwitchTab(u, t) PROVE pc'[u] # "closing"
    BY <1>0, <1>1 DEF SwitchTab, Activate, SetActive, At
  <1>2. ASSUME NEW t \in Tabs, CloseTab(u, t) PROVE u # Site /\ victim'[u] # NoTab
    BY <1>0, <1>2, PoolAssumption DEF CloseTab, CanAct
  <1>3. CASE Navigate(u)
    BY <1>3 DEF Navigate, ClosesOwn
  <1>4. ASSUME NewTab(u) \/ PageClosed(u) \/ OpenFails(u) PROVE pc'[u] # "closing"
    BY <1>0, <1>4 DEF NewTab, PageClosed, OpenFails, At
  <1>5. ASSUME Stopped(u) \/ Fronted(u) \/ Started(u) PROVE pc'[u] # "closing"
    BY <1>0, <1>5 DEF Stopped, Fronted, Started, SetActive, Finish, At
  <1>6. ASSUME Opened(u) PROVE pc'[u] # "closing"
    BY <1>0, <1>6 DEF Opened, Activate, SetActive, At
  <1>7. ASSUME ClosingStopped(u) PROVE pc'[u] # "closing"
    <2>1. Replace(u, Without(victim[u]), TRUE, active, {})
      BY <1>7 DEF ClosingStopped, DropTab
    <2> QED BY <1>0, <2>1, ReplaceLeads
  <1>8. ASSUME NEW t \in Tabs, u = Site, SiteCloses(t) PROVE pc'[u] # "closing"
    <2>1. Replace(u, Without(t), t = active, NoTab, {t})
      BY <1>8 DEF SiteCloses
    <2> QED BY <1>0, <2>1, ReplaceLeads
  <1> QED BY <1>1, <1>2, <1>3, <1>4, <1>5, <1>6, <1>7, <1>8 DEF TaskStep, SiteClosesOne

TabInv == TabComes /\ ClosesOwn

LEMMA TabStepKeeps ==
    ASSUME TypeOK, TabInv, NEW u \in Tasks, TaskStep(u) \/ SiteClosesOne(u)
    PROVE  TabInv'
  <1>1. \A w \in Tasks \ {u} : pc'[w] = pc[w] /\ victim'[w] = victim[w]
    BY TaskKeepsOthers DEF SiteClosesOne
  <1>2. ClosesOwn'
    BY <1>1, ClosesOwnStep DEF TabInv, ClosesOwn
  <1>3. ASSUME tabs' = <<>> PROVE bare' \/ \E w \in Tasks : pc'[w] = "opening" /\ Replacing(w)'
    <2>1. \/ bare'
          \/ pc'[u] = "opening" /\ (u = Site \/ victim'[u] # NoTab)
          \/ tabs = <<>> /\ (bare => bare') /\ ~ (pc[u] = "opening" /\ Replacing(u))
      BY <1>3, Emptied DEF TabInv
    <2>2. CASE pc'[u] = "opening" /\ (u = Site \/ victim'[u] # NoTab)
      BY <2>2 DEF Replacing
    <2>3. CASE tabs = <<>> /\ (bare => bare') /\ ~ (pc[u] = "opening" /\ Replacing(u)) /\ ~bare
      <3>1. PICK w \in Tasks : pc[w] = "opening" /\ Replacing(w)
        BY <2>3 DEF TabInv, TabComes
      <3>2. w # u
        BY <2>3, <3>1
      <3> QED BY <1>1, <3>1, <3>2 DEF Replacing
    <2> QED BY <2>1, <2>2, <2>3
  <1> QED BY <1>2, <1>3 DEF TabInv, TabComes

LEMMA TabInvKept == CallsInv /\ TabInv /\ [CallsNext]_allVars => TabInv'
  <1> SUFFICES ASSUME CallsInv, TabInv, [CallsNext]_allVars PROVE TabInv'
    OBVIOUS
  <1>0. TypeOK /\ pc \in [Tasks -> Steps]
    BY DEF CallsInv, TypeOK
  <1>1. ASSUME UNCHANGED castVars PROVE TabInv'
    <2>1. tabs' = tabs /\ bare' = bare /\ pc' = pc /\ victim' = victim
      BY <1>1 DEF castVars, listVars, taskVars
    <2> QED BY <2>1 DEF TabInv, TabComes, ClosesOwn, Replacing
  <1>2. ASSUME NEW v \in Viewers, ViewerStep(v) PROVE TabInv'
    <2>1. /\ tabs' = tabs /\ bare' = bare /\ victim' = victim
          /\ \/ pc' = pc
             \/ /\ pc[v] # "opening"
                /\ \E s \in {"joining", "unpumping", "ready", "away", "uncasting"} :
                     pc' = [pc EXCEPT ![v] = s]
      BY <1>2 DEF ViewerStep, Join, JoinFails, Joined, SocketDrops, Leave, PumpStopped, Left,
                  Uncast, At, listVars, taskVars
    <2>2. /\ \A u \in Tasks : pc[u] = "opening" => pc'[u] = "opening"
          /\ \A u \in Tasks : pc'[u] = "closing" => pc[u] = "closing"
      BY <1>0, <2>1
    <2> QED BY <2>1, <2>2 DEF TabInv, TabComes, ClosesOwn, Replacing
  <1>3. ASSUME SiteOpens PROVE TabInv'
    <2>1. PICK t \in Tabs : tabs' = Append(tabs, t)
      BY <1>3 DEF SiteOpens, FreshTabs
    <2>2. tabs' # <<>>
      BY <1>0, <2>1 DEF TypeOK
    <2>3. pc' = pc /\ victim' = victim
      BY <1>3 DEF SiteOpens, taskVars
    <2> QED BY <2>2, <2>3 DEF TabInv, TabComes, ClosesOwn
  <1>4. ASSUME NEW u, OutsideStep(u) PROVE TabInv'
    BY <1>0, <1>1, <1>2, <1>3, <1>4, TabStepKeeps DEF OutsideStep, Tasks, SiteClosesOne
  <1>5. ASSUME NEW a \in Agents, AgentStep(a) PROVE TabInv'
    BY <1>0, <1>1, <1>5, AgentCast, TabStepKeeps DEF Tasks
  <1>6. ASSUME (\E t \in Tabs : Commits(t) \/ Told(t)) \/ UNCHANGED allVars PROVE TabInv'
    BY <1>1, <1>6 DEF Commits, Told, allVars
  <1> QED BY <1>4, <1>5, <1>6, OutsideCast DEF CallsNext

\* Whoever closes what, agents, viewers and sites, in any number and any order: between
\* operations there is a tab, unless opening the one that replaces the last has failed,
\* or the user has closed the last tab under the extension.
THEOREM NeverWithoutTab == CallsSpec => []NeverTabless
  <1>1. CallsInit => TabInv
    BY DEF CallsInit, TabInv, TabComes, ClosesOwn
  <1>2. TabInv => NeverTabless
    BY DEF TabInv, TabComes, NeverTabless, Quiet
  <1> QED BY <1>1, <1>2, CallsInvAlways, TabInvKept, PTL DEF CallsSpec

-----------------------------------------------------------------------------
(* Acting where it was told to.  A call whose tab nobody has taken away has it *)
(* on the list, and as the active one from the moment its own activation has   *)
(* got that far.                                                               *)

NamedInv(a) ==
    LET c == call[a] IN
    /\ c.at # "driver" => pc[a] = "ready"
    /\ c.at = "driver" /\ c.tab # NoTab
         => pc[a] \in {"stopping", "fronting", "starting"} /\ victim[a] = NoTab
    /\ c.tab # NoTab /\ a \notin moved
         => /\ c.tab \in Range(tabs)
            /\ c.on # NoTab => c.on = c.tab /\ active = c.tab
            /\ c.at = "driver" => IF pc[a] = "stopping" THEN target[a] = c.tab
                                                        ELSE active = c.tab

\* What somebody else's step does not take away.
LEMMA OthersNamed ==
    ASSUME CallsInv, NEW a \in Agents, NamedInv(a), NEW u, u # a, Track(u),
           pc'[a] = pc[a], target'[a] = target[a], victim'[a] = victim[a],
           call'[a].at = call[a].at, call'[a].tab = call[a].tab, call'[a].on = call[a].on
    PROVE  NamedInv(a)'
  <1>1. a \notin moved' /\ call[a].tab # NoTab
          => a \notin moved /\ active' = active /\ call[a].tab \in Range(tabs')
    BY DEF Track
  <1> QED BY <1>1 DEF NamedInv

\* What a step of a itself leaves in moved.
LEMMA OwnMoved ==
    ASSUME NEW a \in Agents, Track(a), call'[a].tab # NoTab, a \notin moved'
    PROVE  a \notin moved
  BY DEF Track

LEMMA ActiveNamed == ASSUME TypeOK, active \in Range(tabs) PROVE ActiveTab = active
  BY DEF ActiveTab, ActiveOf

\* At work: the tab it looks up is the one it is on.
LEMMA NamedWork ==
    ASSUME CallsInv, NEW a \in Agents, NamedInv(a), WorkStep(a)
    PROVE  NamedInv(a)'
  <1>1. UNCHANGED castVars /\ Track(a) /\ call[a].at # "driver"
    BY DEF WorkStep, Step, Fails, Settled, Loaded, Snapshot, Record, Masked, FindAnswers
  <1>2. active' = active /\ tabs' = tabs /\ pc' = pc /\ victim' = victim
    BY <1>1 DEF castVars, listVars, taskVars
  <1>3. PICK n : Turns(a, n) /\ Works(call[a], n)
    BY WorkGives
  <1>4. call'[a] = n
    BY <1>3 DEF Turns, Put, CallsInv
  <1>5. pc[a] = "ready"
    BY <1>1 DEF NamedInv
  <1>6. CASE Rests(n)
    <2>1. n.at # "driver" /\ n.tab = NoTab
      BY <1>6, RestingType
    <2> QED BY <1>2, <1>4, <1>5, <2>1 DEF NamedInv
  <1>7. CASE ~Rests(n)
    <2>1. n.tab = call[a].tab /\ OnSomeTab(call[a], n) /\ n.at # "driver"
      BY <1>3, <1>7 DEF Works
    <2>2. ASSUME n.tab # NoTab, a \notin moved'
          PROVE  n.tab \in Range(tabs) /\ n.on = n.tab /\ active = n.tab
      <3>1. a \notin moved
        BY <1>1, <1>4, <2>2, OwnMoved
      <3>2. call[a].at \notin {"idle", "between"}
        BY <2>1, <2>2, RestingType DEF CallsInv, Sound
      <3>3. call[a].on \in Tabs
        BY <1>1, <3>2 DEF CallsInv, Sound
      <3>4. call[a].on = n.tab /\ active = n.tab /\ n.tab \in Range(tabs)
        BY <2>1, <2>2, <3>1, <3>3, PoolAssumption DEF NamedInv
      <3>5. ActiveTab = active
        BY <3>4, ActiveNamed DEF CallsInv
      <3> QED BY <2>1, <3>4, <3>5 DEF OnSomeTab
    <2> QED BY <1>2, <1>4, <1>5, <2>1, <2>2 DEF NamedInv
  <1> QED BY <1>6, <1>7

\* Coming in: the tab is active, or the driver is asked to make it so.
LEMMA NamedComes ==
    ASSUME CallsInv, NEW a \in Agents, NamedInv(a), CallTool(a)
    PROVE  NamedInv(a)'
  <1>0. PICK kind \in {"view", "act", "navigate"}, t \in Range(tabs) : \E n :
             /\ Comes(a, kind) /\ Turns(a, n)
             /\ Rests(n) \/ n.tab = t
             /\ \/ UNCHANGED castVars /\ t = active /\ (Rests(n) \/ AtWork(n))
                \/ SwitchTab(a, t) /\ ~Rests(n) /\ n.at = "driver" /\ n.on = NoTab
    BY CallToolGives
  <1>1. PICK n :
             /\ Comes(a, kind) /\ Turns(a, n)
             /\ Rests(n) \/ n.tab = t
             /\ \/ UNCHANGED castVars /\ t = active /\ (Rests(n) \/ AtWork(n))
                \/ SwitchTab(a, t) /\ ~Rests(n) /\ n.at = "driver" /\ n.on = NoTab
    BY <1>0
  <1>2. call'[a] = n
    BY <1>1 DEF Turns, Put, CallsInv
  <1>3. pc[a] = "ready"
    BY <1>1 DEF NamedInv, Comes
  <1>4. TypeOK
    BY DEF CallsInv
  <1>5. CASE UNCHANGED castVars /\ t = active /\ (Rests(n) \/ AtWork(n))
    <2>1. active' = active /\ tabs' = tabs /\ pc' = pc
      BY <1>5 DEF castVars, listVars, taskVars
    <2>2. ActiveTab = t
      BY <1>4, <1>5, ActiveNamed
    <2>3. n.at # "driver" /\ (Rests(n) => n.tab = NoTab) /\ (~Rests(n) => n.on = t /\ n.tab = t)
      BY <1>1, <1>5, <2>2, RestingType DEF AtWork
    <2> QED BY <1>1, <1>2, <1>3, <1>5, <2>1, <2>3 DEF NamedInv
  <1>6. CASE SwitchTab(a, t) /\ ~Rests(n) /\ n.at = "driver" /\ n.on = NoTab
    <2>1. tabs' = tabs /\ tabs # <<>>
      <3>1. tabs' = tabs
        BY <1>6 DEF SwitchTab, listVars
      <3> QED BY <1>4, <3>1, EmptyOrNot DEF TypeOK
    <2>2. /\ pc \in [Tasks -> Steps] /\ target \in [Tasks -> Tabs \cup {NoTab}]
          /\ victim \in [Tasks -> Tabs \cup {NoTab}] /\ a \in Tasks
      BY <1>4 DEF TypeOK, Tasks
    <2>3. victim'[a] = NoTab
      BY <1>6, <2>2 DEF SwitchTab
    <2>4. \/ pc'[a] = "fronting" /\ active' = t
          \/ pc'[a] = "stopping" /\ target'[a] = t
      BY <1>6, <2>1, <2>2 DEF SwitchTab, Activate, SetActive, At
    <2> QED BY <1>1, <1>2, <1>6, <2>1, <2>3, <2>4 DEF NamedInv
  <1> QED BY <1>1, <1>5, <1>6

\* On its way through the driver.
LEMMA NamedDriver ==
    ASSUME CallsInv, NEW a \in Agents, NamedInv(a), DriverGoesOn(a)
    PROVE  NamedInv(a)'
  <1> DEFINE c == call[a]
  <1>0. /\ TypeOK /\ a \in Tasks /\ pc \in [Tasks -> Steps]
        /\ target \in [Tasks -> Tabs \cup {NoTab}] /\ victim \in [Tasks -> Tabs \cup {NoTab}]
    BY DEF CallsInv, TypeOK, Tasks
  <1>1. c.at = "driver" /\ c.on = NoTab
    <2>1. pc[a] # "ready"
      BY DEF DriverGoesOn, Stopped, Fronted, Started, Opened, OpenFails, ClosingStopped, PageClosed
    <2> QED BY <2>1 DEF NamedInv, CallsInv, Sound
  <1>2. PICK n : /\ Turns(a, n)
                 /\ \/ n = c /\ pc'[a] # "ready"
                    \/ pc'[a] = "ready" /\ Rests(n)
                    \/ /\ pc'[a] = "ready" /\ c.tab # NoTab
                       /\ Keeps(c, n) /\ AtWork(n)
    BY DriverGives
  <1>3. call'[a] = n
    BY <1>2 DEF Turns, Put, CallsInv
  <1>4. CASE Rests(n) /\ pc'[a] = "ready"
    <2>1. n.at # "driver" /\ n.tab = NoTab
      BY <1>4, RestingType
    <2> QED BY <1>3, <1>4, <2>1 DEF NamedInv
  <1>5. CASE n = c /\ pc'[a] # "ready" /\ c.tab = NoTab
    BY <1>1, <1>3, <1>5 DEF NamedInv
  <1>6. CASE c.tab # NoTab
    <2>1. /\ pc[a] \in {"stopping", "fronting", "starting"} /\ victim[a] = NoTab
          /\ Stopped(a) \/ Fronted(a) \/ Started(a)
      BY <1>1, <1>6 DEF NamedInv, DriverGoesOn, Opened, OpenFails, ClosingStopped,
            PageClosed
    <2>2. /\ tabs' = tabs /\ victim'[a] = NoTab
          /\ pc'[a] \in {"ready", "fronting", "starting"}
          /\ IF pc[a] = "stopping"
             THEN active' = target[a] /\ (tabs # <<>> => pc'[a] = "fronting")
             ELSE active' = active
      BY <1>0, <2>1 DEF Stopped, Fronted, Started, SetActive, Finish, At, listVars
    <2>3. ASSUME n.tab = c.tab, a \notin moved'
          PROVE  /\ c.tab \in Range(tabs') /\ active' = c.tab
                 /\ tabs # <<>> /\ (pc'[a] = "ready" => ActiveTab = c.tab)
      <3>1. a \notin moved
        BY <1>3, <1>6, <2>3, OwnMoved DEF DriverGoesOn
      <3>2. /\ c.tab \in Range(tabs)
            /\ IF pc[a] = "stopping" THEN target[a] = c.tab ELSE active = c.tab
        BY <1>1, <1>6, <3>1 DEF NamedInv
      <3>3. tabs # <<>>
        BY <1>0, <3>2, EmptyOrNot DEF TypeOK
      <3> QED BY <1>0, <2>2, <3>2, <3>3, ActiveNamed
    <2>4. CASE n = c /\ pc'[a] # "ready"
      BY <1>1, <1>3, <2>2, <2>3, <2>4 DEF NamedInv
    <2>5. CASE pc'[a] = "ready" /\ Keeps(c, n) /\ AtWork(n)
      BY <1>3, <2>3, <2>5 DEF NamedInv, Keeps, AtWork
    <2> QED BY <1>2, <1>4, <2>4, <2>5
  <1> QED BY <1>2, <1>4, <1>5, <1>6

LEMMA NamedOwn ==
    ASSUME CallsInv, NEW a \in Agents, NamedInv(a), AgentStep(a)
    PROVE  NamedInv(a)'
  <1>1. CASE Login(a)
    <2>1. PICK n : Turns(a, n) /\ (Rests(n) \/ (n.tab = NoTab /\ AtWork(n)))
      BY <1>1, LoginGives
    <2>2. call'[a] = n
      BY <2>1 DEF Turns, Put, CallsInv
    <2>3. n.at # "driver" /\ n.tab = NoTab
      BY <2>1, RestingType DEF AtWork
    <2>4. pc' = pc /\ pc[a] = "ready"
      BY <1>1 DEF Login, Comes, NamedInv, castVars, taskVars
    <2> QED BY <2>2, <2>3, <2>4 DEF NamedInv
  <1>2. CASE TabTool(a)
    <2>1. PICK n : Turns(a, n) /\ n.at = "driver" /\ n.tab = NoTab
      BY <1>2, TabToolGives
    <2>2. call'[a] = n
      BY <2>1 DEF Turns, Put, CallsInv
    <2> QED BY <2>1, <2>2 DEF NamedInv
  <1> QED BY <1>1, <1>2, NamedWork, NamedComes, NamedDriver DEF AgentStep, WorkStep

LEMMA NamedOutside ==
    ASSUME CallsInv, NEW a \in Agents, NamedInv(a), CallsNext, ~AgentStep(a)
    PROVE  NamedInv(a)'
  <1>0. TypeOK /\ a \in Tasks /\ call \in [Agents -> States]
    BY DEF CallsInv, Tasks
  <1>c. ASSUME UNCHANGED castVars
        PROVE  pc'[a] = pc[a] /\ target'[a] = target[a] /\ victim'[a] = victim[a]
    BY <1>c DEF castVars, taskVars
  <1>1. ASSUME NEW b \in Agents \ {a}, AgentStep(b) PROVE NamedInv(a)'
    <2>1. Track(b)
      BY <1>1 DEF AgentStep, CallTool, Login, TabTool, DriverGoesOn, Step, Fails, Settled,
                  Loaded, Snapshot, Record, Masked, FindAnswers
    <2>2. call'[a] = call[a]
      <3>1. PICK n : Put(b, n)
        BY <1>1, AgentGives DEF Turns
      <3> QED BY <1>0, <3>1 DEF Put
    <2>3. pc'[a] = pc[a] /\ target'[a] = target[a] /\ victim'[a] = victim[a]
      BY <1>0, <1>1, <1>c, AgentCast, TaskKeepsOthers DEF Tasks
    <2> QED BY <1>1, <2>1, <2>2, <2>3, OthersNamed
  <1>2. ASSUME NEW u, OutsideStep(u), Track(u), call'[a].at = call[a].at,
               call'[a].tab = call[a].tab, call'[a].on = call[a].on
        PROVE  NamedInv(a)'
    <2>1. u # a /\ u \in Tasks
      BY <1>2, TaskAssumption DEF OutsideStep, Tasks
    <2>2. pc'[a] = pc[a] /\ target'[a] = target[a] /\ victim'[a] = victim[a]
      BY <1>0, <1>2, <2>1, TaskKeepsOthers DEF OutsideStep
    <2> QED BY <1>2, <2>1, <2>2, OthersNamed
  <1>3. ASSUME NEW v \in Viewers, ViewerActs(v) \/ ViewerGoesOn(v) PROVE NamedInv(a)'
    <2>1. Track(v) /\ call' = call
      BY <1>3 DEF ViewerActs, ViewerGoesOn
    <2> QED BY <1>2, <1>3, <2>1, OutsideCast
  <1>4. ASSUME NEW v \in Viewers, Control(v) PROVE NamedInv(a)'
    <2>1. Track(v)
      BY <1>4 DEF Control
    <2>2. call'[a].at = call[a].at /\ call'[a].tab = call[a].tab /\ call'[a].on = call[a].on
      BY <1>0, <1>4 DEF Control, States
    <2> QED BY <1>2, <1>4, <2>1, <2>2, OutsideCast
  <1>5. ASSUME SiteStep \/ SiteGoesOn PROVE NamedInv(a)'
    <2>1. Track(Site) /\ call' = call
      BY <1>5 DEF SiteStep, SiteGoesOn
    <2> QED BY <1>2, <1>5, <2>1, OutsideCast
  <1>6. ASSUME NEW t \in Tabs, Commits(t) \/ Told(t) PROVE NamedInv(a)'
    <2>1. active' = active /\ tabs' = tabs /\ pc' = pc /\ victim' = victim /\ target' = target
          /\ call' = call /\ moved' = moved
      BY <1>6 DEF Commits, Told, castVars, listVars, taskVars
    <2> QED BY <2>1 DEF NamedInv
  <1> QED BY <1>1, <1>3, <1>4, <1>5, <1>6 DEF CallsNext

\* That of each agent, always.
AllNamed == \A a \in Agents : NamedInv(a)

LEMMA NamedAlways == CallsSpec => []AllNamed
  <1>1. CallsInit => AllNamed
    BY DEF CallsInit, NamedInv, Idle, Tasks, AllNamed
  <1>2. AllNamed /\ CallsInv /\ [CallsNext]_allVars => AllNamed'
    <2> SUFFICES ASSUME AllNamed, CallsInv, [CallsNext]_allVars, NEW a \in Agents
                 PROVE  NamedInv(a)'
      BY DEF AllNamed
    <2>0. NamedInv(a)
      BY DEF AllNamed
    <2>1. CASE UNCHANGED allVars
      <3>1. active' = active /\ tabs' = tabs /\ pc' = pc /\ victim' = victim /\ target' = target
            /\ call' = call /\ moved' = moved
        BY <2>1 DEF allVars, castVars, listVars, taskVars
      <3> QED BY <2>0, <3>1 DEF NamedInv
    <2> QED BY <2>0, <2>1, NamedOwn, NamedOutside
  <1> QED BY <1>1, <1>2, CallsInvAlways, PTL DEF CallsSpec

\* Unless somebody else switches tabs or closes this one meanwhile, every step of a call
\* is on the tab it names, and that is the tab the person sees.
THEOREM CallsActWhereNamed == CallsSpec => []ActsWhereNamed
  <1>1. AllNamed /\ CallsInv => ActsWhereNamed
    BY ActiveNamed DEF ActsWhereNamed, NamedInv, CallsInv, AllNamed
  <1> QED BY <1>1, CallsInvAlways, NamedAlways, PTL

-----------------------------------------------------------------------------
(* What a call is told.  Its marker is of its ref's document (Marked), and what *)
(* it is compared with is of the tab it names (NamedInv).                       *)

\* Whether the reply of a says what has become of the document of its ref.
Reports(a) ==
    LET c == call[a] IN
    c.at = "settling" /\ call'[a].at # "settling" /\ c.ref # 0 /\ ~c.astray
        => (call'[a].at = "loading" <=> page[c.tab].epoch # c.ref)

\* It is settle that ends the settling of a call.
LEMMA SettlingEnds ==
    ASSUME CallsInv, NEW a \in Agents, NamedInv(a), [CallsNext]_allVars,
           call[a].at = "settling", call'[a].at # "settling"
    PROVE  Settled(a)
  <1>0. call \in [Agents -> States]
    BY DEF CallsInv
  <1>1. ~ (CallTool(a) \/ Login(a) \/ TabTool(a))
    BY DEF CallTool, Login, TabTool, Comes
  <1>2. ~DriverGoesOn(a)
    <2>1. pc[a] = "ready"
      BY DEF NamedInv
    <2> QED BY <2>1 DEF DriverGoesOn, Stopped, Fronted, Started, Opened, OpenFails, ClosingStopped, PageClosed
  <1>3. ~ (Step(a) \/ Fails(a) \/ Loaded(a) \/ Snapshot(a) \/ Record(a) \/ Masked(a) \/ FindAnswers(a))
    BY DEF Step, Fails, Loaded, Snapshot, Record, Masked, FindAnswers
  <1>4. ASSUME NEW b \in Agents \ {a}, AgentStep(b) PROVE call'[a] = call[a]
    <2>1. PICK n : Put(b, n)
      BY <1>4, AgentGives DEF Turns
    <2> QED BY <1>0, <2>1 DEF Put
  <1>5. ASSUME NEW v \in Viewers, Control(v) PROVE call'[a].at = call[a].at
    BY <1>0, <1>5 DEF Control, States
  <1>6. ASSUME NEW v \in Viewers, ViewerActs(v) \/ ViewerGoesOn(v) PROVE call' = call
    BY <1>6 DEF ViewerActs, ViewerGoesOn
  <1>7. ASSUME SiteStep \/ SiteGoesOn \/ (\E t \in Tabs : Commits(t) \/ Told(t))
               \/ UNCHANGED allVars
        PROVE  call' = call
    BY <1>7 DEF SiteStep, SiteGoesOn, Commits, Told, allVars
  <1> QED BY <1>1, <1>2, <1>3, <1>4, <1>5, <1>6, <1>7 DEF CallsNext, AgentStep

LEMMA SettledReports ==
    ASSUME CallsInv, NEW a \in Agents, NamedInv(a), a \notin moved, Settled(a)
    PROVE  Reports(a)
  <1> DEFINE c == call[a]
  <1>1. c \in States /\ Sound(c) /\ call \in [Agents -> States]
    BY DEF CallsInv
  <1>2. c.at = "settling" /\ c.on = c.tab /\ (c.ref # 0 /\ ~c.astray => c.mark = c.ref)
    BY <1>1, PoolAssumption DEF Settled, Sound, Marked, NamedInv
  <1>3. CASE page[c.on].epoch # c.mark /\ Put(a, [c EXCEPT !.at = "loading"])
    <2>1. call'[a].at = "loading"
      BY <1>1, <1>3 DEF Put, States
    <2> QED BY <1>2, <1>3, <2>1 DEF Reports
  <1>4. CASE page[c.on].epoch = c.mark /\ Reply(a, c)
    <2>1. PICK n : Put(a, n) /\ Becomes(c, n)
      BY <1>1, <1>4, ReplyGives
    <2>2. call'[a] = n
      BY <1>1, <2>1 DEF Put
    <2>3. Rests(n) \/ n.at \in {"reading", "settling", "acting"}
      BY <1>1, <1>2, <2>1, BecomesSound DEF CallsInv, Sound
    <2>4. n.at # "loading"
      BY <2>3, RestingType
    <2> QED BY <1>2, <1>4, <2>2, <2>4 DEF Reports
  <1> QED BY <1>2, <1>3, <1>4 DEF Settled

\* For any agents at work side by side: a call that was given a ref replies that the
\* page navigated exactly if the document of the ref has gone, as far as the driver
\* has been told.
THEOREM RepliesTellWhatHappened == CallsSpec => ReportsWhatHappened
  <1>1. AllNamed /\ CallsInv /\ [CallsNext]_allVars
          => [\A a \in Agents \ moved : Reports(a)]_allVars
    <2> SUFFICES ASSUME AllNamed, CallsInv, [CallsNext]_allVars, NEW a \in Agents \ moved
                 PROVE  Reports(a)
      OBVIOUS
    <2>1. NamedInv(a)
      BY DEF AllNamed
    <2>2. CASE call[a].at = "settling" /\ call'[a].at # "settling"
      BY <2>1, <2>2, SettlingEnds, SettledReports
    <2> QED BY <2>2 DEF Reports
  <1> QED BY <1>1, CallsInvAlways, NamedAlways, PTL DEF CallsSpec, ReportsWhatHappened, Reports
=============================================================================
