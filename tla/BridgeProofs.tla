---------------------------- MODULE BridgeProofs ----------------------------
(***************************************************************************)
(* Proofs about Bridge.tla, for any tabs, tasks and disturbances: a tab    *)
(* with a debugger of ours is one that the client can drive, or there is a *)
(* message, a call or a turn on its way that will make it one; each call   *)
(* of the relay is in one place; and to the very end no call is forgotten, *)
(* either end follows the other, and the variables keep their types.       *)
(***************************************************************************)
EXTENDS Bridge, FiniteSetTheorems, SequenceTheorems, TLAPS

-----------------------------------------------------------------------------
(* While both sides are there, each call of the relay is in one place: on its *)
(* way down, in Chrome's hands, or answered; and its task waits for it.       *)

Live == alive /\ client # "gone"

In(k) == \E i \in DOMAIN ready : ready[i] = k
Waits(k) ==
    k \in Tasks /\ task[k].step \notin {"idle", "cancelled", "start"} /\ ~In(k)

Types ==
    /\ LinkTypeOK /\ ~closed
    /\ task \in [Tasks -> TaskStates] /\ ready \in Seq(Tasks)
    /\ running \subseteq Commands /\ IsFiniteSet(running) /\ IsFiniteSet(known)
    /\ \A i \in DOMAIN up : up[i].kind # "bye"

\* Runnable tasks are at something and have one turn each.
ReadyOK ==
    /\ \A i \in DOMAIN ready : task[ready[i]].step \notin {"idle", "cancelled"}
    /\ \A i, j \in DOMAIN ready : ready[i] = ready[j] => i = j

Asks(c) == Waits(c.task) /\ task[c.task].step = c.kind
Reply(i) == i \in DOMAIN up /\ up[i].kind = "answer"

DownInv ==
    /\ \A i \in DOMAIN down : Asks(down[i])
    /\ \A i, j \in DOMAIN down : down[i].task = down[j].task => i = j
RunInv ==
    /\ \A c \in running : Asks(c)
    /\ \A c, d \in running : c.task = d.task => c = d
    /\ \A c \in running : \A i \in DOMAIN down : c.task # down[i].task
UpInv ==
    /\ \A i : Reply(i) => Waits(up[i].task)
    /\ \A i, j : Reply(i) /\ Reply(j) /\ up[i].task = up[j].task => i = j
    /\ \A i : Reply(i) => /\ \A c \in running : c.task # up[i].task
                          /\ \A j \in DOMAIN down : down[j].task # up[i].task

\* A tab that is attached is offered, and one that is being attached is offered and
\* has no debugger yet.
TabInv ==
    /\ attached \subseteq offered /\ offered \subseteq Tabs
    /\ \A c \in running : c.kind = "attach" => c.tab \in offered \ attached

\* What is to be attached is a tab: an announced one, or one that was created.
NamedTask(k) ==
    /\ task[k].step = "start" /\ task[k].goal \in {"spawned", "attach"} => task[k].tab \in Tabs
    /\ task[k].step = "create" /\ In(k) /\ task[k].ok => task[k].tab \in Tabs
NameInv ==
    /\ known \subseteq Tabs
    /\ \A i \in DOMAIN up : up[i].kind = "created" => up[i].tab \in Tabs
    /\ \A i : Reply(i) /\ up[i].ok /\ task[up[i].task].step = "create" => up[i].tab \in Tabs
    /\ \A i \in DOMAIN down : down[i].kind = "attach" => down[i].tab \in Tabs
    /\ \A k \in Tasks : NamedTask(k)

-----------------------------------------------------------------------------
(* How the client comes to know of an attached tab. *)

\* The message m takes the tab t from the client.
Takes(m, t) == m.kind \in {"removed", "detached"} /\ m.tab = t
KeptAfter(n, t) == \A i \in DOMAIN up : i > n => ~Takes(up[i], t)

Attaching(k) == k \in Tasks /\ task[k].step \in {"attach", "info"}
Answered(k, t) ==
    \E i \in DOMAIN up : up[i] = Answer(k, t, TRUE) /\ KeptAfter(i, t) /\ Attaching(k)
Runnable(k, t) == Attaching(k) /\ In(k) /\ task[k].ok /\ task[k].tab = t /\ KeptAfter(0, t)
Asking(k, t) ==
    /\ Attaching(k) /\ KeptAfter(0, t)
    /\ Command("info", k, t) \in running \/ \E i \in DOMAIN down : down[i] = Command("info", k, t)

Told(t) == t \in session /\ KeptAfter(0, t)
Telling(k, t) == Answered(k, t) \/ Runnable(k, t) \/ Asking(k, t)

TellInv == \A t \in attached : Told(t) \/ \E k \in Tasks : Telling(k, t)

Good == Types /\ ReadyOK /\ DownInv /\ RunInv /\ UpInv /\ TabInv /\ NameInv /\ TellInv
Inv == Live => Good

-----------------------------------------------------------------------------
(* What the extension sends in one step: at most one answer to each call that *)
(* is over, and events.                                                        *)

Replies(R, msgs) ==
    /\ msgs \in Seq(UpMessages)
    /\ \A i \in DOMAIN msgs : msgs[i].kind # "bye"
    /\ \A i \in DOMAIN msgs : msgs[i].kind = "created" => msgs[i].tab \in Tabs
    /\ \A i \in DOMAIN msgs : msgs[i].kind = "answer" =>
         \E c \in R : /\ c.task = msgs[i].task
                      /\ c.kind = "create" /\ msgs[i].ok => msgs[i].tab \in Tabs
    /\ \A i, j \in DOMAIN msgs : /\ msgs[i].kind = "answer" /\ msgs[j].kind = "answer"
                                 /\ msgs[i].task = msgs[j].task
                                 => i = j
Spares(msgs, t) == \A i \in DOMAIN msgs : ~Takes(msgs[i], t)

LEMMA SetToSeqOf ==
    ASSUME NEW S, IsFiniteSet(S)
    PROVE  /\ SetToSeq(S) \in Seq(S)
           /\ \A i, j \in DOMAIN SetToSeq(S) : SetToSeq(S)[i] = SetToSeq(S)[j] => i = j
  <1>1. PICK n \in Nat : n = Cardinality(S) /\ ExistsBijection(1..n, S)
    BY FS_CardinalityType
  <1>2. PICK f \in Bijection(1..n, S) : TRUE
    BY <1>1 DEF ExistsBijection
  <1>3. f \in [1..n -> S] /\ IsInjective(f)
    BY <1>2 DEF Bijection, Injection, IsInjective
  <1>4. SetToSeq(S) = CHOOSE g \in [1..n -> S] : IsInjective(g)
    BY <1>1 DEF SetToSeq
  <1>5. SetToSeq(S) \in [1..n -> S] /\ IsInjective(SetToSeq(S))
    BY <1>3, <1>4
  <1> DEFINE q == SetToSeq(S)
  <1> HIDE DEF q
  <1>6. q \in [1..n -> S] /\ IsInjective(q)
    BY <1>5 DEF q
  <1>7. q \in Seq(S) /\ DOMAIN q = 1..n
    BY <1>6
  <1> QED BY <1>6, <1>7 DEF q, IsInjective

LEMMA RepliesJoin ==
    ASSUME NEW R1, NEW R2, NEW m1, NEW m2, Replies(R1, m1), Replies(R2, m2),
           \A c \in R1 : \A d \in R2 : c.task # d.task
    PROVE  Replies(R1 \cup R2, m1 \o m2)
  <1>1. m1 \in Seq(UpMessages) /\ m2 \in Seq(UpMessages)
    BY DEF Replies
  <1>2. m1 \o m2 \in Seq(UpMessages)
    BY <1>1
  <1> DEFINE m == m1 \o m2
  <1>3. /\ DOMAIN m = 1..(Len(m1) + Len(m2))
        /\ \A i \in DOMAIN m : m[i] = IF i <= Len(m1) THEN m1[i] ELSE m2[i - Len(m1)]
    BY <1>1
  <1>4. /\ DOMAIN m1 = 1..Len(m1) /\ Len(m1) \in Nat
        /\ DOMAIN m2 = 1..Len(m2) /\ Len(m2) \in Nat
    BY <1>1
  <1> HIDE DEF m
  <1>5. \A i \in DOMAIN m : /\ i <= Len(m1) => i \in DOMAIN m1
                            /\ i > Len(m1) => i - Len(m1) \in DOMAIN m2
    BY <1>3, <1>4
  <1>6. \A i \in DOMAIN m : m[i].kind # "bye" /\ (m[i].kind = "created" => m[i].tab \in Tabs)
    BY <1>3, <1>4, <1>5 DEF Replies
  <1>7. \A i \in DOMAIN m : m[i].kind = "answer" =>
          \E c \in R1 \cup R2 : /\ c.task = m[i].task
                               /\ c.kind = "create" /\ m[i].ok => m[i].tab \in Tabs
    BY <1>3, <1>4, <1>5 DEF Replies
  <1>8. ASSUME NEW i \in DOMAIN m, NEW j \in DOMAIN m, m[i].kind = "answer",
               m[j].kind = "answer", m[i].task = m[j].task
        PROVE  i = j
    <2>1. i \in Nat /\ j \in Nat
      BY <1>3, <1>4
    <2>2. CASE i <= Len(m1) /\ j <= Len(m1)
      BY <1>3, <1>5, <1>8, <2>2 DEF Replies
    <2>3. CASE i > Len(m1) /\ j > Len(m1)
      <3>1. i - Len(m1) = j - Len(m1)
        BY <1>3, <1>4, <1>5, <1>8, <2>1, <2>3 DEF Replies
      <3> QED BY <1>4, <2>1, <3>1
    <2>4. CASE i <= Len(m1) /\ j > Len(m1)
      BY <1>3, <1>4, <1>5, <1>8, <2>1, <2>4 DEF Replies
    <2>5. CASE i > Len(m1) /\ j <= Len(m1)
      BY <1>3, <1>4, <1>5, <1>8, <2>1, <2>5 DEF Replies
    <2> QED BY <1>4, <2>1, <2>2, <2>3, <2>4, <2>5
  <1> QED BY <1>2, <1>6, <1>7, <1>8 DEF m, Replies

LEMMA JoinOf ==
    ASSUME NEW m1, NEW m2, m1 \in Seq(UpMessages), m2 \in Seq(UpMessages)
    PROVE  /\ DOMAIN (m1 \o m2) = 1..(Len(m1) + Len(m2))
           /\ \A i \in DOMAIN (m1 \o m2) :
                (m1 \o m2)[i] = IF i <= Len(m1) THEN m1[i] ELSE m2[i - Len(m1)]
           /\ DOMAIN m1 = 1..Len(m1) /\ Len(m1) \in Nat
           /\ DOMAIN m2 = 1..Len(m2) /\ Len(m2) \in Nat
  OBVIOUS

LEMMA FirstOfJoin ==
    ASSUME NEW m1, NEW m2, m1 \in Seq(UpMessages), m2 \in Seq(UpMessages), Len(m1) = 1
    PROVE  1 \in DOMAIN (m1 \o m2) /\ (m1 \o m2)[1] = m1[1]
  <1> DEFINE m == m1 \o m2
  <1>1. /\ DOMAIN m = 1..(1 + Len(m2)) /\ Len(m2) \in Nat
        /\ \A i \in DOMAIN m : m[i] = IF i <= 1 THEN m1[i] ELSE m2[i - 1]
    BY JoinOf
  <1> HIDE DEF m
  <1>2. 1 \in DOMAIN m
    BY <1>1
  <1>3. m[1] = m1[1]
    BY <1>1, <1>2
  <1> QED BY <1>2, <1>3 DEF m

LEMMA SparesJoin ==
    ASSUME NEW m1, NEW m2, m1 \in Seq(UpMessages), m2 \in Seq(UpMessages), NEW t,
           Spares(m1, t), Spares(m2, t)
    PROVE  Spares(m1 \o m2, t)
  <1> DEFINE m == m1 \o m2
  <1>3. /\ DOMAIN m = 1..(Len(m1) + Len(m2))
        /\ \A i \in DOMAIN m : m[i] = IF i <= Len(m1) THEN m1[i] ELSE m2[i - Len(m1)]
        /\ DOMAIN m1 = 1..Len(m1) /\ Len(m1) \in Nat
        /\ DOMAIN m2 = 1..Len(m2) /\ Len(m2) \in Nat
    OBVIOUS
  <1> HIDE DEF m
  <1>5. \A i \in DOMAIN m : /\ i <= Len(m1) => i \in DOMAIN m1
                            /\ i > Len(m1) => i - Len(m1) \in DOMAIN m2
    BY <1>3
  <1>6. \A i \in DOMAIN m : ~Takes(m[i], t)
    BY <1>3, <1>5 DEF Spares
  <1> QED BY <1>6 DEF Spares, m

\* One answer, or one event.
LEMMA OneReply ==
    ASSUME NEW c, c.task \in Tasks, NEW t \in Tabs \cup {NoTab}, NEW ok \in BOOLEAN,
           c.kind = "create" /\ ok => t \in Tabs
    PROVE  /\ Replies({c}, <<Answer(c.task, t, ok)>>)
           /\ \A u : Spares(<<Answer(c.task, t, ok)>>, u)
  <1> DEFINE a == Answer(c.task, t, ok)
  <1>1. a \in UpMessages /\ a.kind = "answer" /\ a.task = c.task /\ a.ok = ok /\ a.tab = t
    BY DEF Answer, UpMessages
  <1> HIDE DEF a
  <1>2. <<a>> \in Seq(UpMessages) /\ DOMAIN <<a>> = {1} /\ <<a>>[1] = a
    BY <1>1
  <1>3. Replies({c}, <<a>>) /\ \A u : Spares(<<a>>, u)
    BY <1>1, <1>2 DEF Replies, Spares, Takes
  <1> QED BY <1>3 DEF a

LEMMA OneEvent ==
    ASSUME NEW kind \in {"created", "removed", "detached"}, NEW t \in Tabs
    PROVE  /\ Replies({}, <<Event(kind, t)>>)
           /\ \A u : u # t \/ kind = "created" => Spares(<<Event(kind, t)>>, u)
  <1> DEFINE a == Event(kind, t)
  <1>1. a \in UpMessages /\ a.kind = kind /\ a.tab = t
    BY DEF Event, UpMessages
  <1> HIDE DEF a
  <1>2. <<a>> \in Seq(UpMessages) /\ DOMAIN <<a>> = {1} /\ <<a>>[1] = a
    BY <1>1
  <1>3. Replies({}, <<a>>) /\ \A u : u # t \/ kind = "created" => Spares(<<a>>, u)
    BY <1>1, <1>2 DEF Replies, Spares, Takes
  <1> QED BY <1>3 DEF a

LEMMA NoReply == Replies({}, <<>>) /\ \A u : Spares(<<>>, u)
  <1>1. <<>> \in Seq(UpMessages) /\ DOMAIN <<>> = {}
    OBVIOUS
  <1> QED BY <1>1 DEF Replies, Spares

\* Calls that are refused are refused once each.
LEMMA RefusalsReply ==
    ASSUME NEW S, S \subseteq Commands, IsFiniteSet(S), \A c \in S : c.task \in Tasks,
           \A c, d \in S : c.task = d.task => c = d
    PROVE  Replies(S, Refusals(S)) /\ \A u : Spares(Refusals(S), u)
  <1> DEFINE T == {Answer(c.task, c.tab, FALSE) : c \in S}
             f == [c \in S |-> Answer(c.task, c.tab, FALSE)]
             q == SetToSeq(T)
  <1>1. f \in Surjection(S, T)
    BY DEF Surjection
  <1>2. IsFiniteSet(T)
    BY <1>1, FS_Surjection
  <1>3. ASSUME NEW c \in S
        PROVE  LET m == Answer(c.task, c.tab, FALSE) IN
               m \in UpMessages /\ m.kind = "answer" /\ m.task = c.task /\ ~m.ok
    BY DEF Answer, UpMessages, Commands
  <1>4. \A m \in T : /\ m \in UpMessages /\ m.kind = "answer" /\ ~m.ok
                     /\ \E c \in S : m = Answer(c.task, c.tab, FALSE) /\ c.task = m.task
    BY <1>3
  <1> HIDE DEF T
  <1>5. q \in Seq(T) /\ \A i, j \in DOMAIN q : q[i] = q[j] => i = j
    BY <1>2, SetToSeqOf
  <1> HIDE DEF q
  <1>6. DOMAIN q = 1..Len(q) /\ \A i \in DOMAIN q : q[i] \in T
    BY <1>5
  <1>7. q \in Seq(UpMessages)
    <2>1. \A i \in 1..Len(q) : q[i] \in UpMessages
      BY <1>4, <1>6
    <2> QED BY <1>5, <2>1
  <1>8. ASSUME NEW i \in DOMAIN q, NEW j \in DOMAIN q, q[i].task = q[j].task PROVE i = j
    <2>1. PICK c \in S : q[i] = Answer(c.task, c.tab, FALSE) /\ c.task = q[i].task
      BY <1>4, <1>6
    <2>2. PICK d \in S : q[j] = Answer(d.task, d.tab, FALSE) /\ d.task = q[j].task
      BY <1>4, <1>6
    <2>3. q[i] = q[j]
      BY <1>8, <2>1, <2>2
    <2> QED BY <1>5, <2>3
  <1>9. Replies(S, q)
    BY <1>4, <1>6, <1>7, <1>8 DEF Replies
  <1>10. \A u : Spares(q, u)
    BY <1>4, <1>6 DEF Spares, Takes
  <1> QED BY <1>9, <1>10 DEF q, T, Refusals

-----------------------------------------------------------------------------
(* Steps of the extension *)

\* The relay's end of the link is as it was.
Still == UNCHANGED <<closed, known, session, client, task, ready>>

LEMMA StillWaits == Still => \A k : Waits(k)' <=> Waits(k)
  BY DEF Still, Waits, In

\* The messages after those there are.
LEMMA Appended ==
    ASSUME up \in Seq(UpMessages), NEW msgs \in Seq(UpMessages), up' = up \o msgs
    PROVE  /\ up' \in Seq(UpMessages)
           /\ DOMAIN up \subseteq DOMAIN up' /\ \A i \in DOMAIN up : up'[i] = up[i]
           /\ \A i \in DOMAIN up' \ DOMAIN up :
                /\ i - Len(up) \in DOMAIN msgs /\ up'[i] = msgs[i - Len(up)]
                /\ i > Len(up)
           /\ \A i \in DOMAIN msgs : i + Len(up) \in DOMAIN up' /\ up'[i + Len(up)] = msgs[i]
           /\ DOMAIN up = 1..Len(up) /\ Len(up) \in Nat /\ DOMAIN msgs = 1..Len(msgs)
           /\ DOMAIN up' \subseteq Nat
  OBVIOUS

\* The calls R are over with this step; the others stay where they are.
Over(R) ==
    /\ R \subseteq Commands
    /\ \A c \in R : Asks(c) /\ \A i : Reply(i) => up[i].task # c.task
    /\ \A c \in R : /\ \A d \in running' : d.task # c.task
                   /\ \A i \in DOMAIN down' : down'[i].task # c.task
    /\ running' \subseteq running /\ running \ running' \subseteq R
    /\ \A i \in DOMAIN down' : \E j \in DOMAIN down : down'[i] = down[j]
    /\ \A j \in DOMAIN down : down[j] \in R \/ \E i \in DOMAIN down' : down'[i] = down[j]

LEMMA RunningOver ==
    ASSUME Types, DownInv, RunInv, UpInv, Still, down' = down,
           NEW R \in SUBSET running, running' = running \ R
    PROVE  Over(R) /\ DownInv' /\ RunInv'
  <1>1. \A c : Asks(c)' <=> Asks(c)
    BY StillWaits DEF Asks, Still
  <1>2. DownInv' /\ RunInv'
    BY <1>1 DEF DownInv, RunInv
  <1>3. \A c \in R : Asks(c) /\ \A i : Reply(i) => up[i].task # c.task
    BY DEF RunInv, UpInv
  <1>4. \A c \in R : /\ \A d \in running' : d.task # c.task
                   /\ \A i \in DOMAIN down' : down'[i].task # c.task
    BY DEF RunInv
  <1> QED BY <1>2, <1>3, <1>4 DEF Over, Types

\* Calls that are over are answered, or die with their debugger.
LEMMA ExtReplies ==
    ASSUME Types, UpInv, Still, down' \in Seq(Commands),
           NEW R \in SUBSET Commands, Over(R), NEW msgs, Replies(R, msgs), up' = up \o msgs
    PROVE  Types' /\ UpInv'
  <1>0. msgs \in Seq(UpMessages) /\ up \in Seq(UpMessages)
    BY DEF Replies, Types, LinkTypeOK
  <1>1. /\ up' \in Seq(UpMessages)
        /\ DOMAIN up \subseteq DOMAIN up' /\ \A i \in DOMAIN up : up'[i] = up[i]
        /\ \A i \in DOMAIN up' \ DOMAIN up :
                /\ i - Len(up) \in DOMAIN msgs /\ up'[i] = msgs[i - Len(up)]
    BY <1>0, Appended
  <1>2. Types'
    <2>1. \A i \in DOMAIN up' : up'[i].kind # "bye"
      BY <1>1 DEF Types, Replies
    <2>2. running' \subseteq Commands /\ IsFiniteSet(running')
      BY FS_Subset DEF Types, Over
    <2> QED BY <1>1, <2>1, <2>2 DEF Types, LinkTypeOK, Still
  <1>o. /\ \A c \in R : \A i : Reply(i) => up[i].task # c.task
        /\ \A c \in R : \A d \in running' : d.task # c.task
        /\ \A c \in R : \A i \in DOMAIN down' : down'[i].task # c.task
    BY DEF Over
  <1>p. /\ running' \subseteq running
        /\ \A i \in DOMAIN down' : \E j \in DOMAIN down : down'[i] = down[j]
    BY DEF Over
  <1> DEFINE Old(i) == i \in DOMAIN up
             New(i) == i \in DOMAIN up' \ DOMAIN up
  <1>5. \A i : Old(i) /\ Reply(i)' => Reply(i) /\ up'[i] = up[i]
    BY <1>1 DEF Reply
  <1>6. \A i : New(i) /\ Reply(i)' => \E c \in R : c.task = up'[i].task
    BY <1>1 DEF Reply, Replies
  <1>7. \A i : Reply(i)' => Old(i) \/ New(i)
    BY DEF Reply
  <1>8. \A i, j : New(i) /\ New(j) /\ Reply(i)' /\ Reply(j)' /\ up'[i].task = up'[j].task => i = j
    <2> SUFFICES ASSUME NEW i, NEW j, New(i), New(j), Reply(i)', Reply(j)',
                        up'[i].task = up'[j].task
                 PROVE  i = j
      OBVIOUS
    <2>1. i - Len(up) = j - Len(up)
      BY <1>1 DEF Reply, Replies
    <2> QED BY <1>0, <1>1, <2>1, Appended
  <1> HIDE DEF Old, New
  <1>9. \A i : Reply(i)' => Waits(up'[i].task)
    BY <1>5, <1>6, <1>7 DEF UpInv, Over, Asks
  <1>10. \A i, j : Reply(i)' /\ Reply(j)' /\ up'[i].task = up'[j].task => i = j
    <2> SUFFICES ASSUME NEW i, NEW j, Reply(i)', Reply(j)', up'[i].task = up'[j].task
                 PROVE  i = j
      OBVIOUS
    <2>1. CASE Old(i) /\ Old(j)
      BY <1>5, <2>1 DEF UpInv
    <2>2. CASE Old(i) /\ New(j)
      <3>1. PICK c \in R : c.task = up'[j].task
        BY <1>6, <2>2
      <3>2. Reply(i) /\ up'[i] = up[i]
        BY <1>5, <2>2
      <3> QED BY <1>o, <3>1, <3>2
    <2>3. CASE New(i) /\ Old(j)
      <3>1. PICK c \in R : c.task = up'[i].task
        BY <1>6, <2>3
      <3>2. Reply(j) /\ up'[j] = up[j]
        BY <1>5, <2>3
      <3> QED BY <1>o, <3>1, <3>2
    <2>4. CASE New(i) /\ New(j)
      BY <1>8, <2>4
    <2> QED BY <1>7, <2>1, <2>2, <2>3, <2>4
  <1>11. ASSUME NEW i, Reply(i)'
         PROVE  /\ \A c \in running' : c.task # up'[i].task
                /\ \A j \in DOMAIN down' : down'[j].task # up'[i].task
    <2>1. CASE Old(i)
      <3>1. Reply(i) /\ up'[i] = up[i]
        BY <1>5, <1>11, <2>1
      <3>2. /\ \A c \in running : c.task # up[i].task
            /\ \A j \in DOMAIN down : down[j].task # up[i].task
        BY <3>1 DEF UpInv
      <3>3. \A c \in running' : c.task # up[i].task
        BY <1>p, <3>2
      <3>4. \A j \in DOMAIN down' : down'[j].task # up[i].task
        BY <1>p, <3>2
      <3> QED BY <3>1, <3>3, <3>4
    <2>2. CASE New(i)
      <3>1. PICK c \in R : c.task = up'[i].task
        BY <1>6, <1>11, <2>2
      <3> QED BY <1>o, <3>1
    <2> QED BY <1>7, <1>11, <2>1, <2>2
  <1>12. UpInv'
    BY <1>9, <1>10, <1>11, StillWaits DEF UpInv
  <1> QED BY <1>2, <1>12

LEMMA ExtNames ==
    ASSUME Types, NameInv, Still, NEW R \in SUBSET Commands, Over(R), NEW msgs, Replies(R, msgs), up' = up \o msgs
    PROVE  NameInv'
  <1>0. msgs \in Seq(UpMessages) /\ up \in Seq(UpMessages)
    BY DEF Replies, Types, LinkTypeOK
  <1>1. /\ DOMAIN up \subseteq DOMAIN up' /\ \A i \in DOMAIN up : up'[i] = up[i]
        /\ \A i \in DOMAIN up' \ DOMAIN up :
                /\ i - Len(up) \in DOMAIN msgs /\ up'[i] = msgs[i - Len(up)]
    BY <1>0, Appended
  <1>2. \A k : In(k)' <=> In(k)
    BY DEF In, Still
  <1>3. \A i \in DOMAIN up' : up'[i].kind = "created" => up'[i].tab \in Tabs
    BY <1>1 DEF NameInv, Replies
  <1>4. ASSUME NEW i, Reply(i)', up'[i].ok, task[up'[i].task].step = "create"
        PROVE  up'[i].tab \in Tabs
    <2>1. CASE i \in DOMAIN up
      BY <1>1, <1>4, <2>1 DEF NameInv, Reply
    <2>2. CASE i \notin DOMAIN up
      <3>1. PICK c \in R : /\ c.task = up'[i].task
                           /\ c.kind = "create" /\ up'[i].ok => up'[i].tab \in Tabs
        BY <1>1, <1>4, <2>2 DEF Reply, Replies
      <3> QED BY <1>4, <3>1, ZenonT(40) DEF Over, Asks
    <2> QED BY <2>1, <2>2
  <1>5. \A i \in DOMAIN down' : down'[i].kind = "attach" => down'[i].tab \in Tabs
    BY DEF NameInv, Over
  <1>6. \A k : NamedTask(k)' <=> NamedTask(k)
    BY <1>2 DEF NamedTask, Still
  <1> QED BY <1>3, <1>4, <1>5, <1>6 DEF NameInv, Still

\* Whoever was told or is being told of a tab still is: no tab that keeps its debugger
\* is taken back, and what asks about it is answered.
LEMMA ExtTells ==
    ASSUME Types, TellInv, Still, NEW R \in SUBSET Commands, Over(R), NEW msgs, Replies(R, msgs),
           up' = up \o msgs,
           \A t \in attached' : Spares(msgs, t),
           \A t \in attached' \ attached :
               \E c \in R : c.kind = "attach" /\ \E i \in DOMAIN msgs : msgs[i] = Answer(c.task, t, TRUE),
           \A c \in R : c.kind = "info" /\ c.tab \in attached'
               => \E i \in DOMAIN msgs : msgs[i] = Answer(c.task, c.tab, TRUE)
    PROVE  TellInv'
  <1>0. msgs \in Seq(UpMessages) /\ up \in Seq(UpMessages)
    BY DEF Replies, Types, LinkTypeOK
  <1>1. /\ up' \in Seq(UpMessages)
        /\ DOMAIN up \subseteq DOMAIN up' /\ \A i \in DOMAIN up : up'[i] = up[i]
        /\ \A i \in DOMAIN up' \ DOMAIN up :
                /\ i - Len(up) \in DOMAIN msgs /\ up'[i] = msgs[i - Len(up)]
        /\ \A i \in DOMAIN msgs : i + Len(up) \in DOMAIN up' /\ up'[i + Len(up)] = msgs[i]
        /\ DOMAIN up = 1..Len(up) /\ Len(up) \in Nat /\ DOMAIN msgs = 1..Len(msgs)
        /\ DOMAIN up' \subseteq Nat
    BY <1>0, Appended
  <1>2. \A t \in attached' : \A n : KeptAfter(n, t) => KeptAfter(n, t)'
    BY <1>1 DEF KeptAfter, Spares
  <1>3. ASSUME NEW t \in attached', NEW i \in DOMAIN msgs, NEW n, n = i + Len(up)
        PROVE  KeptAfter(n, t)'
    <2> SUFFICES ASSUME NEW j \in DOMAIN up', j > n
                 PROVE  ~Takes(up'[j], t)
      BY DEF KeptAfter
    <2>1. j \notin DOMAIN up
      BY <1>1, <1>3
    <2> QED BY <1>1, <1>3, <2>1 DEF Spares
  <1>4. \A k : (Attaching(k)' <=> Attaching(k)) /\ (In(k)' <=> In(k))
    BY DEF Attaching, Still, In
  <1>5. ASSUME NEW t \in attached', NEW c \in R, c.kind \in {"attach", "info"},
               NEW i \in DOMAIN msgs, msgs[i] = Answer(c.task, t, TRUE)
        PROVE  \E k \in Tasks : Telling(k, t)'
    <2>1. c.task \in Tasks /\ Attaching(c.task)
      BY <1>5 DEF Over, Asks, Waits, Attaching
    <2>2. PICK n : /\ n = i + Len(up) /\ n \in DOMAIN up'
                   /\ up'[n] = Answer(c.task, t, TRUE)
      BY <1>1, <1>5
    <2>3. KeptAfter(n, t)' /\ Attaching(c.task)'
      BY <1>3, <1>4, <1>5, <2>1, <2>2
    <2>4. Answered(c.task, t)'
      BY <2>2, <2>3 DEF Answered, Answer
    <2> QED BY <2>1, <2>4 DEF Telling
  <1>6. ASSUME NEW t \in attached' \cap attached PROVE Told(t)' \/ \E k \in Tasks : Telling(k, t)'
    <2>1. CASE Told(t)
      BY <1>2, <2>1 DEF Told, Still
    <2>2. CASE ~Told(t)
      <3>1. PICK k \in Tasks : Telling(k, t)
        BY <2>2 DEF TellInv
      <3>2. CASE Answered(k, t)
        <4>1. Answered(k, t)'
          BY <1>1, <1>2, <1>4, <3>2 DEF Answered, Answer
        <4> QED BY <4>1 DEF Telling
      <3>3. CASE Runnable(k, t)
        <4>1. Runnable(k, t)'
          BY <1>2, <1>4, <3>3 DEF Runnable, Still
        <4> QED BY <4>1 DEF Telling
      <3>4. CASE Asking(k, t) /\ Command("info", k, t) \in R
        <4> DEFINE c == Command("info", k, t)
        <4>1. c.kind = "info" /\ c.tab = t
          BY DEF Command
        <4> QED BY <1>5, <3>4, <4>1
      <3>5. CASE Asking(k, t) /\ Command("info", k, t) \notin R
        <4> DEFINE c == Command("info", k, t)
        <4>1. c \in running' \/ \E i \in DOMAIN down' : down'[i] = c
          BY <3>5 DEF Over, Asking
        <4>2. Asking(k, t)'
          BY <1>2, <1>4, <3>5, <4>1 DEF Asking, Command
        <4> QED BY <4>2 DEF Telling
      <3> QED BY <3>1, <3>2, <3>3, <3>4, <3>5 DEF Telling
    <2> QED BY <2>1, <2>2
  <1>7. ASSUME NEW t \in attached' \ attached PROVE \E k \in Tasks : Telling(k, t)'
    BY <1>5, <1>7
  <1> QED BY <1>6, <1>7 DEF TellInv

LEMMA ExtGood ==
    ASSUME Good, TabInv', DownInv', RunInv', Still, down' \in Seq(Commands),
           NEW R \in SUBSET Commands, Over(R), NEW msgs, Replies(R, msgs), up' = up \o msgs,
           \A t \in attached' : Spares(msgs, t),
           \A t \in attached' \ attached :
               \E c \in R : c.kind = "attach" /\ \E i \in DOMAIN msgs : msgs[i] = Answer(c.task, t, TRUE),
           \A c \in R : c.kind = "info" /\ c.tab \in attached'
               => \E i \in DOMAIN msgs : msgs[i] = Answer(c.task, c.tab, TRUE)
    PROVE  Good'
  <1>1. Types' /\ UpInv'
    BY ExtReplies DEF Good
  <1>2. TellInv'
    <2>1. Types /\ TellInv
      BY DEF Good
    <2> QED BY <2>1, ExtTells
  <1>3. ReadyOK' /\ NameInv'
    BY ExtNames DEF Good, ReadyOK, Still
  <1> QED BY <1>1, <1>2, <1>3 DEF Good

\* Calls that Chrome had are over.
LEMMA ExtReturns ==
    ASSUME Good, TabInv', Still, down' = down,
           NEW R \in SUBSET running, NEW msgs, Replies(R, msgs),
           up' = up \o msgs, running' = running \ R,
           \A t \in attached' : Spares(msgs, t),
           \A t \in attached' \ attached :
               \E c \in R : c.kind = "attach" /\ \E i \in DOMAIN msgs : msgs[i] = Answer(c.task, t, TRUE),
           \A c \in R : c.kind = "info" /\ c.tab \in attached'
               => \E i \in DOMAIN msgs : msgs[i] = Answer(c.task, c.tab, TRUE)
    PROVE  Good'
  <1>1. Over(R) /\ DownInv' /\ RunInv'
    BY RunningOver DEF Good
  <1>2. down' \in Seq(Commands) /\ R \in SUBSET Commands
    BY DEF Good, Types, LinkTypeOK
  <1> QED BY <1>1, <1>2, ExtGood

\* A call is answered.
LEMMA ExtAnswers ==
    ASSUME Good, Still, NEW c \in running, NEW t \in Tabs \cup {NoTab}, NEW ok \in BOOLEAN,
           up' = up \o <<Answer(c.task, t, ok)>>, running' = running \ {c}, down' = down,
           attached' = attached, offered \subseteq offered', offered' \subseteq Tabs,
           c.kind = "create" /\ ok => t \in Tabs, c.kind = "info" => ok = TRUE /\ t = c.tab
    PROVE  Good'
  <1> DEFINE msgs == <<Answer(c.task, t, ok)>>
  <1>1. c.task \in Tasks
    BY DEF Good, RunInv, Asks, Waits
  <1>2. Replies({c}, msgs) /\ \A u : Spares(msgs, u)
    BY <1>1, OneReply
  <1>3. 1 \in DOMAIN msgs /\ msgs[1] = Answer(c.task, t, ok)
    OBVIOUS
  <1>4. TabInv'
    BY DEF Good, TabInv
  <1>5. up' = up \o msgs
    OBVIOUS
  <1> DEFINE R == {c}
  <1>6. R \in SUBSET running /\ running' = running \ R /\ Replies(R, msgs)
    BY <1>2
  <1>7. \A b \in R : b.kind = "info" /\ b.tab \in attached'
           => \E i \in DOMAIN msgs : msgs[i] = Answer(b.task, b.tab, TRUE)
    BY <1>3
  <1> HIDE DEF R, msgs
  <1> QED BY <1>2, <1>4, <1>5, <1>6, <1>7, ExtReturns

\* Nothing is said, or a tab is announced.
LEMMA ExtAnnounces ==
    ASSUME Good, Still, running' = running, down' = down, attached' = attached,
           offered \subseteq offered', offered' \subseteq Tabs,
           up' = up \/ \E t \in Tabs : up' = up \o <<Event("created", t)>>
    PROVE  Good'
  <1>1. TabInv'
    BY DEF Good, TabInv
  <1>2. up \in Seq(UpMessages)
    BY DEF Good, Types, LinkTypeOK
  <1>3. \E msgs : up' = up \o msgs /\ Replies({}, msgs) /\ \A u : Spares(msgs, u)
    <2>1. CASE up' = up
      <3>1. up' = up \o <<>>
        BY <1>2, <2>1
      <3> QED BY <3>1, NoReply
    <2>2. CASE \E t \in Tabs : up' = up \o <<Event("created", t)>>
      BY <2>2, OneEvent
    <2> QED BY <2>1, <2>2
  <1>4. PICK msgs : up' = up \o msgs /\ Replies({}, msgs) /\ \A u : Spares(msgs, u)
    BY <1>3
  <1> DEFINE R == {}
  <1>5. /\ R \in SUBSET running /\ running' = running \ R
        /\ \A c \in R : c.kind = "info" /\ c.tab \in attached'
             => \E i \in DOMAIN msgs : msgs[i] = Answer(c.task, c.tab, TRUE)
    OBVIOUS
  <1>6. Replies(R, msgs)
    BY <1>4
  <1> HIDE DEF R
  <1> QED BY <1>1, <1>4, <1>5, <1>6, ExtReturns

\* A debugger goes, and what it was asked is refused.
LEMMA ExtDrops ==
    ASSUME Good, Still, down' = down, NEW t \in attached, attached' = attached \ {t},
           offered' = offered \/ offered' = offered \ {t},
           NEW msgs, up' = up \o msgs, Replies(Asked({t}), msgs), \A u : u # t => Spares(msgs, u),
           running' = running \ Asked(Tabs \ attached')
    PROVE  Good'
  <1> DEFINE R == Asked(Tabs \ attached')
  <1>1. t \in Tabs /\ Asked({t}) \subseteq R /\ R \subseteq running
    BY DEF Good, TabInv, Asked
  <1>2. Replies(R, msgs)
    BY <1>1 DEF Replies
  <1>3. TabInv'
    BY DEF Good, TabInv
  <1>4. \A c \in R : c.tab \notin attached'
    BY DEF Asked
  <1>5. running' = running \ R
    OBVIOUS
  <1> HIDE DEF R
  <1> QED BY <1>1, <1>2, <1>3, <1>4, <1>5, ExtReturns

\* What a step that drops a debugger sends, in any of the orders.
LEMMA DropMessages ==
    ASSUME Good, NEW t \in attached, NEW msgs,
           \/ msgs = Refusals(Asked({t})) \o <<Event("detached", t)>>
           \/ msgs = Refusals(Asked({t})) \o <<Event("removed", t), Event("detached", t)>>
           \/ msgs = <<Event("detached", t)>> \o Refusals(Asked({t}))
    PROVE  Replies(Asked({t}), msgs) /\ \A u : u # t => Spares(msgs, u)
  <1> DEFINE S == Asked({t})
             r == Refusals(S)
             d == <<Event("detached", t)>>
             g == <<Event("removed", t)>>
  <1>1. t \in Tabs /\ S \subseteq running
    BY DEF Good, TabInv, Asked
  <1>2. /\ S \subseteq Commands /\ IsFiniteSet(S) /\ \A c \in S : c.task \in Tasks
        /\ \A c1, c2 \in S : c1.task = c2.task => c1 = c2
    BY <1>1, FS_Subset DEF Good, Types, RunInv, Asks, Waits
  <1>3. Replies(S, r) /\ \A u : Spares(r, u)
    BY <1>2, RefusalsReply
  <1>4. Replies({}, d) /\ Replies({}, g) /\ \A u : u # t => Spares(d, u) /\ Spares(g, u)
    BY <1>1, OneEvent
  <1>5. <<Event("removed", t), Event("detached", t)>> = g \o d
    OBVIOUS
  <1> HIDE DEF S, r, d, g
  <1>6. r \in Seq(UpMessages) /\ d \in Seq(UpMessages) /\ g \in Seq(UpMessages)
    BY <1>3, <1>4 DEF Replies
  <1>7. CASE msgs = r \o d
    <2>1. Replies(S \cup {}, r \o d)
      BY <1>3, <1>4, RepliesJoin
    <2> QED BY <1>3, <1>4, <1>6, <1>7, <2>1, SparesJoin, SMTT(30) DEF S
  <1>8. CASE msgs = d \o r
    <2>1. Replies({} \cup S, d \o r)
      BY <1>3, <1>4, RepliesJoin
    <2> QED BY <1>3, <1>4, <1>6, <1>8, <2>1, SparesJoin, SMTT(30) DEF S
  <1>9. CASE msgs = r \o (g \o d)
    <2>1. Replies({} \cup {}, g \o d)
      BY <1>4, RepliesJoin
    <2>2. g \o d \in Seq(UpMessages) /\ \A u : u # t => Spares(g \o d, u)
      BY <1>4, <1>6, SparesJoin
    <2>3. Replies(S \cup {}, r \o (g \o d))
      BY <1>3, <2>1, RepliesJoin
    <2> QED BY <1>3, <1>6, <1>9, <2>2, <2>3, SparesJoin DEF S
  <1> QED BY <1>5, <1>7, <1>8, <1>9 DEF S, r, d

\* The first of a sequence is taken off.
LEMMA TailOf ==
    ASSUME NEW S, NEW q \in Seq(S), q # <<>>
    PROVE  /\ Tail(q) \in Seq(S) /\ 1 \in DOMAIN q /\ Head(q) = q[1] /\ q[1] \in S
           /\ \A i \in DOMAIN Tail(q) : i + 1 \in DOMAIN q /\ Tail(q)[i] = q[i + 1] /\ i \in Nat \ {0}
           /\ \A i \in DOMAIN q \ {1} : i - 1 \in DOMAIN Tail(q) /\ Tail(q)[i - 1] = q[i] /\ i \in Nat
  OBVIOUS

\* A command is refused, or handed to Chrome.
LEMMA ReceivesKeeps ==
    ASSUME Good, alive, Still, ExtReceives, alive'
    PROVE  Good'
  <1> DEFINE c == Head(down)
  <1>1. down # <<>> /\ down' = Tail(down)
    BY DEF ExtReceives
  <1>2. down \in Seq(Commands) /\ up \in Seq(UpMessages)
    BY DEF Good, Types, LinkTypeOK
  <1>3. /\ down' \in Seq(Commands) /\ 1 \in DOMAIN down /\ c = down[1] /\ c \in Commands
        /\ \A i \in DOMAIN down' : i + 1 \in DOMAIN down /\ down'[i] = down[i + 1] /\ i \in Nat \ {0}
        /\ \A i \in DOMAIN down \ {1} : i - 1 \in DOMAIN down' /\ down'[i - 1] = down[i]
    BY <1>1, <1>2, TailOf
  <1> HIDE DEF c
  <1>4. Asks(c) /\ \A i \in DOMAIN down' : down'[i].task # c.task
    <2>1. Asks(down[1]) /\ \A i \in DOMAIN down' : down[i + 1].task # down[1].task
      BY <1>3 DEF Good, DownInv
    <2> QED BY <1>3, <2>1
  <1>5. c.kind # "bye" /\ c.task \in Tasks
    BY <1>4 DEF Asks, Waits, Good, Types, TaskStates
  <1>6. /\ \A d \in running : d.task # c.task
        /\ \A i : Reply(i) => up[i].task # c.task
    BY <1>3 DEF Good, RunInv, UpInv
  <1>7. \A d : Asks(d)' <=> Asks(d)
    BY StillWaits DEF Asks, Still
  <1>8. DownInv'
    <2>1. \A i \in DOMAIN down' : Asks(down'[i])
      BY <1>3 DEF Good, DownInv
    <2>2. ASSUME NEW i \in DOMAIN down', NEW j \in DOMAIN down', down'[i].task = down'[j].task
          PROVE  i = j
      <3>1. i + 1 = j + 1
        BY <1>3, <2>2 DEF Good, DownInv
      <3> QED BY <1>3, <3>1
    <2> QED BY <1>7, <2>1, <2>2 DEF DownInv
  <1>9. ReadyOK'
    BY DEF Good, ReadyOK, Still
  <1>10. attached' = attached /\ offered' = offered
    BY DEF ExtReceives, tabVars, Closed
  <1>a. CASE Accepted(c)
    <2>1. running' = running \cup {c} /\ up' = up
      BY <1>a, <1>5 DEF ExtReceives, c
    <2>2. Types'
      <3>1. running' \subseteq Commands /\ IsFiniteSet(running')
        BY <1>3, <2>1, FS_AddElement DEF Good, Types
      <3> QED BY <1>3, <2>1, <3>1 DEF Good, Types, LinkTypeOK, Still
    <2>3. RunInv'
      <3>1. \A d \in running' : Asks(d)
        BY <1>4, <2>1 DEF Good, RunInv
      <3>2. \A d, e \in running' : d.task = e.task => d = e
        BY <1>6, <2>1 DEF Good, RunInv
      <3>3. \A d \in running' : \A i \in DOMAIN down' : d.task # down'[i].task
        BY <1>3, <1>4, <2>1 DEF Good, RunInv
      <3> QED BY <1>7, <3>1, <3>2, <3>3 DEF RunInv
    <2>4. \A i : Reply(i)' <=> Reply(i)
      BY <2>1 DEF Reply
    <2>5. UpInv'
      <3>1. \A i : Reply(i) => /\ \A d \in running' : d.task # up[i].task
                               /\ \A j \in DOMAIN down' : down'[j].task # up[i].task
        BY <1>3, <1>6, <2>1 DEF Good, UpInv
      <3> QED BY <2>1, <2>4, <3>1, StillWaits DEF Good, UpInv
    <2>6. TabInv'
      <3>1. c.kind = "attach" => c.tab \in offered \ attached
        <4>1. c.kind = "attach" => c.tab \in Tabs
          BY <1>3 DEF Good, NameInv
        <4> QED BY <1>a, <4>1, PlaceholderAssumption DEF Accepted
      <3> QED BY <1>10, <2>1, <3>1 DEF Good, TabInv
    <2>7. NameInv'
      <3>1. \A k : In(k)' <=> In(k)
        BY DEF In, Still
      <3>2. \A i \in DOMAIN down' : down'[i].kind = "attach" => down'[i].tab \in Tabs
        BY <1>3 DEF Good, NameInv
      <3>3. \A k : NamedTask(k)' <=> NamedTask(k)
        BY <3>1 DEF NamedTask, Still
      <3> QED BY <2>1, <2>4, <3>2, <3>3 DEF Good, NameInv, Still
    <2>8. TellInv'
      <3>1. \A k : (Attaching(k)' <=> Attaching(k)) /\ (In(k)' <=> In(k))
        BY DEF Attaching, In, Still
      <3>2. \A n, t : KeptAfter(n, t)' <=> KeptAfter(n, t)
        BY <2>1 DEF KeptAfter
      <3>3. \A k, t : Answered(k, t) => Answered(k, t)'
        BY <2>1, <3>1, <3>2 DEF Answered, Answer
      <3>4. \A k, t : Runnable(k, t) => Runnable(k, t)'
        BY <3>1, <3>2 DEF Runnable, Still
      <3>5. ASSUME NEW k, NEW t, Asking(k, t) PROVE Asking(k, t)'
        <4>1. CASE Command("info", k, t) \in running
          BY <2>1, <3>1, <3>2, <3>5, <4>1 DEF Asking, Command
        <4>2. CASE \E i \in DOMAIN down : down[i] = Command("info", k, t)
          <5>1. PICK i \in DOMAIN down : down[i] = Command("info", k, t)
            BY <4>2
          <5>2. CASE i = 1
            <6>1. Command("info", k, t) \in running'
              BY <1>3, <2>1, <5>1, <5>2
            <6> QED BY <3>1, <3>2, <3>5, <6>1 DEF Asking, Command
          <5>3. CASE i # 1
            <6>1. \E j \in DOMAIN down' : down'[j] = Command("info", k, t)
              BY <1>3, <5>1, <5>3
            <6> QED BY <3>1, <3>2, <3>5, <6>1 DEF Asking, Command
          <5> QED BY <5>2, <5>3
        <4> QED BY <3>5, <4>1, <4>2 DEF Asking
      <3>6. \A t : Told(t) => Told(t)'
        BY <3>2 DEF Told, Still
      <3> QED BY <1>10, <3>3, <3>4, <3>5, <3>6 DEF Good, TellInv, Telling
    <2> QED BY <1>8, <1>9, <2>2, <2>3, <2>5, <2>6, <2>7, <2>8 DEF Good
  <1>b. CASE ~Accepted(c)
    <2> DEFINE R == {c}
               msgs == <<Answer(c.task, c.tab, FALSE)>>
    <2>1. running' = running /\ up' = up \o msgs
      BY <1>b, <1>5 DEF ExtReceives, c, Send
    <2>2. RunInv' /\ TabInv'
      BY <1>3, <1>7, <1>10, <2>1 DEF Good, RunInv, TabInv
    <2>3. Over(R)
      <3>1. \A j \in DOMAIN down : down[j] \in R \/ \E i \in DOMAIN down' : down'[i] = down[j]
        BY <1>3
      <3> QED BY <1>3, <1>4, <1>6, <2>1, <3>1 DEF Over
    <2>4. Replies(R, msgs) /\ \A u : Spares(msgs, u)
      <3>1. c.tab \in Tabs \cup {NoTab}
        BY <1>3 DEF Commands
      <3> QED BY <1>5, <3>1, OneReply
    <2>5. c.kind = "info" => c.tab \notin attached'
      <3>1. c.kind = "info" => c.tab \notin attached
        BY <1>b DEF Accepted, Good, TabInv
      <3> QED BY <1>10, <3>1
    <2>6. R \in SUBSET Commands /\ \A d \in R : d.kind = "info" => d.tab \notin attached'
      BY <1>3, <2>5
    <2> HIDE DEF R, msgs
    <2> QED BY <1>3, <1>8, <1>10, <2>1, <2>2, <2>3, <2>4, <2>6, ExtGood
  <1> QED BY <1>a, <1>b

\* The tab c.tab gets its debugger; the other calls that are at it are refused.
LEMMA AttachKeeps ==
    ASSUME Good, alive, Still, NEW c \in running, Attach(c)
    PROVE  Good'
  <1> DEFINE others == {d \in running \ {c} : d.kind = "attach" /\ d.tab = c.tab}
             R == {c} \cup others
             a == <<Answer(c.task, c.tab, TRUE)>>
             r == Refusals(others)
             msgs == a \o r
  <1>1. /\ c.kind = "attach" /\ attached' = attached \cup {c.tab} /\ offered' = offered
        /\ running' = (running \ {c}) \ others /\ up' = up \o msgs /\ down' = down
    BY DEF Attach, Send
  <1>2. c.tab \in Tabs /\ c.task \in Tasks
    BY <1>1 DEF Good, TabInv, RunInv, Asks, Waits
  <1>3. R \in SUBSET running /\ running' = running \ R
    BY <1>1
  <1>4. TabInv'
    <2>1. attached' \subseteq offered' /\ offered' \subseteq Tabs
      BY <1>1 DEF Good, TabInv
    <2>2. \A d \in running' : d.kind = "attach" => d.tab # c.tab
      BY <1>1
    <2>3. \A d \in running' : d.kind = "attach" => d.tab \in offered' \ attached'
      BY <1>1, <2>2 DEF Good, TabInv
    <2> QED BY <2>1, <2>3 DEF TabInv
  <1>5. Replies({c}, a) /\ \A u : Spares(a, u)
    BY <1>2, OneReply
  <1>6. /\ others \subseteq Commands /\ IsFiniteSet(others) /\ \A d \in others : d.task \in Tasks
        /\ \A d, e \in others : d.task = e.task => d = e
        /\ \A d \in {c} : \A e \in others : d.task # e.task
        /\ \A d \in R : d.kind = "attach"
    BY <1>1, FS_Subset DEF Good, Types, RunInv, Asks, Waits
  <1> HIDE DEF others
  <1>7. Replies(others, r) /\ \A u : Spares(r, u)
    BY <1>6, RefusalsReply
  <1>8. Replies(R, msgs) /\ a \in Seq(UpMessages) /\ r \in Seq(UpMessages)
    <2> HIDE DEF a, r
    <2>1. Replies({c} \cup others, a \o r)
      BY <1>5, <1>6, <1>7, RepliesJoin
    <2>2. a \in Seq(UpMessages) /\ r \in Seq(UpMessages)
      BY <1>5, <1>7 DEF Replies
    <2> QED BY <2>1, <2>2
  <1>9. \A u : Spares(msgs, u)
    BY <1>5, <1>7, <1>8, SparesJoin
  <1>10. 1 \in DOMAIN msgs /\ msgs[1] = Answer(c.task, c.tab, TRUE)
    <2>1. a \in Seq(UpMessages) /\ r \in Seq(UpMessages) /\ Len(a) = 1 /\ a[1] = Answer(c.task, c.tab, TRUE)
      BY <1>8
    <2> HIDE DEF a, r
    <2>4. 1 \in DOMAIN (a \o r) /\ (a \o r)[1] = a[1]
      BY <2>1, FirstOfJoin
    <2> QED BY <2>1, <2>4
  <1>11. \A t \in attached' \ attached :
           \E d \in R : d.kind = "attach" /\ \E i \in DOMAIN msgs : msgs[i] = Answer(d.task, t, TRUE)
    BY <1>1, <1>10
  <1>12. c \in R
    OBVIOUS
  <1>13. up' = up \o msgs
    BY <1>1
  <1> HIDE DEF R, msgs
  <1> QED BY <1>1, <1>3, <1>4, <1>6, <1>8, <1>9, <1>11, <1>13, ExtReturns

\* What ends in the check for the last tab drops a debugger, or nothing.
LEMMA CheckedDrops ==
    ASSUME Good, Still, alive', down' = down, NEW t \in attached, NEW off, NEW pd, NEW rec, NEW grp,
           NEW msgs, off = offered \/ off = offered \ {t},
           Checked(off, attached \ {t}, pd, rec, grp, msgs),
           \/ msgs = Refusals(Asked({t})) \o <<Event("detached", t)>>
           \/ msgs = Refusals(Asked({t})) \o <<Event("removed", t), Event("detached", t)>>
           \/ msgs = <<Event("detached", t)>> \o Refusals(Asked({t}))
    PROVE  Good'
  <1>1. /\ up' = up \o msgs /\ offered' = off /\ attached' = attached \ {t}
        /\ running' = running \ Asked(Tabs \ (attached \ {t}))
    BY DEF Checked, Closed
  <1>2. Replies(Asked({t}), msgs) /\ \A u : u # t => Spares(msgs, u)
    BY DropMessages
  <1>3. running' = running \ Asked(Tabs \ attached')
    BY <1>1
  <1>4. offered' = offered \/ offered' = offered \ {t}
    BY <1>1
  <1> QED BY <1>1, <1>2, <1>3, <1>4, ExtDrops

LEMMA CheckedStays ==
    ASSUME Good, Still, alive', down' = down, NEW pd, NEW rec, NEW grp,
           Checked(offered, attached, pd, rec, grp, <<>>)
    PROVE  Good'
  <1>1. /\ up' = up \o <<>> /\ offered' = offered /\ attached' = attached
        /\ running' = running \ Asked(Tabs \ attached)
    BY DEF Checked, Closed
  <1>2. TabInv'
    BY <1>1 DEF Good, TabInv
  <1> DEFINE R == Asked(Tabs \ attached)
             msgs == <<>>
  <1>3. R \in SUBSET running /\ \A c \in R : c.tab \notin attached'
    BY <1>1 DEF Asked
  <1>4. Replies(R, msgs) /\ \A u : Spares(msgs, u)
    BY NoReply DEF Replies
  <1> HIDE DEF R, msgs
  <1> QED BY <1>1, <1>2, <1>3, <1>4, ExtReturns DEF R, msgs

\* A tab closes: its debugger goes, if it has one.
LEMMA CloseKeeps ==
    ASSUME Good, alive, Still, alive', NEW t, TabCloses(t)
    PROVE  Good'
  <1>1. down' = down
    BY DEF TabCloses
  <1>2. CASE t \in attached
    <2>1. CASE Dropped(t, offered, grouped \ {t}, Refusals(Asked({t})) \o <<Event("detached", t)>>)
      BY <1>1, <1>2, <2>1, CheckedDrops DEF Dropped
    <2>2. CASE Dropped(t, offered \ {t}, grouped \ {t},
                       Refusals(Asked({t})) \o <<Event("removed", t), Event("detached", t)>>)
      BY <1>1, <1>2, <2>2, CheckedDrops DEF Dropped
    <2> QED BY <1>2, <2>1, <2>2 DEF TabCloses
  <1>3. CASE t \notin attached
    <2>1. UNCHANGED <<up, offered, attached, running>>
      BY <1>3 DEF TabCloses
    <2> QED BY <1>1, <2>1, ExtAnnounces DEF Good, TabInv
  <1> QED BY <1>2, <1>3

\* An announcement of the tab t, or none.
LEMMA AnnounceKeeps ==
    ASSUME Good, alive, Still, NEW t \in Tabs, Announce(t) \/ UNCHANGED <<up, offered>>,
           UNCHANGED <<down, attached, running>>
    PROVE  Good'
  <1>1. up' = up \/ up' = up \o <<Event("created", t)>>
    <2>1. up \in Seq(UpMessages) /\ Event("created", t) \in UpMessages
      BY DEF Good, Types, LinkTypeOK, Event, UpMessages
    <2> QED BY <2>1, AppendIsConcat DEF Announce
  <1>2. offered \subseteq offered' /\ offered' \subseteq Tabs
    BY DEF Announce, Good, TabInv
  <1> QED BY <1>1, <1>2, ExtAnnounces

LEMMA CallKeeps ==
    ASSUME Good, alive, Still, alive', NEW c \in running, Call(c) \/ CallFails(c)
    PROVE  Good'
  <1>0. c.tab \in Tabs \cup {NoTab} /\ TRUE \in BOOLEAN /\ FALSE \in BOOLEAN
    BY DEF Good, Types, Commands
  <1>1. CASE Attach(c)
    BY <1>1, AttachKeeps
  <1>2. CASE Forward(c)
    <2>1. /\ up' = up \o <<Answer(c.task, c.tab, TRUE)>> /\ running' = running \ {c} /\ down' = down
          /\ attached' = attached /\ offered' = offered /\ c.kind # "create"
      BY <1>2 DEF Forward, Send, tabVars
    <2>2. offered \subseteq offered' /\ offered' \subseteq Tabs
      BY <2>1 DEF Good, TabInv
    <2> QED BY <1>0, <2>1, <2>2, ExtAnswers
  <1>3. CASE Create(c)
    <2>1. PICK t \in Tabs : offered' = offered \cup {t} /\ Send(<<Answer(c.task, t, TRUE)>>)
      BY <1>3 DEF Create
    <2>2. /\ up' = up \o <<Answer(c.task, t, TRUE)>> /\ running' = running \ {c} /\ down' = down
          /\ attached' = attached /\ c.kind = "create"
      BY <1>3, <2>1 DEF Create, Send
    <2>3. offered \subseteq offered' /\ offered' \subseteq Tabs
      BY <2>1 DEF Good, TabInv
    <2> QED BY <1>0, <2>2, <2>3, ExtAnswers
  <1>4. CASE c.kind = "remove" /\ TabCloses(c.tab)
    BY <1>4, CloseKeeps
  <1>5. CASE CallFails(c)
    <2>1. /\ up' = up \o <<Answer(c.task, c.tab, FALSE)>> /\ running' = running \ {c} /\ down' = down
          /\ attached' = attached /\ offered' = offered /\ c.kind # "info"
      BY <1>5 DEF CallFails, Send, tabVars
    <2>2. offered \subseteq offered' /\ offered' \subseteq Tabs
      BY <2>1 DEF Good, TabInv
    <2> QED BY <1>0, <2>1, <2>2, ExtAnswers
  <1> QED BY <1>1, <1>2, <1>3, <1>4, <1>5 DEF Call

LEMMA TimerKeeps ==
    ASSUME Good, alive, Still, alive', NEW t \in Tabs, Timer(t) \/ CooledDown(t) \/ Joined(t)
    PROVE  Good'
  <1>1. CASE TryReattach(t)
    <2>1. down' = down
      BY <1>1 DEF TryReattach
    <2>2. CASE page[t] = "open"
      BY <1>1, <2>1, <2>2, AnnounceKeeps DEF TryReattach
    <2>3. CASE page[t] # "open"
      BY <1>1, <2>1, <2>3, CheckedStays DEF TryReattach
    <2> QED BY <2>2, <2>3
  <1>2. CASE Verified(t)
    BY <1>2, CheckedStays DEF Verified
  <1>3. CASE CooledDown(t)
    BY <1>3, AnnounceKeeps DEF CooledDown, linkVars
  <1>4. CASE Joined(t)
    BY <1>4, AnnounceKeeps DEF Joined
  <1> QED BY <1>1, <1>2, <1>3, <1>4 DEF Timer

LEMMA IncidentKeeps ==
    ASSUME Good, alive, Still, alive', Incident
    PROVE  Good'
  <1>1. ASSUME NEW t \in Tabs, TargetDetached(t) PROVE Good'
    BY <1>1, CheckedDrops DEF TargetDetached, Dropped
  <1>2. ASSUME NEW t \in Tabs, Cancelled(t) PROVE Good'
    BY <1>2, CheckedDrops DEF Cancelled
  <1>3. ASSUME NEW t \in Tabs, DragOut(t) PROVE Good'
    <2>1. CASE t \in attached
      BY <1>3, <2>1, CheckedDrops DEF DragOut
    <2>2. CASE t \notin attached
      BY <1>3, <2>2, AnnounceKeeps DEF DragOut
    <2> QED BY <2>1, <2>2
  <1>4. ASSUME NEW t \in Tabs, DragIn(t) \/ Navigated(t) PROVE Good'
    BY <1>4, AnnounceKeeps DEF DragIn, Navigated
  <1>5. ASSUME NEW t \in Tabs, Popup(t) PROVE Good'
    <2>1. up' = up \o <<Event("created", t)>>
      <3>1. up \in Seq(UpMessages) /\ Event("created", t) \in UpMessages
        BY DEF Good, Types, LinkTypeOK, Event, UpMessages
      <3> QED BY <1>5, <3>1, AppendIsConcat DEF Popup
    <2>2. offered \subseteq offered' /\ offered' \subseteq Tabs
      BY <1>5 DEF Popup, Good, TabInv
    <2> QED BY <1>5, <2>1, <2>2, ExtAnnounces DEF Popup
  <1>6. ~UserDisconnects
    BY DEF UserDisconnects, Closed
  <1> QED BY <1>1, <1>2, <1>3, <1>4, <1>5, <1>6, CallKeeps, CloseKeeps DEF Incident

\* So every step of the extension that leaves the connection alone keeps the invariant.
LEMMA ExtKeeps ==
    ASSUME Good, alive, Still, alive', ExtStep \/ Incident
    PROVE  Good'
  BY ReceivesKeeps, CallKeeps, TimerKeeps, IncidentKeeps DEF ExtStep

-----------------------------------------------------------------------------
(* Steps of the relay: n messages are taken, the tasks of K have a turn or are *)
(* made runnable, and at most one call goes down.                              *)

Later(n) ==
    /\ n \in {0, 1} /\ (n = 1 => 1 \in DOMAIN up) /\ up' \in Seq(UpMessages)
    /\ \A i \in DOMAIN up' : i \in Nat \ {0} /\ i + n \in DOMAIN up /\ up'[i] = up[i + n]
    /\ \A i \in DOMAIN up : i > n => i - n \in DOMAIN up' /\ up'[i - n] = up[i]
Untouched(K) == \A k \in Tasks \ K : task'[k] = task[k] /\ (In(k)' <=> In(k))
NoCalls(n, K) ==
    /\ \A i \in DOMAIN down : down[i].task \notin K
    /\ \A c \in running : c.task \notin K
    /\ \A i : Reply(i) /\ i > n => up[i].task \notin K
Sends(c) == down' = Append(down, c) /\ c \in Commands
ExtStill == UNCHANGED <<running, attached, offered>>

\* Sessions go only with the message; a turn, or an answer, passes on what is known.
SessionsStay(n) == \A t \in session \ session' : n = 1 /\ Takes(up[1], t)
TurnTells(K) == \A t \in attached, k \in K : Runnable(k, t) => Told(t)' \/ Telling(k, t)'
AnswerTells(n) ==
    \A t \in attached, k \in Tasks :
        n = 1 /\ up[1] = Answer(k, t, TRUE) /\ Attaching(k) /\ KeptAfter(1, t) => Telling(k, t)'

LEMMA NothingTaken == up \in Seq(UpMessages) /\ up' = up => Later(0)
  BY DEF Later

LEMMA OneTaken ==
    up \in Seq(UpMessages) /\ up # <<>> /\ up' = Tail(up)
      => Later(1) /\ Head(up) = up[1] /\ 1 \in DOMAIN up /\ up[1] \in UpMessages
  <1> SUFFICES ASSUME up \in Seq(UpMessages), up # <<>>, up' = Tail(up)
               PROVE  Later(1) /\ Head(up) = up[1] /\ 1 \in DOMAIN up /\ up[1] \in UpMessages
    OBVIOUS
  <1>1. /\ Tail(up) \in Seq(UpMessages) /\ 1 \in DOMAIN up /\ Head(up) = up[1] /\ up[1] \in UpMessages
        /\ \A i \in DOMAIN Tail(up) : i + 1 \in DOMAIN up /\ Tail(up)[i] = up[i + 1] /\ i \in Nat \ {0}
        /\ \A i \in DOMAIN up \ {1} : i - 1 \in DOMAIN Tail(up) /\ Tail(up)[i - 1] = up[i] /\ i \in Nat
    BY TailOf
  <1> QED BY <1>1 DEF Later

\* The messages that are left.
LEMMA LaterReplies ==
    ASSUME NEW n, Later(n)
    PROVE  \A i : Reply(i)' => i \in Nat \ {0} /\ Reply(i + n) /\ up'[i] = up[i + n] /\ i + n > n
  BY DEF Later, Reply

LEMMA OthersWait ==
    ASSUME NEW K, Untouched(K)
    PROVE  /\ \A k : Waits(k) /\ k \notin K => Waits(k)' /\ task'[k] = task[k]
           /\ \A c : Asks(c) /\ c.task \notin K => Asks(c)'
  BY DEF Untouched, Waits, Asks

\* Calls stay where they are, or go up or down the link.
LEMMA RelayCalls ==
    ASSUME Types, DownInv, RunInv, UpInv, ExtStill, NEW n, Later(n), NEW K,
           Untouched(K), NoCalls(n, K),
           down' = down \/ \E c : Sends(c) /\ c.task \in K /\ ~Waits(c.task) /\ Asks(c)'
    PROVE  DownInv' /\ RunInv' /\ UpInv' /\ down' \in Seq(Commands)
  <1>1. down \in Seq(Commands)
    BY DEF Types, LinkTypeOK
  <1>2. \A i \in DOMAIN down : \A c : c = down[i] => Asks(c)'
    BY OthersWait DEF DownInv, NoCalls
  <1>r. \A c \in running : Asks(c)'
    BY OthersWait DEF RunInv, NoCalls
  <1>3. \A i : Reply(i)' => i \in Nat \ {0} /\ Reply(i + n) /\ up'[i] = up[i + n] /\ i + n > n
    BY LaterReplies
  <1>4. n \in Nat
    BY DEF Later
  <1>5. \A i : Reply(i)' => Waits(up'[i].task) /\ up'[i].task \notin K
    BY <1>3 DEF UpInv, NoCalls
  <1>w. \A i : Reply(i)' => \A k : k = up'[i].task => Waits(k)'
    BY <1>5, OthersWait
  <1>6. \A i, j : Reply(i)' /\ Reply(j)' /\ up'[i].task = up'[j].task => i = j
    <2> SUFFICES ASSUME NEW i, NEW j, Reply(i)', Reply(j)', up'[i].task = up'[j].task
                 PROVE  i = j
      OBVIOUS
    <2>1. i + n = j + n
      BY <1>3 DEF UpInv
    <2> QED BY <1>3, <1>4, <2>1
  <1>7. \A i : Reply(i)' => /\ \A c \in running : c.task # up'[i].task
                            /\ \A j \in DOMAIN down : down[j].task # up'[i].task
    BY <1>3 DEF UpInv
  <1>8. running' = running
    BY DEF ExtStill
  <1>9. CASE down' = down
    <2>1. DownInv'
      BY <1>2, <1>9 DEF DownInv
    <2>2. RunInv'
      BY <1>r, <1>8, <1>9 DEF RunInv
    <2>3. UpInv'
      BY <1>w, <1>6, <1>7, <1>8, <1>9 DEF UpInv
    <2> QED BY <1>1, <1>9, <2>1, <2>2, <2>3
  <1>10. CASE \E c : Sends(c) /\ c.task \in K /\ ~Waits(c.task) /\ Asks(c)'
    <2>1. PICK c : Sends(c) /\ c.task \in K /\ ~Waits(c.task) /\ Asks(c)'
      BY <1>10
    <2>2. /\ down' \in Seq(Commands)
          /\ \A i \in DOMAIN down' :
                \/ (i \in DOMAIN down /\ down'[i] = down[i])
                \/ (i = Len(down) + 1 /\ down'[i] = c)
      BY <1>1, <2>1 DEF Sends
    <2>3. DownInv'
      <3>1. \A i \in DOMAIN down' : \A d : d = down'[i] => Asks(d)'
        BY <1>2, <2>1, <2>2
      <3>2. \A i \in DOMAIN down : down[i].task # c.task
        BY <2>1 DEF NoCalls
      <3>3. \A i, j \in DOMAIN down' : down'[i].task = down'[j].task => i = j
        BY <2>2, <3>2 DEF DownInv
      <3> QED BY <3>1, <3>3 DEF DownInv
    <2>4. \A d \in running : \A i \in DOMAIN down' : d.task # down'[i].task
      BY <2>1, <2>2 DEF RunInv, NoCalls
    <2>5. RunInv'
      BY <1>r, <1>8, <2>4 DEF RunInv
    <2>6. \A i : Reply(i)' => \A j \in DOMAIN down' : down'[j].task # up'[i].task
      BY <1>5, <1>7, <2>1, <2>2
    <2>7. UpInv'
      BY <1>w, <1>6, <1>7, <1>8, <2>6 DEF UpInv
    <2> QED BY <2>2, <2>3, <2>5, <2>7
  <1> QED BY <1>9, <1>10

LEMMA RelayNames ==
    ASSUME Types, UpInv, NameInv, NEW n, Later(n), NEW K, Untouched(K), NoCalls(n, K),
           known' \subseteq Tabs, \A k \in K : NamedTask(k)',
           down' = down \/ \E c : Sends(c) /\ (c.kind = "attach" => c.tab \in Tabs)
    PROVE  NameInv'
  <1>1. down \in Seq(Commands)
    BY DEF Types, LinkTypeOK
  <1>2. \A i \in DOMAIN down' : down'[i].kind = "attach" => down'[i].tab \in Tabs
    <2>1. CASE down' = down
      BY <2>1 DEF NameInv
    <2>2. CASE \E c : Sends(c) /\ (c.kind = "attach" => c.tab \in Tabs)
      <3>1. PICK c : Sends(c) /\ (c.kind = "attach" => c.tab \in Tabs)
        BY <2>2
      <3>2. \A i \in DOMAIN down' :
                \/ (i \in DOMAIN down /\ down'[i] = down[i])
                \/ (i = Len(down) + 1 /\ down'[i] = c)
        BY <1>1, <3>1 DEF Sends
      <3> QED BY <3>1, <3>2 DEF NameInv
    <2> QED BY <2>1, <2>2
  <1>3. \A i \in DOMAIN up' : up'[i].kind = "created" => up'[i].tab \in Tabs
    BY DEF Later, NameInv
  <1>4. ASSUME NEW i, Reply(i)', up'[i].ok, task'[up'[i].task].step = "create"
        PROVE  up'[i].tab \in Tabs
    <2>1. Reply(i + n) /\ up'[i] = up[i + n] /\ i + n > n
      BY <1>4, LaterReplies
    <2>2. up[i + n].task \notin K /\ up[i + n].task \in Tasks
      BY <2>1 DEF NoCalls, UpInv, Waits
    <2>3. task'[up[i + n].task] = task[up[i + n].task]
      BY <2>2 DEF Untouched
    <2> QED BY <1>4, <2>1, <2>3 DEF NameInv
  <1>5. \A k \in Tasks : NamedTask(k)'
    BY DEF NamedTask, NameInv, Untouched
  <1> QED BY <1>2, <1>3, <1>4, <1>5 DEF NameInv

\* What is known of a tab stays so unless a message takes it; a turn, or an answer that
\* is taken, passes it on.
LEMMA RelayTells ==
    ASSUME Types, TellInv, ExtStill, NEW n, Later(n), NEW K, Untouched(K), NoCalls(n, K),
           down' = down \/ \E c : Sends(c),
           SessionsStay(n), TurnTells(K), AnswerTells(n)
    PROVE  TellInv'
  <1>1. down \in Seq(Commands)
    BY DEF Types, LinkTypeOK
  <1>2. \A t : KeptAfter(0, t) => KeptAfter(0, t)'
    BY DEF KeptAfter, Later
  <1>3. ASSUME NEW t, NEW i \in DOMAIN up, NEW j, j = i - n, KeptAfter(i, t)
        PROVE  KeptAfter(j, t)'
    <2>1. i \in Nat /\ n \in Nat
      BY DEF Later, Types, LinkTypeOK
    <2> SUFFICES ASSUME NEW x \in DOMAIN up', x > j PROVE ~Takes(up'[x], t)
      BY DEF KeptAfter
    <2>2. x \in Nat /\ x + n \in DOMAIN up /\ up'[x] = up[x + n]
      BY DEF Later
    <2>3. x + n > i
      BY <1>3, <2>1, <2>2
    <2> QED BY <1>3, <2>2, <2>3 DEF KeptAfter
  <1>4. \A k \in Tasks \ K : /\ Attaching(k)' <=> Attaching(k)
                             /\ In(k)' <=> In(k)
                             /\ task'[k] = task[k]
    BY DEF Untouched, Attaching
  <1>5. ASSUME NEW t \in attached, Told(t) PROVE Told(t)'
    <2>1. n = 1 => ~Takes(up[1], t)
      BY <1>5 DEF Told, KeptAfter, Later
    <2> QED BY <1>2, <1>5, <2>1 DEF Told, SessionsStay
  <1>6. ASSUME NEW t \in attached, NEW k \in Tasks, Answered(k, t) PROVE Telling(k, t)'
    <2>1. PICK i \in DOMAIN up : up[i] = Answer(k, t, TRUE) /\ KeptAfter(i, t) /\ Attaching(k)
      BY <1>6 DEF Answered
    <2>2. CASE i > n
      <3>1. k \notin K
        BY <2>1, <2>2 DEF NoCalls, Reply, Answer
      <3>2. PICK j : j = i - n /\ j \in DOMAIN up' /\ up'[j] = up[i]
        BY <2>2 DEF Later
      <3>3. KeptAfter(j, t)' /\ Attaching(k)'
        BY <1>3, <1>4, <2>1, <2>2, <3>1, <3>2
      <3>4. Answered(k, t)'
        BY <2>1, <3>2, <3>3 DEF Answered, Answer
      <3> QED BY <3>4 DEF Telling
    <2>3. CASE ~(i > n)
      <3>1. n = 1 /\ i = 1
        BY <2>3 DEF Later, Types, LinkTypeOK
      <3> QED BY <2>1, <3>1 DEF AnswerTells
    <2> QED BY <2>2, <2>3
  <1>7. ASSUME NEW t \in attached, NEW k \in Tasks, Runnable(k, t), k \notin K PROVE Telling(k, t)'
    <2>1. Runnable(k, t)'
      BY <1>2, <1>4, <1>7 DEF Runnable
    <2> QED BY <2>1 DEF Telling
  <1>8. ASSUME NEW t \in attached, NEW k \in Tasks, Asking(k, t) PROVE Telling(k, t)'
    <2> DEFINE c == Command("info", k, t)
    <2>1. c.task = k
      BY DEF Command
    <2>2. Attaching(k) /\ KeptAfter(0, t) /\ (c \in running \/ \E i \in DOMAIN down : down[i] = c)
      BY <1>8 DEF Asking
    <2> HIDE DEF c
    <2>3. k \notin K
      BY <2>1, <2>2 DEF NoCalls
    <2>4. c \in running' \/ \E i \in DOMAIN down' : down'[i] = c
      BY <1>1, <2>2 DEF Sends, ExtStill
    <2>5. Asking(k, t)'
      BY <1>2, <1>4, <2>2, <2>3, <2>4 DEF Asking, Command, c
    <2> QED BY <2>5 DEF Telling
  <1>9. attached' = attached
    BY DEF ExtStill
  <1>10. ASSUME NEW t \in attached, NEW k \in Tasks, Runnable(k, t)
         PROVE  Told(t)' \/ Telling(k, t)'
    BY <1>7, <1>10 DEF TurnTells
  <1> QED BY <1>10, <1>5, <1>6, <1>7, <1>8, <1>9 DEF TellInv, Telling

LEMMA RelayGood ==
    ASSUME Good, ExtStill, closed' = closed, NEW n, Later(n), NEW K, Untouched(K), NoCalls(n, K),
           task' \in [Tasks -> TaskStates], ready' \in Seq(Tasks), ReadyOK',
           known' \subseteq Tabs, IsFiniteSet(known'), \A k \in K : NamedTask(k)',
           \/ down' = down
           \/ \E c : /\ Sends(c) /\ c.task \in K /\ ~Waits(c.task) /\ Asks(c)'
                     /\ c.kind = "attach" => c.tab \in Tabs,
           SessionsStay(n), TurnTells(K), AnswerTells(n)
    PROVE  Good'
  <1>1. DownInv' /\ RunInv' /\ UpInv' /\ down' \in Seq(Commands)
    BY RelayCalls DEF Good
  <1>2. NameInv'
    BY RelayNames DEF Good
  <1>3. TellInv'
    <2>1. Types /\ TellInv
      BY DEF Good
    <2>2. down' = down \/ \E c : Sends(c)
      OBVIOUS
    <2> QED BY <2>1, <2>2, RelayTells
  <1>4. Types'
    <2>1. \A i \in DOMAIN up' : up'[i].kind # "bye"
      BY DEF Later, Good, Types
    <2> QED BY <1>1, <2>1 DEF Good, Types, LinkTypeOK, Later, ExtStill
  <1>5. TabInv'
    BY DEF Good, TabInv, ExtStill
  <1> QED BY <1>1, <1>2, <1>3, <1>4, <1>5 DEF Good

\* A task is made runnable, or the first of them has its turn.
LEMMA Queued ==
    ASSUME ready \in Seq(Tasks), NEW k \in Tasks, ready' = Append(ready, k)
    PROVE  /\ ready' \in Seq(Tasks) /\ \A j : In(j)' <=> (In(j) \/ j = k)
           /\ ~In(k) /\ (\A i, j \in DOMAIN ready : ready[i] = ready[j] => i = j)
                => \A i, j \in DOMAIN ready' : ready'[i] = ready'[j] => i = j
  <1>1. /\ ready' \in Seq(Tasks) /\ Len(ready) + 1 \in DOMAIN ready' /\ ready'[Len(ready) + 1] = k
        /\ \A i \in DOMAIN ready : i \in DOMAIN ready' /\ ready'[i] = ready[i]
        /\ \A i \in DOMAIN ready' : \/ (i \in DOMAIN ready /\ ready'[i] = ready[i])
                                    \/ (i = Len(ready) + 1 /\ ready'[i] = k)
    OBVIOUS
  <1>2. \A j : In(j)' <=> (In(j) \/ j = k)
    BY <1>1 DEF In
  <1>3. ASSUME ~In(k), \A i, j \in DOMAIN ready : ready[i] = ready[j] => i = j
        PROVE  \A i, j \in DOMAIN ready' : ready'[i] = ready'[j] => i = j
    BY <1>1, <1>3 DEF In
  <1> QED BY <1>1, <1>2, <1>3

LEMMA AnswerKeeps ==
    ASSUME Good, ExtStill, down' = down, up # <<>>, up' = Tail(up),
           NEW m, m = Head(up), m.kind = "answer", OnAnswer(m)
    PROVE  Good'
  <1> DEFINE k == m.task
  <1>0. /\ up \in Seq(UpMessages) /\ ready \in Seq(Tasks) /\ task \in [Tasks -> TaskStates]
        /\ IsFiniteSet(known) /\ known \subseteq Tabs
    BY DEF Good, Types, LinkTypeOK, NameInv
  <1>1. Later(1) /\ m = up[1] /\ 1 \in DOMAIN up /\ m \in UpMessages
    BY <1>0, OneTaken
  <1>2. Reply(1) /\ Waits(k) /\ k \in Tasks /\ ~In(k)
    <2>1. Reply(1)
      BY <1>1 DEF Reply
    <2> QED BY <1>1, <2>1 DEF Good, UpInv, Waits
  <1>3. m.task \in Waiting
    BY <1>0, <1>2 DEF Waiting, Busy, Contains, In, Waits
  <1>4. /\ task' = [task EXCEPT ![k].ok = m.ok, ![k].tab = m.tab]
        /\ ready' = Append(ready, k)
        /\ UNCHANGED <<closed, known, session>>
    BY <1>3 DEF OnAnswer, tabModel
  <1> DEFINE s == [task[k] EXCEPT !.ok = m.ok, !.tab = m.tab]
  <1>5. task' = [task EXCEPT ![k] = s]
    BY <1>0, <1>2, <1>4
  <1>6. s \in TaskStates /\ s.step = task[k].step /\ s.ok = m.ok /\ s.tab = m.tab
    <2>1. task[k] \in TaskStates /\ m.ok \in BOOLEAN /\ m.tab \in Tabs \cup {NoTab}
      BY <1>0, <1>1, <1>2 DEF UpMessages
    <2> QED BY <2>1 DEF TaskStates
  <1> HIDE DEF s
  <1>7. task' \in [Tasks -> TaskStates] /\ task'[k] = s /\ \A j \in Tasks \ {k} : task'[j] = task[j]
    BY <1>0, <1>2, <1>5, <1>6
  <1>8. /\ ready' \in Seq(Tasks) /\ \A j : In(j)' <=> (In(j) \/ j = k)
        /\ \A i, j \in DOMAIN ready' : ready'[i] = ready'[j] => i = j
    BY <1>0, <1>2, <1>4, Queued DEF Good, ReadyOK
  <1> DEFINE K == {k}
  <1>9. Untouched(K)
    BY <1>7, <1>8 DEF Untouched
  <1>10. NoCalls(1, K)
    BY <1>1, <1>2 DEF NoCalls, Good, UpInv
  <1>11. ReadyOK'
    <2>1. \A i \in DOMAIN ready' : In(ready'[i]) \/ ready'[i] = k
      BY <1>8 DEF In
    <2>2. \A j \in Tasks : In(j) => task[j].step \notin {"idle", "cancelled"}
      BY DEF In, Good, ReadyOK
    <2>3. \A i \in DOMAIN ready' : ready'[i] \in Tasks
      BY <1>8
    <2>4. \A i \in DOMAIN ready' : task'[ready'[i]].step \notin {"idle", "cancelled"}
      BY <1>2, <1>6, <1>7, <2>1, <2>2, <2>3 DEF Waits
    <2> QED BY <1>8, <2>4 DEF ReadyOK
  <1>12. NamedTask(k)'
    <2>1. task[k].step = "create" /\ m.ok => m.tab \in Tabs
      BY <1>1, <1>2 DEF Good, NameInv
    <2> QED BY <1>2, <1>6, <1>7, <2>1 DEF NamedTask, Waits
  <1>13. \A t : ~Runnable(k, t)
    BY <1>2 DEF Runnable
  <1>14. ASSUME NEW t \in attached, NEW j \in Tasks, up[1] = Answer(j, t, TRUE),
                Attaching(j), KeptAfter(1, t)
         PROVE  Telling(j, t)'
    <2>1. j = k /\ m.tab = t /\ m.ok = TRUE
      BY <1>1, <1>14 DEF Answer
    <2>2. Attaching(k)' /\ In(k)' /\ task'[k].ok /\ task'[k].tab = t
      BY <1>2, <1>6, <1>7, <1>8, <1>14, <2>1 DEF Attaching
    <2>3. KeptAfter(0, t)'
      <3> SUFFICES ASSUME NEW i \in DOMAIN up' PROVE ~Takes(up'[i], t)
        BY DEF KeptAfter
      <3> QED BY <1>1, <1>14 DEF Later, KeptAfter
    <2>4. Runnable(k, t)'
      BY <2>2, <2>3 DEF Runnable
    <2> QED BY <2>1, <2>4 DEF Telling
  <1> HIDE DEF k
  <1>15. \A j \in K : NamedTask(j)'
    BY <1>12
  <1>16. TurnTells(K) /\ AnswerTells(1) /\ SessionsStay(1)
    BY <1>4, <1>13, <1>14 DEF TurnTells, AnswerTells, SessionsStay
  <1> HIDE DEF K
  <1> QED BY <1>0, <1>1, <1>4, <1>7, <1>8, <1>9, <1>10, <1>11, <1>15, <1>16, RelayGood

\* Nothing but what is known of tabs changes.
LEMMA TabsGood ==
    ASSUME Good, ExtStill, UNCHANGED <<closed, down, task, ready>>, NEW n, Later(n),
           n = 1 => up[1].kind # "answer",
           known' \subseteq Tabs, IsFiniteSet(known'), SessionsStay(n)
    PROVE  Good'
  <1> DEFINE K == {}
  <1>1. Untouched(K) /\ NoCalls(n, K)
    BY DEF Untouched, NoCalls, In
  <1>2. task' \in [Tasks -> TaskStates] /\ ready' \in Seq(Tasks) /\ ReadyOK'
    BY DEF Good, Types, ReadyOK
  <1>3. \A k \in K : NamedTask(k)'
    OBVIOUS
  <1>4. TurnTells(K) /\ AnswerTells(n)
    BY DEF TurnTells, AnswerTells, Answer
  <1> HIDE DEF K
  <1> QED BY <1>1, <1>2, <1>3, <1>4, RelayGood

\* A task is spawned.
LEMMA SpawnGood ==
    ASSUME Good, ExtStill, UNCHANGED <<closed, down, session>>, NEW n, Later(n),
           n = 1 => up[1].kind # "answer",
           known' \subseteq Tabs, IsFiniteSet(known'),
           FreshTasks # {}, NEW j \in TaskStates, j.step = "start",
           j.goal \in {"spawned", "attach"} => j.tab \in Tabs,
           task' = [task EXCEPT ![Fresh] = j], ready' = Append(ready, Fresh)
    PROVE  Good'
  <1>0. ready \in Seq(Tasks) /\ task \in [Tasks -> TaskStates]
    BY DEF Good, Types
  <1>1. PICK k : k = Fresh /\ k \in FreshTasks
    BY DEF Fresh
  <1>2. k \in Tasks /\ task[k].step = "idle"
    BY <1>1 DEF FreshTasks
  <1>3. ~Waits(k) /\ ~In(k)
    BY <1>2 DEF Waits, In, Good, ReadyOK
  <1>4. task' \in [Tasks -> TaskStates] /\ task'[k] = j /\ \A i \in Tasks \ {k} : task'[i] = task[i]
    BY <1>0, <1>1, <1>2
  <1>5. /\ ready' \in Seq(Tasks) /\ \A i : In(i)' <=> (In(i) \/ i = k)
        /\ \A a, b \in DOMAIN ready' : ready'[a] = ready'[b] => a = b
    BY <1>0, <1>1, <1>2, <1>3, Queued DEF Good, ReadyOK
  <1> DEFINE K == {k}
  <1>6. Untouched(K)
    BY <1>4, <1>5 DEF Untouched
  <1>7. NoCalls(n, K)
    BY <1>3 DEF NoCalls, Good, UpInv, DownInv, RunInv, Asks
  <1>8. ReadyOK'
    <2>1. \A i \in DOMAIN ready' : In(ready'[i]) \/ ready'[i] = k
      BY <1>5 DEF In
    <2>2. \A i \in Tasks : In(i) => task[i].step \notin {"idle", "cancelled"}
      BY DEF In, Good, ReadyOK
    <2>3. \A i \in DOMAIN ready' : ready'[i] \in Tasks
      BY <1>5
    <2>4. \A i \in DOMAIN ready' : task'[ready'[i]].step \notin {"idle", "cancelled"}
      BY <1>4, <2>1, <2>2, <2>3
    <2> QED BY <1>5, <2>4 DEF ReadyOK
  <1>9. \A i \in K : NamedTask(i)'
    BY <1>4 DEF NamedTask
  <1>10. TurnTells(K) /\ SessionsStay(n)
    BY <1>3 DEF TurnTells, Runnable, SessionsStay
  <1>11. AnswerTells(n)
    BY DEF AnswerTells, Answer
  <1> HIDE DEF K
  <1> QED BY <1>4, <1>5, <1>6, <1>7, <1>8, <1>9, <1>10, <1>11, RelayGood

LEMMA RelayReceivesKeeps ==
    ASSUME Good, ExtStill, RelayReceives
    PROVE  Good'
  <1> DEFINE m == Head(up)
  <1>0. /\ up \in Seq(UpMessages) /\ task \in [Tasks -> TaskStates]
        /\ IsFiniteSet(known) /\ known \subseteq Tabs
    BY DEF Good, Types, LinkTypeOK, NameInv
  <1>1. up # <<>> /\ up' = Tail(up) /\ down' = down
    BY DEF RelayReceives
  <1>2. Later(1) /\ m = up[1] /\ 1 \in DOMAIN up /\ m \in UpMessages
    BY <1>0, <1>1, OneTaken
  <1> HIDE DEF m
  <1>3. CASE m.kind = "answer" /\ OnAnswer(m)
    BY <1>1, <1>3, AnswerKeeps DEF m
  <1>4. CASE m.kind = "created" /\ OnCreated(m)
    <2>1. m.tab \in Tabs
      BY <1>2, <1>4 DEF Good, NameInv
    <2>2. known' \subseteq Tabs /\ IsFiniteSet(known') /\ UNCHANGED <<closed, session>>
      BY <1>0, <1>4, <2>1, FS_AddElement DEF OnCreated
    <2>3. CASE auto
      <3> DEFINE j == Job("spawned", m.tab)
      <3>1. j \in TaskStates /\ j.step = "start" /\ j.tab \in Tabs
        BY <2>1 DEF Job, TaskStates
      <3>2. FreshTasks # {} /\ task' = [task EXCEPT ![Fresh] = j] /\ ready' = Append(ready, Fresh)
        BY <1>4, <2>3 DEF OnCreated
      <3> HIDE DEF j
      <3> QED BY <1>1, <1>2, <1>4, <2>2, <3>1, <3>2, SpawnGood
    <2>4. CASE ~auto
      <3>1. UNCHANGED <<task, ready>>
        BY <1>4, <2>4 DEF OnCreated, taskVars
      <3> QED BY <1>1, <1>2, <1>4, <2>2, <3>1, TabsGood DEF SessionsStay
    <2> QED BY <2>3, <2>4
  <1>5. CASE m.kind \in {"removed", "detached"} /\ OnRemoved(m)
    <2>1. session' = session \ {m.tab} /\ known' \subseteq known /\ UNCHANGED <<closed, task, ready>>
      BY <1>5 DEF OnRemoved, DetachTab, taskVars
    <2>2. SessionsStay(1)
      BY <1>2, <1>5, <2>1 DEF SessionsStay, Takes
    <2>3. IsFiniteSet(known')
      BY <1>0, <2>1, FS_Subset
    <2> QED BY <1>0, <1>1, <1>2, <1>5, <2>1, <2>2, <2>3, TabsGood
  <1>6. CASE m.kind = "initialized" /\ OnInitialized
    BY <1>0, <1>1, <1>2, <1>6, TabsGood DEF OnInitialized, tabModel, taskVars, SessionsStay
  <1>7. m.kind # "bye"
    BY <1>2 DEF Good, Types
  <1> QED BY <1>3, <1>4, <1>5, <1>6, <1>7 DEF RelayReceives, m

\* A task has its turn.
HasTurn(k) ==
    /\ ready # <<>> /\ k = Head(ready) /\ ready' = Tail(ready) /\ up' = up
    /\ closed' = closed /\ session \subseteq session' /\ known' \subseteq Tabs /\ IsFiniteSet(known')

LEMMA Turned ==
    ASSUME Good, NEW k, HasTurn(k)
    PROVE  /\ k \in Tasks /\ In(k) /\ ~Waits(k) /\ ~In(k)' /\ ready' \in Seq(Tasks)
           /\ task[k] \in TaskStates /\ task[k].step \notin {"idle", "cancelled"}
           /\ \A j : In(j)' <=> (In(j) /\ j # k)
           /\ \A i, j \in DOMAIN ready' : ready'[i] = ready'[j] => i = j
           /\ Later(0) /\ SessionsStay(0) /\ AnswerTells(0)
  <1>0. /\ ready \in Seq(Tasks) /\ task \in [Tasks -> TaskStates] /\ up \in Seq(UpMessages)
        /\ ready # <<>> /\ ready' = Tail(ready)
    BY DEF Good, Types, LinkTypeOK, HasTurn
  <1>1. /\ Tail(ready) \in Seq(Tasks) /\ 1 \in DOMAIN ready /\ Head(ready) = ready[1] /\ ready[1] \in Tasks
        /\ \A i \in DOMAIN Tail(ready) :
             i + 1 \in DOMAIN ready /\ Tail(ready)[i] = ready[i + 1] /\ i \in Nat \ {0}
        /\ \A i \in DOMAIN ready \ {1} :
             i - 1 \in DOMAIN Tail(ready) /\ Tail(ready)[i - 1] = ready[i] /\ i \in Nat
    BY <1>0, TailOf
  <1>2. k = ready[1] /\ k \in Tasks /\ In(k)
    BY <1>1 DEF In, HasTurn
  <1>3. \A i, j \in DOMAIN ready : ready[i] = ready[j] => i = j
    BY DEF Good, ReadyOK
  <1>4. \A i \in DOMAIN ready' : ready'[i] # k
    BY <1>0, <1>1, <1>2, <1>3
  <1>5. \A j : In(j) /\ j # k => \E i \in DOMAIN ready' : ready'[i] = j
    <2> SUFFICES ASSUME NEW j, In(j), j # k PROVE \E i \in DOMAIN ready' : ready'[i] = j
      OBVIOUS
    <2>1. PICK i \in DOMAIN ready : ready[i] = j
      BY DEF In
    <2> QED BY <1>0, <1>1, <1>2, <2>1
  <1>6. \A j : In(j)' <=> (In(j) /\ j # k)
    <2>1. ASSUME NEW j, In(j)' PROVE In(j) /\ j # k
      <3>1. PICK i \in DOMAIN ready' : ready'[i] = j
        BY <2>1 DEF In
      <3>2. i + 1 \in DOMAIN ready /\ ready[i + 1] = j
        BY <1>0, <1>1, <3>1
      <3> QED BY <1>4, <3>1, <3>2 DEF In
    <2>2. ASSUME NEW j, In(j), j # k PROVE In(j)'
      BY <1>5, <2>2 DEF In
    <2> QED BY <2>1, <2>2
  <1>7. ASSUME NEW i \in DOMAIN ready', NEW j \in DOMAIN ready', ready'[i] = ready'[j]
        PROVE  i = j
    <2>1. i + 1 = j + 1
      BY <1>0, <1>1, <1>3, <1>7
    <2> QED BY <1>0, <1>1, <2>1
  <1>8. task[k].step \notin {"idle", "cancelled"}
    BY <1>1, <1>2 DEF Good, ReadyOK
  <1>9. Later(0) /\ SessionsStay(0) /\ AnswerTells(0)
    BY <1>0, NothingTaken DEF HasTurn, SessionsStay, AnswerTells
  <1> QED BY <1>0, <1>1, <1>2, <1>6, <1>7, <1>8, <1>9 DEF Waits

LEMMA TurnGood ==
    ASSUME Good, ExtStill, NEW k, HasTurn(k), NEW s \in TaskStates, task' = [task EXCEPT ![k] = s],
           s.step # "start", TurnTells({k}),
           \/ down' = down
           \/ \E c : /\ Sends(c) /\ c.task = k /\ c.kind = s.step
                     /\ s.step \notin {"idle", "cancelled"}
                     /\ c.kind = "attach" => c.tab \in Tabs
    PROVE  Good'
  <1>0. /\ k \in Tasks /\ In(k) /\ ~Waits(k) /\ ~In(k)' /\ ready' \in Seq(Tasks)
        /\ \A j : In(j)' <=> (In(j) /\ j # k)
        /\ \A i, j \in DOMAIN ready' : ready'[i] = ready'[j] => i = j
        /\ Later(0) /\ SessionsStay(0) /\ AnswerTells(0)
    BY Turned
  <1>1. task \in [Tasks -> TaskStates]
    BY DEF Good, Types
  <1>2. task' \in [Tasks -> TaskStates] /\ task'[k] = s /\ \A j \in Tasks \ {k} : task'[j] = task[j]
    BY <1>0, <1>1
  <1> DEFINE K == {k}
  <1>3. Untouched(K)
    BY <1>0, <1>2 DEF Untouched
  <1>4. NoCalls(0, K)
    BY <1>0 DEF NoCalls, Good, UpInv, DownInv, RunInv, Asks
  <1>5. ReadyOK'
    <2>1. \A i \in DOMAIN ready' : In(ready'[i]) /\ ready'[i] # k /\ ready'[i] \in Tasks
      <3>1. \A j : (\E i \in DOMAIN ready' : ready'[i] = j) <=> (In(j) /\ j # k)
        BY <1>0 DEF In
      <3>2. \A i \in DOMAIN ready' : ready'[i] \in Tasks
        BY <1>0
      <3> QED BY <3>1, <3>2
    <2>2. \A i : In(i) => task[i].step \notin {"idle", "cancelled"}
      BY DEF In, Good, ReadyOK
    <2>3. \A i \in DOMAIN ready' : task'[ready'[i]].step \notin {"idle", "cancelled"}
      BY <1>2, <2>1, <2>2
    <2> QED BY <1>0, <2>3 DEF ReadyOK
  <1>6. \A j \in K : NamedTask(j)'
    BY <1>0, <1>2 DEF NamedTask
  <1>7. \/ down' = down
        \/ \E c : /\ Sends(c) /\ c.task \in K /\ ~Waits(c.task) /\ Asks(c)'
                  /\ c.kind = "attach" => c.tab \in Tabs
    <2>1. CASE down' = down
      BY <2>1
    <2>2. CASE down' # down
      <3>1. PICK c : /\ Sends(c) /\ c.task = k /\ c.kind = s.step
                     /\ s.step \notin {"idle", "cancelled"}
                     /\ c.kind = "attach" => c.tab \in Tabs
        BY <2>2
      <3>2. Asks(c)'
        BY <1>0, <1>2, <3>1 DEF Asks, Waits
      <3> QED BY <1>0, <3>1, <3>2
    <2> QED BY <2>1, <2>2
  <1>8. /\ TurnTells(K) /\ closed' = closed /\ known' \subseteq Tabs /\ IsFiniteSet(known')
    BY DEF HasTurn
  <1> HIDE DEF K
  <1> QED BY <1>0, <1>2, <1>3, <1>4, <1>5, <1>6, <1>7, <1>8, RelayGood

LEMMA EndKeeps ==
    ASSUME Good, ExtStill, NEW k, HasTurn(k), TurnTells({k}), End(k, Tail(ready))
    PROVE  Good'
  <1>1. Idle \in TaskStates /\ Idle.step # "start"
    BY DEF Idle, TaskStates
  <1> QED BY <1>1, TurnGood DEF End

LEMMA AskKeeps ==
    ASSUME Good, ExtStill, NEW k, HasTurn(k), TurnTells({k}), NEW t \in Tabs \cup {NoTab},
           NEW step \in {"attach", "info", "create", "remove", "command"},
           step = "attach" => t \in Tabs, Ask(k, t, step, Tail(ready))
    PROVE  Good'
  <1> DEFINE s == [task[k] EXCEPT !.step = step, !.tab = t]
             c == Command(step, k, t)
  <1>1. k \in Tasks /\ task[k] \in TaskStates
    BY Turned
  <1>2. s \in TaskStates /\ s.step = step
    BY <1>1 DEF TaskStates
  <1>3. c \in Commands /\ c.task = k /\ c.kind = step /\ c.tab = t
    BY <1>1 DEF Command, Commands
  <1>4. task' = [task EXCEPT ![k] = s] /\ down' = Append(down, c)
    BY DEF Ask, Good, Types
  <1> HIDE DEF s, c
  <1>5. /\ Sends(c) /\ c.task = k /\ c.kind = s.step /\ s.step \notin {"idle", "cancelled"}
        /\ c.kind = "attach" => c.tab \in Tabs
    BY <1>2, <1>3, <1>4 DEF Sends
  <1>6. s.step # "start"
    BY <1>2
  <1> QED BY <1>2, <1>4, <1>5, <1>6, TurnGood

LEMMA RunTaskKeeps ==
    ASSUME Good, ExtStill, RunTask
    PROVE  Good'
  <1> DEFINE k == Head(ready)
             rest == Tail(ready)
  <1>0. IsFiniteSet(known) /\ known \subseteq Tabs /\ task \in [Tasks -> TaskStates] /\ ~closed
    BY DEF Good, Types, NameInv
  <1>1. ready # <<>> /\ UNCHANGED <<up, closed>>
    BY DEF RunTask
  <1>2. ready' = rest
    BY DEF RunTask, Begins, Ends, Created, AttachDone, InfoDone, StartAttach, Ask, End
  <1>3. PICK kk : kk = k
    OBVIOUS
  <1>4. ASSUME session \subseteq session', known' \subseteq Tabs, IsFiniteSet(known')
        PROVE  HasTurn(kk)
    BY <1>1, <1>2, <1>3, <1>4 DEF HasTurn
  <1>5. kk \in Tasks /\ task[kk] \in TaskStates /\ task[kk].tab \in Tabs \cup {NoTab} /\ In(kk)
    <2>1. ready \in Seq(Tasks)
      BY DEF Good, Types
    <2>2. 1 \in DOMAIN ready /\ Head(ready) = ready[1] /\ ready[1] \in Tasks
      BY <1>1, <2>1, TailOf
    <2> QED BY <1>0, <1>3, <2>2 DEF TaskStates, In
  <1>n. NamedTask(kk)
    BY <1>5 DEF Good, NameInv
  <1>6. CASE Begins(kk, rest)
    <2>1. UNCHANGED <<known, session>> /\ task[kk].step = "start"
      BY <1>6 DEF Begins, tabModel
    <2>2. HasTurn(kk) /\ TurnTells({kk})
      BY <1>0, <1>4, <2>1 DEF TurnTells, Runnable, Attaching
    <2>3. CASE task[kk].goal \in {"spawned", "attach"} /\ StartAttach(kk, task[kk].tab, rest)
      <3>1. task[kk].tab \in Tabs
        BY <1>n, <2>1, <2>3 DEF NamedTask
      <3>2. End(kk, rest) \/ Ask(kk, task[kk].tab, "attach", rest)
        BY <2>3 DEF StartAttach
      <3> QED BY <1>5, <2>2, <3>1, <3>2, EndKeeps, AskKeeps
    <2>4. CASE Ask(kk, NoTab, "create", rest)
      BY <2>2, <2>4, AskKeeps
    <2>5. CASE /\ task[kk].goal \in {"remove", "command"}
               /\ IF task[kk].tab \in session THEN Ask(kk, task[kk].tab, task[kk].goal, rest) ELSE End(kk, rest)
      BY <1>5, <2>2, <2>5, EndKeeps, AskKeeps
    <2> QED BY <1>6, <2>3, <2>4, <2>5 DEF Begins
  <1>7. CASE Ends(kk, rest)
    <2>1. UNCHANGED <<known, session>> /\ End(kk, rest)
      BY <1>7 DEF Ends, tabModel
    <2>2. HasTurn(kk) /\ TurnTells({kk})
      BY <1>0, <1>4, <1>7, <2>1 DEF TurnTells, Runnable, Attaching, Ends
    <2> QED BY <2>1, <2>2, EndKeeps
  <1>8. CASE Created(kk, rest)
    <2>1. /\ known' = known \cup {task[kk].tab} /\ session' = session
          /\ task[kk].step = "create" /\ task[kk].ok
      BY <1>8 DEF Created
    <2>2. task[kk].tab \in Tabs
      BY <1>5, <1>n, <2>1 DEF NamedTask
    <2>3. HasTurn(kk) /\ TurnTells({kk})
      BY <1>0, <1>4, <2>1, <2>2, FS_AddElement DEF TurnTells, Runnable, Attaching
    <2>4. End(kk, rest) \/ Ask(kk, task[kk].tab, "attach", rest)
      BY <1>8 DEF Created, StartAttach
    <2> QED BY <1>5, <2>2, <2>3, <2>4, EndKeeps, AskKeeps
  <1>9. CASE AttachDone(kk, rest)
    <2> DEFINE c == Command("info", kk, task[kk].tab)
    <2>1. /\ UNCHANGED <<known, session>> /\ Ask(kk, task[kk].tab, "info", rest)
          /\ down' = Append(down, c) /\ task'[kk] = [task[kk] EXCEPT !.step = "info", !.tab = task[kk].tab]
      BY <1>0, <1>5, <1>9 DEF AttachDone, tabModel, Ask
    <2>2. c \in Commands /\ down \in Seq(Commands)
      BY <1>5 DEF Command, Commands, Good, Types, LinkTypeOK
    <2>3. ASSUME NEW t \in attached, Runnable(kk, t) PROVE Telling(kk, t)'
      <3>1. task[kk].tab = t /\ KeptAfter(0, t)
        BY <2>3 DEF Runnable
      <3>2. KeptAfter(0, t)'
        BY <1>1, <3>1 DEF KeptAfter
      <3>3. Attaching(kk)'
        BY <1>5, <2>1 DEF Attaching, TaskStates
      <3>4. \E i \in DOMAIN down' : down'[i] = c
        <4> HIDE DEF c
        <4> QED BY <2>1, <2>2
      <3>5. Asking(kk, t)'
        BY <3>1, <3>2, <3>3, <3>4 DEF Asking, Command
      <3> QED BY <3>5 DEF Telling
    <2>4. HasTurn(kk) /\ TurnTells({kk})
      BY <1>0, <1>4, <2>1, <2>3 DEF TurnTells
    <2> QED BY <1>5, <2>1, <2>4, AskKeeps
  <1>10. CASE InfoDone(kk, rest)
    <2>1. session' = session \cup {task[kk].tab} /\ known' = known /\ End(kk, rest)
      BY <1>10 DEF InfoDone
    <2>2. ASSUME NEW t \in attached, Runnable(kk, t) PROVE Told(t)'
      BY <1>1, <2>1, <2>2 DEF Runnable, Told, KeptAfter
    <2>3. HasTurn(kk) /\ TurnTells({kk})
      BY <1>0, <1>4, <2>1, <2>2 DEF TurnTells
    <2> QED BY <2>1, <2>3, EndKeeps
  <1> QED BY <1>3, <1>6, <1>7, <1>8, <1>9, <1>10 DEF RunTask

-----------------------------------------------------------------------------
(* Steps of the client, and the theorem *)

LEMMA AutoAttachKeeps ==
    ASSUME Good, ExtStill, AutoAttach
    PROVE  Good'
  <1>0. /\ ready \in Seq(Tasks) /\ task \in [Tasks -> TaskStates] /\ up \in Seq(UpMessages)
        /\ known \subseteq Tabs /\ IsFiniteSet(known)
    BY DEF Good, Types, LinkTypeOK, NameInv
  <1>1. PICK f \in [known -> FreshTasks] :
          /\ task' = [k \in Tasks |-> IF \E t \in known : f[t] = k
                                      THEN Job("attach", CHOOSE t \in known : f[t] = k) ELSE task[k]]
          /\ ready' = ready \o SetToSeq({f[t] : t \in known})
    BY DEF AutoAttach
  <1>2. UNCHANGED <<up, down, closed, known, session>>
    BY DEF AutoAttach, linkVars, tabModel
  <1> DEFINE K == {f[t] : t \in known}
             q == SetToSeq(K)
  <1>3. K \subseteq FreshTasks /\ IsFiniteSet(K)
    <2>1. f \in Surjection(known, K)
      BY DEF Surjection
    <2> QED BY <1>0, <2>1, FS_Surjection
  <1>4. \A k \in K : k \in Tasks /\ ~In(k) /\ ~Waits(k)
    BY <1>3 DEF FreshTasks, In, Waits, Good, ReadyOK
  <1>5. q \in Seq(K) /\ \A i, j \in DOMAIN q : q[i] = q[j] => i = j
    BY <1>3, SetToSeqOf
  <1>6. ASSUME NEW k \in K
        PROVE  task'[k] \in TaskStates /\ task'[k].step = "start" /\ task'[k].tab \in Tabs
    <2> DEFINE t == CHOOSE u \in known : f[u] = k
    <2>1. t \in known /\ \E u \in known : f[u] = k
      BY <1>6
    <2>2. task'[k] = Job("attach", t)
      BY <1>1, <1>4, <2>1
    <2>3. t \in Tabs
      BY <1>0, <2>1
    <2> HIDE DEF t
    <2> QED BY <2>2, <2>3 DEF Job, TaskStates
  <1>7. \A k \in Tasks \ K : task'[k] = task[k]
    BY <1>1
  <1>8. ready' = ready \o q
    BY <1>1
  <1>9. task' = [k \in Tasks |-> task'[k]]
    BY <1>1
  <1> HIDE DEF K, q
  <1>10. task' \in [Tasks -> TaskStates]
    <2>1. \A k \in Tasks : task'[k] \in TaskStates
      BY <1>0, <1>6, <1>7
    <2> QED BY <1>9, <2>1
  <1>11. /\ q \in Seq(Tasks) /\ DOMAIN q = 1..Len(q) /\ Len(q) \in Nat
         /\ \A i \in DOMAIN q : q[i] \in K
    BY <1>4, <1>5
  <1>12. /\ ready' \in Seq(Tasks) /\ DOMAIN ready' = 1..(Len(ready) + Len(q))
         /\ DOMAIN ready = 1..Len(ready) /\ Len(ready) \in Nat
         /\ \A i \in DOMAIN ready' : ready'[i] = IF i <= Len(ready) THEN ready[i] ELSE q[i - Len(ready)]
    BY <1>0, <1>8, <1>11
  <1>13. \A i \in DOMAIN ready' : /\ i \in Nat
                                  /\ i <= Len(ready) => i \in DOMAIN ready /\ ready'[i] = ready[i]
                                  /\ i > Len(ready) => /\ i - Len(ready) \in DOMAIN q
                                                       /\ ready'[i] = q[i - Len(ready)]
                                                       /\ ready'[i] \in K
    BY <1>11, <1>12
  <1>14. \A k : k \notin K => (In(k)' <=> In(k))
    <2>1. ASSUME NEW k, In(k) PROVE In(k)'
      <3>1. PICK i \in DOMAIN ready : ready[i] = k
        BY <2>1 DEF In
      <3>2. i \in DOMAIN ready' /\ ready'[i] = k
        BY <1>11, <1>12, <3>1
      <3> QED BY <3>2 DEF In
    <2>2. ASSUME NEW k, k \notin K, In(k)' PROVE In(k)
      BY <1>12, <1>13, <2>2 DEF In
    <2> QED BY <2>1, <2>2
  <1>15. Untouched(K)
    BY <1>7, <1>14 DEF Untouched
  <1>16. NoCalls(0, K)
    BY <1>4 DEF NoCalls, Good, UpInv, DownInv, RunInv, Asks
  <1>17. ReadyOK'
    <2>1. ASSUME NEW i \in DOMAIN ready' PROVE task'[ready'[i]].step \notin {"idle", "cancelled"}
      <3>1. CASE i > Len(ready)
        BY <1>6, <1>13, <3>1
      <3>2. CASE i <= Len(ready)
        <4>1. In(ready'[i]) /\ ready'[i] = ready[i] /\ i \in DOMAIN ready
          BY <1>13, <3>2 DEF In
        <4>2. ready[i] \in Tasks /\ ready[i] \notin K
          BY <1>0, <1>4, <4>1
        <4> QED BY <1>7, <4>1, <4>2 DEF Good, ReadyOK
      <3> QED BY <1>12, <1>13, <3>1, <3>2
    <2>2. ASSUME NEW i \in DOMAIN ready', NEW j \in DOMAIN ready', ready'[i] = ready'[j] PROVE i = j
      <3>1. CASE i <= Len(ready) /\ j <= Len(ready)
        BY <1>13, <2>2, <3>1 DEF Good, ReadyOK
      <3>2. CASE i > Len(ready) /\ j > Len(ready)
        <4>1. i - Len(ready) = j - Len(ready)
          BY <1>5, <1>13, <2>2, <3>2
        <4> QED BY <1>12, <1>13, <4>1
      <3>3. ASSUME NEW a \in DOMAIN ready', NEW b \in DOMAIN ready', a <= Len(ready), b > Len(ready)
            PROVE  ready'[a] # ready'[b]
        <4>1. In(ready'[a])
          BY <1>13, <3>3 DEF In
        <4> QED BY <1>4, <1>13, <3>3, <4>1
      <3> QED BY <1>12, <1>13, <2>2, <3>1, <3>2, <3>3
    <2> QED BY <2>1, <2>2 DEF ReadyOK
  <1>18. \A k \in K : NamedTask(k)'
    BY <1>6 DEF NamedTask
  <1>19. TurnTells(K) /\ SessionsStay(0) /\ AnswerTells(0) /\ Later(0)
    BY <1>0, <1>2, <1>4, NothingTaken DEF TurnTells, Runnable, SessionsStay, AnswerTells
  <1>20. closed' = closed /\ known' \subseteq Tabs /\ IsFiniteSet(known') /\ down' = down
    BY <1>0, <1>2
  <1> QED BY <1>10, <1>12, <1>15, <1>16, <1>17, <1>18, <1>19, <1>20, RelayGood

LEMMA ClientAsksKeeps ==
    ASSUME Good, ExtStill, NEW goal \in {"create", "remove", "command"}, NEW t \in Tabs \cup {NoTab},
           ClientAsks(goal, t)
    PROVE  Good'
  <1> DEFINE j == Job(goal, t)
  <1>1. j \in TaskStates /\ j.step = "start" /\ j.goal = goal
    BY DEF Job, TaskStates
  <1>2. /\ FreshTasks # {} /\ task' = [task EXCEPT ![Fresh] = j] /\ ready' = Append(ready, Fresh)
        /\ UNCHANGED <<up, down, closed, known, session>>
    BY DEF ClientAsks, linkVars, tabModel
  <1>3. j.goal \notin {"spawned", "attach"}
    BY <1>1
  <1> HIDE DEF j
  <1>4. PICK n : n = 0
    OBVIOUS
  <1>5. known' \subseteq Tabs /\ IsFiniteSet(known') /\ Later(n)
    BY <1>2, <1>4, NothingTaken DEF Good, NameInv, Types, LinkTypeOK
  <1>6. n # 1 /\ UNCHANGED <<closed, down, session>>
    BY <1>2, <1>4
  <1> QED BY <1>1, <1>2, <1>3, <1>5, <1>6, SpawnGood

LEMMA RelayKeeps ==
    ASSUME Good, ExtStill, client' # "gone", RelayStep \/ ClientCommand
    PROVE  Good'
  <1>1. CASE ClientConnects
    <2>1. UNCHANGED <<up, down, closed, known, session, task, ready>>
      BY <1>1 DEF ClientConnects, linkVars, tabModel, taskVars
    <2>2. known' \subseteq Tabs /\ IsFiniteSet(known') /\ Later(0) /\ SessionsStay(0)
      BY <2>1, NothingTaken DEF Good, NameInv, Types, LinkTypeOK, SessionsStay
    <2> QED BY <2>1, <2>2, TabsGood
  <1>2. ~ClientLeaves
    BY DEF ClientLeaves
  <1> QED BY <1>1, <1>2, RelayReceivesKeeps, RunTaskKeeps, AutoAttachKeeps, ClientAsksKeeps
          DEF RelayStep, ClientCommand

LEMMA InitGood == Init => Inv
  <1> SUFFICES ASSUME Init PROVE Good
    BY DEF Inv
  <1> DEFINE m == Event("created", Picked)
             o == Event("initialized", NoTab)
  <1>1. /\ up = <<m, o>> /\ down = <<>> /\ ready = <<>> /\ running = {} /\ attached = {}
        /\ known = {} /\ closed = FALSE /\ offered = {Picked} /\ task = [k \in Tasks |-> Idle]
    BY DEF Init, RelayInit, ExtInit
  <1>2. m \in UpMessages /\ m.kind = "created" /\ m.tab \in Tabs /\ o \in UpMessages /\ o.kind = "initialized"
    BY PickedAssumption DEF Event, UpMessages
  <1> HIDE DEF m, o
  <1>3. /\ up \in Seq(UpMessages) /\ down \in Seq(Commands) /\ ready \in Seq(Tasks)
        /\ DOMAIN up = {1, 2} /\ up[1] = m /\ up[2] = o /\ DOMAIN down = {} /\ DOMAIN ready = {}
    BY <1>1, <1>2
  <1>4. Idle \in TaskStates /\ Idle.step = "idle"
    BY DEF Idle, TaskStates
  <1>5. Types
    BY <1>1, <1>2, <1>3, <1>4, FS_EmptySet DEF Types, LinkTypeOK
  <1>6. ReadyOK /\ DownInv /\ RunInv
    BY <1>1, <1>3 DEF ReadyOK, DownInv, RunInv
  <1>7. UpInv
    BY <1>2, <1>3 DEF UpInv, Reply
  <1>8. TabInv /\ TellInv
    BY <1>1, PickedAssumption DEF TabInv, TellInv
  <1>9. NameInv
    BY <1>1, <1>2, <1>3, <1>4 DEF NameInv, NamedTask, Reply
  <1> QED BY <1>5, <1>6, <1>7, <1>8, <1>9 DEF Good

\* A connection that is closed stays closed.
LEMMA ClosedForGood ==
    ASSUME ~alive, ExtStep \/ Incident
    PROVE  ~alive'
  <1>1. CASE ExtReceives
    BY <1>1 DEF ExtReceives
  <1>2. ASSUME NEW c \in running, Call(c) \/ CallFails(c) PROVE ~alive'
    BY <1>2 DEF Call, CallFails, Attach, Forward, Create, TabCloses
  <1>3. ASSUME NEW t \in Tabs, Timer(t) \/ CooledDown(t) \/ Joined(t) PROVE ~alive'
    BY <1>3 DEF Timer, TryReattach, Verified, CooledDown, Joined, Checked, Closed
  <1>4. CASE UserDisconnects
    BY <1>4 DEF UserDisconnects
  <1>5. ASSUME NEW t \in Tabs,
               \/ TargetDetached(t) \/ Cancelled(t) \/ TabCloses(t)
               \/ DragIn(t) \/ DragOut(t) \/ Navigated(t) \/ Popup(t)
        PROVE  ~alive'
    BY <1>5 DEF TargetDetached, Cancelled, TabCloses, DragIn, DragOut, Navigated, Popup
  <1> QED BY <1>1, <1>2, <1>3, <1>4, <1>5 DEF ExtStep, Incident

LEMMA NextGood == Inv /\ [Next]_vars => Inv'
  <1> SUFFICES ASSUME Inv, [Next]_vars, Live' PROVE Good'
    BY DEF Inv
  <1>1. CASE (RelayStep \/ ClientCommand) /\ UNCHANGED extVars
    <2>1. alive' = alive /\ ExtStill
      BY <1>1 DEF extVars, tabVars, ExtStill
    <2>2. client # "gone"
      BY <1>1, <2>1 DEF Live, RelayStep, ClientCommand, RelayReceives, OnAnswer, OnCreated, OnRemoved,
             OnInitialized, OnBye, RunTask, ClientConnects, AutoAttach, ClientLeaves, ClientAsks
    <2> QED BY <1>1, <2>1, <2>2, RelayKeeps DEF Inv, Live
  <1>2. CASE (ExtStep \/ Incident) /\ UNCHANGED relayVars
    <2>1. client' = client /\ Still
      BY <1>2 DEF relayVars, tabModel, taskVars, Still
    <2>2. alive
      BY <1>2, ClosedForGood DEF Live
    <2> QED BY <1>2, <2>1, <2>2, ExtKeeps DEF Inv, Live
  <1>3. CASE UNCHANGED vars
    <2>1. Still /\ ExtStill /\ UNCHANGED <<up, down, alive>>
      BY <1>3 DEF vars, linkVars, relayVars, extVars, tabModel, taskVars, tabVars, Still, ExtStill
    <2>2. Good
      BY <2>1 DEF Inv, Live, Still
    <2>3. known' \subseteq Tabs /\ IsFiniteSet(known') /\ Later(0) /\ SessionsStay(0)
      BY <2>1, <2>2, NothingTaken DEF Good, NameInv, Types, LinkTypeOK, SessionsStay, Still
    <2> QED BY <2>1, <2>2, <2>3, TabsGood DEF Still
  <1> QED BY <1>1, <1>2, <1>3 DEF Next

\* While the connection and the client live, whatever detaches, comes back, is dragged
\* or closed, and however attaches and answers cross on the link: when nothing is on its
\* way the client has a session of every tab the extension has its debugger at.
THEOREM TabsAreTold == Spec => []AttachedIsTold
  <1>1. Inv => AttachedIsTold
    <2> SUFFICES ASSUME Inv, Quiet, alive, client = "here", NEW t \in attached PROVE t \in session
      BY DEF AttachedIsTold
    <2>1. TellInv
      BY DEF Inv, Live, Good
    <2>2. \A k \in Tasks : ~Telling(k, t)
      BY DEF Quiet, Telling, Answered, Runnable, Asking, Attaching, Busy
    <2> QED BY <2>1, <2>2 DEF TellInv, Told
  <1> QED BY <1>1, InitGood, NextGood, PTL DEF Spec

\* While the connection and the client live, no answer comes twice, or for a call that
\* nobody waits for any more: each call of the relay is in one place, and the task that
\* made it waits there and has no turn meanwhile (_ext_pending of ExtensionBridge).
THEOREM CallsAreInOnePlace == Spec => [](Live => ReadyOK /\ DownInv /\ RunInv /\ UpInv)
  <1>1. Inv => (Live => ReadyOK /\ DownInv /\ RunInv /\ UpInv)
    BY DEF Inv, Good
  <1> QED BY <1>1, InitGood, NextGood, PTL DEF Spec

-----------------------------------------------------------------------------
(* From its start to its end, whoever ends it: what the messages name, which   *)
(* turns there are, and where the calls and the ends are that are under way.   *)

News == {m \in UpMessages : m.kind = "created" \/ (m.kind = "answer" /\ m.ok) => m.tab \in Tabs}
Orders == {c \in Commands : c.kind \notin {"create", "bye"} => c.tab \in Tabs}
Held == {c \in Orders : c.kind # "bye"}

\* The messages s end the link; or they do, or answer the task k.
HasBye(s) == \E i \in DOMAIN s : s[i].kind = "bye"
Carries(s, k) == HasBye(s) \/ \E i \in DOMAIN s : s[i].kind = "answer" /\ s[i].task = k
OnTheWay(k) == (\E c \in running : c.task = k) \/ \E i \in DOMAIN down : down[i].task = k

LineInv ==
    /\ up \in Seq(News) /\ down \in Seq(Orders)
    /\ running \subseteq Held /\ IsFiniteSet(running)
    /\ alive => ~HasBye(up)
    /\ alive => \A c \in running : c.kind \in {"info", "command"} => c.tab \in attached

\* What a step of the extension does to the line.
Answering ==
    /\ up' \in Seq(News)
    /\ \A k : Carries(up, k) => Carries(up', k)
    /\ HasBye(up) => HasBye(up')
    /\ running' \subseteq Held /\ IsFiniteSet(running')
    /\ alive' => ~HasBye(up')
    /\ alive /\ ~alive' => HasBye(up')
    /\ alive' => \A c \in running' : c.kind \in {"info", "command"} => c.tab \in attached'
    /\ alive => \A c \in running : c \in running' \/ Carries(up', c.task)

Plain(s) == s \in Seq(News) /\ ~HasBye(s)

LEMMA Concatenated ==
    ASSUME NEW s \in Seq(News), NEW m \in Seq(News)
    PROVE  /\ s \o m \in Seq(News)
           /\ HasBye(s \o m) <=> HasBye(s) \/ HasBye(m)
           /\ \A k : Carries(s \o m, k) <=> Carries(s, k) \/ Carries(m, k)
  <1> DEFINE q == s \o m
  <1>1. /\ q \in Seq(News)
        /\ \A i \in DOMAIN s : i \in DOMAIN q /\ q[i] = s[i]
        /\ \A i \in DOMAIN m : i + Len(s) \in DOMAIN q /\ q[i + Len(s)] = m[i]
        /\ \A i \in DOMAIN q : \/ i \in DOMAIN s /\ q[i] = s[i]
                               \/ i - Len(s) \in DOMAIN m /\ q[i] = m[i - Len(s)]
    OBVIOUS
  <1> HIDE DEF q
  <1>2. HasBye(q) <=> HasBye(s) \/ HasBye(m)
    <2>1. ASSUME HasBye(q) PROVE HasBye(s) \/ HasBye(m)
      BY <1>1, <2>1 DEF HasBye
    <2>2. ASSUME HasBye(s) PROVE HasBye(q)
      BY <1>1, <2>2 DEF HasBye
    <2>3. ASSUME HasBye(m) PROVE HasBye(q)
      BY <1>1, <2>3 DEF HasBye
    <2> QED BY <2>1, <2>2, <2>3
  <1> DEFINE Has(r, k) == \E i \in DOMAIN r : r[i].kind = "answer" /\ r[i].task = k
  <1>3. ASSUME NEW k PROVE Has(q, k) <=> Has(s, k) \/ Has(m, k)
    <2>1. ASSUME Has(q, k) PROVE Has(s, k) \/ Has(m, k)
      BY <1>1, <2>1
    <2>2. ASSUME Has(s, k) PROVE Has(q, k)
      BY <1>1, <2>2
    <2>3. ASSUME Has(m, k) PROVE Has(q, k)
      BY <1>1, <2>3
    <2> QED BY <2>1, <2>2, <2>3
  <1>4. \A r, k : Carries(r, k) <=> HasBye(r) \/ Has(r, k)
    BY DEF Carries
  <1> HIDE DEF Has
  <1>5. \A k : Carries(q, k) <=> Carries(s, k) \/ Carries(m, k)
    BY <1>2, <1>3, <1>4
  <1> QED BY <1>1, <1>2, <1>5 DEF q

LEMMA OneNews ==
    ASSUME NEW a \in News
    PROVE  /\ <<a>> \in Seq(News) /\ (HasBye(<<a>>) <=> a.kind = "bye")
           /\ a.kind = "answer" => Carries(<<a>>, a.task)
  <1>1. <<a>> \in Seq(News) /\ DOMAIN <<a>> = {1} /\ <<a>>[1] = a
    OBVIOUS
  <1> QED BY <1>1 DEF HasBye, Carries

LEMMA PlainAnswer ==
    ASSUME NEW k \in Tasks \cup {NoTask}, NEW t \in Tabs \cup {NoTab}, NEW ok \in BOOLEAN, ok => t \in Tabs
    PROVE  Plain(<<Answer(k, t, ok)>>) /\ Carries(<<Answer(k, t, ok)>>, k)
  <1> DEFINE a == Answer(k, t, ok)
  <1>1. a \in News /\ a.kind = "answer" /\ a.task = k
    BY DEF Answer, News, UpMessages
  <1> HIDE DEF a
  <1>2. Plain(<<a>>) /\ Carries(<<a>>, k)
    BY <1>1, OneNews DEF Plain
  <1> QED BY <1>2 DEF a

LEMMA PlainEvent ==
    ASSUME NEW kind \in {"created", "removed", "detached"}, NEW t \in Tabs
    PROVE  Plain(<<Event(kind, t)>>)
  <1> DEFINE a == Event(kind, t)
  <1>1. a \in News /\ a.kind = kind
    BY DEF Event, News, UpMessages
  <1> HIDE DEF a
  <1>2. Plain(<<a>>)
    BY <1>1, OneNews DEF Plain
  <1> QED BY <1>2 DEF a

LEMMA ByeNews == <<Bye>> \in Seq(News) /\ HasBye(<<Bye>>)
  <1>1. Bye \in News /\ Bye.kind = "bye"
    BY DEF Bye, Event, News, UpMessages
  <1> QED BY <1>1, OneNews

LEMMA PlainNone == Plain(<<>>)
  BY DEF Plain, HasBye

LEMMA PlainJoin ==
    ASSUME NEW s, NEW m, Plain(s), Plain(m)
    PROVE  Plain(s \o m) /\ \A k : Carries(s, k) \/ Carries(m, k) => Carries(s \o m, k)
  BY Concatenated DEF Plain

\* A sequence of all the members of a set.
LEMMA SetToSeqAll ==
    ASSUME NEW S, IsFiniteSet(S)
    PROVE  \A x \in S : \E i \in DOMAIN SetToSeq(S) : SetToSeq(S)[i] = x
  <1>1. PICK n \in Nat : n = Cardinality(S) /\ ExistsBijection(1..n, S)
    BY FS_CardinalityType
  <1>2. PICK f \in Bijection(1..n, S) : TRUE
    BY <1>1 DEF ExistsBijection
  <1>3. f \in [1..n -> S] /\ IsInjective(f)
    BY <1>2 DEF Bijection, Injection, IsInjective
  <1>4. SetToSeq(S) = CHOOSE g \in [1..n -> S] : IsInjective(g)
    BY <1>1 DEF SetToSeq
  <1>5. SetToSeq(S) \in [1..n -> S] /\ IsInjective(SetToSeq(S))
    BY <1>3, <1>4
  <1> DEFINE q == SetToSeq(S)
  <1> HIDE DEF q
  <1>6. q \in Injection(1..n, S)
    BY <1>5 DEF q, Injection, IsInjective
  <1>7. Cardinality(1..n) = n
    BY FS_Interval
  <1>8. q \in Surjection(1..n, S)
    BY <1>1, <1>6, <1>7, FS_Injection
  <1> QED BY <1>8 DEF Surjection, q

LEMMA PlainRefusals ==
    ASSUME NEW S, S \subseteq Held, IsFiniteSet(S)
    PROVE  Plain(Refusals(S)) /\ \A c \in S : Carries(Refusals(S), c.task)
  <1> DEFINE T == {Answer(c.task, c.tab, FALSE) : c \in S}
             f == [c \in S |-> Answer(c.task, c.tab, FALSE)]
             q == SetToSeq(T)
  <1>1. f \in Surjection(S, T)
    BY DEF Surjection
  <1>2. IsFiniteSet(T)
    BY <1>1, FS_Surjection
  <1>3. ASSUME NEW c \in S
        PROVE  LET m == Answer(c.task, c.tab, FALSE) IN m \in News /\ m.kind = "answer" /\ m.task = c.task
    BY DEF Answer, News, UpMessages, Held, Orders, Commands
  <1>4. \A m \in T : m \in News /\ m.kind = "answer"
    BY <1>3
  <1>5. \A c \in S : \E m \in T : m.kind = "answer" /\ m.task = c.task
    BY <1>3
  <1> HIDE DEF T, f
  <1>6. q \in Seq(T) /\ \A m \in T : \E i \in DOMAIN q : q[i] = m
    BY <1>2, SetToSeqOf, SetToSeqAll
  <1> HIDE DEF q
  <1>7. q \in Seq(News) /\ \A i \in DOMAIN q : q[i] \in T
    BY <1>4, <1>6
  <1>8. Plain(q)
    BY <1>4, <1>7 DEF Plain, HasBye
  <1>9. \A c \in S : Carries(q, c.task)
    BY <1>5, <1>6 DEF Carries
  <1> QED BY <1>8, <1>9 DEF q, T, Refusals

-----------------------------------------------------------------------------
(* What the extension does to the line *)

LEMMA Said ==
    ASSUME up \in Seq(News), NEW m, Plain(m), up' = up \o m
    PROVE  /\ up' \in Seq(News) /\ (HasBye(up') <=> HasBye(up))
           /\ \A k : Carries(up', k) <=> Carries(up, k) \/ Carries(m, k)
  BY Concatenated DEF Plain

\* Something is said, the calls R are over and answered; no debugger is dropped.
LEMMA ExtSays ==
    ASSUME LineInv, NEW m, Plain(m), up' = (IF alive THEN up \o m ELSE up),
           NEW R, running' = running \ R, \A c \in R : Carries(m, c.task),
           alive' = alive, alive => attached \subseteq attached'
    PROVE  Answering
  <1>1. /\ up \in Seq(News) /\ m \in Seq(News) /\ ~HasBye(m)
        /\ running \subseteq Held /\ IsFiniteSet(running)
    BY DEF LineInv, Plain
  <1>2. CASE alive
    <2>1. up' = up \o m
      BY <1>2
    <2>2. /\ up' \in Seq(News) /\ (HasBye(up') <=> HasBye(up))
          /\ \A k : Carries(up', k) <=> Carries(up, k) \/ Carries(m, k)
      BY <1>1, <2>1, Said
    <2>3. running' \subseteq Held /\ IsFiniteSet(running')
      BY <1>1, FS_Subset
    <2> QED BY <1>2, <2>2, <2>3 DEF Answering, LineInv
  <1>3. CASE ~alive
    <2>1. up' = up /\ ~alive'
      BY <1>3
    <2>2. running' \subseteq Held /\ IsFiniteSet(running')
      BY <1>1, FS_Subset
    <2> QED BY <1>1, <1>3, <2>1, <2>2 DEF Answering
  <1> QED BY <1>2, <1>3

LEMMA ExtCloses ==
    ASSUME LineInv, NEW m, Plain(m), Closed(m)
    PROVE  Answering /\ ~alive'
  <1>1. /\ up \in Seq(News) /\ m \in Seq(News)
        /\ running \subseteq Held /\ IsFiniteSet(running)
    BY DEF LineInv, Plain
  <1>2. up' = (up \o m) \o <<Bye>> /\ ~alive' /\ running' \subseteq running
    BY DEF Closed
  <1> DEFINE u == up \o m
  <1>3. u \in Seq(News) /\ \A k : Carries(up, k) => Carries(u, k)
    BY <1>1, Concatenated
  <1>4. up' = u \o <<Bye>>
    BY <1>2
  <1> HIDE DEF u
  <1>5. up' \in Seq(News) /\ HasBye(up') /\ \A k : Carries(up', k)
    BY <1>3, <1>4, ByeNews, Concatenated DEF Carries
  <1>6. running' \subseteq Held /\ IsFiniteSet(running')
    BY <1>1, <1>2, FS_Subset
  <1> QED BY <1>2, <1>5, <1>6 DEF Answering

\* Debuggers are dropped, and what they were asked is refused.
LEMMA ExtChecks ==
    ASSUME LineInv, NEW off, NEW att, NEW pd, NEW rec, NEW grp, NEW m, Plain(m),
           Checked(off, att, pd, rec, grp, m),
           alive => \A c \in Asked(attached \ att) : Carries(m, c.task)
    PROVE  Answering
  <1>1. CASE NoneLeft(att, pd)
    BY <1>1, ExtCloses DEF Checked
  <1>2. CASE ~NoneLeft(att, pd)
    <2>1. /\ up' = up \o m /\ attached' = att /\ alive' = alive
          /\ running' = running \ Asked(Tabs \ att)
      BY <1>2 DEF Checked
    <2>2. /\ up \in Seq(News) /\ m \in Seq(News) /\ ~HasBye(m)
          /\ running \subseteq Held /\ IsFiniteSet(running)
      BY DEF LineInv, Plain
    <2>3. /\ up' \in Seq(News) /\ (HasBye(up') <=> HasBye(up))
          /\ \A k : Carries(up', k) <=> Carries(up, k) \/ Carries(m, k)
      BY <2>1, <2>2, Said
    <2>4. running' \subseteq Held /\ IsFiniteSet(running')
      BY <2>1, <2>2, FS_Subset
    <2>5. ASSUME alive, NEW c \in running PROVE c \in running' \/ Carries(up', c.task)
      <3>1. CASE c \in Asked(Tabs \ att)
        <4>1. c.kind \in {"info", "command"} /\ c.tab \in Tabs \ att
          BY <3>1 DEF Asked
        <4>2. c.tab \in attached
          BY <2>5, <4>1 DEF LineInv
        <4>3. c \in Asked(attached \ att)
          BY <4>1, <4>2 DEF Asked
        <4> QED BY <2>3, <2>5, <4>3
      <3> QED BY <2>1, <2>5, <3>1
    <2>6. ASSUME NEW c \in running', c.kind \in {"info", "command"} PROVE c.tab \in attached'
      <3>1. c \in Held /\ c \notin Asked(Tabs \ att) /\ c \in running
        BY <2>1, <2>2, <2>6
      <3>2. c.tab \in Tabs
        BY <2>6, <3>1 DEF Held, Orders
      <3> QED BY <2>1, <2>6, <3>1, <3>2 DEF Asked
    <2> QED BY <2>1, <2>3, <2>4, <2>5, <2>6 DEF Answering, LineInv
  <1> QED BY <1>1, <1>2

LEMMA HeldCall ==
    ASSUME LineInv, NEW c \in running
    PROVE  /\ c \in Commands /\ c.task \in Tasks \cup {NoTask} /\ c.tab \in Tabs \cup {NoTab}
           /\ c.kind # "create" => c.tab \in Tabs
           /\ c.kind \in {"attach", "info", "create", "remove", "command"}
  BY DEF LineInv, Held, Orders, Commands

\* A call that has returned is answered.
LEMMA ExtReturned ==
    ASSUME LineInv, NEW c \in running, NEW t \in Tabs \cup {NoTab}, NEW ok \in BOOLEAN, ok => t \in Tabs,
           Send(<<Answer(c.task, t, ok)>>), running' = running \ {c}, alive' = alive, attached' = attached
    PROVE  Answering
  <1> DEFINE m == <<Answer(c.task, t, ok)>>
             R == {c}
  <1>1. Plain(m) /\ Carries(m, c.task)
    BY HeldCall, PlainAnswer
  <1>2. up' = (IF alive THEN up \o m ELSE up)
    BY DEF Send
  <1>3. running' = running \ R /\ \A d \in R : Carries(m, d.task)
    BY <1>1
  <1> HIDE DEF m, R
  <1> QED BY <1>1, <1>2, <1>3, ExtSays

\* A tab is announced, or nothing is said.
LEMMA ExtNothing ==
    ASSUME LineInv, UNCHANGED <<alive, attached, running>>,
           \/ up' = up
           \/ alive /\ \E t \in Tabs : up' = Append(up, Event("created", t))
    PROVE  Answering
  <1> DEFINE R == {}
  <1>1. running' = running \ R
    OBVIOUS
  <1>2. PICK m : Plain(m) /\ up' = (IF alive THEN up \o m ELSE up)
    <2>1. CASE up' = up
      <3>1. up \in Seq(News)
        BY DEF LineInv
      <3>2. up' = (IF alive THEN up \o <<>> ELSE up)
        BY <2>1, <3>1
      <3> QED BY <3>2, PlainNone
    <2>2. CASE alive /\ \E t \in Tabs : up' = Append(up, Event("created", t))
      <3>1. PICK t \in Tabs : up' = Append(up, Event("created", t))
        BY <2>2
      <3>2. up \in Seq(News)
        BY DEF LineInv
      <3>3. up' = up \o <<Event("created", t)>>
        BY <3>1, <3>2
      <3> QED BY <2>2, <3>3, PlainEvent
    <2> QED BY <2>1, <2>2
  <1>3. \A c \in R : Carries(m, c.task)
    OBVIOUS
  <1> HIDE DEF R
  <1> QED BY <1>1, <1>2, <1>3, ExtSays

LEMMA AskedAre ==
    ASSUME LineInv, NEW T
    PROVE  Asked(T) \subseteq Held /\ IsFiniteSet(Asked(T))
  <1>1. Asked(T) \subseteq running
    BY DEF Asked
  <1> QED BY <1>1, FS_Subset DEF LineInv

\* One debugger is dropped; the order of what is said does not matter.
LEMMA ExtDropsOne ==
    ASSUME LineInv, NEW t \in Tabs, t \in attached, NEW off, NEW pd, NEW rec, NEW grp, NEW m,
           \/ m = Refusals(Asked({t})) \o <<Event("detached", t)>>
           \/ m = Refusals(Asked({t})) \o <<Event("removed", t), Event("detached", t)>>
           \/ m = <<Event("detached", t)>> \o Refusals(Asked({t})),
           Checked(off, attached \ {t}, pd, rec, grp, m)
    PROVE  Answering
  <1> DEFINE S == Asked({t})
             r == Refusals(S)
             d == <<Event("detached", t)>>
             g == <<Event("removed", t)>>
             att == attached \ {t}
  <1>1. Plain(r) /\ \A c \in S : Carries(r, c.task)
    BY AskedAre, PlainRefusals
  <1>2. Plain(d) /\ Plain(g)
    BY PlainEvent
  <1>3. <<Event("removed", t), Event("detached", t)>> = g \o d
    OBVIOUS
  <1>4. attached \ att = {t}
    OBVIOUS
  <1> HIDE DEF S, r, d, g
  <1>5. Plain(g \o d)
    BY <1>2, PlainJoin
  <1>6. m = r \o d \/ m = r \o (g \o d) \/ m = d \o r
    BY <1>3 DEF S, r, d
  <1>7. Plain(m) /\ \A c \in S : Carries(m, c.task)
    BY <1>1, <1>2, <1>5, <1>6, PlainJoin
  <1>8. \A c \in Asked(attached \ att) : Carries(m, c.task)
    BY <1>4, <1>7 DEF S
  <1>9. Checked(off, att, pd, rec, grp, m)
    OBVIOUS
  <1> HIDE DEF att
  <1> QED BY <1>7, <1>8, <1>9, ExtChecks

-----------------------------------------------------------------------------
(* Each step of the extension *)

LEMMA AttachLine ==
    ASSUME LineInv, NEW c \in running, Attach(c)
    PROVE  Answering
  <1> DEFINE others == {d \in running \ {c} : d.kind = "attach" /\ d.tab = c.tab}
             a == <<Answer(c.task, c.tab, TRUE)>>
             r == Refusals(others)
             m == a \o r
             R == {c} \cup others
  <1>1. c.tab \in Tabs /\ c.task \in Tasks \cup {NoTask}
    BY HeldCall DEF Attach
  <1>2. Plain(a) /\ Carries(a, c.task)
    BY <1>1, PlainAnswer
  <1>3. others \subseteq Held /\ IsFiniteSet(others)
    BY FS_Subset DEF LineInv
  <1>4. Plain(r) /\ \A d \in others : Carries(r, d.task)
    BY <1>3, PlainRefusals
  <1>5. /\ up' = (IF alive THEN up \o m ELSE up) /\ running' = (running \ {c}) \ others
        /\ alive' = alive /\ attached' = attached \cup {c.tab}
    BY DEF Attach, Send
  <1>6. running' = running \ R
    BY <1>5
  <1> HIDE DEF others, a, r
  <1>7. Plain(m) /\ \A d \in R : Carries(m, d.task)
    BY <1>2, <1>4, PlainJoin
  <1> HIDE DEF m, R
  <1> QED BY <1>5, <1>6, <1>7, ExtSays

LEMMA TabClosesLine ==
    ASSUME LineInv, NEW t \in Tabs, TabCloses(t)
    PROVE  Answering
  <1>1. CASE ~alive
    <2> DEFINE R == {}
    <2>1. up' = up /\ alive' = alive /\ running' = running \ R
      BY <1>1 DEF TabCloses
    <2>2. up' = (IF alive THEN up \o <<>> ELSE up) /\ \A c \in R : Carries(<<>>, c.task)
      BY <1>1, <2>1
    <2> HIDE DEF R
    <2> QED BY <1>1, <2>1, <2>2, PlainNone, ExtSays
  <1>2. CASE alive /\ t \in attached
    <2>1. \/ Dropped(t, offered, grouped \ {t}, Refusals(Asked({t})) \o <<Event("detached", t)>>)
          \/ Dropped(t, offered \ {t}, grouped \ {t},
                     Refusals(Asked({t})) \o <<Event("removed", t), Event("detached", t)>>)
      BY <1>2 DEF TabCloses
    <2> QED BY <1>2, <2>1, ExtDropsOne DEF Dropped
  <1>3. CASE alive /\ t \notin attached
    BY <1>3, ExtNothing DEF TabCloses
  <1> QED BY <1>1, <1>2, <1>3

LEMMA CallLine ==
    ASSUME LineInv, NEW c \in running, Call(c) \/ CallFails(c)
    PROVE  Answering
  <1>0. /\ c.tab \in Tabs \cup {NoTab}
        /\ c.kind # "create" => c.tab \in Tabs
    BY HeldCall
  <1>1. CASE Attach(c)
    BY <1>1, AttachLine
  <1>2. CASE Forward(c)
    <2>1. Send(<<Answer(c.task, c.tab, TRUE)>>) /\ running' = running \ {c} /\ UNCHANGED <<alive, attached>>
      BY <1>2 DEF Forward, tabVars
    <2>2. c.tab \in Tabs
      BY <1>0, <1>2 DEF Forward
    <2> QED BY <2>1, <2>2, ExtReturned
  <1>3. CASE Create(c)
    <2>1. PICK t \in Tabs : Send(<<Answer(c.task, t, TRUE)>>)
      BY <1>3 DEF Create
    <2>2. running' = running \ {c} /\ UNCHANGED <<alive, attached>>
      BY <1>3 DEF Create
    <2> QED BY <2>1, <2>2, ExtReturned
  <1>4. CASE c.kind = "remove" /\ TabCloses(c.tab)
    BY <1>0, <1>4, TabClosesLine
  <1>5. CASE CallFails(c)
    <2>1. Send(<<Answer(c.task, c.tab, FALSE)>>) /\ running' = running \ {c} /\ UNCHANGED <<alive, attached>>
      BY <1>5 DEF CallFails, tabVars
    <2> QED BY <1>0, <2>1, ExtReturned
  <1> QED BY <1>1, <1>2, <1>3, <1>4, <1>5 DEF Call

LEMMA AnnounceLine ==
    ASSUME LineInv, NEW t \in Tabs, Announce(t), UNCHANGED <<alive, attached, running>>
    PROVE  Answering
  <1>1. \/ up' = up
        \/ alive /\ \E u \in Tabs : up' = Append(up, Event("created", u))
    BY DEF Announce
  <1> QED BY <1>1, ExtNothing

LEMMA TimerLine ==
    ASSUME LineInv, NEW t \in Tabs, Timer(t) \/ CooledDown(t) \/ Joined(t)
    PROVE  Answering
  <1>1. CASE TryReattach(t)
    <2>1. CASE page[t] = "open"
      BY <1>1, <2>1, AnnounceLine DEF TryReattach
    <2>2. CASE page[t] # "open"
      <3>1. Checked(offered, attached, [pend EXCEPT ![t] = "no"], recent, grouped, <<>>)
        BY <1>1, <2>2 DEF TryReattach
      <3>2. Asked(attached \ attached) = {}
        BY DEF Asked
      <3> QED BY <3>1, <3>2, PlainNone, ExtChecks
    <2> QED BY <2>1, <2>2
  <1>2. CASE Verified(t)
    <2>1. Checked(offered, attached, [pend EXCEPT ![t] = "no"], recent, grouped, <<>>)
      BY <1>2 DEF Verified
    <2>2. Asked(attached \ attached) = {}
      BY DEF Asked
    <2> QED BY <2>1, <2>2, PlainNone, ExtChecks
  <1>3. CASE CooledDown(t)
    BY <1>3, ExtNothing DEF CooledDown, linkVars
  <1>4. CASE Joined(t)
    <2>1. UNCHANGED <<alive, attached, running>>
      BY <1>4 DEF Joined
    <2>2. up' = up \/ Announce(t)
      BY <1>4 DEF Joined
    <2> QED BY <2>1, <2>2, ExtNothing, AnnounceLine
  <1> QED BY <1>1, <1>2, <1>3, <1>4 DEF Timer

LEMMA IncidentLine ==
    ASSUME LineInv, Incident
    PROVE  Answering
  <1>1. CASE UserDisconnects
    BY <1>1, PlainNone, ExtCloses DEF UserDisconnects
  <1>2. ASSUME NEW c \in running, CallFails(c) PROVE Answering
    BY <1>2, CallLine
  <1>3. ASSUME NEW t \in Tabs, TargetDetached(t) PROVE Answering
    BY <1>3, ExtDropsOne DEF TargetDetached, Dropped
  <1>4. ASSUME NEW t \in Tabs, Cancelled(t) PROVE Answering
    BY <1>4, ExtDropsOne DEF Cancelled
  <1>5. ASSUME NEW t \in Tabs, TabCloses(t) PROVE Answering
    BY <1>5, TabClosesLine
  <1>6. ASSUME NEW t \in Tabs, DragIn(t) PROVE Answering
    <2>1. UNCHANGED <<alive, attached, running>> /\ (up' = up \/ Announce(t))
      BY <1>6 DEF DragIn
    <2> QED BY <2>1, ExtNothing, AnnounceLine
  <1>7. ASSUME NEW t \in Tabs, DragOut(t) PROVE Answering
    <2>1. CASE t \in attached
      BY <1>7, <2>1, ExtDropsOne DEF DragOut
    <2>2. CASE t \notin attached
      BY <1>7, <2>2, ExtNothing DEF DragOut
    <2> QED BY <2>1, <2>2
  <1>8. ASSUME NEW t \in Tabs, Navigated(t) PROVE Answering
    BY <1>8, AnnounceLine DEF Navigated
  <1>9. ASSUME NEW t \in Tabs, Popup(t) PROVE Answering
    BY <1>9, ExtNothing DEF Popup
  <1> QED BY <1>1, <1>2, <1>3, <1>4, <1>5, <1>6, <1>7, <1>8, <1>9 DEF Incident

\* Where the calls are, and the ends.
CallOut(k) == OnTheWay(k) \/ Carries(up, k)
OwedInv ==
    /\ ~closed => \A k \in Waiting : CallOut(k)
    /\ closed => Waiting = {}
EndInv ==
    /\ ~alive => closed \/ HasBye(up)
    /\ closed => ~alive /\ client # "here"
    /\ client = "gone" /\ alive => \E i \in DOMAIN down : down[i].kind = "bye"

LEMMA ReceivesLine ==
    ASSUME LineInv, ExtReceives
    PROVE  /\ LineInv' /\ Answering
           /\ alive => \A k : OnTheWay(k) => CallOut(k)'
           /\ alive' => \A i \in DOMAIN down : down[i].kind = "bye" =>
                          \E j \in DOMAIN down' : down'[j].kind = "bye"
  <1> DEFINE c == Head(down)
  <1>1. down # <<>> /\ down' = Tail(down) /\ down \in Seq(Orders)
    BY DEF ExtReceives, LineInv
  <1>2. /\ down' \in Seq(Orders) /\ 1 \in DOMAIN down /\ c = down[1] /\ c \in Orders
        /\ \A i \in DOMAIN down' : i + 1 \in DOMAIN down /\ down'[i] = down[i + 1] /\ i \in Nat \ {0}
        /\ \A i \in DOMAIN down \ {1} : i - 1 \in DOMAIN down' /\ down'[i - 1] = down[i]
    BY <1>1, TailOf
  <1>3. c \in Commands /\ c.task \in Tasks \cup {NoTask} /\ c.tab \in Tabs \cup {NoTab}
    BY <1>2 DEF Orders, Commands
  <1> HIDE DEF c
  <1>4. Answering /\ LineInv' /\ (alive => (alive' => c.kind # "bye") /\ (c \in running' \/ Carries(up', c.task)))
    <2>1. CASE ~alive
      <3>1. UNCHANGED <<up, alive, attached, running>>
        BY <2>1 DEF ExtReceives, tabVars
      <3>2. LineInv'
        BY <1>2, <3>1 DEF LineInv, HasBye
      <3>3. Answering
        BY <3>1, ExtNothing
      <3> QED BY <2>1, <3>2, <3>3
    <2>2. CASE alive /\ c.kind = "bye"
      <3>1. Closed(<<>>)
        BY <2>2 DEF ExtReceives, c
      <3>2. Answering /\ ~alive'
        BY <3>1, PlainNone, ExtCloses
      <3>3. Carries(up', c.task)
        BY <2>2, <3>2 DEF Answering, Carries
      <3>4. LineInv'
        BY <1>2, <3>2 DEF LineInv, Answering
      <3> QED BY <3>2, <3>3, <3>4
    <2>3. CASE alive /\ c.kind # "bye" /\ Accepted(c)
      <3>1. running' = running \cup {c} /\ up' = up /\ UNCHANGED <<alive, attached>>
        BY <2>3 DEF ExtReceives, tabVars, c
      <3>2. running' \subseteq Held /\ IsFiniteSet(running')
        BY <1>2, <2>3, <3>1, FS_AddElement DEF LineInv, Held
      <3>3. c.kind \in {"info", "command"} => c.tab \in attached
        BY <2>3 DEF Accepted
      <3>4. LineInv'
        BY <1>2, <2>3, <3>1, <3>2, <3>3 DEF LineInv, HasBye
      <3>5. Answering
        BY <3>1, <3>2, <3>4 DEF Answering, LineInv
      <3> QED BY <2>3, <3>1, <3>4, <3>5
    <2>4. CASE alive /\ c.kind # "bye" /\ ~Accepted(c)
      <3> DEFINE m == <<Answer(c.task, c.tab, FALSE)>>
                 R == {}
      <3>1. Send(m) /\ running' = running \ R /\ UNCHANGED <<alive, attached>>
        BY <2>4 DEF ExtReceives, tabVars, c
      <3>2. Plain(m) /\ Carries(m, c.task)
        BY <1>3, PlainAnswer
      <3>3. up' = (IF alive THEN up \o m ELSE up) /\ \A d \in R : Carries(m, d.task)
        BY <3>1 DEF Send
      <3> HIDE DEF m, R
      <3>4. Answering
        BY <3>1, <3>2, <3>3, ExtSays
      <3>5. up \in Seq(News) /\ up' = up \o m
        BY <2>4, <3>3 DEF LineInv
      <3>6. Carries(up', c.task)
        BY <3>2, <3>5, Said
      <3>7. LineInv'
        BY <1>2, <2>4, <3>1, <3>4 DEF LineInv, Answering
      <3> QED BY <2>4, <3>4, <3>6, <3>7
    <2> QED BY <2>1, <2>2, <2>3, <2>4
  <1>5. ASSUME alive, NEW k, OnTheWay(k) PROVE CallOut(k)'
    <2>1. CASE \E d \in running : d.task = k
      <3>1. PICK d \in running : d.task = k
        BY <2>1
      <3>2. d \in running' \/ Carries(up', d.task)
        BY <1>4, <1>5 DEF Answering
      <3>3. (\E e \in running' : e.task = k) \/ Carries(up', k)
        BY <3>1, <3>2
      <3> QED BY <3>3 DEF CallOut, OnTheWay
    <2>2. CASE \E i \in DOMAIN down : down[i].task = k
      <3>1. PICK i \in DOMAIN down : down[i].task = k
        BY <2>2
      <3>2. CASE i = 1
        <4>1. (\E e \in running' : e.task = k) \/ Carries(up', k)
          BY <1>2, <1>4, <1>5, <3>1, <3>2
        <4> QED BY <4>1 DEF CallOut, OnTheWay
      <3>3. CASE i # 1
        <4>1. \E j \in DOMAIN down' : down'[j].task = k
          BY <1>2, <3>1, <3>3
        <4> QED BY <4>1 DEF CallOut, OnTheWay
      <3> QED BY <3>2, <3>3
    <2> QED BY <1>5, <2>1, <2>2 DEF OnTheWay
  <1>6. ASSUME alive', NEW i \in DOMAIN down, down[i].kind = "bye"
        PROVE  \E j \in DOMAIN down' : down'[j].kind = "bye"
    <2>1. CASE alive
      BY <1>2, <1>4, <1>6, <2>1
    <2>2. CASE ~alive
      BY <1>6, <2>2 DEF ExtReceives
    <2> QED BY <2>1, <2>2
  <1> QED BY <1>4, <1>5, <1>6

\* Whatever the extension does, calls that are out stay out or are answered, and an end
\* is on its way.
LEMMA ExtOwes ==
    ASSUME LineInv, OwedInv, EndInv, UNCHANGED relayVars, ExtStep \/ Incident
    PROVE  LineInv' /\ OwedInv' /\ EndInv'
  <1>1. Waiting' = Waiting /\ closed' = closed /\ client' = client
    BY DEF Waiting, Busy, relayVars, taskVars
  <1>2. ASSUME Answering, alive => \A k : OnTheWay(k) => CallOut(k)', ~closed
        PROVE  \A k \in Waiting : CallOut(k)'
    <2>1. \A k \in Waiting : Carries(up, k) => CallOut(k)'
      BY <1>2 DEF Answering, CallOut
    <2>2. CASE alive
      BY <1>2, <2>1, <2>2 DEF OwedInv, CallOut
    <2>3. CASE ~alive
      BY <1>2, <2>1, <2>3 DEF EndInv, Carries
    <2> QED BY <2>2, <2>3
  <1>3. ASSUME Answering, alive => \A k : OnTheWay(k) => CallOut(k)' PROVE OwedInv'
    BY <1>1, <1>2, <1>3 DEF OwedInv
  <1>4. alive' => alive
    BY ClosedForGood
  <1>5. ASSUME Answering,
               alive' => \A i \in DOMAIN down : down[i].kind = "bye" => \E j \in DOMAIN down' : down'[j].kind = "bye"
        PROVE  EndInv'
    BY <1>1, <1>4, <1>5 DEF EndInv, Answering
  <1>6. CASE ExtReceives
    BY <1>3, <1>5, <1>6, ReceivesLine
  <1>7. CASE ~ExtReceives
    <2>1. Answering
      BY <1>7, CallLine, TimerLine, IncidentLine DEF ExtStep
    <2>2. down' = down
      <3>1. ASSUME NEW c \in running, Call(c) \/ CallFails(c) PROVE down' = down
        BY <3>1 DEF Call, CallFails, Attach, Forward, Create, TabCloses
      <3>2. ASSUME NEW t \in Tabs, Timer(t) \/ CooledDown(t) \/ Joined(t) PROVE down' = down
        BY <3>2 DEF Timer, TryReattach, Verified, CooledDown, Joined, linkVars
      <3>3. ASSUME NEW t \in Tabs,
                   \/ TargetDetached(t) \/ Cancelled(t) \/ TabCloses(t)
                   \/ DragIn(t) \/ DragOut(t) \/ Navigated(t) \/ Popup(t)
            PROVE  down' = down
        BY <3>3 DEF TargetDetached, Cancelled, TabCloses, DragIn, DragOut, Navigated, Popup
      <3> QED BY <1>7, <3>1, <3>2, <3>3 DEF ExtStep, Incident, UserDisconnects
    <2>3. LineInv'
      BY <2>1, <2>2 DEF LineInv, Answering
    <2>4. ASSUME alive, NEW k, OnTheWay(k) PROVE CallOut(k)'
      <3>1. CASE \E i \in DOMAIN down : down[i].task = k
        BY <2>2, <3>1 DEF CallOut, OnTheWay
      <3>2. CASE \E d \in running : d.task = k
        <4>1. PICK d \in running : d.task = k
          BY <3>2
        <4>2. d \in running' \/ Carries(up', d.task)
          BY <2>1, <2>4 DEF Answering
        <4>3. (\E e \in running' : e.task = k) \/ Carries(up', k)
          BY <4>1, <4>2
        <4> QED BY <4>3 DEF CallOut, OnTheWay
      <3> QED BY <2>4, <3>1, <3>2 DEF OnTheWay
    <2> QED BY <1>3, <1>5, <2>1, <2>2, <2>3, <2>4
  <1> QED BY <1>6, <1>7

\* The extension's own variables keep their types.
ExtSets ==
    /\ page \in [Tabs -> {"unborn", "open", "closed"}] /\ alive \in BOOLEAN /\ ever \in BOOLEAN
    /\ offered \subseteq Tabs /\ attached \subseteq Tabs /\ recent \subseteq Tabs
    /\ grouped \subseteq Tabs /\ joining \subseteq Tabs
    /\ pend \in [Tabs -> {"no", "delay", "verify"}]

LEMMA ClosedSets ==
    ASSUME ExtSets, NEW m, Closed(m), UNCHANGED <<page, ever, joining>>
    PROVE  ExtSets'
  BY DEF ExtSets, Closed, NoPend

LEMMA CheckedSets ==
    ASSUME ExtSets, NEW off \in SUBSET Tabs, NEW att \in SUBSET Tabs,
           NEW pd \in [Tabs -> {"no", "delay", "verify"}], NEW rec \in SUBSET Tabs,
           NEW grp \in SUBSET Tabs, NEW m, Checked(off, att, pd, rec, grp, m),
           page' \in [Tabs -> {"unborn", "open", "closed"}], UNCHANGED <<ever, joining>>
    PROVE  ExtSets'
  <1>1. CASE NoneLeft(att, pd)
    BY <1>1 DEF ExtSets, Checked, Closed, NoPend
  <1>2. CASE ~NoneLeft(att, pd)
    BY <1>2 DEF ExtSets, Checked
  <1> QED BY <1>1, <1>2

LEMMA DroppedSets ==
    ASSUME ExtSets, NEW t \in Tabs, NEW off \in SUBSET Tabs, NEW grp \in SUBSET Tabs, NEW m,
           Dropped(t, off, grp, m),
           page' \in [Tabs -> {"unborn", "open", "closed"}], UNCHANGED <<ever, joining>>
    PROVE  ExtSets'
  <1> DEFINE pd == IF t \notin recent THEN [pend EXCEPT ![t] = "delay"] ELSE pend
  <1>1. Checked(off, attached \ {t}, pd, recent \cup {t}, grp, m)
    BY DEF Dropped
  <1>2. pd \in [Tabs -> {"no", "delay", "verify"}]
    BY DEF ExtSets
  <1>3. attached \ {t} \in SUBSET Tabs /\ recent \cup {t} \in SUBSET Tabs
    BY DEF ExtSets
  <1> HIDE DEF pd
  <1> QED BY <1>1, <1>2, <1>3, CheckedSets

LEMMA TabClosesSets ==
    ASSUME ExtSets, NEW t \in Tabs, TabCloses(t)
    PROVE  ExtSets'
  <1>1. page' \in [Tabs -> {"unborn", "open", "closed"}] /\ UNCHANGED <<ever, joining>>
    BY DEF TabCloses, ExtSets
  <1>2. /\ offered \ {t} \in SUBSET Tabs /\ offered \in SUBSET Tabs
        /\ grouped \ {t} \in SUBSET Tabs
    BY DEF ExtSets
  <1>3. CASE alive /\ t \in attached
    BY <1>1, <1>2, <1>3, DroppedSets DEF TabCloses
  <1>4. CASE ~(alive /\ t \in attached)
    BY <1>1, <1>2, <1>4 DEF TabCloses, ExtSets
  <1> QED BY <1>3, <1>4

LEMMA ExtTypes ==
    ASSUME ExtSets, LineInv, ExtStep \/ Incident
    PROVE  ExtSets'
  <1>1. CASE ExtReceives
    <2>1. CASE Closed(<<>>)
      BY <1>1, <2>1, ClosedSets DEF ExtReceives
    <2>2. CASE ~Closed(<<>>)
      BY <1>1, <2>2 DEF ExtReceives, ExtSets, tabVars
    <2> QED BY <2>1, <2>2
  <1>2. ASSUME NEW c \in running, Call(c) \/ CallFails(c) PROVE ExtSets'
    <2>1. c.kind # "create" => c.tab \in Tabs
      BY HeldCall
    <2>2. CASE Attach(c)
      BY <2>1, <2>2 DEF Attach, ExtSets
    <2>3. CASE Forward(c) \/ CallFails(c)
      BY <2>3 DEF Forward, CallFails, ExtSets, tabVars
    <2>4. CASE Create(c)
      BY <2>4 DEF Create, ExtSets
    <2>5. CASE c.kind = "remove" /\ TabCloses(c.tab)
      BY <2>1, <2>5, TabClosesSets
    <2> QED BY <1>2, <2>2, <2>3, <2>4, <2>5 DEF Call
  <1>3. ASSUME NEW t \in Tabs, Timer(t) \/ CooledDown(t) \/ Joined(t) PROVE ExtSets'
    <2> DEFINE pd == [pend EXCEPT ![t] = "no"]
    <2>1. pd \in [Tabs -> {"no", "delay", "verify"}]
      BY DEF ExtSets
    <2>2. /\ offered \in SUBSET Tabs /\ attached \in SUBSET Tabs
          /\ recent \in SUBSET Tabs /\ grouped \in SUBSET Tabs
      BY DEF ExtSets
    <2>3. CASE TryReattach(t)
      <3>1. CASE page[t] = "open"
        BY <2>3, <3>1 DEF TryReattach, Announce, ExtSets
      <3>2. CASE page[t] # "open"
        <4>1. Checked(offered, attached, pd, recent, grouped, <<>>) /\ UNCHANGED <<page, ever, joining>>
          BY <2>3, <3>2 DEF TryReattach
        <4>2. page' \in [Tabs -> {"unborn", "open", "closed"}]
          BY <4>1 DEF ExtSets
        <4> HIDE DEF pd
        <4> QED BY <2>1, <2>2, <4>1, <4>2, CheckedSets
      <3> QED BY <3>1, <3>2
    <2>4. CASE Verified(t)
      <3>1. Checked(offered, attached, pd, recent, grouped, <<>>) /\ UNCHANGED <<page, ever, joining>>
        BY <2>4 DEF Verified
      <3>2. page' \in [Tabs -> {"unborn", "open", "closed"}]
        BY <3>1 DEF ExtSets
      <3> HIDE DEF pd
      <3> QED BY <2>1, <2>2, <3>1, <3>2, CheckedSets
    <2>5. CASE CooledDown(t)
      BY <2>5 DEF CooledDown, ExtSets
    <2>6. CASE Joined(t)
      BY <2>6 DEF Joined, Announce, ExtSets
    <2> QED BY <1>3, <2>3, <2>4, <2>5, <2>6 DEF Timer
  <1>4. CASE UserDisconnects
    BY <1>4, ClosedSets DEF UserDisconnects
  <1>5. ASSUME NEW t \in Tabs, TargetDetached(t) PROVE ExtSets'
    BY <1>5, DroppedSets DEF TargetDetached, ExtSets
  <1>6. ASSUME NEW t \in Tabs, Cancelled(t) PROVE ExtSets'
    BY <1>6, CheckedSets DEF Cancelled, ExtSets
  <1>7. ASSUME NEW t \in Tabs, TabCloses(t) PROVE ExtSets'
    BY <1>7, TabClosesSets
  <1>8. ASSUME NEW t \in Tabs, DragIn(t) \/ Navigated(t) PROVE ExtSets'
    BY <1>8 DEF DragIn, Navigated, Announce, ExtSets
  <1>9. ASSUME NEW t \in Tabs, DragOut(t) PROVE ExtSets'
    <2>1. CASE t \in attached
      BY <1>9, <2>1, CheckedSets DEF DragOut, ExtSets
    <2>2. CASE t \notin attached
      BY <1>9, <2>2 DEF DragOut, ExtSets
    <2> QED BY <2>1, <2>2
  <1>10. ASSUME NEW t \in Tabs, Popup(t) PROVE ExtSets'
    BY <1>10 DEF Popup, ExtSets
  <1> QED BY <1>1, <1>2, <1>3, <1>4, <1>5, <1>6, <1>7, <1>8, <1>9, <1>10 DEF ExtStep, Incident

-----------------------------------------------------------------------------
(* The relay's own state *)

Once(q) == \A i, j \in DOMAIN q : q[i] = q[j] => i = j
Started == {k \in Tasks : task[k].step # "idle"}

\* A task that has begun waits or has a turn; what it is about is a tab, once it is known.
Aware(k) ==
    /\ task[k].step = "start" => In(k)
    /\ task[k].step = "start" /\ task[k].goal # "create" => task[k].tab \in Tabs
    /\ task[k].step \in {"attach", "info"} /\ task[k].ok => task[k].tab \in Tabs
    /\ task[k].step = "create" /\ In(k) /\ task[k].ok => task[k].tab \in Tabs
TaskInv ==
    /\ task \in [Tasks -> TaskStates] /\ ready \in Seq(Tasks)
    /\ IsFiniteSet(Started) /\ Once(ready)
    /\ \A k \in Tasks : Aware(k)
    /\ \A k \in Tasks : In(k) => task[k].step # "idle"

\* A client that is there has heard of every session; before it came there is nothing.
ModelInv ==
    /\ initialized \in BOOLEAN /\ closed \in BOOLEAN /\ auto \in BOOLEAN
    /\ known \subseteq Tabs /\ IsFiniteSet(known) /\ session \subseteq Tabs
    /\ pages \in [Tabs -> Nat] /\ client \in {"away", "here", "gone"}
    /\ client = "here" => \A t \in session : pages[t] > 0
    /\ client = "away" => /\ ~auto /\ session = {}
                          /\ \A k \in Tasks : task[k].step = "idle"

LEMMA TasksGood ==
    ASSUME TaskInv, NEW K \in SUBSET Tasks, IsFiniteSet(K),
           task' \in [Tasks -> TaskStates], ready' \in Seq(Tasks), Once(ready'),
           \A k \in Tasks \ K : task'[k] = task[k] /\ (In(k)' <=> In(k)),
           \A k \in K : Aware(k)' /\ (In(k)' => task'[k].step # "idle")
    PROVE  TaskInv'
  <1>1. IsFiniteSet(Started')
    <2>1. Started' \subseteq Started \cup K
      BY DEF Started
    <2>2. IsFiniteSet(Started \cup K)
      BY FS_Union DEF TaskInv
    <2> QED BY <2>1, <2>2, FS_Subset
  <1>2. \A k \in Tasks : Aware(k)'
    BY DEF TaskInv, Aware
  <1>3. \A k \in Tasks : In(k)' => task'[k].step # "idle"
    BY DEF TaskInv
  <1> QED BY <1>1, <1>2, <1>3 DEF TaskInv

LEMMA OneTask ==
    ASSUME TaskInv, NEW k \in Tasks, NEW s \in TaskStates, task' = [task EXCEPT ![k] = s]
    PROVE  task' \in [Tasks -> TaskStates] /\ task'[k] = s /\ \A j \in Tasks \ {k} : task'[j] = task[j]
  BY DEF TaskInv

LEMMA Contained == ASSUME NEW q \in Seq(Tasks), NEW k PROVE Contains(q, k) <=> \E i \in DOMAIN q : q[i] = k
  BY DEF Contains

\* Tasks that wait.
Waiter(k) == k \in Tasks /\ Busy(k) /\ ~In(k)
LEMMA Waiters == ready \in Seq(Tasks) => \A k : k \in Waiting <=> Waiter(k)
  BY Contained DEF Waiting, Waiter, In
LEMMA WaitersNext == ready' \in Seq(Tasks) => \A k : k \in Waiting' <=> Waiter(k)'
  <1> SUFFICES ASSUME ready' \in Seq(Tasks), NEW k PROVE k \in Waiting' <=> Waiter(k)'
    OBVIOUS
  <1>1. Contains(ready', k) <=> \E i \in DOMAIN ready' : ready'[i] = k
    BY Contained
  <1> QED BY <1>1 DEF Waiting, Waiter, In

\* Several tasks become runnable, in some order.
LEMMA QueuedAll ==
    ASSUME ready \in Seq(Tasks), Once(ready), NEW K \in SUBSET Tasks, IsFiniteSet(K),
           \A k \in K : ~In(k), ready' = ready \o SetToSeq(K)
    PROVE  ready' \in Seq(Tasks) /\ Once(ready') /\ \A k : In(k)' <=> (In(k) \/ k \in K)
  <1> DEFINE q == SetToSeq(K)
  <1>1. q \in Seq(K) /\ Once(q) /\ \A k \in K : \E i \in DOMAIN q : q[i] = k
    BY SetToSeqOf, SetToSeqAll DEF Once
  <1>2. ready' = ready \o q
    OBVIOUS
  <1> HIDE DEF q
  <1>3. q \in Seq(Tasks) /\ \A i \in DOMAIN q : q[i] \in K
    BY <1>1
  <1>4. /\ ready' \in Seq(Tasks)
        /\ \A i \in DOMAIN ready : i \in DOMAIN ready' /\ ready'[i] = ready[i]
        /\ \A i \in DOMAIN q : i + Len(ready) \in DOMAIN ready' /\ ready'[i + Len(ready)] = q[i]
        /\ \A i \in DOMAIN ready' : \/ i \in DOMAIN ready /\ ready'[i] = ready[i]
                                    \/ /\ i \in Nat /\ i - Len(ready) \in DOMAIN q
                                       /\ ready'[i] = q[i - Len(ready)]
    BY <1>2, <1>3
  <1>5. ASSUME NEW k PROVE In(k)' <=> (In(k) \/ k \in K)
    <2>1. ASSUME In(k)' PROVE In(k) \/ k \in K
      BY <1>3, <1>4, <2>1 DEF In
    <2>2. ASSUME In(k) PROVE In(k)'
      BY <1>4, <2>2 DEF In
    <2>3. ASSUME k \in K PROVE In(k)'
      <3>1. PICK i \in DOMAIN q : q[i] = k
        BY <1>1, <2>3
      <3>2. i + Len(ready) \in DOMAIN ready' /\ ready'[i + Len(ready)] = k
        BY <1>4, <3>1
      <3> QED BY <3>2 DEF In
    <2> QED BY <2>1, <2>2, <2>3
  <1>6. ASSUME NEW i \in DOMAIN ready', NEW j \in DOMAIN ready', ready'[i] = ready'[j] PROVE i = j
    <2> DEFINE Old(n) == n \in DOMAIN ready /\ ready'[n] = ready[n]
               New(n) == n \in Nat /\ n - Len(ready) \in DOMAIN q /\ ready'[n] = q[n - Len(ready)]
    <2>1. (Old(i) \/ New(i)) /\ (Old(j) \/ New(j))
      BY <1>4
    <2>2. CASE Old(i) /\ Old(j)
      BY <1>6, <2>2 DEF Once
    <2>3. CASE New(i) /\ New(j)
      <3>1. i - Len(ready) = j - Len(ready)
        BY <1>1, <1>6, <2>3 DEF Once
      <3> QED BY <2>3, <3>1
    <2>4. ASSUME NEW a \in {i, j}, NEW b \in {i, j}, Old(a), New(b) PROVE ready'[a] # ready'[b]
      <3>1. In(ready'[a]) /\ ready'[b] \in K
        BY <1>3, <2>4 DEF In
      <3> QED BY <3>1
    <2> QED BY <1>6, <2>1, <2>2, <2>3, <2>4
  <1> QED BY <1>4, <1>5, <1>6 DEF Once

\* The first task has its turn.
LEMMA TurnTaken ==
    ASSUME TaskInv, ready # <<>>, NEW k, k = Head(ready), ready' = Tail(ready)
    PROVE  /\ k \in Tasks /\ In(k) /\ ~In(k)' /\ ready' \in Seq(Tasks) /\ Once(ready')
           /\ \A j : j # k => (In(j)' <=> In(j))
  <1>0. ready \in Seq(Tasks) /\ \A i, j \in DOMAIN ready : ready[i] = ready[j] => i = j
    BY DEF TaskInv, Once
  <1>1. /\ ready' \in Seq(Tasks) /\ 1 \in DOMAIN ready /\ k = ready[1] /\ ready[1] \in Tasks
        /\ \A i \in DOMAIN ready' :
             i + 1 \in DOMAIN ready /\ ready'[i] = ready[i + 1] /\ i \in Nat \ {0}
        /\ \A i \in DOMAIN ready \ {1} :
             i - 1 \in DOMAIN ready' /\ ready'[i - 1] = ready[i] /\ i \in Nat
    BY <1>0, TailOf
  <1>2. \A i \in DOMAIN ready' : ready'[i] # k
    BY <1>0, <1>1
  <1>3. ASSUME NEW i \in DOMAIN ready', NEW j \in DOMAIN ready', ready'[i] = ready'[j] PROVE i = j
    <2>1. i + 1 = j + 1
      BY <1>0, <1>1, <1>3
    <2> QED BY <1>1, <2>1
  <1>4. ASSUME NEW j, j # k PROVE In(j)' <=> In(j)
    <2>1. ASSUME In(j)' PROVE In(j)
      BY <1>1, <2>1 DEF In
    <2>2. ASSUME In(j) PROVE In(j)'
      <3>1. PICK i \in DOMAIN ready : ready[i] = j
        BY <2>2 DEF In
      <3>2. i - 1 \in DOMAIN ready' /\ ready'[i - 1] = j
        BY <1>1, <1>4, <3>1
      <3> QED BY <3>2 DEF In
    <2> QED BY <2>1, <2>2
  <1> QED BY <1>1, <1>2, <1>3, <1>4 DEF Once, In

\* What the relay leaves alone.
ExtKept == UNCHANGED <<alive, running, attached>>

\* A message is received that is not the end.
LEMMA Received ==
    ASSUME LineInv, OwedInv, EndInv, ExtKept, ready \in Seq(Tasks), ready' \in Seq(Tasks),
           ~closed, UNCHANGED <<closed, client, down>>, up # <<>>, up' = Tail(up), up[1].kind # "bye",
           \A k : Waiter(k)' => Waiter(k) /\ ~(up[1].kind = "answer" /\ up[1].task = k)
    PROVE  LineInv' /\ OwedInv' /\ EndInv'
  <1>1. up \in Seq(News)
    BY DEF LineInv
  <1>2. /\ up' \in Seq(News)
        /\ \A i \in DOMAIN up' : i + 1 \in DOMAIN up /\ up'[i] = up[i + 1]
        /\ \A i \in DOMAIN up \ {1} : i - 1 \in DOMAIN up' /\ up'[i - 1] = up[i]
    BY <1>1, TailOf
  <1>3. HasBye(up') <=> HasBye(up)
    <2>1. ASSUME HasBye(up) PROVE HasBye(up')
      BY <1>2, <2>1 DEF HasBye
    <2>2. ASSUME HasBye(up') PROVE HasBye(up)
      BY <1>2, <2>2 DEF HasBye
    <2> QED BY <2>1, <2>2
  <1>4. LineInv'
    BY <1>2, <1>3 DEF LineInv, ExtKept
  <1>5. EndInv'
    BY <1>3 DEF EndInv, ExtKept
  <1>6. ASSUME NEW k, Waiter(k)' PROVE CallOut(k)'
    <2>1. CallOut(k) /\ ~(up[1].kind = "answer" /\ up[1].task = k)
      BY <1>6, Waiters DEF OwedInv
    <2>2. CASE OnTheWay(k)
      BY <2>2 DEF CallOut, OnTheWay, ExtKept
    <2>3. CASE HasBye(up)
      BY <1>3, <2>3 DEF CallOut, Carries
    <2>4. CASE \E i \in DOMAIN up : up[i].kind = "answer" /\ up[i].task = k
      <3>1. PICK i \in DOMAIN up : up[i].kind = "answer" /\ up[i].task = k
        BY <2>4
      <3>2. i # 1
        BY <2>1, <3>1
      <3>3. i - 1 \in DOMAIN up' /\ up'[i - 1].kind = "answer" /\ up'[i - 1].task = k
        BY <1>2, <3>1, <3>2
      <3> QED BY <3>3 DEF CallOut, Carries
    <2> QED BY <2>1, <2>2, <2>3, <2>4 DEF CallOut, Carries
  <1>7. OwedInv'
    BY <1>6, WaitersNext DEF OwedInv
  <1> QED BY <1>4, <1>5, <1>7

\* Nothing is received; a command may be sent, for a task that waits then.
LEMMA Sent ==
    ASSUME LineInv, OwedInv, EndInv, ExtKept, ready \in Seq(Tasks), ready' \in Seq(Tasks),
           UNCHANGED <<closed, up>>,
           \/ down' = down
           \/ ~closed /\ \E c \in Orders : down' = Append(down, c),
           client' = "here" => ~closed,
           client' = "gone" => client = "gone" \/ \E i \in DOMAIN down' : down'[i].kind = "bye",
           \A k : Waiter(k)' => Waiter(k) \/ (~closed /\ \E i \in DOMAIN down' : down'[i].task = k)
    PROVE  LineInv' /\ OwedInv' /\ EndInv'
  <1>1. down \in Seq(Orders) /\ up \in Seq(News)
    BY DEF LineInv
  <1>2. /\ down' \in Seq(Orders)
        /\ \A i \in DOMAIN down : i \in DOMAIN down' /\ down'[i] = down[i]
    <2>1. CASE down' = down
      BY <1>1, <2>1
    <2>2. CASE \E c \in Orders : down' = Append(down, c)
      BY <1>1, <2>2
    <2> QED BY <2>1, <2>2
  <1>3. LineInv'
    BY <1>1, <1>2 DEF LineInv, ExtKept, HasBye
  <1>4. EndInv'
    <2>1. client' = "gone" /\ alive' => \E i \in DOMAIN down' : down'[i].kind = "bye"
      BY <1>2 DEF EndInv, ExtKept
    <2> QED BY <2>1 DEF EndInv, ExtKept, HasBye
  <1>5. ASSUME NEW k, Waiter(k)' PROVE ~closed /\ CallOut(k)'
    <2>1. CASE Waiter(k)
      <3>1. ~closed /\ CallOut(k)
        BY <2>1, Waiters DEF OwedInv
      <3>2. Carries(up, k) => CallOut(k)'
        BY DEF CallOut, Carries, HasBye
      <3>3. (\E c \in running : c.task = k) => CallOut(k)'
        BY DEF CallOut, OnTheWay, ExtKept
      <3>4. (\E i \in DOMAIN down : down[i].task = k) => CallOut(k)'
        BY <1>2 DEF CallOut, OnTheWay
      <3> QED BY <3>1, <3>2, <3>3, <3>4 DEF CallOut, OnTheWay
    <2>2. CASE ~closed /\ \E i \in DOMAIN down' : down'[i].task = k
      BY <2>2 DEF CallOut, OnTheWay
    <2> QED BY <1>5, <2>1, <2>2
  <1>6. OwedInv'
    <2>1. closed => Waiting' = {}
      BY <1>5, WaitersNext
    <2>2. ~closed => \A k \in Waiting' : CallOut(k)'
      BY <1>5, WaitersNext
    <2> QED BY <2>1, <2>2 DEF OwedInv
  <1> QED BY <1>3, <1>4, <1>6

-----------------------------------------------------------------------------
(* Each step of the relay *)

All == ModelInv /\ TaskInv /\ LineInv /\ OwedInv /\ EndInv

\* Nothing that tasks are about changes.
LEMMA TasksStay ==
    ASSUME TaskInv, UNCHANGED <<task, ready>>
    PROVE  TaskInv' /\ \A k : Waiter(k)' <=> Waiter(k)
  <1>1. /\ \A k : Aware(k)' <=> Aware(k)
        /\ \A k : In(k)' <=> In(k)
    BY DEF Aware, In
  <1> QED BY <1>1 DEF TaskInv, Started, Once, Waiter, Busy

LEMMA IdleOK == Idle \in TaskStates /\ Idle.step = "idle"
  BY DEF Idle, TaskStates

LEMMA AnswerAll ==
    ASSUME All, ExtKept, ~closed, down' = down, up # <<>>, up' = Tail(up),
           NEW m, m = up[1], m \in News, m.kind = "answer", OnAnswer(m)
    PROVE  All'
  <1>0. task \in [Tasks -> TaskStates] /\ ready \in Seq(Tasks) /\ Once(ready)
    BY DEF All, TaskInv
  <1>1. UNCHANGED <<initialized, closed, known, session, pages, auto, client>>
    BY DEF OnAnswer, tabModel
  <1>2. CASE m.task \in Waiting
    <2> DEFINE k == m.task
               s == [task[k] EXCEPT !.ok = m.ok, !.tab = m.tab]
    <2>1. Waiter(k) /\ k \in Tasks /\ ~In(k) /\ task[k].step \notin {"idle", "cancelled"}
      BY <1>0, <1>2, Waiters DEF Waiter, Busy
    <2>2. task' = [task EXCEPT ![k].ok = m.ok, ![k].tab = m.tab] /\ ready' = Append(ready, k)
      BY <1>2 DEF OnAnswer
    <2>3. task' = [task EXCEPT ![k] = s]
      BY <1>0, <2>1, <2>2
    <2>4. s \in TaskStates /\ s.step = task[k].step /\ s.ok = m.ok /\ s.tab = m.tab /\ s.goal = task[k].goal
      <3>1. task[k] \in TaskStates /\ m.ok \in BOOLEAN /\ m.tab \in Tabs \cup {NoTab}
        BY <1>0, <2>1 DEF News, UpMessages
      <3> QED BY <3>1 DEF TaskStates
    <2>5. m.ok => m.tab \in Tabs
      BY DEF News
    <2> HIDE DEF s, k
    <2>6. task' \in [Tasks -> TaskStates] /\ task'[k] = s /\ \A j \in Tasks \ {k} : task'[j] = task[j]
      BY <2>1, <2>3, <2>4, OneTask DEF All
    <2>7. ready' \in Seq(Tasks) /\ Once(ready') /\ \A j : In(j)' <=> (In(j) \/ j = k)
      BY <1>0, <2>1, <2>2, Queued DEF Once
    <2> DEFINE K == {k}
    <2>8. K \in SUBSET Tasks /\ IsFiniteSet(K)
      BY <2>1, FS_Singleton
    <2>9. \A j \in Tasks \ K : task'[j] = task[j] /\ (In(j)' <=> In(j))
      BY <2>6, <2>7
    <2>10. task[k].step # "start"
      BY <2>1 DEF All, TaskInv, Aware
    <2>11. \A j \in K : Aware(j)' /\ (In(j)' => task'[j].step # "idle")
      BY <2>1, <2>4, <2>5, <2>6, <2>10 DEF Aware
    <2>12. \A j : Waiter(j)' => Waiter(j) /\ j # k
      <3>1. \A j : j # k => (Waiter(j)' <=> Waiter(j))
        BY <2>6, <2>7 DEF Waiter, Busy
      <3> QED BY <2>7, <3>1 DEF Waiter
    <2>13. client = "away" => \A j \in Tasks : task'[j].step = "idle"
      BY <2>1 DEF All, ModelInv
    <2> HIDE DEF K
    <2>14. TaskInv'
      BY <2>6, <2>7, <2>8, <2>9, <2>11, TasksGood DEF All
    <2>15. ModelInv'
      BY <1>1, <2>13 DEF All, ModelInv
    <2>16. LineInv' /\ OwedInv' /\ EndInv'
      BY <1>0, <1>1, <2>7, <2>12, Received DEF All, k
    <2> QED BY <2>14, <2>15, <2>16 DEF All
  <1>3. CASE m.task \notin Waiting
    <2> DEFINE K == {m.task} \cap Orphans
    <2>1. /\ task' = [k \in Tasks |-> IF k = m.task /\ k \in Orphans THEN Idle ELSE task[k]]
          /\ ready' = ready
      BY <1>3 DEF OnAnswer
    <2>2. \A j : In(j)' <=> In(j)
      BY <2>1 DEF In
    <2>3. \A j \in K : j \in Tasks /\ ~In(j) /\ task'[j] = Idle
      BY <1>0, <2>1, Contained DEF Orphans, In
    <2>4. \A j \in Tasks \ K : task'[j] = task[j]
      BY <2>1
    <2>5. task' \in [Tasks -> TaskStates]
      BY <1>0, <2>1, IdleOK
    <2>6. K \in SUBSET Tasks /\ IsFiniteSet(K)
      <3>1. K \subseteq {m.task} /\ IsFiniteSet({m.task})
        BY FS_Singleton
      <3> QED BY <2>3, <3>1, FS_Subset
    <2>7. \A j \in K : Aware(j)' /\ (In(j)' => task'[j].step # "idle")
      BY <2>2, <2>3, IdleOK DEF Aware
    <2> HIDE DEF K
    <2>8. TaskInv'
      BY <1>0, <2>1, <2>2, <2>4, <2>5, <2>6, <2>7, TasksGood DEF All
    <2>9. \A j : Waiter(j)' => Waiter(j) /\ j # m.task
      <3>1. \A j : Waiter(j)' => Waiter(j)
        BY <2>2, <2>3, <2>4, IdleOK DEF Waiter, Busy
      <3>2. ~Waiter(m.task)
        BY <1>0, <1>3, Waiters
      <3> QED BY <3>1, <3>2
    <2>10. client = "away" => \A j \in Tasks : task'[j].step = "idle"
      BY <2>3, <2>4, IdleOK DEF All, ModelInv
    <2>11. ModelInv'
      BY <1>1, <2>10 DEF All, ModelInv
    <2>12. LineInv' /\ OwedInv' /\ EndInv'
      BY <1>0, <1>1, <2>1, <2>9, Received DEF All
    <2> QED BY <2>8, <2>11, <2>12 DEF All
  <1> QED BY <1>2, <1>3

\* A task is made.
LEMMA MadeAll ==
    ASSUME TaskInv, client # "away", FreshTasks # {}, NEW j \in TaskStates, j.step = "start",
           j.goal # "create" => j.tab \in Tabs,
           task' = [task EXCEPT ![Fresh] = j], ready' = Append(ready, Fresh)
    PROVE  TaskInv' /\ \A k : Waiter(k)' => Waiter(k)
  <1>0. task \in [Tasks -> TaskStates] /\ ready \in Seq(Tasks) /\ Once(ready)
    BY DEF TaskInv
  <1>1. PICK k : k = Fresh /\ k \in FreshTasks
    BY DEF Fresh
  <1>2. k \in Tasks /\ ~In(k)
    BY <1>1 DEF FreshTasks, TaskInv
  <1>3. task' \in [Tasks -> TaskStates] /\ task'[k] = j /\ \A i \in Tasks \ {k} : task'[i] = task[i]
    BY <1>1, <1>2, OneTask
  <1>4. ready' \in Seq(Tasks) /\ Once(ready') /\ \A i : In(i)' <=> (In(i) \/ i = k)
    BY <1>0, <1>1, <1>2, Queued DEF Once
  <1> DEFINE K == {k}
  <1>5. K \in SUBSET Tasks /\ IsFiniteSet(K)
    BY <1>2, FS_Singleton
  <1>6. \A i \in Tasks \ K : task'[i] = task[i] /\ (In(i)' <=> In(i))
    BY <1>3, <1>4
  <1>7. \A i \in K : Aware(i)' /\ (In(i)' => task'[i].step # "idle")
    BY <1>3, <1>4 DEF Aware
  <1>8. \A i : Waiter(i)' => Waiter(i)
    BY <1>3, <1>4 DEF Waiter, Busy
  <1> HIDE DEF K
  <1> QED BY <1>3, <1>4, <1>5, <1>6, <1>7, <1>8, TasksGood

LEMMA CreatedAll ==
    ASSUME All, ExtKept, ~closed, down' = down, up # <<>>, up' = Tail(up),
           NEW m, m = up[1], m \in News, m.kind = "created", OnCreated(m)
    PROVE  All'
  <1>1. /\ known' = known \cup {m.tab} /\ m.tab \in Tabs
        /\ UNCHANGED <<initialized, closed, session, pages, auto, client>>
    BY DEF OnCreated, News
  <1>2. TaskInv' /\ \A k : Waiter(k)' => Waiter(k)
    <2>1. CASE auto
      <3> DEFINE j == Job("spawned", m.tab)
      <3>1. j \in TaskStates /\ j.step = "start" /\ j.tab \in Tabs
        BY <1>1 DEF Job, TaskStates
      <3>2. FreshTasks # {} /\ task' = [task EXCEPT ![Fresh] = j] /\ ready' = Append(ready, Fresh)
        BY <2>1 DEF OnCreated
      <3>3. client # "away"
        BY <2>1 DEF All, ModelInv
      <3> HIDE DEF j
      <3> QED BY <3>1, <3>2, <3>3, MadeAll DEF All
    <2>2. CASE ~auto
      BY <2>2, TasksStay DEF All, OnCreated, taskVars
    <2> QED BY <2>1, <2>2
  <1>3. client = "away" => \A k \in Tasks : task'[k].step = "idle"
    BY DEF All, ModelInv, OnCreated, taskVars
  <1>4. ModelInv'
    <2>1. known' \subseteq Tabs /\ IsFiniteSet(known')
      BY <1>1, FS_AddElement DEF All, ModelInv
    <2> QED BY <1>1, <1>3, <2>1 DEF All, ModelInv
  <1>5. LineInv' /\ OwedInv' /\ EndInv'
    BY <1>1, <1>2, Received DEF All, TaskInv
  <1> QED BY <1>2, <1>4, <1>5 DEF All

LEMMA RemovedAll ==
    ASSUME All, ExtKept, ~closed, down' = down, up # <<>>, up' = Tail(up),
           NEW m, m = up[1], m.kind \in {"removed", "detached", "initialized"},
           OnRemoved(m) \/ OnInitialized
    PROVE  All'
  <1>1. UNCHANGED <<closed, auto, client, task, ready>> /\ initialized' \in BOOLEAN
    BY DEF OnRemoved, OnInitialized, taskVars, All, ModelInv
  <1>2. TaskInv' /\ \A k : Waiter(k)' <=> Waiter(k)
    BY <1>1, TasksStay DEF All
  <1>3. LineInv' /\ OwedInv' /\ EndInv'
    BY <1>1, <1>2, Received DEF All, TaskInv
  <1>4. CASE OnInitialized
    <2>1. UNCHANGED <<known, session, pages>>
      BY <1>4 DEF OnInitialized, tabModel
    <2>2. ModelInv'
      BY <1>1, <2>1 DEF All, ModelInv
    <2> QED BY <1>2, <1>3, <2>2 DEF All
  <1>5. CASE OnRemoved(m)
    <2>1. known' \subseteq known /\ session' = session \ {m.tab}
      BY <1>5 DEF OnRemoved, DetachTab
    <2>2. pages' = IF m.tab \in session /\ client = "here" THEN [pages EXCEPT ![m.tab] = @ - 1] ELSE pages
      BY <1>5 DEF OnRemoved, DetachTab
    <2>3. IsFiniteSet(known')
      BY <2>1, FS_Subset DEF All, ModelInv
    <2>4. pages' \in [Tabs -> Nat] /\ (client = "here" => \A t \in session' : pages'[t] > 0)
      BY <2>1, <2>2 DEF All, ModelInv
    <2>5. ModelInv'
      BY <1>1, <2>1, <2>3, <2>4 DEF All, ModelInv
    <2> QED BY <1>2, <1>3, <2>5 DEF All
  <1> QED BY <1>4, <1>5

LEMMA ByeAll ==
    ASSUME All, ExtKept, ~closed, down' = down, up # <<>>, up' = Tail(up),
           up[1].kind = "bye", 1 \in DOMAIN up, OnBye
    PROVE  All'
  <1>0. /\ task \in [Tasks -> TaskStates] /\ ready \in Seq(Tasks) /\ Once(ready)
        /\ up \in Seq(News)
    BY DEF All, TaskInv, LineInv
  <1>1. UNCHANGED <<initialized, known, session, pages, auto>> /\ closed' = TRUE
    BY DEF OnBye, tabModel
  <1>2. client' = (IF client = "here" THEN "gone" ELSE client)
    BY DEF OnBye
  <1>3. HasBye(up) /\ ~alive
    BY DEF HasBye, All, LineInv
  <1> DEFINE W == Waiting
  <1>4. W \in SUBSET Tasks /\ IsFiniteSet(W) /\ \A k \in W : ~In(k) /\ task[k].step # "idle"
    <2>1. W \subseteq Started
      BY DEF Waiting, Busy, Started
    <2>2. IsFiniteSet(W)
      BY <2>1, FS_Subset DEF All, TaskInv
    <2>3. \A k \in W : ~In(k) /\ task[k].step # "idle"
      BY <1>0, Waiters DEF Waiter, Busy
    <2> QED BY <2>1, <2>2, <2>3 DEF Started
  <1>5. /\ ready' = ready \o SetToSeq(W)
        /\ task' = [k \in Tasks |-> IF k \in W THEN [task[k] EXCEPT !.ok = FALSE]
                                    ELSE IF k \in Orphans THEN Idle ELSE task[k]]
    BY DEF OnBye
  <1>6. \A k : k \in W <=> Waiter(k)
    BY <1>0, Waiters
  <1> HIDE DEF W
  <1>7. ready' \in Seq(Tasks) /\ Once(ready') /\ \A k : In(k)' <=> (In(k) \/ k \in W)
    BY <1>0, <1>4, <1>5, QueuedAll
  <1>8. \A k \in W : /\ task'[k] \in TaskStates /\ ~task'[k].ok /\ task'[k].step = task[k].step
                     /\ task'[k].goal = task[k].goal /\ task'[k].tab = task[k].tab
    <2> SUFFICES ASSUME NEW k \in W
                 PROVE /\ task'[k] \in TaskStates /\ ~task'[k].ok /\ task'[k].step = task[k].step
                       /\ task'[k].goal = task[k].goal /\ task'[k].tab = task[k].tab
      OBVIOUS
    <2>1. task[k] \in TaskStates /\ task'[k] = [task[k] EXCEPT !.ok = FALSE]
      BY <1>0, <1>4, <1>5
    <2> QED BY <2>1 DEF TaskStates
  <1>9. \A k \in Orphans : k \in Tasks /\ ~In(k) /\ task[k].step = "cancelled" /\ k \notin W
    BY <1>0, <1>6, Contained DEF Orphans, In, Waiter, Busy
  <1>10. \A k \in Orphans : task'[k] = Idle
    BY <1>5, <1>9
  <1>11. \A k \in Tasks \ (W \cup Orphans) : task'[k] = task[k]
    BY <1>5
  <1>12. task' \in [Tasks -> TaskStates]
    <2>1. \A k \in Tasks : task'[k] \in TaskStates
      BY <1>0, <1>8, <1>10, <1>11, IdleOK
    <2>2. task' = [k \in Tasks |-> task'[k]]
      BY <1>5
    <2> QED BY <2>1, <2>2
  <1> DEFINE K == W \cup Orphans
  <1>13. K \in SUBSET Tasks /\ IsFiniteSet(K)
    <2>1. Orphans \subseteq Started
      BY DEF Orphans, Started
    <2>2. IsFiniteSet(Orphans)
      BY <2>1, FS_Subset DEF All, TaskInv
    <2> QED BY <1>4, <1>9, <2>2, FS_Union
  <1>14. \A k \in Tasks \ K : task'[k] = task[k] /\ (In(k)' <=> In(k))
    BY <1>7, <1>11
  <1>15. \A k \in K : Aware(k)' /\ (In(k)' => task'[k].step # "idle")
    <2>1. ASSUME NEW k \in W PROVE Aware(k)' /\ task'[k].step # "idle"
      <3>1. Aware(k) /\ k \in Tasks /\ In(k)' /\ ~In(k)
        BY <1>4, <1>7 DEF All, TaskInv
      <3> QED BY <1>4, <1>8, <3>1 DEF Aware
    <2>2. ASSUME NEW k \in Orphans PROVE Aware(k)' /\ ~In(k)'
      BY <1>7, <1>9, <1>10, IdleOK DEF Aware
    <2> QED BY <2>1, <2>2
  <1>16. \A k : ~Waiter(k)'
    <2> SUFFICES ASSUME NEW k \in Tasks, Busy(k)', ~In(k)' PROVE FALSE
      BY DEF Waiter
    <2>1. k \notin W /\ ~In(k)
      BY <1>7
    <2>2. k \notin Orphans
      BY <1>10, IdleOK DEF Busy
    <2>3. Busy(k)
      BY <1>11, <2>1, <2>2 DEF Busy
    <2> QED BY <1>6, <2>1, <2>3 DEF Waiter
  <1>17. client = "away" => \A k \in Tasks : task'[k].step = "idle"
    BY <1>8, <1>10, <1>11, IdleOK DEF All, ModelInv
  <1> HIDE DEF K
  <1>18. TaskInv'
    BY <1>7, <1>12, <1>13, <1>14, <1>15, TasksGood DEF All
  <1>19. ModelInv'
    BY <1>1, <1>2, <1>17 DEF All, ModelInv
  <1>20. OwedInv'
    BY <1>1, <1>7, <1>16, WaitersNext DEF OwedInv
  <1>21. EndInv'
    BY <1>1, <1>2, <1>3 DEF EndInv, ExtKept
  <1>22. LineInv'
    <2>1. up' \in Seq(News)
      BY <1>0, TailOf
    <2> QED BY <1>3, <2>1 DEF All, LineInv, ExtKept
  <1> QED BY <1>18, <1>19, <1>20, <1>21, <1>22 DEF All

LEMMA RelayReceivesAll ==
    ASSUME All, ExtKept, RelayReceives
    PROVE  All'
  <1>0. up \in Seq(News) /\ up # <<>> /\ up' = Tail(up) /\ down' = down /\ ~closed
    BY DEF RelayReceives, All, LineInv
  <1>1. PICK m : m = Head(up)
    OBVIOUS
  <1>2. m = up[1] /\ m \in News /\ 1 \in DOMAIN up
    BY <1>0, <1>1, TailOf
  <1>3. \/ m.kind = "answer" /\ OnAnswer(m)
        \/ m.kind = "created" /\ OnCreated(m)
        \/ m.kind \in {"removed", "detached"} /\ OnRemoved(m)
        \/ m.kind = "initialized" /\ OnInitialized
        \/ m.kind = "bye" /\ OnBye
    BY <1>1 DEF RelayReceives
  <1>4. CASE m.kind = "answer" /\ OnAnswer(m)
    BY <1>0, <1>2, <1>4, AnswerAll
  <1>5. CASE m.kind = "created" /\ OnCreated(m)
    BY <1>0, <1>2, <1>5, CreatedAll
  <1>6. CASE m.kind \in {"removed", "detached"} /\ OnRemoved(m)
    BY <1>0, <1>2, <1>6, RemovedAll
  <1>7. CASE m.kind = "initialized" /\ OnInitialized
    BY <1>0, <1>2, <1>7, RemovedAll
  <1>8. CASE m.kind = "bye" /\ OnBye
    BY <1>0, <1>2, <1>8, ByeAll
  <1> QED BY <1>3, <1>4, <1>5, <1>6, <1>7, <1>8

\* A task has its turn, and is over with it.
LEMMA EndAll ==
    ASSUME All, ExtKept, ready # <<>>, NEW k, k = Head(ready), End(k, Tail(ready)),
           up' = up, UNCHANGED <<closed, client>>, ModelInv'
    PROVE  All'
  <1>1. task' = [task EXCEPT ![k] = Idle] /\ ready' = Tail(ready) /\ down' = down
    BY DEF End
  <1>2. /\ k \in Tasks /\ In(k) /\ ~In(k)' /\ ready' \in Seq(Tasks) /\ Once(ready')
        /\ \A j : j # k => (In(j)' <=> In(j))
    BY <1>1, TurnTaken DEF All
  <1>3. task' \in [Tasks -> TaskStates] /\ task'[k] = Idle /\ \A j \in Tasks \ {k} : task'[j] = task[j]
    BY <1>1, <1>2, IdleOK, OneTask DEF All
  <1> DEFINE K == {k}
  <1>4. K \in SUBSET Tasks /\ IsFiniteSet(K)
    BY <1>2, FS_Singleton
  <1>5. \A i \in Tasks \ K : task'[i] = task[i] /\ (In(i)' <=> In(i))
    BY <1>2, <1>3
  <1>6. \A i \in K : Aware(i)' /\ (In(i)' => task'[i].step # "idle")
    BY <1>2, <1>3, IdleOK DEF Aware
  <1>7. \A i : Waiter(i)' => Waiter(i)
    BY <1>2, <1>3, IdleOK DEF Waiter, Busy
  <1> HIDE DEF K
  <1>8. TaskInv'
    BY <1>2, <1>3, <1>4, <1>5, <1>6, TasksGood DEF All
  <1>9. LineInv' /\ OwedInv' /\ EndInv'
    <2>1. client' = "here" => ~closed
      BY DEF All, EndInv
    <2> QED BY <1>1, <1>2, <1>7, <2>1, Sent DEF All, TaskInv
  <1> QED BY <1>8, <1>9 DEF All

\* A task has its turn, and asks the extension for something.
LEMMA AskAll ==
    ASSUME All, ExtKept, ready # <<>>, NEW k, k = Head(ready), NEW t \in Tabs \cup {NoTab},
           NEW step \in {"attach", "info", "create", "remove", "command"},
           step # "create" => t \in Tabs, Ask(k, t, step, Tail(ready)),
           up' = up, UNCHANGED <<closed, client>>, ModelInv'
    PROVE  All'
  <1>1. CASE closed
    BY <1>1, EndAll DEF Ask, End
  <1>2. CASE ~closed
    <2> DEFINE s == [task[k] EXCEPT !.step = step, !.tab = t]
               c == Command(step, k, t)
    <2>1. /\ task' = [task EXCEPT ![k] = [@ EXCEPT !.step = step, !.tab = t]] /\ ready' = Tail(ready)
          /\ down' = Append(down, c)
      BY <1>2 DEF Ask
    <2>2. /\ k \in Tasks /\ In(k) /\ ~In(k)' /\ ready' \in Seq(Tasks) /\ Once(ready')
          /\ \A j : j # k => (In(j)' <=> In(j))
      BY <2>1, TurnTaken DEF All
    <2>3. task' = [task EXCEPT ![k] = s]
      BY <2>1
    <2>4. s \in TaskStates /\ s.step = step /\ s.tab = t
      <3>1. task[k] \in TaskStates
        BY <2>2 DEF All, TaskInv
      <3> QED BY <3>1 DEF TaskStates
    <2>5. c \in Orders /\ c.task = k
      BY <2>2 DEF Command, Orders, Commands
    <2> HIDE DEF s, c
    <2>6. task' \in [Tasks -> TaskStates] /\ task'[k] = s /\ \A j \in Tasks \ {k} : task'[j] = task[j]
      BY <2>2, <2>3, <2>4, OneTask DEF All
    <2> DEFINE K == {k}
    <2>7. K \in SUBSET Tasks /\ IsFiniteSet(K)
      BY <2>2, FS_Singleton
    <2>8. \A i \in Tasks \ K : task'[i] = task[i] /\ (In(i)' <=> In(i))
      BY <2>2, <2>6
    <2>9. \A i \in K : Aware(i)' /\ (In(i)' => task'[i].step # "idle")
      BY <2>2, <2>4, <2>6 DEF Aware
    <2>10. \E i \in DOMAIN down' : down'[i].task = k
      <3>1. down \in Seq(Orders)
        BY DEF All, LineInv
      <3>2. Len(down) + 1 \in DOMAIN down' /\ down'[Len(down) + 1] = c
        BY <2>1, <2>5, <3>1
      <3> QED BY <2>5, <3>2
    <2>11. \A i : Waiter(i)' => Waiter(i) \/ (~closed /\ \E n \in DOMAIN down' : down'[n].task = i)
      BY <1>2, <2>2, <2>6, <2>10 DEF Waiter, Busy
    <2> HIDE DEF K
    <2>12. TaskInv'
      BY <2>2, <2>6, <2>7, <2>8, <2>9, TasksGood DEF All
    <2>13. LineInv' /\ OwedInv' /\ EndInv'
      <3>1. client' = "here" => ~closed
        BY <1>2
      <3>2. ~closed /\ \E d \in Orders : down' = Append(down, d)
        BY <1>2, <2>1, <2>5
      <3> QED BY <2>2, <2>11, <3>1, <3>2, Sent DEF All, TaskInv
    <2> QED BY <2>12, <2>13 DEF All
  <1> QED BY <1>1, <1>2

LEMMA RunTaskAll ==
    ASSUME All, ExtKept, RunTask
    PROVE  All'
  <1>0. /\ ready # <<>> /\ up' = up /\ UNCHANGED <<initialized, closed, auto, client>>
        /\ ready \in Seq(Tasks)
    BY DEF RunTask, All, TaskInv
  <1>1. PICK k : k = Head(ready)
    OBVIOUS
  <1>2. PICK rest : rest = Tail(ready)
    OBVIOUS
  <1>3. \/ Begins(k, rest) \/ Ends(k, rest) \/ Created(k, rest)
        \/ AttachDone(k, rest) \/ InfoDone(k, rest)
    BY <1>1, <1>2 DEF RunTask
  <1>4. k \in Tasks /\ In(k) /\ task[k] \in TaskStates /\ Aware(k) /\ task[k].step # "idle"
    <2>1. k \in Tasks /\ In(k)
      BY <1>0, <1>1, TailOf DEF In
    <2> QED BY <2>1 DEF All, TaskInv
  <1>5. client # "away"
    BY <1>4 DEF All, ModelInv
  <1>6. ASSUME UNCHANGED <<known, session, pages>> PROVE ModelInv'
    BY <1>0, <1>5, <1>6 DEF All, ModelInv
  <1>7. ASSUME End(k, rest), ModelInv' PROVE All'
    BY <1>0, <1>1, <1>2, <1>7, EndAll
  <1>8. ASSUME NEW t \in Tabs \cup {NoTab}, NEW step \in {"attach", "info", "create", "remove", "command"},
               step # "create" => t \in Tabs, Ask(k, t, step, rest), ModelInv'
        PROVE  All'
    BY <1>0, <1>1, <1>2, <1>8, AskAll
  <1>9. ASSUME NEW t \in Tabs, StartAttach(k, t, rest), ModelInv' PROVE All'
    BY <1>7, <1>8, <1>9 DEF StartAttach
  <1>10. CASE Begins(k, rest)
    <2>1. ModelInv' /\ task[k].step = "start"
      BY <1>6, <1>10 DEF Begins, tabModel
    <2>2. task[k].goal # "create" => task[k].tab \in Tabs
      BY <1>4, <2>1 DEF Aware
    <2>3. CASE task[k].goal \in {"spawned", "attach"} /\ StartAttach(k, task[k].tab, rest)
      BY <1>9, <2>1, <2>2, <2>3
    <2>4. CASE task[k].goal = "create" /\ Ask(k, NoTab, "create", rest)
      BY <1>8, <2>1, <2>4
    <2>5. CASE /\ task[k].goal \in {"remove", "command"}
               /\ IF task[k].tab \in session THEN Ask(k, task[k].tab, task[k].goal, rest) ELSE End(k, rest)
      BY <1>7, <1>8, <2>1, <2>2, <2>5
    <2> QED BY <1>10, <2>3, <2>4, <2>5 DEF Begins
  <1>11. CASE Ends(k, rest)
    BY <1>6, <1>7, <1>11 DEF Ends, tabModel
  <1>12. CASE Created(k, rest)
    <2>1. task[k].tab \in Tabs
      BY <1>4, <1>12 DEF Created, Aware
    <2>2. known' = known \cup {task[k].tab} /\ UNCHANGED <<session, pages>>
      BY <1>12 DEF Created
    <2>3. known' \subseteq Tabs /\ IsFiniteSet(known')
      BY <2>1, <2>2, FS_AddElement DEF All, ModelInv
    <2>4. ModelInv'
      BY <1>0, <1>5, <2>2, <2>3 DEF All, ModelInv
    <2> QED BY <1>9, <1>12, <2>1, <2>4 DEF Created
  <1>13. CASE AttachDone(k, rest)
    <2>1. task[k].tab \in Tabs
      BY <1>4, <1>13 DEF AttachDone, Aware
    <2> QED BY <1>6, <1>8, <1>13, <2>1 DEF AttachDone, tabModel
  <1>14. CASE InfoDone(k, rest)
    <2>1. PICK t : t = task[k].tab
      OBVIOUS
    <2>2. t \in Tabs
      BY <1>4, <1>14, <2>1 DEF InfoDone, Aware
    <2>3. /\ session' = session \cup {t} /\ known' = known
          /\ pages' = IF client = "here" THEN [pages EXCEPT ![t] = @ + 1] ELSE pages
      BY <1>14, <2>1 DEF InfoDone
    <2>4. pages' \in [Tabs -> Nat] /\ (client = "here" => \A u \in session' : pages'[u] > 0)
      BY <2>2, <2>3 DEF All, ModelInv
    <2>5. ModelInv'
      BY <1>0, <1>5, <2>2, <2>3, <2>4 DEF All, ModelInv
    <2> QED BY <1>7, <1>14, <2>5 DEF InfoDone
  <1> QED BY <1>3, <1>10, <1>11, <1>12, <1>13, <1>14

LEMMA AutoAttachAll ==
    ASSUME All, ExtKept, AutoAttach
    PROVE  All'
  <1>0. /\ task \in [Tasks -> TaskStates] /\ ready \in Seq(Tasks) /\ Once(ready)
        /\ known \subseteq Tabs /\ IsFiniteSet(known)
    BY DEF All, TaskInv, ModelInv
  <1>1. PICK f \in [known -> FreshTasks] :
          /\ task' = [k \in Tasks |-> IF \E t \in known : f[t] = k
                                      THEN Job("attach", CHOOSE t \in known : f[t] = k) ELSE task[k]]
          /\ ready' = ready \o SetToSeq({f[t] : t \in known})
    BY DEF AutoAttach
  <1>2. /\ UNCHANGED <<up, down, initialized, closed, known, session, pages, client>>
        /\ client = "here" /\ auto' = TRUE
    BY DEF AutoAttach, linkVars, tabModel
  <1> DEFINE K == {f[t] : t \in known}
  <1>3. K \subseteq FreshTasks /\ IsFiniteSet(K)
    <2>1. f \in Surjection(known, K)
      BY DEF Surjection
    <2> QED BY <1>0, <2>1, FS_Surjection
  <1>4. K \in SUBSET Tasks /\ \A k \in K : ~In(k)
    BY <1>3 DEF FreshTasks, All, TaskInv
  <1>5. ASSUME NEW k \in K
        PROVE  task'[k] \in TaskStates /\ task'[k].step = "start" /\ task'[k].tab \in Tabs
    <2> DEFINE t == CHOOSE u \in known : f[u] = k
    <2>1. t \in known /\ \E u \in known : f[u] = k
      BY <1>5
    <2>2. task'[k] = Job("attach", t)
      BY <1>1, <1>4, <2>1
    <2>3. t \in Tabs
      BY <1>0, <2>1
    <2> HIDE DEF t
    <2> QED BY <2>2, <2>3 DEF Job, TaskStates
  <1>6. \A k \in Tasks \ K : task'[k] = task[k]
    BY <1>1
  <1>7. ready' = ready \o SetToSeq(K) /\ task' = [k \in Tasks |-> task'[k]]
    BY <1>1
  <1> HIDE DEF K
  <1>8. task' \in [Tasks -> TaskStates]
    <2>1. \A k \in Tasks : task'[k] \in TaskStates
      BY <1>0, <1>5, <1>6
    <2> QED BY <1>7, <2>1
  <1>9. ready' \in Seq(Tasks) /\ Once(ready') /\ \A k : In(k)' <=> (In(k) \/ k \in K)
    BY <1>0, <1>3, <1>4, <1>7, QueuedAll
  <1>10. \A k \in Tasks \ K : task'[k] = task[k] /\ (In(k)' <=> In(k))
    BY <1>6, <1>9
  <1>11. \A k \in K : Aware(k)' /\ (In(k)' => task'[k].step # "idle")
    BY <1>5, <1>9 DEF Aware
  <1>12. \A k : Waiter(k)' => Waiter(k)
    BY <1>6, <1>9 DEF Waiter, Busy
  <1>13. TaskInv'
    BY <1>3, <1>4, <1>8, <1>9, <1>10, <1>11, TasksGood DEF All
  <1>14. ModelInv'
    BY <1>2 DEF All, ModelInv
  <1>15. LineInv' /\ OwedInv' /\ EndInv'
    <2>1. client' = "here" => ~closed
      BY <1>2 DEF All, EndInv
    <2> QED BY <1>0, <1>2, <1>9, <1>12, <2>1, Sent
           DEF All
  <1> QED BY <1>13, <1>14, <1>15 DEF All

LEMMA ClientAsksAll ==
    ASSUME All, ExtKept, NEW goal \in {"create", "remove", "command"}, NEW t \in Tabs \cup {NoTab},
           ClientAsks(goal, t)
    PROVE  All'
  <1> DEFINE j == Job(goal, t)
  <1>1. j \in TaskStates /\ j.step = "start" /\ j.goal = goal /\ j.tab = t
    BY DEF Job, TaskStates
  <1>2. /\ FreshTasks # {} /\ task' = [task EXCEPT ![Fresh] = j] /\ ready' = Append(ready, Fresh)
        /\ UNCHANGED <<up, down, initialized, closed, known, session, pages, auto, client>>
        /\ client = "here"
    BY DEF ClientAsks, linkVars, tabModel
  <1>3. j.goal # "create" => j.tab \in Tabs
    BY <1>1 DEF ClientAsks
  <1> HIDE DEF j
  <1>4. TaskInv' /\ \A k : Waiter(k)' => Waiter(k)
    BY <1>1, <1>2, <1>3, MadeAll DEF All
  <1>5. ModelInv'
    BY <1>2 DEF All, ModelInv
  <1>6. client' = "here" => ~closed
    BY <1>2 DEF All, EndInv
  <1>7. LineInv' /\ OwedInv' /\ EndInv'
    BY <1>2, <1>4, <1>6, Sent DEF All, TaskInv
  <1> QED BY <1>4, <1>5, <1>7 DEF All

LEMMA ClientConnectsAll ==
    ASSUME All, ExtKept, ClientConnects
    PROVE  All'
  <1>1. /\ UNCHANGED <<up, down, initialized, closed, known, session, pages, auto, task, ready>>
        /\ client = "away" /\ client' = "here" /\ ~closed
    BY DEF ClientConnects, linkVars, tabModel, taskVars
  <1>2. TaskInv' /\ \A k : Waiter(k)' <=> Waiter(k)
    BY <1>1, TasksStay DEF All
  <1>3. ModelInv'
    BY <1>1 DEF All, ModelInv
  <1>4. LineInv' /\ OwedInv' /\ EndInv'
    BY <1>1, <1>2, Sent DEF All, TaskInv
  <1> QED BY <1>2, <1>3, <1>4 DEF All

\* The tasks are cancelled, and the end is sent.
LEMMA ClientLeavesAll ==
    ASSUME All, ExtKept, ClientLeaves
    PROVE  All'
  <1>0. task \in [Tasks -> TaskStates] /\ ready \in Seq(Tasks) /\ Once(ready)
    BY DEF All, TaskInv
  <1>1. /\ UNCHANGED <<up, initialized, closed, known, session, pages, auto, ready>>
        /\ client = "here" /\ client' = "gone"
    BY DEF ClientLeaves, tabModel
  <1> DEFINE K == {k \in Tasks : Busy(k) /\ task[k].goal # "spawned"}
             s == [Idle EXCEPT !.step = "cancelled"]
  <1>2. task' = [k \in Tasks |-> IF k \in K THEN s ELSE task[k]]
    BY DEF ClientLeaves
  <1>3. s \in TaskStates /\ s.step = "cancelled"
    BY DEF Idle, TaskStates
  <1>4. K \in SUBSET Tasks /\ IsFiniteSet(K)
    <2>1. K \subseteq Started
      BY DEF Started, Busy
    <2> QED BY <2>1, FS_Subset DEF All, TaskInv
  <1> HIDE DEF K, s
  <1>5. /\ task' \in [Tasks -> TaskStates] /\ \A k \in K : task'[k] = s
        /\ \A k \in Tasks \ K : task'[k] = task[k]
    BY <1>0, <1>2, <1>3, <1>4
  <1>6. \A k : In(k)' <=> In(k)
    BY <1>1 DEF In
  <1>7. \A k \in K : Aware(k)' /\ (In(k)' => task'[k].step # "idle")
    BY <1>3, <1>5 DEF Aware
  <1>8. \A k : Waiter(k)' => Waiter(k)
    BY <1>3, <1>5, <1>6 DEF Waiter, Busy
  <1>9. TaskInv'
    BY <1>0, <1>1, <1>4, <1>5, <1>6, <1>7, TasksGood DEF All
  <1>10. ModelInv'
    BY <1>1 DEF All, ModelInv
  <1>11. LineInv' /\ OwedInv' /\ EndInv'
    <2> DEFINE c == Command("bye", NoTask, NoTab)
    <2>1. c \in Orders /\ c.kind = "bye"
      BY DEF Command, Orders, Commands
    <2>2. down' = Append(down, c) /\ ~closed
      BY DEF ClientLeaves, All, EndInv
    <2> HIDE DEF c
    <2>3. \E i \in DOMAIN down' : down'[i].kind = "bye"
      <3>1. down \in Seq(Orders)
        BY DEF All, LineInv
      <3>2. Len(down) + 1 \in DOMAIN down' /\ down'[Len(down) + 1] = c
        BY <2>1, <2>2, <3>1
      <3> QED BY <2>1, <3>2
    <2> QED BY <1>0, <1>1, <1>8, <2>1, <2>2, <2>3, Sent DEF All
  <1> QED BY <1>9, <1>10, <1>11 DEF All

LEMMA RelayAll ==
    ASSUME All, ExtKept, RelayStep \/ ClientCommand
    PROVE  All'
  BY RelayReceivesAll, RunTaskAll, ClientConnectsAll, AutoAttachAll, ClientAsksAll, ClientLeavesAll
     DEF RelayStep, ClientCommand

-----------------------------------------------------------------------------
(* The theorems *)

Whole == ExtSets /\ All

LEMMA InitWhole == Init => Whole
  <1> SUFFICES ASSUME Init PROVE Whole
    OBVIOUS
  <1> DEFINE m == Event("created", Picked)
             o == Event("initialized", NoTab)
  <1>1. /\ up = <<m, o>> /\ down = <<>> /\ ready = <<>> /\ running = {} /\ attached = {} /\ alive = TRUE
        /\ known = {} /\ session = {} /\ closed = FALSE /\ task = [k \in Tasks |-> Idle]
        /\ auto = FALSE /\ initialized = FALSE /\ client = "away" /\ pages = [t \in Tabs |-> 0]
    BY DEF Init, RelayInit, ExtInit
  <1>2. ExtSets
    BY PickedAssumption DEF Init, ExtInit, ExtSets, NoPend
  <1>3. m \in News /\ m.kind = "created" /\ o \in News /\ o.kind = "initialized"
    BY PickedAssumption DEF Event, News, UpMessages
  <1> HIDE DEF m, o
  <1>4. up \in Seq(News) /\ ~HasBye(up) /\ down \in Seq(Orders) /\ ready \in Seq(Tasks)
    <2>1. up \in Seq(News) /\ DOMAIN up = {1, 2} /\ up[1] = m /\ up[2] = o
      BY <1>1, <1>3
    <2> QED BY <1>1, <1>3, <2>1 DEF HasBye
  <1>5. LineInv
    BY <1>1, <1>4, FS_EmptySet DEF LineInv
  <1>6. \A k \in Tasks : task[k] = Idle /\ ~In(k)
    BY <1>1 DEF In
  <1>7. TaskInv
    <2>1. Started = {}
      BY <1>6, IdleOK DEF Started
    <2>2. Once(ready)
      BY <1>1 DEF Once
    <2>3. \A k \in Tasks : Aware(k)
      BY <1>6, IdleOK DEF Aware
    <2> QED BY <1>1, <1>4, <1>6, <2>1, <2>2, <2>3, IdleOK, FS_EmptySet DEF TaskInv
  <1>8. ModelInv
    BY <1>1, <1>6, IdleOK, FS_EmptySet DEF ModelInv
  <1>9. OwedInv
    <2>1. Waiting = {}
      BY <1>6, IdleOK DEF Waiting, Busy
    <2> QED BY <2>1 DEF OwedInv
  <1>10. EndInv
    BY <1>1 DEF EndInv
  <1> QED BY <1>2, <1>5, <1>7, <1>8, <1>9, <1>10 DEF Whole, All

LEMMA NextWhole == Whole /\ [Next]_vars => Whole'
  <1> SUFFICES ASSUME Whole, [Next]_vars PROVE Whole'
    OBVIOUS
  <1>1. CASE (RelayStep \/ ClientCommand) /\ UNCHANGED extVars
    <2>1. ExtKept /\ ExtSets'
      BY <1>1 DEF extVars, tabVars, ExtKept, ExtSets, Whole
    <2> QED BY <1>1, <2>1, RelayAll DEF Whole
  <1>2. CASE (ExtStep \/ Incident) /\ UNCHANGED relayVars
    <2>1. ExtSets'
      BY <1>2, ExtTypes DEF Whole, All
    <2>2. LineInv' /\ OwedInv' /\ EndInv'
      BY <1>2, ExtOwes DEF Whole, All
    <2>3. UNCHANGED <<initialized, closed, known, session, pages, auto, client, task, ready>>
      BY <1>2 DEF relayVars, tabModel, taskVars
    <2>4. ModelInv'
      BY <2>3 DEF Whole, All, ModelInv
    <2>5. TaskInv'
      BY <2>3, TasksStay DEF Whole, All
    <2> QED BY <2>1, <2>2, <2>4, <2>5 DEF Whole, All
  <1>3. CASE UNCHANGED vars
    <2>1. ExtKept /\ ExtSets'
      BY <1>3 DEF vars, extVars, tabVars, ExtKept, ExtSets, Whole
    <2>2. UNCHANGED <<up, down, initialized, closed, known, session, pages, auto, client, task, ready>>
      BY <1>3 DEF vars, linkVars, relayVars, tabModel, taskVars
    <2>3. TaskInv' /\ \A k : Waiter(k)' <=> Waiter(k)
      BY <2>2, TasksStay DEF Whole, All
    <2>4. ModelInv'
      BY <2>2 DEF Whole, All, ModelInv
    <2>5. LineInv' /\ OwedInv' /\ EndInv'
      <3>1. client' = "here" => ~closed
        BY <2>2 DEF Whole, All, EndInv
      <3> QED BY <2>1, <2>2, <2>3, <3>1, Sent DEF Whole, All, TaskInv
    <2> QED BY <2>1, <2>3, <2>4, <2>5 DEF Whole, All
  <1> QED BY <1>1, <1>2, <1>3 DEF Next

\* Whatever becomes of tabs, debuggers, link and client, the variables of the relay and
\* of the extension keep their types: no tab is named that is none (_attach_tab), and no
\* detach is announced more often than its attach (_detach_tab).
THEOREM BridgeTypes == Spec => []TypeOK
  <1>1. Whole => TypeOK
    <2> SUFFICES ASSUME Whole PROVE TypeOK
      OBVIOUS
    <2>1. up \in Seq(UpMessages) /\ down \in Seq(Commands)
      <3>1. up \in Seq(News) /\ down \in Seq(Orders) /\ News \subseteq UpMessages /\ Orders \subseteq Commands
        BY DEF Whole, All, LineInv, News, Orders
      <3> QED BY <3>1
    <2>2. running \subseteq Commands
      BY DEF Whole, All, LineInv, Held, Orders
    <2> QED BY <2>1, <2>2 DEF TypeOK, LinkTypeOK, RelayTypeOK, ExtTypeOK, Whole, All, ModelInv, TaskInv, ExtSets
  <1> QED BY <1>1, InitWhole, NextWhole, PTL DEF Spec

\* A call of the relay that a task waits for is on its way, in Chrome's hands or answered,
\* or the link's end is on its way to the task (_call_extension, ExtensionBridge.close),
\* from the start of the connection to its end and whoever ends it.
THEOREM NoCallIsForgotten == Spec => []NoCallForgotten
  <1>1. Whole => NoCallForgotten
    <2> SUFFICES ASSUME Whole, NEW k \in Waiting
                 PROVE  /\ ~closed
                        /\ \/ \E c \in running \cup ToSet(down) : c.task = k
                           \/ \E m \in ToSet(up) : m.kind = "bye" \/ (m.kind = "answer" /\ m.task = k)
      BY DEF NoCallForgotten
    <2>1. ~closed /\ CallOut(k)
      BY DEF Whole, All, OwedInv
    <2>2. OnTheWay(k) => \E c \in running \cup ToSet(down) : c.task = k
      BY DEF OnTheWay, ToSet
    <2>3. Carries(up, k) => \E m \in ToSet(up) : m.kind = "bye" \/ (m.kind = "answer" /\ m.task = k)
      BY DEF Carries, HasBye, ToSet
    <2> QED BY <2>1, <2>2, <2>3 DEF CallOut
  <1> QED BY <1>1, InitWhole, NextWhole, PTL DEF Spec

\* Whichever of relay, client and extension ends first, the end of the others has happened
\* or is on its way to them (_serve_extension, _serve_cdp, RelayConnection._onClose).
THEOREM EndsFollow == Spec => []EndIsUnderWay
  <1>1. Whole => EndIsUnderWay
    BY DEF Whole, All, EndInv, EndIsUnderWay, HasBye, ToSet
  <1> QED BY <1>1, InitWhole, NextWhole, PTL DEF Spec

-----------------------------------------------------------------------------
(* The last tab: each step that detaches one or gives one up looks whether it *)
(* was the last.                                                              *)

LEMMA LastChecked ==
    ASSUME NEW off, NEW att, NEW pd, NEW rec, NEW grp, NEW msgs,
           Checked(off, att, pd, rec, grp, msgs), ever' = ever
    PROVE  StaysForATab'
  <1>1. NoneLeft(att, pd) => alive' = FALSE
    BY DEF Checked, Closed
  <1>2. ~NoneLeft(att, pd) => attached' = att /\ pend' = pd
    BY DEF Checked
  <1>3. ~NoneLeft(att, pd) => (ever' => att # {} \/ pd # NoPend)
    BY DEF NoneLeft
  <1>4. NoPend' = NoPend
    BY DEF NoPend
  <1> QED BY <1>1, <1>2, <1>3, <1>4 DEF StaysForATab

LEMMA LastDropped ==
    ASSUME NEW t, NEW off, NEW grp, NEW msgs, Dropped(t, off, grp, msgs), ever' = ever
    PROVE  StaysForATab'
  BY LastChecked DEF Dropped

LEMMA ExtLast == ASSUME ExtTypeOK, StaysForATab, ExtStep PROVE StaysForATab'
  <1> USE DEF tabVars, linkVars
  <1>1. CASE ExtReceives
    BY <1>1 DEF ExtReceives, Closed, StaysForATab, NoPend
  <1>2. ASSUME NEW c \in running, Call(c) PROVE StaysForATab'
    <2>1. CASE Attach(c)
      BY <2>1 DEF Attach, StaysForATab
    <2>2. CASE Forward(c) \/ Create(c) \/ CallFails(c)
      BY <2>2 DEF Forward, Create, CallFails, StaysForATab, NoPend
    <2>3. CASE TabCloses(c.tab)
      BY <2>3, LastDropped DEF TabCloses, StaysForATab, NoPend
    <2> QED BY <1>2, <2>1, <2>2, <2>3 DEF Call
  <1>3. ASSUME NEW t \in Tabs, TryReattach(t) PROVE StaysForATab'
    <2>1. CASE page[t] = "open"
      <3>1. pend \in [Tabs -> {"no", "delay", "verify"}]
        BY DEF ExtTypeOK
      <3>2. pend'[t] = "verify"
        BY <1>3, <2>1, <3>1 DEF TryReattach
      <3> QED BY <3>2 DEF StaysForATab, NoPend
    <2>2. CASE page[t] # "open"
      BY <1>3, <2>2, LastChecked DEF TryReattach
    <2> QED BY <2>1, <2>2
  <1>4. ASSUME NEW t \in Tabs, Verified(t) PROVE StaysForATab'
    BY <1>4, LastChecked DEF Verified
  <1>5. ASSUME NEW t \in Tabs, CooledDown(t) \/ Joined(t) PROVE StaysForATab'
    BY <1>5 DEF CooledDown, Joined, StaysForATab, NoPend
  <1> QED BY <1>1, <1>2, <1>3, <1>4, <1>5 DEF ExtStep, Timer

LEMMA IncidentLast == ASSUME StaysForATab, Incident PROVE StaysForATab'
  <1> USE DEF tabVars, linkVars
  <1>1. CASE UserDisconnects
    BY <1>1 DEF UserDisconnects, Closed, StaysForATab
  <1>2. ASSUME NEW c \in running, CallFails(c) PROVE StaysForATab'
    BY <1>2 DEF CallFails, StaysForATab, NoPend
  <1>3. ASSUME NEW t \in Tabs, TargetDetached(t) PROVE StaysForATab'
    BY <1>3, LastDropped DEF TargetDetached
  <1>4. ASSUME NEW t \in Tabs, Cancelled(t) PROVE StaysForATab'
    BY <1>4, LastChecked DEF Cancelled
  <1>5. ASSUME NEW t \in Tabs, TabCloses(t) PROVE StaysForATab'
    BY <1>5, LastDropped DEF TabCloses, StaysForATab, NoPend
  <1>6. ASSUME NEW t \in Tabs, DragOut(t) PROVE StaysForATab'
    BY <1>6, LastChecked DEF DragOut, StaysForATab, NoPend
  <1>7. ASSUME NEW t \in Tabs, DragIn(t) \/ Navigated(t) \/ Popup(t) PROVE StaysForATab'
    BY <1>7 DEF DragIn, Navigated, Popup, StaysForATab, NoPend
  <1> QED BY <1>1, <1>2, <1>3, <1>4, <1>5, <1>6, <1>7 DEF Incident

\* Whatever detaches, closes or is dragged out, a connection that had a tab lives on only
\* while one has a debugger or a timer is to bring one back.
THEOREM StaysForTabs == Spec => []StaysForATab
  <1>1. Init => StaysForATab
    BY DEF Init, ExtInit, StaysForATab
  <1>2. TypeOK /\ StaysForATab /\ [Next]_vars => StaysForATab'
    <2> SUFFICES ASSUME TypeOK, StaysForATab, [Next]_vars PROVE StaysForATab'
      OBVIOUS
    <2>1. CASE UNCHANGED extVars
      BY <2>1 DEF extVars, tabVars, StaysForATab, NoPend
    <2> QED BY <2>1, ExtLast, IncidentLast DEF Next, vars, TypeOK
  <1> QED BY <1>1, <1>2, BridgeTypes, PTL DEF Spec
=============================================================================
