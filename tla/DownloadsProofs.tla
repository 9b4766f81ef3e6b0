--------------------------- MODULE DownloadsProofs ---------------------------
(***************************************************************************)
(* Proofs about Downloads.tla, for any calls, pages and bounds: the types, *)
(* and that a call hands over a file its click has not started only for    *)
(* one of the reasons WrongFileHasReason names.                            *)
(***************************************************************************)
EXTENDS Downloads, WellFoundedInduction, TLAPS

-----------------------------------------------------------------------------
(* The lowest id *)

Less == {ss \in Nat \X Nat : ss[1] < ss[2]}

\* Any set of ids has a lowest one, so Min chooses a member that bounds the rest.
LEMMA MinOfIds ==
    ASSUME NEW S, S \subseteq Nat, S # {}
    PROVE  Min(S) \in S /\ \A y \in S : Min(S) <= y
  <1>1. OpToRel(<, Nat) = Less
    BY DEF OpToRel, Less
  <1>2. IsWellFoundedOn(Less, Nat)
    BY <1>1, NatLessThanWellFounded
  <1>3. PICK x \in S : \A y \in S : ~ (<<y, x>> \in Less)
    BY <1>2, WFMin
  <1>4. \A y \in S : x <= y
    <2> SUFFICES ASSUME NEW y \in S PROVE ~ (y < x)
      OBVIOUS
    <2>1. ASSUME y < x PROVE <<y, x>> \in Less
      BY <2>1 DEF Less
    <2> QED BY <1>3, <2>1
  <1> QED BY <1>4 DEF Min

-----------------------------------------------------------------------------
(* The types.  What the relay knows of is on Chrome's list, and so is what    *)
(* it will hear of.                                                           *)

Downloads == [by : Calls \cup {Other}, referrer : Pages \cup {NoPage},
              old : BOOLEAN, ended : BOOLEAN]
Entries == [timed : BOOLEAN, referrer : Pages \cup {NoPage}]
Events == [id : Ids, created : BOOLEAN]
States == [at : {"idle", "clicking", "polling", "searching", "copying"},
           url : Pages \cup {NoPage}, from : Pages \cup {NoPage}, owed : 0..MaxPerClick,
           known : SUBSET Ids, stale : SUBSET Ids, item : 0..MaxDownloads,
           expired : BOOLEAN, blind : BOOLEAN]

TypeInv ==
    /\ chrome \in Seq(Downloads) /\ DOMAIN chrome \subseteq Ids
    /\ wire \in Seq(Events) /\ \A k \in DOMAIN wire : wire[k].id \in DOMAIN chrome
    /\ DOMAIN reported \subseteq DOMAIN chrome
    /\ \A i \in DOMAIN reported : reported[i] \in Entries
    /\ connected \in BOOLEAN /\ call \in [Calls -> States]

LEMMA TypesOK == TypeInv => TypeOK
  <1> SUFFICES ASSUME TypeInv PROVE TypeOK
    OBVIOUS
  <1>1. Range(reported) \subseteq Entries
    BY DEF Range, TypeInv
  <1> QED BY <1>1 DEF TypeInv, TypeOK, Downloads, Entries, Events, States

LEMMA InitType == Init => TypeInv
  <1> SUFFICES ASSUME Init PROVE TypeInv
    OBVIOUS
  <1>1. [Begun(Other, NoPage) EXCEPT !.old = TRUE] \in Downloads
    BY DEF Begun, Downloads
  <1>2. chrome \in Seq(Downloads) /\ DOMAIN chrome \subseteq Ids
    <2>1. CASE chrome = <<>>
      BY <2>1
    <2>2. CASE chrome = <<[Begun(Other, NoPage) EXCEPT !.old = TRUE]>>
      BY <2>2, <1>1, DownloadsAssumption DEF Ids
    <2> QED BY <2>1, <2>2 DEF Init
  <1>3. Idle \in States
    BY DownloadsAssumption DEF Idle, States
  <1>4. call \in [Calls -> States]
    BY <1>3 DEF Init
  <1>5. wire \in Seq(Events) /\ DOMAIN wire = {} /\ DOMAIN reported = {} /\ connected \in BOOLEAN
    BY DEF Init
  <1> QED BY <1>2, <1>4, <1>5 DEF TypeInv

-----------------------------------------------------------------------------
(* Steps of the list *)

\* A function on the positions of a sequence is a sequence.
LEMMA Relisted ==
    ASSUME NEW S, NEW T, NEW s \in Seq(S), NEW f \in [DOMAIN s -> T]
    PROVE  f \in Seq(T) /\ DOMAIN f = DOMAIN s /\ Len(f) = Len(s)
  <1>1. f \in [1..Len(s) -> T]
    OBVIOUS
  <1>2. f \in Seq(T)
    BY <1>1
  <1> QED BY <1>1, <1>2

\* Chrome's list keeps who asked for a download, and from where.
Keeps ==
    \A i \in DOMAIN chrome : /\ i \in DOMAIN chrome'
                             /\ chrome'[i].by = chrome[i].by
                             /\ chrome'[i].referrer = chrome[i].referrer

\* A download starts: the list grows, and the news go onto the wire.
LEMMA StartsList ==
    ASSUME TypeInv, NEW who \in Calls \cup {Other}, NEW pg \in Pages \cup {NoPage},
           StartsBy(who, pg)
    PROVE  /\ chrome' \in Seq(Downloads) /\ DOMAIN chrome' \subseteq Ids
           /\ wire' \in Seq(Events) /\ \A k \in DOMAIN wire' : wire'[k].id \in DOMAIN chrome'
           /\ Keeps
           /\ UNCHANGED <<reported, connected>>
  <1>1. chrome \in Seq(Downloads) /\ Len(chrome) \in Nat /\ MaxDownloads \in Nat
        /\ Len(chrome) < MaxDownloads
    BY DownloadsAssumption DEF StartsBy, TypeInv
  <1>2. chrome' = Append(chrome, Begun(who, pg)) /\ Begun(who, pg) \in Downloads
    BY DEF StartsBy, Begun, Downloads
  <1>3. /\ chrome' \in Seq(Downloads) /\ DOMAIN chrome' = 1..Len(chrome) + 1
        /\ DOMAIN chrome = 1..Len(chrome)
        /\ \A i \in DOMAIN chrome : chrome'[i] = chrome[i]
    BY <1>1, <1>2
  <1>4. Keeps
    BY <1>1, <1>3 DEF Keeps
  <1>5. DOMAIN chrome' \subseteq Ids
    BY <1>1, <1>3 DEF Ids
  <1>6. wire' \in Seq(Events) /\ \A k \in DOMAIN wire' : wire'[k].id \in DOMAIN chrome'
    <2> DEFINE e == [id |-> Len(chrome) + 1, created |-> TRUE]
    <2>1. wire' = wire \/ wire' = Append(wire, e)
      BY DEF StartsBy, Announce
    <2>2. e \in Events /\ e.id \in DOMAIN chrome'
      BY <1>1, <1>3 DEF Events, Ids
    <2>3. wire \in Seq(Events) /\ \A k \in DOMAIN wire : wire[k].id \in DOMAIN chrome
      BY DEF TypeInv
    <2> HIDE DEF e
    <2>4. CASE wire' = wire
      BY <2>3, <2>4, <1>1, <1>3
    <2>5. CASE wire' = Append(wire, e)
      <3>1. wire' \in Seq(Events) /\ \A k \in DOMAIN wire' : wire'[k] = e \/ (k \in DOMAIN wire /\ wire'[k] = wire[k])
        BY <2>2, <2>3, <2>5
      <3> QED BY <3>1, <2>2, <2>3, <1>1, <1>3
    <2> QED BY <2>1, <2>4, <2>5
  <1> QED BY <1>3, <1>4, <1>5, <1>6 DEF StartsBy

\* Time passes, a download ends, or a call leaves its downloads behind.
LEMMA AgesList ==
    ASSUME TypeInv, NEW i, Ages(i)
    PROVE  chrome' \in Seq(Downloads) /\ DOMAIN chrome' = DOMAIN chrome /\ Keeps
  <1>1. chrome \in Seq(Downloads) /\ \A j \in DOMAIN chrome : chrome[j] \in Downloads
    BY DEF TypeInv
  <1>2. chrome' \in [DOMAIN chrome -> Downloads]
    BY <1>1 DEF Ages, Downloads
  <1>3. Keeps
    BY <1>1 DEF Ages, Downloads, Keeps
  <1> QED BY <1>1, <1>2, <1>3, Relisted

LEMMA EndsList ==
    ASSUME TypeInv, NEW i, Ends(i)
    PROVE  /\ chrome' \in Seq(Downloads) /\ DOMAIN chrome' = DOMAIN chrome /\ Keeps
           /\ wire' \in Seq(Events) /\ \A k \in DOMAIN wire' : wire'[k].id \in DOMAIN chrome
  <1>1. /\ chrome \in Seq(Downloads) /\ \A j \in DOMAIN chrome : chrome[j] \in Downloads
        /\ i \in DOMAIN chrome /\ i \in Ids
    BY DEF Ends, TypeInv
  <1>2. chrome' = [chrome EXCEPT ![i].ended = TRUE] BY DEF Ends
  <1>3. chrome' \in [DOMAIN chrome -> Downloads] /\ Keeps
    BY <1>1, <1>2 DEF Downloads, Keeps
  <1>4. wire' \in Seq(Events) /\ \A k \in DOMAIN wire' : wire'[k].id \in DOMAIN chrome
    <2> DEFINE e == [id |-> i, created |-> FALSE]
    <2>1. wire' = wire \/ wire' = Append(wire, e)
      BY DEF Ends, Announce
    <2>2. e \in Events /\ e.id \in DOMAIN chrome
      BY <1>1 DEF Events
    <2>3. wire \in Seq(Events) /\ \A k \in DOMAIN wire : wire[k].id \in DOMAIN chrome
      BY DEF TypeInv
    <2> HIDE DEF e
    <2>4. CASE wire' = wire
      BY <2>3, <2>4
    <2>5. CASE wire' = Append(wire, e)
      <3>1. /\ wire' \in Seq(Events)
            /\ \A k \in DOMAIN wire' : wire'[k] = e \/ (k \in DOMAIN wire /\ wire'[k] = wire[k])
        BY <2>2, <2>3, <2>5
      <3> QED BY <3>1, <2>2, <2>3
    <2> QED BY <2>1, <2>4, <2>5
  <1> QED BY <1>1, <1>3, <1>4, Relisted

LEMMA ReturnsList ==
    ASSUME TypeInv, NEW c \in Calls, Returns(c)
    PROVE  /\ chrome' \in Seq(Downloads) /\ DOMAIN chrome' = DOMAIN chrome
           /\ \A i \in DOMAIN chrome : /\ chrome'[i].referrer = chrome[i].referrer
                                       /\ chrome[i].by # c => chrome'[i].by = chrome[i].by
           /\ call' = [call EXCEPT ![c] = Idle] /\ call' \in [Calls -> States]
           /\ UNCHANGED <<wire, reported, connected>>
  <1>1. /\ chrome \in Seq(Downloads) /\ \A j \in DOMAIN chrome : chrome[j] \in Downloads
        /\ call \in [Calls -> States]
    BY DEF TypeInv
  <1>2. Idle \in States
    BY DownloadsAssumption DEF Idle, States
  <1>3. chrome' \in [DOMAIN chrome -> Downloads]
    BY <1>1 DEF Returns, Downloads
  <1>4. ASSUME NEW i \in DOMAIN chrome
        PROVE  /\ chrome'[i].referrer = chrome[i].referrer
               /\ chrome[i].by # c => chrome'[i].by = chrome[i].by
    BY <1>1, <1>4 DEF Returns, Downloads
  <1> QED BY <1>1, <1>2, <1>3, <1>4, Relisted DEF Returns

-----------------------------------------------------------------------------
(* What is behind WrongFileHasReason: the relay knows the referrers as they    *)
(* are, and an id that was chosen stays what it was when it was.              *)

ReportedTrue ==
    \A i \in DOMAIN reported :
        reported[i].timed => reported[i].referrer = chrome[i].referrer

Reason(c) ==
    LET i == call[c].item IN
    \/ chrome[i].by = c \/ call[c].blind
    \/ \E j \in DOMAIN chrome : /\ j > i /\ chrome[j].by = c
                               /\ chrome[j].referrer = chrome[i].referrer

Chosen(c) ==
    /\ call[c].at \in {"searching", "copying"} => call[c].item # 0
    /\ call[c].item # 0 => /\ call[c].item \in DOMAIN chrome \ call[c].stale
                           /\ Reason(c)

Inv == TypeInv /\ ReportedTrue /\ \A c \in Calls : Chosen(c)

\* A call whose choice is not touched by the step.
Same(c) ==
    /\ call'[c].item = call[c].item /\ call'[c].stale = call[c].stale
    /\ call'[c].blind = call[c].blind
    /\ call'[c].at \in {"searching", "copying"} => call[c].at \in {"searching", "copying"}

LEMMA SameChosen ==
    ASSUME TypeInv, Keeps, NEW c \in Calls, Chosen(c), Same(c) PROVE Chosen(c)'
  <1>1. call'[c].at \in {"searching", "copying"} => call'[c].item # 0
    BY DEF Chosen, Same
  <1>2. ASSUME call'[c].item # 0
        PROVE  call'[c].item \in DOMAIN chrome' \ call'[c].stale /\ Reason(c)'
    <2>1. /\ call[c].item \in DOMAIN chrome \ call[c].stale /\ Reason(c)
          /\ call'[c].item = call[c].item
      BY <1>2 DEF Chosen, Same
    <2> QED BY <2>1 DEF Same, Keeps, Reason
  <1> QED BY <1>1, <1>2 DEF Chosen

\* A call that returns has chosen nothing, and takes nobody else's reason away.
LEMMA ReturnsChosen ==
    ASSUME Inv, NEW c \in Calls, Returns(c) PROVE Inv'
  <1>1. /\ chrome' \in Seq(Downloads) /\ DOMAIN chrome' = DOMAIN chrome
        /\ \A i \in DOMAIN chrome : /\ chrome'[i].referrer = chrome[i].referrer
                                    /\ chrome[i].by # c => chrome'[i].by = chrome[i].by
        /\ call' = [call EXCEPT ![c] = Idle] /\ call' \in [Calls -> States]
        /\ UNCHANGED <<wire, reported, connected>>
    BY ReturnsList DEF Inv
  <1>2. TypeInv' BY <1>1 DEF Inv, TypeInv
  <1>3. ReportedTrue'
    BY <1>1 DEF Inv, ReportedTrue, TypeInv
  <1>4. ASSUME NEW d \in Calls PROVE Chosen(d)'
    <2>1. CASE d = c
      <3>1. call'[d] = Idle BY <1>1, <2>1 DEF Inv, TypeInv
      <3> QED BY <3>1 DEF Chosen, Idle
    <2>2. CASE d # c
      <3>1. call'[d] = call[d] BY <1>1, <2>2 DEF Inv, TypeInv
      <3>2. Chosen(d) BY DEF Inv
      <3>3. ASSUME call[d].item # 0
            PROVE  call[d].item \in DOMAIN chrome' \ call[d].stale /\ Reason(d)'
        <4>1. call[d].item \in DOMAIN chrome \ call[d].stale /\ Reason(d)
          BY <3>2, <3>3 DEF Chosen
        <4> QED BY <4>1, <3>1, <1>1, <2>2 DEF Reason
      <3> QED BY <3>1, <3>2, <3>3 DEF Chosen
    <2> QED BY <2>1, <2>2
  <1> QED BY <1>2, <1>3, <1>4 DEF Inv

\* Steps that leave every choice alone.
LEMMA KeepsInv ==
    ASSUME Inv, TypeInv', Keeps, UNCHANGED reported, \A c \in Calls : Same(c) PROVE Inv'
  <1>1. ReportedTrue'
    BY DEF Inv, ReportedTrue, Keeps, TypeInv
  <1>2. \A c \in Calls : Chosen(c)'
    BY SameChosen DEF Inv
  <1> QED BY <1>1, <1>2 DEF Inv

\* The environment and the wire.
LEMMA ChromeInv ==
    ASSUME Inv, OtherDownloads \/ Disconnect \/ \E i \in Ids : Ages(i) \/ Ends(i) PROVE Inv'
  <1>1. ASSUME UNCHANGED call PROVE \A c \in Calls : Same(c)
    BY <1>1 DEF Same
  <1>2. ASSUME OtherDownloads PROVE TypeInv' /\ Keeps /\ UNCHANGED <<reported, call>>
    <2>1. PICK pg \in Pages \cup {NoPage} : StartsBy(Other, pg)
      BY <1>2 DEF OtherDownloads
    <2>2. /\ chrome' \in Seq(Downloads) /\ DOMAIN chrome' \subseteq Ids
          /\ wire' \in Seq(Events) /\ \A k \in DOMAIN wire' : wire'[k].id \in DOMAIN chrome'
          /\ Keeps /\ UNCHANGED <<reported, connected, call>>
      BY <1>2, <2>1, StartsList DEF Inv, OtherDownloads
    <2> QED BY <2>2 DEF Inv, TypeInv, Keeps
  <1>3. ASSUME Disconnect PROVE TypeInv' /\ Keeps /\ UNCHANGED <<reported, call>>
    <2>1. wire' = <<>> /\ connected' = FALSE /\ UNCHANGED <<chrome, reported, call>>
      BY <1>3 DEF Disconnect
    <2>2. wire' \in Seq(Events) /\ DOMAIN wire' = {}
      BY <2>1
    <2>3. Keeps BY <2>1 DEF Keeps
    <2>4. TypeInv' BY <2>1, <2>2 DEF Inv, TypeInv
    <2> QED BY <2>1, <2>3, <2>4
  <1>4. ASSUME NEW i \in Ids, Ages(i) PROVE TypeInv' /\ Keeps /\ UNCHANGED <<reported, call>>
    <2>1. UNCHANGED <<wire, reported, connected, call>>
      BY <1>4 DEF Ages
    <2> QED BY <1>4, <2>1, AgesList DEF Inv, TypeInv
  <1>5. ASSUME NEW i \in Ids, Ends(i) PROVE TypeInv' /\ Keeps /\ UNCHANGED <<reported, call>>
    <2>1. UNCHANGED <<reported, connected, call>>
      BY <1>5 DEF Ends
    <2> QED BY <1>5, <2>1, EndsList DEF Inv, TypeInv
  <1> QED BY <1>1, <1>2, <1>3, <1>4, <1>5, KeepsInv

\* The relay hears of a download: when it is the download's start it learns the
\* referrer, and from then on keeps it.
LEMMA RelayInv == ASSUME Inv, RelayReceives PROVE Inv'
  <1> DEFINE event == Head(wire)
             entry == IF event.id \in DOMAIN reported THEN reported[event.id] ELSE Unseen
  <1>1. /\ wire \in Seq(Events) /\ wire # <<>> /\ \A k \in DOMAIN wire : wire[k].id \in DOMAIN chrome
        /\ DOMAIN reported \subseteq DOMAIN chrome
        /\ \A i \in DOMAIN reported : reported[i] \in Entries
        /\ \A i \in DOMAIN chrome : chrome[i] \in Downloads
    BY DEF Inv, TypeInv, RelayReceives
  <1>2. event \in Events /\ event.id \in DOMAIN chrome
    BY <1>1
  <1>3. /\ wire' \in Seq(Events) /\ \A k \in DOMAIN wire' : wire'[k].id \in DOMAIN chrome
    <2>1. wire' = Tail(wire) BY DEF RelayReceives
    <2>2. wire' \in Seq(Events) /\ \A k \in DOMAIN wire' : k + 1 \in DOMAIN wire /\ wire'[k] = wire[k + 1]
      BY <1>1, <2>1
    <2> QED BY <1>1, <2>2
  <1>4. /\ reported' = [i \in DOMAIN reported \cup {event.id} |->
                           IF i = event.id THEN Merged(entry, event) ELSE reported[i]]
        /\ UNCHANGED <<chrome, connected, call>>
    BY DEF RelayReceives
  <1>5. entry \in Entries
    BY <1>1 DEF Unseen, Entries
  <1>6. entry.timed => entry.referrer = chrome[event.id].referrer
    BY DEF Inv, ReportedTrue, Unseen
  <1> HIDE DEF event, entry
  <1>7. /\ Merged(entry, event) \in Entries
        /\ Merged(entry, event).timed
             => Merged(entry, event).referrer = chrome[event.id].referrer
    <2>1. CASE event.created
      BY <2>1, <1>1, <1>2 DEF Merged, Entries, Downloads
    <2>2. CASE ~event.created
      BY <2>2, <1>5, <1>6 DEF Merged
    <2> QED BY <2>1, <2>2
  <1>8. /\ DOMAIN reported' = DOMAIN reported \cup {event.id}
        /\ reported'[event.id] = Merged(entry, event)
        /\ \A i \in DOMAIN reported \ {event.id} : reported'[i] = reported[i]
    BY <1>4
  <1>9. TypeInv'
    BY <1>1, <1>2, <1>3, <1>4, <1>7, <1>8 DEF Inv, TypeInv
  <1>10. ReportedTrue'
    BY <1>4, <1>7, <1>8 DEF Inv, ReportedTrue
  <1>11. \A c \in Calls : Chosen(c)'
    <2>1. Keeps /\ \A c \in Calls : Same(c)
      BY <1>4 DEF Keeps, Same
    <2> QED BY <2>1, SameChosen DEF Inv
  <1> QED BY <1>9, <1>10, <1>11 DEF Inv

\* What a call decides: an id, if any, out of the fresh ones, and its page's first.
LEMMA OwnIsFresh ==
    ASSUME Inv, NEW c \in Calls, OwnDownloadId(c) # 0
    PROVE  /\ OwnDownloadId(c) \in Fresh(c)
           /\ FromPage(c, Fresh(c)) # {}
                => /\ OwnDownloadId(c) \in FromPage(c, Fresh(c))
                   /\ \A i \in FromPage(c, Fresh(c)) : OwnDownloadId(c) <= i
  <1> DEFINE ours == FromPage(c, Fresh(c))
             ids == IF ours # {} THEN ours ELSE Fresh(c)
  <1>1. Fresh(c) \subseteq Nat /\ ours \subseteq Fresh(c)
    BY DownloadsAssumption DEF Fresh, FromPage, Inv, TypeInv, Ids
  <1>2. Fresh(c) # {} /\ OwnDownloadId(c) = Min(ids)
    BY DEF OwnDownloadId
  <1>3. ids \subseteq Nat /\ ids # {}
    BY <1>1, <1>2
  <1> HIDE DEF ids
  <1>4. Min(ids) \in ids /\ \A i \in ids : Min(ids) <= i
    BY <1>3, MinOfIds
  <1> QED BY <1>1, <1>2, <1>4 DEF ids

\* The choice has a reason: unless the call is blind, one of the page's fresh ids is
\* its own, and the lowest of them is no later.
LEMMA ChoiceHasReason ==
    ASSUME Inv, NEW c \in Calls, OwnDownloadId(c) # 0
    PROVE  LET i == OwnDownloadId(c) IN
           /\ i \in DOMAIN chrome \ call[c].stale
           /\ \/ chrome[i].by = c \/ Blind(c)
              \/ \E j \in DOMAIN chrome : /\ j > i /\ chrome[j].by = c
                                         /\ chrome[j].referrer = chrome[i].referrer
  <1> DEFINE i == OwnDownloadId(c)
             ours == FromPage(c, Fresh(c))
  <1>1. /\ i \in Fresh(c)
        /\ ours # {} => i \in ours /\ \A k \in ours : i <= k
    BY OwnIsFresh
  <1> HIDE DEF i
  <1>2. \A k \in Fresh(c) : /\ k \in DOMAIN chrome \ call[c].stale /\ k \in Nat
                            /\ reported[k].referrer = chrome[k].referrer
    BY DownloadsAssumption DEF Fresh, Inv, TypeInv, ReportedTrue, Ids
  <1>3. ASSUME ~Blind(c)
        PROVE  \/ chrome[i].by = c
               \/ \E j \in DOMAIN chrome : /\ j > i /\ chrome[j].by = c
                                          /\ chrome[j].referrer = chrome[i].referrer
    <2>1. PICK j \in ours : chrome[j].by = c
      BY <1>3 DEF Blind
    <2>2. i \in ours /\ i <= j /\ j \in Fresh(c) /\ i \in Fresh(c)
      BY <1>1, <2>1 DEF FromPage
    <2>3. chrome[j].referrer = call[c].url /\ chrome[i].referrer = call[c].url
      BY <1>2, <2>1, <2>2 DEF FromPage
    <2>4. j = i \/ j > i
      BY <1>2, <2>2
    <2> QED BY <1>2, <2>1, <2>2, <2>3, <2>4
  <1> QED BY <1>1, <1>2, <1>3 DEF i

LEMMA PollInv == ASSUME Inv, NEW c \in Calls, Poll(c) PROVE Inv'
  <1> DEFINE known == call[c].item # 0
             item == IF known THEN call[c].item ELSE OwnDownloadId(c)
  <1>1. CASE Returns(c)
    BY <1>1, ReturnsChosen
  <1>2. CASE /\ item # 0
             /\ call' = [call EXCEPT ![c].at = "searching", ![c].item = item,
                                     ![c].blind = IF known THEN @ ELSE Blind(c)]
             /\ UNCHANGED <<chrome, wire, reported, connected>>
    <2>1. call \in [Calls -> States] /\ Chosen(c)
      BY DEF Inv, TypeInv
    <2>2. /\ item \in DOMAIN chrome \ call[c].stale
          /\ \/ chrome[item].by = c \/ (IF known THEN call[c].blind ELSE Blind(c))
             \/ \E j \in DOMAIN chrome : /\ j > item /\ chrome[j].by = c
                                        /\ chrome[j].referrer = chrome[item].referrer
      BY <1>2, <2>1, ChoiceHasReason DEF Chosen, Reason
    <2>3. item \in 0..MaxDownloads /\ Blind(c) \in BOOLEAN
      BY <2>2, DownloadsAssumption DEF Inv, TypeInv, Ids, Blind
    <2> DEFINE sight == IF known THEN call[c].blind ELSE Blind(c)
               next == [call[c] EXCEPT !.at = "searching", !.item = item, !.blind = sight]
    <2>a. call[c] \in States /\ sight \in BOOLEAN
      BY <2>1, <2>3 DEF States
    <2>b. call' = [call EXCEPT ![c] = next]
      BY <1>2, <2>1
    <2> HIDE DEF item, known, sight
    <2>c. next \in States
      BY <2>a, <2>3 DEF States
    <2>4. call' \in [Calls -> States]
      BY <2>b, <2>c, <2>1
    <2>5. /\ call'[c].at = "searching" /\ call'[c].item = item /\ call'[c].stale = call[c].stale
          /\ call'[c].blind = IF known THEN call[c].blind ELSE Blind(c)
          /\ \A d \in Calls \ {c} : call'[d] = call[d]
      BY <1>2, <2>1 DEF States
    <2>6. TypeInv' BY <1>2, <2>4 DEF Inv, TypeInv
    <2>7. ReportedTrue' BY <1>2 DEF Inv, ReportedTrue
    <2>8. Chosen(c)' BY <1>2, <2>2, <2>5 DEF Chosen, Reason
    <2>9. ASSUME NEW d \in Calls \ {c} PROVE Chosen(d)'
      <3>1. Keeps /\ Same(d) BY <1>2, <2>5 DEF Keeps, Same
      <3> QED BY <3>1, SameChosen DEF Inv
    <2> QED BY <2>6, <2>7, <2>8, <2>9 DEF Inv
  <1> QED BY <1>1, <1>2 DEF Poll

\* The other steps change no choice, or begin or end a call.
LEMMA UpdateInv ==
    ASSUME Inv, NEW c \in Calls, NEW next \in States, call' = [call EXCEPT ![c] = next],
           next.item = call[c].item, next.stale = call[c].stale, next.blind = call[c].blind,
           next.at \in {"searching", "copying"} => call[c].at \in {"searching", "copying"},
           UNCHANGED <<chrome, wire, reported, connected>>
    PROVE  Inv'
  <1>1. call \in [Calls -> States] BY DEF Inv, TypeInv
  <1>2. TypeInv' BY <1>1 DEF Inv, TypeInv
  <1>3. Keeps /\ \A d \in Calls : Same(d)
    BY <1>1 DEF Keeps, Same
  <1> QED BY <1>2, <1>3, KeepsInv

LEMMA BeginInv == ASSUME Inv, NEW c \in Calls, Begin(c) PROVE Inv'
  <1>1. PICK page \in Pages :
           call' = [call EXCEPT ![c] = [Idle EXCEPT !.at = "clicking", !.url = page, !.from = page,
                                                  !.known = DOMAIN reported,
                                                  !.stale = {i \in DOMAIN chrome : chrome[i].old}]]
    BY DEF Begin
  <1> DEFINE next == [Idle EXCEPT !.at = "clicking", !.url = page, !.from = page,
                                  !.known = DOMAIN reported,
                                  !.stale = {i \in DOMAIN chrome : chrome[i].old}]
  <1>2. call \in [Calls -> States] /\ DOMAIN reported \subseteq Ids /\ DOMAIN chrome \subseteq Ids
    BY DEF Inv, TypeInv
  <1>3. next \in States /\ next.item = 0 /\ next.at = "clicking"
    <2> DEFINE old == {i \in DOMAIN chrome : chrome[i].old}
    <2>1. Idle \in States /\ Idle.item = 0
      BY DownloadsAssumption DEF Idle, States
    <2>2. old \in SUBSET Ids /\ DOMAIN reported \in SUBSET Ids
      BY <1>2
    <2> HIDE DEF old
    <2>3. next = [Idle EXCEPT !.at = "clicking", !.url = page, !.from = page,
                              !.known = DOMAIN reported, !.stale = old]
      BY DEF old
    <2> HIDE DEF next
    <2> QED BY <2>1, <2>2, <2>3 DEF States
  <1> HIDE DEF next
  <1>4. UNCHANGED <<chrome, wire, reported, connected>> BY DEF Begin
  <1>5. /\ call' \in [Calls -> States] /\ call'[c] = next
        /\ \A d \in Calls \ {c} : call'[d] = call[d]
    BY <1>1, <1>2, <1>3 DEF next
  <1>6. TypeInv' BY <1>4, <1>5 DEF Inv, TypeInv
  <1>7. ReportedTrue' BY <1>4 DEF Inv, ReportedTrue
  <1>8. Chosen(c)' BY <1>3, <1>5 DEF Chosen
  <1>9. ASSUME NEW d \in Calls \ {c} PROVE Chosen(d)'
    <2>1. Keeps /\ Same(d) BY <1>4, <1>5 DEF Keeps, Same
    <2> QED BY <2>1, SameChosen DEF Inv
  <1> QED BY <1>6, <1>7, <1>8, <1>9 DEF Inv

LEMMA ClickDownloadsInv == ASSUME Inv, NEW c \in Calls, ClickDownloads(c) PROVE Inv'
  <1>1. call \in [Calls -> States] /\ call[c].owed \in 0..MaxPerClick /\ call[c].owed > 0
        /\ call[c].from \in Pages \cup {NoPage}
    BY DEF Inv, TypeInv, States, ClickDownloads
  <1>2. PICK page \in {call[c].from, NoPage} : StartsBy(c, page)
    BY DEF ClickDownloads
  <1>3. /\ chrome' \in Seq(Downloads) /\ DOMAIN chrome' \subseteq Ids
        /\ wire' \in Seq(Events) /\ \A k \in DOMAIN wire' : wire'[k].id \in DOMAIN chrome'
        /\ Keeps
        /\ UNCHANGED <<reported, connected>>
    BY <1>1, <1>2, StartsList DEF Inv
  <1> DEFINE next == [call[c] EXCEPT !.owed = @ - 1]
  <1>4. call' = [call EXCEPT ![c] = next]
    BY DEF ClickDownloads
  <1>5. /\ next \in States /\ next.item = call[c].item /\ next.stale = call[c].stale
        /\ next.blind = call[c].blind /\ next.at = call[c].at
    BY <1>1, DownloadsAssumption DEF States
  <1> HIDE DEF next
  <1>6. call' \in [Calls -> States] /\ \A d \in Calls : Same(d)
    BY <1>1, <1>4, <1>5 DEF Same
  <1>7. TypeInv'
    BY <1>3, <1>6 DEF Inv, TypeInv, Keeps
  <1> QED BY <1>3, <1>6, <1>7, KeepsInv

LEMMA CallInv ==
    ASSUME Inv, NEW c \in Calls, CallStep(c) \/ ClickDownloads(c) \/ PageNavigates(c) PROVE Inv'
  <1>0. call \in [Calls -> States] /\ call[c] \in States
    BY DEF Inv, TypeInv
  <1>1. CASE Clicked(c)
    <2>1. ASSUME NEW n \in 0..MaxPerClick, call[c].at = "clicking",
                 call' = [call EXCEPT ![c].at = "polling", ![c].owed = n],
                 UNCHANGED <<chrome, wire, reported, connected>>
          PROVE  Inv'
      <3> DEFINE next == [call[c] EXCEPT !.at = "polling", !.owed = n]
      <3>1. call' = [call EXCEPT ![c] = next]
        BY <2>1
      <3>2. /\ next \in States /\ next.item = call[c].item /\ next.stale = call[c].stale
            /\ next.blind = call[c].blind /\ next.at = "polling"
        BY <1>0, <2>1 DEF States
      <3> HIDE DEF next
      <3> QED BY <2>1, <3>1, <3>2, UpdateInv
    <2> QED BY <1>1, <2>1, ReturnsChosen DEF Clicked
  <1>2. CASE PageNavigates(c)
    <2>0. PICK page \in Pages \ {call[c].url} :
            \E f \in {call[c].from} \cup (IF call[c].at = "clicking" THEN {page} ELSE {}) :
              call' = [call EXCEPT ![c].url = page, ![c].from = f]
      BY <1>2 DEF PageNavigates
    <2>1. PICK from \in {call[c].from} \cup {page} :
            call' = [call EXCEPT ![c].url = page, ![c].from = from]
      BY <2>0
    <2> DEFINE next == [call[c] EXCEPT !.url = page, !.from = from]
    <2>2. call' = [call EXCEPT ![c] = next]
      BY <2>1
    <2>3. /\ next \in States /\ next.item = call[c].item /\ next.stale = call[c].stale
          /\ next.blind = call[c].blind /\ next.at = call[c].at
      BY <1>0, <2>1 DEF States
    <2> HIDE DEF next
    <2> QED BY <1>2, <2>2, <2>3, UpdateInv DEF PageNavigates
  <1>3. CASE Expires(c)
    <2> DEFINE next == [call[c] EXCEPT !.expired = TRUE]
    <2>1. call' = [call EXCEPT ![c] = next]
      BY <1>3 DEF Expires
    <2>2. /\ next \in States /\ next.item = call[c].item /\ next.stale = call[c].stale
          /\ next.blind = call[c].blind /\ next.at = call[c].at
      BY <1>0 DEF States
    <2> HIDE DEF next
    <2> QED BY <1>3, <2>1, <2>2, UpdateInv DEF Expires
  <1>4. CASE Searched(c)
    <2>1. ASSUME NEW p \in {"copying", "polling"}, call[c].at = "searching",
                 call' = [call EXCEPT ![c].at = p],
                 UNCHANGED <<chrome, wire, reported, connected>>
          PROVE  Inv'
      <3> DEFINE next == [call[c] EXCEPT !.at = p]
      <3>1. call' = [call EXCEPT ![c] = next]
        BY <2>1
      <3>2. /\ next \in States /\ next.item = call[c].item /\ next.stale = call[c].stale
            /\ next.blind = call[c].blind
        BY <1>0, <2>1 DEF States
      <3> HIDE DEF next
      <3> QED BY <2>1, <3>1, <3>2, UpdateInv
    <2> QED BY <1>4, <2>1, ReturnsChosen DEF Searched
  <1>5. CASE SearchFails(c) \/ Copied(c)
    BY <1>5, ReturnsChosen DEF SearchFails, Copied
  <1> QED BY <1>1, <1>2, <1>3, <1>4, <1>5, BeginInv, PollInv, ClickDownloadsInv DEF CallStep

LEMMA InvCorrect == Spec => []Inv
  <1>1. Init => Inv
    <2> SUFFICES ASSUME Init PROVE Inv
      OBVIOUS
    <2>1. ReportedTrue BY DEF Init, ReportedTrue
    <2>2. \A c \in Calls : Chosen(c) BY DEF Init, Idle, Chosen
    <2> QED BY <2>1, <2>2, InitType DEF Inv
  <1>2. Inv /\ [Next]_vars => Inv'
    <2> SUFFICES ASSUME Inv, [Next]_vars PROVE Inv'
      OBVIOUS
    <2>1. CASE UNCHANGED vars
      BY <2>1 DEF vars, Inv, TypeInv, ReportedTrue, Chosen, Reason
    <2> QED BY <2>1, CallInv, ChromeInv, RelayInv DEF Next
  <1> QED BY <1>1, <1>2, PTL DEF Spec

\* Type correctness; above all, what an event of the relay leaves of an announcement.
THEOREM TypeCorrect == Spec => []TypeOK
  <1>1. Inv => TypeOK BY TypesOK DEF Inv
  <1> QED BY <1>1, InvCorrect, PTL

\* A call that hands over a file its click has not started had to choose while none
\* of its own had been announced as the page's, or the other one is of the same page
\* and earlier; and no file is older than the click.
THEOREM WrongFilesHaveReason == Spec => []WrongFileHasReason
  <1>1. Inv => WrongFileHasReason
    <2> SUFFICES ASSUME Inv, NEW c \in Calls, call[c].at = "copying"
                 PROVE  /\ call[c].item \notin call[c].stale
                        /\ Reason(c)
      BY DEF WrongFileHasReason, Reason
    <2> QED BY DEF Inv, Chosen
  <1> QED BY <1>1, InvCorrect, PTL
=============================================================================
