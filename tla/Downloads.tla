------------------------------ MODULE Downloads ------------------------------
(***************************************************************************)
(* Downloads in extension mode: chrome.debugger has no download control,   *)
(* so a click saves the file where the person's browser saves files, and   *)
(* the driver (_download_via_extension of src/src/browser_driver.py) picks *)
(* it out of what chrome.downloads has announced to the relay              *)
(* (src/src/cdp_relay.py) over the extension's socket.                     *)
(*                                                                         *)
(* The list of downloads is the browser's: person and pages download as    *)
(* well, and so do other calls.  Time is kept as what the code compares:   *)
(* whether a download is more than a second old.                           *)
(***************************************************************************)
EXTENDS Integers, Sequences, FiniteSetsExt, Functions

CONSTANTS
    Calls,          \* tasks that call download
    Pages,          \* addresses
    NoPage,         \* no referrer
    Other,          \* who starts every other download
    MaxDownloads,   \* bound on the ids Chrome gives
    MaxPerClick     \* bound on the downloads one click starts

ASSUME DownloadsAssumption ==
    /\ Other \notin Calls /\ NoPage \notin Pages
    /\ MaxDownloads \in Nat \ {0} /\ MaxPerClick \in Nat

VARIABLES
    chrome,      \* Chrome's downloads, by id
    wire,        \* events of the extension on their way to the relay
    reported,    \* ExtensionBridge.downloads: id -> what is known of it
    connected,   \* the extension is there
    call         \* [Calls -> the call in progress]

vars == <<chrome, wire, reported, connected, call>>

Ids == 1..MaxDownloads
Begun(who, page) == [by |-> who, referrer |-> page, old |-> FALSE, ended |-> FALSE]

\* An entry of ExtensionBridge.downloads; without startTime it counts as older than
\* any click.
Unseen == [timed |-> FALSE, referrer |-> NoPage]

\* Locals of a call: the address of its tab, the address it had when the click reached
\* it, how many downloads the click has still to start, the ids announced before the
\* click, the ids too old for it, the id it waits for, whether the deadline has passed.
\* History: blind, it chose its id while none of its own was announced as the page's.
Idle == [at |-> "idle", url |-> NoPage, from |-> NoPage, owed |-> 0, known |-> {}, stale |-> {}, item |-> 0,
         expired |-> FALSE, blind |-> FALSE]

-----------------------------------------------------------------------------
(* Chrome and the extension *)

Announce(i, created) ==
    wire' = IF connected THEN Append(wire, [id |-> i, created |-> created]) ELSE wire

\* Chrome starts a download, with the next id.
StartsBy(who, page) ==
    /\ Len(chrome) < MaxDownloads
    /\ chrome' = Append(chrome, Begun(who, page))
    /\ Announce(Len(chrome) + 1, TRUE)
    /\ UNCHANGED <<reported, connected>>

OtherDownloads ==
    /\ \E page \in Pages \cup {NoPage} : StartsBy(Other, page)
    /\ UNCHANGED call

\* The server of the clicked link answers with a file, long after the click perhaps: the
\* referrer is the page that was clicked on; pages may hide it.
ClickDownloads(c) ==
    /\ call[c].owed > 0
    /\ \E page \in {call[c].from, NoPage} : StartsBy(c, page)
    /\ call' = [call EXCEPT ![c].owed = @ - 1]

\* More than a second passes, for all that started up to this one.
Ages(i) ==
    /\ i \in DOMAIN chrome /\ ~chrome[i].old
    /\ chrome' = [j \in DOMAIN chrome |-> [chrome[j] EXCEPT !.old = @ \/ j <= i]]
    /\ UNCHANGED <<wire, reported, connected, call>>

\* It is complete or was interrupted.
Ends(i) ==
    /\ i \in DOMAIN chrome /\ ~chrome[i].ended
    /\ chrome' = [chrome EXCEPT ![i].ended = TRUE]
    /\ Announce(i, FALSE)
    /\ UNCHANGED <<reported, connected, call>>

-----------------------------------------------------------------------------
(* The relay *)

\* onCreated has the whole item, onChanged what changed.
Merged(entry, event) ==
    IF event.created THEN [timed |-> TRUE, referrer |-> chrome[event.id].referrer] ELSE entry

\* _on_download_event.
RelayReceives ==
    /\ wire # <<>>
    /\ LET event == Head(wire)
           entry == IF event.id \in DOMAIN reported THEN reported[event.id] ELSE Unseen
       IN  reported' = [i \in DOMAIN reported \cup {event.id} |->
                            IF i = event.id THEN Merged(entry, event) ELSE reported[i]]
    /\ wire' = Tail(wire)
    /\ UNCHANGED <<chrome, connected, call>>

\* What is left of a call that returns is anybody's.
Returns(c) ==
    /\ call' = [call EXCEPT ![c] = Idle]
    /\ chrome' = [i \in DOMAIN chrome |-> IF chrome[i].by = c THEN [chrome[i] EXCEPT !.by = Other]
                                          ELSE chrome[i]]
    /\ UNCHANGED <<wire, reported, connected>>

\* The extension goes.
Disconnect ==
    /\ connected /\ connected' = FALSE
    /\ wire' = <<>>
    /\ UNCHANGED <<chrome, reported, call>>

-----------------------------------------------------------------------------
(* The driver *)

\* _download_via_extension up to the click.
Begin(c) ==
    /\ call[c] = Idle /\ connected
    /\ \E page \in Pages :
         call' = [call EXCEPT ![c] = [Idle EXCEPT !.at = "clicking", !.url = page, !.from = page,
                                                  !.known = DOMAIN reported,
                                                  !.stale = {i \in DOMAIN chrome : chrome[i].old}]]
    /\ UNCHANGED <<chrome, wire, reported, connected>>

\* The click has reached the page, or it has failed.
Clicked(c) ==
    /\ call[c].at = "clicking"
    /\ \/ Returns(c)
       \/ /\ \E n \in 0..MaxPerClick :
               call' = [call EXCEPT ![c].at = "polling", ![c].owed = n]
          /\ UNCHANGED <<chrome, wire, reported, connected>>

\* The page the call clicks on goes to another address, before or after the click.
PageNavigates(c) ==
    /\ call[c].at \in {"clicking", "polling"} /\ call[c].item = 0
    /\ \E page \in Pages \ {call[c].url} :
       \E from \in {call[c].from} \cup (IF call[c].at = "clicking" THEN {page} ELSE {}) :
         call' = [call EXCEPT ![c].url = page, ![c].from = from]
    /\ UNCHANGED <<chrome, wire, reported, connected>>

Expires(c) ==
    /\ call[c].at \in {"polling", "searching"} /\ ~call[c].expired
    /\ call' = [call EXCEPT ![c].expired = TRUE]
    /\ UNCHANGED <<chrome, wire, reported, connected>>

Fresh(c) == {i \in DOMAIN reported \ call[c].known : reported[i].timed /\ i \notin call[c].stale}
FromPage(c, ids) == {i \in ids : reported[i].referrer = call[c].url}

\* Mutant: the page does not matter.
FirstDownloadId(c) == IF Fresh(c) = {} THEN 0 ELSE Min(Fresh(c))

\* _own_download_id; 0 for none.
OwnDownloadId(c) ==
    LET fresh == Fresh(c)
        ours == FromPage(c, fresh)
    IN  IF fresh = {} THEN 0 ELSE Min(IF ours # {} THEN ours ELSE fresh)

Blind(c) == \A i \in FromPage(c, Fresh(c)) : chrome[i].by # c

\* A turn of _await_browser_download's loop: the deadline, the id, the question.
Poll(c) ==
    /\ call[c].at = "polling"
    /\ LET known == call[c].item # 0
           item == IF known THEN call[c].item ELSE OwnDownloadId(c)
       IN  \/ (call[c].expired \/ (item # 0 /\ ~connected)) /\ Returns(c)
           \/ /\ ~call[c].expired /\ item # 0 /\ connected
              /\ call' = [call EXCEPT ![c].at = "searching", ![c].item = item,
                                      ![c].blind = IF known THEN @ ELSE Blind(c)]
              /\ UNCHANGED <<chrome, wire, reported, connected>>

\* chrome.downloads.search answers: complete, interrupted, or in progress still or
\* taken off the list.
Searched(c) ==
    /\ call[c].at = "searching" /\ connected
    /\ \/ chrome[call[c].item].ended /\ Returns(c)
       \/ /\ \/ /\ chrome[call[c].item].ended
                /\ call' = [call EXCEPT ![c].at = "copying"]
             \/ call' = [call EXCEPT ![c].at = "polling"]
          /\ UNCHANGED <<chrome, wire, reported, connected>>

\* Mutant: without a bound, as CDP commands are asked.
FailsOnDisconnect(c) == call[c].at = "searching" /\ ~connected /\ Returns(c)

\* _call_extension fails: the extension has gone, or the bound is reached.
SearchFails(c) == call[c].at = "searching" /\ Returns(c)

\* The file is copied into the data volume, or it is not there.
Copied(c) == call[c].at = "copying" /\ Returns(c)

-----------------------------------------------------------------------------
\* A download may be older than the connection.
Init ==
    /\ chrome \in {<<>>, <<[Begun(Other, NoPage) EXCEPT !.old = TRUE]>>}
    /\ wire = <<>> /\ connected = TRUE
    /\ reported = [i \in {} |-> Unseen]
    /\ call = [c \in Calls |-> Idle]

CallStep(c) ==
    \/ Begin(c) \/ Clicked(c) \/ Expires(c) \/ Poll(c) \/ Searched(c) \/ SearchFails(c)
    \/ Copied(c)

Next ==
    \/ \E c \in Calls : CallStep(c) \/ ClickDownloads(c) \/ PageNavigates(c)
    \/ OtherDownloads \/ RelayReceives \/ Disconnect
    \/ \E i \in Ids : Ages(i) \/ Ends(i)

Spec == Init /\ [][Next]_vars

\* Playwright bounds the click, time passes, the loop turns, a copy comes to an end.
\* Extension and Chrome owe nothing.
Fairness ==
    \A c \in Calls :
        /\ WF_vars(Clicked(c)) /\ WF_vars(Expires(c)) /\ WF_vars(Poll(c))
        /\ WF_vars(SearchFails(c)) /\ WF_vars(Copied(c))

FairSpec == Spec /\ Fairness

-----------------------------------------------------------------------------
(* Properties *)

TypeOK ==
    /\ chrome \in Seq([by : Calls \cup {Other}, referrer : Pages \cup {NoPage},
                       old : BOOLEAN, ended : BOOLEAN])
    /\ wire \in Seq([id : Ids, created : BOOLEAN])
    /\ DOMAIN reported \subseteq DOMAIN chrome /\ DOMAIN chrome \subseteq Ids
    /\ Range(reported) \subseteq [timed : BOOLEAN, referrer : Pages \cup {NoPage}]
    /\ connected \in BOOLEAN
    /\ call \in [Calls -> [at : {"idle", "clicking", "polling", "searching", "copying"},
                           url : Pages \cup {NoPage}, from : Pages \cup {NoPage},
                           owed : 0..MaxPerClick, known : SUBSET Ids, stale : SUBSET Ids,
                           item : 0..MaxDownloads, expired : BOOLEAN, blind : BOOLEAN]]

\* "Identified by the id chrome.downloads.onCreated announced after the click": a file
\* that is handed over was not there a second before the call, even if it changed
\* afterwards; and if the click has not started it, then nothing of the click had
\* been announced as the page's, or somebody else downloads from that page too and
\* was first.
WrongFileHasReason ==
    \A c \in Calls : call[c].at = "copying" =>
        LET i == call[c].item IN
        /\ i \notin call[c].stale
        /\ \/ chrome[i].by = c \/ call[c].blind
           \/ \E j \in DOMAIN chrome : /\ j > i /\ chrome[j].by = c
                                       /\ chrome[j].referrer = chrome[i].referrer

\* "the caller's own deadline cannot fire while it is awaiting a future that will
\* never resolve": a call for a download comes back whatever the browser does.
DownloadsReturn == \A c \in Calls : call[c].at # "idle" ~> call[c].at = "idle"
=============================================================================
