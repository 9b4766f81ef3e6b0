------------------------------- MODULE Bridge -------------------------------
(***************************************************************************)
(* The CDP relay and the bridge extension on the two ends of their link,   *)
(* with the person, the CDP client and Chrome around them.                 *)
(***************************************************************************)
EXTENDS CdpRelay, BridgeExtension

CONSTANT MaxTurns    \* bound on what person and client do and Chrome fails at
VARIABLE turns
vars == <<linkVars, relayVars, extVars, turns>>

Init == down = <<>> /\ RelayInit /\ ExtInit /\ turns = 0

Turn == turns < MaxTurns /\ turns' = turns + 1

Next ==
    \/ RelayStep /\ UNCHANGED <<extVars, turns>>
    \/ ClientCommand /\ Turn /\ UNCHANGED extVars
    \/ ExtStep /\ UNCHANGED <<relayVars, turns>>
    \/ Incident /\ Turn /\ UNCHANGED relayVars

Spec == Init /\ [][Next]_vars

\* The relay's event loop runs, the extension reads its messages, and timers fire.
\* Client, person and Chrome owe nothing: "the tab that never answered
\* Page.getFrameTree, the attach Chrome never acknowledged" (unanswered).
Fairness ==
    /\ WF_vars((RelayReceives \/ RunTask) /\ UNCHANGED <<extVars, turns>>)
    /\ WF_vars(ExtReceives /\ UNCHANGED <<relayVars, turns>>)
    /\ \A t \in Tabs : WF_vars(Timer(t) /\ UNCHANGED <<relayVars, turns>>)
FairSpec == Spec /\ Fairness

-----------------------------------------------------------------------------
\* Every variable has its type, and no detach is announced more often than its attach.
TypeOK == LinkTypeOK /\ RelayTypeOK /\ ExtTypeOK

Quiet == up = <<>> /\ down = <<>> /\ running = {} /\ \A k \in Tasks : ~Busy(k)

\* Whatever detached, came back, was dragged or closed meanwhile: when nothing is on
\* its way, each tab with a debugger of ours is one that the client can drive.
AttachedIsTold == Quiet /\ alive /\ auto /\ client = "here" => attached \subseteq session

\* A task of the relay that waits has its call on the way to the extension, in Chrome's
\* hands or answered, or the link's end is on its way to it: nothing that takes a call
\* away, be it a tab, a debugger or a link that goes, forgets to answer it.
NoCallForgotten ==
    \A k \in Waiting :
        /\ ~closed
        /\ \/ \E c \in running \cup ToSet(down) : c.task = k
           \/ \E m \in ToSet(up) : m.kind = "bye" \/ (m.kind = "answer" /\ m.task = k)

\* Whichever side ended first, the end of the other has happened or is on its way.
EndIsUnderWay ==
    /\ ~alive => closed \/ \E m \in ToSet(up) : m.kind = "bye"
    /\ client = "gone" /\ alive => \E c \in ToSet(down) : c.kind = "bye"
    /\ closed => ~alive /\ client # "here"

\* A connection that had a tab stays for another one, or for a tab that may come back.
StaysForATab == alive /\ ever => attached # {} \/ pend # NoPend

\* A connection that had a tab ends with its last one, in spite of the attempts to
\* get it back (_checkLastTabDetached).
ConnectionEnds == <>[](ever /\ attached = {} => ~alive)

\* The relay puts no bound on a command of its client, so a task may wait for Chrome,
\* and it waits for nothing else: its call reaches Chrome, an answer reaches its task,
\* and after the end of the connection no task waits (ExtensionBridge.close).
CommandsAnswered ==
    <>[](\A k \in Tasks : Busy(k) => alive /\ \E c \in running : c.task = k)

\* Either side dropping closes the other (CdpRelay): the client's leaving ends the
\* connection of the extension, and the extension's end is the client's.
LinksEndTogether ==
    (~alive \/ client = "gone") ~> (~alive /\ closed /\ client # "here")
=============================================================================
