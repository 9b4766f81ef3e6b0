-------------------------------- MODULE Link --------------------------------
(***************************************************************************)
(* The WebSocket between the bridge extension and the CDP relay: a channel *)
(* in each direction, in order and without loss until one side closes it.  *)
(* Closing is the last message of a direction; what the other side sends   *)
(* afterwards is dropped.                                                  *)
(***************************************************************************)
EXTENDS Sequences, FiniteSets, Naturals

CONSTANTS
    Tabs,    \* the browser's tabs
    Tasks,   \* pool of relay tasks; one that waits for an answer stands for its call
    NoTab, NoTask

ASSUME PlaceholderAssumption == NoTab \notin Tabs /\ NoTask \notin Tasks

VARIABLES
    up,      \* messages of the extension, oldest first
    down     \* messages of the relay

linkVars == <<up, down>>

Event(kind, t) == [kind |-> kind, tab |-> t, task |-> NoTask, ok |-> TRUE]
Answer(k, t, ok) == [kind |-> "answer", tab |-> t, task |-> k, ok |-> ok]
Command(kind, k, t) == [kind |-> kind, tab |-> t, task |-> k]
Bye == Event("bye", NoTab)

UpMessages == [kind : {"created", "removed", "detached", "initialized", "answer", "bye"},
               tab : Tabs \cup {NoTab}, task : Tasks \cup {NoTask}, ok : BOOLEAN]
Commands == [kind : {"attach", "info", "create", "remove", "command", "bye"},
             tab : Tabs \cup {NoTab}, task : Tasks \cup {NoTask}]

LinkInit == up = <<>> /\ down = <<>>
LinkTypeOK == up \in Seq(UpMessages) /\ down \in Seq(Commands)
=============================================================================
