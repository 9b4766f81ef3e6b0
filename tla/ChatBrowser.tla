---------------------------- MODULE ChatBrowser ----------------------------
(***************************************************************************)
(* What the session registry promises one chat: at any time at most one    *)
(* browser, living one life after the other, joined only while it is up.   *)
(* Sessions.tla implements one copy of this specification per chat.        *)
(***************************************************************************)
CONSTANT Users

VARIABLES
    life,   \* "down", "starting", "up", "stopping" or "aborted"
    users   \* who was handed the current browser and has not let go of it

Init == life = "down" /\ users = {}

Start == life = "down" /\ life' = "starting" /\ users' = {}

Fail == life = "starting" /\ life' = "down" /\ users' = {}

\* The user who started the browser is its first.
Rise(u) == life = "starting" /\ life' = "up" /\ users' = {u}

Join(u) == life = "up" /\ u \notin users /\ users' = users \cup {u} /\ life' = life

\* Letting go is possible at any time, the browser's end included.
Part(u) == u \in users /\ users' = users \ {u} /\ life' = life

\* Stopping is one-way; the user who asked for it may let go with its end.
Stop == life = "up" /\ life' = "stopping" /\ users' = users

Stopped == life = "stopping" /\ life' = "down" /\ users' = {}

\* A stop is cancelled with its process or fails, and the browser stays in between for
\* good; the user who asked for it may let go with that.
Abort ==
    /\ life = "stopping" /\ life' = "aborted"
    /\ users' = users \/ \E u \in users : users' = users \ {u}

Next ==
    \/ Start \/ Fail \/ Stop \/ Stopped \/ Abort
    \/ \E u \in Users : Rise(u) \/ Join(u) \/ Part(u)

Spec == Init /\ [][Next]_<<life, users>>
=============================================================================
