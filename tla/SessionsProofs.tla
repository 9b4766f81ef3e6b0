--------------------------- MODULE SessionsProofs ---------------------------
(***************************************************************************)
(* Proofs about Sessions.tla: the types of its variables, and that with    *)
(* persistent profiles no browser is ever lost track of.                   *)
(***************************************************************************)
EXTENDS Sessions, TLAPS

-----------------------------------------------------------------------------
(* The type invariant, stepwise.  A task's driver is known by its step.      *)

\* What a caller's step says of the driver and the id it carries.
DriverOfStep ==
    \A c \in Callers :
        /\ pc[c] \notin {"idle", "waiting"} => drv[c] \in Drivers
        /\ pc[c] # "idle" => chat[c] \in Chats

TypeInv == TypeOK /\ DriverOfStep

\* Every variable starts with a value of its type.
LEMMA InitType == Init => TypeInv
  BY NoneAssumption, BoundsAssumption
     DEF Init, TypeInv, TypeOK, DriverOfStep, Steps, Phases

\* A close, or a failing launch, that is over has quit the browser or left it behind.
LEMMA EndsKnown == Ends \subseteq {"down", "aborted"}
  BY DEF Ends

LEMMA AfterType ==
    ASSUME TypeOK, NEW d, NEW end \in {"down", "aborted"}
    PROVE  /\ After(d, end) \in [Drivers -> Phases]
           /\ IdAfter(d, end) \in [Drivers -> Chats \cup {NoChat}]
           /\ \A e \in Drivers : e # d => /\ After(d, end)[e] = phase[e]
                                         /\ IdAfter(d, end)[e] = chatOf[e]
           /\ d \in Drivers => /\ After(d, end)[d] = end
                              /\ IdAfter(d, end)[d] = IF end = "down" THEN NoChat ELSE chatOf[d]
           /\ d \notin Drivers => After(d, end) = phase /\ IdAfter(d, end) = chatOf
  BY DEF TypeOK, After, IdAfter, Phases

LEMMA ClosedType ==
    ASSUME TypeOK, NEW d, Closed(d)
    PROVE  phase' \in [Drivers -> Phases] /\ chatOf' \in [Drivers -> Chats \cup {NoChat}]
  <1>1. PICK end \in Ends : phase' = After(d, end) /\ chatOf' = IdAfter(d, end)
    BY DEF Closed
  <1> QED BY <1>1, EndsKnown, AfterType

\* Closing a session leaves the maps well typed.
LEMMA PopType ==
    ASSUME TypeOK, NEW s \in Warm,
           NEW locks \in [Chats -> Locks \cup {NoLock}], NEW ph \in [Drivers -> Phases],
           PopSession(s, locks, ph)
    PROVE  /\ registry' \in [Chats -> Drivers \cup {NoDriver}]
           /\ lockOf' \in [Chats -> Locks \cup {NoLock}]
           /\ phase' \in [Drivers -> Phases]
           /\ registry[s] \in Drivers
  BY DEF TypeOK, Warm, PopSession, Phases

\* So does the beginning of a launch.
LEMMA StartType ==
    ASSUME TypeOK, DriverOfStep, NEW c \in Callers, NEW s \in Chats,
           NEW ph \in [Drivers -> Phases], NEW ids \in [Drivers -> Chats \cup {NoChat}],
           StartLaunch(c, s, ph, ids)
    PROVE  /\ drv' \in [Callers -> Drivers \cup {NoDriver}]
           /\ phase' \in [Drivers -> Phases]
           /\ chatOf' \in [Drivers -> Chats \cup {NoChat}]
           /\ viewers' \in [Drivers -> Int]
           /\ age' \in [Drivers -> 0..(IdleTimeout + 1)]
           /\ pc' \in [Callers -> Steps]
           /\ pc'[c] = "launching" /\ drv'[c] \in Drivers
           /\ \A b \in Callers \ {c} : pc'[b] = pc[b] /\ drv'[b] = drv[b]
  BY BoundsAssumption DEF TypeOK, StartLaunch, FreshDrivers, IdleDriver, Phases, Steps

\* The choice between evicting and launching, under the lock.
LEMMA EvictOrLaunchType ==
    ASSUME TypeOK, DriverOfStep, NEW c \in Callers, NEW s \in Chats,
           NEW locks \in [Chats -> Locks \cup {NoLock}],
           EvictOrLaunch(c, s, locks)
    PROVE  /\ registry' \in [Chats -> Drivers \cup {NoDriver}]
           /\ lockOf' \in [Chats -> Locks \cup {NoLock}]
           /\ drv' \in [Callers -> Drivers \cup {NoDriver}]
           /\ phase' \in [Drivers -> Phases]
           /\ chatOf' \in [Drivers -> Chats \cup {NoChat}]
           /\ viewers' \in [Drivers -> Int]
           /\ age' \in [Drivers -> 0..(IdleTimeout + 1)]
           /\ pc' \in [Callers -> Steps]
           /\ drv'[c] \in Drivers
           /\ \A b \in Callers \ {c} : pc'[b] = pc[b] /\ drv'[b] = drv[b]
  <1>1. ASSUME NEW v \in Victims, PopSession(v, locks, phase),
               drv' = [drv EXCEPT ![c] = registry[v]],
               pc' = [pc EXCEPT ![c] = "evicting"],
               UNCHANGED <<chatOf, viewers, age>>
        PROVE  /\ registry' \in [Chats -> Drivers \cup {NoDriver}]
               /\ lockOf' \in [Chats -> Locks \cup {NoLock}]
               /\ drv' \in [Callers -> Drivers \cup {NoDriver}]
               /\ phase' \in [Drivers -> Phases]
               /\ pc' \in [Callers -> Steps]
               /\ drv'[c] \in Drivers
               /\ \A b \in Callers \ {c} : pc'[b] = pc[b] /\ drv'[b] = drv[b]
    <2>1. v \in Warm BY DEF Victims, Evictable
    <2> QED BY <1>1, <2>1, PopType DEF TypeOK, Steps
  <1>2. CASE StartLaunch(c, s, phase, chatOf) /\ lockOf' = locks /\ UNCHANGED registry
    BY <1>2, StartType DEF TypeOK
  <1> QED BY <1>1, <1>2 DEF EvictOrLaunch, TypeOK

\* A step of a caller keeps the types.
LEMMA CallerType ==
    ASSUME TypeInv, NEW c \in Callers, CallerStep(c) PROVE TypeInv'
  <1> USE NoneAssumption, BoundsAssumption
      DEF TypeInv, TypeOK, DriverOfStep, callerVars, sweepVars
  <1>0. Released(c) \in [Locks -> Seq(Callers)]
    BY DEF Released, Holds
  <1>a. ASSUME NEW s \in Chats, Live(s) PROVE registry[s] \in Drivers
    BY <1>a DEF Live
  <1>b. ASSUME NEW s \in Chats, Gone(s), FindGone(c, s)
        PROVE  /\ registry' \in [Chats -> Drivers \cup {NoDriver}]
               /\ lockOf' \in [Chats -> Locks \cup {NoLock}]
               /\ phase' \in [Drivers -> Phases]
               /\ registry[s] \in Drivers
    <2>1. s \in Warm BY <1>b DEF Gone, Warm
    <2> QED BY <2>1, <1>b, PopType DEF FindGone
  <1>1. ASSUME NEW s \in Chats, Call(c, s) PROVE TypeInv'
    <2>1. CASE Live(s) /\ Attach(c, registry[s])
               /\ UNCHANGED <<registry, lockOf, queue, phase, chatOf>>
      BY <2>1, <1>1, <1>a DEF Call, Attach, Steps
    <2>2. CASE Gone(s) /\ FindGone(c, s)
      BY <2>2, <1>1, <1>b DEF Call, FindGone, Steps
    <2>3. ASSUME NEW l \in Locks, LockFor(s, l),
                 queue' = [queue EXCEPT ![l] = Append(@, c)],
                 EvictOrLaunch(c, s, [lockOf EXCEPT ![s] = l])
          PROVE TypeInv'
      <3>1. queue' \in [Locks -> Seq(Callers)] BY <2>3
      <3>2. [lockOf EXCEPT ![s] = l] \in [Chats -> Locks \cup {NoLock}] OBVIOUS
      <3>3. chat' = [chat EXCEPT ![c] = s] /\ UNCHANGED <<sweepVars, late>> BY <1>1 DEF Call
      <3>4. EvictOrLaunch(c, s, [lockOf EXCEPT ![s] = l]) BY <2>3
      <3> HIDE DEF sweepVars
      <3>5. /\ registry' \in [Chats -> Drivers \cup {NoDriver}]
            /\ lockOf' \in [Chats -> Locks \cup {NoLock}]
            /\ drv' \in [Callers -> Drivers \cup {NoDriver}]
            /\ phase' \in [Drivers -> Phases]
            /\ chatOf' \in [Drivers -> Chats \cup {NoChat}]
            /\ viewers' \in [Drivers -> Int]
            /\ age' \in [Drivers -> 0..(IdleTimeout + 1)]
            /\ pc' \in [Callers -> Steps]
            /\ drv'[c] \in Drivers
            /\ \A b \in Callers \ {c} : pc'[b] = pc[b] /\ drv'[b] = drv[b]
        BY <3>2, <3>4, EvictOrLaunchType
      <3> QED BY <3>1, <3>3, <3>5 DEF sweepVars
    <2>4. ASSUME NEW l \in Locks,
                 queue' = [queue EXCEPT ![l] = Append(@, c)],
                 pc' = [pc EXCEPT ![c] = "waiting"],
                 lockOf' = [lockOf EXCEPT ![s] = l],
                 UNCHANGED <<registry, drv, phase, chatOf, viewers, age>>
          PROVE TypeInv'
      BY <2>4, <1>1 DEF Call, Steps
    <2> QED BY <1>1, <2>1, <2>2, <2>3, <2>4 DEF Call
  <1>2. CASE Granted(c)
    <2>1. CASE Live(chat[c]) /\ Attach(c, registry[chat[c]])
               /\ queue' = Released(c)
               /\ UNCHANGED <<registry, lockOf, phase, chatOf>>
      BY <2>1, <1>2, <1>0, <1>a DEF Granted, Attach, Steps
    <2>2. CASE Gone(chat[c]) /\ FindGone(c, chat[c])
      BY <2>2, <1>2, <1>b DEF Granted, FindGone, Steps
    <2>3. CASE Cold(chat[c]) /\ EvictOrLaunch(c, chat[c], lockOf) /\ UNCHANGED queue
      BY <2>3, <1>2, EvictOrLaunchType DEF Granted
    <2> QED BY <1>2, <2>1, <2>2, <2>3 DEF Granted
  <1>3. CASE RaiseGone(c)
    <2>1. /\ phase' \in [Drivers -> Phases] /\ chatOf' \in [Drivers -> Chats \cup {NoChat}]
      BY <1>3, ClosedType DEF RaiseGone
    <2> QED BY <1>3, <1>0, <2>1 DEF RaiseGone, Return, Steps
  <1>4. CASE Evicted(c)
    <2>0. PICK end \in Ends : StartLaunch(c, chat[c], After(drv[c], end), IdAfter(drv[c], end))
      BY <1>4 DEF Evicted
    <2>1. After(drv[c], end) \in [Drivers -> Phases]
          /\ IdAfter(drv[c], end) \in [Drivers -> Chats \cup {NoChat}]
      BY EndsKnown, AfterType
    <2>2. chat[c] \in Chats BY <1>4 DEF Evicted
    <2> QED BY <1>4, <2>0, <2>1, <2>2, StartType DEF Evicted
  <1>5. CASE TakeProfile(c) BY <1>5 DEF TakeProfile, Phases
  <1>6. CASE LaunchFails(c)
    <2>1. /\ phase' \in [Drivers -> Phases] /\ chatOf' \in [Drivers -> Chats \cup {NoChat}]
      BY <1>6, AfterType DEF LaunchFails
    <2> QED BY <1>6, <1>0, <2>1 DEF LaunchFails, Return, Steps
  <1>7. CASE Launched(c)
    <2>1. drv[c] \in Drivers /\ chat[c] \in Chats BY <1>7 DEF Launched
    <2>2. viewers' \in [Drivers -> Int]
      BY <1>7, <2>1 DEF Launched, Attach
    <2>3. pc' = [pc EXCEPT ![c] = "using"] /\ drv' = [drv EXCEPT ![c] = drv[c]]
          /\ age' = [age EXCEPT ![drv[c]] = 0]
      BY <1>7 DEF Launched, Attach
    <2> QED BY <1>7, <1>0, <2>1, <2>2, <2>3 DEF Launched, Steps, Phases
  <1>8. CASE ViewerActs(c)
    <2>0. drv[c] \in Drivers BY <1>8 DEF ViewerActs
    <2>1. age' \in [Drivers -> 0..(IdleTimeout + 1)] BY <1>8, <2>0 DEF ViewerActs
    <2>2. UNCHANGED <<registry, lockOf, queue, pc, chat, drv, phase, chatOf,
                      viewers, server, todo, sweepDrv, late>>
      BY <1>8 DEF ViewerActs
    <2> QED BY <2>1, <2>2
  <1>9. CASE EndSession(c)
    <2>1. drv[c] \in Drivers /\ chat[c] \in Chats BY <1>9 DEF EndSession
    <2>2. chat[c] \in Warm BY <1>9, <2>1 DEF EndSession, Warm
    <2> QED BY <1>9, <2>1, <2>2, PopType DEF EndSession, Steps
  <1>10. CASE SessionEnded(c)
    <2>1. drv[c] \in Drivers BY <1>10 DEF SessionEnded
    <2>2. viewers' \in [Drivers -> Int]
      BY <1>10, <2>1 DEF SessionEnded, CountOut
    <2>3. /\ pc' = [pc EXCEPT ![c] = "idle"]
          /\ chat' = [chat EXCEPT ![c] = NoChat]
          /\ drv' = [drv EXCEPT ![c] = NoDriver]
      BY <1>10 DEF SessionEnded, CountOut, Return
    <2>4. /\ phase' \in [Drivers -> Phases] /\ chatOf' \in [Drivers -> Chats \cup {NoChat}]
      BY <1>10, ClosedType DEF SessionEnded
    <2> QED BY <1>10, <2>1, <2>2, <2>3, <2>4 DEF SessionEnded, Steps
  <1>11. CASE Leave(c)
    <2>0. drv[c] \in Drivers BY <1>11 DEF Leave
    <2>1. viewers' \in [Drivers -> Int] BY <1>11, <2>0 DEF Leave, CountOut
    <2>2. /\ pc' = [pc EXCEPT ![c] = "idle"]
          /\ chat' = [chat EXCEPT ![c] = NoChat]
          /\ drv' = [drv EXCEPT ![c] = NoDriver]
      BY <1>11 DEF Leave, CountOut, Return
    <2> QED BY <1>11, <2>1, <2>2 DEF Leave, Steps
  <1> QED BY <1>1, <1>2, <1>3, <1>4, <1>5, <1>6, <1>7, <1>8, <1>9, <1>10, <1>11 DEF CallerStep

\* A sweep keeps the types: what it closes is a registered driver.
LEMMA SweepType ==
    ASSUME TypeInv, SweepStep PROVE TypeInv'
  <1> USE NoneAssumption DEF TypeInv, TypeOK, DriverOfStep, Steps, Phases, callerVars
  <1>1. ASSUME NEW list \in SUBSET Chats, NEW ph \in [Drivers -> Phases], CloseNext(list, ph)
        PROVE  /\ registry' \in [Chats -> Drivers \cup {NoDriver}]
               /\ lockOf' \in [Chats -> Locks \cup {NoLock}]
               /\ phase' \in [Drivers -> Phases]
               /\ todo' \in SUBSET Chats
               /\ sweepDrv' \in Drivers \cup {NoDriver}
    <2>1. ASSUME NEW s \in list \cap Warm, NEW skipped \in SUBSET (list \ Warm),
                 PopSession(s, [t \in Chats |-> IF t \in skipped THEN NoLock ELSE lockOf[t]], ph),
                 sweepDrv' = registry[s], todo' = list \ (skipped \cup {s})
          PROVE  /\ registry' \in [Chats -> Drivers \cup {NoDriver}]
                 /\ lockOf' \in [Chats -> Locks \cup {NoLock}]
                 /\ phase' \in [Drivers -> Phases]
                 /\ todo' \in SUBSET Chats
                 /\ sweepDrv' \in Drivers \cup {NoDriver}
      <3>1. [t \in Chats |-> IF t \in skipped THEN NoLock ELSE lockOf[t]]
              \in [Chats -> Locks \cup {NoLock}]
        OBVIOUS
      <3> QED BY <2>1, <3>1, PopType
    <2> QED BY <1>1, <2>1 DEF CloseNext
  <1>2. Expired \in SUBSET Chats /\ Warm \in SUBSET Chats
    BY DEF Expired, Warm
  <1>3. CASE ReapIdle BY <1>3, <1>1, <1>2 DEF ReapIdle
  <1>4. ASSUME SweepOn
        PROVE  /\ registry' \in [Chats -> Drivers \cup {NoDriver}]
               /\ lockOf' \in [Chats -> Locks \cup {NoLock}]
               /\ phase' \in [Drivers -> Phases]
               /\ chatOf' \in [Drivers -> Chats \cup {NoChat}]
               /\ todo' \in SUBSET Chats
               /\ sweepDrv' \in Drivers \cup {NoDriver}
    <2>1. PICK end \in Ends : /\ CloseNext(todo, After(sweepDrv, end))
                              /\ chatOf' = IdAfter(sweepDrv, end)
      BY <1>4 DEF SweepOn
    <2>2. /\ After(sweepDrv, end) \in [Drivers -> Phases]
          /\ IdAfter(sweepDrv, end) \in [Drivers -> Chats \cup {NoChat}]
      BY EndsKnown, AfterType
    <2> QED BY <1>1, <2>1, <2>2
  <1>5. CASE ReapNext BY <1>4, <1>5 DEF ReapNext
  <1>6. CASE CloseAllNext BY <1>4, <1>6 DEF CloseAllNext
  <1>7. CASE Shutdown
    <2>1. CASE sweepDrv = NoDriver
      BY <1>7, <2>1, <1>1, <1>2 DEF Shutdown
    <2>2. CASE sweepDrv # NoDriver
      BY <1>7, <2>2, <1>1, <1>2, AfterType DEF Shutdown
    <2> QED BY <2>1, <2>2
  <1> QED BY <1>3, <1>5, <1>6, <1>7 DEF SweepStep

\* Type correctness of the session registry and its tasks, in every mode.
THEOREM TypeCorrect == Spec => []TypeOK
  <1>1. TypeInv /\ [Next]_vars => TypeInv'
    <2> SUFFICES ASSUME TypeInv, [Next]_vars PROVE TypeInv'
      OBVIOUS
    <2>1. ASSUME NEW c \in Callers, CallerStep(c) PROVE TypeInv'
      BY <2>1, CallerType
    <2>2. CASE SweepStep BY <2>2, SweepType
    <2>3. ASSUME NEW d \in Drivers, BrowserLeaves(d) PROVE TypeInv'
      BY <2>3 DEF BrowserLeaves, TypeInv, TypeOK, DriverOfStep, Phases, callerVars, sweepVars
    <2>4. CASE Tick
      BY <2>4, BoundsAssumption DEF Tick, TypeInv, TypeOK, DriverOfStep, callerVars, sweepVars
    <2>5. CASE UNCHANGED vars
      BY <2>5 DEF vars, TypeInv, TypeOK, DriverOfStep
    <2> QED BY <2>1, <2>2, <2>3, <2>4, <2>5 DEF Next
  <1> QED BY InitType, <1>1, PTL DEF Spec, TypeInv
-----------------------------------------------------------------------------
(* Every driver in the middle of a launch or of a close belongs to one task, *)
(* and a registered driver to none: the invariant behind RegisteredIsUp and  *)
(* GoneReportedOnce, in every mode.                                          *)

Closes(c) == pc[c] \in {"reporting", "evicting", "ending"}

LaunchOwned ==
    /\ \A c \in Callers : pc[c] = "launching" => /\ phase[drv[c]] \in {"launching", "starting"}
                                                /\ chatOf[drv[c]] = chat[c]
    /\ \A b, c \in Callers : pc[b] = "launching" /\ pc[c] = "launching" /\ drv[b] = drv[c]
                                => b = c

CloseOwned ==
    /\ \A c \in Callers : Closes(c) => phase[drv[c]] = "closing" /\ drv[c] # sweepDrv
    /\ \A b, c \in Callers : Closes(b) /\ Closes(c) /\ drv[b] = drv[c] => b = c
    /\ sweepDrv # NoDriver => phase[sweepDrv] = "closing"

LifeInv == TypeInv /\ RegisteredIsUp /\ LaunchOwned /\ CloseOwned

LEMMA InitLife == Init => LifeInv
  <1> SUFFICES ASSUME Init PROVE RegisteredIsUp /\ LaunchOwned /\ CloseOwned
    BY InitType DEF LifeInv
  <1> QED BY DEF Init, RegisteredIsUp, Warm, LaunchOwned, CloseOwned, Closes

\* Popping a session: its driver was open or gone, so no task launches or
\* closes it yet.
LEMMA PopOwns ==
    ASSUME LifeInv, NEW s \in Warm
    PROVE  LET d == registry[s]
           IN  /\ d \in Drivers /\ phase[d] \in {"open", "gone"} /\ chatOf[d] = s
               /\ d # sweepDrv
               /\ \A c \in Callers : Closes(c) \/ pc[c] = "launching" => drv[c] # d
               /\ \A t \in Warm \ {s} : registry[t] # d
  <1>1. /\ registry[s] \in Drivers /\ phase[registry[s]] \in {"open", "gone"}
        /\ chatOf[registry[s]] = s
    BY DEF LifeInv, RegisteredIsUp, Warm, TypeInv, TypeOK
  <1>2. registry[s] # sweepDrv
    BY <1>1, NoneAssumption DEF LifeInv, CloseOwned
  <1>3. ASSUME NEW c \in Callers, Closes(c) \/ pc[c] = "launching"
        PROVE drv[c] # registry[s]
    BY <1>1, <1>3 DEF LifeInv, CloseOwned, LaunchOwned
  <1>4. ASSUME NEW t \in Warm \ {s} PROVE registry[t] # registry[s]
    BY <1>1, <1>4 DEF LifeInv, RegisteredIsUp
  <1> QED BY <1>1, <1>2, <1>3, <1>4

\* A fresh driver is nobody's.
LEMMA FreshOwns ==
    ASSUME LifeInv, NEW d \in FreshDrivers
    PROVE  /\ d \in Drivers /\ phase[d] = "down" /\ d # sweepDrv
           /\ \A c \in Callers : drv[c] # d
           /\ \A s \in Warm : registry[s] # d
  <1>1. d \in Drivers /\ phase[d] = "down" /\ \A c \in Callers : drv[c] # d
    BY DEF FreshDrivers, IdleDriver
  <1>2. d # sweepDrv BY <1>1, NoneAssumption DEF LifeInv, CloseOwned
  <1>3. ASSUME NEW s \in Warm PROVE registry[s] # d
    BY <1>1, <1>3 DEF LifeInv, RegisteredIsUp
  <1> QED BY <1>1, <1>2, <1>3

Owned == RegisteredIsUp /\ LaunchOwned /\ CloseOwned

\* The other callers are where they were.
OthersStay(c) == \A b \in Callers \ {c} : pc'[b] = pc[b] /\ drv'[b] = drv[b] /\ chat'[b] = chat[b]

\* A caller that neither launches nor closes pops a session and closes it.
LEMMA PopLife ==
    ASSUME LifeInv, NEW c \in Callers, NEW s \in Warm,
           ~Closes(c), pc[c] # "launching",
           registry' = [registry EXCEPT ![s] = NoDriver],
           phase' = [phase EXCEPT ![registry[s]] = "closing"],
           drv'[c] = registry[s], pc'[c] \in {"reporting", "evicting", "ending"},
           OthersStay(c), chatOf' = chatOf, sweepDrv' = sweepDrv
    PROVE  Owned'
  <1> DEFINE d == registry[s]
  <1>1. /\ d \in Drivers /\ d # sweepDrv
        /\ \A b \in Callers : Closes(b) \/ pc[b] = "launching" => drv[b] # d
        /\ \A t \in Warm \ {s} : registry[t] # d
    BY PopOwns
  <1>2. /\ registry \in [Chats -> Drivers \cup {NoDriver}] /\ phase \in [Drivers -> Phases]
        /\ s \in Chats /\ \A b \in Callers : pc[b] \notin {"idle", "waiting"} => drv[b] \in Drivers
    BY DEF LifeInv, TypeInv, TypeOK, DriverOfStep, Warm
  <1>3. phase'[d] = "closing" /\ \A e \in Drivers \ {d} : phase'[e] = phase[e]
    BY <1>1, <1>2
  <1> HIDE DEF d
  <1>4. RegisteredIsUp'
    <2> SUFFICES ASSUME NEW t \in Chats, registry'[t] # NoDriver
                 PROVE  phase'[registry'[t]] \in {"open", "gone"} /\ chatOf'[registry'[t]] = t
      BY DEF RegisteredIsUp, Warm
    <2>1. t # s /\ registry'[t] = registry[t] /\ t \in Warm BY <1>2 DEF Warm
    <2>2. registry[t] # d /\ registry[t] \in Drivers BY <2>1, <1>1, <1>2 DEF Warm
    <2> QED BY <2>1, <2>2, <1>3 DEF LifeInv, RegisteredIsUp
  <1>5. LaunchOwned'
    <2>1. ASSUME NEW b \in Callers, pc'[b] = "launching"
          PROVE  /\ b # c /\ pc[b] = "launching" /\ drv'[b] = drv[b] /\ chat'[b] = chat[b]
                 /\ drv[b] \in Drivers \ {d}
      BY <2>1, <1>1, <1>2 DEF OthersStay
    <2> QED BY <2>1, <1>3 DEF LifeInv, LaunchOwned
  <1>6. CloseOwned'
    <2>1. ASSUME NEW b \in Callers, b # c, Closes(b)'
          PROVE  Closes(b) /\ drv'[b] = drv[b] /\ drv[b] \in Drivers \ {d}
      BY <2>1, <1>1, <1>2 DEF OthersStay, Closes
    <2>2. drv'[c] = d BY DEF d
    <2>3. sweepDrv' # NoDriver => phase'[sweepDrv'] = "closing"
      BY <1>1, <1>3, NoneAssumption DEF LifeInv, CloseOwned, TypeInv, TypeOK
    <2>4. \A b \in Callers : Closes(b)' => phase'[drv'[b]] = "closing" /\ drv'[b] # sweepDrv'
      BY <2>1, <2>2, <1>1, <1>3 DEF LifeInv, CloseOwned
    <2>5. \A a, b \in Callers : Closes(a)' /\ Closes(b)' /\ drv'[a] = drv'[b] => a = b
      BY <2>1, <2>2 DEF LifeInv, CloseOwned
    <2> QED BY <2>3, <2>4, <2>5 DEF CloseOwned, Closes
  <1> QED BY <1>4, <1>5, <1>6 DEF Owned

\* A caller that launches or closes a driver gives it up; its browser has quit or stays.
LEMMA DownLife ==
    ASSUME LifeInv, NEW c \in Callers, Closes(c) \/ pc[c] = "launching",
           NEW end \in {"down", "aborted"},
           phase' = After(drv[c], end), chatOf' = IdAfter(drv[c], end),
           pc'[c] = "idle", OthersStay(c), registry' = registry, sweepDrv' = sweepDrv
    PROVE  Owned'
  <1> DEFINE d == drv[c]
  <1>1. /\ registry \in [Chats -> Drivers \cup {NoDriver}] /\ phase \in [Drivers -> Phases]
        /\ chatOf \in [Drivers -> Chats \cup {NoChat}]
        /\ d \in Drivers /\ \A b \in Callers : pc[b] \notin {"idle", "waiting"} => drv[b] \in Drivers
    BY DEF LifeInv, TypeInv, TypeOK, DriverOfStep, Closes
  <1>2. phase[d] \in {"closing", "launching", "starting"} /\ d # sweepDrv
    BY NoneAssumption, <1>1 DEF LifeInv, LaunchOwned, CloseOwned
  <1>3. \A e \in Drivers \ {d} : phase'[e] = phase[e] /\ chatOf'[e] = chatOf[e]
    BY AfterType DEF LifeInv, TypeInv
  <1>4. ASSUME NEW b \in Callers, b # c, Closes(b) \/ pc[b] = "launching"
        PROVE  drv[b] \in Drivers \ {d}
    BY <1>4, <1>1 DEF LifeInv, LaunchOwned, CloseOwned, Closes
  <1> HIDE DEF d
  <1>5. RegisteredIsUp'
    <2> SUFFICES ASSUME NEW t \in Chats, registry[t] # NoDriver
                 PROVE  phase'[registry[t]] \in {"open", "gone"} /\ chatOf'[registry[t]] = t
      BY DEF RegisteredIsUp, Warm
    <2>1. phase[registry[t]] \in {"open", "gone"} /\ chatOf[registry[t]] = t
      BY DEF LifeInv, RegisteredIsUp, Warm
    <2> QED BY <2>1, <1>1, <1>2, <1>3
  <1>6. LaunchOwned'
    <2>1. ASSUME NEW b \in Callers, pc'[b] = "launching"
          PROVE  /\ b # c /\ pc[b] = "launching" /\ drv'[b] = drv[b] /\ chat'[b] = chat[b]
                 /\ drv[b] \in Drivers \ {d}
      BY <2>1, <1>4 DEF OthersStay
    <2> QED BY <2>1, <1>3 DEF LifeInv, LaunchOwned
  <1>7. CloseOwned'
    <2>1. ASSUME NEW b \in Callers, Closes(b)'
          PROVE  b # c /\ Closes(b) /\ drv'[b] = drv[b] /\ drv[b] \in Drivers \ {d}
      BY <2>1, <1>4 DEF OthersStay, Closes
    <2>2. sweepDrv' # NoDriver => phase'[sweepDrv'] = "closing"
      BY <1>2, <1>3, NoneAssumption DEF LifeInv, CloseOwned, TypeInv, TypeOK
    <2>3. \A b \in Callers : Closes(b)' => phase'[drv'[b]] = "closing" /\ drv'[b] # sweepDrv'
      BY <2>1, <1>3 DEF LifeInv, CloseOwned
    <2>4. \A a, b \in Callers : Closes(a)' /\ Closes(b)' /\ drv'[a] = drv'[b] => a = b
      BY <2>1 DEF LifeInv, CloseOwned
    <2> QED BY <2>2, <2>3, <2>4 DEF CloseOwned, Closes
  <1> QED BY <1>5, <1>6, <1>7 DEF Owned

\* A launch begins on a fresh driver, perhaps right after an eviction.
LEMMA StartLife ==
    ASSUME LifeInv, NEW c \in Callers, NEW s \in Chats, pc[c] # "launching",
           NEW ph, NEW ids, StartLaunch(c, s, ph, ids), chat'[c] = s,
           \/ ~Closes(c) /\ ph = phase /\ ids = chatOf
           \/ Closes(c) /\ \E end \in {"down", "aborted"} : /\ ph = After(drv[c], end)
                                                          /\ ids = IdAfter(drv[c], end),
           \A b \in Callers \ {c} : chat'[b] = chat[b],
           registry' = registry, sweepDrv' = sweepDrv
    PROVE  Owned'
  <1>1. /\ registry \in [Chats -> Drivers \cup {NoDriver}] /\ phase \in [Drivers -> Phases]
        /\ chatOf \in [Drivers -> Chats \cup {NoChat}] /\ drv \in [Callers -> Drivers \cup {NoDriver}]
        /\ pc \in [Callers -> Steps]
        /\ \A b \in Callers : pc[b] \notin {"idle", "waiting"} => drv[b] \in Drivers
    BY DEF LifeInv, TypeInv, TypeOK, DriverOfStep
  <1>2. PICK d \in FreshDrivers : /\ drv' = [drv EXCEPT ![c] = d]
                                  /\ phase' = [ph EXCEPT ![d] = "launching"]
                                  /\ chatOf' = [ids EXCEPT ![d] = s]
                                  /\ pc' = [pc EXCEPT ![c] = "launching"]
    BY DEF StartLaunch
  <1>3. /\ d \in Drivers /\ phase[d] = "down" /\ d # sweepDrv
        /\ \A b \in Callers : drv[b] # d
        /\ \A t \in Warm : registry[t] # d
    BY FreshOwns
  <1>4. OthersStay(c) BY <1>1, <1>2 DEF OthersStay
  <1>a. /\ ph \in [Drivers -> Phases] /\ ids \in [Drivers -> Chats \cup {NoChat}]
        /\ \A e \in Drivers : (Closes(c) => e # drv[c]) => ph[e] = phase[e] /\ ids[e] = chatOf[e]
    BY <1>1, AfterType DEF LifeInv, TypeInv
  <1>5. phase'[d] = "launching" /\ chatOf'[d] = s /\ drv'[c] = d /\ pc'[c] = "launching"
    BY <1>1, <1>2, <1>3, <1>a
  \* Other drivers keep their phase, but for a victim that c has just closed.
  <1>6. ASSUME NEW e \in Drivers \ {d}, Closes(c) => e # drv[c]
        PROVE  phase'[e] = phase[e] /\ chatOf'[e] = chatOf[e]
    BY <1>2, <1>6, <1>a
  <1>7. Closes(c) => phase[drv[c]] = "closing" /\ drv[c] # sweepDrv
    BY DEF LifeInv, CloseOwned
  <1>8. RegisteredIsUp'
    <2> SUFFICES ASSUME NEW t \in Chats, registry[t] # NoDriver
                 PROVE  phase'[registry[t]] \in {"open", "gone"} /\ chatOf'[registry[t]] = t
      BY DEF RegisteredIsUp, Warm
    <2>1. phase[registry[t]] \in {"open", "gone"} /\ chatOf[registry[t]] = t
      BY DEF LifeInv, RegisteredIsUp, Warm
    <2>2. registry[t] \in Drivers /\ registry[t] # d /\ (Closes(c) => registry[t] # drv[c])
      BY <1>1, <1>3, <1>7, <2>1
    <2> QED BY <2>1, <2>2, <1>6
  <1>9. LaunchOwned'
    <2>1. ASSUME NEW b \in Callers, b # c, pc'[b] = "launching"
          PROVE  /\ pc[b] = "launching" /\ drv'[b] = drv[b] /\ chat'[b] = chat[b]
                 /\ drv[b] \in Drivers \ {d} /\ (Closes(c) => drv[b] # drv[c])
      BY <2>1, <1>1, <1>3, <1>4, <1>7 DEF OthersStay, LifeInv, LaunchOwned
    <2> QED BY <2>1, <1>5, <1>6 DEF LifeInv, LaunchOwned
  <1>10. CloseOwned'
    <2>1. ASSUME NEW b \in Callers, Closes(b)'
          PROVE  /\ b # c /\ Closes(b) /\ drv'[b] = drv[b]
                 /\ drv[b] \in Drivers \ {d} /\ (Closes(c) => drv[b] # drv[c])
      BY <2>1, <1>1, <1>3, <1>4, <1>5 DEF OthersStay, Closes, LifeInv, CloseOwned
    <2>2. sweepDrv' # NoDriver => phase'[sweepDrv'] = "closing"
      BY <1>3, <1>6, <1>7 DEF LifeInv, CloseOwned, TypeInv, TypeOK
    <2>3. \A b \in Callers : Closes(b)' => phase'[drv'[b]] = "closing" /\ drv'[b] # sweepDrv'
      BY <2>1, <1>6 DEF LifeInv, CloseOwned
    <2>4. \A a, b \in Callers : Closes(a)' /\ Closes(b)' /\ drv'[a] = drv'[b] => a = b
      BY <2>1 DEF LifeInv, CloseOwned
    <2> QED BY <2>2, <2>3, <2>4 DEF CloseOwned, Closes
  <1> QED BY <1>8, <1>9, <1>10 DEF Owned

\* A caller that holds no launch or close of its own, before and after, while
\* no driver changes hands.
LEMMA StillLife ==
    ASSUME LifeInv, NEW c \in Callers, ~Closes(c), pc[c] # "launching",
           ~Closes(c)', pc'[c] # "launching", OthersStay(c),
           UNCHANGED <<registry, phase, chatOf, sweepDrv>>
    PROVE  Owned'
  <1>1. ASSUME NEW b \in Callers, Closes(b)' \/ pc'[b] = "launching"
        PROVE  b # c /\ pc'[b] = pc[b] /\ drv'[b] = drv[b] /\ chat'[b] = chat[b]
    BY <1>1 DEF OthersStay
  <1>2. LaunchOwned' BY <1>1 DEF LifeInv, LaunchOwned
  <1>3. CloseOwned' BY <1>1 DEF LifeInv, CloseOwned, Closes
  <1> QED BY <1>2, <1>3 DEF Owned, LifeInv, RegisteredIsUp, Warm

LEMMA CallerLife ==
    ASSUME LifeInv, NEW c \in Callers, CallerStep(c) PROVE LifeInv'
  <1> SUFFICES Owned'
    BY CallerType DEF LifeInv, Owned
  <1>1. /\ registry \in [Chats -> Drivers \cup {NoDriver}] /\ phase \in [Drivers -> Phases]
        /\ drv \in [Callers -> Drivers \cup {NoDriver}]
        /\ pc \in [Callers -> Steps] /\ chat \in [Callers -> Chats \cup {NoChat}]
        /\ \A b \in Callers : pc[b] \notin {"idle", "waiting"} => drv[b] \in Drivers
        /\ \A b \in Callers : pc[b] # "idle" => chat[b] \in Chats
    BY DEF LifeInv, TypeInv, TypeOK, DriverOfStep
  \* The parts of get_or_create, before the lock and under it.
  <1>2. ASSUME NEW s \in Chats, pc[c] \in {"idle", "waiting"}, chat'[c] = s,
               \A b \in Callers \ {c} : chat'[b] = chat[b], UNCHANGED sweepVars
        PROVE  /\ Live(s) /\ Attach(c, registry[s]) /\ UNCHANGED <<registry, phase, chatOf>>
                    => Owned'
               /\ Gone(s) /\ FindGone(c, s) => Owned'
               /\ \A locks : EvictOrLaunch(c, s, locks) => Owned'
    <2>1. ~Closes(c) /\ pc[c] # "launching" /\ sweepDrv' = sweepDrv
      BY <1>2 DEF Closes, sweepVars
    <2>2. ASSUME Attach(c, registry[s]), UNCHANGED <<registry, phase, chatOf>> PROVE Owned'
      <3>1. pc'[c] = "using" /\ OthersStay(c) BY <1>1, <1>2, <2>2 DEF Attach, OthersStay
      <3> QED BY <2>1, <2>2, <3>1, StillLife DEF Closes
    <2>3. ASSUME Gone(s), FindGone(c, s) PROVE Owned'
      <3>1. s \in Warm BY <2>3 DEF Gone, Warm
      <3>2. pc'[c] = "reporting" /\ drv'[c] = registry[s] /\ OthersStay(c)
        BY <1>1, <1>2, <2>3 DEF FindGone, OthersStay
      <3> QED BY <2>1, <2>3, <3>1, <3>2, PopLife DEF FindGone, PopSession
    <2>4. ASSUME NEW locks, EvictOrLaunch(c, s, locks) PROVE Owned'
      <3>1. CASE StartLaunch(c, s, phase, chatOf) /\ UNCHANGED registry
        BY <3>1, <1>2, <2>1, StartLife
      <3>2. ASSUME NEW v \in Victims, PopSession(v, locks, phase),
                   drv' = [drv EXCEPT ![c] = registry[v]],
                   pc' = [pc EXCEPT ![c] = "evicting"], UNCHANGED chatOf
            PROVE  Owned'
        <4>1. v \in Warm BY DEF Victims, Evictable
        <4>2. pc'[c] = "evicting" /\ drv'[c] = registry[v] /\ OthersStay(c)
          BY <1>1, <1>2, <3>2 DEF OthersStay
        <4> QED BY <2>1, <3>2, <4>1, <4>2, PopLife DEF PopSession
      <3> QED BY <2>4, <3>1, <3>2 DEF EvictOrLaunch
    <2> QED BY <2>2, <2>3, <2>4
  <1>3. ASSUME NEW s \in Chats, Call(c, s) PROVE Owned'
    <2>1. /\ pc[c] = "idle" /\ chat'[c] = s /\ UNCHANGED sweepVars
          /\ \A b \in Callers \ {c} : chat'[b] = chat[b]
      BY <1>1, <1>3 DEF Call
    <2>2. CASE pc' = [pc EXCEPT ![c] = "waiting"] /\ UNCHANGED <<registry, drv, phase, chatOf>>
      <3>1. pc'[c] = "waiting" /\ OthersStay(c) BY <1>1, <2>1, <2>2 DEF OthersStay
      <3> QED BY <2>1, <2>2, <3>1, StillLife DEF Closes, sweepVars
    <2> QED BY <1>2, <1>3, <2>1, <2>2 DEF Call
  <1>4. CASE Granted(c)
    <2>1. /\ pc[c] = "waiting" /\ chat[c] \in Chats /\ chat' = chat /\ UNCHANGED sweepVars
      BY <1>1, <1>4 DEF Granted
    <2> QED BY <1>2, <1>4, <2>1 DEF Granted
  <1>5. CASE RaiseGone(c)
    <2>1. Closes(c) /\ pc'[c] = "idle" /\ OthersStay(c)
      BY <1>1, <1>5 DEF RaiseGone, Return, OthersStay, Closes
    <2>2. PICK end \in Ends : phase' = After(drv[c], end) /\ chatOf' = IdAfter(drv[c], end)
      BY <1>5 DEF RaiseGone, Closed
    <2>3. end \in {"down", "aborted"} BY EndsKnown
    <2> QED BY <1>5, <2>1, <2>2, <2>3, DownLife DEF RaiseGone, sweepVars
  <1>6. CASE Evicted(c)
    <2>1. Closes(c) /\ pc[c] # "launching" /\ chat[c] \in Chats /\ chat' = chat
      BY <1>1, <1>6 DEF Evicted, Closes
    <2>2. PICK end \in Ends : StartLaunch(c, chat[c], After(drv[c], end), IdAfter(drv[c], end))
      BY <1>6 DEF Evicted
    <2>3. end \in {"down", "aborted"} BY EndsKnown
    <2> QED BY <1>6, <2>1, <2>2, <2>3, StartLife DEF Evicted, sweepVars
  <1>7. CASE TakeProfile(c)
    <2>1. /\ pc[c] = "launching" /\ phase[drv[c]] = "launching" /\ drv[c] \in Drivers
          /\ phase' = [phase EXCEPT ![drv[c]] = "starting"]
          /\ UNCHANGED <<registry, pc, chat, drv, chatOf, sweepDrv>>
      BY <1>1, <1>7 DEF TakeProfile, callerVars, sweepVars
    <2>2. RegisteredIsUp' BY <1>1, <2>1 DEF LifeInv, RegisteredIsUp, Warm
    <2>3. LaunchOwned' BY <1>1, <2>1 DEF LifeInv, LaunchOwned
    <2>4. CloseOwned'
      BY <1>1, <2>1 DEF LifeInv, CloseOwned, Closes, TypeInv, TypeOK
    <2> QED BY <2>2, <2>3, <2>4 DEF Owned
  <1>8. CASE LaunchFails(c)
    <2>1. pc[c] = "launching" /\ pc'[c] = "idle" /\ OthersStay(c)
      BY <1>1, <1>8 DEF LaunchFails, Return, OthersStay
    <2> QED BY <1>8, <2>1, DownLife DEF LaunchFails, sweepVars
  <1>9. CASE Launched(c)
    <2>1. /\ pc[c] = "launching" /\ phase[drv[c]] = "starting" /\ drv[c] \in Drivers
          /\ chat[c] \in Chats
          /\ phase' = [phase EXCEPT ![drv[c]] = "open"]
          /\ registry' = [registry EXCEPT ![chat[c]] = drv[c]]
          /\ pc' = [pc EXCEPT ![c] = "using"]
          /\ drv' = [drv EXCEPT ![c] = drv[c]]
          /\ UNCHANGED <<chat, chatOf, sweepDrv>>
      BY <1>1, <1>9 DEF Launched, Attach, sweepVars
    <2>2. chatOf[drv[c]] = chat[c]
          /\ \A b \in Callers \ {c} : pc[b] = "launching" => drv[b] # drv[c]
      BY <2>1 DEF LifeInv, LaunchOwned
    <2>3. RegisteredIsUp'
      BY <1>1, <2>1, <2>2 DEF LifeInv, RegisteredIsUp, Warm
    <2>4. LaunchOwned'
      BY <1>1, <2>1, <2>2 DEF LifeInv, LaunchOwned
    <2>5. CloseOwned'
      <3>1. ASSUME NEW b \in Callers, Closes(b)'
            PROVE  Closes(b) /\ drv'[b] = drv[b] /\ drv[b] \in Drivers \ {drv[c]}
        BY <1>1, <2>1, <3>1 DEF Closes, LifeInv, CloseOwned
      <3>2. sweepDrv' # NoDriver => phase'[sweepDrv'] = "closing"
        BY <1>1, <2>1 DEF LifeInv, CloseOwned, TypeInv, TypeOK
      <3>3. \A b \in Callers : Closes(b)' => phase'[drv'[b]] = "closing" /\ drv'[b] # sweepDrv'
        BY <1>1, <2>1, <3>1 DEF LifeInv, CloseOwned
      <3> QED BY <3>1, <3>2, <3>3 DEF LifeInv, CloseOwned, Closes
    <2> QED BY <2>3, <2>4, <2>5 DEF Owned
  <1>10. CASE ViewerActs(c)
    BY <1>10 DEF ViewerActs, callerVars, sweepVars, LifeInv, Owned, RegisteredIsUp, Warm,
                 LaunchOwned, CloseOwned, Closes
  <1>11. CASE EndSession(c)
    <2>1. /\ pc[c] = "using" /\ chat[c] \in Warm /\ drv[c] = registry[chat[c]]
      BY <1>1, <1>11, NoneAssumption DEF EndSession, Warm
    <2>2. /\ pc'[c] = "ending" /\ drv'[c] = registry[chat[c]] /\ OthersStay(c)
          /\ sweepDrv' = sweepDrv /\ chatOf' = chatOf
      BY <1>1, <1>11, <2>1 DEF EndSession, OthersStay, sweepVars
    <2> QED BY <1>11, <2>1, <2>2, PopLife DEF EndSession, PopSession, Closes
  <1>12. CASE SessionEnded(c)
    <2>1. Closes(c) /\ pc'[c] = "idle" /\ OthersStay(c)
      BY <1>1, <1>12 DEF SessionEnded, CountOut, Return, OthersStay, Closes
    <2>2. PICK end \in Ends : phase' = After(drv[c], end) /\ chatOf' = IdAfter(drv[c], end)
      BY <1>12 DEF SessionEnded, Closed
    <2>3. end \in {"down", "aborted"} BY EndsKnown
    <2> QED BY <1>12, <2>1, <2>2, <2>3, DownLife DEF SessionEnded, sweepVars
  <1>13. CASE Leave(c)
    <2>1. pc[c] = "using" /\ pc'[c] = "idle" /\ OthersStay(c)
      BY <1>1, <1>13 DEF Leave, CountOut, Return, OthersStay
    <2> QED BY <1>13, <2>1, StillLife DEF Leave, Closes, sweepVars
  <1> QED BY <1>3, <1>4, <1>5, <1>6, <1>7, <1>8, <1>9, <1>10, <1>11, <1>12, <1>13 DEF CallerStep

\* One turn of a sweep: the driver it was closing, if any, ends as `ph` says,
\* and the next one is popped.
LEMMA CloseNextLife ==
    ASSUME LifeInv, NEW list \in SUBSET Chats, NEW ph \in [Drivers -> Phases],
           CloseNext(list, ph),
           \A d \in Drivers : d # sweepDrv => ph[d] = phase[d],
           ph # phase => sweepDrv # NoDriver,
           \A d \in Drivers : d # sweepDrv => chatOf'[d] = chatOf[d],
           UNCHANGED <<pc, chat, drv>>, sweepDrv = NoDriver \/ sweepDrv' # sweepDrv
    PROVE  Owned'
  <1>1. /\ registry \in [Chats -> Drivers \cup {NoDriver}] /\ phase \in [Drivers -> Phases]
        /\ sweepDrv \in Drivers \cup {NoDriver}
        /\ \A b \in Callers : pc[b] \notin {"idle", "waiting"} => drv[b] \in Drivers
    BY DEF LifeInv, TypeInv, TypeOK, DriverOfStep
  <1>2. sweepDrv # NoDriver => phase[sweepDrv] = "closing"
    BY DEF LifeInv, CloseOwned
  <1>3. \A t \in Warm : registry[t] \in Drivers /\ registry[t] # sweepDrv
    BY PopOwns
  <1>4. \A b \in Callers : Closes(b) \/ pc[b] = "launching"
                              => drv[b] \in Drivers /\ drv[b] # sweepDrv
    <2> SUFFICES ASSUME NEW b \in Callers, Closes(b) \/ pc[b] = "launching"
                 PROVE  drv[b] \in Drivers /\ drv[b] # sweepDrv
      OBVIOUS
    <2>1. drv[b] \in Drivers BY <1>1 DEF Closes
    <2>2. CASE Closes(b) BY <2>1, <2>2 DEF LifeInv, CloseOwned
    <2>3. CASE pc[b] = "launching"
      BY <1>2, <2>1, <2>3, NoneAssumption DEF LifeInv, LaunchOwned
    <2> QED BY <2>1, <2>2, <2>3
  <1>5. ASSUME NEW s \in list \cap Warm,
               registry' = [registry EXCEPT ![s] = NoDriver],
               phase' = [ph EXCEPT ![registry[s]] = "closing"],
               sweepDrv' = registry[s]
        PROVE  Owned'
    <2> DEFINE d == registry[s]
    <2>1. /\ d \in Drivers
          /\ \A b \in Callers : Closes(b) \/ pc[b] = "launching" => drv[b] # d
          /\ \A t \in Warm \ {s} : registry[t] # d
      BY PopOwns
    <2>2. /\ phase'[d] = "closing"
          /\ \A e \in Drivers : e # d /\ e # sweepDrv => phase'[e] = phase[e]
      BY <1>5, <2>1
    <2>3. sweepDrv' = d BY <1>5
    <2> HIDE DEF d
    <2>4. RegisteredIsUp'
      <3> SUFFICES ASSUME NEW t \in Chats, registry'[t] # NoDriver
                   PROVE  phase'[registry'[t]] \in {"open", "gone"} /\ chatOf'[registry'[t]] = t
        BY DEF RegisteredIsUp, Warm
      <3>1. t # s /\ registry'[t] = registry[t] /\ t \in Warm BY <1>1, <1>5 DEF Warm
      <3>2. registry[t] # d /\ registry[t] \in Drivers /\ registry[t] # sweepDrv
        BY <3>1, <2>1, <1>3
      <3> QED BY <3>1, <3>2, <2>2 DEF LifeInv, RegisteredIsUp
    <2>5. LaunchOwned' BY <1>4, <2>1, <2>2 DEF LifeInv, LaunchOwned
    <2>6. CloseOwned'
      BY <1>4, <2>1, <2>2, <2>3 DEF LifeInv, CloseOwned, Closes
    <2> QED BY <2>4, <2>5, <2>6 DEF Owned
  <1>6. ASSUME UNCHANGED registry, phase' = ph, sweepDrv' = NoDriver PROVE Owned'
    <2>1. RegisteredIsUp' BY <1>3, <1>6 DEF LifeInv, RegisteredIsUp, Warm
    <2>2. LaunchOwned' BY <1>4, <1>6 DEF LifeInv, LaunchOwned
    <2>3. CloseOwned' BY <1>1, <1>4, <1>6, NoneAssumption DEF LifeInv, CloseOwned, Closes
    <2> QED BY <2>1, <2>2, <2>3 DEF Owned
  <1> QED BY <1>5, <1>6 DEF CloseNext, PopSession

LEMMA SweepLife == ASSUME LifeInv, SweepStep PROVE LifeInv'
  <1> SUFFICES Owned'
    BY SweepType DEF LifeInv, Owned
  <1>1. /\ phase \in [Drivers -> Phases] /\ chatOf \in [Drivers -> Chats \cup {NoChat}]
        /\ sweepDrv \in Drivers \cup {NoDriver} /\ todo \in SUBSET Chats
        /\ Expired \in SUBSET Chats /\ Warm \in SUBSET Chats
    BY DEF LifeInv, TypeInv, TypeOK, Expired, Warm
  <1>3. ASSUME NEW list, NEW ph, CloseNext(list, ph), sweepDrv # NoDriver
        PROVE  sweepDrv' # sweepDrv
    BY <1>1, <1>3, PopOwns DEF CloseNext, PopSession
  <1>4. CASE ReapIdle
    <2>1. sweepDrv = NoDriver /\ CloseNext(Expired, phase) BY <1>4 DEF ReapIdle
    <2>2. UNCHANGED <<pc, chat, drv, chatOf>> BY <1>4 DEF ReapIdle, callerVars
    <2> QED BY <1>1, <2>1, <2>2, CloseNextLife
  <1>2. ASSUME SweepOn, UNCHANGED <<pc, chat, drv>> PROVE Owned'
    <2>1. PICK end \in Ends : /\ CloseNext(todo, After(sweepDrv, end))
                              /\ chatOf' = IdAfter(sweepDrv, end)
      BY <1>2 DEF SweepOn
    <2>2. /\ After(sweepDrv, end) \in [Drivers -> Phases]
          /\ \A d \in Drivers : d # sweepDrv => /\ After(sweepDrv, end)[d] = phase[d]
                                               /\ chatOf'[d] = chatOf[d]
      BY <2>1, EndsKnown, AfterType DEF LifeInv, TypeInv
    <2>3. After(sweepDrv, end) # phase => sweepDrv # NoDriver
      BY <1>1, EndsKnown, AfterType, NoneAssumption DEF LifeInv, TypeInv
    <2> HIDE DEF Owned
    <2> QED BY <1>1, <1>2, <1>3, <2>1, <2>2, <2>3, CloseNextLife
  <1>5. CASE ReapNext
    BY <1>2, <1>5 DEF ReapNext, callerVars
  <1>6. CASE Shutdown
    <2>1. CASE sweepDrv = NoDriver
      BY <1>1, <1>6, <2>1, CloseNextLife DEF Shutdown, callerVars
    <2>2. CASE sweepDrv # NoDriver
      <3>1. /\ After(sweepDrv, "aborted") \in [Drivers -> Phases]
            /\ \A d \in Drivers : d # sweepDrv => After(sweepDrv, "aborted")[d] = phase[d]
        BY AfterType DEF LifeInv, TypeInv
      <3> QED BY <1>1, <1>3, <1>6, <2>2, <3>1, CloseNextLife DEF Shutdown, callerVars
    <2> QED BY <2>1, <2>2
  <1>7. CASE CloseAllNext
    BY <1>2, <1>7 DEF CloseAllNext, callerVars
  <1> QED BY <1>4, <1>5, <1>6, <1>7 DEF SweepStep

LEMMA StepLife == LifeInv /\ [Next]_vars => LifeInv'
  <1> SUFFICES ASSUME LifeInv, [Next]_vars PROVE LifeInv'
    OBVIOUS
  <1>1. ASSUME NEW c \in Callers, CallerStep(c) PROVE LifeInv'
    BY <1>1, CallerLife
  <1>2. CASE SweepStep BY <1>2, SweepLife
  <1>3. ASSUME NEW d \in Drivers, BrowserLeaves(d) PROVE LifeInv'
    <2>1. TypeInv'
      BY <1>3 DEF BrowserLeaves, LifeInv, TypeInv, TypeOK, DriverOfStep, Phases, callerVars, sweepVars
    <2>2. /\ phase \in [Drivers -> Phases] /\ phase[d] = "open"
          /\ phase' = [phase EXCEPT ![d] = "gone"]
          /\ UNCHANGED <<registry, pc, chat, drv, chatOf, sweepDrv>>
      BY <1>3 DEF BrowserLeaves, LifeInv, TypeInv, TypeOK, callerVars, sweepVars
    <2>3. RegisteredIsUp' BY <2>2 DEF LifeInv, RegisteredIsUp, Warm, TypeInv, TypeOK
    <2>4. LaunchOwned' BY <2>2 DEF LifeInv, LaunchOwned
    <2>5. CloseOwned' BY <2>2 DEF LifeInv, CloseOwned, Closes, TypeInv, TypeOK
    <2> QED BY <2>1, <2>3, <2>4, <2>5 DEF LifeInv
  <1>4. CASE Tick
    <2>1. TypeInv'
      BY <1>4, BoundsAssumption DEF Tick, LifeInv, TypeInv, TypeOK, DriverOfStep, callerVars, sweepVars
    <2> QED BY <1>4, <2>1 DEF Tick, callerVars, sweepVars, LifeInv, RegisteredIsUp, Warm,
                              LaunchOwned, CloseOwned, Closes
  <1>5. CASE UNCHANGED vars
    BY <1>5 DEF vars, LifeInv, TypeInv, TypeOK, DriverOfStep, RegisteredIsUp, Warm,
                LaunchOwned, CloseOwned, Closes
  <1> QED BY <1>1, <1>2, <1>3, <1>4, <1>5 DEF Next

LEMMA LifeCorrect == Spec => []LifeInv
  BY InitLife, StepLife, PTL DEF Spec

\* get_or_create never hands out a browser that somebody has begun to close:
\* what is registered is up and of its id, in every mode.
THEOREM SessionsUsable == Spec => []RegisteredIsUp
  BY LifeCorrect, PTL DEF LifeInv

\* No two callers report the same browser gone, in every mode.
THEOREM GoneOnce == Spec => []GoneReportedOnce
  <1>1. LifeInv => GoneReportedOnce
    BY DEF LifeInv, CloseOwned, Closes, GoneReportedOnce
  <1> QED BY <1>1, LifeCorrect, PTL

-----------------------------------------------------------------------------
(* With a profile the flock leaves one owner per id, so that registering a   *)
(* browser never overwrites another: nothing that is up gets lost, although  *)
(* close() drops locks that launches of the same id still go through.        *)

Owns(d) == phase[d] \in {"starting", "open", "gone", "closing", "aborted"}

OneOwner ==
    /\ \A d \in Drivers : Owns(d) => chatOf[d] \in Chats
    /\ \A d, e \in Drivers : Owns(d) /\ Owns(e) /\ chatOf[d] = chatOf[e] => d = e

ProfileInv == LifeInv /\ OneOwner /\ OpenIsRegistered

\* Steps after which nobody owns a profile who did not before, and what is up
\* was up and registered, and still is.
NoNewOwner ==
    /\ \A d \in Drivers : Owns(d)' => Owns(d) /\ chatOf'[d] = chatOf[d]
    /\ \A d \in Drivers : phase'[d] \in {"open", "gone"} =>
          /\ phase[d] \in {"open", "gone"}
          /\ registry'[chatOf[d]] = registry[chatOf[d]]

LEMMA NoNewOwnerProfile == ASSUME ProfileInv, NoNewOwner PROVE (OneOwner /\ OpenIsRegistered)'
  <1>1. \A d \in Drivers : Owns(d)' => Owns(d) /\ chatOf'[d] = chatOf[d]
    BY DEF NoNewOwner
  <1>2. OneOwner' BY <1>1 DEF ProfileInv, OneOwner
  <1>3. ASSUME NEW d \in Drivers, phase'[d] \in {"open", "gone"}
        PROVE  chatOf'[d] \in Chats /\ registry'[chatOf'[d]] = d
    <2>1. chatOf'[d] = chatOf[d] BY <1>1, <1>3 DEF Owns
    <2> QED BY <2>1, <1>3 DEF NoNewOwner, ProfileInv, OpenIsRegistered
  <1> QED BY <1>2, <1>3 DEF OpenIsRegistered

\* Popping a session, after ph has at most taken owners away.
LEMMA PopProfile ==
    ASSUME ProfileInv, NEW s \in Warm, NEW ph \in [Drivers -> Phases], NEW locks,
           PopSession(s, locks, ph),
           \A d \in Drivers : ph[d] = phase[d] \/ ph[d] \in {"down", "launching"}
                                \/ (ph[d] = "aborted" /\ phase[d] = "closing"),
           \A d \in Drivers : Owns(d)' => chatOf'[d] = chatOf[d]
    PROVE  NoNewOwner
  <1>1. /\ registry[s] \in Drivers /\ phase[registry[s]] \in {"open", "gone"}
        /\ chatOf[registry[s]] = s /\ s \in Chats
        /\ registry \in [Chats -> Drivers \cup {NoDriver}]
    BY PopOwns DEF ProfileInv, LifeInv, TypeInv, TypeOK, Warm
  <1>2. phase' = [ph EXCEPT ![registry[s]] = "closing"]
        /\ registry' = [registry EXCEPT ![s] = NoDriver]
    BY DEF PopSession
  <1>3. ASSUME NEW d \in Drivers, Owns(d)' PROVE Owns(d)
    BY <1>1, <1>2, <1>3 DEF Owns
  <1>4. ASSUME NEW d \in Drivers, phase'[d] \in {"open", "gone"}
        PROVE  /\ phase[d] \in {"open", "gone"}
               /\ registry'[chatOf[d]] = registry[chatOf[d]]
    <2>1. d # registry[s] /\ phase[d] \in {"open", "gone"} BY <1>1, <1>2, <1>4
    <2>2. chatOf[d] \in Chats /\ registry[chatOf[d]] = d
      BY <2>1 DEF ProfileInv, OpenIsRegistered
    <2>3. chatOf[d] # s BY <2>1, <2>2
    <2> QED BY <2>1, <2>2, <2>3, <1>1, <1>2
  <1> QED BY <1>3, <1>4 DEF NoNewOwner

LEMMA StartProfile ==
    ASSUME ProfileInv, NEW c, NEW s \in Chats, NEW ph, NEW ids,
           StartLaunch(c, s, ph, ids), registry' = registry,
           \/ ph = phase /\ ids = chatOf
           \/ \E e \in Drivers, end \in {"down", "aborted"} :
                 phase[e] = "closing" /\ ph = After(e, end) /\ ids = IdAfter(e, end)
    PROVE  NoNewOwner
  <1>1. phase \in [Drivers -> Phases] /\ chatOf \in [Drivers -> Chats \cup {NoChat}]
    BY DEF ProfileInv, LifeInv, TypeInv, TypeOK
  <1>2. PICK d \in Drivers : phase' = [ph EXCEPT ![d] = "launching"]
                             /\ chatOf' = [ids EXCEPT ![d] = s]
    BY DEF StartLaunch, FreshDrivers
  <1>3. ASSUME NEW e \in Drivers
        PROVE  \/ phase'[e] \in {"launching", "down"}
               \/ /\ phase'[e] = phase[e] \/ (phase'[e] = "aborted" /\ phase[e] = "closing")
                  /\ chatOf'[e] = chatOf[e]
    <2>0. /\ ph \in [Drivers -> Phases] /\ ids \in [Drivers -> Chats \cup {NoChat}]
      BY <1>1, AfterType DEF ProfileInv, LifeInv, TypeInv
    <2>1. e # d => phase'[e] = ph[e] /\ chatOf'[e] = ids[e]
      BY <2>0, <1>2
    <2>2. e = d => phase'[e] = "launching"
      BY <2>0, <1>2
    <2>3. \/ ph[e] = "down"
          \/ /\ ph[e] = phase[e] \/ (ph[e] = "aborted" /\ phase[e] = "closing")
             /\ ids[e] = chatOf[e]
      BY <1>1, AfterType DEF ProfileInv, LifeInv, TypeInv
    <2> QED BY <2>1, <2>2, <2>3
  <1> QED BY <1>3 DEF NoNewOwner, Owns

LEMMA DownProfile ==
    ASSUME ProfileInv, NEW e \in Drivers, NEW end \in {"down", "aborted"},
           end = "down" \/ phase[e] = "closing",
           phase' = After(e, end), chatOf' = IdAfter(e, end), registry' = registry
    PROVE  NoNewOwner
  <1>1. phase \in [Drivers -> Phases] /\ chatOf \in [Drivers -> Chats \cup {NoChat}]
    BY DEF ProfileInv, LifeInv, TypeInv, TypeOK
  <1>2. ASSUME NEW d \in Drivers
        PROVE  \/ phase'[d] = "down"
               \/ /\ phase'[d] = phase[d] \/ (phase'[d] = "aborted" /\ phase[d] = "closing")
                  /\ chatOf'[d] = chatOf[d]
    BY <1>1, AfterType DEF ProfileInv, LifeInv, TypeInv
  <1> QED BY <1>2 DEF NoNewOwner, Owns

LEMMA CallerProfile ==
    ASSUME Mode = "profile", ProfileInv, NEW c \in Callers, CallerStep(c)
    PROVE  (OneOwner /\ OpenIsRegistered)'
  <1>1. /\ registry \in [Chats -> Drivers \cup {NoDriver}] /\ phase \in [Drivers -> Phases]
        /\ \A b \in Callers : pc[b] \notin {"idle", "waiting"} => drv[b] \in Drivers
        /\ \A b \in Callers : pc[b] # "idle" => chat[b] \in Chats
    BY DEF ProfileInv, LifeInv, TypeInv, TypeOK, DriverOfStep
  <1>2. ASSUME NEW s \in Chats
        PROVE  /\ UNCHANGED <<registry, phase, chatOf>> => NoNewOwner
               /\ Gone(s) /\ FindGone(c, s) => NoNewOwner
               /\ \A locks : EvictOrLaunch(c, s, locks) => NoNewOwner
    <2>1. UNCHANGED <<registry, phase, chatOf>> => NoNewOwner
      BY DEF NoNewOwner, Owns
    <2>2. ASSUME Gone(s), FindGone(c, s) PROVE NoNewOwner
      <3>1. s \in Warm BY <2>2 DEF Gone, Warm
      <3> QED BY <1>1, <2>2, <3>1, PopProfile DEF FindGone
    <2>3. ASSUME NEW locks, EvictOrLaunch(c, s, locks) PROVE NoNewOwner
      <3>1. CASE StartLaunch(c, s, phase, chatOf) /\ UNCHANGED registry
        BY <3>1, StartProfile
      <3>2. ASSUME NEW v \in Victims, PopSession(v, locks, phase), UNCHANGED chatOf
            PROVE  NoNewOwner
        <4>1. v \in Warm BY DEF Victims, Evictable
        <4> QED BY <1>1, <3>2, <4>1, PopProfile
      <3> QED BY <2>3, <3>1, <3>2 DEF EvictOrLaunch
    <2> QED BY <2>1, <2>2, <2>3
  <1>3. ASSUME NEW s \in Chats, Call(c, s) PROVE NoNewOwner
    BY <1>2, <1>3 DEF Call
  <1>4. ASSUME Granted(c) PROVE NoNewOwner
    <2>1. chat[c] \in Chats BY <1>1, <1>4 DEF Granted
    <2> QED BY <1>2, <1>4, <2>1 DEF Granted
  <1>5. ASSUME RaiseGone(c) PROVE NoNewOwner
    <2>1. drv[c] \in Drivers BY <1>1, <1>5 DEF RaiseGone
    <2>2. PICK end \in Ends : phase' = After(drv[c], end) /\ chatOf' = IdAfter(drv[c], end)
      BY <1>5 DEF RaiseGone, Closed
    <2>3. end \in {"down", "aborted"} /\ phase[drv[c]] = "closing"
      BY <1>5, EndsKnown DEF RaiseGone, ProfileInv, LifeInv, CloseOwned, Closes
    <2> QED BY <1>5, <2>1, <2>2, <2>3, DownProfile DEF RaiseGone
  <1>6. ASSUME Evicted(c) PROVE NoNewOwner
    <2>1. chat[c] \in Chats /\ drv[c] \in Drivers BY <1>1, <1>6 DEF Evicted
    <2>2. PICK end \in Ends : StartLaunch(c, chat[c], After(drv[c], end), IdAfter(drv[c], end))
      BY <1>6 DEF Evicted
    <2>3. end \in {"down", "aborted"} /\ phase[drv[c]] = "closing"
      BY <1>6, EndsKnown DEF Evicted, ProfileInv, LifeInv, CloseOwned, Closes
    <2> QED BY <1>6, <2>1, <2>2, <2>3, StartProfile DEF Evicted
  <1>7. ASSUME LaunchFails(c) PROVE NoNewOwner
    <2>1. drv[c] \in Drivers BY <1>1, <1>7 DEF LaunchFails
    <2> QED BY <1>7, <2>1, DownProfile DEF LaunchFails
  <1>8. ASSUME EndSession(c) PROVE NoNewOwner
    <2>1. chat[c] \in Warm BY <1>1, <1>8, NoneAssumption DEF EndSession, Warm
    <2> QED BY <1>1, <1>8, <2>1, PopProfile DEF EndSession
  <1>9. ASSUME SessionEnded(c) PROVE NoNewOwner
    <2>1. drv[c] \in Drivers BY <1>1, <1>9 DEF SessionEnded
    <2>2. PICK end \in Ends : phase' = After(drv[c], end) /\ chatOf' = IdAfter(drv[c], end)
      BY <1>9 DEF SessionEnded, Closed
    <2>3. end \in {"down", "aborted"} /\ phase[drv[c]] = "closing"
      BY <1>9, EndsKnown DEF SessionEnded, ProfileInv, LifeInv, CloseOwned, Closes
    <2> QED BY <1>9, <2>1, <2>2, <2>3, DownProfile DEF SessionEnded
  <1>10. ASSUME ViewerActs(c) \/ Leave(c) PROVE NoNewOwner
    BY <1>10 DEF ViewerActs, Leave, NoNewOwner, Owns
  \* The launch takes the flock of an id that has no owner.
  <1>11. CASE TakeProfile(c)
    <2>1. /\ drv[c] \in Drivers /\ phase[drv[c]] = "launching" /\ chatOf[drv[c]] = chat[c]
          /\ chat[c] \in Chats
          /\ phase' = [phase EXCEPT ![drv[c]] = "starting"]
          /\ UNCHANGED <<registry, chatOf>>
      BY <1>1, <1>11 DEF TakeProfile, ProfileInv, LifeInv, LaunchOwned
    <2>2. \A d \in Drivers : Owns(d) => chatOf[d] # chat[c]
      BY <1>11 DEF TakeProfile, ProfileHeld, Owns
    <2>3. \A d \in Drivers : Owns(d)' => Owns(d) \/ d = drv[c]
      BY <1>1, <2>1 DEF Owns
    <2>4. OneOwner' BY <2>1, <2>2, <2>3 DEF ProfileInv, OneOwner
    <2>5. OpenIsRegistered' BY <1>1, <2>1 DEF ProfileInv, OpenIsRegistered
    <2> QED BY <2>4, <2>5
  \* The browser is registered where nothing was: what was there would own the
  \* same profile.
  <1>12. CASE Launched(c)
    <2>1. /\ drv[c] \in Drivers /\ phase[drv[c]] = "starting" /\ chatOf[drv[c]] = chat[c]
          /\ chat[c] \in Chats
          /\ phase' = [phase EXCEPT ![drv[c]] = "open"]
          /\ registry' = [registry EXCEPT ![chat[c]] = drv[c]]
          /\ UNCHANGED chatOf
      BY <1>1, <1>12 DEF Launched, ProfileInv, LifeInv, LaunchOwned
    <2>2. \A d \in Drivers : Owns(d)' => Owns(d)
      BY <1>1, <2>1 DEF Owns
    <2>3. OneOwner' BY <2>1, <2>2 DEF ProfileInv, OneOwner
    <2>4. \A d \in Drivers : Owns(d) /\ chatOf[d] = chat[c] => d = drv[c]
      BY <2>1 DEF ProfileInv, OneOwner, Owns
    <2>5. ASSUME NEW d \in Drivers, phase'[d] \in {"open", "gone"}
          PROVE  chatOf'[d] \in Chats /\ registry'[chatOf'[d]] = d
      <3>1. CASE d = drv[c] BY <1>1, <2>1, <3>1
      <3>2. CASE d # drv[c]
        <4>1. phase[d] \in {"open", "gone"} BY <1>1, <2>1, <2>5, <3>2
        <4>2. chatOf[d] \in Chats /\ registry[chatOf[d]] = d
          BY <4>1 DEF ProfileInv, OpenIsRegistered
        <4>3. chatOf[d] # chat[c] BY <2>4, <3>2, <4>1 DEF Owns
        <4> QED BY <1>1, <2>1, <4>2, <4>3
      <3> QED BY <3>1, <3>2
    <2> QED BY <2>3, <2>5 DEF OpenIsRegistered
  <1> QED BY <1>3, <1>4, <1>5, <1>6, <1>7, <1>8, <1>9, <1>10, <1>11, <1>12,
             NoNewOwnerProfile DEF CallerStep

LEMMA SweepProfile ==
    ASSUME ProfileInv, SweepStep PROVE (OneOwner /\ OpenIsRegistered)'
  <1>1. /\ phase \in [Drivers -> Phases] /\ chatOf \in [Drivers -> Chats \cup {NoChat}]
        /\ sweepDrv # NoDriver => phase[sweepDrv] = "closing"
        /\ sweepDrv \in Drivers \cup {NoDriver}
    BY DEF ProfileInv, LifeInv, TypeInv, TypeOK, CloseOwned
  <1>2. ASSUME NEW list, NEW ph \in [Drivers -> Phases], CloseNext(list, ph),
               \A d \in Drivers :
                  \/ ph[d] = phase[d] /\ chatOf'[d] = chatOf[d]
                  \/ phase[d] = "closing" /\ ph[d] = "down"
                  \/ phase[d] = "closing" /\ ph[d] = "aborted" /\ chatOf'[d] = chatOf[d]
        PROVE  NoNewOwner
    <2>1. ASSUME NEW s \in list \cap Warm, NEW locks, PopSession(s, locks, ph)
          PROVE  NoNewOwner
      <3>1. registry[s] \in Drivers /\ phase[registry[s]] \in {"open", "gone"}
        BY PopOwns DEF ProfileInv
      <3>2. phase' = [ph EXCEPT ![registry[s]] = "closing"]
        BY <2>1 DEF PopSession
      <3>3. \A d \in Drivers : Owns(d)' => chatOf'[d] = chatOf[d]
        BY <1>2, <3>1, <3>2 DEF Owns
      <3> QED BY <1>2, <2>1, <3>3, PopProfile
    <2>2. ASSUME UNCHANGED registry, phase' = ph PROVE NoNewOwner
      BY <1>2, <2>2 DEF NoNewOwner, Owns
    <2> QED BY <1>2, <2>1, <2>2 DEF CloseNext
  \* A finished close: ReapNext and CloseAllNext.
  <1>3. ASSUME SweepOn PROVE NoNewOwner
    <2>0. PICK end \in Ends : /\ CloseNext(todo, After(sweepDrv, end))
                              /\ chatOf' = IdAfter(sweepDrv, end)
      BY <1>3 DEF SweepOn
    <2>1. After(sweepDrv, end) \in [Drivers -> Phases]
      BY EndsKnown, AfterType DEF ProfileInv, LifeInv, TypeInv
    <2>2. ASSUME NEW d \in Drivers
          PROVE  \/ After(sweepDrv, end)[d] = phase[d] /\ chatOf'[d] = chatOf[d]
                 \/ phase[d] = "closing" /\ After(sweepDrv, end)[d] = "down"
                 \/ /\ phase[d] = "closing" /\ After(sweepDrv, end)[d] = "aborted"
                    /\ chatOf'[d] = chatOf[d]
      BY <1>1, <2>0, EndsKnown, AfterType, NoneAssumption DEF ProfileInv, LifeInv, TypeInv
    <2> QED BY <1>2, <2>0, <2>1, <2>2
  <1>4. ASSUME ReapIdle PROVE NoNewOwner
    BY <1>1, <1>2, <1>4 DEF ReapIdle
  <1>5. ASSUME Shutdown PROVE NoNewOwner
    <2>1. chatOf' = chatOf BY <1>5 DEF Shutdown
    <2>2. CASE sweepDrv = NoDriver
      BY <1>1, <1>2, <1>5, <2>1, <2>2 DEF Shutdown
    <2>3. CASE sweepDrv # NoDriver
      <3>1. /\ After(sweepDrv, "aborted") \in [Drivers -> Phases]
            /\ \A d \in Drivers : IF d = sweepDrv THEN After(sweepDrv, "aborted")[d] = "aborted"
                                  ELSE After(sweepDrv, "aborted")[d] = phase[d]
        BY AfterType DEF ProfileInv, LifeInv, TypeInv
      <3> QED BY <1>1, <1>2, <1>5, <2>1, <2>3, <3>1 DEF Shutdown
    <2> QED BY <2>2, <2>3
  <1> QED BY <1>3, <1>4, <1>5, NoNewOwnerProfile DEF SweepStep, ReapNext, CloseAllNext

\* With persistent profiles every browser that is up is the registered one of
\* its id, where eviction, the reaper and close_all find it.
THEOREM NothingLost == ASSUME Mode = "profile" PROVE Spec => []OpenIsRegistered
  <1>1. Init => ProfileInv
    <2>1. Init => OneOwner /\ OpenIsRegistered
      BY DEF Init, OneOwner, Owns, OpenIsRegistered
    <2> QED BY <2>1, InitLife DEF ProfileInv
  <1>2. ProfileInv /\ [Next]_vars => ProfileInv'
    <2> SUFFICES ASSUME ProfileInv, [Next]_vars PROVE (OneOwner /\ OpenIsRegistered)'
      BY StepLife DEF ProfileInv
    <2>1. ASSUME NEW c \in Callers, CallerStep(c) PROVE (OneOwner /\ OpenIsRegistered)'
      BY <2>1, CallerProfile
    <2>2. CASE SweepStep BY <2>2, SweepProfile
    <2>3. ASSUME NEW d \in Drivers, BrowserLeaves(d) PROVE FALSE
      BY <2>3 DEF BrowserLeaves
    <2>4. CASE Tick \/ UNCHANGED vars
      <3>1. UNCHANGED <<registry, phase, chatOf>> BY <2>4 DEF Tick, vars
      <3>2. NoNewOwner BY <3>1 DEF NoNewOwner, Owns
      <3> QED BY <3>2, NoNewOwnerProfile
    <2> QED BY <2>1, <2>2, <2>3, <2>4 DEF Next
  <1> QED BY <1>1, <1>2, PTL DEF Spec, ProfileInv
-----------------------------------------------------------------------------
(* The locks: each caller is in one queue at most, its head is at work or has *)
(* its turn, and everybody behind it waits.                                   *)

HolderSteps == {"waiting", "reporting", "evicting", "launching"}

HeadWorks ==
    \A l \in Locks : \A i \in DOMAIN queue[l] :
        pc[queue[l][i]] \in IF i = 1 THEN HolderSteps ELSE {"waiting"}
WaiterQueued == \A c \in Callers : pc[c] = "waiting" => \E l \in Locks : Queued(c, l)
QueuedOnce ==
    \A l, m \in Locks : \A i \in DOMAIN queue[l], j \in DOMAIN queue[m] :
        queue[l][i] = queue[m][j] => l = m /\ i = j
LockInv == HeadWorks /\ WaiterQueued /\ QueuedOnce

QueueType == queue \in [Locks -> Seq(Callers)] /\ pc \in [Callers -> Steps]

\* The other callers are at the same step.
OthersWait(c) == \A b \in Callers \ {c} : pc'[b] = pc[b]

\* The caller is in no queue but those it heads.
AtHead(c) == \A l \in Locks : Queued(c, l) => Holds(c, l)

LEMMA QueuedAt ==
    ASSUME QueueType, NEW l \in Locks
    PROVE  /\ DOMAIN queue[l] = 1..Len(queue[l]) /\ Len(queue[l]) \in Nat
           /\ \A i \in DOMAIN queue[l] : queue[l][i] \in Callers
           /\ queue[l] # <<>> => 1 \in DOMAIN queue[l] /\ Head(queue[l]) = queue[l][1]
           /\ queue[l] = <<>> => DOMAIN queue[l] = {}
  BY DEF QueueType

\* Who does not wait is in no queue, or at the head of one.
LEMMA WorkersHead ==
    ASSUME QueueType, LockInv, NEW c \in Callers, pc[c] # "waiting"
    PROVE  AtHead(c) /\ (pc[c] \notin HolderSteps => \A l \in Locks : ~Queued(c, l))
  <1>1. ASSUME NEW l \in Locks, NEW i \in DOMAIN queue[l], queue[l][i] = c
        PROVE  i = 1 /\ pc[c] \in HolderSteps
    BY <1>1 DEF LockInv, HeadWorks
  <1>2. \A l \in Locks : Queued(c, l) => Holds(c, l) /\ pc[c] \in HolderSteps
    BY <1>1, QueuedAt DEF Queued, Holds
  <1> QED BY <1>2 DEF AtHead

\* A caller that got its turn is at the head of its only queue.
LEMMA TurnHead ==
    ASSUME QueueType, LockInv, NEW c \in Callers, NEW l \in Locks, Holds(c, l)
    PROVE  AtHead(c)
  <1>1. 1 \in DOMAIN queue[l] /\ queue[l][1] = c
    BY QueuedAt DEF Holds
  <1>2. ASSUME NEW m \in Locks, NEW i \in DOMAIN queue[m], queue[m][i] = c PROVE m = l
    BY <1>1, <1>2 DEF LockInv, QueuedOnce
  <1> QED BY <1>2 DEF AtHead, Queued

\* A holder goes on with its work, or somebody who is in no queue does anything but wait.
LEMMA QueuesStay ==
    ASSUME QueueType, LockInv, NEW c \in Callers, AtHead(c), OthersWait(c), queue' = queue,
           pc'[c] # "waiting",
           pc'[c] \in HolderSteps \/ \A l \in Locks : ~Queued(c, l)
    PROVE  LockInv'
  <1>1. HeadWorks'
    <2> SUFFICES ASSUME NEW l \in Locks, NEW i \in DOMAIN queue[l]
                 PROVE  pc'[queue[l][i]] \in IF i = 1 THEN HolderSteps ELSE {"waiting"}
      BY DEF HeadWorks
    <2>1. CASE queue[l][i] # c
      <3>1. pc'[queue[l][i]] = pc[queue[l][i]]
        BY <2>1, QueuedAt DEF OthersWait
      <3> QED BY <3>1 DEF LockInv, HeadWorks
    <2>2. CASE queue[l][i] = c
      <3>1. Holds(c, l) /\ pc'[c] \in HolderSteps
        BY <2>2 DEF AtHead, Queued
      <3>2. 1 \in DOMAIN queue[l] /\ queue[l][1] = c
        BY <3>1, QueuedAt DEF Holds
      <3>3. i = 1
        BY <2>2, <3>2 DEF LockInv, QueuedOnce
      <3> QED BY <2>2, <3>1, <3>3
    <2> QED BY <2>1, <2>2
  <1>2. WaiterQueued'
    <2>1. \A b, l : Queued(b, l)' <=> Queued(b, l)
      BY DEF Queued
    <2> QED BY <2>1 DEF LockInv, WaiterQueued, OthersWait
  <1>3. QueuedOnce'
    BY DEF LockInv, QueuedOnce
  <1> QED BY <1>1, <1>2, <1>3 DEF LockInv

\* The lock is given back, and the next in its queue has its turn.
LEMMA LockReleased ==
    ASSUME QueueType, LockInv, NEW c \in Callers, AtHead(c), OthersWait(c),
           queue' = Released(c), pc'[c] # "waiting"
    PROVE  LockInv'
  <1> DEFINE back(l) == IF Holds(c, l) THEN 1 ELSE 0
  <1>1. \A l \in Locks : back(l) \in {0, 1}
    OBVIOUS
  <1>2. ASSUME NEW l \in Locks
        PROVE  /\ \A i \in DOMAIN queue'[l] :
                    /\ i + back(l) \in DOMAIN queue[l]
                    /\ queue'[l][i] = queue[l][i + back(l)]
                    /\ queue'[l][i] # c /\ queue'[l][i] \in Callers
                    /\ i \in Nat /\ i >= 1
               /\ \A i \in DOMAIN queue[l] :
                    queue[l][i] # c => /\ i - back(l) \in DOMAIN queue'[l]
                                       /\ queue'[l][i - back(l)] = queue[l][i]
    <2>0. queue'[l] = IF Holds(c, l) THEN Tail(queue[l]) ELSE queue[l]
      BY DEF Released
    <2>1. CASE Holds(c, l)
      <3>1. /\ queue[l] \in Seq(Callers) /\ queue[l] # <<>> /\ queue'[l] = Tail(queue[l])
            /\ back(l) = 1
        BY <2>0, <2>1 DEF QueueType, Holds
      <3>2. /\ DOMAIN queue'[l] = 1..(Len(queue[l]) - 1) /\ Len(queue[l]) \in Nat \ {0}
            /\ \A i \in 1..(Len(queue[l]) - 1) : queue'[l][i] = queue[l][i + 1]
            /\ DOMAIN queue[l] = 1..Len(queue[l])
        BY <3>1
      <3>3. queue[l][1] = c
        BY <2>1, QueuedAt DEF Holds
      <3>4. \A i \in DOMAIN queue[l] : queue[l][i] = c => i = 1
        <4>1. 1 \in DOMAIN queue[l]
          BY <3>2
        <4> QED BY <3>3, <4>1 DEF LockInv, QueuedOnce
      <3>5. \A i \in DOMAIN queue[l] : queue[l][i] \in Callers
        BY QueuedAt
      <3>6. ASSUME NEW i \in DOMAIN queue'[l]
            PROVE  /\ i \in Nat /\ i >= 1 /\ i + 1 \in DOMAIN queue[l]
                   /\ queue'[l][i] = queue[l][i + 1]
                   /\ queue'[l][i] # c /\ queue'[l][i] \in Callers
        <4>1. i \in Nat /\ i >= 1 /\ i + 1 \in DOMAIN queue[l] /\ i + 1 # 1
          BY <3>2
        <4>2. queue'[l][i] = queue[l][i + 1]
          BY <3>2
        <4> QED BY <4>1, <4>2, <3>4, <3>5
      <3>7. ASSUME NEW i \in DOMAIN queue[l], queue[l][i] # c
            PROVE  i - 1 \in DOMAIN queue'[l] /\ queue'[l][i - 1] = queue[l][i]
        <4>1. i # 1 /\ i \in 1..Len(queue[l])
          BY <3>2, <3>3, <3>7
        <4>2. i - 1 \in 1..(Len(queue[l]) - 1) /\ (i - 1) + 1 = i
          BY <4>1, <3>2
        <4> QED BY <4>2, <3>2
      <3> QED BY <3>1, <3>6, <3>7
    <2>2. CASE ~Holds(c, l)
      <3>1. queue'[l] = queue[l] /\ back(l) = 0
        BY <2>0, <2>2
      <3>2. \A i \in DOMAIN queue[l] : queue[l][i] # c
        BY <2>2 DEF AtHead, Queued
      <3>3. /\ DOMAIN queue[l] = 1..Len(queue[l]) /\ Len(queue[l]) \in Nat
            /\ \A i \in DOMAIN queue[l] : queue[l][i] \in Callers
        BY QueuedAt
      <3>4. \A i \in DOMAIN queue[l] : i \in Nat /\ i >= 1 /\ i + 0 = i /\ i - 0 = i
        BY <3>3
      <3> QED BY <3>1, <3>2, <3>3, <3>4
    <2> QED BY <2>1, <2>2
  <1> HIDE DEF back
  <1>3. HeadWorks'
    <2> SUFFICES ASSUME NEW l \in Locks, NEW i \in DOMAIN queue'[l]
                 PROVE  pc'[queue'[l][i]] \in IF i = 1 THEN HolderSteps ELSE {"waiting"}
      BY DEF HeadWorks
    <2>1. pc'[queue'[l][i]] = pc[queue'[l][i]]
      BY <1>2 DEF OthersWait
    <2>2. pc[queue'[l][i]] \in IF i + back(l) = 1 THEN HolderSteps ELSE {"waiting"}
      BY <1>2 DEF LockInv, HeadWorks
    <2>3. i + back(l) = 1 => i = 1
      BY <1>1, <1>2
    <2>4. "waiting" \in HolderSteps
      BY DEF HolderSteps
    <2> QED BY <2>1, <2>2, <2>3, <2>4
  <1>4. WaiterQueued'
    <2> SUFFICES ASSUME NEW b \in Callers, pc'[b] = "waiting"
                 PROVE  \E l \in Locks : \E i \in DOMAIN queue'[l] : queue'[l][i] = b
      BY DEF WaiterQueued, Queued
    <2>1. b # c /\ pc[b] = "waiting"
      BY DEF OthersWait
    <2>2. PICK l \in Locks : \E i \in DOMAIN queue[l] : queue[l][i] = b
      BY <2>1 DEF LockInv, WaiterQueued, Queued
    <2> QED BY <1>2, <2>1, <2>2
  <1>5. QueuedOnce'
    <2> SUFFICES ASSUME NEW l \in Locks, NEW m \in Locks,
                        NEW i \in DOMAIN queue'[l], NEW j \in DOMAIN queue'[m],
                        queue'[l][i] = queue'[m][j]
                 PROVE  l = m /\ i = j
      BY DEF QueuedOnce
    <2>1. l = m /\ i + back(l) = j + back(m)
      BY <1>2 DEF LockInv, QueuedOnce
    <2>2. i \in Nat /\ j \in Nat /\ back(l) \in {0, 1}
      BY <1>1, <1>2
    <2> QED BY <2>1, <2>2
  <1> QED BY <1>3, <1>4, <1>5 DEF LockInv

\* A caller that is in no queue joins one: it has a free lock at once, or waits.
LEMMA LockJoined ==
    ASSUME QueueType, LockInv, NEW c \in Callers, NEW l \in Locks, OthersWait(c),
           \A m \in Locks : ~Queued(c, m),
           queue' = [queue EXCEPT ![l] = Append(@, c)],
           IF queue[l] = <<>> THEN pc'[c] \in HolderSteps \ {"waiting"} ELSE pc'[c] = "waiting"
    PROVE  LockInv'
  <1> DEFINE n == Len(queue[l]) + 1
  <1>1. /\ DOMAIN queue'[l] = 1..n /\ queue'[l][n] = c /\ n \in Nat \ {0}
        /\ DOMAIN queue[l] = 1..(n - 1)
        /\ \A i \in DOMAIN queue[l] : queue'[l][i] = queue[l][i]
    BY DEF QueueType
  <1>2. \A m \in Locks \ {l} : queue'[m] = queue[m]
    BY DEF QueueType
  <1>3. n = 1 <=> queue[l] = <<>>
    BY DEF QueueType
  <1>4. \A i \in DOMAIN queue'[l] : i # n => i \in DOMAIN queue[l]
    BY <1>1
  <1> HIDE DEF n
  <1>5. \A m \in Locks : \A i \in DOMAIN queue'[m] :
          \/ m = l /\ i = n /\ queue'[m][i] = c
          \/ i \in DOMAIN queue[m] /\ queue'[m][i] = queue[m][i] /\ queue'[m][i] # c
             /\ queue'[m][i] \in Callers
    BY <1>1, <1>2, <1>4, QueuedAt DEF Queued
  <1>6. \A m \in Locks : \A i \in DOMAIN queue[m] :
          i \in DOMAIN queue'[m] /\ queue'[m][i] = queue[m][i]
    BY <1>1, <1>2
  <1>7. HeadWorks'
    <2> SUFFICES ASSUME NEW m \in Locks, NEW i \in DOMAIN queue'[m]
                 PROVE  pc'[queue'[m][i]] \in IF i = 1 THEN HolderSteps ELSE {"waiting"}
      BY DEF HeadWorks
    <2>1. CASE m = l /\ i = n /\ queue'[m][i] = c
      BY <1>3, <2>1
    <2>2. CASE i \in DOMAIN queue[m] /\ queue'[m][i] = queue[m][i] /\ queue'[m][i] # c
               /\ queue'[m][i] \in Callers
      <3>1. pc'[queue'[m][i]] = pc[queue[m][i]]
        BY <2>2 DEF OthersWait
      <3> QED BY <2>2, <3>1 DEF LockInv, HeadWorks
    <2> QED BY <1>5, <2>1, <2>2
  <1>8. WaiterQueued'
    <2> SUFFICES ASSUME NEW b \in Callers, pc'[b] = "waiting"
                 PROVE  \E m \in Locks : \E i \in DOMAIN queue'[m] : queue'[m][i] = b
      BY DEF WaiterQueued, Queued
    <2>1. CASE b = c
      BY <1>1, <2>1
    <2>2. CASE b # c
      <3>1. PICK m \in Locks : \E i \in DOMAIN queue[m] : queue[m][i] = b
        BY <2>2 DEF OthersWait, LockInv, WaiterQueued, Queued
      <3> QED BY <1>6, <3>1
    <2> QED BY <2>1, <2>2
  <1>9. QueuedOnce'
    <2> SUFFICES ASSUME NEW m \in Locks, NEW o \in Locks,
                        NEW i \in DOMAIN queue'[m], NEW j \in DOMAIN queue'[o],
                        queue'[m][i] = queue'[o][j]
                 PROVE  m = o /\ i = j
      BY DEF QueuedOnce
    <2> QED BY <1>5 DEF LockInv, QueuedOnce
  <1> QED BY <1>7, <1>8, <1>9 DEF LockInv

\* Making room or launching leaves the queues alone.
LEMMA StartsWorking ==
    ASSUME QueueType, NEW c \in Callers, NEW s, NEW locks, EvictOrLaunch(c, s, locks)
    PROVE  pc'[c] \in HolderSteps \ {"waiting"} /\ OthersWait(c)
  <1>1. pc' = [pc EXCEPT ![c] = "evicting"] \/ pc' = [pc EXCEPT ![c] = "launching"]
    BY DEF EvictOrLaunch, StartLaunch
  <1> QED BY <1>1 DEF QueueType, OthersWait, HolderSteps

LEMMA CallerLocks ==
    ASSUME TypeInv, LockInv, NEW c \in Callers, CallerStep(c) PROVE LockInv'
  <1>0. QueueType
    BY DEF TypeInv, TypeOK, QueueType
  <1>a. ASSUME NEW p \in Steps, pc' = [pc EXCEPT ![c] = p]
        PROVE  pc'[c] = p /\ OthersWait(c)
    BY <1>0, <1>a DEF QueueType, OthersWait
  <1>b. /\ pc[c] # "waiting" => AtHead(c)
        /\ pc[c] \notin HolderSteps => \A l \in Locks : ~Queued(c, l)
    BY <1>0, WorkersHead DEF HolderSteps
  <1>1. ASSUME NEW s \in Chats, Call(c, s) PROVE LockInv'
    <2>0. pc[c] = "idle" /\ AtHead(c) /\ \A l \in Locks : ~Queued(c, l)
      BY <1>1, <1>b DEF Call, HolderSteps
    <2>1. CASE queue' = queue /\ (Attach(c, registry[s]) \/ FindGone(c, s))
      <3>1. pc'[c] \in {"using", "reporting"} /\ OthersWait(c)
        BY <1>a, <2>1 DEF Attach, FindGone, Steps
      <3> QED BY <1>0, <2>0, <2>1, <3>1, QueuesStay
    <2>2. ASSUME NEW l \in Locks, queue' = [queue EXCEPT ![l] = Append(@, c)],
                 queue[l] = <<>>, EvictOrLaunch(c, s, [lockOf EXCEPT ![s] = l])
          PROVE  LockInv'
      BY <1>0, <2>0, <2>2, StartsWorking, LockJoined
    <2>3. ASSUME NEW l \in Locks, queue' = [queue EXCEPT ![l] = Append(@, c)],
                 queue[l] # <<>>, pc' = [pc EXCEPT ![c] = "waiting"]
          PROVE  LockInv'
      <3>1. pc'[c] = "waiting" /\ OthersWait(c)
        BY <1>a, <2>3 DEF Steps
      <3> QED BY <1>0, <2>0, <2>3, <3>1, LockJoined
    <2> QED BY <1>1, <2>1, <2>2, <2>3 DEF Call, FindGone
  <1>2. CASE Granted(c)
    <2>0. AtHead(c)
      BY <1>0, <1>2, TurnHead DEF Granted
    <2>1. CASE queue' = Released(c) /\ Attach(c, registry[chat[c]])
      <3>1. pc'[c] = "using" /\ OthersWait(c)
        BY <1>a, <2>1 DEF Attach, Steps
      <3> QED BY <1>0, <2>0, <2>1, <3>1, LockReleased
    <2>2. CASE queue' = queue /\ FindGone(c, chat[c])
      <3>1. pc'[c] = "reporting" /\ OthersWait(c)
        BY <1>a, <2>2 DEF FindGone, Steps
      <3> QED BY <1>0, <2>0, <2>2, <3>1, QueuesStay DEF HolderSteps
    <2>3. CASE queue' = queue /\ EvictOrLaunch(c, chat[c], lockOf)
      <3>1. pc'[c] \in HolderSteps \ {"waiting"} /\ OthersWait(c)
        BY <1>0, <2>3, StartsWorking
      <3> QED BY <1>0, <2>0, <2>3, <3>1, QueuesStay
    <2> QED BY <1>2, <2>1, <2>2, <2>3 DEF Granted, FindGone
  <1>3. CASE RaiseGone(c) \/ LaunchFails(c)
    <2>1. pc[c] # "waiting" /\ queue' = Released(c) /\ pc' = [pc EXCEPT ![c] = "idle"]
      BY <1>3 DEF RaiseGone, LaunchFails, Return
    <2>2. pc'[c] = "idle" /\ OthersWait(c)
      BY <1>a, <2>1 DEF Steps
    <2> QED BY <1>0, <1>b, <2>1, <2>2, LockReleased
  <1>4. CASE Launched(c)
    <2>1. pc[c] # "waiting" /\ queue' = Released(c) /\ pc' = [pc EXCEPT ![c] = "using"]
      BY <1>4 DEF Launched, Attach
    <2>2. pc'[c] = "using" /\ OthersWait(c)
      BY <1>a, <2>1 DEF Steps
    <2> QED BY <1>0, <1>b, <2>1, <2>2, LockReleased
  <1>5. CASE Evicted(c)
    <2>1. pc[c] # "waiting" /\ queue' = queue /\ pc' = [pc EXCEPT ![c] = "launching"]
      BY <1>5 DEF Evicted, StartLaunch
    <2>2. pc'[c] = "launching" /\ OthersWait(c)
      BY <1>a, <2>1 DEF Steps
    <2> QED BY <1>0, <1>b, <2>1, <2>2, QueuesStay DEF HolderSteps
  <1>6. CASE TakeProfile(c) \/ ViewerActs(c)
    <2>1. queue' = queue /\ pc' = pc
      BY <1>6 DEF TakeProfile, ViewerActs, callerVars
    <2> QED BY <2>1 DEF LockInv, HeadWorks, WaiterQueued, QueuedOnce, Queued
  <1>7. CASE EndSession(c) \/ SessionEnded(c) \/ Leave(c)
    <2>1. /\ pc[c] \in {"using", "ending"} /\ queue' = queue
          /\ pc' = [pc EXCEPT ![c] = "ending"] \/ pc' = [pc EXCEPT ![c] = "idle"]
      BY <1>7 DEF EndSession, SessionEnded, Leave, CountOut, Return
    <2>2. pc'[c] \in {"ending", "idle"} /\ OthersWait(c)
      BY <1>a, <2>1 DEF Steps
    <2>3. \A l \in Locks : ~Queued(c, l)
      BY <1>b, <2>1 DEF HolderSteps
    <2> QED BY <1>0, <1>b, <2>1, <2>2, <2>3, QueuesStay
  <1> QED BY <1>1, <1>2, <1>3, <1>4, <1>5, <1>6, <1>7 DEF CallerStep

\* In every mode a waiter is in the queue of a lock whose holder works for its release
\* and waits for no other lock, dropped locks and evictions of other ids included.
THEOREM LocksGoRound == Spec => []WaitersAreServed
  <1>1. Init => TypeInv /\ LockInv
    <2>1. Init => LockInv
      BY DEF Init, LockInv, HeadWorks, WaiterQueued, QueuedOnce
    <2> QED BY <2>1, InitType
  <1>2. LifeInv /\ LockInv /\ [Next]_vars => LockInv'
    <2> SUFFICES ASSUME LifeInv, LockInv, [Next]_vars PROVE LockInv'
      OBVIOUS
    <2>1. ASSUME NEW c \in Callers, CallerStep(c) PROVE LockInv'
      BY <2>1, CallerLocks DEF LifeInv
    <2>2. CASE UNCHANGED <<queue, pc>>
      BY <2>2 DEF LockInv, HeadWorks, WaiterQueued, QueuedOnce, Queued
    <2>3. SweepStep \/ Tick \/ (\E d \in Drivers : BrowserLeaves(d)) \/ UNCHANGED vars
            => UNCHANGED <<queue, pc>>
      BY DEF SweepStep, ReapIdle, ReapNext, Shutdown, CloseAllNext, Tick, BrowserLeaves,
             callerVars, vars
    <2> QED BY <2>1, <2>2, <2>3 DEF Next
  <1>3. LifeInv /\ LockInv => WaitersAreServed
    <2> SUFFICES ASSUME LifeInv, LockInv, NEW c \in Callers, NEW l \in Locks, Queued(c, l)
                 PROVE  /\ pc[Head(queue[l])] \in HolderSteps
                        /\ \A m \in Locks : Queued(Head(queue[l]), m) => m = l
      BY DEF WaitersAreServed, LockInv, WaiterQueued, HolderSteps
    <2>0. QueueType
      BY DEF LifeInv, TypeInv, TypeOK, QueueType
    <2>1. 1 \in DOMAIN queue[l] /\ Head(queue[l]) = queue[l][1]
      BY <2>0, QueuedAt DEF Queued
    <2> QED BY <2>1 DEF LockInv, HeadWorks, QueuedOnce, Queued
  <1> QED BY <1>1, <1>2, <1>3, LifeCorrect, PTL DEF Spec
=============================================================================
