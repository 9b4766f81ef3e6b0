------------------------- MODULE SessionsPromiseProofs -------------------------
(***************************************************************************)
(* More proofs about Sessions.tla: that viewers are counted and eviction   *)
(* spares them, in every mode; and that with persistent profiles shutdown  *)
(* misses no browser that was there and each chat gets what                *)
(* ChatBrowser.tla promises.                                               *)
(***************************************************************************)
EXTENDS SessionsProofs, FiniteSetTheorems

-----------------------------------------------------------------------------
(* Viewers on a driver, their number, and who evicts whom *)

Uses(c) == pc[c] \in {"using", "ending"}
Watching(d) == {v \in Viewers : drv[v] = d /\ Uses(v)}

WatchInv ==
    /\ \A d \in Drivers : IsFiniteSet(Watching(d)) /\ viewers[d] = Cardinality(Watching(d))
    /\ \A c \in Callers : pc[c] = "evicting" => Watching(drv[c]) = {}

\* The other callers keep their step and their driver.
Alone(c) == \A b \in Callers \ {c} : pc'[b] = pc[b] /\ drv'[b] = drv[b]

\* How a step of c changes who watches: not at all, by c that comes to a driver whose
\* browser is up or coming up, or by c that lets go.
LEMMA NoneMoves ==
    ASSUME NEW c \in Callers, Alone(c),
           \/ ~Uses(c) /\ ~Uses(c)'
           \/ Uses(c) /\ Uses(c)' /\ drv'[c] = drv[c]
    PROVE  \A d : Watching(d)' = Watching(d)
  BY DEF Alone, Watching, Uses, Callers

LEMMA OneComes ==
    ASSUME NEW c \in Callers, Alone(c), ~Uses(c), Uses(c)'
    PROVE  \A d : Watching(d)' = IF c \in Viewers /\ d = drv'[c] THEN Watching(d) \cup {c}
                                 ELSE Watching(d)
  BY DEF Alone, Watching, Uses, Callers

LEMMA OneLeaves ==
    ASSUME NEW c \in Callers, Alone(c), Uses(c), ~Uses(c)'
    PROVE  \A d : Watching(d)' = IF c \in Viewers /\ d = drv[c] THEN Watching(d) \ {c}
                                 ELSE Watching(d)
  BY DEF Alone, Watching, Uses, Callers

\* Steps that leave everybody where they watch, and perhaps begin a launch on a driver
\* nobody is on.
LEMMA WatchSame ==
    ASSUME TypeInv, WatchInv, NEW c \in Callers, Alone(c), pc'[c] # "evicting",
           \/ ~Uses(c) /\ ~Uses(c)'
           \/ Uses(c) /\ Uses(c)' /\ drv'[c] = drv[c],
           \/ viewers' = viewers
           \/ \E d \in FreshDrivers : viewers' = [viewers EXCEPT ![d] = 0]
    PROVE  WatchInv'
  <1>1. \A d : Watching(d)' = Watching(d)
    BY NoneMoves
  <1>2. ASSUME NEW d \in Drivers, viewers'[d] # viewers[d] PROVE viewers'[d] = 0 /\ Watching(d) = {}
    <2>1. d \in FreshDrivers /\ viewers'[d] = 0
      BY <1>2 DEF TypeInv, TypeOK
    <2> QED BY <2>1 DEF FreshDrivers, IdleDriver, Watching, Callers
  <1>3. \A d \in Drivers : IsFiniteSet(Watching(d)') /\ viewers'[d] = Cardinality(Watching(d)')
    BY <1>1, <1>2, FS_EmptySet DEF WatchInv
  <1>4. \A b \in Callers : (pc[b] = "evicting" => Watching(drv[b]) = {})'
    BY <1>1 DEF WatchInv, Alone
  <1> QED BY <1>3, <1>4 DEF WatchInv

\* A caller comes to the driver d, which nobody evicts.
LEMMA WatchComes ==
    ASSUME TypeInv, WatchInv, NEW c \in Callers, NEW d \in Drivers, Alone(c), ~Uses(c),
           Attach(c, d), \A b \in Callers : pc[b] = "evicting" => drv[b] # d
    PROVE  WatchInv'
  <1>1. /\ Uses(c)' /\ drv'[c] = d /\ pc'[c] = "using"
        /\ viewers' = IF c \in Viewers THEN [viewers EXCEPT ![d] = @ + 1] ELSE viewers
    BY DEF Attach, TypeInv, TypeOK, Uses
  <1>2. \A e : Watching(e)' = IF c \in Viewers /\ e = d THEN Watching(e) \cup {c} ELSE Watching(e)
    BY <1>1, OneComes
  <1>3. \A e \in Drivers : IsFiniteSet(Watching(e)') /\ viewers'[e] = Cardinality(Watching(e)')
    <2> SUFFICES ASSUME NEW e \in Drivers
                 PROVE  IsFiniteSet(Watching(e)') /\ viewers'[e] = Cardinality(Watching(e)')
      OBVIOUS
    <2>1. CASE c \in Viewers /\ e = d
      <3>1. c \notin Watching(e)
        BY DEF Watching
      <3>2. viewers'[e] = viewers[e] + 1
        BY <1>1, <2>1 DEF TypeInv, TypeOK
      <3>3. IsFiniteSet(Watching(e)) /\ viewers[e] = Cardinality(Watching(e))
        BY DEF WatchInv
      <3>4. /\ IsFiniteSet(Watching(e) \cup {c})
            /\ Cardinality(Watching(e) \cup {c}) = Cardinality(Watching(e)) + 1
        BY <3>1, <3>3, FS_AddElement
      <3> QED BY <1>2, <2>1, <3>2, <3>3, <3>4
    <2>2. CASE ~ (c \in Viewers /\ e = d)
      <3>1. viewers'[e] = viewers[e]
        BY <1>1, <2>2 DEF TypeInv, TypeOK
      <3> QED BY <1>2, <2>2, <3>1 DEF WatchInv
    <2> QED BY <2>1, <2>2
  <1>4. \A b \in Callers : (pc[b] = "evicting" => Watching(drv[b]) = {})'
    BY <1>1, <1>2 DEF WatchInv, Alone
  <1> QED BY <1>3, <1>4 DEF WatchInv

\* A caller lets go of its driver, counting itself out.
LEMMA WatchLeaves ==
    ASSUME TypeInv, WatchInv, NEW c \in Callers, Alone(c), Uses(c), CountOut(c)
    PROVE  WatchInv'
  <1> DEFINE d == drv[c]
  <1>1. /\ d \in Drivers /\ ~Uses(c)' /\ pc'[c] = "idle"
        /\ viewers' = IF c \in Viewers THEN [viewers EXCEPT ![d] = @ - 1] ELSE viewers
    BY DEF CountOut, Return, TypeInv, TypeOK, DriverOfStep, Uses
  <1>2. \A e : Watching(e)' = IF c \in Viewers /\ e = d THEN Watching(e) \ {c} ELSE Watching(e)
    BY <1>1, OneLeaves
  <1>5. c \in Viewers => c \in Watching(d)
    BY DEF Watching
  <1> HIDE DEF d
  <1>3. \A e \in Drivers : IsFiniteSet(Watching(e)') /\ viewers'[e] = Cardinality(Watching(e)')
    <2> SUFFICES ASSUME NEW e \in Drivers
                 PROVE  IsFiniteSet(Watching(e)') /\ viewers'[e] = Cardinality(Watching(e)')
      OBVIOUS
    <2>1. CASE c \in Viewers /\ e = d
      <3>2. viewers'[e] = viewers[e] - 1
        BY <1>1, <2>1 DEF TypeInv, TypeOK
      <3>3. IsFiniteSet(Watching(e)) /\ viewers[e] = Cardinality(Watching(e))
        BY DEF WatchInv
      <3>4. /\ IsFiniteSet(Watching(e) \ {c})
            /\ Cardinality(Watching(e) \ {c}) = Cardinality(Watching(e)) - 1
        BY <1>5, <2>1, <3>3, FS_RemoveElement
      <3> QED BY <1>2, <2>1, <3>2, <3>3, <3>4
    <2>2. CASE ~ (c \in Viewers /\ e = d)
      <3>1. viewers'[e] = viewers[e]
        BY <1>1, <2>2 DEF TypeInv, TypeOK
      <3> QED BY <1>2, <2>2, <3>1 DEF WatchInv
    <2> QED BY <2>1, <2>2
  <1>4. \A b \in Callers : (pc[b] = "evicting" => Watching(drv[b]) = {})'
    BY <1>1, <1>2 DEF WatchInv, Alone
  <1> QED BY <1>3, <1>4 DEF WatchInv

\* The session that makes room has no viewer.
LEMMA WatchEvicts ==
    ASSUME TypeInv, WatchInv, NEW c \in Callers, Alone(c), ~Uses(c), NEW s \in Evictable,
           pc'[c] = "evicting", drv'[c] = registry[s], viewers' = viewers
    PROVE  WatchInv'
  <1>1. \A d : Watching(d)' = Watching(d)
    BY NoneMoves DEF Uses
  <1>2. registry[s] \in Drivers /\ viewers[registry[s]] = 0
    BY DEF Evictable, Warm, TypeInv, TypeOK
  <1>3. Watching(registry[s]) = {}
    BY <1>2, FS_EmptySet DEF WatchInv
  <1> QED BY <1>1, <1>3 DEF WatchInv, Alone

LEMMA StepAlone == ASSUME TypeInv, NEW c \in Callers, CallerStep(c) PROVE Alone(c)
  <1>0. pc \in [Callers -> Steps] /\ drv \in [Callers -> Drivers \cup {NoDriver}]
    BY DEF TypeInv, TypeOK
  <1>1. ASSUME NEW s, NEW locks, EvictOrLaunch(c, s, locks) PROVE Alone(c)
    BY <1>0, <1>1 DEF EvictOrLaunch, StartLaunch, Alone
  <1>2. ASSUME NEW s, NEW d, Attach(c, d) \/ FindGone(c, s) PROVE Alone(c)
    BY <1>0, <1>2 DEF Attach, FindGone, Alone
  <1>3. ASSUME NEW s \in Chats, Call(c, s) PROVE Alone(c)
    <2>1. CASE pc' = [pc EXCEPT ![c] = "waiting"] /\ UNCHANGED drv
      BY <1>0, <2>1 DEF Alone
    <2> QED BY <1>1, <1>2, <1>3, <2>1 DEF Call
  <1>4. CASE Granted(c)
    BY <1>1, <1>2, <1>4 DEF Granted
  <1>5. CASE Launched(c)
    BY <1>2, <1>5 DEF Launched
  <1> QED BY <1>0, <1>3, <1>4, <1>5 DEF CallerStep, RaiseGone, Evicted, TakeProfile, LaunchFails,
             ViewerActs, EndSession, SessionEnded, Leave, StartLaunch, Return, CountOut,
             callerVars, Alone

LEMMA WatchCaller ==
    ASSUME LifeInv, WatchInv, NEW c \in Callers, CallerStep(c)
    PROVE  WatchInv'
  <1>0. /\ TypeInv /\ Alone(c) /\ pc \in [Callers -> Steps]
        /\ drv \in [Callers -> Drivers \cup {NoDriver}]
        /\ registry \in [Chats -> Drivers \cup {NoDriver}]
    BY StepAlone DEF LifeInv, TypeInv, TypeOK
  \* What is registered, or comes up, nobody evicts.
  <1>a. ASSUME NEW d, phase[d] # "closing", NEW b \in Callers, pc[b] = "evicting"
        PROVE  drv[b] # d
    BY <1>a DEF LifeInv, CloseOwned, Closes
  <1>1. ASSUME NEW s \in Chats, Live(s), Attach(c, registry[s]), ~Uses(c) PROVE WatchInv'
    <2>1. registry[s] \in Drivers /\ phase[registry[s]] # "closing"
      BY <1>0, <1>1 DEF Live, LifeInv, RegisteredIsUp, Warm
    <2> QED BY <1>0, <1>1, <1>a, <2>1, WatchComes
  <1>2. ASSUME NEW s \in Chats, FindGone(c, s), ~Uses(c) PROVE WatchInv'
    <2>1. pc'[c] = "reporting" /\ viewers' = viewers
      BY <1>0, <1>2 DEF FindGone
    <2> QED BY <1>0, <1>2, <2>1, WatchSame DEF Uses
  <1>3. ASSUME NEW s, NEW ph, NEW ids, StartLaunch(c, s, ph, ids), ~Uses(c) PROVE WatchInv'
    <2>1. pc'[c] = "launching" /\ \E d \in FreshDrivers : viewers' = [viewers EXCEPT ![d] = 0]
      BY <1>0, <1>3 DEF StartLaunch
    <2> QED BY <1>0, <1>3, <2>1, WatchSame DEF Uses
  <1>4. ASSUME NEW s, NEW locks, EvictOrLaunch(c, s, locks), ~Uses(c) PROVE WatchInv'
    <2>1. ASSUME NEW v \in Victims, drv' = [drv EXCEPT ![c] = registry[v]],
                 pc' = [pc EXCEPT ![c] = "evicting"], viewers' = viewers
          PROVE  WatchInv'
      <3>1. v \in Evictable /\ pc'[c] = "evicting" /\ drv'[c] = registry[v]
        BY <1>0, <2>1 DEF Victims
      <3> QED BY <1>0, <1>4, <2>1, <3>1, WatchEvicts
    <2> QED BY <1>3, <1>4, <2>1 DEF EvictOrLaunch
  <1>5. ASSUME NEW s \in Chats, Call(c, s) PROVE WatchInv'
    <2>1. ~Uses(c)
      BY <1>5 DEF Call, Uses
    <2>2. ASSUME pc' = [pc EXCEPT ![c] = "waiting"], viewers' = viewers PROVE WatchInv'
      <3>1. pc'[c] = "waiting"
        BY <1>0, <2>2
      <3> QED BY <1>0, <2>1, <2>2, <3>1, WatchSame DEF Uses
    <2> QED BY <1>1, <1>2, <1>4, <1>5, <2>1, <2>2 DEF Call
  <1>6. CASE Granted(c)
    <2>1. ~Uses(c) /\ chat[c] \in Chats
      BY <1>0, <1>6 DEF Granted, Uses, TypeInv, DriverOfStep
    <2> QED BY <1>1, <1>2, <1>4, <1>6, <2>1 DEF Granted
  <1>7. CASE RaiseGone(c) \/ LaunchFails(c)
    <2>1. ~Uses(c) /\ pc'[c] = "idle" /\ viewers' = viewers
      BY <1>0, <1>7 DEF RaiseGone, LaunchFails, Return, Uses
    <2> QED BY <1>0, <2>1, WatchSame DEF Uses
  <1>8. CASE Evicted(c)
    BY <1>3, <1>8 DEF Evicted, Uses
  <1>9. CASE TakeProfile(c)
    <2>1. ~Uses(c) /\ pc'[c] = "launching" /\ viewers' = viewers
      BY <1>9 DEF TakeProfile, callerVars, Uses
    <2> QED BY <1>0, <2>1, WatchSame DEF Uses
  <1>10. CASE Launched(c)
    <2>1. /\ ~Uses(c) /\ Attach(c, drv[c]) /\ drv[c] \in Drivers
          /\ phase[drv[c]] = "starting"
      BY <1>0, <1>10 DEF Launched, Uses, TypeInv, DriverOfStep
    <2> QED BY <1>0, <1>a, <2>1, WatchComes
  <1>11. CASE ViewerActs(c) \/ EndSession(c)
    <2>1. /\ pc[c] = "using" /\ pc'[c] \in {"using", "ending"} /\ drv'[c] = drv[c]
          /\ viewers' = viewers
      BY <1>0, <1>11 DEF ViewerActs, EndSession, callerVars
    <2> QED BY <1>0, <2>1, WatchSame DEF Uses
  <1>12. CASE SessionEnded(c) \/ Leave(c)
    <2>1. Uses(c) /\ CountOut(c)
      BY <1>12 DEF SessionEnded, Leave, Uses
    <2> QED BY <1>0, <2>1, WatchLeaves
  <1> QED BY <1>5, <1>6, <1>7, <1>8, <1>9, <1>10, <1>11, <1>12 DEF CallerStep

LEMMA WatchCorrect == Spec => []WatchInv
  <1>1. Init => WatchInv
    <2> SUFFICES ASSUME Init PROVE WatchInv
      OBVIOUS
    <2>1. \A d : Watching(d) = {}
      BY DEF Init, Watching, Uses, Callers
    <2> QED BY <2>1, FS_EmptySet DEF Init, WatchInv
  <1>2. LifeInv /\ WatchInv /\ [Next]_vars => WatchInv'
    <2> SUFFICES ASSUME LifeInv, WatchInv, [Next]_vars PROVE WatchInv'
      OBVIOUS
    <2>1. ASSUME UNCHANGED <<pc, drv, viewers>> PROVE WatchInv'
      BY <2>1 DEF WatchInv, Watching, Uses
    <2> QED BY <2>1, WatchCaller DEF Next, BrowserLeaves, Tick, SweepStep, ReapIdle, ReapNext,
               Shutdown, CloseAllNext, vars, callerVars
  <1> QED BY <1>1, <1>2, LifeCorrect, PTL DEF Spec

\* BrowserSession.viewers is the number of viewers attached, whatever became of the
\* session under them: what eviction and the reaper trust.
THEOREM ViewersAreCounted == Spec => []ViewersCounted
  <1>1. WatchInv => ViewersCounted
    BY DEF WatchInv, Watching, Uses, ViewersCounted
  <1> QED BY <1>1, WatchCorrect, PTL

\* While a browser is closed to make room, no viewer is on it and none joins.
THEOREM EvictionSparesViewers == Spec => []EvictedIsUnwatched
  <1>1. WatchInv => EvictedIsUnwatched
    BY DEF WatchInv, Watching, Uses, EvictedIsUnwatched
  <1> QED BY <1>1, WatchCorrect, PTL

-----------------------------------------------------------------------------
(* Shutdown.  A browser that comes up or goes down is in the hands of a caller *)
(* or of the sweep, and close_all still has every registered one to close but  *)
(* those that calls which went on have launched since.                         *)

PhaseOwned ==
    \A d \in Drivers :
        /\ phase[d] \in {"launching", "starting"}
             => \E c \in Callers : pc[c] = "launching" /\ drv[c] = d
        /\ phase[d] = "closing" => sweepDrv = d \/ \E c \in Callers : Closes(c) /\ drv[c] = d

ServerInv ==
    /\ server = "closing" => /\ sweepDrv # NoDriver
                             /\ \A s \in Warm : s \in todo \/ registry[s] \in late
    /\ server = "stopped" => sweepDrv = NoDriver /\ \A s \in Warm : registry[s] \in late

InHand(c, d) == (Closes(c) \/ pc[c] = "launching") /\ drv[c] = d

\* What a step of the caller c may make of the phase of the driver d.
HandedOn(c, d) ==
    \/ phase'[d] \in {"down", "open", "gone", "aborted"}
    \/ phase'[d] = "closing" /\ Closes(c)' /\ drv'[c] = d
    \/ phase'[d] \in {"launching", "starting"} /\ pc'[c] = "launching" /\ drv'[c] = d
    \/ phase'[d] = phase[d] /\ ~InHand(c, d)

LEMMA HandedOnOwned ==
    ASSUME PhaseOwned, NEW c \in Callers, Alone(c), sweepDrv' = sweepDrv,
           \A d \in Drivers : HandedOn(c, d)
    PROVE  PhaseOwned'
  BY DEF PhaseOwned, Alone, HandedOn, InHand, Closes

LEMMA CallerOwned ==
    ASSUME LifeInv, PhaseOwned, NEW c \in Callers, CallerStep(c)
    PROVE  PhaseOwned'
  <1>0. /\ Alone(c) /\ pc \in [Callers -> Steps] /\ phase \in [Drivers -> Phases]
        /\ drv \in [Callers -> Drivers \cup {NoDriver}]
        /\ registry \in [Chats -> Drivers \cup {NoDriver}]
        /\ \A b \in Callers : pc[b] # "idle" => chat[b] \in Chats
        /\ pc[c] \notin {"idle", "waiting"} => drv[c] \in Drivers
    BY StepAlone DEF LifeInv, TypeInv, TypeOK, DriverOfStep
  <1>s. sweepDrv' = sweepDrv
    BY DEF CallerStep, Call, Granted, RaiseGone, Evicted, TakeProfile, LaunchFails, Launched,
           ViewerActs, EndSession, SessionEnded, Leave, sweepVars
  <1> SUFFICES ASSUME NEW d \in Drivers PROVE HandedOn(c, d)
    BY <1>0, <1>s, HandedOnOwned
  <1> DEFINE Free == ~Closes(c) /\ pc[c] # "launching"
  <1>1. ASSUME Free, phase' = phase PROVE HandedOn(c, d)
    BY <1>1 DEF HandedOn, InHand
  <1>2. ASSUME Free, NEW s \in Warm, NEW locks, PopSession(s, locks, phase), drv'[c] = registry[s],
               pc'[c] \in {"reporting", "evicting", "ending"}
        PROVE  HandedOn(c, d)
    <2>1. phase' = [phase EXCEPT ![registry[s]] = "closing"]
      BY <1>2 DEF PopSession
    <2> QED BY <1>0, <1>2, <2>1 DEF HandedOn, InHand, Closes
  <1>3. ASSUME NEW s, NEW ph, NEW ids, StartLaunch(c, s, ph, ids),
               \/ Free /\ ph = phase
               \/ pc[c] = "evicting" /\ \E end \in Ends : ph = After(drv[c], end)
        PROVE  HandedOn(c, d)
    <2>1. PICK e \in FreshDrivers : /\ drv' = [drv EXCEPT ![c] = e]
                                    /\ phase' = [ph EXCEPT ![e] = "launching"]
                                    /\ pc' = [pc EXCEPT ![c] = "launching"]
      BY <1>3 DEF StartLaunch
    <2>2. /\ ph \in [Drivers -> Phases]
          /\ (ph = phase /\ Free) \/ ph[drv[c]] \in {"down", "aborted"}
          /\ \A x \in Drivers : x # drv[c] => ph[x] = phase[x]
      <3>1. CASE Free /\ ph = phase
        BY <1>0, <3>1
      <3>2. ASSUME NEW end \in Ends, pc[c] = "evicting", ph = After(drv[c], end)
            PROVE  /\ ph \in [Drivers -> Phases] /\ ph[drv[c]] \in {"down", "aborted"}
                   /\ \A x \in Drivers : x # drv[c] => ph[x] = phase[x]
        <4>1. end \in {"down", "aborted"} /\ drv[c] \in Drivers
          BY <1>0, <3>2, EndsKnown
        <4> QED BY <3>2, <4>1, AfterType DEF LifeInv, TypeInv
      <3> QED BY <1>3, <3>1, <3>2
    <2> QED BY <1>0, <2>1, <2>2 DEF HandedOn, InHand, Closes
  <1>4. ASSUME NEW s, NEW locks, EvictOrLaunch(c, s, locks), Free PROVE HandedOn(c, d)
    <2>1. ASSUME NEW v \in Victims, PopSession(v, locks, phase),
                 drv' = [drv EXCEPT ![c] = registry[v]], pc' = [pc EXCEPT ![c] = "evicting"]
          PROVE  HandedOn(c, d)
      <3>1. v \in Warm /\ drv'[c] = registry[v] /\ pc'[c] = "evicting"
        BY <1>0, <2>1 DEF Victims, Evictable
      <3> QED BY <1>2, <1>4, <2>1, <3>1
    <2> QED BY <1>3, <1>4, <2>1 DEF EvictOrLaunch
  <1>5. ASSUME NEW s \in Chats, Gone(s), FindGone(c, s), Free PROVE HandedOn(c, d)
    <2>1. s \in Warm /\ drv'[c] = registry[s] /\ pc'[c] = "reporting"
      BY <1>0, <1>5 DEF Gone, Warm, FindGone
    <2> QED BY <1>2, <1>5, <2>1 DEF FindGone
  <1>6. ASSUME NEW s \in Chats, Call(c, s) PROVE HandedOn(c, d)
    <2>1. Free
      BY <1>6 DEF Call, Closes
    <2> QED BY <1>1, <1>4, <1>5, <1>6, <2>1 DEF Call
  <1>7. CASE Granted(c)
    <2>1. Free /\ chat[c] \in Chats
      BY <1>0, <1>7 DEF Granted, Closes
    <2> QED BY <1>1, <1>4, <1>5, <1>7, <2>1 DEF Granted
  <1>8. CASE RaiseGone(c) \/ LaunchFails(c) \/ SessionEnded(c)
    <2>1. \E end \in {"down", "aborted"} : phase' = After(drv[c], end)
      BY <1>8, EndsKnown DEF RaiseGone, LaunchFails, SessionEnded, Closed
    <2>2. /\ phase'[drv[c]] \in {"down", "aborted"} /\ drv[c] \in Drivers
          /\ \A x \in Drivers : x # drv[c] => phase'[x] = phase[x]
      BY <1>0, <1>8, <2>1, AfterType DEF RaiseGone, LaunchFails, SessionEnded, LifeInv, TypeInv
    <2> QED BY <2>2 DEF HandedOn, InHand
  <1>9. CASE Evicted(c)
    BY <1>3, <1>9 DEF Evicted
  <1>10. CASE TakeProfile(c)
    <2>1. /\ phase' = [phase EXCEPT ![drv[c]] = "starting"]
          /\ pc' = pc /\ drv' = drv /\ pc[c] = "launching"
      BY <1>10 DEF TakeProfile, callerVars
    <2> QED BY <1>0, <2>1 DEF HandedOn, InHand, Closes
  <1>11. CASE Launched(c)
    <2>1. phase' = [phase EXCEPT ![drv[c]] = "open"]
      BY <1>11 DEF Launched
    <2> QED BY <1>0, <2>1 DEF HandedOn, InHand
  <1>12. CASE ViewerActs(c) \/ Leave(c)
    BY <1>1, <1>12 DEF ViewerActs, Leave, Closes
  <1>13. CASE EndSession(c)
    <2>1. /\ pc[c] = "using" /\ pc'[c] = "ending" /\ drv'[c] = drv[c]
          /\ registry[chat[c]] = drv[c] /\ chat[c] \in Chats /\ drv[c] \in Drivers
      BY <1>0, <1>13 DEF EndSession
    <2>2. chat[c] \in Warm
      BY <2>1, NoneAssumption DEF Warm
    <2> QED BY <1>2, <1>13, <2>1, <2>2 DEF EndSession, Closes
  <1> QED BY <1>6, <1>7, <1>8, <1>9, <1>10, <1>11, <1>12, <1>13 DEF CallerStep

\* A close of the sweep: the one before is through, or was cancelled.
LEMMA CloseNextOwned ==
    ASSUME LifeInv, PhaseOwned, NEW list, NEW ph \in [Drivers -> Phases], CloseNext(list, ph),
           \A d \in Drivers : IF d = sweepDrv THEN ph[d] \in {"down", "aborted"}
                              ELSE ph[d] = phase[d],
           pc' = pc, drv' = drv
    PROVE  PhaseOwned'
  <1>1. ASSUME NEW d \in Drivers, phase'[d] = ph[d]
        PROVE  /\ phase'[d] \in {"launching", "starting"}
                    => \E c \in Callers : pc'[c] = "launching" /\ drv'[c] = d
               /\ phase'[d] = "closing" => \E c \in Callers : Closes(c)' /\ drv'[c] = d
    BY <1>1 DEF PhaseOwned, Closes
  <1>2. ASSUME NEW s \in list \cap Warm, NEW locks, PopSession(s, locks, ph), sweepDrv' = registry[s]
        PROVE  PhaseOwned'
    <2>1. phase' = [ph EXCEPT ![registry[s]] = "closing"]
      BY <1>2 DEF PopSession
    <2>2. \A d \in Drivers : phase'[d] = ph[d] \/ (d = registry[s] /\ phase'[d] = "closing")
      BY <2>1
    <2> QED BY <1>1, <1>2, <2>2 DEF PhaseOwned, Closes
  <1>3. ASSUME phase' = ph PROVE PhaseOwned'
    BY <1>1, <1>3 DEF PhaseOwned, Closes
  <1> QED BY <1>2, <1>3 DEF CloseNext

LEMMA SweepOwned == ASSUME LifeInv, PhaseOwned, SweepStep PROVE PhaseOwned'
  <1>1. /\ phase \in [Drivers -> Phases] /\ sweepDrv \in Drivers \cup {NoDriver}
        /\ server = "closing" \/ server = "serving" \/ server = "stopped"
    BY DEF LifeInv, TypeInv, TypeOK
  <1>2. ASSUME NEW end \in {"down", "aborted"}
        PROVE  /\ After(sweepDrv, end) \in [Drivers -> Phases]
               /\ \A d \in Drivers : IF d = sweepDrv
                                     THEN After(sweepDrv, end)[d] \in {"down", "aborted"}
                                     ELSE After(sweepDrv, end)[d] = phase[d]
    BY <1>2, AfterType DEF LifeInv, TypeInv
  <1>3. pc' = pc /\ drv' = drv
    BY DEF SweepStep, ReapIdle, ReapNext, Shutdown, CloseAllNext, callerVars
  <1>4. CASE ReapIdle
    <2>1. \A d \in Drivers : d # sweepDrv
      BY <1>4, NoneAssumption DEF ReapIdle
    <2> QED BY <1>1, <1>3, <1>4, <2>1, CloseNextOwned DEF ReapIdle
  <1>5. CASE ReapNext \/ CloseAllNext
    <2>1. PICK end \in Ends : CloseNext(todo, After(sweepDrv, end))
      BY <1>5 DEF ReapNext, CloseAllNext, SweepOn
    <2>2. end \in {"down", "aborted"} BY EndsKnown
    <2> QED BY <1>2, <1>3, <2>1, <2>2, CloseNextOwned
  <1>6. CASE Shutdown
    <2>1. CASE sweepDrv = NoDriver
      <3>1. \A d \in Drivers : d # sweepDrv
        BY <2>1, NoneAssumption
      <3> QED BY <1>1, <1>3, <1>6, <2>1, <3>1, CloseNextOwned DEF Shutdown
    <2>2. CASE sweepDrv # NoDriver
      <3>1. CloseNext(Warm, After(sweepDrv, "aborted"))
        BY <1>6, <2>2 DEF Shutdown
      <3> QED BY <1>2, <1>3, <3>1, CloseNextOwned
    <2> QED BY <2>1, <2>2
  <1> QED BY <1>4, <1>5, <1>6 DEF SweepStep

LEMMA OwnedCorrect == Spec => []PhaseOwned
  <1>1. Init => PhaseOwned
    BY DEF Init, PhaseOwned
  <1>2. LifeInv /\ PhaseOwned /\ [Next]_vars => PhaseOwned'
    <2> SUFFICES ASSUME LifeInv, PhaseOwned, [Next]_vars PROVE PhaseOwned'
      OBVIOUS
    <2>1. ASSUME UNCHANGED <<phase, pc, drv, sweepDrv>> PROVE PhaseOwned'
      BY <2>1 DEF PhaseOwned, Closes
    <2>2. ASSUME NEW d \in Drivers, BrowserLeaves(d) PROVE PhaseOwned'
      <3>1. /\ phase' = [phase EXCEPT ![d] = "gone"] /\ phase \in [Drivers -> Phases]
            /\ pc' = pc /\ drv' = drv /\ sweepDrv' = sweepDrv
        BY <2>2 DEF BrowserLeaves, callerVars, sweepVars, LifeInv, TypeInv, TypeOK
      <3> QED BY <3>1 DEF PhaseOwned, Closes
    <2> QED BY <2>1, <2>2, CallerOwned, SweepOwned DEF Next, Tick, vars, callerVars, sweepVars
  <1> QED BY <1>1, <1>2, LifeCorrect, PTL DEF Spec

LEMMA ServerCorrect == Spec => []ServerInv
  <1>1. Init => ServerInv
    BY DEF Init, ServerInv
  <1>2. LifeInv /\ ServerInv /\ [Next]_vars => ServerInv'
    <2> SUFFICES ASSUME LifeInv, ServerInv, [Next]_vars PROVE ServerInv'
      OBVIOUS
    <2>0. /\ registry \in [Chats -> Drivers \cup {NoDriver}] /\ todo \subseteq Chats
          /\ \A s \in Warm : registry[s] \in Drivers
      BY DEF LifeInv, TypeInv, TypeOK, Warm
    <2>1. ASSUME UNCHANGED <<registry, server, todo, sweepDrv, late>> PROVE ServerInv'
      BY <2>1 DEF ServerInv, Warm
    <2>2. ASSUME server' = "serving" PROVE ServerInv'
      BY <2>2 DEF ServerInv
    \* What a caller registers from then on is late.
    <2>3. ASSUME NEW c \in Callers, CallerStep(c) PROVE ServerInv'
      <3>1. UNCHANGED sweepVars /\ late \subseteq late'
        BY <2>3 DEF CallerStep, Call, Granted, RaiseGone, Evicted, TakeProfile, LaunchFails,
                    Launched, ViewerActs, EndSession, SessionEnded, Leave
      <3>2. CASE Launched(c)
        <4>1. /\ registry' = [registry EXCEPT ![chat[c]] = drv[c]]
              /\ server # "serving" => drv[c] \in late'
          BY <3>2 DEF Launched
        <4>2. \A s \in Chats : \/ registry'[s] = registry[s]
                              \/ (server # "serving" => registry'[s] \in late')
          BY <2>0, <4>1
        <4> QED BY <3>1, <4>2 DEF ServerInv, Warm, sweepVars
      <3>3. CASE ~Launched(c)
        <4>1. ASSUME NEW s, NEW locks, EvictOrLaunch(c, s, locks) \/ FindGone(c, s)
              PROVE  \A t \in Chats : registry'[t] \in {registry[t], NoDriver}
          BY <2>0, <4>1 DEF EvictOrLaunch, FindGone, PopSession
        <4>2. ASSUME NEW s, PopSession(s, lockOf, phase)
              PROVE  \A t \in Chats : registry'[t] \in {registry[t], NoDriver}
          BY <2>0, <4>2 DEF PopSession
        <4>3. ASSUME NEW s \in Chats, Call(c, s)
              PROVE  \A t \in Chats : registry'[t] \in {registry[t], NoDriver}
          BY <4>1, <4>3 DEF Call
        <4>4. ASSUME Granted(c)
              PROVE  \A t \in Chats : registry'[t] \in {registry[t], NoDriver}
          BY <4>1, <4>4 DEF Granted
        <4>5. \A t \in Chats : registry'[t] \in {registry[t], NoDriver}
          BY <2>3, <3>3, <4>2, <4>3, <4>4 DEF CallerStep, RaiseGone, Evicted, TakeProfile, LaunchFails,
             ViewerActs, EndSession, SessionEnded, Leave
        <4> QED BY <3>1, <4>5 DEF ServerInv, Warm, sweepVars
      <3> QED BY <3>2, <3>3
    \* Of the list of a sweep, what is still registered is still to be closed, or late.
    <2>4. ASSUME NEW list \in SUBSET Chats, NEW ph, CloseNext(list, ph), late' = late,
                 \A s \in Warm : s \in list \/ registry[s] \in late
          PROVE  IF list \cap Warm = {}
                 THEN sweepDrv' = NoDriver /\ \A s \in Warm' : registry'[s] \in late'
                 ELSE /\ sweepDrv' # NoDriver
                      /\ \A s \in Warm' : s \in todo' \/ registry'[s] \in late'
      <3>1. ASSUME NEW s \in list \cap Warm, NEW skipped \in SUBSET (list \ Warm),
                   registry' = [registry EXCEPT ![s] = NoDriver],
                   sweepDrv' = registry[s], todo' = list \ (skipped \cup {s})
            PROVE  sweepDrv' # NoDriver /\ \A t \in Warm' : t \in todo' \/ registry'[t] \in late'
        <4>1. Warm' = Warm \ {s} /\ \A t \in Warm' : registry'[t] = registry[t]
          BY <2>0, <3>1 DEF Warm
        <4> QED BY <2>0, <2>4, <3>1, <4>1, NoneAssumption
      <3>2. ASSUME list \cap Warm = {}, UNCHANGED registry
            PROVE  \A s \in Warm' : registry'[s] \in late'
        BY <2>4, <3>2 DEF Warm
      <3> QED BY <2>4, <3>1, <3>2 DEF CloseNext, PopSession
    <2>5. CASE Shutdown
      <3>1. PICK ph : CloseNext(Warm, ph)
        BY <2>5 DEF Shutdown
      <3>2. server' = (IF Warm = {} THEN "stopped" ELSE "closing") /\ late' = late
        BY <2>5 DEF Shutdown
      <3>3. Warm \in SUBSET Chats
        BY DEF Warm
      <3> QED BY <2>4, <3>1, <3>2, <3>3 DEF ServerInv
    <2>6. CASE CloseAllNext
      <3>1. PICK ph : CloseNext(todo, ph)
        BY <2>6 DEF CloseAllNext, SweepOn
      <3>2. /\ server = "closing" /\ late' = late
            /\ server' = IF todo \cap Warm = {} THEN "stopped" ELSE "closing"
        BY <2>6 DEF CloseAllNext
      <3> QED BY <2>0, <2>4, <3>1, <3>2 DEF ServerInv
    <2>7. CASE ReapIdle \/ ReapNext
      BY <2>2, <2>7 DEF ReapIdle, ReapNext
    <2> QED BY <2>1, <2>3, <2>5, <2>6, <2>7
            DEF Next, BrowserLeaves, Tick, SweepStep, vars, callerVars, sweepVars
  <1> QED BY <1>1, <1>2, LifeCorrect, PTL DEF Spec

\* Calls may go on while close_all runs, closes may raise and the reaper's may have been
\* cancelled: with persistent profiles close_all is through without having missed a browser
\* that was there. What is still up came up after it had made its list, and what comes up
\* or goes down is in the hands of a call.
THEOREM ShutdownQuitsAll == ASSUME Mode = "profile" PROVE Spec => []DrainQuitsBrowsers
  <1>1. LifeInv /\ PhaseOwned /\ ServerInv /\ OpenIsRegistered => DrainQuitsBrowsers
    <2> SUFFICES ASSUME LifeInv, PhaseOwned, ServerInv, OpenIsRegistered, server = "stopped",
                        NEW d \in Drivers
                 PROVE  \/ phase[d] \in {"down", "aborted"}
                        \/ d \in late
                        \/ \E c \in Callers : drv[c] = d /\ pc[c] \notin {"waiting", "using"}
      BY DEF DrainQuitsBrowsers
    <2>1. sweepDrv # d /\ \A s \in Warm : registry[s] \in late
      BY NoneAssumption DEF ServerInv
    <2>2. CASE phase[d] \in {"launching", "starting", "closing"}
      BY <2>1, <2>2 DEF PhaseOwned, Closes
    <2>3. CASE phase[d] \in {"open", "gone"}
      BY <2>1, <2>3, NoneAssumption DEF OpenIsRegistered, Warm
    <2>4. phase[d] \in Phases
      BY DEF LifeInv, TypeInv, TypeOK
    <2> QED BY <2>2, <2>3, <2>4 DEF Phases
  <1> QED BY <1>1, LifeCorrect, OwnedCorrect, ServerCorrect, NothingLost, PTL

-----------------------------------------------------------------------------
(* Each chat's browser lives as ChatBrowser says.  Nobody uses a browser that  *)
(* is not up yet.                                                              *)

UsedInv == \A c \in Callers : Uses(c) => phase[drv[c]] \notin {"launching", "starting"}

LEMMA CallerUsed ==
    ASSUME LifeInv, UsedInv, NEW c \in Callers, CallerStep(c)
    PROVE  UsedInv'
  <1>0. /\ Alone(c) /\ pc \in [Callers -> Steps] /\ phase \in [Drivers -> Phases]
        /\ drv \in [Callers -> Drivers \cup {NoDriver}]
        /\ registry \in [Chats -> Drivers \cup {NoDriver}]
        /\ \A b \in Callers : pc[b] # "idle" => chat[b] \in Chats
        /\ \A b \in Callers : pc[b] \notin {"idle", "waiting"} => drv[b] \in Drivers
    BY StepAlone DEF LifeInv, TypeInv, TypeOK, DriverOfStep
  <1> DEFINE Up(d) == phase'[d] \in {"launching", "starting"}
                        => phase[d] \in {"launching", "starting"} \/ d \in FreshDrivers
  <1>1. ASSUME \A d \in Drivers : Up(d),
               Uses(c)' => \/ Uses(c) /\ drv'[c] = drv[c]
                           \/ phase'[drv'[c]] \notin {"launching", "starting"}
        PROVE  UsedInv'
    <2> SUFFICES ASSUME NEW b \in Callers, Uses(b)',
                        phase'[drv'[b]] \in {"launching", "starting"}
                 PROVE  FALSE
      BY DEF UsedInv
    <2>1. Uses(b) /\ drv'[b] = drv[b]
      BY <1>0, <1>1 DEF Alone, Uses
    <2>2. drv[b] \in Drivers /\ phase[drv[b]] \notin {"launching", "starting"}
      BY <1>0, <2>1 DEF UsedInv, Uses
    <2> QED BY <1>1, <2>1, <2>2 DEF FreshDrivers, IdleDriver
  <1>2. ASSUME NEW d, NEW p, phase' = [phase EXCEPT ![d] = p],
               p \notin {"launching", "starting"} \/ phase[d] = "launching"
        PROVE  \A e \in Drivers : Up(e)
    BY <1>0, <1>2
  <1>3. ASSUME phase' = phase PROVE \A e \in Drivers : Up(e)
    BY <1>3
  <1>4. ASSUME NEW s, NEW ph, NEW ids, StartLaunch(c, s, ph, ids),
               ph = phase \/ \E end \in Ends : ph = After(drv[c], end)
        PROVE  (\A e \in Drivers : Up(e)) /\ ~Uses(c)'
    <2>1. PICK d \in FreshDrivers : /\ phase' = [ph EXCEPT ![d] = "launching"]
                                    /\ pc' = [pc EXCEPT ![c] = "launching"]
      BY <1>4 DEF StartLaunch
    <2>2. ~Uses(c)'
      BY <1>0, <2>1 DEF Uses
    <2>3. \A e \in Drivers : Up(e)
      <3>0. ASSUME NEW end \in Ends
            PROVE  /\ After(drv[c], end) \in [Drivers -> Phases]
                   /\ \A e \in Drivers : \/ After(drv[c], end)[e] = phase[e]
                                         \/ After(drv[c], end)[e] \in {"down", "aborted"}
        BY <1>0, <3>0, EndsKnown DEF After, Phases
      <3>1. /\ ph \in [Drivers -> Phases]
            /\ \A e \in Drivers : ph[e] = phase[e] \/ ph[e] \in {"down", "aborted"}
        BY <1>0, <1>4, <3>0
      <3> QED BY <1>0, <2>1, <3>1
    <2> QED BY <2>2, <2>3
  <1>5. ASSUME NEW s, NEW locks, PopSession(s, locks, phase) PROVE \A e \in Drivers : Up(e)
    BY <1>2, <1>5 DEF PopSession
  <1> HIDE DEF Up
  <1>6. ASSUME NEW s, NEW locks, EvictOrLaunch(c, s, locks) PROVE UsedInv'
    <2>1. CASE StartLaunch(c, s, phase, chatOf)
      BY <1>1, <1>4, <2>1
    <2>2. ASSUME NEW v, PopSession(v, locks, phase), pc' = [pc EXCEPT ![c] = "evicting"]
          PROVE  UsedInv'
      <3>1. ~Uses(c)'
        BY <1>0, <2>2 DEF Uses
      <3> QED BY <1>1, <1>5, <2>2, <3>1
    <2> QED BY <1>6, <2>1, <2>2 DEF EvictOrLaunch
  <1>7. ASSUME NEW s \in Chats, Live(s), Attach(c, registry[s]), phase' = phase PROVE UsedInv'
    <2>1. registry[s] \in Drivers /\ phase[registry[s]] \in {"open", "gone"}
      BY <1>0, <1>7 DEF Live, LifeInv, RegisteredIsUp, Warm
    <2>2. drv'[c] = registry[s]
      BY <1>0, <1>7 DEF Attach
    <2> QED BY <1>1, <1>3, <1>7, <2>1, <2>2
  <1>8. ASSUME NEW s \in Chats, FindGone(c, s) PROVE UsedInv'
    <2>1. ~Uses(c)'
      BY <1>0, <1>8 DEF FindGone, Uses
    <2> QED BY <1>1, <1>5, <1>8, <2>1 DEF FindGone
  <1>9. ASSUME NEW s \in Chats, Call(c, s) PROVE UsedInv'
    <2>1. ASSUME pc' = [pc EXCEPT ![c] = "waiting"], phase' = phase PROVE UsedInv'
      <3>1. ~Uses(c)'
        BY <1>0, <2>1 DEF Uses
      <3> QED BY <1>1, <1>3, <2>1, <3>1
    <2> QED BY <1>6, <1>7, <1>8, <1>9, <2>1 DEF Call
  <1>10. CASE Granted(c)
    <2>1. chat[c] \in Chats
      BY <1>0, <1>10 DEF Granted
    <2> QED BY <1>6, <1>7, <1>8, <1>10, <2>1 DEF Granted
  <1>11. CASE RaiseGone(c) \/ LaunchFails(c) \/ SessionEnded(c)
    <2>1. ~Uses(c)'
      BY <1>0, <1>11 DEF RaiseGone, LaunchFails, SessionEnded, CountOut, Return, Uses
    <2>2. PICK end \in {"down", "aborted"} : phase' = [phase EXCEPT ![drv[c]] = end]
      BY <1>11, EndsKnown DEF RaiseGone, LaunchFails, SessionEnded, Closed, After
    <2> QED BY <1>1, <1>2, <2>1, <2>2
  <1>12. CASE Evicted(c)
    BY <1>1, <1>4, <1>12 DEF Evicted
  <1>13. CASE TakeProfile(c)
    <2>1. /\ phase' = [phase EXCEPT ![drv[c]] = "starting"] /\ phase[drv[c]] = "launching"
          /\ ~Uses(c)'
      BY <1>13 DEF TakeProfile, callerVars, Uses
    <2> QED BY <1>1, <1>2, <2>1
  <1>14. CASE Launched(c)
    <2>1. /\ phase' = [phase EXCEPT ![drv[c]] = "open"] /\ drv'[c] = drv[c]
          /\ drv[c] \in Drivers
      BY <1>0, <1>14 DEF Launched, Attach
    <2>2. phase'[drv'[c]] = "open"
      BY <1>0, <2>1
    <2> QED BY <1>1, <1>2, <2>1, <2>2
  <1>15. CASE ViewerActs(c) \/ Leave(c)
    <2>1. phase' = phase /\ (Uses(c)' => Uses(c) /\ drv'[c] = drv[c])
      BY <1>0, <1>15 DEF ViewerActs, Leave, CountOut, Return, callerVars, Uses
    <2> QED BY <1>1, <1>3, <2>1
  <1>16. CASE EndSession(c)
    <2>1. Uses(c) /\ drv'[c] = drv[c]
      BY <1>16 DEF EndSession, Uses
    <2> QED BY <1>1, <1>5, <1>16, <2>1 DEF EndSession
  <1> QED BY <1>9, <1>10, <1>11, <1>12, <1>13, <1>14, <1>15, <1>16 DEF CallerStep

LEMMA UsedCorrect == Spec => []UsedInv
  <1>1. Init => UsedInv
    BY DEF Init, UsedInv, Uses
  <1>2. LifeInv /\ UsedInv /\ [Next]_vars => UsedInv'
    <2> SUFFICES ASSUME LifeInv, UsedInv, [Next]_vars PROVE UsedInv'
      OBVIOUS
    <2>0. /\ phase \in [Drivers -> Phases] /\ sweepDrv \in Drivers \cup {NoDriver}
          /\ \A b \in Callers : pc[b] \notin {"idle", "waiting"} => drv[b] \in Drivers
      BY DEF LifeInv, TypeInv, TypeOK, DriverOfStep
    \* Sweeps and browsers that leave launch nothing.
    <2>1. ASSUME pc' = pc, drv' = drv,
                 \A d \in Drivers : \/ phase'[d] = phase[d]
                                    \/ phase'[d] \notin {"launching", "starting"}
          PROVE  UsedInv'
      <3> SUFFICES ASSUME NEW b \in Callers, Uses(b)
                   PROVE  phase'[drv[b]] \notin {"launching", "starting"}
        BY <2>1 DEF UsedInv, Uses
      <3>1. drv[b] \in Drivers /\ phase[drv[b]] \notin {"launching", "starting"}
        BY <2>0 DEF UsedInv, Uses
      <3> QED BY <2>1, <3>1
    <2>2. ASSUME NEW list, NEW ph, CloseNext(list, ph),
                 ph = phase \/ \E end \in {"down", "aborted"} : ph = After(sweepDrv, end)
          PROVE  \A d \in Drivers : \/ phase'[d] = phase[d]
                                    \/ phase'[d] \notin {"launching", "starting"}
      <3>1. \A d \in Drivers : ph[d] = phase[d] \/ ph[d] \notin {"launching", "starting"}
        BY <2>0, <2>2 DEF After
      <3>2. ph \in [Drivers -> Phases]
        BY <2>0, <2>2 DEF After, Phases
      <3>3. phase' = ph \/ \E s : phase' = [ph EXCEPT ![registry[s]] = "closing"]
        BY <2>2 DEF CloseNext, PopSession
      <3> QED BY <3>1, <3>2, <3>3
    <2>3. CASE SweepStep
      <3>1. pc' = pc /\ drv' = drv
        BY <2>3 DEF SweepStep, ReapIdle, ReapNext, Shutdown, CloseAllNext, callerVars
      <3>2. PICK list, ph : /\ CloseNext(list, ph)
                            /\ \/ ph = phase
                               \/ \E end \in {"down", "aborted"} : ph = After(sweepDrv, end)
        BY <2>3, EndsKnown DEF SweepStep, ReapIdle, ReapNext, Shutdown, CloseAllNext, SweepOn
      <3> QED BY <2>1, <2>2, <3>1, <3>2
    <2>4. ASSUME NEW d \in Drivers, BrowserLeaves(d) PROVE UsedInv'
      BY <2>0, <2>1, <2>4 DEF BrowserLeaves, callerVars
    <2> QED BY <2>1, <2>3, <2>4, CallerUsed DEF Next, Tick, vars, callerVars
  <1> QED BY <1>1, <1>2, LifeCorrect, PTL DEF Spec

\* Who uses the browser d, and what any step may do to it.
On(d) == {c \in Callers : Uses(c) /\ drv[c] = d}

Lives(d) ==
    \/ ~Owns(d) /\ ~Owns(d)'
    \/ phase[d] \in {"starting", "closing"} /\ phase'[d] = "down"
    \/ /\ chatOf'[d] = chatOf[d]
       /\ \/ /\ phase'[d] = phase[d]
             /\ \/ On(d)' = On(d)
                \/ Owns(d) /\ \E c \in On(d) : On(d)' = On(d) \ {c}
                \/ /\ phase[d] \in {"open", "gone"}
                   /\ \E c \in Callers \ On(d) : On(d)' = On(d) \cup {c}
          \/ /\ phase[d] = "launching" /\ phase'[d] = "starting"
             /\ Owners(chatOf[d]) = {} /\ On(d)' = {}
          \/ /\ phase[d] = "starting" /\ phase'[d] = "open"
             /\ \E c \in Callers : On(d)' = {c}
          \/ /\ phase[d] \in {"open", "gone"} /\ phase'[d] = "closing"
             /\ On(d)' = On(d)
          \/ /\ phase[d] = "closing" /\ phase'[d] = "aborted"
             /\ On(d)' = On(d) \/ \E c \in On(d) : On(d)' = On(d) \ {c}

\* The life of a browser, as ChatBrowser names it.
Life(p) == CASE p = "starting" -> "starting"
             [] p \in {"open", "gone"} -> "up"
             [] p = "closing" -> "stopping"
             [] OTHER -> "aborted"

\* If no driver does anything else, each chat is kept its promise: the driver that owns
\* its profile is the only one that matters, and none comes to own it before that.
LEMMA LivesKept ==
    ASSUME LifeInv, LifeInv', OneOwner, OneOwner', NEW s \in Chats, \A d \in Drivers : Lives(d)
    PROVE  [Promise(s)!Next]_<<LifeOf(s), UsersOf(s)>>
  <1>0. phase \in [Drivers -> Phases] /\ phase' \in [Drivers -> Phases]
    BY DEF LifeInv, TypeInv, TypeOK
  <1>1. /\ \A d : d \in Owners(s) <=> d \in Drivers /\ Owns(d) /\ chatOf[d] = s
        /\ \A d : d \in Owners(s)' <=> d \in Drivers /\ Owns(d)' /\ chatOf'[d] = s
    BY <1>0 DEF Owners, Owns, Phases
  <1>2. ASSUME NEW d \in Owners(s)
        PROVE  LifeOf(s) = Life(phase[d]) /\ UsersOf(s) = On(d)
    <2>1. Owners(s) = {d}
      BY <1>1, <1>2 DEF OneOwner
    <2> QED BY <2>1 DEF LifeOf, Life, UsersOf, On, Uses
  <1>3. ASSUME NEW d, d \in Owners(s)'
        PROVE  LifeOf(s)' = Life(phase'[d]) /\ UsersOf(s)' = On(d)'
    <2>1. Owners(s)' = {d}
      BY <1>1, <1>3 DEF OneOwner
    <2> QED BY <2>1 DEF LifeOf, Life, UsersOf, On, Uses
  <1>4. Owners(s) = {} => LifeOf(s) = "down" /\ UsersOf(s) = {}
    BY DEF LifeOf, UsersOf
  <1>5. Owners(s)' = {} => LifeOf(s)' = "down" /\ UsersOf(s)' = {}
    BY DEF LifeOf, UsersOf
  <1> USE DEF Promise!Next
  <1>6. CASE Owners(s) = {}
    <2>1. CASE Owners(s)' = {}
      BY <1>4, <1>5, <1>6, <2>1
    <2>2. ASSUME NEW d, d \in Owners(s)' PROVE Promise(s)!Start
      <3>1. d \in Drivers /\ Owns(d)' /\ chatOf'[d] = s /\ ~(Owns(d) /\ chatOf[d] = s)
        BY <1>1, <1>6, <2>2
      <3>2. phase'[d] = "starting" /\ On(d)' = {}
        BY <3>1 DEF Lives, Owns
      <3> QED BY <1>3, <1>4, <1>6, <2>2, <3>2 DEF Life, Promise!Start
    <2> QED BY <2>1, <2>2
  <1>7. ASSUME NEW d \in Owners(s) PROVE [Promise(s)!Next]_<<LifeOf(s), UsersOf(s)>>
    <2>1. d \in Drivers /\ Owns(d) /\ chatOf[d] = s /\ Lives(d)
      BY <1>1, <1>7
    <2>2. LifeOf(s) = Life(phase[d]) /\ UsersOf(s) = On(d)
      BY <1>2, <1>7
    <2>3. CASE phase[d] \in {"starting", "closing"} /\ phase'[d] = "down"
      <3>1. ASSUME NEW e, e \in Owners(s)' PROVE FALSE
        <4>1. e \in Drivers /\ Owns(e)' /\ chatOf'[e] = s /\ Lives(e) /\ e # d
          BY <1>1, <2>3, <3>1 DEF Owns
        <4>2. ~Owns(e) \/ chatOf[e] # s
          BY <2>1, <4>1 DEF OneOwner
        <4> QED BY <1>1, <1>7, <4>1, <4>2 DEF Lives, Owns
      <3>2. LifeOf(s)' = "down" /\ UsersOf(s)' = {}
        BY <1>5, <3>1
      <3> QED BY <2>2, <2>3, <3>2 DEF Life, Promise!Fail, Promise!Stopped
    <2>4. CASE Owns(d)' /\ chatOf'[d] = s
      <3>1. LifeOf(s)' = Life(phase'[d]) /\ UsersOf(s)' = On(d)'
        BY <1>1, <1>3, <2>1, <2>4
      <3>2. CASE phase'[d] = phase[d] /\ On(d)' = On(d)
        BY <2>2, <3>1, <3>2
      <3>3. ASSUME phase'[d] = phase[d], NEW c \in On(d), On(d)' = On(d) \ {c}
            PROVE  Promise(s)!Part(c) /\ c \in Callers
        BY <2>2, <3>1, <3>3 DEF On, Promise!Part
      <3>4. ASSUME phase'[d] = phase[d], phase[d] \in {"open", "gone"},
                   NEW c \in Callers \ On(d), On(d)' = On(d) \cup {c}
            PROVE  Promise(s)!Join(c)
        BY <2>2, <3>1, <3>4 DEF Life, Promise!Join
      <3>5. ASSUME phase[d] = "starting", phase'[d] = "open", NEW c \in Callers, On(d)' = {c}
            PROVE  Promise(s)!Rise(c)
        BY <2>2, <3>1, <3>5 DEF Life, Promise!Rise
      <3>6. CASE phase[d] \in {"open", "gone"} /\ phase'[d] = "closing" /\ On(d)' = On(d)
        BY <2>2, <3>1, <3>6 DEF Life, Promise!Stop
      <3>7. CASE /\ phase[d] = "closing" /\ phase'[d] = "aborted"
                 /\ On(d)' = On(d) \/ \E c \in On(d) : On(d)' = On(d) \ {c}
        BY <2>2, <3>1, <3>7 DEF Life, Promise!Abort
      <3> QED BY <2>1, <2>4, <3>2, <3>3, <3>4, <3>5, <3>6, <3>7 DEF Lives, Owns
    <2> QED BY <2>1, <2>3, <2>4 DEF Lives, Owns
  <1> QED BY <1>6, <1>7

\* How a step of c changes who uses what.
LEMMA OnSame ==
    ASSUME NEW c \in Callers, Alone(c),
           \/ ~Uses(c) /\ ~Uses(c)'
           \/ Uses(c) /\ Uses(c)' /\ drv'[c] = drv[c]
    PROVE  \A d : On(d)' = On(d)
  BY DEF Alone, On, Uses

LEMMA OnComes ==
    ASSUME NEW c \in Callers, Alone(c), ~Uses(c), Uses(c)'
    PROVE  \A d : /\ c \notin On(d)
                  /\ On(d)' = IF d = drv'[c] THEN On(d) \cup {c} ELSE On(d)
  BY DEF Alone, On, Uses

LEMMA OnLeaves ==
    ASSUME NEW c \in Callers, Alone(c), Uses(c), ~Uses(c)'
    PROVE  /\ c \in On(drv[c])
           /\ \A d : On(d)' = IF d = drv[c] THEN On(d) \ {c} ELSE On(d)
  BY DEF Alone, On, Uses

LEMMA CallerLives ==
    ASSUME Mode = "profile", LifeInv, UsedInv, NEW c \in Callers, CallerStep(c),
           NEW d \in Drivers
    PROVE  Lives(d)
  <1>0. /\ Alone(c) /\ pc \in [Callers -> Steps] /\ phase \in [Drivers -> Phases]
        /\ drv \in [Callers -> Drivers \cup {NoDriver}]
        /\ registry \in [Chats -> Drivers \cup {NoDriver}]
        /\ chatOf \in [Drivers -> Chats \cup {NoChat}]
        /\ pc[c] # "idle" => chat[c] \in Chats
        /\ pc[c] \notin {"idle", "waiting"} => drv[c] \in Drivers
    BY StepAlone DEF LifeInv, TypeInv, TypeOK, DriverOfStep
  <1>1. ASSUME phase' = phase, chatOf' = chatOf, On(d)' = On(d) PROVE Lives(d)
    BY <1>1 DEF Lives
  <1>2. ASSUME NEW s \in Warm, NEW locks, PopSession(s, locks, phase), chatOf' = chatOf,
               On(d)' = On(d)
        PROVE  Lives(d)
    <2>1. /\ phase' = [phase EXCEPT ![registry[s]] = "closing"]
          /\ phase[registry[s]] \in {"open", "gone"}
      BY <1>2 DEF PopSession, LifeInv, RegisteredIsUp
    <2> QED BY <1>0, <1>2, <2>1 DEF Lives
  <1>3. ASSUME NEW s, StartLaunch(c, s, phase, chatOf), On(d)' = On(d) PROVE Lives(d)
    <2>1. PICK e \in FreshDrivers : /\ phase' = [phase EXCEPT ![e] = "launching"]
                                    /\ chatOf' = [chatOf EXCEPT ![e] = s]
      BY <1>3 DEF StartLaunch
    <2> QED BY <1>0, <1>3, <2>1 DEF Lives, FreshDrivers, IdleDriver, Owns
  <1>4. ASSUME NEW s, NEW locks, EvictOrLaunch(c, s, locks), ~Uses(c) PROVE Lives(d)
    <2>1. On(d)' = On(d)
      <3>1. ~Uses(c)'
        BY <1>0, <1>4 DEF EvictOrLaunch, StartLaunch, Uses
      <3> QED BY <1>0, <1>4, <3>1, OnSame
    <2>2. ASSUME NEW v \in Victims, PopSession(v, locks, phase), chatOf' = chatOf PROVE Lives(d)
      BY <1>2, <2>1, <2>2 DEF Victims, Evictable
    <2> QED BY <1>3, <1>4, <2>1, <2>2 DEF EvictOrLaunch
  <1>5. ASSUME NEW s \in Chats, FindGone(c, s), Gone(s), ~Uses(c) PROVE Lives(d)
    <2>1. s \in Warm /\ ~Uses(c)' /\ chatOf' = chatOf
      BY <1>0, <1>5 DEF FindGone, Gone, Warm, Uses
    <2>2. On(d)' = On(d)
      BY <1>0, <1>5, <2>1, OnSame
    <2> QED BY <1>2, <1>5, <2>1, <2>2 DEF FindGone
  <1>6. ASSUME NEW s \in Chats, Live(s), Attach(c, registry[s]), ~Uses(c),
               UNCHANGED <<phase, chatOf>>
        PROVE  Lives(d)
    <2>1. Uses(c)' /\ drv'[c] = registry[s]
      BY <1>0, <1>6 DEF Attach, Uses
    <2>2. phase[registry[s]] \in {"open", "gone"}
      BY <1>6 DEF Live, LifeInv, RegisteredIsUp, Warm
    <2>3. c \notin On(d) /\ On(d)' = IF d = registry[s] THEN On(d) \cup {c} ELSE On(d)
      BY <1>0, <1>6, <2>1, OnComes
    <2>4. CASE d = registry[s]
      BY <1>6, <2>2, <2>3, <2>4 DEF Lives
    <2> QED BY <1>1, <1>6, <2>3, <2>4
  <1>7. ASSUME NEW s \in Chats, Call(c, s) PROVE Lives(d)
    <2>1. ~Uses(c)
      BY <1>7 DEF Call, Uses
    <2>2. ASSUME pc' = [pc EXCEPT ![c] = "waiting"], UNCHANGED <<phase, chatOf>>
          PROVE  Lives(d)
      <3>1. ~Uses(c)'
        BY <1>0, <2>2 DEF Uses
      <3> QED BY <1>0, <1>1, <2>1, <2>2, <3>1, OnSame
    <2> QED BY <1>4, <1>5, <1>6, <1>7, <2>1, <2>2 DEF Call
  <1>8. CASE Granted(c)
    <2>1. ~Uses(c) /\ chat[c] \in Chats
      BY <1>0, <1>8 DEF Granted, Uses
    <2> QED BY <1>4, <1>5, <1>6, <1>8, <2>1 DEF Granted
  \* What c had in its hands, closing or launching, is over, and c with it.
  <1>9. CASE RaiseGone(c) \/ LaunchFails(c) \/ SessionEnded(c)
    <2>1. PICK end \in {"down", "aborted"} :
             /\ phase' = After(drv[c], end) /\ chatOf' = IdAfter(drv[c], end)
             /\ end = "aborted" => phase[drv[c]] = "closing"
      BY <1>9, EndsKnown DEF RaiseGone, LaunchFails, SessionEnded, Closed, LifeInv, CloseOwned,
         Closes
    <2>2. /\ phase[drv[c]] \in {"closing", "launching", "starting"} /\ drv[c] \in Drivers
          /\ ~Uses(c)'
      BY <1>0, <1>9 DEF RaiseGone, LaunchFails, SessionEnded, CountOut, Return, LifeInv, LaunchOwned,
         CloseOwned, Closes, Uses
    <2>3. \/ On(d)' = On(d)
          \/ d = drv[c] /\ \E b \in On(d) : On(d)' = On(d) \ {b}
      BY <1>0, <2>2, OnSame, OnLeaves
    <2>4. /\ phase'[drv[c]] = end
          /\ end = "aborted" => chatOf'[drv[c]] = chatOf[drv[c]]
          /\ d # drv[c] => phase'[d] = phase[d] /\ chatOf'[d] = chatOf[d]
      BY <2>1, <2>2, AfterType DEF LifeInv, TypeInv
    <2>5. CASE d = drv[c]
      BY <2>1, <2>2, <2>3, <2>4, <2>5 DEF Lives, Owns
    <2>6. CASE d # drv[c]
      BY <2>3, <2>4, <2>6 DEF Lives
    <2> QED BY <2>5, <2>6
  <1>10. CASE Evicted(c)
    <2>0. PICK end \in Ends : StartLaunch(c, chat[c], After(drv[c], end), IdAfter(drv[c], end))
      BY <1>10 DEF Evicted
    <2> DEFINE ph == After(drv[c], end)
               ids == IdAfter(drv[c], end)
    <2>1. PICK e \in FreshDrivers :
             /\ phase' = [ph EXCEPT ![e] = "launching"]
             /\ chatOf' = [ids EXCEPT ![e] = chat[c]]
             /\ pc' = [pc EXCEPT ![c] = "launching"]
      BY <2>0 DEF StartLaunch
    <2>2. /\ phase[drv[c]] = "closing" /\ ~Uses(c) /\ ~Uses(c)' /\ drv[c] # e
          /\ drv[c] \in Drivers /\ e \in Drivers /\ phase[e] = "down"
      BY <1>0, <1>10, <2>1 DEF Evicted, LifeInv, CloseOwned, Closes, Uses, FreshDrivers, IdleDriver
    <2>3. On(d)' = On(d)
      BY <1>0, <2>2, OnSame
    <2>4. /\ ph \in [Drivers -> Phases] /\ ids \in [Drivers -> Chats \cup {NoChat}]
          /\ ph[drv[c]] = "down" \/ (ph[drv[c]] = "aborted" /\ ids[drv[c]] = chatOf[drv[c]])
          /\ d # drv[c] => ph[d] = phase[d] /\ ids[d] = chatOf[d]
      <3>1. end \in {"down", "aborted"}
        BY EndsKnown
      <3> QED BY <2>2, <3>1, AfterType DEF LifeInv, TypeInv
    <2> HIDE DEF ph, ids
    <2>5. d # e => phase'[d] = ph[d] /\ chatOf'[d] = ids[d]
      BY <2>1, <2>4
    <2>6. CASE d = drv[c]
      BY <2>2, <2>3, <2>4, <2>5, <2>6 DEF Lives
    <2>7. CASE d = e
      BY <2>1, <2>2, <2>4, <2>7 DEF Lives, Owns
    <2>8. CASE d # e /\ d # drv[c]
      BY <2>3, <2>4, <2>5, <2>8 DEF Lives
    <2> QED BY <2>6, <2>7, <2>8
  <1>11. CASE TakeProfile(c)
    <2>1. /\ phase' = [phase EXCEPT ![drv[c]] = "starting"] /\ phase[drv[c]] = "launching"
          /\ UNCHANGED <<pc, drv, chatOf>> /\ chatOf[drv[c]] = chat[c] /\ ~ProfileHeld(chat[c])
      BY <1>11 DEF TakeProfile, callerVars, LifeInv, LaunchOwned
    <2>2. On(d)' = On(d)
      BY <2>1 DEF On, Uses
    <2>3. CASE d = drv[c]
      <3>1. Owners(chatOf[d]) = {}
        BY <1>0, <2>1, <2>3 DEF Owners, ProfileHeld, Phases
      <3>2. On(d) = {}
        BY <2>1, <2>3 DEF UsedInv, On
      <3> QED BY <1>0, <2>1, <2>2, <2>3, <3>1, <3>2 DEF Lives
    <2> QED BY <1>0, <2>1, <2>2, <2>3 DEF Lives
  <1>12. CASE Launched(c)
    <2>1. /\ phase' = [phase EXCEPT ![drv[c]] = "open"] /\ phase[drv[c]] = "starting"
          /\ chatOf' = chatOf /\ ~Uses(c) /\ Uses(c)' /\ drv'[c] = drv[c]
      BY <1>0, <1>12 DEF Launched, Attach, Uses
    <2>2. On(d)' = IF d = drv[c] THEN On(d) \cup {c} ELSE On(d)
      BY <1>0, <2>1, OnComes
    <2>3. CASE d = drv[c]
      <3>1. On(d) = {}
        BY <2>1, <2>3 DEF UsedInv, On
      <3>2. On(d)' = {c}
        BY <2>2, <2>3, <3>1
      <3> QED BY <1>0, <2>1, <2>3, <3>2 DEF Lives
    <2> QED BY <1>0, <2>1, <2>2, <2>3 DEF Lives
  <1>13. CASE ViewerActs(c)
    BY <1>1, <1>13 DEF ViewerActs, callerVars, On, Uses
  <1>14. CASE EndSession(c)
    <2>1. /\ Uses(c) /\ Uses(c)' /\ drv'[c] = drv[c] /\ chatOf' = chatOf
          /\ chat[c] \in Chats /\ drv[c] \in Drivers /\ registry[chat[c]] = drv[c]
      BY <1>0, <1>14 DEF EndSession, Uses
    <2>2. chat[c] \in Warm
      BY <2>1, NoneAssumption DEF Warm
    <2>3. On(d)' = On(d)
      BY <1>0, <2>1, OnSame
    <2> QED BY <1>2, <1>14, <2>1, <2>2, <2>3 DEF EndSession
  <1>15. CASE Leave(c)
    <2>1. Uses(c) /\ ~Uses(c)' /\ phase' = phase /\ chatOf' = chatOf
      BY <1>0, <1>15 DEF Leave, CountOut, Return, Uses
    <2>2. c \in On(drv[c]) /\ On(d)' = IF d = drv[c] THEN On(d) \ {c} ELSE On(d)
      BY <1>0, <2>1, OnLeaves
    <2>3. CASE d = drv[c]
      BY <2>1, <2>2, <2>3 DEF Lives, Owns
    <2> QED BY <1>1, <2>1, <2>2, <2>3
  <1> QED BY <1>7, <1>8, <1>9, <1>10, <1>11, <1>12, <1>13, <1>14, <1>15 DEF CallerStep

\* A sweep stops what it pops, and the one before has stopped, or is aborted.
LEMMA SweepLives == ASSUME LifeInv, SweepStep, NEW d \in Drivers PROVE Lives(d)
  <1>0. /\ phase \in [Drivers -> Phases] /\ chatOf \in [Drivers -> Chats \cup {NoChat}]
        /\ sweepDrv \in Drivers \cup {NoDriver}
        /\ sweepDrv # NoDriver => phase[sweepDrv] = "closing"
        /\ \A s \in Warm : /\ registry[s] \in Drivers /\ registry[s] # sweepDrv
                           /\ phase[registry[s]] \in {"open", "gone"}
    BY PopOwns DEF LifeInv, TypeInv, TypeOK, CloseOwned
  <1>1. On(d)' = On(d)
    BY DEF SweepStep, ReapIdle, ReapNext, Shutdown, CloseAllNext, callerVars, On, Uses
  <1>2. ASSUME NEW list, NEW ph \in [Drivers -> Phases], CloseNext(list, ph),
               \A e \in Drivers : e # sweepDrv => ph[e] = phase[e] /\ chatOf'[e] = chatOf[e],
               \/ sweepDrv = NoDriver \/ ph[sweepDrv] = "down"
               \/ ph[sweepDrv] = "aborted" /\ chatOf' = chatOf
        PROVE  Lives(d)
    <2>1. phase' = ph \/ \E s \in Warm : phase' = [ph EXCEPT ![registry[s]] = "closing"]
      BY <1>2 DEF CloseNext, PopSession
    <2>2. CASE d = sweepDrv
      <3>1. phase[d] = "closing" /\ phase'[d] = ph[d]
        BY <1>0, <1>2, <2>1, <2>2, NoneAssumption
      <3> QED BY <1>1, <1>2, <2>2, <3>1, NoneAssumption DEF Lives
    <2>3. CASE d # sweepDrv
      BY <1>0, <1>1, <1>2, <2>1, <2>3 DEF Lives
    <2> QED BY <2>2, <2>3
  <1>3. CASE ReapIdle
    BY <1>0, <1>2, <1>3 DEF ReapIdle
  <1>a. ASSUME NEW end \in {"down", "aborted"}
        PROVE  /\ After(sweepDrv, end) \in [Drivers -> Phases]
               /\ \A e \in Drivers : e # sweepDrv => /\ After(sweepDrv, end)[e] = phase[e]
                                                   /\ IdAfter(sweepDrv, end)[e] = chatOf[e]
               /\ sweepDrv = NoDriver \/ After(sweepDrv, end)[sweepDrv] = end
               /\ end = "aborted" => IdAfter(sweepDrv, end) = chatOf
    <2>1. end = "aborted" => IdAfter(sweepDrv, end) = chatOf
      BY <1>0 DEF IdAfter
    <2> QED BY <1>0, <1>a, <2>1, AfterType DEF LifeInv, TypeInv
  <1>4. CASE ReapNext \/ CloseAllNext
    <2>1. PICK end \in Ends : /\ CloseNext(todo, After(sweepDrv, end))
                              /\ chatOf' = IdAfter(sweepDrv, end)
      BY <1>4 DEF ReapNext, CloseAllNext, SweepOn
    <2>2. end \in {"down", "aborted"} BY EndsKnown
    <2> QED BY <1>2, <1>a, <2>1, <2>2
  <1>5. CASE Shutdown
    <2>1. chatOf' = chatOf
      BY <1>5 DEF Shutdown
    <2>2. CASE sweepDrv = NoDriver
      BY <1>0, <1>2, <1>5, <2>1, <2>2 DEF Shutdown
    <2>3. CASE sweepDrv # NoDriver
      <3>1. CloseNext(Warm, After(sweepDrv, "aborted"))
        BY <1>5, <2>3 DEF Shutdown
      <3> QED BY <1>2, <1>a, <2>1, <3>1
    <2> QED BY <2>2, <2>3
  <1> QED BY <1>3, <1>4, <1>5 DEF SweepStep

\* With persistent profiles one driver at most owns the profile of a chat.
LEMMA OwnerCorrect == ASSUME Mode = "profile" PROVE Spec => []OneOwner
  <1>1. Init => OneOwner
    BY DEF Init, OneOwner, Owns
  <1>2. LifeInv /\ OpenIsRegistered /\ OneOwner /\ [Next]_vars => OneOwner'
    <2> SUFFICES ASSUME ProfileInv, [Next]_vars PROVE OneOwner'
      BY DEF ProfileInv
    <2>1. ASSUME UNCHANGED <<phase, chatOf>> PROVE OneOwner'
      BY <2>1 DEF ProfileInv, OneOwner, Owns
    <2> QED BY <2>1, CallerProfile, SweepProfile DEF Next, BrowserLeaves, Tick, vars
  <1> QED BY <1>1, <1>2, LifeCorrect, NothingLost, PTL DEF Spec

\* With persistent profiles each chat gets what ChatBrowser.tla promises, whatever calls,
\* evictions, sweeps and the shutdown do to the others: one browser at a time, one life
\* after the other, joined only while it is up.
THEOREM PromiseKept == ASSUME Mode = "profile", NEW s \in Chats PROVE Spec => Promise(s)!Spec
  <1> DEFINE Inv == LifeInv /\ OneOwner /\ UsedInv
  <1>1. Init => Promise(s)!Init
    BY DEF Init, Promise!Init, LifeOf, UsersOf, Owners
  <1>2. Inv /\ Inv' /\ [Next]_vars => [Promise(s)!Next]_<<LifeOf(s), UsersOf(s)>>
    <2> SUFFICES ASSUME Inv, Inv', [Next]_vars
                 PROVE  [Promise(s)!Next]_<<LifeOf(s), UsersOf(s)>>
      OBVIOUS
    <2>1. ASSUME NEW d \in Drivers PROVE Lives(d)
      <3>1. ASSUME UNCHANGED <<phase, chatOf, pc, drv>> PROVE Lives(d)
        BY <3>1 DEF Lives, On, Uses
      <3> QED BY <3>1, CallerLives, SweepLives DEF Next, BrowserLeaves, Tick, vars, callerVars
    <2> QED BY <2>1, LivesKept
  <1>3. Spec => []Inv
    BY LifeCorrect, OwnerCorrect, UsedCorrect, PTL
  <1> QED BY <1>1, <1>2, <1>3, PTL DEF Spec, Promise!Spec
=============================================================================
