------------------------------ MODULE BootProofs ------------------------------
(***************************************************************************)
(* Proofs about uboot.  Of Boot: the order of start-up, the meaning of      *)
(* Require and the scope of the timers, for any set of units.  Of Event:    *)
(* that Publish runs the handlers that are subscribed, for any number of    *)
(* callers, workers and handlers.  The two share no state.                  *)
(***************************************************************************)
EXTENDS Boot, Event, TLAPS

USE BootAssumption DEF UintType, Names, Phase, Status, Of, AllEnded, Create,
  Arm, Stop, requireVars

-----------------------------------------------------------------------------
(* Types.                                                                   *)

LEMMA InitTypes == Init => TypeOK
  BY DEF Init, TypeOK

LEMMA NextTypes == TypeOK /\ [Next]_vars => TypeOK'
<1> SUFFICES ASSUME TypeOK, [Next]_vars PROVE TypeOK'
  OBVIOUS
<1> USE DEF TypeOK
<1>1. ASSUME NEW t \in UintType, StartNext(t) PROVE TypeOK'
  BY <1>1 DEF StartNext
<1>2. CASE Start
  BY <1>2 DEF Start
<1>3. CASE FrontDone
  BY <1>3 DEF FrontDone
<1>4. CASE CreateBackground
  BY <1>4 DEF CreateBackground
<1>5. CASE CreateNormal
  BY <1>5 DEF CreateNormal
<1>6. CASE NormalDone
  BY <1>6 DEF NormalDone
<1>7. CASE CreateDaemon
  BY <1>7 DEF CreateDaemon
<1>8. CASE AfterDone
  BY <1>8 DEF AfterDone
<1>9. CASE DaemonDone
  BY <1>9 DEF DaemonDone
<1>10. CASE BackgroundDone
  BY <1>10 DEF BackgroundDone
<1>11. CASE BootTimerFires
  BY <1>11 DEF BootTimerFires
<1>12. ASSUME NEW u \in Unit, StartUnit(u) PROVE TypeOK'
  BY <1>12 DEF StartUnit
<1>13. ASSUME NEW u \in Unit, DaemonRestarts(u) PROVE TypeOK'
  BY <1>13 DEF DaemonRestarts
<1>14. ASSUME NEW u \in Unit, Require(u) PROVE TypeOK'
  BY <1>14 DEF Require
<1>15. ASSUME NEW u \in Unit, RequireReturns(u) PROVE TypeOK'
  BY <1>15 DEF RequireReturns
<1>16. ASSUME NEW u \in Unit, HandlerReturns(u) PROVE TypeOK'
  BY <1>16 DEF HandlerReturns
<1>17. ASSUME NEW u \in Unit, HandlerFails(u) PROVE TypeOK'
  BY <1>17 DEF HandlerFails
<1>18. ASSUME NEW u \in Unit, HandlerPanics(u) PROVE TypeOK'
  BY <1>18 DEF HandlerPanics
<1>19. ASSUME NEW u \in Unit, DaemonPanics(u) PROVE TypeOK'
  BY <1>19 DEF DaemonPanics
<1>20. ASSUME NEW u \in Unit, RequireGivesUp(u) PROVE TypeOK'
  BY <1>20 DEF RequireGivesUp
<1>21. ASSUME NEW u \in Unit, TimerFires(u) PROVE TypeOK'
  BY <1>21 DEF TimerFires
<1>22. ASSUME NEW u \in Unit, RequireUnknown(u) PROVE TypeOK'
  BY <1>22 DEF RequireUnknown
<1>23. CASE Unwound
  BY <1>23 DEF Unwound
<1>24. CASE UNCHANGED vars
  BY <1>24 DEF vars
<1>25. QED
  BY <1>1, <1>2, <1>3, <1>4, <1>5, <1>6, <1>7, <1>8, <1>9, <1>10, <1>11,
     <1>12, <1>13, <1>14, <1>15, <1>16, <1>17, <1>18, <1>19, <1>20, <1>21,
     <1>22, <1>23, <1>24
     DEF Next, StartStep, UnitStep, UnitGoesOn

\* The variables of uboot keep their types, whatever the units do.
THEOREM BootTypeCorrect == Spec => []TypeOK
  BY InitTypes, NextTypes, PTL DEF Spec

-----------------------------------------------------------------------------
(* What the phase of Start says of the units of each type.                  *)

Untouched(t) == \A u \in Unit : Utype[u] = t => status[u] = "registered"
Over(t) == \A u \in Unit : Utype[u] = t => status[u] = "ended"

PhaseInv ==
  /\ phase = "new" => Untouched("front")
  /\ phase \notin {"new", "front"} => Over("front")
  /\ phase \in {"new", "front", "background"} => Untouched("background")
  /\ phase = "done" => Over("background")
  /\ phase \in {"new", "front", "background", "normal"} => Untouched("normal")
  /\ phase \in {"daemon", "after", "waitDaemon", "waitBackground", "done",
                 "unwinding"} => Over("normal")
  /\ phase \in {"new", "front", "background", "normal", "waitNormal", "daemon"}
       => Untouched("daemon") /\ Untouched("after")
  /\ phase \in {"waitDaemon", "waitBackground", "done"} => Over("after")
  /\ phase \in {"waitBackground", "done"} => Over("daemon")
  /\ \A u, v \in Unit : /\ Utype[u] = Utype[v]
                        /\ Utype[u] \in {"front", "after"}
                        /\ u < v
                        /\ status[v] # "registered"
                        => status[u] = "ended"

LEMMA InitPhase == Init => PhaseInv
  BY DEF Init, PhaseInv, Untouched, Over

LEMMA NextPhase == TypeOK /\ PhaseInv /\ [Next]_vars => PhaseInv'
<1> SUFFICES ASSUME TypeOK, PhaseInv, [Next]_vars PROVE PhaseInv'
  OBVIOUS
<1> USE DEF TypeOK, PhaseInv, Untouched, Over
<1>1. ASSUME NEW t \in UintType, StartNext(t) PROVE PhaseInv'
  BY <1>1 DEF StartNext
<1>2. CASE Start
  BY <1>2 DEF Start
<1>3. CASE FrontDone
  BY <1>3 DEF FrontDone
<1>4. CASE CreateBackground
  BY <1>4 DEF CreateBackground
<1>5. CASE CreateNormal
  BY <1>5 DEF CreateNormal
<1>6. CASE NormalDone
  BY <1>6 DEF NormalDone
<1>7. CASE CreateDaemon
  BY <1>7 DEF CreateDaemon
<1>8. CASE AfterDone
  BY <1>8 DEF AfterDone
<1>9. CASE DaemonDone
  BY <1>9 DEF DaemonDone
<1>10. CASE BackgroundDone
  BY <1>10 DEF BackgroundDone
<1>11. CASE BootTimerFires
  BY <1>11 DEF BootTimerFires
<1>12. ASSUME NEW u \in Unit, StartUnit(u) PROVE PhaseInv'
  BY <1>12 DEF StartUnit
<1>13. ASSUME NEW u \in Unit, DaemonRestarts(u) PROVE PhaseInv'
  BY <1>13 DEF DaemonRestarts
<1>14. ASSUME NEW u \in Unit, Require(u) PROVE PhaseInv'
  BY <1>14 DEF Require
<1>15. ASSUME NEW u \in Unit, RequireReturns(u) PROVE PhaseInv'
  BY <1>15 DEF RequireReturns
<1>16. ASSUME NEW u \in Unit, HandlerReturns(u) PROVE PhaseInv'
  BY <1>16 DEF HandlerReturns
<1>17. ASSUME NEW u \in Unit, HandlerFails(u) PROVE PhaseInv'
  BY <1>17 DEF HandlerFails
<1>18. ASSUME NEW u \in Unit, HandlerPanics(u) PROVE PhaseInv'
  BY <1>18 DEF HandlerPanics
<1>19. ASSUME NEW u \in Unit, DaemonPanics(u) PROVE PhaseInv'
  BY <1>19 DEF DaemonPanics
<1>20. ASSUME NEW u \in Unit, RequireGivesUp(u) PROVE PhaseInv'
  BY <1>20 DEF RequireGivesUp
<1>21. ASSUME NEW u \in Unit, TimerFires(u) PROVE PhaseInv'
  BY <1>21 DEF TimerFires
<1>22. ASSUME NEW u \in Unit, RequireUnknown(u) PROVE PhaseInv'
  BY <1>22 DEF RequireUnknown
<1>23. CASE Unwound
  BY <1>23 DEF Unwound
<1>24. CASE UNCHANGED vars
  BY <1>24 DEF vars
<1>25. QED
  BY <1>1, <1>2, <1>3, <1>4, <1>5, <1>6, <1>7, <1>8, <1>9, <1>10, <1>11,
     <1>12, <1>13, <1>14, <1>15, <1>16, <1>17, <1>18, <1>19, <1>20, <1>21,
     <1>22, <1>23, <1>24
     DEF Next, StartStep, UnitStep, UnitGoesOn

\* Start keeps the order of its phases: no unit begins before the units that its
\* phase waits for have ended.
THEOREM PhasesAreOrdered == Spec => []PhaseOrder
<1>1. TypeOK /\ PhaseInv => PhaseOrder
  BY DEF TypeOK, PhaseInv, Untouched, Over, PhaseOrder, Before
<1>2. QED
  BY <1>1, BootTypeCorrect, InitPhase, NextPhase, PTL DEF Spec

-----------------------------------------------------------------------------
(* Require.  A cancelled context belongs to a unit that has ended, and units *)
(* that have ended stay so.                                                 *)

ReadyEnded == \A n \in ready : \E v \in Unit : Name[v] = n /\ status[v] = "ended"
RequireInv == ReadyEnded /\ \A u \in Unit : met[u] \subseteq ready

LEMMA InitRequire == Init => RequireInv
  BY DEF Init, RequireInv, ReadyEnded

LEMMA EndedStays ==
  TypeOK /\ PhaseInv /\ [Next]_vars
    => \A v \in Unit : status[v] = "ended" => status'[v] = "ended"
<1> DEFINE Goal == \A v \in Unit : status[v] = "ended" => status'[v] = "ended"
<1> SUFFICES ASSUME TypeOK, PhaseInv, [Next]_vars PROVE Goal
  OBVIOUS
<1> USE DEF TypeOK, PhaseInv, Untouched, Over
<1>1. ASSUME NEW t \in UintType, StartNext(t) PROVE Goal
  BY <1>1 DEF StartNext
<1>2. CASE Start
  BY <1>2 DEF Start
<1>3. CASE FrontDone
  BY <1>3 DEF FrontDone
<1>4. CASE CreateBackground
  BY <1>4 DEF CreateBackground
<1>5. CASE CreateNormal
  BY <1>5 DEF CreateNormal
<1>6. CASE NormalDone
  BY <1>6 DEF NormalDone
<1>7. CASE CreateDaemon
  BY <1>7 DEF CreateDaemon
<1>8. CASE AfterDone
  BY <1>8 DEF AfterDone
<1>9. CASE DaemonDone
  BY <1>9 DEF DaemonDone
<1>10. CASE BackgroundDone
  BY <1>10 DEF BackgroundDone
<1>11. CASE BootTimerFires
  BY <1>11 DEF BootTimerFires
<1>12. ASSUME NEW u \in Unit, StartUnit(u) PROVE Goal
  BY <1>12 DEF StartUnit
<1>13. ASSUME NEW u \in Unit, DaemonRestarts(u) PROVE Goal
  BY <1>13 DEF DaemonRestarts
<1>14. ASSUME NEW u \in Unit, Require(u) PROVE Goal
  BY <1>14 DEF Require
<1>15. ASSUME NEW u \in Unit, RequireReturns(u) PROVE Goal
  BY <1>15 DEF RequireReturns
<1>16. ASSUME NEW u \in Unit, HandlerReturns(u) PROVE Goal
  BY <1>16 DEF HandlerReturns
<1>17. ASSUME NEW u \in Unit, HandlerFails(u) PROVE Goal
  BY <1>17 DEF HandlerFails
<1>18. ASSUME NEW u \in Unit, HandlerPanics(u) PROVE Goal
  BY <1>18 DEF HandlerPanics
<1>19. ASSUME NEW u \in Unit, DaemonPanics(u) PROVE Goal
  BY <1>19 DEF DaemonPanics
<1>20. ASSUME NEW u \in Unit, RequireGivesUp(u) PROVE Goal
  BY <1>20 DEF RequireGivesUp
<1>21. ASSUME NEW u \in Unit, TimerFires(u) PROVE Goal
  BY <1>21 DEF TimerFires
<1>22. ASSUME NEW u \in Unit, RequireUnknown(u) PROVE Goal
  BY <1>22 DEF RequireUnknown
<1>23. CASE Unwound
  BY <1>23 DEF Unwound
<1>24. CASE UNCHANGED vars
  BY <1>24 DEF vars
<1>25. QED
  BY <1>1, <1>2, <1>3, <1>4, <1>5, <1>6, <1>7, <1>8, <1>9, <1>10, <1>11,
     <1>12, <1>13, <1>14, <1>15, <1>16, <1>17, <1>18, <1>19, <1>20, <1>21,
     <1>22, <1>23, <1>24
     DEF Next, StartStep, UnitStep, UnitGoesOn

LEMMA NextRequire ==
  TypeOK /\ PhaseInv /\ RequireInv /\ [Next]_vars => RequireInv'
<1> SUFFICES ASSUME TypeOK, PhaseInv, RequireInv, [Next]_vars PROVE RequireInv'
  OBVIOUS
<1> USE DEF TypeOK, RequireInv, ReadyEnded
<1>0. \A v \in Unit : status[v] = "ended" => status'[v] = "ended"
  BY EndedStays
<1>1. ASSUME NEW t \in UintType, StartNext(t) PROVE RequireInv'
  BY <1>0, <1>1 DEF StartNext
<1>2. CASE Start
  BY <1>0, <1>2 DEF Start
<1>3. CASE FrontDone
  BY <1>0, <1>3 DEF FrontDone
<1>4. CASE CreateBackground
  BY <1>0, <1>4 DEF CreateBackground
<1>5. CASE CreateNormal
  BY <1>0, <1>5 DEF CreateNormal
<1>6. CASE NormalDone
  BY <1>0, <1>6 DEF NormalDone
<1>7. CASE CreateDaemon
  BY <1>0, <1>7 DEF CreateDaemon
<1>8. CASE AfterDone
  BY <1>0, <1>8 DEF AfterDone
<1>9. CASE DaemonDone
  BY <1>0, <1>9 DEF DaemonDone
<1>10. CASE BackgroundDone
  BY <1>0, <1>10 DEF BackgroundDone
<1>11. CASE BootTimerFires
  BY <1>0, <1>11 DEF BootTimerFires
<1>12. ASSUME NEW u \in Unit, StartUnit(u) PROVE RequireInv'
  BY <1>0, <1>12 DEF StartUnit
<1>13. ASSUME NEW u \in Unit, DaemonRestarts(u) PROVE RequireInv'
  BY <1>0, <1>13 DEF DaemonRestarts
<1>14. ASSUME NEW u \in Unit, Require(u) PROVE RequireInv'
  BY <1>0, <1>14 DEF Require
<1>15. ASSUME NEW u \in Unit, RequireReturns(u) PROVE RequireInv'
  BY <1>0, <1>15 DEF RequireReturns
<1>16. ASSUME NEW u \in Unit, HandlerReturns(u) PROVE RequireInv'
  BY <1>0, <1>16 DEF HandlerReturns
<1>17. ASSUME NEW u \in Unit, HandlerFails(u) PROVE RequireInv'
  BY <1>0, <1>17 DEF HandlerFails
<1>18. ASSUME NEW u \in Unit, HandlerPanics(u) PROVE RequireInv'
  BY <1>0, <1>18 DEF HandlerPanics
<1>19. ASSUME NEW u \in Unit, DaemonPanics(u) PROVE RequireInv'
  BY <1>0, <1>19 DEF DaemonPanics
<1>20. ASSUME NEW u \in Unit, RequireGivesUp(u) PROVE RequireInv'
  BY <1>0, <1>20 DEF RequireGivesUp
<1>21. ASSUME NEW u \in Unit, TimerFires(u) PROVE RequireInv'
  BY <1>0, <1>21 DEF TimerFires
<1>22. ASSUME NEW u \in Unit, RequireUnknown(u) PROVE RequireInv'
  BY <1>0, <1>22 DEF RequireUnknown
<1>23. CASE Unwound
  BY <1>0, <1>23 DEF Unwound
<1>24. CASE UNCHANGED vars
  BY <1>0, <1>24 DEF vars
<1>25. QED
  BY <1>0, <1>1, <1>2, <1>3, <1>4, <1>5, <1>6, <1>7, <1>8, <1>9, <1>10, <1>11,
     <1>12, <1>13, <1>14, <1>15, <1>16, <1>17, <1>18, <1>19, <1>20, <1>21,
     <1>22, <1>23, <1>24
     DEF Next, StartStep, UnitStep, UnitGoesOn

\* When Require has returned nil for a name, a unit of that name has ended.
THEOREM RequireIsKept == Spec => []RequireKept
<1>1. RequireInv => RequireKept
  BY DEF RequireInv, ReadyEnded, RequireKept
<1>2. QED
  BY <1>1, BootTypeCorrect, InitPhase, NextPhase, InitRequire, NextRequire, PTL
     DEF Spec

-----------------------------------------------------------------------------
(* Waiting.                                                                 *)

\* What a handler waits for in Require is still to come: a unit that will not
\* make the name ready any more has made it so, in time for the wait, whether it
\* returned, failed or recovered.  The one exception is an after unit while its
\* panic, or that of one before it, unwinds Start.  Start waits only for units
\* it has started, in its deferred wait too.
WaitsForWork ==
  /\ \A u \in Unit : status[u] = "waiting" =>
       \A n \in asked[u] \ ready : \A v \in Unit :
         Name[v] = n /\ Gone(v) => Utype[v] = "after" /\ phase = "unwinding"
  /\ \A u \in Unit : <<phase, Utype[u]>> \in {<<"waitNormal", "normal">>,
                       <<"waitDaemon", "daemon">>, <<"waitBackground", "background">>,
                       <<"unwinding", "background">>}
                     => status[u] # "registered"

\* The end of a unit makes its name ready, the phases start their units, and
\* only after units unwind Start.
Begun(t) == \A u \in Unit : Utype[u] = t => status[u] # "registered"

StartedInv ==
  /\ \A v \in Unit : status[v] = "ended" => Name[v] \in ready
  /\ \A v \in Unit : status[v] = "panicked"
                       => Utype[v] = "after" /\ phase = "unwinding"
  /\ phase \notin {"new", "front", "background"} => Begun("background")
  /\ phase \notin {"new", "front", "background", "normal"} => Begun("normal")
  /\ phase \in {"after", "waitDaemon", "waitBackground", "done", "unwinding"}
       => Begun("daemon")

LEMMA NextStarted ==
  TypeOK /\ PhaseInv /\ StartedInv /\ [Next]_vars => StartedInv'
<1> SUFFICES ASSUME TypeOK, PhaseInv, StartedInv, [Next]_vars
             PROVE  StartedInv'
  OBVIOUS
<1> USE DEF TypeOK, StartedInv, Begun
<1>1. ASSUME NEW t \in UintType, StartNext(t) PROVE StartedInv'
  BY <1>1 DEF StartNext
<1>2. CASE Start
  BY <1>2 DEF Start
<1>3. CASE FrontDone
  BY <1>3 DEF FrontDone
<1>4. CASE CreateBackground
  BY <1>4 DEF CreateBackground
<1>5. CASE CreateNormal
  BY <1>5 DEF CreateNormal
<1>6. CASE NormalDone
  BY <1>6 DEF NormalDone
<1>7. CASE CreateDaemon
  BY <1>7 DEF CreateDaemon
<1>8. CASE AfterDone
  BY <1>8 DEF AfterDone
<1>9. CASE DaemonDone
  BY <1>9 DEF DaemonDone
<1>10. CASE BackgroundDone
  BY <1>10 DEF BackgroundDone
<1>11. CASE BootTimerFires
  BY <1>11 DEF BootTimerFires
<1>12. ASSUME NEW u \in Unit, StartUnit(u) PROVE StartedInv'
  BY <1>12 DEF StartUnit
<1>13. ASSUME NEW u \in Unit, DaemonRestarts(u) PROVE StartedInv'
  BY <1>13 DEF DaemonRestarts
<1>14. ASSUME NEW u \in Unit, Require(u) PROVE StartedInv'
  BY <1>14 DEF Require
<1>15. ASSUME NEW u \in Unit, RequireReturns(u) PROVE StartedInv'
  BY <1>15 DEF RequireReturns
<1>16. ASSUME NEW u \in Unit, HandlerReturns(u) PROVE StartedInv'
  BY <1>16 DEF HandlerReturns
<1>17. ASSUME NEW u \in Unit, HandlerFails(u) PROVE StartedInv'
  BY <1>17 DEF HandlerFails
<1>18. ASSUME NEW u \in Unit, HandlerPanics(u) PROVE StartedInv'
  BY <1>18 DEF HandlerPanics, PhaseInv, Untouched, Over
<1>19. ASSUME NEW u \in Unit, DaemonPanics(u) PROVE StartedInv'
  BY <1>19 DEF DaemonPanics
<1>20. ASSUME NEW u \in Unit, RequireGivesUp(u) PROVE StartedInv'
  BY <1>20 DEF RequireGivesUp
<1>21. ASSUME NEW u \in Unit, TimerFires(u) PROVE StartedInv'
  BY <1>21 DEF TimerFires
<1>22. ASSUME NEW u \in Unit, RequireUnknown(u) PROVE StartedInv'
  BY <1>22 DEF RequireUnknown
<1>23. CASE Unwound
  BY <1>23 DEF Unwound
<1>24. CASE UNCHANGED vars
  BY <1>24 DEF vars
<1>25. QED
  BY <1>1, <1>2, <1>3, <1>4, <1>5, <1>6, <1>7, <1>8, <1>9, <1>10, <1>11,
     <1>12, <1>13, <1>14, <1>15, <1>16, <1>17, <1>18, <1>19, <1>20, <1>21,
     <1>22, <1>23, <1>24
     DEF Next, StartStep, UnitStep, UnitGoesOn

\* Neither Start nor Require waits for what has happened already or will not
\* happen, for any set of units and any requirements, but for the after units of
\* a Start that a panic unwinds: the safety part of StartReturns.
THEOREM BootWaitsForWork == Spec => []WaitsForWork
<1>1. Init => StartedInv
  BY DEF Init, StartedInv, Begun
<1>2. TypeOK /\ PhaseInv /\ StartedInv => WaitsForWork
  <2>. SUFFICES ASSUME TypeOK, PhaseInv, StartedInv PROVE WaitsForWork
    OBVIOUS
  <2>1. ASSUME NEW v \in Unit, Gone(v), Name[v] \notin ready
        PROVE  Utype[v] = "after" /\ phase = "unwinding"
    BY <2>1 DEF TypeOK, PhaseInv, Over, StartedInv, Begun, Gone
  <2>. QED
    BY <2>1 DEF TypeOK, StartedInv, Begun, WaitsForWork
<1>3. QED
  BY <1>1, <1>2, BootTypeCorrect, InitPhase, NextPhase, NextStarted, PTL
     DEF Spec

-----------------------------------------------------------------------------
(* Timers.                                                                  *)

TimerInv == TimeoutIsOwn /\ (phase = "done" => ~bootTimer)

LEMMA InitTimers == Init => TimerInv
  BY DEF Init, TimerInv, TimeoutIsOwn

LEMMA NextTimers == TypeOK /\ PhaseInv /\ TimerInv /\ [Next]_vars => TimerInv'
<1> SUFFICES ASSUME TypeOK, PhaseInv, TimerInv, [Next]_vars PROVE TimerInv'
  OBVIOUS
<1> USE DEF TypeOK, PhaseInv, Untouched, TimerInv, TimeoutIsOwn
<1>1. ASSUME NEW t \in UintType, StartNext(t) PROVE TimerInv'
  BY <1>1 DEF StartNext
<1>2. CASE Start
  BY <1>2 DEF Start
<1>3. CASE FrontDone
  BY <1>3 DEF FrontDone
<1>4. CASE CreateBackground
  BY <1>4 DEF CreateBackground
<1>5. CASE CreateNormal
  BY <1>5 DEF CreateNormal
<1>6. CASE NormalDone
  BY <1>6 DEF NormalDone
<1>7. CASE CreateDaemon
  BY <1>7 DEF CreateDaemon
<1>8. CASE AfterDone
  BY <1>8 DEF AfterDone
<1>9. CASE DaemonDone
  BY <1>9 DEF DaemonDone
<1>10. CASE BackgroundDone
  BY <1>10 DEF BackgroundDone
<1>11. CASE BootTimerFires
  BY <1>11 DEF BootTimerFires
<1>12. ASSUME NEW u \in Unit, StartUnit(u) PROVE TimerInv'
  BY <1>12 DEF StartUnit
<1>13. ASSUME NEW u \in Unit, DaemonRestarts(u) PROVE TimerInv'
  BY <1>13 DEF DaemonRestarts
<1>14. ASSUME NEW u \in Unit, Require(u) PROVE TimerInv'
  BY <1>14 DEF Require
<1>15. ASSUME NEW u \in Unit, RequireReturns(u) PROVE TimerInv'
  BY <1>15 DEF RequireReturns
<1>16. ASSUME NEW u \in Unit, HandlerReturns(u) PROVE TimerInv'
  BY <1>16 DEF HandlerReturns
<1>17. ASSUME NEW u \in Unit, HandlerFails(u) PROVE TimerInv'
  BY <1>17 DEF HandlerFails
<1>18. ASSUME NEW u \in Unit, HandlerPanics(u) PROVE TimerInv'
  BY <1>18 DEF HandlerPanics
<1>19. ASSUME NEW u \in Unit, DaemonPanics(u) PROVE TimerInv'
  BY <1>19 DEF DaemonPanics
<1>20. ASSUME NEW u \in Unit, RequireGivesUp(u) PROVE TimerInv'
  BY <1>20 DEF RequireGivesUp
<1>21. ASSUME NEW u \in Unit, TimerFires(u) PROVE TimerInv'
  BY <1>21 DEF TimerFires
<1>22. ASSUME NEW u \in Unit, RequireUnknown(u) PROVE TimerInv'
  BY <1>22 DEF RequireUnknown
<1>23. CASE Unwound
  BY <1>23 DEF Unwound
<1>24. CASE UNCHANGED vars
  BY <1>24 DEF vars
<1>25. QED
  BY <1>1, <1>2, <1>3, <1>4, <1>5, <1>6, <1>7, <1>8, <1>9, <1>10, <1>11,
     <1>12, <1>13, <1>14, <1>15, <1>16, <1>17, <1>18, <1>19, <1>20, <1>21,
     <1>22, <1>23, <1>24
     DEF Next, StartStep, UnitStep, UnitGoesOn

\* A timeout of a unit is armed only while its handler runs, never while it
\* waits in Require, sleeps before a restart or has ended.
LEMMA TimeoutsAreOwn == Spec => []TimeoutIsOwn
<1>1. TimerInv => TimeoutIsOwn
  BY DEF TimerInv
<1>2. QED
  BY <1>1, BootTypeCorrect, InitPhase, NextPhase, InitTimers, NextTimers, PTL
     DEF Spec

\* When Start returns every unit has ended and no timer is armed.
LEMMA StartLeavesNothing == Spec => []NothingLeft
<1>1. TypeOK /\ PhaseInv /\ TimerInv => NothingLeft
  BY DEF TypeOK, PhaseInv, Over, TimerInv, TimeoutIsOwn, NothingLeft
<1>2. QED
  BY <1>1, BootTypeCorrect, InitPhase, NextPhase, InitTimers, NextTimers, PTL
     DEF Spec

\* A timer can end the process only for work that is under way: a unit's own
\* while its handler runs, and none once Start has returned.
THEOREM TimersAreSound == Spec => []TimersSound
  BY TimeoutsAreOwn, StartLeavesNothing, PTL DEF TimersSound

HIDE BootAssumption DEF UintType, Names, Phase, Status, Of, AllEnded, Create,
  Arm, Stop, requireVars

-----------------------------------------------------------------------------
(* Events.                                                                  *)

\* Places inside the read lock, and those where a handler runs.
Reading == {"range", "handler", "inner", "handled", "runlock"}
Running == {"handler", "inner", "handled"}

\* How many read locks a goroutine holds follows from its place.
Held == \A p \in Proc :
  rlocks[p] = IF pc[p] = "inner" THEN 2 ELSE IF pc[p] \in Reading THEN 1 ELSE 0

\* Callers and workers keep to their parts of the code.
Places == \A p \in Proc :
  /\ pc[p] \in {"idle", "queue", "lock", "edit"} => p \in Caller
  /\ pc[p] \in {"pop", "toWait", "wait"} => p \in Worker

\* Inside the read lock a goroutine sees the handlers as they were when it
\* entered, since nobody edits them meanwhile: what it runs and what it has yet
\* to reach is subscribed, and it has an error if the key has no entry.
Views == \A p \in Proc :
  /\ at[p] # NoHandler => pc[p] \in Running /\ at[p] \in subs
  /\ pc[p] \in Reading => todo[p] \subseteq subs /\ (failed[p] \/ known)

\* A worker in the queue of the condition variable waits, and is there once.
Waiters ==
  /\ \A i \in 1..Len(waiting) : pc[waiting[i]] = "wait"
  /\ \A i, j \in 1..Len(waiting) : waiting[i] = waiting[j] => i = j

IInv == EventTypeOK /\ Held /\ Places /\ Views /\ AllCalled /\ Waiters

LEMMA InitInv == EventInit => IInv
<1> SUFFICES ASSUME EventInit PROVE IInv
  OBVIOUS
<1> USE EventAssumption DEF EventInit
<1>1. EventTypeOK
  <2>1. known \in BOOLEAN /\ failed \in [Proc -> BOOLEAN]
    BY DEF Use
  <2>2. use \in Use /\ subs \in SUBSET Handler /\ queue \in Seq(BOOLEAN)
        /\ waiting \in Seq(Worker)
    BY DEF Use
  <2>3. rlocks \in [Proc -> 0..2] /\ announced \in Caller \cup {Nobody}
    OBVIOUS
  <2>4. pc \in [Proc -> Place] /\ op \in [Proc -> Op]
    BY DEF Place, Op
  <2>5. /\ at \in [Proc -> Handler \cup {NoHandler}]
        /\ todo \in [Proc -> SUBSET Handler]
    OBVIOUS
  <2> QED
    BY <2>1, <2>2, <2>3, <2>4, <2>5 DEF EventTypeOK
<1>2. Held /\ Places /\ Views /\ AllCalled /\ Waiters
  BY DEF Held, Places, Views, AllCalled, Waiters, Reading, Running, Proc
<1> QED
  BY <1>1, <1>2 DEF IInv

-----------------------------------------------------------------------------
\* A step after which p stands elsewhere and the queue of waiting workers is as
\* it was.
LEMMA WaitersStay ==
  ASSUME IInv, NEW p \in Proc, NEW place, pc' = [pc EXCEPT ![p] = place],
         pc[p] # "wait", waiting' = waiting
  PROVE  Waiters'
<1>1. \A i \in 1..Len(waiting) : waiting[i] \in Proc
  BY DEF IInv, EventTypeOK, Proc
<1> QED
  BY <1>1 DEF IInv, EventTypeOK, Waiters

LEMMA StepInv == IInv /\ [EventNext]_eventVars => IInv'
<1> SUFFICES ASSUME IInv, [EventNext]_eventVars PROVE IInv'
  OBVIOUS
<1> USE EventAssumption
    DEF IInv, subVars, lockVars, pubVars, Goto, Reading, Running
<1>1. ASSUME NEW p \in Proc, NEW o \in Op, Call(p, o) PROVE IInv'
  <2>1. EventTypeOK'
    BY <1>1 DEF Call, EventTypeOK, Place, Op
  <2>2. Held' /\ Places' /\ Views' /\ AllCalled'
    BY <1>1 DEF Call, EventTypeOK, Held, Places, Views, AllCalled, Op
  <2>3. Waiters'
    BY <1>1, WaitersStay DEF Call
  <2> QED
    BY <2>1, <2>2, <2>3
<1>2. ASSUME NEW p \in Proc, Lock(p) PROVE IInv'
  <2>1. EventTypeOK'
    BY <1>2 DEF Lock, EventTypeOK, Place, Places
  <2>2. Held' /\ Places' /\ Views' /\ AllCalled'
    BY <1>2 DEF Lock, EventTypeOK, Held, Places, Views, AllCalled
  <2>3. Waiters'
    BY <1>2, WaitersStay DEF Lock
  <2> QED
    BY <2>1, <2>2, <2>3
<1>3. ASSUME NEW p \in Proc, Edit(p) PROVE IInv'
  <2> DEFINE S == {q \in Proc : pc[q] = "blocked"}
  \* The writer is alone: nobody is inside the read lock.
  <2>1. \A q \in Proc : pc[q] \notin Reading /\ at[q] = NoHandler
    BY <1>3 DEF Edit, Held, Views, EventTypeOK
  <2>2. known' \in BOOLEAN /\ subs' \in SUBSET Handler
    <3>1. CASE op[p] = "subscribe"
      BY <1>3, <3>1 DEF Edit, Subscribe, EventTypeOK
    <3>2. CASE op[p] # "subscribe"
      BY <1>3, <3>2 DEF Edit, UnSubscribe, EventTypeOK
    <3> QED
      BY <3>1, <3>2
  <2>3. /\ pc' = [q \in Proc |-> IF q = p THEN "idle"
                                 ELSE IF q \in S THEN "range" ELSE pc[q]]
        /\ rlocks' = [q \in Proc |-> IF q \in S THEN rlocks[q] + 1 ELSE rlocks[q]]
        /\ todo' = [q \in Proc |-> IF q \in S THEN subs' ELSE todo[q]]
        /\ failed' = [q \in Proc |-> IF q \in S THEN ~ known' ELSE failed[q]]
        /\ op' = [op EXCEPT ![p] = "publish"]
        /\ announced' = Nobody
        /\ UNCHANGED <<use, queue, waiting, at>>
        /\ pc[p] = "edit"
    BY <1>3 DEF Edit, Leave, Enter
  <2>4. \A q \in Proc : rlocks[q] = 0
    BY <1>3 DEF Edit
  <2>5. EventTypeOK'
    <3>1. failed' \in [Proc -> BOOLEAN]
      BY <2>2, <2>3 DEF EventTypeOK
    <3>2. rlocks' \in [Proc -> 0..2]
      BY <2>3, <2>4
    <3>3. pc' \in [Proc -> Place] /\ op' \in [Proc -> Op]
      BY <2>3 DEF EventTypeOK, Place, Op
    <3>4. todo' \in [Proc -> SUBSET Handler]
      BY <2>2, <2>3 DEF EventTypeOK
    <3> QED
      BY <2>2, <2>3, <3>1, <3>2, <3>3, <3>4 DEF EventTypeOK
  <2>6. Held'
    BY <2>1, <2>3, <2>4 DEF Held
  <2>7. Places'
    BY <2>3 DEF Places
  <2>8. Views' /\ AllCalled'
    BY <2>1, <2>2, <2>3 DEF Views, AllCalled, EventTypeOK
  <2>9. Waiters'
    <3>1. \A i \in 1..Len(waiting) : waiting[i] \in Proc
      BY DEF EventTypeOK, Proc
    <3> QED
      BY <2>3, <3>1 DEF Waiters
  <2> QED
    BY <2>5, <2>6, <2>7, <2>8, <2>9
<1>4. ASSUME NEW p \in Proc, RLock(p) PROVE IInv'
  <2>1. CASE announced = Nobody
    <3>1. /\ pc' = [pc EXCEPT ![p] = "range"] /\ pc[p] = "rlock"
          /\ rlocks' = [rlocks EXCEPT ![p] = @ + 1]
          /\ todo' = [todo EXCEPT ![p] = subs]
          /\ failed' = [failed EXCEPT ![p] = ~ known]
          /\ UNCHANGED <<use, subVars, announced, queue, waiting, op, at>>
      BY <1>4, <2>1 DEF RLock, Enter, EventTypeOK
    <3>2. rlocks[p] = 0
      BY <3>1 DEF Held
    <3>3. EventTypeOK'
      BY <3>1, <3>2 DEF EventTypeOK, Place
    <3>4. Held' /\ Places'
      BY <3>1, <3>2 DEF Held, Places, EventTypeOK
    <3>5. Views' /\ AllCalled'
      BY <3>1 DEF Views, AllCalled, EventTypeOK
    <3>6. Waiters'
      BY <3>1, WaitersStay
    <3> QED
      BY <3>3, <3>4, <3>5, <3>6
  <2>2. CASE announced # Nobody
    <3>1. /\ pc' = [pc EXCEPT ![p] = "blocked"] /\ pc[p] = "rlock"
          /\ UNCHANGED <<use, subVars, lockVars, queue, waiting, op, pubVars>>
      BY <1>4, <2>2 DEF RLock
    <3>2. EventTypeOK' /\ Held' /\ Places' /\ Views' /\ AllCalled'
      BY <3>1 DEF EventTypeOK, Place, Held, Places, Views, AllCalled
    <3>3. Waiters'
      BY <3>1, WaitersStay
    <3> QED
      BY <3>2, <3>3
  <2> QED
    BY <2>1, <2>2
<1>5. ASSUME NEW p \in Proc, Publish(p) PROVE IInv'
  <2>1. EventTypeOK'
    <3>1. ASSUME NEW h \in todo[p],
                 at' = [at EXCEPT ![p] = h],
                 todo' = [todo EXCEPT ![p] = @ \ {h}]
          PROVE  /\ at' \in [Proc -> Handler \cup {NoHandler}]
                 /\ todo' \in [Proc -> SUBSET Handler]
      BY <3>1 DEF EventTypeOK
    <3>2. /\ at' \in [Proc -> Handler \cup {NoHandler}]
          /\ todo' \in [Proc -> SUBSET Handler]
      BY <1>5, <3>1 DEF Publish, EventTypeOK
    <3>3. pc' \in [Proc -> Place]
      BY <1>5 DEF Publish, EventTypeOK, Place
    <3> QED
      BY <1>5, <3>2, <3>3 DEF Publish, EventTypeOK
  <2>2. Held' /\ Places'
    BY <1>5 DEF Publish, EventTypeOK, Held, Places
  <2>3. Views' /\ AllCalled'
    BY <1>5 DEF Publish, EventTypeOK, Views, AllCalled
  <2>4. Waiters'
    BY <1>5, WaitersStay DEF Publish
  <2> QED
    BY <2>1, <2>2, <2>3, <2>4
<1>6. ASSUME NEW p \in Proc, HandlerDone(p) PROVE IInv'
  <2>1. failed' \in [Proc -> BOOLEAN]
    BY <1>6 DEF HandlerDone, EventTypeOK
  <2>2. EventTypeOK'
    BY <1>6, <2>1 DEF HandlerDone, EventTypeOK, Place
  <2>3. Held' /\ Places'
    BY <1>6 DEF HandlerDone, EventTypeOK, Held, Places
  <2>4. failed[p] => failed'[p]
    BY <1>6 DEF HandlerDone, EventTypeOK
  <2>5. \A q \in Proc \ {p} : failed'[q] = failed[q]
    BY <1>6 DEF HandlerDone, EventTypeOK
  <2>6. Views' /\ AllCalled'
    BY <1>6, <2>4, <2>5 DEF HandlerDone, EventTypeOK, Views, AllCalled
  <2>7. Waiters'
    BY <1>6, WaitersStay DEF HandlerDone
  <2> QED
    BY <2>2, <2>3, <2>6, <2>7
<1>7. ASSUME NEW p \in Proc, HandlerPanicked(p) PROVE IInv'
  <2>1. EventTypeOK'
    BY <1>7 DEF HandlerPanicked, EventTypeOK, Place
  <2>2. Held' /\ Places'
    BY <1>7 DEF HandlerPanicked, EventTypeOK, Held, Places
  <2>3. Views' /\ AllCalled'
    BY <1>7 DEF HandlerPanicked, EventTypeOK, Views, AllCalled
  <2>4. Waiters'
    BY <1>7, WaitersStay DEF HandlerPanicked
  <2> QED
    BY <2>1, <2>2, <2>3, <2>4
<1>8. ASSUME NEW p \in Proc, HandlerPublishes(p) PROVE IInv'
  <2>1. rlocks[p] = 1
    BY <1>8 DEF HandlerPublishes, Held
  <2>2. EventTypeOK' /\ Held' /\ Places'
    BY <1>8, <2>1 DEF HandlerPublishes, EventTypeOK, Place, Held, Places
  <2>3. Views' /\ AllCalled'
    BY <1>8 DEF HandlerPublishes, EventTypeOK, Views, AllCalled
  <2>4. Waiters'
    BY <1>8, WaitersStay DEF HandlerPublishes
  <2> QED
    BY <2>2, <2>3, <2>4
<1>9. ASSUME NEW p \in Proc, HandlerPublished(p) PROVE IInv'
  <2>1. rlocks[p] = 2
    BY <1>9 DEF HandlerPublished, Held
  <2>2. EventTypeOK' /\ Held' /\ Places'
    BY <1>9, <2>1 DEF HandlerPublished, EventTypeOK, Place, Held, Places
  <2>3. Views' /\ AllCalled'
    BY <1>9 DEF HandlerPublished, EventTypeOK, Views, AllCalled
  <2>4. Waiters'
    BY <1>9, WaitersStay DEF HandlerPublished
  <2> QED
    BY <2>2, <2>3, <2>4
<1>10. ASSUME NEW p \in Proc, RUnlock(p) PROVE IInv'
  <2>1. PICK place \in {"idle", "pop", "toWait"} :
          /\ pc' = [pc EXCEPT ![p] = place]
          /\ place = "idle" => p \in Caller
          /\ place # "idle" => p \in Worker
    BY <1>10 DEF RUnlock
  <2>2. rlocks[p] = 1
    BY <1>10 DEF RUnlock, Held
  <2>3. EventTypeOK'
    BY <1>10, <2>1, <2>2 DEF RUnlock, EventTypeOK, Place
  <2>4. Held' /\ Places'
    BY <1>10, <2>1, <2>2 DEF RUnlock, EventTypeOK, Held, Places
  <2>5. Views' /\ AllCalled'
    BY <1>10, <2>1 DEF RUnlock, EventTypeOK, Views, AllCalled
  <2>6. Waiters'
    BY <1>10, <2>1, WaitersStay DEF RUnlock
  <2> QED
    BY <2>3, <2>4, <2>5, <2>6
<1>11. ASSUME NEW p \in Proc, PublishQueue(p) PROVE IInv'
  <2>1. PICK w \in BOOLEAN : queue' = Append(queue, w)
    BY <1>11 DEF PublishQueue
  <2>2. p \in Caller /\ pc[p] = "queue"
    BY <1>11 DEF PublishQueue, Places
  <2>3. queue' \in Seq(BOOLEAN) /\ op' \in [Proc -> Op]
    BY <1>11, <2>1 DEF PublishQueue, EventTypeOK, Op
  <2>4. CASE waiting = <<>>
    <3>1. pc' = [pc EXCEPT ![p] = "idle"] /\ waiting' = waiting
      BY <1>11, <2>4 DEF PublishQueue, Signal
    <3>2. EventTypeOK'
      BY <1>11, <2>3, <3>1 DEF PublishQueue, EventTypeOK, Place
    <3>3. Held' /\ Places' /\ Views' /\ AllCalled'
      BY <1>11, <2>2, <3>1 DEF PublishQueue, EventTypeOK, Held, Places, Views,
         AllCalled
    <3>4. Waiters'
      BY <2>2, <3>1, WaitersStay
    <3> QED
      BY <3>2, <3>3, <3>4
  <2>5. CASE waiting # <<>>
    <3> DEFINE h == Head(waiting)
    <3>1. h \in Worker /\ h \in Proc /\ pc[h] = "wait" /\ h = waiting[1]
      BY <2>5 DEF EventTypeOK, Waiters, Proc
    <3>2. /\ pc' = [pc EXCEPT ![p] = "idle", ![h] = "pop"]
          /\ waiting' = Tail(waiting)
      BY <1>11, <2>5 DEF PublishQueue, Signal
    <3>3. waiting' \in Seq(Worker)
      BY <2>5, <3>2 DEF EventTypeOK
    <3>4. /\ pc' \in [Proc -> Place]
          /\ pc'[p] = "idle" /\ pc'[h] = "pop"
          /\ \A q \in Proc \ {p, h} : pc'[q] = pc[q]
      BY <2>2, <3>1, <3>2 DEF EventTypeOK, Place
    <3> HIDE DEF h
    <3>5. EventTypeOK'
      BY <1>11, <2>3, <3>3, <3>4 DEF PublishQueue, EventTypeOK
    <3>6. Held' /\ Places'
      BY <1>11, <2>2, <3>1, <3>4 DEF PublishQueue, Held, Places
    <3>7. Views' /\ AllCalled'
      BY <1>11, <2>2, <3>1, <3>4 DEF PublishQueue, Views, AllCalled
    <3>8. Waiters'
      <4>1. Len(waiting') = Len(waiting) - 1 /\ Len(waiting) \in Nat
        BY <2>5, <3>2 DEF EventTypeOK
      <4>2. \A i \in 1..Len(waiting') :
              /\ i + 1 \in 1..Len(waiting)
              /\ waiting'[i] = waiting[i + 1]
        BY <2>5, <3>2, <4>1 DEF EventTypeOK
      <4>3. \A i \in 1..Len(waiting') : waiting'[i] # h
        <5> SUFFICES ASSUME NEW i \in 1..Len(waiting'), waiting'[i] = h
                     PROVE  FALSE
          OBVIOUS
        <5>1. i + 1 \in 1..Len(waiting) /\ 1 \in 1..Len(waiting)
          BY <4>1, <4>2
        <5>2. waiting[i + 1] = waiting[1]
          BY <3>1, <4>2
        <5>3. i + 1 = 1
          BY <5>1, <5>2 DEF Waiters
        <5> QED
          BY <5>3
      <4>4. \A i \in 1..Len(waiting') :
              waiting'[i] \in Proc /\ waiting'[i] # p /\ pc[waiting'[i]] = "wait"
        BY <2>2, <4>2 DEF EventTypeOK, Waiters, Proc
      <4>5. \A i \in 1..Len(waiting') : pc'[waiting'[i]] = "wait"
        BY <3>4, <4>3, <4>4
      <4>6. \A i, j \in 1..Len(waiting') : waiting'[i] = waiting'[j] => i = j
        <5> SUFFICES ASSUME NEW i \in 1..Len(waiting'), NEW j \in 1..Len(waiting'),
                            waiting'[i] = waiting'[j]
                     PROVE  i = j
          OBVIOUS
        <5>1. i + 1 = j + 1
          BY <4>2 DEF Waiters
        <5> QED
          BY <5>1, <4>1
      <4> QED
        BY <4>5, <4>6 DEF Waiters
    <3> QED
      BY <3>5, <3>6, <3>7, <3>8
  <2> QED
    BY <2>4, <2>5
<1>12. ASSUME NEW p \in Proc, popEventQueue(p) PROVE IInv'
  <2>1. queue' \in Seq(BOOLEAN)
    <3>1. CASE queue = <<>>
      BY <1>12, <3>1 DEF popEventQueue, EventTypeOK
    <3>2. CASE queue # <<>>
      <4>1. queue \in Seq(BOOLEAN) /\ queue' = Tail(queue)
        BY <1>12, <3>2 DEF popEventQueue, EventTypeOK
      <4> QED
        BY <3>2, <4>1
    <3> QED
      BY <3>1, <3>2
  <2>2. p \in Worker /\ pc[p] = "pop"
    BY <1>12 DEF popEventQueue, Places
  <2>3. PICK place \in {"toWait", "rlock"} : pc' = [pc EXCEPT ![p] = place]
    BY <1>12 DEF popEventQueue
  <2>4. UNCHANGED <<use, subVars, lockVars, waiting, op, pubVars>>
    BY <1>12 DEF popEventQueue
  <2>5. EventTypeOK'
    BY <2>1, <2>3, <2>4 DEF EventTypeOK, Place
  <2>6. Held' /\ Places' /\ Views' /\ AllCalled'
    BY <2>2, <2>3, <2>4 DEF EventTypeOK, Held, Places, Views, AllCalled
  <2>7. Waiters'
    BY <2>2, <2>3, <2>4, WaitersStay
  <2> QED
    BY <2>5, <2>6, <2>7
<1>13. ASSUME NEW p \in Proc, Wait(p) PROVE IInv'
  <2>1. p \in Worker /\ pc[p] = "toWait"
    BY <1>13 DEF Wait, Places
  <2>2. EventTypeOK'
    BY <1>13, <2>1 DEF Wait, EventTypeOK, Place
  <2>3. Held' /\ Places' /\ Views' /\ AllCalled'
    BY <1>13, <2>1 DEF Wait, EventTypeOK, Held, Places, Views, AllCalled
  <2>4. Waiters'
    <3>1. Len(waiting') = Len(waiting) + 1 /\ Len(waiting) \in Nat
      BY <1>13, <2>1 DEF Wait, EventTypeOK
    <3>2. /\ waiting'[Len(waiting) + 1] = p
          /\ \A i \in 1..Len(waiting) : waiting'[i] = waiting[i]
      BY <1>13, <2>1 DEF Wait, EventTypeOK
    <3>3. \A i \in 1..Len(waiting) : waiting[i] \in Proc /\ waiting[i] # p
      BY <2>1 DEF EventTypeOK, Waiters, Proc
    <3>4. \A i \in 1..Len(waiting') : i \in 1..Len(waiting) \/ i = Len(waiting) + 1
      BY <3>1
    <3>5. pc'[p] = "wait" /\ \A q \in Proc \ {p} : pc'[q] = pc[q]
      BY <1>13 DEF Wait, EventTypeOK
    <3> QED
      BY <3>2, <3>3, <3>4, <3>5 DEF Waiters
  <2> QED
    BY <2>2, <2>3, <2>4
<1>14. CASE UNCHANGED eventVars
  BY <1>14 DEF eventVars, EventTypeOK, Held, Places, Views, AllCalled, Waiters
<1> QED
  BY <1>1, <1>2, <1>3, <1>4, <1>5, <1>6, <1>7, <1>8, <1>9, <1>10, <1>11, <1>12,
     <1>13, <1>14 DEF EventNext, Runs

-----------------------------------------------------------------------------
\* Publish of uboot/event.go runs exactly the handlers that are subscribed: one
\* that UnSubscribe has taken away neither runs nor starts, whatever other
\* goroutines publish, queue and subscribe, and a Publish without an error has
\* called them all.
THEOREM PublishRunsHandlers == EventSpec => []RunsHandlers
<1>1. IInv => RunsHandlers
  BY DEF IInv, Views, RunsSubscribed, RunsHandlers
<1> QED
  BY <1>1, InitInv, StepInv, PTL DEF EventSpec
-----------------------------------------------------------------------------
(* Waiting for the lock of the events.                                      *)

\* A Publish waits for the read lock only while a writer has announced itself,
\* who leaves no reader behind asleep; that writer waits only for goroutines
\* inside the read lock, and none of those waits for the lock again: the two
\* ways of using events are both free of circles.
NoLockCircle ==
  /\ \A p \in Proc : pc[p] = "blocked" => announced # Nobody
  /\ announced # Nobody => pc[announced] = "edit"
  /\ \A p \in Proc : pc[p] \in {"lock", "edit"} => use = "subscribing"
  /\ \A p \in Proc : rlocks[p] > 0 =>
       pc[p] \in Reading /\ (pc[p] = "inner" => announced = Nobody)

\* The writer is the goroutine that edits.  A program whose handlers publish has
\* none.
Writers ==
  /\ \A p \in Proc : pc[p] = "edit" <=> announced = p
  /\ \A p \in Proc : pc[p] = "blocked" => announced # Nobody
  /\ \A p \in Proc : pc[p] \in {"lock", "edit"} => use = "subscribing"
  /\ \A p \in Proc : pc[p] = "inner" => use = "nesting"

LEMMA StepWriters == IInv /\ Writers /\ [EventNext]_eventVars => Writers'
<1> SUFFICES ASSUME IInv, Writers, [EventNext]_eventVars PROVE Writers'
  OBVIOUS
<1>0. EventTypeOK /\ Places /\ Waiters
  BY DEF IInv
<1> USE <1>0, EventAssumption
    DEF EventTypeOK, Writers, lockVars, subVars, pubVars, Goto
\* The lock stays as it is, and p goes to a place that does not matter here.
<1>1. ASSUME NEW p \in Proc, NEW place \in Place, pc' = [pc EXCEPT ![p] = place],
             place \notin {"edit", "blocked", "lock", "inner"}, pc[p] # "edit",
             UNCHANGED <<announced, use>>
      PROVE  Writers'
  BY <1>1
<1>2. ASSUME NEW p \in Proc, NEW o \in Op, Call(p, o) PROVE Writers'
  BY <1>2 DEF Call, Op
<1>3. ASSUME NEW p \in Proc, Lock(p) PROVE Writers'
  BY <1>3 DEF Lock
<1>4. ASSUME NEW p \in Proc, Edit(p) PROVE Writers'
  <2>1. pc[p] = "edit" /\ announced' = Nobody /\ use' = use
    BY <1>4 DEF Edit, Leave
  <2>2. \A q \in Proc : pc'[q] \notin {"edit", "blocked"}
    BY <1>4, <2>1 DEF Edit, Leave
  <2>3. \A q \in Proc : pc'[q] \in {"lock", "inner"} => pc'[q] = pc[q]
    BY <1>4 DEF Edit, Leave
  <2> QED
    BY <2>1, <2>2, <2>3 DEF Proc
<1>5. ASSUME NEW p \in Proc, RLock(p) PROVE Writers'
  BY <1>5 DEF RLock
<1>6. ASSUME NEW p \in Proc, Publish(p) PROVE Writers'
  BY <1>1, <1>6 DEF Publish, Place
<1>7. ASSUME NEW p \in Proc, HandlerDone(p) PROVE Writers'
  BY <1>1, <1>7 DEF HandlerDone, Place
<1>8. ASSUME NEW p \in Proc, HandlerPanicked(p) PROVE Writers'
  BY <1>1, <1>8 DEF HandlerPanicked, Place
<1>9. ASSUME NEW p \in Proc, HandlerPublishes(p) PROVE Writers'
  BY <1>9 DEF HandlerPublishes
<1>10. ASSUME NEW p \in Proc, HandlerPublished(p) PROVE Writers'
  BY <1>1, <1>10 DEF HandlerPublished, Place
<1>11. ASSUME NEW p \in Proc, RUnlock(p) PROVE Writers'
  BY <1>1, <1>11 DEF RUnlock, Place
<1>12. ASSUME NEW p \in Proc, PublishQueue(p) PROVE Writers'
  <2>1. CASE waiting = <<>>
    BY <1>1, <1>12, <2>1 DEF PublishQueue, Place
  <2>2. CASE waiting # <<>>
    <3> DEFINE h == Head(waiting)
    <3>1. h \in Proc /\ pc[h] = "wait"
      BY <2>2 DEF Waiters, Proc
    <3>2. pc' = [pc EXCEPT ![p] = "idle", ![h] = "pop"]
      BY <1>12, <2>2 DEF PublishQueue
    <3>3. pc[p] = "queue" /\ UNCHANGED <<announced, use>>
      BY <1>12 DEF PublishQueue
    <3> QED
      BY <3>1, <3>2, <3>3
  <2> QED
    BY <2>1, <2>2
<1>13. ASSUME NEW p \in Proc, popEventQueue(p) PROVE Writers'
  BY <1>1, <1>13 DEF popEventQueue, Place
<1>14. ASSUME NEW p \in Proc, Wait(p) PROVE Writers'
  BY <1>1, <1>14 DEF Wait, Place
<1>15. CASE UNCHANGED eventVars
  BY <1>15 DEF eventVars
<1> QED
  BY <1>2, <1>3, <1>4, <1>5, <1>6, <1>7, <1>8, <1>9, <1>10, <1>11, <1>12,
     <1>13, <1>14, <1>15 DEF EventNext, Runs

\* Publish, Subscribe and UnSubscribe do not wait for each other in a circle, for
\* any number of callers, workers and handlers, as long as a program does not
\* both publish from handlers and change subscriptions: the safety part of
\* CallsReturn.
THEOREM EventNoLockCircle == EventSpec => []NoLockCircle
<1>1. EventInit => Writers
  BY EventAssumption DEF EventInit, Writers, Proc
<1>2. IInv /\ Writers => NoLockCircle
  <2> SUFFICES ASSUME IInv, Writers PROVE NoLockCircle
    OBVIOUS
  <2>1. announced # Nobody => announced \in Proc /\ pc[announced] = "edit"
    BY DEF IInv, EventTypeOK, Writers, Proc
  <2>2. \A p \in Proc : rlocks[p] > 0 => pc[p] \in Reading
    BY DEF IInv, EventTypeOK, Held, Reading
  <2>3. \A p \in Proc : pc[p] = "inner" => announced = Nobody
    BY <2>1 DEF Writers
  <2> QED
    BY <2>1, <2>2, <2>3 DEF Writers, NoLockCircle
<1> QED
  BY <1>1, <1>2, InitInv, StepInv, StepWriters, PTL DEF EventSpec
===============================================================================
