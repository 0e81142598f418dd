-------------------------------- MODULE Boot --------------------------------
(***************************************************************************)
(* The start-up manager uboot: Boot.Start (uboot/boot.go), UintAgent.start  *)
(* (uboot/uint.go) and Context.Require with its timers (uboot/context.go).  *)
(*                                                                          *)
(* A unit (a "uint" in the code) is a number, in the order of registration. *)
(* Its handler asks for the units it requires in any order, and then        *)
(* returns nil; at any moment it may return an error or panic instead.  A   *)
(* panic that nobody recovers ends the process, and the caller of Start     *)
(* does not recover one either.                                             *)
(***************************************************************************)
EXTENDS Integers, FiniteSets

CONSTANTS Unit,         \* 1..n
          Utype,        \* the UintType of each unit
          Name,         \* its name; units share one after AllowNameRepeat
          Recover,      \* the units with the flag recover
          Timed,        \* the units with a timeout
          Requires,     \* the names its handler requires, registered or not
          Impatient,    \* units whose Require is given a context that may end
          BootTimeout   \* bootTimeout > 0

UintType == {"front", "background", "normal", "daemon", "after"}
Names == {Name[u] : u \in Unit}
Wanted == UNION {Requires[u] : u \in Unit}

ASSUME BootAssumption ==
  /\ Unit \subseteq Nat /\ IsFiniteSet(Unit)
  /\ Utype \in [Unit -> UintType]
  /\ DOMAIN Name = Unit
  /\ Recover \subseteq Unit /\ Timed \subseteq Unit /\ Impatient \subseteq Unit
  /\ Requires \in [Unit -> SUBSET Wanted]
  /\ BootTimeout \in BOOLEAN

VARIABLES
  phase,      \* where Start is
  status,     \* where each unit is
  want,       \* the names its handler has not yet required
  asked,      \* the names it waits for inside Require, at most one
  met,        \* the names for which Require has returned nil
  ready,      \* names whose context in b.require is cancelled
  timer,      \* units whose timeoutTimer is armed
  bootTimer,  \* the timer of bootTimeout is armed
  crash       \* why the process has ended: "no", "panic", "timeout", "boot"

requireVars == <<want, asked, met>>
vars == <<phase, status, requireVars, ready, timer, bootTimer, crash>>

Phase  == {"new", "front", "background", "normal", "waitNormal", "daemon",
           "after", "waitDaemon", "waitBackground", "done", "unwinding"}
Status == {"registered", "created", "running", "waiting", "sleeping", "ended",
           "panicked"}

Of(t) == {u \in Unit : Utype[u] = t}
AllEnded(t) == \A u \in Of(t) : status[u] = "ended"

\* Goroutines are created for all units of type t.
Create(t) == status' = [u \in Unit |-> IF u \in Of(t) THEN "created"
                                                      ELSE status[u]]

Init ==
  /\ phase = "new"
  /\ status = [u \in Unit |-> "registered"]
  /\ want = Requires
  /\ asked = [u \in Unit |-> {}]
  /\ met = [u \in Unit |-> {}]
  /\ ready = {}
  /\ timer = {}
  /\ bootTimer = FALSE
  /\ crash = "no"

-----------------------------------------------------------------------------
(* Start.  The lock is never released: a second Start returns false.        *)

Start ==
  /\ crash = "no"
  /\ phase = "new"
  /\ phase' = "front"
  /\ bootTimer' = BootTimeout
  /\ UNCHANGED <<status, requireVars, ready, timer, crash>>

\* Front and after units run one by one in the goroutine of Start.
StartNext(t) ==
  /\ crash = "no"
  /\ phase = t
  /\ t \in {"front", "after"}
  /\ \E u \in Of(t) :
       /\ status[u] = "registered"
       /\ \A v \in Of(t) : v < u => status[v] = "ended"
       /\ status' = [status EXCEPT ![u] = "created"]
  /\ UNCHANGED <<phase, requireVars, ready, timer, bootTimer, crash>>

FrontDone ==
  /\ crash = "no"
  /\ phase = "front"
  /\ AllEnded("front")
  /\ phase' = "background"
  /\ UNCHANGED <<status, requireVars, ready, timer, bootTimer, crash>>

CreateBackground ==
  /\ crash = "no"
  /\ phase = "background"
  /\ Create("background")
  /\ phase' = "normal"
  /\ UNCHANGED <<requireVars, ready, timer, bootTimer, crash>>

CreateNormal ==
  /\ crash = "no"
  /\ phase = "normal"
  /\ Create("normal")
  /\ phase' = "waitNormal"
  /\ UNCHANGED <<requireVars, ready, timer, bootTimer, crash>>

\* Fault: Start does not wait for the normal units.
NormalDoneEarly ==
  /\ crash = "no"
  /\ phase = "waitNormal"
  /\ phase' = "daemon"
  /\ UNCHANGED <<status, requireVars, ready, timer, bootTimer, crash>>

NormalDone ==
  /\ crash = "no"
  /\ phase = "waitNormal"
  /\ AllEnded("normal")
  /\ phase' = "daemon"
  /\ UNCHANGED <<status, requireVars, ready, timer, bootTimer, crash>>

CreateDaemon ==
  /\ crash = "no"
  /\ phase = "daemon"
  /\ Create("daemon")
  /\ phase' = "after"
  /\ UNCHANGED <<requireVars, ready, timer, bootTimer, crash>>

AfterDone ==
  /\ crash = "no"
  /\ phase = "after"
  /\ AllEnded("after")
  /\ phase' = "waitDaemon"
  /\ UNCHANGED <<status, requireVars, ready, timer, bootTimer, crash>>

DaemonDone ==
  /\ crash = "no"
  /\ phase = "waitDaemon"
  /\ AllEnded("daemon")
  /\ phase' = "waitBackground"
  /\ UNCHANGED <<status, requireVars, ready, timer, bootTimer, crash>>

\* The deferred calls: the wait for the background units, then t.Stop.
BackgroundDone ==
  /\ crash = "no"
  /\ phase = "waitBackground"
  /\ AllEnded("background")
  /\ phase' = "done"
  /\ bootTimer' = FALSE
  /\ UNCHANGED <<status, requireVars, ready, timer, crash>>

-----------------------------------------------------------------------------
(* UintAgent.start.                                                         *)

Arm(u)  == timer' = IF u \in Timed THEN timer \cup {u} ELSE timer
Stop(u) == timer' = timer \ {u}

\* The handler is called, with the timer of its new Context armed.
StartUnit(u) ==
  /\ crash = "no"
  /\ status[u] = "created"
  /\ status' = [status EXCEPT ![u] = "running"]
  /\ Arm(u)
  /\ UNCHANGED <<phase, requireVars, ready, bootTimer, crash>>

\* The handler returns nil and the context of its name is cancelled.
HandlerReturns(u) ==
  /\ crash = "no"
  /\ status[u] = "running"
  /\ want[u] = {}
  /\ status' = [status EXCEPT ![u] = "ended"]
  /\ ready' = ready \cup {Name[u]}
  /\ Stop(u)
  /\ UNCHANGED <<phase, requireVars, bootTimer, crash>>

\* Fault: the context is not cancelled after a recovered panic.
HandlerFailsSilently(u) ==
  /\ crash = "no"
  /\ status[u] = "running"
  /\ Utype[u] # "daemon" /\ u \in Recover
  /\ status' = [status EXCEPT ![u] = "ended"]
  /\ Stop(u)
  /\ UNCHANGED <<phase, requireVars, ready, bootTimer, crash>>

\* It returns an error or panics, and the unit recovers: it counts as ended.
HandlerFails(u) ==
  /\ crash = "no"
  /\ status[u] = "running"
  /\ Utype[u] # "daemon" /\ u \in Recover
  /\ status' = [status EXCEPT ![u] = "ended"]
  /\ ready' = ready \cup {Name[u]}
  /\ Stop(u)
  /\ UNCHANGED <<phase, requireVars, bootTimer, crash>>

\* The unit does not recover and its name is not made ready.  The panic ends the
\* process: at once in a goroutine of its own and in front of the background
\* units; that of an after unit unwinds Start first.
HandlerPanics(u) ==
  /\ crash = "no"
  /\ status[u] = "running"
  /\ Utype[u] # "daemon" /\ u \notin Recover
  /\ IF Utype[u] = "after"
     THEN /\ status' = [status EXCEPT ![u] = "panicked"]
          /\ phase' = "unwinding"
          /\ UNCHANGED crash
     ELSE /\ crash' = "panic"
          /\ UNCHANGED <<phase, status>>
  /\ Stop(u)
  /\ UNCHANGED <<requireVars, ready, bootTimer>>

\* The deferred calls of Start under a panic: the wait for the background units,
\* t.Stop, and the end of the process.
Unwound ==
  /\ crash = "no"
  /\ phase = "unwinding"
  /\ AllEnded("background")
  /\ crash' = "panic"
  /\ bootTimer' = FALSE
  /\ UNCHANGED <<phase, status, requireVars, ready, timer>>

\* The goroutine of a daemon recovers the panic and calls start again with a
\* new Context; the flag recover of a daemon is off.
DaemonPanics(u) ==
  /\ crash = "no"
  /\ status[u] = "running"
  /\ Utype[u] = "daemon"
  /\ status' = [status EXCEPT ![u] = "sleeping"]
  /\ Stop(u)
  /\ UNCHANGED <<phase, requireVars, ready, bootTimer, crash>>

DaemonRestarts(u) ==
  /\ crash = "no"
  /\ status[u] = "sleeping"
  /\ status' = [status EXCEPT ![u] = "created"]
  /\ want' = [want EXCEPT ![u] = Requires[u]]
  /\ met' = [met EXCEPT ![u] = {}]
  /\ UNCHANGED <<phase, asked, ready, timer, bootTimer, crash>>

-----------------------------------------------------------------------------
(* Context.Require and the timers.                                          *)

\* Fault: the timer runs on while the unit waits.
RequireTimed(u) ==
  /\ crash = "no"
  /\ status[u] = "running"
  /\ \E n \in want[u] \cap Names :
       /\ want' = [want EXCEPT ![u] = @ \ {n}]
       /\ asked' = [asked EXCEPT ![u] = {n}]
  /\ status' = [status EXCEPT ![u] = "waiting"]
  /\ UNCHANGED <<phase, met, ready, timer, bootTimer, crash>>

\* The time spent in Require does not count: cancelTimeout stops the timer.
Require(u) ==
  /\ crash = "no"
  /\ status[u] = "running"
  /\ \E n \in want[u] \cap Names :
       /\ want' = [want EXCEPT ![u] = @ \ {n}]
       /\ asked' = [asked EXCEPT ![u] = {n}]
  /\ status' = [status EXCEPT ![u] = "waiting"]
  /\ Stop(u)
  /\ UNCHANGED <<phase, met, ready, bootTimer, crash>>

\* A name that nobody registered: an error at once, the timer goes on.
RequireUnknown(u) ==
  /\ crash = "no"
  /\ status[u] = "running"
  /\ \E n \in want[u] \ Names : want' = [want EXCEPT ![u] = @ \ {n}]
  /\ UNCHANGED <<phase, status, asked, met, ready, timer, bootTimer, crash>>

\* Fault: Require does not wait.
RequireReturnsEarly(u) ==
  /\ crash = "no"
  /\ status[u] = "waiting"
  /\ met' = [met EXCEPT ![u] = @ \cup asked[u]]
  /\ asked' = [asked EXCEPT ![u] = {}]
  /\ status' = [status EXCEPT ![u] = "running"]
  /\ Arm(u)
  /\ UNCHANGED <<phase, want, ready, bootTimer, crash>>

RequireReturns(u) ==
  /\ crash = "no"
  /\ status[u] = "waiting"
  /\ asked[u] \subseteq ready
  /\ met' = [met EXCEPT ![u] = @ \cup asked[u]]
  /\ asked' = [asked EXCEPT ![u] = {}]
  /\ status' = [status EXCEPT ![u] = "running"]
  /\ Arm(u)
  /\ UNCHANGED <<phase, want, ready, bootTimer, crash>>

\* The context given to Require ends.
RequireGivesUp(u) ==
  /\ crash = "no"
  /\ status[u] = "waiting"
  /\ u \in Impatient
  /\ asked' = [asked EXCEPT ![u] = {}]
  /\ status' = [status EXCEPT ![u] = "running"]
  /\ Arm(u)
  /\ UNCHANGED <<phase, want, met, ready, bootTimer, crash>>

\* The timeout of a unit ends the process, unless the unit recovers.
TimerFires(u) ==
  /\ crash = "no"
  /\ u \in timer
  /\ Stop(u)
  /\ crash' = IF Utype[u] # "daemon" /\ u \in Recover THEN "no" ELSE "timeout"
  /\ UNCHANGED <<phase, status, requireVars, ready, bootTimer>>

BootTimerFires ==
  /\ crash = "no"
  /\ bootTimer
  /\ crash' = "boot"
  /\ bootTimer' = FALSE
  /\ UNCHANGED <<phase, status, requireVars, ready, timer>>

-----------------------------------------------------------------------------
StartStep ==
  \/ Start \/ \E t \in UintType : StartNext(t)
  \/ FrontDone \/ CreateBackground \/ CreateNormal \/ NormalDone
  \/ CreateDaemon \/ AfterDone \/ DaemonDone \/ BackgroundDone \/ Unwound

UnitGoesOn(u) ==
  \/ StartUnit(u) \/ DaemonRestarts(u)
  \/ Require(u) \/ RequireUnknown(u) \/ RequireReturns(u)

UnitStep(u) ==
  \/ UnitGoesOn(u) \/ HandlerReturns(u) \/ HandlerFails(u) \/ HandlerPanics(u)
  \/ DaemonPanics(u) \/ RequireGivesUp(u) \/ TimerFires(u)

Next == StartStep \/ BootTimerFires \/ \E u \in Unit : UnitStep(u)

Spec == Init /\ [][Next]_vars

\* Goroutines run; a handler that has what it requires returns in the end.  A
\* daemon does not panic at the same place in every run for ever.
Fairness ==
  /\ WF_vars(StartStep)
  /\ \A u \in Unit : WF_vars(UnitGoesOn(u) \/ HandlerReturns(u))
  /\ \A u \in Of("daemon") : /\ SF_vars(Require(u) \/ RequireUnknown(u))
                          /\ SF_vars(HandlerReturns(u))

FairSpec == Spec /\ Fairness

-----------------------------------------------------------------------------
(* Properties.                                                              *)

TypeOK ==
  /\ phase \in Phase
  /\ status \in [Unit -> Status]
  /\ want \in [Unit -> SUBSET Wanted]
  /\ asked \in [Unit -> SUBSET Names]
  /\ met \in [Unit -> SUBSET Names]
  /\ ready \in SUBSET Names
  /\ timer \in SUBSET Timed
  /\ bootTimer \in BOOLEAN
  /\ crash \in {"no", "panic", "timeout", "boot"}

\* u has to be ended before v is started.
Before(u, v) ==
  \/ Utype[u] = "front" /\ Utype[v] # "front"
  \/ Utype[u] = "normal" /\ Utype[v] \in {"daemon", "after"}
  \/ Utype[u] = Utype[v] /\ Utype[u] \in {"front", "after"} /\ u < v

\* No unit begins before the phases that Start waits for are over: front units
\* one by one before all others, normal units before daemon and after units.
PhaseOrder ==
  \A u, v \in Unit : Before(u, v) /\ status[v] # "registered"
                       => status[u] = "ended"

\* When Require has told a handler that a name is ready, a unit of that name has
\* ended, however units fail, recover, restart or share the name.
RequireKept ==
  \A u \in Unit : \A n \in met[u] :
    \E v \in Unit : Name[v] = n /\ status[v] = "ended"

\* A unit's timeout measures the unit's own work: it can end the process only
\* while the handler is running and not while it waits for another unit.
TimeoutIsOwn == \A u \in timer : status[u] = "running"

\* When Start returns no unit is left behind, nor a timer that could still end
\* the process.
NothingLeft ==
  phase = "done" => timer = {} /\ ~bootTimer /\ \A u \in Unit : status[u] = "ended"

\* The timers of units and of the boot end the process only for work that is
\* under way: not while a unit waits in Require, and not after Start.
TimersSound == TimeoutIsOwn /\ NothingLeft

\* A unit that will not make its name ready any more: it is over, or it is an
\* after unit behind the one whose panic unwinds Start.
Gone(u) ==
  \/ status[u] \in {"ended", "panicked"}
  \/ status[u] = "registered" /\ phase = "unwinding"

\* The deferred wait of Start that nothing ends: an after unit has panicked, and
\* a background unit waits for a name that only such units could make ready.
Orphaned ==
  /\ phase = "unwinding"
  /\ \E u \in Of("background") :
       /\ status[u] = "waiting"
       /\ \E n \in asked[u] \ ready :
            \A v \in Unit : Name[v] = n => Gone(v)

\* Start comes to its end, or the process does: no wait of Start or of Require
\* lasts for ever when the units require each other without a cycle and not
\* across the phases.  The one exception is a background unit that requires an
\* after unit which panics: the process then neither ends nor goes on.
\* A daemon whose handler returns is over (boot.go:244); uint.go:14 says that it
\* runs again.
StartReturns ==
  phase = "front" ~> phase = "done" \/ crash # "no" \/ Orphaned
=============================================================================
