-------------------------------- MODULE Event --------------------------------
(***************************************************************************)
(* The events of uboot (uboot/event.go): subscriptions under a read-write   *)
(* lock, Publish that runs the handlers under its read side, and a queue    *)
(* that workers empty, woken through a condition variable.  Keys share only *)
(* the lock, so one key is enough; a handler that publishes publishes       *)
(* another one, which has no handlers.                                      *)
(***************************************************************************)
EXTENDS Integers, Sequences, FiniteSets

CONSTANTS Caller,    \* goroutines of the program
          Worker,    \* goroutines of the queue, eventQueueWorker many
          Nobody,    \* neither
          Handler,   \* subscriptions, by their key; used again when free
          NoHandler, \* none of them
          MaxQueue   \* bound on the queue while no worker waits

Proc == Caller \cup Worker

\* What the program does: its handlers publish events, or it subscribes and
\* unsubscribes while events are published.  One that does both can deadlock:
\* the inner read lock waits for a writer that waits for the outer one.
Use == {"nesting", "subscribing"}

ASSUME EventAssumption ==
  /\ Nobody \notin Proc /\ NoHandler \notin Handler
  /\ Caller \cap Worker = {}
  /\ MaxQueue \in Nat

VARIABLES
  use,        \* what this program does
  known,      \* the key has an entry in event
  subs,       \* the handlers in it
  rlocks,     \* read locks that each goroutine holds
  announced,  \* the writer that has the lock or waits for the readers to leave
  queue,      \* eventQueue: at most one event of it is watched
  waiting,    \* workers in Wait, in order
  pc, op,     \* where each goroutine is, and the method a caller runs
  at,         \* the handler it runs
  todo,       \* handlers that its Range has still to reach
  failed      \* errorsPool # nil

lockVars == <<rlocks, announced>>
subVars == <<known, subs>>
pubVars == <<at, todo, failed>>
eventVars == <<use, subVars, lockVars, queue, waiting, pc, op, pubVars>>

Op == {"publish", "publishQueue", "subscribe", "unsubscribe", "unsubscribeAll"}
Place == {"idle", "pop", "toWait", "wait", "queue", "lock", "edit",
          "rlock", "blocked", "range", "handler", "inner", "handled", "runlock"}

EventInit ==
  /\ use \in Use
  /\ subs \in IF use = "nesting" THEN {Handler} ELSE {{}}
  /\ known = (use = "nesting")
  /\ rlocks = [p \in Proc |-> 0]
  /\ announced = Nobody
  /\ queue = <<>>
  /\ waiting = <<>>
  /\ pc = [p \in Proc |-> IF p \in Worker THEN "pop" ELSE "idle"]
  /\ op = [p \in Proc |-> "publish"]
  /\ at = [p \in Proc |-> NoHandler]
  /\ todo = [p \in Proc |-> {}]
  /\ failed = [p \in Proc |-> FALSE]

Goto(p, place) == pc' = [pc EXCEPT ![p] = place]

Call(p, o) ==
  /\ p \in Caller
  /\ pc[p] = "idle"
  /\ o \in {"subscribe", "unsubscribe", "unsubscribeAll"} => use = "subscribing"
  /\ op' = [op EXCEPT ![p] = o]
  /\ Goto(p, CASE o = "publish"      -> "rlock"
               [] o = "publishQueue" -> "queue"
               [] OTHER              -> "lock")
  /\ UNCHANGED <<use, subVars, lockVars, queue, waiting, pubVars>>

-----------------------------------------------------------------------------
(* Subscribe and UnSubscribe.  A sync.RWMutex keeps readers out from the     *)
(* moment a writer asks for it, and lets in the ones that wait before the    *)
(* next writer.                                                              *)

Lock(p) ==
  /\ pc[p] = "lock"
  /\ announced = Nobody
  /\ announced' = p
  /\ Goto(p, "edit")
  /\ UNCHANGED <<use, subVars, rlocks, queue, waiting, op, pubVars>>

\* Publish looks at the handlers of the key, when it has an entry.
Enter(S, entry, handlers) ==
  /\ rlocks' = [p \in Proc |-> IF p \in S THEN rlocks[p] + 1 ELSE rlocks[p]]
  /\ todo' = [p \in Proc |-> IF p \in S THEN handlers ELSE todo[p]]
  /\ failed' = [p \in Proc |-> IF p \in S THEN ~ entry ELSE failed[p]]

\* Subscribe makes the entry first and can then fail to find a key.
Subscribe ==
  /\ known' = TRUE
  /\ \/ \E h \in Handler \ subs : subs' = subs \cup {h}
     \/ UNCHANGED subs

UnSubscribe(o) ==
  IF o = "unsubscribeAll" THEN known' = FALSE /\ subs' = {}
  ELSE /\ \E S \in SUBSET Handler \ {{}} : subs' = subs \ S
       /\ UNCHANGED known

\* Whoever is blocked on the read lock enters when the writer leaves.
Leave(p) ==
  /\ announced' = Nobody
  /\ LET S == {q \in Proc : pc[q] = "blocked"}
     IN /\ Enter(S, known', subs')
        /\ pc' = [q \in Proc |-> IF q = p THEN "idle"
                                 ELSE IF q \in S THEN "range" ELSE pc[q]]
  /\ op' = [op EXCEPT ![p] = "publish"]

\* Fault: the handlers change while others run them.
EditAtOnce(p) ==
  /\ pc[p] = "edit"
  /\ IF op[p] = "subscribe" THEN Subscribe ELSE UnSubscribe(op[p])
  /\ Leave(p)
  /\ UNCHANGED <<use, queue, waiting, at>>

Edit(p) ==
  /\ pc[p] = "edit"
  /\ \A q \in Proc : rlocks[q] = 0
  /\ IF op[p] = "subscribe" THEN Subscribe ELSE UnSubscribe(op[p])
  /\ Leave(p)
  /\ UNCHANGED <<use, queue, waiting, at>>

-----------------------------------------------------------------------------
(* Publish.                                                                 *)

\* Fault: a writer that waits does not keep readers out.
RLockBarges(p) ==
  /\ pc[p] = "rlock"
  /\ Enter({p}, known, subs)
  /\ Goto(p, "range")
  /\ UNCHANGED <<use, subVars, announced, queue, waiting, op, at>>

RLock(p) ==
  /\ pc[p] = "rlock"
  /\ \/ announced = Nobody /\ Enter({p}, known, subs) /\ Goto(p, "range")
     \/ announced # Nobody /\ Goto(p, "blocked") /\ UNCHANGED <<rlocks, todo, failed>>
  /\ UNCHANGED <<use, subVars, announced, queue, waiting, op, at>>

\* Range comes to the next handler, or to its end.
Publish(p) ==
  /\ pc[p] = "range"
  /\ \/ \E h \in todo[p] : /\ at' = [at EXCEPT ![p] = h]
                           /\ todo' = [todo EXCEPT ![p] = @ \ {h}]
                           /\ Goto(p, "handler")
     \/ todo[p] = {} /\ Goto(p, "runlock") /\ UNCHANGED <<at, todo>>
  /\ UNCHANGED <<use, subVars, lockVars, queue, waiting, op, failed>>

\* A handler returns, with an error or without.
HandlerDone(p) ==
  /\ pc[p] \in {"handler", "handled"}
  /\ \E bad \in BOOLEAN : failed' = [failed EXCEPT ![p] = @ \/ bad]
  /\ at' = [at EXCEPT ![p] = NoHandler]
  /\ Goto(p, "range")
  /\ UNCHANGED <<use, subVars, lockVars, queue, waiting, op, todo>>

\* It panics: the callback of Range returns the zero value, false, and Range
\* stops.
HandlerPanicked(p) ==
  /\ pc[p] \in {"handler", "handled"}
  /\ failed' = [failed EXCEPT ![p] = TRUE]
  /\ at' = [at EXCEPT ![p] = NoHandler]
  /\ Goto(p, "runlock")
  /\ UNCHANGED <<use, subVars, lockVars, queue, waiting, op, todo>>

\* A handler may publish, under a read lock of its own.
HandlerPublishes(p) ==
  /\ pc[p] = "handler"
  /\ use = "nesting"
  /\ announced = Nobody
  /\ rlocks' = [rlocks EXCEPT ![p] = @ + 1]
  /\ Goto(p, "inner")
  /\ UNCHANGED <<use, subVars, announced, queue, waiting, op, pubVars>>

HandlerPublished(p) ==
  /\ pc[p] = "inner"
  /\ rlocks' = [rlocks EXCEPT ![p] = @ - 1]
  /\ Goto(p, "handled")
  /\ UNCHANGED <<use, subVars, announced, queue, waiting, op, pubVars>>

\* Publish returns.  A worker goes on with the queue only when there was an
\* error for OnError, and else waits.
RUnlock(p) ==
  /\ pc[p] = "runlock"
  /\ rlocks' = [rlocks EXCEPT ![p] = @ - 1]
  /\ todo' = [todo EXCEPT ![p] = {}]
  /\ failed' = [failed EXCEPT ![p] = FALSE]
  /\ \/ p \in Caller /\ Goto(p, "idle")
     \/ p \in Worker /\ failed[p] /\ Goto(p, "pop")
     \/ p \in Worker /\ Goto(p, "toWait")
  /\ UNCHANGED <<use, subVars, announced, queue, waiting, op, at>>

-----------------------------------------------------------------------------
(* The queue.                                                               *)

InQueue == \E i \in DOMAIN queue : queue[i]

\* Signal wakes the worker that has waited longest.
Signal ==
  IF waiting = <<>> THEN waiting' = waiting ELSE waiting' = Tail(waiting)

\* The bound leaves room for an event that wakes a worker.
PublishQueue(p) ==
  /\ pc[p] = "queue"
  /\ Len(queue) < MaxQueue \/ waiting # <<>>
  /\ \E w \in {FALSE, ~ InQueue} : queue' = Append(queue, w)
  /\ Signal
  /\ IF waiting = <<>> THEN Goto(p, "idle")
     ELSE pc' = [pc EXCEPT ![p] = "idle", ![Head(waiting)] = "pop"]
  /\ op' = [op EXCEPT ![p] = "publish"]
  /\ UNCHANGED <<use, subVars, lockVars, pubVars>>

\* Fault: the last event is taken, not the first.
popEventQueueLast(p) ==
  /\ pc[p] = "pop"
  /\ IF queue = <<>>
     THEN Goto(p, "toWait") /\ UNCHANGED queue
     ELSE /\ queue' = SubSeq(queue, 1, Len(queue) - 1)
          /\ Goto(p, "rlock")
  /\ UNCHANGED <<use, subVars, lockVars, waiting, op, pubVars>>

popEventQueue(p) ==
  /\ pc[p] = "pop"
  /\ IF queue = <<>>
     THEN Goto(p, "toWait") /\ UNCHANGED queue
     ELSE /\ queue' = Tail(queue)
          /\ Goto(p, "rlock")
  /\ UNCHANGED <<use, subVars, lockVars, waiting, op, pubVars>>

\* It waits without looking at the queue again.
Wait(p) ==
  /\ pc[p] = "toWait"
  /\ waiting' = Append(waiting, p)
  /\ Goto(p, "wait")
  /\ UNCHANGED <<use, subVars, lockVars, queue, op, pubVars>>

-----------------------------------------------------------------------------
Runs(p) == \/ Edit(p) \/ RLock(p) \/ Publish(p) \/ RUnlock(p) \/ popEventQueue(p)
           \/ Wait(p) \/ HandlerDone(p) \/ HandlerPanicked(p)
           \/ HandlerPublished(p)

EventNext == \E p \in Proc :
  \/ \E o \in Op : Call(p, o)
  \/ Lock(p) \/ HandlerPublishes(p) \/ PublishQueue(p) \/ Runs(p)

EventSpec == EventInit /\ [][EventNext]_eventVars

\* Goroutines run, handlers come to an end, and a mutex serves its waiters.
EventFairness == /\ \A p \in Proc : WF_eventVars(Runs(p))
                 /\ \A p \in Caller : SF_eventVars(Lock(p))

EventFairSpec == EventSpec /\ EventFairness

-----------------------------------------------------------------------------
EventTypeOK ==
  /\ use \in Use
  /\ known \in BOOLEAN
  /\ subs \in SUBSET Handler
  /\ rlocks \in [Proc -> 0..2]
  /\ announced \in Caller \cup {Nobody}
  /\ queue \in Seq(BOOLEAN)
  /\ waiting \in Seq(Worker)
  /\ pc \in [Proc -> Place]
  /\ op \in [Proc -> Op]
  /\ at \in [Proc -> Handler \cup {NoHandler}]
  /\ todo \in [Proc -> SUBSET Handler]
  /\ failed \in [Proc -> BOOLEAN]

\* A handler that runs is subscribed: once UnSubscribe has returned its handler
\* neither runs nor starts again.
RunsSubscribed == \A p \in Proc : at[p] # NoHandler => at[p] \in subs

\* A Publish without an error has called every handler of the key.
AllCalled == \A p \in Proc :
  pc[p] = "runlock" /\ ~ failed[p] => known /\ todo[p] = {}

\* Publish runs the handlers that are subscribed: none besides, and none less
\* without an error.
RunsHandlers == EventTypeOK /\ RunsSubscribed /\ AllCalled

\* Publish, Subscribe and UnSubscribe return, in both kinds of programs.
CallsReturn == \A p \in Caller :
  pc[p] \notin {"idle", "queue"} ~> pc[p] = "idle"

\* As long as the program goes on queueing events, each one is published.  (The
\* signal for an event is lost when no worker waits; the event is then
\* published with the wake-up of a later one.)
Flow == []<><<\E p \in Caller : PublishQueue(p)>>_eventVars
QueuedIsPublished == Flow => (InQueue ~> ~ InQueue)
=============================================================================
