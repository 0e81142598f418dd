-------------------------------- MODULE MLock --------------------------------
(***************************************************************************)
(* The lock per key of umap (umap/mlock.go): the map h leads from the key   *)
(* to a channel of capacity one, which is full while the key is locked.     *)
(* Keys do not interact, so one key is enough.  One step is one operation   *)
(* on the map (each is atomic) or on a channel.  The program calls every    *)
(* method at any time, but for a Lock of what the goroutine holds already;  *)
(* alone, mine and raced only record how it does so.                        *)
(***************************************************************************)
EXTENDS Integers, FiniteSets

CONSTANTS Proc,       \* goroutines
          Chan,       \* channels; one is used again when nothing refers to it
          NoChan      \* the key is not in the map

ASSUME MLockAssumption == NoChan \notin Chan

VARIABLES
  slot,    \* the channel the map has for the key
  full,    \* channels that hold an element
  pc,      \* where each goroutine is
  op,      \* the method it runs
  chan,    \* the channel it got from getLocker or from Range
  held,    \* goroutines between the end of Lock and their call of Unlock
  alone,   \* goroutines whose last call has overlapped no other call
  mine,    \* goroutines that called Unlock or Release as holders and have
           \* not received yet
  raced    \* the program has used the lock as Excludes exempts

code == <<slot, full, pc, op, chan, held>>
lockVars == <<code, alone, mine, raced>>

Op == {"lock", "unlock", "isLocked", "release", "releaseAll"}
Place == {"idle", "load", "set", "range", "send", "len", "recv", "delete"}

LockInit ==
  /\ slot = NoChan
  /\ full = {}
  /\ pc = [p \in Proc |-> "idle"]
  /\ op = [p \in Proc |-> "lock"]
  /\ chan = [p \in Proc |-> NoChan]
  /\ held = {}
  /\ alone = Proc
  /\ mine = {}
  /\ raced = FALSE

Goto(p, place) == pc' = [pc EXCEPT ![p] = place]

InCall == {p \in Proc : pc[p] # "idle"}

\* A goroutine that holds the lock leaves it when it calls Unlock or Release.
Call(p, o) ==
  LET leaves == o \in {"unlock", "release", "releaseAll"}
  IN  /\ pc[p] = "idle"
      /\ o = "lock" => p \notin held
      /\ op' = [op EXCEPT ![p] = o]
      /\ Goto(p, IF o = "releaseAll" THEN "range" ELSE "load")
      /\ held' = IF leaves THEN held \ {p} ELSE held
      /\ mine' = IF leaves /\ p \in held THEN mine \cup {p} ELSE mine \ {p}
      /\ alone' = IF InCall = {} THEN alone \cup {p}
                                 ELSE alone \ (InCall \cup {p})
      /\ UNCHANGED <<slot, full, chan, raced>>

\* What p does with the channel that getLocker returns.
Use(p) == Goto(p, CASE op[p] = "lock"     -> "send"
                    [] op[p] = "isLocked" -> "idle"
                    [] OTHER              -> "len")
Got(p, c) == chan' = [chan EXCEPT ![p] = IF op[p] = "isLocked" THEN @ ELSE c]

\* getLocker loads the channel of the key.
getLocker(p) ==
  /\ pc[p] = "load"
  /\ IF slot = NoChan THEN Goto(p, "set") /\ UNCHANGED chan
                      ELSE Use(p) /\ Got(p, slot)
  /\ UNCHANGED <<slot, full, op, held, alone, mine, raced>>

NewChan(c) == c \in Chan \ ({slot} \cup {chan[q] : q \in Proc})

\* Fault: getLocker returns the channel that it makes and does not store it.
getLockerForgets(p) ==
  /\ pc[p] = "set"
  /\ \E c \in Chan : NewChan(c) /\ full' = full \ {c} /\ Got(p, c)
  /\ Use(p)
  /\ raced' = (raced \/ p \notin alone)
  /\ UNCHANGED <<slot, op, held, alone, mine>>

\* It has found none, stores a new one, whatever is there now, and loads again.
getLockerSets(p) ==
  /\ pc[p] = "set"
  /\ \E c \in Chan : NewChan(c) /\ full' = full \ {c} /\ slot' = c
  /\ Goto(p, "load")
  /\ raced' = (raced \/ p \notin alone)
  /\ UNCHANGED <<op, chan, held, alone, mine>>

LockWithContext(p) ==
  /\ pc[p] = "send"
  /\ chan[p] \notin full
  /\ full' = full \cup {chan[p]}
  /\ held' = held \cup {p}
  /\ chan' = [chan EXCEPT ![p] = NoChan]
  /\ Goto(p, "idle")
  /\ UNCHANGED <<slot, op, alone, mine, raced>>

\* The context ends first.
LockGivesUp(p) ==
  /\ pc[p] = "send"
  /\ chan' = [chan EXCEPT ![p] = NoChan]
  /\ Goto(p, "idle")
  /\ UNCHANGED <<slot, full, op, held, alone, mine, raced>>

\* unlock is over: Release and ReleaseAll delete the key next.
Unlocked(p) ==
  /\ Goto(p, IF op[p] = "unlock" THEN "idle" ELSE "delete")
  /\ chan' = [chan EXCEPT ![p] = NoChan]

\* unlock looks at the length of the channel, and then receives.
unlock(p) ==
  /\ pc[p] = "len"
  /\ IF chan[p] \in full THEN Goto(p, "recv") /\ UNCHANGED chan
                         ELSE Unlocked(p)
  /\ raced' = (raced \/ (chan[p] \in full /\ p \notin mine))
  /\ UNCHANGED <<slot, full, op, held, alone, mine>>

\* Fault: the element is looked at and left in the channel.
unlockKeeps(p) ==
  /\ pc[p] = "recv"
  /\ chan[p] \in full
  /\ Unlocked(p)
  /\ mine' = mine \ {p}
  /\ UNCHANGED <<slot, full, op, held, alone, raced>>

unlockReceives(p) ==
  /\ pc[p] = "recv"
  /\ chan[p] \in full
  /\ full' = full \ {chan[p]}
  /\ Unlocked(p)
  /\ mine' = mine \ {p}
  /\ UNCHANGED <<slot, op, held, alone, raced>>

\* ReleaseAll takes the channel from Range.
ReleaseAll(p) ==
  /\ pc[p] = "range"
  /\ IF slot = NoChan
     THEN Goto(p, "idle") /\ UNCHANGED chan
     ELSE Goto(p, "len") /\ chan' = [chan EXCEPT ![p] = slot]
  /\ UNCHANGED <<slot, full, op, held, alone, mine, raced>>

Release(p) ==
  /\ pc[p] = "delete"
  /\ slot' = NoChan
  /\ Goto(p, "idle")
  /\ raced' = (raced \/ p \notin alone \/ held # {})
  /\ UNCHANGED <<full, op, chan, held, alone, mine>>

GoesOn(p) == \/ getLocker(p) \/ getLockerSets(p) \/ unlock(p)
             \/ unlockReceives(p) \/ ReleaseAll(p) \/ Release(p)

LockNext == \E p \in Proc : \/ \E o \in Op : Call(p, o)
                            \/ LockWithContext(p) \/ LockGivesUp(p) \/ GoesOn(p)

LockSpec == LockInit /\ [][LockNext]_lockVars

\* Goroutines run, holders unlock, and a channel serves its senders in order.
LockFairness == \A p \in Proc : /\ WF_lockVars(GoesOn(p))
                                /\ SF_lockVars(Call(p, "unlock") /\ p \in held)
                                /\ SF_lockVars(LockWithContext(p))

LockFairSpec == LockSpec /\ LockFairness

-----------------------------------------------------------------------------
\* A goroutine has a channel where it uses one: never a nil channel, on which
\* it would wait for ever.
LockTypeOK ==
  /\ slot \in Chan \cup {NoChan}
  /\ full \in SUBSET Chan
  /\ pc \in [Proc -> Place]
  /\ op \in [Proc -> Op]
  /\ chan \in [Proc -> Chan \cup {NoChan}]
  /\ \A p \in Proc : pc[p] \in {"send", "len", "recv"} <=> chan[p] \in Chan
  /\ held \in SUBSET Proc
  /\ alone \in SUBSET Proc
  /\ mine \in SUBSET Proc
  /\ raced \in BOOLEAN

\* No two goroutines hold the lock of a key.
MutualExclusion == \A p, q \in held : p = q

\* Lock excludes, for keys that are new and for keys that come and go with
\* Release, until the program races: a call that finds the key missing, or a
\* Release, overlaps another call (Load, Set and Delete are steps of their
\* own: two first Locks of a key may both return), a Release deletes the key
\* that another goroutine holds, or an Unlock takes the lock of another one,
\* which the comment of Unlock (mlock.go:64) does not warn of.
Excludes == ~raced => MutualExclusion

\* Until then a goroutine that waits in Lock gets the lock or gives up, however
\* often others take it.
LockReturns == \A p \in Proc : pc[p] = "send" ~> pc[p] # "send" \/ raced

\* Until then no Unlock hangs on the receive of a channel that was full when
\* its length was read.
UnlockReturns == \A p \in Proc : pc[p] = "recv" ~> pc[p] # "recv" \/ raced

\* No method waits on the channel of a key for ever.
CallsReturn == LockReturns /\ UnlockReturns
=============================================================================
