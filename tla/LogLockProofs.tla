---------------------------- MODULE LogLockProofs ----------------------------
(***************************************************************************)
(* Proofs about two libraries that stand alone.  Of Rotate (ulog): its      *)
(* types, that a rotation loses no line, and that the writer stays open     *)
(* until it is closed or a file fails.  Of MLock (umap): its types, and     *)
(* that the lock of a key excludes until the program races, for any number  *)
(* of goroutines.  The two share no state.                                  *)
(***************************************************************************)
EXTENDS Rotate, MLock, TLAPS

\* No day after today has a file, a file that is open has a name, and a copy of
\* a file is made only when its day is over: compressCurrent overwrites none.
DaysPass ==
  /\ name <= day
  /\ current = "open" => name # 0
  /\ \A d \in Day : d >= name => gz[d] = {}

\* A file is missing only before the first one is opened, while Close waits and
\* once the goroutine has exited; it is unusable only if some file failed.
Usable ==
  \/ broken
  \/ current = "open"
  \/ /\ current = "nil"
     /\ \/ name = 0 /\ made = "no"
        \/ lock # Nobody
        \/ rot = "exited"

-----------------------------------------------------------------------------
\* The types of what openCurrent changes.
FileTypes ==
  /\ name \in Day \cup {0}
  /\ current \in {"nil", "open", "closed", "invalid"}
  /\ plain \in [Day -> SUBSET Line]
  /\ gz \in [Day -> SUBSET Line]
  /\ torn \in SUBSET Line
  /\ broken \in BOOLEAN

\* compressCurrent keeps the types of the files and touches one day only.
LEMMA CompressTypes ==
  ASSUME TypeOK, name # 0, compressCurrent
  PROVE  /\ plain' \in [Day -> SUBSET Line]
         /\ gz' \in [Day -> SUBSET Line]
         /\ torn' \in SUBSET Line /\ torn \subseteq torn'
         /\ \A d \in Day : d # name => plain'[d] = plain[d] /\ gz'[d] = gz[d]
         /\ plain[name] \subseteq plain'[name] \cup gz'[name] \cup torn'
<1>1. name \in Day /\ plain[name] \in SUBSET Line
  BY DEF TypeOK
<1>2. CASE /\ gz' = [gz EXCEPT ![name] = plain[name]]
           /\ \E rest \in {{}, plain[name]} :
                plain' = [plain EXCEPT ![name] = rest]
           /\ UNCHANGED torn
  BY <1>1, <1>2 DEF TypeOK
<1>3. CASE /\ \E part \in SUBSET plain[name] : gz' = [gz EXCEPT ![name] = part]
           /\ UNCHANGED <<plain, torn>>
  BY <1>1, <1>3 DEF TypeOK
<1>4. CASE /\ \E part \in SUBSET plain[name] : gz' = [gz EXCEPT ![name] = part]
           /\ plain' = [plain EXCEPT ![name] = {}]
           /\ torn' = torn \cup plain[name]
  BY <1>1, <1>4 DEF TypeOK
<1> QED
  BY <1>2, <1>3, <1>4 DEF compressCurrent

\* Every line stays in a file of its day, or counts as torn from now on.
KeepsByDay ==
  /\ torn \subseteq torn'
  /\ \A d \in Day : plain[d] \cup gz[d] \subseteq plain'[d] \cup gz'[d] \cup torn'

\* openCurrent keeps the types, the order of the days and every line, and what
\* it leaves is an open file unless some file failed.
LEMMA OpenCurrentKeeps ==
  ASSUME TypeOK, DaysPass, openCurrent, day' = day
  PROVE  /\ FileTypes'
         /\ DaysPass'
         /\ KeepsByDay
         /\ broken' \/ current' = "open" \/ (current' = current /\ name' = name)
         /\ broken => broken'
         /\ current = "nil" /\ name # day => broken' \/ current' = "open"
<1>1. CASE name = day /\ UNCHANGED fileVars
  BY <1>1 DEF TypeOK, DaysPass, FileTypes, KeepsByDay, fileVars, Day
<1>2. CASE name # day /\ current = "nil" /\ OpenFile /\ UNCHANGED lineVars
  <2>1. FileTypes'
    BY <1>2 DEF TypeOK, FileTypes, OpenFile, lineVars
  <2>2. DaysPass'
    BY <1>2 DEF TypeOK, DaysPass, OpenFile, lineVars, Day
  <2>3. KeepsByDay
    BY <1>2 DEF KeepsByDay, lineVars
  <2> QED
    BY <1>2, <2>1, <2>2, <2>3 DEF OpenFile
<1>3. CASE /\ name # day /\ current = "open"
           /\ IF compress THEN compressCurrent ELSE UNCHANGED lineVars
           /\ OpenFile
  <2>1. CASE compress
    <3>1. name # 0 /\ compressCurrent
      BY <1>3, <2>1 DEF DaysPass
    <3>2. /\ plain' \in [Day -> SUBSET Line]
          /\ gz' \in [Day -> SUBSET Line]
          /\ torn' \in SUBSET Line /\ torn \subseteq torn'
          /\ \A d \in Day : d # name => plain'[d] = plain[d] /\ gz'[d] = gz[d]
          /\ plain[name] \subseteq plain'[name] \cup gz'[name] \cup torn'
      BY <3>1, CompressTypes
    <3>3. FileTypes'
      BY <1>3, <3>2 DEF TypeOK, FileTypes, OpenFile
    <3>4. DaysPass'
      BY <1>3, <3>2 DEF TypeOK, DaysPass, OpenFile, Day
    <3>5. KeepsByDay
      <4> SUFFICES ASSUME NEW d \in Day
                   PROVE  plain[d] \cup gz[d]
                            \subseteq plain'[d] \cup gz'[d] \cup torn'
        BY <3>2 DEF KeepsByDay
      <4>1. CASE d # name
        BY <3>2, <4>1
      <4>2. CASE d = name
        <5>1. gz[d] = {}
          BY <4>2 DEF DaysPass, TypeOK, Day
        <5> QED
          BY <3>2, <4>2, <5>1
      <4> QED
        BY <4>1, <4>2
    <3> QED
      BY <1>3, <3>3, <3>4, <3>5 DEF OpenFile
  <2>2. CASE ~ compress
    <3>1. FileTypes'
      BY <1>3, <2>2 DEF TypeOK, FileTypes, OpenFile, lineVars
    <3>2. DaysPass'
      BY <1>3, <2>2 DEF TypeOK, DaysPass, OpenFile, lineVars, Day
    <3>3. KeepsByDay
      BY <1>3, <2>2 DEF KeepsByDay, lineVars
    <3> QED
      BY <1>3, <3>1, <3>2, <3>3 DEF OpenFile
  <2> QED
    BY <2>1, <2>2
<1>4. CASE /\ name # day /\ current = "open"
           /\ current' = "closed"
           /\ broken' = TRUE
           /\ UNCHANGED <<name, lineVars>>
  BY <1>4 DEF TypeOK, DaysPass, FileTypes, KeepsByDay, lineVars, Day
<1>5. CASE name # day /\ current \in {"closed", "invalid"} /\ UNCHANGED fileVars
  BY <1>5 DEF TypeOK, DaysPass, FileTypes, KeepsByDay, fileVars, Day
<1> QED
  BY <1>1, <1>2, <1>3, <1>4, <1>5 DEF openCurrent

IInv == TypeOK /\ DaysPass /\ LinesKept /\ Usable

\* A line in some file stays in some file when each day keeps its lines.
LEMMA KeptByDay ==
  ASSUME LinesKept, told' = told, KeepsByDay
  PROVE  LinesKept'
BY DEF LinesKept, KeepsByDay

LEMMA InitInv == Init => IInv
<1> SUFFICES ASSUME Init PROVE IInv
  OBVIOUS
<1> USE RotateAssumption
<1>1. TypeOK
  <2>1. day \in Day /\ timer \in 0..(LastDay + IntervalDay)
    BY DEF Init, Day
  <2>2. broken \in BOOLEAN /\ compress \in BOOLEAN
    BY DEF Init
  <2> QED
    BY <2>1, <2>2 DEF Init, TypeOK
<1>2. DaysPass /\ LinesKept /\ Usable
  BY DEF Init, DaysPass, LinesKept, Usable, Day
<1> QED
  BY <1>1, <1>2 DEF IInv

LEMMA StepInv == IInv /\ [Next]_vars => IInv'
<1> SUFFICES ASSUME IInv, [Next]_vars PROVE IInv'
  OBVIOUS
<1> USE DEF IInv
<1>1. CASE NewDay
  <2>1. day' \in Day /\ DaysPass'
    BY <1>1, RotateAssumption DEF NewDay, TypeOK, DaysPass, fileVars, Day
  <2>2. TypeOK'
    BY <1>1, <2>1 DEF NewDay, TypeOK, fileVars
  <2>3. LinesKept' /\ Usable'
    BY <1>1 DEF NewDay, LinesKept, Usable, fileVars
  <2> QED
    BY <2>1, <2>2, <2>3
<1>2. CASE NewRotateWriter
  <2>1. openCurrent /\ day' = day
    BY <1>2 DEF NewRotateWriter
  <2>2. TypeOK'
    BY <1>2, <2>1, OpenCurrentKeeps DEF NewRotateWriter, TypeOK, FileTypes
  <2>3. DaysPass' /\ LinesKept'
    BY <1>2, <2>1, OpenCurrentKeeps, KeptByDay DEF NewRotateWriter
  <2>4. Usable'
    BY <1>2, <2>1, OpenCurrentKeeps, RotateAssumption
       DEF NewRotateWriter, Usable, TypeOK, Day
  <2> QED
    BY <2>2, <2>3, <2>4
<1>3. CASE OpenCurrent
  <2>1. openCurrent /\ day' = day
    BY <1>3 DEF OpenCurrent
  <2>2. TypeOK'
    BY <1>3, <2>1, OpenCurrentKeeps DEF OpenCurrent, TypeOK, FileTypes
  <2>3. DaysPass' /\ LinesKept'
    BY <1>3, <2>1, OpenCurrentKeeps, KeptByDay DEF OpenCurrent
  <2>4. Usable'
    BY <1>3, <2>1, OpenCurrentKeeps DEF OpenCurrent, Usable
  <2> QED
    BY <2>2, <2>3, <2>4
<1>4. CASE SetTimer
  <2>1. TypeOK'
    BY <1>4, RotateAssumption DEF SetTimer, TypeOK, fileVars, Day
  <2>2. DaysPass' /\ LinesKept' /\ Usable'
    BY <1>4 DEF SetTimer, DaysPass, LinesKept, Usable, fileVars
  <2> QED
    BY <2>1, <2>2
<1>5. CASE TimerFires
  BY <1>5 DEF TimerFires, TypeOK, DaysPass, LinesKept, Usable, fileVars
<1>6. CASE rotate
  <2>1. openCurrent /\ day' = day
    BY <1>6 DEF rotate
  <2>2. TypeOK'
    BY <1>6, <2>1, OpenCurrentKeeps DEF rotate, TypeOK, FileTypes
  <2>3. DaysPass' /\ LinesKept'
    BY <1>6, <2>1, OpenCurrentKeeps, KeptByDay DEF rotate
  <2>4. Usable'
    BY <1>6, <2>1, OpenCurrentKeeps DEF rotate, Usable
  <2> QED
    BY <2>2, <2>3, <2>4
<1>7. ASSUME NEW l \in Line, Write(l) PROVE IInv'
  <2>1. name \in Day
    BY <1>7 DEF Write, DaysPass, TypeOK
  <2>2. TypeOK'
    BY <1>7, <2>1 DEF Write, TypeOK
  <2>3. DaysPass' /\ Usable'
    BY <1>7, <2>1 DEF Write, TypeOK, DaysPass, Usable
  <2>4. LinesKept'
    <3>1. \A d \in Day : plain[d] \subseteq plain'[d]
      BY <1>7, <2>1 DEF Write, TypeOK
    <3>2. l \in plain'[name]
      BY <1>7, <2>1 DEF Write, TypeOK
    <3> QED
      BY <1>7, <2>1, <3>1, <3>2 DEF Write, LinesKept
  <2> QED
    BY <2>2, <2>3, <2>4
<1>8. ASSUME NEW p \in Goroutine, Close(p) PROVE IInv'
  <2>1. TypeOK' /\ DaysPass'
    BY <1>8 DEF Close, TypeOK, DaysPass, lineVars
  <2>2. LinesKept'
    BY <1>8 DEF Close, LinesKept, lineVars
  <2>3. Usable'
    BY <1>8, RotateAssumption DEF Close, Usable
  <2> QED
    BY <2>1, <2>2, <2>3
<1>9. ASSUME NEW p \in Goroutine, CloseReturns(p) PROVE IInv'
  BY <1>9 DEF CloseReturns, TypeOK, DaysPass, LinesKept, Usable, fileVars
<1>10. CASE UNCHANGED vars
  BY <1>10 DEF vars, fileVars, TypeOK, DaysPass, LinesKept, Usable
<1> QED
  BY <1>1, <1>2, <1>3, <1>4, <1>5, <1>6, <1>7, <1>8, <1>9, <1>10 DEF Next

LEMMA Invariance == Spec => []IInv
BY InitInv, StepInv, PTL DEF Spec

-----------------------------------------------------------------------------
\* Every variable keeps its type, for any number of goroutines, lines and days.
THEOREM RotateTypeCorrect == Spec => []TypeOK
<1>1. IInv => TypeOK
  BY DEF IInv
<1> QED
  BY <1>1, Invariance, PTL

\* Logging goes on over every rotation, for any number of goroutines, lines and
\* days: a line whose Write returned no error is in a log file or in its copy,
\* whichever copies, removals, closes and opens fail in openCurrent, unless the
\* copy failed when it was closed, an error that compressCurrent drops; and the
\* writer can be written to until Close, or until a log file fails to open or to
\* close.
THEOREM RotationKeepsLogging == Spec => []KeepsLogging
<1>1. IInv => KeepsLogging
  BY DEF IInv, Usable, StaysOpen, KeepsLogging
<1> QED
  BY <1>1, Invariance, PTL

-----------------------------------------------------------------------------
(* The lock per key.                                                        *)

USE MLockAssumption DEF Goto, Unlocked, Use, Got, NewChan, Op, Place, InCall, code

LEMMA InitTypes == LockInit => LockTypeOK
  BY DEF LockInit, LockTypeOK

LEMMA NextTypes == LockTypeOK /\ [LockNext]_lockVars => LockTypeOK'
<1> SUFFICES ASSUME LockTypeOK, [LockNext]_lockVars PROVE LockTypeOK'
  OBVIOUS
<1> USE DEF LockTypeOK
<1>1. ASSUME NEW p \in Proc, NEW o \in Op, Call(p, o) PROVE LockTypeOK'
  BY <1>1 DEF Call
<1>2. ASSUME NEW p \in Proc, getLocker(p) PROVE LockTypeOK'
  BY <1>2 DEF getLocker
<1>3. ASSUME NEW p \in Proc, getLockerSets(p) PROVE LockTypeOK'
  BY <1>3 DEF getLockerSets
<1>4. ASSUME NEW p \in Proc, LockWithContext(p) PROVE LockTypeOK'
  BY <1>4 DEF LockWithContext
<1>5. ASSUME NEW p \in Proc, LockGivesUp(p) PROVE LockTypeOK'
  BY <1>5 DEF LockGivesUp
<1>6. ASSUME NEW p \in Proc, unlock(p) PROVE LockTypeOK'
  BY <1>6 DEF unlock
<1>7. ASSUME NEW p \in Proc, unlockReceives(p) PROVE LockTypeOK'
  BY <1>7 DEF unlockReceives
<1>8. ASSUME NEW p \in Proc, ReleaseAll(p) PROVE LockTypeOK'
  BY <1>8 DEF ReleaseAll
<1>9. ASSUME NEW p \in Proc, Release(p) PROVE LockTypeOK'
  BY <1>9 DEF Release
<1>10. CASE UNCHANGED lockVars
  BY <1>10 DEF lockVars
<1>11. QED
  BY <1>1, <1>2, <1>3, <1>4, <1>5, <1>6, <1>7, <1>8, <1>9, <1>10
     DEF LockNext, GoesOn

\* The variables of MLock keep their types, and no step of Lock, Unlock, Release
\* or ReleaseAll uses a nil channel, whatever runs at once.
THEOREM MLockTypeCorrect == LockSpec => []LockTypeOK
  BY InitTypes, NextTypes, PTL DEF LockSpec

-----------------------------------------------------------------------------
(* Mutual exclusion.                                                        *)

\* The holder, and one who has called Unlock or Release as the holder and has
\* not emptied the channel.
Owner(p) == p \in held \cup mine

\* Where each goroutine is: the method fits the place, one whose call has met no
\* other is by itself, and only an owner receives.
PlacesFit == \A p \in Proc :
  /\ pc[p] = "send" => op[p] = "lock"
  /\ pc[p] \in {"range", "len", "recv", "delete"}
       => op[p] \notin {"lock", "isLocked"}
  /\ p \in alone /\ pc[p] # "idle" => \A q \in Proc \ {p} : pc[q] = "idle"
  /\ p \in held => pc[p] = "idle" \/ op[p] = "isLocked"
  /\ p \in mine => /\ pc[p] \in {"load", "set", "range", "len", "recv"}
                   /\ op[p] \notin {"lock", "isLocked"}
  /\ pc[p] = "recv" => p \in mine
  /\ pc[p] = "set" /\ p \in alone => slot = NoChan

\* Every goroutine that has a channel has the one of the map, which is full
\* exactly while it has an owner, of which there is one at most.  The key is
\* missing only while it has neither.
Exclusive ==
  /\ \A p \in Proc : chan[p] \in {NoChan, slot}
  /\ full \subseteq {slot}
  /\ \A p, q \in Proc : Owner(p) /\ Owner(q) => p = q
  /\ slot \in full <=> \E p \in Proc : Owner(p)

ExclusiveInv == ~raced => PlacesFit /\ Exclusive

LEMMA InitExclusive == LockInit => ExclusiveInv
  BY DEF LockInit, ExclusiveInv, PlacesFit, Exclusive, Owner

LEMMA NextExclusive ==
  LockTypeOK /\ ExclusiveInv /\ [LockNext]_lockVars => ExclusiveInv'
<1> SUFFICES ASSUME LockTypeOK, PlacesFit, Exclusive, [LockNext]_lockVars, ~raced'
             PROVE  PlacesFit' /\ Exclusive'
  <2>1. ASSUME LockTypeOK, [LockNext]_lockVars, raced PROVE raced'
    <3>1. UNCHANGED raced \/ \E p \in Proc : \/ getLockerSets(p) \/ unlock(p)
                                             \/ Release(p)
      BY <2>1 DEF LockNext, GoesOn, Call, getLocker, LockWithContext,
         LockGivesUp, unlockReceives, ReleaseAll, lockVars
    <3> QED
      BY <2>1, <3>1, Zenon DEF getLockerSets, unlock, Release
  <2> QED
    BY <2>1 DEF ExclusiveInv
<1> DEFINE Goal == PlacesFit' /\ Exclusive'
<1> USE DEF LockTypeOK, PlacesFit, Exclusive, Owner
<1>1. ASSUME NEW p \in Proc, NEW o \in Op, Call(p, o) PROVE Goal
  <2>1. PlacesFit'
    BY <1>1 DEF Call
  <2>2. Exclusive'
    BY <1>1 DEF Call
  <2> QED
    BY <2>1, <2>2
<1>2. ASSUME NEW p \in Proc, getLocker(p) PROVE Goal
  BY <1>2 DEF getLocker
<1>3. ASSUME NEW p \in Proc, getLockerSets(p) PROVE Goal
  <2>1. p \in alone /\ slot = NoChan /\ \A q \in Proc \ {p} : pc[q] = "idle"
    BY <1>3 DEF getLockerSets
  <2>2. \A q \in Proc : chan[q] = NoChan /\ ~Owner(q)
    BY <1>3, <2>1 DEF getLockerSets
  <2>3. full = {}
    BY <2>1
  <2>4. PlacesFit'
    BY <1>3, <2>1, <2>2 DEF getLockerSets
  <2>5. Exclusive'
    BY <1>3, <2>2, <2>3 DEF getLockerSets
  <2> QED
    BY <2>4, <2>5
<1>4. ASSUME NEW p \in Proc, LockWithContext(p) PROVE Goal
  <2>1. PlacesFit'
    BY <1>4 DEF LockWithContext
  <2>2. Exclusive'
    BY <1>4 DEF LockWithContext
  <2> QED
    BY <2>1, <2>2
<1>5. ASSUME NEW p \in Proc, LockGivesUp(p) PROVE Goal
  BY <1>5 DEF LockGivesUp
<1>6. ASSUME NEW p \in Proc, unlock(p) PROVE Goal
  <2>1. p \in mine => chan[p] \in full
    BY <1>6 DEF unlock
  <2>2. chan[p] \in full => p \in mine
    BY <1>6, Zenon DEF unlock
  <2>3. PlacesFit'
    BY <1>6, <2>1, <2>2 DEF unlock
  <2>4. Exclusive'
    BY <1>6 DEF unlock
  <2> QED
    BY <2>3, <2>4
<1>7. ASSUME NEW p \in Proc, unlockReceives(p) PROVE Goal
  <2>1. p \in mine /\ chan[p] = slot
    BY <1>7 DEF unlockReceives
  <2>2. PlacesFit'
    BY <1>7 DEF unlockReceives
  <2>3. Exclusive'
    BY <1>7, <2>1 DEF unlockReceives
  <2> QED
    BY <2>2, <2>3
<1>8. ASSUME NEW p \in Proc, ReleaseAll(p) PROVE Goal
  <2>1. slot = NoChan => ~Owner(p)
    OBVIOUS
  <2>2. PlacesFit'
    BY <1>8, <2>1 DEF ReleaseAll
  <2>3. Exclusive'
    BY <1>8 DEF ReleaseAll
  <2> QED
    BY <2>2, <2>3
<1>9. ASSUME NEW p \in Proc, Release(p) PROVE Goal
  <2>1. p \in alone /\ held = {} /\ \A q \in Proc \ {p} : pc[q] = "idle"
    BY <1>9 DEF Release
  <2>2. \A q \in Proc : ~Owner(q) /\ chan[q] = NoChan
    BY <1>9, <2>1 DEF Release
  <2>3. PlacesFit'
    BY <1>9, <2>1, <2>2 DEF Release
  <2>4. Exclusive'
    BY <1>9, <2>2 DEF Release
  <2> QED
    BY <2>3, <2>4
<1>10. CASE UNCHANGED lockVars
  BY <1>10 DEF lockVars
<1>11. QED
  BY <1>1, <1>2, <1>3, <1>4, <1>5, <1>6, <1>7, <1>8, <1>9, <1>10
     DEF LockNext, GoesOn

\* Lock excludes, over keys that are created and released, until a call that
\* creates or deletes the key overlaps another, a Release deletes the key of a
\* holder or an Unlock takes the lock of another goroutine.
THEOREM LockExcludes == LockSpec => []Excludes
<1>1. LockTypeOK /\ ExclusiveInv => Excludes
  BY DEF LockTypeOK, ExclusiveInv, Exclusive, Owner, Excludes, MutualExclusion
<1>2. QED
  BY <1>1, InitTypes, NextTypes, InitExclusive, NextExclusive, PTL DEF LockSpec

\* Until then Lock waits only while another goroutine owns the lock, and Unlock,
\* which reads the length of the channel first, finds the element it then
\* receives.
LocksMoveOn == ~raced => \A p \in Proc :
  /\ pc[p] = "send" /\ chan[p] \in full => \E q \in Proc \ {p} : Owner(q)
  /\ pc[p] = "recv" => chan[p] \in full

\* Nobody waits on the channel of a key for nothing: no lock is lost when a Lock
\* gives up, when Unlock looks and receives in two steps, or when a key is
\* released and made again, for any number of goroutines.  It is the safety part
\* of CallsReturn.
THEOREM LockStrandsNobody == LockSpec => []LocksMoveOn
<1>1. LockTypeOK /\ ExclusiveInv => LocksMoveOn
  <2> SUFFICES ASSUME LockTypeOK, PlacesFit, Exclusive, NEW p \in Proc
               PROVE  /\ pc[p] = "send" /\ chan[p] \in full =>
                           \E q \in Proc \ {p} : Owner(q)
                      /\ pc[p] = "recv" => chan[p] \in full
    BY DEF ExclusiveInv, LocksMoveOn
  <2>1. pc[p] = "send" => ~Owner(p) /\ chan[p] = slot
    BY DEF LockTypeOK, PlacesFit, Exclusive, Owner
  <2>2. pc[p] = "recv" => Owner(p) /\ chan[p] = slot
    BY DEF LockTypeOK, PlacesFit, Exclusive, Owner
  <2>. QED
    BY <2>1, <2>2 DEF Exclusive
<1>. QED
  BY <1>1, InitTypes, NextTypes, InitExclusive, NextExclusive, PTL DEF LockSpec
=============================================================================
