------------------------------- MODULE Rotate -------------------------------
(***************************************************************************)
(* The log writer that changes its file with the day (ulog/rotate.go): the  *)
(* goroutines that log, close and reopen, the goroutine with the timer, and *)
(* the files.  What runs under r.rw without waiting for anybody is one      *)
(* step.                                                                    *)
(***************************************************************************)
EXTENDS Integers

CONSTANTS Goroutine,   \* goroutines of the program
          Nobody,      \* none of them
          Line,        \* what they log, each once
          LastDay,     \* bound on the days
          IntervalDay  \* r.intervalDay

ASSUME RotateAssumption ==
  /\ Nobody \notin Goroutine
  /\ LastDay \in Nat /\ IntervalDay \in Nat
  /\ LastDay >= 1 /\ IntervalDay >= 1

VARIABLES
  made,      \* NewRotateWriter: "no", "yes", or "failed"
  compress,  \* r.compress
  day,       \* today, and so the name of the file that openCurrent wants
  name,      \* r.currentName, 0 for ""
  current,   \* r.current: "nil", a file that is "open" or "closed", or
             \* "invalid", the nil *os.File of a failed open
  lock,      \* who holds r.rw across steps
  timer,     \* the day for which the timer is set, 0 before it is
  rot,       \* the goroutine: about to set its timer, in its select, due to
             \* rotate, or exited
  plain, gz, \* lines in the log files and in their compressed copies, by day
  torn,      \* lines of files that were removed although the end of their
             \* copy was not written (history)
  told,      \* lines whose Write returned no error (history)
  broken     \* a Close or an OpenFile has failed (history)

fileVars == <<name, current, plain, gz, torn, broken>>
lineVars == <<plain, gz, torn>>
vars == <<made, compress, day, fileVars, lock, timer, rot, told>>

Day == 1..LastDay

Init ==
  /\ made = "no"
  /\ compress \in BOOLEAN
  /\ day = 1
  /\ name = 0
  /\ current = "nil"
  /\ lock = Nobody
  /\ timer = 0
  /\ rot = "reset"
  /\ plain = [d \in Day |-> {}]
  /\ gz = [d \in Day |-> {}]
  /\ torn = {}
  /\ told = {}
  /\ broken = FALSE

NewDay ==
  /\ day < LastDay
  /\ day' = day + 1
  /\ UNCHANGED <<made, compress, fileVars, lock, timer, rot, told>>

-----------------------------------------------------------------------------
(* openCurrent, under the lock.                                             *)

\* Fault: the log file is removed whether it was compressed or not.
compressCurrentRemoves ==
  /\ \E copied \in {{}, plain[name]} : gz' = [gz EXCEPT ![name] = copied]
  /\ plain' = [plain EXCEPT ![name] = {}]
  /\ UNCHANGED torn

\* The copy is made and the file removed, which can fail; or the copy fails, at
\* any point; or it fails when gz and w are closed, whose errors are dropped,
\* and the file is removed all the same.  There is no earlier copy: days do not
\* come back.
compressCurrent ==
  \/ /\ gz' = [gz EXCEPT ![name] = plain[name]]
     /\ \E rest \in {{}, plain[name]} : plain' = [plain EXCEPT ![name] = rest]
     /\ UNCHANGED torn
  \/ /\ \E part \in SUBSET plain[name] : gz' = [gz EXCEPT ![name] = part]
     /\ UNCHANGED <<plain, torn>>
  \/ /\ \E part \in SUBSET plain[name] : gz' = [gz EXCEPT ![name] = part]
     /\ plain' = [plain EXCEPT ![name] = {}]
     /\ torn' = torn \cup plain[name]

\* The name is set before the file is opened.
OpenFile ==
  /\ name' = day
  /\ \/ current' = "open" /\ UNCHANGED broken
     \/ current' = "invalid" /\ broken' = TRUE

\* The file that is open is closed first.  If that fails it is closed for good:
\* each later attempt fails with the Close of a closed or invalid file.
openCurrent ==
  \/ name = day /\ UNCHANGED fileVars
  \/ name # day /\ current = "nil" /\ OpenFile /\ UNCHANGED lineVars
  \/ /\ name # day /\ current = "open"
     /\ IF compress THEN compressCurrent ELSE UNCHANGED lineVars
     /\ OpenFile
  \/ /\ name # day /\ current = "open"
     /\ current' = "closed"
     /\ broken' = TRUE
     /\ UNCHANGED <<name, lineVars>>
  \/ name # day /\ current \in {"closed", "invalid"} /\ UNCHANGED fileVars

\* setup: the goroutine runs already, and a rotation of its own may have set the
\* name, which is all that this call then looks at.
NewRotateWriter ==
  /\ made = "no"
  /\ lock = Nobody
  /\ openCurrent
  /\ made' = IF name = day \/ current' = "open" THEN "yes" ELSE "failed"
  /\ UNCHANGED <<compress, day, lock, timer, rot, told>>

OpenCurrent ==
  /\ made = "yes"
  /\ lock = Nobody
  /\ openCurrent
  /\ UNCHANGED <<made, compress, day, lock, timer, rot, told>>

-----------------------------------------------------------------------------
(* The goroutine.                                                           *)

TimerFires ==
  /\ rot = "select"
  /\ day >= timer
  /\ rot' = "due"
  /\ UNCHANGED <<made, compress, day, fileVars, lock, timer, told>>

\* getNextIntervalDuration counts from the day on which it is called, which
\* may be later than the one for which openCurrent has just opened the file.
SetTimer ==
  /\ rot = "reset"
  /\ timer' = day + IntervalDay
  /\ rot' = "select"
  /\ UNCHANGED <<made, compress, day, fileVars, lock, told>>

\* Fault: the goroutine goes back to its select without opening the file.
rotateForgets ==
  /\ rot = "due"
  /\ lock = Nobody
  /\ rot' = "reset"
  /\ UNCHANGED <<made, compress, day, fileVars, lock, timer, told>>

\* After its second of sleep it takes the lock.
rotate ==
  /\ rot = "due"
  /\ lock = Nobody
  /\ openCurrent
  /\ rot' = "reset"
  /\ UNCHANGED <<made, compress, day, lock, timer, told>>

-----------------------------------------------------------------------------
(* Write and Close.                                                         *)

\* A Write without a file, or with one that is closed or invalid, is an error.
Write(l) ==
  /\ made = "yes"
  /\ lock = Nobody
  /\ current = "open"
  /\ l \notin told
  /\ plain' = [plain EXCEPT ![name] = @ \cup {l}]
  /\ told' = told \cup {l}
  /\ UNCHANGED <<made, compress, day, name, current, gz, torn, broken, lock, timer,
                 rot>>

\* Close has closed the file and holds the lock while it sends on exited.  If
\* the goroutine has exited the channel is closed and the send panics; so does
\* a Close that finds no file.
Close(p) ==
  /\ made = "yes"
  /\ lock = Nobody
  /\ current = "open"
  /\ \/ current' = "closed" /\ broken' = TRUE /\ UNCHANGED lock
     \/ /\ current' = "nil"
        /\ lock' = IF rot = "exited" THEN Nobody ELSE p
        /\ UNCHANGED broken
  /\ UNCHANGED <<made, compress, day, name, lineVars, timer, rot, told>>

\* The goroutine receives from exited in its select, and only there.
CloseReturns(p) ==
  /\ lock = p
  /\ rot = "select"
  /\ rot' = "exited"
  /\ lock' = Nobody
  /\ UNCHANGED <<made, compress, day, fileVars, timer, told>>

-----------------------------------------------------------------------------
Next ==
  \/ NewDay \/ NewRotateWriter \/ OpenCurrent \/ SetTimer \/ TimerFires
  \/ rotate
  \/ \E l \in Line : Write(l)
  \/ \E p \in Goroutine : Close(p) \/ CloseReturns(p)

Spec == Init /\ [][Next]_vars

\* The goroutines run, and the timer fires.
Fairness == /\ WF_vars(SetTimer)
            /\ WF_vars(TimerFires)
            /\ WF_vars(rotate)

FairSpec == Spec /\ Fairness

-----------------------------------------------------------------------------
TypeOK ==
  /\ made \in {"no", "yes", "failed"}
  /\ compress \in BOOLEAN
  /\ day \in Day
  /\ name \in Day \cup {0}
  /\ current \in {"nil", "open", "closed", "invalid"}
  /\ lock \in Goroutine \cup {Nobody}
  /\ timer \in 0..(LastDay + IntervalDay)
  /\ rot \in {"reset", "select", "due", "exited"}
  /\ plain \in [Day -> SUBSET Line]
  /\ gz \in [Day -> SUBSET Line]
  /\ torn \in SUBSET Line
  /\ told \in SUBSET Line
  /\ broken \in BOOLEAN

\* A line whose Write returned no error is in a log file or in the compressed
\* copy of one, whichever copies, removals, closes and opens fail, with one
\* exception: a copy that fails when it is closed counts as made, and its log
\* file is removed (rotate.go:138,166,172).
LinesKept == told \subseteq torn \cup UNION {plain[d] \cup gz[d] : d \in Day}

\* A writer that has been made can be written to until it is closed, as long as
\* no file has failed to close or to open: then it is lost for good, see
\* openCurrent.
StaysOpen == made = "yes" /\ ~ broken /\ lock = Nobody /\ rot # "exited"
             => current = "open"

\* Logging goes on over every rotation: no line is lost and the next can be
\* written, until the writer is closed or a file fails.
KeepsLogging == LinesKept /\ StaysOpen

Over == made = "failed" \/ broken \/ lock # Nobody \/ rot = "exited"

\* On a day for which the timer is set the log goes over to a new file, unless
\* the writer breaks or closes.  Not every day has a timer, even when
\* IntervalDay is 1: one that begins between openCurrent and Reset goes into the
\* file of the day before (rotate.go:100,105).
RotatesInTime ==
  \A d \in Day : made = "yes" /\ timer = d /\ day >= d ~> name >= d \/ Over
=============================================================================
