-------------------------------- MODULE Query --------------------------------
(***************************************************************************)
(* One statement from its call to its answer (upg/base.go): exec and query  *)
(* with their retries, CopyFrom and CopyTo without any, the hooks           *)
(* (upg/hook.go), withConn with the goroutine that asks the server to       *)
(* cancel, and the backends of the server, which go on when the client has  *)
(* gone.  Below is one of three poolers: the pool of a DB, taken as         *)
(* ConnLending promises it, the sticky pool of a Conn                       *)
(* (pool/pool_sticky.go) and the single one that OnConnect gets             *)
(* (pool/pool_single.go).                                                   *)
(***************************************************************************)
EXTENDS Integers, FiniteSets

CONSTANTS Proc,          \* goroutines
          Nobody,        \* no statement
          Conn, NoConn,  \* connections, each with its backend
          Kinds,         \* poolers to look at, a subset of Pooler
          Says,          \* answers to look at, a subset of Answer
          Executing,     \* goroutines that call exec and query
          Copying,       \* goroutines that call CopyFrom and CopyTo
          Cancellable,   \* goroutines whose calls have a context that can end
          Panicking,     \* goroutines whose models, readers, writers or hooks
                         \* can panic, which somebody above recovers
          Hooks,         \* len(db.queryHooks)
          MaxRetries,    \* opt.MaxRetries
          RetryStatementTimeout  \* opt.RetryStatementTimeout

Pooler == {"pool", "sticky", "single"}

\* What the server says of a statement.  Serialization failures and the like
\* are worth a retry, "aborted" is 25P02, "cancelled" 57014; "fatal" stands for
\* every other error that makes isBadConn true, "refused" for the rest.
Answer == {"nil", "serial", "refused", "aborted", "fatal", "cancelled"}

ASSUME QueryAssumption ==
  /\ IsFiniteSet(Proc)
  /\ Nobody \notin Proc
  /\ NoConn \notin Conn
  /\ Kinds \subseteq Pooler /\ Says \subseteq Answer
  /\ Executing \subseteq Proc /\ Copying \subseteq Proc
  /\ Cancellable \subseteq Proc /\ Panicking \subseteq Proc
  /\ Hooks \in Nat /\ MaxRetries \in Nat
  /\ RetryStatementTimeout \in BOOLEAN

VARIABLES
  kind,     \* the pooler
  idle,     \* connections that wait in it
  stuck,    \* the error that every Get returns: badConnError, stickyErr
  run,      \* whose statement each backend executes
  reply,    \* its answer, which nobody has read
  unread,   \* whether something is still to be read from the connection that is
            \* not for its borrower, and how that came
  sig,      \* cancel requests on their way to it: none, only of its borrower, or
            \* one that is older than the loan
  pc, op,   \* where each goroutine is, and the method it runs
  cn,       \* its connection
  ctx,      \* its context: it cannot be cancelled, it is live, it is done
  watch,    \* the goroutine that withConn starts
  err,      \* err in withConn and copyFrom, lastErr in exec and query
  attempt,  \* the loop variable of exec and query
  hooked,   \* hooks 1..hooked have seen BeforeQuery and not yet AfterQuery
  done,     \* the server has executed the statement in this attempt (history)
  may,      \* how often it has executed it or may still do so, not counting
            \* attempts that came to an unknown end (history)
  misled    \* this attempt has taken another call's answer (history)

poolVars == <<idle, stuck, cn>>
srvVars == <<run, reply, unread, sig>>
callVars == <<op, ctx, attempt, done, may, misled>>
vars == <<kind, poolVars, srvVars, pc, callVars, watch, err, hooked>>

Place == {"idle", "before", "get", "wait", "write", "read", "settle", "sleep",
          "after", "return"}

\* A connection is clean; or a call has given it back with something unread; or
\* it is "stray", which it becomes in three ways: CopyTo comes back from an error
\* without waiting for ReadyForQuery, fn panics, or a Get of the sticky pool that
\* had looked for badConnError before takes what Remove has left.
Unread == {"no", "left", "stray"}

\* "net" is io.EOF or what has a method Timeout, as all errors of net have, and
\* any error of Get that is worth a retry; "pool" is another error of Get or a
\* BadConnError; "ctx" and "asleep" are ctx.Err(), from Get and from the pause
\* before a retry.  "panic" is no error: err is nil in the deferred calls.
Err == Answer \cup {"net", "pool", "ctx", "asleep", "hook", "panic"}

Panics(p) == IF p \in Panicking THEN {"panic"} ELSE {}

isBadConn(e) == e \in {"aborted", "fatal", "cancelled", "net", "hook"}

\* Fault: a statement that has succeeded is sent again.
shouldRetryNil(e) == e \in {"nil", "net", "serial"}

shouldRetry(e) == \/ e \in {"net", "serial"}
                  \/ e = "cancelled" /\ RetryStatementTimeout

Init ==
  /\ kind \in Kinds
  /\ idle \in IF kind = "pool" THEN {{}} ELSE {{c} : c \in Conn}
  /\ stuck = "nil"
  /\ run = [c \in Conn |-> Nobody]
  /\ reply = [c \in Conn |-> "none"]
  /\ unread = [c \in Conn |-> "no"]
  /\ sig = [c \in Conn |-> "none"]
  /\ pc = [p \in Proc |-> "idle"]
  /\ op = [p \in Proc |-> "exec"]
  /\ cn = [p \in Proc |-> NoConn]
  /\ ctx = [p \in Proc |-> "none"]
  /\ watch = [p \in Proc |-> "none"]
  /\ err = [p \in Proc |-> "nil"]
  /\ attempt = [p \in Proc |-> 0]
  /\ hooked = [p \in Proc |-> 0]
  /\ done = [p \in Proc |-> FALSE]
  /\ may = [p \in Proc |-> 0]
  /\ misled = [p \in Proc |-> FALSE]

Goto(p, place) == pc' = [pc EXCEPT ![p] = place]
Set(p, e) == err' = [err EXCEPT ![p] = e]

\* Where a goroutine goes on in exec and query, and where in a copy.
ByOp(p, inExec, inCopy) == Goto(p, IF op[p] = "exec" THEN inExec ELSE inCopy)

\* Fault: serialization failures do not count as attempts.
LoopOnSerial(p, e) ==
  IF op[p] = "exec" /\ shouldRetry(e) /\ (attempt[p] < MaxRetries \/ e = "serial")
  THEN /\ attempt' = [attempt EXCEPT ![p] = IF e = "serial" THEN @ ELSE @ + 1]
       /\ Goto(p, "sleep")
  ELSE /\ UNCHANGED attempt
       /\ ByOp(p, "after", "return")

\* withConn has returned e: exec and query try again or come to their end, and
\* a panic leaves the call as it is.
Loop(p, e) ==
  IF op[p] = "exec" /\ shouldRetry(e) /\ attempt[p] < MaxRetries
  THEN /\ attempt' = [attempt EXCEPT ![p] = @ + 1]
       /\ Goto(p, "sleep")
  ELSE /\ UNCHANGED attempt
       /\ ByOp(p, IF e = "panic" THEN "return" ELSE "after", "return")

-----------------------------------------------------------------------------
(* The poolers.                                                             *)

\* What the connection of p carries when p gives it back.
WhyUnread(p) ==
  LET c == cn[p]
      unanswered == run[c] # Nobody \/ reply[c] # "none"
  IN  IF ~unanswered /\ unread[c] = "no" THEN "no"
      ELSE IF err[p] = "panic" THEN "stray"
      ELSE IF unread[c] # "no" THEN unread[c]
      ELSE "left"

\* The statement of p goes on without p, and its answer is for whoever reads
\* next.
LeavesBehind(p, why) ==
  /\ run' = [run EXCEPT ![cn[p]] = Nobody]
  /\ reply' = [reply EXCEPT ![cn[p]] = "none"]
  /\ unread' = [unread EXCEPT ![cn[p]] = why]

Put(p) ==
  /\ idle' = idle \cup {cn[p]}
  /\ cn' = [cn EXCEPT ![p] = NoConn]
  /\ LeavesBehind(p, WhyUnread(p))
  /\ sig' = [sig EXCEPT ![cn[p]] = IF @ = "none" THEN "none" ELSE "old"]
  /\ UNCHANGED stuck

NoReason(p) == err[p] \in {"nil", "panic"}

\* A pool closes the connection and a single pool forgets it; the sticky pool
\* passes it on, with what is still to come.  The last two remember the reason,
\* as a BadConnError or as it is; without one the sticky pool forgets an earlier
\* one and the single pool takes that of the context.  The cancel requests
\* matter only while the connection is open.
Remove(p, sent) ==
  /\ idle' = IF kind = "sticky" THEN idle \cup {cn[p]} ELSE idle
  /\ stuck' = CASE kind = "pool"   -> stuck
                [] kind = "sticky" -> IF NoReason(p) THEN "nil" ELSE "pool"
                [] kind = "single" -> IF NoReason(p) THEN "ctx" ELSE err[p]
  /\ cn' = [cn EXCEPT ![p] = NoConn]
  /\ LeavesBehind(p, IF kind = "sticky" THEN WhyUnread(p) ELSE "no")
  /\ sig' = [sig EXCEPT ![cn[p]] =
               IF kind = "sticky" /\ (sent \/ @ # "none") THEN "old" ELSE "none"]

\* What Get can fail with: the pool with the end of the context, its own
\* errors, and those of a dial or of initConn, after which getConn removes the
\* connection again; a BadConnError; stickyErr as it is.
GetErrors(p) ==
  CASE kind = "pool"   -> {"pool", "net"}
                          \cup (IF ctx[p] = "done" THEN {"ctx"} ELSE {})
    [] kind = "sticky" -> IF stuck = "nil" THEN {} ELSE {"pool"}
    [] kind = "single" -> {stuck} \ {"nil"}

\* What it returns at once.  The pool looks at the context first.
GetConns(p) ==
  CASE kind = "pool"   -> IF ctx[p] = "done" THEN {}
                          ELSE Conn \ {cn[q] : q \in Proc}
    [] kind = "sticky" -> {}
    [] kind = "single" -> IF stuck = "nil" THEN idle ELSE {}

-----------------------------------------------------------------------------
(* The call.                                                                *)

\* OnConnect has its single pool for itself.
Call(p, o) ==
  /\ pc[p] = "idle"
  /\ kind = "single" => \A q \in Proc : pc[q] = "idle"
  /\ op' = [op EXCEPT ![p] = o]
  /\ p \in IF o = "exec" THEN Executing ELSE Copying
  /\ ctx' = [ctx EXCEPT ![p] = IF p \in Cancellable THEN "live" ELSE "none"]
  /\ Goto(p, IF o = "exec" THEN "before" ELSE "get")
  /\ UNCHANGED <<kind, poolVars, srvVars, watch, err, hooked, attempt, done, may,
                 misled>>

\* The query is formatted and BeforeQuery runs hook by hook.  When hook i
\* fails AfterQuery runs from i down, until one of them fails; when it panics
\* none does.
beforeQuery(p) ==
  /\ pc[p] = "before"
  /\ \/ /\ hooked' = [hooked EXCEPT ![p] = Hooks]
        /\ ByOp(p, "get", "write")
        /\ UNCHANGED err
     \/ /\ Set(p, "fatal")
        /\ ByOp(p, "return", "settle")
        /\ UNCHANGED hooked
     \/ /\ \E i \in 1..Hooks : \E open \in 0..(i - 1) :
             hooked' = [hooked EXCEPT ![p] = open]
        /\ \E e \in {"hook"} \cup Panics(p) : Set(p, e)
        /\ ByOp(p, "return", "settle")
  /\ UNCHANGED <<kind, poolVars, srvVars, callVars, watch>>

\* getConn has its connection; withConn starts the goroutine that waits for the
\* end of the context.
Gets(p, c) ==
  /\ cn' = [cn EXCEPT ![p] = c]
  /\ idle' = idle \ {c}
  /\ watch' = [watch EXCEPT ![p] = IF ctx[p] = "none" THEN "none" ELSE "select"]
  /\ ByOp(p, "write", "before")
  /\ UNCHANGED <<kind, stuck, run, reply, sig, callVars, err, hooked>>

\* Get of the sticky pool looks for badConnError first and then waits on the
\* channel.
getConn(p) ==
  /\ pc[p] = "get"
  /\ \/ \E c \in GetConns(p) : Gets(p, c) /\ UNCHANGED unread
     \/ /\ kind = "sticky" /\ stuck = "nil"
        /\ Goto(p, "wait")
        /\ UNCHANGED <<kind, poolVars, srvVars, callVars, watch, err, hooked>>
     \/ /\ \E e \in GetErrors(p) : Set(p, e) /\ Loop(p, e)
        /\ UNCHANGED <<kind, poolVars, srvVars, op, ctx, done, may, misled, watch,
                       hooked>>

\* It takes what comes, also when Remove has sent it in the meantime.
stickyReceive(p) ==
  /\ pc[p] = "wait"
  /\ \E c \in idle :
       /\ Gets(p, c)
       /\ unread' = [unread EXCEPT ![c] = IF @ = "left" THEN "stray" ELSE @]

\* fn ends with e, which is the answer to its own statement or another's; a copy
\* runs AfterQuery before it does.
FnEnds(p, e, own) ==
  /\ Set(p, e)
  /\ misled' = [misled EXCEPT ![p] = ~own]
  /\ ByOp(p, "settle", "after")

\* The statement is written.  Of a write that fails it is not known how much
\* has arrived; the source of a CopyFrom may fail in the middle.
Write(p) ==
  /\ pc[p] = "write"
  /\ \E arrived \in {"none", "part", "all"} :
       /\ run' = IF arrived = "all" THEN [run EXCEPT ![cn[p]] = p] ELSE run
       /\ may' = IF arrived = "all" THEN [may EXCEPT ![p] = @ + 1] ELSE may
       /\ unread' = [unread EXCEPT ![cn[p]] =
                       IF arrived = "part" /\ @ = "no" THEN "left" ELSE @]
       /\ \/ arrived = "all" /\ Goto(p, "read") /\ UNCHANGED <<err, misled>>
          \/ FnEnds(p, "net", TRUE)
          \/ /\ arrived = "all" /\ op[p] = "copy"
             /\ \E e \in {"fatal"} \cup Panics(p) : FnEnds(p, e, TRUE)
  /\ UNCHANGED <<kind, poolVars, reply, sig, op, ctx, attempt, done, watch, hooked>>

\* Fault: the connection goes back as soon as the answer has been read, and once
\* more at the end.
ReadPuts(p) ==
  /\ pc[p] = "read"
  /\ reply[cn[p]] # "none"
  /\ FnEnds(p, reply[cn[p]], TRUE)
  /\ reply' = [reply EXCEPT ![cn[p]] = "none"]
  /\ idle' = idle \cup {cn[p]}
  /\ UNCHANGED <<kind, stuck, cn, run, unread, sig, op, ctx, attempt, done, may,
                 watch, hooked>>

\* What fn makes of an answer that is read to its end: the model may refuse its
\* rows, or panic.
Outcomes(p) ==
  LET a == reply[cn[p]]
  IN  {a} \cup Panics(p) \cup (IF a = "nil" THEN Says \cap {"refused", "fatal"} ELSE {})

\* CopyTo does not wait for the end of an answer that says an error.
readCopyData(p) ==
  /\ unread[cn[p]] = "no" /\ reply[cn[p]] \notin {"none", "nil"}
  /\ op[p] = "copy"
  /\ FnEnds(p, reply[cn[p]], TRUE)
  /\ LeavesBehind(p, "stray")

\* An answer is read.  On a connection with something unread that comes first,
\* whatever it is, and the own answer is left behind in turn, or lost with what
\* the reader has already buffered.
Read(p) ==
  /\ pc[p] = "read"
  /\ \/ /\ unread[cn[p]] = "no" /\ reply[cn[p]] # "none"
        /\ \E e \in Outcomes(p) : FnEnds(p, e, TRUE)
        /\ LeavesBehind(p, "no")
     \/ readCopyData(p)
     \/ /\ unread[cn[p]] # "no"
        /\ \E a \in Says : FnEnds(p, a, FALSE)
        /\ \/ LeavesBehind(p, unread[cn[p]])
           \/ reply[cn[p]] # "none" /\ LeavesBehind(p, "no")
  /\ UNCHANGED <<kind, poolVars, sig, op, ctx, attempt, done, may, watch, hooked>>

\* The connection fails first, or a deadline does; the writer of a CopyTo fails,
\* or user code panics before all rows are read.
ReadFails(p) ==
  /\ pc[p] = "read"
  /\ \E e \in {"net"} \cup Panics(p) \cup (IF op[p] = "copy" THEN {"fatal"} ELSE {}) :
       FnEnds(p, e, TRUE)
  /\ UNCHANGED <<kind, poolVars, srvVars, op, ctx, attempt, done, may, watch, hooked>>

\* AfterQuery runs from the last hook down, until one fails, in a copy that
\* panics too.
afterQuery(p) ==
  /\ pc[p] = "after"
  /\ \/ hooked' = [hooked EXCEPT ![p] = 0] /\ UNCHANGED err
     \/ /\ \E open \in 0..(hooked[p] - 1) :
             hooked' = [hooked EXCEPT ![p] = open]
        /\ \E e \in Panics(p) \cup {IF err[p] = "panic" THEN "panic" ELSE "hook"} :
             Set(p, e)
  /\ ByOp(p, "return", "settle")
  /\ UNCHANGED <<kind, poolVars, srvVars, callVars, watch>>

-----------------------------------------------------------------------------
(* The end of withConn.                                                     *)

\* cancelRequest opens a connection of its own, which can fail: whether the
\* request is sent.
cancelRequest == BOOLEAN

\* Fault: a connection on which the answer was not read is lent again.
releaseConnPuts(p) ==
  \/ isBadConn(err[p]) /\ err[p] # "net" /\ Remove(p, FALSE)
  \/ ~ (isBadConn(err[p]) /\ err[p] # "net") /\ Put(p)

releaseConn(p) ==
  \/ /\ isBadConn(err[p])
     /\ \E sent \in IF err[p] = "aborted" THEN {FALSE} ELSE cancelRequest :
          Remove(p, sent)
  \/ ~ isBadConn(err[p]) /\ Put(p)

\* fnDone is unbuffered: the deferred function tells the goroutine that fn has
\* finished, if that one still waits for it, and gives the connection back.
FnDone(p) ==
  /\ pc[p] = "settle"
  /\ watch[p] \in {"none", "select"}
  /\ watch' = [watch EXCEPT ![p] = "none"]
  /\ releaseConn(p)
  /\ Loop(p, err[p])
  /\ UNCHANGED <<kind, op, ctx, done, may, misled, err, hooked>>

\* Fault: a cancelled connection is given back by the error of fn alone.
CancelDonePuts(p) ==
  /\ pc[p] = "settle"
  /\ watch[p] = "signal"
  /\ watch' = [watch EXCEPT ![p] = "none"]
  /\ IF isBadConn(err[p]) THEN Remove(p, FALSE) ELSE Put(p)
  /\ Loop(p, err[p])
  /\ UNCHANGED <<kind, op, ctx, done, may, misled, err, hooked>>

\* Or it hears that the cancel request has been sent.
CancelDone(p) ==
  /\ pc[p] = "settle"
  /\ watch[p] = "signal"
  /\ watch' = [watch EXCEPT ![p] = "none"]
  /\ Remove(p, FALSE)
  /\ Loop(p, err[p])
  /\ UNCHANGED <<kind, op, ctx, done, may, misled, err, hooked>>

\* The goroutine of withConn: the context ends before fn does.
WatchCancels(p) ==
  /\ watch[p] = "select"
  /\ ctx[p] = "done"
  /\ watch' = [watch EXCEPT ![p] = "cancel"]
  /\ UNCHANGED <<kind, poolVars, srvVars, pc, callVars, err, hooked>>

WatchSignals(p) ==
  /\ watch[p] = "cancel"
  /\ \E sent \in cancelRequest :
       sig' = [sig EXCEPT ![cn[p]] = IF sent /\ @ = "none" THEN "own" ELSE @]
  /\ watch' = [watch EXCEPT ![p] = "signal"]
  /\ UNCHANGED <<kind, poolVars, run, reply, unread, pc, callVars, err, hooked>>

-----------------------------------------------------------------------------
(* The pause before a retry, and the end of the call.                       *)

\* The attempt has come to an unknown end: the connection has failed, or the
\* answer was another's.
Unknown(p) == err[p] = "net" \/ misled[p]

\* The pause ends, or the context does: then the call returns at once.
Sleep(p) ==
  /\ pc[p] = "sleep"
  /\ \/ /\ Goto(p, "get")
        /\ Set(p, "nil")
        /\ may' = [may EXCEPT ![p] = IF Unknown(p) THEN 0 ELSE @]
     \/ /\ ctx[p] = "done"
        /\ Set(p, "asleep")
        /\ Goto(p, "return")
        /\ UNCHANGED may
  /\ done' = [done EXCEPT ![p] = FALSE]
  /\ misled' = [misled EXCEPT ![p] = FALSE]
  /\ UNCHANGED <<kind, poolVars, srvVars, op, ctx, attempt, watch, hooked>>

Return(p) ==
  /\ pc[p] = "return"
  /\ Goto(p, "idle")
  /\ Set(p, "nil")
  /\ op' = [op EXCEPT ![p] = "exec"]
  /\ ctx' = [ctx EXCEPT ![p] = "none"]
  /\ attempt' = [attempt EXCEPT ![p] = 0]
  /\ hooked' = [hooked EXCEPT ![p] = 0]
  /\ done' = [done EXCEPT ![p] = FALSE]
  /\ may' = [may EXCEPT ![p] = 0]
  /\ misled' = [misled EXCEPT ![p] = FALSE]
  /\ UNCHANGED <<kind, poolVars, run, reply, unread, sig, watch>>

CtxEnds(p) ==
  /\ ctx[p] = "live"
  /\ ctx' = [ctx EXCEPT ![p] = "done"]
  /\ UNCHANGED <<kind, poolVars, srvVars, pc, op, attempt, done, may, misled,
                 watch, err, hooked>>

-----------------------------------------------------------------------------
(* The server.                                                              *)

\* A statement takes effect when it succeeds, and only then.
Serve(c) ==
  /\ run[c] # Nobody
  /\ \E a \in Says \ {"cancelled"} :
       /\ reply' = [reply EXCEPT ![c] = a]
       /\ \/ /\ a = "nil"
             /\ done' = [done EXCEPT ![run[c]] = TRUE]
             /\ UNCHANGED may
          \/ /\ a # "nil"
             /\ may' = [may EXCEPT ![run[c]] = @ - 1]
             /\ UNCHANGED done
  /\ run' = [run EXCEPT ![c] = Nobody]
  /\ UNCHANGED <<kind, poolVars, unread, sig, pc, op, ctx, attempt, misled, watch,
                 err, hooked>>

\* Cancel requests arrive: they end what runs now, whoever has sent it, or
\* nothing.  What runs can be an earlier statement, whose answer nobody waits
\* for.
Interrupt(c) ==
  /\ sig[c] # "none"
  /\ sig' = [sig EXCEPT ![c] = "none"]
  /\ \/ /\ run[c] # Nobody
        /\ reply' = [reply EXCEPT ![c] = "cancelled"]
        /\ run' = [run EXCEPT ![c] = Nobody]
        /\ may' = [may EXCEPT ![run[c]] = @ - 1]
     \/ /\ run[c] = Nobody \/ unread[c] # "no"
        /\ UNCHANGED <<run, reply, may>>
  /\ UNCHANGED <<kind, poolVars, unread, pc, op, ctx, attempt, done, misled, watch,
                 err, hooked>>

-----------------------------------------------------------------------------
Runs(p) == \/ beforeQuery(p) \/ getConn(p) \/ stickyReceive(p)
           \/ Write(p) \/ Read(p) \/ afterQuery(p)
           \/ FnDone(p) \/ CancelDone(p) \/ Sleep(p) \/ Return(p)

Next ==
  \/ \E p \in Proc : \/ Call(p, "exec") \/ Call(p, "copy") \/ Runs(p)
                     \/ ReadFails(p) \/ CtxEnds(p)
                     \/ WatchCancels(p) \/ WatchSignals(p)
  \/ \E c \in Conn : Serve(c) \/ Interrupt(c)

Spec == Init /\ [][Next]_vars

\* Goroutines run, the channel of the sticky pool serves its receivers in
\* order, a cancel request is sent or fails, and a backend answers in the end;
\* where something is unread, what comes next makes an answer or an error.
Fairness ==
  /\ \A p \in Proc : /\ WF_vars(Runs(p))
                     /\ SF_vars(stickyReceive(p))
                     /\ WF_vars(WatchSignals(p))
  /\ \A c \in Conn : WF_vars(Serve(c))

FairSpec == Spec /\ Fairness

-----------------------------------------------------------------------------
TypeOK ==
  /\ kind \in Kinds
  /\ idle \in SUBSET Conn
  /\ stuck \in Err \ {"panic"}
  /\ run \in [Conn -> Proc \cup {Nobody}]
  /\ reply \in [Conn -> Answer \cup {"none"}]
  /\ unread \in [Conn -> Unread]
  /\ sig \in [Conn -> {"none", "own", "old"}]
  /\ pc \in [Proc -> Place]
  /\ op \in [Proc -> {"exec", "copy"}]
  /\ cn \in [Proc -> Conn \cup {NoConn}]
  /\ ctx \in [Proc -> {"none", "live", "done"}]
  /\ watch \in [Proc -> {"none", "select", "cancel", "signal"}]
  /\ err \in [Proc -> Err]
  /\ attempt \in [Proc -> 0..MaxRetries]
  /\ hooked \in [Proc -> 0..Hooks]
  /\ done \in [Proc -> BOOLEAN]
  /\ may \in [Proc -> Nat]
  /\ misled \in [Proc -> BOOLEAN]

\* A connection that can be lent is at rest: no backend works for a caller who
\* has gone and no answer waits that the next caller would take for its own.
\* The code breaks this in the three ways that Unread names, an error in the
\* middle of a CopyTo, a panic in fn, and a Get that has passed the check for
\* badConnError.  Nothing else does.
AtRest == \A c \in idle :
  /\ run[c] = Nobody /\ reply[c] = "none"
  /\ unread[c] = "left" => stuck # "nil"

\* A cancel request ends the statement of the caller who has sent it or
\* nothing.  A sticky pool does not give this: its Remove gets a nil error when
\* the query has succeeded and keeps the connection, although base.go says that
\* "the canceled connection must be always removed".
CancelsItsOwn == kind # "sticky" =>
  \A c \in Conn : run[c] # Nobody => sig[c] # "old"

\* exec and query send a statement again only when it has had no effect or its
\* attempt has come to an unknown end: from one such end to the next it is
\* executed at most once.
SentAgain == \A p \in Proc : may[p] <= 1

\* A call without an error has had its statement executed in the last attempt,
\* unless it took the answer of another from a connection that was not at rest.
NilMeansDone == \A p \in Proc :
  pc[p] = "return" /\ err[p] = "nil" /\ ~misled[p] => done[p]

\* That happens only on a connection that CopyTo, a panic or a late Get of the
\* sticky pool has left with something unread.
MisledByFew == \A p \in Proc :
  pc[p] = "read" => unread[cn[p]] \in {"no", "stray"}

\* What the result of exec, query and the copies says of the server: done at
\* least once without an error, and more than once only after a failure, except
\* on the connections of MisledByFew.
Executions == SentAgain /\ NilMeansDone /\ MisledByFew

\* A hook that has seen BeforeQuery sees AfterQuery, unless another hook fails,
\* the call panics, or the context ends in the pause before a retry, where the
\* call returns without calling any.
HooksPaired == \A p \in Proc :
  pc[p] = "return" /\ hooked[p] > 0 => err[p] \in {"hook", "asleep", "panic"}

\* The goroutine of withConn ends with it: none is left behind that would send
\* a cancel request for a connection somebody else has by then.
NoWatchLeft == \A p \in Proc : watch[p] # "none" => cn[p] # NoConn

\* A call leaves nothing behind but what AtRest and HooksPaired name: no answer
\* unread on a connection that others get, no goroutine that could still cancel,
\* no hook without its second half.
LeavesNothing == TypeOK /\ AtRest /\ NoWatchLeft /\ HooksPaired

Lending == INSTANCE ConnLending
             WITH Client <- Proc, Limit <- Cardinality(Proc),
                  lent <- cn, loans <- Cardinality({p \in Proc : cn[p] # NoConn}),
                  stock <- idle

\* Over the pool of a DB withConn borrows as ConnLending allows: one connection
\* at a time, which it gives back or removes once.
BorrowsCorrectly ==
  [][kind = "pool" => Lending!Next \/ UNCHANGED Lending!vars]_vars

\* Every call returns, whether the context ends or not, and whatever the
\* server says.
CallReturns == \A p \in Proc : pc[p] # "idle" ~> pc[p] = "idle"
=============================================================================
