--------------------------------- MODULE Tx ---------------------------------
(***************************************************************************)
(* A transaction (upg/tx.go) and its prepared statements (upg/stmt.go) used *)
(* by several goroutines, with the query hooks (upg/hook.go), the failures  *)
(* of the connection and the transaction of the server.  The sticky pool    *)
(* under it is taken as StickyConnPool shows it to be: it has one           *)
(* connection, which one goroutine uses at a time, and each of its          *)
(* operations, the receive in Get apart, is one step here.                  *)
(***************************************************************************)
EXTENDS Integers, FiniteSets

CONSTANTS Proc,        \* goroutines
          Nobody,      \* no goroutine
          Preparing,   \* goroutines that call Prepare
          Dropping,    \* goroutines that call Close of a statement
          MaxRetries,  \* opt.MaxRetries
          MaxStmts     \* bound on the statements of a transaction, those in the
                       \* making included

ASSUME TxAssumption ==
  /\ IsFiniteSet(Proc)
  /\ Nobody \notin Proc
  /\ Preparing \subseteq Proc /\ Dropping \subseteq Proc
  /\ MaxRetries \in Nat
  /\ MaxStmts \in Nat

VARIABLES
  begun,    \* "no", "yes", or "failed": the result of BeginContext
  tries,    \* the loop variable of begin
  pool,     \* the sticky pool: "empty", "has" a connection, "closed"
  holder,   \* who has taken the connection out of it
  conn,     \* "good", or "bad": badConnError() # nil
  wire,     \* what the next call can do with it: it is "clean", or old answers
            \* are to be read from it first ("stale"), or nothing ("down")
  shared,   \* the reference count of the sticky pool
  closed,   \* tx._closed
  stmtsMu,  \* who holds tx.stmtsMu
  stmts,    \* len(tx.stmts)
  open,     \* statements that the program has not closed
  pc, op,   \* where each goroutine is, and the method it runs
  query,    \* the query it sends
  attempt,  \* the loop variable of its retries
  late,     \* its method was called after a Commit or Rollback had returned
  todo,     \* statements that its tx.close has still to close
  srv,      \* the transaction of the server
  tx        \* what has happened (history), see Happened

poolVars == <<pool, holder, conn, wire>>
stmtVars == <<stmtsMu, stmts, open>>
callVars == <<op, query, attempt, late>>

vars == <<begun, tries, poolVars, shared, closed, stmtVars, pc, callVars, todo,
          srv, tx>>

\* late: a query has taken effect that was called after the one call that ends the
\* transaction had returned; hook: a query hook has failed on BEGIN, or in place of
\* COMMIT or ROLLBACK; twice: the program has closed a statement again; moved: a
\* Prepare that was retried has changed the connection; unmarked: a bad connection
\* has been taken for a good one again; spoilt: a query has failed, or two calls
\* try to end the transaction; told: before that a Commit has had no error; ends:
\* there was no call of Commit, Rollback or Close, or one, which is over or not, or
\* more.
Happened == [late : BOOLEAN, hook : BOOLEAN, twice : BOOLEAN, moved : BOOLEAN,
             unmarked : BOOLEAN, spoilt : BOOLEAN, told : BOOLEAN,
             ends : {"none", "one", "over", "more"}]

Nothing == [late |-> FALSE, hook |-> FALSE, twice |-> FALSE, moved |-> FALSE,
            unmarked |-> FALSE, spoilt |-> FALSE, told |-> FALSE, ends |-> "none"]

Init ==
  /\ begun = "no"
  /\ tries = 0
  /\ pool = "empty"
  /\ holder = Nobody
  /\ conn = "good"
  /\ wire = "clean"
  /\ shared = 1
  /\ closed = FALSE
  /\ stmtsMu = Nobody
  /\ stmts = 0
  /\ open = 0
  /\ pc = [p \in Proc |-> "idle"]
  /\ op = [p \in Proc |-> "exec"]
  /\ query = [p \in Proc |-> "query"]
  /\ attempt = [p \in Proc |-> 0]
  /\ late = [p \in Proc |-> FALSE]
  /\ todo = [p \in Proc |-> 0]
  /\ srv = "none"
  /\ tx = Nothing

\* A goroutine goes on at a place; one that returns forgets its call.
Goto(p, place) ==
  /\ pc' = [pc EXCEPT ![p] = place]
  /\ IF place = "idle"
     THEN /\ op' = [op EXCEPT ![p] = "exec"]
          /\ query' = [query EXCEPT ![p] = "query"]
          /\ attempt' = [attempt EXCEPT ![p] = 0]
          /\ late' = [late EXCEPT ![p] = FALSE]
     ELSE UNCHANGED callVars
InTx == srv \in {"open", "failed"}
bad == conn # "good"

-----------------------------------------------------------------------------
(* BeginContext, before anybody has the transaction.                        *)

\* Fault: the error of the last attempt is lost.
BeginSucceedsAnyway ==
  /\ begun = "no"
  /\ begun' = "yes"
  /\ tries' = 0
  /\ pool' = "has"
  /\ srv' \in {srv, "open"}
  /\ UNCHANGED <<holder, conn, wire, shared, closed, stmtVars, pc, callVars,
                 todo, tx>>

\* BEGIN succeeds in some attempt.
BeginSucceeds ==
  /\ begun = "no"
  /\ begun' = "yes"
  /\ tries' = 0
  /\ pool' = "has"
  /\ srv' = "open"
  /\ UNCHANGED <<holder, conn, wire, shared, closed, stmtVars, pc, callVars,
                 todo, tx>>

\* BEGIN fails with an error that is worth a retry; Reset leaves the pool with
\* a connection only if that one is good.
BeginRetries ==
  /\ begun = "no"
  /\ tries < MaxRetries
  /\ tries' = tries + 1
  /\ pool' \in {"empty", "has"}
  /\ UNCHANGED <<begun, holder, conn, wire, shared, closed, stmtVars, pc,
                 callVars, todo, srv, tx>>

\* begin gives up and BeginContext closes what it has made.  That a hook fails
\* may come after BEGIN was executed.
BeginFails ==
  /\ begun = "no"
  /\ begun' = "failed"
  /\ closed' = TRUE
  /\ pool' = "closed"
  /\ shared' = 0
  /\ \E hook \in BOOLEAN :
       /\ tx' = [tx EXCEPT !.hook = hook]
       /\ srv' \in IF hook THEN {srv, "open"} ELSE {srv}
  /\ UNCHANGED <<tries, holder, conn, wire, stmtVars, pc, callVars, todo>>

\* The program begins another transaction, once this one is over.
BeginAgain ==
  /\ begun = "failed" \/ closed
  /\ pool = "closed"
  /\ holder = Nobody
  /\ \A p \in Proc : pc[p] = "idle"
  /\ begun' = "no"
  /\ tries' = 0
  /\ pool' = "empty"
  /\ conn' = "good"
  /\ wire' = "clean"
  /\ shared' = 1
  /\ closed' = FALSE
  /\ stmts' = 0
  /\ open' = 0
  /\ srv' = "none"
  /\ tx' = Nothing
  /\ UNCHANGED <<holder, stmtsMu, pc, callVars, todo>>

Begin == BeginSucceeds \/ BeginRetries \/ BeginFails \/ BeginAgain

-----------------------------------------------------------------------------
(* The methods.                                                             *)

Call(p, o, place, q) ==
  /\ begun = "yes"
  /\ pc[p] = "idle"
  /\ op' = [op EXCEPT ![p] = o]
  /\ query' = [query EXCEPT ![p] = q]
  /\ late' = [late EXCEPT ![p] = tx.ends = "over"]
  /\ UNCHANGED attempt
  /\ pc' = [pc EXCEPT ![p] = place]

\* Exec or Query.
Exec(p) ==
  /\ Call(p, "exec", "hook", "query")
  /\ UNCHANGED <<begun, tries, poolVars, shared, closed, stmtVars, todo, srv,
                 tx>>

\* Exec or Query of a statement.
StmtExec(p) ==
  /\ open > 0
  /\ Call(p, "stmtExec", "hook", "query")
  /\ UNCHANGED <<begun, tries, poolVars, shared, closed, stmtVars, todo, srv,
                 tx>>

\* One more call that ends the transaction.
Ends == tx' = [tx EXCEPT !.ends = IF @ = "none" THEN "one" ELSE "more",
                         !.spoilt = @ \/ tx.ends # "none"]

\* The only one returns.
EndReturns == IF tx.ends = "one" THEN "over" ELSE tx.ends

Commit(p) ==
  /\ Call(p, "end", "hook", "commit")
  /\ Ends
  /\ UNCHANGED <<begun, tries, poolVars, shared, closed, stmtVars, todo, srv>>

Rollback(p) ==
  /\ Call(p, "end", "hook", "rollback")
  /\ Ends
  /\ UNCHANGED <<begun, tries, poolVars, shared, closed, stmtVars, todo, srv>>

\* Tx.Close rolls back, as Rollback does, what is not closed; else it returns.
CloseNothing(p) ==
  /\ begun = "yes"
  /\ pc[p] = "idle"
  /\ closed
  /\ tx' = [tx EXCEPT !.ends = IF @ = "over" THEN "over" ELSE "more",
                      !.spoilt = @ \/ tx.ends # "over"]
  /\ UNCHANGED <<begun, tries, poolVars, shared, closed, stmtVars, pc, callVars,
                 todo, srv>>

Prepare(p) ==
  /\ p \in Preparing
  /\ stmts + Cardinality({q \in Proc : op[q] = "prepare"}) < MaxStmts
  /\ Call(p, "prepare", "lock", "prepare")
  /\ UNCHANGED <<begun, tries, poolVars, shared, closed, stmtVars, todo, srv, tx>>

\* It waits for stmtsMu and takes a reference of the sticky pool.
lockStmts(p) ==
  /\ pc[p] = "lock"
  /\ stmtsMu = Nobody
  /\ stmtsMu' = p
  /\ shared' = shared + 1
  /\ Goto(p, "get")
  /\ UNCHANGED <<begun, tries, poolVars, closed, stmts, open, todo, srv, tx>>

\* The program closes a statement, perhaps, once, one it has
\* closed before.
StmtClose(p) ==
  /\ p \in Dropping
  /\ Call(p, "stmtClose", "get", "close")
  /\ \/ open > 0 /\ open' = open - 1 /\ UNCHANGED tx
     \/ open < stmts /\ ~tx.twice /\ tx' = [tx EXCEPT !.twice = TRUE] /\ UNCHANGED open
  /\ UNCHANGED <<begun, tries, poolVars, shared, closed, stmtsMu, stmts, todo,
                 srv>>

-----------------------------------------------------------------------------
(* One query: the hooks, withConn, and the answer of the server.            *)

\* The query is over.
After(p, ok) ==
  CASE op[p] \in {"exec", "stmtExec"} -> "idle"
    [] op[p] = "prepare" /\ ok      -> "prepared"
    [] op[p] = "prepare" /\ ~ok     -> "notPrepared"
    [] query[p] = "close"           -> "drop"
    [] OTHER                        -> "txClose"

\* Fault: attempts are not counted.
FailsUncounted(p) ==
  \/ Goto(p, After(p, FALSE))
  \/ /\ op[p] \in {"prepare", "stmtExec"}
     /\ attempt[p] < MaxRetries
     /\ pc' = [pc EXCEPT ![p] = IF op[p] = "prepare" THEN "again" ELSE "get"]
     /\ UNCHANGED callVars

\* It has failed, and shouldRetry may ask for another attempt: a statement gets
\* the connection again, Prepare resets the pool before that.
Fails(p) ==
  \/ Goto(p, After(p, FALSE))
  \/ /\ op[p] \in {"prepare", "stmtExec"}
     /\ attempt[p] < MaxRetries
     /\ attempt' = [attempt EXCEPT ![p] = @ + 1]
     /\ pc' = [pc EXCEPT ![p] = IF op[p] = "prepare" THEN "again" ELSE "get"]
     /\ UNCHANGED <<op, query, late>>

BeforeQuery(p) ==
  /\ pc[p] = "hook"
  /\ \/ Goto(p, "get") /\ UNCHANGED tx
     \/ Goto(p, After(p, FALSE)) /\ tx' = [tx EXCEPT !.hook = @ \/ op[p] = "end"]
  /\ UNCHANGED <<begun, tries, poolVars, shared, closed, stmtVars, todo,
                 srv>>

\* Get looks at the state of the pool and at its error.  An empty pool borrows a
\* connection, which is in no transaction, or fails.
Get(p) ==
  /\ pc[p] = "get"
  /\ \/ /\ pool = "has" /\ ~bad
        /\ Goto(p, "recv")
        /\ UNCHANGED <<pool, holder>>
     \/ /\ pool = "empty"
        /\ pool' = "has"
        /\ holder' = p
        /\ Goto(p, "using")
     \/ /\ pool # "has" \/ bad
        /\ Goto(p, After(p, FALSE))
        /\ UNCHANGED <<pool, holder>>
  /\ UNCHANGED <<begun, tries, conn, wire, shared, closed, stmtVars, todo,
                 srv, tx>>

\* It waits for the channel and takes what comes, also a connection that has
\* become bad meanwhile.
Receive(p) ==
  /\ pc[p] = "recv"
  /\ \/ /\ pool = "has" /\ holder = Nobody
        /\ holder' = p
        /\ Goto(p, "using")
     \/ /\ pool = "closed"
        /\ Goto(p, After(p, FALSE))
        /\ UNCHANGED holder
  /\ UNCHANGED <<begun, tries, pool, conn, wire, shared, closed, stmtVars, todo,
                 srv, tx>>

\* The connection is closed or breaks: the server rolls back what is open.
Dies(state) == IF state \in {"open", "failed"} THEN "rolledback" ELSE state

\* Put: into the sticky pool or, when that is closed, to the pool below, which
\* closes a bad connection.
Put(p, state, left) ==
  /\ holder' = Nobody
  /\ IF pool = "closed" /\ bad
     THEN srv' = Dies(state) /\ wire' = "down"
     ELSE srv' = state /\ wire' = left
  /\ UNCHANGED <<pool, conn>>

\* Remove: the connection is marked, and closed at once if the pool is.
Remove(p, mark, state, left) ==
  /\ holder' = Nobody
  /\ conn' = mark
  /\ IF pool = "closed"
     THEN srv' = Dies(state) /\ wire' = "down"
     ELSE srv' = state /\ wire' = left
  /\ UNCHANGED pool

\* The server executes a query, or refuses it, which fails the transaction or, if
\* it is COMMIT, ends it.  It takes them in the order in which they are sent, so
\* that one whose answer nobody waits for may as well be executed at once.
Executed(q) ==
  CASE q = "rollback" /\ InTx           -> "rolledback"
    [] q = "commit" /\ srv = "failed"   -> "rolledback"
    [] q = "commit" /\ srv = "open"     -> "committed"
    [] OTHER                            -> srv

Refuses(q) ==
  CASE srv = "open" /\ q = "commit"                -> "rolledback"
    [] srv = "open" /\ q \in {"query", "prepare"}  -> "failed"
    [] OTHER                                       -> Executed(q)

\* The query of p may take effect.
Effect(p) == tx.late \/ (query[p] = "query" /\ late[p] /\ tx.ends = "over")

\* fn has no error: Put, or, when the context of a query has ended, Remove
\* without a reason, which takes an earlier mark away.  AfterQuery of a hook may
\* still fail.
Succeeds(p, state, left) ==
  /\ \E hook \in BOOLEAN, ended \in BOOLEAN :
       /\ ended => query[p] = "query"
       /\ IF ended THEN Remove(p, "good", state, left) ELSE Put(p, state, left)
       /\ tx' = [tx EXCEPT
                   !.late = Effect(p),
                   !.unmarked = @ \/ (ended /\ bad),
                   !.told = @ \/ (query[p] = "commit" /\ ~hook /\ ~tx.spoilt)]
  /\ Goto(p, After(p, TRUE))

Failed(p) == tx' = [tx EXCEPT !.spoilt = TRUE, !.late = Effect(p)]

Answered(p) ==
  /\ pc[p] = "using"
  /\ wire = "clean"
  /\ srv = "failed" => query[p] \notin {"query", "prepare"}
  /\ Succeeds(p, Executed(query[p]), "clean")
  /\ UNCHANGED <<begun, tries, shared, closed, stmtVars, todo>>

Refused(p) ==
  /\ pc[p] = "using"
  /\ wire = "clean"
  /\ query[p] \in {"query", "commit", "prepare"}
  /\ srv # "failed"
  /\ Put(p, Refuses(query[p]), "clean")
  /\ Failed(p) /\ Fails(p)
  /\ UNCHANGED <<begun, tries, shared, closed, stmtVars, todo>>

\* It is cancelled, or refused because the transaction has failed, which is not
\* worth a retry.
Spoiled(p) ==
  /\ pc[p] = "using"
  /\ wire = "clean"
  /\ query[p] \in {"query", "commit", "prepare"}
  /\ Remove(p, "bad", Refuses(query[p]), "clean")
  /\ Failed(p)
  /\ IF srv = "failed" THEN Goto(p, After(p, FALSE)) ELSE Fails(p)
  /\ UNCHANGED <<begun, tries, shared, closed, stmtVars, todo>>

\* A deadline passes: nothing has been sent, or a part, to which nothing can be
\* added, or the answer still comes.
TimesOut(p) ==
  /\ pc[p] = "using"
  /\ wire # "down"
  /\ \/ \E left \in {wire, "down"} : Remove(p, "bad", srv, left)
     \/ \E state \in {Executed(query[p]), Refuses(query[p])} :
          Remove(p, "bad", state, "stale")
  /\ Failed(p) /\ Fails(p)
  /\ UNCHANGED <<begun, tries, shared, closed, stmtVars, todo>>

\* The connection breaks: a COMMIT may have come through.
Broken(p) ==
  /\ pc[p] = "using"
  /\ \E state \in {srv} \cup (IF wire = "down" THEN {} ELSE {Executed(query[p])}) :
       Remove(p, "bad", Dies(state), "down")
  /\ Failed(p) /\ Fails(p)
  /\ UNCHANGED <<begun, tries, shared, closed, stmtVars, todo>>

\* A model panics, or CopyTo returns at an error: err is nil or not bad, and the
\* connection goes back with the rest of the answer.
Strays(p) ==
  /\ pc[p] = "using"
  /\ wire = "clean"
  /\ query[p] = "query"
  /\ \E state \in {srv, Refuses("query")} : Put(p, state, "stale")
  /\ Failed(p)
  /\ Goto(p, "idle")
  /\ UNCHANGED <<begun, tries, shared, closed, stmtVars, todo>>

\* A stale answer is taken for the query's own.  That one is left in its turn, or
\* lost with what has been read into the buffer.
Misreads(p) ==
  /\ pc[p] = "using"
  /\ wire = "stale"
  /\ \E state \in {Executed(query[p]), Refuses(query[p])}, left \in {"clean", "stale"} :
       \/ Succeeds(p, state, left)
       \/ Put(p, state, left) /\ Failed(p) /\ Fails(p)
       \/ Remove(p, "bad", state, left) /\ Failed(p) /\ Fails(p)
  /\ UNCHANGED <<begun, tries, shared, closed, stmtVars, todo>>

-----------------------------------------------------------------------------
(* The end of Prepare.                                                      *)

Prepared(p) ==
  /\ pc[p] = "prepared"
  /\ stmts' = stmts + 1
  /\ open' = open + 1
  /\ stmtsMu' = Nobody
  /\ Goto(p, "idle")
  /\ UNCHANGED <<begun, tries, poolVars, shared, closed, todo, srv, tx>>

\* Another attempt: Reset takes a bad connection out of the pool and closes it,
\* or fails when somebody has it or the pool is closed.
Again(p) ==
  /\ pc[p] = "again"
  /\ \/ /\ ~bad
        /\ Goto(p, "get")
        /\ UNCHANGED <<conn, wire, pool, srv, tx>>
     \/ /\ bad /\ pool = "has" /\ holder = Nobody
        /\ conn' = "good"
        /\ pool' = "empty"
        /\ srv' = Dies(srv)
        /\ wire' = "clean"
        /\ tx' = [tx EXCEPT !.moved = TRUE]
        /\ Goto(p, "get")
     \/ /\ bad /\ (pool # "has" \/ holder # Nobody)
        /\ Goto(p, "notPrepared")
        /\ UNCHANGED <<conn, wire, pool, srv, tx>>
  /\ UNCHANGED <<begun, tries, holder, shared, closed, stmtVars, todo>>

\* Fault: the pool is closed with the last reference but one.
DropRefEarly ==
  /\ shared' = shared - 1
  /\ IF shared <= 2 /\ pool # "closed"
     THEN /\ pool' = "closed"
          /\ IF pool = "has" /\ holder = Nobody /\ bad
             THEN srv' = Dies(srv) /\ wire' = "down"
             ELSE UNCHANGED <<srv, wire>>
     ELSE UNCHANGED <<pool, srv, wire>>

\* StickyConnPool.Close: a reference is dropped; with the last one the pool is
\* closed and the connection, if nobody has it, goes to the pool below.
DropRef ==
  /\ shared' = shared - 1
  /\ IF shared <= 1 /\ pool # "closed"
     THEN /\ pool' = "closed"
          /\ IF pool = "has" /\ holder = Nobody /\ bad
             THEN srv' = Dies(srv) /\ wire' = "down"
             ELSE UNCHANGED <<srv, wire>>
     ELSE UNCHANGED <<pool, srv, wire>>

\* Fault: the statement that failed keeps its reference.
PrepareFailsKeeps(p) ==
  /\ pc[p] = "notPrepared"
  /\ stmtsMu' = Nobody
  /\ Goto(p, "idle")
  /\ UNCHANGED <<begun, tries, poolVars, shared, closed, stmts, open, todo, srv, tx>>

PrepareFails(p) ==
  /\ pc[p] = "notPrepared"
  /\ DropRef
  /\ stmtsMu' = Nobody
  /\ Goto(p, "idle")
  /\ UNCHANGED <<begun, tries, holder, conn, closed, stmts, open, todo, tx>>

-----------------------------------------------------------------------------
(* tx.close, and the end of Stmt.Close.                                     *)

txClose(p) ==
  /\ pc[p] = "txClose"
  /\ closed' = TRUE
  /\ Goto(p, IF closed THEN "idle" ELSE "closeStmts")
  /\ tx' = [tx EXCEPT !.ends = IF closed THEN EndReturns ELSE @]
  /\ UNCHANGED <<begun, tries, poolVars, shared, stmtVars, todo, srv>>

\* The loop over the statements begins.
closeStmts(p) ==
  /\ pc[p] = "closeStmts"
  /\ stmtsMu = Nobody
  /\ stmtsMu' = p
  /\ todo' = [todo EXCEPT ![p] = stmts]
  /\ query' = [query EXCEPT ![p] = "close"]
  /\ pc' = [pc EXCEPT ![p] = IF stmts > 0 THEN "get" ELSE "drop"]
  /\ UNCHANGED <<begun, tries, poolVars, shared, closed, stmts, open, op,
                 attempt, late, srv, tx>>

\* db.Close of a statement.
drop(p) ==
  /\ pc[p] = "drop"
  /\ op[p] = "stmtClose" \/ todo[p] > 0
  /\ DropRef
  /\ IF op[p] = "stmtClose"
     THEN Goto(p, "idle") /\ UNCHANGED todo
     ELSE /\ Goto(p, IF todo[p] = 1 THEN "drop" ELSE "get")
          /\ todo' = [todo EXCEPT ![p] = @ - 1]
  /\ UNCHANGED <<begun, tries, holder, conn, closed, stmtVars, tx>>

\* db.Close of the transaction, at the end of tx.close.
dropTx(p) ==
  /\ pc[p] = "drop"
  /\ op[p] = "end"
  /\ todo[p] = 0
  /\ DropRef
  /\ stmtsMu' = Nobody
  /\ stmts' = 0
  /\ tx' = [tx EXCEPT !.ends = EndReturns]
  /\ Goto(p, "idle")
  /\ UNCHANGED <<begun, tries, holder, conn, closed, open, todo>>

-----------------------------------------------------------------------------
Method(p) == \/ Exec(p) \/ StmtExec(p) \/ Commit(p) \/ Rollback(p) \/ CloseNothing(p)
             \/ Prepare(p) \/ StmtClose(p)

GoesOn(p) == \/ BeforeQuery(p) \/ Get(p)
             \/ Answered(p) \/ Refused(p) \/ Spoiled(p) \/ TimesOut(p)
             \/ Broken(p) \/ Strays(p) \/ Misreads(p)
             \/ Prepared(p) \/ Again(p) \/ PrepareFails(p)
             \/ txClose(p) \/ drop(p) \/ dropTx(p)

\* Steps that wait, for the connection or for the mutex.
Waits(p) == Receive(p) \/ lockStmts(p) \/ closeStmts(p)

Next == Begin \/ \E p \in Proc : Method(p) \/ GoesOn(p) \/ Waits(p)

Spec == Init /\ [][Next]_vars

\* Goroutines run, the server answers or the connection breaks, and a channel
\* and a mutex serve those who wait for them in order.
Fairness == \A p \in Proc : WF_vars(GoesOn(p)) /\ SF_vars(Waits(p))

FairSpec == Spec /\ Fairness

-----------------------------------------------------------------------------
\* Every variable has its type.
TypeOK ==
  /\ begun \in {"no", "yes", "failed"}
  /\ tries \in 0..MaxRetries
  /\ pool \in {"empty", "has", "closed"}
  /\ holder \in Proc \cup {Nobody}
  /\ conn \in {"good", "bad"}
  /\ wire \in {"clean", "stale", "down"}
  /\ shared \in Int
  /\ closed \in BOOLEAN
  /\ stmtsMu \in Proc \cup {Nobody}
  /\ stmts \in Nat
  /\ open \in Nat
  /\ pc \in [Proc -> {"idle", "lock", "hook", "get", "recv", "using", "prepared",
                      "notPrepared", "again", "txClose", "closeStmts", "drop"}]
  /\ op \in [Proc -> {"exec", "stmtExec", "end", "prepare", "stmtClose"}]
  /\ query \in [Proc -> {"query", "commit", "rollback", "prepare", "close"}]
  /\ attempt \in [Proc -> 0..MaxRetries]
  /\ late \in [Proc -> BOOLEAN]
  /\ todo \in [Proc -> Nat]
  /\ srv \in {"none", "open", "failed", "committed", "rolledback"}
  /\ tx \in Happened

\* Once the sticky pool is closed and nobody has its connection, the transaction
\* of the server is over: no connection goes back to the pool in the middle of
\* one.  There are three ways round: a hook that fails in place of ROLLBACK, a
\* statement closed twice, which takes the reference of the transaction, and a
\* Remove without a reason, by a call that received a bad connection late, which
\* makes it look good again.
Settled ==
  pool = "closed" /\ holder = Nobody => ~InTx \/ tx.hook \/ tx.twice \/ tx.unmarked

\* The variables have their types, and no connection goes back to the pool in a
\* transaction.
ReturnsSettled == TypeOK /\ Settled

\* If a Commit returns no error, no query had failed before and nobody else tried
\* to end the transaction, then the server has committed.
CommitTold == tx.told => srv = "committed"

\* With one call that ends the transaction, no query called after its return
\* takes effect.
LateFails == ~tx.late

\* Every call returns, unless a retried Prepare takes the connection away that
\* others wait for.
Returned(p) == pc[p] = "idle" \/ tx.moved
CallsReturn == \A p \in Proc : pc[p] # "idle" ~> Returned(p)
=============================================================================
