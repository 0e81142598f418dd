------------------------------ MODULE TxProofs ------------------------------
(* Proofs about Tx, for any number of goroutines, statements and retries.    *)
EXTENDS Tx, FiniteSetTheorems, TLAPS

\* TypeOK in three parts.
Place == {"idle", "lock", "hook", "get", "recv", "using", "prepared",
          "notPrepared", "again", "txClose", "closeStmts", "drop"}

CallTypes ==
  /\ pc \in [Proc -> Place]
  /\ op \in [Proc -> {"exec", "stmtExec", "end", "prepare", "stmtClose"}]
  /\ query \in [Proc -> {"query", "commit", "rollback", "prepare", "close"}]
  /\ attempt \in [Proc -> 0..MaxRetries]
  /\ late \in [Proc -> BOOLEAN]

HistoryTypes == tx \in Happened

StateTypes ==
  /\ begun \in {"no", "yes", "failed"}
  /\ tries \in 0..MaxRetries
  /\ pool \in {"empty", "has", "closed"}
  /\ holder \in Proc \cup {Nobody}
  /\ conn \in {"good", "bad"}
  /\ wire \in {"clean", "stale", "down"}
  /\ shared \in Int
  /\ closed \in BOOLEAN
  /\ stmtsMu \in Proc \cup {Nobody}
  /\ stmts \in Nat
  /\ open \in Nat
  /\ todo \in [Proc -> Nat]
  /\ srv \in {"none", "open", "failed", "committed", "rolledback"}

\* p makes a statement: it has stmtsMu and a reference for it.
Making(p) == op[p] = "prepare" /\ pc[p] # "lock"

\* p is in the part of tx.close that only one goroutine runs: from the change
\* of tx._closed to the last db.Close.
Looping(p) == op[p] = "end" /\ query[p] = "close"
Closing(p) == pc[p] = "closeStmts" \/ Looping(p)

\* Where the methods can be, and the query each sends.
Places == \A p \in Proc :
  /\ pc[p] = "idle" => op[p] = "exec" /\ query[p] = "query" /\ ~late[p]
  /\ op[p] \in {"exec", "stmtExec"} =>
       query[p] = "query" /\ pc[p] \in {"idle", "hook", "get", "recv", "using"}
  /\ op[p] = "prepare" =>
       /\ query[p] = "prepare"
       /\ pc[p] \in {"lock", "get", "recv", "using", "again", "prepared",
                     "notPrepared"}
  /\ op[p] = "stmtClose" =>
       query[p] = "close" /\ pc[p] \in {"get", "recv", "using", "drop"}
  /\ op[p] = "end" =>
       \/ /\ query[p] \in {"commit", "rollback"}
          /\ pc[p] \in {"hook", "get", "recv", "using", "txClose", "closeStmts"}
       \/ /\ query[p] = "close"
          /\ pc[p] \in {"get", "recv", "using", "drop"}
          /\ todo[p] = 0 => pc[p] = "drop"

\* Nobody has a transaction that has not begun.
Unbegun == begun # "yes" =>
  /\ \A p \in Proc : pc[p] = "idle"
  /\ begun = "no" => /\ srv = "none" /\ conn = "good" /\ wire = "clean"
                     /\ tx = Nothing /\ pool # "closed" /\ ~closed
                     /\ shared = 1 /\ stmts = 0 /\ open = 0

\* The connection and the mutex each have one owner at most, and one goroutine
\* closes the transaction.
Owners ==
  /\ \A p \in Proc : holder = p <=> pc[p] = "using"
  /\ pool = "empty" => holder = Nobody
  /\ \A p \in Proc : stmtsMu = p <=> Making(p) \/ Looping(p)
  /\ \A p \in Proc : Closing(p) => closed
  /\ \A p, q \in Proc : Closing(p) /\ Closing(q) => p = q

Shape == TypeOK /\ Places /\ Unbegun /\ Owners
-----------------------------------------------------------------------------
\* tx.close has come to its end.
Dropped == begun = "yes" /\ closed /\ \A p \in Proc : ~Closing(p)

\* The reference of a statement that is being prepared.
InMaking == IF stmtsMu \in Proc /\ op[stmtsMu] = "prepare" THEN 1 ELSE 0

\* Goroutines that hold a reference for a statement not counted in open.
Owing == {p \in Proc : Making(p) \/ op[p] = "stmtClose"}

\* The reference count of the sticky pool: exact until tx.close drops what the
\* program may have dropped before; low enough for tx.close to close the pool.
RefCount ==
  begun = "yes" /\ ~closed /\ ~tx.twice => shared = 1 + open + Cardinality(Owing)

RefBounds ==
  /\ begun = "yes" /\ ~Dropped => open <= stmts /\ shared <= 1 + stmts + InMaking
  /\ \A p \in Proc : Looping(p) => shared <= 1 + todo[p]
  /\ Dropped => /\ pool = "closed"
                /\ \A p \in Proc : Making(p) => pc[p] \in {"get", "notPrepared"}

References == RefCount /\ RefBounds

-----------------------------------------------------------------------------
\* Somebody has sent COMMIT or ROLLBACK, or could not.
Ended == begun = "yes" /\ (closed \/ \E p \in Proc : pc[p] = "txClose")

\* How the transaction of the server stands once somebody has tried to end it,
\* and when the pool below has its connection.
Ending ==
  /\ Ended => ~InTx \/ tx.hook \/ tx.unmarked \/ bad \/ pool = "closed"
  /\ pool = "empty" => ~InTx
  /\ pool = "closed" => \/ ~InTx \/ tx.hook \/ tx.twice \/ tx.unmarked
                        \/ holder # Nobody /\ bad

-----------------------------------------------------------------------------
\* A Commit or Rollback that has not yet been executed.
Before(p) ==
  op[p] = "end" /\ query[p] # "close" /\ pc[p] \in {"hook", "get", "recv", "using"}

\* Nobody can use the connection any more.
Away == pool = "closed" /\ holder = Nobody

\* While no query has failed and one call at most ends the transaction, that is
\* the only thing that happens to it.
Committing ==
  /\ tx.ends \in {"none", "over"} => \A p \in Proc : op[p] # "end"
  /\ tx.ends = "none" => ~tx.told
  /\ tx.ends = "more" => tx.spoilt
  /\ tx.ends = "one" => \A p, q \in Proc : op[p] = "end" /\ op[q] = "end" => p = q
  /\ begun = "yes" /\ ~tx.spoilt => conn = "good" /\ (wire = "clean" \/ Away)
  /\ begun = "yes" /\ ~tx.spoilt /\ tx.ends = "none" => srv = "open" \/ Away
  /\ ~tx.spoilt /\ tx.ends = "one" =>
       \A p \in Proc : Before(p) => ~tx.told /\ (srv = "open" \/ Away)

\* The first call that ends the transaction closes the pool before it returns.
Lateness ==
  /\ begun = "yes" /\ closed => tx.ends # "none"
  /\ tx.ends # "more" => \A p \in Proc : Before(p) \/ pc[p] = "txClose" => ~closed
  /\ tx.ends = "over" => pool = "closed"
  /\ \A p \in Proc : late[p] => tx.ends \in {"over", "more"}
  /\ tx.ends = "over" => \A p \in Proc : late[p] => pc[p] # "using"

IInv == /\ Shape /\ References /\ Ending /\ Committing /\ CommitTold
        /\ Lateness /\ LateFails

USE TxAssumption DEF InTx, bad, poolVars, stmtVars, callVars, Happened,
  Making, Looping, Closing

LEMMA TypesSplit == TypeOK <=> CallTypes /\ HistoryTypes /\ StateTypes
  BY DEF TypeOK, CallTypes, HistoryTypes, StateTypes, Place

LEMMA InitIInv == Init => IInv
<1> SUFFICES ASSUME Init PROVE IInv
  OBVIOUS
<1> USE DEF Init, Nothing
<1>1. TypeOK
  <2>1. CallTypes
    BY DEF CallTypes, Place
  <2>2. HistoryTypes
    BY DEF HistoryTypes
  <2>3. closed \in BOOLEAN
    BY Zenon
  <2>4. StateTypes
    BY <2>3 DEF StateTypes
  <2>. QED
    BY <2>1, <2>2, <2>4, TypesSplit
<1>2. Places /\ Unbegun /\ Owners
  BY DEF Places, Unbegun, Owners
<1>3. References /\ Ending
  BY DEF References, RefCount, RefBounds, Ending, Ended, Dropped
<1>4. Committing /\ CommitTold /\ Lateness /\ LateFails
  BY DEF Committing, CommitTold, Lateness, LateFails, Before
<1>. QED
  BY <1>1, <1>2, <1>3, <1>4 DEF IInv, Shape

-----------------------------------------------------------------------------
(* What the ways in which a query ends have in common.                      *)

Uses(p) == \/ Answered(p) \/ Refused(p) \/ Spoiled(p) \/ TimesOut(p)
           \/ Broken(p) \/ Strays(p) \/ Misreads(p)

\* The connection is given back, and the method goes on.
Releases(p) ==
  /\ pc[p] = "using"
  /\ holder' = Nobody
  /\ (\E ok \in BOOLEAN : Goto(p, After(p, ok))) \/ Fails(p)
  /\ UNCHANGED <<begun, tries, pool, shared, closed, stmtVars, todo>>

LEMMA UseReleases ==
  ASSUME TypeOK, Places, NEW p \in Proc, Uses(p)
  PROVE  Releases(p)
<1> USE DEF Releases
<1>1. CASE Answered(p)
  BY <1>1 DEF Answered, Succeeds, Put, Remove
<1>2. CASE Refused(p)
  BY <1>2 DEF Refused, Put
<1>3. CASE Spoiled(p)
  BY <1>3 DEF Spoiled, Remove
<1>4. CASE TimesOut(p)
  BY <1>4 DEF TimesOut, Remove
<1>5. CASE Broken(p)
  BY <1>5 DEF Broken, Remove
<1>6. CASE Strays(p)
  <2>1. After(p, FALSE) = "idle"
    BY <1>6 DEF Strays, TypeOK, Places, After
  <2>. QED
    BY <1>6, <2>1 DEF Strays, Put
<1>7. CASE Misreads(p)
  BY <1>7 DEF Misreads, Succeeds, Put, Remove
<1>. QED
  BY <1>1, <1>2, <1>3, <1>4, <1>5, <1>6, <1>7 DEF Uses

\* What the server may have done, and in what state the connection is left.
LEMMA UseServer ==
  ASSUME StateTypes, NEW p \in Proc, Uses(p)
  PROVE  /\ conn' \in {"good", "bad"} /\ wire' \in {"clean", "stale", "down"}
         /\ srv' \in {"none", "open", "failed", "committed", "rolledback"}
         /\ InTx' => InTx
         /\ srv = "committed" => srv' = "committed"
         /\ query[p] \in {"commit", "rollback"} => ~InTx' \/ bad'
         /\ pool = "closed" /\ bad => ~InTx'
<1> USE DEF StateTypes
<1>1. CASE Answered(p)
  BY <1>1 DEF Answered, Succeeds, Put, Remove, Dies, Executed
<1>2. CASE Refused(p)
  BY <1>2 DEF Refused, Put, Dies, Executed, Refuses
<1>3. CASE Spoiled(p)
  BY <1>3 DEF Spoiled, Remove, Dies, Executed, Refuses
<1>4. CASE TimesOut(p)
  BY <1>4 DEF TimesOut, Remove, Dies, Executed, Refuses
<1>5. CASE Broken(p)
  BY <1>5 DEF Broken, Remove, Dies, Executed
<1>6. CASE Strays(p)
  BY <1>6 DEF Strays, Put, Dies, Executed, Refuses
<1>7. CASE Misreads(p)
  <2>1. PICK state \in {Executed(query[p]), Refuses(query[p])}, left \in {"clean", "stale"} :
          \/ Succeeds(p, state, left)
          \/ Put(p, state, left)
          \/ Remove(p, "bad", state, left)
    BY <1>7 DEF Misreads
  <2>2. \/ Put(p, state, left)
        \/ \E mark \in {"good", "bad"} : Remove(p, mark, state, left)
               /\ (mark = "good" => query[p] = "query")
    BY <2>1 DEF Succeeds
  <2>3. /\ state \in {"none", "open", "failed", "committed", "rolledback"}
        /\ state \in {"open", "failed"} => InTx
        /\ srv = "committed" => state = "committed"
        /\ query[p] \in {"commit", "rollback"} => state \notin {"open", "failed"}
    BY DEF Executed, Refuses
  <2>. QED
    BY <2>2, <2>3 DEF Put, Remove, Dies
<1>. QED
  BY <1>1, <1>2, <1>3, <1>4, <1>5, <1>6, <1>7 DEF Uses

\* What the history records of it.
LEMMA UseHistory ==
  ASSUME TypeOK, NEW p \in Proc, Uses(p)
  PROVE  /\ tx' \in Happened
         /\ tx'.ends = tx.ends
         /\ tx'.hook = tx.hook /\ tx'.twice = tx.twice /\ tx'.moved = tx.moved
         /\ tx'.late = Effect(p)
         /\ tx.unmarked => tx'.unmarked
         /\ bad => bad' \/ tx'.unmarked
         /\ tx.spoilt => tx'.spoilt
<1>1. tx \in Happened /\ query[p] \in {"query", "commit", "rollback", "prepare", "close"}
  BY DEF TypeOK
<1>2. Effect(p) \in BOOLEAN
  BY <1>1 DEF Effect, TypeOK
<1>3. CASE Failed(p) /\ (bad => bad')
  BY <1>1, <1>2, <1>3 DEF Failed
<1>4. ASSUME NEW state, NEW left, Succeeds(p, state, left)
      PROVE  /\ tx' \in Happened
             /\ tx'.ends = tx.ends
             /\ tx'.hook = tx.hook /\ tx'.twice = tx.twice /\ tx'.moved = tx.moved
             /\ tx'.late = Effect(p)
             /\ tx.unmarked => tx'.unmarked
             /\ bad => bad' \/ tx'.unmarked
             /\ tx.spoilt => tx'.spoilt
  <2>1. PICK hook \in BOOLEAN, ended \in BOOLEAN :
          /\ IF ended THEN Remove(p, "good", state, left) ELSE Put(p, state, left)
          /\ tx' = [tx EXCEPT
                      !.late = Effect(p),
                      !.unmarked = @ \/ (ended /\ bad),
                      !.told = @ \/ (query[p] = "commit" /\ ~hook /\ ~tx.spoilt)]
    BY <1>4 DEF Succeeds
  <2> DEFINE u == tx.unmarked \/ (ended /\ bad)
             t == tx.told \/ (query[p] = "commit" /\ ~hook /\ ~tx.spoilt)
  <2>2. u \in BOOLEAN /\ t \in BOOLEAN
    BY <1>1
  <2>3. tx' = [tx EXCEPT !.late = Effect(p), !.unmarked = u, !.told = t]
    BY <2>1
  <2>4. (tx.unmarked => u) /\ (bad => bad' \/ u)
    BY <2>1, <1>1 DEF Remove, Put
  <2> HIDE DEF u, t
  <2>. QED
    BY <2>2, <2>3, <2>4, <1>1, <1>2
<1>5. (Failed(p) /\ (bad => bad')) \/ \E state, left : Succeeds(p, state, left)
  <2>1. CASE Answered(p)
    BY <2>1 DEF Answered
  <2>2. CASE Refused(p) \/ Strays(p)
    BY <2>2 DEF Refused, Strays, Put
  <2>3. CASE Spoiled(p) \/ TimesOut(p) \/ Broken(p)
    BY <2>3 DEF Spoiled, TimesOut, Broken, Remove
  <2>4. CASE Misreads(p)
    BY <2>4 DEF Misreads, Put, Remove
  <2>. QED
    BY <2>1, <2>2, <2>3, <2>4 DEF Uses
<1>. QED
  BY <1>3, <1>4, <1>5

\* While nothing has failed, it is what the query asks for.
LEMMA UseUnspoilt ==
  ASSUME TypeOK, NEW p \in Proc, Uses(p)
  PROVE  /\ tx'.told => tx.told \/ (query[p] = "commit" /\ ~tx.spoilt)
         /\ /\ ~tx.spoilt /\ wire = "clean" /\ conn = "good"
            /\ ~tx'.spoilt \/ (tx'.told /\ ~tx.told)
            => /\ conn' = "good"
               /\ \/ wire' = "clean" /\ srv' = Executed(query[p])
                  \/ pool = "closed" /\ query[p] = "query"
<1>1. tx \in Happened
  BY DEF TypeOK
<1>2. CASE Failed(p)
  BY <1>1, <1>2 DEF Failed
<1>3. ASSUME NEW state, NEW left, Succeeds(p, state, left)
      PROVE  tx'.told => tx.told \/ (query[p] = "commit" /\ ~tx.spoilt)
  <2>1. PICK hook \in BOOLEAN, ended \in BOOLEAN :
          tx' = [tx EXCEPT
                   !.late = Effect(p),
                   !.unmarked = @ \/ (ended /\ bad),
                   !.told = @ \/ (query[p] = "commit" /\ ~hook /\ ~tx.spoilt)]
    BY <1>3 DEF Succeeds
  <2>. QED
    BY <1>1, <2>1
<1>4. CASE Answered(p)
  <2>1. Succeeds(p, Executed(query[p]), "clean")
    BY <1>4 DEF Answered
  <2>2. conn = "good" =>
          /\ conn' = "good"
          /\ \/ wire' = "clean" /\ srv' = Executed(query[p])
             \/ pool = "closed" /\ query[p] = "query"
    BY <2>1 DEF Succeeds, Put, Remove
  <2>. QED
    BY <1>3, <2>1, <2>2
<1>5. CASE Misreads(p) /\ ~Failed(p)
  <2>1. wire # "clean" /\ \E state, left : Succeeds(p, state, left)
    BY <1>5 DEF Misreads
  <2>. QED
    BY <1>3, <2>1
<1>6. Failed(p) \/ Answered(p) \/ Misreads(p)
  BY DEF Uses, Refused, Spoiled, TimesOut, Broken, Strays
<1>. QED
  BY <1>2, <1>4, <1>5, <1>6

-----------------------------------------------------------------------------
(* Types.                                                                   *)

LEMMA GotoTypes ==
  ASSUME CallTypes, NEW p \in Proc, NEW place \in Place, Goto(p, place)
  PROVE  CallTypes'
<1>1. pc' \in [Proc -> Place] /\ attempt' \in [Proc -> 0..MaxRetries]
  BY DEF CallTypes, Goto
<1>2. late' \in [Proc -> BOOLEAN]
  BY DEF CallTypes, Goto
<1>3. /\ op' \in [Proc -> {"exec", "stmtExec", "end", "prepare", "stmtClose"}]
      /\ query' \in [Proc -> {"query", "commit", "rollback", "prepare", "close"}]
  BY DEF CallTypes, Goto
<1>. QED
  BY <1>1, <1>2, <1>3 DEF CallTypes

LEMMA AfterPlace ==
  ASSUME NEW p \in Proc, NEW ok \in BOOLEAN
  PROVE  After(p, ok) \in Place
  BY DEF After, Place

LEMMA FailsTypes ==
  ASSUME CallTypes, NEW p \in Proc, Fails(p)
  PROVE  CallTypes'
<1>1. CASE Goto(p, After(p, FALSE))
  BY <1>1, AfterPlace, GotoTypes
<1>2. CASE ~Goto(p, After(p, FALSE))
  <2>1. pc' \in [Proc -> Place]
    BY <1>2 DEF Fails, CallTypes, Place
  <2>2. attempt' \in [Proc -> 0..MaxRetries]
    <3>1. attempt[p] < MaxRetries /\ attempt' = [attempt EXCEPT ![p] = @ + 1]
      BY <1>2 DEF Fails
    <3>2. attempt \in [Proc -> 0..MaxRetries]
      BY DEF CallTypes
    <3>. QED
      BY <3>1, <3>2
  <2>3. UNCHANGED <<op, query, late>>
    BY <1>2 DEF Fails
  <2>. QED
    BY <2>1, <2>2, <2>3 DEF CallTypes
<1>. QED
  BY <1>1, <1>2

LEMMA NextCallTypes ==
  TypeOK /\ Places /\ HistoryTypes /\ CallTypes /\ [Next]_vars => CallTypes'
<1> SUFFICES ASSUME TypeOK, Places, HistoryTypes, CallTypes, [Next]_vars
             PROVE  CallTypes'
  OBVIOUS
<1>1. CASE BeginSucceeds
  BY <1>1 DEF BeginSucceeds, HistoryTypes, CallTypes, Place
<1>2. CASE BeginRetries
  BY <1>2 DEF BeginRetries, HistoryTypes, CallTypes, Place
<1>3. CASE BeginFails
  BY <1>3 DEF BeginFails, HistoryTypes, CallTypes, Place
<1>4. CASE BeginAgain
  BY <1>4 DEF BeginAgain, Nothing, HistoryTypes, CallTypes, Place
<1>5. ASSUME NEW p \in Proc, Exec(p) PROVE CallTypes'
  BY <1>5 DEF Exec, Call, HistoryTypes, CallTypes, Place
<1>6. ASSUME NEW p \in Proc, StmtExec(p) PROVE CallTypes'
  BY <1>6 DEF StmtExec, Call, HistoryTypes, CallTypes, Place
<1>7. ASSUME NEW p \in Proc, Commit(p) PROVE CallTypes'
  BY <1>7 DEF Commit, Call, Ends, HistoryTypes, CallTypes, Place
<1>8. ASSUME NEW p \in Proc, Rollback(p) PROVE CallTypes'
  BY <1>8 DEF Rollback, Call, Ends, HistoryTypes, CallTypes, Place
<1>9. ASSUME NEW p \in Proc, CloseNothing(p) PROVE CallTypes'
  BY <1>9 DEF CloseNothing, HistoryTypes, CallTypes, Place
<1>10. ASSUME NEW p \in Proc, Prepare(p) PROVE CallTypes'
  BY <1>10 DEF Prepare, Call, HistoryTypes, CallTypes, Place
<1>11. ASSUME NEW p \in Proc, StmtClose(p) PROVE CallTypes'
  BY <1>11 DEF StmtClose, Call, HistoryTypes, CallTypes, Place
<1>12. ASSUME NEW p \in Proc, lockStmts(p) PROVE CallTypes'
  <2>1. PICK place \in Place : Goto(p, place)
    BY <1>12, AfterPlace DEF lockStmts, Place
  <2>. QED
    BY <2>1, GotoTypes
<1>13. ASSUME NEW p \in Proc, BeforeQuery(p) PROVE CallTypes'
  <2>1. PICK place \in Place : Goto(p, place)
    BY <1>13, AfterPlace DEF BeforeQuery, Place
  <2>. QED
    BY <2>1, GotoTypes
<1>14. ASSUME NEW p \in Proc, Get(p) PROVE CallTypes'
  <2>1. PICK place \in Place : Goto(p, place)
    BY <1>14, AfterPlace DEF Get, Place
  <2>. QED
    BY <2>1, GotoTypes
<1>15. ASSUME NEW p \in Proc, Receive(p) PROVE CallTypes'
  <2>1. PICK place \in Place : Goto(p, place)
    BY <1>15, AfterPlace DEF Receive, Place
  <2>. QED
    BY <2>1, GotoTypes
<1>16. ASSUME NEW p \in Proc, Uses(p) PROVE CallTypes'
  <2>1. Releases(p)
    BY <1>16, UseReleases
  <2>. QED
    BY <2>1, AfterPlace, GotoTypes, FailsTypes DEF Releases
<1>17. ASSUME NEW p \in Proc, Prepared(p) PROVE CallTypes'
  <2>1. PICK place \in Place : Goto(p, place)
    BY <1>17, AfterPlace DEF Prepared, Place
  <2>. QED
    BY <2>1, GotoTypes
<1>18. ASSUME NEW p \in Proc, Again(p) PROVE CallTypes'
  <2>1. PICK place \in Place : Goto(p, place)
    BY <1>18, AfterPlace DEF Again, Place
  <2>. QED
    BY <2>1, GotoTypes
<1>19. ASSUME NEW p \in Proc, PrepareFails(p) PROVE CallTypes'
  <2>1. PICK place \in Place : Goto(p, place)
    BY <1>19, AfterPlace DEF PrepareFails, Place
  <2>. QED
    BY <2>1, GotoTypes
<1>20. ASSUME NEW p \in Proc, txClose(p) PROVE CallTypes'
  <2>1. PICK place \in Place : Goto(p, place)
    BY <1>20, AfterPlace DEF txClose, Place
  <2>. QED
    BY <2>1, GotoTypes
<1>21. ASSUME NEW p \in Proc, closeStmts(p) PROVE CallTypes'
  BY <1>21 DEF closeStmts, HistoryTypes, CallTypes, Place
<1>22. ASSUME NEW p \in Proc, drop(p) PROVE CallTypes'
  <2>1. PICK place \in Place : Goto(p, place)
    BY <1>22, AfterPlace DEF drop, Place
  <2>. QED
    BY <2>1, GotoTypes
<1>23. ASSUME NEW p \in Proc, dropTx(p) PROVE CallTypes'
  <2>1. PICK place \in Place : Goto(p, place)
    BY <1>23, AfterPlace DEF dropTx, Place
  <2>. QED
    BY <2>1, GotoTypes
<1>24. CASE UNCHANGED vars
  BY <1>24 DEF vars, HistoryTypes, CallTypes, Place
<1>. QED
  BY <1>1, <1>2, <1>3, <1>4, <1>5, <1>6, <1>7, <1>8, <1>9, <1>10, <1>11,
     <1>12, <1>13, <1>14, <1>15, <1>16, <1>17, <1>18, <1>19, <1>20, <1>21,
     <1>22, <1>23, <1>24
     DEF Next, Begin, Method, GoesOn, Waits, Uses

LEMMA NextHistoryTypes ==
  TypeOK /\ HistoryTypes /\ [Next]_vars => HistoryTypes'
<1> SUFFICES ASSUME TypeOK, HistoryTypes, [Next]_vars PROVE HistoryTypes'
  OBVIOUS
<1>1. CASE BeginSucceeds
  BY <1>1 DEF BeginSucceeds, TypeOK, HistoryTypes
<1>2. CASE BeginRetries
  BY <1>2 DEF BeginRetries, TypeOK, HistoryTypes
<1>3. CASE BeginFails
  BY <1>3 DEF BeginFails, TypeOK, HistoryTypes
<1>4. CASE BeginAgain
  BY <1>4 DEF BeginAgain, Nothing, TypeOK, HistoryTypes
<1>5. ASSUME NEW p \in Proc, Exec(p) PROVE HistoryTypes'
  BY <1>5 DEF Exec, Call, TypeOK, HistoryTypes
<1>6. ASSUME NEW p \in Proc, StmtExec(p) PROVE HistoryTypes'
  BY <1>6 DEF StmtExec, Call, TypeOK, HistoryTypes
<1>7. ASSUME NEW p \in Proc, Commit(p) PROVE HistoryTypes'
  BY <1>7 DEF Commit, Call, Ends, TypeOK, HistoryTypes
<1>8. ASSUME NEW p \in Proc, Rollback(p) PROVE HistoryTypes'
  BY <1>8 DEF Rollback, Call, Ends, TypeOK, HistoryTypes
<1>9. ASSUME NEW p \in Proc, CloseNothing(p) PROVE HistoryTypes'
  BY <1>9 DEF CloseNothing, TypeOK, HistoryTypes
<1>10. ASSUME NEW p \in Proc, Prepare(p) PROVE HistoryTypes'
  BY <1>10 DEF Prepare, Call, TypeOK, HistoryTypes
<1>11. ASSUME NEW p \in Proc, StmtClose(p) PROVE HistoryTypes'
  BY <1>11 DEF StmtClose, Call, TypeOK, HistoryTypes
<1>12. ASSUME NEW p \in Proc, lockStmts(p) PROVE HistoryTypes'
  BY <1>12 DEF lockStmts, Goto, TypeOK, HistoryTypes
<1>13. ASSUME NEW p \in Proc, BeforeQuery(p) PROVE HistoryTypes'
  BY <1>13 DEF BeforeQuery, After, Goto, TypeOK, HistoryTypes
<1>14. ASSUME NEW p \in Proc, Get(p) PROVE HistoryTypes'
  BY <1>14 DEF Get, After, Goto, TypeOK, HistoryTypes
<1>15. ASSUME NEW p \in Proc, Receive(p) PROVE HistoryTypes'
  BY <1>15 DEF Receive, After, Goto, TypeOK, HistoryTypes
<1>16. ASSUME NEW p \in Proc, Uses(p) PROVE HistoryTypes'
  BY <1>16, UseHistory DEF HistoryTypes
<1>17. ASSUME NEW p \in Proc, Prepared(p) PROVE HistoryTypes'
  BY <1>17 DEF Prepared, Goto, TypeOK, HistoryTypes
<1>18. ASSUME NEW p \in Proc, Again(p) PROVE HistoryTypes'
  BY <1>18 DEF Again, Dies, Goto, TypeOK, HistoryTypes
<1>19. ASSUME NEW p \in Proc, PrepareFails(p) PROVE HistoryTypes'
  BY <1>19 DEF PrepareFails, DropRef, Dies, Goto, TypeOK, HistoryTypes
<1>20. ASSUME NEW p \in Proc, txClose(p) PROVE HistoryTypes'
  BY <1>20 DEF txClose, EndReturns, Goto, TypeOK, HistoryTypes
<1>21. ASSUME NEW p \in Proc, closeStmts(p) PROVE HistoryTypes'
  BY <1>21 DEF closeStmts, TypeOK, HistoryTypes
<1>22. ASSUME NEW p \in Proc, drop(p) PROVE HistoryTypes'
  BY <1>22 DEF drop, DropRef, Dies, Goto, TypeOK, HistoryTypes
<1>23. ASSUME NEW p \in Proc, dropTx(p) PROVE HistoryTypes'
  BY <1>23 DEF dropTx, DropRef, Dies, EndReturns, Goto, TypeOK, HistoryTypes
<1>24. CASE UNCHANGED vars
  BY <1>24 DEF vars, TypeOK, HistoryTypes
<1>. QED
  BY <1>1, <1>2, <1>3, <1>4, <1>5, <1>6, <1>7, <1>8, <1>9, <1>10, <1>11,
     <1>12, <1>13, <1>14, <1>15, <1>16, <1>17, <1>18, <1>19, <1>20, <1>21,
     <1>22, <1>23, <1>24
     DEF Next, Begin, Method, GoesOn, Waits, Uses

LEMMA NextStateTypes ==
  TypeOK /\ Places /\ Owners /\ StateTypes /\ [Next]_vars => StateTypes'
<1> SUFFICES ASSUME TypeOK, Places, Owners, StateTypes, [Next]_vars
             PROVE  StateTypes'
  OBVIOUS
<1>1. CASE BeginSucceeds
  BY <1>1 DEF BeginSucceeds, TypeOK, StateTypes, Places, Owners
<1>2. CASE BeginRetries
  BY <1>2 DEF BeginRetries, TypeOK, StateTypes, Places, Owners
<1>3. CASE BeginFails
  BY <1>3 DEF BeginFails, TypeOK, StateTypes, Places, Owners
<1>4. CASE BeginAgain
  <2>1. closed' \in BOOLEAN
    BY <1>4, Zenon DEF BeginAgain
  <2>. QED
    BY <1>4, <2>1 DEF BeginAgain, StateTypes
<1>5. ASSUME NEW p \in Proc, Exec(p) PROVE StateTypes'
  BY <1>5 DEF Exec, Call, TypeOK, StateTypes, Places, Owners
<1>6. ASSUME NEW p \in Proc, StmtExec(p) PROVE StateTypes'
  BY <1>6 DEF StmtExec, Call, TypeOK, StateTypes, Places, Owners
<1>7. ASSUME NEW p \in Proc, Commit(p) PROVE StateTypes'
  BY <1>7 DEF Commit, Call, Ends, TypeOK, StateTypes, Places, Owners
<1>8. ASSUME NEW p \in Proc, Rollback(p) PROVE StateTypes'
  BY <1>8 DEF Rollback, Call, Ends, TypeOK, StateTypes, Places, Owners
<1>9. ASSUME NEW p \in Proc, CloseNothing(p) PROVE StateTypes'
  BY <1>9 DEF CloseNothing, TypeOK, StateTypes, Places, Owners
<1>10. ASSUME NEW p \in Proc, Prepare(p) PROVE StateTypes'
  BY <1>10 DEF Prepare, Call, TypeOK, StateTypes, Places, Owners
<1>11. ASSUME NEW p \in Proc, StmtClose(p) PROVE StateTypes'
  BY <1>11 DEF StmtClose, Call, TypeOK, StateTypes, Places, Owners
<1>12. ASSUME NEW p \in Proc, lockStmts(p) PROVE StateTypes'
  BY <1>12 DEF lockStmts, Goto, TypeOK, StateTypes, Places, Owners
<1>13. ASSUME NEW p \in Proc, BeforeQuery(p) PROVE StateTypes'
  BY <1>13 DEF BeforeQuery, After, Goto, TypeOK, StateTypes, Places, Owners
<1>14. ASSUME NEW p \in Proc, Get(p) PROVE StateTypes'
  BY <1>14 DEF Get, After, Goto, TypeOK, StateTypes, Places, Owners
<1>15. ASSUME NEW p \in Proc, Receive(p) PROVE StateTypes'
  BY <1>15 DEF Receive, After, Goto, TypeOK, StateTypes, Places, Owners
<1>16. ASSUME NEW p \in Proc, Uses(p) PROVE StateTypes'
  BY <1>16, UseReleases, UseServer DEF Releases, StateTypes
<1>17. ASSUME NEW p \in Proc, Prepared(p) PROVE StateTypes'
  BY <1>17 DEF Prepared, Goto, TypeOK, StateTypes, Places, Owners
<1>18. ASSUME NEW p \in Proc, Again(p) PROVE StateTypes'
  BY <1>18 DEF Again, Dies, Goto, TypeOK, StateTypes, Places, Owners
<1>19. ASSUME NEW p \in Proc, PrepareFails(p) PROVE StateTypes'
  BY <1>19 DEF PrepareFails, DropRef, Dies, Goto, TypeOK, StateTypes, Places,
    Owners
<1>20. ASSUME NEW p \in Proc, txClose(p) PROVE StateTypes'
  BY <1>20 DEF txClose, EndReturns, Goto, TypeOK, StateTypes, Places, Owners
<1>21. ASSUME NEW p \in Proc, closeStmts(p) PROVE StateTypes'
  BY <1>21 DEF closeStmts, TypeOK, StateTypes, Places, Owners
<1>22. ASSUME NEW p \in Proc, drop(p) PROVE StateTypes'
  BY <1>22 DEF drop, DropRef, Dies, Goto, TypeOK, StateTypes, Places, Owners
<1>23. ASSUME NEW p \in Proc, dropTx(p) PROVE StateTypes'
  BY <1>23 DEF dropTx, DropRef, Dies, EndReturns, Goto, TypeOK, StateTypes,
    Places, Owners
<1>24. CASE UNCHANGED vars
  BY <1>24 DEF vars, TypeOK, StateTypes, Places, Owners
<1>. QED
  BY <1>1, <1>2, <1>3, <1>4, <1>5, <1>6, <1>7, <1>8, <1>9, <1>10, <1>11,
     <1>12, <1>13, <1>14, <1>15, <1>16, <1>17, <1>18, <1>19, <1>20, <1>21,
     <1>22, <1>23, <1>24
     DEF Next, Begin, Method, GoesOn, Waits, Uses

LEMMA NextTypeOK ==
  TypeOK /\ Places /\ Owners /\ [Next]_vars => TypeOK'
<1> SUFFICES ASSUME TypeOK, Places, Owners, [Next]_vars PROVE TypeOK'
  OBVIOUS
<1>1. CallTypes /\ HistoryTypes /\ StateTypes
  BY TypesSplit
<1>2. CallTypes' /\ HistoryTypes' /\ StateTypes'
  BY <1>1, NextCallTypes, NextHistoryTypes, NextStateTypes
<1>. QED
  BY <1>2 DEF TypeOK, CallTypes, HistoryTypes, StateTypes, Place

-----------------------------------------------------------------------------
(* Places and owners.                                                       *)

LEMMA NextPlaces ==
  TypeOK /\ Unbegun /\ Owners /\ Places /\ [Next]_vars => Places'
<1> SUFFICES ASSUME TypeOK, Unbegun, Owners, Places, [Next]_vars PROVE Places'
  OBVIOUS
<1>1. CASE BeginSucceeds
  BY <1>1 DEF BeginSucceeds, TypeOK, Places, Unbegun, Owners
<1>2. CASE BeginRetries
  BY <1>2 DEF BeginRetries, TypeOK, Places, Unbegun, Owners
<1>3. CASE BeginFails
  BY <1>3 DEF BeginFails, TypeOK, Places, Unbegun, Owners
<1>4. CASE BeginAgain
  BY <1>4 DEF BeginAgain, Nothing, TypeOK, Places, Unbegun, Owners
<1>5. ASSUME NEW p \in Proc, Exec(p) PROVE Places'
  BY <1>5 DEF Exec, Call, TypeOK, Places, Unbegun, Owners
<1>6. ASSUME NEW p \in Proc, StmtExec(p) PROVE Places'
  BY <1>6 DEF StmtExec, Call, TypeOK, Places, Unbegun, Owners
<1>7. ASSUME NEW p \in Proc, Commit(p) PROVE Places'
  BY <1>7 DEF Commit, Call, Ends, TypeOK, Places, Unbegun, Owners
<1>8. ASSUME NEW p \in Proc, Rollback(p) PROVE Places'
  BY <1>8 DEF Rollback, Call, Ends, TypeOK, Places, Unbegun, Owners
<1>9. ASSUME NEW p \in Proc, CloseNothing(p) PROVE Places'
  BY <1>9 DEF CloseNothing, TypeOK, Places, Unbegun, Owners
<1>10. ASSUME NEW p \in Proc, Prepare(p) PROVE Places'
  BY <1>10 DEF Prepare, Call, TypeOK, Places, Unbegun, Owners
<1>11. ASSUME NEW p \in Proc, StmtClose(p) PROVE Places'
  BY <1>11 DEF StmtClose, Call, TypeOK, Places, Unbegun, Owners
<1>12. ASSUME NEW p \in Proc, lockStmts(p) PROVE Places'
  BY <1>12 DEF lockStmts, Goto, TypeOK, Places, Unbegun, Owners
<1>13. ASSUME NEW p \in Proc, BeforeQuery(p) PROVE Places'
  BY <1>13 DEF BeforeQuery, After, Goto, TypeOK, Places, Unbegun, Owners
<1>14. ASSUME NEW p \in Proc, Get(p) PROVE Places'
  BY <1>14 DEF Get, After, Goto, TypeOK, Places, Unbegun, Owners
<1>15. ASSUME NEW p \in Proc, Receive(p) PROVE Places'
  BY <1>15 DEF Receive, After, Goto, TypeOK, Places, Unbegun, Owners
<1>16. ASSUME NEW p \in Proc, Uses(p) PROVE Places'
  BY <1>16, UseReleases DEF Releases, Fails, After, Goto, TypeOK, Places,
    Unbegun, Owners
<1>17. ASSUME NEW p \in Proc, Prepared(p) PROVE Places'
  BY <1>17 DEF Prepared, Goto, TypeOK, Places, Unbegun, Owners
<1>18. ASSUME NEW p \in Proc, Again(p) PROVE Places'
  BY <1>18 DEF Again, Dies, Goto, TypeOK, Places, Unbegun, Owners
<1>19. ASSUME NEW p \in Proc, PrepareFails(p) PROVE Places'
  BY <1>19 DEF PrepareFails, DropRef, Dies, Goto, TypeOK, Places, Unbegun,
    Owners
<1>20. ASSUME NEW p \in Proc, txClose(p) PROVE Places'
  BY <1>20 DEF txClose, EndReturns, Goto, TypeOK, Places, Unbegun, Owners
<1>21. ASSUME NEW p \in Proc, closeStmts(p) PROVE Places'
  BY <1>21 DEF closeStmts, TypeOK, Places, Unbegun, Owners
<1>22. ASSUME NEW p \in Proc, drop(p) PROVE Places'
  BY <1>22 DEF drop, DropRef, Dies, Goto, TypeOK, Places, Unbegun, Owners
<1>23. ASSUME NEW p \in Proc, dropTx(p) PROVE Places'
  BY <1>23 DEF dropTx, DropRef, Dies, EndReturns, Goto, TypeOK, Places,
    Unbegun, Owners
<1>24. CASE UNCHANGED vars
  BY <1>24 DEF vars, TypeOK, Places, Unbegun, Owners
<1>. QED
  BY <1>1, <1>2, <1>3, <1>4, <1>5, <1>6, <1>7, <1>8, <1>9, <1>10, <1>11,
     <1>12, <1>13, <1>14, <1>15, <1>16, <1>17, <1>18, <1>19, <1>20, <1>21,
     <1>22, <1>23, <1>24
     DEF Next, Begin, Method, GoesOn, Waits, Uses

LEMMA NextUnbegun ==
  TypeOK /\ Places /\ Owners /\ Unbegun /\ [Next]_vars => Unbegun'
<1> SUFFICES ASSUME TypeOK, Places, Owners, Unbegun, [Next]_vars
             PROVE  Unbegun'
  OBVIOUS
<1>1. CASE BeginSucceeds
  BY <1>1 DEF BeginSucceeds, TypeOK, Places, Unbegun, Owners
<1>2. CASE BeginRetries
  BY <1>2 DEF BeginRetries, TypeOK, Places, Unbegun, Owners
<1>3. CASE BeginFails
  BY <1>3 DEF BeginFails, TypeOK, Places, Unbegun, Owners
<1>4. CASE BeginAgain
  BY <1>4 DEF BeginAgain, Nothing, TypeOK, Places, Unbegun, Owners
<1>5. ASSUME NEW p \in Proc, Exec(p) PROVE Unbegun'
  BY <1>5 DEF Exec, Call, TypeOK, Places, Unbegun, Owners
<1>6. ASSUME NEW p \in Proc, StmtExec(p) PROVE Unbegun'
  BY <1>6 DEF StmtExec, Call, TypeOK, Places, Unbegun, Owners
<1>7. ASSUME NEW p \in Proc, Commit(p) PROVE Unbegun'
  BY <1>7 DEF Commit, Call, Ends, TypeOK, Places, Unbegun, Owners
<1>8. ASSUME NEW p \in Proc, Rollback(p) PROVE Unbegun'
  BY <1>8 DEF Rollback, Call, Ends, TypeOK, Places, Unbegun, Owners
<1>9. ASSUME NEW p \in Proc, CloseNothing(p) PROVE Unbegun'
  BY <1>9 DEF CloseNothing, TypeOK, Places, Unbegun, Owners
<1>10. ASSUME NEW p \in Proc, Prepare(p) PROVE Unbegun'
  BY <1>10 DEF Prepare, Call, TypeOK, Places, Unbegun, Owners
<1>11. ASSUME NEW p \in Proc, StmtClose(p) PROVE Unbegun'
  BY <1>11 DEF StmtClose, Call, TypeOK, Places, Unbegun, Owners
<1>12. ASSUME NEW p \in Proc, lockStmts(p) PROVE Unbegun'
  BY <1>12 DEF lockStmts, Goto, TypeOK, Places, Unbegun, Owners
<1>13. ASSUME NEW p \in Proc, BeforeQuery(p) PROVE Unbegun'
  BY <1>13 DEF BeforeQuery, After, Goto, TypeOK, Places, Unbegun, Owners
<1>14. ASSUME NEW p \in Proc, Get(p) PROVE Unbegun'
  BY <1>14 DEF Get, After, Goto, TypeOK, Places, Unbegun, Owners
<1>15. ASSUME NEW p \in Proc, Receive(p) PROVE Unbegun'
  BY <1>15 DEF Receive, After, Goto, TypeOK, Places, Unbegun, Owners
<1>16. ASSUME NEW p \in Proc, Uses(p) PROVE Unbegun'
  BY <1>16, UseReleases DEF Releases, Fails, After, Goto, TypeOK, Places,
    Unbegun, Owners
<1>17. ASSUME NEW p \in Proc, Prepared(p) PROVE Unbegun'
  BY <1>17 DEF Prepared, Goto, TypeOK, Places, Unbegun, Owners
<1>18. ASSUME NEW p \in Proc, Again(p) PROVE Unbegun'
  BY <1>18 DEF Again, Dies, Goto, TypeOK, Places, Unbegun, Owners
<1>19. ASSUME NEW p \in Proc, PrepareFails(p) PROVE Unbegun'
  BY <1>19 DEF PrepareFails, DropRef, Dies, Goto, TypeOK, Places, Unbegun,
    Owners
<1>20. ASSUME NEW p \in Proc, txClose(p) PROVE Unbegun'
  BY <1>20 DEF txClose, EndReturns, Goto, TypeOK, Places, Unbegun, Owners
<1>21. ASSUME NEW p \in Proc, closeStmts(p) PROVE Unbegun'
  BY <1>21 DEF closeStmts, TypeOK, Places, Unbegun, Owners
<1>22. ASSUME NEW p \in Proc, drop(p) PROVE Unbegun'
  BY <1>22 DEF drop, DropRef, Dies, Goto, TypeOK, Places, Unbegun, Owners
<1>23. ASSUME NEW p \in Proc, dropTx(p) PROVE Unbegun'
  BY <1>23 DEF dropTx, DropRef, Dies, EndReturns, Goto, TypeOK, Places,
    Unbegun, Owners
<1>24. CASE UNCHANGED vars
  BY <1>24 DEF vars, TypeOK, Places, Unbegun, Owners
<1>. QED
  BY <1>1, <1>2, <1>3, <1>4, <1>5, <1>6, <1>7, <1>8, <1>9, <1>10, <1>11,
     <1>12, <1>13, <1>14, <1>15, <1>16, <1>17, <1>18, <1>19, <1>20, <1>21,
     <1>22, <1>23, <1>24
     DEF Next, Begin, Method, GoesOn, Waits, Uses

LEMMA NextOwners ==
  TypeOK /\ Places /\ Unbegun /\ Owners /\ [Next]_vars => Owners'
<1> SUFFICES ASSUME TypeOK, Places, Unbegun, Owners, [Next]_vars PROVE Owners'
  OBVIOUS
<1>1. CASE BeginSucceeds
  BY <1>1 DEF BeginSucceeds, TypeOK, Places, Unbegun, Owners
<1>2. CASE BeginRetries
  BY <1>2 DEF BeginRetries, TypeOK, Places, Unbegun, Owners
<1>3. CASE BeginFails
  BY <1>3 DEF BeginFails, TypeOK, Places, Unbegun, Owners
<1>4. CASE BeginAgain
  BY <1>4 DEF BeginAgain, Nothing, TypeOK, Places, Unbegun, Owners
<1>5. ASSUME NEW p \in Proc, Exec(p) PROVE Owners'
  BY <1>5 DEF Exec, Call, TypeOK, Places, Unbegun, Owners
<1>6. ASSUME NEW p \in Proc, StmtExec(p) PROVE Owners'
  BY <1>6 DEF StmtExec, Call, TypeOK, Places, Unbegun, Owners
<1>7. ASSUME NEW p \in Proc, Commit(p) PROVE Owners'
  BY <1>7 DEF Commit, Call, Ends, TypeOK, Places, Unbegun, Owners
<1>8. ASSUME NEW p \in Proc, Rollback(p) PROVE Owners'
  BY <1>8 DEF Rollback, Call, Ends, TypeOK, Places, Unbegun, Owners
<1>9. ASSUME NEW p \in Proc, CloseNothing(p) PROVE Owners'
  BY <1>9 DEF CloseNothing, TypeOK, Places, Unbegun, Owners
<1>10. ASSUME NEW p \in Proc, Prepare(p) PROVE Owners'
  BY <1>10 DEF Prepare, Call, TypeOK, Places, Unbegun, Owners
<1>11. ASSUME NEW p \in Proc, StmtClose(p) PROVE Owners'
  BY <1>11 DEF StmtClose, Call, TypeOK, Places, Unbegun, Owners
<1>12. ASSUME NEW p \in Proc, lockStmts(p) PROVE Owners'
  BY <1>12 DEF lockStmts, Goto, TypeOK, Places, Unbegun, Owners
<1>13. ASSUME NEW p \in Proc, BeforeQuery(p) PROVE Owners'
  BY <1>13 DEF BeforeQuery, After, Goto, TypeOK, Places, Unbegun, Owners
<1>14. ASSUME NEW p \in Proc, Get(p) PROVE Owners'
  BY <1>14 DEF Get, After, Goto, TypeOK, Places, Unbegun, Owners
<1>15. ASSUME NEW p \in Proc, Receive(p) PROVE Owners'
  BY <1>15 DEF Receive, After, Goto, TypeOK, Places, Unbegun, Owners
<1>16. ASSUME NEW p \in Proc, Uses(p) PROVE Owners'
  BY <1>16, UseReleases DEF Releases, Fails, After, Goto, TypeOK, Places,
    Unbegun, Owners
<1>17. ASSUME NEW p \in Proc, Prepared(p) PROVE Owners'
  BY <1>17 DEF Prepared, Goto, TypeOK, Places, Unbegun, Owners
<1>18. ASSUME NEW p \in Proc, Again(p) PROVE Owners'
  BY <1>18 DEF Again, Dies, Goto, TypeOK, Places, Unbegun, Owners
<1>19. ASSUME NEW p \in Proc, PrepareFails(p) PROVE Owners'
  BY <1>19 DEF PrepareFails, DropRef, Dies, Goto, TypeOK, Places, Unbegun,
    Owners
<1>20. ASSUME NEW p \in Proc, txClose(p) PROVE Owners'
  BY <1>20 DEF txClose, EndReturns, Goto, TypeOK, Places, Unbegun, Owners
<1>21. ASSUME NEW p \in Proc, closeStmts(p) PROVE Owners'
  BY <1>21 DEF closeStmts, TypeOK, Places, Unbegun, Owners
<1>22. ASSUME NEW p \in Proc, drop(p) PROVE Owners'
  BY <1>22 DEF drop, DropRef, Dies, Goto, TypeOK, Places, Unbegun, Owners
<1>23. ASSUME NEW p \in Proc, dropTx(p) PROVE Owners'
  BY <1>23 DEF dropTx, DropRef, Dies, EndReturns, Goto, TypeOK, Places,
    Unbegun, Owners
<1>24. CASE UNCHANGED vars
  BY <1>24 DEF vars, TypeOK, Places, Unbegun, Owners
<1>. QED
  BY <1>1, <1>2, <1>3, <1>4, <1>5, <1>6, <1>7, <1>8, <1>9, <1>10, <1>11,
     <1>12, <1>13, <1>14, <1>15, <1>16, <1>17, <1>18, <1>19, <1>20, <1>21,
     <1>22, <1>23, <1>24
     DEF Next, Begin, Method, GoesOn, Waits, Uses

-----------------------------------------------------------------------------
(* References.                                                              *)

LEMMA OwingFinite ==
  /\ IsFiniteSet(Owing) /\ Cardinality(Owing) \in Nat
  /\ \A p \in Owing : Cardinality(Owing \ {p}) = Cardinality(Owing) - 1
  /\ \A p \in Proc \ Owing : Cardinality(Owing \cup {p}) = Cardinality(Owing) + 1
<1>1. IsFiniteSet(Owing) /\ Cardinality(Owing) \in Nat
  BY FS_Subset, FS_CardinalityType DEF Owing
<1>2. \A p \in Owing : Cardinality(Owing \ {p}) = Cardinality(Owing) - 1
  BY <1>1, FS_RemoveElement
<1>3. \A p \in Proc \ Owing : Cardinality(Owing \cup {p}) = Cardinality(Owing) + 1
  BY <1>1, FS_AddElement
<1>. QED
  BY <1>1, <1>2, <1>3

\* Before tx.close nobody who gives a statement's reference back has the last
\* one.
LEMMA LastReference ==
  ASSUME TypeOK, Places, Unbegun, References, NEW p \in Owing, shared <= 1
  PROVE  begun = "yes" /\ (closed \/ tx.twice)
<1>1. begun = "yes"
  BY DEF Owing, Places, Unbegun
<1>2. Cardinality(Owing) - 1 \in Nat
  <2>1. IsFiniteSet(Owing \ {p})
    BY OwingFinite, FS_RemoveElement
  <2>. QED
    BY <2>1, OwingFinite, FS_CardinalityType
<1>3. open >= 0 /\ open \in Int /\ shared \in Int
  BY DEF TypeOK
<1>4. begun = "yes" /\ ~closed /\ ~tx.twice => shared = 1 + open + Cardinality(Owing)
  BY DEF References, RefCount
<1>. QED
  BY <1>1, <1>2, <1>3, <1>4, OwingFinite

LEMMA NextRefCount ==
  TypeOK /\ Places /\ Unbegun /\ Owners /\ RefCount /\ [Next]_vars
  => RefCount'
<1> SUFFICES ASSUME TypeOK, Places, Unbegun, Owners, RefCount, [Next]_vars
             PROVE  RefCount'
  OBVIOUS
<1>1. CASE BeginSucceeds
  <2>1. Owing' = {} /\ begun = "no"
    BY <1>1 DEF BeginSucceeds, Owing, Places, Unbegun
  <2>. QED
    BY <1>1, <2>1, FS_EmptySet DEF BeginSucceeds, Unbegun, RefCount
<1>2. CASE BeginRetries
  BY <1>2 DEF BeginRetries, TypeOK, Places, Unbegun, Owners, RefCount, Owing
<1>3. CASE BeginFails
  BY <1>3 DEF BeginFails, TypeOK, Places, Unbegun, Owners, RefCount, Owing
<1>4. CASE BeginAgain
  BY <1>4 DEF BeginAgain, Nothing, TypeOK, Places, Unbegun, Owners, RefCount,
    Owing
<1>5. ASSUME NEW p \in Proc, Exec(p) PROVE RefCount'
  <2>1. Owing' = Owing
    BY <1>5 DEF Exec, Call, Owing, TypeOK, Places
  <2>. QED
    BY <1>5, <2>1 DEF Exec, Call, RefCount, TypeOK
<1>6. ASSUME NEW p \in Proc, StmtExec(p) PROVE RefCount'
  <2>1. Owing' = Owing
    BY <1>6 DEF StmtExec, Call, Owing, TypeOK, Places
  <2>. QED
    BY <1>6, <2>1 DEF StmtExec, Call, RefCount, TypeOK
<1>7. ASSUME NEW p \in Proc, Commit(p) PROVE RefCount'
  <2>1. Owing' = Owing
    BY <1>7 DEF Commit, Call, Ends, Owing, TypeOK, Places
  <2>. QED
    BY <1>7, <2>1 DEF Commit, Call, Ends, RefCount, TypeOK
<1>8. ASSUME NEW p \in Proc, Rollback(p) PROVE RefCount'
  <2>1. Owing' = Owing
    BY <1>8 DEF Rollback, Call, Ends, Owing, TypeOK, Places
  <2>. QED
    BY <1>8, <2>1 DEF Rollback, Call, Ends, RefCount, TypeOK
<1>9. ASSUME NEW p \in Proc, CloseNothing(p) PROVE RefCount'
  <2>1. Owing' = Owing
    BY <1>9 DEF CloseNothing, Owing, TypeOK, Places
  <2>. QED
    BY <1>9, <2>1 DEF CloseNothing, RefCount, TypeOK
<1>10. ASSUME NEW p \in Proc, Prepare(p) PROVE RefCount'
  <2>1. Owing' = Owing
    BY <1>10 DEF Prepare, Call, Owing, TypeOK, Places
  <2>. QED
    BY <1>10, <2>1 DEF Prepare, Call, RefCount, TypeOK
<1>11. ASSUME NEW p \in Proc, StmtClose(p) PROVE RefCount'
  <2>1. p \notin Owing /\ Owing' = Owing \cup {p}
    BY <1>11 DEF StmtClose, Call, Owing, TypeOK, Places
  <2>. QED
    BY <1>11, <2>1, OwingFinite DEF StmtClose, Call, RefCount, TypeOK
<1>12. ASSUME NEW p \in Proc, lockStmts(p) PROVE RefCount'
  <2>1. p \notin Owing /\ Owing' = Owing \cup {p}
    BY <1>12 DEF lockStmts, Goto, Owing, TypeOK, Places
  <2>. QED
    BY <1>12, <2>1, OwingFinite DEF lockStmts, RefCount, TypeOK
<1>13. ASSUME NEW p \in Proc, BeforeQuery(p) PROVE RefCount'
  <2>1. Owing' = Owing
    BY <1>13 DEF BeforeQuery, After, Goto, Owing, TypeOK, Places
  <2>. QED
    BY <1>13, <2>1 DEF BeforeQuery, After, Goto, RefCount, TypeOK
<1>14. ASSUME NEW p \in Proc, Get(p) PROVE RefCount'
  <2>1. Owing' = Owing
    BY <1>14 DEF Get, After, Goto, Owing, TypeOK, Places
  <2>. QED
    BY <1>14, <2>1 DEF Get, After, Goto, RefCount, TypeOK
<1>15. ASSUME NEW p \in Proc, Receive(p) PROVE RefCount'
  <2>1. Owing' = Owing
    BY <1>15 DEF Receive, After, Goto, Owing, TypeOK, Places
  <2>. QED
    BY <1>15, <2>1 DEF Receive, After, Goto, RefCount, TypeOK
<1>16. ASSUME NEW p \in Proc, Uses(p) PROVE RefCount'
  <2>1. Owing' = Owing
    BY <1>16, UseReleases DEF Releases, Fails, After, Goto, Owing, TypeOK, Places
  <2>. QED
    BY <1>16, <2>1, UseReleases, UseHistory DEF Releases, RefCount
<1>17. ASSUME NEW p \in Proc, Prepared(p) PROVE RefCount'
  <2>1. p \in Owing /\ Owing' = Owing \ {p}
    BY <1>17 DEF Prepared, Goto, Owing, TypeOK, Places
  <2>2. shared' = shared /\ open' = open + 1 /\ UNCHANGED <<begun, closed, tx>>
    BY <1>17 DEF Prepared
  <2>. QED
    BY <2>1, <2>2, OwingFinite DEF RefCount, TypeOK
<1>18. ASSUME NEW p \in Proc, Again(p) PROVE RefCount'
  <2>1. Owing' = Owing
    BY <1>18 DEF Again, Dies, Goto, Owing, TypeOK, Places
  <2>. QED
    BY <1>18, <2>1 DEF Again, Dies, Goto, RefCount, TypeOK
<1>19. ASSUME NEW p \in Proc, PrepareFails(p) PROVE RefCount'
  <2>1. p \in Owing /\ Owing' = Owing \ {p}
    BY <1>19 DEF PrepareFails, Goto, Owing, TypeOK, Places
  <2>2. shared' = shared - 1 /\ open' = open /\ UNCHANGED <<begun, closed, tx>>
    BY <1>19 DEF PrepareFails, DropRef
  <2>. QED
    BY <2>1, <2>2, OwingFinite DEF RefCount, TypeOK
<1>20. ASSUME NEW p \in Proc, txClose(p) PROVE RefCount'
  BY <1>20 DEF txClose, EndReturns, Goto, TypeOK, Places, Unbegun, Owners,
    RefCount, Owing
<1>21. ASSUME NEW p \in Proc, closeStmts(p) PROVE RefCount'
  BY <1>21 DEF closeStmts, TypeOK, Places, Unbegun, Owners, RefCount, Owing
<1>22. ASSUME NEW p \in Proc, drop(p) PROVE RefCount'
  <2>1. CASE op[p] = "end"
    BY <1>22, <2>1 DEF drop, Places, Owners, RefCount
  <2>2. CASE op[p] # "end"
    <3>1. p \in Owing /\ Owing' = Owing \ {p}
      BY <1>22, <2>2 DEF drop, Goto, Owing, TypeOK, Places
    <3>2. shared' = shared - 1 /\ UNCHANGED <<open, begun, closed, tx>>
      BY <1>22 DEF drop, DropRef
    <3>. QED
      BY <3>1, <3>2, OwingFinite DEF RefCount, TypeOK
  <2>. QED
    BY <2>1, <2>2
<1>23. ASSUME NEW p \in Proc, dropTx(p) PROVE RefCount'
  BY <1>23 DEF dropTx, DropRef, Dies, EndReturns, Goto, TypeOK, Places,
    Unbegun, Owners, RefCount, Owing
<1>24. CASE UNCHANGED vars
  BY <1>24 DEF vars, TypeOK, Places, Unbegun, Owners, RefCount, Owing
<1>. QED
  BY <1>1, <1>2, <1>3, <1>4, <1>5, <1>6, <1>7, <1>8, <1>9, <1>10, <1>11,
     <1>12, <1>13, <1>14, <1>15, <1>16, <1>17, <1>18, <1>19, <1>20, <1>21,
     <1>22, <1>23, <1>24
     DEF Next, Begin, Method, GoesOn, Waits, Uses

LEMMA NextRefBounds ==
  TypeOK /\ Places /\ Unbegun /\ Owners /\ RefBounds /\ [Next]_vars
  => RefBounds'
<1> SUFFICES ASSUME TypeOK, Places, Unbegun, Owners, RefBounds, [Next]_vars
             PROVE  RefBounds'
  OBVIOUS
<1>1. CASE BeginSucceeds
  BY <1>1 DEF BeginSucceeds, TypeOK, Places, Unbegun, Owners, RefBounds,
    Dropped, InMaking
<1>2. CASE BeginRetries
  BY <1>2 DEF BeginRetries, TypeOK, Places, Unbegun, Owners, RefBounds,
    Dropped, InMaking
<1>3. CASE BeginFails
  BY <1>3 DEF BeginFails, TypeOK, Places, Unbegun, Owners, RefBounds,
    Dropped, InMaking
<1>4. CASE BeginAgain
  BY <1>4 DEF BeginAgain, Nothing, TypeOK, Places, Unbegun, Owners,
    RefBounds, Dropped, InMaking
<1>5. ASSUME NEW p \in Proc, Exec(p) PROVE RefBounds'
  BY <1>5 DEF Exec, Call, TypeOK, Places, Unbegun, Owners, RefBounds,
    Dropped, InMaking
<1>6. ASSUME NEW p \in Proc, StmtExec(p) PROVE RefBounds'
  BY <1>6 DEF StmtExec, Call, TypeOK, Places, Unbegun, Owners, RefBounds,
    Dropped, InMaking
<1>7. ASSUME NEW p \in Proc, Commit(p) PROVE RefBounds'
  BY <1>7 DEF Commit, Call, Ends, TypeOK, Places, Unbegun, Owners, RefBounds,
    Dropped, InMaking
<1>8. ASSUME NEW p \in Proc, Rollback(p) PROVE RefBounds'
  BY <1>8 DEF Rollback, Call, Ends, TypeOK, Places, Unbegun, Owners,
    RefBounds, Dropped, InMaking
<1>9. ASSUME NEW p \in Proc, CloseNothing(p) PROVE RefBounds'
  BY <1>9 DEF CloseNothing, TypeOK, Places, Unbegun, Owners, RefBounds,
    Dropped, InMaking
<1>10. ASSUME NEW p \in Proc, Prepare(p) PROVE RefBounds'
  BY <1>10 DEF Prepare, Call, TypeOK, Places, Unbegun, Owners, RefBounds,
    Dropped, InMaking
<1>11. ASSUME NEW p \in Proc, StmtClose(p) PROVE RefBounds'
  BY <1>11 DEF StmtClose, Call, TypeOK, Places, Unbegun, Owners, RefBounds,
    Dropped, InMaking
<1>12. ASSUME NEW p \in Proc, lockStmts(p) PROVE RefBounds'
  BY <1>12 DEF lockStmts, Goto, TypeOK, Places, Unbegun, Owners, RefBounds,
    Dropped, InMaking
<1>13. ASSUME NEW p \in Proc, BeforeQuery(p) PROVE RefBounds'
  BY <1>13 DEF BeforeQuery, After, Goto, TypeOK, Places, Unbegun, Owners,
    RefBounds, Dropped, InMaking
<1>14. ASSUME NEW p \in Proc, Get(p) PROVE RefBounds'
  BY <1>14 DEF Get, After, Goto, TypeOK, Places, Unbegun, Owners, RefBounds,
    Dropped, InMaking
<1>15. ASSUME NEW p \in Proc, Receive(p) PROVE RefBounds'
  BY <1>15 DEF Receive, After, Goto, TypeOK, Places, Unbegun, Owners,
    RefBounds, Dropped, InMaking
<1>16. ASSUME NEW p \in Proc, Uses(p) PROVE RefBounds'
  BY <1>16, UseReleases DEF Releases, Fails, After, Goto, TypeOK, Places,
    Unbegun, Owners, RefBounds, Dropped, InMaking
<1>17. ASSUME NEW p \in Proc, Prepared(p) PROVE RefBounds'
  BY <1>17 DEF Prepared, Goto, TypeOK, Places, Unbegun, Owners, RefBounds,
    Dropped, InMaking
<1>18. ASSUME NEW p \in Proc, Again(p) PROVE RefBounds'
  BY <1>18 DEF Again, Dies, Goto, TypeOK, Places, Unbegun, Owners, RefBounds,
    Dropped, InMaking
<1>19. ASSUME NEW p \in Proc, PrepareFails(p) PROVE RefBounds'
  BY <1>19 DEF PrepareFails, DropRef, Dies, Goto, TypeOK, Places, Unbegun,
    Owners, RefBounds, Dropped, InMaking
<1>20. ASSUME NEW p \in Proc, txClose(p) PROVE RefBounds'
  BY <1>20 DEF txClose, EndReturns, Goto, TypeOK, Places, Unbegun, Owners,
    RefBounds, Dropped, InMaking
<1>21. ASSUME NEW p \in Proc, closeStmts(p) PROVE RefBounds'
  BY <1>21 DEF closeStmts, TypeOK, Places, Unbegun, Owners, RefBounds,
    Dropped, InMaking
<1>22. ASSUME NEW p \in Proc, drop(p) PROVE RefBounds'
  BY <1>22 DEF drop, DropRef, Dies, Goto, TypeOK, Places, Unbegun, Owners,
    RefBounds, Dropped, InMaking
<1>23. ASSUME NEW p \in Proc, dropTx(p) PROVE RefBounds'
  BY <1>23 DEF dropTx, DropRef, Dies, EndReturns, Goto, TypeOK, Places,
    Unbegun, Owners, RefBounds, Dropped, InMaking
<1>24. CASE UNCHANGED vars
  BY <1>24 DEF vars, TypeOK, Places, Unbegun, Owners, RefBounds, Dropped,
    InMaking
<1>. QED
  BY <1>1, <1>2, <1>3, <1>4, <1>5, <1>6, <1>7, <1>8, <1>9, <1>10, <1>11,
     <1>12, <1>13, <1>14, <1>15, <1>16, <1>17, <1>18, <1>19, <1>20, <1>21,
     <1>22, <1>23, <1>24
     DEF Next, Begin, Method, GoesOn, Waits, Uses

-----------------------------------------------------------------------------
(* The end of the transaction.                                              *)

LEMMA NextEnding ==
  TypeOK /\ Places /\ Unbegun /\ Owners /\ References /\ Ending /\
    [Next]_vars
  => Ending'
<1> SUFFICES ASSUME TypeOK, Places, Unbegun, Owners, References, Ending,
                    [Next]_vars
             PROVE  Ending'
  OBVIOUS
<1>1. CASE BeginSucceeds
  BY <1>1 DEF BeginSucceeds, TypeOK, Places, Unbegun, Owners, Ended, Ending
<1>2. CASE BeginRetries
  BY <1>2 DEF BeginRetries, TypeOK, Places, Unbegun, Owners, Ended, Ending
<1>3. CASE BeginFails
  BY <1>3 DEF BeginFails, TypeOK, Places, Unbegun, Owners, Ended, Ending
<1>4. CASE BeginAgain
  BY <1>4 DEF BeginAgain, Nothing, TypeOK, Places, Unbegun, Owners, Ended,
    Ending
<1>5. ASSUME NEW p \in Proc, Exec(p) PROVE Ending'
  BY <1>5 DEF Exec, Call, TypeOK, Places, Unbegun, Owners, Ended, Ending
<1>6. ASSUME NEW p \in Proc, StmtExec(p) PROVE Ending'
  BY <1>6 DEF StmtExec, Call, TypeOK, Places, Unbegun, Owners, Ended, Ending
<1>7. ASSUME NEW p \in Proc, Commit(p) PROVE Ending'
  BY <1>7 DEF Commit, Call, Ends, TypeOK, Places, Unbegun, Owners, Ended,
    Ending
<1>8. ASSUME NEW p \in Proc, Rollback(p) PROVE Ending'
  BY <1>8 DEF Rollback, Call, Ends, TypeOK, Places, Unbegun, Owners, Ended,
    Ending
<1>9. ASSUME NEW p \in Proc, CloseNothing(p) PROVE Ending'
  BY <1>9 DEF CloseNothing, TypeOK, Places, Unbegun, Owners, Ended, Ending
<1>10. ASSUME NEW p \in Proc, Prepare(p) PROVE Ending'
  BY <1>10 DEF Prepare, Call, TypeOK, Places, Unbegun, Owners, Ended, Ending
<1>11. ASSUME NEW p \in Proc, StmtClose(p) PROVE Ending'
  BY <1>11 DEF StmtClose, Call, TypeOK, Places, Unbegun, Owners, Ended,
    Ending
<1>12. ASSUME NEW p \in Proc, lockStmts(p) PROVE Ending'
  BY <1>12 DEF lockStmts, Goto, TypeOK, Places, Unbegun, Owners, Ended,
    Ending
<1>13. ASSUME NEW p \in Proc, BeforeQuery(p) PROVE Ending'
  <2>1. CASE Goto(p, "get") /\ UNCHANGED tx
    BY <1>13, <2>1 DEF BeforeQuery, Goto, TypeOK, Places, Unbegun, Owners, Ended,
       Ending
  <2>2. CASE Goto(p, After(p, FALSE)) /\ tx' = [tx EXCEPT !.hook = @ \/ op[p] = "end"]
    <3>0. /\ tx' = [tx EXCEPT !.hook = tx.hook \/ op[p] = "end"] /\ tx \in Happened
          /\ UNCHANGED <<begun, poolVars, closed, srv>>
      BY <1>13, <2>2 DEF BeforeQuery, TypeOK
    <3>1. CASE op[p] = "end"
      <4>1. tx'.hook
        BY <3>0, <3>1
      <4>. QED
        BY <3>0, <4>1 DEF Ending
    <3>2. CASE op[p] # "end"
      <4>1. /\ tx'.hook = tx.hook /\ tx'.twice = tx.twice
            /\ tx'.unmarked = tx.unmarked
        BY <3>0, <3>2
      <4>2. After(p, FALSE) = "idle"
        BY <1>13, <3>2 DEF BeforeQuery, After, TypeOK, Places
      <4>. QED
        BY <2>2, <3>0, <4>1, <4>2 DEF Goto, TypeOK, Ended, Ending
    <3>. QED
      BY <3>1, <3>2
  <2>. QED
    BY <1>13, <2>1, <2>2 DEF BeforeQuery
<1>14. ASSUME NEW p \in Proc, Get(p) PROVE Ending'
  BY <1>14 DEF Get, After, Goto, TypeOK, Places, Unbegun, Owners, Ended,
    Ending
<1>15. ASSUME NEW p \in Proc, Receive(p) PROVE Ending'
  BY <1>15 DEF Receive, After, Goto, TypeOK, Places, Unbegun, Owners, Ended,
    Ending
<1>16. ASSUME NEW p \in Proc, Uses(p) PROVE Ending'
  <2>1. StateTypes
    BY TypesSplit
  <2>. QED
    BY <1>16, <2>1, UseReleases, UseServer, UseHistory
       DEF Releases, Fails, After, Goto, TypeOK, Places, Unbegun, Owners,
           Ended, Ending
<1>17. ASSUME NEW p \in Proc, Prepared(p) PROVE Ending'
  BY <1>17 DEF Prepared, Goto, TypeOK, Places, Unbegun, Owners, Ended, Ending
<1>18. ASSUME NEW p \in Proc, Again(p) PROVE Ending'
  BY <1>18 DEF Again, Dies, Goto, TypeOK, Places, Unbegun, Owners, Ended,
    Ending
<1>19. ASSUME NEW p \in Proc, PrepareFails(p) PROVE Ending'
  <2>1. CASE shared <= 1 /\ op[p] # "end"
    <3>1. begun = "yes" /\ (closed \/ tx.twice)
      <4>1. p \in Owing
        BY <1>19, <2>1 DEF PrepareFails, Owing, Places, TypeOK
      <4>. QED
        BY <2>1, <4>1, LastReference
    <3>. QED
      BY <1>19, <2>1, <3>1
         DEF PrepareFails, DropRef, Dies, Goto, TypeOK, Places, Owners, Ended, Ending
  <2>2. CASE shared > 1 \/ op[p] = "end"
    BY <1>19, <2>2
       DEF PrepareFails, DropRef, Dies, Goto, TypeOK, Places, Unbegun, Owners,
           Ended, Ending
  <2>. QED
    BY <2>1, <2>2 DEF TypeOK
<1>20. ASSUME NEW p \in Proc, txClose(p) PROVE Ending'
  BY <1>20 DEF txClose, EndReturns, Goto, TypeOK, Places, Unbegun, Owners,
    Ended, Ending
<1>21. ASSUME NEW p \in Proc, closeStmts(p) PROVE Ending'
  BY <1>21 DEF closeStmts, TypeOK, Places, Unbegun, Owners, Ended, Ending
<1>22. ASSUME NEW p \in Proc, drop(p) PROVE Ending'
  <2>1. CASE shared <= 1 /\ op[p] # "end"
    <3>1. begun = "yes" /\ (closed \/ tx.twice)
      <4>1. p \in Owing
        BY <1>22, <2>1 DEF drop, Owing, Places, TypeOK
      <4>. QED
        BY <2>1, <4>1, LastReference
    <3>. QED
      BY <1>22, <2>1, <3>1
         DEF drop, DropRef, Dies, Goto, TypeOK, Places, Owners, Ended, Ending
  <2>2. CASE shared > 1 \/ op[p] = "end"
    BY <1>22, <2>2
       DEF drop, DropRef, Dies, Goto, TypeOK, Places, Unbegun, Owners,
           Ended, Ending
  <2>. QED
    BY <2>1, <2>2 DEF TypeOK
<1>23. ASSUME NEW p \in Proc, dropTx(p) PROVE Ending'
  BY <1>23 DEF dropTx, DropRef, Dies, EndReturns, Goto, TypeOK, Places,
    Unbegun, Owners, Ended, Ending
<1>24. CASE UNCHANGED vars
  BY <1>24 DEF vars, TypeOK, Places, Unbegun, Owners, Ended, Ending
<1>. QED
  BY <1>1, <1>2, <1>3, <1>4, <1>5, <1>6, <1>7, <1>8, <1>9, <1>10, <1>11,
     <1>12, <1>13, <1>14, <1>15, <1>16, <1>17, <1>18, <1>19, <1>20, <1>21,
     <1>22, <1>23, <1>24
     DEF Next, Begin, Method, GoesOn, Waits, Uses

\* The call of Commit or Rollback.
LEMMA EndsHistory ==
  ASSUME TypeOK, Ends
  PROVE  /\ tx'.told = tx.told
         /\ tx.ends = "none" => tx'.ends = "one" /\ tx'.spoilt = tx.spoilt
         /\ tx.ends # "none" => tx'.ends = "more" /\ tx'.spoilt
<1>1. tx \in Happened /\ tx' = [tx EXCEPT !.ends = IF tx.ends = "none" THEN "one" ELSE "more",
                                         !.spoilt = tx.spoilt \/ tx.ends # "none"]
  BY DEF TypeOK, Ends
<1>2. CASE tx.ends = "none"
  BY <1>1, <1>2
<1>3. CASE tx.ends # "none"
  BY <1>1, <1>3
<1>. QED
  BY <1>2, <1>3

LEMMA NextCommitting ==
  TypeOK /\ Places /\ Unbegun /\ Owners /\ Committing /\ [Next]_vars
  => Committing'
<1> SUFFICES ASSUME TypeOK, Places, Unbegun, Owners, Committing, [Next]_vars
             PROVE  Committing'
  OBVIOUS
<1>1. CASE BeginSucceeds
  BY <1>1 DEF BeginSucceeds, TypeOK, Places, Unbegun, Owners, Committing,
    Before, Away
<1>2. CASE BeginRetries
  BY <1>2 DEF BeginRetries, TypeOK, Places, Unbegun, Owners, Committing,
    Before, Away
<1>3. CASE BeginFails
  BY <1>3 DEF BeginFails, TypeOK, Places, Unbegun, Owners, Committing,
    Before, Away
<1>4. CASE BeginAgain
  BY <1>4 DEF BeginAgain, Nothing, TypeOK, Places, Unbegun, Owners,
    Committing, Before, Away
<1>5. ASSUME NEW p \in Proc, Exec(p) PROVE Committing'
  BY <1>5 DEF Exec, Call, TypeOK, Places, Unbegun, Owners, Committing,
    Before, Away
<1>6. ASSUME NEW p \in Proc, StmtExec(p) PROVE Committing'
  BY <1>6 DEF StmtExec, Call, TypeOK, Places, Unbegun, Owners, Committing,
    Before, Away
<1>7. ASSUME NEW p \in Proc, Commit(p) PROVE Committing'
  <2>1. CASE tx.ends = "none"
    BY <1>7, <2>1, EndsHistory DEF Commit, Call, TypeOK, Places, Unbegun, Owners,
       Committing, Before, Away
  <2>2. CASE tx.ends # "none"
    <3>1. tx'.ends = "more" /\ tx'.spoilt
      BY <1>7, <2>2, EndsHistory DEF Commit
    <3>. QED
      BY <3>1 DEF Committing
  <2>. QED
    BY <2>1, <2>2
<1>8. ASSUME NEW p \in Proc, Rollback(p) PROVE Committing'
  <2>1. CASE tx.ends = "none"
    BY <1>8, <2>1, EndsHistory DEF Rollback, Call, TypeOK, Places, Unbegun, Owners,
       Committing, Before, Away
  <2>2. CASE tx.ends # "none"
    <3>1. tx'.ends = "more" /\ tx'.spoilt
      BY <1>8, <2>2, EndsHistory DEF Rollback
    <3>. QED
      BY <3>1 DEF Committing
  <2>. QED
    BY <2>1, <2>2
<1>9. ASSUME NEW p \in Proc, CloseNothing(p) PROVE Committing'
  BY <1>9 DEF CloseNothing, TypeOK, Places, Unbegun, Owners, Committing,
    Before, Away
<1>10. ASSUME NEW p \in Proc, Prepare(p) PROVE Committing'
  BY <1>10 DEF Prepare, Call, TypeOK, Places, Unbegun, Owners, Committing,
    Before, Away
<1>11. ASSUME NEW p \in Proc, StmtClose(p) PROVE Committing'
  BY <1>11 DEF StmtClose, Call, TypeOK, Places, Unbegun, Owners, Committing,
    Before, Away
<1>12. ASSUME NEW p \in Proc, lockStmts(p) PROVE Committing'
  BY <1>12 DEF lockStmts, Goto, TypeOK, Places, Unbegun, Owners, Committing,
    Before, Away
<1>13. ASSUME NEW p \in Proc, BeforeQuery(p) PROVE Committing'
  BY <1>13 DEF BeforeQuery, After, Goto, TypeOK, Places, Unbegun, Owners,
    Committing, Before, Away
<1>14. ASSUME NEW p \in Proc, Get(p) PROVE Committing'
  BY <1>14 DEF Get, After, Goto, TypeOK, Places, Unbegun, Owners, Committing,
    Before, Away
<1>15. ASSUME NEW p \in Proc, Receive(p) PROVE Committing'
  BY <1>15 DEF Receive, After, Goto, TypeOK, Places, Unbegun, Owners,
    Committing, Before, Away
<1>16. ASSUME NEW p \in Proc, Uses(p) PROVE Committing'
  <2>1. StateTypes
    BY TypesSplit
  <2>. QED
    BY <1>16, <2>1, UseReleases, UseHistory, UseUnspoilt
       DEF Releases, Fails, After, Goto, Executed, TypeOK, Places, Unbegun,
           Owners, Committing, Before, Away
<1>17. ASSUME NEW p \in Proc, Prepared(p) PROVE Committing'
  BY <1>17 DEF Prepared, Goto, TypeOK, Places, Unbegun, Owners, Committing,
    Before, Away
<1>18. ASSUME NEW p \in Proc, Again(p) PROVE Committing'
  BY <1>18 DEF Again, Dies, Goto, TypeOK, Places, Unbegun, Owners,
    Committing, Before, Away
<1>19. ASSUME NEW p \in Proc, PrepareFails(p) PROVE Committing'
  BY <1>19 DEF PrepareFails, DropRef, Dies, Goto, TypeOK, Places, Unbegun,
    Owners, Committing, Before, Away
<1>20. ASSUME NEW p \in Proc, txClose(p) PROVE Committing'
  BY <1>20 DEF txClose, EndReturns, Goto, TypeOK, Places, Unbegun, Owners,
    Committing, Before, Away
<1>21. ASSUME NEW p \in Proc, closeStmts(p) PROVE Committing'
  BY <1>21 DEF closeStmts, TypeOK, Places, Unbegun, Owners, Committing,
    Before, Away
<1>22. ASSUME NEW p \in Proc, drop(p) PROVE Committing'
  BY <1>22 DEF drop, DropRef, Dies, Goto, TypeOK, Places, Unbegun, Owners,
    Committing, Before, Away
<1>23. ASSUME NEW p \in Proc, dropTx(p) PROVE Committing'
  BY <1>23 DEF dropTx, DropRef, Dies, EndReturns, Goto, TypeOK, Places,
    Unbegun, Owners, Committing, Before, Away
<1>24. CASE UNCHANGED vars
  BY <1>24 DEF vars, TypeOK, Places, Unbegun, Owners, Committing, Before,
    Away
<1>. QED
  BY <1>1, <1>2, <1>3, <1>4, <1>5, <1>6, <1>7, <1>8, <1>9, <1>10, <1>11,
     <1>12, <1>13, <1>14, <1>15, <1>16, <1>17, <1>18, <1>19, <1>20, <1>21,
     <1>22, <1>23, <1>24
     DEF Next, Begin, Method, GoesOn, Waits, Uses

LEMMA NextCommitTold ==
  TypeOK /\ Places /\ Unbegun /\ Owners /\ Committing /\ CommitTold /\
    [Next]_vars
  => CommitTold'
<1> SUFFICES ASSUME TypeOK, Places, Unbegun, Owners, Committing, CommitTold,
                    [Next]_vars
             PROVE  CommitTold'
  OBVIOUS
<1>1. CASE BeginSucceeds
  BY <1>1 DEF BeginSucceeds, TypeOK, Places, Unbegun, Owners, Committing,
    Before, Away, CommitTold
<1>2. CASE BeginRetries
  BY <1>2 DEF BeginRetries, TypeOK, Places, Unbegun, Owners, Committing,
    Before, Away, CommitTold
<1>3. CASE BeginFails
  BY <1>3 DEF BeginFails, TypeOK, Places, Unbegun, Owners, Committing,
    Before, Away, CommitTold
<1>4. CASE BeginAgain
  BY <1>4 DEF BeginAgain, Nothing, TypeOK, Places, Unbegun, Owners,
    Committing, Before, Away, CommitTold
<1>5. ASSUME NEW p \in Proc, Exec(p) PROVE CommitTold'
  BY <1>5 DEF Exec, Call, TypeOK, Places, Unbegun, Owners, Committing,
    Before, Away, CommitTold
<1>6. ASSUME NEW p \in Proc, StmtExec(p) PROVE CommitTold'
  BY <1>6 DEF StmtExec, Call, TypeOK, Places, Unbegun, Owners, Committing,
    Before, Away, CommitTold
<1>7. ASSUME NEW p \in Proc, Commit(p) PROVE CommitTold'
  BY <1>7 DEF Commit, Call, Ends, TypeOK, Places, Unbegun, Owners,
    Committing, Before, Away, CommitTold
<1>8. ASSUME NEW p \in Proc, Rollback(p) PROVE CommitTold'
  BY <1>8 DEF Rollback, Call, Ends, TypeOK, Places, Unbegun, Owners,
    Committing, Before, Away, CommitTold
<1>9. ASSUME NEW p \in Proc, CloseNothing(p) PROVE CommitTold'
  BY <1>9 DEF CloseNothing, TypeOK, Places, Unbegun, Owners, Committing,
    Before, Away, CommitTold
<1>10. ASSUME NEW p \in Proc, Prepare(p) PROVE CommitTold'
  BY <1>10 DEF Prepare, Call, TypeOK, Places, Unbegun, Owners, Committing,
    Before, Away, CommitTold
<1>11. ASSUME NEW p \in Proc, StmtClose(p) PROVE CommitTold'
  BY <1>11 DEF StmtClose, Call, TypeOK, Places, Unbegun, Owners, Committing,
    Before, Away, CommitTold
<1>12. ASSUME NEW p \in Proc, lockStmts(p) PROVE CommitTold'
  BY <1>12 DEF lockStmts, Goto, TypeOK, Places, Unbegun, Owners, Committing,
    Before, Away, CommitTold
<1>13. ASSUME NEW p \in Proc, BeforeQuery(p) PROVE CommitTold'
  BY <1>13 DEF BeforeQuery, After, Goto, TypeOK, Places, Unbegun, Owners,
    Committing, Before, Away, CommitTold
<1>14. ASSUME NEW p \in Proc, Get(p) PROVE CommitTold'
  BY <1>14 DEF Get, After, Goto, TypeOK, Places, Unbegun, Owners, Committing,
    Before, Away, CommitTold
<1>15. ASSUME NEW p \in Proc, Receive(p) PROVE CommitTold'
  BY <1>15 DEF Receive, After, Goto, TypeOK, Places, Unbegun, Owners,
    Committing, Before, Away, CommitTold
<1>16. ASSUME NEW p \in Proc, Uses(p) PROVE CommitTold'
  <2> SUFFICES ASSUME tx'.told PROVE srv' = "committed"
    BY DEF CommitTold
  <2>1. CASE tx.told
    <3>1. StateTypes /\ srv = "committed"
      BY <2>1, TypesSplit DEF CommitTold
    <3>. QED
      BY <1>16, <3>1, UseServer
  <2>2. CASE ~tx.told
    <3>1. query[p] = "commit" /\ ~tx.spoilt
      BY <1>16, <2>2, UseUnspoilt
    <3>2. pc[p] = "using" /\ holder = p /\ op[p] = "end" /\ begun = "yes"
      BY <1>16, <3>1, UseReleases DEF Releases, TypeOK, Places, Unbegun, Owners
    <3>3. conn = "good" /\ wire = "clean"
      BY <3>1, <3>2 DEF Committing, Away
    <3>4. srv' = Executed("commit")
      BY <1>16, <2>2, <3>1, <3>3, UseUnspoilt
    <3>5. tx.ends = "one"
      BY <3>1, <3>2 DEF TypeOK, Committing
    <3>6. srv = "open"
      BY <3>1, <3>2, <3>5 DEF Committing, Before, Away
    <3>. QED
      BY <3>4, <3>6 DEF Executed
  <2>. QED
    BY <2>1, <2>2
<1>17. ASSUME NEW p \in Proc, Prepared(p) PROVE CommitTold'
  BY <1>17 DEF Prepared, Goto, TypeOK, Places, Unbegun, Owners, Committing,
    Before, Away, CommitTold
<1>18. ASSUME NEW p \in Proc, Again(p) PROVE CommitTold'
  BY <1>18 DEF Again, Dies, Goto, TypeOK, Places, Unbegun, Owners,
    Committing, Before, Away, CommitTold
<1>19. ASSUME NEW p \in Proc, PrepareFails(p) PROVE CommitTold'
  BY <1>19 DEF PrepareFails, DropRef, Dies, Goto, TypeOK, Places, Unbegun,
    Owners, Committing, Before, Away, CommitTold
<1>20. ASSUME NEW p \in Proc, txClose(p) PROVE CommitTold'
  BY <1>20 DEF txClose, EndReturns, Goto, TypeOK, Places, Unbegun, Owners,
    Committing, Before, Away, CommitTold
<1>21. ASSUME NEW p \in Proc, closeStmts(p) PROVE CommitTold'
  BY <1>21 DEF closeStmts, TypeOK, Places, Unbegun, Owners, Committing,
    Before, Away, CommitTold
<1>22. ASSUME NEW p \in Proc, drop(p) PROVE CommitTold'
  BY <1>22 DEF drop, DropRef, Dies, Goto, TypeOK, Places, Unbegun, Owners,
    Committing, Before, Away, CommitTold
<1>23. ASSUME NEW p \in Proc, dropTx(p) PROVE CommitTold'
  BY <1>23 DEF dropTx, DropRef, Dies, EndReturns, Goto, TypeOK, Places,
    Unbegun, Owners, Committing, Before, Away, CommitTold
<1>24. CASE UNCHANGED vars
  BY <1>24 DEF vars, TypeOK, Places, Unbegun, Owners, Committing, Before,
    Away, CommitTold
<1>. QED
  BY <1>1, <1>2, <1>3, <1>4, <1>5, <1>6, <1>7, <1>8, <1>9, <1>10, <1>11,
     <1>12, <1>13, <1>14, <1>15, <1>16, <1>17, <1>18, <1>19, <1>20, <1>21,
     <1>22, <1>23, <1>24
     DEF Next, Begin, Method, GoesOn, Waits, Uses

LEMMA NextLateness ==
  TypeOK /\ Places /\ Unbegun /\ Owners /\ RefBounds /\ Committing /\
    Lateness /\ [Next]_vars
  => Lateness'
<1> SUFFICES ASSUME TypeOK, Places, Unbegun, Owners, RefBounds, Committing,
                    Lateness, [Next]_vars
             PROVE  Lateness'
  OBVIOUS
<1>1. CASE BeginSucceeds
  BY <1>1 DEF BeginSucceeds, TypeOK, Places, Unbegun, Owners, RefBounds,
    Dropped, Committing, Lateness, Before
<1>2. CASE BeginRetries
  BY <1>2 DEF BeginRetries, TypeOK, Places, Unbegun, Owners, RefBounds,
    Dropped, Committing, Lateness, Before
<1>3. CASE BeginFails
  BY <1>3 DEF BeginFails, TypeOK, Places, Unbegun, Owners, RefBounds,
    Dropped, Committing, Lateness, Before
<1>4. CASE BeginAgain
  BY <1>4 DEF BeginAgain, Nothing, TypeOK, Places, Unbegun, Owners,
    RefBounds, Dropped, Committing, Lateness, Before
<1>5. ASSUME NEW p \in Proc, Exec(p) PROVE Lateness'
  BY <1>5 DEF Exec, Call, TypeOK, Places, Unbegun, Owners, RefBounds,
    Dropped, Committing, Lateness, Before
<1>6. ASSUME NEW p \in Proc, StmtExec(p) PROVE Lateness'
  BY <1>6 DEF StmtExec, Call, TypeOK, Places, Unbegun, Owners, RefBounds,
    Dropped, Committing, Lateness, Before
<1>7. ASSUME NEW p \in Proc, Commit(p) PROVE Lateness'
  BY <1>7 DEF Commit, Call, Ends, TypeOK, Places, Unbegun, Owners, RefBounds,
    Dropped, Committing, Lateness, Before
<1>8. ASSUME NEW p \in Proc, Rollback(p) PROVE Lateness'
  BY <1>8 DEF Rollback, Call, Ends, TypeOK, Places, Unbegun, Owners,
    RefBounds, Dropped, Committing, Lateness, Before
<1>9. ASSUME NEW p \in Proc, CloseNothing(p) PROVE Lateness'
  BY <1>9 DEF CloseNothing, TypeOK, Places, Unbegun, Owners, RefBounds,
    Dropped, Committing, Lateness, Before
<1>10. ASSUME NEW p \in Proc, Prepare(p) PROVE Lateness'
  BY <1>10 DEF Prepare, Call, TypeOK, Places, Unbegun, Owners, RefBounds,
    Dropped, Committing, Lateness, Before
<1>11. ASSUME NEW p \in Proc, StmtClose(p) PROVE Lateness'
  BY <1>11 DEF StmtClose, Call, TypeOK, Places, Unbegun, Owners, RefBounds,
    Dropped, Committing, Lateness, Before
<1>12. ASSUME NEW p \in Proc, lockStmts(p) PROVE Lateness'
  BY <1>12 DEF lockStmts, Goto, TypeOK, Places, Unbegun, Owners, RefBounds,
    Dropped, Committing, Lateness, Before
<1>13. ASSUME NEW p \in Proc, BeforeQuery(p) PROVE Lateness'
  BY <1>13 DEF BeforeQuery, After, Goto, TypeOK, Places, Unbegun, Owners,
    RefBounds, Dropped, Committing, Lateness, Before
<1>14. ASSUME NEW p \in Proc, Get(p) PROVE Lateness'
  BY <1>14 DEF Get, After, Goto, TypeOK, Places, Unbegun, Owners, RefBounds,
    Dropped, Committing, Lateness, Before
<1>15. ASSUME NEW p \in Proc, Receive(p) PROVE Lateness'
  BY <1>15 DEF Receive, After, Goto, TypeOK, Places, Unbegun, Owners,
    RefBounds, Dropped, Committing, Lateness, Before
<1>16. ASSUME NEW p \in Proc, Uses(p) PROVE Lateness'
  BY <1>16, UseReleases, UseHistory DEF Releases, Fails, After, Goto, TypeOK,
    Places, Unbegun, Owners, RefBounds, Dropped, Committing, Lateness, Before
<1>17. ASSUME NEW p \in Proc, Prepared(p) PROVE Lateness'
  BY <1>17 DEF Prepared, Goto, TypeOK, Places, Unbegun, Owners, RefBounds,
    Dropped, Committing, Lateness, Before
<1>18. ASSUME NEW p \in Proc, Again(p) PROVE Lateness'
  BY <1>18 DEF Again, Dies, Goto, TypeOK, Places, Unbegun, Owners, RefBounds,
    Dropped, Committing, Lateness, Before
<1>19. ASSUME NEW p \in Proc, PrepareFails(p) PROVE Lateness'
  BY <1>19 DEF PrepareFails, DropRef, Dies, Goto, TypeOK, Places, Unbegun,
    Owners, RefBounds, Dropped, Committing, Lateness, Before
<1>20. ASSUME NEW p \in Proc, txClose(p) PROVE Lateness'
  BY <1>20 DEF txClose, EndReturns, Goto, TypeOK, Places, Unbegun, Owners,
    RefBounds, Dropped, Committing, Lateness, Before
<1>21. ASSUME NEW p \in Proc, closeStmts(p) PROVE Lateness'
  BY <1>21 DEF closeStmts, TypeOK, Places, Unbegun, Owners, RefBounds,
    Dropped, Committing, Lateness, Before
<1>22. ASSUME NEW p \in Proc, drop(p) PROVE Lateness'
  BY <1>22 DEF drop, DropRef, Dies, Goto, TypeOK, Places, Unbegun, Owners,
    RefBounds, Dropped, Committing, Lateness, Before
<1>23. ASSUME NEW p \in Proc, dropTx(p) PROVE Lateness'
  BY <1>23 DEF dropTx, DropRef, Dies, EndReturns, Goto, TypeOK, Places,
    Unbegun, Owners, RefBounds, Dropped, Committing, Lateness, Before
<1>24. CASE UNCHANGED vars
  BY <1>24 DEF vars, TypeOK, Places, Unbegun, Owners, RefBounds, Dropped,
    Committing, Lateness, Before
<1>. QED
  BY <1>1, <1>2, <1>3, <1>4, <1>5, <1>6, <1>7, <1>8, <1>9, <1>10, <1>11,
     <1>12, <1>13, <1>14, <1>15, <1>16, <1>17, <1>18, <1>19, <1>20, <1>21,
     <1>22, <1>23, <1>24
     DEF Next, Begin, Method, GoesOn, Waits, Uses

LEMMA NextLateFails ==
  TypeOK /\ Places /\ Unbegun /\ Owners /\ Lateness /\ LateFails /\
    [Next]_vars
  => LateFails'
<1> SUFFICES ASSUME TypeOK, Places, Unbegun, Owners, Lateness, LateFails,
                    [Next]_vars
             PROVE  LateFails'
  OBVIOUS
<1>1. CASE BeginSucceeds
  BY <1>1 DEF BeginSucceeds, TypeOK, Places, Unbegun, Owners, Lateness,
    LateFails
<1>2. CASE BeginRetries
  BY <1>2 DEF BeginRetries, TypeOK, Places, Unbegun, Owners, Lateness,
    LateFails
<1>3. CASE BeginFails
  BY <1>3 DEF BeginFails, TypeOK, Places, Unbegun, Owners, Lateness,
    LateFails
<1>4. CASE BeginAgain
  BY <1>4 DEF BeginAgain, Nothing, TypeOK, Places, Unbegun, Owners, Lateness,
    LateFails
<1>5. ASSUME NEW p \in Proc, Exec(p) PROVE LateFails'
  BY <1>5 DEF Exec, Call, TypeOK, Places, Unbegun, Owners, Lateness,
    LateFails
<1>6. ASSUME NEW p \in Proc, StmtExec(p) PROVE LateFails'
  BY <1>6 DEF StmtExec, Call, TypeOK, Places, Unbegun, Owners, Lateness,
    LateFails
<1>7. ASSUME NEW p \in Proc, Commit(p) PROVE LateFails'
  BY <1>7 DEF Commit, Call, Ends, TypeOK, Places, Unbegun, Owners, Lateness,
    LateFails
<1>8. ASSUME NEW p \in Proc, Rollback(p) PROVE LateFails'
  BY <1>8 DEF Rollback, Call, Ends, TypeOK, Places, Unbegun, Owners,
    Lateness, LateFails
<1>9. ASSUME NEW p \in Proc, CloseNothing(p) PROVE LateFails'
  BY <1>9 DEF CloseNothing, TypeOK, Places, Unbegun, Owners, Lateness,
    LateFails
<1>10. ASSUME NEW p \in Proc, Prepare(p) PROVE LateFails'
  BY <1>10 DEF Prepare, Call, TypeOK, Places, Unbegun, Owners, Lateness,
    LateFails
<1>11. ASSUME NEW p \in Proc, StmtClose(p) PROVE LateFails'
  BY <1>11 DEF StmtClose, Call, TypeOK, Places, Unbegun, Owners, Lateness,
    LateFails
<1>12. ASSUME NEW p \in Proc, lockStmts(p) PROVE LateFails'
  BY <1>12 DEF lockStmts, Goto, TypeOK, Places, Unbegun, Owners, Lateness,
    LateFails
<1>13. ASSUME NEW p \in Proc, BeforeQuery(p) PROVE LateFails'
  BY <1>13 DEF BeforeQuery, After, Goto, TypeOK, Places, Unbegun, Owners,
    Lateness, LateFails
<1>14. ASSUME NEW p \in Proc, Get(p) PROVE LateFails'
  BY <1>14 DEF Get, After, Goto, TypeOK, Places, Unbegun, Owners, Lateness,
    LateFails
<1>15. ASSUME NEW p \in Proc, Receive(p) PROVE LateFails'
  BY <1>15 DEF Receive, After, Goto, TypeOK, Places, Unbegun, Owners,
    Lateness, LateFails
<1>16. ASSUME NEW p \in Proc, Uses(p) PROVE LateFails'
  BY <1>16, UseReleases, UseHistory DEF Releases, Effect, TypeOK, Lateness, LateFails
<1>17. ASSUME NEW p \in Proc, Prepared(p) PROVE LateFails'
  BY <1>17 DEF Prepared, Goto, TypeOK, Places, Unbegun, Owners, Lateness,
    LateFails
<1>18. ASSUME NEW p \in Proc, Again(p) PROVE LateFails'
  BY <1>18 DEF Again, Dies, Goto, TypeOK, Places, Unbegun, Owners, Lateness,
    LateFails
<1>19. ASSUME NEW p \in Proc, PrepareFails(p) PROVE LateFails'
  BY <1>19 DEF PrepareFails, DropRef, Dies, Goto, TypeOK, Places, Unbegun,
    Owners, Lateness, LateFails
<1>20. ASSUME NEW p \in Proc, txClose(p) PROVE LateFails'
  BY <1>20 DEF txClose, EndReturns, Goto, TypeOK, Places, Unbegun, Owners,
    Lateness, LateFails
<1>21. ASSUME NEW p \in Proc, closeStmts(p) PROVE LateFails'
  BY <1>21 DEF closeStmts, TypeOK, Places, Unbegun, Owners, Lateness,
    LateFails
<1>22. ASSUME NEW p \in Proc, drop(p) PROVE LateFails'
  BY <1>22 DEF drop, DropRef, Dies, Goto, TypeOK, Places, Unbegun, Owners,
    Lateness, LateFails
<1>23. ASSUME NEW p \in Proc, dropTx(p) PROVE LateFails'
  BY <1>23 DEF dropTx, DropRef, Dies, EndReturns, Goto, TypeOK, Places,
    Unbegun, Owners, Lateness, LateFails
<1>24. CASE UNCHANGED vars
  BY <1>24 DEF vars, TypeOK, Places, Unbegun, Owners, Lateness, LateFails
<1>. QED
  BY <1>1, <1>2, <1>3, <1>4, <1>5, <1>6, <1>7, <1>8, <1>9, <1>10, <1>11,
     <1>12, <1>13, <1>14, <1>15, <1>16, <1>17, <1>18, <1>19, <1>20, <1>21,
     <1>22, <1>23, <1>24
     DEF Next, Begin, Method, GoesOn, Waits, Uses

LEMMA Inductive == Spec => []IInv
<1>1. IInv /\ [Next]_vars => IInv'
  <2> SUFFICES ASSUME IInv, [Next]_vars PROVE IInv'
    OBVIOUS
  <2>1. TypeOK' /\ Places' /\ Unbegun' /\ Owners'
    BY NextTypeOK, NextPlaces, NextUnbegun, NextOwners DEF IInv, Shape
  <2>2. References' /\ Ending'
    BY NextRefCount, NextRefBounds, NextEnding DEF IInv, Shape, References
  <2>3. Committing' /\ CommitTold' /\ Lateness' /\ LateFails'
    BY NextCommitting, NextCommitTold, NextLateness, NextLateFails
       DEF IInv, Shape, References
  <2>. QED
    BY <2>1, <2>2, <2>3 DEF IInv, Shape
<1>. QED
  BY InitIInv, <1>1, PTL DEF Spec

\* However Exec, Prepare, statements and several Commits and Rollbacks race, and
\* however queries fail, time out or leave answers behind, a connection that goes
\* back to the pool is in no transaction, unless a hook has failed in place of
\* COMMIT or ROLLBACK, the program has closed a statement twice, or a late user
\* has made a bad connection look good; and the variables of Tx keep their types.
THEOREM TxReturnsSettled == Spec => []ReturnsSettled
<1>1. IInv => ReturnsSettled
  BY DEF IInv, Shape, Ending, ReturnsSettled, Settled
<1>. QED
  BY Inductive, <1>1, PTL

\* A Commit that alone ends the transaction and returns no error has committed,
\* if no query of the transaction had failed before.
THEOREM TxCommitTold == Spec => []CommitTold
  BY Inductive, PTL DEF IInv

\* With one Commit, Rollback or Close, no query that was called after it had
\* returned takes effect: tx.close drops enough references of the sticky pool to
\* close it, however many statements the program has prepared and closed.
THEOREM TxLateFails == Spec => []LateFails
  BY Inductive, PTL DEF IInv
-----------------------------------------------------------------------------
(* Waiting.                                                                 *)

\* Whoever waits in Get for the connection waits for a goroutine that the server
\* is about to answer, and Prepare and tx.close wait for stmtsMu only while its
\* owner runs or waits in Get itself: connection and mutex are never waited for
\* in a circle.  Only the Reset of a retried Prepare leaves a Get with nobody to
\* wait for.
NoCircle ==
  /\ \A p \in Proc : pc[p] = "recv" =>
       \/ pool = "closed" \/ tx.moved
       \/ pool = "has" /\ (holder = Nobody \/ pc[holder] = "using")
  /\ \A p \in Proc : pc[p] \in {"lock", "closeStmts"} /\ stmtsMu # Nobody =>
       pc[stmtsMu] \notin {"idle", "lock", "closeStmts"}

\* A transaction that has begun has a connection.
Stocked == begun = "yes" /\ pool = "empty" => tx.moved

LEMMA NextStocked ==
  IInv /\ Stocked /\ [Next]_vars => Stocked'
<1> SUFFICES ASSUME IInv, Stocked, [Next]_vars PROVE Stocked'
  OBVIOUS
<1>0. TypeOK /\ Places /\ Unbegun
  BY DEF IInv, Shape
<1> USE <1>0
<1>1. CASE BeginSucceeds
  BY <1>1 DEF BeginSucceeds, Stocked, TypeOK, Unbegun
<1>2. CASE BeginRetries
  BY <1>2 DEF BeginRetries, Stocked, TypeOK, Unbegun
<1>3. CASE BeginFails
  BY <1>3 DEF BeginFails, Stocked, TypeOK, Unbegun
<1>4. CASE BeginAgain
  BY <1>4 DEF BeginAgain, Nothing, Stocked, TypeOK, Unbegun
<1>5. ASSUME NEW p \in Proc, Exec(p) PROVE Stocked'
  BY <1>5 DEF Exec, Call, Stocked, TypeOK, Unbegun
<1>6. ASSUME NEW p \in Proc, StmtExec(p) PROVE Stocked'
  BY <1>6 DEF StmtExec, Call, Stocked, TypeOK, Unbegun
<1>7. ASSUME NEW p \in Proc, Commit(p) PROVE Stocked'
  BY <1>7 DEF Commit, Call, Ends, Stocked, TypeOK, Unbegun
<1>8. ASSUME NEW p \in Proc, Rollback(p) PROVE Stocked'
  BY <1>8 DEF Rollback, Call, Ends, Stocked, TypeOK, Unbegun
<1>9. ASSUME NEW p \in Proc, CloseNothing(p) PROVE Stocked'
  BY <1>9 DEF CloseNothing, Stocked, TypeOK, Unbegun
<1>10. ASSUME NEW p \in Proc, Prepare(p) PROVE Stocked'
  BY <1>10 DEF Prepare, Call, Stocked, TypeOK, Unbegun
<1>11. ASSUME NEW p \in Proc, StmtClose(p) PROVE Stocked'
  BY <1>11 DEF StmtClose, Call, Stocked, TypeOK, Unbegun
<1>12. ASSUME NEW p \in Proc, lockStmts(p) PROVE Stocked'
  BY <1>12 DEF lockStmts, Goto, Stocked, TypeOK, Unbegun
<1>13. ASSUME NEW p \in Proc, BeforeQuery(p) PROVE Stocked'
  BY <1>13 DEF BeforeQuery, After, Goto, Stocked, TypeOK, Unbegun
<1>14. ASSUME NEW p \in Proc, Get(p) PROVE Stocked'
  BY <1>14 DEF Get, After, Goto, Stocked, TypeOK, Unbegun
<1>15. ASSUME NEW p \in Proc, Receive(p) PROVE Stocked'
  BY <1>15 DEF Receive, After, Goto, Stocked, TypeOK, Unbegun
<1>16. ASSUME NEW p \in Proc, Uses(p) PROVE Stocked'
  BY <1>16, UseReleases, UseHistory DEF Releases, Stocked
<1>17. ASSUME NEW p \in Proc, Prepared(p) PROVE Stocked'
  BY <1>17 DEF Prepared, Goto, Stocked, TypeOK, Unbegun
<1>18. ASSUME NEW p \in Proc, Again(p) PROVE Stocked'
  BY <1>18 DEF Again, Dies, Goto, Stocked, TypeOK, Unbegun
<1>19. ASSUME NEW p \in Proc, PrepareFails(p) PROVE Stocked'
  BY <1>19 DEF PrepareFails, DropRef, Dies, Goto, Stocked, TypeOK, Unbegun
<1>20. ASSUME NEW p \in Proc, txClose(p) PROVE Stocked'
  BY <1>20 DEF txClose, EndReturns, Goto, Stocked, TypeOK, Unbegun
<1>21. ASSUME NEW p \in Proc, closeStmts(p) PROVE Stocked'
  BY <1>21 DEF closeStmts, Stocked, TypeOK, Unbegun
<1>22. ASSUME NEW p \in Proc, drop(p) PROVE Stocked'
  BY <1>22 DEF drop, DropRef, Dies, Goto, Stocked, TypeOK, Unbegun
<1>23. ASSUME NEW p \in Proc, dropTx(p) PROVE Stocked'
  BY <1>23 DEF dropTx, DropRef, Dies, EndReturns, Goto, Stocked, TypeOK,
    Unbegun
<1>24. CASE UNCHANGED vars
  BY <1>24 DEF vars, Stocked, TypeOK, Unbegun
<1>. QED
  BY <1>1, <1>2, <1>3, <1>4, <1>5, <1>6, <1>7, <1>8, <1>9, <1>10, <1>11,
     <1>12, <1>13, <1>14, <1>15, <1>16, <1>17, <1>18, <1>19, <1>20, <1>21,
     <1>22, <1>23, <1>24
     DEF Next, Begin, Method, GoesOn, Waits, Uses

\* Get, Put and Remove of the sticky pool and the mutex of Prepare and tx.close
\* do not make the methods of a transaction wait for each other in a circle,
\* for any number of goroutines and statements: the safety part of CallsReturn.
THEOREM TxNoCircle == Spec => []NoCircle
<1>1. Init => Stocked
  BY DEF Init, Stocked
<1>2. IInv /\ Stocked => NoCircle
  <2> SUFFICES ASSUME IInv, Stocked PROVE NoCircle
    OBVIOUS
  <2>1. TypeOK /\ Places /\ Unbegun /\ Owners
    BY DEF IInv, Shape
  <2>2. ASSUME NEW p \in Proc, pc[p] = "recv"
        PROVE  \/ pool = "closed" \/ tx.moved
               \/ pool = "has" /\ (holder = Nobody \/ pc[holder] = "using")
    BY <2>1, <2>2 DEF TypeOK, Unbegun, Owners, Stocked
  <2>3. ASSUME NEW p \in Proc, stmtsMu # Nobody
        PROVE  pc[stmtsMu] \notin {"idle", "lock", "closeStmts"}
    BY <2>1, <2>3 DEF TypeOK, Places, Owners
  <2>. QED
    BY <2>2, <2>3 DEF NoCircle
<1>. QED
  BY Inductive, <1>1, <1>2, NextStocked, PTL DEF Spec
=============================================================================
