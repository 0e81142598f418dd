------------------------ MODULE StickyConnPoolProofs ------------------------
(* The connection of a sticky pool is one and is never lost, for any number *)
(* of goroutines, owners and connections.                                   *)
EXTENDS StickyConnPool, FiniteSetTheorems, TLAPS

\* Places where the variable cn of a user is set.
HasConn == {"cas", "removeLoser", "got", "initing", "using", "put", "free",
            "markBad", "markNil", "giveBack", "removeClosed", "resetRemove"}

\* The types the argument needs.
Types ==
  /\ pc \in [User -> UserPc]
  /\ cn \in [User -> Conn \cup {NoConn}]
  /\ then \in [User -> {"nothing", "init", "initRetry", "retry"}]
  /\ state \in {"default", "inited", "closed"}
  /\ ch \in Conn \cup {NoConn}
  /\ borrowed \in SUBSET Conn

\* A user has a connection exactly at the places of HasConn.
Holds == \A u \in User : cn[u] # NoConn <=> pc[u] \in HasConn

\* A pool in its first state sticks to nothing.
Fresh == state = "default" =>
           ch = NoConn /\ \A u \in User : pc[u] \notin HasSticky

\* Every borrowed connection has a place, and no connection has two.
Placed ==
  /\ ch # NoConn => ch \in borrowed
  /\ \A u \in User : cn[u] # NoConn => cn[u] \in borrowed /\ cn[u] # ch
  /\ \A u, v \in User : u # v /\ cn[u] # NoConn => cn[u] # cn[v]
  /\ \A c \in borrowed : c = ch \/ \E u \in User : cn[u] = c

IInv == Types /\ Holds /\ Fresh /\ OneConn /\ Placed

USE StickyAssumption DEF Goto, Drop, UserPc, HasConn, HasSticky, Types, Holds,
  Fresh, OneConn, Placed, userVars, chanVars, badVars, closeVars, connVars

LEMMA InitIInv == Init => IInv
  BY DEF Init, IInv

LEMMA NextIInv == IInv /\ [Next]_vars => IInv'
<1> SUFFICES ASSUME IInv, [Next]_vars PROVE IInv'
  OBVIOUS
<1> USE DEF IInv
<1>1. ASSUME NEW u \in User, Start(u) PROVE IInv'
  BY <1>1 DEF Start
<1>2. ASSUME NEW u \in User, Get(u) PROVE IInv'
  BY <1>2 DEF Get
<1>3. ASSUME NEW u \in User, PoolGet(u) PROVE IInv'
  BY <1>3 DEF PoolGet
<1>4. ASSUME NEW u \in User, GetCAS(u) PROVE IInv'
  BY <1>4 DEF GetCAS
<1>5. ASSUME NEW u \in User, RemoveLoser(u) PROVE IInv'
  BY <1>5 DEF RemoveLoser, PoolRemove
<1>5a. ASSUME NEW u \in User, GetLoops(u) PROVE IInv'
  BY <1>5a DEF GetLoops
<1>6. ASSUME NEW u \in User, CheckBad(u) PROVE IInv'
  BY <1>6 DEF CheckBad
<1>7. ASSUME NEW u \in User, Receive(u) PROVE IInv'
  BY <1>7 DEF Receive
<1>8. ASSUME NEW u \in User, InitConn(u) PROVE IInv'
  BY <1>8 DEF InitConn
<1>9. ASSUME NEW u \in User, InitConnEnds(u) PROVE IInv'
  BY <1>9 DEF InitConnEnds
<1>10. ASSUME NEW u \in User, QueryEnds(u) PROVE IInv'
  BY <1>10 DEF QueryEnds
<1>11. ASSUME NEW u \in User, QueryFails(u) PROVE IInv'
  BY <1>11 DEF QueryFails
<1>12. ASSUME NEW u \in User, QueryCancelled(u) PROVE IInv'
  BY <1>12 DEF QueryCancelled
<1>13. ASSUME NEW u \in User, Put(u) PROVE IInv'
  BY <1>13 DEF Put
<1>14. ASSUME NEW u \in User, FreeConn(u) PROVE IInv'
  BY <1>14 DEF FreeConn, PoolRemove, PoolPut
<1>15. ASSUME NEW u \in User, Remove(u) PROVE IInv'
  BY <1>15 DEF Remove
<1>16. ASSUME NEW u \in User, RemoveSends(u) PROVE IInv'
  BY <1>16 DEF RemoveSends, AfterRemove
<1>17. ASSUME NEW u \in User, RemoveClosed(u) PROVE IInv'
  BY <1>17 DEF RemoveClosed, AfterRemove, PoolRemove
<1>18. ASSUME NEW u \in User, Reset(u) PROVE IInv'
  BY <1>18 DEF Reset, ResetSucceeds
<1>19. ASSUME NEW u \in User, ResetTake(u) PROVE IInv'
  BY <1>19 DEF ResetTake, ResetFails
<1>20. ASSUME NEW u \in User, ResetRemove(u) PROVE IInv'
  BY <1>20 DEF ResetRemove, PoolRemove
<1>21. ASSUME NEW u \in User, ResetClear(u) PROVE IInv'
  BY <1>21 DEF ResetClear
<1>22. ASSUME NEW u \in User, ResetCas(u) PROVE IInv'
  BY <1>22 DEF ResetCas, ResetFails, ResetSucceeds
<1>23. CASE NewStickyConnPool
  BY <1>23 DEF NewStickyConnPool
<1>24. CASE Close
  BY <1>24 DEF Close
<1>25. CASE CloseState
  BY <1>25 DEF CloseState
<1>26. CASE CloseChan
  BY <1>26 DEF CloseChan
<1>27. CASE CloseDrain
  BY <1>27 DEF CloseDrain, PoolRemove, PoolPut
<1>28. CASE UNCHANGED vars
  BY <1>28 DEF vars
<1>29. QED
  BY <1>1, <1>2, <1>3, <1>4, <1>5, <1>5a, <1>6, <1>7, <1>8, <1>9, <1>10, <1>11,
     <1>12, <1>13, <1>14, <1>15, <1>16, <1>17, <1>18, <1>19, <1>20, <1>21,
     <1>22, <1>23, <1>24, <1>25, <1>26, <1>27, <1>28
     DEF Next, UserGoesOn, GetStep, QueryStep, ReleaseStep, CloseStep

LEMMA Inductive == Spec => []IInv
  BY InitIInv, NextIInv, PTL DEF Spec

\* StickyConnPool hands its connection to one goroutine at a time, and the
\* channel is empty while somebody has it, whatever Get, Put, Remove, Reset and
\* Close do at once: the sends of Put and Remove never block.
LEMMA StickyIsOne == Spec => []OneConn
  BY Inductive, PTL DEF IInv

\* A connection taken from the pool below is in the channel or in the hands of
\* one goroutine until it is given back, once, on every path through Close,
\* Reset and the recovered panics of Put and Remove.
LEMMA StickyKeepsCustody == Spec => []Custody
<1>1. IInv => Custody
  <2> SUFFICES ASSUME IInv PROVE Custody
    OBVIOUS
  <2>1. borrowed = ({cn[u] : u \in User} \cup {ch}) \ {NoConn}
    BY DEF IInv
  <2>2. \A u, v \in User : cn[u] = cn[v] /\ cn[u] # NoConn => u = v
    BY DEF IInv
  <2>3. \A u \in User : cn[u] = ch => ch = NoConn
    BY DEF IInv
  <2>4. QED
    BY <2>1, <2>2, <2>3 DEF Custody
<1>2. QED
  BY Inductive, <1>1, PTL

-----------------------------------------------------------------------------
(* Close.  A channel that is closed and drained stays empty.                *)

ClosePhases ==
  /\ chClosed \in BOOLEAN
  /\ closerPc \in {"no", "close", "drain", "done"}
  /\ closerPc # "no" => state = "closed"
  /\ closerPc \in {"drain", "done"} => chClosed
  /\ closerPc = "done" => ch = NoConn

LEMMA InitClosePhases == Init => ClosePhases
  BY DEF Init, ClosePhases

LEMMA NextClosePhases == IInv /\ ClosePhases /\ [Next]_vars => ClosePhases'
<1> SUFFICES ASSUME IInv, ClosePhases, [Next]_vars PROVE ClosePhases'
  OBVIOUS
<1> USE DEF ClosePhases
<1>1. ASSUME NEW u \in User, Start(u) PROVE ClosePhases'
  BY <1>1 DEF Start
<1>2. ASSUME NEW u \in User, Get(u) PROVE ClosePhases'
  BY <1>2 DEF Get
<1>3. ASSUME NEW u \in User, PoolGet(u) PROVE ClosePhases'
  BY <1>3 DEF PoolGet
<1>4. ASSUME NEW u \in User, GetCAS(u) PROVE ClosePhases'
  BY <1>4 DEF GetCAS
<1>5. ASSUME NEW u \in User, RemoveLoser(u) PROVE ClosePhases'
  BY <1>5 DEF RemoveLoser
<1>5a. ASSUME NEW u \in User, GetLoops(u) PROVE ClosePhases'
  BY <1>5a DEF GetLoops
<1>6. ASSUME NEW u \in User, CheckBad(u) PROVE ClosePhases'
  BY <1>6 DEF CheckBad
<1>7. ASSUME NEW u \in User, Receive(u) PROVE ClosePhases'
  BY <1>7 DEF Receive
<1>8. ASSUME NEW u \in User, InitConn(u) PROVE ClosePhases'
  BY <1>8 DEF InitConn
<1>9. ASSUME NEW u \in User, InitConnEnds(u) PROVE ClosePhases'
  BY <1>9 DEF InitConnEnds
<1>10. ASSUME NEW u \in User, QueryEnds(u) PROVE ClosePhases'
  BY <1>10 DEF QueryEnds
<1>11. ASSUME NEW u \in User, QueryFails(u) PROVE ClosePhases'
  BY <1>11 DEF QueryFails
<1>12. ASSUME NEW u \in User, QueryCancelled(u) PROVE ClosePhases'
  BY <1>12 DEF QueryCancelled
<1>13. ASSUME NEW u \in User, Put(u) PROVE ClosePhases'
  BY <1>13 DEF Put
<1>14. ASSUME NEW u \in User, FreeConn(u) PROVE ClosePhases'
  BY <1>14 DEF FreeConn
<1>15. ASSUME NEW u \in User, Remove(u) PROVE ClosePhases'
  BY <1>15 DEF Remove
<1>16. ASSUME NEW u \in User, RemoveSends(u) PROVE ClosePhases'
  BY <1>16 DEF RemoveSends
<1>17. ASSUME NEW u \in User, RemoveClosed(u) PROVE ClosePhases'
  BY <1>17 DEF RemoveClosed
<1>18. ASSUME NEW u \in User, Reset(u) PROVE ClosePhases'
  BY <1>18 DEF Reset
<1>19. ASSUME NEW u \in User, ResetTake(u) PROVE ClosePhases'
  BY <1>19 DEF ResetTake
<1>20. ASSUME NEW u \in User, ResetRemove(u) PROVE ClosePhases'
  BY <1>20 DEF ResetRemove
<1>21. ASSUME NEW u \in User, ResetClear(u) PROVE ClosePhases'
  BY <1>21 DEF ResetClear
<1>22. ASSUME NEW u \in User, ResetCas(u) PROVE ClosePhases'
  BY <1>22 DEF ResetCas
<1>23. CASE NewStickyConnPool
  BY <1>23 DEF NewStickyConnPool
<1>24. CASE Close
  BY <1>24 DEF Close
<1>25. CASE CloseState
  BY <1>25 DEF CloseState
<1>26. CASE CloseChan
  BY <1>26 DEF CloseChan
<1>27. CASE CloseDrain
  BY <1>27 DEF CloseDrain
<1>28. CASE UNCHANGED vars
  BY <1>28 DEF vars
<1>29. QED
  BY <1>1, <1>2, <1>3, <1>4, <1>5, <1>5a, <1>6, <1>7, <1>8, <1>9, <1>10, <1>11,
     <1>12, <1>13, <1>14, <1>15, <1>16, <1>17, <1>18, <1>19, <1>20, <1>21,
     <1>22, <1>23, <1>24, <1>25, <1>26, <1>27, <1>28
     DEF Next, UserGoesOn, GetStep, QueryStep, ReleaseStep, CloseStep

\* Once the last owner has closed the pool and every query has ended, the pool
\* below has its connections back: none stays behind in the closed channel.
LEMMA StickyReturnsAll == Spec => []ClosedReturnsAll
<1>1. IInv /\ ClosePhases => ClosedReturnsAll
  <2> SUFFICES ASSUME IInv, ClosePhases, closerPc = "done",
                      \A u \in User : pc[u] = "idle"
               PROVE  borrowed = {}
    BY DEF ClosedReturnsAll
  <2>1. \A u \in User : cn[u] = NoConn
    BY DEF IInv
  <2>2. ch = NoConn
    BY DEF ClosePhases
  <2>3. QED
    BY <2>1, <2>2 DEF IInv
<1>2. QED
  BY Inductive, InitClosePhases, NextClosePhases, <1>1, PTL DEF Spec

\* All at once: whatever Get, Put, Remove, Reset and Close of any number of
\* goroutines and owners do to each other, the pool sticks to one connection,
\* every connection it has borrowed is in one place, and none stays behind when
\* the pool is closed.
THEOREM StickyInOnePlace == Spec => []InOnePlace
  BY StickyIsOne, StickyKeepsCustody, StickyReturnsAll, PTL DEF InOnePlace

-----------------------------------------------------------------------------
(* The session.                                                             *)

\* Until a Reset has cleared the error the connection of the last query that
\* ended well is the only one there is to get: it is what the channel holds and
\* what everybody past the channel has, and the state lets no other in.
Session ==
  /\ \A u \in User : pc[u] = "resetCas" => wasReset
  /\ served # NoConn /\ ~wasReset =>
       /\ state # "default"
       /\ ch \in {served, NoConn}
       /\ \A u \in User : pc[u] \in HasSticky => cn[u] \in {served, NoConn}

LEMMA InitSession == Init => Session
  BY DEF Init, Session

LEMMA NextSession == IInv /\ Session /\ [Next]_vars => Session'
<1> SUFFICES ASSUME IInv, Session, [Next]_vars PROVE Session'
  OBVIOUS
<1> USE DEF IInv, Session
<1>1. ASSUME NEW u \in User, Start(u) PROVE Session'
  BY <1>1 DEF Start
<1>2. ASSUME NEW u \in User, Get(u) PROVE Session'
  BY <1>2 DEF Get
<1>3. ASSUME NEW u \in User, PoolGet(u) PROVE Session'
  BY <1>3 DEF PoolGet
<1>4. ASSUME NEW u \in User, GetCAS(u) PROVE Session'
  BY <1>4 DEF GetCAS
<1>5. ASSUME NEW u \in User, RemoveLoser(u) PROVE Session'
  BY <1>5 DEF RemoveLoser, PoolRemove
<1>5a. ASSUME NEW u \in User, GetLoops(u) PROVE Session'
  BY <1>5a DEF GetLoops
<1>6. ASSUME NEW u \in User, CheckBad(u) PROVE Session'
  BY <1>6 DEF CheckBad
<1>7. ASSUME NEW u \in User, Receive(u) PROVE Session'
  BY <1>7 DEF Receive
<1>8. ASSUME NEW u \in User, InitConn(u) PROVE Session'
  BY <1>8 DEF InitConn
<1>9. ASSUME NEW u \in User, InitConnEnds(u) PROVE Session'
  BY <1>9 DEF InitConnEnds
<1>10. ASSUME NEW u \in User, QueryEnds(u) PROVE Session'
  BY <1>10 DEF QueryEnds
<1>11. ASSUME NEW u \in User, QueryFails(u) PROVE Session'
  BY <1>11 DEF QueryFails
<1>12. ASSUME NEW u \in User, QueryCancelled(u) PROVE Session'
  BY <1>12 DEF QueryCancelled
<1>13. ASSUME NEW u \in User, Put(u) PROVE Session'
  BY <1>13 DEF Put
<1>14. ASSUME NEW u \in User, FreeConn(u) PROVE Session'
  BY <1>14 DEF FreeConn, PoolRemove, PoolPut
<1>15. ASSUME NEW u \in User, Remove(u) PROVE Session'
  BY <1>15 DEF Remove
<1>16. ASSUME NEW u \in User, RemoveSends(u) PROVE Session'
  BY <1>16 DEF RemoveSends, AfterRemove
<1>17. ASSUME NEW u \in User, RemoveClosed(u) PROVE Session'
  BY <1>17 DEF RemoveClosed, AfterRemove, PoolRemove
<1>18. ASSUME NEW u \in User, Reset(u) PROVE Session'
  BY <1>18 DEF Reset, ResetSucceeds
<1>19. ASSUME NEW u \in User, ResetTake(u) PROVE Session'
  BY <1>19 DEF ResetTake, ResetFails
<1>20. ASSUME NEW u \in User, ResetRemove(u) PROVE Session'
  BY <1>20 DEF ResetRemove, PoolRemove
<1>21. ASSUME NEW u \in User, ResetClear(u) PROVE Session'
  BY <1>21 DEF ResetClear
<1>22. ASSUME NEW u \in User, ResetCas(u) PROVE Session'
  BY <1>22 DEF ResetCas, ResetFails, ResetSucceeds
<1>23. CASE NewStickyConnPool
  BY <1>23 DEF NewStickyConnPool
<1>24. CASE Close
  BY <1>24 DEF Close
<1>25. CASE CloseState
  BY <1>25 DEF CloseState
<1>26. CASE CloseChan
  BY <1>26 DEF CloseChan
<1>27. CASE CloseDrain
  BY <1>27 DEF CloseDrain, PoolRemove, PoolPut
<1>28. CASE UNCHANGED vars
  BY <1>28 DEF vars
<1>29. QED
  BY <1>1, <1>2, <1>3, <1>4, <1>5, <1>5a, <1>6, <1>7, <1>8, <1>9, <1>10, <1>11,
     <1>12, <1>13, <1>14, <1>15, <1>16, <1>17, <1>18, <1>19, <1>20, <1>21,
     <1>22, <1>23, <1>24, <1>25, <1>26, <1>27, <1>28
     DEF Next, UserGoesOn, GetStep, QueryStep, ReleaseStep, CloseStep

\* Only a query that ends well moves served, and it has the one connection.
LEMMA ServedStays ==
  IInv /\ Session /\ [Next]_vars
    => [served # NoConn /\ ~wasReset => served' = served]_served
<1> SUFFICES ASSUME IInv, Session, [Next]_vars, served # NoConn, ~wasReset
             PROVE  served' = served
  OBVIOUS
<1> USE DEF IInv, Session
<1>1. ASSUME NEW u \in User, Start(u) PROVE served' = served
  BY <1>1 DEF Start
<1>2. ASSUME NEW u \in User, Get(u) PROVE served' = served
  BY <1>2 DEF Get
<1>3. ASSUME NEW u \in User, PoolGet(u) PROVE served' = served
  BY <1>3 DEF PoolGet
<1>4. ASSUME NEW u \in User, GetCAS(u) PROVE served' = served
  BY <1>4 DEF GetCAS
<1>5. ASSUME NEW u \in User, RemoveLoser(u) PROVE served' = served
  BY <1>5 DEF RemoveLoser, PoolRemove
<1>5a. ASSUME NEW u \in User, GetLoops(u) PROVE served' = served
  BY <1>5a DEF GetLoops
<1>6. ASSUME NEW u \in User, CheckBad(u) PROVE served' = served
  BY <1>6 DEF CheckBad
<1>7. ASSUME NEW u \in User, Receive(u) PROVE served' = served
  BY <1>7 DEF Receive
<1>8. ASSUME NEW u \in User, InitConn(u) PROVE served' = served
  BY <1>8 DEF InitConn
<1>9. ASSUME NEW u \in User, InitConnEnds(u) PROVE served' = served
  BY <1>9 DEF InitConnEnds
<1>10. ASSUME NEW u \in User, QueryEnds(u) PROVE served' = served
  BY <1>10 DEF QueryEnds
<1>11. ASSUME NEW u \in User, QueryFails(u) PROVE served' = served
  BY <1>11 DEF QueryFails
<1>12. ASSUME NEW u \in User, QueryCancelled(u) PROVE served' = served
  BY <1>12 DEF QueryCancelled
<1>13. ASSUME NEW u \in User, Put(u) PROVE served' = served
  BY <1>13 DEF Put
<1>14. ASSUME NEW u \in User, FreeConn(u) PROVE served' = served
  BY <1>14 DEF FreeConn, PoolRemove, PoolPut
<1>15. ASSUME NEW u \in User, Remove(u) PROVE served' = served
  BY <1>15 DEF Remove
<1>16. ASSUME NEW u \in User, RemoveSends(u) PROVE served' = served
  BY <1>16 DEF RemoveSends, AfterRemove
<1>17. ASSUME NEW u \in User, RemoveClosed(u) PROVE served' = served
  BY <1>17 DEF RemoveClosed, AfterRemove, PoolRemove
<1>18. ASSUME NEW u \in User, Reset(u) PROVE served' = served
  BY <1>18 DEF Reset, ResetSucceeds
<1>19. ASSUME NEW u \in User, ResetTake(u) PROVE served' = served
  BY <1>19 DEF ResetTake, ResetFails
<1>20. ASSUME NEW u \in User, ResetRemove(u) PROVE served' = served
  BY <1>20 DEF ResetRemove, PoolRemove
<1>21. ASSUME NEW u \in User, ResetClear(u) PROVE served' = served
  BY <1>21 DEF ResetClear
<1>22. ASSUME NEW u \in User, ResetCas(u) PROVE served' = served
  BY <1>22 DEF ResetCas, ResetFails, ResetSucceeds
<1>23. CASE NewStickyConnPool
  BY <1>23 DEF NewStickyConnPool
<1>24. CASE Close
  BY <1>24 DEF Close
<1>25. CASE CloseState
  BY <1>25 DEF CloseState
<1>26. CASE CloseChan
  BY <1>26 DEF CloseChan
<1>27. CASE CloseDrain
  BY <1>27 DEF CloseDrain, PoolRemove, PoolPut
<1>28. CASE UNCHANGED vars
  BY <1>28 DEF vars
<1>29. QED
  BY <1>1, <1>2, <1>3, <1>4, <1>5, <1>5a, <1>6, <1>7, <1>8, <1>9, <1>10, <1>11,
     <1>12, <1>13, <1>14, <1>15, <1>16, <1>17, <1>18, <1>19, <1>20, <1>21,
     <1>22, <1>23, <1>24, <1>25, <1>26, <1>27, <1>28
     DEF Next, UserGoesOn, GetStep, QueryStep, ReleaseStep, CloseStep

\* Until the first Reset all queries of a sticky pool end well on one and the
\* same connection, however many Gets race for the first one: Tx and Conn rely
\* on it for their session.
THEOREM StickyKeepsSession == Spec => OneSession
  BY Inductive, InitSession, NextSession, ServedStays, PTL DEF Spec, OneSession

-----------------------------------------------------------------------------
(* The contract of a Pooler.                                                *)

LEMMA SameLoans ==
  ASSUME \A u \in User : /\ pc'[u] \in OnLoan <=> pc[u] \in OnLoan
                         /\ pc[u] \in OnLoan => cn'[u] = cn[u]
  PROVE  lentBar' = lentBar /\ loansBar' = loansBar
<1>1. {u \in User : pc'[u] \in OnLoan} = {u \in User : pc[u] \in OnLoan}
  OBVIOUS
<1>. QED
  BY <1>1 DEF lentBar, loansBar

\* u gets the connection, or gives it back; nobody else has one.
Begins(u) ==
  /\ pc'[u] \in OnLoan
  /\ \A v \in User : pc[v] \notin OnLoan
  /\ \A v \in User \ {u} : pc'[v] \notin OnLoan

Over(u) ==
  /\ pc[u] \in OnLoan
  /\ \A v \in User \ {u} : pc[v] \notin OnLoan
  /\ \A v \in User : pc'[v] \notin OnLoan

LEMMA LoanBegins ==
  ASSUME NEW u \in User, NEW c \in Conn, Begins(u), cn'[u] = c,
         stockBar' = stockBar \ {c}
  PROVE  \E v \in User, d \in Conn : Lending!Lend(v, d)
<1>1. loansBar = 0
  <2>1. {v \in User : pc[v] \in OnLoan} = {}
    BY DEF Begins
  <2>. QED
    BY <2>1, FS_EmptySet DEF loansBar
<1>2. loansBar' = 1
  <2>1. {v \in User : pc'[v] \in OnLoan} = {u}
    BY DEF Begins
  <2>. QED
    BY <2>1, FS_Singleton DEF loansBar
<1>3. \A v \in User : lentBar[v] = NoConn
  BY DEF Begins, lentBar
<1>4. lentBar' = [lentBar EXCEPT ![u] = c]
  BY DEF Begins, lentBar
<1>5. Lending!Lend(u, c)
  BY <1>1, <1>2, <1>3, <1>4 DEF Lending!Lend, Lending!Lent
<1>. QED
  BY <1>5, Zenon

LEMMA LoanEnds ==
  ASSUME NEW u \in User, Over(u)
  PROVE  /\ loansBar = 1 /\ loansBar' = 0
         /\ lentBar[u] = cn[u] /\ lentBar' = [lentBar EXCEPT ![u] = NoConn]
<1>1. {v \in User : pc[v] \in OnLoan} = {u}
  BY DEF Over
<1>2. {v \in User : pc'[v] \in OnLoan} = {}
  BY DEF Over
<1>3. lentBar[u] = cn[u] /\ lentBar' = [lentBar EXCEPT ![u] = NoConn]
  BY DEF Over, lentBar
<1>. QED
  BY <1>1, <1>2, <1>3, FS_Singleton, FS_EmptySet DEF loansBar

LEMMA InitLends == Init => Lending!Init
<1> SUFFICES ASSUME Init PROVE Lending!Init
  OBVIOUS
<1>1. {u \in User : pc[u] \in OnLoan} = {}
  BY DEF Init, OnLoan
<1>2. lentBar = [u \in User |-> NoConn] /\ stockBar = {}
  BY DEF Init, OnLoan, lentBar, stockBar
<1>. QED
  BY <1>1, <1>2, FS_EmptySet DEF Lending!Init, loansBar

LEMMA NextLends == IInv /\ [Next]_vars => [Lending!Next]_(Lending!vars)
<1> SUFFICES ASSUME IInv, [Next]_vars
             PROVE  Lending!Next \/ UNCHANGED Lending!vars
  OBVIOUS
<1> DEFINE Goal == Lending!Next \/ UNCHANGED <<lentBar, loansBar, stockBar>>
<1> SUFFICES Goal
  BY DEF Lending!vars
<1> USE DEF IInv, OnLoan
\* Steps that borrowers do not see.
<1>1. ASSUME ch' = ch, \A u \in User : /\ pc'[u] \in OnLoan <=> pc[u] \in OnLoan
                                       /\ pc[u] \in OnLoan => cn'[u] = cn[u]
      PROVE  Goal
  BY <1>1, SameLoans DEF stockBar
<1>2. ASSUME NEW u \in User, Start(u) PROVE Goal
  BY <1>1, <1>2 DEF Start
<1>3. ASSUME NEW u \in User, Get(u) PROVE Goal
  BY <1>1, <1>3 DEF Get
<1>4. ASSUME NEW u \in User, PoolGet(u) PROVE Goal
  BY <1>1, <1>4 DEF PoolGet
<1>5. ASSUME NEW u \in User, RemoveLoser(u) PROVE Goal
  BY <1>1, <1>5 DEF RemoveLoser, PoolRemove
<1>5a. ASSUME NEW u \in User, GetLoops(u) PROVE Goal
  BY <1>1, <1>5a DEF GetLoops
<1>6. ASSUME NEW u \in User, CheckBad(u) PROVE Goal
  BY <1>1, <1>6 DEF CheckBad
<1>7. ASSUME NEW u \in User, InitConn(u) PROVE Goal
  BY <1>1, <1>7 DEF InitConn
<1>8. ASSUME NEW u \in User, InitConnEnds(u) PROVE Goal
  BY <1>1, <1>8 DEF InitConnEnds
<1>9. ASSUME NEW u \in User, QueryEnds(u) PROVE Goal
  BY <1>1, <1>9 DEF QueryEnds
<1>10. ASSUME NEW u \in User, QueryFails(u) PROVE Goal
  BY <1>1, <1>10 DEF QueryFails
<1>11. ASSUME NEW u \in User, QueryCancelled(u) PROVE Goal
  BY <1>1, <1>11 DEF QueryCancelled
<1>12. ASSUME NEW u \in User, Remove(u) PROVE Goal
  BY <1>1, <1>12 DEF Remove
<1>13. ASSUME NEW u \in User, Reset(u) PROVE Goal
  BY <1>1, <1>13 DEF Reset, ResetSucceeds
<1>14. ASSUME NEW u \in User, ResetRemove(u) PROVE Goal
  BY <1>1, <1>14 DEF ResetRemove, PoolRemove
<1>15. ASSUME NEW u \in User, ResetClear(u) PROVE Goal
  BY <1>1, <1>15 DEF ResetClear
<1>16. ASSUME NEW u \in User, ResetCas(u) PROVE Goal
  BY <1>1, <1>16 DEF ResetCas, ResetFails, ResetSucceeds
<1>17. CASE NewStickyConnPool
  BY <1>1, <1>17 DEF NewStickyConnPool
<1>18. CASE Close
  BY <1>1, <1>18 DEF Close
<1>19. CASE CloseState
  BY <1>1, <1>19 DEF CloseState
<1>20. CASE CloseChan
  BY <1>1, <1>20 DEF CloseChan
<1>21. CASE UNCHANGED vars
  BY <1>1, <1>21 DEF vars
\* A loan begins.
<1>22. ASSUME NEW u \in User, GetCAS(u) PROVE Goal
  <2>1. CASE state # "default"
    BY <1>1, <1>22, <2>1 DEF GetCAS
  <2>2. CASE state = "default"
    <3>1. Begins(u)
      BY <1>22, <2>2 DEF GetCAS, Begins
    <3>2. cn'[u] = cn[u] /\ cn[u] \in Conn
      BY <1>22 DEF GetCAS
    <3>3. stockBar' = stockBar \ {cn[u]}
      BY <1>22, <2>2 DEF GetCAS, stockBar
    <3>. QED
      BY <3>1, <3>2, <3>3, LoanBegins DEF Lending!Next
  <2>. QED
    BY <2>1, <2>2
<1>23. ASSUME NEW u \in User, Receive(u) PROVE Goal
  <2>1. CASE ch = NoConn
    BY <1>1, <1>23, <2>1 DEF Receive
  <2>2. CASE ch # NoConn
    <3>1. Begins(u)
      BY <1>23, <2>2 DEF Receive, Begins
    <3>2. cn'[u] = ch /\ ch \in Conn
      BY <1>23, <2>2 DEF Receive
    <3>3. stockBar' = stockBar \ {ch}
      BY <1>23, <2>2 DEF Receive, stockBar
    <3>. QED
      BY <3>1, <3>2, <3>3, LoanBegins DEF Lending!Next
  <2>. QED
    BY <2>1, <2>2
\* A loan ends.
<1>24. ASSUME NEW u \in User, Put(u) PROVE Goal
  <2>1. CASE chClosed
    BY <1>1, <1>24, <2>1 DEF Put
  <2>2. CASE ~chClosed
    <3>1. Over(u)
      BY <1>24, <2>2 DEF Put, Over
    <3>2. cn[u] # NoConn
      BY <1>24 DEF Put
    <3>3. stockBar' = stockBar \cup {cn[u]}
      BY <1>24, <2>2, <3>2 DEF Put, stockBar
    <3>4. Lending!Return(u)
      BY <3>1, <3>2, <3>3, LoanEnds DEF Lending!Return
    <3>. QED
      BY <3>4 DEF Lending!Next
  <2>. QED
    BY <2>1, <2>2
<1>25. ASSUME NEW u \in User, RemoveSends(u) PROVE Goal
  <2>1. CASE chClosed
    BY <1>1, <1>25, <2>1 DEF RemoveSends
  <2>2. CASE ~chClosed
    <3>1. Over(u)
      BY <1>25, <2>2 DEF RemoveSends, AfterRemove, Over
    <3>2. cn[u] # NoConn
      BY <1>25 DEF RemoveSends
    <3>3. stockBar' = stockBar \cup {cn[u]}
      BY <1>25, <2>2, <3>2 DEF RemoveSends, stockBar
    <3>4. Lending!Return(u)
      BY <3>1, <3>2, <3>3, LoanEnds DEF Lending!Return
    <3>. QED
      BY <3>4 DEF Lending!Next
  <2>. QED
    BY <2>1, <2>2
<1>26. ASSUME NEW u \in User, FreeConn(u) PROVE Goal
  <2>1. Over(u)
    BY <1>26 DEF FreeConn, Over
  <2>2. cn[u] # NoConn /\ stockBar' = stockBar
    BY <1>26 DEF FreeConn, stockBar
  <2>3. Lending!Discard(u)
    BY <2>1, <2>2, LoanEnds DEF Lending!Discard
  <2>. QED
    BY <2>3 DEF Lending!Next
<1>27. ASSUME NEW u \in User, RemoveClosed(u) PROVE Goal
  <2>1. Over(u)
    BY <1>27 DEF RemoveClosed, AfterRemove, Over
  <2>2. cn[u] # NoConn /\ stockBar' = stockBar
    BY <1>27 DEF RemoveClosed, stockBar
  <2>3. Lending!Discard(u)
    BY <2>1, <2>2, LoanEnds DEF Lending!Discard
  <2>. QED
    BY <2>3 DEF Lending!Next
\* Reset and Close empty the channel.
<1>28. ASSUME stockBar' = {}, \A u \in User : /\ pc'[u] \in OnLoan <=> pc[u] \in OnLoan
                                              /\ pc[u] \in OnLoan => cn'[u] = cn[u]
      PROVE  Goal
  <2>1. lentBar' = lentBar /\ loansBar' = loansBar
    BY <1>28, SameLoans
  <2>2. Lending!Withdraw(stockBar)
    BY <1>28, <2>1 DEF Lending!Withdraw
  <2>. QED
    BY <2>2 DEF Lending!Next
<1>29. ASSUME NEW u \in User, ResetTake(u) PROVE Goal
  <2>1. CASE ch = NoConn
    BY <1>1, <1>29, <2>1 DEF ResetTake, ResetFails
  <2>2. CASE ch # NoConn
    BY <1>28, <1>29, <2>2 DEF ResetTake, stockBar
  <2>. QED
    BY <2>1, <2>2
<1>30. CASE CloseDrain
  BY <1>28, <1>30 DEF CloseDrain, stockBar
<1>. QED
  BY <1>2, <1>3, <1>4, <1>5, <1>5a, <1>6, <1>7, <1>8, <1>9, <1>10, <1>11, <1>12,
     <1>13, <1>14, <1>15, <1>16, <1>17, <1>18, <1>19, <1>20, <1>21, <1>22,
     <1>23, <1>24, <1>25, <1>26, <1>27, <1>29, <1>30
     DEF Next, UserGoesOn, GetStep, QueryStep, ReleaseStep, CloseStep

\* StickyConnPool implements ConnLending with a limit of one: withConn, which has
\* a Pooler and does not know which, gets the same promise from both, for any
\* number of goroutines, owners and connections of the pool below.
THEOREM StickyRefinesLending == Spec => LendsOne
  BY Inductive, InitLends, NextLends, PTL DEF Spec, LendsOne, Lending!Spec

-----------------------------------------------------------------------------
(* Waiting.                                                                 *)

\* A Get that waits on the channel is not left alone: the connection is there,
\* or somebody has it, who then finds the channel free to send on (OneConn), or
\* the channel is closed or about to be.  Only a Reset takes the connection away
\* from those who wait, and the next Get brings another one.
NoGetStranded == \A u \in User : pc[u] = "recv" =>
  \/ ch # NoConn
  \/ \E v \in User : pc[v] \in HasSticky
  \/ chClosed \/ closerPc = "close"
  \/ wasReset /\ state = "default"

\* While the pool is in its second state it has a connection; the channel is
\* closed after the third is reached, by the one who has reached it; whoever
\* reaches the channel has seen the first state gone.
Handover ==
  /\ state = "inited" => ch # NoConn \/ \E v \in User : pc[v] \in HasSticky
  /\ chClosed => state = "closed"
  /\ state = "closed" => closerPc # "no"
  /\ \A u \in User : pc[u] \in {"free", "removeClosed"} => chClosed
  /\ \A u \in User : pc[u] \in {"checkBad", "recv"} => state # "default" \/ wasReset

LEMMA InitHandover == Init => Handover
  BY DEF Init, Handover

LEMMA NextHandover ==
  IInv /\ ClosePhases /\ Session /\ Handover /\ [Next]_vars => Handover'
<1> SUFFICES ASSUME IInv, ClosePhases, Session, Handover, [Next]_vars
             PROVE  Handover'
  OBVIOUS
<1> USE DEF IInv, ClosePhases, Session, Handover
<1>1. ASSUME NEW u \in User, Start(u) PROVE Handover'
  BY <1>1 DEF Start
<1>2. ASSUME NEW u \in User, Get(u) PROVE Handover'
  BY <1>2 DEF Get
<1>3. ASSUME NEW u \in User, PoolGet(u) PROVE Handover'
  BY <1>3 DEF PoolGet
<1>4. ASSUME NEW u \in User, GetCAS(u) PROVE Handover'
  BY <1>4 DEF GetCAS
<1>5. ASSUME NEW u \in User, RemoveLoser(u) PROVE Handover'
  BY <1>5 DEF RemoveLoser, PoolRemove
<1>5a. ASSUME NEW u \in User, GetLoops(u) PROVE Handover'
  BY <1>5a DEF GetLoops
<1>6. ASSUME NEW u \in User, CheckBad(u) PROVE Handover'
  BY <1>6 DEF CheckBad
<1>7. ASSUME NEW u \in User, Receive(u) PROVE Handover'
  BY <1>7 DEF Receive
<1>8. ASSUME NEW u \in User, InitConn(u) PROVE Handover'
  BY <1>8 DEF InitConn
<1>9. ASSUME NEW u \in User, InitConnEnds(u) PROVE Handover'
  BY <1>9 DEF InitConnEnds
<1>10. ASSUME NEW u \in User, QueryEnds(u) PROVE Handover'
  BY <1>10 DEF QueryEnds
<1>11. ASSUME NEW u \in User, QueryFails(u) PROVE Handover'
  BY <1>11 DEF QueryFails
<1>12. ASSUME NEW u \in User, QueryCancelled(u) PROVE Handover'
  BY <1>12 DEF QueryCancelled
<1>13. ASSUME NEW u \in User, Put(u) PROVE Handover'
  BY <1>13 DEF Put
<1>14. ASSUME NEW u \in User, FreeConn(u) PROVE Handover'
  BY <1>14 DEF FreeConn, PoolRemove, PoolPut
<1>15. ASSUME NEW u \in User, Remove(u) PROVE Handover'
  BY <1>15 DEF Remove
<1>16. ASSUME NEW u \in User, RemoveSends(u) PROVE Handover'
  BY <1>16 DEF RemoveSends, AfterRemove
<1>17. ASSUME NEW u \in User, RemoveClosed(u) PROVE Handover'
  BY <1>17 DEF RemoveClosed, AfterRemove, PoolRemove
<1>18. ASSUME NEW u \in User, Reset(u) PROVE Handover'
  BY <1>18 DEF Reset, ResetSucceeds
<1>19. ASSUME NEW u \in User, ResetTake(u) PROVE Handover'
  BY <1>19 DEF ResetTake, ResetFails
<1>20. ASSUME NEW u \in User, ResetRemove(u) PROVE Handover'
  BY <1>20 DEF ResetRemove, PoolRemove
<1>21. ASSUME NEW u \in User, ResetClear(u) PROVE Handover'
  BY <1>21 DEF ResetClear
<1>22. ASSUME NEW u \in User, ResetCas(u) PROVE Handover'
  BY <1>22 DEF ResetCas, ResetFails, ResetSucceeds
<1>23. CASE NewStickyConnPool
  BY <1>23 DEF NewStickyConnPool
<1>24. CASE Close
  BY <1>24 DEF Close
<1>25. CASE CloseState
  BY <1>25 DEF CloseState
<1>26. CASE CloseChan
  BY <1>26 DEF CloseChan
<1>27. CASE CloseDrain
  BY <1>27 DEF CloseDrain, PoolRemove, PoolPut
<1>28. CASE UNCHANGED vars
  BY <1>28 DEF vars
<1>. QED
  BY <1>1, <1>2, <1>3, <1>4, <1>5, <1>5a, <1>6, <1>7, <1>8, <1>9, <1>10, <1>11,
     <1>12, <1>13, <1>14, <1>15, <1>16, <1>17, <1>18, <1>19, <1>20, <1>21,
     <1>22, <1>23, <1>24, <1>25, <1>26, <1>27, <1>28
     DEF Next, UserGoesOn, GetStep, QueryStep, ReleaseStep, CloseStep

\* No Get waits for a connection that nobody is going to send, until a Reset, for
\* any number of goroutines and owners: Put, Remove and Close between them leave
\* no waiter behind.
THEOREM StickyStrandsNobody == Spec => []NoGetStranded
<1>1. ClosePhases /\ Handover /\ Types => NoGetStranded
  BY DEF ClosePhases, Handover, NoGetStranded
<1>. QED
  BY <1>1, Inductive, InitClosePhases, NextClosePhases, InitSession, NextSession,
     InitHandover, NextHandover, PTL DEF Spec, IInv

-----------------------------------------------------------------------------
(* The types.                                                               *)

\* Each owner holds a reference, or has given it back and may be closing.
Counts ==
  /\ bad \in BOOLEAN /\ wasReset \in BOOLEAN
  /\ inited \in SUBSET Conn
  /\ served \in Conn \cup {NoConn}
  /\ owners \in 1..MaxOwners
  /\ shared \in Nat /\ closing \in Nat
  /\ shared + closing <= owners

LEMMA InitCounts == Init => Counts
<1> SUFFICES ASSUME Init PROVE Counts
  OBVIOUS
<1>1. bad \in BOOLEAN /\ wasReset \in BOOLEAN
  BY DEF Init
<1>2. inited \in SUBSET Conn /\ served \in Conn \cup {NoConn}
  BY DEF Init
<1>3. owners \in 1..MaxOwners
  BY DEF Init
<1>4. shared \in Nat /\ closing \in Nat /\ shared + closing <= owners
  BY DEF Init
<1>5. QED
  BY <1>1, <1>2, <1>3, <1>4 DEF Counts

LEMMA NextCounts == IInv /\ Counts /\ [Next]_vars => Counts'
<1> SUFFICES ASSUME IInv, Counts, [Next]_vars PROVE Counts'
  OBVIOUS
<1> USE DEF IInv, Counts
<1>1. ASSUME NEW u \in User, Start(u) PROVE Counts'
  BY <1>1 DEF Start
<1>2. ASSUME NEW u \in User, Get(u) PROVE Counts'
  BY <1>2 DEF Get
<1>3. ASSUME NEW u \in User, PoolGet(u) PROVE Counts'
  BY <1>3 DEF PoolGet
<1>4. ASSUME NEW u \in User, GetCAS(u) PROVE Counts'
  BY <1>4 DEF GetCAS
<1>5. ASSUME NEW u \in User, RemoveLoser(u) PROVE Counts'
  BY <1>5 DEF RemoveLoser, PoolRemove
<1>5a. ASSUME NEW u \in User, GetLoops(u) PROVE Counts'
  BY <1>5a DEF GetLoops
<1>6. ASSUME NEW u \in User, CheckBad(u) PROVE Counts'
  BY <1>6 DEF CheckBad
<1>7. ASSUME NEW u \in User, Receive(u) PROVE Counts'
  BY <1>7 DEF Receive
<1>8. ASSUME NEW u \in User, InitConn(u) PROVE Counts'
  BY <1>8 DEF InitConn
<1>9. ASSUME NEW u \in User, InitConnEnds(u) PROVE Counts'
  BY <1>9 DEF InitConnEnds
<1>10. ASSUME NEW u \in User, QueryEnds(u) PROVE Counts'
  BY <1>10 DEF QueryEnds
<1>11. ASSUME NEW u \in User, QueryFails(u) PROVE Counts'
  BY <1>11 DEF QueryFails
<1>12. ASSUME NEW u \in User, QueryCancelled(u) PROVE Counts'
  BY <1>12 DEF QueryCancelled
<1>13. ASSUME NEW u \in User, Put(u) PROVE Counts'
  BY <1>13 DEF Put
<1>14. ASSUME NEW u \in User, FreeConn(u) PROVE Counts'
  BY <1>14 DEF FreeConn, PoolRemove, PoolPut
<1>15. ASSUME NEW u \in User, Remove(u) PROVE Counts'
  BY <1>15 DEF Remove
<1>16. ASSUME NEW u \in User, RemoveSends(u) PROVE Counts'
  BY <1>16 DEF RemoveSends, AfterRemove
<1>17. ASSUME NEW u \in User, RemoveClosed(u) PROVE Counts'
  BY <1>17 DEF RemoveClosed, AfterRemove, PoolRemove
<1>18. ASSUME NEW u \in User, Reset(u) PROVE Counts'
  BY <1>18 DEF Reset, ResetSucceeds
<1>19. ASSUME NEW u \in User, ResetTake(u) PROVE Counts'
  BY <1>19 DEF ResetTake, ResetFails
<1>20. ASSUME NEW u \in User, ResetRemove(u) PROVE Counts'
  BY <1>20 DEF ResetRemove, PoolRemove
<1>21. ASSUME NEW u \in User, ResetClear(u) PROVE Counts'
  BY <1>21 DEF ResetClear
<1>22. ASSUME NEW u \in User, ResetCas(u) PROVE Counts'
  BY <1>22 DEF ResetCas, ResetFails, ResetSucceeds
<1>23. CASE NewStickyConnPool
  BY <1>23 DEF NewStickyConnPool
<1>24. CASE Close
  BY <1>24 DEF Close
<1>25. CASE CloseState
  BY <1>25 DEF CloseState
<1>26. CASE CloseChan
  BY <1>26 DEF CloseChan
<1>27. CASE CloseDrain
  BY <1>27 DEF CloseDrain, PoolRemove, PoolPut
<1>28. CASE UNCHANGED vars
  BY <1>28 DEF vars
<1>29. QED
  BY <1>1, <1>2, <1>3, <1>4, <1>5, <1>5a, <1>6, <1>7, <1>8, <1>9, <1>10, <1>11,
     <1>12, <1>13, <1>14, <1>15, <1>16, <1>17, <1>18, <1>19, <1>20, <1>21,
     <1>22, <1>23, <1>24, <1>25, <1>26, <1>27, <1>28
     DEF Next, UserGoesOn, GetStep, QueryStep, ReleaseStep, CloseStep

\* Every variable of StickyConnPool keeps its type, for any number of users and
\* owners: the reference count stays between 0 and the owners there are.
THEOREM StickyTypeCorrect == Spec => []TypeOK
<1>1. IInv /\ ClosePhases /\ Counts => TypeOK
  BY DEF IInv, ClosePhases, Counts, TypeOK
<1>2. QED
  BY <1>1, Inductive, InitClosePhases, NextClosePhases, InitCounts, NextCounts,
     PTL DEF Spec
=============================================================================
