--------------------------- MODULE ConnPoolProofs ---------------------------
(* Proofs about ConnPool, for every number of clients and connections and    *)
(* every pool size.                                                          *)
EXTENDS ConnPool, FiniteSetTheorems, SequenceTheorems, TLAPS

\* The places of a client that holds a connection.
HasConnPc == {"evict", "closeConn", "register", "using", "extern",
              "removeTurn", "removeClose"}

\* The type invariant with queue in Int: the bounds of queue rest on
\* TurnAccounting.
Types ==
  /\ pc \in [Client -> ClientPc]
  /\ cn \in [Client -> Conn \cup {NoConn}]
  /\ via \in [Client -> {"Get", "NewConn"}]
  /\ queue \in Int
  /\ conns \in SUBSET Conn
  /\ idleConns \in Seq(Conn)
  /\ poolSize \in Int
  /\ idleConnsLen \in Int
  /\ pooled \in SUBSET Conn
  /\ open \in SUBSET Conn
  /\ adder \in [DialStage -> Nat]
  /\ adding \in SUBSET Conn
  /\ dialErrorsNum \in Nat
  /\ lastDialError \in BOOLEAN
  /\ healer \in [HealerStage -> Nat]
  /\ closer \in {"no", "cas", "done"}
  /\ reaperPc \in ReaperPc
  /\ reaperCn \in Conn \cup {NoConn}

\* A client and the reaper hold a connection just where the code says so, and
\* only calls of NewConn go without a turn.
Holds ==
  /\ \A p \in Client : /\ cn[p] \in Conn <=> pc[p] \in HasConnPc
                       /\ via[p] = "NewConn" =>
                            pc[p] \in DialStage \cup {"register", "extern",
                                                      "closeConn"}
                       /\ pc[p] = "extern" => via[p] = "NewConn"
  /\ reaperCn \in Conn => reaperPc \in {"freeTurn", "closeConn"}
  /\ reaperPc = "closeConn" => reaperCn \in Conn

Base == Types /\ Holds

\* How many goroutines checkMinIdleConns starts is a natural number, and they
\* take neither counter past its limit.
LEMMA ShortageBounds ==
  ASSUME NEW ps \in Int, NEW il \in Int
  PROVE  /\ Shortage(ps, il) \in Nat
         /\ ps <= PoolSize => ps + Shortage(ps, il) <= PoolSize
         /\ il <= MinIdleConns => il + Shortage(ps, il) <= MinIdleConns
BY PoolAssumption DEF Shortage

NoDuplicate(q) == \A i, j \in 1..Len(q) : q[i] = q[j] => i = j

\* What popIdle takes and leaves.
LEMMA PopLast ==
  ASSUME NEW S, NEW q \in Seq(S), q # <<>>
  PROVE  LET r == SubSeq(q, 1, Len(q) - 1)
         IN  /\ q[Len(q)] \in S /\ q[Len(q)] \in Range(q)
             /\ r \in Seq(S)
             /\ Len(r) = Len(q) - 1
             /\ Range(r) \subseteq Range(q)
             /\ NoDuplicate(q) => /\ NoDuplicate(r)
                                  /\ Range(r) = Range(q) \ {q[Len(q)]}
<1>. DEFINE r == SubSeq(q, 1, Len(q) - 1)
<1>1. Len(q) \in Nat \ {0} /\ \A i \in 1..Len(q) : q[i] \in S
  BY EmptySeq, ElementOfSeq
<1>2. r \in Seq(S) /\ Len(r) = Len(q) - 1 /\ \A i \in 1..(Len(q) - 1) : r[i] = q[i]
  BY <1>1, SubSeqProperties
<1>3. /\ Range(r) = {r[i] : i \in 1..Len(r)}
      /\ Range(q) = {q[i] : i \in 1..Len(q)}
  BY <1>2, RangeEquality
<1>. HIDE DEF r
<1>4. Range(r) = {q[i] : i \in 1..(Len(q) - 1)}
  BY <1>2, <1>3
<1>5. NoDuplicate(q) => NoDuplicate(r) /\ Range(r) = Range(q) \ {q[Len(q)]}
  BY <1>1, <1>2, <1>3, <1>4 DEF NoDuplicate
<1>6. Range(r) \subseteq Range(q) /\ q[Len(q)] \in Range(q)
  <2>1. Len(q) \in 1..Len(q) /\ 1..(Len(q) - 1) \subseteq 1..Len(q)
    BY <1>1
  <2>. QED  BY <2>1, <1>3, <1>4
<1>. QED  BY <1>1, <1>2, <1>5, <1>6 DEF r

\* What reapStaleConn takes and leaves.
LEMMA PopFirst ==
  ASSUME NEW S, NEW q \in Seq(S), q # <<>>
  PROVE  /\ Head(q) \in S /\ Head(q) \in Range(q)
         /\ Tail(q) \in Seq(S)
         /\ Len(Tail(q)) = Len(q) - 1
         /\ Range(Tail(q)) \subseteq Range(q)
         /\ NoDuplicate(q) => /\ NoDuplicate(Tail(q))
                              /\ Range(Tail(q)) = Range(q) \ {Head(q)}
<1>. DEFINE r == Tail(q)
<1>1. Len(q) \in Nat \ {0} /\ \A i \in 1..Len(q) : q[i] \in S
  BY EmptySeq, ElementOfSeq
<1>2. r \in Seq(S) /\ Len(r) = Len(q) - 1 /\ \A i \in 1..(Len(q) - 1) : r[i] = q[i + 1]
  BY HeadTailProperties
<1>3. Head(q) = q[1]
  BY <1>1
<1>4. /\ Range(r) = {r[i] : i \in 1..Len(r)}
      /\ Range(q) = {q[i] : i \in 1..Len(q)}
  BY <1>2, RangeEquality
<1>. HIDE DEF r
<1>5. Range(r) = {q[i] : i \in 2..Len(q)}
  <2>1. \A i \in 1..Len(r) : i + 1 \in 2..Len(q) /\ r[i] = q[i + 1]
    BY <1>1, <1>2
  <2>2. \A i \in 2..Len(q) : i - 1 \in 1..Len(r) /\ r[i - 1] = q[i]
    BY <1>1, <1>2
  <2>. QED  BY <1>4, <2>1, <2>2
<1>6. NoDuplicate(q) => NoDuplicate(r)
  BY <1>1, <1>2 DEF NoDuplicate
<1>7. 1 \in 1..Len(q) /\ 2..Len(q) = (1..Len(q)) \ {1}
  BY <1>1
<1>8. Range(r) \subseteq Range(q) /\ q[1] \in Range(q)
  BY <1>7, <1>4, <1>5
<1>9. NoDuplicate(q) => Range(r) = Range(q) \ {q[1]}
  <2>. SUFFICES ASSUME NoDuplicate(q) PROVE Range(r) = Range(q) \ {q[1]}
    OBVIOUS
  <2>1. \A i \in 2..Len(q) : q[i] # q[1]
    BY <1>7 DEF NoDuplicate
  <2>2. \A i \in 1..Len(q) : i = 1 \/ i \in 2..Len(q)
    BY <1>7
  <2>. QED  BY <1>4, <1>5, <1>8, <2>1, <2>2
<1>. QED  BY <1>1, <1>2, <1>3, <1>6, <1>8, <1>9 DEF r

\* What Put and addIdleConn leave.
LEMMA PushLast ==
  ASSUME NEW S, NEW q \in Seq(S), NEW e \in S
  PROVE  /\ Append(q, e) \in Seq(S)
         /\ Len(Append(q, e)) = Len(q) + 1
         /\ Range(Append(q, e)) = Range(q) \cup {e}
         /\ NoDuplicate(q) /\ e \notin Range(q) => NoDuplicate(Append(q, e))
<1>. DEFINE r == Append(q, e)
<1>1. /\ r \in Seq(S) /\ Len(r) = Len(q) + 1 /\ Len(q) \in Nat
      /\ \A i \in 1..Len(q) : r[i] = q[i]
      /\ r[Len(q) + 1] = e
  BY AppendProperties
<1>2. /\ Range(r) = {r[i] : i \in 1..Len(r)}
      /\ Range(q) = {q[i] : i \in 1..Len(q)}
  BY <1>1, RangeEquality
<1>. HIDE DEF r
<1>3. Range(r) = Range(q) \cup {e}
  BY <1>1, <1>2
<1>4. NoDuplicate(q) /\ e \notin Range(q) => NoDuplicate(r)
  BY <1>1, <1>2 DEF NoDuplicate
<1>. QED  BY <1>1, <1>3, <1>4 DEF r

\* A goroutine of checkMinIdleConns moves on.
LEMMA MoveOne ==
  ASSUME NEW D, NEW f \in [D -> Nat], NEW s \in D, NEW t \in D, s # t, f[s] > 0
  PROVE  [f EXCEPT ![s] = @ - 1, ![t] = @ + 1] \in [D -> Nat]
OBVIOUS

LEMMA CheckMinIdleTypes ==
  ASSUME NEW ps \in Int, NEW il \in Int, adder \in [DialStage -> Nat],
         checkMinIdleConns(ps, il)
  PROVE  /\ poolSize' \in Int
         /\ idleConnsLen' \in Int
         /\ adder' \in [DialStage -> Nat]
<1>1. Shortage(ps, il) \in Nat
  BY ShortageBounds
<1>. QED  BY <1>1 DEF checkMinIdleConns, DialStage

LEMMA RemoveConnTypes ==
  ASSUME NEW c, NEW il \in Int, adder \in [DialStage -> Nat],
         poolSize \in Int, conns \in SUBSET Conn, removeConn(c, il)
  PROVE  /\ poolSize' \in Int
         /\ idleConnsLen' \in Int
         /\ adder' \in [DialStage -> Nat]
         /\ conns' \in SUBSET Conn
<1>1. CASE c \in conns /\ c \in pooled
  BY <1>1, CheckMinIdleTypes DEF removeConn
<1>2. CASE ~(c \in conns /\ c \in pooled)
  BY <1>2 DEF removeConn
<1>. QED  BY <1>1, <1>2

LEMMA DialConnTypes ==
  ASSUME NEW s, NEW t, dialConn(s, t),
         dialErrorsNum \in Nat, lastDialError \in BOOLEAN,
         healer \in [HealerStage -> Nat]
  PROVE  /\ dialErrorsNum' \in Nat
         /\ lastDialError' \in BOOLEAN
         /\ healer' \in [HealerStage -> Nat]
         /\ s \in DialStage /\ t \in DialStage /\ s # t
<1>1. s \in DialStage /\ t \in DialStage /\ s # t
  BY DEF dialConn, dialFails, countDialError, DialStage, closed
<1>2. dialErrorsNum' \in Nat /\ healer' \in [HealerStage -> Nat]
  <2>1. CASE UNCHANGED <<dialErrorsNum, healer>>
    BY <2>1
  <2>2. CASE dialErrorsNum' = dialErrorsNum + 1 /\ s = "countErr"
    BY <2>2 DEF dialConn, dialFails, countDialError, breakerVars, HealerStage
  <2>. QED  BY <2>1, <2>2 DEF dialConn, dialFails, countDialError, breakerVars
<1>3. lastDialError' = lastDialError \/ lastDialError' = TRUE
  BY Zenon DEF dialConn, dialFails, countDialError, breakerVars
<1>. QED  BY <1>1, <1>2, <1>3

LEMMA InitBase == Init => Base
<1>. SUFFICES ASSUME Init PROVE Base
  OBVIOUS
<1>1. Shortage(0, 0) \in Nat
  BY ShortageBounds
<1>2. adder \in [DialStage -> Nat] /\ healer \in [HealerStage -> Nat]
  BY <1>1 DEF Init, DialStage, HealerStage
<1>3. reaperPc \in ReaperPc /\ reaperCn = NoConn /\ reaperPc # "closeConn"
  BY DEF Init, ReaperPc
<1>4. lastDialError \in BOOLEAN /\ conns \in SUBSET Conn
      /\ pooled \in SUBSET Conn /\ open \in SUBSET Conn
      /\ adding \in SUBSET Conn
  BY DEF Init
<1>5. poolSize \in Int /\ idleConnsLen \in Int /\ idleConns \in Seq(Conn)
      /\ queue \in Int /\ dialErrorsNum \in Nat
      /\ closer \in {"no", "cas", "done"}
  BY <1>1 DEF Init
<1>6. /\ pc \in [Client -> ClientPc]
      /\ cn \in [Client -> Conn \cup {NoConn}]
      /\ via \in [Client -> {"Get", "NewConn"}]
  BY DEF Init, ClientPc
<1>7. Holds
  BY <1>3, PoolAssumption DEF Init, Holds, HasConnPc
<1>. QED
  BY <1>2, <1>3, <1>4, <1>5, <1>6, <1>7 DEF Base, Types

-----------------------------------------------------------------------------
LEMMA NextBase == Base /\ [Next]_vars => Base'
<1>. SUFFICES ASSUME Base, [Next]_vars PROVE Base'
  OBVIOUS
<1>. USE PoolAssumption
     DEF Base, Types, Holds, HasConnPc, ClientPc, DialStage, HealerStage,
         ReaperPc, clientVars, listVars, countVars, connVars, adderVars,
         breakerVars, reaperVars
<1>1. ASSUME NEW p \in Client, Get(p) PROVE Base'
  BY <1>1 DEF Get
<1>2. ASSUME NEW p \in Client, waitTurn(p) PROVE Base'
  BY <1>2 DEF waitTurn
<1>3. ASSUME NEW p \in Client, waitTurnFails(p) PROVE Base'
  BY <1>3 DEF waitTurnFails
<1>4. ASSUME NEW p \in Client, popNothing(p) PROVE Base'
  BY <1>4 DEF popNothing
<1>5. ASSUME NEW p \in Client, GetFails(p) PROVE Base'
  BY <1>5 DEF GetFails
<1>6. ASSUME NEW p \in Client, NewConn(p) PROVE Base'
  BY <1>6 DEF NewConn
<1>7. ASSUME NEW p \in Client, newConn(p) PROVE Base'
  BY <1>7 DEF newConn
<1>8. ASSUME NEW p \in Client, Put(p) PROVE Base'
  BY <1>8 DEF Put
<1>9. ASSUME NEW p \in Client, freeTurn(p) PROVE Base'
  BY <1>9 DEF freeTurn
<1>10. ASSUME NEW p \in Client, RemoveFreeTurn(p) PROVE Base'
  BY <1>10 DEF RemoveFreeTurn
<1>11. ASSUME NEW p \in Client, closeConn(p) PROVE Base'
  BY <1>11 DEF closeConn
<1>12. ASSUME NEW p \in Client, ClientDialed(p) PROVE Base'
  BY <1>12 DEF ClientDialed
<1>13. ASSUME NEW p \in Client, NEW next \in {"using", "evict"}, popIdle(p, next)
      PROVE  Base'
  <2>1. poolSize' \in Int /\ idleConnsLen' \in Int /\ adder' \in [DialStage -> Nat]
    BY <1>13, CheckMinIdleTypes DEF popIdle
  <2>2. cn'[p] \in Conn /\ idleConns' \in Seq(Conn)
    BY <1>13, PopLast DEF popIdle
  <2>. QED  BY <1>13, <2>1, <2>2 DEF popIdle
<1>14. ASSUME NEW p \in Client, ClientDial(p) PROVE Base'
  <2>1. PICK t \in DialStage : dialConn(pc[p], t) /\ pc' = [pc EXCEPT ![p] = t]
    BY <1>14 DEF ClientDial
  <2>2. /\ dialErrorsNum' \in Nat /\ lastDialError' \in BOOLEAN
        /\ healer' \in [HealerStage -> Nat] /\ pc[p] \in DialStage
    BY <2>1, DialConnTypes
  <2>. QED  BY <1>14, <2>1, <2>2 DEF ClientDial
<1>15. ASSUME NEW p \in Client, Remove(p) PROVE Base'
  <2>1. /\ poolSize' \in Int /\ idleConnsLen' \in Int
        /\ adder' \in [DialStage -> Nat] /\ conns' \in SUBSET Conn
    BY <1>15, RemoveConnTypes DEF Remove
  <2>. QED  BY <1>15, <2>1 DEF Remove
<1>16. ASSUME NEW p \in Client, CloseConn(p) PROVE Base'
  <2>1. /\ poolSize' \in Int /\ idleConnsLen' \in Int
        /\ adder' \in [DialStage -> Nat] /\ conns' \in SUBSET Conn
    BY <1>16, RemoveConnTypes DEF CloseConn
  <2>. QED  BY <1>16, <2>1 DEF CloseConn
<1>17. CASE addIdleConn
  BY <1>17 DEF addIdleConn
<1>18. CASE addIdleConnFailed
  BY <1>18 DEF addIdleConnFailed
<1>19. CASE AdderDialed
  BY <1>19 DEF AdderDialed
<1>20. CASE tryDialCheck
  BY <1>20 DEF tryDialCheck
<1>21. CASE tryDialFails
  BY <1>21 DEF tryDialFails
<1>22. CASE tryDialSucceeds
  BY <1>22 DEF tryDialSucceeds
<1>23. CASE reaperTick
  BY <1>23 DEF reaperTick
<1>24. CASE getTurn
  BY <1>24 DEF getTurn
<1>25. CASE reaperFreeTurn
  BY <1>25 DEF reaperFreeTurn
<1>26. CASE reaperCloseConn
  BY <1>26 DEF reaperCloseConn
<1>27. CASE CloseCAS
  BY <1>27 DEF CloseCAS
<1>28. CASE Close
  BY <1>28 DEF Close
<1>29. CASE AdderDial
  <2>1. PICK s \in DialStage, t \in DialStage :
          /\ adder[s] > 0
          /\ dialConn(s, t)
          /\ adder' = [adder EXCEPT ![s] = @ - 1, ![t] = @ + 1]
    BY <1>29 DEF AdderDial
  <2>2. /\ dialErrorsNum' \in Nat /\ lastDialError' \in BOOLEAN
        /\ healer' \in [HealerStage -> Nat] /\ s # t
    BY <2>1, DialConnTypes
  <2>3. adder' \in [DialStage -> Nat]
    BY <2>1, <2>2, MoveOne
  <2>. QED  BY <1>29, <2>2, <2>3 DEF AdderDial
<1>30. CASE reapStaleConn
  <2>1. /\ poolSize' \in Int /\ idleConnsLen' \in Int
        /\ adder' \in [DialStage -> Nat] /\ conns' \in SUBSET Conn
    BY <1>30, RemoveConnTypes DEF reapStaleConn
  <2>2. reaperCn' \in Conn \cup {NoConn} /\ idleConns' \in Seq(Conn)
    <3>1. idleConns # <<>> => Head(idleConns) \in Conn /\ Tail(idleConns) \in Seq(Conn)
      BY PopFirst
    <3>. QED  BY <1>30, <3>1 DEF reapStaleConn
  <2>. QED  BY <1>30, <2>1, <2>2 DEF reapStaleConn
<1>31. CASE UNCHANGED vars
  BY <1>31 DEF vars
<1>. QED
  BY <1>1, <1>2, <1>3, <1>4, <1>5, <1>6, <1>7, <1>8, <1>9, <1>10, <1>11,
     <1>12, <1>13, <1>14, <1>15, <1>16, <1>17, <1>18, <1>19, <1>20, <1>21,
     <1>22, <1>23, <1>24, <1>25, <1>26, <1>27, <1>28, <1>29, <1>30, <1>31
  DEF Next, ClientStep, ClientGoesOn, AdderStep, HealerStep, ReaperStep

-----------------------------------------------------------------------------
(* Turns.                                                                    *)

TurnInv == TurnAccounting /\ queue <= PoolSize

LEMMA TurnHoldersFinite ==
  /\ IsFiniteSet(TurnHolders)
  /\ Cardinality(TurnHolders) \in Nat
<1>1. IsFiniteSet(TurnHolders)
  BY PoolAssumption, FS_Subset DEF TurnHolders
<1>. QED  BY <1>1, FS_CardinalityType

LEMMA InitTurns == Init => TurnInv
<1>. SUFFICES ASSUME Init PROVE TurnInv
  OBVIOUS
<1>1. TurnHolders = {} /\ ReaperTurns = 0
  BY DEF Init, TurnHolders, HoldsTurn, ReaperTurns, DialStage
<1>. QED  BY <1>1, FS_EmptySet, PoolAssumption DEF Init, TurnInv, TurnAccounting

LEMMA NextTurns == Base /\ TurnInv /\ [Next]_vars => TurnInv'
<1>. SUFFICES ASSUME Base, TurnInv, [Next]_vars PROVE TurnInv'
  OBVIOUS
<1>. USE PoolAssumption
     DEF Base, Types, Holds, HasConnPc, ClientPc, DialStage, ReaperPc,
         clientVars, reaperVars
\* A step that changes neither who holds a turn nor queue.
<1>1. ASSUME TurnHolders' = TurnHolders, ReaperTurns' = ReaperTurns,
             queue' = queue
      PROVE  TurnInv'
  BY <1>1 DEF TurnInv, TurnAccounting
\* Calls that keep, or go without, a turn.
<1>2. ASSUME NEW p \in Client, Get(p) PROVE TurnInv'
  <2>1. TurnHolders' = TurnHolders
    BY <1>2 DEF Get, TurnHolders, HoldsTurn
  <2>. QED  BY <1>1, <1>2, <2>1 DEF Get, ReaperTurns
<1>3. ASSUME NEW p \in Client, waitTurnFails(p) PROVE TurnInv'
  <2>1. TurnHolders' = TurnHolders
    BY <1>3 DEF waitTurnFails, TurnHolders, HoldsTurn
  <2>. QED  BY <1>1, <1>3, <2>1 DEF waitTurnFails, ReaperTurns
<1>4. ASSUME NEW p \in Client, popNothing(p) PROVE TurnInv'
  <2>1. TurnHolders' = TurnHolders
    BY <1>4 DEF popNothing, TurnHolders, HoldsTurn
  <2>. QED  BY <1>1, <1>4, <2>1 DEF popNothing, ReaperTurns
<1>5. ASSUME NEW p \in Client, NewConn(p) PROVE TurnInv'
  <2>1. TurnHolders' = TurnHolders
    BY <1>5 DEF NewConn, TurnHolders, HoldsTurn
  <2>. QED  BY <1>1, <1>5, <2>1 DEF NewConn, ReaperTurns
<1>6. ASSUME NEW p \in Client, newConn(p) PROVE TurnInv'
  <2>1. TurnHolders' = TurnHolders
    BY <1>6 DEF newConn, TurnHolders, HoldsTurn
  <2>. QED  BY <1>1, <1>6, <2>1 DEF newConn, ReaperTurns
<1>7. ASSUME NEW p \in Client, Put(p) PROVE TurnInv'
  <2>1. TurnHolders' = TurnHolders
    BY <1>7 DEF Put, TurnHolders, HoldsTurn
  <2>. QED  BY <1>1, <1>7, <2>1 DEF Put, ReaperTurns
<1>8. ASSUME NEW p \in Client, ClientDialed(p) PROVE TurnInv'
  <2>1. TurnHolders' = TurnHolders
    BY <1>8 DEF ClientDialed, TurnHolders, HoldsTurn
  <2>. QED  BY <1>1, <1>8, <2>1 DEF ClientDialed, ReaperTurns
<1>9. ASSUME NEW p \in Client, Remove(p) PROVE TurnInv'
  <2>1. TurnHolders' = TurnHolders
    BY <1>9 DEF Remove, TurnHolders, HoldsTurn
  <2>. QED  BY <1>1, <1>9, <2>1 DEF Remove, ReaperTurns
<1>10. ASSUME NEW p \in Client, CloseConn(p) PROVE TurnInv'
  <2>1. TurnHolders' = TurnHolders
    BY <1>10 DEF CloseConn, TurnHolders, HoldsTurn
  <2>. QED  BY <1>1, <1>10, <2>1 DEF CloseConn, ReaperTurns
<1>11. ASSUME NEW p \in Client, closeConn(p) PROVE TurnInv'
  <2>1. TurnHolders' = TurnHolders
    BY <1>11 DEF closeConn, TurnHolders, HoldsTurn
  <2>. QED  BY <1>1, <1>11, <2>1 DEF closeConn, ReaperTurns
<1>12. ASSUME NEW p \in Client, NEW next \in {"using", "evict"}, popIdle(p, next)
      PROVE  TurnInv'
  <2>1. TurnHolders' = TurnHolders
    BY <1>12 DEF popIdle, TurnHolders, HoldsTurn
  <2>. QED  BY <1>1, <1>12, <2>1 DEF popIdle, ReaperTurns
<1>13. ASSUME NEW p \in Client, ClientDial(p) PROVE TurnInv'
  <2>1. PICK t \in DialStage : dialConn(pc[p], t) /\ pc' = [pc EXCEPT ![p] = t]
    BY <1>13 DEF ClientDial
  <2>2. pc[p] \in DialStage
    BY <2>1, DialConnTypes
  <2>3. TurnHolders' = TurnHolders
    BY <1>13, <2>1, <2>2 DEF ClientDial, TurnHolders, HoldsTurn
  <2>. QED  BY <1>1, <1>13, <2>3 DEF ClientDial, ReaperTurns
\* A turn is taken.
<1>14. ASSUME NEW p \in Client, waitTurn(p) PROVE TurnInv'
  <2>1. TurnHolders' = TurnHolders \cup {p} /\ p \notin TurnHolders
    BY <1>14 DEF waitTurn, TurnHolders, HoldsTurn
  <2>2. Cardinality(TurnHolders') = Cardinality(TurnHolders) + 1
    BY <2>1, TurnHoldersFinite, FS_AddElement
  <2>. QED
    BY <1>14, <2>2, TurnHoldersFinite
    DEF waitTurn, TurnInv, TurnAccounting, ReaperTurns
<1>15. CASE getTurn
  <2>1. TurnHolders' = TurnHolders /\ ReaperTurns = 0 /\ ReaperTurns' = 1
    BY <1>15 DEF getTurn, TurnHolders, HoldsTurn, ReaperTurns
  <2>. QED
    BY <1>15, <2>1, TurnHoldersFinite DEF getTurn, TurnInv, TurnAccounting
\* A turn is given back.
<1>16. ASSUME NEW p \in Client, freeTurn(p) PROVE TurnInv'
  <2>1. TurnHolders' = TurnHolders \ {p} /\ p \in TurnHolders
    BY <1>16 DEF freeTurn, TurnHolders, HoldsTurn
  <2>2. Cardinality(TurnHolders') = Cardinality(TurnHolders) - 1
    BY <2>1, TurnHoldersFinite, FS_RemoveElement
  <2>3. /\ queue \in Int /\ queue' = queue - 1
       /\ ReaperTurns' = ReaperTurns /\ ReaperTurns \in Nat
    BY <1>16 DEF freeTurn, ReaperTurns
  <2>. HIDE DEF Base, Types, Holds
  <2>. QED
    BY <2>2, <2>3, TurnHoldersFinite DEF TurnInv, TurnAccounting
<1>17. ASSUME NEW p \in Client, RemoveFreeTurn(p) PROVE TurnInv'
  <2>1. TurnHolders' = TurnHolders \ {p} /\ p \in TurnHolders
    BY <1>17 DEF RemoveFreeTurn, TurnHolders, HoldsTurn
  <2>2. Cardinality(TurnHolders') = Cardinality(TurnHolders) - 1
    BY <2>1, TurnHoldersFinite, FS_RemoveElement
  <2>3. /\ queue \in Int /\ queue' = queue - 1
       /\ ReaperTurns' = ReaperTurns /\ ReaperTurns \in Nat
    BY <1>17 DEF RemoveFreeTurn, ReaperTurns
  <2>. HIDE DEF Base, Types, Holds
  <2>. QED
    BY <2>2, <2>3, TurnHoldersFinite DEF TurnInv, TurnAccounting
<1>18. ASSUME NEW p \in Client, GetFails(p) PROVE TurnInv'
  <2>1. CASE via[p] = "Get"
    <3>1. TurnHolders' = TurnHolders \ {p} /\ p \in TurnHolders
      BY <1>18, <2>1 DEF GetFails, TurnHolders, HoldsTurn
    <3>2. Cardinality(TurnHolders') = Cardinality(TurnHolders) - 1
      BY <3>1, TurnHoldersFinite, FS_RemoveElement
    <3>3. /\ queue \in Int /\ queue' = queue - 1
         /\ ReaperTurns' = ReaperTurns /\ ReaperTurns \in Nat
      BY <1>18, <2>1 DEF GetFails, ReaperTurns
    <3>. HIDE DEF Base, Types, Holds
    <3>. QED
      BY <3>2, <3>3, TurnHoldersFinite DEF TurnInv, TurnAccounting
  <2>2. CASE via[p] # "Get"
    <3>1. TurnHolders' = TurnHolders
      BY <1>18, <2>2 DEF GetFails, TurnHolders, HoldsTurn
    <3>. QED  BY <1>1, <1>18, <2>2, <3>1 DEF GetFails, ReaperTurns
  <2>. QED  BY <2>1, <2>2
<1>19. CASE reaperFreeTurn
  <2>1. TurnHolders' = TurnHolders /\ ReaperTurns = 1 /\ ReaperTurns' = 0
    BY <1>19 DEF reaperFreeTurn, TurnHolders, HoldsTurn, ReaperTurns
  <2>. QED
    BY <1>19, <2>1, TurnHoldersFinite DEF reaperFreeTurn, TurnInv, TurnAccounting
\* Goroutines that never touch queue, and Close.
<1>20. CASE addIdleConn
  BY <1>1, <1>20 DEF addIdleConn, TurnHolders, HoldsTurn, ReaperTurns
<1>21. CASE addIdleConnFailed
  BY <1>1, <1>21 DEF addIdleConnFailed, TurnHolders, HoldsTurn, ReaperTurns
<1>22. CASE AdderDial
  BY <1>1, <1>22 DEF AdderDial, TurnHolders, HoldsTurn, ReaperTurns
<1>23. CASE AdderDialed
  BY <1>1, <1>23 DEF AdderDialed, TurnHolders, HoldsTurn, ReaperTurns
<1>24. CASE tryDialCheck
  BY <1>1, <1>24 DEF tryDialCheck, TurnHolders, HoldsTurn, ReaperTurns
<1>25. CASE tryDialFails
  BY <1>1, <1>25 DEF tryDialFails, TurnHolders, HoldsTurn, ReaperTurns
<1>26. CASE tryDialSucceeds
  BY <1>1, <1>26 DEF tryDialSucceeds, TurnHolders, HoldsTurn, ReaperTurns
<1>27. CASE reaperTick
  BY <1>1, <1>27 DEF reaperTick, TurnHolders, HoldsTurn, ReaperTurns
<1>28. CASE reapStaleConn
  BY <1>1, <1>28 DEF reapStaleConn, TurnHolders, HoldsTurn, ReaperTurns
<1>29. CASE reaperCloseConn
  BY <1>1, <1>29 DEF reaperCloseConn, TurnHolders, HoldsTurn, ReaperTurns
<1>30. CASE CloseCAS
  BY <1>1, <1>30 DEF CloseCAS, TurnHolders, HoldsTurn, ReaperTurns
<1>31. CASE Close
  BY <1>1, <1>31 DEF Close, TurnHolders, HoldsTurn, ReaperTurns
<1>32. CASE UNCHANGED vars
  BY <1>1, <1>32 DEF vars, TurnHolders, HoldsTurn, ReaperTurns
<1>. QED
  BY <1>2, <1>3, <1>4, <1>5, <1>6, <1>7, <1>8, <1>9, <1>10, <1>11, <1>12,
     <1>13, <1>14, <1>15, <1>16, <1>17, <1>18, <1>19, <1>20, <1>21, <1>22,
     <1>23, <1>24, <1>25, <1>26, <1>27, <1>28, <1>29, <1>30, <1>31, <1>32
  DEF Next, ClientStep, ClientGoesOn, AdderStep, HealerStep, ReaperStep

\* Every variable of the pool keeps its type; the bounds of queue are those of
\* the buffered channel.
THEOREM TypeCorrect == Spec => []TypeOK
<1>1. Base /\ TurnInv => TypeOK
  <2>. SUFFICES ASSUME Base, TurnInv PROVE TypeOK
    OBVIOUS
  <2>1. queue \in 0..PoolSize
    BY TurnHoldersFinite, PoolAssumption
    DEF Base, Types, TurnInv, TurnAccounting, ReaperTurns
  <2>. QED  BY <2>1 DEF Base, Types, TypeOK
<1>. QED
  BY <1>1, InitBase, NextBase, InitTurns, NextTurns, PTL DEF Spec

\* The turns in the channel queue are those of the Gets, the loans and the
\* reaper that will take them out again: none is lost on an error path, none is
\* freed twice.
LEMMA TurnsBalance == Spec => []TurnAccounting
<1>1. TurnInv => TurnAccounting
  BY DEF TurnInv
<1>. QED
  BY <1>1, InitBase, NextBase, InitTurns, NextTurns, PTL DEF Spec

\* A caller of Get, or the reaper, that finds the channel queue full waits for
\* goroutines that have a turn to give back; and whoever has one finds the
\* channel not empty, so that the receive in freeTurn never blocks.
TurnsInHand ==
  /\ queue = PoolSize => ReaperTurns = 1 \/ TurnHolders # {}
  /\ ReaperTurns = 1 \/ TurnHolders # {} => queue > 0

\* No turn is waited for that nobody has, and none is freed that is not in the
\* channel, on any path through Get, Put, Remove, the reaper and Close: the
\* safety part of TurnsServed.
THEOREM TurnsAreInHand == Spec => []TurnsInHand
<1>1. TurnInv => TurnsInHand
  <2>. SUFFICES ASSUME TurnInv PROVE TurnsInHand
    OBVIOUS
  <2>1. TurnHolders = {} <=> Cardinality(TurnHolders) = 0
    BY TurnHoldersFinite, FS_EmptySet
  <2>2. ReaperTurns \in {0, 1}
    BY DEF ReaperTurns
  <2>. QED
    BY <2>1, <2>2, TurnHoldersFinite, PoolAssumption
    DEF TurnInv, TurnAccounting, TurnsInHand
<1>. QED
  BY <1>1, InitBase, NextBase, InitTurns, NextTurns, PTL DEF Spec

-----------------------------------------------------------------------------
(* The breaker of dialConn.                                                  *)

\* A failed dial stores its error before it counts itself, so an error is on
\* record wherever the counter is not zero or has sent a caller to read it.
ErrorRecorded ==
  /\ dialErrorsNum > 0 => lastDialError = TRUE
  /\ adder["countErr"] > 0 \/ adder["lastErr"] > 0 => lastDialError = TRUE
  /\ \A p \in Client : pc[p] \in {"countErr", "lastErr"} => lastDialError = TRUE

BreakerInv == BreakerHasHealer /\ ErrorRecorded

LEMMA InitBreaker == Init => BreakerInv
BY PoolAssumption
DEF Init, BreakerInv, BreakerHasHealer, ErrorRecorded, DialStage, HealerStage,
    closed

\* dialConn keeps the breaker and its goroutine together.
LEMMA DialConnHealer ==
  ASSUME NEW s, NEW t, dialConn(s, t), Types, BreakerHasHealer, closer' = closer
  PROVE  BreakerHasHealer'
<1>. USE PoolAssumption DEF Types, HealerStage, BreakerHasHealer, closed
<1>1. CASE UNCHANGED <<dialErrorsNum, healer>>
  BY <1>1
<1>2. CASE /\ dialErrorsNum' = dialErrorsNum + 1
           /\ healer' = IF dialErrorsNum + 1 = PoolSize
                        THEN [healer EXCEPT !["check"] = @ + 1] ELSE healer
  <2>1. CASE dialErrorsNum + 1 = PoolSize
    BY <1>2, <2>1
  <2>2. CASE dialErrorsNum + 1 # PoolSize
    BY <1>2, <2>2
  <2>. QED  BY <2>1, <2>2
<1>. QED  BY <1>1, <1>2 DEF dialConn, dialFails, countDialError, breakerVars

\* dialConn sends a caller to read the error, or to count one, only when an
\* error is on record.
LEMMA DialConnError ==
  ASSUME NEW s, NEW t, dialConn(s, t), Types,
         dialErrorsNum > 0 => lastDialError = TRUE,
         s \in {"countErr", "lastErr"} => lastDialError = TRUE
  PROVE  /\ lastDialError = TRUE => lastDialError' = TRUE
         /\ dialErrorsNum' > 0 => lastDialError' = TRUE
         /\ t \in {"countErr", "lastErr"} => lastDialError' = TRUE
<1>1. CASE s = "dialClosed" \/ s = "lastErr"
  BY <1>1 DEF dialConn, dialFails, countDialError, breakerVars
<1>2. CASE s = "dialBreaker"
  BY <1>2, PoolAssumption DEF dialConn, dialFails, countDialError, breakerVars, Types
<1>3. CASE s = "dial"
  BY <1>3 DEF dialConn, dialFails, countDialError, breakerVars
<1>4. CASE s = "countErr"
  BY <1>4 DEF dialConn, dialFails, countDialError, breakerVars
<1>. QED  BY <1>1, <1>2, <1>3, <1>4 DEF dialConn, dialFails, countDialError

LEMMA NextBreaker == Base /\ BreakerInv /\ [Next]_vars => BreakerInv'
<1>. SUFFICES ASSUME Base, BreakerInv, [Next]_vars PROVE BreakerInv'
  OBVIOUS
<1>. USE PoolAssumption
     DEF Base, Types, ClientPc, DialStage, HealerStage, clientVars, adderVars,
         breakerVars
\* Steps that leave the breaker alone and send nobody to the error.
<1>1. ASSUME UNCHANGED <<breakerVars, closer>>,
             adder'["countErr"] = adder["countErr"],
             adder'["lastErr"] = adder["lastErr"],
             \A p \in Client : pc'[p] \in {"countErr", "lastErr"} =>
                                 pc[p] \in {"countErr", "lastErr"}
      PROVE  BreakerInv'
  BY <1>1 DEF BreakerInv, BreakerHasHealer, ErrorRecorded, closed
<1>2. ASSUME NEW p \in Client, Get(p) PROVE BreakerInv'
  BY <1>1, <1>2 DEF Get
<1>3. ASSUME NEW p \in Client, waitTurn(p) PROVE BreakerInv'
  BY <1>1, <1>3 DEF waitTurn
<1>4. ASSUME NEW p \in Client, waitTurnFails(p) PROVE BreakerInv'
  BY <1>1, <1>4 DEF waitTurnFails
<1>5. ASSUME NEW p \in Client, popNothing(p) PROVE BreakerInv'
  BY <1>1, <1>5 DEF popNothing
<1>6. ASSUME NEW p \in Client, GetFails(p) PROVE BreakerInv'
  BY <1>1, <1>6 DEF GetFails
<1>7. ASSUME NEW p \in Client, NewConn(p) PROVE BreakerInv'
  BY <1>1, <1>7 DEF NewConn
<1>8. ASSUME NEW p \in Client, newConn(p) PROVE BreakerInv'
  BY <1>1, <1>8 DEF newConn
<1>9. ASSUME NEW p \in Client, ClientDialed(p) PROVE BreakerInv'
  BY <1>1, <1>9 DEF ClientDialed
<1>10. ASSUME NEW p \in Client, Put(p) PROVE BreakerInv'
  BY <1>1, <1>10 DEF Put
<1>11. ASSUME NEW p \in Client, freeTurn(p) PROVE BreakerInv'
  BY <1>1, <1>11 DEF freeTurn
<1>12. ASSUME NEW p \in Client, Remove(p) PROVE BreakerInv'
  BY <1>1, <1>12 DEF Remove, removeConn, checkMinIdleConns
<1>13. ASSUME NEW p \in Client, RemoveFreeTurn(p) PROVE BreakerInv'
  BY <1>1, <1>13 DEF RemoveFreeTurn
<1>14. ASSUME NEW p \in Client, CloseConn(p) PROVE BreakerInv'
  BY <1>1, <1>14 DEF CloseConn, removeConn, checkMinIdleConns
<1>15. ASSUME NEW p \in Client, closeConn(p) PROVE BreakerInv'
  BY <1>1, <1>15 DEF closeConn
<1>16. ASSUME NEW p \in Client, NEW next \in {"using", "evict"}, popIdle(p, next)
      PROVE  BreakerInv'
  BY <1>1, <1>16 DEF popIdle, checkMinIdleConns
<1>17. CASE addIdleConn
  BY <1>1, <1>17 DEF addIdleConn
<1>18. CASE addIdleConnFailed
  BY <1>1, <1>18 DEF addIdleConnFailed
<1>19. CASE AdderDialed
  BY <1>1, <1>19 DEF AdderDialed
<1>20. CASE reaperTick
  BY <1>1, <1>20 DEF reaperTick
<1>21. CASE getTurn
  BY <1>1, <1>21 DEF getTurn
<1>22. CASE reapStaleConn
  BY <1>1, <1>22 DEF reapStaleConn, removeConn, checkMinIdleConns, listVars, countVars
<1>23. CASE reaperFreeTurn
  BY <1>1, <1>23 DEF reaperFreeTurn
<1>24. CASE reaperCloseConn
  BY <1>1, <1>24 DEF reaperCloseConn
<1>25. CASE Close
  BY <1>25 DEF Close, BreakerInv, BreakerHasHealer, ErrorRecorded, closed
\* Dials.
<1>26. ASSUME NEW p \in Client, ClientDial(p) PROVE BreakerInv'
  <2>1. PICK t \in DialStage : dialConn(pc[p], t) /\ pc' = [pc EXCEPT ![p] = t]
    BY <1>26 DEF ClientDial
  <2>2. BreakerHasHealer'
    BY <1>26, <2>1, DialConnHealer DEF ClientDial, BreakerInv
  <2>3. /\ lastDialError = TRUE => lastDialError' = TRUE
        /\ dialErrorsNum' > 0 => lastDialError' = TRUE
        /\ t \in {"countErr", "lastErr"} => lastDialError' = TRUE
    BY <2>1, DialConnError DEF BreakerInv, ErrorRecorded
  <2>4. ErrorRecorded'
    BY <1>26, <2>1, <2>3 DEF ClientDial, BreakerInv, ErrorRecorded
  <2>. QED  BY <2>2, <2>4 DEF BreakerInv
<1>27. CASE AdderDial
  <2>1. PICK s \in DialStage, t \in DialStage :
          /\ adder[s] > 0
          /\ dialConn(s, t)
          /\ adder' = [adder EXCEPT ![s] = @ - 1, ![t] = @ + 1]
    BY <1>27 DEF AdderDial
  <2>2. BreakerHasHealer'
    BY <1>27, <2>1, DialConnHealer DEF AdderDial, BreakerInv
  <2>3. /\ lastDialError = TRUE => lastDialError' = TRUE
        /\ dialErrorsNum' > 0 => lastDialError' = TRUE
        /\ t \in {"countErr", "lastErr"} => lastDialError' = TRUE
    BY <2>1, DialConnError DEF BreakerInv, ErrorRecorded
  <2>4. \A u \in DialStage : adder'[u] > 0 => adder[u] > 0 \/ u = t
    BY <2>1
  <2>5. ErrorRecorded'
    BY <1>27, <2>3, <2>4 DEF AdderDial, BreakerInv, ErrorRecorded
  <2>. QED  BY <2>2, <2>5 DEF BreakerInv
\* tryDial and Close.
<1>28. CASE tryDialCheck
  BY <1>28 DEF tryDialCheck, BreakerInv, BreakerHasHealer, ErrorRecorded, closed
<1>29. CASE tryDialFails
  BY <1>29 DEF tryDialFails, BreakerInv, BreakerHasHealer, ErrorRecorded, closed
<1>30. CASE tryDialSucceeds
  <2>1. BreakerHasHealer'
    BY <1>30 DEF tryDialSucceeds, BreakerInv, BreakerHasHealer, closed
  <2>2. ErrorRecorded'
    BY <1>30 DEF tryDialSucceeds, BreakerInv, ErrorRecorded
  <2>. QED  BY <2>1, <2>2 DEF BreakerInv
<1>31. CASE CloseCAS
  BY <1>31 DEF CloseCAS, BreakerInv, BreakerHasHealer, ErrorRecorded, closed
<1>32. CASE UNCHANGED vars
  BY <1>1, <1>32 DEF vars
<1>. QED
  BY <1>2, <1>3, <1>4, <1>5, <1>6, <1>7, <1>8, <1>9, <1>10, <1>11, <1>12,
     <1>13, <1>14, <1>15, <1>16, <1>17, <1>18, <1>19, <1>20, <1>21, <1>22,
     <1>23, <1>24, <1>25, <1>26, <1>27, <1>28, <1>29, <1>30, <1>31, <1>32
  DEF Next, ClientStep, ClientGoesOn, AdderStep, HealerStep, ReaperStep

\* While the breaker is open exactly one tryDial goroutine probes the server,
\* unless the pool is closed, however many dials fail at the same time.
LEMMA BreakerKeepsHealer == Spec => []BreakerHasHealer
<1>1. BreakerInv => BreakerHasHealer
  BY DEF BreakerInv
<1>. QED
  BY <1>1, InitBase, NextBase, InitBreaker, NextBreaker, PTL DEF Spec

\* A dial refused by the breaker reports an error, never a nil connection
\* without one.
LEMMA RefusalsCarryError == Spec => []RefusalHasError
<1>1. BreakerInv => RefusalHasError
  BY DEF BreakerInv, ErrorRecorded, RefusalHasError
<1>. QED
  BY <1>1, InitBase, NextBase, InitBreaker, NextBreaker, PTL DEF Spec

\* The breaker of dialConn: it is open exactly while one tryDial goroutine is
\* about to close it, and a dial that it refuses has an error to return.
THEOREM BreakerIsSound == Spec => []BreakerSound
BY BreakerKeepsHealer, RefusalsCarryError, PTL DEF BreakerSound

-----------------------------------------------------------------------------
(* Who has which connection: exclusive use, what the pool lends, its         *)
(* counters, and no lost socket.                                             *)

\* The same as ExclusiveUse with the idle list's part by name.
LEMMA ExclusiveUseParts ==
  ExclusiveUse <=>
    /\ \A p, q \in Client : cn[p] = cn[q] /\ cn[p] # NoConn => p = q
    /\ NoDuplicate(idleConns)
    /\ \A p \in Client : cn[p] \notin Range(idleConns) \cup adding
    /\ Range(idleConns) \cap adding = {}
    /\ reaperCn \notin Range(idleConns) \cup adding
    /\ reaperCn # NoConn => \A p \in Client : cn[p] # reaperCn
BY DEF ExclusiveUse, NoDuplicate

LEMMA InitExclusive == Init => ExclusiveUse
<1>. SUFFICES ASSUME Init PROVE ExclusiveUse
  OBVIOUS
<1>1. Range(idleConns) = {} /\ Len(idleConns) = 0
  BY DEF Init, Range
<1>. QED  BY <1>1 DEF Init, ExclusiveUse

LEMMA NextExclusive == Base /\ ExclusiveUse /\ [Next]_vars => ExclusiveUse'
<1>. SUFFICES ASSUME Base, ExclusiveUse, [Next]_vars PROVE ExclusiveUse'
  OBVIOUS
<1>. USE PoolAssumption
     DEF Base, Types, Holds, HasConnPc, clientVars, listVars, adderVars,
         reaperVars
<1>1. Range(idleConns) \subseteq Conn
  BY RangeOfSeq
\* Steps that move no connection.
<1>2. ASSUME UNCHANGED <<cn, idleConns, adding, reaperCn>>
      PROVE  ExclusiveUse'
  BY <1>2 DEF ExclusiveUse
<1>3. ASSUME NEW p \in Client, Get(p) PROVE ExclusiveUse'
  BY <1>2, <1>3 DEF Get
<1>4. ASSUME NEW p \in Client, waitTurn(p) PROVE ExclusiveUse'
  BY <1>2, <1>4 DEF waitTurn
<1>5. ASSUME NEW p \in Client, waitTurnFails(p) PROVE ExclusiveUse'
  BY <1>2, <1>5 DEF waitTurnFails
<1>6. ASSUME NEW p \in Client, popNothing(p) PROVE ExclusiveUse'
  BY <1>2, <1>6 DEF popNothing
<1>7. ASSUME NEW p \in Client, GetFails(p) PROVE ExclusiveUse'
  BY <1>2, <1>7 DEF GetFails
<1>8. ASSUME NEW p \in Client, NewConn(p) PROVE ExclusiveUse'
  BY <1>2, <1>8 DEF NewConn
<1>9. ASSUME NEW p \in Client, newConn(p) PROVE ExclusiveUse'
  BY <1>2, <1>9 DEF newConn
<1>10. ASSUME NEW p \in Client, freeTurn(p) PROVE ExclusiveUse'
  BY <1>2, <1>10 DEF freeTurn
<1>11. ASSUME NEW p \in Client, ClientDial(p) PROVE ExclusiveUse'
  BY <1>2, <1>11 DEF ClientDial
<1>12. ASSUME NEW p \in Client, Remove(p) PROVE ExclusiveUse'
  BY <1>2, <1>12 DEF Remove
<1>13. ASSUME NEW p \in Client, RemoveFreeTurn(p) PROVE ExclusiveUse'
  BY <1>2, <1>13 DEF RemoveFreeTurn
<1>14. ASSUME NEW p \in Client, CloseConn(p) PROVE ExclusiveUse'
  BY <1>2, <1>14 DEF CloseConn
<1>15. CASE AdderDial
  BY <1>2, <1>15 DEF AdderDial
<1>16. CASE addIdleConnFailed
  BY <1>2, <1>16 DEF addIdleConnFailed
<1>17. CASE tryDialCheck
  BY <1>2, <1>17 DEF tryDialCheck
<1>18. CASE tryDialFails
  BY <1>2, <1>18 DEF tryDialFails
<1>19. CASE tryDialSucceeds
  BY <1>2, <1>19 DEF tryDialSucceeds
<1>20. CASE reaperTick
  BY <1>2, <1>20 DEF reaperTick
<1>21. CASE getTurn
  BY <1>2, <1>21 DEF getTurn
<1>22. CASE reaperFreeTurn
  BY <1>2, <1>22 DEF reaperFreeTurn
<1>23. CASE CloseCAS
  BY <1>2, <1>23 DEF CloseCAS
\* A new connection.
<1>24. ASSUME NEW p \in Client, ClientDialed(p) PROVE ExclusiveUse'
  BY <1>24 DEF ClientDialed, NewConnId, Referenced, ExclusiveUse
<1>25. CASE AdderDialed
  BY <1>25 DEF AdderDialed, NewConnId, Referenced, ExclusiveUse
\* A connection changes hands.
<1>26. CASE addIdleConn
  <2>1. PICK c \in adding : /\ idleConns' = Append(idleConns, c)
                            /\ adding' = adding \ {c}
    BY <1>26 DEF addIdleConn
  <2>2. NoDuplicate(idleConns)' /\ Range(idleConns)' = Range(idleConns) \cup {c}
    BY <2>1, PushLast, ExclusiveUseParts
  <2>. QED  BY <1>26, <2>1, <2>2 DEF addIdleConn, ExclusiveUse, NoDuplicate
<1>27. ASSUME NEW p \in Client, Put(p) PROVE ExclusiveUse'
  <2>1. NoDuplicate(idleConns)' /\ Range(idleConns)' = Range(idleConns) \cup {cn[p]}
    BY <1>27, PushLast, ExclusiveUseParts DEF Put
  <2>. QED  BY <1>1, <1>27, <2>1 DEF Put, ExclusiveUse, NoDuplicate
<1>28. ASSUME NEW p \in Client, NEW next \in {"using", "evict"}, popIdle(p, next)
      PROVE  ExclusiveUse'
  <2>1. /\ cn' = [cn EXCEPT ![p] = idleConns[Len(idleConns)]]
        /\ UNCHANGED <<adding, reaperCn>>
    BY <1>28 DEF popIdle
  <2>2. /\ NoDuplicate(idleConns)'
        /\ Range(idleConns)' = Range(idleConns) \ {idleConns[Len(idleConns)]}
        /\ idleConns[Len(idleConns)] \in Range(idleConns)
    BY <1>28, PopLast, ExclusiveUseParts DEF popIdle
  <2>. QED  BY <1>1, <2>1, <2>2 DEF ExclusiveUse, NoDuplicate
<1>29. CASE reapStaleConn
  <2>1. CASE UNCHANGED <<reaperCn, idleConns>>
    BY <1>2, <1>29, <2>1 DEF reapStaleConn
  <2>2. CASE /\ idleConns # <<>>
             /\ reaperCn' = Head(idleConns)
             /\ idleConns' = Tail(idleConns)
    <3>1. /\ NoDuplicate(idleConns)'
          /\ Range(idleConns)' = Range(idleConns) \ {Head(idleConns)}
          /\ Head(idleConns) \in Range(idleConns)
      BY <2>2, PopFirst, ExclusiveUseParts
    <3>. QED
      BY <1>1, <1>29, <2>2, <3>1 DEF reapStaleConn, ExclusiveUse, NoDuplicate
  <2>. QED  BY <1>29, <2>1, <2>2 DEF reapStaleConn
\* A connection is forgotten.
<1>30. ASSUME NEW p \in Client, closeConn(p) PROVE ExclusiveUse'
  BY <1>1, <1>30 DEF closeConn, ExclusiveUse
<1>31. CASE reaperCloseConn
  BY <1>1, <1>31 DEF reaperCloseConn, ExclusiveUse
<1>32. CASE Close
  <2>1. Range(idleConns') = {} /\ Len(idleConns') = 0
    BY <1>32 DEF Close, Range
  <2>. QED  BY <1>32, <2>1 DEF Close, ExclusiveUse
<1>33. CASE UNCHANGED vars
  BY <1>2, <1>33 DEF vars
<1>. QED
  BY <1>3, <1>4, <1>5, <1>6, <1>7, <1>8, <1>9, <1>10, <1>11, <1>12, <1>13,
     <1>14, <1>15, <1>16, <1>17, <1>18, <1>19, <1>20, <1>21, <1>22, <1>23,
     <1>24, <1>25, <1>26, <1>27, <1>28, <1>29, <1>30, <1>31, <1>32, <1>33
  DEF Next, ClientStep, ClientGoesOn, AdderStep, HealerStep, ReaperStep

\* No two users of the pool ever have the same connection, through evictions,
\* overflows, the reaper and Close.
LEMMA LoansAreExclusive == Spec => []ExclusiveUse
BY InitBase, NextBase, InitExclusive, NextExclusive, PTL DEF Spec

-----------------------------------------------------------------------------
(* The registry conns.                                                       *)

\* Which connections are in conns: not yet those being dialled or registered,
\* no longer those being closed; until Close empties it, all the others.
Registry ==
  /\ IsFiniteSet(conns) /\ IsFiniteSet(adding)
  /\ adding \subseteq (pooled \cap open) \ conns
  /\ reaperCn \notin conns
  /\ \A p \in Client :
       /\ pc[p] \in {"register", "closeConn", "removeTurn", "removeClose"}
            => cn[p] \notin conns
       /\ pc[p] = "register" => cn[p] \in open
  /\ closer # "done" =>
       /\ Range(idleConns) \subseteq conns \cap open \cap pooled
       /\ \A p \in Client :
            pc[p] \in {"using", "evict", "extern"} => cn[p] \in conns \cap open

LEMMA InitRegistry == Init => Registry
<1>. SUFFICES ASSUME Init PROVE Registry
  OBVIOUS
<1>1. Range(idleConns) = {}
  BY DEF Init, Range
<1>. QED  BY <1>1, FS_EmptySet DEF Init, Registry

\* removeConn takes c, and nothing else, out of conns.
LEMMA RemoveConnConns ==
  ASSUME NEW c, NEW il, removeConn(c, il), IsFiniteSet(conns)
  PROVE  conns' = conns \ {c} /\ IsFiniteSet(conns')
<1>1. conns' = conns \ {c}
  BY DEF removeConn
<1>. QED  BY <1>1, FS_Subset

LEMMA NextRegistry ==
  Base /\ ExclusiveUse /\ Registry /\ [Next]_vars => Registry'
<1>. SUFFICES ASSUME Base, ExclusiveUse, Registry, [Next]_vars PROVE Registry'
  OBVIOUS
<1>. USE PoolAssumption
     DEF Base, Types, Holds, HasConnPc, DialStage, clientVars, listVars,
         connVars, adderVars, reaperVars
<1>1. Range(idleConns) \subseteq Conn
  BY RangeOfSeq
\* Steps that move no connection.
<1>2. ASSUME UNCHANGED <<cn, listVars, connVars, adding, reaperCn, closer>>,
             \A p \in Client :
               \/ pc'[p] = pc[p]
               \/ pc'[p] \notin {"register", "closeConn", "removeTurn",
                                 "removeClose", "using", "evict", "extern"}
               \/ (pc[p] = "removeTurn" /\ pc'[p] = "removeClose")
      PROVE  Registry'
  BY <1>2 DEF Registry
<1>3. ASSUME NEW p \in Client, Get(p) PROVE Registry'
  BY <1>2, <1>3 DEF Get
<1>4. ASSUME NEW p \in Client, waitTurn(p) PROVE Registry'
  BY <1>2, <1>4 DEF waitTurn
<1>5. ASSUME NEW p \in Client, waitTurnFails(p) PROVE Registry'
  BY <1>2, <1>5 DEF waitTurnFails
<1>6. ASSUME NEW p \in Client, popNothing(p) PROVE Registry'
  BY <1>2, <1>6 DEF popNothing
<1>7. ASSUME NEW p \in Client, GetFails(p) PROVE Registry'
  BY <1>2, <1>7 DEF GetFails
<1>8. ASSUME NEW p \in Client, NewConn(p) PROVE Registry'
  BY <1>2, <1>8 DEF NewConn
<1>9. ASSUME NEW p \in Client, freeTurn(p) PROVE Registry'
  BY <1>2, <1>9 DEF freeTurn
<1>10. ASSUME NEW p \in Client, RemoveFreeTurn(p) PROVE Registry'
  BY <1>2, <1>10 DEF RemoveFreeTurn
<1>11. ASSUME NEW p \in Client, ClientDial(p) PROVE Registry'
  BY <1>2, <1>11 DEF ClientDial
<1>12. CASE AdderDial
  BY <1>2, <1>12 DEF AdderDial
<1>13. CASE addIdleConnFailed
  BY <1>2, <1>13 DEF addIdleConnFailed
<1>14. CASE tryDialCheck
  BY <1>2, <1>14 DEF tryDialCheck
<1>15. CASE tryDialFails
  BY <1>2, <1>15 DEF tryDialFails
<1>16. CASE tryDialSucceeds
  BY <1>2, <1>16 DEF tryDialSucceeds
<1>17. CASE reaperTick
  BY <1>2, <1>17 DEF reaperTick
<1>18. CASE getTurn
  BY <1>2, <1>18 DEF getTurn
<1>19. CASE reaperFreeTurn
  BY <1>2, <1>19 DEF reaperFreeTurn
<1>20. CASE CloseCAS
  BY <1>20 DEF CloseCAS, Registry
\* A connection is dialled or registered.
<1>21. ASSUME NEW p \in Client, ClientDialed(p) PROVE Registry'
  BY <1>21 DEF ClientDialed, NewConnId, Referenced, Registry
<1>22. CASE AdderDialed
  <2>1. PICK c \in Conn : NewConnId(c) /\ adding' = adding \cup {c}
                           /\ open' = open \cup {c} /\ pooled' = pooled \cup {c}
    BY <1>22 DEF AdderDialed
  <2>2. IsFiniteSet(adding')
    BY <2>1, FS_AddElement DEF Registry
  <2>. QED
    BY <1>22, <2>1, <2>2 DEF AdderDialed, NewConnId, Referenced, Registry
<1>23. ASSUME NEW p \in Client, newConn(p) PROVE Registry'
  <2>1. IsFiniteSet(conns')
    BY <1>23, FS_AddElement DEF newConn, Registry
  <2>2. cn[p] \in Conn /\ cn[p] \notin conns /\ cn[p] \in open
    BY <1>23 DEF newConn, Registry
  <2>3. pooled' \subseteq pooled /\ pooled \ {cn[p]} \subseteq pooled'
    BY <1>23 DEF newConn
  <2>4. \A q \in Client : q # p => cn[q] # cn[p]
    BY <2>2 DEF ExclusiveUse
  <2>5. cn[p] \notin adding /\ cn[p] # reaperCn /\ cn[p] \notin Range(idleConns)
    BY <2>2 DEF ExclusiveUse
  <2>. QED
    BY <1>23, <2>1, <2>2, <2>3, <2>4, <2>5 DEF newConn, Registry
<1>24. CASE addIdleConn
  <2>1. PICK c \in adding : /\ conns' = conns \cup {c}
                            /\ idleConns' = Append(idleConns, c)
                            /\ adding' = adding \ {c}
    BY <1>24 DEF addIdleConn
  <2>2. Range(idleConns)' = Range(idleConns) \cup {c}
    BY <2>1, PushLast
  <2>3. IsFiniteSet(conns') /\ IsFiniteSet(adding')
    BY <2>1, FS_AddElement, FS_Subset DEF Registry
  <2>. QED
    BY <1>24, <2>1, <2>2, <2>3 DEF addIdleConn, Registry, ExclusiveUse
\* A connection is lent or comes back.
<1>25. ASSUME NEW p \in Client, NEW next \in {"using", "evict"}, popIdle(p, next)
      PROVE  Registry'
  <2>1. /\ Range(idleConns)' \subseteq Range(idleConns)
        /\ idleConns[Len(idleConns)] \in Range(idleConns)
    BY <1>25, PopLast DEF popIdle
  <2>. QED  BY <1>25, <2>1 DEF popIdle, Registry
<1>26. ASSUME NEW p \in Client, Put(p) PROVE Registry'
  <2>1. Range(idleConns)' = Range(idleConns) \cup {cn[p]}
    BY <1>26, PushLast DEF Put
  <2>. QED  BY <1>26, <2>1 DEF Put, Registry
<1>27. ASSUME NEW p \in Client, Remove(p) PROVE Registry'
  <2>1. conns' = conns \ {cn[p]} /\ IsFiniteSet(conns') /\ cn[p] \in Conn
    BY <1>27, RemoveConnConns DEF Remove, Registry
  <2>. QED  BY <1>27, <2>1 DEF Remove, Registry, ExclusiveUse
<1>28. ASSUME NEW p \in Client, CloseConn(p) PROVE Registry'
  <2>1. conns' = conns \ {cn[p]} /\ IsFiniteSet(conns') /\ cn[p] \in Conn
    BY <1>28, RemoveConnConns DEF CloseConn, Registry
  <2>. QED  BY <1>28, <2>1 DEF CloseConn, Registry, ExclusiveUse
<1>29. CASE reapStaleConn
  <2>1. CASE UNCHANGED <<reaperCn, listVars>>
    BY <1>2, <1>29, <2>1 DEF reapStaleConn
  <2>2. CASE /\ idleConns # <<>>
             /\ reaperCn' = Head(idleConns)
             /\ idleConns' = Tail(idleConns)
             /\ removeConn(Head(idleConns), idleConnsLen - 1)
    <3>1. conns' = conns \ {Head(idleConns)} /\ IsFiniteSet(conns')
      BY <2>2, RemoveConnConns DEF Registry
    <3>2. /\ Range(idleConns)' = Range(idleConns) \ {Head(idleConns)}
          /\ Head(idleConns) \in Range(idleConns)
      BY <2>2, PopFirst, ExclusiveUseParts
    <3>. QED
      BY <1>29, <2>2, <3>1, <3>2 DEF reapStaleConn, Registry, ExclusiveUse
  <2>. QED  BY <1>29, <2>1, <2>2 DEF reapStaleConn
\* A connection is closed.
<1>30. ASSUME NEW p \in Client, closeConn(p) PROVE Registry'
  <2>1. /\ cn[p] \in Conn
        /\ \A q \in Client : q # p => cn[q] # cn[p]
        /\ cn[p] \notin Range(idleConns) \cup adding
    BY <1>30 DEF closeConn, ExclusiveUse
  <2>. QED  BY <1>30, <2>1 DEF closeConn, Registry
<1>31. CASE reaperCloseConn
  BY <1>31 DEF reaperCloseConn, Registry, ExclusiveUse
<1>32. CASE Close
  BY <1>32, FS_EmptySet DEF Close, Registry, ExclusiveUse
<1>33. CASE UNCHANGED vars
  BY <1>2, <1>33 DEF vars
<1>. QED
  BY <1>3, <1>4, <1>5, <1>6, <1>7, <1>8, <1>9, <1>10, <1>11, <1>12, <1>13,
     <1>14, <1>15, <1>16, <1>17, <1>18, <1>19, <1>20, <1>21, <1>22, <1>23,
     <1>24, <1>25, <1>26, <1>27, <1>28, <1>29, <1>30, <1>31, <1>32, <1>33
  DEF Next, ClientStep, ClientGoesOn, AdderStep, HealerStep, ReaperStep

\* What Get lends, and what waits to be lent, is registered and open until Close
\* empties the pool.
LEMMA LoansAreUsable == Spec => []LentUsable
<1>1. Registry => LentUsable
  BY DEF Registry, LentUsable
<1>. QED
  BY <1>1, InitBase, NextBase, InitExclusive, NextExclusive, InitRegistry,
     NextRegistry, PTL DEF Spec

\* What Get lends is one usable connection in one pair of hands, whatever the
\* reaper, evictions and addIdleConn do at the same time.
THEOREM LoansAreSound == Spec => []LoansSound
BY LoansAreExclusive, LoansAreUsable, PTL DEF LoansSound

-----------------------------------------------------------------------------
(* The counters poolSize and idleConnsLen.                                   *)

Counted == conns \cap pooled

LEMMA CountedFinite ==
  ASSUME Registry
  PROVE  /\ IsFiniteSet(Counted) /\ Cardinality(Counted) \in Nat
         /\ IsFiniteSet(adding) /\ Cardinality(adding) \in Nat
<1>1. IsFiniteSet(Counted)
  BY FS_Subset DEF Registry, Counted
<1>. QED  BY <1>1, FS_CardinalityType DEF Registry

\* Pending as a function of the places and of the dialled connections.
PendingOf(f, m) == f["dialClosed"] + f["dialBreaker"] + f["lastErr"]
                     + f["dial"] + f["countErr"] + f["failed"] + m

LEMMA PendingArithmetic ==
  ASSUME NEW f \in [DialStage -> Nat], NEW m \in Nat, NEW n \in Nat
  PROVE  /\ PendingOf(f, m) \in Nat
         /\ PendingOf([f EXCEPT !["dialClosed"] = @ + n], m) = PendingOf(f, m) + n
         /\ PendingOf([f EXCEPT !["dial"] = @ - 1], m + 1) = PendingOf(f, m)
         /\ PendingOf([f EXCEPT !["failed"] = @ - 1], m) = PendingOf(f, m) - 1
         /\ PendingOf(f, m - 1) = PendingOf(f, m) - 1
BY DEF PendingOf, DialStage

LEMMA PendingMove ==
  ASSUME NEW f \in [DialStage -> Nat], NEW m \in Nat,
         NEW s \in DialStage, NEW t \in DialStage, s # t,
         NEW g, g[s] = f[s] - 1, g[t] = f[t] + 1,
         \A u \in DialStage \ {s, t} : g[u] = f[u]
  PROVE  PendingOf(g, m) = PendingOf(f, m)
BY DEF PendingOf, DialStage

LEMMA PendingIs ==
  /\ Pending = PendingOf(adder, Cardinality(adding))
  /\ Pending' = PendingOf(adder', Cardinality(adding'))
BY DEF Pending, PendingOf

LEMMA InitCounters == Init => PoolAccounting
<1>. SUFFICES ASSUME Init PROVE PoolAccounting
  OBVIOUS
<1>1. Cardinality(conns \cap pooled) = 0 /\ Cardinality(adding) = 0 /\ Len(idleConns) = 0
  BY FS_EmptySet DEF Init
<1>2. Shortage(0, 0) \in Nat /\ 0 + Shortage(0, 0) <= PoolSize
  BY ShortageBounds, PoolAssumption
<1>3. Pending = Shortage(0, 0)
  BY <1>1, <1>2 DEF Init, Pending, DialStage
<1>. QED  BY <1>1, <1>2, <1>3 DEF Init, PoolAccounting

\* checkMinIdleConns raises both counters by the goroutines it starts.
LEMMA RefillCounts ==
  ASSUME Types, Registry, NEW ps \in Int, NEW il \in Int, ps <= PoolSize,
         checkMinIdleConns(ps, il), adding' = adding
  PROVE  \E n \in Nat : /\ poolSize' = ps + n
                        /\ idleConnsLen' = il + n
                        /\ Pending' = Pending + n
                        /\ poolSize' <= PoolSize
<1>1. Shortage(ps, il) \in Nat /\ ps + Shortage(ps, il) <= PoolSize
  BY ShortageBounds
<1>2. Pending' = Pending + Shortage(ps, il)
  BY <1>1, CountedFinite, PendingIs, PendingArithmetic
  DEF checkMinIdleConns, Types
<1>. QED  BY <1>1, <1>2 DEF checkMinIdleConns

\* removeConn takes a pooled connection off poolSize, and no other.
LEMMA RemoveCounts ==
  ASSUME Types, Registry, NEW c \in Conn, NEW il \in Int, removeConn(c, il),
         adding' = adding, pooled' = pooled,
         poolSize = Cardinality(Counted) + Pending, poolSize <= PoolSize,
         Pending \in Nat
  PROVE  \E n \in Nat : /\ poolSize' = Cardinality(Counted') + Pending'
                        /\ idleConnsLen' = il + n
                        /\ Pending' = Pending + n
                        /\ poolSize' <= PoolSize
<1>1. CASE c \in conns /\ c \in pooled
  <2>1. Counted' = Counted \ {c} /\ c \in Counted
    BY <1>1 DEF removeConn, Counted
  <2>2. Cardinality(Counted') = Cardinality(Counted) - 1
    BY <2>1, CountedFinite, FS_RemoveElement
  <2>3. checkMinIdleConns(poolSize - 1, il) /\ poolSize - 1 \in Int
        /\ poolSize - 1 <= PoolSize
    BY <1>1, PoolAssumption DEF removeConn, Types
  <2>4. PICK n \in Nat : /\ poolSize' = poolSize - 1 + n
                         /\ idleConnsLen' = il + n
                         /\ Pending' = Pending + n
                         /\ poolSize' <= PoolSize
    BY <2>3, RefillCounts
  <2>. QED  BY <2>2, <2>4, CountedFinite
<1>2. CASE ~(c \in conns /\ c \in pooled)
  <2>1. Counted' = Counted
    BY <1>2 DEF removeConn, Counted
  <2>2. Pending' = Pending /\ poolSize' = poolSize /\ idleConnsLen' = il + 0
    BY <1>2 DEF removeConn, Pending
  <2>. QED  BY <2>1, <2>2
<1>. QED  BY <1>1, <1>2

\* A goroutine of checkMinIdleConns keeps its reservation while it dials.
LEMMA PendingDial ==
  ASSUME Types, Registry, AdderDial
  PROVE  Pending' = Pending
<1>1. PICK s \in DialStage, t \in DialStage :
        /\ adder[s] > 0
        /\ dialConn(s, t)
        /\ adder' = [adder EXCEPT ![s] = @ - 1, ![t] = @ + 1]
  BY DEF AdderDial
<1>2. s # t
  BY <1>1, DialConnTypes DEF Types
<1>3. adding' = adding /\ Cardinality(adding) \in Nat
  BY CountedFinite DEF AdderDial
<1>4. adder \in [DialStage -> Nat]
  BY DEF Types
<1>5. /\ adder'[s] = adder[s] - 1 /\ adder'[t] = adder[t] + 1
      /\ \A u \in DialStage \ {s, t} : adder'[u] = adder[u]
  BY <1>1, <1>2, <1>4
<1>6. PendingOf(adder', Cardinality(adding)) = PendingOf(adder, Cardinality(adding))
  BY <1>2, <1>3, <1>4, <1>5, PendingMove
<1>. QED  BY <1>3, <1>6, PendingIs

LEMMA NextCounters ==
  Base /\ ExclusiveUse /\ Registry /\ PoolAccounting /\ [Next]_vars
    => PoolAccounting'
<1>. SUFFICES ASSUME Base, ExclusiveUse, Registry, PoolAccounting, [Next]_vars,
                     closer' # "done"
              PROVE  PoolAccounting'
  BY DEF PoolAccounting
<1>. USE PoolAssumption
     DEF Base, Types, Holds, HasConnPc, clientVars, listVars, countVars,
         connVars, adderVars, reaperVars
<1>1. closer # "done"
  <2>1. ~Close
    BY DEF Close
  <2>2. closer' = closer \/ closer = "no"
    BY <2>1
    DEF Next, ClientStep, ClientGoesOn, AdderStep, HealerStep, ReaperStep, vars,
        Get, waitTurn, waitTurnFails, popNothing, GetFails, NewConn, newConn,
        ClientDial, ClientDialed, Put, freeTurn, Remove, RemoveFreeTurn,
        CloseConn, closeConn, popIdle, AdderDial, AdderDialed, addIdleConn,
        addIdleConnFailed, tryDialCheck, tryDialFails, tryDialSucceeds,
        reaperTick, getTurn, reapStaleConn, reaperFreeTurn, reaperCloseConn,
        CloseCAS
  <2>. QED  BY <2>2
<1>2. /\ poolSize = Cardinality(Counted) + Pending
      /\ idleConnsLen = Len(idleConns) + Pending
      /\ poolSize <= PoolSize
      /\ Len(idleConns) \in Nat
  BY <1>1, LenProperties DEF PoolAccounting, Counted
<1>3. Pending \in Nat /\ Cardinality(Counted) \in Nat /\ Cardinality(adding) \in Nat
  BY CountedFinite, PendingIs, PendingArithmetic
<1>4. Range(idleConns) \subseteq Conn
  BY RangeOfSeq
\* It is enough to follow the two sums.
<1>5. ASSUME poolSize' = Cardinality(Counted') + Pending',
             idleConnsLen' = Len(idleConns') + Pending',
             poolSize' <= PoolSize
      PROVE  PoolAccounting'
  BY <1>5 DEF PoolAccounting, Counted
\* Steps that change neither the counters nor what they count.
<1>6. ASSUME UNCHANGED <<poolSize, idleConnsLen, adder, adding>>,
             Counted' = Counted, Len(idleConns') = Len(idleConns)
      PROVE  PoolAccounting'
  BY <1>2, <1>5, <1>6 DEF Pending
<1>7. ASSUME NEW p \in Client, Get(p) PROVE PoolAccounting'
  BY <1>6, <1>7 DEF Get, Counted
<1>8. ASSUME NEW p \in Client, waitTurn(p) PROVE PoolAccounting'
  BY <1>6, <1>8 DEF waitTurn, Counted
<1>9. ASSUME NEW p \in Client, waitTurnFails(p) PROVE PoolAccounting'
  BY <1>6, <1>9 DEF waitTurnFails, Counted
<1>10. ASSUME NEW p \in Client, popNothing(p) PROVE PoolAccounting'
  BY <1>6, <1>10 DEF popNothing, Counted
<1>11. ASSUME NEW p \in Client, GetFails(p) PROVE PoolAccounting'
  BY <1>6, <1>11 DEF GetFails, Counted
<1>12. ASSUME NEW p \in Client, NewConn(p) PROVE PoolAccounting'
  BY <1>6, <1>12 DEF NewConn, Counted
<1>13. ASSUME NEW p \in Client, freeTurn(p) PROVE PoolAccounting'
  BY <1>6, <1>13 DEF freeTurn, Counted
<1>14. ASSUME NEW p \in Client, ClientDial(p) PROVE PoolAccounting'
  BY <1>6, <1>14 DEF ClientDial, Counted
<1>15. ASSUME NEW p \in Client, RemoveFreeTurn(p) PROVE PoolAccounting'
  BY <1>6, <1>15 DEF RemoveFreeTurn, Counted
<1>16. CASE tryDialCheck
  BY <1>6, <1>16 DEF tryDialCheck, Counted
<1>17. CASE tryDialFails
  BY <1>6, <1>17 DEF tryDialFails, Counted
<1>18. CASE tryDialSucceeds
  BY <1>6, <1>18 DEF tryDialSucceeds, Counted
<1>19. CASE reaperTick
  BY <1>6, <1>19 DEF reaperTick, Counted
<1>20. CASE getTurn
  BY <1>6, <1>20 DEF getTurn, Counted
<1>21. CASE reaperFreeTurn
  BY <1>6, <1>21 DEF reaperFreeTurn, Counted
<1>22. CASE CloseCAS
  BY <1>6, <1>22 DEF CloseCAS, Counted
<1>23. ASSUME NEW p \in Client, ClientDialed(p) PROVE PoolAccounting'
  <2>1. Counted' = Counted
    BY <1>23 DEF ClientDialed, NewConnId, Referenced, Counted
  <2>. QED  BY <1>6, <1>23, <2>1 DEF ClientDialed
<1>24. ASSUME NEW p \in Client, closeConn(p) PROVE PoolAccounting'
  <2>1. Counted' = Counted
    BY <1>24 DEF closeConn, Registry, Counted
  <2>. QED  BY <1>6, <1>24, <2>1 DEF closeConn
<1>25. CASE reaperCloseConn
  <2>1. Counted' = Counted
    BY <1>25 DEF reaperCloseConn, Registry, Counted
  <2>. QED  BY <1>6, <1>25, <2>1 DEF reaperCloseConn
\* Registration.
<1>26. ASSUME NEW p \in Client, newConn(p) PROVE PoolAccounting'
  <2>1. cn[p] \in Conn /\ cn[p] \notin conns /\ Pending' = Pending
        /\ idleConns' = idleConns /\ idleConnsLen' = idleConnsLen
    BY <1>26 DEF newConn, Registry, Pending
  <2>2. CASE cn[p] \in pooled /\ poolSize < PoolSize
    <3>1. Counted' = Counted \cup {cn[p]} /\ cn[p] \notin Counted
      BY <1>26, <2>1, <2>2 DEF newConn, Counted
    <3>2. Cardinality(Counted') = Cardinality(Counted) + 1
      BY <3>1, CountedFinite, FS_AddElement
    <3>3. poolSize' = poolSize + 1
      BY <1>26, <2>2 DEF newConn
    <3>4. poolSize' = Cardinality(Counted') + Pending'
      BY <1>2, <1>3, <2>1, <3>2, <3>3
    <3>5. poolSize' <= PoolSize
      BY <2>2, <3>3
    <3>. QED  BY <1>2, <1>5, <2>1, <3>4, <3>5
  <2>3. CASE ~(cn[p] \in pooled /\ poolSize < PoolSize)
    <3>1. Counted' = Counted /\ poolSize' = poolSize
      BY <1>26, <2>1, <2>3 DEF newConn, Counted
    <3>. QED  BY <1>2, <1>5, <2>1, <3>1
  <2>. QED  BY <2>2, <2>3
<1>27. CASE AdderDial
  <2>1. Pending' = Pending /\ Counted' = Counted
    BY <1>27, PendingDial DEF AdderDial, Counted
  <2>. QED  BY <1>2, <1>5, <1>27, <2>1 DEF AdderDial
<1>28. CASE AdderDialed
  <2>1. PICK c \in Conn : NewConnId(c) /\ adding' = adding \cup {c}
                           /\ pooled' = pooled \cup {c}
    BY <1>28 DEF AdderDialed
  <2>2. Cardinality(adding') = Cardinality(adding) + 1
    BY <2>1, CountedFinite, FS_AddElement DEF NewConnId, Referenced
  <2>3. Counted' = Counted
    BY <1>28, <2>1 DEF AdderDialed, NewConnId, Referenced, Counted
  <2>4. Pending' = Pending
    <3>1. PendingOf([adder EXCEPT !["dial"] = @ - 1], Cardinality(adding) + 1)
            = PendingOf(adder, Cardinality(adding))
      BY <1>3, PendingArithmetic
    <3>. QED  BY <1>28, <2>2, <3>1, PendingIs DEF AdderDialed
  <2>. QED  BY <1>2, <1>5, <1>28, <2>3, <2>4 DEF AdderDialed
<1>29. CASE addIdleConn
  <2>1. PICK c \in adding : /\ conns' = conns \cup {c}
                            /\ idleConns' = Append(idleConns, c)
                            /\ adding' = adding \ {c}
    BY <1>29 DEF addIdleConn
  <2>2. Counted' = Counted \cup {c} /\ c \notin Counted
    BY <1>29, <2>1 DEF addIdleConn, Counted, Registry
  <2>3. Cardinality(Counted') = Cardinality(Counted) + 1
    BY <2>2, CountedFinite, FS_AddElement
  <2>4. Cardinality(adding') = Cardinality(adding) - 1
    BY <2>1, CountedFinite, FS_RemoveElement
  <2>5. Len(idleConns') = Len(idleConns) + 1
    BY <2>1, PushLast
  <2>6. Pending' = Pending - 1
    <3>1. PendingOf(adder, Cardinality(adding) - 1)
            = PendingOf(adder, Cardinality(adding)) - 1
      BY <1>3, PendingArithmetic
    <3>. QED  BY <1>29, <2>4, <3>1, PendingIs DEF addIdleConn
  <2>. QED  BY <1>2, <1>3, <1>5, <1>29, <2>3, <2>5, <2>6 DEF addIdleConn
<1>30. CASE addIdleConnFailed
  <2>1. Pending' = Pending - 1 /\ Counted' = Counted
    BY <1>30, <1>3, PendingIs, PendingArithmetic DEF addIdleConnFailed, Counted
  <2>. QED  BY <1>2, <1>3, <1>5, <1>30, <2>1 DEF addIdleConnFailed
\* The idle list and removals.
<1>31. ASSUME NEW p \in Client, Put(p) PROVE PoolAccounting'
  <2>1. Len(idleConns') = Len(idleConns) + 1
    BY <1>31, PushLast DEF Put
  <2>2. Counted' = Counted /\ Pending' = Pending
    BY <1>31 DEF Put, Counted, Pending
  <2>. QED  BY <1>2, <1>3, <1>5, <1>31, <2>1, <2>2 DEF Put
<1>32. ASSUME NEW p \in Client, NEW next \in {"using", "evict"}, popIdle(p, next)
      PROVE  PoolAccounting'
  <2>1. Len(idleConns') = Len(idleConns) - 1
    BY <1>32, PopLast DEF popIdle
  <2>2. Counted' = Counted
    BY <1>32 DEF popIdle, Counted
  <2>3. PICK n \in Nat : /\ poolSize' = poolSize + n
                         /\ idleConnsLen' = idleConnsLen - 1 + n
                         /\ Pending' = Pending + n
                         /\ poolSize' <= PoolSize
    <3>1. poolSize \in Int /\ idleConnsLen - 1 \in Int /\ adding' = adding
          /\ checkMinIdleConns(poolSize, idleConnsLen - 1)
      BY <1>32 DEF popIdle
    <3>. QED  BY <1>2, <3>1, RefillCounts
  <2>. QED  BY <1>2, <1>3, <1>5, <2>1, <2>2, <2>3
<1>33. ASSUME NEW p \in Client, Remove(p) PROVE PoolAccounting'
  <2>1. PICK n \in Nat : /\ poolSize' = Cardinality(Counted') + Pending'
                         /\ idleConnsLen' = idleConnsLen + n
                         /\ Pending' = Pending + n
                         /\ poolSize' <= PoolSize
    BY <1>2, <1>3, <1>33, RemoveCounts DEF Remove
  <2>. QED  BY <1>2, <1>3, <1>5, <1>33, <2>1 DEF Remove
<1>34. ASSUME NEW p \in Client, CloseConn(p) PROVE PoolAccounting'
  <2>1. PICK n \in Nat : /\ poolSize' = Cardinality(Counted') + Pending'
                         /\ idleConnsLen' = idleConnsLen + n
                         /\ Pending' = Pending + n
                         /\ poolSize' <= PoolSize
    BY <1>2, <1>3, <1>34, RemoveCounts DEF CloseConn
  <2>. QED  BY <1>2, <1>3, <1>5, <1>34, <2>1 DEF CloseConn
<1>35. CASE reapStaleConn
  <2>1. CASE UNCHANGED <<listVars, countVars, adder>>
    BY <1>6, <1>35, <2>1 DEF reapStaleConn, Counted
  <2>2. CASE /\ idleConns # <<>>
             /\ idleConns' = Tail(idleConns)
             /\ removeConn(Head(idleConns), idleConnsLen - 1)
    <3>1. Len(idleConns') = Len(idleConns) - 1 /\ Head(idleConns) \in Conn
      BY <2>2, PopFirst
    <3>2. PICK n \in Nat : /\ poolSize' = Cardinality(Counted') + Pending'
                           /\ idleConnsLen' = idleConnsLen - 1 + n
                           /\ Pending' = Pending + n
                           /\ poolSize' <= PoolSize
      <4>1. idleConnsLen - 1 \in Int /\ adding' = adding /\ pooled' = pooled
        BY <1>35 DEF reapStaleConn
      <4>. QED  BY <1>2, <1>3, <2>2, <3>1, <4>1, RemoveCounts
    <3>. QED  BY <1>2, <1>3, <1>5, <3>1, <3>2
  <2>. QED  BY <1>35, <2>1, <2>2 DEF reapStaleConn
<1>36. CASE Close
  BY <1>36 DEF Close
<1>37. CASE UNCHANGED vars
  BY <1>6, <1>37 DEF vars, Counted
<1>. QED
  BY <1>7, <1>8, <1>9, <1>10, <1>11, <1>12, <1>13, <1>14, <1>15, <1>16,
     <1>17, <1>18, <1>19, <1>20, <1>21, <1>22, <1>23, <1>24, <1>25, <1>26,
     <1>27, <1>28, <1>29, <1>30, <1>31, <1>32, <1>33, <1>34, <1>35, <1>36,
     <1>37
  DEF Next, ClientStep, ClientGoesOn, AdderStep, HealerStep, ReaperStep

\* poolSize and idleConnsLen are exact, reservations included, and poolSize
\* never passes the configured size, until Close resets them.
LEMMA CountersAreExact == Spec => []PoolAccounting
BY InitBase, NextBase, InitExclusive, NextExclusive, InitRegistry,
   NextRegistry, InitCounters, NextCounters, PTL DEF Spec

\* Turns and counters are exact on every path of Get, Put, Remove, the reaper
\* and addIdleConn, for every pool size and set of clients.
THEOREM AccountsBalance == Spec => []Accounting
BY TurnsBalance, CountersAreExact, PTL DEF Accounting

-----------------------------------------------------------------------------
(* Sockets.                                                                  *)

\* The clients that are about to register or to close their connection.
Carriers == {p \in Client : pc[p] \in {"register", "closeConn", "removeTurn",
                                       "removeClose"}}

\* The inductive form of NoLostSocket, which holds after Close too: a socket
\* dialled across Close is registered in conns, though nobody looks there.
SocketsPlaced == open \subseteq conns \cup InTransit

LEMMA SocketsPlacedParts ==
  SocketsPlaced <=> \A c \in open : \/ c \in conns \cup adding \cup {reaperCn}
                                   \/ \E p \in Carriers : c = cn[p]
BY DEF SocketsPlaced, InTransit, Carriers

LEMMA InitSockets == Init => SocketsPlaced
BY DEF Init, SocketsPlaced

LEMMA NextSockets ==
  Base /\ ExclusiveUse /\ Registry /\ SocketsPlaced /\ [Next]_vars
    => SocketsPlaced'
<1>. SUFFICES ASSUME Base, ExclusiveUse, Registry, SocketsPlaced, [Next]_vars,
                     NEW c \in open'
              PROVE  \/ c \in conns' \cup adding' \cup {reaperCn'}
                     \/ \E p \in Carriers' : c = cn'[p]
  BY DEF SocketsPlaced, InTransit, Carriers
<1>. DEFINE Kept == \/ c \in conns' \cup adding' \cup {reaperCn'}
                    \/ \E p \in Carriers' : c = cn'[p]
<1>. USE PoolAssumption
     DEF Base, Types, Holds, HasConnPc, DialStage, Carriers, clientVars,
         listVars, connVars, adderVars, reaperVars
\* A socket that was open already.
<1>1. ASSUME c \in open
      PROVE  \/ c \in conns \cup adding \cup {reaperCn}
             \/ \E p \in Carriers : c = cn[p]
  BY <1>1, SocketsPlacedParts
<1>2. ASSUME open' = open, conns' = conns, adding' = adding,
             reaperCn' = reaperCn, cn' = cn, Carriers \subseteq Carriers'
      PROVE  Kept
  BY <1>1, <1>2
<1>3. ASSUME NEW p \in Client, Get(p) PROVE Kept
  BY <1>2, <1>3 DEF Get
<1>4. ASSUME NEW p \in Client, waitTurn(p) PROVE Kept
  BY <1>2, <1>4 DEF waitTurn
<1>5. ASSUME NEW p \in Client, waitTurnFails(p) PROVE Kept
  BY <1>2, <1>5 DEF waitTurnFails
<1>6. ASSUME NEW p \in Client, popNothing(p) PROVE Kept
  BY <1>2, <1>6 DEF popNothing
<1>7. ASSUME NEW p \in Client, GetFails(p) PROVE Kept
  BY <1>2, <1>7 DEF GetFails
<1>8. ASSUME NEW p \in Client, NewConn(p) PROVE Kept
  BY <1>2, <1>8 DEF NewConn
<1>9. ASSUME NEW p \in Client, freeTurn(p) PROVE Kept
  BY <1>2, <1>9 DEF freeTurn
<1>10. ASSUME NEW p \in Client, RemoveFreeTurn(p) PROVE Kept
  BY <1>2, <1>10 DEF RemoveFreeTurn
<1>11. ASSUME NEW p \in Client, ClientDial(p) PROVE Kept
  <2>1. PICK t \in DialStage : dialConn(pc[p], t) /\ pc' = [pc EXCEPT ![p] = t]
    BY <1>11 DEF ClientDial
  <2>2. pc[p] \in DialStage
    BY <2>1, DialConnTypes
  <2>. QED  BY <1>2, <1>11, <2>1, <2>2 DEF ClientDial
<1>12. CASE AdderDial
  BY <1>2, <1>12 DEF AdderDial
<1>13. CASE addIdleConnFailed
  BY <1>2, <1>13 DEF addIdleConnFailed
<1>14. CASE tryDialCheck
  BY <1>2, <1>14 DEF tryDialCheck
<1>15. CASE tryDialFails
  BY <1>2, <1>15 DEF tryDialFails
<1>16. CASE tryDialSucceeds
  BY <1>2, <1>16 DEF tryDialSucceeds
<1>17. CASE reaperTick
  BY <1>2, <1>17 DEF reaperTick
<1>18. CASE getTurn
  BY <1>2, <1>18 DEF getTurn
<1>19. CASE reaperFreeTurn
  BY <1>2, <1>19 DEF reaperFreeTurn
<1>20. CASE CloseCAS
  BY <1>2, <1>20 DEF CloseCAS
<1>21. ASSUME NEW p \in Client, ClientDialed(p) PROVE Kept
  BY <1>1, <1>21 DEF ClientDialed
<1>22. ASSUME NEW p \in Client, newConn(p) PROVE Kept
  BY <1>1, <1>22 DEF newConn
<1>23. ASSUME NEW p \in Client, closeConn(p) PROVE Kept
  BY <1>1, <1>23 DEF closeConn
<1>24. ASSUME NEW p \in Client, Put(p) PROVE Kept
  BY <1>1, <1>24 DEF Put
<1>25. ASSUME NEW p \in Client, NEW next \in {"using", "evict"}, popIdle(p, next)
      PROVE  Kept
  BY <1>1, <1>25 DEF popIdle
<1>26. ASSUME NEW p \in Client, Remove(p) PROVE Kept
  <2>1. conns' = conns \ {cn[p]}
    BY <1>26 DEF Remove, removeConn
  <2>2. p \in Carriers' /\ cn' = cn /\ Carriers \subseteq Carriers'
    BY <1>26 DEF Remove
  <2>. QED  BY <1>1, <1>26, <2>1, <2>2 DEF Remove
<1>27. ASSUME NEW p \in Client, CloseConn(p) PROVE Kept
  <2>1. conns' = conns \ {cn[p]}
    BY <1>27 DEF CloseConn, removeConn
  <2>2. p \in Carriers' /\ cn' = cn /\ Carriers \subseteq Carriers'
    BY <1>27 DEF CloseConn
  <2>. QED  BY <1>1, <1>27, <2>1, <2>2 DEF CloseConn
<1>28. CASE AdderDialed
  BY <1>1, <1>28 DEF AdderDialed
<1>29. CASE addIdleConn
  BY <1>1, <1>29 DEF addIdleConn
<1>30. CASE reapStaleConn
  <2>1. CASE UNCHANGED <<reaperCn, listVars>>
    BY <1>2, <1>30, <2>1 DEF reapStaleConn
  <2>2. CASE /\ reaperCn' = Head(idleConns)
             /\ removeConn(Head(idleConns), idleConnsLen - 1)
    <3>1. conns' = conns \ {Head(idleConns)}
      BY <2>2 DEF removeConn
    <3>2. reaperCn \notin Conn
      BY <1>30 DEF reapStaleConn
    <3>. QED  BY <1>1, <1>30, <2>2, <3>1, <3>2 DEF reapStaleConn
  <2>. QED  BY <1>30, <2>1, <2>2 DEF reapStaleConn
<1>31. CASE reaperCloseConn
  BY <1>1, <1>31 DEF reaperCloseConn
<1>32. CASE Close
  BY <1>1, <1>32 DEF Close
<1>33. CASE UNCHANGED vars
  BY <1>2, <1>33 DEF vars
<1>. QED
  BY <1>3, <1>4, <1>5, <1>6, <1>7, <1>8, <1>9, <1>10, <1>11, <1>12, <1>13,
     <1>14, <1>15, <1>16, <1>17, <1>18, <1>19, <1>20, <1>21, <1>22, <1>23,
     <1>24, <1>25, <1>26, <1>27, <1>28, <1>29, <1>30, <1>31, <1>32, <1>33
  DEF Next, ClientStep, ClientGoesOn, AdderStep, HealerStep, ReaperStep

\* Until Close has emptied the pool no open socket is out of reach of Close, of
\* its holder or of the reaper.
THEOREM SocketsAreKept == Spec => []NoLostSocket
<1>1. SocketsPlaced => NoLostSocket
  BY DEF SocketsPlaced, NoLostSocket
<1>. QED
  BY <1>1, InitBase, NextBase, InitExclusive, NextExclusive, InitRegistry,
     NextRegistry, InitSockets, NextSockets, PTL DEF Spec

-----------------------------------------------------------------------------
(* The pool implements its contract, ConnLending, for every pool size.       *)

Borrowers == {p \in Client : pc[p] = "using"}

LEMMA BorrowersFinite == IsFiniteSet(Borrowers) /\ Cardinality(Borrowers) \in Nat
<1>1. IsFiniteSet(Borrowers)
  BY PoolAssumption, FS_Subset DEF Borrowers
<1>. QED  BY <1>1, FS_CardinalityType

\* What the invariants give at each step.
RefInv == Base /\ TurnInv /\ ExclusiveUse

LEMMA InitRefines == Init => Contract!Init
<1>. SUFFICES ASSUME Init PROVE Contract!Init
  OBVIOUS
<1>1. Range(idleConns) = {}
  BY DEF Init, Range
<1>2. loansBar = 0
  BY FS_EmptySet DEF Init, loansBar
<1>. QED  BY <1>1, <1>2 DEF Init, Contract!Init, lentBar, stockBar

\* The borrowers are clients that hold a turn, so one that is about to borrow
\* finds fewer than PoolSize others.
LEMMA RoomForLoan ==
  ASSUME RefInv, NEW p \in TurnHolders, pc[p] # "using"
  PROVE  loansBar < PoolSize
<1>1. Borrowers \subseteq TurnHolders \ {p}
  BY DEF Borrowers, TurnHolders, HoldsTurn
<1>2. /\ IsFiniteSet(TurnHolders \ {p})
      /\ Cardinality(TurnHolders \ {p}) = Cardinality(TurnHolders) - 1
  BY TurnHoldersFinite, FS_RemoveElement
<1>3. Cardinality(Borrowers) <= Cardinality(TurnHolders) - 1
  BY <1>1, <1>2, FS_Subset
<1>4. Cardinality(TurnHolders) <= PoolSize
  BY TurnHoldersFinite, PoolAssumption
  DEF RefInv, Base, Types, TurnInv, TurnAccounting, ReaperTurns
<1>5. loansBar = Cardinality(Borrowers)
  BY DEF loansBar, Borrowers
<1>. QED
  BY <1>3, <1>4, <1>5, TurnHoldersFinite, BorrowersFinite, PoolAssumption

\* A client starts, or stops, using a connection.
LEMMA LoansChange ==
  ASSUME NEW p \in Client, \A q \in Client \ {p} : pc'[q] = pc[q]
  PROVE  /\ pc[p] # "using" /\ pc'[p] = "using" => loansBar' = loansBar + 1
         /\ pc[p] = "using" /\ pc'[p] # "using" => loansBar' = loansBar - 1
<1>1. loansBar = Cardinality(Borrowers) /\ loansBar' = Cardinality(Borrowers')
  BY DEF loansBar, Borrowers
<1>2. ASSUME pc[p] # "using", pc'[p] = "using" PROVE loansBar' = loansBar + 1
  <2>1. Borrowers' = Borrowers \cup {p} /\ p \notin Borrowers
    BY <1>2 DEF Borrowers
  <2>. QED  BY <1>1, <2>1, BorrowersFinite, FS_AddElement
<1>3. ASSUME pc[p] = "using", pc'[p] # "using" PROVE loansBar' = loansBar - 1
  <2>1. Borrowers' = Borrowers \ {p} /\ p \in Borrowers
    BY <1>3 DEF Borrowers
  <2>. QED  BY <1>1, <2>1, BorrowersFinite, FS_RemoveElement
<1>. QED  BY <1>2, <1>3

LEMMA NextRefines ==
  RefInv /\ [Next]_vars => [Contract!Next]_(Contract!vars)
<1>. SUFFICES ASSUME RefInv, [Next]_vars
              PROVE  Contract!Next \/ UNCHANGED Contract!vars
  OBVIOUS
<1>. DEFINE Goal == Contract!Next \/ UNCHANGED <<lentBar, loansBar, stockBar>>
<1>. SUFFICES Goal
  BY DEF Contract!vars
<1>. USE PoolAssumption
     DEF RefInv, Base, Types, Holds, HasConnPc, DialStage, clientVars,
         listVars, adderVars, reaperVars
<1>1. stockBar \subseteq Conn
  BY RangeOfSeq DEF stockBar
\* Steps that borrowers do not see.
<1>2. ASSUME idleConns' = idleConns,
             \A q \in Client : /\ pc'[q] = "using" <=> pc[q] = "using"
                               /\ pc[q] = "using" => cn'[q] = cn[q]
      PROVE  Goal
  <2>1. {q \in Client : pc'[q] = "using"} = {q \in Client : pc[q] = "using"}
    BY <1>2
  <2>2. lentBar' = lentBar
    BY <1>2 DEF lentBar
  <2>. QED  BY <1>2, <2>1, <2>2 DEF loansBar, stockBar
<1>3. ASSUME NEW p \in Client, Get(p) PROVE Goal
  BY <1>2, <1>3 DEF Get
<1>4. ASSUME NEW p \in Client, waitTurn(p) PROVE Goal
  BY <1>2, <1>4 DEF waitTurn
<1>5. ASSUME NEW p \in Client, waitTurnFails(p) PROVE Goal
  BY <1>2, <1>5 DEF waitTurnFails
<1>6. ASSUME NEW p \in Client, popNothing(p) PROVE Goal
  BY <1>2, <1>6 DEF popNothing
<1>7. ASSUME NEW p \in Client, GetFails(p) PROVE Goal
  BY <1>2, <1>7 DEF GetFails
<1>8. ASSUME NEW p \in Client, NewConn(p) PROVE Goal
  BY <1>2, <1>8 DEF NewConn
<1>9. ASSUME NEW p \in Client, freeTurn(p) PROVE Goal
  BY <1>2, <1>9 DEF freeTurn
<1>10. ASSUME NEW p \in Client, RemoveFreeTurn(p) PROVE Goal
  BY <1>2, <1>10 DEF RemoveFreeTurn
<1>11. ASSUME NEW p \in Client, ClientDial(p) PROVE Goal
  BY <1>2, <1>11 DEF ClientDial, dialConn, dialFails, countDialError
<1>12. ASSUME NEW p \in Client, ClientDialed(p) PROVE Goal
  BY <1>2, <1>12 DEF ClientDialed
<1>13. ASSUME NEW p \in Client, CloseConn(p) PROVE Goal
  BY <1>2, <1>13 DEF CloseConn
<1>14. ASSUME NEW p \in Client, closeConn(p) PROVE Goal
  BY <1>2, <1>14 DEF closeConn
<1>15. CASE AdderDial
  BY <1>2, <1>15 DEF AdderDial
<1>16. CASE AdderDialed
  BY <1>2, <1>16 DEF AdderDialed
<1>17. CASE addIdleConnFailed
  BY <1>2, <1>17 DEF addIdleConnFailed
<1>18. CASE tryDialCheck
  BY <1>2, <1>18 DEF tryDialCheck
<1>19. CASE tryDialFails
  BY <1>2, <1>19 DEF tryDialFails
<1>20. CASE tryDialSucceeds
  BY <1>2, <1>20 DEF tryDialSucceeds
<1>21. CASE reaperTick
  BY <1>2, <1>21 DEF reaperTick
<1>22. CASE getTurn
  BY <1>2, <1>22 DEF getTurn
<1>23. CASE reaperFreeTurn
  BY <1>2, <1>23 DEF reaperFreeTurn
<1>24. CASE reaperCloseConn
  BY <1>2, <1>24 DEF reaperCloseConn
<1>25. CASE CloseCAS
  BY <1>2, <1>25 DEF CloseCAS
<1>26. CASE UNCHANGED vars
  BY <1>2, <1>26 DEF vars
\* Loans.
<1>27. ASSUME NEW p \in Client, NEW next \in {"using", "evict"}, popIdle(p, next)
      PROVE  Goal
  <2>. DEFINE c == idleConns[Len(idleConns)]
  <2>1. stockBar' = stockBar \ {c} /\ c \in stockBar /\ c \in Conn
    BY <1>27, PopLast, ExclusiveUseParts DEF popIdle, stockBar
  <2>2. /\ cn' = [cn EXCEPT ![p] = c] /\ pc' = [pc EXCEPT ![p] = next]
        /\ pc[p] = "pop"
    BY <1>27 DEF popIdle
  <2>. HIDE DEF c
  <2>3. CASE next = "using"
    <3>1. lentBar' = [lentBar EXCEPT ![p] = c] /\ lentBar[p] = NoConn
      BY <2>2, <2>3 DEF lentBar
    <3>2. \A q \in Client : lentBar[q] # c
      BY <2>1 DEF lentBar, stockBar, ExclusiveUse
    <3>3. loansBar < PoolSize /\ loansBar' = loansBar + 1
      BY <2>2, <2>3, RoomForLoan, LoansChange DEF TurnHolders, HoldsTurn
    <3>4. Contract!Lend(p, c)
      BY <2>1, <3>1, <3>2, <3>3 DEF Contract!Lend, Contract!Lent
    <3>5. \E q \in Client, d \in Conn : Contract!Lend(q, d)
      BY <2>1, <3>4, Zenon
    <3>. QED  BY <3>5 DEF Contract!Next
  <2>4. CASE next = "evict"
    <3>1. lentBar' = lentBar
      BY <2>2, <2>4 DEF lentBar
    <3>2. {q \in Client : pc'[q] = "using"} = {q \in Client : pc[q] = "using"}
      BY <2>2, <2>4
    <3>3. loansBar' = loansBar
      BY <3>2 DEF loansBar
    <3>4. Contract!Withdraw({c}) /\ {c} \in SUBSET stockBar
      BY <2>1, <3>1, <3>3 DEF Contract!Withdraw
    <3>. QED  BY <3>4 DEF Contract!Next
  <2>. QED  BY <2>3, <2>4
<1>28. ASSUME NEW p \in Client, newConn(p) PROVE Goal
  <2>1. CASE via[p] = "NewConn"
    BY <1>2, <1>28, <2>1 DEF newConn
  <2>2. CASE via[p] = "Get"
    <3>1. /\ lentBar' = [lentBar EXCEPT ![p] = cn[p]] /\ lentBar[p] = NoConn
          /\ cn[p] \in Conn /\ stockBar' = stockBar
      BY <1>28, <2>2 DEF newConn, lentBar, stockBar
    <3>2. (\A q \in Client : lentBar[q] # cn[p]) /\ cn[p] \notin stockBar
      BY <1>28, <3>1 DEF newConn, lentBar, stockBar, ExclusiveUse
    <3>3. loansBar < PoolSize /\ loansBar' = loansBar + 1
      BY <1>28, <2>2, RoomForLoan, LoansChange DEF newConn, TurnHolders, HoldsTurn
    <3>4. Contract!Lend(p, cn[p])
      BY <3>1, <3>2, <3>3 DEF Contract!Lend, Contract!Lent
    <3>5. \E q \in Client, d \in Conn : Contract!Lend(q, d)
      BY <3>1, <3>4, Zenon
    <3>. QED  BY <3>5 DEF Contract!Next
  <2>. QED  BY <2>1, <2>2
\* A loan ends.
<1>29. ASSUME NEW p \in Client, Put(p) PROVE Goal
  <2>1. stockBar' = stockBar \cup {cn[p]}
    BY <1>29, PushLast DEF Put, stockBar
  <2>2. lentBar' = [lentBar EXCEPT ![p] = NoConn] /\ lentBar[p] = cn[p] /\ cn[p] \in Conn
    BY <1>29 DEF Put, lentBar
  <2>3. loansBar' = loansBar - 1
    <3>1. /\ pc[p] = "using" /\ pc'[p] # "using"
          /\ \A q \in Client \ {p} : pc'[q] = pc[q]
      BY <1>29 DEF Put
    <3>. QED  BY <3>1, LoansChange
  <2>4. Contract!Return(p)
    BY <2>1, <2>2, <2>3 DEF Contract!Return
  <2>. QED  BY <2>4 DEF Contract!Next
<1>30. ASSUME NEW p \in Client, Remove(p) PROVE Goal
  <2>1. /\ lentBar' = [lentBar EXCEPT ![p] = NoConn]
        /\ lentBar[p] = cn[p] /\ cn[p] \in Conn /\ stockBar' = stockBar
    BY <1>30 DEF Remove, lentBar, stockBar
  <2>2. loansBar' = loansBar - 1
    <3>1. /\ pc[p] = "using" /\ pc'[p] # "using"
          /\ \A q \in Client \ {p} : pc'[q] = pc[q]
      BY <1>30 DEF Remove
    <3>. QED  BY <3>1, LoansChange
  <2>3. Contract!Discard(p)
    BY <2>1, <2>2 DEF Contract!Discard
  <2>. QED  BY <2>3 DEF Contract!Next
\* The stock.
<1>31. CASE addIdleConn
  <2>1. PICK c \in adding : idleConns' = Append(idleConns, c)
    BY <1>31 DEF addIdleConn
  <2>2. stockBar' = stockBar \cup {c} /\ c \in Conn /\ lentBar' = lentBar
        /\ loansBar' = loansBar
    BY <1>31, <2>1, PushLast DEF addIdleConn, stockBar, lentBar, loansBar
  <2>3. c \notin stockBar /\ \A q \in Client : lentBar[q] # c
    BY <2>2 DEF ExclusiveUse, stockBar, lentBar
  <2>4. Contract!Supply(c)
    BY <2>2, <2>3 DEF Contract!Supply, Contract!Lent
  <2>. QED  BY <2>2, <2>4 DEF Contract!Next
<1>32. CASE reapStaleConn
  <2>1. CASE idleConns' = idleConns
    BY <1>2, <1>32, <2>1 DEF reapStaleConn
  <2>2. CASE idleConns # <<>> /\ idleConns' = Tail(idleConns)
    <3>1. /\ stockBar' = stockBar \ {Head(idleConns)}
          /\ {Head(idleConns)} \in SUBSET stockBar /\ lentBar' = lentBar
          /\ loansBar' = loansBar
      BY <1>32, <2>2, PopFirst, ExclusiveUseParts
      DEF reapStaleConn, stockBar, lentBar, loansBar
    <3>2. Contract!Withdraw({Head(idleConns)})
      BY <3>1 DEF Contract!Withdraw
    <3>. QED  BY <3>1, <3>2 DEF Contract!Next
  <2>. QED  BY <1>32, <2>1, <2>2 DEF reapStaleConn
<1>33. CASE Close
  <2>1. stockBar' = {} /\ lentBar' = lentBar
        /\ loansBar' = loansBar
    BY <1>33 DEF Close, stockBar, lentBar, loansBar, Range
  <2>2. Contract!Withdraw(stockBar)
    BY <2>1 DEF Contract!Withdraw
  <2>. QED  BY <2>2 DEF Contract!Next
<1>. QED
  BY <1>3, <1>4, <1>5, <1>6, <1>7, <1>8, <1>9, <1>10, <1>11, <1>12, <1>13,
     <1>14, <1>15, <1>16, <1>17, <1>18, <1>19, <1>20, <1>21, <1>22, <1>23,
     <1>24, <1>25, <1>26, <1>27, <1>28, <1>29, <1>30, <1>31, <1>32, <1>33
  DEF Next, ClientStep, ClientGoesOn, AdderStep, HealerStep, ReaperStep

\* The pool implements ConnLending: to its callers it is a stock of connections
\* lent to one borrower at a time, never more than PoolSize at once.
THEOREM PoolRefinesLending == Spec => LendsCorrectly
<1>1. RefInv /\ [Next]_vars => [Contract!Next]_(Contract!vars)
  BY NextRefines
<1>2. Spec => []RefInv
  <2>1. Init => RefInv
    BY InitBase, InitTurns, InitExclusive DEF RefInv
  <2>2. RefInv /\ [Next]_vars => RefInv'
    BY NextBase, NextTurns, NextExclusive DEF RefInv
  <2>. QED  BY <2>1, <2>2, PTL DEF Spec
<1>. QED  BY <1>1, <1>2, InitRefines, PTL DEF Spec, LendsCorrectly, Contract!Spec
=============================================================================
