------------------------------ MODULE ConnPool ------------------------------
(***************************************************************************)
(* The connection pool of upg, upg/internal/pool/pool.go.                   *)
(*                                                                          *)
(* One step is one critical section of connsMu, one operation on the        *)
(* channel queue, one atomic access or one call of the Dialer: what the Go  *)
(* memory model lets another goroutine observe in between.  Clients are the *)
(* goroutines that call Get/Put/Remove (baseDB) and NewConn/CloseConn       *)
(* (Listener); the goroutines of checkMinIdleConns and tryDial are          *)
(* anonymous and are counted by the place they have reached.                *)
(***************************************************************************)
EXTENDS Integers, Sequences, FiniteSets, Functions

CONSTANTS Client,        \* goroutines that use the pool
          Conn,          \* identities of connections; one is used again once
                         \* it is closed and nothing refers to it
          NoConn,        \* the nil *Conn
          PoolSize,      \* opt.PoolSize
          MinIdleConns,  \* opt.MinIdleConns
          Expires,       \* opt.IdleTimeout or opt.MaxConnAge is set
          Reaping        \* opt.IdleTimeout and opt.IdleCheckFrequency are set

ASSUME PoolAssumption ==
  /\ IsFiniteSet(Client)
  /\ NoConn \notin Conn
  /\ PoolSize \in Nat \ {0}
  /\ MinIdleConns \in Nat
  /\ Expires \in BOOLEAN
  /\ Reaping \in BOOLEAN
  /\ Reaping => Expires

VARIABLES
  pc,            \* where each client is
  cn,            \* the *Conn each client holds
  via,           \* "Get" or "NewConn": the call the client's *Conn comes from
  queue,         \* len(p.queue): turns taken
  conns,         \* p.conns
  idleConns,     \* p.idleConns
  poolSize,      \* p.poolSize
  idleConnsLen,  \* p.idleConnsLen
  pooled,        \* connections whose field pooled is true
  open,          \* connections whose socket is open
  adder,         \* addIdleConn goroutines that have no connection, by place
  adding,        \* connections addIdleConn has dialled and not yet registered
  dialErrorsNum, \* p.dialErrorsNum
  lastDialError, \* p.lastDialError # nil
  healer,        \* tryDial goroutines, by place
  closer,        \* progress of Close: "no", "cas" (_closed is 1), "done"
  reaperPc,      \* where the reaper goroutine is
  reaperCn       \* the stale connection it has taken out of the pool

clientVars  == <<pc, cn, via>>
listVars    == <<conns, idleConns>>
countVars   == <<poolSize, idleConnsLen>>
connVars    == <<pooled, open>>
adderVars   == <<adder, adding>>
breakerVars == <<dialErrorsNum, lastDialError, healer>>
reaperVars  == <<reaperPc, reaperCn>>

vars == <<clientVars, queue, listVars, countVars, connVars, adderVars,
          breakerVars, closer, reaperVars>>

\* Places inside dialConn; "failed" is its return with an error.
DialStage  == {"dialClosed", "dialBreaker", "lastErr", "dial", "countErr",
               "failed"}
ClientPc   == DialStage \cup
              {"idle", "waitTurn", "pop", "evict", "closeConn", "register",
               "using", "extern", "freeTurn", "removeTurn", "removeClose"}
HealerStage == {"check", "dial"}
ReaperPc   == {"sleep", "getTurn", "reap", "freeTurn", "closeConn", "exit"}

closed == closer # "no"

\* The connections some goroutine or list of the pool still refers to.
Referenced == conns \cup Range(idleConns) \cup adding
                \cup {cn[p] : p \in Client} \cup {reaperCn}

\* A new Conn: its socket is open and its identity is not in use.
NewConnId(c) == c \in Conn \ (Referenced \cup open)

-----------------------------------------------------------------------------
(* Filling up to MinIdleConns.                                              *)

\* How many goroutines checkMinIdleConns starts when the counters are ps, il.
Shortage(ps, il) ==
  LET room == PoolSize - ps
      lack == MinIdleConns - il
  IN  IF MinIdleConns = 0 \/ room <= 0 \/ lack <= 0 THEN 0
      ELSE IF room < lack THEN room ELSE lack

\* The counters become ps and il and checkMinIdleConns runs.
checkMinIdleConns(ps, il) ==
  LET n == Shortage(ps, il)
  IN  /\ poolSize' = ps + n
      /\ idleConnsLen' = il + n
      /\ adder' = [adder EXCEPT !["dialClosed"] = @ + n]

\* removeConn(c) when idleConnsLen has just become il.
removeConn(c, il) ==
  /\ conns' = conns \ {c}
  /\ IF c \in conns /\ c \in pooled
     THEN checkMinIdleConns(poolSize - 1, il)
     ELSE /\ poolSize' = poolSize
          /\ idleConnsLen' = il
          /\ UNCHANGED adder

\* isStaleConn: the clock decides; without a timeout no connection is stale.
MayBeStale == Expires

Init ==
  /\ pc = [p \in Client |-> "idle"]
  /\ cn = [p \in Client |-> NoConn]
  /\ via = [p \in Client |-> "Get"]
  /\ queue = 0
  /\ conns = {}
  /\ idleConns = <<>>
  /\ poolSize = Shortage(0, 0)
  /\ idleConnsLen = Shortage(0, 0)
  /\ pooled = {}
  /\ open = {}
  /\ adder = [s \in DialStage |-> IF s = "dialClosed" THEN Shortage(0, 0)
                                                      ELSE 0]
  /\ adding = {}
  /\ dialErrorsNum = 0
  /\ lastDialError = FALSE
  /\ healer = [s \in HealerStage |-> 0]
  /\ closer = "no"
  /\ reaperPc = IF Reaping THEN "sleep" ELSE "exit"
  /\ reaperCn = NoConn

-----------------------------------------------------------------------------
(* dialConn, run by clients and by addIdleConn alike.                       *)

\* The Dialer fails: the error is stored, and the failure is counted next.
dialFails(s, t) ==
  /\ s = "dial"
  /\ t = "countErr"
  /\ lastDialError' = TRUE
  /\ UNCHANGED <<dialErrorsNum, healer>>

\* The failure that makes PoolSize of them starts tryDial.
countDialError(s, t) ==
  /\ s = "countErr"
  /\ t = "failed"
  /\ dialErrorsNum' = dialErrorsNum + 1
  /\ healer' = IF dialErrorsNum + 1 = PoolSize
               THEN [healer EXCEPT !["check"] = @ + 1] ELSE healer
  /\ UNCHANGED lastDialError

\* Fault: dialConn does not look at _closed.
dialConnUnchecked(s, t) ==
  \/ /\ s = "dialClosed"
     /\ t = "dialBreaker"
     /\ UNCHANGED breakerVars
  \/ /\ s = "dialBreaker"
     /\ t = IF dialErrorsNum >= PoolSize THEN "lastErr" ELSE "dial"
     /\ UNCHANGED breakerVars
  \/ /\ s = "lastErr"
     /\ t = "failed"
     /\ UNCHANGED breakerVars
  \/ dialFails(s, t)
  \/ countDialError(s, t)

\* One step of dialConn from place s to place t that yields no connection.
dialConn(s, t) ==
  \/ /\ s = "dialClosed"
     /\ t = IF closed THEN "failed" ELSE "dialBreaker"
     /\ UNCHANGED breakerVars
  \/ /\ s = "dialBreaker"
     /\ t = IF dialErrorsNum >= PoolSize THEN "lastErr" ELSE "dial"
     /\ UNCHANGED breakerVars
  \/ /\ s = "lastErr"
     /\ t = "failed"
     /\ UNCHANGED breakerVars
  \/ dialFails(s, t)
  \/ countDialError(s, t)

ClientDial(p) ==
  /\ \E t \in DialStage : dialConn(pc[p], t) /\ pc' = [pc EXCEPT ![p] = t]
  /\ UNCHANGED <<cn, via, queue, listVars, countVars, connVars, adderVars,
                 closer, reaperVars>>

\* The Dialer succeeds; the field pooled is the argument of newConn.
ClientDialed(p) ==
  /\ pc[p] = "dial"
  /\ \E c \in Conn :
       /\ NewConnId(c)
       /\ cn' = [cn EXCEPT ![p] = c]
       /\ open' = open \cup {c}
       /\ pooled' = IF via[p] = "Get" THEN pooled \cup {c} ELSE pooled \ {c}
  /\ pc' = [pc EXCEPT ![p] = "register"]
  /\ UNCHANGED <<via, queue, listVars, countVars, adderVars, breakerVars,
                 closer, reaperVars>>

\* The end of newConn: the connection enters conns, and when the pool is full
\* it stops being a pooled one.
newConn(p) ==
  /\ pc[p] = "register"
  /\ conns' = conns \cup {cn[p]}
  /\ IF cn[p] \in pooled /\ poolSize < PoolSize
     THEN poolSize' = poolSize + 1 /\ UNCHANGED pooled
     ELSE pooled' = pooled \ {cn[p]} /\ UNCHANGED poolSize
  /\ pc' = [pc EXCEPT ![p] = IF via[p] = "Get" THEN "using" ELSE "extern"]
  /\ UNCHANGED <<cn, via, queue, idleConns, idleConnsLen, open, adderVars,
                 breakerVars, closer, reaperVars>>

AdderDial ==
  /\ \E s, t \in DialStage :
       /\ adder[s] > 0
       /\ dialConn(s, t)
       /\ adder' = [adder EXCEPT ![s] = @ - 1, ![t] = @ + 1]
  /\ UNCHANGED <<clientVars, queue, listVars, countVars, connVars, adding,
                 closer, reaperVars>>

AdderDialed ==
  /\ adder["dial"] > 0
  /\ \E c \in Conn :
       /\ NewConnId(c)
       /\ adding' = adding \cup {c}
       /\ open' = open \cup {c}
       /\ pooled' = pooled \cup {c}
  /\ adder' = [adder EXCEPT !["dial"] = @ - 1]
  /\ UNCHANGED <<clientVars, queue, listVars, countVars, breakerVars, closer,
                 reaperVars>>

addIdleConn ==
  /\ \E c \in adding :
       /\ conns' = conns \cup {c}
       /\ idleConns' = Append(idleConns, c)
       /\ adding' = adding \ {c}
  /\ UNCHANGED <<clientVars, queue, countVars, connVars, adder, breakerVars,
                 closer, reaperVars>>

\* Fault: only one of the two counters is taken back.
addIdleConnFailedHalf ==
  /\ adder["failed"] > 0
  /\ adder' = [adder EXCEPT !["failed"] = @ - 1]
  /\ idleConnsLen' = idleConnsLen - 1
  /\ UNCHANGED <<clientVars, queue, listVars, poolSize, connVars, adding,
                 breakerVars, closer, reaperVars>>

\* The goroutine of checkMinIdleConns takes its reservation back.
addIdleConnFailed ==
  /\ adder["failed"] > 0
  /\ adder' = [adder EXCEPT !["failed"] = @ - 1]
  /\ poolSize' = poolSize - 1
  /\ idleConnsLen' = idleConnsLen - 1
  /\ UNCHANGED <<clientVars, queue, listVars, connVars, adding, breakerVars,
                 closer, reaperVars>>

-----------------------------------------------------------------------------
(* tryDial: one goroutine per trip of the breaker.                          *)

tryDialCheck ==
  /\ healer["check"] > 0
  /\ healer' = IF closed THEN [healer EXCEPT !["check"] = @ - 1]
               ELSE [healer EXCEPT !["check"] = @ - 1, !["dial"] = @ + 1]
  /\ UNCHANGED <<clientVars, queue, listVars, countVars, connVars, adderVars,
                 dialErrorsNum, lastDialError, closer, reaperVars>>

\* Fault: tryDial returns after a failed probe.
tryDialGivesUp ==
  /\ healer["dial"] > 0
  /\ lastDialError' = TRUE
  /\ healer' = [healer EXCEPT !["dial"] = @ - 1]
  /\ UNCHANGED <<clientVars, queue, listVars, countVars, connVars, adderVars,
                 dialErrorsNum, closer, reaperVars>>


tryDialFails ==
  /\ healer["dial"] > 0
  /\ lastDialError' = TRUE
  /\ healer' = [healer EXCEPT !["dial"] = @ - 1, !["check"] = @ + 1]
  /\ UNCHANGED <<clientVars, queue, listVars, countVars, connVars, adderVars,
                 dialErrorsNum, closer, reaperVars>>

\* Fault: dialErrorsNum is not reset.
tryDialForgets ==
  /\ healer["dial"] > 0
  /\ healer' = [healer EXCEPT !["dial"] = @ - 1]
  /\ UNCHANGED <<clientVars, queue, listVars, countVars, connVars, adderVars,
                 dialErrorsNum, lastDialError, closer, reaperVars>>


tryDialSucceeds ==
  /\ healer["dial"] > 0
  /\ dialErrorsNum' = 0
  /\ healer' = [healer EXCEPT !["dial"] = @ - 1]
  /\ UNCHANGED <<clientVars, queue, listVars, countVars, connVars, adderVars,
                 lastDialError, closer, reaperVars>>

-----------------------------------------------------------------------------
(* Get.                                                                     *)

\* A closed pool answers ErrClosed, which changes nothing.
Get(p) ==
  /\ pc[p] = "idle"
  /\ ~closed
  /\ pc' = [pc EXCEPT ![p] = "waitTurn"]
  /\ UNCHANGED <<cn, via, queue, listVars, countVars, connVars, adderVars,
                 breakerVars, closer, reaperVars>>

\* Fault: one turn too many.
waitTurnOffByOne(p) ==
  /\ pc[p] = "waitTurn"
  /\ queue <= PoolSize
  /\ queue' = queue + 1
  /\ pc' = [pc EXCEPT ![p] = "pop"]
  /\ UNCHANGED <<cn, via, listVars, countVars, connVars, adderVars,
                 breakerVars, closer, reaperVars>>


waitTurn(p) ==
  /\ pc[p] = "waitTurn"
  /\ queue < PoolSize
  /\ queue' = queue + 1
  /\ pc' = [pc EXCEPT ![p] = "pop"]
  /\ UNCHANGED <<cn, via, listVars, countVars, connVars, adderVars,
                 breakerVars, closer, reaperVars>>

\* The context ends, or PoolTimeout passes, before a turn is free.
waitTurnFails(p) ==
  /\ pc[p] = "waitTurn"
  /\ pc' = [pc EXCEPT ![p] = "idle"]
  /\ UNCHANGED <<cn, via, queue, listVars, countVars, connVars, adderVars,
                 breakerVars, closer, reaperVars>>

\* popIdle takes the last idle connection; Get returns it or evicts it (next).
popIdle(p, next) ==
  /\ pc[p] = "pop"
  /\ idleConns # <<>>
  /\ next = "evict" => MayBeStale
  /\ cn' = [cn EXCEPT ![p] = idleConns[Len(idleConns)]]
  /\ idleConns' = SubSeq(idleConns, 1, Len(idleConns) - 1)
  /\ checkMinIdleConns(poolSize, idleConnsLen - 1)
  /\ pc' = [pc EXCEPT ![p] = next]
  /\ UNCHANGED <<via, queue, conns, connVars, adding, breakerVars, closer,
                 reaperVars>>

popNothing(p) ==
  /\ pc[p] = "pop"
  /\ idleConns = <<>>
  /\ pc' = [pc EXCEPT ![p] = "dialClosed"]
  /\ UNCHANGED <<cn, via, queue, listVars, countVars, connVars, adderVars,
                 breakerVars, closer, reaperVars>>

\* Fault: Get returns the error and keeps its turn.
GetFailsKeepsTurn(p) ==
  /\ pc[p] = "failed"
  /\ pc' = [pc EXCEPT ![p] = "idle"]
  /\ via' = [via EXCEPT ![p] = "Get"]
  /\ UNCHANGED <<cn, queue, listVars, countVars, connVars, adderVars,
                 breakerVars, closer, reaperVars>>

\* newConn has failed: Get gives its turn back.
GetFails(p) ==
  /\ pc[p] = "failed"
  /\ queue' = IF via[p] = "Get" THEN queue - 1 ELSE queue
  /\ pc' = [pc EXCEPT ![p] = "idle"]
  /\ via' = [via EXCEPT ![p] = "Get"]
  /\ UNCHANGED <<cn, listVars, countVars, connVars, adderVars, breakerVars,
                 closer, reaperVars>>

NewConn(p) ==
  /\ pc[p] = "idle"
  /\ pc' = [pc EXCEPT ![p] = "dialClosed"]
  /\ via' = [via EXCEPT ![p] = "NewConn"]
  /\ UNCHANGED <<cn, queue, listVars, countVars, connVars, adderVars,
                 breakerVars, closer, reaperVars>>

-----------------------------------------------------------------------------
(* Giving a connection back.                                                *)


Put(p) ==
  /\ pc[p] = "using"
  /\ cn[p] \in pooled
  /\ idleConns' = Append(idleConns, cn[p])
  /\ idleConnsLen' = idleConnsLen + 1
  /\ pc' = [pc EXCEPT ![p] = "freeTurn"]
  /\ cn' = [cn EXCEPT ![p] = NoConn]
  /\ UNCHANGED <<via, queue, conns, poolSize, connVars, adderVars, breakerVars,
                 closer, reaperVars>>

freeTurn(p) ==
  /\ pc[p] = "freeTurn"
  /\ queue' = queue - 1
  /\ pc' = [pc EXCEPT ![p] = "idle"]
  /\ UNCHANGED <<cn, via, listVars, countVars, connVars, adderVars,
                 breakerVars, closer, reaperVars>>

\* Remove of a bad connection, and Put of one that is not pooled.
Remove(p) ==
  /\ pc[p] = "using"
  /\ removeConn(cn[p], idleConnsLen)
  /\ pc' = [pc EXCEPT ![p] = "removeTurn"]
  /\ UNCHANGED <<cn, via, queue, idleConns, connVars, adding, breakerVars,
                 closer, reaperVars>>

RemoveFreeTurn(p) ==
  /\ pc[p] = "removeTurn"
  /\ queue' = queue - 1
  /\ pc' = [pc EXCEPT ![p] = "removeClose"]
  /\ UNCHANGED <<cn, via, listVars, countVars, connVars, adderVars,
                 breakerVars, closer, reaperVars>>

\* CloseConn: of a stale connection by Get, of a NewConn one by its owner.
CloseConn(p) ==
  /\ pc[p] \in {"evict", "extern"}
  /\ removeConn(cn[p], idleConnsLen)
  /\ pc' = [pc EXCEPT ![p] = "closeConn"]
  /\ UNCHANGED <<cn, via, queue, idleConns, connVars, adding, breakerVars,
                 closer, reaperVars>>

\* Fault: the connection is forgotten with its socket open.
closeConnForgets(p) ==
  /\ pc[p] \in {"closeConn", "removeClose"}
  /\ cn' = [cn EXCEPT ![p] = NoConn]
  /\ pc' = [pc EXCEPT ![p] = IF pc[p] = "closeConn" /\ via[p] = "Get"
                             THEN "pop" ELSE "idle"]
  /\ via' = [via EXCEPT ![p] = "Get"]
  /\ UNCHANGED <<queue, listVars, countVars, connVars, adderVars, breakerVars,
                 closer, reaperVars>>

\* The client closes the socket and forgets the connection.
closeConn(p) ==
  /\ pc[p] \in {"closeConn", "removeClose"}
  /\ open' = open \ {cn[p]}
  /\ pooled' = pooled \ {cn[p]}
  /\ cn' = [cn EXCEPT ![p] = NoConn]
  /\ pc' = [pc EXCEPT ![p] = IF pc[p] = "closeConn" /\ via[p] = "Get"
                             THEN "pop" ELSE "idle"]
  /\ via' = [via EXCEPT ![p] = "Get"]
  /\ UNCHANGED <<queue, listVars, countVars, adderVars, breakerVars, closer,
                 reaperVars>>

-----------------------------------------------------------------------------
(* The reaper.                                                              *)

reaperTick ==
  /\ reaperPc = "sleep"
  /\ reaperPc' = IF closed THEN "exit" ELSE "getTurn"
  /\ UNCHANGED <<clientVars, queue, listVars, countVars, connVars, adderVars,
                 breakerVars, closer, reaperCn>>

getTurn ==
  /\ reaperPc = "getTurn"
  /\ queue < PoolSize
  /\ queue' = queue + 1
  /\ reaperPc' = "reap"
  /\ UNCHANGED <<clientVars, listVars, countVars, connVars, adderVars,
                 breakerVars, closer, reaperCn>>

\* Fault: the stale connection stays in the idle list.
reapStaleConnKeeps ==
  /\ reaperPc = "reap"
  /\ \/ /\ idleConns # <<>>
        /\ MayBeStale
        /\ reaperCn' = Head(idleConns)
        /\ removeConn(Head(idleConns), idleConnsLen - 1)
        /\ UNCHANGED idleConns
     \/ UNCHANGED <<reaperCn, listVars, countVars, adder>>
  /\ reaperPc' = "freeTurn"
  /\ UNCHANGED <<clientVars, queue, connVars, adding, breakerVars, closer>>

\* reapStaleConn looks at the first, longest idle, connection only.
reapStaleConn ==
  /\ reaperPc = "reap"
  /\ \/ /\ idleConns # <<>>
        /\ MayBeStale
        /\ reaperCn' = Head(idleConns)
        /\ idleConns' = Tail(idleConns)
        /\ removeConn(Head(idleConns), idleConnsLen - 1)
     \/ UNCHANGED <<reaperCn, listVars, countVars, adder>>
  /\ reaperPc' = "freeTurn"
  /\ UNCHANGED <<clientVars, queue, connVars, adding, breakerVars, closer>>

reaperFreeTurn ==
  /\ reaperPc = "freeTurn"
  /\ queue' = queue - 1
  /\ reaperPc' = IF reaperCn = NoConn THEN "sleep" ELSE "closeConn"
  /\ UNCHANGED <<clientVars, listVars, countVars, connVars, adderVars,
                 breakerVars, closer, reaperCn>>

reaperCloseConn ==
  /\ reaperPc = "closeConn"
  /\ open' = open \ {reaperCn}
  /\ pooled' = pooled \ {reaperCn}
  /\ reaperCn' = NoConn
  /\ reaperPc' = "getTurn"
  /\ UNCHANGED <<clientVars, queue, listVars, countVars, adderVars,
                 breakerVars, closer>>

-----------------------------------------------------------------------------
(* Close.                                                                   *)

CloseCAS ==
  /\ closer = "no"
  /\ closer' = "cas"
  /\ UNCHANGED <<clientVars, queue, listVars, countVars, connVars, adderVars,
                 breakerVars, reaperVars>>

\* Under connsMu: every registered socket is closed, the pool is emptied.
\* A connection only the idle list referred to is forgotten.
Close ==
  /\ closer = "cas"
  /\ closer' = "done"
  /\ open' = open \ conns
  /\ pooled' = pooled \ Range(idleConns)
  /\ conns' = {}
  /\ idleConns' = <<>>
  /\ poolSize' = 0
  /\ idleConnsLen' = 0
  /\ UNCHANGED <<clientVars, queue, adderVars, breakerVars, reaperVars>>

-----------------------------------------------------------------------------
\* The steps of a client that has called the pool, and its use of a connection.
ClientGoesOn(p) ==
  \/ waitTurn(p) \/ waitTurnFails(p)
  \/ \E next \in {"using", "evict"} : popIdle(p, next)
  \/ popNothing(p) \/ GetFails(p)
  \/ ClientDial(p) \/ ClientDialed(p) \/ newConn(p)
  \/ Put(p) \/ freeTurn(p) \/ Remove(p) \/ RemoveFreeTurn(p)
  \/ CloseConn(p) \/ closeConn(p)

ClientStep(p) == Get(p) \/ NewConn(p) \/ ClientGoesOn(p)

AdderStep  == AdderDial \/ AdderDialed \/ addIdleConn \/ addIdleConnFailed
HealerStep == tryDialCheck \/ tryDialFails \/ tryDialSucceeds
ReaperStep == reaperTick \/ getTurn \/ reapStaleConn \/ reaperFreeTurn
                \/ reaperCloseConn

Next ==
  \/ \E p \in Client : ClientStep(p)
  \/ AdderStep \/ HealerStep \/ ReaperStep
  \/ CloseCAS \/ Close

Spec == Init /\ [][Next]_vars

(***************************************************************************)
(* Fairness.  Goroutines that can run do run, and a query ends (withConn    *)
(* releases in a defer); the owner of a NewConn connection may keep it.     *)
(* Senders on a channel are served in order, so a goroutine that waits for  *)
(* a turn gets one of infinitely many.  A connection is stale only some     *)
(* time after it is dialled, so Get does not pop stale ones for ever.  The  *)
(* server can be dialled now and then.                                      *)
(***************************************************************************)
Fairness ==
  /\ \A p \in Client : /\ WF_vars(pc[p] # "extern" /\ ClientGoesOn(p))
                       /\ SF_vars(waitTurn(p))
                       /\ SF_vars(popIdle(p, "using"))
  /\ WF_vars(AdderStep)
  /\ WF_vars(tryDialCheck) /\ SF_vars(tryDialSucceeds)
  /\ WF_vars(ReaperStep) /\ SF_vars(getTurn)

FairSpec == Spec /\ Fairness

-----------------------------------------------------------------------------
(* The contract of the pool: a loan lasts while the caller of Get is using   *)
(* the connection, the stock is the idle list.                              *)

lentBar  == [p \in Client |-> IF pc[p] = "using" THEN cn[p] ELSE NoConn]
loansBar == Cardinality({p \in Client : pc[p] = "using"})
stockBar == Range(idleConns)

Contract == INSTANCE ConnLending WITH
  Limit <- PoolSize, lent <- lentBar, loans <- loansBar, stock <- stockBar

\* The pool implements ConnLending: every step of Get, Put, Remove, the reaper,
\* addIdleConn and Close is a step of the contract or invisible to borrowers.
LendsCorrectly == Contract!Spec

-----------------------------------------------------------------------------
(* Properties.                                                              *)

TypeOK ==
  /\ pc \in [Client -> ClientPc]
  /\ cn \in [Client -> Conn \cup {NoConn}]
  /\ via \in [Client -> {"Get", "NewConn"}]
  /\ queue \in 0..PoolSize
  /\ conns \in SUBSET Conn
  /\ idleConns \in Seq(Conn)
  /\ poolSize \in Int
  /\ idleConnsLen \in Int
  /\ pooled \in SUBSET Conn
  /\ open \in SUBSET Conn
  /\ adder \in [DialStage -> Nat]
  /\ adding \in SUBSET Conn
  /\ dialErrorsNum \in Nat
  /\ lastDialError \in BOOLEAN
  /\ healer \in [HealerStage -> Nat]
  /\ closer \in {"no", "cas", "done"}
  /\ reaperPc \in ReaperPc
  /\ reaperCn \in Conn \cup {NoConn}

\* Clients between waitTurn and freeTurn.
HoldsTurn(p) ==
  \/ pc[p] \in {"pop", "using", "freeTurn", "removeTurn"}
  \/ via[p] = "Get" /\ pc[p] \in DialStage \cup {"evict", "closeConn", "register"}

TurnHolders == {p \in Client : HoldsTurn(p)}
ReaperTurns == IF reaperPc \in {"reap", "freeTurn"} THEN 1 ELSE 0

\* Every turn in the channel queue belongs to a Get, a loan or the reaper that
\* has yet to take it out: no path of Get, Put, Remove or the reaper loses one
\* (the pool would shrink until every Get times out) or frees one twice (the
\* receive in freeTurn would block for ever).
TurnAccounting == queue = Cardinality(TurnHolders) + ReaperTurns

\* addIdleConn goroutines whose reservation in the counters still stands.
Pending == adder["dialClosed"] + adder["dialBreaker"] + adder["lastErr"]
             + adder["dial"] + adder["countErr"] + adder["failed"]
             + Cardinality(adding)

\* Until Close empties the pool the two counters that checkMinIdleConns and
\* newConn decide by are exact: the registered pooled connections, and the idle
\* list, each with the reservations of addIdleConn on the way.
PoolAccounting ==
  closer # "done" =>
    /\ poolSize = Cardinality(conns \cap pooled) + Pending
    /\ idleConnsLen = Len(idleConns) + Pending
    /\ poolSize <= PoolSize

\* What the pool decides by is exact: the turns, and the two counters.
Accounting == TurnAccounting /\ PoolAccounting

\* A connection is in one pair of hands: no two clients, no client and the idle
\* list, the reaper or addIdleConn ever have the same *Conn, and the idle list
\* never holds one twice (two queries would share a socket).
ExclusiveUse ==
  /\ \A p, q \in Client : cn[p] = cn[q] /\ cn[p] # NoConn => p = q
  /\ \A i, j \in 1..Len(idleConns) : idleConns[i] = idleConns[j] => i = j
  /\ \A p \in Client : cn[p] \notin Range(idleConns) \cup adding
  /\ Range(idleConns) \cap adding = {}
  /\ reaperCn \notin Range(idleConns) \cup adding
  /\ reaperCn # NoConn => \A p \in Client : cn[p] # reaperCn

\* Until Close empties the pool, what Get hands out and what waits in the idle
\* list is a registered connection with an open socket; an idle one is pooled,
\* so that Put, evictions and the reaper account for it.
LentUsable ==
  closer # "done" =>
    /\ \A p \in Client : pc[p] = "using" => cn[p] \in conns \cap open
    /\ Range(idleConns) \subseteq conns \cap open \cap pooled

\* What Get hands out, Put takes back and the reaper inspects is one usable
\* connection in one pair of hands.
LoansSound == ExclusiveUse /\ LentUsable

\* Connections with a step that is about to register or to close them.
InTransit ==
  adding \cup {reaperCn}
    \cup {cn[p] : p \in {q \in Client :
                           pc[q] \in {"register", "closeConn", "removeTurn",
                                      "removeClose"}}}

\* Until Close has emptied the pool every open socket is registered in conns,
\* where Close finds it, or belongs to a step that is about to register or to
\* close it.  It says nothing of the time after: see CloseIsFinal.
NoLostSocket == closer # "done" => open \subseteq conns \cup InTransit

\* Sockets that are open, and dials that are past the test of _closed.
Dialling == {"dialBreaker", "dial"}
Sockets == Cardinality(open) + adder["dialBreaker"] + adder["dial"]
             + Cardinality({p \in Client : pc[p] \in Dialling})

\* Close "closes the database client, releasing any open resources"
\* (upg/base.go:211), but for the dials under way: those end in sockets that
\* are registered in the closed pool and that nobody closes unless their
\* borrower removes them.  There are no others: once _closed is set each step
\* leaves as many sockets and dials or fewer.
CloseIsFinal == [][closed => Sockets' <= Sockets]_vars

\* The breaker of dialConn is open exactly while one tryDial goroutine probes
\* the server: never two, and never none, which would refuse every new
\* connection for the rest of the pool's life.
BreakerHasHealer ==
  LET healers == healer["check"] + healer["dial"]
  IN  /\ healers <= 1
      /\ healers = 1 => dialErrorsNum >= PoolSize
      /\ dialErrorsNum >= PoolSize /\ ~closed => healers = 1

\* A dial the breaker refuses returns getLastDialError: that is not nil, or
\* newConn would go on with a nil connection.
RefusalHasError ==
  (adder["lastErr"] > 0 \/ \E p \in Client : pc[p] = "lastErr")
    => lastDialError

\* The breaker of dialConn refuses with an error, and only while somebody is
\* about to close it again.
BreakerSound == BreakerHasHealer /\ RefusalHasError

\* Get answers: a caller that waits for its turn ends up with a connection or
\* with an error, whatever evictions, failed dials and Close do meanwhile.
GetReturns ==
  \A p \in Client : pc[p] = "waitTurn" ~> pc[p] \in {"idle", "using"}

\* The reaper takes its turn with no timeout; it gets it, because every Get and
\* every loan gives its turn back, so stale connections do not pile up.
ReaperServed == reaperPc = "getTurn" ~> reaperPc # "getTurn"

\* Whoever waits for a turn is served: Get, which may give up, and the reaper,
\* which does not.
TurnsServed == GetReturns /\ ReaperServed

\* A tripped breaker closes again once the server can be dialled.
BreakerHeals == dialErrorsNum >= PoolSize ~> dialErrorsNum = 0 \/ closed
=============================================================================
