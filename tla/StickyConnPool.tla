--------------------------- MODULE StickyConnPool ---------------------------
(***************************************************************************)
(* StickyConnPool (upg/internal/pool/pool_sticky.go), which keeps the       *)
(* queries of a Conn, a Tx or a Stmt on one connection, with its callers    *)
(* getConn and withConn (upg/base.go) and the retry of Stmt.prepare         *)
(* (upg/stmt.go).  One step is one atomic access, one operation on the      *)
(* channel ch or one call of the pool below, which is seen through its      *)
(* contract: it lends connections nobody else has.                          *)
(***************************************************************************)
EXTENDS Integers, FiniteSets

CONSTANTS User,       \* goroutines that run queries
          Conn,       \* connections of the pool below
          NoConn,     \* no connection
          MaxOwners,  \* bound on the number of owners there are in all
          InitFails,  \* initConn may fail
          Retries     \* opt.MaxRetries > 0

ASSUME StickyAssumption ==
  /\ NoConn \notin Conn
  /\ MaxOwners \in Nat \ {0}
  /\ InitFails \in BOOLEAN
  /\ Retries \in BOOLEAN

VARIABLES
  pc,         \* where each user is
  cn,         \* the connection it holds
  then,       \* what follows Remove: nothing, the Reset of getConn ("init"),
              \* the Reset of Stmt.prepare ("retry"), or one and then the other
  state,      \* p.state
  ch,         \* the element of the channel p.ch, NoConn when it is empty
  chClosed,   \* p.ch is closed
  bad,        \* p.badConnError() # nil
  shared,     \* p.shared
  owners,     \* calls of NewStickyConnPool so far
  closing,    \* calls of Close that are to change the state
  closerPc,   \* the one that has changed it: "no", "close", "drain", "done"
  borrowed,   \* connections lent by the pool below
  inited,     \* connections whose field Inited is true
  served,     \* the connection on which a query has last ended well
  wasReset    \* some Reset has come to clear the error (history)

userVars  == <<pc, cn, then>>
chanVars  == <<ch, chClosed>>
badVars   == <<bad, wasReset>>
closeVars == <<shared, owners, closing, closerPc>>
connVars  == <<borrowed, inited, served>>

vars == <<userVars, state, chanVars, badVars, closeVars, connVars>>

UserPc == {"idle", "load", "poolGet", "cas", "removeLoser", "loop", "checkBad",
           "recv", "got", "initing", "using", "put", "free", "markBad", "markNil",
           "giveBack", "removeClosed", "reset", "resetTake", "resetRemove",
           "resetClear", "resetCas"}

Init ==
  /\ pc = [u \in User |-> "idle"]
  /\ cn = [u \in User |-> NoConn]
  /\ then = [u \in User |-> "nothing"]
  /\ state = "default"
  /\ ch = NoConn
  /\ chClosed = FALSE
  /\ bad = FALSE
  /\ shared = 1
  /\ owners = 1
  /\ closing = 0
  /\ closerPc = "no"
  /\ borrowed = {}
  /\ inited = {}
  /\ served = NoConn
  /\ wasReset = FALSE

Goto(u, place) == pc' = [pc EXCEPT ![u] = place]
Drop(u) == cn' = [cn EXCEPT ![u] = NoConn]

\* The pool below takes c back to lend it again (Put) or closes it (Remove).
PoolPut(c) ==
  /\ borrowed' = borrowed \ {c}
  /\ UNCHANGED <<inited, served>>

PoolRemove(c) ==
  /\ borrowed' = borrowed \ {c}
  /\ inited' = inited \ {c}
  /\ UNCHANGED served

-----------------------------------------------------------------------------
(* Get.                                                                     *)

\* A query starts.
Start(u) ==
  /\ pc[u] = "idle"
  /\ Goto(u, "load")
  /\ UNCHANGED <<cn, then, state, chanVars, badVars, closeVars, connVars>>

\* The switch on p.state; a closed pool answers ErrClosed.
Get(u) ==
  /\ pc[u] = "load"
  /\ Goto(u, CASE state = "default" -> "poolGet"
               [] state = "inited"  -> "checkBad"
               [] state = "closed"  -> "idle")
  /\ UNCHANGED <<cn, then, state, chanVars, badVars, closeVars, connVars>>

PoolGet(u) ==
  /\ pc[u] = "poolGet"
  /\ \/ \E c \in Conn \ borrowed :
          /\ borrowed' = borrowed \cup {c}
          /\ cn' = [cn EXCEPT ![u] = c]
          /\ Goto(u, "cas")
     \/ /\ Goto(u, "idle")
        /\ UNCHANGED <<cn, borrowed>>
  /\ UNCHANGED <<then, state, chanVars, badVars, closeVars, inited,
                 served>>

\* Fault: whoever comes second keeps its own connection.
GetCASKeeps(u) ==
  /\ pc[u] = "cas"
  /\ IF state = "closed"
     THEN Goto(u, "removeLoser") /\ UNCHANGED state
     ELSE Goto(u, "got") /\ state' = "inited"
  /\ UNCHANGED <<cn, then, chanVars, badVars, closeVars, connVars>>

GetCAS(u) ==
  /\ pc[u] = "cas"
  /\ IF state = "default"
     THEN Goto(u, "got") /\ state' = "inited"
     ELSE Goto(u, "removeLoser") /\ UNCHANGED state
  /\ UNCHANGED <<cn, then, chanVars, badVars, closeVars, connVars>>

RemoveLoser(u) ==
  /\ pc[u] = "removeLoser"
  /\ PoolRemove(cn[u])
  /\ Drop(u)
  /\ Goto(u, "loop")
  /\ UNCHANGED <<then, state, chanVars, badVars, closeVars>>

\* Another round, or, when this was the thousandth, which is not counted here, the
\* error "infinite loop".
GetLoops(u) ==
  /\ pc[u] = "loop"
  /\ \E place \in {"load", "idle"} : Goto(u, place)
  /\ UNCHANGED <<cn, then, state, chanVars, badVars, closeVars, connVars>>

CheckBad(u) ==
  /\ pc[u] = "checkBad"
  /\ Goto(u, IF bad THEN "idle" ELSE "recv")
  /\ UNCHANGED <<cn, then, state, chanVars, badVars, closeVars, connVars>>

\* A closed channel still yields the element it holds, then ErrClosed.
Receive(u) ==
  /\ pc[u] = "recv"
  /\ \/ /\ ch # NoConn
        /\ cn' = [cn EXCEPT ![u] = ch]
        /\ ch' = NoConn
        /\ Goto(u, "got")
     \/ /\ ch = NoConn
        /\ chClosed
        /\ Goto(u, "idle")
        /\ UNCHANGED <<cn, ch>>
  /\ UNCHANGED <<then, state, chClosed, badVars, closeVars, connVars>>

-----------------------------------------------------------------------------
(* getConn and withConn.                                                    *)

\* The field Inited is set before the work it stands for.
InitConn(u) ==
  /\ pc[u] = "got"
  /\ Goto(u, IF cn[u] \in inited THEN "using" ELSE "initing")
  /\ inited' = inited \cup {cn[u]}
  /\ UNCHANGED <<cn, then, state, chanVars, badVars, closeVars, borrowed,
                 served>>

InitConnEnds(u) ==
  /\ pc[u] = "initing"
  /\ \/ Goto(u, "using") /\ UNCHANGED then
     \/ /\ InitFails
        /\ Goto(u, "markBad")
        /\ \E t \in {"init", "initRetry"} :
             /\ t = "initRetry" => Retries
             /\ then' = [then EXCEPT ![u] = t]
  /\ UNCHANGED <<cn, state, chanVars, badVars, closeVars, connVars>>

\* fn has returned and the connection is not bad.
QueryEnds(u) ==
  /\ pc[u] = "using"
  /\ served' = cn[u]
  /\ Goto(u, "put")
  /\ UNCHANGED <<cn, then, state, chanVars, badVars, closeVars, borrowed,
                 inited>>

\* fn has failed with an error that makes the connection bad, which
\* Stmt.prepare may retry.
QueryFails(u) ==
  /\ pc[u] = "using"
  /\ Goto(u, "markBad")
  /\ \E t \in {"nothing", "retry"} :
       /\ t = "retry" => Retries
       /\ then' = [then EXCEPT ![u] = t]
  /\ UNCHANGED <<cn, state, chanVars, badVars, closeVars, connVars>>

\* The goroutine of withConn has sent a cancel request: the connection goes to
\* Remove with the error of fn, which is nil when fn came to its end.
QueryCancelled(u) ==
  /\ pc[u] = "using"
  /\ \E place \in {"markBad", "markNil"} : Goto(u, place)
  /\ UNCHANGED <<cn, then, state, chanVars, badVars, closeVars, connVars>>

-----------------------------------------------------------------------------
(* Put and Remove.  The send on a closed channel panics and is recovered.   *)

\* Fault: the connection is forgotten when the channel is closed.
PutForgets(u) ==
  /\ pc[u] = "put"
  /\ chClosed \/ ch = NoConn
  /\ ch' = IF chClosed THEN ch ELSE cn[u]
  /\ Drop(u)
  /\ Goto(u, "idle")
  /\ UNCHANGED <<then, state, chClosed, badVars, closeVars, connVars>>

Put(u) ==
  /\ pc[u] = "put"
  /\ \/ /\ chClosed
        /\ Goto(u, "free")
        /\ UNCHANGED <<cn, ch>>
     \/ /\ ~chClosed
        /\ ch = NoConn
        /\ ch' = cn[u]
        /\ Drop(u)
        /\ Goto(u, "idle")
  /\ UNCHANGED <<then, state, chClosed, badVars, closeVars, connVars>>

\* freeConn, reached from Put.
FreeConn(u) ==
  /\ pc[u] = "free"
  /\ IF bad THEN PoolRemove(cn[u]) ELSE PoolPut(cn[u])
  /\ Drop(u)
  /\ Goto(u, "idle")
  /\ UNCHANGED <<then, state, chanVars, badVars, closeVars>>

\* BadConnError with a nil reason is no bad-connection error.
Remove(u) ==
  /\ pc[u] \in {"markBad", "markNil"}
  /\ bad' = (pc[u] = "markBad")
  /\ UNCHANGED wasReset
  /\ Goto(u, "giveBack")
  /\ UNCHANGED <<cn, then, state, chanVars, closeVars, connVars>>

AfterRemove(u) == IF then[u] = "nothing" THEN "idle" ELSE "reset"

RemoveSends(u) ==
  /\ pc[u] = "giveBack"
  /\ \/ /\ chClosed
        /\ Goto(u, "removeClosed")
        /\ UNCHANGED <<cn, ch>>
     \/ /\ ~chClosed
        /\ ch = NoConn
        /\ ch' = cn[u]
        /\ Drop(u)
        /\ Goto(u, AfterRemove(u))
  /\ UNCHANGED <<then, state, chClosed, badVars, closeVars, connVars>>

RemoveClosed(u) ==
  /\ pc[u] = "removeClosed"
  /\ PoolRemove(cn[u])
  /\ Drop(u)
  /\ Goto(u, AfterRemove(u))
  /\ UNCHANGED <<then, state, chanVars, badVars, closeVars>>

-----------------------------------------------------------------------------
(* Reset, after a failed initConn and before a retry of Stmt.prepare.       *)

\* Reset returns with an error: getConn ignores it, prepare gives up.
ResetFails(u) ==
  /\ Goto(u, IF then[u] = "initRetry" THEN "reset" ELSE "idle")
  /\ then' = [then EXCEPT ![u] = IF @ = "initRetry" THEN "retry"
                                                    ELSE "nothing"]

\* Reset returns nil: prepare tries again.
ResetSucceeds(u) ==
  /\ Goto(u, CASE then[u] = "initRetry" -> "reset"
               [] then[u] = "retry"     -> "load"
               [] OTHER                 -> "idle")
  /\ then' = [then EXCEPT ![u] = IF @ = "initRetry" THEN "retry"
                                                    ELSE "nothing"]

Reset(u) ==
  /\ pc[u] = "reset"
  /\ IF bad THEN Goto(u, "resetTake") /\ UNCHANGED then
            ELSE ResetSucceeds(u)
  /\ UNCHANGED <<cn, state, chanVars, badVars, closeVars, connVars>>

ResetTake(u) ==
  /\ pc[u] = "resetTake"
  /\ IF ch # NoConn
     THEN /\ cn' = [cn EXCEPT ![u] = ch]
          /\ ch' = NoConn
          /\ Goto(u, "resetRemove")
          /\ UNCHANGED then
     ELSE ResetFails(u) /\ UNCHANGED <<cn, ch>>
  /\ UNCHANGED <<state, chClosed, badVars, closeVars, connVars>>

ResetRemove(u) ==
  /\ pc[u] = "resetRemove"
  /\ PoolRemove(cn[u])
  /\ Drop(u)
  /\ Goto(u, "resetClear")
  /\ UNCHANGED <<then, state, chanVars, badVars, closeVars>>

ResetClear(u) ==
  /\ pc[u] = "resetClear"
  /\ bad' = FALSE
  /\ wasReset' = TRUE
  /\ Goto(u, "resetCas")
  /\ UNCHANGED <<cn, then, state, chanVars, closeVars, connVars>>

ResetCas(u) ==
  /\ pc[u] = "resetCas"
  /\ IF state = "inited"
     THEN state' = "default" /\ ResetSucceeds(u)
     ELSE UNCHANGED state /\ ResetFails(u)
  /\ UNCHANGED <<cn, chanVars, badVars, closeVars, connVars>>

-----------------------------------------------------------------------------
(* Owners: NewStickyConnPool on a sticky pool adds one, Close takes one.    *)

NewStickyConnPool ==
  /\ owners < MaxOwners
  /\ owners' = owners + 1
  /\ shared' = shared + 1
  /\ UNCHANGED <<userVars, state, chanVars, badVars, closing, closerPc,
                 connVars>>

Close ==
  /\ shared > 0
  /\ shared' = shared - 1
  /\ closing' = IF shared = 1 THEN closing + 1 ELSE closing
  /\ UNCHANGED <<userVars, state, chanVars, badVars, owners, closerPc,
                 connVars>>

\* The loop of load and compare-and-swap; a second closer finds it closed.
CloseState ==
  /\ closing > 0
  /\ closing' = closing - 1
  /\ state' = "closed"
  /\ closerPc' = IF state = "closed" THEN closerPc ELSE "close"
  /\ UNCHANGED <<userVars, chanVars, badVars, shared, owners, connVars>>

\* Fault: the channel is not closed.
CloseChanSkipped ==
  /\ closerPc = "close"
  /\ closerPc' = "drain"
  /\ UNCHANGED <<userVars, state, chanVars, badVars, shared, owners, closing,
                 connVars>>

CloseChan ==
  /\ closerPc = "close"
  /\ chClosed' = TRUE
  /\ closerPc' = "drain"
  /\ UNCHANGED <<userVars, state, ch, badVars, shared, owners, closing,
                 connVars>>

\* The connection left in the channel is freed.
CloseDrain ==
  /\ closerPc = "drain"
  /\ closerPc' = "done"
  /\ ch' = NoConn
  /\ \/ ch = NoConn /\ UNCHANGED connVars
     \/ ch # NoConn /\ bad /\ PoolRemove(ch)
     \/ ch # NoConn /\ ~bad /\ PoolPut(ch)
  /\ UNCHANGED <<userVars, state, chClosed, badVars, shared, owners, closing>>

-----------------------------------------------------------------------------
GetStep(u) == \/ Get(u) \/ PoolGet(u) \/ GetCAS(u) \/ RemoveLoser(u)
              \/ GetLoops(u) \/ CheckBad(u) \/ Receive(u)

QueryStep(u) == \/ InitConn(u) \/ InitConnEnds(u) \/ QueryEnds(u)
                \/ QueryFails(u) \/ QueryCancelled(u)

ReleaseStep(u) == \/ Put(u) \/ FreeConn(u) \/ Remove(u) \/ RemoveSends(u)
                  \/ RemoveClosed(u) \/ Reset(u) \/ ResetTake(u)
                  \/ ResetRemove(u) \/ ResetClear(u) \/ ResetCas(u)

UserGoesOn(u) == GetStep(u) \/ QueryStep(u) \/ ReleaseStep(u)
CloseStep == CloseState \/ CloseChan \/ CloseDrain

Next == \/ \E u \in User : Start(u) \/ UserGoesOn(u)
        \/ NewStickyConnPool \/ Close \/ CloseStep

Spec == Init /\ [][Next]_vars

\* Goroutines that can run do run, queries end, and the receivers of a channel
\* are served in order.
Fairness ==
  /\ \A u \in User : WF_vars(UserGoesOn(u)) /\ SF_vars(Receive(u))
  /\ WF_vars(CloseStep)

FairSpec == Spec /\ Fairness

-----------------------------------------------------------------------------
(* Properties.                                                              *)

TypeOK ==
  /\ pc \in [User -> UserPc]
  /\ cn \in [User -> Conn \cup {NoConn}]
  /\ then \in [User -> {"nothing", "init", "initRetry", "retry"}]
  /\ state \in {"default", "inited", "closed"}
  /\ ch \in Conn \cup {NoConn}
  /\ chClosed \in BOOLEAN
  /\ bad \in BOOLEAN
  /\ shared \in 0..MaxOwners
  /\ owners \in 1..MaxOwners
  /\ closing \in 0..MaxOwners
  /\ closerPc \in {"no", "close", "drain", "done"}
  /\ borrowed \in SUBSET Conn
  /\ inited \in SUBSET Conn
  /\ served \in Conn \cup {NoConn}
  /\ wasReset \in BOOLEAN

\* Every connection the sticky pool has borrowed is in exactly one place, the
\* channel or the hands of one goroutine: whatever Close, Reset, Put and Remove
\* do to each other, none is leaked and none is given back twice.
Custody ==
  /\ borrowed = ({cn[u] : u \in User} \cup {ch}) \ {NoConn}
  /\ \A u, v \in User : cn[u] = cn[v] /\ cn[u] # NoConn => u = v
  /\ \A u \in User : cn[u] = ch => ch = NoConn

\* Places where a user has the connection the pool sticks to, or has taken it
\* away and is about to say so.
HasSticky == {"got", "initing", "using", "put", "free", "markBad", "markNil",
              "giveBack", "removeClosed", "resetRemove", "resetClear",
              "resetCas"}

\* The connection the pool sticks to is one: nobody else has one while it is in
\* the channel, in use or being replaced by Reset, so two queries of a
\* transaction never run at once and the send of Put or Remove never blocks.
OneConn ==
  \A u \in User : pc[u] \in HasSticky =>
    ch = NoConn /\ \A v \in User \ {u} : pc[v] \notin HasSticky

\* When the last owner has closed the pool and the queries have ended, the pool
\* below has every connection back.
ClosedReturnsAll ==
  closerPc = "done" /\ (\A u \in User : pc[u] = "idle") => borrowed = {}

\* Whatever Get, Put, Remove, Reset and Close do to each other there is one
\* connection to stick to, each that was borrowed is in one place, and after
\* the last Close that is the pool below.
InOnePlace == Custody /\ OneConn /\ ClosedReturnsAll

\* From the end of Get to the end of Put or Remove the connection is on loan.
OnLoan == {"got", "initing", "using", "put", "free", "markBad", "markNil",
           "giveBack", "removeClosed"}

lentBar  == [u \in User |-> IF pc[u] \in OnLoan THEN cn[u] ELSE NoConn]
loansBar == Cardinality({u \in User : pc[u] \in OnLoan})
stockBar == {ch} \ {NoConn}

Lending == INSTANCE ConnLending
             WITH Client <- User, Limit <- 1,
                  lent <- lentBar, loans <- loansBar, stock <- stockBar

\* To its callers the sticky pool is a Pooler like the one below it, of size 1:
\* the race of the first Gets, the connections that lose it and what Reset and
\* Close take out of the channel do not show.
LendsOne == Lending!Spec

\* A query that waits for the connection gets it or learns that the pool is
\* closed, until the first Reset: a Get that has seen no error before Reset
\* takes the connection away may wait on the channel of a pool without one.
GetReturns == \A u \in User : pc[u] = "recv" ~> pc[u] # "recv" \/ wasReset

\* Until the first Reset all queries of a sticky pool end well on one and the
\* same connection, however many Gets race for the first one.
OneSession ==
  [][served # NoConn /\ ~wasReset => served' = served]_served

\* upg/tx.go, Prepare: "The returned statement operates within the
\* transaction".  Read here as: no two queries of a sticky pool end well on two
\* connections, a failed Prepare that is tried again included.
SameSession == [][served # NoConn => served' = served]_served
=============================================================================
