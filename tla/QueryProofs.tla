----------------------------- MODULE QueryProofs -----------------------------
(* Proofs about Query, for any number of goroutines, connections, hooks and  *)
(* retries and every pooler.                                                 *)
EXTENDS Query, FiniteSetTheorems, TLAPS

\* fn has panicked or made the connection bad.
Spoilt(e) == isBadConn(e) \/ e = "panic"

\* withConn has a connection while fn runs and until it is released; in a copy
\* fn holds the hooks too.
InFn(p) == \/ pc[p] \in {"write", "read", "settle"}
           \/ op[p] = "copy" /\ pc[p] \in {"before", "after"}

\* A goroutine has a connection in withConn and only there, nobody else has the
\* same one, and it does not wait in the pooler.
Holding ==
  /\ \A p \in Proc : cn[p] # NoConn <=> InFn(p)
  /\ \A p, q \in Proc : cn[p] = cn[q] /\ cn[p] # NoConn => p = q
  /\ \A p \in Proc : cn[p] \notin idle
  /\ \A p \in Proc : pc[p] = "sleep" => op[p] = "exec"

\* A sticky or a single pool has one connection, waiting or lent, or has
\* forgotten it; a pool returns no error of old.
OneConn ==
  /\ kind = "pool" => stuck = "nil"
  /\ kind # "pool" => /\ \A c, d \in idle : c = d
                      /\ \A p \in Proc : cn[p] # NoConn => idle = {}
                      /\ \A p, q \in Proc :
                           cn[p] # NoConn /\ cn[q] # NoConn => p = q

\* A backend works only for the holder of its connection, and has either an
\* answer or something to do.  When fn has neither panicked nor made the
\* connection bad it has read the answer.
Backends ==
  /\ \A c \in Conn : run[c] # Nobody => run[c] \in Proc /\ cn[run[c]] = c
  /\ \A c \in Conn : run[c] # Nobody => reply[c] = "none"
  /\ \A c \in Conn : reply[c] # "none" => \E p \in Proc : cn[p] = c
  /\ \A p \in Proc :
       /\ pc[p] \in {"before", "write"} /\ InFn(p) =>
            run[cn[p]] = Nobody /\ reply[cn[p]] = "none"
       /\ pc[p] \in {"after", "settle"} /\ InFn(p) /\ ~Spoilt(err[p]) =>
            run[cn[p]] = Nobody /\ reply[cn[p]] = "none"

\* What has been left unread, and not in one of the three ways, lies in a sticky
\* pool that is stuck, or its borrower is about to remove it.
Unspoilt ==
  /\ \A c \in idle : unread[c] = "left" => stuck # "nil"
  /\ \A c \in Conn : unread[c] = "left" =>
       c \in idle \/ \E p \in Proc : cn[p] = c
  /\ \A p \in Proc : cn[p] # NoConn /\ unread[cn[p]] = "left" =>
       pc[p] \in {"after", "settle"} /\ Spoilt(err[p])

\* Cancel requests on the way to a connection come from its holder, when that
\* one's goroutine has sent them.
Requests == kind # "sticky" => \A c \in Conn :
  sig[c] # "none" => sig[c] = "own" /\ \E p \in Proc : cn[p] = c /\ watch[p] = "signal"

\* Hooks that are open at each place of a call.
Hooked == \A p \in Proc :
  /\ pc[p] \in {"idle", "before"} => hooked[p] = 0
  /\ op[p] = "copy" /\ pc[p] \in {"get", "wait"} => hooked[p] = 0
  /\ op[p] = "copy" /\ pc[p] = "settle" /\ hooked[p] > 0 => err[p] \in {"hook", "panic"}

\* The executions that p may have had since its last unknown end: at most one,
\* and none when it is going to send the statement.
Budget == \A p \in Proc :
  /\ may[p] <= 1
  /\ pc[p] \in {"idle", "before", "get", "wait", "write"} => may[p] = 0
  /\ pc[p] = "sleep" /\ ~Unknown(p) => may[p] = 0
  /\ pc[p] = "read" /\ reply[cn[p]] \notin {"none", "nil"} => may[p] = 0
  /\ pc[p] = "settle" /\ op[p] = "exec" /\ shouldRetry(err[p]) /\ ~Unknown(p) =>
       may[p] = 0
  /\ \A c \in Conn : run[c] = p => may[p] = 1

\* An answer without an error has been executed.
Done == \A p \in Proc :
  /\ pc[p] = "read" /\ reply[cn[p]] = "nil" => done[p]
  /\ pc[p] \in {"settle", "after", "return"} /\ err[p] = "nil" /\ ~misled[p] => done[p]

IInv == /\ TypeOK /\ Holding /\ OneConn /\ Backends /\ Unspoilt /\ NoWatchLeft
        /\ Requests /\ Hooked /\ HooksPaired /\ Budget /\ Done

USE QueryAssumption DEF Pooler, Place, Answer, Unread, Err, isBadConn, shouldRetry,
  Goto, InFn, Spoilt, Unknown, readCopyData, poolVars, srvVars, callVars

LEMMA InitIInv == Init => IInv
<1> SUFFICES ASSUME Init PROVE IInv
  OBVIOUS
<1>1. TypeOK
  BY DEF Init, TypeOK
<1>2. Holding /\ OneConn /\ Backends /\ Unspoilt
  BY DEF Init, Holding, OneConn, Backends, Unspoilt
<1>3. NoWatchLeft /\ Requests /\ Hooked /\ HooksPaired
  BY DEF Init, NoWatchLeft, Requests, Hooked, HooksPaired
<1>4. Budget /\ Done
  BY DEF Init, Budget, Done
<1>. QED
  BY <1>1, <1>2, <1>3, <1>4 DEF IInv

-----------------------------------------------------------------------------
(* What the larger operations do.                                           *)

\* exec and query go on after withConn with a retry or with their end, a copy
\* and a panic return.
Goes(p, e, place) ==
  /\ attempt' \in [Proc -> 0..MaxRetries]
  /\ pc' = [pc EXCEPT ![p] = place]
  /\ place = "sleep" => op[p] = "exec" /\ shouldRetry(e)
  /\ place = "after" => op[p] = "exec"
  /\ place = "return" => op[p] = "copy" \/ e = "panic"

LEMMA LoopStep ==
  ASSUME TypeOK, NEW p \in Proc, NEW e \in Err, Loop(p, e)
  PROVE  \E place \in {"sleep", "after", "return"} : Goes(p, e, place)
<1>1. attempt' \in [Proc -> 0..MaxRetries]
  BY DEF Loop, TypeOK
<1>2. CASE op[p] = "exec" /\ shouldRetry(e) /\ attempt[p] < MaxRetries
  BY <1>1, <1>2 DEF Loop, Goes
<1>3. CASE ~(op[p] = "exec" /\ shouldRetry(e) /\ attempt[p] < MaxRetries)
  BY <1>1, <1>3 DEF Loop, ByOp, TypeOK, Goes
<1>. QED
  BY <1>2, <1>3

\* Get returns a connection that nobody has, or an error, or waits.
GetsConn(p, c) ==
  /\ pc[p] \in {"get", "wait"}
  /\ \A q \in Proc : cn[q] # c
  /\ kind # "pool" => c \in idle
  /\ cn' = [cn EXCEPT ![p] = c]
  /\ idle' = idle \ {c}
  /\ watch' = [watch EXCEPT ![p] = IF ctx[p] = "none" THEN "none" ELSE "select"]
  /\ pc' = [pc EXCEPT ![p] = IF op[p] = "exec" THEN "write" ELSE "before"]
  /\ unread' \in [Conn -> Unread]
  /\ \A d \in Conn \ {c} : unread'[d] = unread[d]
  /\ \/ unread'[c] # "left"
     \/ unread' = unread /\ (c \in idle => stuck = "nil")
  /\ UNCHANGED <<kind, stuck, run, reply, sig, callVars, err, hooked>>

GetsError(p, e, place) ==
  /\ pc[p] = "get"
  /\ err' = [err EXCEPT ![p] = e]
  /\ Goes(p, e, place)
  /\ UNCHANGED <<kind, poolVars, srvVars, op, ctx, done, may, misled, watch, hooked>>

Waits(p) ==
  /\ pc[p] = "get" /\ kind = "sticky"
  /\ pc' = [pc EXCEPT ![p] = "wait"]
  /\ UNCHANGED <<kind, poolVars, srvVars, callVars, watch, err, hooked>>

LEMMA GetStep ==
  ASSUME TypeOK, Holding, OneConn, NEW p \in Proc, getConn(p) \/ stickyReceive(p)
  PROVE  \/ \E c \in Conn : GetsConn(p, c)
         \/ \E e \in Err \ {"nil", "panic"}, place \in {"sleep", "after", "return"} :
              GetsError(p, e, place)
         \/ Waits(p)
<1>1. ASSUME pc[p] = "get", NEW c \in GetConns(p), Gets(p, c), UNCHANGED unread
      PROVE  c \in Conn /\ GetsConn(p, c)
  <2>1. /\ c \in Conn
        /\ \A q \in Proc : cn[q] # c
        /\ kind # "pool" => c \in idle
        /\ c \in idle => stuck = "nil"
    BY <1>1 DEF GetConns, TypeOK, Holding, OneConn
  <2>. QED
    BY <1>1, <2>1 DEF Gets, GetsConn, ByOp, TypeOK
<1>2. ASSUME getConn(p), NEW e \in GetErrors(p), Set(p, e), Loop(p, e),
             UNCHANGED <<kind, poolVars, srvVars, op, ctx, done, may, misled, watch,
                         hooked>>
      PROVE  \E place \in {"sleep", "after", "return"} :
               e \in Err \ {"nil", "panic"} /\ GetsError(p, e, place)
  <2>1. e \in Err \ {"nil", "panic"}
    <3>1. kind \in Pooler /\ stuck \in Err \ {"panic"}
      BY DEF TypeOK
    <3>. QED
      BY <3>1 DEF GetErrors
  <2>2. PICK place \in {"sleep", "after", "return"} : Goes(p, e, place)
    BY <1>2, <2>1, LoopStep
  <2>. QED
    BY <1>2, <2>1, <2>2 DEF getConn, GetsError, Set
<1>3. ASSUME stickyReceive(p) PROVE \E c \in Conn : GetsConn(p, c)
  <2>1. PICK c \in idle :
          /\ Gets(p, c)
          /\ unread' = [unread EXCEPT ![c] = IF @ = "left" THEN "stray" ELSE @]
    BY <1>3 DEF stickyReceive
  <2>2. c \in Conn /\ \A q \in Proc : cn[q] # c
    BY DEF TypeOK, Holding
  <2>3. /\ unread' \in [Conn -> Unread]
        /\ \A d \in Conn \ {c} : unread'[d] = unread[d]
        /\ unread'[c] # "left"
    BY <2>1, <2>2 DEF TypeOK
  <2>. QED
    BY <1>3, <2>1, <2>2, <2>3 DEF stickyReceive, Gets, GetsConn, ByOp
<1>. QED
  BY <1>1, <1>2, <1>3 DEF getConn, Waits

\* fn has read an answer, its own or another's, and left why on the connection.
Reads(p, e, own, why) ==
  /\ pc[p] = "read"
  /\ own => /\ unread[cn[p]] = "no" /\ reply[cn[p]] # "none"
            /\ e = reply[cn[p]] \/ e \in {"refused", "fatal", "panic"}
  /\ why \in {"no", "stray"} \/ unread[cn[p]] = why
  /\ err' = [err EXCEPT ![p] = e]
  /\ misled' = [misled EXCEPT ![p] = IF own THEN FALSE ELSE TRUE]
  /\ pc' = [pc EXCEPT ![p] = IF op[p] = "exec" THEN "settle" ELSE "after"]
  /\ run' = [run EXCEPT ![cn[p]] = Nobody]
  /\ reply' = [reply EXCEPT ![cn[p]] = "none"]
  /\ unread' = [unread EXCEPT ![cn[p]] = why]
  /\ UNCHANGED <<kind, poolVars, sig, op, ctx, attempt, done, may, watch, hooked>>

LEMMA ReadStep ==
  ASSUME TypeOK, Holding, NEW p \in Proc, Read(p)
  PROVE  /\ cn[p] \in Conn
         /\ \E e \in Err \ {"net"}, own \in BOOLEAN, why \in Unread : Reads(p, e, own, why)
<1>1. pc[p] = "read" /\ cn[p] \in Conn
  BY DEF Read, TypeOK, Holding
<1>2. reply[cn[p]] \in Answer \cup {"none"} /\ unread[cn[p]] \in Unread
  BY <1>1 DEF TypeOK
<1>3. CASE /\ unread[cn[p]] = "no" /\ reply[cn[p]] # "none"
           /\ \E e \in Outcomes(p) : FnEnds(p, e, TRUE)
           /\ LeavesBehind(p, "no")
  <2>1. PICK e \in Outcomes(p) : FnEnds(p, e, TRUE)
    BY <1>3
  <2>2. e \in Err \ {"net"} /\ (e = reply[cn[p]] \/ e \in {"refused", "fatal", "panic"})
    BY <1>2, <1>3 DEF Outcomes, Panics
  <2>3. Reads(p, e, TRUE, "no")
    BY <1>1, <1>3, <2>1, <2>2 DEF Read, Reads, FnEnds, Set, ByOp, LeavesBehind
  <2>. QED
    BY <1>1, <2>2, <2>3
<1>4. CASE /\ unread[cn[p]] = "no" /\ reply[cn[p]] \notin {"none", "nil"}
           /\ op[p] = "copy"
           /\ FnEnds(p, reply[cn[p]], TRUE)
           /\ LeavesBehind(p, "stray")
  <2>1. Reads(p, reply[cn[p]], TRUE, "stray")
    BY <1>1, <1>4 DEF Read, Reads, FnEnds, Set, ByOp, LeavesBehind
  <2>. QED
    BY <1>1, <1>2, <1>4, <2>1
<1>5. CASE /\ unread[cn[p]] # "no"
           /\ \E a \in Says : FnEnds(p, a, FALSE)
           /\ \/ LeavesBehind(p, unread[cn[p]])
              \/ reply[cn[p]] # "none" /\ LeavesBehind(p, "no")
  <2>1. PICK a \in Says : FnEnds(p, a, FALSE)
    BY <1>5
  <2>2. a \in Err \ {"net"}
    OBVIOUS
  <2>3. CASE LeavesBehind(p, unread[cn[p]])
    <3>1. Reads(p, a, FALSE, unread[cn[p]])
      BY <1>1, <2>1, <2>3 DEF Read, Reads, FnEnds, Set, ByOp, LeavesBehind
    <3>. QED
      BY <1>1, <1>2, <2>2, <3>1
  <2>4. CASE LeavesBehind(p, "no")
    <3>1. Reads(p, a, FALSE, "no")
      BY <1>1, <2>1, <2>4 DEF Read, Reads, FnEnds, Set, ByOp, LeavesBehind
    <3>. QED
      BY <1>1, <2>2, <3>1
  <2>. QED
    BY <1>5, <2>3, <2>4
<1>. QED
  BY <1>3, <1>4, <1>5 DEF Read

\* withConn comes to its end, one way or the other, and gives the connection
\* back with why left on it.
Ends(p, place) ==
  /\ pc[p] = "settle"
  /\ watch' = [watch EXCEPT ![p] = "none"]
  /\ Goes(p, err[p], place)
  /\ UNCHANGED <<kind, op, ctx, done, may, misled, err, hooked>>

\* The three ways in which the connection goes: back, on, or away.
Settles(p, why) ==
  /\ cn' = [cn EXCEPT ![p] = NoConn]
  /\ run' = [run EXCEPT ![cn[p]] = Nobody]
  /\ reply' = [reply EXCEPT ![cn[p]] = "none"]
  /\ unread' = [unread EXCEPT ![cn[p]] = why]
  /\ \A c \in Conn \ {cn[p]} : sig'[c] = sig[c]
  /\ \/ /\ idle' = idle \cup {cn[p]}
        /\ stuck' = stuck
        /\ ~isBadConn(err[p]) /\ watch[p] # "signal"
        /\ sig[cn[p]] = "none" => sig'[cn[p]] = "none"
        /\ why = WhyUnread(p)
     \/ /\ idle' = idle \cup {cn[p]}
        /\ kind = "sticky"
        /\ err[p] \notin {"nil", "panic"} => stuck' # "nil"
        /\ why = WhyUnread(p)
     \/ /\ idle' = idle
        /\ \/ kind = "pool" /\ stuck' = stuck
           \/ kind = "single" /\ stuck' # "nil"
        /\ sig'[cn[p]] = "none"
        /\ why = "no"

LEMMA RemoveSettles ==
  ASSUME TypeOK, NEW p \in Proc, NEW sent \in BOOLEAN, cn[p] \in Conn,
         Remove(p, sent)
  PROVE  /\ stuck' \in Err \ {"panic"} /\ sig' \in [Conn -> {"none", "own", "old"}]
         /\ \E why \in {"no", WhyUnread(p)} : Settles(p, why)
<1>0. kind \in Pooler /\ err[p] \in Err /\ stuck \in Err \ {"panic"}
  BY DEF TypeOK
<1>1. /\ stuck' \in Err \ {"panic"}
      /\ kind = "pool" => stuck' = stuck
      /\ kind = "sticky" /\ err[p] \notin {"nil", "panic"} => stuck' # "nil"
      /\ kind = "single" => stuck' # "nil"
  <2>1. CASE kind = "pool"
    BY <1>0, <2>1 DEF Remove
  <2>2. CASE kind = "sticky"
    BY <1>0, <2>2 DEF Remove, NoReason
  <2>3. CASE kind = "single"
    BY <1>0, <2>3 DEF Remove, NoReason
  <2>. QED
    BY <1>0, <2>1, <2>2, <2>3
<1>2. /\ sig' \in [Conn -> {"none", "own", "old"}]
      /\ \A c \in Conn \ {cn[p]} : sig'[c] = sig[c]
      /\ kind # "sticky" => sig'[cn[p]] = "none"
  BY DEF Remove, TypeOK
<1>3. CASE kind = "sticky"
  <2>1. Settles(p, WhyUnread(p))
    BY <1>1, <1>2, <1>3 DEF Remove, LeavesBehind, Settles
  <2>. QED
    BY <1>1, <1>2, <2>1
<1>4. CASE kind # "sticky"
  <2>1. Settles(p, "no")
    BY <1>0, <1>1, <1>2, <1>4 DEF Remove, LeavesBehind, Settles
  <2>. QED
    BY <1>1, <1>2, <2>1
<1>. QED
  BY <1>3, <1>4

LEMMA PutSettles ==
  ASSUME TypeOK, NEW p \in Proc, cn[p] \in Conn, Put(p),
         ~isBadConn(err[p]), watch[p] # "signal"
  PROVE  /\ stuck' \in Err \ {"panic"} /\ sig' \in [Conn -> {"none", "own", "old"}]
         /\ Settles(p, WhyUnread(p))
<1>1. /\ sig' \in [Conn -> {"none", "own", "old"}]
      /\ \A c \in Conn \ {cn[p]} : sig'[c] = sig[c]
      /\ sig[cn[p]] = "none" => sig'[cn[p]] = "none"
  BY DEF Put, TypeOK
<1>. QED
  BY <1>1 DEF Put, LeavesBehind, Settles, TypeOK

\* What goes back with something unread has been spoilt.
LEMMA WhyStep ==
  ASSUME TypeOK, NEW p \in Proc, cn[p] \in Conn
  PROVE  /\ WhyUnread(p) \in Unread
         /\ WhyUnread(p) = "left" => /\ err[p] # "panic"
                                     /\ \/ unread[cn[p]] = "left"
                                        \/ run[cn[p]] # Nobody \/ reply[cn[p]] # "none"
<1>1. unread[cn[p]] \in Unread
  BY DEF TypeOK
<1>2. CASE run[cn[p]] = Nobody /\ reply[cn[p]] = "none" /\ unread[cn[p]] = "no"
  BY <1>2 DEF WhyUnread
<1>3. CASE /\ run[cn[p]] # Nobody \/ reply[cn[p]] # "none" \/ unread[cn[p]] # "no"
           /\ err[p] = "panic"
  <2>1. WhyUnread(p) = "stray"
    <3>1. CASE unread[cn[p]] # "no"
      BY <1>3, <3>1 DEF WhyUnread
    <3>2. CASE run[cn[p]] # Nobody
      BY <1>3, <3>2 DEF WhyUnread
    <3>3. CASE reply[cn[p]] # "none"
      BY <1>3, <3>3 DEF WhyUnread
    <3>. QED
      BY <1>3, <3>1, <3>2, <3>3
  <2>. QED
    BY <2>1
<1>4. CASE unread[cn[p]] # "no" /\ err[p] # "panic"
  BY <1>1, <1>4 DEF WhyUnread
<1>5. CASE /\ run[cn[p]] # Nobody \/ reply[cn[p]] # "none"
           /\ unread[cn[p]] = "no" /\ err[p] # "panic"
  BY <1>5 DEF WhyUnread
<1>. QED
  BY <1>2, <1>3, <1>4, <1>5

LEMMA SettleStep ==
  ASSUME TypeOK, Holding, NEW p \in Proc, FnDone(p) \/ CancelDone(p)
  PROVE  /\ cn[p] \in Conn
         /\ \E place \in {"sleep", "after", "return"} : Ends(p, place)
         /\ stuck' \in Err \ {"panic"} /\ sig' \in [Conn -> {"none", "own", "old"}]
         /\ \E why \in Unread : Settles(p, why)
<1>1. \/ \E sent \in BOOLEAN : Remove(p, sent)
      \/ ~isBadConn(err[p]) /\ watch[p] # "signal" /\ Put(p)
  <2>1. CASE FnDone(p) /\ isBadConn(err[p])
    BY <2>1 DEF FnDone, releaseConn, cancelRequest
  <2>2. CASE FnDone(p) /\ ~isBadConn(err[p])
    BY <2>2 DEF FnDone, releaseConn
  <2>3. CASE CancelDone(p)
    BY <2>3 DEF CancelDone
  <2>. QED
    BY <2>1, <2>2, <2>3
<1>2. /\ pc[p] = "settle"
      /\ watch' = [watch EXCEPT ![p] = "none"]
      /\ Loop(p, err[p])
      /\ UNCHANGED <<kind, op, ctx, done, may, misled, err, hooked>>
  BY DEF FnDone, CancelDone
<1>3. cn[p] \in Conn /\ err[p] \in Err
  BY <1>2 DEF TypeOK, Holding
<1>4. PICK place \in {"sleep", "after", "return"} : Goes(p, err[p], place)
  BY <1>2, <1>3, LoopStep
<1>5. /\ stuck' \in Err \ {"panic"} /\ sig' \in [Conn -> {"none", "own", "old"}]
      /\ \E why \in Unread : Settles(p, why)
  BY <1>1, <1>3, RemoveSettles, PutSettles, WhyStep
<1>. QED
  BY <1>2, <1>3, <1>4, <1>5 DEF Ends

-----------------------------------------------------------------------------
(* Every action keeps every part.                                           *)

LEMMA NextTypeOK ==
  TypeOK /\ Holding /\ OneConn /\ Backends /\ Budget /\ [Next]_vars => TypeOK'
<1> SUFFICES ASSUME TypeOK, Holding, OneConn, Backends, Budget, [Next]_vars
             PROVE  TypeOK'
  OBVIOUS
<1>1. ASSUME NEW p \in Proc, NEW o \in {"exec", "copy"}, Call(p, o)
      PROVE  TypeOK'
  BY <1>1 DEF Call, TypeOK, Holding, OneConn, Backends, Budget
<1>2. ASSUME NEW p \in Proc, beforeQuery(p) PROVE TypeOK'
  <2>1. pc' \in [Proc -> Place] /\ err' \in [Proc -> Err]
    BY <1>2 DEF beforeQuery, Panics, Set, ByOp, TypeOK
  <2>2. hooked' \in [Proc -> 0..Hooks]
    BY <1>2 DEF beforeQuery, TypeOK
  <2>. QED
    BY <1>2, <2>1, <2>2 DEF beforeQuery, TypeOK
<1>3. ASSUME NEW p \in Proc, getConn(p) \/ stickyReceive(p) PROVE TypeOK'
  <2>1. ASSUME NEW c \in Conn, GetsConn(p, c) PROVE TypeOK'
    BY <2>1 DEF GetsConn, TypeOK
  <2>2. ASSUME NEW e \in Err \ {"nil", "panic"},
               NEW place \in {"sleep", "after", "return"}, GetsError(p, e, place)
        PROVE  TypeOK'
    BY <2>2 DEF GetsError, Goes, TypeOK
  <2>3. ASSUME Waits(p) PROVE TypeOK'
    BY <2>3 DEF Waits, TypeOK
  <2>. QED
    BY <1>3, <2>1, <2>2, <2>3, GetStep
<1>4. ASSUME NEW p \in Proc, Write(p) PROVE TypeOK'
  <2>1. cn[p] \in Conn
    BY <1>4 DEF Write, TypeOK, Holding
  <2>2. PICK arrived \in {"none", "part", "all"} :
          /\ run' = IF arrived = "all" THEN [run EXCEPT ![cn[p]] = p] ELSE run
          /\ may' = IF arrived = "all" THEN [may EXCEPT ![p] = @ + 1] ELSE may
          /\ unread' = [unread EXCEPT ![cn[p]] =
                          IF arrived = "part" /\ @ = "no" THEN "left" ELSE @]
    BY <1>4 DEF Write
  <2>3. /\ run' \in [Conn -> Proc \cup {Nobody}] /\ may' \in [Proc -> Nat]
        /\ unread' \in [Conn -> Unread]
    BY <2>1, <2>2 DEF TypeOK
  <2>4. pc' \in [Proc -> Place] /\ err' \in [Proc -> Err]
    BY <1>4 DEF Write, FnEnds, Panics, Set, ByOp, TypeOK
  <2>5. misled' = misled \/ misled' = [misled EXCEPT ![p] = FALSE]
    BY <1>4 DEF Write, FnEnds
  <2>6. misled' \in [Proc -> BOOLEAN]
    <3>1. CASE misled' = misled
      BY <3>1 DEF TypeOK
    <3>2. CASE misled' = [misled EXCEPT ![p] = FALSE]
      BY <3>2 DEF TypeOK
    <3>. QED
      BY <2>5, <3>1, <3>2
  <2>. QED
    BY <1>4, <2>3, <2>4, <2>6 DEF Write, TypeOK
<1>5. ASSUME NEW p \in Proc, Read(p) PROVE TypeOK'
  <2>1. cn[p] \in Conn
    BY <1>5, ReadStep
  <2>2. PICK e \in Err \ {"net"}, own \in BOOLEAN, why \in Unread :
          Reads(p, e, own, why)
    BY <1>5, ReadStep
  <2>. QED
    BY <2>1, <2>2 DEF Reads, TypeOK
<1>6. ASSUME NEW p \in Proc, ReadFails(p) PROVE TypeOK'
  BY <1>6 DEF ReadFails, FnEnds, Panics, Set, ByOp, TypeOK, Holding, OneConn,
    Backends, Budget
<1>7. ASSUME NEW p \in Proc, afterQuery(p) PROVE TypeOK'
  <2>1. pc' \in [Proc -> Place] /\ err' \in [Proc -> Err]
    BY <1>7 DEF afterQuery, Panics, Set, ByOp, TypeOK
  <2>2. hooked' \in [Proc -> 0..Hooks]
    BY <1>7 DEF afterQuery, TypeOK
  <2>. QED
    BY <1>7, <2>1, <2>2 DEF afterQuery, TypeOK
<1>8. ASSUME NEW p \in Proc, FnDone(p) \/ CancelDone(p) PROVE TypeOK'
  <2>1. /\ cn[p] \in Conn /\ stuck' \in Err \ {"panic"}
        /\ sig' \in [Conn -> {"none", "own", "old"}]
    BY <1>8, SettleStep
  <2>2. PICK place \in {"sleep", "after", "return"} : Ends(p, place)
    BY <1>8, SettleStep
  <2>3. PICK why \in Unread : Settles(p, why)
    BY <1>8, SettleStep
  <2>4. idle' \in SUBSET Conn
    BY <2>1, <2>3 DEF Settles, TypeOK
  <2>. QED
    BY <2>1, <2>2, <2>3, <2>4 DEF Ends, Goes, Settles, TypeOK
<1>9. ASSUME NEW p \in Proc, Sleep(p) PROVE TypeOK'
  <2>1. pc' \in [Proc -> Place] /\ err' \in [Proc -> Err]
    BY <1>9 DEF Sleep, Set, TypeOK
  <2>2. may' \in [Proc -> Nat]
    BY <1>9 DEF Sleep, TypeOK
  <2>. QED
    BY <1>9, <2>1, <2>2 DEF Sleep, TypeOK
<1>10. ASSUME NEW p \in Proc, Return(p) PROVE TypeOK'
  BY <1>10 DEF Return, Set, TypeOK, Holding, OneConn, Backends, Budget
<1>11. ASSUME NEW p \in Proc, CtxEnds(p) PROVE TypeOK'
  BY <1>11 DEF CtxEnds, TypeOK, Holding, OneConn, Backends, Budget
<1>12. ASSUME NEW p \in Proc, WatchCancels(p) PROVE TypeOK'
  BY <1>12 DEF WatchCancels, TypeOK, Holding, OneConn, Backends, Budget
<1>13. ASSUME NEW p \in Proc, WatchSignals(p) PROVE TypeOK'
  <2>1. PICK sent \in BOOLEAN :
          sig' = [sig EXCEPT ![cn[p]] = IF sent /\ @ = "none" THEN "own" ELSE @]
    BY <1>13 DEF WatchSignals, cancelRequest
  <2>2. sig' = sig \/ sig' = [sig EXCEPT ![cn[p]] = "own"]
    <3>1. CASE sent /\ sig[cn[p]] = "none"
      BY <2>1, <3>1
    <3>2. CASE ~(sent /\ sig[cn[p]] = "none")
      BY <2>1, <3>2 DEF TypeOK
    <3>. QED
      BY <3>1, <3>2
  <2>3. sig' \in [Conn -> {"none", "own", "old"}]
    BY <2>2 DEF TypeOK
  <2>. QED
    BY <1>13, <2>3 DEF WatchSignals, TypeOK
<1>14. ASSUME NEW c \in Conn, Serve(c) PROVE TypeOK'
  <2>1. run[c] \in Proc /\ may[run[c]] = 1
    BY <1>14 DEF Serve, Backends, Budget
  <2>2. may' \in [Proc -> Nat] /\ reply' \in [Conn -> Answer \cup {"none"}]
    BY <1>14, <2>1 DEF Serve, TypeOK
  <2>3. done' = done \/ done' = [done EXCEPT ![run[c]] = TRUE]
    BY <1>14 DEF Serve
  <2>4. done' \in [Proc -> BOOLEAN]
    <3>1. CASE done' = done
      BY <3>1 DEF TypeOK
    <3>2. CASE done' = [done EXCEPT ![run[c]] = TRUE]
      BY <3>2 DEF TypeOK
    <3>. QED
      BY <2>3, <3>1, <3>2
  <2>. QED
    BY <1>14, <2>2, <2>4 DEF Serve, TypeOK
<1>15. ASSUME NEW c \in Conn, Interrupt(c) PROVE TypeOK'
  <2>1. run[c] # Nobody => run[c] \in Proc /\ may[run[c]] = 1
    BY DEF Backends, Budget
  <2>2. /\ may' \in [Proc -> Nat] /\ run' \in [Conn -> Proc \cup {Nobody}]
        /\ reply' \in [Conn -> Answer \cup {"none"}]
    BY <1>15, <2>1 DEF Interrupt, TypeOK
  <2>. QED
    BY <1>15, <2>2 DEF Interrupt, TypeOK
<1>16. CASE UNCHANGED vars
  BY <1>16 DEF vars, TypeOK, Holding, OneConn, Backends, Budget
<1>. QED
  BY <1>1, <1>2, <1>3, <1>4, <1>5, <1>6, <1>7, <1>8, <1>9, <1>10, <1>11, <1>12,
    <1>13, <1>14, <1>15, <1>16 DEF Next, Runs

LEMMA NextHolding ==
  TypeOK /\ OneConn /\ Holding /\ [Next]_vars => Holding'
<1> SUFFICES ASSUME TypeOK, OneConn, Holding, [Next]_vars PROVE Holding'
  OBVIOUS
<1>1. ASSUME NEW p \in Proc, NEW o \in {"exec", "copy"}, Call(p, o)
      PROVE  Holding'
  BY <1>1 DEF Call, TypeOK, OneConn, Holding
<1>2. ASSUME NEW p \in Proc, beforeQuery(p) PROVE Holding'
  BY <1>2 DEF beforeQuery, Panics, Set, ByOp, TypeOK, OneConn, Holding
<1>3. ASSUME NEW p \in Proc, getConn(p) \/ stickyReceive(p) PROVE Holding'
  <2>1. ASSUME NEW c \in Conn, GetsConn(p, c) PROVE Holding'
    BY <2>1 DEF GetsConn, TypeOK, OneConn, Holding
  <2>2. ASSUME NEW e \in Err \ {"nil", "panic"},
               NEW place \in {"sleep", "after", "return"}, GetsError(p, e, place)
        PROVE  Holding'
    BY <2>2 DEF GetsError, Goes, TypeOK, OneConn, Holding
  <2>3. ASSUME Waits(p) PROVE Holding'
    BY <2>3 DEF Waits, TypeOK, OneConn, Holding
  <2>. QED
    BY <1>3, <2>1, <2>2, <2>3, GetStep
<1>4. ASSUME NEW p \in Proc, Write(p) PROVE Holding'
  BY <1>4 DEF Write, FnEnds, Panics, Set, ByOp, TypeOK, OneConn, Holding
<1>5. ASSUME NEW p \in Proc, Read(p) PROVE Holding'
  <2>1. cn[p] \in Conn
    BY <1>5, ReadStep
  <2>2. PICK e \in Err \ {"net"}, own \in BOOLEAN, why \in Unread :
          Reads(p, e, own, why)
    BY <1>5, ReadStep
  <2>. QED
    BY <2>1, <2>2 DEF Reads, TypeOK, OneConn, Holding
<1>6. ASSUME NEW p \in Proc, ReadFails(p) PROVE Holding'
  BY <1>6 DEF ReadFails, FnEnds, Panics, Set, ByOp, TypeOK, OneConn, Holding
<1>7. ASSUME NEW p \in Proc, afterQuery(p) PROVE Holding'
  BY <1>7 DEF afterQuery, Panics, Set, ByOp, TypeOK, OneConn, Holding
<1>8. ASSUME NEW p \in Proc, FnDone(p) \/ CancelDone(p) PROVE Holding'
  <2>1. /\ cn[p] \in Conn /\ stuck' \in Err \ {"panic"}
        /\ sig' \in [Conn -> {"none", "own", "old"}]
    BY <1>8, SettleStep
  <2>2. PICK place \in {"sleep", "after", "return"} : Ends(p, place)
    BY <1>8, SettleStep
  <2>3. PICK why \in Unread : Settles(p, why)
    BY <1>8, SettleStep
  <2>. QED
    BY <2>1, <2>2, <2>3 DEF Ends, Goes, Settles, TypeOK, OneConn, Holding
<1>9. ASSUME NEW p \in Proc, Sleep(p) PROVE Holding'
  BY <1>9 DEF Sleep, Set, TypeOK, OneConn, Holding
<1>10. ASSUME NEW p \in Proc, Return(p) PROVE Holding'
  BY <1>10 DEF Return, Set, TypeOK, OneConn, Holding
<1>11. ASSUME NEW p \in Proc, CtxEnds(p) PROVE Holding'
  BY <1>11 DEF CtxEnds, TypeOK, OneConn, Holding
<1>12. ASSUME NEW p \in Proc, WatchCancels(p) PROVE Holding'
  BY <1>12 DEF WatchCancels, TypeOK, OneConn, Holding
<1>13. ASSUME NEW p \in Proc, WatchSignals(p) PROVE Holding'
  BY <1>13 DEF WatchSignals, cancelRequest, TypeOK, OneConn, Holding
<1>14. ASSUME NEW c \in Conn, Serve(c) PROVE Holding'
  BY <1>14 DEF Serve, TypeOK, OneConn, Holding
<1>15. ASSUME NEW c \in Conn, Interrupt(c) PROVE Holding'
  BY <1>15 DEF Interrupt, TypeOK, OneConn, Holding
<1>16. CASE UNCHANGED vars
  BY <1>16 DEF vars, TypeOK, OneConn, Holding
<1>. QED
  BY <1>1, <1>2, <1>3, <1>4, <1>5, <1>6, <1>7, <1>8, <1>9, <1>10, <1>11, <1>12,
    <1>13, <1>14, <1>15, <1>16 DEF Next, Runs

LEMMA NextOneConn ==
  TypeOK /\ Holding /\ OneConn /\ [Next]_vars => OneConn'
<1> SUFFICES ASSUME TypeOK, Holding, OneConn, [Next]_vars PROVE OneConn'
  OBVIOUS
<1>1. ASSUME NEW p \in Proc, NEW o \in {"exec", "copy"}, Call(p, o)
      PROVE  OneConn'
  BY <1>1 DEF Call, TypeOK, Holding, OneConn
<1>2. ASSUME NEW p \in Proc, beforeQuery(p) PROVE OneConn'
  BY <1>2 DEF beforeQuery, Panics, Set, ByOp, TypeOK, Holding, OneConn
<1>3. ASSUME NEW p \in Proc, getConn(p) \/ stickyReceive(p) PROVE OneConn'
  <2>1. ASSUME NEW c \in Conn, GetsConn(p, c) PROVE OneConn'
    BY <2>1 DEF GetsConn, TypeOK, Holding, OneConn
  <2>2. ASSUME NEW e \in Err \ {"nil", "panic"},
               NEW place \in {"sleep", "after", "return"}, GetsError(p, e, place)
        PROVE  OneConn'
    BY <2>2 DEF GetsError, Goes, TypeOK, Holding, OneConn
  <2>3. ASSUME Waits(p) PROVE OneConn'
    BY <2>3 DEF Waits, TypeOK, Holding, OneConn
  <2>. QED
    BY <1>3, <2>1, <2>2, <2>3, GetStep
<1>4. ASSUME NEW p \in Proc, Write(p) PROVE OneConn'
  BY <1>4 DEF Write, FnEnds, Panics, Set, ByOp, TypeOK, Holding, OneConn
<1>5. ASSUME NEW p \in Proc, Read(p) PROVE OneConn'
  <2>1. cn[p] \in Conn
    BY <1>5, ReadStep
  <2>2. PICK e \in Err \ {"net"}, own \in BOOLEAN, why \in Unread :
          Reads(p, e, own, why)
    BY <1>5, ReadStep
  <2>. QED
    BY <2>1, <2>2 DEF Reads, TypeOK, Holding, OneConn
<1>6. ASSUME NEW p \in Proc, ReadFails(p) PROVE OneConn'
  BY <1>6 DEF ReadFails, FnEnds, Panics, Set, ByOp, TypeOK, Holding, OneConn
<1>7. ASSUME NEW p \in Proc, afterQuery(p) PROVE OneConn'
  BY <1>7 DEF afterQuery, Panics, Set, ByOp, TypeOK, Holding, OneConn
<1>8. ASSUME NEW p \in Proc, FnDone(p) \/ CancelDone(p) PROVE OneConn'
  <2>1. /\ cn[p] \in Conn /\ stuck' \in Err \ {"panic"}
        /\ sig' \in [Conn -> {"none", "own", "old"}]
    BY <1>8, SettleStep
  <2>2. PICK place \in {"sleep", "after", "return"} : Ends(p, place)
    BY <1>8, SettleStep
  <2>3. PICK why \in Unread : Settles(p, why)
    BY <1>8, SettleStep
  <2>. QED
    BY <2>1, <2>2, <2>3 DEF Ends, Goes, Settles, TypeOK, Holding, OneConn
<1>9. ASSUME NEW p \in Proc, Sleep(p) PROVE OneConn'
  BY <1>9 DEF Sleep, Set, TypeOK, Holding, OneConn
<1>10. ASSUME NEW p \in Proc, Return(p) PROVE OneConn'
  BY <1>10 DEF Return, Set, TypeOK, Holding, OneConn
<1>11. ASSUME NEW p \in Proc, CtxEnds(p) PROVE OneConn'
  BY <1>11 DEF CtxEnds, TypeOK, Holding, OneConn
<1>12. ASSUME NEW p \in Proc, WatchCancels(p) PROVE OneConn'
  BY <1>12 DEF WatchCancels, TypeOK, Holding, OneConn
<1>13. ASSUME NEW p \in Proc, WatchSignals(p) PROVE OneConn'
  BY <1>13 DEF WatchSignals, cancelRequest, TypeOK, Holding, OneConn
<1>14. ASSUME NEW c \in Conn, Serve(c) PROVE OneConn'
  BY <1>14 DEF Serve, TypeOK, Holding, OneConn
<1>15. ASSUME NEW c \in Conn, Interrupt(c) PROVE OneConn'
  BY <1>15 DEF Interrupt, TypeOK, Holding, OneConn
<1>16. CASE UNCHANGED vars
  BY <1>16 DEF vars, TypeOK, Holding, OneConn
<1>. QED
  BY <1>1, <1>2, <1>3, <1>4, <1>5, <1>6, <1>7, <1>8, <1>9, <1>10, <1>11, <1>12,
    <1>13, <1>14, <1>15, <1>16 DEF Next, Runs

LEMMA NextBackends ==
  TypeOK /\ Holding /\ OneConn /\ Backends /\ [Next]_vars => Backends'
<1> SUFFICES ASSUME TypeOK, Holding, OneConn, Backends, [Next]_vars
             PROVE  Backends'
  OBVIOUS
<1>1. ASSUME NEW p \in Proc, NEW o \in {"exec", "copy"}, Call(p, o)
      PROVE  Backends'
  BY <1>1 DEF Call, TypeOK, Holding, OneConn, Backends
<1>2. ASSUME NEW p \in Proc, beforeQuery(p) PROVE Backends'
  BY <1>2 DEF beforeQuery, Panics, Set, ByOp, TypeOK, Holding, OneConn, Backends
<1>3. ASSUME NEW p \in Proc, getConn(p) \/ stickyReceive(p) PROVE Backends'
  <2>1. ASSUME NEW c \in Conn, GetsConn(p, c) PROVE Backends'
    BY <2>1 DEF GetsConn, TypeOK, Holding, OneConn, Backends
  <2>2. ASSUME NEW e \in Err \ {"nil", "panic"},
               NEW place \in {"sleep", "after", "return"}, GetsError(p, e, place)
        PROVE  Backends'
    BY <2>2 DEF GetsError, Goes, TypeOK, Holding, OneConn, Backends
  <2>3. ASSUME Waits(p) PROVE Backends'
    BY <2>3 DEF Waits, TypeOK, Holding, OneConn, Backends
  <2>. QED
    BY <1>3, <2>1, <2>2, <2>3, GetStep
<1>4. ASSUME NEW p \in Proc, Write(p) PROVE Backends'
  BY <1>4 DEF Write, FnEnds, Panics, Set, ByOp, TypeOK, Holding, OneConn,
    Backends
<1>5. ASSUME NEW p \in Proc, Read(p) PROVE Backends'
  <2>1. cn[p] \in Conn
    BY <1>5, ReadStep
  <2>2. PICK e \in Err \ {"net"}, own \in BOOLEAN, why \in Unread :
          Reads(p, e, own, why)
    BY <1>5, ReadStep
  <2>. QED
    BY <2>1, <2>2 DEF Reads, TypeOK, Holding, OneConn, Backends
<1>6. ASSUME NEW p \in Proc, ReadFails(p) PROVE Backends'
  BY <1>6 DEF ReadFails, FnEnds, Panics, Set, ByOp, TypeOK, Holding, OneConn,
    Backends
<1>7. ASSUME NEW p \in Proc, afterQuery(p) PROVE Backends'
  BY <1>7 DEF afterQuery, Panics, Set, ByOp, TypeOK, Holding, OneConn, Backends
<1>8. ASSUME NEW p \in Proc, FnDone(p) \/ CancelDone(p) PROVE Backends'
  <2>1. /\ cn[p] \in Conn /\ stuck' \in Err \ {"panic"}
        /\ sig' \in [Conn -> {"none", "own", "old"}]
    BY <1>8, SettleStep
  <2>2. PICK place \in {"sleep", "after", "return"} : Ends(p, place)
    BY <1>8, SettleStep
  <2>3. PICK why \in Unread : Settles(p, why)
    BY <1>8, SettleStep
  <2>. QED
    BY <2>1, <2>2, <2>3 DEF Ends, Goes, Settles, TypeOK, Holding, OneConn,
      Backends
<1>9. ASSUME NEW p \in Proc, Sleep(p) PROVE Backends'
  BY <1>9 DEF Sleep, Set, TypeOK, Holding, OneConn, Backends
<1>10. ASSUME NEW p \in Proc, Return(p) PROVE Backends'
  BY <1>10 DEF Return, Set, TypeOK, Holding, OneConn, Backends
<1>11. ASSUME NEW p \in Proc, CtxEnds(p) PROVE Backends'
  BY <1>11 DEF CtxEnds, TypeOK, Holding, OneConn, Backends
<1>12. ASSUME NEW p \in Proc, WatchCancels(p) PROVE Backends'
  BY <1>12 DEF WatchCancels, TypeOK, Holding, OneConn, Backends
<1>13. ASSUME NEW p \in Proc, WatchSignals(p) PROVE Backends'
  BY <1>13 DEF WatchSignals, cancelRequest, TypeOK, Holding, OneConn, Backends
<1>14. ASSUME NEW c \in Conn, Serve(c) PROVE Backends'
  BY <1>14 DEF Serve, TypeOK, Holding, OneConn, Backends
<1>15. ASSUME NEW c \in Conn, Interrupt(c) PROVE Backends'
  <2>1. CASE /\ run[c] # Nobody
             /\ reply' = [reply EXCEPT ![c] = "cancelled"]
             /\ run' = [run EXCEPT ![c] = Nobody]
    BY <1>15, <2>1 DEF Interrupt, TypeOK, Holding, OneConn, Backends
  <2>2. CASE UNCHANGED <<run, reply, may>>
    BY <1>15, <2>2 DEF Interrupt, TypeOK, Holding, OneConn, Backends
  <2>. QED
    BY <1>15, <2>1, <2>2 DEF Interrupt
<1>16. CASE UNCHANGED vars
  BY <1>16 DEF vars, TypeOK, Holding, OneConn, Backends
<1>. QED
  BY <1>1, <1>2, <1>3, <1>4, <1>5, <1>6, <1>7, <1>8, <1>9, <1>10, <1>11, <1>12,
    <1>13, <1>14, <1>15, <1>16 DEF Next, Runs

LEMMA NextUnspoilt ==
  TypeOK /\ Holding /\ OneConn /\ Backends /\ Unspoilt /\ [Next]_vars
  => Unspoilt'
<1> SUFFICES ASSUME TypeOK, Holding, OneConn, Backends, Unspoilt, [Next]_vars
             PROVE  Unspoilt'
  OBVIOUS
<1>1. ASSUME NEW p \in Proc, NEW o \in {"exec", "copy"}, Call(p, o)
      PROVE  Unspoilt'
  BY <1>1 DEF Call, TypeOK, Holding, OneConn, Backends, Unspoilt
<1>2. ASSUME NEW p \in Proc, beforeQuery(p) PROVE Unspoilt'
  BY <1>2 DEF beforeQuery, Panics, Set, ByOp, TypeOK, Holding, OneConn,
    Backends, Unspoilt
<1>3. ASSUME NEW p \in Proc, getConn(p) \/ stickyReceive(p) PROVE Unspoilt'
  <2>1. ASSUME NEW c \in Conn, GetsConn(p, c) PROVE Unspoilt'
    BY <2>1 DEF GetsConn, TypeOK, Holding, OneConn, Backends, Unspoilt
  <2>2. ASSUME NEW e \in Err \ {"nil", "panic"},
               NEW place \in {"sleep", "after", "return"}, GetsError(p, e, place)
        PROVE  Unspoilt'
    BY <2>2 DEF GetsError, Goes, TypeOK, Holding, OneConn, Backends, Unspoilt
  <2>3. ASSUME Waits(p) PROVE Unspoilt'
    BY <2>3 DEF Waits, TypeOK, Holding, OneConn, Backends, Unspoilt
  <2>. QED
    BY <1>3, <2>1, <2>2, <2>3, GetStep
<1>4. ASSUME NEW p \in Proc, Write(p) PROVE Unspoilt'
  BY <1>4 DEF Write, FnEnds, Panics, Set, ByOp, TypeOK, Holding, OneConn,
    Backends, Unspoilt
<1>5. ASSUME NEW p \in Proc, Read(p) PROVE Unspoilt'
  <2>1. cn[p] \in Conn
    BY <1>5, ReadStep
  <2>2. PICK e \in Err \ {"net"}, own \in BOOLEAN, why \in Unread :
          Reads(p, e, own, why)
    BY <1>5, ReadStep
  <2>. QED
    BY <2>1, <2>2 DEF Reads, TypeOK, Holding, OneConn, Backends, Unspoilt
<1>6. ASSUME NEW p \in Proc, ReadFails(p) PROVE Unspoilt'
  BY <1>6 DEF ReadFails, FnEnds, Panics, Set, ByOp, TypeOK, Holding, OneConn,
    Backends, Unspoilt
<1>7. ASSUME NEW p \in Proc, afterQuery(p) PROVE Unspoilt'
  BY <1>7 DEF afterQuery, Panics, Set, ByOp, TypeOK, Holding, OneConn, Backends,
    Unspoilt
<1>8. ASSUME NEW p \in Proc, FnDone(p) \/ CancelDone(p) PROVE Unspoilt'
  <2>1. /\ cn[p] \in Conn /\ stuck' \in Err \ {"panic"}
        /\ sig' \in [Conn -> {"none", "own", "old"}]
    BY <1>8, SettleStep
  <2>2. PICK place \in {"sleep", "after", "return"} : Ends(p, place)
    BY <1>8, SettleStep
  <2>3. PICK why \in Unread : Settles(p, why)
    BY <1>8, SettleStep
  <2>4. WhyUnread(p) = "left" => isBadConn(err[p])
    BY <2>1, <2>2, WhyStep DEF Ends, Backends, Unspoilt
  <2>5. pc'[p] # "settle" /\ cn'[p] = NoConn
    BY <2>2, <2>3 DEF Ends, Goes, Settles, TypeOK
  <2>6. \A d \in Conn \ {cn[p]} : unread'[d] = unread[d]
    BY <2>3 DEF Settles, TypeOK
  <2>7. unread'[cn[p]] = "left" => cn[p] \in idle' /\ stuck' # "nil"
    BY <2>1, <2>3, <2>4 DEF Settles, TypeOK
  <2>8. /\ idle' \subseteq idle \cup {cn[p]} /\ idle \subseteq idle'
        /\ \A q \in Proc \ {p} : cn'[q] = cn[q] /\ pc'[q] = pc[q] /\ err'[q] = err[q]
    BY <2>2, <2>3 DEF Ends, Goes, Settles, TypeOK
  <2>9. \A c \in idle' : unread'[c] = "left" => stuck' # "nil"
    BY <2>1, <2>3, <2>6, <2>7, <2>8 DEF Settles, TypeOK, Holding, OneConn, Unspoilt
  <2>. QED
    BY <2>1, <2>5, <2>6, <2>7, <2>8, <2>9 DEF TypeOK, Holding, OneConn, Unspoilt
<1>9. ASSUME NEW p \in Proc, Sleep(p) PROVE Unspoilt'
  BY <1>9 DEF Sleep, Set, TypeOK, Holding, OneConn, Backends, Unspoilt
<1>10. ASSUME NEW p \in Proc, Return(p) PROVE Unspoilt'
  BY <1>10 DEF Return, Set, TypeOK, Holding, OneConn, Backends, Unspoilt
<1>11. ASSUME NEW p \in Proc, CtxEnds(p) PROVE Unspoilt'
  BY <1>11 DEF CtxEnds, TypeOK, Holding, OneConn, Backends, Unspoilt
<1>12. ASSUME NEW p \in Proc, WatchCancels(p) PROVE Unspoilt'
  BY <1>12 DEF WatchCancels, TypeOK, Holding, OneConn, Backends, Unspoilt
<1>13. ASSUME NEW p \in Proc, WatchSignals(p) PROVE Unspoilt'
  BY <1>13 DEF WatchSignals, cancelRequest, TypeOK, Holding, OneConn, Backends,
    Unspoilt
<1>14. ASSUME NEW c \in Conn, Serve(c) PROVE Unspoilt'
  BY <1>14 DEF Serve, TypeOK, Holding, OneConn, Backends, Unspoilt
<1>15. ASSUME NEW c \in Conn, Interrupt(c) PROVE Unspoilt'
  BY <1>15 DEF Interrupt, TypeOK, Holding, OneConn, Backends, Unspoilt
<1>16. CASE UNCHANGED vars
  BY <1>16 DEF vars, TypeOK, Holding, OneConn, Backends, Unspoilt
<1>. QED
  BY <1>1, <1>2, <1>3, <1>4, <1>5, <1>6, <1>7, <1>8, <1>9, <1>10, <1>11, <1>12,
    <1>13, <1>14, <1>15, <1>16 DEF Next, Runs

LEMMA NextNoWatchLeft ==
  TypeOK /\ Holding /\ OneConn /\ NoWatchLeft /\ [Next]_vars => NoWatchLeft'
<1> SUFFICES ASSUME TypeOK, Holding, OneConn, NoWatchLeft, [Next]_vars
             PROVE  NoWatchLeft'
  OBVIOUS
<1>1. ASSUME NEW p \in Proc, NEW o \in {"exec", "copy"}, Call(p, o)
      PROVE  NoWatchLeft'
  BY <1>1 DEF Call, TypeOK, Holding, OneConn, NoWatchLeft
<1>2. ASSUME NEW p \in Proc, beforeQuery(p) PROVE NoWatchLeft'
  BY <1>2 DEF beforeQuery, Panics, Set, ByOp, TypeOK, Holding, OneConn,
    NoWatchLeft
<1>3. ASSUME NEW p \in Proc, getConn(p) \/ stickyReceive(p) PROVE NoWatchLeft'
  <2>1. ASSUME NEW c \in Conn, GetsConn(p, c) PROVE NoWatchLeft'
    BY <2>1 DEF GetsConn, TypeOK, Holding, OneConn, NoWatchLeft
  <2>2. ASSUME NEW e \in Err \ {"nil", "panic"},
               NEW place \in {"sleep", "after", "return"}, GetsError(p, e, place)
        PROVE  NoWatchLeft'
    BY <2>2 DEF GetsError, Goes, TypeOK, Holding, OneConn, NoWatchLeft
  <2>3. ASSUME Waits(p) PROVE NoWatchLeft'
    BY <2>3 DEF Waits, TypeOK, Holding, OneConn, NoWatchLeft
  <2>. QED
    BY <1>3, <2>1, <2>2, <2>3, GetStep
<1>4. ASSUME NEW p \in Proc, Write(p) PROVE NoWatchLeft'
  BY <1>4 DEF Write, FnEnds, Panics, Set, ByOp, TypeOK, Holding, OneConn,
    NoWatchLeft
<1>5. ASSUME NEW p \in Proc, Read(p) PROVE NoWatchLeft'
  <2>1. cn[p] \in Conn
    BY <1>5, ReadStep
  <2>2. PICK e \in Err \ {"net"}, own \in BOOLEAN, why \in Unread :
          Reads(p, e, own, why)
    BY <1>5, ReadStep
  <2>. QED
    BY <2>1, <2>2 DEF Reads, TypeOK, Holding, OneConn, NoWatchLeft
<1>6. ASSUME NEW p \in Proc, ReadFails(p) PROVE NoWatchLeft'
  BY <1>6 DEF ReadFails, FnEnds, Panics, Set, ByOp, TypeOK, Holding, OneConn,
    NoWatchLeft
<1>7. ASSUME NEW p \in Proc, afterQuery(p) PROVE NoWatchLeft'
  BY <1>7 DEF afterQuery, Panics, Set, ByOp, TypeOK, Holding, OneConn,
    NoWatchLeft
<1>8. ASSUME NEW p \in Proc, FnDone(p) \/ CancelDone(p) PROVE NoWatchLeft'
  <2>1. /\ cn[p] \in Conn /\ stuck' \in Err \ {"panic"}
        /\ sig' \in [Conn -> {"none", "own", "old"}]
    BY <1>8, SettleStep
  <2>2. PICK place \in {"sleep", "after", "return"} : Ends(p, place)
    BY <1>8, SettleStep
  <2>3. PICK why \in Unread : Settles(p, why)
    BY <1>8, SettleStep
  <2>. QED
    BY <2>1, <2>2, <2>3 DEF Ends, Goes, Settles, TypeOK, Holding, OneConn,
      NoWatchLeft
<1>9. ASSUME NEW p \in Proc, Sleep(p) PROVE NoWatchLeft'
  BY <1>9 DEF Sleep, Set, TypeOK, Holding, OneConn, NoWatchLeft
<1>10. ASSUME NEW p \in Proc, Return(p) PROVE NoWatchLeft'
  BY <1>10 DEF Return, Set, TypeOK, Holding, OneConn, NoWatchLeft
<1>11. ASSUME NEW p \in Proc, CtxEnds(p) PROVE NoWatchLeft'
  BY <1>11 DEF CtxEnds, TypeOK, Holding, OneConn, NoWatchLeft
<1>12. ASSUME NEW p \in Proc, WatchCancels(p) PROVE NoWatchLeft'
  BY <1>12 DEF WatchCancels, TypeOK, Holding, OneConn, NoWatchLeft
<1>13. ASSUME NEW p \in Proc, WatchSignals(p) PROVE NoWatchLeft'
  BY <1>13 DEF WatchSignals, cancelRequest, TypeOK, Holding, OneConn,
    NoWatchLeft
<1>14. ASSUME NEW c \in Conn, Serve(c) PROVE NoWatchLeft'
  BY <1>14 DEF Serve, TypeOK, Holding, OneConn, NoWatchLeft
<1>15. ASSUME NEW c \in Conn, Interrupt(c) PROVE NoWatchLeft'
  BY <1>15 DEF Interrupt, TypeOK, Holding, OneConn, NoWatchLeft
<1>16. CASE UNCHANGED vars
  BY <1>16 DEF vars, TypeOK, Holding, OneConn, NoWatchLeft
<1>. QED
  BY <1>1, <1>2, <1>3, <1>4, <1>5, <1>6, <1>7, <1>8, <1>9, <1>10, <1>11, <1>12,
    <1>13, <1>14, <1>15, <1>16 DEF Next, Runs

LEMMA NextRequests ==
  TypeOK /\ Holding /\ OneConn /\ NoWatchLeft /\ Requests /\ [Next]_vars
  => Requests'
<1> SUFFICES ASSUME TypeOK, Holding, OneConn, NoWatchLeft, Requests, [Next]_vars
             PROVE  Requests'
  OBVIOUS
<1>1. ASSUME NEW p \in Proc, NEW o \in {"exec", "copy"}, Call(p, o)
      PROVE  Requests'
  BY <1>1 DEF Call, TypeOK, Holding, OneConn, NoWatchLeft, Requests
<1>2. ASSUME NEW p \in Proc, beforeQuery(p) PROVE Requests'
  BY <1>2 DEF beforeQuery, Panics, Set, ByOp, TypeOK, Holding, OneConn,
    NoWatchLeft, Requests
<1>3. ASSUME NEW p \in Proc, getConn(p) \/ stickyReceive(p) PROVE Requests'
  <2>1. ASSUME NEW c \in Conn, GetsConn(p, c) PROVE Requests'
    BY <2>1 DEF GetsConn, TypeOK, Holding, OneConn, NoWatchLeft, Requests
  <2>2. ASSUME NEW e \in Err \ {"nil", "panic"},
               NEW place \in {"sleep", "after", "return"}, GetsError(p, e, place)
        PROVE  Requests'
    BY <2>2 DEF GetsError, Goes, TypeOK, Holding, OneConn, NoWatchLeft, Requests
  <2>3. ASSUME Waits(p) PROVE Requests'
    BY <2>3 DEF Waits, TypeOK, Holding, OneConn, NoWatchLeft, Requests
  <2>. QED
    BY <1>3, <2>1, <2>2, <2>3, GetStep
<1>4. ASSUME NEW p \in Proc, Write(p) PROVE Requests'
  BY <1>4 DEF Write, FnEnds, Panics, Set, ByOp, TypeOK, Holding, OneConn,
    NoWatchLeft, Requests
<1>5. ASSUME NEW p \in Proc, Read(p) PROVE Requests'
  <2>1. cn[p] \in Conn
    BY <1>5, ReadStep
  <2>2. PICK e \in Err \ {"net"}, own \in BOOLEAN, why \in Unread :
          Reads(p, e, own, why)
    BY <1>5, ReadStep
  <2>. QED
    BY <2>1, <2>2 DEF Reads, TypeOK, Holding, OneConn, NoWatchLeft, Requests
<1>6. ASSUME NEW p \in Proc, ReadFails(p) PROVE Requests'
  BY <1>6 DEF ReadFails, FnEnds, Panics, Set, ByOp, TypeOK, Holding, OneConn,
    NoWatchLeft, Requests
<1>7. ASSUME NEW p \in Proc, afterQuery(p) PROVE Requests'
  BY <1>7 DEF afterQuery, Panics, Set, ByOp, TypeOK, Holding, OneConn,
    NoWatchLeft, Requests
<1>8. ASSUME NEW p \in Proc, FnDone(p) \/ CancelDone(p) PROVE Requests'
  <2>1. /\ cn[p] \in Conn /\ stuck' \in Err \ {"panic"}
        /\ sig' \in [Conn -> {"none", "own", "old"}]
    BY <1>8, SettleStep
  <2>2. PICK place \in {"sleep", "after", "return"} : Ends(p, place)
    BY <1>8, SettleStep
  <2>3. PICK why \in Unread : Settles(p, why)
    BY <1>8, SettleStep
  <2>. QED
    BY <2>1, <2>2, <2>3 DEF Ends, Goes, Settles, TypeOK, Holding, OneConn,
      NoWatchLeft, Requests
<1>9. ASSUME NEW p \in Proc, Sleep(p) PROVE Requests'
  BY <1>9 DEF Sleep, Set, TypeOK, Holding, OneConn, NoWatchLeft, Requests
<1>10. ASSUME NEW p \in Proc, Return(p) PROVE Requests'
  BY <1>10 DEF Return, Set, TypeOK, Holding, OneConn, NoWatchLeft, Requests
<1>11. ASSUME NEW p \in Proc, CtxEnds(p) PROVE Requests'
  BY <1>11 DEF CtxEnds, TypeOK, Holding, OneConn, NoWatchLeft, Requests
<1>12. ASSUME NEW p \in Proc, WatchCancels(p) PROVE Requests'
  BY <1>12 DEF WatchCancels, TypeOK, Holding, OneConn, NoWatchLeft, Requests
<1>13. ASSUME NEW p \in Proc, WatchSignals(p) PROVE Requests'
  BY <1>13 DEF WatchSignals, cancelRequest, TypeOK, Holding, OneConn,
    NoWatchLeft, Requests
<1>14. ASSUME NEW c \in Conn, Serve(c) PROVE Requests'
  BY <1>14 DEF Serve, TypeOK, Holding, OneConn, NoWatchLeft, Requests
<1>15. ASSUME NEW c \in Conn, Interrupt(c) PROVE Requests'
  BY <1>15 DEF Interrupt, TypeOK, Holding, OneConn, NoWatchLeft, Requests
<1>16. CASE UNCHANGED vars
  BY <1>16 DEF vars, TypeOK, Holding, OneConn, NoWatchLeft, Requests
<1>. QED
  BY <1>1, <1>2, <1>3, <1>4, <1>5, <1>6, <1>7, <1>8, <1>9, <1>10, <1>11, <1>12,
    <1>13, <1>14, <1>15, <1>16 DEF Next, Runs

LEMMA NextHooked ==
  TypeOK /\ Holding /\ OneConn /\ Hooked /\ [Next]_vars => Hooked'
<1> SUFFICES ASSUME TypeOK, Holding, OneConn, Hooked, [Next]_vars PROVE Hooked'
  OBVIOUS
<1>1. ASSUME NEW p \in Proc, NEW o \in {"exec", "copy"}, Call(p, o)
      PROVE  Hooked'
  BY <1>1 DEF Call, TypeOK, Holding, OneConn, Hooked
<1>2. ASSUME NEW p \in Proc, beforeQuery(p) PROVE Hooked'
  BY <1>2 DEF beforeQuery, Panics, Set, ByOp, TypeOK, Holding, OneConn, Hooked
<1>3. ASSUME NEW p \in Proc, getConn(p) \/ stickyReceive(p) PROVE Hooked'
  <2>1. ASSUME NEW c \in Conn, GetsConn(p, c) PROVE Hooked'
    BY <2>1 DEF GetsConn, TypeOK, Holding, OneConn, Hooked
  <2>2. ASSUME NEW e \in Err \ {"nil", "panic"},
               NEW place \in {"sleep", "after", "return"}, GetsError(p, e, place)
        PROVE  Hooked'
    BY <2>2 DEF GetsError, Goes, TypeOK, Holding, OneConn, Hooked
  <2>3. ASSUME Waits(p) PROVE Hooked'
    BY <2>3 DEF Waits, TypeOK, Holding, OneConn, Hooked
  <2>. QED
    BY <1>3, <2>1, <2>2, <2>3, GetStep
<1>4. ASSUME NEW p \in Proc, Write(p) PROVE Hooked'
  BY <1>4 DEF Write, FnEnds, Panics, Set, ByOp, TypeOK, Holding, OneConn, Hooked
<1>5. ASSUME NEW p \in Proc, Read(p) PROVE Hooked'
  <2>1. cn[p] \in Conn
    BY <1>5, ReadStep
  <2>2. PICK e \in Err \ {"net"}, own \in BOOLEAN, why \in Unread :
          Reads(p, e, own, why)
    BY <1>5, ReadStep
  <2>. QED
    BY <2>1, <2>2 DEF Reads, TypeOK, Holding, OneConn, Hooked
<1>6. ASSUME NEW p \in Proc, ReadFails(p) PROVE Hooked'
  BY <1>6 DEF ReadFails, FnEnds, Panics, Set, ByOp, TypeOK, Holding, OneConn,
    Hooked
<1>7. ASSUME NEW p \in Proc, afterQuery(p) PROVE Hooked'
  BY <1>7 DEF afterQuery, Panics, Set, ByOp, TypeOK, Holding, OneConn, Hooked
<1>8. ASSUME NEW p \in Proc, FnDone(p) \/ CancelDone(p) PROVE Hooked'
  <2>1. /\ cn[p] \in Conn /\ stuck' \in Err \ {"panic"}
        /\ sig' \in [Conn -> {"none", "own", "old"}]
    BY <1>8, SettleStep
  <2>2. PICK place \in {"sleep", "after", "return"} : Ends(p, place)
    BY <1>8, SettleStep
  <2>3. PICK why \in Unread : Settles(p, why)
    BY <1>8, SettleStep
  <2>. QED
    BY <2>1, <2>2, <2>3 DEF Ends, Goes, Settles, TypeOK, Holding, OneConn,
      Hooked
<1>9. ASSUME NEW p \in Proc, Sleep(p) PROVE Hooked'
  BY <1>9 DEF Sleep, Set, TypeOK, Holding, OneConn, Hooked
<1>10. ASSUME NEW p \in Proc, Return(p) PROVE Hooked'
  BY <1>10 DEF Return, Set, TypeOK, Holding, OneConn, Hooked
<1>11. ASSUME NEW p \in Proc, CtxEnds(p) PROVE Hooked'
  BY <1>11 DEF CtxEnds, TypeOK, Holding, OneConn, Hooked
<1>12. ASSUME NEW p \in Proc, WatchCancels(p) PROVE Hooked'
  BY <1>12 DEF WatchCancels, TypeOK, Holding, OneConn, Hooked
<1>13. ASSUME NEW p \in Proc, WatchSignals(p) PROVE Hooked'
  BY <1>13 DEF WatchSignals, cancelRequest, TypeOK, Holding, OneConn, Hooked
<1>14. ASSUME NEW c \in Conn, Serve(c) PROVE Hooked'
  BY <1>14 DEF Serve, TypeOK, Holding, OneConn, Hooked
<1>15. ASSUME NEW c \in Conn, Interrupt(c) PROVE Hooked'
  BY <1>15 DEF Interrupt, TypeOK, Holding, OneConn, Hooked
<1>16. CASE UNCHANGED vars
  BY <1>16 DEF vars, TypeOK, Holding, OneConn, Hooked
<1>. QED
  BY <1>1, <1>2, <1>3, <1>4, <1>5, <1>6, <1>7, <1>8, <1>9, <1>10, <1>11, <1>12,
    <1>13, <1>14, <1>15, <1>16 DEF Next, Runs

LEMMA NextHooksPaired ==
  TypeOK /\ Holding /\ OneConn /\ Hooked /\ HooksPaired /\ [Next]_vars
  => HooksPaired'
<1> SUFFICES ASSUME TypeOK, Holding, OneConn, Hooked, HooksPaired, [Next]_vars
             PROVE  HooksPaired'
  OBVIOUS
<1>1. ASSUME NEW p \in Proc, NEW o \in {"exec", "copy"}, Call(p, o)
      PROVE  HooksPaired'
  BY <1>1 DEF Call, TypeOK, Holding, OneConn, Hooked, HooksPaired
<1>2. ASSUME NEW p \in Proc, beforeQuery(p) PROVE HooksPaired'
  BY <1>2 DEF beforeQuery, Panics, Set, ByOp, TypeOK, Holding, OneConn, Hooked,
    HooksPaired
<1>3. ASSUME NEW p \in Proc, getConn(p) \/ stickyReceive(p) PROVE HooksPaired'
  <2>1. ASSUME NEW c \in Conn, GetsConn(p, c) PROVE HooksPaired'
    BY <2>1 DEF GetsConn, TypeOK, Holding, OneConn, Hooked, HooksPaired
  <2>2. ASSUME NEW e \in Err \ {"nil", "panic"},
               NEW place \in {"sleep", "after", "return"}, GetsError(p, e, place)
        PROVE  HooksPaired'
    BY <2>2 DEF GetsError, Goes, TypeOK, Holding, OneConn, Hooked, HooksPaired
  <2>3. ASSUME Waits(p) PROVE HooksPaired'
    BY <2>3 DEF Waits, TypeOK, Holding, OneConn, Hooked, HooksPaired
  <2>. QED
    BY <1>3, <2>1, <2>2, <2>3, GetStep
<1>4. ASSUME NEW p \in Proc, Write(p) PROVE HooksPaired'
  BY <1>4 DEF Write, FnEnds, Panics, Set, ByOp, TypeOK, Holding, OneConn,
    Hooked, HooksPaired
<1>5. ASSUME NEW p \in Proc, Read(p) PROVE HooksPaired'
  <2>1. cn[p] \in Conn
    BY <1>5, ReadStep
  <2>2. PICK e \in Err \ {"net"}, own \in BOOLEAN, why \in Unread :
          Reads(p, e, own, why)
    BY <1>5, ReadStep
  <2>. QED
    BY <2>1, <2>2 DEF Reads, TypeOK, Holding, OneConn, Hooked, HooksPaired
<1>6. ASSUME NEW p \in Proc, ReadFails(p) PROVE HooksPaired'
  BY <1>6 DEF ReadFails, FnEnds, Panics, Set, ByOp, TypeOK, Holding, OneConn,
    Hooked, HooksPaired
<1>7. ASSUME NEW p \in Proc, afterQuery(p) PROVE HooksPaired'
  BY <1>7 DEF afterQuery, Panics, Set, ByOp, TypeOK, Holding, OneConn, Hooked,
    HooksPaired
<1>8. ASSUME NEW p \in Proc, FnDone(p) \/ CancelDone(p) PROVE HooksPaired'
  <2>1. /\ cn[p] \in Conn /\ stuck' \in Err \ {"panic"}
        /\ sig' \in [Conn -> {"none", "own", "old"}]
    BY <1>8, SettleStep
  <2>2. PICK place \in {"sleep", "after", "return"} : Ends(p, place)
    BY <1>8, SettleStep
  <2>3. PICK why \in Unread : Settles(p, why)
    BY <1>8, SettleStep
  <2>. QED
    BY <2>1, <2>2, <2>3 DEF Ends, Goes, Settles, TypeOK, Holding, OneConn,
      Hooked, HooksPaired
<1>9. ASSUME NEW p \in Proc, Sleep(p) PROVE HooksPaired'
  BY <1>9 DEF Sleep, Set, TypeOK, Holding, OneConn, Hooked, HooksPaired
<1>10. ASSUME NEW p \in Proc, Return(p) PROVE HooksPaired'
  BY <1>10 DEF Return, Set, TypeOK, Holding, OneConn, Hooked, HooksPaired
<1>11. ASSUME NEW p \in Proc, CtxEnds(p) PROVE HooksPaired'
  BY <1>11 DEF CtxEnds, TypeOK, Holding, OneConn, Hooked, HooksPaired
<1>12. ASSUME NEW p \in Proc, WatchCancels(p) PROVE HooksPaired'
  BY <1>12 DEF WatchCancels, TypeOK, Holding, OneConn, Hooked, HooksPaired
<1>13. ASSUME NEW p \in Proc, WatchSignals(p) PROVE HooksPaired'
  BY <1>13 DEF WatchSignals, cancelRequest, TypeOK, Holding, OneConn, Hooked,
    HooksPaired
<1>14. ASSUME NEW c \in Conn, Serve(c) PROVE HooksPaired'
  BY <1>14 DEF Serve, TypeOK, Holding, OneConn, Hooked, HooksPaired
<1>15. ASSUME NEW c \in Conn, Interrupt(c) PROVE HooksPaired'
  BY <1>15 DEF Interrupt, TypeOK, Holding, OneConn, Hooked, HooksPaired
<1>16. CASE UNCHANGED vars
  BY <1>16 DEF vars, TypeOK, Holding, OneConn, Hooked, HooksPaired
<1>. QED
  BY <1>1, <1>2, <1>3, <1>4, <1>5, <1>6, <1>7, <1>8, <1>9, <1>10, <1>11, <1>12,
    <1>13, <1>14, <1>15, <1>16 DEF Next, Runs

LEMMA NextBudget ==
  TypeOK /\ Holding /\ OneConn /\ Backends /\ Budget /\ [Next]_vars => Budget'
<1> SUFFICES ASSUME TypeOK, Holding, OneConn, Backends, Budget, [Next]_vars
             PROVE  Budget'
  OBVIOUS
<1>1. ASSUME NEW p \in Proc, NEW o \in {"exec", "copy"}, Call(p, o)
      PROVE  Budget'
  BY <1>1 DEF Call, TypeOK, Holding, OneConn, Backends, Budget
<1>2. ASSUME NEW p \in Proc, beforeQuery(p) PROVE Budget'
  BY <1>2 DEF beforeQuery, Panics, Set, ByOp, TypeOK, Holding, OneConn,
    Backends, Budget
<1>3. ASSUME NEW p \in Proc, getConn(p) \/ stickyReceive(p) PROVE Budget'
  <2>1. ASSUME NEW c \in Conn, GetsConn(p, c) PROVE Budget'
    BY <2>1 DEF GetsConn, TypeOK, Holding, OneConn, Backends, Budget
  <2>2. ASSUME NEW e \in Err \ {"nil", "panic"},
               NEW place \in {"sleep", "after", "return"}, GetsError(p, e, place)
        PROVE  Budget'
    BY <2>2 DEF GetsError, Goes, TypeOK, Holding, OneConn, Backends, Budget
  <2>3. ASSUME Waits(p) PROVE Budget'
    BY <2>3 DEF Waits, TypeOK, Holding, OneConn, Backends, Budget
  <2>. QED
    BY <1>3, <2>1, <2>2, <2>3, GetStep
<1>4. ASSUME NEW p \in Proc, Write(p) PROVE Budget'
  BY <1>4 DEF Write, FnEnds, Panics, Set, ByOp, TypeOK, Holding, OneConn,
    Backends, Budget
<1>5. ASSUME NEW p \in Proc, Read(p) PROVE Budget'
  <2>1. cn[p] \in Conn
    BY <1>5, ReadStep
  <2>2. PICK e \in Err \ {"net"}, own \in BOOLEAN, why \in Unread :
          Reads(p, e, own, why)
    BY <1>5, ReadStep
  <2>3. CASE own = TRUE
    BY <2>1, <2>2, <2>3 DEF Reads, TypeOK, Holding, OneConn, Backends, Budget
  <2>4. CASE own = FALSE
    <3>1. /\ misled'[p] = TRUE
          /\ pc' = [pc EXCEPT ![p] = IF op[p] = "exec" THEN "settle" ELSE "after"]
          /\ run' = [run EXCEPT ![cn[p]] = Nobody]
          /\ reply' = [reply EXCEPT ![cn[p]] = "none"]
          /\ \A q \in Proc \ {p} : misled'[q] = misled[q] /\ err'[q] = err[q]
          /\ UNCHANGED <<poolVars, op, done, may>>
      BY <2>1, <2>2, <2>4 DEF Reads, TypeOK
    <3>. QED
      BY <2>1, <2>2, <3>1 DEF Reads, TypeOK, Holding, OneConn, Backends, Budget
  <2>. QED
    BY <2>3, <2>4
<1>6. ASSUME NEW p \in Proc, ReadFails(p) PROVE Budget'
  BY <1>6 DEF ReadFails, FnEnds, Panics, Set, ByOp, TypeOK, Holding, OneConn,
    Backends, Budget
<1>7. ASSUME NEW p \in Proc, afterQuery(p) PROVE Budget'
  BY <1>7 DEF afterQuery, Panics, Set, ByOp, TypeOK, Holding, OneConn, Backends,
    Budget
<1>8. ASSUME NEW p \in Proc, FnDone(p) \/ CancelDone(p) PROVE Budget'
  <2>1. /\ cn[p] \in Conn /\ stuck' \in Err \ {"panic"}
        /\ sig' \in [Conn -> {"none", "own", "old"}]
    BY <1>8, SettleStep
  <2>2. PICK place \in {"sleep", "after", "return"} : Ends(p, place)
    BY <1>8, SettleStep
  <2>3. PICK why \in Unread : Settles(p, why)
    BY <1>8, SettleStep
  <2>. QED
    BY <2>1, <2>2, <2>3 DEF Ends, Goes, Settles, TypeOK, Holding, OneConn,
      Backends, Budget
<1>9. ASSUME NEW p \in Proc, Sleep(p) PROVE Budget'
  BY <1>9 DEF Sleep, Set, TypeOK, Holding, OneConn, Backends, Budget
<1>10. ASSUME NEW p \in Proc, Return(p) PROVE Budget'
  BY <1>10 DEF Return, Set, TypeOK, Holding, OneConn, Backends, Budget
<1>11. ASSUME NEW p \in Proc, CtxEnds(p) PROVE Budget'
  BY <1>11 DEF CtxEnds, TypeOK, Holding, OneConn, Backends, Budget
<1>12. ASSUME NEW p \in Proc, WatchCancels(p) PROVE Budget'
  BY <1>12 DEF WatchCancels, TypeOK, Holding, OneConn, Backends, Budget
<1>13. ASSUME NEW p \in Proc, WatchSignals(p) PROVE Budget'
  BY <1>13 DEF WatchSignals, cancelRequest, TypeOK, Holding, OneConn, Backends,
    Budget
<1>14. ASSUME NEW c \in Conn, Serve(c) PROVE Budget'
  BY <1>14 DEF Serve, TypeOK, Holding, OneConn, Backends, Budget
<1>15. ASSUME NEW c \in Conn, Interrupt(c) PROVE Budget'
  BY <1>15 DEF Interrupt, TypeOK, Holding, OneConn, Backends, Budget
<1>16. CASE UNCHANGED vars
  BY <1>16 DEF vars, TypeOK, Holding, OneConn, Backends, Budget
<1>. QED
  BY <1>1, <1>2, <1>3, <1>4, <1>5, <1>6, <1>7, <1>8, <1>9, <1>10, <1>11, <1>12,
    <1>13, <1>14, <1>15, <1>16 DEF Next, Runs

LEMMA NextDone ==
  TypeOK /\ Holding /\ OneConn /\ Backends /\ Done /\ [Next]_vars => Done'
<1> SUFFICES ASSUME TypeOK, Holding, OneConn, Backends, Done, [Next]_vars
             PROVE  Done'
  OBVIOUS
<1>1. ASSUME NEW p \in Proc, NEW o \in {"exec", "copy"}, Call(p, o)
      PROVE  Done'
  BY <1>1 DEF Call, TypeOK, Holding, OneConn, Backends, Done
<1>2. ASSUME NEW p \in Proc, beforeQuery(p) PROVE Done'
  BY <1>2 DEF beforeQuery, Panics, Set, ByOp, TypeOK, Holding, OneConn,
    Backends, Done
<1>3. ASSUME NEW p \in Proc, getConn(p) \/ stickyReceive(p) PROVE Done'
  <2>1. ASSUME NEW c \in Conn, GetsConn(p, c) PROVE Done'
    BY <2>1 DEF GetsConn, TypeOK, Holding, OneConn, Backends, Done
  <2>2. ASSUME NEW e \in Err \ {"nil", "panic"},
               NEW place \in {"sleep", "after", "return"}, GetsError(p, e, place)
        PROVE  Done'
    BY <2>2 DEF GetsError, Goes, TypeOK, Holding, OneConn, Backends, Done
  <2>3. ASSUME Waits(p) PROVE Done'
    BY <2>3 DEF Waits, TypeOK, Holding, OneConn, Backends, Done
  <2>. QED
    BY <1>3, <2>1, <2>2, <2>3, GetStep
<1>4. ASSUME NEW p \in Proc, Write(p) PROVE Done'
  BY <1>4 DEF Write, FnEnds, Panics, Set, ByOp, TypeOK, Holding, OneConn,
    Backends, Done
<1>5. ASSUME NEW p \in Proc, Read(p) PROVE Done'
  <2>1. cn[p] \in Conn
    BY <1>5, ReadStep
  <2>2. PICK e \in Err \ {"net"}, own \in BOOLEAN, why \in Unread :
          Reads(p, e, own, why)
    BY <1>5, ReadStep
  <2>3. CASE own = TRUE
    BY <2>1, <2>2, <2>3 DEF Reads, TypeOK, Holding, OneConn, Backends, Done
  <2>4. CASE own = FALSE
    <3>1. /\ misled'[p] = TRUE
          /\ pc' = [pc EXCEPT ![p] = IF op[p] = "exec" THEN "settle" ELSE "after"]
          /\ run' = [run EXCEPT ![cn[p]] = Nobody]
          /\ reply' = [reply EXCEPT ![cn[p]] = "none"]
          /\ \A q \in Proc \ {p} : misled'[q] = misled[q] /\ err'[q] = err[q]
          /\ UNCHANGED <<poolVars, op, done, may>>
      BY <2>1, <2>2, <2>4 DEF Reads, TypeOK
    <3>. QED
      BY <2>1, <2>2, <3>1 DEF Reads, TypeOK, Holding, OneConn, Backends, Done
  <2>. QED
    BY <2>3, <2>4
<1>6. ASSUME NEW p \in Proc, ReadFails(p) PROVE Done'
  BY <1>6 DEF ReadFails, FnEnds, Panics, Set, ByOp, TypeOK, Holding, OneConn,
    Backends, Done
<1>7. ASSUME NEW p \in Proc, afterQuery(p) PROVE Done'
  BY <1>7 DEF afterQuery, Panics, Set, ByOp, TypeOK, Holding, OneConn, Backends,
    Done
<1>8. ASSUME NEW p \in Proc, FnDone(p) \/ CancelDone(p) PROVE Done'
  <2>1. /\ cn[p] \in Conn /\ stuck' \in Err \ {"panic"}
        /\ sig' \in [Conn -> {"none", "own", "old"}]
    BY <1>8, SettleStep
  <2>2. PICK place \in {"sleep", "after", "return"} : Ends(p, place)
    BY <1>8, SettleStep
  <2>3. PICK why \in Unread : Settles(p, why)
    BY <1>8, SettleStep
  <2>. QED
    BY <2>1, <2>2, <2>3 DEF Ends, Goes, Settles, TypeOK, Holding, OneConn,
      Backends, Done
<1>9. ASSUME NEW p \in Proc, Sleep(p) PROVE Done'
  BY <1>9 DEF Sleep, Set, TypeOK, Holding, OneConn, Backends, Done
<1>10. ASSUME NEW p \in Proc, Return(p) PROVE Done'
  BY <1>10 DEF Return, Set, TypeOK, Holding, OneConn, Backends, Done
<1>11. ASSUME NEW p \in Proc, CtxEnds(p) PROVE Done'
  BY <1>11 DEF CtxEnds, TypeOK, Holding, OneConn, Backends, Done
<1>12. ASSUME NEW p \in Proc, WatchCancels(p) PROVE Done'
  BY <1>12 DEF WatchCancels, TypeOK, Holding, OneConn, Backends, Done
<1>13. ASSUME NEW p \in Proc, WatchSignals(p) PROVE Done'
  BY <1>13 DEF WatchSignals, cancelRequest, TypeOK, Holding, OneConn, Backends,
    Done
<1>14. ASSUME NEW c \in Conn, Serve(c) PROVE Done'
  BY <1>14 DEF Serve, TypeOK, Holding, OneConn, Backends, Done
<1>15. ASSUME NEW c \in Conn, Interrupt(c) PROVE Done'
  BY <1>15 DEF Interrupt, TypeOK, Holding, OneConn, Backends, Done
<1>16. CASE UNCHANGED vars
  BY <1>16 DEF vars, TypeOK, Holding, OneConn, Backends, Done
<1>. QED
  BY <1>1, <1>2, <1>3, <1>4, <1>5, <1>6, <1>7, <1>8, <1>9, <1>10, <1>11, <1>12,
    <1>13, <1>14, <1>15, <1>16 DEF Next, Runs

LEMMA Inductive == Spec => []IInv
<1>1. IInv /\ [Next]_vars => IInv'
  BY NextTypeOK, NextHolding, NextOneConn, NextBackends, NextUnspoilt,
     NextNoWatchLeft, NextRequests, NextHooked, NextHooksPaired, NextBudget,
     NextDone DEF IInv
<1>. QED
  BY InitIInv, <1>1, PTL DEF Spec

-----------------------------------------------------------------------------
(* What it gives.                                                           *)

\* Whatever the server, the hooks and the context do, a call leaves an answer
\* unread on a connection that the pooler can lend only when CopyTo stops at an
\* error, fn panics or a Get of the sticky pool has overtaken a Remove; it leaves
\* no goroutine of withConn behind, and a hook without its AfterQuery only after
\* another hook's error, a panic, or in the pause before a retry.
THEOREM CallsLeaveNothing == Spec => []LeavesNothing
<1>1. IInv => AtRest
  BY DEF IInv, TypeOK, Holding, Backends, Unspoilt, AtRest
<1>2. IInv => LeavesNothing
  BY <1>1 DEF IInv, LeavesNothing
<1>. QED
  BY Inductive, <1>2, PTL

\* A cancel request that withConn sends over a pool or a single connection ends
\* the statement of its own caller or nothing, however late it arrives.
THEOREM RequestsCancelTheirOwn == Spec => []CancelsItsOwn
<1>1. IInv => CancelsItsOwn
  BY DEF IInv, Requests, CancelsItsOwn
<1>. QED
  BY Inductive, <1>1, PTL

\* exec, query and the copies report success only of what the server has
\* executed, and from one attempt with an unknown end to the next the server
\* executes the statement at most once: a retry never repeats one that is known
\* to have had an effect.  The exception are answers of other calls, which are
\* read only from a connection that one of the three ways of CallsLeaveNothing
\* has spoilt.
THEOREM ExecutionsAreCounted == Spec => []Executions
<1>1. IInv => SentAgain
  BY DEF IInv, Budget, SentAgain
<1>2. IInv => NilMeansDone
  BY DEF IInv, Done, NilMeansDone
<1>3. IInv => MisledByFew
  BY DEF IInv, TypeOK, Holding, Unspoilt, MisledByFew
<1>. QED
  BY Inductive, <1>1, <1>2, <1>3, PTL DEF Executions

-----------------------------------------------------------------------------
(* Over the pool of a DB withConn is a borrower as ConnLending has it.      *)

Borrowers == {p \in Proc : cn[p] # NoConn}

LEMMA BorrowersFinite ==
  ASSUME NEW S \in SUBSET Proc
  PROVE  /\ IsFiniteSet(S) /\ Cardinality(S) \in Nat
         /\ \A p \in Proc \ S :
              /\ Cardinality(S \cup {p}) = Cardinality(S) + 1
              /\ Cardinality(S) < Cardinality(Proc)
         /\ \A p \in S : Cardinality(S \ {p}) = Cardinality(S) - 1
<1>1. IsFiniteSet(S) /\ Cardinality(S) \in Nat
  BY FS_Subset, FS_CardinalityType
<1>2. ASSUME NEW p \in Proc \ S
      PROVE  /\ Cardinality(S \cup {p}) = Cardinality(S) + 1
             /\ Cardinality(S) < Cardinality(Proc)
  <2>1. Cardinality(S \cup {p}) = Cardinality(S) + 1
    BY <1>1, FS_AddElement
  <2>2. Cardinality(S \cup {p}) <= Cardinality(Proc) /\ Cardinality(Proc) \in Nat
    BY FS_Subset, FS_CardinalityType
  <2>. QED
    BY <1>1, <2>1, <2>2
<1>3. ASSUME NEW p \in S PROVE Cardinality(S \ {p}) = Cardinality(S) - 1
  BY <1>1, FS_RemoveElement
<1>. QED
  BY <1>1, <1>2, <1>3

LEMMA BorrowStep ==
  ASSUME TypeOK, Holding, OneConn, kind = "pool", [Next]_vars
  PROVE  Lending!Next \/ UNCHANGED Lending!vars
<1>1. ASSUME NEW p \in Proc, getConn(p) \/ stickyReceive(p)
      PROVE  Lending!Next \/ UNCHANGED Lending!vars
  <2>1. ASSUME NEW c \in Conn, GetsConn(p, c) PROVE Lending!Next
    <3>1. p \notin Borrowers /\ Borrowers' = Borrowers \cup {p}
      BY <2>1 DEF GetsConn, Borrowers, TypeOK, Holding
    <3>2. /\ Cardinality(Borrowers') = Cardinality(Borrowers) + 1
          /\ Cardinality(Borrowers) < Cardinality(Proc)
      BY <3>1, BorrowersFinite DEF Borrowers
    <3>3. Lending!Lend(p, c)
      BY <2>1, <3>1, <3>2 DEF Lending!Lend, Lending!Lent, GetsConn, Borrowers
    <3>. QED
      BY <3>3 DEF Lending!Next
  <2>2. ASSUME NEW e, NEW place, GetsError(p, e, place)
        PROVE  UNCHANGED Lending!vars
    BY <2>2 DEF GetsError, Lending!vars
  <2>3. ASSUME Waits(p) PROVE UNCHANGED Lending!vars
    BY <2>3 DEF Waits, Lending!vars
  <2>. QED
    BY <1>1, <2>1, <2>2, <2>3, GetStep
<1>2. ASSUME NEW p \in Proc, FnDone(p) \/ CancelDone(p) PROVE Lending!Next
  <2>1. cn[p] \in Conn /\ cn' = [cn EXCEPT ![p] = NoConn]
    BY <1>2, SettleStep DEF Settles
  <2>2. p \in Borrowers /\ Borrowers' = Borrowers \ {p}
    BY <2>1 DEF Borrowers, TypeOK
  <2>3. Cardinality(Borrowers') = Cardinality(Borrowers) - 1
    BY <2>2, BorrowersFinite DEF Borrowers
  <2>4. idle' = idle \/ idle' = idle \cup {cn[p]}
    BY <1>2, SettleStep DEF Settles
  <2>5. Lending!Return(p) \/ Lending!Discard(p)
    BY <2>1, <2>2, <2>3, <2>4 DEF Lending!Return, Lending!Discard, Borrowers
  <2>. QED
    BY <2>5 DEF Lending!Next
<1>3. ASSUME UNCHANGED <<cn, idle>> PROVE UNCHANGED Lending!vars
  BY <1>3 DEF Lending!vars
<1>4. ASSUME NEW p \in Proc,
             \/ Call(p, "exec") \/ Call(p, "copy") \/ beforeQuery(p) \/ Write(p)
             \/ Read(p) \/ ReadFails(p) \/ afterQuery(p) \/ Sleep(p) \/ Return(p)
             \/ CtxEnds(p) \/ WatchCancels(p) \/ WatchSignals(p)
      PROVE  UNCHANGED <<cn, idle>>
  BY <1>4 DEF Call, beforeQuery, Write, Read, ReadFails, afterQuery, Sleep,
     Return, CtxEnds, WatchCancels, WatchSignals
<1>5. ASSUME NEW c \in Conn, Serve(c) \/ Interrupt(c)
      PROVE  UNCHANGED <<cn, idle>>
  BY <1>5 DEF Serve, Interrupt
<1>6. CASE UNCHANGED vars
  BY <1>3, <1>6 DEF vars
<1>. QED
  BY <1>1, <1>2, <1>3, <1>4, <1>5, <1>6 DEF Next, Runs

\* withConn takes one connection at a time from the pool of a DB and gives it
\* back, or removes it, once, whether fn ends, fails, panics or is cancelled.
THEOREM WithConnBorrows == Spec => BorrowsCorrectly
<1>1. IInv /\ [Next]_vars =>
        [kind = "pool" => Lending!Next \/ UNCHANGED Lending!vars]_vars
  BY BorrowStep DEF IInv
<1>. QED
  BY Inductive, <1>1, PTL DEF Spec, BorrowsCorrectly
-----------------------------------------------------------------------------
(* Waiting.                                                                 *)

\* Who waits, waits for somebody.  Get of a sticky pool waits only while another
\* call has the connection, that of a single pool never, and a call that reads
\* has a backend that works on its statement or something to read: none needs
\* its deadline or its context to come back.
NoneStranded == \A p \in Proc :
  /\ pc[p] = "wait" /\ idle = {} => \E q \in Proc : InFn(q)
  /\ pc[p] = "get" /\ kind = "single" /\ stuck = "nil" => idle # {}
  /\ pc[p] = "read" => \/ run[cn[p]] = p \/ reply[cn[p]] # "none"
                       \/ unread[cn[p]] # "no"

\* The pooler of a Conn has its connection, or a call has it, and so has that of
\* OnConnect until it is stuck; OnConnect makes one call at a time.
Stocked ==
  /\ \A p \in Proc : pc[p] = "wait" => kind = "sticky"
  /\ kind = "sticky" \/ (kind = "single" /\ stuck = "nil") =>
       idle # {} \/ \E q \in Proc : cn[q] # NoConn
  /\ kind = "single" =>
       \A p, q \in Proc : pc[p] # "idle" /\ pc[q] # "idle" => p = q

\* A statement that was written is executed or has been answered.
Answering == \A p \in Proc :
  pc[p] = "read" => run[cn[p]] = p \/ reply[cn[p]] # "none" \/ unread[cn[p]] # "no"

LEMMA NextStocked ==
  TypeOK /\ Holding /\ OneConn /\ Stocked /\ [Next]_vars => Stocked'
<1> SUFFICES ASSUME TypeOK, Holding, OneConn, Stocked, [Next]_vars
             PROVE  Stocked'
  OBVIOUS
<1>1. ASSUME NEW p \in Proc, NEW o \in {"exec", "copy"}, Call(p, o)
      PROVE  Stocked'
  BY <1>1 DEF Call, TypeOK, Holding, OneConn, Stocked
<1>2. ASSUME NEW p \in Proc, beforeQuery(p) PROVE Stocked'
  BY <1>2 DEF beforeQuery, Panics, Set, ByOp, TypeOK, Holding, OneConn, Stocked
<1>3. ASSUME NEW p \in Proc, getConn(p) \/ stickyReceive(p) PROVE Stocked'
  <2>1. ASSUME NEW c \in Conn, GetsConn(p, c) PROVE Stocked'
    BY <2>1 DEF GetsConn, TypeOK, Holding, OneConn, Stocked
  <2>2. ASSUME NEW e \in Err \ {"nil", "panic"},
               NEW place \in {"sleep", "after", "return"}, GetsError(p, e, place)
        PROVE  Stocked'
    BY <2>2 DEF GetsError, Goes, TypeOK, Holding, OneConn, Stocked
  <2>3. ASSUME Waits(p) PROVE Stocked'
    BY <2>3 DEF Waits, TypeOK, Holding, OneConn, Stocked
  <2>. QED
    BY <1>3, <2>1, <2>2, <2>3, GetStep
<1>4. ASSUME NEW p \in Proc, Write(p) PROVE Stocked'
  BY <1>4 DEF Write, FnEnds, Panics, Set, ByOp, TypeOK, Holding, OneConn,
    Stocked
<1>5. ASSUME NEW p \in Proc, Read(p) PROVE Stocked'
  <2>1. cn[p] \in Conn
    BY <1>5, ReadStep
  <2>2. PICK e \in Err \ {"net"}, own \in BOOLEAN, why \in Unread :
          Reads(p, e, own, why)
    BY <1>5, ReadStep
  <2>. QED
    BY <2>1, <2>2 DEF Reads, TypeOK, Holding, OneConn, Stocked
<1>6. ASSUME NEW p \in Proc, ReadFails(p) PROVE Stocked'
  BY <1>6 DEF ReadFails, FnEnds, Panics, Set, ByOp, TypeOK, Holding, OneConn,
    Stocked
<1>7. ASSUME NEW p \in Proc, afterQuery(p) PROVE Stocked'
  BY <1>7 DEF afterQuery, Panics, Set, ByOp, TypeOK, Holding, OneConn, Stocked
<1>8. ASSUME NEW p \in Proc, FnDone(p) \/ CancelDone(p) PROVE Stocked'
  <2>1. /\ cn[p] \in Conn /\ stuck' \in Err \ {"panic"}
        /\ sig' \in [Conn -> {"none", "own", "old"}]
    BY <1>8, SettleStep
  <2>2. PICK place \in {"sleep", "after", "return"} : Ends(p, place)
    BY <1>8, SettleStep
  <2>3. PICK why \in Unread : Settles(p, why)
    BY <1>8, SettleStep
  <2>. QED
    BY <2>1, <2>2, <2>3 DEF Ends, Goes, Settles, TypeOK, Holding, OneConn,
      Stocked
<1>9. ASSUME NEW p \in Proc, Sleep(p) PROVE Stocked'
  BY <1>9 DEF Sleep, Set, TypeOK, Holding, OneConn, Stocked
<1>10. ASSUME NEW p \in Proc, Return(p) PROVE Stocked'
  BY <1>10 DEF Return, Set, TypeOK, Holding, OneConn, Stocked
<1>11. ASSUME NEW p \in Proc, CtxEnds(p) PROVE Stocked'
  BY <1>11 DEF CtxEnds, TypeOK, Holding, OneConn, Stocked
<1>12. ASSUME NEW p \in Proc, WatchCancels(p) PROVE Stocked'
  BY <1>12 DEF WatchCancels, TypeOK, Holding, OneConn, Stocked
<1>13. ASSUME NEW p \in Proc, WatchSignals(p) PROVE Stocked'
  BY <1>13 DEF WatchSignals, cancelRequest, TypeOK, Holding, OneConn, Stocked
<1>14. ASSUME NEW c \in Conn, Serve(c) PROVE Stocked'
  BY <1>14 DEF Serve, TypeOK, Holding, OneConn, Stocked
<1>15. ASSUME NEW c \in Conn, Interrupt(c) PROVE Stocked'
  BY <1>15 DEF Interrupt, TypeOK, Holding, OneConn, Stocked
<1>16. CASE UNCHANGED vars
  BY <1>16 DEF vars, TypeOK, Holding, OneConn, Stocked
<1>. QED
  BY <1>1, <1>2, <1>3, <1>4, <1>5, <1>6, <1>7, <1>8, <1>9, <1>10, <1>11, <1>12,
    <1>13, <1>14, <1>15, <1>16 DEF Next, Runs

LEMMA NextAnswering ==
  TypeOK /\ Holding /\ OneConn /\ Backends /\ Answering /\ [Next]_vars
  => Answering'
<1> SUFFICES ASSUME TypeOK, Holding, OneConn, Backends, Answering, [Next]_vars
             PROVE  Answering'
  OBVIOUS
<1>1. ASSUME NEW p \in Proc, NEW o \in {"exec", "copy"}, Call(p, o)
      PROVE  Answering'
  BY <1>1 DEF Call, TypeOK, Holding, OneConn, Backends, Answering
<1>2. ASSUME NEW p \in Proc, beforeQuery(p) PROVE Answering'
  BY <1>2 DEF beforeQuery, Panics, Set, ByOp, TypeOK, Holding, OneConn,
    Backends, Answering
<1>3. ASSUME NEW p \in Proc, getConn(p) \/ stickyReceive(p) PROVE Answering'
  <2>1. ASSUME NEW c \in Conn, GetsConn(p, c) PROVE Answering'
    BY <2>1 DEF GetsConn, TypeOK, Holding, OneConn, Backends, Answering
  <2>2. ASSUME NEW e \in Err \ {"nil", "panic"},
               NEW place \in {"sleep", "after", "return"}, GetsError(p, e, place)
        PROVE  Answering'
    BY <2>2 DEF GetsError, Goes, TypeOK, Holding, OneConn, Backends, Answering
  <2>3. ASSUME Waits(p) PROVE Answering'
    BY <2>3 DEF Waits, TypeOK, Holding, OneConn, Backends, Answering
  <2>. QED
    BY <1>3, <2>1, <2>2, <2>3, GetStep
<1>4. ASSUME NEW p \in Proc, Write(p) PROVE Answering'
  BY <1>4 DEF Write, FnEnds, Panics, Set, ByOp, TypeOK, Holding, OneConn,
    Backends, Answering
<1>5. ASSUME NEW p \in Proc, Read(p) PROVE Answering'
  <2>1. cn[p] \in Conn
    BY <1>5, ReadStep
  <2>2. PICK e \in Err \ {"net"}, own \in BOOLEAN, why \in Unread :
          Reads(p, e, own, why)
    BY <1>5, ReadStep
  <2>. QED
    BY <2>1, <2>2 DEF Reads, TypeOK, Holding, OneConn, Backends, Answering
<1>6. ASSUME NEW p \in Proc, ReadFails(p) PROVE Answering'
  BY <1>6 DEF ReadFails, FnEnds, Panics, Set, ByOp, TypeOK, Holding, OneConn,
    Backends, Answering
<1>7. ASSUME NEW p \in Proc, afterQuery(p) PROVE Answering'
  BY <1>7 DEF afterQuery, Panics, Set, ByOp, TypeOK, Holding, OneConn, Backends,
    Answering
<1>8. ASSUME NEW p \in Proc, FnDone(p) \/ CancelDone(p) PROVE Answering'
  <2>1. /\ cn[p] \in Conn /\ stuck' \in Err \ {"panic"}
        /\ sig' \in [Conn -> {"none", "own", "old"}]
    BY <1>8, SettleStep
  <2>2. PICK place \in {"sleep", "after", "return"} : Ends(p, place)
    BY <1>8, SettleStep
  <2>3. PICK why \in Unread : Settles(p, why)
    BY <1>8, SettleStep
  <2>. QED
    BY <2>1, <2>2, <2>3 DEF Ends, Goes, Settles, TypeOK, Holding, OneConn,
      Backends, Answering
<1>9. ASSUME NEW p \in Proc, Sleep(p) PROVE Answering'
  BY <1>9 DEF Sleep, Set, TypeOK, Holding, OneConn, Backends, Answering
<1>10. ASSUME NEW p \in Proc, Return(p) PROVE Answering'
  BY <1>10 DEF Return, Set, TypeOK, Holding, OneConn, Backends, Answering
<1>11. ASSUME NEW p \in Proc, CtxEnds(p) PROVE Answering'
  BY <1>11 DEF CtxEnds, TypeOK, Holding, OneConn, Backends, Answering
<1>12. ASSUME NEW p \in Proc, WatchCancels(p) PROVE Answering'
  BY <1>12 DEF WatchCancels, TypeOK, Holding, OneConn, Backends, Answering
<1>13. ASSUME NEW p \in Proc, WatchSignals(p) PROVE Answering'
  BY <1>13 DEF WatchSignals, cancelRequest, TypeOK, Holding, OneConn, Backends,
    Answering
<1>14. ASSUME NEW c \in Conn, Serve(c) PROVE Answering'
  BY <1>14 DEF Serve, TypeOK, Holding, OneConn, Backends, Answering
<1>15. ASSUME NEW c \in Conn, Interrupt(c) PROVE Answering'
  BY <1>15 DEF Interrupt, TypeOK, Holding, OneConn, Backends, Answering
<1>16. CASE UNCHANGED vars
  BY <1>16 DEF vars, TypeOK, Holding, OneConn, Backends, Answering
<1>. QED
  BY <1>1, <1>2, <1>3, <1>4, <1>5, <1>6, <1>7, <1>8, <1>9, <1>10, <1>11, <1>12,
    <1>13, <1>14, <1>15, <1>16 DEF Next, Runs

\* A call of exec, query or a copy is never left alone, waiting for a connection
\* that nobody has or for an answer that nobody works on, for any number of
\* goroutines over every pooler: the safety part of CallReturns.
THEOREM QueryStrandsNobody == Spec => []NoneStranded
<1>1. Init => Stocked /\ Answering
  BY DEF Init, Stocked, Answering
<1>2. IInv /\ Stocked /\ Answering /\ [Next]_vars => (Stocked /\ Answering)'
  BY NextStocked, NextAnswering DEF IInv
<1>3. IInv /\ Stocked /\ Answering => NoneStranded
  BY DEF IInv, TypeOK, Holding, Stocked, Answering, NoneStranded
<1>. QED
  BY Inductive, <1>1, <1>2, <1>3, PTL DEF Spec
=============================================================================
