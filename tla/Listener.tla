------------------------------ MODULE Listener ------------------------------
(***************************************************************************)
(* Listener (upg/listener.go): the goroutine that calls its methods ("app") *)
(* and the two goroutines of Channel, one that receives ("recv") and one    *)
(* that pings ("ping").  They share one connection to the server, which any *)
(* of them may replace.  One step is a section under ln.mu, a read or a     *)
(* write of the connection, or an operation on a channel; the mutex is held *)
(* across a dial.                                                           *)
(***************************************************************************)
EXTENDS Integers, FiniteSets

CONSTANTS Conn,      \* connections; one is used again when it is forgotten
          NoConn,    \* nil
          Name,      \* names of channels in the database
          Ping,      \* gopgChannel
          ChanSize,  \* capacity of the Go channel
          Pings      \* ln.pingTimeout > 0

ASSUME ListenerAssumption ==
  /\ NoConn \notin Conn
  /\ Ping \notin Name
  /\ ChanSize \in Nat \ {0}
  /\ Pings \in BOOLEAN

Proc == {"app", "recv", "ping"}
Channels == Name \cup {Ping}

VARIABLES
  mu,        \* who holds ln.mu while it dials, or "nobody"
  channels,  \* ln.channels
  cn,        \* ln.cn
  closed,    \* ln.closed, and ln.exit is closed
  pc,        \* where each goroutine is
  op, arg,   \* the method that app runs ("none" if none), and its channels
  mine,      \* the local variable cn of each goroutine
  got,       \* the channel of the notification recv has read, Ping if none
  chan,      \* ln.ch: "none", "open" or "closed"
  chLen,     \* its length
  pingCh,    \* ln.pingCh holds an element
  healthy,   \* the flag of the ping goroutine
  sock,      \* state of each socket; a silent one fails without an error
  subs,      \* what the server session of each connection listens to
  inbox,     \* the channels of notifications on their way to a connection
  dbClosed   \* the pool of the DB is closed

lnVars   == <<channels, cn, closed>>
callVars == <<op, arg>>
goVars   == <<got, chan, chLen, pingCh, healthy>>
netVars  == <<sock, subs, inbox, dbClosed>>

vars == <<mu, lnVars, pc, callVars, mine, goVars, netVars>>

Place == {"off", "idle", "lock", "dial", "redial", "write", "read", "release",
          "close", "start", "loop", "tell", "send", "closeCh", "wait", "ping",
          "judge", "done"}

Init ==
  /\ mu = "nobody"
  /\ channels = {}
  /\ cn = NoConn
  /\ closed = FALSE
  /\ pc = [p \in Proc |-> IF p = "app" THEN "idle" ELSE "off"]
  /\ op = "none"
  /\ arg = {}
  /\ mine = [p \in Proc |-> NoConn]
  /\ got = Ping
  /\ chan = "none"
  /\ chLen = 0
  /\ pingCh = FALSE
  /\ healthy = TRUE
  /\ sock = [c \in Conn |-> "closed"]
  /\ subs = [c \in Conn |-> {}]
  /\ inbox = [c \in Conn |-> {}]
  /\ dbClosed = FALSE

Goto(p, place) == pc' = [pc EXCEPT ![p] = place]

\* Where a goroutine goes on when its call is over.
Home(p) == CASE p = "recv"    -> "loop"
             [] p = "ping"    -> "wait"
             [] op = "channel" -> "start"
             [] OTHER          -> "idle"

GoHome(p) ==
  /\ Goto(p, Home(p))
  /\ IF p = "app" /\ op # "channel" THEN op' = "none" /\ arg' = {}
                                    ELSE UNCHANGED callVars

Receives(p) == p = "recv" \/ op = "receive"

\* The session of a socket that is closed or has failed is over.
Sockets(ss, how) ==
  /\ sock' = [c \in Conn |-> IF c \in ss THEN how ELSE sock[c]]
  /\ subs' = [c \in Conn |-> IF c \in ss THEN {} ELSE subs[c]]
  /\ inbox' = [c \in Conn |-> IF c \in ss THEN {} ELSE inbox[c]]

-----------------------------------------------------------------------------
(* conn, connWithLock, reconnect and releaseConn.                           *)

\* conn has returned c and a nil error.
HasConn(p, c) ==
  /\ Goto(p, IF Receives(p) THEN "read" ELSE "write")
  /\ mine' = [mine EXCEPT ![p] = c]
  /\ UNCHANGED callVars

\* conn has returned an error.  connWithLock closes the listener when it is
\* ErrClosed of the pool; the goroutine of Channel ends when it is
\* errListenerClosed.
HasError(p, err) ==
  /\ \/ err = "poolClosed" /\ Goto(p, "close") /\ UNCHANGED callVars
     \/ err = "listenerClosed" /\ p = "recv" /\ Goto(p, "closeCh")
        /\ UNCHANGED callVars
     \/ err = "listenerClosed" /\ p # "recv" /\ GoHome(p)
     \/ err = "other" /\ GoHome(p)
  /\ mine' = [mine EXCEPT ![p] = NoConn]

\* The first half of conn, up to the dial.
connWithLock(p) ==
  /\ pc[p] \in {"lock", "loop"}
  /\ mu = "nobody"
  /\ \/ closed /\ HasError(p, "listenerClosed") /\ UNCHANGED mu
     \/ ~closed /\ cn # NoConn /\ HasConn(p, cn) /\ UNCHANGED mu
     \/ ~closed /\ cn = NoConn /\ dbClosed /\ HasError(p, "poolClosed")
        /\ UNCHANGED mu
     \/ ~closed /\ cn = NoConn /\ ~dbClosed /\ mu' = p /\ Goto(p, "dial")
        /\ UNCHANGED <<callVars, mine>>
  /\ UNCHANGED <<lnVars, goVars, netVars>>

Unused(c) == sock[c] = "closed" /\ \A p \in Proc : mine[p] # c

\* Fault: the new connection is not told what to listen to.
connSucceedsForgets(p) ==
  /\ pc[p] \in {"dial", "redial"}
  /\ \E c \in Conn : /\ Unused(c)
                     /\ sock' = [sock EXCEPT ![c] = "up"]
                     /\ cn' = c
                     /\ IF pc[p] = "dial" THEN HasConn(p, c)
                                          ELSE GoHome(p) /\ UNCHANGED mine
  /\ mu' = "nobody"
  /\ UNCHANGED <<channels, closed, got, chan, chLen, pingCh, healthy, subs,
                 inbox, dbClosed>>

\* The second half: the new connection listens to the channels there are.
connSucceeds(p) ==
  /\ pc[p] \in {"dial", "redial"}
  /\ \E c \in Conn : /\ Unused(c)
                     /\ sock' = [sock EXCEPT ![c] = "up"]
                     /\ subs' = [subs EXCEPT ![c] = channels]
                     /\ cn' = c
                     /\ IF pc[p] = "dial" THEN HasConn(p, c)
                                          ELSE GoHome(p) /\ UNCHANGED mine
  /\ mu' = "nobody"
  /\ UNCHANGED <<channels, closed, got, chan, chLen, pingCh, healthy, inbox,
                 dbClosed>>

\* Fault: a connection that could not be initialised stays open.
CloseConnNot(c) == Sockets({c}, "up")

\* The pool closes connection c.
CloseConn(c) == Sockets({c}, "closed")

\* The dial fails, or initConn or listen does and the connection is closed.
connFails(p) ==
  /\ pc[p] \in {"dial", "redial"}
  /\ \/ UNCHANGED <<sock, subs, inbox>>
     \/ \E c \in Conn : Unused(c) /\ CloseConn(c)
  /\ mu' = "nobody"
  /\ IF pc[p] = "dial" THEN HasError(p, "other")
                       ELSE GoHome(p) /\ UNCHANGED mine
  /\ UNCHANGED <<lnVars, goVars, dbClosed>>

closeTheCn ==
  /\ cn' = NoConn
  /\ IF cn = NoConn THEN UNCHANGED <<sock, subs, inbox>> ELSE CloseConn(cn)

\* closeTheCn, then conn again, whose result is ignored.
reconnect(p) ==
  /\ closeTheCn
  /\ IF closed \/ dbClosed
     THEN GoHome(p) /\ UNCHANGED mu
     ELSE Goto(p, "redial") /\ mu' = p /\ UNCHANGED callVars

\* The error of the goroutine has made its connection bad.
releaseConn(p) ==
  /\ pc[p] = "release"
  /\ mu = "nobody"
  /\ IF cn = mine[p] THEN reconnect(p)
                     ELSE GoHome(p) /\ UNCHANGED <<mu, cn, sock, subs, inbox>>
  /\ mine' = [mine EXCEPT ![p] = NoConn]
  /\ UNCHANGED <<channels, closed, goVars, dbClosed>>

-----------------------------------------------------------------------------
(* The methods.                                                             *)

Call(o, a) == pc["app"] = "idle" /\ mu = "nobody" /\ op' = o /\ arg' = a

Listen(a) ==
  /\ Call("listen", a)
  /\ channels' = channels \cup a
  /\ Goto("app", "lock")
  /\ UNCHANGED <<mu, cn, closed, mine, goVars, netVars>>

\* channel, for the first time: initChannel listens to gopgChannel first.
Channel ==
  /\ Call("channel", {Ping})
  /\ chan = "none"
  /\ channels' = channels \cup {Ping}
  /\ Goto("app", "lock")
  /\ UNCHANGED <<mu, cn, closed, mine, goVars, netVars>>

\* The channels are removed in the section that conn runs in.
Unlisten(a) ==
  /\ channels' = channels \ a
  /\ IF closed \/ (cn = NoConn /\ dbClosed)
     THEN /\ pc["app"] = "idle" /\ mu = "nobody"
          /\ UNCHANGED <<mu, pc, callVars, mine>>
     ELSE /\ Call("unlisten", a)
          /\ IF cn = NoConn
             THEN mu' = "app" /\ Goto("app", "dial") /\ UNCHANGED mine
             ELSE /\ Goto("app", "write")
                  /\ mine' = [mine EXCEPT !["app"] = cn]
                  /\ UNCHANGED mu
  /\ UNCHANGED <<cn, closed, goVars, netVars>>

\* "Receive* APIs can not be used after channel is created."
Receive ==
  /\ Call("receive", {})
  /\ chan = "none"
  /\ Goto("app", "lock")
  /\ UNCHANGED <<mu, lnVars, mine, goVars, netVars>>

\* LISTEN or UNLISTEN is written to the connection the goroutine has, which
\* may have been replaced.
write(p) ==
  /\ pc[p] = "write"
  /\ sock[mine[p]] \in {"up", "silent"}
  /\ subs' = [subs EXCEPT ![mine[p]] = CASE sock[mine[p]] = "silent" -> @
                                         [] op = "unlisten"  -> @ \ arg
                                         [] OTHER            -> @ \cup arg]
  /\ GoHome(p)
  /\ mine' = [mine EXCEPT ![p] = NoConn]
  /\ UNCHANGED <<mu, lnVars, goVars, sock, inbox, dbClosed>>

\* The write fails, at the latest with its timeout.
writeFails(p) ==
  /\ pc[p] = "write"
  /\ Goto(p, "release")
  /\ UNCHANGED <<mu, lnVars, callVars, mine, goVars, netVars>>

\* Fault: the connection is left to its readers.
CloseKeepsConn ==
  /\ pc["app"] = "idle"
  /\ mu = "nobody"
  /\ ~closed
  /\ closed' = TRUE
  /\ UNCHANGED <<mu, channels, cn, pc, callVars, mine, goVars, netVars>>

Close ==
  /\ pc["app"] = "idle"
  /\ mu = "nobody"
  /\ ~closed
  /\ closed' = TRUE
  /\ closeTheCn
  /\ UNCHANGED <<mu, channels, pc, callVars, mine, goVars, dbClosed>>

\* connWithLock closes the listener of a closed DB.
closeOnError(p) ==
  /\ pc[p] = "close"
  /\ mu = "nobody"
  /\ closed' = TRUE
  /\ IF closed THEN UNCHANGED <<cn, sock, subs, inbox>> ELSE closeTheCn
  /\ IF p = "recv" THEN Goto(p, "closeCh") /\ UNCHANGED callVars
                   ELSE GoHome(p)
  /\ UNCHANGED <<mu, channels, mine, goVars, dbClosed>>

-----------------------------------------------------------------------------
(* Reading, by Receive and by the goroutine of Channel.                     *)

readNotification(p) ==
  /\ pc[p] = "read"
  /\ sock[mine[p]] = "up"
  /\ \E n \in inbox[mine[p]] :
       /\ inbox' = [inbox EXCEPT ![mine[p]] = @ \ {n}]
       /\ got' = IF p = "recv" THEN n ELSE got
  /\ IF p = "recv" THEN Goto(p, "tell") /\ UNCHANGED callVars ELSE GoHome(p)
  /\ mine' = [mine EXCEPT ![p] = NoConn]
  /\ UNCHANGED <<mu, lnVars, chan, chLen, pingCh, healthy,
                 sock, subs, dbClosed>>

\* The socket is broken or closed.
readFails(p) ==
  /\ pc[p] = "read"
  /\ sock[mine[p]] \in {"broken", "closed"}
  /\ Goto(p, "release")
  /\ UNCHANGED <<mu, lnVars, callVars, mine, goVars, netVars>>

\* A timeout of ReceiveTimeout, or a fatal error of the server.
readTimesOut(p) ==
  /\ pc[p] = "read"
  /\ p = "app" \/ sock[mine[p]] = "up"
  /\ Goto(p, "release")
  /\ UNCHANGED <<mu, lnVars, callVars, mine, goVars, netVars>>

\* An error of the server that does not make the connection bad.
readError(p) ==
  /\ pc[p] = "read"
  /\ sock[mine[p]] = "up"
  /\ GoHome(p)
  /\ mine' = [mine EXCEPT ![p] = NoConn]
  /\ UNCHANGED <<mu, lnVars, goVars, netVars>>

-----------------------------------------------------------------------------
(* The goroutines of Channel.                                               *)

initChannel ==
  /\ pc["app"] = "start"
  /\ chan' = "open"
  /\ op' = "none"
  /\ arg' = {}
  /\ pc' = [app |-> "idle", recv |-> "loop",
            ping |-> IF Pings THEN "wait" ELSE "off"]
  /\ UNCHANGED <<mu, lnVars, mine, got, chLen, pingCh, healthy,
                 netVars>>

\* Any notification is as good as a ping.
tellPing ==
  /\ pc["recv"] = "tell"
  /\ pingCh' = TRUE
  /\ got' = Ping
  /\ Goto("recv", IF got = Ping THEN "loop" ELSE "send")
  /\ UNCHANGED <<mu, lnVars, callVars, mine, chan, chLen, healthy,
                 netVars>>

sendNotification ==
  /\ pc["recv"] = "send"
  /\ chLen < ChanSize
  /\ chLen' = chLen + 1
  /\ Goto("recv", "loop")
  /\ UNCHANGED <<mu, lnVars, callVars, mine, got, chan, pingCh, healthy,
                 netVars>>

\* chanSendTimeout has passed.
dropNotification ==
  /\ pc["recv"] = "send"
  /\ Goto("recv", "loop")
  /\ UNCHANGED <<mu, lnVars, callVars, mine, goVars, netVars>>

closeCh ==
  /\ pc["recv"] = "closeCh"
  /\ chan' = "closed"
  /\ Goto("recv", "done")
  /\ UNCHANGED <<mu, lnVars, callVars, mine, got, chLen, pingCh, healthy,
                 netVars>>

pingReceived ==
  /\ pc["ping"] = "wait"
  /\ pingCh
  /\ pingCh' = FALSE
  /\ healthy' = TRUE
  /\ UNCHANGED <<mu, lnVars, pc, callVars, mine, got, chan, chLen, netVars>>

pingTimer ==
  /\ pc["ping"] = "wait"
  /\ Goto("ping", "ping")
  /\ UNCHANGED <<mu, lnVars, callVars, mine, goVars, netVars>>

\* A NOTIFY of channel n reaches every session that listens to it.
Notified(n) ==
  [c \in Conn |-> IF sock[c] = "up" /\ n \in subs[c] THEN inbox[c] \cup {n}
                                                      ELSE inbox[c]]

\* The NOTIFY goes through the pool of the DB, and may fail.
ping ==
  /\ pc["ping"] = "ping"
  /\ inbox' \in IF dbClosed THEN {inbox} ELSE {inbox, Notified(Ping)}
  /\ Goto("ping", "judge")
  /\ UNCHANGED <<mu, lnVars, callVars, mine, goVars, sock, subs, dbClosed>>

\* Fault: a missing answer is not remembered.
pingToleratedAlways ==
  /\ pc["ping"] = "judge"
  /\ healthy
  /\ Goto("ping", "wait")
  /\ UNCHANGED <<mu, lnVars, callVars, mine, goVars, netVars>>

\* The first timeout is tolerated, the second is not.
pingTolerated ==
  /\ pc["ping"] = "judge"
  /\ healthy
  /\ healthy' = FALSE
  /\ Goto("ping", "wait")
  /\ UNCHANGED <<mu, lnVars, callVars, mine, got, chan, chLen, pingCh, netVars>>

pingReconnects ==
  /\ pc["ping"] = "judge"
  /\ ~healthy
  /\ mu = "nobody"
  /\ reconnect("ping")
  /\ UNCHANGED <<channels, closed, mine, goVars, dbClosed>>

pingExits ==
  /\ pc["ping"] = "wait"
  /\ closed
  /\ Goto("ping", "done")
  /\ UNCHANGED <<mu, lnVars, callVars, mine, goVars, netVars>>

-----------------------------------------------------------------------------
(* The world: connections fail, others notify, the program takes            *)
(* notifications from the channel and closes the DB.                        *)

Fail(c, how) ==
  /\ sock[c] = "up"
  /\ Sockets({c}, how)
  /\ UNCHANGED <<mu, lnVars, pc, callVars, mine, goVars, dbClosed>>

Notify(n) ==
  /\ inbox' = Notified(n)
  /\ UNCHANGED <<mu, lnVars, pc, callVars, mine, goVars, sock, subs, dbClosed>>

Consume ==
  /\ chLen > 0
  /\ chLen' = chLen - 1
  /\ UNCHANGED <<mu, lnVars, pc, callVars, mine, got, chan, pingCh, healthy,
                 netVars>>

\* The pool closes every connection it knows; a dial goes on.
CloseDB ==
  /\ ~dbClosed
  /\ dbClosed' = TRUE
  /\ Sockets(Conn, "closed")
  /\ UNCHANGED <<mu, lnVars, pc, callVars, mine, goVars>>

World == \/ \E c \in Conn, how \in {"broken", "silent"} : Fail(c, how)
         \/ \E n \in Channels : Notify(n)
         \/ Consume
         \/ CloseDB

-----------------------------------------------------------------------------
Method == \/ \E n \in Name : Listen({n}) \/ Unlisten({n})
          \/ Channel \/ Receive \/ Close

\* Steps that wait for the mutex.
Locks(p) == connWithLock(p) \/ releaseConn(p) \/ closeOnError(p)

\* Steps of a goroutine that runs.
GoesOn(p) == \/ connSucceeds(p) \/ connFails(p)
             \/ write(p) \/ writeFails(p)
             \/ readNotification(p) \/ readFails(p)

ReadEnds(p) == readTimesOut(p) \/ readError(p)

RecvStep == tellPing \/ sendNotification \/ dropNotification \/ closeCh
PingStep == pingReceived \/ pingTimer \/ ping \/ pingTolerated

Next == \/ Method \/ initChannel \/ RecvStep \/ PingStep
        \/ pingReconnects \/ pingExits
        \/ \E p \in Proc : Locks(p) \/ GoesOn(p) \/ ReadEnds(p)
        \/ World

Spec == Init /\ [][Next]_vars

\* Goroutines run, dials and writes end, timers fire, the mutex is handed to
\* whoever waits for it (sync.Mutex does not starve), and a select takes each
\* of its ready cases in the end.
Fairness ==
  /\ \A p \in Proc : WF_vars(GoesOn(p))
  /\ SF_vars(Locks("recv"))
  /\ WF_vars(initChannel)
  /\ WF_vars(RecvStep)
  /\ WF_vars(PingStep)
  /\ SF_vars(pingReconnects)
  /\ SF_vars(pingExits)

FairSpec == Spec /\ Fairness

-----------------------------------------------------------------------------
TypeOK ==
  /\ mu \in Proc \cup {"nobody"}
  /\ channels \in SUBSET Channels
  /\ cn \in Conn \cup {NoConn}
  /\ closed \in BOOLEAN
  /\ pc \in [Proc -> Place]
  /\ op \in {"none", "listen", "unlisten", "channel", "receive"}
  /\ arg \in SUBSET Channels
  /\ mine \in [Proc -> Conn \cup {NoConn}]
  /\ got \in Channels
  /\ chan \in {"none", "open", "closed"}
  /\ chLen \in 0..ChanSize
  /\ pingCh \in BOOLEAN
  /\ healthy \in BOOLEAN
  /\ sock \in [Conn -> {"up", "silent", "broken", "closed"}]
  /\ subs \in [Conn -> SUBSET Channels]
  /\ inbox \in [Conn -> SUBSET Channels]
  /\ dbClosed \in BOOLEAN

\* No connection of the listener is open but the one in ln.cn, and none when
\* the listener is closed: whoever fails while another goroutine replaces the
\* connection, nothing is left open behind.
NothingLeaks ==
  /\ \A c \in Conn : sock[c] # "closed" => c = cn
  /\ closed => cn = NoConn

\* The listener's variables have their types and it leaks no connection.
ConnsSound == TypeOK /\ NothingLeaks

\* app has told the server what it has recorded.
Told == pc["app"] \in {"idle", "start"} \/ op = "receive"

\* The session of a connection that works listens to exactly the channels of
\* ln.channels, whichever goroutine has made it and whatever Listen and
\* Unlisten it has raced with.
InStep == Told /\ cn # NoConn /\ sock[cn] = "up" => subs[cn] = channels

\* upg/listener.go: "Close closes the listener, releasing any open resources"
\* and "The channel is closed with Listener".  After Close both goroutines end
\* and the channel is closed, also when nobody takes its notifications.
ChannelEnds ==
  closed /\ chan # "none" ~> chan = "closed" /\ pc["ping"] \in {"off", "done"}

\* The DB is closed and the listener has no connection that works.
CutOff == dbClosed /\ mu = "nobody" /\ (cn # NoConn => sock[cn] = "closed")

\* The Channel of a listener whose DB is closed is closed too, unless a dial
\* that was under way has given it one more connection.
EndsWithDB == CutOff /\ chan # "none" ~> chan = "closed"

\* The goroutines of Channel end with the listener and with its DB.
EndsWithOwner == ChannelEnds /\ EndsWithDB

\* A connection that has gone silent, whose reads neither return nor fail, is
\* replaced with the help of the pings.
SilentReplaced ==
  LET Silent == cn # NoConn /\ sock[cn] = "silent"
  IN  Pings => (Silent /\ chan # "none" ~> ~Silent)
=============================================================================
