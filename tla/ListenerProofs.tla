--------------------------- MODULE ListenerProofs ---------------------------
(* Proofs about Listener, for any number of connections and channels and any *)
(* capacity of the Go channel.                                               *)
EXTENDS Listener, TLAPS

Dialing == {"dial", "redial"}

\* Where each goroutine can be, and what app runs there.
Places ==
  /\ pc["app"] \in Dialing \cup {"idle", "lock", "write", "read", "release",
                                 "close", "start"}
  /\ pc["recv"] \in Dialing \cup {"off", "loop", "read", "release", "close",
                                  "tell", "send", "closeCh", "done"}
  /\ pc["ping"] \in {"off", "wait", "ping", "judge", "redial", "done"}
  /\ pc["app"] = "idle" <=> op = "none"
  /\ pc["app"] = "start" => op = "channel"
  /\ pc["app"] = "read" => op = "receive"
  /\ pc["app"] = "write" => op # "receive"
  /\ op = "channel" => chan = "none"
  /\ chan = "none" => pc["recv"] = "off" /\ pc["ping"] = "off"

\* ln.mu is held across a dial, and only then: while it is held there is no
\* connection and the listener is open.
DialsLocked ==
  /\ \A p \in Proc : mu = p <=> pc[p] \in Dialing
  /\ mu # "nobody" => cn = NoConn /\ ~closed

\* A goroutine that writes, reads or gives up has a connection, perhaps one
\* that has been replaced.
HasMine == \A p \in Proc :
  pc[p] \in {"write", "read", "release"} => mine[p] \in Conn

\* What Listen and Unlisten have done to ln.channels and have still to tell the
\* server; a connection made since then knows it already.
Recorded ==
  /\ op \in {"listen", "channel"} => arg \subseteq channels
  /\ op = "unlisten" => arg \cap channels = {}

Untold ==
  ~Told /\ cn # NoConn /\ sock[cn] = "up" =>
    /\ op \in {"listen", "channel"} => subs[cn] \cup arg = channels
    /\ op = "unlisten" => subs[cn] \ arg = channels
    /\ pc["app"] \in {"write", "release"} /\ mine["app"] # cn => subs[cn] = channels

IInv == ConnsSound /\ Places /\ DialsLocked /\ HasMine /\ Recorded /\ Untold /\ InStep

USE ListenerAssumption DEF Proc, Channels, Place, Goto, Dialing, Places,
  DialsLocked, HasMine, Recorded, Untold, ConnsSound, TypeOK, NothingLeaks, Told,
  InStep, lnVars, callVars, goVars, netVars

LEMMA InitIInv == Init => IInv
<1> SUFFICES ASSUME Init PROVE IInv
  OBVIOUS
<1>1. /\ closed \in BOOLEAN /\ pingCh \in BOOLEAN
      /\ healthy \in BOOLEAN /\ dbClosed \in BOOLEAN
  BY Zenon DEF Init
<1>. QED
  BY <1>1 DEF Init, IInv

LEMMA NextIInv == IInv /\ [Next]_vars => IInv'
<1> SUFFICES ASSUME IInv, [Next]_vars PROVE IInv'
  OBVIOUS
<1> USE DEF IInv
<1>1. ASSUME NEW n \in Name, Listen({n}) PROVE IInv'
  BY <1>1 DEF Listen, Call
<1>2. ASSUME NEW n \in Name, Unlisten({n}) PROVE IInv'
  BY <1>2 DEF Unlisten, Call
<1>3. CASE Channel
  BY <1>3 DEF Channel, Call
<1>4. CASE Receive
  BY <1>4 DEF Receive, Call
<1>5. CASE Close
  BY <1>5 DEF Close, closeTheCn, CloseConn, Sockets
<1>6. CASE initChannel
  BY <1>6 DEF initChannel
<1>7. CASE tellPing
  BY <1>7 DEF tellPing
<1>8. CASE sendNotification
  BY <1>8 DEF sendNotification
<1>9. CASE dropNotification
  BY <1>9 DEF dropNotification
<1>10. CASE closeCh
  BY <1>10 DEF closeCh
<1>11. CASE pingReceived
  <2>1. pingCh' \in BOOLEAN /\ healthy' \in BOOLEAN
    BY <1>11, Zenon DEF pingReceived
  <2>. QED
    BY <1>11, <2>1 DEF pingReceived
<1>12. CASE pingTimer
  BY <1>12 DEF pingTimer
<1>13. CASE ping
  BY <1>13 DEF ping, Notified
<1>14. CASE pingTolerated
  <2>1. healthy' \in BOOLEAN
    BY <1>14, Zenon DEF pingTolerated
  <2>. QED
    BY <1>14, <2>1 DEF pingTolerated
<1>15. CASE pingReconnects
  BY <1>15 DEF pingReconnects, reconnect, closeTheCn, CloseConn, Sockets, GoHome, Home
<1>16. CASE pingExits
  BY <1>16 DEF pingExits
<1>17. ASSUME NEW p \in Proc, connWithLock(p) PROVE IInv'
  BY <1>17 DEF connWithLock, HasError, HasConn, GoHome, Home, Receives
<1>18. ASSUME NEW p \in Proc, releaseConn(p) PROVE IInv'
  BY <1>18 DEF releaseConn, reconnect, closeTheCn, CloseConn, Sockets, GoHome, Home
<1>19. ASSUME NEW p \in Proc, closeOnError(p) PROVE IInv'
  BY <1>19 DEF closeOnError, closeTheCn, CloseConn, Sockets, GoHome, Home
<1>20. ASSUME NEW p \in Proc, connSucceeds(p) PROVE IInv'
  BY <1>20 DEF connSucceeds, Unused, HasConn, GoHome, Home, Receives
<1>21. ASSUME NEW p \in Proc, connFails(p) PROVE IInv'
  BY <1>21 DEF connFails, Unused, CloseConn, Sockets, HasError, GoHome, Home
<1>22. ASSUME NEW p \in Proc, write(p) PROVE IInv'
  BY <1>22 DEF write, GoHome, Home
<1>23. ASSUME NEW p \in Proc, writeFails(p) PROVE IInv'
  BY <1>23 DEF writeFails
<1>24. ASSUME NEW p \in Proc, readNotification(p) PROVE IInv'
  BY <1>24 DEF readNotification, GoHome, Home
<1>25. ASSUME NEW p \in Proc, readFails(p) PROVE IInv'
  BY <1>25 DEF readFails
<1>26. ASSUME NEW p \in Proc, readTimesOut(p) PROVE IInv'
  BY <1>26 DEF readTimesOut
<1>27. ASSUME NEW p \in Proc, readError(p) PROVE IInv'
  BY <1>27 DEF readError, GoHome, Home
<1>28. ASSUME NEW c \in Conn, NEW how \in {"broken", "silent"}, Fail(c, how) PROVE IInv'
  BY <1>28 DEF Fail, Sockets
<1>29. ASSUME NEW n \in Channels, Notify(n) PROVE IInv'
  BY <1>29 DEF Notify, Notified
<1>30. CASE Consume
  BY <1>30 DEF Consume
<1>31. CASE CloseDB
  BY <1>31 DEF CloseDB, Sockets
<1>32. CASE UNCHANGED vars
  BY <1>32 DEF vars
<1>. QED
  BY <1>1, <1>2, <1>3, <1>4, <1>5, <1>6, <1>7, <1>8, <1>9, <1>10, <1>11,
     <1>12, <1>13, <1>14, <1>15, <1>16, <1>17, <1>18, <1>19, <1>20, <1>21,
     <1>22, <1>23, <1>24, <1>25, <1>26, <1>27, <1>28, <1>29, <1>30, <1>31,
     <1>32
     DEF Next, Method, RecvStep, PingStep, Locks, GoesOn, ReadEnds, World

LEMMA Inductive == Spec => []IInv
  BY InitIInv, NextIInv, PTL DEF Spec

\* Whichever goroutine fails, reconnects or closes while another one dials,
\* writes or reads, the listener has no open connection but ln.cn, and none
\* once it is closed; and its variables keep their types.
THEOREM ListenerLeaksNothing == Spec => []ConnsSound
  BY Inductive, PTL DEF IInv

\* Once Listen, Unlisten or Channel has returned, the session of a connection
\* that works listens to exactly ln.channels, also when the connection was
\* replaced between the update of ln.channels and the write.
THEOREM ListenerInStep == Spec => []InStep
  BY Inductive, PTL DEF IInv
-----------------------------------------------------------------------------
(* Waiting.                                                                 *)

\* Nobody is left in a read that cannot end: a connection that is replaced or
\* closed is closed under whoever reads it; after Close nobody reads an open
\* connection and nobody dials under ln.mu; a goroutine that reads a silent
\* connection for Channel has, with pings, the other one to notice.  The Go
\* channel has its one sender until that one closes it.
ReadsEnd ==
  /\ \A p \in Proc : pc[p] = "read" => mine[p] = cn \/ sock[mine[p]] = "closed"
  /\ closed => mu = "nobody"
               /\ \A p \in Proc : pc[p] = "read" => sock[mine[p]] = "closed"
  /\ Pings /\ pc["recv"] = "read" /\ sock[mine["recv"]] = "silent" =>
       pc["ping"] \notin {"off", "done"}
  /\ chan = "open" <=> pc["recv"] \notin {"off", "done"}

\* The goroutines of Channel live while the Go channel is open, the one that
\* pings until the listener is closed.
Goroutines ==
  /\ chan = "open" <=> pc["recv"] \notin {"off", "done"}
  /\ chan # "none" /\ Pings => pc["ping"] # "off"
  /\ pc["ping"] = "done" => closed

LEMMA NextGoroutines == IInv /\ Goroutines /\ [Next]_vars => Goroutines'
<1> SUFFICES ASSUME IInv, Goroutines, [Next]_vars PROVE Goroutines'
  OBVIOUS
<1> USE DEF IInv, Goroutines
<1>1. ASSUME NEW n \in Name, Listen({n}) PROVE Goroutines'
  BY <1>1 DEF Listen, Call
<1>2. ASSUME NEW n \in Name, Unlisten({n}) PROVE Goroutines'
  BY <1>2 DEF Unlisten, Call
<1>3. CASE Channel
  BY <1>3 DEF Channel, Call
<1>4. CASE Receive
  BY <1>4 DEF Receive, Call
<1>5. CASE Close
  BY <1>5 DEF Close
<1>6. CASE initChannel
  BY <1>6 DEF initChannel
<1>7. CASE tellPing
  BY <1>7 DEF tellPing
<1>8. CASE sendNotification
  BY <1>8 DEF sendNotification
<1>9. CASE dropNotification
  BY <1>9 DEF dropNotification
<1>10. CASE closeCh
  BY <1>10 DEF closeCh
<1>11. CASE pingReceived
  BY <1>11 DEF pingReceived
<1>12. CASE pingTimer
  BY <1>12 DEF pingTimer
<1>13. CASE ping
  BY <1>13 DEF ping
<1>14. CASE pingTolerated
  BY <1>14 DEF pingTolerated
<1>15. CASE pingReconnects
  BY <1>15 DEF pingReconnects, reconnect, GoHome, Home
<1>16. CASE pingExits
  BY <1>16 DEF pingExits
<1>17. ASSUME NEW p \in Proc, connWithLock(p) PROVE Goroutines'
  BY <1>17 DEF connWithLock, HasError, HasConn, GoHome, Home
<1>18. ASSUME NEW p \in Proc, releaseConn(p) PROVE Goroutines'
  BY <1>18 DEF releaseConn, reconnect, GoHome, Home
<1>19. ASSUME NEW p \in Proc, closeOnError(p) PROVE Goroutines'
  BY <1>19 DEF closeOnError, GoHome, Home
<1>20. ASSUME NEW p \in Proc, connSucceeds(p) PROVE Goroutines'
  BY <1>20 DEF connSucceeds, HasConn, GoHome, Home
<1>21. ASSUME NEW p \in Proc, connFails(p) PROVE Goroutines'
  BY <1>21 DEF connFails, HasError, GoHome, Home
<1>22. ASSUME NEW p \in Proc, write(p) PROVE Goroutines'
  BY <1>22 DEF write, GoHome, Home
<1>23. ASSUME NEW p \in Proc, writeFails(p) PROVE Goroutines'
  BY <1>23 DEF writeFails
<1>24. ASSUME NEW p \in Proc, readNotification(p) PROVE Goroutines'
  BY <1>24 DEF readNotification, GoHome, Home
<1>25. ASSUME NEW p \in Proc, readFails(p) PROVE Goroutines'
  BY <1>25 DEF readFails
<1>26. ASSUME NEW p \in Proc, readTimesOut(p) PROVE Goroutines'
  BY <1>26 DEF readTimesOut
<1>27. ASSUME NEW p \in Proc, readError(p) PROVE Goroutines'
  BY <1>27 DEF readError, GoHome, Home
<1>28. ASSUME NEW c \in Conn, NEW how \in {"broken", "silent"}, Fail(c, how) PROVE Goroutines'
  BY <1>28 DEF Fail
<1>29. ASSUME NEW n \in Channels, Notify(n) PROVE Goroutines'
  BY <1>29 DEF Notify
<1>30. CASE Consume
  BY <1>30 DEF Consume
<1>31. CASE CloseDB
  BY <1>31 DEF CloseDB
<1>32. CASE UNCHANGED vars
  BY <1>32 DEF vars
<1>. QED
  BY <1>1, <1>2, <1>3, <1>4, <1>5, <1>6, <1>7, <1>8, <1>9, <1>10, <1>11,
     <1>12, <1>13, <1>14, <1>15, <1>16, <1>17, <1>18, <1>19, <1>20, <1>21,
     <1>22, <1>23, <1>24, <1>25, <1>26, <1>27, <1>28, <1>29, <1>30, <1>31,
     <1>32
     DEF Next, Method, RecvStep, PingStep, Locks, GoesOn, ReadEnds, World

\* Close and reconnect wake the goroutines that read, and the Go channel is
\* neither sent to after its close nor left open without its sender, for any
\* number of connections: the safety part of EndsWithOwner and SilentReplaced.
THEOREM ListenerReadsEnd == Spec => []ReadsEnd
<1>1. Init => Goroutines
  BY DEF Init, Goroutines
<1>2. IInv /\ Goroutines => ReadsEnd
  <2> SUFFICES ASSUME IInv, Goroutines PROVE ReadsEnd
    OBVIOUS
  <2>1. \A p \in Proc : pc[p] = "read" => mine[p] = cn \/ sock[mine[p]] = "closed"
    BY DEF IInv
  <2>2. closed => mu = "nobody"
                  /\ \A p \in Proc : pc[p] = "read" => sock[mine[p]] = "closed"
    BY DEF IInv
  <2>3. Pings /\ pc["recv"] = "read" /\ sock[mine["recv"]] = "silent" =>
          pc["ping"] \notin {"off", "done"}
    BY <2>2 DEF IInv, Goroutines
  <2>. QED
    BY <2>1, <2>2, <2>3 DEF Goroutines, ReadsEnd
<1>. QED
  BY Inductive, <1>1, <1>2, NextGoroutines, PTL DEF Spec
=============================================================================
