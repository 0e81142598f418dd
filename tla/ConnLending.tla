----------------------------- MODULE ConnLending -----------------------------
(***************************************************************************)
(* What a Pooler (upg/internal/pool/pool.go) promises its callers: Get      *)
(* lends a connection to one borrower at a time, never more than Limit at   *)
(* once; what comes back with Put waits in stock to be lent again, what     *)
(* comes back with Remove does not.                                         *)
(***************************************************************************)
EXTENDS Naturals

CONSTANTS Client, Conn, NoConn, Limit

VARIABLES lent,    \* the connection each client has borrowed
          loans,   \* how many are lent
          stock    \* connections that wait to be lent

vars == <<lent, loans, stock>>

Lent == {lent[p] : p \in Client} \ {NoConn}

Init == /\ lent = [p \in Client |-> NoConn]
        /\ loans = 0
        /\ stock = {}

\* A borrower gets a connection from stock or one that is new.
Lend(p, c) ==
  /\ lent[p] = NoConn
  /\ c \notin Lent
  /\ loans < Limit
  /\ loans' = loans + 1
  /\ lent' = [lent EXCEPT ![p] = c]
  /\ stock' = stock \ {c}

Return(p) ==
  /\ lent[p] # NoConn
  /\ lent' = [lent EXCEPT ![p] = NoConn]
  /\ loans' = loans - 1
  /\ stock' = stock \cup {lent[p]}

Discard(p) ==
  /\ lent[p] # NoConn
  /\ lent' = [lent EXCEPT ![p] = NoConn]
  /\ loans' = loans - 1
  /\ UNCHANGED stock

Supply(c) ==
  /\ c \notin stock \cup Lent
  /\ stock' = stock \cup {c}
  /\ UNCHANGED <<lent, loans>>

\* Stale connections leave stock; Close takes all of it.
Withdraw(S) ==
  /\ stock' = stock \ S
  /\ UNCHANGED <<lent, loans>>

Next ==
  \/ \E p \in Client, c \in Conn : Lend(p, c)
  \/ \E p \in Client : Return(p) \/ Discard(p)
  \/ \E c \in Conn : Supply(c)
  \/ \E S \in SUBSET stock : Withdraw(S)

Spec == Init /\ [][Next]_vars
=============================================================================
