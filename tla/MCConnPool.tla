----------------------------- MODULE MCConnPool -----------------------------
(* Small instances of ConnPool.  Conn is large enough that a dial is never  *)
(* refused for want of an identity.                                         *)
EXTENDS ConnPool, TLC

Perms == Permutations(Client) \cup Permutations(Conn)

=============================================================================
