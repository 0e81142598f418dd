-------------------------- MODULE MCStickyConnPool --------------------------
(* Small instances of StickyConnPool.                                       *)
EXTENDS StickyConnPool
=============================================================================
