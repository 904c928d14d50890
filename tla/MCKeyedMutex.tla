---------------------------- MODULE MCKeyedMutex ----------------------------
(* Three goroutines over two keys: two can contend while the third works the *)
(* other key, or arrives as the entry of the first is being deleted.  Three  *)
(* objects are more than two keys can have in use at once.                   *)
EXTENDS KeyedMutex

CONSTANTS p1, p2, p3, k1, k2, o1, o2, o3

MCProc == {p1, p2, p3}
MCKey == {k1, k2}
MCObj == {o1, o2, o3}
=============================================================================
