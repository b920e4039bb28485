------------------------- MODULE MCGarbageCollector -------------------------
(* Instances of GarbageCollector for TLC. *)
EXTENDS GarbageCollector, TLC

CONSTANTS t1, t2, p1, p2, a, b, d

(* One thread per process, or two threads of one process. *)
OwnProcess == t1 :> p1 @@ t2 :> p2
SameProcess == t1 :> p1 @@ t2 :> p1
Single == t1 :> p1

(* a refers to b. *)
Pair == a :> {b} @@ b :> {}
NoDeriver == [x \in Paths |-> NoPath]

(* a refers to b and to itself, and b was made by the derivation d. *)
Tri == a :> {a, b} @@ b :> {} @@ d :> {}
MadeByD == [x \in Paths |-> IF x = b THEN d ELSE NoPath]

=============================================================================
