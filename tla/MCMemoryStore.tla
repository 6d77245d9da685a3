--------------------------- MODULE MCMemoryStore ---------------------------
(* An instance of MemoryStore for TLC: a caller of each of two tenants,    *)
(* who may take the other's through the facade.                            *)
EXTENDS MemoryStore, TLC

CONSTANTS c1, o1, ta, tb

MCOwn == [c \in Call |-> IF c = o1 THEN tb ELSE ta]

MemorySymmetry == Permutations(Memory)
=============================================================================
