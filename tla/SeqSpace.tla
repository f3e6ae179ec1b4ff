------------------------------ MODULE SeqSpace ------------------------------
(***************************************************************************)
(* The circular sequence-number space of seq_space.rs: points are u32      *)
(* values that wrap, and the offset between two points is a wrapped i32,   *)
(* negative when its sign bit is set.                                      *)
(***************************************************************************)
EXTENDS Integers

CONSTANT Half           \* 2^31 in the code: half of the sequence space

ASSUME HalfAssumption == Half \in Nat \ {0}

SeqMod == 2 * Half

SeqPoint == 0..(SeqMod - 1)

\* SeqPoint + SeqOffset<u32>: Wrapping<u32> addition.
Add(p, n) == (p + n) % SeqMod

\* SeqPoint - SeqPoint before the cast to i32: how far p lies past q.
Sub(p, q) == (p - q) % SeqMod

\* The i32 offset p - q is negative, i.e. its top bit is set.
Precedes(p, q) == Sub(p, q) >= Half

PrecedesOrEq(p, q) == p = q \/ Precedes(p, q)

InWindow(p, start, len) == PrecedesOrEq(start, p) /\ Precedes(p, Add(start, len))
=============================================================================
