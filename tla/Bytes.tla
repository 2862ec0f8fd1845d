------------------------------- MODULE Bytes -------------------------------
(* Integers as bytes, and parts of byte strings.                           *)
EXTENDS Naturals, SequencesExt, FiniteSetsExt

(* to_le_bytes() and from_le_bytes() of an integer of w bytes.             *)
to_le_bytes(w, v) ==
    LET shr[i \in 1 .. w] == IF i = 1 THEN v ELSE shr[i - 1] \div 256
    IN  [i \in 1 .. w |-> shr[i] % 256]
from_le_bytes(b) == FoldRight(LAMBDA x, acc : acc * 256 + x, b, 0)

(* resize_with(n, || zero) of a sequence no longer than n.                 *)
resize_with(s, n, zero) == s \o [i \in 1 .. n - Len(s) |-> zero]
=============================================================================
