--------------------------- MODULE MCValueCodec ---------------------------
(* Model-checking instance of ValueCodec.  The tags are value.hpp's        *)
(* ValueTypes (NUM 0, CODEPT 1, HASH_ONLY 2, TUPLE 3).  Integers and       *)
(* hashes are two bytes wide and pcs two bytes, so a number like 258 has   *)
(* two different bytes and a byte-order mistake shows; 256 is a pc whose   *)
(* bytes read in the wrong order or at the wrong offset give another pc.   *)
EXTENDS ValueCodec

(* Numbers whose two bytes differ, and zero.                               *)
MCInts == {0, 258}

(* New tuples of the smallest, a middle and the largest size, with tset    *)
(* writing the first, second and last element.                             *)
MCTupleSizes == {0, 2, 8}
MCSetIndexes == {0, 1, 7}

=============================================================================
