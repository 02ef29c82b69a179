------------------------------ MODULE MCCursor ------------------------------
(* CursorClients with bytes of eight values and a usize that ends at 4095,  *)
(* so that the lengths a client passes, and those the input announces, can  *)
(* pass it.                                                                 *)
EXTENDS CursorClients, TLC

CONSTANTS c1, c2, c3

(* Literals 0..4; 5, 6 and 7 announce 2, 4 and 8 more bytes.                *)
MCInputs ==
  UNION {[1 .. n -> {0, 5}] : n \in 0 .. 2}
    \cup { <<1, 5>>,
           <<2, 1, 0>>,
           <<5, 2, 0>>,
           <<6, 1, 0, 0, 0, 4>>,
           <<7, 1, 0, 0, 0, 0, 0, 0, 0, 4>>,
           <<7, 0, 0, 0, 0, 1, 0, 0, 0, 4>> }

MCLengths == {0, 1, 3, UsizeMax}

MCCaps == {0, 2, UsizeMax}

Symmetry == Permutations(Ids)

(* Three cursors share the short buffers; the ones long enough for a        *)
(* nine-byte varint are shared by two.                                      *)
Bound == Len(data) > 2 => \E i \in Ids : i \notin Live

=============================================================================
