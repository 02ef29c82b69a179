---------------------------- MODULE MCBlockHash ----------------------------
(***************************************************************************)
(* The hashes of the headers of empty blocks.  A hash has two bytes, so    *)
(* that their order shows.                                                 *)
(***************************************************************************)
EXTENDS BlockTxIter, Hashes, Samples

(* A stand-in for the digest that depends on every byte and its place.     *)
MCSha256(bytes) ==
  LET sum == FoldSeq(LAMBDA b, n : (n * 3 + b + 1) % Base ^ 2, 7, bytes)
  IN  LittleEndian(sum, HashLen)

Headers == {[i \in 1 .. HeaderLen |-> (i + k) % 5] : k \in 0 .. 2}

MCInputs == {EncodeBlock(h, <<>>) : h \in Headers}

(* As the documentation of block_hash has it (block.rs 76): the hash is    *)
(* returned in Bitcoin display byte order, which is the order in which     *)
(* hash.rs 35 writes the digest of a header out.                           *)
BlockHashIsInDisplayOrder ==
  (result.method = "new" /\ result.ok) =>
    BlockHash(result.val) =
      DisplayOrder(DoubleSha256(SubSeq(data, 1, HeaderLen)))

=============================================================================
