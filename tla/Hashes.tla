------------------------------- MODULE Hashes -------------------------------
(***************************************************************************)
(* The hash of a block, BlockHeader::block_hash of src/block.rs, and the   *)
(* order in which src/hash.rs writes a hash out.                           *)
(***************************************************************************)
EXTENDS Cursor, SequencesExt

CONSTANT Sha256(_)   (* the digest of a sequence of bytes, from crate sha2. *)

DoubleSha256(bytes) == Sha256(Sha256(bytes))

BlockHash(header) == DoubleSha256(SubSeq(data, header.raw.lo + 1, header.raw.hi))

(* The bytes of a hash in the order in which Display and Debug write them. *)
DisplayOrder(hash) == Reverse(hash)

=============================================================================
