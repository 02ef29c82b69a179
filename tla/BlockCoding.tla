---------------------------- MODULE BlockCoding ----------------------------
(***************************************************************************)
(* BlockTxIter compared with the encoder: what a client gets of an encoded *)
(* block.                                                                  *)
(***************************************************************************)
EXTENDS BlockTxIter, TxEncoding

CONSTANTS
  Header,   (* the bytes of a header, whatever they say,                   *)
  Blocks    (* and the blocks compared with, as sequences of transactions. *)

ASSUME BlocksAssumption ==
  /\ Header \in Seq(Byte) /\ Len(Header) = HeaderLen
  /\ MaxBlockTxn <= UsizeMax
  /\ \A b \in Blocks :
       /\ b = [k \in 1 .. Len(b) |-> b[k]] /\ Len(b) \in 0 .. MaxBlockTxn
       /\ \A k \in 1 .. Len(b) : Encodable(b[k])

Encoded == [b \in Blocks |-> EncodeBlock(Header, b)]

(* The fields of the header, written out again.                            *)
HeaderBytes(h) ==
  LittleEndian(h.version, 4) \o Bytes(h.prev_block) \o Bytes(h.merkle_root)
    \o LittleEndian(h.timestamp, 4) \o LittleEndian(h.bits, 4) \o LittleEndian(h.nonce, 4)

(* new accepts every encoded block and returns the header encoded.  Of     *)
(* such a block the client gets the transactions that were encoded, field  *)
(* by field and in their order, and no call fails but for an answer of the *)
(* client's or a strict check (block.rs 109-190).                          *)
BlockRoundTrip ==
  \A b \in Blocks :
    (call # "unborn" /\ IsPrefix(Encoded[b], data)) =>
      /\ result.method = "new" => result.ok /\ HeaderBytes(result.val) = Header
      /\ it.total = Len(b)
      /\ \A k \in 1 .. it.consumed : Shows(accepted[k], b[k])
      /\ result.method \in {"next_tx", "skip_remaining"} =>
           result.ok \/ result.err = UserError

=============================================================================
