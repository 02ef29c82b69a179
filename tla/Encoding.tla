------------------------------ MODULE Encoding ------------------------------
(***************************************************************************)
(* The wire format from the writing side: the bytes of a transaction given *)
(* as a record, as encode_varint and coinbase_tx of examples/parse_block.rs *)
(* build them.  It is the reference that the parsers are compared with and *)
(* takes nothing from Cursor but how many values a byte has.               *)
(***************************************************************************)
EXTENDS Cursor, SequencesExt

(* The two and the four lowest bytes of v, which may be negative.          *)
LowTwo(v) == <<v % Base, (v \div Base) % Base>>

LowFour(v) == LowTwo(v) \o LowTwo(v \div Base2)

(* to_le_bytes of an integer of n bytes.                                   *)
LittleEndian(v, n) ==
  CASE n = 1 -> <<v % Base>>
    [] n = 2 -> LowTwo(v)
    [] n = 4 -> LowFour(v)
    [] n = 8 -> LowFour(v) \o LowFour(v \div Base4)

EncodeVarint(v) ==
  CASE v < Base - 3 -> <<v>>
    [] v >= Base - 3 /\ v < Base2 -> <<Base - 3>> \o LittleEndian(v, 2)
    [] v >= Base2 /\ v < Base4 -> <<Base - 2>> \o LittleEndian(v, 4)
    [] OTHER -> <<Base - 1>> \o LittleEndian(v, 8)

WithLength(bytes) == EncodeVarint(Len(bytes)) \o bytes

Each(Encode(_), s) == FlattenSeq([i \in 1 .. Len(s) |-> Encode(s[i])])

EncodeInput(i) ==
  i.txid \o LittleEndian(i.vout, 4) \o WithLength(i.script) \o LittleEndian(i.sequence, 4)

EncodeOutput(o) == LittleEndian(o.value, 8) \o WithLength(o.script)

EncodeWitness(items) == EncodeVarint(Len(items)) \o Each(WithLength, items)

EncodeTx(t) ==
  LittleEndian(t.version, 4)
    \o (IF t.segwit THEN <<0, 1>> ELSE <<>>)
    \o EncodeVarint(Len(t.inputs)) \o Each(EncodeInput, t.inputs)
    \o EncodeVarint(Len(t.outputs)) \o Each(EncodeOutput, t.outputs)
    \o (IF t.segwit THEN Each(EncodeWitness, t.witnesses) ELSE <<>>)
    \o LittleEndian(t.locktime, 4)

(* A header, the transaction count and the transactions.                   *)
EncodeBlock(header, txs) == header \o EncodeVarint(Len(txs)) \o Each(EncodeTx, txs)

=============================================================================
