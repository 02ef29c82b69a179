------------------------- MODULE TransactionCoding -------------------------
(***************************************************************************)
(* TransactionParser compared with the encoder: what parse_with makes of   *)
(* the bytes of a transaction, all of them or some.                        *)
(***************************************************************************)
EXTENDS TransactionParser, TxEncoding

CONSTANT Txs    (* the transactions compared with.                         *)

ASSUME TxsAssumption == \A t \in Txs : Encodable(t)

Encoded == [t \in Txs |-> EncodeTx(t)]

(* What the buffer held where the last call began, and that it has         *)
(* returned without an objection of a callback.                            *)
Given == SubSeq(data, start + 1, Len(data))

Finished == pc = "returned" /\ ~ refused

(* Parsing what was encoded, by the first call or a later one, delivers    *)
(* the encoded inputs and outputs field by field, returns the encoded      *)
(* version, lock time and counts, and stops exactly at the end             *)
(* (transaction.rs 279-377).                                               *)
RoundTrip ==
  \A t \in Txs :
    (Finished /\ IsPrefix(Encoded[t], Given)) =>
      /\ ret.ok
      /\ ret.val = [version |-> t.version, locktime |-> t.locktime,
                    inputs |-> Len(t.inputs), outputs |-> Len(t.outputs)]
      /\ parser.pos = start + Len(Encoded[t])
      /\ Shows(log, t)

(* A transaction cut short anywhere is an UnexpectedEof, never Ok and      *)
(* never another error: a caller may take it as a sign to fetch more       *)
(* (transaction.rs 279-377, cursor.rs 55-70).                              *)
CutShortIsEof ==
  \A t \in Txs :
    (Finished /\ IsStrictPrefix(Given, Encoded[t])) =>
      ~ ret.ok /\ ret.err.kind = "UnexpectedEof"

=============================================================================
