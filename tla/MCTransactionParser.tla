------------------------- MODULE MCTransactionParser -------------------------
(***************************************************************************)
(* TransactionParser on encoded transactions, on every prefix of them, on  *)
(* them with bytes replaced, and on two in a row.  Bytes have eight values *)
(* and a hash is one byte, so that every byte of a transaction is tried.   *)
(***************************************************************************)
EXTENDS TransactionCoding, Samples

MCTxs == {Coinbase, TwoInputs, NoOutputs, LongScript, SegwitPayment}

Written == [t \in MCTxs |-> EncodeTx(t)]

MCInputs ==
  UNION {Prefixes(Written[t]) : t \in MCTxs}
    \cup UNION {Corruptions(Written[t], {0, 2, 5, Base - 1}) : t \in MCTxs}
    \cup {Written[t] \o Written[u] : t \in {Coinbase, SegwitPayment}, u \in MCTxs}

=============================================================================
