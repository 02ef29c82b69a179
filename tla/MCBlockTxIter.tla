---------------------------- MODULE MCBlockTxIter ----------------------------
(***************************************************************************)
(* BlockTxIter on encoded blocks, good and bad, cut short, with bytes      *)
(* replaced, and with bytes after the last transaction.                    *)
(***************************************************************************)
EXTENDS BlockCoding, Samples

MCHeader == [i \in 1 .. HeaderLen |-> i % 5]

MCBlocks ==
  { <<>>,
    <<Coinbase>>,
    <<Payment>>,
    <<Coinbase, Payment>>,
    <<Coinbase, Coinbase>>,
    <<Payment, Coinbase>>,
    <<SegwitCoinbase, SegwitPayment>> }

Written == [b \in MCBlocks |-> EncodeBlock(MCHeader, b)]

(* A transaction more than MaxBlockTxn allows.                             *)
TooMany == EncodeBlock(MCHeader, <<Coinbase, Payment, Payment>>)

MCInputs ==
  {Written[b] : b \in MCBlocks}
    \cup {Written[b] \o <<0>> : b \in MCBlocks}
    \cup Prefixes(Written[<<SegwitCoinbase, SegwitPayment>>])
    \cup Corruptions(Written[<<Coinbase, Payment>>], {0, 2, Base - 1})
    \cup {TooMany}

(* As the documentation of InvalidCoinbaseCount has it (error.rs 61): the  *)
(* error is for a block that contains an unexpected number of coinbase     *)
(* transactions, so never for one that contains exactly one.               *)
CoinbaseErrorMeansWrongNumber ==
  \A b \in MCBlocks :
    (result.err.kind = "InvalidCoinbaseCount" /\ data = Written[b]) =>
      Cardinality({k \in 1 .. Len(b) : b[k] \in {Coinbase, SegwitCoinbase}}) # 1

=============================================================================
