------------------------------ MODULE Samples ------------------------------
(***************************************************************************)
(* Transactions that the runs encode, and what they do to the bytes.       *)
(***************************************************************************)
EXTENDS Encoding

(* The encoding with one byte replaced.                                    *)
Corruptions(bytes, values) ==
  {[bytes EXCEPT ![i] = v] : i \in 1 .. Len(bytes), v \in values}

-----------------------------------------------------------------------------
(* Sample transactions.                                                    *)

In(txid, vout, script) == [txid |-> txid, vout |-> vout, script |-> script, sequence |-> 9]

Out(value, script) == [value |-> value, script |-> script]

Legacy(ins, outs) ==
  [version |-> 1, segwit |-> FALSE, inputs |-> ins, outputs |-> outs,
   witnesses |-> <<>>, locktime |-> 11]

Segwit(ins, outs, wits) ==
  [version |-> 2, segwit |-> TRUE, inputs |-> ins, outputs |-> outs,
   witnesses |-> wits, locktime |-> 0]

Coinbase == Legacy(<<In(<<0>>, Base ^ 4 - 1, <<3>>)>>, <<Out(70, <<1>>)>>)

SegwitCoinbase ==
  Segwit(<<In(<<0>>, Base ^ 4 - 1, <<>>)>>, <<Out(1, <<>>)>>, <<<<<<0>>>>>>)

Payment == Legacy(<<In(<<2>>, 1, <<>>)>>, <<Out(5, <<4>>)>>)

(* Spends output 0xffffffff of a transaction and output 0 of hash zero.    *)
TwoInputs ==
  Legacy(<<In(<<2>>, Base ^ 4 - 1, <<>>), In(<<0>>, 0, <<1>>)>>, <<Out(3, <<>>)>>)

NoOutputs == Legacy(<<In(<<1>>, 0, <<>>)>>, <<>>)

(* Its script needs a three-byte length.                                   *)
LongScript == Legacy(<<In(<<1>>, 2, <<1, 0, 1, 0, 1>>)>>, <<Out(0, <<>>)>>)

SegwitPayment ==
  Segwit(<<In(<<3>>, 1, <<>>), In(<<4>>, 0, <<>>)>>, <<Out(2, <<0>>)>>,
         <<<<>>, <<<<1, 2>>, <<>>>>>>)

=============================================================================
