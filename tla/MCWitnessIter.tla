--------------------------- MODULE MCWitnessIter ---------------------------
(***************************************************************************)
(* WitnessIter over encoded witnesses of up to three items, whole, cut     *)
(* short, with a byte replaced and with bytes behind them, over counts and *)
(* lengths written longer than they need be, and over every buffer of up   *)
(* to two bytes.                                                           *)
(***************************************************************************)
EXTENDS WitnessIter, Samples

(* The last is longer than one byte can say, and as long as allowed.       *)
Contents == {<<>>, <<2>>, <<1, 1>>, <<0, 1, 0, 1, 0>>}

Lists == UNION {[1 .. n -> Contents] : n \in 0 .. 2}

(* Two items and then one, with a two-, four- or eight-byte count.         *)
LongCount(n) == <<Base - n>> \o LittleEndian(2, 2 ^ (4 - n)) \o <<1, 3, 0>>

MCInputs ==
  {EncodeWitness(l) : l \in Lists}
    \cup {EncodeWitness(l) \o <<1>> : l \in Lists}
    \cup {EncodeWitness(<<<<>>, <<2>>, <<>>>>), EncodeWitness(<<<<>>, <<>>, <<>>, <<>>>>)}
    \cup UNION {Prefixes(EncodeWitness(l)) : l \in [1 .. 2 -> Contents]}
    \cup Corruptions(EncodeWitness(<<<<2>>, <<1, 1>>>>), Byte)
    \cup Corruptions(EncodeWitness(<<<<0, 1, 0, 1, 0>>>>), Byte)
    \cup {LongCount(n) : n \in 1 .. 3}
    \cup [1 .. 2 -> Byte]

MCHandCounts == {0, 1, 2, 4}

=============================================================================
