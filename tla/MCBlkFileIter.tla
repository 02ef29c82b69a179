---------------------------- MODULE MCBlkFileIter ----------------------------
(***************************************************************************)
(* BlkFileIter on files of up to three entries: whole, cut short, with     *)
(* bytes replaced, with bytes between entries or behind them, with a size  *)
(* above the limit, and with an entry inside the block of another.         *)
(***************************************************************************)
EXTENDS FileCoding, Samples

MCMagic == <<1, 3, 1, 4>>

Nested == EncodeEntry(<<2>>)

Bodies == {<<>>, <<2>>, MCMagic, Nested}

MCFiles == UNION {[1 .. n -> Bodies] : n \in 0 .. 3}

(* A block of 13 bytes, over the limit, that begins with an entry.         *)
Oversized == EncodeEntry(Nested \o MCMagic)

MCInputs ==
  {EncodeFile(f) : f \in MCFiles}
    \cup UNION {Prefixes(EncodeFile(<<b, <<2>>>>)) : b \in Bodies}
    \cup UNION {Corruptions(EncodeFile(<<b, <<2>>>>), {0, 1, 3, Base - 1}) : b \in Bodies}
    \cup {[i \in 1 .. n |-> 0] \o EncodeFile(f) : n \in 1 .. 5, f \in [1 .. 2 -> Bodies]}
    \cup {EncodeFile(<<b>>) \o Oversized \o EncodeFile(<<b>>) : b \in Bodies}

=============================================================================
