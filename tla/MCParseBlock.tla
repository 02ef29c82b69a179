---------------------------- MODULE MCParseBlock ----------------------------
(***************************************************************************)
(* The example on blocks of up to two transactions: as raw files, in .dat  *)
(* files of the three networks, cut short, with bytes replaced and with    *)
(* bytes behind them, under every kind of flag.                            *)
(***************************************************************************)
EXTENDS ParseBlock, Samples

Header == [i \in 1 .. 16 + 2 * HashLen |-> i % 5]

ToKey == <<0, Hash20, 7>>

ToNobody == <<OpReturn, 1, 2>>

Free == <<OpDup>>

Reward == Legacy(<<In(<<0>>, Base ^ 4 - 1, <<3>>)>>, <<Out(70, ToKey), Out(0, ToNobody)>>)

Spend == Segwit(<<In(<<2>>, 1, <<>>), In(<<0>>, Base ^ 4 - 1, <<>>)>>, <<Out(5, Free)>>, <<<<>>, <<<<1>>>>>>)

(* Two of its kind overflow a u64.                                         *)
Rich == Legacy(<<In(<<1>>, 0, <<>>)>>, <<Out((Base ^ 8 \div 4) * 3, ToNobody)>>)

Blocks ==
  { <<>>, <<Reward>>, <<Spend>>, <<Reward, Spend>>, <<Spend, Reward>>,
    <<Reward, Reward>>, <<Reward, Rich>>, <<Rich, Rich>> }

Encoded == [b \in Blocks |-> EncodeBlock(Header, b)]

(* Main, test and signet.                                                  *)
MCMagics == << <<9, 10, 11, 9>>, <<1, 5, 9, 7>>, <<10, 3, 8, 4>> >>

EncodeEntry(n, bytes) == MCMagics[n] \o LittleEndian(Len(bytes), 4) \o bytes

MCSynthetic == EncodeBlock(Header, <<Legacy(Reward.inputs, <<Out(625, ToKey)>>)>>)

Small == Encoded[<<Spend, Reward>>]

MCInputs ==
  {Encoded[b] : b \in Blocks}
    \cup {EncodeEntry(n, Encoded[b]) : n \in 1 .. 3, b \in Blocks}
    \cup {EncodeEntry(1, Encoded[<<Reward>>]) \o EncodeEntry(1, Encoded[<<Rich, Rich>>])}
    \cup {Small \o <<0>>, EncodeEntry(1, Small \o <<0>>), <<>>, MCSynthetic}
    \cup Prefixes(Small) \cup {EncodeEntry(1, p) : p \in Prefixes(Small)}
    \cup Prefixes(EncodeEntry(1, <<1>>))
    \cup Corruptions(Small, {1, Base - 1})

Answer(ok, path, opts) == [ok |-> ok, path |-> path, opts |-> opts]

Unset == [some |-> FALSE]

Number(n) == [some |-> TRUE, val |-> n]

Default ==
  [summary |-> FALSE, no_outputs |-> FALSE, no_opreturn |-> FALSE,
   limit_tx |-> Unset, only_tx |-> Unset, help |-> FALSE]

Options ==
  { Default,
    [Default EXCEPT !.help = TRUE],
    [Default EXCEPT !.summary = TRUE, !.limit_tx = Number(2)],
    [Default EXCEPT !.no_outputs = TRUE],
    [Default EXCEPT !.no_opreturn = TRUE],
    [Default EXCEPT !.limit_tx = Number(1)],
    [Default EXCEPT !.only_tx = Number(1), !.limit_tx = Number(1)],
    [Default EXCEPT !.only_tx = Number(2), !.no_opreturn = TRUE] }

MCParsed ==
  {Answer(TRUE, TRUE, o) : o \in Options} \cup
  {Answer(TRUE, FALSE, Default), Answer(FALSE, TRUE, Default)}

IsReward(t) == t.inputs[1].vout = Base ^ 4 - 1

BlockSum(b) ==
  Min({U64Max, SumFunction([k \in 1 .. Len(b) |->
                              FoldSeq(LAMBDA o, n : o.value + n, 0, b[k].outputs)])})

(* For a raw block, and for the first block of a mainnet .dat file, main   *)
(* returns Ok if and only if exactly one transaction is a coinbase; it     *)
(* then ends with the sum of the outputs that the block was made with.     *)
(* Without a path the block built in is taken, and passes                  *)
(* (parse_block.rs 105-263, 266-274).                                      *)
ReportsTheBlock ==
  (stage = "exit" /\ exit # Io /\ call # "unborn") =>
    /\ ~ args.path => exit = NoError /\ Last(printed) = Line("total", 625)
    /\ \A b \in Blocks :
         args.path /\ (IsPrefix(EncodeEntry(1, Encoded[b]), file) \/ file = Encoded[b]) =>
           /\ exit = NoError <=> Cardinality({k \in 1 .. Len(b) : IsReward(b[k])}) = 1
           /\ exit = NoError => Last(printed) = Line("total", BlockSum(b))

(* As README.md 205-206 has it: the example unwraps the first block from a *)
(* .dat file, so what it reads is that block, whichever network's magic    *)
(* the file has of the three that are tried (parse_block.rs 267).          *)
DatFilesAreUnwrapped ==
  \A b \in Blocks, n \in 1 .. 3 :
    (stage = "reading" /\ args.path /\ file = EncodeEntry(n, Encoded[b])) => data = Encoded[b]

=============================================================================
