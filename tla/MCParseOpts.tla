----------------------------- MODULE MCParseOpts -----------------------------
(***************************************************************************)
(* ParseOpts on every list of up to four arguments.                        *)
(***************************************************************************)
EXTENDS ParseOpts

MCNumerals == [t \in {"1", "2"} |-> IF t = "1" THEN 1 ELSE 2]

MCUnknownFlags == {"--verbose"}

Arguments == Flags \cup DOMAIN MCNumerals \cup {"blk00000.dat"}

MCLines == UNION {[1 .. n -> Arguments] : n \in 0 .. 4}

=============================================================================
