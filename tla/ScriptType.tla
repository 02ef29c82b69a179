----------------------------- MODULE ScriptType -----------------------------
(***************************************************************************)
(* The classification of a locking script, ScriptType::classify of         *)
(* src/script.rs: a match on the first and last bytes of the script and on *)
(* the number of bytes between them, which become the payload.             *)
(***************************************************************************)
EXTENDS Cursor, FiniteSetsExt

CONSTANTS
  Op1, OpReturn, OpDup, OpEqual,              (* 0x51, 0x6a, 0x76, 0x87    *)
  OpEqualVerify, OpHash160, OpCheckSig,       (* 0x88, 0xa9, 0xac          *)
  Hash20, Hash32,                             (* 0x14, 0x20                *)
  ShortKey, LongKey                           (* 0x21, 0x41                *)

(* Bytes that a script pushes follow an opcode that is their number.       *)
Lengths == {Hash20, Hash32, ShortKey, LongKey}

Opcodes == {Op1, OpReturn, OpDup, OpEqual, OpEqualVerify, OpHash160, OpCheckSig}

ASSUME ScriptAssumption ==
  /\ Lengths \cup Opcodes \subseteq Byte
  /\ Cardinality(Lengths) = 4 /\ Cardinality(Opcodes) = 7
  /\ \A n \in Lengths, op \in Opcodes : 0 < n /\ n < op

Size(s) == s.hi - s.lo

Pattern(t, before, n, after) ==
  [type |-> t, before |-> before, body |-> n, after |-> after]

(* The arms of the match.  Op 0 is the byte zero.                          *)
Patterns ==
  << Pattern("P2PKH", <<OpDup, OpHash160, Hash20>>, Hash20, <<OpEqualVerify, OpCheckSig>>),
     Pattern("P2SH", <<OpHash160, Hash20>>, Hash20, <<OpEqual>>),
     Pattern("P2WPKH", <<0, Hash20>>, Hash20, <<>>),
     Pattern("P2WSH", <<0, Hash32>>, Hash32, <<>>),
     Pattern("P2TR", <<Op1, Hash32>>, Hash32, <<>>),
     Pattern("P2PK", <<ShortKey>>, ShortKey, <<OpCheckSig>>),
     Pattern("P2PK", <<LongKey>>, LongKey, <<OpCheckSig>>) >>

Fixed(p) == Len(p.before) + Len(p.after)

Framed(s, p) ==
  /\ \A i \in 1 .. Len(p.before) : At(s.lo + i - 1) = p.before[i]
  /\ \A i \in 1 .. Len(p.after) : At(s.hi - Len(p.after) + i - 1) = p.after[i]

(* Mutant: the length of the body is not compared.                         *)
MatchesAnyBody(s, p) == Size(s) >= Fixed(p) /\ Framed(s, p)

Matches(s, p) == Size(s) = Fixed(p) + p.body /\ Framed(s, p)

Body(s, p) == Slice(s.lo + Len(p.before), s.hi - Len(p.after))

(* The first arm that matches; nothing ever becomes a Multisig.            *)
Classify(s) ==
  LET arms == {k \in 1 .. Len(Patterns) : Matches(s, Patterns[k])}
      arm  == Patterns[Min(arms)]
  IN  IF arms # {} THEN [type |-> arm.type, payload |-> Body(s, arm)]
      ELSE IF Size(s) > 0 /\ At(s.lo) = OpReturn
           THEN [type |-> "OpReturn", payload |-> Slice(s.lo + 1, s.hi)]
      ELSE [type |-> "Unknown", payload |-> Slice(s.lo, s.lo)]

=============================================================================
