---------------------------- MODULE Instructions ----------------------------
(***************************************************************************)
(* Script::instructions of src/script.rs: the iterator over the opcodes    *)
(* and pushes of a script, and a loop that calls next, also after it has   *)
(* answered an error or None.  The script is a window of a longer buffer,  *)
(* as the scripts of a transaction are.                                    *)
(***************************************************************************)
EXTENDS ScriptType

CONSTANTS
  OpPushData1, OpPushData2, OpPushData4,      (* 0x4c, 0x4d, 0x4e          *)
  Inputs                                      (* the buffers.              *)

(* Everything below OpPushData1 pushes that many bytes.                    *)
ASSUME InstructionsAssumption ==
  /\ OpPushData1 \in Byte
  /\ OpPushData2 = OpPushData1 + 1 /\ OpPushData4 = OpPushData1 + 2
  /\ \A n \in Lengths : n < OpPushData1
  /\ \A op \in Opcodes : op > OpPushData4
  /\ Base4 <= UsizeMax + 1
  /\ Inputs \subseteq {d \in Seq(Byte) : Len(d) <= UsizeMax}

VARIABLES
  script,   (* the bytes of the script,                                    *)
  pos,      (* the offset in them where the next instruction begins,       *)
  errored,  (* and whether next has answered an error.                     *)
  item,     (* what next answered last.                                    *)
  yielded   (* history: the instructions it has answered.                  *)

vars == <<data, script, pos, errored, item, yielded>>

-----------------------------------------------------------------------------
(* next.                                                                   *)

Op(n) == [kind |-> "op", op |-> n]

PushBytes(s) == [kind |-> "push", bytes |-> s]

Error(e) == [kind |-> "error", err |-> e]

End == [kind |-> "end"]

NotYet == [kind |-> "not yet"]

IsPush(op) == op <= OpPushData4

(* Mutant: of a two-byte length only the first byte is stepped over.       *)
PrefixWidthShort(op) ==
  CASE op = OpPushData1 -> 1
    [] op = OpPushData2 -> 1
    [] op = OpPushData4 -> 4
    [] OTHER            -> 0

(* The bytes of the length that follows the opcode of a push.              *)
PrefixWidth(op) ==
  CASE op = OpPushData1 -> 1
    [] op = OpPushData2 -> 2
    [] op = OpPushData4 -> 4
    [] OTHER            -> 0

(* How many bytes are pushed, the length read at buffer offset p.  Every   *)
(* u32 fits usize: the crate does not compile for a smaller one.           *)
PushLen(op, p) ==
  CASE op = OpPushData1 -> At(p)
    [] op = OpPushData2 -> U16(p)
    [] op = OpPushData4 -> U32(p)
    [] OTHER            -> op

Yield(p, i) == pos' = p /\ item' = i /\ yielded' = Append(yielded, i) /\ UNCHANGED errored

(* Mutant: the first error is not remembered.                              *)
StopForgetting(p, n, avail) ==
  pos' = p /\ item' = Error(UnexpectedEof(n, avail)) /\ UNCHANGED <<errored, yielded>>

(* Mutant: nor is the script read any further.                             *)
StopInPlace(p, n, avail) ==
  item' = Error(UnexpectedEof(n, avail)) /\ UNCHANGED <<pos, errored, yielded>>

Stop(p, n, avail) ==
  /\ pos' = p
  /\ errored' = TRUE
  /\ item' = Error(UnexpectedEof(n, avail))
  /\ UNCHANGED yielded

(* Mutant: a length that ends the script is taken for one cut short.       *)
PushNeedsMore(op) ==
  LET p == pos + 1
      w == PrefixWidth(op)
      n == PushLen(op, script.lo + p)
      q == p + w
  IN  IF w > 0 /\ Size(script) - p <= w THEN Stop(p, w, Size(script) - p)
      ELSE IF n > Size(script) - q THEN Stop(q, n, Size(script) - q)
      ELSE Yield(q + n, PushBytes(Slice(script.lo + q, script.lo + q + n)))

(* Mutant: the bytes are taken whether or not the script has them.         *)
PushUnchecked(op) ==
  LET p == pos + 1
      w == PrefixWidth(op)
      n == PushLen(op, script.lo + p)
      q == p + w
  IN  IF Size(script) - p < w THEN Stop(p, w, Size(script) - p)
      ELSE Yield(q + n, PushBytes(Slice(script.lo + q, script.lo + q + n)))

Push(op) ==
  LET p == pos + 1
      w == PrefixWidth(op)
      n == PushLen(op, script.lo + p)
      q == p + w
  IN  IF Size(script) - p < w THEN Stop(p, w, Size(script) - p)
      ELSE IF n > Size(script) - q THEN Stop(q, n, Size(script) - q)
      ELSE Yield(q + n, PushBytes(Slice(script.lo + q, script.lo + q + n)))

-----------------------------------------------------------------------------

Init ==
  /\ data \in Inputs
  /\ \E hi \in 0 .. Len(data) : script \in {Slice(lo, hi) : lo \in 0 .. hi}
  /\ pos = 0
  /\ errored = FALSE
  /\ item = NotYet
  /\ yielded = <<>>

NextInstruction ==
  LET op == At(script.lo + pos) IN
  /\ ~ errored /\ pos < Size(script)
  /\ IF IsPush(op) THEN Push(op) ELSE Yield(pos + 1, Op(op))
  /\ UNCHANGED <<data, script>>

AtEnd ==
  /\ errored \/ pos >= Size(script)
  /\ item' = End
  /\ UNCHANGED <<data, script, pos, errored, yielded>>

Next == NextInstruction \/ AtEnd

(* A loop over an iterator calls next until it answers None.               *)
Spec == Init /\ [][Next]_vars /\ WF_vars(Next)

-----------------------------------------------------------------------------
(* Properties.                                                             *)

(* The type invariant.                                                     *)
TypeOK ==
  /\ DataOK
  /\ script \in [lo : Nat, hi : 0 .. Len(data)] /\ script.lo <= script.hi
  /\ pos \in 0 .. Size(script)
  /\ errored \in BOOLEAN
  /\ item.kind \in {"not yet", "op", "push", "error", "end"}
  /\ \A k \in 1 .. Len(yielded) : yielded[k].kind \in {"op", "push"}

(* Where the first k instructions end, as their receiver can tell: an      *)
(* opcode is one byte, and a push ends where its bytes do.                 *)
Ends ==
  LET end[k \in 0 .. Len(yielded)] ==
        IF k = 0 THEN script.lo
        ELSE IF yielded[k].kind = "push" THEN yielded[k].bytes.hi
        ELSE end[k - 1] + 1
  IN  end

LastEnd == Ends[Len(yielded)]

(* The bytes from p to s, in one of the four forms, say how long s is.     *)
Announces(p, s) ==
  LET op == At(p)
      n  == Size(s)
  IN  CASE s.lo - p = 1 -> op < OpPushData1 /\ op = n
        [] s.lo - p = 2 -> op = OpPushData1 /\ At(p + 1) = n
        [] s.lo - p = 3 -> op = OpPushData2 /\ U16(p + 1) = n
        [] s.lo - p = 5 -> op = OpPushData4 /\ U32(p + 1) = n
        [] OTHER        -> FALSE

(* The instructions handed out, written one after the other, are the       *)
(* script from its first byte: nothing between them is left out or used    *)
(* twice, and None without an error means that the script is used up       *)
(* (script.rs 181-260).                                                    *)
SpellsScript ==
  /\ \A k \in 1 .. Len(yielded) :
       LET p == Ends[k - 1]
           y == yielded[k]
       IN  IF y.kind = "op" THEN ~ IsPush(y.op) /\ At(p) = y.op
           ELSE Announces(p, y.bytes) /\ y.bytes.hi <= script.hi
  /\ ~ errored => script.lo + pos = LastEnd
  /\ item = End /\ ~ errored => LastEnd = script.hi

(* An error says that the instruction after those handed out is a push,    *)
(* and of what it needs next, the bytes of its length or those it pushes,  *)
(* the script has fewer: exactly as many as the error says                 *)
(* (script.rs 196-252).                                                    *)
ErrorMeansOverrun ==
  item.kind = "error" =>
    LET op   == At(LastEnd)
        w    == PrefixWidth(op)
        here == script.lo + pos
    IN  /\ LastEnd < script.hi /\ IsPush(op)
        /\ item.err.needed > item.err.available
        /\ item.err.available = script.hi - here
        /\ \/ here = LastEnd + 1 /\ item.err.needed = w
           \/ here = LastEnd + 1 + w /\ item.err.needed = PushLen(op, LastEnd + 1)

(* "After which it stops" (script.rs 159-160): after an error or None the  *)
(* answer is None, however often next is called.                           *)
StaysEnded ==
  [][item.kind \in {"error", "end"} => item' = End /\ UNCHANGED <<pos, yielded>>]_vars

(* A loop over the instructions of any script comes to its end.            *)
LoopEnds == <>(item = End)

-----------------------------------------------------------------------------
(* Classification against the instructions.                                *)

Shape(y) == IF y.kind = "op" THEN <<"op", y.op>> ELSE <<"push", Size(y.bytes)>>

(* What each type is, as the documentation of ScriptType lists it.         *)
Templates ==
  { <<"P2PKH", << <<"op", OpDup>>, <<"op", OpHash160>>, <<"push", Hash20>>,
                  <<"op", OpEqualVerify>>, <<"op", OpCheckSig>> >> >>,
    <<"P2SH", << <<"op", OpHash160>>, <<"push", Hash20>>, <<"op", OpEqual>> >> >>,
    <<"P2WPKH", << <<"push", 0>>, <<"push", Hash20>> >> >>,
    <<"P2WSH", << <<"push", 0>>, <<"push", Hash32>> >> >>,
    <<"P2TR", << <<"op", Op1>>, <<"push", Hash32>> >> >>,
    <<"P2PK", << <<"push", ShortKey>>, <<"op", OpCheckSig>> >> >>,
    <<"P2PK", << <<"push", LongKey>>, <<"op", OpCheckSig>> >> >> }

(* Each push is announced by its length alone.                             *)
Direct ==
  \A k \in 1 .. Len(yielded) :
    yielded[k].kind = "push" => yielded[k].bytes.lo = Ends[k - 1] + 1

(* classify looks at bytes and Instructions at opcodes, but they agree: a  *)
(* script has one of the standard types exactly if its instructions are    *)
(* those of the type, each push in its shortest form, and the payload is   *)
(* then the slice that the instruction pushes (script.rs 108-142).         *)
TypeIsTemplate ==
  item = End =>
    LET c      == Classify(script)
        shapes == [k \in 1 .. Len(yielded) |-> Shape(yielded[k])]
    IN  /\ \A t \in {t[1] : t \in Templates} :
             c.type = t <=> ~ errored /\ Direct /\ <<t, shapes>> \in Templates
        /\ c.type \notin {"OpReturn", "Unknown"} =>
             \E k \in 1 .. Len(yielded) : yielded[k] = PushBytes(c.payload)

=============================================================================
