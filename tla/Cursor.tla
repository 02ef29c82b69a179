------------------------------- MODULE Cursor -------------------------------
(***************************************************************************)
(* The zero-copy cursor of src/cursor.rs: a window of one immutable input  *)
(* buffer and a position in it.  Every parser of the crate is built from   *)
(* the operators below, as every parser of the source is built from the    *)
(* methods of Cursor.                                                      *)
(*                                                                         *)
(* A slice borrowed from the buffer is the pair of its end offsets, so the *)
(* model never copies bytes either.  A method that takes &mut self is an   *)
(* operator from a cursor to a result that carries the cursor as the       *)
(* method leaves it, on success and on error: what a failed call has       *)
(* already consumed is part of its meaning.                                *)
(***************************************************************************)
EXTENDS Integers, Sequences

CONSTANTS
  Base,      (* how many values a byte has (256 in the code).             *)
  UsizeMax   (* usize::MAX of the target.                                 *)

VARIABLE data  (* the input buffer; offset p of the source is data[p + 1]. *)

ASSUME CursorAssumption ==
  /\ Base \in Nat /\ Base >= 4
  /\ UsizeMax \in Nat

Byte == 0 .. Base - 1

(* A Rust slice is never longer than usize can count.                      *)
DataOK == data \in Seq(Byte) /\ Len(data) <= UsizeMax

-----------------------------------------------------------------------------
(* Slices and cursors.                                                     *)

Slice(lo, hi) == [lo |-> lo, hi |-> hi]

Offsets(s) == s.lo .. s.hi - 1

AllData == Slice(0, Len(data))

CursorNew(s) == [lo |-> s.lo, len |-> s.hi - s.lo, pos |-> 0]

MoveTo(c, p) == [lo |-> c.lo, len |-> c.len, pos |-> p]

Remaining(c) == IF c.pos <= c.len THEN c.len - c.pos ELSE 0

IsEmpty(c) == c.pos >= c.len

AsSlice(c) == Slice(c.lo + c.pos, c.lo + c.len)

-----------------------------------------------------------------------------
(* Results.  got is the set of buffer offsets the call read or borrowed:   *)
(* the accesses that the source makes with get_unchecked.                  *)

Result(ok, c, v, e, got) == [ok |-> ok, cur |-> c, val |-> v, err |-> e, got |-> got]

NoValue == [kind |-> "none"]
NoError == [kind |-> "none"]

Ok(c, v, got) == Result(TRUE, c, v, NoError, got)

Fail(c, e, got) == Result(FALSE, c, NoValue, e, got)

UnexpectedEof(n, a) == [kind |-> "UnexpectedEof", needed |-> n, available |-> a]

IntegerTooLarge(v) == [kind |-> "IntegerTooLarge", value |-> v]

OversizedData(n, m) == [kind |-> "OversizedData", size |-> n, max |-> m]

(* The ? operator: the rest of a method runs only on success, and what was *)
(* consumed before stays consumed.                                         *)
After(r, next) ==
  Result(next.ok, next.cur, next.val, next.err, r.got \cup next.got)

(* let x = r?; F(x)                                                        *)
AndThen(r, F(_)) == IF r.ok THEN After(r, F(r)) ELSE r

-----------------------------------------------------------------------------
(* Primitive reads.                                                        *)

None == -1

(* Mutant: the + of a release build in place of checked_add.               *)
WrappingAdd(a, b) == (a + b) % (UsizeMax + 1)

(* usize::checked_add: None on overflow.                                   *)
CheckedAdd(a, b) == IF a + b > UsizeMax THEN None ELSE a + b

(* Mutant: the guard looks at the position, not at where the read ends.    *)
ReadBytesUnguarded(c, n) ==
  LET end == CheckedAdd(c.pos, n) IN
  IF end = None \/ c.pos > c.len
  THEN Fail(c, UnexpectedEof(n, Remaining(c)), {})
  ELSE LET s == Slice(c.lo + c.pos, c.lo + end) IN
       Ok(MoveTo(c, end), s, Offsets(s))

(* Mutant: a short read reports the window's length as available.          *)
ReadBytesReportsLen(c, n) ==
  LET end == CheckedAdd(c.pos, n) IN
  IF end = None \/ end > c.len
  THEN Fail(c, UnexpectedEof(n, c.len), {})
  ELSE LET s == Slice(c.lo + c.pos, c.lo + end) IN
       Ok(MoveTo(c, end), s, Offsets(s))

(* Mutant: a short read takes what there is before it fails.               *)
ReadBytesDrains(c, n) ==
  LET end == CheckedAdd(c.pos, n) IN
  IF end = None \/ end > c.len
  THEN Fail(MoveTo(c, c.len), UnexpectedEof(n, Remaining(c)), {})
  ELSE LET s == Slice(c.lo + c.pos, c.lo + end) IN
       Ok(MoveTo(c, end), s, Offsets(s))

ReadBytes(c, n) ==
  LET end == CheckedAdd(c.pos, n) IN
  IF end = None \/ end > c.len
  THEN Fail(c, UnexpectedEof(n, Remaining(c)), {})
  ELSE LET s == Slice(c.lo + c.pos, c.lo + end) IN
       Ok(MoveTo(c, end), s, Offsets(s))

At(p) == data[p + 1]

ReadU8(c) ==
  IF c.pos >= c.len
  THEN Fail(c, UnexpectedEof(1, 0), {})
  ELSE Ok(MoveTo(c, c.pos + 1), At(c.lo + c.pos), {c.lo + c.pos})

(* from_le_bytes of the 2, 4 or 8 bytes at offset p.                       *)
Base2 == Base * Base
Base4 == Base2 * Base2
U16(p) == At(p) + Base * At(p + 1)
U32(p) == U16(p) + Base2 * U16(p + 2)
U64(p) == U32(p) + Base4 * U32(p + 4)

(* Two's complement of a value of m = 2^width values.                      *)
Signed(u, m) == IF 2 * u < m THEN u ELSE u - m
I32(p) == Signed(U32(p), Base4)
I64(p) == Signed(U64(p), Base4 * Base4)

(* The bytes read as r, as the integer v.                                  *)
ReadInt(r, v) == IF r.ok THEN Ok(r.cur, v, r.got) ELSE r

ReadU16(c) == LET r == ReadBytes(c, 2) IN ReadInt(r, U16(r.val.lo))
ReadU32(c) == LET r == ReadBytes(c, 4) IN ReadInt(r, U32(r.val.lo))
ReadI32(c) == LET r == ReadBytes(c, 4) IN ReadInt(r, I32(r.val.lo))
ReadU64(c) == LET r == ReadBytes(c, 8) IN ReadInt(r, U64(r.val.lo))
ReadI64(c) == LET r == ReadBytes(c, 8) IN ReadInt(r, I64(r.val.lo))

ReadArray(c, n) == ReadBytes(c, n)

Skip(c, n) == ReadBytes(c, n)

(* The value of split is the sub-cursor over the n bytes it stepped over.  *)
Split(c, n) ==
  LET r == ReadBytes(c, n) IN
  IF r.ok THEN Ok(r.cur, CursorNew(r.val), {}) ELSE r

-----------------------------------------------------------------------------
(* Composite reads.                                                        *)

(* The three highest byte values announce a 2-, 4- or 8-byte integer; any  *)
(* encoding of a value is accepted, the shortest or not.                   *)
VarintFrom(c, first) ==
  CASE first = Base - 3 -> ReadU16(c)
    [] first = Base - 2 -> ReadU32(c)
    [] first = Base - 1 -> ReadU64(c)
    [] OTHER            -> Ok(c, first, {})

ReadVarint(c) ==
  LET first == ReadU8(c) IN
  IF first.ok THEN After(first, VarintFrom(first.cur, first.val)) ELSE first

(* The count just read as a usize.                                         *)
ToUsize(r) ==
  IF r.ok /\ r.val > UsizeMax
  THEN Fail(r.cur, IntegerTooLarge(r.val), r.got)
  ELSE r

(* The count just read against the limit max.                              *)
Capped(r, max) ==
  IF r.ok /\ r.val > max
  THEN Fail(r.cur, OversizedData(r.val, max), r.got)
  ELSE r

ReadVarBytes(c, max) ==
  LET len == Capped(ToUsize(ReadVarint(c)), max) IN
  IF len.ok THEN After(len, ReadBytes(len.cur, len.val)) ELSE len

=============================================================================
