--------------------------- MODULE ParsingLemmas ---------------------------
(***************************************************************************)
(* What the methods of Cursor promise, proved for every buffer, every base *)
(* and every usize, and then what the steps of parse_with do, for every    *)
(* limit and every answer of the callbacks.  The proofs about the modules  *)
(* that read through a cursor or drive a parser cite these lemmas and      *)
(* never look inside a read.                                               *)
(*                                                                         *)
(* The second half is about bytes that the encoder has written: that each  *)
(* method gives back what was written, if all of it stands in the window,  *)
(* and fails for lack of input otherwise; and so step by step for a call   *)
(* of parse_with on an encoded transaction, whole or cut short.            *)
(***************************************************************************)
EXTENDS TxEncoding, TLAPS, WellFoundedInduction

-----------------------------------------------------------------------------
(* The methods of Cursor.                                                  *)

(* A cursor whose window lies in the buffer and position in its window.    *)
Valid(c) ==
  /\ c \in [lo : Nat, len : Nat, pos : Nat]
  /\ c.pos <= c.len
  /\ c.lo + c.len <= Len(data)

(* r moved c forward within its window, and read exactly the bytes that it *)
(* moved over.                                                             *)
Forward(c, r) ==
  /\ r.ok \in BOOLEAN
  /\ r.cur \in [lo : Nat, len : Nat, pos : Nat]
  /\ r.cur.lo = c.lo /\ r.cur.len = c.len
  /\ c.pos <= r.cur.pos /\ r.cur.pos <= c.len
  /\ r.got = c.lo + c.pos .. (c.lo + r.cur.pos) - 1

(* If r failed it took at most k bytes, and if it ran out of input it says *)
(* truly how much was left.                                                *)
FailsWithin(c, r, k) ==
  ~ r.ok =>
    /\ r.cur.pos - c.pos <= k
    /\ r.err.kind = "UnexpectedEof" =>
         /\ r.err.available = Remaining(r.cur)
         /\ r.err.needed > r.err.available

Reads(c, r, k) == Forward(c, r) /\ FailsWithin(c, r, k)

-----------------------------------------------------------------------------

(* A read of n bytes succeeds exactly when n bytes are left, then moves    *)
(* over just those; otherwise it leaves the cursor alone.                  *)
LEMMA ReadBytesLemma ==
  ASSUME DataOK, NEW c, Valid(c), NEW n \in Nat
  PROVE  LET r == ReadBytes(c, n) IN
         /\ Reads(c, r, 0)
         /\ r.ok <=> n <= c.len - c.pos
         /\ r.ok => r.cur.pos = c.pos + n /\ r.val = Slice(c.lo + c.pos, c.lo + c.pos + n)
  <1> DEFINE end == CheckedAdd(c.pos, n)
  <1>0. c.pos \in Nat /\ c.len \in Nat /\ c.lo \in Nat /\ c.pos <= c.len
        /\ c.len <= UsizeMax /\ Len(data) \in Nat /\ UsizeMax \in Nat
    BY CursorAssumption DEF Valid, DataOK
  <1>1. (end = None \/ end > c.len) <=> n > c.len - c.pos
    BY <1>0 DEF CheckedAdd, None
  <1>2. CASE n > c.len - c.pos
    <2>1. ReadBytes(c, n) = Fail(c, UnexpectedEof(n, Remaining(c)), {})
      BY <1>1, <1>2 DEF ReadBytes
    <2>2. QED
      BY <1>0, <1>2, <2>1 DEF Valid, Reads, Forward, FailsWithin, Fail, Result, UnexpectedEof, Remaining
  <1>3. CASE n <= c.len - c.pos
    <2>1. end = c.pos + n
      BY <1>0, <1>3 DEF CheckedAdd
    <2>2. ReadBytes(c, n) = Ok(MoveTo(c, c.pos + n),
                               Slice(c.lo + c.pos, c.lo + (c.pos + n)),
                               Offsets(Slice(c.lo + c.pos, c.lo + (c.pos + n))))
      BY <1>1, <1>3, <2>1, <1>0 DEF ReadBytes
    <2>3. QED
      BY <1>0, <1>3, <2>2 DEF Valid, Reads, Forward, FailsWithin, Ok, Result, MoveTo, Slice, Offsets
  <1>4. QED
    BY <1>0, <1>2, <1>3

(* The fields of a Valid cursor, as arithmetic.                            *)
LEMMA ValidFields ==
  ASSUME DataOK, NEW c, Valid(c)
  PROVE  /\ c.lo \in Nat /\ c.len \in Nat /\ c.pos \in Nat /\ c.pos <= c.len
         /\ c.lo + c.len <= Len(data) /\ Len(data) \in Nat
         /\ c.len <= UsizeMax /\ UsizeMax \in Nat
  BY CursorAssumption DEF Valid, DataOK

(* The byte under an offset of the buffer is one.                          *)
LEMMA ByteInWindow ==
  ASSUME DataOK, NEW p \in 0 .. Len(data) - 1
  PROVE  At(p) \in 0 .. Base - 1 /\ Base \in Nat
  BY CursorAssumption DEF DataOK, At, Byte

(* A read of one byte, in the same terms.                                  *)
LEMMA ReadU8Lemma ==
  ASSUME DataOK, NEW c, Valid(c)
  PROVE  LET r == ReadU8(c) IN
         /\ Reads(c, r, 0)
         /\ r.ok <=> c.pos < c.len
         /\ r.ok => r.cur.pos = c.pos + 1 /\ r.val \in 0 .. Base - 1
  <1>0. c.lo \in Nat /\ c.len \in Nat /\ c.pos \in Nat /\ c.pos <= c.len
        /\ c.lo + c.len <= Len(data) /\ Len(data) \in Nat
    BY ValidFields
  <1>1. CASE c.pos >= c.len
    BY <1>0, <1>1
    DEF ReadU8, Fail, Result, UnexpectedEof, Reads, Forward, FailsWithin, Valid, Remaining
  <1>2. CASE c.pos < c.len
    <2>1. At(c.lo + c.pos) \in 0 .. Base - 1
      BY <1>0, <1>2, ByteInWindow
    <2>2. ReadU8(c) = Ok(MoveTo(c, c.pos + 1), At(c.lo + c.pos), {c.lo + c.pos})
      BY <1>0, <1>2 DEF ReadU8
    <2>3. {c.lo + c.pos} = c.lo + c.pos .. (c.lo + (c.pos + 1)) - 1
      BY <1>0
    <2>4. QED
      BY <1>0, <1>2, <2>1, <2>2, <2>3 DEF Ok, Result, MoveTo, Reads, Forward, FailsWithin
  <1>3. QED
    BY <1>0, <1>1, <1>2

-----------------------------------------------------------------------------
(* The integers.  An unsigned read delivers a natural number.              *)

(* The powers of Base that the integers are made of.                       *)
LEMMA BaseType == Base \in Nat /\ Base2 \in Nat /\ Base4 \in Nat
  <1>1. Base \in Nat
    BY CursorAssumption
  <1>2. Base2 \in Nat
    BY <1>1 DEF Base2
  <1>3. QED
    BY <1>1, <1>2 DEF Base4

(* Two bytes make a number.                                                *)
LEMMA U16Type ==
  ASSUME DataOK, NEW p \in Nat, p + 2 <= Len(data)
  PROVE  U16(p) \in Nat
  <1>1. Len(data) \in Nat
    BY DEF DataOK
  <1>2. At(p) \in Nat /\ At(p + 1) \in Nat
    BY <1>1, ByteInWindow
  <1>3. QED
    BY <1>2, BaseType DEF U16

(* Four bytes make a number.                                               *)
LEMMA U32Type ==
  ASSUME DataOK, NEW p \in Nat, p + 4 <= Len(data)
  PROVE  U32(p) \in Nat
  <1>1. Len(data) \in Nat
    BY DEF DataOK
  <1>2. U16(p) \in Nat /\ U16(p + 2) \in Nat
    BY <1>1, U16Type
  <1>3. QED
    BY <1>2, BaseType DEF U32

(* Eight bytes make a number.                                              *)
LEMMA U64Type ==
  ASSUME DataOK, NEW p \in Nat, p + 8 <= Len(data)
  PROVE  U64(p) \in Nat
  <1>1. Len(data) \in Nat
    BY DEF DataOK
  <1>2. U32(p) \in Nat /\ U32(p + 4) \in Nat
    BY <1>1, U32Type
  <1>3. QED
    BY <1>2, BaseType DEF U64

(* An integer read moves over n bytes or fails in place.                   *)
IntRead(c, r, n) ==
  /\ Reads(c, r, 0)
  /\ r.ok <=> n <= c.len - c.pos
  /\ r.ok => r.cur.pos = c.pos + n

(* An integer read is a read of its bytes.                                 *)
LEMMA IntReadLemma ==
  ASSUME DataOK, NEW c, Valid(c), NEW n \in Nat, NEW v,
         NEW r, r = IF ReadBytes(c, n).ok
                    THEN Ok(ReadBytes(c, n).cur, v, ReadBytes(c, n).got)
                    ELSE ReadBytes(c, n)
  PROVE  IntRead(c, r, n) /\ (r.ok => r.val = v)
  <1> DEFINE b == ReadBytes(c, n)
  <1>0. /\ Forward(c, b) /\ FailsWithin(c, b, 0)
        /\ b.ok <=> n <= c.len - c.pos
        /\ b.ok => b.cur.pos = c.pos + n
    BY ReadBytesLemma DEF Reads
  <1> HIDE DEF b
  <1>1. CASE b.ok
    <2>1. r = Ok(b.cur, v, b.got)
      BY <1>1 DEF b
    <2>2. r.ok /\ r.cur = b.cur /\ r.val = v /\ r.got = b.got
      BY <2>1 DEF Ok, Result
    <2>3. Forward(c, r) /\ FailsWithin(c, r, 0)
      BY <1>0, <1>1, <2>2 DEF Forward, FailsWithin
    <2>4. QED
      BY <1>0, <1>1, <2>2, <2>3 DEF IntRead, Reads
  <1>2. CASE ~ b.ok
    <2>1. r = b
      BY <1>2 DEF b
    <2>2. QED
      BY <1>0, <1>2, <2>1 DEF IntRead, Reads
  <1>3. QED
    BY <1>1, <1>2

(* The unsigned reads: their lengths, and that their values are numbers.   *)
LEMMA UnsignedLemma ==
  ASSUME DataOK, NEW c, Valid(c)
  PROVE  /\ IntRead(c, ReadU16(c), 2) /\ (ReadU16(c).ok => ReadU16(c).val \in Nat)
         /\ IntRead(c, ReadU32(c), 4) /\ (ReadU32(c).ok => ReadU32(c).val \in Nat)
         /\ IntRead(c, ReadU64(c), 8) /\ (ReadU64(c).ok => ReadU64(c).val \in Nat)
  <1>0. c.lo \in Nat /\ c.len \in Nat /\ c.pos \in Nat /\ c.pos <= c.len
        /\ c.lo + c.len <= Len(data) /\ Len(data) \in Nat
    BY ValidFields
  <1>1. IntRead(c, ReadU16(c), 2) /\ (ReadU16(c).ok => ReadU16(c).val \in Nat)
    <2>1. IntRead(c, ReadU16(c), 2) /\ (ReadU16(c).ok => ReadU16(c).val = U16(ReadBytes(c, 2).val.lo))
      BY IntReadLemma DEF ReadU16, ReadInt
    <2>2. ASSUME ReadU16(c).ok
          PROVE  ReadBytes(c, 2).val.lo = c.lo + c.pos /\ c.lo + c.pos + 2 <= Len(data)
      <3>1. 2 <= c.len - c.pos
        BY <2>1, <2>2 DEF IntRead
      <3>2. ReadBytes(c, 2).val = Slice(c.lo + c.pos, c.lo + c.pos + 2)
        BY <3>1, ReadBytesLemma
      <3>3. QED
        BY <1>0, <3>1, <3>2 DEF Slice
    <2>3. QED
      BY <1>0, <2>1, <2>2, U16Type
  <1>2. IntRead(c, ReadU32(c), 4) /\ (ReadU32(c).ok => ReadU32(c).val \in Nat)
    <2>1. IntRead(c, ReadU32(c), 4) /\ (ReadU32(c).ok => ReadU32(c).val = U32(ReadBytes(c, 4).val.lo))
      BY IntReadLemma DEF ReadU32, ReadInt
    <2>2. ASSUME ReadU32(c).ok
          PROVE  ReadBytes(c, 4).val.lo = c.lo + c.pos /\ c.lo + c.pos + 4 <= Len(data)
      <3>1. 4 <= c.len - c.pos
        BY <2>1, <2>2 DEF IntRead
      <3>2. ReadBytes(c, 4).val = Slice(c.lo + c.pos, c.lo + c.pos + 4)
        BY <3>1, ReadBytesLemma
      <3>3. QED
        BY <1>0, <3>1, <3>2 DEF Slice
    <2>3. QED
      BY <1>0, <2>1, <2>2, U32Type
  <1>3. IntRead(c, ReadU64(c), 8) /\ (ReadU64(c).ok => ReadU64(c).val \in Nat)
    <2>1. IntRead(c, ReadU64(c), 8) /\ (ReadU64(c).ok => ReadU64(c).val = U64(ReadBytes(c, 8).val.lo))
      BY IntReadLemma DEF ReadU64, ReadInt
    <2>2. ASSUME ReadU64(c).ok
          PROVE  ReadBytes(c, 8).val.lo = c.lo + c.pos /\ c.lo + c.pos + 8 <= Len(data)
      <3>1. 8 <= c.len - c.pos
        BY <2>1, <2>2 DEF IntRead
      <3>2. ReadBytes(c, 8).val = Slice(c.lo + c.pos, c.lo + c.pos + 8)
        BY <3>1, ReadBytesLemma
      <3>3. QED
        BY <1>0, <3>1, <3>2 DEF Slice
    <2>3. QED
      BY <1>0, <2>1, <2>2, U64Type
  <1>4. QED
    BY <1>1, <1>2, <1>3

(* The signed reads: their lengths.                                        *)
LEMMA SignedLemma ==
  ASSUME DataOK, NEW c, Valid(c)
  PROVE  IntRead(c, ReadI32(c), 4) /\ IntRead(c, ReadI64(c), 8)
  <1>1. IntRead(c, ReadI32(c), 4)
    BY IntReadLemma DEF ReadI32, ReadInt
  <1>2. IntRead(c, ReadI64(c), 8)
    BY IntReadLemma DEF ReadI64, ReadInt
  <1>3. QED
    BY <1>1, <1>2

-----------------------------------------------------------------------------
(* Composite reads.                                                        *)

(* Two adjacent runs of offsets are one run.                               *)
LEMMA AdjacentIntervals ==
  ASSUME NEW x \in Int, NEW y \in Int, NEW z \in Int, x <= y, y <= z
  PROVE  /\ (x .. y - 1) \cup (y .. z - 1) = x .. z - 1
         /\ (x .. y - 1) \cap (y .. z - 1) = {}
  OBVIOUS

(* A method built with the ? operator: what both parts read, in sequence.  *)
LEMMA AfterLemma ==
  ASSUME DataOK, NEW c, Valid(c), NEW k \in Nat, NEW m \in Nat,
         NEW r, Reads(c, r, 0), r.ok, r.cur.pos <= c.pos + k,
         NEW s, Reads(r.cur, s, m)
  PROVE  /\ Valid(r.cur)
         /\ Reads(c, After(r, s), k + m)
         /\ After(r, s).ok = s.ok /\ After(r, s).val = s.val
         /\ After(r, s).cur = s.cur
  <1>0. c.lo \in Nat /\ c.len \in Nat /\ c.pos \in Nat /\ c.pos <= c.len
        /\ c.lo + c.len <= Len(data) /\ Len(data) \in Nat
    BY ValidFields
  <1>1. /\ r.cur \in [lo : Nat, len : Nat, pos : Nat]
        /\ r.cur.lo = c.lo /\ r.cur.len = c.len
        /\ c.pos <= r.cur.pos /\ r.cur.pos <= c.len
        /\ r.got = c.lo + c.pos .. (c.lo + r.cur.pos) - 1
    BY DEF Reads, Forward
  <1>2. Valid(r.cur) /\ r.cur.lo = c.lo /\ r.cur.len = c.len
    BY <1>0, <1>1 DEF Valid
  <1>3. /\ s.ok \in BOOLEAN
        /\ s.cur \in [lo : Nat, len : Nat, pos : Nat]
        /\ s.cur.lo = c.lo /\ s.cur.len = c.len
        /\ r.cur.pos <= s.cur.pos /\ s.cur.pos <= c.len
        /\ s.got = c.lo + r.cur.pos .. (c.lo + s.cur.pos) - 1
    BY <1>2 DEF Reads, Forward
  <1> DEFINE rp == r.cur.pos
             sp == s.cur.pos
             a  == After(r, s)
  <1>4. /\ rp \in Nat /\ sp \in Nat
        /\ c.pos <= rp /\ rp <= sp /\ sp <= c.len /\ rp <= c.pos + k
    BY <1>1, <1>3
  <1>5. r.got = c.lo + c.pos .. (c.lo + rp) - 1 /\ s.got = c.lo + rp .. (c.lo + sp) - 1
    BY <1>1, <1>3
  <1>6. /\ a.ok = s.ok /\ a.cur = s.cur /\ a.val = s.val
        /\ a.err = s.err /\ a.got = r.got \cup s.got
    BY Zenon DEF After, Result
  <1>7. a.cur.pos = sp
    BY <1>6
  <1> HIDE DEF rp, sp, a
  <1>8. a.got = c.lo + c.pos .. (c.lo + sp) - 1
    <2>1. (c.lo + c.pos .. (c.lo + rp) - 1) \cup (c.lo + rp .. (c.lo + sp) - 1)
            = c.lo + c.pos .. (c.lo + sp) - 1
      <3>1. /\ c.lo + c.pos \in Int /\ c.lo + rp \in Int /\ c.lo + sp \in Int
            /\ c.lo + c.pos <= c.lo + rp /\ c.lo + rp <= c.lo + sp
        BY SMTT(60), <1>0, <1>4
      <3>2. QED
        BY <3>1, AdjacentIntervals
    <2>2. QED
      BY <1>5, <1>6, <2>1
  <1>9. Forward(c, a)
    <2>1. c.pos <= sp
      BY <1>0, <1>4
    <2>2. QED
      BY <1>3, <1>4, <1>6, <1>7, <1>8, <2>1 DEF Forward
  <1>10. FailsWithin(c, a, k + m)
    <2>1. ASSUME ~ s.ok
          PROVE  /\ sp - rp <= m
                 /\ s.err.kind = "UnexpectedEof" =>
                      /\ s.err.available = Remaining(s.cur)
                      /\ s.err.needed > s.err.available
      BY <2>1 DEF Reads, FailsWithin, rp, sp
    <2>2. sp - rp <= m => sp - c.pos <= k + m
      BY <1>0, <1>4
    <2>3. QED
      BY <1>6, <1>7, <2>1, <2>2 DEF FailsWithin
  <1>11. QED
    BY <1>2, <1>6, <1>9, <1>10 DEF a, Reads

(* What follows the first byte of a varint: a number, in at most 8 bytes.  *)
LEMMA VarintFromLemma ==
  ASSUME DataOK, NEW c, Valid(c), NEW b \in 0 .. Base - 1
  PROVE  LET r == VarintFrom(c, b) IN
         /\ Reads(c, r, 0)
         /\ r.ok => r.cur.pos <= c.pos + 8 /\ r.val \in Nat
  <1>0. c.lo \in Nat /\ c.len \in Nat /\ c.pos \in Nat /\ c.pos <= c.len
        /\ Base \in Nat
    BY ValidFields, BaseType
  <1>1. CASE b = Base - 3
    <2>1. VarintFrom(c, b) = ReadU16(c)
      BY <1>0, <1>1 DEF VarintFrom
    <2>2. QED
      BY <1>0, <2>1, UnsignedLemma DEF IntRead
  <1>2. CASE b = Base - 2
    <2>1. VarintFrom(c, b) = ReadU32(c)
      BY <1>0, <1>2 DEF VarintFrom
    <2>2. QED
      BY <1>0, <2>1, UnsignedLemma DEF IntRead
  <1>3. CASE b = Base - 1
    <2>1. VarintFrom(c, b) = ReadU64(c)
      BY <1>0, <1>3 DEF VarintFrom
    <2>2. QED
      BY <1>0, <2>1, UnsignedLemma DEF IntRead
  <1>4. CASE b # Base - 3 /\ b # Base - 2 /\ b # Base - 1
    <2>1. VarintFrom(c, b) = Ok(c, b, {})
      BY <1>4 DEF VarintFrom
    <2>2. {} = c.lo + c.pos .. (c.lo + c.pos) - 1
      BY <1>0
    <2>3. /\ Ok(c, b, {}).ok = TRUE /\ Ok(c, b, {}).cur = c /\ Ok(c, b, {}).val = b
          /\ Ok(c, b, {}).got = {}
      BY DEF Ok, Result
    <2>4. c \in [lo : Nat, len : Nat, pos : Nat]
      BY DEF Valid
    <2> DEFINE o == Ok(c, b, {})
    <2> HIDE DEF o
    <2>5. Forward(c, o) /\ FailsWithin(c, o, 0)
      <3>1. o.ok = TRUE /\ o.cur = c /\ o.got = {}
        BY <2>3 DEF o
      <3>2. FailsWithin(c, o, 0)
        BY <3>1 DEF FailsWithin
      <3>3. o.got = c.lo + c.pos .. (c.lo + o.cur.pos) - 1
        BY <2>2, <3>1
      <3>4. c.pos <= c.pos /\ c.pos <= c.len /\ TRUE \in BOOLEAN
        BY <1>0
      <3>5. QED
        BY <2>4, <3>1, <3>2, <3>3, <3>4, Zenon DEF Forward
    <2>6. b \in Nat /\ c.pos <= c.pos + 8
      BY <1>0
    <2>7. QED
      BY <2>1, <2>3, <2>5, <2>6 DEF o, Reads
  <1>5. QED
    BY <1>1, <1>2, <1>3, <1>4

(* A varint is a number in one to nine bytes; a failed one has taken its   *)
(* first byte at most.                                                     *)
LEMMA ReadVarintLemma ==
  ASSUME DataOK, NEW c, Valid(c)
  PROVE  LET r == ReadVarint(c) IN
         /\ Reads(c, r, 1)
         /\ r.ok => r.cur.pos <= c.pos + 9 /\ r.val \in Nat
  <1> DEFINE u == ReadU8(c)
             v == VarintFrom(u.cur, u.val)
  <1>0. c.lo \in Nat /\ c.len \in Nat /\ c.pos \in Nat /\ c.pos <= c.len
    BY ValidFields
  <1>1. /\ Reads(c, u, 0)
        /\ u.ok => u.cur.pos = c.pos + 1 /\ u.val \in 0 .. Base - 1
    BY ReadU8Lemma
  <1>2. ReadVarint(c) = IF u.ok THEN After(u, v) ELSE u
    BY DEF ReadVarint
  <1>3. CASE u.ok
    <2>1. Valid(u.cur)
      BY <1>0, <1>1, <1>3 DEF Valid, Reads, Forward
    <2>2. /\ Reads(u.cur, v, 0)
          /\ v.ok => v.cur.pos <= u.cur.pos + 8 /\ v.val \in Nat
      BY <1>1, <1>3, <2>1, VarintFromLemma
    <2> HIDE DEF u, v
    <2>3. /\ Reads(c, After(u, v), 1)
          /\ After(u, v).ok = v.ok /\ After(u, v).val = v.val /\ After(u, v).cur = v.cur
      <3>1. u.cur.pos <= c.pos + 1
        BY <1>0, <1>1, <1>3
      <3>2. 1 \in Nat /\ 0 \in Nat /\ 1 + 0 = 1
        OBVIOUS
      <3>3. Reads(c, After(u, v), 1 + 0) /\ After(u, v).ok = v.ok
            /\ After(u, v).val = v.val /\ After(u, v).cur = v.cur
        BY <1>1, <1>3, <2>2, <3>1, <3>2, AfterLemma
      <3>4. QED
        BY <3>2, <3>3
    <2>4. v.ok => v.cur.pos <= c.pos + 9
      <3>1. u.cur.pos = c.pos + 1 /\ v.cur.pos \in Nat
        BY <1>1, <1>3, <2>2 DEF Reads, Forward
      <3>2. QED
        BY <1>0, <2>2, <3>1
    <2>5. QED
      BY <1>2, <1>3, <2>2, <2>3, <2>4
  <1>4. CASE ~ u.ok
    <2>1. Reads(c, u, 1)
      BY <1>0, <1>1, <1>4 DEF Reads, Forward, FailsWithin
    <2>2. QED
      BY <1>2, <1>4, <2>1
  <1>5. QED
    BY <1>3, <1>4

(* A count that was read, checked against usize and a limit.               *)
LEMMA CountLemma ==
  ASSUME NEW c, NEW r, Forward(c, r), r.cur.pos <= c.pos + 9, c.pos \in Nat,
         r.ok => r.val \in Nat, FailsWithin(c, r, 9), NEW max \in Nat
  PROVE  LET n == Capped(ToUsize(r), max) IN
         /\ Reads(c, n, 9)
         /\ n.cur = r.cur
         /\ n.ok => r.ok /\ n.val = r.val /\ n.val \in 0 .. max
  <1> DEFINE u == ToUsize(r)
             n == Capped(u, max)
  <1>0. r.cur.pos - c.pos <= 9
    BY DEF Forward
  <1>1. CASE r.ok /\ r.val > UsizeMax
    <2>1. u = Fail(r.cur, IntegerTooLarge(r.val), r.got)
      BY <1>1 DEF ToUsize
    <2>2. /\ u.ok = FALSE /\ u.cur = r.cur /\ u.got = r.got
          /\ u.err.kind = "IntegerTooLarge"
      BY <2>1 DEF Fail, Result, IntegerTooLarge
    <2>3. n = u
      BY <2>2 DEF Capped
    <2>4. QED
      BY <1>0, <2>2, <2>3 DEF Reads, Forward, FailsWithin
  <1>2. CASE ~ (r.ok /\ r.val > UsizeMax)
    <2>1. u = r
      BY <1>2 DEF ToUsize
    <2>2. CASE r.ok /\ r.val > max
      <3>1. n = Fail(r.cur, OversizedData(r.val, max), r.got)
        BY <2>1, <2>2 DEF Capped
      <3>2. /\ n.ok = FALSE /\ n.cur = r.cur /\ n.got = r.got
            /\ n.err.kind = "OversizedData"
        BY <3>1 DEF Fail, Result, OversizedData
      <3>3. QED
        BY <1>0, <3>2 DEF Reads, Forward, FailsWithin
    <2>3. CASE ~ (r.ok /\ r.val > max)
      <3>1. n = r
        BY <2>1, <2>3 DEF Capped
      <3>2. r.ok => r.val \in 0 .. max
        BY <2>3
      <3>3. QED
        BY <3>1, <3>2 DEF Reads
    <2>4. QED
      BY <2>2, <2>3
  <1>3. QED
    BY <1>1, <1>2

(* A failed read_var_bytes has taken the length prefix at most; a          *)
(* successful one hands out no more than max bytes.                        *)
LEMMA ReadVarBytesLemma ==
  ASSUME DataOK, NEW c, Valid(c), NEW max \in Nat
  PROVE  LET r == ReadVarBytes(c, max) IN
         /\ Reads(c, r, 9)
         /\ r.ok => \E n \in 0 .. max :
              /\ c.pos <= r.cur.pos - n
              /\ r.val = Slice(c.lo + r.cur.pos - n, c.lo + r.cur.pos)
  <1> DEFINE v == ReadVarint(c)
             n == Capped(ToUsize(v), max)
             b == ReadBytes(n.cur, n.val)
  <1>0. c.lo \in Nat /\ c.len \in Nat /\ c.pos \in Nat /\ c.pos <= c.len
        /\ c.lo + c.len <= Len(data) /\ Len(data) \in Nat
    BY ValidFields
  <1>1. Reads(c, v, 1) /\ (v.ok => v.cur.pos <= c.pos + 9 /\ v.val \in Nat)
    BY ReadVarintLemma
  <1>2. v.cur.pos <= c.pos + 9 /\ FailsWithin(c, v, 9) /\ Forward(c, v)
    BY SMTT(60), <1>0, <1>1 DEF Reads, Forward, FailsWithin
  <1>3. /\ Reads(c, n, 9)
        /\ n.cur = v.cur
        /\ n.ok => v.ok /\ n.val = v.val /\ n.val \in 0 .. max
    BY <1>0, <1>1, <1>2, CountLemma
  <1>4. ReadVarBytes(c, max) = IF n.ok THEN After(n, b) ELSE n
    BY DEF ReadVarBytes
  <1>5. CASE n.ok
    <2>1. Valid(n.cur) /\ n.cur.lo = c.lo /\ n.cur.len = c.len
      BY <1>0, <1>3 DEF Valid, Reads, Forward
    <2>2. n.val \in Nat /\ n.val \in 0 .. max
      BY <1>3, <1>5
    <2>3. /\ Reads(n.cur, b, 0)
          /\ b.ok => /\ b.cur.pos = n.cur.pos + n.val
                     /\ b.val = Slice(n.cur.lo + n.cur.pos, n.cur.lo + n.cur.pos + n.val)
      BY <2>1, <2>2, ReadBytesLemma
    <2> HIDE DEF n, b
    <2>4. Reads(c, n, 0)
      BY <1>3, <1>5 DEF Reads, FailsWithin
    <2>5. /\ Reads(c, After(n, b), 9 + 0)
          /\ After(n, b).ok = b.ok /\ After(n, b).val = b.val
          /\ After(n, b).cur = b.cur
      <3>1. 9 \in Nat /\ 0 \in Nat /\ n.cur.pos <= c.pos + 9
        BY <1>2, <1>3
      <3>2. QED
        BY <1>5, <2>3, <2>4, <3>1, AfterLemma
    <2>6. 9 + 0 = 9
      OBVIOUS
    <2>7. b.ok => b.val = Slice(c.lo + b.cur.pos - n.val, c.lo + b.cur.pos)
      <3>1. n.cur.pos \in Nat
        BY <2>1 DEF Valid
      <3>2. SUFFICES ASSUME b.ok
                     PROVE  b.val = Slice(c.lo + b.cur.pos - n.val, c.lo + b.cur.pos)
        OBVIOUS
      <3>3. /\ c.lo + b.cur.pos - n.val = n.cur.lo + n.cur.pos
            /\ c.lo + b.cur.pos = n.cur.lo + n.cur.pos + n.val
        BY <1>0, <2>1, <2>2, <2>3, <3>1, <3>2
      <3>4. QED
        BY <2>3, <3>2, <3>3
    <2>8. b.ok => c.pos <= b.cur.pos - n.val
      <3>1. c.pos <= n.cur.pos /\ n.cur.pos \in Nat
        BY <1>3 DEF Reads, Forward
      <3>2. QED
        BY <1>0, <2>2, <2>3, <3>1
    <2>9. QED
      BY <1>4, <1>5, <2>2, <2>5, <2>6, <2>7, <2>8
  <1>6. CASE ~ n.ok
    BY <1>3, <1>4, <1>6
  <1>7. QED
    BY <1>5, <1>6

(* A successful split gives the n bytes it stepped over to the sub-cursor  *)
(* and keeps the rest; a failed one keeps everything.                      *)
LEMMA SplitLemma ==
  ASSUME DataOK, NEW c, Valid(c), NEW n \in Nat
  PROVE  LET r == Split(c, n) IN
         /\ ~ r.ok => Reads(c, r, 0)
         /\ r.ok => /\ r.cur = [lo |-> c.lo, len |-> c.len, pos |-> c.pos + n]
                    /\ r.val = [lo |-> c.lo + c.pos, len |-> n, pos |-> 0]
                    /\ n <= c.len - c.pos
  <1> DEFINE b == ReadBytes(c, n)
  <1>0. c.lo \in Nat /\ c.len \in Nat /\ c.pos \in Nat
    BY ValidFields
  <1>1. /\ Reads(c, b, 0)
        /\ b.ok <=> n <= c.len - c.pos
        /\ b.ok => b.cur.pos = c.pos + n /\ b.val = Slice(c.lo + c.pos, c.lo + c.pos + n)
    BY ReadBytesLemma
  <1>2. Split(c, n) = IF b.ok THEN Ok(b.cur, CursorNew(b.val), {}) ELSE b
    BY DEF Split
  <1> HIDE DEF b
  <1>3. CASE b.ok
    <2>1. /\ Split(c, n).ok = TRUE /\ Split(c, n).cur = b.cur
          /\ Split(c, n).val = CursorNew(b.val)
      BY <1>2, <1>3 DEF Ok, Result
    <2>2. b.cur = [lo |-> c.lo, len |-> c.len, pos |-> c.pos + n]
      BY <1>0, <1>1, <1>3 DEF Reads, Forward
    <2>3. CursorNew(b.val) = [lo |-> c.lo + c.pos, len |-> n, pos |-> 0]
      BY <1>0, <1>1, <1>3 DEF CursorNew, Slice
    <2>4. QED
      BY <1>1, <1>3, <2>1, <2>2, <2>3
  <1>4. CASE ~ b.ok
    BY <1>1, <1>2, <1>4
  <1>5. QED
    BY <1>3, <1>4
-----------------------------------------------------------------------------
(* The steps of parse_with.                                                *)

(* r moves c forward in its window, over k bytes or more if it succeeds.   *)
Moves(c, r, k) ==
  /\ r.ok \in BOOLEAN
  /\ r.cur \in [lo : Nat, len : Nat, pos : Nat]
  /\ r.cur.lo = c.lo /\ r.cur.len = c.len
  /\ c.pos <= r.cur.pos /\ r.cur.pos <= c.len
  /\ r.ok => c.pos + k <= r.cur.pos

(* Values that an element is made of.                                      *)
Spans == [lo : Nat, hi : Nat]

InputVals == [txid : Spans, vout : Nat, script : Spans, sequence : Nat]

OutputVals == [value : Nat, script : Spans]

(* What a log is made of.                                                  *)
Deliveries ==
  [kind : {"input"}, lo : Nat, hi : Nat, val : InputVals]
    \cup [kind : {"output"}, lo : Nat, hi : Nat, val : OutputVals]

-----------------------------------------------------------------------------
(* Moves, and how they compose.                                            *)

(* The limits are numbers.                                                 *)
LEMMA LimitTypes ==
  /\ HashLen \in Nat /\ HashLen > 0
  /\ MaxIoCount \in Nat /\ MaxScriptSize \in Nat
  /\ MaxWitnessItems \in Nat /\ MaxWitnessItemSize \in Nat
  BY TransactionAssumption, WitnessAssumption

(* A cursor that has been moved is still in the buffer.                    *)
LEMMA MovedIsValid ==
  ASSUME DataOK, NEW c, Valid(c), NEW r, NEW k, Moves(c, r, k)
  PROVE  Valid(r.cur) /\ r.cur.lo = c.lo /\ r.cur.len = c.len
  <1>1. c.lo + c.len <= Len(data)
    BY ValidFields
  <1>2. QED
    BY <1>1 DEF Moves, Valid

(* The reads of the cursor move it.                                        *)
LEMMA ReadsMove ==
  ASSUME NEW c, Valid(c), NEW r, NEW k, Reads(c, r, k)
  PROVE  Moves(c, r, 0)
  <1>1. c.pos \in Nat
    BY DEF Valid
  <1>2. QED
    BY <1>1 DEF Reads, Forward, Moves

(* An integer read of n bytes moves over n.                                *)
LEMMA IntReadMoves ==
  ASSUME NEW c, Valid(c), NEW r, NEW n \in Nat, IntRead(c, r, n)
  PROVE  Moves(c, r, n)
  <1>1. c.pos \in Nat
    BY DEF Valid
  <1>2. QED
    BY <1>1 DEF IntRead, Reads, Forward, Moves

(* What follows a successful read moves on from there.                     *)
LEMMA AfterMoves ==
  ASSUME DataOK, NEW c, Valid(c), NEW k \in Nat, NEW m \in Nat,
         NEW r, Moves(c, r, k), r.ok,
         NEW s, Moves(r.cur, s, m)
  PROVE  /\ Moves(c, After(r, s), k + m)
         /\ After(r, s).ok = s.ok /\ After(r, s).val = s.val
         /\ After(r, s).cur = s.cur
  <1>1. After(r, s).ok = s.ok /\ After(r, s).val = s.val /\ After(r, s).cur = s.cur
    BY Zenon DEF After, Result
  <1>2. /\ c.pos \in Nat /\ r.cur.pos \in Nat /\ s.cur.pos \in Nat /\ c.len \in Nat
        /\ c.pos + k <= r.cur.pos
        /\ r.cur.pos <= s.cur.pos /\ s.cur.pos <= c.len
        /\ s.cur.lo = c.lo /\ s.cur.len = c.len
        /\ s.ok \in BOOLEAN /\ s.cur \in [lo : Nat, len : Nat, pos : Nat]
        /\ s.ok => r.cur.pos + m <= s.cur.pos
    BY DEF Moves, Valid
  <1>3. c.pos <= s.cur.pos /\ (s.ok => c.pos + (k + m) <= s.cur.pos)
    BY <1>2
  <1> DEFINE a == After(r, s)
  <1> HIDE DEF a
  <1>4. a.ok = s.ok /\ a.val = s.val /\ a.cur = s.cur
    BY <1>1 DEF a
  <1>5. Moves(c, a, k + m)
    BY <1>2, <1>3, <1>4 DEF Moves
  <1>6. QED
    BY <1>4, <1>5 DEF a

(* let x = r?; s: what the two move, whether or not r succeeds.            *)
LEMMA AndThenMoves ==
  ASSUME DataOK, NEW c, Valid(c), NEW k \in Nat, NEW m \in Nat,
         NEW r, Moves(c, r, k),
         NEW s, r.ok => Moves(r.cur, s, m),
         NEW a, a = IF r.ok THEN After(r, s) ELSE r
  PROVE  /\ Moves(c, a, k + m)
         /\ a.ok => r.ok /\ s.ok /\ a.val = s.val /\ a.cur = s.cur
  <1>1. CASE r.ok
    BY <1>1, AfterMoves
  <1>2. CASE ~ r.ok
    BY <1>2 DEF Moves
  <1>3. QED
    BY <1>1, <1>2

(* Nothing more is read.                                                   *)
LEMMA OkMoves ==
  ASSUME NEW c, Valid(c), NEW v, NEW got
  PROVE  Moves(c, Ok(c, v, got), 0) /\ Ok(c, v, got).ok /\ Ok(c, v, got).val = v
         /\ Ok(c, v, got).cur = c
  BY DEF Moves, Valid, Ok, Result

(* A read that fails with no more read.                                    *)
LEMMA FailMoves ==
  ASSUME NEW c, Valid(c), NEW e, NEW got, NEW k
  PROVE  Moves(c, Fail(c, e, got), k) /\ ~ Fail(c, e, got).ok
  BY DEF Moves, Valid, Fail, Result

-----------------------------------------------------------------------------
(* Elements.                                                               *)

(* The bytes of a script are a span of the buffer.                         *)
LEMMA ScriptLemma ==
  ASSUME DataOK, NEW c, Valid(c)
  PROVE  Moves(c, Script(c), 0) /\ (Script(c).ok => Script(c).val \in Spans)
  <1> DEFINE r == ReadVarBytes(c, MaxScriptSize)
  <1>0. MaxScriptSize \in Nat /\ c.lo \in Nat /\ c.pos \in Nat
    BY LimitTypes, ValidFields
  <1>1. /\ Reads(c, r, 9)
        /\ r.ok => \E n \in 0 .. MaxScriptSize :
             /\ c.pos <= r.cur.pos - n
             /\ r.val = Slice(c.lo + r.cur.pos - n, c.lo + r.cur.pos)
    BY <1>0, ReadVarBytesLemma
  <1>2. Moves(c, r, 0) /\ r.cur.pos \in Nat
    BY <1>1, ReadsMove DEF Moves
  <1> HIDE DEF r
  <1>3. r.ok => r.val \in Spans
    <2>1. SUFFICES ASSUME r.ok PROVE r.val \in Spans
      OBVIOUS
    <2>2. PICK n \in 0 .. MaxScriptSize :
            /\ c.pos <= r.cur.pos - n
            /\ r.val = Slice(c.lo + r.cur.pos - n, c.lo + r.cur.pos)
      BY <1>1, <2>1
    <2>3. n \in Nat /\ c.lo + r.cur.pos - n \in Nat /\ c.lo + r.cur.pos \in Nat
      BY <1>0, <1>2, <2>2
    <2>4. QED
      BY <2>2, <2>3 DEF Slice, Spans
  <1>4. QED
    BY <1>2, <1>3 DEF Script, r

(* A count within its limit, read by way of a usize.                       *)
LEMMA LimitedCountLemma ==
  ASSUME DataOK, NEW c, Valid(c), NEW max \in Nat
  PROVE  LET n == CountRead(ReadVarint(c), max) IN
         /\ Moves(c, n, 0)
         /\ n.ok => n.val \in 0 .. max
  <1> DEFINE v == ReadVarint(c)
  <1>0. c.pos \in Nat
    BY ValidFields
  <1>1. Reads(c, v, 1) /\ (v.ok => v.cur.pos <= c.pos + 9 /\ v.val \in Nat)
    BY ReadVarintLemma
  <1>2. Forward(c, v) /\ FailsWithin(c, v, 9) /\ v.cur.pos <= c.pos + 9
    BY <1>0, <1>1 DEF Reads, Forward, FailsWithin
  <1> HIDE DEF v
  <1>3. /\ Reads(c, Capped(ToUsize(v), max), 9)
        /\ Capped(ToUsize(v), max).ok => Capped(ToUsize(v), max).val \in 0 .. max
    BY <1>0, <1>1, <1>2, CountLemma
  <1>4. QED
    BY <1>3, ReadsMove DEF CountRead, v

(* The counts of outputs and of witness items.                             *)
LEMMA CountsLemma ==
  ASSUME DataOK, NEW c, Valid(c)
  PROVE  /\ Moves(c, OutputCount(c), 0)
         /\ OutputCount(c).ok => OutputCount(c).val \in 0 .. MaxIoCount
         /\ Moves(c, WitnessCount(c), 0)
         /\ WitnessCount(c).ok => WitnessCount(c).val \in 0 .. MaxWitnessItems
  BY LimitTypes, LimitedCountLemma DEF OutputCount, WitnessCount

(* An item is read forward.                                                *)
LEMMA WitnessItemLemma ==
  ASSUME DataOK, NEW c, Valid(c)
  PROVE  Moves(c, WitnessItem(c), 0)
  BY LimitTypes, ReadVarBytesLemma, ReadsMove DEF WitnessItem

(* An input takes at least its transaction id.                             *)
LEMMA TxInputLemma ==
  ASSUME DataOK, NEW c, Valid(c)
  PROVE  Moves(c, TxInput(c), 1) /\ (TxInput(c).ok => TxInput(c).val \in InputVals)
  <1> DEFINE txid == ReadArray(c, HashLen)
             vout == ReadU32(txid.cur)
             sig  == Script(vout.cur)
             seq  == ReadU32(sig.cur)
             v    == [txid |-> txid.val, vout |-> vout.val,
                      script |-> sig.val, sequence |-> seq.val]
             s0   == Ok(seq.cur, v, {})
             s1   == IF seq.ok THEN After(seq, s0) ELSE seq
             s2   == IF sig.ok THEN After(sig, s1) ELSE sig
             s3   == IF vout.ok THEN After(vout, s2) ELSE vout
             s4   == IF txid.ok THEN After(txid, s3) ELSE txid
  <1>0. HashLen \in Nat /\ HashLen > 0 /\ c.lo \in Nat /\ c.pos \in Nat
    BY LimitTypes, ValidFields
  <1>1. TxInput(c) = s4
    BY DEF TxInput, AndThen
  <1>2. Moves(c, txid, HashLen) /\ (txid.ok => txid.val \in Spans)
    <2>1. /\ Reads(c, txid, 0)
          /\ txid.ok => txid.cur.pos = c.pos + HashLen
                        /\ txid.val = Slice(c.lo + c.pos, c.lo + c.pos + HashLen)
      BY <1>0, ReadBytesLemma DEF ReadArray
    <2> HIDE DEF txid
    <2>2. txid.ok => txid.val \in Spans
      BY <1>0, <2>1 DEF Slice, Spans
    <2>3. Moves(c, txid, HashLen)
      BY <1>0, <2>1, ReadsMove DEF Moves
    <2>4. QED
      BY <2>2, <2>3
  <1>3. txid.ok => Moves(txid.cur, vout, 4) /\ Valid(txid.cur) /\ (vout.ok => vout.val \in Nat)
    BY <1>2, MovedIsValid, UnsignedLemma, IntReadMoves
  <1>4. txid.ok /\ vout.ok => Moves(vout.cur, sig, 0) /\ Valid(vout.cur) /\ (sig.ok => sig.val \in Spans)
    BY <1>3, MovedIsValid, ScriptLemma
  <1>5. txid.ok /\ vout.ok /\ sig.ok =>
          Moves(sig.cur, seq, 4) /\ Valid(sig.cur) /\ (seq.ok => seq.val \in Nat)
    BY <1>4, MovedIsValid, UnsignedLemma, IntReadMoves
  <1>6. txid.ok /\ vout.ok /\ sig.ok /\ seq.ok =>
          Moves(seq.cur, s0, 0) /\ s0.val = v
    <2> HIDE DEF txid, vout, sig, seq, v
    <2>1. txid.ok /\ vout.ok /\ sig.ok /\ seq.ok => Valid(seq.cur)
      BY <1>5, MovedIsValid
    <2>2. QED
      BY <2>1, OkMoves
  <1> HIDE DEF txid, vout, sig, seq, s0, v
  <1>7. txid.ok /\ vout.ok /\ sig.ok => Moves(sig.cur, s1, 4) /\ (s1.ok => seq.ok /\ s1.val = v)
    <2>1. 4 + 0 = 4 /\ 4 \in Nat /\ 0 \in Nat
      OBVIOUS
    <2>2. QED
      BY SMTT(60), <1>5, <1>6, <2>1, AndThenMoves
  <1> HIDE DEF s1
  <1>8. txid.ok /\ vout.ok => Moves(vout.cur, s2, 4) /\ (s2.ok => sig.ok /\ seq.ok /\ s2.val = v)
    <2>1. 0 + 4 = 4 /\ 4 \in Nat /\ 0 \in Nat
      OBVIOUS
    <2>2. QED
      BY <1>4, <1>7, <2>1, AndThenMoves
  <1> HIDE DEF s2
  <1>9. txid.ok => Moves(txid.cur, s3, 8) /\ (s3.ok => vout.ok /\ sig.ok /\ seq.ok /\ s3.val = v)
    <2>1. 4 + 4 = 8 /\ 4 \in Nat /\ 8 \in Nat
      OBVIOUS
    <2>2. QED
      BY <1>3, <1>8, <2>1, AndThenMoves
  <1> HIDE DEF s3
  <1>10. /\ Moves(c, s4, HashLen + 8)
         /\ s4.ok => txid.ok /\ vout.ok /\ sig.ok /\ seq.ok /\ s4.val = v
    <2>1. 8 \in Nat /\ HashLen \in Nat
      BY <1>0
    <2>2. Moves(c, txid, HashLen) /\ (txid.ok => Moves(txid.cur, s3, 8))
      BY <1>2, <1>9
    <2>3. Moves(c, s4, HashLen + 8) /\ (s4.ok => txid.ok /\ s3.ok /\ s4.val = s3.val)
      BY <2>1, <2>2, AndThenMoves
    <2>4. QED
      BY <1>9, <2>3
  <1> HIDE DEF s4
  <1>11. Moves(c, s4, 1)
    BY <1>0, <1>10 DEF Moves
  <1>12. s4.ok => s4.val \in InputVals
    BY <1>2, <1>3, <1>4, <1>5, <1>10 DEF InputVals, v
  <1>13. QED
    BY <1>1, <1>11, <1>12

(* An output takes at least its value.                                     *)
LEMMA TxOutputLemma ==
  ASSUME DataOK, NEW c, Valid(c)
  PROVE  Moves(c, TxOutput(c), 1) /\ (TxOutput(c).ok => TxOutput(c).val \in OutputVals)
  <1> DEFINE value == ReadU64(c)
             key   == Script(value.cur)
             v     == [value |-> value.val, script |-> key.val]
             s0    == Ok(key.cur, v, {})
             s1    == IF key.ok THEN After(key, s0) ELSE key
             s2    == IF value.ok THEN After(value, s1) ELSE value
  <1>0. c.pos \in Nat
    BY ValidFields
  <1>1. TxOutput(c) = s2
    BY DEF TxOutput, AndThen
  <1>2. Moves(c, value, 8) /\ (value.ok => value.val \in Nat)
    BY UnsignedLemma, IntReadMoves
  <1>3. value.ok => Moves(value.cur, key, 0) /\ Valid(value.cur) /\ (key.ok => key.val \in Spans)
    BY <1>2, MovedIsValid, ScriptLemma
  <1>4. value.ok /\ key.ok => Moves(key.cur, s0, 0) /\ s0.val = v
    BY <1>3, MovedIsValid, OkMoves
  <1> HIDE DEF value, key, v, s0
  <1>5. value.ok => Moves(value.cur, s1, 0) /\ (s1.ok => key.ok /\ s1.val = v)
    <2>1. 0 + 0 = 0 /\ 0 \in Nat
      OBVIOUS
    <2>2. QED
      BY <1>3, <1>4, <2>1, AndThenMoves
  <1> HIDE DEF s1
  <1>6. Moves(c, s2, 8) /\ (s2.ok => value.ok /\ key.ok /\ s2.val = v)
    <2>1. 8 + 0 = 8 /\ 0 \in Nat /\ 8 \in Nat
      OBVIOUS
    <2>2. QED
      BY <1>2, <1>5, <2>1, AndThenMoves
  <1> HIDE DEF s2
  <1>7. Moves(c, s2, 1)
    BY <1>0, <1>6 DEF Moves
  <1>8. s2.ok => s2.val \in OutputVals
    BY <1>2, <1>3, <1>6 DEF OutputVals, v
  <1>9. QED
    BY <1>1, <1>7, <1>8

(* A check of what was read: it may turn success into failure, never move. *)
LEMMA CheckMoves ==
  ASSUME NEW c, NEW r, Moves(c, r, 0), NEW e,
         NEW s, s = r \/ s = Fail(r.cur, e, r.got)
  PROVE  Moves(c, s, 0) /\ (s.ok => s = r)
  <1>1. CASE s = Fail(r.cur, e, r.got)
    <2>1. s.ok = FALSE /\ s.cur = r.cur
      BY <1>1 DEF Fail, Result
    <2>2. QED
      BY <2>1 DEF Moves
  <1>2. CASE s = r
    BY <1>2
  <1>3. QED
    BY <1>1, <1>2

(* The checks of the input count leave a positive number within the limit. *)
LEMMA InputCountLemma ==
  ASSUME NEW c, NEW r, Moves(c, r, 0), r.ok => r.val \in Nat
  PROVE  /\ Moves(c, InputCount(r), 0)
         /\ InputCount(r).ok => InputCount(r).val \in 1 .. MaxIoCount
  <1> DEFINE u == ToUsize(r)
             z == NonZero(u)
             n == Capped(z, MaxIoCount)
  <1>0. MaxIoCount \in Nat
    BY LimitTypes
  <1>1. Moves(c, u, 0) /\ (u.ok => u = r)
    BY CheckMoves DEF ToUsize
  <1> HIDE DEF u
  <1>2. Moves(c, z, 0) /\ (z.ok => z = u /\ z.val # 0)
    <2>1. Moves(c, z, 0) /\ (z.ok => z = u)
      BY <1>1, CheckMoves DEF NonZero
    <2>2. ASSUME z.ok, z.val = 0 PROVE FALSE
      <3>1. u.ok /\ u.val = 0
        BY <2>1, <2>2
      <3>2. z = Fail(u.cur, InvalidInputCount, u.got)
        BY <3>1 DEF NonZero
      <3>3. z.ok = FALSE
        BY <3>2 DEF Fail, Result
      <3>4. QED
        BY <2>2, <3>3
    <2>3. QED
      BY <2>1, <2>2
  <1> HIDE DEF z
  <1>3. Moves(c, n, 0) /\ (n.ok => n = z /\ ~ (n.val > MaxIoCount))
    <2>1. Moves(c, n, 0) /\ (n.ok => n = z)
      BY <1>2, CheckMoves DEF Capped
    <2>2. ASSUME n.ok, n.val > MaxIoCount PROVE FALSE
      <3>1. z.ok /\ z.val > MaxIoCount
        BY <2>1, <2>2
      <3>2. n = Fail(z.cur, OversizedData(z.val, MaxIoCount), z.got)
        BY <3>1 DEF Capped
      <3>3. n.ok = FALSE
        BY <3>2 DEF Fail, Result
      <3>4. QED
        BY <2>2, <3>3
    <2>3. QED
      BY <2>1, <2>2
  <1> HIDE DEF n
  <1>4. n.ok => n.val \in 1 .. MaxIoCount
    BY <1>0, <1>1, <1>2, <1>3
  <1>5. QED
    BY <1>3, <1>4 DEF InputCount, n, z, u

(* The count that stands behind the first byte after the version.          *)
LEMMA CountAfterLemma ==
  ASSUME DataOK, NEW first, Valid(first.cur), first.val \in 0 .. Base - 1
  PROVE  /\ Moves(first.cur, CountAfter(first), 0)
         /\ CountAfter(first).ok => CountAfter(first).val \in 1 .. MaxIoCount
  <1> DEFINE c == first.cur
  <1>1. CASE first.val # 0
    <2> DEFINE r == VarintFrom(c, first.val)
    <2>1. CountAfter(first) = InputCount(r)
      BY <1>1 DEF CountAfter
    <2>2. Reads(c, r, 0) /\ (r.ok => r.val \in Nat)
      BY VarintFromLemma
    <2>3. QED
      BY <2>1, <2>2, ReadsMove, InputCountLemma
  <1>2. CASE first.val = 0
    <2> DEFINE flag == ReadU8(c)
               r    == ReadVarint(flag.cur)
               s    == IF flag.val = 1 THEN InputCount(r)
                       ELSE Fail(flag.cur, InvalidSegwitFlag(flag.val), {})
               a    == IF flag.ok THEN After(flag, s) ELSE flag
    <2>1. CountAfter(first) = a
      BY <1>2 DEF CountAfter, AndThen
    <2>2. Moves(c, flag, 0)
      BY ReadU8Lemma, ReadsMove
    <2>3. flag.ok => Valid(flag.cur)
      BY <2>2, MovedIsValid
    <2>4. flag.ok => Moves(flag.cur, r, 0) /\ (r.ok => r.val \in Nat)
      BY <2>3, ReadVarintLemma, ReadsMove
    <2> HIDE DEF flag, r
    <2>5. flag.ok => Moves(flag.cur, s, 0) /\ (s.ok => s.val \in 1 .. MaxIoCount)
      <3>1. CASE flag.val = 1
        BY <2>4, <3>1, InputCountLemma
      <3>2. CASE flag.val # 1
        BY <2>3, <3>2, FailMoves
      <3>3. QED
        BY <3>1, <3>2
    <2> HIDE DEF s
    <2>6. Moves(c, a, 0 + 0) /\ (a.ok => flag.ok /\ s.ok /\ a.val = s.val)
      <3>1. 0 \in Nat
        OBVIOUS
      <3>2. QED
        BY <2>2, <2>5, <3>1, AndThenMoves
    <2>7. 0 + 0 = 0
      OBVIOUS
    <2>8. QED
      BY <2>1, <2>5, <2>6, <2>7
  <1>3. QED
    BY <1>1, <1>2

(* A transaction that gets as far as its inputs has some to deliver.       *)
LEMMA TxHeadLemma ==
  ASSUME DataOK, NEW c, Valid(c)
  PROVE  /\ Moves(c, TxHead(c), 1)
         /\ TxHead(c).ok => /\ TxHead(c).val.segwit \in BOOLEAN
                            /\ TxHead(c).val.inputs \in 1 .. MaxIoCount
  <1> DEFINE version == ReadI32(c)
             first   == ReadU8(version.cur)
             count   == CountAfter(first)
             v       == [version |-> version.val, segwit |-> first.val = 0,
                         inputs |-> count.val]
             s0      == Ok(count.cur, v, {})
             s1      == IF count.ok THEN After(count, s0) ELSE count
             s2      == IF first.ok THEN After(first, s1) ELSE first
             s3      == IF version.ok THEN After(version, s2) ELSE version
  <1>0. c.pos \in Nat
    BY ValidFields
  <1>1. TxHead(c) = s3
    BY DEF TxHead, AndThen
  <1>2. Moves(c, version, 4)
    BY SignedLemma, IntReadMoves
  <1>3. version.ok => /\ Valid(version.cur) /\ Moves(version.cur, first, 0)
                      /\ first.ok => first.val \in 0 .. Base - 1
    BY <1>2, MovedIsValid, ReadU8Lemma, ReadsMove
  <1>4. version.ok /\ first.ok =>
          /\ Valid(first.cur) /\ Moves(first.cur, count, 0)
          /\ count.ok => count.val \in 1 .. MaxIoCount
    BY <1>3, MovedIsValid, CountAfterLemma
  <1>5. version.ok /\ first.ok /\ count.ok => Moves(count.cur, s0, 0) /\ s0.val = v
    BY <1>4, MovedIsValid, OkMoves
  <1>6. v.segwit \in BOOLEAN /\ v.inputs = count.val
    OBVIOUS
  <1> HIDE DEF version, first, count, v, s0
  <1>7. 0 + 0 = 0 /\ 4 + 0 = 4 /\ 0 \in Nat /\ 4 \in Nat
    OBVIOUS
  <1>8. version.ok /\ first.ok =>
          Moves(first.cur, s1, 0) /\ (s1.ok => count.ok /\ s1.val = v)
    BY <1>4, <1>5, <1>7, AndThenMoves
  <1> HIDE DEF s1
  <1>9. version.ok => Moves(version.cur, s2, 0) /\ (s2.ok => first.ok /\ count.ok /\ s2.val = v)
    BY <1>3, <1>8, <1>7, AndThenMoves
  <1> HIDE DEF s2
  <1>10. Moves(c, s3, 4) /\ (s3.ok => version.ok /\ first.ok /\ count.ok /\ s3.val = v)
    BY <1>2, <1>9, <1>7, AndThenMoves
  <1> HIDE DEF s3
  <1>11. Moves(c, s3, 1)
    BY <1>0, <1>10 DEF Moves
  <1>12. QED
    BY <1>1, <1>4, <1>6, <1>10, <1>11

-----------------------------------------------------------------------------
(* Logs.                                                                   *)

(* The deliveries stand in the bytes after from and up to to, in their     *)
(* order and without overlap.                                              *)
Placed(ds, from, to) ==
  /\ \A i \in 1 .. Len(ds) : from < ds[i].lo /\ ds[i].lo < ds[i].hi /\ ds[i].hi <= to
  /\ \A i, j \in 1 .. Len(ds) : i < j => ds[i].hi <= ds[j].lo

(* n inputs come first, then outputs.                                      *)
Sorted(ds, n) ==
  \A i \in 1 .. Len(ds) : ds[i].kind = IF i <= n THEN "input" ELSE "output"

(* The offsets of a delivery are numbers.                                  *)
LEMMA DeliveryFields ==
  ASSUME NEW ds \in Seq(Deliveries), NEW i \in 1 .. Len(ds)
  PROVE  ds[i].lo \in Nat /\ ds[i].hi \in Nat
  <1>1. ds[i] \in Deliveries
    OBVIOUS
  <1>2. QED
    BY <1>1 DEF Deliveries

(* Deliveries that lie between two offsets lie between wider ones.         *)
LEMMA PlacedWider ==
  ASSUME NEW ds \in Seq(Deliveries), NEW from \in Int, NEW to \in Int, Placed(ds, from, to),
         NEW lower \in Int, lower <= from, NEW higher \in Int, to <= higher
  PROVE  Placed(ds, lower, higher)
  BY DeliveryFields DEF Placed

(* A delivery of the bytes that come next.                                 *)
LEMMA PlacedAppend ==
  ASSUME NEW ds \in Seq(Deliveries), NEW from \in Int, NEW to \in Int, Placed(ds, from, to),
         NEW d \in Deliveries, from < d.lo, to <= d.lo, d.lo < d.hi
  PROVE  Placed(Append(ds, d), from, d.hi)
  <1> DEFINE es == Append(ds, d)
  <1>1. /\ es \in Seq(Deliveries) /\ Len(es) = Len(ds) + 1 /\ Len(ds) \in Nat
        /\ es[Len(ds) + 1] = d
        /\ \A i \in 1 .. Len(ds) : es[i] = ds[i]
    OBVIOUS
  <1>2. d.lo \in Nat /\ d.hi \in Nat
    BY DEF Deliveries
  <1> HIDE DEF es
  <1>3. ASSUME NEW i \in 1 .. Len(es)
        PROVE  from < es[i].lo /\ es[i].lo < es[i].hi /\ es[i].hi <= d.hi
               /\ (i <= Len(ds) => es[i].hi <= to)
    <2>1. CASE i = Len(ds) + 1
      BY <1>1, <1>2, <2>1
    <2>2. CASE i \in 1 .. Len(ds)
      BY <1>1, <1>2, <2>2, DeliveryFields DEF Placed
    <2>3. QED
      BY <1>1, <2>1, <2>2
  <1>4. ASSUME NEW i \in 1 .. Len(es), NEW j \in 1 .. Len(es), i < j
        PROVE  es[i].hi <= es[j].lo
    <2>1. CASE j = Len(ds) + 1
      <3>1. es[j] = d /\ i <= Len(ds) /\ es[i].hi <= to /\ es[i].hi \in Nat
        BY <1>1, <1>3, <1>4, <2>1, DeliveryFields
      <3>2. QED
        BY <1>2, <3>1
    <2>2. CASE j \in 1 .. Len(ds)
      BY <1>1, <1>4, <2>2 DEF Placed
    <2>3. QED
      BY <1>1, <2>1, <2>2
  <1>5. QED
    BY <1>3, <1>4 DEF Placed, es

(* The next delivery is of the kind that is due.                           *)
LEMMA SortedAppend ==
  ASSUME NEW ds \in Seq(Deliveries), NEW n \in Nat, Sorted(ds, n),
         NEW d, d.kind = IF Len(ds) < n THEN "input" ELSE "output"
  PROVE  Sorted(Append(ds, d), n)
  <1> DEFINE es == Append(ds, d)
  <1>1. /\ Len(es) = Len(ds) + 1 /\ Len(ds) \in Nat
        /\ es[Len(ds) + 1] = d
        /\ \A i \in 1 .. Len(ds) : es[i] = ds[i]
    OBVIOUS
  <1> HIDE DEF es
  <1>2. ASSUME NEW i \in 1 .. Len(es)
        PROVE  es[i].kind = IF i <= n THEN "input" ELSE "output"
    <2>1. CASE i = Len(ds) + 1
      <3>1. i <= n <=> Len(ds) < n
        BY <1>1, <2>1
      <3>2. QED
        BY <1>1, <2>1, <3>1
    <2>2. CASE i \in 1 .. Len(ds)
      BY <1>1, <2>2 DEF Sorted
    <2>3. QED
      BY <1>1, <2>1, <2>2
  <1>3. QED
    BY <1>2 DEF Sorted, es

-----------------------------------------------------------------------------
(* The invariant of parse_with.                                            *)

CallPhases == {"head", "inputs", "outputs", "witness", "items", "locktime", "returned"}

(* The locals count as far as their loops go.                              *)
Counting ==
  /\ pc \in CallPhases \cup {"idle"}
  /\ head.segwit \in BOOLEAN /\ head.inputs \in 0 .. MaxIoCount
  /\ outs \in 0 .. MaxIoCount
  /\ done \in Nat
  /\ pc \in CallPhases \ {"head", "returned"} => head.inputs > 0
  /\ pc = "head" => done = 0
  /\ pc = "inputs" => done <= head.inputs
  /\ pc = "outputs" => done <= outs
  /\ pc \in {"witness", "items"} => done <= head.inputs
  /\ pc = "items" => done < head.inputs /\ Valid(witness.cur)
  /\ witness.left \in 0 .. MaxWitnessItems
  /\ ret.ok \in BOOLEAN

(* The log holds what the locals say has been delivered.                   *)
Logging ==
  /\ log \in Seq(Deliveries)
  /\ Sorted(log, head.inputs)
  /\ pc = "head" => log = <<>>
  /\ pc = "inputs" => Len(log) = done
  /\ pc = "outputs" => Len(log) = head.inputs + done
  /\ pc \in {"witness", "items", "locktime"} => Len(log) = head.inputs + outs
  /\ (pc = "returned" /\ ret.ok) =>
       /\ head.inputs > 0 /\ Len(log) = head.inputs + outs
       /\ ret.val.inputs = head.inputs /\ ret.val.outputs = outs

(* The parser stands in the window that the call, begun on the cursor o,   *)
(* was given; what was delivered lies between there and o.                 *)
Spanning(o) ==
  /\ Valid(o) /\ Valid(parser)
  /\ parser.lo = o.lo /\ parser.len = o.len
  /\ o.pos <= parser.pos
  /\ pc \in CallPhases \ {"head", "returned"} => o.pos < parser.pos
  /\ Placed(log, o.lo + o.pos, parser.lo + parser.pos)

ParsesFrom(o) == Counting /\ Logging /\ Spanning(o)

(* A call begins with nothing read and nothing delivered.                  *)
LEMMA BeginParses ==
  ASSUME DataOK, NEW c, Valid(c), Begin(c), data' = data
  PROVE  ParsesFrom(c)'
  <1>1. MaxIoCount \in Nat /\ MaxWitnessItems \in Nat
    BY LimitTypes
  <1>2. /\ parser' = c /\ pc' = "head" /\ head' = NoHead /\ outs' = 0 /\ done' = 0
        /\ witness' = NoWitness /\ ret' = NoResult /\ log' = <<>>
    BY DEF Begin
  <1>3. Counting'
    BY <1>1, <1>2 DEF Counting, CallPhases, NoHead, NoWitness, NoResult
  <1>4. Logging'
    BY <1>2 DEF Logging, Sorted
  <1>5. Spanning(c)'
    <2>1. Valid(c)'
      BY DEF Valid
    <2>2. c.pos <= c.pos
      BY DEF Valid
    <2>3. QED
      BY <1>2, <2>1, <2>2 DEF Spanning, Placed, CallPhases
  <1>6. QED
    BY <1>3, <1>4, <1>5 DEF ParsesFrom

(* The cursor c is the parser's, or that moved on.                         *)
Further(c) ==
  /\ Valid(c)
  /\ c.lo = parser.lo /\ c.len = parser.len /\ parser.pos <= c.pos

(* A read moves the parser further.                                        *)
LEMMA ReadsFurther ==
  ASSUME DataOK, Valid(parser), NEW r, NEW k, Moves(parser, r, k)
  PROVE  Further(r.cur)
  BY MovedIsValid DEF Moves, Further

(* The parser's cursor after a step that read r and delivered nothing.     *)
LEMMA SpanningMoves ==
  ASSUME DataOK, data' = data, NEW o, Spanning(o), log \in Seq(Deliveries),
         NEW c, Further(c), parser' = c, log' = log,
         pc' \in CallPhases \ {"head", "returned"} => o.pos < c.pos
  PROVE  Spanning(o)'
  <1>1. /\ Valid(o)' /\ Valid(parser)'
        /\ parser'.lo = o.lo /\ parser'.len = o.len /\ o.pos <= parser'.pos
    BY DEF Spanning, Further, Valid
  <1>2. Placed(log, o.lo + o.pos, parser'.lo + parser'.pos)
    <2>1. /\ o.lo + o.pos \in Int /\ parser.lo + parser.pos \in Int
          /\ parser'.lo + parser'.pos \in Int
          /\ parser.lo + parser.pos <= parser'.lo + parser'.pos
          /\ o.lo + o.pos <= o.lo + o.pos
      BY DEF Spanning, Further, Valid
    <2>2. Placed(log, o.lo + o.pos, parser.lo + parser.pos)
      BY DEF Spanning
    <2>3. QED
      BY <2>1, <2>2, PlacedWider
  <1>3. Placed(log, o.lo + o.pos, parser.lo + parser.pos)'
    BY <1>2 DEF Placed
  <1>4. QED
    BY <1>1, <1>3 DEF Spanning

(* A failed call keeps what it has consumed and delivered.                 *)
LEMMA AbortParses ==
  ASSUME DataOK, data' = data, NEW o, ParsesFrom(o),
         NEW c, Further(c), NEW e, Abort(c, e), log' = log
  PROVE  ParsesFrom(o)'
  <1>1. /\ parser' = c /\ pc' = "returned" /\ ret'.ok = FALSE
        /\ head' = head /\ outs' = outs /\ done' = done /\ witness' = witness
    BY DEF Abort, Return, Returned
  <1>2. Counting'
    BY <1>1 DEF ParsesFrom, Counting, CallPhases
  <1>3. Logging'
    BY <1>1 DEF ParsesFrom, Logging, Sorted
  <1>4. Spanning(o)'
    BY <1>1, SpanningMoves DEF ParsesFrom, Logging
  <1>5. QED
    BY <1>2, <1>3, <1>4 DEF ParsesFrom

(* The head is read.                                                       *)
LEMMA ParseHeadParses ==
  ASSUME DataOK, data' = data, NEW o, ParsesFrom(o), ParseHead
  PROVE  ParsesFrom(o)'
  <1> PICK r : r = TxHead(parser)
    OBVIOUS
  <1>1. /\ Valid(o) /\ Valid(parser) /\ o.pos <= parser.pos
        /\ o.pos \in Nat /\ parser.pos \in Nat
    BY DEF ParsesFrom, Spanning, Valid
  <1>2. /\ Moves(parser, r, 1)
        /\ r.ok => r.val.segwit \in BOOLEAN /\ r.val.inputs \in 1 .. MaxIoCount
    BY <1>1, TxHeadLemma
  <1>3. Further(r.cur)
    BY <1>1, <1>2, ReadsFurther
  <1>4. pc = "head" /\ log' = log
    BY DEF ParseHead
  <1>5. CASE r.ok /\ parser' = r.cur /\ head' = r.val /\ pc' = "inputs"
             /\ UNCHANGED <<outs, done, witness, ret>>
    <2>1. done = 0 /\ log = <<>> /\ done' = 0 /\ Len(log) = 0
      BY <1>4, <1>5 DEF ParsesFrom, Counting, Logging
    <2>2. Counting'
      <3>1. /\ head'.segwit \in BOOLEAN /\ head'.inputs \in 0 .. MaxIoCount /\ head'.inputs > 0
            /\ 0 <= head'.inputs
        BY <1>2, <1>5, LimitTypes
      <3>2. /\ pc' = "inputs" /\ outs' = outs /\ done' = 0 /\ witness' = witness /\ ret' = ret
        BY <1>5, <2>1
      <3>3. outs \in 0 .. MaxIoCount /\ witness.left \in 0 .. MaxWitnessItems /\ ret.ok \in BOOLEAN
        BY DEF ParsesFrom, Counting
      <3>4. QED
        BY <3>1, <3>2, <3>3 DEF Counting, CallPhases
    <2>3. Logging'
      BY <1>2, <1>4, <1>5, <2>1 DEF ParsesFrom, Logging, Sorted
    <2>4. o.pos < r.cur.pos
      BY <1>1, <1>2, <1>5 DEF Moves
    <2>5. Spanning(o)'
      BY <1>3, <1>4, <1>5, <2>4, SpanningMoves DEF ParsesFrom, Logging
    <2>6. QED
      BY <2>2, <2>3, <2>5 DEF ParsesFrom
  <1>6. CASE ~ r.ok /\ Abort(r.cur, r.err)
    BY <1>3, <1>4, <1>6, AbortParses
  <1>7. QED
    BY <1>5, <1>6 DEF ParseHead

(* A delivery is due: an input or an output, at the parser.                *)
Due(kind) ==
  \/ pc = "inputs" /\ done < head.inputs /\ kind = "input"
  \/ pc = "outputs" /\ done < outs /\ kind = "output"

(* An element is handed over, or refused before it is.                     *)
LEMMA HandOverParses ==
  ASSUME DataOK, data' = data, NEW o, ParsesFrom(o),
         NEW kind, Due(kind), NEW r, Moves(parser, r, 1), r.ok,
         Delivery(kind, parser, r) \in Deliveries,
         NEW called \in BOOLEAN, NEW e, called \/ e # NoError,
         HandOver(kind, r, called, e)
  PROVE  ParsesFrom(o)'
  <1> PICK d : d = Delivery(kind, parser, r)
    OBVIOUS
  <1>1. /\ Valid(o) /\ Valid(parser) /\ Valid(r.cur) /\ Further(r.cur)
    BY MovedIsValid, ReadsFurther DEF ParsesFrom, Spanning
  <1>2. /\ o.lo \in Nat /\ o.pos \in Nat /\ parser.pos \in Nat /\ r.cur.pos \in Nat
        /\ parser.lo = o.lo /\ r.cur.lo = o.lo /\ r.cur.len = o.len
        /\ o.pos < parser.pos /\ parser.pos < r.cur.pos
    <2>1. pc \in CallPhases \ {"head", "returned"}
      BY DEF Due, CallPhases
    <2>2. QED
      BY <1>1, <2>1 DEF ParsesFrom, Spanning, Moves, Valid
  <1>3. /\ d \in Deliveries /\ d.kind = kind
        /\ d.lo = parser.lo + parser.pos /\ d.hi = r.cur.lo + r.cur.pos
    BY DEF Delivery
  <1>4. /\ Counting /\ Logging /\ log \in Seq(Deliveries) /\ Len(log) \in Nat
        /\ Sorted(log, head.inputs) /\ head.inputs \in Nat
    BY LimitTypes DEF ParsesFrom, Logging, Counting
  <1>5. log' = IF called THEN Append(log, d) ELSE log
    BY DEF HandOver
  <1>6. ASSUME called
        PROVE  /\ log' \in Seq(Deliveries) /\ Len(log') = Len(log) + 1
               /\ Sorted(log', head.inputs)
               /\ Placed(log', o.lo + o.pos, d.hi)
    <2>1. log' = Append(log, d)
      BY <1>5, <1>6
    <2>2. d.kind = IF Len(log) < head.inputs THEN "input" ELSE "output"
      <3>1. CASE pc = "inputs" /\ done < head.inputs /\ kind = "input"
        BY <1>3, <1>4, <3>1 DEF Logging
      <3>2. CASE pc = "outputs" /\ done < outs /\ kind = "output"
        <4>1. Len(log) = head.inputs + done /\ done \in Nat
          BY <1>4, <3>2 DEF Logging, Counting
        <4>2. QED
          BY <1>3, <1>4, <3>2, <4>1
      <3>3. QED
        BY <3>1, <3>2 DEF Due
    <2>3. Sorted(log', head.inputs)
      BY <1>4, <2>1, <2>2, SortedAppend
    <2>4. Placed(log', o.lo + o.pos, d.hi)
      <3>1. /\ o.lo + o.pos \in Int /\ parser.lo + parser.pos \in Int
            /\ o.lo + o.pos < d.lo /\ parser.lo + parser.pos <= d.lo /\ d.lo < d.hi
        BY <1>2, <1>3
      <3>2. Placed(log, o.lo + o.pos, parser.lo + parser.pos)
        BY DEF ParsesFrom, Spanning
      <3>3. QED
        BY <1>3, <1>4, <2>1, <3>1, <3>2, PlacedAppend
    <2>5. QED
      BY <1>3, <1>4, <2>1, <2>3, <2>4
  <1>7. CASE ~ called
    BY <1>1, <1>5, <1>7, AbortParses DEF HandOver
  <1>8. CASE called
    <2>1. parser' = r.cur /\ head' = head /\ outs' = outs /\ witness' = witness
      BY DEF HandOver, Abort, Return
    <2>2. Spanning(o)'
      <3>1. /\ Valid(o)' /\ Valid(parser)'
            /\ parser'.lo = o.lo /\ parser'.len = o.len
            /\ o.pos <= parser'.pos /\ o.pos < parser'.pos
        BY <1>1, <1>2, <2>1 DEF Valid
      <3>2. Placed(log', o.lo + o.pos, parser'.lo + parser'.pos)
        BY <1>3, <1>6, <1>8, <2>1
      <3>3. QED
        BY <3>1, <3>2 DEF Spanning, Placed
    <2>3. CASE e = NoError /\ done' = done + 1 /\ UNCHANGED <<pc, head, outs, witness, ret>>
      <3>1. Counting'
        <4>1. /\ pc' = pc /\ pc \in {"inputs", "outputs"} /\ ret' = ret /\ done' \in Nat
              /\ pc = "inputs" => done' <= head.inputs
              /\ pc = "outputs" => done' <= outs
          BY <1>4, <2>3, LimitTypes DEF Due, Counting
        <4>2. QED
          BY <1>4, <2>1, <4>1 DEF Counting, CallPhases
      <3>2. Logging'
        <4>1. /\ pc' = pc /\ pc \in {"inputs", "outputs"}
              /\ pc = "inputs" => Len(log') = done'
              /\ pc = "outputs" => Len(log') = head.inputs + done'
          BY SMTT(60), <1>4, <1>6, <1>8, <2>3, LimitTypes DEF Due, Counting, Logging
        <4>2. Sorted(log', head'.inputs) /\ log' \in Seq(Deliveries)
          BY <1>6, <1>8, <2>1
        <4>3. QED
          BY <2>1, <4>1, <4>2 DEF Logging, Sorted
      <3>3. QED
        BY <2>2, <3>1, <3>2 DEF ParsesFrom
    <2>4. CASE Abort(r.cur, e)
      <3>1. /\ pc' = "returned" /\ ret'.ok = FALSE /\ done' = done
        BY <2>4 DEF Abort, Return, Returned
      <3>2. Counting'
        BY <1>4, <2>1, <3>1 DEF Counting, CallPhases
      <3>3. Logging'
        <4>1. Sorted(log', head'.inputs) /\ log' \in Seq(Deliveries)
          BY <1>6, <1>8, <2>1
        <4>2. QED
          BY <3>1, <4>1 DEF Logging, Sorted
      <3>4. QED
        BY <2>2, <3>2, <3>3 DEF ParsesFrom
    <2>5. QED
      BY <2>3, <2>4 DEF HandOver
  <1>9. QED
    BY <1>7, <1>8

(* A callback is given an input, or a wrapper refuses one in its place.    *)
LEMMA ParseInputParses ==
  ASSUME DataOK, data' = data, NEW o, ParsesFrom(o),
         NEW called \in BOOLEAN, NEW e, called \/ e # NoError,
         ParseInput(called, e)
  PROVE  ParsesFrom(o)'
  <1> PICK r : r = TxInput(parser)
    OBVIOUS
  <1>1. Valid(parser)
    BY DEF ParsesFrom, Spanning
  <1>2. /\ r.ok /\ HandOver("input", r, called, e) /\ Due("input")
    BY DEF ParseInput, Due
  <1>3. Moves(parser, r, 1) /\ r.val \in InputVals
    BY <1>1, <1>2, TxInputLemma
  <1>4. Delivery("input", parser, r) \in Deliveries
    <2>1. parser.lo + parser.pos \in Nat /\ r.cur.lo + r.cur.pos \in Nat
      BY <1>1, <1>3 DEF Moves, Valid
    <2>2. QED
      BY <1>3, <2>1 DEF Delivery, Deliveries
  <1>5. QED
    BY <1>2, <1>3, <1>4, HandOverParses

(* A callback is given an output.                                          *)
LEMMA ParseOutputParses ==
  ASSUME DataOK, data' = data, NEW o, ParsesFrom(o), NEW e, ParseOutput(e)
  PROVE  ParsesFrom(o)'
  <1> PICK r : r = TxOutput(parser)
    OBVIOUS
  <1>1. Valid(parser)
    BY DEF ParsesFrom, Spanning
  <1>2. /\ r.ok /\ HandOver("output", r, TRUE, e) /\ Due("output")
    BY DEF ParseOutput, Due
  <1>3. Moves(parser, r, 1) /\ r.val \in OutputVals
    BY <1>1, <1>2, TxOutputLemma
  <1>4. Delivery("output", parser, r) \in Deliveries
    <2>1. parser.lo + parser.pos \in Nat /\ r.cur.lo + r.cur.pos \in Nat
      BY <1>1, <1>3 DEF Moves, Valid
    <2>2. QED
      BY <1>3, <2>1 DEF Delivery, Deliveries
  <1>5. QED
    BY <1>2, <1>3, <1>4, HandOverParses

(* The loop over the inputs ends, and the outputs are counted.             *)
LEMMA ParseOutputCountParses ==
  ASSUME DataOK, data' = data, NEW o, ParsesFrom(o), ParseOutputCount
  PROVE  ParsesFrom(o)'
  <1> PICK r : r = OutputCount(parser)
    OBVIOUS
  <1>1. /\ Valid(o) /\ Valid(parser) /\ Counting /\ Logging /\ Spanning(o)
        /\ log \in Seq(Deliveries) /\ head.inputs \in Nat /\ outs \in Nat /\ Len(log) \in Nat
    BY LimitTypes DEF ParsesFrom, Spanning, Logging, Counting
  <1>2. Moves(parser, r, 0) /\ (r.ok => r.val \in 0 .. MaxIoCount)
    BY <1>1, CountsLemma
  <1>3. Further(r.cur)
    BY <1>1, <1>2, ReadsFurther
  <1>4. pc = "inputs" /\ done = head.inputs /\ log' = log
    BY DEF ParseOutputCount
  <1>5. CASE r.ok /\ parser' = r.cur /\ outs' = r.val /\ done' = 0 /\ pc' = "outputs"
             /\ UNCHANGED <<head, witness, ret>>
    <2>1. outs' \in 0 .. MaxIoCount /\ 0 <= outs'
      BY <1>2, <1>5
    <2>2. Counting'
      BY <1>1, <1>4, <1>5, <2>1 DEF Counting, CallPhases
    <2>3. Logging'
      BY <1>1, <1>4, <1>5 DEF Logging, Sorted
    <2>4. o.pos < r.cur.pos
      BY <1>1, <1>2, <1>4 DEF Spanning, Moves, CallPhases, Valid
    <2>5. Spanning(o)'
      BY <1>1, <1>3, <1>4, <1>5, <2>4, SpanningMoves
    <2>6. QED
      BY <2>2, <2>3, <2>5 DEF ParsesFrom
  <1>6. CASE ~ r.ok /\ Abort(r.cur, r.err)
    BY <1>3, <1>4, <1>6, AbortParses
  <1>7. QED
    BY <1>5, <1>6 DEF ParseOutputCount

(* An element cannot be read.                                              *)
LEMMA BadElementParses ==
  ASSUME DataOK, data' = data, NEW o, ParsesFrom(o), BadInput \/ BadOutput
  PROVE  ParsesFrom(o)'
  <1>1. Valid(parser)
    BY DEF ParsesFrom, Spanning
  <1>2. CASE BadInput
    <2> PICK r : r = TxInput(parser)
      OBVIOUS
    <2>1. Further(r.cur)
      BY <1>1, TxInputLemma, ReadsFurther
    <2>2. Abort(r.cur, r.err) /\ log' = log
      BY <1>2 DEF BadInput
    <2>3. QED
      BY <2>1, <2>2, AbortParses
  <1>3. CASE BadOutput
    <2> PICK r : r = TxOutput(parser)
      OBVIOUS
    <2>1. Further(r.cur)
      BY <1>1, TxOutputLemma, ReadsFurther
    <2>2. Abort(r.cur, r.err) /\ log' = log
      BY <1>3 DEF BadOutput
    <2>3. QED
      BY <2>1, <2>2, AbortParses
  <1>4. QED
    BY <1>2, <1>3

(* The loop over the outputs ends.                                         *)
LEMMA EndOutputsParses ==
  ASSUME DataOK, data' = data, NEW o, ParsesFrom(o), EndOutputs
  PROVE  ParsesFrom(o)'
  <1>1. /\ Valid(o) /\ Valid(parser) /\ Counting /\ Logging /\ Spanning(o)
        /\ log \in Seq(Deliveries) /\ head.inputs \in Nat /\ outs \in Nat /\ Len(log) \in Nat
    BY LimitTypes DEF ParsesFrom, Spanning, Logging, Counting
  <1>2. /\ pc = "outputs" /\ done = outs /\ pc' \in {"witness", "locktime"} /\ done' = 0
        /\ parser' = parser /\ head' = head /\ outs' = outs /\ witness' = witness
        /\ ret' = ret /\ log' = log
    BY DEF EndOutputs
  <1>3. Counting'
    BY <1>1, <1>2 DEF Counting, CallPhases
  <1>4. Logging'
    BY <1>1, <1>2 DEF Logging, Sorted
  <1>5. Spanning(o)'
    <2>1. Further(parser) /\ o.pos < parser.pos
      BY <1>1, <1>2 DEF Further, Spanning, CallPhases, Valid
    <2>2. QED
      BY <1>1, <1>2, <2>1, SpanningMoves
  <1>6. QED
    BY <1>3, <1>4, <1>5 DEF ParsesFrom

(* A witness is parsed over what the parser has left.                      *)
LEMMA RestIsValid ==
  ASSUME DataOK, NEW c, Valid(c)
  PROVE  Valid(CursorNew(AsSlice(c)))
  <1>1. /\ c.lo \in Nat /\ c.len \in Nat /\ c.pos \in Nat /\ c.pos <= c.len
        /\ c.lo + c.len <= Len(data)
    BY ValidFields
  <1>2. CursorNew(AsSlice(c)) = [lo |-> c.lo + c.pos, len |-> c.len - c.pos, pos |-> 0]
    BY <1>1 DEF CursorNew, AsSlice, Slice
  <1>3. QED
    BY <1>1, <1>2 DEF Valid

(* The steps of Witness::parse move nothing but its own cursor.            *)
LEMMA WitnessParses ==
  ASSUME DataOK, data' = data, NEW o, ParsesFrom(o), ParseWitnessCount \/ ParseWitnessItem
  PROVE  ParsesFrom(o)'
  <1>1. /\ Valid(o) /\ Valid(parser) /\ Counting /\ Logging /\ Spanning(o)
        /\ log \in Seq(Deliveries) /\ head.inputs \in Nat /\ outs \in Nat /\ Len(log) \in Nat
        /\ witness.left \in Nat /\ MaxWitnessItems \in Nat
    BY LimitTypes DEF ParsesFrom, Spanning, Logging, Counting
  <1>2. Further(parser) /\ pc \in {"witness", "items"} /\ o.pos < parser.pos /\ done < head.inputs
    BY <1>1 DEF Further, Valid, Spanning, Counting, CallPhases, ParseWitnessCount, ParseWitnessItem
  <1>3. ASSUME NEW e, Abort(parser, e), log' = log
        PROVE  ParsesFrom(o)'
    BY <1>2, <1>3, AbortParses
  <1>4. ASSUME NEW c, Valid(c), NEW n \in 0 .. MaxWitnessItems,
               witness' = [cur |-> c, left |-> n], pc' = "items",
               UNCHANGED <<parser, head, outs, done, ret, log>>
        PROVE  ParsesFrom(o)'
    <2>1. Valid(witness.cur)'
      BY <1>4 DEF Valid
    <2>2. Counting'
      BY <1>1, <1>2, <1>4, <2>1 DEF Counting, CallPhases
    <2>3. Logging'
      BY <1>1, <1>2, <1>4 DEF Logging, Sorted
    <2>4. Spanning(o)'
      BY <1>1, <1>2, <1>4, SpanningMoves
    <2>5. QED
      BY <2>2, <2>3, <2>4 DEF ParsesFrom
  <1>5. CASE ParseWitnessCount
    <2> PICK c : c = CursorNew(AsSlice(parser))
      OBVIOUS
    <2> PICK r : r = WitnessCount(c)
      OBVIOUS
    <2>1. Valid(c)
      BY <1>1, RestIsValid
    <2>2. Moves(c, r, 0) /\ (r.ok => r.val \in 0 .. MaxWitnessItems)
      BY <2>1, CountsLemma
    <2>3. Valid(r.cur)
      BY <2>1, <2>2, MovedIsValid
    <2>4. CASE r.ok /\ witness' = [cur |-> r.cur, left |-> r.val] /\ pc' = "items"
               /\ UNCHANGED <<parser, head, outs, done, ret>> /\ log' = log
      BY <1>4, <2>2, <2>3, <2>4
    <2>5. CASE ~ r.ok /\ Abort(parser, r.err) /\ log' = log
      BY <1>3, <2>5
    <2>6. QED
      BY <1>5, <2>4, <2>5 DEF ParseWitnessCount
  <1>6. CASE ParseWitnessItem
    <2> PICK r : r = WitnessItem(witness.cur)
      OBVIOUS
    <2>1. Valid(witness.cur) /\ pc = "items" /\ witness.left > 0
      BY <1>1, <1>6 DEF Counting, ParseWitnessItem
    <2>2. Moves(witness.cur, r, 0)
      BY <2>1, WitnessItemLemma
    <2>3. Valid(r.cur) /\ witness.left - 1 \in 0 .. MaxWitnessItems
      BY <1>1, <2>1, <2>2, MovedIsValid DEF Counting
    <2>4. CASE r.ok /\ witness' = [cur |-> r.cur, left |-> witness.left - 1]
               /\ UNCHANGED <<parser, pc, head, outs, done, ret>> /\ log' = log
      BY <1>4, <2>1, <2>3, <2>4
    <2>5. CASE ~ r.ok /\ Abort(parser, r.err) /\ log' = log
      BY <1>3, <2>5
    <2>6. QED
      BY <1>6, <2>4, <2>5 DEF ParseWitnessItem
  <1>7. QED
    BY <1>5, <1>6

(* The parser steps over the witness.                                      *)
LEMMA EndWitnessParses ==
  ASSUME DataOK, data' = data, NEW o, ParsesFrom(o), EndWitness
  PROVE  ParsesFrom(o)'
  <1> PICK r : r = Skip(parser, witness.cur.pos)
    OBVIOUS
  <1>1. /\ Valid(o) /\ Valid(parser) /\ Counting /\ Logging /\ Spanning(o)
        /\ log \in Seq(Deliveries) /\ head.inputs \in Nat /\ outs \in Nat /\ Len(log) \in Nat
        /\ done \in Nat
    BY LimitTypes DEF ParsesFrom, Spanning, Logging, Counting
  <1>2. pc = "items" /\ log' = log /\ witness.cur.pos \in Nat /\ done < head.inputs
    BY <1>1 DEF EndWitness, Counting, Valid
  <1>3. Moves(parser, r, 0) /\ Further(r.cur)
    BY <1>1, <1>2, ReadBytesLemma, ReadsMove, ReadsFurther DEF Skip
  <1>4. CASE r.ok /\ parser' = r.cur /\ done' = done + 1 /\ pc' = "witness"
             /\ UNCHANGED <<head, outs, witness, ret>>
    <2>1. done' \in Nat /\ done' <= head.inputs
      BY <1>1, <1>2, <1>4
    <2>2. Counting'
      BY <1>1, <1>2, <1>4, <2>1 DEF Counting, CallPhases
    <2>3. Logging'
      BY <1>1, <1>2, <1>4 DEF Logging, Sorted
    <2>4. o.pos < r.cur.pos
      BY <1>1, <1>2, <1>3 DEF Spanning, Moves, CallPhases, Valid
    <2>5. Spanning(o)'
      BY <1>1, <1>2, <1>3, <1>4, <2>4, SpanningMoves
    <2>6. QED
      BY <2>2, <2>3, <2>5 DEF ParsesFrom
  <1>5. CASE ~ r.ok /\ Abort(r.cur, r.err)
    BY <1>2, <1>3, <1>5, AbortParses
  <1>6. QED
    BY <1>4, <1>5 DEF EndWitness

(* The lock time ends the call.                                            *)
LEMMA ParseLocktimeParses ==
  ASSUME DataOK, data' = data, NEW o, ParsesFrom(o), ParseLocktime
  PROVE  ParsesFrom(o)'
  <1> PICK r : r = ReadU32(parser)
    OBVIOUS
  <1>1. /\ Valid(parser) /\ Counting /\ Logging /\ Spanning(o) /\ log \in Seq(Deliveries)
    BY DEF ParsesFrom, Spanning, Logging
  <1>2. Moves(parser, r, 4) /\ Further(r.cur)
    BY <1>1, UnsignedLemma, IntReadMoves, ReadsFurther
  <1>3. pc \in {"locktime", "witness"} /\ log' = log /\ head.inputs > 0
        /\ Len(log) = head.inputs + outs
    BY <1>1 DEF ParseLocktime, Counting, Logging, CallPhases
  <1> DEFINE v == [version |-> head.version, locktime |-> r.val,
                   inputs |-> head.inputs, outputs |-> outs]
  <1>4. CASE r.ok /\ Return(r.cur, Returned(TRUE, v, NoError))
    <2>1. /\ parser' = r.cur /\ pc' = "returned" /\ head' = head /\ outs' = outs
          /\ done' = done /\ witness' = witness
          /\ ret'.ok = TRUE /\ ret'.val.inputs = head.inputs /\ ret'.val.outputs = outs
      BY <1>4 DEF Return, Returned
    <2>2. Counting'
      BY <1>1, <2>1 DEF Counting, CallPhases
    <2>3. Logging'
      BY <1>1, <1>3, <2>1 DEF Logging, Sorted
    <2>4. Spanning(o)'
      BY <1>1, <1>2, <1>3, <2>1, SpanningMoves
    <2>5. QED
      BY <2>2, <2>3, <2>4 DEF ParsesFrom
  <1>5. CASE ~ r.ok /\ Abort(r.cur, r.err)
    BY <1>2, <1>3, <1>5, AbortParses
  <1>6. QED
    BY <1>4, <1>5 DEF ParseLocktime

(* Whatever parse_with does between two callbacks keeps its invariant.     *)
LEMMA ParseAloneParses ==
  ASSUME DataOK, data' = data, NEW o, ParsesFrom(o), ParseAlone
  PROVE  ParsesFrom(o)'
  BY ParseHeadParses, ParseOutputCountParses, BadElementParses, EndOutputsParses,
     WitnessParses, EndWitnessParses, ParseLocktimeParses DEF ParseAlone

-----------------------------------------------------------------------------
(* What a call delivers is a matter of the bytes alone, whatever the       *)
(* callbacks answer: each delivery is determined by those before it.       *)

(* The cursor of a call begun on o, after the delivery d.                  *)
Behind(o, d) == MoveTo(o, d.hi - o.lo)

(* Where the i-th delivery is read, if it is an input.                     *)
InputCursor(o, ds, i) == IF i = 1 THEN TxHead(o).cur ELSE Behind(o, ds[i - 1])

(* The count of the outputs, which stands after the last input.            *)
Counted(o, ds) == OutputCount(Behind(o, ds[TxHead(o).val.inputs]))

(* Where the i-th delivery is read, if it is an output.                    *)
OutputCursor(o, ds, i) ==
  IF i = TxHead(o).val.inputs + 1 THEN Counted(o, ds).cur ELSE Behind(o, ds[i - 1])

(* The i-th delivery is the one the buffer holds.                          *)
Genuine(o, ds, i) ==
  IF i <= TxHead(o).val.inputs
  THEN ds[i] = Delivery("input", InputCursor(o, ds, i), TxInput(InputCursor(o, ds, i)))
  ELSE /\ i <= TxHead(o).val.inputs + Counted(o, ds).val
       /\ ds[i] = Delivery("output", OutputCursor(o, ds, i), TxOutput(OutputCursor(o, ds, i)))

(* A call begun on o that gets this far delivers ds.                       *)
Reproducible(o, ds) == \A i \in 1 .. Len(ds) : Genuine(o, ds, i)

(* The locals of a call begun on o are those the buffer determines.        *)
Tracking(o) ==
  /\ Reproducible(o, log)
  /\ pc = "head" => parser = o
  /\ pc # "head" /\ ~ (pc = "returned" /\ ret.ok = FALSE) => head = TxHead(o).val
  /\ pc = "inputs" => parser = InputCursor(o, log, Len(log) + 1)
  /\ pc = "outputs" => parser = OutputCursor(o, log, Len(log) + 1)
  /\ pc \in {"outputs", "witness", "items", "locktime"} \/ (pc = "returned" /\ ret.ok) =>
       outs = Counted(o, log).val

(* As long as the buffer stays, reading it again gives the same.           *)
LEMMA ReadsStay ==
  ASSUME data' = data, NEW c
  PROVE  /\ TxHead(c)' = TxHead(c) /\ OutputCount(c)' = OutputCount(c)
         /\ TxInput(c)' = TxInput(c) /\ TxOutput(c)' = TxOutput(c)
  <1>1. \A x : ReadU8(x)' = ReadU8(x)
    BY DEF ReadU8, At
  <1>2. \A x : ReadU16(x)' = ReadU16(x)
    BY DEF ReadU16, ReadInt, U16, At
  <1>3. \A x : ReadU32(x)' = ReadU32(x)
    BY DEF ReadU32, ReadInt, U32, U16, At
  <1>4. \A x : ReadI32(x)' = ReadI32(x)
    BY DEF ReadI32, ReadInt, I32, U32, U16, At
  <1>5. \A x : ReadU64(x)' = ReadU64(x)
    BY DEF ReadU64, ReadInt, U64, U32, U16, At
  <1>6. \A x, b : VarintFrom(x, b)' = VarintFrom(x, b)
    BY <1>2, <1>3, <1>5 DEF VarintFrom
  <1>7. \A x : ReadVarint(x)' = ReadVarint(x)
    BY <1>1, <1>6 DEF ReadVarint
  <1>8. \A x : Script(x)' = Script(x)
    BY <1>7 DEF Script, ReadVarBytes
  <1>9. \A f : CountAfter(f)' = CountAfter(f)
    BY <1>1, <1>6, <1>7 DEF CountAfter, AndThen
  <1>10. TxHead(c)' = TxHead(c)
    BY <1>1, <1>4, <1>9 DEF TxHead, AndThen
  <1>11. OutputCount(c)' = OutputCount(c)
    BY <1>7 DEF OutputCount
  <1>12. TxInput(c)' = TxInput(c)
    BY <1>3, <1>8 DEF TxInput, AndThen
  <1>13. TxOutput(c)' = TxOutput(c)
    BY <1>5, <1>8 DEF TxOutput, AndThen
  <1>14. QED
    BY <1>10, <1>11, <1>12, <1>13

(* So what a call delivers stays the same.                                 *)
LEMMA ReproducibleStays ==
  ASSUME data' = data, NEW o, NEW ds
  PROVE  /\ Reproducible(o, ds)' <=> Reproducible(o, ds)
         /\ Counted(o, ds)' = Counted(o, ds)
         /\ \A i : InputCursor(o, ds, i)' = InputCursor(o, ds, i)
         /\ \A i : OutputCursor(o, ds, i)' = OutputCursor(o, ds, i)
  <1>1. Counted(o, ds)' = Counted(o, ds)
    BY ReadsStay DEF Counted, Behind, MoveTo
  <1>2. \A i : InputCursor(o, ds, i)' = InputCursor(o, ds, i)
    BY ReadsStay DEF InputCursor, Behind, MoveTo
  <1>3. \A i : OutputCursor(o, ds, i)' = OutputCursor(o, ds, i)
    BY <1>1, ReadsStay DEF OutputCursor, Behind, MoveTo
  <1>4. \A i : Genuine(o, ds, i)' <=> Genuine(o, ds, i)
    BY <1>1, <1>2, <1>3, ReadsStay DEF Genuine, Delivery
  <1>5. QED
    BY <1>1, <1>2, <1>3, <1>4 DEF Reproducible

(* Two calls begun on the same cursor that have delivered the same so far  *)
(* deliver the same next.                                                  *)
LEMMA NextDeliveryAgrees ==
  ASSUME NEW o, TxHead(o).val.inputs \in Nat \ {0},
         NEW ds, NEW es, NEW j \in Nat \ {0}, Genuine(o, ds, j), Genuine(o, es, j),
         \A i \in 1 .. j - 1 : ds[i] = es[i]
  PROVE  ds[j] = es[j]
  <1> DEFINE n == TxHead(o).val.inputs
  <1>1. j = 1 \/ ds[j - 1] = es[j - 1]
    OBVIOUS
  <1>2. CASE j <= n
    <2>1. InputCursor(o, ds, j) = InputCursor(o, es, j)
      BY <1>1 DEF InputCursor
    <2>2. QED
      BY <1>2, <2>1 DEF Genuine
  <1>3. CASE ~ (j <= n)
    <2>1. ds[n] = es[n]
      BY <1>3
    <2>2. Counted(o, ds) = Counted(o, es)
      BY <2>1 DEF Counted
    <2>3. OutputCursor(o, ds, j) = OutputCursor(o, es, j)
      BY <1>1, <1>3, <2>2 DEF OutputCursor
    <2>4. QED
      BY <1>3, <2>3 DEF Genuine
  <1>4. QED
    BY <1>2, <1>3

(* One more genuine delivery; what was delivered before it counts only.    *)
LEMMA ReproducibleAppend ==
  ASSUME NEW o, TxHead(o).val.inputs \in Nat \ {0},
         NEW ds \in Seq(Deliveries), Reproducible(o, ds),
         NEW d, Genuine(o, Append(ds, d), Len(ds) + 1)
  PROVE  Reproducible(o, Append(ds, d))
  <1> DEFINE n  == TxHead(o).val.inputs
             es == Append(ds, d)
  <1>1. /\ Len(es) = Len(ds) + 1 /\ Len(ds) \in Nat
        /\ \A i \in 1 .. Len(ds) : es[i] = ds[i]
    OBVIOUS
  <1> HIDE DEF es
  <1>2. ASSUME NEW i \in 1 .. Len(ds)
        PROVE  Genuine(o, es, i)
    <2>1. Genuine(o, ds, i)
      BY DEF Reproducible
    <2>2. es[i] = ds[i] /\ (i # 1 => es[i - 1] = ds[i - 1])
      <3>1. i # 1 => i - 1 \in 1 .. Len(ds)
        BY <1>1
      <3>2. QED
        BY <1>1, <3>1
    <2>3. CASE i <= n
      <3>1. InputCursor(o, es, i) = InputCursor(o, ds, i)
        BY <2>2 DEF InputCursor
      <3>2. QED
        BY <2>1, <2>2, <2>3, <3>1 DEF Genuine
    <2>4. CASE ~ (i <= n)
      <3>1. es[n] = ds[n]
        BY <1>1, <2>4
      <3>2. Counted(o, es) = Counted(o, ds)
        BY <3>1 DEF Counted
      <3>3. OutputCursor(o, es, i) = OutputCursor(o, ds, i)
        BY <2>2, <2>4, <3>2 DEF OutputCursor
      <3>4. QED
        BY <2>1, <2>2, <2>4, <3>2, <3>3 DEF Genuine
    <2>5. QED
      BY <2>3, <2>4
  <1>3. ASSUME NEW i \in 1 .. Len(es)
        PROVE  Genuine(o, es, i)
    <2>1. CASE i = Len(ds) + 1
      BY <2>1 DEF es
    <2>2. CASE i \in 1 .. Len(ds)
      BY <1>2, <2>2
    <2>3. QED
      BY <1>1, <2>1, <2>2
  <1>4. QED
    BY <1>3 DEF Reproducible, es

(* A call begins where it was called.                                      *)
LEMMA BeginTracks ==
  ASSUME NEW c, Begin(c), data' = data
  PROVE  Tracking(c)'
  <1>1. parser' = c /\ pc' = "head" /\ log' = <<>>
    BY DEF Begin
  <1>2. QED
    BY <1>1 DEF Tracking, Reproducible

(* A step that delivers nothing and ends the call, or its loops.           *)
LEMMA QuietTracks ==
  ASSUME data' = data, NEW o, Tracking(o), log' = log,
         pc # "head" \/ (pc' = "returned" /\ ret'.ok = FALSE),
         head' = head, outs' = outs,
         \/ pc' = "returned" /\ ret'.ok = FALSE
         \/ /\ pc' \in {"witness", "items", "locktime", "returned"}
            /\ pc \in {"outputs", "witness", "items", "locktime"}
  PROVE  Tracking(o)'
  <1> PICK l : l = log
    OBVIOUS
  <1>1. Reproducible(o, log)'
    <2>1. Reproducible(o, l)'
      BY ReproducibleStays DEF Tracking
    <2>2. QED
      BY <2>1
  <1>2. TxHead(o)' = TxHead(o)
    BY ReadsStay
  <1>3. Counted(o, log)' = Counted(o, log)
    <2>1. Counted(o, l)' = Counted(o, l)
      BY ReproducibleStays
    <2>2. QED
      BY <2>1
  <1>4. QED
    BY <1>1, <1>2, <1>3 DEF Tracking

(* What parse_with does between two callbacks follows the buffer.          *)
LEMMA ParseAloneTracks ==
  ASSUME DataOK, data' = data, NEW o, ParsesFrom(o), Tracking(o), ParseAlone
  PROVE  Tracking(o)'
  <1> PICK l : l = log
    OBVIOUS
  <1>0. /\ Counting /\ Logging /\ log \in Seq(Deliveries) /\ log' = log
    BY DEF ParsesFrom, Logging, ParseAlone, ParseHead, BadInput, ParseOutputCount, BadOutput,
           EndOutputs, ParseWitnessCount, ParseWitnessItem, EndWitness, ParseLocktime
  <1>1. Reproducible(o, log)'
    <2>1. Reproducible(o, l)'
      BY ReproducibleStays DEF Tracking
    <2>2. QED
      BY <1>0, <2>1
  <1>2. ASSUME NEW c, NEW e, Abort(c, e)
        PROVE  Tracking(o)'
    BY <1>0, <1>2, QuietTracks DEF Abort, Return, Returned
  <1>3. CASE ParseHead
    <2> PICK r : r = TxHead(parser)
      OBVIOUS
    <2>1. CASE r.ok /\ parser' = r.cur /\ head' = r.val /\ pc' = "inputs"
      <3>1. parser = o /\ log = <<>>
        BY <1>0, <1>3 DEF ParseHead, Tracking, Logging
      <3>2. TxHead(o)' = r
        BY <3>1, ReadsStay
      <3>3. parser' = InputCursor(o, log, Len(log) + 1)'
        <4>1. log' = <<>> /\ Len(log') + 1 = 1
          BY <1>0, <3>1
        <4>2. QED
          BY <2>1, <3>2, <4>1 DEF InputCursor
      <3>4. QED
        BY <1>1, <2>1, <3>2, <3>3 DEF Tracking
    <2>2. CASE Abort(r.cur, r.err)
      BY <1>2, <2>2
    <2>3. QED
      BY <1>3, <2>1, <2>2 DEF ParseHead
  <1>4. CASE ParseOutputCount
    <2> PICK r : r = OutputCount(parser)
      OBVIOUS
    <2>1. CASE r.ok /\ parser' = r.cur /\ outs' = r.val /\ pc' = "outputs" /\ head' = head
      <3>1. /\ pc = "inputs" /\ Len(log) = head.inputs /\ head = TxHead(o).val
            /\ head.inputs \in Nat \ {0}
        BY <1>0, <1>4, LimitTypes DEF ParseOutputCount, Tracking, Logging, Counting, CallPhases
      <3>2. parser = Behind(o, log[head.inputs])
        BY <3>1 DEF Tracking, InputCursor
      <3>3. Counted(o, l) = r
        BY <3>1, <3>2 DEF Counted
      <3>4. TxHead(o)' = TxHead(o) /\ Counted(o, l)' = r
        BY <3>3, ReadsStay, ReproducibleStays
      <3>5. parser' = OutputCursor(o, l, Len(l) + 1)'
        BY <2>1, <3>1, <3>4 DEF OutputCursor
      <3>6. QED
        BY <1>0, <1>1, <2>1, <3>1, <3>4, <3>5 DEF Tracking
    <2>2. CASE Abort(r.cur, r.err)
      BY <1>2, <2>2
    <2>3. QED
      BY <1>4, <2>1, <2>2 DEF ParseOutputCount
  <1>5. CASE BadInput \/ BadOutput
    BY <1>2, <1>5 DEF BadInput, BadOutput
  <1>6. CASE EndOutputs
    <2>1. pc = "outputs" /\ pc' \in {"witness", "locktime"} /\ head' = head /\ outs' = outs
      BY <1>6 DEF EndOutputs
    <2>2. QED
      BY <1>0, <2>1, QuietTracks
  <1>7. CASE ParseWitnessCount
    <2>1. /\ pc = "witness" /\ head' = head /\ outs' = outs
          /\ pc' = "items" \/ (pc' = "returned" /\ ret'.ok = FALSE)
      BY <1>7 DEF ParseWitnessCount, Abort, Return, Returned
    <2>2. QED
      BY <1>0, <2>1, QuietTracks
  <1>8. CASE ParseWitnessItem
    <2>1. /\ pc = "items" /\ head' = head /\ outs' = outs
          /\ pc' = "items" \/ (pc' = "returned" /\ ret'.ok = FALSE)
      BY <1>8 DEF ParseWitnessItem, Abort, Return, Returned
    <2>2. QED
      BY <1>0, <2>1, QuietTracks
  <1>9. CASE EndWitness
    <2>1. /\ pc = "items" /\ head' = head /\ outs' = outs
          /\ pc' = "witness" \/ (pc' = "returned" /\ ret'.ok = FALSE)
      BY <1>9 DEF EndWitness, Abort, Return, Returned
    <2>2. QED
      BY <1>0, <2>1, QuietTracks
  <1>10. CASE ParseLocktime
    <2>1. /\ pc \in {"witness", "locktime"} /\ head' = head /\ outs' = outs
          /\ pc' = "returned"
      BY <1>10 DEF ParseLocktime, Abort, Return, Returned
    <2>2. QED
      BY <1>0, <2>1, QuietTracks
  <1>11. QED
    BY <1>3, <1>4, <1>5, <1>6, <1>7, <1>8, <1>9, <1>10 DEF ParseAlone

(* A delivery is the one the buffer holds next.                            *)
LEMMA HandOverTracks ==
  ASSUME DataOK, data' = data, NEW o, ParsesFrom(o), Tracking(o),
         NEW kind, Due(kind), NEW r, Moves(parser, r, 1),
         r = IF kind = "input" THEN TxInput(parser) ELSE TxOutput(parser),
         NEW called \in BOOLEAN, NEW e, called \/ e # NoError,
         HandOver(kind, r, called, e)
  PROVE  Tracking(o)'
  <1> PICK d : d = Delivery(kind, parser, r)
    OBVIOUS
  <1> PICK l : l = log'
    OBVIOUS
  <1> PICK p : p = parser
    OBVIOUS
  <1>1. /\ Counting /\ Logging /\ log \in Seq(Deliveries) /\ Len(log) \in Nat
        /\ head = TxHead(o).val /\ head.inputs \in Nat \ {0} /\ outs \in Nat /\ done \in Nat
        /\ TxHead(o).val.inputs \in Nat \ {0}
    BY LimitTypes DEF ParsesFrom, Logging, Counting, CallPhases, Tracking, Due
  <1>2. l = IF called THEN Append(log, d) ELSE log
    BY DEF HandOver
  <1>3. ASSUME called
        PROVE  Genuine(o, Append(log, d), Len(log) + 1)
    <2> DEFINE es == Append(log, d)
               j  == Len(log) + 1
    <2>1. es[j] = d /\ \A i \in 1 .. Len(log) : es[i] = log[i]
      BY <1>1
    <2>2. j - 1 = Len(log) /\ (j # 1 => es[j - 1] = log[j - 1])
      BY <1>1, <2>1
    <2>3. Reproducible(o, log)
      BY DEF Tracking
    <2> HIDE DEF es
    <2>4. CASE pc = "inputs" /\ done < head.inputs /\ kind = "input"
      <3>1. j <= TxHead(o).val.inputs
        BY <1>1, <2>4 DEF Logging
      <3>2. parser = InputCursor(o, es, j)
        BY <2>2, <2>4 DEF Tracking, InputCursor
      <3>3. QED
        BY <2>1, <2>4, <3>1, <3>2 DEF Genuine, es
    <2>5. CASE pc = "outputs" /\ done < outs /\ kind = "output"
      <3>1. /\ Len(log) = head.inputs + done /\ outs = Counted(o, log).val
        BY <1>1, <2>5 DEF Logging, Tracking
      <3>2. /\ ~ (j <= TxHead(o).val.inputs)
            /\ j <= TxHead(o).val.inputs + Counted(o, log).val
        BY SMTT(60), <1>1, <2>5, <3>1
      <3>3. es[TxHead(o).val.inputs] = log[TxHead(o).val.inputs]
        <4>1. TxHead(o).val.inputs \in 1 .. Len(log)
          BY <1>1, <3>1
        <4>2. QED
          BY <2>1, <4>1
      <3>4. Counted(o, es) = Counted(o, log)
        BY <3>3 DEF Counted
      <3>5. parser = OutputCursor(o, es, j)
        <4>1. parser = OutputCursor(o, log, j)
          BY <2>5 DEF Tracking
        <4>2. j # 1
          BY <1>1, <3>2
        <4>3. QED
          BY <2>2, <3>4, <4>1, <4>2 DEF OutputCursor
      <3>6. r = TxOutput(parser) /\ d = Delivery("output", parser, r)
        BY <2>5
      <3>7. QED
        BY <2>1, <3>2, <3>4, <3>5, <3>6 DEF Genuine, es
    <2>6. QED
      BY <2>4, <2>5 DEF Due, es
  <1>4. Reproducible(o, l)
    <2>1. Reproducible(o, log)
      BY DEF Tracking
    <2>2. CASE called
      BY <1>1, <1>2, <1>3, <2>1, <2>2, ReproducibleAppend
    <2>3. CASE ~ called
      BY <1>2, <2>1, <2>3
    <2>4. QED
      BY <2>2, <2>3
  <1>5. Reproducible(o, log)'
    <2>1. Reproducible(o, l)'
      BY <1>4, ReproducibleStays
    <2>2. QED
      BY <2>1
  <1>6. CASE Abort(r.cur, e)
    BY <1>5, <1>6 DEF Tracking, Abort, Return, Returned
  <1>7. CASE e = NoError /\ parser' = r.cur /\ done' = done + 1
             /\ UNCHANGED <<pc, head, outs, witness, ret>>
    <2>1. l = Append(log, d) /\ Len(l) = Len(log) + 1 /\ l[Len(log) + 1] = d
          /\ Len(l) + 1 # 1 /\ l[(Len(l) + 1) - 1] = d /\ Len(l) \in Nat
      BY <1>1, <1>2, <1>7
    <2>2. parser' = Behind(o, d)
      <3>1. /\ parser.lo = o.lo /\ parser.len = o.len /\ o.lo \in Nat
        BY DEF ParsesFrom, Spanning, Valid
      <3>2. /\ r.cur \in [lo : Nat, len : Nat, pos : Nat]
            /\ r.cur.lo = o.lo /\ r.cur.len = o.len
        BY <3>1 DEF Moves
      <3>3. d.hi - o.lo = r.cur.pos
        BY <3>1, <3>2 DEF Delivery
      <3>4. QED
        BY <1>7, <3>2, <3>3 DEF Behind, MoveTo
    <2>3. TxHead(o)' = TxHead(o) /\ Counted(o, l)' = Counted(o, l)
      BY ReadsStay, ReproducibleStays
    <2>4. CASE pc = "inputs"
      <3>1. InputCursor(o, l, Len(l) + 1) = Behind(o, d)
        BY <2>1 DEF InputCursor
      <3>2. InputCursor(o, l, Len(l) + 1)' = Behind(o, d)
        BY <3>1, ReproducibleStays
      <3>3. QED
        BY <1>1, <1>5, <1>7, <2>2, <2>3, <2>4, <3>2 DEF Tracking
    <2>5. CASE pc = "outputs"
      <3>1. /\ Len(log) = head.inputs + done /\ outs = Counted(o, log).val
        BY <1>1, <2>5 DEF Logging, Tracking
      <3>2. l[TxHead(o).val.inputs] = log[TxHead(o).val.inputs]
        <4>1. TxHead(o).val.inputs \in 1 .. Len(log)
          BY <1>1, <3>1
        <4>2. QED
          BY <1>1, <2>1, <4>1
      <3>3. Counted(o, l) = Counted(o, log)
        BY <3>2 DEF Counted
      <3>4. Len(l) + 1 # TxHead(o).val.inputs + 1
        BY <1>1, <2>1, <3>1
      <3>5. OutputCursor(o, l, Len(l) + 1) = Behind(o, d)
        BY <2>1, <3>4 DEF OutputCursor
      <3>6. OutputCursor(o, l, Len(l) + 1)' = Behind(o, d)
        BY <3>5, ReproducibleStays
      <3>7. QED
        BY <1>1, <1>5, <1>7, <2>2, <2>3, <2>5, <3>1, <3>3, <3>6 DEF Tracking
    <2>6. QED
      BY <2>4, <2>5 DEF Due
  <1>8. QED
    BY <1>6, <1>7 DEF HandOver

(* The callbacks are given what the buffer holds.                          *)
LEMMA CallbacksTrack ==
  ASSUME DataOK, data' = data, NEW o, ParsesFrom(o), Tracking(o),
         NEW called \in BOOLEAN, NEW e, called \/ e # NoError,
         ParseInput(called, e) \/ (called /\ ParseOutput(e))
  PROVE  Tracking(o)'
  <1>1. Valid(parser)
    BY DEF ParsesFrom, Spanning
  <1>2. CASE ParseInput(called, e)
    <2> PICK r : r = TxInput(parser)
      OBVIOUS
    <2>1. HandOver("input", r, called, e) /\ Due("input") /\ Moves(parser, r, 1)
      BY <1>1, <1>2, TxInputLemma DEF ParseInput, Due
    <2>2. r = IF "input" = "input" THEN TxInput(parser) ELSE TxOutput(parser)
      OBVIOUS
    <2>3. QED
      BY <2>1, <2>2, HandOverTracks
  <1>3. CASE called /\ ParseOutput(e)
    <2> PICK r : r = TxOutput(parser)
      OBVIOUS
    <2>1. HandOver("output", r, called, e) /\ Due("output") /\ Moves(parser, r, 1)
      BY <1>1, <1>3, TxOutputLemma DEF ParseOutput, Due
    <2>2. r = IF "output" = "input" THEN TxInput(parser) ELSE TxOutput(parser)
      OBVIOUS
    <2>3. QED
      BY <2>1, <2>2, HandOverTracks
  <1>4. QED
    BY <1>2, <1>3

-----------------------------------------------------------------------------
(* A call that fails says why.                                             *)

(* A result that is not Ok carries an error.                               *)
Explained(r) == r.ok \/ r.err # NoError

(* The reads of the cursor, and the integers read with them.               *)
LEMMA ReadsExplained ==
  ASSUME NEW c, NEW n
  PROVE  /\ Explained(ReadBytes(c, n)) /\ Explained(ReadU8(c)) /\ Explained(ReadU16(c))
         /\ Explained(ReadU32(c)) /\ Explained(ReadI32(c)) /\ Explained(ReadU64(c))
  <1>1. \A x, m : Explained(ReadBytes(x, m))
    BY DEF ReadBytes, Explained, Ok, Fail, Result, UnexpectedEof, NoError
  <1>2. Explained(ReadU8(c))
    BY DEF ReadU8, Explained, Ok, Fail, Result, UnexpectedEof, NoError
  <1>3. \A x, v, got : Explained(Ok(x, v, got))
    BY DEF Explained, Ok, Result
  <1>4. Explained(ReadU16(c))
    BY <1>1, <1>3 DEF ReadU16, ReadInt
  <1>5. Explained(ReadU32(c))
    BY <1>1, <1>3 DEF ReadU32, ReadInt
  <1>6. Explained(ReadI32(c))
    BY <1>1, <1>3 DEF ReadI32, ReadInt
  <1>7. Explained(ReadU64(c))
    BY <1>1, <1>3 DEF ReadU64, ReadInt
  <1>8. QED
    BY <1>1, <1>2, <1>4, <1>5, <1>6, <1>7

(* let x = r?; s                                                           *)
LEMMA AndThenExplained ==
  ASSUME NEW r, Explained(r), NEW s, r.ok => Explained(s)
  PROVE  Explained(IF r.ok THEN After(r, s) ELSE r)
  BY DEF Explained, After, Result

(* The checks of a count.                                                  *)
LEMMA CountExplained ==
  ASSUME NEW r, Explained(r), NEW max
  PROVE  Explained(CountRead(r, max)) /\ Explained(InputCount(r))
  <1>1. \A x : Explained(x) => Explained(ToUsize(x))
    BY DEF Explained, ToUsize, Fail, Result, IntegerTooLarge, NoError
  <1>2. \A x, m : Explained(x) => Explained(Capped(x, m))
    BY DEF Explained, Capped, Fail, Result, OversizedData, NoError
  <1>3. \A x : Explained(x) => Explained(NonZero(x))
    BY DEF Explained, NonZero, Fail, Result, InvalidInputCount, NoError
  <1>4. QED
    BY <1>1, <1>2, <1>3 DEF CountRead, InputCount

(* The variable-length reads.                                              *)
LEMMA VarReadsExplained ==
  ASSUME NEW c, NEW first, NEW max
  PROVE  /\ Explained(VarintFrom(c, first)) /\ Explained(ReadVarint(c))
         /\ Explained(ReadVarBytes(c, max))
  <1>1. \A x, b : Explained(VarintFrom(x, b))
    <2>1. \A x, v, got : Explained(Ok(x, v, got))
      BY DEF Explained, Ok, Result
    <2>2. QED
      BY <2>1, ReadsExplained DEF VarintFrom
  <1>2. Explained(ReadVarint(c))
    BY <1>1, ReadsExplained, AndThenExplained DEF ReadVarint
  <1>3. Explained(CountRead(ReadVarint(c), max))
    BY <1>2, CountExplained
  <1>4. QED
    BY <1>1, <1>2, <1>3, ReadsExplained, AndThenExplained DEF ReadVarBytes, CountRead

(* An input.                                                               *)
LEMMA TxInputExplained ==
  ASSUME NEW c
  PROVE  Explained(TxInput(c))
  <1> DEFINE txid == ReadArray(c, HashLen)
             vout == ReadU32(txid.cur)
             sig  == Script(vout.cur)
             seq  == ReadU32(sig.cur)
             v    == [txid |-> txid.val, vout |-> vout.val,
                      script |-> sig.val, sequence |-> seq.val]
             s0   == Ok(seq.cur, v, {})
             s1   == IF seq.ok THEN After(seq, s0) ELSE seq
             s2   == IF sig.ok THEN After(sig, s1) ELSE sig
             s3   == IF vout.ok THEN After(vout, s2) ELSE vout
             s4   == IF txid.ok THEN After(txid, s3) ELSE txid
  <1>1. Explained(txid) /\ Explained(vout) /\ Explained(sig) /\ Explained(seq)
    BY ReadsExplained, VarReadsExplained DEF ReadArray, Script
  <1>2. Explained(s0)
    BY DEF Explained, Ok, Result
  <1>3. TxInput(c) = s4
    BY DEF TxInput, AndThen
  <1> HIDE DEF txid, vout, sig, seq, s0
  <1>4. Explained(s1)
    BY <1>1, <1>2, AndThenExplained
  <1> HIDE DEF s1
  <1>5. Explained(s2)
    BY <1>1, <1>4, AndThenExplained
  <1> HIDE DEF s2
  <1>6. Explained(s3)
    BY <1>1, <1>5, AndThenExplained
  <1> HIDE DEF s3
  <1>7. Explained(s4)
    BY <1>1, <1>6, AndThenExplained
  <1>8. QED
    BY <1>3, <1>7

(* An output, and the other counts.                                        *)
LEMMA TxOutputExplained ==
  ASSUME NEW c
  PROVE  /\ Explained(TxOutput(c)) /\ Explained(OutputCount(c))
         /\ Explained(WitnessCount(c)) /\ Explained(WitnessItem(c))
  <1> DEFINE value == ReadU64(c)
             key   == Script(value.cur)
             s0    == Ok(key.cur, [value |-> value.val, script |-> key.val], {})
             s1    == IF key.ok THEN After(key, s0) ELSE key
             s2    == IF value.ok THEN After(value, s1) ELSE value
  <1>1. Explained(value) /\ Explained(key)
    BY ReadsExplained, VarReadsExplained DEF Script
  <1>2. Explained(s0)
    BY DEF Explained, Ok, Result
  <1>3. TxOutput(c) = s2
    BY DEF TxOutput, AndThen
  <1> HIDE DEF value, key, s0
  <1>4. Explained(s1)
    BY <1>1, <1>2, AndThenExplained
  <1> HIDE DEF s1
  <1>5. Explained(s2)
    BY <1>1, <1>4, AndThenExplained
  <1>6. Explained(OutputCount(c)) /\ Explained(WitnessCount(c))
    BY VarReadsExplained, CountExplained DEF OutputCount, WitnessCount
  <1>7. Explained(WitnessItem(c))
    BY VarReadsExplained DEF WitnessItem
  <1>8. QED
    BY <1>3, <1>5, <1>6, <1>7

(* The beginning of a transaction.                                         *)
LEMMA TxHeadExplained ==
  ASSUME NEW c
  PROVE  Explained(TxHead(c))
  <1> DEFINE version == ReadI32(c)
             first   == ReadU8(version.cur)
             flag    == ReadU8(first.cur)
             t0      == IF flag.val = 1
                        THEN InputCount(ReadVarint(flag.cur))
                        ELSE Fail(flag.cur, InvalidSegwitFlag(flag.val), {})
             count   == CountAfter(first)
             s0      == Ok(count.cur, [version |-> version.val, segwit |-> first.val = 0,
                                       inputs |-> count.val], {})
             s1      == IF count.ok THEN After(count, s0) ELSE count
             s2      == IF first.ok THEN After(first, s1) ELSE first
             s3      == IF version.ok THEN After(version, s2) ELSE version
  <1>1. Explained(version) /\ Explained(first) /\ Explained(flag)
    BY ReadsExplained
  <1>2. Explained(t0)
    <2>1. Explained(InputCount(ReadVarint(flag.cur)))
      BY VarReadsExplained, CountExplained
    <2>2. Explained(Fail(flag.cur, InvalidSegwitFlag(flag.val), {}))
      BY DEF Explained, Fail, Result, InvalidSegwitFlag, NoError
    <2>3. QED
      BY <2>1, <2>2
  <1>3. Explained(count)
    <2> HIDE DEF t0, first
    <2>1. Explained(IF flag.ok THEN After(flag, t0) ELSE flag)
      BY <1>1, <1>2, AndThenExplained
    <2>2. Explained(InputCount(VarintFrom(first.cur, first.val)))
      BY VarReadsExplained, CountExplained
    <2>3. count = IF first.val # 0
                  THEN InputCount(VarintFrom(first.cur, first.val))
                  ELSE IF flag.ok THEN After(flag, t0) ELSE flag
      BY DEF CountAfter, AndThen, t0
    <2>4. QED
      BY <2>1, <2>2, <2>3
  <1>4. Explained(s0)
    BY DEF Explained, Ok, Result
  <1>5. TxHead(c) = s3
    BY DEF TxHead, AndThen
  <1> HIDE DEF version, first, count, s0
  <1>6. Explained(s1)
    BY <1>3, <1>4, AndThenExplained
  <1> HIDE DEF s1
  <1>7. Explained(s2)
    BY <1>1, <1>6, AndThenExplained
  <1> HIDE DEF s2
  <1>8. Explained(s3)
    BY <1>1, <1>7, AndThenExplained
  <1>9. QED
    BY <1>5, <1>8

(* parse_with has returned Ok, or an error.                                *)
Answered == pc = "returned" => Explained(ret)

(* A step that ends the call with an error, or goes on.                    *)
LEMMA AbortAnswers ==
  ASSUME NEW c, NEW e, Abort(c, e), e # NoError
  PROVE  Answered'
  BY DEF Abort, Return, Returned, Answered, Explained

(* The steps without callbacks.                                            *)
LEMMA ParseAloneAnswers ==
  ASSUME ParseAlone
  PROVE  Answered'
  <1>1. CASE ParseHead
    <2>1. CASE ~ TxHead(parser).ok
      BY <1>1, <2>1, TxHeadExplained, AbortAnswers DEF ParseHead, Explained
    <2>2. QED
      BY <1>1, <2>1 DEF ParseHead, Answered
  <1>2. CASE BadInput
    BY <1>2, TxInputExplained, AbortAnswers DEF BadInput, Explained
  <1>3. CASE ParseOutputCount
    <2>1. CASE ~ OutputCount(parser).ok
      BY <1>3, <2>1, TxOutputExplained, AbortAnswers DEF ParseOutputCount, Explained
    <2>2. QED
      BY <1>3, <2>1 DEF ParseOutputCount, Answered
  <1>4. CASE BadOutput
    BY <1>4, TxOutputExplained, AbortAnswers DEF BadOutput, Explained
  <1>5. CASE EndOutputs
    BY <1>5 DEF EndOutputs, Answered
  <1>6. CASE ParseWitnessCount
    <2>1. CASE ~ WitnessCount(CursorNew(AsSlice(parser))).ok
      BY <1>6, <2>1, TxOutputExplained, AbortAnswers DEF ParseWitnessCount, Explained
    <2>2. QED
      BY <1>6, <2>1 DEF ParseWitnessCount, Answered
  <1>7. CASE ParseWitnessItem
    <2>1. CASE ~ WitnessItem(witness.cur).ok
      BY <1>7, <2>1, TxOutputExplained, AbortAnswers DEF ParseWitnessItem, Explained
    <2>2. QED
      BY <1>7, <2>1 DEF ParseWitnessItem, Answered
  <1>8. CASE EndWitness
    <2>1. CASE ~ Skip(parser, witness.cur.pos).ok
      BY <1>8, <2>1, ReadsExplained, AbortAnswers DEF EndWitness, Explained, Skip
    <2>2. QED
      BY <1>8, <2>1 DEF EndWitness, Answered
  <1>9. CASE ParseLocktime
    <2>1. CASE ~ ReadU32(parser).ok
      BY <1>9, <2>1, ReadsExplained, AbortAnswers DEF ParseLocktime, Explained
    <2>2. CASE ReadU32(parser).ok
      BY <1>9, <2>2 DEF ParseLocktime, Return, Returned, Answered, Explained
    <2>3. QED
      BY <2>1, <2>2
  <1>10. QED
    BY <1>1, <1>2, <1>3, <1>4, <1>5, <1>6, <1>7, <1>8, <1>9 DEF ParseAlone

(* The steps with one: what the callback answers, if it is an error, is    *)
(* what the call returns.                                                  *)
LEMMA CallbacksAnswer ==
  ASSUME NEW called, NEW e, ParseInput(called, e) \/ ParseOutput(e)
  PROVE  Answered'
  <1>1. \A kind, r, b : HandOver(kind, r, b, e) /\ pc # "returned" => Answered'
    BY AbortAnswers DEF HandOver, Answered
  <1>2. QED
    BY <1>1 DEF ParseInput, ParseOutput

-----------------------------------------------------------------------------
(* Digits.                                                                 *)

(* Division with remainder, to a positive base.                            *)
LEMMA DivMod ==
  ASSUME NEW b \in Nat, b > 0, NEW v \in Int
  PROVE  /\ v \div b \in Int /\ v % b \in 0 .. b - 1
         /\ v = b * (v \div b) + (v % b)
  <1>1. v % b \in 0 .. b - 1
    BY Z3
  <1>2. v \div b \in Int
    BY Z3
  <1>3. v = b * (v \div b) + (v % b)
    BY Z3
  <1>4. QED
    BY <1>1, <1>2, <1>3

(* There is only one way to divide.                                        *)
LEMMA DivModUnique ==
  ASSUME NEW b \in Nat, b > 0, NEW q \in Int, NEW r \in 0 .. b - 1,
         NEW s \in Int, NEW t \in 0 .. b - 1, b * q + r = b * s + t
  PROVE  q = s /\ r = t
  <1>1. ASSUME NEW m \in Int, NEW n \in Int, m + 1 <= n
        PROVE  b * m + b <= b * n
    <2>1. b * (m + 1) <= b * n
      BY <1>1
    <2>2. b * (m + 1) = b * m + b
      OBVIOUS
    <2>3. QED
      BY <2>1, <2>2
  <1>2. b * q \in Int /\ b * s \in Int
    OBVIOUS
  <1>3. CASE q + 1 <= s
    BY <1>1, <1>2, <1>3
  <1>4. CASE s + 1 <= q
    BY <1>1, <1>2, <1>4
  <1>5. CASE q = s
    BY <1>2, <1>5
  <1>6. QED
    BY <1>3, <1>4, <1>5

(* Two digits of v to the base b are one to the base b * b.                *)
LEMMA TwoLowest ==
  ASSUME NEW b \in Nat, b > 0, NEW v \in Int
  PROVE  v % (b * b) = (v % b) + b * ((v \div b) % b)
  <1> PICK q, r : q = v \div b /\ r = v % b
    OBVIOUS
  <1> PICK s, t : s = q \div b /\ t = q % b
    OBVIOUS
  <1>1. q \in Int /\ r \in 0 .. b - 1 /\ v = b * q + r
    BY DivMod
  <1>2. s \in Int /\ t \in 0 .. b - 1 /\ q = b * s + t
    BY <1>1, DivMod
  <1>3. b * b \in Nat /\ b * b > 0 /\ b * t \in Int /\ b * q \in Int
    BY <1>1, <1>2
  <1>4. v = (b * b) * s + (b * t + r)
    <2>1. b * (b * s + t) = (b * b) * s + b * t
      BY <1>2
    <2>2. (b * b) * s \in Int
      BY <1>2
    <2>3. QED
      BY <1>1, <1>2, <1>3, <2>1, <2>2
  <1>5. b * t + r \in 0 .. b * b - 1
    <2>1. b * t <= b * (b - 1) /\ 0 <= b * t
      BY <1>2
    <2>2. b * (b - 1) = b * b - b
      OBVIOUS
    <2>3. QED
      BY <1>1, <1>3, <2>1, <2>2
  <1>6. PICK bb, lo : bb = b * b /\ lo = b * t + r
    OBVIOUS
  <1>7. /\ bb \in Nat /\ bb > 0 /\ lo \in 0 .. bb - 1 /\ v = bb * s + lo
    BY <1>3, <1>4, <1>5, <1>6
  <1>8. v \div bb \in Int /\ v % bb \in 0 .. bb - 1 /\ v = bb * (v \div bb) + (v % bb)
    BY <1>7, DivMod
  <1>9. v % bb = lo
    <2>1. PICK d, m : d = v \div bb /\ m = v % bb
      OBVIOUS
    <2>2. d \in Int /\ m \in 0 .. bb - 1 /\ bb * d + m = bb * s + lo
      BY <1>7, <1>8, <2>1
    <2>3. m = lo
      BY <1>2, <1>7, <2>2, DivModUnique
    <2>4. QED
      BY <2>1, <2>3
  <1>10. b * t \in Int /\ r \in Int
    BY <1>1, <1>3
  <1>11. QED
    BY <1>6, <1>9, <1>10

(* A number smaller than the base is its own digit.                        *)
LEMMA OneDigit ==
  ASSUME NEW b \in Nat, b > 0, NEW v \in 0 .. b - 1
  PROVE  v % b = v
  OBVIOUS

(* A concatenation is as long as its parts.                                *)
LEMMA Joined ==
  ASSUME NEW T, NEW a \in Seq(T), NEW b \in Seq(T)
  PROVE  a \o b \in Seq(T) /\ Len(a \o b) = Len(a) + Len(b)
  OBVIOUS

-----------------------------------------------------------------------------
(* Induction over numbers.                                                 *)

(* A set that holds 0 and, with each number, the next holds all of them.   *)
LEMMA SetInduction ==
  ASSUME NEW S, 0 \in S, \A n \in Nat : n \in S => n + 1 \in S
  PROVE  Nat \subseteq S
  <1>1. PICK R : R = {p \in Nat \X Nat : p[1] < p[2]} /\ IsWellFoundedOn(R, Nat)
    BY NatLessThanWellFounded DEF OpToRel
  <1>2. PICK T : T = Nat \ S
    OBVIOUS
  <1>3. ASSUME T # {}
        PROVE  FALSE
    <2>1. PICK x \in T : \A y \in T : <<y, x>> \notin R
      BY <1>1, <1>2, <1>3, WFMin
    <2>2. x \in Nat /\ x # 0 /\ x - 1 \in Nat
      BY <1>2, <2>1
    <2>3. <<x - 1, x>> \in R
      BY <1>1, <2>2
    <2>4. x - 1 \in S /\ (x - 1) + 1 = x
      BY <1>2, <2>1, <2>2, <2>3
    <2>5. QED
      BY <1>2, <2>1, <2>2, <2>4
  <1>4. QED
    BY <1>2, <1>3

-----------------------------------------------------------------------------
(* Sequences of sequences, joined.                                         *)

(* How FlattenSeq joins sequences, one after the other.                    *)
Join(ss, f, i) == IF i = 1 THEN ss[i] ELSE f[i - 1] \o ss[i]

Joins(ss, n, f) == f = [i \in 1 .. n |-> Join(ss, f, i)]

(* FlattenSeq takes any way to join them.                                  *)
LEMMA FlattenIs ==
  ASSUME NEW ss, Len(ss) # 0
  PROVE  FlattenSeq(ss) = (CHOOSE f : Joins(ss, Len(ss), f))[Len(ss)]
  BY DEF FlattenSeq, Joins, Join

(* There is a way to join the first n.                                     *)
LEMMA JoinsExist ==
  ASSUME NEW ss, NEW n \in Nat
  PROVE  \E f : Joins(ss, n, f)
  <1> DEFINE S == {m \in Nat : \E f : Joins(ss, m, f)}
  <1>1. 0 \in S
    <2>1. PICK f : f = [i \in 1 .. 0 |-> 0]
      OBVIOUS
    <2>2. Joins(ss, 0, f)
      BY <2>1 DEF Joins
    <2>3. QED
      BY <2>2
  <1>2. ASSUME NEW m \in Nat, m \in S
        PROVE  m + 1 \in S
    <2>1. PICK f : Joins(ss, m, f)
      BY <1>2
    <2>2. PICK g : g = [i \in 1 .. m + 1 |-> Join(ss, f, i)]
      OBVIOUS
    <2>3. \A i \in 1 .. m : g[i] = f[i]
      BY <2>1, <2>2 DEF Joins
    <2>4. \A i \in 1 .. m + 1 : Join(ss, g, i) = Join(ss, f, i)
      BY <2>3 DEF Join
    <2>5. Joins(ss, m + 1, g)
      <3>1. g = [i \in 1 .. m + 1 |-> g[i]]
        BY <2>2
      <3>2. \A i \in 1 .. m + 1 : g[i] = Join(ss, g, i)
        BY <2>2, <2>4
      <3>3. QED
        BY <3>1, <3>2 DEF Joins
    <2>6. QED
      BY <2>5
  <1> HIDE DEF S
  <1>3. n \in S
    BY <1>1, <1>2, SetInduction
  <1>4. QED
    BY <1>3 DEF S

(* The same sequences are joined in the same way.                          *)
LEMMA SameJoins ==
  ASSUME NEW T, NEW n \in Nat, NEW m \in Nat, n <= m,
         NEW ss, NEW f, Joins(ss, n, f), NEW tt, NEW g, Joins(tt, m, g),
         \A i \in 1 .. n : ss[i] \in Seq(T) /\ tt[i] = ss[i],
         NEW k \in 1 .. n
  PROVE  g[k] = f[k] /\ f[k] \in Seq(T)
  <1> DEFINE Good(i) == g[i] = f[i] /\ f[i] \in Seq(T)
             S == {j \in Nat : j \in 1 .. n => Good(j)}
  <1>0. /\ \A i \in 1 .. n : f[i] = Join(ss, f, i)
        /\ \A i \in 1 .. m : g[i] = Join(tt, g, i)
    BY DEF Joins
  <1>1. 0 \in S
    OBVIOUS
  <1>2. ASSUME NEW j \in Nat, j \in S
        PROVE  j + 1 \in S
    <2>1. SUFFICES ASSUME j + 1 \in 1 .. n
                   PROVE  Good(j + 1)
      BY <1>2
    <2>2. f[j + 1] = Join(ss, f, j + 1) /\ g[j + 1] = Join(tt, g, j + 1)
      BY <1>0, <2>1
    <2>3. ss[j + 1] \in Seq(T) /\ tt[j + 1] = ss[j + 1]
      BY <2>1
    <2>4. CASE j = 0
      BY <2>2, <2>3, <2>4 DEF Join
    <2>5. CASE j # 0
      <3>1. Good(j) /\ (j + 1) - 1 = j /\ j + 1 # 1
        BY <1>2, <2>1, <2>5
      <3>2. f[j + 1] = f[j] \o ss[j + 1] /\ g[j + 1] = g[j] \o tt[j + 1]
        BY <2>2, <3>1 DEF Join
      <3>3. QED
        BY <2>3, <3>1, <3>2
    <2>6. QED
      BY <2>4, <2>5
  <1> HIDE DEF S
  <1>3. Nat \subseteq S
    BY <1>1, <1>2, SetInduction
  <1>4. QED
    BY <1>3 DEF S

(* Two lists, the second with one more sequence, which it joins to those   *)
(* before.                                                                 *)
OneLonger(T, n, ss, tt) ==
  /\ Len(ss) = n /\ Len(tt) = n + 1 /\ (n = 0 => ss = <<>>)
  /\ \A i \in 1 .. n : ss[i] \in Seq(T) /\ tt[i] = ss[i]
  /\ tt[n + 1] \in Seq(T)

(* One sequence more is joined to the others.                              *)
LEMMA FlattenMore ==
  ASSUME NEW T, NEW n \in Nat, NEW ss, NEW tt, OneLonger(T, n, ss, tt)
  PROVE  /\ FlattenSeq(ss) \in Seq(T)
         /\ FlattenSeq(tt) = FlattenSeq(ss) \o tt[n + 1]
  <1>0. /\ Len(ss) = n /\ Len(tt) = n + 1 /\ (n = 0 => ss = <<>>)
        /\ \A i \in 1 .. n : ss[i] \in Seq(T) /\ tt[i] = ss[i]
        /\ tt[n + 1] \in Seq(T)
    BY DEF OneLonger
  <1>1. PICK g : g = CHOOSE h : Joins(tt, n + 1, h)
    OBVIOUS
  <1>2. Joins(tt, n + 1, g)
    <2>1. n + 1 \in Nat
      OBVIOUS
    <2>2. \E h : Joins(tt, n + 1, h)
      BY <2>1, JoinsExist
    <2>3. QED
      BY <1>1, <2>2
  <1>3. FlattenSeq(tt) = g[n + 1]
    BY <1>1, FlattenIs, <1>0
  <1>4. g[n + 1] = Join(tt, g, n + 1)
    BY <1>2 DEF Joins
  <1>5. CASE n = 0
    <2>1. FlattenSeq(ss) = <<>>
      BY <1>0, <1>5 DEF FlattenSeq
    <2>2. FlattenSeq(tt) = tt[n + 1]
      BY <1>3, <1>4, <1>5 DEF Join
    <2>3. <<>> \in Seq(T) /\ <<>> \o tt[n + 1] = tt[n + 1]
      BY <1>0
    <2>4. QED
      BY <2>1, <2>2, <2>3
  <1>6. CASE n # 0
    <2>1. PICK f : f = CHOOSE h : Joins(ss, n, h)
      OBVIOUS
    <2>2. Joins(ss, n, f)
      BY <2>1, JoinsExist
    <2>3. FlattenSeq(ss) = f[n]
      BY <1>0, <1>6, <2>1, FlattenIs
    <2>4. g[n] = f[n] /\ f[n] \in Seq(T)
      <3>1. PICK m : m = n + 1
        OBVIOUS
      <3>2. n \in 1 .. n /\ m \in Nat /\ n <= m
        BY <1>6, <3>1
      <3>3. Joins(tt, m, g)
        BY <1>2, <3>1
      <3>4. \A k \in 1 .. n : g[k] = f[k] /\ f[k] \in Seq(T)
        BY <1>0, <2>2, <3>2, <3>3, SameJoins
      <3>5. QED
        BY <3>2, <3>4
    <2>5. g[n + 1] = g[n] \o tt[n + 1]
      <3>1. n + 1 # 1 /\ (n + 1) - 1 = n
        BY <1>6
      <3>2. QED
        BY <1>4, <3>1 DEF Join
    <2>6. QED
      BY <1>0, <1>3, <2>3, <2>4, <2>5
  <1>7. QED
    BY <1>5, <1>6

(* The first k sequences of ss, joined, and how long they are.             *)
FirstOf(ss, k) == FlattenSeq([i \in 1 .. k |-> ss[i]])

Upto(ss, k) == Len(FirstOf(ss, k))

(* b begins with a.                                                        *)
Extends(b, a) == Len(a) <= Len(b) /\ \A i \in 1 .. Len(a) : b[i] = a[i]

(* One sequence more at the end of those joined.                           *)
LEMMA FrontMore ==
  ASSUME NEW T, NEW ss \in Seq(Seq(T)), NEW k \in 0 .. Len(ss) - 1
  PROVE  /\ FirstOf(ss, k) \in Seq(T) /\ ss[k + 1] \in Seq(T)
         /\ FirstOf(ss, k + 1) = FirstOf(ss, k) \o ss[k + 1]
  <1>1. k \in Nat /\ \A i \in 1 .. k + 1 : ss[i] \in Seq(T)
    OBVIOUS
  <1>2. PICK a, b : a = [i \in 1 .. k |-> ss[i]] /\ b = [i \in 1 .. k + 1 |-> ss[i]]
    OBVIOUS
  <1>3. OneLonger(T, k, a, b)
    <2>1. Len(a) = k /\ Len(b) = k + 1 /\ (k = 0 => a = <<>>)
      BY <1>1, <1>2
    <2>2. \A i \in 1 .. k : a[i] \in Seq(T) /\ b[i] = a[i]
      BY <1>1, <1>2
    <2>3. b[k + 1] \in Seq(T)
      BY <1>1, <1>2
    <2>4. QED
      BY <2>1, <2>2, <2>3 DEF OneLonger
  <1>4. FlattenSeq(a) \in Seq(T) /\ FlattenSeq(b) = FlattenSeq(a) \o b[k + 1]
    BY <1>1, <1>3, FlattenMore
  <1>5. b[k + 1] = ss[k + 1] /\ ss[k + 1] \in Seq(T)
    BY <1>1, <1>2
  <1>6. QED
    BY <1>2, <1>4, <1>5, Zenon DEF FirstOf

(* Nothing joined is nothing.                                              *)
LEMMA FrontEnds ==
  ASSUME NEW T, NEW ss \in Seq(Seq(T))
  PROVE  /\ FirstOf(ss, 0) = <<>> /\ Upto(ss, 0) = 0
         /\ FirstOf(ss, Len(ss)) = FlattenSeq(ss)
  <1>1. [i \in 1 .. 0 |-> ss[i]] = <<>> /\ [i \in 1 .. Len(ss) |-> ss[i]] = ss
    OBVIOUS
  <1>2. FlattenSeq(<<>>) = <<>>
    BY DEF FlattenSeq
  <1>3. FirstOf(ss, 0) = <<>> /\ FirstOf(ss, Len(ss)) = FlattenSeq(ss)
    BY <1>1, <1>2, Zenon DEF FirstOf
  <1>4. QED
    BY <1>3 DEF Upto

(* More of the sequences joined begin with fewer of them.                  *)
LEMMA FrontGrows ==
  ASSUME NEW T, NEW ss \in Seq(Seq(T)), NEW k \in 0 .. Len(ss)
  PROVE  /\ FirstOf(ss, k) \in Seq(T)
         /\ Extends(FlattenSeq(ss), FirstOf(ss, k))
  <1> DEFINE S == {m \in Nat : m <= Len(ss) - k => /\ FirstOf(ss, k + m) \in Seq(T)
                                                   /\ Extends(FirstOf(ss, k + m), FirstOf(ss, k))}
  <1>1. \A j \in 0 .. Len(ss) : FirstOf(ss, j) \in Seq(T)
    <2>1. SUFFICES ASSUME NEW j \in 0 .. Len(ss)
                   PROVE  FirstOf(ss, j) \in Seq(T)
      OBVIOUS
    <2>2. CASE j = 0
      <3>1. FirstOf(ss, 0) = <<>> /\ <<>> \in Seq(T)
        BY FrontEnds
      <3>2. QED
        BY <2>2, <3>1
    <2>3. CASE j # 0
      <3>1. PICK h : h = j - 1
        OBVIOUS
      <3>2. h \in 0 .. Len(ss) - 1 /\ h + 1 = j
        BY <2>3, <3>1
      <3>3. /\ FirstOf(ss, h) \in Seq(T) /\ ss[h + 1] \in Seq(T)
            /\ FirstOf(ss, h + 1) = FirstOf(ss, h) \o ss[h + 1]
        BY <3>2, FrontMore
      <3>4. FirstOf(ss, h) \o ss[h + 1] \in Seq(T)
        BY <3>3, Joined
      <3>5. QED
        BY <3>2, <3>3, <3>4
    <2>4. QED
      BY <2>2, <2>3
  <1>2. 0 \in S
    BY <1>1 DEF Extends
  <1>3. ASSUME NEW m \in Nat, m \in S
        PROVE  m + 1 \in S
    <2>1. SUFFICES ASSUME m + 1 <= Len(ss) - k
                   PROVE  /\ FirstOf(ss, k + (m + 1)) \in Seq(T)
                          /\ Extends(FirstOf(ss, k + (m + 1)), FirstOf(ss, k))
      OBVIOUS
    <2>2. PICK h : h = k + m
      OBVIOUS
    <2>3. h \in 0 .. Len(ss) - 1 /\ h + 1 = k + (m + 1) /\ h + 1 \in 0 .. Len(ss)
      BY <2>1, <2>2
    <2>4. Extends(FirstOf(ss, h), FirstOf(ss, k))
      BY <1>3, <2>1, <2>2
    <2>5. PICK a, b, e : a = FirstOf(ss, h) /\ b = FirstOf(ss, h + 1) /\ e = ss[h + 1]
      OBVIOUS
    <2>6. a \in Seq(T) /\ e \in Seq(T) /\ b = a \o e /\ b \in Seq(T)
      BY <1>1, <2>3, <2>5, FrontMore
    <2>7. Extends(b, a)
      BY <2>6 DEF Extends
    <2>8. PICK c : c = FirstOf(ss, k)
      OBVIOUS
    <2>9. c \in Seq(T)
      BY <1>1, <2>8
    <2>10. Extends(b, c)
      <3>1. Extends(a, c)
        BY <2>4, <2>5, <2>8
      <3>2. Len(a) \in Nat /\ Len(b) \in Nat /\ Len(c) \in Nat
        BY <2>6, <2>9
      <3>3. QED
        BY <2>7, <3>1, <3>2 DEF Extends
    <2>11. QED
      BY <2>3, <2>5, <2>6, <2>8, <2>10
  <1> HIDE DEF S
  <1>4. Nat \subseteq S
    BY <1>2, <1>3, SetInduction
  <1>5. PICK m : m = Len(ss) - k
    OBVIOUS
  <1>6. m \in Nat /\ k + m = Len(ss)
    BY <1>5
  <1>7. Extends(FirstOf(ss, Len(ss)), FirstOf(ss, k))
    <2>1. m \in S /\ m <= Len(ss) - k
      BY <1>4, <1>5, <1>6
    <2>2. Extends(FirstOf(ss, k + m), FirstOf(ss, k))
      BY <2>1 DEF S
    <2>3. QED
      BY <1>6, <2>2
  <1>8. QED
    BY <1>1, <1>7, FrontEnds

-----------------------------------------------------------------------------
(* Bytes in the buffer.                                                    *)

(* The window of c holds the bytes bs from its position p on, as far as it *)
(* goes.                                                                   *)
Holds(c, p, bs) == \A i \in 1 .. Len(bs) : p + i <= c.len => data[c.lo + p + i] = bs[i]

(* r takes n bytes of what c has left, or there are not so many.           *)
Meets(c, r, n) ==
  IF c.pos + n <= c.len
  THEN r.ok = TRUE /\ r.cur = MoveTo(c, c.pos + n)
  ELSE r.ok = FALSE /\ r.err.kind = "UnexpectedEof"

(* The powers of Base are bases.                                           *)
LEMMA BasePowers ==
  /\ Base \in Nat /\ Base > 0 /\ Base2 \in Nat /\ Base2 > 0 /\ Base4 \in Nat /\ Base4 > 0
  /\ Base >= 4
  <1>1. Base \in Nat /\ Base >= 4 /\ Base > 0
    BY CursorAssumption
  <1>2. Base2 \in Nat /\ Base2 > 0
    BY <1>1 DEF Base2
  <1>3. Base4 \in Nat /\ Base4 > 0
    BY <1>2 DEF Base4
  <1>4. QED
    BY <1>1, <1>2, <1>3

(* The bytes of a concatenation stand one after the other.                 *)
LEMMA HoldsParts ==
  ASSUME NEW c, c.len \in Nat, c.lo \in Nat, NEW p \in Nat,
         NEW T, NEW a \in Seq(T), NEW b \in Seq(T), Holds(c, p, a \o b)
  PROVE  Holds(c, p, a) /\ Holds(c, p + Len(a), b)
  <1>1. PICK m, n : m = Len(a) /\ n = Len(b)
    OBVIOUS
  <1>2. m \in Nat /\ n \in Nat /\ Len(a \o b) = m + n
    BY <1>1
  <1>3. /\ \A i \in 1 .. m : (a \o b)[i] = a[i]
        /\ \A i \in 1 .. n : (a \o b)[m + i] = b[i]
    BY <1>1
  <1>4. \A i \in 1 .. m + n : p + i <= c.len => data[c.lo + p + i] = (a \o b)[i]
    BY <1>2 DEF Holds
  <1>5. ASSUME NEW i \in 1 .. m, p + i <= c.len
        PROVE  data[c.lo + p + i] = a[i]
    <2>1. i \in 1 .. m + n
      BY <1>2
    <2>2. QED
      BY <1>3, <1>4, <1>5, <2>1
  <1>6. ASSUME NEW i \in 1 .. n, (p + m) + i <= c.len
        PROVE  data[c.lo + (p + m) + i] = b[i]
    <2>1. m + i \in 1 .. m + n /\ p + (m + i) <= c.len /\ c.lo + p + (m + i) = c.lo + (p + m) + i
      BY <1>2, <1>6
    <2>2. QED
      BY <1>3, <1>4, <2>1
  <1>7. QED
    BY <1>1, <1>5, <1>6 DEF Holds

(* What a window holds does not depend on where its cursor stands.         *)
LEMMA HoldsMoved ==
  ASSUME NEW c, NEW p, NEW bs, NEW q
  PROVE  Holds(MoveTo(c, q), p, bs) <=> Holds(c, p, bs)
  BY DEF Holds, MoveTo

(* The lowest bytes of an integer are bytes.                               *)
LEMMA LowBytes ==
  ASSUME NEW v \in Int
  PROVE  /\ LowTwo(v) \in Seq(Byte) /\ Len(LowTwo(v)) = 2
         /\ LowFour(v) \in Seq(Byte) /\ Len(LowFour(v)) = 4
  <1>1. ASSUME NEW u \in Int
        PROVE  LowTwo(u) \in Seq(Byte) /\ Len(LowTwo(u)) = 2
    <2>1. PICK x, y : x = u % Base /\ y = (u \div Base) % Base
      OBVIOUS
    <2>2. u \div Base \in Int /\ x \in 0 .. Base - 1
      BY <2>1, BasePowers, DivMod
    <2>3. y \in 0 .. Base - 1
      BY <2>1, <2>2, BasePowers, DivMod
    <2>4. LowTwo(u) = <<x, y>>
      BY <2>1 DEF LowTwo
    <2>5. x \in Byte /\ y \in Byte
      BY <2>2, <2>3 DEF Byte
    <2>6. QED
      BY <2>4, <2>5
  <1>2. v \div Base2 \in Int
    BY BasePowers, DivMod
  <1>3. PICK a, b : a = LowTwo(v) /\ b = LowTwo(v \div Base2)
    OBVIOUS
  <1>4. a \in Seq(Byte) /\ Len(a) = 2 /\ b \in Seq(Byte) /\ Len(b) = 2
    BY <1>1, <1>2, <1>3
  <1>5. a \o b \in Seq(Byte) /\ Len(a \o b) = 4
    <2>1. a \o b \in Seq(Byte) /\ Len(a \o b) = Len(a) + Len(b)
      BY <1>4, Joined
    <2>2. QED
      BY <1>4, <2>1
  <1>6. QED
    BY <1>3, <1>4, <1>5 DEF LowFour

(* The two lowest bytes of v, read back.                                   *)
LEMMA TwoBytes ==
  ASSUME NEW c, c.len \in Nat, c.lo \in Nat, NEW p \in Nat, NEW v \in Int,
         Holds(c, p, LowTwo(v)), p + 2 <= c.len
  PROVE  U16(c.lo + p) = v % Base2
  <1>1. PICK bs : bs = LowTwo(v)
    OBVIOUS
  <1>2. Len(bs) = 2 /\ bs[1] = v % Base /\ bs[2] = (v \div Base) % Base
    BY <1>1 DEF LowTwo
  <1>3. data[c.lo + p + 1] = bs[1] /\ data[c.lo + p + 2] = bs[2]
    BY <1>1, <1>2 DEF Holds
  <1>4. U16(c.lo + p) = bs[1] + Base * bs[2]
    BY <1>3 DEF U16, At
  <1>5. QED
    BY <1>2, <1>4, BasePowers, TwoLowest DEF Base2

(* The four lowest bytes of v, read back.                                  *)
LEMMA FourBytes ==
  ASSUME NEW c, c.len \in Nat, c.lo \in Nat, NEW p \in Nat, NEW v \in Int,
         Holds(c, p, LowFour(v)), p + 4 <= c.len
  PROVE  U32(c.lo + p) = v % Base4
  <1>1. v \div Base2 \in Int
    BY BasePowers, DivMod
  <1>2. PICK a, b : a = LowTwo(v) /\ b = LowTwo(v \div Base2)
    OBVIOUS
  <1>3. a \in Seq(Byte) /\ Len(a) = 2 /\ b \in Seq(Byte)
    BY <1>1, <1>2, LowBytes
  <1>4. Holds(c, p, a) /\ Holds(c, p + 2, b)
    <2>1. Holds(c, p, a \o b)
      BY <1>2 DEF LowFour
    <2>2. QED
      BY <1>3, <2>1, HoldsParts
  <1>5. U16(c.lo + p) = v % Base2
    BY <1>2, <1>4, TwoBytes
  <1>6. U16(c.lo + (p + 2)) = (v \div Base2) % Base2
    BY <1>1, <1>2, <1>4, TwoBytes
  <1>7. (c.lo + p) + 2 = c.lo + (p + 2)
    OBVIOUS
  <1>8. U32(c.lo + p) = (v % Base2) + Base2 * ((v \div Base2) % Base2)
    BY <1>5, <1>6, <1>7 DEF U32
  <1>9. QED
    BY <1>8, BasePowers, TwoLowest DEF Base4

(* The eight lowest bytes of v, read back.                                 *)
LEMMA EightBytes ==
  ASSUME NEW c, c.len \in Nat, c.lo \in Nat, NEW p \in Nat, NEW v \in Int,
         Holds(c, p, LittleEndian(v, 8)), p + 8 <= c.len
  PROVE  U64(c.lo + p) = v % (Base4 * Base4)
  <1>1. v \div Base4 \in Int
    BY BasePowers, DivMod
  <1>2. PICK a, b : a = LowFour(v) /\ b = LowFour(v \div Base4)
    OBVIOUS
  <1>3. a \in Seq(Byte) /\ Len(a) = 4 /\ b \in Seq(Byte)
    BY <1>1, <1>2, LowBytes
  <1>4. Holds(c, p, a) /\ Holds(c, p + 4, b)
    <2>1. Holds(c, p, a \o b)
      BY <1>2 DEF LittleEndian
    <2>2. QED
      BY <1>3, <2>1, HoldsParts
  <1>5. U32(c.lo + p) = v % Base4
    BY <1>2, <1>4, FourBytes
  <1>6. U32(c.lo + (p + 4)) = (v \div Base4) % Base4
    BY <1>1, <1>2, <1>4, FourBytes
  <1>7. (c.lo + p) + 4 = c.lo + (p + 4)
    OBVIOUS
  <1>8. U64(c.lo + p) = (v % Base4) + Base4 * ((v \div Base4) % Base4)
    BY <1>5, <1>6, <1>7 DEF U64
  <1>9. QED
    BY <1>8, BasePowers, TwoLowest

-----------------------------------------------------------------------------
(* Reading what the window holds.                                          *)

(* r takes the next n bytes of c as v, or there are not so many.           *)
Gets(c, r, n, v) == Meets(c, r, n) /\ (r.ok => r.val = v)

(* A cursor moved within its window is in the buffer.                      *)
LEMMA MetIsValid ==
  ASSUME NEW c, Valid(c), NEW r, NEW n \in Nat, Meets(c, r, n), r.ok
  PROVE  /\ Valid(r.cur) /\ r.cur = MoveTo(c, c.pos + n) /\ c.pos + n <= c.len
         /\ r.cur.lo = c.lo /\ r.cur.len = c.len /\ r.cur.pos = c.pos + n
  <1>1. c.pos + n <= c.len /\ r.cur = MoveTo(c, c.pos + n)
    BY DEF Meets
  <1>2. c.pos + n \in Nat
    BY DEF Valid
  <1>3. QED
    BY <1>1, <1>2 DEF Valid, MoveTo

(* a is let x = r?; s, where r takes n bytes of c and s then m.            *)
Follows(c, r, n, s, m, a) ==
  /\ n \in Nat /\ m \in Nat
  /\ Meets(c, r, n) /\ (r.ok => Meets(r.cur, s, m))
  /\ a = IF r.ok THEN After(r, s) ELSE r

(* One read after another.                                                 *)
LEMMA AfterMeets ==
  ASSUME NEW c, Valid(c), NEW n, NEW m, NEW r, NEW s, NEW a, Follows(c, r, n, s, m, a)
  PROVE  /\ Meets(c, a, n + m)
         /\ a.ok => r.ok /\ s.ok /\ a.val = s.val /\ a.cur = s.cur
  <1>0. /\ c.pos \in Nat /\ c.len \in Nat /\ n \in Nat /\ m \in Nat
        /\ Meets(c, r, n) /\ (r.ok => Meets(r.cur, s, m))
        /\ a = IF r.ok THEN After(r, s) ELSE r
    BY DEF Valid, Follows
  <1>1. CASE r.ok
    <2>1. a.ok = s.ok /\ a.val = s.val /\ a.cur = s.cur /\ a.err = s.err
      <3>1. /\ After(r, s).ok = s.ok /\ After(r, s).val = s.val
            /\ After(r, s).cur = s.cur /\ After(r, s).err = s.err
        BY Zenon DEF After, Result
      <3>2. a = After(r, s)
        BY <1>0, <1>1
      <3>3. QED
        BY <3>1, <3>2
    <2>2. c.pos + n <= c.len /\ r.cur = MoveTo(c, c.pos + n)
      BY <1>0, <1>1 DEF Meets
    <2>3. r.cur.pos = c.pos + n /\ r.cur.len = c.len
      BY <2>2 DEF MoveTo
    <2>4. \A p : MoveTo(r.cur, p) = MoveTo(c, p)
      BY <2>2 DEF MoveTo
    <2>5. IF c.pos + (n + m) <= c.len
          THEN s.ok = TRUE /\ s.cur = MoveTo(c, c.pos + (n + m))
          ELSE s.ok = FALSE /\ s.err.kind = "UnexpectedEof"
      <3>1. (c.pos + n) + m = c.pos + (n + m)
        BY <1>0
      <3>2. IF r.cur.pos + m <= r.cur.len
            THEN s.ok = TRUE /\ s.cur = MoveTo(r.cur, r.cur.pos + m)
            ELSE s.ok = FALSE /\ s.err.kind = "UnexpectedEof"
        BY <1>0, <1>1 DEF Meets
      <3>3. QED
        BY <2>3, <2>4, <3>1, <3>2
    <2>6. QED
      BY <1>0, <1>1, <2>1, <2>5 DEF Meets
  <1>2. CASE ~ r.ok
    <2>1. ~ (c.pos + n <= c.len) /\ r.err.kind = "UnexpectedEof"
      BY <1>0, <1>2 DEF Meets
    <2>2. ~ (c.pos + (n + m) <= c.len)
      BY <1>0, <2>1
    <2>3. a = r
      BY <1>0, <1>2
    <2>4. r.ok = FALSE
      BY <1>0, <2>1 DEF Meets
    <2>5. QED
      BY <2>1, <2>2, <2>3, <2>4 DEF Meets
  <1>3. QED
    BY <1>1, <1>2

(* Nothing more is read.                                                   *)
LEMMA OkMeets ==
  ASSUME NEW c, Valid(c), NEW v, NEW got
  PROVE  Gets(c, Ok(c, v, got), 0, v)
  <1>1. c.pos + 0 = c.pos /\ c.pos <= c.len /\ c = MoveTo(c, c.pos)
    BY DEF Valid, MoveTo
  <1>2. Ok(c, v, got).ok = TRUE /\ Ok(c, v, got).cur = c /\ Ok(c, v, got).val = v
    BY DEF Ok, Result
  <1>3. QED
    BY <1>1, <1>2 DEF Gets, Meets

(* A read after which nothing more is read.                                *)
LEMMA LastMeets ==
  ASSUME NEW c, Valid(c), NEW n, NEW r, NEW s, NEW a, Follows(c, r, n, s, 0, a),
         NEW v, r.ok => Gets(r.cur, s, 0, v)
  PROVE  Meets(c, a, n) /\ (a.ok => r.ok /\ a.val = v)
  <1>1. n \in Nat /\ n + 0 = n
    BY DEF Follows
  <1>2. Meets(c, a, n + 0) /\ (a.ok => r.ok /\ s.ok /\ a.val = s.val)
    BY AfterMeets
  <1>3. QED
    BY <1>1, <1>2 DEF Gets

(* A read of n bytes.                                                      *)
LEMMA BytesMeet ==
  ASSUME DataOK, NEW c, Valid(c), NEW n \in Nat
  PROVE  Gets(c, ReadBytes(c, n), n, Slice(c.lo + c.pos, c.lo + c.pos + n))
  <1>0. c.lo \in Nat /\ c.len \in Nat /\ c.pos \in Nat /\ c.pos <= c.len
        /\ c.len <= UsizeMax /\ UsizeMax \in Nat
    BY ValidFields
  <1>1. CASE c.pos + n <= c.len
    <2>1. CheckedAdd(c.pos, n) = c.pos + n /\ c.pos + n # None
      BY <1>0, <1>1 DEF CheckedAdd, None
    <2>2. c.lo + (c.pos + n) = c.lo + c.pos + n
      BY <1>0
    <2>3. PICK s, got : /\ ReadBytes(c, n) = Ok(MoveTo(c, c.pos + n), s, got)
                        /\ s = Slice(c.lo + c.pos, c.lo + c.pos + n)
      BY <1>0, <1>1, <2>1, <2>2 DEF ReadBytes
    <2>4. QED
      BY <1>1, <2>3 DEF Ok, Result, Gets, Meets
  <1>2. CASE ~ (c.pos + n <= c.len)
    <2>1. CheckedAdd(c.pos, n) = None \/ CheckedAdd(c.pos, n) > c.len
      BY <1>0, <1>2 DEF CheckedAdd, None
    <2>2. ReadBytes(c, n) = Fail(c, UnexpectedEof(n, Remaining(c)), {})
      BY <2>1 DEF ReadBytes
    <2>3. QED
      BY <1>2, <2>2 DEF Fail, Result, UnexpectedEof, Gets, Meets
  <1>3. QED
    BY <1>1, <1>2

(* The bytes of a slice, as the window holds them.                         *)
LEMMA BytesHeld ==
  ASSUME DataOK, NEW c, Valid(c), NEW p \in Nat, NEW bs \in Seq(Byte), Holds(c, p, bs),
         p + Len(bs) <= c.len
  PROVE  Bytes(Slice(c.lo + p, c.lo + p + Len(bs))) = bs
  <1>1. PICK n, q : n = Len(bs) /\ q = c.lo + p
    OBVIOUS
  <1>2. n \in Nat /\ q \in Nat /\ q + n <= Len(data) /\ Len(data) \in Nat
    BY <1>1, ValidFields
  <1>3. \A i \in 1 .. n : data[q + i] = bs[i]
    <2>1. c.lo \in Nat /\ c.len \in Nat /\ p + n <= c.len
      BY <1>1, ValidFields
    <2>2. \A i \in 1 .. n : p + i <= c.len => data[c.lo + p + i] = bs[i]
      BY <1>1 DEF Holds
    <2>3. \A i \in 1 .. n : p + i <= c.len
      BY <1>2, <2>1
    <2>4. QED
      BY <1>1, <2>2, <2>3
  <1>4. PICK s : s = SubSeq(data, q + 1, q + n)
    OBVIOUS
  <1>5. s \in Seq(Byte) /\ Len(s) = n /\ \A i \in 1 .. n : s[i] = data[q + i]
    <2>1. data \in Seq(Byte)
      BY DEF DataOK
    <2>2. s \in Seq(Byte)
      BY <1>2, <1>4, <2>1
    <2>3. Len(s) = n
      BY <1>2, <1>4, <2>1
    <2>4. \A i \in 1 .. n : s[i] = data[(q + 1) + i - 1] /\ (q + 1) + i - 1 = q + i
      BY <1>2, <1>4, <2>1, <2>3
    <2>5. QED
      BY <2>2, <2>3, <2>4
  <1>6. s = bs
    BY <1>1, <1>3, <1>5
  <1>7. QED
    BY <1>1, <1>4, <1>6 DEF Bytes, Slice

(* An integer read is a read of its bytes.                                 *)
LEMMA IntMeets ==
  ASSUME DataOK, NEW c, Valid(c), NEW n \in Nat, NEW v, NEW w, NEW r,
         ReadBytes(c, n).ok => v = w,
         r = IF ReadBytes(c, n).ok
             THEN Ok(ReadBytes(c, n).cur, v, ReadBytes(c, n).got)
             ELSE ReadBytes(c, n)
  PROVE  Gets(c, r, n, w)
  <1> PICK b : b = ReadBytes(c, n)
    OBVIOUS
  <1>1. Meets(c, b, n)
    BY BytesMeet DEF Gets
  <1>2. CASE b.ok
    <2>1. r = Ok(b.cur, v, b.got)
      BY <1>2
    <2>2. r.ok = TRUE /\ r.cur = b.cur /\ r.val = v
      BY <2>1 DEF Ok, Result
    <2>3. QED
      BY <1>1, <1>2, <2>2 DEF Gets, Meets
  <1>3. CASE ~ b.ok
    BY <1>1, <1>3 DEF Gets, Meets
  <1>4. QED
    BY <1>2, <1>3

(* Where the bytes that were read begin.                                   *)
LEMMA ReadFrom ==
  ASSUME DataOK, NEW c, Valid(c), NEW n \in Nat, ReadBytes(c, n).ok
  PROVE  ReadBytes(c, n).val.lo = c.lo + c.pos /\ c.pos + n <= c.len
  <1>1. PICK r : r = ReadBytes(c, n)
    OBVIOUS
  <1>2. Meets(c, r, n) /\ r.val = Slice(c.lo + c.pos, c.lo + c.pos + n)
    BY <1>1, BytesMeet DEF Gets
  <1>3. c.pos + n <= c.len
    BY <1>1, <1>2 DEF Meets
  <1>4. r.val.lo = c.lo + c.pos
    BY <1>2 DEF Slice
  <1>5. QED
    BY <1>1, <1>3, <1>4

(* An unsigned integer of two bytes, as written.                           *)
LEMMA U16Meets ==
  ASSUME DataOK, NEW c, Valid(c), NEW v \in 0 .. Base2 - 1, Holds(c, c.pos, LittleEndian(v, 2))
  PROVE  Gets(c, ReadU16(c), 2, v)
  <1>0. c.lo \in Nat /\ c.len \in Nat /\ c.pos \in Nat
    BY ValidFields
  <1>1. ReadBytes(c, 2).ok => U16(ReadBytes(c, 2).val.lo) = v
    <2>1. SUFFICES ASSUME ReadBytes(c, 2).ok
                   PROVE  U16(ReadBytes(c, 2).val.lo) = v
      OBVIOUS
    <2>2. ReadBytes(c, 2).val.lo = c.lo + c.pos /\ c.pos + 2 <= c.len
      BY <2>1, ReadFrom
    <2>3. U16(c.lo + c.pos) = v % Base2
      <3>1. Holds(c, c.pos, LowTwo(v))
        BY DEF LittleEndian
      <3>2. QED
        BY <1>0, <2>2, <3>1, TwoBytes
    <2>4. v % Base2 = v
      BY BasePowers, OneDigit
    <2>5. QED
      BY <2>2, <2>3, <2>4
  <1>2. QED
    BY <1>1, IntMeets DEF ReadU16, ReadInt

(* One of four bytes.                                                      *)
LEMMA U32Meets ==
  ASSUME DataOK, NEW c, Valid(c), NEW v \in U32s, Holds(c, c.pos, LittleEndian(v, 4))
  PROVE  Gets(c, ReadU32(c), 4, v)
  <1>0. c.lo \in Nat /\ c.len \in Nat /\ c.pos \in Nat
    BY ValidFields
  <1>1. ReadBytes(c, 4).ok => U32(ReadBytes(c, 4).val.lo) = v
    <2>1. SUFFICES ASSUME ReadBytes(c, 4).ok
                   PROVE  U32(ReadBytes(c, 4).val.lo) = v
      OBVIOUS
    <2>2. ReadBytes(c, 4).val.lo = c.lo + c.pos /\ c.pos + 4 <= c.len
      BY <2>1, ReadFrom
    <2>3. U32(c.lo + c.pos) = v % Base4
      <3>1. Holds(c, c.pos, LowFour(v)) /\ v \in Int
        BY DEF LittleEndian, U32s
      <3>2. QED
        BY <1>0, <2>2, <3>1, FourBytes
    <2>4. v % Base4 = v
      BY BasePowers, OneDigit DEF U32s
    <2>5. QED
      BY <2>2, <2>3, <2>4
  <1>2. QED
    BY <1>1, IntMeets DEF ReadU32, ReadInt

(* One of eight bytes.                                                     *)
LEMMA U64Meets ==
  ASSUME DataOK, NEW c, Valid(c), NEW v \in U64s, Holds(c, c.pos, LittleEndian(v, 8))
  PROVE  Gets(c, ReadU64(c), 8, v)
  <1>0. c.lo \in Nat /\ c.len \in Nat /\ c.pos \in Nat
    BY ValidFields
  <1>1. ReadBytes(c, 8).ok => U64(ReadBytes(c, 8).val.lo) = v
    <2>1. SUFFICES ASSUME ReadBytes(c, 8).ok
                   PROVE  U64(ReadBytes(c, 8).val.lo) = v
      OBVIOUS
    <2>2. ReadBytes(c, 8).val.lo = c.lo + c.pos /\ c.pos + 8 <= c.len
      BY <2>1, ReadFrom
    <2>3. U64(c.lo + c.pos) = v % (Base4 * Base4)
      <3>1. v \in Int
        BY DEF U64s
      <3>2. QED
        BY <1>0, <2>2, <3>1, EightBytes
    <2>4. v % (Base4 * Base4) = v
      <3>1. PICK b : b = Base4 * Base4
        OBVIOUS
      <3>2. b \in Nat /\ b > 0 /\ v \in 0 .. b - 1
        BY <3>1, BasePowers DEF U64s
      <3>3. QED
        BY <3>1, <3>2, OneDigit
    <2>5. QED
      BY <2>2, <2>3, <2>4
  <1>2. QED
    BY <1>1, IntMeets DEF ReadU64, ReadInt

(* The signed one of four bytes.                                           *)
LEMMA I32Meets ==
  ASSUME DataOK, NEW c, Valid(c), NEW v \in Int, -Base4 <= 2 * v, 2 * v < Base4,
         Holds(c, c.pos, LittleEndian(v, 4))
  PROVE  Gets(c, ReadI32(c), 4, v)
  <1>0. c.lo \in Nat /\ c.len \in Nat /\ c.pos \in Nat
    BY ValidFields
  <1>1. ReadBytes(c, 4).ok => I32(ReadBytes(c, 4).val.lo) = v
    <2>1. SUFFICES ASSUME ReadBytes(c, 4).ok
                   PROVE  I32(ReadBytes(c, 4).val.lo) = v
      OBVIOUS
    <2>2. ReadBytes(c, 4).val.lo = c.lo + c.pos /\ c.pos + 4 <= c.len
      BY <2>1, ReadFrom
    <2>3. U32(c.lo + c.pos) = v % Base4
      <3>1. Holds(c, c.pos, LowFour(v))
        BY DEF LittleEndian
      <3>2. QED
        BY <1>0, <2>2, <3>1, FourBytes
    <2>4. v % Base4 = IF v >= 0 THEN v ELSE v + Base4
      <3>1. PICK b : b = Base4
        OBVIOUS
      <3>2. b \in Nat /\ b > 0 /\ -b <= 2 * v /\ 2 * v < b
        BY <3>1, BasePowers
      <3>3. v \div b \in Int /\ v % b \in 0 .. b - 1 /\ v = b * (v \div b) + (v % b)
        BY <3>2, DivMod
      <3>4. PICK q, r : q = v \div b /\ r = v % b
        OBVIOUS
      <3>5. q \in Int /\ r \in 0 .. b - 1 /\ v = b * q + r
        BY <3>3, <3>4
      <3>6. CASE v >= 0
        <4>1. v \in 0 .. b - 1 /\ b * 0 + v = v
          BY <3>2, <3>6
        <4>2. 0 \in Int /\ b * q + r = b * 0 + v
          BY <3>5, <4>1
        <4>3. r = v
          BY <3>2, <3>5, <4>1, <4>2, DivModUnique
        <4>4. QED
          BY <3>1, <3>4, <3>6, <4>3
      <3>7. CASE ~ (v >= 0)
        <4>1. v + b \in 0 .. b - 1 /\ b * (-1) + (v + b) = v
          BY <3>2, <3>7
        <4>2. -1 \in Int /\ b * q + r = b * (-1) + (v + b)
          BY <3>5, <4>1
        <4>3. r = v + b
          BY <3>2, <3>5, <4>1, <4>2, DivModUnique
        <4>4. QED
          BY <3>1, <3>4, <3>7, <4>3
      <3>8. QED
        BY <3>6, <3>7
    <2>5. Signed(v % Base4, Base4) = v
      <3>1. PICK b, u : b = Base4 /\ u = v % Base4
        OBVIOUS
      <3>2. b \in Nat /\ -b <= 2 * v /\ 2 * v < b /\ u = IF v >= 0 THEN v ELSE v + b
        BY <2>4, <3>1, BasePowers
      <3>3. (IF 2 * u < b THEN u ELSE u - b) = v
        BY <3>2
      <3>4. QED
        BY <3>1, <3>3 DEF Signed
    <2>6. QED
      BY <2>2, <2>3, <2>5 DEF I32
  <1>2. QED
    BY <1>1, IntMeets DEF ReadI32, ReadInt

-----------------------------------------------------------------------------
(* Counts and byte strings.                                                *)

(* A varint is its first byte and what follows it.                         *)
FirstByte(v) ==
  CASE v < Base - 3 -> v
    [] v >= Base - 3 /\ v < Base2 -> Base - 3
    [] v >= Base2 /\ v < Base4 -> Base - 2
    [] OTHER -> Base - 1

OtherBytes(v) ==
  CASE v < Base - 3 -> <<>>
    [] v >= Base - 3 /\ v < Base2 -> LittleEndian(v, 2)
    [] v >= Base2 /\ v < Base4 -> LittleEndian(v, 4)
    [] OTHER -> LittleEndian(v, 8)

(* The integers of a varint are written as bytes.                          *)
LEMMA IntegerBytes ==
  ASSUME NEW v \in Int
  PROVE  /\ LittleEndian(v, 2) \in Seq(Byte) /\ Len(LittleEndian(v, 2)) = 2
         /\ LittleEndian(v, 4) \in Seq(Byte) /\ Len(LittleEndian(v, 4)) = 4
         /\ LittleEndian(v, 8) \in Seq(Byte) /\ Len(LittleEndian(v, 8)) = 8
  <1>1. LittleEndian(v, 2) = LowTwo(v)
    BY DEF LittleEndian
  <1>2. LittleEndian(v, 4) = LowFour(v)
    BY DEF LittleEndian
  <1>3. PICK a, b : a = LowFour(v) /\ b = LowFour(v \div Base4)
    OBVIOUS
  <1>4. LittleEndian(v, 8) = a \o b
    BY <1>3 DEF LittleEndian
  <1>5. v \div Base4 \in Int
    BY BasePowers, DivMod
  <1>6. a \in Seq(Byte) /\ Len(a) = 4 /\ b \in Seq(Byte) /\ Len(b) = 4
    BY <1>3, <1>5, LowBytes
  <1>7. a \o b \in Seq(Byte) /\ Len(a \o b) = 8
    <2>1. a \o b \in Seq(Byte) /\ Len(a \o b) = Len(a) + Len(b)
      BY <1>6, Joined
    <2>2. QED
      BY <1>6, <2>1
  <1>8. QED
    BY <1>1, <1>2, <1>4, <1>7, LowBytes

(* Which of its four forms a varint takes.                                 *)
LEMMA VarintForms ==
  ASSUME NEW v \in U64s
  PROVE  \/ /\ v < Base - 3 /\ FirstByte(v) = v /\ OtherBytes(v) = <<>>
            /\ EncodeVarint(v) = <<v>>
         \/ /\ v \in 0 .. Base2 - 1 /\ FirstByte(v) = Base - 3
            /\ OtherBytes(v) = LittleEndian(v, 2)
            /\ EncodeVarint(v) = <<Base - 3>> \o LittleEndian(v, 2)
         \/ /\ v \in U32s /\ FirstByte(v) = Base - 2
            /\ OtherBytes(v) = LittleEndian(v, 4)
            /\ EncodeVarint(v) = <<Base - 2>> \o LittleEndian(v, 4)
         \/ /\ FirstByte(v) = Base - 1
            /\ OtherBytes(v) = LittleEndian(v, 8)
            /\ EncodeVarint(v) = <<Base - 1>> \o LittleEndian(v, 8)
  <1>0. v \in Nat /\ Base \in Nat /\ Base2 \in Nat /\ Base4 \in Nat
    BY BasePowers DEF U64s
  <1>1. CASE v < Base - 3
    <2>1. Base - 3 <= Base2
      BY <1>0, BasePowers DEF Base2
    <2>2. ~ (v >= Base - 3) /\ ~ (v >= Base2)
      BY <1>0, <1>1, <2>1
    <2>3. QED
      BY <1>1, <2>2 DEF FirstByte, OtherBytes, EncodeVarint
  <1>2. CASE v >= Base - 3 /\ v < Base2
    <2>1. ~ (v < Base - 3) /\ ~ (v >= Base2) /\ v \in 0 .. Base2 - 1
      BY <1>0, <1>2
    <2>2. QED
      BY <1>2, <2>1 DEF FirstByte, OtherBytes, EncodeVarint
  <1>3. CASE v >= Base - 3 /\ v >= Base2 /\ v < Base4
    <2>1. ~ (v < Base - 3) /\ ~ (v < Base2) /\ v \in U32s
      BY <1>0, <1>3 DEF U32s
    <2>2. QED
      BY <1>3, <2>1 DEF FirstByte, OtherBytes, EncodeVarint
  <1>4. CASE v >= Base - 3 /\ v >= Base2 /\ v >= Base4
    <2>1. ~ (v < Base - 3) /\ ~ (v < Base2) /\ ~ (v < Base4)
      BY <1>0, <1>4
    <2>2. QED
      BY <1>4, <2>1 DEF FirstByte, OtherBytes, EncodeVarint
  <1>5. QED
    BY SMTT(30), <1>0, <1>1, <1>2, <1>3, <1>4

(* The bytes of a varint.                                                  *)
LEMMA VarintBytes ==
  ASSUME NEW v \in U64s
  PROVE  /\ FirstByte(v) \in Byte /\ OtherBytes(v) \in Seq(Byte)
         /\ v > 0 => FirstByte(v) # 0
         /\ EncodeVarint(v) = <<FirstByte(v)>> \o OtherBytes(v)
         /\ EncodeVarint(v) \in Seq(Byte) /\ Len(EncodeVarint(v)) = 1 + Len(OtherBytes(v))
  <1>0. v \in Nat /\ v \in Int
    BY DEF U64s
  <1>1. FirstByte(v) \in Byte /\ (v > 0 => FirstByte(v) # 0)
    BY <1>0, BasePowers, VarintForms DEF Byte
  <1>2. OtherBytes(v) \in Seq(Byte)
    <2>1. <<>> \in Seq(Byte)
      OBVIOUS
    <2>2. QED
      BY Zenon, <1>0, <2>1, VarintForms, IntegerBytes
  <1>3. EncodeVarint(v) = <<FirstByte(v)>> \o OtherBytes(v)
    <2>1. <<v>> \o <<>> = <<v>>
      OBVIOUS
    <2>2. QED
      BY Zenon, <2>1, VarintForms
  <1>4. <<FirstByte(v)>> \in Seq(Byte) /\ Len(<<FirstByte(v)>>) = 1
    BY <1>1
  <1>5. QED
    BY <1>1, <1>2, <1>3, <1>4, Joined

(* What follows the first byte of a varint gives its value.                *)
LEMMA VarintFromMeets ==
  ASSUME DataOK, NEW c, Valid(c), NEW v \in U64s, Holds(c, c.pos, OtherBytes(v))
  PROVE  Gets(c, VarintFrom(c, FirstByte(v)), Len(OtherBytes(v)), v)
  <1>0. v \in Int /\ Base \in Nat
    BY BasePowers DEF U64s
  <1>1. CASE v < Base - 3 /\ FirstByte(v) = v /\ OtherBytes(v) = <<>>
    <2>1. VarintFrom(c, v) = Ok(c, v, {})
      BY <1>0, <1>1 DEF VarintFrom
    <2>2. Len(<<>>) = 0
      OBVIOUS
    <2>3. QED
      BY <1>1, <2>1, <2>2, OkMeets
  <1>2. CASE /\ v \in 0 .. Base2 - 1 /\ FirstByte(v) = Base - 3
             /\ OtherBytes(v) = LittleEndian(v, 2)
    <2>1. VarintFrom(c, Base - 3) = ReadU16(c)
      BY <1>0 DEF VarintFrom
    <2>2. QED
      BY <1>0, <1>2, <2>1, IntegerBytes, U16Meets
  <1>3. CASE /\ v \in U32s /\ FirstByte(v) = Base - 2
             /\ OtherBytes(v) = LittleEndian(v, 4)
    <2>1. VarintFrom(c, Base - 2) = ReadU32(c)
      BY <1>0 DEF VarintFrom
    <2>2. QED
      BY <1>0, <1>3, <2>1, IntegerBytes, U32Meets
  <1>4. CASE /\ FirstByte(v) = Base - 1
             /\ OtherBytes(v) = LittleEndian(v, 8)
    <2>1. VarintFrom(c, Base - 1) = ReadU64(c)
      BY <1>0 DEF VarintFrom
    <2>2. QED
      BY <1>0, <1>4, <2>1, IntegerBytes, U64Meets
  <1>5. QED
    BY Zenon, <1>1, <1>2, <1>3, <1>4, VarintForms

(* The next byte.                                                          *)
LEMMA ByteMeets ==
  ASSUME DataOK, NEW c, Valid(c), NEW b, NEW T, b \in T, Holds(c, c.pos, <<b>>)
  PROVE  Gets(c, ReadU8(c), 1, b)
  <1>0. c.lo \in Nat /\ c.len \in Nat /\ c.pos \in Nat
    BY ValidFields
  <1>1. CASE c.pos + 1 <= c.len
    <2>1. ~ (c.pos >= c.len)
      BY <1>0, <1>1
    <2>2. At(c.lo + c.pos) = b
      <3>1. Len(<<b>>) = 1 /\ <<b>>[1] = b
        OBVIOUS
      <3>2. QED
        BY <1>1, <3>1 DEF Holds, At
    <2>3. ReadU8(c) = Ok(MoveTo(c, c.pos + 1), At(c.lo + c.pos), {c.lo + c.pos})
      BY <2>1 DEF ReadU8
    <2>4. QED
      BY <1>1, <2>2, <2>3 DEF Ok, Result, Gets, Meets
  <1>2. CASE ~ (c.pos + 1 <= c.len)
    <2>1. c.pos >= c.len
      BY <1>0, <1>2
    <2>2. ReadU8(c) = Fail(c, UnexpectedEof(1, 0), {})
      BY <2>1 DEF ReadU8
    <2>3. QED
      BY <1>2, <2>2 DEF Fail, Result, UnexpectedEof, Gets, Meets
  <1>3. QED
    BY <1>1, <1>2

(* The parts of what a window holds, for the cursor after the first.       *)
LEMMA HoldsNext ==
  ASSUME DataOK, NEW c, Valid(c), NEW T, NEW a \in Seq(T), NEW b \in Seq(T),
         Holds(c, c.pos, a \o b)
  PROVE  /\ Holds(c, c.pos, a)
         /\ \A r : Meets(c, r, Len(a)) /\ r.ok => Holds(r.cur, r.cur.pos, b)
  <1>0. c.lo \in Nat /\ c.len \in Nat /\ c.pos \in Nat /\ Len(a) \in Nat
    BY ValidFields
  <1>1. Holds(c, c.pos, a) /\ Holds(c, c.pos + Len(a), b)
    BY <1>0, HoldsParts
  <1>2. ASSUME NEW r, Meets(c, r, Len(a)), r.ok
        PROVE  Holds(r.cur, r.cur.pos, b)
    BY <1>0, <1>1, <1>2, MetIsValid, HoldsMoved
  <1>3. QED
    BY <1>1, <1>2

(* A varint, as written.                                                   *)
LEMMA VarintMeets ==
  ASSUME DataOK, NEW c, Valid(c), NEW v \in U64s, Holds(c, c.pos, EncodeVarint(v))
  PROVE  Gets(c, ReadVarint(c), Len(EncodeVarint(v)), v)
  <1> PICK f, o : f = FirstByte(v) /\ o = OtherBytes(v)
    OBVIOUS
  <1>1. /\ f \in Byte /\ <<f>> \in Seq(Byte) /\ o \in Seq(Byte) /\ Len(<<f>>) = 1
        /\ EncodeVarint(v) = <<f>> \o o /\ Len(EncodeVarint(v)) = 1 + Len(o) /\ Len(o) \in Nat
    BY VarintBytes
  <1>2. /\ Holds(c, c.pos, <<f>>)
        /\ \A r : Meets(c, r, 1) /\ r.ok => Holds(r.cur, r.cur.pos, o)
    <2>1. PICK a : a = <<f>>
      OBVIOUS
    <2>2. a \in Seq(Byte) /\ Len(a) = 1 /\ Holds(c, c.pos, a \o o)
      BY <1>1, <2>1
    <2>3. Holds(c, c.pos, a) /\ \A r : Meets(c, r, Len(a)) /\ r.ok => Holds(r.cur, r.cur.pos, o)
      BY <1>1, <2>2, HoldsNext, Zenon
    <2>4. QED
      BY <2>1, <2>2, <2>3
  <1> PICK r : r = ReadU8(c)
    OBVIOUS
  <1>3. Gets(c, r, 1, f)
    BY <1>1, <1>2, ByteMeets
  <1> PICK s : s = VarintFrom(r.cur, r.val)
    OBVIOUS
  <1>4. r.ok => Gets(r.cur, s, Len(o), v)
    <2>1. SUFFICES ASSUME r.ok
                   PROVE  Gets(r.cur, s, Len(o), v)
      OBVIOUS
    <2>2. Meets(c, r, 1) /\ r.val = f
      BY <1>3, <2>1 DEF Gets
    <2>3. Valid(r.cur) /\ Holds(r.cur, r.cur.pos, o)
      BY <1>2, <2>1, <2>2, MetIsValid
    <2>4. QED
      BY <2>2, <2>3, VarintFromMeets
  <1>5. ReadVarint(c) = IF r.ok THEN After(r, s) ELSE r
    BY DEF ReadVarint
  <1>6. /\ Meets(c, ReadVarint(c), 1 + Len(o))
        /\ ReadVarint(c).ok => r.ok /\ s.ok /\ ReadVarint(c).val = s.val
    <2>1. Follows(c, r, 1, s, Len(o), ReadVarint(c))
      BY <1>1, <1>3, <1>4, <1>5 DEF Gets, Follows
    <2>2. QED
      BY <2>1, AfterMeets
  <1>7. QED
    BY <1>1, <1>4, <1>6 DEF Gets

(* A check that what was read passes.                                      *)
LEMMA CheckMeets ==
  ASSUME NEW c, NEW r, NEW n, NEW v \in Nat, Gets(c, r, n, v), NEW max \in Nat, v <= max
  PROVE  Gets(c, Capped(r, max), n, v)
  BY DEF Gets, Capped

(* A count within its limit.                                               *)
LEMMA CountMeets ==
  ASSUME NEW c, NEW r, NEW n, NEW v \in Nat, Gets(c, r, n, v), NEW max \in Nat, v <= max,
         v <= UsizeMax
  PROVE  /\ Gets(c, CountRead(r, max), n, v)
         /\ v > 0 /\ max = MaxIoCount => Gets(c, InputCount(r), n, v)
  <1>1. ToUsize(r) = r
    BY CursorAssumption DEF Gets, ToUsize
  <1>2. v > 0 => NonZero(r) = r
    BY DEF Gets, NonZero
  <1>3. QED
    BY <1>1, <1>2, CheckMeets DEF CountRead, InputCount

(* What usize counts is a u64.                                             *)
LEMMA UsizeIsU64 ==
  ASSUME NEW n \in Nat, n <= UsizeMax
  PROVE  n \in U64s
  <1>1. PICK b : b = Base4 * Base4
    OBVIOUS
  <1>2. b \in Nat /\ UsizeMax < b /\ UsizeMax \in Nat
    BY <1>1, BasePowers, UsizeAssumption, CursorAssumption
  <1>3. QED
    BY <1>1, <1>2 DEF U64s

(* The limits are counts.                                                  *)
LEMMA LimitsFit ==
  /\ MaxIoCount \in Nat /\ MaxIoCount <= UsizeMax
  /\ MaxScriptSize \in Nat /\ MaxScriptSize <= UsizeMax
  /\ MaxWitnessItems \in Nat /\ MaxWitnessItems <= UsizeMax
  /\ MaxWitnessItemSize \in Nat /\ MaxWitnessItemSize <= UsizeMax
  /\ UsizeMax \in Nat
  BY UsizeAssumption, CursorAssumption, LimitTypes

(* r takes the next n bytes of c, the last of which are bs.                *)
GetsBytes(c, r, n, bs) == Meets(c, r, n) /\ (r.ok => Bytes(r.val) = bs)

(* A read of as many bytes as were written.                                *)
LEMMA ArrayMeets ==
  ASSUME DataOK, NEW c, Valid(c), NEW bs \in Seq(Byte), Holds(c, c.pos, bs)
  PROVE  GetsBytes(c, ReadBytes(c, Len(bs)), Len(bs), bs)
  <1>1. PICK n, r : n = Len(bs) /\ r = ReadBytes(c, n)
    OBVIOUS
  <1>2. n \in Nat /\ c.pos \in Nat
    BY <1>1, ValidFields
  <1>3. Gets(c, r, n, Slice(c.lo + c.pos, c.lo + c.pos + n))
    BY <1>1, <1>2, BytesMeet
  <1>4. r.ok => c.pos + n <= c.len
    BY <1>3 DEF Gets, Meets
  <1>5. r.ok => Bytes(r.val) = bs
    BY <1>1, <1>2, <1>3, <1>4, BytesHeld DEF Gets
  <1>6. QED
    BY <1>1, <1>3, <1>5 DEF Gets, GetsBytes

(* A byte string with its length before it.                                *)
LEMMA WithLengthBytes ==
  ASSUME NEW bs \in Seq(Byte), Len(bs) <= UsizeMax
  PROVE  /\ Len(bs) \in U64s /\ EncodeVarint(Len(bs)) \in Seq(Byte)
         /\ WithLength(bs) \in Seq(Byte)
         /\ Len(WithLength(bs)) = Len(EncodeVarint(Len(bs))) + Len(bs)
  <1>1. Len(bs) \in U64s
    BY UsizeIsU64
  <1>2. EncodeVarint(Len(bs)) \in Seq(Byte)
    BY <1>1, VarintBytes
  <1>3. QED
    BY <1>1, <1>2, Joined DEF WithLength

(* A byte string with its length, read back.                               *)
LEMMA VarBytesMeet ==
  ASSUME DataOK, NEW c, Valid(c), NEW max \in Nat, max <= UsizeMax,
         NEW bs \in Seq(Byte), Len(bs) <= max, Holds(c, c.pos, WithLength(bs))
  PROVE  GetsBytes(c, ReadVarBytes(c, max), Len(WithLength(bs)), bs)
  <1> PICK e, n, k : e = EncodeVarint(Len(bs)) /\ n = Len(bs) /\ k = Len(e)
    OBVIOUS
  <1>1. n \in Nat /\ n <= UsizeMax /\ UsizeMax \in Nat
    BY LimitsFit
  <1>2. /\ n \in U64s /\ e \in Seq(Byte) /\ k \in Nat
        /\ WithLength(bs) = e \o bs /\ Len(WithLength(bs)) = k + n
    BY <1>1, WithLengthBytes DEF WithLength
  <1>3. Holds(c, c.pos, e) /\ \A r : Meets(c, r, k) /\ r.ok => Holds(r.cur, r.cur.pos, bs)
    BY <1>2, HoldsNext, Zenon
  <1> PICK v, r : v = ReadVarint(c) /\ r = Capped(ToUsize(v), max)
    OBVIOUS
  <1>4. Gets(c, r, k, n)
    <2>1. Gets(c, v, k, n)
      BY <1>2, <1>3, VarintMeets
    <2>2. r = CountRead(v, max)
      BY DEF CountRead
    <2>3. QED
      BY <1>1, <2>1, <2>2, CountMeets
  <1> PICK s : s = ReadBytes(r.cur, r.val)
    OBVIOUS
  <1>5. r.ok => GetsBytes(r.cur, s, n, bs)
    <2>1. SUFFICES ASSUME r.ok
                   PROVE  GetsBytes(r.cur, s, n, bs)
      OBVIOUS
    <2>2. Meets(c, r, k) /\ r.val = n
      BY <1>4, <2>1 DEF Gets
    <2>3. Valid(r.cur) /\ Holds(r.cur, r.cur.pos, bs)
      BY <1>2, <1>3, <2>1, <2>2, MetIsValid
    <2>4. QED
      BY <2>2, <2>3, ArrayMeets
  <1>6. ReadVarBytes(c, max) = IF r.ok THEN After(r, s) ELSE r
    BY DEF ReadVarBytes
  <1>7. /\ Meets(c, ReadVarBytes(c, max), k + n)
        /\ ReadVarBytes(c, max).ok => r.ok /\ s.ok /\ ReadVarBytes(c, max).val = s.val
    <2>1. Follows(c, r, k, s, n, ReadVarBytes(c, max))
      BY <1>1, <1>2, <1>4, <1>5, <1>6 DEF Gets, GetsBytes, Follows
    <2>2. QED
      BY <2>1, AfterMeets
  <1>8. QED
    BY <1>2, <1>5, <1>7 DEF GetsBytes

-----------------------------------------------------------------------------
(* Elements.                                                               *)

(* s is made of three byte strings, or of four.                            *)
Three(s, x, y, z) ==
  x \in Seq(Byte) /\ y \in Seq(Byte) /\ z \in Seq(Byte) /\ s = x \o y \o z

Four(s, x, y, z, w) ==
  /\ x \in Seq(Byte) /\ y \in Seq(Byte) /\ z \in Seq(Byte) /\ w \in Seq(Byte)
  /\ s = x \o y \o z \o w

(* Three parts of what a window holds.                                     *)
LEMMA HoldsThree ==
  ASSUME NEW c, c.len \in Nat, c.lo \in Nat, NEW p \in Nat,
         NEW s, NEW x, NEW y, NEW z, Three(s, x, y, z), Holds(c, p, s)
  PROVE  /\ Holds(c, p, x) /\ Holds(c, p + Len(x), y)
         /\ Holds(c, p + Len(x) + Len(y), z)
         /\ s \in Seq(Byte) /\ Len(s) = Len(x) + Len(y) + Len(z)
  <1>0. x \in Seq(Byte) /\ y \in Seq(Byte) /\ z \in Seq(Byte) /\ s = x \o y \o z
    BY DEF Three
  <1> PICK xy : xy = x \o y
    OBVIOUS
  <1>1. xy \in Seq(Byte) /\ Len(xy) = Len(x) + Len(y) /\ s = xy \o z
    BY <1>0, Joined
  <1>2. Holds(c, p, xy) /\ Holds(c, p + Len(xy), z)
    <2>1. Holds(c, p, xy \o z)
      BY <1>1
    <2>2. QED
      BY <1>0, <1>1, <2>1, HoldsParts
  <1>3. Holds(c, p, x) /\ Holds(c, p + Len(x), y)
    BY <1>0, <1>2, HoldsParts
  <1>4. p + Len(xy) = p + Len(x) + Len(y)
    BY <1>0, <1>1
  <1>5. s \in Seq(Byte) /\ Len(s) = Len(xy) + Len(z)
    BY <1>0, <1>1, Joined
  <1>6. QED
    BY <1>1, <1>2, <1>3, <1>4, <1>5

(* Four parts of what a window holds.                                      *)
LEMMA HoldsFour ==
  ASSUME NEW c, c.len \in Nat, c.lo \in Nat, NEW p \in Nat,
         NEW s, NEW x, NEW y, NEW z, NEW w, Four(s, x, y, z, w), Holds(c, p, s)
  PROVE  /\ Holds(c, p, x) /\ Holds(c, p + Len(x), y)
         /\ Holds(c, p + Len(x) + Len(y), z)
         /\ Holds(c, p + Len(x) + Len(y) + Len(z), w)
         /\ s \in Seq(Byte) /\ Len(s) = Len(x) + Len(y) + Len(z) + Len(w)
  <1>0. /\ x \in Seq(Byte) /\ y \in Seq(Byte) /\ z \in Seq(Byte) /\ w \in Seq(Byte)
        /\ s = x \o y \o z \o w
    BY DEF Four
  <1>xy. PICK xy : xy = x \o y
    OBVIOUS
  <1>1. xy \in Seq(Byte) /\ Len(xy) = Len(x) + Len(y) /\ s = xy \o z \o w
    BY <1>0, <1>xy, Joined
  <1>2. /\ Holds(c, p, xy) /\ Holds(c, p + Len(xy), z) /\ Holds(c, p + Len(xy) + Len(z), w)
        /\ s \in Seq(Byte) /\ Len(s) = Len(xy) + Len(z) + Len(w)
    <2>1. Three(s, xy, z, w)
      BY <1>0, <1>1 DEF Three
    <2>2. QED
      BY <2>1, HoldsThree
  <1>3. Holds(c, p, x) /\ Holds(c, p + Len(x), y)
    BY <1>0, <1>xy, <1>1, <1>2, HoldsParts
  <1>4. p + Len(xy) = p + Len(x) + Len(y)
    BY <1>0, <1>1
  <1>5. QED
    BY <1>1, <1>2, <1>3, <1>4

(* An input and an output that can be written.                             *)
InputFits(i) ==
  /\ i.txid \in Seq(Byte) /\ Len(i.txid) = HashLen /\ i.vout \in U32s
  /\ i.script \in Seq(Byte) /\ Len(i.script) <= MaxScriptSize /\ i.sequence \in U32s

OutputFits(o) ==
  o.value \in U64s /\ o.script \in Seq(Byte) /\ Len(o.script) <= MaxScriptSize

(* An input as written is read back, field by field.                       *)
LEMMA TxInputMeets ==
  ASSUME DataOK, NEW c, Valid(c), NEW i, InputFits(i), Holds(c, c.pos, EncodeInput(i))
  PROVE  /\ Meets(c, TxInput(c), Len(EncodeInput(i)))
         /\ TxInput(c).ok => IsInput(TxInput(c).val, i)
  <1> DEFINE txid == ReadArray(c, HashLen)
             vout == ReadU32(txid.cur)
             sig  == Script(vout.cur)
             seq  == ReadU32(sig.cur)
             v    == [txid |-> txid.val, vout |-> vout.val,
                      script |-> sig.val, sequence |-> seq.val]
             s0   == Ok(seq.cur, v, {})
             s1   == IF seq.ok THEN After(seq, s0) ELSE seq
             s2   == IF sig.ok THEN After(sig, s1) ELSE sig
             s3   == IF vout.ok THEN After(vout, s2) ELSE vout
             s4   == IF txid.ok THEN After(txid, s3) ELSE txid
  <1>a. PICK x, y, z, w : /\ x = i.txid /\ y = LittleEndian(i.vout, 4)
                          /\ z = WithLength(i.script) /\ w = LittleEndian(i.sequence, 4)
    OBVIOUS
  <1>b. PICK k, m, n : k = Len(z) /\ m = k + 4 /\ n = 4 + m
    OBVIOUS
  <1>0. /\ HashLen \in Nat /\ c.lo \in Nat /\ c.pos \in Nat /\ c.len \in Nat
        /\ MaxScriptSize \in Nat /\ MaxScriptSize <= UsizeMax /\ UsizeMax \in Nat
    BY LimitTypes, LimitsFit, ValidFields
  <1>1. TxInput(c) = s4
    BY DEF TxInput, AndThen
  <1>2. /\ x \in Seq(Byte) /\ Len(x) = HashLen
        /\ y \in Seq(Byte) /\ Len(y) = 4
        /\ z \in Seq(Byte) /\ k \in Nat
        /\ w \in Seq(Byte) /\ Len(w) = 4
    <2>1. i.vout \in Int /\ i.sequence \in Int /\ Len(i.script) <= UsizeMax
      BY <1>0 DEF InputFits, U32s
    <2>2. QED
      BY SMTT(30), <1>a, <1>b, <2>1, IntegerBytes, WithLengthBytes DEF InputFits
  <1>3. /\ Holds(c, c.pos, x) /\ Holds(c, c.pos + HashLen, y)
        /\ Holds(c, c.pos + HashLen + 4, z) /\ Holds(c, c.pos + HashLen + 4 + k, w)
        /\ Len(EncodeInput(i)) = HashLen + 4 + k + 4
    <2>1. PICK s : s = EncodeInput(i)
      OBVIOUS
    <2>2. Four(s, x, y, z, w)
      BY <1>a, <1>2, <2>1 DEF EncodeInput, Four
    <2>3. /\ Holds(c, c.pos, x) /\ Holds(c, c.pos + Len(x), y)
          /\ Holds(c, c.pos + Len(x) + Len(y), z)
          /\ Holds(c, c.pos + Len(x) + Len(y) + Len(z), w)
          /\ Len(s) = Len(x) + Len(y) + Len(z) + Len(w)
      BY <1>0, <2>1, <2>2, HoldsFour
    <2>4. QED
      BY <1>b, <1>2, <2>1, <2>3
  <1>4. GetsBytes(c, txid, HashLen, x)
    BY <1>a, <1>2, <1>3, ArrayMeets DEF ReadArray
  <1> HIDE DEF txid
  <1>5. txid.ok => /\ Valid(txid.cur) /\ txid.cur = MoveTo(c, c.pos + HashLen)
                   /\ txid.cur.pos = c.pos + HashLen
    BY <1>0, <1>4, MetIsValid DEF GetsBytes
  <1>6. txid.ok => Gets(txid.cur, vout, 4, i.vout)
    BY <1>a, <1>3, <1>5, U32Meets, HoldsMoved DEF InputFits
  <1> HIDE DEF vout
  <1>7. txid.ok /\ vout.ok => /\ Valid(vout.cur) /\ vout.cur = MoveTo(c, c.pos + HashLen + 4)
                              /\ vout.cur.pos = c.pos + HashLen + 4
    BY <1>5, <1>6, MetIsValid DEF Gets, MoveTo
  <1>8. txid.ok /\ vout.ok => GetsBytes(vout.cur, sig, k, i.script)
    BY <1>a, <1>b, <1>0, <1>3, <1>7, VarBytesMeet, HoldsMoved DEF InputFits, Script
  <1> HIDE DEF sig
  <1>9. txid.ok /\ vout.ok /\ sig.ok =>
          /\ Valid(sig.cur) /\ sig.cur = MoveTo(c, c.pos + HashLen + 4 + k)
          /\ sig.cur.pos = c.pos + HashLen + 4 + k
    BY <1>2, <1>7, <1>8, MetIsValid DEF GetsBytes, MoveTo
  <1>10. txid.ok /\ vout.ok /\ sig.ok => Gets(sig.cur, seq, 4, i.sequence)
    BY <1>a, <1>3, <1>9, U32Meets, HoldsMoved DEF InputFits
  <1> HIDE DEF seq
  <1>11. txid.ok /\ vout.ok /\ sig.ok /\ seq.ok => Gets(seq.cur, s0, 0, v)
    <2> HIDE DEF v
    <2>1. QED
      BY <1>9, <1>10, MetIsValid, OkMeets DEF Gets
  <1> HIDE DEF v, s0
  <1>12. 4 \in Nat /\ k \in Nat /\ m \in Nat /\ n \in Nat
    BY <1>b, <1>2
  <1>13. txid.ok /\ vout.ok /\ sig.ok =>
           Meets(sig.cur, s1, 4) /\ (s1.ok => seq.ok /\ s1.val = v)
    <2>1. SUFFICES ASSUME txid.ok, vout.ok, sig.ok
                   PROVE  Meets(sig.cur, s1, 4) /\ (s1.ok => seq.ok /\ s1.val = v)
      OBVIOUS
    <2>2. Valid(sig.cur) /\ (seq.ok => Gets(seq.cur, s0, 0, v))
      BY <1>9, <1>11, <2>1
    <2>3. Follows(sig.cur, seq, 4, s0, 0, s1)
      BY <1>10, <2>1, <2>2 DEF Gets, Follows
    <2>4. QED
      BY <2>2, <2>3, LastMeets
  <1> HIDE DEF s1
  <1>14. txid.ok /\ vout.ok =>
           Meets(vout.cur, s2, m) /\ (s2.ok => sig.ok /\ seq.ok /\ s2.val = v)
    <2>1. SUFFICES ASSUME txid.ok, vout.ok
                   PROVE  /\ Meets(vout.cur, s2, m)
                          /\ s2.ok => sig.ok /\ seq.ok /\ s2.val = v
      OBVIOUS
    <2>2. Valid(vout.cur) /\ Follows(vout.cur, sig, k, s1, 4, s2)
      BY <1>7, <1>8, <1>12, <1>13, <2>1 DEF GetsBytes, Follows
    <2> HIDE DEF s2
    <2>3. /\ Meets(vout.cur, s2, k + 4)
          /\ s2.ok => sig.ok /\ s1.ok /\ s2.val = s1.val
      BY <2>2, AfterMeets
    <2>4. QED
      BY <1>b, <1>13, <2>1, <2>3
  <1> HIDE DEF s2
  <1>15. txid.ok =>
           Meets(txid.cur, s3, n) /\ (s3.ok => vout.ok /\ sig.ok /\ seq.ok /\ s3.val = v)
    <2>1. SUFFICES ASSUME txid.ok
                   PROVE  /\ Meets(txid.cur, s3, n)
                          /\ s3.ok => vout.ok /\ sig.ok /\ seq.ok /\ s3.val = v
      OBVIOUS
    <2>2. Valid(txid.cur) /\ Follows(txid.cur, vout, 4, s2, m, s3)
      BY <1>5, <1>6, <1>12, <1>14, <2>1 DEF Gets, Follows
    <2> HIDE DEF s3
    <2>3. /\ Meets(txid.cur, s3, 4 + m)
          /\ s3.ok => vout.ok /\ s2.ok /\ s3.val = s2.val
      BY <2>2, AfterMeets
    <2>4. QED
      BY <1>b, <1>14, <2>1, <2>3
  <1> HIDE DEF s3
  <1>16. /\ Meets(c, s4, HashLen + n)
         /\ s4.ok => txid.ok /\ vout.ok /\ sig.ok /\ seq.ok /\ s4.val = v
    <2>1. Follows(c, txid, HashLen, s3, n, s4)
      BY <1>0, <1>4, <1>12, <1>15 DEF GetsBytes, Follows
    <2> HIDE DEF s4
    <2>2. /\ Meets(c, s4, HashLen + n)
          /\ s4.ok => txid.ok /\ s3.ok /\ s4.val = s3.val
      BY <2>1, AfterMeets
    <2>3. QED
      BY <1>15, <2>2
  <1> HIDE DEF s4
  <1>17. HashLen + n = HashLen + 4 + k + 4
    BY <1>b, <1>0, <1>12
  <1>18. s4.ok => IsInput(s4.val, i)
    <2>1. SUFFICES ASSUME s4.ok
                   PROVE  IsInput(s4.val, i)
      OBVIOUS
    <2>2. /\ Bytes(txid.val) = i.txid /\ vout.val = i.vout
          /\ Bytes(sig.val) = i.script /\ seq.val = i.sequence
      BY <1>4, <1>6, <1>8, <1>10, <1>16, <2>1, <1>a DEF Gets, GetsBytes
    <2>3. /\ s4.val.txid = txid.val /\ s4.val.vout = vout.val
          /\ s4.val.script = sig.val /\ s4.val.sequence = seq.val
      BY <1>16, <2>1 DEF v
    <2>4. QED
      BY <2>2, <2>3 DEF IsInput
  <1>19. QED
    BY <1>1, <1>3, <1>16, <1>17, <1>18

(* The bytes of an element.                                                *)
LEMMA OutputBytes ==
  ASSUME NEW o, OutputFits(o)
  PROVE  /\ LittleEndian(o.value, 8) \in Seq(Byte) /\ Len(LittleEndian(o.value, 8)) = 8
         /\ WithLength(o.script) \in Seq(Byte) /\ Len(WithLength(o.script)) \in Nat
         /\ EncodeOutput(o) \in Seq(Byte)
         /\ Len(EncodeOutput(o)) = 8 + Len(WithLength(o.script))
  <1>1. o.value \in Int /\ Len(o.script) <= UsizeMax
    BY LimitsFit DEF OutputFits, U64s
  <1>2. LittleEndian(o.value, 8) \in Seq(Byte) /\ Len(LittleEndian(o.value, 8)) = 8
    BY <1>1, IntegerBytes
  <1>3. WithLength(o.script) \in Seq(Byte) /\ Len(WithLength(o.script)) \in Nat
    BY <1>1, WithLengthBytes DEF OutputFits
  <1>4. PICK y, z : y = LittleEndian(o.value, 8) /\ z = WithLength(o.script)
    OBVIOUS
  <1>5. y \o z \in Seq(Byte) /\ Len(y \o z) = Len(y) + Len(z)
    BY <1>2, <1>3, <1>4, Joined
  <1>6. QED
    BY <1>2, <1>3, <1>4, <1>5 DEF EncodeOutput

(* An output as written is read back, field by field.                      *)
LEMMA TxOutputMeets ==
  ASSUME DataOK, NEW c, Valid(c), NEW o, OutputFits(o), Holds(c, c.pos, EncodeOutput(o))
  PROVE  /\ Meets(c, TxOutput(c), Len(EncodeOutput(o)))
         /\ TxOutput(c).ok => IsOutput(TxOutput(c).val, o)
  <1> DEFINE value == ReadU64(c)
             key   == Script(value.cur)
             v     == [value |-> value.val, script |-> key.val]
             s0    == Ok(key.cur, v, {})
             s1    == IF key.ok THEN After(key, s0) ELSE key
             s2    == IF value.ok THEN After(value, s1) ELSE value
  <1>a. PICK y, z, k : y = LittleEndian(o.value, 8) /\ z = WithLength(o.script) /\ k = Len(z)
    OBVIOUS
  <1>0. /\ c.lo \in Nat /\ c.pos \in Nat /\ c.len \in Nat
        /\ MaxScriptSize \in Nat /\ MaxScriptSize <= UsizeMax /\ UsizeMax \in Nat
    BY LimitsFit, ValidFields
  <1>1. TxOutput(c) = s2
    BY DEF TxOutput, AndThen
  <1>2. /\ y \in Seq(Byte) /\ Len(y) = 8 /\ z \in Seq(Byte) /\ k \in Nat
        /\ EncodeOutput(o) = y \o z /\ Len(EncodeOutput(o)) = 8 + k
    BY <1>a, OutputBytes DEF EncodeOutput
  <1>3. /\ Holds(c, c.pos, y)
        /\ \A r : Meets(c, r, 8) /\ r.ok => Holds(r.cur, r.cur.pos, z)
    <2>1. Holds(c, c.pos, y \o z)
      BY <1>2
    <2>2. Holds(c, c.pos, y) /\ \A r : Meets(c, r, Len(y)) /\ r.ok => Holds(r.cur, r.cur.pos, z)
      BY <1>2, <2>1, HoldsNext, Zenon
    <2>3. QED
      BY <1>2, <2>2
  <1>4. Gets(c, value, 8, o.value)
    BY <1>a, <1>3, U64Meets DEF OutputFits
  <1> HIDE DEF value
  <1>5. value.ok => Valid(value.cur) /\ Holds(value.cur, value.cur.pos, z)
    BY <1>3, <1>4, MetIsValid DEF Gets
  <1>6. value.ok => GetsBytes(value.cur, key, k, o.script)
    BY <1>a, <1>0, <1>5, VarBytesMeet DEF OutputFits, Script
  <1> HIDE DEF key
  <1>7. value.ok /\ key.ok => Gets(key.cur, s0, 0, v)
    <2> HIDE DEF v
    <2>1. QED
      BY <1>2, <1>5, <1>6, MetIsValid, OkMeets DEF GetsBytes
  <1> HIDE DEF v, s0
  <1>8. value.ok => Meets(value.cur, s1, k) /\ (s1.ok => key.ok /\ s1.val = v)
    <2>1. SUFFICES ASSUME value.ok
                   PROVE  Meets(value.cur, s1, k) /\ (s1.ok => key.ok /\ s1.val = v)
      OBVIOUS
    <2>2. Valid(value.cur) /\ (key.ok => Gets(key.cur, s0, 0, v))
      BY <1>5, <1>7, <2>1
    <2>3. Follows(value.cur, key, k, s0, 0, s1)
      BY <1>2, <1>6, <2>1, <2>2 DEF Gets, GetsBytes, Follows
    <2>4. QED
      BY <2>2, <2>3, LastMeets
  <1> HIDE DEF s1
  <1>9. /\ Meets(c, s2, 8 + k)
        /\ s2.ok => value.ok /\ key.ok /\ s2.val = v
    <2>1. Follows(c, value, 8, s1, k, s2)
      BY <1>2, <1>4, <1>8 DEF Gets, Follows
    <2> HIDE DEF s2
    <2>2. Meets(c, s2, 8 + k) /\ (s2.ok => value.ok /\ s1.ok /\ s2.val = s1.val)
      BY <2>1, AfterMeets
    <2>3. QED
      BY <1>8, <2>2
  <1> HIDE DEF s2
  <1>10. s2.ok => IsOutput(s2.val, o)
    <2>1. SUFFICES ASSUME s2.ok
                   PROVE  IsOutput(s2.val, o)
      OBVIOUS
    <2>2. value.val = o.value /\ Bytes(key.val) = o.script
      BY <1>4, <1>6, <1>9, <2>1 DEF Gets, GetsBytes
    <2>3. s2.val.value = value.val /\ s2.val.script = key.val
      BY <1>9, <2>1 DEF v
    <2>4. QED
      BY <2>2, <2>3 DEF IsOutput
  <1>11. QED
    BY <1>1, <1>2, <1>9, <1>10

-----------------------------------------------------------------------------
(* The head of a transaction, up to the count of its inputs.               *)

Marker(segwit) == IF segwit THEN <<0, 1>> ELSE <<>>

EncodeHead(v, segwit, n) == LittleEndian(v, 4) \o Marker(segwit) \o EncodeVarint(n)

(* The byte after the version, and what follows it.                        *)
MarkOrCount(segwit, n) == IF segwit THEN 0 ELSE FirstByte(n)

BehindMark(segwit, n) == IF segwit THEN <<1>> \o EncodeVarint(n) ELSE OtherBytes(n)

(* The marker and the count are this byte and what follows it.             *)
LEMMA HeadBytes ==
  ASSUME NEW segwit \in BOOLEAN, NEW n \in U64s, n > 0
  PROVE  /\ MarkOrCount(segwit, n) \in Byte /\ BehindMark(segwit, n) \in Seq(Byte)
         /\ (MarkOrCount(segwit, n) = 0) <=> segwit
         /\ Marker(segwit) \in Seq(Byte) /\ EncodeVarint(n) \in Seq(Byte)
         /\ Marker(segwit) \o EncodeVarint(n)
              = <<MarkOrCount(segwit, n)>> \o BehindMark(segwit, n)
  <1> PICK e : e = EncodeVarint(n)
    OBVIOUS
  <1>1. e \in Seq(Byte) /\ e = <<FirstByte(n)>> \o OtherBytes(n)
    BY VarintBytes
  <1>2. 0 \in Byte /\ 1 \in Byte
    BY BasePowers DEF Byte
  <1>3. CASE segwit
    <2>1. /\ MarkOrCount(segwit, n) = 0 /\ Marker(segwit) = <<0, 1>>
          /\ BehindMark(segwit, n) = <<1>> \o e
      BY <1>3 DEF MarkOrCount, Marker, BehindMark
    <2>2. <<0, 1>> = <<0>> \o <<1>> /\ <<0>> \in Seq(Byte) /\ <<1>> \in Seq(Byte)
          /\ <<0, 1>> \in Seq(Byte)
      BY <1>2
    <2>3. PICK a, b : a = <<0>> /\ b = <<1>>
      OBVIOUS
    <2>4. (a \o b) \o e = a \o (b \o e) /\ b \o e \in Seq(Byte)
      BY <1>1, <2>2, <2>3
    <2>5. QED
      BY <1>1, <1>2, <1>3, <2>1, <2>2, <2>3, <2>4
  <1>4. CASE ~ segwit
    <2>1. /\ MarkOrCount(segwit, n) = FirstByte(n) /\ Marker(segwit) = <<>>
          /\ BehindMark(segwit, n) = OtherBytes(n)
      BY <1>4 DEF MarkOrCount, Marker, BehindMark
    <2>2. <<>> \o e = e /\ <<>> \in Seq(Byte)
      BY <1>1
    <2>3. QED
      BY <1>1, <1>4, <2>1, <2>2, VarintBytes
  <1>5. QED
    BY <1>3, <1>4

(* The count, behind the byte after the version.                           *)
LEMMA CountAfterMeets ==
  ASSUME DataOK, NEW first, Valid(first.cur), NEW segwit \in BOOLEAN,
         NEW n \in 1 .. MaxIoCount, first.val = MarkOrCount(segwit, n),
         Holds(first.cur, first.cur.pos, BehindMark(segwit, n))
  PROVE  Gets(first.cur, CountAfter(first), Len(BehindMark(segwit, n)), n)
  <1> DEFINE c == first.cur
  <1>1. /\ n \in Nat /\ n > 0 /\ n <= MaxIoCount /\ n <= UsizeMax /\ MaxIoCount \in Nat
        /\ n \in U64s
    BY LimitsFit, UsizeIsU64
  <1>2. CASE ~ segwit
    <2>1. first.val = FirstByte(n) /\ first.val # 0 /\ BehindMark(segwit, n) = OtherBytes(n)
      BY <1>1, <1>2, VarintBytes DEF MarkOrCount, BehindMark
    <2>2. Gets(c, VarintFrom(c, first.val), Len(OtherBytes(n)), n)
      BY <1>1, <2>1, VarintFromMeets
    <2>3. CountAfter(first) = InputCount(VarintFrom(c, first.val))
      BY <2>1 DEF CountAfter
    <2>4. QED
      BY <1>1, <2>1, <2>2, <2>3, CountMeets
  <1>3. CASE segwit
    <2> DEFINE flag == ReadU8(c)
               r    == ReadVarint(flag.cur)
               s    == IF flag.val = 1 THEN InputCount(r)
                       ELSE Fail(flag.cur, InvalidSegwitFlag(flag.val), {})
               a    == IF flag.ok THEN After(flag, s) ELSE flag
    <2>a. PICK b, e, k : b = <<1>> /\ e = EncodeVarint(n) /\ k = Len(e)
      OBVIOUS
    <2>0. /\ b \in Seq(Byte) /\ Len(b) = 1 /\ 1 \in Byte /\ e \in Seq(Byte) /\ k \in Nat
          /\ BehindMark(segwit, n) = b \o e /\ Len(b \o e) = 1 + k
      <3>1. 1 \in Byte
        BY BasePowers DEF Byte
      <3>2. b \in Seq(Byte) /\ Len(b) = 1
        BY <2>a, <3>1
      <3>3. e \in Seq(Byte)
        BY <1>1, <2>a, VarintBytes
      <3>4. BehindMark(segwit, n) = b \o e
        BY <1>3, <2>a DEF BehindMark
      <3>5. Len(b \o e) = Len(b) + Len(e)
        BY <3>2, <3>3, Joined
      <3>6. QED
        BY <2>a, <3>1, <3>2, <3>3, <3>4, <3>5
    <2>1. CountAfter(first) = a
      <3>1. ~ (first.val # 0)
        BY <1>3 DEF MarkOrCount
      <3>2. QED
        BY <3>1 DEF CountAfter, AndThen
    <2>2. Holds(c, c.pos, b) /\ \A q : Meets(c, q, 1) /\ q.ok => Holds(q.cur, q.cur.pos, e)
      <3>1. Holds(c, c.pos, b \o e)
        BY <2>0
      <3>2. Holds(c, c.pos, b) /\ \A q : Meets(c, q, Len(b)) /\ q.ok => Holds(q.cur, q.cur.pos, e)
        BY <2>0, <3>1, HoldsNext, Zenon
      <3>3. QED
        BY <2>0, <3>2
    <2>3. Gets(c, flag, 1, 1)
      BY <2>a, <2>0, <2>2, ByteMeets
    <2> HIDE DEF flag
    <2>4. flag.ok => /\ Valid(flag.cur) /\ Holds(flag.cur, flag.cur.pos, e)
                     /\ s = InputCount(r)
      BY <2>2, <2>3, MetIsValid DEF Gets
    <2>5. flag.ok => Gets(flag.cur, r, k, n)
      BY <1>1, <2>a, <2>4, VarintMeets
    <2> HIDE DEF r, s
    <2>6. flag.ok => Gets(flag.cur, s, k, n)
      BY <1>1, <2>4, <2>5, CountMeets
    <2>7. Follows(c, flag, 1, s, k, a)
      BY <2>0, <2>3, <2>6 DEF Gets, Follows
    <2> HIDE DEF a
    <2>8. Meets(c, a, 1 + k) /\ (a.ok => flag.ok /\ s.ok /\ a.val = s.val)
      BY <2>7, AfterMeets
    <2>9. QED
      BY <2>0, <2>1, <2>6, <2>8 DEF Gets
  <1>4. QED
    BY <1>2, <1>3


(* How far one sequence more reaches.                                      *)
LEMMA UptoMore ==
  ASSUME NEW T, NEW ss \in Seq(Seq(T)), NEW k \in 0 .. Len(ss) - 1
  PROVE  /\ Upto(ss, k) \in Nat /\ ss[k + 1] \in Seq(T)
         /\ Upto(ss, k + 1) = Upto(ss, k) + Len(ss[k + 1])
         /\ Upto(ss, k + 1) <= Len(FlattenSeq(ss))
  <1>1. PICK a, b, e, f : /\ a = FirstOf(ss, k) /\ b = FirstOf(ss, k + 1)
                          /\ e = ss[k + 1] /\ f = FlattenSeq(ss)
    OBVIOUS
  <1>2. k + 1 \in 0 .. Len(ss)
    OBVIOUS
  <1>3. a \in Seq(T) /\ e \in Seq(T) /\ b = a \o e
    BY <1>1, FrontMore
  <1>4. Extends(f, b)
    BY <1>1, <1>2, FrontGrows
  <1>5. Len(a) \in Nat /\ Len(b) = Len(a) + Len(e) /\ Len(b) <= Len(f)
    BY <1>3, <1>4 DEF Extends
  <1>6. QED
    BY <1>1, <1>3, <1>5 DEF Upto

(* Each of the sequences joined stands where those before it end.          *)
LEMMA HoldsEach ==
  ASSUME NEW c, c.len \in Nat, c.lo \in Nat, NEW p \in Nat,
         NEW T, NEW ss \in Seq(Seq(T)), Holds(c, p, FlattenSeq(ss)),
         NEW k \in 0 .. Len(ss) - 1
  PROVE  Holds(c, p + Upto(ss, k), ss[k + 1])
  <1>1. PICK a, b, e, f : /\ a = FirstOf(ss, k) /\ b = FirstOf(ss, k + 1)
                          /\ e = ss[k + 1] /\ f = FlattenSeq(ss)
    OBVIOUS
  <1>2. k + 1 \in 0 .. Len(ss)
    OBVIOUS
  <1>3. a \in Seq(T) /\ e \in Seq(T) /\ b = a \o e
    BY <1>1, FrontMore
  <1>4. Extends(f, b)
    BY <1>1, <1>2, FrontGrows
  <1>5. Holds(c, p, f)
    BY <1>1
  <1>6. Len(b) \in Nat /\ Len(b) <= Len(f)
    BY <1>3, <1>4 DEF Extends
  <1>7. Len(f) \in Nat
    BY <1>1, FrontGrows, FrontEnds, Len(ss) \in 0 .. Len(ss)
  <1>8. Holds(c, p, b)
    BY SMTT(30), <1>4, <1>5, <1>6, <1>7 DEF Holds, Extends
  <1>9. Holds(c, p, a \o e)
    BY <1>3, <1>8
  <1>10. Holds(c, p + Len(a), e)
    BY <1>3, <1>9, HoldsParts
  <1>11. QED
    BY <1>1, <1>10 DEF Upto

(* A head as written: the version, the byte behind it and the rest.        *)
LEMMA HeadParts ==
  ASSUME NEW v \in Int, NEW segwit \in BOOLEAN, NEW n \in U64s, n > 0
  PROVE  /\ Three(EncodeHead(v, segwit, n), LittleEndian(v, 4),
                  <<MarkOrCount(segwit, n)>>, BehindMark(segwit, n))
         /\ EncodeHead(v, segwit, n) \in Seq(Byte)
         /\ Len(LittleEndian(v, 4)) = 4 /\ Len(<<MarkOrCount(segwit, n)>>) = 1
         /\ Len(BehindMark(segwit, n)) \in Nat
         /\ Len(EncodeHead(v, segwit, n)) = 4 + (1 + Len(BehindMark(segwit, n)))
  <1>a. PICK x, y, z, m, e : /\ x = LittleEndian(v, 4) /\ y = <<MarkOrCount(segwit, n)>>
                             /\ z = BehindMark(segwit, n)
                             /\ m = Marker(segwit) /\ e = EncodeVarint(n)
    OBVIOUS
  <1>1. x \in Seq(Byte) /\ Len(x) = 4
    BY <1>a, IntegerBytes
  <1>2. /\ y \in Seq(Byte) /\ Len(y) = 1 /\ z \in Seq(Byte)
        /\ m \in Seq(Byte) /\ e \in Seq(Byte) /\ m \o e = y \o z
    <2>1. MarkOrCount(segwit, n) \in Byte /\ Len(<<MarkOrCount(segwit, n)>>) = 1
      BY HeadBytes
    <2>2. y \in Seq(Byte)
      BY <1>a, <2>1
    <2>3. /\ z \in Seq(Byte) /\ m \in Seq(Byte) /\ e \in Seq(Byte)
          /\ m \o e = y \o z
      BY <1>a, HeadBytes, Zenon
    <2>4. QED
      BY <1>a, <2>1, <2>2, <2>3
  <1>3. EncodeHead(v, segwit, n) = (x \o m) \o e
    BY <1>a DEF EncodeHead
  <1>4. (x \o m) \o e = (x \o y) \o z
    <2>0. x \in Seq(Byte) /\ y \in Seq(Byte) /\ z \in Seq(Byte) /\ m \in Seq(Byte) /\ e \in Seq(Byte)
      BY <1>1, <1>2
    <2>1. (x \o m) \o e = x \o (m \o e)
      BY <2>0
    <2>2. (x \o y) \o z = x \o (y \o z)
      BY <2>0
    <2>3. QED
      BY <1>2, <2>1, <2>2, Zenon
  <1>5. x \o y \in Seq(Byte) /\ Len(x \o y) = Len(x) + Len(y)
    BY <1>1, <1>2, Joined
  <1>6. (x \o y) \o z \in Seq(Byte) /\ Len((x \o y) \o z) = Len(x \o y) + Len(z)
    BY <1>2, <1>5, Joined
  <1>7. EncodeHead(v, segwit, n) = (x \o y) \o z
    BY <1>3, <1>4
  <1>8. Len(z) \in Nat /\ Len(x \o y) + Len(z) = 4 + (1 + Len(z))
    BY <1>1, <1>2, <1>5
  <1>9. QED
    BY <1>a, <1>1, <1>2, <1>6, <1>7, <1>8 DEF Three

(* The head as written is read back.                                       *)
LEMMA TxHeadMeets ==
  ASSUME DataOK, NEW c, Valid(c), NEW v \in Int, -Base4 <= 2 * v, 2 * v < Base4,
         NEW segwit \in BOOLEAN, NEW n \in 1 .. MaxIoCount,
         Holds(c, c.pos, EncodeHead(v, segwit, n))
  PROVE  /\ Meets(c, TxHead(c), Len(EncodeHead(v, segwit, n)))
         /\ TxHead(c).ok => /\ TxHead(c).val.version = v /\ TxHead(c).val.segwit = segwit
                            /\ TxHead(c).val.inputs = n
  <1> DEFINE version == ReadI32(c)
             first   == ReadU8(version.cur)
             count   == CountAfter(first)
             w       == [version |-> version.val, segwit |-> first.val = 0,
                         inputs |-> count.val]
             s0      == Ok(count.cur, w, {})
             s1      == IF count.ok THEN After(count, s0) ELSE count
             s2      == IF first.ok THEN After(first, s1) ELSE first
             s3      == IF version.ok THEN After(version, s2) ELSE version
  <1>a. PICK x, b, y, z : /\ x = LittleEndian(v, 4) /\ b = MarkOrCount(segwit, n) /\ y = <<b>>
                          /\ z = BehindMark(segwit, n)
    OBVIOUS
  <1>b. PICK k, m : k = Len(z) /\ m = 1 + k
    OBVIOUS
  <1>0. /\ c.lo \in Nat /\ c.pos \in Nat /\ c.len \in Nat /\ n \in U64s /\ n > 0
    BY LimitsFit, UsizeIsU64, ValidFields
  <1>1. TxHead(c) = s3
    BY DEF TxHead, AndThen
  <1>2. /\ Holds(c, c.pos, x) /\ Holds(c, c.pos + 4, y) /\ Holds(c, c.pos + 5, z)
        /\ Len(EncodeHead(v, segwit, n)) = 4 + m /\ k \in Nat /\ m \in Nat
    <2>1. PICK s : s = EncodeHead(v, segwit, n)
      OBVIOUS
    <2>2. Three(s, x, y, z) /\ Len(x) = 4 /\ Len(y) = 1 /\ k \in Nat /\ Len(s) = 4 + m
      BY <1>a, <1>b, <1>0, <2>1, HeadParts
    <2>3. /\ Holds(c, c.pos, x) /\ Holds(c, c.pos + Len(x), y)
          /\ Holds(c, c.pos + Len(x) + Len(y), z)
      BY <1>0, <2>1, <2>2, HoldsThree
    <2>4. c.pos + 4 + 1 = c.pos + 5
      BY <1>0
    <2>5. QED
      BY <1>b, <2>1, <2>2, <2>3, <2>4
  <1>3. Gets(c, version, 4, v)
    BY <1>a, <1>2, I32Meets
  <1> HIDE DEF version
  <1>4. version.ok => /\ Valid(version.cur) /\ version.cur = MoveTo(c, c.pos + 4)
                      /\ version.cur.pos = c.pos + 4
    BY <1>3, MetIsValid DEF Gets
  <1>5. version.ok => Gets(version.cur, first, 1, b)
    <2>1. b \in Byte
      BY <1>0, <1>a, HeadBytes
    <2>2. QED
      BY <1>a, <1>2, <1>4, <2>1, ByteMeets, HoldsMoved
  <1> HIDE DEF first
  <1>6. version.ok /\ first.ok => /\ Valid(first.cur) /\ first.cur = MoveTo(c, c.pos + 5)
                                  /\ first.cur.pos = c.pos + 5 /\ first.val = b
    <2>1. SUFFICES ASSUME version.ok, first.ok
                   PROVE  /\ Valid(first.cur) /\ first.cur = MoveTo(c, c.pos + 5)
                          /\ first.cur.pos = c.pos + 5 /\ first.val = b
      OBVIOUS
    <2>2. (c.pos + 4) + 1 = c.pos + 5
      BY <1>0
    <2>3. QED
      BY <1>4, <1>5, <2>1, <2>2, MetIsValid DEF Gets, MoveTo
  <1>7. version.ok /\ first.ok => Gets(first.cur, count, k, n)
    <2>1. SUFFICES ASSUME version.ok, first.ok
                   PROVE  Gets(first.cur, count, k, n)
      OBVIOUS
    <2>2. Holds(first.cur, first.cur.pos, z)
      BY <1>2, <1>6, <2>1, HoldsMoved
    <2>3. QED
      BY <1>a, <1>b, <1>6, <2>1, <2>2, CountAfterMeets
  <1> HIDE DEF count
  <1>8. version.ok /\ first.ok /\ count.ok => Gets(count.cur, s0, 0, w)
    <2> HIDE DEF w
    <2>1. QED
      BY <1>2, <1>6, <1>7, MetIsValid, OkMeets DEF Gets
  <1> HIDE DEF w, s0
  <1>9. version.ok /\ first.ok =>
          Meets(first.cur, s1, k) /\ (s1.ok => count.ok /\ s1.val = w)
    <2>1. SUFFICES ASSUME version.ok, first.ok
                   PROVE  Meets(first.cur, s1, k) /\ (s1.ok => count.ok /\ s1.val = w)
      OBVIOUS
    <2>2. Valid(first.cur) /\ (count.ok => Gets(count.cur, s0, 0, w))
      BY <1>6, <1>8, <2>1
    <2>3. Follows(first.cur, count, k, s0, 0, s1)
      BY <1>2, <1>7, <2>1, <2>2 DEF Gets, Follows
    <2> HIDE DEF s1
    <2>4. QED
      BY <2>2, <2>3, LastMeets
  <1> HIDE DEF s1
  <1>10. version.ok =>
          Meets(version.cur, s2, m) /\ (s2.ok => first.ok /\ count.ok /\ s2.val = w)
    <2>1. SUFFICES ASSUME version.ok
                   PROVE  /\ Meets(version.cur, s2, m)
                          /\ s2.ok => first.ok /\ count.ok /\ s2.val = w
      OBVIOUS
    <2>2. Valid(version.cur) /\ Follows(version.cur, first, 1, s1, k, s2)
      BY <1>2, <1>4, <1>5, <1>9, <2>1 DEF Gets, Follows
    <2> HIDE DEF s2
    <2>3. Meets(version.cur, s2, 1 + k) /\ (s2.ok => first.ok /\ s1.ok /\ s2.val = s1.val)
      BY <2>2, AfterMeets
    <2>4. QED
      BY <1>b, <1>9, <2>1, <2>3
  <1> HIDE DEF s2
  <1>11. /\ Meets(c, s3, 4 + m)
         /\ s3.ok => version.ok /\ first.ok /\ count.ok /\ s3.val = w
    <2>1. Follows(c, version, 4, s2, m, s3)
      BY <1>2, <1>3, <1>10 DEF Gets, Follows
    <2> HIDE DEF s3
    <2>2. Meets(c, s3, 4 + m) /\ (s3.ok => version.ok /\ s2.ok /\ s3.val = s2.val)
      BY <2>1, AfterMeets
    <2>3. QED
      BY <1>10, <2>2
  <1> HIDE DEF s3
  <1>12. s3.ok => s3.val.version = v /\ s3.val.segwit = segwit /\ s3.val.inputs = n
    <2>1. SUFFICES ASSUME s3.ok
                   PROVE  s3.val.version = v /\ s3.val.segwit = segwit /\ s3.val.inputs = n
      OBVIOUS
    <2>2. version.val = v /\ first.val = b /\ count.val = n
      BY <1>3, <1>5, <1>7, <1>11, <2>1 DEF Gets
    <2>3. /\ s3.val.version = version.val /\ s3.val.segwit = (first.val = 0)
          /\ s3.val.inputs = count.val
      BY <1>11, <2>1 DEF w
    <2>4. (b = 0) = segwit
      BY <1>0, <1>a, HeadBytes
    <2>5. QED
      BY <2>2, <2>3, <2>4
  <1>13. QED
    BY <1>1, <1>2, <1>11, <1>12

-----------------------------------------------------------------------------
(* Pieces: the byte strings that a transaction is written as.              *)

(* Of n bytes behind o, those from x to y are bs.                          *)
Piece(o, n, x, bs, y) ==
  /\ bs \in Seq(Byte) /\ x \in Nat /\ y \in Nat /\ y = x + Len(bs) /\ y <= n
  /\ Holds(o, o.pos + x, bs)

(* c is x bytes behind o in the same window.                               *)
StandsAt(o, c, x) == c.lo = o.lo /\ c.len = o.len /\ c.pos = o.pos + x

(* The error says that there are less than n bytes behind o.               *)
Short(o, n, e) == e.kind = "UnexpectedEof" /\ o.len < o.pos + n

(* A piece of two parts is two pieces.                                     *)
LEMMA PieceSplit ==
  ASSUME NEW o, Valid(o), NEW n \in Nat, NEW x, NEW y,
         NEW a \in Seq(Byte), NEW b \in Seq(Byte), NEW s, s = a \o b, Piece(o, n, x, s, y)
  PROVE  Piece(o, n, x, a, x + Len(a)) /\ Piece(o, n, x + Len(a), b, y)
  <1>1. /\ x \in Nat /\ y \in Nat /\ y = x + Len(s) /\ y <= n
        /\ Holds(o, o.pos + x, s) /\ Len(a) \in Nat /\ Len(b) \in Nat
    BY DEF Piece
  <1>2. Len(s) = Len(a) + Len(b)
    BY Joined
  <1>3. o.lo \in Nat /\ o.len \in Nat /\ o.pos \in Nat
    BY DEF Valid
  <1>4. Holds(o, o.pos + x, a) /\ Holds(o, (o.pos + x) + Len(a), b)
    <2>1. o.pos + x \in Nat
      BY <1>1, <1>3
    <2>2. Holds(o, o.pos + x, a \o b)
      BY <1>1
    <2>3. QED
      BY <1>3, <2>1, <2>2, HoldsParts
  <1>5. (o.pos + x) + Len(a) = o.pos + (x + Len(a))
    BY <1>1, <1>3
  <1>6. /\ x + Len(a) \in Nat /\ x + Len(a) <= n /\ y = (x + Len(a)) + Len(b)
    BY <1>1, <1>2
  <1>7. QED
    BY <1>1, <1>4, <1>5, <1>6 DEF Piece

(* A piece of many parts is many pieces.                                   *)
LEMMA PieceEach ==
  ASSUME NEW o, Valid(o), NEW n \in Nat, NEW x, NEW y, NEW ss \in Seq(Seq(Byte)),
         Piece(o, n, x, FlattenSeq(ss), y), NEW k \in 0 .. Len(ss) - 1
  PROVE  Piece(o, n, x + Upto(ss, k), ss[k + 1], x + Upto(ss, k + 1))
  <1>a. PICK s, e, u, v : /\ s = FlattenSeq(ss) /\ e = ss[k + 1]
                          /\ u = Upto(ss, k) /\ v = Upto(ss, k + 1)
    OBVIOUS
  <1>1. /\ x \in Nat /\ y \in Nat /\ y = x + Len(s) /\ y <= n /\ Holds(o, o.pos + x, s)
        /\ s \in Seq(Byte) /\ Len(s) \in Nat
    BY <1>a DEF Piece
  <1>2. o.lo \in Nat /\ o.len \in Nat /\ o.pos \in Nat /\ o.pos + x \in Nat
    BY <1>1 DEF Valid
  <1>3. u \in Nat /\ e \in Seq(Byte) /\ Len(e) \in Nat /\ v = u + Len(e) /\ v <= Len(s)
    BY <1>a, UptoMore
  <1>4. Holds(o, (o.pos + x) + u, e)
    BY <1>a, <1>1, <1>2, HoldsEach
  <1>b. PICK p, l, q : p = o.pos /\ l = Len(e) /\ q = Len(s)
    OBVIOUS
  <1>5. /\ (p + x) + u = p + (x + u) /\ x + u \in Nat /\ x + v \in Nat
        /\ x + v = (x + u) + l /\ x + v <= n
    <2>1. p \in Nat /\ x \in Nat /\ u \in Nat /\ l \in Nat /\ q \in Nat /\ v = u + l /\ v <= q
          /\ y = x + q /\ y <= n
      BY <1>1, <1>2, <1>3, <1>b
    <2>2. QED
      BY <2>1
  <1>6. QED
    BY <1>3, <1>4, <1>5, <1>a, <1>b DEF Piece

(* A read of a piece ends behind it, or the bytes are too few.             *)
LEMMA PieceMeets ==
  ASSUME NEW o, Valid(o), NEW n \in Nat, NEW x, NEW y, NEW bs,
         Piece(o, n, x, bs, y), NEW c, Valid(c), StandsAt(o, c, x)
  PROVE  /\ Holds(c, c.pos, bs)
         /\ \A r : Meets(c, r, Len(bs)) =>
              \/ r.ok = TRUE /\ StandsAt(o, r.cur, y) /\ Valid(r.cur)
              \/ r.ok = FALSE /\ Short(o, n, r.err)
  <1>1. /\ x \in Nat /\ y \in Nat /\ y = x + Len(bs) /\ y <= n /\ Len(bs) \in Nat
        /\ Holds(o, o.pos + x, bs)
    BY DEF Piece
  <1>2. o.lo \in Nat /\ o.len \in Nat /\ o.pos \in Nat
    BY DEF Valid
  <1>3. c.lo = o.lo /\ c.len = o.len /\ c.pos = o.pos + x
    BY DEF StandsAt
  <1>4. Holds(c, c.pos, bs)
    BY <1>1, <1>3 DEF Holds
  <1>5. ASSUME NEW r, Meets(c, r, Len(bs))
        PROVE  \/ r.ok = TRUE /\ StandsAt(o, r.cur, y) /\ Valid(r.cur)
               \/ r.ok = FALSE /\ Short(o, n, r.err)
    <2>1. c.pos + Len(bs) = o.pos + y
      BY <1>1, <1>2, <1>3
    <2>2. CASE c.pos + Len(bs) <= c.len
      <3>1. r.ok = TRUE /\ r.cur = MoveTo(c, c.pos + Len(bs))
        BY <1>5, <2>2 DEF Meets
      <3>2. Valid(r.cur)
        BY <1>1, <1>5, <3>1, MetIsValid
      <3>3. QED
        BY <1>3, <2>1, <3>1, <3>2 DEF MoveTo, StandsAt
    <2>3. CASE ~ (c.pos + Len(bs) <= c.len)
      <3>1. r.ok = FALSE /\ r.err.kind = "UnexpectedEof"
        BY <1>5, <2>3 DEF Meets
      <3>2. o.len < o.pos + n
        BY <1>1, <1>2, <1>3, <2>1, <2>3
      <3>3. QED
        BY <3>1, <3>2 DEF Short
    <2>4. QED
      BY <2>2, <2>3
  <1>6. QED
    BY <1>4, <1>5

(* Byte strings joined are a byte string, and reach as far as all of them. *)
LEMMA AllJoined ==
  ASSUME NEW T, NEW ss \in Seq(Seq(T))
  PROVE  /\ FlattenSeq(ss) \in Seq(T) /\ Upto(ss, 0) = 0
         /\ Upto(ss, Len(ss)) = Len(FlattenSeq(ss)) /\ Len(FlattenSeq(ss)) \in Nat
  <1>1. Len(ss) \in 0 .. Len(ss)
    OBVIOUS
  <1>2. FirstOf(ss, Len(ss)) = FlattenSeq(ss) /\ FirstOf(ss, Len(ss)) \in Seq(T)
    BY <1>1, FrontEnds, FrontGrows
  <1>3. QED
    BY <1>2, FrontEnds DEF Upto

(* The bytes of an input.                                                  *)
LEMMA InputBytes ==
  ASSUME NEW i, InputFits(i)
  PROVE  EncodeInput(i) \in Seq(Byte)
  <1>a. PICK x, y, z, w : /\ x = i.txid /\ y = LittleEndian(i.vout, 4)
                          /\ z = WithLength(i.script) /\ w = LittleEndian(i.sequence, 4)
    OBVIOUS
  <1>1. i.vout \in Int /\ i.sequence \in Int /\ Len(i.script) <= UsizeMax
    BY LimitsFit, BasePowers DEF InputFits, U32s
  <1>2. x \in Seq(Byte) /\ y \in Seq(Byte) /\ z \in Seq(Byte) /\ w \in Seq(Byte)
    BY <1>a, <1>1, IntegerBytes, WithLengthBytes DEF InputFits
  <1>3. x \o y \in Seq(Byte)
    BY <1>2, Joined
  <1>4. x \o y \o z \in Seq(Byte)
    BY <1>2, <1>3, Joined
  <1>5. x \o y \o z \o w \in Seq(Byte)
    BY <1>2, <1>4, Joined
  <1>6. QED
    BY <1>a, <1>5 DEF EncodeInput

(* A witness within the limits, and its items as they are written.         *)
WitnessFits(w) ==
  /\ w \in Seq(Seq(Byte)) /\ Len(w) <= MaxWitnessItems
  /\ \A k \in 1 .. Len(w) : Len(w[k]) <= MaxWitnessItemSize

ItemsOf(w) == [k \in 1 .. Len(w) |-> WithLength(w[k])]

(* The bytes of a witness.                                                 *)
LEMMA WitnessBytes ==
  ASSUME NEW w, WitnessFits(w)
  PROVE  /\ Len(w) \in U64s /\ Len(w) \in Nat
         /\ ItemsOf(w) \in Seq(Seq(Byte)) /\ Len(ItemsOf(w)) = Len(w)
         /\ \A k \in 1 .. Len(w) :
              /\ w[k] \in Seq(Byte) /\ Len(w[k]) <= MaxWitnessItemSize
              /\ ItemsOf(w)[k] = WithLength(w[k])
         /\ EncodeVarint(Len(w)) \in Seq(Byte) /\ FlattenSeq(ItemsOf(w)) \in Seq(Byte)
         /\ EncodeWitness(w) = EncodeVarint(Len(w)) \o FlattenSeq(ItemsOf(w))
         /\ EncodeWitness(w) \in Seq(Byte)
  <1>1. /\ w \in Seq(Seq(Byte)) /\ Len(w) \in Nat
        /\ \A k \in 1 .. Len(w) : w[k] \in Seq(Byte) /\ Len(w[k]) <= MaxWitnessItemSize
    BY DEF WitnessFits
  <1>2. Len(w) <= UsizeMax
    <2>1. Len(w) <= MaxWitnessItems
      BY DEF WitnessFits
    <2>2. QED
      BY <1>1, <2>1, LimitsFit
  <1>3. Len(w) \in U64s
    BY <1>1, <1>2, UsizeIsU64
  <1>4. EncodeVarint(Len(w)) \in Seq(Byte)
    BY <1>3, VarintBytes
  <1>5. \A k \in 1 .. Len(w) : WithLength(w[k]) \in Seq(Byte)
    <2>1. SUFFICES ASSUME NEW k \in 1 .. Len(w)
                   PROVE  WithLength(w[k]) \in Seq(Byte)
      OBVIOUS
    <2>2. w[k] \in Seq(Byte) /\ Len(w[k]) <= UsizeMax
      BY <1>1, LimitsFit
    <2>3. QED
      BY <2>2, WithLengthBytes
  <1>6. /\ ItemsOf(w) \in Seq(Seq(Byte)) /\ Len(ItemsOf(w)) = Len(w)
        /\ \A k \in 1 .. Len(w) : ItemsOf(w)[k] = WithLength(w[k])
    BY <1>1, <1>5 DEF ItemsOf
  <1>7. FlattenSeq(ItemsOf(w)) \in Seq(Byte)
    BY <1>6, AllJoined
  <1>8. EncodeWitness(w) = EncodeVarint(Len(w)) \o FlattenSeq(ItemsOf(w))
    BY DEF EncodeWitness, Each, ItemsOf
  <1>9. EncodeVarint(Len(w)) \o FlattenSeq(ItemsOf(w)) \in Seq(Byte)
    BY <1>4, <1>7, Joined
  <1>10. QED
    BY <1>1, <1>3, <1>4, <1>6, <1>7, <1>8, <1>9

-----------------------------------------------------------------------------
(* The pieces of a transaction.                                            *)

HeadOf(t) == EncodeHead(t.version, t.segwit, Len(t.inputs))

InputsOf(t) == [k \in 1 .. Len(t.inputs) |-> EncodeInput(t.inputs[k])]

CountOf(t) == EncodeVarint(Len(t.outputs))

OutputsOf(t) == [k \in 1 .. Len(t.outputs) |-> EncodeOutput(t.outputs[k])]

WitnessesOf(t) ==
  IF t.segwit THEN [k \in 1 .. Len(t.witnesses) |-> EncodeWitness(t.witnesses[k])] ELSE <<>>

LockOf(t) == LittleEndian(t.locktime, 4)

(* Where the pieces begin and end.                                         *)
InputAt(t, k) == Len(HeadOf(t)) + Upto(InputsOf(t), k)

OutputAt(t, k) == InputAt(t, Len(t.inputs)) + Len(CountOf(t)) + Upto(OutputsOf(t), k)

WitnessAt(t, k) == OutputAt(t, Len(t.outputs)) + Upto(WitnessesOf(t), k)

LockAt(t) == WitnessAt(t, Len(WitnessesOf(t)))

SizeOf(t) == Len(EncodeTx(t))

(* Behind o the pieces of t stand one after the other, as far as the       *)
(* window goes.                                                            *)
Laid(o, t) ==
  /\ SizeOf(t) \in Nat
  /\ Piece(o, SizeOf(t), 0, HeadOf(t), InputAt(t, 0))
  /\ \A k \in 0 .. Len(t.inputs) - 1 :
       Piece(o, SizeOf(t), InputAt(t, k), EncodeInput(t.inputs[k + 1]), InputAt(t, k + 1))
  /\ Piece(o, SizeOf(t), InputAt(t, Len(t.inputs)), CountOf(t), OutputAt(t, 0))
  /\ \A k \in 0 .. Len(t.outputs) - 1 :
       Piece(o, SizeOf(t), OutputAt(t, k), EncodeOutput(t.outputs[k + 1]), OutputAt(t, k + 1))
  /\ OutputAt(t, Len(t.outputs)) = WitnessAt(t, 0)
  /\ t.segwit => \A k \in 0 .. Len(t.inputs) - 1 :
       Piece(o, SizeOf(t), WitnessAt(t, k), EncodeWitness(t.witnesses[k + 1]), WitnessAt(t, k + 1))
  /\ LockAt(t) = WitnessAt(t, IF t.segwit THEN Len(t.inputs) ELSE 0)
  /\ Piece(o, SizeOf(t), LockAt(t), LockOf(t), SizeOf(t))

(* What the elements of an encodable transaction are.                      *)
LEMMA Elements ==
  ASSUME NEW t, Encodable(t)
  PROVE  /\ t.version \in Int /\ -Base4 <= 2 * t.version /\ 2 * t.version < Base4
         /\ t.segwit \in BOOLEAN /\ t.locktime \in U32s
         /\ Len(t.inputs) \in 1 .. MaxIoCount /\ Len(t.inputs) \in U64s
         /\ \A k \in 1 .. Len(t.inputs) : InputFits(t.inputs[k])
         /\ Len(t.outputs) \in 0 .. MaxIoCount /\ Len(t.outputs) \in U64s
         /\ \A k \in 1 .. Len(t.outputs) : OutputFits(t.outputs[k])
         /\ t.segwit => /\ Len(t.witnesses) = Len(t.inputs)
                        /\ \A k \in 1 .. Len(t.inputs) : WitnessFits(t.witnesses[k])
  <1>1. /\ t.version \in Int /\ -Base4 <= 2 * t.version /\ 2 * t.version < Base4
        /\ t.segwit \in BOOLEAN /\ t.locktime \in U32s /\ Len(t.inputs) \in 1 .. MaxIoCount
    BY DEF Encodable
  <1>2. \A k \in 1 .. Len(t.inputs) : InputFits(t.inputs[k])
    <2>1. SUFFICES ASSUME NEW k \in 1 .. Len(t.inputs)
                   PROVE  InputFits(t.inputs[k])
      OBVIOUS
    <2>a. PICK S, i : /\ S = [txid : Seq(Byte), vout : U32s, script : Seq(Byte), sequence : U32s]
                      /\ i = t.inputs
      OBVIOUS
    <2>b. i \in Seq(S)
      BY <2>a, Zenon DEF Encodable
    <2>e. k \in 1 .. Len(i)
      BY <2>a, Zenon
    <2>c. i[k] \in S
      BY <2>b, <2>e
    <2>d. Len(t.inputs[k].txid) = HashLen /\ Len(t.inputs[k].script) <= MaxScriptSize
      BY Zenon DEF Encodable
    <2>2. /\ t.inputs[k] \in [txid : Seq(Byte), vout : U32s, script : Seq(Byte), sequence : U32s]
          /\ Len(t.inputs[k].txid) = HashLen /\ Len(t.inputs[k].script) <= MaxScriptSize
      BY <2>a, <2>c, <2>d, Zenon
    <2>3. QED
      BY <2>2 DEF InputFits
  <1>3. Len(t.outputs) \in 0 .. MaxIoCount
    BY LimitsFit DEF Encodable
  <1>4. \A k \in 1 .. Len(t.outputs) : OutputFits(t.outputs[k])
    <2>1. SUFFICES ASSUME NEW k \in 1 .. Len(t.outputs)
                   PROVE  OutputFits(t.outputs[k])
      OBVIOUS
    <2>a. PICK S, o : S = [value : U64s, script : Seq(Byte)] /\ o = t.outputs
      OBVIOUS
    <2>b. o \in Seq(S)
      BY <2>a, Zenon DEF Encodable
    <2>e. k \in 1 .. Len(o)
      BY <2>a, Zenon
    <2>c. o[k] \in S
      BY <2>b, <2>e
    <2>d. Len(t.outputs[k].script) <= MaxScriptSize
      BY Zenon DEF Encodable
    <2>2. /\ t.outputs[k] \in [value : U64s, script : Seq(Byte)]
          /\ Len(t.outputs[k].script) <= MaxScriptSize
      BY <2>a, <2>c, <2>d, Zenon
    <2>3. QED
      BY <2>2 DEF OutputFits
  <1>5. Len(t.inputs) \in U64s /\ Len(t.outputs) \in U64s
    BY <1>1, <1>3, LimitsFit, UsizeIsU64
  <1>6. t.segwit => /\ Len(t.witnesses) = Len(t.inputs)
                    /\ \A k \in 1 .. Len(t.inputs) : WitnessFits(t.witnesses[k])
    <2>1. SUFFICES ASSUME t.segwit
                   PROVE  /\ Len(t.witnesses) = Len(t.inputs)
                          /\ \A k \in 1 .. Len(t.inputs) : WitnessFits(t.witnesses[k])
      OBVIOUS
    <2>2. /\ t.witnesses \in Seq(Seq(Seq(Byte))) /\ Len(t.witnesses) = Len(t.inputs)
          /\ \A k \in 1 .. Len(t.witnesses) :
               /\ Len(t.witnesses[k]) <= MaxWitnessItems
               /\ \A m \in 1 .. Len(t.witnesses[k]) : Len(t.witnesses[k][m]) <= MaxWitnessItemSize
      BY <2>1, Zenon DEF Encodable
    <2>3. \A k \in 1 .. Len(t.witnesses) : t.witnesses[k] \in Seq(Seq(Byte))
      BY <2>2
    <2>4. QED
      BY <2>2, <2>3 DEF WitnessFits
  <1>7. QED
    BY <1>1, <1>2, <1>3, <1>4, <1>5, <1>6

(* The pieces are byte strings.                                            *)
LEMMA PieceTypes ==
  ASSUME NEW t, Encodable(t)
  PROVE  /\ HeadOf(t) \in Seq(Byte) /\ CountOf(t) \in Seq(Byte) /\ LockOf(t) \in Seq(Byte)
         /\ InputsOf(t) \in Seq(Seq(Byte)) /\ Len(InputsOf(t)) = Len(t.inputs)
         /\ \A k \in 1 .. Len(t.inputs) : InputsOf(t)[k] = EncodeInput(t.inputs[k])
         /\ OutputsOf(t) \in Seq(Seq(Byte)) /\ Len(OutputsOf(t)) = Len(t.outputs)
         /\ \A k \in 1 .. Len(t.outputs) : OutputsOf(t)[k] = EncodeOutput(t.outputs[k])
         /\ WitnessesOf(t) \in Seq(Seq(Byte))
         /\ Len(WitnessesOf(t)) = IF t.segwit THEN Len(t.inputs) ELSE 0
         /\ t.segwit => \A k \in 1 .. Len(t.inputs) :
              WitnessesOf(t)[k] = EncodeWitness(t.witnesses[k])
  <1>0. /\ t.version \in Int /\ t.segwit \in BOOLEAN /\ t.locktime \in Int
        /\ Len(t.inputs) \in Nat /\ Len(t.inputs) > 0 /\ Len(t.inputs) \in U64s
        /\ \A k \in 1 .. Len(t.inputs) : InputFits(t.inputs[k])
        /\ Len(t.outputs) \in Nat /\ Len(t.outputs) \in U64s
        /\ \A k \in 1 .. Len(t.outputs) : OutputFits(t.outputs[k])
        /\ t.segwit => /\ Len(t.witnesses) = Len(t.inputs)
                       /\ \A k \in 1 .. Len(t.inputs) : WitnessFits(t.witnesses[k])
    <2>1. \A l \in U32s : l \in Int
      BY BasePowers DEF U32s
    <2>2. QED
      BY <2>1, Elements
  <1>1. HeadOf(t) \in Seq(Byte)
    BY <1>0, HeadParts DEF HeadOf
  <1>2. CountOf(t) \in Seq(Byte)
    BY <1>0, VarintBytes DEF CountOf
  <1>3. LockOf(t) \in Seq(Byte)
    BY <1>0, IntegerBytes DEF LockOf
  <1>4. /\ InputsOf(t) \in Seq(Seq(Byte)) /\ Len(InputsOf(t)) = Len(t.inputs)
        /\ \A k \in 1 .. Len(t.inputs) : InputsOf(t)[k] = EncodeInput(t.inputs[k])
    <2>1. \A k \in 1 .. Len(t.inputs) : EncodeInput(t.inputs[k]) \in Seq(Byte)
      BY <1>0, InputBytes
    <2>2. QED
      BY <1>0, <2>1 DEF InputsOf
  <1>5. /\ OutputsOf(t) \in Seq(Seq(Byte)) /\ Len(OutputsOf(t)) = Len(t.outputs)
        /\ \A k \in 1 .. Len(t.outputs) : OutputsOf(t)[k] = EncodeOutput(t.outputs[k])
    <2>1. \A k \in 1 .. Len(t.outputs) : EncodeOutput(t.outputs[k]) \in Seq(Byte)
      BY <1>0, OutputBytes
    <2>2. QED
      BY <1>0, <2>1 DEF OutputsOf
  <1>6. /\ WitnessesOf(t) \in Seq(Seq(Byte))
        /\ Len(WitnessesOf(t)) = IF t.segwit THEN Len(t.inputs) ELSE 0
        /\ t.segwit => \A k \in 1 .. Len(t.inputs) :
             WitnessesOf(t)[k] = EncodeWitness(t.witnesses[k])
    <2>1. CASE t.segwit
      <3>1. \A k \in 1 .. Len(t.inputs) : EncodeWitness(t.witnesses[k]) \in Seq(Byte)
        BY <1>0, <2>1, WitnessBytes
      <3>2. WitnessesOf(t) = [k \in 1 .. Len(t.inputs) |-> EncodeWitness(t.witnesses[k])]
        BY <1>0, <2>1 DEF WitnessesOf
      <3>3. QED
        BY <1>0, <2>1, <3>1, <3>2
    <2>2. CASE ~ t.segwit
      BY <2>2 DEF WitnessesOf
    <2>3. QED
      BY <2>1, <2>2
  <1>7. QED
    BY <1>1, <1>2, <1>3, <1>4, <1>5, <1>6

(* A transaction is written as its pieces.                                 *)
LEMMA TxBytes ==
  ASSUME NEW t, Encodable(t)
  PROVE  EncodeTx(t) = HeadOf(t) \o FlattenSeq(InputsOf(t)) \o CountOf(t)
                         \o FlattenSeq(OutputsOf(t)) \o FlattenSeq(WitnessesOf(t)) \o LockOf(t)
  <1>1. FlattenSeq(InputsOf(t)) = Each(EncodeInput, t.inputs)
    BY DEF InputsOf, Each
  <1>2. FlattenSeq(OutputsOf(t)) = Each(EncodeOutput, t.outputs)
    BY DEF OutputsOf, Each
  <1>3. FlattenSeq(WitnessesOf(t)) = IF t.segwit THEN Each(EncodeWitness, t.witnesses) ELSE <<>>
    <2>1. CASE t.segwit
      BY <2>1 DEF WitnessesOf, Each
    <2>2. CASE ~ t.segwit
      <3>1. FlattenSeq(<<>>) = <<>>
        BY DEF FlattenSeq
      <3>2. QED
        BY <2>2, <3>1 DEF WitnessesOf
    <2>3. QED
      BY <2>1, <2>2
  <1>4. HeadOf(t) = LittleEndian(t.version, 4) \o (IF t.segwit THEN <<0, 1>> ELSE <<>>)
                      \o EncodeVarint(Len(t.inputs))
    BY DEF HeadOf, EncodeHead, Marker
  <1>5. QED
    BY <1>1, <1>2, <1>3, <1>4, Zenon DEF EncodeTx, CountOf, LockOf

(* s is made of six byte strings.                                          *)
Six(s, a, b, e, f, g, h) ==
  /\ a \in Seq(Byte) /\ b \in Seq(Byte) /\ e \in Seq(Byte)
  /\ f \in Seq(Byte) /\ g \in Seq(Byte) /\ h \in Seq(Byte)
  /\ s = a \o b \o e \o f \o g \o h

(* Six parts are six pieces.                                               *)
LEMMA PieceOfSix ==
  ASSUME NEW o, Valid(o), NEW n \in Nat, NEW x, NEW y, NEW s,
         NEW a, NEW b, NEW e, NEW f, NEW g, NEW h,
         Six(s, a, b, e, f, g, h), Piece(o, n, x, s, y)
  PROVE  /\ Piece(o, n, x, a, x + Len(a))
         /\ Piece(o, n, x + Len(a), b, x + Len(a) + Len(b))
         /\ Piece(o, n, x + Len(a) + Len(b), e, x + Len(a) + Len(b) + Len(e))
         /\ Piece(o, n, x + Len(a) + Len(b) + Len(e), f, x + Len(a) + Len(b) + Len(e) + Len(f))
         /\ Piece(o, n, x + Len(a) + Len(b) + Len(e) + Len(f), g,
                  x + Len(a) + Len(b) + Len(e) + Len(f) + Len(g))
         /\ Piece(o, n, x + Len(a) + Len(b) + Len(e) + Len(f) + Len(g), h, y)
  <1>0. /\ a \in Seq(Byte) /\ b \in Seq(Byte) /\ e \in Seq(Byte)
        /\ f \in Seq(Byte) /\ g \in Seq(Byte) /\ h \in Seq(Byte)
        /\ s = a \o b \o e \o f \o g \o h
    BY DEF Six
  <1>a. PICK ab : ab = a \o b
    OBVIOUS
  <1>b. PICK ae : ae = ab \o e
    OBVIOUS
  <1>c. PICK af : af = ae \o f
    OBVIOUS
  <1>d. PICK ag : ag = af \o g
    OBVIOUS
  <1>1. ab \in Seq(Byte) /\ Len(ab) = Len(a) + Len(b)
    BY <1>0, <1>a, Joined
  <1>2. ae \in Seq(Byte) /\ Len(ae) = Len(ab) + Len(e)
    BY <1>0, <1>1, <1>b, Joined
  <1>3. af \in Seq(Byte) /\ Len(af) = Len(ae) + Len(f)
    BY <1>0, <1>2, <1>c, Joined
  <1>4. ag \in Seq(Byte) /\ Len(ag) = Len(af) + Len(g)
    BY <1>0, <1>3, <1>d, Joined
  <1>5. s = ag \o h
    BY <1>0, <1>a, <1>b, <1>c, <1>d, Zenon
  <1>6. Piece(o, n, x, ag, x + Len(ag)) /\ Piece(o, n, x + Len(ag), h, y)
    BY <1>0, <1>4, <1>5, PieceSplit
  <1>7. Piece(o, n, x, af, x + Len(af)) /\ Piece(o, n, x + Len(af), g, x + Len(ag))
    BY <1>0, <1>3, <1>d, <1>6, PieceSplit
  <1>8. Piece(o, n, x, ae, x + Len(ae)) /\ Piece(o, n, x + Len(ae), f, x + Len(af))
    BY <1>0, <1>2, <1>c, <1>7, PieceSplit
  <1>9. Piece(o, n, x, ab, x + Len(ab)) /\ Piece(o, n, x + Len(ab), e, x + Len(ae))
    BY <1>0, <1>1, <1>b, <1>8, PieceSplit
  <1>10. Piece(o, n, x, a, x + Len(a)) /\ Piece(o, n, x + Len(a), b, x + Len(ab))
    BY <1>0, <1>a, <1>9, PieceSplit
  <1>11. /\ x \in Nat /\ Len(a) \in Nat /\ Len(b) \in Nat /\ Len(e) \in Nat
         /\ Len(f) \in Nat /\ Len(g) \in Nat
    BY <1>0 DEF Piece
  <1>12. /\ x + Len(ab) = x + Len(a) + Len(b)
         /\ x + Len(ae) = x + Len(a) + Len(b) + Len(e)
         /\ x + Len(af) = x + Len(a) + Len(b) + Len(e) + Len(f)
         /\ x + Len(ag) = x + Len(a) + Len(b) + Len(e) + Len(f) + Len(g)
    BY <1>1, <1>2, <1>3, <1>4, <1>11
  <1>13. QED
    BY <1>6, <1>7, <1>8, <1>9, <1>10, <1>12

(* The bytes of a transaction are bytes, in six parts.                     *)
LEMMA EncodedBytes ==
  ASSUME NEW t, Encodable(t)
  PROVE  /\ EncodeTx(t) \in Seq(Byte) /\ Len(EncodeTx(t)) \in Nat
         /\ Six(EncodeTx(t), HeadOf(t), FlattenSeq(InputsOf(t)), CountOf(t),
                FlattenSeq(OutputsOf(t)), FlattenSeq(WitnessesOf(t)), LockOf(t))
  <1>a. PICK s, h, e, l : s = EncodeTx(t) /\ h = HeadOf(t) /\ e = CountOf(t) /\ l = LockOf(t)
    OBVIOUS
  <1>b. PICK ii, oo, ww : ii = InputsOf(t) /\ oo = OutputsOf(t) /\ ww = WitnessesOf(t)
    OBVIOUS
  <1>c. PICK i, u, w : i = FlattenSeq(ii) /\ u = FlattenSeq(oo) /\ w = FlattenSeq(ww)
    OBVIOUS
  <1>1. /\ h \in Seq(Byte) /\ e \in Seq(Byte) /\ l \in Seq(Byte)
        /\ ii \in Seq(Seq(Byte)) /\ oo \in Seq(Seq(Byte)) /\ ww \in Seq(Seq(Byte))
    BY <1>a, <1>b, PieceTypes
  <1>2. i \in Seq(Byte) /\ u \in Seq(Byte) /\ w \in Seq(Byte)
    BY <1>1, <1>c, AllJoined
  <1>3. Six(s, h, i, e, u, w, l)
    <2>1. s = h \o i \o e \o u \o w \o l
      BY <1>a, <1>b, <1>c, TxBytes, Zenon
    <2>2. QED
      BY <1>1, <1>2, <2>1 DEF Six
  <1>4. s \in Seq(Byte)
    <2>1. PICK hi : hi = h \o i
      OBVIOUS
    <2>2. PICK hie : hie = hi \o e
      OBVIOUS
    <2>3. PICK hieu : hieu = hie \o u
      OBVIOUS
    <2>4. PICK hieuw : hieuw = hieu \o w
      OBVIOUS
    <2>5. hi \in Seq(Byte)
      BY <1>1, <1>2, <2>1, Joined
    <2>6. hie \in Seq(Byte)
      BY <1>1, <2>5, <2>2, Joined
    <2>7. hieu \in Seq(Byte)
      BY <1>2, <2>6, <2>3, Joined
    <2>8. hieuw \in Seq(Byte)
      BY <1>2, <2>7, <2>4, Joined
    <2>9. s = hieuw \o l
      BY <1>3, <2>1, <2>2, <2>3, <2>4, Zenon DEF Six
    <2>10. s \in Seq(Byte)
      BY <1>1, <2>8, <2>9, Joined
    <2>11. QED
      BY <2>10
  <1>5. Len(s) \in Nat
    BY <1>4
  <1>6. QED
    BY <1>3, <1>4, <1>5, <1>a, <1>b, <1>c

(* Where the bytes of a transaction stand, its pieces do.                  *)
LEMMA Layout ==
  ASSUME NEW o, Valid(o), NEW t, Encodable(t), Holds(o, o.pos, EncodeTx(t))
  PROVE  Laid(o, t)
  <1>a. PICK s, h, e, l : s = EncodeTx(t) /\ h = HeadOf(t) /\ e = CountOf(t) /\ l = LockOf(t)
    OBVIOUS
  <1>b. PICK ii, oo, ww : ii = InputsOf(t) /\ oo = OutputsOf(t) /\ ww = WitnessesOf(t)
    OBVIOUS
  <1>c. PICK i, u, w : i = FlattenSeq(ii) /\ u = FlattenSeq(oo) /\ w = FlattenSeq(ww)
    OBVIOUS
  <1>d. PICK n : n = Len(s)
    OBVIOUS
  <1>1. /\ h \in Seq(Byte) /\ e \in Seq(Byte) /\ l \in Seq(Byte)
        /\ ii \in Seq(Seq(Byte)) /\ Len(ii) = Len(t.inputs)
        /\ oo \in Seq(Seq(Byte)) /\ Len(oo) = Len(t.outputs)
        /\ ww \in Seq(Seq(Byte))
    BY <1>a, <1>b, PieceTypes
  <1>2. /\ i \in Seq(Byte) /\ Upto(ii, 0) = 0 /\ Upto(ii, Len(ii)) = Len(i)
        /\ u \in Seq(Byte) /\ Upto(oo, 0) = 0 /\ Upto(oo, Len(oo)) = Len(u)
        /\ w \in Seq(Byte) /\ Upto(ww, 0) = 0 /\ Upto(ww, Len(ww)) = Len(w)
    BY <1>1, <1>c, AllJoined
  <1>3. Six(s, h, i, e, u, w, l)
    BY <1>a, <1>b, <1>c, EncodedBytes
  <1>4. s \in Seq(Byte) /\ n \in Nat
    BY <1>a, <1>d, EncodedBytes
  <1>5. Piece(o, n, 0, s, n)
    <2>1. o.pos \in Nat /\ o.pos + 0 = o.pos
      BY DEF Valid
    <2>2. Holds(o, o.pos, s)
      BY <1>a
    <2>3. n = 0 + Len(s) /\ n <= n
      BY <1>4, <1>d
    <2>4. QED
      BY <1>4, <2>1, <2>2, <2>3 DEF Piece
  <1>q. PICK lh, li, le, lu, lw :
          /\ lh = Len(h) /\ li = Len(i) /\ le = Len(e) /\ lu = Len(u) /\ lw = Len(w)
    OBVIOUS
  <1>6. /\ Piece(o, n, 0, h, 0 + lh) /\ Piece(o, n, 0 + lh, i, 0 + lh + li)
        /\ Piece(o, n, 0 + lh + li, e, 0 + lh + li + le)
        /\ Piece(o, n, 0 + lh + li + le, u, 0 + lh + li + le + lu)
        /\ Piece(o, n, 0 + lh + li + le + lu, w, 0 + lh + li + le + lu + lw)
        /\ Piece(o, n, 0 + lh + li + le + lu + lw, l, n)
    <2>1. /\ Piece(o, n, 0, h, 0 + Len(h))
          /\ Piece(o, n, 0 + Len(h), i, 0 + Len(h) + Len(i))
          /\ Piece(o, n, 0 + Len(h) + Len(i), e, 0 + Len(h) + Len(i) + Len(e))
          /\ Piece(o, n, 0 + Len(h) + Len(i) + Len(e), u, 0 + Len(h) + Len(i) + Len(e) + Len(u))
          /\ Piece(o, n, 0 + Len(h) + Len(i) + Len(e) + Len(u), w,
                   0 + Len(h) + Len(i) + Len(e) + Len(u) + Len(w))
          /\ Piece(o, n, 0 + Len(h) + Len(i) + Len(e) + Len(u) + Len(w), l, n)
      BY <1>3, <1>4, <1>5, PieceOfSix, Zenon
    <2>2. QED
      BY <2>1, <1>q
  <1>r. lh \in Nat /\ li \in Nat /\ le \in Nat /\ lu \in Nat /\ lw \in Nat
    BY SMTT(30), <1>1, <1>2, <1>q
  <1>p. PICK p1, p2, p3, p4, p5 :
          p1 = lh /\ p2 = p1 + li /\ p3 = p2 + le /\ p4 = p3 + lu /\ p5 = p4 + lw
    OBVIOUS
  <1>7. /\ p1 \in Nat /\ p2 \in Nat /\ p3 \in Nat /\ p4 \in Nat /\ p5 \in Nat
        /\ p1 + 0 = p1 /\ p3 + 0 = p3 /\ p4 + 0 = p4
        /\ 0 + lh = p1 /\ p1 + li = p2 /\ p2 + le = p3 /\ p3 + lu = p4 /\ p4 + lw = p5
    BY <1>r, <1>p
  <1>s. /\ Piece(o, n, 0, h, p1) /\ Piece(o, n, p1, i, p2) /\ Piece(o, n, p2, e, p3)
        /\ Piece(o, n, p3, u, p4) /\ Piece(o, n, p4, w, p5) /\ Piece(o, n, p5, l, n)
    BY <1>6, <1>7
  <1>8. \A k : InputAt(t, k) = p1 + Upto(ii, k)
    BY <1>a, <1>b, <1>q, <1>p DEF InputAt
  <1>9. InputAt(t, 0) = p1 /\ InputAt(t, Len(t.inputs)) = p2
    BY <1>1, <1>2, <1>7, <1>8, <1>q
  <1>10. \A k : OutputAt(t, k) = p3 + Upto(oo, k)
    <2>1. p2 + Len(e) = p3
      BY <1>7, <1>q
    <2>2. QED
      BY <1>a, <1>b, <1>9, <2>1 DEF OutputAt
  <1>11. OutputAt(t, 0) = p3 /\ OutputAt(t, Len(t.outputs)) = p4
    BY SMTT(30), <1>1, <1>2, <1>7, <1>10, <1>q
  <1>12. \A k : WitnessAt(t, k) = p4 + Upto(ww, k)
    BY <1>b, <1>11 DEF WitnessAt
  <1>13. WitnessAt(t, 0) = p4 /\ LockAt(t) = p5
    <2>1. LockAt(t) = WitnessAt(t, Len(ww))
      BY <1>b DEF LockAt
    <2>2. WitnessAt(t, 0) = p4 + Upto(ww, 0) /\ LockAt(t) = p4 + Upto(ww, Len(ww))
      BY <1>12, <2>1
    <2>3. QED
      BY <1>2, <1>7, <1>q, <2>2
  <1>14. ASSUME NEW k \in 0 .. Len(t.inputs) - 1
         PROVE  Piece(o, n, InputAt(t, k), EncodeInput(t.inputs[k + 1]), InputAt(t, k + 1))
    <2>1. k \in 0 .. Len(ii) - 1
      BY <1>1
    <2>2. Piece(o, n, p1 + Upto(ii, k), ii[k + 1], p1 + Upto(ii, k + 1))
      BY <1>1, <1>4, <1>s, <1>c, <2>1, PieceEach
    <2>3. ii[k + 1] = EncodeInput(t.inputs[k + 1])
      <3>1. k + 1 \in 1 .. Len(t.inputs)
        BY Elements
      <3>2. QED
        BY <1>b, <3>1, PieceTypes
    <2>4. QED
      BY <1>8, <2>2, <2>3
  <1>15. ASSUME NEW k \in 0 .. Len(t.outputs) - 1
         PROVE  Piece(o, n, OutputAt(t, k), EncodeOutput(t.outputs[k + 1]), OutputAt(t, k + 1))
    <2>1. k \in 0 .. Len(oo) - 1
      BY <1>1
    <2>2. Piece(o, n, p3 + Upto(oo, k), oo[k + 1], p3 + Upto(oo, k + 1))
      BY <1>1, <1>4, <1>s, <1>c, <2>1, PieceEach
    <2>3. oo[k + 1] = EncodeOutput(t.outputs[k + 1])
      <3>1. k + 1 \in 1 .. Len(t.outputs)
        BY Elements
      <3>2. QED
        BY <1>b, <3>1, PieceTypes
    <2>4. QED
      BY <1>10, <2>2, <2>3
  <1>16. ASSUME t.segwit, NEW k \in 0 .. Len(t.inputs) - 1
         PROVE  Piece(o, n, WitnessAt(t, k), EncodeWitness(t.witnesses[k + 1]), WitnessAt(t, k + 1))
    <2>1. k \in 0 .. Len(ww) - 1
      BY <1>16, <1>b, PieceTypes
    <2>2. Piece(o, n, p4 + Upto(ww, k), ww[k + 1], p4 + Upto(ww, k + 1))
      BY <1>1, <1>4, <1>s, <1>c, <2>1, PieceEach
    <2>3. ww[k + 1] = EncodeWitness(t.witnesses[k + 1])
      <3>1. k + 1 \in 1 .. Len(t.inputs)
        BY Elements
      <3>2. QED
        BY <1>16, <1>b, <3>1, PieceTypes
    <2>4. QED
      BY <1>12, <2>2, <2>3
  <1>17. LockAt(t) = WitnessAt(t, IF t.segwit THEN Len(t.inputs) ELSE 0)
    BY PieceTypes DEF LockAt
  <1>18. SizeOf(t) = n
    BY <1>a, <1>d DEF SizeOf
  <1>19. /\ Piece(o, n, 0, HeadOf(t), InputAt(t, 0))
         /\ Piece(o, n, InputAt(t, Len(t.inputs)), CountOf(t), OutputAt(t, 0))
         /\ OutputAt(t, Len(t.outputs)) = WitnessAt(t, 0)
         /\ Piece(o, n, LockAt(t), LockOf(t), n)
    BY <1>a, <1>s, <1>9, <1>11, <1>13
  <1>20. QED
    BY <1>4, <1>14, <1>15, <1>16, <1>17, <1>18, <1>19 DEF Laid

-----------------------------------------------------------------------------
(* What a call makes of a transaction that stands where it begins.         *)

(* The head read is that of t.                                             *)
HeadRead(t) ==
  head.version = t.version /\ head.segwit = t.segwit /\ head.inputs = Len(t.inputs)

(* The first a deliveries are inputs of t; b behind its inputs are         *)
(* outputs.                                                                *)
InputsShown(t, a) ==
  \A k \in 1 .. a : log[k].kind = "input" /\ IsInput(log[k].val, t.inputs[k])

OutputsShown(t, b) ==
  \A k \in 1 .. b :
    /\ log[Len(t.inputs) + k].kind = "output"
    /\ IsOutput(log[Len(t.inputs) + k].val, t.outputs[k])

AllShown(t) ==
  outs = Len(t.outputs) /\ InputsShown(t, Len(t.inputs)) /\ OutputsShown(t, Len(t.outputs))

(* The witness w stands where the cursor c begins, and is read but for     *)
(* the items to go.                                                        *)
InWitness(c, w) ==
  /\ witness.left <= Len(w)
  /\ Piece(c, Len(EncodeWitness(w)), 0, EncodeWitness(w), Len(EncodeWitness(w)))
  /\ StandsAt(c, witness.cur,
              Len(EncodeVarint(Len(w))) + Upto(ItemsOf(w), Len(w) - witness.left))

(* The call begun on o has read t as far as it has come.                   *)
Rendering(o, t) ==
  /\ pc = "head" => StandsAt(o, parser, 0)
  /\ pc \in CallPhases \ {"head", "returned"} => HeadRead(t)
  /\ pc = "inputs" => StandsAt(o, parser, InputAt(t, done)) /\ InputsShown(t, done)
  /\ pc = "outputs" =>
       /\ outs = Len(t.outputs) /\ StandsAt(o, parser, OutputAt(t, done))
       /\ InputsShown(t, Len(t.inputs)) /\ OutputsShown(t, done)
  /\ pc \in {"witness", "items", "locktime"} => AllShown(t)
  /\ pc \in {"witness", "items"} => t.segwit /\ StandsAt(o, parser, WitnessAt(t, done))
  /\ pc = "items" => InWitness(CursorNew(AsSlice(parser)), t.witnesses[done + 1])
  /\ pc = "locktime" => ~ t.segwit /\ StandsAt(o, parser, LockAt(t))
  /\ (pc = "returned" /\ ret.ok) =>
       /\ AllShown(t) /\ StandsAt(o, parser, SizeOf(t))
       /\ ret.val = [version |-> t.version, locktime |-> t.locktime,
                     inputs |-> Len(t.inputs), outputs |-> Len(t.outputs)]

(* A failure says that t is cut short.                                     *)
FailsShort(o, t) == (pc = "returned" /\ ~ ret.ok) => Short(o, SizeOf(t), ret.err)

(* A call begins with nothing read.                                        *)
LEMMA BeginRenders ==
  ASSUME NEW c, Valid(c), Begin(c), NEW t
  PROVE  Rendering(c, t)'
  <1>1. parser' = c /\ pc' = "head" /\ c.pos = c.pos + 0
    BY DEF Begin, Valid
  <1>2. QED
    BY <1>1 DEF Rendering, StandsAt, CallPhases

(* A failed call claims nothing of t but its error.                        *)
LEMMA AbortRenders ==
  ASSUME NEW o, NEW t, NEW c, NEW e, Abort(c, e)
  PROVE  /\ Rendering(o, t)'
         /\ Short(o, SizeOf(t), e) => FailsShort(o, t)'
  <1>1. pc' = "returned" /\ ret'.ok = FALSE /\ ret'.err = e
    BY DEF Abort, Return, Returned
  <1>2. Rendering(o, t)'
    BY <1>1 DEF Rendering, CallPhases
  <1>3. QED
    BY <1>1, <1>2 DEF FailsShort, Short

(* The head is read.                                                       *)
LEMMA ParseHeadRenders ==
  ASSUME DataOK, data' = data, NEW o, ParsesFrom(o), NEW t, Encodable(t), Laid(o, t),
         Rendering(o, t), ParseHead
  PROVE  Rendering(o, t)' /\ FailsShort(o, t)'
  <1>a. PICK r, h : r = TxHead(parser) /\ h = HeadOf(t)
    OBVIOUS
  <1>1. /\ Valid(o) /\ Valid(parser) /\ pc = "head" /\ done = 0 /\ StandsAt(o, parser, 0)
    BY DEF ParseHead, ParsesFrom, Spanning, Counting, Rendering
  <1>2. Piece(o, SizeOf(t), 0, h, InputAt(t, 0)) /\ SizeOf(t) \in Nat
    BY <1>a DEF Laid
  <1>3. /\ Holds(parser, parser.pos, h)
        /\ \A s : Meets(parser, s, Len(h)) =>
             \/ s.ok = TRUE /\ StandsAt(o, s.cur, InputAt(t, 0)) /\ Valid(s.cur)
             \/ s.ok = FALSE /\ Short(o, SizeOf(t), s.err)
    BY <1>1, <1>2, PieceMeets
  <1>4. /\ Meets(parser, r, Len(h))
        /\ r.ok => /\ r.val.version = t.version /\ r.val.segwit = t.segwit
                   /\ r.val.inputs = Len(t.inputs)
    BY <1>a, <1>1, <1>3, Elements, TxHeadMeets DEF HeadOf
  <1>5. CASE r.ok /\ parser' = r.cur /\ head' = r.val /\ pc' = "inputs"
             /\ UNCHANGED <<outs, done, witness, ret>>
    <2>1. StandsAt(o, parser', InputAt(t, 0)) /\ done' = 0
      BY <1>1, <1>3, <1>4, <1>5
    <2>2. HeadRead(t)'
      BY <1>4, <1>5 DEF HeadRead
    <2>3. InputsShown(t, 0)'
      BY DEF InputsShown
    <2>4. Rendering(o, t)'
      BY <1>5, <2>1, <2>2, <2>3 DEF Rendering, CallPhases
    <2>5. QED
      BY <1>5, <2>4 DEF FailsShort
  <1>6. CASE ~ r.ok /\ Abort(r.cur, r.err)
    <2>1. Short(o, SizeOf(t), r.err)
      BY <1>3, <1>4, <1>6
    <2>2. QED
      BY <1>6, <2>1, AbortRenders
  <1>7. QED
    BY <1>a, <1>5, <1>6 DEF ParseHead

(* An element is read that is a piece of t, and the callback answers.      *)
LEMMA ParseInputRenders ==
  ASSUME DataOK, data' = data, NEW o, ParsesFrom(o), NEW t, Encodable(t), Laid(o, t),
         Rendering(o, t), NEW called \in BOOLEAN, NEW e, called \/ e # NoError,
         ParseInput(called, e) \/ BadInput
  PROVE  Rendering(o, t)' /\ (BadInput => FailsShort(o, t)')
  <1>a. PICK r, i, s, k, l : /\ r = TxInput(parser) /\ i = t.inputs[done + 1]
                             /\ s = EncodeInput(i) /\ k = done + 1 /\ l = Len(log)
    OBVIOUS
  <1>1. /\ Valid(o) /\ Valid(parser) /\ pc = "inputs" /\ HeadRead(t)
        /\ StandsAt(o, parser, InputAt(t, done)) /\ InputsShown(t, done)
        /\ done \in Nat /\ done < Len(t.inputs) /\ Len(t.inputs) \in Nat
        /\ log \in Seq(Deliveries) /\ Len(log) = done
    <2>1. pc = "inputs" /\ done < head.inputs
      BY DEF ParseInput, BadInput
    <2>2. Len(t.inputs) \in Nat
      BY Elements, LimitsFit
    <2>3. HeadRead(t)
      BY <2>1 DEF Rendering, CallPhases
    <2>4. Valid(o) /\ Valid(parser) /\ done \in Nat /\ log \in Seq(Deliveries) /\ Len(log) = done
      BY <2>1 DEF ParsesFrom, Spanning, Counting, Logging
    <2>5. StandsAt(o, parser, InputAt(t, done)) /\ InputsShown(t, done)
      BY <2>1 DEF Rendering
    <2>6. done < Len(t.inputs)
      BY <2>1, <2>3 DEF HeadRead
    <2>7. QED
      BY <2>1, <2>2, <2>3, <2>4, <2>5, <2>6
  <1>2. Piece(o, SizeOf(t), InputAt(t, done), s, InputAt(t, k)) /\ SizeOf(t) \in Nat
    <2>1. done \in 0 .. Len(t.inputs) - 1
      BY <1>1
    <2>2. QED
      BY <1>a, <2>1 DEF Laid
  <1>3. /\ Holds(parser, parser.pos, s)
        /\ \A x : Meets(parser, x, Len(s)) =>
             \/ x.ok = TRUE /\ StandsAt(o, x.cur, InputAt(t, k)) /\ Valid(x.cur)
             \/ x.ok = FALSE /\ Short(o, SizeOf(t), x.err)
    BY <1>1, <1>2, PieceMeets
  <1>4. Meets(parser, r, Len(s)) /\ (r.ok => IsInput(r.val, i))
    <2>1. k \in 1 .. Len(t.inputs)
      BY <1>a, <1>1
    <2>2. InputFits(i)
      BY <1>a, <2>1, Elements
    <2>3. QED
      BY <1>a, <1>1, <1>3, <2>2, TxInputMeets
  <1>5. CASE ParseInput(called, e)
    <2>1. r.ok /\ HandOver("input", r, called, e)
      BY <1>a, <1>5 DEF ParseInput
    <2>2. CASE e # NoError
      <3>1. Abort(r.cur, e)
        BY <2>1, <2>2 DEF HandOver
      <3>2. ~ BadInput
        BY <1>a, <2>1 DEF BadInput
      <3>3. QED
        BY <3>1, <3>2, AbortRenders
    <2>3. CASE e = NoError
      <3>a. PICK d : d = Delivery("input", parser, r)
        OBVIOUS
      <3>1. /\ log' = Append(log, d) /\ parser' = r.cur /\ done' = k
            /\ UNCHANGED <<pc, head, outs, witness, ret>>
        BY <1>a, <2>1, <2>3, <3>a DEF HandOver
      <3>2. StandsAt(o, parser', InputAt(t, k))
        BY <1>3, <1>4, <2>1, <3>1
      <3>3. HeadRead(t)'
        BY <1>1, <3>1 DEF HeadRead
      <3>4. InputsShown(t, k)'
        <4>2. d.kind = "input" /\ d.val = r.val
          BY <3>a DEF Delivery
        <4>3. /\ log'[k] = d
              /\ \A j \in 1 .. done : log'[j] = log[j]
          BY <1>a, <1>1, <3>1
        <4>4. SUFFICES ASSUME NEW j \in 1 .. k
                       PROVE  (log[j].kind = "input" /\ IsInput(log[j].val, t.inputs[j]))'
          BY DEF InputsShown
        <4>5. CASE j = k
          BY <1>a, <1>4, <2>1, <4>2, <4>3, <4>5 DEF IsInput, Bytes
        <4>6. CASE j \in 1 .. done
          BY <1>1, <4>3, <4>6 DEF InputsShown, IsInput, Bytes
        <4>7. QED
          BY <1>a, <1>1, <4>5, <4>6
      <3>5. Rendering(o, t)'
        BY <1>1, <3>1, <3>2, <3>3, <3>4 DEF Rendering
      <3>6. ~ BadInput
        BY <1>a, <2>1 DEF BadInput
      <3>7. QED
        BY <3>5, <3>6
    <2>4. QED
      BY <2>2, <2>3
  <1>6. CASE BadInput
    <2>1. ~ r.ok /\ Abort(r.cur, r.err)
      BY <1>a, <1>6 DEF BadInput
    <2>2. Short(o, SizeOf(t), r.err)
      BY <1>3, <1>4, <2>1
    <2>3. QED
      BY <2>1, <2>2, AbortRenders
  <1>7. QED
    BY <1>5, <1>6

(* The same for the outputs.                                               *)
LEMMA ParseOutputRenders ==
  ASSUME DataOK, data' = data, NEW o, ParsesFrom(o), NEW t, Encodable(t), Laid(o, t),
         Rendering(o, t), NEW e, ParseOutput(e) \/ BadOutput
  PROVE  Rendering(o, t)' /\ (BadOutput => FailsShort(o, t)')
  <1>a. PICK r, i, s, k, n : /\ r = TxOutput(parser) /\ i = t.outputs[done + 1]
                             /\ s = EncodeOutput(i) /\ k = done + 1 /\ n = Len(t.inputs)
    OBVIOUS
  <1>1. /\ Valid(o) /\ Valid(parser) /\ pc = "outputs" /\ HeadRead(t) /\ outs = Len(t.outputs)
        /\ StandsAt(o, parser, OutputAt(t, done)) /\ InputsShown(t, n) /\ OutputsShown(t, done)
        /\ done \in Nat /\ done < Len(t.outputs) /\ Len(t.outputs) \in Nat /\ n \in Nat
        /\ log \in Seq(Deliveries) /\ Len(log) = n + done
    <2>1. pc = "outputs" /\ done < outs
      BY DEF ParseOutput, BadOutput
    <2>2. n \in Nat /\ Len(t.outputs) \in Nat
      BY <1>a, Elements, LimitsFit
    <2>3. HeadRead(t)
      BY <2>1 DEF Rendering, CallPhases
    <2>4. /\ Valid(o) /\ Valid(parser) /\ done \in Nat /\ log \in Seq(Deliveries)
          /\ Len(log) = head.inputs + done
      BY <2>1 DEF ParsesFrom, Spanning, Counting, Logging
    <2>5. /\ StandsAt(o, parser, OutputAt(t, done)) /\ InputsShown(t, n) /\ OutputsShown(t, done)
          /\ outs = Len(t.outputs)
      BY <1>a, <2>1 DEF Rendering
    <2>6. head.inputs = n
      BY <1>a, <2>3 DEF HeadRead
    <2>7. QED
      BY <2>1, <2>2, <2>3, <2>4, <2>5, <2>6
  <1>2. Piece(o, SizeOf(t), OutputAt(t, done), s, OutputAt(t, k)) /\ SizeOf(t) \in Nat
    <2>1. done \in 0 .. Len(t.outputs) - 1
      BY <1>1
    <2>2. QED
      BY <1>a, <2>1 DEF Laid
  <1>3. /\ Holds(parser, parser.pos, s)
        /\ \A x : Meets(parser, x, Len(s)) =>
             \/ x.ok = TRUE /\ StandsAt(o, x.cur, OutputAt(t, k)) /\ Valid(x.cur)
             \/ x.ok = FALSE /\ Short(o, SizeOf(t), x.err)
    BY <1>1, <1>2, PieceMeets
  <1>4. Meets(parser, r, Len(s)) /\ (r.ok => IsOutput(r.val, i))
    <2>1. k \in 1 .. Len(t.outputs)
      BY <1>a, <1>1
    <2>2. OutputFits(i)
      BY <1>a, <2>1, Elements
    <2>3. QED
      BY <1>a, <1>1, <1>3, <2>2, TxOutputMeets
  <1>5. CASE ParseOutput(e)
    <2>1. r.ok /\ HandOver("output", r, TRUE, e)
      BY <1>a, <1>5 DEF ParseOutput
    <2>2. CASE e # NoError
      <3>1. Abort(r.cur, e)
        BY <2>1, <2>2 DEF HandOver
      <3>2. ~ BadOutput
        BY <1>a, <2>1 DEF BadOutput
      <3>3. QED
        BY <3>1, <3>2, AbortRenders
    <2>3. CASE e = NoError
      <3>a. PICK d : d = Delivery("output", parser, r)
        OBVIOUS
      <3>1. /\ log' = Append(log, d) /\ parser' = r.cur /\ done' = k
            /\ UNCHANGED <<pc, head, outs, witness, ret>>
        BY <1>a, <2>1, <2>3, <3>a DEF HandOver
      <3>2. StandsAt(o, parser', OutputAt(t, k))
        BY <1>3, <1>4, <2>1, <3>1
      <3>3. HeadRead(t)'
        BY <1>1, <3>1 DEF HeadRead
      <3>b. /\ log'[n + k] = d
            /\ \A j \in 1 .. n + done : log'[j] = log[j]
        <4>1. /\ log'[Len(log) + 1] = d
              /\ \A j \in 1 .. Len(log) : log'[j] = log[j]
          BY <1>1, <3>1
        <4>2. Len(log) + 1 = n + k
          <5>1. k = done + 1
            BY <1>a
          <5>2. n \in Nat /\ done \in Nat /\ Len(log) = n + done
            BY <1>1
          <5>3. QED
            BY <5>1, <5>2
        <4>3. QED
          BY <1>1, <4>1, <4>2
      <3>4. OutputsShown(t, k)'
        <4>2. d.kind = "output" /\ d.val = r.val
          BY <3>a DEF Delivery
        <4>4. SUFFICES ASSUME NEW j \in 1 .. k
                       PROVE  (log[n + j].kind = "output" /\ IsOutput(log[n + j].val, t.outputs[j]))'
          BY <1>a DEF OutputsShown
        <4>5. CASE j = k
          BY <1>a, <1>4, <2>1, <3>b, <4>2, <4>5 DEF IsOutput, Bytes
        <4>6. CASE j \in 1 .. done
          <5>1. log'[n + j] = log[n + j]
            BY <1>1, <3>b, <4>6
          <5>2. log[n + j].kind = "output" /\ IsOutput(log[n + j].val, t.outputs[j])
            BY <1>a, <1>1, <4>6 DEF OutputsShown
          <5>3. QED
            BY <5>1, <5>2 DEF IsOutput, Bytes
        <4>7. QED
          BY <1>a, <1>1, <4>5, <4>6
      <3>8. InputsShown(t, n)'
        <4>1. \A j \in 1 .. n : log'[j] = log[j]
          BY <1>1, <3>b
        <4>2. QED
          BY <1>1, <4>1 DEF InputsShown, IsInput, Bytes
      <3>5. Rendering(o, t)'
        BY <1>a, <1>1, <3>1, <3>2, <3>3, <3>4, <3>8 DEF Rendering
      <3>6. ~ BadOutput
        BY <1>a, <2>1 DEF BadOutput
      <3>7. QED
        BY <3>5, <3>6
    <2>4. QED
      BY <2>2, <2>3
  <1>6. CASE BadOutput
    <2>1. ~ r.ok /\ Abort(r.cur, r.err)
      BY <1>a, <1>6 DEF BadOutput
    <2>2. Short(o, SizeOf(t), r.err)
      BY <1>3, <1>4, <2>1
    <2>3. QED
      BY <2>1, <2>2, AbortRenders
  <1>7. QED
    BY <1>5, <1>6

(* The output count is read.                                               *)
LEMMA OutputCountRenders ==
  ASSUME DataOK, data' = data, NEW o, ParsesFrom(o), NEW t, Encodable(t), Laid(o, t),
         Rendering(o, t), ParseOutputCount
  PROVE  Rendering(o, t)' /\ FailsShort(o, t)'
  <1>a. PICK r, s, n, m : /\ r = OutputCount(parser) /\ s = CountOf(t)
                          /\ n = Len(t.inputs) /\ m = Len(t.outputs)
    OBVIOUS
  <1>1. /\ Valid(o) /\ Valid(parser) /\ pc = "inputs" /\ HeadRead(t)
        /\ StandsAt(o, parser, InputAt(t, n)) /\ InputsShown(t, n)
    <2>1. pc = "inputs" /\ done = head.inputs
      BY DEF ParseOutputCount
    <2>2. HeadRead(t)
      BY <2>1 DEF Rendering, CallPhases
    <2>3. done = n
      BY <1>a, <2>1, <2>2 DEF HeadRead
    <2>4. QED
      BY <2>1, <2>2, <2>3 DEF Rendering, ParsesFrom, Spanning
  <1>2. Piece(o, SizeOf(t), InputAt(t, n), s, OutputAt(t, 0)) /\ SizeOf(t) \in Nat
    BY <1>a DEF Laid
  <1>3. /\ Holds(parser, parser.pos, s)
        /\ \A x : Meets(parser, x, Len(s)) =>
             \/ x.ok = TRUE /\ StandsAt(o, x.cur, OutputAt(t, 0)) /\ Valid(x.cur)
             \/ x.ok = FALSE /\ Short(o, SizeOf(t), x.err)
    BY <1>1, <1>2, PieceMeets
  <1>4. Gets(parser, r, Len(s), m)
    <2>1. m \in Nat /\ m <= MaxIoCount /\ MaxIoCount \in Nat /\ m <= UsizeMax /\ m \in U64s
      BY <1>a, Elements, LimitsFit
    <2>2. Gets(parser, ReadVarint(parser), Len(s), m)
      BY <1>a, <1>1, <1>3, <2>1, VarintMeets DEF CountOf
    <2>3. Gets(parser, CountRead(ReadVarint(parser), MaxIoCount), Len(s), m)
      BY <2>1, <2>2, CountMeets
    <2>4. QED
      BY <1>a, <2>3 DEF OutputCount
  <1>5. CASE r.ok /\ parser' = r.cur /\ outs' = r.val /\ done' = 0 /\ pc' = "outputs"
             /\ UNCHANGED <<head, witness, ret>> /\ UNCHANGED log
    <2>1. StandsAt(o, parser', OutputAt(t, 0)) /\ outs' = m
      BY <1>3, <1>4, <1>5 DEF Gets
    <2>2. HeadRead(t)'
      BY <1>1, <1>5 DEF HeadRead
    <2>3. InputsShown(t, n)' /\ OutputsShown(t, 0)'
      BY SMTT(30), <1>1, <1>5 DEF InputsShown, OutputsShown, IsInput, Bytes
    <2>4. Rendering(o, t)'
      BY <1>a, <1>5, <2>1, <2>2, <2>3 DEF Rendering, CallPhases
    <2>5. QED
      BY <1>5, <2>4 DEF FailsShort
  <1>6. CASE ~ r.ok /\ Abort(r.cur, r.err)
    <2>1. Short(o, SizeOf(t), r.err)
      BY <1>3, <1>4, <1>6 DEF Gets
    <2>2. QED
      BY <1>6, <2>1, AbortRenders
  <1>7. QED
    BY <1>a, <1>5, <1>6 DEF ParseOutputCount

(* What was shown stays shown.                                             *)
LEMMA ShownStays ==
  ASSUME data' = data, NEW t, outs' = outs, log' = log
  PROVE  (AllShown(t) => AllShown(t)') /\ (head' = head /\ HeadRead(t) => HeadRead(t)')
  BY DEF AllShown, InputsShown, OutputsShown, IsInput, IsOutput, Bytes, HeadRead

(* The outputs end.                                                        *)
LEMMA EndOutputsRenders ==
  ASSUME DataOK, data' = data, NEW o, ParsesFrom(o), NEW t, Encodable(t), Laid(o, t),
         Rendering(o, t), EndOutputs
  PROVE  Rendering(o, t)' /\ FailsShort(o, t)'
  <1>1. /\ pc = "outputs" /\ done = outs /\ done' = 0
        /\ pc' = IF head.segwit THEN "witness" ELSE "locktime"
        /\ UNCHANGED <<parser, head, outs, witness, ret, log>>
    BY DEF EndOutputs
  <1>2. HeadRead(t)
    BY <1>1 DEF Rendering, CallPhases
  <1>3. head.segwit = t.segwit /\ t.segwit \in BOOLEAN
    BY <1>2, Elements DEF HeadRead
  <1>4. AllShown(t) /\ StandsAt(o, parser, WitnessAt(t, 0))
    <2>1. /\ outs = Len(t.outputs) /\ StandsAt(o, parser, OutputAt(t, done))
          /\ InputsShown(t, Len(t.inputs)) /\ OutputsShown(t, done)
      BY <1>1 DEF Rendering
    <2>2. OutputAt(t, Len(t.outputs)) = WitnessAt(t, 0)
      BY DEF Laid
    <2>3. QED
      BY <1>1, <2>1, <2>2 DEF AllShown
  <1>5. AllShown(t)' /\ HeadRead(t)'
    BY <1>1, <1>2, <1>4, ShownStays
  <1>6. CASE t.segwit
    BY <1>1, <1>3, <1>4, <1>5, <1>6 DEF Rendering, FailsShort, CallPhases
  <1>7. CASE ~ t.segwit
    <2>1. LockAt(t) = WitnessAt(t, 0)
      BY <1>7 DEF Laid
    <2>2. QED
      BY <1>1, <1>3, <1>4, <1>5, <1>7, <2>1 DEF Rendering, FailsShort, CallPhases
  <1>8. QED
    BY <1>6, <1>7

(* The lock time is read, and the call returns.                            *)
LEMMA LocktimeRenders ==
  ASSUME DataOK, data' = data, NEW o, ParsesFrom(o), NEW t, Encodable(t), Laid(o, t),
         Rendering(o, t), ParseLocktime
  PROVE  Rendering(o, t)' /\ FailsShort(o, t)'
  <1>a. PICK r, s : r = ReadU32(parser) /\ s = LockOf(t)
    OBVIOUS
  <1>1. pc = "locktime" \/ (pc = "witness" /\ done = head.inputs)
    BY DEF ParseLocktime
  <1>2. Valid(o) /\ Valid(parser) /\ HeadRead(t) /\ AllShown(t)
    BY <1>1 DEF ParsesFrom, Spanning, Rendering, CallPhases
  <1>3. StandsAt(o, parser, LockAt(t))
    <2>1. CASE pc = "locktime"
      BY <2>1 DEF Rendering
    <2>2. CASE pc = "witness" /\ done = head.inputs
      <3>1. t.segwit /\ StandsAt(o, parser, WitnessAt(t, done)) /\ done = Len(t.inputs)
        BY <1>2, <2>2 DEF Rendering, HeadRead
      <3>2. LockAt(t) = WitnessAt(t, Len(t.inputs))
        BY <3>1 DEF Laid
      <3>3. QED
        BY <3>1, <3>2
    <2>3. QED
      BY <1>1, <2>1, <2>2
  <1>4. Piece(o, SizeOf(t), LockAt(t), s, SizeOf(t)) /\ SizeOf(t) \in Nat
    BY <1>a DEF Laid
  <1>5. /\ Holds(parser, parser.pos, s)
        /\ \A x : Meets(parser, x, Len(s)) =>
             \/ x.ok = TRUE /\ StandsAt(o, x.cur, SizeOf(t)) /\ Valid(x.cur)
             \/ x.ok = FALSE /\ Short(o, SizeOf(t), x.err)
    BY <1>2, <1>3, <1>4, PieceMeets
  <1>6. Gets(parser, r, Len(s), t.locktime)
    <2>1. t.locktime \in U32s /\ t.locktime \in Int
      BY Elements, BasePowers DEF U32s
    <2>2. Len(s) = 4
      BY <1>a, <2>1, IntegerBytes DEF LockOf
    <2>3. QED
      BY <1>a, <1>2, <1>5, <2>1, <2>2, U32Meets DEF LockOf
  <1>7. log' = log
    BY DEF ParseLocktime
  <1>8. CASE r.ok /\ Return(r.cur, Returned(TRUE, [version |-> head.version, locktime |-> r.val,
                                                 inputs |-> head.inputs, outputs |-> outs],
                                          NoError))
    <2>1. /\ parser' = r.cur /\ pc' = "returned" /\ ret'.ok = TRUE /\ outs' = outs
          /\ ret'.val = [version |-> head.version, locktime |-> r.val,
                         inputs |-> head.inputs, outputs |-> outs]
      BY <1>8 DEF Return, Returned
    <2>2. AllShown(t)'
      BY <1>2, <1>7, <2>1, ShownStays
    <2>3. StandsAt(o, parser', SizeOf(t)) /\ r.val = t.locktime
      BY <1>5, <1>6, <1>8, <2>1 DEF Gets
    <2>4. ret'.val = [version |-> t.version, locktime |-> t.locktime,
                      inputs |-> Len(t.inputs), outputs |-> Len(t.outputs)]
      BY <1>2, <2>1, <2>3 DEF HeadRead, AllShown
    <2>5. QED
      BY <2>1, <2>2, <2>3, <2>4 DEF Rendering, FailsShort, CallPhases
  <1>9. CASE ~ r.ok /\ Abort(r.cur, r.err)
    <2>1. Short(o, SizeOf(t), r.err)
      BY <1>5, <1>6, <1>9 DEF Gets
    <2>2. QED
      BY <1>9, <2>1, AbortRenders
  <1>10. QED
    BY <1>a, <1>8, <1>9 DEF ParseLocktime

(* What stands behind a cursor stands in a cursor over what it has left.   *)
LEMMA RestPiece ==
  ASSUME DataOK, NEW c, Valid(c), NEW s \in Seq(Byte), Holds(c, c.pos, s),
         NEW w, w = CursorNew(AsSlice(c))
  PROVE  /\ Valid(w) /\ w.pos = 0 /\ w.len = c.len - c.pos
         /\ Piece(w, Len(s), 0, s, Len(s))
  <1>1. /\ c.lo \in Nat /\ c.pos \in Nat /\ c.len \in Nat /\ c.pos <= c.len
    BY ValidFields
  <1>2. w.lo = c.lo + c.pos /\ w.len = c.len - c.pos /\ w.pos = 0
    BY <1>1 DEF CursorNew, AsSlice, Slice
  <1>3. Valid(w)
    BY RestIsValid
  <1>4. Holds(w, 0, s)
    <2>1. SUFFICES ASSUME NEW i \in 1 .. Len(s), 0 + i <= w.len
                   PROVE  data[w.lo + 0 + i] = s[i]
      BY DEF Holds
    <2>2. c.pos + i <= c.len /\ w.lo + 0 + i = c.lo + c.pos + i
      BY <1>1, <1>2, <2>1
    <2>3. QED
      BY <2>2 DEF Holds
  <1>5. w.pos + 0 = 0 /\ Len(s) = 0 + Len(s) /\ Len(s) <= Len(s) /\ Len(s) \in Nat
    BY <1>2
  <1>6. QED
    BY <1>2, <1>3, <1>4, <1>5 DEF Piece

(* The pieces of a witness: its count, and its items.                      *)
LEMMA WitnessPieces ==
  ASSUME NEW c, Valid(c), NEW w, WitnessFits(w), NEW n,
         NEW s, s = EncodeWitness(w), n = Len(s), Piece(c, n, 0, s, n),
         NEW q, q = Len(EncodeVarint(Len(w)))
  PROVE  /\ n \in Nat /\ q \in Nat
         /\ Piece(c, n, 0, EncodeVarint(Len(w)), q + Upto(ItemsOf(w), 0))
         /\ \A k \in 0 .. Len(w) - 1 :
              Piece(c, n, q + Upto(ItemsOf(w), k), WithLength(w[k + 1]),
                    q + Upto(ItemsOf(w), k + 1))
         /\ q + Upto(ItemsOf(w), Len(w)) = n
  <1>a. PICK v, ii, i : v = EncodeVarint(Len(w)) /\ ii = ItemsOf(w) /\ i = FlattenSeq(ii)
    OBVIOUS
  <1>1. /\ v \in Seq(Byte) /\ ii \in Seq(Seq(Byte)) /\ Len(ii) = Len(w) /\ i \in Seq(Byte)
        /\ s = v \o i /\ s \in Seq(Byte) /\ Len(w) \in Nat
        /\ \A k \in 1 .. Len(w) : ii[k] = WithLength(w[k])
    BY <1>a, WitnessBytes
  <1>2. Upto(ii, 0) = 0 /\ Upto(ii, Len(w)) = Len(i) /\ Len(i) \in Nat
    BY <1>a, <1>1, AllJoined
  <1>3. n \in Nat /\ q \in Nat /\ n = q + Len(i)
    <2>1. Len(s) = Len(v) + Len(i)
      BY <1>1, Joined
    <2>2. Len(v) \in Nat
      BY <1>1
    <2>3. q = Len(v)
      BY <1>a
    <2>4. QED
      BY <1>2, <2>1, <2>2, <2>3
  <1>4. Piece(c, n, 0, v, 0 + Len(v)) /\ Piece(c, n, 0 + Len(v), i, n)
    BY <1>1, <1>3, PieceSplit
  <1>5. 0 + Len(v) = q /\ q + 0 = q
    BY <1>3, <1>a
  <1>6. ASSUME NEW k \in 0 .. Len(w) - 1
        PROVE  Piece(c, n, q + Upto(ii, k), WithLength(w[k + 1]), q + Upto(ii, k + 1))
    <2>1. k \in 0 .. Len(ii) - 1 /\ k + 1 \in 1 .. Len(w)
      BY <1>1
    <2>2. Piece(c, n, q + Upto(ii, k), ii[k + 1], q + Upto(ii, k + 1))
      BY <1>1, <1>3, <1>4, <1>5, <1>a, <2>1, PieceEach
    <2>3. QED
      BY <1>1, <2>1, <2>2
  <1>7. QED
    BY <1>2, <1>3, <1>4, <1>5, <1>6, <1>a

(* What is too short for a witness is too short for what it is part of.    *)
LEMMA ShortInside ==
  ASSUME NEW o, Valid(o), NEW n \in Nat, NEW x, NEW y, NEW s, Piece(o, n, x, s, y),
         NEW c, StandsAt(o, c, x), NEW w, w.pos = 0, w.len = c.len - c.pos,
         NEW e, Short(w, Len(s), e)
  PROVE  Short(o, n, e)
  <1>1. /\ x \in Nat /\ y \in Nat /\ y = x + Len(s) /\ y <= n /\ Len(s) \in Nat
    BY DEF Piece
  <1>2. o.pos \in Nat /\ o.len \in Nat /\ c.len = o.len /\ c.pos = o.pos + x
    BY DEF Valid, StandsAt
  <1>3. e.kind = "UnexpectedEof" /\ w.len < 0 + Len(s)
    BY DEF Short
  <1>4. o.len < o.pos + n
    BY <1>1, <1>2, <1>3
  <1>5. QED
    BY <1>3, <1>4 DEF Short

(* The round of the loop over the witnesses that the call is in.           *)
InRound(o, t, w, s, c, k) ==
  /\ Valid(o) /\ Valid(parser) /\ HeadRead(t) /\ AllShown(t) /\ t.segwit
  /\ k = done + 1 /\ done \in Nat /\ k <= Len(t.inputs)
  /\ w = t.witnesses[k] /\ WitnessFits(w) /\ s = EncodeWitness(w) /\ s \in Seq(Byte)
  /\ StandsAt(o, parser, WitnessAt(t, done))
  /\ SizeOf(t) \in Nat
  /\ Piece(o, SizeOf(t), WitnessAt(t, done), s, WitnessAt(t, k))
  /\ Holds(parser, parser.pos, s)
  /\ c = CursorNew(AsSlice(parser))
  /\ Valid(c) /\ c.pos = 0 /\ c.len = parser.len - parser.pos
  /\ Piece(c, Len(s), 0, s, Len(s))

(* Such a round there is.                                                  *)
LEMMA RoundOf ==
  ASSUME DataOK, NEW o, ParsesFrom(o), NEW t, Encodable(t), Laid(o, t), Rendering(o, t),
         pc \in {"witness", "items"}, done < head.inputs,
         NEW w, w = t.witnesses[done + 1], NEW s, s = EncodeWitness(w),
         NEW c, c = CursorNew(AsSlice(parser)), NEW k, k = done + 1
  PROVE  InRound(o, t, w, s, c, k)
  <1>1. /\ Valid(o) /\ Valid(parser) /\ HeadRead(t) /\ AllShown(t) /\ t.segwit
        /\ StandsAt(o, parser, WitnessAt(t, done)) /\ done \in Nat
    BY DEF ParsesFrom, Spanning, Counting, Rendering, CallPhases
  <1>2. done < Len(t.inputs) /\ Len(t.inputs) \in Nat
    BY <1>1, Elements, LimitsFit DEF HeadRead
  <1>3. k <= Len(t.inputs) /\ done \in 0 .. Len(t.inputs) - 1 /\ k \in 1 .. Len(t.inputs)
    BY <1>1, <1>2
  <1>4. WitnessFits(w)
    BY <1>1, <1>3, Elements
  <1>5. s \in Seq(Byte)
    BY <1>4, WitnessBytes
  <1>6. Piece(o, SizeOf(t), WitnessAt(t, done), s, WitnessAt(t, k)) /\ SizeOf(t) \in Nat
    BY <1>1, <1>3 DEF Laid
  <1>7. Holds(parser, parser.pos, s)
    BY <1>1, <1>6, PieceMeets
  <1>8. /\ Valid(c) /\ c.pos = 0 /\ c.len = parser.len - parser.pos
        /\ Piece(c, Len(s), 0, s, Len(s))
    BY <1>1, <1>5, <1>7, RestPiece
  <1>9. QED
    BY <1>1, <1>3, <1>4, <1>5, <1>6, <1>7, <1>8 DEF InRound

(* A witness is begun, or read on.                                         *)
LEMMA ItemsRender ==
  ASSUME data' = data, NEW o, NEW t, NEW w, NEW s, NEW c, NEW k, InRound(o, t, w, s, c, k),
         parser' = parser, pc' = "items", log' = log, UNCHANGED <<head, outs, done, ret>>,
         witness'.left \in Nat, witness'.left <= Len(w),
         StandsAt(c, witness'.cur,
                  Len(EncodeVarint(Len(w))) + Upto(ItemsOf(w), Len(w) - witness'.left))
  PROVE  Rendering(o, t)' /\ FailsShort(o, t)'
  <1>1. AllShown(t)' /\ HeadRead(t)'
    BY ShownStays DEF InRound
  <1>2. t.segwit /\ StandsAt(o, parser, WitnessAt(t, done))'
    BY DEF InRound, StandsAt
  <1>3. CursorNew(AsSlice(parser))' = c /\ t.witnesses[done' + 1] = w
    BY DEF InRound, CursorNew, AsSlice, Slice
  <1>4. Piece(c, Len(EncodeWitness(w)), 0, EncodeWitness(w), Len(EncodeWitness(w)))'
    BY DEF InRound, Piece, Holds
  <1>5. InWitness(c, w)'
    BY <1>4 DEF InWitness
  <1>6. InWitness(CursorNew(AsSlice(parser)), t.witnesses[done + 1])'
    BY <1>3, <1>5 DEF InWitness
  <1>7. QED
    BY <1>1, <1>2, <1>6 DEF Rendering, FailsShort, CallPhases

(* The count of a witness is read.                                         *)
LEMMA WitnessCountRenders ==
  ASSUME DataOK, data' = data, NEW o, ParsesFrom(o), NEW t, Encodable(t), Laid(o, t),
         Rendering(o, t), ParseWitnessCount
  PROVE  Rendering(o, t)' /\ FailsShort(o, t)'
  <1>a. PICK w, k, c : w = t.witnesses[done + 1] /\ k = done + 1 /\ c = CursorNew(AsSlice(parser))
    OBVIOUS
  <1>b. PICK r, s, v, q, i : /\ r = WitnessCount(c) /\ s = EncodeWitness(w) /\ v = EncodeVarint(Len(w))
                             /\ q = Len(v) /\ i = ItemsOf(w)
    OBVIOUS
  <1>1. pc = "witness" /\ done < head.inputs /\ log' = log
    BY DEF ParseWitnessCount
  <1>2. InRound(o, t, w, s, c, k)
    BY <1>1, <1>a, <1>b, RoundOf
  <1>3. WitnessFits(w) /\ Valid(c) /\ c.pos = 0 /\ Piece(c, Len(s), 0, s, Len(s))
    BY <1>2 DEF InRound
  <1>4. Len(s) \in Nat /\ Piece(c, Len(s), 0, v, q + Upto(i, 0))
    BY <1>b, <1>3, WitnessPieces
  <1>5. StandsAt(c, c, 0)
    BY <1>3 DEF StandsAt
  <1>6. /\ Holds(c, c.pos, v)
        /\ \A x : Meets(c, x, q) =>
             \/ x.ok = TRUE /\ StandsAt(c, x.cur, q + Upto(i, 0)) /\ Valid(x.cur)
             \/ x.ok = FALSE /\ Short(c, Len(s), x.err)
    <2>1. /\ Holds(c, c.pos, v)
          /\ \A x : Meets(c, x, Len(v)) =>
               \/ x.ok = TRUE /\ StandsAt(c, x.cur, q + Upto(i, 0)) /\ Valid(x.cur)
               \/ x.ok = FALSE /\ Short(c, Len(s), x.err)
      BY <1>3, <1>4, <1>5, PieceMeets
    <2>2. QED
      BY <1>b, <2>1
  <1>7. Gets(c, r, q, Len(w)) /\ Len(w) \in Nat
    <2>1. /\ Len(w) \in Nat /\ Len(w) <= MaxWitnessItems /\ MaxWitnessItems \in Nat
          /\ Len(w) <= UsizeMax /\ Len(w) \in U64s
      BY <1>3, WitnessBytes, LimitsFit DEF WitnessFits
    <2>2. Gets(c, ReadVarint(c), q, Len(w))
      BY <1>b, <1>3, <1>6, <2>1, VarintMeets
    <2>3. Gets(c, CountRead(ReadVarint(c), MaxWitnessItems), q, Len(w))
      BY <2>1, <2>2, CountMeets
    <2>4. QED
      BY <1>b, <2>1, <2>3 DEF WitnessCount
  <1>8. CASE r.ok /\ witness' = [cur |-> r.cur, left |-> r.val] /\ pc' = "items"
             /\ UNCHANGED <<parser, head, outs, done, ret>>
    <2>1. r.val = Len(w) /\ StandsAt(c, r.cur, q + Upto(i, 0))
      BY <1>6, <1>7, <1>8 DEF Gets
    <2>2. witness'.left = Len(w) /\ witness'.cur = r.cur /\ Len(w) - Len(w) = 0
      BY <1>7, <1>8, <2>1
    <2>3. StandsAt(c, witness'.cur, Len(EncodeVarint(Len(w))) + Upto(ItemsOf(w), Len(w) - witness'.left))
      BY <1>b, <2>1, <2>2
    <2>4. QED
      BY <1>1, <1>2, <1>7, <1>8, <2>2, <2>3, ItemsRender
  <1>9. CASE ~ r.ok /\ Abort(parser, r.err)
    <2>1. Short(c, Len(s), r.err)
      BY <1>6, <1>7, <1>9 DEF Gets
    <2>2. Short(o, SizeOf(t), r.err)
      BY <1>2, <2>1, ShortInside DEF InRound
    <2>3. QED
      BY <1>9, <2>2, AbortRenders
  <1>10. QED
    BY <1>a, <1>b, <1>8, <1>9 DEF ParseWitnessCount

(* An item is read.                                                        *)
LEMMA WitnessItemRenders ==
  ASSUME DataOK, data' = data, NEW o, ParsesFrom(o), NEW t, Encodable(t), Laid(o, t),
         Rendering(o, t), ParseWitnessItem
  PROVE  Rendering(o, t)' /\ FailsShort(o, t)'
  <1>a. PICK w, k, c : w = t.witnesses[done + 1] /\ k = done + 1 /\ c = CursorNew(AsSlice(parser))
    OBVIOUS
  <1>b. PICK r, s, q, i : /\ r = WitnessItem(witness.cur) /\ s = EncodeWitness(w)
                          /\ q = Len(EncodeVarint(Len(w))) /\ i = ItemsOf(w)
    OBVIOUS
  <1>1. pc = "items" /\ done < head.inputs /\ log' = log /\ witness.left > 0
        /\ Valid(witness.cur) /\ witness.left \in Nat
    BY LimitTypes DEF ParseWitnessItem, ParsesFrom, Counting
  <1>2. InRound(o, t, w, s, c, k)
    BY <1>1, <1>a, <1>b, RoundOf
  <1>3. /\ WitnessFits(w) /\ Valid(c) /\ Piece(c, Len(s), 0, s, Len(s)) /\ Len(w) \in Nat
    BY <1>2, WitnessBytes DEF InRound
  <1>4. InWitness(c, w)
    BY <1>1, <1>a DEF Rendering
  <1>c. PICK j : j = Len(w) - witness.left
    OBVIOUS
  <1>5. /\ j \in 0 .. Len(w) - 1 /\ j + 1 \in 1 .. Len(w) /\ witness.left <= Len(w)
        /\ Len(w) - (witness.left - 1) = j + 1 /\ witness.left - 1 \in Nat
        /\ witness.left - 1 <= Len(w)
    <2>1. witness.left <= Len(w)
      BY <1>4 DEF InWitness
    <2>2. QED
      BY <1>1, <1>3, <1>c, <2>1
  <1>6. StandsAt(c, witness.cur, q + Upto(i, j))
    BY <1>4, <1>b, <1>c DEF InWitness
  <1>7. /\ Len(s) \in Nat
        /\ Piece(c, Len(s), q + Upto(i, j), WithLength(w[j + 1]), q + Upto(i, j + 1))
    BY <1>b, <1>3, <1>5, WitnessPieces
  <1>8. /\ Holds(witness.cur, witness.cur.pos, WithLength(w[j + 1]))
        /\ \A x : Meets(witness.cur, x, Len(WithLength(w[j + 1]))) =>
             \/ x.ok = TRUE /\ StandsAt(c, x.cur, q + Upto(i, j + 1)) /\ Valid(x.cur)
             \/ x.ok = FALSE /\ Short(c, Len(s), x.err)
    BY <1>1, <1>3, <1>6, <1>7, PieceMeets
  <1>9. Meets(witness.cur, r, Len(WithLength(w[j + 1])))
    <2>1. w[j + 1] \in Seq(Byte) /\ Len(w[j + 1]) <= MaxWitnessItemSize
      BY <1>3, <1>5, WitnessBytes
    <2>2. MaxWitnessItemSize \in Nat /\ MaxWitnessItemSize <= UsizeMax
      BY LimitsFit
    <2>3. QED
      BY <1>1, <1>8, <1>b, <2>1, <2>2, VarBytesMeet DEF WitnessItem, GetsBytes
  <1>10. CASE r.ok /\ witness' = [cur |-> r.cur, left |-> witness.left - 1]
              /\ UNCHANGED <<parser, pc, head, outs, done, ret>>
    <2>1. StandsAt(c, r.cur, q + Upto(i, j + 1))
      BY <1>8, <1>9, <1>10
    <2>2. witness'.left = witness.left - 1 /\ witness'.cur = r.cur
      BY <1>10
    <2>3. StandsAt(c, witness'.cur, Len(EncodeVarint(Len(w))) + Upto(ItemsOf(w), Len(w) - witness'.left))
      BY <1>b, <1>5, <2>1, <2>2
    <2>4. witness'.left \in Nat /\ witness'.left <= Len(w)
      BY <1>5, <2>2
    <2>5. QED
      BY <1>1, <1>2, <1>10, <2>3, <2>4, ItemsRender
  <1>11. CASE ~ r.ok /\ Abort(parser, r.err)
    <2>1. Short(c, Len(s), r.err)
      BY <1>8, <1>9, <1>11
    <2>2. Short(o, SizeOf(t), r.err)
      BY <1>2, <2>1, ShortInside DEF InRound
    <2>3. QED
      BY <1>11, <2>2, AbortRenders
  <1>12. QED
    BY <1>b, <1>10, <1>11 DEF ParseWitnessItem

(* A witness is stepped over.                                              *)
LEMMA EndWitnessRenders ==
  ASSUME DataOK, data' = data, NEW o, ParsesFrom(o), NEW t, Encodable(t), Laid(o, t),
         Rendering(o, t), EndWitness
  PROVE  Rendering(o, t)' /\ FailsShort(o, t)'
  <1>a. PICK w, k, c : w = t.witnesses[done + 1] /\ k = done + 1 /\ c = CursorNew(AsSlice(parser))
    OBVIOUS
  <1>b. PICK r, s, q, i : /\ r = Skip(parser, witness.cur.pos) /\ s = EncodeWitness(w)
                          /\ q = Len(EncodeVarint(Len(w))) /\ i = ItemsOf(w)
    OBVIOUS
  <1>1. pc = "items" /\ done < head.inputs /\ log' = log /\ witness.left = 0
    BY DEF EndWitness, ParsesFrom, Counting
  <1>2. InRound(o, t, w, s, c, k)
    BY <1>1, <1>a, <1>b, RoundOf
  <1>3. /\ WitnessFits(w) /\ Valid(c) /\ c.pos = 0 /\ Piece(c, Len(s), 0, s, Len(s))
        /\ Len(w) \in Nat
    BY <1>2, WitnessBytes DEF InRound
  <1>4. InWitness(c, w)
    BY <1>1, <1>a DEF Rendering
  <1>5. Len(s) \in Nat /\ q + Upto(i, Len(w)) = Len(s)
    BY <1>b, <1>3, WitnessPieces
  <1>6. witness.cur.pos = Len(s)
    <2>1. StandsAt(c, witness.cur, q + Upto(i, Len(w) - witness.left))
      BY <1>4, <1>b DEF InWitness
    <2>2. Len(w) - witness.left = Len(w)
      BY <1>1, <1>3
    <2>3. QED
      BY <1>3, <1>5, <2>1, <2>2 DEF StandsAt
  <1>7. Meets(parser, r, Len(s))
    BY <1>2, <1>5, <1>6, <1>b, BytesMeet DEF Skip, Gets, InRound
  <1>8. \/ r.ok = TRUE /\ StandsAt(o, r.cur, WitnessAt(t, k)) /\ Valid(r.cur)
        \/ r.ok = FALSE /\ Short(o, SizeOf(t), r.err)
    BY <1>2, <1>7, PieceMeets DEF InRound
  <1>9. CASE r.ok /\ parser' = r.cur /\ done' = done + 1 /\ pc' = "witness"
             /\ UNCHANGED <<head, outs, witness, ret>>
    <2>1. AllShown(t)' /\ HeadRead(t)' /\ t.segwit
      BY <1>1, <1>2, <1>9, ShownStays DEF InRound
    <2>2. StandsAt(o, parser', WitnessAt(t, k)) /\ done' = k
      BY <1>8, <1>9, <1>a
    <2>3. QED
      BY <1>9, <2>1, <2>2 DEF Rendering, FailsShort, CallPhases
  <1>10. CASE ~ r.ok /\ Abort(r.cur, r.err)
    BY <1>8, <1>10, AbortRenders
  <1>11. QED
    BY <1>b, <1>9, <1>10 DEF EndWitness

(* The steps in which no callback takes part.                              *)
LEMMA ParseAloneRenders ==
  ASSUME DataOK, data' = data, NEW o, ParsesFrom(o), NEW t, Encodable(t), Laid(o, t),
         Rendering(o, t), ParseAlone
  PROVE  Rendering(o, t)' /\ FailsShort(o, t)'
  <1>1. CASE BadInput
    BY <1>1, ParseInputRenders
  <1>2. CASE BadOutput
    BY <1>2, ParseOutputRenders
  <1>3. QED
    BY <1>1, <1>2, ParseHeadRenders, OutputCountRenders, EndOutputsRenders,
       WitnessCountRenders, WitnessItemRenders, EndWitnessRenders, LocktimeRenders DEF ParseAlone

(* The callbacks.                                                          *)
LEMMA CallbacksRender ==
  ASSUME DataOK, data' = data, NEW o, ParsesFrom(o), NEW t, Encodable(t), Laid(o, t),
         Rendering(o, t), NEW called \in BOOLEAN, NEW e, called \/ e # NoError,
         ParseInput(called, e) \/ ParseOutput(e)
  PROVE  Rendering(o, t)'
  BY ParseInputRenders, ParseOutputRenders

(* Where nothing changes nothing more is read.                             *)
LEMMA RenderingStays ==
  ASSUME data' = data, UNCHANGED parseVars, NEW o, NEW t, Rendering(o, t)
  PROVE  Rendering(o, t)'
  <1>1. /\ parser' = parser /\ pc' = pc /\ head' = head /\ outs' = outs /\ done' = done
        /\ witness' = witness /\ ret' = ret /\ log' = log
    BY DEF parseVars
  <1>2. (AllShown(t) => AllShown(t)') /\ (HeadRead(t) => HeadRead(t)')
    BY <1>1, ShownStays
  <1>3. \A n : InputsShown(t, n) => InputsShown(t, n)'
    BY <1>1 DEF InputsShown, IsInput, Bytes
  <1>4. \A n : OutputsShown(t, n) => OutputsShown(t, n)'
    BY <1>1 DEF OutputsShown, IsOutput, Bytes
  <1>5. \A c, w : InWitness(c, w) => InWitness(c, w)'
    BY <1>1 DEF InWitness, Piece, Holds
  <1>6. CursorNew(AsSlice(parser))' = CursorNew(AsSlice(parser))
    BY <1>1 DEF CursorNew, AsSlice, Slice
  <1>7. QED
    BY <1>1, <1>2, <1>3, <1>4, <1>5, <1>6 DEF Rendering
=============================================================================
