-------------------------- MODULE WitnessIterProofs --------------------------
(***************************************************************************)
(* The properties of WitnessIter, proved for every buffer, every limit and *)
(* every witness put together by hand.                                     *)
(*                                                                         *)
(* items() reads again, in a window of the buffer, what parse has read in  *)
(* the whole.  That the answers are the same is a fact about the reads of  *)
(* the cursor: a read depends on the bytes it takes, and on the window     *)
(* only as far as that holds them.                                         *)
(***************************************************************************)
EXTENDS WitnessIter, ParsingLemmas

(* Where a cursor stands in the buffer.                                    *)
Here(c) == c.lo + c.pos

(* d stands where c does, in a window that ends no later.                  *)
Narrower(d, c) ==
  /\ Valid(c) /\ Valid(d)
  /\ Here(d) = Here(c) /\ d.lo + d.len <= c.lo + c.len

(* If r, read through c, ends within the window of d, then s, read through *)
(* d, is the same.                                                         *)
SameAs(s, d, r) ==
  r.ok /\ Here(r.cur) <= d.lo + d.len =>
    s.ok /\ s.val = r.val /\ s.cur = MoveTo(d, Here(r.cur) - d.lo)

(* A valid cursor stands at an offset.                                     *)
LEMMA HereType ==
  ASSUME NEW c, Valid(c)
  PROVE  /\ Here(c) \in Nat /\ c.lo \in Nat /\ c.len \in Nat /\ c.pos \in Nat
         /\ c.pos <= c.len /\ c.lo + c.len <= Len(data)
  BY DEF Valid, Here

-----------------------------------------------------------------------------
(* Reads through a narrower window.                                        *)

(* The bytes.                                                              *)
LEMMA NarrowBytes ==
  ASSUME DataOK, NEW c, NEW d, Narrower(d, c), NEW n \in Nat
  PROVE  SameAs(ReadBytes(d, n), d, ReadBytes(c, n))
  <1> SUFFICES ASSUME ReadBytes(c, n).ok, Here(ReadBytes(c, n).cur) <= d.lo + d.len
               PROVE  /\ ReadBytes(d, n).ok /\ ReadBytes(d, n).val = ReadBytes(c, n).val
                      /\ ReadBytes(d, n).cur = MoveTo(d, Here(ReadBytes(c, n).cur) - d.lo)
    BY DEF SameAs
  <1>1. /\ c.lo \in Nat /\ c.len \in Nat /\ c.pos \in Nat
        /\ d.lo \in Nat /\ d.len \in Nat /\ d.pos \in Nat /\ d.len <= UsizeMax
        /\ UsizeMax \in Nat /\ Valid(c) /\ Valid(d)
        /\ d.lo + d.pos = c.lo + c.pos
    BY ValidFields DEF Narrower, Here
  <1>2. /\ ReadBytes(c, n).cur.pos = c.pos + n /\ ReadBytes(c, n).cur.lo = c.lo
        /\ ReadBytes(c, n).val = Slice(c.lo + c.pos, c.lo + c.pos + n)
    BY <1>1, ReadBytesLemma DEF Reads, Forward
  <1>3. Here(ReadBytes(c, n).cur) = d.lo + d.pos + n /\ n <= d.len - d.pos
    BY <1>1, <1>2 DEF Here
  <1>4. CheckedAdd(d.pos, n) = d.pos + n
    BY <1>1, <1>3 DEF CheckedAdd
  <1>5. d.pos + n # None /\ ~ (d.pos + n > d.len)
    BY <1>1, <1>3 DEF None
  <1>6. PICK v : v = Slice(d.lo + d.pos, d.lo + (d.pos + n))
    OBVIOUS
  <1>7. ReadBytes(d, n) = Ok(MoveTo(d, d.pos + n), v, Offsets(v))
    BY <1>1, <1>4, <1>5, <1>6 DEF ReadBytes
  <1>8. ReadBytes(d, n).ok /\ ReadBytes(d, n).val = v /\ ReadBytes(d, n).cur = MoveTo(d, d.pos + n)
    BY <1>7 DEF Ok, Result
  <1>9. v = Slice(c.lo + c.pos, c.lo + c.pos + n) /\ d.pos + n = (d.lo + d.pos + n) - d.lo
    <2>1. d.lo + (d.pos + n) = c.lo + c.pos + n
      BY <1>1
    <2>2. QED
      BY <1>1, <1>6, <2>1
  <1>10. QED
    BY <1>2, <1>3, <1>8, <1>9

(* One byte.                                                               *)
LEMMA NarrowU8 ==
  ASSUME DataOK, NEW c, NEW d, Narrower(d, c)
  PROVE  SameAs(ReadU8(d), d, ReadU8(c))
  <1> SUFFICES ASSUME ReadU8(c).ok, Here(ReadU8(c).cur) <= d.lo + d.len
               PROVE  /\ ReadU8(d).ok /\ ReadU8(d).val = ReadU8(c).val
                      /\ ReadU8(d).cur = MoveTo(d, Here(ReadU8(c).cur) - d.lo)
    BY DEF SameAs
  <1>1. /\ c.lo \in Nat /\ c.len \in Nat /\ c.pos \in Nat
        /\ d.lo \in Nat /\ d.len \in Nat /\ d.pos \in Nat
        /\ Valid(c) /\ Valid(d) /\ d.lo + d.pos = c.lo + c.pos
    BY ValidFields DEF Narrower, Here
  <1>2. ReadU8(c).cur = MoveTo(c, c.pos + 1) /\ ReadU8(c).val = At(c.lo + c.pos)
    BY DEF ReadU8, Ok, Fail, Result
  <1>3. Here(ReadU8(c).cur) = d.lo + d.pos + 1 /\ ~ (d.pos >= d.len)
    BY <1>1, <1>2 DEF Here, MoveTo
  <1>4. ReadU8(d) = Ok(MoveTo(d, d.pos + 1), At(d.lo + d.pos), {d.lo + d.pos})
    BY <1>3 DEF ReadU8
  <1>5. /\ ReadU8(d).ok /\ ReadU8(d).val = At(d.lo + d.pos)
        /\ ReadU8(d).cur = MoveTo(d, d.pos + 1)
    BY <1>4 DEF Ok, Result
  <1>6. d.pos + 1 = (d.lo + d.pos + 1) - d.lo
    BY <1>1
  <1>7. QED
    BY <1>1, <1>2, <1>3, <1>5, <1>6

(* The integers.                                                           *)
LEMMA NarrowInts ==
  ASSUME DataOK, NEW c, NEW d, Narrower(d, c)
  PROVE  /\ SameAs(ReadU16(d), d, ReadU16(c))
         /\ SameAs(ReadU32(d), d, ReadU32(c))
         /\ SameAs(ReadU64(d), d, ReadU64(c))
  <1>1. SameAs(ReadU16(d), d, ReadU16(c))
    BY NarrowBytes DEF ReadU16, ReadInt, SameAs, Ok, Result
  <1>2. SameAs(ReadU32(d), d, ReadU32(c))
    BY NarrowBytes DEF ReadU32, ReadInt, SameAs, Ok, Result
  <1>3. SameAs(ReadU64(d), d, ReadU64(c))
    BY NarrowBytes DEF ReadU64, ReadInt, SameAs, Ok, Result
  <1>4. QED
    BY <1>1, <1>2, <1>3

(* A read that succeeds leaves the cursor in its window, no less far.      *)
Onward(c, r) ==
  r.ok => Valid(r.cur) /\ r.cur.lo = c.lo /\ r.cur.len = c.len /\ Here(c) <= Here(r.cur)

(* Every read of the cursor does.                                          *)
LEMMA ReadsOnward ==
  ASSUME DataOK, NEW c, Valid(c), NEW r, NEW k, Reads(c, r, k)
  PROVE  Onward(c, r)
  BY ValidFields DEF Onward, Reads, Forward, Valid, Here

(* Where a read through the narrower window is the same, so are the        *)
(* windows of what comes next.                                             *)
LEMMA NarrowRest ==
  ASSUME DataOK, NEW c, NEW d, Narrower(d, c), NEW r, NEW s, SameAs(s, d, r),
         Onward(c, r), r.ok, Here(r.cur) <= d.lo + d.len
  PROVE  /\ s.ok /\ s.val = r.val /\ Narrower(s.cur, r.cur)
         /\ s.cur = MoveTo(d, Here(r.cur) - d.lo)
         /\ s.cur.lo = d.lo /\ s.cur.len = d.len
  <1>1. /\ c.lo \in Nat /\ c.len \in Nat /\ c.pos \in Nat
        /\ d.lo \in Nat /\ d.len \in Nat /\ d.pos \in Nat /\ d.lo + d.len <= Len(data)
        /\ Len(data) \in Nat /\ Here(d) = Here(c) /\ d.lo + d.len <= c.lo + c.len
    BY ValidFields DEF Narrower
  <1>2. /\ Valid(r.cur) /\ r.cur.lo = c.lo /\ r.cur.len = c.len /\ Here(c) <= Here(r.cur)
        /\ Here(r.cur) \in Nat
    BY DEF Onward, Valid, Here
  <1>3. PICK p : p = Here(r.cur) - d.lo
    OBVIOUS
  <1>4. p \in Nat /\ p <= d.len /\ d.lo + p = Here(r.cur)
    BY SMTT(60), <1>1, <1>2, <1>3 DEF Here
  <1>5. s.ok /\ s.val = r.val /\ s.cur = MoveTo(d, p)
    BY <1>3 DEF SameAs
  <1>6. s.cur.lo = d.lo /\ s.cur.len = d.len /\ s.cur.pos = p
        /\ s.cur \in [lo : Nat, len : Nat, pos : Nat]
    BY <1>1, <1>4, <1>5 DEF MoveTo
  <1>7. Valid(s.cur) /\ Here(s.cur) = Here(r.cur)
    BY <1>1, <1>4, <1>6 DEF Valid, Here
  <1>8. QED
    BY <1>1, <1>2, <1>3, <1>5, <1>6, <1>7 DEF Narrower

(* Reads one after the other.                                              *)
LEMMA NarrowAfter ==
  ASSUME DataOK, NEW c, NEW d, Narrower(d, c), NEW r, NEW s, SameAs(s, d, r),
         Onward(c, r), NEW q, r.ok => Onward(r.cur, q),
         NEW t, r.ok /\ s.val = r.val /\ Narrower(s.cur, r.cur) => SameAs(t, s.cur, q)
  PROVE  SameAs(IF s.ok THEN After(s, t) ELSE s, d, IF r.ok THEN After(r, q) ELSE r)
  <1>1. CASE ~ r.ok
    BY <1>1 DEF SameAs
  <1>2. CASE r.ok
    <2>1. After(r, q).ok = q.ok /\ After(r, q).val = q.val /\ After(r, q).cur = q.cur
      BY DEF After, Result
    <2>2. After(s, t).ok = t.ok /\ After(s, t).val = t.val /\ After(s, t).cur = t.cur
      BY DEF After, Result
    <2>3. SUFFICES ASSUME q.ok, Here(q.cur) <= d.lo + d.len
                   PROVE  /\ s.ok /\ t.ok /\ t.val = q.val
                          /\ t.cur = MoveTo(d, Here(q.cur) - d.lo)
      BY <1>2, <2>1, <2>2 DEF SameAs
    <2>4. Here(r.cur) <= d.lo + d.len
      <3>1. Valid(r.cur) /\ Valid(q.cur) /\ Valid(d) /\ Here(r.cur) <= Here(q.cur)
        <4>1. Onward(r.cur, q)
          BY <1>2
        <4>2. Valid(q.cur) /\ Here(r.cur) <= Here(q.cur)
          BY <2>3, <4>1 DEF Onward
        <4>3. Valid(r.cur)
          BY <1>2 DEF Onward
        <4>4. QED
          BY <4>2, <4>3 DEF Narrower
      <3>2. Here(r.cur) \in Nat /\ Here(q.cur) \in Nat /\ d.lo \in Nat /\ d.len \in Nat
        BY <3>1, HereType
      <3>3. QED
        BY <2>3, <3>1, <3>2
    <2>5. /\ s.ok /\ s.val = r.val /\ Narrower(s.cur, r.cur)
          /\ s.cur.lo = d.lo /\ s.cur.len = d.len
      BY <1>2, <2>4, NarrowRest
    <2>6. t.ok /\ t.val = q.val /\ t.cur = MoveTo(s.cur, Here(q.cur) - s.cur.lo)
      BY <1>2, <2>3, <2>5 DEF SameAs
    <2>7. QED
      BY <2>5, <2>6 DEF MoveTo
  <1>3. QED
    BY <1>1, <1>2

(* A varint.                                                               *)
LEMMA NarrowVarint ==
  ASSUME DataOK, NEW c, NEW d, Narrower(d, c)
  PROVE  SameAs(ReadVarint(d), d, ReadVarint(c))
  <1> DEFINE r == ReadU8(c)
             s == ReadU8(d)
             q == VarintFrom(r.cur, r.val)
             t == VarintFrom(s.cur, s.val)
  <1>1. Valid(c)
    BY DEF Narrower
  <1>2. SameAs(s, d, r) /\ Onward(c, r) /\ (r.ok => r.val \in 0 .. Base - 1)
    BY <1>1, NarrowU8, ReadU8Lemma, ReadsOnward
  <1>3. ReadVarint(c) = IF r.ok THEN After(r, q) ELSE r
    BY DEF ReadVarint
  <1>4. ReadVarint(d) = IF s.ok THEN After(s, t) ELSE s
    BY DEF ReadVarint
  <1>5. r.ok => Onward(r.cur, q)
    <2> HIDE DEF r
    <2>1. r.ok => Valid(r.cur)
      BY <1>2 DEF Onward
    <2>2. QED
      BY <1>2, <2>1, VarintFromLemma, ReadsOnward
  <1>6. \A x, y, b : Narrower(y, x) => SameAs(VarintFrom(y, b), y, VarintFrom(x, b))
    <2>1. \A x, y, v : Narrower(y, x) => SameAs(Ok(y, v, {}), y, Ok(x, v, {}))
      <3> SUFFICES ASSUME NEW x, NEW y, NEW v, Narrower(y, x)
                   PROVE  y = MoveTo(y, Here(x) - y.lo)
        BY DEF SameAs, Ok, Result
      <3>1. Here(x) = y.lo + y.pos /\ y \in [lo : Nat, len : Nat, pos : Nat]
        BY DEF Narrower, Here, Valid
      <3>2. Here(x) - y.lo = y.pos
        BY <3>1
      <3>3. QED
        BY <3>1, <3>2 DEF MoveTo
    <2>2. QED
      BY <2>1, NarrowInts DEF VarintFrom
  <1> HIDE DEF r, s
  <1>7. r.ok /\ s.val = r.val /\ Narrower(s.cur, r.cur) => SameAs(t, s.cur, q)
    BY <1>6
  <1> HIDE DEF q, t
  <1>8. QED
    BY <1>2, <1>3, <1>4, <1>5, <1>7, NarrowAfter

(* A count within a limit.                                                 *)
LEMMA NarrowCount ==
  ASSUME DataOK, NEW c, NEW d, Narrower(d, c), NEW max \in Nat
  PROVE  /\ SameAs(CountRead(ReadVarint(d), max), d, CountRead(ReadVarint(c), max))
         /\ Onward(c, CountRead(ReadVarint(c), max))
         /\ LET n == CountRead(ReadVarint(c), max) IN
            n.ok => n.val \in 0 .. max /\ n.val <= UsizeMax /\ Here(c) < Here(n.cur)
  <1> DEFINE v == ReadVarint(c)
             w == ReadVarint(d)
  <1>1. SameAs(w, d, v)
    BY NarrowVarint
  <1>2. Valid(c) /\ c.pos \in Nat /\ c.lo \in Nat
    BY ValidFields DEF Narrower
  <1>3. /\ Reads(c, v, 1)
        /\ v.ok => v.cur.pos <= c.pos + 9 /\ v.val \in Nat
    BY <1>2, ReadVarintLemma
  <1>4. Onward(c, v)
    BY <1>2, <1>3, ReadsOnward
  <1>5. v.ok => Here(c) < Here(v.cur)
    <2> DEFINE u == ReadU8(c)
               f == VarintFrom(u.cur, u.val)
    <2>1. Onward(c, u) /\ (u.ok => u.cur.pos = c.pos + 1 /\ u.val \in 0 .. Base - 1)
      BY <1>2, ReadU8Lemma, ReadsOnward
    <2>2. v = IF u.ok THEN After(u, f) ELSE u
      BY DEF ReadVarint
    <2> HIDE DEF u, v
    <2>3. u.ok => Valid(u.cur) /\ Reads(u.cur, f, 0)
      BY <2>1, VarintFromLemma DEF Onward
    <2>4. SUFFICES ASSUME v.ok
                   PROVE  Here(c) < Here(v.cur)
      OBVIOUS
    <2>5. u.ok /\ f.ok /\ v.cur = f.cur
      BY <2>2, <2>4 DEF After, Result
    <2>6. Onward(u.cur, f)
      BY <2>3, <2>5, ReadsOnward
    <2>7. Here(u.cur) <= Here(f.cur) /\ Here(u.cur) = Here(c) + 1 /\ Here(f.cur) \in Nat
          /\ Here(c) \in Nat
      <3>1. /\ Valid(f.cur) /\ Here(u.cur) <= Here(f.cur)
            /\ u.cur.lo = c.lo /\ u.cur.pos = c.pos + 1
        BY <2>1, <2>5, <2>6 DEF Onward
      <3>2. Here(f.cur) \in Nat
        BY <3>1 DEF Valid, Here
      <3>3. Here(c) \in Nat /\ Here(u.cur) = Here(c) + 1
        BY <1>2, <3>1 DEF Here
      <3>4. QED
        BY <3>1, <3>2, <3>3
    <2>8. QED
      BY <2>5, <2>7
  <1> HIDE DEF v, w
  <1>6. \A x : CountRead(x, max).ok =>
               x.ok /\ CountRead(x, max) = x /\ ~ (x.val > UsizeMax) /\ ~ (x.val > max)
    BY DEF CountRead, Capped, ToUsize, Fail, Result
  <1>7. \A x : x.ok /\ ~ (x.val > UsizeMax) /\ ~ (x.val > max) => CountRead(x, max) = x
    BY DEF CountRead, Capped, ToUsize
  <1>8. SameAs(CountRead(w, max), d, CountRead(v, max))
    BY <1>1, <1>6, <1>7 DEF SameAs
  <1>9. Onward(c, CountRead(v, max))
    BY <1>4, <1>6 DEF Onward
  <1>10. CountRead(v, max).ok =>
           /\ CountRead(v, max).val \in 0 .. max /\ CountRead(v, max).val <= UsizeMax
           /\ Here(c) < Here(CountRead(v, max).cur)
    BY <1>3, <1>5, <1>6, CursorAssumption
  <1>11. QED
    BY <1>8, <1>9, <1>10 DEF v, w

(* An item: the length comes first, and the slice ends where the read does. *)
LEMMA NarrowItem ==
  ASSUME DataOK, NEW c, NEW d, Narrower(d, c)
  PROVE  /\ SameAs(WitnessItem(d), d, WitnessItem(c))
         /\ Onward(c, WitnessItem(c))
         /\ LET r == WitnessItem(c) IN
            r.ok => /\ r.val \in [lo : Nat, hi : Nat]
                    /\ Here(c) < r.val.lo /\ r.val.hi = Here(r.cur)
                    /\ r.val.hi - r.val.lo \in 0 .. MaxWitnessItemSize
  <1> DEFINE n == CountRead(ReadVarint(c), MaxWitnessItemSize)
             m == CountRead(ReadVarint(d), MaxWitnessItemSize)
             q == ReadBytes(n.cur, n.val)
             t == ReadBytes(m.cur, m.val)
             r == WitnessItem(c)
  <1>0. MaxWitnessItemSize \in Nat
    BY WitnessAssumption
  <1>1. SameAs(m, d, n) /\ Onward(c, n)
        /\ (n.ok => n.val \in 0 .. MaxWitnessItemSize /\ Here(c) < Here(n.cur))
    BY <1>0, NarrowCount
  <1>2. r = IF n.ok THEN After(n, q) ELSE n
    BY DEF WitnessItem, ReadVarBytes, CountRead
  <1>3. WitnessItem(d) = IF m.ok THEN After(m, t) ELSE m
    BY DEF WitnessItem, ReadVarBytes, CountRead
  <1> HIDE DEF n, m, r
  <1>4. n.ok => /\ Valid(n.cur) /\ Reads(n.cur, q, 0)
                /\ q.ok => /\ q.cur.pos = n.cur.pos + n.val
                           /\ q.val = Slice(Here(n.cur), Here(n.cur) + n.val)
    BY <1>0, <1>1, ReadBytesLemma DEF Onward, Here
  <1>5. n.ok => Onward(n.cur, q)
    BY <1>4, ReadsOnward
  <1>6. n.ok /\ m.val = n.val /\ Narrower(m.cur, n.cur) => SameAs(t, m.cur, q)
    BY <1>0, <1>1, NarrowBytes
  <1>7. SameAs(WitnessItem(d), d, r)
    BY <1>1, <1>2, <1>3, <1>5, <1>6, NarrowAfter
  <1>8. SUFFICES ASSUME r.ok
                 PROVE  /\ Valid(r.cur) /\ r.cur.lo = c.lo /\ r.cur.len = c.len
                        /\ Here(c) <= Here(r.cur)
                        /\ r.val \in [lo : Nat, hi : Nat]
                        /\ Here(c) < r.val.lo /\ r.val.hi = Here(r.cur)
                        /\ r.val.hi - r.val.lo \in 0 .. MaxWitnessItemSize
    BY <1>7 DEF Onward, r
  <1>9. n.ok /\ q.ok /\ r.val = q.val /\ r.cur = q.cur
    BY <1>2, <1>8 DEF After, Result
  <1>10. /\ Here(c) \in Nat /\ Here(n.cur) \in Nat /\ Here(c) < Here(n.cur) /\ n.val \in Nat
         /\ q.cur.lo = n.cur.lo /\ Here(q.cur) = Here(n.cur) + n.val
         /\ n.val <= MaxWitnessItemSize
         /\ q.val.lo = Here(n.cur) /\ q.val.hi = Here(n.cur) + n.val
         /\ q.val = [lo |-> Here(n.cur), hi |-> Here(n.cur) + n.val]
    <2>1. Onward(n.cur, q) /\ Onward(c, n) /\ Valid(n.cur) /\ Valid(q.cur) /\ Valid(c)
      BY <1>1, <1>4, <1>5, <1>9 DEF Onward, Narrower
    <2>2. /\ c.lo \in Nat /\ c.pos \in Nat /\ n.cur.lo \in Nat /\ n.cur.pos \in Nat
          /\ q.cur.lo = n.cur.lo /\ q.cur.pos = n.cur.pos + n.val
          /\ n.val \in 0 .. MaxWitnessItemSize /\ Here(c) < Here(n.cur)
      BY <1>1, <1>4, <1>9, <2>1 DEF Onward, Valid
    <2>3. n.val \in Nat /\ Here(n.cur) \in Nat
      BY <1>0, <2>2 DEF Here
    <2>4. q.val = [lo |-> Here(n.cur), hi |-> Here(n.cur) + n.val]
      BY <1>4, <1>9 DEF Slice
    <2>5. QED
      BY <1>0, <2>2, <2>3, <2>4 DEF Here
  <1>11. Valid(q.cur) /\ q.cur.lo = c.lo /\ q.cur.len = c.len
    BY <1>1, <1>5, <1>9 DEF Onward
  <1>12. q.val \in [lo : Nat, hi : Nat] /\ q.val.hi - q.val.lo = n.val
    BY <1>10
  <1>13. Here(c) < q.val.lo /\ Here(c) <= Here(q.cur) /\ q.val.hi = Here(q.cur)
    BY <1>10
  <1>14. QED
    BY <1>0, <1>9, <1>10, <1>11, <1>12, <1>13

-----------------------------------------------------------------------------
(* The inductive invariant.                                                *)

(* The cursor of parse, before it has read anything.                       *)
Start == CursorNew(AllData)

(* What parse reads first.                                                 *)
Count == WitnessCount(Start)

(* Where the k-th of the items ps ends, and the next one begins.           *)
Mark(ps, k) == IF k = 0 THEN Here(Count.cur) ELSE ps[k].hi

(* ps are the first items of the buffer, one behind the other.             *)
Recorded(ps) ==
  /\ ps \in Seq(Spans)
  /\ Count.ok
  /\ \A k \in 1 .. Len(ps) :
       LET r == WitnessItem(MoveTo(Start, Mark(ps, k - 1)))
       IN  r.ok /\ r.val = ps[k] /\ Here(r.cur) = ps[k].hi
  /\ \A k \in 0 .. Len(ps) : Mark(ps, k) \in Nat /\ Mark(ps, k) <= Mark(ps, Len(ps))
  /\ Mark(ps, Len(ps)) <= Len(data)

(* What is there in which stage.                                           *)
Stages ==
  /\ DataOK
  /\ stage \in {"empty", "parsing", "made", "refused", "iterating"}
  /\ Valid(reading.cur) /\ reading.cur.lo = 0 /\ reading.left \in 0 .. MaxWitnessItems
  /\ made.raw \in Spans /\ made.raw.lo <= made.raw.hi /\ made.raw.hi <= Len(data)
  /\ made.count \in 0 .. UsizeMax
  /\ iter.left \in 0 .. made.count
  /\ byHand \in BOOLEAN
  /\ stage # "iterating" => item = NotYet /\ yielded = <<>> /\ iter.left = 0
  /\ stage = "empty" => parsed = <<>>
  /\ byHand => stage \in {"made", "iterating"}

(* The witness is one that parse makes, or is making.                      *)
FromParse == stage = "parsing" \/ (stage \in {"made", "iterating"} /\ ~ byHand)

(* parse stands behind the items that it has recorded.                     *)
Parsing ==
  FromParse =>
    /\ Recorded(parsed)
    /\ reading.cur = MoveTo(Start, Mark(parsed, Len(parsed)))
    /\ Len(parsed) + reading.left = Count.val
    /\ stage # "parsing" =>
         made.raw = Slice(0, Mark(parsed, Len(parsed))) /\ made.count = Len(parsed)

(* What next has answered lies in order before the cursor.                 *)
Ordered ==
  stage = "iterating" =>
    /\ Valid(iter.cur)
    /\ made.raw.lo <= iter.cur.lo /\ iter.cur.lo + iter.cur.len = made.raw.hi
    /\ yielded \in Seq(Spans)
    /\ Len(yielded) + iter.left <= made.count
    /\ \A k \in 1 .. Len(yielded) :
         /\ yielded[k].lo > IF k = 1 THEN made.raw.lo ELSE yielded[k - 1].hi
         /\ yielded[k].hi <= Here(iter.cur)
         /\ yielded[k].hi - yielded[k].lo \in 0 .. MaxWitnessItemSize
    /\ item = End => iter.left = 0

(* Of a witness from parse it is what parse has recorded.                  *)
Replayed ==
  stage = "iterating" /\ ~ byHand =>
    /\ Len(yielded) + iter.left = Len(parsed)
    /\ \A k \in 1 .. Len(yielded) : yielded[k] = parsed[k]
    /\ Here(iter.cur) = Mark(parsed, Len(yielded))
    /\ item.kind # "error"

IInv == Stages /\ Parsing /\ Ordered /\ Replayed

-----------------------------------------------------------------------------
(* Steps.                                                                  *)

(* The buffer does not change, and so neither does what is read from it.   *)
LEMMA ItemsStay ==
  ASSUME data' = data
  PROVE  /\ \A x : WitnessItem(x)' = WitnessItem(x)
         /\ Start' = Start /\ Count' = Count
         /\ \A ps, k : Mark(ps, k)' = Mark(ps, k)
         /\ \A ps : Recorded(ps)' <=> Recorded(ps)
         /\ \A x : Valid(x)' <=> Valid(x)
         /\ \A x : BehindCount(x)' = BehindCount(x)
  <1>1. \A x : ReadU8(x)' = ReadU8(x)
    BY DEF ReadU8, At
  <1>2. \A x : ReadU16(x)' = ReadU16(x)
    BY DEF ReadU16, ReadInt, U16, At
  <1>3. \A x : ReadU32(x)' = ReadU32(x)
    BY DEF ReadU32, ReadInt, U32, U16, At
  <1>4. \A x : ReadU64(x)' = ReadU64(x)
    BY DEF ReadU64, ReadInt, U64, U32, U16, At
  <1>5. \A x, b : VarintFrom(x, b)' = VarintFrom(x, b)
    BY <1>2, <1>3, <1>4 DEF VarintFrom
  <1>6. \A x : ReadVarint(x)' = ReadVarint(x)
    BY <1>1, <1>5 DEF ReadVarint
  <1>7. \A x : WitnessItem(x)' = WitnessItem(x) /\ WitnessCount(x)' = WitnessCount(x)
    BY <1>6 DEF WitnessItem, ReadVarBytes, WitnessCount, CountRead
  <1>8. Start' = Start
    BY DEF Start, CursorNew, AllData, Slice
  <1>9. Count' = Count
    BY <1>7, <1>8 DEF Count
  <1>10. \A ps, k : Mark(ps, k)' = Mark(ps, k)
    BY <1>9 DEF Mark
  <1>11. \A ps : Recorded(ps)' <=> Recorded(ps)
    BY <1>7, <1>8, <1>9, <1>10 DEF Recorded, MoveTo, Spans, Here
  <1>12. \A x : Valid(x)' <=> Valid(x)
    BY DEF Valid
  <1>13. \A x : BehindCount(x)' = BehindCount(x)
    BY <1>6 DEF BehindCount, AsSlice, CursorNew, Slice
  <1>14. QED
    BY <1>7, <1>8, <1>9, <1>10, <1>11, <1>12, <1>13

(* What parse has recorded stays when parse is done.                       *)
LEMMA ParsingStays ==
  ASSUME Parsing, UNCHANGED <<data, reading, made, parsed>>,
         FromParse' => FromParse /\ (stage' # "parsing" => stage # "parsing")
  PROVE  Parsing'
  <1>1. /\ Recorded(parsed)' <=> Recorded(parsed)
        /\ Start' = Start /\ Count' = Count
        /\ Mark(parsed, Len(parsed))' = Mark(parsed, Len(parsed))
    BY ItemsStay
  <1>2. QED
    BY <1>1 DEF Parsing, MoveTo, Slice

(* The cursor that parse begins with.                                      *)
LEMMA StartValid ==
  ASSUME DataOK
  PROVE  /\ Start \in [lo : Nat, len : Nat, pos : Nat]
         /\ Start.lo = 0 /\ Start.len = Len(data) /\ Start.pos = 0
         /\ Valid(Start) /\ Len(data) \in Nat /\ Here(Start) = 0
  <1>1. Len(data) \in Nat
    BY DEF DataOK
  <1>2. Start = [lo |-> 0, len |-> Len(data), pos |-> 0]
    BY <1>1 DEF Start, CursorNew, AllData, Slice
  <1>3. QED
    BY <1>1, <1>2 DEF Valid, Here

(* A cursor in the whole buffer.                                           *)
LEMMA InBuffer ==
  ASSUME DataOK, NEW p \in Nat, p <= Len(data)
  PROVE  /\ Valid(MoveTo(Start, p)) /\ Here(MoveTo(Start, p)) = p
         /\ MoveTo(Start, p).lo = 0 /\ MoveTo(Start, p).len = Len(data)
         /\ \A c : Valid(c) /\ c.lo = 0 /\ c.len = Len(data) /\ Here(c) = p =>
                   c = MoveTo(Start, p)
  <1>1. Start.lo = 0 /\ Start.len = Len(data) /\ Len(data) \in Nat
    BY StartValid
  <1>2. MoveTo(Start, p) = [lo |-> 0, len |-> Len(data), pos |-> p]
    BY <1>1 DEF MoveTo
  <1>3. Valid(MoveTo(Start, p)) /\ Here(MoveTo(Start, p)) = p
    BY <1>1, <1>2 DEF Valid, Here
  <1>4. SUFFICES ASSUME NEW c, Valid(c), c.lo = 0, c.len = Len(data), Here(c) = p
                 PROVE  c = [lo |-> 0, len |-> Len(data), pos |-> p]
    BY <1>2, <1>3
  <1>5. c.pos = p /\ c \in [lo : Nat, len : Nat, pos : Nat]
    BY <1>4 DEF Valid, Here
  <1>6. QED
    BY <1>4, <1>5

(* One more item behind those that parse has recorded.                     *)
LEMMA RecordedMore ==
  ASSUME DataOK, NEW ps, Recorded(ps),
         NEW r, r = WitnessItem(MoveTo(Start, Mark(ps, Len(ps)))), r.ok
  PROVE  /\ Recorded(Append(ps, r.val)) /\ Len(Append(ps, r.val)) = Len(ps) + 1
         /\ r.cur = MoveTo(Start, Mark(Append(ps, r.val), Len(ps) + 1))
         /\ Valid(r.cur) /\ r.cur.lo = 0
  <1> DEFINE n == Len(ps)
             m == Mark(ps, n)
             c == MoveTo(Start, m)
             qs == Append(ps, r.val)
  <1>1. /\ ps \in Seq(Spans) /\ n \in Nat /\ m \in Nat /\ m <= Len(data)
        /\ \A k \in 0 .. n : Mark(ps, k) \in Nat /\ Mark(ps, k) <= m
        /\ Len(data) \in Nat
    BY DEF Recorded, DataOK
  <1>2. Valid(c) /\ Here(c) = m /\ c.lo = 0 /\ c.len = Len(data)
    BY <1>1, InBuffer
  <1>3. Narrower(c, c)
    BY <1>1, <1>2 DEF Narrower, Valid
  <1>4. Onward(c, r) /\ (r.ok => r.val \in Spans /\ Here(c) < r.val.lo
                          /\ r.val.hi = Here(r.cur)
                          /\ r.val.hi - r.val.lo \in 0 .. MaxWitnessItemSize)
    BY <1>3, NarrowItem DEF Spans
  <1>5. /\ Valid(r.cur) /\ r.cur.lo = 0 /\ r.cur.len = Len(data)
        /\ r.val \in Spans /\ m < r.val.lo /\ r.val.hi = Here(r.cur)
        /\ r.val.lo \in Nat /\ r.val.hi \in Nat /\ r.val.hi - r.val.lo \in Nat
    BY <1>2, <1>4, WitnessAssumption DEF Onward, Spans
  <1>6. r.val.hi <= Len(data) /\ m <= r.val.hi
    BY <1>1, <1>5 DEF Valid, Here
  <1> HIDE DEF m
  <1>7. qs \in Seq(Spans) /\ Len(qs) = n + 1 /\ qs[n + 1] = r.val
        /\ \A k \in 1 .. n : qs[k] = ps[k]
    BY <1>1, <1>5
  <1> HIDE DEF qs
  <1>8. Mark(qs, n + 1) = r.val.hi /\ \A k \in 0 .. n : Mark(qs, k) = Mark(ps, k)
    BY SMTT(60), <1>1, <1>7 DEF Mark
  <1>9. r.cur = MoveTo(Start, r.val.hi)
    BY <1>5, <1>6, InBuffer
  <1>10. \A k \in 1 .. n + 1 :
           LET i == WitnessItem(MoveTo(Start, Mark(qs, k - 1)))
           IN  i.ok /\ i.val = qs[k] /\ Here(i.cur) = qs[k].hi
    <2>1. SUFFICES ASSUME NEW k \in 1 .. n + 1
                   PROVE  LET i == WitnessItem(MoveTo(Start, Mark(qs, k - 1)))
                          IN  i.ok /\ i.val = qs[k] /\ Here(i.cur) = qs[k].hi
      OBVIOUS
    <2>2. CASE k \in 1 .. n
      <3>1. k - 1 \in 0 .. n
        BY <1>1, <2>2
      <3>2. Mark(qs, k - 1) = Mark(ps, k - 1) /\ qs[k] = ps[k]
        BY <1>7, <1>8, <2>2, <3>1
      <3>3. QED
        BY <2>2, <3>2 DEF Recorded
    <2>3. CASE k = n + 1
      <3>1. k - 1 = n /\ n \in 0 .. n
        BY <1>1, <2>3
      <3>2. Mark(qs, k - 1) = m /\ qs[k] = r.val
        BY <1>7, <1>8, <2>3, <3>1 DEF m
      <3>3. QED
        BY <1>5, <3>2 DEF m
    <2>4. QED
      BY <1>1, <2>2, <2>3
  <1>11. \A k \in 0 .. n + 1 : Mark(qs, k) \in Nat /\ Mark(qs, k) <= Mark(qs, n + 1)
    <2>1. SUFFICES ASSUME NEW k \in 0 .. n + 1
                   PROVE  Mark(qs, k) \in Nat /\ Mark(qs, k) <= Mark(qs, n + 1)
      OBVIOUS
    <2>2. CASE k \in 0 .. n
      BY <1>1, <1>5, <1>6, <1>8, <2>2
    <2>3. CASE k = n + 1
      BY <1>5, <1>8, <2>3
    <2>4. QED
      BY <1>1, <2>2, <2>3
  <1>12. Recorded(qs)
    BY <1>1, <1>6, <1>7, <1>8, <1>10, <1>11 DEF Recorded
  <1>13. QED
    BY <1>5, <1>7, <1>8, <1>9, <1>12 DEF qs

(* Witness::parse has read the count.                                      *)
LEMMA ParseCountStep ==
  ASSUME IInv, ParseCount
  PROVE  IInv'
  <1>1. DataOK /\ DataOK' /\ stage = "empty" /\ data' = data /\ parsed = <<>> /\ ~ byHand
    BY DEF IInv, Stages, ParseCount, DataOK
  <1>2. PICK r : r = WitnessCount(Start)
    OBVIOUS
  <1>3. \/ r.ok /\ stage' = "parsing" /\ reading' = [cur |-> r.cur, left |-> r.val]
        \/ ~ r.ok /\ stage' = "refused" /\ reading' = reading
    BY <1>2 DEF ParseCount, Start
  <1>4. UNCHANGED <<data, made, iter, item, parsed, byHand, yielded>>
    BY DEF ParseCount
  <1>5. r = Count /\ Valid(Start)
    BY <1>1, <1>2, StartValid DEF Count
  <1>6. /\ Onward(Start, r)
        /\ r.ok => r.val \in 0 .. MaxWitnessItems /\ Here(Start) < Here(r.cur)
    <2>1. Narrower(Start, Start) /\ MaxWitnessItems \in Nat
      BY <1>1, StartValid, WitnessAssumption DEF Narrower
    <2>2. QED
      BY <1>1, <1>2, <2>1, NarrowCount DEF WitnessCount
  <1>7. ASSUME r.ok
        PROVE  /\ Valid(r.cur) /\ r.cur.lo = 0 /\ r.cur.len = Len(data)
               /\ Here(r.cur) \in Nat /\ Here(r.cur) <= Len(data)
               /\ r.cur = MoveTo(Start, Here(r.cur)) /\ r.val \in 0 .. MaxWitnessItems
    <2>1. Valid(r.cur) /\ r.cur.lo = 0 /\ r.cur.len = Len(data)
      BY <1>1, <1>6, <1>7, StartValid DEF Onward
    <2>2. Here(r.cur) \in Nat /\ Here(r.cur) <= Len(data)
      <3>1. Len(data) \in Nat
        BY <1>1, StartValid
      <3>2. r.cur.pos \in Nat /\ r.cur.pos <= r.cur.len
        BY <2>1 DEF Valid
      <3>3. QED
        BY <2>1, <3>1, <3>2 DEF Here
    <2>3. QED
      BY <1>1, <1>6, <1>7, <2>1, <2>2, InBuffer
  <1>8. Stages'
    <2>1. Valid(reading.cur)' /\ reading'.cur.lo = 0 /\ reading'.left \in 0 .. MaxWitnessItems
      <3>1. Valid(reading'.cur) /\ reading'.cur.lo = 0 /\ reading'.left \in 0 .. MaxWitnessItems
        <4>1. CASE r.ok
          BY <1>3, <1>7, <4>1
        <4>2. CASE ~ r.ok
          BY <1>3, <4>2 DEF IInv, Stages
        <4>3. QED
          BY <4>1, <4>2
      <3>2. QED
        BY <1>1, <3>1 DEF Valid
    <2>2. QED
      BY <1>1, <1>3, <1>4, <2>1 DEF IInv, Stages
  <1>9. Parsing'
    <2>1. CASE ~ r.ok
      BY <1>3, <2>1 DEF Parsing, FromParse
    <2>2. CASE r.ok
      <3>1. Mark(parsed, 0) = Here(r.cur) /\ Len(parsed) = 0 /\ Count.ok
        BY <1>1, <1>5, <2>2 DEF Mark
      <3>2. Recorded(parsed)
        BY <1>1, <1>7, <2>2, <3>1 DEF Recorded
      <3>3. /\ reading' = [cur |-> r.cur, left |-> r.val]
            /\ r.cur = MoveTo(Start, Mark(parsed, Len(parsed)))
            /\ Len(parsed) + r.val = Count.val /\ stage' = "parsing"
        BY <1>3, <1>5, <1>7, <2>2, <3>1
      <3>4. /\ reading'.cur = MoveTo(Start, Mark(parsed, Len(parsed)))
            /\ Len(parsed) + reading'.left = Count.val
        BY <3>3
      <3>5. /\ Recorded(parsed)'
            /\ (reading.cur = MoveTo(Start, Mark(parsed, Len(parsed))))'
            /\ (Len(parsed) + reading.left = Count.val)'
        BY <1>1, <1>4, <3>2, <3>4, ItemsStay DEF MoveTo
      <3>6. QED
        BY <3>3, <3>5 DEF Parsing
    <2>3. QED
      BY <2>1, <2>2
  <1>10. Ordered' /\ Replayed'
    BY <1>3 DEF Ordered, Replayed
  <1>11. QED
    BY <1>8, <1>9, <1>10 DEF IInv

(* Witness::parse has read an item.                                        *)
LEMMA ParseItemStep ==
  ASSUME IInv, ParseItem
  PROVE  IInv'
  <1>1. /\ DataOK /\ DataOK' /\ stage = "parsing" /\ data' = data /\ ~ byHand
        /\ Recorded(parsed) /\ reading.cur = MoveTo(Start, Mark(parsed, Len(parsed)))
        /\ Len(parsed) + reading.left = Count.val
        /\ reading.left > 0 /\ reading.left \in 0 .. MaxWitnessItems
    BY DEF IInv, Stages, Parsing, FromParse, ParseItem, DataOK
  <1>2. PICK r : r = WitnessItem(reading.cur)
    OBVIOUS
  <1>3. \/ /\ r.ok /\ reading' = [cur |-> r.cur, left |-> reading.left - 1]
           /\ parsed' = Append(parsed, r.val) /\ stage' = stage
        \/ ~ r.ok /\ stage' = "refused" /\ reading' = reading /\ parsed' = parsed
    BY <1>2 DEF ParseItem
  <1>4. UNCHANGED <<data, made, iter, item, byHand, yielded>>
    BY DEF ParseItem
  <1>5. ASSUME r.ok
        PROVE  /\ Recorded(Append(parsed, r.val))
               /\ Len(Append(parsed, r.val)) = Len(parsed) + 1
               /\ r.cur = MoveTo(Start, Mark(Append(parsed, r.val), Len(parsed) + 1))
               /\ Valid(r.cur) /\ r.cur.lo = 0
    BY <1>1, <1>2, <1>5, RecordedMore
  <1>6. Stages'
    <2>1. /\ Valid(reading'.cur) /\ reading'.cur.lo = 0
          /\ reading'.left \in 0 .. MaxWitnessItems
      <3>1. CASE r.ok
        <4>1. reading' = [cur |-> r.cur, left |-> reading.left - 1]
          BY <1>3, <3>1
        <4>2. MaxWitnessItems \in Nat
          BY WitnessAssumption
        <4>3. QED
          BY <1>1, <1>5, <3>1, <4>1, <4>2
      <3>2. CASE ~ r.ok
        BY <1>3, <3>2 DEF IInv, Stages
      <3>3. QED
        BY <3>1, <3>2
    <2>2. Valid(reading.cur)'
      BY <1>1, <2>1 DEF Valid
    <2>3. stage' \in {"parsing", "refused"}
      BY <1>1, <1>3
    <2>4. QED
      BY <1>1, <1>4, <2>1, <2>2, <2>3 DEF IInv, Stages
  <1>7. Parsing'
    <2>1. CASE ~ r.ok
      BY <1>3, <2>1 DEF Parsing, FromParse
    <2>2. CASE r.ok
      <3>1. PICK qs : qs = Append(parsed, r.val)
        OBVIOUS
      <3>2. /\ parsed' = qs /\ stage' = "parsing"
            /\ reading' = [cur |-> r.cur, left |-> reading.left - 1]
            /\ Recorded(qs) /\ Len(qs) = Len(parsed) + 1
            /\ r.cur = MoveTo(Start, Mark(qs, Len(parsed) + 1))
        BY <1>1, <1>3, <1>5, <2>2, <3>1
      <3>3. Len(parsed) \in Nat
        BY <1>1 DEF Recorded
      <3>4. /\ reading'.cur = MoveTo(Start, Mark(qs, Len(qs)))
            /\ Len(qs) + reading'.left = Count.val
        BY <1>1, <3>2, <3>3
      <3>5. /\ Recorded(parsed)'
            /\ (reading.cur = MoveTo(Start, Mark(parsed, Len(parsed))))'
            /\ (Len(parsed) + reading.left = Count.val)'
        <4>1. /\ \A ps : Recorded(ps)' <=> Recorded(ps)
              /\ \A ps, k : Mark(ps, k)' = Mark(ps, k)
              /\ Start' = Start /\ Count' = Count
          BY <1>1, ItemsStay
        <4>2. QED
          BY <3>2, <3>4, <4>1 DEF MoveTo
      <3>6. QED
        BY <3>2, <3>5 DEF Parsing
    <2>3. QED
      BY <2>1, <2>2
  <1>8. stage' # "iterating"
    BY <1>1, <1>3
  <1>9. Ordered' /\ Replayed'
    BY <1>8 DEF Ordered, Replayed
  <1>10. QED
    BY <1>6, <1>7, <1>9 DEF IInv

(* Witness::parse has read all, and answers the witness.                   *)
LEMMA ParseEndStep ==
  ASSUME IInv, ParseEnd
  PROVE  IInv'
  <1>1. /\ DataOK /\ stage = "parsing" /\ ~ byHand /\ Recorded(parsed)
        /\ reading.cur = MoveTo(Start, Mark(parsed, Len(parsed)))
        /\ Len(parsed) + reading.left = Count.val /\ reading.left = 0
        /\ iter.left = 0 /\ item = NotYet /\ yielded = <<>>
    <2>1. stage = "parsing" /\ reading.left = 0
      BY DEF ParseEnd
    <2>2. QED
      BY <2>1 DEF IInv, Stages, Parsing, FromParse, ParseEnd
  <1>2. /\ stage' = "made"
        /\ made' = [raw |-> Slice(0, reading.cur.pos), count |-> Len(parsed)]
        /\ UNCHANGED <<data, reading, iter, item, parsed, byHand, yielded>>
    BY DEF ParseEnd
  <1>3. PICK m : m = Mark(parsed, Len(parsed))
    OBVIOUS
  <1>4. m \in Nat /\ m <= Len(data) /\ Len(parsed) \in Nat
    BY <1>1, <1>3 DEF Recorded
  <1>5. reading.cur.pos = m
    BY <1>1, <1>3 DEF MoveTo
  <1>6. made'.raw = [lo |-> 0, hi |-> m] /\ made'.count = Len(parsed)
    BY <1>2, <1>5 DEF Slice
  <1>7. Len(parsed) <= UsizeMax /\ UsizeMax \in Nat
    <2>1. Narrower(Start, Start) /\ MaxWitnessItems \in Nat
      BY <1>1, StartValid, WitnessAssumption DEF Narrower
    <2>2. Count.ok => Count.val <= UsizeMax
      BY <1>1, <2>1, NarrowCount DEF WitnessCount, Count
    <2>3. Len(parsed) = Count.val /\ Count.ok
      BY <1>1, <1>4 DEF Recorded
    <2>4. QED
      BY <2>2, <2>3, CursorAssumption
  <1>8. Stages'
    <2>1. /\ made'.raw \in Spans /\ made'.raw.lo <= made'.raw.hi
          /\ made'.raw.hi <= Len(data) /\ made'.count \in 0 .. UsizeMax
      BY <1>4, <1>6, <1>7 DEF Spans
    <2>2. Valid(reading.cur)'
      BY <1>2 DEF IInv, Stages, Valid
    <2>3. DataOK'
      BY <1>1, <1>2 DEF DataOK
    <2>4. iter'.left \in 0 .. made'.count
      BY <1>1, <1>2, <1>4, <1>6
    <2>5. Spans' = Spans
      BY DEF Spans
    <2>6. QED
      BY <1>1, <1>2, <2>1, <2>2, <2>3, <2>4, <2>5 DEF IInv, Stages
  <1>9. Parsing'
    <2>1. /\ Recorded(parsed)' <=> Recorded(parsed)
          /\ Start' = Start /\ Count' = Count
          /\ Mark(parsed, Len(parsed))' = Mark(parsed, Len(parsed))
      BY <1>2, ItemsStay
    <2>2. made'.raw = Slice(0, Mark(parsed, Len(parsed))) /\ made'.count = Len(parsed)
      BY <1>3, <1>6 DEF Slice
    <2>3. QED
      BY <1>1, <1>2, <2>1, <2>2 DEF Parsing, MoveTo, Slice
  <1>10. Ordered' /\ Replayed'
    BY <1>2 DEF Ordered, Replayed
  <1>11. QED
    BY <1>8, <1>9, <1>10 DEF IInv

(* A witness is put together by hand.                                      *)
LEMMA ByHandStep ==
  ASSUME IInv, ByHand
  PROVE  IInv'
  <1>1. /\ DataOK /\ stage = "empty"
        /\ iter.left \in 0 .. made.count /\ iter.left = 0 /\ item = NotYet /\ yielded = <<>>
    BY DEF IInv, Stages, ByHand
  <1>2. /\ stage' = "made" /\ byHand' = TRUE
        /\ UNCHANGED <<data, reading, iter, item, parsed, yielded>>
    BY DEF ByHand
  <1>3. PICK hi \in 0 .. Len(data), n \in HandCounts :
          \E lo \in 0 .. hi : made' = [raw |-> Slice(lo, hi), count |-> n]
    BY DEF ByHand
  <1>4. PICK lo \in 0 .. hi : made' = [raw |-> Slice(lo, hi), count |-> n]
    BY <1>3
  <1>5. n \in 0 .. UsizeMax
    BY WitnessIterAssumption
  <1>6. made'.raw = [lo |-> lo, hi |-> hi] /\ made'.count = n
    BY <1>4 DEF Slice
  <1>7. /\ made'.raw \in Spans /\ made'.raw.lo <= made'.raw.hi
        /\ made'.raw.hi <= Len(data) /\ made'.count \in 0 .. UsizeMax
    BY <1>1, <1>5, <1>6 DEF Spans, DataOK
  <1>8. Valid(reading.cur)'
    BY <1>2 DEF IInv, Stages, Valid
  <1>9. DataOK'
    BY <1>1, <1>2 DEF DataOK
  <1>10. iter'.left \in 0 .. made'.count
    BY <1>1, <1>2, <1>5, <1>6
  <1>11. Spans' = Spans
    BY DEF Spans
  <1>12. Stages'
    BY <1>1, <1>2, <1>7, <1>8, <1>9, <1>10, <1>11 DEF IInv, Stages
  <1>13. Parsing' /\ Ordered' /\ Replayed'
    BY <1>2 DEF Parsing, FromParse, Ordered, Replayed
  <1>14. QED
    BY <1>12, <1>13 DEF IInv

(* Where the iterator begins: in the witness, and behind the count.        *)
LEMMA BehindCountLemma ==
  ASSUME DataOK, NEW s \in Spans, s.lo <= s.hi, s.hi <= Len(data)
  PROVE  LET c == CursorNew(BehindCount(s)) IN
         /\ Valid(c) /\ s.lo <= c.lo /\ c.lo + c.len = s.hi
         /\ (s.lo = 0 /\ Count.ok /\ Here(Count.cur) <= s.hi) => Here(c) = Here(Count.cur)
  <1> DEFINE d == CursorNew(s)
             v == ReadVarint(d)
             c == CursorNew(BehindCount(s))
  <1>1. s.lo \in Nat /\ s.hi \in Nat /\ Len(data) \in Nat
    BY DEF Spans, DataOK
  <1>2. /\ d.lo = s.lo /\ d.len = s.hi - s.lo /\ d.pos = 0
        /\ d \in [lo : Nat, len : Nat, pos : Nat]
    BY <1>1 DEF CursorNew
  <1>3. Valid(d) /\ Here(d) = s.lo
    BY <1>1, <1>2 DEF Valid, Here
  <1> HIDE DEF d
  <1>4. /\ v.cur \in [lo : Nat, len : Nat, pos : Nat]
        /\ v.cur.lo = s.lo /\ v.cur.len = s.hi - s.lo /\ v.cur.pos <= s.hi - s.lo
    BY <1>2, <1>3, ReadVarintLemma DEF Reads, Forward
  <1>5. PICK e : e = v.cur
    OBVIOUS
  <1>6. /\ e.pos \in Nat /\ e.lo = s.lo /\ e.len = s.hi - s.lo /\ e.pos <= s.hi - s.lo
    BY <1>4, <1>5
  <1>7. BehindCount(s) = [lo |-> s.lo + e.pos, hi |-> s.hi]
    <2>1. s.lo + (s.hi - s.lo) = s.hi
      BY <1>1
    <2>2. QED
      BY <1>5, <1>6, <2>1 DEF BehindCount, AsSlice, Slice, d
  <1>8. c = [lo |-> s.lo + e.pos, len |-> s.hi - (s.lo + e.pos), pos |-> 0]
    BY <1>7 DEF CursorNew
  <1>9. Valid(c) /\ s.lo <= c.lo /\ c.lo + c.len = s.hi /\ Here(c) = s.lo + e.pos
    BY <1>1, <1>6, <1>8 DEF Valid, Here
  <1>10. ASSUME s.lo = 0, Count.ok, Here(Count.cur) <= s.hi
         PROVE  s.lo + e.pos = Here(Count.cur)
    <2>1. Narrower(d, Start)
      BY <1>1, <1>2, <1>3, <1>10, StartValid DEF Narrower
    <2>2. Count = ReadVarint(Start) /\ ReadVarint(Start).ok
      BY <1>10 DEF Count, WitnessCount, CountRead, Capped, ToUsize, Fail, Result
    <2>3. SameAs(v, d, Count)
      BY <2>1, <2>2, NarrowVarint
    <2>4. v.cur = MoveTo(d, Here(Count.cur) - d.lo)
      BY <1>1, <1>2, <1>10, <2>3 DEF SameAs
    <2>5. Onward(Start, Count)
      BY <2>1, NarrowCount, WitnessAssumption DEF Count, WitnessCount
    <2>6. Here(Count.cur) \in Nat
      BY <1>10, <2>5, HereType DEF Onward
    <2>7. e.pos = Here(Count.cur) - 0
      BY <1>2, <1>5, <1>10, <2>4 DEF MoveTo
    <2>8. QED
      BY <1>10, <2>6, <2>7
  <1> HIDE DEF c
  <1>11. QED
    BY <1>9, <1>10 DEF c

(* items() makes an iterator over the witness.                             *)
LEMMA ItemsStep ==
  ASSUME IInv, Items
  PROVE  IInv'
  <1>1. /\ DataOK /\ stage = "made"
        /\ made.raw \in Spans /\ made.raw.lo <= made.raw.hi /\ made.raw.hi <= Len(data)
        /\ made.count \in 0 .. UsizeMax /\ item = NotYet /\ yielded = <<>>
    BY DEF IInv, Stages, Items
  <1>2. PICK c : c = CursorNew(BehindCount(made.raw))
    OBVIOUS
  <1>3. /\ stage' = "iterating" /\ iter' = [cur |-> c, left |-> made.count]
        /\ UNCHANGED <<data, reading, made, item, parsed, byHand, yielded>>
    BY <1>2 DEF Items
  <1>4. /\ Valid(c) /\ made.raw.lo <= c.lo /\ c.lo + c.len = made.raw.hi
        /\ (made.raw.lo = 0 /\ Count.ok /\ Here(Count.cur) <= made.raw.hi)
              => Here(c) = Here(Count.cur)
    BY <1>1, <1>2, BehindCountLemma
  <1>5. iter'.cur = c /\ iter'.left = made.count
    BY <1>3
  <1>6. Stages'
    <2>1. Valid(reading.cur)' /\ DataOK'
      BY <1>1, <1>3 DEF IInv, Stages, Valid, DataOK
    <2>2. iter'.left \in 0 .. made'.count /\ Spans' = Spans
      BY <1>1, <1>3, <1>5 DEF Spans
    <2>3. QED
      BY <1>1, <1>3, <2>1, <2>2 DEF IInv, Stages
  <1>7. Parsing'
    BY <1>1, <1>3, ParsingStays DEF IInv, FromParse
  <1>8. Ordered'
    <2>1. Valid(iter.cur)'
      BY <1>3, <1>4, <1>5 DEF Valid
    <2>2. Len(yielded) = 0 /\ yielded \in Seq(Spans)' /\ item # End /\ made.count \in Nat
      <3>1. item.kind = "not yet" /\ End.kind = "end"
        BY <1>1 DEF NotYet, End
      <3>2. item # End
        BY <3>1
      <3>3. Len(yielded) = 0 /\ yielded \in Seq(Spans)' /\ made.count \in Nat
        BY <1>1
      <3>4. QED
        BY <3>2, <3>3
    <2>3. QED
      BY <1>3, <1>4, <1>5, <2>1, <2>2 DEF Ordered
  <1>9. Replayed'
    <2>1. SUFFICES ASSUME ~ byHand
                   PROVE  Replayed'
      BY <1>3 DEF Replayed
    <2>2. /\ Recorded(parsed) /\ made.raw = Slice(0, Mark(parsed, Len(parsed)))
          /\ made.count = Len(parsed)
      BY <1>1, <2>1 DEF IInv, Parsing, FromParse
    <2>3. Mark(parsed, 0) = Here(Count.cur) /\ Mark(parsed, 0) <= Mark(parsed, Len(parsed))
          /\ Count.ok /\ Len(parsed) \in Nat
      BY <2>2 DEF Recorded, Mark
    <2>4. Here(c) = Mark(parsed, 0)
      BY <1>4, <2>2, <2>3 DEF Slice
    <2>5. Mark(parsed, 0)' = Mark(parsed, 0)
      BY <1>3, ItemsStay
    <2>6. Here(iter.cur)' = Here(c) /\ Len(yielded') = 0 /\ yielded' = <<>>
      BY <1>1, <1>3, <1>5 DEF Here
    <2>7. Mark(parsed, Len(yielded))' = Mark(parsed, 0)
      BY <1>3, <2>6, ItemsStay
    <2>8. item'.kind # "error"
      BY <1>1, <1>3 DEF NotYet
    <2>9. Len(yielded') + iter'.left = Len(parsed')
      BY <1>3, <1>5, <2>2, <2>3, <2>6
    <2>10. QED
      BY <2>4, <2>6, <2>7, <2>8, <2>9 DEF Replayed
  <1>10. QED
    BY <1>6, <1>7, <1>8, <1>9 DEF IInv

(* What parse has recorded, next reads again: the item behind the first j. *)
LEMMA NextRecorded ==
  ASSUME DataOK, NEW ps, Recorded(ps), NEW j \in Nat, j < Len(ps),
         NEW d, Valid(d), Here(d) = Mark(ps, j), d.lo + d.len = Mark(ps, Len(ps)),
         NEW r, r = WitnessItem(d)
  PROVE  r.ok /\ r.val = ps[j + 1] /\ Here(r.cur) = Mark(ps, j + 1)
  <1> DEFINE n == Len(ps)
             c == MoveTo(Start, Mark(ps, j))
             q == WitnessItem(c)
  <1>1. n \in Nat /\ j \in 0 .. n /\ j + 1 \in 1 .. n /\ j + 1 \in 0 .. n /\ Len(data) \in Nat
    BY DEF Recorded, DataOK
  <1>2. /\ Mark(ps, j) \in Nat /\ Mark(ps, j) <= Len(data)
        /\ Mark(ps, j + 1) \in Nat /\ Mark(ps, j + 1) <= Mark(ps, n)
        /\ Mark(ps, n) \in Nat /\ Mark(ps, n) <= Len(data)
    BY <1>1 DEF Recorded
  <1>3. Valid(c) /\ Here(c) = Mark(ps, j) /\ c.lo = 0 /\ c.len = Len(data)
    BY <1>2, InBuffer
  <1>4. Narrower(d, c)
    BY <1>1, <1>2, <1>3 DEF Narrower
  <1>5. q.ok /\ q.val = ps[j + 1] /\ Here(q.cur) = ps[j + 1].hi
    <2>1. (j + 1) - 1 = j
      OBVIOUS
    <2>2. QED
      BY <1>1, <2>1 DEF Recorded
  <1>6. Mark(ps, j + 1) = ps[j + 1].hi
    BY DEF Mark
  <1>7. SameAs(r, d, q) /\ Onward(c, q)
    BY <1>4, NarrowItem
  <1> HIDE DEF q, c
  <1>8. r.ok /\ r.val = q.val /\ Narrower(r.cur, q.cur)
    BY <1>2, <1>4, <1>5, <1>6, <1>7, NarrowRest
  <1>9. QED
    BY <1>5, <1>6, <1>8 DEF Narrower

(* The cursor of the iterator moves forward, also when next fails.         *)
LEMMA ItemForward ==
  ASSUME DataOK, NEW c, Valid(c), NEW r, r = WitnessItem(c)
  PROVE  /\ Valid(r.cur) /\ r.cur.lo = c.lo /\ r.cur.len = c.len
         /\ Here(c) <= Here(r.cur) /\ Here(c) \in Nat /\ Here(r.cur) \in Nat
         /\ c.lo <= Here(c)
         /\ r.ok => /\ r.val \in Spans /\ Here(c) < r.val.lo /\ r.val.hi = Here(r.cur)
                    /\ r.val.hi - r.val.lo \in 0 .. MaxWitnessItemSize
  <1>1. MaxWitnessItemSize \in Nat
    BY WitnessAssumption
  <1>2. Forward(c, r)
    BY <1>1, ReadVarBytesLemma DEF WitnessItem, Reads
  <1>3. /\ c.lo \in Nat /\ c.len \in Nat /\ c.pos \in Nat /\ c.lo + c.len <= Len(data)
    BY ValidFields
  <1>4. /\ r.cur.pos \in Nat /\ c.pos <= r.cur.pos /\ r.cur.pos <= c.len
        /\ r.cur.lo = c.lo /\ r.cur.len = c.len /\ r.cur \in [lo : Nat, len : Nat, pos : Nat]
    BY <1>2 DEF Forward
  <1>5. Valid(r.cur)
    BY <1>3, <1>4 DEF Valid
  <1>6. Narrower(c, c)
    BY <1>3 DEF Narrower
  <1>7. r.ok => /\ r.val \in Spans /\ Here(c) < r.val.lo /\ r.val.hi = Here(r.cur)
                /\ r.val.hi - r.val.lo \in 0 .. MaxWitnessItemSize
    BY <1>6, NarrowItem DEF Spans
  <1>8. QED
    BY <1>3, <1>4, <1>5, <1>7 DEF Here

(* next has read an item, or found that it cannot.                         *)
LEMMA NextItemStep ==
  ASSUME IInv, NextItem
  PROVE  IInv'
  <1>1. /\ DataOK /\ stage = "iterating" /\ iter.left > 0 /\ item = NotYet
        /\ iter.left \in 0 .. made.count /\ made.count \in Nat
        /\ made.raw \in Spans /\ made.raw.lo \in Nat /\ made.raw.hi \in Nat
    BY CursorAssumption DEF IInv, Stages, NextItem, Spans
  <1>2. /\ Valid(iter.cur) /\ made.raw.lo <= iter.cur.lo
        /\ iter.cur.lo + iter.cur.len = made.raw.hi
        /\ yielded \in Seq(Spans) /\ Len(yielded) \in Nat
        /\ Len(yielded) + iter.left <= made.count
        /\ \A k \in 1 .. Len(yielded) :
              /\ yielded[k].lo > IF k = 1 THEN made.raw.lo ELSE yielded[k - 1].hi
              /\ yielded[k].hi <= Here(iter.cur)
              /\ yielded[k].hi - yielded[k].lo \in 0 .. MaxWitnessItemSize
    BY <1>1 DEF IInv, Ordered
  <1>3. PICK r : r = WitnessItem(iter.cur)
    OBVIOUS
  <1>4. /\ iter' = [cur |-> r.cur, left |-> iter.left - 1]
        /\ item' = Answer(r)
        /\ yielded' = IF r.ok THEN Append(yielded, r.val) ELSE yielded
        /\ UNCHANGED <<data, stage, reading, made, parsed, byHand>>
    BY <1>3 DEF NextItem, CountOff
  <1>5. /\ Valid(r.cur) /\ r.cur.lo = iter.cur.lo /\ r.cur.len = iter.cur.len
        /\ Here(iter.cur) <= Here(r.cur) /\ Here(iter.cur) \in Nat /\ Here(r.cur) \in Nat
        /\ iter.cur.lo <= Here(iter.cur)
        /\ r.ok => /\ r.val \in Spans /\ Here(iter.cur) < r.val.lo /\ r.val.hi = Here(r.cur)
                   /\ r.val.hi - r.val.lo \in 0 .. MaxWitnessItemSize
    BY <1>1, <1>2, <1>3, ItemForward
  <1>6. iter'.cur = r.cur /\ iter'.left = iter.left - 1
    BY <1>4
  <1>7. item' # End
    <2>1. item'.kind \in {"item", "error"} /\ End.kind = "end"
      BY <1>4 DEF Answer, Item, Error, End
    <2>2. QED
      BY <2>1
  <1>8. Stages'
    <2>1. Valid(reading.cur)' /\ DataOK'
      BY <1>1, <1>4 DEF IInv, Stages, Valid, DataOK
    <2>2. iter'.left \in 0 .. made'.count /\ Spans' = Spans /\ stage' = "iterating"
      BY <1>1, <1>4, <1>6 DEF Spans
    <2>3. QED
      BY <1>1, <1>4, <2>1, <2>2 DEF IInv, Stages
  <1>9. Parsing'
    BY <1>1, <1>4, ParsingStays DEF IInv, FromParse
  <1>10. Ordered'
    <2>1. Valid(iter.cur)' /\ Here(iter.cur)' = Here(r.cur)
      BY <1>4, <1>5, <1>6 DEF Valid, Here
    <2>2. PICK ys : ys = yielded'
      OBVIOUS
    <2>3. /\ ys \in Seq(Spans) /\ Len(ys) + (iter.left - 1) <= made.count
          /\ \A k \in 1 .. Len(ys) :
               /\ ys[k].lo > IF k = 1 THEN made.raw.lo ELSE ys[k - 1].hi
               /\ ys[k].hi <= Here(r.cur)
               /\ ys[k].hi - ys[k].lo \in 0 .. MaxWitnessItemSize
      <3>0. \A k \in 1 .. Len(yielded) : yielded[k].hi \in Nat /\ yielded[k].hi <= Here(r.cur)
        <4>1. SUFFICES ASSUME NEW k \in 1 .. Len(yielded)
                       PROVE  yielded[k].hi \in Nat /\ yielded[k].hi <= Here(r.cur)
          OBVIOUS
        <4>2. yielded[k] \in Spans
          BY <1>2
        <4>3. QED
          BY <1>2, <1>5, <4>2 DEF Spans
      <3>1. CASE ~ r.ok
        <4>1. ys = yielded
          BY <1>4, <2>2, <3>1
        <4>2. QED
          BY <1>1, <1>2, <3>0, <4>1
      <3>2. CASE r.ok
        <4>1. ys = Append(yielded, r.val)
          BY <1>4, <2>2, <3>2
        <4>2. /\ ys \in Seq(Spans) /\ Len(ys) = Len(yielded) + 1 /\ ys[Len(yielded) + 1] = r.val
              /\ \A k \in 1 .. Len(yielded) : ys[k] = yielded[k]
          BY <1>2, <1>5, <3>2, <4>1
        <4>3. Len(ys) + (iter.left - 1) <= made.count
          BY <1>1, <1>2, <4>2
        <4>4. ASSUME NEW k \in 1 .. Len(ys)
              PROVE  /\ ys[k].lo > IF k = 1 THEN made.raw.lo ELSE ys[k - 1].hi
                     /\ ys[k].hi <= Here(r.cur)
                     /\ ys[k].hi - ys[k].lo \in 0 .. MaxWitnessItemSize
          <5>1. CASE k \in 1 .. Len(yielded)
            <6>1. k # 1 => k - 1 \in 1 .. Len(yielded)
              BY <1>2, <5>1
            <6>2. QED
              BY <1>2, <3>0, <4>2, <5>1, <6>1
          <5>2. CASE k = Len(yielded) + 1
            <6>1. ys[k] = r.val /\ r.val.lo \in Nat /\ r.val.hi \in Nat
              BY <1>5, <3>2, <4>2, <5>2 DEF Spans
            <6>2. r.val.lo > made.raw.lo
              <7>1. iter.cur.lo \in Nat
                BY <1>2 DEF Valid
              <7>2. QED
                BY SMTT(60), <1>1, <1>2, <1>5, <3>2, <6>1, <7>1
            <6>3. k # 1 => r.val.lo > ys[k - 1].hi
              <7>1. SUFFICES ASSUME k # 1
                             PROVE  r.val.lo > ys[k - 1].hi
                OBVIOUS
              <7>2. k - 1 \in 1 .. Len(yielded)
                BY <1>2, <5>2, <7>1
              <7>3. ys[k - 1].hi <= Here(iter.cur) /\ ys[k - 1].hi \in Nat
                BY <1>2, <3>0, <4>2, <7>2
              <7>4. QED
                BY <1>5, <3>2, <6>1, <7>3
            <6>4. QED
              BY <1>5, <3>2, <6>1, <6>2, <6>3
          <5>3. QED
            BY <1>2, <4>2, <5>1, <5>2
        <4>5. QED
          BY <4>2, <4>3, <4>4
      <3>3. QED
        BY <3>1, <3>2
    <2>4. Seq(Spans)' = Seq(Spans)
      BY DEF Spans
    <2>5. iter'.cur.lo = iter.cur.lo /\ iter'.cur.len = iter.cur.len
      BY <1>5, <1>6
    <2>6. QED
      BY <1>2, <1>4, <1>6, <1>7, <2>1, <2>2, <2>3, <2>4, <2>5 DEF Ordered
  <1>11. Replayed'
    <2>1. SUFFICES ASSUME ~ byHand
                   PROVE  Replayed'
      BY <1>4 DEF Replayed
    <2>2. /\ Recorded(parsed) /\ made.raw = Slice(0, Mark(parsed, Len(parsed)))
          /\ Len(parsed) \in Nat
      BY <1>1, <2>1 DEF IInv, Parsing, FromParse, Recorded
    <2>3. /\ Len(yielded) + iter.left = Len(parsed)
          /\ \A k \in 1 .. Len(yielded) : yielded[k] = parsed[k]
          /\ Here(iter.cur) = Mark(parsed, Len(yielded))
      BY <1>1, <2>1 DEF IInv, Replayed
    <2>4. PICK j : j = Len(yielded)
      OBVIOUS
    <2>5. j \in Nat /\ j < Len(parsed)
      BY <1>1, <1>2, <2>2, <2>3, <2>4
    <2>6. iter.cur.lo + iter.cur.len = Mark(parsed, Len(parsed))
      BY <1>2, <2>2 DEF Slice
    <2>7. r.ok /\ r.val = parsed[j + 1] /\ Here(r.cur) = Mark(parsed, j + 1)
      BY <1>1, <1>2, <1>3, <2>2, <2>3, <2>4, <2>5, <2>6, NextRecorded
    <2>8. PICK ys : ys = yielded'
      OBVIOUS
    <2>9. /\ Len(ys) = j + 1 /\ ys[j + 1] = parsed[j + 1]
          /\ \A k \in 1 .. j : ys[k] = yielded[k]
      BY <1>2, <1>4, <1>5, <2>4, <2>7, <2>8
    <2>10. Len(ys) + (iter.left - 1) = Len(parsed)
      BY <1>1, <2>3, <2>4, <2>5, <2>9
    <2>11. \A k \in 1 .. Len(ys) : ys[k] = parsed[k]
      <3>1. SUFFICES ASSUME NEW k \in 1 .. j + 1
                     PROVE  ys[k] = parsed[k]
        BY <2>9
      <3>2. CASE k \in 1 .. j
        BY <2>3, <2>4, <2>9, <3>2
      <3>3. CASE k = j + 1
        BY <2>9, <3>3
      <3>4. QED
        BY <2>5, <3>2, <3>3
    <2>12. Mark(parsed, Len(yielded))' = Mark(parsed, j + 1)
      <3>1. \A ps, k : Mark(ps, k)' = Mark(ps, k)
        BY <1>4, ItemsStay
      <3>2. Len(yielded') = j + 1 /\ parsed' = parsed
        BY <1>4, <2>8, <2>9
      <3>3. QED
        BY <3>1, <3>2
    <2>13. Here(iter.cur)' = Here(r.cur)
      BY <1>6 DEF Here
    <2>14. item'.kind # "error"
      BY <1>4, <2>7 DEF Answer, Item
    <2>15. QED
      BY <1>4, <1>6, <2>7, <2>8, <2>10, <2>11, <2>12, <2>13, <2>14 DEF Replayed
  <1>12. QED
    BY <1>8, <1>9, <1>10, <1>11 DEF IInv

(* A step that changes nothing but the answer the loop is to use.          *)
LEMMA AnswerStep ==
  ASSUME IInv, UNCHANGED <<data, stage, reading, made, iter, parsed, byHand, yielded>>,
         \/ item' = item
         \/ item' = NotYet
         \/ item' = End /\ iter.left = 0 /\ stage = "iterating"
  PROVE  IInv'
  <1>1. item'.kind # "error" \/ item' = item
    <2>1. NotYet.kind = "not yet" /\ End.kind = "end"
      BY DEF NotYet, End
    <2>2. CASE item' = item
      BY <2>2
    <2>3. CASE item' = NotYet
      BY <2>1, <2>3
    <2>4. CASE item' = End
      BY <2>1, <2>4
    <2>5. QED
      BY <2>2, <2>3, <2>4
  <1>2. item' = End => item = End \/ (iter.left = 0 /\ stage = "iterating")
    <2>1. NotYet.kind = "not yet" /\ End.kind = "end"
      BY DEF NotYet, End
    <2>2. NotYet # End
      BY <2>1
    <2>3. QED
      BY <2>2
  <1>3. Stages'
    <2>1. Valid(reading.cur)' /\ DataOK' /\ Spans' = Spans
      BY DEF IInv, Stages, Valid, DataOK, Spans
    <2>2. stage # "iterating" => item' = NotYet
      BY DEF IInv, Stages
    <2>3. QED
      BY <2>1, <2>2 DEF IInv, Stages
  <1>4. Parsing'
    BY ParsingStays DEF IInv, FromParse
  <1>5. Ordered'
    <2>1. Valid(iter.cur)' <=> Valid(iter.cur)
      BY DEF Valid
    <2>2. Here(iter.cur)' = Here(iter.cur) /\ Seq(Spans)' = Seq(Spans)
      BY DEF Here, Spans
    <2>3. QED
      BY <1>2, <2>1, <2>2 DEF IInv, Ordered
  <1>6. Replayed'
    <2>1. Mark(parsed, Len(yielded))' = Mark(parsed, Len(yielded))
      BY ItemsStay
    <2>2. Here(iter.cur)' = Here(iter.cur)
      BY DEF Here
    <2>3. QED
      BY <1>1, <2>1, <2>2 DEF IInv, Replayed
  <1>7. QED
    BY <1>3, <1>4, <1>5, <1>6 DEF IInv

(* Nothing has been read yet.                                              *)
LEMMA InitInvariant == Init => IInv
  <1> SUFFICES ASSUME Init
               PROVE  IInv
    OBVIOUS
  <1>1. DataOK /\ Len(data) \in Nat
    BY WitnessIterAssumption DEF Init, DataOK
  <1>2. NoReading.cur = [lo |-> 0, len |-> 0, pos |-> 0] /\ NoReading.left = 0
    BY DEF NoReading, CursorNew, Slice
  <1>3. Valid(NoReading.cur) /\ NoReading.cur.lo = 0
    BY <1>1, <1>2 DEF Valid
  <1>4. NothingMade.raw = [lo |-> 0, hi |-> 0] /\ NothingMade.count = 0
    BY DEF NothingMade, Slice
  <1>5. NothingMade.raw \in Spans
    BY <1>4 DEF Spans
  <1>6. Stages
    <2>1. reading.cur = NoReading.cur /\ reading.left = 0 /\ iter.left = 0
      BY <1>2 DEF Init
    <2>2. made.raw = NothingMade.raw /\ made.count = 0
      BY <1>4 DEF Init
    <2>3. MaxWitnessItems \in Nat /\ UsizeMax \in Nat
      BY WitnessAssumption, CursorAssumption
    <2>4. Valid(reading.cur) /\ reading.cur.lo = 0 /\ reading.left \in 0 .. MaxWitnessItems
      BY <1>3, <2>1, <2>3
    <2>5. /\ made.raw \in Spans /\ made.raw.lo <= made.raw.hi /\ made.raw.hi <= Len(data)
          /\ made.count \in 0 .. UsizeMax /\ iter.left \in 0 .. made.count
      BY <1>1, <1>4, <1>5, <2>1, <2>2, <2>3
    <2>6. /\ stage = "empty" /\ item = NotYet /\ yielded = <<>> /\ parsed = <<>>
          /\ byHand = FALSE
      BY DEF Init
    <2>7. QED
      BY <1>1, <2>1, <2>4, <2>5, <2>6 DEF Stages
  <1>7. QED
    BY <1>6 DEF Init, IInv, Parsing, FromParse, Ordered, Replayed

(* Every step of parse, of the iterator and of the loop keeps it.          *)
LEMMA NextInvariant == IInv /\ [Next]_vars => IInv'
  <1> SUFFICES ASSUME IInv, [Next]_vars
               PROVE  IInv'
    OBVIOUS
  <1>1. CASE ParseCount
    BY <1>1, ParseCountStep
  <1>2. CASE ParseItem
    BY <1>2, ParseItemStep
  <1>3. CASE ParseEnd
    BY <1>3, ParseEndStep
  <1>4. CASE ByHand
    BY <1>4, ByHandStep
  <1>5. CASE Items
    BY <1>5, ItemsStep
  <1>6. CASE NextItem
    BY <1>6, NextItemStep
  <1>7. CASE NoItem
    BY <1>7, AnswerStep DEF NoItem
  <1>8. CASE Body
    BY <1>8, AnswerStep DEF Body
  <1>9. CASE Refused \/ UNCHANGED vars
    BY <1>9, AnswerStep DEF Refused, vars
  <1>10. QED
    BY <1>1, <1>2, <1>3, <1>4, <1>5, <1>6, <1>7, <1>8, <1>9 DEF Next, Iterate

-----------------------------------------------------------------------------
(* The theorems.                                                           *)

(* The invariant holds of every run: what parse has recorded are the items *)
(* that stand in the buffer, and the iterator over them is where the next  *)
(* of them begins.                                                         *)
THEOREM IInvHolds == Spec => []IInv
  <1>1. QED
    BY InitInvariant, NextInvariant, PTL DEF Spec

(* The type invariant: whatever raw and item_count are, every read of the  *)
(* iterator stays inside raw.                                              *)
THEOREM TypeCorrect == Spec => []TypeOK
  <1>1. IInv => TypeOK
    <2> SUFFICES ASSUME IInv
                 PROVE  TypeOK
      OBVIOUS
    <2>1. Stages /\ Ordered /\ Len(data) \in Nat
      BY DEF IInv, Stages, DataOK
    <2>2. Within(reading.cur, AllData)
      BY <2>1 DEF Stages, Within, AllData, Slice, Valid
    <2>3. stage = "iterating" => Within(iter.cur, made.raw)
      BY <2>1 DEF Stages, Ordered, Within, Valid, Spans
    <2>4. made.raw.lo \in 0 .. made.raw.hi
      BY <2>1 DEF Stages, Spans
    <2>5. QED
      BY <2>1, <2>2, <2>3, <2>4 DEF Stages, TypeOK
  <1>2. QED
    BY <1>1, IInvHolds, PTL

(* Whatever raw and item_count are, next hands out no more than item_count *)
(* items, and no byte of raw twice.                                        *)
THEOREM ItemsOrdered == Spec => []ItemsAreOrdered
  <1>1. IInv => ItemsAreOrdered
    <2> SUFFICES ASSUME IInv, stage = "iterating"
                 PROVE  /\ Len(yielded) + iter.left <= made.count
                        /\ \A k \in 1 .. Len(yielded) :
                             /\ yielded[k].lo > IF k = 1 THEN made.raw.lo
                                                ELSE yielded[k - 1].hi
                             /\ yielded[k].hi <= made.raw.hi
                             /\ yielded[k].hi - yielded[k].lo \in 0 .. MaxWitnessItemSize
      BY DEF ItemsAreOrdered
    <2>1. Here(iter.cur) <= made.raw.hi /\ Here(iter.cur) \in Nat /\ made.raw.hi \in Nat
      <3>1. Valid(iter.cur) /\ iter.cur.lo + iter.cur.len = made.raw.hi /\ DataOK
            /\ made.raw \in Spans
        BY DEF IInv, Stages, Ordered
      <3>2. /\ iter.cur.lo \in Nat /\ iter.cur.len \in Nat /\ iter.cur.pos \in Nat
            /\ iter.cur.pos <= iter.cur.len
        BY <3>1, ValidFields
      <3>3. made.raw.hi \in Nat
        BY <3>1 DEF Spans
      <3>4. QED
        BY <3>1, <3>2, <3>3 DEF Here
    <2>2. \A k \in 1 .. Len(yielded) : yielded[k].hi \in Nat
      <3>1. SUFFICES ASSUME NEW k \in 1 .. Len(yielded)
                     PROVE  yielded[k].hi \in Nat
        OBVIOUS
      <3>2. yielded \in Seq(Spans)
        BY DEF IInv, Ordered
      <3>3. yielded[k] \in Spans
        BY <3>2
      <3>4. QED
        BY <3>3 DEF Spans
    <2>3. QED
      BY <2>1, <2>2 DEF IInv, Ordered
  <1>2. QED
    BY <1>1, IInvHolds, PTL

(* Of a witness that parse has made, items() gives back the very slices    *)
(* that parse has read, in their order, without an error, and none is      *)
(* missing when next answers None: for every buffer and every limit, and   *)
(* however long the count was written.                                     *)
THEOREM ItemsComeBack == Spec => []ParsedItemsComeBack
  <1>1. IInv => ParsedItemsComeBack
    <2> SUFFICES ASSUME IInv, stage = "iterating", ~ byHand
                 PROVE  /\ item.kind # "error"
                        /\ yielded = SubSeq(parsed, 1, Len(yielded))
                        /\ item = End =>
                             /\ Len(yielded) = Len(parsed)
                             /\ IsEmpty(iter.cur) /\ AsSlice(iter.cur).hi = made.raw.hi
      BY DEF ParsedItemsComeBack
    <2>1. /\ Recorded(parsed) /\ made.raw = Slice(0, Mark(parsed, Len(parsed)))
          /\ parsed \in Seq(Spans) /\ Len(parsed) \in Nat
          /\ Mark(parsed, Len(parsed)) \in Nat
      BY DEF IInv, Parsing, FromParse, Recorded
    <2>2. /\ Len(yielded) + iter.left = Len(parsed)
          /\ \A k \in 1 .. Len(yielded) : yielded[k] = parsed[k]
          /\ Here(iter.cur) = Mark(parsed, Len(yielded))
          /\ item.kind # "error"
      BY DEF IInv, Replayed
    <2>3. /\ yielded \in Seq(Spans) /\ Len(yielded) \in Nat
          /\ Valid(iter.cur) /\ iter.cur.lo + iter.cur.len = made.raw.hi
          /\ item = End => iter.left = 0
      BY DEF IInv, Ordered
    <2>4. iter.left \in Nat
      BY CursorAssumption DEF IInv, Stages
    <2>5. yielded = SubSeq(parsed, 1, Len(yielded))
      <3>1. Len(yielded) <= Len(parsed)
        BY <2>1, <2>2, <2>3, <2>4
      <3>2. PICK n : n = Len(yielded)
        OBVIOUS
      <3>3. SubSeq(parsed, 1, n) \in Seq(Spans) /\ Len(SubSeq(parsed, 1, n)) = n
            /\ \A k \in 1 .. n : SubSeq(parsed, 1, n)[k] = parsed[k]
        BY <2>1, <2>3, <3>1, <3>2
      <3>4. QED
        BY <2>2, <2>3, <3>2, <3>3
    <2>6. ASSUME item = End
          PROVE  /\ Len(yielded) = Len(parsed)
                 /\ IsEmpty(iter.cur) /\ AsSlice(iter.cur).hi = made.raw.hi
      <3>1. Len(yielded) = Len(parsed)
        BY <2>1, <2>2, <2>3, <2>4, <2>6
      <3>2. Here(iter.cur) = iter.cur.lo + iter.cur.len
        BY <2>1, <2>2, <2>3, <3>1 DEF Slice
      <3>3. iter.cur.pos >= iter.cur.len
        BY <2>3, <3>2 DEF Here, Valid
      <3>4. QED
        BY <2>3, <3>1, <3>3 DEF IsEmpty, AsSlice, Slice
    <2>7. QED
      BY <2>2, <2>5, <2>6
  <1>2. QED
    BY <1>1, IInvHolds, PTL

=============================================================================
