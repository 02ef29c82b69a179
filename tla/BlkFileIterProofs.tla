-------------------------- MODULE BlkFileIterProofs --------------------------
(***************************************************************************)
(* The properties of BlkFileIter, proved for every file, magic and limit,  *)
(* and for every file of well-formed entries that it gives back the blocks *)
(* written.                                                                *)
(***************************************************************************)
EXTENDS BlkFileIter, FileCoding, ParsingLemmas

(* What next_block reads: an entry that starts at offset p of the buffer   *)
(* and ends at q.                                                          *)
EntryAt(p, q) ==
  /\ BytesOf(Slice(p, p + 4)) = Magic
  /\ U32(p + 4) = q - (p + 8)
  /\ q - (p + 8) \in 0 .. MaxBlockBytes

(* The lengths of the prefix.                                              *)
LEMMA PrefixLengths ==
  MagicLen = 4 /\ PrefixLen = 8 /\ MaxBlockBytes \in Nat /\ Magic \in Seq(Byte)
  BY BlkFileAssumption DEF MagicLen, PrefixLen

(* A magic is read and compared, and its bytes are consumed either way.    *)
LEMMA KnownMagicLemma ==
  ASSUME DataOK, NEW c, Valid(c)
  PROVE  LET r == KnownMagic(c) IN
         /\ r.ok \in BOOLEAN
         /\ r.cur \in [lo : Nat, len : Nat, pos : Nat]
         /\ r.cur.lo = c.lo /\ r.cur.len = c.len
         /\ r.cur.pos = IF c.len - c.pos < 4 THEN c.pos ELSE c.pos + 4
         /\ r.ok => /\ c.pos + 4 <= c.len
                    /\ BytesOf(Slice(c.lo + c.pos, c.lo + c.pos + 4)) = Magic
  <1> DEFINE m == ReadArray(c, MagicLen)
  <1>0. c.lo \in Nat /\ c.len \in Nat /\ c.pos \in Nat /\ c.pos <= c.len
    BY DEF Valid
  <1>1. /\ Reads(c, m, 0)
        /\ m.ok <=> 4 <= c.len - c.pos
        /\ m.ok => m.cur.pos = c.pos + 4 /\ m.val = Slice(c.lo + c.pos, c.lo + c.pos + 4)
    BY PrefixLengths, ReadBytesLemma DEF ReadArray
  <1>2. /\ m.ok \in BOOLEAN /\ m.cur \in [lo : Nat, len : Nat, pos : Nat]
        /\ m.cur.lo = c.lo /\ m.cur.len = c.len
        /\ m.ok = FALSE => m.cur.pos = c.pos
    BY <1>0, <1>1 DEF Reads, Forward, FailsWithin
  <1> HIDE DEF m
  <1>3. CASE m.ok = FALSE
    <2>1. KnownMagic(c) = m
      BY <1>3 DEF KnownMagic, AndThen, m
    <2>2. QED
      BY <1>0, <1>1, <1>2, <1>3, <2>1
  <1>4. CASE m.ok = TRUE
    <2>0. m.cur.pos = c.pos + 4 /\ c.pos + 4 <= c.len /\ ~ (c.len - c.pos < 4)
      BY <1>0, <1>1, <1>4
    <2> DEFINE s == IF BytesOf(m.val) = Magic THEN Ok(m.cur, m.val, {})
                    ELSE Fail(m.cur, MagicMismatch(m.val), {})
    <2>1. KnownMagic(c) = After(m, s)
      BY <1>4 DEF KnownMagic, AndThen, m
    <2>2. CASE BytesOf(m.val) = Magic
      <3>1. KnownMagic(c).ok = TRUE /\ KnownMagic(c).cur = m.cur
        BY <2>1, <2>2 DEF After, Ok, Result
      <3>2. m.val = Slice(c.lo + c.pos, c.lo + c.pos + 4)
        BY <1>1, <1>4
      <3>3. QED
        BY <1>2, <2>0, <2>2, <3>1, <3>2
    <2>3. CASE BytesOf(m.val) # Magic
      <3>1. KnownMagic(c).ok = FALSE /\ KnownMagic(c).cur = m.cur
        BY <2>1, <2>3 DEF After, Fail, Result
      <3>2. QED
        BY <1>2, <2>0, <3>1
    <2>4. QED
      BY <2>2, <2>3
  <1>5. QED
    BY <1>2, <1>3, <1>4

(* Two digits to the base b make a number below b * b.                     *)
LEMMA TwoDigits ==
  ASSUME NEW b \in Nat, NEW x \in 0 .. b - 1, NEW y \in 0 .. b - 1
  PROVE  x + b * y \in 0 .. (b * b) - 1
  <1>1. b * y <= b * (b - 1) /\ 0 <= b * y
    BY SMT
  <1>2. b * (b - 1) = b * b - b
    BY SMT
  <1>3. b * y \in Int /\ b * b \in Int
    BY SMT
  <1>4. QED
    BY <1>1, <1>2, <1>3, SMT

(* Four bytes make a number that fits usize.                               *)
LEMMA U32Fits ==
  ASSUME DataOK, NEW p \in Nat, p + 4 <= Len(data)
  PROVE  U32(p) \in 0 .. UsizeMax
  <1>0. Base \in Nat /\ Base >= 4 /\ UsizeMax \in Nat /\ Len(data) \in Nat
    BY CursorAssumption DEF DataOK
  <1>1. \A q \in p .. p + 3 : At(q) \in 0 .. Base - 1
    BY <1>0 DEF DataOK, At, Byte
  <1>2. \A q \in {p, p + 2} : U16(q) \in 0 .. Base2 - 1
    <2>1. SUFFICES ASSUME NEW q \in {p, p + 2}
                   PROVE  U16(q) \in 0 .. Base2 - 1
      OBVIOUS
    <2>2. At(q) \in 0 .. Base - 1 /\ At(q + 1) \in 0 .. Base - 1
      BY <1>1
    <2>3. QED
      BY <1>0, <2>2, TwoDigits DEF U16, Base2
  <1>3. Base2 \in Nat /\ Base2 >= 1
    BY <1>0 DEF Base2
  <1>4. U32(p) \in 0 .. Base4 - 1
    BY <1>2, <1>3, TwoDigits DEF U32, Base4
  <1>5. Base4 \in Nat /\ Base4 - 1 <= UsizeMax
    BY <1>0, <1>3, BlkFileAssumption DEF Base4
  <1>6. QED
    BY <1>0, <1>4, <1>5

(* The size is a number up to the limit, and says what its bytes say.      *)
LEMMA SizeLemma ==
  ASSUME DataOK, NEW c, Valid(c)
  PROVE  LET r == Size(c) IN
         /\ r.ok \in BOOLEAN
         /\ r.cur \in [lo : Nat, len : Nat, pos : Nat]
         /\ r.cur.lo = c.lo /\ r.cur.len = c.len
         /\ r.cur.pos = IF c.len - c.pos < 4 THEN c.pos ELSE c.pos + 4
         /\ r.ok => /\ c.pos + 4 <= c.len
                    /\ r.val = U32(c.lo + c.pos)
                    /\ r.val \in 0 .. MaxBlockBytes
  <1> DEFINE b == ReadBytes(c, 4)
             n == ReadU32(c)
             u == AsUsize(n)
  <1>0. c.lo \in Nat /\ c.len \in Nat /\ c.pos \in Nat /\ c.pos <= c.len
    BY DEF Valid
  <1>1. /\ Reads(c, b, 0)
        /\ b.ok <=> 4 <= c.len - c.pos
        /\ b.ok => b.cur.pos = c.pos + 4 /\ b.val = Slice(c.lo + c.pos, c.lo + c.pos + 4)
    BY ReadBytesLemma
  <1>2. /\ b.ok \in BOOLEAN /\ b.cur \in [lo : Nat, len : Nat, pos : Nat]
        /\ b.cur.lo = c.lo /\ b.cur.len = c.len
        /\ b.ok = FALSE => b.cur.pos = c.pos
    BY <1>0, <1>1 DEF Reads, Forward, FailsWithin
  <1>3. CASE b.ok = FALSE
    <2>1. Size(c) = b
      BY <1>3 DEF Size, AsUsize, Capped, ReadU32, ReadInt
    <2> HIDE DEF b
    <2>2. QED
      BY <1>0, <1>1, <1>2, <1>3, <2>1
  <1>4. CASE b.ok = TRUE
    <2>0. b.cur.pos = c.pos + 4 /\ c.pos + 4 <= c.len /\ ~ (c.len - c.pos < 4)
      BY <1>0, <1>1, <1>4
    <2>1. b.val.lo = c.lo + c.pos
      BY <1>1, <1>4 DEF Slice
    <2>2. n = Ok(b.cur, U32(c.lo + c.pos), b.got)
      BY <1>4, <2>1 DEF ReadU32, ReadInt
    <2>3. U32(c.lo + c.pos) \in 0 .. UsizeMax
      BY <1>0, <1>1, <1>4, U32Fits DEF Valid
    <2>4. U32(c.lo + c.pos) % (UsizeMax + 1) = U32(c.lo + c.pos)
      BY <2>3, CursorAssumption
    <2> HIDE DEF b
    <2>5. u = Ok(b.cur, U32(c.lo + c.pos), b.got)
      <3> HIDE DEF n
      <3>1. n.ok = TRUE /\ n.cur = b.cur /\ n.val = U32(c.lo + c.pos) /\ n.got = b.got
        BY <2>2 DEF Ok, Result
      <3>2. QED
        BY <2>4, <3>1 DEF AsUsize
    <2> HIDE DEF u
    <2>6. Size(c) = Capped(u, MaxBlockBytes)
      BY DEF Size, u
    <2>7. u.ok = TRUE /\ u.cur = b.cur /\ u.val = U32(c.lo + c.pos)
      BY <2>5 DEF Ok, Result
    <2>8. CASE u.val > MaxBlockBytes
      <3>1. Size(c).ok = FALSE /\ Size(c).cur = b.cur
        BY <2>6, <2>7, <2>8 DEF Capped, Fail, Result
      <3>2. QED
        BY <1>2, <2>0, <3>1
    <2>9. CASE ~ (u.val > MaxBlockBytes)
      <3>1. Size(c) = u
        BY <2>6, <2>9 DEF Capped
      <3>2. u.val \in 0 .. MaxBlockBytes
        BY <2>3, <2>7, <2>9, PrefixLengths
      <3>3. QED
        BY <1>2, <2>0, <2>7, <3>1, <3>2
    <2>10. QED
      BY <2>8, <2>9
  <1>5. QED
    BY <1>2, <1>3, <1>4

-----------------------------------------------------------------------------

(* What a call leaves of a cursor that has something to read.              *)
Stepped(c, r) ==
  /\ r.ok \in BOOLEAN
  /\ r.cur \in [lo : Nat, len : Nat, pos : Nat]
  /\ r.cur.lo = c.lo /\ r.cur.len = c.len
  /\ c.pos <= r.cur.pos /\ r.cur.pos <= c.len

(* A whole entry is read, or a prefix of it and at least its magic if that *)
(* is there.                                                               *)
LEMMA EntryLemma ==
  ASSUME DataOK, NEW c, Valid(c)
  PROVE  LET r == Entry(c)
             p == c.lo + c.pos
             q == c.lo + r.cur.pos IN
         /\ Stepped(c, r)
         /\ r.ok = TRUE => r.val = SomeBlock(Slice(p + 8, q)) /\ EntryAt(p, q) /\ p + 8 <= q
         /\ r.ok = FALSE =>
              /\ r.cur.pos - c.pos \in 0 .. 8
              /\ r.cur.pos = c.pos => c.len - c.pos < 4
  <1> DEFINE magic == KnownMagic(c)
             size  == Size(magic.cur)
             block == ReadBytes(size.cur, size.val)
             entry == Ok(block.cur, SomeBlock(block.val), {})
  <1>0. c.lo \in Nat /\ c.len \in Nat /\ c.pos \in Nat /\ c.pos <= c.len
        /\ c.lo + c.len <= Len(data) /\ Len(data) \in Nat
    BY DEF Valid, DataOK
  <1>1. /\ magic.ok \in BOOLEAN
        /\ magic.cur \in [lo : Nat, len : Nat, pos : Nat]
        /\ magic.cur.lo = c.lo /\ magic.cur.len = c.len
        /\ magic.cur.pos = IF c.len - c.pos < 4 THEN c.pos ELSE c.pos + 4
        /\ magic.ok => /\ c.pos + 4 <= c.len
                       /\ BytesOf(Slice(c.lo + c.pos, c.lo + c.pos + 4)) = Magic
    BY KnownMagicLemma
  <1> HIDE DEF magic
  <1>2. CASE magic.ok = FALSE
    <2>1. Entry(c) = magic
      BY <1>2 DEF Entry, AndThen, magic
    <2>2. QED
      BY SMTT(60), <1>0, <1>1, <1>2, <2>1 DEF Stepped
  <1>3. CASE magic.ok = TRUE
    <2>0. magic.cur.pos = c.pos + 4 /\ c.pos + 4 <= c.len
      BY <1>0, <1>1, <1>3
    <2>1. Valid(magic.cur)
      BY <1>0, <1>1, <2>0 DEF Valid
    <2>2. /\ size.ok \in BOOLEAN
          /\ size.cur \in [lo : Nat, len : Nat, pos : Nat]
          /\ size.cur.lo = c.lo /\ size.cur.len = c.len
          /\ size.cur.pos = IF c.len - (c.pos + 4) < 4 THEN c.pos + 4 ELSE (c.pos + 4) + 4
          /\ size.ok => /\ (c.pos + 4) + 4 <= c.len
                        /\ size.val = U32(c.lo + (c.pos + 4))
                        /\ size.val \in 0 .. MaxBlockBytes
      BY <1>1, <2>0, <2>1, SizeLemma
    <2> HIDE DEF size
    <2>3. CASE size.ok = FALSE
      <3>1. Entry(c) = After(magic, size)
        BY <1>3, <2>3 DEF Entry, AndThen, magic, size
      <3>2. Entry(c).ok = FALSE /\ Entry(c).cur = size.cur
        BY <2>3, <3>1 DEF After, Result
      <3>3. /\ size.cur.pos - c.pos \in 0 .. 8 /\ size.cur.pos # c.pos
            /\ c.pos <= size.cur.pos /\ size.cur.pos <= c.len
        <4>1. CASE c.len - (c.pos + 4) < 4
          BY SMTT(60), <1>0, <2>0, <2>2, <4>1
        <4>2. CASE ~ (c.len - (c.pos + 4) < 4)
          BY <1>0, <2>0, <2>2, <4>2
        <4>3. QED
          BY <4>1, <4>2
      <3>4. QED
        BY <2>2, <3>2, <3>3 DEF Stepped
    <2>4. CASE size.ok = TRUE
      <3>0. /\ size.cur.pos = c.pos + 8 /\ c.pos + 8 <= c.len
            /\ size.val \in Nat /\ size.val <= MaxBlockBytes
            /\ size.val = U32(c.lo + c.pos + 4)
        <4>1. c.lo + (c.pos + 4) = c.lo + c.pos + 4
          BY <1>0
        <4>2. QED
          BY SMTT(30), <1>0, <2>2, <2>4, <4>1, PrefixLengths
      <3>1. Valid(size.cur)
        BY <1>0, <2>2, <3>0 DEF Valid
      <3>2. /\ Reads(size.cur, block, 0)
            /\ block.ok <=> size.val <= c.len - (c.pos + 8)
            /\ block.ok => /\ block.cur.pos = c.pos + 8 + size.val
                           /\ block.val = Slice(c.lo + (c.pos + 8), c.lo + (c.pos + 8) + size.val)
        BY <2>2, <3>0, <3>1, ReadBytesLemma
      <3>3. /\ block.ok \in BOOLEAN /\ block.cur \in [lo : Nat, len : Nat, pos : Nat]
            /\ block.cur.lo = c.lo /\ block.cur.len = c.len
            /\ block.ok = FALSE => block.cur.pos = c.pos + 8
        BY SMTT(60), <1>0, <2>2, <3>0, <3>2 DEF Reads, Forward, FailsWithin
      <3> HIDE DEF block
      <3>4. CASE block.ok = FALSE
        <4>1. Entry(c) = After(magic, After(size, block))
          BY <1>3, <2>4, <3>4 DEF Entry, AndThen, magic, size, block
        <4>2. Entry(c).ok = FALSE /\ Entry(c).cur = block.cur
          BY <3>4, <4>1 DEF After, Result
        <4>3. /\ block.cur.pos - c.pos \in 0 .. 8 /\ block.cur.pos # c.pos
              /\ c.pos <= block.cur.pos /\ block.cur.pos <= c.len
          <5>1. block.cur.pos = c.pos + 8 /\ c.pos + 8 <= c.len
            BY <3>0, <3>3, <3>4
          <5>2. QED
            BY <1>0, <5>1
        <4>4. QED
          BY <3>3, <4>2, <4>3 DEF Stepped
      <3>5. CASE block.ok = TRUE
        <4>1. Entry(c) = After(magic, After(size, After(block, entry)))
          BY <1>3, <2>4, <3>5 DEF Entry, AndThen, magic, size, block
        <4>2. entry.ok = TRUE /\ entry.cur = block.cur /\ entry.val = SomeBlock(block.val)
          BY DEF Ok, Result
        <4> HIDE DEF entry
        <4>3. Entry(c).ok = TRUE /\ Entry(c).cur = block.cur
              /\ Entry(c).val = SomeBlock(block.val)
          BY <4>1, <4>2 DEF After, Result
        <4>4. /\ block.cur.pos = c.pos + 8 + size.val
              /\ block.cur.pos <= c.len
              /\ c.lo + block.cur.pos = (c.lo + c.pos + 8) + size.val
          <5>1. block.cur.pos = c.pos + 8 + size.val /\ size.val <= c.len - (c.pos + 8)
            BY <3>2, <3>5
          <5>2. size.val \in Nat
            BY <3>0
          <5>3. QED
            BY <1>0, <5>1, <5>2
        <4>5. block.val = Slice(c.lo + c.pos + 8, c.lo + block.cur.pos)
          <5>1. block.val = Slice(c.lo + (c.pos + 8), c.lo + (c.pos + 8) + size.val)
            BY <3>2, <3>5
          <5>2. c.lo + (c.pos + 8) = c.lo + c.pos + 8
            BY <1>0
          <5>3. QED
            BY <4>4, <5>1, <5>2
        <4>6. EntryAt(c.lo + c.pos, c.lo + block.cur.pos)
          <5>1. (c.lo + block.cur.pos) - (c.lo + c.pos + 8) = size.val
            BY <1>0, <3>0, <4>4
          <5>2. QED
            BY <1>1, <1>3, <3>0, <5>1, PrefixLengths DEF EntryAt
        <4>7. Stepped(c, Entry(c))
          <5>1. c.pos <= block.cur.pos
            BY <1>0, <3>0, <4>4
          <5>2. QED
            BY <3>3, <4>3, <4>4, <5>1 DEF Stepped
        <4>8. c.lo + c.pos + 8 <= c.lo + block.cur.pos
          BY <1>0, <3>0, <4>4
        <4>9. QED
          BY <4>3, <4>5, <4>6, <4>7, <4>8
      <3>6. QED
        BY <3>3, <3>4, <3>5
    <2>5. QED
      BY <2>2, <2>3, <2>4
  <1>4. QED
    BY <1>1, <1>2, <1>3

-----------------------------------------------------------------------------

(* The iterator's cursor is Valid and has the whole file as its window.    *)
LEMMA FileCursor ==
  ASSUME TypeOK
  PROVE  /\ DataOK /\ Len(data) \in Nat /\ Valid(file)
         /\ file.lo = 0 /\ file.len = Len(data) /\ file.pos \in 0 .. Len(data)
         /\ file = [lo |-> 0, len |-> Len(data), pos |-> file.pos]
  BY DEF TypeOK, DataOK, Valid

AtEnd ==
  /\ file.pos = Len(data)
  /\ file' = file /\ answer'.ok = TRUE
  /\ blocks' = blocks /\ failures' = failures

HandsOut ==
  /\ answer'.ok = TRUE /\ answer'.val # NoBlock
  /\ file.pos + 8 <= file'.pos
  /\ EntryAt(file.pos, file'.pos)
  /\ blocks' = Append(blocks, Slice(file.pos + 8, file'.pos))
  /\ failures' = failures

Fails ==
  /\ answer'.ok = FALSE
  /\ file'.pos - file.pos \in 0 .. 8
  /\ file'.pos = file.pos => Remaining(file) \in 1 .. 3
  /\ blocks' = blocks /\ failures' = TRUE

(* A call finds the end, hands out an entry, or fails.                     *)
LEMMA CallKinds ==
  ASSUME TypeOK, CallNextBlock
  PROVE  /\ data' = data
         /\ file' \in [lo : {0}, len : {Len(data)}, pos : file.pos .. Len(data)]
         /\ AtEnd \/ HandsOut \/ Fails
  <1> DEFINE r == NextBlock(file)
             e == Entry(file)
  <1>0. /\ DataOK /\ Len(data) \in Nat /\ Valid(file)
        /\ file.lo = 0 /\ file.len = Len(data) /\ file.pos \in 0 .. Len(data)
        /\ failures \in BOOLEAN
    BY FileCursor DEF TypeOK
  <1>1. /\ data' = data /\ file' = r.cur
        /\ answer' = [ok |-> r.ok, val |-> r.val, err |-> r.err]
        /\ blocks' = IF r.ok /\ r.val.kind = "block" THEN Append(blocks, r.val.bytes) ELSE blocks
        /\ failures' = (failures \/ ~ r.ok)
    BY DEF CallNextBlock
  <1>2. answer'.ok = r.ok /\ answer'.val = r.val
    BY <1>1
  <1>3. CASE IsEmpty(file)
    <2>1. file.pos = Len(data)
      BY <1>0, <1>3 DEF IsEmpty
    <2>2. r.ok = TRUE /\ r.cur = file /\ r.val.kind # "block"
      BY <1>3 DEF NextBlock, Ok, Result, NoBlock
    <2> HIDE DEF r
    <2>3. AtEnd
      BY <1>0, <1>1, <1>2, <2>1, <2>2 DEF AtEnd
    <2>4. file' \in [lo : {0}, len : {Len(data)}, pos : file.pos .. Len(data)]
      BY <1>0, <1>1, <2>2, FileCursor
    <2>5. QED
      BY <1>1, <2>3, <2>4
  <1>4. CASE ~ IsEmpty(file)
    <2>1. r = e /\ file.pos < Len(data)
      BY <1>0, <1>4 DEF NextBlock, IsEmpty
    <2>2. /\ Stepped(file, e)
          /\ e.ok = TRUE => /\ e.val = SomeBlock(Slice(file.lo + file.pos + 8, file.lo + e.cur.pos))
                            /\ EntryAt(file.lo + file.pos, file.lo + e.cur.pos)
                            /\ file.lo + file.pos + 8 <= file.lo + e.cur.pos
          /\ e.ok = FALSE => /\ e.cur.pos - file.pos \in 0 .. 8
                             /\ e.cur.pos = file.pos => file.len - file.pos < 4
      BY <1>0, EntryLemma
    <2> HIDE DEF r, e
    <2>3. /\ e.ok \in BOOLEAN /\ e.cur.pos \in Nat
          /\ file' \in [lo : {0}, len : {Len(data)}, pos : file.pos .. Len(data)]
          /\ file'.pos = e.cur.pos
      BY <1>0, <1>1, <2>1, <2>2 DEF Stepped
    <2>4. file.lo + file.pos = file.pos /\ file.lo + e.cur.pos = e.cur.pos
          /\ file.lo + file.pos + 8 = file.pos + 8
      BY <1>0, <2>3
    <2>5. CASE e.ok = TRUE
      <3>1. /\ r.val = SomeBlock(Slice(file.pos + 8, file'.pos))
            /\ EntryAt(file.pos, file'.pos) /\ file.pos + 8 <= file'.pos
        BY <2>1, <2>2, <2>3, <2>4, <2>5
      <3>2. r.val.kind = "block" /\ r.val.bytes = Slice(file.pos + 8, file'.pos)
            /\ r.val # NoBlock
        BY <3>1 DEF SomeBlock, NoBlock
      <3>3. r.ok = TRUE
        BY <2>1, <2>5
      <3>4. blocks' = Append(blocks, Slice(file.pos + 8, file'.pos)) /\ failures' = failures
        BY <1>0, <1>1, <3>2, <3>3
      <3>5. HandsOut
        BY <1>2, <3>1, <3>2, <3>3, <3>4 DEF HandsOut
      <3>6. QED
        BY <1>1, <2>3, <3>5
    <2>6. CASE e.ok = FALSE
      <3>1. r.ok = FALSE
        BY <2>1, <2>6
      <3>2. blocks' = blocks /\ failures' = TRUE
        BY <1>1, <3>1
      <3>3. file'.pos - file.pos \in 0 .. 8
            /\ (file'.pos = file.pos => Remaining(file) \in 1 .. 3)
        BY <1>0, <2>1, <2>2, <2>3, <2>6 DEF Remaining
      <3>4. Fails
        BY <1>2, <3>1, <3>2, <3>3 DEF Fails
      <3>5. QED
        BY <1>1, <2>3, <3>4
    <2>7. QED
      BY <2>3, <2>5, <2>6
  <1>5. QED
    BY <1>3, <1>4

-----------------------------------------------------------------------------
(* The inductive invariant.  The three need each other: an entry does not  *)
(* overlap those before it because they end before the cursor, and the     *)
(* cursor stays in the file because of the types.                          *)
IInv == TypeOK /\ BlocksAreEntries /\ NothingSkipped

(* The iterator starts at the first byte of its file with no block.        *)
LEMMA InitEstablishes == Init => IInv
  <1> SUFFICES ASSUME Init
               PROVE  IInv
    OBVIOUS
  <1>1. DataOK /\ Len(data) \in Nat
    BY CursorAssumption, InputsAssumption DEF Init, DataOK
  <1>2. file = [lo |-> 0, len |-> Len(data), pos |-> 0]
    BY <1>1 DEF Init, CursorNew, AllData, Slice
  <1>3. file \in [lo : {0}, len : {Len(data)}, pos : 0 .. Len(data)] /\ file.pos = 0
    BY <1>1, <1>2
  <1>4. blocks = <<>> /\ Len(blocks) = 0 /\ failures = FALSE /\ answer.ok = FALSE
    BY DEF Init, NoAnswer
  <1>5. TypeOK
    <2>1. blocks \in Seq(BlocksOf(Len(data)))
      BY <1>4
    <2>2. QED
      BY <1>1, <1>3, <1>4, <2>1 DEF TypeOK
  <1>6. BlocksAreEntries
    BY <1>4 DEF BlocksAreEntries
  <1>7. NothingSkipped
    BY <1>3, <1>4 DEF NothingSkipped
  <1>8. QED
    BY <1>5, <1>6, <1>7 DEF IInv

(* The magic and the size before a block.                                  *)
Prefixed(s) ==
  /\ BytesOf(Slice(s.lo - 8, s.lo - 4)) = Magic
  /\ U32(s.lo - 4) = s.hi - s.lo

(* BlocksAreEntries with each block named.                                 *)
EntriesInOrder ==
  \A k \in 1 .. Len(blocks) : \A s : s = blocks[k] =>
    /\ Prefixed(s)
    /\ s.hi <= file.pos
    /\ s.lo - 8 >= IF k = 1 THEN 0 ELSE blocks[k - 1].hi

(* The two say the same; EntriesInOrder is the easier one to prime.        *)
LEMMA EntryByEntry == BlocksAreEntries <=> EntriesInOrder
  BY PrefixLengths DEF BlocksAreEntries, EntriesInOrder, Prefixed

(* The buffer does not change, so what is written before a block does not. *)
LEMMA PrefixesStay ==
  ASSUME data' = data, NEW s
  PROVE  Prefixed(s)' <=> Prefixed(s)
  BY DEF Prefixed, BytesOf, Slice, At, U32, U16

(* Whatever a call finds, it keeps the invariant.                          *)
LEMMA NextPreserves == IInv /\ [Next]_vars => IInv'
  <1> SUFFICES ASSUME IInv, [Next]_vars
               PROVE  IInv'
    OBVIOUS
  <1>0. /\ TypeOK /\ BlocksAreEntries /\ NothingSkipped
        /\ MagicLen = 4 /\ PrefixLen = 8
    BY PrefixLengths DEF IInv
  <1>1. CASE UNCHANGED vars
    <2>1. TypeOK'
      BY <1>0, <1>1 DEF TypeOK, vars, DataOK
    <2>2. BlocksAreEntries'
      BY <1>0, <1>1 DEF BlocksAreEntries, vars, BytesOf, U32, U16, At
    <2>3. NothingSkipped'
      BY <1>0, <1>1 DEF NothingSkipped, vars
    <2>4. QED
      BY <2>1, <2>2, <2>3 DEF IInv
  <1>2. CASE CallNextBlock
    <2>0. /\ data' = data
          /\ file' \in [lo : {0}, len : {Len(data)}, pos : file.pos .. Len(data)]
          /\ AtEnd \/ HandsOut \/ Fails
      BY <1>0, <1>2, CallKinds
    <2>1. /\ DataOK /\ Len(data) \in Nat /\ file.pos \in 0 .. Len(data)
          /\ file'.pos \in file.pos .. Len(data)
      BY <1>0, <2>0, FileCursor
    <2>2. blocks \in Seq(BlocksOf(Len(data))) /\ failures \in BOOLEAN /\ Len(blocks) \in Nat
      BY <1>0 DEF TypeOK
    <2>3. \A k \in 1 .. Len(blocks) : blocks[k] \in BlocksOf(Len(data))
      BY <2>2
    <2>4. \A k \in 1 .. Len(blocks) : blocks[k].lo \in Int /\ blocks[k].hi \in Int
      BY <2>1, <2>3 DEF BlocksOf
    <2> DEFINE new == Slice(file.pos + 8, file'.pos)
    <2>5. ASSUME HandsOut
          PROVE  /\ new.lo = file.pos + 8 /\ new.hi = file'.pos
                 /\ new \in BlocksOf(Len(data))
                 /\ blocks' = Append(blocks, new)
                 /\ Len(blocks') = Len(blocks) + 1
                 /\ \A k \in 1 .. Len(blocks) : blocks'[k] = blocks[k]
                 /\ blocks'[Len(blocks) + 1] = new
      <3>1. new.lo = file.pos + 8 /\ new.hi = file'.pos
            /\ new = [lo |-> file.pos + 8, hi |-> file'.pos]
        BY DEF Slice
      <3>2. file'.pos - (file.pos + 8) \in 0 .. MaxBlockBytes /\ file.pos + 8 <= file'.pos
            /\ blocks' = Append(blocks, new)
        BY <2>5 DEF HandsOut, EntryAt
      <3>3. new \in BlocksOf(Len(data))
        <4>1. file.pos + 8 \in 0 .. Len(data) /\ file'.pos \in 0 .. Len(data)
          BY <2>1, <3>2
        <4>2. QED
          BY <3>1, <3>2, <4>1 DEF BlocksOf
      <3> HIDE DEF new
      <3>4. QED
        BY <2>2, <3>1, <3>2, <3>3
    <2>6. TypeOK'
      <3>1. DataOK'
        BY <2>0, <2>1 DEF DataOK
      <3>2. file' \in [lo : {0}, len : {Len(data')}, pos : 0 .. Len(data')]
        BY <2>0, <2>1
      <3>3. answer'.ok \in BOOLEAN
        BY <2>0 DEF AtEnd, HandsOut, Fails
      <3>4. failures' \in BOOLEAN
        BY <2>0, <2>2 DEF AtEnd, HandsOut, Fails
      <3>5. blocks' \in Seq(BlocksOf(Len(data')))
        <4>1. CASE HandsOut
          <5> HIDE DEF new
          <5>1. QED
            BY <2>0, <2>2, <2>5, <4>1
        <4>2. CASE AtEnd \/ Fails
          BY <2>0, <2>2, <4>2 DEF AtEnd, Fails
        <4>3. QED
          BY <2>0, <4>1, <4>2
      <3>6. QED
        BY <3>1, <3>2, <3>3, <3>4, <3>5 DEF TypeOK
    <2>7. BlocksAreEntries'
      <3> HIDE DEF new
      <3>0. EntriesInOrder
        BY <1>0, EntryByEntry
      <3>1. \A s : Prefixed(s)' <=> Prefixed(s)
        BY <2>0, PrefixesStay
      <3>2. \A k \in 1 .. Len(blocks) : blocks[k].hi <= file'.pos
        <4>1. SUFFICES ASSUME NEW k \in 1 .. Len(blocks)
                       PROVE  blocks[k].hi <= file'.pos
          OBVIOUS
        <4>2. blocks[k].hi <= file.pos
          BY <3>0 DEF EntriesInOrder
        <4>3. QED
          BY <2>1, <2>4, <4>2
      <3>3. ASSUME NEW k \in 1 .. Len(blocks), NEW s, s = blocks[k]
            PROVE  /\ Prefixed(s)'
                   /\ s.hi <= file'.pos
                   /\ s.lo - 8 >= IF k = 1 THEN 0 ELSE blocks[k - 1].hi
        BY <3>0, <3>1, <3>2, <3>3 DEF EntriesInOrder
      <3>4. EntriesInOrder'
        <4>1. CASE HandsOut
          <5>1. SUFFICES ASSUME NEW k \in 1 .. Len(blocks'), NEW s, s = blocks'[k]
                         PROVE  /\ Prefixed(s)'
                                /\ s.hi <= file'.pos
                                /\ s.lo - 8 >= IF k = 1 THEN 0 ELSE blocks'[k - 1].hi
            BY DEF EntriesInOrder
          <5>2. CASE k \in 1 .. Len(blocks)
            <6>1. s = blocks[k] /\ (k # 1 => blocks'[k - 1] = blocks[k - 1])
              BY <2>2, <2>5, <4>1, <5>1, <5>2
            <6>2. QED
              BY <3>3, <5>2, <6>1
          <5>3. CASE k = Len(blocks) + 1
            <6>1. s = new /\ (k # 1 => Len(blocks) \in 1 .. Len(blocks)
                                       /\ blocks'[k - 1] = blocks[Len(blocks)])
              BY <2>2, <2>5, <4>1, <5>1, <5>3
            <6>2. s.lo = file.pos + 8 /\ s.hi = file'.pos
                  /\ s.lo - 8 = file.pos /\ s.lo - 4 = file.pos + 4
              BY SMTT(60), <2>1, <2>5, <4>1, <6>1
            <6>3. Prefixed(s)
              BY <4>1, <6>2 DEF HandsOut, EntryAt, Prefixed
            <6>4. k # 1 => blocks[Len(blocks)].hi <= file.pos
              BY <3>0, <6>1 DEF EntriesInOrder
            <6>5. s.lo - 8 >= IF k = 1 THEN 0 ELSE blocks'[k - 1].hi
              BY <2>1, <6>1, <6>2, <6>4, <2>4
            <6>6. s.hi <= file'.pos
              BY <2>1, <6>2
            <6>7. QED
              BY <3>1, <6>3, <6>5, <6>6
          <5>4. QED
            BY <2>2, <2>5, <4>1, <5>1, <5>2, <5>3
        <4>2. CASE AtEnd \/ Fails
          <5>1. blocks' = blocks
            BY <4>2 DEF AtEnd, Fails
          <5>2. QED
            BY <3>3, <5>1 DEF EntriesInOrder
        <4>3. QED
          BY <2>0, <4>1, <4>2
      <3>5. (BlocksAreEntries <=> EntriesInOrder)'
        BY EntryByEntry, PTL
      <3>6. QED
        BY <3>4, <3>5
    <2>8. NothingSkipped'
      <3> HIDE DEF new
      <3>1. CASE AtEnd
        BY <1>0, <2>0, <3>1 DEF NothingSkipped, AtEnd
      <3>2. CASE Fails
        BY <3>2 DEF NothingSkipped, Fails
      <3>3. CASE HandsOut
        <4>1. failures' = failures /\ answer'.val # NoBlock
          BY <3>3 DEF HandsOut
        <4>2. ASSUME ~ failures
              PROVE  /\ \A k \in 1 .. Len(blocks) :
                          blocks[k].lo - 8 = IF k = 1 THEN 0 ELSE blocks[k - 1].hi
                     /\ file.pos = IF Len(blocks) = 0 THEN 0 ELSE blocks[Len(blocks)].hi
          <5>1. blocks = <<>> <=> Len(blocks) = 0
            BY <2>2
          <5>2. QED
            BY <1>0, <4>2, <5>1 DEF NothingSkipped
        <4>3. ASSUME ~ failures, NEW k \in 1 .. Len(blocks')
              PROVE  blocks'[k].lo - 8 = IF k = 1 THEN 0 ELSE blocks'[k - 1].hi
          <5>1. CASE k \in 1 .. Len(blocks)
            <6>1. blocks'[k] = blocks[k] /\ (k # 1 => blocks'[k - 1] = blocks[k - 1])
              BY <2>2, <2>5, <3>3, <5>1
            <6>2. QED
              BY <4>2, <4>3, <5>1, <6>1
          <5>2. CASE k = Len(blocks) + 1
            <6>1. blocks'[k].lo - 8 = file.pos
              BY SMTT(60), <2>1, <2>5, <3>3, <5>2
            <6>2. k = 1 <=> Len(blocks) = 0
              BY <2>2, <5>2
            <6>3. k # 1 => blocks'[k - 1] = blocks[Len(blocks)]
              BY <2>2, <2>5, <3>3, <5>2, <6>2
            <6>4. QED
              BY <4>2, <4>3, <6>1, <6>2, <6>3
          <5>3. QED
            BY <2>2, <2>5, <3>3, <5>1, <5>2
        <4>4. blocks' # <<>> /\ blocks'[Len(blocks')].hi = file'.pos
          BY <2>2, <2>5, <3>3
        <4>5. QED
          BY <1>0, <4>1, <4>3, <4>4 DEF NothingSkipped
      <3>4. QED
        BY <2>0, <3>1, <3>2, <3>3
    <2>9. QED
      BY <2>6, <2>7, <2>8 DEF IInv
  <1>3. QED
    BY <1>1, <1>2 DEF Next

(* IInv holds in every state, whatever the file, the magic and the limit.  *)
THEOREM IInvHolds == Spec => []IInv
  <1>1. Init => IInv
    BY InitEstablishes
  <1>2. IInv /\ [Next]_vars => IInv'
    BY NextPreserves
  <1>3. QED
    BY <1>1, <1>2, PTL DEF Spec

(* Every call leaves the cursor inside its file and returns blocks of at   *)
(* most MAX_BLOCK_BYTES (block.rs 289-309).                                *)
THEOREM TypeCorrect == Spec => []TypeOK
  <1>1. IInv => TypeOK
    BY DEF IInv
  <1>2. QED
    BY <1>1, IInvHolds, PTL

(* Every block handed out stands behind its magic and its size, and no two *)
(* entries share a byte, whatever calls failed in between.                 *)
THEOREM EntriesHold == Spec => []BlocksAreEntries
  <1>1. IInv => BlocksAreEntries
    BY DEF IInv
  <1>2. QED
    BY <1>1, IInvHolds, PTL

(* None means that the file is used up, and without a failure that the     *)
(* entries handed out are the whole file.                                  *)
THEOREM NothingIsSkipped == Spec => []NothingSkipped
  <1>1. IInv => NothingSkipped
    BY DEF IInv
  <1>2. QED
    BY <1>1, IInvHolds, PTL

(* A call that fails consumes at most a prefix, and at least one byte      *)
(* unless fewer than four are left.                                        *)
THEOREM ErrorsAreSteps == Spec => ErrorsStepInside
  <1>1. IInv /\ [Next]_vars =>
          [~ answer'.ok =>
             /\ file'.pos - file.pos \in 0 .. PrefixLen
             /\ file'.pos = file.pos => Remaining(file) \in 1 .. MagicLen - 1]_vars
    <2> SUFFICES ASSUME IInv, CallNextBlock, ~ answer'.ok
                 PROVE  /\ file'.pos - file.pos \in 0 .. PrefixLen
                        /\ file'.pos = file.pos => Remaining(file) \in 1 .. MagicLen - 1
      BY DEF Next
    <2>1. TypeOK /\ MagicLen = 4 /\ PrefixLen = 8
      BY PrefixLengths DEF IInv
    <2>2. Fails
      BY <2>1, CallKinds DEF AtEnd, HandsOut
    <2>3. QED
      BY <2>1, <2>2 DEF Fails
  <1>2. QED
    BY <1>1, IInvHolds, PTL DEF Spec, ErrorsStepInside

-----------------------------------------------------------------------------
(* Files of well-formed entries.                                           *)

(* A block that fits an entry.                                             *)
BlockFits(b) == b \in Seq(Byte) /\ Len(b) <= MaxBlockBytes /\ Len(b) < Base4

(* The bytes of a slice, one by one or as a subsequence.                   *)
LEMMA BytesOfIs ==
  ASSUME DataOK, NEW p \in Nat, NEW n \in Nat, p + n <= Len(data)
  PROVE  BytesOf(Slice(p, p + n)) = Bytes(Slice(p, p + n))
  <1>1. data \in Seq(Byte) /\ Len(data) \in Nat
    BY DEF DataOK
  <1>2. PICK q : q = p + n
    OBVIOUS
  <1>3. q - p = n /\ q \in Nat /\ q <= Len(data)
    BY <1>2
  <1>4. Bytes(Slice(p, q)) = SubSeq(data, p + 1, q)
    BY DEF Bytes, Slice
  <1>5. BytesOf(Slice(p, q)) = [i \in 1 .. n |-> data[(p + i - 1) + 1]]
    BY <1>3 DEF BytesOf, Slice, At
  <1>6. PICK s : s = SubSeq(data, p + 1, q)
    OBVIOUS
  <1>7. /\ s \in Seq(Byte) /\ Len(s) = n
        /\ \A i \in 1 .. n : s[i] = data[(p + 1) + i - 1]
    BY <1>1, <1>2, <1>3, <1>6
  <1>8. \A i \in 1 .. n : s[i] = data[(p + i - 1) + 1]
    <2>1. \A i \in 1 .. n : (p + 1) + i - 1 = (p + i - 1) + 1
      OBVIOUS
    <2>2. QED
      BY <1>7, <2>1
  <1>9. s = [i \in 1 .. n |-> data[(p + i - 1) + 1]]
    BY <1>7, <1>8
  <1>10. QED
    BY <1>2, <1>4, <1>5, <1>6, <1>9

(* The magic, where the window holds it, is accepted.                      *)
LEMMA MagicMeets ==
  ASSUME DataOK, NEW c, Valid(c), Holds(c, c.pos, Magic)
  PROVE  Meets(c, KnownMagic(c), 4)
  <1>m. PICK m : m = ReadArray(c, MagicLen)
    OBVIOUS
  <1>0. MagicLen = 4 /\ Magic \in Seq(Byte) /\ Len(Magic) = 4
    BY BlkFileAssumption, PrefixLengths
  <1>v. /\ c.lo \in Nat /\ c.len \in Nat /\ c.pos \in Nat
        /\ c.lo + c.len <= Len(data) /\ Len(data) \in Nat
    BY DEF Valid, DataOK
  <1>1. Gets(c, m, 4, Slice(c.lo + c.pos, c.lo + c.pos + 4))
    BY <1>m, <1>0, BytesMeet DEF ReadArray
  <1>2. Meets(c, m, 4)
    BY <1>1 DEF Gets
  <1>3. m.ok => BytesOf(m.val) = Magic
    <2>1. SUFFICES ASSUME m.ok
                   PROVE  BytesOf(m.val) = Magic
      OBVIOUS
    <2>2. m.val = Slice(c.lo + c.pos, c.lo + c.pos + 4) /\ c.pos + 4 <= c.len
      BY <1>1, <2>1 DEF Gets, Meets
    <2>3. Bytes(Slice(c.lo + c.pos, c.lo + c.pos + Len(Magic))) = Magic
      BY <1>0, <1>v, <2>2, BytesHeld
    <2>4. c.lo + c.pos \in Nat /\ (c.lo + c.pos) + 4 <= Len(data)
      BY <1>v, <2>2
    <2>5. QED
      BY <1>0, <2>2, <2>3, <2>4, BytesOfIs
  <1>s. PICK s : s = Ok(m.cur, m.val, {})
    OBVIOUS
  <1>4. KnownMagic(c) = IF m.ok THEN After(m, s) ELSE m
    BY <1>m, <1>s, <1>3 DEF KnownMagic, AndThen
  <1>5. m.ok => Meets(m.cur, s, 0)
    <2>1. SUFFICES ASSUME m.ok
                   PROVE  Meets(m.cur, s, 0)
      OBVIOUS
    <2>2. Valid(m.cur)
      BY <1>2, <2>1, MetIsValid
    <2>3. QED
      BY <1>s, <2>2, OkMeets DEF Gets
  <1>6. Follows(c, m, 4, s, 0, KnownMagic(c))
    BY <1>2, <1>4, <1>5 DEF Follows
  <1>7. Meets(c, KnownMagic(c), 4 + 0)
    BY <1>6, AfterMeets
  <1>8. QED
    BY <1>7

(* The size of a block that fits is read as it is.                         *)
LEMMA SizeMeets ==
  ASSUME DataOK, NEW c, Valid(c), NEW n \in Nat, n <= MaxBlockBytes, n < Base4,
         Holds(c, c.pos, LittleEndian(n, 4))
  PROVE  Gets(c, Size(c), 4, n)
  <1>r. PICK r, u : r = ReadU32(c) /\ u = AsUsize(r)
    OBVIOUS
  <1>0. n \in U32s /\ MaxBlockBytes \in Nat
    BY BasePowers, PrefixLengths DEF U32s
  <1>1. Gets(c, r, 4, n)
    BY <1>r, <1>0, U32Meets
  <1>2. n % (UsizeMax + 1) = n
    <2>1. n < UsizeMax + 1 /\ UsizeMax \in Nat
      BY BasePowers, BlkFileAssumption, CursorAssumption
    <2>2. QED
      BY <2>1
  <1>3. Gets(c, u, 4, n)
    <2>1. CASE r.ok
      <3>1. r.val = n
        BY <1>1, <2>1 DEF Gets
      <3>2. u = Ok(r.cur, n, r.got)
        BY <1>r, <1>2, <2>1, <3>1 DEF AsUsize
      <3>3. u.ok = TRUE /\ u.cur = r.cur /\ u.val = n
        BY <3>2 DEF Ok, Result
      <3>4. QED
        BY <1>1, <2>1, <3>3 DEF Gets, Meets
    <2>2. CASE ~ r.ok
      <3>1. u = r
        BY <1>r, <2>2 DEF AsUsize
      <3>2. QED
        BY <1>1, <3>1
    <2>3. QED
      BY <2>1, <2>2
  <1>4. Size(c) = Capped(u, MaxBlockBytes)
    BY <1>r DEF Size
  <1>5. QED
    BY <1>0, <1>3, <1>4, CheckMeets

(* What an entry is written as.                                            *)
LEMMA EntryBytes ==
  ASSUME NEW b, BlockFits(b)
  PROVE  /\ EncodeEntry(b) \in Seq(Byte) /\ Len(EncodeEntry(b)) = 8 + Len(b)
         /\ Three(EncodeEntry(b), Magic, LittleEndian(Len(b), 4), b)
         /\ Len(LittleEndian(Len(b), 4)) = 4 /\ Len(Magic) = 4
  <1>0. b \in Seq(Byte) /\ Len(b) \in Nat
    BY DEF BlockFits
  <1>m. PICK m, l, ml : m = Magic /\ l = LittleEndian(Len(b), 4) /\ ml = m \o l
    OBVIOUS
  <1>1. m \in Seq(Byte) /\ Len(m) = 4
    BY <1>m, BlkFileAssumption
  <1>2. l \in Seq(Byte) /\ Len(l) = 4
    BY <1>0, <1>m, LowBytes DEF LittleEndian
  <1>3. ml \in Seq(Byte) /\ Len(ml) = 8
    <2>1. m \o l \in Seq(Byte) /\ Len(m \o l) = Len(m) + Len(l)
      BY <1>1, <1>2, Joined
    <2>2. QED
      BY <1>1, <1>2, <1>m, <2>1
  <1>4. EncodeEntry(b) = ml \o b
    BY <1>m DEF EncodeEntry
  <1>5. EncodeEntry(b) \in Seq(Byte) /\ Len(EncodeEntry(b)) = 8 + Len(b)
    BY <1>0, <1>3, <1>4, Joined
  <1>6. Three(EncodeEntry(b), Magic, LittleEndian(Len(b), 4), b)
    BY <1>0, <1>1, <1>2, <1>m, <1>4 DEF Three
  <1>7. QED
    BY <1>1, <1>2, <1>5, <1>6, <1>m

(* An entry as written is read back.                                       *)
LEMMA EntryMeets ==
  ASSUME DataOK, NEW c, Valid(c), NEW b, BlockFits(b), Holds(c, c.pos, EncodeEntry(b)),
         c.pos + Len(EncodeEntry(b)) <= c.len
  PROVE  /\ Entry(c).ok = TRUE /\ Entry(c).cur.pos = c.pos + Len(EncodeEntry(b))
         /\ Entry(c).val.kind = "block" /\ BytesOf(Entry(c).val.bytes) = b
  <1>0. b \in Seq(Byte) /\ Len(b) \in Nat /\ Len(b) <= MaxBlockBytes /\ Len(b) < Base4
    BY DEF BlockFits
  <1>n. PICK n : n = Len(b)
    OBVIOUS
  <1>1. /\ Three(EncodeEntry(b), Magic, LittleEndian(n, 4), b)
        /\ Len(LittleEndian(n, 4)) = 4 /\ Len(Magic) = 4 /\ Len(EncodeEntry(b)) = 8 + n
    BY <1>n, EntryBytes
  <1>v. c.lo \in Nat /\ c.len \in Nat /\ c.pos \in Nat
        /\ c.lo + c.len <= Len(data) /\ Len(data) \in Nat
    BY DEF Valid, DataOK
  <1>2. Holds(c, c.pos, Magic) /\ Holds(c, c.pos + 4, LittleEndian(n, 4)) /\ Holds(c, c.pos + 8, b)
    <2>1. /\ Holds(c, c.pos, Magic) /\ Holds(c, c.pos + Len(Magic), LittleEndian(n, 4))
          /\ Holds(c, c.pos + Len(Magic) + Len(LittleEndian(n, 4)), b)
      <3>1. Holds(c, c.pos, EncodeEntry(b))
        OBVIOUS
      <3>2. QED
        <4>1. PICK s, m, l : s = EncodeEntry(b) /\ m = Magic /\ l = LittleEndian(n, 4)
          OBVIOUS
        <4>2. Three(s, m, l, b) /\ Holds(c, c.pos, s) /\ c.len \in Nat /\ c.lo \in Nat /\ c.pos \in Nat
          BY <1>1, <1>v, <3>1, <4>1
        <4>3. Holds(c, c.pos, m) /\ Holds(c, c.pos + Len(m), l) /\ Holds(c, c.pos + Len(m) + Len(l), b)
          BY <4>2, HoldsThree
        <4>4. QED
          BY <4>1, <4>3
    <2>2. c.pos + 4 + 4 = c.pos + 8
      BY <1>v
    <2>3. QED
      BY <1>1, <2>1, <2>2
  <1>3. c.pos + 4 <= c.len /\ c.pos + 8 <= c.len /\ c.pos + 8 + n <= c.len /\ n \in Nat
    BY <1>0, <1>1, <1>n, <1>v
  <1>m. PICK m : m = KnownMagic(c)
    OBVIOUS
  <1>4. /\ m.ok = TRUE /\ m.cur = MoveTo(c, c.pos + 4) /\ Valid(m.cur)
    <2>1. Meets(c, m, 4)
      BY <1>2, <1>m, MagicMeets
    <2>2. m.ok = TRUE
      BY <1>3, <2>1 DEF Meets
    <2>3. QED
      BY <2>1, <2>2, MetIsValid
  <1>5. m.cur.pos = c.pos + 4 /\ m.cur.lo = c.lo /\ m.cur.len = c.len
    BY <1>4 DEF MoveTo
  <1>s. PICK s : s = Size(m.cur)
    OBVIOUS
  <1>6. /\ s.ok = TRUE /\ s.val = n /\ Valid(s.cur)
        /\ s.cur.pos = c.pos + 8 /\ s.cur.lo = c.lo /\ s.cur.len = c.len
    <2>1. Holds(m.cur, m.cur.pos, LittleEndian(n, 4))
      BY <1>2, <1>4, <1>5, HoldsMoved
    <2>2. Gets(m.cur, s, 4, n)
      BY <1>0, <1>3, <1>4, <1>n, <1>s, <2>1, SizeMeets
    <2>3. m.cur.pos + 4 <= m.cur.len /\ m.cur.pos + 4 = c.pos + 8
      <3>1. c.pos + 4 + 4 = c.pos + 8
        BY <1>v
      <3>2. QED
        BY <1>3, <1>5, <3>1
    <2>4. s.ok = TRUE /\ s.val = n /\ s.cur = MoveTo(m.cur, m.cur.pos + 4)
      BY <2>2, <2>3 DEF Gets, Meets
    <2>5. Valid(s.cur)
      BY <1>4, <2>2, <2>4, MetIsValid DEF Gets
    <2>6. QED
      BY <1>5, <2>3, <2>4, <2>5 DEF MoveTo
  <1>b. PICK k : k = ReadBytes(s.cur, s.val)
    OBVIOUS
  <1>7. /\ k.ok = TRUE /\ k.cur.pos = c.pos + 8 + n
        /\ k.val = Slice(c.lo + (c.pos + 8), c.lo + (c.pos + 8) + n)
    <2>1. Gets(s.cur, k, n, Slice(s.cur.lo + s.cur.pos, s.cur.lo + s.cur.pos + n))
      BY <1>3, <1>6, <1>b, BytesMeet
    <2>2. k.ok = TRUE /\ k.cur = MoveTo(s.cur, s.cur.pos + n)
          /\ k.val = Slice(s.cur.lo + s.cur.pos, s.cur.lo + s.cur.pos + n)
      BY <1>3, <1>6, <2>1 DEF Gets, Meets
    <2>3. QED
      BY <1>6, <2>2 DEF MoveTo
  <1>8. BytesOf(k.val) = b
    <2>1. c.pos + 8 \in Nat /\ (c.pos + 8) + Len(b) <= c.len
      BY <1>3, <1>n, <1>v
    <2>2. Bytes(Slice(c.lo + (c.pos + 8), c.lo + (c.pos + 8) + Len(b))) = b
      BY <1>0, <1>2, <2>1, BytesHeld
    <2>3. c.lo + (c.pos + 8) \in Nat /\ (c.lo + (c.pos + 8)) + n <= Len(data)
      <3>1. PICK p, q : p = c.pos /\ q = c.lo
        OBVIOUS
      <3>2. p \in Nat /\ q \in Nat /\ p + 8 + n <= c.len /\ q + c.len <= Len(data)
        BY <1>3, <1>v, <3>1
      <3>3. q + (p + 8) \in Nat /\ (q + (p + 8)) + n <= Len(data)
        BY <1>3, <1>v, <3>2
      <3>4. QED
        BY <3>1, <3>3
    <2>4. QED
      BY <1>3, <1>7, <1>n, <2>2, <2>3, BytesOfIs
  <1>e. PICK e : e = Ok(k.cur, SomeBlock(k.val), {})
    OBVIOUS
  <1>9. Entry(c) = After(m, After(s, After(k, e)))
    BY <1>4, <1>6, <1>7, <1>m, <1>s, <1>b, <1>e DEF Entry, AndThen
  <1>10. e.ok = TRUE /\ e.cur = k.cur /\ e.val.kind = "block" /\ e.val.bytes = k.val
    BY <1>e DEF Ok, Result, SomeBlock
  <1>11. Entry(c).ok = TRUE /\ Entry(c).cur = k.cur /\ Entry(c).val = e.val
    BY <1>9, <1>10 DEF After, Result
  <1>12. c.pos + Len(EncodeEntry(b)) = c.pos + 8 + n
    BY SMTT(30), <1>1, <1>3, <1>v
  <1>13. QED
    BY <1>7, <1>8, <1>10, <1>11, <1>12

(* The entries of a file, one after the other.                             *)
Entries(f) == [i \in 1 .. Len(f) |-> EncodeEntry(f[i])]

(* What the client has of a file of well-formed entries.                   *)
AsWritten(f) ==
  data = EncodeFile(f) =>
    /\ ~ failures
    /\ Len(blocks) <= Len(f)
    /\ file.pos = Upto(Entries(f), Len(blocks))
    /\ \A k \in 1 .. Len(blocks) : BytesOf(blocks[k]) = f[k]
    /\ answer.val.kind = "end" => Len(blocks) = Len(f)

(* A file is its entries, joined.                                          *)
LEMMA FileEntries ==
  ASSUME NEW f \in Files
  PROVE  /\ EncodeFile(f) = FlattenSeq(Entries(f)) /\ Len(f) \in Nat
         /\ Entries(f) \in Seq(Seq(Byte)) /\ Len(Entries(f)) = Len(f)
         /\ \A k \in 1 .. Len(f) : BlockFits(f[k]) /\ Entries(f)[k] = EncodeEntry(f[k])
  <1>1. f \in Seq(Seq(Byte)) /\ Len(f) \in Nat
    BY FilesAssumption
  <1>2. \A k \in 1 .. Len(f) : BlockFits(f[k])
    BY FilesAssumption, <1>1 DEF BlockFits
  <1>3. EncodeFile(f) = FlattenSeq(Entries(f))
    BY DEF EncodeFile, Each, Entries
  <1>4. \A k \in 1 .. Len(f) : EncodeEntry(f[k]) \in Seq(Byte)
    BY <1>2, EntryBytes
  <1>5. Entries(f) \in Seq(Seq(Byte)) /\ Len(Entries(f)) = Len(f)
        /\ \A k \in 1 .. Len(f) : Entries(f)[k] = EncodeEntry(f[k])
    BY <1>1, <1>4 DEF Entries
  <1>6. QED
    BY <1>1, <1>2, <1>3, <1>5

(* The client starts before the first entry.                               *)
LEMMA StartsWritten ==
  ASSUME Init, NEW f \in Files
  PROVE  AsWritten(f)
  <1>1. blocks = <<>> /\ ~ failures /\ answer.val.kind = "none" /\ file.pos = 0
    BY DEF Init, NoAnswer, NoValue, CursorNew
  <1>2. Len(blocks) = 0
    BY <1>1
  <1>3. Upto(Entries(f), 0) = 0 /\ Len(f) \in Nat
    BY FileEntries, FrontEnds
  <1>4. QED
    BY <1>1, <1>2, <1>3 DEF AsWritten

(* The next entry is where the cursor is, or there is none.                *)
LEMMA NextEntry ==
  ASSUME NEW f \in Files, data = EncodeFile(f), NEW n \in 0 .. Len(f)
  PROVE  LET p == Upto(Entries(f), n) IN
         /\ p \in Nat
         /\ p < Len(data) <=> n < Len(f)
         /\ n < Len(f) =>
              /\ Upto(Entries(f), n + 1) = p + Len(EncodeEntry(f[n + 1]))
              /\ p + Len(EncodeEntry(f[n + 1])) <= Len(data)
              /\ BlockFits(f[n + 1])
              /\ \A c : c.lo = 0 /\ c.len = Len(data) => Holds(c, p, EncodeEntry(f[n + 1]))
  <1>s. PICK s : s = Entries(f)
    OBVIOUS
  <1>1. /\ data = FlattenSeq(s) /\ s \in Seq(Seq(Byte)) /\ Len(s) = Len(f) /\ Len(f) \in Nat
        /\ \A k \in 1 .. Len(f) : BlockFits(f[k]) /\ s[k] = EncodeEntry(f[k])
    BY <1>s, FileEntries
  <1>2. CASE n = Len(f)
    <2>1. FirstOf(s, Len(s)) = FlattenSeq(s) /\ FirstOf(s, Len(s)) \in Seq(Byte)
      <3>1. Len(s) \in 0 .. Len(s)
        BY <1>1
      <3>2. QED
        BY <1>1, <3>1, FrontEnds, FrontGrows
    <2>2. Upto(s, n) = Len(data) /\ Len(data) \in Nat
      BY <1>1, <1>2, <2>1 DEF Upto
    <2>3. QED
      BY <1>2, <1>s, <1>1, <2>2
  <1>3. CASE n # Len(f)
    <2>1. n \in 0 .. Len(s) - 1 /\ n + 1 \in 1 .. Len(f) /\ n < Len(f)
      BY <1>1, <1>3
    <2>e. PICK e : e = EncodeEntry(f[n + 1])
      OBVIOUS
    <2>2. s[n + 1] = e /\ BlockFits(f[n + 1])
      BY <1>1, <2>1, <2>e
    <2>3. Upto(s, n) \in Nat /\ Upto(s, n + 1) = Upto(s, n) + Len(e) /\ Upto(s, n + 1) <= Len(data)
      BY <1>1, <2>1, <2>2, UptoMore
    <2>4. Len(e) = 8 + Len(f[n + 1]) /\ Len(f[n + 1]) \in Nat /\ e \in Seq(Byte)
      BY <2>2, <2>e, EntryBytes DEF BlockFits
    <2>5. Len(data) \in Nat
      <3>1. FirstOf(s, Len(s)) = FlattenSeq(s) /\ FirstOf(s, Len(s)) \in Seq(Byte)
        <4>1. Len(s) \in 0 .. Len(s)
          BY <1>1
        <4>2. QED
          BY <1>1, <4>1, FrontEnds, FrontGrows
      <3>2. QED
        BY <1>1, <3>1
    <2>6. Upto(s, n) < Len(data)
      BY <2>3, <2>4, <2>5
    <2>7. ASSUME NEW c, c.lo = 0, c.len = Len(data)
          PROVE  Holds(c, Upto(s, n), e)
      <3>1. c.len \in Nat /\ c.lo \in Nat
        BY <2>5, <2>7
      <3>2. Holds(c, 0, FlattenSeq(s))
        <4>1. Holds(c, 0, data)
          <5>1. \A i \in 1 .. Len(data) : c.lo + 0 + i = i
            BY <2>7
          <5>2. QED
            BY <5>1 DEF Holds
        <4>2. QED
          BY <1>1, <4>1
      <3>3. Holds(c, 0 + Upto(s, n), s[n + 1])
        BY <1>1, <2>1, <3>1, <3>2, HoldsEach
      <3>4. 0 + Upto(s, n) = Upto(s, n)
        BY <2>3
      <3>5. QED
        BY <2>2, <3>3, <3>4
    <2>8. QED
      BY <1>s, <2>1, <2>2, <2>3, <2>6, <2>7, <2>e
  <1>4. QED
    BY <1>2, <1>3

(* A call returns the next block of such a file, or None behind the last.  *)
LEMMA StaysWritten ==
  ASSUME TypeOK, CallNextBlock, NEW f \in Files, AsWritten(f)
  PROVE  AsWritten(f)'
  <1>1. SUFFICES ASSUME data' = EncodeFile(f)
                 PROVE  /\ ~ failures'
                        /\ Len(blocks') <= Len(f)
                        /\ file'.pos = Upto(Entries(f), Len(blocks'))
                        /\ \A k \in 1 .. Len(blocks') : (BytesOf(blocks[k]) = f[k])'
                        /\ answer'.val.kind = "end" => Len(blocks') = Len(f)
    BY DEF AsWritten
  <1>2. /\ data' = data /\ file' = NextBlock(file).cur
        /\ answer'.val = NextBlock(file).val
        /\ blocks' = IF NextBlock(file).ok /\ NextBlock(file).val.kind = "block"
                     THEN Append(blocks, NextBlock(file).val.bytes) ELSE blocks
        /\ failures' = (failures \/ ~ NextBlock(file).ok)
    BY DEF CallNextBlock
  <1>3. /\ data = EncodeFile(f) /\ ~ failures /\ Len(blocks) <= Len(f)
        /\ file.pos = Upto(Entries(f), Len(blocks))
        /\ \A k \in 1 .. Len(blocks) : BytesOf(blocks[k]) = f[k]
    BY <1>1, <1>2 DEF AsWritten
  <1>4. /\ DataOK /\ Len(data) \in Nat /\ Valid(file) /\ Len(blocks) \in Nat
        /\ file.lo = 0 /\ file.len = Len(data) /\ file.pos \in 0 .. Len(data)
        /\ blocks \in Seq(BlocksOf(Len(data)))
    BY FileCursor DEF TypeOK
  <1>n. PICK n : n = Len(blocks)
    OBVIOUS
  <1>5. n \in 0 .. Len(f) /\ Len(f) \in Nat
    BY <1>3, <1>4, <1>n, FileEntries
  <1>6. /\ file.pos < Len(data) <=> n < Len(f)
        /\ n < Len(f) =>
              /\ Upto(Entries(f), n + 1) = file.pos + Len(EncodeEntry(f[n + 1]))
              /\ file.pos + Len(EncodeEntry(f[n + 1])) <= file.len
              /\ BlockFits(f[n + 1])
              /\ Holds(file, file.pos, EncodeEntry(f[n + 1]))
    BY <1>3, <1>4, <1>5, <1>n, NextEntry
  <1>7. \A s : BytesOf(s)' = BytesOf(s)
    BY <1>2 DEF BytesOf, At
  <1>8. CASE n = Len(f)
    <2>1. IsEmpty(file)
      BY <1>4, <1>5, <1>6, <1>8 DEF IsEmpty
    <2>2. NextBlock(file) = Ok(file, NoBlock, {})
      BY <2>1 DEF NextBlock
    <2>3. /\ NextBlock(file).ok = TRUE /\ NextBlock(file).cur = file
          /\ NextBlock(file).val.kind = "end"
      BY <2>2 DEF Ok, Result, NoBlock
    <2>4. blocks' = blocks /\ ~ failures' /\ file' = file
      BY <1>2, <1>3, <2>3
    <2>5. QED
      BY <1>3, <1>7, <1>8, <1>n, <2>4
  <1>9. CASE n # Len(f)
    <2>1. n < Len(f)
      BY <1>5, <1>9
    <2>2. NextBlock(file) = Entry(file)
      <3>1. ~ IsEmpty(file)
        BY <1>4, <1>6, <2>1 DEF IsEmpty
      <3>2. QED
        BY <3>1 DEF NextBlock
    <2>3. /\ Entry(file).ok = TRUE
          /\ Entry(file).cur.pos = file.pos + Len(EncodeEntry(f[n + 1]))
          /\ Entry(file).val.kind = "block" /\ BytesOf(Entry(file).val.bytes) = f[n + 1]
      BY <1>4, <1>6, <2>1, EntryMeets
    <2>s. PICK s : s = Entry(file).val.bytes
      OBVIOUS
    <2>4. /\ blocks' = Append(blocks, s) /\ ~ failures' /\ BytesOf(s) = f[n + 1]
          /\ file'.pos = Upto(Entries(f), n + 1) /\ answer'.val.kind # "end"
      BY <1>2, <1>3, <1>6, <2>1, <2>2, <2>3, <2>s
    <2>5. /\ Len(blocks') = n + 1 /\ blocks'[n + 1] = s
          /\ \A k \in 1 .. n : blocks'[k] = blocks[k]
      BY <1>4, <1>n, <2>4
    <2>6. Len(blocks') <= Len(f)
      BY <1>5, <2>1, <2>5
    <2>7. ASSUME NEW k \in 1 .. Len(blocks')
          PROVE  (BytesOf(blocks[k]) = f[k])'
      <3>1. BytesOf(blocks[k])' = BytesOf(blocks'[k])
        BY <1>2 DEF BytesOf, At
      <3>2. CASE k = n + 1
        BY <2>4, <2>5, <3>1, <3>2
      <3>3. CASE k # n + 1
        <4>1. k \in 1 .. n
          BY <1>5, <2>5, <3>3
        <4>2. QED
          BY <1>3, <1>n, <2>5, <3>1, <4>1
      <3>4. QED
        BY <3>2, <3>3
    <2>8. QED
      BY <2>4, <2>5, <2>6, <2>7
  <1>10. QED
    BY <1>8, <1>9

(* The inductive invariant of the round trip: the client has the first of  *)
(* the blocks, and the cursor is behind their entries.                     *)
Written == IInv /\ \A f \in Files : AsWritten(f)

(* It is FileRoundTrip with the place of the cursor.                       *)
LEMMA WrittenIsRead == Written => FileRoundTrip
  <1>1. SUFFICES ASSUME Written, NEW f \in Files, data = EncodeFile(f)
                 PROVE  /\ ~ failures
                        /\ IsPrefix([k \in 1 .. Len(blocks) |-> BytesOf(blocks[k])], f)
                        /\ answer.val = NoBlock => Len(blocks) = Len(f)
    BY DEF FileRoundTrip
  <1>2. /\ ~ failures /\ Len(blocks) <= Len(f)
        /\ \A k \in 1 .. Len(blocks) : BytesOf(blocks[k]) = f[k]
        /\ answer.val.kind = "end" => Len(blocks) = Len(f)
    BY <1>1 DEF Written, AsWritten
  <1>3. Len(blocks) \in Nat /\ f \in Seq(Seq(Byte)) /\ Len(f) \in Nat
    BY <1>1, FilesAssumption DEF Written, IInv, TypeOK
  <1>n. PICK n : n = Len(blocks)
    OBVIOUS
  <1>g. PICK g : g = [k \in 1 .. n |-> f[k]]
    OBVIOUS
  <1>4. g = [k \in 1 .. Len(blocks) |-> BytesOf(blocks[k])]
    BY <1>2, <1>n, <1>g
  <1>5. g \in Seq(Seq(Byte)) /\ Len(g) = n /\ n <= Len(f) /\ n \in Nat
        /\ \A k \in 1 .. n : g[k] = f[k]
    BY <1>2, <1>3, <1>n, <1>g
  <1>6. IsPrefix(g, f)
    <2>a. PICK a, b : a = SubSeq(g, 1, n) /\ b = SubSeq(f, 1, n)
      OBVIOUS
    <2>1. a \in Seq(Seq(Byte)) /\ Len(a) = n /\ \A k \in 1 .. n : a[k] = g[k]
      BY <1>5, <2>a
    <2>2. b \in Seq(Seq(Byte)) /\ Len(b) = n /\ \A k \in 1 .. n : b[k] = f[k]
      BY <1>3, <1>5, <2>a
    <2>3. a = b
      <3>1. PICK T : T = Seq(Byte)
        OBVIOUS
      <3>2. a \in Seq(T) /\ b \in Seq(T) /\ Len(a) = n /\ Len(b) = n
        BY <2>1, <2>2, <3>1
      <3>3. \A k \in 1 .. n : a[k] = b[k]
        BY <1>5, <2>1, <2>2
      <3>4. QED
        BY <3>2, <3>3
    <2>4. QED
      BY <1>5, <2>3, <2>a DEF IsPrefix
  <1>7. QED
    BY <1>2, <1>4, <1>6 DEF NoBlock

(* Whatever the blocks and however often the client calls, it gets the     *)
(* blocks written, in their order, and then None, and no call fails.       *)
THEOREM FilesReadBack == Spec => []FileRoundTrip
  <1>1. Init => Written
    BY InitEstablishes, StartsWritten DEF Written
  <1>2. Written /\ [Next]_vars => Written'
    <2>1. SUFFICES ASSUME Written, [Next]_vars
                   PROVE  Written'
      OBVIOUS
    <2>2. CASE CallNextBlock
      <3>1. \A f \in Files : AsWritten(f)'
        BY <2>1, <2>2, StaysWritten DEF Written, IInv
      <3>2. IInv'
        BY <2>1, NextPreserves DEF Written
      <3>3. QED
        BY <3>1, <3>2 DEF Written
    <2>3. CASE UNCHANGED vars
      <3>1. \A s : BytesOf(s)' = BytesOf(s)
        BY <2>3 DEF vars, BytesOf, At
      <3>2. \A f \in Files : AsWritten(f)'
        BY <2>1, <2>3, <3>1 DEF Written, AsWritten, vars, BytesOf, At
      <3>3. IInv'
        BY <2>1, NextPreserves DEF Written
      <3>4. QED
        BY <3>2, <3>3 DEF Written
    <2>4. QED
      BY <2>1, <2>2, <2>3 DEF Next
  <1>3. QED
    BY <1>1, <1>2, WrittenIsRead, PTL DEF Spec
=============================================================================
