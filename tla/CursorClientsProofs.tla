------------------------- MODULE CursorClientsProofs -------------------------
(***************************************************************************)
(* The properties of CursorClients, for every set of cursor names, every   *)
(* set of input buffers and every length and cap a client may pass.        *)
(*                                                                         *)
(* Two observations carry the proof.  Whatever the method, a call moves    *)
(* one cursor over the bytes it took (ReadIsCall), and a cursor made by    *)
(* new or clone begins a line of its own (CreateBeginsLine); so OneOwner   *)
(* has to be shown for three kinds of step only: Call, BeginAt and SplitOff. *)
(***************************************************************************)
EXTENDS CursorClients, ParsingLemmas

(* The inductive invariant.                                                *)
IInv == TypeOK /\ OneOwner /\ EofIsExact

-----------------------------------------------------------------------------
(* Every cursor in a window is Valid, and the converse.                    *)

LEMMA ValidIffOver ==
  ASSUME DataOK, NEW c
  PROVE  c \in CursorsOver(Len(data)) <=> Valid(c)
  <1>1. Len(data) \in Nat
    BY DEF DataOK
  <1>2. QED
    BY <1>1 DEF CursorsOver, Valid

(* The buffer is one, and every live cursor is Valid in it.                *)
LEMMA LiveValid ==
  ASSUME TypeOK, NEW i \in Live
  PROVE  DataOK /\ Valid(cursors[i])
  <1>1. DataOK /\ cursors[i] \in CursorsOver(Len(data))
    BY DEF TypeOK
  <1>2. QED
    BY <1>1, ValidIffOver

(* Every method call moves one cursor over exactly what it took, and what  *)
(* a failed one may lose is bounded by its kind.                           *)
LEMMA ReadIsCall ==
  ASSUME TypeOK, NEW i \in Live, Method(i)
  PROVE  \E op \in DOMAIN MayLose : \E r :
           Call(i, op, r) /\ Reads(cursors[i], r, MayLose[op])
  <1> DEFINE c == cursors[i]
  <1>0. DataOK /\ Valid(c)
    BY LiveValid
  <1> HIDE DEF c
  <1>1. DOMAIN MayLose = {"read", "read_varint", "read_var_bytes"}
        /\ MayLose["read"] = 0 /\ MayLose["read_varint"] = 1 /\ MayLose["read_var_bytes"] = 9
    BY DEF MayLose
  <1>2. ASSUME NEW r, Call(i, "read", r), Reads(c, r, 0)
        PROVE  \E op \in DOMAIN MayLose : \E q : Call(i, op, q) /\ Reads(c, q, MayLose[op])
    BY <1>1, <1>2
  <1>3. ASSUME NEW n \in Lengths
        PROVE  n \in Nat
    BY <1>3, ClientAssumption, CursorAssumption
  <1>4. ASSUME NEW n \in Caps
        PROVE  n \in Nat
    BY <1>4, ClientAssumption, CursorAssumption
  <1>5. CASE DoReadBytes(i)
    BY <1>0, <1>2, <1>3, <1>5, ReadBytesLemma DEF DoReadBytes, c
  <1>6. CASE DoReadArray(i)
    BY <1>0, <1>2, <1>3, <1>6, ReadBytesLemma DEF DoReadArray, ReadArray, c
  <1>7. CASE DoSkip(i)
    BY <1>0, <1>2, <1>3, <1>7, ReadBytesLemma DEF DoSkip, Skip, c
  <1>8. CASE SplitFails(i)
    BY <1>0, <1>2, <1>3, <1>8, SplitLemma DEF SplitFails, c
  <1>9. CASE DoReadU8(i)
    BY <1>0, <1>2, <1>9, ReadU8Lemma DEF DoReadU8, c
  <1>10. CASE DoReadU16(i)
    BY <1>0, <1>2, <1>10, UnsignedLemma DEF DoReadU16, IntRead, c
  <1>11. CASE DoReadU32(i)
    BY <1>0, <1>2, <1>11, UnsignedLemma DEF DoReadU32, IntRead, c
  <1>12. CASE DoReadU64(i)
    BY <1>0, <1>2, <1>12, UnsignedLemma DEF DoReadU64, IntRead, c
  <1>13. CASE DoReadI32(i)
    BY <1>0, <1>2, <1>13, SignedLemma DEF DoReadI32, IntRead, c
  <1>14. CASE DoReadI64(i)
    BY <1>0, <1>2, <1>14, SignedLemma DEF DoReadI64, IntRead, c
  <1>15. CASE DoReadVarint(i)
    BY <1>0, <1>1, <1>15, ReadVarintLemma DEF DoReadVarint, c
  <1>16. CASE DoReadVarBytes(i)
    BY <1>0, <1>1, <1>4, <1>16, ReadVarBytesLemma DEF DoReadVarBytes, c
  <1>17. QED
    BY <1>5, <1>6, <1>7, <1>8, <1>9, <1>10, <1>11, <1>12, <1>13, <1>14, <1>15, <1>16
    DEF Method, c

-----------------------------------------------------------------------------
(* OneOwner byte by byte: what is accounted for is what the line was given *)
(* (Complete), and nothing is accounted for twice (Exclusive).             *)

Complete(l) ==
  \A x : (x \in taken[l] \/ \E i \in Live : line[i] = l /\ x \in Unread(i))
          <=> x \in Offsets(span[l])

Exclusive(l) ==
  \A i \in Live : line[i] = l =>
    \A x \in Unread(i) :
      /\ x \notin taken[l]
      /\ \A j \in Live : line[j] = l /\ x \in Unread(j) => j = i

(* OneOwner in the two parts that the steps below preserve.                *)
LEMMA OneOwnerByByte ==
  OneOwner <=> \A l \in DOMAIN span : Complete(l) /\ Exclusive(l)
  <1>1. ASSUME NEW l
        PROVE  Complete(l) <=>
                 taken[l] \cup UNION {Unread(i) : i \in {i \in Live : line[i] = l}}
                   = Offsets(span[l])
    BY DEF Complete
  <1>2. ASSUME NEW l
        PROVE  Exclusive(l) <=>
                 \A i \in {i \in Live : line[i] = l} :
                   /\ Unread(i) \cap taken[l] = {}
                   /\ \A j \in {i2 \in Live : line[i2] = l} \ {i} : Unread(i) \cap Unread(j) = {}
    BY DEF Exclusive
  <1>3. QED
    BY <1>1, <1>2 DEF OneOwner

(* The bytes a cursor has not read, and how a call divides them.           *)
LEMMA CallDivides ==
  ASSUME DataOK, NEW c, Valid(c), NEW r, Forward(c, r)
  PROVE  /\ Valid(r.cur)
         /\ r.got \cup Offsets(AsSlice(r.cur)) = Offsets(AsSlice(c))
         /\ r.got \cap Offsets(AsSlice(r.cur)) = {}
         /\ Offsets(AsSlice(c)) \subseteq Offsets(AllData)
  <1>1. /\ c.lo \in Nat /\ c.len \in Nat /\ c.pos \in Nat /\ c.pos <= c.len
        /\ c.lo + c.len <= Len(data) /\ Len(data) \in Nat
    BY ValidFields
  <1>2. /\ r.cur \in [lo : Nat, len : Nat, pos : Nat]
        /\ r.cur.lo = c.lo /\ r.cur.len = c.len
        /\ c.pos <= r.cur.pos /\ r.cur.pos <= c.len
        /\ r.got = c.lo + c.pos .. (c.lo + r.cur.pos) - 1
    BY DEF Forward
  <1>3. Valid(r.cur)
    BY <1>1, <1>2 DEF Valid
  <1>4. /\ Offsets(AsSlice(c)) = c.lo + c.pos .. (c.lo + c.len) - 1
        /\ Offsets(AsSlice(r.cur)) = c.lo + r.cur.pos .. (c.lo + c.len) - 1
        /\ Offsets(AllData) = 0 .. Len(data) - 1
    BY <1>1, <1>2 DEF Offsets, AsSlice, AllData, Slice
  <1>5. /\ c.lo + c.pos \in Int /\ c.lo + r.cur.pos \in Int /\ c.lo + c.len \in Int
        /\ c.lo + c.pos <= c.lo + r.cur.pos /\ c.lo + r.cur.pos <= c.lo + c.len
    BY SMTT(60), <1>1, <1>2
  <1>6. /\ r.got \cup Offsets(AsSlice(r.cur)) = Offsets(AsSlice(c))
        /\ r.got \cap Offsets(AsSlice(r.cur)) = {}
    BY <1>2, <1>4, <1>5, AdjacentIntervals
  <1>7. Offsets(AsSlice(c)) \subseteq Offsets(AllData)
    BY <1>1, <1>4
  <1>8. QED
    BY <1>3, <1>6, <1>7

-----------------------------------------------------------------------------
(* A call.                                                                 *)

(* A method call that reads its r.got off cursor i keeps the invariant.    *)
LEMMA CallPreserves ==
  ASSUME IInv, NEW i \in Live, NEW op, NEW r, NEW k,
         Call(i, op, r), Reads(cursors[i], r, k)
  PROVE  IInv'
  <1>1. /\ DataOK /\ Valid(cursors[i]) /\ TypeOK /\ OneOwner
        /\ Forward(cursors[i], r) /\ FailsWithin(cursors[i], r, k)
    BY LiveValid DEF IInv, Reads
  <1>2. /\ Valid(r.cur)
        /\ r.got \cup Offsets(AsSlice(r.cur)) = Unread(i)
        /\ r.got \cap Offsets(AsSlice(r.cur)) = {}
        /\ Unread(i) \subseteq Offsets(AllData)
    BY <1>1, CallDivides DEF Unread
  <1>3. /\ data' = data /\ line' = line /\ span' = span
        /\ cursors' = [cursors EXCEPT ![i] = r.cur]
        /\ taken' = [taken EXCEPT ![line[i]] = taken[line[i]] \cup r.got]
        /\ failure' = Outcome(i, op, r)
    BY DEF Call
  <1>4. Live' = Live /\ line[i] \in DOMAIN span /\ DOMAIN taken = DOMAIN span
        /\ DOMAIN cursors = Live
    BY <1>1, <1>3 DEF Live, TypeOK
  <1>5. /\ Unread(i)' = Offsets(AsSlice(r.cur))
        /\ \A j \in Live \ {i} : Unread(j)' = Unread(j)
        /\ taken'[line[i]] = taken[line[i]] \cup r.got
        /\ \A l \in DOMAIN span \ {line[i]} : taken'[l] = taken[l]
    BY <1>3, <1>4 DEF Unread, Offsets, AsSlice, Slice
  <1>6. TypeOK'
    <2>1. DataOK' /\ AllData' = AllData
      BY <1>1, <1>3 DEF DataOK, AllData
    <2>2. r.cur \in CursorsOver(Len(data))
      BY <1>1, <1>2, ValidIffOver
    <2>3. cursors' \in [Live -> CursorsOver(Len(data))]
      BY <1>1, <1>3, <2>2 DEF TypeOK
    <2>4. taken' \in [DOMAIN span -> SUBSET Offsets(AllData)]
      <3>1. taken[line[i]] \cup r.got \in SUBSET Offsets(AllData)
        BY <1>1, <1>2, <1>4 DEF TypeOK
      <3>2. QED
        BY <1>1, <1>3, <3>1 DEF TypeOK
    <2>5. QED
      BY <1>1, <1>3, <1>4, <2>1, <2>3, <2>4 DEF TypeOK, Offsets
  <1>7. OneOwner'
    <2>1. SUFFICES ASSUME NEW l \in DOMAIN span
                   PROVE  Complete(l)' /\ Exclusive(l)'
      <3>1. (OneOwner <=> \A l \in DOMAIN span : Complete(l) /\ Exclusive(l))'
        BY OneOwnerByByte, PTL
      <3>2. QED
        BY <1>3, <3>1
    <2>2. Complete(l) /\ Exclusive(l)
      BY <1>1, OneOwnerByByte
    <2>3. CASE l = line[i]
      BY <1>2, <1>3, <1>4, <1>5, <2>2, <2>3 DEF Complete, Exclusive
    <2>4. CASE l # line[i]
      BY <1>3, <1>4, <1>5, <2>2, <2>4 DEF Complete, Exclusive
    <2>5. QED
      BY <2>3, <2>4
  <1>8. EofIsExact'
    <2>1. cursors'[i] = r.cur
      BY <1>3, <1>4
    <2>2. CASE r.ok
      BY <1>3, <2>2 DEF EofIsExact, Outcome
    <2>3. CASE ~ r.ok
      <3>1. failure' = [op |-> op, id |-> i, err |-> r.err]
        BY <1>3, <2>3 DEF Outcome
      <3>2. failure'.id = i /\ failure'.err = r.err
        BY <3>1
      <3>3. QED
        BY <1>1, <2>1, <2>3, <3>2 DEF EofIsExact, FailsWithin, Remaining
    <2>4. QED
      BY <2>2, <2>3
  <1>9. QED
    BY <1>6, <1>7, <1>8 DEF IInv

-----------------------------------------------------------------------------
(* A new line, from Cursor::new or clone.                                  *)

(* A cursor over the unread part of another has just that to read.         *)
LEMMA SliceOfCursor ==
  ASSUME DataOK, NEW c, Valid(c)
  PROVE  /\ AsSlice(c) \in SlicesOver(Len(data))
         /\ Valid(CursorNew(AsSlice(c)))
         /\ Offsets(AsSlice(CursorNew(AsSlice(c)))) = Offsets(AsSlice(c))
  <1>1. /\ c.lo \in Nat /\ c.len \in Nat /\ c.pos \in Nat /\ c.pos <= c.len
        /\ c.lo + c.len <= Len(data) /\ Len(data) \in Nat
    BY ValidFields
  <1>2. AsSlice(c) = [lo |-> c.lo + c.pos, hi |-> c.lo + c.len]
    BY DEF AsSlice, Slice
  <1>3. CursorNew(AsSlice(c)) = [lo |-> c.lo + c.pos, len |-> c.len - c.pos, pos |-> 0]
    BY <1>1, <1>2 DEF CursorNew
  <1>4. AsSlice(c) \in SlicesOver(Len(data))
    BY <1>1, <1>2 DEF SlicesOver
  <1>5. Valid(CursorNew(AsSlice(c)))
    BY <1>1, <1>3 DEF Valid
  <1>6. AsSlice(CursorNew(AsSlice(c))) = AsSlice(c)
    BY <1>1, <1>2, <1>3 DEF AsSlice, Slice
  <1>7. QED
    BY <1>4, <1>5, <1>6

(* A cursor from Cursor::new has the whole buffer to read.                 *)
LEMMA WholeBuffer ==
  ASSUME DataOK
  PROVE  /\ AllData \in SlicesOver(Len(data))
         /\ Valid(CursorNew(AllData))
         /\ Offsets(AsSlice(CursorNew(AllData))) = Offsets(AllData)
  <1>1. Len(data) \in Nat
    BY DEF DataOK
  <1>2. AllData = [lo |-> 0, hi |-> Len(data)]
        /\ CursorNew(AllData) = [lo |-> 0, len |-> Len(data), pos |-> 0]
    BY <1>1 DEF AllData, Slice, CursorNew
  <1>3. AsSlice(CursorNew(AllData)) = AllData
    BY <1>1, <1>2 DEF AsSlice, Slice
  <1>4. AllData \in SlicesOver(Len(data)) /\ Valid(CursorNew(AllData))
    BY <1>1, <1>2 DEF SlicesOver, Valid
  <1>5. QED
    BY <1>3, <1>4

(* Cursor::new and clone begin a line, with a Valid cursor over its span.  *)
LEMMA CreateBeginsLine ==
  ASSUME TypeOK, NEW j \in Ids,
         NewOver(j) \/ \E i \in Live : NewOverUnread(i, j) \/ Clone(i, j)
  PROVE  \E c, s : /\ BeginAt(j, c, s)
                   /\ Valid(c) /\ s \in SlicesOver(Len(data))
                   /\ Offsets(AsSlice(c)) = Offsets(s)
  <1>0. DataOK
    BY DEF TypeOK
  <1>1. CASE NewOver(j)
    BY <1>0, <1>1, WholeBuffer DEF NewOver
  <1>2. ASSUME NEW i \in Live, NewOverUnread(i, j)
        PROVE  \E c, s : /\ BeginAt(j, c, s)
                         /\ Valid(c) /\ s \in SlicesOver(Len(data))
                         /\ Offsets(AsSlice(c)) = Offsets(s)
    BY <1>2, LiveValid, SliceOfCursor DEF NewOverUnread
  <1>3. ASSUME NEW i \in Live, Clone(i, j)
        PROVE  \E c, s : /\ BeginAt(j, c, s)
                         /\ Valid(c) /\ s \in SlicesOver(Len(data))
                         /\ Offsets(AsSlice(c)) = Offsets(s)
    BY <1>3, LiveValid, SliceOfCursor DEF Clone
  <1>4. QED
    BY <1>1, <1>2, <1>3

(* Beginning a line keeps the invariant.                                   *)
LEMMA BeginPreserves ==
  ASSUME IInv, NEW j \in Ids, NEW c, NEW s, BeginAt(j, c, s),
         Valid(c), s \in SlicesOver(Len(data)), Offsets(AsSlice(c)) = Offsets(s)
  PROVE  IInv'
  <1>1. DataOK /\ TypeOK /\ OneOwner /\ j \notin Live /\ j \notin DOMAIN span
    BY DEF IInv, TypeOK, BeginAt
  <1>2. /\ data' = data
        /\ cursors' = With(cursors, j, c) /\ line' = With(line, j, j)
        /\ span' = With(span, j, s) /\ taken' = With(taken, j, {})
        /\ failure' = NoFailure
    BY DEF BeginAt
  <1>3. /\ DOMAIN cursors = Live /\ DOMAIN line = Live
        /\ DOMAIN taken = DOMAIN span /\ DOMAIN span \subseteq Live
        /\ \A i \in Live : line[i] \in DOMAIN span
    BY <1>1 DEF Live, TypeOK
  <1>4. /\ Live' = Live \cup {j} /\ (DOMAIN span)' = DOMAIN span \cup {j}
        /\ cursors'[j] = c /\ line'[j] = j /\ span'[j] = s /\ taken'[j] = {}
        /\ \A i \in Live : cursors'[i] = cursors[i] /\ line'[i] = line[i]
        /\ \A l \in DOMAIN span : span'[l] = span[l] /\ taken'[l] = taken[l]
    BY <1>1, <1>2, <1>3 DEF With, Live
  <1>5. /\ Unread(j)' = Offsets(s)
        /\ \A i \in Live : Unread(i)' = Unread(i)
    BY <1>4 DEF Unread, Offsets, AsSlice, Slice
  <1>6. TypeOK'
    <2>1. DataOK' /\ AllData' = AllData
      BY <1>1, <1>2 DEF DataOK, AllData
    <2>2. c \in CursorsOver(Len(data))
      BY <1>1, ValidIffOver
    <2>3. cursors' \in [Live \cup {j} -> CursorsOver(Len(data))]
      BY <1>1, <1>2, <1>3, <2>2 DEF TypeOK, With
    <2>4. line' \in [Live \cup {j} -> DOMAIN span \cup {j}]
      BY <1>1, <1>2, <1>3 DEF TypeOK, With
    <2>5. span' \in [DOMAIN span \cup {j} -> SlicesOver(Len(data))]
      BY <1>1, <1>2 DEF TypeOK, With
    <2>6. taken' \in [DOMAIN span \cup {j} -> SUBSET Offsets(AllData)]
      BY <1>1, <1>2, <1>3 DEF TypeOK, With
    <2>7. QED
      BY <1>1, <1>2, <1>3, <1>4, <2>1, <2>3, <2>4, <2>5, <2>6 DEF TypeOK, Offsets
  <1>7. OneOwner'
    <2>1. SUFFICES ASSUME NEW l \in DOMAIN span \cup {j}
                   PROVE  Complete(l)' /\ Exclusive(l)'
      <3>1. (OneOwner <=> \A l \in DOMAIN span : Complete(l) /\ Exclusive(l))'
        BY OneOwnerByByte, PTL
      <3>2. QED
        BY <1>4, <3>1
    <2>2. CASE l = j
      <3>1. \A i \in Live : line'[i] # j
        BY <1>1, <1>3, <1>4
      <3>2. QED
        BY <1>4, <1>5, <2>2, <3>1 DEF Complete, Exclusive, Offsets
    <2>3. CASE l # j
      <3>1. l \in DOMAIN span
        BY <2>3
      <3>2. Complete(l) /\ Exclusive(l)
        BY <1>1, <3>1, OneOwnerByByte
      <3>3. QED
        BY <1>4, <1>5, <2>3, <3>1, <3>2 DEF Complete, Exclusive, Offsets
    <2>4. QED
      BY <2>2, <2>3
  <1>8. EofIsExact'
    BY <1>2 DEF EofIsExact
  <1>9. QED
    BY <1>6, <1>7, <1>8 DEF IInv

-----------------------------------------------------------------------------
(* A successful split: the sub-cursor joins its parent's line.             *)

(* A split shares what was unread between the two cursors, without overlap. *)
LEMMA SplitDivides ==
  ASSUME DataOK, NEW c, Valid(c), NEW n \in Nat, Split(c, n).ok
  PROVE  LET r == Split(c, n) IN
         /\ Valid(r.cur) /\ Valid(r.val)
         /\ Offsets(AsSlice(r.val)) \cup Offsets(AsSlice(r.cur)) = Offsets(AsSlice(c))
         /\ Offsets(AsSlice(r.val)) \cap Offsets(AsSlice(r.cur)) = {}
         /\ r.cur.lo = c.lo /\ r.cur.len = c.len /\ r.cur.pos >= c.pos
  <1> DEFINE r == Split(c, n)
  <1>1. /\ c.lo \in Nat /\ c.len \in Nat /\ c.pos \in Nat /\ c.pos <= c.len
        /\ c.lo + c.len <= Len(data) /\ Len(data) \in Nat
    BY ValidFields
  <1>2. /\ r.cur = [lo |-> c.lo, len |-> c.len, pos |-> c.pos + n]
        /\ r.val = [lo |-> c.lo + c.pos, len |-> n, pos |-> 0]
        /\ n <= c.len - c.pos
    BY SplitLemma
  <1> HIDE DEF r
  <1>3. Valid(r.cur) /\ Valid(r.val)
    BY <1>1, <1>2 DEF Valid
  <1> DEFINE x == c.lo + c.pos
             y == c.lo + (c.pos + n)
             z == c.lo + c.len
  <1>4. /\ Offsets(AsSlice(c)) = x .. z - 1
        /\ Offsets(AsSlice(r.val)) = x .. y - 1
        /\ Offsets(AsSlice(r.cur)) = y .. z - 1
    BY <1>1, <1>2 DEF Offsets, AsSlice, Slice
  <1>5. x \in Int /\ y \in Int /\ z \in Int /\ x <= y /\ y <= z
    BY <1>1, <1>2
  <1>6. /\ Offsets(AsSlice(r.val)) \cup Offsets(AsSlice(r.cur)) = Offsets(AsSlice(c))
        /\ Offsets(AsSlice(r.val)) \cap Offsets(AsSlice(r.cur)) = {}
    BY <1>4, <1>5, AdjacentIntervals
  <1>7. r.cur.lo = c.lo /\ r.cur.len = c.len /\ r.cur.pos >= c.pos
    BY <1>1, <1>2
  <1>8. QED
    BY <1>3, <1>6, <1>7 DEF r

(* A split keeps the invariant and moves its own cursor only, forward.     *)
LEMMA SplitPreserves ==
  ASSUME IInv, NEW j \in Ids, NEW i \in Live, SplitOff(i, j)
  PROVE  /\ IInv'
         /\ cursors'[i].lo = cursors[i].lo /\ cursors'[i].len = cursors[i].len
         /\ cursors'[i].pos >= cursors[i].pos
         /\ \A k \in Live \ {i} : cursors'[k] = cursors[k]
  <1>1. /\ DataOK /\ TypeOK /\ OneOwner /\ Valid(cursors[i])
        /\ j \notin Live /\ j \notin DOMAIN span
    BY LiveValid DEF IInv, TypeOK, SplitOff
  <1>2. PICK n \in Lengths :
          LET r == Split(cursors[i], n) IN
          /\ r.ok
          /\ cursors' = With([cursors EXCEPT ![i] = r.cur], j, r.val)
          /\ line' = With(line, j, line[i])
          /\ failure' = Outcome(i, "read", r)
          /\ UNCHANGED <<data, span, taken>>
    BY DEF SplitOff
  <1> DEFINE r == Split(cursors[i], n)
  <1>3. n \in Nat
    BY <1>2, ClientAssumption, CursorAssumption
  <1>4. /\ Valid(r.cur) /\ Valid(r.val)
        /\ Offsets(AsSlice(r.val)) \cup Offsets(AsSlice(r.cur)) = Unread(i)
        /\ Offsets(AsSlice(r.val)) \cap Offsets(AsSlice(r.cur)) = {}
        /\ r.cur.lo = cursors[i].lo /\ r.cur.len = cursors[i].len
        /\ r.cur.pos >= cursors[i].pos
    BY <1>1, <1>2, <1>3, SplitDivides DEF Unread
  <1>5. /\ r.ok /\ data' = data /\ span' = span /\ taken' = taken
        /\ cursors' = With([cursors EXCEPT ![i] = r.cur], j, r.val)
        /\ line' = With(line, j, line[i])
        /\ failure' = Outcome(i, "read", r)
    BY <1>2
  <1> HIDE DEF r
  <1>6. /\ DOMAIN cursors = Live /\ DOMAIN line = Live
        /\ DOMAIN taken = DOMAIN span /\ DOMAIN span \subseteq Live
        /\ \A k \in Live : line[k] \in DOMAIN span
    BY <1>1 DEF Live, TypeOK
  <1>7. /\ Live' = Live \cup {j}
        /\ cursors'[j] = r.val /\ cursors'[i] = r.cur
        /\ line'[j] = line[i]
        /\ \A k \in Live \ {i} : cursors'[k] = cursors[k]
        /\ \A k \in Live : line'[k] = line[k]
    BY <1>1, <1>5, <1>6 DEF With, Live
  <1>8. /\ Unread(j)' = Offsets(AsSlice(r.val)) /\ Unread(i)' = Offsets(AsSlice(r.cur))
        /\ \A k \in Live \ {i} : Unread(k)' = Unread(k)
    BY <1>7 DEF Unread, Offsets, AsSlice, Slice
  <1>9. TypeOK'
    <2>1. DataOK' /\ AllData' = AllData
      BY <1>1, <1>5 DEF DataOK, AllData
    <2>2. r.cur \in CursorsOver(Len(data)) /\ r.val \in CursorsOver(Len(data))
      BY <1>1, <1>4, ValidIffOver
    <2>3. cursors' \in [Live \cup {j} -> CursorsOver(Len(data))]
      BY <1>1, <1>5, <1>6, <2>2 DEF TypeOK, With
    <2>4. line' \in [Live \cup {j} -> DOMAIN span]
      BY <1>1, <1>5, <1>6 DEF TypeOK, With
    <2>5. QED
      BY <1>1, <1>5, <1>6, <1>7, <2>1, <2>3, <2>4 DEF TypeOK, Offsets
  <1>10. OneOwner'
    <2>1. SUFFICES ASSUME NEW l \in DOMAIN span
                   PROVE  Complete(l)' /\ Exclusive(l)'
      <3>1. (OneOwner <=> \A l \in DOMAIN span : Complete(l) /\ Exclusive(l))'
        BY OneOwnerByByte, PTL
      <3>2. QED
        BY <1>5, <3>1
    <2>2. Complete(l) /\ Exclusive(l)
      BY <1>1, OneOwnerByByte
    <2>3. CASE l = line[i]
      <3>1. Complete(l)'
        BY <1>1, <1>4, <1>5, <1>7, <1>8, <2>2, <2>3 DEF Complete
      <3>2. Exclusive(l)'
        BY <1>1, <1>4, <1>5, <1>7, <1>8, <2>2, <2>3 DEF Exclusive
      <3>3. QED
        BY <3>1, <3>2
    <2>4. CASE l # line[i]
      BY <1>1, <1>5, <1>7, <1>8, <2>2, <2>4 DEF Complete, Exclusive
    <2>5. QED
      BY <2>3, <2>4
  <1>11. EofIsExact'
    BY <1>5 DEF EofIsExact, Outcome
  <1>12. QED
    BY <1>4, <1>7, <1>9, <1>10, <1>11 DEF IInv

-----------------------------------------------------------------------------
(* The theorems.                                                           *)

(* The invariant holds with one cursor over the buffer.                    *)
LEMMA InitEstablishes == Init => IInv
  <1> SUFFICES ASSUME Init
               PROVE  IInv
    OBVIOUS
  <1>1. DataOK
    BY ClientAssumption DEF Init, DataOK
  <1>2. PICK i \in Ids :
          /\ cursors = [j \in {i} |-> CursorNew(AllData)]
          /\ line = [j \in {i} |-> i]
          /\ span = [j \in {i} |-> AllData]
          /\ taken = [j \in {i} |-> {}]
    BY DEF Init
  <1>3. /\ AllData \in SlicesOver(Len(data))
        /\ CursorNew(AllData) \in CursorsOver(Len(data))
        /\ Offsets(AsSlice(CursorNew(AllData))) = Offsets(AllData)
    BY <1>1, WholeBuffer, ValidIffOver
  <1>4. TypeOK
    BY <1>1, <1>2, <1>3 DEF TypeOK, Live
  <1>5. OneOwner
    <2>1. Live = {i} /\ DOMAIN span = {i} /\ line[i] = i /\ taken[i] = {}
          /\ span[i] = AllData /\ Unread(i) = Offsets(AllData)
      BY <1>2, <1>3 DEF Live, Unread
    <2>2. Complete(i) /\ Exclusive(i)
      BY <2>1 DEF Complete, Exclusive
    <2>3. QED
      BY <2>1, <2>2, OneOwnerByByte
  <1>6. EofIsExact
    BY DEF Init, EofIsExact
  <1>7. QED
    BY <1>4, <1>5, <1>6 DEF IInv

(* The kinds of step, once more.                                           *)
LEMMA StepKinds ==
  ASSUME IInv, Next
  PROVE  \/ \E i \in Live, op \in DOMAIN MayLose : \E r :
              Call(i, op, r) /\ Reads(cursors[i], r, MayLose[op])
         \/ \E j \in Ids : \E c, s :
              /\ BeginAt(j, c, s)
              /\ Valid(c) /\ s \in SlicesOver(Len(data))
              /\ Offsets(AsSlice(c)) = Offsets(s)
         \/ \E j \in Ids, i \in Live : SplitOff(i, j)
  <1>0. TypeOK
    BY DEF IInv
  <1>1. ASSUME NEW i \in Live, Method(i)
        PROVE  \E op \in DOMAIN MayLose : \E r : Call(i, op, r) /\ Reads(cursors[i], r, MayLose[op])
    BY <1>0, <1>1, ReadIsCall
  <1>2. ASSUME NEW j \in Ids, NewOver(j) \/ \E i \in Live : NewOverUnread(i, j) \/ Clone(i, j)
        PROVE  \E c, s : /\ BeginAt(j, c, s)
                         /\ Valid(c) /\ s \in SlicesOver(Len(data))
                         /\ Offsets(AsSlice(c)) = Offsets(s)
    BY <1>0, <1>2, CreateBeginsLine
  <1>3. QED
    BY <1>1, <1>2, Zenon DEF Next, Create, Read

(* Every step keeps the invariant.                                         *)
LEMMA NextPreserves == IInv /\ [Next]_vars => IInv'
  <1>1. ASSUME IInv, Next
        PROVE  IInv'
    BY <1>1, StepKinds, CallPreserves, BeginPreserves, SplitPreserves
  <1>2. ASSUME IInv, UNCHANGED vars
        PROVE  IInv'
    BY <1>2 DEF IInv, TypeOK, OneOwner, EofIsExact, vars, Live, Unread, DataOK,
                AllData, Offsets, AsSlice, Slice
  <1>3. QED
    BY <1>1, <1>2

(* The inductive invariant: types, ownership, and an error that agrees     *)
(* with the cursor it came from.  All that follows rests on it.            *)
THEOREM Invariance == Spec => []IInv
  BY InitEstablishes, NextPreserves, PTL DEF Spec

(* No read of any cursor, whatever the lengths asked for and the bytes in  *)
(* the buffer, leaves its window or leaves the window outside the buffer:  *)
(* the accesses of read_bytes and read_u8 (cursor.rs 55-85) are in bounds. *)
THEOREM TypeCorrect == Spec => []TypeOK
  BY Invariance, PTL DEF IInv

(* In every line of cursors each byte has exactly one owner: read or       *)
(* handed out once, or unread in one cursor (cursor.rs 55-85, 176-179).    *)
THEOREM BytesHaveOneOwner == Spec => []OneOwner
  BY Invariance, PTL DEF IInv

(* Every UnexpectedEof reports the shortage as it is (cursor.rs 56-65).    *)
THEOREM EofReportsShortage == Spec => []EofIsExact
  BY Invariance, PTL DEF IInv

(* Every step leaves a cursor where it is or moves it forward.             *)
LEMMA StepAdvances ==
  ASSUME IInv, [Next]_vars, NEW i \in Live
  PROVE  /\ cursors'[i].lo = cursors[i].lo
         /\ cursors'[i].len = cursors[i].len
         /\ cursors'[i].pos >= cursors[i].pos
  <1>0. TypeOK /\ DOMAIN cursors = Live /\ Valid(cursors[i])
    BY LiveValid DEF IInv, Live
  <1>1. ASSUME cursors'[i] = cursors[i]
        PROVE  /\ cursors'[i].lo = cursors[i].lo /\ cursors'[i].len = cursors[i].len
               /\ cursors'[i].pos >= cursors[i].pos
    BY <1>0, <1>1 DEF Valid
  <1>2. ASSUME NEW k \in Live, NEW op, NEW r, Call(k, op, r), Forward(cursors[k], r)
        PROVE  /\ cursors'[i].lo = cursors[i].lo /\ cursors'[i].len = cursors[i].len
               /\ cursors'[i].pos >= cursors[i].pos
    <2>1. CASE k = i
      <3>1. cursors'[i] = r.cur
        BY <1>0, <1>2, <2>1 DEF Call
      <3>2. QED
        BY <1>0, <1>2, <2>1, <3>1 DEF Forward, Valid
    <2>2. CASE k # i
      <3>1. cursors'[i] = cursors[i]
        BY <1>0, <1>2, <2>2 DEF Call
      <3>2. QED
        BY <1>1, <3>1
    <2>3. QED
      BY <2>1, <2>2
  <1>3. ASSUME NEW j \in Ids, NEW c, NEW s, BeginAt(j, c, s)
        PROVE  cursors'[i] = cursors[i]
    BY <1>3 DEF BeginAt, With, Live
  <1>4. ASSUME NEW j \in Ids, NEW k \in Live, SplitOff(k, j)
        PROVE  /\ cursors'[i].lo = cursors[i].lo /\ cursors'[i].len = cursors[i].len
               /\ cursors'[i].pos >= cursors[i].pos
    BY <1>1, <1>4, SplitPreserves
  <1>5. CASE Next
    BY <1>1, <1>2, <1>3, <1>4, <1>5, StepKinds DEF Reads
  <1>6. CASE UNCHANGED vars
    BY <1>1, <1>6 DEF vars
  <1>7. QED
    BY <1>5, <1>6

(* No call moves any cursor back, or moves its window (cursor.rs 55-85).   *)
THEOREM CursorsOnlyAdvance == Spec => OnlyAdvance
  <1>1. IInv /\ [Next]_vars =>
          [\A i \in Live :
             /\ cursors'[i].lo = cursors[i].lo
             /\ cursors'[i].len = cursors[i].len
             /\ cursors'[i].pos >= cursors[i].pos]_vars
    BY StepAdvances
  <1>2. QED
    BY <1>1, Invariance, PTL DEF Spec, OnlyAdvance

(* A failed call loses a length prefix at most (cursor.rs 130-153).        *)
THEOREM FailuresKeepPayload == Spec => FailureKeepsPayload
  <1> DEFINE Kept == failure' # NoFailure =>
                       cursors'[failure'.id].pos - cursors[failure'.id].pos
                         \in 0 .. MayLose[failure'.op]
  <1>1. ASSUME IInv, Next
        PROVE  Kept
    <2>1. ASSUME NEW i \in Live, NEW op \in DOMAIN MayLose, NEW r,
                 Call(i, op, r), Reads(cursors[i], r, MayLose[op])
          PROVE  Kept
      <3>1. CASE r.ok
        BY <2>1, <3>1 DEF Call, Outcome
      <3>2. CASE ~ r.ok
        <4>1. failure' = [op |-> op, id |-> i, err |-> r.err] /\ cursors'[i] = r.cur
          BY <2>1, <3>2 DEF Call, Outcome, Live
        <4>2. failure'.op = op /\ failure'.id = i
          BY <4>1
        <4>3. /\ r.cur.pos - cursors[i].pos <= MayLose[op]
              /\ cursors[i].pos <= r.cur.pos /\ r.cur.pos \in Nat /\ cursors[i].pos \in Nat
              /\ MayLose[op] \in Nat
          <5>1. Valid(cursors[i])
            BY <1>1, LiveValid DEF IInv
          <5>2. MayLose[op] \in Nat
            BY <2>1 DEF MayLose
          <5>3. QED
            BY <2>1, <3>2, <5>1, <5>2 DEF Reads, Forward, FailsWithin, Valid
        <4>4. QED
          BY <4>1, <4>2, <4>3
      <3>3. QED
        BY <3>1, <3>2
    <2>2. ASSUME NEW j \in Ids, NEW c, NEW s, BeginAt(j, c, s)
          PROVE  Kept
      BY <2>2 DEF BeginAt
    <2>3. ASSUME NEW j \in Ids, NEW i \in Live, SplitOff(i, j)
          PROVE  Kept
      <3>1. failure' = NoFailure
        BY <2>3 DEF SplitOff, Outcome
      <3>2. QED
        BY <3>1
    <2>4. QED
      BY <1>1, <2>1, <2>2, <2>3, StepKinds
  <1>2. IInv /\ [Next]_vars => [Kept]_vars
    BY <1>1
  <1>3. QED
    BY <1>2, Invariance, PTL DEF Spec, FailureKeepsPayload

=============================================================================
