-------------------------- MODULE InstructionsProofs --------------------------
(***************************************************************************)
(* The properties of Instructions, proved for every script in every        *)
(* buffer.                                                                 *)
(*                                                                         *)
(* The properties are about Ends, which is defined by recursion over what  *)
(* next has answered.  That its equation has a solution, and only one, is  *)
(* a part of the inductive invariant: every answer of next extends the     *)
(* solution by one place, and so the run itself is the induction.          *)
(***************************************************************************)
EXTENDS Instructions, ParsingLemmas, FiniteSetTheorems

(* What next hands out.                                                    *)
Answers == [kind : {"op"}, op : Nat] \cup [kind : {"push"}, bytes : Spans]

(* The equation that Ends solves, for the instructions ys of a script that *)
(* begins at lo.                                                           *)
Rule(ys, lo, g) ==
  [k \in 0 .. Len(ys) |->
     IF k = 0 THEN lo
     ELSE IF ys[k].kind = "push" THEN ys[k].bytes.hi
     ELSE g[k - 1] + 1]

(* It has the solution e and no other.                                     *)
OnlySolution(ys, lo, e) == \A g : g = Rule(ys, lo, g) <=> g = e

(* Where the instruction y ends that begins at p.                          *)
EndOf(p, y) == IF y.kind = "push" THEN y.bytes.hi ELSE p + 1

(* Then Ends is that solution.                                             *)
LEMMA EndsSolves ==
  ASSUME NEW e, OnlySolution(yielded, script.lo, e)
  PROVE  Ends = e
  BY DEF Ends, OnlySolution, Rule

(* Nothing has been handed out yet.                                        *)
LEMMA FirstSolution ==
  ASSUME NEW lo
  PROVE  OnlySolution(<<>>, lo, [k \in 0 .. 0 |-> lo])
  <1> SUFFICES ASSUME NEW g
               PROVE  g = Rule(<<>>, lo, g) <=> g = [k \in 0 .. 0 |-> lo]
    BY DEF OnlySolution
  <1>1. Rule(<<>>, lo, g) = [k \in 0 .. 0 |-> lo]
    <2>1. Len(<<>>) = 0 /\ \A k \in 0 .. 0 : k = 0
      OBVIOUS
    <2>2. QED
      BY <2>1 DEF Rule
  <1>2. QED
    BY <1>1

(* One more instruction.                                                   *)
LEMMA NextSolution ==
  ASSUME NEW S, NEW ys \in Seq(S), NEW y \in S, NEW lo, NEW e,
         OnlySolution(ys, lo, e)
  PROVE  \E f : /\ OnlySolution(Append(ys, y), lo, f)
                /\ \A k \in 0 .. Len(ys) : f[k] = e[k]
                /\ f[Len(ys) + 1] = EndOf(e[Len(ys)], y)
  <1> DEFINE n == Len(ys)
             zs == Append(ys, y)
             f == [k \in 0 .. n + 1 |-> IF k <= n THEN e[k] ELSE EndOf(e[n], y)]
  <1>1. n \in Nat /\ Len(zs) = n + 1 /\ zs[n + 1] = y /\ \A k \in 1 .. n : zs[k] = ys[k]
    OBVIOUS
  <1>2. e = Rule(ys, lo, e) /\ \A g : g = Rule(ys, lo, g) => g = e
    BY DEF OnlySolution
  <1> HIDE DEF n, zs
  <1>3. (\A k \in 0 .. n : f[k] = e[k]) /\ f[n + 1] = EndOf(e[n], y)
    BY <1>1
  <1>4. n = Len(ys)
    BY DEF n
  <1>5. f = Rule(zs, lo, f)
    <2>1. ASSUME NEW k \in 0 .. n + 1
          PROVE  f[k] = IF k = 0 THEN lo
                        ELSE IF zs[k].kind = "push" THEN zs[k].bytes.hi
                        ELSE f[k - 1] + 1
      <3>1. CASE k = n + 1
        <4>1. k - 1 = n /\ k # 0 /\ n \in 0 .. n /\ zs[k] = y /\ f[k] = EndOf(e[n], y)
          BY <1>1, <1>3, <3>1
        <4>2. f[k - 1] = e[n]
          BY <1>3, <4>1
        <4>3. QED
          BY <4>1, <4>2 DEF EndOf
      <3>2. CASE k \in 0 .. n
        <4>1. f[k] = e[k] /\ e[k] = Rule(ys, lo, e)[k]
          BY <1>2, <1>3, <3>2
        <4>2. e[k] = IF k = 0 THEN lo
                     ELSE IF ys[k].kind = "push" THEN ys[k].bytes.hi
                     ELSE e[k - 1] + 1
          BY <1>4, <3>2, <4>1 DEF Rule
        <4>3. k # 0 => k - 1 \in 0 .. n /\ zs[k] = ys[k]
          BY <1>1, <3>2
        <4>4. k # 0 => f[k - 1] = e[k - 1]
          BY <1>3, <4>3
        <4>5. QED
          BY <4>1, <4>2, <4>3, <4>4
      <3>3. QED
        BY <1>1, <3>1, <3>2
    <2>2. f = [k \in 0 .. n + 1 |-> f[k]]
      OBVIOUS
    <2>3. Rule(zs, lo, f) = [k \in 0 .. n + 1 |->
                               IF k = 0 THEN lo
                               ELSE IF zs[k].kind = "push" THEN zs[k].bytes.hi
                               ELSE f[k - 1] + 1]
      BY <1>1 DEF Rule
    <2> HIDE DEF f
    <2>4. QED
      BY <2>1, <2>2, <2>3
  <1>6. ASSUME NEW g, g = Rule(zs, lo, g)
        PROVE  g = f
    <2>1. g = [k \in 0 .. n + 1 |-> IF k = 0 THEN lo
                                    ELSE IF zs[k].kind = "push" THEN zs[k].bytes.hi
                                    ELSE g[k - 1] + 1]
      BY <1>1, <1>6 DEF Rule
    <2>2. PICK r : r = [k \in 0 .. n + 1 |-> IF k = 0 THEN lo
                                             ELSE IF zs[k].kind = "push" THEN zs[k].bytes.hi
                                             ELSE g[k - 1] + 1]
      OBVIOUS
    <2>3. \A k \in 0 .. n + 1 : r[k] = IF k = 0 THEN lo
                                       ELSE IF zs[k].kind = "push" THEN zs[k].bytes.hi
                                       ELSE g[k - 1] + 1
      BY <2>2
    <2>4. g = r /\ g = [k \in 0 .. n + 1 |-> g[k]]
      BY <2>1, <2>2
    <2>5. \A k \in 0 .. n + 1 : g[k] = IF k = 0 THEN lo
                                       ELSE IF zs[k].kind = "push" THEN zs[k].bytes.hi
                                       ELSE g[k - 1] + 1
      BY <2>3, <2>4
    <2>6. PICK h : h = [k \in 0 .. n |-> g[k]]
      OBVIOUS
    <2>7. h = Rule(ys, lo, h)
      <3>1. ASSUME NEW k \in 0 .. n
            PROVE  h[k] = IF k = 0 THEN lo
                          ELSE IF ys[k].kind = "push" THEN ys[k].bytes.hi
                          ELSE h[k - 1] + 1
        <4>1. h[k] = g[k] /\ k \in 0 .. n + 1
          BY <1>1, <2>6
        <4>2. k # 0 => k - 1 \in 0 .. n /\ zs[k] = ys[k]
          BY <1>1
        <4>3. k # 0 => h[k - 1] = g[k - 1]
          BY <2>6, <4>2
        <4>4. QED
          BY <2>5, <4>1, <4>2, <4>3
      <3>2. h = [k \in 0 .. n |-> h[k]]
        BY <2>6
      <3>3. Rule(ys, lo, h) = [k \in 0 .. n |-> IF k = 0 THEN lo
                                                ELSE IF ys[k].kind = "push" THEN ys[k].bytes.hi
                                                ELSE h[k - 1] + 1]
        BY <1>4 DEF Rule
      <3>4. QED
        BY <3>1, <3>2, <3>3
    <2>8. h = e
      BY <1>2, <2>7
    <2>9. \A k \in 0 .. n : g[k] = e[k]
      BY <2>6, <2>8
    <2>10. g[n + 1] = EndOf(e[n], y)
      <3>1. n + 1 \in 0 .. n + 1 /\ n + 1 # 0 /\ (n + 1) - 1 = n /\ n \in 0 .. n
        BY <1>1
      <3>2. QED
        BY <1>1, <2>5, <2>9, <3>1 DEF EndOf
    <2>11. \A k \in 0 .. n + 1 : g[k] = IF k <= n THEN e[k] ELSE EndOf(e[n], y)
      <3>1. ASSUME NEW k \in 0 .. n + 1
            PROVE  (k <= n /\ k \in 0 .. n) \/ (~ (k <= n) /\ k = n + 1)
        BY <1>1
      <3>2. QED
        BY <2>9, <2>10, <3>1
    <2>12. QED
      BY <2>4, <2>11
  <1>7. OnlySolution(zs, lo, f)
    <2> HIDE DEF f
    <2>1. QED
      BY <1>5, <1>6 DEF OnlySolution
  <1> HIDE DEF f
  <1>8. QED
    BY <1>3, <1>7 DEF n, zs

-----------------------------------------------------------------------------
(* The inductive invariant.                                                *)

(* What is what.                                                           *)
Shapes ==
  /\ DataOK
  /\ script \in Spans /\ script.lo <= script.hi /\ script.hi <= Len(data)
  /\ pos \in 0 .. Size(script)
  /\ errored \in BOOLEAN
  /\ yielded \in Seq(Answers)
  /\ item.kind \in {"not yet", "op", "push", "error", "end"}

(* The bytes from p on spell y.                                            *)
Spells(p, y) ==
  IF y.kind = "op" THEN ~ IsPush(y.op) /\ At(p) = y.op
  ELSE Announces(p, y.bytes) /\ y.bytes.hi <= script.hi

(* Every instruction is spelled where the one before it ends, and ends     *)
(* further on in the script.                                               *)
Spelled ==
  /\ OnlySolution(yielded, script.lo, Ends)
  /\ \A k \in 0 .. Len(yielded) : Ends[k] \in Nat
  /\ \A k \in 1 .. Len(yielded) :
       /\ Spells(Ends[k - 1], yielded[k])
       /\ Ends[k] = EndOf(Ends[k - 1], yielded[k])
       /\ Ends[k - 1] < Ends[k] /\ Ends[k] <= script.hi
  /\ Ends[0] = script.lo

(* A push begins where the last instruction ends, for which the script is  *)
(* too short: in its length, or in its bytes.                              *)
Overrun ==
  LET op == At(LastEnd)
      w  == PrefixWidth(op)
  IN  /\ LastEnd < script.hi /\ IsPush(op)
      /\ \/ w > script.hi - (LastEnd + 1)
         \/ PushLen(op, LastEnd + 1) > script.hi - (LastEnd + 1 + w)

(* next goes on where the last of them ends, unless it has stopped.        *)
Stands ==
  /\ ~ errored => script.lo + pos = LastEnd
  /\ item.kind = "error" => errored
  /\ item.kind = "end" => errored \/ pos >= Size(script)
  /\ errored => Overrun

IInv == Shapes /\ Spelled /\ Stands /\ ErrorMeansOverrun

-----------------------------------------------------------------------------
(* Steps.                                                                  *)

(* The buffer does not change, and so neither does what is read from it.   *)
LEMMA BytesStay ==
  ASSUME data' = data
  PROVE  /\ \A p : At(p)' = At(p)
         /\ \A op, p : PushLen(op, p)' = PushLen(op, p)
         /\ \A p, s : Announces(p, s)' <=> Announces(p, s)
  <1>1. \A p : At(p)' = At(p) /\ U16(p)' = U16(p) /\ U32(p)' = U32(p)
    BY DEF At, U16, U32
  <1>2. \A op, p : PushLen(op, p)' = PushLen(op, p)
    BY <1>1 DEF PushLen
  <1>3. \A p, s : Announces(p, s)' <=> Announces(p, s)
    BY <1>1 DEF Announces, Size
  <1>4. QED
    BY <1>1, <1>2, <1>3

(* Ends after the step, in the same terms.                                 *)
LEMMA EndsSolvesNext ==
  ASSUME NEW e, OnlySolution(yielded', script'.lo, e)
  PROVE  Ends' = e
  BY DEF Ends, OnlySolution, Rule

(* An instruction is handed out: it is spelled where the one before it     *)
(* ended, and next goes on where it ends.                                  *)
LEMMA YieldStep ==
  ASSUME IInv, ~ errored, NEW p \in 0 .. Size(script), NEW y \in Answers,
         Yield(p, y), UNCHANGED <<data, script>>,
         Spells(LastEnd, y), script.lo + p = EndOf(LastEnd, y), pos < p
  PROVE  IInv'
  <1>1. /\ pos' = p /\ item' = y /\ yielded' = Append(yielded, y) /\ errored' = errored
        /\ data' = data /\ script' = script
    BY DEF Yield
  <1>2. /\ DataOK /\ script \in Spans /\ script.lo \in Nat /\ yielded \in Seq(Answers)
        /\ Size(script) \in Int
    <2>1. DataOK /\ script \in Spans /\ yielded \in Seq(Answers)
      BY DEF IInv, Shapes
    <2>2. script.lo \in Nat /\ script.hi \in Nat
      BY <2>1 DEF Spans
    <2>3. QED
      BY <2>1, <2>2 DEF Size
  <1>3. y.kind \in {"op", "push"}
    BY DEF Answers
  <1>4. Shapes'
    <2>1. DataOK' /\ script' \in Spans' /\ Size(script)' = Size(script)
      BY <1>1, <1>2 DEF DataOK, Spans, Size
    <2>2. yielded' \in Seq(Answers)'
      BY <1>1, <1>2 DEF Answers, Spans
    <2>3. QED
      BY <1>1, <1>3, <2>1, <2>2 DEF IInv, Shapes
  <1>5. PICK e : e = Ends
    OBVIOUS
  <1>6. PICK n : n = Len(yielded)
    OBVIOUS
  <1>7. /\ OnlySolution(yielded, script.lo, e) /\ n \in Nat /\ LastEnd = e[n]
        /\ \A k \in 0 .. n : e[k] \in Nat
        /\ \A k \in 1 .. n :
             /\ Spells(e[k - 1], yielded[k]) /\ e[k] = EndOf(e[k - 1], yielded[k])
             /\ e[k - 1] < e[k] /\ e[k] <= script.hi
        /\ e[0] = script.lo
    BY <1>2, <1>5, <1>6 DEF IInv, Spelled, LastEnd
  <1>8. PICK f : /\ OnlySolution(Append(yielded, y), script.lo, f)
                 /\ \A k \in 0 .. n : f[k] = e[k]
                 /\ f[n + 1] = EndOf(e[n], y)
    <2>1. PICK lo : lo = script.lo
      OBVIOUS
    <2>2. OnlySolution(yielded, lo, e)
      BY <1>7, <2>1
    <2>3. \E f : /\ OnlySolution(Append(yielded, y), lo, f)
                 /\ \A k \in 0 .. Len(yielded) : f[k] = e[k]
                 /\ f[Len(yielded) + 1] = EndOf(e[Len(yielded)], y)
      BY <1>2, <2>2, NextSolution
    <2>4. QED
      BY <1>6, <2>1, <2>3
  <1>9. Ends' = f
    BY <1>1, <1>8, EndsSolvesNext
  <1>10. PICK zs : zs = yielded'
    OBVIOUS
  <1>11. Len(zs) = n + 1 /\ zs[n + 1] = y /\ \A k \in 1 .. n : zs[k] = yielded[k]
    BY <1>1, <1>2, <1>6, <1>10
  <1>12. /\ script.lo + p = f[n + 1] /\ f[n + 1] \in Nat
         /\ f[n] < f[n + 1] /\ f[n + 1] <= script.hi /\ f[0] = script.lo
    <2>1. f[n + 1] = script.lo + p /\ f[n] = e[n] /\ f[0] = e[0]
      BY <1>7, <1>8
    <2>2. e[n] = script.lo + pos
      BY <1>7 DEF IInv, Stands
    <2>3. /\ pos \in Nat /\ p \in Nat /\ p <= Size(script) /\ script.hi \in Nat
          /\ Size(script) = script.hi - script.lo
      <3>1. pos \in 0 .. Size(script)
        BY DEF IInv, Shapes
      <3>2. script.hi \in Nat
        BY <1>2 DEF Spans
      <3>3. QED
        BY <1>2, <3>1, <3>2 DEF Size
    <2>4. QED
      BY <1>2, <1>7, <2>1, <2>2, <2>3
  <1>13. \A k \in 0 .. n + 1 : f[k] \in Nat
    <2>1. SUFFICES ASSUME NEW k \in 0 .. n + 1
                   PROVE  f[k] \in Nat
      OBVIOUS
    <2>2. CASE k \in 0 .. n
      BY <1>7, <1>8, <2>2
    <2>3. CASE k = n + 1
      BY <1>12, <2>3
    <2>4. QED
      BY <1>7, <2>2, <2>3
  <1>14. \A k \in 1 .. n + 1 :
           /\ Spells(f[k - 1], zs[k]) /\ f[k] = EndOf(f[k - 1], zs[k])
           /\ f[k - 1] < f[k] /\ f[k] <= script.hi
    <2>1. SUFFICES ASSUME NEW k \in 1 .. n + 1
                   PROVE  /\ Spells(f[k - 1], zs[k]) /\ f[k] = EndOf(f[k - 1], zs[k])
                          /\ f[k - 1] < f[k] /\ f[k] <= script.hi
      OBVIOUS
    <2>2. CASE k \in 1 .. n
      <3>1. k - 1 \in 0 .. n /\ k \in 0 .. n
        BY <1>7, <2>2
      <3>2. f[k - 1] = e[k - 1] /\ zs[k] = yielded[k] /\ f[k] = e[k]
        BY <1>8, <1>11, <2>2, <3>1
      <3>3. QED
        BY <1>7, <2>2, <3>2
    <2>3. CASE k = n + 1
      <3>1. k - 1 = n /\ n \in 0 .. n
        BY <1>7, <2>3
      <3>2. f[k - 1] = LastEnd /\ zs[k] = y /\ f[k - 1] = f[n] /\ f[k] = EndOf(LastEnd, y)
        BY <1>7, <1>8, <1>11, <2>3, <3>1
      <3>3. QED
        BY <1>12, <2>3, <3>2
    <2>4. QED
      BY <1>7, <2>2, <2>3
  <1>15. \A q, z : Spells(q, z)' <=> Spells(q, z)
    BY <1>1, BytesStay DEF Spells, IsPush
  <1>16. Spelled'
    <2>1. OnlySolution(yielded, script.lo, Ends)'
      BY <1>1, <1>8, <1>9 DEF OnlySolution, Rule
    <2>2. \A k \in 0 .. Len(yielded') : (Ends')[k] \in Nat
      BY <1>9, <1>10, <1>11, <1>13
    <2>3. \A k \in 1 .. Len(yielded') :
            /\ Spells((Ends')[k - 1], yielded'[k])
            /\ (Ends')[k] = EndOf((Ends')[k - 1], yielded'[k])
            /\ (Ends')[k - 1] < (Ends')[k] /\ (Ends')[k] <= script'.hi
      BY <1>1, <1>9, <1>10, <1>11, <1>14
    <2>4. \A k \in 1 .. Len(yielded') : Spells(Ends[k - 1], yielded[k])'
      BY <1>15, <2>3
    <2>5. (Ends')[0] = script'.lo
      BY <1>1, <1>9, <1>12
    <2>6. QED
      BY <2>1, <2>2, <2>3, <2>4, <2>5 DEF Spelled, EndOf
  <1>17. Stands'
    <2>1. LastEnd' = f[n + 1]
      BY <1>9, <1>10, <1>11 DEF LastEnd
    <2>2. QED
      BY <1>1, <1>3, <1>12, <2>1 DEF Stands
  <1>18. ErrorMeansOverrun'
    BY <1>1, <1>3 DEF ErrorMeansOverrun
  <1>19. QED
    BY <1>4, <1>16, <1>17, <1>18 DEF IInv

(* Without a further instruction, what has been handed out stays spelled.  *)
LEMMA SpelledStays ==
  ASSUME Spelled, UNCHANGED <<data, script, yielded>>
  PROVE  Spelled' /\ Ends' = Ends /\ LastEnd' = LastEnd
  <1>1. PICK e : e = Ends
    OBVIOUS
  <1>2. OnlySolution(yielded', script'.lo, e)
    BY <1>1 DEF Spelled
  <1>3. Ends' = e
    BY <1>2, EndsSolvesNext
  <1>4. \A q, z : Spells(q, z)' <=> Spells(q, z)
    BY BytesStay DEF Spells, IsPush
  <1>5. \A k \in 1 .. Len(yielded') : Spells((Ends')[k - 1], yielded'[k])
    BY <1>1, <1>3 DEF Spelled
  <1>6. \A k \in 1 .. Len(yielded') : Spells(Ends[k - 1], yielded[k])'
    BY <1>4, <1>5
  <1>7. \A k \in 1 .. Len(yielded') :
          /\ (Ends')[k] = EndOf((Ends')[k - 1], yielded'[k])
          /\ (Ends')[k - 1] < (Ends')[k] /\ (Ends')[k] <= script'.hi
    BY <1>1, <1>3 DEF Spelled
  <1>8. OnlySolution(yielded, script.lo, Ends)'
    BY <1>2, <1>3 DEF OnlySolution, Rule
  <1>9. QED
    BY <1>1, <1>3, <1>6, <1>7, <1>8 DEF Spelled, LastEnd, EndOf

(* next answers an error, and what the error says is so.                   *)
LEMMA StopStep ==
  ASSUME IInv, NEW p \in 0 .. Size(script), NEW n, NEW avail,
         Stop(p, n, avail), UNCHANGED <<data, script>>,
         n > avail, avail = script.hi - (script.lo + p),
         LastEnd < script.hi, IsPush(At(LastEnd)),
         \/ script.lo + p = LastEnd + 1 /\ n = PrefixWidth(At(LastEnd))
         \/ script.lo + p = LastEnd + 1 + PrefixWidth(At(LastEnd))
              /\ n = PushLen(At(LastEnd), LastEnd + 1)
  PROVE  IInv'
  <1>1. /\ pos' = p /\ errored' = TRUE /\ item' = Error(UnexpectedEof(n, avail))
        /\ UNCHANGED <<data, script, yielded>>
    BY DEF Stop
  <1>2. item'.kind = "error" /\ item'.err = UnexpectedEof(n, avail)
    BY <1>1 DEF Error
  <1>3. item'.err.needed = n /\ item'.err.available = avail
    BY <1>2 DEF UnexpectedEof
  <1>4. Shapes'
    BY <1>1, <1>2 DEF IInv, Shapes, DataOK, Spans, Answers, Size
  <1>5. Spelled' /\ LastEnd' = LastEnd
    BY <1>1, SpelledStays DEF IInv
  <1>6. ErrorMeansOverrun' /\ Overrun'
    <2>1. At(LastEnd)' = At(LastEnd)
      BY <1>1, <1>5, BytesStay
    <2>2. PushLen(At(LastEnd), LastEnd + 1)' = PushLen(At(LastEnd), LastEnd + 1)
      BY <1>1, <1>5, <2>1, BytesStay
    <2>3. /\ PrefixWidth(At(LastEnd))' = PrefixWidth(At(LastEnd))
          /\ IsPush(At(LastEnd))' <=> IsPush(At(LastEnd))
      BY <2>1 DEF PrefixWidth, IsPush
    <2>4. ErrorMeansOverrun'
      BY <1>1, <1>3, <1>5, <2>2, <2>3 DEF ErrorMeansOverrun
    <2>5. Overrun
      BY DEF Overrun
    <2>6. Overrun'
      BY <1>1, <1>5, <2>1, <2>2, <2>3, <2>5 DEF Overrun
    <2>7. QED
      BY <2>4, <2>6
  <1>7. Stands'
    BY <1>1, <1>2, <1>6 DEF Stands
  <1>8. QED
    BY <1>4, <1>5, <1>6, <1>7 DEF IInv

(* The opcodes of the pushes.                                              *)
LEMMA PushOpcodes ==
  /\ OpPushData1 \in Nat /\ OpPushData2 = OpPushData1 + 1 /\ OpPushData4 = OpPushData1 + 2
  BY InstructionsAssumption, CursorAssumption DEF Byte

(* What a push needs: the bytes of its length, and then as many as these   *)
(* say.                                                                    *)
LEMMA PushNeeds ==
  ASSUME DataOK, NEW q \in Nat, At(q) \in Nat, IsPush(At(q))
  PROVE  LET w == PrefixWidth(At(q))
             n == PushLen(At(q), q + 1)
         IN  /\ w \in Nat
             /\ q + 1 + w <= Len(data) =>
                  /\ n \in Nat
                  /\ \A s \in Spans : s.lo = q + 1 + w /\ s.hi = s.lo + n => Announces(q, s)
  <1> DEFINE op == At(q)
             w == PrefixWidth(op)
             n == PushLen(op, q + 1)
  <1>1. /\ OpPushData1 \in Nat /\ OpPushData2 = OpPushData1 + 1
        /\ OpPushData4 = OpPushData1 + 2 /\ op \in Nat /\ op <= OpPushData1 + 2
        /\ Len(data) \in Nat
    BY PushOpcodes DEF IsPush, DataOK
  <1>2. \A s \in Spans : \A d \in Nat : s.lo = q + 1 + d => s.lo - q = d + 1
    BY DEF Spans
  <1>3. \A s \in Spans : \A m \in Nat : s.hi = s.lo + m => Size(s) = m
    BY DEF Spans, Size
  <1>4. CASE op = OpPushData1
    <2>1. w = 1 /\ n = At(q + 1)
      BY <1>1, <1>4 DEF PrefixWidth, PushLen
    <2>2. SUFFICES ASSUME q + 1 + 1 <= Len(data)
                   PROVE  /\ n \in Nat
                          /\ \A s \in Spans :
                               s.lo = q + 1 + 1 /\ s.hi = s.lo + n => Announces(q, s)
      BY <2>1
    <2>3. n \in Nat
      <3>1. q + 1 \in 0 .. Len(data) - 1
        BY <1>1, <2>2
      <3>2. QED
        BY <2>1, <3>1, ByteInWindow
    <2>4. \A s \in Spans : s.lo = q + 1 + 1 /\ s.hi = s.lo + n => s.lo - q = 2 /\ Size(s) = n
      BY <1>2, <1>3, <2>3
    <2>5. QED
      BY <1>4, <2>1, <2>3, <2>4 DEF Announces
  <1>5. CASE op = OpPushData2
    <2>1. w = 2 /\ n = U16(q + 1)
      BY <1>1, <1>5 DEF PrefixWidth, PushLen
    <2>2. SUFFICES ASSUME q + 1 + 2 <= Len(data)
                   PROVE  /\ n \in Nat
                          /\ \A s \in Spans :
                               s.lo = q + 1 + 2 /\ s.hi = s.lo + n => Announces(q, s)
      BY <2>1
    <2>3. n \in Nat
      BY <2>1, <2>2, U16Type
    <2>4. \A s \in Spans : s.lo = q + 1 + 2 /\ s.hi = s.lo + n => s.lo - q = 3 /\ Size(s) = n
      BY <1>2, <1>3, <2>3
    <2>5. QED
      BY <1>5, <2>1, <2>3, <2>4 DEF Announces
  <1>6. CASE op = OpPushData4
    <2>1. w = 4 /\ n = U32(q + 1)
      BY <1>1, <1>6 DEF PrefixWidth, PushLen
    <2>2. SUFFICES ASSUME q + 1 + 4 <= Len(data)
                   PROVE  /\ n \in Nat
                          /\ \A s \in Spans :
                               s.lo = q + 1 + 4 /\ s.hi = s.lo + n => Announces(q, s)
      BY <2>1
    <2>3. n \in Nat
      BY <2>1, <2>2, U32Type
    <2>4. \A s \in Spans : s.lo = q + 1 + 4 /\ s.hi = s.lo + n => s.lo - q = 5 /\ Size(s) = n
      BY <1>2, <1>3, <2>3
    <2>5. QED
      BY <1>6, <2>1, <2>3, <2>4 DEF Announces
  <1>7. CASE op \notin {OpPushData1, OpPushData2, OpPushData4}
    <2>1. w = 0 /\ n = op /\ op < OpPushData1
      BY <1>1, <1>7 DEF PrefixWidth, PushLen
    <2>2. n \in Nat
      BY <1>1, <2>1
    <2>3. \A s \in Spans : s.lo = q + 1 + 0 /\ s.hi = s.lo + n => s.lo - q = 1 /\ Size(s) = n
      BY <1>2, <1>3, <2>2
    <2>4. QED
      BY <2>1, <2>2, <2>3 DEF Announces
  <1>8. QED
    BY <1>4, <1>5, <1>6, <1>7

(* next reads a push.                                                      *)
LEMMA PushStep ==
  ASSUME IInv, ~ errored, pos < Size(script), IsPush(At(script.lo + pos)),
         Push(At(script.lo + pos)), UNCHANGED <<data, script>>
  PROVE  IInv'
  <1>1. DataOK /\ script \in Spans /\ script.hi <= Len(data) /\ pos \in 0 .. Size(script)
    BY DEF IInv, Shapes
  <1>2. PICK lo, hi, x : lo = script.lo /\ hi = script.hi /\ x = pos
    OBVIOUS
  <1>3. /\ lo \in Nat /\ hi \in Nat /\ x \in Nat /\ Len(data) \in Nat
        /\ hi <= Len(data) /\ x < hi - lo /\ Size(script) = hi - lo
    BY <1>1, <1>2 DEF Spans, Size, DataOK
  <1>4. PICK q : q = lo + x
    OBVIOUS
  <1>5. /\ q \in Nat /\ q < hi /\ q \in 0 .. Len(data) - 1 /\ LastEnd = q
        /\ script.lo + pos = q
    BY <1>2, <1>3, <1>4 DEF IInv, Stands
  <1>6. At(q) \in Nat /\ IsPush(At(q))
    BY <1>1, <1>5, ByteInWindow
  <1>7. PICK w, n : w = PrefixWidth(At(q)) /\ n = PushLen(At(q), q + 1)
    OBVIOUS
  <1>8. /\ w \in Nat
        /\ q + 1 + w <= Len(data) =>
             /\ n \in Nat
             /\ \A s \in Spans : s.lo = q + 1 + w /\ s.hi = s.lo + n => Announces(q, s)
    BY <1>1, <1>5, <1>6, <1>7, PushNeeds
  <1>9. script.lo + (pos + 1) = q + 1
    BY <1>2, <1>3, <1>4
  <1>10. PICK p, r : p = x + 1 /\ r = x + 1 + w
    OBVIOUS
  <1>11. /\ p \in Nat /\ r \in Nat /\ lo + p = q + 1 /\ lo + r = q + 1 + w
         /\ p \in 0 .. hi - lo
    BY <1>3, <1>4, <1>8, <1>10
  <1>12. IF hi - lo - p < w THEN Stop(p, w, hi - lo - p)
         ELSE IF n > hi - lo - r THEN Stop(r, n, hi - lo - r)
         ELSE Yield(r + n, PushBytes(Slice(lo + r, lo + r + n)))
    BY <1>2, <1>3, <1>5, <1>7, <1>9, <1>10 DEF Push
  <1>13. CASE hi - lo - p < w
    <2>1. Stop(p, w, hi - lo - p)
      BY <1>12, <1>13
    <2>2. w > hi - lo - p /\ hi - lo - p = hi - (lo + p)
      BY <1>3, <1>8, <1>11, <1>13
    <2>3. QED
      BY <1>2, <1>3, <1>5, <1>6, <1>7, <1>11, <2>1, <2>2, StopStep
  <1>14. CASE ~ (hi - lo - p < w) /\ n > hi - lo - r
    <2>1. Stop(r, n, hi - lo - r)
      BY <1>12, <1>14
    <2>2. hi - lo - r = hi - (lo + r) /\ r \in 0 .. hi - lo
      BY <1>3, <1>8, <1>10, <1>11, <1>14
    <2>3. QED
      BY <1>2, <1>3, <1>5, <1>6, <1>7, <1>11, <1>14, <2>1, <2>2, StopStep
  <1>15. CASE ~ (hi - lo - p < w) /\ ~ (n > hi - lo - r)
    <2>1. PICK y, s : y = PushBytes(s) /\ s = Slice(lo + r, lo + r + n)
      OBVIOUS
    <2>2. Yield(r + n, y)
      BY <1>12, <1>15, <2>1
    <2>3. q + 1 + w <= Len(data)
      BY <1>3, <1>8, <1>10, <1>11, <1>15
    <2>4. n \in Nat
      BY <1>8, <2>3
    <2>5. r + n \in 0 .. hi - lo /\ lo + (r + n) = lo + r + n /\ lo + r + n \in Nat
          /\ lo + r \in Nat /\ lo + r + n <= hi
      BY <1>3, <1>11, <1>15, <2>4
    <2>6. s \in Spans /\ s.lo = q + 1 + w /\ s.hi = s.lo + n /\ s.hi = lo + (r + n)
      BY <1>11, <2>1, <2>5 DEF Slice, Spans
    <2>7. y.kind = "push" /\ y.bytes = s /\ y \in Answers
      BY <2>1, <2>6 DEF PushBytes, Answers
    <2>8. Announces(q, s)
      BY <1>8, <2>3, <2>6
    <2>9. Spells(q, y) /\ EndOf(q, y) = lo + (r + n)
      BY <1>2, <2>5, <2>6, <2>7, <2>8 DEF Spells, EndOf
    <2>10. QED
      <3>1. pos < r + n
        BY <1>2, <1>3, <1>8, <1>10, <2>4
      <3>2. QED
        BY <1>2, <1>3, <1>5, <2>2, <2>5, <2>7, <2>9, <3>1, YieldStep
  <1>16. QED
    BY <1>13, <1>14, <1>15

(* next is called.                                                         *)
LEMMA NextInstructionStep ==
  ASSUME IInv, NextInstruction
  PROVE  IInv'
  <1>1. ~ errored /\ pos < Size(script) /\ UNCHANGED <<data, script>>
    BY DEF NextInstruction
  <1>2. CASE IsPush(At(script.lo + pos))
    BY <1>1, <1>2, PushStep DEF NextInstruction
  <1>3. CASE ~ IsPush(At(script.lo + pos))
    <2>1. DataOK /\ script \in Spans /\ script.hi <= Len(data) /\ pos \in 0 .. Size(script)
      BY DEF IInv, Shapes
    <2>2. PICK q, p, y : q = script.lo + pos /\ p = pos + 1 /\ y = Op(At(q))
      OBVIOUS
    <2>3. /\ q \in Nat /\ q \in 0 .. Len(data) - 1 /\ LastEnd = q
          /\ p \in 0 .. Size(script) /\ script.lo + p = q + 1 /\ pos < p
      BY <1>1, <2>1, <2>2 DEF IInv, Stands, Spans, Size, DataOK
    <2>4. At(q) \in Nat
      BY <2>1, <2>3, ByteInWindow
    <2>5. y.kind = "op" /\ y.op = At(q) /\ y \in Answers
      BY <2>2, <2>4 DEF Op, Answers
    <2>6. Yield(p, y)
      BY <1>3, <2>2 DEF NextInstruction
    <2>7. Spells(LastEnd, y) /\ script.lo + p = EndOf(LastEnd, y)
      BY <1>3, <2>2, <2>3, <2>5 DEF Spells, EndOf
    <2>8. QED
      BY <1>1, <2>3, <2>5, <2>6, <2>7, YieldStep
  <1>4. QED
    BY <1>2, <1>3

(* next answers None, or nothing happens.                                  *)
LEMMA AtEndStep ==
  ASSUME IInv, AtEnd \/ UNCHANGED vars
  PROVE  IInv'
  <1>1. UNCHANGED <<data, script, pos, errored, yielded>>
    BY DEF AtEnd, vars
  <1>2. \/ item' = item
        \/ item' = End /\ (errored \/ pos >= Size(script))
    BY DEF AtEnd, vars
  <1>3. Spelled' /\ LastEnd' = LastEnd
    BY <1>1, SpelledStays DEF IInv
  <1>4. item' = item \/ item'.kind = "end"
    BY <1>2 DEF End
  <1>5. Shapes'
    BY <1>1, <1>4 DEF IInv, Shapes, DataOK, Spans, Answers, Size
  <1>6. Size(script)' = Size(script)
    BY <1>1 DEF Size
  <1>7. /\ At(LastEnd)' = At(LastEnd)
        /\ PushLen(At(LastEnd), LastEnd + 1)' = PushLen(At(LastEnd), LastEnd + 1)
        /\ PrefixWidth(At(LastEnd))' = PrefixWidth(At(LastEnd))
        /\ IsPush(At(LastEnd))' <=> IsPush(At(LastEnd))
    <2>1. At(LastEnd)' = At(LastEnd)
      BY <1>1, <1>3, BytesStay
    <2>2. PushLen(At(LastEnd), LastEnd + 1)' = PushLen(At(LastEnd), LastEnd + 1)
      BY <1>1, <1>3, <2>1, BytesStay
    <2>3. QED
      BY <2>1, <2>2 DEF PrefixWidth, IsPush
  <1>8. Stands'
    <2>1. Overrun' <=> Overrun
      BY <1>1, <1>3, <1>7 DEF Overrun
    <2>2. QED
      BY <1>1, <1>2, <1>3, <1>4, <1>6, <2>1 DEF IInv, Stands
  <1>9. ErrorMeansOverrun'
    <2>1. CASE item'.kind = "end"
      BY <2>1 DEF ErrorMeansOverrun
    <2>2. CASE item' = item
      BY <1>1, <1>3, <1>7, <2>2 DEF IInv, ErrorMeansOverrun
    <2>3. QED
      BY <1>4, <2>1, <2>2
  <1>10. QED
    BY <1>3, <1>5, <1>8, <1>9 DEF IInv

(* Nothing has been handed out yet.                                        *)
LEMMA InitInvariant == Init => IInv
  <1> SUFFICES ASSUME Init
               PROVE  IInv
    OBVIOUS
  <1>1. DataOK /\ Len(data) \in Nat
    BY InstructionsAssumption DEF Init, DataOK
  <1>2. PICK hi \in 0 .. Len(data) : script \in {Slice(lo, hi) : lo \in 0 .. hi}
    BY DEF Init
  <1>3. PICK lo \in 0 .. hi : script = Slice(lo, hi)
    BY <1>2
  <1>4. /\ script.lo = lo /\ script.hi = hi /\ script \in Spans /\ lo \in Nat /\ hi \in Nat
        /\ lo <= hi /\ hi <= Len(data)
    BY <1>1, <1>3 DEF Slice, Spans
  <1>5. pos = 0
    BY DEF Init
  <1>6. yielded = <<>>
    BY DEF Init
  <1>7. errored = FALSE /\ item.kind = "not yet"
    BY DEF Init, NotYet
  <1>8. Shapes
    <2>1. pos \in 0 .. Size(script)
      <3>1. Size(script) = hi - lo /\ hi - lo \in Nat
        BY <1>4 DEF Size
      <3>2. QED
        BY <1>5, <3>1
    <2>2. yielded \in Seq(Answers)
      BY <1>6
    <2>3. QED
      BY <1>1, <1>4, <1>7, <2>1, <2>2 DEF Shapes
  <1>9. PICK e : e = [k \in 0 .. 0 |-> lo]
    OBVIOUS
  <1>10. OnlySolution(<<>>, lo, e)
    BY <1>9, FirstSolution
  <1>11. OnlySolution(yielded, script.lo, e)
    BY <1>4, <1>6, <1>10
  <1>12. Ends = e /\ Len(yielded) = 0
    BY <1>6, <1>11, EndsSolves
  <1>13. e[0] = lo
    BY <1>9
  <1>14. Spelled
    <2>1. e[0] \in Nat /\ e[0] = script.lo
      BY <1>4, <1>13
    <2>2. QED
      BY <1>11, <1>12, <2>1 DEF Spelled
  <1>15. LastEnd = lo
    BY <1>12, <1>13 DEF LastEnd
  <1>16. Stands /\ ErrorMeansOverrun
    <2>1. script.lo + pos = LastEnd
      BY <1>4, <1>5, <1>15
    <2>2. item.kind # "error" /\ item.kind # "end"
      BY <1>7
    <2>3. QED
      BY <1>7, <2>1, <2>2 DEF Stands, ErrorMeansOverrun
  <1>17. QED
    BY <1>8, <1>14, <1>16 DEF IInv

(* Every call of next keeps it.                                            *)
LEMMA NextInvariant == IInv /\ [Next]_vars => IInv'
  BY NextInstructionStep, AtEndStep DEF Next

-----------------------------------------------------------------------------
(* What the types are told apart by.                                       *)

(* An enumeration of n things has n elements at most.                      *)
LEMMA Enumerated ==
  ASSUME NEW S, NEW n \in Nat, NEW f, \A x \in S : \E i \in 1 .. n : x = f[i],
         \A i \in 1 .. n : f[i] \in S
  PROVE  Cardinality(S) <= n
  <1>1. PICK g : g = [i \in 1 .. n |-> f[i]]
    OBVIOUS
  <1>2. g \in Surjection(1 .. n, S)
    BY <1>1 DEF Surjection
  <1>3. QED
    BY <1>2, FS_SurjCardinalityBound DEF ExistsSurjection

(* The opcodes and the lengths that the types are told apart by are        *)
(* different ones.                                                         *)
LEMMA Distinct ==
  /\ OpDup # OpHash160 /\ OpDup # Op1 /\ OpHash160 # Op1
  /\ Hash20 # Hash32 /\ ShortKey # LongKey
  <1>1. ASSUME NEW a, NEW b, NEW c, NEW d, NEW e, NEW f
        PROVE  Cardinality({a, b, c, d, e, f}) <= 6
    <2>1. PICK g : g = <<a, b, c, d, e, f>>
      OBVIOUS
    <2>2. /\ g[1] = a /\ g[2] = b /\ g[3] = c /\ g[4] = d /\ g[5] = e /\ g[6] = f
      BY <2>1
    <2> HIDE <2>1
    <2>3. 1 \in 1 .. 6 /\ 2 \in 1 .. 6 /\ 3 \in 1 .. 6 /\ 4 \in 1 .. 6 /\ 5 \in 1 .. 6 /\ 6 \in 1 .. 6
      OBVIOUS
    <2>4. \A x \in {a, b, c, d, e, f} : \E i \in 1 .. 6 : x = g[i]
      BY <2>2, <2>3, Zenon
    <2>5. ASSUME NEW i \in 1 .. 6
          PROVE  g[i] \in {a, b, c, d, e, f}
      <3>1. i = 1 \/ i = 2 \/ i = 3 \/ i = 4 \/ i = 5 \/ i = 6
        OBVIOUS
      <3>2. QED
        BY <2>2, <3>1
    <2>6. QED
      BY <2>4, <2>5, Enumerated
  <1>2. ASSUME NEW a, NEW b, NEW c
        PROVE  Cardinality({a, b, c}) <= 3
    <2>1. PICK g : g = <<a, b, c>>
      OBVIOUS
    <2>2. g[1] = a /\ g[2] = b /\ g[3] = c
      BY <2>1
    <2>3. 1 \in 1 .. 3 /\ 2 \in 1 .. 3 /\ 3 \in 1 .. 3
      OBVIOUS
    <2>4. \A x \in {a, b, c} : \E i \in 1 .. 3 : x = g[i]
      BY <2>2, <2>3, Zenon
    <2>5. ASSUME NEW i \in 1 .. 3
          PROVE  g[i] \in {a, b, c}
      <3>1. i = 1 \/ i = 2 \/ i = 3
        OBVIOUS
      <3>2. QED
        BY <2>2, <3>1
    <2>6. QED
      BY <2>4, <2>5, Enumerated
  <1>3. ASSUME OpDup = OpHash160
        PROVE  FALSE
    <2>1. Opcodes = {Op1, OpReturn, OpDup, OpEqual, OpEqualVerify, OpCheckSig}
      BY <1>3 DEF Opcodes
    <2>2. Cardinality(Opcodes) <= 6
      BY <1>1, <2>1
    <2>3. QED
      BY <2>2, ScriptAssumption
  <1>4. ASSUME OpDup = Op1
        PROVE  FALSE
    <2>1. Opcodes = {OpReturn, OpDup, OpEqual, OpEqualVerify, OpHash160, OpCheckSig}
      BY <1>4 DEF Opcodes
    <2>2. Cardinality(Opcodes) <= 6
      BY <1>1, <2>1
    <2>3. QED
      BY <2>2, ScriptAssumption
  <1>5. ASSUME OpHash160 = Op1
        PROVE  FALSE
    <2>1. Opcodes = {OpReturn, OpDup, OpEqual, OpEqualVerify, OpHash160, OpCheckSig}
      BY <1>5 DEF Opcodes
    <2>2. Cardinality(Opcodes) <= 6
      BY <1>1, <2>1
    <2>3. QED
      BY <2>2, ScriptAssumption
  <1>6. ASSUME Hash20 = Hash32
        PROVE  FALSE
    <2>1. Lengths = {Hash20, ShortKey, LongKey}
      BY <1>6 DEF Lengths
    <2>2. Cardinality(Lengths) <= 3
      BY <1>2, <2>1
    <2>3. QED
      BY <2>2, ScriptAssumption
  <1>7. ASSUME ShortKey = LongKey
        PROVE  FALSE
    <2>1. Lengths = {Hash20, Hash32, LongKey}
      BY <1>7 DEF Lengths
    <2>2. Cardinality(Lengths) <= 3
      BY <1>2, <2>1
    <2>3. QED
      BY <2>2, ScriptAssumption
  <1>8. QED
    BY <1>3, <1>4, <1>5, <1>6, <1>7

(* Opcodes are above, and lengths below, those of the pushes.              *)
IsOpcode(x) == x \in Nat /\ x > OpPushData1 + 2
IsLength(x) == x \in Nat /\ x < OpPushData1

(* Where the constants lie.                                                *)
LEMMA Ranges ==
  /\ IsOpcode(Op1) /\ IsOpcode(OpDup) /\ IsOpcode(OpEqual)
  /\ IsOpcode(OpEqualVerify) /\ IsOpcode(OpHash160) /\ IsOpcode(OpCheckSig)
  /\ IsLength(0) /\ IsLength(Hash20) /\ IsLength(Hash32) /\ IsLength(ShortKey) /\ IsLength(LongKey)
  /\ Hash20 > 0 /\ Hash32 > 0 /\ ShortKey > 0 /\ LongKey > 0
  <1>1. ASSUME NEW op \in Opcodes
        PROVE  IsOpcode(op)
    <2>1. op \in Byte /\ op > OpPushData4
      BY ScriptAssumption, InstructionsAssumption
    <2>2. QED
      BY <2>1, PushOpcodes, CursorAssumption DEF Byte, IsOpcode
  <1>2. ASSUME NEW n \in Lengths
        PROVE  IsLength(n) /\ n > 0
    <2>1. n \in Byte /\ n < OpPushData1 
      BY ScriptAssumption, InstructionsAssumption
    <2>2. n > 0
      BY ScriptAssumption DEF Opcodes
    <2>3. QED
      BY <2>1, <2>2, CursorAssumption DEF Byte, IsLength
  <1>3. IsLength(0)
    <2>1. Hash20 > 0 /\ IsLength(Hash20)
      BY <1>2 DEF Lengths
    <2>2. QED
      BY <2>1, PushOpcodes DEF IsLength
  <1>4. QED
    BY <1>1, <1>2, <1>3 DEF Opcodes, Lengths

-----------------------------------------------------------------------------
(* What the script says, once next has answered None.                      *)

(* The facts that the proofs below start from.                             *)
LEMMA AtTheEnd ==
  ASSUME IInv, item = End
  PROVE  /\ DataOK /\ script.lo \in Nat /\ script.hi \in Nat
         /\ script.lo <= script.hi /\ script.hi <= Len(data)
         /\ Len(yielded) \in Nat /\ LastEnd = Ends[Len(yielded)]
         /\ Ends[0] = script.lo
         /\ \A k \in Nat : k <= Len(yielded) => Ends[k] \in Nat
         /\ errored => Overrun
         /\ ~ errored => LastEnd = script.hi
  <1>1. Shapes /\ Spelled /\ Stands
    BY DEF IInv
  <1>2. /\ DataOK /\ script.lo \in Nat /\ script.hi \in Nat
        /\ script.lo <= script.hi /\ script.hi <= Len(data)
        /\ pos \in 0 .. Size(script) /\ Size(script) = script.hi - script.lo
    BY <1>1 DEF Shapes, Spans, Size
  <1>3. yielded \in Seq(Answers)
    BY <1>1 DEF Shapes
  <1>4. Len(yielded) \in Nat
    BY <1>3
  <1>5. \A k \in 0 .. Len(yielded) : Ends[k] \in Nat
    BY <1>1 DEF Spelled
  <1>6. \A k \in Nat : k <= Len(yielded) => Ends[k] \in Nat
    BY <1>4, <1>5
  <1>7. Ends[0] = script.lo /\ (errored => Overrun)
    BY <1>1 DEF Spelled, Stands
  <1>8. ASSUME ~ errored
        PROVE  LastEnd = script.hi
    <2>1. pos >= Size(script) /\ script.lo + pos = LastEnd
      BY <1>1, <1>8 DEF Stands, End
    <2>2. QED
      BY <1>2, <2>1
  <1>9. QED
    BY <1>2, <1>4, <1>6, <1>7, <1>8 DEF LastEnd

(* Of one of the instructions handed out.                                  *)
LEMMA HandedOut ==
  ASSUME IInv, NEW k \in Nat, NEW j, j = k + 1, j <= Len(yielded)
  PROVE  /\ yielded[j] \in Answers
         /\ Spells(Ends[k], yielded[j])
         /\ Ends[j] = EndOf(Ends[k], yielded[j])
         /\ Ends[k] < Ends[j] /\ Ends[j] <= script.hi
  <1>1. Shapes /\ Spelled
    BY DEF IInv
  <1>2. yielded \in Seq(Answers)
    BY <1>1 DEF Shapes
  <1>3. j \in 1 .. Len(yielded) /\ j - 1 = k
    BY <1>2
  <1>4. yielded[j] \in Answers
    BY <1>2, <1>3
  <1>5. /\ Spells(Ends[j - 1], yielded[j])
        /\ Ends[j] = EndOf(Ends[j - 1], yielded[j])
        /\ Ends[j - 1] < Ends[j] /\ Ends[j] <= script.hi
    BY <1>1, <1>3 DEF Spelled
  <1>6. QED
    BY <1>3, <1>4, <1>5

(* The j-th instruction is the opcode x; it pushes n bytes that follow     *)
(* its opcode.                                                             *)
IsOp(j, x) == j <= Len(yielded) /\ Shape(yielded[j]) = <<"op", x>>
Pushes(j, n) ==
  /\ j <= Len(yielded) /\ Shape(yielded[j]) = <<"push", n>>
  /\ yielded[j].bytes.lo = Ends[j - 1] + 1

(* What the shapes tell.                                                   *)
LEMMA ShapeTells ==
  ASSUME NEW y \in Answers, NEW x
  PROVE  /\ Shape(y) = <<"op", x>> <=> y.kind = "op" /\ y.op = x
         /\ Shape(y) = <<"push", x>> <=> y.kind = "push" /\ Size(y.bytes) = x
  <1>1. y.kind \in {"op", "push"}
    BY DEF Answers
  <1>2. CASE y.kind = "op"
    BY <1>2 DEF Shape
  <1>3. CASE y.kind = "push"
    BY <1>3 DEF Shape
  <1>4. QED
    BY <1>1, <1>2, <1>3

(* An opcode stands where an instruction ends, and exactly then it is the  *)
(* next instruction.                                                       *)
LEMMA OpAt ==
  ASSUME IInv, item = End, NEW k \in Nat, k <= Len(yielded), NEW j, j = k + 1,
         NEW x, IsOpcode(x)
  PROVE  /\ Ends[k] < script.hi /\ At(Ends[k]) = x <=> IsOp(j, x)
         /\ IsOp(j, x) => Ends[j] = Ends[k] + 1
  <1>1. /\ DataOK /\ script.lo \in Nat /\ script.hi \in Nat
        /\ script.hi <= Len(data) /\ Len(yielded) \in Nat
        /\ LastEnd = Ends[Len(yielded)] /\ Ends[k] \in Nat
        /\ errored => Overrun
        /\ ~ errored => LastEnd = script.hi
    BY AtTheEnd
  <1>2. x \in Nat /\ x > OpPushData1 + 2 /\ OpPushData1 \in Nat
        /\ OpPushData2 = OpPushData1 + 1 /\ OpPushData4 = OpPushData1 + 2
    BY PushOpcodes DEF IsOpcode
  <1>3. ~ IsPush(x)
    BY <1>2 DEF IsPush
  <1>4. ASSUME k = Len(yielded)
        PROVE  ~ (Ends[k] < script.hi /\ At(Ends[k]) = x) /\ ~ IsOp(j, x)
    <2>1. ~ IsOp(j, x)
      BY <1>1, <1>4 DEF IsOp
    <2>2. CASE errored
      <3>1. IsPush(At(LastEnd))
        BY <1>1, <2>2 DEF Overrun
      <3>2. QED
        BY <1>1, <1>3, <1>4, <2>1, <3>1
    <2>3. CASE ~ errored
      BY <1>1, <1>4, <2>1, <2>3
    <2>4. QED
      BY <2>2, <2>3
  <1>5. ASSUME j <= Len(yielded)
        PROVE  /\ Ends[k] < script.hi /\ At(Ends[k]) = x <=> IsOp(j, x)
               /\ IsOp(j, x) => Ends[j] = Ends[k] + 1
    <2>1. PICK y, p : y = yielded[j] /\ p = Ends[k]
      OBVIOUS
    <2>2. /\ y \in Answers /\ Spells(p, y) /\ Ends[j] = EndOf(p, y)
          /\ p < Ends[j] /\ Ends[j] <= script.hi
      BY <1>5, <2>1, HandedOut
    <2>3. p < script.hi
      <3>1. j \in Nat
        OBVIOUS
      <3>2. Ends[j] \in Nat
        BY <1>5, <3>1, AtTheEnd
      <3>3. QED
        BY <1>1, <2>1, <2>2, <3>2
    <2>4. IsOp(j, x) <=> y.kind = "op" /\ y.op = x
      BY <1>5, <2>1, <2>2, ShapeTells DEF IsOp
    <2>5. y.kind = "op" => At(p) = y.op /\ Ends[j] = p + 1
      BY <2>2 DEF Spells, EndOf
    <2>6. ASSUME y.kind # "op", At(p) = x
          PROVE  FALSE
      <3>1. Announces(p, y.bytes)
        BY <2>2, <2>6 DEF Spells
      <3>2. \/ x < OpPushData1 \/ x = OpPushData1 \/ x = OpPushData2 \/ x = OpPushData4
        BY <2>6, <3>1 DEF Announces
      <3>3. QED
        BY <1>2, <3>2
    <2>7. QED
      BY <2>1, <2>3, <2>4, <2>5, <2>6
  <1>6. k = Len(yielded) \/ j <= Len(yielded)
    BY <1>1
  <1>7. QED
    BY <1>4, <1>5, <1>6

(* The bytes that a push announces stand where an instruction ends, and    *)
(* exactly then they are what the next one pushes.                         *)
LEMMA PushAt ==
  ASSUME IInv, item = End, NEW k \in Nat, k <= Len(yielded), NEW j, j = k + 1,
         NEW n, IsLength(n)
  PROVE  /\ At(Ends[k]) = n /\ Ends[k] + 1 + n <= script.hi <=> Pushes(j, n)
         /\ Pushes(j, n) =>
              /\ Ends[j] = Ends[k] + 1 + n
              /\ yielded[j] = PushBytes(Slice(Ends[k] + 1, Ends[k] + 1 + n))
  <1>1. /\ DataOK /\ script.lo \in Nat /\ script.hi \in Nat
        /\ script.hi <= Len(data) /\ Len(yielded) \in Nat
        /\ LastEnd = Ends[Len(yielded)] /\ Ends[k] \in Nat
        /\ errored => Overrun
        /\ ~ errored => LastEnd = script.hi
    BY AtTheEnd
  <1>2. n \in Nat /\ n < OpPushData1 /\ OpPushData1 \in Nat
        /\ OpPushData2 = OpPushData1 + 1 /\ OpPushData4 = OpPushData1 + 2
    BY PushOpcodes DEF IsLength
  <1>3. IsPush(n) /\ PrefixWidth(n) = 0 /\ \A p : PushLen(n, p) = n
    BY <1>2 DEF IsPush, PrefixWidth, PushLen
  <1>4. ASSUME k = Len(yielded)
        PROVE  ~ (At(Ends[k]) = n /\ Ends[k] + 1 + n <= script.hi) /\ ~ Pushes(j, n)
    <2>1. ~ Pushes(j, n)
      BY <1>1, <1>4 DEF Pushes
    <2>2. CASE errored /\ At(LastEnd) = n
      <3>1. 0 > script.hi - (LastEnd + 1) \/ n > script.hi - (LastEnd + 1 + 0)
        BY <1>1, <1>3, <2>2 DEF Overrun
      <3>2. QED
        BY <1>1, <1>2, <1>4, <2>1, <3>1
    <2>3. CASE At(LastEnd) # n
      BY <1>1, <1>4, <2>1, <2>3
    <2>4. CASE ~ errored
      BY <1>1, <1>2, <1>4, <2>1, <2>4
    <2>5. QED
      BY <2>2, <2>3, <2>4
  <1>5. ASSUME j <= Len(yielded)
        PROVE  /\ At(Ends[k]) = n /\ Ends[k] + 1 + n <= script.hi <=> Pushes(j, n)
               /\ Pushes(j, n) =>
                    /\ Ends[j] = Ends[k] + 1 + n
                    /\ yielded[j] = PushBytes(Slice(Ends[k] + 1, Ends[k] + 1 + n))
    <2>1. PICK y, p : y = yielded[j] /\ p = Ends[k]
      OBVIOUS
    <2>2. /\ y \in Answers /\ Spells(p, y) /\ Ends[j] = EndOf(p, y)
          /\ Ends[j] <= script.hi
      BY <1>5, <2>1, HandedOut
    <2>3. p \in Nat /\ Ends[j - 1] = p
      BY <1>1, <2>1
    <2>4. Pushes(j, n) <=> y.kind = "push" /\ Size(y.bytes) = n /\ y.bytes.lo = p + 1
      <3>1. Shape(y) = <<"push", n>> <=> y.kind = "push" /\ Size(y.bytes) = n
        BY <2>2, ShapeTells
      <3>2. QED
        BY <1>5, <2>1, <2>3, <3>1 DEF Pushes
    <2>5. ASSUME y.kind = "push"
          PROVE  /\ y.bytes \in Spans /\ y = PushBytes(y.bytes)
                 /\ Announces(p, y.bytes) /\ Ends[j] = y.bytes.hi
      <3>1. y \in [kind : {"push"}, bytes : Spans]
        BY <2>2, <2>5 DEF Answers
      <3>2. y.bytes \in Spans /\ y = PushBytes(y.bytes)
        BY <3>1 DEF PushBytes
      <3>3. QED
        BY <2>2, <2>5, <3>2 DEF Spells, EndOf
    <2>6. ASSUME Pushes(j, n)
          PROVE  /\ Ends[j] = p + 1 + n
                 /\ y = PushBytes(Slice(p + 1, p + 1 + n))
                 /\ At(p) = n
      <3>1. PICK s : s = y.bytes
        OBVIOUS
      <3>2. s \in Spans /\ s.hi - s.lo = n /\ s.lo = p + 1 /\ y = PushBytes(s)
            /\ Announces(p, s) /\ Ends[j] = s.hi
        BY <2>4, <2>5, <2>6, <3>1 DEF Size
      <3>3. s.lo \in Nat /\ s.hi \in Nat /\ s = [lo |-> s.lo, hi |-> s.hi]
        BY <3>2 DEF Spans
      <3>4. s.hi = p + 1 + n /\ s.lo - p = 1
        BY SMTT(60), <1>2, <2>3, <3>2, <3>3
      <3>5. At(p) = Size(s)
        BY <3>2, <3>4 DEF Announces
      <3>6. QED
        BY <3>2, <3>3, <3>4, <3>5 DEF Size, Slice
    <2>7. ASSUME At(p) = n, p + 1 + n <= script.hi
          PROVE  Pushes(j, n)
      <3>1. y.kind # "op"
        <4>1. SUFFICES ASSUME y.kind = "op"
                       PROVE  FALSE
          OBVIOUS
        <4>2. ~ IsPush(y.op) /\ At(p) = y.op
          BY <2>2, <4>1 DEF Spells
        <4>3. QED
          BY <1>3, <2>7, <4>2
      <3>2. y.kind = "push"
        BY <2>2, <3>1 DEF Answers
      <3>3. PICK s : s = y.bytes
        OBVIOUS
      <3>4. s \in Spans /\ Announces(p, s)
        BY <2>5, <3>2, <3>3
      <3>5. s.lo \in Nat /\ s.hi \in Nat
        BY <3>4 DEF Spans
      <3>6. s.lo - p = 1 /\ n = Size(s)
        BY <1>2, <2>7, <3>4 DEF Announces
      <3>7. s.lo = p + 1
        BY <2>3, <3>5, <3>6
      <3>8. QED
        BY <2>4, <3>2, <3>3, <3>6, <3>7
    <2>8. Pushes(j, n) => p + 1 + n <= script.hi
      BY <2>2, <2>6
    <2>9. QED
      BY <2>1, <2>6, <2>7, <2>8
  <1>6. k = Len(yielded) \/ j <= Len(yielded)
    BY <1>1
  <1>7. QED
    BY <1>4, <1>5, <1>6

(* The script is used up where the last instruction ends, if none of them  *)
(* was cut short, and nowhere before.                                      *)
LEMMA EndAt ==
  ASSUME IInv, item = End, NEW k \in Nat, k <= Len(yielded)
  PROVE  Ends[k] = script.hi <=> k = Len(yielded) /\ ~ errored
  <1>1. /\ script.hi \in Nat /\ Len(yielded) \in Nat
        /\ LastEnd = Ends[Len(yielded)] /\ Ends[k] \in Nat
        /\ errored => Overrun
        /\ ~ errored => LastEnd = script.hi
    BY AtTheEnd
  <1>2. CASE k = Len(yielded)
    <2>1. errored => LastEnd < script.hi
      BY <1>1 DEF Overrun
    <2>2. QED
      BY <1>1, <1>2, <2>1
  <1>3. CASE k < Len(yielded)
    <2>1. PICK j : j = k + 1
      OBVIOUS
    <2>2. j \in Nat /\ j <= Len(yielded)
      BY <1>1, <1>3, <2>1
    <2>3. Ends[k] < Ends[j] /\ Ends[j] <= script.hi /\ Ends[j] \in Nat
      BY <2>1, <2>2, HandedOut, AtTheEnd
    <2>4. QED
      BY <1>1, <1>3, <2>3
  <1>4. QED
    BY <1>1, <1>2, <1>3

-----------------------------------------------------------------------------
(* The patterns of classify, byte for byte.                                *)

(* What a pattern says of the bytes, and which of them it takes for the    *)
(* payload: three bytes before the body, and two after it.                 *)
LEMMA Framing32 ==
  ASSUME script.lo \in Nat, script.hi \in Nat,
         NEW t, NEW a, NEW b, NEW c, NEW n \in Nat, NEW d, NEW e
  PROVE  LET lo == script.lo
         IN  /\ Matches(script, Pattern(t, <<a, b, c>>, n, <<d, e>>)) <=>
                  /\ script.hi = lo + 5 + n
                  /\ At(lo) = a
                  /\ At(lo + 1) = b
                  /\ At(lo + 2) = c
                  /\ At(lo + 3 + n) = d
                  /\ At(lo + 4 + n) = e
             /\ Body(script, Pattern(t, <<a, b, c>>, n, <<d, e>>)) = Slice(lo + 3, script.hi - 2)
  <1>1. PICK p : p = Pattern(t, <<a, b, c>>, n, <<d, e>>)
    OBVIOUS
  <1>2. PICK lo, hi : lo = script.lo /\ hi = script.hi
    OBVIOUS
  <1>3. lo \in Nat /\ hi \in Nat /\ Size(script) = hi - lo
    BY <1>2 DEF Size
  <1>4. /\ p.before = <<a, b, c>> /\ p.after = <<d, e>> /\ p.body = n
    BY <1>1 DEF Pattern
  <1>5. Len(p.before) = 3 /\ Len(p.after) = 2
    BY <1>4
  <1>6. p.before[1] = a /\ p.before[2] = b /\ p.before[3] = c /\ p.after[1] = d /\ p.after[2] = e
    BY <1>4
  <1>7. Framed(script, p) <=>
          /\ At(lo + 1 - 1) = a /\ At(lo + 2 - 1) = b /\ At(lo + 3 - 1) = c
          /\ At(hi - 2 + 1 - 1) = d /\ At(hi - 2 + 2 - 1) = e
    <2>1. 1 \in 1 .. 3 /\ 2 \in 1 .. 3 /\ 3 \in 1 .. 3 /\ \A i \in 1 .. 3 : i = 1 \/ i = 2 \/ i = 3
      OBVIOUS
    <2>2. 1 \in 1 .. 2 /\ 2 \in 1 .. 2 /\ \A i \in 1 .. 2 : i = 1 \/ i = 2
      OBVIOUS
    <2>3. QED
      BY <1>2, <1>5, <1>6, <2>1, <2>2 DEF Framed
  <1>8. Size(script) = Fixed(p) + p.body <=> hi = lo + 5 + n
    <2>1. Fixed(p) = 5
      BY <1>5 DEF Fixed
    <2>2. p.body = n
      BY <1>4
    <2>3. QED
      BY <1>3, <2>1, <2>2
  <1>9. lo + 1 - 1 = lo /\ lo + 2 - 1 = lo + 1 /\ lo + 3 - 1 = lo + 2
        /\ hi = lo + 5 + n => hi - 2 + 1 - 1 = lo + 3 + n /\ hi - 2 + 2 - 1 = lo + 4 + n
    BY <1>3
  <1>10. Body(script, p) = Slice(lo + 3, hi - 2)
    BY <1>2, <1>5 DEF Body
  <1>11. QED
    BY <1>1, <1>2, <1>7, <1>8, <1>9, <1>10 DEF Matches

(* Two before it, and one after.                                           *)
LEMMA Framing21 ==
  ASSUME script.lo \in Nat, script.hi \in Nat,
         NEW t, NEW a, NEW b, NEW n \in Nat, NEW d
  PROVE  LET lo == script.lo
         IN  /\ Matches(script, Pattern(t, <<a, b>>, n, <<d>>)) <=>
                  /\ script.hi = lo + 3 + n
                  /\ At(lo) = a
                  /\ At(lo + 1) = b
                  /\ At(lo + 2 + n) = d
             /\ Body(script, Pattern(t, <<a, b>>, n, <<d>>)) = Slice(lo + 2, script.hi - 1)
  <1>1. PICK p : p = Pattern(t, <<a, b>>, n, <<d>>)
    OBVIOUS
  <1>2. PICK lo, hi : lo = script.lo /\ hi = script.hi
    OBVIOUS
  <1>3. lo \in Nat /\ hi \in Nat /\ Size(script) = hi - lo
    BY <1>2 DEF Size
  <1>4. /\ p.before = <<a, b>> /\ p.after = <<d>> /\ p.body = n
    BY <1>1 DEF Pattern
  <1>5. Len(p.before) = 2 /\ Len(p.after) = 1
    BY <1>4
  <1>6. p.before[1] = a /\ p.before[2] = b /\ p.after[1] = d
    BY <1>4
  <1>7. Framed(script, p) <=>
          /\ At(lo + 1 - 1) = a /\ At(lo + 2 - 1) = b
          /\ At(hi - 1 + 1 - 1) = d
    <2>1. 1 \in 1 .. 2 /\ 2 \in 1 .. 2 /\ \A i \in 1 .. 2 : i = 1 \/ i = 2
      OBVIOUS
    <2>2. 1 \in 1 .. 1 /\ \A i \in 1 .. 1 : i = 1
      OBVIOUS
    <2>3. QED
      BY <1>2, <1>5, <1>6, <2>1, <2>2 DEF Framed
  <1>8. Size(script) = Fixed(p) + p.body <=> hi = lo + 3 + n
    <2>1. Fixed(p) = 3
      BY <1>5 DEF Fixed
    <2>2. p.body = n
      BY <1>4
    <2>3. QED
      BY <1>3, <2>1, <2>2
  <1>9. lo + 1 - 1 = lo /\ lo + 2 - 1 = lo + 1
        /\ hi = lo + 3 + n => hi - 1 + 1 - 1 = lo + 2 + n
    BY <1>3
  <1>10. Body(script, p) = Slice(lo + 2, hi - 1)
    BY <1>2, <1>5 DEF Body
  <1>11. QED
    BY <1>1, <1>2, <1>7, <1>8, <1>9, <1>10 DEF Matches

(* Two before it.                                                          *)
LEMMA Framing20 ==
  ASSUME script.lo \in Nat, script.hi \in Nat,
         NEW t, NEW a, NEW b, NEW n \in Nat
  PROVE  LET lo == script.lo
         IN  /\ Matches(script, Pattern(t, <<a, b>>, n, <<>>)) <=>
                  /\ script.hi = lo + 2 + n
                  /\ At(lo) = a
                  /\ At(lo + 1) = b
             /\ Body(script, Pattern(t, <<a, b>>, n, <<>>)) = Slice(lo + 2, script.hi - 0)
  <1>1. PICK p : p = Pattern(t, <<a, b>>, n, <<>>)
    OBVIOUS
  <1>2. PICK lo, hi : lo = script.lo /\ hi = script.hi
    OBVIOUS
  <1>3. lo \in Nat /\ hi \in Nat /\ Size(script) = hi - lo
    BY <1>2 DEF Size
  <1>4. /\ p.before = <<a, b>> /\ p.after = <<>> /\ p.body = n
    BY <1>1 DEF Pattern
  <1>5. Len(p.before) = 2 /\ Len(p.after) = 0
    BY <1>4
  <1>6. p.before[1] = a /\ p.before[2] = b
    BY <1>4
  <1>7. Framed(script, p) <=>
          /\ At(lo + 1 - 1) = a /\ At(lo + 2 - 1) = b
    <2>1. 1 \in 1 .. 2 /\ 2 \in 1 .. 2 /\ \A i \in 1 .. 2 : i = 1 \/ i = 2
      OBVIOUS
    <2>2. ~ \E i \in 1 .. 0 : TRUE
      OBVIOUS
    <2>3. QED
      BY <1>2, <1>5, <1>6, <2>1, <2>2 DEF Framed
  <1>8. Size(script) = Fixed(p) + p.body <=> hi = lo + 2 + n
    <2>1. Fixed(p) = 2
      BY <1>5 DEF Fixed
    <2>2. p.body = n
      BY <1>4
    <2>3. QED
      BY <1>3, <2>1, <2>2
  <1>9. lo + 1 - 1 = lo /\ lo + 2 - 1 = lo + 1
    BY <1>3
  <1>10. Body(script, p) = Slice(lo + 2, hi - 0)
    BY <1>2, <1>5 DEF Body
  <1>11. QED
    BY <1>1, <1>2, <1>7, <1>8, <1>9, <1>10 DEF Matches

(* One before it, and one after.                                           *)
LEMMA Framing11 ==
  ASSUME script.lo \in Nat, script.hi \in Nat,
         NEW t, NEW a, NEW n \in Nat, NEW d
  PROVE  LET lo == script.lo
         IN  /\ Matches(script, Pattern(t, <<a>>, n, <<d>>)) <=>
                  /\ script.hi = lo + 2 + n
                  /\ At(lo) = a
                  /\ At(lo + 1 + n) = d
             /\ Body(script, Pattern(t, <<a>>, n, <<d>>)) = Slice(lo + 1, script.hi - 1)
  <1>1. PICK p : p = Pattern(t, <<a>>, n, <<d>>)
    OBVIOUS
  <1>2. PICK lo, hi : lo = script.lo /\ hi = script.hi
    OBVIOUS
  <1>3. lo \in Nat /\ hi \in Nat /\ Size(script) = hi - lo
    BY <1>2 DEF Size
  <1>4. /\ p.before = <<a>> /\ p.after = <<d>> /\ p.body = n
    BY <1>1 DEF Pattern
  <1>5. Len(p.before) = 1 /\ Len(p.after) = 1
    BY <1>4
  <1>6. p.before[1] = a /\ p.after[1] = d
    BY <1>4
  <1>7. Framed(script, p) <=>
          /\ At(lo + 1 - 1) = a /\ At(hi - 1 + 1 - 1) = d
    <2>1. 1 \in 1 .. 1 /\ \A i \in 1 .. 1 : i = 1
      OBVIOUS
    <2>2. QED
      BY <1>2, <1>5, <1>6, <2>1 DEF Framed
  <1>8. Size(script) = Fixed(p) + p.body <=> hi = lo + 2 + n
    <2>1. Fixed(p) = 2
      BY <1>5 DEF Fixed
    <2>2. p.body = n
      BY <1>4
    <2>3. QED
      BY <1>3, <2>1, <2>2
  <1>9. lo + 1 - 1 = lo
        /\ hi = lo + 2 + n => hi - 1 + 1 - 1 = lo + 1 + n
    BY <1>3
  <1>10. Body(script, p) = Slice(lo + 1, hi - 1)
    BY <1>2, <1>5 DEF Body
  <1>11. QED
    BY <1>1, <1>2, <1>7, <1>8, <1>9, <1>10 DEF Matches

(* The whole script is the opcodes a and b, a push of n bytes and the      *)
(* opcodes d and e.                                                        *)
LEMMA OpOpPushOpOp ==
  ASSUME IInv, item = End, NEW t, NEW a, NEW b, NEW n, NEW d, NEW e,
         IsOpcode(a), IsOpcode(b), IsLength(n), IsOpcode(d), IsOpcode(e),
         NEW p, p = Pattern(t, <<a, b, n>>, n, <<d, e>>)
  PROVE  /\ Matches(script, p) <=>
              /\ ~ errored /\ Len(yielded) = 5
              /\ IsOp(1, a) /\ IsOp(2, b) /\ Pushes(3, n) /\ IsOp(4, d) /\ IsOp(5, e)
         /\ Matches(script, p) => yielded[3] = PushBytes(Body(script, p))
  <1> PICK lo, hi : lo = script.lo /\ hi = script.hi
    OBVIOUS
  <1>1. lo \in Nat /\ hi \in Nat /\ Ends[0] = lo /\ Len(yielded) \in Nat /\ n \in Nat
    BY AtTheEnd DEF IsLength
  <1>2. Matches(script, p) <=>
          /\ hi = lo + 5 + n /\ At(lo) = a /\ At(lo + 1) = b /\ At(lo + 2) = n
          /\ At(lo + 3 + n) = d /\ At(lo + 4 + n) = e
    BY <1>1, Framing32
  <1>3. Body(script, p) = Slice(lo + 3, hi - 2)
    BY <1>1, Framing32
  <1>4. /\ Ends[0] < hi /\ At(Ends[0]) = a <=> IsOp(1, a)
        /\ IsOp(1, a) => Ends[1] = Ends[0] + 1
    BY <1>1, OpAt
  <1>5. 1 <= Len(yielded) => /\ Ends[1] < hi /\ At(Ends[1]) = b <=> IsOp(2, b)
                             /\ IsOp(2, b) => Ends[2] = Ends[1] + 1
    BY <1>1, OpAt
  <1>6. 2 <= Len(yielded) =>
          /\ At(Ends[2]) = n /\ Ends[2] + 1 + n <= hi <=> Pushes(3, n)
          /\ Pushes(3, n) => /\ Ends[3] = Ends[2] + 1 + n
                             /\ yielded[3] = PushBytes(Slice(Ends[2] + 1, Ends[2] + 1 + n))
    BY <1>1, PushAt
  <1>7. 3 <= Len(yielded) => /\ Ends[3] < hi /\ At(Ends[3]) = d <=> IsOp(4, d)
                             /\ IsOp(4, d) => Ends[4] = Ends[3] + 1
    BY <1>1, OpAt
  <1>8. 4 <= Len(yielded) => /\ Ends[4] < hi /\ At(Ends[4]) = e <=> IsOp(5, e)
                             /\ IsOp(5, e) => Ends[5] = Ends[4] + 1
    BY <1>1, OpAt
  <1>9. 5 <= Len(yielded) => (Ends[5] = hi <=> 5 = Len(yielded) /\ ~ errored)
    BY <1>1, EndAt
  <1>10. \A j, x : /\ IsOp(j, x) => j <= Len(yielded)
                   /\ Pushes(j, x) => j <= Len(yielded)
    BY DEF IsOp, Pushes
  <1>11. ASSUME Matches(script, p)
         PROVE  /\ ~ errored /\ Len(yielded) = 5
                /\ IsOp(1, a) /\ IsOp(2, b) /\ Pushes(3, n) /\ IsOp(4, d) /\ IsOp(5, e)
                /\ yielded[3] = PushBytes(Body(script, p))
    <2>0. /\ hi = lo + 5 + n /\ At(lo) = a /\ At(lo + 1) = b /\ At(lo + 2) = n
          /\ At(lo + 3 + n) = d /\ At(lo + 4 + n) = e
      BY <1>2, <1>11
    <2>1. IsOp(1, a) /\ 1 <= Len(yielded) /\ Ends[1] = lo + 1
      BY SMTT(60), <1>1, <1>4, <1>10, <2>0
    <2>2. IsOp(2, b) /\ 2 <= Len(yielded) /\ Ends[2] = lo + 2
      BY SMTT(60), <1>1, <1>5, <1>10, <2>0, <2>1
    <2>3. Pushes(3, n) /\ 3 <= Len(yielded) /\ Ends[3] = lo + 3 + n
          /\ yielded[3] = PushBytes(Slice(lo + 3, lo + 3 + n))
      BY SMTT(60), <1>1, <1>6, <1>10, <2>0, <2>2
    <2>4. IsOp(4, d) /\ 4 <= Len(yielded) /\ Ends[4] = lo + 4 + n
      BY SMTT(60), <1>1, <1>7, <1>10, <2>0, <2>3
    <2>5. IsOp(5, e) /\ 5 <= Len(yielded) /\ Ends[5] = hi
      BY SMTT(60), <1>1, <1>8, <1>10, <2>0, <2>4
    <2>6. Len(yielded) = 5 /\ ~ errored
      BY <1>9, <2>5
    <2>7. Slice(lo + 3, hi - 2) = Slice(lo + 3, lo + 3 + n)
      BY SMTT(60), <1>1, <2>0
    <2>8. QED
      BY <1>3, <2>1, <2>2, <2>3, <2>4, <2>5, <2>6, <2>7
  <1>12. ASSUME ~ errored, Len(yielded) = 5,
                IsOp(1, a), IsOp(2, b), Pushes(3, n), IsOp(4, d), IsOp(5, e)
         PROVE  Matches(script, p)
    <2>1. At(lo) = a /\ Ends[1] = lo + 1
      BY <1>1, <1>4, <1>12
    <2>2. At(lo + 1) = b /\ Ends[2] = lo + 2
      BY <1>1, <1>5, <1>12, <2>1
    <2>3. At(lo + 2) = n /\ Ends[3] = lo + 3 + n
      BY <1>1, <1>6, <1>12, <2>2
    <2>4. At(lo + 3 + n) = d /\ Ends[4] = lo + 4 + n
      BY <1>1, <1>7, <1>12, <2>3
    <2>5. At(lo + 4 + n) = e /\ Ends[5] = lo + 5 + n
      BY <1>1, <1>8, <1>12, <2>4
    <2>6. hi = lo + 5 + n
      BY <1>9, <1>12, <2>5
    <2>7. QED
      BY <1>2, <2>1, <2>2, <2>3, <2>4, <2>5, <2>6
  <1>13. QED
    BY <1>11, <1>12

(* The whole script is an opcode, a push of n bytes and an opcode.         *)
LEMMA OpPushOp ==
  ASSUME IInv, item = End, NEW t, NEW n, NEW a, NEW d,
         IsLength(n), IsOpcode(a), IsOpcode(d),
         NEW p, p = Pattern(t, <<a, n>>, n, <<d>>)
  PROVE  /\ Matches(script, p) <=>
              /\ ~ errored /\ Len(yielded) = 3
              /\ IsOp(1, a) /\ Pushes(2, n) /\ IsOp(3, d)
         /\ Matches(script, p) => yielded[2] = PushBytes(Body(script, p))
  <1> PICK lo, hi : lo = script.lo /\ hi = script.hi
    OBVIOUS
  <1>1. lo \in Nat /\ hi \in Nat /\ Ends[0] = lo /\ Len(yielded) \in Nat /\ n \in Nat
    BY AtTheEnd DEF IsLength
  <1>2. Matches(script, p) <=> hi = lo + 3 + n /\ At(lo) = a /\ At(lo + 1) = n /\ At(lo + 2 + n) = d
    BY <1>1, Framing21
  <1>3. Body(script, p) = Slice(lo + 2, hi - 1)
    BY <1>1, Framing21
  <1>4. /\ Ends[0] < hi /\ At(Ends[0]) = a <=> IsOp(1, a)
        /\ IsOp(1, a) => Ends[1] = Ends[0] + 1
    BY <1>1, OpAt
  <1>5. 1 <= Len(yielded) =>
          /\ At(Ends[1]) = n /\ Ends[1] + 1 + n <= hi <=> Pushes(2, n)
          /\ Pushes(2, n) => /\ Ends[2] = Ends[1] + 1 + n
                              /\ yielded[2] = PushBytes(Slice(Ends[1] + 1, Ends[1] + 1 + n))
    BY <1>1, PushAt
  <1>6. 2 <= Len(yielded) =>
          /\ Ends[2] < hi /\ At(Ends[2]) = d <=> IsOp(3, d)
          /\ IsOp(3, d) => Ends[3] = Ends[2] + 1
    BY <1>1, OpAt
  <1>7. 3 <= Len(yielded) => (Ends[3] = hi <=> 3 = Len(yielded) /\ ~ errored)
    BY <1>1, EndAt
  <1>8. \A j, x : /\ IsOp(j, x) => j <= Len(yielded)
                  /\ Pushes(j, x) => j <= Len(yielded)
    BY DEF IsOp, Pushes
  <1>9. ASSUME Matches(script, p)
        PROVE  /\ ~ errored /\ Len(yielded) = 3
               /\ IsOp(1, a) /\ Pushes(2, n) /\ IsOp(3, d)
               /\ yielded[2] = PushBytes(Body(script, p))
    <2>1. hi = lo + 3 + n /\ At(lo) = a /\ At(lo + 1) = n /\ At(lo + 2 + n) = d
      BY <1>2, <1>9
    <2>2. IsOp(1, a) /\ 1 <= Len(yielded) /\ Ends[1] = lo + 1
      BY <1>1, <1>4, <1>8, <2>1
    <2>3. Pushes(2, n) /\ 2 <= Len(yielded) /\ Ends[2] = lo + 2 + n
          /\ yielded[2] = PushBytes(Slice(lo + 2, lo + 2 + n))
      BY <1>1, <1>5, <1>8, <2>1, <2>2
    <2>4. IsOp(3, d) /\ 3 <= Len(yielded) /\ Ends[3] = lo + 3 + n
      BY <1>1, <1>6, <1>8, <2>1, <2>3
    <2>5. Len(yielded) = 3 /\ ~ errored
      BY <1>1, <1>7, <2>1, <2>4
    <2>6. Slice(lo + 2, hi - 1) = Slice(lo + 2, lo + 2 + n)
      BY <1>1, <2>1
    <2>7. QED
      BY <1>3, <2>2, <2>3, <2>4, <2>5, <2>6
  <1>10. ASSUME ~ errored, Len(yielded) = 3, IsOp(1, a), Pushes(2, n), IsOp(3, d)
         PROVE  Matches(script, p)
    <2>1. At(lo) = a /\ Ends[1] = lo + 1
      BY <1>1, <1>4, <1>10
    <2>2. At(lo + 1) = n /\ Ends[2] = lo + 2 + n
      BY <1>1, <1>5, <1>10, <2>1
    <2>3. At(lo + 2 + n) = d /\ Ends[3] = lo + 3 + n
      BY <1>1, <1>6, <1>10, <2>2
    <2>4. hi = lo + 3 + n
      BY <1>7, <1>10, <2>3
    <2>5. QED
      BY <1>2, <2>1, <2>2, <2>3, <2>4
  <1>11. QED
    BY <1>9, <1>10

(* The whole script is an empty push and a push of n bytes.                *)
LEMMA PushPush ==
  ASSUME IInv, item = End, NEW t, NEW n,
         IsLength(n), IsLength(0),
         NEW p, p = Pattern(t, <<0, n>>, n, <<>>)
  PROVE  /\ Matches(script, p) <=>
              /\ ~ errored /\ Len(yielded) = 2
              /\ Pushes(1, 0) /\ Pushes(2, n)
         /\ Matches(script, p) => yielded[2] = PushBytes(Body(script, p))
  <1> PICK lo, hi : lo = script.lo /\ hi = script.hi
    OBVIOUS
  <1>1. lo \in Nat /\ hi \in Nat /\ Ends[0] = lo /\ Len(yielded) \in Nat /\ n \in Nat
    BY AtTheEnd DEF IsLength
  <1>2. Matches(script, p) <=> hi = lo + 2 + n /\ At(lo) = 0 /\ At(lo + 1) = n
    BY <1>1, Framing20
  <1>3. Body(script, p) = Slice(lo + 2, hi - 0)
    BY <1>1, Framing20
  <1>4. /\ At(Ends[0]) = 0 /\ Ends[0] + 1 + 0 <= hi <=> Pushes(1, 0)
        /\ Pushes(1, 0) => /\ Ends[1] = Ends[0] + 1 + 0
                            /\ yielded[1] = PushBytes(Slice(Ends[0] + 1, Ends[0] + 1 + 0))
    BY <1>1, PushAt
  <1>5. 1 <= Len(yielded) =>
          /\ At(Ends[1]) = n /\ Ends[1] + 1 + n <= hi <=> Pushes(2, n)
          /\ Pushes(2, n) => /\ Ends[2] = Ends[1] + 1 + n
                              /\ yielded[2] = PushBytes(Slice(Ends[1] + 1, Ends[1] + 1 + n))
    BY <1>1, PushAt
  <1>6. 2 <= Len(yielded) => (Ends[2] = hi <=> 2 = Len(yielded) /\ ~ errored)
    BY <1>1, EndAt
  <1>7. \A j, x : /\ IsOp(j, x) => j <= Len(yielded)
                  /\ Pushes(j, x) => j <= Len(yielded)
    BY DEF IsOp, Pushes
  <1>8. ASSUME Matches(script, p)
        PROVE  /\ ~ errored /\ Len(yielded) = 2
               /\ Pushes(1, 0) /\ Pushes(2, n)
               /\ yielded[2] = PushBytes(Body(script, p))
    <2>1. hi = lo + 2 + n /\ At(lo) = 0 /\ At(lo + 1) = n
      BY <1>2, <1>8
    <2>2. Pushes(1, 0) /\ 1 <= Len(yielded) /\ Ends[1] = lo + 1
      BY <1>1, <1>4, <1>7, <2>1
    <2>3. Pushes(2, n) /\ 2 <= Len(yielded) /\ Ends[2] = lo + 2 + n
          /\ yielded[2] = PushBytes(Slice(lo + 2, lo + 2 + n))
      BY <1>1, <1>5, <1>7, <2>1, <2>2
    <2>4. Len(yielded) = 2 /\ ~ errored
      BY <1>1, <1>6, <2>1, <2>3
    <2>5. Slice(lo + 2, hi - 0) = Slice(lo + 2, lo + 2 + n)
      BY <1>1, <2>1
    <2>6. QED
      BY <1>3, <2>2, <2>3, <2>4, <2>5
  <1>9. ASSUME ~ errored, Len(yielded) = 2, Pushes(1, 0), Pushes(2, n)
         PROVE  Matches(script, p)
    <2>1. At(lo) = 0 /\ Ends[1] = lo + 1
      BY <1>1, <1>4, <1>9
    <2>2. At(lo + 1) = n /\ Ends[2] = lo + 2 + n
      BY <1>1, <1>5, <1>9, <2>1
    <2>3. hi = lo + 2 + n
      BY <1>6, <1>9, <2>2
    <2>4. QED
      BY <1>2, <2>1, <2>2, <2>3
  <1>10. QED
    BY <1>8, <1>9

(* The whole script is an opcode and a push of n bytes.                    *)
LEMMA OpPush ==
  ASSUME IInv, item = End, NEW t, NEW n, NEW a,
         IsLength(n), IsOpcode(a),
         NEW p, p = Pattern(t, <<a, n>>, n, <<>>)
  PROVE  /\ Matches(script, p) <=>
              /\ ~ errored /\ Len(yielded) = 2
              /\ IsOp(1, a) /\ Pushes(2, n)
         /\ Matches(script, p) => yielded[2] = PushBytes(Body(script, p))
  <1> PICK lo, hi : lo = script.lo /\ hi = script.hi
    OBVIOUS
  <1>1. lo \in Nat /\ hi \in Nat /\ Ends[0] = lo /\ Len(yielded) \in Nat /\ n \in Nat
    BY AtTheEnd DEF IsLength
  <1>2. Matches(script, p) <=> hi = lo + 2 + n /\ At(lo) = a /\ At(lo + 1) = n
    BY <1>1, Framing20
  <1>3. Body(script, p) = Slice(lo + 2, hi - 0)
    BY <1>1, Framing20
  <1>4. /\ Ends[0] < hi /\ At(Ends[0]) = a <=> IsOp(1, a)
        /\ IsOp(1, a) => Ends[1] = Ends[0] + 1
    BY <1>1, OpAt
  <1>5. 1 <= Len(yielded) =>
          /\ At(Ends[1]) = n /\ Ends[1] + 1 + n <= hi <=> Pushes(2, n)
          /\ Pushes(2, n) => /\ Ends[2] = Ends[1] + 1 + n
                              /\ yielded[2] = PushBytes(Slice(Ends[1] + 1, Ends[1] + 1 + n))
    BY <1>1, PushAt
  <1>6. 2 <= Len(yielded) => (Ends[2] = hi <=> 2 = Len(yielded) /\ ~ errored)
    BY <1>1, EndAt
  <1>7. \A j, x : /\ IsOp(j, x) => j <= Len(yielded)
                  /\ Pushes(j, x) => j <= Len(yielded)
    BY DEF IsOp, Pushes
  <1>8. ASSUME Matches(script, p)
        PROVE  /\ ~ errored /\ Len(yielded) = 2
               /\ IsOp(1, a) /\ Pushes(2, n)
               /\ yielded[2] = PushBytes(Body(script, p))
    <2>1. hi = lo + 2 + n /\ At(lo) = a /\ At(lo + 1) = n
      BY <1>2, <1>8
    <2>2. IsOp(1, a) /\ 1 <= Len(yielded) /\ Ends[1] = lo + 1
      BY <1>1, <1>4, <1>7, <2>1
    <2>3. Pushes(2, n) /\ 2 <= Len(yielded) /\ Ends[2] = lo + 2 + n
          /\ yielded[2] = PushBytes(Slice(lo + 2, lo + 2 + n))
      BY <1>1, <1>5, <1>7, <2>1, <2>2
    <2>4. Len(yielded) = 2 /\ ~ errored
      BY <1>1, <1>6, <2>1, <2>3
    <2>5. Slice(lo + 2, hi - 0) = Slice(lo + 2, lo + 2 + n)
      BY <1>1, <2>1
    <2>6. QED
      BY <1>3, <2>2, <2>3, <2>4, <2>5
  <1>9. ASSUME ~ errored, Len(yielded) = 2, IsOp(1, a), Pushes(2, n)
         PROVE  Matches(script, p)
    <2>1. At(lo) = a /\ Ends[1] = lo + 1
      BY <1>1, <1>4, <1>9
    <2>2. At(lo + 1) = n /\ Ends[2] = lo + 2 + n
      BY <1>1, <1>5, <1>9, <2>1
    <2>3. hi = lo + 2 + n
      BY <1>6, <1>9, <2>2
    <2>4. QED
      BY <1>2, <2>1, <2>2, <2>3
  <1>10. QED
    BY <1>8, <1>9

(* The whole script is a push of n bytes and an opcode.                    *)
LEMMA PushOp ==
  ASSUME IInv, item = End, NEW t, NEW n, NEW d,
         IsLength(n), IsOpcode(d),
         NEW p, p = Pattern(t, <<n>>, n, <<d>>)
  PROVE  /\ Matches(script, p) <=>
              /\ ~ errored /\ Len(yielded) = 2
              /\ Pushes(1, n) /\ IsOp(2, d)
         /\ Matches(script, p) => yielded[1] = PushBytes(Body(script, p))
  <1> PICK lo, hi : lo = script.lo /\ hi = script.hi
    OBVIOUS
  <1>1. lo \in Nat /\ hi \in Nat /\ Ends[0] = lo /\ Len(yielded) \in Nat /\ n \in Nat
    BY AtTheEnd DEF IsLength
  <1>2. Matches(script, p) <=> hi = lo + 2 + n /\ At(lo) = n /\ At(lo + 1 + n) = d
    BY <1>1, Framing11
  <1>3. Body(script, p) = Slice(lo + 1, hi - 1)
    BY <1>1, Framing11
  <1>4. /\ At(Ends[0]) = n /\ Ends[0] + 1 + n <= hi <=> Pushes(1, n)
        /\ Pushes(1, n) => /\ Ends[1] = Ends[0] + 1 + n
                            /\ yielded[1] = PushBytes(Slice(Ends[0] + 1, Ends[0] + 1 + n))
    BY <1>1, PushAt
  <1>5. 1 <= Len(yielded) =>
          /\ Ends[1] < hi /\ At(Ends[1]) = d <=> IsOp(2, d)
          /\ IsOp(2, d) => Ends[2] = Ends[1] + 1
    BY <1>1, OpAt
  <1>6. 2 <= Len(yielded) => (Ends[2] = hi <=> 2 = Len(yielded) /\ ~ errored)
    BY <1>1, EndAt
  <1>7. \A j, x : /\ IsOp(j, x) => j <= Len(yielded)
                  /\ Pushes(j, x) => j <= Len(yielded)
    BY DEF IsOp, Pushes
  <1>8. ASSUME Matches(script, p)
        PROVE  /\ ~ errored /\ Len(yielded) = 2
               /\ Pushes(1, n) /\ IsOp(2, d)
               /\ yielded[1] = PushBytes(Body(script, p))
    <2>1. hi = lo + 2 + n /\ At(lo) = n /\ At(lo + 1 + n) = d
      BY <1>2, <1>8
    <2>2. Pushes(1, n) /\ 1 <= Len(yielded) /\ Ends[1] = lo + 1 + n
          /\ yielded[1] = PushBytes(Slice(lo + 1, lo + 1 + n))
      BY <1>1, <1>4, <1>7, <2>1
    <2>3. IsOp(2, d) /\ 2 <= Len(yielded) /\ Ends[2] = lo + 2 + n
      BY <1>1, <1>5, <1>7, <2>1, <2>2
    <2>4. Len(yielded) = 2 /\ ~ errored
      BY <1>1, <1>6, <2>1, <2>3
    <2>5. Slice(lo + 1, hi - 1) = Slice(lo + 1, lo + 1 + n)
      BY <1>1, <2>1
    <2>6. QED
      BY <1>3, <2>2, <2>3, <2>4, <2>5
  <1>9. ASSUME ~ errored, Len(yielded) = 2, Pushes(1, n), IsOp(2, d)
         PROVE  Matches(script, p)
    <2>1. At(lo) = n /\ Ends[1] = lo + 1 + n
      BY <1>1, <1>4, <1>9
    <2>2. At(lo + 1 + n) = d /\ Ends[2] = lo + 2 + n
      BY <1>1, <1>5, <1>9, <2>1
    <2>3. hi = lo + 2 + n
      BY <1>6, <1>9, <2>2
    <2>4. QED
      BY <1>2, <2>1, <2>2, <2>3
  <1>10. QED
    BY <1>8, <1>9

-----------------------------------------------------------------------------
(* The types, instruction for instruction.                                 *)

(* The shapes of what has been handed out.                                 *)
Handed == [k \in 1 .. Len(yielded) |-> Shape(yielded[k])]

(* A list of n, and when two of them are one.                              *)
IsList(f, n) == n \in Nat /\ f = [k \in 1 .. n |-> f[k]]

(* They have the same length and the same members.                         *)
LEMMA SameList ==
  ASSUME NEW n, NEW f, IsList(f, n), NEW m, NEW g, IsList(g, m)
  PROVE  f = g <=> n = m /\ \A k \in 1 .. m : f[k] = g[k]
  <1>0. n \in Nat /\ f = [k \in 1 .. n |-> f[k]] /\ m \in Nat /\ g = [k \in 1 .. m |-> g[k]]
    BY DEF IsList
  <1>1. ASSUME f = g
        PROVE  n = m
    <2>1. 1 .. n = 1 .. m
      <3>1. DOMAIN f = 1 .. n /\ DOMAIN g = 1 .. m
        BY <1>0
      <3>2. QED
        BY <1>1, <3>1
    <2>2. \A k \in Nat : k \in 1 .. n <=> k \in 1 .. m
      BY <2>1
    <2>3. n # 0 => n \in 1 .. n /\ n \in 1 .. m
      BY <1>0, <2>2
    <2>4. m # 0 => m \in 1 .. m /\ m \in 1 .. n
      BY <1>0, <2>2
    <2>5. QED
      BY <1>0, <2>3, <2>4
  <1>2. ASSUME n = m, \A k \in 1 .. m : f[k] = g[k]
        PROVE  f = g
    BY <1>0, <1>2
  <1>3. QED
    BY <1>1, <1>2

(* What has been handed out is a list, too.                                *)
LEMMA HandedIs ==
  ASSUME Len(yielded) \in Nat, NEW m, NEW g, IsList(g, m)
  PROVE  Handed = g <=> Len(yielded) = m /\ \A k \in 1 .. m : Shape(yielded[k]) = g[k]
  <1>1. PICK n, h : n = Len(yielded) /\ h = Handed
    OBVIOUS
  <1>2. IsList(h, n) /\ \A k \in 1 .. n : h[k] = Shape(yielded[k])
    BY <1>1 DEF Handed, IsList
  <1>3. h = g <=> n = m /\ \A k \in 1 .. m : h[k] = g[k]
    BY <1>2, SameList
  <1>4. QED
    BY <1>1, <1>2, <1>3

(* What Direct says of the j-th.                                           *)
DirectAt(j) == yielded[j].kind = "push" => yielded[j].bytes.lo = Ends[j - 1] + 1

(* Of an opcode it says nothing.                                           *)
LEMMA Member ==
  ASSUME IInv, NEW k \in Nat, NEW j, j = k + 1, j <= Len(yielded), NEW x
  PROVE  /\ IsOp(j, x) <=> Shape(yielded[j]) = <<"op", x>> /\ DirectAt(j)
         /\ Shape(yielded[j]) = <<"op", x>> => DirectAt(j)
         /\ Pushes(j, x) <=> Shape(yielded[j]) = <<"push", x>> /\ DirectAt(j)
  <1>1. PICK y : y = yielded[j]
    OBVIOUS
  <1>2. y \in Answers
    BY <1>1, HandedOut
  <1>3. /\ Shape(y) = <<"op", x>> <=> y.kind = "op" /\ y.op = x
        /\ Shape(y) = <<"push", x>> <=> y.kind = "push" /\ Size(y.bytes) = x
    BY <1>2, ShapeTells
  <1>4. IsOp(j, x) <=> Shape(y) = <<"op", x>>
    BY <1>1 DEF IsOp
  <1>5. Shape(y) = <<"op", x>> => DirectAt(j)
    BY <1>1, <1>3 DEF DirectAt
  <1>6. Pushes(j, x) <=> Shape(y) = <<"push", x>> /\ y.bytes.lo = Ends[j - 1] + 1
    BY <1>1 DEF Pushes
  <1>7. Pushes(j, x) <=> Shape(y) = <<"push", x>> /\ DirectAt(j)
    BY <1>1, <1>3, <1>6 DEF DirectAt
  <1>8. QED
    BY <1>1, <1>4, <1>5, <1>7

(* A list of five, with one push.                                          *)
LEMMA List5 ==
  ASSUME IInv, Len(yielded) \in Nat, NEW a, NEW b, NEW n, NEW d, NEW e
  PROVE  Len(yielded) = 5 /\ IsOp(1, a) /\ IsOp(2, b) /\ Pushes(3, n)
           /\ IsOp(4, d) /\ IsOp(5, e) <=>
           Direct /\ Handed = << <<"op", a>>, <<"op", b>>, <<"push", n>>,
                                   <<"op", d>>, <<"op", e>> >>
  <1>1. Handed = << <<"op", a>>, <<"op", b>>, <<"push", n>>, <<"op", d>>, <<"op", e>> >> <=>
          /\ Len(yielded) = 5
          /\ Shape(yielded[1]) = <<"op", a>>
          /\ Shape(yielded[2]) = <<"op", b>>
          /\ Shape(yielded[3]) = <<"push", n>>
          /\ Shape(yielded[4]) = <<"op", d>>
          /\ Shape(yielded[5]) = <<"op", e>>
    <2>1. PICK g : g = << <<"op", a>>, <<"op", b>>, <<"push", n>>, <<"op", d>>, <<"op", e>> >>
      OBVIOUS
    <2>2. IsList(g, 5)
      BY <2>1 DEF IsList
    <2>3. g[1] = <<"op", a>> /\ g[2] = <<"op", b>> /\ g[3] = <<"push", n>>
          /\ g[4] = <<"op", d>> /\ g[5] = <<"op", e>>
      BY <2>1
    <2>4. 1 \in 1 .. 5 /\ 2 \in 1 .. 5 /\ 3 \in 1 .. 5 /\ 4 \in 1 .. 5 /\ 5 \in 1 .. 5
          /\ \A k \in 1 .. 5 : k = 1 \/ k = 2 \/ k = 3 \/ k = 4 \/ k = 5
      OBVIOUS
    <2>5. Handed = g <=> Len(yielded) = 5 /\ \A k \in 1 .. 5 : Shape(yielded[k]) = g[k]
      BY <2>2, HandedIs
    <2>6. QED
      BY <2>1, <2>3, <2>4, <2>5
  <1>2. ASSUME Len(yielded) = 5
        PROVE  Direct <=> DirectAt(1) /\ DirectAt(2) /\ DirectAt(3) /\ DirectAt(4) /\ DirectAt(5)
    <2>1. 1 \in 1 .. 5 /\ 2 \in 1 .. 5 /\ 3 \in 1 .. 5 /\ 4 \in 1 .. 5 /\ 5 \in 1 .. 5
          /\ \A k \in 1 .. 5 : k = 1 \/ k = 2 \/ k = 3 \/ k = 4 \/ k = 5
      OBVIOUS
    <2>2. Direct <=> \A k \in 1 .. Len(yielded) : DirectAt(k)
      BY DEF Direct, DirectAt
    <2>3. QED
      BY <1>2, <2>1, <2>2
  <1>3. ASSUME Len(yielded) = 5
        PROVE  /\ IsOp(1, a) <=> Shape(yielded[1]) = <<"op", a>> /\ DirectAt(1)
               /\ IsOp(2, b) <=> Shape(yielded[2]) = <<"op", b>> /\ DirectAt(2)
               /\ Pushes(3, n) <=> Shape(yielded[3]) = <<"push", n>> /\ DirectAt(3)
               /\ IsOp(4, d) <=> Shape(yielded[4]) = <<"op", d>> /\ DirectAt(4)
               /\ IsOp(5, e) <=> Shape(yielded[5]) = <<"op", e>> /\ DirectAt(5)
    BY <1>3, Member
  <1>4. QED
    BY <1>1, <1>2, <1>3

(* A list of three, with one push.                                         *)
LEMMA List3 ==
  ASSUME IInv, Len(yielded) \in Nat, NEW a, NEW n, NEW d
  PROVE  Len(yielded) = 3 /\ IsOp(1, a) /\ Pushes(2, n) /\ IsOp(3, d) <=>
           Direct /\ Handed = << <<"op", a>>, <<"push", n>>, <<"op", d>> >>
  <1>1. Handed = << <<"op", a>>, <<"push", n>>, <<"op", d>> >> <=>
          /\ Len(yielded) = 3
          /\ Shape(yielded[1]) = <<"op", a>>
          /\ Shape(yielded[2]) = <<"push", n>>
          /\ Shape(yielded[3]) = <<"op", d>>
    <2>1. PICK g : g = << <<"op", a>>, <<"push", n>>, <<"op", d>> >>
      OBVIOUS
    <2>2. IsList(g, 3)
      BY <2>1 DEF IsList
    <2>3. g[1] = <<"op", a>> /\ g[2] = <<"push", n>> /\ g[3] = <<"op", d>>
      BY <2>1
    <2>4. 1 \in 1 .. 3 /\ 2 \in 1 .. 3 /\ 3 \in 1 .. 3
          /\ \A k \in 1 .. 3 : k = 1 \/ k = 2 \/ k = 3
      OBVIOUS
    <2>5. Handed = g <=> Len(yielded) = 3 /\ \A k \in 1 .. 3 : Shape(yielded[k]) = g[k]
      BY <2>2, HandedIs
    <2>6. QED
      BY <2>1, <2>3, <2>4, <2>5
  <1>2. ASSUME Len(yielded) = 3
        PROVE  Direct <=> DirectAt(1) /\ DirectAt(2) /\ DirectAt(3)
    <2>1. 1 \in 1 .. 3 /\ 2 \in 1 .. 3 /\ 3 \in 1 .. 3
          /\ \A k \in 1 .. 3 : k = 1 \/ k = 2 \/ k = 3
      OBVIOUS
    <2>2. Direct <=> \A k \in 1 .. Len(yielded) : DirectAt(k)
      BY DEF Direct, DirectAt
    <2>3. QED
      BY <1>2, <2>1, <2>2
  <1>3. ASSUME Len(yielded) = 3
        PROVE  /\ IsOp(1, a) <=> Shape(yielded[1]) = <<"op", a>> /\ DirectAt(1)
               /\ Pushes(2, n) <=> Shape(yielded[2]) = <<"push", n>> /\ DirectAt(2)
               /\ IsOp(3, d) <=> Shape(yielded[3]) = <<"op", d>> /\ DirectAt(3)
    BY <1>3, Member
  <1>4. QED
    BY <1>1, <1>2, <1>3

(* Two pushes.                                                             *)
LEMMA ListPushPush ==
  ASSUME IInv, Len(yielded) \in Nat, NEW m, NEW n
  PROVE  Len(yielded) = 2 /\ Pushes(1, m) /\ Pushes(2, n) <=>
           Direct /\ Handed = << <<"push", m>>, <<"push", n>> >>
  <1>1. Handed = << <<"push", m>>, <<"push", n>> >> <=>
          /\ Len(yielded) = 2
          /\ Shape(yielded[1]) = <<"push", m>>
          /\ Shape(yielded[2]) = <<"push", n>>
    <2>1. PICK g : g = << <<"push", m>>, <<"push", n>> >>
      OBVIOUS
    <2>2. IsList(g, 2)
      BY <2>1 DEF IsList
    <2>3. g[1] = <<"push", m>> /\ g[2] = <<"push", n>>
      BY <2>1
    <2>4. 1 \in 1 .. 2 /\ 2 \in 1 .. 2
          /\ \A k \in 1 .. 2 : k = 1 \/ k = 2
      OBVIOUS
    <2>5. Handed = g <=> Len(yielded) = 2 /\ \A k \in 1 .. 2 : Shape(yielded[k]) = g[k]
      BY <2>2, HandedIs
    <2>6. QED
      BY <2>1, <2>3, <2>4, <2>5
  <1>2. ASSUME Len(yielded) = 2
        PROVE  Direct <=> DirectAt(1) /\ DirectAt(2)
    <2>1. 1 \in 1 .. 2 /\ 2 \in 1 .. 2
          /\ \A k \in 1 .. 2 : k = 1 \/ k = 2
      OBVIOUS
    <2>2. Direct <=> \A k \in 1 .. Len(yielded) : DirectAt(k)
      BY DEF Direct, DirectAt
    <2>3. QED
      BY <1>2, <2>1, <2>2
  <1>3. ASSUME Len(yielded) = 2
        PROVE  /\ Pushes(1, m) <=> Shape(yielded[1]) = <<"push", m>> /\ DirectAt(1)
               /\ Pushes(2, n) <=> Shape(yielded[2]) = <<"push", n>> /\ DirectAt(2)
    BY <1>3, Member
  <1>4. QED
    BY <1>1, <1>2, <1>3

(* An opcode and a push.                                                   *)
LEMMA ListOpPush ==
  ASSUME IInv, Len(yielded) \in Nat, NEW a, NEW n
  PROVE  Len(yielded) = 2 /\ IsOp(1, a) /\ Pushes(2, n) <=>
           Direct /\ Handed = << <<"op", a>>, <<"push", n>> >>
  <1>1. Handed = << <<"op", a>>, <<"push", n>> >> <=>
          /\ Len(yielded) = 2
          /\ Shape(yielded[1]) = <<"op", a>>
          /\ Shape(yielded[2]) = <<"push", n>>
    <2>1. PICK g : g = << <<"op", a>>, <<"push", n>> >>
      OBVIOUS
    <2>2. IsList(g, 2)
      BY <2>1 DEF IsList
    <2>3. g[1] = <<"op", a>> /\ g[2] = <<"push", n>>
      BY <2>1
    <2>4. 1 \in 1 .. 2 /\ 2 \in 1 .. 2
          /\ \A k \in 1 .. 2 : k = 1 \/ k = 2
      OBVIOUS
    <2>5. Handed = g <=> Len(yielded) = 2 /\ \A k \in 1 .. 2 : Shape(yielded[k]) = g[k]
      BY <2>2, HandedIs
    <2>6. QED
      BY <2>1, <2>3, <2>4, <2>5
  <1>2. ASSUME Len(yielded) = 2
        PROVE  Direct <=> DirectAt(1) /\ DirectAt(2)
    <2>1. 1 \in 1 .. 2 /\ 2 \in 1 .. 2
          /\ \A k \in 1 .. 2 : k = 1 \/ k = 2
      OBVIOUS
    <2>2. Direct <=> \A k \in 1 .. Len(yielded) : DirectAt(k)
      BY DEF Direct, DirectAt
    <2>3. QED
      BY <1>2, <2>1, <2>2
  <1>3. ASSUME Len(yielded) = 2
        PROVE  /\ IsOp(1, a) <=> Shape(yielded[1]) = <<"op", a>> /\ DirectAt(1)
               /\ Pushes(2, n) <=> Shape(yielded[2]) = <<"push", n>> /\ DirectAt(2)
    BY <1>3, Member
  <1>4. QED
    BY <1>1, <1>2, <1>3

(* A push and an opcode.                                                   *)
LEMMA ListPushOp ==
  ASSUME IInv, Len(yielded) \in Nat, NEW n, NEW d
  PROVE  Len(yielded) = 2 /\ Pushes(1, n) /\ IsOp(2, d) <=>
           Direct /\ Handed = << <<"push", n>>, <<"op", d>> >>
  <1>1. Handed = << <<"push", n>>, <<"op", d>> >> <=>
          /\ Len(yielded) = 2
          /\ Shape(yielded[1]) = <<"push", n>>
          /\ Shape(yielded[2]) = <<"op", d>>
    <2>1. PICK g : g = << <<"push", n>>, <<"op", d>> >>
      OBVIOUS
    <2>2. IsList(g, 2)
      BY <2>1 DEF IsList
    <2>3. g[1] = <<"push", n>> /\ g[2] = <<"op", d>>
      BY <2>1
    <2>4. 1 \in 1 .. 2 /\ 2 \in 1 .. 2
          /\ \A k \in 1 .. 2 : k = 1 \/ k = 2
      OBVIOUS
    <2>5. Handed = g <=> Len(yielded) = 2 /\ \A k \in 1 .. 2 : Shape(yielded[k]) = g[k]
      BY <2>2, HandedIs
    <2>6. QED
      BY <2>1, <2>3, <2>4, <2>5
  <1>2. ASSUME Len(yielded) = 2
        PROVE  Direct <=> DirectAt(1) /\ DirectAt(2)
    <2>1. 1 \in 1 .. 2 /\ 2 \in 1 .. 2
          /\ \A k \in 1 .. 2 : k = 1 \/ k = 2
      OBVIOUS
    <2>2. Direct <=> \A k \in 1 .. Len(yielded) : DirectAt(k)
      BY DEF Direct, DirectAt
    <2>3. QED
      BY <1>2, <2>1, <2>2
  <1>3. ASSUME Len(yielded) = 2
        PROVE  /\ Pushes(1, n) <=> Shape(yielded[1]) = <<"push", n>> /\ DirectAt(1)
               /\ IsOp(2, d) <=> Shape(yielded[2]) = <<"op", d>> /\ DirectAt(2)
    BY <1>3, Member
  <1>4. QED
    BY <1>1, <1>2, <1>3

(* The lists of shapes in Templates, in the order of Patterns.             *)
Lists ==
  << << <<"op", OpDup>>, <<"op", OpHash160>>, <<"push", Hash20>>,
        <<"op", OpEqualVerify>>, <<"op", OpCheckSig>> >>,
     << <<"op", OpHash160>>, <<"push", Hash20>>, <<"op", OpEqual>> >>,
     << <<"push", 0>>, <<"push", Hash20>> >>,
     << <<"push", 0>>, <<"push", Hash32>> >>,
     << <<"op", Op1>>, <<"push", Hash32>> >>,
     << <<"push", ShortKey>>, <<"op", OpCheckSig>> >>,
     << <<"push", LongKey>>, <<"op", OpCheckSig>> >> >>

(* The script matches the i-th pattern exactly if its instructions have    *)
(* the shapes of the i-th list and each push is in its shortest form; and  *)
(* one of them pushes the payload.                                         *)
Told(i) ==
  /\ Matches(script, Patterns[i]) <=> ~ errored /\ Direct /\ Handed = Lists[i]
  /\ Matches(script, Patterns[i]) =>
       \E k \in 1 .. Len(yielded) : yielded[k] = PushBytes(Body(script, Patterns[i]))

(* So it is for each of them.                                              *)
LEMMA EachIsTold ==
  ASSUME IInv, item = End
  PROVE  \A i \in 1 .. 7 : Told(i)
  <1>1. Len(yielded) \in Nat
    BY AtTheEnd
  <1>2. Told(1)
    <2>1. PICK p : p = Patterns[1]
      OBVIOUS
    <2>2. p = Pattern("P2PKH", <<OpDup, OpHash160, Hash20>>, Hash20, <<OpEqualVerify, OpCheckSig>>)
      BY <2>1 DEF Patterns
    <2>3. /\ Matches(script, p) <=>
               /\ ~ errored /\ Len(yielded) = 5
               /\ IsOp(1, OpDup) /\ IsOp(2, OpHash160) /\ Pushes(3, Hash20) /\ IsOp(4, OpEqualVerify) /\ IsOp(5, OpCheckSig)
          /\ Matches(script, p) => yielded[3] = PushBytes(Body(script, p))
      BY <2>2, Ranges, OpOpPushOpOp
    <2>4. Len(yielded) = 5 /\ IsOp(1, OpDup) /\ IsOp(2, OpHash160) /\ Pushes(3, Hash20) /\ IsOp(4, OpEqualVerify) /\ IsOp(5, OpCheckSig) <=>
            Direct /\ Handed = << <<"op", OpDup>>, <<"op", OpHash160>>, <<"push", Hash20>>,
                            <<"op", OpEqualVerify>>, <<"op", OpCheckSig>> >>
      BY <1>1, List5
    <2>5. Matches(script, p) => 3 \in 1 .. Len(yielded)
      BY <2>3
    <2>6. Lists[1] = << <<"op", OpDup>>, <<"op", OpHash160>>, <<"push", Hash20>>,
                            <<"op", OpEqualVerify>>, <<"op", OpCheckSig>> >>
      BY DEF Lists
    <2>7. QED
      BY <2>1, <2>3, <2>4, <2>5, <2>6 DEF Told
  <1>3. Told(2)
    <2>1. PICK p : p = Patterns[2]
      OBVIOUS
    <2>2. p = Pattern("P2SH", <<OpHash160, Hash20>>, Hash20, <<OpEqual>>)
      BY <2>1 DEF Patterns
    <2>3. /\ Matches(script, p) <=>
               /\ ~ errored /\ Len(yielded) = 3
               /\ IsOp(1, OpHash160) /\ Pushes(2, Hash20) /\ IsOp(3, OpEqual)
          /\ Matches(script, p) => yielded[2] = PushBytes(Body(script, p))
      BY <2>2, Ranges, OpPushOp
    <2>4. Len(yielded) = 3 /\ IsOp(1, OpHash160) /\ Pushes(2, Hash20) /\ IsOp(3, OpEqual) <=>
            Direct /\ Handed = << <<"op", OpHash160>>, <<"push", Hash20>>, <<"op", OpEqual>> >>
      BY <1>1, List3
    <2>5. Matches(script, p) => 2 \in 1 .. Len(yielded)
      BY <2>3
    <2>6. Lists[2] = << <<"op", OpHash160>>, <<"push", Hash20>>, <<"op", OpEqual>> >>
      BY DEF Lists
    <2>7. QED
      BY <2>1, <2>3, <2>4, <2>5, <2>6 DEF Told
  <1>4. Told(3)
    <2>1. PICK p : p = Patterns[3]
      OBVIOUS
    <2>2. p = Pattern("P2WPKH", <<0, Hash20>>, Hash20, <<>>)
      BY <2>1 DEF Patterns
    <2>3. /\ Matches(script, p) <=>
               /\ ~ errored /\ Len(yielded) = 2
               /\ Pushes(1, 0) /\ Pushes(2, Hash20)
          /\ Matches(script, p) => yielded[2] = PushBytes(Body(script, p))
      BY <2>2, Ranges, PushPush
    <2>4. Len(yielded) = 2 /\ Pushes(1, 0) /\ Pushes(2, Hash20) <=>
            Direct /\ Handed = << <<"push", 0>>, <<"push", Hash20>> >>
      BY <1>1, ListPushPush
    <2>5. Matches(script, p) => 2 \in 1 .. Len(yielded)
      BY <2>3
    <2>6. Lists[3] = << <<"push", 0>>, <<"push", Hash20>> >>
      BY DEF Lists
    <2>7. QED
      BY <2>1, <2>3, <2>4, <2>5, <2>6 DEF Told
  <1>5. Told(4)
    <2>1. PICK p : p = Patterns[4]
      OBVIOUS
    <2>2. p = Pattern("P2WSH", <<0, Hash32>>, Hash32, <<>>)
      BY <2>1 DEF Patterns
    <2>3. /\ Matches(script, p) <=>
               /\ ~ errored /\ Len(yielded) = 2
               /\ Pushes(1, 0) /\ Pushes(2, Hash32)
          /\ Matches(script, p) => yielded[2] = PushBytes(Body(script, p))
      BY <2>2, Ranges, PushPush
    <2>4. Len(yielded) = 2 /\ Pushes(1, 0) /\ Pushes(2, Hash32) <=>
            Direct /\ Handed = << <<"push", 0>>, <<"push", Hash32>> >>
      BY <1>1, ListPushPush
    <2>5. Matches(script, p) => 2 \in 1 .. Len(yielded)
      BY <2>3
    <2>6. Lists[4] = << <<"push", 0>>, <<"push", Hash32>> >>
      BY DEF Lists
    <2>7. QED
      BY <2>1, <2>3, <2>4, <2>5, <2>6 DEF Told
  <1>6. Told(5)
    <2>1. PICK p : p = Patterns[5]
      OBVIOUS
    <2>2. p = Pattern("P2TR", <<Op1, Hash32>>, Hash32, <<>>)
      BY <2>1 DEF Patterns
    <2>3. /\ Matches(script, p) <=>
               /\ ~ errored /\ Len(yielded) = 2
               /\ IsOp(1, Op1) /\ Pushes(2, Hash32)
          /\ Matches(script, p) => yielded[2] = PushBytes(Body(script, p))
      BY <2>2, Ranges, OpPush
    <2>4. Len(yielded) = 2 /\ IsOp(1, Op1) /\ Pushes(2, Hash32) <=>
            Direct /\ Handed = << <<"op", Op1>>, <<"push", Hash32>> >>
      BY <1>1, ListOpPush
    <2>5. Matches(script, p) => 2 \in 1 .. Len(yielded)
      BY <2>3
    <2>6. Lists[5] = << <<"op", Op1>>, <<"push", Hash32>> >>
      BY DEF Lists
    <2>7. QED
      BY <2>1, <2>3, <2>4, <2>5, <2>6 DEF Told
  <1>7. Told(6)
    <2>1. PICK p : p = Patterns[6]
      OBVIOUS
    <2>2. p = Pattern("P2PK", <<ShortKey>>, ShortKey, <<OpCheckSig>>)
      BY <2>1 DEF Patterns
    <2>3. /\ Matches(script, p) <=>
               /\ ~ errored /\ Len(yielded) = 2
               /\ Pushes(1, ShortKey) /\ IsOp(2, OpCheckSig)
          /\ Matches(script, p) => yielded[1] = PushBytes(Body(script, p))
      BY <2>2, Ranges, PushOp
    <2>4. Len(yielded) = 2 /\ Pushes(1, ShortKey) /\ IsOp(2, OpCheckSig) <=>
            Direct /\ Handed = << <<"push", ShortKey>>, <<"op", OpCheckSig>> >>
      BY <1>1, ListPushOp
    <2>5. Matches(script, p) => 1 \in 1 .. Len(yielded)
      BY <2>3
    <2>6. Lists[6] = << <<"push", ShortKey>>, <<"op", OpCheckSig>> >>
      BY DEF Lists
    <2>7. QED
      BY <2>1, <2>3, <2>4, <2>5, <2>6 DEF Told
  <1>8. Told(7)
    <2>1. PICK p : p = Patterns[7]
      OBVIOUS
    <2>2. p = Pattern("P2PK", <<LongKey>>, LongKey, <<OpCheckSig>>)
      BY <2>1 DEF Patterns
    <2>3. /\ Matches(script, p) <=>
               /\ ~ errored /\ Len(yielded) = 2
               /\ Pushes(1, LongKey) /\ IsOp(2, OpCheckSig)
          /\ Matches(script, p) => yielded[1] = PushBytes(Body(script, p))
      BY <2>2, Ranges, PushOp
    <2>4. Len(yielded) = 2 /\ Pushes(1, LongKey) /\ IsOp(2, OpCheckSig) <=>
            Direct /\ Handed = << <<"push", LongKey>>, <<"op", OpCheckSig>> >>
      BY <1>1, ListPushOp
    <2>5. Matches(script, p) => 1 \in 1 .. Len(yielded)
      BY <2>3
    <2>6. Lists[7] = << <<"push", LongKey>>, <<"op", OpCheckSig>> >>
      BY DEF Lists
    <2>7. QED
      BY <2>1, <2>3, <2>4, <2>5, <2>6 DEF Told
  <1>9. \A i \in 1 .. 7 : i \in {1, 2, 3, 4, 5, 6, 7}
    OBVIOUS
  <1>10. QED
    BY <1>2, <1>3, <1>4, <1>5, <1>6, <1>7, <1>8, <1>9

(* No script matches two of them.                                          *)
LEMMA OnlyOneMatches ==
  ASSUME IInv, item = End, NEW i \in 1 .. 7, NEW k \in 1 .. 7,
         Matches(script, Patterns[i]), Matches(script, Patterns[k])
  PROVE  i = k
  <1>1. script.lo \in Nat /\ script.hi \in Nat
    BY AtTheEnd
  <1>2. PICK lo : lo = script.lo
    OBVIOUS
  <1>3. /\ Hash20 \in Nat /\ Hash32 \in Nat /\ ShortKey \in Nat /\ LongKey \in Nat
    BY Ranges DEF IsLength
  <1>4. Matches(script, Patterns[1]) => At(lo) = OpDup
    <2>1. PICK p : p = Patterns[1]
      OBVIOUS
    <2>2. p = Pattern("P2PKH", <<OpDup, OpHash160, Hash20>>, Hash20, <<OpEqualVerify, OpCheckSig>>)
      BY <2>1 DEF Patterns
    <2>3. Matches(script, p) => At(lo) = OpDup
      BY <1>1, <1>2, <1>3, <2>2, Framing32
    <2>4. QED
      BY <2>1, <2>3
  <1>5. Matches(script, Patterns[2]) => At(lo) = OpHash160
    <2>1. PICK p : p = Patterns[2]
      OBVIOUS
    <2>2. p = Pattern("P2SH", <<OpHash160, Hash20>>, Hash20, <<OpEqual>>)
      BY <2>1 DEF Patterns
    <2>3. Matches(script, p) => At(lo) = OpHash160
      BY <1>1, <1>2, <1>3, <2>2, Framing21
    <2>4. QED
      BY <2>1, <2>3
  <1>6. Matches(script, Patterns[3]) => At(lo) = 0 /\ At(lo + 1) = Hash20
    <2>1. PICK p : p = Patterns[3]
      OBVIOUS
    <2>2. p = Pattern("P2WPKH", <<0, Hash20>>, Hash20, <<>>)
      BY <2>1 DEF Patterns
    <2>3. Matches(script, p) => At(lo) = 0 /\ At(lo + 1) = Hash20
      BY <1>1, <1>2, <1>3, <2>2, Framing20
    <2>4. QED
      BY <2>1, <2>3
  <1>7. Matches(script, Patterns[4]) => At(lo) = 0 /\ At(lo + 1) = Hash32
    <2>1. PICK p : p = Patterns[4]
      OBVIOUS
    <2>2. p = Pattern("P2WSH", <<0, Hash32>>, Hash32, <<>>)
      BY <2>1 DEF Patterns
    <2>3. Matches(script, p) => At(lo) = 0 /\ At(lo + 1) = Hash32
      BY <1>1, <1>2, <1>3, <2>2, Framing20
    <2>4. QED
      BY <2>1, <2>3
  <1>8. Matches(script, Patterns[5]) => At(lo) = Op1
    <2>1. PICK p : p = Patterns[5]
      OBVIOUS
    <2>2. p = Pattern("P2TR", <<Op1, Hash32>>, Hash32, <<>>)
      BY <2>1 DEF Patterns
    <2>3. Matches(script, p) => At(lo) = Op1
      BY <1>1, <1>2, <1>3, <2>2, Framing20
    <2>4. QED
      BY <2>1, <2>3
  <1>9. Matches(script, Patterns[6]) => At(lo) = ShortKey
    <2>1. PICK p : p = Patterns[6]
      OBVIOUS
    <2>2. p = Pattern("P2PK", <<ShortKey>>, ShortKey, <<OpCheckSig>>)
      BY <2>1 DEF Patterns
    <2>3. Matches(script, p) => At(lo) = ShortKey
      BY <1>1, <1>2, <1>3, <2>2, Framing11
    <2>4. QED
      BY <2>1, <2>3
  <1>10. Matches(script, Patterns[7]) => At(lo) = LongKey
    <2>1. PICK p : p = Patterns[7]
      OBVIOUS
    <2>2. p = Pattern("P2PK", <<LongKey>>, LongKey, <<OpCheckSig>>)
      BY <2>1 DEF Patterns
    <2>3. Matches(script, p) => At(lo) = LongKey
      BY <1>1, <1>2, <1>3, <2>2, Framing11
    <2>4. QED
      BY <2>1, <2>3
  <1>11. /\ OpDup \in Nat /\ OpHash160 \in Nat /\ Op1 \in Nat /\ OpPushData1 \in Nat
         /\ OpDup > OpPushData1 /\ OpHash160 > OpPushData1 /\ Op1 > OpPushData1
         /\ ShortKey < OpPushData1 /\ LongKey < OpPushData1 /\ 0 < ShortKey /\ 0 < LongKey
    BY Ranges, PushOpcodes DEF IsOpcode, IsLength
  <1>12. i \in {1, 2, 3, 4, 5, 6, 7} /\ k \in {1, 2, 3, 4, 5, 6, 7}
    OBVIOUS
  <1>13. QED
    BY <1>3, <1>4, <1>5, <1>6, <1>7, <1>8, <1>9, <1>10, <1>11, <1>12, Distinct

(* They are the lists of the types.                                        *)
LEMMA TemplatesAre ==
  ASSUME NEW t, NEW h
  PROVE  <<t, h>> \in Templates <=> \E i \in 1 .. 7 : t = Patterns[i].type /\ h = Lists[i]
  <1>1. /\ Patterns[1].type = "P2PKH"
        /\ Patterns[2].type = "P2SH"
        /\ Patterns[3].type = "P2WPKH"
        /\ Patterns[4].type = "P2WSH"
        /\ Patterns[5].type = "P2TR"
        /\ Patterns[6].type = "P2PK"
        /\ Patterns[7].type = "P2PK"
    BY DEF Patterns, Pattern
  <1>2. PICK l : l = Lists
    OBVIOUS
  <1>3. Templates = {<<"P2PKH", l[1]>>,
                     <<"P2SH", l[2]>>,
                     <<"P2WPKH", l[3]>>,
                     <<"P2WSH", l[4]>>,
                     <<"P2TR", l[5]>>,
                     <<"P2PK", l[6]>>,
                     <<"P2PK", l[7]>>}
    <2>1. /\ l[1] = << <<"op", OpDup>>, <<"op", OpHash160>>, <<"push", Hash20>>,
                        <<"op", OpEqualVerify>>, <<"op", OpCheckSig>> >>
          /\ l[2] = << <<"op", OpHash160>>, <<"push", Hash20>>, <<"op", OpEqual>> >>
          /\ l[3] = << <<"push", 0>>, <<"push", Hash20>> >>
          /\ l[4] = << <<"push", 0>>, <<"push", Hash32>> >>
          /\ l[5] = << <<"op", Op1>>, <<"push", Hash32>> >>
          /\ l[6] = << <<"push", ShortKey>>, <<"op", OpCheckSig>> >>
          /\ l[7] = << <<"push", LongKey>>, <<"op", OpCheckSig>> >>
      BY <1>2 DEF Lists
    <2>2. QED
      BY Zenon, <2>1 DEF Templates
  <1>4. <<t, h>> \in Templates <=>
          \/ t = "P2PKH" /\ h = l[1]
          \/ t = "P2SH" /\ h = l[2]
          \/ t = "P2WPKH" /\ h = l[3]
          \/ t = "P2WSH" /\ h = l[4]
          \/ t = "P2TR" /\ h = l[5]
          \/ t = "P2PK" /\ h = l[6]
          \/ t = "P2PK" /\ h = l[7]
    BY Zenon, <1>3
  <1>5. /\ 1 \in 1 .. 7 /\ 2 \in 1 .. 7 /\ 3 \in 1 .. 7 /\ 4 \in 1 .. 7
        /\ 5 \in 1 .. 7 /\ 6 \in 1 .. 7 /\ 7 \in 1 .. 7
        /\ \A i \in 1 .. 7 : i \in {1, 2, 3, 4, 5, 6, 7}
    OBVIOUS
  <1>6. QED
    BY <1>1, <1>2, <1>4, <1>5

(* What classify answers if the i-th pattern matches, and if none does.    *)
LEMMA Classified ==
  ASSUME IInv, item = End
  PROVE  /\ \A i \in 1 .. 7 : Matches(script, Patterns[i]) =>
              /\ Classify(script).type = Patterns[i].type
              /\ Classify(script).payload = Body(script, Patterns[i])
         /\ (\A i \in 1 .. 7 : ~ Matches(script, Patterns[i])) =>
              Classify(script).type \in {"OpReturn", "Unknown"}
  <1>1. Len(Patterns) = 7
    BY DEF Patterns
  <1>2. PICK arms : arms = {k \in 1 .. 7 : Matches(script, Patterns[k])}
    OBVIOUS
  <1>3. ASSUME NEW i \in 1 .. 7, Matches(script, Patterns[i])
        PROVE  /\ Classify(script).type = Patterns[i].type
               /\ Classify(script).payload = Body(script, Patterns[i])
    <2>1. \A k \in 1 .. 7 : Matches(script, Patterns[k]) <=> k = i
      BY <1>3, OnlyOneMatches
    <2>2. arms = {i}
      BY <1>2, <2>1
    <2>3. Min(arms) = i
      <3>1. i \in Int
        OBVIOUS
      <3>2. QED
        BY <2>2, <3>1 DEF Min
    <2>4. Classify(script) = [type |-> Patterns[i].type, payload |-> Body(script, Patterns[i])]
      BY <1>1, <1>2, <2>2, <2>3 DEF Classify
    <2>5. QED
      BY <2>4
  <1>4. ASSUME \A i \in 1 .. 7 : ~ Matches(script, Patterns[i])
        PROVE  Classify(script).type \in {"OpReturn", "Unknown"}
    <2>1. arms = {}
      BY <1>2, <1>4
    <2>2. \/ Classify(script) = [type |-> "OpReturn", payload |-> Slice(script.lo + 1, script.hi)]
          \/ Classify(script) = [type |-> "Unknown", payload |-> Slice(script.lo, script.lo)]
      BY <1>1, <1>2, <2>1 DEF Classify
    <2>3. QED
      BY <2>2
  <1>5. QED
    BY <1>3, <1>4

(* A script has one of the standard types exactly if its instructions are  *)
(* those of the type, and the payload is what one of them pushes.          *)
LEMMA TypeAtTheEnd ==
  ASSUME IInv, item = End
  PROVE  /\ \A t \in {"P2PKH", "P2SH", "P2WPKH", "P2WSH", "P2TR", "P2PK"} :
              Classify(script).type = t <=> ~ errored /\ Direct /\ <<t, Handed>> \in Templates
         /\ Classify(script).type \notin {"OpReturn", "Unknown"} =>
              \E k \in 1 .. Len(yielded) : yielded[k] = PushBytes(Classify(script).payload)
  <1>1. PICK c : c = Classify(script)
    OBVIOUS
  <1>2. \A i \in 1 .. 7 : Told(i)
    BY EachIsTold
  <1>3. \A i \in 1 .. 7 : Matches(script, Patterns[i]) =>
          c.type = Patterns[i].type /\ c.payload = Body(script, Patterns[i])
    BY <1>1, Classified
  <1>4. c.type \notin {"OpReturn", "Unknown"} =>
          \E i \in 1 .. 7 : Matches(script, Patterns[i])
    BY <1>1, Classified
  <1>5. ASSUME NEW t \in {"P2PKH", "P2SH", "P2WPKH", "P2WSH", "P2TR", "P2PK"}
        PROVE  c.type = t <=> ~ errored /\ Direct /\ <<t, Handed>> \in Templates
    <2>1. t \notin {"OpReturn", "Unknown"}
      BY <1>5
    <2>2. <<t, Handed>> \in Templates <=>
            \E i \in 1 .. 7 : t = Patterns[i].type /\ Handed = Lists[i]
      BY TemplatesAre
    <2>3. \A i \in 1 .. 7 :
            Matches(script, Patterns[i]) <=> ~ errored /\ Direct /\ Handed = Lists[i]
      BY <1>2 DEF Told
    <2>4. ASSUME c.type = t
          PROVE  ~ errored /\ Direct /\ <<t, Handed>> \in Templates
      BY <1>3, <1>4, <2>1, <2>2, <2>3, <2>4
    <2>5. ASSUME ~ errored, Direct, <<t, Handed>> \in Templates
          PROVE  c.type = t
      BY <1>3, <2>2, <2>3, <2>5
    <2>6. QED
      BY <2>4, <2>5
  <1>6. ASSUME c.type \notin {"OpReturn", "Unknown"}
        PROVE  \E k \in 1 .. Len(yielded) : yielded[k] = PushBytes(c.payload)
    <2>1. PICK i \in 1 .. 7 : Matches(script, Patterns[i])
      BY <1>4, <1>6
    <2>2. c.payload = Body(script, Patterns[i])
      BY <1>3, <2>1
    <2>3. QED
      BY <1>2, <2>1, <2>2 DEF Told
  <1>7. QED
    BY <1>1, <1>5, <1>6

-----------------------------------------------------------------------------
(* The theorems.                                                           *)

(* The invariant holds of every run.                                       *)
THEOREM IInvHolds == Spec => []IInv
  <1>1. QED
    BY InitInvariant, NextInvariant, PTL DEF Spec

(* The type invariant.                                                     *)
THEOREM TypeCorrect == Spec => []TypeOK
  <1>1. IInv => TypeOK
    <2> SUFFICES ASSUME IInv
                 PROVE  TypeOK
      OBVIOUS
    <2>1. Shapes /\ Len(data) \in Nat
      <3>1. Shapes /\ DataOK
        BY DEF IInv, Shapes
      <3>2. QED
        BY <3>1 DEF DataOK
    <2>2. script \in [lo : Nat, hi : 0 .. Len(data)]
      <3>1. script \in Spans /\ script.hi <= Len(data)
        BY <2>1 DEF Shapes
      <3>2. QED
        BY <2>1, <3>1 DEF Spans
    <2>3. ASSUME NEW k \in 1 .. Len(yielded)
          PROVE  yielded[k].kind \in {"op", "push"}
      <3>1. yielded \in Seq(Answers)
        BY <2>1 DEF Shapes
      <3>2. yielded[k] \in Answers
        BY <2>3, <3>1
      <3>3. QED
        BY <3>2 DEF Answers
    <2>4. QED
      BY <2>1, <2>2, <2>3 DEF Shapes, TypeOK
  <1>2. QED
    BY <1>1, IInvHolds, PTL

(* The instructions handed out, written one after the other, are the       *)
(* script from its first byte, and all of it when next answers None        *)
(* without an error: for every script in every buffer.                     *)
THEOREM ScriptSpelled == Spec => []SpellsScript
  <1>1. IInv => SpellsScript
    <2> SUFFICES ASSUME IInv
                 PROVE  SpellsScript
      OBVIOUS
    <2>1. \A k \in 1 .. Len(yielded) : Spells(Ends[k - 1], yielded[k])
      BY DEF IInv, Spelled
    <2>2. ~ errored => script.lo + pos = LastEnd
      BY DEF IInv, Stands
    <2>3. ASSUME item = End, ~ errored
          PROVE  LastEnd = script.hi
      <3>1. pos >= Size(script) /\ script.lo + pos = LastEnd
        BY <2>3 DEF IInv, Stands, End
      <3>2. /\ script.lo \in Nat /\ script.hi \in Nat /\ script.lo <= script.hi
            /\ pos \in 0 .. Size(script)
        BY DEF IInv, Shapes, Spans
      <3>3. QED
        BY <3>1, <3>2 DEF Size
    <2>4. QED
      BY <2>1, <2>2, <2>3 DEF SpellsScript, Spells
  <1>2. QED
    BY <1>1, IInvHolds, PTL

(* An error means that the next instruction is a push that needs more      *)
(* bytes than the script has, and says truly how many of how many.         *)
THEOREM ErrorsAreOverruns == Spec => []ErrorMeansOverrun
  <1>1. QED
    BY IInvHolds, PTL DEF IInv

(* After an error or None the answer is None, however often next is        *)
(* called, and nothing moves any more.                                     *)
THEOREM StoppedForGood == Spec => StaysEnded
  <1>1. IInv /\ [Next]_vars =>
          [item.kind \in {"error", "end"} => item' = End /\ UNCHANGED <<pos, yielded>>]_vars
    <2> SUFFICES ASSUME IInv, Next, item.kind \in {"error", "end"}
                 PROVE  item' = End /\ UNCHANGED <<pos, yielded>>
      OBVIOUS
    <2>1. errored \/ pos >= Size(script)
      BY DEF IInv, Stands
    <2>2. pos \in Int /\ Size(script) \in Int
      <3>1. script \in Spans /\ pos \in 0 .. Size(script)
        BY DEF IInv, Shapes
      <3>2. script.lo \in Nat /\ script.hi \in Nat
        BY <3>1 DEF Spans
      <3>3. QED
        BY <3>1, <3>2 DEF Size
    <2>3. ~ NextInstruction
      BY <2>1, <2>2 DEF NextInstruction
    <2>4. QED
      BY <2>3 DEF Next, AtEnd
  <1>2. QED
    BY <1>1, IInvHolds, PTL DEF Spec, StaysEnded

(* What classify finds and what next hands out agree, for every script in  *)
(* every buffer: it has a standard type exactly if its instructions are    *)
(* those of the type, each push in its shortest form, and the payload is   *)
(* then the slice that an instruction pushes.                              *)
THEOREM TypesAreTemplates == Spec => []TypeIsTemplate
  <1>1. IInv => TypeIsTemplate
    <2> SUFFICES ASSUME IInv, item = End
                 PROVE  LET c      == Classify(script)
                            shapes == [k \in 1 .. Len(yielded) |-> Shape(yielded[k])]
                        IN  /\ \A t \in {t[1] : t \in Templates} :
                                 c.type = t <=> ~ errored /\ Direct /\ <<t, shapes>> \in Templates
                            /\ c.type \notin {"OpReturn", "Unknown"} =>
                                 \E k \in 1 .. Len(yielded) : yielded[k] = PushBytes(c.payload)
      BY DEF TypeIsTemplate
    <2>1. {t[1] : t \in Templates} \subseteq {"P2PKH", "P2SH", "P2WPKH", "P2WSH", "P2TR", "P2PK"}
      BY DEF Templates
    <2>2. QED
      BY <2>1, TypeAtTheEnd DEF Handed
  <1>2. QED
    BY <1>1, IInvHolds, PTL

=============================================================================
