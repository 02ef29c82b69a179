----------------------- MODULE TransactionParserProofs -----------------------
(***************************************************************************)
(* The properties of TransactionParser, proved for every buffer, every     *)
(* limit and any sequence of calls.                                        *)
(*                                                                         *)
(* A parser may be called again after an error, from the middle of a       *)
(* transaction, so nothing can be said of it with reference to the buffer  *)
(* alone: the inductive invariant is about the call that runs, and names   *)
(* the cursor it began on.  To be read back is said of it in the same way: *)
(* if a transaction stands where the call began, the call reads it.        *)
(***************************************************************************)
EXTENDS TransactionParser, TransactionCoding, ParsingLemmas, FiniteSetTheorems

(* The last call began on the cursor o and has done what a call from there *)
(* may have done.                                                          *)
Begun == \E o \in {MoveTo(parser, start)} : ParsesFrom(o)

(* The inductive invariant.                                                *)
IInv ==
  /\ DataOK
  /\ start \in Nat
  /\ Begun
  /\ refused \in BOOLEAN
  /\ refused => pc = "returned" /\ ret.ok = FALSE /\ ret.err = UserError

-----------------------------------------------------------------------------

(* What the invariant says of the parser's cursor.                         *)
LEMMA ParserFields ==
  ASSUME IInv
  PROVE  /\ DataOK /\ Valid(parser) /\ start \in Nat /\ start <= parser.pos
         /\ parser = [lo |-> parser.lo, len |-> parser.len, pos |-> parser.pos]
         /\ parser.lo \in Nat /\ parser.pos \in Nat
         /\ Counting /\ Logging /\ Spanning(MoveTo(parser, start))
  BY DEF IInv, Begun, ParsesFrom, Spanning, MoveTo, Valid

(* A client begins with a parser that has parsed nothing.                  *)
LEMMA InitEstablishes == Init => IInv
  <1> SUFFICES ASSUME Init
               PROVE  IInv
    OBVIOUS
  <1>1. DataOK /\ Len(data) \in Nat
    BY InputsAssumption DEF Init, DataOK
  <1>2. parser = [lo |-> 0, len |-> Len(data), pos |-> 0]
    BY <1>1 DEF Init, CursorNew, AllData, Slice
  <1>3. Valid(parser) /\ parser.pos = 0 /\ MoveTo(parser, start) = parser /\ start = 0
    BY <1>1, <1>2 DEF Init, Valid, MoveTo
  <1>4. pc = "idle" /\ log = <<>> /\ refused = FALSE
    BY DEF Init
  <1>5. Counting
    BY LimitTypes DEF Init, Counting, CallPhases, NoHead, NoWitness, NoResult
  <1>6. Logging
    BY <1>4 DEF Logging, Sorted
  <1>7. Spanning(parser)
    BY <1>2, <1>3, <1>4 DEF Spanning, Placed, CallPhases
  <1>8. QED
    BY <1>1, <1>3, <1>4, <1>5, <1>6, <1>7 DEF IInv, Begun, ParsesFrom

(* A step inside a call does not change where the call began.              *)
LEMMA InsideCall ==
  ASSUME IInv, data' = data, start' = start,
         NEW o, o = MoveTo(parser, start), ParsesFrom(o)'
  PROVE  Begun'
  <1>1. parser'.lo = o.lo /\ parser'.len = o.len /\ start = o.pos
    BY DEF ParsesFrom, Spanning, MoveTo
  <1>2. o = MoveTo(parser', start')
    BY <1>1 DEF MoveTo
  <1>3. QED
    BY <1>2 DEF Begun, MoveTo

(* Every step keeps the invariant.                                         *)
LEMMA NextPreserves == IInv /\ [Next]_vars => IInv'
  <1> SUFFICES ASSUME IInv, [Next]_vars
               PROVE  IInv'
    OBVIOUS
  <1>0. /\ DataOK /\ Valid(parser) /\ start \in Nat /\ parser.pos \in Nat
        /\ refused \in BOOLEAN
        /\ refused => pc = "returned" /\ ret.ok = FALSE /\ ret.err = UserError
    BY ParserFields DEF IInv
  <1> PICK o : o = MoveTo(parser, start) /\ ParsesFrom(o)
    BY DEF IInv, Begun
  <1>1. CASE UNCHANGED vars
    <2>1. ParsesFrom(o)'
      BY <1>1 DEF vars, parseVars, ParsesFrom, Counting, Logging, Sorted, Spanning, Placed, Valid
    <2>2. Begun'
      BY <1>1, <2>1, InsideCall DEF vars
    <2>3. QED
      BY <1>0, <1>1, <2>2 DEF IInv, vars, parseVars, DataOK
  <1>2. CASE ParseWith
    <2> PICK c : c = parser
      OBVIOUS
    <2>1. Begin(c) /\ data' = data /\ start' = c.pos /\ refused' = FALSE
      BY <1>2 DEF ParseWith
    <2>2. ParsesFrom(c)'
      BY <1>0, <2>1, BeginParses
    <2>3. parser' = c /\ c = MoveTo(c, c.pos)
      BY <1>0, <2>1 DEF Begin, MoveTo, Valid
    <2>4. Begun'
      BY <2>1, <2>2, <2>3 DEF Begun
    <2>5. QED
      BY <1>0, <2>1, <2>4 DEF IInv, DataOK
  <1>3. CASE Callback
    <2> PICK e \in Answers : /\ ParseInput(TRUE, e) \/ ParseOutput(e)
                             /\ refused' = (e # NoError)
                             /\ UNCHANGED <<data, start>>
      BY <1>3 DEF Callback
    <2>1. ParsesFrom(o)'
      BY <1>0, ParseInputParses, ParseOutputParses
    <2>2. Begun'
      BY <2>1, InsideCall
    <2>3. refused' => pc' = "returned" /\ ret'.ok = FALSE /\ ret'.err = UserError
      <3>1. SUFFICES ASSUME e # NoError
                     PROVE  pc' = "returned" /\ ret'.ok = FALSE /\ ret'.err = UserError
        OBVIOUS
      <3>2. e = UserError
        BY <3>1 DEF Answers
      <3>3. \E r : Abort(r.cur, e)
        BY <3>1 DEF ParseInput, ParseOutput, HandOver
      <3>4. QED
        BY <3>2, <3>3 DEF Abort, Return, Returned
    <2>4. refused' \in BOOLEAN
      OBVIOUS
    <2>5. QED
      BY <1>0, <2>2, <2>3, <2>4 DEF IInv, DataOK
  <1>4. CASE Step
    <2>1. ParsesFrom(o)'
      BY <1>0, <1>4, ParseAloneParses DEF Step
    <2>2. Begun'
      BY <1>4, <2>1, InsideCall DEF Step
    <2>3. pc # "returned"
      BY <1>4 DEF Step, ParseAlone, ParseHead, BadInput, ParseOutputCount, BadOutput,
                  EndOutputs, ParseWitnessCount, ParseWitnessItem, EndWitness, ParseLocktime
    <2>4. QED
      BY <1>0, <1>4, <2>2, <2>3 DEF IInv, DataOK, Step
  <1>5. QED
    BY <1>1, <1>2, <1>3, <1>4 DEF Next

(* The inductive invariant holds in every state.                           *)
THEOREM IInvHolds == Spec => []IInv
  BY InitEstablishes, NextPreserves, PTL DEF Spec

-----------------------------------------------------------------------------
(* The properties.                                                         *)

(* The cursors of parse_with and of Witness::parse stay in their windows,  *)
(* and its counters in the loops they count, whatever the buffer holds and *)
(* the callbacks answer.                                                   *)
THEOREM TypeCorrect == Spec => []TypeOK
  <1>1. IInv => TypeOK
    <2> SUFFICES ASSUME IInv
                 PROVE  TypeOK
      OBVIOUS
    <2>1. /\ DataOK /\ Valid(parser) /\ start \in Nat /\ start <= parser.pos /\ Counting
      BY ParserFields
    <2>2. Within(parser) /\ (pc = "items" => Within(witness.cur))
      BY <2>1 DEF Within, Valid, Counting
    <2>3. pc \in Phases
      BY <2>1 DEF Counting, CallPhases, Phases
    <2>4. refused \in BOOLEAN
      BY DEF IInv
    <2>5. QED
      BY <2>1, <2>2, <2>3, <2>4 DEF TypeOK, Counting
  <1>2. QED
    BY <1>1, IInvHolds, PTL

(* No call of parse_with delivers a byte twice or out of order, or one it  *)
(* has not consumed, however often it is called again after an error.      *)
THEOREM DeliveredInOrder == Spec => []DeliveriesInOrder
  <1>1. IInv => DeliveriesInOrder
    <2> SUFFICES ASSUME IInv
                 PROVE  DeliveriesInOrder
      OBVIOUS
    <2>1. Placed(log, parser.lo + start, parser.lo + parser.pos)
      BY ParserFields DEF Spanning, MoveTo
    <2>2. QED
      BY <2>1 DEF DeliveriesInOrder, Placed
  <1>2. QED
    BY <1>1, IInvHolds, PTL

(* When all inputs come before all outputs, counting them is subtraction.  *)
LEMMA CountSorted ==
  ASSUME NEW n \in Nat, NEW m \in Nat, Len(log) = n + m, Sorted(log, n)
  PROVE  Count("input") = n /\ Count("output") = m
  <1>1. {i \in 1 .. Len(log) : log[i].kind = "input"} = 1 .. n
    BY DEF Sorted
  <1>2. {i \in 1 .. Len(log) : log[i].kind = "output"} = n + 1 .. n + m
    BY DEF Sorted
  <1>3. Cardinality(1 .. n) = n
    BY FS_Interval
  <1>4. Cardinality(n + 1 .. n + m) = m
    <2>1. n + 1 \in Int /\ n + m \in Int
      OBVIOUS
    <2>2. Cardinality(n + 1 .. n + m) = IF n + 1 > n + m THEN 0 ELSE (n + m) - (n + 1) + 1
      BY <2>1, FS_Interval
    <2>3. QED
      BY <2>2
  <1>5. QED
    BY <1>1, <1>2, <1>3, <1>4 DEF Count

(* Ok means that the callbacks were called once for each element that the  *)
(* result counts, the inputs first, and that none of them objected.        *)
THEOREM OkIsComplete == Spec => []OkMeansDelivered
  <1>1. IInv => OkMeansDelivered
    <2> SUFFICES ASSUME IInv, pc = "returned", ret.ok
                 PROVE  /\ ~ refused
                        /\ ret.val.inputs > 0
                        /\ Count("input") = ret.val.inputs
                        /\ Count("output") = ret.val.outputs
                        /\ \A i \in 1 .. Len(log) :
                             log[i].kind = IF i <= ret.val.inputs THEN "input" ELSE "output"
      BY DEF OkMeansDelivered
    <2>1. /\ Sorted(log, head.inputs) /\ head.inputs \in Nat /\ outs \in Nat
          /\ head.inputs > 0 /\ Len(log) = head.inputs + outs
          /\ ret.val.inputs = head.inputs /\ ret.val.outputs = outs
      BY ParserFields, LimitTypes DEF Logging, Counting
    <2>2. Count("input") = head.inputs /\ Count("output") = outs
      BY <2>1, CountSorted
    <2>3. ~ refused
      BY DEF IInv
    <2>4. QED
      BY <2>1, <2>2, <2>3 DEF Sorted
  <1>2. QED
    BY <1>1, IInvHolds, PTL

(* Once a callback has answered an error, parse_with returns that error    *)
(* and calls no callback again.                                            *)
THEOREM RefusalsAreFinal == Spec => []RefusalEndsTheCall
  <1>1. IInv => RefusalEndsTheCall
    BY DEF IInv, RefusalEndsTheCall
  <1>2. QED
    BY <1>1, IInvHolds, PTL

-----------------------------------------------------------------------------
(* Encoded transactions.                                                   *)

(* The call reads t, if t stands where the call began, and whether or not  *)
(* all of it does.                                                         *)
ReadsTx(t) ==
  \A o \in {MoveTo(parser, start)} :
    (pc # "idle" /\ Holds(o, o.pos, EncodeTx(t))) =>
      Rendering(o, t) /\ (refused \/ FailsShort(o, t))

(* The inductive invariant of what is read.                                *)
CodingInv ==
  /\ IInv
  /\ parser.lo = 0 /\ parser.len = Len(data)
  /\ \A t \in Txs : ReadsTx(t)

(* A step inside a call, once it is known to read on.                      *)
LEMMA ReadsOn ==
  ASSUME CodingInv, data' = data, start' = start, NEW t \in Txs, NEW o, o = MoveTo(parser, start),
         ParsesFrom(o)',
         ASSUME Laid(o, t), Encodable(t), Rendering(o, t)
         PROVE  Rendering(o, t)' /\ (refused' \/ FailsShort(o, t)'),
         pc # "idle"
  PROVE  ReadsTx(t)'
  <1>1. /\ parser'.lo = o.lo /\ parser'.len = o.len /\ start = o.pos /\ Valid(o)
    BY DEF ParsesFrom, Spanning, MoveTo, Valid
  <1>2. o = MoveTo(parser', start')
    BY <1>1 DEF MoveTo
  <1>3. SUFFICES ASSUME Holds(o, o.pos, EncodeTx(t))'
                 PROVE  Rendering(o, t)' /\ (refused' \/ FailsShort(o, t)')
    BY <1>2 DEF ReadsTx, MoveTo
  <1>4. Holds(o, o.pos, EncodeTx(t))
    BY <1>3 DEF Holds
  <1>5. Rendering(o, t)
    BY <1>4 DEF CodingInv, ReadsTx
  <1>6. Encodable(t)
    BY TxsAssumption
  <1>7. Laid(o, t)
    BY <1>1, <1>4, <1>6, Layout
  <1>8. QED
    BY <1>5, <1>6, <1>7

(* A client begins outside a call.                                         *)
LEMMA InitReads == Init => CodingInv
  <1> SUFFICES ASSUME Init
               PROVE  CodingInv
    OBVIOUS
  <1>1. IInv
    BY InitEstablishes
  <1>2. pc = "idle" /\ parser.lo = 0 /\ parser.len = Len(data)
    <2>1. Len(data) \in Nat
      BY <1>1 DEF IInv, DataOK
    <2>2. QED
      BY <2>1 DEF Init, CursorNew, AllData, Slice
  <1>3. QED
    BY <1>1, <1>2 DEF CodingInv, ReadsTx

(* Every step keeps the invariant of what is read.                         *)
LEMMA NextReads == CodingInv /\ [Next]_vars => CodingInv'
  <1> SUFFICES ASSUME CodingInv, [Next]_vars
               PROVE  CodingInv'
    OBVIOUS
  <1>0. /\ IInv /\ DataOK /\ Valid(parser) /\ parser.lo = 0 /\ parser.len = Len(data)
        /\ IInv' /\ start \in Nat
    BY ParserFields, NextPreserves DEF CodingInv
  <1>a. PICK o : o = MoveTo(parser, start) /\ ParsesFrom(o)
    BY <1>0 DEF IInv, Begun
  <1>1. CASE UNCHANGED vars
    <2>1. ASSUME NEW t \in Txs
          PROVE  ReadsTx(t)'
      <3>1. ReadsTx(t)
        BY DEF CodingInv
      <3>2. UNCHANGED parseVars /\ data' = data /\ start' = start /\ refused' = refused
        BY <1>1 DEF vars
      <3>3. SUFFICES ASSUME NEW x, x = MoveTo(parser', start'), pc' # "idle",
                            Holds(x, x.pos, EncodeTx(t))'
                     PROVE  Rendering(x, t)' /\ (refused' \/ FailsShort(x, t)')
        BY DEF ReadsTx, MoveTo
      <3>4. Rendering(x, t) /\ (refused \/ FailsShort(x, t))
        BY <3>1, <3>2, <3>3 DEF ReadsTx, Holds, parseVars
      <3>5. Rendering(x, t)'
        BY <3>2, <3>4, RenderingStays
      <3>6. FailsShort(x, t)' <=> FailsShort(x, t)
        BY <3>2 DEF FailsShort, parseVars
      <3>7. QED
        BY <3>2, <3>4, <3>5, <3>6
    <2>2. QED
      BY <1>0, <1>1, <2>1 DEF CodingInv, vars, parseVars
  <1>2. CASE ParseWith
    <2>a. PICK c : c = parser
      OBVIOUS
    <2>1. /\ Begin(c) /\ data' = data /\ start' = c.pos /\ Valid(c)
      BY <1>0, <1>2, <2>a DEF ParseWith
    <2>2. parser' = c /\ pc' = "head" /\ c = MoveTo(c, c.pos)
      BY <2>1 DEF Begin, MoveTo, Valid
    <2>3. ASSUME NEW t \in Txs
          PROVE  ReadsTx(t)'
      <3>1. Rendering(c, t)'
        BY <2>1, BeginRenders
      <3>2. FailsShort(c, t)'
        BY <2>2 DEF FailsShort
      <3>3. QED
        BY <2>1, <2>2, <3>1, <3>2 DEF ReadsTx
    <2>4. QED
      BY <1>0, <2>a, <2>1, <2>2, <2>3 DEF CodingInv
  <1>3. CASE Callback
    <2>a. PICK e \in Answers : /\ ParseInput(TRUE, e) \/ ParseOutput(e)
                               /\ refused' = (e # NoError)
                               /\ UNCHANGED <<data, start>>
      BY <1>3 DEF Callback
    <2>1. ParsesFrom(o)'
      BY <1>0, <1>a, <2>a, ParseInputParses, ParseOutputParses
    <2>2. pc # "idle" /\ pc # "returned"
      BY <2>a DEF ParseInput, ParseOutput
    <2>3. refused' \/ pc' # "returned"
      <3>1. SUFFICES ASSUME e = NoError
                     PROVE  pc' = pc
        BY <2>a, <2>2
      <3>2. QED
        BY <2>a, <3>1 DEF ParseInput, ParseOutput, HandOver
    <2>4. ASSUME NEW t \in Txs
          PROVE  ReadsTx(t)'
      <3>1. ASSUME Laid(o, t), Encodable(t), Rendering(o, t)
            PROVE  Rendering(o, t)' /\ (refused' \/ FailsShort(o, t)')
        <4>1. Rendering(o, t)'
          BY <1>0, <1>a, <2>a, <3>1, CallbacksRender
        <4>2. refused' \/ FailsShort(o, t)'
          BY <2>3 DEF FailsShort
        <4>3. QED
          BY <4>1, <4>2
      <3>2. QED
        BY <1>a, <2>a, <2>1, <2>2, <3>1, ReadsOn
    <2>5. parser'.lo = 0 /\ parser'.len = Len(data)
      BY <1>0, <1>a, <2>1 DEF ParsesFrom, Spanning, MoveTo
    <2>6. QED
      BY <1>0, <2>a, <2>4, <2>5 DEF CodingInv
  <1>4. CASE Step
    <2>1. /\ ParseAlone /\ data' = data /\ start' = start /\ refused' = refused
      BY <1>4 DEF Step
    <2>2. ParsesFrom(o)'
      BY <1>0, <1>a, <2>1, ParseAloneParses
    <2>3. pc # "idle"
      BY <2>1 DEF ParseAlone, ParseHead, BadInput, ParseOutputCount, BadOutput,
                  EndOutputs, ParseWitnessCount, ParseWitnessItem, EndWitness, ParseLocktime
    <2>4. ASSUME NEW t \in Txs
          PROVE  ReadsTx(t)'
      <3>1. ASSUME Laid(o, t), Encodable(t), Rendering(o, t)
            PROVE  Rendering(o, t)' /\ (refused' \/ FailsShort(o, t)')
        BY <1>0, <1>a, <2>1, <3>1, ParseAloneRenders
      <3>2. QED
        BY <1>a, <2>1, <2>2, <2>3, <3>1, ReadsOn
    <2>5. parser'.lo = 0 /\ parser'.len = Len(data)
      BY <1>0, <1>a, <2>2 DEF ParsesFrom, Spanning, MoveTo
    <2>6. QED
      BY <1>0, <2>1, <2>4, <2>5 DEF CodingInv
  <1>5. QED
    BY <1>1, <1>2, <1>3, <1>4 DEF Next

(* The invariant of what is read holds in every state.                     *)
THEOREM CodingInvHolds == Spec => []CodingInv
  BY InitReads, NextReads, PTL DEF Spec

(* What the buffer held is as long as the bytes behind where the call      *)
(* began.                                                                  *)
LEMMA GivenBytes ==
  ASSUME DataOK, start \in Nat, start <= Len(data), NEW t, Encodable(t),
         NEW o, o.lo = 0, o.len = Len(data), o.pos = start
  PROVE  /\ Len(Given) = Len(data) - start /\ Len(data) \in Nat
         /\ EncodeTx(t) \in Seq(Byte)
         /\ IsPrefix(EncodeTx(t), Given) => Holds(o, o.pos, EncodeTx(t))
         /\ IsPrefix(Given, EncodeTx(t)) => Holds(o, o.pos, EncodeTx(t))
  <1>a. PICK s, g, n : s = EncodeTx(t) /\ g = Given /\ n = Len(data) - start
    OBVIOUS
  <1>1. data \in Seq(Byte) /\ Len(data) \in Nat /\ n \in Nat
    BY <1>a DEF DataOK
  <1>2. /\ Len(g) = n /\ g \in Seq(Byte)
        /\ \A i \in 1 .. n : g[i] = data[start + i]
    BY <1>1, <1>a DEF Given
  <1>3. s \in Seq(Byte) /\ Len(s) \in Nat
    BY <1>a, EncodedBytes
  <1>4. ASSUME IsPrefix(s, g) \/ IsPrefix(g, s)
        PROVE  Holds(o, o.pos, s)
    <2>1. ASSUME NEW i \in 1 .. Len(s), i <= n
          PROVE  g[i] = s[i]
      <3>1. CASE IsPrefix(s, g)
        <4>1. SubSeq(s, 1, Len(s)) = SubSeq(g, 1, Len(s)) /\ Len(s) <= Len(g)
          BY <3>1 DEF IsPrefix
        <4>2. SubSeq(s, 1, Len(s))[i] = s[i] /\ SubSeq(g, 1, Len(s))[i] = g[i]
          BY <1>2, <1>3, <4>1
        <4>3. QED
          BY <4>1, <4>2
      <3>2. CASE IsPrefix(g, s)
        <4>1. SubSeq(g, 1, Len(g)) = SubSeq(s, 1, Len(g)) /\ Len(g) <= Len(s)
          BY <3>2 DEF IsPrefix
        <4>2. i \in 1 .. Len(g)
          BY <1>1, <1>2, <2>1
        <4>3. SubSeq(g, 1, Len(g))[i] = g[i] /\ SubSeq(s, 1, Len(g))[i] = s[i]
          BY <1>2, <1>3, <4>1, <4>2
        <4>4. QED
          BY <4>1, <4>3
      <3>3. QED
        BY <1>4, <3>1, <3>2
    <2>2. SUFFICES ASSUME NEW i \in 1 .. Len(s), o.pos + i <= o.len
                   PROVE  data[o.lo + o.pos + i] = s[i]
      BY DEF Holds
    <2>3. i <= n /\ i \in 1 .. n /\ o.lo + o.pos + i = start + i
      BY <1>1, <1>3, <1>a, <2>2
    <2>4. QED
      BY <1>2, <2>1, <2>3
  <1>5. QED
    BY <1>1, <1>2, <1>3, <1>4, <1>a

(* A call that has returned stands behind where it began.                  *)
LEMMA Standing ==
  ASSUME CodingInv, NEW t \in Txs, NEW o, o = MoveTo(parser, start)
  PROVE  /\ DataOK /\ start \in Nat /\ start <= Len(data) /\ Valid(o) /\ parser.pos <= Len(data)
         /\ o.lo = 0 /\ o.len = Len(data) /\ o.pos = start /\ Encodable(t)
         /\ ret.ok \in BOOLEAN /\ parser.pos \in Nat
  <1>1. /\ DataOK /\ Valid(parser) /\ start \in Nat /\ start <= parser.pos /\ Counting
        /\ Spanning(o) /\ parser.lo = 0 /\ parser.len = Len(data)
    BY ParserFields DEF CodingInv
  <1>2. Encodable(t)
    BY TxsAssumption
  <1>3. parser.pos <= Len(data) /\ parser.pos \in Nat /\ Len(data) \in Nat
    BY <1>1, ValidFields
  <1>4. Valid(o) /\ o.lo = 0 /\ o.len = Len(data) /\ o.pos = start
    BY <1>1 DEF Spanning, MoveTo
  <1>5. QED
    BY <1>1, <1>2, <1>3, <1>4 DEF Counting

(* Parsing what was encoded returns it, delivers its inputs and outputs    *)
(* and stops where it ends: for every transaction within the limits, every *)
(* buffer that holds it, and every call that begins where it does.         *)
THEOREM ReadsBack == Spec => []RoundTrip
  <1>1. CodingInv => RoundTrip
    <2> SUFFICES ASSUME CodingInv, NEW t \in Txs, Finished, IsPrefix(Encoded[t], Given)
                 PROVE  /\ ret.ok
                        /\ ret.val = [version |-> t.version, locktime |-> t.locktime,
                                      inputs |-> Len(t.inputs), outputs |-> Len(t.outputs)]
                        /\ parser.pos = start + Len(Encoded[t])
                        /\ Shows(log, t)
      BY DEF RoundTrip
    <2>a. PICK o, n : o = MoveTo(parser, start) /\ n = SizeOf(t)
      OBVIOUS
    <2>1. /\ DataOK /\ start \in Nat /\ start <= Len(data) /\ Valid(o) /\ parser.pos <= Len(data)
          /\ o.lo = 0 /\ o.len = Len(data) /\ o.pos = start /\ Encodable(t)
          /\ pc = "returned" /\ ~ refused /\ ret.ok \in BOOLEAN /\ parser.pos \in Nat
      BY <2>a, Standing DEF Finished
    <2>2. Encoded[t] = EncodeTx(t)
      BY DEF Encoded
    <2>3. Len(Given) = Len(data) - start /\ Len(data) \in Nat /\ Holds(o, o.pos, EncodeTx(t))
      BY <2>1, <2>2, GivenBytes
    <2>4. Rendering(o, t) /\ FailsShort(o, t)
      BY <2>1, <2>3, <2>a DEF CodingInv, ReadsTx
    <2>5. n \in Nat /\ Len(Encoded[t]) = n
      BY <2>1, <2>2, <2>a, GivenBytes DEF SizeOf
    <2>6. n <= Len(data) - start
      BY <2>2, <2>3, <2>5 DEF IsPrefix
    <2>7. ret.ok
      <3>1. ~ Short(o, n, ret.err)
        BY <2>1, <2>3, <2>5, <2>6 DEF Short
      <3>2. QED
        BY <2>1, <2>4, <2>a, <3>1 DEF FailsShort
    <2>8. /\ AllShown(t) /\ StandsAt(o, parser, n)
          /\ ret.val = [version |-> t.version, locktime |-> t.locktime,
                        inputs |-> Len(t.inputs), outputs |-> Len(t.outputs)]
      BY <2>1, <2>4, <2>7, <2>a DEF Rendering
    <2>9. Len(log) = Len(t.inputs) + Len(t.outputs)
      <3>1. /\ Len(log) = head.inputs + outs
            /\ ret.val.inputs = head.inputs /\ ret.val.outputs = outs
        BY <2>1, <2>7, ParserFields DEF CodingInv, Logging
      <3>2. ret.val.inputs = Len(t.inputs) /\ ret.val.outputs = Len(t.outputs)
        BY <2>8
      <3>3. QED
        BY <3>1, <3>2, Zenon
    <2>10. Shows(log, t)
      BY <2>8, <2>9 DEF Shows, AllShown, InputsShown, OutputsShown
    <2>11. parser.pos = start + Len(Encoded[t])
      BY <2>1, <2>5, <2>8 DEF StandsAt
    <2>12. QED
      BY <2>7, <2>8, <2>10, <2>11
  <1>2. QED
    BY <1>1, CodingInvHolds, PTL

(* A transaction cut short anywhere is an UnexpectedEof.                   *)
THEOREM CutShort == Spec => []CutShortIsEof
  <1>1. CodingInv => CutShortIsEof
    <2> SUFFICES ASSUME CodingInv, NEW t \in Txs, Finished, IsStrictPrefix(Given, Encoded[t])
                 PROVE  ~ ret.ok /\ ret.err.kind = "UnexpectedEof"
      BY DEF CutShortIsEof
    <2>a. PICK o, n : o = MoveTo(parser, start) /\ n = SizeOf(t)
      OBVIOUS
    <2>1. /\ DataOK /\ start \in Nat /\ start <= Len(data) /\ Valid(o) /\ parser.pos <= Len(data)
          /\ o.lo = 0 /\ o.len = Len(data) /\ o.pos = start /\ Encodable(t)
          /\ pc = "returned" /\ ~ refused /\ ret.ok \in BOOLEAN /\ parser.pos \in Nat
      BY <2>a, Standing DEF Finished
    <2>2. Encoded[t] = EncodeTx(t) /\ IsPrefix(Given, EncodeTx(t)) /\ Given # EncodeTx(t)
      BY DEF Encoded, IsStrictPrefix
    <2>3. /\ Len(Given) = Len(data) - start /\ Len(data) \in Nat /\ Holds(o, o.pos, EncodeTx(t))
          /\ EncodeTx(t) \in Seq(Byte)
      BY <2>1, <2>2, GivenBytes
    <2>4. Rendering(o, t) /\ FailsShort(o, t)
      BY <2>1, <2>3, <2>a DEF CodingInv, ReadsTx
    <2>5. n \in Nat /\ Len(EncodeTx(t)) = n
      BY <2>3, <2>a DEF SizeOf
    <2>6. Len(data) - start < n
      <3>1. /\ Len(Given) <= Len(EncodeTx(t))
            /\ SubSeq(Given, 1, Len(Given)) = SubSeq(EncodeTx(t), 1, Len(Given))
        BY <2>2 DEF IsPrefix
      <3>2. Given \in Seq(Byte)
        BY <2>1, <2>3 DEF Given, DataOK
      <3>3. Len(Given) # Len(EncodeTx(t))
        BY <2>2, <2>3, <3>1, <3>2
      <3>4. PICK g, m : g = Len(Given) /\ m = Len(EncodeTx(t))
        OBVIOUS
      <3>5. g <= m /\ g # m /\ m = n /\ n \in Nat /\ g = Len(data) - start /\ g \in Int
        BY <2>1, <2>3, <2>5, <3>1, <3>3, <3>4
      <3>6. QED
        BY <3>5
    <2>7. ~ ret.ok
      <3>1. SUFFICES ASSUME ret.ok
                     PROVE  FALSE
        OBVIOUS
      <3>2. StandsAt(o, parser, n)
        BY <2>1, <2>4, <2>a, <3>1 DEF Rendering
      <3>3. QED
        BY <2>1, <2>3, <2>5, <2>6, <3>2 DEF StandsAt
    <2>8. Short(o, n, ret.err)
      BY <2>1, <2>4, <2>7, <2>a DEF FailsShort
    <2>9. QED
      BY <2>7, <2>8 DEF Short
  <1>2. QED
    BY <1>1, CodingInvHolds, PTL
=============================================================================
