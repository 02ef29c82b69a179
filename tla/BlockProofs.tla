----------------------------- MODULE BlockProofs -----------------------------
(***************************************************************************)
(* The properties of BlockTxIter, proved for every buffer, every limit and *)
(* any sequence of calls and answers, that it implements TxStream, that it *)
(* gives back the transactions of an encoded block, and the properties of  *)
(* the example main that drives it, for every file and command line.       *)
(*                                                                         *)
(* A transaction is parsed on a cursor of its own over what the iterator   *)
(* has not read.  As long as it is, all that ParsingLemmas say of a        *)
(* call of parse_with holds with that cursor as the one it began on; the   *)
(* cursor stays the same until the transaction is taken, and so the next   *)
(* try begins where the last one did.                                      *)
(*                                                                         *)
(* main counts, adds up and prints in its closures and in its loop.  What  *)
(* it should have counted is a set, a sum and a concatenation over all     *)
(* that was delivered; the lemmas in between say how each of these grows   *)
(* with one delivery more, and then every step of main is a case.          *)
(***************************************************************************)
EXTENDS ParseBlock, BlockCoding, ParsingLemmas, FiniteSetTheorems, WellFoundedInduction

(* The cursor that the parser of the next transaction begins on.           *)
Rest == CursorNew(AsSlice(it.cur))

(* parse_with was called on Rest.                                          *)
Begun == \E o \in {Rest} : ParsesFrom(o) /\ Tracking(o)

-----------------------------------------------------------------------------
(* The inductive invariant.                                                *)

(* Where the iterator stands, and the parser if there is one.              *)
Position ==
  /\ DataOK /\ Valid(parser)
  /\ Valid(it.cur) /\ it.cur.lo = 0 /\ it.cur.len = Len(data)
  /\ it.total \in 0 .. MaxBlockTxn /\ it.consumed \in 0 .. it.total
  /\ call \in Methods \cup {"unborn", "ready", "gone"}
  /\ call \in Methods \cup {"ready"} => HeaderLen <= it.cur.pos
  /\ pc \in CallPhases \cup {"idle"}
  /\ pc # "idle" => call \in Methods /\ it.consumed < it.total /\ Begun
  /\ Answered
  /\ coinbases \in Nat /\ saw \in BOOLEAN

(* What the iterator has delivered, and that a failed try shows what the   *)
(* next one will deliver.                                                  *)
History ==
  /\ accepted \in Seq(Seq(Deliveries)) /\ Len(accepted) = it.consumed
  /\ \A k \in 1 .. Len(accepted) : accepted[k] # <<>> /\ Placed(accepted[k], HeaderLen, Here)
  /\ \A k, m \in 1 .. Len(accepted) : k < m =>
       \A i \in 1 .. Len(accepted[k]), j \in 1 .. Len(accepted[m]) :
         accepted[k][i].hi <= accepted[m][j].lo
  /\ failed \in Seq(Deliveries)
  /\ Reproducible(Rest, failed)
  /\ RetryReplays
  /\ call = "unborn" => it.consumed = 0 /\ failed = <<>>

(* What the strict methods know, or have said.  A coinbase is counted once *)
(* only, as the first input of the block, or the call is about to fail.    *)
Strictness ==
  /\ call = "consume_all_strict" /\ ~ (pc = "returned" /\ ret.ok = FALSE) =>
       /\ pc # "idle" => (saw <=> log # <<>>)
       /\ coinbases = 1 =>
            /\ \A k \in 1 .. Len(accepted) : CoinbaseAt(k) <=> k = 1
            /\ it.consumed = 0 => pc # "idle" /\ log # <<>>
            /\ pc # "idle" /\ log # <<>> => (IsCoinbase(log[1].val) <=> it.consumed = 0)
  /\ result.method = "consume_all_strict" => call = "gone"
  /\ result.method = "finish_strict" =>
       call = "ready" /\ result = Reply("finish_strict", NoValue, FinishStrict)
  /\ StrictMeansWholeBlock

IInv == Position /\ History /\ Strictness

-----------------------------------------------------------------------------
(* What the invariant says in arithmetic.                                  *)

(* The fields of the iterator's cursor, and the parser's window.           *)
LEMMA Fields ==
  ASSUME Position
  PROVE  /\ DataOK /\ Len(data) \in Nat /\ HeaderLen \in Nat /\ MaxBlockTxn \in Nat
         /\ it.cur.pos \in Nat /\ it.cur.pos <= Len(data) /\ Here = it.cur.pos
         /\ Remaining(it.cur) = Len(data) - it.cur.pos
         /\ it.total \in Nat /\ it.consumed \in Nat /\ it.consumed <= it.total
         /\ Rest = [lo |-> it.cur.pos, len |-> Len(data) - it.cur.pos, pos |-> 0]
         /\ Valid(Rest) /\ Rest.lo + Rest.pos = it.cur.pos
  <1>1. /\ DataOK /\ Len(data) \in Nat /\ HeaderLen \in Nat /\ MaxBlockTxn \in Nat
    BY TransactionAssumption, BlockAssumption DEF Position, DataOK, HeaderLen
  <1>2. /\ it.cur.lo = 0 /\ it.cur.len = Len(data) /\ it.cur.pos \in Nat
        /\ it.cur.pos <= Len(data)
    BY DEF Position, Valid
  <1>3. Here = it.cur.pos /\ Remaining(it.cur) = Len(data) - it.cur.pos
    BY <1>1, <1>2 DEF Here, Remaining
  <1>4. Rest = [lo |-> it.cur.pos, len |-> Len(data) - it.cur.pos, pos |-> 0]
    BY <1>1, <1>2 DEF Rest, CursorNew, AsSlice, Slice
  <1>5. Valid(Rest) /\ Rest.lo + Rest.pos = it.cur.pos
    BY <1>1, <1>2, <1>4 DEF Valid
  <1>6. it.total \in Nat /\ it.consumed \in Nat /\ it.consumed <= it.total
    BY <1>1 DEF Position
  <1>7. QED
    BY <1>1, <1>2, <1>3, <1>4, <1>5, <1>6

(* While a transaction is parsed, its call was begun on the rest.          *)
LEMMA ParserFields ==
  ASSUME Position, pc # "idle"
  PROVE  /\ ParsesFrom(Rest) /\ Tracking(Rest) /\ log \in Seq(Deliveries)
         /\ parser.lo = it.cur.pos /\ parser.len = Len(data) - it.cur.pos
         /\ parser.pos \in Nat /\ parser.pos <= parser.len
         /\ Placed(log, it.cur.pos, parser.lo + parser.pos)
         /\ ret.ok \in BOOLEAN
  <1>1. ParsesFrom(Rest) /\ Tracking(Rest)
    BY DEF Position, Begun
  <1>2. Counting /\ Logging /\ Spanning(Rest)
    BY <1>1 DEF ParsesFrom
  <1>3. /\ Rest.lo = it.cur.pos /\ Rest.len = Len(data) - it.cur.pos
        /\ Rest.lo + Rest.pos = it.cur.pos
    BY Fields
  <1>4. QED
    BY <1>1, <1>2, <1>3 DEF Counting, Logging, Spanning, Valid

(* The iterator begins behind the header and a count within the limit.     *)
LEMMA NewIterLemma ==
  ASSUME DataOK
  PROVE  NewIter.ok =>
           /\ Valid(NewIter.cur)
           /\ NewIter.cur.lo = 0 /\ NewIter.cur.len = Len(data)
           /\ HeaderLen <= NewIter.cur.pos
           /\ NewIter.val.total \in 0 .. MaxBlockTxn
  <1> DEFINE c      == CursorNew(AllData)
             raw    == ReadArray(c, HeaderLen)
             h0     == Ok(raw.cur, HeaderFields(raw.val), {})
             header == IF raw.ok THEN After(raw, h0) ELSE raw
             count  == TxCount(header.cur)
             v      == [header |-> header.val, total |-> count.val]
             s0     == Ok(count.cur, v, {})
             s1     == IF count.ok THEN After(count, s0) ELSE count
             s2     == IF header.ok THEN After(header, s1) ELSE header
  <1>0. HeaderLen \in Nat /\ MaxBlockTxn \in Nat /\ Len(data) \in Nat
    BY TransactionAssumption, BlockAssumption DEF HeaderLen, DataOK
  <1>1. NewIter = s2
    BY DEF NewIter, BlockHeader, AndThen
  <1>2. Valid(c) /\ c.lo = 0 /\ c.len = Len(data) /\ c.pos = 0
    BY <1>0 DEF CursorNew, AllData, Slice, Valid
  <1> HIDE DEF c
  <1>3. Moves(c, raw, HeaderLen)
    <2>1. Reads(c, raw, 0) /\ (raw.ok => raw.cur.pos = c.pos + HeaderLen)
      BY <1>0, <1>2, ReadBytesLemma DEF ReadArray
    <2> HIDE DEF raw
    <2>2. QED
      BY <1>0, <1>2, <2>1, ReadsMove DEF Moves
  <1>4. raw.ok => Moves(raw.cur, h0, 0)
    BY <1>2, <1>3, MovedIsValid, OkMoves
  <1> HIDE DEF raw, h0
  <1>5. Moves(c, header, HeaderLen + 0)
    <2>1. 0 \in Nat
      OBVIOUS
    <2>2. QED
      BY <1>0, <1>2, <1>3, <1>4, <2>1, AndThenMoves
  <1> HIDE DEF header
  <1>6. Valid(header.cur)
    BY <1>2, <1>5, MovedIsValid
  <1>7. Moves(header.cur, count, 0) /\ (count.ok => count.val \in 0 .. MaxBlockTxn)
    BY <1>0, <1>6, LimitedCountLemma DEF TxCount
  <1>8. count.ok => Moves(count.cur, s0, 0) /\ s0.val = v
    BY <1>6, <1>7, MovedIsValid, OkMoves
  <1>9. v.total = count.val
    OBVIOUS
  <1> HIDE DEF count, v, s0
  <1>10. 0 \in Nat /\ 0 + 0 = 0 /\ HeaderLen + 0 = HeaderLen
    BY <1>0
  <1>11. Moves(header.cur, s1, 0) /\ (s1.ok => count.ok /\ s1.val = v)
    <2>1. Moves(header.cur, s1, 0 + 0) /\ (s1.ok => count.ok /\ s1.val = s0.val)
      BY <1>6, <1>7, <1>8, <1>10, AndThenMoves
    <2>2. QED
      BY <1>8, <1>10, <2>1
  <1> HIDE DEF s1
  <1>12. Moves(c, s2, HeaderLen) /\ (s2.ok => s1.ok /\ s2.val = s1.val)
    <2>1. Moves(c, s2, HeaderLen + 0) /\ (s2.ok => s1.ok /\ s2.val = s1.val)
      BY <1>0, <1>2, <1>5, <1>10, <1>11, AndThenMoves
    <2>2. QED
      BY <1>10, <2>1
  <1> HIDE DEF s2
  <1>13. s2.ok => s2.val.total \in 0 .. MaxBlockTxn
    BY <1>7, <1>9, <1>11, <1>12
  <1>14. Valid(s2.cur) /\ s2.cur.lo = 0 /\ s2.cur.len = Len(data)
    BY <1>2, <1>12, MovedIsValid
  <1>15. s2.ok => HeaderLen <= s2.cur.pos
    BY <1>0, <1>2, <1>12 DEF Moves
  <1>16. QED
    BY <1>1, <1>13, <1>14, <1>15

-----------------------------------------------------------------------------
(* Steps inside a transaction.                                             *)

(* What the client notices of such a step.                                 *)
Quiet == log' = log

Delivers == pc \in {"inputs", "outputs"} /\ \E d : log' = Append(log, d)

(* The iterator itself does nothing.                                       *)
IterStays ==
  /\ data' = data /\ it' = it /\ call' = call /\ accepted' = accepted /\ failed' = failed
  /\ coinbases' \in Nat /\ saw' \in BOOLEAN

(* Each step of the parser keeps what is known of it.                      *)
LEMMA ParserSteps ==
  ASSUME Position, data' = data, NEW o, o = Rest,
         \/ ParseAlone
         \/ \E called \in BOOLEAN : \E e :
              /\ called \/ e # NoError
              /\ ParseInput(called, e) \/ (called /\ ParseOutput(e))
  PROVE  /\ pc # "idle" /\ pc' # "idle" /\ ParsesFrom(o)' /\ Tracking(o)' /\ Answered'
         /\ Quiet \/ Delivers
  <1>1. pc # "idle"
    BY DEF ParseAlone, ParseHead, BadInput, ParseOutputCount, BadOutput, EndOutputs,
           ParseWitnessCount, ParseWitnessItem, EndWitness, ParseLocktime, ParseInput, ParseOutput
  <1>2. ParsesFrom(o) /\ Tracking(o) /\ DataOK
    BY <1>1, ParserFields, Fields
  <1>3. ASSUME ParseAlone
        PROVE  /\ ParsesFrom(o)' /\ Tracking(o)' /\ Answered'
               /\ Quiet \/ Delivers
    <2>1. ParsesFrom(o)' /\ Tracking(o)'
      BY <1>2, <1>3, ParseAloneParses, ParseAloneTracks
    <2>2. log' = log
      BY <1>3 DEF ParseAlone, ParseHead, BadInput, ParseOutputCount, BadOutput, EndOutputs,
                  ParseWitnessCount, ParseWitnessItem, EndWitness, ParseLocktime
    <2>3. QED
      BY <1>1, <1>3, <2>1, <2>2, ParseAloneAnswers DEF Quiet
  <1>4. ASSUME NEW called \in BOOLEAN, NEW e, called \/ e # NoError,
               ParseInput(called, e) \/ (called /\ ParseOutput(e))
        PROVE  /\ ParsesFrom(o)' /\ Tracking(o)' /\ Answered'
               /\ Quiet \/ Delivers
    <2>1. ParsesFrom(o)'
      BY <1>2, <1>4, ParseInputParses, ParseOutputParses
    <2>2. Tracking(o)'
      BY <1>2, <1>4, CallbacksTrack
    <2>3. Quiet \/ Delivers
      <3>1. CASE ParseInput(called, e)
        <4>1. /\ pc = "inputs"
              /\ \E r : log' = IF called THEN Append(log, Delivery("input", parser, r)) ELSE log
          BY <3>1 DEF ParseInput, HandOver
        <4>2. QED
          BY <4>1 DEF Quiet, Delivers
      <3>2. CASE called /\ ParseOutput(e)
        BY <3>2 DEF ParseOutput, HandOver, Delivers
      <3>3. QED
        BY <1>4, <3>1, <3>2
    <2>4. Answered'
      BY <1>4, CallbacksAnswer
    <2>5. QED
      BY <2>1, <2>2, <2>3, <2>4
  <1>5. pc' # "idle"
    BY DEF ParseAlone, ParseHead, BadInput, ParseOutputCount, BadOutput, EndOutputs,
           ParseWitnessCount, ParseWitnessItem, EndWitness, ParseLocktime, ParseInput,
           ParseOutput, HandOver, Abort, Return
  <1>6. QED
    BY <1>1, <1>3, <1>4, <1>5

(* While the iterator does nothing, the rest stays.                        *)
LEMMA RestStays ==
  ASSUME it' = it
  PROVE  Rest' = Rest /\ Here' = Here
  BY DEF Rest, CursorNew, AsSlice, Slice, Here

(* Deliveries of a failed try are what they were.                          *)
LEMMA FailedStays ==
  ASSUME data' = data, it' = it, failed' = failed, Reproducible(Rest, failed)
  PROVE  Reproducible(Rest, failed)'
  <1> PICK o : o = Rest
    OBVIOUS
  <1> PICK f : f = failed
    OBVIOUS
  <1>1. Reproducible(o, f)'
    BY ReproducibleStays
  <1>2. QED
    BY <1>1, RestStays

(* A step of the parser keeps Position.                                    *)
LEMMA InsideKeepsPosition ==
  ASSUME Position, IterStays, pc # "idle", NEW o, o = Rest,
         ParsesFrom(o)', Tracking(o)', Answered'
  PROVE  Position'
  <1>1. call \in Methods /\ it.consumed < it.total
    BY DEF Position
  <1>2. o = Rest'
    BY RestStays DEF IterStays
  <1>3. Begun'
    BY <1>2 DEF Begun
  <1>4. Valid(parser)' /\ (pc \in CallPhases \cup {"idle"})'
    BY DEF ParsesFrom, Spanning, Counting
  <1>5. (Valid(it.cur))' /\ DataOK'
    BY DEF Position, IterStays, Valid, DataOK
  <1>6. QED
    BY <1>1, <1>3, <1>4, <1>5 DEF Position, IterStays

(* Two logs that the buffer determines and that agree so far agree on what *)
(* comes next.                                                             *)
SameAt(l, f, i) == l[i] = f[i]
SameUpTo(l, f, n) == \A i \in 1 .. n : l[i] = f[i]

(* So says the lemma about them.                                           *)
LEMMA AgreeNext ==
  ASSUME NEW o, TxHead(o).val.inputs \in Nat \ {0}, NEW l, NEW f, NEW j \in Nat \ {0},
         Genuine(o, l, j), Genuine(o, f, j), SameUpTo(l, f, j - 1)
  PROVE  SameAt(l, f, j)
  BY NextDeliveryAgrees DEF SameUpTo, SameAt

(* And so they agree as far as both go.                                    *)
LEMMA AgreeOneMore ==
  ASSUME NEW o, TxHead(o).val.inputs \in Nat \ {0},
         NEW l, NEW f, NEW n \in Nat, Genuine(o, l, n + 1),
         Len(f) \in Nat, Reproducible(o, f),
         \A i \in 1 .. n : i <= Len(f) => l[i] = f[i]
  PROVE  \A i \in 1 .. n + 1 : i <= Len(f) => l[i] = f[i]
  <1> PICK j : j = n + 1
    OBVIOUS
  <1>1. j \in Nat \ {0} /\ j - 1 = n /\ j \in 1 .. j /\ Genuine(o, l, j)
    OBVIOUS
  <1>2. ASSUME j <= Len(f)
        PROVE  l[j] = f[j]
    <2>1. Genuine(o, f, j)
      BY <1>1, <1>2 DEF Reproducible
    <2>2. SameUpTo(l, f, j - 1)
      BY <1>1, <1>2 DEF SameUpTo
    <2>3. SameAt(l, f, j)
      BY <1>1, <2>1, <2>2, AgreeNext
    <2>4. QED
      BY <2>3 DEF SameAt
  <1>3. \A i \in 1 .. j : i \in 1 .. n \/ i = j
    BY <1>1
  <1>4. QED
    BY <1>2, <1>3

(* A step of the parser keeps History: what it delivers is what the failed *)
(* try delivered there.                                                    *)
LEMMA InsideKeepsHistory ==
  ASSUME Position, History, IterStays, pc # "idle", Quiet \/ Delivers,
         NEW o, o = Rest, ParsesFrom(o)', Tracking(o)'
  PROVE  History'
  <1>1. Reproducible(Rest, failed)'
    BY FailedStays DEF IterStays, History
  <1>2. Here' = Here
    BY RestStays DEF IterStays
  <1>3. RetryReplays'
    <2> PICK l : l = log'
      OBVIOUS
    <2> PICK f : f = failed
      OBVIOUS
    <2>1. /\ log \in Seq(Deliveries) /\ Len(log) \in Nat /\ f \in Seq(Deliveries)
          /\ Tracking(o) /\ ParsesFrom(o)
          /\ \A i \in 1 .. Len(log) : i <= Len(f) => log[i] = f[i]
      BY ParserFields DEF History, RetryReplays
    <2>2. \A i \in 1 .. Len(l) : i <= Len(f) => l[i] = f[i]
      <3>1. CASE Quiet
        BY <2>1, <3>1 DEF Quiet
      <3>2. CASE Delivers
        <4>1. Len(l) = Len(log) + 1 /\ \A k \in 1 .. Len(log) : l[k] = log[k]
          BY <2>1, <3>2 DEF Delivers
        <4>2. TxHead(o).val.inputs \in Nat \ {0}
          BY <2>1, <3>2, LimitTypes DEF Delivers, Tracking, ParsesFrom, Counting, CallPhases
        <4>3. l \in Seq(Deliveries)
          BY DEF ParsesFrom, Logging
        <4>4. Reproducible(o, f)
          BY DEF History
        <4>5. Reproducible(o, l)
          <5>1. Reproducible(o, l)'
            BY DEF Tracking
          <5>2. QED
            BY <5>1, ReproducibleStays DEF IterStays
        <4>6. \A k \in 1 .. Len(log) : k <= Len(f) => l[k] = f[k]
          BY <2>1, <4>1
        <4>7. PICK n : n = Len(log)
          OBVIOUS
        <4>8. n \in Nat /\ Genuine(o, l, n + 1) /\ Len(f) \in Nat
          BY <2>1, <4>1, <4>3, <4>5, <4>7 DEF Reproducible
        <4>9. \A k \in 1 .. n : k <= Len(f) => l[k] = f[k]
          BY <4>6, <4>7
        <4>10. \A i \in 1 .. n + 1 : i <= Len(f) => l[i] = f[i]
          BY <4>2, <4>4, <4>8, <4>9, AgreeOneMore
        <4>11. QED
          BY <4>1, <4>7, <4>10
      <3>3. QED
        BY <3>1, <3>2
    <2>3. QED
      BY <2>2 DEF RetryReplays, IterStays
  <1>4. QED
    BY <1>1, <1>2, <1>3 DEF History, IterStays

-----------------------------------------------------------------------------
(* The calls, and what the strict methods know.                            *)

(* As long as the buffer stays, a coinbase is one.                         *)
LEMMA CoinbaseStays ==
  ASSUME data' = data
  PROVE  /\ \A v : IsCoinbase(v)' <=> IsCoinbase(v)
         /\ accepted' = accepted => \A k : CoinbaseAt(k)' <=> CoinbaseAt(k)
  <1>1. \A v : IsCoinbase(v)' <=> IsCoinbase(v)
    BY DEF IsCoinbase, At, Offsets
  <1>2. QED
    BY <1>1 DEF CoinbaseAt

(* No strict method runs, and none has just returned.                      *)
LEMMA NotStrict ==
  ASSUME call' # "consume_all_strict",
         result'.method \notin {"consume_all_strict", "finish_strict"}
  PROVE  Strictness'
  BY DEF Strictness, StrictMeansWholeBlock

(* While a method runs, no strict one has just returned.                   *)
LEMMA InsideResult ==
  ASSUME Strictness, call \in Methods
  PROVE  result.method \notin {"consume_all_strict", "finish_strict"}
  BY DEF Strictness, Methods

(* A call that fails is not Ok, and leaves nothing to remember.            *)
LEMMA StrictReturns ==
  ASSUME call = "consume_all_strict", NEW v, NEW e, e # NoError, Finish(v, e)
  PROVE  Strictness'
  BY DEF Finish, Reply, Strictness, StrictMeansWholeBlock

(* new reads the header and the count, or leaves no iterator.              *)
LEMMA NewKeeps ==
  ASSUME IInv, New
  PROVE  IInv'
  <1>1. Position /\ History /\ DataOK
    BY DEF IInv, Position
  <1>2. /\ pc = "idle" /\ it.consumed = 0 /\ failed = <<>> /\ Len(accepted) = 0
        /\ call = "unborn" /\ data' = data /\ parseVars' = parseVars
        /\ coinbases' = coinbases /\ saw' = saw /\ accepted' = accepted /\ failed' = failed
    BY <1>1 DEF New, Position, History, Methods
  <1>3. Valid(parser)' /\ DataOK' /\ pc' = "idle" /\ Answered'
    BY <1>1, <1>2 DEF parseVars, Position, Valid, DataOK, Answered
  <1>4. /\ call' \in {"ready", "gone"} /\ result'.method = "new"
        /\ it'.consumed = 0
    BY <1>2 DEF New, Reply
  <1>5. /\ Valid(it.cur)' /\ it'.cur.lo = 0 /\ it'.cur.len = Len(data)
        /\ it'.total \in 0 .. MaxBlockTxn
        /\ call' = "ready" => HeaderLen <= it'.cur.pos
    <2>1. CASE NewIter.ok
      <3>1. it' = [cur |-> NewIter.cur, total |-> NewIter.val.total, consumed |-> 0]
        BY <2>1 DEF New
      <3>2. /\ Valid(NewIter.cur)
            /\ NewIter.cur.lo = 0 /\ NewIter.cur.len = Len(data)
            /\ HeaderLen <= NewIter.cur.pos /\ NewIter.val.total \in 0 .. MaxBlockTxn
        BY <1>1, <2>1, NewIterLemma
      <3> PICK c : c = NewIter.cur
        OBVIOUS
      <3>3. it'.cur = c /\ it'.total = NewIter.val.total
        BY <3>1
      <3>4. Valid(c)'
        BY <1>2, <3>2 DEF Valid
      <3>5. QED
        BY <3>2, <3>3, <3>4 DEF Valid
    <2>2. CASE ~ NewIter.ok
      <3>1. it' = it /\ call' = "gone"
        BY <2>2 DEF New
      <3>2. QED
        BY <1>1, <1>2, <3>1 DEF Position, Valid
    <2>3. QED
      BY <2>1, <2>2
  <1>6. Position'
    <2>1. 0 \in 0 .. it'.total
      BY <1>5, BlockAssumption
    <2>2. QED
      BY <1>1, <1>2, <1>3, <1>4, <1>5, <2>1 DEF Position, Methods
  <1>7. History'
    <2>1. Reproducible(Rest, failed)'
      BY <1>2 DEF Reproducible
    <2>2. \A k \in 1 .. Len(accepted') : FALSE
      BY <1>2
    <2>3. RetryReplays'
      BY <1>3 DEF RetryReplays
    <2>4. QED
      BY <1>1, <1>2, <1>4, <2>1, <2>2, <2>3 DEF History
  <1>8. Strictness'
    BY <1>4, NotStrict
  <1>9. QED
    BY <1>6, <1>7, <1>8 DEF IInv

(* Nothing changes but which method runs and what it has returned.         *)
LEMMA BetweenKeeps ==
  ASSUME Position, History, data' = data, parseVars' = parseVars, it' = it,
         accepted' = accepted, failed' = failed, saw' = saw, coinbases' \in Nat,
         pc = "idle", call # "unborn",
         \/ call' \in Methods \cup {"ready"} /\ call \in Methods \cup {"ready"}
         \/ call' = "gone"
  PROVE  Position' /\ History'
  <1>1. Position'
    <2>1. Valid(it.cur)' /\ Valid(parser)' /\ DataOK'
      BY DEF Position, Valid, DataOK, parseVars
    <2>2. QED
      BY <2>1 DEF Position, parseVars, Methods, Answered
  <1>2. History'
    <2>1. Reproducible(Rest, failed)'
      BY FailedStays DEF History
    <2>2. Here' = Here
      BY RestStays
    <2>3. RetryReplays'
      BY DEF RetryReplays, parseVars
    <2>4. call' # "unborn"
      BY DEF Methods
    <2>5. QED
      BY SMTT(60), <2>1, <2>2, <2>3, <2>4 DEF History
  <1>3. QED
    BY <1>1, <1>2

(* A method of the iterator is called.                                     *)
LEMMA CallKeeps ==
  ASSUME IInv, Call
  PROVE  IInv'
  <1>1. pc = "idle" /\ pc' = "idle" /\ call = "ready" /\ call' \in Methods
    BY DEF IInv, Position, Call, Methods, parseVars
  <1>2. Position' /\ History'
    BY <1>1, BetweenKeeps DEF IInv, Call
  <1>3. Strictness'
    BY <1>1 DEF Call, Strictness, StrictMeansWholeBlock, Nothing
  <1>4. QED
    BY <1>2, <1>3 DEF IInv

(* finish_strict is called, and returns.                                   *)
LEMMA CallFinishStrictKeeps ==
  ASSUME IInv, CallFinishStrict
  PROVE  IInv'
  <1>1. pc = "idle" /\ pc' = "idle" /\ call = "ready" /\ call' = "ready"
    BY DEF IInv, Position, CallFinishStrict, Methods, parseVars
  <1>2. Position' /\ History'
    BY <1>1, BetweenKeeps DEF IInv, CallFinishStrict, Position
  <1>3. Strictness'
    <2>1. FinishStrict' = FinishStrict
      BY DEF FinishStrict, CallFinishStrict
    <2>2. result' = Reply("finish_strict", NoValue, FinishStrict)
      BY DEF CallFinishStrict
    <2>3. result'.method = "finish_strict"
      BY <2>2 DEF Reply
    <2>4. QED
      BY <1>1, <2>1, <2>2, <2>3 DEF Strictness, StrictMeansWholeBlock
  <1>4. QED
    BY <1>2, <1>3 DEF IInv

-----------------------------------------------------------------------------
(* From one transaction to the next.                                       *)

(* The next try begins where the last one did.                             *)
LEMMA BeginTxKeeps ==
  ASSUME IInv, BeginTx
  PROVE  IInv'
  <1> PICK o : o = Rest
    OBVIOUS
  <1>1. /\ Position /\ History /\ Strictness /\ pc = "idle" /\ call \in Methods
        /\ it.consumed < it.total /\ Begin(o)
        /\ data' = data /\ it' = it /\ call' = call /\ coinbases' = coinbases
        /\ result' = result /\ accepted' = accepted /\ failed' = failed /\ saw' = FALSE
    BY DEF BeginTx, IInv, Rest
  <1>2. parser' = o /\ pc' = "head" /\ log' = <<>>
    BY <1>1 DEF Begin
  <1>3. DataOK /\ Valid(o)
    BY <1>1, Fields
  <1>4. ParsesFrom(o)' /\ Tracking(o)'
    BY <1>1, <1>3, BeginParses, BeginTracks
  <1>5. Rest' = Rest /\ Here' = Here
    BY <1>1, RestStays
  <1>6. Position'
    <2>1. Begun'
      BY <1>4, <1>5 DEF Begun
    <2>2. Valid(it.cur)' /\ Valid(parser)' /\ DataOK' /\ Answered'
      BY <1>1, <1>2, <1>3 DEF Position, Valid, DataOK, Answered
    <2>3. QED
      BY <1>1, <1>2, <2>1, <2>2 DEF Position, CallPhases
  <1>7. History'
    <2>1. Reproducible(Rest, failed)'
      BY <1>1, FailedStays DEF History
    <2>2. RetryReplays'
      BY <1>2 DEF RetryReplays
    <2>3. QED
      BY SMTT(60), <1>1, <1>5, <2>1, <2>2 DEF History
  <1>8. Strictness'
    <2>1. CASE call = "consume_all_strict"
      <3>1. result'.method \notin {"consume_all_strict", "finish_strict"}
        BY <1>1, InsideResult
      <3>2. \A k : CoinbaseAt(k)' <=> CoinbaseAt(k)
        BY <1>1, CoinbaseStays
      <3>3. coinbases = 1 => /\ \A k \in 1 .. Len(accepted) : CoinbaseAt(k) <=> k = 1
                             /\ it.consumed # 0
        BY <1>1, <2>1 DEF Strictness
      <3>4. (coinbases = 1)' => \A k \in 1 .. Len(accepted') : CoinbaseAt(k)' <=> k = 1
        BY <1>1, <3>2, <3>3
      <3>5. QED
        BY <1>1, <1>2, <3>1, <3>3, <3>4 DEF Strictness, StrictMeansWholeBlock
    <2>2. CASE call # "consume_all_strict"
      <3>1. result'.method \notin {"consume_all_strict", "finish_strict"}
        BY <1>1, InsideResult
      <3>2. QED
        BY <1>1, <2>2, <3>1, NotStrict
    <2>3. QED
      BY <2>1, <2>2
  <1>9. QED
    BY <1>6, <1>7, <1>8 DEF IInv

(* All transactions have been taken: consume_all_strict says Ok only if    *)
(* nothing is left and the one coinbase came first.                        *)
LEMMA NoMoreTxKeeps ==
  ASSUME IInv, NoMoreTx
  PROVE  IInv'
  <1>1. /\ Position /\ History /\ Strictness /\ pc = "idle" /\ call \in Methods
        /\ it.consumed >= it.total
        /\ data' = data /\ parseVars' = parseVars /\ it' = it /\ coinbases' = coinbases
        /\ saw' = saw /\ accepted' = accepted /\ failed' = failed
    BY DEF NoMoreTx, IInv
  <1>2. call' \in {"gone", "ready"} /\ call # "unborn"
    BY DEF NoMoreTx, Finish, Methods
  <1>3. Position' /\ History'
    BY <1>1, <1>2, BetweenKeeps DEF Position
  <1>4. Strictness'
    <2>1. CASE call = "consume_all_strict"
      <3>1. call' = "gone" /\ result' = Reply("consume_all_strict", NoValue, StrictVerdict)
        BY <2>1 DEF NoMoreTx, Finish
      <3>2. ASSUME StrictVerdict = NoError
            PROVE  /\ Len(accepted) = it.total /\ it.total > 0
                   /\ \A k \in 1 .. it.total : CoinbaseAt(k) <=> k = 1
                   /\ Here = Len(data)
        <4>1. FinishStrict = NoError /\ coinbases = 1
          BY <3>2 DEF StrictVerdict, InvalidCoinbaseCount, NoError
        <4>2. it.consumed = it.total /\ Remaining(it.cur) = 0
          BY <4>1 DEF FinishStrict, IncompleteTransactions, TrailingBytes, NoError
        <4>3. Len(accepted) = it.total /\ it.total \in Nat /\ Here = Len(data)
          BY <1>1, <4>2, Fields DEF History
        <4>4. it.consumed # 0 /\ \A k \in 1 .. Len(accepted) : CoinbaseAt(k) <=> k = 1
          BY <1>1, <2>1, <4>1 DEF Strictness
        <4>5. it.total > 0
          BY <4>2, <4>3, <4>4
        <4>6. QED
          BY <4>3, <4>4, <4>5
      <3>3. \A k : CoinbaseAt(k)' <=> CoinbaseAt(k)
        BY <1>1, CoinbaseStays
      <3>4. Here' = Here
        BY <1>1, RestStays
      <3>5. result'.method = "consume_all_strict" /\ (result'.ok <=> StrictVerdict = NoError)
        BY <3>1 DEF Reply
      <3>6. StrictMeansWholeBlock'
        <4>1. SUFFICES ASSUME StrictVerdict = NoError
                       PROVE  /\ Len(accepted') = it'.total /\ it'.total > 0
                              /\ \A k \in 1 .. it'.total : CoinbaseAt(k)' <=> k = 1
                              /\ Here' = Len(data')
          BY <3>5 DEF StrictMeansWholeBlock
        <4>2. QED
          BY <1>1, <3>2, <3>3, <3>4, <4>1
      <3>7. QED
        BY <3>1, <3>5, <3>6 DEF Strictness
    <2>2. CASE call # "consume_all_strict"
      <3>1. call' = "ready" /\ result'.method = call
        <4>1. PICK v, e : Finish(v, e)
          BY <1>1, <2>2 DEF NoMoreTx, Methods
        <4>2. QED
          BY <2>2, <4>1 DEF Finish, Reply
      <3>2. QED
        BY <1>1, <2>2, <3>1, NotStrict DEF Methods
    <2>3. QED
      BY <2>1, <2>2
  <1>5. QED
    BY <1>3, <1>4 DEF IInv

(* The transaction is taken: its bytes were there to be stepped over, and  *)
(* its deliveries follow those of the transactions before it.              *)
LEMMA TxParsedKeeps ==
  ASSUME IInv, TxParsed
  PROVE  IInv'
  <1> PICK o : o = Rest
    OBVIOUS
  <1> PICK p : p = it.cur.pos
    OBVIOUS
  <1> PICK q : q = it.cur.pos + parser.pos
    OBVIOUS
  <1>1. /\ Position /\ History /\ Strictness /\ pc = "returned" /\ ret.ok /\ pc' = "idle"
        /\ data' = data /\ parser' = parser /\ ret' = ret /\ log' = log
        /\ coinbases' = coinbases /\ saw' = saw
    BY DEF TxParsed, IInv
  <1>2. /\ DataOK /\ p \in Nat /\ HeaderLen \in Nat /\ Here = p
        /\ it.total \in Nat /\ it.consumed \in Nat /\ it.consumed < it.total
        /\ call \in Methods /\ HeaderLen <= p /\ Valid(it.cur)
        /\ it.cur.lo = 0 /\ it.cur.len = Len(data) /\ Len(data) \in Nat
    BY <1>1, Fields DEF Position
  <1>3. /\ ParsesFrom(o) /\ log \in Seq(Deliveries) /\ parser.pos \in Nat
        /\ p + parser.pos <= Len(data) /\ q \in Nat /\ p <= q
        /\ Placed(log, p, q)
    BY <1>1, <1>2, ParserFields
  <1>4. Len(log) \in Nat /\ Len(log) > 0 /\ log # <<>>
    BY <1>1, <1>3 DEF ParsesFrom, Logging, Counting
  <1>5. /\ it' = [cur |-> MoveTo(it.cur, q), total |-> it.total, consumed |-> it.consumed + 1]
        /\ accepted' = Append(accepted, log) /\ failed' = <<>>
        /\ IF call = "next_tx" THEN Finish(More(TRUE), NoError) ELSE UNCHANGED <<call, result>>
    <2>1. /\ Skip(it.cur, parser.pos).ok
          /\ Skip(it.cur, parser.pos).cur = MoveTo(it.cur, q)
      <3>1. CheckedAdd(it.cur.pos, parser.pos) = q
        BY <1>2, <1>3, CursorAssumption DEF CheckedAdd, DataOK
      <3>2. q # None /\ q <= it.cur.len
        BY <1>2, <1>3 DEF None
      <3>3. PICK v : v = Slice(it.cur.lo + it.cur.pos, it.cur.lo + q)
        OBVIOUS
      <3>4. Skip(it.cur, parser.pos) = Ok(MoveTo(it.cur, q), v, Offsets(v))
        BY <1>2, <1>3, <3>1, <3>2, <3>3 DEF Skip, ReadBytes
      <3>5. QED
        BY <3>4 DEF Ok, Result
    <2>2. QED
      BY <2>1 DEF TxParsed
  <1>6. /\ it'.cur.lo = 0 /\ it'.cur.len = Len(data) /\ it'.cur.pos = q
        /\ it'.total = it.total /\ it'.consumed = it.consumed + 1
        /\ it'.cur \in [lo : Nat, len : Nat, pos : Nat]
    BY <1>2, <1>3, <1>5 DEF MoveTo
  <1>7. Here' = q
    BY <1>3, <1>6 DEF Here
  <1>8. call' \in {call, "ready"} /\ call' # "unborn"
    BY <1>2, <1>5 DEF Finish, Methods
  <1>9. Position'
    <2>1. Valid(it.cur)'
      BY <1>1, <1>2, <1>3, <1>6 DEF Valid
    <2>2. Valid(parser)' /\ DataOK' /\ Answered'
      BY <1>1 DEF Position, Valid, DataOK, Answered
    <2>3. it'.total \in 0 .. MaxBlockTxn /\ it'.consumed \in 0 .. it'.total
      BY <1>1, <1>2, <1>6 DEF Position
    <2>4. HeaderLen <= it'.cur.pos
      BY <1>2, <1>3, <1>6
    <2>5. coinbases' \in Nat /\ saw' \in BOOLEAN
      BY <1>1 DEF Position
    <2>6. QED
      BY <1>1, <1>2, <1>6, <1>8, <2>1, <2>2, <2>3, <2>4, <2>5 DEF Position, Methods
  <1>10. PICK as : as = accepted
    OBVIOUS
  <1>11. PICK bs : bs = Append(as, log)
    OBVIOUS
  <1>12. PICK n : n = Len(as)
    OBVIOUS
  <1>13. /\ as \in Seq(Seq(Deliveries)) /\ n \in Nat /\ n = it.consumed
         /\ bs \in Seq(Seq(Deliveries)) /\ Len(bs) = n + 1 /\ bs[n + 1] = log
         /\ \A k \in 1 .. n : bs[k] = as[k] /\ as[k] \in Seq(Deliveries)
         /\ accepted' = bs
    BY <1>1, <1>3, <1>5, <1>10, <1>11, <1>12 DEF History
  <1>14. \A k \in 1 .. n : as[k] # <<>> /\ Placed(as[k], HeaderLen, p)
    BY <1>1, <1>2, <1>10, <1>12 DEF History
  <1>15. \A k, m \in 1 .. n : k < m =>
           \A i \in 1 .. Len(as[k]), j \in 1 .. Len(as[m]) : as[k][i].hi <= as[m][j].lo
    <2>1. History
      BY <1>1
    <2>2. \A k, m \in 1 .. Len(accepted) : k < m =>
            \A i \in 1 .. Len(accepted[k]), j \in 1 .. Len(accepted[m]) :
              accepted[k][i].hi <= accepted[m][j].lo
      BY <2>1 DEF History
    <2>3. QED
      BY <1>10, <1>12, <2>2
  <1>16. ASSUME NEW k \in 1 .. n + 1
         PROVE  bs[k] # <<>> /\ Placed(bs[k], HeaderLen, q)
    <2>1. CASE k \in 1 .. n
      <3>1. PICK ds : ds = as[k]
        OBVIOUS
      <3>2. Placed(ds, HeaderLen, p) /\ ds \in Seq(Deliveries) /\ ds # <<>> /\ bs[k] = ds
        BY <1>13, <1>14, <2>1, <3>1
      <3>3. HeaderLen \in Int /\ p \in Int /\ q \in Int /\ HeaderLen <= HeaderLen
        BY <1>2, <1>3
      <3>4. Placed(ds, HeaderLen, q)
        BY <1>3, <3>2, <3>3, PlacedWider
      <3>5. QED
        BY <3>2, <3>4
    <2>2. CASE k = n + 1
      <3>1. Placed(log, HeaderLen, q)
        BY <1>2, <1>3, PlacedWider
      <3>2. QED
        BY <1>4, <1>13, <2>2, <3>1
    <2>3. QED
      BY <1>13, <2>1, <2>2
  <1>17. ASSUME NEW k \in 1 .. n + 1, NEW m \in 1 .. n + 1, k < m,
                NEW i \in 1 .. Len(bs[k]), NEW j \in 1 .. Len(bs[m])
         PROVE  bs[k][i].hi <= bs[m][j].lo
    <2> PICK h : h = bs[k][i].hi
      OBVIOUS
    <2>0. k \in 1 .. n
      BY <1>13, <1>17
    <2>1. bs[k] = as[k] /\ as[k] \in Seq(Deliveries)
      BY <1>13, <2>0
    <2>2. CASE m \in 1 .. n
      <3>1. bs[m] = as[m]
        BY <1>13, <2>2
      <3>2. QED
        BY <1>15, <1>17, <2>0, <2>1, <2>2, <3>1
    <2>3. CASE m = n + 1
      <3>1. bs[m] = log
        BY <1>13, <2>3
      <3>2. h <= p /\ h \in Nat
        BY <1>14, <2>0, <2>1, DeliveryFields DEF Placed
      <3>3. PICK l : l = log[j].lo
        OBVIOUS
      <3>4. p < l /\ l \in Nat
        BY <1>3, <3>1, <3>3, DeliveryFields DEF Placed
      <3>5. h <= l
        BY SMTT(60), <1>2, <3>2, <3>4
      <3>6. QED
        BY <3>1, <3>3, <3>5
    <2>4. QED
      BY <1>13, <2>2, <2>3
  <1>18. History'
    <2>1. Reproducible(Rest, failed)' /\ failed' \in Seq(Deliveries)
      BY <1>5 DEF Reproducible
    <2>2. RetryReplays'
      BY <1>1 DEF RetryReplays
    <2>3. Len(accepted') = it'.consumed
      BY <1>6, <1>13
    <2>4. accepted' \in Seq(Seq(Deliveries))
      BY <1>13
    <2>5. \A k \in 1 .. Len(accepted') :
            accepted'[k] # <<>> /\ Placed(accepted'[k], HeaderLen, Here')
      BY <1>7, <1>13, <1>16
    <2>6. \A k, m \in 1 .. Len(accepted') : k < m =>
            \A i \in 1 .. Len(accepted'[k]), j \in 1 .. Len(accepted'[m]) :
              accepted'[k][i].hi <= accepted'[m][j].lo
      <3>1. accepted' = bs /\ Len(bs) = n + 1
        BY <1>13
      <3>2. \A k, m \in 1 .. Len(bs) : k < m =>
              \A i \in 1 .. Len(bs[k]), j \in 1 .. Len(bs[m]) :
                bs[k][i].hi <= bs[m][j].lo
        BY ZenonT(60), <1>17, <3>1
      <3>3. QED
        BY ZenonT(60), <3>1, <3>2
    <2>7. QED
      BY ZenonT(120), <1>8, <2>1, <2>2, <2>3, <2>4, <2>5, <2>6 DEF History
  <1>19. Strictness'
    <2>1. CASE call = "consume_all_strict"
      <3>1. call' = call /\ result' = result
        BY <1>5, <2>1
      <3>2. result'.method \notin {"consume_all_strict", "finish_strict"}
        BY <1>1, <1>2, <3>1, InsideResult
      <3>3. \A v : IsCoinbase(v)' <=> IsCoinbase(v)
        BY <1>1, CoinbaseStays
      <3>4. coinbases = 1 => /\ \A k \in 1 .. n : IsCoinbase(as[k][1].val) <=> k = 1
                             /\ IsCoinbase(log[1].val) <=> n = 0
        <4>1. ~ (pc = "returned" /\ ret.ok = FALSE)
          BY <1>1
        <4>2. coinbases = 1 => /\ \A k \in 1 .. Len(accepted) : CoinbaseAt(k) <=> k = 1
                               /\ IsCoinbase(log[1].val) <=> it.consumed = 0
          BY <1>1, <1>4, <2>1, <4>1 DEF Strictness
        <4>3. QED
          BY <1>10, <1>12, <1>13, <4>2 DEF CoinbaseAt
      <3>5. coinbases = 1 => \A k \in 1 .. n + 1 : IsCoinbase(bs[k][1].val) <=> k = 1
        <4>1. SUFFICES ASSUME coinbases = 1, NEW k \in 1 .. n + 1
                       PROVE  IsCoinbase(bs[k][1].val) <=> k = 1
          OBVIOUS
        <4>2. CASE k \in 1 .. n
          BY <1>13, <3>4, <4>1, <4>2
        <4>3. CASE k = n + 1
          <5>1. bs[k] = log
            BY <1>13, <4>3
          <5>2. k = 1 <=> n = 0
            BY <1>13, <4>3
          <5>3. QED
            BY <3>4, <4>1, <5>1, <5>2
        <4>4. QED
          BY <1>13, <4>1, <4>2, <4>3
      <3>6. (coinbases = 1)' => \A k \in 1 .. Len(accepted') : CoinbaseAt(k)' <=> k = 1
        BY <1>1, <1>13, <3>3, <3>5 DEF CoinbaseAt
      <3>7. it'.consumed # 0
        BY <1>2, <1>6
      <3>8. QED
        BY <1>1, <3>1, <3>2, <3>6, <3>7 DEF Strictness, StrictMeansWholeBlock
    <2>2. CASE call # "consume_all_strict"
      <3>1. result'.method \notin {"consume_all_strict", "finish_strict"}
        <4>1. CASE call = "next_tx"
          BY <1>5, <4>1 DEF Finish, Reply
        <4>2. CASE call # "next_tx"
          <5>1. result' = result
            BY <1>5, <4>2
          <5>2. QED
            BY <1>1, <1>2, <5>1, InsideResult
        <4>3. QED
          BY <4>1, <4>2
      <3>2. QED
        BY <1>8, <2>2, <3>1, NotStrict
    <2>3. QED
      BY <2>1, <2>2
  <1>20. QED
    BY <1>9, <1>18, <1>19 DEF IInv

(* The try failed: it is what the next one is compared with.               *)
LEMMA TxFailedKeeps ==
  ASSUME IInv, TxFailed
  PROVE  IInv'
  <1> PICK o : o = Rest
    OBVIOUS
  <1>1. /\ Position /\ History /\ Strictness /\ pc = "returned" /\ ~ ret.ok /\ pc' = "idle"
        /\ data' = data /\ parser' = parser /\ ret' = ret /\ log' = log /\ failed' = log
        /\ it' = it /\ coinbases' = coinbases /\ saw' = saw /\ accepted' = accepted
        /\ Finish(NoValue, ret.err)
    BY DEF TxFailed, IInv
  <1>2. call \in Methods /\ it.consumed < it.total /\ ret.err # NoError
    BY <1>1 DEF Position, Answered, Explained
  <1>3. Tracking(o) /\ log \in Seq(Deliveries)
    BY <1>1, ParserFields
  <1>4. Rest' = Rest /\ Here' = Here
    BY <1>1, RestStays
  <1>5. call' \in {"gone", "ready"} /\ (call' = "ready" => call # "consume_all_strict")
    BY <1>1 DEF Finish
  <1>6. Position'
    <2>1. Valid(it.cur)' /\ Valid(parser)' /\ DataOK' /\ Answered'
      BY <1>1 DEF Position, Valid, DataOK, Answered
    <2>2. QED
      BY <1>1, <1>2, <1>5, <2>1 DEF Position, Methods
  <1>7. History'
    <2>1. Reproducible(Rest, failed)'
      <3> PICK l : l = log
        OBVIOUS
      <3>1. Reproducible(o, l)'
        BY <1>1, <1>3, ReproducibleStays DEF Tracking
      <3>2. QED
        BY <1>1, <1>4, <3>1
    <2>2. RetryReplays'
      BY <1>1 DEF RetryReplays
    <2>3. QED
      BY <1>1, <1>3, <1>4, <1>5, <2>1, <2>2 DEF History
  <1>8. Strictness'
    <2>1. CASE call = "consume_all_strict"
      BY <1>1, <1>2, <2>1, StrictReturns
    <2>2. CASE call # "consume_all_strict"
      <3>1. result'.method = call
        BY <1>1 DEF Finish, Reply
      <3>2. QED
        BY <1>2, <1>5, <2>2, <3>1, NotStrict DEF Methods
    <2>3. QED
      BY <2>1, <2>2
  <1>9. QED
    BY <1>6, <1>7, <1>8 DEF IInv

-----------------------------------------------------------------------------
(* Inside a transaction, the invariant.                                    *)

(* What the steps of the parser have in common.                            *)
LEMMA InsideKeeps ==
  ASSUME IInv, IterStays, result' = result,
         \/ ParseAlone
         \/ \E called \in BOOLEAN : \E e :
              /\ called \/ e # NoError
              /\ ParseInput(called, e) \/ (called /\ ParseOutput(e))
  PROVE  /\ Position' /\ History' /\ pc' # "idle" /\ pc # "idle"
         /\ result'.method \notin {"consume_all_strict", "finish_strict"}
         /\ \A k : CoinbaseAt(k)' <=> CoinbaseAt(k)
         /\ \A v : IsCoinbase(v)' <=> IsCoinbase(v)
  <1> PICK o : o = Rest
    OBVIOUS
  <1>1. Position /\ History /\ Strictness
    BY DEF IInv
  <1>2. /\ pc # "idle" /\ pc' # "idle" /\ ParsesFrom(o)' /\ Tracking(o)' /\ Answered'
        /\ Quiet \/ Delivers
    BY <1>1, ParserSteps DEF IterStays
  <1>3. Position'
    BY <1>1, <1>2, InsideKeepsPosition
  <1>4. History'
    BY <1>1, <1>2, InsideKeepsHistory
  <1>5. call \in Methods
    BY <1>1, <1>2 DEF Position
  <1>6. result'.method \notin {"consume_all_strict", "finish_strict"}
    BY <1>1, <1>5, InsideResult
  <1>7. QED
    BY <1>2, <1>3, <1>4, <1>6, CoinbaseStays DEF IterStays

(* What consume_all_strict knows stays as long as the first delivery does. *)
LEMMA KnowledgeStays ==
  ASSUME IInv, call = "consume_all_strict", IterStays, coinbases' = coinbases,
         pc # "idle", pc # "returned", pc' # "idle",
         result'.method \notin {"consume_all_strict", "finish_strict"},
         \A k : CoinbaseAt(k)' <=> CoinbaseAt(k),
         \A v : IsCoinbase(v)' <=> IsCoinbase(v),
         saw' <=> log' # <<>>,
         log' # <<>> => IF log # <<>> THEN log'[1] = log[1]
                                      ELSE ~ IsCoinbase(log'[1].val),
         log # <<>> => log' # <<>>
  PROVE  Strictness'
  <1>1. IterStays /\ Strictness
    BY DEF IInv
  <1>2. SUFFICES ASSUME coinbases = 1
                 PROVE  /\ \A k \in 1 .. Len(accepted') : CoinbaseAt(k)' <=> k = 1
                        /\ it'.consumed = 0 => log' # <<>>
                        /\ log' # <<>> => (IsCoinbase(log[1].val)' <=> it'.consumed = 0)
    BY <1>1 DEF Strictness, IterStays, StrictMeansWholeBlock
  <1>3. /\ \A k \in 1 .. Len(accepted) : CoinbaseAt(k) <=> k = 1
        /\ it.consumed = 0 => log # <<>>
        /\ log # <<>> => (IsCoinbase(log[1].val) <=> it.consumed = 0)
    BY <1>1, <1>2 DEF Strictness
  <1>4. log' # <<>> => (IsCoinbase(log'[1].val) <=> it.consumed = 0)
    BY <1>3
  <1>5. IsCoinbase(log[1].val)' <=> IsCoinbase(log'[1].val)
    <2> PICK v : v = log'[1].val
      OBVIOUS
    <2>1. IsCoinbase(v)' <=> IsCoinbase(v)
      OBVIOUS
    <2>2. QED
      BY <2>1
  <1>6. QED
    BY <1>1, <1>3, <1>4, <1>5 DEF IterStays

(* The steps without callbacks.                                            *)
LEMMA StepKeeps ==
  ASSUME IInv, Step
  PROVE  IInv'
  <1>1. /\ ParseAlone /\ IterStays /\ result' = result
        /\ coinbases' = coinbases /\ saw' = saw /\ log' = log /\ pc # "returned"
    BY DEF Step, iterVars, IterStays, IInv, Position, ParseAlone, ParseHead, BadInput,
           ParseOutputCount, BadOutput, EndOutputs, ParseWitnessCount, ParseWitnessItem,
           EndWitness, ParseLocktime
  <1>2. /\ Position' /\ History' /\ pc' # "idle" /\ pc # "idle"
        /\ result'.method \notin {"consume_all_strict", "finish_strict"}
        /\ \A k : CoinbaseAt(k)' <=> CoinbaseAt(k)
        /\ \A v : IsCoinbase(v)' <=> IsCoinbase(v)
    BY <1>1, InsideKeeps
  <1>3. Strictness'
    <2>1. CASE call = "consume_all_strict"
      <3>1. saw <=> log # <<>>
        BY <1>1, <1>2, <2>1 DEF IInv, Strictness
      <3>2. QED
        BY <1>1, <1>2, <2>1, <3>1, KnowledgeStays
    <2>2. CASE call # "consume_all_strict"
      BY <1>1, <1>2, <2>2, NotStrict DEF IterStays
    <2>3. QED
      BY <2>1, <2>2
  <1>4. QED
    BY <1>2, <1>3 DEF IInv

(* The methods that do not look at the inputs.                             *)
LEMMA InputKeeps ==
  ASSUME IInv, Input
  PROVE  IInv'
  <1>1. PICK e \in Answers : ParseInput(TRUE, e)
    BY DEF Input
  <1>2. IterStays /\ result' = result /\ call # "consume_all_strict"
    BY DEF Input, iterVars, IterStays, IInv, Position
  <1>3. /\ Position' /\ History'
        /\ result'.method \notin {"consume_all_strict", "finish_strict"}
    BY <1>1, <1>2, InsideKeeps
  <1>4. Strictness'
    BY <1>2, <1>3, NotStrict DEF IterStays
  <1>5. QED
    BY <1>3, <1>4 DEF IInv

(* An output is never the first delivery.                                  *)
LEMMA OutputKeeps ==
  ASSUME IInv, Output
  PROVE  IInv'
  <1>1. PICK e \in Answers : ParseOutput(e)
    BY DEF Output
  <1>2. /\ IterStays /\ result' = result /\ coinbases' = coinbases /\ saw' = saw
        /\ pc = "outputs" /\ \E d : log' = Append(log, d)
    BY <1>1 DEF Output, iterVars, IterStays, IInv, Position, ParseOutput, HandOver
  <1>3. /\ Position' /\ History' /\ pc' # "idle" /\ pc # "idle"
        /\ result'.method \notin {"consume_all_strict", "finish_strict"}
        /\ \A k : CoinbaseAt(k)' <=> CoinbaseAt(k)
        /\ \A v : IsCoinbase(v)' <=> IsCoinbase(v)
    BY <1>1, <1>2, InsideKeeps
  <1>4. /\ log \in Seq(Deliveries) /\ Len(log) \in Nat /\ Len(log) > 0
    <2>1. Counting /\ Logging
      BY <1>3, ParserFields DEF IInv, ParsesFrom
    <2>2. QED
      BY <1>2, <2>1, LimitTypes DEF Counting, Logging, CallPhases
  <1>5. log # <<>> /\ log' # <<>> /\ log'[1] = log[1]
    BY <1>2, <1>4
  <1>6. Strictness'
    <2>1. CASE call = "consume_all_strict"
      <3>1. saw
        BY <1>2, <1>3, <1>5, <2>1 DEF IInv, Strictness
      <3>2. QED
        BY <1>2, <1>3, <1>5, <2>1, <3>1, KnowledgeStays
    <2>2. CASE call # "consume_all_strict"
      BY <1>2, <1>3, <2>2, NotStrict DEF IterStays
    <2>3. QED
      BY <2>1, <2>2
  <1>7. QED
    BY <1>3, <1>6 DEF IInv

(* The first input of a transaction is looked at before it is delivered.   *)
LEMMA StrictInputKeeps ==
  ASSUME IInv, StrictInput
  PROVE  IInv'
  <1> PICK r : r = TxInput(parser)
    OBVIOUS
  <1> DEFINE coinbase == ~ saw /\ r.ok /\ IsCoinbase(r.val)
  <1>0. Position /\ History /\ Strictness
    BY DEF IInv
  <1>1. /\ call = "consume_all_strict" /\ pc = "inputs"
        /\ coinbases' = coinbases + (IF coinbase THEN 1 ELSE 0)
        /\ saw' = TRUE /\ data' = data /\ it' = it /\ call' = call /\ result' = result
        /\ accepted' = accepted /\ failed' = failed
        /\ IF coinbase /\ it.consumed # 0
           THEN ParseInput(FALSE, InvalidCoinbaseCount(coinbases'))
           ELSE \E e \in Answers : ParseInput(TRUE, e)
    BY DEF StrictInput
  <1>2. InvalidCoinbaseCount(coinbases') # NoError
    BY DEF InvalidCoinbaseCount, NoError
  <1>3. PICK called, e :
          /\ called \in BOOLEAN /\ (called \/ e # NoError)
          /\ ParseInput(called, e)
          /\ called <=> ~ (coinbase /\ it.consumed # 0)
    BY <1>1, <1>2
  <1>4. IterStays
    BY <1>0, <1>1 DEF IterStays, Position
  <1>5. /\ Position' /\ History' /\ pc' # "idle" /\ pc # "idle"
        /\ result'.method \notin {"consume_all_strict", "finish_strict"}
        /\ \A k : CoinbaseAt(k)' <=> CoinbaseAt(k)
        /\ \A v : IsCoinbase(v)' <=> IsCoinbase(v)
    BY <1>1, <1>3, <1>4, InsideKeeps
  <1>6. r.ok /\ HandOver("input", r, called, e)
    BY <1>3 DEF ParseInput
  <1>7. log \in Seq(Deliveries) /\ Len(log) \in Nat /\ (saw <=> log # <<>>)
    BY <1>0, <1>1, <1>5, ParserFields DEF Strictness
  <1>8. Strictness'
    <2>1. CASE ~ called
      <3>1. pc' = "returned" /\ ret'.ok = FALSE
        BY <1>3, <1>6, <2>1 DEF HandOver, Abort, Return, Returned
      <3>2. QED
        BY <1>5, <3>1 DEF Strictness, StrictMeansWholeBlock
    <2>2. CASE called
      <3>1. PICK d : d = Delivery("input", parser, r)
        OBVIOUS
      <3>2. log' = Append(log, d) /\ d.val = r.val
        BY <1>6, <2>2, <3>1 DEF HandOver, Delivery
      <3>3. log' # <<>> /\ (log # <<>> => log'[1] = log[1]) /\ (log = <<>> => log'[1] = d)
        BY <1>7, <3>2
      <3>4. CASE ~ coinbase
        <4>1. coinbases' = coinbases
          BY <1>0, <1>1, <3>4 DEF Position
        <4>2. log = <<>> => ~ IsCoinbase(log'[1].val)
          BY <1>6, <1>7, <3>2, <3>3, <3>4
        <4>3. QED
          BY <1>1, <1>4, <1>5, <3>3, <4>1, <4>2, KnowledgeStays
      <3>5. CASE coinbase
        <4>1. it.consumed = 0 /\ log = <<>>
          BY <1>3, <1>7, <2>2, <3>5
        <4>2. it'.consumed = 0 /\ IsCoinbase(log[1].val)'
          <5> PICK v : v = log'[1].val
            OBVIOUS
          <5>1. v = r.val /\ IsCoinbase(v)
            BY <3>2, <3>3, <3>5, <4>1
          <5>2. QED
            BY <1>1, <1>5, <4>1, <5>1
        <4>3. Len(accepted') = 0
          BY <1>0, <1>1, <4>1 DEF History
        <4>4. QED
          BY <1>1, <1>5, <3>3, <4>2, <4>3 DEF Strictness, StrictMeansWholeBlock
      <3>6. QED
        BY <3>4, <3>5
    <2>3. QED
      BY <2>1, <2>2
  <1>9. QED
    BY <1>5, <1>8 DEF IInv

(* A step that changes nothing, of the client or in between.               *)
LEMMA StutterKeeps ==
  ASSUME IInv, UNCHANGED vars
  PROVE  IInv'
  <1>1. /\ data' = data /\ parseVars' = parseVars /\ it' = it /\ call' = call
        /\ coinbases' = coinbases /\ saw' = saw /\ result' = result
        /\ accepted' = accepted /\ failed' = failed
    BY DEF vars, iterVars
  <1>2. Rest' = Rest /\ Here' = Here
    BY <1>1, RestStays
  <1>3. Position'
    <2> PICK o : o = Rest
      OBVIOUS
    <2>1. ASSUME pc # "idle"
          PROVE  Begun'
      <3>1. ParsesFrom(o) /\ Tracking(o)
        BY <2>1, ParserFields DEF IInv
      <3>2. ParsesFrom(o)'
        BY <1>1, <3>1 DEF ParsesFrom, Counting, Logging, Spanning, Valid, parseVars
      <3>3. Tracking(o)'
        <4> PICK l : l = log
          OBVIOUS
        <4>1. /\ Reproducible(o, l)' <=> Reproducible(o, l)
              /\ Counted(o, l)' = Counted(o, l)
              /\ \A i : InputCursor(o, l, i)' = InputCursor(o, l, i)
              /\ \A i : OutputCursor(o, l, i)' = OutputCursor(o, l, i)
              /\ TxHead(o)' = TxHead(o)
          BY <1>1, ReproducibleStays, ReadsStay
        <4>2. parser' = parser /\ pc' = pc /\ head' = head /\ outs' = outs /\ ret' = ret
              /\ log' = l
          BY <1>1 DEF parseVars
        <4>3. QED
          BY <3>1, <4>1, <4>2 DEF Tracking
      <3>4. QED
        BY <1>2, <3>2, <3>3 DEF Begun
    <2>2. Valid(it.cur)' /\ Valid(parser)' /\ DataOK' /\ Answered'
      BY <1>1 DEF IInv, Position, Valid, DataOK, Answered, parseVars
    <2>3. QED
      BY <1>1, <2>1, <2>2 DEF IInv, Position, parseVars
  <1>4. History'
    <2>1. Reproducible(Rest, failed)'
      BY <1>1, FailedStays DEF IInv, History
    <2>2. RetryReplays'
      BY <1>1 DEF IInv, History, RetryReplays, parseVars
    <2>3. QED
      BY <1>1, <1>2, <2>1, <2>2 DEF IInv, History
  <1>5. Strictness'
    <2>1. /\ \A v : IsCoinbase(v)' <=> IsCoinbase(v)
          /\ \A k : CoinbaseAt(k)' <=> CoinbaseAt(k)
          /\ FinishStrict' = FinishStrict
      BY <1>1, CoinbaseStays DEF FinishStrict
    <2>2. IsCoinbase(log[1].val)' <=> IsCoinbase(log[1].val)
      <3> PICK v : v = log[1].val
        OBVIOUS
      <3>1. v = log[1].val'
        BY <1>1 DEF parseVars
      <3>2. QED
        BY <2>1, <3>1
    <2>3. StrictMeansWholeBlock'
      BY <1>1, <1>2, <2>1 DEF IInv, Strictness, StrictMeansWholeBlock
    <2>4. QED
      BY <1>1, <2>1, <2>2, <2>3 DEF IInv, Strictness, parseVars
  <1>6. QED
    BY <1>3, <1>4, <1>5 DEF IInv

(* It holds when nothing has been done yet.                                *)
LEMMA FreshIsSound == DataOK /\ Fresh => IInv
  <1> SUFFICES ASSUME DataOK, Fresh
               PROVE  IInv
    OBVIOUS
  <1>1. Len(data) \in Nat
    BY DEF DataOK
  <1>2. /\ parser = [lo |-> 0, len |-> Len(data), pos |-> 0]
        /\ it.cur = [lo |-> 0, len |-> Len(data), pos |-> 0]
        /\ it.total = 0 /\ it.consumed = 0
    BY <1>1 DEF Fresh, CursorNew, AllData, Slice
  <1>3. Valid(parser) /\ Valid(it.cur) /\ it.cur.lo = 0 /\ it.cur.len = Len(data)
    BY <1>1, <1>2 DEF Valid
  <1>4. Position
    <2>1. 0 \in 0 .. MaxBlockTxn /\ 0 \in 0 .. 0
      BY BlockAssumption
    <2>2. QED
      BY <1>2, <1>3, <2>1 DEF Fresh, Position, Methods, Answered
  <1>5. History
    BY <1>2 DEF Fresh, History, RetryReplays, Reproducible
  <1>6. Strictness
    BY DEF Fresh, Nothing, Strictness, StrictMeansWholeBlock
  <1>7. QED
    BY <1>4, <1>5, <1>6 DEF IInv

(* Every step of the iterator and its client keeps it.                     *)
LEMMA NextKeeps ==
  ASSUME IInv, [Next]_vars
  PROVE  IInv'
  <1>1. CASE New
    BY <1>1, NewKeeps
  <1>2. CASE Call
    BY <1>2, CallKeeps
  <1>3. CASE CallFinishStrict
    BY <1>3, CallFinishStrictKeeps
  <1>4. CASE BeginTx
    BY <1>4, BeginTxKeeps
  <1>5. CASE NoMoreTx
    BY <1>5, NoMoreTxKeeps
  <1>6. CASE TxParsed
    BY <1>6, TxParsedKeeps
  <1>7. CASE TxFailed
    BY <1>7, TxFailedKeeps
  <1>8. CASE Step
    BY <1>8, StepKeeps
  <1>9. CASE Input
    BY <1>9, InputKeeps
  <1>10. CASE Output
    BY <1>10, OutputKeeps
  <1>11. CASE StrictInput
    BY <1>11, StrictInputKeeps
  <1>12. CASE UNCHANGED vars
    BY <1>12, StutterKeeps
  <1>13. QED
    BY <1>1, <1>2, <1>3, <1>4, <1>5, <1>6, <1>7, <1>8, <1>9, <1>10, <1>11, <1>12
       DEF Next, Inside, Over

-----------------------------------------------------------------------------
(* The theorems.                                                           *)

(* The invariant holds in every state, whatever the buffer, the limits and *)
(* the sequence of calls and answers.                                      *)
THEOREM IInvHolds == Spec => []IInv
  <1>1. Init => IInv
    BY FreshIsSound, BlockAssumption DEF Init, DataOK
  <1>2. IInv /\ [Next]_vars => IInv'
    BY NextKeeps
  <1>3. QED
    BY <1>1, <1>2, PTL DEF Spec

(* The iterator and the parser stand within the buffer, and the iterator   *)
(* has counted what it has taken, within what the block declares.          *)
THEOREM TypeCorrect == Spec => []TypeOK
  <1>1. IInv => TypeOK
    BY DEF IInv, Position, History, TypeOK, Valid, Within, CallPhases, Phases
  <1>2. QED
    BY <1>1, IInvHolds, PTL

(* A transaction that was parsed can be stepped over.                      *)
LEMMA RestIsSeen ==
  ASSUME IInv
  PROVE  ParserSeesTheRest
  <1> SUFFICES ASSUME pc # "idle"
               PROVE  /\ parser.lo = it.cur.lo + it.cur.pos
                      /\ parser.len = Remaining(it.cur)
                      /\ ret.ok => Skip(it.cur, parser.pos).ok
    BY DEF ParserSeesTheRest
  <1>1. Position /\ Valid(it.cur) /\ DataOK
    BY DEF IInv, Position
  <1>2. /\ it.cur.lo = 0 /\ it.cur.len = Len(data) /\ it.cur.pos \in Nat
        /\ Remaining(it.cur) = Len(data) - it.cur.pos
    BY <1>1, Fields DEF Position
  <1>3. /\ parser.lo = it.cur.pos /\ parser.len = Len(data) - it.cur.pos
        /\ parser.pos \in Nat /\ parser.pos <= parser.len
    BY <1>1, ParserFields
  <1>4. Skip(it.cur, parser.pos).ok
    BY <1>1, <1>2, <1>3, ReadBytesLemma DEF Skip
  <1>5. QED
    BY <1>2, <1>3, <1>4

(* The parser of a transaction sees exactly what the iterator has not      *)
(* read, so that the iterator can always step over what was parsed.        *)
THEOREM ParserSeesRest == Spec => []ParserSeesTheRest
  <1>1. IInv => ParserSeesTheRest
    BY RestIsSeen
  <1>2. QED
    BY <1>1, IInvHolds, PTL

(* Transactions consumed were delivered once each, in the order of their   *)
(* bytes, and what the current try has delivered comes after them.         *)
THEOREM DeliveredOnce == Spec => []ConsumedOnce
  <1>1. IInv => ConsumedOnce
    <2> SUFFICES ASSUME IInv
                 PROVE  ConsumedOnce
      OBVIOUS
    <2>1. Position /\ History /\ Here = it.cur.pos
      BY Fields DEF IInv
    <2>2. ASSUME NEW k \in 1 .. Len(accepted)
          PROVE  /\ accepted[k] # <<>>
                 /\ InOrder(accepted[k])
                 /\ \A i \in 1 .. Len(accepted[k]) :
                      HeaderLen < accepted[k][i].lo /\ accepted[k][i].hi <= Here
                 /\ \A m \in 1 .. Len(accepted) : k < m =>
                      \A i \in 1 .. Len(accepted[k]), j \in 1 .. Len(accepted[m]) :
                        accepted[k][i].hi <= accepted[m][j].lo
      BY <2>1 DEF History, Placed, InOrder
    <2>3. ASSUME pc # "idle"
          PROVE  InOrder(log) /\ \A i \in 1 .. Len(log) : Here < log[i].lo
      BY <2>1, <2>3, ParserFields DEF Placed, InOrder
    <2>4. QED
      BY <2>2, <2>3 DEF ConsumedOnce
  <1>2. QED
    BY <1>1, IInvHolds, PTL

(* A repeated call delivers again what the failed one delivered.           *)
THEOREM RetriesReplay == Spec => []RetryReplays
  <1>1. IInv => RetryReplays
    BY DEF IInv, History
  <1>2. QED
    BY <1>1, IInvHolds, PTL

(* finish_strict says exactly what is missing.                             *)
THEOREM FinishExact == Spec => []FinishIsExact
  <1>1. IInv => FinishIsExact
    <2> SUFFICES ASSUME IInv, result.method = "finish_strict"
                 PROVE  IF Len(accepted) # it.total
                        THEN result.err = IncompleteTransactions(it.total, Len(accepted))
                        ELSE IF Here < Len(data)
                             THEN result.err = TrailingBytes(Len(data) - Here)
                             ELSE result.ok
      BY DEF FinishIsExact
    <2>1. /\ Len(accepted) = it.consumed
          /\ Here = it.cur.pos /\ Here \in Nat /\ Len(data) \in Nat /\ Here <= Len(data)
          /\ Remaining(it.cur) = Len(data) - Here
      BY Fields DEF IInv, History
    <2>2. result.err = FinishStrict /\ (FinishStrict = NoError => result.ok)
      <3>1. result = Reply("finish_strict", NoValue, FinishStrict)
        BY DEF IInv, Strictness
      <3>2. PICK e : e = FinishStrict
        OBVIOUS
      <3>3. result.err = e /\ (e = NoError => result.ok)
        BY <3>1, <3>2 DEF Reply
      <3>4. QED
        BY <3>2, <3>3
    <2>3. QED
      BY <2>1, <2>2 DEF FinishStrict
  <1>2. QED
    BY <1>1, IInvHolds, PTL

(* Ok of consume_all_strict stands for the whole block, read to its end,   *)
(* with one coinbase transaction that comes first.                         *)
THEOREM StrictIsWholeBlock == Spec => []StrictMeansWholeBlock
  <1>1. IInv => StrictMeansWholeBlock
    BY DEF IInv, Strictness
  <1>2. QED
    BY <1>1, IInvHolds, PTL

-----------------------------------------------------------------------------
(* The iterator implements TxStream.                                       *)

(* A parse that succeeds has delivered at least what the failed one had.   *)
LEMMA ReplayIsWhole ==
  ASSUME IInv, pc = "returned", ret.ok
  PROVE  Len(log) \in Nat /\ Len(failed) \in Nat /\ Len(failed) <= Len(log)
  <1> PICK o : o = Rest
    OBVIOUS
  <1> PICK f : f = failed
    OBVIOUS
  <1> PICK l : l = log
    OBVIOUS
  <1>1. Position /\ History
    BY DEF IInv
  <1>2. ParsesFrom(o) /\ Tracking(o) /\ ret.ok = TRUE
    BY <1>1, ParserFields
  <1>3. PICK n : n = TxHead(o).val.inputs
    OBVIOUS
  <1>4. PICK m : m = outs
    OBVIOUS
  <1>5. head = TxHead(o).val /\ m = Counted(o, l).val
    BY <1>2, <1>4 DEF Tracking
  <1>6. n \in Nat /\ m \in Nat /\ n > 0 /\ Len(l) = n + m
    BY <1>2, <1>3, <1>4, <1>5, LimitTypes DEF ParsesFrom, Counting, Logging
  <1>7. f \in Seq(Deliveries) /\ Len(f) \in Nat /\ Reproducible(o, f)
        /\ \A i \in 1 .. Len(l) : i <= Len(f) => l[i] = f[i]
    <2>1. f \in Seq(Deliveries) /\ Reproducible(o, f)
      BY <1>1 DEF History
    <2>2. Len(f) \in Nat
      BY <2>1
    <2>3. \A i \in 1 .. Len(l) : i <= Len(f) => l[i] = f[i]
      BY <1>1 DEF History, RetryReplays
    <2>4. QED
      BY <2>1, <2>2, <2>3
  <1>8. SUFFICES ASSUME Len(f) > n + m
                 PROVE  FALSE
    BY <1>6, <1>7
  <1>9. l[n] = f[n]
    BY <1>6, <1>7, <1>8
  <1>10. Counted(o, f) = Counted(o, l)
    BY <1>3, <1>9 DEF Counted
  <1>11. Genuine(o, f, n + m + 1)
    BY <1>6, <1>7, <1>8 DEF Reproducible
  <1>12. n + m + 1 <= n + Counted(o, f).val
    BY <1>3, <1>6, <1>11 DEF Genuine
  <1>13. QED
    BY <1>5, <1>6, <1>10, <1>12

(* What a step of the parser means to the client: nothing, or a delivery.  *)
LEMMA InsideStreams ==
  ASSUME IInv, IInv', Quiet \/ Delivers, IterStays, pc # "idle", pc' # "idle"
  PROVE  [Stream!Next]_(Stream!vars)
  <1> PICK l : l = log'
    OBVIOUS
  <1>1. /\ call \in Methods /\ it.consumed < it.total /\ Len(accepted) = it.consumed
        /\ log \in Seq(Deliveries) /\ failed \in Seq(Deliveries)
    BY ParserFields DEF IInv, Position, History
  <1>2. call # "unborn"
    BY <1>1 DEF Methods
  <1>3. CASE Quiet
    BY <1>3 DEF Quiet, IterStays, Stream!vars
  <1>4. CASE Delivers
    <2>1. PICK d : log' = Append(log, d)
      BY <1>4 DEF Delivers
    <2>2. Len(l) = Len(log) + 1 /\ Len(log) \in Nat
      BY <1>1, <2>1
    <2>3. SubSeq(l, 1, Len(log)) = log
      BY <1>1, <2>1
    <2>4. Len(l) <= Len(failed) => l[Len(l)] = failed[Len(l)]
      <3>1. \A i \in 1 .. Len(l) : i <= Len(failed) => l[i] = failed[i]
        BY DEF IInv, History, RetryReplays, IterStays
      <3>2. Len(l) \in 1 .. Len(l)
        BY <2>2
      <3>3. QED
        BY <3>1, <3>2
    <2>5. Stream!Deliver
      BY <1>1, <1>2, <2>2, <2>3, <2>4 DEF Stream!Deliver, IterStays
    <2>6. QED
      BY <2>5 DEF Stream!Next
  <1>5. QED
    BY <1>3, <1>4

(* Every step of the iterator is one of the stream, or none.               *)
LEMMA StepsStream ==
  ASSUME IInv, IInv', [Next]_vars
  PROVE  [Stream!Next]_(Stream!vars)
  <1>1. /\ Len(accepted) = it.consumed /\ it.consumed \in Nat /\ it.total \in Nat
        /\ it'.total \in Nat
        /\ pc # "idle" => call \in Methods /\ it.consumed < it.total
        /\ "unborn" \notin Methods /\ "ready" \notin Methods /\ "gone" \notin Methods
    BY BlockAssumption DEF IInv, Position, History, Methods
  <1>2. CASE New
    <2>1. pc = "idle" /\ pc' = "idle" /\ call' # "unborn" /\ call' \notin Methods
      BY <1>1, <1>2 DEF New, parseVars
    <2>2. Stream!Open
      BY <1>1, <1>2, <2>1 DEF New, Stream!Open, Stream!Unknown
    <2>3. QED
      BY <2>2 DEF Stream!Next
  <1>3. CASE Call
    <2>1. pc = "idle" /\ pc' = "idle" /\ call' # "unborn" /\ call # "unborn"
      BY <1>1, <1>3 DEF Call, parseVars
    <2>2. Stream!Call
      BY <1>1, <1>3, <2>1 DEF Call, Stream!Call, Stream!Unknown
    <2>3. QED
      BY <2>2 DEF Stream!Next
  <1>4. CASE CallFinishStrict
    BY <1>4 DEF CallFinishStrict, parseVars, Stream!vars
  <1>5. CASE BeginTx
    BY <1>5 DEF BeginTx, Begin, Stream!vars
  <1>6. CASE NoMoreTx
    <2>1. pc = "idle" /\ pc' = "idle" /\ call \in Methods /\ it.consumed = it.total
      <3>1. it.consumed <= it.total
        BY Fields DEF IInv
      <3>2. QED
        BY <1>1, <1>6, <3>1 DEF NoMoreTx, parseVars
    <2>2. call' \in {"ready", "gone"}
      <3>1. PICK v, e : Finish(v, e)
        BY <1>6 DEF NoMoreTx, Methods
      <3>2. QED
        BY <3>1 DEF Finish
    <2>3. Stream!NoneLeft
      BY <1>1, <1>6, <2>1, <2>2 DEF NoMoreTx, Stream!NoneLeft
    <2>4. QED
      BY <2>3 DEF Stream!Next
  <1>7. CASE TxParsed
    <2>1. /\ pc = "returned" /\ ret.ok /\ pc' = "idle" /\ log' = log
          /\ call \in Methods /\ it.consumed < it.total
      BY <1>1, <1>7 DEF TxParsed
    <2>2. Skip(it.cur, parser.pos).ok
      <3>1. Position /\ DataOK /\ Valid(it.cur) /\ parser.pos \in Nat
        BY <2>1, ParserFields DEF IInv, Position
      <3>2. parser.pos <= it.cur.len - it.cur.pos
        BY <2>1, <3>1, Fields, ParserFields DEF Position
      <3>3. QED
        BY <3>1, <3>2, ReadBytesLemma DEF Skip
    <2>3. /\ it'.total = it.total /\ accepted' = Append(accepted, log) /\ failed' = <<>>
          /\ call' \in {call, "ready"}
      <3>1. /\ it' = [cur |-> Skip(it.cur, parser.pos).cur, total |-> it.total,
                      consumed |-> it.consumed + 1]
            /\ accepted' = Append(accepted, log) /\ failed' = <<>>
            /\ IF call = "next_tx" THEN Finish(More(TRUE), NoError)
                                   ELSE UNCHANGED <<call, result>>
        BY <1>7, <2>2 DEF TxParsed
      <3>2. QED
        BY <3>1 DEF Finish
    <2>4. log # <<>> /\ Len(log) >= Len(failed)
      <3>1. Counting /\ Logging
        BY <2>1, ParserFields DEF IInv, ParsesFrom
      <3>2. log \in Seq(Deliveries) /\ Len(log) > 0
        BY <2>1, <3>1, LimitTypes DEF Counting, Logging
      <3>3. QED
        BY <2>1, <3>2, ReplayIsWhole
    <2>5. Stream!Accept
      BY <1>1, <2>1, <2>3, <2>4 DEF Stream!Accept
    <2>6. QED
      BY <2>5 DEF Stream!Next
  <1>8. CASE TxFailed
    <2>1. /\ pc = "returned" /\ pc' = "idle" /\ log' = log /\ call \in Methods
          /\ it.consumed < it.total /\ call' \in {"ready", "gone"}
      BY <1>1, <1>8 DEF TxFailed, Finish
    <2>2. Stream!Reject
      BY <1>1, <1>8, <2>1 DEF TxFailed, Stream!Reject
    <2>3. QED
      BY <2>2 DEF Stream!Next
  <1>9. ASSUME IterStays,
               \/ ParseAlone
               \/ \E called \in BOOLEAN : \E e :
                    /\ called \/ e # NoError
                    /\ ParseInput(called, e) \/ (called /\ ParseOutput(e))
        PROVE  [Stream!Next]_(Stream!vars)
    <2>1. pc # "idle" /\ pc' # "idle" /\ (Quiet \/ Delivers)
      BY <1>9, ParserSteps DEF IInv, IterStays
    <2>2. QED
      BY <1>9, <2>1, InsideStreams
  <1>10. coinbases' \in Nat /\ saw' \in BOOLEAN
    BY DEF IInv, Position
  <1>11. CASE Step
    BY <1>9, <1>10, <1>11 DEF Step, iterVars, IterStays
  <1>12. CASE Input
    BY <1>9, <1>10, <1>12 DEF Input, iterVars, IterStays
  <1>13. CASE Output
    BY <1>9, <1>10, <1>13 DEF Output, iterVars, IterStays
  <1>14. CASE StrictInput
    <2>1. \E called \in BOOLEAN : \E e : (called \/ e # NoError) /\ ParseInput(called, e)
      <3>1. \A n : InvalidCoinbaseCount(n) # NoError
        BY DEF InvalidCoinbaseCount, NoError
      <3>2. \/ \E n : ParseInput(FALSE, InvalidCoinbaseCount(n))
            \/ \E e \in Answers : ParseInput(TRUE, e)
        BY <1>14 DEF StrictInput
      <3>3. QED
        BY <3>1, <3>2
    <2>2. IterStays
      BY <1>10, <1>14 DEF StrictInput, IterStays
    <2>3. QED
      BY <1>9, <2>1, <2>2
  <1>15. CASE UNCHANGED vars
    BY <1>15 DEF vars, iterVars, parseVars, Stream!vars
  <1>16. QED
    BY <1>2, <1>3, <1>4, <1>5, <1>6, <1>7, <1>8, <1>11, <1>12, <1>13, <1>14, <1>15
       DEF Next, Inside, Over

(* BlockTxIter begins where TxStream does and takes no other steps: what a *)
(* client sees of it is a stream of transactions, each delivered wholly or *)
(* replayed from its beginning.  (That a call returns is left to TLC.)     *)
THEOREM StreamSafety == Spec => Stream!Init /\ [][Stream!Next]_(Stream!vars)
  <1>1. Init => Stream!Init
    BY DEF Init, Fresh, Methods, Stream!Init, Stream!Unknown
  <1>2. IInv /\ IInv' /\ [Next]_vars => [Stream!Next]_(Stream!vars)
    BY StepsStream
  <1>3. QED
    BY <1>1, <1>2, IInvHolds, PTL DEF Spec

-----------------------------------------------------------------------------
(* The header: what new reads of it, written again.                        *)

(* The quotient and the remainder that a number is made of.                *)
LEMMA DigitsBack ==
  ASSUME NEW b \in Nat, b > 0, NEW q \in Int, NEW r \in 0 .. b - 1, NEW v, v = r + b * q
  PROVE  v % b = r /\ v \div b = q
  <1>1. v \in Int /\ v = b * q + r
    <2>1. b * q \in Int
      OBVIOUS
    <2>2. QED
      BY <2>1
  <1>2. PICK s, t : s = v \div b /\ t = v % b
    OBVIOUS
  <1>3. s \in Int /\ t \in 0 .. b - 1 /\ v = b * s + t
    BY <1>1, <1>2, DivMod
  <1>4. b * q + r = b * s + t
    BY <1>1, <1>3
  <1>5. q = s /\ r = t
    BY <1>3, <1>4, DivModUnique
  <1>6. QED
    BY <1>2, <1>5

(* Adjacent slices joined.                                                 *)
LEMMA BytesJoin ==
  ASSUME DataOK, NEW p \in Nat, NEW q \in Nat, NEW r \in Nat, p <= q, q <= r, r <= Len(data)
  PROVE  Bytes(Slice(p, q)) \o Bytes(Slice(q, r)) = Bytes(Slice(p, r))
  <1>1. data \in Seq(Byte) /\ Len(data) \in Nat
    BY DEF DataOK
  <1>2. PICK a, b, c : /\ a = SubSeq(data, p + 1, q) /\ b = SubSeq(data, q + 1, r)
                       /\ c = SubSeq(data, p + 1, r)
    OBVIOUS
  <1>3. a \in Seq(Byte) /\ Len(a) = q - p /\ \A i \in 1 .. q - p : a[i] = data[p + i]
    BY <1>1, <1>2
  <1>4. b \in Seq(Byte) /\ Len(b) = r - q /\ \A i \in 1 .. r - q : b[i] = data[q + i]
    BY <1>1, <1>2
  <1>5. c \in Seq(Byte) /\ Len(c) = r - p /\ \A i \in 1 .. r - p : c[i] = data[p + i]
    BY <1>1, <1>2
  <1>6. a \o b \in Seq(Byte) /\ Len(a \o b) = r - p
    <2>1. a \o b \in Seq(Byte) /\ Len(a \o b) = Len(a) + Len(b)
      BY <1>3, <1>4, Joined
    <2>2. QED
      BY <1>3, <1>4, <2>1
  <1>7. ASSUME NEW i \in 1 .. r - p
        PROVE  (a \o b)[i] = c[i]
    <2>1. CASE i <= q - p
      <3>1. (a \o b)[i] = a[i] /\ i \in 1 .. q - p
        BY <1>3, <1>4, <2>1
      <3>2. QED
        BY <1>3, <1>5, <3>1
    <2>2. CASE ~ (i <= q - p)
      <3>1. PICK j : j = i - (q - p)
        OBVIOUS
      <3>2. j \in 1 .. r - q /\ q + j = p + i
        BY <2>2, <3>1
      <3>3. (a \o b)[i] = b[j]
        BY <1>3, <1>4, <2>2, <3>1, <3>2
      <3>4. QED
        BY <1>4, <1>5, <3>2, <3>3
    <2>3. QED
      BY <2>1, <2>2
  <1>8. a \o b = c
    BY SMTT(30), <1>5, <1>6, <1>7
  <1>9. QED
    BY <1>2, <1>8 DEF Bytes, Slice

(* Two bytes read as an integer, and written again.                        *)
LEMMA TwoWritten ==
  ASSUME DataOK, NEW p \in Nat, p + 2 <= Len(data), NEW x \in Int, NEW v, v = U16(p) + Base2 * x
  PROVE  LowTwo(v) = Bytes(Slice(p, p + 2)) /\ v \div Base2 = x /\ v \in Int
  <1>1. data \in Seq(Byte) /\ Len(data) \in Nat /\ p + 1 \in 1 .. Len(data) /\ p + 2 \in 1 .. Len(data)
    BY DEF DataOK
  <1>2. PICK a, b : a = At(p) /\ b = At(p + 1)
    OBVIOUS
  <1>3. a = data[p + 1] /\ b = data[p + 2] /\ a \in Byte /\ b \in Byte
    <2>1. (p + 1) + 1 = p + 2
      OBVIOUS
    <2>2. data[p + 1] \in Byte /\ data[p + 2] \in Byte
      BY <1>1
    <2>3. QED
      BY <1>2, <2>1, <2>2 DEF At
  <1>4. Base \in Nat /\ Base > 0 /\ Base2 \in Nat /\ Base2 > 0
    BY BasePowers
  <1>5. a \in 0 .. Base - 1 /\ b \in 0 .. Base - 1
    BY <1>3 DEF Byte
  <1>6. PICK y, z : y = b + Base * x /\ z = a + Base * b
    OBVIOUS
  <1>7. Base * x \in Int /\ Base * b \in Int /\ Base2 * x \in Int /\ y \in Int /\ z \in Int
    <2>1. Base * x \in Int /\ Base * b \in Int /\ Base2 * x \in Int
      BY <1>4, <1>5
    <2>2. QED
      BY <1>5, <1>6, <2>1
  <1>8. v = a + Base * y
    <2>1. Base * (b + Base * x) = Base * b + Base * (Base * x)
      BY <1>4, <1>5, <1>7
    <2>2. Base * (Base * x) = Base2 * x
      BY <1>4 DEF Base2
    <2>3. v = (a + Base * b) + Base2 * x
      BY <1>2 DEF U16
    <2>4. QED
      BY <1>5, <1>6, <1>7, <2>1, <2>2, <2>3
  <1>9. v % Base = a /\ v \div Base = y
    BY <1>4, <1>5, <1>7, <1>8, DigitsBack
  <1>10. y % Base = b
    BY <1>4, <1>5, <1>6, DigitsBack
  <1>11. z \in 0 .. Base2 - 1 /\ v = z + Base2 * x
    <2>1. Base * b <= Base * (Base - 1)
      BY <1>4, <1>5, Z3
    <2>2. Base * (Base - 1) = Base2 - Base
      BY <1>4 DEF Base2
    <2>3. Base * b >= 0
      BY <1>4, <1>5, Z3
    <2>4. z \in 0 .. Base2 - 1
      BY <1>4, <1>5, <1>6, <1>7, <2>1, <2>2, <2>3
    <2>5. QED
      BY <1>2, <1>6, <2>4 DEF U16
  <1>12. v \div Base2 = x
    BY <1>4, <1>11, DigitsBack
  <1>13. LowTwo(v) = <<a, b>>
    BY <1>9, <1>10 DEF LowTwo
  <1>14. SubSeq(data, p + 1, p + 2) = <<a, b>>
    <2>1. PICK s : s = SubSeq(data, p + 1, p + 2)
      OBVIOUS
    <2>2. s \in Seq(Byte) /\ Len(s) = 2 /\ s[1] = data[p + 1] /\ s[2] = data[p + 2]
      BY <1>1, <2>1
    <2>3. s = <<s[1], s[2]>>
      BY <2>2
    <2>4. s[1] = a /\ s[2] = b
      BY <1>3, <2>2
    <2>5. QED
      BY <2>1, <2>3, <2>4
  <1>15. v \in Int
    BY <1>5, <1>7, <1>11
  <1>16. QED
    BY <1>12, <1>13, <1>14, <1>15 DEF Bytes, Slice

(* So four.                                                                *)
LEMMA FourWritten ==
  ASSUME DataOK, NEW p \in Nat, p + 4 <= Len(data), NEW x \in Int, NEW v, v = U32(p) + Base4 * x
  PROVE  LittleEndian(v, 4) = Bytes(Slice(p, p + 4))
  <1>1. PICK a, b, y : a = U16(p) /\ b = U16(p + 2) /\ y = b + Base2 * x
    OBVIOUS
  <1>2. Base2 \in Nat /\ Base4 \in Nat /\ Base2 * x \in Int /\ Len(data) \in Nat
    BY BasePowers DEF DataOK
  <1>3. LowTwo(y) = Bytes(Slice(p + 2, p + 4)) /\ y \in Int
    <2>1. p + 2 \in Nat /\ (p + 2) + 2 = p + 4 /\ (p + 2) + 2 <= Len(data)
      BY <1>2
    <2>2. LowTwo(y) = Bytes(Slice(p + 2, (p + 2) + 2)) /\ y \in Int
      BY <1>1, <2>1, TwoWritten
    <2>3. QED
      BY <2>1, <2>2
  <1>4. v = a + Base2 * y
    <2>1. b \in Int
      BY <1>1, <1>2, U16Type
    <2>2. a \in Int
      BY <1>1, <1>2, U16Type
    <2>3. Base2 * (b + Base2 * x) = Base2 * b + Base2 * (Base2 * x)
      BY <1>2, <2>1
    <2>4. Base2 * (Base2 * x) = Base4 * x
      BY <1>2 DEF Base4
    <2>5. v = (a + Base2 * b) + Base4 * x
      BY <1>1 DEF U32
    <2>6. Base2 * b \in Int /\ Base4 * x \in Int
      BY <1>2, <2>1
    <2>7. QED
      BY <1>1, <2>2, <2>3, <2>4, <2>5, <2>6
  <1>5. LowTwo(v) = Bytes(Slice(p, p + 2)) /\ v \div Base2 = y
    <2>1. p + 2 <= Len(data)
      BY <1>2
    <2>2. QED
      BY <1>1, <1>3, <1>4, <2>1, TwoWritten
  <1>6. LowFour(v) = Bytes(Slice(p, p + 2)) \o Bytes(Slice(p + 2, p + 4))
    BY <1>3, <1>5 DEF LowFour
  <1>7. Bytes(Slice(p, p + 2)) \o Bytes(Slice(p + 2, p + 4)) = Bytes(Slice(p, p + 4))
    <2>1. p + 2 \in Nat /\ p + 4 \in Nat /\ p <= p + 2 /\ p + 2 <= p + 4
      OBVIOUS
    <2>2. QED
      BY <2>1, BytesJoin
  <1>8. LittleEndian(v, 4) = LowFour(v)
    BY DEF LittleEndian
  <1>9. QED
    BY <1>6, <1>7, <1>8

(* The integers of a header, written again.                                *)
LEMMA WordWritten ==
  ASSUME DataOK, NEW p \in Nat, p + 4 <= Len(data)
  PROVE  /\ LittleEndian(U32(p), 4) = Bytes(Slice(p, p + 4))
         /\ LittleEndian(I32(p), 4) = Bytes(Slice(p, p + 4))
  <1>1. PICK u, b, w : u = U32(p) /\ b = Base4 /\ w = I32(p)
    OBVIOUS
  <1>2. u \in Nat /\ b \in Nat
    BY <1>1, U32Type, BasePowers
  <1>3. LittleEndian(u, 4) = Bytes(Slice(p, p + 4))
    <2>1. u = U32(p) + Base4 * 0
      BY <1>1, <1>2
    <2>2. QED
      BY <2>1, FourWritten
  <1>4. CASE w = u
    BY <1>1, <1>3, <1>4
  <1>5. CASE w # u
    <2>1. w = u - b
      BY <1>1, <1>5 DEF I32, Signed
    <2>2. w = u + b * (-1)
      BY <1>2, <2>1
    <2>3. w = U32(p) + Base4 * (-1)
      BY <1>1, <2>2
    <2>4. LittleEndian(w, 4) = Bytes(Slice(p, p + 4))
      BY <2>3, FourWritten
    <2>5. QED
      BY <1>1, <1>3, <2>4
  <1>6. QED
    BY <1>4, <1>5

(* The fields of a header, written again, are the bytes it was read from.  *)
LEMMA HeaderWritten ==
  ASSUME DataOK, HeaderLen <= Len(data), NEW raw, raw = Slice(0, HeaderLen)
  PROVE  HeaderBytes(HeaderFields(raw)) = Bytes(raw)
  <1>1. PICK h, p, q : h = HashLen /\ p = 4 + h /\ q = (4 + h) + h
    OBVIOUS
  <1>2. h \in Nat /\ Len(data) \in Nat /\ HeaderLen = q + 12 /\ p \in Nat /\ q \in Nat
    <2>1. h \in Nat /\ Len(data) \in Nat
      BY <1>1, TransactionAssumption DEF DataOK
    <2>2. HeaderLen = 16 + 2 * h
      BY <1>1 DEF HeaderLen
    <2>3. QED
      BY <1>1, <2>1, <2>2
  <1>3. /\ 0 + 4 = 4 /\ 4 + h = p /\ p + h = q /\ (q + 4) + 4 = q + 8 /\ (q + 8) + 4 = q + 12
        /\ 4 <= p /\ p <= q /\ q <= q + 4 /\ q + 4 <= q + 8 /\ q + 8 <= q + 12
        /\ q + 12 <= Len(data) /\ 0 <= 4 /\ 4 <= Len(data) /\ p <= Len(data) /\ q <= Len(data)
        /\ q + 4 <= Len(data) /\ q + 8 <= Len(data)
        /\ q + 4 \in Nat /\ q + 8 \in Nat /\ q + 12 \in Nat /\ 0 \in Nat /\ 4 \in Nat
        /\ 0 <= p /\ 0 <= q /\ 0 <= q + 4 /\ 0 <= q + 8
    BY <1>1, <1>2
  <1>4. raw.lo = 0 /\ raw = Slice(0, q + 12)
    BY <1>2 DEF Slice
  <1>5. PICK f : f = HeaderFields(raw)
    OBVIOUS
  <1>6. /\ f.version = I32(0) /\ f.prev_block = Slice(4, p) /\ f.merkle_root = Slice(p, q)
        /\ f.timestamp = U32(q) /\ f.bits = U32(q + 4) /\ f.nonce = U32(q + 8)
    BY <1>1, <1>3, <1>4, <1>5, Zenon DEF HeaderFields
  <1>7. /\ LittleEndian(f.version, 4) = Bytes(Slice(0, 4))
        /\ LittleEndian(f.timestamp, 4) = Bytes(Slice(q, q + 4))
        /\ LittleEndian(f.bits, 4) = Bytes(Slice(q + 4, q + 8))
        /\ LittleEndian(f.nonce, 4) = Bytes(Slice(q + 8, q + 12))
    <2>1. LittleEndian(I32(0), 4) = Bytes(Slice(0, 0 + 4))
      BY <1>3, WordWritten
    <2>2. LittleEndian(U32(q), 4) = Bytes(Slice(q, q + 4))
      BY <1>2, <1>3, WordWritten
    <2>3. LittleEndian(U32(q + 4), 4) = Bytes(Slice(q + 4, (q + 4) + 4))
      BY <1>3, WordWritten
    <2>4. LittleEndian(U32(q + 8), 4) = Bytes(Slice(q + 8, (q + 8) + 4))
      BY <1>3, WordWritten
    <2>5. QED
      BY <1>3, <1>6, <2>1, <2>2, <2>3, <2>4, Zenon
  <1>8. Bytes(Slice(0, 4)) \o Bytes(Slice(4, p)) \o Bytes(Slice(p, q)) \o Bytes(Slice(q, q + 4))
          \o Bytes(Slice(q + 4, q + 8)) \o Bytes(Slice(q + 8, q + 12)) = Bytes(Slice(0, q + 12))
    <2>a. PICK a, b, d, e, g : a = 0 /\ b = 4 /\ d = q + 4 /\ e = q + 8 /\ g = q + 12
      OBVIOUS
    <2>1. /\ a \in Nat /\ b \in Nat /\ p \in Nat /\ q \in Nat /\ d \in Nat /\ e \in Nat
          /\ g \in Nat /\ a <= b /\ b <= p /\ p <= q /\ q <= d /\ d <= e /\ e <= g
          /\ a <= p /\ a <= q /\ a <= d /\ a <= e /\ p <= Len(data) /\ q <= Len(data)
          /\ d <= Len(data) /\ e <= Len(data) /\ g <= Len(data)
      BY <1>2, <1>3, <2>a
    <2>2. Bytes(Slice(a, b)) \o Bytes(Slice(b, p)) = Bytes(Slice(a, p))
      BY <2>1, BytesJoin
    <2>3. Bytes(Slice(a, p)) \o Bytes(Slice(p, q)) = Bytes(Slice(a, q))
      BY <2>1, BytesJoin
    <2>4. Bytes(Slice(a, q)) \o Bytes(Slice(q, d)) = Bytes(Slice(a, d))
      BY <2>1, BytesJoin
    <2>5. Bytes(Slice(a, d)) \o Bytes(Slice(d, e)) = Bytes(Slice(a, e))
      BY <2>1, BytesJoin
    <2>6. Bytes(Slice(a, e)) \o Bytes(Slice(e, g)) = Bytes(Slice(a, g))
      BY <2>1, BytesJoin
    <2>7. QED
      BY <2>a, <2>2, <2>3, <2>4, <2>5, <2>6, Zenon
  <1>9. HeaderBytes(f) = Bytes(Slice(0, q + 12))
    BY <1>6, <1>7, <1>8, Zenon DEF HeaderBytes
  <1>10. QED
    BY <1>4, <1>5, <1>9

-----------------------------------------------------------------------------
(* Encoded blocks.  For every block that the buffer begins with, the       *)
(* iterator stands where one of its transactions does, what was accepted   *)
(* shows those before it, and the parser, if there is one, has read a part *)
(* of that one, as ParsingLemmas says of a call that begins on it.         *)

(* The transactions of b as they are written, and where each of them       *)
(* begins.                                                                 *)
TxsOf(b) == [k \in 1 .. Len(b) |-> EncodeTx(b[k])]

TxAt(b, k) == HeaderLen + Len(EncodeVarint(Len(b))) + Upto(TxsOf(b), k)

(* The buffer begins with b: its header, the count and the transactions    *)
(* stand one after the other.                                              *)
BlockLaid(b) ==
  \A c \in {CursorNew(AllData)} :
    /\ Len(b) \in Nat /\ HeaderLen <= Len(data)
    /\ Holds(c, 0, Header) /\ Holds(c, HeaderLen, EncodeVarint(Len(b)))
    /\ Len(EncodeVarint(Len(b))) \in Nat
    /\ TxAt(b, 0) = HeaderLen + Len(EncodeVarint(Len(b))) /\ TxAt(b, 0) <= Len(data)
    /\ \A k \in 0 .. Len(b) - 1 :
         /\ TxAt(b, k) \in Nat /\ SizeOf(b[k + 1]) \in Nat
         /\ Holds(c, TxAt(b, k), EncodeTx(b[k + 1]))
         /\ TxAt(b, k + 1) = TxAt(b, k) + SizeOf(b[k + 1]) /\ TxAt(b, k + 1) <= Len(data)

(* The transactions of a block, as byte strings.                           *)
LEMMA BlockTxs ==
  ASSUME NEW b \in Blocks
  PROVE  /\ Len(b) \in Nat /\ Len(b) <= MaxBlockTxn /\ Len(b) \in U64s /\ Len(b) <= UsizeMax
         /\ TxsOf(b) \in Seq(Seq(Byte)) /\ Len(TxsOf(b)) = Len(b)
         /\ \A k \in 1 .. Len(b) : TxsOf(b)[k] = EncodeTx(b[k]) /\ Encodable(b[k])
         /\ Each(EncodeTx, b) = FlattenSeq(TxsOf(b))
         /\ EncodeVarint(Len(b)) \in Seq(Byte)
  <1>1. /\ Len(b) \in 0 .. MaxBlockTxn /\ MaxBlockTxn <= UsizeMax
        /\ \A k \in 1 .. Len(b) : Encodable(b[k])
    BY BlocksAssumption
  <1>2. Len(b) \in Nat /\ Len(b) <= MaxBlockTxn /\ Len(b) <= UsizeMax
    BY <1>1, BlockAssumption, LimitsFit
  <1>3. Len(b) \in U64s
    BY <1>2, UsizeIsU64
  <1>4. \A k \in 1 .. Len(b) : EncodeTx(b[k]) \in Seq(Byte)
    BY <1>1, EncodedBytes
  <1>5. TxsOf(b) \in Seq(Seq(Byte)) /\ Len(TxsOf(b)) = Len(b)
    BY <1>2, <1>4 DEF TxsOf
  <1>6. \A k \in 1 .. Len(b) : TxsOf(b)[k] = EncodeTx(b[k])
    BY <1>2 DEF TxsOf
  <1>7. Each(EncodeTx, b) = FlattenSeq(TxsOf(b))
    BY DEF Each, TxsOf
  <1>8. EncodeVarint(Len(b)) \in Seq(Byte)
    <2>1. PICK f, o : f = FirstByte(Len(b)) /\ o = OtherBytes(Len(b))
      OBVIOUS
    <2>2. /\ <<f>> \in Seq(Byte) /\ o \in Seq(Byte) /\ EncodeVarint(Len(b)) = <<f>> \o o
      BY <1>3, <2>1, VarintBytes
    <2>3. QED
      BY <2>2, Joined
  <1>9. QED
    BY <1>1, <1>2, <1>3, <1>5, <1>6, <1>7, <1>8

(* An encoded block is laid out so.                                        *)
LEMMA BlockLayout ==
  ASSUME DataOK, NEW b \in Blocks, IsPrefix(Encoded[b], data)
  PROVE  BlockLaid(b)
  <1>a. PICK s, v, ts, f, c : /\ s = Encoded[b] /\ v = EncodeVarint(Len(b)) /\ ts = TxsOf(b)
                              /\ f = FlattenSeq(ts) /\ c = CursorNew(AllData)
    OBVIOUS
  <1>b. PICK h, l, n : h = HeaderLen /\ l = Len(v) /\ n = Len(data)
    OBVIOUS
  <1>1. /\ c.lo = 0 /\ c.len = n /\ c.pos = 0 /\ Valid(c) /\ n \in Nat /\ data \in Seq(Byte)
        /\ c.lo \in Nat /\ c.len \in Nat /\ 0 \in Nat
    BY <1>a, <1>b DEF CursorNew, AllData, Slice, Valid, DataOK
  <1>2. Header \in Seq(Byte) /\ Len(Header) = h /\ h \in Nat
    BY <1>b, BlocksAssumption
  <1>3. /\ v \in Seq(Byte) /\ l \in Nat /\ ts \in Seq(Seq(Byte)) /\ Len(ts) = Len(b)
        /\ Len(b) \in Nat /\ \A k \in 1 .. Len(b) : ts[k] = EncodeTx(b[k])
    <2>1. v \in Seq(Byte) /\ ts \in Seq(Seq(Byte)) /\ Len(ts) = Len(b) /\ Len(b) \in Nat
      BY <1>a, BlockTxs
    <2>2. \A k \in 1 .. Len(b) : ts[k] = EncodeTx(b[k])
      BY <1>a, BlockTxs
    <2>3. l \in Nat
      BY <1>b, <2>1
    <2>4. QED
      BY <2>1, <2>2, <2>3
  <1>4. f \in Seq(Byte) /\ Upto(ts, 0) = 0 /\ Len(f) \in Nat
    BY <1>a, <1>3, AllJoined
  <1>5. s = Header \o v \o f
    BY <1>a, BlockTxs DEF Encoded, EncodeBlock
  <1>6. Header \o v \in Seq(Byte) /\ Len(Header \o v) = h + l
    BY <1>2, <1>3, <1>b, Joined
  <1>7. s \in Seq(Byte) /\ Len(s) = (h + l) + Len(f)
    BY <1>4, <1>5, <1>6, Joined
  <1>8. Holds(c, 0, s) /\ Len(s) <= n
    <2>1. SubSeq(s, 1, Len(s)) = SubSeq(data, 1, Len(s)) /\ Len(s) <= n
      BY <1>a, <1>b DEF IsPrefix
    <2>2. ASSUME NEW i \in 1 .. Len(s)
          PROVE  s[i] = data[i]
      <3>1. SubSeq(s, 1, Len(s))[i] = s[i] /\ SubSeq(data, 1, Len(s))[i] = data[i]
        BY <1>1, <1>7, <1>b, <2>1
      <3>2. QED
        BY <2>1, <3>1
    <2>3. \A i \in 1 .. Len(s) : c.lo + 0 + i = i
      BY <1>1, <1>7
    <2>4. QED
      BY <2>1, <2>2, <2>3 DEF Holds
  <1>9. Holds(c, 0, Header \o v) /\ Holds(c, h + l, f)
    <2>1. Holds(c, 0, Header \o v) /\ Holds(c, 0 + Len(Header \o v), f)
      BY <1>1, <1>4, <1>5, <1>6, <1>8, HoldsParts
    <2>2. 0 + Len(Header \o v) = h + l
      BY <1>2, <1>3, <1>6
    <2>3. QED
      BY <2>1, <2>2
  <1>10. Holds(c, 0, Header) /\ Holds(c, h, v)
    <2>1. Holds(c, 0, Header) /\ Holds(c, 0 + Len(Header), v)
      BY <1>1, <1>2, <1>3, <1>9, HoldsParts
    <2>2. 0 + Len(Header) = h
      BY <1>2
    <2>3. QED
      BY <2>1, <2>2
  <1>11. \A k : TxAt(b, k) = h + l + Upto(ts, k)
    BY <1>a, <1>b DEF TxAt
  <1>12. TxAt(b, 0) = h + l /\ h + l <= n /\ h <= n
    BY <1>2, <1>3, <1>4, <1>7, <1>8, <1>11, <1>1
  <1>13. ASSUME NEW k \in 0 .. Len(b) - 1
         PROVE  /\ TxAt(b, k) \in Nat /\ SizeOf(b[k + 1]) \in Nat
                /\ Holds(c, TxAt(b, k), EncodeTx(b[k + 1]))
                /\ TxAt(b, k + 1) = TxAt(b, k) + SizeOf(b[k + 1]) /\ TxAt(b, k + 1) <= n
    <2>a. PICK e, m, x, y, z : /\ e = ts[k + 1] /\ m = Len(e) /\ x = Upto(ts, k)
                               /\ y = Upto(ts, k + 1) /\ z = Len(f)
      OBVIOUS
    <2>1. k \in 0 .. Len(ts) - 1 /\ k + 1 \in 1 .. Len(b)
      BY <1>3
    <2>2. e = EncodeTx(b[k + 1]) /\ m = SizeOf(b[k + 1])
      BY <1>3, <2>1, <2>a DEF SizeOf
    <2>3. x \in Nat /\ e \in Seq(Byte) /\ y = x + m /\ y <= z
      BY <1>3, <1>a, <2>1, <2>a, UptoMore
    <2>4. m \in Nat /\ z \in Nat
      BY <1>4, <2>3, <2>a
    <2>5. Holds(c, (h + l) + x, e)
      <3>1. h + l \in Nat
        BY <1>2, <1>3
      <3>2. QED
        BY <1>1, <1>3, <1>9, <1>a, <2>1, <2>a, <3>1, HoldsEach
    <2>6. TxAt(b, k) = (h + l) + x /\ TxAt(b, k + 1) = (h + l) + y
      BY <1>11, <2>a
    <2>7. (h + l) + z <= n
      BY <1>7, <1>8, <2>a
    <2>8. /\ (h + l) + x \in Nat /\ (h + l) + y = ((h + l) + x) + m /\ (h + l) + y <= n
      BY SMTT(30), <1>1, <1>2, <1>3, <2>3, <2>4, <2>7
    <2>9. QED
      BY <2>2, <2>4, <2>5, <2>6, <2>8
  <1>14. QED
    BY <1>1, <1>3, <1>10, <1>12, <1>13, <1>a, <1>b DEF BlockLaid

(* A read behind another one.                                              *)
LEMMA ReadBehind ==
  ASSUME NEW r, NEW s
  PROVE  After(r, s).ok = s.ok /\ After(r, s).val = s.val /\ After(r, s).cur = s.cur
  BY Zenon DEF After, Result

(* new accepts an encoded block, and stands before its transactions.       *)
LEMMA NewIterReads ==
  ASSUME DataOK, NEW b \in Blocks, BlockLaid(b)
  PROVE  /\ NewIter.ok /\ NewIter.cur.pos = TxAt(b, 0) /\ NewIter.val.total = Len(b)
         /\ HeaderBytes(NewIter.val.header) = Header
  <1>a. PICK c, l : c = CursorNew(AllData) /\ l = Len(EncodeVarint(Len(b)))
    OBVIOUS
  <1>b. PICK raw : raw = ReadArray(c, HeaderLen)
    OBVIOUS
  <1>c. PICK h0 : h0 = Ok(raw.cur, HeaderFields(raw.val), {})
    OBVIOUS
  <1>d. PICK header : header = IF raw.ok THEN After(raw, h0) ELSE raw
    OBVIOUS
  <1>e. PICK count : count = TxCount(header.cur)
    OBVIOUS
  <1>f. PICK v, s0 : v = [header |-> header.val, total |-> count.val] /\ s0 = Ok(count.cur, v, {})
    OBVIOUS
  <1>g. PICK s1 : s1 = IF count.ok THEN After(count, s0) ELSE count
    OBVIOUS
  <1>1. NewIter = IF header.ok THEN After(header, s1) ELSE header
    BY <1>a, <1>b, <1>c, <1>d, <1>e, <1>f, <1>g DEF NewIter, BlockHeader, AndThen
  <1>2. /\ HeaderLen \in Nat /\ Len(data) \in Nat /\ Header \in Seq(Byte) /\ Len(Header) = HeaderLen
        /\ MaxBlockTxn \in Nat /\ Valid(c) /\ c.lo = 0 /\ c.len = Len(data) /\ c.pos = 0
    <2>1. HeaderLen \in Nat /\ Len(data) \in Nat /\ MaxBlockTxn \in Nat
      BY TransactionAssumption, BlockAssumption DEF HeaderLen, DataOK
    <2>2. QED
      BY <1>a, <2>1, BlocksAssumption DEF CursorNew, AllData, Slice, Valid
  <1>3. /\ HeaderLen <= Len(data) /\ l \in Nat /\ HeaderLen + l <= Len(data)
        /\ TxAt(b, 0) = HeaderLen + l /\ Len(b) \in Nat
        /\ Holds(c, 0, Header) /\ Holds(c, HeaderLen, EncodeVarint(Len(b)))
    BY <1>a DEF BlockLaid
  <1>4. Bytes(Slice(0, HeaderLen)) = Header
    <2>1. 0 \in Nat /\ 0 + Len(Header) <= c.len /\ c.lo + 0 = 0 /\ c.lo + 0 + Len(Header) = HeaderLen
      BY <1>2, <1>3
    <2>2. Bytes(Slice(c.lo + 0, c.lo + 0 + Len(Header))) = Header
      BY <1>2, <1>3, <2>1, BytesHeld
    <2>3. QED
      BY <2>1, <2>2
  <1>5. raw.ok = TRUE /\ raw.val = Slice(0, HeaderLen) /\ raw.cur = MoveTo(c, HeaderLen)
    <2>1. Gets(c, raw, HeaderLen, Slice(c.lo + c.pos, c.lo + c.pos + HeaderLen))
      BY <1>2, <1>b, BytesMeet DEF ReadArray
    <2>2. c.pos + HeaderLen = HeaderLen /\ c.lo + c.pos = 0 /\ c.lo + c.pos + HeaderLen = HeaderLen
      BY <1>2
    <2>3. QED
      BY <1>2, <1>3, <2>1, <2>2 DEF Gets, Meets
  <1>6. header.ok = TRUE /\ header.val = HeaderFields(raw.val) /\ header.cur = MoveTo(c, HeaderLen)
    <2>1. h0.ok = TRUE /\ h0.val = HeaderFields(raw.val) /\ h0.cur = raw.cur
      BY <1>c DEF Ok, Result
    <2>2. header.ok = h0.ok /\ header.val = h0.val /\ header.cur = h0.cur
      <3>1. header = After(raw, h0)
        BY <1>d, <1>5
      <3>2. QED
        BY <3>1, ReadBehind, Zenon
    <2>3. QED
      BY <1>5, <2>1, <2>2
  <1>7. HeaderBytes(header.val) = Header
    BY <1>3, <1>4, <1>5, <1>6, HeaderWritten
  <1>8. /\ count.ok = TRUE /\ count.val = Len(b) /\ count.cur.pos = HeaderLen + l
    <2>a. PICK d, r : d = header.cur /\ r = ReadVarint(header.cur)
      OBVIOUS
    <2>1. d.lo = 0 /\ d.len = Len(data) /\ d.pos = HeaderLen /\ Valid(d)
      BY <1>2, <1>3, <1>6, <2>a DEF MoveTo, Valid
    <2>2. Holds(d, d.pos, EncodeVarint(Len(b)))
      BY <1>2, <1>3, <1>6, <2>1, <2>a DEF Holds
    <2>3. Len(b) \in U64s /\ Len(b) <= MaxBlockTxn /\ Len(b) <= UsizeMax
      BY BlockTxs
    <2>4. Gets(d, r, l, Len(b))
      BY <1>a, <2>1, <2>2, <2>3, <2>a, VarintMeets
    <2>5. count = CountRead(r, MaxBlockTxn)
      BY <1>e, <2>a DEF TxCount
    <2>6. Gets(d, count, l, Len(b))
      BY <1>2, <1>3, <2>3, <2>4, <2>5, CountMeets
    <2>7. count.ok = TRUE /\ count.cur = MoveTo(d, HeaderLen + l) /\ count.val = Len(b)
      BY <1>3, <2>1, <2>6 DEF Gets, Meets
    <2>8. QED
      BY <2>7 DEF MoveTo
  <1>9. s1.ok = TRUE /\ s1.val = v /\ s1.cur = count.cur
    <2>1. s0.ok = TRUE /\ s0.val = v /\ s0.cur = count.cur
      BY <1>f DEF Ok, Result
    <2>2. s1.ok = s0.ok /\ s1.val = s0.val /\ s1.cur = s0.cur
      <3>1. s1 = After(count, s0)
        BY <1>g, <1>8
      <3>2. QED
        BY <3>1, ReadBehind, Zenon
    <2>3. QED
      BY <2>1, <2>2
  <1>10. NewIter.ok = TRUE /\ NewIter.val = v /\ NewIter.cur = count.cur
    <2>1. NewIter.ok = s1.ok /\ NewIter.val = s1.val /\ NewIter.cur = s1.cur
      <3>1. NewIter = After(header, s1)
        BY <1>1, <1>6
      <3>2. QED
        BY <3>1, ReadBehind, Zenon
    <2>2. QED
      BY <1>9, <2>1
  <1>11. v.total = count.val /\ v.header = header.val
    BY <1>f
  <1>12. QED
    BY <1>3, <1>7, <1>8, <1>10, <1>11

(* The iterator steps over what the parser has read.                       *)
LEMMA TxParsedMoves ==
  ASSUME Position, TxParsed
  PROVE  /\ it' = [cur |-> MoveTo(it.cur, it.cur.pos + parser.pos), total |-> it.total,
                   consumed |-> it.consumed + 1]
         /\ accepted' = Append(accepted, log) /\ failed' = <<>>
         /\ IF call = "next_tx" THEN Finish(More(TRUE), NoError) ELSE UNCHANGED <<call, result>>
  <1>a. PICK q : q = it.cur.pos + parser.pos
    OBVIOUS
  <1>1. /\ DataOK /\ it.cur.pos \in Nat /\ parser.pos \in Nat /\ q <= Len(data) /\ q \in Nat
        /\ it.cur.lo = 0 /\ it.cur.len = Len(data) /\ Len(data) \in Nat
    <2>1. pc # "idle"
      BY DEF TxParsed
    <2>2. /\ parser.lo = it.cur.pos /\ parser.len = Len(data) - it.cur.pos
          /\ parser.pos \in Nat /\ parser.pos <= parser.len
      BY <2>1, ParserFields
    <2>3. QED
      BY <1>a, <2>2, Fields DEF Position
  <1>2. CheckedAdd(it.cur.pos, parser.pos) = q
    BY <1>1, <1>a, CursorAssumption DEF CheckedAdd, DataOK
  <1>3. q # None /\ q <= it.cur.len
    BY <1>1 DEF None
  <1>4. PICK v : v = Slice(it.cur.lo + it.cur.pos, it.cur.lo + q)
    OBVIOUS
  <1>5. Skip(it.cur, parser.pos) = Ok(MoveTo(it.cur, q), v, Offsets(v))
    BY <1>1, <1>2, <1>3, <1>4 DEF Skip, ReadBytes
  <1>6. Skip(it.cur, parser.pos).ok /\ Skip(it.cur, parser.pos).cur = MoveTo(it.cur, q)
    BY <1>5 DEF Ok, Result
  <1>7. QED
    BY <1>6, <1>a DEF TxParsed

-----------------------------------------------------------------------------
(* What a client has got of an encoded block, and the parser of its next   *)
(* transaction.                                                            *)
ReadingBlock(b) ==
  /\ it.total = Len(b) /\ it.cur.pos = TxAt(b, it.consumed)
  /\ \A k \in 1 .. it.consumed : Shows(accepted[k], b[k])
  /\ pc # "idle" => \A o \in {Rest} : Rendering(o, b[it.consumed + 1])
  /\ (pc = "returned" /\ ~ ret.ok /\ call # "consume_all_strict") => ret.err = UserError
  /\ result.method = "new" => result.ok /\ HeaderBytes(result.val) = Header
  /\ result.method \in {"next_tx", "skip_remaining"} => result.ok \/ result.err = UserError

ReadsBlock(b) == (call # "unborn" /\ IsPrefix(Encoded[b], data)) => ReadingBlock(b)

(* The inductive invariant of what is read.                                *)
CodingInv == IInv /\ \A b \in Blocks : ReadsBlock(b)

(* The transaction that is parsed.                                         *)
LEMMA NextOf ==
  ASSUME Position, NEW b \in Blocks, BlockLaid(b), ReadingBlock(b), pc # "idle",
         NEW t, t = b[it.consumed + 1], NEW o, o = Rest
  PROVE  /\ DataOK /\ ParsesFrom(o) /\ Encodable(t) /\ Laid(o, t) /\ Rendering(o, t)
         /\ o.pos = 0 /\ o.len \in Nat /\ it.cur.pos \in Nat
         /\ SizeOf(t) \in Nat /\ SizeOf(t) <= o.len
         /\ it.cur.pos + SizeOf(t) = TxAt(b, it.consumed + 1)
  <1>a. PICK k, p, c, n : /\ k = it.consumed /\ p = it.cur.pos /\ c = CursorNew(AllData)
                          /\ n = SizeOf(t)
    OBVIOUS
  <1>1. /\ DataOK /\ Len(data) \in Nat /\ p \in Nat /\ k \in Nat /\ k < it.total
        /\ o = [lo |-> p, len |-> Len(data) - p, pos |-> 0] /\ Valid(o) /\ p <= Len(data)
    BY <1>a, Fields DEF Position
  <1>2. ParsesFrom(o)
    BY ParserFields
  <1>3. Rendering(o, t) /\ it.total = Len(b) /\ p = TxAt(b, k)
    BY <1>a DEF ReadingBlock
  <1>4. Len(b) \in Nat /\ k \in 0 .. Len(b) - 1 /\ k + 1 \in 1 .. Len(b)
    BY <1>1, <1>3, BlockTxs
  <1>5. Encodable(t)
    BY <1>4, <1>a, BlockTxs
  <1>6. /\ n \in Nat /\ Holds(c, p, EncodeTx(t)) /\ TxAt(b, k + 1) = p + n /\ p + n <= Len(data)
    BY <1>3, <1>4, <1>a DEF BlockLaid
  <1>7. Holds(o, o.pos, EncodeTx(t))
    <2>1. c.lo = 0 /\ c.len = Len(data)
      BY <1>1, <1>a DEF CursorNew, AllData, Slice
    <2>2. SUFFICES ASSUME NEW i \in 1 .. Len(EncodeTx(t)), o.pos + i <= o.len
                   PROVE  data[o.lo + o.pos + i] = EncodeTx(t)[i]
      BY DEF Holds
    <2>3. i \in Nat
      BY <1>6, <1>a DEF SizeOf
    <2>4. p + i <= c.len /\ c.lo + p + i = o.lo + o.pos + i
      BY <1>1, <2>1, <2>2, <2>3
    <2>5. QED
      BY <1>6, <2>2, <2>4 DEF Holds
  <1>8. Laid(o, t)
    BY <1>1, <1>5, <1>7, Layout
  <1>9. o.pos = 0 /\ o.len \in Nat /\ n <= o.len
    BY <1>1, <1>6
  <1>10. QED
    BY <1>1, <1>2, <1>3, <1>5, <1>6, <1>8, <1>9, <1>a

(* The iterator itself does nothing.                                       *)
LEMMA ReadingStays ==
  ASSUME NEW b, ReadingBlock(b), data' = data, it' = it, accepted' = accepted,
         pc' # "idle" => \A o \in {Rest} : Rendering(o, b[it.consumed + 1])',
         (pc' = "returned" /\ ~ ret'.ok /\ call' # "consume_all_strict") => ret'.err = UserError,
         result'.method = "new" => result' = result,
         result'.method \in {"next_tx", "skip_remaining"} =>
           result' = result \/ result'.ok \/ result'.err = UserError
  PROVE  ReadingBlock(b)'
  <1>1. \A ds, t : Shows(ds, t)' <=> Shows(ds, t)
    BY DEF Shows, IsInput, IsOutput, Bytes
  <1>2. \A h : HeaderBytes(h)' = HeaderBytes(h)
    BY DEF HeaderBytes, Bytes
  <1>3. Rest' = Rest
    BY RestStays
  <1>4. TxAt(b, it.consumed)' = TxAt(b, it.consumed)
    BY DEF TxAt
  <1>5. \A k \in 1 .. it'.consumed : Shows(accepted[k], b[k])'
    BY <1>1 DEF ReadingBlock
  <1>6. result'.method = "new" => result'.ok /\ HeaderBytes(result.val)'  = Header
    BY <1>2 DEF ReadingBlock
  <1>7. pc' # "idle" => (\A o \in {Rest} : Rendering(o, b[it.consumed + 1]))'
    BY <1>3
  <1>8. QED
    BY <1>4, <1>5, <1>6, <1>7 DEF ReadingBlock

(* An encoded block is accepted.                                           *)
LEMMA NewReads ==
  ASSUME IInv, New, NEW b \in Blocks, BlockLaid(b)
  PROVE  ReadingBlock(b)'
  <1>1. pc' = "idle" /\ data' = data /\ DataOK
    BY DEF IInv, Position, New, Methods, parseVars
  <1>a. PICK h : h = NewIter.val.header
    OBVIOUS
  <1>2. /\ NewIter.ok /\ NewIter.cur.pos = TxAt(b, 0) /\ NewIter.val.total = Len(b)
        /\ HeaderBytes(h) = Header
    BY <1>1, <1>a, NewIterReads
  <1>3. /\ it' = [cur |-> NewIter.cur, total |-> NewIter.val.total, consumed |-> 0]
        /\ result' = Reply("new", h, NoError)
    BY <1>2, <1>a DEF New
  <1>4. it'.cur.pos = TxAt(b, 0) /\ it'.total = Len(b) /\ it'.consumed = 0
    BY <1>2, <1>3
  <1>5. result'.method = "new" /\ result'.ok /\ result'.val = h
    BY <1>3 DEF Reply
  <1>6. HeaderBytes(h)' = HeaderBytes(h)
    BY <1>1 DEF HeaderBytes, Bytes
  <1>7. TxAt(b, it.consumed)' = TxAt(b, 0)
    BY <1>4 DEF TxAt
  <1>8. HeaderBytes(result.val)' = Header
    BY <1>2, <1>5, <1>6
  <1>9. QED
    BY <1>1, <1>4, <1>5, <1>7, <1>8 DEF ReadingBlock

(* Between the transactions.                                               *)
LEMMA BetweenReads ==
  ASSUME Position, NEW b \in Blocks, ReadingBlock(b),
         Call \/ CallFinishStrict \/ NoMoreTx \/ BeginTx \/ UNCHANGED vars
  PROVE  ReadingBlock(b)'
  <1>1. CASE Call
    <2>1. pc' = "idle" /\ result'.method = "none"
      BY <1>1 DEF Position, Call, Methods, Nothing, parseVars
    <2>2. data' = data /\ it' = it /\ accepted' = accepted
      BY <1>1 DEF Call
    <2>3. QED
      BY <2>1, <2>2, ReadingStays
  <1>2. CASE CallFinishStrict
    <2>1. pc' = "idle" /\ result'.method = "finish_strict"
      BY <1>2 DEF Position, CallFinishStrict, Methods, Reply, parseVars
    <2>2. data' = data /\ it' = it /\ accepted' = accepted
      BY <1>2 DEF CallFinishStrict
    <2>3. QED
      BY <2>1, <2>2, ReadingStays
  <1>3. CASE NoMoreTx
    <2>1. pc' = "idle" /\ data' = data /\ it' = it /\ accepted' = accepted
      BY <1>3 DEF NoMoreTx, parseVars
    <2>2. call \in Methods
      BY <1>3 DEF NoMoreTx
    <2>3. CASE call = "next_tx"
      <3>1. result' = Reply("next_tx", More(FALSE), NoError)
        BY <1>3, <2>3 DEF NoMoreTx, Finish
      <3>2. result'.method = "next_tx" /\ result'.ok
        BY <3>1 DEF Reply
      <3>3. QED
        BY <2>1, <3>2, ReadingStays
    <2>4. CASE call = "skip_remaining"
      <3>1. result' = Reply("skip_remaining", NoValue, NoError)
        BY <1>3, <2>4 DEF NoMoreTx, Finish
      <3>2. result'.method = "skip_remaining" /\ result'.ok
        BY <3>1 DEF Reply
      <3>3. QED
        BY <2>1, <3>2, ReadingStays
    <2>5. CASE call = "consume_all_strict"
      <3>1. result' = Reply("consume_all_strict", NoValue, StrictVerdict)
        BY <1>3, <2>5 DEF NoMoreTx, Finish
      <3>2. result'.method = "consume_all_strict"
        BY <3>1 DEF Reply
      <3>3. QED
        BY <2>1, <3>2, ReadingStays
    <2>6. QED
      BY <2>2, <2>3, <2>4, <2>5 DEF Methods
  <1>4. CASE BeginTx
    <2>a. PICK o, t : o = Rest /\ t = b[it.consumed + 1]
      OBVIOUS
    <2>1. Begin(o) /\ data' = data /\ it' = it /\ accepted' = accepted /\ result' = result
      BY <1>4, <2>a DEF BeginTx, Rest
    <2>2. pc' = "head"
      BY <2>1 DEF Begin
    <2>3. Rendering(o, t)'
      BY <2>1, <2>a, Fields, BeginRenders
    <2>4. QED
      BY <2>1, <2>2, <2>3, <2>a, ReadingStays DEF ReadingBlock
  <1>5. CASE UNCHANGED vars
    <2>a. PICK o, t : o = Rest /\ t = b[it.consumed + 1]
      OBVIOUS
    <2>1. /\ data' = data /\ it' = it /\ accepted' = accepted /\ result' = result /\ call' = call
          /\ UNCHANGED parseVars
      BY <1>5 DEF vars, iterVars
    <2>2. pc' = pc /\ ret' = ret
      BY <2>1 DEF parseVars
    <2>3. pc # "idle" => Rendering(o, t)
      BY <2>a DEF ReadingBlock
    <2>4. pc # "idle" => Rendering(o, t)'
      BY <2>1, <2>3, RenderingStays
    <2>5. (pc' = "returned" /\ ~ ret'.ok /\ call' # "consume_all_strict") => ret'.err = UserError
      BY <2>1, <2>2 DEF ReadingBlock
    <2>6. QED
      BY <2>1, <2>2, <2>4, <2>5, <2>a, ReadingStays DEF ReadingBlock
  <1>6. QED
    BY <1>1, <1>2, <1>3, <1>4, <1>5

(* Inside a transaction all that fails is the client.                      *)
LEMMA InsideReads ==
  ASSUME Position, NEW b \in Blocks, BlockLaid(b), ReadingBlock(b),
         Step \/ Input \/ Output \/ StrictInput
  PROVE  ReadingBlock(b)'
  <1>a. PICK o, t : o = Rest /\ t = b[it.consumed + 1]
    OBVIOUS
  <1>1. /\ data' = data /\ it' = it /\ accepted' = accepted /\ result' = result /\ call' = call
        /\ pc # "idle"
    BY DEF Step, Input, Output, StrictInput, iterVars, ParseAlone, ParseHead, BadInput,
           ParseOutputCount, BadOutput, EndOutputs, ParseWitnessCount, ParseWitnessItem,
           EndWitness, ParseLocktime, ParseInput, ParseOutput
  <1>2. /\ DataOK /\ ParsesFrom(o) /\ Encodable(t) /\ Laid(o, t) /\ Rendering(o, t)
        /\ o.pos = 0 /\ o.len \in Nat /\ SizeOf(t) \in Nat /\ SizeOf(t) <= o.len
    BY <1>1, <1>a, NextOf
  <1>3. CASE Step
    <2>1. ParseAlone
      BY <1>3 DEF Step
    <2>2. Rendering(o, t)' /\ FailsShort(o, t)'
      BY <1>1, <1>2, <2>1, ParseAloneRenders
    <2>3. ~ Short(o, SizeOf(t), ret'.err)
      <3>1. ~ o.len < o.pos + SizeOf(t)
        BY <1>2
      <3>2. QED
        BY <3>1 DEF Short
    <2>4. ~ (pc' = "returned" /\ ~ ret'.ok)
      BY <2>2, <2>3 DEF FailsShort
    <2>5. QED
      BY <1>1, <1>a, <2>2, <2>4, ReadingStays DEF ReadingBlock
  <1>4. CASE Input \/ Output
    <2>a. PICK e \in Answers : ParseInput(TRUE, e) \/ ParseOutput(e)
      BY <1>4 DEF Input, Output
    <2>1. Rendering(o, t)'
      BY <1>1, <1>2, <2>a, CallbacksRender
    <2>2. pc' = "returned" => ret'.err = UserError
      <3>1. CASE e = NoError
        BY <2>a, <3>1 DEF ParseInput, ParseOutput, HandOver
      <3>2. CASE e # NoError
        BY <2>a, <3>2 DEF ParseInput, ParseOutput, HandOver, Abort, Return, Returned, Answers
      <3>3. QED
        BY <3>1, <3>2
    <2>3. QED
      BY <1>1, <1>a, <2>1, <2>2, ReadingStays DEF ReadingBlock
  <1>5. CASE StrictInput
    <2>a. PICK called, e : /\ called \in BOOLEAN /\ (called \/ e # NoError)
                           /\ ParseInput(called, e)
      <3>1. PICK n : ParseInput(FALSE, InvalidCoinbaseCount(n)) \/ \E e \in Answers : ParseInput(TRUE, e)
        BY <1>5 DEF StrictInput
      <3>2. InvalidCoinbaseCount(n) # NoError
        BY DEF InvalidCoinbaseCount, NoError
      <3>3. QED
        BY <3>1, <3>2
    <2>1. Rendering(o, t)'
      BY <1>1, <1>2, <2>a, CallbacksRender
    <2>2. call' = "consume_all_strict"
      BY <1>5 DEF StrictInput
    <2>3. QED
      BY <1>1, <1>a, <2>1, <2>2, ReadingStays DEF ReadingBlock
  <1>6. QED
    BY <1>3, <1>4, <1>5

(* A transaction read is the next one of the block.                        *)
LEMMA TxParsedReads ==
  ASSUME Position, History, NEW b \in Blocks, BlockLaid(b), ReadingBlock(b), TxParsed
  PROVE  ReadingBlock(b)'
  <1>a. PICK o, t, k : o = Rest /\ t = b[it.consumed + 1] /\ k = it.consumed
    OBVIOUS
  <1>1. pc = "returned" /\ ret.ok /\ pc' = "idle" /\ data' = data
    BY DEF TxParsed
  <1>2. /\ DataOK /\ ParsesFrom(o) /\ Encodable(t) /\ Rendering(o, t) /\ o.pos = 0
        /\ it.cur.pos \in Nat /\ SizeOf(t) \in Nat /\ it.cur.pos + SizeOf(t) = TxAt(b, k + 1)
    BY <1>1, <1>a, NextOf
  <1>3. /\ AllShown(t) /\ StandsAt(o, parser, SizeOf(t))
        /\ ret.val = [version |-> t.version, locktime |-> t.locktime,
                      inputs |-> Len(t.inputs), outputs |-> Len(t.outputs)]
    BY <1>1, <1>2 DEF Rendering
  <1>4. parser.pos = SizeOf(t)
    BY <1>2, <1>3 DEF StandsAt
  <1>5. Shows(log, t)
    <2>1. /\ Len(log) = head.inputs + outs
          /\ ret.val.inputs = head.inputs /\ ret.val.outputs = outs
      BY <1>1, <1>2 DEF ParsesFrom, Logging
    <2>2. ret.val.inputs = Len(t.inputs) /\ ret.val.outputs = Len(t.outputs)
      BY <1>3
    <2>3. Len(log) = Len(t.inputs) + Len(t.outputs)
      BY <2>1, <2>2, Zenon
    <2>4. QED
      BY <1>3, <2>3 DEF Shows, AllShown, InputsShown, OutputsShown
  <1>6. /\ it' = [cur |-> MoveTo(it.cur, it.cur.pos + parser.pos), total |-> it.total,
                  consumed |-> it.consumed + 1]
        /\ accepted' = Append(accepted, log)
        /\ IF call = "next_tx" THEN Finish(More(TRUE), NoError) ELSE UNCHANGED <<call, result>>
    BY TxParsedMoves
  <1>7. /\ it'.cur.pos = TxAt(b, k + 1) /\ it'.total = Len(b) /\ it'.consumed = k + 1
    <2>1. it'.cur.pos = it.cur.pos + parser.pos /\ it'.total = it.total /\ it'.consumed = k + 1
      BY <1>6, <1>a DEF MoveTo
    <2>2. QED
      BY <1>2, <1>4, <2>1 DEF ReadingBlock
  <1>8. \A ds, u : Shows(ds, u)' <=> Shows(ds, u)
    BY <1>1 DEF Shows, IsInput, IsOutput, Bytes
  <1>9. ASSUME NEW i \in 1 .. k + 1
        PROVE  Shows(accepted'[i], b[i])
    <2>1. accepted \in Seq(Seq(Deliveries)) /\ Len(accepted) = k /\ k \in Nat
          /\ log \in Seq(Deliveries)
      BY <1>1, <1>a, ParserFields, Fields DEF History
    <2>2. CASE i \in 1 .. k
      <3>1. accepted'[i] = accepted[i]
        BY <1>6, <2>1, <2>2
      <3>2. QED
        BY <1>a, <2>2, <3>1 DEF ReadingBlock
    <2>3. CASE i = k + 1
      <3>1. accepted'[i] = log
        BY <1>6, <2>1, <2>3
      <3>2. QED
        BY <1>5, <1>a, <2>3, <3>1
    <2>4. QED
      BY <2>1, <2>2, <2>3
  <1>10. \A i \in 1 .. it'.consumed : Shows(accepted[i], b[i])'
    BY <1>7, <1>8, <1>9
  <1>11. TxAt(b, it.consumed)' = TxAt(b, k + 1)
    BY <1>7 DEF TxAt
  <1>12. /\ result'.method = "new" => result' = result
         /\ result'.method \in {"next_tx", "skip_remaining"} => result' = result \/ result'.ok
    <2>1. CASE call = "next_tx"
      <3>1. result' = Reply("next_tx", More(TRUE), NoError)
        BY <1>6, <2>1 DEF Finish
      <3>2. result'.method = "next_tx" /\ result'.ok
        BY <3>1 DEF Reply
      <3>3. QED
        BY <3>2
    <2>2. CASE call # "next_tx"
      BY <1>6, <2>2
    <2>3. QED
      BY <2>1, <2>2
  <1>13. \A h : HeaderBytes(h)' = HeaderBytes(h)
    BY <1>1 DEF HeaderBytes, Bytes
  <1>14. result'.method = "new" => result'.ok /\ HeaderBytes(result.val)' = Header
    BY <1>12, <1>13 DEF ReadingBlock
  <1>15. result'.method \in {"next_tx", "skip_remaining"} => result'.ok \/ result'.err = UserError
    BY <1>12 DEF ReadingBlock
  <1>16. QED
    BY <1>1, <1>7, <1>10, <1>11, <1>14, <1>15 DEF ReadingBlock

(* A try that failed has failed by the client, and is reported so.         *)
LEMMA TxFailedReads ==
  ASSUME Position, NEW b \in Blocks, ReadingBlock(b), TxFailed
  PROVE  ReadingBlock(b)'
  <1>1. /\ pc = "returned" /\ ~ ret.ok /\ pc' = "idle" /\ data' = data /\ it' = it
        /\ accepted' = accepted /\ result' = Reply(call, NoValue, ret.err)
    BY DEF TxFailed, Finish
  <1>2. call # "consume_all_strict" => ret.err = UserError
    BY <1>1 DEF ReadingBlock
  <1>3. result'.method = call /\ result'.err = ret.err
    BY <1>1 DEF Reply
  <1>4. call # "new"
    BY <1>1 DEF Position, Methods
  <1>5. QED
    BY <1>1, <1>2, <1>3, <1>4, ReadingStays

(* Every step reads on.                                                    *)
LEMMA NextReads ==
  ASSUME CodingInv, [Next]_vars
  PROVE  CodingInv'
  <1>1. IInv /\ IInv' /\ Position /\ History /\ DataOK
    BY NextKeeps DEF CodingInv, IInv, Position
  <1>2. ASSUME NEW b \in Blocks
        PROVE  ReadsBlock(b)'
    <2>1. data' = data
      BY DEF Next, Inside, Over, New, Call, CallFinishStrict, BeginTx, NoMoreTx, TxParsed,
             TxFailed, Step, Input, Output, StrictInput, vars
    <2>2. Encoded[b]' = Encoded[b]
      OBVIOUS
    <2>3. SUFFICES ASSUME call' # "unborn", IsPrefix(Encoded[b], data)
                   PROVE  ReadingBlock(b)'
      BY <2>1, <2>2 DEF ReadsBlock
    <2>4. BlockLaid(b)
      BY <1>1, <2>3, BlockLayout
    <2>5. CASE New
      BY <1>1, <2>4, <2>5, NewReads
    <2>6. CASE ~ New
      <3>1. call # "unborn"
        <4>1. CASE Call \/ CallFinishStrict \/ Over \/ UNCHANGED vars
          BY <2>3, <4>1 DEF Call, CallFinishStrict, Over, vars, iterVars
        <4>2. CASE Inside
          <5>1. pc # "idle" \/ call \in Methods
            BY <4>2 DEF Inside, BeginTx, NoMoreTx, TxParsed, TxFailed, Step, Input, Output,
                        StrictInput, ParseAlone, ParseHead, BadInput, ParseOutputCount, BadOutput,
                        EndOutputs, ParseWitnessCount, ParseWitnessItem, EndWitness,
                        ParseLocktime, ParseInput, ParseOutput
          <5>2. QED
            BY <1>1, <5>1 DEF Position, Methods
        <4>3. QED
          BY <2>6, <4>1, <4>2 DEF Next
      <3>2. ReadingBlock(b)
        BY <2>3, <3>1 DEF CodingInv, ReadsBlock
      <3>3. QED
        BY <1>1, <2>4, <2>6, <3>2, BetweenReads, InsideReads, TxParsedReads, TxFailedReads
           DEF Next, Inside, Over
    <2>7. QED
      BY <2>5, <2>6
  <1>3. QED
    BY <1>1, <1>2 DEF CodingInv

(* The invariant of what is read holds in every state.                     *)
THEOREM CodingInvHolds == Spec => []CodingInv
  <1>1. Init => CodingInv
    <2>1. Init => IInv
      BY FreshIsSound, BlockAssumption DEF Init, DataOK
    <2>2. QED
      BY <2>1 DEF Init, Fresh, CodingInv, ReadsBlock
  <1>2. CodingInv /\ [Next]_vars => CodingInv'
    BY NextReads
  <1>3. QED
    BY <1>1, <1>2, PTL DEF Spec

(* new accepts every encoded block and returns its header, the client gets *)
(* the transactions that were encoded, field by field and in their order,  *)
(* and no call fails but for an answer of the client's or a strict check:  *)
(* for every block within the limits, whatever follows it in the buffer.   *)
THEOREM BlocksReadBack == Spec => []BlockRoundTrip
  <1>1. CodingInv => BlockRoundTrip
    BY DEF CodingInv, ReadsBlock, ReadingBlock, BlockRoundTrip
  <1>2. QED
    BY <1>1, CodingInvHolds, PTL

-----------------------------------------------------------------------------
(* Sums, by induction over the number of what is added.                    *)

(* How SumFunction adds the values of w up over a set: it picks one        *)
(* element and goes on with the others.                                    *)
AnyOf(s) == CHOOSE x \in s : TRUE

Adds(w, f, s) == IF s = {} THEN 0 ELSE w[AnyOf(s)] + f[s \ {AnyOf(s)}]

Sums(w, D, f) == f = [s \in SUBSET D |-> Adds(w, f, s)]

(* SumFunction takes any solution.                                         *)
LEMMA SumIs ==
  ASSUME NEW w
  PROVE  SumFunction(w) = (CHOOSE f : Sums(w, DOMAIN w, f))[DOMAIN w]
  BY DEF SumFunction, SumFunctionOnSet, FoldFunctionOnSet, MapThenFoldSet, Adds, Sums, AnyOf

(* What is taken out of a set of n + 1 elements leaves n.                  *)
LEMMA OneOut ==
  ASSUME NEW D, IsFiniteSet(D), NEW s \in SUBSET D, NEW x \in s
  PROVE  /\ IsFiniteSet(s) /\ Cardinality(s) \in Nat \ {0}
         /\ s \ {x} \in SUBSET D /\ Cardinality(s \ {x}) = Cardinality(s) - 1
  <1>1. IsFiniteSet(s)
    BY FS_Subset
  <1>2. Cardinality(s) \in Nat /\ Cardinality(s) # 0
    BY <1>1, FS_CardinalityType, FS_EmptySet
  <1>3. Cardinality(s \ {x}) = Cardinality(s) - 1
    BY <1>1, FS_RemoveElement
  <1>4. QED
    BY <1>1, <1>2, <1>3

(* Nothing is left of an empty one.                                        *)
LEMMA NoneOut ==
  ASSUME NEW D, IsFiniteSet(D), NEW s \in SUBSET D
  PROVE  /\ Cardinality(s) \in Nat
         /\ Cardinality(s) = 0 <=> s = {}
         /\ s # {} => AnyOf(s) \in s
  <1>1. IsFiniteSet(s)
    BY FS_Subset
  <1>2. QED
    BY <1>1, FS_CardinalityType, FS_EmptySet DEF AnyOf

(* There is a solution, on the subsets of n elements at most.              *)
LEMMA SumsExist ==
  ASSUME NEW w, NEW D, IsFiniteSet(D)
  PROVE  \E f : Sums(w, D, f)
  <1> DEFINE Small(n)    == {s \in SUBSET D : Cardinality(s) <= n}
             Solves(f, n) == f = [s \in Small(n) |-> Adds(w, f, s)]
             S == {n \in Nat : \E f : Solves(f, n)}
  <1>1. 0 \in S
    <2>1. PICK f : f = [s \in Small(0) |-> 0]
      OBVIOUS
    <2>2. \A s \in Small(0) : s = {}
      BY NoneOut
    <2>3. \A s \in Small(0) : Adds(w, f, s) = 0
      BY <2>2 DEF Adds
    <2>4. Solves(f, 0)
      BY <2>1, <2>3
    <2>5. QED
      BY <2>4
  <1>2. ASSUME NEW n \in Nat, n \in S
        PROVE  n + 1 \in S
    <2>1. PICK f : Solves(f, n)
      BY <1>2
    <2>2. PICK g : g = [s \in Small(n + 1) |-> IF s \in Small(n) THEN f[s] ELSE Adds(w, f, s)]
      OBVIOUS
    <2>3. Small(n) \subseteq Small(n + 1)
      BY NoneOut
    <2>4. ASSUME NEW s \in Small(n + 1)
          PROVE  Adds(w, g, s) = Adds(w, f, s)
      <3>1. CASE s = {}
        BY <3>1 DEF Adds
      <3>2. CASE s # {}
        <4>1. AnyOf(s) \in s
          BY <3>2, NoneOut
        <4>2. s \ {AnyOf(s)} \in Small(n)
          BY <4>1, OneOut
        <4>3. g[s \ {AnyOf(s)}] = f[s \ {AnyOf(s)}]
          BY <2>2, <2>3, <4>2
        <4>4. QED
          BY <4>3 DEF Adds
      <3>3. QED
        BY <3>1, <3>2
    <2>5. \A s \in Small(n + 1) : g[s] = Adds(w, f, s)
      BY <2>1, <2>2
    <2>6. Solves(g, n + 1)
      <3>1. g = [s \in Small(n + 1) |-> g[s]]
        BY <2>2
      <3>2. \A s \in Small(n + 1) : g[s] = Adds(w, g, s)
        BY <2>4, <2>5
      <3>3. QED
        BY <3>1, <3>2
    <2>7. QED
      BY SMTT(90), <2>6
  <1> HIDE DEF S
  <1>3. Cardinality(D) \in S
    BY <1>1, <1>2, SetInduction, FS_CardinalityType
  <1>4. PICK f : Solves(f, Cardinality(D))
    BY <1>3 DEF S
  <1>5. Small(Cardinality(D)) = SUBSET D
    BY FS_Subset
  <1>6. QED
    BY <1>4, <1>5 DEF Sums

(* It does not matter which element is taken out first.                    *)
LEMMA AnyOrder ==
  ASSUME NEW D, IsFiniteSet(D), NEW w \in [D -> Nat], NEW f, Sums(w, D, f),
         NEW s \in SUBSET D
  PROVE  f[s] \in Nat /\ \A x \in s : f[s] = w[x] + f[s \ {x}]
  <1> DEFINE Good(t) == f[t] \in Nat /\ \A x \in t : f[t] = w[x] + f[t \ {x}]
             S == {n \in Nat : \A t \in SUBSET D : Cardinality(t) <= n => Good(t)}
  <1>0. \A t \in SUBSET D : f[t] = Adds(w, f, t)
    BY DEF Sums
  <1>1. 0 \in S
    <2>1. \A t \in SUBSET D : Cardinality(t) <= 0 => t = {}
      BY NoneOut
    <2>2. f[{}] = 0
      BY <1>0 DEF Adds
    <2>3. QED
      BY <2>1, <2>2
  <1>2. ASSUME NEW n \in Nat, n \in S
        PROVE  n + 1 \in S
    <2>0. \A t \in SUBSET D : Cardinality(t) <= n => Good(t)
      BY <1>2
    <2> HIDE DEF Good
    <2> SUFFICES ASSUME NEW t \in SUBSET D, Cardinality(t) = n + 1
                 PROVE  Good(t)
      <3>1. \A t \in SUBSET D : Cardinality(t) <= n + 1 => Cardinality(t) <= n \/ Cardinality(t) = n + 1
        BY NoneOut
      <3>2. QED
        BY <2>0, <3>1
    <2> USE DEF Good
    <2>1. PICK c : c \in t /\ f[t] = w[c] + f[t \ {c}]
      <3>1. t # {} /\ AnyOf(t) \in t
        BY NoneOut
      <3>2. QED
        BY <1>0, <3>1 DEF Adds
    <2>2. t \ {c} \in SUBSET D /\ Cardinality(t \ {c}) = n
      BY <2>1, OneOut
    <2>3. f[t] \in Nat
      BY <1>2, <2>1, <2>2
    <2>4. ASSUME NEW x \in t
          PROVE  f[t] = w[x] + f[t \ {x}]
      <3>1. CASE x = c
        BY <2>1, <3>1
      <3>2. CASE x # c
        <4>1. x \in t \ {c} /\ c \in t \ {x}
          BY <2>1, <3>2
        <4>2. t \ {x} \in SUBSET D /\ Cardinality(t \ {x}) = n
          BY <2>4, OneOut
        <4>3. f[t \ {c}] = w[x] + f[(t \ {c}) \ {x}]
          BY <1>2, <2>2, <4>1
        <4>4. f[t \ {x}] = w[c] + f[(t \ {x}) \ {c}]
          BY <1>2, <4>1, <4>2
        <4>5. (t \ {c}) \ {x} = (t \ {x}) \ {c}
          OBVIOUS
        <4>6. f[(t \ {c}) \ {x}] \in Nat
          <5>1. PICK u : u = t \ {c}
            OBVIOUS
          <5>2. u \in SUBSET D /\ x \in u /\ Cardinality(u) = n
            BY <2>2, <4>1, <5>1
          <5>3. u \ {x} \in SUBSET D /\ Cardinality(u \ {x}) = n - 1
            BY <5>2, OneOut
          <5>4. QED
            BY <1>2, <5>1, <5>3
        <4>7. w[x] \in Nat /\ w[c] \in Nat
          BY <2>1
        <4>8. PICK k : k = f[(t \ {c}) \ {x}]
          OBVIOUS
        <4>9. /\ k \in Nat /\ f[t] = w[c] + f[t \ {c}]
              /\ f[t \ {c}] = w[x] + k /\ f[t \ {x}] = w[c] + k
          BY <2>1, <4>3, <4>4, <4>5, <4>6, <4>8
        <4>10. QED
          BY <4>7, <4>9
      <3>3. QED
        BY <3>1, <3>2
    <2>5. QED
      BY <2>3, <2>4
  <1> HIDE DEF S
  <1>3. Cardinality(s) \in S /\ Cardinality(s) <= Cardinality(s)
    BY <1>1, <1>2, SetInduction, NoneOut
  <1> HIDE DEF Good
  <1>4. Good(s)
    BY <1>3 DEF S
  <1>5. QED
    BY <1>4 DEF Good

(* In particular when all are added up.                                    *)
LEMMA AnyFirst ==
  ASSUME NEW D, IsFiniteSet(D), NEW w \in [D -> Nat], NEW f, Sums(w, D, f)
  PROVE  f[D] \in Nat /\ \A x \in D : f[D] = w[x] + f[D \ {x}]
  <1>1. D \in SUBSET D
    OBVIOUS
  <1>2. QED
    BY SMTT(90), <1>1, AnyOrder

(* Sums over the same values are the same.                                 *)
LEMMA SameSums ==
  ASSUME NEW D, IsFiniteSet(D), NEW w, NEW f, Sums(w, D, f),
         NEW E, NEW u, NEW g, Sums(u, E, g),
         D \subseteq E, \A x \in D : u[x] = w[x],
         NEW s \in SUBSET D
  PROVE  g[s] = f[s]
  <1> DEFINE S == {n \in Nat : \A t \in SUBSET D : Cardinality(t) <= n => g[t] = f[t]}
  <1>0. \A t \in SUBSET D : f[t] = Adds(w, f, t) /\ g[t] = Adds(u, g, t)
    BY DEF Sums
  <1>1. 0 \in S
    <2>1. \A t \in SUBSET D : Cardinality(t) <= 0 => t = {}
      BY NoneOut
    <2>2. f[{}] = 0 /\ g[{}] = 0
      BY <1>0 DEF Adds
    <2>3. QED
      BY <2>1, <2>2
  <1>2. ASSUME NEW n \in Nat, n \in S
        PROVE  n + 1 \in S
    <2>0. \A t \in SUBSET D : Cardinality(t) <= n => g[t] = f[t]
      BY <1>2
    <2> SUFFICES ASSUME NEW t \in SUBSET D, Cardinality(t) = n + 1
                 PROVE  g[t] = f[t]
      <3>1. \A t \in SUBSET D : Cardinality(t) <= n + 1 => Cardinality(t) <= n \/ Cardinality(t) = n + 1
        BY NoneOut
      <3>2. QED
        BY <2>0, <3>1
    <2>1. t # {} /\ AnyOf(t) \in t
      BY NoneOut
    <2>2. t \ {AnyOf(t)} \in SUBSET D /\ Cardinality(t \ {AnyOf(t)}) = n
      BY <2>1, OneOut
    <2>3. g[t \ {AnyOf(t)}] = f[t \ {AnyOf(t)}] /\ u[AnyOf(t)] = w[AnyOf(t)]
      BY <2>0, <2>1, <2>2
    <2>4. QED
      BY <1>0, <2>1, <2>3 DEF Adds
  <1> HIDE DEF S
  <1>3. Cardinality(s) \in S /\ Cardinality(s) <= Cardinality(s)
    BY <1>1, <1>2, SetInduction, NoneOut
  <1>4. QED
    BY <1>3 DEF S

(* Nothing adds up to zero.                                                *)
LEMMA SumOfNone ==
  ASSUME NEW w, DOMAIN w = {}
  PROVE  SumFunction(w) = 0
  <1>1. PICK f : f = CHOOSE h : Sums(w, {}, h)
    OBVIOUS
  <1>2. Sums(w, {}, f)
    BY <1>1, SumsExist, FS_EmptySet
  <1>3. f[{}] = 0
    BY <1>2 DEF Sums, Adds
  <1>4. QED
    BY <1>1, <1>3, SumIs

(* A sequence with one more value adds up to that much more.               *)
LEMMA SumOfMore ==
  ASSUME NEW n \in Nat, NEW w \in [1 .. n -> Nat], NEW u \in [1 .. n + 1 -> Nat],
         \A k \in 1 .. n : u[k] = w[k]
  PROVE  /\ SumFunction(w) \in Nat
         /\ SumFunction(u) = SumFunction(w) + u[n + 1]
  <1> DEFINE D == 1 .. n
             E == 1 .. n + 1
  <1>1. DOMAIN w = D /\ DOMAIN u = E /\ D \subseteq E /\ n + 1 \in E /\ E \ {n + 1} = D
    OBVIOUS
  <1>2. IsFiniteSet(D) /\ IsFiniteSet(E)
    BY FS_Interval
  <1>3. PICK f : f = CHOOSE h : Sums(w, D, h)
    OBVIOUS
  <1>4. PICK g : g = CHOOSE h : Sums(u, E, h)
    OBVIOUS
  <1> HIDE DEF D, E
  <1>5. Sums(w, D, f) /\ Sums(u, E, g)
    BY <1>2, <1>3, <1>4, SumsExist
  <1>6. SumFunction(w) = f[D] /\ SumFunction(u) = g[E]
    BY <1>1, <1>3, <1>4, SumIs
  <1>7. f[D] \in Nat
    BY <1>2, <1>5, AnyOrder DEF D
  <1>8. g[E] = u[n + 1] + g[E \ {n + 1}]
    <2>1. u \in [E -> Nat]
      BY DEF E
    <2>2. \A x \in E : g[E] = u[x] + g[E \ {x}]
      BY ZenonT(90), <1>2, <1>5, <2>1, AnyFirst
    <2>3. QED
      BY <1>1, <2>2
  <1>9. \A x \in D : u[x] = w[x]
    BY DEF D
  <1>10. D \in SUBSET D
    OBVIOUS
  <1>11. g[D] = f[D]
    BY <1>1, <1>2, <1>5, <1>9, <1>10, SameSums
  <1>12. u[n + 1] \in Nat
    OBVIOUS
  <1>13. g[E] = u[n + 1] + f[D]
    BY <1>1, <1>8, <1>11
  <1>14. PICK a, b : a = f[D] /\ b = u[n + 1]
    OBVIOUS
  <1>15. a \in Nat /\ b \in Nat /\ SumFunction(w) = a /\ SumFunction(u) = b + a
    BY <1>6, <1>7, <1>12, <1>13, <1>14
  <1>16. SumFunction(u) = SumFunction(w) + b
    BY <1>15
  <1>17. QED
    BY <1>14, <1>15, <1>16

-----------------------------------------------------------------------------
(* What the example counts, adds up and prints.                            *)

(* Values are numbers, whatever is added up.                               *)
LEMMA SumType ==
  ASSUME NEW n \in Nat, NEW w \in [1 .. n -> Nat]
  PROVE  SumFunction(w) \in Nat
  <1>1. PICK u : u = [k \in 1 .. n + 1 |-> IF k = n + 1 THEN 0 ELSE w[k]]
    OBVIOUS
  <1>2. u \in [1 .. n + 1 -> Nat] /\ \A k \in 1 .. n : u[k] = w[k]
    <2>1. \A k \in 1 .. n + 1 : k # n + 1 => k \in 1 .. n
      OBVIOUS
    <2>2. \A k \in 1 .. n : k \in 1 .. n + 1 /\ k # n + 1
      OBVIOUS
    <2>3. QED
      BY <1>1, <2>1, <2>2
  <1>3. QED
    BY <1>2, SumOfMore

(* The outputs of a transaction are worth what those before and the last   *)
(* one are worth.                                                          *)
LEMMA ValueType ==
  ASSUME NEW d \in Deliveries
  PROVE  ValueOf(d) \in Nat
  BY DEF ValueOf, Deliveries, OutputVals

(* What a transaction is worth grows by the value of each output.          *)
LEMMA TxSumMore ==
  ASSUME NEW ds \in Seq(Deliveries), NEW d \in Deliveries
  PROVE  /\ TxSum(ds) \in Nat
         /\ TxSum(Append(ds, d)) = TxSum(ds) + ValueOf(d)
  <1>1. PICK es, n : es = Append(ds, d) /\ n = Len(ds)
    OBVIOUS
  <1>2. /\ n \in Nat /\ Len(es) = n + 1 /\ es[n + 1] = d /\ n + 1 \in 1 .. n + 1
        /\ \A i \in 1 .. n : es[i] = ds[i] /\ i \in 1 .. n + 1
        /\ \A i \in 1 .. n : ds[i] \in Deliveries
        /\ \A i \in 1 .. n + 1 : es[i] \in Deliveries
    BY <1>1
  <1>3. PICK w : w = [i \in 1 .. n |-> ValueOf(ds[i])]
    OBVIOUS
  <1>4. PICK u : u = [i \in 1 .. n + 1 |-> ValueOf(es[i])]
    OBVIOUS
  <1>5. w \in [1 .. n -> Nat]
    BY <1>2, <1>3, ValueType
  <1>6. u \in [1 .. n + 1 -> Nat]
    BY <1>2, <1>4, ValueType
  <1>7. \A i \in 1 .. n : u[i] = w[i]
    BY <1>2, <1>3, <1>4
  <1>8. u[n + 1] = ValueOf(d)
    BY <1>2, <1>4
  <1>9. TxSum(ds) = SumFunction(w) /\ TxSum(es) = SumFunction(u)
    BY <1>1, <1>2, <1>3, <1>4 DEF TxSum
  <1>10. SumFunction(w) \in Nat /\ SumFunction(u) = SumFunction(w) + u[n + 1]
    BY <1>2, <1>5, <1>6, <1>7, SumOfMore
  <1>11. QED
    BY <1>1, <1>8, <1>9, <1>10

(* So are those of a block.                                                *)
Total(bs) == SumFunction([k \in 1 .. Len(bs) |-> TxSum(bs[k])])

(* What a transaction is worth is a number.                                *)
LEMMA TxSumType ==
  ASSUME NEW ds \in Seq(Deliveries)
  PROVE  TxSum(ds) \in Nat
  <1>1. PICK n : n = Len(ds)
    OBVIOUS
  <1>2. n \in Nat /\ \A i \in 1 .. n : ds[i] \in Deliveries
    BY <1>1
  <1>3. [i \in 1 .. n |-> ValueOf(ds[i])] \in [1 .. n -> Nat]
    BY <1>2, ValueType
  <1>4. QED
    BY <1>1, <1>2, <1>3, SumType DEF TxSum

(* The total of a block grows by what its next transaction is worth.       *)
LEMMA TotalMore ==
  ASSUME NEW bs \in Seq(Seq(Deliveries)), NEW ds \in Seq(Deliveries)
  PROVE  /\ Total(bs) \in Nat
         /\ Total(Append(bs, ds)) = Total(bs) + TxSum(ds)
  <1>1. PICK es, n : es = Append(bs, ds) /\ n = Len(bs)
    OBVIOUS
  <1>2. /\ n \in Nat /\ Len(es) = n + 1 /\ es[n + 1] = ds /\ n + 1 \in 1 .. n + 1
        /\ \A i \in 1 .. n : es[i] = bs[i] /\ i \in 1 .. n + 1
        /\ \A i \in 1 .. n : bs[i] \in Seq(Deliveries)
        /\ \A i \in 1 .. n + 1 : es[i] \in Seq(Deliveries)
    BY <1>1
  <1>3. PICK w : w = [i \in 1 .. n |-> TxSum(bs[i])]
    OBVIOUS
  <1>4. PICK u : u = [i \in 1 .. n + 1 |-> TxSum(es[i])]
    OBVIOUS
  <1>5. w \in [1 .. n -> Nat]
    BY <1>2, <1>3, TxSumType
  <1>6. u \in [1 .. n + 1 -> Nat]
    BY <1>2, <1>4, TxSumType
  <1>7. \A i \in 1 .. n : u[i] = w[i]
    BY <1>2, <1>3, <1>4
  <1>8. u[n + 1] = TxSum(ds)
    BY <1>2, <1>4
  <1>9. Total(bs) = SumFunction(w) /\ Total(es) = SumFunction(u)
    BY <1>1, <1>2, <1>3, <1>4 DEF Total
  <1>10. SumFunction(w) \in Nat /\ SumFunction(u) = SumFunction(w) + u[n + 1]
    BY <1>2, <1>5, <1>6, <1>7, SumOfMore
  <1>11. QED
    BY <1>1, <1>8, <1>9, <1>10

(* Nothing delivered is worth nothing.                                     *)
LEMMA NothingAdded == TxSum(<<>>) = 0 /\ Total(<<>>) = 0
  <1>1. PICK w : w = [i \in 1 .. 0 |-> ValueOf(<<>>[i])]
    OBVIOUS
  <1>2. PICK u : u = [i \in 1 .. 0 |-> TxSum(<<>>[i])]
    OBVIOUS
  <1>3. DOMAIN w = {} /\ DOMAIN u = {}
    BY <1>1, <1>2
  <1>4. TxSum(<<>>) = SumFunction(w) /\ Total(<<>>) = SumFunction(u)
    BY <1>1, <1>2 DEF TxSum, Total
  <1>5. QED
    BY <1>3, <1>4, SumOfNone

(* The transactions that have begun.                                       *)
BegunOf(acc, cur) == acc \o IF cur = <<>> THEN <<>> ELSE <<cur>>

(* The current transaction has begun as soon as it has a delivery.         *)
LEMMA BegunIs ==
  ASSUME NEW S, NEW acc \in Seq(S), NEW cur \in S
  PROVE  BegunOf(acc, cur) = IF cur = <<>> THEN acc ELSE Append(acc, cur)
  BY DEF BegunOf

(* The total of those begun is that of those accepted and the current one. *)
LEMMA TotalOfBegun ==
  ASSUME NEW acc \in Seq(Seq(Deliveries)), NEW cur \in Seq(Deliveries)
  PROVE  /\ Total(BegunOf(acc, cur)) = Total(acc) + TxSum(cur)
         /\ Total(acc) \in Nat /\ TxSum(cur) \in Nat
  <1>1. Total(acc) \in Nat /\ TxSum(cur) \in Nat
    BY TotalMore, TxSumType
  <1>2. CASE cur = <<>>
    <2>1. BegunOf(acc, cur) = acc /\ TxSum(cur) = 0
      BY <1>2, BegunIs, NothingAdded
    <2>2. QED
      BY <1>1, <2>1
  <1>3. CASE cur # <<>>
    BY <1>1, <1>3, BegunIs, TotalMore
  <1>4. QED
    BY <1>1, <1>2, <1>3

(* The transactions that begin with a coinbase input.                      *)
CoinbasesIn(bs) == {k \in 1 .. Len(bs) : IsCoinbase(bs[k][1].val)}

(* One more transaction is one more coinbase if its first input says so.   *)
LEMMA CoinbasesMore ==
  ASSUME NEW S, NEW bs \in Seq(S), NEW ds \in S
  PROVE  /\ Cardinality(CoinbasesIn(bs)) \in Nat
         /\ Cardinality(CoinbasesIn(Append(bs, ds))) =
              Cardinality(CoinbasesIn(bs)) + IF IsCoinbase(ds[1].val) THEN 1 ELSE 0
  <1>1. PICK es, n : es = Append(bs, ds) /\ n = Len(bs)
    OBVIOUS
  <1>2. /\ n \in Nat /\ Len(es) = n + 1 /\ es[n + 1] = ds /\ n + 1 \in 1 .. n + 1
        /\ \A i \in 1 .. n : es[i] = bs[i] /\ i \in 1 .. n + 1
        /\ n + 1 \notin 1 .. n /\ \A i \in 1 .. n + 1 : i \in 1 .. n \/ i = n + 1
    BY <1>1
  <1>3. CoinbasesIn(bs) \subseteq 1 .. n /\ IsFiniteSet(1 .. n)
    BY <1>1, <1>2, FS_Interval DEF CoinbasesIn
  <1>4. IsFiniteSet(CoinbasesIn(bs)) /\ Cardinality(CoinbasesIn(bs)) \in Nat
    BY <1>3, FS_Subset, FS_CardinalityType
  <1>5. CASE IsCoinbase(ds[1].val)
    <2>1. CoinbasesIn(es) = CoinbasesIn(bs) \cup {n + 1}
      BY <1>1, <1>2, <1>5 DEF CoinbasesIn
    <2>2. n + 1 \notin CoinbasesIn(bs)
      BY <1>2, <1>3
    <2>3. Cardinality(CoinbasesIn(bs) \cup {n + 1}) = Cardinality(CoinbasesIn(bs)) + 1
      BY <1>4, <2>2, FS_AddElement
    <2>4. QED
      BY <1>1, <1>4, <1>5, <2>1, <2>3
  <1>6. CASE ~ IsCoinbase(ds[1].val)
    <2>1. CoinbasesIn(es) = CoinbasesIn(bs)
      BY <1>1, <1>2, <1>6 DEF CoinbasesIn
    <2>2. QED
      BY <1>1, <1>4, <1>6, <2>1
  <1>7. QED
    BY <1>5, <1>6

(* The lines printed.                                                      *)
Printable ==
  {OutputLine(o, Classify(o.script).type) : o \in OutputVals}
    \cup {InputLine(k, b) : k \in Nat, b \in BOOLEAN}

(* Those that the delivery d is worth, after ds of the same transaction.   *)
NewLines(k, ds, d) ==
  IF ~ Asked(k) THEN <<>>
  ELSE IF d.kind = "output" THEN OutputLines(d.val)
  ELSE IF ds = <<>> THEN <<InputLine(k, IsCoinbase(d.val))>> ELSE <<>>

(* The empty sequence is one of whatever is asked for.                     *)
LEMMA NoneOf == \A T : <<>> \in Seq(T) /\ Len(<<>>) = 0
  OBVIOUS

(* What a delivery is worth are lines.                                     *)
LEMMA NewLinesType ==
  ASSUME NEW k \in Nat, NEW ds, NEW d \in Deliveries
  PROVE  NewLines(k, ds, d) \in Seq(Printable)
  <1>1. d.kind = "output" => d.val \in OutputVals
    BY DEF Deliveries
  <1>2. d.kind = "output" => OutputLines(d.val) \in Seq(Printable)
    <2>1. SUFFICES ASSUME d.kind = "output"
                   PROVE  OutputLines(d.val) \in Seq(Printable)
      OBVIOUS
    <2>2. OutputLine(d.val, Classify(d.val.script).type) \in Printable
      BY <1>1, <2>1 DEF Printable
    <2>3. QED
      BY <2>2 DEF OutputLines
  <1>3. <<InputLine(k, IsCoinbase(d.val))>> \in Seq(Printable)
    <2>1. IsCoinbase(d.val) \in BOOLEAN
      BY DEF IsCoinbase
    <2>2. InputLine(k, IsCoinbase(d.val)) \in Printable
      BY <2>1 DEF Printable
    <2>3. QED
      BY <2>2
  <1>4. QED
    BY <1>2, <1>3 DEF NewLines

(* A transaction's lines are those it is worth so far and the new ones.    *)
Worth(k, ds, i) ==
  IF ds[i].kind = "output" THEN OutputLines(ds[i].val)
  ELSE IF i = 1 THEN <<InputLine(k, IsCoinbase(ds[i].val))>> ELSE <<>>

(* The lines of a transaction asked for, one delivery after the other.     *)
LEMMA WorthIs ==
  ASSUME NEW k, Asked(k), NEW ds \in Seq(Deliveries)
  PROVE  /\ LinesOf(k, ds) = FlattenSeq([i \in 1 .. Len(ds) |-> Worth(k, ds, i)])
         /\ k \in Nat => \A i \in 1 .. Len(ds) : Worth(k, ds, i) \in Seq(Printable)
  <1>1. LinesOf(k, ds) = FlattenSeq([i \in 1 .. Len(ds) |-> Worth(k, ds, i)])
    BY DEF LinesOf, Worth
  <1>2. ASSUME k \in Nat, NEW i \in 1 .. Len(ds)
        PROVE  Worth(k, ds, i) \in Seq(Printable)
    <2>1. ds[i] \in Deliveries
      BY <1>2
    <2>2. NewLines(k, <<>>, ds[i]) \in Seq(Printable)
      BY <1>2, <2>1, NewLinesType
    <2>3. Worth(k, ds, i) = NewLines(k, <<>>, ds[i]) \/ Worth(k, ds, i) = <<>>
      BY DEF Worth, NewLines
    <2>4. QED
      BY <2>2, <2>3, NoneOf
  <1>3. QED
    BY <1>1, <1>2

(* One more delivery appends its lines to those of the transaction.        *)
LEMMA LinesMore ==
  ASSUME NEW k \in Nat, NEW ds \in Seq(Deliveries), NEW d \in Deliveries
  PROVE  /\ LinesOf(k, ds) \in Seq(Printable)
         /\ LinesOf(k, Append(ds, d)) = LinesOf(k, ds) \o NewLines(k, ds, d)
  <1>1. CASE ~ Asked(k)
    BY <1>1 DEF LinesOf, NewLines
  <1>2. CASE Asked(k)
    <2>1. PICK es, n : es = Append(ds, d) /\ n = Len(ds)
      OBVIOUS
    <2>2. /\ n \in Nat /\ Len(es) = n + 1 /\ es[n + 1] = d /\ n + 1 \in 1 .. n + 1
          /\ \A i \in 1 .. n : es[i] = ds[i] /\ i \in 1 .. n + 1
          /\ es \in Seq(Deliveries) /\ (n = 0 <=> ds = <<>>)
      BY <2>1
    <2>3. PICK w : w = [i \in 1 .. n |-> Worth(k, ds, i)]
      OBVIOUS
    <2>4. PICK u : u = [i \in 1 .. n + 1 |-> Worth(k, es, i)]
      OBVIOUS
    <2>5. \A i \in 1 .. n : w[i] \in Seq(Printable) /\ u[i] = w[i]
      <3>1. \A i \in 1 .. n : Worth(k, es, i) = Worth(k, ds, i)
        BY <2>2 DEF Worth
      <3>2. \A i \in 1 .. n : Worth(k, ds, i) \in Seq(Printable)
        BY <1>2, <2>1, WorthIs
      <3>3. QED
        BY <2>2, <2>3, <2>4, <3>1, <3>2
    <2>6. u[n + 1] = NewLines(k, ds, d)
      <3>1. n + 1 = 1 <=> ds = <<>>
        BY <2>2
      <3>2. Worth(k, es, n + 1) = NewLines(k, ds, d)
        BY <1>2, <2>2, <3>1 DEF Worth, NewLines
      <3>3. QED
        BY <2>2, <2>4, <3>2
    <2>7. Len(w) = n /\ Len(u) = n + 1 /\ (n = 0 => w = <<>>)
      BY <2>2, <2>3, <2>4
    <2>8. u[n + 1] \in Seq(Printable)
      BY <2>6, NewLinesType
    <2>9. FlattenSeq(w) \in Seq(Printable) /\ FlattenSeq(u) = FlattenSeq(w) \o u[n + 1]
      <3>0. n \in Nat
        BY <2>2
      <3>1. PICK T : T = Printable
        OBVIOUS
      <3>2. \A i \in 1 .. n : w[i] \in Seq(T) /\ u[i] = w[i]
        BY <2>5, <3>1
      <3>3. u[n + 1] \in Seq(T)
        BY <2>8, <3>1
      <3>4. FlattenSeq(w) \in Seq(T) /\ FlattenSeq(u) = FlattenSeq(w) \o u[n + 1]
        <4>1. OneLonger(T, n, w, u)
          BY <2>7, <3>2, <3>3 DEF OneLonger
        <4>2. QED
          BY ZenonT(120), <3>0, <4>1, FlattenMore
      <3>5. QED
        BY <3>1, <3>4
    <2>10. LinesOf(k, ds) = FlattenSeq(w) /\ LinesOf(k, es) = FlattenSeq(u)
      BY <1>2, <2>1, <2>2, <2>3, <2>4, WorthIs
    <2>11. QED
      BY <2>1, <2>6, <2>9, <2>10
  <1>3. QED
    BY <1>1, <1>2

(* A transaction of which nothing is delivered is worth no line.           *)
LEMMA NoLines ==
  ASSUME NEW k
  PROVE  LinesOf(k, <<>>) = <<>>
  <1>1. PICK w : w = [i \in 1 .. 0 |-> Worth(k, <<>>, i)]
    OBVIOUS
  <1>2. w = <<>> /\ FlattenSeq(w) = <<>>
    BY <1>1 DEF FlattenSeq
  <1>3. Asked(k) => LinesOf(k, <<>>) = FlattenSeq(w)
    <2>1. PICK e : e = <<>> /\ e \in Seq(Deliveries) /\ Len(e) = 0
      BY NoneOf
    <2>2. Asked(k) => LinesOf(k, e) = FlattenSeq([i \in 1 .. 0 |-> Worth(k, e, i)])
      BY <2>1, WorthIs
    <2>3. QED
      BY <1>1, <2>1, <2>2
  <1>4. QED
    BY <1>2, <1>3 DEF LinesOf

(* And the lines of a block those of its transactions.                     *)
Text(bs) == FlattenSeq([k \in 1 .. Len(bs) |-> LinesOf(k - 1, bs[k])])

(* What a transaction is worth are lines.                                  *)
LEMMA LinesType ==
  ASSUME NEW k \in Nat, NEW ds \in Seq(Deliveries)
  PROVE  LinesOf(k, ds) \in Seq(Printable)
  <1>1. CASE ~ Asked(k)
    BY <1>1 DEF LinesOf
  <1>2. CASE Asked(k) /\ ds = <<>>
    BY <1>2, NoLines, NoneOf
  <1>3. CASE ds # <<>>
    BY <1>3, LinesMore
  <1>4. QED
    BY <1>1, <1>2, <1>3

(* One more transaction appends its lines to those of the block.           *)
LEMMA TextMore ==
  ASSUME NEW bs \in Seq(Seq(Deliveries)), NEW ds \in Seq(Deliveries)
  PROVE  /\ Text(bs) \in Seq(Printable)
         /\ Text(Append(bs, ds)) = Text(bs) \o LinesOf(Len(bs), ds)
  <1>1. PICK es, n : es = Append(bs, ds) /\ n = Len(bs)
    OBVIOUS
  <1>2. /\ n \in Nat /\ Len(es) = n + 1 /\ es[n + 1] = ds /\ n + 1 \in 1 .. n + 1
        /\ \A k \in 1 .. n : es[k] = bs[k] /\ k \in 1 .. n + 1 /\ k - 1 \in Nat
        /\ \A k \in 1 .. n : bs[k] \in Seq(Deliveries)
    BY <1>1
  <1>3. PICK w : w = [k \in 1 .. n |-> LinesOf(k - 1, bs[k])]
    OBVIOUS
  <1>4. PICK u : u = [k \in 1 .. n + 1 |-> LinesOf(k - 1, es[k])]
    OBVIOUS
  <1>5. \A k \in 1 .. n : w[k] \in Seq(Printable) /\ u[k] = w[k]
    BY <1>2, <1>3, <1>4, LinesType
  <1>6. u[n + 1] = LinesOf(n, ds) /\ u[n + 1] \in Seq(Printable)
    <2>1. u[n + 1] = LinesOf((n + 1) - 1, ds) /\ (n + 1) - 1 = n
      BY <1>2, <1>4
    <2>2. QED
      BY <1>2, <2>1, LinesType
  <1>7. Len(w) = n /\ Len(u) = n + 1 /\ (n = 0 => w = <<>>)
    BY <1>2, <1>3, <1>4
  <1>8. FlattenSeq(w) \in Seq(Printable) /\ FlattenSeq(u) = FlattenSeq(w) \o u[n + 1]
    <2>0. n \in Nat
      BY <1>2
    <2>1. PICK T : T = Printable
      OBVIOUS
    <2>2. \A k \in 1 .. n : w[k] \in Seq(T) /\ u[k] = w[k]
      BY <1>5, <2>1
    <2>3. u[n + 1] \in Seq(T)
      BY <1>6, <2>1
    <2>4. FlattenSeq(w) \in Seq(T) /\ FlattenSeq(u) = FlattenSeq(w) \o u[n + 1]
      <3>1. OneLonger(T, n, w, u)
        BY <1>7, <2>2, <2>3 DEF OneLonger
      <3>2. QED
        BY ZenonT(120), <2>0, <3>1, FlattenMore
    <2>5. QED
      BY <2>1, <2>4
  <1>9. Text(bs) = FlattenSeq(w) /\ Text(es) = FlattenSeq(u)
    BY <1>1, <1>2, <1>3, <1>4 DEF Text
  <1>10. QED
    BY <1>1, <1>6, <1>8, <1>9

(* No transaction is worth no line.                                        *)
LEMMA NoText == Text(<<>>) = <<>>
  <1>1. PICK w : w = [k \in 1 .. 0 |-> LinesOf(k - 1, <<>>[k])]
    OBVIOUS
  <1>2. w = <<>> /\ FlattenSeq(w) = <<>>
    BY <1>1 DEF FlattenSeq
  <1>3. QED
    BY <1>1, <1>2 DEF Text

(* A transaction that has not begun is worth no line yet.                  *)
LEMMA TextOfNext ==
  ASSUME NEW bs \in Seq(Seq(Deliveries))
  PROVE  Text(Append(bs, <<>>)) = Text(bs)
  <1>1. PICK e : e = <<>> /\ e \in Seq(Deliveries)
    BY NoneOf
  <1>2. Text(bs) \in Seq(Printable) /\ Text(Append(bs, e)) = Text(bs) \o LinesOf(Len(bs), e)
    BY <1>1, TextMore
  <1>3. LinesOf(Len(bs), e) = <<>>
    BY <1>1, NoLines
  <1>4. PICK t : t = Text(bs) /\ t \in Seq(Printable)
    BY <1>2
  <1>5. t \o <<>> = t
    BY <1>4
  <1>6. QED
    BY <1>1, <1>2, <1>3, <1>4, <1>5

(* One more delivery of the last transaction.                              *)
LEMMA TextLonger ==
  ASSUME NEW bs \in Seq(Seq(Deliveries)), NEW ds \in Seq(Deliveries), NEW d \in Deliveries
  PROVE  /\ Text(Append(bs, Append(ds, d))) =
              Text(Append(bs, ds)) \o NewLines(Len(bs), ds, d)
         /\ Text(Append(bs, ds)) \in Seq(Printable)
  <1>1. PICK n, es : n = Len(bs) /\ es = Append(ds, d)
    OBVIOUS
  <1>2. n \in Nat /\ es \in Seq(Deliveries)
    BY <1>1
  <1>3. PICK a, b, c : a = Text(bs) /\ b = LinesOf(n, ds) /\ c = NewLines(n, ds, d)
    OBVIOUS
  <1>4. a \in Seq(Printable) /\ b \in Seq(Printable) /\ c \in Seq(Printable)
    BY <1>2, <1>3, TextMore, LinesType, NewLinesType
  <1>5. Text(Append(bs, es)) = a \o LinesOf(n, es) /\ Text(Append(bs, ds)) = a \o b
    BY <1>1, <1>2, <1>3, TextMore
  <1>6. LinesOf(n, es) = b \o c
    BY <1>1, <1>2, <1>3, LinesMore
  <1>7. a \o (b \o c) = (a \o b) \o c /\ a \o b \in Seq(Printable)
    BY <1>4
  <1>8. QED
    BY <1>1, <1>3, <1>5, <1>6, <1>7

-----------------------------------------------------------------------------
(* As long as the block and the answer of parse_opts stay, so do the lines *)
(* and the coinbases.                                                      *)

(* A script keeps its type.                                                *)
LEMMA ClassifyStays ==
  ASSUME data' = data, NEW s
  PROVE  Classify(s)' = Classify(s)
  <1> DEFINE Arms == {k \in 1 .. Len(Patterns) : Matches(s, Patterns[k])}
             Of(arms, b) ==
               IF arms # {}
               THEN [type |-> Patterns[Min(arms)].type, payload |-> Body(s, Patterns[Min(arms)])]
               ELSE IF Size(s) > 0 /\ b = OpReturn
                    THEN [type |-> "OpReturn", payload |-> Slice(s.lo + 1, s.hi)]
               ELSE [type |-> "Unknown", payload |-> Slice(s.lo, s.lo)]
  <1>1. \A p : Matches(s, p)' <=> Matches(s, p)
    BY DEF Matches, Framed, At
  <1>2. Arms' = Arms
    BY <1>1
  <1>3. At(s.lo)' = At(s.lo)
    BY DEF At
  <1>4. Classify(s) = Of(Arms, At(s.lo))
    BY DEF Classify
  <1>5. Classify(s)' = Of(Arms', At(s.lo)')
    BY DEF Classify
  <1> HIDE DEF Of, Arms
  <1>6. QED
    BY <1>2, <1>3, <1>4, <1>5

(* What is asked for, and the lines of a transaction and of a block.       *)
LEMMA LinesStay ==
  ASSUME data' = data, args' = args
  PROVE  /\ \A k : Asked(k)' <=> Asked(k)
         /\ \A k, ds : LinesOf(k, ds)' = LinesOf(k, ds)
         /\ \A bs : Text(bs)' = Text(bs)
  <1>1. \A k : Asked(k)' <=> Asked(k)
    BY DEF Asked
  <1>2. ASSUME NEW o
        PROVE  OutputLines(o)' = OutputLines(o)
    BY ClassifyStays DEF OutputLines
  <1>3. ASSUME NEW k, NEW ds
        PROVE  LinesOf(k, ds)' = LinesOf(k, ds)
    <2>0. \A v : InputLine(k, IsCoinbase(v))' = InputLine(k, IsCoinbase(v))
      BY CoinbaseStays DEF InputLine
    <2>1. \A i : Worth(k, ds, i)' = Worth(k, ds, i)
      BY <1>2, <2>0 DEF Worth
    <2>2. PICK u : u = [i \in 1 .. Len(ds) |-> Worth(k, ds, i)]
      OBVIOUS
    <2>3. u = [i \in 1 .. Len(ds) |-> Worth(k, ds, i)']
      BY <2>1, <2>2
    <2>4. LinesOf(k, ds) = IF ~ Asked(k) THEN <<>> ELSE FlattenSeq(u)
      BY <2>2 DEF LinesOf, Worth
    <2>5. LinesOf(k, ds)' = IF ~ Asked(k)' THEN <<>> ELSE FlattenSeq(u)
      BY <2>3 DEF LinesOf, Worth
    <2>6. QED
      BY <1>1, <2>4, <2>5
  <1>4. ASSUME NEW bs
        PROVE  Text(bs)' = Text(bs)
    <2>1. PICK u : u = [k \in 1 .. Len(bs) |-> LinesOf(k - 1, bs[k])]
      OBVIOUS
    <2>2. u = [k \in 1 .. Len(bs) |-> LinesOf(k - 1, bs[k])']
      BY <1>3, <2>1
    <2>3. Text(bs) = FlattenSeq(u) /\ Text(bs)' = FlattenSeq(u)
      BY <2>1, <2>2 DEF Text
    <2>4. QED
      BY <2>3
  <1>5. QED
    BY <1>1, <1>3, <1>4

(* The counters, for the deliveries of the transactions accepted and of    *)
(* the current one.                                                        *)
Exact(acc, cur, unc, idx, saw1, txs, sum) ==
  /\ idx + (IF unc THEN 1 ELSE 0) = Len(acc)
  /\ saw1 = (unc \/ cur # <<>>)
  /\ txs = Cardinality(CoinbasesIn(BegunOf(acc, cur)))
  /\ sum = Min({Total(acc) + TxSum(cur), U64Max})

(* The lesser of two numbers.                                              *)
LEMMA LesserIs ==
  ASSUME NEW a \in Int, NEW b \in Int
  PROVE  Min({a, b}) = IF a <= b THEN a ELSE b
  <1>1. PICK z : z = IF a <= b THEN a ELSE b
    OBVIOUS
  <1>2. z \in {a, b} /\ \A y \in {a, b} : z <= y
    BY <1>1
  <1>3. PICK x : x = Min({a, b})
    OBVIOUS
  <1>4. x \in {a, b} /\ \A y \in {a, b} : x <= y
    BY <1>2, <1>3 DEF Min
  <1>5. x <= z /\ z <= x /\ x \in Int /\ z \in Int
    BY <1>2, <1>4
  <1>6. QED
    BY <1>1, <1>3, <1>5

(* u64::MAX is a number.                                                   *)
LEMMA U64MaxType == U64Max \in Nat
  <1>1. Base4 \in Nat /\ Base4 > 0
    BY BaseType, CursorAssumption DEF Base4, Base2
  <1>2. Base4 * Base4 \in Nat /\ Base4 * Base4 > 0
    BY <1>1
  <1>3. QED
    BY <1>2 DEF U64Max

(* The block decides what is exact.                                        *)
LEMMA ExactStays ==
  ASSUME data' = data,
         NEW acc, NEW cur, NEW unc, NEW idx, NEW saw1, NEW txs, NEW sum
  PROVE  Exact(acc, cur, unc, idx, saw1, txs, sum)' <=> Exact(acc, cur, unc, idx, saw1, txs, sum)
  <1>1. ASSUME NEW bs
        PROVE  CoinbasesIn(bs)' = CoinbasesIn(bs)
    BY CoinbaseStays DEF CoinbasesIn
  <1>2. QED
    BY <1>1 DEF Exact

(* CountersAreExact says just that of the variables.                       *)
LEMMA ExactIs ==
  (accepted \in Seq(Seq(Deliveries)) /\ Current \in Seq(Deliveries)) =>
     \A unc \in BOOLEAN : (unc <=> Uncounted) =>
       (CountersAreExact <=>
          Exact(accepted, Current, unc, tx_idx, saw_first, coinbase_txs, total_value))
  <1> SUFFICES ASSUME accepted \in Seq(Seq(Deliveries)), Current \in Seq(Deliveries),
                      NEW unc \in BOOLEAN, unc <=> Uncounted
               PROVE  CountersAreExact <=>
                        Exact(accepted, Current, unc, tx_idx, saw_first, coinbase_txs,
                              total_value)
    OBVIOUS
  <1>1. PICK acc, cur, bs : acc = accepted /\ cur = Current /\ bs = BegunOf(acc, cur)
    OBVIOUS
  <1>2. Total(bs) = Total(acc) + TxSum(cur)
    BY <1>1, TotalOfBegun
  <1>3. CountersAreExact <=>
          /\ tx_idx + (IF unc THEN 1 ELSE 0) = Len(acc)
          /\ saw_first = (unc \/ cur # <<>>)
          /\ coinbase_txs = Cardinality(CoinbasesIn(bs))
          /\ total_value = Min({Total(bs), U64Max})
    BY <1>1 DEF CountersAreExact, BegunOf, Total, CoinbasesIn
  <1>4. QED
    BY <1>1, <1>2, <1>3 DEF Exact

-----------------------------------------------------------------------------
(* From the variables to what the lemmas speak of, and back.               *)

(* What the invariant of the iterator says of the deliveries.              *)
LEMMA ViewTypes ==
  IInv =>
    /\ accepted \in Seq(Seq(Deliveries)) /\ failed \in Seq(Deliveries)
    /\ pc # "idle" => log \in Seq(Deliveries)
    /\ Current \in Seq(Deliveries)
    /\ Len(accepted) = it.consumed /\ Len(accepted) \in Nat
  <1> SUFFICES ASSUME IInv
               PROVE  /\ accepted \in Seq(Seq(Deliveries)) /\ failed \in Seq(Deliveries)
                      /\ pc # "idle" => log \in Seq(Deliveries)
                      /\ Current \in Seq(Deliveries)
                      /\ Len(accepted) = it.consumed /\ Len(accepted) \in Nat
    OBVIOUS
  <1>1. /\ accepted \in Seq(Seq(Deliveries)) /\ failed \in Seq(Deliveries)
        /\ Len(accepted) = it.consumed
    BY DEF IInv, History
  <1>2. Len(accepted) \in Nat
    BY <1>1
  <1>3. pc # "idle" => log \in Seq(Deliveries)
    BY ParserFields DEF IInv
  <1>4. QED
    BY <1>1, <1>2, <1>3 DEF Current

(* What CountersAreExact says before a step.                               *)
LEMMA ExactBefore ==
  ASSUME IInv, CountersAreExact, NEW acc, NEW cur, NEW unc \in BOOLEAN,
         accepted = acc, Current = cur, unc <=> Uncounted
  PROVE  Exact(acc, cur, unc, tx_idx, saw_first, coinbase_txs, total_value)
  BY ViewTypes, ExactIs

(* The same after a step; ExactView names what ExactIs says, so that it    *)
(* can be primed.                                                          *)
ExactView ==
  (accepted \in Seq(Seq(Deliveries)) /\ Current \in Seq(Deliveries)) =>
     \A unc \in BOOLEAN : (unc <=> Uncounted) =>
       (CountersAreExact <=>
          Exact(accepted, Current, unc, tx_idx, saw_first, coinbase_txs, total_value))

(* It holds after any step as well.                                        *)
LEMMA ExactViewNext == ExactView'
  <1>1. ExactView
    BY ExactIs DEF ExactView
  <1>2. QED
    BY <1>1, PTL

(* So does what the iterator says of the deliveries.                       *)
LEMMA ViewTypesNext ==
  (IInv =>
    /\ accepted \in Seq(Seq(Deliveries)) /\ failed \in Seq(Deliveries)
    /\ pc # "idle" => log \in Seq(Deliveries)
    /\ Current \in Seq(Deliveries)
    /\ Len(accepted) = it.consumed /\ Len(accepted) \in Nat)'
  BY ViewTypes, PTL

(* What is to show for CountersAreExact to hold after a step.              *)
LEMMA ExactAfter ==
  ASSUME IInv', data' = data, NEW acc, NEW cur, NEW unc \in BOOLEAN,
         accepted' = acc, Current' = cur, unc <=> Uncounted',
         Exact(acc, cur, unc, tx_idx', saw_first', coinbase_txs', total_value')
  PROVE  CountersAreExact'
  <1>1. accepted' \in Seq(Seq(Deliveries))' /\ Current' \in Seq(Deliveries)'
    BY ViewTypesNext
  <1>2. ExactView' <=>
          ((accepted' \in Seq(Seq(Deliveries))' /\ Current' \in Seq(Deliveries)') =>
             \A u \in BOOLEAN : (u <=> Uncounted') =>
               (CountersAreExact' <=>
                  Exact(accepted, Current, u, tx_idx, saw_first, coinbase_txs, total_value)'))
    BY DEF ExactView
  <1>3. CountersAreExact' <=>
          Exact(accepted, Current, unc, tx_idx, saw_first, coinbase_txs, total_value)'
    BY <1>1, <1>2, ExactViewNext
  <1>4. PICK i, s, c, t : /\ i = tx_idx' /\ s = saw_first' /\ c = coinbase_txs'
                          /\ t = total_value'
    OBVIOUS
  <1>5. Exact(acc, cur, unc, i, s, c, t)'
    BY <1>4, ExactStays
  <1>6. Exact(accepted, Current, unc, tx_idx, saw_first, coinbase_txs, total_value)'
    BY <1>4, <1>5
  <1>7. QED
    BY <1>3, <1>6

(* What is to show for PrintsAsAsked to hold after a step.                 *)
LEMMA TextAfter ==
  ASSUME data' = data, args' = args, NEW acc, NEW cur, accepted' = acc, Current' = cur,
         stage' = "reading" => printed' = Text(Append(acc, cur))
  PROVE  PrintsAsAsked'
  <1>1. PrintsAsAsked' <=> (stage' = "reading" => printed' = Text(Append(accepted, Current))')
    BY DEF PrintsAsAsked, Text
  <1>2. Text(Append(acc, cur))' = Text(Append(acc, cur))
    BY LinesStay
  <1>3. QED
    BY <1>1, <1>2

(* What PrintsAsAsked says before a step.                                  *)
LEMMA TextBefore ==
  ASSUME PrintsAsAsked, stage = "reading", NEW acc, NEW cur, accepted = acc, Current = cur
  PROVE  printed = Text(Append(acc, cur))
  BY DEF PrintsAsAsked, Text

-----------------------------------------------------------------------------
(* What happens to the counters.                                           *)

(* Nothing has been delivered.                                             *)
LEMMA ExactAtFirst ==
  (/\ accepted = <<>> /\ Current = <<>> /\ ~ Uncounted
   /\ tx_idx = 0 /\ saw_first = FALSE /\ coinbase_txs = 0 /\ total_value = 0) =>
     CountersAreExact
  <1> SUFFICES ASSUME accepted = <<>>, Current = <<>>, ~ Uncounted, tx_idx = 0,
                      saw_first = FALSE, coinbase_txs = 0, total_value = 0
               PROVE  CountersAreExact
    OBVIOUS
  <1>1. PICK e : e = <<>> /\ e \in Seq(Seq(Deliveries)) /\ e \in Seq(Deliveries) /\ Len(e) = 0
    BY NoneOf
  <1>2. BegunOf(e, e) = e
    BY <1>1, BegunIs
  <1>3. CoinbasesIn(e) = {}
    BY <1>1 DEF CoinbasesIn
  <1>4. Cardinality(CoinbasesIn(BegunOf(e, e))) = 0
    BY <1>2, <1>3, FS_EmptySet
  <1>5. Total(e) = 0 /\ TxSum(e) = 0
    BY <1>1, NothingAdded
  <1>6. Min({0, U64Max}) = 0
    <2>1. U64Max \in Nat
      BY U64MaxType
    <2>2. QED
      BY <2>1, LesserIs
  <1>7. PICK unc \in BOOLEAN : unc = FALSE
    OBVIOUS
  <1>8. 0 + (IF unc THEN 1 ELSE 0) = Len(e)
    BY <1>1, <1>7
  <1>9. FALSE = (unc \/ e # <<>>)
    BY <1>1, <1>7
  <1>10. Total(e) + TxSum(e) = 0
    BY <1>5
  <1>11. Exact(e, e, unc, 0, FALSE, 0, 0)
    BY <1>4, <1>6, <1>8, <1>9, <1>10 DEF Exact
  <1>12. QED
    BY <1>1, <1>7, <1>11, ExactIs

-----------------------------------------------------------------------------
(* What main reads is a buffer as the iterator expects one.                *)

(* A part of a sequence.                                                   *)
LEMMA PartOf ==
  ASSUME NEW S, NEW s \in Seq(S), NEW lo \in Nat, NEW hi \in Int, hi <= Len(s)
  PROVE  SubSeq(s, lo + 1, hi) \in Seq(S) /\ Len(SubSeq(s, lo + 1, hi)) <= Len(s)
  OBVIOUS

(* A set of naturals that is not empty has a least element.                *)
LEMMA HasMin ==
  ASSUME NEW S \in SUBSET Nat, S # {}
  PROVE  Min(S) \in S
  <1>1. PICK R : R = {p \in Nat \X Nat : p[1] < p[2]} /\ IsWellFoundedOn(R, Nat)
    BY NatLessThanWellFounded DEF OpToRel
  <1>2. PICK x \in S : \A y \in S : <<y, x>> \notin R
    BY <1>1, WFMin
  <1>3. \A y \in S : ~ (y < x)
    BY <1>1, <1>2
  <1>4. \A y \in S : x <= y
    BY <1>3
  <1>5. QED
    BY <1>2, <1>4 DEF Min

(* A read from the file, as BlkFile has it.                                *)
IsRead(M, L, p, n, r) ==
  r.ok /\ r = Dat(M)!ReadBytes([lo |-> 0, len |-> L, pos |-> p], n)

WasRead(L, p, n, r) ==
  /\ r.cur = [lo |-> 0, len |-> L, pos |-> p + n] /\ p + n <= L
  /\ r.val = [lo |-> p, hi |-> p + n]

(* A read that succeeds moves over the bytes it returns.                   *)
LEMMA FileRead ==
  ASSUME NEW L \in Nat, NEW M, NEW p \in Nat, NEW n \in Int, NEW r, IsRead(M, L, p, n, r)
  PROVE  WasRead(L, p, n, r)
  <1>1. UsizeMax \in Nat
    BY CursorAssumption
  <1>2. QED
    BY <1>1 DEF IsRead, WasRead, Dat!ReadBytes, Dat!CheckedAdd, Dat!None, Dat!Fail, Dat!Ok, Dat!Result,
                Dat!MoveTo, Dat!Slice

(* The size that stands before a block is a number.                        *)
LEMMA FileSize ==
  ASSUME NEW L \in Nat, L = Len(file), file \in Seq(Byte), NEW M,
         NEW r, r = Dat(M)!Size([lo |-> 0, len |-> L, pos |-> 4]), r.ok
  PROVE  r.cur = [lo |-> 0, len |-> L, pos |-> 8] /\ r.val \in Int /\ 8 <= L
  <1>0. PICK b : b = Dat(M)!ReadBytes([lo |-> 0, len |-> L, pos |-> 4], 4)
    OBVIOUS
  <1>1. PICK u : u = IF b.ok THEN Dat(M)!Ok(b.cur, Dat(M)!U32(b.val.lo), b.got) ELSE b
    OBVIOUS
  <1>2. PICK n : n = IF u.ok THEN Dat(M)!Ok(u.cur, u.val % (UsizeMax + 1), u.got) ELSE u
    OBVIOUS
  <1>3. r = Dat(M)!Capped(n, MaxBlockBytes)
    BY <1>0, <1>1, <1>2 DEF Dat!Size, Dat!AsUsize, Dat!ReadU32, Dat!ReadInt
  <1>4. n.ok /\ r = n
    BY <1>3 DEF Dat!Capped, Dat!Fail, Dat!Result
  <1>5. /\ u.ok /\ n.cur = u.cur /\ n.val = u.val % (UsizeMax + 1)
        /\ b.ok /\ u.cur = b.cur /\ u.val = Dat(M)!U32(b.val.lo)
    BY <1>1, <1>2, <1>4 DEF Dat!Ok, Dat!Result
  <1>6. b.cur = [lo |-> 0, len |-> L, pos |-> 8] /\ b.val.lo = 4 /\ 8 <= L
    <2>1. b.cur = [lo |-> 0, len |-> L, pos |-> 4 + 4] /\ 4 + 4 <= L /\ b.val.lo = 4
      <3>1. IsRead(M, L, 4, 4, b)
        BY <1>0, <1>5 DEF IsRead
      <3>2. 4 \in Nat /\ 4 \in Int
        OBVIOUS
      <3>3. WasRead(L, 4, 4, b)
        BY <3>1, <3>2, FileRead
      <3>4. QED
        BY <3>3 DEF WasRead
    <2>2. 4 + 4 = 8
      OBVIOUS
    <2>3. QED
      BY <2>1, <2>2
  <1>7. Dat(M)!U32(4) \in Int
    <2>2. \A i \in 5 .. 8 : file[i] \in Int
      BY <1>6, CursorAssumption DEF Byte
    <2>3. PICK x, y, z, w : x = file[5] /\ y = file[6] /\ z = file[7] /\ w = file[8]
      OBVIOUS
    <2>4. x \in Int /\ y \in Int /\ z \in Int /\ w \in Int
      BY <2>2, <2>3
    <2>5. Base \in Int /\ Base * Base \in Int
      BY CursorAssumption
    <2>6. PICK B2 : B2 = Base * Base
      OBVIOUS
    <2>7. PICK lo, hi : lo = x + Base * y /\ hi = z + Base * w
      OBVIOUS
    <2>8. Dat(M)!U16(4) = lo /\ Dat(M)!U16(6) = hi
      BY <2>3, <2>7 DEF Dat!U16, Dat!At
    <2>9. lo \in Int /\ hi \in Int /\ B2 * hi \in Int
      BY <2>4, <2>5, <2>6, <2>7
    <2>10. Dat(M)!U32(4) = lo + B2 * hi
      BY <2>6, <2>8 DEF Dat!U32, Dat!Base2
    <2>11. QED
      BY <2>9, <2>10
  <1>8. \A v \in Int : v % (UsizeMax + 1) \in Int
    BY CursorAssumption
  <1>9. QED
    BY <1>4, <1>5, <1>6, <1>7, <1>8

(* The bytes of an entry that next_block finds lie in the file.            *)
LEMMA EntryInFile ==
  ASSUME NEW L \in Nat, L = Len(file), file \in Seq(Byte),
         NEW M, Len(M) = 4,
         NEW r, r = Dat(M)!NextBlock(CursorNew(Slice(0, L))), r.ok, r.val.kind = "block"
  PROVE  r.val.bytes.lo \in Nat /\ r.val.bytes.hi \in Int /\ r.val.bytes.hi <= L
  <1>1. PICK c : c = CursorNew(Slice(0, L)) /\ c = [lo |-> 0, len |-> L, pos |-> 0]
    BY DEF CursorNew, Slice
  <1>2. r = Dat(M)!Entry(c)
    BY <1>1 DEF Dat!NextBlock, Dat!Ok, Dat!Result, Dat!NoBlock
  <1>3. PICK magic : magic = Dat(M)!ReadBytes([lo |-> 0, len |-> L, pos |-> 0], 4)
    OBVIOUS
  <1>4. PICK m : m = IF Dat(M)!BytesOf(magic.val) = M
                     THEN Dat(M)!Ok(magic.cur, magic.val, {})
                     ELSE Dat(M)!Fail(magic.cur, Dat(M)!MagicMismatch(magic.val), {})
    OBVIOUS
  <1>5. PICK known : known = IF magic.ok THEN Dat(M)!After(magic, m) ELSE magic
    OBVIOUS
  <1>6. Dat(M)!KnownMagic(c) = known
    BY <1>1, <1>3, <1>4, <1>5
    DEF Dat!KnownMagic, Dat!AndThen, Dat!ReadArray, Dat!MagicLen
  <1>7. PICK size : size = Dat(M)!Size(known.cur)
    OBVIOUS
  <1>8. PICK block : block = Dat(M)!ReadBytes(size.cur, size.val)
    OBVIOUS
  <1>9. PICK b : b = IF block.ok
                     THEN Dat(M)!After(block, Dat(M)!Ok(block.cur, Dat(M)!SomeBlock(block.val), {}))
                     ELSE block
    OBVIOUS
  <1>10. PICK s : s = IF size.ok THEN Dat(M)!After(size, b) ELSE size
    OBVIOUS
  <1>11. r = IF known.ok THEN Dat(M)!After(known, s) ELSE known
    BY <1>2, <1>6, <1>7, <1>8, <1>9, <1>10 DEF Dat!Entry, Dat!AndThen
  <1>12. /\ known.ok /\ size.ok /\ block.ok
         /\ r.val = [kind |-> "block", bytes |-> block.val]
    <2>1. known.ok /\ s.ok /\ r.val = s.val
      BY <1>11 DEF Dat!After, Dat!Result
    <2>2. size.ok /\ b.ok /\ s.val = b.val
      BY <1>10, <2>1 DEF Dat!After, Dat!Result
    <2>3. block.ok /\ b.val = [kind |-> "block", bytes |-> block.val]
      BY <1>9, <2>2 DEF Dat!After, Dat!Result, Dat!Ok, Dat!SomeBlock
    <2>4. QED
      BY <2>1, <2>2, <2>3
  <1>13. known.cur = [lo |-> 0, len |-> L, pos |-> 4]
    <2>1. magic.ok /\ known.cur = magic.cur
      BY <1>4, <1>5, <1>12 DEF Dat!After, Dat!Result, Dat!Ok, Dat!Fail
    <2>2. magic.cur = [lo |-> 0, len |-> L, pos |-> 0 + 4] /\ 0 + 4 = 4
      <3>1. IsRead(M, L, 0, 4, magic)
        BY <1>3, <2>1 DEF IsRead
      <3>2. 0 \in Nat /\ 4 \in Int
        OBVIOUS
      <3>3. WasRead(L, 0, 4, magic)
        BY <3>1, <3>2, FileRead
      <3>4. QED
        BY <3>3 DEF WasRead
    <2>3. QED
      BY <2>1, <2>2
  <1>14. size.cur = [lo |-> 0, len |-> L, pos |-> 8] /\ size.val \in Int
    BY <1>7, <1>12, <1>13, FileSize
  <1>15. PICK n : n = size.val
    OBVIOUS
  <1>16. /\ n \in Int /\ block.ok
         /\ block = Dat(M)!ReadBytes([lo |-> 0, len |-> L, pos |-> 8], n)
    BY <1>8, <1>12, <1>14, <1>15
  <1>17. block.val = [lo |-> 8, hi |-> 8 + n] /\ 8 + n <= L
    <2>1. IsRead(M, L, 8, n, block)
      BY <1>16 DEF IsRead
    <2>2. 8 \in Nat
      OBVIOUS
    <2>3. WasRead(L, 8, n, block)
      BY <1>16, <2>1, <2>2, FileRead
    <2>4. QED
      BY <2>3 DEF WasRead
  <1>18. r.val.bytes.lo = 8 /\ r.val.bytes.hi = 8 + n
    BY <1>12, <1>17
  <1>19. QED
    BY <1>16, <1>17, <1>18

(* So what is taken out of a file, or the file itself, is a buffer.        *)
Buffer(bytes) == bytes \in Seq(Byte) /\ Len(bytes) <= UsizeMax

(* The block that main makes an iterator for is a buffer that Rust can     *)
(* hold.                                                                   *)
LEMMA UnwrappedIsBuffer ==
  ASSUME file \in Inputs
  PROVE  Buffer(Unwrapped) /\ Buffer(Synthetic)
  <1>1. Buffer(file) /\ Buffer(Synthetic)
    BY BlockAssumption, ParseBlockAssumption DEF Buffer
  <1>2. PICK L \in Nat : L = Len(file) /\ L <= UsizeMax /\ file \in Seq(Byte)
    BY <1>1 DEF Buffer
  <1> DEFINE answers == [k \in 1 .. Len(Magics) |->
                           Dat(Magics[k])!NextBlock(CursorNew(Slice(0, Len(file))))]
             stops   == {k \in 1 .. Len(Magics) :
                           ~ answers[k].ok \/ answers[k].val.kind = "block"}
             m       == Min(stops)
  <1>3. Unwrapped = IF stops # {} /\ answers[m].ok THEN BlockBytes(answers[m]) ELSE file
    BY DEF Unwrapped
  <1>4. SUFFICES ASSUME stops # {}, answers[m].ok
                 PROVE  Buffer(BlockBytes(answers[m]))
    BY <1>1, <1>3
  <1>5. m \in stops
    <2>1. stops \in SUBSET Nat
      OBVIOUS
    <2>2. QED
      BY <1>4, <2>1, HasMin
  <1>6. PICK r, M : r = answers[m] /\ M = Magics[m]
    OBVIOUS
  <1>7. /\ r = Dat(M)!NextBlock(CursorNew(Slice(0, L))) /\ r.ok /\ r.val.kind = "block"
        /\ Len(M) = 4
    BY <1>2, <1>4, <1>5, <1>6, ParseBlockAssumption
  <1>8. r.val.bytes.lo \in Nat /\ r.val.bytes.hi \in Int /\ r.val.bytes.hi <= L
    BY <1>2, <1>7, EntryInFile
  <1>9. PICK lo, hi : lo = r.val.bytes.lo /\ hi = r.val.bytes.hi
    OBVIOUS
  <1>10. /\ SubSeq(file, lo + 1, hi) \in Seq(Byte)
         /\ Len(SubSeq(file, lo + 1, hi)) <= L
    BY <1>2, <1>8, <1>9, PartOf
  <1>11. Len(SubSeq(file, lo + 1, hi)) \in Nat /\ UsizeMax \in Nat
    BY <1>10, CursorAssumption
  <1>12. BlockBytes(answers[m]) = SubSeq(file, lo + 1, hi)
    BY <1>6, <1>9 DEF BlockBytes
  <1> HIDE DEF m, answers
  <1>13. PICK bytes : bytes = SubSeq(file, lo + 1, hi)
    OBVIOUS
  <1>14. bytes \in Seq(Byte) /\ Len(bytes) <= L /\ Len(bytes) \in Nat
    BY <1>10, <1>11, <1>13
  <1>15. Buffer(bytes)
    BY <1>2, <1>11, <1>14 DEF Buffer
  <1>16. QED
    BY <1>12, <1>13, <1>15

-----------------------------------------------------------------------------
(* What a delivery and the end of a transaction do to the counters.        *)

(* Adding to a sum that is cut off at its limit.                           *)
LEMMA CutOff ==
  ASSUME NEW a \in Nat, NEW v \in Nat
  PROVE  /\ Min({a, U64Max}) \in Nat
         /\ Min({Min({a, U64Max}) + v, U64Max}) = Min({a + v, U64Max})
  <1>1. PICK u \in Nat : u = U64Max
    BY U64MaxType
  <1>2. PICK m : m = IF a <= u THEN a ELSE u
    OBVIOUS
  <1>3. m \in Nat /\ Min({a, u}) = m
    BY <1>1, <1>2, LesserIs
  <1>4. Min({m + v, u}) = IF m + v <= u THEN m + v ELSE u
    BY <1>1, <1>3, LesserIs
  <1>5. Min({a + v, u}) = IF a + v <= u THEN a + v ELSE u
    BY <1>1, LesserIs
  <1>6. (IF m + v <= u THEN m + v ELSE u) = (IF a + v <= u THEN a + v ELSE u)
    BY <1>1, <1>2
  <1>7. QED
    BY <1>1, <1>3, <1>4, <1>5, <1>6

(* The first delivery of the current transaction begins it.                *)
LEMMA CoinbasesDelivered ==
  ASSUME NEW acc \in Seq(Seq(Deliveries)), NEW cur \in Seq(Deliveries), NEW d \in Deliveries
  PROVE  /\ Cardinality(CoinbasesIn(BegunOf(acc, cur))) \in Nat
         /\ Cardinality(CoinbasesIn(BegunOf(acc, Append(cur, d)))) =
              Cardinality(CoinbasesIn(BegunOf(acc, cur)))
                + IF cur = <<>> /\ IsCoinbase(d.val) THEN 1 ELSE 0
  <1>0. PICK longer : longer = Append(cur, d)
    OBVIOUS
  <1>1. /\ longer = Append(cur, d) /\ longer \in Seq(Deliveries)
        /\ longer # <<>>
        /\ longer[1] = IF cur = <<>> THEN d ELSE cur[1]
    <2>1. longer \in Seq(Deliveries) /\ Len(longer) = Len(cur) + 1 /\ Len(cur) \in Nat
      BY <1>0
    <2>2. longer # <<>>
      BY <2>1
    <2>3. cur = <<>> => longer[1] = d
      BY <1>0
    <2>4. cur # <<>> => longer[1] = cur[1]
      BY <1>0
    <2>5. QED
      BY <1>0, <2>1, <2>2, <2>3, <2>4
  <1>2. BegunOf(acc, longer) = Append(acc, longer)
    BY <1>1, BegunIs
  <1>3. /\ Cardinality(CoinbasesIn(acc)) \in Nat
        /\ Cardinality(CoinbasesIn(Append(acc, longer))) =
             Cardinality(CoinbasesIn(acc)) + IF IsCoinbase(longer[1].val) THEN 1 ELSE 0
    BY <1>1, CoinbasesMore
  <1>4. CASE cur = <<>>
    <2>1. BegunOf(acc, cur) = acc
      BY <1>4, BegunIs
    <2>2. QED
      BY <1>1, <1>2, <1>3, <1>4, <2>1
  <1>5. CASE cur # <<>>
    <2>1. BegunOf(acc, cur) = Append(acc, cur)
      BY <1>5, BegunIs
    <2>2. Cardinality(CoinbasesIn(Append(acc, cur))) =
            Cardinality(CoinbasesIn(acc)) + IF IsCoinbase(cur[1].val) THEN 1 ELSE 0
      BY CoinbasesMore
    <2>3. Cardinality(CoinbasesIn(Append(acc, longer))) =
            Cardinality(CoinbasesIn(Append(acc, cur)))
      BY <1>1, <1>3, <1>5, <2>2
    <2>4. Cardinality(CoinbasesIn(Append(acc, cur))) \in Nat
      BY <1>3, <2>2
    <2>5. QED
      BY <1>1, <1>2, <1>5, <2>1, <2>3, <2>4
  <1>6. QED
    BY <1>4, <1>5

(* A delivery of the current transaction, and what it does to the counters *)
(* s, c and t.                                                             *)
Delivered(acc, cur, d, s, c, t, longer, c2, t2) ==
  /\ acc \in Seq(Seq(Deliveries)) /\ cur \in Seq(Deliveries) /\ d \in Deliveries
  /\ longer = Append(cur, d)
  /\ c2 = c + IF ~ s /\ IsCoinbase(d.val) THEN 1 ELSE 0
  /\ t2 = Min({t + ValueOf(d), U64Max})

(* One delivery more, and the counters are exact again.                    *)
LEMMA ExactDelivered ==
  ASSUME NEW acc, NEW cur, NEW d, NEW unc \in BOOLEAN, ~ unc,
         NEW i \in Nat, NEW s, NEW c, NEW t, Exact(acc, cur, unc, i, s, c, t),
         NEW longer, NEW c2, NEW t2, Delivered(acc, cur, d, s, c, t, longer, c2, t2)
  PROVE  i = Len(acc) /\ Exact(acc, longer, unc, i, TRUE, c2, t2)
  <1>0. /\ acc \in Seq(Seq(Deliveries)) /\ cur \in Seq(Deliveries) /\ d \in Deliveries
        /\ longer = Append(cur, d)
        /\ c2 = c + IF ~ s /\ IsCoinbase(d.val) THEN 1 ELSE 0
        /\ t2 = Min({t + ValueOf(d), U64Max})
    BY DEF Delivered
  <1>1. /\ i + (IF unc THEN 1 ELSE 0) = Len(acc)
        /\ s = (unc \/ cur # <<>>)
        /\ c = Cardinality(CoinbasesIn(BegunOf(acc, cur)))
        /\ t = Min({Total(acc) + TxSum(cur), U64Max})
    BY DEF Exact
  <1>2. PICK a : a = Total(acc) + TxSum(cur)
    OBVIOUS
  <1>3. a \in Nat /\ Total(acc) \in Nat /\ TxSum(cur) \in Nat /\ ValueOf(d) \in Nat
    BY <1>0, <1>2, TotalOfBegun, ValueType
  <1>4. TxSum(longer) = TxSum(cur) + ValueOf(d)
    BY <1>0, TxSumMore
  <1>5. Total(acc) + TxSum(longer) = a + ValueOf(d)
    BY <1>2, <1>3, <1>4
  <1>6. Min({t + ValueOf(d), U64Max}) = Min({a + ValueOf(d), U64Max})
    BY <1>1, <1>2, <1>3, CutOff
  <1>7. longer # <<>>
    BY <1>0
  <1>8. TRUE = (unc \/ longer # <<>>)
    BY <1>7
  <1>9. ~ s <=> cur = <<>>
    BY <1>1
  <1>10. c2 = Cardinality(CoinbasesIn(BegunOf(acc, longer)))
    <2>1. Cardinality(CoinbasesIn(BegunOf(acc, longer))) =
            c + IF cur = <<>> /\ IsCoinbase(d.val) THEN 1 ELSE 0
      BY <1>0, <1>1, CoinbasesDelivered
    <2>2. QED
      BY <1>0, <1>9, <2>1
  <1>11. t2 = Min({Total(acc) + TxSum(longer), U64Max})
    BY <1>0, <1>5, <1>6
  <1>12. Exact(acc, longer, unc, i, TRUE, c2, t2)
    BY <1>1, <1>8, <1>10, <1>11 DEF Exact
  <1>13. i = Len(acc)
    BY <1>0, <1>1
  <1>14. QED
    BY <1>12, <1>13

(* The current transaction is accepted, and then counted.                  *)
LEMMA ExactAccepted ==
  ASSUME NEW acc \in Seq(Seq(Deliveries)), NEW cur \in Seq(Deliveries), cur # <<>>,
         NEW no \in BOOLEAN, ~ no, NEW yes \in BOOLEAN, yes,
         NEW i \in Nat, NEW s, NEW c, NEW t, Exact(acc, cur, no, i, s, c, t)
  PROVE  Exact(Append(acc, cur), <<>>, yes, i, s, c, t)
  <1>1. /\ i + (IF no THEN 1 ELSE 0) = Len(acc)
        /\ s = (no \/ cur # <<>>)
        /\ c = Cardinality(CoinbasesIn(BegunOf(acc, cur)))
        /\ t = Min({Total(acc) + TxSum(cur), U64Max})
    BY DEF Exact
  <1>2. PICK e : e = <<>> /\ e \in Seq(Deliveries)
    BY NoneOf
  <1>0. PICK as : as = Append(acc, cur)
    OBVIOUS
  <1>3. /\ as = Append(acc, cur) /\ as \in Seq(Seq(Deliveries))
        /\ Len(as) = Len(acc) + 1 /\ Len(acc) \in Nat
    BY <1>0
  <1>4. BegunOf(acc, cur) = as /\ BegunOf(as, e) = as
    BY <1>2, <1>3, BegunIs
  <1>5. Total(as) + TxSum(e) = Total(acc) + TxSum(cur)
    <2>1. Total(as) = Total(acc) + TxSum(cur)
      BY <1>3, TotalMore
    <2>2. TxSum(e) = 0
      BY <1>2, NothingAdded
    <2>3. Total(acc) \in Nat /\ TxSum(cur) \in Nat
      BY TotalOfBegun
    <2>4. QED
      BY <2>1, <2>2, <2>3
  <1>6. i + (IF yes THEN 1 ELSE 0) = Len(as)
    <2>1. i = Len(acc)
      BY <1>1
    <2>2. QED
      BY <1>3, <2>1
  <1>7. s = (yes \/ e # <<>>)
    BY <1>1
  <1>8. Exact(as, e, yes, i, s, c, t)
    BY <1>1, <1>4, <1>5, <1>6, <1>7 DEF Exact
  <1>9. QED
    BY <1>2, <1>3, <1>8

(* The loop counts it and forgets its first input.                         *)
LEMMA ExactCounted ==
  ASSUME NEW acc \in Seq(Seq(Deliveries)),
         NEW no \in BOOLEAN, ~ no, NEW yes \in BOOLEAN, yes,
         NEW i \in Nat, NEW s, NEW c, NEW t, Exact(acc, <<>>, yes, i, s, c, t)
  PROVE  Exact(acc, <<>>, no, i + 1, FALSE, c, t)
  <1>1. PICK e : e = <<>>
    OBVIOUS
  <1>2. /\ i + (IF yes THEN 1 ELSE 0) = Len(acc)
        /\ c = Cardinality(CoinbasesIn(BegunOf(acc, e)))
        /\ t = Min({Total(acc) + TxSum(e), U64Max})
    BY <1>1 DEF Exact
  <1>3. i + 1 + (IF no THEN 1 ELSE 0) = Len(acc)
    BY <1>2
  <1>4. FALSE = (no \/ e # <<>>)
    BY <1>1
  <1>5. Exact(acc, e, no, i + 1, FALSE, c, t)
    BY <1>2, <1>3, <1>4 DEF Exact
  <1>6. QED
    BY <1>1, <1>5

-----------------------------------------------------------------------------
(* The inductive invariant of main.                                        *)

(* Which calls main makes where, and what it has before and after them.    *)
Standing ==
  /\ file \in Inputs /\ tx_idx \in Nat
  /\ stage \in {"start", "new", "reading", "exit"}
  /\ call \in {"unborn", "ready", "next_tx", "gone"}
  /\ stage = "start" => Fresh
  /\ stage \in {"start", "new"} =>
       /\ call = "unborn" /\ pc = "idle" /\ accepted = <<>> /\ failed = <<>>
       /\ result = Nothing
       /\ tx_idx = 0 /\ coinbase_txs = 0 /\ saw_first = FALSE /\ total_value = 0
       /\ printed = <<>>
  /\ stage # "exit" => exit = NotYet
  /\ stage = "reading" => call # "unborn"
  /\ call = "next_tx" => stage = "reading" /\ result = Nothing
  /\ result.method # "none" /\ ~ result.ok => result.err # NoError
  /\ failed # <<>> => call = "ready" /\ result.method = "next_tx" /\ ~ result.ok

MainInv == IInv /\ Standing /\ CountersAreExact /\ PrintsAsAsked /\ OkMeansWholeBlock

(* Before main returns nothing is promised of what it returns.             *)
LEMMA StillRunning ==
  ASSUME Standing', stage' # "exit"
  PROVE  OkMeansWholeBlock'
  <1>1. exit' = NotYet
    BY DEF Standing
  <1>2. NotYet # NoError
    <2>1. NotYet.kind # NoError.kind
      BY DEF NotYet, NoError
    <2>2. QED
      BY <2>1
  <1>3. QED
    BY <1>1, <1>2 DEF OkMeansWholeBlock

(* A step in which nothing is delivered, accepted or counted.              *)
LEMMA QuietKeeps ==
  ASSUME IInv, CountersAreExact, PrintsAsAsked, IInv',
         data' = data, args' = args, accepted' = accepted, Current' = Current,
         Uncounted' <=> Uncounted,
         tx_idx' = tx_idx, saw_first' = saw_first, coinbase_txs' = coinbase_txs,
         total_value' = total_value,
         stage' = "reading" => stage = "reading" /\ printed' = printed
  PROVE  CountersAreExact' /\ PrintsAsAsked'
  <1>1. PICK acc, cur : acc = accepted /\ cur = Current
    OBVIOUS
  <1>2. PICK unc \in BOOLEAN : unc <=> Uncounted
    OBVIOUS
  <1>3. Exact(acc, cur, unc, tx_idx, saw_first, coinbase_txs, total_value)
    BY <1>1, <1>2, ExactBefore
  <1>4. accepted' = acc /\ Current' = cur /\ (unc <=> Uncounted')
    BY <1>1, <1>2
  <1>5. Exact(acc, cur, unc, tx_idx', saw_first', coinbase_txs', total_value')
    BY <1>3
  <1>6. CountersAreExact'
    BY <1>4, <1>5, ExactAfter
  <1>7. stage' = "reading" => printed' = Text(Append(acc, cur))
    BY <1>1, TextBefore
  <1>8. PrintsAsAsked'
    BY <1>4, <1>7, TextAfter
  <1>9. QED
    BY <1>6, <1>8

(* The iterator and its history are left alone.                            *)
LEMMA IdleKeeps ==
  ASSUME MainInv, UNCHANGED vars, args' = args,
         tx_idx' = tx_idx, saw_first' = saw_first, coinbase_txs' = coinbase_txs,
         total_value' = total_value,
         stage' = "reading" => stage = "reading" /\ printed' = printed
  PROVE  IInv' /\ CountersAreExact' /\ PrintsAsAsked'
  <1>1. IInv'
    BY StutterKeeps DEF MainInv
  <1>2. /\ data' = data /\ accepted' = accepted /\ Current' = Current
        /\ Uncounted' <=> Uncounted
    BY DEF vars, parseVars, iterVars, Current, Uncounted
  <1>3. QED
    BY <1>1, <1>2, QuietKeeps DEF MainInv

-----------------------------------------------------------------------------
(* The steps around the loop.                                              *)

(* main prints how it is used.                                             *)
LEMMA UsageKeeps ==
  ASSUME MainInv, Usage
  PROVE  MainInv'
  <1>1. /\ UNCHANGED vars /\ UNCHANGED <<file, args, counters>>
        /\ stage = "start" /\ stage' = "exit" /\ exit' = NoError
    BY DEF Usage, Exit
  <1>2. IInv' /\ CountersAreExact' /\ PrintsAsAsked'
    BY <1>1, IdleKeeps DEF counters
  <1>3. call' = "unborn" /\ result' = Nothing /\ failed' = <<>>
    BY <1>1 DEF MainInv, Standing, vars, iterVars
  <1>4. Standing'
    BY <1>1, <1>3 DEF MainInv, Standing, Nothing, counters
  <1>5. OkMeansWholeBlock'
    BY <1>3 DEF OkMeansWholeBlock
  <1>6. QED
    BY <1>2, <1>4, <1>5 DEF MainInv

(* The file cannot be read.                                                *)
LEMMA CannotReadKeeps ==
  ASSUME MainInv, CannotRead
  PROVE  MainInv'
  <1>1. /\ UNCHANGED vars /\ UNCHANGED <<file, args, counters>>
        /\ stage = "start" /\ stage' = "exit" /\ exit' = Io
    BY DEF CannotRead, HasOpts, Exit
  <1>2. IInv' /\ CountersAreExact' /\ PrintsAsAsked'
    BY <1>1, IdleKeeps DEF counters
  <1>3. call' = "unborn" /\ result' = Nothing /\ failed' = <<>>
    BY <1>1 DEF MainInv, Standing, vars, iterVars
  <1>4. Standing'
    BY <1>1, <1>3 DEF MainInv, Standing, Nothing, counters
  <1>5. OkMeansWholeBlock'
    BY <1>3 DEF OkMeansWholeBlock
  <1>6. QED
    BY <1>2, <1>4, <1>5 DEF MainInv

(* next_tx or new has failed, and so does main.                            *)
LEMMA AbandonKeeps ==
  ASSUME MainInv, Abandon
  PROVE  MainInv'
  <1>1. /\ UNCHANGED vars /\ UNCHANGED <<file, args, counters>>
        /\ stage = "reading" /\ stage' = "exit" /\ exit' = result.err
        /\ result.method # "none" /\ ~ result.ok /\ call \in {"ready", "gone"}
    BY DEF Abandon, Exit
  <1>2. IInv' /\ CountersAreExact' /\ PrintsAsAsked'
    BY <1>1, IdleKeeps DEF counters
  <1>3. call' = call /\ result' = result /\ failed' = failed
    BY <1>1 DEF vars, iterVars
  <1>4. Standing'
    BY <1>1, <1>3 DEF MainInv, Standing, counters
  <1>5. exit' # NoError
    BY <1>1 DEF MainInv, Standing
  <1>6. OkMeansWholeBlock'
    BY <1>5 DEF OkMeansWholeBlock
  <1>7. QED
    BY <1>2, <1>4, <1>6 DEF MainInv

(* main has returned, or a step is taken elsewhere.                        *)
LEMMA MainStutterKeeps ==
  ASSUME MainInv, UNCHANGED allVars
  PROVE  MainInv'
  <1>1. /\ UNCHANGED vars /\ file' = file /\ args' = args /\ stage' = stage /\ exit' = exit
        /\ tx_idx' = tx_idx /\ saw_first' = saw_first /\ coinbase_txs' = coinbase_txs
        /\ total_value' = total_value /\ printed' = printed
    BY DEF allVars, mainVars, counters
  <1>2. IInv' /\ CountersAreExact' /\ PrintsAsAsked'
    BY <1>1, IdleKeeps
  <1>3. /\ data' = data /\ call' = call /\ result' = result /\ failed' = failed
        /\ accepted' = accepted /\ it' = it
    BY <1>1 DEF vars, iterVars
  <1>4. Standing'
    <2>1. Fresh => Fresh'
      BY <1>1 DEF Fresh, vars, parseVars, iterVars, CursorNew, AllData, Slice
    <2>2. pc' = pc
      BY <1>1 DEF vars, parseVars
    <2>3. QED
      BY <1>1, <1>3, <2>1, <2>2 DEF MainInv, Standing
  <1>5. OkMeansWholeBlock'
    <2>1. \A k : CoinbaseAt(k)' <=> CoinbaseAt(k)
      BY <1>3, CoinbaseStays
    <2>2. {k \in 1 .. it.total : CoinbaseAt(k)}' = {k \in 1 .. it.total : CoinbaseAt(k)}
      BY <1>3, <2>1
    <2>3. Here' = Here
      BY <1>3, RestStays
    <2>4. Cardinality({k \in 1 .. it.total : CoinbaseAt(k)})' =
            Cardinality({k \in 1 .. it.total : CoinbaseAt(k)})
      BY <2>2
    <2>5. QED
      BY <1>1, <1>3, <2>3, <2>4 DEF MainInv, OkMeansWholeBlock
  <1>6. QED
    BY <1>2, <1>4, <1>5 DEF MainInv

(* The invariant of the iterator holds of any buffer it may be given.      *)
LEMMA FreshIsSoundNext == (DataOK /\ Fresh => IInv)'
  BY FreshIsSound, PTL

(* Nor has anything been counted yet, in whatever buffer.                  *)
LEMMA ExactAtFirstNext ==
  ((/\ accepted = <<>> /\ Current = <<>> /\ ~ Uncounted
    /\ tx_idx = 0 /\ saw_first = FALSE /\ coinbase_txs = 0 /\ total_value = 0) =>
     CountersAreExact)'
  BY ExactAtFirst, PTL

(* The block is in memory.                                                 *)
LEMMA ReadKeeps ==
  ASSUME MainInv, stage = "start", NEW bytes, Buffer(bytes), Read(bytes)
  PROVE  MainInv'
  <1>1. /\ data' = bytes /\ parser' = CursorNew(AllData)' /\ stage' = "new"
        /\ it' = [it EXCEPT !.cur = CursorNew(AllData)']
        /\ pc' = pc /\ head' = head /\ outs' = outs /\ done' = done /\ witness' = witness
        /\ ret' = ret /\ log' = log /\ call' = call /\ coinbases' = coinbases
        /\ saw' = saw /\ result' = result /\ accepted' = accepted /\ failed' = failed
        /\ file' = file /\ args' = args /\ exit' = exit
        /\ tx_idx' = tx_idx /\ saw_first' = saw_first /\ coinbase_txs' = coinbase_txs
        /\ total_value' = total_value /\ printed' = printed
    BY DEF Read, counters
  <1>2. Standing /\ Fresh
    BY DEF MainInv, Standing
  <1>3. Fresh'
    <2>1. it' = [cur |-> CursorNew(AllData)', total |-> 0, consumed |-> 0]
      BY <1>1, <1>2 DEF Fresh
    <2>2. QED
      BY <1>1, <1>2, <2>1 DEF Fresh, NoHead, NoWitness, NoResult, NoValue, NoError, Nothing
  <1>4. DataOK'
    BY <1>1 DEF Buffer, DataOK
  <1>5. IInv'
    BY <1>3, <1>4, FreshIsSoundNext
  <1>6. Standing'
    BY <1>1, <1>2 DEF Standing
  <1>7. CountersAreExact'
    <2>1. /\ accepted' = <<>> /\ Current' = <<>> /\ ~ Uncounted'
          /\ tx_idx' = 0 /\ saw_first' = FALSE /\ coinbase_txs' = 0 /\ total_value' = 0
      BY <1>1, <1>2 DEF Standing, Current, Uncounted
    <2>2. QED
      BY <2>1, ExactAtFirstNext
  <1>8. PrintsAsAsked'
    BY <1>1 DEF PrintsAsAsked
  <1>9. OkMeansWholeBlock'
    BY <1>1, <1>6, StillRunning
  <1>10. QED
    BY <1>5, <1>6, <1>7, <1>8, <1>9 DEF MainInv

(* The iterator is made, or new fails.                                     *)
LEMMA MakeIterKeeps ==
  ASSUME MainInv, MakeIter
  PROVE  MainInv'
  <1>1. /\ New /\ stage = "new" /\ stage' = "reading"
        /\ file' = file /\ args' = args /\ exit' = exit
        /\ tx_idx' = tx_idx /\ saw_first' = saw_first /\ coinbase_txs' = coinbase_txs
        /\ total_value' = total_value /\ printed' = printed
    BY DEF MakeIter, counters
  <1>2. IInv /\ Standing /\ CountersAreExact
    BY DEF MainInv
  <1>3. IInv'
    BY <1>1, <1>2, NewKeeps
  <1>4. /\ data' = data /\ pc' = "idle" /\ accepted' = <<>> /\ failed' = <<>>
        /\ accepted = <<>> /\ failed = <<>> /\ pc = "idle" /\ printed = <<>>
        /\ exit = NotYet
    BY <1>1, <1>2 DEF New, Standing, parseVars
  <1>5. /\ call' \in {"ready", "gone"} /\ result'.method = "new"
        /\ ~ result'.ok => result'.err # NoError
    <2>1. \A v, e : Reply("new", v, e).method = "new"
      BY DEF Reply
    <2>2. \A v, e : ~ Reply("new", v, e).ok => Reply("new", v, e).err # NoError
      BY DEF Reply
    <2>3. call' \in {"ready", "gone"} /\ \E v, e : result' = Reply("new", v, e)
      BY <1>1 DEF New
    <2>4. QED
      BY <2>1, <2>2, <2>3
  <1>6. Standing'
    BY <1>1, <1>2, <1>4, <1>5 DEF Standing
  <1>7. CountersAreExact'
    <2>1. /\ Current' = <<>> /\ ~ Uncounted'
      BY <1>4, <1>5 DEF Current, Uncounted
    <2>2. QED
      BY <1>1, <1>2, <1>4, <2>1, ExactAtFirstNext DEF Standing
  <1>8. PrintsAsAsked'
    <2>1. PICK e : e = <<>> /\ e \in Seq(Seq(Deliveries)) /\ e \in Seq(Deliveries) /\ Len(e) = 0
      BY NoneOf
    <2>2. Text(Append(e, e)) = <<>>
      <3>1. Text(Append(e, e)) = Text(e) \o LinesOf(Len(e), e)
        BY <2>1, TextMore
      <3>2. Text(e) = <<>> /\ LinesOf(Len(e), e) = <<>>
        BY <2>1, NoText, NoLines
      <3>3. <<>> \o <<>> = <<>>
        OBVIOUS
      <3>4. QED
        BY <3>1, <3>2, <3>3
    <2>3. Current' = e
      BY <1>4, <2>1 DEF Current
    <2>4. QED
      BY <1>1, <1>4, <2>1, <2>2, <2>3, TextAfter
  <1>9. OkMeansWholeBlock'
    BY <1>1, <1>6, StillRunning
  <1>10. QED
    BY <1>3, <1>6, <1>7, <1>8, <1>9 DEF MainInv

-----------------------------------------------------------------------------
(* The steps of the loop.                                                  *)

(* Inside next_tx main has nothing to do but to answer.                    *)
LEMMA InsideStands ==
  ASSUME Position, Standing, call \in Methods \/ pc # "idle"
  PROVE  call = "next_tx" /\ stage = "reading" /\ result = Nothing /\ failed = <<>> /\ ~ Uncounted
  <1>1. call = "next_tx"
    BY DEF Position, Standing, Methods
  <1>2. QED
    BY <1>1 DEF Standing, Uncounted

(* What next_tx returns has no error to hide.                              *)
LEMMA ReplyStands ==
  ASSUME NEW v, NEW e, call = "next_tx", Finish(v, e)
  PROVE  /\ call' = "ready" /\ result'.method = "next_tx" /\ result'.val = v
         /\ result'.err = e /\ (result'.ok <=> e = NoError)
  BY DEF Finish, Reply

(* The loop counts the transaction accepted, if any, and asks for the next.*)
LEMMA NextTxKeeps ==
  ASSUME MainInv, NextTx
  PROVE  MainInv'
  <1>1. /\ Call /\ call' = "next_tx" /\ call = "ready" /\ stage = "reading"
        /\ file' = file /\ args' = args /\ stage' = stage /\ exit' = exit
        /\ coinbase_txs' = coinbase_txs /\ total_value' = total_value /\ printed' = printed
        /\ \/ /\ result.method = "new" /\ tx_idx' = tx_idx /\ saw_first' = saw_first
           \/ /\ result.method = "next_tx" /\ result.ok /\ result.val.more
              /\ tx_idx' = tx_idx + 1 /\ saw_first' = FALSE
    BY DEF NextTx, TxDone
  <1>2. IInv /\ Standing /\ CountersAreExact /\ PrintsAsAsked
    BY DEF MainInv
  <1>3. IInv'
    BY <1>1, <1>2, CallKeeps
  <1>4. /\ data' = data /\ pc' = pc /\ log' = log /\ accepted' = accepted /\ failed' = failed
        /\ result' = Nothing
    BY <1>1 DEF Call, parseVars
  <1>5. failed = <<>>
    BY <1>1, <1>2 DEF Standing
  <1>6. pc = "idle" /\ Current = <<>> /\ Current' = <<>>
    BY <1>1, <1>2, <1>4, <1>5 DEF IInv, Position, Methods, Current
  <1>7. ~ Uncounted'
    BY <1>1 DEF Uncounted
  <1>8. Standing'
    <2>1. tx_idx' \in Nat
      BY <1>1, <1>2 DEF Standing
    <2>2. Nothing.method = "none"
      BY DEF Nothing
    <2>3. QED
      BY <1>1, <1>2, <1>4, <1>5, <2>1, <2>2 DEF Standing
  <1>9. CountersAreExact' /\ PrintsAsAsked'
    <2>1. CASE result.method = "new"
      <3>1. ~ Uncounted
        BY <2>1 DEF Uncounted
      <3>2. tx_idx' = tx_idx /\ saw_first' = saw_first
        BY <1>1, <2>1
      <3>3. QED
        BY <1>1, <1>2, <1>3, <1>4, <1>6, <1>7, <3>1, <3>2, QuietKeeps
    <2>2. CASE result.method # "new"
      <3>1. Uncounted /\ tx_idx' = tx_idx + 1 /\ saw_first' = FALSE
        BY <1>1, <2>2 DEF Uncounted
      <3>2. PICK acc, cur : acc = accepted /\ cur = Current
        OBVIOUS
      <3>3. PICK yes \in BOOLEAN, no \in BOOLEAN : yes /\ ~ no
        OBVIOUS
      <3>4. Exact(acc, cur, yes, tx_idx, saw_first, coinbase_txs, total_value)
        BY <1>2, <3>1, <3>2, <3>3, ExactBefore
      <3>5. acc \in Seq(Seq(Deliveries)) /\ cur = <<>>
        BY <1>2, <1>6, <3>2, ViewTypes
      <3>6. tx_idx \in Nat
        BY <1>2 DEF Standing
      <3>7. Exact(acc, cur, no, tx_idx', saw_first', coinbase_txs', total_value')
        <4>1. PICK i, s, c, t : /\ i = tx_idx /\ s = saw_first /\ c = coinbase_txs
                                /\ t = total_value
          OBVIOUS
        <4>2. Exact(acc, <<>>, no, i + 1, FALSE, c, t)
          BY <3>3, <3>4, <3>5, <3>6, <4>1, ExactCounted
        <4>3. QED
          BY <1>1, <3>1, <3>5, <4>1, <4>2
      <3>8. accepted' = acc /\ Current' = cur
        BY <1>4, <1>6, <3>2
      <3>9. CountersAreExact'
        BY <1>3, <1>4, <1>7, <3>3, <3>7, <3>8, ExactAfter
      <3>10. printed' = Text(Append(acc, cur))
        BY <1>1, <1>2, <3>2, TextBefore
      <3>11. QED
        BY <1>1, <1>4, <3>8, <3>9, <3>10, TextAfter
    <2>3. QED
      BY <2>1, <2>2
  <1>10. OkMeansWholeBlock'
    BY <1>1, <1>8, StillRunning
  <1>11. QED
    BY <1>3, <1>8, <1>9, <1>10 DEF MainInv

(* The steps inside next_tx in which nothing is accepted.                  *)
LEMMA InsideNextTxKeepsQuietly ==
  ASSUME MainInv, UNCHANGED mainVars, BeginTx \/ NoMoreTx \/ TxFailed \/ Step
  PROVE  MainInv'
  <1>1. /\ file' = file /\ args' = args /\ stage' = stage /\ exit' = exit
        /\ tx_idx' = tx_idx /\ saw_first' = saw_first /\ coinbase_txs' = coinbase_txs
        /\ total_value' = total_value /\ printed' = printed
    BY DEF mainVars, counters
  <1>2. IInv /\ Standing /\ CountersAreExact /\ PrintsAsAsked /\ Position
    BY DEF MainInv, IInv
  <1>3. IInv'
    BY <1>2, BeginTxKeeps, NoMoreTxKeeps, TxFailedKeeps, StepKeeps
  <1>4. call \in Methods \/ pc # "idle"
    BY DEF BeginTx, NoMoreTx, TxFailed, Step, ParseAlone, ParseHead, BadInput,
           ParseOutputCount, BadOutput, EndOutputs, ParseWitnessCount, ParseWitnessItem,
           EndWitness, ParseLocktime
  <1>5. call = "next_tx" /\ stage = "reading" /\ result = Nothing /\ failed = <<>> /\ ~ Uncounted
    BY <1>2, <1>4, InsideStands
  <1>6. /\ data' = data /\ accepted' = accepted /\ Current' = Current /\ ~ Uncounted'
        /\ Standing'
    <2>1. CASE BeginTx
      <3>1. /\ data' = data /\ accepted' = accepted /\ call' = call /\ result' = result
            /\ failed' = failed /\ pc' = "head" /\ log' = <<>> /\ pc = "idle"
        BY <2>1 DEF BeginTx, Begin
      <3>2. Current' = Current /\ ~ Uncounted'
        BY <1>5, <3>1 DEF Current, Uncounted
      <3>3. Standing'
        BY <1>1, <1>2, <1>5, <3>1 DEF Standing
      <3>4. QED
        BY <3>1, <3>2, <3>3
    <2>2. CASE NoMoreTx
      <3>1. /\ data' = data /\ accepted' = accepted /\ Finish(More(FALSE), NoError)
            /\ failed' = failed /\ pc' = pc /\ log' = log
        BY <1>5, <2>2 DEF NoMoreTx, parseVars
      <3>2. /\ call' = "ready" /\ result'.method = "next_tx" /\ result'.ok
            /\ result'.val = More(FALSE)
        BY <1>5, <3>1, ReplyStands
      <3>3. Current' = Current /\ ~ Uncounted'
        BY <3>1, <3>2 DEF Current, Uncounted, More
      <3>4. Standing'
        BY <1>1, <1>2, <1>5, <3>1, <3>2 DEF Standing
      <3>5. QED
        BY <3>1, <3>3, <3>4
    <2>3. CASE TxFailed
      <3>1. /\ data' = data /\ accepted' = accepted /\ Finish(NoValue, ret.err)
            /\ failed' = log /\ pc = "returned" /\ pc' = "idle" /\ ~ ret.ok
        BY <2>3 DEF TxFailed
      <3>2. ret.err # NoError
        BY <1>2, <3>1 DEF Position, Answered, Explained
      <3>3. /\ call' = "ready" /\ result'.method = "next_tx" /\ ~ result'.ok
            /\ result'.err # NoError
        BY <1>5, <3>1, <3>2, ReplyStands
      <3>4. Current' = Current /\ ~ Uncounted'
        BY <3>1, <3>3 DEF Current, Uncounted
      <3>5. Standing'
        BY <1>1, <1>2, <1>5, <3>3 DEF Standing
      <3>6. QED
        BY <3>1, <3>4, <3>5
    <2>4. CASE Step
      <3>1. /\ data' = data /\ accepted' = accepted /\ call' = call /\ result' = result
            /\ failed' = failed /\ ParseAlone
        BY <2>4 DEF Step, iterVars
      <3>2. log' = log /\ pc # "idle" /\ pc' # "idle"
        BY <3>1 DEF ParseAlone, ParseHead, BadInput,
             ParseOutputCount, BadOutput, EndOutputs, ParseWitnessCount, ParseWitnessItem,
             EndWitness, ParseLocktime, Abort, Return
      <3>3. Current' = Current /\ ~ Uncounted'
        BY <1>5, <3>1, <3>2 DEF Current, Uncounted
      <3>4. Standing'
        BY <1>1, <1>2, <1>5, <3>1 DEF Standing
      <3>5. QED
        BY <3>1, <3>3, <3>4
    <2>5. QED
      BY <2>1, <2>2, <2>3, <2>4
  <1>7. CountersAreExact' /\ PrintsAsAsked'
    BY <1>1, <1>2, <1>3, <1>5, <1>6, QuietKeeps
  <1>8. OkMeansWholeBlock'
    BY <1>1, <1>5, <1>6, StillRunning
  <1>9. QED
    BY <1>3, <1>6, <1>7, <1>8 DEF MainInv

(* A transaction is accepted; the loop will count it.                      *)
LEMMA TxParsedInMain ==
  ASSUME MainInv, UNCHANGED mainVars, TxParsed
  PROVE  MainInv'
  <1>1. /\ file' = file /\ args' = args /\ stage' = stage /\ exit' = exit
        /\ tx_idx' = tx_idx /\ saw_first' = saw_first /\ coinbase_txs' = coinbase_txs
        /\ total_value' = total_value /\ printed' = printed
    BY DEF mainVars, counters
  <1>2. IInv /\ Standing /\ CountersAreExact /\ PrintsAsAsked /\ Position
    BY DEF MainInv, IInv
  <1>3. IInv'
    BY <1>2, TxParsedKeeps
  <1>4. pc = "returned" /\ ret.ok /\ pc' = "idle" /\ data' = data
    BY DEF TxParsed
  <1>5. call = "next_tx" /\ stage = "reading" /\ result = Nothing /\ failed = <<>> /\ ~ Uncounted
    BY <1>2, <1>4, InsideStands
  <1>6. /\ log \in Seq(Deliveries) /\ log # <<>>
        /\ Skip(it.cur, parser.pos).ok
    <2>1. ParsesFrom(Rest) /\ log \in Seq(Deliveries) /\ parser.pos \in Nat
      BY <1>2, <1>4, ParserFields
    <2>2. log # <<>>
      <3>1. head.inputs \in Nat /\ outs \in Nat /\ head.inputs > 0
            /\ Len(log) = head.inputs + outs
        BY <1>4, <2>1, LimitTypes DEF ParsesFrom, Counting, Logging
      <3>2. Len(log) > 0
        BY <3>1
      <3>3. QED
        BY <3>2
    <2>3. ParserSeesTheRest
      BY <1>2, RestIsSeen
    <2>4. QED
      BY <1>4, <2>1, <2>2, <2>3 DEF ParserSeesTheRest
  <1>7. /\ accepted' = Append(accepted, log) /\ failed' = <<>>
        /\ Finish(More(TRUE), NoError)
    BY <1>5, <1>6 DEF TxParsed
  <1>8. /\ call' = "ready" /\ result'.method = "next_tx" /\ result'.ok
        /\ result'.val = More(TRUE)
    BY <1>5, <1>7, ReplyStands
  <1>9. Current = log /\ Current' = <<>> /\ Uncounted'
    BY <1>4, <1>7, <1>8 DEF Current, Uncounted, More
  <1>10. Standing'
    BY <1>1, <1>2, <1>5, <1>7, <1>8 DEF Standing
  <1>11. PICK acc, cur : acc = accepted /\ cur = Current
    OBVIOUS
  <1>12. PICK yes \in BOOLEAN, no \in BOOLEAN : yes /\ ~ no
    OBVIOUS
  <1>13. acc \in Seq(Seq(Deliveries)) /\ cur \in Seq(Deliveries) /\ cur # <<>>
    BY <1>2, <1>6, <1>9, <1>11, ViewTypes
  <1>14. PICK longer, e : longer = Append(acc, cur) /\ e = <<>>
    OBVIOUS
  <1>15. accepted' = longer /\ Current' = e
    BY <1>7, <1>9, <1>11, <1>14
  <1>16. CountersAreExact'
    <2>1. PICK i, s, c, t : i = tx_idx /\ s = saw_first /\ c = coinbase_txs /\ t = total_value
      OBVIOUS
    <2>2. i \in Nat
      BY <1>2, <2>1 DEF Standing
    <2>3. Exact(acc, cur, no, i, s, c, t)
      BY <1>2, <1>5, <1>11, <1>12, <2>1, ExactBefore
    <2>4. Exact(longer, e, yes, i, s, c, t)
      BY <1>12, <1>13, <1>14, <2>2, <2>3, ExactAccepted
    <2>5. Exact(longer, e, yes, tx_idx', saw_first', coinbase_txs', total_value')
      BY <1>1, <2>1, <2>4
    <2>6. QED
      BY <1>3, <1>4, <1>9, <1>12, <1>15, <2>5, ExactAfter
  <1>17. PrintsAsAsked'
    <2>1. printed = Text(Append(acc, cur))
      BY <1>2, <1>5, <1>11, TextBefore
    <2>2. Text(Append(longer, e)) = Text(longer)
      <3>1. longer \in Seq(Seq(Deliveries))
        BY <1>13, <1>14
      <3>2. QED
        BY <1>14, <3>1, TextOfNext
    <2>3. printed' = Text(Append(longer, e))
      BY <1>1, <1>14, <2>1, <2>2
    <2>4. QED
      BY <1>1, <1>4, <1>15, <2>3, TextAfter
  <1>18. OkMeansWholeBlock'
    BY <1>1, <1>5, <1>10, StillRunning
  <1>19. QED
    BY <1>3, <1>10, <1>16, <1>17, <1>18 DEF MainInv

(* The last of a longer sequence is one of its elements.                   *)
LEMMA LastIsOne ==
  ASSUME NEW S, NEW s \in Seq(S), NEW d, Append(s, d) \in Seq(S)
  PROVE  d \in S
  <1>1. PICK t : t = Append(s, d)
    OBVIOUS
  <1>2. t \in Seq(S) /\ Len(t) = Len(s) + 1 /\ Len(s) \in Nat /\ t[Len(s) + 1] = d
    BY <1>1
  <1>3. Len(s) + 1 \in 1 .. Len(t)
    BY <1>2
  <1>4. QED
    BY <1>2, <1>3

(* To print one line is to append it.                                      *)
LEMMA OneMoreLine ==
  ASSUME NEW S, NEW s \in Seq(S)
  PROVE  \A l : Append(s, l) = s \o <<l>>
  OBVIOUS

(* What is printed are lines.                                              *)
LEMMA PrintedType ==
  ASSUME IInv, PrintsAsAsked, stage = "reading"
  PROVE  printed \in Seq(Printable)
  <1>1. PICK acc, cur : acc = accepted /\ cur = Current
    OBVIOUS
  <1>2. acc \in Seq(Seq(Deliveries)) /\ cur \in Seq(Deliveries)
    BY <1>1, ViewTypes
  <1>3. PICK bs : bs = Append(acc, cur)
    OBVIOUS
  <1>4. bs \in Seq(Seq(Deliveries))
    BY <1>2, <1>3
  <1>5. PICK e : e = <<>> /\ e \in Seq(Deliveries)
    BY NoneOf
  <1>6. Text(bs) \in Seq(Printable)
    BY <1>4, <1>5, TextMore
  <1>7. QED
    BY <1>1, <1>3, <1>6, TextBefore

-----------------------------------------------------------------------------
(* The closures.                                                           *)

(* What a delivery leaves to show of the counters and of the lines.        *)
LEMMA DeliveredKeeps ==
  ASSUME IInv, IInv', CountersAreExact, PrintsAsAsked, stage = "reading", ~ Uncounted,
         ~ Uncounted', data' = data, args' = args, accepted' = accepted, tx_idx \in Nat,
         NEW d \in Deliveries, Current' = Append(Current, d),
         tx_idx' = tx_idx, saw_first' = TRUE,
         coinbase_txs' = coinbase_txs + (IF ~ saw_first /\ IsCoinbase(d.val) THEN 1 ELSE 0),
         total_value' = Min({total_value + ValueOf(d), U64Max}),
         printed' = printed \o NewLines(tx_idx, Current, d)
  PROVE  CountersAreExact' /\ PrintsAsAsked'
  <1>1. PICK acc, cur : acc = accepted /\ cur = Current
    OBVIOUS
  <1>2. PICK no \in BOOLEAN : ~ no
    OBVIOUS
  <1>3. acc \in Seq(Seq(Deliveries)) /\ cur \in Seq(Deliveries)
    BY <1>1, ViewTypes
  <1>4. PICK i, s, c, t : i = tx_idx /\ s = saw_first /\ c = coinbase_txs /\ t = total_value
    OBVIOUS
  <1>5. i \in Nat /\ Exact(acc, cur, no, i, s, c, t)
    BY <1>1, <1>2, <1>4, ExactBefore
  <1>6. PICK longer : longer = Append(cur, d)
    OBVIOUS
  <1>7. i = Len(acc) /\ Exact(acc, longer, no, i, TRUE, coinbase_txs', total_value')
    <2>1. PICK c2, t2 : c2 = coinbase_txs' /\ t2 = total_value'
      OBVIOUS
    <2>2. c2 = c + (IF ~ s /\ IsCoinbase(d.val) THEN 1 ELSE 0)
      BY <1>4, <2>1
    <2>3. t2 = Min({t + ValueOf(d), U64Max})
      BY <1>4, <2>1
    <2>4. Delivered(acc, cur, d, s, c, t, longer, c2, t2)
      BY <1>3, <1>6, <2>2, <2>3 DEF Delivered
    <2>5. i = Len(acc) /\ Exact(acc, longer, no, i, TRUE, c2, t2)
      BY <1>2, <1>5, <2>4, ExactDelivered
    <2>6. QED
      BY <2>1, <2>5
  <1>8. accepted' = acc /\ Current' = longer
    BY <1>1, <1>6
  <1>9. CountersAreExact'
    <2>1. tx_idx' = i /\ saw_first' = TRUE
      BY <1>4
    <2>2. Exact(acc, longer, no, tx_idx', saw_first', coinbase_txs', total_value')
      BY <1>7, <2>1
    <2>3. QED
      BY <1>2, <1>8, <2>2, ExactAfter
  <1>10. PrintsAsAsked'
    <2>1. printed = Text(Append(acc, cur))
      BY <1>1, TextBefore
    <2>2. Text(Append(acc, longer)) = Text(Append(acc, cur)) \o NewLines(Len(acc), cur, d)
      BY <1>3, <1>6, TextLonger
    <2>3. printed' = Text(Append(acc, longer))
      BY <1>1, <1>4, <1>7, <2>1, <2>2
    <2>4. QED
      BY <1>8, <2>3, TextAfter
  <1>11. QED
    BY <1>9, <1>10

(* Whether to print, as the code asks and as the flags mean it.            *)
LEMMA ShouldPrintIsAsked ==
  ASSUME NEW k
  PROVE  ShouldPrint(k) <=> Asked(k)
  BY DEF ShouldPrint, Asked

(* The sum stays within u64 if nothing is added.                           *)
LEMMA NothingToAdd ==
  ASSUME IInv, CountersAreExact
  PROVE  total_value = Min({total_value + 0, U64Max}) /\ coinbase_txs \in Nat
  <1>1. PICK acc, cur : acc = accepted /\ cur = Current
    OBVIOUS
  <1>2. PICK unc \in BOOLEAN : unc <=> Uncounted
    OBVIOUS
  <1>3. Exact(acc, cur, unc, tx_idx, saw_first, coinbase_txs, total_value)
    BY <1>1, <1>2, ExactBefore
  <1>4. acc \in Seq(Seq(Deliveries)) /\ cur \in Seq(Deliveries)
    BY <1>1, ViewTypes
  <1>5. PICK a, t : a = Total(acc) + TxSum(cur) /\ t = total_value
    OBVIOUS
  <1>6. t = Min({a, U64Max}) /\ a \in Nat
    BY <1>3, <1>4, <1>5, TotalOfBegun DEF Exact
  <1>7. t \in Nat /\ Min({t + 0, U64Max}) = Min({a + 0, U64Max}) /\ a + 0 = a
    BY <1>6, CutOff
  <1>8. coinbase_txs \in Nat
    <2>1. BegunOf(acc, cur) \in Seq(Seq(Deliveries))
      <3>1. BegunOf(acc, cur) = acc \/ BegunOf(acc, cur) = Append(acc, cur)
        BY <1>4, BegunIs
      <3>2. Append(acc, cur) \in Seq(Seq(Deliveries))
        BY <1>4
      <3>3. QED
        BY <1>4, <3>1, <3>2
    <2>2. PICK e : e = <<>> /\ e \in Seq(Deliveries)
      BY NoneOf
    <2>3. Cardinality(CoinbasesIn(BegunOf(acc, cur))) \in Nat
      BY <2>1, <2>2, CoinbasesMore
    <2>4. QED
      BY <1>3, <2>3 DEF Exact
  <1>9. QED
    BY <1>5, <1>6, <1>7, <1>8

(* The closure for inputs looks at the first one of each transaction.      *)
LEMMA OnInputKeeps ==
  ASSUME MainInv, OnInput
  PROVE  MainInv'
  <1>1. /\ ParseInput(TRUE, NoError) /\ call = "next_tx" /\ pc = "inputs"
        /\ data' = data /\ it' = it /\ call' = call /\ coinbases' = coinbases /\ saw' = saw
        /\ result' = result /\ accepted' = accepted /\ failed' = failed
        /\ file' = file /\ args' = args /\ stage' = stage /\ exit' = exit
    BY DEF OnInput, ParseInput
  <1>2. IInv /\ Standing /\ CountersAreExact /\ PrintsAsAsked /\ Position
    BY DEF MainInv, IInv
  <1>3. IInv'
    <2>1. Input
      BY <1>1 DEF Input, Answers, iterVars
    <2>2. QED
      BY <1>2, <2>1, InputKeeps
  <1>4. /\ stage = "reading" /\ result = Nothing /\ failed = <<>> /\ ~ Uncounted
    BY <1>1, <1>2, InsideStands
  <1>5. PICK d : d = Delivery("input", parser, TxInput(parser))
    OBVIOUS
  <1>6. log' = Append(log, d) /\ pc' = "inputs"
    BY <1>1, <1>5 DEF ParseInput, HandOver
  <1>7. Current = log /\ Current' = Append(Current, d) /\ ~ Uncounted'
    BY <1>1, <1>4, <1>6 DEF Current, Uncounted
  <1>8. log \in Seq(Deliveries) /\ d \in Deliveries
    <2>1. log \in Seq(Deliveries) /\ log' \in Seq(Deliveries)
      BY <1>1, <1>2, <1>3, <1>6, ViewTypes, ViewTypesNext
    <2>2. PICK old, new : old = log /\ new = log'
      OBVIOUS
    <2>3. new \in Seq(Deliveries) /\ old \in Seq(Deliveries) /\ new = Append(old, d)
      BY <1>6, <2>1, <2>2
    <2>4. QED
      BY <2>1, <2>3, LastIsOne
  <1>9. d.kind = "input" /\ d.val = TxInput(parser).val
    BY <1>5 DEF Delivery
  <1>10. tx_idx \in Nat /\ (saw_first <=> log # <<>>) /\ saw_first \in BOOLEAN
    BY <1>2, <1>4, <1>7 DEF Standing, CountersAreExact
  <1>11. /\ tx_idx' = tx_idx /\ saw_first' = TRUE
         /\ coinbase_txs' = coinbase_txs + (IF ~ saw_first /\ IsCoinbase(d.val) THEN 1 ELSE 0)
         /\ total_value' = Min({total_value + ValueOf(d), U64Max})
         /\ printed' = printed \o NewLines(tx_idx, Current, d)
    <2>1. total_value = Min({total_value + ValueOf(d), U64Max}) /\ coinbase_txs \in Nat
      BY <1>2, <1>9, NothingToAdd DEF ValueOf
    <2>2. printed \in Seq(Printable)
      BY <1>2, <1>4, PrintedType
    <2>3. CASE saw_first
      <3>1. /\ tx_idx' = tx_idx /\ saw_first' = saw_first /\ coinbase_txs' = coinbase_txs
            /\ total_value' = total_value /\ printed' = printed
        BY <2>3 DEF OnInput, counters
      <3>2. NewLines(tx_idx, Current, d) = <<>>
        BY <1>7, <1>9, <1>10, <2>3 DEF NewLines
      <3>3. printed \o <<>> = printed
        BY <2>2
      <3>4. coinbase_txs' = coinbase_txs + (IF ~ saw_first /\ IsCoinbase(d.val) THEN 1 ELSE 0)
        BY <2>1, <2>3, <3>1
      <3>5. QED
        BY <1>10, <2>1, <2>3, <3>1, <3>2, <3>3, <3>4
    <2>4. CASE ~ saw_first
      <3>1. /\ tx_idx' = tx_idx /\ saw_first' = TRUE /\ total_value' = total_value
            /\ coinbase_txs' = coinbase_txs + (IF IsCoinbase(d.val) THEN 1 ELSE 0)
            /\ printed' = IF ShouldPrint(tx_idx)
                          THEN Append(printed, InputLine(tx_idx, IsCoinbase(d.val)))
                          ELSE printed
        BY <1>9, <2>4 DEF OnInput
      <3>2. NewLines(tx_idx, Current, d) =
              IF ShouldPrint(tx_idx) THEN <<InputLine(tx_idx, IsCoinbase(d.val))>> ELSE <<>>
        BY <1>7, <1>9, <1>10, <2>4, ShouldPrintIsAsked DEF NewLines
      <3>3. \A l : Append(printed, l) = printed \o <<l>>
        BY <2>2, OneMoreLine
      <3>4. printed \o <<>> = printed
        BY <2>2
      <3>5. printed' = printed \o NewLines(tx_idx, Current, d)
        BY <3>1, <3>2, <3>3, <3>4
      <3>6. QED
        BY <2>1, <2>4, <3>1, <3>5
    <2>5. QED
      BY <2>3, <2>4
  <1>12. CountersAreExact' /\ PrintsAsAsked'
    BY <1>1, <1>2, <1>3, <1>4, <1>7, <1>8, <1>10, <1>11, DeliveredKeeps
  <1>13. Standing'
    BY <1>1, <1>2, <1>4, <1>10, <1>11 DEF Standing
  <1>14. OkMeansWholeBlock'
    BY <1>1, <1>4, <1>13, StillRunning
  <1>15. QED
    BY <1>3, <1>12, <1>13, <1>14 DEF MainInv

(* Lines, and a line of another kind or none.                              *)
LEMMA LinesWider ==
  ASSUME NEW T, NEW p \in Seq(T), NEW m, NEW l
  PROVE  /\ p \in Seq(T \cup {m, l})
         /\ <<>> \in Seq(T \cup {m, l}) /\ <<m>> \in Seq(T \cup {m, l})
  OBVIOUS

(* The closure for outputs adds each to the sum.                           *)
LEMMA OnOutputKeeps ==
  ASSUME MainInv, OnOutput
  PROVE  MainInv'
  <1>1. /\ ParseOutput(NoError) /\ call = "next_tx" /\ pc = "outputs"
        /\ data' = data /\ it' = it /\ call' = call /\ coinbases' = coinbases /\ saw' = saw
        /\ result' = result /\ accepted' = accepted /\ failed' = failed
        /\ file' = file /\ args' = args /\ stage' = stage /\ exit' = exit
        /\ tx_idx' = tx_idx /\ coinbase_txs' = coinbase_txs /\ saw_first' = saw_first
    BY DEF OnOutput, ParseOutput
  <1>2. IInv /\ Standing /\ CountersAreExact /\ PrintsAsAsked /\ Position
    BY DEF MainInv, IInv
  <1>3. IInv'
    <2>1. Output
      BY <1>1 DEF Output, Answers, iterVars
    <2>2. QED
      BY <1>2, <2>1, OutputKeeps
  <1>4. stage = "reading" /\ result = Nothing /\ failed = <<>> /\ ~ Uncounted
    BY <1>1, <1>2, InsideStands
  <1>5. PICK d : d = Delivery("output", parser, TxOutput(parser))
    OBVIOUS
  <1>6. log' = Append(log, d) /\ pc' = "outputs"
    BY <1>1, <1>5 DEF ParseOutput, HandOver
  <1>7. Current = log /\ Current' = Append(Current, d) /\ ~ Uncounted'
    BY <1>1, <1>4, <1>6 DEF Current, Uncounted
  <1>8. log \in Seq(Deliveries) /\ d \in Deliveries
    <2>1. log \in Seq(Deliveries) /\ log' \in Seq(Deliveries)
      BY <1>1, <1>2, <1>3, <1>6, ViewTypes, ViewTypesNext
    <2>2. PICK old, new : old = log /\ new = log'
      OBVIOUS
    <2>3. new \in Seq(Deliveries) /\ old \in Seq(Deliveries) /\ new = Append(old, d)
      BY <1>6, <2>1, <2>2
    <2>4. QED
      BY <2>1, <2>3, LastIsOne
  <1>9. d.kind = "output" /\ d.val = TxOutput(parser).val
    BY <1>5 DEF Delivery
  <1>10. log # <<>>
    <2>1. ParsesFrom(Rest)
      BY <1>1, <1>2, ParserFields
    <2>2. head.inputs \in Nat /\ head.inputs > 0 /\ done \in Nat /\ Len(log) = head.inputs + done
      BY <1>1, <2>1, LimitTypes DEF ParsesFrom, Counting, Logging, CallPhases
    <2>3. Len(log) > 0
      BY <2>2
    <2>4. QED
      BY <2>3
  <1>11. tx_idx \in Nat /\ saw_first = TRUE
    BY <1>2, <1>4, <1>7, <1>10 DEF Standing, CountersAreExact
  <1>12. PICK o : o = TxOutput(parser).val
    OBVIOUS
  <1>13. total_value' = Min({total_value + ValueOf(d), U64Max})
    BY <1>9 DEF OnOutput, SaturatingAdd, ValueOf
  <1>14. printed' = printed \o NewLines(tx_idx, Current, d)
    <2>1. printed \in Seq(Printable)
      BY <1>2, <1>4, PrintedType
    <2>2. printed' = IF PrintsOutput(o)
                     THEN Append(printed, OutputLine(o, Classify(o.script).type)) ELSE printed
      BY <1>12 DEF OnOutput
    <2>3. PICK l : l = OutputLine(o, Classify(o.script).type)
      OBVIOUS
    <2>4. NewLines(tx_idx, Current, d) = IF PrintsOutput(o) THEN <<l>> ELSE <<>>
      <3>1. NewLines(tx_idx, Current, d) = IF Asked(tx_idx) THEN OutputLines(o) ELSE <<>>
        BY <1>9, <1>12 DEF NewLines
      <3>2. OutputLines(o) = IF \/ args.opts.no_outputs
                                \/ args.opts.no_opreturn /\ Classify(o.script).type = "OpReturn"
                             THEN <<>> ELSE <<l>>
        BY <2>3 DEF OutputLines
      <3>3. PrintsOutput(o) <=>
              /\ Asked(tx_idx)
              /\ ~ args.opts.no_outputs
              /\ ~ (args.opts.no_opreturn /\ Classify(o.script).type = "OpReturn")
        <4>1. Asked(tx_idx) => ~ args.opts.summary
          BY DEF Asked
        <4>2. QED
          BY <4>1, ShouldPrintIsAsked DEF PrintsOutput, ShouldPrintOutputs
      <3>4. QED
        BY <3>1, <3>2, <3>3
    <2>5. Append(printed, l) = printed \o <<l>> /\ printed \o <<>> = printed
      BY <2>1
    <2>6. QED
      BY <2>2, <2>3, <2>4, <2>5
  <1>15. coinbase_txs' = coinbase_txs + (IF ~ saw_first /\ IsCoinbase(d.val) THEN 1 ELSE 0)
    <2>1. coinbase_txs \in Nat
      BY <1>2, NothingToAdd
    <2>2. QED
      BY <1>1, <1>11, <2>1
  <1>16. CountersAreExact' /\ PrintsAsAsked'
    <2>1. saw_first' = TRUE
      BY <1>1, <1>11
    <2>2. QED
      BY <1>1, <1>2, <1>3, <1>4, <1>7, <1>8, <1>11, <1>13, <1>14, <1>15, <2>1, DeliveredKeeps
  <1>17. Standing'
    BY <1>1, <1>2, <1>4 DEF Standing
  <1>18. OkMeansWholeBlock'
    BY <1>1, <1>4, <1>17, StillRunning
  <1>19. QED
    BY <1>3, <1>16, <1>17, <1>18 DEF MainInv

-----------------------------------------------------------------------------
(* The end of main.                                                        *)

(* Between the calls, with no failure behind them, the transactions begun  *)
(* are those accepted.                                                     *)
LEMMA CountedBetween ==
  ASSUME IInv, CountersAreExact, pc = "idle", failed = <<>>
  PROVE  coinbase_txs = Cardinality({k \in 1 .. Len(accepted) : CoinbaseAt(k)})
  <1>1. PICK acc, cur : acc = accepted /\ cur = Current
    OBVIOUS
  <1>2. PICK unc \in BOOLEAN : unc <=> Uncounted
    OBVIOUS
  <1>3. Exact(acc, cur, unc, tx_idx, saw_first, coinbase_txs, total_value)
    BY <1>1, <1>2, ExactBefore
  <1>4. acc \in Seq(Seq(Deliveries)) /\ cur \in Seq(Deliveries) /\ cur = <<>>
    BY <1>1, ViewTypes DEF Current
  <1>5. BegunOf(acc, cur) = acc
    BY <1>4, BegunIs
  <1>6. coinbase_txs = Cardinality(CoinbasesIn(acc))
    BY <1>3, <1>5 DEF Exact
  <1>7. CoinbasesIn(acc) = {k \in 1 .. Len(accepted) : CoinbaseAt(k)}
    BY <1>1 DEF CoinbasesIn, CoinbaseAt
  <1>8. QED
    BY <1>6, <1>7

(* The last line printed is the last of all.                               *)
LEMMA LastLine ==
  ASSUME NEW S, NEW p \in Seq(S), NEW a \in Seq(S), NEW l, NEW new, new = p \o a \o <<l>>
  PROVE  new[Len(new)] = l
  <1>1. PICK s : s = p \o a
    OBVIOUS
  <1>2. s \in Seq(S) /\ Len(s) \in Nat
    BY <1>1
  <1>3. new = s \o <<l>>
    BY <1>1
  <1>4. Len(new) = Len(s) + 1 /\ new[Len(s) + 1] = l
    BY <1>2, <1>3
  <1>5. QED
    BY <1>4

(* main returns the verdict; Ok says that the block was read to its end.   *)
LEMMA ReportKeeps ==
  ASSUME MainInv, Report
  PROVE  MainInv'
  <1> DEFINE only   == args.opts.only_tx
             absent == IF only.some /\ only.val >= tx_idx
                       THEN <<Line("no such tx", only.val)>> ELSE <<>>
             sum    == IF Verdict = NoError THEN <<Line("total", total_value)>> ELSE <<>>
  <1>1. /\ UNCHANGED vars /\ file' = file /\ args' = args /\ tx_idx' = tx_idx
        /\ coinbase_txs' = coinbase_txs /\ saw_first' = saw_first
        /\ total_value' = total_value
        /\ stage = "reading" /\ stage' = "exit" /\ exit' = Verdict /\ call = "ready"
        /\ result.method = "next_tx" /\ result.ok /\ ~ result.val.more
        /\ printed' = printed \o absent \o sum
    BY DEF Report, Exit
  <1> HIDE DEF only
  <1>2. IInv /\ Standing /\ CountersAreExact /\ PrintsAsAsked /\ Position
    BY DEF MainInv, IInv
  <1>3. IInv' /\ CountersAreExact' /\ PrintsAsAsked'
    BY <1>1, IdleKeeps
  <1>4. /\ data' = data /\ call' = call /\ result' = result /\ failed' = failed
        /\ accepted' = accepted /\ it' = it
    BY <1>1 DEF vars, iterVars
  <1>5. failed = <<>> /\ pc = "idle"
    BY <1>1, <1>2 DEF Standing, Position, Methods
  <1>6. Standing'
    BY <1>1, <1>2, <1>4, <1>5 DEF Standing
  <1>7. OkMeansWholeBlock'
    <2> SUFFICES ASSUME Verdict = NoError
                 PROVE  OkMeansWholeBlock'
      BY <1>1 DEF OkMeansWholeBlock
    <2>1. FinishStrict = NoError /\ coinbase_txs = 1
      <3>1. \A n : InvalidCoinbaseCount(n) # NoError
        <4>1. \A n : InvalidCoinbaseCount(n).kind # NoError.kind
          BY DEF InvalidCoinbaseCount, NoError
        <4>2. QED
          BY <4>1
      <3>2. QED
        BY <3>1 DEF Verdict
    <2>2. it.consumed = it.total /\ Remaining(it.cur) = 0
      <3>1. \A n, m : IncompleteTransactions(n, m) # NoError
        <4>1. \A n, m : IncompleteTransactions(n, m).kind # NoError.kind
          BY DEF IncompleteTransactions, NoError
        <4>2. QED
          BY <4>1
      <3>2. \A n : TrailingBytes(n) # NoError
        <4>1. \A n : TrailingBytes(n).kind # NoError.kind
          BY DEF TrailingBytes, NoError
        <4>2. QED
          BY <4>1
      <3>3. QED
        BY <2>1, <3>1, <3>2 DEF FinishStrict
    <2>3. Len(accepted) = it.total
      BY <1>2, <2>2, ViewTypes
    <2>4. Here = Len(data)
      BY <1>2, <2>2, Fields
    <2>5. Cardinality({k \in 1 .. it.total : CoinbaseAt(k)}) = 1
      BY <1>2, <1>5, <2>1, <2>3, CountedBetween
    <2>6. printed'[Len(printed')] = Line("total", total_value)
      <3>1. printed \in Seq(Printable)
        BY <1>1, <1>2, PrintedType
      <3>2. PICK p, a, l, new : /\ p = printed /\ a = absent /\ l = Line("total", total_value)
                                /\ new = printed'
        OBVIOUS
      <3>3. PICK S : S = Printable \cup {Line("no such tx", only.val), l}
        OBVIOUS
      <3>4. p \in Seq(S) /\ a \in Seq(S)
        BY <3>1, <3>2, <3>3, LinesWider
      <3>5. new = p \o a \o <<l>>
        BY <1>1, <3>2
      <3>6. new[Len(new)] = l
        BY <3>4, <3>5, LastLine
      <3>7. QED
        BY <3>2, <3>6
    <2>7. /\ Len(accepted') = it'.total /\ Here' = Len(data')
          /\ printed'[Len(printed')] = Line("total", total_value')
      BY <1>1, <1>4, <2>3, <2>4, <2>6, RestStays
    <2>8. Cardinality({k \in 1 .. it.total : CoinbaseAt(k)})' = 1
      <3>1. \A k : CoinbaseAt(k)' <=> CoinbaseAt(k)
        BY <1>4, CoinbaseStays
      <3>2. {k \in 1 .. it.total : CoinbaseAt(k)}' = {k \in 1 .. it.total : CoinbaseAt(k)}
        BY <1>4, <3>1
      <3>3. QED
        BY <2>5, <3>2
    <2>9. QED
      BY <2>7, <2>8 DEF OkMeansWholeBlock, Line
  <1>8. QED
    BY <1>3, <1>6, <1>7 DEF MainInv

-----------------------------------------------------------------------------
(* The theorems about main.                                                *)

(* main begins with nothing read and nothing counted.                      *)
LEMMA MainBegins == MainInit => MainInv
  <1> SUFFICES ASSUME MainInit
               PROVE  MainInv
    OBVIOUS
  <1>1. DataOK /\ Fresh
    <2>1. Len(<<>>) = 0 /\ <<>> \in Seq(Byte)
      OBVIOUS
    <2>2. UsizeMax \in Nat
      BY CursorAssumption
    <2>3. QED
      BY <2>1, <2>2 DEF MainInit, DataOK
  <1>2. IInv
    BY <1>1, FreshIsSound
  <1>3. Standing
    BY <1>1 DEF MainInit, Standing, Fresh, Nothing
  <1>4. CountersAreExact
    <2>1. Current = <<>> /\ ~ Uncounted /\ accepted = <<>>
      BY <1>1 DEF Fresh, Current, Uncounted
    <2>2. QED
      BY <2>1, ExactAtFirst DEF MainInit
  <1>5. PrintsAsAsked /\ OkMeansWholeBlock
    <2>1. call = "unborn"
      BY <1>1 DEF Fresh
    <2>2. QED
      BY <2>1 DEF MainInit, PrintsAsAsked, OkMeansWholeBlock
  <1>6. QED
    BY <1>2, <1>3, <1>4, <1>5 DEF MainInv

(* Every step of main keeps the invariant.                                 *)
LEMMA MainKeeps ==
  ASSUME MainInv, [MainNext]_allVars
  PROVE  MainInv'
  <1>1. CASE Usage
    BY <1>1, UsageKeeps
  <1>2. CASE ReadFile \/ Synthesize
    <2>1. stage = "start" /\ file \in Inputs
      BY <1>2 DEF ReadFile, Synthesize, HasOpts, MainInv, Standing
    <2>2. Buffer(Unwrapped) /\ Buffer(Synthetic)
      BY <2>1, UnwrappedIsBuffer
    <2>3. \E bytes \in {Unwrapped, Synthetic} : Read(bytes)
      BY <1>2 DEF ReadFile, Synthesize
    <2>4. PICK bytes : Buffer(bytes) /\ Read(bytes)
      BY <2>2, <2>3
    <2>5. QED
      BY <2>1, <2>4, ReadKeeps
  <1>3. CASE CannotRead
    BY <1>3, CannotReadKeeps
  <1>4. CASE MakeIter
    BY <1>4, MakeIterKeeps
  <1>5. CASE NextTx
    BY <1>5, NextTxKeeps
  <1>6. CASE InsideNextTx
    BY <1>6, InsideNextTxKeepsQuietly, TxParsedInMain DEF InsideNextTx
  <1>7. CASE OnInput
    BY <1>7, OnInputKeeps
  <1>8. CASE OnOutput
    BY <1>8, OnOutputKeeps
  <1>9. CASE Abandon
    BY <1>9, AbandonKeeps
  <1>10. CASE Report
    BY <1>10, ReportKeeps
  <1>11. CASE MainOver \/ UNCHANGED allVars
    BY <1>11, MainStutterKeeps DEF MainOver
  <1>12. QED
    BY <1>1, <1>2, <1>3, <1>4, <1>5, <1>6, <1>7, <1>8, <1>9, <1>10, <1>11 DEF MainNext

(* The invariant of main holds in every state, for every file, block and   *)
(* command line.                                                           *)
THEOREM MainInvHolds == MainSpec => []MainInv
  BY MainBegins, MainKeeps, PTL DEF MainSpec

(* The index, the count of coinbases, the flag and the sum agree with what *)
(* next_tx has delivered and accepted, at every moment of every run: also  *)
(* when a transaction fails half-way, and for blocks of any length.        *)
THEOREM CountersExact == MainSpec => []CountersAreExact
  <1>1. MainInv => CountersAreExact
    BY DEF MainInv
  <1>2. QED
    BY <1>1, MainInvHolds, PTL

(* While it runs, main has printed exactly the lines that the flags ask for*)
(* of the transactions and outputs delivered so far, in their order.       *)
THEOREM PrintsAsked == MainSpec => []PrintsAsAsked
  <1>1. MainInv => PrintsAsAsked
    BY DEF MainInv
  <1>2. QED
    BY <1>1, MainInvHolds, PTL

(* main answers Ok for a block only when all its transactions were read up *)
(* to the last byte and exactly one of them is a coinbase.                 *)
THEOREM OkIsWholeBlock == MainSpec => []OkMeansWholeBlock
  <1>1. MainInv => OkMeansWholeBlock
    BY DEF MainInv
  <1>2. QED
    BY <1>1, MainInvHolds, PTL
=============================================================================
