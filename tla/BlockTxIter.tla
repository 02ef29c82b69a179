----------------------------- MODULE BlockTxIter -----------------------------
(***************************************************************************)
(* BlockTxIter of src/block.rs and a client that owns one: it calls        *)
(* next_tx, skip_remaining and finish_strict in any order and as often as  *)
(* it likes, also after an error, and may end with consume_all_strict,     *)
(* which takes the iterator by value.  Every transaction is parsed by the  *)
(* steps of parse_with, over a slice of what the iterator has not read.    *)
(***************************************************************************)
EXTENDS Transaction, FiniteSets

CONSTANTS
  MaxBlockTxn,   (* MAX_BLOCK_TXN                                          *)
  Inputs         (* the buffers a client may hold.                         *)

ASSUME BlockAssumption ==
  /\ MaxBlockTxn \in Nat
  /\ Inputs \subseteq {d \in Seq(Byte) : Len(d) <= UsizeMax}

VARIABLES
  it,        (* the iterator: its cursor, total and consumed.              *)
  call,      (* the method that runs; "unborn", "ready" or "gone" if none. *)
  coinbases, (* coinbase_txs of consume_all_strict,                        *)
  saw,       (* and saw_first_input of its round.                          *)
  result,    (* what the last method returned.                             *)
  accepted,  (* history: the deliveries of each transaction consumed.      *)
  failed     (* history: those of the last failed try at the next one.     *)

iterVars == <<it, call, coinbases, saw, result, accepted, failed>>

vars == <<data, parseVars, iterVars>>

Methods == {"next_tx", "skip_remaining", "consume_all_strict"}

UserError == [kind |-> "UserError"]

Answers == {NoError, UserError}

-----------------------------------------------------------------------------
(* Values.                                                                 *)

HeaderLen == 16 + 2 * HashLen

(* The second cursor, over the raw header, reads fields of fixed length    *)
(* which fill it: none of its reads can fail.                              *)
HeaderFields(raw) ==
  LET prev   == raw.lo + 4
      merkle == prev + HashLen
      time   == merkle + HashLen
  IN  [version |-> I32(raw.lo), prev_block |-> Slice(prev, merkle),
       merkle_root |-> Slice(merkle, time), timestamp |-> U32(time),
       bits |-> U32(time + 4), nonce |-> U32(time + 8), raw |-> raw]

BlockHeader(c) ==
  AndThen(ReadArray(c, HeaderLen), LAMBDA raw : Ok(raw.cur, HeaderFields(raw.val), {}))

(* Mutant: a block with as many transactions as allowed is refused.        *)
TxCountBelowLimit(c) == CountRead(ReadVarint(c), MaxBlockTxn - 1)

(* Mutant: the declared count is not compared with the limit.              *)
TxCountUnlimited(c) == ToUsize(ReadVarint(c))

TxCount(c) == CountRead(ReadVarint(c), MaxBlockTxn)

(* BlockTxIter::new *)
NewIter ==
  AndThen(BlockHeader(CursorNew(AllData)), LAMBDA header :
  AndThen(TxCount(header.cur), LAMBDA count :
    Ok(count.cur, [header |-> header.val, total |-> count.val], {})))

IncompleteTransactions(n, m) ==
  [kind |-> "IncompleteTransactions", expected |-> n, parsed |-> m]

TrailingBytes(n) == [kind |-> "TrailingBytes", remaining |-> n]

InvalidCoinbaseCount(n) == [kind |-> "InvalidCoinbaseCount", count |-> n]

(* Mutant: bytes after the last transaction are not noticed.               *)
FinishStrictIgnoresRest ==
  IF it.consumed # it.total THEN IncompleteTransactions(it.total, it.consumed) ELSE NoError

FinishStrict ==
  IF it.consumed # it.total THEN IncompleteTransactions(it.total, it.consumed)
  ELSE IF Remaining(it.cur) # 0 THEN TrailingBytes(Remaining(it.cur))
  ELSE NoError

(* The end of consume_all_strict: complete, then one coinbase.             *)
StrictVerdict ==
  IF FinishStrict # NoError THEN FinishStrict
  ELSE IF coinbases # 1 THEN InvalidCoinbaseCount(coinbases)
  ELSE NoError

Nothing == [method |-> "none", ok |-> FALSE, val |-> NoValue, err |-> NoError]

(* The answer of next_tx: whether there was a transaction.                 *)
More(b) == [more |-> b]

Reply(m, v, e) ==
  [method |-> m, ok |-> e = NoError, val |-> v, err |-> e]

-----------------------------------------------------------------------------

(* No iterator has been made and nothing parsed.                           *)
Fresh ==
  /\ parser = CursorNew(AllData)
  /\ pc = "idle"
  /\ head = NoHead
  /\ outs = 0
  /\ done = 0
  /\ witness = NoWitness
  /\ ret = NoResult
  /\ log = <<>>
  /\ it = [cur |-> CursorNew(AllData), total |-> 0, consumed |-> 0]
  /\ call = "unborn"
  /\ coinbases = 0
  /\ saw = FALSE
  /\ result = Nothing
  /\ accepted = <<>>
  /\ failed = <<>>

Init == data \in Inputs /\ Fresh

(* The calls of the client.                                                *)

New ==
  /\ call = "unborn"
  /\ LET r == NewIter IN
     \/ /\ r.ok
        /\ it' = [cur |-> r.cur, total |-> r.val.total, consumed |-> 0]
        /\ call' = "ready"
        /\ result' = Reply("new", r.val.header, NoError)
     \/ /\ ~ r.ok
        /\ call' = "gone"
        /\ result' = Reply("new", NoValue, r.err)
        /\ UNCHANGED it
  /\ UNCHANGED <<data, parseVars, coinbases, saw, accepted, failed>>

Call ==
  /\ call = "ready"
  /\ call' \in Methods
  /\ coinbases' = 0
  /\ result' = Nothing
  /\ UNCHANGED <<data, parseVars, it, saw, accepted, failed>>

CallFinishStrict ==
  /\ call = "ready"
  /\ result' = Reply("finish_strict", NoValue, FinishStrict)
  /\ UNCHANGED <<data, parseVars, it, call, coinbases, saw, accepted, failed>>

-----------------------------------------------------------------------------
(* Inside a method.  Each parses one transaction after another, next_tx    *)
(* one at most.                                                            *)

(* The method returns: consume_all_strict has used the iterator up.        *)
Finish(v, e) ==
  /\ call' = IF call = "consume_all_strict" THEN "gone" ELSE "ready"
  /\ result' = Reply(call, v, e)

(* Mutant: the parser gets a clone of the iterator's cursor, and so counts *)
(* what was consumed before as bytes of its transaction.                   *)
BeginTxOnClone ==
  /\ call \in Methods
  /\ pc = "idle"
  /\ it.consumed < it.total
  /\ Begin(it.cur)
  /\ saw' = FALSE
  /\ UNCHANGED <<data, it, call, coinbases, result, accepted, failed>>

BeginTx ==
  /\ call \in Methods
  /\ pc = "idle"
  /\ it.consumed < it.total
  /\ Begin(CursorNew(AsSlice(it.cur)))
  /\ saw' = FALSE
  /\ UNCHANGED <<data, it, call, coinbases, result, accepted, failed>>

NoMoreTx ==
  /\ call \in Methods
  /\ pc = "idle"
  /\ it.consumed >= it.total
  /\ CASE call = "next_tx"            -> Finish(More(FALSE), NoError)
       [] call = "skip_remaining"     -> Finish(NoValue, NoError)
       [] call = "consume_all_strict" -> Finish(NoValue, StrictVerdict)
  /\ UNCHANGED <<data, parseVars, it, coinbases, saw, accepted, failed>>

(* Mutant: the transaction is counted but not stepped over.                *)
TxParsedInPlace ==
  /\ pc = "returned" /\ ret.ok
  /\ pc' = "idle"
  /\ it' = [it EXCEPT !.consumed = @ + 1]
  /\ accepted' = Append(accepted, log)
  /\ failed' = <<>>
  /\ IF call = "next_tx" THEN Finish(More(TRUE), NoError) ELSE UNCHANGED <<call, result>>
  /\ UNCHANGED <<data, parser, head, outs, done, witness, ret, log, coinbases, saw>>

(* The iterator steps over the bytes that the transaction took.            *)
TxParsed ==
  /\ pc = "returned" /\ ret.ok
  /\ pc' = "idle"
  /\ LET r == Skip(it.cur, parser.pos) IN
     \/ /\ r.ok
        /\ it' = [cur |-> r.cur, total |-> it.total, consumed |-> it.consumed + 1]
        /\ accepted' = Append(accepted, log)
        /\ failed' = <<>>
        /\ IF call = "next_tx" THEN Finish(More(TRUE), NoError) ELSE UNCHANGED <<call, result>>
     \/ /\ ~ r.ok
        /\ it' = [it EXCEPT !.cur = r.cur]
        /\ Finish(NoValue, r.err)
        /\ UNCHANGED <<accepted, failed>>
  /\ UNCHANGED <<data, parser, head, outs, done, witness, ret, log, coinbases, saw>>

(* Mutant: the bytes that a failed try consumed are stepped over as well.  *)
TxFailedStepsOver ==
  /\ pc = "returned" /\ ~ ret.ok
  /\ pc' = "idle"
  /\ failed' = log
  /\ it' = [it EXCEPT !.cur = Skip(it.cur, parser.pos).cur]
  /\ Finish(NoValue, ret.err)
  /\ UNCHANGED <<data, parser, head, outs, done, witness, ret, log,
                 coinbases, saw, accepted>>

(* On an error the iterator stays before the transaction, whatever its     *)
(* callbacks have been given.                                              *)
TxFailed ==
  /\ pc = "returned" /\ ~ ret.ok
  /\ pc' = "idle"
  /\ failed' = log
  /\ Finish(NoValue, ret.err)
  /\ UNCHANGED <<data, parser, head, outs, done, witness, ret, log,
                 it, coinbases, saw, accepted>>

Step ==
  /\ ParseAlone
  /\ UNCHANGED <<data, iterVars>>

(* The callbacks of next_tx are the client's, those of skip_remaining      *)
(* answer Ok.                                                              *)
Input ==
  /\ call \in {"next_tx", "skip_remaining"}
  /\ \E e \in Answers :
       /\ call = "skip_remaining" => e = NoError
       /\ ParseInput(TRUE, e)
  /\ UNCHANGED <<data, iterVars>>

Output ==
  /\ \E e \in Answers :
       /\ call = "skip_remaining" => e = NoError
       /\ ParseOutput(e)
  /\ UNCHANGED <<data, iterVars>>

(* Mutant: a coinbase is counted wherever it stands.                       *)
StrictInputAnywhere ==
  /\ call = "consume_all_strict"
  /\ pc = "inputs" /\ done < head.inputs
  /\ LET r == TxInput(parser) IN
     coinbases' = coinbases + IF ~ saw /\ r.ok /\ IsCoinbase(r.val) THEN 1 ELSE 0
  /\ \E e \in Answers : ParseInput(TRUE, e)
  /\ saw' = TRUE
  /\ UNCHANGED <<data, it, call, result, accepted, failed>>

(* consume_all_strict looks at the first input of each transaction before  *)
(* the client does, and refuses a coinbase that is not the first one.      *)
StrictInput ==
  /\ call = "consume_all_strict"
  /\ pc = "inputs" /\ done < head.inputs
  /\ LET r        == TxInput(parser)
         coinbase == ~ saw /\ r.ok /\ IsCoinbase(r.val)
         n        == coinbases + IF coinbase THEN 1 ELSE 0
     IN  /\ coinbases' = n
         /\ IF coinbase /\ it.consumed # 0
            THEN ParseInput(FALSE, InvalidCoinbaseCount(n))
            ELSE \E e \in Answers : ParseInput(TRUE, e)
  /\ saw' = TRUE
  /\ UNCHANGED <<data, it, call, result, accepted, failed>>

Inside ==
  \/ BeginTx \/ NoMoreTx \/ TxParsed \/ TxFailed
  \/ Step \/ Input \/ Output \/ StrictInput

(* The client's last state: no iterator, or none any more.                 *)
Over == call = "gone" /\ UNCHANGED vars

Next == New \/ Call \/ CallFinishStrict \/ Inside \/ Over

Running == call \in Methods

(* A method runs in the caller's thread until it returns, and callbacks    *)
(* return: WF_vars(Inside) with its ENABLED written out, as in             *)
(* TransactionParser.  Nothing obliges the client to call a method.        *)
Fairness == []<>(~ Running) \/ []<><<Running>>_vars

Spec == Init /\ [][Next]_vars /\ Fairness

-----------------------------------------------------------------------------
(* Properties.                                                             *)

Within(c) ==
  /\ c \in [lo : Nat, len : Nat, pos : Nat]
  /\ c.pos <= c.len
  /\ c.lo + c.len <= Len(data)

Phases == {"idle", "head", "inputs", "outputs", "witness", "items", "locktime", "returned"}

(* The type invariant.                                                     *)
TypeOK ==
  /\ DataOK
  /\ Within(parser) /\ Within(it.cur)
  /\ pc \in Phases
  /\ call \in Methods \cup {"unborn", "ready", "gone"}
  /\ pc # "idle" => call \in Methods
  /\ it.total \in 0 .. MaxBlockTxn
  /\ it.consumed \in 0 .. it.total
  /\ coinbases \in Nat
  /\ saw \in BOOLEAN
  /\ Len(accepted) = it.consumed

(* While a transaction is parsed, the parser's window is exactly what the  *)
(* iterator has not read.  So the bytes a parsed transaction took are      *)
(* there to be stepped over, and the error exit of the skip in next_tx     *)
(* (block.rs 179) is never taken.                                          *)
ParserSeesTheRest ==
  pc # "idle" =>
    /\ parser.lo = it.cur.lo + it.cur.pos
    /\ parser.len = Remaining(it.cur)
    /\ ret.ok => Skip(it.cur, parser.pos).ok

(* Where the next transaction begins.                                      *)
Here == it.cur.lo + it.cur.pos

InOrder(ds) == \A i, j \in 1 .. Len(ds) : i < j => ds[i].hi <= ds[j].lo

(* Whatever calls have failed and been repeated, the transactions that the *)
(* iterator counts as consumed have been delivered in the order of their   *)
(* bytes, once each, and all bytes delivered in the current try come after *)
(* them (block.rs 164-182).                                                *)
ConsumedOnce ==
  /\ \A k \in 1 .. Len(accepted) :
       /\ accepted[k] # <<>>
       /\ InOrder(accepted[k])
       /\ \A i \in 1 .. Len(accepted[k]) :
            /\ HeaderLen < accepted[k][i].lo
            /\ accepted[k][i].hi <= Here
       /\ \A m \in 1 .. Len(accepted) : k < m =>
            \A i \in 1 .. Len(accepted[k]), j \in 1 .. Len(accepted[m]) :
              accepted[k][i].hi <= accepted[m][j].lo
  /\ pc # "idle" =>
       /\ InOrder(log)
       /\ \A i \in 1 .. Len(log) : Here < log[i].lo

(* A next_tx repeated after an error begins with the same deliveries as    *)
(* the try that failed, as far as both go: nothing is skipped, and a       *)
(* client that undoes what the failed try delivered is in step again       *)
(* (block.rs 174-181).                                                     *)
RetryReplays ==
  pc # "idle" =>
    \A i \in 1 .. Len(log) : i <= Len(failed) => log[i] = failed[i]

(* The first input of the k-th transaction delivered is a coinbase input.  *)
CoinbaseAt(k) == IsCoinbase(accepted[k][1].val)

(* If consume_all_strict returns Ok, the callbacks were given every        *)
(* transaction of the block, from the first, the first and no other is a   *)
(* coinbase, and not a byte of the buffer is left over, also when the      *)
(* iterator had been used before the call (block.rs 211-264).              *)
StrictMeansWholeBlock ==
  (result.method = "consume_all_strict" /\ result.ok) =>
    /\ Len(accepted) = it.total
    /\ it.total > 0
    /\ \A k \in 1 .. it.total : CoinbaseAt(k) <=> k = 1
    /\ Here = Len(data)

(* finish_strict says Ok only when the transactions consumed end where the *)
(* buffer does, and otherwise how many transactions or bytes are missing   *)
(* from that (block.rs 196-208).                                           *)
FinishIsExact ==
  result.method = "finish_strict" =>
    IF Len(accepted) # it.total
    THEN result.err = IncompleteTransactions(it.total, Len(accepted))
    ELSE IF Here < Len(data)
         THEN result.err = TrailingBytes(Len(data) - Here)
         ELSE result.ok

-----------------------------------------------------------------------------
(* BlockTxIter as the stream of transactions that its client sees.         *)

Stream == INSTANCE TxStream WITH
  total   <- IF call = "unborn" THEN -1 ELSE it.total,
  current <- IF pc = "idle" THEN <<>> ELSE log,
  busy    <- call \in Methods

(* The iterator implements TxStream: cursors, slices and the steps of the  *)
(* parser do nothing that the client could see but call, deliver, accept,  *)
(* reject or end.  A call that does not fail has taken a transaction or    *)
(* none is left, a call that fails leaves the iterator before the          *)
(* transaction, and the next call replays it (block.rs 109-264).           *)
ImplementsStream == Stream!Spec

=============================================================================
