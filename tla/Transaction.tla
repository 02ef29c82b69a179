----------------------------- MODULE Transaction -----------------------------
(***************************************************************************)
(* The transaction wire format of src/transaction.rs: how each element is  *)
(* read from a cursor, and TransactionParser::parse_with as the sequence   *)
(* of its steps.  A step is what the code does between two calls of user   *)
(* code or two rounds of a loop, so the answers of the callbacks, and a    *)
(* failure after any number of deliveries, are all represented.            *)
(*                                                                         *)
(* The module has no behaviour of its own: TransactionParser drives one    *)
(* parser directly, BlockTxIter drives a new parser for each transaction.  *)
(***************************************************************************)
EXTENDS Witness

CONSTANTS
  HashLen,             (* bytes of a hash: 32 in the code.                 *)
  MaxIoCount,          (* MAX_IO_COUNT                                     *)
  MaxScriptSize        (* MAX_SCRIPT_SIZE                                  *)

ASSUME TransactionAssumption ==
  /\ {HashLen, MaxIoCount, MaxScriptSize} \subseteq Nat
  /\ HashLen > 0

VARIABLES
  parser,   (* the parser's cursor.                                        *)
  pc,       (* where parse_with stands; "idle" outside a call.             *)
  head,     (* its locals version, is_segwit and input_count,              *)
  outs,     (* output_count,                                               *)
  done,     (* and the rounds finished of the loop it is in.               *)
  witness,  (* Witness::parse in progress: its cursor, and items to go.    *)
  ret,      (* what parse_with returned.                                   *)
  log       (* history: what this call has passed to the callbacks.        *)

parseVars == <<parser, pc, head, outs, done, witness, ret, log>>

-----------------------------------------------------------------------------
(* Elements.                                                               *)

InvalidInputCount == [kind |-> "InvalidInputCount"]

InvalidSegwitFlag(b) == [kind |-> "InvalidSegwitFlag", flag |-> b]

Script(c) == ReadVarBytes(c, MaxScriptSize)

TxInput(c) ==
  AndThen(ReadArray(c, HashLen), LAMBDA txid :
  AndThen(ReadU32(txid.cur), LAMBDA vout :
  AndThen(Script(vout.cur), LAMBDA sig :
  AndThen(ReadU32(sig.cur), LAMBDA seq :
    Ok(seq.cur, [txid |-> txid.val, vout |-> vout.val,
                 script |-> sig.val, sequence |-> seq.val], {})))))

TxOutput(c) ==
  AndThen(ReadU64(c), LAMBDA value :
  AndThen(Script(value.cur), LAMBDA key :
    Ok(key.cur, [value |-> value.val, script |-> key.val], {})))

(* OutPoint::is_coinbase of a TxInput's value.                             *)
IsCoinbase(i) ==
  /\ \A p \in Offsets(i.txid) : At(p) = 0
  /\ i.vout = Base4 - 1

(* Zero is refused after the usize check and before the limit.             *)
NonZero(r) ==
  IF r.ok /\ r.val = 0 THEN Fail(r.cur, InvalidInputCount, r.got) ELSE r

InputCount(r) == Capped(NonZero(ToUsize(r)), MaxIoCount)

(* The input count, after the first byte behind the version.  0 announces  *)
(* SegWit, and 1 must follow it; any other byte begins the count.          *)
CountAfter(first) ==
  IF first.val # 0
  THEN InputCount(VarintFrom(first.cur, first.val))
  ELSE AndThen(ReadU8(first.cur), LAMBDA flag :
         IF flag.val = 1
         THEN InputCount(ReadVarint(flag.cur))
         ELSE Fail(flag.cur, InvalidSegwitFlag(flag.val), {}))

TxHead(c) ==
  AndThen(ReadI32(c), LAMBDA version :
  AndThen(ReadU8(version.cur), LAMBDA first :
  AndThen(CountAfter(first), LAMBDA count :
    Ok(count.cur, [version |-> version.val, segwit |-> first.val = 0,
                   inputs |-> count.val], {}))))

OutputCount(c) == CountRead(ReadVarint(c), MaxIoCount)

-----------------------------------------------------------------------------
(* parse_with, step by step.                                               *)

NoResult == [ok |-> FALSE, val |-> NoValue, err |-> NoError]

Returned(ok, v, e) == [ok |-> ok, val |-> v, err |-> e]

(* The locals of a call, before they are assigned.                         *)
NoHead == [version |-> 0, segwit |-> FALSE, inputs |-> 0]

NoWitness == [cur |-> [lo |-> 0, len |-> 0, pos |-> 0], left |-> 0]

(* The call ends with result r, its cursor left at c.                      *)
Return(c, r) ==
  /\ parser' = c
  /\ pc' = "returned"
  /\ ret' = r
  /\ UNCHANGED <<head, outs, done, witness>>

Abort(c, e) == Return(c, Returned(FALSE, NoValue, e))

(* A call of parse_with on a parser whose cursor is c.                     *)
Begin(c) ==
  /\ parser' = c
  /\ pc' = "head"
  /\ head' = NoHead
  /\ outs' = 0
  /\ done' = 0
  /\ witness' = NoWitness
  /\ ret' = NoResult
  /\ log' = <<>>

ParseHead ==
  /\ pc = "head"
  /\ LET r == TxHead(parser) IN
     \/ /\ r.ok
        /\ parser' = r.cur
        /\ head' = r.val
        /\ pc' = "inputs"
        /\ UNCHANGED <<outs, done, witness, ret>>
     \/ /\ ~ r.ok
        /\ Abort(r.cur, r.err)
  /\ UNCHANGED log

(* An element as a callback receives it, with the bytes it stands in.      *)
Delivery(kind, c, r) ==
  [kind |-> kind, lo |-> c.lo + c.pos, hi |-> r.cur.lo + r.cur.pos, val |-> r.val]

(* Mutant: the answer of the callback is dropped.                          *)
HandOverIgnoringAnswer(kind, r, called, e) ==
  /\ log' = IF called THEN Append(log, Delivery(kind, parser, r)) ELSE log
  /\ parser' = r.cur
  /\ done' = done + 1
  /\ UNCHANGED <<pc, head, outs, witness, ret>>

(* Mutant: the element is read from a copy of the cursor.                  *)
HandOverFromCopy(kind, r, called, e) ==
  /\ log' = IF called THEN Append(log, Delivery(kind, parser, r)) ELSE log
  /\ \/ /\ e = NoError
        /\ done' = done + 1
        /\ UNCHANGED <<parser, pc, head, outs, witness, ret>>
     \/ /\ e # NoError
        /\ Abort(parser, e)

(* The element read as r is handed over and the callback answers e; if not *)
(* called, a wrapper around the callback answers e in its place.           *)
HandOver(kind, r, called, e) ==
  /\ log' = IF called THEN Append(log, Delivery(kind, parser, r)) ELSE log
  /\ \/ /\ e = NoError
        /\ parser' = r.cur
        /\ done' = done + 1
        /\ UNCHANGED <<pc, head, outs, witness, ret>>
     \/ /\ e # NoError
        /\ Abort(r.cur, e)

ParseInput(called, e) ==
  /\ pc = "inputs"
  /\ done < head.inputs
  /\ LET r == TxInput(parser) IN r.ok /\ HandOver("input", r, called, e)

BadInput ==
  /\ pc = "inputs"
  /\ done < head.inputs
  /\ LET r == TxInput(parser) IN ~ r.ok /\ Abort(r.cur, r.err)
  /\ UNCHANGED log

(* Mutant: the outputs are counted on from where the inputs ended.         *)
ParseOutputCountNoReset ==
  /\ pc = "inputs"
  /\ done = head.inputs
  /\ LET r == OutputCount(parser) IN
     \/ /\ r.ok
        /\ parser' = r.cur
        /\ outs' = r.val
        /\ pc' = "outputs"
        /\ UNCHANGED <<head, done, witness, ret>>
     \/ /\ ~ r.ok
        /\ Abort(r.cur, r.err)
  /\ UNCHANGED log

ParseOutputCount ==
  /\ pc = "inputs"
  /\ done = head.inputs
  /\ LET r == OutputCount(parser) IN
     \/ /\ r.ok
        /\ parser' = r.cur
        /\ outs' = r.val
        /\ done' = 0
        /\ pc' = "outputs"
        /\ UNCHANGED <<head, witness, ret>>
     \/ /\ ~ r.ok
        /\ Abort(r.cur, r.err)
  /\ UNCHANGED log

ParseOutput(e) ==
  /\ pc = "outputs"
  /\ done < outs
  /\ LET r == TxOutput(parser) IN r.ok /\ HandOver("output", r, TRUE, e)

BadOutput ==
  /\ pc = "outputs"
  /\ done < outs
  /\ LET r == TxOutput(parser) IN ~ r.ok /\ Abort(r.cur, r.err)
  /\ UNCHANGED log

EndOutputs ==
  /\ pc = "outputs"
  /\ done = outs
  /\ pc' = IF head.segwit THEN "witness" ELSE "locktime"
  /\ done' = 0
  /\ UNCHANGED <<parser, head, outs, witness, ret, log>>

(* Witness::parse has a cursor of its own over what parse_with has left,   *)
(* so its failure leaves parse_with's cursor where the witness begins.     *)
ParseWitnessCount ==
  /\ pc = "witness"
  /\ done < head.inputs
  /\ LET r == WitnessCount(CursorNew(AsSlice(parser))) IN
     \/ /\ r.ok
        /\ witness' = [cur |-> r.cur, left |-> r.val]
        /\ pc' = "items"
        /\ UNCHANGED <<parser, head, outs, done, ret>>
     \/ /\ ~ r.ok
        /\ Abort(parser, r.err)
  /\ UNCHANGED log

ParseWitnessItem ==
  /\ pc = "items"
  /\ witness.left > 0
  /\ LET r == WitnessItem(witness.cur) IN
     \/ /\ r.ok
        /\ witness' = [cur |-> r.cur, left |-> witness.left - 1]
        /\ UNCHANGED <<parser, pc, head, outs, done, ret>>
     \/ /\ ~ r.ok
        /\ Abort(parser, r.err)
  /\ UNCHANGED log

(* Mutant: the witness is parsed but not stepped over.                     *)
EndWitnessInPlace ==
  /\ pc = "items"
  /\ witness.left = 0
  /\ done' = done + 1
  /\ pc' = "witness"
  /\ UNCHANGED <<parser, head, outs, witness, ret, log>>

(* Mutant: a failed step over the witness parses it again.                 *)
EndWitnessRetries ==
  /\ pc = "items"
  /\ witness.left = 0
  /\ pc' = "witness"
  /\ UNCHANGED <<parser, head, outs, done, witness, ret, log>>

(* parse_with steps over the bytes that Witness::parse consumed.           *)
EndWitness ==
  /\ pc = "items"
  /\ witness.left = 0
  /\ LET r == Skip(parser, witness.cur.pos) IN
     \/ /\ r.ok
        /\ parser' = r.cur
        /\ done' = done + 1
        /\ pc' = "witness"
        /\ UNCHANGED <<head, outs, witness, ret>>
     \/ /\ ~ r.ok
        /\ Abort(r.cur, r.err)
  /\ UNCHANGED log

(* Mutant: a missing lock time is taken as zero.                           *)
ParseLocktimeOrZero ==
  /\ pc = "locktime" \/ (pc = "witness" /\ done = head.inputs)
  /\ LET r == ReadU32(parser) IN
     Return(r.cur, Returned(TRUE,
                            [version |-> head.version,
                             locktime |-> IF r.ok THEN r.val ELSE 0,
                             inputs |-> head.inputs, outputs |-> outs],
                            NoError))
  /\ UNCHANGED log

ParseLocktime ==
  /\ pc = "locktime" \/ (pc = "witness" /\ done = head.inputs)
  /\ LET r == ReadU32(parser) IN
     \/ /\ r.ok
        /\ Return(r.cur, Returned(TRUE,
                                  [version |-> head.version, locktime |-> r.val,
                                   inputs |-> head.inputs, outputs |-> outs],
                                  NoError))
     \/ /\ ~ r.ok
        /\ Abort(r.cur, r.err)
  /\ UNCHANGED log

(* The steps in which no callback takes part.                              *)
ParseAlone ==
  \/ ParseHead \/ BadInput \/ ParseOutputCount \/ BadOutput \/ EndOutputs
  \/ ParseWitnessCount \/ ParseWitnessItem \/ EndWitness \/ ParseLocktime

=============================================================================
