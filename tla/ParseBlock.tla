----------------------------- MODULE ParseBlock -----------------------------
(***************************************************************************)
(* main of examples/parse_block.rs: a block is read from a file, taken out *)
(* of a .dat file if it is in one, and its transactions are streamed       *)
(* through two closures that count, add up and print.  The closures share  *)
(* four variables with the loop around next_tx.                            *)
(*                                                                         *)
(* The block iterator is the one of BlockTxIter, of which this client uses *)
(* next_tx and finish_strict only; a .dat entry is read as BlkFile does.   *)
(* What parse_opts answers is checked in ParseOpts.                        *)
(***************************************************************************)
EXTENDS BlockTxIter, ScriptType, SequencesExt

CONSTANTS
  MaxBlockBytes,
  Magics,      (* the magics of mainnet, testnet and signet, in this order *)
  Synthetic,   (* what build_synthetic_block returns,                      *)
  Parsed       (* and the answers of parse_opts.  Inputs are the files.    *)

ASSUME ParseBlockAssumption ==
  /\ \A k \in 1 .. Len(Magics) : Magics[k] \in Seq(Byte) /\ Len(Magics[k]) = 4
  /\ MaxBlockBytes \in Nat /\ Base4 <= UsizeMax + 1
  /\ <<>> \in Inputs /\ Synthetic \in Inputs

VARIABLES
  file,          (* the bytes of the file,                                 *)
  args,          (* what parse_opts has answered,                          *)
  stage,         (* where main stands,                                     *)
  tx_idx,        (* its variables: transactions parsed,                    *)
  coinbase_txs,  (* those of them that begin with a coinbase input,        *)
  saw_first,     (* saw_first_input_in_tx,                                 *)
  total_value,   (* and the sum of all outputs;                            *)
  printed,       (* the lines printed,                                     *)
  exit           (* and what main has returned.                            *)

Dat(Magic) == INSTANCE BlkFile WITH data <- file

counters == <<tx_idx, coinbase_txs, saw_first, total_value, printed>>

mainVars == <<file, args, stage, counters, exit>>

allVars == <<vars, mainVars>>

-----------------------------------------------------------------------------
(* What is read.                                                           *)

NotYet == [kind |-> "not yet"]

Io == [kind |-> "Io"]

MainInit ==
  /\ data = <<>> /\ Fresh
  /\ file \in Inputs
  /\ args \in Parsed
  /\ stage = "start"
  /\ tx_idx = 0 /\ coinbase_txs = 0 /\ saw_first = FALSE /\ total_value = 0
  /\ printed = <<>>
  /\ exit = NotYet

Exit(e) == stage' = "exit" /\ exit' = e

(* A wrong argument, or --help: main prints the usage and returns Ok.      *)
Usage ==
  /\ stage = "start"
  /\ ~ args.ok \/ args.opts.help
  /\ Exit(NoError)
  /\ UNCHANGED <<vars, file, args, counters>>

HasOpts == stage = "start" /\ args.ok /\ ~ args.opts.help

(* Mutant: the block is taken with the magic and the size before it.       *)
BlockBytesWithPrefix(r) == SubSeq(file, 1, r.val.bytes.hi)

BlockBytes(r) == SubSeq(file, r.val.bytes.lo + 1, r.val.bytes.hi)

(* try_first_dat_entry: the answers of next_block for one magic after the  *)
(* other, up to the first block or, by its ?, the first error.             *)
Unwrapped ==
  LET answers == [k \in 1 .. Len(Magics) |->
                    Dat(Magics[k])!NextBlock(CursorNew(Slice(0, Len(file))))]
      stops   == {k \in 1 .. Len(Magics) :
                    ~ answers[k].ok \/ answers[k].val.kind = "block"}
  IN  IF stops # {} /\ answers[Min(stops)].ok THEN BlockBytes(answers[Min(stops)]) ELSE file

(* As in Fresh, the cursors not made yet are those over the whole buffer.  *)
Read(bytes) ==
  /\ data' = bytes
  /\ parser' = CursorNew(AllData)'
  /\ it' = [it EXCEPT !.cur = CursorNew(AllData)']
  /\ stage' = "new"
  /\ UNCHANGED <<pc, head, outs, done, witness, ret, log, call, coinbases, saw, result,
                 accepted, failed, file, args, counters, exit>>

ReadFile == HasOpts /\ args.path /\ Read(Unwrapped)

CannotRead ==
  /\ HasOpts /\ args.path
  /\ Exit(Io)
  /\ UNCHANGED <<vars, file, args, counters>>

Synthesize == HasOpts /\ ~ args.path /\ Read(Synthetic)

MakeIter ==
  /\ stage = "new"
  /\ New
  /\ stage' = "reading"
  /\ UNCHANGED <<file, args, counters, exit>>

-----------------------------------------------------------------------------
(* The loop.                                                               *)

(* Mutant: the limit is looked at before the one transaction asked for.    *)
ShouldPrintLimitFirst(idx) ==
  /\ ~ args.opts.summary
  /\ IF args.opts.limit_tx.some THEN idx < args.opts.limit_tx.val
     ELSE args.opts.only_tx.some => idx = args.opts.only_tx.val

ShouldPrint(idx) ==
  /\ ~ args.opts.summary
  /\ IF args.opts.only_tx.some THEN idx = args.opts.only_tx.val
     ELSE args.opts.limit_tx.some => idx < args.opts.limit_tx.val

ShouldPrintOutputs(idx) == ~ args.opts.no_outputs /\ ShouldPrint(idx)

Line(kind, v) == [line |-> kind, val |-> v]

InputLine(idx, coinbase) == Line(IF coinbase THEN "coinbase" ELSE "normal", idx)

OutputLine(o, type) == Line(type, [value |-> o.value, len |-> Size(o.script)])

OnInput ==
  /\ call = "next_tx"
  /\ ParseInput(TRUE, NoError)
  /\ LET coinbase == IsCoinbase(TxInput(parser).val) IN
     \/ /\ saw_first
        /\ UNCHANGED counters
     \/ /\ ~ saw_first
        /\ saw_first' = TRUE
        /\ coinbase_txs' = coinbase_txs + IF coinbase THEN 1 ELSE 0
        /\ printed' = IF ShouldPrint(tx_idx)
                      THEN Append(printed, InputLine(tx_idx, coinbase)) ELSE printed
        /\ UNCHANGED <<tx_idx, total_value>>
  /\ UNCHANGED <<data, it, call, coinbases, saw, result, accepted, failed,
                 file, args, stage, exit>>

U64Max == Base4 * Base4 - 1

SaturatingAdd(a, b) == Min({a + b, U64Max})

(* Whether the output is worth a line; in summary mode its script is not   *)
(* even classified.                                                        *)
PrintsOutput(o) ==
  /\ ~ args.opts.summary /\ ~ args.opts.no_outputs
  /\ ~ (args.opts.no_opreturn /\ Classify(o.script).type = "OpReturn")
  /\ ShouldPrintOutputs(tx_idx)

OnOutput ==
  /\ call = "next_tx"
  /\ ParseOutput(NoError)
  /\ LET o == TxOutput(parser).val IN
     /\ total_value' = SaturatingAdd(total_value, o.value)
     /\ printed' = IF PrintsOutput(o)
                   THEN Append(printed, OutputLine(o, Classify(o.script).type)) ELSE printed
  /\ UNCHANGED <<data, it, call, coinbases, saw, result, accepted, failed,
                 file, args, stage, tx_idx, coinbase_txs, saw_first, exit>>

(* Mutant: the flag of the transaction before is kept.                     *)
TxDoneKeepsFlag ==
  /\ result.method = "next_tx" /\ result.ok /\ result.val.more
  /\ tx_idx' = tx_idx + 1
  /\ UNCHANGED saw_first

(* The body of the loop, after next_tx has answered true.                  *)
TxDone ==
  /\ result.method = "next_tx" /\ result.ok /\ result.val.more
  /\ tx_idx' = tx_idx + 1
  /\ saw_first' = FALSE

NextTx ==
  /\ stage = "reading" /\ call = "ready"
  /\ \/ result.method = "new" /\ UNCHANGED <<tx_idx, saw_first>>
     \/ TxDone
  /\ Call /\ call' = "next_tx"
  /\ UNCHANGED <<file, args, stage, coinbase_txs, total_value, printed, exit>>

InsideNextTx ==
  /\ \/ BeginTx \/ NoMoreTx \/ TxParsed \/ TxFailed
     \/ Step
  /\ UNCHANGED mainVars

(* Mutant: the loop goes on when next_tx has failed.                       *)
AbandonNot ==
  /\ stage = "reading" /\ call \in {"ready", "gone"}
  /\ result.method # "none" /\ ~ result.ok
  /\ IF call = "gone" THEN Exit(result.err) /\ UNCHANGED vars
     ELSE UNCHANGED <<stage, exit>> /\ Call /\ call' = "next_tx"
  /\ UNCHANGED <<file, args, counters>>

(* The ? behind new and next_tx.                                           *)
Abandon ==
  /\ stage = "reading" /\ call \in {"ready", "gone"}
  /\ result.method # "none" /\ ~ result.ok
  /\ Exit(result.err)
  /\ UNCHANGED <<vars, file, args, counters>>

(* Mutant: finish_strict is not called.                                    *)
VerdictOnCoinbases ==
  IF coinbase_txs # 1 THEN InvalidCoinbaseCount(coinbase_txs) ELSE NoError

Verdict ==
  IF FinishStrict # NoError THEN FinishStrict
  ELSE IF coinbase_txs # 1 THEN InvalidCoinbaseCount(coinbase_txs)
  ELSE NoError

(* What follows the loop, with the two lines that depend on its outcome.   *)
Report ==
  /\ stage = "reading" /\ call = "ready"
  /\ result.method = "next_tx" /\ result.ok /\ ~ result.val.more
  /\ LET only   == args.opts.only_tx
         absent == IF only.some /\ only.val >= tx_idx
                   THEN <<Line("no such tx", only.val)>> ELSE <<>>
         sum    == IF Verdict = NoError THEN <<Line("total", total_value)>> ELSE <<>>
     IN  printed' = printed \o absent \o sum
  /\ Exit(Verdict)
  /\ UNCHANGED <<vars, file, args, tx_idx, coinbase_txs, saw_first, total_value>>

MainOver == stage = "exit" /\ UNCHANGED allVars

MainNext ==
  \/ Usage \/ ReadFile \/ CannotRead \/ Synthesize \/ MakeIter
  \/ NextTx \/ InsideNextTx \/ OnInput \/ OnOutput \/ Abandon \/ Report \/ MainOver

MainRuns == stage # "exit"

(* main runs in one thread until it returns: WF_allVars(MainNext) with its *)
(* ENABLED written out, for each step before the exit changes a variable.  *)
MainFairness == []<>(~ MainRuns) \/ []<><<MainRuns>>_allVars

MainSpec == MainInit /\ [][MainNext]_allVars /\ MainFairness

-----------------------------------------------------------------------------
(* Properties.                                                             *)

(* What the closures have been given of the transaction not yet accepted.  *)
Current == IF pc # "idle" THEN log ELSE failed

(* next_tx has accepted a transaction that the loop has not counted yet.   *)
Uncounted == call = "ready" /\ result.method = "next_tx" /\ result.ok /\ result.val.more

ValueOf(d) == IF d.kind = "output" THEN d.val.value ELSE 0

TxSum(ds) == SumFunction([i \in 1 .. Len(ds) |-> ValueOf(ds[i])])

(* The variables that the closures share with the loop agree with what     *)
(* next_tx has delivered, at every moment and also when a transaction      *)
(* fails half-way: the index counts the transactions accepted, the flag    *)
(* says whether the transaction being read has begun, each transaction     *)
(* counts as a coinbase by its first input only, and the sum is that of    *)
(* all outputs unless it is too large (parse_block.rs 125-216).            *)
CountersAreExact ==
  LET begun == accepted \o IF Current = <<>> THEN <<>> ELSE <<Current>>
      sums  == [k \in 1 .. Len(begun) |-> TxSum(begun[k])]
  IN  /\ tx_idx + (IF Uncounted THEN 1 ELSE 0) = Len(accepted)
      /\ saw_first = (Uncounted \/ Current # <<>>)
      /\ coinbase_txs = Cardinality({k \in 1 .. Len(begun) : IsCoinbase(begun[k][1].val)})
      /\ total_value = Min({SumFunction(sums), U64Max})

Asked(k) ==
  LET opts == args.opts IN
  /\ ~ opts.summary
  /\ opts.only_tx.some => k = opts.only_tx.val
  /\ opts.limit_tx.some => opts.only_tx.some \/ k < opts.limit_tx.val

(* The line that an output is worth, if it is worth one.                   *)
OutputLines(o) ==
  LET type == Classify(o.script).type IN
  IF args.opts.no_outputs \/ (args.opts.no_opreturn /\ type = "OpReturn") THEN <<>>
  ELSE <<OutputLine(o, type)>>

(* The lines that transaction k, counted from 0, is worth: of its inputs   *)
(* only the first is.                                                      *)
LinesOf(k, ds) ==
  IF ~ Asked(k) THEN <<>>
  ELSE FlattenSeq([i \in 1 .. Len(ds) |->
         IF ds[i].kind = "output" THEN OutputLines(ds[i].val)
         ELSE IF i = 1 THEN <<InputLine(k, IsCoinbase(ds[i].val))>> ELSE <<>>])

(* As long as main runs it has printed exactly the lines that the flags    *)
(* ask for, in the order of the block: one for each transaction asked for  *)
(* and one for each of its outputs, of the right transaction although the  *)
(* closures learn its number from the loop, and --tx before --limit-tx     *)
(* (parse_block.rs 8-13, 131-212).                                         *)
PrintsAsAsked ==
  stage = "reading" =>
    LET begun == Append(accepted, Current)
    IN  printed = FlattenSeq([k \in 1 .. Len(begun) |-> LinesOf(k - 1, begun[k])])

(* main returns Ok for a block only if all its transactions were read,     *)
(* they end where the block does, and exactly one of them is a coinbase;   *)
(* it has then printed the sum of all outputs (parse_block.rs 218-263).    *)
OkMeansWholeBlock ==
  (exit = NoError /\ call # "unborn") =>
    /\ Len(accepted) = it.total
    /\ Here = Len(data)
    /\ Cardinality({k \in 1 .. it.total : CoinbaseAt(k)}) = 1
    /\ printed[Len(printed)] = Line("total", total_value)

(* main returns, whatever the file holds.                                  *)
Returns == <>(stage = "exit")

=============================================================================
