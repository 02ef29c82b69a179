# Verification of blockchain-zc-parser

TLA+ models of the `blockchain-zc-parser` crate: a zero-copy cursor over an
immutable byte buffer, the transaction parser with its user callbacks, the
block iterator, the `blkNNNNN.dat` iterator, scripts and witnesses, and the
`parse_block` example that puts them together.  TLC checks the models on small
instances; TLAPS proves the safety properties of every component, the example
included, for every instance, and of the transaction parser and the file
iterator that they invert the encoder.  Line numbers below refer to the crate's `src/*.rs` and to `examples/parse_block.rs`.

Run TLC with `tlc -config MCCursor.cfg MCCursor.tla` and so on for each run, and
the prover with `tlapm M.tla` for each module `M` of the list under *Proofs*.

## The system

| Component | State | Operations | Used by |
|---|---|---|---|
| `Cursor` (`cursor.rs`) | window of the buffer, position | fixed-size reads, varint, `read_var_bytes`, `skip`, `split`, `clone` | every parser |
| Elements (`transaction.rs`, `script.rs`) | none | `TxInput`, `TxOutput`, `Script`, `OutPoint` parse | `parse_with` |
| `TransactionParser` (`transaction.rs`) | a cursor, kept between calls | `parse_with(on_input, on_output)`, `bytes_consumed` | `BlockTxIter` |
| `Witness` (`transaction.rs`) | raw bytes, item count | `parse`, `items` | `parse_with` (`parse` only), user |
| `WitnessIter` (`transaction.rs`) | a cursor, `remaining` | `next` | user |
| `BlockHeader` (`block.rs`) | the header's fields | `parse`, `block_hash`, `difficulty_target` | `BlockTxIter::new` |
| `BlockTxIter` (`block.rs`) | a cursor, `total`, `consumed` | `new`, `next_tx`, `skip_remaining`, `finish_strict`, `consume_all_strict` | user, example |
| `BlkFileIter` (`block.rs`) | a cursor, the magic | `new`, `next_block` | user, example |
| `Script` (`script.rs`) | bytes | `script_type`, `instructions` | user, example |
| `Instructions` (`script.rs`) | script, position, `errored` | `next` | user |
| `parse_opts` (example) | place in the arguments, options, path | one pass | `main` |
| `main` (example) | the block, four variables shared with two closures | find a block, stream it, give a verdict | command line |

The crate is sequential.  What makes it hard is elsewhere:

* User code runs inside `parse_with`, between two reads, and may refuse.
* Every parser keeps its cursor after an error, so a caller may go on from a
  position that no successful call would have left.
* Cursors share a buffer.  `next_tx` parses a slice of it with a new parser and
  then moves its own cursor by what the parser reports; `parse_with` does the
  same with `Witness::parse`.
* Lengths and counts come from the input and may exceed the buffer, a limit, or
  `usize`; the accesses behind the checks are unchecked.
* Loops are bounded by counts that the input declares.
* The closures of the example share variables with the loop that calls
  `next_tx`: what they do depends on what the loop has reset.

What makes each component correct:

* **Cursor** — no access outside the window; every byte handed out once;
  exact errors; a failure loses a length prefix at most.
* **TransactionParser** — an encoded transaction comes back as it was, and a
  truncated one is `UnexpectedEof`; callbacks get every element once, in order,
  and none after one has refused; every call returns.
* **BlockTxIter** — a transaction counts as consumed once, at the right place,
  whatever failed before; a repeated call repeats the same deliveries; the
  strict calls accept complete blocks with one leading coinbase only.
* **BlkFileIter** — every block stands behind its own prefix; nothing is
  skipped without an error; a client that goes on after errors gets on.
* **Script** — `script_type` recognises exactly the scripts whose instructions
  are those of a template; `Instructions` splits a script without gaps, says
  exactly what is missing, and stays ended.
* **Witness** — `items()` gives back the slices that `parse` read; whatever the
  public fields hold, no byte outside `raw` and none twice.
* **parse_opts** — the options are what the list as a whole says.
* **main** — index, flag, coinbase count and sum agree with what was delivered
  at every moment; the lines are those asked for; `Ok` means a whole block with
  one coinbase.

## Modules

| Module | Models | Checked or proved by |
|---|---|---|
| `Cursor` | every method of `Cursor`, as an operator from a cursor to a result that holds the cursor afterwards, the value or error, and the offsets accessed | all |
| `CursorClients` | code that owns any number of cursors on one buffer | `MCCursor`, `CursorClientsProofs` |
| `Witness` | the count and the items of a witness | `Transaction`, `WitnessIter` |
| `Transaction` | element parsers, and the steps of `parse_with` | `TransactionParser`, `BlockTxIter`, `ParseBlock` |
| `TransactionParser` | a client that reuses one parser | `MCTransactionParser`, `TransactionParserProofs` |
| `WitnessIter` | `Witness::parse`, `items` and a loop over them; also a `Witness` made by hand | `MCWitnessIter`, `WitnessIterProofs` |
| `TxStream` | abstract: what the block iterator promises its client, without bytes | implemented by `BlockTxIter` |
| `BlockTxIter` | the iterator and a client of all its methods | `MCBlockTxIter`, `BlockProofs` |
| `BlkFile` | `next_block`, as an operator on the iterator's cursor | `BlkFileIter`, `ParseBlock` |
| `BlkFileIter` | the iterator over a `.dat` file and its client | `MCBlkFileIter`, `BlkFileIterProofs` |
| `ScriptType` | `ScriptType::classify` | `Instructions`, `ParseBlock` |
| `Instructions` | the iterator over a script's instructions, and a loop that does not stop calling it | `MCInstructions`, `InstructionsProofs` |
| `Hashes` | `double_sha256`, `block_hash`, the order in which a hash is displayed | `MCBlockHash` |
| `ParseOpts` | `parse_opts` of the example | `MCParseOpts`, `ParseOptsProofs` |
| `ParseBlock` | `main` of the example, on `BlockTxIter`, `BlkFile` and `ScriptType` | `MCParseBlock`, `BlockProofs` |
| `Encoding` | the writing side, after the encoder of `examples/parse_block.rs` | the modules below |
| `TxEncoding` | which transactions can be written, and when a value read is the one written | the next two, `ParsingLemmas` |
| `TransactionCoding`, `BlockCoding`, `FileCoding` | what the parser and the two iterators promise for encoded transactions, blocks and files | `MCTransactionParser`, `MCBlockTxIter`, `MCBlkFileIter`; `TransactionParserProofs`, `BlockProofs`, `BlkFileIterProofs` |
| `Samples` | transactions that the runs encode | the `MC` modules but `MCCursor` and `MCParseOpts` |
| `ParsingLemmas` | lemmas about the operators of `Cursor`, about the steps of `Transaction`, and about both on bytes written by `Encoding` | cited by the proofs below |
| `CursorClientsProofs`, `TransactionParserProofs`, `BlockProofs`, `WitnessIterProofs`, `BlkFileIterProofs`, `InstructionsProofs`, `ParseOptsProofs` | the theorems | TLAPS |

**Slices.** A borrowed slice is a pair of end offsets in the one buffer `data`.
Nothing is copied in the model either, and whether two slices share a byte is a
matter of arithmetic.

**Results.** `Result(ok, cur, val, err, got)`: methods that take `&mut self`
return the cursor as they leave it, on errors too.  `AndThen(r, F)` is
`let x = r?; F(x)`.

**Bytes.** `Base` is the number of values of a byte.  The code's literals become
`Base - 3`, `Base - 2`, `Base - 1` (0xfd, 0xfe, 0xff: varint prefixes) and
`Base ^ 4 - 1` (0xffffffff).  Integers have their real numbers of bytes, in the
small base.  `UsizeMax` stands for `usize::MAX`; `CheckedAdd` fails beyond it
and `as usize` truncates to it.

**Steps of `parse_with`.** One action for each stretch of code between two calls
of user code or two rounds of a loop: `ParseHead` (288–339), `ParseInput` and
`BadInput` (341–344), `ParseOutputCount` (346–358), `ParseOutput` and
`BadOutput` (360–363), `EndOutputs` (368), `ParseWitnessCount`,
`ParseWitnessItem`, `EndWitness` (369–373, 137–160), `ParseLocktime` (375–376).
The answer of a callback is chosen freely.  Between the reads of one element
the code runs alone, so a finer step would show nothing new.

**Steps of the loops.** `Instructions`, `WitnessIter` and `ParseOpts` have one
action for each round of their loop and outcome of it.  `Instructions` runs on a
window of a longer buffer, since scripts lie inside transactions and a read past
the end of one would find bytes there.

**Histories.** `log`, `accepted`, `failed`, `taken`, `span`, `start`, `refused`,
`blocks`, `failures`, `parsed`, `byHand` and `yielded` record what happened for the properties; no guard reads
them.

**Composition.** `BlockTxIter` extends `Transaction`: `BeginTx` starts the steps
on a new cursor over `AsSlice` of the iterator's, `TxParsed` and `TxFailed` are
what `next_tx` does with the result.  `skip_remaining` and `consume_all_strict`
are the same loop with other callbacks; `StrictInput` is the wrapper of lines
228–245, which may answer in place of the client's callback.
`consume_all_strict` takes the iterator by value, so the client is left without
one (`call = "gone"`).

`ParseBlock` is another client of the same iterator and extends it too, with
`MainInit`, `MainNext` and `MainSpec` of its own: its `InsideNextTx` are the
iterator's actions, and its `OnInput` and `OnOutput` join a step of the parser
with what the example's closures do in it.  `Dat(Magic)` instantiates `BlkFile` with the file's bytes in
place of `data`, once for each magic; `data` is the block then taken out.

**Refinement.** `TxStream` knows transactions as sequences of deliveries, a place
among them and the last failed try.  `BlockTxIter` implements it
(`ImplementsStream`) with `total` as the declared count once there is an
iterator, `current` as the deliveries of the running parser, and `busy` as
"a method runs"; `accepted` and `failed` are the histories of the same name.
Cursors, slices, counts and the parser's phases are stuttering steps.  What it
says is stronger than the sum of invariants: a call either takes the current
transaction, whole and once, or leaves it, and then the next tries deliver the
same from the beginning; and every call returns.

## Runs

| Run | States | Question |
|---|---|---|
| `cursor` | 59,149 | Can any sequence of calls, with any lengths, make a cursor leave its window, deliver a byte twice, lose one, or misreport? |
| `transaction_parser` | 18,424 | Does one parser, reused after success and failure and with callbacks that refuse, deliver what is encoded, and say `UnexpectedEof` when cut short? |
| `block_tx_iter` | 52,498 | Do the iterator's methods, in any order and repeated after any error, keep its place and its strict promises? |
| `blk_file_iter` | 2,406 | Does a client that goes on after errors ever get a block that is no entry, or lose one silently? |
| `witness_iter` | 245,263 | Does `items()` give back what `Witness::parse` read, and does it stay within `raw` for a witness whose fields do not fit? |
| `instructions` | 116,006 | Do the instructions of any script spell it, are errors exact and final, and does `script_type` agree with them? |
| `parse_opts` | 51,226 | Is the result of the one pass what the whole list of arguments says? |
| `parse_block` | 81,122 | Do the example's counters and lines agree with the block at every moment, and its verdict with the whole of it? |
| `coinbase_error`, `multisig`, `dat_files`, `block_hash` | — | Findings, see below. |

Bounds, and why they are enough:

* `Base = 8` leaves the literals 0–4 and the three varint prefixes; all prefix
  lengths (1, 3, 5, 9 bytes) occur, as do 0 and 1 for the SegWit marker.
* `UsizeMax = 4095`: a 4-byte integer just fits, an 8-byte one need not, so
  `IntegerTooLarge` occurs (as on a 32-bit target).  Lengths up to `UsizeMax` are
  passed to `read_bytes`, so position plus length overflows.
* `HashLen = 1`: a hash is compared with zero and handed out, nothing else.
  `MaxIoCount`, `MaxWitnessItems`, `MaxBlockTxn` are 2 and `MaxScriptSize` is 5:
  inputs lie at, below and above each of them, and the loops go round twice.
  (`MCBlockHash` has two bytes to a hash, for their order to show, and
  `MCWitnessIter` up to three items, so that one follows an error in the middle.)
* `MCInstructions` has 16 values of a byte, enough for all opcodes that
  `classify` or `next` distinguish, with hashes and keys of two to five bytes.
  Every window of every buffer is a script: of all buffers of up to two bytes,
  of all pairs of instructions in each form of push, of the standard scripts
  with any byte replaced, and of one push too long for a one-byte length.
* `MCWitnessIter` gives a witness made by hand every window of every buffer and
  item counts up to one more than `MaxWitnessItems`.
* `MCParseOpts` takes all lists of up to four arguments out of every flag, two
  numbers and a path: two flags with their numbers, or one given twice.
* `MCParseBlock` has 12 values of a byte.  Blocks of up to two transactions, raw
  and as `.dat` entries of three networks, cut short, corrupted and with bytes
  behind, under eight sets of options; two of its outputs overflow a `u64`.
* `MCCursor` gives three names to cursors on buffers of up to two bytes and two
  names on buffers long enough for a 9-byte varint (`Bound`).  Two cursors share
  bytes already; the third is a split of a split.  Symmetry over the names is
  sound: they are interchangeable, and the run has no liveness property.
* Encoded inputs are complete, every prefix, with every byte replaced by each
  of several values, and concatenated; `TooMany` exceeds the block limit.
* The clients of the parsers and iterators call without limit; the state space is finite because cursors only
  advance and a retry that changes nothing returns to a known state.

Deadlock is checked everywhere: a client whose iterator is gone stutters by
`Over`, every other state has a call to make.

## Fairness

The model's only process is the caller's thread.  Once a method has been called
it runs until it returns, and callbacks return: that is weak fairness of the
steps inside a method.  No fairness is assumed of the client, which need not call
again.  The formula is stated as `[]<>(~ Running) \/ []<><<Running>>_vars`,
which is weak fairness with its `ENABLED` written out: while a method is running
some step inside it is enabled (deadlock checking confirms it) and no other
action is.  Writing `WF_vars` gives the same meaning but makes TLC evaluate the
nested reads of an enabled step exponentially often.

`CallsReturn` of `TransactionParser` and `Returns` of `TxStream`, which
`BlockTxIter` implements, then say that every method returns, whatever counts
the input declares: each round of each loop consumes a byte, counts down, or
fails.  `Returns` of `ParseBlock` says that the example does, errors included;
there `main` is the only process and runs until it returns.

`Instructions` has `WF_vars(Next)`: a loop over an iterator calls `next` until it
answers `None`, and goes on after an error if its body does.  `LoopEnds` then
says that `None` is reached from every script, broken ones too.  `WitnessIter`
and `ParseOpts` count down or step forward in every round; nothing is claimed
about their liveness and no fairness assumed.

## Proofs

The modules, in the order in which they build on each other: `ParsingLemmas`,
`CursorClientsProofs`, `BlkFileIterProofs`, `TransactionParserProofs`,
`BlockProofs`, `WitnessIterProofs`, `InstructionsProofs`, `ParseOptsProofs`.  Each theorem is `Spec => []P`, or `Spec => P` of an action
property, and follows from an inductive invariant `IInv` with one lemma for each
action.  Assumptions are those the constants are declared with.

### Cursors

The first part of `ParsingLemmas` proves, for each operator of `Cursor`, what it leaves of the
cursor and what it accesses.  The notions are

* `Valid(c)`: the window lies in the buffer, the position in the window;
* `Reads(c, r, k)`: `r` moved `c` forward over exactly the offsets in `r.got`,
  which were unread; on failure by `k` bytes at most; and an `UnexpectedEof`
  is exact.

`ReadBytesLemma` and `ReadU8Lemma` come from the code's guards, `AfterLemma`
composes two reads, and the composite reads follow (`ReadVarintLemma`,
`ReadVarBytesLemma`, `SplitLemma`).

`CursorClientsProofs` proves, for every buffer, `Base >= 4`, `UsizeMax`, set of
names, lengths and caps, from `CursorAssumption` and `ClientAssumption`:

| Theorem | Property |
|---|---|
| `TypeCorrect` | `TypeOK`: every window in the buffer, every position in its window |
| `BytesHaveOneOwner` | `OneOwner`: within a line of cursors each byte is taken once or unread once |
| `EofReportsShortage` | `EofIsExact` |
| `CursorsOnlyAdvance` | `OnlyAdvance` |
| `FailuresKeepPayload` | `FailureKeepsPayload` |

The inductive invariant is `IInv == TypeOK /\ OneOwner /\ EofIsExact`.  `TypeOK`
is needed by the others, since the lemmas assume `Valid` cursors; `OneOwner`
is inductive only in the form "per byte" (`Complete` and `Exclusive`,
`OneOwnerByByte`).  Three kinds of step preserve it: a call (`CallPreserves`), a
new line (`BeginPreserves`), a split (`SplitPreserves`).  `TypeOK` is what the
`get_unchecked` accesses of `read_bytes` rest on: the proof covers every length
and every buffer where the run covers a few.

### The file iterator

`BlkFileIterProofs` proves, for every file, four-byte magic and limit, from
`CursorAssumption` and `BlkFileAssumption` (a `u32` fits `usize`, without which
`MAX_BLOCK_BYTES` would not compile):

| Theorem | Property |
|---|---|
| `TypeCorrect` | `TypeOK`: the cursor in the file, the blocks windows of it within the limit |
| `EntriesHold` | `BlocksAreEntries` |
| `NothingIsSkipped` | `NothingSkipped` |
| `ErrorsAreSteps` | `ErrorsStepInside` |
| `FilesReadBack` | `FileRoundTrip`: a file of well-formed entries gives back its blocks |

`KnownMagicLemma`, `SizeLemma` and `EntryLemma` follow `next_block` read by read,
on the lemmas of the cursor; `CallKinds` sums them up: a call is at the end,
hands out an entry that starts at the cursor, or fails within a prefix.  The
inductive invariant is `TypeOK /\ BlocksAreEntries /\ NothingSkipped`: a new
entry does not overlap the earlier ones because these end before the cursor,
which is part of `BlocksAreEntries`.

`FilesReadBack` holds for every set `Files` of lists of blocks whose sizes are
within the limit and fit a `u32` (`FilesAssumption`).  Its invariant, `Written`,
adds that the cursor stands behind as many entries as there are blocks handed
out, that these are the blocks written, and that nothing has failed; `NextEntry`
says that the next entry stands there, and the lemmas about encoded bytes (see
below) that the call reads it.

### The transaction parser

The second part of `ParsingLemmas` is about the elements and the steps of
`parse_with`, whoever calls it; `TransactionParserProofs` and `BlockProofs` rest
on it.  It answers three questions.

* *Where does a call stand?*  `Moves(c, r, k)` says that a read stays in the
  window and, when it succeeds, takes at least `k` bytes; `TxInputLemma`,
  `TxOutputLemma` and `TxHeadLemma` prove it of the elements.  `ParsesFrom(o)`
  is the invariant of a call begun on the cursor `o`: the locals count as far as
  their loops go (`Counting`), the log holds what they say has been delivered
  (`Logging`), and it lies in order between `o` and the cursor (`Spanning`).
  There is one lemma for each step (`ParseHeadParses` and so on).
* *What does a call deliver?*  `Reproducible(o, ds)`: the deliveries `ds` are
  those that the buffer holds behind `o`, each a function of the ones before it.
  `Tracking(o)` adds that the locals are those the buffer determines.  It says
  without recursion that two calls on the same bytes deliver the same.
* *Why does a call fail?*  `Explained` and `Answered`: a result that is not `Ok`
  carries an error.

`TransactionParserProofs`, for every buffer, limit and client, from
`CursorAssumption`, `WitnessAssumption`, `TransactionAssumption` and
`InputsAssumption`:

| Theorem | Property |
|---|---|
| `TypeCorrect` | `TypeOK` |
| `DeliveredInOrder` | `DeliveriesInOrder` |
| `OkIsComplete` | `OkMeansDelivered` |
| `RefusalsAreFinal` | `RefusalEndsTheCall` |

Its inductive invariant is `ParsesFrom` of the place where the last call began,
and that a refusal has ended the call.  `OkMeansDelivered` counts the log with
`Cardinality`; it follows from `Logging`, which says of each place in the log
whether it is an input, and so is inductive where the count is not.

### Encoded transactions

The third part of `ParsingLemmas` and the end of `TransactionParserProofs`:

| Theorem | Property |
|---|---|
| `CodingInvHolds` | the inductive invariant `CodingInv` |
| `ReadsBack` | `RoundTrip`: parsing inverts encoding |
| `CutShort` | `CutShortIsEof`: a transaction cut short is `UnexpectedEof` |

They hold for every set `Txs` of transactions within the limits (`Encodable`,
`TxsAssumption`), legacy and SegWit, standing anywhere in any buffer, and read by
the first call or by a later one, in every `Base` and every `usize` of at most 64
bits (`UsizeAssumption`; counts are written as `u64`s).  The lemmas go from the
digits up:

* `Holds(c, p, bs)` says that from place `p` of the window of `c` on there is
  `bs`, or as much of it as the window has room for; `Gets(c, r, n, v)`, that `r`
  takes the next `n` bytes as `v`, or fails with `UnexpectedEof` because there
  are fewer.  So one lemma covers a whole element and one that is cut short.
* `DivMod` and `DivModUnique` say that a number has one expansion in powers of
  the base; with them each fixed-size read gives back what `LittleEndian` wrote,
  signed ones included, and `ReadVarint` what `EncodeVarint` did, in each of its
  four lengths.
* Byte strings, inputs, outputs, witness items and the head of a transaction
  follow by composition, also the head's two readings of a zero byte.
* `Piece` cuts a string of bytes into the parts it was joined from (`PieceEach`,
  for the loops), and `Laid` (lemma `Layout`) where in an encoded transaction each input,
  output and witness stands.
* `Rendering(o, t)` is the invariant of a call begun on the cursor `o` where `t`
  stands: in each phase, the locals and the log are those of the part of `t` read
  so far, and the cursor stands behind that part.  `FailsShort(o, t)` says that a
  call that has failed, did so with `UnexpectedEof` where `t` does not fit.  There is one
  lemma for each step (`ParseHeadRenders` and so on).

`CodingInv` says both of every transaction in `Txs` and of the place where the
last call began, next to `IInv`.

### The block iterator

The first half of `BlockProofs`, for every block and every client, with
`BlockAssumption` in addition:

| Theorem | Property |
|---|---|
| `TypeCorrect` | `TypeOK` |
| `ParserSeesRest` | `ParserSeesTheRest` |
| `DeliveredOnce` | `ConsumedOnce` |
| `RetriesReplay` | `RetryReplays` |
| `FinishExact` | `FinishIsExact` |
| `StrictIsWholeBlock` | `StrictMeansWholeBlock` |
| `StreamSafety` | `Stream!Init /\ [][Stream!Next]_(Stream!vars)`: `BlockTxIter` implements the abstract stream |
| `BlocksReadBack` | `BlockRoundTrip`: an encoded block gives back its header and its transactions |

The inductive invariant has three parts.

* `Position`: the iterator's cursor, and that the parser of a running call was
  begun on the rest of the block (`ParsesFrom` and `Tracking` of `Rest`).
* `History`: what has been accepted lies in order before the cursor, and what
  the last failed try delivered is `Reproducible` from where the cursor stands.
  That is why a retry replays: `RetryReplays` alone is not inductive, since
  nothing in it says what the next delivery will be.
* `Strictness`: what `consume_all_strict` knows from its count of coinbases.  In
  a call that has not failed, a count of one means that the first transaction of
  the block has a coinbase in first place and no later one has; so a call on an
  iterator that had been used before can answer `Ok` only if it had not.

`StreamSafety` takes the initial states and each kind of step: the client's
calls, deliveries, the ends of transactions and of calls are the steps of
`TxStream`, everything else stutters (`StepsStream`).  That an accepted
transaction shows all of what the failed try before it had shown, which
`TxStream` demands, is `ReplayIsWhole`.

`BlocksReadBack` holds for every header, every set `Blocks` of lists of
encodable transactions no longer than `MaxBlockTxn` (`BlocksAssumption`), and
whatever follows the block in the buffer.

* Where each transaction stands is arithmetic: `TxAt(b, k)` is the length of the
  header, of the count and of the `k` encodings before it, and `BlockLayout`
  shows that each encoding stands there as a whole.
* `NewIterReads` follows `BlockTxIter::new` through the header and the count.
  The header is compared as bytes: an integer read in `Base` and written again
  gives the digits it was read from (`WordWritten`, by `DigitsBack`), also where
  it was read as a signed one.
* `ReadingBlock` is the invariant: the cursor stands at the next transaction,
  each accepted one shows what was encoded, the parser renders a part of the
  next one (`Rendering` of `Rest`, as in `ReadsBack`), and a parse that failed
  has failed by the client, or by the strict check.  That no read runs short is
  needed for the last part: `ParseAloneRenders` leaves `UnexpectedEof` as the one
  error, and the transaction stands there as a whole.

### Witnesses

`WitnessIterProofs`, for every buffer, limit and witness put together by hand,
with `WitnessIterAssumption`:

| Theorem | Property |
|---|---|
| `TypeCorrect` | `TypeOK` |
| `ItemsOrdered` | `ItemsAreOrdered` |
| `ItemsComeBack` | `ParsedItemsComeBack` |

`items()` reads in a narrower window what `parse` read in the whole rest of the
buffer.  `Narrower(d, c)` relates two such cursors, and `SameAs` says that a
read through `c` that ends inside the window of `d` gives the same through `d`;
it is proved for each read (`NarrowBytes` to `NarrowItem`), `NarrowAfter` being
the composition.  The invariant records that reading the buffer again gives what
`parse` has recorded (`Recorded`), and where the iterator stands among the
recorded items (`Replayed`); `Ordered` holds of any witness.

### Instructions

`InstructionsProofs`, for every script in every buffer, with `ScriptAssumption`
and `InstructionsAssumption`:

| Theorem | Property |
|---|---|
| `TypeCorrect` | `TypeOK` |
| `ScriptSpelled` | `SpellsScript` |
| `ErrorsAreOverruns` | `ErrorMeansOverrun` |
| `StoppedForGood` | `StaysEnded` |
| `TypesAreTemplates` | `TypeIsTemplate`: `classify` and `next` agree |

All but the first and the fourth speak of `Ends`, a function defined by
recursion over the instructions that have been handed out.  The run itself is
the induction: the inductive invariant says that the equation of `Ends` has
exactly one solution (`OnlySolution`), and each answer of `next` extends that
solution by one place (`NextSolution`).

`TypesAreTemplates` compares two readings of a script: `classify` compares bytes
at fixed offsets, `next` steps from opcode to opcode.  The invariant says where
each instruction begins and ends (`Spelled`), and that an error is a push that
overruns the script (`Overrun`), which no byte of a matching script can be.  Then

* `Distinct` gets the inequalities between opcodes and lengths from the
  cardinalities that `ScriptAssumption` gives;
* the `Framing` lemmas say of each form of pattern which bytes it demands, and
  `OpAt`, `PushAt` and `EndAt` which instruction such a byte begins; chained,
  they give one lemma for each form (`OpOpPushOpOp` and those after it): the
  script matches exactly if it has these instructions and ended without error;
* `EachIsTold` puts that in terms of the list of shapes, `OnlyOneMatches` says
  that the order of the patterns does not matter, and `TypeAtTheEnd` combines
  them for all six types.

### The arguments

`ParseOptsProofs`, for every set of argument lists, from `OptsAssumption`:
`ReadsTheLineAlways` is `ReadsTheLine`.

`Taken` says of each argument whether the one before it uses it as its number,
and is defined by recursion over the list.  The induction theorems of the
library take an operator as a parameter, which no backend instantiates, but
`WFMin` does not: `SetInduction` follows from it for a set of numbers, and
`TakenExists` builds the function argument by argument.  The inductive invariant
`Inv` compares the options with the arguments before `i` only (`Given`, `Words`)
and says that `i` is not taken and not behind a stop (`Stands`).  `GivenGrows`,
`LastOf` and `FirstOf` say how these sets grow when the pass goes on by one
argument or by two; `Names` that a flag is one switch or one count.

### The example

The second half of `BlockProofs`, for every set of files, synthetic block,
magics and answers of `parse_opts`, from `ParseBlockAssumption` and those of the
modules below:

| Theorem | Property |
|---|---|
| `MainInvHolds` | the inductive invariant `MainInv` |
| `CountersExact` | `CountersAreExact` |
| `PrintsAsked` | `PrintsAsAsked` |
| `OkIsWholeBlock` | `OkMeansWholeBlock` |

`MainInv` is `IInv` of the iterator, the three properties, and `Standing`: which
call `main` is in at which stage, that nothing is counted before there is an
iterator, and that a transaction half delivered belongs to a call that has
failed, after which `main` returns (without which a retry would count its
outputs twice).  The three properties compare `main`'s variables with a set, a
sum and a concatenation over all that was delivered, so the proof needs what one
delivery more does to each:

* `SumFunction` is a fold over the indices in an order that `CHOOSE` decides.
  `Sums` is its equation over all sets of indices at once; that it has one
  solution, and that the solution gives the same sum whichever index is taken
  first, is by induction on the size of the set (`SetInduction` again).  Then
  `TxSumMore` and `TotalMore` are the sums of a transaction and of a block with
  one more output.
* `FlattenSeq` is a recursive function; `FlattenIs` and `FlattenMore` say that
  it joins sequences, `LinesMore` and `TextMore` what is appended for one
  delivery and for one transaction.
* `CoinbasesMore` counts one transaction more.

`Exact` and `Text` state the properties of any values in place of the
variables, so that a step is a statement about numbers and sequences.
`SaturatingAdd` is exact because a sum capped at every step is the cap of the
sum.  `UnwrappedIsBuffer` shows that what is taken out of a `.dat` file is a
buffer such as `BlockTxIter` assumes, and `MakeIter` that the iterator made on
it is `Fresh`; so the lemmas about its steps apply to those of `main`.

### What is only model-checked

TLC has checked the inductive invariants on the instances of the runs before
they were proved (of `OnlySolution`, which quantifies over all values, that
`Ends` solves its equation).  Only model-checked are

* `ReportsTheBlock`, which is about the blocks of its run: it compares what the
  example reports with what went into each of them;
* liveness (`CallsReturn`, `LoopEnds`, `Returns` of `ParseBlock`, and the
  fairness of `TxStream` in `ImplementsStream`), which the prover does not cover.

## Findings

`CoinbaseErrorMeansWrongNumber` (run `coinbase_error`).  `error.rs` 61 documents
`InvalidCoinbaseCount` as "A block contained an unexpected number of coinbase
transactions."  `consume_all_strict` also returns it for blocks with exactly one:
with count 1 when the coinbase is not the first transaction (line 237), and
with count 0 when `next_tx` has consumed the coinbase before the call, since the
count starts at zero whatever `consumed` is (line 220).  The run shows the second.

`BareMultisigIsRecognised` (run `multisig`).  The crate's README (line 41) lists
bare multisig among the scripts that are matched, and `ScriptType::Multisig` is
documented in `script.rs` 98, but no arm of `classify` (113–138) returns it: such
a script is `Unknown`, and the example's branch for it (182–193) never runs.

`DatFilesAreUnwrapped` (run `dat_files`).  The README (lines 205–206) says that
`parse_block` unwraps the first block of a `blkNNNNN.dat` file.
`try_first_dat_entry` goes through the magics of three networks, but its `?`
(line 269) leaves with `MagicMismatch` in the first round; only mainnet files
are unwrapped (`ReportsTheBlock`), others reach `BlockTxIter::new` with their
prefix.

`BlockHashIsInDisplayOrder` (run `block_hash`).  `block.rs` 76 documents the
result of `block_hash` as "in Bitcoin display byte order", which is the reverse
(`hash.rs` 35); it returns the digest as it stands (`hash.rs` 75), the order in
which `prev_block` stores it.

## Behaviour worth knowing

These follow from the models and contradict no documentation:

* A failed `next_tx` leaves the iterator where it was, but its callbacks may have
  been called; repeated, it calls them again from the first input
  (`RetryReplays`).
* `parse_with` repeated on one `TransactionParser` goes on in the middle of the
  transaction that failed.
* After an error `next_block` looks for the next magic inside the entry it
  refused, in steps of four or eight bytes, so it can hand out an entry nested in
  another and can miss one that is shifted.  One to three bytes at the end of a
  file are an error for ever.
* `WitnessIter` goes on after an error, with the items still counted, from where
  the failed read stopped; only a `Witness` made by hand can bring it there.
* `parse_opts` reports no fault in arguments behind `--help`, and keeps the first
  of several paths.
* The example prints lines of transactions before it knows whether the block is
  whole; only the last line, the total, depends on the verdict.

## Not modelled

* `difficulty_target` and `is_rbf` take one field apart or compare it.  The SHA-256 of the `sha2`
  crate is an uninterpreted operator, and `MCBlockHash` gives it any value that
  tells inputs apart.
* `Display` and `Debug` of errors and transactions: formatting.
* Of the example: lines that print a header field or a count once; reading the
  file, which succeeds or fails.
* `InvalidVarInt`, `UnsupportedVersion`, `InvalidCoinbase`: never produced.
* Tests, benchmarks, manifest, CI.
* Lifetimes and the type system: a slice cannot outlive `data` in the model
  because `data` does not change; the compiler checks the rest.

## Plan

1. *Done:* the models and runs above; the proofs of the cursor, the parser, both
   iterators, the witnesses, the instructions, the arguments and the example.
2. *Prove next:* action properties, where a later change of the code makes one
   worth stating.
3. *Not planned:* two clients of one file, since a cursor is owned by its caller
   and the crate shares nothing between threads but bytes that do not change.
