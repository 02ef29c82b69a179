----------------------------- MODULE BlkFileIter -----------------------------
(***************************************************************************)
(* BlkFileIter of src/block.rs over a blkNNNNN.dat file, and a client that *)
(* calls next_block as often as it likes, also after an error.             *)
(*                                                                         *)
(* A call that fails leaves the cursor behind what it has read of the      *)
(* prefix.  The next call looks for a magic there, inside the entry that   *)
(* was refused, and may find one.                                          *)
(***************************************************************************)
EXTENDS BlkFile

CONSTANT Inputs    (* the files a client may hold.                         *)

ASSUME InputsAssumption ==
  Inputs \subseteq {d \in Seq(Byte) : Len(d) <= UsizeMax}

VARIABLES
  file,     (* the iterator's cursor.                                      *)
  answer,   (* what the last call returned.                                *)
  blocks,   (* history: the blocks handed out, in order.                   *)
  failures  (* history: whether a call has failed.                         *)

vars == <<data, file, answer, blocks, failures>>

-----------------------------------------------------------------------------

NoAnswer == [ok |-> FALSE, val |-> NoValue, err |-> NoError]

Init ==
  /\ data \in Inputs
  /\ file = CursorNew(AllData)
  /\ answer = NoAnswer
  /\ blocks = <<>>
  /\ failures = FALSE

CallNextBlock ==
  LET r == NextBlock(file) IN
  /\ file' = r.cur
  /\ answer' = [ok |-> r.ok, val |-> r.val, err |-> r.err]
  /\ blocks' = IF r.ok /\ r.val.kind = "block" THEN Append(blocks, r.val.bytes) ELSE blocks
  /\ failures' = (failures \/ ~ r.ok)
  /\ UNCHANGED data

Next == CallNextBlock

Spec == Init /\ [][Next]_vars

-----------------------------------------------------------------------------
(* Properties.                                                             *)

BlocksOf(n) == {s \in [lo : 0 .. n, hi : 0 .. n] : s.hi - s.lo \in 0 .. MaxBlockBytes}

(* The type invariant.                                                     *)
TypeOK ==
  /\ DataOK
  /\ file \in [lo : {0}, len : {Len(data)}, pos : 0 .. Len(data)]
  /\ answer.ok \in BOOLEAN
  /\ blocks \in Seq(BlocksOf(Len(data)))
  /\ failures \in BOOLEAN

(* Each block handed out stands behind a magic and a size that counts its  *)
(* bytes, and the entries follow each other without sharing a byte, also   *)
(* when calls before them failed (block.rs 289-309).                       *)
BlocksAreEntries ==
  \A k \in 1 .. Len(blocks) :
    LET s == blocks[k] IN
    /\ BytesOf(Slice(s.lo - PrefixLen, s.lo - 4)) = Magic
    /\ U32(s.lo - 4) = s.hi - s.lo
    /\ s.hi <= file.pos
    /\ s.lo - PrefixLen >= IF k = 1 THEN 0 ELSE blocks[k - 1].hi

(* As long as no call has failed, the entries handed out cover the file    *)
(* from its first byte to the cursor without a gap.  So None, which is     *)
(* only returned at the end of the buffer, then means that the client has  *)
(* had the whole file (block.rs 290-292).                                  *)
NothingSkipped ==
  /\ answer.ok /\ answer.val = NoBlock => file.pos = Len(data)
  /\ ~ failures =>
       /\ \A k \in 1 .. Len(blocks) :
            blocks[k].lo - PrefixLen = IF k = 1 THEN 0 ELSE blocks[k - 1].hi
       /\ file.pos = IF blocks = <<>> THEN 0 ELSE blocks[Len(blocks)].hi

(* A call that fails takes no more than a prefix, and takes something      *)
(* unless too little is left for a magic.  So a client that goes on after  *)
(* errors is not kept at one place, except by the last three bytes of a    *)
(* file, and no error costs it the bytes of a block (block.rs 293-307).    *)
ErrorsStepInside ==
  [][~ answer'.ok =>
       /\ file'.pos - file.pos \in 0 .. PrefixLen
       /\ file'.pos = file.pos => Remaining(file) \in 1 .. MagicLen - 1]_vars

=============================================================================
