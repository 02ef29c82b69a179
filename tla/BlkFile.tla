------------------------------- MODULE BlkFile -------------------------------
(***************************************************************************)
(* BlkFileIter::next_block of src/block.rs as an operator on the           *)
(* iterator's cursor.  An entry of a blkNNNNN.dat file is a magic, a size  *)
(* and that many bytes of block.  BlkFileIter calls it again and again,    *)
(* ParseBlock once for each magic it knows.                                *)
(***************************************************************************)
EXTENDS Cursor

CONSTANTS
  Magic,          (* the four bytes the iterator is configured to expect.  *)
  MaxBlockBytes   (* MAX_BLOCK_BYTES                                       *)

(* A u32 fits usize: MAX_BLOCK_BYTES does not compile for a smaller usize. *)
ASSUME BlkFileAssumption ==
  /\ Magic \in Seq(Byte) /\ Len(Magic) = 4
  /\ MaxBlockBytes \in Nat
  /\ Base4 <= UsizeMax + 1

MagicLen == Len(Magic)

PrefixLen == MagicLen + 4

-----------------------------------------------------------------------------
(* next_block, with Some(b) as a block and None as the value of no block.  *)

SomeBlock(s) == [kind |-> "block", bytes |-> s]

NoBlock == [kind |-> "end"]

MagicMismatch(s) == [kind |-> "MagicMismatch", expected |-> Magic, got |-> s]

BytesOf(s) == [i \in 1 .. s.hi - s.lo |-> At(s.lo + i - 1)]

(* The cast u32 as usize, which drops the bits that do not fit.            *)
AsUsize(r) == IF r.ok THEN Ok(r.cur, r.val % (UsizeMax + 1), r.got) ELSE r

(* Mutant: the size is not compared with the limit.                        *)
SizeUnlimited(c) == AsUsize(ReadU32(c))

(* Mutant: the size is taken to count its own four bytes.                  *)
SizeOfSizeAndBlock(c) ==
  LET n == Capped(AsUsize(ReadU32(c)), MaxBlockBytes) IN
  IF n.ok /\ n.val >= 4 THEN Ok(n.cur, n.val - 4, n.got) ELSE n

Size(c) == Capped(AsUsize(ReadU32(c)), MaxBlockBytes)

(* Mutant: the magic is read but not looked at.                            *)
AnyMagic(c) == ReadArray(c, MagicLen)

(* The magic, if it is the one expected.                                   *)
KnownMagic(c) ==
  AndThen(ReadArray(c, MagicLen), LAMBDA magic :
    IF BytesOf(magic.val) = Magic THEN Ok(magic.cur, magic.val, {})
    ELSE Fail(magic.cur, MagicMismatch(magic.val), {}))

(* Mutant: an entry that is refused leaves the cursor before its prefix.   *)
EntryOrBack(c) ==
  LET block == AndThen(KnownMagic(c), LAMBDA magic :
               AndThen(Size(magic.cur), LAMBDA size : ReadBytes(size.cur, size.val)))
  IN  IF block.ok THEN Ok(block.cur, SomeBlock(block.val), block.got)
      ELSE Fail(c, block.err, block.got)

Entry(c) ==
  AndThen(KnownMagic(c), LAMBDA magic :
  AndThen(Size(magic.cur), LAMBDA size :
  AndThen(ReadBytes(size.cur, size.val), LAMBDA block :
    Ok(block.cur, SomeBlock(block.val), {}))))

(* Mutant: bytes too few for a prefix are taken for the end of the file.   *)
NextBlockIgnoresRest(c) ==
  IF Remaining(c) < PrefixLen THEN Ok(c, NoBlock, {}) ELSE Entry(c)

NextBlock(c) ==
  IF IsEmpty(c) THEN Ok(c, NoBlock, {}) ELSE Entry(c)

=============================================================================
