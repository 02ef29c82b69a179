---------------------------- MODULE FileCoding ----------------------------
(***************************************************************************)
(* BlkFileIter compared with the encoder: what next_block makes of a file  *)
(* of well-formed entries.                                                 *)
(***************************************************************************)
EXTENDS BlkFileIter, Encoding

CONSTANT Files    (* the files compared with, as the blocks in them.       *)

ASSUME FilesAssumption ==
  \A f \in Files :
    /\ f \in Seq(Seq(Byte))
    /\ \A k \in 1 .. Len(f) : Len(f[k]) <= MaxBlockBytes /\ Len(f[k]) < Base4

(* As build_block_message of the tests writes them.                        *)
EncodeEntry(b) == Magic \o LittleEndian(Len(b), 4) \o b

EncodeFile(f) == Each(EncodeEntry, f)

(* Of a file of well-formed entries the client gets the blocks written, in *)
(* their order, then None from every further call, and no error            *)
(* (block.rs 289-309).                                                     *)
FileRoundTrip ==
  \A f \in Files :
    data = EncodeFile(f) =>
      /\ ~ failures
      /\ IsPrefix([k \in 1 .. Len(blocks) |-> BytesOf(blocks[k])], f)
      /\ answer.val = NoBlock => Len(blocks) = Len(f)

=============================================================================
