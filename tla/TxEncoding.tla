---------------------------- MODULE TxEncoding ----------------------------
(***************************************************************************)
(* Which transactions can be written, and what it means that an element    *)
(* read is the one that was written.                                       *)
(***************************************************************************)
EXTENDS Transaction, Encoding

(* usize has at most 64 bits, and the limits are constants of this type.   *)
ASSUME UsizeAssumption ==
  /\ UsizeMax < Base4 * Base4
  /\ {MaxIoCount, MaxScriptSize, MaxWitnessItems, MaxWitnessItemSize} \subseteq 0 .. UsizeMax

U32s == 0 .. Base4 - 1

U64s == 0 .. Base4 * Base4 - 1

(* A transaction within the limits.  It has an input: a count of zero      *)
(* would announce SegWit.                                                  *)
Encodable(t) ==
  /\ t.version \in Int /\ -Base4 <= 2 * t.version /\ 2 * t.version < Base4
  /\ t.segwit \in BOOLEAN
  /\ t.inputs \in Seq([txid : Seq(Byte), vout : U32s, script : Seq(Byte), sequence : U32s])
  /\ Len(t.inputs) \in 1 .. MaxIoCount
  /\ \A k \in 1 .. Len(t.inputs) :
       Len(t.inputs[k].txid) = HashLen /\ Len(t.inputs[k].script) <= MaxScriptSize
  /\ t.outputs \in Seq([value : U64s, script : Seq(Byte)]) /\ Len(t.outputs) <= MaxIoCount
  /\ \A k \in 1 .. Len(t.outputs) : Len(t.outputs[k].script) <= MaxScriptSize
  /\ t.locktime \in U32s
  /\ t.segwit =>
       /\ t.witnesses \in Seq(Seq(Seq(Byte))) /\ Len(t.witnesses) = Len(t.inputs)
       /\ \A k \in 1 .. Len(t.witnesses) :
            /\ Len(t.witnesses[k]) <= MaxWitnessItems
            /\ \A m \in 1 .. Len(t.witnesses[k]) : Len(t.witnesses[k][m]) <= MaxWitnessItemSize

Bytes(s) == SubSeq(data, s.lo + 1, s.hi)

(* The value read is the input, or the output, that was written.           *)
IsInput(v, i) ==
  /\ Bytes(v.txid) = i.txid /\ v.vout = i.vout
  /\ Bytes(v.script) = i.script /\ v.sequence = i.sequence

IsOutput(v, o) == v.value = o.value /\ Bytes(v.script) = o.script

(* The deliveries ds are the inputs of t and then its outputs.             *)
Shows(ds, t) ==
  LET n == Len(t.inputs) IN
  /\ Len(ds) = n + Len(t.outputs)
  /\ \A k \in 1 .. n : ds[k].kind = "input" /\ IsInput(ds[k].val, t.inputs[k])
  /\ \A k \in 1 .. Len(t.outputs) :
       ds[n + k].kind = "output" /\ IsOutput(ds[n + k].val, t.outputs[k])

=============================================================================
