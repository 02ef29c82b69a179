------------------------------- MODULE Witness -------------------------------
(***************************************************************************)
(* The wire format of a witness: a count and that many items.  Both        *)
(* Witness::parse and WitnessIter of src/transaction.rs read it.           *)
(***************************************************************************)
EXTENDS Cursor

CONSTANTS
  MaxWitnessItems,     (* MAX_WITNESS_ITEMS                                *)
  MaxWitnessItemSize   (* MAX_WITNESS_ITEM_SIZE                            *)

ASSUME WitnessAssumption == {MaxWitnessItems, MaxWitnessItemSize} \subseteq Nat

CountRead(r, max) == Capped(ToUsize(r), max)

(* Mutant: the count is not compared with the limit.                       *)
WitnessCountUnlimited(c) == ToUsize(ReadVarint(c))

WitnessCount(c) == CountRead(ReadVarint(c), MaxWitnessItems)

WitnessItem(c) == ReadVarBytes(c, MaxWitnessItemSize)

=============================================================================
