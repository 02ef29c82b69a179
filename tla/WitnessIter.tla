----------------------------- MODULE WitnessIter -----------------------------
(***************************************************************************)
(* Witness::items and WitnessIter of src/transaction.rs, and a loop over   *)
(* the items that goes on until next answers None, also after an error.    *)
(*                                                                         *)
(* The witness is one that Witness::parse has made, or one put together by *)
(* hand: the fields raw and item_count are public, and nothing then ties   *)
(* them to each other.                                                     *)
(***************************************************************************)
EXTENDS Witness

CONSTANTS
  HandCounts,   (* the item counts of a witness made by hand,              *)
  Inputs        (* and the buffers.                                        *)

ASSUME WitnessIterAssumption ==
  /\ HandCounts \subseteq 0 .. UsizeMax
  /\ Inputs \subseteq {d \in Seq(Byte) : Len(d) <= UsizeMax}

VARIABLES
  stage,     (* "empty", "parsing", "made", "refused" or "iterating".      *)
  reading,   (* Witness::parse: its cursor, and the items to go.           *)
  made,      (* the Witness: raw and item_count,                           *)
  iter,      (* and the WitnessIter over it: cursor and remaining.         *)
  item,      (* what next has answered, until the loop has used it.        *)
  parsed,    (* history: the items that Witness::parse has read,           *)
  byHand,    (* whether it is not parse that made the witness,             *)
  yielded    (* and the items that next has answered.                      *)

vars == <<data, stage, reading, made, iter, item, parsed, byHand, yielded>>

-----------------------------------------------------------------------------

Item(s) == [kind |-> "item", bytes |-> s]

Error(e) == [kind |-> "error", err |-> e]

End == [kind |-> "end"]

NotYet == [kind |-> "not yet"]

NoReading == [cur |-> CursorNew(Slice(0, 0)), left |-> 0]

NothingMade == [raw |-> Slice(0, 0), count |-> 0]

Init ==
  /\ data \in Inputs
  /\ stage = "empty"
  /\ reading = NoReading
  /\ made = NothingMade
  /\ iter = NoReading
  /\ item = NotYet
  /\ parsed = <<>>
  /\ byHand = FALSE
  /\ yielded = <<>>

(* Witness::parse, which ends with an error at the first thing it cannot   *)
(* read.                                                                   *)

ParseCount ==
  /\ stage = "empty"
  /\ LET r == WitnessCount(CursorNew(AllData)) IN
     \/ /\ r.ok
        /\ stage' = "parsing"
        /\ reading' = [cur |-> r.cur, left |-> r.val]
     \/ /\ ~ r.ok
        /\ stage' = "refused"
        /\ UNCHANGED reading
  /\ UNCHANGED <<data, made, iter, item, parsed, byHand, yielded>>

ParseItem ==
  /\ stage = "parsing" /\ reading.left > 0
  /\ LET r == WitnessItem(reading.cur) IN
     \/ /\ r.ok
        /\ reading' = [cur |-> r.cur, left |-> reading.left - 1]
        /\ parsed' = Append(parsed, r.val)
        /\ UNCHANGED stage
     \/ /\ ~ r.ok
        /\ stage' = "refused"
        /\ UNCHANGED <<reading, parsed>>
  /\ UNCHANGED <<data, made, iter, item, byHand, yielded>>

ParseEnd ==
  /\ stage = "parsing" /\ reading.left = 0
  /\ stage' = "made"
  /\ made' = [raw |-> Slice(0, reading.cur.pos), count |-> Len(parsed)]
  /\ UNCHANGED <<data, reading, iter, item, parsed, byHand, yielded>>

ByHand ==
  /\ stage = "empty"
  /\ stage' = "made"
  /\ byHand' = TRUE
  /\ \E hi \in 0 .. Len(data), n \in HandCounts :
       \E lo \in 0 .. hi : made' = [raw |-> Slice(lo, hi), count |-> n]
  /\ UNCHANGED <<data, reading, iter, item, parsed, yielded>>

-----------------------------------------------------------------------------
(* The iterator.                                                           *)

(* Mutant: the items are looked for where the count begins.                *)
BehindCountAtCount(s) == s

(* What follows the count.  That it cannot be read, which parse rules out, *)
(* is ignored: the cursor then stands where the failed read left it.       *)
BehindCount(s) == AsSlice(ReadVarint(CursorNew(s)).cur)

Items ==
  /\ stage = "made"
  /\ stage' = "iterating"
  /\ iter' = [cur |-> CursorNew(BehindCount(made.raw)), left |-> made.count]
  /\ UNCHANGED <<data, reading, made, item, parsed, byHand, yielded>>

Answer(r) == IF r.ok THEN Item(r.val) ELSE Error(r.err)

(* Mutant: the item is read from a copy of the cursor.                     *)
CountOffInPlace(r) == iter' = [cur |-> iter.cur, left |-> iter.left - 1]

(* The item is counted off whether or not it can be read.                  *)
CountOff(r) == iter' = [cur |-> r.cur, left |-> iter.left - 1]

NextItem ==
  /\ stage = "iterating" /\ item = NotYet /\ iter.left > 0
  /\ LET r == WitnessItem(iter.cur) IN
     /\ CountOff(r)
     /\ item' = Answer(r)
     /\ yielded' = IF r.ok THEN Append(yielded, r.val) ELSE yielded
  /\ UNCHANGED <<data, stage, reading, made, parsed, byHand>>

NoItem ==
  /\ stage = "iterating" /\ item \in {NotYet, End} /\ iter.left = 0
  /\ item' = End
  /\ UNCHANGED <<data, stage, reading, made, iter, parsed, byHand, yielded>>

(* The body of the loop, which does with an item or an error what it wants *)
(* and calls next again.                                                   *)
Body ==
  /\ item.kind \in {"item", "error"}
  /\ item' = NotYet
  /\ UNCHANGED <<data, stage, reading, made, iter, parsed, byHand, yielded>>

Iterate == NextItem \/ NoItem \/ Body

(* parse has failed, and there is no witness.                              *)
Refused == stage = "refused" /\ UNCHANGED vars

Next == ParseCount \/ ParseItem \/ ParseEnd \/ ByHand \/ Items \/ Iterate \/ Refused

Spec == Init /\ [][Next]_vars

-----------------------------------------------------------------------------
(* Properties.                                                             *)

Within(c, s) == c.lo >= s.lo /\ c.lo + c.len <= s.hi /\ c.pos \in 0 .. c.len

(* The type invariant: also with fields that do not fit each other every   *)
(* read stays inside raw.                                                  *)
TypeOK ==
  /\ DataOK
  /\ stage \in {"empty", "parsing", "made", "refused", "iterating"}
  /\ Within(reading.cur, AllData)
  /\ reading.left \in 0 .. MaxWitnessItems
  /\ made.raw.lo \in 0 .. made.raw.hi /\ made.raw.hi <= Len(data)
  /\ made.count \in 0 .. UsizeMax
  /\ stage = "iterating" => Within(iter.cur, made.raw)
  /\ iter.left \in 0 .. made.count
  /\ byHand \in BOOLEAN

(* Of a witness that parse has made, items() gives back the very slices    *)
(* that parse has read, in their order and without an error, and uses the  *)
(* raw bytes up: the count read again, whose result is dropped, ends where *)
(* it ended before (transaction.rs 137-190).                               *)
ParsedItemsComeBack ==
  (stage = "iterating" /\ ~ byHand) =>
    /\ item.kind # "error"
    /\ yielded = SubSeq(parsed, 1, Len(yielded))
    /\ item = End =>
         /\ Len(yielded) = Len(parsed)
         /\ IsEmpty(iter.cur) /\ AsSlice(iter.cur).hi = made.raw.hi

(* Whatever raw and item_count are, next answers no more than item_count   *)
(* items, and they, those behind an error included, are slices of raw that *)
(* follow each other, each with a length of its own before it, so no byte  *)
(* is handed out twice (transaction.rs 183-189).                           *)
ItemsAreOrdered ==
  stage = "iterating" =>
    /\ Len(yielded) + iter.left <= made.count
    /\ \A k \in 1 .. Len(yielded) :
         /\ yielded[k].lo > IF k = 1 THEN made.raw.lo ELSE yielded[k - 1].hi
         /\ yielded[k].hi <= made.raw.hi
         /\ yielded[k].hi - yielded[k].lo \in 0 .. MaxWitnessItemSize

=============================================================================
