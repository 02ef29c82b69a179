------------------------------ MODULE TxStream ------------------------------
(***************************************************************************)
(* What BlockTxIter promises the client whose callbacks it calls, without  *)
(* a word about bytes: the transactions of a block come one after another, *)
(* each as a sequence of deliveries.  A call takes a transaction wholly or *)
(* fails; after a failure the next call delivers the same transaction from *)
(* its beginning.  A call that does not fail has taken a transaction or    *)
(* found that none is left.  BlockTxIter implements this module.           *)
(***************************************************************************)
EXTENDS Integers, Sequences

VARIABLES
  total,      (* how many transactions there are; Unknown before new.      *)
  accepted,   (* the deliveries of each transaction taken.                 *)
  current,    (* the deliveries so far of the one being tried,             *)
  failed,     (* and those of the last try at it that failed.              *)
  busy        (* whether a method of the iterator runs.                    *)

vars == <<total, accepted, current, failed, busy>>

Unknown == -1

Init ==
  /\ total = Unknown
  /\ accepted = <<>> /\ current = <<>> /\ failed = <<>>
  /\ busy = FALSE

(* new reads how many transactions there are.                              *)
Open ==
  /\ total = Unknown
  /\ total' \in Nat
  /\ UNCHANGED <<accepted, current, failed, busy>>

Call ==
  /\ total # Unknown /\ ~ busy
  /\ busy' = TRUE
  /\ UNCHANGED <<total, accepted, current, failed>>

(* One more delivery, the same as in the try before as far as that went.   *)
Deliver ==
  /\ busy /\ Len(accepted) < total
  /\ Len(current') = Len(current) + 1
  /\ SubSeq(current', 1, Len(current)) = current
  /\ Len(current') <= Len(failed) => current'[Len(current')] = failed[Len(current')]
  /\ UNCHANGED <<total, accepted, failed, busy>>

(* The transaction is taken, not before all of it has been delivered that  *)
(* the failed try had delivered.  next_tx then returns, the other methods  *)
(* go on.                                                                  *)
Accept ==
  /\ busy /\ Len(accepted) < total
  /\ current # <<>> /\ Len(current) >= Len(failed)
  /\ accepted' = Append(accepted, current)
  /\ current' = <<>> /\ failed' = <<>>
  /\ busy' \in BOOLEAN
  /\ UNCHANGED total

(* The call fails, and leaves the transaction where it was.                *)
Reject ==
  /\ busy /\ Len(accepted) < total
  /\ failed' = current /\ current' = <<>>
  /\ busy' = FALSE
  /\ UNCHANGED <<total, accepted>>

(* The call returns because no transaction is left.                        *)
NoneLeft ==
  /\ busy /\ Len(accepted) = total
  /\ busy' = FALSE
  /\ UNCHANGED <<total, accepted, current, failed>>

Next == Open \/ Call \/ Deliver \/ Accept \/ Reject \/ NoneLeft

(* A call returns.                                                         *)
Returns == busy ~> ~ busy

Spec == Init /\ [][Next]_vars /\ Returns

=============================================================================
