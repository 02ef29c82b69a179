-------------------------- MODULE TransactionParser --------------------------
(***************************************************************************)
(* A client that owns one TransactionParser and calls parse_with on it as  *)
(* often as it likes, whatever the last call returned.  Each callback      *)
(* answers Ok or an error of the client's.                                 *)
(***************************************************************************)
EXTENDS Transaction, FiniteSets

CONSTANT Inputs    (* the buffers a client may hold.                       *)

ASSUME InputsAssumption ==
  Inputs \subseteq {d \in Seq(Byte) : Len(d) <= UsizeMax}

VARIABLES
  start,    (* history: where the last call of parse_with began.           *)
  refused   (* history: a callback of the last call answered an error.     *)

vars == <<data, start, refused, parseVars>>

UserError == [kind |-> "UserError"]

Answers == {NoError, UserError}

-----------------------------------------------------------------------------

Init ==
  /\ data \in Inputs
  /\ parser = CursorNew(AllData)
  /\ pc = "idle"
  /\ head = NoHead
  /\ outs = 0
  /\ done = 0
  /\ witness = NoWitness
  /\ ret = NoResult
  /\ log = <<>>
  /\ start = 0
  /\ refused = FALSE

ParseWith ==
  /\ pc \in {"idle", "returned"}
  /\ Begin(parser)
  /\ start' = parser.pos
  /\ refused' = FALSE
  /\ UNCHANGED data

Callback ==
  \E e \in Answers :
    /\ ParseInput(TRUE, e) \/ ParseOutput(e)
    /\ refused' = (e # NoError)
    /\ UNCHANGED <<data, start>>

Step == ParseAlone /\ UNCHANGED <<data, start, refused>>

Next == ParseWith \/ Callback \/ Step

Running == pc \notin {"idle", "returned"}

(* parse_with runs in the caller's thread: once called it keeps running,   *)
(* and its callbacks return.  Nothing obliges the client to call again.    *)
(* This is WF_vars(Callback \/ Step) with its ENABLED written out: while a *)
(* call is Running exactly its own steps are enabled, and each of them     *)
(* changes pc, done or witness.                                            *)
Fairness == []<>(~ Running) \/ []<><<Running>>_vars

Spec == Init /\ [][Next]_vars /\ Fairness

-----------------------------------------------------------------------------
(* Properties.                                                             *)

Within(c) ==
  /\ c \in [lo : Nat, len : Nat, pos : Nat]
  /\ c.pos <= c.len
  /\ c.lo + c.len <= Len(data)

Phases == {"idle", "head", "inputs", "outputs", "witness", "items", "locktime", "returned"}

(* The type invariant: cursors stay in their windows and counters within   *)
(* the loops they count.                                                   *)
TypeOK ==
  /\ DataOK
  /\ Within(parser)
  /\ pc \in Phases
  /\ head.segwit \in BOOLEAN /\ head.inputs \in 0 .. MaxIoCount
  /\ outs \in 0 .. MaxIoCount
  /\ done \in Nat
  /\ pc = "inputs" => done <= head.inputs
  /\ pc = "outputs" => done <= outs
  /\ pc \in {"witness", "items"} => done <= head.inputs
  /\ pc = "items" => done < head.inputs /\ Within(witness.cur)
  /\ witness.left \in 0 .. MaxWitnessItems
  /\ start \in Nat /\ start <= parser.pos
  /\ refused \in BOOLEAN

(* Every pair of deliveries is in the order of the bytes and overlaps      *)
(* nowhere, and none reaches outside what this call has consumed: retrying *)
(* a parser never makes one call deliver the same bytes twice              *)
(* (transaction.rs 341-363).                                               *)
DeliveriesInOrder ==
  /\ \A i \in 1 .. Len(log) :
       /\ log[i].lo < log[i].hi
       /\ parser.lo + start < log[i].lo
       /\ log[i].hi <= parser.lo + parser.pos
  /\ \A i, j \in 1 .. Len(log) : i < j => log[i].hi <= log[j].lo

Count(kind) == Cardinality({i \in 1 .. Len(log) : log[i].kind = kind})

(* Ok means that each callback was called once for each element the result *)
(* counts, all inputs before all outputs, and none of them objected        *)
(* (transaction.rs 341-376).                                               *)
OkMeansDelivered ==
  (pc = "returned" /\ ret.ok) =>
    /\ ~ refused
    /\ ret.val.inputs > 0
    /\ Count("input") = ret.val.inputs
    /\ Count("output") = ret.val.outputs
    /\ \A i \in 1 .. Len(log) : log[i].kind = IF i <= ret.val.inputs THEN "input" ELSE "output"

(* Once a callback has answered an error parse_with returns that error and *)
(* calls no callback again (transaction.rs 343, 362).                      *)
RefusalEndsTheCall ==
  refused => pc = "returned" /\ ret.err = UserError

(* Every call returns, whatever counts the input declares.                 *)
CallsReturn == (pc = "head") ~> (pc = "returned")

=============================================================================
