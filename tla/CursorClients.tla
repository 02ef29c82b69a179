--------------------------- MODULE CursorClients ----------------------------
(***************************************************************************)
(* Client code holding any number of cursors on one buffer and calling     *)
(* their methods in any order, errors ignored: the setting in which the    *)
(* parsers of the crate use Cursor.  A cursor comes from Cursor::new, from *)
(* clone, or from split; cursors that split produced from one another form *)
(* a line.  Cursor::new and clone begin a new line, because they borrow    *)
(* bytes that another cursor may read as well.                             *)
(***************************************************************************)
EXTENDS Cursor

CONSTANTS
  Ids,      (* names for the cursors a client holds.                       *)
  Inputs,   (* the buffers to start from.                                  *)
  Lengths,  (* the n passed to read_bytes, read_array, skip and split.     *)
  Caps      (* the max passed to read_var_bytes.                           *)

ASSUME ClientAssumption ==
  /\ Inputs \subseteq {d \in Seq(Byte) : Len(d) <= UsizeMax}
  /\ Lengths \subseteq 0 .. UsizeMax
  /\ Caps \subseteq 0 .. UsizeMax

VARIABLES
  cursors,  (* the live cursors, by name.                                  *)
  line,     (* the name of the cursor that began each cursor's line.       *)
  span,     (* what was unread when the line began.                        *)
  taken,    (* history: the offsets each line has read or handed out.      *)
  failure   (* history: the last call and its error, if it failed.         *)

vars == <<data, cursors, line, span, taken, failure>>

Live == DOMAIN cursors

Unread(i) == Offsets(AsSlice(cursors[i]))

NoFailure == [op |-> "none"]

-----------------------------------------------------------------------------
(* Creating cursors.                                                       *)

With(f, i, v) == [j \in DOMAIN f \cup {i} |-> IF j = i THEN v ELSE f[j]]

(* A new line over slice s, starting at c.                                 *)
BeginAt(j, c, s) ==
  /\ j \notin Live
  /\ cursors' = With(cursors, j, c)
  /\ line' = With(line, j, j)
  /\ span' = With(span, j, s)
  /\ taken' = With(taken, j, {})
  /\ failure' = NoFailure
  /\ UNCHANGED data

NewOver(j) == BeginAt(j, CursorNew(AllData), AllData)

NewOverUnread(i, j) == BeginAt(j, CursorNew(AsSlice(cursors[i])), AsSlice(cursors[i]))

Clone(i, j) == BeginAt(j, cursors[i], AsSlice(cursors[i]))

-----------------------------------------------------------------------------
(* Calling methods.                                                        *)

Outcome(i, op, r) ==
  IF r.ok THEN NoFailure ELSE [op |-> op, id |-> i, err |-> r.err]

Call(i, op, r) ==
  /\ cursors' = [cursors EXCEPT ![i] = r.cur]
  /\ taken' = [taken EXCEPT ![line[i]] = @ \cup r.got]
  /\ failure' = Outcome(i, op, r)
  /\ UNCHANGED <<data, line, span>>

(* op is "read" for every primitive method: they fail alike.               *)
DoReadBytes(i) == \E n \in Lengths : Call(i, "read", ReadBytes(cursors[i], n))
DoReadArray(i) == \E n \in Lengths : Call(i, "read", ReadArray(cursors[i], n))
DoSkip(i) == \E n \in Lengths : Call(i, "read", Skip(cursors[i], n))
DoReadU8(i) == Call(i, "read", ReadU8(cursors[i]))
DoReadU16(i) == Call(i, "read", ReadU16(cursors[i]))
DoReadU32(i) == Call(i, "read", ReadU32(cursors[i]))
DoReadI32(i) == Call(i, "read", ReadI32(cursors[i]))
DoReadU64(i) == Call(i, "read", ReadU64(cursors[i]))
DoReadI64(i) == Call(i, "read", ReadI64(cursors[i]))
DoReadVarint(i) == Call(i, "read_varint", ReadVarint(cursors[i]))
DoReadVarBytes(i) ==
  \E max \in Caps : Call(i, "read_var_bytes", ReadVarBytes(cursors[i], max))

(* The sub-cursor that split returns stays in the line of cursor i.        *)
SplitOff(i, j) ==
  /\ j \notin Live
  /\ \E n \in Lengths :
       LET r == Split(cursors[i], n) IN
       /\ r.ok
       /\ cursors' = With([cursors EXCEPT ![i] = r.cur], j, r.val)
       /\ line' = With(line, j, line[i])
       /\ failure' = Outcome(i, "read", r)
       /\ UNCHANGED <<data, span, taken>>

SplitFails(i) ==
  \E n \in Lengths :
    LET r == Split(cursors[i], n) IN
    /\ ~ r.ok
    /\ Call(i, "read", r)

-----------------------------------------------------------------------------

Init ==
  /\ data \in Inputs
  /\ \E i \in Ids :
       /\ cursors = [j \in {i} |-> CursorNew(AllData)]
       /\ line = [j \in {i} |-> i]
       /\ span = [j \in {i} |-> AllData]
       /\ taken = [j \in {i} |-> {}]
  /\ failure = NoFailure

Create ==
  \E j \in Ids :
    \/ NewOver(j)
    \/ \E i \in Live : NewOverUnread(i, j) \/ Clone(i, j) \/ SplitOff(i, j)

Method(i) ==
  \/ DoReadBytes(i) \/ DoReadArray(i) \/ DoSkip(i) \/ SplitFails(i)
  \/ DoReadU8(i) \/ DoReadU16(i) \/ DoReadU32(i) \/ DoReadI32(i)
  \/ DoReadU64(i) \/ DoReadI64(i) \/ DoReadVarint(i) \/ DoReadVarBytes(i)

Read == \E i \in Live : Method(i)

Next == Create \/ Read

Spec == Init /\ [][Next]_vars

-----------------------------------------------------------------------------
(* Properties.                                                             *)

CursorsOver(n) == {c \in [lo : 0 .. n, len : 0 .. n, pos : 0 .. n] :
                     c.pos <= c.len /\ c.lo + c.len <= n}

SlicesOver(n) == {s \in [lo : 0 .. n, hi : 0 .. n] : s.lo <= s.hi}

(* The type invariant.  It says that every live cursor's window lies in    *)
(* the buffer and its position in its window.                              *)
TypeOK ==
  /\ DataOK
  /\ Live \subseteq Ids
  /\ cursors \in [Live -> CursorsOver(Len(data))]
  /\ line \in [Live -> DOMAIN span]
  /\ DOMAIN span \subseteq Live
  /\ span \in [DOMAIN span -> SlicesOver(Len(data))]
  /\ taken \in [DOMAIN span -> SUBSET Offsets(AllData)]

(* Within a line every byte belongs to exactly one owner: it has been read *)
(* or handed out, or it is still unread in exactly one cursor.  No method  *)
(* of cursor.rs delivers a byte twice, loses one, or touches a byte        *)
(* outside what the line was given, whatever lengths it is called with.    *)
OneOwner ==
  \A l \in DOMAIN span :
    LET members == {i \in Live : line[i] = l} IN
    /\ taken[l] \cup UNION {Unread(i) : i \in members} = Offsets(span[l])
    /\ \A i \in members :
         /\ Unread(i) \cap taken[l] = {}
         /\ \A j \in members \ {i} : Unread(i) \cap Unread(j) = {}

(* An UnexpectedEof names a real shortage: what it reports as available is *)
(* what the cursor has left, and less than what was needed (cursor.rs      *)
(* lines 56-65 and 75-80), also when position plus length overflows usize. *)
EofIsExact ==
  (failure # NoFailure /\ failure.err.kind = "UnexpectedEof") =>
    /\ failure.err.available = Remaining(cursors[failure.id])
    /\ failure.err.needed > failure.err.available

(* The most bytes a failed call of each kind may have taken: nothing for a *)
(* primitive read, the first byte for read_varint, and the whole length    *)
(* prefix for read_var_bytes (cursor.rs 130-153).                          *)
MayLose == [read |-> 0, read_varint |-> 1, read_var_bytes |-> 9]

(* A failed call never takes payload, so a caller that backs off from an   *)
(* error has lost no more than a length prefix.                            *)
FailureKeepsPayload ==
  [][failure' # NoFailure =>
       cursors'[failure'.id].pos - cursors[failure'.id].pos
         \in 0 .. MayLose[failure'.op]]_vars

(* A cursor never moves back and never changes its window, whatever it and *)
(* the cursors cloned or split from it are asked for.                      *)
OnlyAdvance ==
  [][\A i \in Live :
       /\ cursors'[i].lo = cursors[i].lo
       /\ cursors'[i].len = cursors[i].len
       /\ cursors'[i].pos >= cursors[i].pos]_vars

=============================================================================
