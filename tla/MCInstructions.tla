--------------------------- MODULE MCInstructions ---------------------------
(***************************************************************************)
(* Instructions on every buffer of up to two bytes, on pairs of            *)
(* instructions written in each form of push, and on standard scripts,     *)
(* whole, cut short, with bytes replaced and with bytes around them.  A    *)
(* byte has 16 values, and the hashes and keys are two to five bytes long. *)
(***************************************************************************)
EXTENDS Instructions, Samples

AnOp(n) == <<n>>

DirectPush(bytes) == <<Len(bytes)>> \o bytes

(* The same push with its length in a field of w bytes.                    *)
LongPush(w, bytes) ==
  LET opcode == CASE w = 1 -> OpPushData1 [] w = 2 -> OpPushData2 [] w = 4 -> OpPushData4
  IN  <<opcode>> \o LittleEndian(Len(bytes), w) \o bytes

(* Pushes whose bytes are opcodes themselves, and one longer than a byte   *)
(* can say.                                                                *)
Contents == {<<>>, <<OpPushData1>>, <<OpCheckSig, 0>>}

Written ==
  {AnOp(n) : n \in {Op1, OpCheckSig}}
    \cup {DirectPush(b) : b \in Contents}
    \cup {LongPush(w, b) : w \in {1, 2, 4}, b \in Contents}
    \cup {LongPush(2, [i \in 1 .. 17 |-> 6])}

Standard ==
  {p.before \o [i \in 1 .. p.body |-> 6] \o p.after : p \in Range(Patterns)}

(* The same scripts with their pushes in another form.                     *)
LongForms ==
  { <<OpHash160>> \o LongPush(1, <<1, 1>>) \o <<OpEqual>>,
    <<0>> \o LongPush(1, <<1, 1>>),
    LongPush(2, <<1, 1, 1, 1>>) \o <<OpCheckSig>> }

(* OP_1, two keys, OP_2 and OP_CHECKMULTISIG; the last two opcodes are     *)
(* played by others.                                                       *)
Multisig == <<Op1>> \o DirectPush(<<6, 6, 6, 6>>) \o DirectPush(<<7, 7, 7, 7>>) \o <<Op1, OpCheckSig>>

MCInputs ==
  UNION {[1 .. n -> Byte] : n \in 0 .. 2}
    \cup Written \cup {i \o j : i, j \in Written}
    \cup UNION {Corruptions(s, Byte) : s \in Standard}
    \cup {<<OpReturn>> \o s : s \in Standard}
    \cup {s \o <<b>> : b \in {0, 1, OpCheckSig}, s \in Standard}
    \cup LongForms
    \cup {Multisig}

(* As README.md 40-41 and the documentation of ScriptType::Multisig        *)
(* (script.rs 98) have it: bare multisig scripts are identified.           *)
BareMultisigIsRecognised ==
  (item = End /\ data = Multisig /\ script = AllData) => Classify(script).type = "Multisig"

=============================================================================
