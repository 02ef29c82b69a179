------------------------------ MODULE ParseOpts ------------------------------
(***************************************************************************)
(* parse_opts of examples/parse_block.rs: one pass over the arguments in   *)
(* which a flag may take the argument after it, and a first fault or a     *)
(* request for help ends the pass.                                         *)
(***************************************************************************)
EXTENDS Integers, Sequences, FiniteSetsExt

CONSTANTS
  Numerals,     (* the arguments that parse as a usize, with their values; *)
  UnknownFlags, (* arguments that begin with -- and are no flag;           *)
  Lines         (* the argument lists.                                     *)

Switches == [summary |-> "--summary", no_outputs |-> "--no-outputs",
             no_opreturn |-> "--no-opreturn"]

Counts == [limit_tx |-> "--limit-tx", only_tx |-> "--tx"]

HelpFlags == {"--help", "-h"}

Flags == Range(Switches) \cup Range(Counts) \cup HelpFlags \cup UnknownFlags

ASSUME OptsAssumption ==
  /\ \A t \in DOMAIN Numerals : Numerals[t] \in Nat
  /\ DOMAIN Numerals \cap Flags = {}
  /\ UnknownFlags \cap (Range(Switches) \cup Range(Counts) \cup HelpFlags) = {}
  /\ Lines \subseteq Seq(STRING)

VARIABLES
  args,     (* the arguments,                                              *)
  i,        (* the next one to look at, counted from 1;                    *)
  opts,     (* the Opts so far,                                            *)
  path,     (* the path,                                                   *)
  outcome   (* and how the pass has ended.                                 *)

vars == <<args, i, opts, path, outcome>>

None == [some |-> FALSE]

Some(v) == [some |-> TRUE, val |-> v]

Default ==
  [summary |-> FALSE, no_outputs |-> FALSE, no_opreturn |-> FALSE,
   limit_tx |-> None, only_tx |-> None, help |-> FALSE]

-----------------------------------------------------------------------------

Init ==
  /\ args \in Lines
  /\ i = 1
  /\ opts = Default
  /\ path = None
  /\ outcome = "reading"

Reading == outcome = "reading" /\ i <= Len(args)

Switch(field) ==
  /\ Reading /\ args[i] = Switches[field]
  /\ opts' = [opts EXCEPT ![field] = TRUE]
  /\ i' = i + 1
  /\ UNCHANGED <<args, path, outcome>>

HasNumber == i + 1 <= Len(args) /\ args[i + 1] \in DOMAIN Numerals

(* Mutant: the number is looked at again as an argument.                   *)
CountKeepsNumber(field) ==
  /\ Reading /\ args[i] = Counts[field]
  /\ HasNumber
  /\ opts' = [opts EXCEPT ![field] = Some(Numerals[args[i + 1]])]
  /\ i' = i + 1
  /\ UNCHANGED <<args, path, outcome>>

Count(field) ==
  /\ Reading /\ args[i] = Counts[field]
  /\ HasNumber
  /\ opts' = [opts EXCEPT ![field] = Some(Numerals[args[i + 1]])]
  /\ i' = i + 2
  /\ UNCHANGED <<args, path, outcome>>

(* "expected number after ..."                                             *)
MissingNumber ==
  /\ Reading /\ args[i] \in Range(Counts) /\ ~ HasNumber
  /\ outcome' = "error"
  /\ UNCHANGED <<args, i, opts, path>>

Help ==
  /\ Reading /\ args[i] \in HelpFlags
  /\ opts' = [opts EXCEPT !.help = TRUE]
  /\ outcome' = "ok"
  /\ UNCHANGED <<args, i, path>>

UnknownFlag ==
  /\ Reading /\ args[i] \in UnknownFlags
  /\ outcome' = "error"
  /\ UNCHANGED <<args, i, opts, path>>

(* Anything else is the path, if there is none yet.                        *)
Word ==
  /\ Reading /\ args[i] \notin Flags
  /\ path' = IF path.some THEN path ELSE Some(args[i])
  /\ i' = i + 1
  /\ UNCHANGED <<args, opts, outcome>>

EndOfArgs ==
  /\ outcome = "reading" /\ i > Len(args)
  /\ outcome' = "ok"
  /\ UNCHANGED <<args, i, opts, path>>

Over == outcome # "reading" /\ UNCHANGED vars

Next ==
  \/ \E field \in DOMAIN Switches : Switch(field)
  \/ \E field \in DOMAIN Counts : Count(field)
  \/ MissingNumber \/ Help \/ UnknownFlag \/ Word \/ EndOfArgs \/ Over

Spec == Init /\ [][Next]_vars

-----------------------------------------------------------------------------
(* Properties.                                                             *)

(* The arguments that the argument before them has taken as its number.    *)
Taken ==
  LET taken[k \in 0 .. Len(args)] ==
        k > 1 /\ args[k - 1] \in Range(Counts) /\ ~ taken[k - 1]
  IN  taken

(* The arguments at which the pass must end.                               *)
Stops ==
  {k \in 1 .. Len(args) :
     /\ ~ Taken[k]
     /\ \/ args[k] \in HelpFlags \cup UnknownFlags
        \/ /\ args[k] \in Range(Counts)
           /\ k < Len(args) => args[k + 1] \notin DOMAIN Numerals}

(* The result is what the argument list says as a whole, up to its first   *)
(* fault or request for help: a switch is on if it is given, of a number   *)
(* given twice the last one counts, of several words the first one is the  *)
(* path, and no argument is used both as a number and as a word            *)
(* (parse_block.rs 33-88).                                                 *)
ReadsTheLine ==
  outcome # "reading" =>
    LET stop    == Min(Stops \cup {Len(args) + 1})
        free    == {k \in 1 .. stop - 1 : ~ Taken[k]}
        At(t)   == {k \in free : args[k] = t}
        words   == {k \in free : args[k] \notin Flags}
        stopped == stop <= Len(args)
    IN  /\ outcome = "ok" <=> (stopped => args[stop] \in HelpFlags)
        /\ outcome = "ok" =>
             /\ opts.help = stopped
             /\ \A f \in DOMAIN Switches : opts[f] <=> At(Switches[f]) # {}
             /\ \A f \in DOMAIN Counts :
                  opts[f] = IF At(Counts[f]) = {} THEN None
                            ELSE Some(Numerals[args[Max(At(Counts[f])) + 1]])
             /\ path = IF words = {} THEN None ELSE Some(args[Min(words)])

=============================================================================
