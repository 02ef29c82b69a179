-------------------------- MODULE ParseOptsProofs --------------------------
(***************************************************************************)
(* The proof that parse_opts reads any list of arguments as the definition *)
(* of ReadsTheLine says.  Which arguments are numbers is decided from the  *)
(* first argument to the last, and each option is the last of its kind, so *)
(* the functions that say so are followed argument by argument.            *)
(***************************************************************************)
EXTENDS ParseOpts, TLAPS, WellFoundedInduction

-----------------------------------------------------------------------------

(* A set that holds 0 and, with each number, the next holds all of them.   *)
LEMMA SetInduction ==
  ASSUME NEW S, 0 \in S, \A n \in Nat : n \in S => n + 1 \in S
  PROVE  Nat \subseteq S
  <1>1. PICK R : R = {p \in Nat \X Nat : p[1] < p[2]} /\ IsWellFoundedOn(R, Nat)
    BY NatLessThanWellFounded DEF OpToRel
  <1>2. PICK T : T = Nat \ S
    OBVIOUS
  <1>3. ASSUME T # {}
        PROVE  FALSE
    <2>1. PICK x \in T : \A y \in T : <<y, x>> \notin R
      BY <1>1, <1>2, <1>3, WFMin
    <2>2. x \in Nat /\ x # 0 /\ x - 1 \in Nat
      BY <1>2, <2>1
    <2>3. <<x - 1, x>> \in R
      BY <1>1, <2>2
    <2>4. x - 1 \in S /\ (x - 1) + 1 = x
      BY <1>2, <2>1, <2>2, <2>3
    <2>5. QED
      BY <1>2, <2>1, <2>2, <2>4
  <1>4. QED
    BY <1>2, <1>3

(* The argument before k is a flag that takes k as its number, if t says   *)
(* truly of which arguments that holds.                                    *)
Takes(t, k) == k > 1 /\ args[k - 1] \in Range(Counts) /\ ~ t[k - 1]

(* The equation of Taken has a solution on the first n arguments.          *)
LEMMA TakenExists ==
  ASSUME NEW n \in Nat
  PROVE  \E t : t = [k \in 0 .. n |-> Takes(t, k)]
  <1> DEFINE Solves(t, m) == t = [k \in 0 .. m |-> Takes(t, k)]
             S            == {m \in Nat : \E t : Solves(t, m)}
  <1>1. 0 \in S
    <2>1. PICK t : t = [k \in 0 .. 0 |-> FALSE]
      OBVIOUS
    <2>2. \A k \in 0 .. 0 : Takes(t, k) = FALSE
      BY DEF Takes
    <2>3. Solves(t, 0)
      BY <2>1, <2>2
    <2>4. QED
      BY <2>3
  <1>2. ASSUME NEW m \in Nat, m \in S
        PROVE  m + 1 \in S
    <2>1. PICK t : Solves(t, m)
      BY <1>2
    <2>2. PICK u : u = [k \in 0 .. m + 1 |-> IF k = m + 1 THEN Takes(t, m + 1) ELSE t[k]]
      OBVIOUS
    <2>3. \A k \in 0 .. m : u[k] = t[k]
      BY <2>2
    <2>4. \A k \in 0 .. m + 1 : Takes(u, k) = Takes(t, k)
      <3> SUFFICES ASSUME NEW k \in 0 .. m + 1, k > 1
                   PROVE  u[k - 1] = t[k - 1]
        BY DEF Takes
      <3>1. k - 1 \in 0 .. m
        OBVIOUS
      <3>2. QED
        BY <2>3, <3>1
    <2>5. \A k \in 0 .. m + 1 : u[k] = Takes(u, k)
      <3> TAKE k \in 0 .. m + 1
      <3>1. CASE k = m + 1
        BY <2>2, <2>4, <3>1
      <3>2. CASE k # m + 1
        <4>1. k \in 0 .. m
          BY <3>2
        <4>2. t[k] = Takes(t, k)
          BY <2>1, <4>1
        <4>3. QED
          BY <2>3, <2>4, <4>1, <4>2
      <3>3. QED
        BY <3>1, <3>2
    <2>6. Solves(u, m + 1)
      BY <2>2, <2>5
    <2>7. QED
      BY <2>6
  <1> HIDE DEF S
  <1>3. n \in S
    BY <1>1, <1>2, SetInduction
  <1>4. QED
    BY <1>3 DEF S

(* So Taken solves it for the whole line.                                  *)
LEMMA TakenSolves ==
  ASSUME Len(args) \in Nat, NEW k \in 0 .. Len(args)
  PROVE  Taken[k] = (k > 1 /\ args[k - 1] \in Range(Counts) /\ ~ Taken[k - 1])
  <1>1. Taken = CHOOSE t : t = [j \in 0 .. Len(args) |-> Takes(t, j)]
    BY DEF Taken, Takes
  <1>2. \E t : t = [j \in 0 .. Len(args) |-> Takes(t, j)]
    BY TakenExists
  <1>3. Taken = [j \in 0 .. Len(args) |-> Takes(Taken, j)]
    BY <1>1, <1>2
  <1>4. QED
    BY <1>3 DEF Takes

-----------------------------------------------------------------------------
(* What has been read of a, of which T says which arguments are taken,     *)
(* when the pass stands at n.                                              *)
Free(T, n) == {k \in 1 .. n - 1 : ~ T[k]}

(* Those that are the flag t, and those that are no flag.                  *)
Given(a, T, n, t) == {k \in Free(T, n) : a[k] = t}

Words(a, T, n) == {k \in Free(T, n) : a[k] \notin Flags}

(* What a set of places says: the number behind the last of them, the word *)
(* at the first.                                                           *)
LastNumber(a, s) == IF s = {} THEN None ELSE Some(Numerals[a[Max(s) + 1]])

FirstWord(a, s) == IF s = {} THEN None ELSE Some(a[Min(s)])

(* The fields of o, and p, are those that have been read.                  *)
SwitchesRead(a, T, n, o) ==
  \A f \in DOMAIN Switches : o[f] = (Given(a, T, n, Switches[f]) # {})

CountsRead(a, T, n, o) ==
  \A f \in DOMAIN Counts : o[f] = LastNumber(a, Given(a, T, n, Counts[f]))

PathRead(a, T, n, p) == p = FirstWord(a, Words(a, T, n))

(* The pass, with outcome e, has come to n without passing a stop of S,    *)
(* and has ended only where it must.                                       *)
Stands(a, T, S, n, e) ==
  /\ n \in 1 .. Len(a) + 1
  /\ n <= Len(a) => ~ T[n]
  /\ \A k \in S : k >= n
  /\ e \in {"reading", "ok", "error"}
  /\ e = "error" => n \in S /\ a[n] \notin HelpFlags
  /\ e = "ok" => n = Len(a) + 1 \/ (n \in S /\ a[n] \in HelpFlags)

(* The inductive invariant: up to i, which is no argument taken and not    *)
(* behind a stop, the options and the path are what the arguments say, and *)
(* the pass has ended at a stop or behind the last argument.               *)
Inv ==
  /\ args \in Seq(STRING)
  /\ Stands(args, Taken, Stops, i, outcome)
  /\ opts = [f \in DOMAIN Default |-> opts[f]]
  /\ opts.help = (outcome = "ok" /\ i <= Len(args))
  /\ SwitchesRead(args, Taken, i, opts)
  /\ CountsRead(args, Taken, i, opts)
  /\ PathRead(args, Taken, i, path)

-----------------------------------------------------------------------------
(* How the sets of places grow from argument to argument.                  *)

(* A step from n to m passes one argument that is not taken.               *)
LEMMA Advance ==
  ASSUME NEW T, NEW n \in Nat \ {0}, NEW m, ~ T[n],
         m = n + 1 \/ (m = n + 2 /\ T[n + 1])
  PROVE  Free(T, m) = Free(T, n) \cup {n}
  <1>1. CASE m = n + 1
    <2>1. 1 .. m - 1 = (1 .. n - 1) \cup {n}
      BY <1>1
    <2>2. QED
      BY <2>1 DEF Free
  <1>2. CASE m = n + 2 /\ T[n + 1]
    <2>1. 1 .. m - 1 = (1 .. n - 1) \cup {n} \cup {n + 1}
      BY <1>2
    <2>2. QED
      BY <1>2, <2>1 DEF Free
  <1>3. QED
    BY <1>1, <1>2

(* The least of a set of numbers, if x is it.                              *)
LEMMA MinIs ==
  ASSUME NEW S \in SUBSET Int, NEW x \in S, \A y \in S : x <= y
  PROVE  Min(S) = x
  <1>1. PICK z : z = Min(S)
    OBVIOUS
  <1>2. z \in S /\ \A y \in S : z <= y
    BY <1>1 DEF Min
  <1>3. z <= x /\ x <= z /\ z \in Int /\ x \in Int
    BY <1>2
  <1>4. QED
    BY <1>1, <1>3

(* The greatest of a set of numbers, if x is it.                           *)
LEMMA MaxIs ==
  ASSUME NEW S \in SUBSET Int, NEW x \in S, \A y \in S : x >= y
  PROVE  Max(S) = x
  <1>1. PICK z : z = Max(S)
    OBVIOUS
  <1>2. z \in S /\ \A y \in S : z >= y
    BY <1>1 DEF Max
  <1>3. z >= x /\ x >= z /\ z \in Int /\ x \in Int
    BY <1>2
  <1>4. QED
    BY <1>1, <1>3

(* A set of naturals that is not empty has a least element.                *)
LEMMA HasMin ==
  ASSUME NEW S \in SUBSET Nat, S # {}
  PROVE  \E x \in S : \A y \in S : x <= y
  <1>1. PICK R : R = {p \in Nat \X Nat : p[1] < p[2]} /\ IsWellFoundedOn(R, Nat)
    BY NatLessThanWellFounded DEF OpToRel
  <1>2. PICK x \in S : \A y \in S : <<y, x>> \notin R
    BY <1>1, WFMin
  <1>3. \A y \in S : ~ (y < x)
    BY <1>1, <1>2
  <1>4. QED
    BY <1>2, <1>3

(* The flags are told apart.                                               *)
LEMMA Names ==
  ASSUME OptsAssumption
  PROVE  /\ \A f \in DOMAIN Switches : \A g \in DOMAIN Counts : f # g
         /\ \A f \in DOMAIN Switches \cup DOMAIN Counts : f \in DOMAIN Default /\ f # "help"
         /\ \A f \in DOMAIN Switches : \A g \in DOMAIN Switches :
              Switches[f] = Switches[g] => f = g
         /\ \A f \in DOMAIN Counts : \A g \in DOMAIN Counts :
              Counts[f] = Counts[g] => f = g
         /\ \A f \in DOMAIN Switches : \A g \in DOMAIN Counts : Switches[f] # Counts[g]
         /\ \A f \in DOMAIN Switches :
              /\ Switches[f] \in Flags
              /\ Switches[f] \notin Range(Counts) \cup HelpFlags \cup UnknownFlags
         /\ \A f \in DOMAIN Counts :
              /\ Counts[f] \in Flags /\ Counts[f] \in Range(Counts)
              /\ Counts[f] \notin HelpFlags \cup UnknownFlags
         /\ Range(Counts) \subseteq Flags
         /\ \A t \in Range(Counts) : \E f \in DOMAIN Counts : t = Counts[f]
  <1>1. /\ DOMAIN Switches = {"summary", "no_outputs", "no_opreturn"}
        /\ Switches["summary"] = "--summary"
        /\ Switches["no_outputs"] = "--no-outputs"
        /\ Switches["no_opreturn"] = "--no-opreturn"
    BY DEF Switches
  <1>2. /\ DOMAIN Counts = {"limit_tx", "only_tx"}
        /\ Counts["limit_tx"] = "--limit-tx" /\ Counts["only_tx"] = "--tx"
    BY DEF Counts
  <1>3. /\ Range(Switches) = {"--summary", "--no-outputs", "--no-opreturn"}
        /\ Range(Counts) = {"--limit-tx", "--tx"}
    BY <1>1, <1>2 DEF Range
  <1>4. UnknownFlags \cap (Range(Switches) \cup Range(Counts) \cup HelpFlags) = {}
    BY DEF OptsAssumption
  <1> HIDE DEF Switches, Counts
  <1>5. \A f \in DOMAIN Switches : \A g \in DOMAIN Switches :
          Switches[f] = Switches[g] => f = g
    BY <1>1
  <1>6. \A f \in DOMAIN Counts : \A g \in DOMAIN Counts : Counts[f] = Counts[g] => f = g
    BY <1>2
  <1>7. \A f \in DOMAIN Switches : \A g \in DOMAIN Counts : Switches[f] # Counts[g]
    BY <1>1, <1>2
  <1>8. \A f \in DOMAIN Switches :
              /\ Switches[f] \in Flags
              /\ Switches[f] \notin Range(Counts) \cup HelpFlags \cup UnknownFlags
    BY <1>1, <1>3, <1>4 DEF Flags, HelpFlags
  <1>9. \A f \in DOMAIN Counts :
              /\ Counts[f] \in Flags /\ Counts[f] \in Range(Counts)
              /\ Counts[f] \notin HelpFlags \cup UnknownFlags
    BY <1>2, <1>3, <1>4 DEF Flags, HelpFlags
  <1>10. \A t \in Range(Counts) : \E f \in DOMAIN Counts : t = Counts[f]
    BY DEF Range
  <1>11. Range(Counts) \subseteq Flags
    BY DEF Flags
  <1>12. \A f \in DOMAIN Switches : \A g \in DOMAIN Counts : f # g
    BY <1>1, <1>2
  <1>13. DOMAIN Default = {"summary", "no_outputs", "no_opreturn", "limit_tx", "only_tx", "help"}
    BY DEF Default
  <1>14. \A f \in DOMAIN Switches \cup DOMAIN Counts : f \in DOMAIN Default /\ f # "help"
    BY <1>1, <1>2, <1>13
  <1>15. QED
    BY <1>12, <1>14, <1>5, <1>6, <1>7, <1>8, <1>9, <1>10, <1>11

(* What the passing of argument n adds to the arguments that are t.        *)
LEMMA GivenGrows ==
  ASSUME NEW a, NEW T, NEW n, NEW m, NEW t, Free(T, m) = Free(T, n) \cup {n}
  PROVE  /\ a[n] = t => Given(a, T, m, t) = Given(a, T, n, t) \cup {n}
         /\ a[n] # t => Given(a, T, m, t) = Given(a, T, n, t)
  BY DEF Given

(* And to the words.                                                       *)
LEMMA WordsGrow ==
  ASSUME NEW a, NEW T, NEW n, NEW m, Free(T, m) = Free(T, n) \cup {n}
  PROVE  /\ a[n] \notin Flags => Words(a, T, m) = Words(a, T, n) \cup {n}
         /\ a[n] \in Flags => Words(a, T, m) = Words(a, T, n)
  BY DEF Words

(* The last number, when n is a further place behind the others.           *)
LEMMA LastOf ==
  ASSUME NEW a, NEW n \in Nat \ {0}, NEW s \in SUBSET (1 .. n - 1)
  PROVE  LastNumber(a, s \cup {n}) = Some(Numerals[a[n + 1]])
  <1>1. Max(s \cup {n}) = n
    BY MaxIs
  <1>2. QED
    BY <1>1 DEF LastNumber

(* The first word, when n is a further place behind the others.            *)
LEMMA FirstOf ==
  ASSUME NEW a, NEW n \in Nat \ {0}, NEW s \in SUBSET (1 .. n - 1)
  PROVE  FirstWord(a, s \cup {n}) =
           IF FirstWord(a, s).some THEN FirstWord(a, s) ELSE Some(a[n])
  <1>1. CASE s = {}
    <2>1. Min(s \cup {n}) = n
      BY <1>1, MinIs
    <2>2. FirstWord(a, s \cup {n}) = Some(a[n]) /\ FirstWord(a, s) = None
      BY <1>1, <2>1 DEF FirstWord
    <2>3. ~ None.some
      BY DEF None
    <2>4. QED
      BY <2>2, <2>3
  <1>2. CASE s # {}
    <2>1. PICK x \in s : \A y \in s : x <= y
      BY <1>2, HasMin
    <2>2. Min(s) = x
      BY <2>1, MinIs
    <2>3. \A y \in s \cup {n} : x <= y
      BY <2>1
    <2>4. Min(s \cup {n}) = x
      BY <2>1, <2>3, MinIs
    <2>5. FirstWord(a, s \cup {n}) = Some(a[x]) /\ FirstWord(a, s) = Some(a[x])
      BY <1>2, <2>2, <2>4 DEF FirstWord
    <2>6. Some(a[x]).some
      BY DEF Some
    <2>7. QED
      BY <2>5, <2>6
  <1>3. QED
    BY <1>1, <1>2

-----------------------------------------------------------------------------
(* The steps of the pass.                                                  *)

(* Switch(f) reads argument n.                                             *)
LEMMA SwitchReads ==
  ASSUME OptsAssumption, NEW a, NEW T, NEW n, NEW m, NEW o, NEW u,
         NEW f \in DOMAIN Switches,
         Free(T, m) = Free(T, n) \cup {n}, a[n] = Switches[f],
         u[f] = TRUE, \A g \in DOMAIN Default : g # f => u[g] = o[g],
         SwitchesRead(a, T, n, o), CountsRead(a, T, n, o)
  PROVE  SwitchesRead(a, T, m, u) /\ CountsRead(a, T, m, u)
  <1>1. ASSUME NEW g \in DOMAIN Switches
        PROVE  u[g] = (Given(a, T, m, Switches[g]) # {})
    <2>1. CASE g = f
      <3>1. a[n] = Switches[g] /\ n \in Free(T, m)
        BY <2>1
      <3>2. n \in Given(a, T, m, Switches[g])
        BY <3>1 DEF Given
      <3>3. Given(a, T, m, Switches[g]) # {}
        BY <3>2
      <3>4. QED
        BY <2>1, <3>3
    <2>2. CASE g # f
      <3>1. a[n] # Switches[g]
        BY <2>2, Names
      <3>2. Given(a, T, m, Switches[g]) = Given(a, T, n, Switches[g])
        BY <3>1, GivenGrows
      <3>3. u[g] = o[g] /\ o[g] = (Given(a, T, n, Switches[g]) # {})
        BY <2>2, Names DEF SwitchesRead
      <3>4. QED
        BY <3>2, <3>3
    <2>3. QED
      BY <2>1, <2>2
  <1>2. ASSUME NEW g \in DOMAIN Counts
        PROVE  u[g] = LastNumber(a, Given(a, T, m, Counts[g]))
    <2>1. a[n] # Counts[g] /\ g # f
      BY Names
    <2>2. Given(a, T, m, Counts[g]) = Given(a, T, n, Counts[g])
      BY <2>1, GivenGrows
    <2>3. u[g] = o[g] /\ o[g] = LastNumber(a, Given(a, T, n, Counts[g]))
      BY <2>1, Names DEF CountsRead
    <2>4. QED
      BY <2>2, <2>3
  <1>3. QED
    BY <1>1, <1>2 DEF SwitchesRead, CountsRead

(* What Count(f) does to the options o when it passes from n to m.         *)
Counted(a, T, n, m, o, u, f) ==
  /\ n \in Nat \ {0}
  /\ Free(T, m) = Free(T, n) \cup {n}
  /\ a[n] = Counts[f]
  /\ u[f] = Some(Numerals[a[n + 1]])
  /\ \A g \in DOMAIN Default : g # f => u[g] = o[g]
  /\ SwitchesRead(a, T, n, o) /\ CountsRead(a, T, n, o)

(* It reads argument n, and takes the number behind it.                    *)
LEMMA CountReads ==
  ASSUME OptsAssumption, NEW a, NEW T, NEW n, NEW m, NEW o, NEW u, NEW f \in DOMAIN Counts,
         Counted(a, T, n, m, o, u, f)
  PROVE  SwitchesRead(a, T, m, u) /\ CountsRead(a, T, m, u)
  <1> USE DEF Counted
  <1>1. ASSUME NEW g \in DOMAIN Switches
        PROVE  u[g] = (Given(a, T, m, Switches[g]) # {})
    <2>1. a[n] # Switches[g] /\ g # f
      BY Names
    <2>2. Given(a, T, m, Switches[g]) = Given(a, T, n, Switches[g])
      BY <2>1, GivenGrows
    <2>3. u[g] = o[g] /\ o[g] = (Given(a, T, n, Switches[g]) # {})
      BY <2>1, Names DEF SwitchesRead
    <2>4. QED
      BY <2>2, <2>3
  <1>2. ASSUME NEW g \in DOMAIN Counts
        PROVE  u[g] = LastNumber(a, Given(a, T, m, Counts[g]))
    <2>1. CASE g = f
      <3>0. a[n] = Counts[g]
        BY <2>1
      <3>1. Given(a, T, m, Counts[g]) = Given(a, T, n, Counts[g]) \cup {n}
        BY <3>0 DEF Given
      <3>2. Given(a, T, n, Counts[g]) \in SUBSET (1 .. n - 1)
        BY DEF Given, Free
      <3>3. LastNumber(a, Given(a, T, n, Counts[g]) \cup {n}) = Some(Numerals[a[n + 1]])
        BY <3>2, LastOf
      <3>4. QED
        BY <2>1, <3>1, <3>3
    <2>2. CASE g # f
      <3>1. a[n] # Counts[g]
        BY <2>2, Names
      <3>2. Given(a, T, m, Counts[g]) = Given(a, T, n, Counts[g])
        BY <3>1, GivenGrows
      <3>3. u[g] = o[g] /\ o[g] = LastNumber(a, Given(a, T, n, Counts[g]))
        BY <2>2, Names DEF CountsRead
      <3>4. QED
        BY <3>2, <3>3
    <2>3. QED
      BY <2>1, <2>2
  <1>3. QED
    BY <1>1, <1>2 DEF SwitchesRead, CountsRead

(* A word is no flag.                                                      *)
LEMMA WordReads ==
  ASSUME OptsAssumption, NEW a, NEW T, NEW n, NEW m, NEW o,
         Free(T, m) = Free(T, n) \cup {n}, a[n] \notin Flags,
         SwitchesRead(a, T, n, o), CountsRead(a, T, n, o)
  PROVE  SwitchesRead(a, T, m, o) /\ CountsRead(a, T, m, o)
  <1>1. ASSUME NEW g \in DOMAIN Switches
        PROVE  Given(a, T, m, Switches[g]) = Given(a, T, n, Switches[g])
    BY Names, GivenGrows
  <1>2. ASSUME NEW g \in DOMAIN Counts
        PROVE  Given(a, T, m, Counts[g]) = Given(a, T, n, Counts[g])
    BY Names, GivenGrows
  <1>3. QED
    BY <1>1, <1>2 DEF SwitchesRead, CountsRead

(* Which arguments are stops, and which are taken, at i and behind it.     *)
LEMMA AtI ==
  ASSUME OptsAssumption, args \in Seq(STRING), i \in 1 .. Len(args), ~ Taken[i]
  PROVE  /\ i < Len(args) => Taken[i + 1] = (args[i] \in Range(Counts))
         /\ i + 1 < Len(args) => Taken[i + 2] = (args[i + 1] \in Range(Counts) /\ ~ Taken[i + 1])
         /\ args[i] \in HelpFlags \cup UnknownFlags => i \in Stops
         /\ args[i] \in Range(Counts) => (i \in Stops) = ~ HasNumber
         /\ args[i] \notin HelpFlags \cup UnknownFlags \cup Range(Counts) => i \notin Stops
  <1>1. Len(args) \in Nat /\ i \in Nat \ {0}
    OBVIOUS
  <1>2. ASSUME i < Len(args)
        PROVE  Taken[i + 1] = (args[i] \in Range(Counts))
    <2>1. i + 1 \in 0 .. Len(args) /\ (i + 1) - 1 = i /\ i + 1 > 1
      BY <1>1, <1>2
    <2>2. QED
      BY <1>1, <2>1, TakenSolves
  <1>3. ASSUME i + 1 < Len(args)
        PROVE  Taken[i + 2] = (args[i + 1] \in Range(Counts) /\ ~ Taken[i + 1])
    <2>1. i + 2 \in 0 .. Len(args) /\ (i + 2) - 1 = i + 1 /\ i + 2 > 1
      BY <1>1, <1>3
    <2>2. QED
      BY <1>1, <2>1, TakenSolves
  <1>4. args[i] \in HelpFlags \cup UnknownFlags => i \in Stops
    BY DEF Stops
  <1>5. args[i] \notin HelpFlags \cup UnknownFlags \cup Range(Counts) => i \notin Stops
    BY DEF Stops
  <1>6. ASSUME args[i] \in Range(Counts)
        PROVE  (i \in Stops) = ~ HasNumber
    <2>1. args[i] \notin HelpFlags \cup UnknownFlags
      BY <1>6, Names
    <2>2. (i < Len(args)) = (i + 1 <= Len(args))
      BY <1>1
    <2>3. QED
      BY <1>6, <2>1, <2>2 DEF Stops, HasNumber
  <1>7. QED
    BY <1>2, <1>3, <1>4, <1>5, <1>6

(* The pass starts well.                                                   *)
LEMMA InvStarts ==
  ASSUME OptsAssumption, Init
  PROVE  Inv
  <1>1. args \in Seq(STRING) /\ Len(args) \in Nat /\ i = 1
    BY DEF Init, OptsAssumption
  <1>2. 1 <= Len(args) => ~ Taken[1]
    <2>1. 1 <= Len(args) => 1 \in 0 .. Len(args) /\ ~ (1 > 1)
      BY <1>1
    <2>2. QED
      BY <1>1, <2>1, TakenSolves
  <1>3. \A k \in Stops : k >= 1
    BY <1>1 DEF Stops
  <1>4. Stands(args, Taken, Stops, i, outcome)
    BY <1>1, <1>2, <1>3 DEF Stands, Init
  <1>5. Free(Taken, 1) = {}
    BY DEF Free
  <1>6. /\ \A t : Given(args, Taken, 1, t) = {}
        /\ Words(args, Taken, 1) = {}
    BY <1>5 DEF Given, Words
  <1>7. PathRead(args, Taken, i, path)
    BY <1>1, <1>6 DEF PathRead, FirstWord, Init
  <1>8. \A f \in DOMAIN Switches : opts[f] = FALSE
    BY DEF Init, Default, Switches
  <1>9. \A f \in DOMAIN Counts : opts[f] = None
    BY DEF Init, Default, Counts
  <1>10. SwitchesRead(args, Taken, i, opts) /\ CountsRead(args, Taken, i, opts)
    BY <1>1, <1>6, <1>8, <1>9 DEF SwitchesRead, CountsRead, LastNumber
  <1>11. opts.help = FALSE /\ outcome # "ok"
    BY DEF Init, Default
  <1>12. opts = [f \in DOMAIN Default |-> opts[f]]
    BY DEF Init, Default
  <1>13. QED
    BY <1>1, <1>4, <1>7, <1>10, <1>11, <1>12 DEF Inv

(* Neither set changes with the line.                                      *)
LEMMA LineStays ==
  ASSUME args' = args
  PROVE  Taken' = Taken /\ Stops' = Stops
  <1>1. Taken' = Taken
    BY DEF Taken
  <1>2. QED
    BY <1>1 DEF Stops

(* What a step that passes arguments owes to the invariant: it goes to the *)
(* next argument that is not taken, and not past a stop.                   *)
LEMMA Passes ==
  ASSUME OptsAssumption, Inv, Reading, i \notin Stops,
         outcome' = outcome, args' = args,
         \/ i' = i + 1 /\ args[i] \notin Range(Counts)
         \/ i' = i + 2 /\ args[i] \in Range(Counts) /\ HasNumber
  PROVE  /\ i \in Nat \ {0}
         /\ Free(Taken, i') = Free(Taken, i) \cup {i}
         /\ Stands(args, Taken, Stops, i', outcome')
  <1>1. /\ args \in Seq(STRING) /\ Len(args) \in Nat /\ i \in 1 .. Len(args) /\ ~ Taken[i]
        /\ \A k \in Stops : k >= i
        /\ outcome = "reading"
    BY DEF Inv, Stands, Reading
  <1>2. \A k \in Stops : k \in 1 .. Len(args) /\ ~ Taken[k]
    BY DEF Stops
  <1>3. CASE i' = i + 1 /\ args[i] \notin Range(Counts)
    <2>1. Free(Taken, i') = Free(Taken, i) \cup {i}
      BY <1>1, <1>3, Advance
    <2>2. i' \in 1 .. Len(args) + 1 /\ (i' <= Len(args) => i < Len(args))
      BY <1>1, <1>3
    <2>3. i' <= Len(args) => ~ Taken[i']
      BY <1>1, <1>3, <2>2, AtI
    <2>4. \A k \in Stops : k >= i'
      <3> TAKE k \in Stops
      <3>1. k # i /\ k >= i /\ k \in Int
        BY <1>1, <1>2
      <3>2. QED
        BY <1>1, <1>3, <3>1
    <2>5. QED
      BY <1>1, <2>1, <2>2, <2>3, <2>4 DEF Stands
  <1>4. CASE i' = i + 2 /\ args[i] \in Range(Counts) /\ HasNumber
    <2>1. i < Len(args)
      BY <1>1, <1>4 DEF HasNumber
    <2>2. Taken[i + 1]
      BY <1>1, <1>4, <2>1, AtI
    <2>3. Free(Taken, i') = Free(Taken, i) \cup {i}
      BY <1>1, <1>4, <2>2, Advance
    <2>4. i' \in 1 .. Len(args) + 1 /\ (i' <= Len(args) => i + 1 < Len(args))
      BY <1>1, <1>4, <2>1
    <2>5. i' <= Len(args) => ~ Taken[i']
      BY <1>1, <1>4, <2>2, <2>4, AtI
    <2>6. \A k \in Stops : k >= i'
      <3> TAKE k \in Stops
      <3>1. k # i /\ k # i + 1 /\ k >= i /\ k \in Int
        BY <1>1, <1>2, <2>2
      <3>2. QED
        BY <1>1, <1>4, <3>1
    <2>7. QED
      BY <1>1, <2>3, <2>4, <2>5, <2>6 DEF Stands
  <1>5. QED
    BY <1>1, <1>3, <1>4

(* What setting a field of a record leaves alone.                          *)
LEMMA Put ==
  ASSUME NEW D, NEW o, o = [g \in D |-> o[g]], NEW f \in D, NEW v, NEW u, u = [o EXCEPT ![f] = v]
  PROVE  /\ u = [g \in D |-> u[g]]
         /\ u[f] = v /\ \A g \in D : g # f => u[g] = o[g]
  <1>1. u = [g \in D |-> IF g = f THEN v ELSE o[g]]
    OBVIOUS
  <1>2. QED
    BY <1>1

(* Every step keeps the invariant.                                         *)
LEMMA InvKept ==
  ASSUME OptsAssumption, Inv, Next
  PROVE  Inv'
  <1>1. /\ args \in Seq(STRING) /\ Len(args) \in Nat
        /\ Stands(args, Taken, Stops, i, outcome)
        /\ opts = [f \in DOMAIN Default |-> opts[f]]
        /\ opts.help = (outcome = "ok" /\ i <= Len(args))
        /\ SwitchesRead(args, Taken, i, opts)
        /\ CountsRead(args, Taken, i, opts)
        /\ PathRead(args, Taken, i, path)
    BY DEF Inv
  <1>2. Reading => /\ outcome = "reading" /\ i \in 1 .. Len(args) /\ ~ Taken[i]
                   /\ opts.help = FALSE
    <2>1. Reading => outcome = "reading" /\ i \in 1 .. Len(args) /\ ~ Taken[i]
      BY <1>1 DEF Reading, Stands
    <2>2. outcome = "reading" => opts.help = FALSE
      BY <1>1
    <2>3. QED
      BY <2>1, <2>2
  <1>3. ASSUME NEW field \in DOMAIN Switches, Switch(field)
        PROVE  Inv'
    <2>1. /\ Reading /\ args[i] = Switches[field] /\ i' = i + 1
          /\ opts' = [opts EXCEPT ![field] = TRUE]
          /\ args' = args /\ path' = path /\ outcome' = outcome
      BY <1>3 DEF Switch
    <2>2. /\ args[i] \in Flags
          /\ args[i] \notin Range(Counts) \cup HelpFlags \cup UnknownFlags
      BY <2>1, Names
    <2>3. i \notin Stops
      BY <1>1, <1>2, <2>1, <2>2, AtI
    <2>4. Free(Taken, i') = Free(Taken, i) \cup {i} /\ Stands(args, Taken, Stops, i', outcome')
      BY <2>1, <2>2, <2>3, Passes
    <2>5. field \in DOMAIN Default /\ field # "help"
      BY Names
    <2>6. /\ opts' = [f \in DOMAIN Default |-> opts'[f]]
          /\ opts'[field] = TRUE /\ \A g \in DOMAIN Default : g # field => opts'[g] = opts[g]
      BY <1>1, <2>1, <2>5, Put
    <2>7. SwitchesRead(args, Taken, i', opts') /\ CountsRead(args, Taken, i', opts')
      BY ZenonT(60), <1>1, <2>1, <2>4, <2>6, SwitchReads
    <2>8. PathRead(args, Taken, i', path')
      <3>1. args[i] \in Flags /\ Free(Taken, i') = Free(Taken, i) \cup {i}
        BY <2>2, <2>4
      <3>2. Words(args, Taken, i') = Words(args, Taken, i)
        BY <3>1, WordsGrow
      <3>3. QED
        BY <1>1, <2>1, <3>2 DEF PathRead
    <2>9. opts'.help = FALSE /\ outcome' # "ok"
      BY <1>2, <2>1, <2>5, <2>6
    <2>10. Taken' = Taken /\ Stops' = Stops
      BY <2>1, LineStays
    <2>11. QED
      BY <1>1, <2>1, <2>4, <2>6, <2>7, <2>8, <2>9, <2>10 DEF Inv
  <1>4. ASSUME NEW field \in DOMAIN Counts, Count(field)
        PROVE  Inv'
    <2>1. /\ Reading /\ args[i] = Counts[field] /\ HasNumber /\ i' = i + 2
          /\ opts' = [opts EXCEPT ![field] = Some(Numerals[args[i + 1]])]
          /\ args' = args /\ path' = path /\ outcome' = outcome
      BY <1>4 DEF Count
    <2>2. args[i] \in Range(Counts) /\ args[i] \in Flags
      BY <2>1, Names
    <2>3. i \notin Stops
      BY <1>1, <1>2, <2>1, <2>2, AtI
    <2>4. /\ i \in Nat \ {0}
          /\ Free(Taken, i') = Free(Taken, i) \cup {i} /\ Stands(args, Taken, Stops, i', outcome')
      BY <2>1, <2>2, <2>3, Passes
    <2>5. field \in DOMAIN Default /\ field # "help"
      BY Names
    <2>6. /\ opts' = [f \in DOMAIN Default |-> opts'[f]]
          /\ opts'[field] = Some(Numerals[args[i + 1]])
          /\ \A g \in DOMAIN Default : g # field => opts'[g] = opts[g]
      BY <1>1, <2>1, <2>5, Put
    <2>7. SwitchesRead(args, Taken, i', opts') /\ CountsRead(args, Taken, i', opts')
      <3>1. opts'[field] = Some(Numerals[args[i + 1]]) /\ args[i] = Counts[field]
        BY <2>1, <2>6
      <3>2. Free(Taken, i') = Free(Taken, i) \cup {i}
        BY <2>4
      <3>3. \A g \in DOMAIN Default : g # field => opts'[g] = opts[g]
        BY <2>6
      <3>4. i \in Nat \ {0} /\ SwitchesRead(args, Taken, i, opts) /\ CountsRead(args, Taken, i, opts)
        BY <1>1, <2>4
      <3>5. Counted(args, Taken, i, i', opts, opts', field)
        BY <3>1, <3>2, <3>3, <3>4 DEF Counted
      <3>6. QED
        BY <3>5, CountReads
    <2>8. PathRead(args, Taken, i', path')
      <3>1. args[i] \in Flags /\ Free(Taken, i') = Free(Taken, i) \cup {i}
        BY <2>2, <2>4
      <3>2. Words(args, Taken, i') = Words(args, Taken, i)
        BY <3>1, WordsGrow
      <3>3. QED
        BY <1>1, <2>1, <3>2 DEF PathRead
    <2>9. opts'.help = FALSE /\ outcome' # "ok"
      BY <1>2, <2>1, <2>5, <2>6
    <2>10. Taken' = Taken /\ Stops' = Stops
      BY <2>1, LineStays
    <2>11. QED
      BY <1>1, <2>1, <2>4, <2>6, <2>7, <2>8, <2>9, <2>10 DEF Inv
  <1>5. CASE Word
    <2>1. /\ Reading /\ args[i] \notin Flags /\ i' = i + 1
          /\ path' = IF path.some THEN path ELSE Some(args[i])
          /\ args' = args /\ opts' = opts /\ outcome' = outcome
      BY <1>5 DEF Word
    <2>2. args[i] \notin Range(Counts) \cup HelpFlags \cup UnknownFlags
      BY <2>1 DEF Flags
    <2>3. i \notin Stops
      BY <1>1, <1>2, <2>1, <2>2, AtI
    <2>4. /\ i \in Nat \ {0}
          /\ Free(Taken, i') = Free(Taken, i) \cup {i} /\ Stands(args, Taken, Stops, i', outcome')
      BY <2>1, <2>2, <2>3, Passes
    <2>5. SwitchesRead(args, Taken, i', opts') /\ CountsRead(args, Taken, i', opts')
      BY <1>1, <2>1, <2>4, WordReads
    <2>6. PathRead(args, Taken, i', path')
      <3>0. args[i] \notin Flags /\ Free(Taken, i') = Free(Taken, i) \cup {i}
        BY <2>1, <2>4
      <3>1. Words(args, Taken, i') = Words(args, Taken, i) \cup {i}
        BY <3>0, WordsGrow
      <3>2. Words(args, Taken, i) \in SUBSET (1 .. i - 1)
        BY DEF Words, Free
      <3>3. QED
        BY <1>1, <2>1, <2>4, <3>1, <3>2, FirstOf DEF PathRead
    <2>7. opts'.help = FALSE /\ outcome' # "ok"
      BY <1>2, <2>1
    <2>8. Taken' = Taken /\ Stops' = Stops
      BY <2>1, LineStays
    <2>9. QED
      BY <1>1, <2>1, <2>4, <2>5, <2>6, <2>7, <2>8 DEF Inv
  <1>6. CASE MissingNumber
    <2>1. /\ Reading /\ args[i] \in Range(Counts) /\ ~ HasNumber /\ outcome' = "error"
          /\ args' = args /\ i' = i /\ opts' = opts /\ path' = path
      BY <1>6 DEF MissingNumber
    <2>2. i \in Stops /\ args[i] \notin HelpFlags
      BY <1>1, <1>2, <2>1, AtI, Names
    <2>3. Stands(args, Taken, Stops, i', outcome')
      BY <1>1, <2>1, <2>2 DEF Stands
    <2>4. Taken' = Taken /\ Stops' = Stops
      BY <2>1, LineStays
    <2>5. opts'.help = FALSE /\ outcome' # "ok"
      BY <1>2, <2>1
    <2>6. QED
      BY <1>1, <2>1, <2>3, <2>4, <2>5 DEF Inv
  <1>7. CASE UnknownFlag
    <2>1. /\ Reading /\ args[i] \in UnknownFlags /\ outcome' = "error"
          /\ args' = args /\ i' = i /\ opts' = opts /\ path' = path
      BY <1>7 DEF UnknownFlag
    <2>2. i \in Stops /\ args[i] \notin HelpFlags
      BY <1>1, <1>2, <2>1, AtI DEF OptsAssumption
    <2>3. Stands(args, Taken, Stops, i', outcome')
      BY <1>1, <2>1, <2>2 DEF Stands
    <2>4. Taken' = Taken /\ Stops' = Stops
      BY <2>1, LineStays
    <2>5. opts'.help = FALSE /\ outcome' # "ok"
      BY <1>2, <2>1
    <2>6. QED
      BY <1>1, <2>1, <2>3, <2>4, <2>5 DEF Inv
  <1>8. CASE Help
    <2>1. /\ Reading /\ args[i] \in HelpFlags /\ outcome' = "ok"
          /\ opts' = [opts EXCEPT !.help = TRUE]
          /\ args' = args /\ i' = i /\ path' = path
      BY <1>8 DEF Help
    <2>2. i \in Stops
      BY <1>1, <1>2, <2>1, AtI
    <2>3. Stands(args, Taken, Stops, i', outcome')
      BY <1>1, <2>1, <2>2 DEF Stands
    <2>4. PICK h : h = "help"
      OBVIOUS
    <2>5. /\ opts' = [f \in DOMAIN Default |-> opts'[f]]
          /\ opts'[h] = TRUE /\ \A g \in DOMAIN Default : g # h => opts'[g] = opts[g]
      <3>1. h \in DOMAIN Default
        BY <2>4 DEF Default
      <3>2. opts' = [opts EXCEPT ![h] = TRUE]
        BY <2>1, <2>4
      <3>3. QED
        BY <1>1, <3>1, <3>2, Put
    <2>6. SwitchesRead(args, Taken, i', opts')
      <3>1. \A f \in DOMAIN Switches : f \in DOMAIN Default /\ f # h
        BY <2>4, Names
      <3>2. \A f \in DOMAIN Switches : opts'[f] = opts[f]
        BY <2>5, <3>1
      <3>3. i' = i
        BY <2>1
      <3>4. QED
        BY <1>1, <3>2, <3>3 DEF SwitchesRead
    <2>7. CountsRead(args, Taken, i', opts')
      <3>1. \A f \in DOMAIN Counts : f \in DOMAIN Default /\ f # h
        BY <2>4, Names
      <3>2. \A f \in DOMAIN Counts : opts'[f] = opts[f]
        BY <2>5, <3>1
      <3>3. i' = i
        BY <2>1
      <3>4. QED
        BY <1>1, <3>2, <3>3 DEF CountsRead
    <2>8. opts'.help = (outcome' = "ok" /\ i' <= Len(args))
      <3>1. outcome' = "ok" /\ i' <= Len(args)
        BY <1>2, <2>1
      <3>2. opts'["help"] = TRUE
        BY <2>4, <2>5
      <3>3. QED
        BY <3>1, <3>2
    <2>9. Taken' = Taken /\ Stops' = Stops
      BY <2>1, LineStays
    <2>10. QED
      BY <1>1, <2>1, <2>3, <2>5, <2>6, <2>7, <2>8, <2>9 DEF Inv
  <1>9. CASE EndOfArgs
    <2>1. /\ outcome = "reading" /\ i > Len(args) /\ outcome' = "ok"
          /\ args' = args /\ i' = i /\ opts' = opts /\ path' = path
      BY <1>9 DEF EndOfArgs
    <2>2. i = Len(args) + 1
      BY <1>1, <2>1 DEF Stands
    <2>3. Stands(args, Taken, Stops, i', outcome')
      BY <1>1, <2>1, <2>2 DEF Stands
    <2>4. Taken' = Taken /\ Stops' = Stops
      BY <2>1, LineStays
    <2>5. opts'.help = FALSE /\ ~ (i' <= Len(args))
      <3>1. opts'.help = FALSE
        BY <1>1, <2>1
      <3>2. ~ (Len(args) + 1 <= Len(args))
        BY <1>1
      <3>3. QED
        BY <2>1, <2>2, <3>1, <3>2
    <2>6. QED
      BY <1>1, <2>1, <2>3, <2>4, <2>5 DEF Inv
  <1>10. CASE UNCHANGED vars
    <2>1. /\ args' = args /\ i' = i /\ opts' = opts /\ path' = path /\ outcome' = outcome
      BY <1>10 DEF vars
    <2>2. Taken' = Taken /\ Stops' = Stops
      BY <2>1, LineStays
    <2>3. QED
      BY <1>1, <2>1, <2>2 DEF Inv
  <1>11. QED
    BY <1>3, <1>4, <1>5, <1>6, <1>7, <1>8, <1>9, <1>10 DEF Next, Over

-----------------------------------------------------------------------------
(* When the pass is over, the invariant says what the property does.       *)
LEMMA InvReads ==
  ASSUME OptsAssumption, Inv
  PROVE  ReadsTheLine
  <1> SUFFICES ASSUME outcome # "reading"
               PROVE  ReadsTheLine
    BY DEF ReadsTheLine
  <1>1. /\ args \in Seq(STRING) /\ Len(args) \in Nat /\ i \in 1 .. Len(args) + 1
        /\ \A k \in Stops : k >= i
        /\ outcome \in {"ok", "error"}
        /\ outcome = "error" => i \in Stops /\ args[i] \notin HelpFlags
        /\ outcome = "ok" => i = Len(args) + 1 \/ (i \in Stops /\ args[i] \in HelpFlags)
    BY DEF Inv, Stands
  <1>2. Stops \subseteq 1 .. Len(args)
    BY DEF Stops
  <1>3. Min(Stops \cup {Len(args) + 1}) = i
    <2>1. i \in Stops \cup {Len(args) + 1}
      BY <1>1
    <2>2. \A k \in Stops \cup {Len(args) + 1} : i <= k
      BY <1>1, <1>2
    <2>3. Stops \cup {Len(args) + 1} \in SUBSET Int
      <3>1. 1 .. Len(args) \subseteq Int /\ Len(args) + 1 \in Int
        BY <1>1
      <3>2. QED
        BY <1>2, <3>1
    <2>4. QED
      BY <2>1, <2>2, <2>3, MinIs
  <1>4. outcome = "ok" <=> (i <= Len(args) => args[i] \in HelpFlags)
    BY <1>1, <1>2
  <1>5. ASSUME outcome = "ok"
        PROVE  /\ opts.help = (i <= Len(args))
               /\ \A f \in DOMAIN Switches : opts[f] <=> Given(args, Taken, i, Switches[f]) # {}
               /\ \A f \in DOMAIN Counts :
                    opts[f] = IF Given(args, Taken, i, Counts[f]) = {} THEN None
                              ELSE Some(Numerals[args[Max(Given(args, Taken, i, Counts[f])) + 1]])
               /\ path = IF Words(args, Taken, i) = {} THEN None
                          ELSE Some(args[Min(Words(args, Taken, i))])
    <2>1. opts.help = (i <= Len(args))
      BY <1>5 DEF Inv
    <2>2. \A f \in DOMAIN Switches : opts[f] <=> Given(args, Taken, i, Switches[f]) # {}
      BY DEF Inv, SwitchesRead
    <2>3. \A f \in DOMAIN Counts :
            opts[f] = IF Given(args, Taken, i, Counts[f]) = {} THEN None
                      ELSE Some(Numerals[args[Max(Given(args, Taken, i, Counts[f])) + 1]])
      BY DEF Inv, CountsRead, LastNumber
    <2>4. path = IF Words(args, Taken, i) = {} THEN None
                 ELSE Some(args[Min(Words(args, Taken, i))])
      BY DEF Inv, PathRead, FirstWord
    <2>5. QED
      BY <2>1, <2>2, <2>3, <2>4
  <1>6. QED
    BY <1>3, <1>4, <1>5 DEF ReadsTheLine, Given, Words, Free

(* Whatever the argument list, its result is the one the list as a whole   *)
(* says, up to its first fault or request for help                         *)
(* (parse_block.rs 33-88).                                                 *)
THEOREM ReadsTheLineAlways ==
  ASSUME OptsAssumption
  PROVE  Spec => []ReadsTheLine
  <1>1. Init => Inv
    BY InvStarts
  <1>2. Inv /\ [Next]_vars => Inv'
    <2>1. ASSUME Inv, UNCHANGED vars
          PROVE  Inv'
      <3>1. /\ args' = args /\ i' = i /\ opts' = opts /\ path' = path /\ outcome' = outcome
        BY <2>1 DEF vars
      <3>2. Taken' = Taken /\ Stops' = Stops
        BY <3>1, LineStays
      <3>3. QED
        BY <2>1, <3>1, <3>2 DEF Inv
    <2>2. QED
      BY <2>1, InvKept
  <1>3. Inv => ReadsTheLine
    BY InvReads
  <1>4. QED
    BY <1>1, <1>2, <1>3, PTL DEF Spec
=============================================================================
