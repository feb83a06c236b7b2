------------------------------- MODULE CliProofs -------------------------------
(***************************************************************************)
(* What Cli.tla makes of every command line: of any options in any order,  *)
(* any number of them, and any number of operands; the same of the inputs  *)
(* of the fuzz harness, which parses one after the other, and that what    *)
(* comes of one of them is a function of its words alone.                  *)
(***************************************************************************)
EXTENDS Fuzz, SequenceTheorems, WellFoundedInduction, TLAPS

Argument == [show_help : BOOLEAN, json : BOOLEAN, library_mode : BOOLEAN, verbose : BOOLEAN,
             facts_path : Texts \cup {"", NoText}, output_path : Texts \cup {"", NoText},
             layer_config_path : Texts \cup {"", NoText},
             compile_db_path : Texts \cup {"", NoText},
             path_count : Nat, max_functions : Nat, max_public : Nat]

TypeInv ==
  /\ args \in Argument
  /\ err \in {"none", "usage", "system"}
  /\ phase \in {"start", "option", "operands", "help", "check", "run", "end", "done"}
  /\ line \in Seq(Words) /\ operands \in Nat

\* An option getopt or the conversion of its number refuses.
Refused(w) == w[1] \in {":", "?"} \/ w[2] = BadNumber

Mistaken == \E i \in DOMAIN line : Refused(line[i])

\* The arguments are what the options returned so far say.
AsGiven ==
  /\ args.show_help <=> Given("h") # {}
  /\ args.facts_path = LastOf("i", NoText) /\ args.output_path = LastOf("o", NoText)
  /\ args.layer_config_path = LastOf("l", NoText)
  /\ args.compile_db_path = LastOf("C", NoText)
  /\ args.max_functions = LastOf("m", DEFAULT_MAX_FUNCS)
  /\ args.max_public = LastOf("p", DEFAULT_MAX_PUB)

\* The inductive invariant: an error is raised exactly by a mistake, although it is
\* looked at a turn later, and until then the arguments are as given.
Inv ==
  /\ TypeInv
  /\ phase = "start" => args = Arguments_init /\ err = "none" /\ line = << >>
  /\ phase \in {"start", "option"} => operands = 0 /\ (err # "none" <=> Mistaken)
  /\ phase \in {"start", "option"} /\ err = "none" => AsGiven
  /\ phase \in {"help", "check", "run"} => err = "none" /\ ~Misspelled
  /\ phase \in {"check", "run"} => AsGiven /\ Given("h") = {} /\ args.path_count = operands
  /\ phase = "run" => ~CheckErrors(args)
  /\ phase = "end" /\ Misspelled => err # "none"
  /\ phase = "done" /\ Misspelled => ret_val = 2

-----------------------------------------------------------------------------
(* One option more. *)

LEMMA GreatestNat ==
  ASSUME NEW S, S \subseteq Nat, S # {}, NEW x \in Nat, \A i \in S : i <= x
  PROVE  \E i \in S : \A j \in S : j <= i
<1> DEFINE T == {x - i : i \in S}
<1>1. T \subseteq Nat /\ T # {}
  <2>1. \A i \in S : x - i \in Nat
    OBVIOUS
  <2>2. QED BY <2>1
<1>2. PICK t \in T : \A u \in T : <<u, t>> \notin OpToRel(<, Nat)
  BY <1>1, NatLessThanWellFounded, WFMin
<1>3. PICK i \in S : t = x - i
  OBVIOUS
<1>4. ASSUME NEW j \in S PROVE j <= i
  <2>1. ~(x - j < x - i)
    BY <1>1, <1>2, <1>3 DEF OpToRel
  <2>2. QED BY <2>1
<1>5. QED BY <1>4

LEMMA MisspelledIs == Misspelled <=> Mistaken \/ operands > MAX_PATHS
BY DEF Misspelled, Mistaken, Refused

LEMMA AppendLine ==
  ASSUME line \in Seq(Words), NEW w \in Words, line' = Append(line, w)
  PROVE  /\ line' \in Seq(Words)
         /\ DOMAIN line' = DOMAIN line \cup {Len(line) + 1} /\ Len(line) + 1 \notin DOMAIN line
         /\ \A i \in DOMAIN line : line'[i] = line[i] /\ i < Len(line) + 1
         /\ line'[Len(line) + 1] = w /\ Len(line) \in Nat
<1>1. Len(line) \in Nat /\ DOMAIN line = 1..Len(line)
  BY LenProperties
<1>2. /\ Len(line') = Len(line) + 1 /\ line'[Len(line) + 1] = w
      /\ \A i \in 1..Len(line) : line'[i] = line[i]
      /\ line' \in Seq(Words)
  BY AppendProperties
<1>3. DOMAIN line' = 1..(Len(line) + 1)
  BY <1>2, LenProperties
<1>4. QED BY <1>1, <1>2, <1>3

LEMMA MistakenAppend ==
  ASSUME line \in Seq(Words), NEW w \in Words, line' = Append(line, w)
  PROVE  Mistaken' <=> Mistaken \/ Refused(w)
BY AppendLine DEF Mistaken

LEMMA GivenAppend ==
  ASSUME line \in Seq(Words), NEW w \in Words, line' = Append(line, w), NEW opt
  PROVE  Given(opt)' = Given(opt) \cup (IF w[1] = opt THEN {Len(line) + 1} ELSE {})
BY AppendLine DEF Given

\* The value of an option is the value of its last occurrence.
LEMMA LastOfAppend ==
  ASSUME line \in Seq(Words), NEW w \in Words, line' = Append(line, w),
         NEW opt, NEW default
  PROVE  LastOf(opt, default)' = IF w[1] = opt THEN w[2] ELSE LastOf(opt, default)
<1> DEFINE x == Len(line) + 1
<1>1. /\ DOMAIN line' = DOMAIN line \cup {x} /\ x \notin DOMAIN line /\ x \in Nat
      /\ \A i \in DOMAIN line : line'[i] = line[i] /\ i < x
      /\ line'[x] = w
  BY AppendLine
<1>2. Given(opt)' = Given(opt) \cup (IF w[1] = opt THEN {x} ELSE {})
  BY GivenAppend
<1>3. Given(opt) \subseteq DOMAIN line /\ DOMAIN line \subseteq Nat
  BY LenProperties DEF Given
<1> HIDE DEF x
<1>4. CASE w[1] = opt
  <2>1. \A j \in Given(opt)' : j <= x
    BY <1>1, <1>2, <1>3, <1>4
  <2>2. \A i \in Given(opt)' : (\A j \in Given(opt)' : j <= i) => i = x
    BY <1>1, <1>2, <1>3, <1>4
  <2>3. (CHOOSE i \in Given(opt)' : \A j \in Given(opt)' : j <= i) = x
    BY <1>2, <1>4, <2>1, <2>2
  <2>4. Given(opt)' # {}
    BY <1>2, <1>4
  <2>5. LastOf(opt, default)' =
          line'[CHOOSE i \in Given(opt)' : \A j \in Given(opt)' : j <= i][2]
    BY <2>4 DEF LastOf
  <2>6. QED BY <1>1, <1>4, <2>3, <2>5
<1>5. CASE w[1] # opt
  <2>1. Given(opt)' = Given(opt)
    BY <1>2, <1>5
  <2>2. CASE Given(opt) = {}
    BY <1>5, <2>1, <2>2 DEF LastOf
  <2>3. CASE Given(opt) # {}
    <3> DEFINE k == CHOOSE i \in Given(opt) : \A j \in Given(opt) : j <= i
    <3>1. LastOf(opt, default)' = line'[k][2] /\ LastOf(opt, default) = line[k][2]
      BY <2>1, <2>3 DEF LastOf
    <3>2. k \in Given(opt)
      <4>1. Given(opt) \subseteq Nat /\ \A i \in Given(opt) : i <= x
        BY <1>1, <1>3
      <4>2. PICK i \in Given(opt) : \A j \in Given(opt) : j <= i
        BY <1>1, <2>3, <4>1, GreatestNat
      <4>3. QED BY <4>2
    <3> HIDE DEF k
    <3>3. QED BY <1>1, <1>3, <1>5, <3>1, <3>2
  <2>4. QED BY <2>2, <2>3
<1>6. QED BY <1>4, <1>5

LEMMA WordCases ==
  ASSUME NEW w \in Words
  PROVE  \/ w[1] \in Flags \cup {":", "?"} /\ w[2] = NoText
         \/ w[1] \in TextOptions /\ w[2] \in Texts \cup {""}
         \/ w[1] \in NumberOptions /\ w[2] \in Numbers
BY DEF Words

\* An option sets its own argument and no other; a number that is none sets the
\* default.
LEMMA SetOptionFields ==
  ASSUME NEW w \in Words, NEW a \in Argument, NEW b, b = SetOption(a, w[1], w[2])
  PROVE  /\ b \in Argument
         /\ b.show_help = (a.show_help \/ w[1] = "h")
         /\ b.facts_path = IF w[1] = "i" THEN w[2] ELSE a.facts_path
         /\ b.output_path = IF w[1] = "o" THEN w[2] ELSE a.output_path
         /\ b.layer_config_path = IF w[1] = "l" THEN w[2] ELSE a.layer_config_path
         /\ b.compile_db_path = IF w[1] = "C" THEN w[2] ELSE a.compile_db_path
         /\ w[2] # BadNumber =>
              /\ b.max_functions = IF w[1] = "m" THEN w[2] ELSE a.max_functions
              /\ b.max_public = IF w[1] = "p" THEN w[2] ELSE a.max_public
<1>1. PICK opt, value : opt = w[1] /\ value = w[2]
  OBVIOUS
<1>2. \/ opt \in Flags \cup {":", "?"} /\ value = NoText
      \/ opt \in TextOptions /\ value \in Texts \cup {""}
      \/ opt \in NumberOptions /\ value \in Numbers
  BY <1>1, WordCases
<1>3. opt \in NumberOptions =>
        /\ ParsedNumber(value, DEFAULT_MAX_FUNCS) \in Nat
        /\ ParsedNumber(value, DEFAULT_MAX_PUB) \in Nat
        /\ value # BadNumber => /\ ParsedNumber(value, DEFAULT_MAX_FUNCS) = value
                                /\ ParsedNumber(value, DEFAULT_MAX_PUB) = value
  <2>1. opt \in NumberOptions => value \in Numbers
    BY <1>2 DEF Flags, TextOptions, NumberOptions
  <2>2. /\ DEFAULT_MAX_FUNCS \in Nat /\ DEFAULT_MAX_PUB \in Nat
        /\ \A n \in Numbers : n = BadNumber \/ n \in Nat
    <3>1. DEFAULT_MAX_FUNCS \in Nat /\ DEFAULT_MAX_PUB \in Nat
      BY CliAssumption
    <3>2. \A n \in Numbers : n = BadNumber \/ n \in Nat
      BY DEF Numbers
    <3>3. QED BY <3>1, <3>2
  <2>3. QED BY <2>1, <2>2 DEF ParsedNumber
<1>4. CASE opt = "h"
  BY <1>1, <1>4 DEF SetOption, Argument
<1>5. CASE opt = "v"
  BY <1>1, <1>5 DEF SetOption, Argument
<1>6. CASE opt = "j"
  BY <1>1, <1>6 DEF SetOption, Argument
<1>7. CASE opt = "L"
  BY <1>1, <1>7 DEF SetOption, Argument
<1>8. CASE opt = "i"
  BY <1>1, <1>2, <1>8 DEF SetOption, Argument, Flags, NumberOptions
<1>9. CASE opt = "o"
  BY <1>1, <1>2, <1>9 DEF SetOption, Argument, Flags, NumberOptions
<1>10. CASE opt = "l"
  BY <1>1, <1>2, <1>10 DEF SetOption, Argument, Flags, NumberOptions
<1>11. CASE opt = "C"
  BY <1>1, <1>2, <1>11 DEF SetOption, Argument, Flags, NumberOptions
<1>12. CASE opt = "m"
  BY <1>1, <1>3, <1>12 DEF SetOption, Argument, NumberOptions
<1>13. CASE opt = "p"
  BY <1>1, <1>3, <1>13 DEF SetOption, Argument, NumberOptions
<1>14. CASE opt \in {":", "?"}
  BY <1>1, <1>14 DEF SetOption, Argument
<1>15. QED BY <1>2, <1>4, <1>5, <1>6, <1>7, <1>8, <1>9, <1>10, <1>11, <1>12, <1>13, <1>14
           DEF Flags, TextOptions, NumberOptions

LEMMA AsGivenAppend ==
  ASSUME line \in Seq(Words), NEW w \in Words, line' = Append(line, w), ~Refused(w),
         args \in Argument, AsGiven, args' = SetOption(args, w[1], w[2])
  PROVE  AsGiven'
<1>1. PICK b : b = args'
  OBVIOUS
<1>2. /\ b.show_help = (args.show_help \/ w[1] = "h")
      /\ b.facts_path = IF w[1] = "i" THEN w[2] ELSE args.facts_path
      /\ b.output_path = IF w[1] = "o" THEN w[2] ELSE args.output_path
      /\ b.layer_config_path = IF w[1] = "l" THEN w[2] ELSE args.layer_config_path
      /\ b.compile_db_path = IF w[1] = "C" THEN w[2] ELSE args.compile_db_path
      /\ b.max_functions = IF w[1] = "m" THEN w[2] ELSE args.max_functions
      /\ b.max_public = IF w[1] = "p" THEN w[2] ELSE args.max_public
  BY <1>1, SetOptionFields DEF Refused
<1>3. Given("h")' # {} <=> (Given("h") # {} \/ w[1] = "h")
  BY GivenAppend, ZenonT(30)
<1>4. \A opt, default :
        LastOf(opt, default)' = IF w[1] = opt THEN w[2] ELSE LastOf(opt, default)
  BY LastOfAppend
<1>5. /\ b.facts_path = LastOf("i", NoText)' /\ b.output_path = LastOf("o", NoText)'
      /\ b.layer_config_path = LastOf("l", NoText)'
      /\ b.compile_db_path = LastOf("C", NoText)'
      /\ b.max_functions = LastOf("m", DEFAULT_MAX_FUNCS)'
      /\ b.max_public = LastOf("p", DEFAULT_MAX_PUB)'
  BY <1>2, <1>4 DEF AsGiven
<1>6. b.show_help <=> Given("h")' # {}
  BY <1>2, <1>3 DEF AsGiven, Argument
<1>7. QED BY <1>1, <1>5, <1>6 DEF AsGiven

-----------------------------------------------------------------------------
(* The invariant. *)

\* No option was returned yet.
Fresh ==
  /\ args = Arguments_init /\ err = "none" /\ line = << >> /\ operands = 0
  /\ phase \in {"start", "option", "end"}

LEMMA FreshIsSound == Fresh => Inv
<1> SUFFICES ASSUME Fresh PROVE Inv
  OBVIOUS
<1>1. args \in Argument
  BY CliAssumption DEF Fresh, Arguments_init, Argument
<1>2. TypeInv
  BY <1>1 DEF Fresh, TypeInv
<1>3. \A opt : Given(opt) = {}
  BY DEF Fresh, Given
<1>4. \A opt, default : LastOf(opt, default) = default
  BY <1>3 DEF LastOf
<1>5. AsGiven
  BY <1>3, <1>4 DEF Fresh, AsGiven, Arguments_init
<1>6. ~Mistaken
  BY DEF Fresh, Mistaken
<1>7. ~(operands > MAX_PATHS)
  <2>1. operands = 0 /\ MAX_PATHS \in Nat
    BY CliAssumption DEF Fresh
  <2>2. QED BY <2>1
<1>8. ~Misspelled
  BY <1>6, <1>7, MisspelledIs
<1>9. QED BY <1>2, <1>5, <1>6, <1>8 DEF Fresh, Inv

LEMMA InvInit == Init => Inv
BY FreshIsSound DEF Init, Fresh

LEMMA InvNext == Inv /\ [Next]_vars => Inv'
<1> SUFFICES ASSUME Inv, [Next]_vars PROVE Inv'
  OBVIOUS
<1>1. /\ args \in Argument /\ err \in {"none", "usage", "system"} /\ line \in Seq(Words)
      /\ operands \in Nat /\ MAX_PATHS \in Nat /\ MaxWords \in Nat
  BY CliAssumption DEF Inv, TypeInv
<1>2. CASE Start
  <2>1. CASE phase' = "help" /\ args' = [args EXCEPT !.show_help = TRUE]
             /\ line' = << <<"h", NoText>> >>
    <3>1. <<"h", NoText>> \in Words /\ ~Refused(<<"h", NoText>>)
      BY CliAssumption DEF Words, Flags, Refused
    <3>2. line' \in Seq(Words) /\ ~Mistaken'
      BY <2>1, <3>1 DEF Mistaken
    <3>3. args' \in Argument
      BY <1>1, <2>1 DEF Argument
    <3>4. operands' = 0 /\ err' = "none"
      BY <1>2 DEF Start, Inv
    <3>5. ~Misspelled'
      BY <1>1, <3>2, <3>4 DEF Misspelled, Mistaken, Refused
    <3>6. QED BY <1>1, <2>1, <3>2, <3>3, <3>4, <3>5 DEF Inv, TypeInv
  <2>2. CASE phase' = "option" /\ UNCHANGED <<args, line>>
    <3>1. phase = "start" /\ phase' = "option" /\ UNCHANGED <<args, line, err, operands>>
      BY <1>2, <2>2 DEF Start
    <3>2. (AsGiven' <=> AsGiven) /\ (Mistaken' <=> Mistaken)
      BY <3>1 DEF AsGiven, Given, LastOf, Mistaken
    <3>3. TypeInv'
      BY <3>1 DEF Inv, TypeInv
    <3>4. QED BY <3>1, <3>2, <3>3 DEF Inv
  <2>3. QED BY <1>2, <2>1, <2>2 DEF Start
<1>3. CASE ParseOption
  <2>1. PICK w \in Words :
          /\ line' = Append(line, w)
          /\ IF err = "none"
             THEN /\ args' = SetOption(args, w[1], w[2])
                  /\ err' = OptionError(w[1], w[2])
                  /\ UNCHANGED phase
             ELSE /\ phase' = "end"
                  /\ UNCHANGED <<args, err>>
    BY <1>3 DEF ParseOption
  <2>2. /\ phase = "option" /\ operands' = 0 /\ (err # "none" <=> Mistaken)
        /\ err = "none" => AsGiven
    BY <1>3 DEF ParseOption, Inv
  <2>3. line' \in Seq(Words)
    BY <1>1, <2>1
  <2>4. Mistaken' <=> Mistaken \/ Refused(w)
    BY <1>1, <2>1, MistakenAppend
  <2>5. CASE err = "none"
    <3>1. args' \in Argument
      BY <1>1, <2>1, <2>5, SetOptionFields
    <3>2. err' # "none" <=> Refused(w)
      BY <2>1, <2>5 DEF OptionError, Refused
    <3>3. err' = "none" => AsGiven'
      BY <1>1, <2>1, <2>2, <2>5, <3>2, AsGivenAppend
    <3>4. err' \in {"none", "usage", "system"}
      BY <2>1, <2>5 DEF OptionError
    <3>5. QED BY <2>1, <2>2, <2>3, <2>4, <2>5, <3>1, <3>2, <3>3, <3>4 DEF Inv, TypeInv
  <2>6. CASE err # "none"
    BY <1>1, <2>1, <2>2, <2>3, <2>6 DEF Inv, TypeInv
  <2>7. QED BY <2>5, <2>6
<1>4. CASE ParseOperands
  <2>1. /\ phase = "option" /\ line' = line /\ operands' \in Nat
        /\ (err # "none" <=> Mistaken) /\ (err = "none" => AsGiven)
    BY <1>1, <1>4 DEF ParseOperands, Inv
  <2>2. (Misspelled' <=> Mistaken \/ operands' > MAX_PATHS)
    BY <2>1 DEF Misspelled, Mistaken, Refused
  <2>3. CASE err # "none"
    BY <1>1, <1>4, <2>1, <2>3 DEF ParseOperands, Inv, TypeInv
  <2>4. CASE err = "none"
    <3>1. /\ args' = [args EXCEPT !.path_count = PathsTaken(operands')]
          /\ err' = IF TooMany(operands') THEN "usage" ELSE "none"
          /\ phase' = IF err' # "none" THEN "end"
                      ELSE IF args.show_help THEN "help" ELSE "check"
      BY <1>4, <2>4 DEF ParseOperands
    <3>2. PathsTaken(operands') \in Nat /\ (~TooMany(operands') => PathsTaken(operands') = operands')
      BY <1>1, <2>1 DEF PathsTaken, TooMany
    <3>3. args' \in Argument
      BY <1>1, <3>1, <3>2 DEF Argument
    <3>4. AsGiven' /\ args'.show_help = args.show_help /\ Given("h")' = Given("h")
      <4>1. /\ \A opt : Given(opt)' = Given(opt)
            /\ \A opt, default : LastOf(opt, default)' = LastOf(opt, default)
        BY <2>1 DEF Given, LastOf
      <4>2. /\ args'.show_help = args.show_help /\ args'.facts_path = args.facts_path
            /\ args'.output_path = args.output_path
            /\ args'.layer_config_path = args.layer_config_path
            /\ args'.compile_db_path = args.compile_db_path
            /\ args'.max_functions = args.max_functions
            /\ args'.max_public = args.max_public
        BY <1>1, <3>1 DEF Argument
      <4>3. QED BY <2>1, <2>4, <4>1, <4>2 DEF AsGiven
    <3>5. err' = "none" => args'.path_count = operands'
      BY <1>1, <3>1, <3>2 DEF Argument
    <3>6. Misspelled' <=> TooMany(operands')
      BY <2>1, <2>2, <2>4 DEF TooMany
    <3>7. phase' = "check" => Given("h")' = {}
      BY <3>1, <3>4 DEF AsGiven
    <3>8. QED BY <1>1, <2>1, <3>1, <3>3, <3>4, <3>5, <3>6, <3>7 DEF Inv, TypeInv
  <2>5. QED BY <2>3, <2>4
<1>5. ASSUME UNCHANGED <<args, line, operands>>
      PROVE  /\ Misspelled' <=> Misspelled
             /\ AsGiven' <=> AsGiven
             /\ Given("h")' = Given("h")
  BY <1>5 DEF Misspelled, AsGiven, Given, LastOf
<1>6. CASE Help
  BY <1>1, <1>5, <1>6 DEF Help, Inv, TypeInv
<1>7. CASE CheckArguments
  BY <1>1, <1>5, <1>7 DEF CheckArguments, Inv, TypeInv
<1>8. CASE Run
  BY <1>1, <1>5, <1>8 DEF Run, Inv, TypeInv
<1>9. CASE End
  BY <1>1, <1>5, <1>9 DEF End, Inv, TypeInv
<1>10. CASE UNCHANGED vars
  <2>1. Mistaken' <=> Mistaken
    BY <1>10 DEF vars, Mistaken
  <2>2. QED BY <1>5, <1>10, <2>1 DEF vars, Inv, TypeInv
<1>11. QED BY <1>2, <1>3, <1>4, <1>6, <1>7, <1>8, <1>9, <1>10 DEF Next

\* Every state of a command line satisfies the inductive invariant.
THEOREM Invariant == Spec => []Inv
BY InvInit, InvNext, PTL DEF Spec

\* What is needed of the arguments to start a run.
LEMMA AskedWhenRunning == Inv => RunsAsAsked
<1>1. SUFFICES ASSUME Inv, phase = "run" PROVE RunsAsAsked
  BY DEF RunsAsAsked
<1>2. /\ args \in Argument /\ AsGiven /\ Given("h") = {} /\ args.path_count = operands
      /\ ~Misspelled /\ ~CheckErrors(args)
  BY <1>1 DEF Inv, TypeInv
<1>3. args.max_functions > 0 /\ args.max_public > 0
  <2>1. /\ args.max_functions \in Nat /\ args.max_functions # 0
        /\ args.max_public \in Nat /\ args.max_public # 0
    BY <1>2 DEF Argument, CheckErrors
  <2>2. QED BY <2>1
<1>4. /\ LastOf("i", NoText) # "" /\ LastOf("o", NoText) # ""
      /\ LastOf("l", NoText) # "" /\ LastOf("C", NoText) # ""
      /\ LastOf("i", NoText) = NoText \/ LastOf("C", NoText) = NoText
  BY <1>2 DEF AsGiven, CheckErrors
<1>5. \A opt \in TextOptions : LastOf(opt, NoText) # ""
  BY <1>4 DEF TextOptions
<1>6. QED BY <1>2, <1>3, <1>4, <1>5 DEF RunsAsAsked, AsGiven

\* A run is started only by a command line without a mistake, with all operands and
\* with the last value of every option, however often options were given
\* (parse_arguments and check_arguments of cli.c).
THEOREM AsAsked == Spec => []RunsAsAsked
BY AskedWhenRunning, Invariant, PTL

\* Whatever stands before and after it, a mistake makes the exit status 2: the error
\* of the last turn of the loop is not forgotten (parse_arguments, main).
THEOREM MistakesToldAlways == Spec => []MistakesAreTrouble
<1>1. Inv => MistakesAreTrouble
  BY DEF Inv, MistakesAreTrouble
<1>2. QED BY <1>1, Invariant, PTL

\* A step of the program ends the parse in the help exactly if help was asked for
\* and nothing was mistaken.
WinsNow == phase' # phase /\ phase \in {"option", "start"} =>
             (phase' = "help" <=> ~Misspelled' /\ Given("h")' # {})

LEMMA HelpStep ==
  ASSUME Inv, [Next]_vars
  PROVE  WinsNow
<1> USE DEF WinsNow
<1>1. /\ args \in Argument /\ line \in Seq(Words) /\ operands \in Nat
      /\ MAX_PATHS \in Nat /\ MaxWords \in Nat
  BY CliAssumption DEF Inv, TypeInv
<1>2. CASE Start
  <2>1. operands' = 0 /\ line = << >>
    BY <1>2 DEF Start, Inv
  <2>2. CASE phase' = "help" /\ line' = << <<"h", NoText>> >>
    <3>1. ~Misspelled'
      <4>1. <<"h", NoText>> \in Words /\ ~Refused(<<"h", NoText>>)
        BY CliAssumption DEF Words, Flags, Refused
      <4>2. ~Mistaken'
        BY <2>2, <4>1 DEF Mistaken
      <4>3. QED BY <1>1, <2>1, <4>2 DEF Misspelled, Mistaken, Refused
    <3>2. Given("h")' # {}
      BY <2>2 DEF Given
    <3>3. QED BY <2>2, <3>1, <3>2
  <2>3. CASE phase' = "option" /\ UNCHANGED line
    BY <2>1, <2>3 DEF Given
  <2>4. QED BY <1>2, <2>2, <2>3 DEF Start
<1>3. CASE ParseOption
  <2>1. PICK w \in Words : line' = Append(line, w) /\ (err = "none" => UNCHANGED phase)
                           /\ (err # "none" => phase' = "end")
    BY <1>3 DEF ParseOption
  <2>2. err # "none" => Mistaken
    BY <1>3 DEF ParseOption, Inv
  <2>3. Mistaken => Mistaken'
    BY <1>1, <2>1, MistakenAppend
  <2>4. Mistaken' => Misspelled'
    BY DEF Mistaken, Misspelled, Refused
  <2>5. QED BY <2>1, <2>2, <2>3, <2>4
<1>4. CASE ParseOperands
  <2>1. /\ phase = "option" /\ line' = line /\ operands' \in Nat
        /\ (err # "none" <=> Mistaken) /\ (err = "none" => AsGiven)
    BY <1>1, <1>4 DEF ParseOperands, Inv
  <2>2. Misspelled' <=> Mistaken \/ operands' > MAX_PATHS
    BY <2>1 DEF Misspelled, Mistaken, Refused
  <2>3. Given("h")' = Given("h")
    BY <2>1 DEF Given
  <2>4. CASE err # "none"
    BY <1>4, <2>1, <2>2, <2>4 DEF ParseOperands
  <2>5. CASE err = "none"
    <3>1. phase' = IF operands' > MAX_PATHS THEN "end"
                   ELSE IF args.show_help THEN "help" ELSE "check"
      BY <1>4, <2>5 DEF ParseOperands, TooMany
    <3>2. args.show_help <=> Given("h") # {}
      BY <2>1, <2>5 DEF AsGiven
    <3>3. QED BY <2>1, <2>2, <2>3, <2>5, <3>1, <3>2
  <2>6. QED BY <2>4, <2>5
<1>5. CASE Help \/ CheckArguments \/ Run \/ End \/ UNCHANGED vars
  BY <1>5 DEF Help, CheckArguments, Run, End, vars
<1>6. QED BY <1>2, <1>3, <1>4, <1>5 DEF Next

\* Parsing ends in the help exactly if help was asked for and nothing was mistaken,
\* whatever the other options say (main.c asks for show_help first).
THEOREM HelpFirst == Spec => HelpWins
BY HelpStep, Invariant, PTL DEF Spec, HelpWins, WinsNow

-----------------------------------------------------------------------------
(* The harness parses as the program does. *)

\* Nothing of an earlier input is left in the arguments or in the error object.
LEMMA FreshInput == TakeInput => Inv'
<1>1. TakeInput => Fresh'
  BY DEF TakeInput, Fresh
<1>2. Fresh => Inv
  BY FreshIsSound
<1>3. QED BY <1>1, <1>2, PTL

LEMMA EitherNext ==
  ASSUME Inv, [ProgramNext \/ FuzzNext]_bothVars
  PROVE  Inv'
<1>1. CASE ProgramNext
  BY <1>1, InvNext DEF ProgramNext
<1>2. CASE FuzzNext /\ TakeInput
  BY <1>2, FreshInput
<1>3. CASE FuzzNext /\ Parse
  <2>1. ParseOption \/ ParseOperands \/ CheckArguments
    BY <1>3 DEF Parse, ParseNext, ParseRest, Judge
  <2>2. QED BY <2>1, InvNext DEF Next
<1>4. CASE UNCHANGED bothVars
  BY <1>4, InvNext DEF bothVars
<1>5. QED BY <1>1, <1>2, <1>3, <1>4 DEF FuzzNext

\* In the program and in the harness, whatever its process has parsed before, a
\* parse starts a run only with the values given last and with every operand, and a
\* mistake is trouble (parse_arguments and check_arguments; fuzz_parse.c:90-101).
THEOREM EitherAsAsked == BothSpec => [](RunsAsAsked /\ MistakesAreTrouble)
<1>1. FuzzInit => Inv
  BY FreshIsSound DEF FuzzInit, Fresh
<1>2. BothInit => Inv
  BY <1>1, InvInit DEF BothInit
<1>3. BothSpec => []Inv
  BY <1>2, EitherNext, PTL DEF BothSpec
<1>4. Inv => RunsAsAsked
  BY AskedWhenRunning
<1>5. Inv => MistakesAreTrouble
  BY DEF Inv, MistakesAreTrouble
<1>6. QED BY <1>3, <1>4, <1>5, PTL

\* Of a parse of the harness the same holds, although help is never asked for there.
LEMMA HelpStepEither ==
  ASSUME Inv, [ProgramNext \/ FuzzNext]_bothVars
  PROVE  WinsNow
<1>1. CASE ProgramNext
  BY <1>1, HelpStep DEF ProgramNext
<1>2. CASE FuzzNext /\ TakeInput
  BY <1>2 DEF TakeInput, Idle, WinsNow
<1>3. CASE FuzzNext /\ Parse
  <2>1. Next
    BY <1>3 DEF Parse, ParseNext, ParseRest, Judge, Next
  <2>2. QED BY <2>1, HelpStep
<1>4. CASE UNCHANGED bothVars
  BY <1>4 DEF bothVars, vars, WinsNow
<1>5. QED BY <1>1, <1>2, <1>3, <1>4 DEF FuzzNext

\* In either executable the help wins over everything but a mistake.
THEOREM HelpFirstEither == BothSpec => HelpWins
<1>1. BothInit => Inv
  BY FreshIsSound, InvInit DEF BothInit, FuzzInit, Fresh
<1>2. QED BY <1>1, EitherNext, HelpStepEither, PTL DEF BothSpec, HelpWins, WinsNow

-----------------------------------------------------------------------------
(* The harness passes over every input that asks for help. *)

\* While nothing was mistaken, what getopt has left to read of a word holds no h.
HiddenInv ==
  harness =>
    /\ phase \in {"option", "check", "run", "end"}
    /\ phase = "option" => argv \in Seq(Seq(Characters)) /\ ~AsksForHelp(argv)
    /\ phase = "option" /\ err = "none" =>
         optind \in Nat \ {0} /\ nextchar \in Seq(Characters) /\ "h" \notin Range(nextchar)
    /\ phase # "end" /\ err = "none" => ~args.show_help

LEMMA AppendedIs ==
  ASSUME NEW S, NEW s \in Seq(S), NEW v, NEW w, Append(s, v) = Append(s, w)
  PROVE  v = w
<1> DEFINE T == S \cup {v, w}
<1>1. s \in [1..Len(s) -> T] /\ Len(s) \in Nat
  OBVIOUS
<1>2. s \in Seq(T) /\ v \in T /\ w \in T
  BY <1>1, SeqDef
<1>3. Append(s, v)[Len(s) + 1] = v /\ Append(s, w)[Len(s) + 1] = w
  BY <1>2, AppendProperties
<1>4. QED BY <1>3

\* The letters of a word after its first.
LEMMA LettersOfTail ==
  ASSUME NEW s \in Seq(Characters), s # << >>
  PROVE  /\ Head(s) \in Range(s) /\ Tail(s) \in Seq(Characters)
         /\ Range(Tail(s)) \subseteq Range(s)
         /\ Len(s) > 1 => Tail(s) # << >> /\ Head(Tail(s)) = s[2]
<1>1. Len(s) \in Nat \ {0} /\ DOMAIN s = 1..Len(s) /\ Head(s) = s[1]
  BY EmptySeq, LenProperties, HeadTailProperties
<1>2. /\ Tail(s) \in Seq(Characters) /\ Len(Tail(s)) = Len(s) - 1
      /\ \A i \in 1..Len(Tail(s)) : Tail(s)[i] = s[i + 1]
  BY HeadTailProperties
<1>3. Head(s) \in Range(s)
  BY <1>1 DEF Range
<1>4. Range(Tail(s)) \subseteq Range(s)
  <2>1. SUFFICES ASSUME NEW i \in DOMAIN Tail(s) PROVE Tail(s)[i] \in Range(s)
    BY DEF Range
  <2>2. i \in 1..Len(Tail(s))
    BY <1>2, <2>1, LenProperties
  <2>3. i + 1 \in DOMAIN s /\ Tail(s)[i] = s[i + 1]
    BY <1>1, <1>2, <2>2
  <2>4. QED BY <2>3 DEF Range
<1>5. ASSUME Len(s) > 1 PROVE Tail(s) # << >> /\ Head(Tail(s)) = s[2]
  <2>1. Len(Tail(s)) > 0 /\ 1 \in 1..Len(Tail(s))
    BY <1>1, <1>2, <1>5
  <2>2. Tail(s) # << >>
    <3>1. PICK t : t = Tail(s)
      OBVIOUS
    <3>2. t \in Seq(Characters) /\ Len(t) # 0
      BY <1>2, <2>1, <3>1
    <3>3. QED BY <3>1, <3>2, EmptySeq
  <2>3. Head(Tail(s)) = Tail(s)[1]
    BY <1>2, <2>2, HeadTailProperties
  <2>4. QED BY <1>2, <2>1, <2>2, <2>3
<1>6. QED BY <1>2, <1>3, <1>4, <1>5

\* getopt reads no h, and leaves none to be read but behind a letter that is no
\* option: a dash, in a word the search has passed over because it begins with two.
LEMMA NoHelpRead ==
  ASSUME NEW words \in Seq(Seq(Characters)), ~AsksForHelp(words),
         NEW next \in Nat \ {0}, NEW left \in Seq(Characters), "h" \notin Range(left),
         ~AtEnd(words, next, left), NEW found, found = Returned(words, next, left)
  PROVE  /\ found.word[1] # "h"
         /\ found.word[1] # "?" =>
              /\ found.optind \in Nat \ {0} /\ found.nextchar \in Seq(Characters)
              /\ "h" \notin Range(found.nextchar)
<1>1. PICK s : s = Letters(words, next, left)
  OBVIOUS
<1>2. s # << >>
  BY <1>1 DEF AtEnd
<1>3. s \in Seq(Characters) /\ ("h" \notin Range(s) \/ Head(s) = "-")
  <2>1. CASE left # << >>
    BY <1>1, <2>1 DEF Letters
  <2>2. CASE left = << >>
    <3>1. PICK w : w = words[next]
      OBVIOUS
    <3>2. next <= Len(words) /\ IsOption(w) /\ s = Tail(w)
      BY <1>1, <1>2, <2>2, <3>1 DEF Letters
    <3>3. next \in DOMAIN words /\ w \in Seq(Characters)
      BY <3>1, <3>2
    <3>4. Len(w) > 1 /\ w # << >>
      BY <3>2 DEF IsOption
    <3>5. Tail(w) \in Seq(Characters) /\ Head(Tail(w)) = w[2]
      BY <3>3, <3>4, LettersOfTail
    <3>6. w[2] # "-" => "h" \notin Range(Tail(w))
      BY <3>1, <3>2, <3>3 DEF AsksForHelp
    <3>7. QED BY <3>2, <3>5, <3>6
  <2>3. QED BY <2>1, <2>2
<1>4. Head(s) \in Range(s) /\ Tail(s) \in Seq(Characters) /\ Range(Tail(s)) \subseteq Range(s)
  BY <1>2, <1>3, LettersOfTail
<1>5. "h" \notin Range(<< >>) /\ << >> \in Seq(Characters) /\ next + 1 \in Nat \ {0}
      /\ next + 2 \in Nat \ {0}
  BY DEF Range
<1>6. CASE Head(s) = "-"
  <2>1. found.word = <<"?", NoText>>
    BY <1>1, <1>6 DEF Returned, Flags, TextOptions, NumberOptions
  <2>2. QED BY <2>1
<1>7. CASE Head(s) # "-"
  <2>1. "h" \notin Range(s) /\ Head(s) # "h" /\ "h" \notin Range(Tail(s))
    BY <1>3, <1>4, <1>7
  <2>2. CASE Head(s) \in Flags
    BY <1>1, <1>4, <1>5, <2>1, <2>2 DEF Returned
  <2>3. CASE Head(s) \notin Flags /\ Head(s) \notin TextOptions \cup NumberOptions
    <3>1. found.word = <<"?", NoText>>
      BY <1>1, <2>3 DEF Returned
    <3>2. QED BY <3>1
  <2>4. CASE Head(s) \notin Flags /\ Head(s) \in TextOptions \cup NumberOptions
    <3>1. /\ found.word[1] \in {Head(s), ":"} /\ found.optind \in {next + 1, next + 2}
          /\ found.nextchar = << >>
      <4>1. CASE Tail(s) # << >>
        BY <1>1, <2>4, <4>1 DEF Returned
      <4>2. CASE Tail(s) = << >> /\ next < Len(words)
        BY <1>1, <2>4, <4>2 DEF Returned
      <4>3. CASE Tail(s) = << >> /\ ~(next < Len(words))
        BY <1>1, <2>4, <4>3 DEF Returned
      <4>4. QED BY <4>1, <4>2, <4>3
    <3>2. QED BY <1>5, <2>1, <3>1
  <2>5. QED BY <2>2, <2>3, <2>4
<1>8. QED BY <1>6, <1>7

LEMMA TakenAreWords ==
  ASSUME NEW input \in Inputs
  PROVE  WordsTaken(input) \in Seq(Seq(Characters))
<1>1. input \in Seq(Seq(Characters)) /\ FUZZ_MAX_ARGS \in Nat /\ FUZZ_MAX_ARGS > 2
  BY FuzzAssumption
<1>2. PICK n : n = IF Len(input) < FUZZ_MAX_ARGS - 1 THEN Len(input) ELSE FUZZ_MAX_ARGS - 2
  OBVIOUS
<1>3. Len(input) \in Nat /\ DOMAIN input = 1..Len(input)
  BY <1>1, LenProperties
<1>4. n \in Int /\ 1..n \subseteq 1..Len(input)
  BY <1>1, <1>2, <1>3
<1>5. \A i \in 1..n : input[i] \in Seq(Characters)
  BY <1>1, <1>3, <1>4
<1>6. SubSeq(input, 1, n) \in Seq(Seq(Characters))
  BY <1>4, <1>5, SubSeqProperties
<1>7. QED BY <1>2, <1>6 DEF WordsTaken

LEMMA HiddenStep ==
  ASSUME Inv, HiddenInv, [ProgramNext \/ FuzzNext]_bothVars
  PROVE  HiddenInv'
<1>1. CASE ProgramNext
  BY <1>1 DEF ProgramNext, HiddenInv
<1>2. CASE TakeInput /\ UNCHANGED harness
  <2>1. PICK input \in Inputs :
          /\ argv' = WordsTaken(input)
          /\ phase' = IF AsksForHelp(WordsTaken(input)) THEN "end" ELSE "option"
    BY <1>2 DEF TakeInput
  <2>2. argv' \in Seq(Seq(Characters)) /\ (phase' = "option" => ~AsksForHelp(argv'))
    BY <2>1, TakenAreWords
  <2>3. optind' = 1 /\ nextchar' = << >> /\ "h" \notin Range(<< >>) /\ << >> \in Seq(Characters)
    BY <1>2 DEF TakeInput, Reset, Range
  <2>4. ~args'.show_help
    BY <1>2 DEF TakeInput, Arguments_init
  <2>5. phase' \in {"option", "end"}
    BY <2>1
  <2>6. QED BY <2>2, <2>3, <2>4, <2>5 DEF HiddenInv
<1>3. CASE harness /\ ParseNext /\ UNCHANGED harness
  <2>1. PICK found : found = Returned(argv, optind, nextchar)
    OBVIOUS
  <2>2. PICK w \in Words :
          /\ line' = Append(line, w)
          /\ IF err = "none"
             THEN /\ args' = SetOption(args, w[1], w[2])
                  /\ err' = OptionError(w[1], w[2])
                  /\ UNCHANGED phase
             ELSE /\ phase' = "end"
                  /\ UNCHANGED <<args, err>>
    BY <1>3 DEF ParseNext, ParseOption
  <2>3. /\ phase = "option" /\ ~AtEnd(argv, optind, nextchar) /\ line' = Append(line, found.word)
        /\ optind' = found.optind /\ nextchar' = found.nextchar /\ argv' = argv
    BY <1>3, <2>1 DEF ParseNext, ParseOption
  <2>4. w = found.word
    <3>1. line \in Seq(Words)
      BY DEF Inv, TypeInv
    <3>2. PICK v : v = found.word
      OBVIOUS
    <3>3. QED BY <2>2, <2>3, <3>1, <3>2, AppendedIs
  <2>5. CASE err # "none"
    BY <1>3, <2>2, <2>5 DEF HiddenInv
  <2>6. CASE err = "none"
    <3>1. /\ argv \in Seq(Seq(Characters)) /\ ~AsksForHelp(argv) /\ optind \in Nat \ {0}
          /\ nextchar \in Seq(Characters) /\ "h" \notin Range(nextchar) /\ ~args.show_help
      BY <1>3, <2>3, <2>6 DEF HiddenInv
    <3>2. /\ w[1] # "h"
          /\ w[1] # "?" => /\ found.optind \in Nat \ {0} /\ found.nextchar \in Seq(Characters)
                           /\ "h" \notin Range(found.nextchar)
      BY <2>1, <2>3, <2>4, <3>1, NoHelpRead
    <3>3. ~args'.show_help
      <4>1. args \in Argument /\ args' = SetOption(args, w[1], w[2])
        BY <2>2, <2>6 DEF Inv, TypeInv
      <4>2. PICK b : b = args'
        OBVIOUS
      <4>3. b.show_help = (args.show_help \/ w[1] = "h")
        BY <4>1, <4>2, SetOptionFields
      <4>4. QED BY <3>1, <3>2, <4>2, <4>3
    <3>4. w[1] = "?" => err' = "usage"
      BY <2>2, <2>6 DEF OptionError
    <3>5. phase' = "option"
      BY <2>2, <2>3, <2>6
    <3>6. QED BY <2>3, <3>1, <3>2, <3>3, <3>4, <3>5 DEF HiddenInv
  <2>7. QED BY <2>5, <2>6
<1>4. CASE harness /\ ParseRest /\ UNCHANGED harness
  <2>1. phase = "option" /\ argv' = argv
    BY <1>4 DEF ParseRest
  <2>2. CASE err # "none"
    <3>1. phase' = "end"
      BY <1>4, <2>2 DEF ParseRest, ParseOperands
    <3>2. QED BY <3>1 DEF HiddenInv
  <2>3. CASE err = "none"
    <3>1. ~args.show_help /\ args \in Argument
      BY <1>4, <2>1, <2>3 DEF HiddenInv, Inv, TypeInv
    <3>2. /\ args' = [args EXCEPT !.path_count = PathsTaken(operands')]
          /\ phase' = IF err' # "none" THEN "end"
                      ELSE IF args.show_help THEN "help" ELSE "check"
      BY <1>4, <2>3 DEF ParseRest, ParseOperands
    <3>3. args'.show_help = args.show_help
      BY <3>1, <3>2 DEF Argument
    <3>4. QED BY <3>1, <3>2, <3>3 DEF HiddenInv
  <2>4. QED BY <2>2, <2>3
<1>5. CASE harness /\ Judge /\ UNCHANGED harness
  <2>1. phase = "check" /\ phase' \in {"end", "run"} /\ args' = args
        /\ (phase' = "run" => err' = err)
    BY <1>5 DEF Judge, CheckArguments
  <2>2. QED BY <1>5, <2>1 DEF HiddenInv
<1>6. CASE UNCHANGED bothVars
  BY <1>6 DEF bothVars, vars, fuzzVars, getopt, HiddenInv
<1>7. QED BY <1>1, <1>2, <1>3, <1>4, <1>5, <1>6 DEF FuzzNext, Parse

\* No input of the fuzzer is answered with help: what the search lets through is
\* judged to its end or to its first mistake (fuzz_parse.c:77-95).
THEOREM NoInputHelped == BothSpec => []NeverHelped
<1>1. BothInit => Inv /\ HiddenInv
  <2>1. BothInit => Inv
    BY FreshIsSound, InvInit DEF BothInit, FuzzInit, Fresh
  <2>2. BothInit => HiddenInv
    BY DEF BothInit, FuzzInit, HiddenInv
  <2>3. QED BY <2>1, <2>2
<1>2. Inv /\ HiddenInv /\ [ProgramNext \/ FuzzNext]_bothVars => Inv' /\ HiddenInv'
  BY EitherNext, HiddenStep
<1>3. HiddenInv => NeverHelped
  BY DEF HiddenInv, NeverHelped
<1>4. QED BY <1>1, <1>2, <1>3, PTL DEF BothSpec

-----------------------------------------------------------------------------
(* What comes of an input is a function of its words. *)

\* What a parse reads and writes.
Now == [args |-> args, err |-> err, phase |-> phase, line |-> line, operands |-> operands,
        optind |-> optind, nextchar |-> nextchar]

Parsing == {"option", "check"}

\* Where every parse begins.
First == [args |-> Arguments_init, err |-> "none", phase |-> "option", line |-> << >>,
          operands |-> 0, optind |-> 1, nextchar |-> << >>]

\* One turn of a parse of these words, as a function.
OptionTurn(words, s) ==
  LET found == Returned(words, s.optind, s.nextchar)
      w == found.word
  IN [args |-> IF s.err = "none" THEN SetOption(s.args, w[1], w[2]) ELSE s.args,
      err |-> IF s.err = "none" THEN OptionError(w[1], w[2]) ELSE s.err,
      phase |-> IF s.err = "none" THEN "option" ELSE "end",
      line |-> Append(s.line, w), operands |-> s.operands,
      optind |-> found.optind, nextchar |-> found.nextchar]

RestTurn(words, s) ==
  LET first == FirstOperand(words, s.optind, s.nextchar)
      n == Len(words) + 1 - first
      e == IF s.err # "none" THEN s.err ELSE IF TooMany(n) THEN "usage" ELSE "none"
      p == IF e # "none" THEN "end" ELSE IF s.args.show_help THEN "help" ELSE "check"
  IN [args |-> IF s.err # "none" THEN s.args
               ELSE [s.args EXCEPT !.path_count = PathsTaken(n)],
      err |-> e, phase |-> p, line |-> s.line, operands |-> n,
      optind |-> IF p = "check" THEN Len(words) + 1 ELSE first, nextchar |-> s.nextchar]

CheckTurn(s) ==
  [args |-> s.args, err |-> IF CheckErrors(s.args) THEN "usage" ELSE s.err,
   phase |-> IF CheckErrors(s.args) THEN "end" ELSE "run", line |-> s.line,
   operands |-> s.operands, optind |-> s.optind, nextchar |-> s.nextchar]

Turn(words, s) ==
  IF s.phase = "check" THEN CheckTurn(s)
  ELSE IF AtEnd(words, s.optind, s.nextchar) THEN RestTurn(words, s)
  ELSE OptionTurn(words, s)

\* The states of a parse of these words, up to its turn n.
Trace(words, n, t) ==
  /\ n \in Nat /\ t[0] = First
  /\ \A i \in 0..n - 1 : t[i].phase \in Parsing /\ t[i + 1] = Turn(words, t[i])

\* A turn of the harness is that turn.
LEMMA TurnOfParse ==
  ASSUME Inv, Parse
  PROVE  phase \in Parsing /\ Now' = Turn(argv, Now)
<1>1. line \in Seq(Words)
  BY DEF Inv, TypeInv
<1>2. CASE ParseNext
  <2> DEFINE found == Returned(argv, optind, nextchar)
  <2>1. PICK w \in Words :
          /\ line' = Append(line, w)
          /\ IF err = "none"
             THEN /\ args' = SetOption(args, w[1], w[2])
                  /\ err' = OptionError(w[1], w[2])
                  /\ UNCHANGED phase
             ELSE /\ phase' = "end"
                  /\ UNCHANGED <<args, err>>
    BY <1>2 DEF ParseNext, ParseOption
  <2>2. /\ phase = "option" /\ ~AtEnd(argv, optind, nextchar) /\ line' = Append(line, found.word)
        /\ operands' = operands /\ optind' = found.optind /\ nextchar' = found.nextchar
    BY <1>2 DEF ParseNext, ParseOption
  <2> DEFINE v == found.word
  <2> HIDE DEF v
  <2>3. Append(line, w) = Append(line, v)
    BY <2>1, <2>2 DEF v
  <2>4. w = v
    BY <1>1, <2>3, AppendedIs
  <2>5. Now' = OptionTurn(argv, Now)
    BY <2>1, <2>2, <2>4 DEF v, Now, OptionTurn
  <2>6. QED BY <2>2, <2>5 DEF Turn, Now, Parsing
<1>3. CASE ParseRest
  <2>1. /\ phase = "option" /\ AtEnd(argv, optind, nextchar)
        /\ Now' = RestTurn(argv, Now)
    BY <1>3 DEF ParseRest, ParseOperands, Now, RestTurn
  <2>2. QED BY <2>1 DEF Turn, Now, Parsing
<1>4. CASE Judge
  <2>1. phase = "check" /\ Now' = CheckTurn(Now)
    BY <1>4 DEF Judge, CheckArguments, getopt, Now, CheckTurn
  <2>2. QED BY <2>1 DEF Turn, Now, Parsing
<1>5. QED BY <1>2, <1>3, <1>4 DEF Parse

LEMMA LeastNat ==
  ASSUME NEW S, S \subseteq Nat, S # {}
  PROVE  \E i \in S : \A j \in S : i <= j
<1>1. PICK i \in S : \A j \in S : <<j, i>> \notin OpToRel(<, Nat)
  BY NatLessThanWellFounded, WFMin
<1>2. ASSUME NEW j \in S PROVE i <= j
  <2>1. ~(j < i)
    BY <1>1 DEF OpToRel
  <2>2. QED BY <2>1
<1>3. QED BY <1>2

\* Two parses of the same words agree as far as both have come.
LEMMA TracesAgree ==
  ASSUME NEW words, NEW n, NEW t, Trace(words, n, t),
         NEW k, NEW u, Trace(words, k, u)
  PROVE  \A i \in Nat : i <= n /\ i <= k => t[i] = u[i]
<1> DEFINE Apart == {i \in Nat : i <= n /\ i <= k /\ t[i] # u[i]}
<1>1. SUFFICES ASSUME Apart # {} PROVE FALSE
  OBVIOUS
<1> n \in Nat /\ k \in Nat
  BY DEF Trace
<1>2. PICK i \in Apart : \A j \in Apart : i <= j
  BY <1>1, LeastNat
<1>3. i # 0
  BY <1>2 DEF Trace
<1>4. i - 1 \in 0..n - 1 /\ i - 1 \in 0..k - 1 /\ (i - 1) + 1 = i
  BY <1>2, <1>3
<1>5. t[i - 1] = u[i - 1]
  BY <1>2, <1>4
<1>6. t[i] = Turn(words, t[i - 1]) /\ u[i] = Turn(words, u[i - 1])
  BY <1>4 DEF Trace
<1>7. QED BY <1>2, <1>5, <1>6

\* So a parse ends in one way only.
LEMMA OneOutcome ==
  ASSUME NEW words, NEW n, NEW t, Trace(words, n, t), t[n].phase \notin Parsing,
         NEW k, NEW u, Trace(words, k, u), u[k].phase \notin Parsing
  PROVE  t[n] = u[k]
<1> n \in Nat /\ k \in Nat
  BY DEF Trace
<1>1. ~(n < k)
  <2>1. SUFFICES ASSUME n < k PROVE FALSE
    OBVIOUS
  <2>2. n \in 0..k - 1 /\ t[n] = u[n]
    BY <2>1, TracesAgree
  <2>3. QED BY <2>2 DEF Trace
<1>2. ~(k < n)
  <2>1. SUFFICES ASSUME k < n PROVE FALSE
    OBVIOUS
  <2>2. k \in 0..n - 1 /\ t[k] = u[k]
    BY <2>1, TracesAgree
  <2>3. QED BY <2>2 DEF Trace
<1>3. n = k
  BY <1>1, <1>2
<1>4. QED BY <1>3, TracesAgree

\* A parse that goes on has a trace, and so has every result.
TraceInv ==
  /\ harness /\ phase \in Parsing => \E n, t : Trace(argv, n, t) /\ t[n] = Now
  /\ \A r \in results :
       \E n, t : /\ Trace(r[1], n, t) /\ t[n].phase \notin Parsing
                         /\ r = <<r[1], t[n].args, t[n].err>>

LEMMA TraceGoesOn ==
  ASSUME Inv, TraceInv, harness, Parse
  PROVE  \E n, t : Trace(argv, n, t) /\ t[n] = Now'
<1>1. phase \in Parsing /\ Now' = Turn(argv, Now)
  BY TurnOfParse
<1>2. PICK n, t : Trace(argv, n, t) /\ t[n] = Now
  BY <1>1 DEF TraceInv
<1> n \in Nat
  BY <1>2 DEF Trace
<1> DEFINE u == [i \in 0..n + 1 |-> IF i = n + 1 THEN Now' ELSE t[i]]
<1>3. u[0] = First
  BY <1>2 DEF Trace
<1>4. ASSUME NEW i \in 0..(n + 1) - 1
      PROVE  u[i].phase \in Parsing /\ u[i + 1] = Turn(argv, u[i])
  <2>1. u[i] = t[i]
    OBVIOUS
  <2>2. CASE i = n
    BY <1>1, <1>2, <2>1, <2>2 DEF Now
  <2>3. CASE i # n
    <3>1. i \in 0..n - 1 /\ i + 1 \in 0..n
      BY <2>3
    <3>2. u[i + 1] = t[i + 1]
      BY <3>1
    <3>3. QED BY <1>2, <2>1, <3>1, <3>2 DEF Trace
  <2>4. QED BY <2>2, <2>3
<1>5. Trace(argv, n + 1, u) /\ u[n + 1] = Now'
  BY <1>2, <1>3, <1>4, SMTT(30) DEF Trace
<1>6. QED BY <1>5

LEMMA TraceStep ==
  ASSUME Inv, TraceInv, [ProgramNext \/ FuzzNext]_bothVars
  PROVE  TraceInv'
<1>1. CASE ProgramNext
  BY <1>1 DEF ProgramNext, fuzzVars, TraceInv
<1>2. CASE harness /\ TakeInput /\ UNCHANGED harness
  <2>1. results' = results
    BY <1>2 DEF TakeInput
  <2>2. ASSUME phase' \in Parsing
        PROVE  \E n, t : Trace(argv', n, t) /\ t[n] = Now'
    <3>1. Now' = First
      BY <1>2, <2>2 DEF TakeInput, Reset, Now, First, Parsing
    <3>2. [i \in {0} |-> First][0] = First
      OBVIOUS
    <3>3. Trace(argv', 0, [i \in {0} |-> First])
      BY <3>2 DEF Trace
    <3>4. QED BY <3>1, <3>2, <3>3
  <2>3. QED BY <2>1, <2>2 DEF TraceInv
<1>3. CASE harness /\ Parse /\ UNCHANGED harness
  <2>1. argv' = argv
    BY <1>3 DEF Parse, ParseNext, ParseRest, Judge
  <2>2. PICK n, t : Trace(argv, n, t) /\ t[n] = Now'
    BY <1>3, TraceGoesOn
  <2>3. ASSUME NEW r \in results' \ results
        PROVE  /\ Trace(r[1], n, t) /\ t[n].phase \notin Parsing
               /\ r = <<r[1], t[n].args, t[n].err>>
    <3>1. r = <<argv, args', err'>> /\ phase' \in {"run", "end"}
      BY <1>3, <2>3 DEF Parse
    <3>2. QED BY <2>2, <3>1 DEF Now, Parsing
  <2>4. \A r \in results' : r \in results \/ r \in results' \ results
    OBVIOUS
  <2>5. QED BY <2>1, <2>2, <2>3, <2>4 DEF TraceInv
<1>4. CASE UNCHANGED bothVars
  BY <1>4 DEF bothVars, vars, fuzzVars, getopt, TraceInv, Now
<1>5. QED BY <1>1, <1>2, <1>3, <1>4 DEF FuzzNext

\* An input that comes twice has the same arguments and the same error both times,
\* whatever was parsed before, between and in whose middle getopt was left
\* (fuzz_parse.c:64-72).
THEOREM InputsRepeat == BothSpec => []Repeatable
<1>1. BothInit => Inv /\ TraceInv
  <2>1. FuzzInit => Inv
    BY FreshIsSound DEF FuzzInit, Fresh
  <2>2. BothInit => TraceInv
    BY DEF BothInit, FuzzInit, HarnessInit, TraceInv, Parsing
  <2>3. QED BY <2>1, <2>2, InvInit DEF BothInit
<1>2. Inv /\ TraceInv /\ [ProgramNext \/ FuzzNext]_bothVars => Inv' /\ TraceInv'
  BY EitherNext, TraceStep
<1>3. TraceInv => Repeatable
  <2>1. SUFFICES ASSUME TraceInv, NEW r \in results, NEW s \in results, r[1] = s[1] PROVE r = s
    BY DEF Repeatable
  <2>2. PICK n, t : /\ Trace(r[1], n, t) /\ t[n].phase \notin Parsing
                            /\ r = <<r[1], t[n].args, t[n].err>>
    BY <2>1 DEF TraceInv
  <2>3. PICK k, u : /\ Trace(s[1], k, u) /\ u[k].phase \notin Parsing
                            /\ s = <<s[1], u[k].args, u[k].err>>
    BY <2>1 DEF TraceInv
  <2>4. t[n] = u[k]
    BY <2>1, <2>2, <2>3, OneOutcome
  <2>5. QED BY <2>1, <2>2, <2>3, <2>4
<1>4. QED BY <1>1, <1>2, <1>3, PTL DEF BothSpec
=============================================================================
