---------------------------------- MODULE Cli ----------------------------------
(***************************************************************************)
(* The command line and the frame around the run (src/src/cli.c and        *)
(* src/src/main.c).                                                        *)
(*                                                                         *)
(* getopt is the environment: it returns one option after the other, then  *)
(* the operands are left.  The value of an option is a text, "" if empty,  *)
(* or for -m and -p what p101_parse_unsigned_long makes of it.             *)
(***************************************************************************)
EXTENDS Naturals, Sequences

CONSTANTS
  Texts,            \* values of -i, -o, -l and -C besides the empty one
  DEFAULT_MAX_FUNCS, DEFAULT_MAX_PUB,
  NoText,           \* a NULL pointer among the arguments
  BadNumber,        \* a value that is no unsigned long
  MAX_PATHS,
  MaxWords          \* bound: options of one command line, and operands too many

ASSUME CliAssumption ==
  /\ NoText \notin Texts \cup {""} /\ "" \notin Texts
  /\ DEFAULT_MAX_FUNCS \in Nat \ {0} /\ DEFAULT_MAX_PUB \in Nat \ {0}
  /\ BadNumber \notin Nat \cup {NoText}
  /\ MAX_PATHS \in Nat \ {0} /\ MaxWords \in Nat

Flags == {"h", "j", "L", "v"}
TextOptions == {"i", "o", "l", "C"}
NumberOptions == {"m", "p"}
Numbers == {0, 1, BadNumber}

\* What one call of getopt can return: the character and optarg.
Words == (Flags \cup {":", "?"}) \X {NoText}
         \cup TextOptions \X (Texts \cup {""})
         \cup NumberOptions \X Numbers

VARIABLES
  args,     \* struct arguments
  err,      \* the error object: "none", "usage" or "system"
  phase,    \* "start", "option", "operands", "help", "check", "run", "end", "done"
  line,     \* the options returned so far (history)
  operands, \* the number of operands (history)
  ret_val   \* the exit status

vars == <<args, err, phase, line, operands, ret_val>>

-----------------------------------------------------------------------------
(* Arguments. *)

Arguments_init ==
  [show_help |-> FALSE, json |-> FALSE, library_mode |-> FALSE, verbose |-> FALSE,
   facts_path |-> NoText, output_path |-> NoText, layer_config_path |-> NoText,
   compile_db_path |-> NoText, path_count |-> 0,
   max_functions |-> DEFAULT_MAX_FUNCS, max_public |-> DEFAULT_MAX_PUB]

ParsedNumber(value, default) == IF value = BadNumber THEN default ELSE value

SetOption(a, opt, value) ==
  CASE opt = "h" -> [a EXCEPT !.show_help = TRUE]
    [] opt = "v" -> [a EXCEPT !.verbose = TRUE]
    [] opt = "j" -> [a EXCEPT !.json = TRUE]
    [] opt = "L" -> [a EXCEPT !.library_mode = TRUE]
    [] opt = "i" -> [a EXCEPT !.facts_path = value]
    [] opt = "o" -> [a EXCEPT !.output_path = value]
    [] opt = "l" -> [a EXCEPT !.layer_config_path = value]
    [] opt = "C" -> [a EXCEPT !.compile_db_path = value]
    [] opt = "m" -> [a EXCEPT !.max_functions = ParsedNumber(value, DEFAULT_MAX_FUNCS)]
    [] opt = "p" -> [a EXCEPT !.max_public = ParsedNumber(value, DEFAULT_MAX_PUB)]
    [] OTHER -> a

\* What switch raises: the two diagnostics, or the failed conversion of a number.
OptionError(opt, value) ==
  IF opt \in {":", "?"} THEN "usage"
  ELSE IF value = BadNumber THEN "system" ELSE "none"

\* Mutant: a saved snapshot may be combined with a compile database.
CheckErrorsCombined(a) ==
  \/ a.output_path = "" \/ a.layer_config_path = "" \/ a.compile_db_path = ""
  \/ a.facts_path = ""
  \/ a.max_functions = 0 \/ a.max_public = 0

CheckErrors(a) ==
  \/ a.output_path = "" \/ a.layer_config_path = "" \/ a.compile_db_path = ""
  \/ a.facts_path = ""
  \/ a.facts_path # NoText /\ a.compile_db_path # NoText
  \/ a.max_functions = 0 \/ a.max_public = 0

-----------------------------------------------------------------------------
(* Parsing. *)

Init ==
  /\ args = Arguments_init
  /\ err = "none"
  /\ phase = "start"
  /\ line = << >> /\ operands = 0
  /\ ret_val = 2

\* "--help" alone is looked at before getopt is.
Start ==
  /\ phase = "start"
  /\ \/ phase' = "help" /\ args' = [args EXCEPT !.show_help = TRUE]
        /\ line' = << <<"h", NoText>> >>
     \/ phase' = "option" /\ UNCHANGED <<args, line>>
  /\ UNCHANGED <<err, operands, ret_val>>

\* Mutant: the error of the previous turn is not looked at.
ParseOptionAnyway ==
  /\ phase = "option" /\ Len(line) < MaxWords
  /\ \E w \in Words :
       /\ line' = Append(line, w)
       /\ args' = SetOption(args, w[1], w[2])
       /\ err' = OptionError(w[1], w[2])
       /\ UNCHANGED <<phase, operands, ret_val>>

\* One turn of the loop.  The error of a turn is looked at only after getopt has
\* returned another option, which is then not looked at.
ParseOption ==
  /\ phase = "option" /\ Len(line) < MaxWords
  /\ \E w \in Words :
       /\ line' = Append(line, w)
       /\ IF err = "none"
          THEN /\ args' = SetOption(args, w[1], w[2])
               /\ err' = OptionError(w[1], w[2])
               /\ UNCHANGED phase
          ELSE /\ phase' = "end"
               /\ UNCHANGED <<args, err>>
  /\ UNCHANGED <<operands, ret_val>>

PathsTaken(n) == IF n > MAX_PATHS THEN MAX_PATHS ELSE n

\* Mutant: operands that do not fit are left out.
TooManyNever(n) == FALSE

TooMany(n) == n > MAX_PATHS

\* getopt has returned -1: the operands are taken, as many as fit.
ParseOperands ==
  /\ phase = "option"
  /\ operands' \in 0..(MAX_PATHS + MaxWords)
  /\ IF err # "none" THEN phase' = "end" /\ UNCHANGED <<args, err>>
     ELSE /\ args' = [args EXCEPT !.path_count = PathsTaken(operands')]
          /\ err' = IF TooMany(operands') THEN "usage" ELSE "none"
          /\ phase' = IF err' # "none" THEN "end"
                      ELSE IF args.show_help THEN "help" ELSE "check"
  /\ UNCHANGED <<line, ret_val>>

-----------------------------------------------------------------------------
(* The rest of main. *)

\* Writing the usage may fail.
Help ==
  /\ phase = "help"
  /\ phase' = "end"
  /\ ret_val' = 0
  /\ err' \in {"none", "system"}
  /\ UNCHANGED <<args, line, operands>>

CheckArguments ==
  /\ phase = "check"
  /\ IF CheckErrors(args)
     THEN err' = "usage" /\ phase' = "end"
     ELSE phase' = "run" /\ UNCHANGED err
  /\ UNCHANGED <<args, line, operands, ret_val>>

\* The run of Report.tla, up to its return to main.
Run ==
  /\ phase = "run"
  /\ phase' = "end"
  /\ \/ ret_val' \in {0, 1} /\ err' \in {"none", "system"}
     \/ ret_val' = 2 /\ err' \in {"usage", "system"}
  /\ UNCHANGED <<args, line, operands>>

\* Any error is told and is trouble, whatever was returned before.
End ==
  /\ phase = "end"
  /\ phase' = "done"
  /\ ret_val' = IF err # "none" THEN 2 ELSE ret_val
  /\ UNCHANGED <<args, err, line, operands>>

Next == Start \/ ParseOption \/ ParseOperands \/ Help \/ CheckArguments \/ Run \/ End

Spec == Init /\ [][Next]_vars

-----------------------------------------------------------------------------
(* Properties. *)

\* The value of an option is the one given last.
Given(opt) == {i \in DOMAIN line : line[i][1] = opt}
LastOf(opt, default) ==
  IF Given(opt) = {} THEN default
  ELSE line[CHOOSE i \in Given(opt) : \A j \in Given(opt) : j <= i][2]

\* What getopt, the conversion of numbers and the limit on operands refuse, in
\* whatever place of the command line it stands.
Misspelled ==
  \/ \E i \in DOMAIN line : line[i][1] \in {":", "?"} \/ line[i][2] = BadNumber
  \/ operands > MAX_PATHS

\* A run is started only with arguments that fit together, whatever was given
\* earlier on the command line and overridden later (check_arguments), and it
\* works with all operands and with the values given last.
RunsAsAsked ==
  phase = "run" =>
    /\ ~Misspelled /\ Given("h") = {}
    /\ \A opt \in TextOptions : LastOf(opt, NoText) # ""
    /\ LastOf("i", NoText) = NoText \/ LastOf("C", NoText) = NoText
    /\ args.facts_path = LastOf("i", NoText)
    /\ args.output_path = LastOf("o", NoText)
    /\ args.layer_config_path = LastOf("l", NoText)
    /\ args.compile_db_path = LastOf("C", NoText)
    /\ args.max_functions = LastOf("m", DEFAULT_MAX_FUNCS) /\ args.max_functions > 0
    /\ args.max_public = LastOf("p", DEFAULT_MAX_PUB) /\ args.max_public > 0
    /\ args.path_count = operands

\* A command line with a mistake never ends well, not even where help is asked
\* for before or after it (test_cli.sh: expect 2).
MistakesAreTrouble == phase = "done" /\ Misspelled => ret_val = 2

\* Help is given to whoever asks for it without a mistake, and nothing is run or
\* checked then: -h wins over every other option (main.c:31-44).
HelpWins ==
  [][phase' # phase /\ phase \in {"option", "start"} =>
       (phase' = "help" <=> ~Misspelled' /\ Given("h")' # {})]_vars
=============================================================================
