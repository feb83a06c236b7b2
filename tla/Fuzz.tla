---------------------------------- MODULE Fuzz ----------------------------------
(***************************************************************************)
(* The two executables that parse arguments: the program, as in Cli, and   *)
(* the fuzz harness of the parser (src/fuzz/fuzz_parse.c), where one       *)
(* process parses one input after the other.  The steps of a parse are     *)
(* those of Cli; in the harness getopt is not free to return what it likes *)
(* but reads the words of the input, and what it remembers between its     *)
(* calls, optind and its place in a word, lives on when an input is done.  *)
(***************************************************************************)
EXTENDS Cli, SequencesExt

CONSTANTS
  Characters,
  Inputs,          \* inputs, each a sequence of words, a word a sequence of characters
  AsText, AsNumber,  \* a word as the value of an option
  FUZZ_MAX_ARGS,
  MaxInputs,       \* bound: inputs of one process
  MaxOptions       \* bound: options of a command line of the program

ASSUME FuzzAssumption ==
  /\ Inputs \subseteq Seq(Seq(Characters) \ {<< >>})
  /\ FUZZ_MAX_ARGS \in Nat /\ FUZZ_MAX_ARGS > 2 /\ MaxInputs \in Nat
  /\ MaxOptions \in Nat

VARIABLES
  harness,   \* this process is the harness, not the program
  argv,      \* the words, without the name of the program
  optind,    \* the word getopt reads next
  nextchar,  \* the letters left of the word it is in
  inputs,    \* how many inputs were taken
  results    \* what came of the words of the inputs that are done (history)

getopt == <<optind, nextchar>>
fuzzVars == <<argv, getopt, inputs, results>>
bothVars == <<vars, harness, fuzzVars>>

Idle == phase \in {"run", "end"}

-----------------------------------------------------------------------------
(* getopt: a letter of a word that begins with "-", and its value. *)

IsOption(word) == Len(word) > 1 /\ word[1] = "-"

\* The letters to read: those left of a word, or those of the next one.
Letters(words, next, left) ==
  IF left # << >> THEN left
  ELSE IF next <= Len(words) /\ IsOption(words[next]) THEN Tail(words[next])
  ELSE << >>

\* "--" ends the options.
AtDashes(words, next, left) ==
  left = << >> /\ next <= Len(words) /\ words[next] = <<"-", "-">>

AtEnd(words, next, left) == Letters(words, next, left) = << >> \/ AtDashes(words, next, left)

\* The first word that is no option and no value.
FirstOperand(words, next, left) == IF AtDashes(words, next, left) THEN next + 1 ELSE next

Value(opt, word) == IF opt \in NumberOptions THEN AsNumber[word] ELSE AsText[word]

\* The value stands in the rest of the word or in the next one.
Returned(words, next, left) ==
  LET opt == Head(Letters(words, next, left))
      rest == Tail(Letters(words, next, left))
  IN IF opt \in Flags
     THEN [word |-> <<opt, NoText>>, optind |-> IF rest = << >> THEN next + 1 ELSE next,
           nextchar |-> rest]
     ELSE IF opt \notin TextOptions \cup NumberOptions
     THEN [word |-> <<"?", NoText>>, optind |-> IF rest = << >> THEN next + 1 ELSE next,
           nextchar |-> rest]
     ELSE IF rest # << >>
     THEN [word |-> <<opt, Value(opt, rest)>>, optind |-> next + 1, nextchar |-> << >>]
     ELSE IF next < Len(words)
     THEN [word |-> <<opt, Value(opt, words[next + 1])>>, optind |-> next + 2,
           nextchar |-> << >>]
     ELSE [word |-> <<":", NoText>>, optind |-> next + 1, nextchar |-> << >>]

-----------------------------------------------------------------------------
(* The harness. *)

\* As many words as leave room for the name of the program and the NULL.
WordsTaken(input) == SubSeq(input, 1, IF Len(input) < FUZZ_MAX_ARGS - 1 THEN Len(input)
                                      ELSE FUZZ_MAX_ARGS - 2)

\* Mutant: an h is looked for at the beginning of a word only.
AsksForHelpFirst(words) ==
  \E i \in DOMAIN words :
    \/ words[i] = <<"-", "-", "h", "e", "l", "p">>
    \/ IsOption(words[i]) /\ words[i][2] = "h"

\* A word that is "--help", or a word of options with an h anywhere in it.
AsksForHelp(words) ==
  \E i \in DOMAIN words :
    \/ words[i] = <<"-", "-", "h", "e", "l", "p">>
    \/ IsOption(words[i]) /\ words[i][2] # "-" /\ "h" \in Range(Tail(words[i]))

\* The harness is idle before its first input.
FuzzInit ==
  /\ args = Arguments_init /\ err = "none" /\ phase = "end" /\ line = << >>
  /\ operands = 0 /\ ret_val = 2

HarnessInit ==
  /\ argv = << >> /\ optind = 1 /\ nextchar = << >> /\ inputs = 0 /\ results = {}

\* Mutant: getopt goes on where it was.
ResetNothing == UNCHANGED getopt

Reset == optind' = 1 /\ nextchar' = << >>

\* getopt is reset even when the input is then left out because of help.
TakeInput ==
  /\ Idle /\ inputs < MaxInputs
  /\ inputs' = inputs + 1
  /\ \E input \in Inputs :
       /\ argv' = WordsTaken(input)
       /\ phase' = IF AsksForHelp(WordsTaken(input)) THEN "end" ELSE "option"
  /\ Reset
  /\ args' = Arguments_init /\ err' = "none" /\ line' = << >> /\ operands' = 0
  /\ UNCHANGED <<ret_val, results>>

\* One turn of the loop of parse_arguments.
ParseNext ==
  LET found == Returned(argv, optind, nextchar) IN
  /\ phase = "option" /\ ~AtEnd(argv, optind, nextchar)
  /\ ParseOption /\ line' = Append(line, found.word)
  /\ optind' = found.optind /\ nextchar' = found.nextchar
  /\ UNCHANGED <<argv, inputs>>

\* getopt returns -1: the words from optind on are the operands.
ParseRest ==
  LET first == FirstOperand(argv, optind, nextchar) IN
  /\ phase = "option" /\ AtEnd(argv, optind, nextchar)
  /\ ParseOperands /\ operands' = Len(argv) + 1 - first
  /\ optind' = IF phase' = "check" THEN Len(argv) + 1 ELSE first
  /\ UNCHANGED <<argv, nextchar, inputs>>

Judge == CheckArguments /\ UNCHANGED <<argv, getopt, inputs>>

\* The result is noted when the input is done.
Parse ==
  /\ ParseNext \/ ParseRest \/ Judge
  /\ results' = IF phase' \in {"run", "end"} THEN results \cup {<<argv, args', err'>>}
                ELSE results

FuzzNext == harness /\ (TakeInput \/ Parse) /\ UNCHANGED harness

\* The program: the harness's state is not there.
ProgramNext ==
  /\ ~harness
  /\ Next /\ Len(line') <= MaxOptions /\ operands' <= MAX_PATHS + MaxOptions
  /\ UNCHANGED <<harness, fuzzVars>>

BothInit ==
  /\ harness \in BOOLEAN
  /\ IF harness THEN FuzzInit ELSE Init
  /\ HarnessInit

BothSpec == BothInit /\ [][ProgramNext \/ FuzzNext]_bothVars

-----------------------------------------------------------------------------
(* Properties. *)

\* What comes of an input does not depend on the inputs before it, although getopt
\* keeps its place in a word when a parse breaks off in the middle of it: what the
\* fuzzer finds can be found again from the input alone (fuzz_parse.c:64-72).
Repeatable ==
  \A r, s \in results : r[1] = s[1] => r = s

\* No input that is parsed asks for help, so every one without a mistake gets as far
\* as the check of its arguments (fuzz_parse.c:77-95).  The search for an h passes
\* over a word like "--vh", in which getopt does find one: it is the mistake before
\* it, the second dash, that ends the parse before the h counts.
NeverHelped ==
  harness /\ phase # "end" => phase # "help" /\ (err = "none" => ~args.show_help)
=============================================================================
