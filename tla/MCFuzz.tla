--------------------------------- MODULE MCFuzz ---------------------------------
(* The program: command lines of up to three options with one text each, and    *)
(* up to five operands where two fit.  The harness: inputs of up to three words *)
(* in one process, two of which an argv of four pointers takes; operands stand  *)
(* last, where every getopt finds them.                                         *)
EXTENDS Fuzz

Options == { <<"-", "v", "j">>, <<"-", "z", "L", "v">>, <<"-", "v", "h">>, <<"-", "h">>,
             <<"-", "-", "v", "h">>, <<"-", "m", "1">>, <<"-", "m", "x">>, <<"-", "o">>, <<"-", "-">>,
             <<"-", "-", "h", "e", "l", "p">> }
MCCharacters == {"-", "v", "j", "z", "L", "h", "m", "1", "x", "o", "e", "l", "p"}
Operands == { <<"x">> }
MCWords == Options \cup Operands

MCInputs == {input \in UNION {[1..n -> MCWords] : n \in 0..3} :
               \A i \in 1..Len(input) - 1 : input[i] \in Operands => input[i + 1] \in Operands}

Values == MCWords \cup {<<"x">>, <<"1">>}
MCAsText == [word \in Values |-> "x"]
MCAsNumber == [word \in Values |-> IF word = <<"1">> THEN 1 ELSE BadNumber]
MCTexts == {"x"}
=============================================================================
