------------------------------- MODULE LayerFile -------------------------------
(***************************************************************************)
(* layer_allows_include of src/src/report.c: one question, whether a       *)
(* module may include another one, is answered by reading the layer file   *)
(* from its start, a buffer at a time.  The arguments and the map with the *)
(* error object are those of the report that asks (Report).                *)
(*                                                                         *)
(* The layer file is the field layers of the arguments, as its bytes, and  *)
(* its edges are the field allowed.                                        *)
(***************************************************************************)
EXTENDS Findings, SequencesExt

CONSTANTS
  Bytes,       \* the bytes of names and layer files
  NameBytes,   \* the bytes of a module's name
  Newline,     \* the byte that ends a line
  Blanks,      \* the bytes isspace holds of, the newline among them
  MaxLine      \* the size of the line buffer

ASSUME LayerFileAssumption ==
  /\ {"#", "-", ">"} \cup Blanks \subseteq Bytes
  /\ Newline \in Blanks /\ {"#", "-", ">"} \cap Blanks = {}
  /\ DOMAIN NameBytes = Names /\ \A name \in Names : NameBytes[name] \in Seq(Bytes)
  /\ MaxLine \in Nat /\ MaxLine > 1

VARIABLES
  args,       \* the arguments
  map,        \* the map, with the error object
  trouble,    \* the calls that failed (history)
  question,   \* the modules asked about
  reading,    \* "no", "read", "close", "answered"
  position,   \* the bytes of the file read so far
  allowed     \* the answer so far

layer == <<question, reading, position, allowed>>

\* A call of the C library has failed.
Fail(call) == map' = Raise(map, "system") /\ trouble' = trouble \cup {call}
Succeed == UNCHANGED <<map, trouble>>

-----------------------------------------------------------------------------
(* A line, as the loop takes it apart. *)

After(s, n) == SubSeq(s, n + 1, Len(s))
Ink(s) == {i \in DOMAIN s : s[i] \notin Blanks}

\* trim_left of trim_right.
Trim(s) == IF Ink(s) = {} THEN << >> ELSE SubSeq(s, Min(Ink(s)), Max(Ink(s)))

Arrows(s) == {i \in 1..Len(s) - 1 : s[i] = "-" /\ s[i + 1] = ">"}

\* Mutant: the blanks before the arrow stay with the left name.
DeclaresUntrimmed(line) ==
  \E text \in {Trim(line)} :
    /\ text # << >> /\ text[1] # "#" /\ Arrows(text) # {}
    /\ SubSeq(text, 1, Min(Arrows(text)) - 1) = NameBytes[question[1]]
    /\ Trim(After(text, Min(Arrows(text)) + 1)) = NameBytes[question[2]]

Declares(line) ==
  \E text \in {Trim(line)} :
    /\ text # << >> /\ text[1] # "#" /\ Arrows(text) # {}
    /\ Trim(SubSeq(text, 1, Min(Arrows(text)) - 1)) = NameBytes[question[1]]
    /\ Trim(After(text, Min(Arrows(text)) + 1)) = NameBytes[question[2]]

\* What fgets puts into the buffer: bytes up to a newline, or as many as fit.
Buffer ==
  LET rest == After(args.layers, position)
      ends == {i \in DOMAIN rest : rest[i] = Newline} \cup {Len(rest), MaxLine - 1}
  IN SubSeq(rest, 1, Min(ends))

-----------------------------------------------------------------------------
(* The function. *)

NotReading == question = << >> /\ reading = "no" /\ position = 0 /\ allowed = TRUE

\* The function is called; a module may include itself, and every other one if there
\* is no layer file.  The file may be missing.
Ask(from, target) ==
  /\ reading = "no"
  /\ question' = <<from, target>>
  /\ allowed' = (from = target \/ ~args.hasLayers)
  /\ \/ /\ reading' = IF allowed' THEN "answered" ELSE "read"
        /\ Succeed
     \/ ~allowed' /\ reading' = "answered" /\ Fail("layers")
  /\ UNCHANGED position

\* The loop is left at the end of the file, or at once after an earlier error.
AtEnd == map.err # "none" \/ position = Len(args.layers)

ReadLine ==
  /\ reading = "read" /\ ~AtEnd
  /\ \E line \in {Buffer} : /\ position' = position + Len(line)
                            /\ allowed' = Declares(line)
  /\ reading' = IF allowed' THEN "close" ELSE "read"
  /\ Succeed /\ UNCHANGED question

StopReading ==
  /\ reading = "read" /\ AtEnd
  /\ reading' = "close"
  /\ Succeed /\ UNCHANGED <<question, position, allowed>>

FailToRead ==
  /\ reading = "read" /\ map.err = "none"
  /\ reading' = "close" /\ Fail("layer read")
  /\ UNCHANGED <<question, position, allowed>>

CloseLayers ==
  /\ reading = "close"
  /\ reading' = "answered"
  /\ Succeed \/ Fail("layer close")
  /\ UNCHANGED <<question, position, allowed>>

ReadLayers == ReadLine \/ StopReading \/ FailToRead \/ CloseLayers

\* The caller has taken the answer.
TakeAnswer ==
  /\ reading = "answered"
  /\ question' = << >> /\ reading' = "no" /\ position' = 0 /\ allowed' = TRUE

-----------------------------------------------------------------------------
(* What is written in a layer file, said without reading it. *)

Lines(text) ==
  LET ends == {i \in DOMAIN text : text[i] = Newline} \cup {Len(text)}
  IN {SubSeq(text, 1 + Max({0} \cup {j \in ends : j < i}), i) : i \in ends}

Blank(s) == \A i \in DOMAIN s : s[i] \in Blanks

\* A line that is "from -> target", with blanks wherever one may put them.
Written(line, from, target) ==
  \E i, j \in 0..Len(line) :
    LET arrow == i + Len(from) + j IN
    /\ arrow + 2 <= Len(line)
    /\ Blank(SubSeq(line, 1, i)) /\ SubSeq(line, i + 1, i + Len(from)) = from
    /\ Blank(SubSeq(line, i + Len(from) + 1, arrow))
    /\ SubSeq(line, arrow + 1, arrow + 2) = <<"-", ">">>
    /\ LET rest == After(line, arrow + 2) IN
       \E k \in 0..Len(rest) - Len(target) :
         /\ Blank(SubSeq(rest, 1, k)) /\ SubSeq(rest, k + 1, k + Len(target)) = target
         /\ Blank(After(rest, k + Len(target)))

\* "allowed local include edges, one per line" (README.md:79).
Edges(text) ==
  {e \in Names \X Names :
     \E line \in Lines(text) : Written(line, NameBytes[e[1]], NameBytes[e[2]])}

\* A line that does not fit the buffer is read as several (fgets, report.c:175), so
\* that a comment of that length may end in an edge: these files are left out.
LinesFit(text) == \A line \in Lines(text) : Len(line) < MaxLine

\* A word that trimming leaves as it is.
Trimmed(w) == w # << >> => w[1] \notin Blanks /\ w[Len(w)] \notin Blanks

\* A name that no byte of the format occurs in: it begins with no comment, has no
\* blanks around it, and no arrow.
Plain(w) ==
  /\ Trimmed(w) /\ (w # << >> => w[1] # "#")
  /\ \A i \in 1..Len(w) - 1 : ~(w[i] = "-" /\ w[i + 1] = ">")

\* Names that stand in a layer file as they are; a name with an arrow inside it can be
\* written there and is taken apart at that arrow (strstr, report.c:195).
PlainNames == \A name \in Names : Plain(NameBytes[name])

-----------------------------------------------------------------------------
(* Properties. *)

\* "Layer files contain allowed local include edges, one per line"
\* (README.md:79): the answer is yes for the edges that are written on a line of
\* their own and for no other; and however the reading ends, an edge is allowed
\* only if it is written: a failure makes findings and never hides one.
LayerAnswers ==
  reading = "answered" =>
    LET written == LayerAllows(args, question[1], question[2]) IN
    /\ allowed => written
    /\ map.err = "none" => (allowed <=> written)
=============================================================================
