----------------------------- MODULE RelativePath -----------------------------
(***************************************************************************)
(* The loop of normalize_relative_path (src/src/model_mutation.c), which   *)
(* resolves "." and ".." in the operand of an include before the module of *)
(* the operand is looked for.  One step per component of the path; the     *)
(* bytes of the destination are counted, for the copy is unchecked.        *)
(***************************************************************************)
EXTENDS Integers, Sequences

CONSTANTS
  Empty,        \* what stands between two slashes in a row
  Components,   \* what can stand between two slashes of a path
  Length,       \* the bytes of a component
  MaxComponents \* bound: components of a path

ASSUME LengthAssumption ==
  /\ {Empty, ".", ".."} \subseteq Components
  /\ Length \in [Components -> Nat]
  /\ \A c \in Components : Length[c] = 0 <=> c = Empty
  /\ Length["."] = 1 /\ Length[".."] = 2

ASSUME MaxComponentsAssumption == MaxComponents \in Nat

VARIABLES
  path,         \* the components before the cursor (history)
  consumed,     \* the offset of the cursor: the bytes before it
  destination,  \* the components kept, each with its offset
  used          \* the bytes of the destination

vars == <<path, consumed, destination, used>>

Last == destination[Len(destination)]

\* Mutant: the first component is never taken away.
GoesUpBelow(c) == c = ".." /\ used > 0 /\ Last.name # ".." /\ Last.start > 0

\* ".." takes away the component before it, unless that is a "..".
GoesUp(c) == c = ".." /\ used > 0 /\ Last.name # ".."

\* Mutant: the first component has no slash before it, but one is taken away.
UsedWithoutNegative == Last.start - 1

\* The bytes left without the last component and the slash before it.
UsedWithoutLast == IF Last.start = 0 THEN 0 ELSE Last.start - 1

\* Mutant: a slash is put before the first component as well.
OffsetAlways == used + 1

Offset == IF used > 0 THEN used + 1 ELSE used

Init == path = << >> /\ consumed = 0 /\ destination = << >> /\ used = 0

\* The cursor moves over one component, and over the slash before it.
Advance(c) ==
  /\ Len(path) < MaxComponents
  /\ path' = Append(path, c)
  /\ consumed' = consumed + Length[c] + IF path = << >> THEN 0 ELSE 1

Skip ==
  \E c \in {Empty, "."} : Advance(c) /\ UNCHANGED <<destination, used>>

GoUp ==
  /\ GoesUp("..") /\ Advance("..")
  /\ used' = UsedWithoutLast
  /\ destination' = SubSeq(destination, 1, Len(destination) - 1)

Copy ==
  \E c \in Components \ {Empty, "."} :
    /\ ~GoesUp(c) /\ Advance(c)
    /\ destination' = Append(destination, [name |-> c, start |-> Offset])
    /\ used' = Offset + Length[c]

Next == Skip \/ GoUp \/ Copy

Spec == Init /\ [][Next]_vars

-----------------------------------------------------------------------------
(* Properties. *)

TypeOK ==
  /\ path \in Seq(Components) /\ Len(path) <= MaxComponents
  /\ consumed \in Nat /\ used \in Nat
  /\ destination \in Seq([name : Components, start : Nat])

\* The components stand one after the other, a slash between them.
Contiguous ==
  /\ \A i \in 1..Len(destination) :
       /\ destination[i].name \notin {Empty, "."}
       /\ destination[i].start =
            IF i = 1 THEN 0 ELSE destination[i - 1].start + Length[destination[i - 1].name] + 1
  /\ used = IF destination = << >> THEN 0 ELSE Last.start + Length[Last.name]

\* "lexical normalization can only shorten it, so every copied component fits
\* destination" (model_mutation.c:57-60): the destination, which is as long as
\* the path may be, is never written beyond what has been read of the path.
FitsDestination == used <= consumed

\* What is left is in normal form: ".." stands only in front of all names.
NormalForm ==
  \A i, j \in DOMAIN destination :
    i < j /\ destination[j].name = ".." => destination[i].name = ".."

\* The directory a sequence of components leads to from a directory.
Walk(from, components) ==
  LET At[n \in 0..Len(components)] ==
        IF n = 0 THEN from
        ELSE CASE components[n] \in {Empty, "."} -> At[n - 1]
               [] components[n] = ".." -> SubSeq(At[n - 1], 1, Len(At[n - 1]) - 1)
               [] OTHER -> Append(At[n - 1], components[n])
  IN At[Len(components)]
=============================================================================
