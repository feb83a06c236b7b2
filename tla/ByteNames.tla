------------------------------ MODULE ByteNames ------------------------------
(***************************************************************************)
(* The helpers of src/src/strings.c and the include resolution of          *)
(* src/src/model_mutation.c on the bytes they work on, with the sizes of   *)
(* the buffers.  A C string is the sequence of its bytes without the NUL,  *)
(* so a buffer of n bytes holds at most n - 1 of them.                     *)
(*                                                                         *)
(* The strings are those the loop of RelativePath reads, component by      *)
(* component: a whole path, and every way to divide it into the directory  *)
(* of a file and what an include of the file names.  What comes of them is *)
(* compared with the operators of Names, which the other modules use and   *)
(* which know nothing of bytes.                                            *)
(***************************************************************************)
EXTENDS RelativePath, FiniteSetsExt

CONSTANTS
  Bytes,       \* the bytes of paths
  BytesOf,     \* the bytes of a component
  Stem,        \* the base name of a module that includes files
  LibraryByte, \* one byte that stands for the four of "p101"
  MaxName      \* the size of a buffer for a name

S == INSTANCE SequencesExt

ASSUME BytesAssumption ==
  /\ MaxName \in Nat \ {0} /\ Stem \in Components
  /\ {"/", ".", "_", LibraryByte} \subseteq Bytes /\ LibraryByte \notin {"/", ".", "@"}
  /\ BytesOf \in [Components -> Seq(Bytes)]
  /\ BytesOf["."] = <<".">> /\ BytesOf[".."] = <<".", ".">>
  /\ \A c \in Components :
       /\ Len(BytesOf[c]) = Length[c]
       /\ \A i \in DOMAIN BytesOf[c] : BytesOf[c][i] # "/"
       /\ \A d \in Components : BytesOf[c] = BytesOf[d] => c = d

\* The parts with the separator between them.
Join(parts, separator) ==
  LET To[n \in 0..Len(parts)] ==
        IF n = 0 THEN << >>
        ELSE IF n = 1 THEN parts[1]
        ELSE (To[n - 1] \o <<separator>>) \o parts[n]
  IN To[Len(parts)]

BytesOfAll(components) == [i \in DOMAIN components |-> BytesOf[components[i]]]

Text(components) == Join(BytesOfAll(components), "/")

\* The module of a file in the first n directories of the path, and the rest of the
\* path as what an include of the file names.
Module(n) == Text(Append(SubSeq(path, 1, n), Stem))
Target(n) == Text(SubSeq(path, n + 1, Len(path)))

Divisions == 0..Len(path) - 1

-----------------------------------------------------------------------------
(* strings.c *)

Cut(s, n) == SubSeq(s, 1, Min({n, Len(s)}))
After(s, n) == SubSeq(s, n + 1, Len(s))
Offsets(s, byte) == {i \in DOMAIN s : s[i] = byte}
LastOffset(s, byte) == Max(Offsets(s, byte) \cup {0})
FirstOffset(s, byte) == IF Offsets(s, byte) = {} THEN 0 ELSE Min(Offsets(s, byte))

CopyString(buffer, size, source) ==
  IF size = 0 THEN buffer ELSE Cut(source, size - 1)

AppendString(buffer, size, source) ==
  IF Len(buffer) + 1 >= size THEN buffer
  ELSE buffer \o CopyString(<< >>, size - Len(buffer), source)

PathBasename(s) == After(s, LastOffset(s, "/"))

Mark == <<LibraryByte, "_">>
Unmarked(base) == IF S!IsPrefix(Mark, base) THEN After(base, Len(Mark)) ELSE base

\* Mutant: the name ends at the first dot.
BasenameNoSuffixes(size, s) ==
  LET base == Unmarked(PathBasename(s))
      dot == FirstOffset(base, ".")
  IN Cut(base, Min({size, IF dot = 0 THEN Len(base) + 1 ELSE dot}) - 1)

BasenameNoSuffix(size, s) ==
  LET base == Unmarked(PathBasename(s))
      dot == LastOffset(base, ".")
  IN Cut(base, Min({size, IF dot = 0 THEN Len(base) + 1 ELSE dot}) - 1)

NormalizeModuleName(size, name) ==
  AppendString(Cut(name, Min({LastOffset(name, "/"), size - 1})), size,
               BasenameNoSuffix(MaxName, PathBasename(name)))

\* Mutant: only the directory "p101" itself is left out.
InLibraryDirOnly(name) == S!IsPrefix(<<LibraryByte, "/">>, name)

InLibraryDir(name) ==
  FirstOffset(name, "/") > 0 /\ (S!IsPrefix(Mark, name) \/ S!IsPrefix(<<LibraryByte, "/">>, name))

IncludeToModule(size, include) ==
  IF include # << >> /\ include[1] = "@" THEN CopyString(<< >>, size, Tail(include))
  ELSE LET normalized == NormalizeModuleName(MaxName, include) IN
       CopyString(<< >>, size, IF InLibraryDir(normalized)
                               THEN After(normalized, FirstOffset(normalized, "/"))
                               ELSE normalized)

-----------------------------------------------------------------------------
(* model_mutation.c *)

\* What stands between the separators.
Divide(parts, byte, separator) ==
  IF byte = separator THEN Append(parts, << >>)
  ELSE [parts EXCEPT ![Len(parts)] = Append(@, byte)]

Split(s, separator) ==
  LET To[n \in 0..Len(s)] ==
        IF n = 0 THEN << << >> >> ELSE Divide(To[n - 1], s[n], separator)
  IN To[Len(s)]

Parts(s) == Split(s, "/")

Up == <<".", ".">>

\* One turn of the loop: out is the destination so far.
KeepComponent(out, component) ==
  IF component \in {<< >>, <<".">>} THEN out
  ELSE IF component = Up /\ out # << >> /\ PathBasename(out) # Up
  THEN Cut(out, Max({LastOffset(out, "/") - 1, 0}))
  ELSE IF out = << >> THEN component ELSE out \o <<"/">> \o component

NormalizeRelativePath(s) ==
  LET Kept[n \in 0..Len(Parts(s))] ==
        IF n = 0 THEN << >> ELSE KeepComponent(Kept[n - 1], Parts(s)[n])
  IN Kept[Len(Parts(s))]

IsRelative(target) == S!IsPrefix(<<".", "/">>, target) \/ S!IsPrefix(<<".", ".", "/">>, target)

\* Mutant: the directory of the including file is left out.
JoinedAlone(from, target) == target

\* The directory of the including module and the operand, in a buffer of MaxName.
Joined(from, target) ==
  LET directory == Cut(from, Max({LastOffset(from, "/") - 1, 0})) IN
  AppendString(IF directory = << >> THEN << >>
               ELSE AppendString(Cut(directory, MaxName - 1), MaxName, <<"/">>),
               MaxName, target)

LocalIncludeToModule(from, target) ==
  IncludeToModule(MaxName, IF IsRelative(target)
                           THEN NormalizeRelativePath(Joined(from, target)) ELSE target)

\* A file whose facts do not name its module is filed under its base name.
AddSourceFile(s) == BasenameNoSuffix(MaxName, s)

-----------------------------------------------------------------------------
(* The same bytes as a path of Names. *)

IsLibraryDir(c) == BytesOf[c] = <<LibraryByte>> \/ S!IsPrefix(Mark, BytesOf[c])

N == INSTANCE Names WITH
  P101Dirs <- {BytesOf[c] : c \in {c \in Components : IsLibraryDir(c)}},
  Nothing <- << >>, Here <- <<".">>, Parent <- Up

\* How many marks a base name begins with.
Marks(base) ==
  Max({n \in 0..Len(base) : /\ 2 * n <= Len(base)
                            /\ \A i \in 1..n : SubSeq(base, 2 * i - 1, 2 * i) = Mark})

PathOf(s) ==
  LET base == S!Last(Parts(s))
      names == Split(After(base, 2 * Marks(base)), ".")
  IN N!Path(S!Front(Parts(s)), Marks(base), Head(names), Tail(names))

Repeated(mark, n) == [i \in 1..2 * n |-> mark[IF \E j \in 1..n : i = 2 * j THEN 2 ELSE 1]]

SpelledBase(base) ==
  Repeated(Mark, base.marks) \o Join(<<base.stem>> \o base.suffixes, ".")

Spelled(name) == Join(Append(name.dirs, SpelledBase(name.base)), "/")

-----------------------------------------------------------------------------
(* Includes of a file in the first n directories of the path. *)

\* The include names a file: it does not end in a slash, "." or "..".
NamesFile == path[Len(path)] \notin {Empty, ".", ".."}

\* "@" begins what an include names, and nothing else: the loop may bring a directory
\* to the front, and a name like "@a" would then be taken for a resolved one.
MarksResolved(n) ==
  \A i \in DOMAIN path : i # n + 1 /\ path[i] # Empty => Head(BytesOf[path[i]]) # "@"

FitsName(n) == Len(Module(n)) + Len(Target(n)) < MaxName

\* The file the compiler includes, as the path of its module is spelled.
Included(n) == Walk(SubSeq(path, 1, n), SubSeq(path, n + 1, Len(path)))

\* The include never leaves the directories the name of the module tells of.
StaysInside(n) ==
  \A m \in n..Len(path) : Walk(<<"root">> \o SubSeq(path, 1, n), SubSeq(path, n + 1, m)) # << >>

\* The name of the module has no empty directory, as an absolute one begins with,
\* and no "." or "..".
PlainModule(n) == \A i \in 1..n : path[i] \notin {Empty, ".", ".."}

InLibrary(n) == Len(Included(n)) > 1 /\ IsLibraryDir(Head(Included(n)))

-----------------------------------------------------------------------------
(* Properties. *)

\* A name is cut only where the buffer ends: two files that do not belong to one
\* module share a name only when their names agree up to the last byte that
\* fits (strings.c:115-134: the prefix is cut first and the base name, which
\* was cut on its own, is appended to what is left).
CutOnlyAtTheEnd ==
  LET text == Text(path)
      name == N!NormalizeModuleName(PathOf(text))
      whole == Spelled(name)
      base == SpelledBase(name.base)
  IN /\ \A size \in 1..MaxName :
          /\ NormalizeModuleName(size, text) = Cut(whole, size - 1)
          /\ BasenameNoSuffix(size, text) = Cut(base, size - 1)
     /\ AddSourceFile(text) = Cut(base, MaxName - 1)

\* The modules that count components and not bytes are right about every include
\* of a file whose path fits: Names is what strings.c and model_mutation.c do, and
\* the loop over the bytes keeps what the steps of RelativePath keep.
IncludesAsNames ==
  /\ NormalizeRelativePath(Text(path)) = Text([i \in DOMAIN destination |-> destination[i].name])
  /\ \A n \in Divisions :
       LET target == Target(n)
           raw == target # << >> /\ target[1] = "@"
           operand == N!Operand(raw, PathOf(IF raw THEN Tail(target) ELSE target))
       IN NamesFile /\ FitsName(n) /\ MarksResolved(n) =>
            LocalIncludeToModule(Module(n), target)
              = Spelled(N!LocalIncludeToModule(PathOf(Module(n)), operand))

\* "test_explicit_relative_include_resolves_from_source_module"
\* (test_module_map.c:186): a relative include stands for the module of the very
\* file the compiler includes, so that the edge, the cycle and the layer rules
\* see it.  It does so when the module's own name is spelled with names alone, for
\* the loop drops what a name like "/a/a" or "./a" begins with, and when the file
\* is in no library directory, which is dropped from includes alone (strings.c:78-111).
RelativeReaches ==
  \A n \in Divisions :
    /\ IsRelative(Target(n)) /\ NamesFile /\ FitsName(n) /\ MarksResolved(n)
    /\ PlainModule(n) /\ StaysInside(n) /\ ~InLibrary(n)
    => LocalIncludeToModule(Module(n), Target(n)) = NormalizeModuleName(MaxName, Text(Included(n)))
=============================================================================
