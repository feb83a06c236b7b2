------------------------------- MODULE MCReport -------------------------------
(* Three projects to report on, as the loader leaves them: a clean one, one of  *)
(* two modules that include each other, and one with a declaration, a macro and *)
(* a type that nobody uses.                                                     *)
EXTENDS Report

CONSTANTS ac, ah, bc, a, b

MCPaths == {ac, ah, bc}
MCNames == {a, b}
MCRawNames == {"a", "b"}
MCNormalize == "a" :> a @@ "b" :> b
MCStoredPath == [p \in MCPaths |-> p]
MCTargets == {"a.h", "b.h"}
MCLocalTarget == [x \in MCNames \X MCTargets |-> IF x[2] = "a.h" THEN a ELSE b]
MCSymbols == {"S"}
MCUsrs == {"u", "main", ""}
MCBadUsr == "bad"

On(path) == [path |-> path, module |-> IF path \in {ac, ah} THEN "a" ELSE "b",
             isHeader |-> path = ah]
Include(path, target) ==
  On(path) @@ [kind |-> "INCLUDE", target |-> target, isLocal |-> TRUE]
Function(path, usr, isStatic, isDeclaration) ==
  On(path) @@ [kind |-> "FUNCTION", usr |-> usr, isStatic |-> isStatic,
               isDeclaration |-> isDeclaration]
Macro(path) == On(path) @@ [kind |-> "MACRO", name |-> "S", isDefinition |-> TRUE]
Type(path) == On(path) @@ [kind |-> "TYPE"]

Clean == << Function(ac, "u", TRUE, FALSE), Include(ac, "a.h") >>
Cyclic == << Function(ac, "u", FALSE, FALSE), Include(ac, "b.h"), Include(bc, "a.h") >>
Unused == << Function(ah, "u", FALSE, TRUE), Macro(ah), Type(ah) >>

Loader == INSTANCE FactApply WITH
            RawNames <- MCRawNames, NormalizeModule <- MCNormalize, Facts <- {}

\* The maps after a fact, of the maps before it.
Apply(maps, fact) == {Loader!ApplyFact(m, fact) : m \in maps}

MCMaps == UNION {FoldLeft(Apply, {EmptyMap}, facts) : facts \in {Clean, Cyclic, Unused}}

MCNewline == "\n"
MCBlanks == {" ", MCNewline}
MCBytes == {"a", "b", "#", "-", ">"} \cup MCBlanks
MCNameBytes == a :> <<"a">> @@ b :> <<"b">>

\* The modules of the projects are plain words, as the theorems about layers have it.
ASSUME MCNamesArePlain == PlainNames

\* Lines of a layer file, and the files of up to two of them; the last line of a
\* file may lack its newline.
Spelled == { <<"a", "-", ">", "b">>, <<" ", "a", " ", "-", ">", " ", "b", " ">>,
             <<"b", "-", ">", "a">>, <<"#", "a", "-", ">", "b">>, <<"a", "b">>,
             <<"a", "-", ">", "b", "-", ">", "a">>, <<"-", ">", "b">>, <<" ">>, << >> }
Whole == {Append(line, MCNewline) : line \in Spelled}
Files == Spelled \cup {l \o m : l \in Whole, m \in Spelled \cup Whole}
AB == <<"a", "-", ">", "b">>

\* layers is the set of the one layer file, or empty.
Command(library, json, layers, output) ==
  [library |-> library, json |-> json, hasLayers |-> layers # {},
   layers |-> FlattenSeq(SetToSeq(layers)), allowed |-> UNION {Edges(f) : f \in layers},
   maxFunctions |-> 1, maxPublic |-> 1, output |-> output]

MCOptions ==
  {Command(l, j, f, o) : l, j \in BOOLEAN, f \in {{}, {AB}}, o \in {"stdout", "file"}}
    \cup {Command(TRUE, TRUE, {f}, "file") : f \in Files}
\* A Markdown report on stdout, without and with a layer file.
MCPlain == {Command(FALSE, FALSE, {}, "stdout")}
MCLayered == {Command(FALSE, FALSE, {AB}, "stdout")}
=============================================================================
