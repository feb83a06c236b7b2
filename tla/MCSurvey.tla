------------------------------- MODULE MCSurvey -------------------------------
(* A project of two modules, each with a header, and a third that is missing: *)
(* twenty facts to pick four from, among them what tells the columns of the   *)
(* tables apart: an inline function and a static declaration in a header, and *)
(* an include of the system.                                                  *)
EXTENDS Tables, TLC

CONSTANTS ac, ah, bc, bh, a, b, c

MCPaths == {ac, ah, bc, bh}
MCNames == {a, b, c}
MCRawNames == {"a", "b"}
MCNormalize == "a" :> a @@ "b" :> b
MCStoredPath == [p \in MCPaths |-> p]
MCTargets == {"a.h", "b.h", "c.h"}
MCLocalTarget == [x \in MCNames \X MCTargets |->
                    CASE x[2] = "a.h" -> a [] x[2] = "b.h" -> b [] x[2] = "c.h" -> c]
MCSymbols == {"S", "u"}
MCUsrs == {"u", "v", "w", "main", ""}
MCBadUsr == "bad"

On(path) == [path |-> path, module |-> IF path \in {ac, ah} THEN "a" ELSE "b",
             isHeader |-> path \in {ah, bh}]

Include(path, target) ==
  On(path) @@ [kind |-> "INCLUDE", target |-> target, isLocal |-> TRUE]
Definition(path, usr, isStatic) ==
  On(path) @@ [kind |-> "FUNCTION", usr |-> usr, isStatic |-> isStatic,
               isDeclaration |-> FALSE]
Declaration(path, usr) ==
  On(path) @@ [kind |-> "FUNCTION", usr |-> usr, isStatic |-> FALSE, isDeclaration |-> TRUE]
Call(path, name, usr) == On(path) @@ [kind |-> "CALL", name |-> name, usr |-> usr]
Macro(path) == On(path) @@ [kind |-> "MACRO", name |-> "S", isDefinition |-> TRUE]
Plain(path, kind) == On(path) @@ [kind |-> kind]

MCFacts ==
  { Plain(ah, "TYPE"), Plain(ac, "FILE"), Macro(ah),
    Include(ac, "b.h"), Include(bh, "a.h"), Include(bc, "a.h"), Include(bc, "b.h"),
    Include(bc, "c.h"), [Include(bc, "a.h") EXCEPT !.isLocal = FALSE],
    Definition(ac, "u", FALSE), Definition(ah, "u", TRUE),
    Declaration(ah, "u"), Declaration(bh, "u"), [Declaration(ah, "v") EXCEPT !.isStatic = TRUE],
    Definition(bc, "main", FALSE), Definition(bc, "v", FALSE), Definition(bc, "w", TRUE),
    Definition(bc, "", FALSE), Call(bc, "u", "u"), Call(bc, "S", "v") }

MCOptions ==
  {[library |-> l, hasLayers |-> h, allowed |-> {<<a, b>>},
    maxFunctions |-> 2, maxPublic |-> 1] : l, h \in BOOLEAN}
=============================================================================
