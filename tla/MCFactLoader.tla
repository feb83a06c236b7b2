----------------------------- MODULE MCFactLoader -----------------------------
(* Small streams for FactLoader: five files in three modules. *)
EXTENDS FactLoader, TLC

CONSTANTS ac, ah, a2, bc, cc, long, cut, a, b, c

MCPaths == {ac, ah, a2, bc, cc, long, cut}
MCNames == {a, b, c}
MCRawNames == {"a", "p101_b", "c"}
MCNormalize == "a" :> a @@ "p101_b" :> b @@ "c" :> c
\* Of the paths, only "long" does not fit PATH_LEN bytes.
MCStoredPath == [p \in MCPaths |-> IF p = long THEN cut ELSE p]
MCTargets == {"a.h", "stdio.h"}
MCLocalTarget == [x \in MCNames \X MCTargets |-> a]
MCSymbols == {"S"}
MCUsrs == {"u"}
MCBadUsr == "bad"

On(path) == IF path = bc
            THEN [path |-> path, module |-> "p101_b", isHeader |-> FALSE]
            ELSE IF path = cc THEN [path |-> path, module |-> "c", isHeader |-> FALSE]
            ELSE [path |-> path, module |-> "a", isHeader |-> path = ah]

Include(path, target, isLocal) ==
  On(path) @@ [kind |-> "INCLUDE", target |-> target, isLocal |-> isLocal]
Function(path, usr, isStatic, isDeclaration) ==
  On(path) @@ [kind |-> "FUNCTION", usr |-> usr, isStatic |-> isStatic,
               isDeclaration |-> isDeclaration]
Call(path, usr) == On(path) @@ [kind |-> "CALL", name |-> "S", usr |-> usr]
Macro(path, isDefinition) ==
  On(path) @@ [kind |-> "MACRO", name |-> "S", isDefinition |-> isDefinition]
Note(path, note) == On(path) @@ [kind |-> "NOTE", note |-> note]
Plain(path, kind) == On(path) @@ [kind |-> kind]

MCFacts ==
  { Plain(ac, "FILE"), Plain(a2, "FILE"), Plain(cc, "FILE"), Plain(bc, "UNKNOWN"), Plain(ah, "TYPE"), Plain(bc, "ENUM"),
    Plain(ac, "ENUMERATOR"),
    Include(bc, "a.h", TRUE), Include(ac, "stdio.h", FALSE),
    Function(ac, "u", FALSE, FALSE), Function(bc, "u", TRUE, FALSE),
    Function(ah, "u", FALSE, TRUE), Function(bc, "bad", FALSE, FALSE),
    Call(bc, "u"), Call(ac, "bad"),
    Macro(ah, TRUE), Macro(ac, FALSE),
    Note(ac, "ERROR_USE"), Note(bc, "ERROR_CHECK"), Note(ah, "OTHER") }

\* The same stream in which one file has a path of PATH_LEN bytes or more.
MCLongFacts == { Plain(ac, "FILE"), Call(ac, "u"), Call(long, "u"),
                 Function(long, "u", FALSE, FALSE) }
=============================================================================
