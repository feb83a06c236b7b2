--------------------------- MODULE MCNativeAnalysis ---------------------------
(* Small scans for NativeAnalysis: one module in one directory, another module *)
(* whose source and header lie in two.                                         *)
EXTENDS NativeAnalysis, TLC

MCP101Dirs == {"p101"}
N == INSTANCE Names WITH P101Dirs <- MCP101Dirs, Nothing <- "", Here <- ".", Parent <- ".."

alpha_c == N!Path(<<"src">>, 0, "alpha", <<"c">>)
beta_c == N!Path(<<"src">>, 1, "beta", <<"c">>)
alpha_h == N!Path(<<"src">>, 0, "alpha", <<"h">>)
alpha_h2 == N!Path(<<"include">>, 0, "alpha", <<"h">>)

MCPaths == {alpha_c, beta_c, alpha_h, alpha_h2}
MCStoredPath == [p \in MCPaths |-> p]
MCModuleOfPath == [p \in MCPaths |-> N!NormalizeModuleName(p)]
MCTargets == { N!Operand(FALSE, N!Path(<<".">>, 0, "alpha", <<"h">>)),
               N!Operand(FALSE, N!Path(<<"..", "include">>, 0, "alpha", <<"h">>)),
               N!Operand(FALSE, N!Path(<< >>, 0, "stdio", <<"h">>)) }
\* The modules of the files, and those their includes lead to.
Reach(names) == names \cup {N!LocalIncludeToModule(n, t) : n \in names, t \in MCTargets}
MCNames == Reach(Reach(Reach({MCModuleOfPath[p] : p \in MCPaths})))
MCLocalTarget == [x \in MCNames \X MCTargets |-> N!LocalIncludeToModule(x[1], x[2])]
MCSymbols == {"S"}
MCUsrs == {"u"}
MCBadUsr == "bad"

On(path) == [path |-> path, isHeader |-> path \in {alpha_h, alpha_h2}]

Include(path, target, isLocal) ==
  On(path) @@ [kind |-> "INCLUDE", target |-> target, isLocal |-> isLocal]
Function(path, usr, isStatic, isDefinition) ==
  On(path) @@ [kind |-> "FUNCTION", usr |-> usr, isStatic |-> isStatic,
               isDefinition |-> isDefinition]
Call(path, usr) == On(path) @@ [kind |-> "CALL", name |-> "S", usr |-> usr]
Macro(path, isDefinition) ==
  On(path) @@ [kind |-> "MACRO", name |-> "S", isDefinition |-> isDefinition]
Note(path, note) == On(path) @@ [kind |-> "NOTE", note |-> note]
Plain(path, kind) == On(path) @@ [kind |-> kind]

MCScanRecords ==
  { Plain(alpha_c, "FILE"), Plain(beta_c, "FILE"), Plain(alpha_h, "FILE"),
    Plain(NoPath, "TYPE"), Plain(NoPath, "DIAGNOSTIC"), Plain(alpha_c, "MUTATION"), Plain(beta_c, "DIAGNOSTIC"),
    Plain(alpha_h, "TYPE"), Plain(beta_c, "ENUM"), Plain(beta_c, "ENUMERATOR"),
    Function(alpha_c, "u", FALSE, TRUE), Function(alpha_h, "u", FALSE, FALSE),
    Function(beta_c, "u", TRUE, TRUE), Function(beta_c, "bad", FALSE, TRUE),
    Call(beta_c, "u"), Call(alpha_c, "bad"), Macro(alpha_h, TRUE), Macro(beta_c, FALSE),
    Note(alpha_c, "ERROR_USE"), Note(beta_c, "ERROR_CHECK"), Note(alpha_h, "OTHER") }
  \cup {Include(beta_c, t, t.path.dirs # << >>) : t \in MCTargets}

\* The usual layout of a project: sources in src, their headers in include.
MCSplitLayout == {Plain(alpha_c, "FILE"), Plain(alpha_h2, "FILE")}

\* Files of one basename are one module ("groups files into modules by
\* basename", README.md:11), so that a source finds its header: what
\* FileForRecord does with the path of a record.
GroupedByBasename ==
  \A i, j \in DOMAIN map.files :
    N!BasenameNoSuffix(map.files[i].path.base) = N!BasenameNoSuffix(map.files[j].path.base)
      => map.files[i].module = map.files[j].module
=============================================================================
