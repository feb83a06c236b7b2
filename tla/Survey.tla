-------------------------------- MODULE Survey --------------------------------
(***************************************************************************)
(* The findings as a reader of the report understands them: statements     *)
(* about the project, that is about the set of its facts.  The facts reach *)
(* the map one after the other, in any order, as the read loop of          *)
(* src/src/fact_loader.c applies them; the limits are out of reach.        *)
(***************************************************************************)
EXTENDS Findings, FactApply

CONSTANTS Options,      \* command lines: what the rules read of struct arguments
          MaxFacts      \* bound: facts of one project

ASSUME OptionsAssumption ==
  /\ Options # {}
  /\ Options \subseteq [library : BOOLEAN, hasLayers : BOOLEAN,
                        allowed : SUBSET (Names \X Names),
                        maxFunctions : Nat \ {0}, maxPublic : Nat \ {0}]

VARIABLES map, taken

vars == <<map, taken>>

Init == map = EmptyMap /\ taken = {}

\* The read loop takes one more fact of the project.
TakeFact ==
  /\ Cardinality(taken) < MaxFacts /\ map.err = "none"
  /\ \E f \in Facts \ taken : /\ map' = ApplyFact(map, f)
                              /\ taken' = taken \cup {f}

Next == TakeFact

Spec == Init /\ [][Next]_vars

-----------------------------------------------------------------------------
(* The findings of a set of facts. *)

ModuleOf(f) == NormalizeModule[f.module]
OfKind(kind) == {f \in taken : f.kind = kind}
OfModule(name) == {f \in taken : ModuleOf(f) = name}
ModuleNames == {ModuleOf(f) : f \in taken}

Definitions == {f \in OfKind("FUNCTION") : ~f.isDeclaration}
Declarations == {f \in OfKind("FUNCTION") : f.isDeclaration}
Public == {f \in Definitions : ~f.isStatic}
Declared(f) == f.usr # EmptyUsr /\ \E g \in Declarations : g.usr = f.usr
Defined(f) == f.usr # EmptyUsr /\ \E g \in Public : g.usr = f.usr
HasMain(name) == \E f \in OfKind("FUNCTION") \cap OfModule(name) : f.usr = MainUsr
CalledOutside(f) ==
  f.usr # EmptyUsr
    /\ \E call \in OfKind("CALL") : call.usr = f.usr /\ ModuleOf(call) # ModuleOf(f)

TargetOf(f) == LocalTarget[ModuleOf(f), f.target]
Inclusions == {f \in OfKind("INCLUDE") : f.isLocal}
Edges == {<<ModuleOf(f), TargetOf(f)>> : f \in Inclusions}
Interface(name) == \E e \in Edges : e[2] = name /\ e[1] # name
SourcesOf(name) == {f \in OfModule(name) : ~f.isHeader}

\* Findings of the whole program, which library mode leaves out.
ProgramFindings(args) ==
  {<<2, n>> : n \in {n \in ModuleNames :
                Cardinality(Definitions \cap OfModule(n)) > args.maxFunctions}}
  \cup {<<3, n>> : n \in {n \in ModuleNames :
                Cardinality(Public \cap OfModule(n)) > args.maxPublic}}
  \cup {<<4, n>> : n \in {n \in ModuleNames :
                HasMain(n) /\ Cardinality(Definitions \cap OfModule(n)) > 3}}
  \cup {<<6, f.path, f.usr>> : f \in {f \in Public :
                ~Declared(f) /\ ~CalledOutside(f) /\ f.usr # MainUsr}}
  \cup {<<8, f.path, f.usr>> : f \in {f \in Declarations :
                ~Interface(ModuleOf(f)) /\ ~HasMain(ModuleOf(f))}}
  \cup {<<9, f.path, f.name>> : f \in {f \in OfKind("MACRO") :
                f.isDefinition /\ ~Interface(ModuleOf(f))
                /\ \A call \in OfKind("CALL") :
                     call.name # f.name \/ ModuleOf(call) = ModuleOf(f)}}
  \cup {<<10, f.path>> : f \in {f \in OfKind("TYPE") \cup OfKind("ENUM") :
                ~Interface(ModuleOf(f))}}

\* Findings of either mode.
StructureFindings(args) ==
  {<<1, n>> : n \in {n \in ModuleNames :
                SourcesOf(n) # {} /\ SourcesOf(n) = OfModule(n) /\ ~HasMain(n)
                /\ \E f \in Public \cap OfModule(n) : ~Declared(f)}}
  \cup {<<7, f.path, f.usr>> : f \in {f \in Declarations :
                ~Defined(f) /\ (args.library => SourcesOf(ModuleOf(f)) # {})}}
  \cup {<<11, f.path, TargetOf(f)>> : f \in {f \in Inclusions :
                TargetOf(f) # ModuleOf(f) /\ <<TargetOf(f), ModuleOf(f)>> \in Edges}}
  \cup {<<12, f.path, TargetOf(f)>> : f \in {f \in Inclusions :
                TargetOf(f) \notin ModuleNames}}
  \cup {<<13, f.path, TargetOf(f)>> : f \in {f \in Inclusions :
                args.hasLayers /\ TargetOf(f) # ModuleOf(f)
                /\ <<ModuleOf(f), TargetOf(f)>> \notin args.allowed}}

Expected(args) ==
  StructureFindings(args) \cup IF args.library THEN {} ELSE ProgramFindings(args)

\* A finding of the report, without its place in the report.
Subject(c) ==
  LET e == Entry(map, c) IN
  CASE c[1] = 1 -> <<c[3], e.name>>
    [] c[1] = 2 -> <<c[3], e.path, e.usr>>
    [] c[1] = 3 -> <<c[3], e.path, e.name>>
    [] c[1] = 4 -> <<c[3], e.path>>
    [] c[1] = 5 -> <<c[3], e.path, e.target>>

-----------------------------------------------------------------------------
(* Properties. *)

\* The report is about the project and not about the order of its facts: the
\* rules, which read counters and copied names that the loader kept up to date,
\* find exactly what the set of facts says (write_findings of report.c:315).
FindingsOfFacts ==
  \A args \in Options : {Subject(c) : c \in Reported(map, args)} = Expected(args)

\* A function defined in one module and declared in the header of any other is
\* accepted: nobody is told to make it static, to declare it or to define it
\* (README.md:66-69, the comment of model_query.c:185-189).
SplitPairsAccepted ==
  \A args \in Options : \A c \in Reported(map, args) : c[3] \in {6, 7} =>
    LET usr == Entry(map, c).usr IN
    ~ (/\ usr # EmptyUsr
       /\ \E f \in Public : f.usr = usr
       /\ \E f \in Declarations : f.usr = usr)

\* Library mode only leaves findings out: what a library is told it would also
\* be told as a program (README.md:57-64).
LibraryOmitsOnly ==
  \A args \in Options :
    Reported(map, [args EXCEPT !.library = TRUE])
      \subseteq Reported(map, [args EXCEPT !.library = FALSE])

\* One public function of the module less, and one static function more.
Privatized(module) ==
  [module EXCEPT !.count["public"] = @ - 1, !.count["static"] = @ + 1]

\* The map of the project once the function of entry i has been made static.
MadeStatic(m, i) ==
  LET k == ModuleIndex(m, m.table["function"][i].module) IN
  [m EXCEPT !.table["function"][i].isStatic = TRUE, !.modules[k] = Privatized(@)]

\* The advice of P101-MOD-006 is safe to follow: a function that is made static
\* as told is not reported again, and nothing else is reported that was not
\* before; no declaration is left behind without its definition.
StaticAdviceSafe ==
  \A args \in Options : \A c \in Reported(map, args) : c[3] = 6 =>
    Reported(MadeStatic(map, c[2]), args) \subseteq Reported(map, args) \ {c}

\* Library mode "retains local structural checks while omitting those
\* closed-world findings" (README.md:60-61): a finding that does not ask for uses
\* elsewhere stays, apart from the declarations of a module without a source
\* (README.md:61-64).
LibraryKeepsLocalChecks ==
  \A args \in Options : \A c \in Reported(map, [args EXCEPT !.library = FALSE]) :
    c[3] \notin {6, 7, 8, 9, 10} => c \in Reported(map, [args EXCEPT !.library = TRUE])
=============================================================================
