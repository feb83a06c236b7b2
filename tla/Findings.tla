------------------------------- MODULE Findings -------------------------------
(***************************************************************************)
(* What the report says about a project map: the queries of                *)
(* src/src/model_query.c and the rules P101-MOD-001 to P101-MOD-013 of     *)
(* src/src/report.c, as operators on the map of ProjectMap.tla.            *)
(*                                                                         *)
(* args is the part of struct arguments that the rules read: the field     *)
(* allowed is the set of edges of the layer file, hasLayers says whether   *)
(* one was given.                                                          *)
(***************************************************************************)
EXTENDS ProjectMap, Functions

CONSTANTS
  MainUsr,    \* the declaration identity of main
  EmptyUsr    \* the empty declaration identity, which identifies nothing

ASSUME UsrNamesAssumption == {MainUsr, EmptyUsr} \subseteq Usrs /\ MainUsr # EmptyUsr

Functs(m) == Range(m.table["function"])
Calls(m) == Range(m.table["call"])
LocalIncludes(m) == {n \in Range(m.table["include"]) : n.isLocal}

-----------------------------------------------------------------------------
(* Queries. *)

HasDirectInclude(m, from, target) ==
  \E n \in LocalIncludes(m) : n.module = from /\ n.target = target

SymbolUsedOutside(m, name, symbol) ==
  \E call \in Calls(m) : call.module # name /\ call.name = symbol

\* Mutant: only modules with a source file exist.
TargetHasSource(m, target) ==
  \E i \in DOMAIN m.modules : m.modules[i].name = target /\ m.modules[i].count["source"] > 0

TargetExists(m, target) == Registered(m, target)

UsedOutside(m, name) ==
  \E n \in LocalIncludes(m) : n.target = name /\ n.module # name

FunctionUsedOutside(m, f) ==
  \E call \in Calls(m) :
    call.module # f.module /\ f.usr # EmptyUsr /\ call.usr = f.usr

\* Mutant: only the interface of the function's own module counts.
HasOwnDeclaration(m, f) ==
  \E g \in Functs(m) :
    g.isDeclaration /\ f.usr # EmptyUsr /\ g.usr = f.usr /\ g.module = f.module

HasHeaderDeclaration(m, f) ==
  \E g \in Functs(m) : g.isDeclaration /\ f.usr # EmptyUsr /\ g.usr = f.usr

HasNonStaticDefinition(m, f) ==
  \E g \in Functs(m) :
    ~g.isDeclaration /\ ~g.isStatic /\ f.usr # EmptyUsr /\ g.usr = f.usr

HasSource(m, name) ==
  Registered(m, name) /\ m.modules[ModuleIndex(m, name)].count["source"] > 0

HasUnmatchedPublic(m, name) ==
  \E f \in Functs(m) : /\ ~f.isDeclaration /\ ~f.isStatic
                       /\ f.module = name /\ f.usr # MainUsr
                       /\ ~HasHeaderDeclaration(m, f)

ContainsEntrypoint(m, name) ==
  \E f \in Functs(m) : f.module = name /\ f.usr = MainUsr

\* What layer_allows_include returns when the layer file can be read.
LayerAllows(args, from, target) ==
  from = target \/ ~args.hasLayers \/ <<from, target>> \in args.allowed

-----------------------------------------------------------------------------
(* The rules, each on one entry of the table it runs over. *)

SourceOnly(m, module) ==
  /\ module.count["source"] > 0 /\ module.count["header"] = 0
  /\ ~ContainsEntrypoint(m, module.name)
  /\ HasUnmatchedPublic(m, module.name)

TooManyFunctions(args, module) ==
  ~args.library /\ module.count["function"] > args.maxFunctions

TooManyPublic(args, module) ==
  ~args.library /\ module.count["public"] > args.maxPublic

LargeMain(m, args, module) ==
  /\ ~args.library
  /\ ContainsEntrypoint(m, module.name) /\ module.count["function"] > 3

\* Mutant: a header declaration does not count as an interface.
PrivateLookingDeclared(m, args, f) ==
  /\ ~args.library /\ ~f.isDeclaration /\ ~f.isStatic
  /\ ~FunctionUsedOutside(m, f) /\ f.usr # MainUsr

PrivateLooking(m, args, f) ==
  /\ ~args.library /\ ~f.isDeclaration /\ ~f.isStatic
  /\ ~HasHeaderDeclaration(m, f) /\ ~FunctionUsedOutside(m, f)
  /\ f.usr # MainUsr

\* Mutant: the condition on the mode is turned round.
UndefinedInverted(m, args, f) ==
  /\ f.isDeclaration
  /\ args.library \/ HasSource(m, f.module)
  /\ ~HasNonStaticDefinition(m, f)

Undefined(m, args, f) ==
  /\ f.isDeclaration
  /\ ~args.library \/ HasSource(m, f.module)
  /\ ~HasNonStaticDefinition(m, f)

UnusedDeclaration(m, args, f) ==
  /\ ~args.library /\ f.isDeclaration
  /\ ~UsedOutside(m, f.module) /\ ~ContainsEntrypoint(m, f.module)

UnusedMacro(m, args, macro) ==
  /\ ~args.library
  /\ ~UsedOutside(m, macro.module) /\ ~SymbolUsedOutside(m, macro.module, macro.name)

UnusedType(m, args, type) == ~args.library /\ ~UsedOutside(m, type.module)

Cycle(m, include) ==
  /\ include.isLocal
  /\ HasDirectInclude(m, include.target, include.module)
  /\ include.module # include.target

StaleInclude(m, include) == include.isLocal /\ ~TargetExists(m, include.target)

LayerViolation(args, include) ==
  include.isLocal /\ ~LayerAllows(args, include.module, include.target)

-----------------------------------------------------------------------------
(* The checks of write_findings, in the order of its loops: the number of  *)
(* the loop, the index of the entry, the number of the rule.               *)

Loop(m, k) ==
  CASE k = 1 -> m.modules
    [] k = 2 -> m.table["function"]
    [] k = 3 -> m.table["macro"]
    [] k = 4 -> m.table["type"]
    [] k = 5 -> m.table["include"]

Rules == << {1, 2, 3, 4}, {6, 7, 8}, {9}, {10}, {11, 12, 13} >>

Checks(m) == UNION {{k} \X (DOMAIN Loop(m, k)) \X Rules[k] : k \in 1..5}

Before(c, d) ==
  \/ c[1] < d[1]
  \/ c[1] = d[1] /\ c[2] < d[2]
  \/ c[1] = d[1] /\ c[2] = d[2] /\ c[3] < d[3]

Entry(m, c) == Loop(m, c[1])[c[2]]

Found(m, args, c) ==
  LET e == Entry(m, c) IN
  \/ c[3] = 1 /\ SourceOnly(m, e)
  \/ c[3] = 2 /\ TooManyFunctions(args, e)
  \/ c[3] = 3 /\ TooManyPublic(args, e)
  \/ c[3] = 4 /\ LargeMain(m, args, e)
  \/ c[3] = 6 /\ PrivateLooking(m, args, e)
  \/ c[3] = 7 /\ Undefined(m, args, e)
  \/ c[3] = 8 /\ UnusedDeclaration(m, args, e)
  \/ c[3] = 9 /\ UnusedMacro(m, args, e)
  \/ c[3] = 10 /\ UnusedType(m, args, e)
  \/ c[3] = 11 /\ Cycle(m, e)
  \/ c[3] = 12 /\ StaleInclude(m, e)
  \/ c[3] = 13 /\ LayerViolation(args, e)

Reported(m, args) == {c \in Checks(m) : Found(m, args, c)}
=============================================================================
