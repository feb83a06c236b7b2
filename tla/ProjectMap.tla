------------------------------ MODULE ProjectMap ------------------------------
(***************************************************************************)
(* The project_map of src/include/model.h and the operations that fill it  *)
(* (src/src/model_mutation.c, src/src/model_notes.c).                      *)
(*                                                                         *)
(* The store is a value: every operation takes a store and returns the     *)
(* store the C function leaves behind, so that a caller that makes several *)
(* calls in a row (apply_fact, apply_record) is one step.  The field err   *)
(* stands for the p101_error object that every operation also receives.    *)
(*                                                                         *)
(* What only the wording of the report uses (line numbers, function and    *)
(* type names, the resolved path of an include) is left out.               *)
(***************************************************************************)
EXTENDS Naturals, Sequences, FiniteSets

CONSTANTS
  Paths,          \* paths of files, as the analysis reports them
  Names,          \* module names, after normalize_module_name
  Symbols,        \* names of macros and of called functions
  Usrs,           \* declaration identities that fit a record
  BadUsr,         \* an absent identity, or one of MAX_NAME bytes or more
  Targets,        \* the operands of include directives
  NoPath,         \* the empty header_path or source_path of a module
  StoredPath,     \* a path after copy_string into PATH_LEN bytes
  LocalTarget,    \* the module local_include_to_module finds for a target
  MaxFiles, MaxModules, MaxIncludes, MaxFunctions, MaxMacros, MaxTypes, MaxCalls

ASSUME StoredPathAssumption ==
  /\ StoredPath \in [Paths -> Paths]
  /\ \A p \in Paths : StoredPath[StoredPath[p]] = StoredPath[p]
  /\ NoPath \notin Paths

ASSUME LocalTargetAssumption == LocalTarget \in [Names \X Targets -> Names]

ASSUME UsrAssumption == BadUsr \notin Usrs

ASSUME LimitAssumption ==
  /\ MaxFiles \in Nat /\ MaxModules \in Nat /\ MaxIncludes \in Nat
  /\ MaxFunctions \in Nat /\ MaxMacros \in Nat /\ MaxTypes \in Nat
  /\ MaxCalls \in Nat

-----------------------------------------------------------------------------
(* The shape of the store. *)

\* The counters of struct module.
Counters == {"source", "header", "function", "public", "static",
             "declaration", "macro", "type", "local", "external"}

\* The tables of records besides files and modules.
Kinds == {"include", "function", "macro", "type", "call"}

Capacity == [include |-> MaxIncludes, function |-> MaxFunctions,
             macro |-> MaxMacros, type |-> MaxTypes, call |-> MaxCalls]

File == [path : Paths, module : Names, isHeader : BOOLEAN]

Module == [name : Names, count : [Counters -> Nat],
           sourcePath : Paths \cup {NoPath}, headerPath : Paths \cup {NoPath},
           usesError : BOOLEAN, checksError : BOOLEAN]

Record(kind) ==
  CASE kind = "include"  -> [module : Names, path : Paths,
                             target : Names \cup Targets, isLocal : BOOLEAN]
    [] kind = "function" -> [module : Names, path : Paths, usr : Usrs,
                             isStatic : BOOLEAN, isDeclaration : BOOLEAN]
    [] kind = "macro"    -> [module : Names, path : Paths, name : Symbols]
    [] kind = "type"     -> [module : Names, path : Paths]
    [] kind = "call"     -> [module : Names, path : Paths, name : Symbols,
                             usr : Usrs, isHeader : BOOLEAN]

\* An error of class ERR_USAGE, or one that a library call raised.
Errors == {"none", "usage", "system"}

EmptyMap == [files |-> << >>, modules |-> << >>,
             table |-> [kind \in Kinds |-> << >>],
             callsDropped |-> 0, err |-> "none"]

NewModule(name) == [name |-> name, count |-> [c \in Counters |-> 0],
                    sourcePath |-> NoPath, headerPath |-> NoPath,
                    usesError |-> FALSE, checksError |-> FALSE]

-----------------------------------------------------------------------------
(* Modules are found by name, the first match wins. *)

Raise(m, e) == [m EXCEPT !.err = e]

Registered(m, name) == \E i \in DOMAIN m.modules : m.modules[i].name = name

ModuleIndex(m, name) ==
  CHOOSE i \in DOMAIN m.modules :
    /\ m.modules[i].name = name
    /\ \A j \in DOMAIN m.modules : m.modules[j].name = name => i <= j

\* The caller finds the module Registered in the result, or err raised.
GetModule(m, name) ==
  IF Registered(m, name) THEN m
  ELSE IF Len(m.modules) >= MaxModules THEN Raise(m, "usage")
  ELSE [m EXCEPT !.modules = Append(@, NewModule(name))]

\* One more in each of the module's counters cs.
Credit(module, cs) ==
  [module EXCEPT !.count = [c \in Counters |-> IF c \in cs THEN @[c] + 1 ELSE @[c]]]

-----------------------------------------------------------------------------
(* Files. *)

\* Mutant: the last path wins.
FileCreditLast(module, path, isHeader) ==
  IF isHeader
  THEN [Credit(module, {"header"}) EXCEPT !.headerPath = StoredPath[path]]
  ELSE [Credit(module, {"source"}) EXCEPT !.sourcePath = StoredPath[path]]

FileCredit(module, path, isHeader) ==
  IF isHeader
  THEN [Credit(module, {"header"}) EXCEPT
          !.headerPath = IF @ = NoPath THEN StoredPath[path] ELSE @]
  ELSE [Credit(module, {"source"}) EXCEPT
          !.sourcePath = IF @ = NoPath THEN StoredPath[path] ELSE @]

\* Mutant: the module is made before the limit on files is checked.
AddModuleThenFile(m, path, name, isHeader) ==
  LET r == GetModule(m, name) IN
  IF ~Registered(r, name) THEN r
  ELSE IF Len(r.files) >= MaxFiles THEN Raise(r, "usage")
  ELSE [r EXCEPT
          !.files = Append(@, [path |-> StoredPath[path], module |-> name,
                               isHeader |-> isHeader]),
          !.modules[ModuleIndex(r, name)] = FileCredit(@, path, isHeader)]

AddNamedSourceFile(m, path, name, isHeader) ==
  IF Len(m.files) >= MaxFiles THEN Raise(m, "usage")
  ELSE LET r == GetModule(m, name) IN
       IF ~Registered(r, name) THEN r
       ELSE [r EXCEPT
               !.files = Append(@, [path |-> StoredPath[path], module |-> name,
                                    isHeader |-> isHeader]),
               !.modules[ModuleIndex(r, name)] = FileCredit(@, path, isHeader)]

\* A path is looked up as it was given, not as it was stored.
Known(m, path) == \E i \in DOMAIN m.files : m.files[i].path = path

FindFile(m, path) ==
  m.files[CHOOSE i \in DOMAIN m.files :
            /\ m.files[i].path = path
            /\ \A j \in DOMAIN m.files : m.files[j].path = path => i <= j]

-----------------------------------------------------------------------------
(* Records that belong to a file, and so to the file's module. *)

\* What add_include, add_function, add_macro and add_type have in common once
\* the record is admitted: find the module, append, count.
Insert(m, kind, record, cs) ==
  LET r == GetModule(m, record.module) IN
  IF ~Registered(r, record.module) THEN r
  ELSE [r EXCEPT !.table[kind] = Append(@, record),
                 !.modules[ModuleIndex(r, record.module)] = Credit(@, cs)]

\* Mutant: the limit is checked one record too late.
FullLate(m, kind) == Len(m.table[kind]) > Capacity[kind]

Full(m, kind) == Len(m.table[kind]) >= Capacity[kind]

AddInclude(m, file, target, isLocal) ==
  IF Full(m, "include") THEN Raise(m, "usage")
  ELSE Insert(m, "include",
              [module |-> file.module, path |-> file.path,
               target |-> IF isLocal THEN LocalTarget[file.module, target] ELSE target,
               isLocal |-> isLocal],
              IF isLocal THEN {"local"} ELSE {"external"})

\* Mutant: declarations are counted as functions too.
FunctionCountersAll(isStatic, isDeclaration) ==
  {"function", IF isDeclaration THEN "declaration" ELSE IF isStatic THEN "static" ELSE "public"}

FunctionCounters(isStatic, isDeclaration) ==
  IF isDeclaration THEN {"declaration"}
  ELSE {"function", IF isStatic THEN "static" ELSE "public"}

AddFunction(m, file, usr, isStatic, isDeclaration) ==
  IF Full(m, "function") \/ usr = BadUsr THEN Raise(m, "usage")
  ELSE Insert(m, "function",
              [module |-> file.module, path |-> file.path, usr |-> usr,
               isStatic |-> isStatic, isDeclaration |-> isDeclaration],
              FunctionCounters(isStatic, isDeclaration))

AddMacro(m, file, name) ==
  IF Full(m, "macro") THEN Raise(m, "usage")
  ELSE Insert(m, "macro",
              [module |-> file.module, path |-> file.path, name |-> name], {"macro"})

AddType(m, file) ==
  IF Full(m, "type") THEN Raise(m, "usage")
  ELSE Insert(m, "type", [module |-> file.module, path |-> file.path], {"type"})

\* Mutant: a call beyond the limit is counted as dropped, but not refused.
AddCallOrDrop(m, file, name, usr) ==
  IF Full(m, "call") THEN [m EXCEPT !.callsDropped = @ + 1]
  ELSE IF usr = BadUsr THEN Raise(m, "usage")
  ELSE [m EXCEPT !.table["call"] =
          Append(@, [module |-> file.module, path |-> file.path, name |-> name,
                     usr |-> usr, isHeader |-> file.isHeader])]

\* A call is recorded without touching its module.
AddCall(m, file, name, usr) ==
  IF Full(m, "call") THEN Raise([m EXCEPT !.callsDropped = @ + 1], "usage")
  ELSE IF usr = BadUsr THEN Raise(m, "usage")
  ELSE [m EXCEPT !.table["call"] =
          Append(@, [module |-> file.module, path |-> file.path, name |-> name,
                     usr |-> usr, isHeader |-> file.isHeader])]

-----------------------------------------------------------------------------
(* Notes. *)

NoteErrorUse(m, file) ==
  LET r == GetModule(m, file.module) IN
  IF ~Registered(r, file.module) THEN r
  ELSE [r EXCEPT !.modules[ModuleIndex(r, file.module)].usesError = TRUE]

NoteErrorCheck(m, file) ==
  LET r == GetModule(m, file.module) IN
  IF ~Registered(r, file.module) THEN r
  ELSE [r EXCEPT !.modules[ModuleIndex(r, file.module)].checksError = TRUE]

-----------------------------------------------------------------------------
(* What holds of every store the loaders build. *)

Store == [files : Seq(File), modules : Seq(Module),
          table : [Kinds -> Seq(UNION {Record(kind) : kind \in Kinds})],
          callsDropped : Nat, err : Errors]

StoreType(m) ==
  /\ m \in Store
  /\ Len(m.files) <= MaxFiles /\ Len(m.modules) <= MaxModules
  /\ \A kind \in Kinds : /\ m.table[kind] \in Seq(Record(kind))
                         /\ Len(m.table[kind]) <= Capacity[kind]

\* A local include leads to a module, registered or not.
TargetsAreModules(m) ==
  \A i \in DOMAIN m.table["include"] :
    m.table["include"][i].isLocal => m.table["include"][i].target \in Names

\* The records of the tables, or the files, that a counter is the number of.
Counted(m, c, name) ==
  LET In(s) == {i \in DOMAIN s : s[i].module = name}
      f == m.table["function"]
      n == m.table["include"]
  IN CASE c = "source"      -> {i \in In(m.files) : ~m.files[i].isHeader}
       [] c = "header"      -> {i \in In(m.files) : m.files[i].isHeader}
       [] c = "function"    -> {i \in In(f) : ~f[i].isDeclaration}
       [] c = "public"      -> {i \in In(f) : ~f[i].isDeclaration /\ ~f[i].isStatic}
       [] c = "static"      -> {i \in In(f) : ~f[i].isDeclaration /\ f[i].isStatic}
       [] c = "declaration" -> {i \in In(f) : f[i].isDeclaration}
       [] c = "macro"       -> In(m.table["macro"])
       [] c = "type"        -> In(m.table["type"])
       [] c = "local"       -> {i \in In(n) : n[i].isLocal}
       [] c = "external"    -> {i \in In(n) : ~n[i].isLocal}

\* Every counter of every module is the number of records it stands for.
CountersMatch(m) ==
  \A i \in DOMAIN m.modules : \A c \in Counters :
    m.modules[i].count[c] = Cardinality(Counted(m, c, m.modules[i].name))

ModuleNamesUnique(m) ==
  \A i, j \in DOMAIN m.modules : m.modules[i].name = m.modules[j].name => i = j

\* Modules are exactly the groups of files: none without a file, and no file
\* without its module.
ModulesAreFileGroups(m) ==
  {m.modules[i].name : i \in DOMAIN m.modules} = {m.files[i].module : i \in DOMAIN m.files}

\* Every record names a file of the store, together with that file's module.
RecordsBelong(m) ==
  \A kind \in Kinds : \A i \in DOMAIN m.table[kind] :
    \E j \in DOMAIN m.files : /\ m.files[j].path = m.table[kind][i].path
                             /\ m.files[j].module = m.table[kind][i].module

\* A module is shown with the first of its sources and of its headers.
FirstPathsKept(m) ==
  LET First(i, isHeader, shown) ==
        LET own == {j \in DOMAIN m.files :
                      m.files[j].module = m.modules[i].name /\ m.files[j].isHeader = isHeader}
        IN IF own = {} THEN shown = NoPath
           ELSE \E j \in own : shown = m.files[j].path /\ \A k \in own : j <= k
  IN \A i \in DOMAIN m.modules :
       /\ First(i, FALSE, m.modules[i].sourcePath)
       /\ First(i, TRUE, m.modules[i].headerPath)

-----------------------------------------------------------------------------
(* What Analysis.tla sees of a store: a refused one is empty. *)

SeenFiles(m) ==
  IF m.err # "none" THEN {} ELSE {m.files[i].path : i \in DOMAIN m.files}

SeenOwners(m) ==
  [p \in SeenFiles(m) |-> [module |-> FindFile(m, p).module,
                           isHeader |-> FindFile(m, p).isHeader]]

SeenRecords(m) == [k \in Kinds |-> IF m.err # "none" THEN << >> ELSE m.table[k]]

SeenCount(m, n) == IF m.err # "none" THEN 0 ELSE n

SeenOutcome(m, ended) ==
  IF m.err # "none" THEN "refused" ELSE IF ended THEN "complete" ELSE "loading"
=============================================================================
