-------------------------------- MODULE Tables --------------------------------
(***************************************************************************)
(* The tables that stand before the findings of a Markdown report and the  *)
(* places the findings name (write_report, write_modules,                  *)
(* write_include_graph, write_functions_for_module and the calls of        *)
(* write_finding in src/src/report.c), read by somebody who compares one   *)
(* part of the report with another and with the project.                   *)
(***************************************************************************)
EXTENDS Survey

\* Mutant: declarations are left out of the total.
FunctionsFoundDefined(m) ==
  Cardinality({k \in DOMAIN m.table["function"] : ~m.table["function"][k].isDeclaration})

FunctionsFound(m) == Len(m.table["function"])

\* The totals of the first lines.
Totals(m) == [files |-> Len(m.files), modules |-> Len(m.modules),
              functions |-> FunctionsFound(m)]

\* The rows of the table of modules, the order of the columns left out.
Rows(m) == [i \in DOMAIN m.modules |->
              [name |-> m.modules[i].name, column |-> m.modules[i].count]]

\* Mutant: a declaration that is static is shown as private.
VisibilityOfStatic(f) ==
  IF f.isStatic THEN "private" ELSE IF f.isDeclaration THEN "header" ELSE "public"

Visibility(f) ==
  IF f.isDeclaration THEN "header" ELSE IF f.isStatic THEN "private" ELSE "public"

\* The lines under the heading of module i, as the entries that they show; none
\* is "No functions detected".
Section(m, i) ==
  {k \in DOMAIN m.table["function"] : m.table["function"][k].module = m.modules[i].name}

\* Mutant: includes of the system are drawn, too.
GraphOfAll(m) == DOMAIN m.table["include"]

\* The edges drawn, as the entries that they show.
Graph(m) == {k \in DOMAIN m.table["include"] : m.table["include"][k].isLocal}

\* Mutant: main is placed in the header of its module.
LocationInHeader(m, c) ==
  LET e == Entry(m, c) IN
  IF c[3] \in {1, 2, 3} THEN e.name ELSE IF c[3] = 4 THEN e.headerPath ELSE e.path

\* The path of a finding: of a module its name, of main the first source.
Location(m, c) ==
  LET e == Entry(m, c) IN
  IF c[3] \in {1, 2, 3} THEN e.name ELSE IF c[3] = 4 THEN e.sourcePath ELSE e.path

-----------------------------------------------------------------------------
(* Properties. *)

\* The paths and the facts that a column counts in the row of a module.
PathsOf(facts) == {f.path : f \in facts}

FactsCounted(name, c) ==
  LET Of(facts) == facts \cap OfModule(name)
  IN CASE c = "source" -> PathsOf(SourcesOf(name))
       [] c = "header" -> PathsOf(OfModule(name) \ SourcesOf(name))
       [] c = "function" -> Of(Definitions)
       [] c = "public" -> Of(Public)
       [] c = "static" -> Of(Definitions \ Public)
       [] c = "declaration" -> Of(Declarations)
       [] c = "macro" -> Of({f \in OfKind("MACRO") : f.isDefinition})
       [] c = "type" -> Of(OfKind("TYPE") \cup OfKind("ENUM"))
       [] c = "local" -> Of(Inclusions)
       [] c = "external" -> Of(OfKind("INCLUDE") \ Inclusions)

\* The table has one row for every module of the project, with the numbers of its
\* facts in whatever order they came, and the totals above it are those of the same
\* facts: the report adds nothing up, it prints three counters that were kept apart
\* from those of the rows (report.c:244-246 and 269-286).
RowsOfFacts ==
  LET rows == Rows(map)
  IN /\ {rows[i].name : i \in DOMAIN rows} = ModuleNames
     /\ \A i \in DOMAIN rows : \A c \in Counters :
          rows[i].column[c] = Cardinality(FactsCounted(rows[i].name, c))
     /\ Totals(map) = [files |-> Cardinality(PathsOf(taken)),
                       modules |-> Cardinality(ModuleNames),
                       functions |-> Cardinality(OfKind("FUNCTION"))]

\* Every function is listed under one heading and once, as header, public or
\* private as often as the row of that module says, although rows are counted by
\* add_function and lines are told apart by write_functions_for_module
\* (report.c:883-912, model_mutation.c:291-306).
SectionsMatchRows ==
  LET functions == map.table["function"]
      Shown(i, v) == Cardinality({k \in Section(map, i) : Visibility(functions[k]) = v})
  IN /\ \A k \in DOMAIN functions :
          Cardinality({i \in DOMAIN map.modules : k \in Section(map, i)}) = 1
     /\ \A i \in DOMAIN map.modules :
          LET column == Rows(map)[i].column
          IN /\ Shown(i, "header") = column["declaration"]
             /\ Shown(i, "public") = column["public"]
             /\ Shown(i, "private") = column["static"]

\* Every number of the report is the number of some facts.
TablesOfFacts == RowsOfFacts /\ SectionsMatchRows

\* What the report says of includes in three places agrees: an edge of the graph
\* starts at a row of the table, one for each local include of that row; it ends
\* at a row unless it is reported as stale, and it is drawn both ways if it is
\* reported as a cycle (report.c:286, 300-309 and 678-757).
GraphAgrees ==
  LET includes == map.table["include"]
      graph == Graph(map)
      named == {map.modules[i].name : i \in DOMAIN map.modules}
      Reports(k, rule) == \E args \in Options : <<5, k, rule>> \in Reported(map, args)
  IN /\ \A i \in DOMAIN map.modules :
          Rows(map)[i].column["local"]
            = Cardinality({k \in graph : includes[k].module = map.modules[i].name})
     /\ \A k \in graph :
          /\ includes[k].module \in named
          /\ Reports(k, 12) <=> includes[k].target \notin named
          /\ Reports(k, 11) <=> /\ includes[k].module # includes[k].target
                                /\ \E j \in graph : /\ includes[j].module = includes[k].target
                                                    /\ includes[j].target = includes[k].module

\* Who follows a finding to its place finds what it is about: a row of the table,
\* a source of the module of main unless main is in a header alone, or a file
\* whose facts include the function, macro, type or include that is meant
\* (the calls of write_finding, report.c:399-784).
FindingsLocated ==
  \A args \in Options : \A c \in Reported(map, args) :
    LET place == Location(map, c)
        e == Entry(map, c)
    IN CASE c[3] \in {1, 2, 3} -> place \in ModuleNames
         [] c[3] = 4 -> \/ SourcesOf(e.name) = {} /\ place = NoPath
                        \/ place \in PathsOf(SourcesOf(e.name))
         [] c[3] \in {6, 7, 8} -> \E f \in OfKind("FUNCTION") :
                                    f.path = place /\ f.usr = e.usr
         [] c[3] = 9 -> \E f \in OfKind("MACRO") : f.path = place /\ f.name = e.name
         [] c[3] = 10 -> \E f \in OfKind("TYPE") \cup OfKind("ENUM") : f.path = place
         [] OTHER -> \E f \in Inclusions : f.path = place /\ TargetOf(f) = e.target
=============================================================================
