# Verification of p101-module-map

`p101-module-map` reads facts about the C files of a project, either from a saved
`P101FACT` stream (`-i`) or from a live libclang scan, collects them in one
in-memory project map, and writes a Markdown or JSON report of structural
findings.  It exits with 0 (clean), 1 (findings) or 2 (usage, runtime or
environment trouble).  It is one process with one thread; what is hard about it
is not concurrency but the long sequence of small mutations that builds the map,
the limits each of them can hit, errors that are raised in the middle and looked
at later, and findings that relate several tables.

`PROJECT.json` lists the components, the runs, the mutant of every property, the
lines every definition stands for, the hazards and the theorems.

- [Inventory](#inventory)
- [Modules](#modules)
- [Runs](#runs)
- [Proofs](#proofs)
- [Where code and documents disagree](#where-code-and-documents-disagree)
- [Not modelled](#not-modelled)
- [Plan](#plan)

## Inventory

| part | source | state | operations | what makes it correct |
|---|---|---|---|---|
| project map | `model.h`, `model_mutation.c`, `model_notes.c` | seven bounded tables, counters per module, `calls_dropped`, the error object | get_module, add_named_source_file, add_include, add_function, add_macro, add_type, add_call, two notes | counters equal tables; modules are the groups of files; records name a file and its module; no table outgrows its array; a refused operation stores nothing |
| fact loader | `fact_loader.c` | stream, fact count, over-long line | read loop, discard loop, file lookup, dispatch, close | every complete fact is applied once; an error freezes the map; the loops end; an empty stream is refused |
| native analysis | `native_analysis.c` | the map, the scan of `p101_c_facts` | choose compile database, callback, end of scan | as for the loader; the scan stops at the first error |
| names | `strings.c`, `normalize_relative_path`, `local_include_to_module` | the offsets of one loop | basename, module name of a path and of an include operand | an include of a file of the project leads to the module of that file; the unchecked copy fits |
| queries | `model_query.c`, four helpers of `report.c` | none (reads the map) | module_has_direct_include, symbol_used_outside_module, include_target_exists, module_used_outside_module, function_used_outside_module, function_has_header_declaration, function_has_non_static_definition, module_has_source, module_has_unmatched_public_definition, module_contains_entrypoint | they agree with what the facts say, in any order of facts |
| findings | `write_findings` | none (reads the map) | P101-MOD-001 to 004 and 006 to 013 | the rules agree with each other, and their advice can be followed |
| report and run | `report.c`, `runner.c`, `main.c` | output stream, layer file, error object, finding count, exit status | load, open, write, close | the exit status tells the truth about the report |
| layer file | `layer_allows_include`, `trim_left`, `trim_right` | place in the file, the error object | open, read loop, close | the answer is what the file says; a failure allows nothing |
| tables of the report | `write_report`, `write_modules`, `write_include_graph`, `write_functions_for_module` | none (reads the map) | one per table | the parts of the report agree with each other and with the facts |
| command line | `cli.c`, `main.c` | arguments | parse, check, usage | every command line is accepted, answered with help, or refused |
| fuzz harness | `fuzz/fuzz_parse.c` | the place of getopt, input after input | split, reset, look for help, parse | an input is judged by itself |
| build trees | `change-compiler.sh`, `test.sh`, `coverage-report.sh`, `clean.sh` | trees, test trees, `.last-build-dir`, `.last-runtime-build-dir` | configure, publish, test, report, clean | the markers name what was configured; tests run as the build they belong to |

How the parts interact: `main` parses the arguments and calls `run`; `run` calls a
loader, which fills the map fact by fact, and then `write_report`, which reads the
map through the queries.  All share one `p101_error` object.  A function that
fails raises the error and returns something harmless; whether the caller looks
at the error object at once, one turn of a loop later or not at all differs from
place to place, and that is where most of the listed hazards are.

## Modules

| module | models | what is in it |
|---|---|---|
| `ProjectMap` | `model.h`, `model_mutation.c`, `model_notes.c` | The map as a value and its operations as operators from a map to the map the C function leaves behind.  The field `err` is the error object.  The invariants of the map are stated here, for both loaders. |
| `FactApply` | `apply_fact`, `file_for_fact` and `apply_note` of `fact_loader.c` | What one fact does to a map: its file is looked up or added, then its record is stored.  Operators without state, used by the read loop and by `Survey`. |
| `FactLoader` | `fact_loader.c` | One step per turn of the read loop: a fact, another line, an invalid line, an over-long line, end of stream or I/O error. |
| `NativeAnalysis` | `native_analysis.c` | The callback as one step; the scan, which may stop or fail anywhere, is the environment. |
| `Analysis` | what `runner.c` relies on | The abstract specification of either loader: facts are taken one by one, each leaving its record in the module of its file, or the analysis is refused as a whole.  No limits, module table or counters.  Both loaders implement it (`KeepsPromise`). |
| `Names` | `strings.c`, two helpers of `model_mutation.c` | Module names of paths and of include operands, over paths that are taken apart into directories, leading `p101_` marks, stem and suffixes. |
| `RelativePath` | `normalize_relative_path` | The loop of that function, one step per component, with the byte offsets that the unchecked copy relies on. |
| `Findings` | `model_query.c`, the rules of `report.c` | Queries and rules as operators on a map, and the order in which `write_findings` makes its checks. |
| `Survey` | the whole way from facts to findings | Facts are taken in any order by `FactApply`'s `ApplyFact`; the rules are compared with a second definition, over the set of facts. |
| `LayerFile` | `layer_allows_include`, the trimming of `strings.c` | One question about an include, one step per buffer, on the bytes of the file; any call may fail. |
| `Report` | `runner.c`, `write_report`, `write_findings`, `write_finding`, end of `main.c` | One run after its arguments are accepted, one step per check of a rule; extends `LayerFile`, which it asks for every local include.  Every call of the C library may fail. |
| `ByteNames` | `strings.c`, `local_include_to_module` | The helpers of `Names` again, on bytes and with the sizes of the buffers, over the paths that `RelativePath`, which it extends, reads. |
| `Tables` | the tables of `report.c`, the paths of its findings | What the report shows besides the findings, as values; extends `Survey`.  The lines under a heading and the edges of the graph are the entries of the map they show. |
| `Fuzz` | `fuzz/fuzz_parse.c`, and the choice of the executable | The harness, one process that parses input after input, beside the program of `Cli`, whose `ParseOption`, `ParseOperands` and `CheckArguments` it calls with a getopt that reads the words. |
| `Builds` | `change-compiler.sh`, `test.sh`, `coverage-report.sh`, `clean.sh` | One script at a time, step by step, any of which may fail or be broken off. |
| `Cli` | `cli.c`, `main.c` | Parsing, one step per option, then help, check, run and the final status.  `getopt` is the environment. |
| `StoreProofs`, `FactLoaderProofs`, `NativeAnalysisProofs`, `SurveyProofs`, `ReportProofs`, `CliProofs`, `BuildsProofs`, `RelativePathProofs` | | The theorems; see [Proofs](#proofs). |
| `MC...` | | Values of the constants for TLC. |

`FactLoader`, `NativeAnalysis`, `Findings`, `Survey` and `Report` all use the map of
`ProjectMap`; `Survey` extends and `MCReport` instantiates `FactApply`, so the maps they
work on are the ones the loader builds; `MCNativeAnalysis` and `ByteNames` instantiate
`Names`.  `Builds` stands apart: it is about the checkout and not about the program.

Conventions: an operator or action has the name of the C function it models,
without the prefix `p101_module_map_`; an operation that gives up at a condition has
that condition as the guard of its own branch; an operator whose comment begins
with "Mutant" is a plausible mistake in the definition after it, and is used by no
specification.

What is abstracted: line numbers, function and type names and resolved include
paths are left out of the records, since no rule reads them.  Paths, names, symbols
and declaration identities are model values; `StoredPath` is the cutting of a path
to `PATH_LEN` bytes, `LocalTarget` and `ModuleOfPath` are the functions of `Names`
where that matters; `ByteNames` checks that `Names` is what the bytes do.  The text of the
report is a sequence of tokens in `Report` and a set of tables in `Tables`.

## Runs

| run | what it shows |
|---|---|
| `fact_loader` | every stream of up to four buffers: the invariants of the map, `FrozenByError`, that the loops end, and that the loader implements `Analysis` |
| `native_analysis` | every scan of up to four records: the same for the callback |
| `survey` | every set of up to four of twenty facts, in every order, with all four combinations of library mode and layer file: what the twelve rules find and what the tables show |
| `report` | three projects, sixteen command lines, 171 layer files of up to two lines, every combination of failures of library calls |
| `cli` | the program: every command line of up to three options and up to five operands where two fit; the harness: every two inputs of up to three words in one process |
| `relative_path` | every path of up to five components, every way to divide it into the directory of a file and what the file includes |
| `builds` | every sequence of up to four scripts over two compilers and three trees, broken off anywhere |
| `long_path`, `split_layout`, `library_mode`, `stdout_report`, `missing_layers` | the five disagreements below, one each |

Properties worth knowing:

- `CountersMatchRecords`, `ModulesAreTheFiles`, `RecordsHaveFiles`, `FirstPaths`: the
  redundant parts of the map agree, in every order of facts and after every refused
  operation.
- `FrozenByError`: the error of an operation is seen one buffer later in the loader and
  at once in the callback; in neither does anything change in between.
- `KeepsPromise`: a load without error took every fact it was given, none twice and
  none into another module, whatever the limits; and a replay without error took one at
  least (`SuccessHasFacts`, proved and not checked in a run of its own).
- `FindingsOfFacts`: the report is about the project, not about the order of its facts.
  The rules read counters and copied names; the second definition in `Survey` counts
  facts.  It is the strongest property of the rules.
- `SplitPairsAccepted`, `LibraryOmitsOnly`, `StaticAdviceSafe`: rules agree with each other.
  The last one applies the advice of P101-MOD-006 to the map and asks that nothing new
  is reported.
- `TablesOfFacts`, `GraphAgrees`, `FindingsLocated`: the report says the same thing in
  several places, computed from different parts of the map by different functions.
- `StatusMatchesReport`, `FileReportArrives`, `NoFalseClaim`: status 0 or 1 is said only of a
  complete report (`WholeReport`: every finding of the map at its `Place`, which is the number of
  findings whose checks come before, with commas and count in JSON) that arrived in its file, and a report that breaks off neither lists
  a finding the map does not have nor says that there is none.
- `LayerAnswers`: what the loop over the layer file answers is compared with a second
  definition of what a line says; a failure never allows an include.
- `RunsAsAsked`, `MistakesAreTrouble`, `HelpWins`: the last value of an option counts, a
  mistake anywhere on the line is trouble, help wins over everything but a mistake.
- `FitsDestination`, `NormalForm`: the comment that justifies the unchecked copy is right.
- `CutOnlyAtTheEnd`, `IncludesAsNames`, `RelativeReaches`: cutting a name never makes two
  names one that differ before the cut, the modules that leave bytes out are right
  about the code, and a relative include leads to the module of the file the
  compiler includes.
- `Repeatable`: no input of the fuzzer is judged by what an earlier one left behind,
  although a mistake breaks off the parse in the middle of a word.
- `NeverHelped`: the harness parses no input that asks for help.  Its search for an `h` leaves
  out words that begin with two dashes, in which getopt does find one; the second dash is no
  option, and that mistake ends the parse before the `h` counts.
- `LastWasConfigured`, `TestsAsBuilt`, `CoverageSeesTests`: whatever fails or is broken off, a
  marker names a tree that was configured, tests are compiled as their main build was
  and with the compiler asked for or not run, and the coverage report is about the tests
  just run.
- `Consistent` of the live scan is the conjunction of the invariants that `fact_loader` checks
  one by one.

Bounds, and why they are enough:

- `fact_loader`: limits of 3 files, 2 modules, 2 includes and functions and 1 macro, type
  and call, with 4 buffers (`MaxLines`) over 20 facts of 5 files and 3 modules.  Every limit
  is reached with a buffer to spare, so the refusal and the turn after it are both
  seen.  The operations look at no more than one file, one module and one table, so
  a fifth buffer brings no new combination of branches.
- `native_analysis`: 2 files and 2 modules, 4 records (`MaxRecords`), the module names that
  `Names` computes for the four files and for their includes.
- `survey`: the limits are out of reach, because they are the subject of the loader's
  runs; 4 facts (`MaxFacts`) are enough for every rule with its exception: a rule relates a
  record with at most one include, one call or one declaration, besides the file of
  each, and thresholds are 2 functions and 1 public function.  P101-MOD-004 needs four
  functions in the module of `main`, which four facts are.  Among the twenty are facts that tell
  the columns of the tables apart.
- `report`: a clean project, one with findings of the include rules, one with findings of
  the rules before them; up to five findings, so that first, middle and last entries
  differ.  Failures are not bounded.  The layer files are made of nine lines (an edge,
  with blanks, with another order, as a comment, without an arrow, with two arrows,
  without a left name, blank, empty), with the last newline there or not; two lines are
  enough for a line that is passed over before or after the one that counts.  The line
  buffer is 10 bytes (`MaxLine`) and every line fits it.
- `cli`: two mistakes with an option between them, or one option given twice and
  another once (`MaxOptions`); `MAX_PATHS` is 2 instead of 64.  In the harness an argv of 4
  pointers (`FUZZ_MAX_ARGS`), so that inputs of two words fit and inputs of three are cut;
  two inputs (`MaxInputs`), since nothing but getopt lives on; `MaxWords` is more than the
  letters of two words.
- `relative_path`: five components (`MaxComponents`) of nine: nothing, `.`, `..`, names of one
  and of two bytes, since the code tells `..` from other names of two bytes, a library
  directory and its mark (one byte stands for `p101`), two marks with a suffix, and the
  `@` of a resolved include.  Buffers of every size up to 10 (`MaxName`), so that the
  directories, the slash, the base name and the suffix are each the place of the cut.
- `builds`: four scripts (`MaxCommands`): two builds and two passes of tests, the fewest in
  which a test tree is met again under another main build with other flags.  Two
  compilers, their two trees and the tree called `build`.

`CHECK_DEADLOCK FALSE` is set everywhere, because every one of these programs ends.

Fairness: `FactLoader` and `NativeAnalysis` have weak fairness of `Next`.  The code is one
thread that only waits for `fgets` or for libclang to return; weak fairness says that
they do.  `Ends` is claimed for the loader, where the end of the stream is bounded by
`MaxLines`: a stream that never ends is read forever, by the code as well.  `Report` has weak
fairness of `Next`, for the same reason, and ends, the loop over the layer file with it;
no single call is owed a failure or a success.  The other specifications are safety only.

## Proofs

TLAPS checks the following for all values of the constants that satisfy the named
assumptions of the modules: functions have the domains and ranges their C counterparts
have, limits are natural numbers, a path that was cut is not cut again, the empty
component is the only one of length 0.  A theorem that needs more states it as a
hypothesis; there are four of them, each explained below.

| property | theorem | hypotheses |
|---|---|---|
| `TypeOK`, `CountersMatchRecords`, `ModulesAreTheFiles`, `RecordsHaveFiles`, `DroppedCallsRefused`, `FirstPaths`, `FrozenByError` of the loader | `FactLoaderProofs` | |
| `FileListedOnce` and `KeepsPromise` of the loader | `FactLoaderProofs` | `FactPathsFit` |
| `Consistent`, `FrozenByError` of the callback | `NativeAnalysisProofs` | |
| `KeepsPromise` of the callback | `NativeAnalysisProofs` | `PathsFit` |
| `LibraryOmitsOnly`, `StaticAdviceSafe`, `GraphAgrees` | `SurveyProofs` | |
| `FindingsOfFacts`, `SplitPairsAccepted`, `TablesOfFacts`, `FindingsLocated` | `SurveyProofs` | `FactPathsFit`, `FactsAgree` |
| `FailedLoadTouchesNothing`, `FileReportArrives` | `ReportProofs` | |
| `LayerAnswers`, `StatusMatchesReport`, `NoFalseClaim` | `ReportProofs` | `PlainNames` |
| `RunsAsAsked`, `MistakesAreTrouble`, `HelpWins` of the program and of the harness; `Repeatable`, `NeverHelped` | `CliProofs` | |
| `LastWasConfigured`, `TestsAsBuilt`, `CoverageSeesTests` | `BuildsProofs` | |
| `TypeOK`, `FitsDestination`, `NormalForm` of the path loop | `RelativePathProofs` | |
| `CutOnlyAtTheEnd`, `IncludesAsNames`, `RelativeReaches` of the bytes | `RelativePathProofs` | |

The hypotheses:

- `FactPathsFit` (`PathsFit` for a scan): no path of the project is cut.  Without it the run
  `long_path` shows a file that is listed again with every fact.
- `FactsAgree`: facts about one file name one module and one language.  The code takes both
  from the first fact of a file and never looks again, so a stream that contradicts
  itself has a report that depends on the order of its lines.
- The four theorems that compare a report with the facts are about maps without an error
  (`map.err = "none" => ...`): a load that hits a limit is refused, and there is no report.
  TLC checks the properties themselves, with limits that no project of the run reaches.
- `PlainNames`: no module name begins with `#`, has blanks around it or an arrow in it.  Other
  names can be written into a layer file, but `layer_allows_include` takes them for a comment
  or divides them at the first arrow.  `MCReport` has it as an assumption, which TLC evaluates.

### The map

`StoreProofs` is about the operators of `ProjectMap` and `FactApply`.  Its invariant comes in
two layers.  `StoreInv` is types and limits, unique module names, `Homes` (whatever names a
module names one that is in the table) and matching counters.  `MapInv` adds that
the modules are exactly the groups of files (`ModulesAreFileGroups`) and that
each record belongs to a file and its module (`RecordsBelong`).  For each operation a lemma
says what it preserves, given a file of the map, and another what it stores.  Two points
need the strengthening:

- `Homes` says that the module of a file of the map is registered already, so an operation on
  records never makes a module; and that a module just made has no record yet, so its
  counters are right at 0.
- `CountersMatch` is kept by `Credit` only if the record that is appended is counted for
  exactly the credited counters of exactly one module, which needs unique names.

`FirstPathsKept` needs only that files are appended and that modules keep their order.

### The loaders

`FactLoaderProofs` and `NativeAnalysisProofs` carry `MapInv` through the read loop and through
the callback.  The invariant of the loop adds that no fact was counted that no line held,
no call was dropped without an error, and a load that ends without an error has counted
a fact; that of the scan adds that a scan that goes on has raised no error.

Both refinements of `Analysis` have the same shape.  A map with an error is mapped to the
refused analysis, whatever it holds; so a step is a `Take` if it applies a fact and raises
nothing, a `Refuse` if it raises the first error, a `Finish` if it ends a load without error
that has a file, and otherwise it is not seen.  `ApplyFactTakes` is the heart of it: what
one fact adds to owners and records is what `Take` adds.

`LoadFitsReport` and `ScanFitsReport` discharge what `Report` assumes of its maps.

### The findings and the tables

`SurveyProofs` relates the map to the set of facts by `Mirrors`: as long as no error was raised,
the files of the map are those of the facts, each once and with the module and language of its
facts, and each table holds the record of each fact of its kind exactly once (a
bijection, so that numbers of records are numbers of facts).  It is kept by every fact
(`ApplyFactMirrors`).  A lemma per query then says what it means of facts, a lemma per rule
that the rule finds a record exactly when `Expected` has the subject of its fact, and
`FindingsOfFacts` and `TablesOfFacts` follow.  `LibraryOmitsOnly`, `StaticAdviceSafe` and
`GraphAgrees` are about any map that satisfies `MapInv`, also one that an error left half-filled.

### The report

Four invariants of `ReportProofs`, each used by the next:

- `ControlInv`: the error object only ever goes from none to raised, and what the output and
  the status can be at each point given that.
- `OrderInv`: the checks that were made are before those that were not (`Before` is a total
  order on the finite set of checks), and a question being answered is that of the next one.
- `LayerInv`: every line of the layer file behind the position is another edge than the one
  asked about, and an answer is right.  Its step is the longest argument of the project: that
  `fgets` returns the next line when lines fit (`BufferIsLine`), and that what the code
  makes of a line with its three trims and one `strstr` says the edge exactly when the line
  is written as an edge (`DeclaredIsWritten`, `WrittenIsDeclared`).
- `TextInv`: the text so far tells the findings seen so far, each at its place, and count and
  flags agree with it.  A finding is told at the right place because the checks before
  it have all been made (`OrderInv`), and a finding of a layer is one because the answer was
  right (`LayerInv`).

### The command line and the harness

`CliProofs`: an error is raised exactly by a mistake, although it is looked at a turn later, and
until then the arguments are as given (`AsGiven`); so the invariant speaks of the error and
of the mistakes so far, not of the status.  For the harness `Repeatable` compares two parses
that may lie any number of inputs apart.  The invariant `TraceInv` says that every parse has a
trace, a sequence of states from `First` by `Turn`, which is a function of the words and of the
state before; two traces of the same words agree as far as both go, and neither goes
on after an end.  `NeverHelped` needs `HiddenInv`: while nothing was mistaken, what getopt has
left to read of a word holds no `h`.

### The scripts

`BuildsProofs`: whatever was broken off before, a script that runs knows its own tree
(`TestInv`): the test tree it works in belongs to the main build it was started for, has been
wiped if it was of another compiler, and has been configured before tests run in it.
`CoveredInv` says what a coverage report will find after the last tests.

### Relative paths

`RelativePathProofs` proves that the loop of `normalize_relative_path` stays within its
destination (`Fits`) for paths of any length.  `FitsDestination` is not inductive: when `..`
takes a component away, `used` goes back to the slash before it, and only
`Contiguous`, which says where each component starts, tells where that is.  Nor is the
bound on a copy: the slash it adds is paid for by the slash it has read only if
something was read before, which is `ReadSomething`.  `StaysNormal` then follows without
further strengthening.  `StaysContiguous` is proved and not checked in a run of its own.

### The bytes

The other half of `RelativePathProofs` is about `ByteNames`, for every alphabet, components of
any length, paths of any number of them and buffers of every size.  What it assumes of
the constants is that different components have different bytes, none of them a slash, and that
the byte that stands for `p101` is not one of those the code looks for.

- The computations over bytes (`Join`, `Split`, `NormalizeRelativePath`) are recursive functions.
  The library's induction takes a predicate as a parameter, which the provers cannot
  instantiate; so induction is over a set of numbers (`Induction`, from the least
  number principle `WFMin`), and that a function with the given steps exists and is the
  only one is proved the same way.  With it `Split` and `Join` are inverse to each other,
  for parts without the separator.
- `CutOnlyAtTheEnd`: a name is divided at its last slash, its marks and its last dot.  Where the last
  dot is, and that the first suffixes are what comes before it, is the argument about `Split`;
  that cutting the directories and the base name apart and appending them is cutting
  the whole is `CutConcat`, which holds only since the base name is cut to no less than
  what is left of the buffer.
- `IncludesAsNames` has an inductive part and one about values.  `KeepsAsNames` says that
  the steps of `RelativePath` keep the components that the loop of `Names` keeps.  It is not
  inductive by itself: the code asks whether `used` is 0 and `Names` whether anything is kept,
  and that the two agree is known only with `IInv` above.  That the
  loop over bytes keeps the bytes of the same components is shown for values, turn by turn, since
  the loop finds the last component by its slash and `Names` has it as an element.  The
  condition `FitsName` makes every cut of a buffer the identity, and `MarksResolved` says that
  no kept component brings an `@` to the front.
- `RelativeReaches` follows from it and from `LeadsTo`: the components kept of the directory
  and the operand are those of `Walk`, the file the compiler includes, as long as
  the walk does not leave the root.

### Only model-checked

- `Ends` of the loader and of the report: liveness under fairness, which is beyond these provers.
- The properties of the five runs that expect a violation.

Every other property of a run is a theorem.

## Where code and documents disagree

| run | code | document |
|---|---|---|
| `long_path` | a path of 1024 bytes or more is stored cut off and looked up whole (`model_mutation.c:189`): its facts are lost without an error | `test/test_more.c:301`: the second lookup returns the entry of the first |
| `split_layout` | the live scan names modules by the whole path (`native_analysis.c:205`) | `README.md:11`: "groups files into modules by basename" |
| `library_mode` | the size rules are left out in library mode (`report.c:402`, `408`, `426`) | `README.md:60`: "retains local structural checks" |
| `stdout_report` | `stdout` is not flushed before the status is returned (`runner.c:60`) | `README.md:94-95`: "Report was written" |
| `missing_layers` | a missing layer file is trouble (`report.c:157`) | `README.md:31`: "missing optional layer files are skipped or treated as non-fatal" |

The properties of these runs hold of the rest of the system: `FileListedOnce` is checked
in `fact_loader` for paths that fit, `FileReportArrives` is the counterpart of `ReportArrives`
for files.

One more has no run.  `README.md:61-64` leaves declarations of a module without a source out
"when a compile database is supplied"; `report.c:536` leaves them out in library mode
with or without one, so a replay with `-L`, which cannot be given one (`cli.c:196`), does
not report a declaration without a definition when it stands in a header without a source.
`LibraryKeepsLocalChecks` and `LibraryOmitsOnly` say nothing of the condition.

Some passing properties are stated with a condition, because without it the code does
otherwise than a reader would expect:

- `RelativeReaches` asks that the module's own name is spelled with names alone.
  `normalize_relative_path` drops the slash an absolute name begins with and a leading
  `./` (`model_mutation.c:26`), while the module itself keeps them: `./b.h` included by a
  file of module `/a/c` leads to `a/b`, which no module is called.  Compare
  `test/test_module_map.c:186`, a relative include "resolves from source module".
- It asks that the file is in no library directory, and so says nothing of what goes wrong
  there: `include_to_module` drops a first
  directory `p101` or `p101_...` from an include (`strings.c:78`) and `normalize_module_name`
  keeps it for the file, so `./foo.h` in `p101_x/main.c` leads to `foo`.
- It and `IncludesAsNames` ask that no directory begins with `@`, which would be taken for
  the mark of a resolved include once it has come to the front (`strings.c:68`).
- `LayerAnswers` asks that every line of the layer file fits the buffer: what `fgets` returns is taken for
  a line (`report.c:176`), unlike in the fact loader, so the end of a long comment may
  become an edge, although edges stand "one per line" (`README.md:79`).
- `CoverageSeesTests` asks that the tree is named for a compiler: after `-b build` the tests
  are in `test/build-<cc>` (`test.sh:154`) and `coverage-report.sh:63` looks in `test/build`.
- No property speaks of the tree that `.last-runtime-build-dir` names later on.  It keeps
  naming a tree that was configured again with sanitizers (`change-compiler.sh:203`;
  `CMakeLists.txt:604` then links against it), and `clean.sh:43` does not remove it, although
  `clean.sh:2` speaks of "ALL of this project's transient output".

Met while modelling, where no document says what is expected: `test.sh:203` passes linker
flags only if there are sanitizers, so a test tree keeps those of an earlier sanitized
build; `change-compiler.sh:203` takes only `P101_COVERAGE=1` for a coverage build, while
`CMakeLists.txt:484` takes any value but `0`, `off`, `false` and `no`, and `coverage.txt` besides.

## Not modelled

- Markdown, JSON escaping and the wording of messages: text that no property is about.
- A layer file that is replaced by another one during a run.
- Long paths in `IncludesAsNames` and `RelativeReaches`: a path that is cut before its `..` is
  resolved leads elsewhere, and nothing says where it should.  No property covers that hazard.
- The content of a line that is too long: that what the loader throws away ends at the
  newline is in `FactLoader` and in no property.
- A fact that is `NULL` or has no path (`fact_loader.c:46`), which would be passed over: in the
  model every fact of a stream has a path.  A call without a name (`model_mutation.c:400`)
  ends in the same error as one without an identity, and is that one in the model.
- The libraries of p101: `p101_error` keeps the last error raised; a writing function of
  `p101_c` writes even when an error is raised already; both are the environment here.
- In `Fuzz`, "too many paths" (an argv of 64 pointers holds 62 words, fewer than the 64
  operands that are stored) and empty values, which splitting at blanks cannot produce.
- In `Builds`: scripts that run at the same time, of which nothing in the repository
  speaks; the trees called `cmake-build-*`, which
  `change-compiler.sh:124` allows and which behave like the one called `build`; the flags that
  are probed for a compiler, the companion compiler, a checkout
  that was moved, and `.gcda` files.  CMake, ctest and gcovr are the environment.
- The other scripts, which read `.last-build-dir` once, and the tests.

## Plan

Done: all modules, runs and proofs above.  Left:

1. That `Report` and `Survey` are about one map is shown by what they share: `Report` takes any
   map that satisfies `MapsAssumption`, which `LoadFitsReport` and `ScanFitsReport` prove of the
   maps of the loaders, and `FindingsRight` holds of the maps of the facts.  A single
   specification of both, from the first fact to the exit status, is not written.
2. Scripts that run at the same time, should the repository ever say what they may do.
