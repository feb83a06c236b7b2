-------------------------------- MODULE Builds --------------------------------
(***************************************************************************)
(* The build trees of a checkout and the two markers through which the     *)
(* scripts find them: change-compiler.sh configures a tree and publishes   *)
(* it, test.sh pairs a test tree with it, coverage-report.sh reads what    *)
(* the tests left there, clean.sh removes everything.                      *)
(*                                                                         *)
(* One script runs at a time, step by step; any of them may fail and the   *)
(* user may break a script off.  CMake is the environment: a configuration *)
(* that fails may leave a CMakeCache.txt, and in a tree that has one       *)
(* already it may keep to the compiler it finds there.                     *)
(***************************************************************************)
EXTENDS Naturals

CONSTANTS
  Compilers,    \* basenames of compilers
  Dirs,         \* what -b is given: s for build-s, Bare for build
  Bare,
  None,         \* no such file, or nothing asked for
  Empty,        \* a marker that was broken off before it was written
  MaxCommands   \* bound: scripts started

Flavours == {"plain", "sanitized", "coverage"}

ASSUME BuildsAssumption ==
  /\ None \notin Dirs \cup Compilers /\ Empty \notin Dirs \cup {None, Bare}
  /\ Bare \notin Compilers /\ MaxCommands \in Nat

AllDirs == Dirs \cup Compilers \cup {Bare}

VARIABLES
  tree,      \* dir -> what its CMakeCache.txt says, NoTree without one
  test,      \* the same for test/<dir>, the sanitizers of its compile flags and of
             \* its linker flags apart, and whether it holds .gcno files
  last,      \* .last-build-dir
  runtime,   \* .last-runtime-build-dir
  job,       \* the script that runs, and where it is
  ever,      \* dirs CMake has configured (history)
  covered,   \* where the last script has run tests for coverage, if it did (history)
  commands

vars == <<tree, test, last, runtime, job, ever, covered, commands>>

Idle == [step |-> "idle"]
NoTree == [cc |-> None, flavour |-> "plain"]
NoTest == [cc |-> None, sanitized |-> FALSE, linked |-> FALSE, gcno |-> FALSE]

Init ==
  /\ tree = [d \in AllDirs |-> NoTree] /\ test = [d \in AllDirs |-> NoTest]
  /\ last = None /\ runtime = None
  /\ job = Idle /\ ever = {} /\ covered = None /\ commands = 0

Begin(j) ==
  /\ job = Idle /\ commands < MaxCommands
  /\ job' = j /\ commands' = commands + 1 /\ covered' = None

Step(from, to) == job.step = from /\ job' = [job EXCEPT !.step = to]

Cached(marker) == marker \in AllDirs /\ tree[marker].cc # None

\* The compiler of a tree that CMake configures for cc.
CompilerKept(old, cc) == IF old = None THEN {cc} ELSE {cc, old}

-----------------------------------------------------------------------------
(* change-compiler.sh *)

ChangeCompiler ==
  /\ \E cc \in Compilers, d \in Dirs \cup Compilers, flavour \in Flavours, reuse \in BOOLEAN :
       Begin([step |-> "wipe", dir |-> d, cc |-> cc, flavour |-> flavour, reuse |-> reuse])
  /\ UNCHANGED <<tree, test, last, runtime, ever>>

\* Mutant: the marker is written before CMake has run.
WipePublish ==
  /\ Step("wipe", "configure")
  /\ tree' = IF job.reuse THEN tree ELSE [tree EXCEPT ![job.dir] = NoTree]
  /\ last' = job.dir
  /\ UNCHANGED <<test, runtime, ever, covered, commands>>

Wipe ==
  /\ Step("wipe", "configure")
  /\ tree' = IF job.reuse THEN tree ELSE [tree EXCEPT ![job.dir] = NoTree]
  /\ UNCHANGED <<test, last, runtime, ever, covered, commands>>

ConfiguredTree(cc) == [cc |-> cc, flavour |-> job.flavour]

Configure ==
  /\ job.step = "configure"
  /\ \E cc \in CompilerKept(tree[job.dir].cc, job.cc) :
       \/ /\ Step("configure", "publish")
          /\ tree' = [tree EXCEPT ![job.dir] = ConfiguredTree(cc)]
          /\ ever' = ever \cup {job.dir}
       \/ /\ job' = Idle /\ UNCHANGED ever
          /\ tree' \in {tree, [tree EXCEPT ![job.dir] = ConfiguredTree(cc)]}
  /\ UNCHANGED <<test, last, runtime, covered, commands>>

Publish ==
  /\ Step("publish", "runtime")
  /\ last' = job.dir
  /\ UNCHANGED <<tree, test, runtime, ever, covered, commands>>

IsRuntime == job.flavour = "plain"

PublishRuntime ==
  /\ job.step = "runtime" /\ job' = Idle
  /\ runtime' = IF IsRuntime THEN job.dir ELSE runtime
  /\ UNCHANGED <<tree, test, last, ever, covered, commands>>

-----------------------------------------------------------------------------
(* test.sh *)

\* Mutant: the tree of the marker is taken, whatever its compiler.
MainBuildsMarker(requested) ==
  {IF last # None THEN last ELSE IF runtime # None THEN runtime ELSE Bare}

\* The main build: for a compiler that is asked for the first of the markers that
\* has it, or else any build-s that has it.
MainBuilds(requested) ==
  LET Has(d) == Cached(d) /\ tree[d].cc = requested IN
  IF requested = None
  THEN {IF last # None THEN last ELSE IF runtime # None THEN runtime ELSE Bare}
  ELSE IF Has(last) THEN {last}
  ELSE IF Has(runtime) THEN {runtime}
  ELSE {d \in AllDirs \ {Bare} : Has(d)}

\* The test tree of a main build.
TestDir(main, cc) == IF main = Bare THEN cc ELSE main

Test ==
  /\ \E requested \in Compilers \cup {None}, coverage \in BOOLEAN :
       \E main \in MainBuilds(requested) :
         /\ Cached(main)
         /\ Begin([step |-> "testwipe", dir |-> TestDir(main, tree[main].cc), main |-> main,
                   cc |-> tree[main].cc, requested |-> requested, coverage |-> coverage])
  /\ UNCHANGED <<tree, test, last, runtime, ever>>

\* Mutant: a tree of another compiler is kept.
TestWipeCoverage ==
  /\ Step("testwipe", "testconfigure")
  /\ test' = IF job.coverage THEN [test EXCEPT ![job.dir] = NoTest] ELSE test
  /\ UNCHANGED <<tree, last, runtime, ever, covered, commands>>

TestWipe ==
  /\ Step("testwipe", "testconfigure")
  /\ test' = IF job.coverage \/ test[job.dir].cc \notin {None, job.cc}
             THEN [test EXCEPT ![job.dir] = NoTest] ELSE test
  /\ UNCHANGED <<tree, last, runtime, ever, covered, commands>>

\* Linker flags are given to CMake only if there are any, so a cache keeps its own.
ConfiguredTest(cc) ==
  LET sanitized == tree[job.main].flavour = "sanitized" /\ ~job.coverage IN
  [cc |-> cc, sanitized |-> sanitized,
   linked |-> sanitized \/ test[job.dir].linked, gcno |-> test[job.dir].gcno]

TestConfigure ==
  /\ job.step = "testconfigure"
  /\ \E cc \in CompilerKept(test[job.dir].cc, job.cc) :
       \/ /\ Step("testconfigure", "ctest")
          /\ test' = [test EXCEPT ![job.dir] = ConfiguredTest(cc)]
       \/ /\ job' = Idle
          /\ test' \in {test, [test EXCEPT ![job.dir] = ConfiguredTest(cc)]}
  /\ UNCHANGED <<tree, last, runtime, ever, covered, commands>>

\* The tests are built and run.
CTest ==
  /\ job.step = "ctest" /\ job' = Idle
  /\ test' = [test EXCEPT ![job.dir].gcno = @ \/ job.coverage]
  /\ covered' \in {covered, IF job.coverage /\ job.requested = None THEN job.dir ELSE None}
  /\ UNCHANGED <<tree, last, runtime, ever, commands>>

-----------------------------------------------------------------------------
(* coverage-report.sh and clean.sh *)

\* Mutant: the report looks for the tests of the compiler.
ReportDirsCompiler ==
  LET main == IF last # None THEN last ELSE Bare
      paired == IF Cached(main) THEN tree[main].cc ELSE Bare
  IN IF Cached(main) /\ test[paired].gcno THEN {paired} ELSE {}

\* The test trees that a report without a run is about.
ReportDirs ==
  LET main == IF last # None THEN last ELSE Bare IN
  IF Cached(main) /\ test[main].gcno THEN {main} ELSE {}

Clean == Begin([step |-> "trees"]) /\ UNCHANGED <<tree, test, last, runtime, ever>>

CleanTrees ==
  /\ Step("trees", "files")
  /\ tree' = [d \in AllDirs |-> NoTree] /\ test' = [d \in AllDirs |-> NoTest]
  /\ UNCHANGED <<last, runtime, ever, covered, commands>>

CleanFiles ==
  /\ job.step = "files" /\ job' = Idle
  /\ last' = None
  /\ UNCHANGED <<tree, test, runtime, ever, covered, commands>>

-----------------------------------------------------------------------------
(* Any script may be broken off. *)

\* What is removed goes file by file: the cache of a tree may be left or gone.
Gone(dirs) ==
  /\ \E d \in SUBSET dirs : tree' = [t \in AllDirs |-> IF t \in d THEN NoTree ELSE tree[t]]
  /\ UNCHANGED test

GoneTest(dirs) ==
  /\ \E d, g \in SUBSET dirs :
       test' = [t \in AllDirs |-> IF t \in d \cap g THEN NoTest
                                 ELSE IF t \in d THEN [NoTest EXCEPT !.gcno = test[t].gcno]
                                 ELSE [test[t] EXCEPT !.gcno = @ /\ t \notin g]]
  /\ UNCHANGED tree

\* A marker is emptied before it is written.
BreakOff ==
  /\ job # Idle /\ job' = Idle
  /\ CASE job.step = "wipe" -> Gone(IF job.reuse THEN {} ELSE {job.dir})
       [] job.step = "testwipe" -> GoneTest({job.dir})
       [] job.step = "trees" -> Gone(AllDirs) \/ GoneTest(AllDirs)
       [] OTHER -> UNCHANGED <<tree, test>>
  /\ last' \in {last} \cup IF job.step = "publish" THEN {Empty} ELSE {}
  /\ runtime' \in {runtime} \cup IF job.step = "runtime" /\ IsRuntime THEN {Empty} ELSE {}
  /\ UNCHANGED <<ever, covered, commands>>

Next ==
  \/ ChangeCompiler \/ Wipe \/ Configure \/ Publish \/ PublishRuntime
  \/ Test \/ TestWipe \/ TestConfigure \/ CTest
  \/ Clean \/ CleanTrees \/ CleanFiles \/ BreakOff

Spec == Init /\ [][Next]_vars

-----------------------------------------------------------------------------
(* Properties. *)

\* "Only publish a build directory after CMake configured it successfully"
\* (change-compiler.sh:198): whatever fails or is broken off, a marker names no
\* tree that never was configured.
LastWasConfigured == {last, runtime} \subseteq ever \cup {None, Empty}

\* Tests run as the main build they belong to was configured, in a tree that an
\* earlier build of the same name may have left for another compiler or with other
\* sanitizers: build-gcc may hold clang, and build and build-gcc share their tests
\* (test.sh:4-5 and 154-205).  Nothing more is claimed of the linker flags than that
\* sanitized objects can be linked: an old tree may keep them for plain objects.
RunAsBuilt ==
  /\ test[job.dir].cc = tree[job.main].cc
  /\ test[job.dir].sanitized = (tree[job.main].flavour = "sanitized" /\ ~job.coverage)
  /\ test[job.dir].sanitized => test[job.dir].linked

\* Tests that are asked for a compiler run with it or not at all, even when another
\* pass has moved the marker (test.sh:31-32).
RunAsRequested == job.requested # None => test[job.dir].cc = job.requested

TestsAsBuilt == job.step = "ctest" => RunAsBuilt /\ RunAsRequested

\* "./test.sh --coverage && ./coverage-report.sh -R shows what your Unity tests
\* exercised" (coverage-report.sh:5-6): the report is about the tree that these tests
\* have run in, as far as .last-build-dir names a build-<cc>; the tests of a build
\* in a directory called build are in a tree named for the compiler (test.sh:154),
\* where the report does not look (coverage-report.sh:63).
CoverageSeesTests ==
  covered # None /\ last \notin {None, Bare} => ReportDirs = {covered}
=============================================================================
