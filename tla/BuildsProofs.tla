------------------------------ MODULE BuildsProofs ------------------------------
(***************************************************************************)
(* The build trees and their markers for any compilers and directories and *)
(* any sequence of scripts, each of which may fail or be broken off.       *)
(***************************************************************************)
EXTENDS Builds, TLAPS

Tree == [cc : Compilers \cup {None}, flavour : Flavours]
TestTree == [cc : Compilers \cup {None}, sanitized : BOOLEAN, linked : BOOLEAN, gcno : BOOLEAN]

\* The scripts, and where each of them can be.
ChangeJob == [step : {"wipe", "configure", "publish", "runtime"},
              dir : AllDirs, cc : Compilers, flavour : Flavours, reuse : BOOLEAN]
TestJob == [step : {"testwipe", "testconfigure", "ctest"}, dir : AllDirs, main : AllDirs,
            cc : Compilers, requested : Compilers \cup {None}, coverage : BOOLEAN]
CleanJob == [step : {"trees", "files"}]

Testing == job \in TestJob

TypeInv ==
  /\ tree \in [AllDirs -> Tree] /\ test \in [AllDirs -> TestTree]
  /\ job \in {Idle} \cup ChangeJob \cup TestJob \cup CleanJob

\* A tree is published only once it was configured.
PublishInv ==
  /\ job.step \in {"publish", "runtime"} => job.dir \in ever
  /\ LastWasConfigured

\* The build a test belongs to is the one it was started for: nothing changes it
\* while the test runs, and the test tree is made to fit it first.
TestInv ==
  Testing =>
    /\ job.cc = tree[job.main].cc
    /\ job.requested # None => job.cc = job.requested
    /\ job.requested = None /\ last # None => job.main = last
    /\ job.dir = TestDir(job.main, job.cc)
    /\ job.step = "testconfigure" => test[job.dir].cc \in {None, job.cc}
    /\ job.step = "ctest" =>
         /\ test[job.dir].cc = job.cc
         /\ test[job.dir].sanitized = (tree[job.main].flavour = "sanitized" /\ ~job.coverage)
         /\ test[job.dir].sanitized => test[job.dir].linked

\* The tree the last coverage run was in, as long as no script was started since.
CoveredInv ==
  covered # None =>
    /\ job = Idle
    /\ last \notin {None, Bare} => covered = last /\ Cached(last) /\ test[last].gcno

Inv == TypeInv /\ PublishInv /\ TestInv /\ CoveredInv

-----------------------------------------------------------------------------
(* One step of a script. *)

\* Where a script is tells which script it is.
LEMMA JobKinds ==
  ASSUME TypeInv
  PROVE  /\ job.step \in {"wipe", "configure", "publish", "runtime"} => job \in ChangeJob
         /\ job.step \in {"testwipe", "testconfigure", "ctest"} <=> Testing
         /\ job = Idle <=> job.step = "idle"
BY DEF TypeInv, Idle, ChangeJob, TestJob, CleanJob, Testing

\* A step of a script changes nothing of the script but where it is.
LEMMA StepChange ==
  ASSUME TypeInv, NEW from, from \in {"wipe", "configure", "publish"},
         NEW to, to \in {"configure", "publish", "runtime"}, Step(from, to)
  PROVE  /\ job \in ChangeJob /\ job' \in ChangeJob /\ job'.step = to /\ job'.dir = job.dir
         /\ ~Testing'
BY JobKinds DEF Step, ChangeJob, TestJob, Testing

LEMMA StepTest ==
  ASSUME TypeInv, NEW from, from \in {"testwipe", "testconfigure"},
         NEW to, to \in {"testconfigure", "ctest"}, Step(from, to)
  PROVE  /\ Testing /\ Testing' /\ job'.step = to /\ job'.dir = job.dir
         /\ job'.main = job.main /\ job'.cc = job.cc /\ job'.requested = job.requested
         /\ job'.coverage = job.coverage
BY JobKinds DEF Step, TestJob, Testing

\* A script that ends, or is broken off, leaves nothing to hold but the types and
\* what the markers name.
LEMMA EndInv ==
  ASSUME Inv, job' = Idle, tree' \in [AllDirs -> Tree], test' \in [AllDirs -> TestTree],
         {last, runtime}' \subseteq {last, runtime, None, Empty} \cup ever, ever \subseteq ever',
         covered' = None
  PROVE  Inv'
<1>1. job'.step = "idle" /\ ~Testing'
  BY DEF Idle, Testing, TestJob
<1>2. TypeInv'
  BY DEF TypeInv
<1>3. PublishInv'
  BY <1>1 DEF Inv, PublishInv, LastWasConfigured
<1>4. QED BY <1>1, <1>2, <1>3 DEF Inv, TestInv, CoveredInv

LEMMA InvInit == Init => Inv
<1> SUFFICES ASSUME Init PROVE Inv
  OBVIOUS
<1>1. job.step = "idle" /\ job = Idle /\ ~Testing
  BY DEF Init, Idle, Testing, TestJob
<1>2. NoTree \in Tree /\ NoTest \in TestTree
  BY DEF NoTree, NoTest, Tree, TestTree, Flavours
<1>3. TypeInv
  BY <1>1, <1>2 DEF Init, TypeInv
<1>4. QED BY <1>1, <1>3 DEF Init, Inv, PublishInv, TestInv, CoveredInv, LastWasConfigured

LEMMA StartInv == Inv /\ (ChangeCompiler \/ Clean) => Inv'
<1> SUFFICES ASSUME Inv, ChangeCompiler \/ Clean PROVE Inv'
  OBVIOUS
<1>1. /\ job' \in CleanJob \cup ChangeJob /\ job'.step \in {"trees", "wipe"}
      /\ covered' = None
      /\ UNCHANGED <<tree, test, last, runtime, ever>>
  BY DEF ChangeCompiler, Clean, Begin, CleanJob, ChangeJob, AllDirs
<1>2. ~Testing'
  BY <1>1 DEF Testing, TestJob
<1>3. TypeInv'
  BY <1>1 DEF Inv, TypeInv
<1>4. PublishInv' /\ TestInv' /\ CoveredInv'
  BY <1>1, <1>2 DEF Inv, PublishInv, TestInv, CoveredInv, LastWasConfigured
<1>5. QED BY <1>3, <1>4 DEF Inv

\* test.sh starts with a build of the compiler that was asked for, if one was.
LEMMA StartTestInv == Inv /\ Test => Inv'
<1> SUFFICES ASSUME Inv, Test PROVE Inv'
  OBVIOUS
<1>1. PICK requested \in Compilers \cup {None}, coverage \in BOOLEAN :
        \E main \in MainBuilds(requested) :
          /\ Cached(main)
          /\ Begin([step |-> "testwipe", dir |-> TestDir(main, tree[main].cc), main |-> main,
                    cc |-> tree[main].cc, requested |-> requested, coverage |-> coverage])
  BY DEF Test
<1>2. PICK main \in MainBuilds(requested) :
        /\ Cached(main)
        /\ Begin([step |-> "testwipe", dir |-> TestDir(main, tree[main].cc), main |-> main,
                  cc |-> tree[main].cc, requested |-> requested, coverage |-> coverage])
  BY <1>1
<1>3. /\ job' = [step |-> "testwipe", dir |-> TestDir(main, tree[main].cc), main |-> main,
                 cc |-> tree[main].cc, requested |-> requested, coverage |-> coverage]
      /\ covered' = None /\ UNCHANGED <<tree, test, last, runtime, ever>>
  BY <1>2 DEF Test, Begin
<1>4. main \in AllDirs /\ tree[main].cc \in Compilers
  BY <1>2 DEF Cached, Inv, TypeInv, Tree
<1>5. TestDir(main, tree[main].cc) \in AllDirs
  BY <1>4 DEF TestDir, AllDirs
<1>6. job' \in TestJob
  BY <1>3, <1>4, <1>5 DEF TestJob
<1>7. TypeInv'
  BY <1>3, <1>6 DEF Inv, TypeInv
<1>8. requested # None => tree[main].cc = requested
  BY <1>2 DEF MainBuilds
<1>9. requested = None /\ last # None => main = last
  BY <1>2 DEF MainBuilds
<1>10. TestInv'
  BY <1>3, <1>8, <1>9 DEF TestInv, TestDir
<1>11. PublishInv' /\ CoveredInv'
  BY <1>3 DEF Inv, PublishInv, CoveredInv, LastWasConfigured
<1>12. QED BY <1>7, <1>10, <1>11 DEF Inv

\* change-compiler.sh: it is not a test, and names a tree only after configuring it.
LEMMA ChangeInv == Inv /\ (Wipe \/ Configure \/ Publish \/ PublishRuntime) => Inv'
<1> SUFFICES ASSUME Inv, Wipe \/ Configure \/ Publish \/ PublishRuntime PROVE Inv'
  OBVIOUS
<1>1. TypeInv /\ job \in ChangeJob /\ job # Idle
  BY JobKinds DEF Inv, Wipe, Configure, Publish, PublishRuntime, Step, Idle, ChangeJob
<1>2. covered = None /\ covered' = None /\ test' = test
  BY <1>1 DEF Inv, CoveredInv, Wipe, Configure, Publish, PublishRuntime
<1>3. job.dir \in AllDirs /\ job.cc \in Compilers /\ job.flavour \in Flavours
  BY <1>1 DEF ChangeJob
<1>4. ASSUME NEW from, from \in {"wipe", "configure", "publish"},
             NEW to, to \in {"configure", "publish", "runtime"}, Step(from, to),
             tree' \in [AllDirs -> Tree], ever \subseteq ever', to # "configure" => job.dir \in ever',
             last' \in {last, job.dir}, last' # last => job.dir \in ever', runtime' = runtime
      PROVE  Inv'
  <2>1. /\ job' \in ChangeJob /\ job'.step = to /\ job'.dir = job.dir /\ ~Testing'
    BY <1>1, <1>4, StepChange
  <2>2. TypeInv'
    BY <1>1, <1>2, <1>4, <2>1 DEF TypeInv
  <2>3. PublishInv'
    BY <1>4, <2>1 DEF Inv, PublishInv, LastWasConfigured
  <2>4. QED BY <1>2, <2>1, <2>2, <2>3 DEF Inv, TestInv, CoveredInv
<1>5. CASE Wipe
  <2>1. tree' \in [AllDirs -> Tree]
    BY <1>1, <1>5 DEF Wipe, TypeInv, NoTree, Tree, Flavours
  <2>2. QED BY <1>4, <1>5, <2>1 DEF Wipe
<1>6. CASE Configure
  <2>1. PICK cc \in CompilerKept(tree[job.dir].cc, job.cc) :
          \/ /\ Step("configure", "publish")
             /\ tree' = [tree EXCEPT ![job.dir] = ConfiguredTree(cc)]
             /\ ever' = ever \cup {job.dir}
          \/ /\ job' = Idle /\ UNCHANGED ever
             /\ tree' \in {tree, [tree EXCEPT ![job.dir] = ConfiguredTree(cc)]}
    BY <1>6 DEF Configure
  <2>2. cc \in Compilers \cup {None}
    BY <1>1, <1>3, <2>1 DEF CompilerKept, TypeInv, Tree
  <2>3. ConfiguredTree(cc) \in Tree
    BY <1>3, <2>2 DEF ConfiguredTree, Tree
  <2>4. tree' \in [AllDirs -> Tree]
    BY <1>1, <2>1, <2>3 DEF TypeInv
  <2>5. last' = last /\ runtime' = runtime
    BY <1>6 DEF Configure
  <2>6. CASE Step("configure", "publish") /\ ever' = ever \cup {job.dir}
    BY <1>4, <2>4, <2>5, <2>6
  <2>7. CASE job' = Idle /\ UNCHANGED ever
    BY <1>1, <1>2, <2>4, <2>5, <2>7, EndInv DEF TypeInv
  <2>8. QED BY <2>1, <2>6, <2>7
<1>7. CASE Publish
  <2>1. job.dir \in ever /\ ever' = ever /\ tree' = tree
    BY <1>7 DEF Publish, Step, Inv, PublishInv
  <2>2. QED BY <1>1, <1>4, <1>7, <2>1 DEF Publish, TypeInv
<1>8. CASE PublishRuntime
  <2>1. /\ job.dir \in ever /\ ever' = ever /\ tree' = tree /\ job' = Idle /\ last' = last
        /\ runtime' \in {job.dir, runtime}
    BY <1>8 DEF PublishRuntime, Inv, PublishInv
  <2>2. QED BY <1>1, <1>2, <2>1, EndInv DEF TypeInv
<1>9. QED BY <1>5, <1>6, <1>7, <1>8

\* test.sh: what it removes and configures makes the test tree fit the main build.
LEMMA TestingInv == Inv /\ (TestWipe \/ TestConfigure \/ CTest) => Inv'
<1> SUFFICES ASSUME Inv, TestWipe \/ TestConfigure \/ CTest PROVE Inv'
  OBVIOUS
<1>1. TypeInv /\ Testing /\ job # Idle
  BY JobKinds DEF Inv, TestWipe, TestConfigure, CTest, Step, Idle
<1>2. /\ covered = None /\ UNCHANGED <<tree, last, runtime, ever>>
  BY <1>1 DEF Inv, CoveredInv, TestWipe, TestConfigure, CTest
<1>3. /\ job.dir \in AllDirs /\ job.main \in AllDirs /\ job.cc \in Compilers
      /\ job.coverage \in BOOLEAN
  BY <1>1 DEF Testing, TestJob
<1>4. /\ job.cc = tree[job.main].cc
      /\ job.requested # None => job.cc = job.requested
      /\ job.requested = None /\ last # None => job.main = last
      /\ job.dir = TestDir(job.main, job.cc)
  BY <1>1 DEF Inv, TestInv
<1>5. PublishInv /\ job.step \in {"testwipe", "testconfigure", "ctest"}
  BY <1>1 DEF Inv, Testing, TestJob
<1>6. CASE TestWipe
  <2>1. /\ Testing' /\ job'.step = "testconfigure" /\ job'.dir = job.dir
        /\ job'.main = job.main /\ job'.cc = job.cc /\ job'.requested = job.requested
        /\ job'.coverage = job.coverage
    BY <1>1, <1>6, StepTest DEF TestWipe
  <2>2. test' = IF job.coverage \/ test[job.dir].cc \notin {None, job.cc}
                THEN [test EXCEPT ![job.dir] = NoTest] ELSE test
    BY <1>6 DEF TestWipe
  <2>3. NoTest \in TestTree /\ NoTest.cc = None
    BY DEF NoTest, TestTree
  <2>4. test' \in [AllDirs -> TestTree] /\ test'[job.dir].cc \in {None, job.cc}
    BY <1>1, <1>3, <2>2, <2>3 DEF TypeInv
  <2>5. TypeInv'
    BY <1>1, <1>2, <2>1, <2>4 DEF TypeInv, Testing
  <2>6. TestInv'
    BY <1>2, <1>4, <2>1, <2>4 DEF TestInv, TestDir
  <2>7. PublishInv' /\ CoveredInv'
    BY <1>2, <1>5, <1>6, <2>1 DEF TestWipe, PublishInv, CoveredInv, LastWasConfigured
  <2>8. QED BY <2>5, <2>6, <2>7 DEF Inv
<1>7. CASE TestConfigure
  <2>1. PICK cc \in CompilerKept(test[job.dir].cc, job.cc) :
          \/ /\ Step("testconfigure", "ctest")
             /\ test' = [test EXCEPT ![job.dir] = ConfiguredTest(cc)]
          \/ /\ job' = Idle
             /\ test' \in {test, [test EXCEPT ![job.dir] = ConfiguredTest(cc)]}
    BY <1>7 DEF TestConfigure
  <2>2. cc = job.cc
    BY <1>1, <1>7, <2>1 DEF TestConfigure, Inv, TestInv, CompilerKept
  <2>3. PICK c : c = ConfiguredTest(cc)
    OBVIOUS
  <2>4. /\ c \in TestTree /\ c.cc = job.cc
        /\ c.sanitized = (tree[job.main].flavour = "sanitized" /\ ~job.coverage)
        /\ c.sanitized => c.linked
    <3>1. test[job.dir] \in TestTree
      BY <1>1, <1>3 DEF TypeInv
    <3>2. QED BY <1>3, <2>2, <2>3, <3>1 DEF ConfiguredTest, TestTree
  <2>5. test' \in [AllDirs -> TestTree]
    BY <1>1, <2>1, <2>3, <2>4 DEF TypeInv
  <2>6. covered' = None
    BY <1>2, <1>7 DEF TestConfigure
  <2>7. CASE Step("testconfigure", "ctest") /\ test' = [test EXCEPT ![job.dir] = c]
    <3>1. /\ Testing' /\ job'.step = "ctest" /\ job'.dir = job.dir
          /\ job'.main = job.main /\ job'.cc = job.cc /\ job'.requested = job.requested
          /\ job'.coverage = job.coverage
      BY <1>1, <2>7, StepTest
    <3>2. test'[job.dir] = c
      BY <1>1, <1>3, <2>7 DEF TypeInv
    <3>3. TypeInv'
      BY <1>1, <1>2, <2>5, <3>1 DEF TypeInv, Testing
    <3>4. TestInv'
      BY <1>2, <1>4, <2>4, <3>1, <3>2 DEF TestInv, TestDir
    <3>5. PublishInv' /\ CoveredInv'
      BY <1>2, <1>5, <2>6, <3>1 DEF PublishInv, CoveredInv, LastWasConfigured
    <3>6. QED BY <3>3, <3>4, <3>5 DEF Inv
  <2>8. CASE job' = Idle
    BY <1>1, <1>2, <2>5, <2>6, <2>8, EndInv DEF TypeInv
  <2>9. QED BY <2>1, <2>3, <2>7, <2>8
<1>8. CASE CTest
  <2>1. /\ job.step = "ctest" /\ job' = Idle /\ ~Testing'
        /\ test' = [test EXCEPT ![job.dir].gcno = @ \/ job.coverage]
        /\ covered' \in {covered, IF job.coverage /\ job.requested = None THEN job.dir ELSE None}
    BY <1>8 DEF CTest, Idle, Testing, TestJob
  <2>2. PICK old : old = test[job.dir] /\ old \in TestTree
    BY <1>1, <1>3 DEF TypeInv
  <2>3. PICK new : new = [old EXCEPT !.gcno = old.gcno \/ job.coverage]
    OBVIOUS
  <2>4. new \in TestTree /\ new.gcno = (old.gcno \/ job.coverage)
    BY <1>3, <2>2, <2>3 DEF TestTree
  <2>5. test' = [test EXCEPT ![job.dir] = new]
    BY <2>1, <2>2, <2>3
  <2>6. test' \in [AllDirs -> TestTree] /\ test'[job.dir] = new
    BY <1>1, <1>3, <2>4, <2>5 DEF TypeInv
  <2>7. TypeInv'
    BY <1>1, <1>2, <2>1, <2>6 DEF TypeInv
  <2>8. PublishInv'
    BY <1>2, <1>5, <2>1 DEF PublishInv, LastWasConfigured, Idle
  <2>9. CoveredInv'
    <3>1. SUFFICES ASSUME covered' # None
          PROVE  last \notin {None, Bare} =>
                   covered' = last /\ Cached(last) /\ test'[last].gcno
      BY <1>2, <2>1 DEF CoveredInv, Cached
    <3>2. job.coverage /\ job.requested = None /\ covered' = job.dir
      BY <1>2, <2>1, <3>1
    <3>3. SUFFICES ASSUME last \notin {None, Bare}
          PROVE  covered' = last /\ Cached(last) /\ test'[last].gcno
      OBVIOUS
    <3>4. job.main = last /\ job.dir = last
      BY <1>4, <3>2, <3>3 DEF TestDir
    <3>5. Cached(last)
      BY <1>3, <1>4, <3>4, BuildsAssumption DEF Cached
    <3>6. test'[last].gcno
      BY <2>4, <2>6, <3>2, <3>4
    <3>7. QED BY <3>2, <3>4, <3>5, <3>6
  <2>10. QED BY <2>1, <2>7, <2>8, <2>9 DEF Inv, TestInv
<1>9. QED BY <1>6, <1>7, <1>8

\* clean.sh
LEMMA CleanInv == Inv /\ (CleanTrees \/ CleanFiles) => Inv'
<1> SUFFICES ASSUME Inv, CleanTrees \/ CleanFiles PROVE Inv'
  OBVIOUS
<1>1. TypeInv /\ job # Idle
  BY DEF Inv, CleanTrees, CleanFiles, Step, Idle
<1>2. covered = None /\ covered' = None /\ runtime' = runtime /\ ever' = ever
  BY <1>1 DEF Inv, CoveredInv, CleanTrees, CleanFiles
<1>3. CASE CleanTrees
  <2>1. job.step = "trees" /\ job' = [job EXCEPT !.step = "files"] /\ last' = last
    BY <1>3 DEF CleanTrees, Step
  <2>2. job \in CleanJob
    BY <1>1, <2>1 DEF TypeInv, Idle, ChangeJob, TestJob
  <2>3. job' \in CleanJob /\ job'.step = "files" /\ ~Testing'
    BY <2>1, <2>2 DEF CleanJob, Testing, TestJob
  <2>4. tree' \in [AllDirs -> Tree] /\ test' \in [AllDirs -> TestTree]
    BY <1>3 DEF CleanTrees, NoTree, NoTest, Tree, TestTree, Flavours
  <2>5. TypeInv'
    BY <2>3, <2>4 DEF TypeInv
  <2>6. PublishInv' /\ TestInv' /\ CoveredInv'
    BY <1>2, <2>1, <2>3 DEF Inv, PublishInv, TestInv, CoveredInv, LastWasConfigured
  <2>7. QED BY <2>5, <2>6 DEF Inv
<1>4. CASE CleanFiles
  <2>1. job' = Idle /\ last' = None /\ tree' = tree /\ test' = test
    BY <1>4 DEF CleanFiles
  <2>2. QED BY <1>1, <1>2, <2>1, EndInv DEF TypeInv
<1>5. QED BY <1>3, <1>4

\* A script that is broken off may leave half of what it removed, and an empty marker.
LEMMA BreakInv == Inv /\ BreakOff => Inv'
<1> SUFFICES ASSUME Inv, BreakOff PROVE Inv'
  OBVIOUS
<1>1. TypeInv /\ job # Idle /\ job' = Idle
  BY DEF Inv, BreakOff
<1>2. covered' = None /\ ever' = ever
  BY <1>1 DEF Inv, CoveredInv, BreakOff
<1>3. {last, runtime}' \subseteq {last, runtime, None, Empty} \cup ever
  BY DEF BreakOff
<1>4. ASSUME NEW dirs, Gone(dirs)
      PROVE  tree' \in [AllDirs -> Tree] /\ test' \in [AllDirs -> TestTree]
  BY <1>1, <1>4 DEF Gone, TypeInv, NoTree, Tree, Flavours
<1>5. ASSUME NEW dirs, GoneTest(dirs)
      PROVE  tree' \in [AllDirs -> Tree] /\ test' \in [AllDirs -> TestTree]
  <2>1. PICK d \in SUBSET dirs, g \in SUBSET dirs :
          test' = [t \in AllDirs |-> IF t \in d \cap g THEN NoTest
                                    ELSE IF t \in d THEN [NoTest EXCEPT !.gcno = test[t].gcno]
                                    ELSE [test[t] EXCEPT !.gcno = @ /\ t \notin g]]
    BY <1>5 DEF GoneTest
  <2>2. tree' = tree
    BY <1>5 DEF GoneTest
  <2>3. ASSUME NEW t \in AllDirs
        PROVE  /\ NoTest \in TestTree
               /\ [NoTest EXCEPT !.gcno = test[t].gcno] \in TestTree
               /\ [test[t] EXCEPT !.gcno = test[t].gcno /\ t \notin g] \in TestTree
    <3>1. PICK old : old = test[t] /\ old \in TestTree
      BY <1>1 DEF TypeInv
    <3>2. QED BY <3>1 DEF NoTest, TestTree
  <2>4. QED BY <1>1, <2>1, <2>2, <2>3 DEF TypeInv
<1>6. tree' \in [AllDirs -> Tree] /\ test' \in [AllDirs -> TestTree]
  BY <1>1, <1>4, <1>5 DEF BreakOff, TypeInv
<1>7. QED BY <1>1, <1>2, <1>3, <1>6, EndInv

LEMMA InvNext == Inv /\ [Next]_vars => Inv'
<1>1. Inv /\ UNCHANGED vars => Inv'
  BY DEF vars, Inv, TypeInv, PublishInv, TestInv, CoveredInv, LastWasConfigured, Testing, TestDir,
         Cached
<1>2. QED BY <1>1, StartInv, StartTestInv, ChangeInv, TestingInv, CleanInv, BreakInv DEF Next

\* Every state of every sequence of scripts satisfies the inductive invariant.
THEOREM Invariant == Spec => []Inv
BY InvInit, InvNext, PTL DEF Spec

\* Whatever fails or is broken off, no marker names a tree that never was configured
\* (change-compiler.sh writes both after CMake has succeeded).
THEOREM MarkersConfigured == Spec => []LastWasConfigured
<1>1. Inv => LastWasConfigured
  BY DEF Inv, PublishInv
<1>2. QED BY <1>1, Invariant, PTL

\* Tests run with the compiler and the sanitizers of the main build they belong to,
\* and with the compiler that was asked for (p101_find_compiler_build and the test on the
\* cached compiler of test.sh).
THEOREM TestsFit == Spec => []TestsAsBuilt
<1>1. Inv => TestsAsBuilt
  <2>1. SUFFICES ASSUME Inv, job.step = "ctest" PROVE RunAsBuilt /\ RunAsRequested
    BY DEF TestsAsBuilt
  <2>2. Testing
    BY <2>1, JobKinds DEF Inv
  <2>3. QED BY <2>1, <2>2 DEF Inv, TestInv, RunAsBuilt, RunAsRequested
<1>2. QED BY <1>1, Invariant, PTL

\* A coverage report without a run of its own is about the tests that were run for
\* coverage just before, unless they belong to a build in a directory called build.
THEOREM CoverageFound == Spec => []CoverageSeesTests
<1>1. Inv => CoverageSeesTests
  BY DEF Inv, CoveredInv, CoverageSeesTests, ReportDirs
<1>2. QED BY <1>1, Invariant, PTL
=============================================================================
