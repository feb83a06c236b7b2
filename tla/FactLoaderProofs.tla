--------------------------- MODULE FactLoaderProofs ---------------------------
(***************************************************************************)
(* The safety of FactLoader.tla for every stream, every limit and every    *)
(* set of paths, names and identities.                                     *)
(***************************************************************************)
EXTENDS FactLoader, StoreProofs

\* The inductive invariant: the store is sound, and as long as no error was
\* raised no call was dropped and the facts left a file behind.
Inv ==
  /\ MapInv(map)
  /\ phase \in {"open", "read", "discard", "close", "done"}
  /\ lines \in 0..MaxLines
  /\ fact_count \in 0..lines
  /\ map.err = "none" => map.callsDropped = 0
  /\ map.err = "none" /\ fact_count > 0 => map.files # << >>
  /\ map.err = "none" /\ phase = "done" => fact_count > 0

-----------------------------------------------------------------------------
(* The loop. *)

LEMMA InvInit == Init => Inv
BY EmptyMapInv, MaxLinesAssumption DEF Init, Inv

LEMMA InvNext == Inv /\ [Next]_vars => Inv'
<1> SUFFICES ASSUME Inv, [Next]_vars PROVE Inv'
  OBVIOUS
<1>1. /\ MapInv(map) /\ lines \in Nat /\ fact_count \in Nat /\ map.err \in Errors
      /\ lines <= MaxLines /\ fact_count <= lines /\ MaxLines \in Nat
  BY MaxLinesAssumption DEF Inv, MapInv, StoreInv, StoreType, Store
<1> USE DEF Errors
<1>2. CASE Open
  BY <1>1, <1>2, RaiseKeeps DEF Open, Inv
<1>3. CASE ReadNothing
  BY <1>1, <1>3, RaiseKeeps DEF ReadNothing, Inv
<1>4. CASE ReadAfterError
  BY <1>1, <1>4 DEF ReadAfterError, FillBuffer, Inv
<1>5. CASE ReadFact
  <2>1. PICK f \in Facts : map' = ApplyFact(map, f)
    BY <1>5 DEF ReadFact
  <2>2. FactApplied(map, map')
    BY <1>1, <1>5, <2>1, ApplyFactOp DEF ReadFact, ReadLine
  <2>3. /\ map.err = "none" /\ phase' = phase /\ phase = "read"
        /\ fact_count' = fact_count + 1 /\ lines' = lines + 1 /\ lines < MaxLines
    BY <1>5 DEF ReadFact, ReadLine, FillBuffer
  <2>4. lines' \in 0..MaxLines /\ fact_count' \in 0..lines'
    BY <1>1, <2>3
  <2>5. QED BY <2>2, <2>3, <2>4 DEF Inv, FactApplied
<1>6. CASE ReadOther
  BY <1>1, <1>6 DEF ReadOther, ReadLine, FillBuffer, Inv
<1>7. CASE ReadInvalid
  BY <1>1, <1>7, RaiseKeeps DEF ReadInvalid, ReadLine, FillBuffer, Inv
<1>8. CASE ReadOverlong
  BY <1>1, <1>8 DEF ReadOverlong, ReadLine, FillBuffer, Inv
<1>9. CASE Discard
  <2>1. /\ fact_count' = fact_count /\ phase' \in {"discard", "read"} /\ phase = "discard"
        /\ lines' \in {lines, lines + 1} /\ lines' <= MaxLines
        /\ map' \in {map, Raise(map, "system")}
    BY <1>1, <1>9 DEF Discard, FillBuffer
  <2>2. lines' \in 0..MaxLines /\ fact_count' \in 0..lines'
    BY <1>1, <2>1
  <2>3. QED BY <1>1, <2>1, <2>2, RaiseKeeps DEF Inv
<1>10. CASE Close
  <2>1. PICK closeFails \in BOOLEAN : map' = Raise(map, CloseStatus(map, closeFails))
    BY <1>10 DEF Close
  <2>2. /\ CloseStatus(map, closeFails) \in Errors
        /\ CloseStatus(map, closeFails) = "none" => map.err = "none" /\ fact_count # 0
    BY <1>1 DEF CloseStatus
  <2>3. /\ MapInv(map') /\ map'.err = CloseStatus(map, closeFails) /\ map'.files = map.files
        /\ map'.callsDropped = map.callsDropped
    BY <1>1, <2>1, <2>2, RaiseKeeps
  <2>4. phase' = "done" /\ fact_count' = fact_count /\ lines' = lines
    BY <1>10 DEF Close
  <2>5. fact_count # 0 => fact_count > 0
    BY <1>1
  <2>6. QED BY <2>2, <2>3, <2>4, <2>5 DEF Inv
<1>11. CASE UNCHANGED vars
  BY <1>11 DEF vars, Inv
<1>12. QED BY <1>2, <1>3, <1>4, <1>5, <1>6, <1>7, <1>8, <1>9, <1>10, <1>11 DEF Next

\* Every state of a replay satisfies the inductive invariant.
THEOREM Invariant == Spec => []Inv
BY InvInit, InvNext, PTL DEF Spec

-----------------------------------------------------------------------------
(* What the invariant says of the program. *)

\* No table outgrows its array, whatever the stream holds and whatever the
\* limits are (the MAX_ checks of model_mutation.c).
THEOREM TypeCorrect == Spec => []TypeOK
<1>1. Inv => TypeOK
  BY MaxLinesAssumption DEF Inv, TypeOK, MapInv, StoreInv
<1>2. QED BY <1>1, Invariant, PTL

\* The counters of every module are the numbers of its records, in every
\* order of facts and after every refusal (add_function, add_include,
\* add_macro, add_type, add_named_source_file of model_mutation.c).
THEOREM CountersCorrect == Spec => []CountersMatchRecords
<1>1. Inv => CountersMatchRecords
  BY DEF Inv, MapInv, StoreInv, CountersMatchRecords
<1>2. QED BY <1>1, Invariant, PTL

\* The module table is the set of the files' modules, each once: get_module
\* creates a module only together with its first file.
THEOREM ModulesCorrect == Spec => []ModulesAreTheFiles
<1>1. Inv => ModulesAreTheFiles
  BY DEF Inv, MapInv, StoreInv, ModulesAreTheFiles
<1>2. QED BY <1>1, Invariant, PTL

\* Every record names a listed file and carries the module of that file.
THEOREM RecordsCorrect == Spec => []RecordsHaveFiles
<1>1. Inv => RecordsHaveFiles
  BY DEF Inv, MapInv, RecordsHaveFiles
<1>2. QED BY <1>1, Invariant, PTL

\* calls_dropped is not 0 only in a load that is refused.
THEOREM DroppedCalls == Spec => []DroppedCallsRefused
<1>1. Inv => DroppedCallsRefused
  BY DEF Inv, DroppedCallsRefused
<1>2. QED BY <1>1, Invariant, PTL

\* A load without error has applied a fact and lists a file.
THEOREM SuccessCorrect == Spec => []SuccessHasFacts
<1>1. Inv => SuccessHasFacts
  BY DEF Inv, SuccessHasFacts
<1>2. QED BY <1>1, Invariant, PTL

\* The operation that raises an error stores no record, and nothing is stored
\* after it (the test of err at the head of the loop of load_clang_facts).
THEOREM Frozen == Spec => FrozenByError
<1> DEFINE Step == /\ map'.err # "none" => map'.table = map.table
                   /\ map.err # "none" => /\ map'.files = map.files
                                          /\ map'.modules = map.modules
                                          /\ map'.err # "none"
<1>1. ASSUME Inv, [Next]_vars PROVE Step
  <2>1. MapInv(map) /\ map.err \in Errors
    BY <1>1 DEF Inv, MapInv, StoreInv, StoreType, Store
  <2> USE DEF Errors
  <2>2. CASE Open
    BY <2>1, <2>2, RaiseKeeps DEF Open
  <2>3. CASE ReadNothing
    BY <2>1, <2>3, RaiseKeeps DEF ReadNothing
  <2>4. CASE ReadAfterError \/ ReadOther \/ ReadOverlong \/ UNCHANGED vars
    BY <2>4 DEF ReadAfterError, ReadOther, ReadOverlong, vars
  <2>5. CASE ReadFact
    <3>1. PICK f \in Facts : map' = ApplyFact(map, f)
      BY <2>5 DEF ReadFact
    <3>2. map.err = "none"
      BY <2>5 DEF ReadFact, ReadLine
    <3>3. FactApplied(map, map')
      BY <2>1, <3>1, <3>2, ApplyFactOp
    <3>4. QED BY <3>2, <3>3 DEF FactApplied
  <2>6. CASE ReadInvalid
    BY <2>1, <2>6, RaiseKeeps DEF ReadInvalid
  <2>7. CASE Discard
    BY <2>1, <2>7, RaiseKeeps DEF Discard
  <2>8. CASE Close
    <3>1. PICK closeFails \in BOOLEAN : map' = Raise(map, CloseStatus(map, closeFails))
      BY <2>8 DEF Close
    <3>2. /\ CloseStatus(map, closeFails) \in Errors
          /\ map.err # "none" => CloseStatus(map, closeFails) = map.err
      BY <2>1 DEF CloseStatus
    <3>3. QED BY <2>1, <3>1, <3>2, RaiseKeeps
  <2>9. QED BY <1>1, <2>2, <2>3, <2>4, <2>5, <2>6, <2>7, <2>8 DEF Next
<1>2. QED BY <1>1, Invariant, PTL DEF Spec, FrozenByError

-----------------------------------------------------------------------------
(* The first paths, files listed once, and where includes lead. *)

\* What holds besides Inv.
Shown ==
  /\ FirstPathsKept(map)
  /\ FactPathsFit => PathsUnique(map)
  /\ TargetsAreModules(map)

LEMMA ShownInit == Init => Shown
BY EmptyMapShown, EmptyMapTargets DEF Init, Shown, PathsUnique, EmptyMap

LEMMA ShownNext == Inv /\ Shown /\ [Next]_vars => Shown'
<1> SUFFICES ASSUME Inv, Shown, [Next]_vars PROVE Shown'
  OBVIOUS
<1>1. MapInv(map) /\ map.err \in Errors
  BY DEF Inv, MapInv, StoreInv, StoreType, Store
<1>2. ASSUME NEW e \in Errors, map' = Raise(map, e) PROVE Shown'
  <2>1. map'.files = map.files /\ map'.modules = map.modules /\ map'.table = map.table
    BY <1>1, <1>2, RaiseKeeps
  <2>2. SameShown(map, map')
    BY <2>1 DEF SameShown, SameNames
  <2>3. QED BY <2>1, <2>2, SameShownFirstPaths DEF Shown, PathsUnique, TargetsAreModules
<1>3. CASE UNCHANGED map
  BY <1>3 DEF Shown
<1>4. CASE ReadFact
  <2>1. PICK f \in Facts : map' = ApplyFact(map, f)
    BY <1>4 DEF ReadFact
  <2>2. map.err = "none"
    BY <1>4 DEF ReadFact, ReadLine
  <2>3. /\ FirstPathsKept(map')
        /\ \/ map'.files = map.files
           \/ ~Known(map, f.path) /\ map'.files = Append(map.files, FileOfFact(f))
    BY <1>1, <2>1, <2>2, ApplyFactShown DEF Shown
  <2>4. ASSUME FactPathsFit PROVE PathsUnique(map')
    <3>1. map.files \in Seq(File)
      BY <1>1 DEF MapInv, StoreInv, StoreType, Store
    <3>2. FileOfFact(f) \in File
      BY <1>1, <2>2, FileForFactStored
    <3>3. FileOfFact(f).path = f.path
      BY <2>4, FactAssumption DEF FactPathsFit, FileOfFact
    <3>4. CASE map'.files = map.files
      BY <2>4, <3>4 DEF Shown, PathsUnique
    <3>5. CASE ~Known(map, f.path) /\ map'.files = Append(map.files, FileOfFact(f))
      BY <2>4, <3>1, <3>2, <3>3, <3>5, PathsUniqueAppended DEF Shown
    <3>6. QED BY <2>3, <3>4, <3>5
  <2>5. TargetsAreModules(map')
    BY <1>1, <2>1, <2>2, ApplyFactTargets DEF Shown
  <2>6. QED BY <2>3, <2>4, <2>5 DEF Shown
<1>5. CASE Open \/ ReadNothing \/ ReadInvalid \/ Discard \/ Close
  <2>1. CASE Close
    <3>1. PICK closeFails \in BOOLEAN : map' = Raise(map, CloseStatus(map, closeFails))
      BY <2>1 DEF Close
    <3>2. CloseStatus(map, closeFails) \in Errors
      BY <1>1 DEF CloseStatus, Errors
    <3>3. QED BY <1>2, <3>1, <3>2
  <2>2. CASE Open \/ ReadNothing \/ ReadInvalid \/ Discard
    BY <1>2, <1>3, <2>2 DEF Open, ReadNothing, ReadInvalid, Discard, Errors
  <2>3. QED BY <1>5, <2>1, <2>2
<1>6. CASE ReadAfterError \/ ReadOther \/ ReadOverlong \/ UNCHANGED vars
  BY <1>3, <1>6 DEF ReadAfterError, ReadOther, ReadOverlong, vars
<1>7. QED BY <1>4, <1>5, <1>6 DEF Next

LEMMA ShownInvariant == Spec => []Shown
BY ShownInit, ShownNext, Invariant, PTL DEF Spec

\* Every module is shown with the path of its first source and of its first
\* header, and with none of a kind it has no file of, after every prefix of every
\* stream (add_named_source_file of model_mutation.c sets each path once).
THEOREM FirstPathsCorrect == Spec => []FirstPaths
<1>1. Shown => FirstPaths
  BY DEF Shown, FirstPaths
<1>2. QED BY <1>1, ShownInvariant, PTL

\* If no path is cut, no path is listed twice: the lookup before every addition
\* (find_file in file_for_fact) finds what an earlier fact added.
THEOREM ListedOnce ==
  ASSUME FactPathsFit
  PROVE  Spec => []FileListedOnce
<1>1. Shown => FileListedOnce
  BY DEF Shown, FileListedOnce, PathsUnique
<1>2. QED BY <1>1, ShownInvariant, PTL

\* A load, at any moment, leaves a map as Report.tla asks of the maps it reports on:
\* within the limits, and with local includes that name modules (add_include).
THEOREM LoadFitsReport == Spec => [](StoreType(map) /\ TargetsAreModules(map))
<1>1. Inv /\ Shown => StoreType(map) /\ TargetsAreModules(map)
  BY DEF Inv, MapInv, StoreInv, Shown
<1>2. QED BY <1>1, Invariant, ShownInvariant, PTL

-----------------------------------------------------------------------------
(* The promise of Analysis.tla. *)

LEMMA PromiseInit == Init => Promise!Init
<1> SUFFICES ASSUME Init PROVE Promise!Init
  OBVIOUS
<1>1. map = EmptyMap /\ map.err = "none" /\ phase = "open" /\ fact_count = 0
  BY EmptyMapInv DEF Init
<1>2. SeenFiles(map) = {}
  BY <1>1 DEF SeenFiles, EmptyMap
<1>3. SeenOwners(map) = Promise!NoOwner
  BY <1>2 DEF SeenOwners, Promise!NoOwner
<1>4. SeenRecords(map) = Promise!NoRecords
  BY <1>1 DEF SeenRecords, EmptyMap, Promise!NoRecords, Promise!Kinds, Kinds
<1>5. SeenCount(map, fact_count) = 0 /\ SeenOutcome(map, phase = "done") = "loading"
  BY <1>1 DEF SeenCount, SeenOutcome
<1>6. QED BY <1>3, <1>4, <1>5 DEF Promise!Init

\* A step that raises the first error of a load refuses it.
LEMMA Refused ==
  ASSUME map.err = "none", phase # "done", map'.err # "none"
  PROVE  Promise!Refuse
<1>1. SeenFiles(map)' = {}
  BY DEF SeenFiles
<1>2. SeenOwners(map)' = Promise!NoOwner
  BY <1>1 DEF SeenOwners, Promise!NoOwner
<1>3. SeenRecords(map)' = Promise!NoRecords
  BY DEF SeenRecords, Promise!NoRecords, Promise!Kinds, Kinds
<1>4. /\ SeenCount(map, fact_count)' = 0
      /\ SeenOutcome(map, phase = "done") = "loading"
      /\ SeenOutcome(map, phase = "done")' = "refused"
  BY DEF SeenCount, SeenOutcome
<1>5. QED BY <1>2, <1>3, <1>4 DEF Promise!Refuse

\* A refused load stays empty.
LEMMA StaysRefused ==
  ASSUME map.err # "none", map'.err # "none"
  PROVE  UNCHANGED Promise!vars
<1>1. SeenFiles(map) = {} /\ SeenFiles(map)' = {}
  BY DEF SeenFiles
<1>2. SeenOwners(map)' = SeenOwners(map)
  BY <1>1 DEF SeenOwners
<1>3. SeenRecords(map)' = SeenRecords(map)
  BY DEF SeenRecords
<1>4. /\ SeenCount(map, fact_count)' = SeenCount(map, fact_count)
      /\ SeenOutcome(map, phase = "done")' = SeenOutcome(map, phase = "done")
  BY DEF SeenCount, SeenOutcome
<1>5. QED BY <1>2, <1>3, <1>4 DEF Promise!vars

\* A step that applies no fact and does not end the load is not seen.
LEMMA NotSeen ==
  ASSUME UNCHANGED <<map, fact_count>>, (phase = "done") <=> (phase' = "done")
  PROVE  UNCHANGED Promise!vars
<1>1. /\ SeenOwners(map)' = SeenOwners(map)
      /\ SeenRecords(map)' = SeenRecords(map)
  BY DEF SeenOwners, SeenFiles, SeenRecords, FindFile
<1>2. /\ SeenCount(map, fact_count)' = SeenCount(map, fact_count)
      /\ SeenOutcome(map, phase = "done")' = SeenOutcome(map, phase = "done")
  BY DEF SeenCount, SeenOutcome
<1>3. QED BY <1>1, <1>2 DEF Promise!vars

\* The promise and the loader mean the same records.
LEMMA PromisedRecord ==
  ASSUME NEW f \in Facts, NEW o
  PROVE  Promise!KindOf(f) = TableOf(f) /\ Promise!RecordOf(f, o) = RecordOf(f, o)
<1>1. f.path # NoPath
  BY FactAssumption, StoredPathAssumption
<1>2. Promise!KindOf(f) = TableOf(f)
  BY <1>1 DEF Promise!KindOf, TableOf
<1>3. QED BY <1>2 DEF Promise!RecordOf, RecordOf

\* A fact is taken as the promise says, or refuses the load.
LEMMA Taken ==
  ASSUME FactPathsFit, Inv, ReadFact, map'.err = "none"
  PROVE  \E f \in Facts : Promise!Take(f)
<1>1. PICK f \in Facts : map' = ApplyFact(map, f)
  BY DEF ReadFact
<1>2. /\ map.err = "none" /\ MapInv(map) /\ phase = "read" /\ phase' = "read"
      /\ fact_count' = fact_count + 1
  BY DEF ReadFact, ReadLine, Inv
<1>3. PICK r : r = map'
  OBVIOUS
<1>4. /\ SeenOwners(r) = OwnersWith(map, f.path, NormalizeModule[f.module], f.isHeader)
      /\ SeenRecords(r) = RecordsWith(map, Promise!KindOf(f),
                                      Promise!RecordOf(f, SeenOwners(r)[f.path]))
  BY <1>1, <1>2, <1>3, ApplyFactTakes, PromisedRecord
<1>5. SeenOwners(map)' = SeenOwners(r) /\ SeenRecords(map)' = SeenRecords(r)
  BY <1>3 DEF SeenOwners, SeenFiles, SeenRecords, FindFile
<1>6. SeenOwners(map)' = Promise!Learn(f)
  <2>1. f.path \in Paths /\ f.path # NoPath
    BY FactAssumption, StoredPathAssumption
  <2>2. DOMAIN SeenOwners(map) = SeenFiles(map)
    BY DEF SeenOwners
  <2>3. DOMAIN SeenOwners(map) \cup ({f.path} \ {NoPath}) = SeenFiles(map) \cup {f.path}
    BY <2>1, <2>2
  <2>4. QED BY <1>4, <1>5, <2>2, <2>3 DEF Promise!Learn, OwnersWith
<1>7. SeenRecords(map)' =
        [k \in Promise!Kinds |->
           IF k = Promise!KindOf(f)
           THEN Append(SeenRecords(map)[k], Promise!RecordOf(f, SeenOwners(map)'[f.path]))
           ELSE SeenRecords(map)[k]]
  BY <1>4, <1>5 DEF Kinds, Promise!Kinds, RecordsWith
<1>8. /\ SeenCount(map, fact_count)' = SeenCount(map, fact_count) + 1
      /\ SeenOutcome(map, phase = "done") = "loading"
      /\ SeenOutcome(map, phase = "done")' = "loading"
  BY <1>2 DEF SeenCount, SeenOutcome
<1>9. Promise!Take(f)
  BY <1>6, <1>7, <1>8 DEF Promise!Take
<1>10. QED BY <1>9

\* A load that ends without an error has taken a fact, as an analysis must.
LEMMA Finished ==
  ASSUME Inv, Close, map'.err = "none"
  PROVE  Promise!Finish
<1>1. PICK closeFails \in BOOLEAN : map' = Raise(map, CloseStatus(map, closeFails))
  BY DEF Close
<1>2. MapInv(map) /\ map.err \in Errors /\ fact_count \in Nat
  BY MaxLinesAssumption DEF Inv, MapInv, StoreInv, StoreType, Store
<1>3. CloseStatus(map, closeFails) \in Errors
  BY <1>2 DEF CloseStatus, Errors
<1>4. /\ map'.err = CloseStatus(map, closeFails)
      /\ map'.files = map.files /\ map'.table = map.table
  BY <1>1, <1>2, <1>3, RaiseKeeps
<1>5. map.err = "none" /\ fact_count >= 1
  BY <1>2, <1>4 DEF CloseStatus
<1>6. PICK r : r = map'
  OBVIOUS
<1>7. SeenOwners(r) = SeenOwners(map) /\ SeenRecords(r) = SeenRecords(map)
  <2>1. r.files = map.files /\ r.table = map.table /\ r.err = "none"
    BY <1>4, <1>6
  <2>2. SeenOwners(r) = SeenOwners(map)
    BY <1>5, <2>1, OwnersSame
  <2>3. SeenRecords(r) = SeenRecords(map)
    BY <1>5, <2>1 DEF SeenRecords
  <2>4. QED BY <2>2, <2>3
<1>8. SeenOwners(map)' = SeenOwners(map) /\ SeenRecords(map)' = SeenRecords(map)
  <2>1. SeenOwners(map)' = SeenOwners(r) /\ SeenRecords(map)' = SeenRecords(r)
    BY <1>6 DEF SeenOwners, SeenFiles, SeenRecords, FindFile
  <2>2. QED BY <1>7, <2>1
<1>9. /\ SeenCount(map, fact_count) = fact_count
      /\ SeenCount(map, fact_count)' = fact_count
      /\ SeenOutcome(map, phase = "done") = "loading"
      /\ SeenOutcome(map, phase = "done")' = "complete"
  BY <1>5 DEF Close, SeenCount, SeenOutcome
<1>10. QED BY <1>5, <1>8, <1>9 DEF Promise!Finish

\* Every turn of the loop is a step of the promise, or not seen.
LEMMA PromiseNext ==
  ASSUME FactPathsFit, Inv, [Next]_vars
  PROVE  [Promise!Next]_(Promise!vars)
<1>1. MapInv(map)
  BY DEF Inv
<1>2. ASSUME phase # "done", map'.err # "none" PROVE [Promise!Next]_(Promise!vars)
  BY <1>2, Refused, StaysRefused DEF Promise!Next
<1>3. ASSUME map.err # "none" => map'.err # "none", phase # "done",
             map'.err = "none" => UNCHANGED <<map, fact_count>> /\ phase' # "done"
      PROVE  [Promise!Next]_(Promise!vars)
  BY <1>2, <1>3, NotSeen
<1>4. CASE Open
  BY <1>1, <1>3, <1>4, RaiseKeeps DEF Open, Errors
<1>5. CASE ReadNothing
  BY <1>1, <1>3, <1>5, RaiseKeeps DEF ReadNothing, Errors
<1>6. CASE ReadAfterError \/ ReadOther \/ ReadOverlong
  BY <1>3, <1>6 DEF ReadAfterError, ReadOther, ReadOverlong, ReadLine
<1>7. CASE ReadFact
  <2>1. phase # "done"
    BY <1>7 DEF ReadFact, ReadLine
  <2>2. QED BY <1>2, <1>7, <2>1, Taken DEF Promise!Next
<1>8. CASE ReadInvalid
  BY <1>1, <1>2, <1>8, RaiseKeeps DEF ReadInvalid, ReadLine, Errors
<1>9. CASE Discard
  BY <1>1, <1>3, <1>9, RaiseKeeps DEF Discard, Errors
<1>10. CASE Close
  <2>1. phase # "done"
    BY <1>10 DEF Close
  <2>2. QED BY <1>2, <1>10, <2>1, Finished DEF Promise!Next
<1>11. CASE UNCHANGED vars
  BY <1>11, NotSeen DEF vars
<1>12. QED BY <1>4, <1>5, <1>6, <1>7, <1>8, <1>9, <1>10, <1>11 DEF Next

\* Replay implements the promise of Analysis.tla if no path is cut: every fact of
\* the stream leaves its record in the module of its file's first fact, once and
\* in order, or the load ends with an error (load_clang_facts, apply_fact).
THEOREM ImplementsPromise ==
  ASSUME FactPathsFit
  PROVE  Spec => KeepsPromise
<1>1. Init => Promise!Init
  BY PromiseInit
<1>2. Inv /\ [Next]_vars => [Promise!Next]_(Promise!vars)
  BY PromiseNext
<1>3. QED BY <1>1, <1>2, Invariant, PTL DEF Spec, KeepsPromise, Promise!Spec
=============================================================================
