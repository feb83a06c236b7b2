------------------------- MODULE NativeAnalysisProofs -------------------------
(***************************************************************************)
(* The safety of NativeAnalysis.tla for every scan, every limit and every  *)
(* set of paths, names and identities.                                     *)
(***************************************************************************)
EXTENDS NativeAnalysis, StoreProofs

\* The inductive invariant: the store is sound between two callbacks, and a scan
\* that goes on has raised no error.
Inv ==
  /\ MapInv(map)
  /\ FirstPathsKept(map) /\ TargetsAreModules(map)
  /\ phase \in {"prepare", "scan", "done"}
  /\ delivered \in 0..MaxRecords
  /\ phase # "done" => map.err = "none"

\* Every path of the scan fits PATH_LEN bytes: copy_string of model_mutation.c
\* cuts none.
PathsFit == \A r \in ScanRecords : r.path # NoPath => StoredPath[r.path] = r.path

-----------------------------------------------------------------------------
(* One record. *)

\* The file a record adds if its path is not known.
FileOfRecord(r) ==
  [path |-> StoredPath[r.path], module |-> ModuleOfPath[r.path], isHeader |-> r.isHeader]

\* A file that adding could not place is not known afterwards.
LEMMA FileForRecordOp ==
  ASSUME NEW m, MapInv(m), m.err = "none", NEW r \in ScanRecords, r.path # NoPath
  PROVE  LET n == FileForRecord(m, r) IN
         /\ MapInv(n) /\ n.table = m.table
         /\ n.err # "none" => n.files = m.files /\ ~Known(n, r.path)
         /\ n.err = "none" => IF Known(m, r.path) THEN n.files = m.files
                              ELSE n.files = Append(m.files, FileOfRecord(r))
         /\ FileOfRecord(r) \in File
         /\ FirstPathsKept(m) => FirstPathsKept(n)
<1>1. r.path \in Paths /\ ModuleOfPath[r.path] \in Names /\ r.isHeader \in BOOLEAN
  BY ScanRecordAssumption, ModuleOfPathAssumption
<1>2. FileOfRecord(r) \in File
  BY <1>1, StoredPathAssumption DEF FileOfRecord, File
<1>3. CASE Known(m, r.path)
  BY <1>2, <1>3 DEF FileForRecord
<1>4. CASE ~Known(m, r.path)
  <2>1. PICK n : n = FileForRecord(m, r)
    OBVIOUS
  <2>2. n = AddNamedSourceFile(m, r.path, ModuleOfPath[r.path], r.isHeader)
    BY <1>4, <2>1 DEF FileForRecord
  <2>3. FileOp(m, n)
    BY <1>1, <2>2, AddNamedSourceFileOp
  <2>4. FileStored(m, n, r.path, ModuleOfPath[r.path], r.isHeader)
    BY <1>1, <2>2, AddNamedSourceFileStored
  <2>5. n.err # "none" => n.files = m.files /\ ~Known(n, r.path)
    BY <1>4, <2>3 DEF FileOp, Known
  <2>6. QED BY <1>2, <1>4, <2>1, <2>3, <2>4, <2>5 DEF FileOp, FileStored, FileOfRecord
<1>5. QED BY <1>3, <1>4

LEMMA ApplyRecordKindOp ==
  ASSUME NEW m, MapInv(m), m.err = "none", NEW file, Placed(m, file), NEW r \in ScanRecords
  PROVE  RecordOp(m, ApplyRecordKind(m, file, r))
<1>1. CASE r.kind = "INCLUDE"
  BY <1>1, AddIncludeOp, ScanRecordAssumption DEF ApplyRecordKind
<1>2. CASE r.kind = "FUNCTION"
  BY <1>2, AddFunctionOp, ScanRecordAssumption DEF ApplyRecordKind
<1>3. CASE r.kind = "CALL"
  BY <1>3, AddCallOp, ScanRecordAssumption DEF ApplyRecordKind
<1>4. CASE r.kind \in {"TYPE", "ENUM"}
  BY <1>4, AddTypeOp DEF ApplyRecordKind
<1>5. CASE r.kind = "MACRO" /\ r.isDefinition
  BY <1>5, AddMacroOp, ScanRecordAssumption DEF ApplyRecordKind
<1>6. CASE /\ r.kind \notin {"INCLUDE", "FUNCTION", "CALL", "TYPE", "ENUM"}
           /\ ~(r.kind = "MACRO" /\ r.isDefinition)
  <2>1. RecordOp(m, m)
    BY DEF RecordOp
  <2>2. CASE r.kind # "NOTE"
    BY <1>6, <2>1, <2>2 DEF ApplyRecordKind
  <2>3. CASE r.kind = "NOTE"
    BY <2>1, <2>3, NoteErrorUseOp, NotesOp DEF ApplyRecordKind, ApplyRecordNote
  <2>4. QED BY <2>2, <2>3
<1>7. QED BY <1>1, <1>2, <1>3, <1>4, <1>5, <1>6

\* The record of a known file is stored, and nothing else.
LEMMA ApplyRecordKindStored ==
  ASSUME NEW m, MapInv(m), m.err = "none", NEW r \in ScanRecords, r.path # NoPath,
         NEW file, Placed(m, file), file.path = r.path,
         NEW o, o = [module |-> file.module, isHeader |-> file.isHeader]
  PROVE  LET n == ApplyRecordKind(m, file, r) IN
         /\ SameShown(m, n)
         /\ n.err = "none" =>
              SeenRecords(n) = RecordsWith(m, Promise!KindOf(r), Promise!RecordOf(r, o))
<1> DEFINE Goal(n) ==
      /\ SameShown(m, n)
      /\ n.err = "none" =>
           SeenRecords(n) = RecordsWith(m, Promise!KindOf(r), Promise!RecordOf(r, o))
<1>1. PICK n : n = ApplyRecordKind(m, file, r)
  OBVIOUS
<1>2. r.path # NoPath
  OBVIOUS
<1>3. ASSUME NEW kind \in Kinds, Promise!KindOf(r) = kind,
             Stored(m, n, kind, Promise!RecordOf(r, o))
      PROVE  Goal(n)
  <2>1. SameShown(m, n)
    BY <1>3 DEF Stored
  <2>2. n.err = "none" => SeenRecords(n) = RecordsWith(m, kind, Promise!RecordOf(r, o))
    BY <1>3, RecordsStored
  <2>3. QED BY <1>3, <2>1, <2>2
<1>4. ASSUME Promise!KindOf(r) = "none", Noted(m, n)
      PROVE  Goal(n)
  BY <1>4, RecordsNoted DEF Noted
<1>5. CASE r.kind = "INCLUDE"
  <2>1. Promise!KindOf(r) = "include"
    BY <1>2, <1>5 DEF Promise!KindOf
  <2>2. Stored(m, n, "include", Promise!RecordOf(r, o))
    BY <1>1, <1>5, <2>1, AddIncludeStored, ScanRecordAssumption DEF ApplyRecordKind, Promise!RecordOf
  <2>3. QED BY <1>1, <1>3, <2>1, <2>2 DEF Kinds
<1>6. CASE r.kind = "FUNCTION"
  <2>1. Promise!KindOf(r) = "function"
    BY <1>2, <1>6 DEF Promise!KindOf
  <2>2. Stored(m, n, "function", Promise!RecordOf(r, o))
    BY <1>1, <1>6, <2>1, AddFunctionStored, ScanRecordAssumption DEF ApplyRecordKind, Promise!RecordOf
  <2>3. QED BY <1>1, <1>3, <2>1, <2>2 DEF Kinds
<1>7. CASE r.kind = "CALL"
  <2>1. Promise!KindOf(r) = "call"
    BY <1>2, <1>7 DEF Promise!KindOf
  <2>2. Stored(m, n, "call", Promise!RecordOf(r, o))
    BY <1>1, <1>7, <2>1, AddCallStored, ScanRecordAssumption DEF ApplyRecordKind, Promise!RecordOf
  <2>3. QED BY <1>1, <1>3, <2>1, <2>2 DEF Kinds
<1>8. CASE r.kind \in {"TYPE", "ENUM"}
  <2>1. Promise!KindOf(r) = "type"
    BY <1>2, <1>8 DEF Promise!KindOf
  <2>2. Stored(m, n, "type", Promise!RecordOf(r, o))
    BY <1>1, <1>8, <2>1, AddTypeStored DEF ApplyRecordKind, Promise!RecordOf
  <2>3. QED BY <1>1, <1>3, <2>1, <2>2 DEF Kinds
<1>9. CASE r.kind = "MACRO" /\ r.isDefinition
  <2>1. Promise!KindOf(r) = "macro"
    BY <1>2, <1>9 DEF Promise!KindOf
  <2>2. Stored(m, n, "macro", Promise!RecordOf(r, o))
    BY <1>1, <1>9, <2>1, AddMacroStored DEF ApplyRecordKind, Promise!RecordOf
  <2>3. QED BY <1>1, <1>3, <2>1, <2>2 DEF Kinds
<1>10. CASE /\ r.kind \notin {"INCLUDE", "FUNCTION", "CALL", "TYPE", "ENUM"}
            /\ ~(r.kind = "MACRO" /\ r.isDefinition)
  <2>1. Promise!KindOf(r) = "none"
    BY <1>10 DEF Promise!KindOf
  <2>2. Noted(m, m)
    BY DEF Noted, SameShown, SameNames
  <2>3. Noted(m, n)
    <3>1. CASE r.kind # "NOTE"
      BY <1>1, <1>10, <2>2, <3>1 DEF ApplyRecordKind
    <3>2. CASE r.kind = "NOTE"
      BY <1>1, <2>2, <3>2, NoteNoted, NotesOp DEF ApplyRecordKind, ApplyRecordNote
    <3>3. QED BY <3>1, <3>2
  <2>4. QED BY <1>1, <1>4, <2>1, <2>3
<1>11. QED BY <1>5, <1>6, <1>7, <1>8, <1>9, <1>10

\* What one callback does to a store without an error.
RecordApplied(m, n) ==
  /\ MapInv(n)
  /\ n.err # "none" => n.table = m.table
  /\ FirstPathsKept(m) => FirstPathsKept(n)
  /\ TargetsAreModules(m) => TargetsAreModules(n)

\* The record of an include of a file of the map.
LEMMA ScannedTarget ==
  ASSUME NEW m, MapInv(m), NEW file, Placed(m, file), NEW r \in ScanRecords,
         NEW o, o = [module |-> file.module, isHeader |-> file.isHeader],
         Promise!KindOf(r) = "include", Promise!RecordOf(r, o).isLocal
  PROVE  Promise!RecordOf(r, o).target \in Names
<1>1. r.kind = "INCLUDE"
  BY DEF Promise!KindOf
<1>2. r.target \in Targets
  BY <1>1, ScanRecordAssumption
<1>3. o.module \in Names
  BY DEF Placed, File
<1>4. /\ Promise!RecordOf(r, o).isLocal = r.isLocal
      /\ Promise!RecordOf(r, o).target
           = IF r.isLocal THEN LocalTarget[o.module, r.target] ELSE r.target
  BY DEF Promise!RecordOf
<1>5. QED BY <1>2, <1>3, <1>4, LocalTargetAssumption

LEMMA ApplyRecordOp ==
  ASSUME NEW m, MapInv(m), m.err = "none", NEW r \in ScanRecords
  PROVE  RecordApplied(m, ApplyRecord(m, r))
<1>1. CASE r.kind = "DIAGNOSTIC"
  <2>1. MapInv(Raise(m, "usage")) /\ Raise(m, "usage").table = m.table
    BY RaiseKeeps DEF Errors
  <2>2. FirstPathsKept(m) => FirstPathsKept(Raise(m, "usage"))
    BY SameShownRaise, SameShownFirstPaths
  <2>3. QED BY <1>1, <2>1, <2>2 DEF ApplyRecord, RecordApplied, TargetsAreModules
<1>2. CASE r.kind # "DIAGNOSTIC" /\ r.path = NoPath
  BY <1>2 DEF ApplyRecord, RecordApplied
<1>3. CASE r.kind # "DIAGNOSTIC" /\ r.path # NoPath
  <2>1. PICK n : n = FileForRecord(m, r)
    OBVIOUS
  <2>2. /\ MapInv(n) /\ n.table = m.table
        /\ n.err # "none" => ~Known(n, r.path)
        /\ FirstPathsKept(m) => FirstPathsKept(n)
    BY <1>3, <2>1, FileForRecordOp
  <2>3. PICK q : q = ApplyRecord(m, r)
    OBVIOUS
  <2>4. CASE Known(n, r.path)
    <3>1. PICK file : file = FindFile(n, r.path)
      OBVIOUS
    <3>2. n.files \in Seq(File) /\ n.err = "none"
      BY <2>2, <2>4 DEF MapInv, StoreInv, StoreType, Store
    <3>3. Placed(n, file) /\ file.path = r.path
      BY <2>2, <2>4, <3>1, <3>2, FindFilePlaced, FindFileFirst
    <3>4. q = ApplyRecordKind(n, file, r)
      BY <1>3, <2>1, <2>3, <2>4, <3>1 DEF ApplyRecord
    <3>5. RecordOp(n, q) /\ SameShown(n, q)
      BY <1>3, <2>2, <3>2, <3>3, <3>4, ApplyRecordKindOp, ApplyRecordKindStored
    <3>6. FirstPathsKept(n) => FirstPathsKept(q)
      BY <3>5, SameShownFirstPaths
    <3>7. TargetsAreModules(n) => TargetsAreModules(q)
      <4>1. PICK o : o = [module |-> file.module, isHeader |-> file.isHeader]
        OBVIOUS
      <4>2. q.err = "none" =>
              SeenRecords(q) = RecordsWith(n, Promise!KindOf(r), Promise!RecordOf(r, o))
        BY <1>3, <2>2, <3>2, <3>3, <3>4, <4>1, ApplyRecordKindStored
      <4>3. MapInv(q) /\ (q.err # "none" => q.table = n.table)
        BY <3>2, <3>5 DEF RecordOp
      <4>4. Promise!KindOf(r) = "include" =>
              (Promise!RecordOf(r, o).isLocal => Promise!RecordOf(r, o).target \in Names)
        BY <2>2, <3>3, <4>1, ScannedTarget
      <4>5. QED BY <2>2, <3>2, <4>2, <4>3, <4>4, StoredTargets
    <3>8. TargetsAreModules(m) => TargetsAreModules(n)
      BY <2>2 DEF TargetsAreModules
    <3>9. QED BY <2>2, <2>3, <3>2, <3>5, <3>6, <3>7, <3>8 DEF RecordOp, RecordApplied
  <2>5. CASE ~Known(n, r.path)
    BY <1>3, <2>1, <2>2, <2>5 DEF ApplyRecord, RecordApplied, TargetsAreModules
  <2>6. QED BY <2>4, <2>5
<1>4. QED BY <1>1, <1>2, <1>3

\* A record of a file is taken as Analysis.tla promises, if no error is raised.
LEMMA ApplyRecordTakes ==
  ASSUME PathsFit, NEW m, MapInv(m), m.err = "none",
         NEW r \in ScanRecords, r.path # NoPath,
         NEW q, q = ApplyRecord(m, r), q.err = "none"
  PROVE  /\ SeenOwners(q) = OwnersWith(m, r.path, ModuleOfPath[r.path], r.isHeader)
         /\ SeenRecords(q) = RecordsWith(m, Promise!KindOf(r),
                                         Promise!RecordOf(r, SeenOwners(q)[r.path]))
<1>1. PICK n : n = FileForRecord(m, r)
  OBVIOUS
<1>2. PICK added : added = FileOfRecord(r)
  OBVIOUS
<1>3. /\ added \in File
      /\ added = [path |-> r.path, module |-> ModuleOfPath[r.path], isHeader |-> r.isHeader]
      /\ MapInv(n) /\ n.table = m.table
      /\ n.err # "none" => ~Known(n, r.path)
      /\ n.err = "none" => IF Known(m, r.path) THEN n.files = m.files
                           ELSE n.files = Append(m.files, added)
  BY <1>1, <1>2, FileForRecordOp DEF FileOfRecord, PathsFit
<1>4. r.kind # "DIAGNOSTIC"
  <2>1. Raise(m, "usage").err = "usage"
    BY RaiseKeeps DEF Errors
  <2>2. QED BY <2>1 DEF ApplyRecord
<1>5. m.files \in Seq(File) /\ n.files \in Seq(File)
  BY <1>3 DEF MapInv, StoreInv, StoreType, Store
<1>6. n.err = "none"
  <2>1. CASE Known(n, r.path)
    BY <1>3, <2>1
  <2>2. CASE ~Known(n, r.path)
    BY <1>1, <1>4, <2>2 DEF ApplyRecord
  <2>3. QED BY <2>1, <2>2
<1>7. Known(n, r.path)
  <2>1. added.path = r.path
    BY <1>3
  <2>2. QED BY <1>3, <1>5, <1>6, <2>1, FindFileAppended, FindFileSame
<1>8. PICK file : file = FindFile(n, r.path)
  OBVIOUS
<1>9. Placed(n, file) /\ file.path = r.path
  BY <1>3, <1>5, <1>7, <1>8, FindFilePlaced, FindFileFirst
<1>10. q = ApplyRecordKind(n, file, r)
  BY <1>1, <1>4, <1>7, <1>8 DEF ApplyRecord
<1>11. PICK o : o = [module |-> file.module, isHeader |-> file.isHeader]
  OBVIOUS
<1>12. /\ SameShown(n, q)
       /\ SeenRecords(q) = RecordsWith(n, Promise!KindOf(r), Promise!RecordOf(r, o))
  BY <1>3, <1>6, <1>9, <1>10, <1>11, ApplyRecordKindStored
<1>13. SeenOwners(q) = SeenOwners(n) /\ q.files = n.files
  BY <1>6, <1>12, OwnersSame DEF SameShown
<1>14. SeenOwners(q)[r.path] = o
  <2>1. r.path \in SeenFiles(n)
    BY <1>6, <1>7 DEF SeenFiles, Known
  <2>2. QED BY <1>8, <1>11, <1>13, <2>1 DEF SeenOwners
<1>15. SeenOwners(n) = OwnersWith(m, r.path, ModuleOfPath[r.path], r.isHeader)
  BY <1>3, <1>5, <1>6, OwnersLearned
<1>16. SeenRecords(n) = SeenRecords(m)
  BY <1>3, <1>6 DEF SeenRecords
<1>17. RecordsWith(n, Promise!KindOf(r), Promise!RecordOf(r, o)) =
         RecordsWith(m, Promise!KindOf(r), Promise!RecordOf(r, o))
  BY <1>16 DEF RecordsWith
<1>18. QED BY <1>12, <1>13, <1>14, <1>15, <1>17

-----------------------------------------------------------------------------
(* The scan. *)

LEMMA InvInit == Init => Inv
BY EmptyMapInv, EmptyMapShown, EmptyMapTargets, MaxRecordsAssumption DEF Init, Inv

\* An error of the scan itself, or of what comes before it.
LEMMA RaiseShown ==
  ASSUME Inv, map' = Raise(map, "system")
  PROVE  /\ MapInv(map') /\ FirstPathsKept(map') /\ TargetsAreModules(map')
         /\ map'.table = map.table /\ map'.err = "system"
<1>1. MapInv(map) /\ FirstPathsKept(map) /\ TargetsAreModules(map)
  BY DEF Inv
<1>2. PICK r : r = Raise(map, "system")
  OBVIOUS
<1>3. MapInv(r) /\ r.table = map.table /\ r.err = "system"
  BY <1>1, <1>2, RaiseKeeps DEF Errors
<1>4. FirstPathsKept(r)
  BY <1>1, <1>2, SameShownRaise, SameShownFirstPaths
<1>5. TargetsAreModules(r)
  BY <1>1, <1>3 DEF TargetsAreModules
<1>6. QED BY <1>2, <1>3, <1>4, <1>5

LEMMA InvNext == Inv /\ [Next]_vars => Inv'
<1> SUFFICES ASSUME Inv, [Next]_vars PROVE Inv'
  OBVIOUS
<1>1. /\ MapInv(map) /\ FirstPathsKept(map) /\ TargetsAreModules(map) /\ delivered \in Nat /\ MaxRecords \in Nat
      /\ delivered <= MaxRecords
  BY MaxRecordsAssumption DEF Inv
<1>2. CASE Prepare
  BY <1>1, <1>2, RaiseShown DEF Prepare, Inv
<1>3. CASE Deliver
  <2>1. PICK r \in ScanRecords : map' = ApplyRecord(map, r)
    BY <1>3 DEF Deliver
  <2>2. map.err = "none"
    BY <1>3 DEF Deliver, Inv
  <2>3. MapInv(map') /\ FirstPathsKept(map') /\ TargetsAreModules(map')
    BY <1>1, <2>1, <2>2, ApplyRecordOp DEF RecordApplied
  <2>4. delivered' \in 0..MaxRecords
    BY <1>1, <1>3 DEF Deliver
  <2>5. phase' \in {"scan", "done"} /\ (phase' # "done" => map'.err = "none")
    BY <1>3 DEF Deliver, KeepGoing
  <2>6. QED BY <2>3, <2>4, <2>5 DEF Inv
<1>4. CASE EndScan
  BY <1>1, <1>4, RaiseShown DEF EndScan, Inv
<1>5. CASE UNCHANGED vars
  BY <1>5 DEF vars, Inv
<1>6. QED BY <1>2, <1>3, <1>4, <1>5 DEF Next

\* Every state of a scan satisfies the inductive invariant.
THEOREM Invariant == Spec => []Inv
BY InvInit, InvNext, PTL DEF Spec

\* Between two callbacks the store is consistent: its types and limits, its
\* counters, its modules, its records and the paths its modules are shown with,
\* whatever the scan delivers in whatever order (apply_record).
THEOREM StoreConsistent == Spec => []Consistent
<1>1. Inv => Consistent
  BY DEF Inv, MapInv, StoreInv, Consistent, TypeOK, CountersMatchRecords, ModulesAreTheFiles
<1>2. QED BY <1>1, Invariant, PTL

\* A scan leaves a map as Report.tla asks of the maps it reports on (add_include).
THEOREM ScanFitsReport == Spec => [](StoreType(map) /\ TargetsAreModules(map))
<1>1. Inv => StoreType(map) /\ TargetsAreModules(map)
  BY DEF Inv, MapInv, StoreInv
<1>2. QED BY <1>1, Invariant, PTL

\* The callback that raises an error stores no record, and it is the last one
\* (keep_going, which apply_record returns to the scan).
THEOREM Frozen == Spec => FrozenByError
<1> DEFINE Step == /\ map'.err # "none" => map'.table = map.table
                   /\ map.err # "none" => UNCHANGED map
<1>1. ASSUME Inv, [Next]_vars PROVE Step
  <2>1. CASE Prepare
    BY <1>1, <2>1, RaiseShown DEF Prepare, Inv
  <2>2. CASE Deliver
    <3>1. PICK r \in ScanRecords : map' = ApplyRecord(map, r)
      BY <2>2 DEF Deliver
    <3>2. map.err = "none" /\ MapInv(map)
      BY <1>1, <2>2 DEF Deliver, Inv
    <3>3. QED BY <3>1, <3>2, ApplyRecordOp DEF RecordApplied
  <2>3. CASE EndScan
    BY <1>1, <2>3, RaiseShown DEF EndScan, Inv
  <2>4. CASE UNCHANGED vars
    BY <2>4 DEF vars
  <2>5. QED BY <1>1, <2>1, <2>2, <2>3, <2>4 DEF Next
<1>2. QED BY <1>1, Invariant, PTL DEF Spec, FrozenByError

-----------------------------------------------------------------------------
(* The promise of Analysis.tla. *)

LEMMA PromiseInit == Init => Promise!Init
<1> SUFFICES ASSUME Init PROVE Promise!Init
  OBVIOUS
<1>1. map = EmptyMap /\ map.err = "none" /\ phase = "prepare" /\ delivered = 0
  BY EmptyMapInv DEF Init
<1>2. SeenFiles(map) = {}
  BY <1>1 DEF SeenFiles, EmptyMap
<1>3. SeenOwners(map) = Promise!NoOwner
  BY <1>2 DEF SeenOwners, Promise!NoOwner
<1>4. SeenRecords(map) = Promise!NoRecords
  BY <1>1 DEF SeenRecords, EmptyMap, Promise!NoRecords, Promise!Kinds, Kinds
<1>5. SeenCount(map, delivered) = 0 /\ SeenOutcome(map, phase = "done") = "loading"
  BY <1>1 DEF SeenCount, SeenOutcome
<1>6. QED BY <1>3, <1>4, <1>5 DEF Promise!Init

\* A step that raises an error refuses the scan.
LEMMA Refused ==
  ASSUME map.err = "none", phase # "done", map'.err # "none"
  PROVE  Promise!Refuse
<1>1. SeenFiles(map)' = {}
  BY DEF SeenFiles
<1>2. SeenOwners(map)' = Promise!NoOwner
  BY <1>1 DEF SeenOwners, Promise!NoOwner
<1>3. SeenRecords(map)' = Promise!NoRecords
  BY DEF SeenRecords, Promise!NoRecords, Promise!Kinds, Kinds
<1>4. /\ SeenCount(map, delivered)' = 0
      /\ SeenOutcome(map, phase = "done") = "loading"
      /\ SeenOutcome(map, phase = "done")' = "refused"
  BY DEF SeenCount, SeenOutcome
<1>5. QED BY <1>2, <1>3, <1>4 DEF Promise!Refuse

LEMMA SeenUnchanged ==
  ASSUME UNCHANGED map
  PROVE  UNCHANGED <<SeenOwners(map), SeenRecords(map)>>
BY DEF SeenOwners, SeenFiles, SeenRecords, FindFile

\* A record of no file leaves nothing, and is taken.
LEMMA PassedOver ==
  ASSUME NEW m, m.err = "none", NEW r, r.path = NoPath, NEW record
  PROVE  /\ SeenOwners(m) =
              [p \in DOMAIN SeenOwners(m) \cup ({r.path} \ {NoPath}) |->
                 IF p \in DOMAIN SeenOwners(m) THEN SeenOwners(m)[p]
                 ELSE [module |-> ModuleOfPath[r.path], isHeader |-> r.isHeader]]
         /\ Promise!KindOf(r) = "none"
         /\ SeenRecords(m) = RecordsWith(m, "none", record)
<1>1. DOMAIN SeenOwners(m) \cup ({r.path} \ {NoPath}) = SeenFiles(m)
  BY DEF SeenOwners
<1>2. Noted(m, m)
  BY DEF Noted, SameShown, SameNames
<1>3. QED BY <1>1, <1>2, RecordsNoted DEF SeenOwners, Promise!KindOf

\* A record is taken as the promise says, or refuses the scan.
LEMMA Taken ==
  ASSUME PathsFit, Inv, Deliver, map'.err = "none"
  PROVE  \E r \in ScanRecords : Promise!Take(r)
<1>1. PICK r \in ScanRecords : map' = ApplyRecord(map, r)
  BY DEF Deliver
<1>2. /\ map.err = "none" /\ MapInv(map) /\ phase = "scan" /\ phase' = "scan"
      /\ delivered' = delivered + 1
  BY DEF Deliver, KeepGoing, Inv
<1>3. PICK q : q = map'
  OBVIOUS
<1>4. SeenOwners(map)' = SeenOwners(q) /\ SeenRecords(map)' = SeenRecords(q)
  BY <1>3 DEF SeenOwners, SeenFiles, SeenRecords, FindFile
<1>5. /\ SeenOwners(q) = [p \in DOMAIN SeenOwners(map) \cup ({r.path} \ {NoPath}) |->
                            IF p \in DOMAIN SeenOwners(map) THEN SeenOwners(map)[p]
                            ELSE [module |-> ModuleOfPath[r.path], isHeader |-> r.isHeader]]
      /\ SeenRecords(q) = RecordsWith(map, Promise!KindOf(r),
                                      Promise!RecordOf(r, SeenOwners(q)[r.path]))
  <2>1. CASE r.path = NoPath
    <3>1. r.kind # "DIAGNOSTIC"
      <4>1. Raise(map, "usage").err = "usage"
        BY <1>2, RaiseKeeps DEF Errors
      <4>2. QED BY <1>1, <4>1 DEF ApplyRecord
    <3>2. q = map
      BY <1>1, <1>3, <2>1, <3>1 DEF ApplyRecord
    <3>3. QED BY <1>2, <2>1, <3>2, PassedOver
  <2>2. CASE r.path # NoPath
    <3>1. q = ApplyRecord(map, r) /\ q.err = "none"
      BY <1>1, <1>3
    <3>2. /\ SeenOwners(q) = OwnersWith(map, r.path, ModuleOfPath[r.path], r.isHeader)
          /\ SeenRecords(q) = RecordsWith(map, Promise!KindOf(r),
                                          Promise!RecordOf(r, SeenOwners(q)[r.path]))
      BY <1>2, <2>2, <3>1, ApplyRecordTakes
    <3>3. /\ DOMAIN SeenOwners(map) = SeenFiles(map)
          /\ DOMAIN SeenOwners(map) \cup ({r.path} \ {NoPath}) = SeenFiles(map) \cup {r.path}
      BY <2>2 DEF SeenOwners
    <3>4. QED BY <3>2, <3>3 DEF OwnersWith
  <2>3. QED BY <2>1, <2>2
<1>6. SeenOwners(map)' = Promise!Learn(r)
  BY <1>4, <1>5 DEF Promise!Learn
<1>7. SeenRecords(map)' =
        [k \in Promise!Kinds |->
           IF k = Promise!KindOf(r)
           THEN Append(SeenRecords(map)[k], Promise!RecordOf(r, SeenOwners(map)'[r.path]))
           ELSE SeenRecords(map)[k]]
  BY <1>4, <1>5 DEF Kinds, Promise!Kinds, RecordsWith
<1>8. /\ SeenCount(map, delivered)' = SeenCount(map, delivered) + 1
      /\ SeenOutcome(map, phase = "done") = "loading"
      /\ SeenOutcome(map, phase = "done")' = "loading"
  BY <1>2 DEF SeenCount, SeenOutcome
<1>9. Promise!Take(r)
  BY <1>6, <1>7, <1>8 DEF Promise!Take
<1>10. QED BY <1>9

\* Every step of the scan is a step of the promise, or not seen.
LEMMA PromiseNext ==
  ASSUME PathsFit, Inv, [Next]_vars
  PROVE  [Promise!Next]_(Promise!vars)
<1>1. CASE Prepare
  <2>1. phase = "prepare" /\ map.err = "none"
    BY <1>1 DEF Prepare, Inv
  <2>2. CASE map' = Raise(map, "system")
    BY <2>1, <2>2, RaiseShown, Refused DEF Promise!Next
  <2>3. CASE UNCHANGED map /\ phase' = "scan"
    <3>1. /\ SeenCount(map, delivered)' = SeenCount(map, delivered)
          /\ SeenOutcome(map, phase = "done")' = SeenOutcome(map, phase = "done")
      BY <1>1, <2>1, <2>3 DEF Prepare, SeenCount, SeenOutcome
    <3>2. QED BY <2>3, <3>1, SeenUnchanged DEF Promise!vars
  <2>4. QED BY <1>1, <2>2, <2>3 DEF Prepare
<1>2. CASE Deliver
  <2>1. phase # "done" /\ map.err = "none"
    BY <1>2 DEF Deliver, Inv
  <2>2. QED BY <1>2, <2>1, Refused, Taken DEF Promise!Next
<1>3. CASE EndScan
  <2>1. /\ phase # "done" /\ map.err = "none" /\ phase' = "done"
        /\ delivered' = delivered /\ delivered >= 0
    BY <1>3, MaxRecordsAssumption DEF EndScan, Inv
  <2>2. CASE map' = Raise(map, "system")
    BY <2>1, <2>2, RaiseShown, Refused DEF Promise!Next
  <2>3. CASE UNCHANGED map
    <3>1. /\ SeenCount(map, delivered)' = SeenCount(map, delivered)
          /\ SeenCount(map, delivered) >= 0
          /\ SeenOutcome(map, phase = "done") = "loading"
          /\ SeenOutcome(map, phase = "done")' = "complete"
      BY <2>1, <2>3 DEF SeenCount, SeenOutcome
    <3>2. Promise!Finish
      BY <2>3, <3>1, SeenUnchanged DEF Promise!Finish
    <3>3. QED BY <3>2 DEF Promise!Next
  <2>4. QED BY <1>3, <2>2, <2>3 DEF EndScan
<1>4. CASE UNCHANGED vars
  <2>1. /\ SeenCount(map, delivered)' = SeenCount(map, delivered)
        /\ SeenOutcome(map, phase = "done")' = SeenOutcome(map, phase = "done")
    BY <1>4 DEF vars, SeenCount, SeenOutcome
  <2>2. QED BY <1>4, <2>1, SeenUnchanged DEF vars, Promise!vars
<1>5. QED BY <1>1, <1>2, <1>3, <1>4 DEF Next

\* The live scan implements the promise of Analysis.tla if no path is cut: every
\* record of a file is in the map, in the module of that file, in the order of the
\* scan, or the scan ends with an error (apply_record of native_analysis.c).
THEOREM ImplementsPromise ==
  ASSUME PathsFit
  PROVE  Spec => KeepsPromise
<1>1. Init => Promise!Init
  BY PromiseInit
<1>2. Inv /\ [Next]_vars => [Promise!Next]_(Promise!vars)
  BY PromiseNext
<1>3. QED BY <1>1, <1>2, Invariant, PTL DEF Spec, KeepsPromise, Promise!Spec
=============================================================================
