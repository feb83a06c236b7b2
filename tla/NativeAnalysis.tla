---------------------------- MODULE NativeAnalysis ----------------------------
(***************************************************************************)
(* The live scan that fills the project map (src/src/native_analysis.c).   *)
(*                                                                         *)
(* p101_c_analysis_scan is the environment: it calls apply_record with one *)
(* record after the other, stops when the callback returns false and may   *)
(* fail by itself.  The callback is one step.                              *)
(***************************************************************************)
EXTENDS ProjectMap

CONSTANTS
  ModuleOfPath,   \* normalize_module_name on the path of a record
  ScanRecords,    \* records the scan can deliver
  MaxRecords      \* bound: records of one scan

ASSUME ModuleOfPathAssumption == ModuleOfPath \in [Paths -> Names]

ASSUME ScanRecordAssumption ==
  \A r \in ScanRecords :
    /\ r.kind \in {"FILE", "MUTATION", "DIAGNOSTIC", "INCLUDE", "FUNCTION", "CALL",
                   "TYPE", "ENUM", "ENUMERATOR", "MACRO", "NOTE"}
    /\ r.path \in Paths \cup {NoPath} /\ r.isHeader \in BOOLEAN
    /\ r.kind = "INCLUDE" =>
         /\ r.target \in Targets /\ r.isLocal \in BOOLEAN
    /\ r.kind = "FUNCTION" =>
         /\ r.usr \in Usrs \cup {BadUsr}
         /\ r.isStatic \in BOOLEAN /\ r.isDefinition \in BOOLEAN
    /\ r.kind = "CALL" => r.name \in Symbols /\ r.usr \in Usrs \cup {BadUsr}
    /\ r.kind = "MACRO" => r.name \in Symbols /\ r.isDefinition \in BOOLEAN
    /\ r.kind = "NOTE" => r.note \in {"ERROR_USE", "ERROR_CHECK", "OTHER"}

ASSUME MaxRecordsAssumption == MaxRecords \in Nat

VARIABLES
  map,        \* the project map, with the error object
  phase,      \* "prepare", "scan" or "done"
  delivered   \* records the scan has handed to the callback (history)

vars == <<map, phase, delivered>>

-----------------------------------------------------------------------------
(* One record. *)

FileForRecord(m, r) ==
  IF Known(m, r.path) THEN m
  ELSE AddNamedSourceFile(m, r.path, ModuleOfPath[r.path], r.isHeader)

ApplyRecordNote(m, file, r) ==
  CASE r.note = "ERROR_USE" -> NoteErrorUse(m, file)
    [] r.note = "ERROR_CHECK" -> NoteErrorCheck(NoteErrorUse(m, file), file)
    [] OTHER -> m

\* Mutant: the sense of is_definition is turned round.
ApplyRecordKindInverted(m, file, r) ==
  CASE r.kind = "INCLUDE" -> AddInclude(m, file, r.target, r.isLocal)
    [] r.kind = "FUNCTION" -> AddFunction(m, file, r.usr, r.isStatic, r.isDefinition)
    [] r.kind = "CALL" -> AddCall(m, file, r.name, r.usr)
    [] r.kind \in {"TYPE", "ENUM"} -> AddType(m, file)
    [] r.kind = "MACRO" /\ r.isDefinition -> AddMacro(m, file, r.name)
    [] r.kind = "NOTE" -> ApplyRecordNote(m, file, r)
    [] OTHER -> m

ApplyRecordKind(m, file, r) ==
  CASE r.kind = "INCLUDE" -> AddInclude(m, file, r.target, r.isLocal)
    [] r.kind = "FUNCTION" -> AddFunction(m, file, r.usr, r.isStatic, ~r.isDefinition)
    [] r.kind = "CALL" -> AddCall(m, file, r.name, r.usr)
    [] r.kind \in {"TYPE", "ENUM"} -> AddType(m, file)
    [] r.kind = "MACRO" /\ r.isDefinition -> AddMacro(m, file, r.name)
    [] r.kind = "NOTE" -> ApplyRecordNote(m, file, r)
    [] OTHER -> m

\* A diagnostic refuses the analysis before its file is even looked up; a record
\* without a path is passed over.
ApplyRecord(m, r) ==
  IF r.kind = "DIAGNOSTIC" THEN Raise(m, "usage")
  ELSE IF r.path = NoPath THEN m
  ELSE LET n == FileForRecord(m, r) IN
       IF Known(n, r.path) THEN ApplyRecordKind(n, FindFile(n, r.path), r) ELSE n

\* Mutant: the scan goes on after an error.
KeepGoingAlways(m) == TRUE

\* What the callback returns.
KeepGoing(m) == m.err = "none"

-----------------------------------------------------------------------------
(* The scan. *)

Init ==
  /\ map = EmptyMap
  /\ phase = "prepare"
  /\ delivered = 0

\* Choose the compile database and print the verbose line: either may fail.
Prepare ==
  /\ phase = "prepare"
  /\ \/ phase' = "scan" /\ UNCHANGED map
     \/ phase' = "done" /\ map' = Raise(map, "system")
  /\ UNCHANGED delivered

Deliver ==
  /\ phase = "scan" /\ delivered < MaxRecords
  /\ \E r \in ScanRecords : map' = ApplyRecord(map, r)
  /\ delivered' = delivered + 1
  /\ phase' = IF KeepGoing(map') THEN "scan" ELSE "done"

\* No record is left, or the scan gives up with an error of its own.
EndScan ==
  /\ phase = "scan"
  /\ phase' = "done"
  /\ map' \in {map, Raise(map, "system")}
  /\ UNCHANGED delivered

Next == Prepare \/ Deliver \/ EndScan

Spec == Init /\ [][Next]_vars /\ WF_vars(Next)

-----------------------------------------------------------------------------
(* Properties. *)

\* The types, and no table outgrows its array.
TypeOK ==
  /\ StoreType(map)
  /\ phase \in {"prepare", "scan", "done"}
  /\ delivered \in 0..MaxRecords

\* Counters and record tables agree after every callback (see FactLoader).
CountersMatchRecords == CountersMatch(map)

\* Modules are the groups of scanned files, once each (see FactLoader).
ModulesAreTheFiles == ModulesAreFileGroups(map) /\ ModuleNamesUnique(map)

\* What holds of the store between two callbacks, whichever of them failed: the
\* above, every record under a file of its module, and every module shown with the
\* first of its files, whatever order the scan delivers them in.
Consistent ==
  /\ TypeOK /\ CountersMatchRecords /\ ModulesAreTheFiles
  /\ RecordsBelong(map) /\ FirstPathsKept(map)

\* The callback that raises an error stores no record, and ends the scan: no
\* later record changes the map (keep_going of native_analysis.c:177).
FrozenByError ==
  [][/\ map'.err # "none" => map'.table = map.table
     /\ map.err # "none" => UNCHANGED map]_vars

\* The live scan keeps the promise of Analysis.tla: a scan without error put
\* every record of a file it was handed into the map, in the module of that
\* file.  No record at all is a valid scan.
Promise ==
  INSTANCE Analysis WITH
    Facts <- ScanRecords,
    ModuleFor <- LAMBDA r : ModuleOfPath[r.path],
    IsDeclaration <- LAMBDA r : ~r.isDefinition,
    MinFacts <- 0,
    outcome <- SeenOutcome(map, phase = "done"),
    owner <- SeenOwners(map),
    records <- SeenRecords(map),
    count <- SeenCount(map, delivered)

KeepsPromise == Promise!Spec
=============================================================================
