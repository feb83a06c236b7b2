------------------------------ MODULE FactLoader ------------------------------
(***************************************************************************)
(* Replay of a saved P101FACT stream into the project map                  *)
(* (src/src/fact_loader.c): one step per turn of the read loop.            *)
(*                                                                         *)
(* The stream is the environment.  A turn of the loop reads a fact, a line *)
(* that is no fact, an invalid line, a line longer than the buffer, the    *)
(* end of the stream or an I/O error; a fact is applied by FactApply.      *)
(***************************************************************************)
EXTENDS FactApply

CONSTANT MaxLines   \* bound: buffers the stream fills before it ends

ASSUME MaxLinesAssumption == MaxLines \in Nat

VARIABLES
  map,          \* the project map, with the error object
  phase,        \* where the loader is: "open", "read", "discard", "close", "done"
  fact_count,   \* facts applied
  lines         \* buffers filled from the stream so far

vars == <<map, phase, fact_count, lines>>

-----------------------------------------------------------------------------
(* The read loop. *)

Init ==
  /\ map = EmptyMap
  /\ phase = "open"
  /\ fact_count = 0
  /\ lines = 0

Open ==
  /\ phase = "open"
  /\ \/ phase' = "read" /\ UNCHANGED map
     \/ phase' = "done" /\ map' = Raise(map, "system")
  /\ UNCHANGED <<fact_count, lines>>

\* fgets returns NULL: the end of the stream, or an I/O error.
ReadNothing ==
  /\ phase = "read"
  /\ phase' = "close"
  /\ map' \in {map, Raise(map, "system")}
  /\ UNCHANGED <<fact_count, lines>>

\* fgets returns a buffer.
FillBuffer ==
  /\ lines < MaxLines
  /\ lines' = lines + 1

\* An error of the previous turn is seen only after another buffer was read.
ReadAfterError ==
  /\ phase = "read" /\ FillBuffer
  /\ map.err # "none"
  /\ phase' = "close"
  /\ UNCHANGED <<map, fact_count>>

\* Mutant: the error of the previous turn is not looked at.
ReadLineAnyway == phase = "read" /\ FillBuffer

ReadLine ==
  /\ phase = "read" /\ FillBuffer
  /\ map.err = "none"

ReadFact ==
  /\ ReadLine
  /\ \E f \in Facts : map' = ApplyFact(map, f)
  /\ fact_count' = fact_count + 1
  /\ UNCHANGED phase

\* A line the parser does not take for a fact.
ReadOther ==
  /\ ReadLine
  /\ UNCHANGED <<map, phase, fact_count>>

\* A line the parser rejects, with an error of its own or without one.
ReadInvalid ==
  /\ ReadLine
  /\ \E e \in {"usage", "system"} : map' = Raise(map, e)
  /\ phase' = "close"
  /\ UNCHANGED fact_count

\* A full buffer without a newline: the line is not a fact, whatever it says.
ReadOverlong ==
  /\ ReadLine
  /\ phase' = "discard"
  /\ UNCHANGED <<map, fact_count>>

\* Mutant: the end of the stream does not end the line.
DiscardToNewline ==
  /\ phase = "discard" /\ FillBuffer
  /\ phase' \in {"discard", "read"}
  /\ UNCHANGED <<map, fact_count>>

\* The rest of the overlong line, up to its newline or the end of the stream.
Discard ==
  /\ phase = "discard"
  /\ UNCHANGED fact_count
  /\ \/ /\ FillBuffer
        /\ phase' \in {"discard", "read"}
        /\ UNCHANGED map
     \/ /\ phase' = "read"
        /\ map' \in {map, Raise(map, "system")}
        /\ UNCHANGED lines

\* Mutant: a stream without facts is an empty project.
CloseStatusEmpty(m, closeFails) ==
  IF m.err # "none" THEN m.err ELSE IF closeFails THEN "system" ELSE "none"

\* The stream is closed, and a stream without facts is refused.
CloseStatus(m, closeFails) ==
  IF m.err # "none" THEN m.err
  ELSE IF closeFails THEN "system"
  ELSE IF fact_count = 0 THEN "usage"
  ELSE "none"

Close ==
  /\ phase = "close"
  /\ phase' = "done"
  /\ \E closeFails \in BOOLEAN : map' = Raise(map, CloseStatus(map, closeFails))
  /\ UNCHANGED <<fact_count, lines>>

Next ==
  \/ Open \/ ReadNothing \/ ReadAfterError \/ ReadFact \/ ReadOther
  \/ ReadInvalid \/ ReadOverlong \/ Discard \/ Close

\* The program is one thread that keeps running until the load returns.
Spec == Init /\ [][Next]_vars /\ WF_vars(Next)

-----------------------------------------------------------------------------
(* Properties. *)

\* The loader's variables have their types, and no table outgrows its array
\* (the MAX_ checks at the head of every operation of model_mutation.c).
TypeOK ==
  /\ StoreType(map)
  /\ phase \in {"open", "read", "discard", "close", "done"}
  /\ fact_count \in 0..MaxLines
  /\ lines \in 0..MaxLines

\* The per-module counters that MOD-001 to MOD-004 and the module table of the
\* report read agree with the record tables that the other findings read, in
\* whatever order facts arrive and even when an operation was refused halfway
\* (add_function, add_include, add_named_source_file of model_mutation.c).
CountersMatchRecords == CountersMatch(map)

\* The module table holds the modules of the files and no other, once each: the
\* get_module calls of add_include, add_function, add_macro, add_type and of the
\* notes never create a module, and a refused file leaves no empty module.
ModulesAreTheFiles == ModulesAreFileGroups(map) /\ ModuleNamesUnique(map)

\* Every record points at a file of the map and carries that file's module,
\* although module names are copied into records and never compared with the
\* file again (copy_string calls of model_mutation.c).
RecordsHaveFiles == RecordsBelong(map)

\* source_path and header_path name the first source and header of the module
\* in the order of the stream (model_mutation.c:193-208).
FirstPaths == FirstPathsKept(map)

\* A call that did not fit is never silent: calls_dropped and the report line
\* about dropped calls (report.c:247) exist only in runs that are refused.
DroppedCallsRefused == map.callsDropped > 0 => map.err # "none"

\* A load that succeeds has read at least one fact, whatever else was in the
\* stream (fact_loader.c:305-315).
SuccessHasFacts == phase = "done" /\ map.err = "none" => fact_count > 0 /\ map.files # << >>

\* A file is listed once, however many facts name it: looking the path of a fact
\* up again finds the entry the first fact made (fact_loader.c:51-59, as
\* test/test_more.c:300-301 expects).
FileListedOnce ==
  \A i, j \in DOMAIN map.files : map.files[i].path = map.files[j].path => i = j

\* Once an error is raised the map is left alone for the rest of the load, and
\* the operation that raised it stored no record (fact_loader.c:252-256).
FrozenByError ==
  [][/\ map'.err # "none" => map'.table = map.table
     /\ map.err # "none" => /\ map'.files = map.files
                            /\ map'.modules = map.modules
                            /\ map'.err # "none"]_vars

\* The load ends: the loop that throws away the rest of an overlong line and
\* the loop around it stop at the end of the stream.
Ends == <>(phase = "done")

\* Replay implements the promise of Analysis.tla: a load without error took
\* every fact of the stream, each in the module of its file, none twice.
Promise ==
  INSTANCE Analysis WITH
    ModuleFor <- LAMBDA f : NormalizeModule[f.module],
    IsDeclaration <- LAMBDA f : f.isDeclaration,
    MinFacts <- 1,
    outcome <- SeenOutcome(map, phase = "done"),
    owner <- SeenOwners(map),
    records <- SeenRecords(map),
    count <- SeenCount(map, fact_count)

KeepsPromise == Promise!Spec
=============================================================================
