------------------------------- MODULE Analysis -------------------------------
(***************************************************************************)
(* What the report generator may rely on, whichever loader filled the      *)
(* project map: an analysis takes one fact after the other, and each one   *)
(* leaves exactly the record it stands for, in the module of the file's    *)
(* first fact; or the analysis is refused as a whole.  A fact about no     *)
(* file leaves nothing, and is no reason to refuse the others.  There is   *)
(* no limit, no module table and no counter here.                          *)
(*                                                                         *)
(* The promise is that of src/src/runner.c:25-30 (no report after an       *)
(* error) together with the error text of src/src/model_mutation.c:393     *)
(* ("refusing an incomplete analysis").                                    *)
(***************************************************************************)
EXTENDS Naturals, Sequences

CONSTANTS
  Facts,              \* what the stream or the scan can deliver
  NoPath,             \* the path of a fact that has none: it is about no file
  LocalTarget,        \* the module a local include stands for
  ModuleFor(_),       \* the module of a fact's file
  IsDeclaration(_),   \* of a FUNCTION fact
  MinFacts            \* an analysis of fewer facts is refused

VARIABLES
  owner,      \* known path -> the module and language of its file
  records,    \* kind -> the records, in the order of their facts
  count,      \* facts taken
  outcome     \* "loading", "complete" or "refused"

vars == <<owner, records, count, outcome>>

Kinds == {"include", "function", "macro", "type", "call"}

\* The table a fact belongs to, or "none" for a fact without a record.
KindOf(f) ==
  IF f.path = NoPath THEN "none"
  ELSE CASE f.kind = "INCLUDE" -> "include"
         [] f.kind = "FUNCTION" -> "function"
         [] f.kind \in {"TYPE", "ENUM"} -> "type"
         [] f.kind = "MACRO" /\ f.isDefinition -> "macro"
         [] f.kind = "CALL" -> "call"
         [] OTHER -> "none"

\* The record of a fact, given the owner of its path.
RecordOf(f, o) ==
  CASE KindOf(f) = "include" ->
         [module |-> o.module, path |-> f.path, isLocal |-> f.isLocal,
          target |-> IF f.isLocal THEN LocalTarget[o.module, f.target] ELSE f.target]
    [] KindOf(f) = "function" ->
         [module |-> o.module, path |-> f.path, usr |-> f.usr,
          isStatic |-> f.isStatic, isDeclaration |-> IsDeclaration(f)]
    [] KindOf(f) = "type" -> [module |-> o.module, path |-> f.path]
    [] KindOf(f) = "macro" -> [module |-> o.module, path |-> f.path, name |-> f.name]
    [] KindOf(f) = "call" ->
         [module |-> o.module, path |-> f.path, name |-> f.name, usr |-> f.usr,
          isHeader |-> o.isHeader]

NoOwner == [p \in {} |-> [module |-> p, isHeader |-> FALSE]]
NoRecords == [k \in Kinds |-> << >>]

\* The first fact of a path decides the module and the language of the file.
Learn(f) ==
  [p \in DOMAIN owner \cup ({f.path} \ {NoPath}) |->
     IF p \in DOMAIN owner THEN owner[p]
     ELSE [module |-> ModuleFor(f), isHeader |-> f.isHeader]]

Init ==
  /\ owner = NoOwner
  /\ records = NoRecords
  /\ count = 0
  /\ outcome = "loading"

Take(f) ==
  /\ outcome = "loading"
  /\ owner' = Learn(f)
  /\ records' = [k \in Kinds |-> IF k = KindOf(f)
                                 THEN Append(records[k], RecordOf(f, owner'[f.path]))
                                 ELSE records[k]]
  /\ count' = count + 1
  /\ UNCHANGED outcome

\* A refused analysis leaves nothing to read.
Refuse ==
  /\ outcome = "loading"
  /\ outcome' = "refused"
  /\ owner' = NoOwner
  /\ records' = NoRecords
  /\ count' = 0

Finish ==
  /\ outcome = "loading"
  /\ count >= MinFacts
  /\ outcome' = "complete"
  /\ UNCHANGED <<owner, records, count>>

Next == (\E f \in Facts : Take(f)) \/ Refuse \/ Finish

Spec == Init /\ [][Next]_vars
=============================================================================
