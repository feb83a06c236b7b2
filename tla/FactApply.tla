------------------------------- MODULE FactApply -------------------------------
(***************************************************************************)
(* One fact of a saved P101FACT stream, as apply_fact of                   *)
(* src/src/fact_loader.c puts it into the project map: by the read loop    *)
(* (FactLoader), or by whoever asks what a set of facts leaves behind      *)
(* (Survey).  The parser of p101_c_facts has already turned the text of a  *)
(* fact into its fields.                                                   *)
(***************************************************************************)
EXTENDS ProjectMap

CONSTANTS
  RawNames,           \* values of the module column of the stream
  NormalizeModule,    \* normalize_module_name on such a value
  Facts               \* facts the parser can return

ASSUME NormalizeAssumption == NormalizeModule \in [RawNames -> Names]

ASSUME FactAssumption ==
  \A f \in Facts :
    /\ f.path \in Paths /\ f.module \in RawNames /\ f.isHeader \in BOOLEAN
    /\ f.kind \in {"UNKNOWN", "FILE", "INCLUDE", "FUNCTION", "CALL", "TYPE",
                   "ENUM", "ENUMERATOR", "MACRO", "NOTE"}
    /\ f.kind = "INCLUDE" =>
         /\ f.target \in Targets /\ f.isLocal \in BOOLEAN
    /\ f.kind = "FUNCTION" =>
         /\ f.usr \in Usrs \cup {BadUsr}
         /\ f.isStatic \in BOOLEAN /\ f.isDeclaration \in BOOLEAN
    /\ f.kind = "CALL" => f.name \in Symbols /\ f.usr \in Usrs \cup {BadUsr}
    /\ f.kind = "MACRO" => f.name \in Symbols /\ f.isDefinition \in BOOLEAN
    /\ f.kind = "NOTE" => f.note \in {"ERROR_USE", "ERROR_CHECK", "OTHER"}

-----------------------------------------------------------------------------
(* One fact. *)

\* Mutant: the file of every fact is added, known or not.
FileForFactAgain(m, f) ==
  AddNamedSourceFile(m, f.path, NormalizeModule[f.module], f.isHeader)

\* The store once the file of the fact has been looked up, or added.
FileForFact(m, f) ==
  IF Known(m, f.path) THEN m
  ELSE AddNamedSourceFile(m, f.path, NormalizeModule[f.module], f.isHeader)

ApplyNote(m, file, f) ==
  CASE f.note = "ERROR_USE" -> NoteErrorUse(m, file)
    [] f.note = "ERROR_CHECK" -> NoteErrorCheck(NoteErrorUse(m, file), file)
    [] OTHER -> m

\* Mutant: the expansions of a macro are taken for its definition.
ApplyKindExpansions(m, file, f) ==
  CASE f.kind = "INCLUDE" -> AddInclude(m, file, f.target, f.isLocal)
    [] f.kind = "FUNCTION" -> AddFunction(m, file, f.usr, f.isStatic, f.isDeclaration)
    [] f.kind = "CALL" -> AddCall(m, file, f.name, f.usr)
    [] f.kind \in {"TYPE", "ENUM"} -> AddType(m, file)
    [] f.kind = "MACRO" -> AddMacro(m, file, f.name)
    [] f.kind = "NOTE" -> ApplyNote(m, file, f)
    [] OTHER -> m

ApplyKind(m, file, f) ==
  CASE f.kind = "INCLUDE" -> AddInclude(m, file, f.target, f.isLocal)
    [] f.kind = "FUNCTION" -> AddFunction(m, file, f.usr, f.isStatic, f.isDeclaration)
    [] f.kind = "CALL" -> AddCall(m, file, f.name, f.usr)
    [] f.kind \in {"TYPE", "ENUM"} -> AddType(m, file)
    [] f.kind = "MACRO" /\ f.isDefinition -> AddMacro(m, file, f.name)
    [] f.kind = "NOTE" -> ApplyNote(m, file, f)
    [] OTHER -> m

\* Mutant: the fact is applied although its file was refused.
ApplyFactAnyway(m, f) ==
  ApplyKind(FileForFact(m, f),
            [path |-> f.path, module |-> NormalizeModule[f.module], isHeader |-> f.isHeader],
            f)

ApplyFact(m, f) ==
  LET r == FileForFact(m, f) IN
  IF Known(r, f.path) THEN ApplyKind(r, FindFile(r, f.path), f) ELSE r
================================================================================
