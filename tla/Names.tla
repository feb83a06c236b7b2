-------------------------------- MODULE Names --------------------------------
(***************************************************************************)
(* How paths and include operands become module names (src/src/strings.c   *)
(* and the two path helpers of src/src/model_mutation.c).                  *)
(*                                                                         *)
(* A path is its directories and its last component.  An empty first       *)
(* directory is the leading slash of an absolute path.  The last component *)
(* is taken apart into the number of leading "p101_" marks, the stem and   *)
(* the suffixes after it, for marks and suffixes are all these helpers     *)
(* look at.  Names are shorter than MAX_NAME bytes here.                   *)
(***************************************************************************)
EXTENDS Naturals, Sequences

CONSTANTS
  P101Dirs,  \* the directories that are "p101" or begin with "p101_"
  Nothing,   \* what stands between two slashes in a row
  Here,      \* the directory "."
  Parent     \* the directory ".."

Path(dirs, marks, stem, suffixes) ==
  [dirs |-> dirs, base |-> [marks |-> marks, stem |-> stem, suffixes |-> suffixes]]

\* Without one leading mark and without the last suffix.
BasenameNoSuffix(base) ==
  [base EXCEPT !.marks = IF @ > 0 THEN @ - 1 ELSE 0,
               !.suffixes = IF @ = << >> THEN @ ELSE SubSeq(@, 1, Len(@) - 1)]

NormalizeModuleName(path) == [path EXCEPT !.base = BasenameNoSuffix(@)]

\* The operand of an include; raw is the '@' that marks a resolved module.
Operand(raw, path) == [raw |-> raw, path |-> path]

DropLibraryDir(path) ==
  IF path.dirs # << >> /\ Head(path.dirs) \in P101Dirs
  THEN [path EXCEPT !.dirs = Tail(@)] ELSE path

IncludeToModule(operand) ==
  IF operand.raw THEN operand.path
  ELSE DropLibraryDir(NormalizeModuleName(operand.path))

\* One turn of the loop of normalize_relative_path: out is what is kept so far.
KeepComponent(out, component) ==
  IF component \in {Nothing, Here} THEN out
  ELSE IF component = Parent /\ out # << >> /\ out[Len(out)] # Parent
  THEN SubSeq(out, 1, Len(out) - 1)
  ELSE Append(out, component)

NormalizeRelativePath(dirs) ==
  LET Kept[n \in 0..Len(dirs)] ==
        IF n = 0 THEN << >> ELSE KeepComponent(Kept[n - 1], dirs[n])
  IN Kept[Len(dirs)]

IsExplicitlyRelative(path) == path.dirs # << >> /\ Head(path.dirs) \in {Here, Parent}

\* The module a local include of a file of module "from" stands for.
LocalIncludeToModule(from, operand) ==
  IF ~operand.raw /\ IsExplicitlyRelative(operand.path)
  THEN IncludeToModule(Operand(FALSE,
         [operand.path EXCEPT !.dirs = NormalizeRelativePath(from.dirs \o @)]))
  ELSE IncludeToModule(operand)
=============================================================================
