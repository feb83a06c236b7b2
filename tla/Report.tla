-------------------------------- MODULE Report --------------------------------
(***************************************************************************)
(* One run of the program once its arguments are accepted: load the map,   *)
(* open the output, write the report, close, exit with a status            *)
(* (src/src/runner.c, write_report, write_findings and write_finding of    *)
(* src/src/report.c, the end of src/src/main.c).  The rule about layers    *)
(* asks LayerFile, which reads the layer file from its start for every     *)
(* local include.                                                          *)
(*                                                                         *)
(* Any call of the C library may fail.  It then raises an error, and what  *)
(* the code does next depends only on who looks at the error object, the   *)
(* field err of the map.  The text of the report is a sequence of tokens,  *)
(* one for every part that matters; a token that could not be written is   *)
(* <<"lost">>.                                                             *)
(***************************************************************************)
EXTENDS LayerFile

CONSTANTS
  Maps,     \* maps a load without error can end in
  Options   \* command lines, as far as they are read here

ASSUME MapsAssumption ==
  \A m \in Maps : StoreType(m) /\ TargetsAreModules(m) /\ m.err = "none"

ASSUME OptionsAssumption ==
  \A o \in Options :
    /\ o.library \in BOOLEAN /\ o.json \in BOOLEAN
    /\ o.hasLayers \in BOOLEAN /\ o.layers \in Seq(Bytes)
    /\ o.allowed = Edges(o.layers) /\ LinesFit(o.layers)
    /\ o.maxFunctions \in Nat \ {0} /\ o.maxPublic \in Nat \ {0}
    /\ o.output \in {"stdout", "file"}

EXIT_SUCCESS == 0
EXIT_FINDINGS == 1
EXIT_TROUBLE == 2

VARIABLES
  phase,          \* "load", "open", "head", "check", "close", "main", "exit", "done"
  pending,        \* checks of write_findings not made yet
  out,            \* what has been written to the stream
  first_json, finding_count, wrote,
  ret_val,        \* the exit status
  device          \* the output: "untouched", "truncated", "all" or "part" of out

loop == <<first_json, finding_count, wrote>>
vars == <<args, map, trouble, layer, phase, pending, out, loop, ret_val, device>>

-----------------------------------------------------------------------------
(* Writing. *)

\* Every write is made, whether or not an earlier one failed.
Write(tokens) ==
  \E lost \in SUBSET DOMAIN tokens :
    /\ out' = out \o [i \in DOMAIN tokens |-> IF i \in lost THEN <<"lost">> ELSE tokens[i]]
    /\ IF lost = {} THEN Succeed ELSE Fail("write")

EntryTokens(c) ==
  (IF args.json /\ ~first_json THEN << <<"comma">> >> ELSE << >>) \o << <<"finding", c>> >>

\* Mutant: the entry is written whatever was raised before.
WriteFindingAnyway(c) ==
  /\ wrote' = TRUE
  /\ finding_count' = finding_count + 1
  /\ first_json' = (first_json /\ ~args.json)
  /\ Write(EntryTokens(c))

\* Mutant: first_json is not reset.
WriteFindingFirst(c) ==
  /\ wrote' = TRUE
  /\ IF map.err # "none" THEN Succeed /\ UNCHANGED <<out, finding_count, first_json>>
     ELSE \/ Fail("format") /\ UNCHANGED <<out, finding_count, first_json>>
          \/ /\ finding_count' = finding_count + 1
             /\ UNCHANGED first_json
             /\ Write(EntryTokens(c))

\* The caller has found something; the entry is written unless an error, be it
\* that of the layer file or of formatting the message, is raised by now.
WriteFinding(c) ==
  /\ wrote' = TRUE
  /\ IF map.err # "none" THEN Succeed /\ UNCHANGED <<out, finding_count, first_json>>
     ELSE \/ Fail("format") /\ UNCHANGED <<out, finding_count, first_json>>
          \/ /\ finding_count' = finding_count + 1
             /\ first_json' = (first_json /\ ~args.json)
             /\ Write(EntryTokens(c))

-----------------------------------------------------------------------------
(* The run. *)

Init ==
  /\ args \in Options
  /\ map = EmptyMap /\ trouble = {}
  /\ NotReading
  /\ phase = "load"
  /\ pending = {} /\ out = << >>
  /\ first_json = TRUE /\ finding_count = 0 /\ wrote = FALSE
  /\ ret_val = EXIT_TROUBLE
  /\ device = "untouched"

\* Mutant: the error of the load is not looked at.
LoadAnyway ==
  /\ phase = "load"
  /\ \/ map' \in Maps /\ UNCHANGED trouble
     \/ \E e \in {"usage", "system"} : map' = Raise(map, e) /\ trouble' = {"load"}
  /\ phase' = "open"
  /\ UNCHANGED <<args, layer, pending, out, loop, ret_val, device>>

Load ==
  /\ phase = "load"
  /\ \/ phase' = "open" /\ map' \in Maps /\ UNCHANGED trouble
     \/ /\ phase' = "close" /\ trouble' = {"load"}
        /\ \E e \in {"usage", "system"} : map' = Raise(map, e)
  /\ UNCHANGED <<args, layer, pending, out, loop, ret_val, device>>

OpenOutput ==
  /\ phase = "open"
  /\ \/ /\ phase' = "head"
        /\ device' = IF args.output = "file" THEN "truncated" ELSE device
        /\ UNCHANGED <<map, trouble>>
     \/ /\ args.output = "file"
        /\ phase' = "main" /\ trouble' = trouble \cup {"open"}
        /\ map' = Raise(map, "system")
        /\ UNCHANGED device
  /\ UNCHANGED <<args, layer, pending, out, loop, ret_val>>

\* All that comes before the findings: in Markdown the tables and the include
\* graph, then the heading.
WriteHead ==
  /\ phase = "head"
  /\ phase' = "check"
  /\ pending' = Checks(map)
  /\ Write(IF args.json THEN << <<"head">> >> ELSE << <<"tables">>, <<"head">> >>)
  /\ UNCHANGED <<args, layer, loop, ret_val, device>>

\* The checks are made one after the other.
IsNext(c) == c \in pending /\ \A d \in pending \ {c} : Before(c, d)

AsksLayers(c) == c[3] = 13 /\ Entry(map, c).isLocal

\* Mutant: the loop goes on only after a finding.
CheckStuck ==
  /\ phase = "check"
  /\ \E c \in pending :
       /\ IsNext(c) /\ pending' = pending \ {c}
       /\ IF AsksLayers(c) THEN TakeAnswer /\ ~allowed
          ELSE Found(map, args, c) /\ UNCHANGED layer
       /\ WriteFinding(c)
  /\ UNCHANGED <<args, phase, ret_val, device>>

\* One check; the rule about layers has its answer from the layer file.
Check ==
  /\ phase = "check"
  /\ \E c \in pending :
       /\ IsNext(c) /\ pending' = pending \ {c}
       /\ IF AsksLayers(c) THEN TakeAnswer ELSE UNCHANGED layer
       /\ IF IF AsksLayers(c) THEN ~allowed ELSE Found(map, args, c)
          THEN WriteFinding(c)
          ELSE Succeed /\ UNCHANGED <<out, loop>>
  /\ UNCHANGED <<args, phase, ret_val, device>>

AskLayers ==
  /\ phase = "check"
  /\ \E c \in pending :
       /\ IsNext(c) /\ AsksLayers(c)
       /\ Ask(Entry(map, c).module, Entry(map, c).target)
  /\ UNCHANGED <<args, phase, pending, out, loop, ret_val, device>>

AnswerLayers ==
  /\ ReadLayers
  /\ UNCHANGED <<args, phase, pending, out, loop, ret_val, device>>

\* Mutant: "no issues" is written when no entry was.
TailTokensCount ==
  IF args.json THEN << <<"tail", finding_count>> >>
  ELSE IF finding_count = 0 THEN << <<"clean">> >> ELSE << >>

TailTokens ==
  IF args.json THEN << <<"tail", finding_count>> >>
  ELSE IF wrote THEN << >> ELSE << <<"clean">> >>

WriteTail ==
  /\ phase = "check" /\ pending = {}
  /\ Write(TailTokens)
  /\ ret_val' = IF map'.err # "none" THEN EXIT_TROUBLE
                ELSE IF wrote THEN EXIT_FINDINGS ELSE EXIT_SUCCESS
  /\ phase' = "close"
  /\ UNCHANGED <<args, layer, pending, loop, device>>

\* Only a file is closed, and its last bytes may fail to arrive.
CloseOutput ==
  /\ phase = "close"
  /\ phase' = "main"
  /\ IF device # "truncated" THEN UNCHANGED <<map, trouble, device>>
     ELSE \/ device' = "all" /\ UNCHANGED <<map, trouble>>
          \/ /\ device' = "part" /\ trouble' = trouble \cup {"close"}
             /\ map' = Raise(map, "system")
  /\ UNCHANGED <<args, layer, pending, out, loop, ret_val>>

\* Mutant: the status of the run is kept.
ErrorStatusOfRun == ret_val

\* main turns every error into trouble, the one of the close included.
ErrorStatus == IF map.err # "none" THEN EXIT_TROUBLE ELSE ret_val

Main ==
  /\ phase = "main"
  /\ phase' = "exit"
  /\ ret_val' = ErrorStatus
  /\ UNCHANGED <<args, map, trouble, layer, pending, out, loop, device>>

\* What is left in the buffer of stdout is flushed after main has returned.
Exit ==
  /\ phase = "exit"
  /\ phase' = "done"
  /\ IF args.output = "file" \/ out = << >> THEN UNCHANGED <<device, trouble>>
     ELSE \/ device' = "all" /\ UNCHANGED trouble
          \/ device' = "part" /\ trouble' = trouble \cup {"flush"}
  /\ UNCHANGED <<args, map, layer, pending, out, loop, ret_val>>

Next ==
  \/ Load \/ OpenOutput \/ WriteHead \/ Check \/ AskLayers \/ AnswerLayers \/ WriteTail
  \/ CloseOutput \/ Main \/ Exit

\* The program takes its next step: calls of the C library return.
Spec == Init /\ [][Next]_vars /\ WF_vars(Next)

-----------------------------------------------------------------------------
(* Properties. *)

\* The place of a finding among those of the map, in the order of the checks.
Place(c) == 1 + Cardinality({d \in Reported(map, args) : Before(d, c)})

\* The report of the map: all findings, each at its place, in JSON with commas
\* between them and with their number at the end.
WholeReport ==
  LET findings == Reported(map, args)
      count == Cardinality(findings)
  IN IF args.json
     THEN /\ Len(out) = IF count = 0 THEN 2 ELSE 2 * count + 1
          /\ out[1] = <<"head">> /\ out[Len(out)] = <<"tail", count>>
          /\ \A c \in findings : out[2 * Place(c)] = <<"finding", c>>
          /\ \A i \in 1..count - 1 : out[2 * i + 1] = <<"comma">>
     ELSE /\ Len(out) = IF count = 0 THEN 3 ELSE 2 + count
          /\ out[1] = <<"tables">> /\ out[2] = <<"head">>
          /\ \A c \in findings : out[2 + Place(c)] = <<"finding", c>>
          /\ count = 0 => out[3] = <<"clean">>

\* Statuses 0 and 1 are said of a whole report, and tell whether it has findings
\* (README.md:90-96); nothing else ends in them.
StatusMatchesReport ==
  phase = "done" /\ ret_val # EXIT_TROUBLE =>
    /\ WholeReport
    /\ ret_val = IF Reported(map, args) = {} THEN EXIT_SUCCESS ELSE EXIT_FINDINGS

\* A report to a file that is said to be written has arrived, although the close
\* that sends its last bytes comes after the status was chosen (runner.c:43-63).
FileReportArrives ==
  phase = "done" /\ args.output = "file" /\ ret_val # EXIT_TROUBLE => device = "all"

\* A check that could not be made is never reported as a finding: even a report
\* that is broken off lists only findings of the map (the layer file that cannot
\* be read, report.c:156-162 and 810-814).
NoFalseFinding ==
  \A c \in {out[i][2] : i \in {i \in DOMAIN out : out[i][1] = "finding"}} :
    c \in Reported(map, args)

\* Nor is a report that is broken off said to be clean while the map has findings
\* (wrote is set by the caller, report.c:399 and so on).
NoFalseClean ==
  \A i \in DOMAIN out : out[i] = <<"clean">> => Reported(map, args) = {}

\* What is told is true of the map, however the report ends.
NoFalseClaim == NoFalseFinding /\ NoFalseClean

\* A load that fails leaves the report of an earlier run as it is (runner.c:26-34).
FailedLoadTouchesNothing == "load" \in trouble => device = "untouched" /\ out = << >>

\* Whatever fails, the run comes to its end and to a status: an error stops no
\* loop of the report half-way (report.c:350-784).
Ends == <>(phase = "done")

\* "Report was written" (README.md:94-95): a report on stdout arrives, too.
ReportArrives == phase = "done" /\ ret_val # EXIT_TROUBLE => device = "all"

\* "missing optional layer files are skipped or treated as non-fatal"
\* (README.md:31): a run in which nothing else fails is no trouble.
LayerFileOptional ==
  phase = "done" /\ trouble \subseteq {"layers"} => ret_val # EXIT_TROUBLE
=============================================================================
