------------------------------ MODULE ReportProofs ------------------------------
(***************************************************************************)
(* What Report.tla tells of every project, every command line and every    *)
(* layer file, whatever calls fail and in whatever combination.  First     *)
(* the order of the run and its status; then how a line of the layer file  *)
(* is taken apart, and how the file is read by lines; then the text of the *)
(* report.                                                                 *)
(***************************************************************************)
EXTENDS Report, FiniteSetTheorems, SequenceTheorems, WellFoundedInduction, TLAPS

-----------------------------------------------------------------------------
(* The order of the run, its output and its status. *)

\* The map fits, and an error is all that a call changes of it.
MapFits == StoreType(map) /\ TargetsAreModules(map)
SameTables == map'.modules = map.modules /\ map'.table = map.table

\* What the stream of this command line is before it is closed or flushed.
Opened == IF args.output = "file" THEN "truncated" ELSE "untouched"

\* An error, once raised, stays; the status and the output follow it.
ControlInv ==
  /\ args \in Options /\ MapFits
  /\ phase \in {"load", "open", "head", "check", "close", "main", "exit", "done"}
  /\ phase = "load" => trouble = {}
  /\ phase \in {"load", "open"} => out = << >> /\ device = "untouched" /\ map.err = "none"
  /\ phase \in {"open", "head", "check"} => "load" \notin trouble
  /\ phase \in {"head", "check"} => device = Opened
  /\ "load" \in trouble => map.err # "none" /\ out = << >> /\ device = "untouched"
  /\ phase = "close" /\ map.err = "none" => device = Opened
  /\ phase = "main" /\ map.err = "none" /\ args.output = "file" => device = "all"
  /\ phase \in {"exit", "done"} /\ ret_val # EXIT_TROUBLE =>
       map.err = "none" /\ (args.output = "file" => device = "all")

\* The checks are made in their order, and the question that is being answered is
\* that of the check that is next.
OrderInv ==
  /\ reading \in {"no", "read", "close", "answered"}
  /\ reading = "no" => NotReading
  /\ reading # "no" =>
       /\ phase = "check"
       /\ \E c \in pending :
            /\ IsNext(c) /\ AsksLayers(c)
            /\ question = <<Entry(map, c).module, Entry(map, c).target>>
  /\ pending \subseteq Checks(map) /\ (phase # "check" => pending = {})
  /\ phase = "check" => \A c \in Checks(map) \ pending, d \in pending : Before(c, d)

-----------------------------------------------------------------------------
(* Calls that may fail. *)

\* Raising an error touches no table.
LEMMA RaiseKeeps ==
  ASSUME NEW m, StoreType(m), NEW e \in {"usage", "system"}, NEW r, r = Raise(m, e)
  PROVE  /\ StoreType(r) /\ r.err = e
         /\ r.files = m.files /\ r.modules = m.modules /\ r.table = m.table
<1>1. m \in Store
  BY DEF StoreType
<1>2. /\ r \in Store /\ r.err = e
      /\ r.files = m.files /\ r.modules = m.modules /\ r.table = m.table
  BY <1>1 DEF Raise, Store, Errors
<1>3. QED BY <1>2 DEF StoreType

LEMMA EmptyMapFits == StoreType(EmptyMap) /\ TargetsAreModules(EmptyMap)
<1>1. EmptyMap \in Store
  BY DEF EmptyMap, Store, Errors
<1>2. Capacity \in [Kinds -> Nat]
  BY LimitAssumption DEF Capacity, Kinds
<1>3. StoreType(EmptyMap)
  BY <1>1, <1>2, LimitAssumption DEF StoreType, EmptyMap
<1>4. EmptyMap.table["include"] = << >>
  BY DEF EmptyMap, Kinds
<1>5. QED BY <1>3, <1>4 DEF TargetsAreModules

\* A call that fails leaves an error, and an earlier error is not taken back.
LEMMA Called ==
  ASSUME MapFits, NEW call, Succeed \/ Fail(call)
  PROVE  /\ MapFits' /\ SameTables
         /\ map'.err = "none" => map' = map /\ trouble' = trouble
         /\ map.err # "none" => map'.err # "none"
         /\ call # "load" => ("load" \in trouble' <=> "load" \in trouble)
<1>1. CASE Succeed
  BY <1>1 DEF Succeed, MapFits, SameTables, StoreType, TargetsAreModules
<1>2. CASE Fail(call)
  <2>1. /\ StoreType(map') /\ map'.err = "system" /\ SameTables
    BY <1>2, RaiseKeeps DEF Fail, MapFits, SameTables
  <2>2. TargetsAreModules(map')
    BY <2>1 DEF MapFits, TargetsAreModules, SameTables
  <2>3. MapFits'
    BY <2>1, <2>2 DEF MapFits, StoreType, TargetsAreModules
  <2>4. QED BY <1>2, <2>1, <2>3 DEF Fail
<1>3. QED BY <1>1, <1>2

\* Every token is written or lost, and losing one raises an error.
LEMMA Writing ==
  ASSUME MapFits, NEW T, <<"lost">> \in T, out \in Seq(T), NEW tokens \in Seq(T), Write(tokens)
  PROVE  /\ out' \in Seq(T)
         /\ (Succeed /\ out' = out \o tokens) \/ Fail("write")
<1>1. PICK lost \in SUBSET DOMAIN tokens :
        /\ out' = out \o [i \in DOMAIN tokens |-> IF i \in lost THEN <<"lost">> ELSE tokens[i]]
        /\ IF lost = {} THEN Succeed ELSE Fail("write")
  BY DEF Write
<1> DEFINE arrived == [i \in DOMAIN tokens |-> IF i \in lost THEN <<"lost">> ELSE tokens[i]]
<1>2. arrived \in Seq(T)
  <2>1. \A i \in 1..Len(tokens) : arrived[i] \in T
    OBVIOUS
  <2>2. arrived \in [1..Len(tokens) -> T]
    BY <2>1
  <2>3. QED BY <2>2
<1>3. lost = {} => arrived = tokens
  OBVIOUS
<1>4. out' \in Seq(T)
  BY <1>1, <1>2
<1>5. QED BY <1>1, <1>3, <1>4

-----------------------------------------------------------------------------
(* The checks and their order. *)

\* A check is made on a module or on a record of the table of its loop.
LEMMA CheckOfRule ==
  ASSUME NEW m, NEW c
  PROVE  c \in Checks(m) <=>
           \/ \E i \in DOMAIN m.modules, k \in {1, 2, 3, 4} : c = <<1, i, k>>
           \/ \E i \in DOMAIN m.table["function"], k \in {6, 7, 8} : c = <<2, i, k>>
           \/ \E i \in DOMAIN m.table["macro"] : c = <<3, i, 9>>
           \/ \E i \in DOMAIN m.table["type"] : c = <<4, i, 10>>
           \/ \E i \in DOMAIN m.table["include"], k \in {11, 12, 13} : c = <<5, i, k>>
<1>1. /\ Rules[1] = {1, 2, 3, 4} /\ Rules[2] = {6, 7, 8} /\ Rules[3] = {9}
      /\ Rules[4] = {10} /\ Rules[5] = {11, 12, 13}
  BY DEF Rules
<1>2. /\ Loop(m, 1) = m.modules /\ Loop(m, 2) = m.table["function"]
      /\ Loop(m, 3) = m.table["macro"] /\ Loop(m, 4) = m.table["type"]
      /\ Loop(m, 5) = m.table["include"]
  BY DEF Loop
<1>3. Checks(m) = UNION {{k} \X (DOMAIN Loop(m, k)) \X Rules[k] : k \in {1, 2, 3, 4, 5}}
  <2>1. 1..5 = {1, 2, 3, 4, 5}
    OBVIOUS
  <2>2. QED BY <2>1 DEF Checks
<1>4. c \in Checks(m) <=> \E k \in {1, 2, 3, 4, 5} : \E i \in DOMAIN Loop(m, k), j \in Rules[k] :
                            c = <<k, i, j>>
  BY <1>3
<1>5. QED BY <1>1, <1>2, <1>4

\* The tables are numbered from 1, each to its length.
LEMMA TableDomains ==
  ASSUME NEW m, StoreType(m)
  PROVE  /\ Len(m.modules) \in Nat /\ DOMAIN m.modules = 1..Len(m.modules)
         /\ \A kind \in Kinds : /\ Len(m.table[kind]) \in Nat
                                /\ DOMAIN m.table[kind] = 1..Len(m.table[kind])
BY DEF StoreType, Store

LEMMA ChecksNumbered ==
  ASSUME NEW m, StoreType(m), NEW c \in Checks(m)
  PROVE  c = <<c[1], c[2], c[3]>> /\ c[1] \in Nat /\ c[2] \in Nat /\ c[3] \in Nat
<1>1. /\ DOMAIN m.modules \subseteq Nat /\ DOMAIN m.table["function"] \subseteq Nat
      /\ DOMAIN m.table["macro"] \subseteq Nat /\ DOMAIN m.table["type"] \subseteq Nat
      /\ DOMAIN m.table["include"] \subseteq Nat
  BY TableDomains DEF Kinds
<1>2. QED BY <1>1, CheckOfRule

\* Of two checks one is made before the other, and only one.
LEMMA BeforeOrders ==
  ASSUME NEW m, StoreType(m), NEW c \in Checks(m), NEW d \in Checks(m)
  PROVE  /\ ~Before(c, c)
         /\ Before(c, d) => ~Before(d, c)
         /\ c # d => Before(c, d) \/ Before(d, c)
BY ChecksNumbered DEF Before

LEMMA ChecksFinite ==
  ASSUME NEW m, StoreType(m)
  PROVE  IsFiniteSet(Checks(m))
<1> DEFINE n == Len(m.modules) + Len(m.table["function"]) + Len(m.table["macro"])
                  + Len(m.table["type"]) + Len(m.table["include"])
           Pairs == (1..5) \X (1..n)
           Box == Pairs \X (1..13)
           f == [c \in Checks(m) |-> <<<<c[1], c[2]>>, c[3]>>]
<1>1. /\ n \in Nat
      /\ DOMAIN m.modules \subseteq 1..n
      /\ DOMAIN m.table["function"] \subseteq 1..n /\ DOMAIN m.table["macro"] \subseteq 1..n
      /\ DOMAIN m.table["type"] \subseteq 1..n /\ DOMAIN m.table["include"] \subseteq 1..n
  <2>1. /\ Len(m.modules) \in Nat /\ DOMAIN m.modules = 1..Len(m.modules)
        /\ \A kind \in {"function", "macro", "type", "include"} :
             Len(m.table[kind]) \in Nat /\ DOMAIN m.table[kind] = 1..Len(m.table[kind])
    BY TableDomains DEF Kinds
  <2> DEFINE a == Len(m.modules)
             b == Len(m.table["function"])
             c == Len(m.table["macro"])
             d == Len(m.table["type"])
             e == Len(m.table["include"])
  <2>2. a \in Nat /\ b \in Nat /\ c \in Nat /\ d \in Nat /\ e \in Nat /\ n = a + b + c + d + e
    BY <2>1
  <2>3. DOMAIN m.modules = 1..a
    BY <2>1
  <2>4. DOMAIN m.table["function"] = 1..b /\ DOMAIN m.table["macro"] = 1..c
    BY <2>1
  <2>5. DOMAIN m.table["type"] = 1..d /\ DOMAIN m.table["include"] = 1..e
    BY <2>1
  <2> HIDE DEF a, b, c, d, e, n
  <2>6. QED BY <2>2, <2>3, <2>4, <2>5
<1> HIDE DEF n
<1>2. IsFiniteSet(Box)
  <2>1. IsFiniteSet(1..n)
    <3>1. 1 \in Int /\ n \in Int
      BY <1>1
    <3>2. QED BY <3>1, FS_Interval
  <2>4. IsFiniteSet(1..5) /\ IsFiniteSet(1..13)
    <3>1. 1 \in Int /\ 5 \in Int /\ 13 \in Int
      OBVIOUS
    <3>2. QED BY <3>1, FS_Interval
  <2>2. IsFiniteSet(Pairs)
    BY <2>1, <2>4, FS_Product
  <2> HIDE DEF Pairs
  <2>3. QED BY <2>2, <2>4, FS_Product
<1>3. f \in [Checks(m) -> Box]
  <2>1. ASSUME NEW c \in Checks(m) PROVE c[1] \in 1..5 /\ c[2] \in 1..n /\ c[3] \in 1..13
    BY <1>1, CheckOfRule
  <2>2. QED BY <2>1
<1>4. \A c, d \in Checks(m) : f[c] = f[d] => c = d
  BY ChecksNumbered
<1>5. f \in Injection(Checks(m), Box)
  BY <1>3, <1>4 DEF Injection, IsInjective
<1>6. QED BY <1>2, <1>5, FS_Injection

\* What is found depends on the tables only, not on the error.
LEMMA FoundSame ==
  ASSUME NEW m, NEW r, r.modules = m.modules, r.table = m.table, NEW a
  PROVE  /\ Checks(r) = Checks(m)
         /\ \A c : Entry(r, c) = Entry(m, c)
         /\ \A c : Found(r, a, c) <=> Found(m, a, c)
         /\ Reported(r, a) = Reported(m, a)
<1>1. \A k : Loop(r, k) = Loop(m, k)
  BY DEF Loop
<1>2. Checks(r) = Checks(m)
  BY <1>1 DEF Checks
<1>3. \A c : Entry(r, c) = Entry(m, c)
  BY <1>1 DEF Entry
<1>4. /\ Functs(r) = Functs(m) /\ Calls(r) = Calls(m) /\ LocalIncludes(r) = LocalIncludes(m)
      /\ \A name : Registered(r, name) <=> Registered(m, name)
      /\ \A name : ModuleIndex(r, name) = ModuleIndex(m, name)
  BY DEF Functs, Calls, LocalIncludes, Registered, ModuleIndex
<1>5. ASSUME NEW e
      PROVE  /\ SourceOnly(r, e) <=> SourceOnly(m, e)
             /\ LargeMain(r, a, e) <=> LargeMain(m, a, e)
             /\ PrivateLooking(r, a, e) <=> PrivateLooking(m, a, e)
             /\ Undefined(r, a, e) <=> Undefined(m, a, e)
             /\ UnusedDeclaration(r, a, e) <=> UnusedDeclaration(m, a, e)
             /\ UnusedMacro(r, a, e) <=> UnusedMacro(m, a, e)
             /\ UnusedType(r, a, e) <=> UnusedType(m, a, e)
             /\ Cycle(r, e) <=> Cycle(m, e)
             /\ StaleInclude(r, e) <=> StaleInclude(m, e)
  <2>1. /\ \A f : HasHeaderDeclaration(r, f) <=> HasHeaderDeclaration(m, f)
        /\ \A f : HasNonStaticDefinition(r, f) <=> HasNonStaticDefinition(m, f)
        /\ \A name : ContainsEntrypoint(r, name) <=> ContainsEntrypoint(m, name)
    BY <1>4 DEF HasHeaderDeclaration, HasNonStaticDefinition, ContainsEntrypoint
  <2>2. /\ \A name : HasUnmatchedPublic(r, name) <=> HasUnmatchedPublic(m, name)
        /\ \A f : FunctionUsedOutside(r, f) <=> FunctionUsedOutside(m, f)
        /\ \A name : UsedOutside(r, name) <=> UsedOutside(m, name)
    BY <1>4, <2>1 DEF HasUnmatchedPublic, FunctionUsedOutside, UsedOutside
  <2>3. /\ \A name, symbol : SymbolUsedOutside(r, name, symbol) <=>
                               SymbolUsedOutside(m, name, symbol)
        /\ \A name : HasSource(r, name) <=> HasSource(m, name)
        /\ \A name, target : HasDirectInclude(r, name, target) <=> HasDirectInclude(m, name, target)
        /\ \A name : TargetExists(r, name) <=> TargetExists(m, name)
    BY <1>4 DEF SymbolUsedOutside, HasSource, HasDirectInclude, TargetExists
  <2>4. QED BY <2>1, <2>2, <2>3 DEF SourceOnly, LargeMain, PrivateLooking, Undefined,
               UnusedDeclaration, UnusedMacro, UnusedType, Cycle, StaleInclude
<1>6. \A c : Found(r, a, c) <=> Found(m, a, c)
  BY <1>3, <1>5 DEF Found
<1>7. QED BY <1>2, <1>3, <1>6 DEF Reported

-----------------------------------------------------------------------------
(* The run keeps its order. *)

LEMMA ControlInit == Init => ControlInv
BY EmptyMapFits DEF Init, ControlInv, EmptyMap, Opened, MapFits

LEMMA LoadControl == ControlInv /\ Load => ControlInv'
<1>1. SUFFICES ASSUME ControlInv, Load PROVE ControlInv'
  OBVIOUS
<1>2. CASE phase' = "open" /\ map' \in Maps /\ UNCHANGED trouble
  <2>1. MapFits' /\ map'.err = "none"
    BY <1>2, MapsAssumption DEF MapFits, StoreType, TargetsAreModules
  <2>2. QED BY <1>1, <1>2, <2>1 DEF Load, ControlInv, Opened
<1>3. ASSUME phase' = "close", trouble' = {"load"},
             NEW e \in {"usage", "system"}, map' = Raise(map, e)
      PROVE  ControlInv'
  <2>1. MapFits' /\ map'.err # "none"
    BY <1>1, <1>3, RaiseKeeps DEF ControlInv, MapFits, TargetsAreModules
  <2>2. QED BY <1>1, <1>3, <2>1 DEF Load, ControlInv, Opened
<1>4. QED BY <1>1, <1>2, <1>3 DEF Load

LEMMA OpenControl == ControlInv /\ OpenOutput => ControlInv'
<1>1. SUFFICES ASSUME ControlInv, OpenOutput PROVE ControlInv'
  OBVIOUS
<1>2. CASE phase' = "head" /\ UNCHANGED <<map, trouble>>
  BY <1>1, <1>2 DEF OpenOutput, ControlInv, Opened, MapFits, StoreType, TargetsAreModules
<1>3. CASE phase' = "main" /\ trouble' = trouble \cup {"open"} /\ map' = Raise(map, "system")
  <2>1. MapFits' /\ map'.err # "none"
    BY <1>1, <1>3, RaiseKeeps DEF ControlInv, MapFits, TargetsAreModules
  <2>2. QED BY <1>1, <1>3, <2>1 DEF OpenOutput, ControlInv, Opened
<1>4. QED BY <1>1, <1>2, <1>3 DEF OpenOutput

\* What WriteHead, Check, the layer file and WriteTail do to the map.
Calling == \E call : call # "load" /\ (Succeed \/ Fail(call))

LEMMA WritingCalls ==
  ASSUME NEW tokens, Write(tokens)
  PROVE  Calling
BY DEF Write, Calling

LEMMA FindingCalls ==
  ASSUME NEW c, WriteFinding(c)
  PROVE  Calling
BY WritingCalls DEF WriteFinding, Calling

\* One check is over, the next one.
LEMMA CheckMoves ==
  ASSUME Check
  PROVE  /\ phase = "check" /\ UNCHANGED <<args, phase, ret_val, device>> /\ Calling
         /\ \E c \in pending : /\ IsNext(c) /\ pending' = pending \ {c}
                              /\ IF AsksLayers(c) THEN TakeAnswer ELSE UNCHANGED layer
<1>1. PICK c \in pending :
        /\ IsNext(c) /\ pending' = pending \ {c}
        /\ IF AsksLayers(c) THEN TakeAnswer ELSE UNCHANGED layer
        /\ WriteFinding(c) \/ Succeed
  BY DEF Check
<1>2. Calling
  BY <1>1, FindingCalls DEF Calling
<1>3. QED BY <1>1, <1>2 DEF Check

LEMMA AskMoves ==
  ASSUME AskLayers
  PROVE  /\ phase = "check" /\ reading = "no" /\ Calling
         /\ UNCHANGED <<args, phase, pending, out, loop, ret_val, device>>
         /\ reading' \in {"read", "answered"}
         /\ \E c \in pending : /\ IsNext(c) /\ AsksLayers(c)
                              /\ question' = <<Entry(map, c).module, Entry(map, c).target>>
BY DEF AskLayers, Ask, Calling

LEMMA AnswerMoves ==
  ASSUME AnswerLayers
  PROVE  /\ reading \in {"read", "close"} /\ reading' \in {"read", "close", "answered"} /\ Calling
         /\ UNCHANGED <<args, phase, pending, out, loop, ret_val, device, question>>
BY DEF AnswerLayers, ReadLayers, ReadLine, StopReading, FailToRead, CloseLayers, Calling

\* As long as the report is written, the control is left in order by every call.
LEMMA CallingControl ==
  ASSUME ControlInv, phase \in {"head", "check"}, Calling, UNCHANGED <<args, device>>,
         phase' \in {"check", "close"}
  PROVE  ControlInv'
<1>1. PICK call : call # "load" /\ (Succeed \/ Fail(call))
  BY DEF Calling
<1>2. /\ MapFits' /\ ("load" \in trouble' <=> "load" \in trouble)
      /\ map.err # "none" => map'.err # "none"
  BY <1>1, Called DEF ControlInv
<1>3. QED BY <1>2 DEF ControlInv, Opened

LEMMA CloseControl == ControlInv /\ CloseOutput => ControlInv'
<1>1. SUFFICES ASSUME ControlInv, CloseOutput PROVE ControlInv'
  OBVIOUS
<1>2. CASE device # "truncated" /\ UNCHANGED <<map, trouble, device>>
  BY <1>1, <1>2 DEF CloseOutput, ControlInv, Opened, MapFits, StoreType, TargetsAreModules
<1>3. CASE device = "truncated" /\ device' = "all" /\ UNCHANGED <<map, trouble>>
  BY <1>1, <1>3 DEF CloseOutput, ControlInv, Opened, MapFits, StoreType, TargetsAreModules
<1>4. CASE device = "truncated" /\ trouble' = trouble \cup {"close"} /\ map' = Raise(map, "system")
  <2>1. MapFits' /\ map'.err # "none"
    BY <1>1, <1>4, RaiseKeeps DEF ControlInv, MapFits, TargetsAreModules
  <2>2. QED BY <1>1, <1>4, <2>1 DEF CloseOutput, ControlInv, Opened
<1>5. QED BY <1>1, <1>2, <1>3, <1>4 DEF CloseOutput

LEMMA MainControl == ControlInv /\ (Main \/ Exit) => ControlInv'
<1>1. SUFFICES ASSUME ControlInv, Main \/ Exit PROVE ControlInv'
  OBVIOUS
<1>2. MapFits'
  BY <1>1 DEF Main, Exit, ControlInv, MapFits, StoreType, TargetsAreModules
<1>3. CASE Main
  BY <1>1, <1>2, <1>3 DEF Main, ErrorStatus, ControlInv, EXIT_TROUBLE
<1>4. CASE Exit
  BY <1>1, <1>2, <1>4 DEF Exit, ControlInv
<1>5. QED BY <1>1, <1>3, <1>4

\* Whoever has raised an error, the checks stay the same, and so does their order.
LEMMA CallingSame ==
  ASSUME MapFits, Calling
  PROVE  /\ MapFits' /\ SameTables /\ (map'.err = "none" => map' = map)
         /\ map.err # "none" => map'.err # "none"
         /\ Checks(map') = Checks(map)
         /\ \A c : Entry(map', c) = Entry(map, c)
         /\ \A c : AsksLayers(c)' <=> AsksLayers(c)
<1>1. PICK call : call # "load" /\ (Succeed \/ Fail(call))
  BY DEF Calling
<1>2. /\ MapFits' /\ SameTables /\ (map'.err = "none" => map' = map)
      /\ map.err # "none" => map'.err # "none"
  BY <1>1, Called
<1>3. Checks(map') = Checks(map) /\ \A c : Entry(map', c) = Entry(map, c)
  BY <1>2, FoundSame DEF SameTables
<1>4. \A c : AsksLayers(c)' <=> AsksLayers(c)
  BY <1>3 DEF AsksLayers
<1>5. QED BY <1>2, <1>3, <1>4

LEMMA OrderInit == Init => OrderInv
BY DEF Init, OrderInv, NotReading

\* The check that is next is one.
LEMMA NextIsOne ==
  ASSUME MapFits, OrderInv, NEW c \in pending, IsNext(c), NEW d \in pending, IsNext(d)
  PROVE  c = d
<1>1. c # d => Before(c, d) /\ Before(d, c)
  BY DEF IsNext
<1>2. QED BY <1>1, BeforeOrders DEF MapFits, OrderInv

\* After a check nothing is asked.
LEMMA CheckLayer ==
  ASSUME ControlInv, OrderInv, Check
  PROVE  reading' = "no"
<1>1. PICK c \in pending : IsNext(c) /\ IF AsksLayers(c) THEN TakeAnswer ELSE UNCHANGED layer
  BY CheckMoves
<1>2. CASE AsksLayers(c)
  BY <1>1, <1>2 DEF TakeAnswer
<1>3. CASE ~AsksLayers(c)
  <2>1. reading = "no"
    BY <1>1, <1>3, NextIsOne DEF OrderInv, ControlInv
  <2>2. QED BY <1>1, <1>3, <2>1 DEF layer
<1>4. QED BY <1>2, <1>3

LEMMA CheckOrder == ControlInv /\ OrderInv /\ Check => OrderInv'
<1>1. SUFFICES ASSUME ControlInv, OrderInv, Check PROVE OrderInv'
  OBVIOUS
<1>2. PICK c \in pending : /\ IsNext(c) /\ pending' = pending \ {c}
                          /\ IF AsksLayers(c) THEN TakeAnswer ELSE UNCHANGED layer
  BY <1>1, CheckMoves
<1>3. phase = "check" /\ phase' = "check" /\ Checks(map') = Checks(map)
  BY <1>1, CheckMoves, CallingSame DEF ControlInv
<1>4. reading' = "no" /\ NotReading'
  <2>1. reading' = "no"
    BY <1>1, CheckLayer
  <2>2. CASE AsksLayers(c)
    BY <1>2, <2>2 DEF TakeAnswer, NotReading
  <2>3. CASE ~AsksLayers(c)
    BY <1>1, <1>2, <2>1, <2>3 DEF OrderInv, NotReading, layer
  <2>4. QED BY <2>1, <2>2, <2>3
<1>5. \A d \in pending' : Before(c, d)
  BY <1>2 DEF IsNext
<1>6. QED BY <1>1, <1>2, <1>3, <1>4, <1>5 DEF OrderInv

LEMMA AskOrder == ControlInv /\ OrderInv /\ AskLayers => OrderInv'
<1>1. SUFFICES ASSUME ControlInv, OrderInv, AskLayers PROVE OrderInv'
  OBVIOUS
<1>2. /\ phase = "check" /\ phase' = "check" /\ pending' = pending
      /\ reading' \in {"read", "answered"} /\ Calling
  BY <1>1, AskMoves
<1>3. /\ Checks(map') = Checks(map) /\ \A c : Entry(map', c) = Entry(map, c)
      /\ \A c : AsksLayers(c)' <=> AsksLayers(c)
  BY <1>1, <1>2, CallingSame DEF ControlInv
<1>4. PICK c \in pending : /\ IsNext(c) /\ AsksLayers(c)
                          /\ question' = <<Entry(map, c).module, Entry(map, c).target>>
  BY <1>1, AskMoves
<1>5. c \in pending' /\ IsNext(c)' /\ AsksLayers(c)'
      /\ question' = <<Entry(map', c).module, Entry(map', c).target>>
  BY <1>2, <1>3, <1>4 DEF IsNext
<1>6. QED BY <1>1, <1>2, <1>3, <1>5 DEF OrderInv

LEMMA AnswerOrder == ControlInv /\ OrderInv /\ AnswerLayers => OrderInv'
<1>1. SUFFICES ASSUME ControlInv, OrderInv, AnswerLayers PROVE OrderInv'
  OBVIOUS
<1>2. /\ phase' = phase /\ pending' = pending /\ question' = question
      /\ reading # "no" /\ reading' \in {"read", "close", "answered"} /\ Calling
  BY <1>1, AnswerMoves
<1>3. /\ Checks(map') = Checks(map) /\ \A c : Entry(map', c) = Entry(map, c)
      /\ \A c : AsksLayers(c)' <=> AsksLayers(c)
  BY <1>1, <1>2, CallingSame DEF ControlInv
<1>4. PICK c \in pending : /\ IsNext(c) /\ AsksLayers(c)
                          /\ question = <<Entry(map, c).module, Entry(map, c).target>>
  BY <1>1, <1>2 DEF OrderInv
<1>5. c \in pending' /\ IsNext(c)' /\ AsksLayers(c)'
      /\ question' = <<Entry(map', c).module, Entry(map', c).target>>
  BY <1>2, <1>3, <1>4 DEF IsNext
<1>6. QED BY <1>1, <1>2, <1>3, <1>5 DEF OrderInv

\* Before and after the checks nothing is asked.
LEMMA OtherOrder ==
  ControlInv /\ OrderInv /\ (Load \/ OpenOutput \/ WriteHead \/ WriteTail \/ CloseOutput \/ Main \/ Exit)
    => OrderInv'
<1>1. SUFFICES ASSUME ControlInv, OrderInv,
                      Load \/ OpenOutput \/ WriteHead \/ WriteTail \/ CloseOutput \/ Main \/ Exit
               PROVE  OrderInv'
  OBVIOUS
<1>2. reading = "no" /\ NotReading /\ UNCHANGED layer
  BY <1>1 DEF OrderInv, Load, OpenOutput, WriteHead, WriteTail, CloseOutput, Main, Exit
<1>3. reading' = "no" /\ NotReading'
  BY <1>2 DEF layer, NotReading
<1>4. CASE WriteHead
  <2>1. phase' = "check" /\ Checks(map') = Checks(map) /\ pending' = Checks(map)
    BY <1>1, <1>4, WritingCalls, CallingSame DEF WriteHead, ControlInv
  <2>2. QED BY <1>3, <2>1 DEF OrderInv
<1>5. CASE Load \/ OpenOutput \/ WriteTail \/ CloseOutput \/ Main \/ Exit
  <2>1. phase' # "check" /\ pending' = {}
    BY <1>1, <1>5 DEF OrderInv, Load, OpenOutput, WriteTail, CloseOutput, Main, Exit
  <2>2. QED BY <1>3, <2>1 DEF OrderInv
<1>6. QED BY <1>1, <1>4, <1>5

LEMMA InOrder == Spec => [](ControlInv /\ OrderInv)
<1>1. ASSUME ControlInv, OrderInv, [Next]_vars PROVE ControlInv' /\ OrderInv'
  <2>1. CASE Load \/ OpenOutput \/ CloseOutput \/ Main \/ Exit
    BY <1>1, <2>1, LoadControl, OpenControl, CloseControl, MainControl, OtherOrder
  <2>2. CASE WriteHead \/ WriteTail
    <3>1. phase \in {"head", "check"} /\ phase' \in {"check", "close"} /\ UNCHANGED <<args, device>>
      BY <2>2 DEF WriteHead, WriteTail
    <3>2. Calling
      BY <2>2, WritingCalls DEF WriteHead, WriteTail
    <3>3. QED BY <1>1, <2>2, <3>1, <3>2, CallingControl, OtherOrder
  <2>3. CASE Check
    BY <1>1, <2>3, CheckMoves, CallingControl, CheckOrder
  <2>4. CASE AskLayers
    BY <1>1, <2>4, AskMoves, CallingControl, AskOrder
  <2>5. CASE AnswerLayers
    <3>1. phase = "check"
      BY <1>1, <2>5, AnswerMoves DEF OrderInv
    <3>2. QED BY <1>1, <2>5, <3>1, AnswerMoves, CallingControl, AnswerOrder
  <2>6. CASE UNCHANGED vars
    BY <1>1, <2>6 DEF vars, loop, layer, ControlInv, OrderInv, MapFits, StoreType, TargetsAreModules,
       Opened, NotReading, IsNext, AsksLayers
  <2>7. QED BY <1>1, <2>1, <2>2, <2>3, <2>4, <2>5, <2>6 DEF Next
<1>2. QED BY <1>1, ControlInit, OrderInit, PTL DEF Spec

\* A load that fails leaves the report of an earlier run as it is: the output is not
\* even opened (runner.c:26-34).
THEOREM FailedLoadStays == Spec => []FailedLoadTouchesNothing
<1>1. ControlInv => FailedLoadTouchesNothing
  BY DEF ControlInv, FailedLoadTouchesNothing
<1>2. QED BY <1>1, InOrder, PTL

\* A report to a file of which the status says that it was written has arrived:
\* main looks at the error object after the close (runner.c:59-64, main.c:68-86).
THEOREM FileArrives == Spec => []FileReportArrives
<1>1. ControlInv => FileReportArrives
  BY DEF ControlInv, FileReportArrives
<1>2. QED BY <1>1, InOrder, PTL

-----------------------------------------------------------------------------
(* Trimming. *)

LEMMA LeastNat ==
  ASSUME NEW S, S \subseteq Nat, S # {}
  PROVE  Min(S) \in S /\ \A i \in S : Min(S) <= i
<1>1. PICK i \in S : \A j \in S : <<j, i>> \notin OpToRel(<, Nat)
  BY NatLessThanWellFounded, WFMin
<1>2. \A j \in S : ~(j < i)
  BY <1>1 DEF OpToRel
<1>3. \A j \in S : i <= j
  BY <1>2
<1>4. QED BY <1>3 DEF Min

LEMMA GreatestNat ==
  ASSUME NEW S, S \subseteq Nat, S # {}, NEW x \in Nat, \A i \in S : i <= x
  PROVE  Max(S) \in S /\ \A i \in S : i <= Max(S)
<1> DEFINE T == {x - i : i \in S}
<1>1. T \subseteq Nat /\ T # {}
  <2>1. \A i \in S : x - i \in Nat
    OBVIOUS
  <2>2. QED BY <2>1
<1>2. Min(T) \in T /\ \A u \in T : Min(T) <= u
  BY <1>1, LeastNat
<1>3. PICK i \in S : Min(T) = x - i
  BY <1>2
<1>4. ASSUME NEW j \in S PROVE j <= i
  <2>1. x - i <= x - j
    BY <1>2, <1>3
  <2>2. QED BY <2>1
<1>5. \A j \in S : i >= j
  BY <1>4
<1>6. QED BY <1>5 DEF Max

\* The word w stands alone in s, k blanks from the beginning.
Alone(s, w, k) ==
  /\ k \in Nat /\ k + Len(w) <= Len(s)
  /\ \A i \in 1..k : s[i] \in Blanks
  /\ \A i \in 1..Len(w) : s[k + i] = w[i]
  /\ \A i \in (k + Len(w) + 1)..Len(s) : s[i] \in Blanks

LEMMA SubSeqIs ==
  ASSUME NEW s \in Seq(Bytes), NEW lo \in Nat, NEW hi \in Nat, lo >= 1, hi <= Len(s), lo <= hi + 1
  PROVE  /\ SubSeq(s, lo, hi) \in Seq(Bytes)
         /\ Len(SubSeq(s, lo, hi)) = hi - lo + 1
         /\ \A i \in 1..hi - lo + 1 : SubSeq(s, lo, hi)[i] = s[lo + i - 1]
OBVIOUS

\* Trimming leaves the word that stands alone.
LEMMA TrimLeaves ==
  ASSUME NEW s \in Seq(Bytes)
  PROVE  /\ Trim(s) \in Seq(Bytes) /\ Trimmed(Trim(s))
         /\ \E k \in Nat : Alone(s, Trim(s), k)
<1>1. CASE Ink(s) = {}
  <2>1. Trim(s) = << >>
    BY <1>1 DEF Trim
  <2>2. \A i \in 1..Len(s) : s[i] \in Blanks
    BY <1>1 DEF Ink
  <2>3. Alone(s, Trim(s), 0)
    BY <2>1, <2>2 DEF Alone
  <2>4. 0 \in Nat /\ Trim(s) \in Seq(Bytes)
    BY <2>1
  <2>5. Trimmed(Trim(s))
    BY <2>1, Zenon DEF Trimmed
  <2>6. QED BY <2>3, <2>4, <2>5
<1>2. CASE Ink(s) # {}
  <2> DEFINE lo == Min(Ink(s))
             hi == Max(Ink(s))
  <2>1. Ink(s) \subseteq 1..Len(s) /\ Ink(s) \subseteq Nat
    BY DEF Ink
  <2>2. lo \in Ink(s) /\ \A i \in Ink(s) : lo <= i
    BY <1>2, <2>1, LeastNat
  <2>3. hi \in Ink(s) /\ \A i \in Ink(s) : i <= hi
    BY <1>2, <2>1, GreatestNat
  <2>4. Trim(s) = SubSeq(s, lo, hi)
    BY <1>2 DEF Trim
  <2> HIDE DEF lo, hi
  <2>5. lo \in 1..Len(s) /\ hi \in 1..Len(s) /\ lo <= hi
    BY <2>1, <2>2, <2>3
  <2>6. /\ Trim(s) \in Seq(Bytes) /\ Len(Trim(s)) = hi - lo + 1
        /\ \A i \in 1..hi - lo + 1 : Trim(s)[i] = s[lo + i - 1]
    BY <2>4, <2>5, SubSeqIs
  <2>7. s[lo] \notin Blanks /\ s[hi] \notin Blanks
    BY <2>2, <2>3 DEF Ink
  <2>8. Trim(s)[1] = s[lo] /\ Trim(s)[Len(Trim(s))] = s[hi]
    BY <2>5, <2>6
  <2>9. \A i \in 1..Len(s) : i < lo \/ i > hi => s[i] \in Blanks
    BY <2>2, <2>3, <2>5 DEF Ink
  <2>10. Alone(s, Trim(s), lo - 1)
    BY <2>5, <2>6, <2>9 DEF Alone
  <2>11. QED BY <2>5, <2>6, <2>7, <2>8, <2>10 DEF Trimmed
<1>3. QED BY <1>1, <1>2

\* There is only one such word.
LEMMA AloneOnce ==
  ASSUME NEW s \in Seq(Bytes), NEW v \in Seq(Bytes), NEW w \in Seq(Bytes),
         Trimmed(v), Trimmed(w), NEW k \in Nat, NEW l \in Nat, Alone(s, v, k), Alone(s, w, l)
  PROVE  v = w
<1>1. Len(v) \in Nat /\ Len(w) \in Nat /\ Len(s) \in Nat
  OBVIOUS
<1>2. ASSUME NEW x \in Seq(Bytes), NEW y \in Seq(Bytes), Trimmed(x), NEW i \in Nat, NEW j \in Nat,
             Alone(s, x, i), Alone(s, y, j), x # << >>
      PROVE  y # << >> /\ j <= i /\ i + Len(x) <= j + Len(y)
  <2>1. Len(x) \in Nat /\ Len(x) > 0 /\ Len(y) \in Nat
    BY <1>2
  <2>2. /\ i + 1 \in 1..Len(s) /\ s[i + 1] = x[1]
        /\ i + Len(x) \in 1..Len(s) /\ s[i + Len(x)] = x[Len(x)]
    BY <1>1, <1>2, <2>1 DEF Alone
  <2>3. s[i + 1] \notin Blanks /\ s[i + Len(x)] \notin Blanks
    BY <1>2, <2>2 DEF Trimmed
  <2>4. \A n \in 1..Len(s) : n <= j \/ n >= j + Len(y) + 1 => s[n] \in Blanks
    BY <1>1, <1>2, <2>1 DEF Alone
  <2>5. i + 1 > j /\ i + Len(x) < j + Len(y) + 1
    BY <2>1, <2>2, <2>3, <2>4
  <2>6. QED BY <2>1, <2>5
<1>3. CASE v = << >>
  BY <1>2, <1>3
<1>4. CASE v # << >>
  <2>1. w # << >> /\ k = l /\ Len(v) = Len(w)
    BY <1>1, <1>2, <1>4
  <2>2. \A i \in 1..Len(v) : v[i] = w[i]
    BY <2>1 DEF Alone
  <2>3. QED BY <2>1, <2>2
<1>5. QED BY <1>3, <1>4

LEMMA TrimIs ==
  ASSUME NEW s \in Seq(Bytes), NEW w \in Seq(Bytes), Trimmed(w), NEW k \in Nat, Alone(s, w, k)
  PROVE  Trim(s) = w
BY TrimLeaves, AloneOnce

-----------------------------------------------------------------------------
(* An edge on a line. *)

\* A line that is "from -> target", byte by byte: i blanks, from, j blanks, the
\* arrow, k blanks, target, blanks.
Spelt(s, from, target, i, j, k) ==
  LET arrow == i + Len(from) + j
      rest == arrow + 2 + k + Len(target)
  IN /\ i \in Nat /\ j \in Nat /\ k \in Nat /\ rest <= Len(s)
     /\ \A n \in 1..i : s[n] \in Blanks
     /\ \A n \in 1..Len(from) : s[i + n] = from[n]
     /\ \A n \in (i + Len(from) + 1)..arrow : s[n] \in Blanks
     /\ s[arrow + 1] = "-" /\ s[arrow + 2] = ">"
     /\ \A n \in (arrow + 3)..(arrow + 2 + k) : s[n] \in Blanks
     /\ \A n \in 1..Len(target) : s[arrow + 2 + k + n] = target[n]
     /\ \A n \in (rest + 1)..Len(s) : s[n] \in Blanks

\* SubSeq as the lemmas below name it.
Part(s, lo, hi) == SubSeq(s, lo, hi)

LEMMA PartBytes ==
  ASSUME NEW s \in Seq(Bytes), NEW lo \in Nat, NEW hi \in Nat, lo >= 1, hi <= Len(s), lo <= hi + 1
  PROVE  /\ Part(s, lo, hi) \in Seq(Bytes)
         /\ Len(Part(s, lo, hi)) = hi - lo + 1
         /\ \A i \in 1..hi - lo + 1 : Part(s, lo, hi)[i] = s[lo + i - 1]
BY SubSeqIs DEF Part

\* Equal to a part of a line, or blank, means byte by byte.
LEMMA PartIs ==
  ASSUME NEW s \in Seq(Bytes), NEW w \in Seq(Bytes), NEW k \in Nat, k + Len(w) <= Len(s)
  PROVE  Part(s, k + 1, k + Len(w)) = w <=> \A n \in 1..Len(w) : s[k + n] = w[n]
<1> DEFINE part == Part(s, k + 1, k + Len(w))
<1>1. k + 1 \in Nat /\ k + Len(w) \in Nat /\ k + 1 >= 1 /\ k + 1 <= (k + Len(w)) + 1
  OBVIOUS
<1>2. part \in Seq(Bytes) /\ Len(part) = (k + Len(w)) - (k + 1) + 1
      /\ \A n \in 1..(k + Len(w)) - (k + 1) + 1 : part[n] = s[(k + 1) + n - 1]
  BY <1>1, PartBytes
<1> HIDE DEF part
<1>3. Len(part) = Len(w) /\ \A n \in 1..Len(w) : part[n] = s[k + n]
  BY <1>2
<1>4. part = w => \A n \in 1..Len(w) : s[k + n] = w[n]
  BY <1>3
<1>5. (\A n \in 1..Len(w) : part[n] = w[n]) => part = w
  BY <1>2, <1>3
<1>6. QED BY <1>3, <1>4, <1>5 DEF part

LEMMA BlankIs ==
  ASSUME NEW s \in Seq(Bytes), NEW lo \in Nat, NEW hi \in Nat, lo >= 1, lo <= hi + 1, hi <= Len(s)
  PROVE  Blank(Part(s, lo, hi)) <=> \A n \in lo..hi : s[n] \in Blanks
<1> DEFINE part == Part(s, lo, hi)
<1>1. /\ part \in Seq(Bytes) /\ Len(part) = hi - lo + 1
      /\ \A n \in 1..hi - lo + 1 : part[n] = s[lo + n - 1]
  BY PartBytes
<1> HIDE DEF part
<1>2. Blank(part) <=> \A n \in 1..hi - lo + 1 : s[lo + n - 1] \in Blanks
  <2>1. DOMAIN part = 1..hi - lo + 1
    BY <1>1
  <2>2. QED BY <1>1, <2>1 DEF Blank
<1>3. ASSUME \A n \in 1..hi - lo + 1 : s[lo + n - 1] \in Blanks, NEW n \in lo..hi
      PROVE  s[n] \in Blanks
  <2>1. n - lo + 1 \in 1..hi - lo + 1 /\ lo + (n - lo + 1) - 1 = n
    OBVIOUS
  <2>2. QED BY <1>3, <2>1
<1>4. (\A n \in lo..hi : s[n] \in Blanks) => \A n \in 1..hi - lo + 1 : s[lo + n - 1] \in Blanks
  OBVIOUS
<1>5. QED BY <1>2, <1>3, <1>4 DEF part

LEMMA AfterIs ==
  ASSUME NEW s \in Seq(Bytes), NEW m \in Nat, NEW n \in Nat, n = Len(s), m <= n
  PROVE  /\ After(s, m) \in Seq(Bytes) /\ Len(After(s, m)) = n - m
         /\ \A i \in 1..n - m : After(s, m)[i] = s[m + i]
         /\ Blank(After(s, m)) <=> \A i \in (m + 1)..n : s[i] \in Blanks
<1>1. PICK lo \in Nat : lo = m + 1
  OBVIOUS
<1>2. After(s, m) = Part(s, lo, n)
  BY <1>1, Zenon DEF After, Part
<1>8. lo >= 1 /\ lo <= n + 1 /\ lo \in Nat /\ n <= Len(s)
  BY <1>1
<1>3. /\ Part(s, lo, n) \in Seq(Bytes) /\ Len(Part(s, lo, n)) = n - lo + 1
      /\ \A i \in 1..n - lo + 1 : Part(s, lo, n)[i] = s[lo + i - 1]
  BY <1>8, PartBytes
<1>4. Blank(Part(s, lo, n)) <=> \A i \in lo..n : s[i] \in Blanks
  BY <1>8, BlankIs
<1>5. n - lo + 1 = n - m
  BY <1>1
<1>6. ASSUME NEW i \in 1..n - m PROVE After(s, m)[i] = s[m + i]
  <2>1. i \in 1..n - lo + 1 /\ lo + i - 1 = m + i
    BY <1>1
  <2>2. QED BY <1>2, <1>3, <2>1
<1>7. QED BY <1>1, <1>2, <1>3, <1>4, <1>5, <1>6

LEMMA AfterBytes ==
  ASSUME NEW s \in Seq(Bytes), NEW m \in Nat, m <= Len(s)
  PROVE  /\ After(s, m) \in Seq(Bytes) /\ Len(After(s, m)) = Len(s) - m
         /\ \A i \in 1..Len(s) - m : After(s, m)[i] = s[m + i]
<1>1. PICK n \in Nat : n = Len(s)
  OBVIOUS
<1>2. n \in Nat /\ n = Len(s) /\ m <= n
  BY <1>1
<1>3. After(s, m) \in Seq(Bytes) /\ Len(After(s, m)) = n - m
  BY <1>2, AfterIs
<1>4. \A i \in 1..n - m : After(s, m)[i] = s[m + i]
  BY <1>2, AfterIs
<1>5. QED BY <1>1, <1>3, <1>4

\* What follows the first a bytes, byte by byte.
LEMMA RestBlank ==
  ASSUME NEW s \in Seq(Bytes), NEW a \in Nat, NEW k \in Nat, NEW n \in Nat, n = Len(s), a + k <= n
  PROVE  Blank(Part(After(s, a), 1, k)) <=> \A m \in (a + 1)..(a + k) : s[m] \in Blanks
<1>2. a <= n
  OBVIOUS
<1>3. After(s, a) \in Seq(Bytes) /\ Len(After(s, a)) = n - a
  BY <1>2, AfterIs
<1>4. \A m \in 1..n - a : After(s, a)[m] = s[a + m]
  BY <1>2, AfterIs
<1>5. Blank(Part(After(s, a), 1, k)) <=> \A m \in 1..k : After(s, a)[m] \in Blanks
  <2>1. 1 \in Nat /\ 1 >= 1 /\ 1 <= k + 1 /\ k <= Len(After(s, a))
    BY <1>3
  <2>2. QED BY <1>3, <2>1, BlankIs
<1>6. \A m \in 1..k : After(s, a)[m] = s[a + m]
  BY <1>4
<1>7. ASSUME \A m \in 1..k : s[a + m] \in Blanks, NEW m \in (a + 1)..(a + k)
      PROVE  s[m] \in Blanks
  <2>1. m - a \in 1..k /\ a + (m - a) = m
    OBVIOUS
  <2>2. QED BY <1>7, <2>1
<1>8. (\A m \in (a + 1)..(a + k) : s[m] \in Blanks) => \A m \in 1..k : s[a + m] \in Blanks
  OBVIOUS
<1>9. QED BY <1>5, <1>6, <1>7, <1>8

LEMMA RestAfter ==
  ASSUME NEW s \in Seq(Bytes), NEW a \in Nat, NEW k \in Nat, NEW n \in Nat, n = Len(s), a + k <= n
  PROVE  Blank(After(After(s, a), k)) <=> \A m \in (a + k + 1)..n : s[m] \in Blanks
<1>1. PICK l \in Nat : l = n - a
  <2>1. n - a \in Nat
    OBVIOUS
  <2>2. QED BY <2>1
<1>2. a <= n /\ k <= l
  BY <1>1
<1>3. After(s, a) \in Seq(Bytes) /\ Len(After(s, a)) = l
  BY <1>1, <1>2, AfterIs
<1>4. \A m \in 1..l : After(s, a)[m] = s[a + m]
  <2>1. \A m \in 1..n - a : After(s, a)[m] = s[a + m]
    BY <1>2, AfterIs
  <2>2. QED BY <1>1, <2>1
<1>5. Blank(After(After(s, a), k)) <=> \A m \in (k + 1)..l : After(s, a)[m] \in Blanks
  BY <1>1, <1>2, <1>3, AfterIs
<1>6. \A m \in (k + 1)..l : After(s, a)[m] = s[a + m]
  BY <1>1, <1>4
<1>7. ASSUME \A m \in (k + 1)..l : s[a + m] \in Blanks, NEW m \in (a + k + 1)..n
      PROVE  s[m] \in Blanks
  <2>1. m - a \in (k + 1)..l /\ a + (m - a) = m
    BY <1>1
  <2>2. QED BY <1>7, <2>1
<1>8. ASSUME \A m \in (a + k + 1)..n : s[m] \in Blanks, NEW m \in (k + 1)..l
      PROVE  s[a + m] \in Blanks
  <2>1. a + m \in (a + k + 1)..n
    BY <1>1
  <2>2. QED BY <1>8, <2>1
<1>9. QED BY <1>1, <1>5, <1>6, <1>7, <1>8

LEMMA ArrowPart ==
  ASSUME NEW s \in Seq(Bytes), NEW lo \in Nat, NEW hi \in Nat, lo >= 1, hi = lo + 1, hi <= Len(s)
  PROVE  Part(s, lo, hi) = <<"-", ">">> <=> s[lo] = "-" /\ s[hi] = ">"
<1>0. lo <= hi + 1
  OBVIOUS
<1>1. /\ Part(s, lo, hi) \in Seq(Bytes) /\ Len(Part(s, lo, hi)) = hi - lo + 1
      /\ \A m \in 1..hi - lo + 1 : Part(s, lo, hi)[m] = s[lo + m - 1]
  BY <1>0, PartBytes
<1>2. Len(Part(s, lo, hi)) = 2 /\ Part(s, lo, hi)[1] = s[lo] /\ Part(s, lo, hi)[2] = s[hi]
  <2>1. hi - lo + 1 = 2 /\ 1 \in 1..hi - lo + 1 /\ 2 \in 1..hi - lo + 1
        /\ lo + 1 - 1 = lo /\ lo + 2 - 1 = hi
    OBVIOUS
  <2> DEFINE part == Part(s, lo, hi)
  <2> HIDE DEF part
  <2>2. part[1] = s[lo + 1 - 1] /\ part[2] = s[lo + 2 - 1]
    BY <1>1, <2>1 DEF part
  <2>3. QED BY <1>1, <2>1, <2>2 DEF part
<1>3. QED BY <1>1, <1>2

\* So is what Written says of a part.
IsPart(s, lo, hi, w) == SubSeq(s, lo, hi) = w

\* The parts that Written compares are the bytes that Spelt does.
LEMMA PartsSpell ==
  ASSUME NEW s \in Seq(Bytes), NEW from \in Seq(Bytes), NEW target \in Seq(Bytes),
         NEW i \in Nat, NEW j \in Nat, NEW k \in Nat, NEW f \in Nat, f = Len(from),
         NEW t \in Nat, t = Len(target), NEW n \in Nat, n = Len(s),
         NEW arrow \in Nat, arrow = i + f + j, arrow + 2 + k + t <= n
  PROVE  Spelt(s, from, target, i, j, k) <=>
           /\ Blank(Part(s, 1, i)) /\ IsPart(s, i + 1, i + f, from)
           /\ Blank(Part(s, i + f + 1, arrow))
           /\ IsPart(s, arrow + 1, arrow + 2, <<"-", ">">>)
           /\ Blank(Part(After(s, arrow + 2), 1, k))
           /\ IsPart(After(s, arrow + 2), k + 1, k + t, target)
           /\ Blank(After(After(s, arrow + 2), k + t))
<1>1. PICK a \in Nat, b \in Nat, e \in Nat : a = arrow + 2 /\ b = i + f + 1 /\ e = k + t
  OBVIOUS
<1>2. Blank(Part(s, 1, i)) <=> \A m \in 1..i : s[m] \in Blanks
  <2>1. 1 \in Nat /\ 1 >= 1 /\ 1 <= i + 1 /\ i <= Len(s)
    OBVIOUS
  <2>2. QED BY <2>1, BlankIs
<1>3. Part(s, i + 1, i + f) = from <=> \A m \in 1..f : s[i + m] = from[m]
  <2>1. i + Len(from) <= Len(s)
    OBVIOUS
  <2>2. Part(s, i + 1, i + Len(from)) = from <=> \A m \in 1..Len(from) : s[i + m] = from[m]
    BY <2>1, PartIs, ZenonT(30)
  <2>3. QED BY <2>2
<1>4. Blank(Part(s, b, arrow)) <=> \A m \in b..arrow : s[m] \in Blanks
  <2>1. b \in Nat /\ b >= 1 /\ b <= arrow + 1 /\ arrow <= Len(s)
    BY <1>1
  <2>2. QED BY <2>1, BlankIs
<1>5. Part(s, arrow + 1, arrow + 2) = <<"-", ">">> <=> s[arrow + 1] = "-" /\ s[arrow + 2] = ">"
  <2>1. PICK lo \in Nat, hi \in Nat : lo = arrow + 1 /\ hi = arrow + 2
    OBVIOUS
  <2>2. lo \in Nat /\ hi \in Nat /\ lo >= 1 /\ hi = lo + 1 /\ hi <= Len(s)
    BY <2>1
  <2>3. Part(s, lo, hi) = <<"-", ">">> <=> s[lo] = "-" /\ s[hi] = ">"
    BY <2>2, ArrowPart, SMTT(60)
  <2>4. QED BY <2>1, <2>3
<1>6. Blank(Part(After(s, a), 1, k)) <=> \A m \in (a + 1)..(a + k) : s[m] \in Blanks
  <2>1. a \in Nat /\ a + k <= n
    BY <1>1
  <2>2. QED BY <2>1, RestBlank
<1>7. Part(After(s, a), k + 1, k + t) = target <=> \A m \in 1..t : s[a + k + m] = target[m]
  <2>1. a \in Nat /\ a <= n
    BY <1>1
  <2>9. a \in Nat /\ a <= Len(s)
    BY <2>1
  <2>2. /\ After(s, a) \in Seq(Bytes) /\ Len(After(s, a)) = n - a
        /\ \A m \in 1..n - a : After(s, a)[m] = s[a + m]
    BY <2>9, AfterBytes
  <2>3. \A m \in 1..n - a : After(s, a)[m] = s[a + m]
    BY <2>2
  <2>4. PICK rest \in Seq(Bytes) : rest = After(s, a)
    BY <2>2
  <2>5. rest \in Seq(Bytes) /\ k + Len(target) <= Len(rest)
    BY <1>1, <2>2, <2>4
  <2>6. Part(rest, k + 1, k + Len(target)) = target <=>
             \A m \in 1..Len(target) : rest[k + m] = target[m]
    BY <2>5, PartIs
  <2>7. ASSUME NEW m \in 1..t PROVE rest[k + m] = s[a + k + m]
    <3>1. k + m \in 1..n - a /\ a + (k + m) = a + k + m
      BY <1>1, <2>1
    <3>2. QED BY <2>3, <2>4, <3>1
  <2>8. QED BY <2>4, <2>6, <2>7
<1>8. Blank(After(After(s, a), e)) <=> \A m \in (a + e + 1)..n : s[m] \in Blanks
  <2>1. a \in Nat /\ e \in Nat /\ a + e <= n
    BY <1>1
  <2>2. QED BY <2>1, RestAfter
<1>9. Spelt(s, from, target, i, j, k) <=>
         /\ \A m \in 1..i : s[m] \in Blanks
         /\ \A m \in 1..f : s[i + m] = from[m]
         /\ \A m \in b..arrow : s[m] \in Blanks
         /\ s[arrow + 1] = "-" /\ s[arrow + 2] = ">"
         /\ \A m \in (a + 1)..(a + k) : s[m] \in Blanks
         /\ \A m \in 1..t : s[a + k + m] = target[m]
         /\ \A m \in (a + e + 1)..n : s[m] \in Blanks
  <2>1. /\ i + Len(from) + j = arrow /\ i + Len(from) + 1 = b /\ Len(from) = f
        /\ arrow + 2 = a /\ arrow + 3 = a + 1 /\ arrow + 2 + k + Len(target) = a + e
        /\ Len(s) = n /\ Len(target) = t /\ a + e <= n
    BY <1>1
  <2>2. QED BY <2>1 DEF Spelt
<1>10. /\ IsPart(s, i + 1, i + f, from) <=> Part(s, i + 1, i + f) = from
       /\ IsPart(s, arrow + 1, arrow + 2, <<"-", ">">>) <=>
             Part(s, arrow + 1, arrow + 2) = <<"-", ">">>
       /\ IsPart(After(s, a), k + 1, k + t, target) <=> Part(After(s, a), k + 1, k + t) = target
  BY Zenon DEF IsPart, Part
<1>11. QED BY <1>1, <1>2, <1>3, <1>4, <1>5, <1>6, <1>7, <1>8, <1>9, <1>10

\* A line is written as an edge if it can be divided that way.
LEMMA WrittenIs ==
  ASSUME NEW s \in Seq(Bytes), NEW from \in Seq(Bytes), NEW target \in Seq(Bytes)
  PROVE  Written(s, from, target) <=> \E i, j, k \in Nat : Spelt(s, from, target, i, j, k)
<1>1. PICK f \in Nat, t \in Nat, n \in Nat : f = Len(from) /\ t = Len(target) /\ n = Len(s)
  OBVIOUS
<1> DEFINE Divided(rest, k) ==
             /\ Blank(Part(rest, 1, k)) /\ IsPart(rest, k + 1, k + t, target)
             /\ Blank(After(rest, k + t))
           Begun(i, j, arrow) ==
             /\ Blank(Part(s, 1, i)) /\ IsPart(s, i + 1, i + f, from)
             /\ Blank(Part(s, i + f + 1, arrow))
             /\ IsPart(s, arrow + 1, arrow + 2, <<"-", ">">>)
<1>2. Written(s, from, target) <=>
        \E i, j \in 0..n :
          /\ i + f + j + 2 <= n /\ Begun(i, j, i + f + j)
          /\ \E k \in 0..Len(After(s, i + f + j + 2)) - t : Divided(After(s, i + f + j + 2), k)
  BY <1>1, ZenonT(40) DEF Written, Part, IsPart
<1>3. ASSUME NEW i \in Nat, NEW j \in Nat, NEW k \in Nat, NEW arrow \in Nat, arrow = i + f + j,
             arrow + 2 + k + t <= n
      PROVE  Spelt(s, from, target, i, j, k)
                  <=> Begun(i, j, arrow) /\ Divided(After(s, arrow + 2), k)
  <2>1. f \in Nat /\ f = Len(from) /\ t \in Nat /\ t = Len(target) /\ n \in Nat /\ n = Len(s)
        /\ arrow = i + f + j /\ arrow + 2 + k + t <= n
    BY <1>1, <1>3
  <2>2. QED BY <2>1, PartsSpell, ZenonT(40)
<1>7. ASSUME NEW a \in Nat, a <= n PROVE Len(After(s, a)) = n - a
  BY <1>1, <1>7, AfterIs
<1> HIDE DEF Divided, Begun
<1>4. ASSUME Written(s, from, target)
      PROVE  \E i, j, k \in Nat : Spelt(s, from, target, i, j, k)
  <2>1. PICK i, j \in 0..n :
          /\ i + f + j + 2 <= n /\ Begun(i, j, i + f + j)
          /\ \E k \in 0..Len(After(s, i + f + j + 2)) - t : Divided(After(s, i + f + j + 2), k)
    BY <1>2, <1>4
  <2>2. PICK arrow \in Nat : arrow = i + f + j
    OBVIOUS
  <2>3. PICK k \in 0..Len(After(s, arrow + 2)) - t : Divided(After(s, arrow + 2), k)
    BY <2>1, <2>2
  <2>4. Len(After(s, arrow + 2)) = n - (arrow + 2)
    <3>1. arrow + 2 \in Nat /\ arrow + 2 <= n
      BY <2>1, <2>2
    <3>2. QED BY <1>7, <3>1
  <2>5. i \in Nat /\ j \in Nat /\ k \in Nat /\ arrow + 2 + k + t <= n
    BY <2>1, <2>3, <2>4
  <2>6. Spelt(s, from, target, i, j, k)
    BY <1>3, <2>1, <2>2, <2>3, <2>5
  <2>7. QED BY <2>5, <2>6
<1>5. ASSUME NEW i \in Nat, NEW j \in Nat, NEW k \in Nat, Spelt(s, from, target, i, j, k)
      PROVE  Written(s, from, target)
  <2>1. PICK arrow \in Nat : arrow = i + f + j
    OBVIOUS
  <2>2. arrow + 2 + k + t <= n
    BY <1>1, <1>5, <2>1 DEF Spelt
  <2>3. Begun(i, j, arrow) /\ Divided(After(s, arrow + 2), k)
    BY <1>3, <1>5, <2>1, <2>2
  <2>6. Len(After(s, arrow + 2)) = n - (arrow + 2)
    <3>1. arrow + 2 \in Nat /\ arrow + 2 <= n
      BY <2>1, <2>2
    <3>2. QED BY <1>7, <3>1
  <2>4. i \in 0..n /\ j \in 0..n /\ arrow + 2 <= n /\ k \in 0..Len(After(s, arrow + 2)) - t
    BY <2>1, <2>2, <2>6
  <2>5. QED BY <1>2, <2>1, <2>3, <2>4
<1>6. QED BY <1>4, <1>5

-----------------------------------------------------------------------------
(* Declares, which takes a line apart from the outside, and Written. *)

\* The lemma TrimLeaves, for the parts of a line.
LEMMA TrimOf ==
  ASSUME NEW s \in Seq(Bytes), NEW w, Trim(s) = w
  PROVE  w \in Seq(Bytes) /\ Trimmed(w) /\ \E k \in Nat : Alone(s, w, k)
BY TrimLeaves

LEMMA ArrowsAt ==
  ASSUME NEW text \in Seq(Bytes), Arrows(text) # {}
  PROVE  /\ Min(Arrows(text)) \in Arrows(text)
         /\ \A i \in Arrows(text) : Min(Arrows(text)) <= i
<1>1. Arrows(text) \subseteq Nat
  BY DEF Arrows
<1>2. QED BY <1>1, LeastNat

\* What is found by taking the line apart is written on it.
LEMMA TakenApart ==
  ASSUME NEW s \in Seq(Bytes), NEW text \in Seq(Bytes), NEW from \in Seq(Bytes),
         NEW target \in Seq(Bytes), NEW c \in Nat, Alone(s, text, c),
         NEW m \in Arrows(text),
         NEW a \in Nat, Alone(Part(text, 1, m - 1), from, a),
         NEW b \in Nat, Alone(After(text, m + 1), target, b)
  PROVE  Spelt(s, from, target, c + a, m - 1 - a - Len(from), b)
<1>1. PICK f \in Nat, t \in Nat, n \in Nat, l \in Nat :
        f = Len(from) /\ t = Len(target) /\ n = Len(s) /\ l = Len(text)
  OBVIOUS
<1>2. /\ m \in Nat /\ m >= 1 /\ m + 1 <= l /\ text[m] = "-" /\ text[m + 1] = ">"
      /\ f \in Nat /\ t \in Nat /\ n \in Nat /\ l \in Nat
  BY <1>1 DEF Arrows
<1>3. /\ c + l <= n
      /\ \A i \in 1..c : s[i] \in Blanks
      /\ \A i \in 1..l : s[c + i] = text[i]
      /\ \A i \in (c + l + 1)..n : s[i] \in Blanks
  BY <1>1 DEF Alone
<1>4. /\ Part(text, 1, m - 1) \in Seq(Bytes)
      /\ Len(Part(text, 1, m - 1)) = m - 1
      /\ \A i \in 1..m - 1 : Part(text, 1, m - 1)[i] = text[i]
  <2>1. PICK lo \in Nat, hi \in Nat : lo = 1 /\ hi = m - 1
    BY <1>2
  <2>2. lo \in Nat /\ hi \in Nat /\ lo >= 1 /\ hi <= Len(text) /\ lo <= hi + 1
    BY <1>1, <1>2, <2>1
  <2>3. /\ Part(text, lo, hi) \in Seq(Bytes)
        /\ Len(Part(text, lo, hi)) = hi - lo + 1
        /\ \A i \in 1..hi - lo + 1 : Part(text, lo, hi)[i] = text[lo + i - 1]
    BY <2>2, PartBytes, SMTT(30)
  <2>4. hi - lo + 1 = m - 1 /\ \A i \in 1..m - 1 : lo + i - 1 = i
    BY <1>2, <2>1
  <2>5. QED BY <2>1, <2>3, <2>4
<1>5. PICK left \in Seq(Bytes) : left = Part(text, 1, m - 1)
  BY <1>4
<1>6. /\ Len(left) = m - 1 /\ a + f <= m - 1
      /\ \A i \in 1..m - 1 : left[i] = text[i]
      /\ \A i \in 1..a : left[i] \in Blanks
      /\ \A i \in 1..f : left[a + i] = from[i]
      /\ \A i \in (a + f + 1)..(m - 1) : left[i] \in Blanks
  <2>1. Alone(left, from, a) /\ Len(left) = m - 1 /\ \A i \in 1..m - 1 : left[i] = text[i]
    BY <1>4, <1>5
  <2>2. QED BY <1>1, <2>1 DEF Alone
<1>7. /\ After(text, m + 1) \in Seq(Bytes) /\ Len(After(text, m + 1)) = l - (m + 1)
      /\ \A i \in 1..l - (m + 1) : After(text, m + 1)[i] = text[m + 1 + i]
  <2>1. m + 1 \in Nat /\ m + 1 <= Len(text)
    BY <1>1, <1>2
  <2>2. QED BY <1>1, <2>1, AfterBytes
<1>8. PICK right \in Seq(Bytes) : right = After(text, m + 1)
  BY <1>7
<1>9. /\ Len(right) = l - (m + 1) /\ b + t <= l - (m + 1)
      /\ \A i \in 1..l - (m + 1) : right[i] = text[m + 1 + i]
      /\ \A i \in 1..b : right[i] \in Blanks
      /\ \A i \in 1..t : right[b + i] = target[i]
      /\ \A i \in (b + t + 1)..(l - (m + 1)) : right[i] \in Blanks
  <2>1. Alone(right, target, b) /\ Len(right) = l - (m + 1)
        /\ \A i \in 1..l - (m + 1) : right[i] = text[m + 1 + i]
    BY <1>7, <1>8
  <2>2. QED BY <1>1, <2>1 DEF Alone
<1>10. PICK j \in Nat, arrow \in Nat, rest \in Nat :
         /\ j = m - 1 - a - f /\ arrow = c + m - 1 /\ rest = arrow + 2 + b + t
         /\ c + a + f + j = arrow /\ rest <= n
  BY <1>2, <1>3, <1>6, <1>9
<1>11. ASSUME NEW i \in 1..c + a PROVE s[i] \in Blanks
  <2>1. CASE i <= c
    BY <1>3, <2>1
  <2>2. CASE i > c
    <3>1. i - c \in 1..a /\ i - c \in 1..m - 1 /\ i - c \in 1..l /\ c + (i - c) = i
      BY <1>2, <1>6, <2>2
    <3>2. QED BY <1>3, <1>6, <3>1
  <2>3. QED BY <2>1, <2>2
<1>12. ASSUME NEW i \in 1..f PROVE s[c + a + i] = from[i]
  <2>1. a + i \in 1..m - 1 /\ a + i \in 1..l /\ c + (a + i) = c + a + i
    BY <1>2, <1>6
  <2>2. QED BY <1>3, <1>6, <2>1
<1>13. ASSUME NEW i \in (c + a + f + 1)..arrow PROVE s[i] \in Blanks
  <2>1. i - c \in (a + f + 1)..(m - 1) /\ i - c \in 1..m - 1 /\ i - c \in 1..l /\ c + (i - c) = i
    BY <1>2, <1>6, <1>10
  <2>2. QED BY <1>3, <1>6, <2>1
<1>14. s[arrow + 1] = "-" /\ s[arrow + 2] = ">"
  <2>1. m \in 1..l /\ m + 1 \in 1..l /\ c + m = arrow + 1 /\ c + (m + 1) = arrow + 2
    BY <1>2, <1>10
  <2>2. QED BY <1>2, <1>3, <2>1
<1>15. ASSUME NEW i \in (arrow + 3)..(arrow + 2 + b) PROVE s[i] \in Blanks
  <2>1. /\ i - arrow - 2 \in 1..b /\ i - arrow - 2 \in 1..l - (m + 1)
        /\ m + 1 + (i - arrow - 2) \in 1..l /\ c + (m + 1 + (i - arrow - 2)) = i
    BY <1>2, <1>9, <1>10
  <2>2. QED BY <1>3, <1>9, <2>1
<1>16. ASSUME NEW i \in 1..t PROVE s[arrow + 2 + b + i] = target[i]
  <2>1. /\ b + i \in 1..l - (m + 1) /\ m + 1 + (b + i) \in 1..l
        /\ c + (m + 1 + (b + i)) = arrow + 2 + b + i
    BY <1>2, <1>9, <1>10
  <2>2. QED BY <1>3, <1>9, <2>1
<1>17. ASSUME NEW i \in (rest + 1)..n PROVE s[i] \in Blanks
  <2>1. CASE i > c + l
    BY <1>3, <1>10, <2>1
  <2>2. CASE i <= c + l
    <3>1. /\ i - arrow - 2 \in (b + t + 1)..(l - (m + 1)) /\ i - arrow - 2 \in 1..l - (m + 1)
          /\ m + 1 + (i - arrow - 2) \in 1..l /\ c + (m + 1 + (i - arrow - 2)) = i
      BY <1>2, <1>9, <1>10, <2>2
    <3>2. QED BY <1>3, <1>9, <3>1
  <2>3. QED BY <1>3, <1>10, <2>1, <2>2
<1>18. Spelt(s, from, target, c + a, j, b)
  <2>1. /\ c + a + Len(from) + j = arrow /\ arrow + 2 + b + Len(target) = rest /\ rest <= Len(s)
        /\ Len(from) = f /\ Len(target) = t /\ Len(s) = n
        /\ c + a \in Nat /\ j \in Nat /\ b \in Nat
    BY <1>1, <1>10
  <2>2. QED BY <2>1, <1>11, <1>12, <1>13, <1>14, <1>15, <1>16, <1>17 DEF Spelt
<1>19. QED BY <1>1, <1>10, <1>18

\* The names that are asked about.
AsksFor(from, target) == from = NameBytes[question[1]] /\ target = NameBytes[question[2]]

LEMMA DeclaredIsWritten ==
  ASSUME NEW s \in Seq(Bytes), NEW from \in Seq(Bytes), NEW target \in Seq(Bytes),
         AsksFor(from, target), Declares(s)
  PROVE  Written(s, from, target)
<1>1. /\ Trim(s)  # << >> /\ Arrows(Trim(s)) # {}
      /\ Trim(Part(Trim(s), 1, Min(Arrows(Trim(s))) - 1)) = from
      /\ Trim(After(Trim(s), Min(Arrows(Trim(s))) + 1)) = target
  BY Zenon DEF Declares, Part, AsksFor
<1>2. PICK text \in Seq(Bytes), c \in Nat : text = Trim(s) /\ Alone(s, text, c)
  BY TrimLeaves
<1>3. PICK m \in Arrows(text) : m = Min(Arrows(text))
  BY <1>1, <1>2, ArrowsAt
<1>4. m \in Nat /\ m - 1 \in Nat /\ m + 1 \in Nat /\ m - 1 <= Len(text) /\ m + 1 <= Len(text)
      /\ 1 \in Nat /\ 1 >= 1 /\ 1 <= (m - 1) + 1
  BY <1>2, <1>3 DEF Arrows
<1>5. Part(text, 1, m - 1) \in Seq(Bytes)
  BY <1>2, <1>4, PartBytes
<1>6. After(text, m + 1) \in Seq(Bytes)
  BY <1>2, <1>4, AfterBytes
<1>7. Trim(Part(text, 1, m - 1)) = from /\ Trim(After(text, m + 1)) = target
  BY <1>1, <1>2, <1>3
<1>8. PICK a \in Nat : Alone(Part(text, 1, m - 1), from, a)
  BY <1>5, <1>7, TrimOf
<1>9. PICK b \in Nat : Alone(After(text, m + 1), target, b)
  BY <1>6, <1>7, TrimOf
<1>10. Spelt(s, from, target, c + a, m - 1 - a - Len(from), b)
  BY <1>2, <1>3, <1>8, <1>9, TakenApart
<1>11. c + a \in Nat /\ m - 1 - a - Len(from) \in Nat /\ b \in Nat
  BY <1>10 DEF Spelt
<1>12. QED BY <1>10, <1>11, WrittenIs

Lies(text, from, target, i, j, k, c) ==
  LET f == Len(from)
      t == Len(target)
      arrow == i + f + j
      end == c + Len(text)
  IN /\ c <= arrow /\ arrow + 2 <= end
     /\ f # 0 => c = i
     /\ f = 0 => c = arrow
     /\ t # 0 => end = arrow + 2 + k + t
     /\ t = 0 => end = arrow + 2

\* Where the words of a line that is an edge lie in the line without its blanks.
LEMMA SpeltLies ==
  ASSUME NEW s \in Seq(Bytes), NEW text \in Seq(Bytes), NEW from \in Seq(Bytes),
         NEW target \in Seq(Bytes), Plain(from), Plain(target),
         NEW i \in Nat, NEW j \in Nat, NEW k \in Nat, Spelt(s, from, target, i, j, k),
         NEW c \in Nat, Alone(s, text, c), Trimmed(text)
  PROVE  Lies(text, from, target, i, j, k, c)
<1>1. PICK n \in Nat, f \in Nat, t \in Nat, l \in Nat, arrow \in Nat, rest \in Nat :
        /\ n = Len(s) /\ f = Len(from) /\ t = Len(target) /\ l = Len(text)
        /\ arrow = i + f + j /\ rest = arrow + 2 + k + t
  OBVIOUS
<1>2. /\ n \in Nat /\ f \in Nat /\ t \in Nat /\ l \in Nat /\ arrow \in Nat /\ rest \in Nat
      /\ arrow = i + f + j /\ rest = arrow + 2 + k + t
      /\ Len(from) = f /\ Len(target) = t /\ Len(text) = l /\ Len(s) = n
      /\ i + Len(from) + j = arrow /\ arrow + 2 + k + Len(target) = rest
  BY <1>1
<1>3. /\ rest <= n
      /\ \A m \in 1..i : s[m] \in Blanks
      /\ \A m \in 1..f : s[i + m] = from[m]
      /\ \A m \in (i + f + 1)..arrow : s[m] \in Blanks
      /\ s[arrow + 1] = "-" /\ s[arrow + 2] = ">"
      /\ \A m \in (arrow + 3)..(arrow + 2 + k) : s[m] \in Blanks
      /\ \A m \in 1..t : s[arrow + 2 + k + m] = target[m]
      /\ \A m \in (rest + 1)..n : s[m] \in Blanks
  BY <1>2 DEF Spelt
<1>4. /\ c + l <= n
      /\ \A m \in 1..c : s[m] \in Blanks
      /\ \A m \in 1..l : s[c + m] = text[m]
      /\ \A m \in (c + l + 1)..n : s[m] \in Blanks
  BY <1>2 DEF Alone
<1>5. s[arrow + 1] \notin Blanks /\ s[arrow + 2] \notin Blanks
  BY <1>2, <1>3, LayerFileAssumption
<1>6. c < arrow + 1 /\ arrow + 2 <= c + l
  <2>1. arrow + 1 \in 1..n /\ arrow + 2 \in 1..n
    BY <1>2, <1>1, <1>3
  <2>2. ~(arrow + 1 \in 1..c) /\ ~(arrow + 2 \in (c + l + 1)..n)
    BY <1>2, <1>4, <1>5
  <2>3. QED BY <1>2, <2>1, <2>2
<1>7. s[c + 1] \notin Blanks /\ s[c + l] \notin Blanks
  <2>1. l >= 1 /\ 1 \in 1..l /\ l \in 1..l
    BY <1>2, <1>6
  <2>2. text # << >>
    BY <1>2, <2>1
  <2>3. text[1] \notin Blanks /\ text[l] \notin Blanks
    BY <1>2, <2>2 DEF Trimmed
  <2>4. QED BY <1>2, <1>4, <2>1, <2>3
<1>8. ASSUME f # 0 PROVE c = i
  <2>1. from # << >> /\ 1 \in 1..f
    BY <1>2, <1>8
  <2>2. s[i + 1] \notin Blanks
    BY <1>2, <1>3, <2>1 DEF Plain, Trimmed
  <2>3. ~(i + 1 \in 1..c)
    BY <1>2, <1>4, <2>2
  <2>4. ~(c + 1 \in 1..i)
    BY <1>2, <1>3, <1>7
  <2>5. QED BY <1>2, <2>3, <2>4
<1>9. ASSUME f = 0 PROVE c = arrow
  <2>1. arrow = i + j
    BY <1>2, <1>9
  <2>2. ~(c + 1 \in 1..i) /\ ~(c + 1 \in (i + f + 1)..arrow)
    BY <1>2, <1>3, <1>7
  <2>3. QED BY <1>2, <1>6, <1>9, <2>1, <2>2
<1>10. ASSUME t # 0 PROVE c + l = arrow + 2 + k + t
  <2>1. target # << >> /\ t \in 1..t
    BY <1>2, <1>10
  <2>2. s[arrow + 2 + k + t] \notin Blanks
    BY <1>2, <1>3, <2>1 DEF Plain, Trimmed
  <2>3. ~(arrow + 2 + k + t \in (c + l + 1)..n)
    BY <1>2, <1>4, <2>2
  <2>4. ~(c + l \in (rest + 1)..n)
    BY <1>2, <1>3, <1>7
  <2>5. QED BY <1>2, <1>1, <1>3, <1>4, <2>3, <2>4
<1>11. ASSUME t = 0 PROVE c + l = arrow + 2
  <2>1. rest = arrow + 2 + k
    BY <1>2, <1>1, <1>11
  <2>2. ~(c + l \in (arrow + 3)..(arrow + 2 + k)) /\ ~(c + l \in (rest + 1)..n)
    BY <1>2, <1>3, <1>7
  <2>3. QED BY <1>2, <1>1, <1>4, <1>6, <2>1, <2>2
<1>12. QED BY <1>2, <1>6, <1>8, <1>9, <1>10, <1>11 DEF Lies

First(text, m) == m \in Arrows(text) /\ \A q \in Arrows(text) : m <= q

\* The first arrow is that of the edge.
LEMMA SpeltArrow ==
  ASSUME NEW s \in Seq(Bytes), NEW text \in Seq(Bytes), NEW from \in Seq(Bytes),
         NEW target \in Seq(Bytes), Plain(from), Plain(target),
         NEW i \in Nat, NEW j \in Nat, NEW k \in Nat, Spelt(s, from, target, i, j, k),
         NEW c \in Nat, Alone(s, text, c), Trimmed(text)
  PROVE  First(text, i + Len(from) + j + 1 - c)
<1>1. PICK f \in Nat, t \in Nat, l \in Nat, n \in Nat, arrow \in Nat :
        /\ f = Len(from) /\ t = Len(target) /\ l = Len(text) /\ n = Len(s)
        /\ arrow = i + f + j
  OBVIOUS
<1>0. Lies(text, from, target, i, j, k, c)
  BY SpeltLies
<1>3. c <= arrow /\ arrow + 2 <= c + l /\ (f # 0 => c = i) /\ (f = 0 => c = arrow)
  BY <1>0, <1>1 DEF Lies
<1>10. PICK m \in Nat : m = arrow + 1 - c
  <2>1. arrow \in Nat /\ c \in Nat /\ c <= arrow
    BY <1>1, <1>3
  <2>2. arrow + 1 - c \in Nat
    BY <2>1
  <2>3. QED BY <2>2
<1>2. /\ f \in Nat /\ t \in Nat /\ l \in Nat /\ n \in Nat /\ arrow \in Nat /\ m \in Nat
      /\ f = Len(from) /\ t = Len(target) /\ l = Len(text) /\ n = Len(s)
      /\ arrow = i + f + j /\ m = arrow + 1 - c /\ m = i + Len(from) + j + 1 - c
  BY <1>1, <1>10
<1>4. /\ \A p \in 1..f : s[i + p] = from[p]
      /\ \A p \in (i + f + 1)..arrow : s[p] \in Blanks
      /\ s[arrow + 1] = "-" /\ s[arrow + 2] = ">"
  <2>1. i + Len(from) + j = arrow /\ i + Len(from) + 1 = i + f + 1 /\ Len(from) = f
    BY <1>2
  <2>2. QED BY <2>1 DEF Spelt
<1>5. \A p \in 1..l : s[c + p] = text[p]
  BY <1>2 DEF Alone
<1>6. m \in Arrows(text)
  <2>1. m \in 1..l - 1 /\ m \in 1..l /\ m + 1 \in 1..l /\ c + m = arrow + 1 /\ c + (m + 1) = arrow + 2
    BY <1>2, <1>3
  <2>2. text[m] = "-" /\ text[m + 1] = ">"
    BY <1>4, <1>5, <2>1
  <2>3. QED BY <1>2, <2>1, <2>2 DEF Arrows
<1>7. ASSUME NEW q \in Arrows(text), q < m PROVE FALSE
  <2>1. /\ q \in Nat /\ q >= 1 /\ q + 1 <= l /\ text[q] = "-" /\ text[q + 1] = ">"
    BY <1>2 DEF Arrows
  <2>2. s[c + q] = "-" /\ s[c + q + 1] = ">"
    <3>1. q \in 1..l /\ q + 1 \in 1..l /\ c + (q + 1) = c + q + 1
      BY <1>2, <2>1
    <3>2. QED BY <1>5, <2>1, <3>1
  <2>3. c + q + 1 <= arrow
    <3>1. c + q <= arrow
      BY <1>2, <1>7, <2>1
    <3>2. s[c + q + 1] # s[arrow + 1]
      BY <1>4, <2>2
    <3>3. c + q # arrow
      BY <3>2
    <3>4. q \in Nat /\ arrow \in Nat /\ c \in Nat
      BY <1>2, <2>1
    <3>5. PICK p \in Nat : p = c + q
      BY <3>4
    <3>6. p \in Nat /\ p <= arrow /\ p # arrow
      BY <3>1, <3>3, <3>5
    <3>7. p + 1 <= arrow
      BY <3>4, <3>6
    <3>8. QED BY <3>5, <3>7
  <2>4. s[c + q] \notin Blanks /\ s[c + q + 1] \notin Blanks
    BY <2>2, LayerFileAssumption
  <2>5. ~(c + q \in (i + f + 1)..arrow) /\ ~(c + q + 1 \in (i + f + 1)..arrow)
    BY <1>4, <2>4
  <2>6. f # 0 /\ c = i /\ q + 1 <= f
    <3>1. f # 0 /\ c = i
      BY <1>2, <1>3, <2>1, <2>3, SMTT(30)
    <3>2. i + q + 1 <= arrow
      BY <1>2, <2>1, <2>3, <3>1
    <3>3. ~(i + f + 1 <= i + q + 1)
      BY <1>2, <2>1, <2>5, <3>1, <3>2
    <3>4. QED BY <1>2, <2>1, <3>1, <3>3
  <2>7. q \in 1..f /\ q + 1 \in 1..f /\ q \in 1..f - 1 /\ i + (q + 1) = c + q + 1
    BY <1>2, <2>1, <2>6
  <2>8. from[q] = "-" /\ from[q + 1] = ">"
    BY <1>4, <2>2, <2>6, <2>7
  <2>9. QED BY <1>2, <2>7, <2>8 DEF Plain
<1>8. \A q \in Arrows(text) : q \in Nat
  BY DEF Arrows
<1>9. First(text, m)
  BY <1>2, <1>6, <1>7, <1>8 DEF First
<1>11. QED BY <1>2, <1>9

\* What stands before the arrow is the left name and blanks.
LEMMA SpeltLeft ==
  ASSUME NEW s \in Seq(Bytes), NEW text \in Seq(Bytes), NEW from \in Seq(Bytes),
         NEW target \in Seq(Bytes), Plain(from), Plain(target),
         NEW i \in Nat, NEW j \in Nat, NEW k \in Nat, Spelt(s, from, target, i, j, k),
         NEW c \in Nat, Alone(s, text, c), Trimmed(text)
  PROVE  Trim(Part(text, 1, i + Len(from) + j - c)) = from
<1>1. PICK f \in Nat, l \in Nat, n \in Nat, arrow \in Nat :
        f = Len(from) /\ l = Len(text) /\ n = Len(s) /\ arrow = i + f + j
  OBVIOUS
<1>2. Lies(text, from, target, i, j, k, c)
  BY SpeltLies
<1>3. c <= arrow /\ arrow + 2 <= c + l /\ (f # 0 => c = i) /\ (f = 0 => c = arrow)
  BY <1>1, <1>2 DEF Lies
<1>4. PICK lo \in Nat, hi \in Nat : lo = 1 /\ hi = arrow - c
  <2>1. c \in Nat /\ arrow \in Nat
    BY <1>1
  <2>2. arrow - c \in Nat
    BY <1>3, <2>1
  <2>3. QED BY <2>2
<1>5. /\ f \in Nat /\ l \in Nat /\ n \in Nat /\ arrow \in Nat /\ hi \in Nat /\ lo \in Nat
      /\ f = Len(from) /\ l = Len(text) /\ n = Len(s)
      /\ arrow = i + f + j /\ hi = arrow - c /\ hi = i + Len(from) + j - c /\ lo = 1
  BY <1>1, <1>4
<1>6. lo \in Nat /\ hi \in Nat /\ lo >= 1 /\ hi <= Len(text) /\ lo <= hi + 1
  BY <1>3, <1>5
<1>18. /\ Part(text, lo, hi) \in Seq(Bytes) /\ Len(Part(text, lo, hi)) = hi - lo + 1
       /\ \A p \in 1..hi - lo + 1 : Part(text, lo, hi)[p] = text[lo + p - 1]
  <2>1. Part(text, lo, hi) \in Seq(Bytes) /\ Len(Part(text, lo, hi)) = hi - lo + 1
    BY <1>6, PartBytes, SMTT(30)
  <2>2. \A p \in 1..hi - lo + 1 : Part(text, lo, hi)[p] = text[lo + p - 1]
    BY <1>6, PartBytes
  <2>3. QED BY <2>1, <2>2
<1>7. PICK left \in Seq(Bytes) : left = Part(text, lo, hi)
  BY <1>18
<1>8. Len(left) = hi /\ \A p \in 1..hi : left[p] = text[p]
  <2>1. /\ Len(left) = hi - lo + 1
        /\ \A p \in 1..hi - lo + 1 : left[p] = text[lo + p - 1]
    BY <1>7, <1>18
  <2>2. hi - lo + 1 = hi /\ \A p \in 1..hi : lo + p - 1 = p
    BY <1>5
  <2>3. QED BY <2>1, <2>2
<1>9. \A p \in 1..l : s[c + p] = text[p]
  BY <1>5 DEF Alone
<1>10. \A p \in 1..hi : left[p] = s[c + p]
  BY <1>3, <1>5, <1>8, <1>9, SMTT(30)
<1>11. /\ \A p \in 1..f : s[i + p] = from[p]
       /\ \A p \in (i + f + 1)..arrow : s[p] \in Blanks
  <2>1. i + Len(from) + j = arrow /\ i + Len(from) + 1 = i + f + 1 /\ Len(from) = f
    BY <1>5
  <2>2. QED BY <2>1 DEF Spelt
<1>12. f <= hi
  BY <1>3, <1>5
<1>13. ASSUME NEW p \in 1..f PROVE left[p] = from[p]
  <2>1. c = i /\ p \in 1..hi
    BY <1>3, <1>5, <1>12
  <2>2. QED BY <1>10, <1>11, <2>1
<1>14. ASSUME NEW p \in (f + 1)..hi PROVE left[p] \in Blanks
  <2>1. p \in 1..hi
    BY <1>5
  <2>2. f # 0 => c + p \in (i + f + 1)..arrow
    BY <1>3, <1>5
  <2>3. f # 0
    BY <1>3, <1>5
  <2>4. QED BY <1>10, <1>11, <2>1, <2>2, <2>3
<1>15. Alone(left, from, 0)
  <2>1. Len(left) = hi /\ Len(from) = f /\ 0 + f <= hi
    BY <1>5, <1>8, <1>12
  <2>2. \A p \in 1..0 : left[p] \in Blanks
    OBVIOUS
  <2>3. \A p \in 1..f : left[0 + p] = from[p]
    BY <1>5, <1>13
  <2>4. \A p \in (0 + f + 1)..hi : left[p] \in Blanks
    BY <1>5, <1>14
  <2>5. QED BY <2>1, <2>2, <2>3, <2>4 DEF Alone
<1>16. Trim(left) = from
  <2>1. 0 \in Nat /\ Trimmed(from)
    BY DEF Plain
  <2>2. QED BY <1>7, <1>15, <2>1, TrimIs
<1>17. QED BY <1>5, <1>7, <1>16

\* What stands after it, blanks and the right name.
LEMMA SpeltRight ==
  ASSUME NEW s \in Seq(Bytes), NEW text \in Seq(Bytes), NEW from \in Seq(Bytes),
         NEW target \in Seq(Bytes), Plain(from), Plain(target),
         NEW i \in Nat, NEW j \in Nat, NEW k \in Nat, Spelt(s, from, target, i, j, k),
         NEW c \in Nat, Alone(s, text, c), Trimmed(text)
  PROVE  Trim(After(text, i + Len(from) + j - c + 2)) = target
<1>1. PICK f \in Nat, t \in Nat, l \in Nat, n \in Nat, arrow \in Nat :
        /\ f = Len(from) /\ t = Len(target) /\ l = Len(text) /\ n = Len(s) /\ arrow = i + f + j
  OBVIOUS
<1>2. Lies(text, from, target, i, j, k, c)
  BY SpeltLies
<1>3. /\ c <= arrow /\ arrow + 2 <= c + l
      /\ t # 0 => c + l = arrow + 2 + k + t
      /\ t = 0 => c + l = arrow + 2
  BY <1>1, <1>2 DEF Lies
<1>4. PICK m \in Nat : m = arrow - c + 2
  <2>1. c \in Nat /\ arrow \in Nat
    BY <1>1
  <2>2. arrow - c + 2 \in Nat
    BY <1>3, <2>1
  <2>3. QED BY <2>2
<1>5. /\ f \in Nat /\ t \in Nat /\ l \in Nat /\ n \in Nat /\ arrow \in Nat /\ m \in Nat
      /\ f = Len(from) /\ t = Len(target) /\ l = Len(text) /\ n = Len(s)
      /\ arrow = i + f + j /\ m = arrow - c + 2 /\ m = i + Len(from) + j - c + 2
  BY <1>1, <1>4
<1>6. m \in Nat /\ m <= Len(text)
  BY <1>3, <1>5
<1>15. /\ After(text, m) \in Seq(Bytes) /\ Len(After(text, m)) = Len(text) - m
       /\ \A p \in 1..Len(text) - m : After(text, m)[p] = text[m + p]
  BY <1>6, AfterBytes
<1>7. PICK right \in Seq(Bytes) : right = After(text, m)
  BY <1>15
<1>8. Len(right) = l - m /\ \A p \in 1..l - m : right[p] = text[m + p]
  <2>1. Len(right) = Len(text) - m /\ \A p \in 1..Len(text) - m : right[p] = text[m + p]
    BY <1>7, <1>15
  <2>2. QED BY <1>5, <2>1
<1>9. \A p \in 1..l : s[c + p] = text[p]
  BY <1>5 DEF Alone
<1>10. ASSUME NEW p \in 1..l - m PROVE right[p] = s[arrow + 2 + p]
  <2>1. m + p \in 1..l /\ c + (m + p) = arrow + 2 + p
    BY <1>3, <1>5
  <2>2. QED BY <1>8, <1>9, <2>1
<1>11. /\ \A p \in (arrow + 3)..(arrow + 2 + k) : s[p] \in Blanks
       /\ \A p \in 1..t : s[arrow + 2 + k + p] = target[p]
  <2>1. i + Len(from) + j = arrow /\ Len(target) = t
    BY <1>5
  <2>2. QED BY <2>1 DEF Spelt
<1>12. CASE t = 0
  <2>0. l - m = 0
    BY <1>3, <1>5, <1>12
  <2>6. target = << >>
    <3>1. Len(target) = 0
      BY <1>5, <1>12
    <3>2. QED BY <3>1
  <2>1. l - m = 0 /\ target = << >>
    BY <2>0, <2>6
  <2>2. right = << >>
    BY <1>8, <2>1
  <2>3. Trimmed(target) /\ Alone(right, target, 0)
    BY <2>1, <2>2 DEF Plain, Alone
  <2>4. Trim(right) = target
    <3>1. 0 \in Nat
      OBVIOUS
    <3>2. QED BY <1>7, <2>3, <3>1, TrimIs
  <2>5. QED BY <1>5, <1>7, <2>4
<1>13. CASE t # 0
  <2>1. l - m = k + t
    BY <1>3, <1>5, <1>13
  <2>2. ASSUME NEW p \in 1..k PROVE right[p] \in Blanks
    <3>1. p \in 1..l - m /\ arrow + 2 + p \in (arrow + 3)..(arrow + 2 + k)
      BY <1>5, <2>1
    <3>2. QED BY <1>10, <1>11, <3>1
  <2>3. ASSUME NEW p \in 1..t PROVE right[k + p] = target[p]
    <3>1. k + p \in 1..l - m /\ arrow + 2 + (k + p) = arrow + 2 + k + p
      BY <1>5, <2>1
    <3>2. QED BY <1>10, <1>11, <3>1
  <2>4. Alone(right, target, k)
    <3>1. Len(right) = k + t /\ Len(target) = t
      BY <1>5, <1>8, <2>1
    <3>2. \A p \in (k + t + 1)..(k + t) : right[p] \in Blanks
      BY <1>5
    <3>3. QED BY <2>2, <2>3, <3>1, <3>2 DEF Alone
  <2>5. Trim(right) = target
    <3>1. Trimmed(target)
      BY DEF Plain
    <3>2. QED BY <1>7, <2>4, <3>1, TrimIs
  <2>6. QED BY <1>5, <1>7, <2>5
<1>14. QED BY <1>12, <1>13
\* A line that is an edge is taken apart into its words.
LEMMA WrittenIsDeclared ==
  ASSUME NEW s \in Seq(Bytes), NEW from \in Seq(Bytes), NEW target \in Seq(Bytes),
         AsksFor(from, target), Plain(from), Plain(target), Written(s, from, target)
  PROVE  Declares(s)
<1>1. PICK i, j, k \in Nat : Spelt(s, from, target, i, j, k)
  BY WrittenIs
<1>2. PICK text \in Seq(Bytes), c \in Nat : text = Trim(s) /\ Alone(s, text, c) /\ Trimmed(text)
  BY TrimLeaves
<1>3. /\ i \in Nat /\ j \in Nat /\ k \in Nat /\ Spelt(s, from, target, i, j, k)
      /\ text \in Seq(Bytes) /\ c \in Nat /\ Alone(s, text, c) /\ Trimmed(text)
  BY <1>1, <1>2
<1>4. PICK m \in Int : m = i + Len(from) + j + 1 - c
  <2>1. PICK f \in Nat : f = Len(from)
    OBVIOUS
  <2>2. i + f + j + 1 - c \in Int
    BY <1>3
  <2>3. QED BY <2>1, <2>2
<1>5. First(text, i + Len(from) + j + 1 - c)
  BY <1>3, SpeltArrow
<1>6. m \in Arrows(text) /\ \A q \in Arrows(text) : m <= q
  BY <1>4, <1>5 DEF First
<1>7. Min(Arrows(text)) = m
  <2>1. Min(Arrows(text)) \in Arrows(text) /\ \A q \in Arrows(text) : Min(Arrows(text)) <= q
    BY <1>3, <1>6, ArrowsAt
  <2>2. PICK q \in Arrows(text) : q = Min(Arrows(text))
    BY <2>1
  <2>3. q \in Nat /\ m \in Nat
    BY <1>6, <2>2 DEF Arrows
  <2>4. q <= m /\ m <= q
    BY <1>6, <2>1, <2>2
  <2>5. QED BY <2>2, <2>3, <2>4
<1>8. Trim(Part(text, 1, m - 1)) = from
  <2>1. Trim(Part(text, 1, i + Len(from) + j - c)) = from
    BY <1>3, SpeltLeft
  <2>2. i + Len(from) + j - c = m - 1
    <3>1. Len(from) \in Nat
      OBVIOUS
    <3>2. QED BY <1>3, <1>4, <3>1
  <2>3. QED BY <2>1, <2>2
<1>9. Trim(After(text, m + 1)) = target
  <2>1. Trim(After(text, i + Len(from) + j - c + 2)) = target
    BY <1>3, SpeltRight
  <2>2. i + Len(from) + j - c + 2 = m + 1
    <3>1. Len(from) \in Nat
      OBVIOUS
    <3>2. QED BY <1>3, <1>4, <3>1
  <2>3. QED BY <2>1, <2>2
<1>10. text # << >> /\ text[1] # "#"
  <2>1. PICK f \in Nat, l \in Nat, arrow \in Nat :
          f = Len(from) /\ l = Len(text) /\ arrow = i + f + j
    BY <1>3
  <2>2. Lies(text, from, target, i, j, k, c)
    BY <1>3, SpeltLies
  <2>3. c <= arrow /\ arrow + 2 <= c + l /\ (f # 0 => c = i) /\ (f = 0 => c = arrow)
    BY <2>1, <2>2 DEF Lies
  <2>4. 1 \in 1..l
    BY <1>3, <2>1, <2>3
  <2>5. s[c + 1] = text[1]
    BY <1>3, <2>1, <2>4 DEF Alone
  <2>6. CASE f # 0
    <3>1. 1 \in 1..Len(from) /\ from # << >> /\ c = i
      BY <2>1, <2>3, <2>6
    <3>2. s[i + 1] = from[1]
      BY <1>3, <3>1 DEF Spelt
    <3>3. from[1] # "#"
      BY <3>1 DEF Plain
    <3>4. QED BY <2>1, <2>4, <2>5, <3>1, <3>2, <3>3
  <2>7. CASE f = 0
    <3>1. c = arrow
      BY <2>3, <2>7
    <3>2. i + Len(from) + j = arrow
      BY <2>1
    <3>3. s[arrow + 1] = "-"
      BY <1>3, <3>2 DEF Spelt
    <3>4. text[1] = "-"
      BY <2>5, <3>1, <3>3
    <3>5. QED BY <2>1, <2>4, <3>4
  <2>8. QED BY <2>6, <2>7
<1>11. /\ Trim(SubSeq(text, 1, Min(Arrows(text)) - 1)) = NameBytes[question[1]]
       /\ Trim(After(text, Min(Arrows(text)) + 1)) = NameBytes[question[2]]
  BY <1>7, <1>8, <1>9, Zenon DEF Part, AsksFor
<1>12. Arrows(text) # {}
  BY <1>6
<1>13. text \in {Trim(s)}
  BY <1>2
<1>14. QED BY <1>10, <1>11, <1>12, <1>13, Zenon DEF Declares

-----------------------------------------------------------------------------
(* The file is read a line at a time. *)

\* Where the lines of a text end, where the one that ends at e begins, and that line.
LineEnds(text) == {i \in DOMAIN text : text[i] = Newline} \cup {Len(text)}
Start(text, e) == Max({0} \cup {i \in LineEnds(text) : i < e})
Line(text, e) == SubSeq(text, 1 + Start(text, e), e)

LEMMA LinesByEnds ==
  ASSUME NEW text
  PROVE  Lines(text) = {Line(text, e) : e \in LineEnds(text)}
BY Zenon DEF Lines, Line, Start, LineEnds

LEMMA EndsAreNumbers ==
  ASSUME NEW text \in Seq(Bytes)
  PROVE  LineEnds(text) \subseteq 0..Len(text) /\ Len(text) \in LineEnds(text)
BY DEF LineEnds

\* A line lies between the end of the one before and its own.
LEMMA StartIs ==
  ASSUME NEW text \in Seq(Bytes), NEW e \in LineEnds(text)
  PROVE  /\ Start(text, e) \in {0} \cup LineEnds(text) /\ Start(text, e) \in Nat
         /\ Start(text, e) <= e
         /\ \A i \in LineEnds(text) : i < e => i <= Start(text, e)
<1> DEFINE S == {0} \cup {i \in LineEnds(text) : i < e}
<1>1. S \subseteq Nat /\ S # {} /\ e \in Nat /\ \A i \in S : i <= e
  BY EndsAreNumbers
<1>2. Max(S) \in S /\ \A i \in S : i <= Max(S)
  BY <1>1, GreatestNat
<1>3. Start(text, e) = Max(S)
  BY DEF Start
<1> HIDE DEF S
<1>4. Start(text, e) \in S /\ \A i \in S : i <= Start(text, e)
  BY <1>2, <1>3
<1>5. QED BY <1>1, <1>4 DEF S

LEMMA LineBytes ==
  ASSUME NEW text \in Seq(Bytes), NEW e \in LineEnds(text)
  PROVE  Line(text, e) \in Seq(Bytes) /\ Len(Line(text, e)) = e - Start(text, e)
<1>1. PICK lo \in Nat, hi \in Nat : lo = 1 + Start(text, e) /\ hi = e
  BY StartIs, EndsAreNumbers
<1>2. lo \in Nat /\ hi \in Nat /\ lo >= 1 /\ hi <= Len(text) /\ lo <= hi + 1
  BY <1>1, StartIs, EndsAreNumbers
<1>3. Part(text, lo, hi) \in Seq(Bytes) /\ Len(Part(text, lo, hi)) = hi - lo + 1
  BY <1>2, PartBytes
<1>4. Line(text, e) = Part(text, lo, hi)
  BY <1>1, Zenon DEF Line, Part
<1>5. Start(text, e) \in Nat /\ hi - lo + 1 = e - Start(text, e)
  BY <1>1, StartIs
<1>6. QED BY <1>3, <1>4, <1>5

\* The rest of a text, taken up to a place, is the part of the text up to there.
LEMMA PartOfRest ==
  ASSUME NEW text \in Seq(Bytes), NEW p \in Nat, NEW e \in Nat, p <= e, e <= Len(text)
  PROVE  Part(After(text, p), 1, e - p) = Part(text, 1 + p, e)
<1>18. PICK a \in Nat : a = e - p
  <2>1. e - p \in Nat
    OBVIOUS
  <2>2. QED BY <2>1
<1>19. PICK n \in Nat, lo \in Nat, one \in Nat : n = Len(text) /\ lo = 1 + p /\ one = 1
  OBVIOUS
<1>1. /\ a \in Nat /\ n \in Nat /\ lo \in Nat /\ one \in Nat
      /\ a = e - p /\ n = Len(text) /\ lo = 1 + p /\ one = 1
  BY <1>18, <1>19
<1>2. p <= Len(text)
  OBVIOUS
<1>3. After(text, p) \in Seq(Bytes) /\ Len(After(text, p)) = Len(text) - p
  BY <1>2, AfterBytes
<1>4. \A i \in 1..Len(text) - p : After(text, p)[i] = text[p + i]
  BY <1>2, AfterBytes
<1>5. PICK rest \in Seq(Bytes) : rest = After(text, p)
  BY <1>3
<1>6. rest \in Seq(Bytes) /\ Len(rest) = Len(text) - p /\
      \A i \in 1..Len(text) - p : rest[i] = text[p + i]
  BY <1>3, <1>4, <1>5
<1>7. one \in Nat /\ a \in Nat /\ one >= 1 /\ a <= Len(rest) /\ one <= a + 1
  BY <1>1, <1>6
<1>8. Part(rest, one, a) \in Seq(Bytes) /\ Len(Part(rest, one, a)) = a - one + 1
  BY <1>6, <1>7, PartBytes
<1>9. \A i \in 1..a - one + 1 : Part(rest, one, a)[i] = rest[one + i - 1]
  BY <1>6, <1>7, PartBytes
<1>10. lo \in Nat /\ lo >= 1 /\ e <= Len(text) /\ lo <= e + 1
  BY <1>1
<1>11. Part(text, lo, e) \in Seq(Bytes) /\ Len(Part(text, lo, e)) = e - lo + 1
  BY <1>10, PartBytes
<1>12. \A i \in 1..e - lo + 1 : Part(text, lo, e)[i] = text[lo + i - 1]
  BY <1>10, PartBytes
<1>13. PICK u \in Seq(Bytes), v \in Seq(Bytes) : u = Part(rest, one, a) /\ v = Part(text, lo, e)
  BY <1>8, <1>11
<1>14. Len(u) = a /\ Len(v) = a
  BY <1>1, <1>8, <1>11, <1>13
<1>15. ASSUME NEW i \in 1..a PROVE u[i] = v[i]
  <2>1. /\ i \in 1..a - one + 1 /\ i \in 1..e - lo + 1 /\ one + i - 1 = i
        /\ i \in 1..Len(text) - p /\ p + i = lo + i - 1
    BY <1>1
  <2>2. u[i] = rest[i]
    BY <1>9, <1>13, <2>1
  <2>3. v[i] = text[p + i]
    BY <1>12, <1>13, <2>1
  <2>4. QED BY <1>6, <2>1, <2>2, <2>3
<1>16. u = v
  <2>1. u \in Seq(Bytes) /\ v \in Seq(Bytes)
    BY <1>13
  <2>2. QED BY <1>14, <1>15, <2>1
<1>17. QED BY <1>1, <1>5, <1>13, <1>16, Zenon

\* Read from the end of a line, the buffer is the next line.
LEMMA BufferIsLine ==
  ASSUME args.layers \in Seq(Bytes), LinesFit(args.layers),
         NEW p \in {0} \cup LineEnds(args.layers), position = p, p < Len(args.layers)
  PROVE  \E e \in LineEnds(args.layers) :
           /\ p < e /\ Start(args.layers, e) = p
           /\ Buffer = Line(args.layers, e) /\ Len(Buffer) = e - p
<1>1. PICK text \in Seq(Bytes), n \in Nat : text = args.layers /\ n = Len(text)
  OBVIOUS
<1> DEFINE Later == {i \in LineEnds(text) : p < i}
<1>2. Later \subseteq Nat /\ Later # {}
  BY <1>1, EndsAreNumbers
<1>3. PICK e \in Later : \A i \in Later : e <= i
  BY <1>2, LeastNat
<1>4. /\ e \in LineEnds(text) /\ p < e /\ e \in Nat /\ p \in Nat /\ e <= n
      /\ \A i \in LineEnds(text) : p < i => e <= i
  BY <1>1, <1>3, EndsAreNumbers
<1>5. Start(text, e) = p
  <2>1. /\ Start(text, e) \in {0} \cup LineEnds(text) /\ Start(text, e) \in Nat
        /\ Start(text, e) <= e
        /\ \A i \in LineEnds(text) : i < e => i <= Start(text, e)
    BY <1>4, StartIs
  <2>2. p <= Start(text, e)
    BY <1>1, <1>4, <2>1
  <2>3. ~(e <= Start(text, e)) => Start(text, e) <= p
    BY <1>4, <2>1
  <2>4. Start(text, e) # e
    <3>1. Start(text, e) \in {0} \cup {i \in LineEnds(text) : i < e}
      <4> DEFINE S == {0} \cup {i \in LineEnds(text) : i < e}
      <4>1. S \subseteq Nat /\ S # {} /\ \A i \in S : i <= e
        BY <1>1, <1>4, EndsAreNumbers
      <4>2. Max(S) \in S
        BY <1>4, <4>1, GreatestNat
      <4>3. QED BY <4>2 DEF Start
    <3>2. QED BY <1>4, <3>1
  <2>5. QED BY <1>4, <2>1, <2>2, <2>3, <2>4
<1>6. e - p < MaxLine
  <2>1. Line(text, e) \in Lines(text)
    BY <1>4, LinesByEnds
  <2>2. Len(Line(text, e)) < MaxLine
    BY <1>1, <2>1 DEF LinesFit
  <2>3. Len(Line(text, e)) = e - p
    BY <1>1, <1>4, <1>5, LineBytes
  <2>4. QED BY <2>2, <2>3
<1>7. PICK a \in Nat : a = e - p
  BY <1>4
<1>8. PICK rest \in Seq(Bytes) :
        /\ rest = After(text, p) /\ Len(rest) = n - p
        /\ \A i \in 1..n - p : rest[i] = text[p + i]
  <2>1. p \in Nat /\ p <= Len(text)
    BY <1>1, <1>4
  <2>2. After(text, p) \in Seq(Bytes) /\ Len(After(text, p)) = Len(text) - p
    BY <1>1, <2>1, AfterBytes
  <2>3. \A i \in 1..Len(text) - p : After(text, p)[i] = text[p + i]
    BY <1>1, <2>1, AfterBytes
  <2>4. QED BY <1>1, <2>2, <2>3
<1> DEFINE Stops == {i \in DOMAIN rest : rest[i] = Newline} \cup {Len(rest), MaxLine - 1}
<1>9. Min(Stops) = a
  <2>1. DOMAIN rest = 1..n - p /\ n - p \in Nat /\ MaxLine - 1 \in Nat /\ Len(rest) = n - p
    BY <1>1, <1>4, <1>8, LayerFileAssumption
  <2>2. Stops \subseteq Nat /\ Stops # {}
    BY <2>1
  <2>3. a \in Stops
    <3>1. CASE text[e] = Newline
      <4>1. a \in 1..n - p /\ p + a = e
        BY <1>1, <1>4, <1>7
      <4>2. QED BY <1>8, <2>1, <3>1, <4>1
    <3>2. CASE text[e] # Newline
      <4>1. e = n
        BY <1>1, <1>4, <3>2 DEF LineEnds
      <4>2. QED BY <1>7, <2>1, <4>1
    <3>3. QED BY <3>1, <3>2
  <2>4. ASSUME NEW i \in Stops PROVE a <= i
    <3>1. CASE i \in DOMAIN rest /\ rest[i] = Newline
      <4>1. i \in 1..n - p /\ i \in Nat /\ text[p + i] = Newline
        BY <1>8, <2>1, <3>1
      <4>2. p + i \in LineEnds(text) /\ p < p + i
        BY <1>1, <1>4, <4>1 DEF LineEnds
      <4>3. e <= p + i
        BY <1>4, <4>2
      <4>4. QED BY <1>4, <1>7, <4>1, <4>3
    <3>2. CASE i = Len(rest)
      BY <1>1, <1>4, <1>7, <2>1, <3>2
    <3>3. CASE i = MaxLine - 1
      BY <1>4, <1>6, <1>7, <3>3, LayerFileAssumption
    <3>4. QED BY <3>1, <3>2, <3>3
  <2> HIDE DEF Stops
  <2>5. Min(Stops) \in Stops /\ \A i \in Stops : Min(Stops) <= i
    BY <2>2, LeastNat
  <2>6. Min(Stops) \in Nat /\ a \in Nat /\ Min(Stops) <= a /\ a <= Min(Stops)
    BY <1>7, <2>2, <2>3, <2>4, <2>5
  <2>7. QED BY <2>6
<1>10. Buffer = Part(rest, 1, a)
  BY <1>1, <1>8, <1>9, Zenon DEF Buffer, Part
<1>11. Buffer = Line(text, e)
  <2>1. Part(After(text, p), 1, e - p) = Part(text, 1 + p, e)
    BY <1>1, <1>4, PartOfRest
  <2>2. Part(rest, 1, a) = Part(text, 1 + p, e)
    BY <1>7, <1>8, <2>1
  <2>3. QED BY <1>5, <1>10, <2>2, Zenon DEF Line, Part
<1>12. Len(Buffer) = e - p
  BY <1>1, <1>4, <1>5, <1>11, LineBytes
<1>13. QED BY <1>1, <1>4, <1>5, <1>11, <1>12

-----------------------------------------------------------------------------
(* The answer to a question about layers. *)

\* A line that is the edge asked about.
Asked(line) == Written(line, NameBytes[question[1]], NameBytes[question[2]])

\* While the file is read, the lines behind are other edges; afterwards the answer
\* is right, unless an error is raised and the answer is no.
LayerInv ==
  /\ reading # "no" => question \in Names \X Names
  /\ reading = "read" =>
       /\ question[1] # question[2] /\ args.hasLayers /\ allowed = FALSE
       /\ position \in {0} \cup LineEnds(args.layers)
       /\ \A e \in LineEnds(args.layers) : e <= position => ~Asked(Line(args.layers, e))
  /\ reading \in {"close", "answered"} =>
       /\ allowed => LayerAllows(args, question[1], question[2])
       /\ map.err = "none" /\ LayerAllows(args, question[1], question[2]) => allowed

LEMMA NamesAsked ==
  ASSUME question \in Names \X Names
  PROVE  /\ question[1] \in Names /\ question[2] \in Names
         /\ question = <<question[1], question[2]>>
         /\ NameBytes[question[1]] \in Seq(Bytes) /\ NameBytes[question[2]] \in Seq(Bytes)
BY LayerFileAssumption

LEMMA DeclaresAsked ==
  ASSUME PlainNames, question \in Names \X Names, NEW s \in Seq(Bytes)
  PROVE  Declares(s) <=> Asked(s)
<1>1. PICK from \in Seq(Bytes), target \in Seq(Bytes) :
        from = NameBytes[question[1]] /\ target = NameBytes[question[2]]
  BY NamesAsked
<1>2. Plain(from) /\ Plain(target) /\ AsksFor(from, target)
  BY <1>1, NamesAsked DEF PlainNames, AsksFor
<1>3. Asked(s) <=> Written(s, from, target)
  BY <1>1 DEF Asked
<1>4. from \in Seq(Bytes) /\ target \in Seq(Bytes)
  BY <1>1
<1>5. Declares(s) => Written(s, from, target)
  BY <1>2, <1>4, DeclaredIsWritten
<1>6. Written(s, from, target) => Declares(s)
  BY <1>2, <1>4, WrittenIsDeclared
<1>7. QED BY <1>3, <1>5, <1>6

LEMMA EmptyIsNoEdge ==
  ASSUME NEW s \in Seq(Bytes), Len(s) = 0, NEW from \in Seq(Bytes), NEW target \in Seq(Bytes)
  PROVE  ~Written(s, from, target)
<1>1. ASSUME NEW i \in Nat, NEW j \in Nat, NEW k \in Nat, Spelt(s, from, target, i, j, k)
      PROVE  FALSE
  <2>1. i + Len(from) + j + 2 + k + Len(target) <= Len(s)
    BY <1>1 DEF Spelt
  <2>2. Len(from) \in Nat /\ Len(target) \in Nat
    OBVIOUS
  <2>3. QED BY <2>1, <2>2
<1>2. QED BY <1>1, WrittenIs

\* An edge is allowed if some line of the file is it.
LEMMA AllowsByLine ==
  ASSUME args \in Options, question \in Names \X Names, question[1] # question[2], args.hasLayers
  PROVE  LayerAllows(args, question[1], question[2])
           <=> \E e \in LineEnds(args.layers) : Asked(Line(args.layers, e))
<1>1. args.allowed = Edges(args.layers)
  BY OptionsAssumption
<1>2. LayerAllows(args, question[1], question[2]) <=> question \in Edges(args.layers)
  BY <1>1, NamesAsked DEF LayerAllows
<1>3. question \in Edges(args.layers) <=> \E line \in Lines(args.layers) : Asked(line)
  BY Zenon DEF Edges, Asked
<1>4. QED BY <1>2, <1>3, LinesByEnds

LEMMA QuestionIsNames ==
  ASSUME MapFits, NEW c \in Checks(map), AsksLayers(c)
  PROVE  <<Entry(map, c).module, Entry(map, c).target>> \in Names \X Names
<1>1. c[3] = 13 /\ Entry(map, c).isLocal
  BY DEF AsksLayers
<1>2. PICK i \in DOMAIN map.table["include"] : c = <<5, i, 13>>
  BY <1>1, CheckOfRule
<1>3. Entry(map, c) = map.table["include"][i]
  BY <1>2 DEF Entry, Loop
<1>4. map.table["include"] \in Seq(Record("include"))
  BY DEF MapFits, StoreType, Kinds
<1>5. i \in DOMAIN map.table["include"] /\ map.table["include"][i] \in Record("include")
  BY <1>4
<1>6. Entry(map, c).module \in Names
  BY <1>3, <1>5 DEF Record
<1>7. Entry(map, c).target \in Names
  BY <1>1, <1>3, <1>5 DEF MapFits, TargetsAreModules
<1>8. QED BY <1>6, <1>7

LEMMA ReadLineLayer ==
  ASSUME PlainNames, ControlInv, LayerInv, ReadLine, args' = args
  PROVE  LayerInv'
<1>1. /\ reading = "read" /\ ~AtEnd /\ question' = question /\ map' = map
      /\ question \in Names \X Names /\ question[1] # question[2] /\ args.hasLayers
      /\ position \in {0} \cup LineEnds(args.layers)
      /\ \A e \in LineEnds(args.layers) : e <= position => ~Asked(Line(args.layers, e))
  BY DEF ReadLine, LayerInv, Succeed
<1>2. args \in Options /\ args.layers \in Seq(Bytes) /\ LinesFit(args.layers)
  BY OptionsAssumption DEF ControlInv
<1>3. position < Len(args.layers)
  <2>1. position # Len(args.layers) /\ position \in 0..Len(args.layers) /\ Len(args.layers) \in Nat
    BY <1>1, <1>2, EndsAreNumbers DEF AtEnd
  <2>2. QED BY <2>1
<1>4. PICK e \in LineEnds(args.layers) :
        /\ position < e /\ Start(args.layers, e) = position
        /\ Buffer = Line(args.layers, e) /\ Len(Buffer) = e - position
  BY <1>1, <1>2, <1>3, BufferIsLine
<1>5. position' = e /\ (allowed' <=> Declares(Buffer)) /\ allowed' \in BOOLEAN
      /\ reading' = IF allowed' THEN "close" ELSE "read"
  <2>1. position' = position + Len(Buffer) /\ allowed' = Declares(Buffer)
        /\ reading' = IF allowed' THEN "close" ELSE "read"
    BY DEF ReadLine
  <2>2. e \in Nat /\ position \in Nat
    BY <1>1, <1>2, EndsAreNumbers
  <2>3. Declares(Buffer) \in BOOLEAN
    BY DEF Declares
  <2>4. QED BY <1>4, <2>1, <2>2, <2>3
<1>6. Declares(Buffer) <=> Asked(Line(args.layers, e))
  <2>1. Line(args.layers, e) \in Seq(Bytes)
    BY <1>2, LineBytes
  <2>2. QED BY <1>1, <1>4, <2>1, DeclaresAsked
<1>7. \A line : Asked(line)' <=> Asked(line)
  BY <1>1 DEF Asked
<1>8. CASE allowed'
  <2>1. LayerAllows(args, question[1], question[2])
    BY <1>1, <1>2, <1>5, <1>6, <1>8, AllowsByLine
  <2>2. QED BY <1>1, <1>5, <1>8, <2>1 DEF LayerInv
<1>9. CASE ~allowed'
  <2>1. ASSUME NEW i \in LineEnds(args.layers), i <= e PROVE ~Asked(Line(args.layers, i))
    <3>1. CASE i = e
      BY <1>5, <1>6, <1>9, <3>1
    <3>2. CASE i # e
      <4>1. i \in Nat /\ e \in Nat
        BY <1>2, EndsAreNumbers
      <4>2. i < e
        BY <2>1, <3>2, <4>1
      <4>3. i <= position
        BY <1>2, <1>4, <4>2, StartIs
      <4>4. QED BY <1>1, <4>3
    <3>3. QED BY <3>1, <3>2
  <2>2. allowed' = FALSE /\ reading' = "read"
    BY <1>5, <1>9
  <2>3. QED BY <1>1, <1>4, <1>5, <1>7, <2>1, <2>2 DEF LayerInv
<1>10. QED BY <1>8, <1>9

LEMMA AnswerLayer ==
  ASSUME PlainNames, ControlInv, OrderInv, LayerInv, AnswerLayers
  PROVE  LayerInv'
<1>1. /\ args' = args /\ question' = question /\ MapFits
      /\ map.err # "none" => map'.err # "none"
  BY AnswerMoves, CallingSame DEF ControlInv
<1>2. CASE ReadLine
  BY <1>1, <1>2, ReadLineLayer
<1>3. CASE StopReading
  <2>1. reading = "read" /\ reading' = "close" /\ allowed' = allowed /\ map' = map /\ AtEnd
    BY <1>3 DEF StopReading, Succeed
  <2>2. map.err = "none" => ~LayerAllows(args, question[1], question[2])
    <3>1. SUFFICES ASSUME map.err = "none" PROVE ~LayerAllows(args, question[1], question[2])
      OBVIOUS
    <3>2. args \in Options /\ args.layers \in Seq(Bytes) /\ position = Len(args.layers)
      BY <2>1, <3>1, OptionsAssumption DEF ControlInv, AtEnd
    <3>3. \A e \in LineEnds(args.layers) : e <= position
      BY <3>2, EndsAreNumbers
    <3>4. \A e \in LineEnds(args.layers) : ~Asked(Line(args.layers, e))
      BY <2>1, <3>3 DEF LayerInv
    <3>5. QED BY <2>1, <3>2, <3>4, AllowsByLine DEF LayerInv
  <2>3. QED BY <1>1, <2>1, <2>2 DEF LayerInv
<1>4. CASE FailToRead
  <2>1. reading = "read" /\ reading' = "close" /\ allowed' = allowed /\ map'.err = "system"
    BY <1>1, <1>4, RaiseKeeps DEF FailToRead, Fail, MapFits
  <2>2. QED BY <1>1, <2>1 DEF LayerInv
<1>5. CASE CloseLayers
  BY <1>1, <1>5 DEF CloseLayers, LayerInv
<1>6. QED BY <1>2, <1>3, <1>4, <1>5 DEF AnswerLayers, ReadLayers

LEMMA AskLayer ==
  ASSUME ControlInv, OrderInv, LayerInv, AskLayers
  PROVE  LayerInv'
<1>1. PICK c \in pending : /\ IsNext(c) /\ AsksLayers(c)
                          /\ Ask(Entry(map, c).module, Entry(map, c).target)
  BY DEF AskLayers
<1>2. PICK from \in Names, target \in Names :
        from = Entry(map, c).module /\ target = Entry(map, c).target
  BY <1>1, QuestionIsNames DEF ControlInv, OrderInv
<1>3. /\ question' = <<from, target>> /\ question' \in Names \X Names
      /\ question'[1] = from /\ question'[2] = target
      /\ args' = args /\ args \in Options /\ reading = "no" /\ position = 0 /\ position' = 0
      /\ allowed' = (from = target \/ ~args.hasLayers)
  BY <1>1, <1>2 DEF AskLayers, Ask, OrderInv, NotReading, ControlInv
<1>4. \/ reading' = (IF allowed' THEN "answered" ELSE "read") /\ map' = map
      \/ ~allowed' /\ reading' = "answered" /\ map'.err = "system"
  BY <1>1, <1>2, RaiseKeeps DEF Ask, Succeed, Fail, ControlInv, MapFits
<1>5. allowed' => LayerAllows(args, from, target)
  BY <1>3 DEF LayerAllows
<1>6. ASSUME ~allowed', reading' = "read" PROVE LayerInv'
  <2>1. from # target /\ args.hasLayers /\ allowed' = FALSE
    BY <1>3, <1>6
  <2>2. ASSUME NEW e \in LineEnds(args.layers), e <= 0 PROVE ~Asked(Line(args.layers, e))'
    <3>1. args.layers \in Seq(Bytes)
      BY <1>3, OptionsAssumption
    <3>2. PICK line \in Seq(Bytes) : line = Line(args.layers, e) /\
                                 Len(line) = e - Start(args.layers, e)
      BY <3>1, LineBytes
    <3>3. Len(line) = 0
      BY <2>2, <3>1, <3>2, StartIs, EndsAreNumbers
    <3>4. ~Written(line, NameBytes[from], NameBytes[target])
      <4>1. NameBytes[from] \in Seq(Bytes) /\ NameBytes[target] \in Seq(Bytes)
        BY LayerFileAssumption
      <4>2. PICK v \in Seq(Bytes), w \in Seq(Bytes) : v = NameBytes[from] /\ w = NameBytes[target]
        BY <4>1
      <4>3. ~Written(line, v, w)
        BY <3>3, EmptyIsNoEdge
      <4>4. QED BY <4>2, <4>3
    <3>5. QED BY <1>3, <3>2, <3>4 DEF Asked
  <2>3. QED BY <1>3, <1>6, <2>1, <2>2 DEF LayerInv
<1>7. ASSUME reading' # "read" PROVE LayerInv'
  BY <1>3, <1>4, <1>5, <1>7 DEF LayerInv
<1>8. QED BY <1>4, <1>6, <1>7

LEMMA LayerStep ==
  ASSUME PlainNames, ControlInv, OrderInv, LayerInv, [Next]_vars
  PROVE  LayerInv'
<1>1. CASE Load \/ OpenOutput \/ WriteHead \/ WriteTail \/ CloseOutput \/ Main \/ Exit
  <2>1. reading = "no" /\ UNCHANGED layer
    BY <1>1 DEF OrderInv, Load, OpenOutput, WriteHead, WriteTail, CloseOutput, Main, Exit
  <2>2. QED BY <2>1 DEF layer, LayerInv
<1>2. CASE Check
  BY <1>2, CheckLayer DEF LayerInv
<1>3. CASE AskLayers
  BY <1>3, AskLayer
<1>4. CASE AnswerLayers
  BY <1>4, AnswerLayer
<1>5. CASE UNCHANGED vars
  BY <1>5 DEF vars, layer, LayerInv, Asked
<1>6. QED BY <1>1, <1>2, <1>3, <1>4, <1>5 DEF Next

LEMMA LayersInOrder ==
  ASSUME PlainNames
  PROVE  Spec => [](ControlInv /\ OrderInv /\ LayerInv)
<1>1. Init => LayerInv
  BY DEF Init, NotReading, LayerInv
<1>2. ControlInv /\ OrderInv /\ LayerInv /\ [Next]_vars => LayerInv'
  BY LayerStep
<1>3. QED BY <1>1, <1>2, InOrder, PTL DEF Spec

\* Whatever a layer file holds, and however much of it can be read, an edge is
\* allowed only if it stands on a line of its own, and every such edge is when no
\* error is raised (layer_allows_include, report.c:130-220).
THEOREM AnswersAreRight ==
  ASSUME PlainNames
  PROVE  Spec => []LayerAnswers
<1>1. LayerInv => LayerAnswers
  BY DEF LayerInv, LayerAnswers
<1>2. QED BY <1>1, LayersInOrder, PTL

-----------------------------------------------------------------------------
(* The text of the report. *)

\* What may be told of the map.
Claims ==
  {<<"lost">>, <<"head">>, <<"tables">>, <<"comma">>} \cup {<<"tail", n>> : n \in Nat}
    \cup {<<"finding", c>> : c \in Reported(map, args)}
    \cup {x \in {<<"clean">>} : Reported(map, args) = {}}

\* The findings of the checks that have been made.
Seen == Reported(map, args) \ pending

\* A text with these n findings, each at its place; the end is still to be written.
Tells(text, findings, n) ==
  IF args.json
  THEN /\ Len(text) = IF n = 0 THEN 1 ELSE 2 * n
       /\ text[1] = <<"head">>
       /\ \A c \in findings : text[2 * Place(c)] = <<"finding", c>>
       /\ \A i \in 1..n - 1 : text[2 * i + 1] = <<"comma">>
  ELSE /\ Len(text) = 2 + n
       /\ text[1] = <<"tables">> /\ text[2] = <<"head">>
       /\ \A c \in findings : text[2 + Place(c)] = <<"finding", c>>

\* As long as no error is raised, the text holds the findings seen, and the counter
\* and the flags agree with it; whatever happens, it holds no other finding.
TextInv ==
  /\ out \in Seq(Claims) /\ finding_count \in Nat
  /\ phase \in {"load", "open", "head"} =>
       out = << >> /\ first_json = TRUE /\ finding_count = 0 /\ wrote = FALSE
  /\ phase = "check" /\ ~wrote => Seen = {}
  /\ phase = "check" /\ map.err = "none" =>
       /\ Tells(out, Seen, Cardinality(Seen)) /\ finding_count = Cardinality(Seen)
       /\ wrote => Seen # {}
       /\ first_json <=> (Seen = {} \/ ~args.json)
  /\ phase \in {"close", "main", "exit", "done"} /\ map.err = "none" =>
       /\ WholeReport
       /\ ret_val = IF Reported(map, args) = {} THEN EXIT_SUCCESS ELSE EXIT_FINDINGS

\* A sequence with one or two elements more.
LEMMA OneMore ==
  ASSUME NEW T, NEW text \in Seq(T), NEW x \in T
  PROVE  /\ text \o <<x>> \in Seq(T) /\ Len(text \o <<x>>) = Len(text) + 1
         /\ \A i \in 1..Len(text) : (text \o <<x>>)[i] = text[i]
         /\ (text \o <<x>>)[Len(text) + 1] = x
OBVIOUS

LEMMA TwoMore ==
  ASSUME NEW T, NEW text \in Seq(T), NEW x \in T, NEW y \in T
  PROVE  /\ text \o <<x, y>> \in Seq(T) /\ Len(text \o <<x, y>>) = Len(text) + 2
         /\ \A i \in 1..Len(text) : (text \o <<x, y>>)[i] = text[i]
         /\ (text \o <<x, y>>)[Len(text) + 1] = x /\ (text \o <<x, y>>)[Len(text) + 2] = y
OBVIOUS

LEMMA OneOrTwo ==
  ASSUME NEW T, NEW x \in T, NEW y \in T
  PROVE  <<x>> \in Seq(T) /\ <<x, y>> \in Seq(T)
OBVIOUS

LEMMA Longer ==
  ASSUME NEW T, NEW u \in Seq(T), NEW v \in Seq(T)
  PROVE  u \o v \in Seq(T)
OBVIOUS

LEMMA OneAndOne ==
  ASSUME NEW x, NEW y
  PROVE  <<x>> \o <<y>> = <<x, y>>
<1> DEFINE T == {x, y}
<1>1. x \in T /\ y \in T
  OBVIOUS
<1>2. <<x>> \in Seq(T) /\ <<x, y>> \in Seq(T) /\ <<y>> \in Seq(T)
  BY <1>1, OneOrTwo
<1> HIDE DEF T
<1>3. PICK s \in Seq(T) : s = <<x>> /\ Len(s) = 1 /\ s[1] = x
  BY <1>2
<1>4. PICK u \in Seq(T) : u = s \o <<y>>
  <2>1. s \o <<y>> \in Seq(T)
    BY <1>1, <1>3, OneMore
  <2>2. QED BY <2>1
<1>5. Len(u) = 2 /\ u[1] = x /\ u[2] = y
  <2>1. Len(u) = Len(s) + 1 /\ (\A i \in 1..Len(s) : u[i] = s[i]) /\ u[Len(s) + 1] = y
    BY <1>1, <1>3, <1>4, OneMore
  <2>2. QED BY <1>3, <2>1
<1>6. u = <<x, y>>
  BY <1>5
<1>7. QED BY <1>3, <1>4, <1>6

LEMMA ReportedFinite ==
  ASSUME MapFits
  PROVE  /\ IsFiniteSet(Reported(map, args)) /\ Cardinality(Reported(map, args)) \in Nat
         /\ IsFiniteSet(Seen) /\ Cardinality(Seen) \in Nat
<1>1. IsFiniteSet(Checks(map))
  BY ChecksFinite DEF MapFits
<1>2. IsFiniteSet(Reported(map, args))
  BY <1>1, FS_Subset DEF Reported
<1>3. IsFiniteSet(Seen)
  BY <1>2, FS_Subset DEF Seen
<1>4. QED BY <1>2, <1>3, FS_CardinalityType

\* The findings seen come before all others.
LEMMA PlaceOfSeen ==
  ASSUME MapFits, OrderInv, phase = "check", NEW c \in Seen
  PROVE  Place(c) \in 1..Cardinality(Seen)
<1> DEFINE S == {d \in Reported(map, args) : Before(d, c)}
<1>1. S \subseteq Seen /\ c \notin S
  <2>1. c \in Checks(map) /\ c \notin pending
    BY DEF Seen, Reported
  <2>2. ASSUME NEW d \in Reported(map, args), Before(d, c), d \in pending PROVE FALSE
    <3>1. Before(c, d)
      BY <2>1, <2>2 DEF OrderInv
    <3>2. d \in Checks(map)
      BY DEF Reported
    <3>3. QED BY <2>1, <2>2, <3>1, <3>2, BeforeOrders DEF MapFits
  <2>3. ~Before(c, c)
    BY <2>1, BeforeOrders DEF MapFits
  <2>4. QED BY <2>2, <2>3 DEF Seen
<1>2. S \subseteq Seen \ {c}
  BY <1>1
<1>3. IsFiniteSet(Seen) /\ Cardinality(Seen) \in Nat
  BY ReportedFinite
<1>4. Cardinality(Seen \ {c}) = Cardinality(Seen) - 1 /\ IsFiniteSet(Seen \ {c})
  BY <1>3, FS_RemoveElement
<1>5. Cardinality(S) <= Cardinality(Seen \ {c}) /\ Cardinality(S) \in Nat
  BY <1>2, <1>4, FS_Subset, FS_CardinalityType
<1>6. Place(c) = 1 + Cardinality(S)
  BY DEF Place
<1> HIDE DEF S
<1>7. QED BY <1>3, <1>4, <1>5, <1>6

LEMMA PlaceOfNext ==
  ASSUME MapFits, OrderInv, phase = "check", NEW c \in pending, IsNext(c)
  PROVE  Place(c) = 1 + Cardinality(Seen)
<1>1. c \in Checks(map)
  BY DEF OrderInv
<1>2. ASSUME NEW d \in Reported(map, args) PROVE Before(d, c) <=> d \notin pending
  <2>1. d \in Checks(map)
    BY DEF Reported
  <2>2. CASE d \notin pending
    BY <2>1, <2>2 DEF OrderInv
  <2>3. CASE d \in pending
    <3>1. d = c \/ Before(c, d)
      BY <2>3 DEF IsNext
    <3>2. ~Before(d, c)
      BY <1>1, <2>1, <3>1, BeforeOrders DEF MapFits
    <3>3. QED BY <2>3, <3>2
  <2>4. QED BY <2>2, <2>3
<1>3. {d \in Reported(map, args) : Before(d, c)} = Seen
  BY <1>2 DEF Seen
<1>4. QED BY <1>3, Zenon DEF Place

\* What a check decides is right, as far as it is written.
Decides(c) == IF AsksLayers(c) THEN ~allowed ELSE Found(map, args, c)

LEMMA DecidesRight ==
  ASSUME ControlInv, OrderInv, LayerInv, NEW c \in pending, IsNext(c),
         AsksLayers(c) => TakeAnswer
  PROVE  /\ Found(map, args, c) => Decides(c)
         /\ map.err = "none" /\ Decides(c) => Found(map, args, c)
<1>1. CASE ~AsksLayers(c)
  BY <1>1 DEF Decides
<1>2. CASE AsksLayers(c)
  <2>1. reading = "answered"
    BY <1>2 DEF TakeAnswer
  <2>2. PICK d \in pending : /\ IsNext(d)
                            /\ question = <<Entry(map, d).module, Entry(map, d).target>>
    BY <2>1 DEF OrderInv
  <2>3. d = c
    BY <2>2, NextIsOne DEF ControlInv
  <2>4. question[1] = Entry(map, c).module /\ question[2] = Entry(map, c).target
    BY <2>2, <2>3
  <2>5. c[3] = 13 /\ Entry(map, c).isLocal
    BY <1>2 DEF AsksLayers
  <2>6. Found(map, args, c) <=> ~LayerAllows(args, question[1], question[2])
    BY <2>4, <2>5 DEF Found, LayerViolation
  <2>7. QED BY <1>2, <2>1, <2>6 DEF LayerInv, Decides
<1>3. QED BY <1>1, <1>2

\* What may be told stays the same, and so does the place of every finding.
LEMMA ClaimsSame ==
  ASSUME MapFits, Calling, UNCHANGED args
  PROVE  /\ Claims' = Claims /\ Reported(map, args)' = Reported(map, args)
         /\ \A c : Place(c)' = Place(c)
<1>1. SameTables
  BY CallingSame
<1>2. Reported(map', args) = Reported(map, args)
  BY <1>1, FoundSame DEF SameTables
<1>3. QED BY <1>2 DEF Claims, Place

-----------------------------------------------------------------------------
(* The text grows by a token or two. *)

LEMMA HeadText ==
  ASSUME ControlInv, TextInv, WriteHead
  PROVE  TextInv'
<1> DEFINE tokens == IF args.json THEN << <<"head">> >> ELSE << <<"tables">>, <<"head">> >>
<1>1. /\ phase = "head" /\ phase' = "check" /\ pending' = Checks(map)
      /\ UNCHANGED <<args, loop>> /\ Write(tokens)
      /\ out = << >> /\ first_json = TRUE /\ finding_count = 0 /\ wrote = FALSE
  BY DEF WriteHead, TextInv
<1>2. MapFits /\ Calling /\ UNCHANGED args
  BY <1>1, WritingCalls DEF ControlInv
<1>3. Claims' = Claims /\ Reported(map, args)' = Reported(map, args)
  BY <1>2, ClaimsSame
<1>4. tokens \in Seq(Claims) /\ <<"lost">> \in Claims /\ out \in Seq(Claims)
  <2>1. <<"lost">> \in Claims /\ <<"head">> \in Claims /\ <<"tables">> \in Claims
    BY DEF Claims
  <2>2. << <<"head">> >> \in Seq(Claims) /\ << <<"tables">>, <<"head">> >> \in Seq(Claims)
    BY <2>1, OneOrTwo
  <2>3. QED BY <2>1, <2>2 DEF TextInv
<1> HIDE DEF tokens
<1>5. out' \in Seq(Claims) /\ ((Succeed /\ out' = out \o tokens) \/ Fail("write"))
  BY <1>1, <1>2, <1>4, Writing
<1>6. Seen' = {}
  BY <1>1, <1>3 DEF Seen, Reported
<1>7. ASSUME map'.err = "none" PROVE Tells(out, Seen, Cardinality(Seen))'
  <2>1. out' = tokens
    <3>1. ~Fail("write")
      BY <1>2, <1>7, RaiseKeeps DEF Fail, MapFits
    <3>2. QED BY <1>1, <1>4, <1>5, <3>1
  <2>2. Cardinality(Seen') = 0
    BY <1>6, FS_EmptySet
  <2>3. QED BY <1>1, <1>6, <2>1, <2>2 DEF Tells, tokens
<1>8. Cardinality(Seen') = 0
  BY <1>6, FS_EmptySet
<1>9. QED BY <1>1, <1>3, <1>5, <1>6, <1>7, <1>8 DEF TextInv, loop

\* A check that finds nothing leaves all as it is.
LEMMA QuietCheck ==
  ASSUME ControlInv, OrderInv, TextInv, phase = "check", NEW c \in pending,
         pending' = pending \ {c}, ~Found(map, args, c), Succeed, UNCHANGED <<args, phase, out, loop>>
  PROVE  TextInv'
<1>1. MapFits /\ Calling /\ UNCHANGED args /\ map' = map
  BY DEF ControlInv, Calling, Succeed
<1>2. Claims' = Claims /\ Reported(map, args)' = Reported(map, args) /\ \A d : Place(d)' = Place(d)
  BY <1>1, ClaimsSame
<1>3. Seen' = Seen
  BY <1>2 DEF Seen, Reported
<1>4. Tells(out, Seen, Cardinality(Seen))' <=> Tells(out, Seen, Cardinality(Seen))
  BY <1>1, <1>2, <1>3 DEF Tells
<1>5. QED BY <1>1, <1>2, <1>3, <1>4 DEF TextInv, loop

\* A finding more, at its place.
LEMMA OneFindingMore ==
  ASSUME ControlInv, OrderInv, TextInv, phase = "check", map.err = "none",
         NEW c \in pending, IsNext(c), Found(map, args, c),
         NEW text, text = out \o EntryTokens(c)
  PROVE  Tells(text, Seen \cup {c}, Cardinality(Seen) + 1)
<1>1. PICK n \in Nat : n = Cardinality(Seen)
  BY ReportedFinite DEF ControlInv
<1>2. Tells(out, Seen, n) /\ (first_json <=> (Seen = {} \/ ~args.json)) /\ out \in Seq(Claims)
  BY <1>1 DEF TextInv
<1>3. Place(c) = 1 + n /\ \A d \in Seen : Place(d) \in 1..n
  BY <1>1, PlaceOfNext, PlaceOfSeen DEF ControlInv
<1>4. Seen = {} <=> n = 0
  BY <1>1, ReportedFinite, FS_EmptySet DEF ControlInv
<1>5. <<"finding", c>> \in Claims /\ <<"comma">> \in Claims
  BY DEF Claims, Reported, OrderInv
<1>6. CASE ~args.json
  <2>1. text = out \o << <<"finding", c>> >>
    BY <1>6 DEF EntryTokens
  <2>2. Len(out) = 2 + n
    BY <1>2, <1>6 DEF Tells
  <2>3. /\ Len(text) = 2 + n + 1 /\ text[2 + n + 1] = <<"finding", c>>
        /\ \A i \in 1..2 + n : text[i] = out[i]
    BY <1>2, <1>5, <2>1, <2>2, OneMore
  <2>4. n \in Nat
    BY <1>1
  <2>5. \A d \in Seen \cup {c} : text[2 + Place(d)] = <<"finding", d>>
    <3>1. text[2 + Place(c)] = <<"finding", c>>
      BY <1>3, <2>3, <2>4
    <3>2. ASSUME NEW d \in Seen PROVE text[2 + Place(d)] = <<"finding", d>>
      <4>1. 2 + Place(d) \in 1..2 + n
        BY <1>3, <2>4
      <4>2. out[2 + Place(d)] = <<"finding", d>>
        BY <1>2, <1>6 DEF Tells
      <4>3. QED BY <2>3, <4>1, <4>2
    <3>3. QED BY <3>1, <3>2
  <2>6. text[1] = <<"tables">> /\ text[2] = <<"head">>
    <3>1. out[1] = <<"tables">> /\ out[2] = <<"head">>
      BY <1>2, <1>6 DEF Tells
    <3>2. 1 \in 1..2 + n /\ 2 \in 1..2 + n
      BY <2>4
    <3>3. QED BY <2>3, <3>1, <3>2
  <2>7. Len(text) = 2 + (n + 1)
    BY <2>3, <2>4
  <2>8. Tells(text, Seen \cup {c}, n + 1)
    BY <1>6, <2>5, <2>6, <2>7 DEF Tells
  <2>9. QED BY <1>1, <2>8
<1>7. CASE args.json /\ n = 0
  <2>1. text = out \o << <<"finding", c>> >>
    BY <1>2, <1>4, <1>7 DEF EntryTokens
  <2>2. Len(out) = 1 /\ out[1] = <<"head">>
    BY <1>2, <1>7 DEF Tells
  <2>3. Len(text) = 2 /\ text[2] = <<"finding", c>> /\ text[1] = <<"head">>
    <3>1. /\ Len(text) = Len(out) + 1 /\ text[Len(out) + 1] = <<"finding", c>>
          /\ \A i \in 1..Len(out) : text[i] = out[i]
      BY <1>2, <1>5, <2>1, OneMore
    <3>2. Len(out) + 1 = 2 /\ 1 \in 1..Len(out)
      BY <2>2
    <3>3. QED BY <2>2, <3>1, <3>2
  <2>4. Place(c) = 1
    BY <1>3, <1>7
  <2>5. Seen \cup {c} = {c}
    BY <1>4, <1>7
  <2>6. Tells(text, {c}, 1)
    <3>1. \A d \in {c} : text[2 * Place(d)] = <<"finding", d>>
      BY <2>3, <2>4
    <3>2. \A i \in 1..1 - 1 : FALSE
      OBVIOUS
    <3>3. Len(text) = 2 * 1
      BY <2>3
    <3>4. QED BY <1>7, <2>3, <3>1, <3>2, <3>3, Zenon DEF Tells
  <2>7. Cardinality(Seen) + 1 = 1
    BY <1>1, <1>7
  <2>8. QED BY <2>5, <2>6, <2>7
<1>8. CASE args.json /\ n # 0
  <2>1. text = out \o << <<"comma">>, <<"finding", c>> >>
    <3>1. ~first_json
      BY <1>2, <1>4, <1>8
    <3>2. EntryTokens(c) = << <<"comma">> >> \o << <<"finding", c>> >>
      BY <1>8, <3>1 DEF EntryTokens
    <3>3. << <<"comma">> >> \o << <<"finding", c>> >> = << <<"comma">>, <<"finding", c>> >>
      BY OneAndOne, Zenon
    <3>4. QED BY <3>2, <3>3
  <2>2. Len(out) = 2 * n
    BY <1>2, <1>8 DEF Tells
  <2>3. /\ Len(text) = 2 * n + 2
        /\ text[2 * n + 1] = <<"comma">> /\ text[2 * n + 2] = <<"finding", c>>
        /\ \A i \in 1..2 * n : text[i] = out[i]
    <3>1. /\ Len(text) = Len(out) + 2
          /\ text[Len(out) + 1] = <<"comma">> /\ text[Len(out) + 2] = <<"finding", c>>
          /\ \A i \in 1..Len(out) : text[i] = out[i]
      BY <1>2, <1>5, <2>1, TwoMore
    <3>2. QED BY <2>2, <3>1
  <2>4. n \in Nat
    BY <1>1
  <2>5. \A d \in Seen \cup {c} : text[2 * Place(d)] = <<"finding", d>>
    <3>1. text[2 * Place(c)] = <<"finding", c>>
      <4>1. 2 * Place(c) = 2 * n + 2
        BY <1>3, <2>4
      <4>2. QED BY <2>3, <4>1
    <3>2. ASSUME NEW d \in Seen PROVE text[2 * Place(d)] = <<"finding", d>>
      <4>1. 2 * Place(d) \in 1..2 * n
        BY <1>3, <2>4
      <4>2. out[2 * Place(d)] = <<"finding", d>>
        BY <1>2, <1>8 DEF Tells
      <4>3. QED BY <2>3, <4>1, <4>2
    <3>3. QED BY <3>1, <3>2
  <2>6. \A i \in 1..n : text[2 * i + 1] = <<"comma">>
    <3>1. ASSUME NEW i \in 1..n, i # n PROVE text[2 * i + 1] = <<"comma">>
      <4>1. i \in 1..n - 1 /\ 2 * i + 1 \in 1..2 * n
        BY <2>4, <3>1
      <4>2. out[2 * i + 1] = <<"comma">>
        BY <1>2, <1>8, <4>1 DEF Tells
      <4>3. QED BY <2>3, <4>1, <4>2
    <3>2. text[2 * n + 1] = <<"comma">>
      BY <2>3
    <3>3. QED BY <3>1, <3>2
  <2>7. text[1] = <<"head">>
    <3>1. 1 \in 1..2 * n /\ out[1] = <<"head">>
      BY <1>2, <1>8, <2>4 DEF Tells
    <3>2. QED BY <2>3, <3>1
  <2>8. n + 1 # 0 /\ Len(text) = 2 * (n + 1) /\ (n + 1) - 1 = n
    BY <2>3, <2>4
  <2>9. Tells(text, Seen \cup {c}, n + 1)
    BY <1>8, <2>5, <2>6, <2>7, <2>8 DEF Tells
  <2>10. QED BY <1>1, <2>9
<1>9. QED BY <1>1, <1>6, <1>7, <1>8

\* What WriteFinding does: with an error raised it writes nothing, and otherwise it
\* tells of a true finding and counts it.
LEMMA EntryClaims ==
  ASSUME OrderInv, NEW c \in pending, Found(map, args, c)
  PROVE  EntryTokens(c) \in Seq(Claims) /\ <<"lost">> \in Claims
<1>1. <<"finding", c>> \in Claims /\ <<"comma">> \in Claims /\ <<"lost">> \in Claims
  BY DEF Claims, Reported, OrderInv
<1>2. << <<"comma">> >> \in Seq(Claims) /\ << <<"finding", c>> >> \in Seq(Claims)
      /\ << >> \in Seq(Claims)
  BY <1>1, OneOrTwo
<1>3. /\ << <<"comma">> >> \o << <<"finding", c>> >> \in Seq(Claims)
      /\ << >> \o << <<"finding", c>> >> \in Seq(Claims)
  BY <1>2, Longer
<1>4. QED BY <1>1, <1>3, Zenon DEF EntryTokens

LEMMA FindingText ==
  ASSUME ControlInv, OrderInv, TextInv, phase = "check", NEW c \in pending, IsNext(c),
         pending' = pending \ {c}, map.err = "none" => Found(map, args, c),
         WriteFinding(c), UNCHANGED <<args, phase>>
  PROVE  TextInv'
<1>1. MapFits /\ Calling /\ UNCHANGED args /\ wrote' = TRUE
  BY FindingCalls DEF ControlInv, WriteFinding
<1>2. /\ Claims' = Claims /\ Reported(map, args)' = Reported(map, args)
      /\ \A d : Place(d)' = Place(d)
      /\ map.err # "none" => map'.err # "none"
  BY <1>1, ClaimsSame, CallingSame
<1>3. ASSUME map.err = "none", finding_count' = finding_count + 1, Write(EntryTokens(c))
      PROVE  out' \in Seq(Claims) /\ ((Succeed /\ out' = out \o EntryTokens(c)) \/ Fail("write"))
  <2>1. EntryTokens(c) \in Seq(Claims) /\ <<"lost">> \in Claims /\ out \in Seq(Claims)
    BY <1>3, EntryClaims DEF TextInv
  <2>2. QED BY <1>1, <1>3, <2>1, Writing
<1>4. out' \in Seq(Claims) /\ finding_count' \in Nat
  <2>1. CASE UNCHANGED <<out, finding_count>>
    BY <2>1 DEF TextInv
  <2>2. CASE map.err = "none" /\ finding_count' = finding_count + 1 /\ Write(EntryTokens(c))
    BY <1>3, <2>2 DEF TextInv
  <2>3. QED BY <2>1, <2>2 DEF WriteFinding
<1>5. CASE map'.err # "none"
  BY <1>1, <1>2, <1>4, <1>5 DEF TextInv
<1>6. CASE map'.err = "none"
  <2>1. map.err = "none" /\ map' = map
    BY <1>1, <1>2, <1>6, CallingSame
  <2>2. \A call : ~Fail(call)
    BY <1>1, <1>6, RaiseKeeps DEF Fail, MapFits
  <2>3. /\ finding_count' = finding_count + 1 /\ first_json' = (first_json /\ ~args.json)
        /\ Write(EntryTokens(c)) /\ Found(map, args, c)
    BY <2>1, <2>2 DEF WriteFinding
  <2>4. out' = out \o EntryTokens(c)
    BY <1>3, <2>1, <2>2, <2>3
  <2>5. Tells(out', Seen \cup {c}, Cardinality(Seen) + 1)
    BY <2>1, <2>3, <2>4, OneFindingMore
  <2>6. Seen' = Seen \cup {c} /\ c \notin Seen
    BY <1>2, <2>3 DEF Seen, Reported, OrderInv
  <2>7. Cardinality(Seen') = Cardinality(Seen) + 1
    BY <1>1, <2>6, ReportedFinite, FS_AddElement
  <2>8. Tells(out, Seen, Cardinality(Seen))'
    <3>1. Tells(out', Seen', Cardinality(Seen'))
      BY <2>5, <2>6, <2>7
    <3>2. QED BY <1>1, <1>2, <3>1 DEF Tells
  <2>9. finding_count' = Cardinality(Seen')
    BY <2>1, <2>3, <2>7 DEF TextInv
  <2>10. first_json' <=> (Seen' = {} \/ ~args.json)
    BY <2>1, <2>3, <2>6 DEF TextInv
  <2>11. Seen' # {}
    BY <2>6
  <2>12. phase' = "check" /\ args' = args
    OBVIOUS
  <2>13. /\ out' \in Seq(Claims') /\ finding_count' \in Nat
         /\ ~wrote' => Seen' = {}
         /\ wrote' => Seen' # {}
         /\ first_json' <=> (Seen' = {} \/ ~args'.json)
    BY <1>1, <1>2, <1>4, <2>10, <2>11, <2>12
  <2>14. QED BY <2>8, <2>9, <2>12, <2>13 DEF TextInv
<1>7. QED BY <1>5, <1>6

\* The end of the report: "no issues" is told of a map without findings only.
LEMMA TailText ==
  ASSUME ControlInv, OrderInv, TextInv, WriteTail
  PROVE  TextInv'
<1>1. /\ phase = "check" /\ phase' = "close" /\ pending = {} /\ pending' = {}
      /\ Write(TailTokens) /\ UNCHANGED <<args, loop>> /\ MapFits
      /\ ret_val' = IF map'.err # "none" THEN EXIT_TROUBLE
                    ELSE IF wrote THEN EXIT_FINDINGS ELSE EXIT_SUCCESS
  BY DEF WriteTail, ControlInv
<1>2. Calling /\ UNCHANGED args
  BY <1>1, WritingCalls
<1>3. /\ Claims' = Claims /\ Reported(map, args)' = Reported(map, args)
      /\ \A d : Place(d)' = Place(d)
  BY <1>1, <1>2, ClaimsSame
<1>4. Seen = Reported(map, args)
  BY <1>1 DEF Seen
<1>5. TailTokens \in Seq(Claims) /\ <<"lost">> \in Claims /\ out \in Seq(Claims)
  <2>1. <<"tail", finding_count>> \in Claims /\ <<"lost">> \in Claims
    BY DEF Claims, TextInv
  <2>2. ~wrote => <<"clean">> \in Claims
    BY <1>1, <1>4 DEF Claims, TextInv
  <2>3. << <<"tail", finding_count>> >> \in Seq(Claims) /\ << >> \in Seq(Claims)
    BY <2>1, OneOrTwo
  <2>4. ~wrote => << <<"clean">> >> \in Seq(Claims)
    BY <2>2, OneOrTwo
  <2>5. QED BY <2>1, <2>3, <2>4, Zenon DEF TailTokens, TextInv
<1>6. out' \in Seq(Claims) /\ ((Succeed /\ out' = out \o TailTokens) \/ Fail("write"))
  BY <1>1, <1>5, Writing
<1>7. finding_count' = finding_count /\ finding_count' \in Nat
  BY <1>1 DEF TextInv, loop
<1>8. CASE map'.err # "none"
  BY <1>1, <1>3, <1>6, <1>7, <1>8 DEF TextInv
<1>9. CASE map'.err = "none"
  <2>1. map.err = "none"
    BY <1>1, <1>2, <1>9, CallingSame
  <2>2. out' = out \o TailTokens
    BY <1>1, <1>6, <1>9, RaiseKeeps DEF Fail, MapFits
  <2>3. PICK n \in Nat : n = Cardinality(Reported(map, args))
    BY <1>1, ReportedFinite
  <2>4. Tells(out, Reported(map, args), n) /\ finding_count = n /\ (wrote <=> Reported(map, args) # {})
    BY <1>1, <1>4, <2>1, <2>3 DEF TextInv
  <2>5. n = 0 <=> Reported(map, args) = {}
    BY <1>1, <2>3, ReportedFinite, FS_EmptySet
  <2>6. \A c \in Reported(map, args) : Place(c) \in 1..n
    BY <1>1, <1>4, <2>3, PlaceOfSeen
  <2>7. ret_val' = IF Reported(map, args) = {} THEN EXIT_SUCCESS ELSE EXIT_FINDINGS
    BY <1>1, <1>9, <2>4
  <2> DEFINE Whole(text) ==
               IF args.json
               THEN /\ Len(text) = IF n = 0 THEN 2 ELSE 2 * n + 1
                    /\ text[1] = <<"head">> /\ text[Len(text)] = <<"tail", n>>
                    /\ \A c \in Reported(map, args) : text[2 * Place(c)] = <<"finding", c>>
                    /\ \A i \in 1..n - 1 : text[2 * i + 1] = <<"comma">>
               ELSE /\ Len(text) = IF n = 0 THEN 3 ELSE 2 + n
                    /\ text[1] = <<"tables">> /\ text[2] = <<"head">>
                    /\ \A c \in Reported(map, args) : text[2 + Place(c)] = <<"finding", c>>
                    /\ n = 0 => text[3] = <<"clean">>
  <2>8. Whole(out')
    <3>1. CASE args.json
      <4>1. out' = out \o << <<"tail", n>> >>
        BY <2>2, <2>4, <3>1, Zenon DEF TailTokens
      <4>2. <<"tail", n>> \in Claims
        BY <2>3 DEF Claims
      <4>3. /\ Len(out') = Len(out) + 1 /\ out'[Len(out) + 1] = <<"tail", n>>
            /\ \A i \in 1..Len(out) : out'[i] = out[i]
        BY <1>5, <4>1, <4>2, OneMore
      <4>4. /\ Len(out) = IF n = 0 THEN 1 ELSE 2 * n
            /\ out[1] = <<"head">>
            /\ \A c \in Reported(map, args) : out[2 * Place(c)] = <<"finding", c>>
            /\ \A i \in 1..n - 1 : out[2 * i + 1] = <<"comma">>
        BY <2>4, <3>1 DEF Tells
      <4>5. n \in Nat
        BY <2>3
      <4>6. Len(out') = IF n = 0 THEN 2 ELSE 2 * n + 1
        BY <4>3, <4>4, <4>5
      <4>7. out'[Len(out')] = <<"tail", n>>
        BY <4>3
      <4>8. out'[1] = <<"head">>
        <5>1. 1 \in 1..Len(out)
          BY <4>4, <4>5
        <5>2. QED BY <4>3, <4>4, <5>1
      <4>9. ASSUME NEW c \in Reported(map, args) PROVE out'[2 * Place(c)] = <<"finding", c>>
        <5>1. Place(c) \in 1..n /\ n # 0
          BY <2>6, <4>5
        <5>2. 2 * Place(c) \in 1..Len(out)
          BY <4>4, <4>5, <5>1
        <5>3. QED BY <4>3, <4>4, <5>2
      <4>10. ASSUME NEW i \in 1..n - 1 PROVE out'[2 * i + 1] = <<"comma">>
        <5>1. 2 * i + 1 \in 1..Len(out)
          BY <4>4, <4>5
        <5>2. QED BY <4>3, <4>4, <5>1
      <4>11. QED BY <3>1, <4>6, <4>7, <4>8, <4>9, <4>10
    <3>2. CASE ~args.json
      <4>1. /\ Len(out) = 2 + n /\ out[1] = <<"tables">> /\ out[2] = <<"head">>
            /\ \A c \in Reported(map, args) : out[2 + Place(c)] = <<"finding", c>>
        BY <2>4, <3>2 DEF Tells
      <4>2. CASE n # 0
        <5>1. TailTokens = << >>
          BY <2>4, <2>5, <3>2, <4>2 DEF TailTokens
        <5>2. out' = out
          BY <1>5, <2>2, <5>1
        <5>3. QED BY <3>2, <4>1, <4>2, <5>2
      <4>3. CASE n = 0
        <5>1. out' = out \o << <<"clean">> >> /\ <<"clean">> \in Claims
          BY <2>2, <2>4, <2>5, <3>2, <4>3 DEF TailTokens, Claims
        <5>2. /\ Len(out') = Len(out) + 1 /\ out'[Len(out) + 1] = <<"clean">>
              /\ \A i \in 1..Len(out) : out'[i] = out[i]
          BY <1>5, <5>1, OneMore
        <5>3. Len(out) = 2 /\ 1 \in 1..Len(out) /\ 2 \in 1..Len(out)
          BY <4>1, <4>3
        <5>4. /\ Len(out') = 3 /\ out'[3] = <<"clean">> /\ out'[1] = <<"tables">>
              /\ out'[2] = <<"head">> /\ Reported(map, args) = {}
          BY <2>5, <4>1, <4>3, <5>2, <5>3
        <5>5. QED BY <3>2, <4>3, <5>4
      <4>4. QED BY <4>2, <4>3
    <3>3. QED BY <3>1, <3>2
  <2>9. WholeReport'
    BY <1>1, <1>3, <2>3, <2>8 DEF WholeReport
  <2>10. QED BY <1>1, <1>3, <1>6, <1>7, <2>7, <2>9 DEF TextInv
<1>10. QED BY <1>8, <1>9

\* Nothing else is written, and no other call changes what has been.
LEMMA SameText ==
  ASSUME ControlInv, TextInv, Calling, UNCHANGED <<args, pending, out, loop>>,
         map'.err = "none" => ret_val' = ret_val,
         \/ phase' = phase
         \/ phase \in {"close", "main", "exit"} /\ phase' \in {"main", "exit", "done"}
         \/ phase = "open" /\ phase' = "head"
         \/ phase = "open" /\ phase' = "main" /\ map'.err # "none"
  PROVE  TextInv'
<1>1. MapFits /\ UNCHANGED args
  BY DEF ControlInv
<1>2. /\ Claims' = Claims /\ Reported(map, args)' = Reported(map, args)
      /\ \A d : Place(d)' = Place(d)
      /\ map.err # "none" => map'.err # "none"
  BY <1>1, ClaimsSame, CallingSame
<1>3. Seen' = Seen
  BY <1>2 DEF Seen
<1>4. Tells(out, Seen, Cardinality(Seen))' <=> Tells(out, Seen, Cardinality(Seen))
  BY <1>1, <1>2, <1>3 DEF Tells
<1>5. WholeReport' <=> WholeReport
  BY <1>1, <1>2 DEF WholeReport
<1>6. QED BY <1>1, <1>2, <1>3, <1>4, <1>5 DEF TextInv, loop

LEMMA CheckText ==
  ASSUME ControlInv, OrderInv, LayerInv, TextInv, Check
  PROVE  TextInv'
<1>1. PICK c \in pending :
        /\ IsNext(c) /\ pending' = pending \ {c} /\ (AsksLayers(c) => TakeAnswer)
        /\ IF Decides(c) THEN WriteFinding(c) ELSE Succeed /\ UNCHANGED <<out, loop>>
  BY DEF Check, Decides
<1>2. phase = "check" /\ UNCHANGED <<args, phase>>
  BY DEF Check
<1>3. (Found(map, args, c) => Decides(c)) /\ (map.err = "none" /\ Decides(c) => Found(map, args, c))
  BY <1>1, DecidesRight
<1>4. CASE Decides(c)
  BY <1>1, <1>2, <1>3, <1>4, FindingText
<1>5. CASE ~Decides(c)
  BY <1>1, <1>2, <1>3, <1>5, QuietCheck
<1>6. QED BY <1>4, <1>5

LEMMA TextStep ==
  ASSUME ControlInv, OrderInv, LayerInv, TextInv, [Next]_vars
  PROVE  TextInv'
<1>1. CASE Load
  <2>1. /\ out' = << >> /\ first_json' = TRUE /\ finding_count' = 0 /\ wrote' = FALSE
        /\ phase' \in {"open", "close"} /\ (phase' = "close" => map'.err # "none")
    BY <1>1, RaiseKeeps DEF Load, TextInv, loop, ControlInv, MapFits
  <2>2. QED BY <2>1 DEF TextInv
<1>2. CASE OpenOutput
  <2>1. Calling /\ (phase' = "main" => map'.err # "none")
    BY <1>2, RaiseKeeps DEF OpenOutput, Calling, Succeed, Fail, ControlInv, MapFits
  <2>2. QED BY <1>2, <2>1, SameText DEF OpenOutput, loop
<1>3. CASE WriteHead
  BY <1>3, HeadText
<1>4. CASE Check
  BY <1>4, CheckText
<1>5. CASE AskLayers
  BY <1>5, AskMoves, SameText
<1>6. CASE AnswerLayers
  BY <1>6, AnswerMoves, SameText
<1>7. CASE WriteTail
  BY <1>7, TailText
<1>8. CASE CloseOutput
  <2>1. Calling
    BY <1>8 DEF CloseOutput, Calling, Succeed, Fail
  <2>2. QED BY <1>8, <2>1, SameText DEF CloseOutput
<1>9. CASE Main
  <2>1. Calling /\ (map'.err = "none" => ret_val' = ret_val)
    BY <1>9 DEF Main, ErrorStatus, Calling, Succeed
  <2>2. QED BY <1>9, <2>1, SameText DEF Main
<1>10. CASE Exit
  <2>1. map' = map /\ out' = out /\ pending' = pending /\ args' = args /\
      loop' = loop /\ ret_val' = ret_val
        /\ phase = "exit" /\ phase' = "done"
    BY <1>10 DEF Exit
  <2>2. Claims' = Claims /\ (WholeReport' <=> WholeReport)
    BY <2>1 DEF Claims, WholeReport, Place
  <2>3. QED BY <2>1, <2>2 DEF TextInv, loop
<1>11. CASE UNCHANGED vars
  <2>1. Calling
    <3>1. Succeed
      BY <1>11 DEF vars, Succeed
    <3>2. \E call : call # "load" /\ (Succeed \/ Fail(call))
      <4> WITNESS "write"
      <4>1. QED BY <3>1
    <3>3. QED BY <3>2, Zenon DEF Calling
  <2>2. QED BY <1>11, <2>1, SameText DEF vars
<1>12. QED BY <1>1, <1>2, <1>3, <1>4, <1>5, <1>6, <1>7, <1>8, <1>9, <1>10, <1>11 DEF Next

LEMMA TextInOrder ==
  ASSUME PlainNames
  PROVE  Spec => [](ControlInv /\ TextInv)
<1>1. Init => TextInv
  BY DEF Init, TextInv
<1>2. ControlInv /\ OrderInv /\ LayerInv /\ TextInv /\ [Next]_vars => TextInv'
  BY TextStep
<1>3. QED BY <1>1, <1>2, LayersInOrder, PTL DEF Spec

\* Statuses 0 and 1 are said of a whole report, with every finding of the map at its
\* place and no other, and tell whether there are any (README.md:90-96).
THEOREM StatusTellsReport ==
  ASSUME PlainNames
  PROVE  Spec => []StatusMatchesReport
<1>1. ControlInv /\ TextInv => StatusMatchesReport
  BY DEF ControlInv, TextInv, StatusMatchesReport
<1>2. QED BY <1>1, TextInOrder, PTL

\* Whatever fails, and wherever the report breaks off, what it tells is true of the
\* map: no finding is made of a check that could not be made, and a map with findings
\* is never said to be clean (report.c:156-162, 399 and 810-814).
THEOREM NothingFalse ==
  ASSUME PlainNames
  PROVE  Spec => []NoFalseClaim
<1>1. TextInv => NoFalseClaim
  <2>1. SUFFICES ASSUME TextInv PROVE NoFalseClaim
    OBVIOUS
  <2>2. \A i \in DOMAIN out : out[i] \in Claims
    BY <2>1 DEF TextInv
  <2>3. ASSUME NEW i \in DOMAIN out, out[i][1] = "finding" PROVE out[i][2] \in Reported(map, args)
    BY <2>2, <2>3 DEF Claims
  <2>4. ASSUME NEW i \in DOMAIN out, out[i] = <<"clean">> PROVE Reported(map, args) = {}
    BY <2>2, <2>4 DEF Claims
  <2>5. NoFalseFinding
    BY <2>3 DEF NoFalseFinding
  <2>6. QED BY <2>4, <2>5 DEF NoFalseClaim, NoFalseClean
<1>2. QED BY <1>1, TextInOrder, PTL
===============================================================================
