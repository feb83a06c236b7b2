----------------------------- MODULE SurveyProofs -----------------------------
(***************************************************************************)
(* What the report finds, for every set of facts, every limit, every       *)
(* command line and every number of modules.                               *)
(***************************************************************************)
EXTENDS Tables, StoreProofs

-----------------------------------------------------------------------------
(* The map of a set of facts is sound. *)

Inv == MapInv(map) /\ FirstPathsKept(map) /\ taken \subseteq Facts

LEMMA InvInit == Init => Inv
BY EmptyMapInv, EmptyMapShown DEF Init, Inv

LEMMA InvNext == Inv /\ [Next]_vars => Inv'
<1> SUFFICES ASSUME Inv, [Next]_vars PROVE Inv'
  OBVIOUS
<1>1. CASE TakeFact
  <2>1. PICK f \in Facts : map' = ApplyFact(map, f) /\ taken' = taken \cup {f}
    BY <1>1 DEF TakeFact
  <2>2. FactApplied(map, map') /\ FirstPathsKept(map')
    BY <1>1, <2>1, ApplyFactOp, ApplyFactShown DEF TakeFact, Inv
  <2>3. QED BY <2>1, <2>2 DEF Inv, FactApplied
<1>2. CASE UNCHANGED vars
  BY <1>2 DEF Inv, vars
<1>3. QED BY <1>1, <1>2 DEF Next

\* However the facts arrive, the map they leave is sound.
THEOREM Invariant == Spec => []Inv
BY InvInit, InvNext, PTL DEF Spec

-----------------------------------------------------------------------------
(* Checks and entries. *)

\* A check is made on a module or on a record of the table of its loop.
LEMMA CheckOfRule ==
  ASSUME NEW m, NEW c
  PROVE  c \in Checks(m) <=>
           \/ \E i \in DOMAIN m.modules, k \in {1, 2, 3, 4} : c = <<1, i, k>>
           \/ \E i \in DOMAIN m.table["function"], k \in {6, 7, 8} : c = <<2, i, k>>
           \/ \E i \in DOMAIN m.table["macro"] : c = <<3, i, 9>>
           \/ \E i \in DOMAIN m.table["type"] : c = <<4, i, 10>>
           \/ \E i \in DOMAIN m.table["include"], k \in {11, 12, 13} : c = <<5, i, k>>
<1>1. /\ Rules[1] = {1, 2, 3, 4} /\ Rules[2] = {6, 7, 8} /\ Rules[3] = {9}
      /\ Rules[4] = {10} /\ Rules[5] = {11, 12, 13}
  BY DEF Rules
<1>2. /\ Loop(m, 1) = m.modules /\ Loop(m, 2) = m.table["function"]
      /\ Loop(m, 3) = m.table["macro"] /\ Loop(m, 4) = m.table["type"]
      /\ Loop(m, 5) = m.table["include"]
  BY DEF Loop
<1>3. Checks(m) = UNION {{k} \X (DOMAIN Loop(m, k)) \X Rules[k] : k \in {1, 2, 3, 4, 5}}
  <2>1. 1..5 = {1, 2, 3, 4, 5}
    OBVIOUS
  <2>2. QED BY <2>1 DEF Checks
<1>4. c \in Checks(m) <=> \E k \in {1, 2, 3, 4, 5} : \E i \in DOMAIN Loop(m, k), j \in Rules[k] :
                            c = <<k, i, j>>
  BY <1>3
<1>5. QED BY <1>1, <1>2, <1>4

\* What a check of each rule finds.
LEMMA FoundByRule ==
  ASSUME NEW m, NEW args, NEW c, c \in Checks(m)
  PROVE  /\ c[3] = 1 => (Found(m, args, c) <=> SourceOnly(m, Entry(m, c)))
         /\ c[3] = 2 => (Found(m, args, c) <=> TooManyFunctions(args, Entry(m, c)))
         /\ c[3] = 3 => (Found(m, args, c) <=> TooManyPublic(args, Entry(m, c)))
         /\ c[3] = 4 => (Found(m, args, c) <=> LargeMain(m, args, Entry(m, c)))
         /\ c[3] = 6 => (Found(m, args, c) <=> PrivateLooking(m, args, Entry(m, c)))
         /\ c[3] = 7 => (Found(m, args, c) <=> Undefined(m, args, Entry(m, c)))
         /\ c[3] = 8 => (Found(m, args, c) <=> UnusedDeclaration(m, args, Entry(m, c)))
         /\ c[3] = 9 => (Found(m, args, c) <=> UnusedMacro(m, args, Entry(m, c)))
         /\ c[3] = 10 => (Found(m, args, c) <=> UnusedType(m, args, Entry(m, c)))
         /\ c[3] = 11 => (Found(m, args, c) <=> Cycle(m, Entry(m, c)))
         /\ c[3] = 12 => (Found(m, args, c) <=> StaleInclude(m, Entry(m, c)))
         /\ c[3] = 13 => (Found(m, args, c) <=> LayerViolation(args, Entry(m, c)))
         /\ c[3] \in {1, 2, 3, 4, 6, 7, 8, 9, 10, 11, 12, 13}
<1>1. c[3] \in {1, 2, 3, 4, 6, 7, 8, 9, 10, 11, 12, 13}
  BY CheckOfRule
<1>2. QED BY <1>1 DEF Found

-----------------------------------------------------------------------------
(* Library mode. *)

\* A finding of library mode is a finding of program mode, whatever the map.
LEMMA FoundInLibrary ==
  ASSUME NEW m, NEW args \in Options,
         NEW lib, lib = [args EXCEPT !.library = TRUE],
         NEW prog, prog = [args EXCEPT !.library = FALSE],
         NEW c \in Checks(m), Found(m, lib, c)
  PROVE  Found(m, prog, c)
<1>1. /\ lib.library = TRUE /\ prog.library = FALSE
      /\ lib.hasLayers = prog.hasLayers /\ lib.allowed = prog.allowed
  BY OptionsAssumption
<1>2. c[3] \notin {2, 3, 4, 6, 8, 9, 10}
  BY <1>1, FoundByRule DEF TooManyFunctions, TooManyPublic, LargeMain, PrivateLooking,
     UnusedDeclaration, UnusedMacro, UnusedType
<1>3. CASE c[3] \in {1, 11, 12}
  BY <1>3, FoundByRule
<1>4. CASE c[3] = 7
  BY <1>1, <1>4, FoundByRule DEF Undefined
<1>5. CASE c[3] = 13
  BY <1>1, <1>5, FoundByRule, ZenonT(30) DEF LayerViolation, LayerAllows
<1>6. QED BY <1>2, <1>3, <1>4, <1>5, FoundByRule

\* What a library is told it would also be told as a program: library mode leaves
\* findings out and makes none (the tests on args->library_mode of write_findings).
THEOREM LibraryOmits == Spec => []LibraryOmitsOnly
<1>1. LibraryOmitsOnly
  BY FoundInLibrary DEF LibraryOmitsOnly, Reported
<1>2. QED BY <1>1, PTL

-----------------------------------------------------------------------------
(* Making a function static. *)

\* r is m with the function of entry i made static: of the functions only that
\* flag changes, of the modules only two counters.
OneStatic(m, r, i) ==
  /\ DOMAIN r.modules = DOMAIN m.modules
  /\ \A j \in DOMAIN m.modules :
       /\ r.modules[j].name = m.modules[j].name
       /\ \A c \in {"source", "header", "function"} :
            r.modules[j].count[c] = m.modules[j].count[c]
       /\ r.modules[j].count["public"]
            \in {m.modules[j].count["public"], m.modules[j].count["public"] - 1}
       /\ m.modules[j].count["public"] \in Nat
  /\ \A kind \in Kinds \ {"function"} : r.table[kind] = m.table[kind]
  /\ DOMAIN r.table["function"] = DOMAIN m.table["function"]
  /\ \A j \in DOMAIN m.table["function"] :
       LET f == m.table["function"][j]
           g == r.table["function"][j]
       IN /\ g.module = f.module /\ g.usr = f.usr /\ g.path = f.path
          /\ g.isDeclaration = f.isDeclaration
          /\ j # i => g.isStatic = f.isStatic
  /\ r.table["function"][i].isStatic

LEMMA StaticRecord ==
  ASSUME NEW f \in [module : Names, path : Paths, usr : Usrs, isStatic : BOOLEAN,
                    isDeclaration : BOOLEAN],
         NEW s, s = [f EXCEPT !.isStatic = TRUE]
  PROVE  /\ s.module = f.module /\ s.usr = f.usr /\ s.path = f.path
         /\ s.isDeclaration = f.isDeclaration /\ s.isStatic = TRUE
<1>1. PICK yes : yes = TRUE
  OBVIOUS
<1>2. s = [f EXCEPT !.isStatic = yes]
  BY <1>1
<1>3. s.module = f.module /\ s.usr = f.usr /\ s.path = f.path /\ s.isStatic = yes
  BY <1>2
<1>4. s.isDeclaration = f.isDeclaration
  BY <1>2
<1>5. QED BY <1>1, <1>3, <1>4

LEMMA MadeStaticShape ==
  ASSUME NEW m, MapInv(m), NEW i \in DOMAIN m.table["function"]
  PROVE  OneStatic(m, MadeStatic(m, i), i)
<1> DEFINE f == m.table["function"][i]
           k == ModuleIndex(m, f.module)
           new == Privatized(m.modules[k])
           static == [f EXCEPT !.isStatic = TRUE]
           functions == [m.table["function"] EXCEPT ![i] = static]
           r == MadeStatic(m, i)
<1>1. /\ m \in Store /\ m.modules \in Seq(Module)
      /\ m.table["function"] \in Seq(Record("function"))
      /\ "function" \in DOMAIN m.table /\ DOMAIN m.table = Kinds
  BY DEF MapInv, StoreInv, StoreType, Store, Kinds
<1>2. f \in Record("function")
  BY <1>1, ElementOfSeq
<1>3. f \in [module : Names, path : Paths, usr : Usrs, isStatic : BOOLEAN,
             isDeclaration : BOOLEAN]
  BY <1>2 DEF Record
<1>4. k \in DOMAIN m.modules /\ m.modules[k] \in Module
  <2>1. PICK j \in DOMAIN m.modules : m.modules[j].name = f.module
    BY DEF MapInv, StoreInv, Homes, Registered, Kinds
  <2>2. k = j
    BY <1>1, <2>1, ModuleIndexUnique DEF MapInv, StoreInv
  <2>3. QED BY <1>1, <2>1, <2>2, ElementOfSeq
<1>5. /\ r.modules = [m.modules EXCEPT ![k] = new]
      /\ r.table = [m.table EXCEPT !["function"] = functions]
  BY <1>1 DEF MadeStatic, Store
<1>6. new.name = m.modules[k].name
  BY <1>4 DEF Module, Privatized
<1>7. /\ \A c \in {"source", "header", "function"} : new.count[c] = m.modules[k].count[c]
      /\ new.count["public"] = m.modules[k].count["public"] - 1
      /\ \A j \in DOMAIN m.modules : m.modules[j].count["public"] \in Nat
  <2>1. \A j \in DOMAIN m.modules : m.modules[j] \in Module
    BY <1>1, ElementOfSeq
  <2>2. QED BY <1>4, <2>1 DEF Counters, Module, Privatized
<1>8. /\ static.module = f.module /\ static.usr = f.usr /\ static.path = f.path
      /\ static.isDeclaration = f.isDeclaration /\ static.isStatic = TRUE
  BY <1>3, StaticRecord
<1> HIDE DEF new, static, f, k
<1>9. /\ r.table["function"] = functions
      /\ \A kind \in Kinds \ {"function"} : r.table[kind] = m.table[kind]
  BY <1>1, <1>5
<1>10. /\ DOMAIN r.table["function"] = DOMAIN m.table["function"]
       /\ r.table["function"][i] = static
       /\ \A j \in DOMAIN m.table["function"] :
            j # i => r.table["function"][j] = m.table["function"][j]
  BY <1>9
<1>11. /\ DOMAIN r.modules = DOMAIN m.modules
       /\ \A j \in DOMAIN m.modules : r.modules[j] = IF j = k THEN new ELSE m.modules[j]
  BY <1>4, <1>5
<1>12. \A j \in DOMAIN m.modules :
         /\ r.modules[j].name = m.modules[j].name
         /\ \A c \in {"source", "header", "function"} :
              r.modules[j].count[c] = m.modules[j].count[c]
         /\ r.modules[j].count["public"]
              \in {m.modules[j].count["public"], m.modules[j].count["public"] - 1}
         /\ m.modules[j].count["public"] \in Nat
  BY <1>6, <1>7, <1>11
<1>13. \A j \in DOMAIN m.table["function"] :
         LET p == m.table["function"][j]
             q == r.table["function"][j]
         IN /\ q.module = p.module /\ q.usr = p.usr /\ q.path = p.path
            /\ q.isDeclaration = p.isDeclaration
            /\ j # i => q.isStatic = p.isStatic
  BY <1>8, <1>10 DEF f
<1>14. r.table["function"][i].isStatic
  BY <1>8, <1>10
<1>15. QED BY <1>9, <1>10, <1>11, <1>12, <1>13, <1>14 DEF OneStatic

\* The queries that do not ask for linkage answer as before; those that do may
\* turn from yes to no for the function made static alone.
LEMMA OneStaticQueries ==
  ASSUME NEW m, MapInv(m), NEW r, NEW i, OneStatic(m, r, i)
  PROVE  /\ \A n : Registered(r, n) <=> Registered(m, n)
         /\ \A n : ContainsEntrypoint(r, n) <=> ContainsEntrypoint(m, n)
         /\ \A n : UsedOutside(r, n) <=> UsedOutside(m, n)
         /\ \A n, s : SymbolUsedOutside(r, n, s) <=> SymbolUsedOutside(m, n, s)
         /\ \A n, t : HasDirectInclude(r, n, t) <=> HasDirectInclude(m, n, t)
         /\ \A n : HasSource(r, n) <=> HasSource(m, n)
         /\ \A f, g : f.usr = g.usr =>
              (HasHeaderDeclaration(r, f) <=> HasHeaderDeclaration(m, g))
         /\ \A f, g : f.usr = g.usr /\ f.module = g.module =>
              (FunctionUsedOutside(r, f) <=> FunctionUsedOutside(m, g))
         /\ \A n : HasUnmatchedPublic(r, n) => HasUnmatchedPublic(m, n)
         /\ \A f, g : /\ f.usr = g.usr
                      /\ m.table["function"][i].usr # f.usr \/ f.usr = EmptyUsr
                      => (HasNonStaticDefinition(m, g) => HasNonStaticDefinition(r, f))
<1>1. /\ Calls(r) = Calls(m) /\ LocalIncludes(r) = LocalIncludes(m)
  BY DEF OneStatic, Calls, LocalIncludes, Kinds
<1>2. \A n : Registered(r, n) <=> Registered(m, n)
  BY DEF OneStatic, Registered
<1>3. /\ \A j \in DOMAIN m.table["function"] : m.table["function"][j] \in Functs(m)
      /\ \A j \in DOMAIN m.table["function"] : r.table["function"][j] \in Functs(r)
      /\ \A f \in Functs(m) : \E j \in DOMAIN m.table["function"] :
           f = m.table["function"][j]
      /\ \A f \in Functs(r) : \E j \in DOMAIN m.table["function"] :
           f = r.table["function"][j]
  BY DEF OneStatic, Functs, Range
<1>4. \A n : ContainsEntrypoint(r, n) <=> ContainsEntrypoint(m, n)
  BY <1>3, SMTT(30) DEF OneStatic, ContainsEntrypoint
<1>5. /\ \A n : UsedOutside(r, n) <=> UsedOutside(m, n)
      /\ \A n, s : SymbolUsedOutside(r, n, s) <=> SymbolUsedOutside(m, n, s)
      /\ \A n, t : HasDirectInclude(r, n, t) <=> HasDirectInclude(m, n, t)
      /\ \A f, g : f.usr = g.usr /\ f.module = g.module =>
              (FunctionUsedOutside(r, f) <=> FunctionUsedOutside(m, g))
  BY <1>1 DEF UsedOutside, SymbolUsedOutside, HasDirectInclude, FunctionUsedOutside
<1>6. \A n : HasSource(r, n) <=> HasSource(m, n)
  <2> SUFFICES ASSUME NEW n, Registered(m, n)
               PROVE  r.modules[ModuleIndex(r, n)].count["source"] > 0
                        <=> m.modules[ModuleIndex(m, n)].count["source"] > 0
    BY <1>2 DEF HasSource
  <2>1. ModuleIndex(r, n) = ModuleIndex(m, n)
    <3>1. /\ DOMAIN r.modules = DOMAIN m.modules
          /\ \A j \in DOMAIN m.modules : r.modules[j].name = m.modules[j].name
      BY DEF OneStatic
    <3>2. QED BY <3>1 DEF ModuleIndex
  <2>2. PICK j \in DOMAIN m.modules : m.modules[j].name = n
    BY DEF Registered
  <2>3. ModuleIndex(m, n) = j
    BY <2>2, ModuleIndexUnique DEF MapInv, StoreInv, StoreType, Store
  <2>4. QED BY <2>1, <2>2, <2>3, SMTT(30) DEF OneStatic
<1>7. \A f, g : f.usr = g.usr =>
        (HasHeaderDeclaration(r, f) <=> HasHeaderDeclaration(m, g))
  BY <1>3, SMTT(30) DEF OneStatic, HasHeaderDeclaration
<1>8. \A n : HasUnmatchedPublic(r, n) => HasUnmatchedPublic(m, n)
  <2> SUFFICES ASSUME NEW n, HasUnmatchedPublic(r, n) PROVE HasUnmatchedPublic(m, n)
    OBVIOUS
  <2>1. PICK j \in DOMAIN m.table["function"] :
          LET f == r.table["function"][j] IN
          /\ ~f.isDeclaration /\ ~f.isStatic /\ f.module = n /\ f.usr # MainUsr
          /\ ~HasHeaderDeclaration(r, f)
    BY <1>3 DEF HasUnmatchedPublic
  <2>2. LET f == m.table["function"][j] IN
        /\ ~f.isDeclaration /\ ~f.isStatic /\ f.module = n /\ f.usr # MainUsr
        /\ ~HasHeaderDeclaration(m, f)
    BY <1>7, <2>1, SMTT(30) DEF OneStatic
  <2>3. QED BY <1>3, <2>2 DEF HasUnmatchedPublic
<1>9. ASSUME NEW f, NEW g, f.usr = g.usr,
             m.table["function"][i].usr # f.usr \/ f.usr = EmptyUsr,
             HasNonStaticDefinition(m, g)
      PROVE  HasNonStaticDefinition(r, f)
  <2>1. PICK j \in DOMAIN m.table["function"] :
          LET d == m.table["function"][j] IN
          /\ ~d.isDeclaration /\ ~d.isStatic /\ g.usr # EmptyUsr /\ d.usr = g.usr
    BY <1>3, <1>9 DEF HasNonStaticDefinition
  <2>2. j # i
    BY <1>9, <2>1
  <2>3. LET d == r.table["function"][j] IN
        /\ ~d.isDeclaration /\ ~d.isStatic /\ f.usr # EmptyUsr /\ d.usr = f.usr
    BY <1>9, <2>1, <2>2 DEF OneStatic
  <2>4. QED BY <1>3, <2>3 DEF HasNonStaticDefinition
<1>10. QED BY <1>2, <1>4, <1>5, <1>6, <1>7, <1>8, <1>9

\* Nothing is found after the advice was followed that was not found before, and
\* the finding itself is gone.
LEMMA AdviceFollowed ==
  ASSUME NEW m, MapInv(m), NEW args \in Options,
         NEW c \in Reported(m, args), c[3] = 6,
         NEW d \in Reported(MadeStatic(m, c[2]), args)
  PROVE  d \in Reported(m, args) \ {c}
<1>1. c \in Checks(m) /\ Found(m, args, c)
  BY DEF Reported
<1>2. PICK i \in DOMAIN m.table["function"] : c = <<2, i, 6>>
  BY <1>1, CheckOfRule
<1>3. PICK r : r = MadeStatic(m, i)
  OBVIOUS
<1>4. OneStatic(m, r, i)
  BY <1>3, MadeStaticShape
<1>5. d \in Checks(r) /\ Found(r, args, d)
  BY <1>2, <1>3 DEF Reported
<1>6. d \in Checks(m)
  BY <1>4, <1>5, CheckOfRule, SMTT(30) DEF OneStatic, Kinds
<1> SUFFICES d # c /\ Found(m, args, d)
  BY <1>6 DEF Reported
<1> SUFFICES Found(m, args, d)
  <2>1. ASSUME d = c PROVE FALSE
    <3>1. Entry(r, d) = r.table["function"][i]
      BY <1>2, <2>1 DEF Entry, Loop
    <3>2. PrivateLooking(r, args, Entry(r, d))
      BY <1>5, <2>1, FoundByRule
    <3>3. QED BY <1>4, <3>1, <3>2 DEF PrivateLooking, OneStatic
  <2>2. QED BY <2>1
<1>7. PICK e : e = m.table["function"][i]
  OBVIOUS
<1>8. PrivateLooking(m, args, e)
  <2>1. Entry(m, c) = e
    BY <1>2, <1>7 DEF Entry, Loop
  <2>2. QED BY <1>1, <2>1, FoundByRule
<1>9. \A j \in DOMAIN m.table["function"] :
        m.table["function"][j].isDeclaration =>
          e.usr # m.table["function"][j].usr \/ m.table["function"][j].usr = EmptyUsr
  BY <1>8 DEF PrivateLooking, HasHeaderDeclaration, Functs, Range
<1>10. CASE d[1] = 1
  <2>1. PICK j \in DOMAIN m.modules, rule \in {1, 2, 3, 4} : d = <<1, j, rule>>
    BY <1>6, <1>10, CheckOfRule
  <2>2. PICK x, y : x = m.modules[j] /\ y = r.modules[j]
    OBVIOUS
  <2>3. Entry(m, d) = x /\ Entry(r, d) = y
    BY <2>1, <2>2 DEF Entry, Loop
  <2>4. /\ y.name = x.name
        /\ \A n \in {"source", "header", "function"} : y.count[n] = x.count[n]
        /\ y.count["public"] \in {x.count["public"], x.count["public"] - 1}
        /\ x.count["public"] \in Nat
    BY <1>4, <2>2 DEF OneStatic
  <2>5. CASE rule = 1
    <3>1. SourceOnly(r, y)
      BY <1>5, <2>1, <2>3, <2>5, FoundByRule
    <3>2. SourceOnly(m, x)
      BY <1>4, <2>4, <3>1, OneStaticQueries DEF SourceOnly
    <3>3. QED BY <1>6, <2>1, <2>3, <2>5, <3>2, FoundByRule
  <2>6. CASE rule = 2
    <3>1. TooManyFunctions(args, y)
      BY <1>5, <2>1, <2>3, <2>6, FoundByRule
    <3>2. TooManyFunctions(args, x)
      BY <2>4, <3>1 DEF TooManyFunctions
    <3>3. QED BY <1>6, <2>1, <2>3, <2>6, <3>2, FoundByRule
  <2>7. CASE rule = 3
    <3>1. TooManyPublic(args, y)
      BY <1>5, <2>1, <2>3, <2>7, FoundByRule
    <3>2. TooManyPublic(args, x)
      <4>1. args.maxPublic \in Nat
        BY OptionsAssumption
      <4>2. QED BY <2>4, <3>1, <4>1 DEF TooManyPublic
    <3>3. QED BY <1>6, <2>1, <2>3, <2>7, <3>2, FoundByRule
  <2>8. CASE rule = 4
    <3>1. LargeMain(r, args, y)
      BY <1>5, <2>1, <2>3, <2>8, FoundByRule
    <3>2. LargeMain(m, args, x)
      BY <1>4, <2>4, <3>1, OneStaticQueries DEF LargeMain
    <3>3. QED BY <1>6, <2>1, <2>3, <2>8, <3>2, FoundByRule
  <2>9. QED BY <2>5, <2>6, <2>7, <2>8
<1>11. CASE d[1] = 2
  <2>1. PICK j \in DOMAIN m.table["function"], rule \in {6, 7, 8} : d = <<2, j, rule>>
    BY <1>6, <1>11, CheckOfRule
  <2>2. PICK x, y : x = m.table["function"][j] /\ y = r.table["function"][j]
    OBVIOUS
  <2>3. Entry(m, d) = x /\ Entry(r, d) = y
    BY <2>1, <2>2 DEF Entry, Loop
  <2>4. /\ y.module = x.module /\ y.usr = x.usr /\ y.isDeclaration = x.isDeclaration
        /\ j # i => y.isStatic = x.isStatic
        /\ j = i => y.isStatic
    BY <1>4, <2>2 DEF OneStatic
  <2>5. CASE rule = 6
    <3>1. PrivateLooking(r, args, y)
      BY <1>5, <2>1, <2>3, <2>5, FoundByRule
    <3>2. j # i
      BY <2>4, <3>1 DEF PrivateLooking
    <3>3. HasHeaderDeclaration(r, y) <=> HasHeaderDeclaration(m, x)
      BY <1>4, <2>4, OneStaticQueries
    <3>4. FunctionUsedOutside(r, y) <=> FunctionUsedOutside(m, x)
      BY <1>4, <2>4, OneStaticQueries
    <3>5. PrivateLooking(m, args, x)
      BY <2>4, <3>1, <3>2, <3>3, <3>4 DEF PrivateLooking
    <3>6. QED BY <1>6, <2>1, <2>3, <2>5, <3>5, FoundByRule
  <2>6. CASE rule = 7
    <3>1. Undefined(r, args, y)
      BY <1>5, <2>1, <2>3, <2>6, FoundByRule
    <3>2. HasSource(r, y.module) <=> HasSource(m, x.module)
      BY <1>4, <2>4, OneStaticQueries
    <3>3. HasNonStaticDefinition(m, x) => HasNonStaticDefinition(r, y)
      <4>1. e.usr # y.usr \/ y.usr = EmptyUsr
        BY <1>9, <2>2, <2>4, <3>1 DEF Undefined
      <4>2. QED BY <1>4, <1>7, <2>4, <4>1, OneStaticQueries
    <3>4. Undefined(m, args, x)
      BY <2>4, <3>1, <3>2, <3>3 DEF Undefined
    <3>5. QED BY <1>6, <2>1, <2>3, <2>6, <3>4, FoundByRule
  <2>7. CASE rule = 8
    <3>1. UnusedDeclaration(r, args, y)
      BY <1>5, <2>1, <2>3, <2>7, FoundByRule
    <3>2. UnusedDeclaration(m, args, x)
      BY <1>4, <2>4, <3>1, OneStaticQueries DEF UnusedDeclaration
    <3>3. QED BY <1>6, <2>1, <2>3, <2>7, <3>2, FoundByRule
  <2>8. QED BY <2>5, <2>6, <2>7
<1>12. CASE d[1] \in {3, 4, 5}
  <2>1. d[3] \in {9, 10, 11, 12, 13}
    BY <1>6, <1>12, CheckOfRule
  <2>2. PICK x : x = Entry(m, d)
    OBVIOUS
  <2>3. Entry(r, d) = x
    BY <1>4, <1>12, <2>2, SMTT(30) DEF OneStatic, Entry, Loop, Kinds
  <2>4. CASE d[3] = 9
    <3>1. UnusedMacro(r, args, x)
      BY <1>5, <2>3, <2>4, FoundByRule
    <3>2. UnusedMacro(m, args, x)
      BY <1>4, <3>1, OneStaticQueries DEF UnusedMacro
    <3>3. QED BY <1>6, <2>2, <2>4, <3>2, FoundByRule
  <2>5. CASE d[3] = 10
    <3>1. UnusedType(r, args, x)
      BY <1>5, <2>3, <2>5, FoundByRule
    <3>2. UnusedType(m, args, x)
      BY <1>4, <3>1, OneStaticQueries DEF UnusedType
    <3>3. QED BY <1>6, <2>2, <2>5, <3>2, FoundByRule
  <2>6. CASE d[3] = 11
    <3>1. Cycle(r, x)
      BY <1>5, <2>3, <2>6, FoundByRule
    <3>2. Cycle(m, x)
      BY <1>4, <3>1, OneStaticQueries DEF Cycle
    <3>3. QED BY <1>6, <2>2, <2>6, <3>2, FoundByRule
  <2>7. CASE d[3] = 12
    <3>1. StaleInclude(r, x)
      BY <1>5, <2>3, <2>7, FoundByRule
    <3>2. StaleInclude(m, x)
      BY <1>4, <3>1, OneStaticQueries DEF StaleInclude, TargetExists
    <3>3. QED BY <1>6, <2>2, <2>7, <3>2, FoundByRule
  <2>8. CASE d[3] = 13
    BY <1>5, <1>6, <2>2, <2>3, <2>8, FoundByRule
  <2>9. QED BY <2>1, <2>4, <2>5, <2>6, <2>7, <2>8
<1>13. d[1] \in {1, 2, 3, 4, 5}
  BY <1>6, CheckOfRule
<1>14. QED BY <1>10, <1>11, <1>12, <1>13

\* The advice of P101-MOD-006 can be followed blindly, whatever was loaded and in
\* whatever mode: a function made static is not reported again, and no declaration
\* is left without its definition (has_header_declaration before the advice).
THEOREM AdviceSafe == Spec => []StaticAdviceSafe
<1>1. Inv => StaticAdviceSafe
  BY AdviceFollowed DEF Inv, StaticAdviceSafe
<1>2. QED BY <1>1, Invariant, PTL

-----------------------------------------------------------------------------
(* A map without an error mirrors the set of its facts. *)

\* What the report is about is one project: facts about one file agree on its module
\* and on its language (the first fact of a file decides, file_for_fact).
FactsAgree ==
  \A f, g \in Facts : f.path = g.path => ModuleOf(f) = ModuleOf(g) /\ f.isHeader = g.isHeader

\* The facts of S that have a record in a table.
InTable(S, kind) == {f \in S : TableOf(f) = kind}

MirrorOf(f) == RecordOf(f, [module |-> ModuleOf(f), isHeader |-> f.isHeader])

\* The files are those of the facts, and every table holds the records of its facts,
\* each of them once.
FilesMirror(m, S) ==
  /\ \A f \in S : Known(m, f.path)
  /\ \A i \in DOMAIN m.files :
       \E f \in S : /\ m.files[i].path = f.path /\ m.files[i].module = ModuleOf(f)
                    /\ m.files[i].isHeader = f.isHeader
  /\ PathsUnique(m)

TableMirrors(m, S, kind) ==
  \E g \in Bijection(DOMAIN m.table[kind], InTable(S, kind)) :
    \A i \in DOMAIN m.table[kind] : m.table[kind][i] = MirrorOf(g[i])

Mirrors(m, S) == FilesMirror(m, S) /\ \A kind \in Kinds : TableMirrors(m, S, kind)

\* A bijection is extended by a new pair.
LEMMA BijectionExtended ==
  ASSUME NEW D, NEW T, NEW g \in Bijection(D, T), NEW x, x \notin D, NEW y, y \notin T
  PROVE  [i \in D \cup {x} |-> IF i = x THEN y ELSE g[i]] \in Bijection(D \cup {x}, T \cup {y})
<1> DEFINE h == [i \in D \cup {x} |-> IF i = x THEN y ELSE g[i]]
<1>1. /\ g \in [D -> T]
      /\ \A a, b \in D : g[a] = g[b] => a = b
      /\ \A t \in T : \E a \in D : g[a] = t
  BY DEF Bijection, Injection, Surjection, IsInjective
<1>2. h \in [D \cup {x} -> T \cup {y}]
  BY <1>1
<1>3. \A a, b \in D \cup {x} : h[a] = h[b] => a = b
  BY <1>1
<1>4. \A t \in T \cup {y} : \E a \in D \cup {x} : h[a] = t
  BY <1>1
<1>5. QED BY <1>2, <1>3, <1>4 DEF Bijection, Injection, Surjection, IsInjective

\* The owner that a map shows for the path of a fact is what the fact says.
LEMMA OwnerAgrees ==
  ASSUME FactsAgree, NEW m, m.files \in Seq(File), m.err = "none",
         NEW S \in SUBSET Facts, FilesMirror(m, S), NEW f \in Facts
  PROVE  OwnersWith(m, f.path, ModuleOf(f), f.isHeader)[f.path]
           = [module |-> ModuleOf(f), isHeader |-> f.isHeader]
<1>1. CASE f.path \in SeenFiles(m)
  <2>1. Known(m, f.path)
    BY <1>1 DEF SeenFiles, Known
  <2>2. PICK i \in DOMAIN m.files : FindFile(m, f.path) = m.files[i] /\ m.files[i].path = f.path
    BY <2>1, FindFileFirst
  <2>3. m.files[i].module = ModuleOf(f) /\ m.files[i].isHeader = f.isHeader
    BY <2>2 DEF FilesMirror, FactsAgree
  <2>4. QED BY <1>1, <2>2, <2>3 DEF OwnersWith, SeenOwners
<1>2. CASE f.path \notin SeenFiles(m)
  BY <1>2 DEF OwnersWith
<1>3. QED BY <1>1, <1>2

LEMMA ApplyFactMirrors ==
  ASSUME FactPathsFit, FactsAgree, NEW m, MapInv(m), m.err = "none",
         NEW S \in SUBSET Facts, Mirrors(m, S), NEW f \in Facts \ S,
         NEW r, r = ApplyFact(m, f), r.err = "none"
  PROVE  Mirrors(r, S \cup {f})
<1>1. m.files \in Seq(File) /\ DOMAIN m.table = Kinds
      /\ \A kind \in Kinds : m.table[kind] \in Seq(Record(kind))
  BY DEF MapInv, StoreInv, StoreType, Store
<1>2. /\ SeenOwners(r) = OwnersWith(m, f.path, ModuleOf(f), f.isHeader)
      /\ SeenRecords(r) = RecordsWith(m, TableOf(f), RecordOf(f, SeenOwners(r)[f.path]))
  BY ApplyFactTakes DEF ModuleOf
<1>3. RecordOf(f, SeenOwners(r)[f.path]) = MirrorOf(f)
  BY <1>1, <1>2, OwnerAgrees DEF Mirrors, MirrorOf
<1>4. \A kind \in Kinds :
        r.table[kind] = IF kind = TableOf(f) THEN Append(m.table[kind], MirrorOf(f))
                        ELSE m.table[kind]
  BY <1>2, <1>3 DEF SeenRecords, RecordsWith
<1>5. FilesMirror(r, S \cup {f})
  <2>1. SeenFiles(r) = SeenFiles(m) \cup {f.path}
    BY <1>2 DEF SeenOwners, OwnersWith
  <2>2. \A g \in S \cup {f} : Known(r, g.path)
    <3>1. /\ \A q : q \in SeenFiles(m) <=> Known(m, q)
          /\ \A q : q \in SeenFiles(r) <=> Known(r, q)
      BY DEF SeenFiles, Known
    <3>2. QED BY <2>1, <3>1 DEF Mirrors, FilesMirror
  <2>3. \/ r.files = m.files
        \/ ~Known(m, f.path) /\ r.files = Append(m.files, FileOfFact(f))
    BY ApplyFactShown
  <2>4. /\ FileOfFact(f).path = f.path /\ FileOfFact(f).module = ModuleOf(f)
        /\ FileOfFact(f).isHeader = f.isHeader
    BY DEF FileOfFact, ModuleOf, FactPathsFit
  <2>5. CASE r.files = m.files
    BY <2>2, <2>5 DEF Mirrors, FilesMirror, PathsUnique
  <2>6. CASE ~Known(m, f.path) /\ r.files = Append(m.files, FileOfFact(f))
    <3>1. FileOfFact(f) \in File
      BY FileForFactStored
    <3>2. /\ DOMAIN r.files = DOMAIN m.files \cup {Len(m.files) + 1}
          /\ \A i \in DOMAIN m.files : r.files[i] = m.files[i]
          /\ r.files[Len(m.files) + 1] = FileOfFact(f)
      BY <1>1, <2>6, <3>1, AppendCounted
    <3>3. PathsUnique(r)
      BY <1>1, <2>4, <2>6, <3>1, PathsUniqueAppended DEF Mirrors, FilesMirror
    <3>4. QED BY <2>2, <2>4, <3>2, <3>3 DEF Mirrors, FilesMirror
  <2>7. QED BY <2>3, <2>5, <2>6
<1>6. ASSUME NEW kind \in Kinds PROVE TableMirrors(r, S \cup {f}, kind)
  <2>1. PICK g \in Bijection(DOMAIN m.table[kind], InTable(S, kind)) :
          \A i \in DOMAIN m.table[kind] : m.table[kind][i] = MirrorOf(g[i])
    BY DEF Mirrors, TableMirrors
  <2>2. CASE kind # TableOf(f)
    <3>1. InTable(S \cup {f}, kind) = InTable(S, kind)
      BY <2>2 DEF InTable
    <3>2. QED BY <1>4, <2>1, <2>2, <3>1 DEF TableMirrors
  <2>3. CASE kind = TableOf(f)
    <3>1. InTable(S \cup {f}, kind) = InTable(S, kind) \cup {f} /\ f \notin InTable(S, kind)
      BY <2>3 DEF InTable
    <3> DEFINE D == DOMAIN m.table[kind]
               n == Len(m.table[kind]) + 1
               h == [i \in D \cup {n} |-> IF i = n THEN f ELSE g[i]]
    <3>2. /\ DOMAIN r.table[kind] = D \cup {n} /\ n \notin D
          /\ \A i \in D : r.table[kind][i] = m.table[kind][i]
          /\ r.table[kind][n] = MirrorOf(f)
      <4>1. PICK new : new = MirrorOf(f)
        OBVIOUS
      <4>2. PICK s : s = m.table[kind]
        OBVIOUS
      <4>3. s \in Seq(Record(kind) \cup {new})
        BY <1>1, <4>2
      <4>4. r.table[kind] = Append(s, new)
        BY <1>4, <2>3, <4>1, <4>2
      <4>5. QED BY <4>1, <4>2, <4>3, <4>4, AppendCounted
    <3>3. h \in Bijection(DOMAIN r.table[kind], InTable(S \cup {f}, kind))
      <4>1. h \in Bijection(D \cup {n}, InTable(S, kind) \cup {f})
        <5> HIDE DEF D, n
        <5>1. g \in Bijection(D, InTable(S, kind))
          BY <2>1 DEF D
        <5>2. QED BY <3>1, <3>2, <5>1, BijectionExtended
      <4>2. QED BY <3>1, <3>2, <4>1
    <3>4. \A i \in DOMAIN r.table[kind] : r.table[kind][i] = MirrorOf(h[i])
      BY <2>1, <3>2
    <3>5. QED BY <3>3, <3>4 DEF TableMirrors
  <2>4. QED BY <2>2, <2>3
<1>7. QED BY <1>5, <1>6 DEF Mirrors

\* In a survey without an error the map mirrors the facts taken.
LEMMA MirrorInit == Init => Mirrors(map, taken)
<1> SUFFICES ASSUME Init PROVE Mirrors(map, taken)
  OBVIOUS
<1>1. map.files = << >> /\ taken = {} /\ \A kind \in Kinds : map.table[kind] = << >>
  BY DEF Init, EmptyMap
<1>2. << >> \in Bijection({}, {})
  BY DEF Bijection, Injection, Surjection, IsInjective
<1>3. \A kind \in Kinds : DOMAIN map.table[kind] = {} /\ InTable(taken, kind) = {}
  BY <1>1 DEF InTable
<1>4. \A kind \in Kinds : TableMirrors(map, taken, kind)
  BY <1>2, <1>3 DEF TableMirrors
<1>5. FilesMirror(map, taken)
  BY <1>1 DEF FilesMirror, PathsUnique
<1>6. QED BY <1>4, <1>5 DEF Mirrors

LEMMA MirrorNext ==
  ASSUME FactPathsFit, FactsAgree, Inv, map.err = "none" => Mirrors(map, taken), [Next]_vars
  PROVE  (map.err = "none" => Mirrors(map, taken))'
<1> SUFFICES ASSUME map'.err = "none" PROVE Mirrors(map, taken)'
  OBVIOUS
<1>1. CASE TakeFact
  <2>1. map.err = "none" /\ MapInv(map) /\ taken \in SUBSET Facts
    BY <1>1 DEF TakeFact, Inv
  <2>2. PICK f \in Facts \ taken : map' = ApplyFact(map, f) /\ taken' = taken \cup {f}
    BY <1>1 DEF TakeFact
  <2>3. PICK r, S : r = map' /\ S = taken'
    OBVIOUS
  <2>4. Mirrors(r, S)
    BY <2>1, <2>2, <2>3, ApplyFactMirrors
  <2>5. FilesMirror(map, taken)'
    BY <2>3, <2>4 DEF Mirrors, FilesMirror, PathsUnique, Known
  <2>6. (\A kind \in Kinds : TableMirrors(map, taken, kind))'
    BY <2>3, <2>4 DEF Mirrors, TableMirrors, InTable, MirrorOf
  <2>7. QED BY <2>5, <2>6 DEF Mirrors
<1>2. CASE UNCHANGED vars
  <2>1. map.err = "none" /\ Mirrors(map, taken) /\ map' = map /\ taken' = taken
    BY <1>2 DEF vars
  <2>2. QED BY <2>1 DEF Mirrors, FilesMirror, PathsUnique, TableMirrors, InTable, Known,
        MirrorOf
<1>3. QED BY <1>1, <1>2 DEF Next

LEMMA MirrorInvariant ==
  ASSUME FactPathsFit, FactsAgree
  PROVE  Spec => [](map.err = "none" => Mirrors(map, taken))
<1>1. Init => (map.err = "none" => Mirrors(map, taken))
  BY MirrorInit
<1>2. Inv /\ (map.err = "none" => Mirrors(map, taken)) /\ [Next]_vars
        => (map.err = "none" => Mirrors(map, taken))'
  BY MirrorNext
<1>3. QED BY <1>1, <1>2, Invariant, PTL DEF Spec

-----------------------------------------------------------------------------
(* Records and facts. *)

\* The records of a table are those of its facts.
LEMMA MirrorRange ==
  ASSUME NEW m, NEW S, NEW kind, TableMirrors(m, S, kind)
  PROVE  Range(m.table[kind]) = {MirrorOf(f) : f \in InTable(S, kind)}
<1>1. PICK g \in Bijection(DOMAIN m.table[kind], InTable(S, kind)) :
        \A i \in DOMAIN m.table[kind] : m.table[kind][i] = MirrorOf(g[i])
  BY DEF TableMirrors
<1>2. /\ \A i \in DOMAIN m.table[kind] : g[i] \in InTable(S, kind)
      /\ \A f \in InTable(S, kind) : \E i \in DOMAIN m.table[kind] : g[i] = f
  BY DEF Bijection, Injection, Surjection
<1>3. QED BY <1>1, <1>2 DEF Range

LEMMA FactTables ==
  ASSUME NEW S
  PROVE  /\ InTable(S, "function") = {f \in S : f.kind = "FUNCTION"}
         /\ InTable(S, "include") = {f \in S : f.kind = "INCLUDE"}
         /\ InTable(S, "call") = {f \in S : f.kind = "CALL"}
         /\ InTable(S, "macro") = {f \in S : f.kind = "MACRO" /\ f.isDefinition}
         /\ InTable(S, "type") = {f \in S : f.kind \in {"TYPE", "ENUM"}}
<1>1. \A f : /\ TableOf(f) = "function" <=> f.kind = "FUNCTION"
             /\ TableOf(f) = "include" <=> f.kind = "INCLUDE"
             /\ TableOf(f) = "call" <=> f.kind = "CALL"
             /\ TableOf(f) = "macro" <=> f.kind = "MACRO" /\ f.isDefinition
             /\ TableOf(f) = "type" <=> f.kind \in {"TYPE", "ENUM"}
  BY DEF TableOf
<1>2. QED BY <1>1 DEF InTable

LEMMA MirrorFields ==
  ASSUME NEW f, NEW x, x = MirrorOf(f)
  PROVE  /\ f.kind = "FUNCTION" => /\ x.module = ModuleOf(f) /\ x.path = f.path
                                   /\ x.usr = f.usr /\ x.isStatic = f.isStatic
                                   /\ x.isDeclaration = f.isDeclaration
         /\ f.kind = "INCLUDE" => /\ x.module = ModuleOf(f) /\ x.path = f.path
                                  /\ x.isLocal = f.isLocal
                                  /\ f.isLocal => x.target = TargetOf(f)
         /\ f.kind = "CALL" => /\ x.module = ModuleOf(f) /\ x.path = f.path
                               /\ x.name = f.name /\ x.usr = f.usr
         /\ f.kind = "MACRO" /\ f.isDefinition =>
              x.module = ModuleOf(f) /\ x.path = f.path /\ x.name = f.name
         /\ f.kind \in {"TYPE", "ENUM"} => x.module = ModuleOf(f) /\ x.path = f.path
<1> DEFINE o == [module |-> ModuleOf(f), isHeader |-> f.isHeader]
<1>1. x = RecordOf(f, o) /\ o.module = ModuleOf(f)
  BY DEF MirrorOf
<1>2. CASE f.kind = "FUNCTION"
  <2>1. TableOf(f) = "function"
    BY <1>2 DEF TableOf
  <2>2. QED BY <1>1, <1>2, <2>1 DEF RecordOf
<1>3. CASE f.kind = "INCLUDE"
  <2>1. TableOf(f) = "include"
    BY <1>3 DEF TableOf
  <2>2. PICK t : t = IF f.isLocal THEN LocalTarget[o.module, f.target] ELSE f.target
    OBVIOUS
  <2>3. x = [module |-> o.module, path |-> f.path, target |-> t, isLocal |-> f.isLocal]
    BY <1>1, <2>1, <2>2 DEF RecordOf
  <2>4. f.isLocal => t = TargetOf(f)
    BY <1>1, <2>2 DEF TargetOf
  <2>5. x.module = ModuleOf(f) /\ x.path = f.path /\ x.isLocal = f.isLocal /\ x.target = t
    BY <1>1, <2>3
  <2>6. QED BY <1>3, <2>4, <2>5
<1>4. CASE f.kind = "CALL"
  <2>1. TableOf(f) = "call"
    BY <1>4 DEF TableOf
  <2>2. QED BY <1>1, <1>4, <2>1 DEF RecordOf
<1>5. CASE f.kind = "MACRO" /\ f.isDefinition
  <2>1. TableOf(f) = "macro"
    BY <1>5 DEF TableOf
  <2>2. QED BY <1>1, <1>5, <2>1 DEF RecordOf
<1>6. CASE f.kind \in {"TYPE", "ENUM"}
  <2>1. TableOf(f) = "type"
    BY <1>6 DEF TableOf
  <2>2. QED BY <1>1, <1>6, <2>1 DEF RecordOf
<1>7. QED BY <1>2, <1>3, <1>4, <1>5, <1>6

-----------------------------------------------------------------------------
(* What the queries of the map say of the facts. *)

Mirrored == FactsAgree /\ Inv /\ Mirrors(map, taken)

\* The records that the rules run over are those of the facts.
LEMMA RecordsOfFacts ==
  ASSUME Mirrored
  PROVE  /\ Functs(map) = {MirrorOf(f) : f \in OfKind("FUNCTION")}
         /\ Calls(map) = {MirrorOf(f) : f \in OfKind("CALL")}
         /\ LocalIncludes(map) = {MirrorOf(f) : f \in Inclusions}
         /\ Range(map.table["include"]) = {MirrorOf(f) : f \in OfKind("INCLUDE")}
         /\ Range(map.table["macro"])
              = {MirrorOf(f) : f \in {f \in OfKind("MACRO") : f.isDefinition}}
         /\ Range(map.table["type"]) = {MirrorOf(f) : f \in OfKind("TYPE") \cup OfKind("ENUM")}
<1>1. \A kind \in Kinds : Range(map.table[kind]) = {MirrorOf(f) : f \in InTable(taken, kind)}
  BY MirrorRange DEF Mirrored, Mirrors
<1>2. /\ InTable(taken, "function") = OfKind("FUNCTION")
      /\ InTable(taken, "call") = OfKind("CALL")
      /\ InTable(taken, "include") = OfKind("INCLUDE")
      /\ InTable(taken, "macro") = {f \in OfKind("MACRO") : f.isDefinition}
      /\ InTable(taken, "type") = OfKind("TYPE") \cup OfKind("ENUM")
  BY FactTables DEF OfKind
<1>3. \A f \in OfKind("INCLUDE") : MirrorOf(f).isLocal = f.isLocal
  BY MirrorFields DEF OfKind
<1>4. {x \in {MirrorOf(f) : f \in OfKind("INCLUDE")} : x.isLocal} = {MirrorOf(f) : f \in Inclusions}
  BY <1>3 DEF Inclusions
<1>5. QED BY <1>1, <1>2, <1>4 DEF Kinds, Functs, Calls, LocalIncludes

\* A module has a source, or a header, if one of its facts is of one.
LEMMA FileOfModule ==
  ASSUME Mirrored, NEW n
  PROVE  /\ (\E i \in DOMAIN map.files : map.files[i].module = n /\ ~map.files[i].isHeader)
              <=> \E f \in OfModule(n) : ~f.isHeader
         /\ (\E i \in DOMAIN map.files : map.files[i].module = n /\ map.files[i].isHeader)
              <=> \E f \in OfModule(n) : f.isHeader
<1>1. ASSUME NEW i \in DOMAIN map.files, map.files[i].module = n
      PROVE  \E f \in OfModule(n) : map.files[i].isHeader = f.isHeader
  BY <1>1 DEF Mirrored, Mirrors, FilesMirror, OfModule
<1>2. ASSUME NEW f \in OfModule(n)
      PROVE  \E i \in DOMAIN map.files :
               map.files[i].module = n /\ map.files[i].isHeader = f.isHeader
  <2>1. f \in taken /\ f \in Facts /\ ModuleOf(f) = n
    BY DEF OfModule, Mirrored, Inv
  <2>2. PICK i \in DOMAIN map.files : map.files[i].path = f.path
    BY <2>1 DEF Mirrored, Mirrors, FilesMirror, Known
  <2>3. PICK g \in taken : /\ map.files[i].path = g.path /\ map.files[i].module = ModuleOf(g)
                           /\ map.files[i].isHeader = g.isHeader
    BY DEF Mirrored, Mirrors, FilesMirror
  <2>4. ModuleOf(g) = n /\ g.isHeader = f.isHeader
    BY <2>1, <2>2, <2>3 DEF Mirrored, Inv, FactsAgree
  <2>5. QED BY <2>3, <2>4
<1>3. QED BY <1>1, <1>2

LEMMA ModulesOfFacts ==
  ASSUME Mirrored
  PROVE  /\ {map.modules[i].name : i \in DOMAIN map.modules} = ModuleNames
         /\ \A n : Registered(map, n) <=> n \in ModuleNames
<1>1. {map.files[i].module : i \in DOMAIN map.files} = ModuleNames
  <2>1. ASSUME NEW i \in DOMAIN map.files PROVE map.files[i].module \in ModuleNames
    BY DEF Mirrored, Mirrors, FilesMirror, ModuleNames
  <2>2. ASSUME NEW f \in taken PROVE \E i \in DOMAIN map.files : map.files[i].module = ModuleOf(f)
    <3>1. f \in OfModule(ModuleOf(f))
      BY DEF OfModule
    <3>2. QED BY <3>1, FileOfModule
  <2>3. QED BY <2>1, <2>2 DEF ModuleNames
<1>2. {map.modules[i].name : i \in DOMAIN map.modules} = ModuleNames
  BY <1>1 DEF Mirrored, Inv, MapInv, ModulesAreFileGroups
<1>3. QED BY <1>2 DEF Registered

LEMMA DomainFinite ==
  ASSUME NEW S, NEW s \in Seq(S)
  PROVE  IsFiniteSet(DOMAIN s) /\ Cardinality(DOMAIN s) = Len(s)
<1>1. Len(s) \in Nat /\ DOMAIN s = 1..Len(s)
  BY LenProperties
<1>2. IsFiniteSet(1..Len(s)) /\ Cardinality(1..Len(s)) = Len(s)
  BY <1>1, FS_Interval
<1>3. QED BY <1>1, <1>2

\* The rows of a table that stand for some of its facts are as many as these.
LEMMA RowCount ==
  ASSUME Mirrored, NEW kind \in Kinds,
         NEW rows, rows \subseteq DOMAIN map.table[kind],
         NEW facts, facts \subseteq InTable(taken, kind),
         \A k \in DOMAIN map.table[kind] : \A f \in InTable(taken, kind) :
           map.table[kind][k] = MirrorOf(f) => (k \in rows <=> f \in facts)
  PROVE  Cardinality(rows) = Cardinality(facts)
<1>1. PICK g \in Bijection(DOMAIN map.table[kind], InTable(taken, kind)) :
        \A k \in DOMAIN map.table[kind] : map.table[kind][k] = MirrorOf(g[k])
  BY DEF Mirrored, Mirrors, TableMirrors
<1>2. /\ g \in [DOMAIN map.table[kind] -> InTable(taken, kind)]
      /\ \A k, l \in DOMAIN map.table[kind] : g[k] = g[l] => k = l
      /\ \A f \in InTable(taken, kind) : \E k \in DOMAIN map.table[kind] : g[k] = f
  BY DEF Bijection, Injection, Surjection, IsInjective
<1> DEFINE h == [k \in rows |-> g[k]]
<1>3. h \in [rows -> facts]
  BY <1>1, <1>2
<1>4. \A k, l \in rows : h[k] = h[l] => k = l
  BY <1>2
<1>5. \A f \in facts : \E k \in rows : h[k] = f
  BY <1>1, <1>2
<1>6. ExistsBijection(rows, facts)
  <2>1. h \in Bijection(rows, facts)
    BY <1>3, <1>4, <1>5 DEF Bijection, Injection, Surjection, IsInjective
  <2>2. QED BY <2>1 DEF ExistsBijection
<1>7. IsFiniteSet(rows)
  <2>1. map.table[kind] \in Seq(Record(kind))
    BY DEF Mirrored, Inv, MapInv, StoreInv, StoreType
  <2>2. QED BY <2>1, DomainFinite, FS_Subset
<1>8. QED BY <1>6, <1>7, FS_Bijection

\* Files with different paths are as many as their paths.
LEMMA PathCount ==
  ASSUME Mirrored, NEW rows, rows \subseteq DOMAIN map.files, NEW paths,
         \A i \in rows : map.files[i].path \in paths,
         \A p \in paths : \E i \in rows : map.files[i].path = p
  PROVE  Cardinality(rows) = Cardinality(paths)
<1> DEFINE h == [i \in rows |-> map.files[i].path]
<1>1. h \in [rows -> paths] /\ \A p \in paths : \E i \in rows : h[i] = p
  OBVIOUS
<1>2. \A i, j \in rows : h[i] = h[j] => i = j
  BY DEF Mirrored, Mirrors, FilesMirror, PathsUnique
<1>3. ExistsBijection(rows, paths)
  <2>1. h \in Bijection(rows, paths)
    BY <1>1, <1>2 DEF Bijection, Injection, Surjection, IsInjective
  <2>2. QED BY <2>1 DEF ExistsBijection
<1>4. IsFiniteSet(rows)
  <2>1. map.files \in Seq(File)
    BY DEF Mirrored, Inv, MapInv, StoreInv, StoreType, Store
  <2>2. QED BY <2>1, DomainFinite, FS_Subset
<1>5. QED BY <1>3, <1>4, FS_Bijection

LEMMA PathsOfModule ==
  ASSUME Mirrored, NEW n
  PROVE  /\ Cardinality(Counted(map, "source", n)) = Cardinality(PathsOf(SourcesOf(n)))
         /\ Cardinality(Counted(map, "header", n))
              = Cardinality(PathsOf(OfModule(n) \ SourcesOf(n)))
<1>1. /\ Counted(map, "source", n)
           = {i \in DOMAIN map.files : map.files[i].module = n /\ ~map.files[i].isHeader}
      /\ Counted(map, "header", n)
           = {i \in DOMAIN map.files : map.files[i].module = n /\ map.files[i].isHeader}
  BY DEF Counted
<1>2. PICK sources, headers : sources = PathsOf(SourcesOf(n))
                              /\ headers = PathsOf(OfModule(n) \ SourcesOf(n))
  OBVIOUS
<1>3. \A i \in DOMAIN map.files : \E f \in taken :
        /\ map.files[i].path = f.path /\ map.files[i].module = ModuleOf(f)
        /\ map.files[i].isHeader = f.isHeader
  BY DEF Mirrored, Mirrors, FilesMirror
<1>4. \A f \in taken : \E i \in DOMAIN map.files :
        /\ map.files[i].path = f.path /\ map.files[i].module = ModuleOf(f)
        /\ map.files[i].isHeader = f.isHeader
  <2> SUFFICES ASSUME NEW f \in taken
               PROVE  \E i \in DOMAIN map.files :
                        /\ map.files[i].path = f.path /\ map.files[i].module = ModuleOf(f)
                        /\ map.files[i].isHeader = f.isHeader
    OBVIOUS
  <2>1. PICK i \in DOMAIN map.files : map.files[i].path = f.path
    BY DEF Mirrored, Mirrors, FilesMirror, Known
  <2>2. QED BY <1>3, <2>1 DEF Mirrored, Inv, FactsAgree
<1>5. Cardinality(Counted(map, "source", n)) = Cardinality(sources)
  <2>1. \A i \in Counted(map, "source", n) : map.files[i].path \in sources
    BY <1>1, <1>2, <1>3 DEF OfModule, SourcesOf, PathsOf
  <2>2. \A p \in sources : \E i \in Counted(map, "source", n) : map.files[i].path = p
    BY <1>1, <1>2, <1>4 DEF OfModule, SourcesOf, PathsOf
  <2>3. QED BY <1>1, <2>1, <2>2, PathCount
<1>6. Cardinality(Counted(map, "header", n)) = Cardinality(headers)
  <2>1. \A i \in Counted(map, "header", n) : map.files[i].path \in headers
    BY <1>1, <1>2, <1>3 DEF OfModule, SourcesOf, PathsOf
  <2>2. \A p \in headers : \E i \in Counted(map, "header", n) : map.files[i].path = p
    BY <1>1, <1>2, <1>4 DEF OfModule, SourcesOf, PathsOf
  <2>3. QED BY <1>1, <2>1, <2>2, PathCount
<1>7. QED BY <1>2, <1>5, <1>6

\* The counters of a module are the numbers of its facts.
LEMMA ColumnOfFacts ==
  ASSUME Mirrored, NEW i \in DOMAIN map.modules, NEW n, n = map.modules[i].name
  PROVE  \A c \in Counters : map.modules[i].count[c] = Cardinality(FactsCounted(n, c))
<1>1. map.modules[i] \in Module /\ StoreType(map) /\ CountersMatch(map)
  <2>1. map.modules \in Seq(Module)
    BY DEF Mirrored, Inv, MapInv, StoreInv, StoreType, Store
  <2>2. QED BY <2>1, ElementOfSeq DEF Mirrored, Inv, MapInv, StoreInv
<1>2. /\ map.modules[i].count \in [Counters -> Nat]
      /\ \A c \in Counters : map.modules[i].count[c] = Cardinality(Counted(map, c, n))
  BY <1>1 DEF CountersMatch, Module
<1>3. /\ InTable(taken, "function") = OfKind("FUNCTION")
      /\ InTable(taken, "include") = OfKind("INCLUDE")
      /\ InTable(taken, "macro") = {f \in OfKind("MACRO") : f.isDefinition}
      /\ InTable(taken, "type") = OfKind("TYPE") \cup OfKind("ENUM")
  BY FactTables DEF OfKind
<1>4. /\ \A f \in OfKind("FUNCTION") :
           /\ MirrorOf(f).module = ModuleOf(f) /\ MirrorOf(f).isStatic = f.isStatic
           /\ MirrorOf(f).isDeclaration = f.isDeclaration
      /\ \A f \in OfKind("INCLUDE") :
           MirrorOf(f).module = ModuleOf(f) /\ MirrorOf(f).isLocal = f.isLocal
      /\ \A f \in InTable(taken, "macro") : MirrorOf(f).module = ModuleOf(f)
      /\ \A f \in InTable(taken, "type") : MirrorOf(f).module = ModuleOf(f)
  BY <1>3, MirrorFields DEF OfKind
<1>5. \A f \in taken : f \in OfModule(n) <=> ModuleOf(f) = n
  BY DEF OfModule
<1>6. Cardinality(Counted(map, "function", n)) = Cardinality(FactsCounted(n, "function"))
  <2>1. Counted(map, "function", n)
          = {k \in DOMAIN map.table["function"] :
               /\ map.table["function"][k].module = n
               /\ ~map.table["function"][k].isDeclaration}
    BY DEF Counted
  <2>2. FactsCounted(n, "function") = Definitions \cap OfModule(n)
    BY DEF FactsCounted
  <2>3. QED BY <1>3, <1>4, <1>5, <2>1, <2>2, RowCount DEF Kinds, Definitions, OfKind
<1>7. Cardinality(Counted(map, "public", n)) = Cardinality(FactsCounted(n, "public"))
  <2>1. Counted(map, "public", n)
          = {k \in DOMAIN map.table["function"] :
               /\ map.table["function"][k].module = n
               /\ ~map.table["function"][k].isDeclaration
               /\ ~map.table["function"][k].isStatic}
    BY DEF Counted
  <2>2. FactsCounted(n, "public") = Public \cap OfModule(n)
    BY DEF FactsCounted
  <2>3. QED BY <1>3, <1>4, <1>5, <2>1, <2>2, RowCount DEF Kinds, Public, Definitions, OfKind
<1>8. Cardinality(Counted(map, "static", n)) = Cardinality(FactsCounted(n, "static"))
  <2>1. Counted(map, "static", n)
          = {k \in DOMAIN map.table["function"] :
               /\ map.table["function"][k].module = n
               /\ ~map.table["function"][k].isDeclaration
               /\ map.table["function"][k].isStatic}
    BY DEF Counted
  <2>2. FactsCounted(n, "static") = (Definitions \ Public) \cap OfModule(n)
    BY DEF FactsCounted
  <2>3. QED BY <1>3, <1>4, <1>5, <2>1, <2>2, RowCount DEF Kinds, Public, Definitions, OfKind
<1>9. Cardinality(Counted(map, "declaration", n)) = Cardinality(FactsCounted(n, "declaration"))
  <2>1. Counted(map, "declaration", n)
          = {k \in DOMAIN map.table["function"] :
               /\ map.table["function"][k].module = n
               /\ map.table["function"][k].isDeclaration}
    BY DEF Counted
  <2>2. FactsCounted(n, "declaration") = Declarations \cap OfModule(n)
    BY DEF FactsCounted
  <2>3. QED BY <1>3, <1>4, <1>5, <2>1, <2>2, RowCount DEF Kinds, Declarations, OfKind
<1>10. Cardinality(Counted(map, "macro", n)) = Cardinality(FactsCounted(n, "macro"))
  <2>1. Counted(map, "macro", n)
          = {k \in DOMAIN map.table["macro"] : map.table["macro"][k].module = n}
    BY DEF Counted
  <2>2. FactsCounted(n, "macro") = {f \in OfKind("MACRO") : f.isDefinition} \cap OfModule(n)
    BY DEF FactsCounted
  <2>3. QED BY <1>3, <1>4, <1>5, <2>1, <2>2, RowCount DEF Kinds, OfKind
<1>11. Cardinality(Counted(map, "type", n)) = Cardinality(FactsCounted(n, "type"))
  <2>1. Counted(map, "type", n)
          = {k \in DOMAIN map.table["type"] : map.table["type"][k].module = n}
    BY DEF Counted
  <2>2. FactsCounted(n, "type") = (OfKind("TYPE") \cup OfKind("ENUM")) \cap OfModule(n)
    BY DEF FactsCounted
  <2>3. QED BY <1>3, <1>4, <1>5, <2>1, <2>2, RowCount DEF Kinds, OfKind
<1>12. Cardinality(Counted(map, "local", n)) = Cardinality(FactsCounted(n, "local"))
  <2>1. Counted(map, "local", n)
          = {k \in DOMAIN map.table["include"] :
               map.table["include"][k].module = n /\ map.table["include"][k].isLocal}
    BY DEF Counted
  <2>2. FactsCounted(n, "local") = Inclusions \cap OfModule(n)
    BY DEF FactsCounted
  <2>3. QED BY <1>3, <1>4, <1>5, <2>1, <2>2, RowCount DEF Kinds, Inclusions, OfKind
<1>13. Cardinality(Counted(map, "external", n)) = Cardinality(FactsCounted(n, "external"))
  <2>1. Counted(map, "external", n)
          = {k \in DOMAIN map.table["include"] :
               map.table["include"][k].module = n /\ ~map.table["include"][k].isLocal}
    BY DEF Counted
  <2>2. FactsCounted(n, "external") = (OfKind("INCLUDE") \ Inclusions) \cap OfModule(n)
    BY DEF FactsCounted
  <2>3. QED BY <1>3, <1>4, <1>5, <2>1, <2>2, RowCount DEF Kinds, Inclusions, OfKind
<1>14. /\ Cardinality(Counted(map, "source", n)) = Cardinality(FactsCounted(n, "source"))
       /\ Cardinality(Counted(map, "header", n)) = Cardinality(FactsCounted(n, "header"))
  BY PathsOfModule DEF FactsCounted
<1>15. QED BY <1>2, <1>6, <1>7, <1>8, <1>9, <1>10, <1>11, <1>12, <1>13, <1>14 DEF Counters

LEMMA CountersOfFacts ==
  ASSUME Mirrored, NEW i \in DOMAIN map.modules, NEW n, n = map.modules[i].name,
         NEW count, count = map.modules[i].count
  PROVE  /\ count["function"] = Cardinality(Definitions \cap OfModule(n))
         /\ count["public"] = Cardinality(Public \cap OfModule(n))
         /\ count["source"] > 0 <=> SourcesOf(n) # {}
         /\ count["header"] = 0 <=> SourcesOf(n) = OfModule(n)
<1>1. /\ count["function"] = Cardinality(Definitions \cap OfModule(n))
      /\ count["public"] = Cardinality(Public \cap OfModule(n))
  <2>1. /\ FactsCounted(n, "function") = Definitions \cap OfModule(n)
        /\ FactsCounted(n, "public") = Public \cap OfModule(n)
    BY DEF FactsCounted
  <2>2. \A c \in {"function", "public"} : count[c] = Cardinality(FactsCounted(n, c))
    BY ColumnOfFacts DEF Counters
  <2>3. QED BY <2>1, <2>2
<1>2. /\ Counted(map, "source", n)
           = {k \in DOMAIN map.files : map.files[k].module = n /\ ~map.files[k].isHeader}
      /\ Counted(map, "header", n)
           = {k \in DOMAIN map.files : map.files[k].module = n /\ map.files[k].isHeader}
  BY DEF Counted
<1>3. /\ count["source"] > 0 <=> Counted(map, "source", n) # {}
      /\ count["header"] = 0 <=> Counted(map, "header", n) = {}
  <2>1. map.modules \in Seq(Module) /\ map.files \in Seq(File) /\ CountersMatch(map)
    BY DEF Mirrored, Inv, MapInv, StoreInv, StoreType, Store
  <2>2. map.modules[i] \in Module
    BY <2>1, ElementOfSeq
  <2>3. /\ count["source"] = Cardinality(Counted(map, "source", n)) /\ count["source"] \in Nat
        /\ count["header"] = Cardinality(Counted(map, "header", n))
    BY <2>1, <2>2 DEF Counters, CountersMatch, Module
  <2>4. IsFiniteSet(Counted(map, "source", n)) /\ IsFiniteSet(Counted(map, "header", n))
    BY <1>2, <2>1, DomainFinite, FS_Subset
  <2>5. QED BY <2>3, <2>4, FS_EmptySet
<1>4. Counted(map, "source", n) # {} <=> SourcesOf(n) # {}
  BY <1>2, FileOfModule DEF SourcesOf
<1>5. Counted(map, "header", n) = {} <=> SourcesOf(n) = OfModule(n)
  BY <1>2, FileOfModule DEF SourcesOf
<1>6. QED BY <1>1, <1>3, <1>4, <1>5

-----------------------------------------------------------------------------
\* Every query answers what the facts say.
LEMMA QueriesOfFacts ==
  ASSUME Mirrored
  PROVE  /\ \A n, t : HasDirectInclude(map, n, t) <=> <<n, t>> \in Edges
         /\ \A n : UsedOutside(map, n) <=> Interface(n)
         /\ \A n, s : SymbolUsedOutside(map, n, s)
                        <=> \E call \in OfKind("CALL") : ModuleOf(call) # n /\ call.name = s
         /\ \A f \in OfKind("FUNCTION") :
              FunctionUsedOutside(map, MirrorOf(f)) <=> CalledOutside(f)
         /\ \A f : HasHeaderDeclaration(map, f) <=> Declared(f)
         /\ \A f : HasNonStaticDefinition(map, f) <=> Defined(f)
         /\ \A n : ContainsEntrypoint(map, n) <=> HasMain(n)
         /\ \A n : HasSource(map, n) <=> SourcesOf(n) # {}
         /\ \A n : HasUnmatchedPublic(map, n)
                     <=> \E f \in Public \cap OfModule(n) : f.usr # MainUsr /\ ~Declared(f)
<1>1. /\ \A g \in Functs(map) : \E f \in OfKind("FUNCTION") : g = MirrorOf(f)
      /\ \A f \in OfKind("FUNCTION") : MirrorOf(f) \in Functs(map)
  BY RecordsOfFacts
<1>2. \A f \in OfKind("FUNCTION") :
        LET g == MirrorOf(f) IN
        /\ g.module = ModuleOf(f) /\ g.usr = f.usr /\ g.isStatic = f.isStatic
        /\ g.isDeclaration = f.isDeclaration
  BY MirrorFields DEF OfKind
<1>3. /\ \A g \in Calls(map) : \E f \in OfKind("CALL") : g = MirrorOf(f)
      /\ \A f \in OfKind("CALL") : MirrorOf(f) \in Calls(map)
  BY RecordsOfFacts
<1>4. \A f \in OfKind("CALL") :
        LET g == MirrorOf(f) IN g.module = ModuleOf(f) /\ g.usr = f.usr /\ g.name = f.name
  BY MirrorFields DEF OfKind
<1>5. /\ \A g \in LocalIncludes(map) : \E f \in Inclusions : g = MirrorOf(f)
      /\ \A f \in Inclusions : MirrorOf(f) \in LocalIncludes(map)
  BY RecordsOfFacts
<1>6. \A f \in Inclusions :
        LET g == MirrorOf(f) IN g.module = ModuleOf(f) /\ g.target = TargetOf(f)
  BY MirrorFields DEF OfKind, Inclusions
<1>7. \A n, t : HasDirectInclude(map, n, t) <=> <<n, t>> \in Edges
  <2>1. \A n, t : HasDirectInclude(map, n, t)
                    <=> \E f \in Inclusions : ModuleOf(f) = n /\ TargetOf(f) = t
    BY <1>5, <1>6 DEF HasDirectInclude
  <2>2. QED BY <2>1 DEF Edges
<1>8. \A n : UsedOutside(map, n) <=> Interface(n)
  <2>1. \A n : UsedOutside(map, n)
                 <=> \E f \in Inclusions : TargetOf(f) = n /\ ModuleOf(f) # n
    BY <1>5, <1>6 DEF UsedOutside
  <2>2. \A n : Interface(n) <=> \E f \in Inclusions : TargetOf(f) = n /\ ModuleOf(f) # n
    <3>1. \A e \in Edges : \E f \in Inclusions : e[1] = ModuleOf(f) /\ e[2] = TargetOf(f)
      BY DEF Edges
    <3>2. \A f \in Inclusions : \E e \in Edges : e[1] = ModuleOf(f) /\ e[2] = TargetOf(f)
      <4>1. \A f \in Inclusions : <<ModuleOf(f), TargetOf(f)>> \in Edges
        BY DEF Edges
      <4>2. \A a, b : <<a, b>>[1] = a /\ <<a, b>>[2] = b
        OBVIOUS
      <4>3. QED BY <4>1, <4>2
    <3>3. QED BY <3>1, <3>2 DEF Interface
  <2>3. QED BY <2>1, <2>2
<1>9. \A n, s : SymbolUsedOutside(map, n, s)
                  <=> \E call \in OfKind("CALL") : ModuleOf(call) # n /\ call.name = s
  BY <1>3, <1>4 DEF SymbolUsedOutside
<1>10. \A f \in OfKind("FUNCTION") :
         FunctionUsedOutside(map, MirrorOf(f)) <=> CalledOutside(f)
  BY <1>2, <1>3, <1>4 DEF FunctionUsedOutside, CalledOutside
<1>11. \A f : HasHeaderDeclaration(map, f) <=> Declared(f)
  BY <1>1, <1>2 DEF HasHeaderDeclaration, Declared, Declarations
<1>12. \A f : HasNonStaticDefinition(map, f) <=> Defined(f)
  BY <1>1, <1>2 DEF HasNonStaticDefinition, Defined, Public, Definitions
<1>13. \A n : ContainsEntrypoint(map, n) <=> HasMain(n)
  <2>1. \A n : HasMain(n) <=> \E f \in OfKind("FUNCTION") : ModuleOf(f) = n /\ f.usr = MainUsr
    BY DEF HasMain, OfModule, OfKind
  <2>2. QED BY <1>1, <1>2, <2>1 DEF ContainsEntrypoint
<1>14. ASSUME NEW n PROVE HasSource(map, n) <=> SourcesOf(n) # {}
  <2>1. CASE Registered(map, n)
    <3>1. PICK i \in DOMAIN map.modules : map.modules[i].name = n
      BY <2>1 DEF Registered
    <3>2. ModuleIndex(map, n) = i
      BY <3>1, ModuleIndexUnique DEF Mirrored, Inv, MapInv, StoreInv, StoreType, Store
    <3>3. map.modules[i].count["source"] > 0 <=> SourcesOf(n) # {}
      BY <3>1, CountersOfFacts
    <3>4. QED BY <2>1, <3>2, <3>3 DEF HasSource
  <2>2. CASE ~Registered(map, n)
    <3>1. SourcesOf(n) = {}
      BY <2>2, ModulesOfFacts DEF SourcesOf, OfModule, ModuleNames
    <3>2. QED BY <2>2, <3>1 DEF HasSource
  <2>3. QED BY <2>1, <2>2
<1>15. \A n : HasUnmatchedPublic(map, n)
                <=> \E f \in Public \cap OfModule(n) : f.usr # MainUsr /\ ~Declared(f)
  <2>1. \A f : f \in Public <=> f \in OfKind("FUNCTION") /\ ~f.isDeclaration /\ ~f.isStatic
    BY DEF Public, Definitions
  <2>2. \A n : \A f \in OfKind("FUNCTION") : f \in OfModule(n) <=> ModuleOf(f) = n
    BY DEF OfModule, OfKind
  <2>3. \A f \in OfKind("FUNCTION") : HasHeaderDeclaration(map, MirrorOf(f)) <=> Declared(f)
    BY <1>2, <1>11 DEF Declared
  <2>4. \A n : (\E f \in Public \cap OfModule(n) : f.usr # MainUsr /\ ~Declared(f))
                 <=> \E f \in OfKind("FUNCTION") :
                       /\ ~f.isDeclaration /\ ~f.isStatic
                       /\ ModuleOf(f) = n /\ f.usr # MainUsr /\ ~Declared(f)
    BY <2>1, <2>2
  <2>5. QED BY <1>1, <1>2, <2>3, <2>4 DEF HasUnmatchedPublic
<1>16. QED BY <1>7, <1>8, <1>9, <1>10, <1>11, <1>12, <1>13, <1>14, <1>15
-----------------------------------------------------------------------------
(* What the rules find, in terms of the facts. *)

LEMMA ModuleRules ==
  ASSUME Mirrored, NEW args \in Options, NEW i \in DOMAIN map.modules,
         NEW x, x = map.modules[i], NEW n, n = x.name
  PROVE  /\ n \in ModuleNames
         /\ TooManyFunctions(args, x)
              <=> ~args.library /\ Cardinality(Definitions \cap OfModule(n)) > args.maxFunctions
         /\ TooManyPublic(args, x)
              <=> ~args.library /\ Cardinality(Public \cap OfModule(n)) > args.maxPublic
         /\ LargeMain(map, args, x)
              <=> /\ ~args.library /\ HasMain(n)
                  /\ Cardinality(Definitions \cap OfModule(n)) > 3
         /\ SourceOnly(map, x)
              <=> /\ SourcesOf(n) # {} /\ SourcesOf(n) = OfModule(n) /\ ~HasMain(n)
                  /\ \E f \in Public \cap OfModule(n) : ~Declared(f)
<1>1. /\ x.count["function"] = Cardinality(Definitions \cap OfModule(n))
      /\ x.count["public"] = Cardinality(Public \cap OfModule(n))
      /\ x.count["source"] > 0 <=> SourcesOf(n) # {}
      /\ x.count["header"] = 0 <=> SourcesOf(n) = OfModule(n)
  BY CountersOfFacts
<1>2. n \in ModuleNames
  BY ModulesOfFacts
<1>3. ContainsEntrypoint(map, n) <=> HasMain(n)
  BY QueriesOfFacts
<1>4. SourceOnly(map, x)
        <=> /\ SourcesOf(n) # {} /\ SourcesOf(n) = OfModule(n) /\ ~HasMain(n)
            /\ \E f \in Public \cap OfModule(n) : ~Declared(f)
  <2>1. ~HasMain(n) => \A f \in Public \cap OfModule(n) : f.usr # MainUsr
    BY DEF HasMain, Public, Definitions
  <2>2. HasUnmatchedPublic(map, n)
          <=> \E f \in Public \cap OfModule(n) : f.usr # MainUsr /\ ~Declared(f)
    BY QueriesOfFacts
  <2>3. QED BY <1>1, <1>3, <2>1, <2>2 DEF SourceOnly
<1>5. QED BY <1>1, <1>2, <1>3, <1>4 DEF TooManyFunctions, TooManyPublic, LargeMain

LEMMA FunctionRules ==
  ASSUME Mirrored, NEW args \in Options, NEW f \in OfKind("FUNCTION"), NEW x, x = MirrorOf(f)
  PROVE  /\ x.path = f.path /\ x.usr = f.usr
         /\ PrivateLooking(map, args, x)
              <=> /\ ~args.library /\ f \in Public
                  /\ ~Declared(f) /\ ~CalledOutside(f) /\ f.usr # MainUsr
         /\ Undefined(map, args, x)
              <=> /\ f \in Declarations /\ ~Defined(f)
                  /\ args.library => SourcesOf(ModuleOf(f)) # {}
         /\ UnusedDeclaration(map, args, x)
              <=> /\ ~args.library /\ f \in Declarations
                  /\ ~Interface(ModuleOf(f)) /\ ~HasMain(ModuleOf(f))
<1>1. /\ x.module = ModuleOf(f) /\ x.path = f.path /\ x.usr = f.usr
      /\ x.isStatic = f.isStatic /\ x.isDeclaration = f.isDeclaration
  BY MirrorFields DEF OfKind
<1>2. /\ FunctionUsedOutside(map, x) <=> CalledOutside(f)
      /\ HasHeaderDeclaration(map, x) <=> Declared(x)
      /\ HasNonStaticDefinition(map, x) <=> Defined(x)
      /\ HasSource(map, x.module) <=> SourcesOf(ModuleOf(f)) # {}
      /\ UsedOutside(map, x.module) <=> Interface(ModuleOf(f))
      /\ ContainsEntrypoint(map, x.module) <=> HasMain(ModuleOf(f))
  BY <1>1, QueriesOfFacts
<1>3. (Declared(x) <=> Declared(f)) /\ (Defined(x) <=> Defined(f))
  BY <1>1 DEF Declared, Defined
<1>4. /\ f \in Public <=> ~f.isDeclaration /\ ~f.isStatic
      /\ f \in Declarations <=> f.isDeclaration
  BY DEF Public, Definitions, Declarations
<1>5. QED BY <1>1, <1>2, <1>3, <1>4 DEF PrivateLooking, Undefined, UnusedDeclaration

LEMMA MacroAndTypeRules ==
  ASSUME Mirrored, NEW args \in Options, NEW f, NEW x, x = MirrorOf(f)
  PROVE  /\ f \in OfKind("MACRO") /\ f.isDefinition =>
              /\ x.path = f.path /\ x.name = f.name
              /\ UnusedMacro(map, args, x)
                   <=> /\ ~args.library /\ ~Interface(ModuleOf(f))
                       /\ \A call \in OfKind("CALL") :
                            call.name # f.name \/ ModuleOf(call) = ModuleOf(f)
         /\ f \in OfKind("TYPE") \cup OfKind("ENUM") =>
              /\ x.path = f.path
              /\ UnusedType(map, args, x) <=> ~args.library /\ ~Interface(ModuleOf(f))
<1>1. ASSUME f \in OfKind("MACRO"), f.isDefinition
      PROVE  /\ x.path = f.path /\ x.name = f.name
             /\ UnusedMacro(map, args, x)
                  <=> /\ ~args.library /\ ~Interface(ModuleOf(f))
                      /\ \A call \in OfKind("CALL") :
                           call.name # f.name \/ ModuleOf(call) = ModuleOf(f)
  <2>1. x.module = ModuleOf(f) /\ x.path = f.path /\ x.name = f.name
    BY <1>1, MirrorFields DEF OfKind
  <2>2. /\ UsedOutside(map, x.module) <=> Interface(ModuleOf(f))
        /\ SymbolUsedOutside(map, x.module, x.name)
             <=> \E call \in OfKind("CALL") : ModuleOf(call) # ModuleOf(f) /\ call.name = f.name
    BY <2>1, QueriesOfFacts
  <2>3. QED BY <2>1, <2>2 DEF UnusedMacro
<1>2. ASSUME f \in OfKind("TYPE") \cup OfKind("ENUM")
      PROVE  /\ x.path = f.path
             /\ UnusedType(map, args, x) <=> ~args.library /\ ~Interface(ModuleOf(f))
  <2>1. x.module = ModuleOf(f) /\ x.path = f.path
    BY <1>2, MirrorFields DEF OfKind
  <2>2. UsedOutside(map, x.module) <=> Interface(ModuleOf(f))
    BY <2>1, QueriesOfFacts
  <2>3. QED BY <2>1, <2>2 DEF UnusedType
<1>3. QED BY <1>1, <1>2

\* An include of the system is no finding: the rules ask for a local one.
LEMMA IncludeRules ==
  ASSUME Mirrored, NEW args \in Options, NEW f \in OfKind("INCLUDE"), NEW x, x = MirrorOf(f)
  PROVE  /\ x.path = f.path /\ (f.isLocal => x.target = TargetOf(f))
         /\ Cycle(map, x)
              <=> /\ f \in Inclusions /\ TargetOf(f) # ModuleOf(f)
                  /\ <<TargetOf(f), ModuleOf(f)>> \in Edges
         /\ StaleInclude(map, x) <=> f \in Inclusions /\ TargetOf(f) \notin ModuleNames
         /\ LayerViolation(args, x)
              <=> /\ f \in Inclusions /\ args.hasLayers /\ TargetOf(f) # ModuleOf(f)
                  /\ <<ModuleOf(f), TargetOf(f)>> \notin args.allowed
<1>1. /\ x.module = ModuleOf(f) /\ x.path = f.path /\ x.isLocal = f.isLocal
      /\ f.isLocal => x.target = TargetOf(f)
  BY MirrorFields DEF OfKind
<1>2. f \in Inclusions <=> f.isLocal
  BY DEF Inclusions
<1>3. /\ HasDirectInclude(map, x.target, x.module) <=> <<x.target, x.module>> \in Edges
      /\ TargetExists(map, x.target) <=> x.target \in ModuleNames
  BY QueriesOfFacts, ModulesOfFacts DEF TargetExists
<1>4. Cycle(map, x) <=> /\ f \in Inclusions /\ TargetOf(f) # ModuleOf(f)
                        /\ <<TargetOf(f), ModuleOf(f)>> \in Edges
  BY <1>1, <1>2, <1>3 DEF Cycle
<1>5. StaleInclude(map, x) <=> f \in Inclusions /\ TargetOf(f) \notin ModuleNames
  BY <1>1, <1>2, <1>3 DEF StaleInclude
<1>6. LayerViolation(args, x)
        <=> /\ f \in Inclusions /\ args.hasLayers /\ TargetOf(f) # ModuleOf(f)
            /\ <<ModuleOf(f), TargetOf(f)>> \notin args.allowed
  BY <1>1, <1>2 DEF LayerViolation, LayerAllows
<1>7. QED BY <1>1, <1>4, <1>5, <1>6

-----------------------------------------------------------------------------
(* The findings are those of the facts. *)

LEMMA ExpectedByRule ==
  ASSUME NEW args \in Options, NEW s
  PROVE  s \in Expected(args) <=>
           \/ \E n \in ModuleNames :
                \/ /\ s = <<1, n>>
                   /\ SourcesOf(n) # {} /\ SourcesOf(n) = OfModule(n) /\ ~HasMain(n)
                   /\ \E f \in Public \cap OfModule(n) : ~Declared(f)
                \/ /\ s = <<2, n>> /\ ~args.library
                   /\ Cardinality(Definitions \cap OfModule(n)) > args.maxFunctions
                \/ /\ s = <<3, n>> /\ ~args.library
                   /\ Cardinality(Public \cap OfModule(n)) > args.maxPublic
                \/ /\ s = <<4, n>> /\ ~args.library
                   /\ HasMain(n) /\ Cardinality(Definitions \cap OfModule(n)) > 3
           \/ \E f \in OfKind("FUNCTION") :
                \/ /\ s = <<6, f.path, f.usr>> /\ ~args.library /\ f \in Public
                   /\ ~Declared(f) /\ ~CalledOutside(f) /\ f.usr # MainUsr
                \/ /\ s = <<7, f.path, f.usr>> /\ f \in Declarations /\ ~Defined(f)
                   /\ args.library => SourcesOf(ModuleOf(f)) # {}
                \/ /\ s = <<8, f.path, f.usr>> /\ ~args.library /\ f \in Declarations
                   /\ ~Interface(ModuleOf(f)) /\ ~HasMain(ModuleOf(f))
           \/ \E f \in OfKind("MACRO") :
                /\ s = <<9, f.path, f.name>> /\ ~args.library
                /\ f.isDefinition /\ ~Interface(ModuleOf(f))
                /\ \A call \in OfKind("CALL") :
                     call.name # f.name \/ ModuleOf(call) = ModuleOf(f)
           \/ \E f \in OfKind("TYPE") \cup OfKind("ENUM") :
                s = <<10, f.path>> /\ ~args.library /\ ~Interface(ModuleOf(f))
           \/ \E f \in Inclusions :
                \/ /\ s = <<11, f.path, TargetOf(f)>> /\ TargetOf(f) # ModuleOf(f)
                   /\ <<TargetOf(f), ModuleOf(f)>> \in Edges
                \/ s = <<12, f.path, TargetOf(f)>> /\ TargetOf(f) \notin ModuleNames
                \/ /\ s = <<13, f.path, TargetOf(f)>> /\ args.hasLayers
                   /\ TargetOf(f) # ModuleOf(f)
                   /\ <<ModuleOf(f), TargetOf(f)>> \notin args.allowed
<1>1. Public \subseteq OfKind("FUNCTION") /\ Declarations \subseteq OfKind("FUNCTION")
  BY DEF Public, Definitions, Declarations
<1>2. s \in StructureFindings(args) <=>
        \/ \E n \in ModuleNames :
             /\ s = <<1, n>>
             /\ SourcesOf(n) # {} /\ SourcesOf(n) = OfModule(n) /\ ~HasMain(n)
             /\ \E f \in Public \cap OfModule(n) : ~Declared(f)
        \/ \E f \in Declarations :
             /\ s = <<7, f.path, f.usr>> /\ ~Defined(f)
             /\ args.library => SourcesOf(ModuleOf(f)) # {}
        \/ \E f \in Inclusions :
             \/ /\ s = <<11, f.path, TargetOf(f)>> /\ TargetOf(f) # ModuleOf(f)
                /\ <<TargetOf(f), ModuleOf(f)>> \in Edges
             \/ s = <<12, f.path, TargetOf(f)>> /\ TargetOf(f) \notin ModuleNames
             \/ /\ s = <<13, f.path, TargetOf(f)>> /\ args.hasLayers
                /\ TargetOf(f) # ModuleOf(f)
                /\ <<ModuleOf(f), TargetOf(f)>> \notin args.allowed
  BY DEF StructureFindings
<1>3. s \in ProgramFindings(args) <=>
        \/ \E n \in ModuleNames :
             \/ /\ s = <<2, n>>
                /\ Cardinality(Definitions \cap OfModule(n)) > args.maxFunctions
             \/ s = <<3, n>> /\ Cardinality(Public \cap OfModule(n)) > args.maxPublic
             \/ s = <<4, n>> /\ HasMain(n) /\ Cardinality(Definitions \cap OfModule(n)) > 3
        \/ \E f \in Public :
             /\ s = <<6, f.path, f.usr>>
             /\ ~Declared(f) /\ ~CalledOutside(f) /\ f.usr # MainUsr
        \/ \E f \in Declarations :
             s = <<8, f.path, f.usr>> /\ ~Interface(ModuleOf(f)) /\ ~HasMain(ModuleOf(f))
        \/ \E f \in OfKind("MACRO") :
             /\ s = <<9, f.path, f.name>> /\ f.isDefinition /\ ~Interface(ModuleOf(f))
             /\ \A call \in OfKind("CALL") :
                  call.name # f.name \/ ModuleOf(call) = ModuleOf(f)
        \/ \E f \in OfKind("TYPE") \cup OfKind("ENUM") :
             s = <<10, f.path>> /\ ~Interface(ModuleOf(f))
  BY DEF ProgramFindings
<1>4. s \in Expected(args)
        <=> s \in StructureFindings(args) \/ (~args.library /\ s \in ProgramFindings(args))
  BY DEF Expected
<1>5. QED BY <1>1, <1>2, <1>3, <1>4

\* What a rule finds is a finding of the facts.
LEMMA SubjectExpected ==
  ASSUME Mirrored, NEW args \in Options, NEW c \in Reported(map, args)
  PROVE  Subject(c) \in Expected(args)
<1>1. c \in Checks(map) /\ Found(map, args, c)
  BY DEF Reported
<1>2. CASE \E i \in DOMAIN map.modules, k \in {1, 2, 3, 4} : c = <<1, i, k>>
  <2>1. PICK i \in DOMAIN map.modules, k \in {1, 2, 3, 4} : c = <<1, i, k>>
    BY <1>2
  <2>2. PICK x, n : x = map.modules[i] /\ n = x.name
    OBVIOUS
  <2>3. Entry(map, c) = x /\ Subject(c) = <<k, n>> /\ c[3] = k
    BY <2>1, <2>2 DEF Entry, Loop, Subject
  <2>4. /\ k = 1 => SourceOnly(map, x)
        /\ k = 2 => TooManyFunctions(args, x)
        /\ k = 3 => TooManyPublic(args, x)
        /\ k = 4 => LargeMain(map, args, x)
    BY <1>1, <2>3, FoundByRule
  <2>5. /\ n \in ModuleNames
        /\ k = 1 => /\ SourcesOf(n) # {} /\ SourcesOf(n) = OfModule(n) /\ ~HasMain(n)
                    /\ \E f \in Public \cap OfModule(n) : ~Declared(f)
        /\ k = 2 => /\ ~args.library
                    /\ Cardinality(Definitions \cap OfModule(n)) > args.maxFunctions
        /\ k = 3 => ~args.library /\ Cardinality(Public \cap OfModule(n)) > args.maxPublic
        /\ k = 4 => /\ ~args.library /\ HasMain(n)
                    /\ Cardinality(Definitions \cap OfModule(n)) > 3
    BY <2>2, <2>4, ModuleRules
  <2>6. QED BY <2>1, <2>3, <2>5, ExpectedByRule
<1>3. CASE \E i \in DOMAIN map.table["function"], k \in {6, 7, 8} : c = <<2, i, k>>
  <2>1. PICK i \in DOMAIN map.table["function"], k \in {6, 7, 8} : c = <<2, i, k>>
    BY <1>3
  <2>2. PICK x : x = map.table["function"][i]
    OBVIOUS
  <2>3. PICK f \in OfKind("FUNCTION") : x = MirrorOf(f)
    BY <2>2, RecordsOfFacts DEF Functs, Range
  <2>4. Entry(map, c) = x /\ Subject(c) = <<k, x.path, x.usr>> /\ c[3] = k
    BY <2>1, <2>2 DEF Entry, Loop, Subject
  <2>5. /\ k = 6 => PrivateLooking(map, args, x)
        /\ k = 7 => Undefined(map, args, x)
        /\ k = 8 => UnusedDeclaration(map, args, x)
    BY <1>1, <2>4, FoundByRule
  <2>6. /\ x.path = f.path /\ x.usr = f.usr
        /\ k = 6 => /\ ~args.library /\ f \in Public
                    /\ ~Declared(f) /\ ~CalledOutside(f) /\ f.usr # MainUsr
        /\ k = 7 => /\ f \in Declarations /\ ~Defined(f)
                    /\ args.library => SourcesOf(ModuleOf(f)) # {}
        /\ k = 8 => /\ ~args.library /\ f \in Declarations
                    /\ ~Interface(ModuleOf(f)) /\ ~HasMain(ModuleOf(f))
    BY <2>3, <2>5, FunctionRules
  <2>7. QED BY <2>1, <2>4, <2>6, ExpectedByRule
<1>4. CASE \E i \in DOMAIN map.table["macro"] : c = <<3, i, 9>>
  <2>1. PICK i \in DOMAIN map.table["macro"] : c = <<3, i, 9>>
    BY <1>4
  <2>2. PICK x : x = map.table["macro"][i]
    OBVIOUS
  <2>3. PICK f \in OfKind("MACRO") : f.isDefinition /\ x = MirrorOf(f)
    BY <2>2, RecordsOfFacts DEF Range
  <2>4. Entry(map, c) = x /\ Subject(c) = <<9, x.path, x.name>> /\ c[3] = 9
    BY <2>1, <2>2 DEF Entry, Loop, Subject
  <2>5. UnusedMacro(map, args, x)
    BY <1>1, <2>4, FoundByRule
  <2>6. /\ x.path = f.path /\ x.name = f.name /\ ~args.library /\ ~Interface(ModuleOf(f))
        /\ \A call \in OfKind("CALL") :
             call.name # f.name \/ ModuleOf(call) = ModuleOf(f)
    BY <2>3, <2>5, MacroAndTypeRules
  <2>7. Subject(c) = <<9, f.path, f.name>>
    BY <2>4, <2>6
  <2>8. QED BY <2>3, <2>6, <2>7, ExpectedByRule
<1>5. CASE \E i \in DOMAIN map.table["type"] : c = <<4, i, 10>>
  <2>1. PICK i \in DOMAIN map.table["type"] : c = <<4, i, 10>>
    BY <1>5
  <2>2. PICK x : x = map.table["type"][i]
    OBVIOUS
  <2>3. PICK f \in OfKind("TYPE") \cup OfKind("ENUM") : x = MirrorOf(f)
    BY <2>2, RecordsOfFacts DEF Range
  <2>4. Entry(map, c) = x /\ Subject(c) = <<10, x.path>> /\ c[3] = 10
    BY <2>1, <2>2 DEF Entry, Loop, Subject
  <2>5. UnusedType(map, args, x)
    BY <1>1, <2>4, FoundByRule
  <2>6. x.path = f.path /\ ~args.library /\ ~Interface(ModuleOf(f))
    BY <2>3, <2>5, MacroAndTypeRules
  <2>7. Subject(c) = <<10, f.path>>
    BY <2>4, <2>6
  <2>8. QED BY <2>6, <2>7, ExpectedByRule
<1>6. CASE \E i \in DOMAIN map.table["include"], k \in {11, 12, 13} : c = <<5, i, k>>
  <2>1. PICK i \in DOMAIN map.table["include"], k \in {11, 12, 13} : c = <<5, i, k>>
    BY <1>6
  <2>2. PICK x : x = map.table["include"][i]
    OBVIOUS
  <2>3. PICK f \in OfKind("INCLUDE") : x = MirrorOf(f)
    BY <2>2, RecordsOfFacts DEF Range
  <2>4. Entry(map, c) = x /\ Subject(c) = <<k, x.path, x.target>> /\ c[3] = k
    BY <2>1, <2>2 DEF Entry, Loop, Subject
  <2>5. /\ k = 11 => Cycle(map, x)
        /\ k = 12 => StaleInclude(map, x)
        /\ k = 13 => LayerViolation(args, x)
    BY <1>1, <2>4, FoundByRule
  <2>6. /\ f \in Inclusions /\ x.path = f.path /\ x.target = TargetOf(f)
        /\ k = 11 => /\ TargetOf(f) # ModuleOf(f)
                     /\ <<TargetOf(f), ModuleOf(f)>> \in Edges
        /\ k = 12 => TargetOf(f) \notin ModuleNames
        /\ k = 13 => /\ args.hasLayers /\ TargetOf(f) # ModuleOf(f)
                     /\ <<ModuleOf(f), TargetOf(f)>> \notin args.allowed
    <3>1. f \in Inclusions
      BY <2>1, <2>3, <2>5, IncludeRules
    <3>2. f.isLocal
      BY <3>1 DEF Inclusions
    <3>3. QED BY <2>3, <2>5, <3>1, <3>2, IncludeRules
  <2>7. QED BY <2>1, <2>4, <2>6, ExpectedByRule, ZenonT(40)
<1>7. QED BY <1>1, <1>2, <1>3, <1>4, <1>5, <1>6, CheckOfRule

\* A finding of the facts is found by a rule.
LEMMA ExpectedReported ==
  ASSUME Mirrored, NEW args \in Options, NEW s \in Expected(args)
  PROVE  \E c \in Reported(map, args) : Subject(c) = s
<1>1. ASSUME NEW n \in ModuleNames,
             NEW k \in {1, 2, 3, 4}, s = <<k, n>>,
             k = 1 => /\ SourcesOf(n) # {} /\ SourcesOf(n) = OfModule(n) /\ ~HasMain(n)
                      /\ \E f \in Public \cap OfModule(n) : ~Declared(f),
             k = 2 => /\ ~args.library
                      /\ Cardinality(Definitions \cap OfModule(n)) > args.maxFunctions,
             k = 3 => ~args.library /\ Cardinality(Public \cap OfModule(n)) > args.maxPublic,
             k = 4 => /\ ~args.library /\ HasMain(n)
                      /\ Cardinality(Definitions \cap OfModule(n)) > 3
      PROVE  \E c \in Reported(map, args) : Subject(c) = s
  <2>1. PICK i \in DOMAIN map.modules : map.modules[i].name = n
    BY ModulesOfFacts DEF Registered
  <2>2. PICK c, x : c = <<1, i, k>> /\ x = map.modules[i]
    OBVIOUS
  <2>3. c \in Checks(map)
    BY <2>2, CheckOfRule
  <2>4. Entry(map, c) = x /\ x.name = n /\ Subject(c) = <<k, n>> /\ c[3] = k
    BY <2>1, <2>2 DEF Entry, Loop, Subject
  <2>5. /\ k = 1 => SourceOnly(map, x)
        /\ k = 2 => TooManyFunctions(args, x)
        /\ k = 3 => TooManyPublic(args, x)
        /\ k = 4 => LargeMain(map, args, x)
    BY <1>1, <2>1, <2>2, <2>4, ModuleRules
  <2>6. Found(map, args, c)
    BY <2>3, <2>4, <2>5, FoundByRule
  <2>7. QED BY <1>1, <2>3, <2>4, <2>6 DEF Reported
<1>2. ASSUME NEW f \in OfKind("FUNCTION"), NEW k \in {6, 7, 8}, s = <<k, f.path, f.usr>>,
             k = 6 => PrivateLooking(map, args, MirrorOf(f)),
             k = 7 => Undefined(map, args, MirrorOf(f)),
             k = 8 => UnusedDeclaration(map, args, MirrorOf(f))
      PROVE  \E c \in Reported(map, args) : Subject(c) = s
  <2>1. PICK i \in DOMAIN map.table["function"] : map.table["function"][i] = MirrorOf(f)
    BY RecordsOfFacts, SMTT(30) DEF Functs, Range
  <2>2. PICK c : c = <<2, i, k>>
    OBVIOUS
  <2>3. c \in Checks(map)
    BY <2>2, CheckOfRule
  <2>4. PICK x : x = MirrorOf(f)
    OBVIOUS
  <2>5. Entry(map, c) = x /\ Subject(c) = <<k, x.path, x.usr>> /\ c[3] = k
    BY <2>1, <2>2, <2>4 DEF Entry, Loop, Subject
  <2>6. x.path = f.path /\ x.usr = f.usr
    BY <2>4, FunctionRules
  <2>7. Found(map, args, c)
    BY <1>2, <2>3, <2>4, <2>5, FoundByRule
  <2>8. QED BY <1>2, <2>3, <2>5, <2>6, <2>7 DEF Reported
<1>3. ASSUME NEW f \in OfKind("MACRO"), f.isDefinition, s = <<9, f.path, f.name>>,
             UnusedMacro(map, args, MirrorOf(f))
      PROVE  \E c \in Reported(map, args) : Subject(c) = s
  <2>1. PICK i \in DOMAIN map.table["macro"] : map.table["macro"][i] = MirrorOf(f)
    BY <1>3, RecordsOfFacts DEF Range
  <2>2. PICK c : c = <<3, i, 9>>
    OBVIOUS
  <2>3. c \in Checks(map)
    BY <2>2, CheckOfRule
  <2>4. PICK x : x = MirrorOf(f)
    OBVIOUS
  <2>5. Entry(map, c) = x /\ Subject(c) = <<9, x.path, x.name>> /\ c[3] = 9
    BY <2>1, <2>2, <2>4 DEF Entry, Loop, Subject
  <2>6. x.path = f.path /\ x.name = f.name
    BY <1>3, <2>4, MacroAndTypeRules
  <2>7. Found(map, args, c)
    BY <1>3, <2>3, <2>4, <2>5, FoundByRule
  <2>8. QED BY <1>3, <2>3, <2>5, <2>6, <2>7 DEF Reported
<1>4. ASSUME NEW f \in OfKind("TYPE") \cup OfKind("ENUM"), s = <<10, f.path>>,
             UnusedType(map, args, MirrorOf(f))
      PROVE  \E c \in Reported(map, args) : Subject(c) = s
  <2>1. PICK i \in DOMAIN map.table["type"] : map.table["type"][i] = MirrorOf(f)
    BY <1>4, RecordsOfFacts DEF Range
  <2>2. PICK c : c = <<4, i, 10>>
    OBVIOUS
  <2>3. c \in Checks(map)
    BY <2>2, CheckOfRule
  <2>4. PICK x : x = MirrorOf(f)
    OBVIOUS
  <2>5. Entry(map, c) = x /\ Subject(c) = <<10, x.path>> /\ c[3] = 10
    BY <2>1, <2>2, <2>4 DEF Entry, Loop, Subject
  <2>6. x.path = f.path
    BY <1>4, <2>4, MacroAndTypeRules
  <2>7. Found(map, args, c)
    BY <1>4, <2>3, <2>4, <2>5, FoundByRule
  <2>8. QED BY <1>4, <2>3, <2>5, <2>6, <2>7 DEF Reported
<1>5. ASSUME NEW f \in Inclusions, NEW k \in {11, 12, 13}, s = <<k, f.path, TargetOf(f)>>,
             k = 11 => Cycle(map, MirrorOf(f)),
             k = 12 => StaleInclude(map, MirrorOf(f)),
             k = 13 => LayerViolation(args, MirrorOf(f))
      PROVE  \E c \in Reported(map, args) : Subject(c) = s
  <2>1. f \in OfKind("INCLUDE") /\ f.isLocal
    BY DEF Inclusions
  <2>2. PICK i \in DOMAIN map.table["include"] : map.table["include"][i] = MirrorOf(f)
    BY <2>1, RecordsOfFacts DEF Range
  <2>3. PICK c : c = <<5, i, k>>
    OBVIOUS
  <2>4. c \in Checks(map)
    BY <2>3, CheckOfRule
  <2>5. PICK x : x = MirrorOf(f)
    OBVIOUS
  <2>6. Entry(map, c) = x /\ Subject(c) = <<k, x.path, x.target>> /\ c[3] = k
    BY <2>2, <2>3, <2>5 DEF Entry, Loop, Subject
  <2>7. x.path = f.path /\ x.target = TargetOf(f)
    BY <2>1, <2>5, IncludeRules
  <2>8. Found(map, args, c)
    BY <1>5, <2>4, <2>5, <2>6, FoundByRule
  <2>9. QED BY <1>5, <2>4, <2>6, <2>7, <2>8 DEF Reported
<1>6. CASE \E n \in ModuleNames :
             \/ /\ s = <<1, n>>
                /\ SourcesOf(n) # {} /\ SourcesOf(n) = OfModule(n) /\ ~HasMain(n)
                /\ \E f \in Public \cap OfModule(n) : ~Declared(f)
             \/ /\ s = <<2, n>> /\ ~args.library
                /\ Cardinality(Definitions \cap OfModule(n)) > args.maxFunctions
             \/ /\ s = <<3, n>> /\ ~args.library
                /\ Cardinality(Public \cap OfModule(n)) > args.maxPublic
             \/ /\ s = <<4, n>> /\ ~args.library
                /\ HasMain(n) /\ Cardinality(Definitions \cap OfModule(n)) > 3
  BY <1>1, <1>6
<1>7. CASE \E f \in OfKind("FUNCTION") :
             \/ /\ s = <<6, f.path, f.usr>> /\ ~args.library /\ f \in Public
                /\ ~Declared(f) /\ ~CalledOutside(f) /\ f.usr # MainUsr
             \/ /\ s = <<7, f.path, f.usr>> /\ f \in Declarations /\ ~Defined(f)
                /\ args.library => SourcesOf(ModuleOf(f)) # {}
             \/ /\ s = <<8, f.path, f.usr>> /\ ~args.library /\ f \in Declarations
                /\ ~Interface(ModuleOf(f)) /\ ~HasMain(ModuleOf(f))
  BY <1>2, <1>7, FunctionRules
<1>8. CASE \E f \in OfKind("MACRO") :
             /\ s = <<9, f.path, f.name>> /\ ~args.library
             /\ f.isDefinition /\ ~Interface(ModuleOf(f))
             /\ \A call \in OfKind("CALL") :
                  call.name # f.name \/ ModuleOf(call) = ModuleOf(f)
  BY <1>3, <1>8, MacroAndTypeRules
<1>9. CASE \E f \in OfKind("TYPE") \cup OfKind("ENUM") :
             s = <<10, f.path>> /\ ~args.library /\ ~Interface(ModuleOf(f))
  BY <1>4, <1>9, MacroAndTypeRules
<1>10. CASE \E f \in Inclusions :
             \/ /\ s = <<11, f.path, TargetOf(f)>> /\ TargetOf(f) # ModuleOf(f)
                /\ <<TargetOf(f), ModuleOf(f)>> \in Edges
             \/ s = <<12, f.path, TargetOf(f)>> /\ TargetOf(f) \notin ModuleNames
             \/ /\ s = <<13, f.path, TargetOf(f)>> /\ args.hasLayers
                /\ TargetOf(f) # ModuleOf(f)
                /\ <<ModuleOf(f), TargetOf(f)>> \notin args.allowed
  <2>1. Inclusions \subseteq OfKind("INCLUDE")
    BY DEF Inclusions
  <2>2. QED BY <1>5, <1>10, <2>1, IncludeRules
<1>11. QED BY <1>6, <1>7, <1>8, <1>9, <1>10, ExpectedByRule

LEMMA MirroredAlways ==
  ASSUME FactPathsFit, FactsAgree
  PROVE  Spec => [](map.err = "none" => Mirrored)
<1>1. Inv /\ (map.err = "none" => Mirrors(map, taken)) => (map.err = "none" => Mirrored)
  BY DEF Mirrored
<1>2. QED BY <1>1, Invariant, MirrorInvariant, PTL

\* The report is about the project and not about the order of its facts: if they
\* agree on their files and none was refused, the rules of write_findings find in
\* the counters and the copied names of the map exactly what the facts say.
THEOREM FindingsRight ==
  ASSUME FactPathsFit, FactsAgree
  PROVE  Spec => [](map.err = "none" => FindingsOfFacts)
<1>1. ASSUME Mirrored PROVE FindingsOfFacts
  <2> SUFFICES ASSUME NEW args \in Options
               PROVE  {Subject(c) : c \in Reported(map, args)} = Expected(args)
    BY DEF FindingsOfFacts
  <2>1. \A c \in Reported(map, args) : Subject(c) \in Expected(args)
    BY <1>1, SubjectExpected
  <2>2. \A s \in Expected(args) : \E c \in Reported(map, args) : Subject(c) = s
    BY <1>1, ExpectedReported
  <2>3. QED BY <2>1, <2>2
<1>2. QED BY <1>1, MirroredAlways, PTL

\* A function defined in one module and declared in the header of any other is
\* never a finding of P101-MOD-006 or P101-MOD-007 (has_header_declaration and
\* has_nonstatic_definition, which look at every module).
THEOREM SplitPairs ==
  ASSUME FactPathsFit, FactsAgree
  PROVE  Spec => [](map.err = "none" => SplitPairsAccepted)
<1>1. ASSUME Mirrored PROVE SplitPairsAccepted
  <2> SUFFICES ASSUME NEW args \in Options, NEW c \in Reported(map, args), c[3] \in {6, 7},
                      NEW usr, usr = Entry(map, c).usr, usr # EmptyUsr,
                      \E f \in Public : f.usr = usr, \E f \in Declarations : f.usr = usr
               PROVE  FALSE
    BY DEF SplitPairsAccepted
  <2>1. c \in Checks(map) /\ Found(map, args, c)
    BY DEF Reported
  <2>2. PICK x : x = Entry(map, c)
    OBVIOUS
  <2>3. ~HasHeaderDeclaration(map, x) \/ ~HasNonStaticDefinition(map, x)
    BY <2>1, <2>2, FoundByRule DEF PrivateLooking, Undefined
  <2>4. ~Declared(x) \/ ~Defined(x)
    BY <1>1, <2>3, QueriesOfFacts
  <2>5. QED BY <2>2, <2>4 DEF Declared, Defined
<1>2. QED BY <1>1, MirroredAlways, PTL

-----------------------------------------------------------------------------
(* The tables of the report. *)

LEMMA RowsRight == Mirrored => RowsOfFacts
<1> SUFFICES ASSUME Mirrored PROVE RowsOfFacts
  OBVIOUS
<1>1. /\ map.modules \in Seq(Module) /\ map.files \in Seq(File)
      /\ map.table["function"] \in Seq(Record("function"))
      /\ ModuleNamesUnique(map)
  BY DEF Mirrored, Inv, MapInv, StoreInv, StoreType, Store, Kinds
<1>2. {map.modules[i].name : i \in DOMAIN map.modules} = ModuleNames
  BY ModulesOfFacts
<1>3. Len(map.files) = Cardinality(PathsOf(taken))
  <2>1. /\ \A i \in DOMAIN map.files : map.files[i].path \in PathsOf(taken)
        /\ \A p \in PathsOf(taken) : \E i \in DOMAIN map.files : map.files[i].path = p
    BY DEF Mirrored, Mirrors, FilesMirror, Known, PathsOf
  <2>2. Cardinality(DOMAIN map.files) = Cardinality(PathsOf(taken))
    BY <2>1, PathCount
  <2>3. QED BY <1>1, <2>2, DomainFinite
<1>4. Len(map.modules) = Cardinality(ModuleNames)
  <2> DEFINE D == DOMAIN map.modules
             h == [i \in D |-> map.modules[i].name]
  <2>1. h \in Bijection(D, ModuleNames)
    BY <1>1, <1>2 DEF ModuleNamesUnique, Bijection, Injection, Surjection, IsInjective
  <2>2. ExistsBijection(D, ModuleNames)
    BY <2>1 DEF ExistsBijection
  <2>3. IsFiniteSet(D) /\ Cardinality(D) = Len(map.modules)
    BY <1>1, DomainFinite
  <2>4. QED BY <2>2, <2>3, FS_Bijection
<1>5. Len(map.table["function"]) = Cardinality(OfKind("FUNCTION"))
  <2>1. InTable(taken, "function") = OfKind("FUNCTION")
    BY FactTables DEF OfKind
  <2>2. Cardinality(DOMAIN map.table["function"]) = Cardinality(OfKind("FUNCTION"))
    BY <2>1, RowCount DEF Kinds
  <2>3. QED BY <1>1, <2>2, DomainFinite
<1>6. \A i \in DOMAIN map.modules : \A c \in Counters :
        map.modules[i].count[c] = Cardinality(FactsCounted(map.modules[i].name, c))
  BY ColumnOfFacts
<1>7. /\ DOMAIN Rows(map) = DOMAIN map.modules
      /\ \A i \in DOMAIN map.modules : /\ Rows(map)[i].name = map.modules[i].name
                                       /\ Rows(map)[i].column = map.modules[i].count
  BY DEF Rows
<1>8. {Rows(map)[i].name : i \in DOMAIN Rows(map)} = ModuleNames
  BY <1>2, <1>7
<1>9. QED BY <1>3, <1>4, <1>5, <1>6, <1>7, <1>8 DEF RowsOfFacts, Totals, FunctionsFound

\* This holds of every sound map, whatever its facts.
LEMMA SectionsRight == Inv => SectionsMatchRows
<1> SUFFICES ASSUME Inv PROVE SectionsMatchRows
  OBVIOUS
<1> DEFINE functions == map.table["function"]
           Shown(i, v) == Cardinality({k \in Section(map, i) : Visibility(functions[k]) = v})
<1>1. map.modules \in Seq(Module) /\ ModuleNamesUnique(map) /\ Homes(map) /\ CountersMatch(map)
  BY DEF Inv, MapInv, StoreInv, StoreType, Store
<1>2. ASSUME NEW k \in DOMAIN functions
      PROVE  Cardinality({i \in DOMAIN map.modules : k \in Section(map, i)}) = 1
  <2>1. PICK i \in DOMAIN map.modules : map.modules[i].name = functions[k].module
    BY <1>1 DEF Homes, Registered, Kinds
  <2>2. \A j \in DOMAIN map.modules : k \in Section(map, j) <=> j = i
    BY <1>1, <2>1 DEF Section, ModuleNamesUnique
  <2>3. {j \in DOMAIN map.modules : k \in Section(map, j)} = {i}
    BY <2>2
  <2>4. QED BY <2>3, FS_Singleton
<1>3. ASSUME NEW i \in DOMAIN map.modules
      PROVE  /\ Shown(i, "header") = Rows(map)[i].column["declaration"]
             /\ Shown(i, "public") = Rows(map)[i].column["public"]
             /\ Shown(i, "private") = Rows(map)[i].column["static"]
  <2>1. PICK n : n = map.modules[i].name
    OBVIOUS
  <2>2. \A c \in Counters : Rows(map)[i].column[c] = Cardinality(Counted(map, c, n))
    BY <1>1, <2>1 DEF Rows, CountersMatch
  <2>3. \A k \in DOMAIN functions :
          /\ Visibility(functions[k]) = "header" <=> functions[k].isDeclaration
          /\ Visibility(functions[k]) = "public"
               <=> ~functions[k].isDeclaration /\ ~functions[k].isStatic
          /\ Visibility(functions[k]) = "private"
               <=> ~functions[k].isDeclaration /\ functions[k].isStatic
    BY DEF Visibility
  <2>4. \A k : k \in Section(map, i) <=> k \in DOMAIN functions /\ functions[k].module = n
    BY <2>1 DEF Section
  <2>5. Counted(map, "declaration", n)
          = {k \in Section(map, i) : Visibility(functions[k]) = "header"}
    BY <2>3, <2>4 DEF Counted
  <2>6. Counted(map, "public", n)
          = {k \in Section(map, i) : Visibility(functions[k]) = "public"}
    BY <2>3, <2>4 DEF Counted
  <2>7. Counted(map, "static", n)
          = {k \in Section(map, i) : Visibility(functions[k]) = "private"}
    BY <2>3, <2>4 DEF Counted
  <2>8. QED BY <2>2, <2>5, <2>6, <2>7 DEF Counters
<1>4. QED BY <1>2, <1>3 DEF SectionsMatchRows

\* The numbers of the tables are the numbers of the facts: the counters that
\* model_mutation.c keeps for the rows and the totals agree with each other, with
\* the lists below them and with the project (report.c:228-295 and 880-921).
THEOREM TablesRight ==
  ASSUME FactPathsFit, FactsAgree
  PROVE  Spec => [](map.err = "none" => TablesOfFacts)
<1>1. Mirrored => TablesOfFacts
  BY RowsRight, SectionsRight DEF Mirrored, TablesOfFacts
<1>2. QED BY <1>1, MirroredAlways, PTL

-----------------------------------------------------------------------------
(* The graph. *)

\* An include is a finding of some command line if it is one of its map.
LEMMA IncludeFound ==
  ASSUME NEW k \in DOMAIN map.table["include"], NEW x, x = map.table["include"][k],
         NEW args \in Options
  PROVE  /\ <<5, k, 11>> \in Reported(map, args) <=> Cycle(map, x)
         /\ <<5, k, 12>> \in Reported(map, args) <=> StaleInclude(map, x)
<1>1. \A r \in {11, 12} : <<5, k, r>> \in Checks(map)
  BY CheckOfRule
<1>2. ASSUME NEW r \in {11, 12}, NEW c, c = <<5, k, r>>
      PROVE  Entry(map, c) = x /\ c[3] = r
  BY <1>2 DEF Entry, Loop
<1>3. QED BY <1>1, <1>2, FoundByRule DEF Reported

LEMMA GraphRight == Inv => GraphAgrees
<1> SUFFICES ASSUME Inv PROVE GraphAgrees
  OBVIOUS
<1> DEFINE includes == map.table["include"]
           graph == Graph(map)
           named == {map.modules[i].name : i \in DOMAIN map.modules}
           Reports(k, rule) == \E args \in Options : <<5, k, rule>> \in Reported(map, args)
<1>1. Homes(map) /\ CountersMatch(map)
  BY DEF Inv, MapInv, StoreInv
<1>2. \A k : k \in graph <=> k \in DOMAIN includes /\ includes[k].isLocal
  BY DEF Graph
<1>3. ASSUME NEW i \in DOMAIN map.modules
      PROVE  Rows(map)[i].column["local"]
               = Cardinality({k \in graph : includes[k].module = map.modules[i].name})
  <2>1. Rows(map)[i].column["local"] = Cardinality(Counted(map, "local", map.modules[i].name))
    BY <1>1 DEF Rows, CountersMatch, Counters
  <2>2. Counted(map, "local", map.modules[i].name)
          = {k \in graph : includes[k].module = map.modules[i].name}
    BY <1>2 DEF Counted
  <2>3. QED BY <2>1, <2>2
<1>4. ASSUME NEW k \in graph
      PROVE  /\ includes[k].module \in named
             /\ Reports(k, 12) <=> includes[k].target \notin named
             /\ Reports(k, 11) <=> /\ includes[k].module # includes[k].target
                                   /\ \E j \in graph : /\ includes[j].module = includes[k].target
                                                       /\ includes[j].target = includes[k].module
  <2>1. k \in DOMAIN includes /\ includes[k].isLocal
    BY <1>2
  <2>2. \A n : Registered(map, n) <=> n \in named
    BY DEF Registered
  <2>3. includes[k].module \in named
    BY <1>1, <2>1, <2>2 DEF Homes, Kinds
  <2>4. /\ Reports(k, 12) <=> StaleInclude(map, includes[k])
        /\ Reports(k, 11) <=> Cycle(map, includes[k])
    BY <2>1, IncludeFound, OptionsAssumption
  <2>5. StaleInclude(map, includes[k]) <=> includes[k].target \notin named
    BY <2>1, <2>2 DEF StaleInclude, TargetExists
  <2>6. \A n, t : HasDirectInclude(map, n, t)
                    <=> \E j \in graph : includes[j].module = n /\ includes[j].target = t
    BY <1>2 DEF HasDirectInclude, LocalIncludes, Range
  <2>7. QED BY <2>1, <2>3, <2>4, <2>5, <2>6, SMTT(30) DEF Cycle
<1>5. QED BY <1>3, <1>4 DEF GraphAgrees

\* Whatever was loaded, and even if a fact was refused, the graph, the table and the
\* findings say the same of includes (write_include_graph, write_modules and the
\* rules P101-MOD-011 and P101-MOD-012).
THEOREM GraphAlways == Spec => []GraphAgrees
BY GraphRight, Invariant, PTL

-----------------------------------------------------------------------------
(* The places of findings. *)

\* The path shown for a module is that of its first source, if it has one.
LEMMA SourceShown ==
  ASSUME Mirrored, NEW i \in DOMAIN map.modules, NEW n, n = map.modules[i].name,
         NEW shown, shown = map.modules[i].sourcePath
  PROVE  \/ SourcesOf(n) = {} /\ shown = NoPath
         \/ shown \in PathsOf(SourcesOf(n))
<1> DEFINE own == {j \in DOMAIN map.files :
                     map.files[j].module = n /\ map.files[j].isHeader = FALSE}
<1>1. IF own = {} THEN shown = NoPath
      ELSE \E j \in own : shown = map.files[j].path
  BY DEF Mirrored, Inv, FirstPathsKept
<1>2. \A j \in DOMAIN map.files : map.files[j].isHeader = FALSE <=> ~map.files[j].isHeader
  <2>1. map.files \in Seq(File)
    BY DEF Mirrored, Inv, MapInv, StoreInv, StoreType, Store
  <2>2. \A j \in DOMAIN map.files : map.files[j] \in File
    BY <2>1, ElementOfSeq
  <2>3. QED BY <2>2 DEF File
<1>3. own = {} <=> SourcesOf(n) = {}
  BY <1>2, FileOfModule DEF SourcesOf
<1>4. \A j \in own : map.files[j].path \in PathsOf(SourcesOf(n))
  BY <1>2 DEF Mirrored, Mirrors, FilesMirror, PathsOf, SourcesOf, OfModule
<1>5. QED BY <1>1, <1>3, <1>4

LEMMA PlaceRight ==
  ASSUME Mirrored, NEW args \in Options, NEW c \in Reported(map, args),
         NEW e, e = Entry(map, c), NEW place, place = Location(map, c)
  PROVE  /\ c[3] \in {1, 2, 3} => place \in ModuleNames
         /\ c[3] = 4 => \/ SourcesOf(e.name) = {} /\ place = NoPath
                        \/ place \in PathsOf(SourcesOf(e.name))
         /\ c[3] \in {6, 7, 8} => \E f \in OfKind("FUNCTION") : f.path = place /\ f.usr = e.usr
         /\ c[3] = 9 => \E f \in OfKind("MACRO") : f.path = place /\ f.name = e.name
         /\ c[3] = 10 => \E f \in OfKind("TYPE") \cup OfKind("ENUM") : f.path = place
         /\ c[3] \in {11, 12, 13} =>
              \E f \in Inclusions : f.path = place /\ TargetOf(f) = e.target
<1>1. c \in Checks(map) /\ Found(map, args, c)
  BY DEF Reported
<1>2. CASE \E i \in DOMAIN map.modules, k \in {1, 2, 3, 4} : c = <<1, i, k>>
  <2>1. PICK i \in DOMAIN map.modules, k \in {1, 2, 3, 4} : c = <<1, i, k>>
    BY <1>2
  <2>2. e = map.modules[i] /\ c[3] = k
    BY <2>1 DEF Entry, Loop
  <2>3. /\ k # 4 => place = e.name
        /\ k = 4 => place = e.sourcePath
    BY <2>1, <2>2 DEF Location
  <2>4. e.name \in ModuleNames
    BY <2>2, ModulesOfFacts
  <2>5. k = 4 => \/ SourcesOf(e.name) = {} /\ place = NoPath
                 \/ place \in PathsOf(SourcesOf(e.name))
    BY <2>2, <2>3, SourceShown
  <2>6. QED BY <2>1, <2>2, <2>3, <2>4, <2>5
<1>3. CASE \E i \in DOMAIN map.table["function"], k \in {6, 7, 8} : c = <<2, i, k>>
  <2>1. PICK i \in DOMAIN map.table["function"], k \in {6, 7, 8} : c = <<2, i, k>>
    BY <1>3
  <2>2. e = map.table["function"][i] /\ c[3] = k
    BY <2>1 DEF Entry, Loop
  <2>3. PICK f \in OfKind("FUNCTION") : e = MirrorOf(f)
    BY <2>2, RecordsOfFacts DEF Functs, Range
  <2>4. e.path = f.path /\ e.usr = f.usr
    BY <2>3, MirrorFields DEF OfKind
  <2>5. place = e.path
    BY <2>2 DEF Location
  <2>6. QED BY <2>2, <2>4, <2>5
<1>4. CASE \E i \in DOMAIN map.table["macro"] : c = <<3, i, 9>>
  <2>1. PICK i \in DOMAIN map.table["macro"] : c = <<3, i, 9>>
    BY <1>4
  <2>2. e = map.table["macro"][i] /\ c[3] = 9
    BY <2>1 DEF Entry, Loop
  <2>3. PICK f \in OfKind("MACRO") : f.isDefinition /\ e = MirrorOf(f)
    BY <2>2, RecordsOfFacts DEF Range
  <2>4. e.path = f.path /\ e.name = f.name
    BY <2>3, MirrorFields DEF OfKind
  <2>5. place = e.path
    BY <2>2 DEF Location
  <2>6. QED BY <2>2, <2>4, <2>5
<1>5. CASE \E i \in DOMAIN map.table["type"] : c = <<4, i, 10>>
  <2>1. PICK i \in DOMAIN map.table["type"] : c = <<4, i, 10>>
    BY <1>5
  <2>2. e = map.table["type"][i] /\ c[3] = 10
    BY <2>1 DEF Entry, Loop
  <2>3. PICK f \in OfKind("TYPE") \cup OfKind("ENUM") : e = MirrorOf(f)
    BY <2>2, RecordsOfFacts DEF Range
  <2>4. e.path = f.path
    BY <2>3, MirrorFields DEF OfKind
  <2>5. place = e.path
    BY <2>2 DEF Location
  <2>6. QED BY <2>2, <2>4, <2>5
<1>6. CASE \E i \in DOMAIN map.table["include"], k \in {11, 12, 13} : c = <<5, i, k>>
  <2>1. PICK i \in DOMAIN map.table["include"], k \in {11, 12, 13} : c = <<5, i, k>>
    BY <1>6
  <2>2. e = map.table["include"][i] /\ c[3] = k
    BY <2>1 DEF Entry, Loop
  <2>3. PICK f \in OfKind("INCLUDE") : e = MirrorOf(f)
    BY <2>2, RecordsOfFacts DEF Range
  <2>4. f \in Inclusions
    <3>1. Cycle(map, e) \/ StaleInclude(map, e) \/ LayerViolation(args, e)
      BY <1>1, <2>1, <2>2, FoundByRule
    <3>2. QED BY <2>3, <3>1, IncludeRules
  <2>5. e.path = f.path /\ e.target = TargetOf(f)
    BY <2>3, <2>4, IncludeRules DEF Inclusions
  <2>6. place = e.path
    BY <2>1, <2>2 DEF Location
  <2>7. QED BY <2>1, <2>2, <2>4, <2>5, <2>6
<1>7. QED BY <1>1, <1>2, <1>3, <1>4, <1>5, <1>6, CheckOfRule

\* Who follows a finding to its place finds what it is about: the row of its module,
\* a source of it, or a file whose facts include the entry that is meant (the calls
\* of write_finding in report.c:399-784).
THEOREM Located ==
  ASSUME FactPathsFit, FactsAgree
  PROVE  Spec => [](map.err = "none" => FindingsLocated)
<1>1. ASSUME Mirrored PROVE FindingsLocated
  <2>1. \A args \in Options : \A c \in Reported(map, args) :
          c[3] \in {1, 2, 3, 4, 6, 7, 8, 9, 10, 11, 12, 13}
    BY FoundByRule DEF Reported
  <2>2. QED BY <1>1, <2>1, PlaceRight DEF FindingsLocated
<1>2. QED BY <1>1, MirroredAlways, PTL
=============================================================================
