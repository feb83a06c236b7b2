------------------------------ MODULE StoreProofs ------------------------------
(***************************************************************************)
(* What every operation of ProjectMap.tla preserves, for all limits, paths *)
(* and names.  StoreInv is the invariant of the store: its parts need each *)
(* other.  A counter is right after an operation only if the operation     *)
(* credits the one module of that name (ModuleNamesUnique) and if a module *)
(* made just now has no record yet (Homes).  At the end, what FactApply     *)
(* makes of them: one fact, for the read loop and for the survey.          *)
(***************************************************************************)
EXTENDS FactApply, FiniteSetTheorems, SequenceTheorems, WellFoundedInduction, TLAPS

\* Whatever names a module names one of the module table.
Homes(m) ==
  /\ \A j \in DOMAIN m.files : Registered(m, m.files[j].module)
  /\ \A kind \in Kinds : \A i \in DOMAIN m.table[kind] :
       Registered(m, m.table[kind][i].module)

StoreInv(m) ==
  /\ StoreType(m)
  /\ ModuleNamesUnique(m)
  /\ Homes(m)
  /\ CountersMatch(m)

-----------------------------------------------------------------------------
(* Lookup. *)

LEMMA LeastNat ==
  ASSUME NEW S, S \subseteq Nat, S # {}
  PROVE  \E i \in S : \A j \in S : i <= j
<1>1. PICK i \in S : \A j \in S : <<j, i>> \notin OpToRel(<, Nat)
  BY NatLessThanWellFounded, WFMin
<1>2. \A j \in S : ~(j < i)
  BY <1>1 DEF OpToRel
<1>3. QED BY <1>2

\* The first module of a name is the module of that name.
LEMMA ModuleIndexUnique ==
  ASSUME NEW m, m.modules \in Seq(Module), ModuleNamesUnique(m), NEW i \in DOMAIN m.modules
  PROVE  ModuleIndex(m, m.modules[i].name) = i
<1> DEFINE P(j) == /\ m.modules[j].name = m.modules[i].name
                   /\ \A k \in DOMAIN m.modules : m.modules[k].name = m.modules[i].name => j <= k
<1>1. \A j \in DOMAIN m.modules : m.modules[j].name = m.modules[i].name => j = i
  BY DEF ModuleNamesUnique
<1>2. QED BY <1>1 DEF ModuleIndex

-----------------------------------------------------------------------------
(* Counters and the sets they count. *)

\* A counter depends on the files and the tables only.
LEMMA CountedSame ==
  ASSUME NEW m, NEW r, r.files = m.files, r.table = m.table, NEW c, NEW name
  PROVE  Counted(r, c, name) = Counted(m, c, name)
BY DEF Counted

\* Nothing is counted for a name that is no module.
LEMMA CountedNone ==
  ASSUME NEW m, Homes(m), NEW c \in Counters, NEW name, ~Registered(m, name)
  PROVE  Counted(m, c, name) = {}
<1>1. \A j \in DOMAIN m.files : m.files[j].module # name
  BY DEF Homes
<1>2. \A kind \in Kinds : \A i \in DOMAIN m.table[kind] : m.table[kind][i].module # name
  BY DEF Homes
<1>3. /\ \A i \in DOMAIN m.table["include"] : m.table["include"][i].module # name
      /\ \A i \in DOMAIN m.table["function"] : m.table["function"][i].module # name
      /\ \A i \in DOMAIN m.table["macro"] : m.table["macro"][i].module # name
      /\ \A i \in DOMAIN m.table["type"] : m.table["type"][i].module # name
  BY <1>2 DEF Kinds
<1>4. CASE c \in {"source", "header"}
  BY <1>1, <1>4 DEF Counted
<1>5. CASE c \in {"function", "public", "static", "declaration"}
  BY <1>3, <1>5 DEF Counted
<1>6. CASE c \in {"macro", "type"}
  BY <1>3, <1>6 DEF Counted
<1>7. CASE c \in {"local", "external"}
  BY <1>3, <1>7 DEF Counted
<1>8. QED BY <1>4, <1>5, <1>6, <1>7 DEF Counters

\* What is counted are positions of one table, so never the next free one.
LEMMA CountedBounded ==
  ASSUME NEW m, StoreType(m), NEW c \in Counters, NEW name
  PROVE  /\ IsFiniteSet(Counted(m, c, name))
         /\ c \in {"source", "header"} => Counted(m, c, name) \subseteq 1..Len(m.files)
         /\ c \in {"function", "public", "static", "declaration"} =>
              Counted(m, c, name) \subseteq 1..Len(m.table["function"])
         /\ c = "macro" => Counted(m, c, name) \subseteq 1..Len(m.table["macro"])
         /\ c = "type" => Counted(m, c, name) \subseteq 1..Len(m.table["type"])
         /\ c \in {"local", "external"} =>
              Counted(m, c, name) \subseteq 1..Len(m.table["include"])
<1>1. /\ Len(m.files) \in Nat /\ DOMAIN m.files = 1..Len(m.files)
      /\ \A kind \in Kinds : /\ Len(m.table[kind]) \in Nat
                             /\ DOMAIN m.table[kind] = 1..Len(m.table[kind])
  BY LenProperties DEF StoreType, Store
<1>2. \A n \in Nat : \A S : S \subseteq 1..n => IsFiniteSet(S)
  <2> SUFFICES ASSUME NEW n \in Nat, NEW S, S \subseteq 1..n PROVE IsFiniteSet(S)
    OBVIOUS
  <2>1. IsFiniteSet(1..n)
    BY FS_Interval
  <2>2. QED BY <2>1, FS_Subset
<1>3. CASE c \in {"source", "header"}
  <2>1. Counted(m, c, name) \subseteq 1..Len(m.files)
    BY <1>1, <1>3 DEF Counted
  <2>2. QED BY <2>1, <1>1, <1>2, <1>3
<1>4. CASE c \in {"function", "public", "static", "declaration"}
  <2>1. Counted(m, c, name) \subseteq 1..Len(m.table["function"])
    BY <1>1, <1>4 DEF Counted, Kinds
  <2>2. QED BY <2>1, <1>1, <1>2, <1>4 DEF Kinds
<1>5. CASE c = "macro"
  <2>1. Counted(m, c, name) \subseteq 1..Len(m.table["macro"])
    BY <1>1, <1>5 DEF Counted, Kinds
  <2>2. QED BY <2>1, <1>1, <1>2, <1>5 DEF Kinds
<1>6. CASE c = "type"
  <2>1. Counted(m, c, name) \subseteq 1..Len(m.table["type"])
    BY <1>1, <1>6 DEF Counted, Kinds
  <2>2. QED BY <2>1, <1>1, <1>2, <1>6 DEF Kinds
<1>7. CASE c \in {"local", "external"}
  <2>1. Counted(m, c, name) \subseteq 1..Len(m.table["include"])
    BY <1>1, <1>7 DEF Counted, Kinds
  <2>2. QED BY <2>1, <1>1, <1>2, <1>7 DEF Kinds
<1>8. QED BY <1>3, <1>4, <1>5, <1>6, <1>7 DEF Counters

-----------------------------------------------------------------------------
(* get_module. *)

LEMMA GetModuleInv ==
  ASSUME NEW m, StoreInv(m), NEW name \in Names
  PROVE  /\ StoreInv(GetModule(m, name))
         /\ GetModule(m, name).files = m.files
         /\ GetModule(m, name).table = m.table
         /\ GetModule(m, name).callsDropped = m.callsDropped
         /\ Registered(GetModule(m, name), name) =>
              GetModule(m, name).err = m.err
         /\ Registered(m, name) => GetModule(m, name) = m
         /\ ~Registered(GetModule(m, name), name) => GetModule(m, name) = Raise(m, "usage")
<1> DEFINE r == GetModule(m, name)
<1>0. /\ m \in Store /\ Len(m.modules) \in Nat /\ DOMAIN m.modules = 1..Len(m.modules)
      /\ m.modules \in Seq(Module)
  BY LenProperties DEF StoreInv, StoreType, Store
<1>1. CASE Registered(m, name)
  BY <1>1 DEF GetModule
<1>2. CASE ~Registered(m, name) /\ Len(m.modules) >= MaxModules
  <2>1. r = [m EXCEPT !.err = "usage"]
    BY <1>2 DEF GetModule, Raise
  <2>2. /\ r \in Store /\ r.files = m.files /\ r.modules = m.modules
        /\ r.table = m.table /\ r.callsDropped = m.callsDropped
    BY <1>0, <2>1 DEF Store, Errors
  <2>3. ~Registered(r, name)
    BY <1>2, <2>2 DEF Registered
  <2>4. StoreType(r) /\ ModuleNamesUnique(r)
    BY <2>2 DEF StoreInv, StoreType, ModuleNamesUnique
  <2>5. Homes(r)
    BY <2>2 DEF StoreInv, Homes, Registered
  <2>6. CountersMatch(r)
    BY <2>2, CountedSame DEF StoreInv, CountersMatch
  <2>7. QED BY <1>2, <2>1, <2>2, <2>3, <2>4, <2>5, <2>6 DEF StoreInv, Raise
<1>3. CASE ~Registered(m, name) /\ ~(Len(m.modules) >= MaxModules)
  <2> DEFINE new == NewModule(name)
             n == Len(m.modules) + 1
  <2>1. new \in Module
    BY DEF NewModule, Module
  <2>2. r = [m EXCEPT !.modules = Append(m.modules, new)]
    BY <1>3 DEF GetModule
  <2>3. /\ Append(m.modules, new) \in Seq(Module)
        /\ Len(Append(m.modules, new)) = n
        /\ \A i \in 1..Len(m.modules) : Append(m.modules, new)[i] = m.modules[i]
        /\ Append(m.modules, new)[n] = new
        /\ DOMAIN Append(m.modules, new) = 1..n
    BY <1>0, <2>1
  <2>4. /\ r \in Store /\ r.files = m.files /\ r.modules = Append(m.modules, new)
        /\ r.table = m.table /\ r.callsDropped = m.callsDropped /\ r.err = m.err
    BY <1>0, <2>2, <2>3 DEF Store
  <2>5. StoreType(r)
    BY <1>0, <1>3, <2>3, <2>4, LimitAssumption DEF StoreInv, StoreType
  <2>6. new.name = name /\ \A c \in Counters : new.count[c] = 0
    BY DEF NewModule
  <2>7. ModuleNamesUnique(r)
    BY <1>0, <1>3, <2>3, <2>4, <2>6 DEF StoreInv, ModuleNamesUnique, Registered
  <2>8. \A a : Registered(m, a) => Registered(r, a)
    BY <1>0, <2>3, <2>4 DEF Registered
  <2>9. Homes(r)
    BY <2>4, <2>8 DEF StoreInv, Homes
  <2>10. ASSUME NEW i \in 1..n, NEW c \in Counters
         PROVE  r.modules[i].count[c] = Cardinality(Counted(r, c, r.modules[i].name))
    <3>1. CASE i = n
      <4>1. Counted(m, c, name) = {}
        BY <1>3, CountedNone DEF StoreInv
      <4>2. Counted(r, c, name) = {}
        BY <2>4, <4>1, CountedSame
      <4>3. QED BY <2>3, <2>4, <2>6, <3>1, <4>2, FS_EmptySet
    <3>2. CASE i # n
      <4>1. i \in DOMAIN m.modules /\ r.modules[i] = m.modules[i]
        BY <1>0, <2>3, <2>4, <3>2
      <4>2. QED BY <2>4, <4>1, CountedSame DEF StoreInv, CountersMatch
    <3>3. QED BY <3>1, <3>2
  <2>11. CountersMatch(r)
    BY <2>3, <2>4, <2>10 DEF CountersMatch
  <2>12. Registered(r, name)
    BY <1>0, <2>3, <2>4, <2>6 DEF Registered
  <2>13. QED BY <1>3, <2>4, <2>5, <2>7, <2>9, <2>11, <2>12 DEF StoreInv
<1>4. QED BY <1>1, <1>2, <1>3

\* Raising an error changes nothing else.
LEMMA RaiseInv ==
  ASSUME NEW m, StoreInv(m), NEW e \in Errors
  PROVE  /\ StoreInv(Raise(m, e))
         /\ Raise(m, e).files = m.files /\ Raise(m, e).modules = m.modules
         /\ Raise(m, e).table = m.table /\ Raise(m, e).callsDropped = m.callsDropped
         /\ Raise(m, e).err = e
<1> DEFINE r == Raise(m, e)
<1>1. /\ r \in Store /\ r.files = m.files /\ r.modules = m.modules
      /\ r.table = m.table /\ r.callsDropped = m.callsDropped /\ r.err = e
  BY DEF Raise, StoreInv, StoreType, Store
<1>2. StoreType(r) /\ ModuleNamesUnique(r)
  BY <1>1 DEF StoreInv, StoreType, ModuleNamesUnique
<1>3. Homes(r)
  BY <1>1 DEF StoreInv, Homes, Registered
<1>4. CountersMatch(r)
  BY <1>1, CountedSame DEF StoreInv, CountersMatch
<1>5. QED BY <1>1, <1>2, <1>3, <1>4 DEF StoreInv

-----------------------------------------------------------------------------
(* Insert. *)

\* The counters that have to count a record.
Credited(kind, record) ==
  CASE kind = "include"  -> IF record.isLocal THEN {"local"} ELSE {"external"}
    [] kind = "function" -> FunctionCounters(record.isStatic, record.isDeclaration)
    [] kind = "macro"    -> {"macro"}
    [] kind = "type"     -> {"type"}

LEMMA CreditType ==
  ASSUME NEW module \in Module, NEW cs
  PROVE  /\ Credit(module, cs) \in Module
         /\ Credit(module, cs).name = module.name
         /\ \A c \in Counters : Credit(module, cs).count[c] =
              IF c \in cs THEN module.count[c] + 1 ELSE module.count[c]
BY DEF Credit, Module

\* What appending a record does to the sets of positions.
LEMMA AppendCounted ==
  ASSUME NEW S, NEW s \in Seq(S), NEW e \in S
  PROVE  /\ Append(s, e) \in Seq(S)
         /\ Len(Append(s, e)) = Len(s) + 1
         /\ DOMAIN s = 1..Len(s) /\ Len(s) \in Nat
         /\ DOMAIN Append(s, e) = DOMAIN s \cup {Len(s) + 1}
         /\ Len(s) + 1 \notin DOMAIN s
         /\ \A i \in DOMAIN s : Append(s, e)[i] = s[i]
         /\ Append(s, e)[Len(s) + 1] = e
OBVIOUS

\* r is m with one record more, leaving the modules aside.
Inserted(m, r, kind, record) ==
  /\ r.files = m.files
  /\ r.table[kind] = Append(m.table[kind], record)
  /\ \A other \in Kinds : other # kind => r.table[other] = m.table[other]

\* Position x is new among those a counter counts, and the others are the same.
Gains(m, r, c, name, x) ==
  /\ x \notin Counted(m, c, name)
  /\ Counted(r, c, name) = Counted(m, c, name) \cup {x}

Keeps(m, r, c, name) == Counted(r, c, name) = Counted(m, c, name)

\* A record is counted by the counters it is credited to, of its module only.
CountedRight(m, r, kind, record, c, name) ==
  /\ c \in Credited(kind, record) /\ record.module = name =>
       Gains(m, r, c, name, Len(m.table[kind]) + 1)
  /\ ~(c \in Credited(kind, record) /\ record.module = name) => Keeps(m, r, c, name)

\* Appending a record moves exactly the counters Credited names.
LEMMA CountedInsert ==
  ASSUME NEW m, NEW r, NEW kind \in Kinds, NEW record, NEW c \in Counters, NEW name,
         StoreType(m), kind # "call", record \in Record(kind), Inserted(m, r, kind, record)
  PROVE  CountedRight(m, r, kind, record, c, name)
<1> DEFINE s == m.table[kind]
           t == Append(s, record)
           x == Len(s) + 1
           Goal == /\ c \in Credited(kind, record) /\ record.module = name =>
                        /\ x \notin Counted(m, c, name)
                        /\ Counted(r, c, name) = Counted(m, c, name) \cup {x}
                   /\ ~(c \in Credited(kind, record) /\ record.module = name) =>
                        Counted(r, c, name) = Counted(m, c, name)
<1> SUFFICES Goal
  BY DEF CountedRight, Gains, Keeps
<1> USE DEF Inserted
<1>1. /\ DOMAIN t = DOMAIN s \cup {x} /\ x \notin DOMAIN s
      /\ \A i \in DOMAIN s : t[i] = s[i]
      /\ t[x] = record
  <2>1. s \in Seq(Record(kind))
    BY DEF StoreType, Kinds
  <2>2. QED BY <2>1, AppendCounted
<1>2. r.table[kind] = t /\ \A k \in Kinds : k # kind => r.table[k] = m.table[k]
  OBVIOUS
<1> HIDE DEF s, t, x
<1>3. CASE kind = "include"
  <2>1. record.isLocal \in BOOLEAN
    BY <1>3 DEF Record
  <2>2. CASE c = "local"
    <3>1. Counted(m, c, name) = {i \in DOMAIN s : s[i].module = name /\ s[i].isLocal}
      BY <1>2, <1>3, <2>2 DEF Counted, s
    <3>2. Counted(r, c, name) = {i \in DOMAIN t : t[i].module = name /\ t[i].isLocal}
      BY <1>2, <1>3, <2>2 DEF Counted
    <3>3. c \in Credited(kind, record) <=> record.isLocal
      BY <1>3, <2>1, <2>2 DEF Credited, FunctionCounters
    <3>4. QED BY <1>1, <3>1, <3>2, <3>3
  <2>3. CASE c = "external"
    <3>1. Counted(m, c, name) = {i \in DOMAIN s : s[i].module = name /\ ~s[i].isLocal}
      BY <1>2, <1>3, <2>3 DEF Counted, s
    <3>2. Counted(r, c, name) = {i \in DOMAIN t : t[i].module = name /\ ~t[i].isLocal}
      BY <1>2, <1>3, <2>3 DEF Counted
    <3>3. c \in Credited(kind, record) <=> ~record.isLocal
      BY <1>3, <2>1, <2>3 DEF Credited, FunctionCounters
    <3>4. QED BY <1>1, <3>1, <3>2, <3>3
  <2>4. CASE c \notin {"local", "external"}
    <3>1. c \notin Credited(kind, record)
      BY <1>3, <2>4 DEF Credited, FunctionCounters
    <3>2. Counted(r, c, name) = Counted(m, c, name)
      BY <1>2, <1>3, <2>4 DEF Counted, Kinds, Counters
    <3>3. QED BY <3>1, <3>2
  <2>5. QED BY <2>2, <2>3, <2>4
<1>4. CASE kind = "function"
  <2>1. record.isStatic \in BOOLEAN /\ record.isDeclaration \in BOOLEAN
    BY <1>4 DEF Record
  <2>2. CASE c = "function"
    <3>1. Counted(m, c, name) = {i \in DOMAIN s : s[i].module = name /\ ~s[i].isDeclaration}
      BY <1>2, <1>4, <2>2 DEF Counted, s
    <3>2. Counted(r, c, name) = {i \in DOMAIN t : t[i].module = name /\ ~t[i].isDeclaration}
      BY <1>2, <1>4, <2>2 DEF Counted
    <3>3. c \in Credited(kind, record) <=> ~record.isDeclaration
      BY <1>4, <2>1, <2>2 DEF Credited, FunctionCounters
    <3>4. QED BY <1>1, <3>1, <3>2, <3>3
  <2>3. CASE c = "public"
    <3>1. Counted(m, c, name) = {i \in DOMAIN s : s[i].module = name /\ ~s[i].isDeclaration /\ ~s[i].isStatic}
      BY <1>2, <1>4, <2>3 DEF Counted, s
    <3>2. Counted(r, c, name) = {i \in DOMAIN t : t[i].module = name /\ ~t[i].isDeclaration /\ ~t[i].isStatic}
      BY <1>2, <1>4, <2>3 DEF Counted
    <3>3. c \in Credited(kind, record) <=> ~record.isDeclaration /\ ~record.isStatic
      BY <1>4, <2>1, <2>3 DEF Credited, FunctionCounters
    <3>4. QED BY <1>1, <3>1, <3>2, <3>3
  <2>4. CASE c = "static"
    <3>1. Counted(m, c, name) = {i \in DOMAIN s : s[i].module = name /\ ~s[i].isDeclaration /\ s[i].isStatic}
      BY <1>2, <1>4, <2>4 DEF Counted, s
    <3>2. Counted(r, c, name) = {i \in DOMAIN t : t[i].module = name /\ ~t[i].isDeclaration /\ t[i].isStatic}
      BY <1>2, <1>4, <2>4 DEF Counted
    <3>3. c \in Credited(kind, record) <=> ~record.isDeclaration /\ record.isStatic
      BY <1>4, <2>1, <2>4 DEF Credited, FunctionCounters
    <3>4. QED BY <1>1, <3>1, <3>2, <3>3
  <2>5. CASE c = "declaration"
    <3>1. Counted(m, c, name) = {i \in DOMAIN s : s[i].module = name /\ s[i].isDeclaration}
      BY <1>2, <1>4, <2>5 DEF Counted, s
    <3>2. Counted(r, c, name) = {i \in DOMAIN t : t[i].module = name /\ t[i].isDeclaration}
      BY <1>2, <1>4, <2>5 DEF Counted
    <3>3. c \in Credited(kind, record) <=> record.isDeclaration
      BY <1>4, <2>1, <2>5 DEF Credited, FunctionCounters
    <3>4. QED BY <1>1, <3>1, <3>2, <3>3
  <2>6. CASE c \notin {"function", "public", "static", "declaration"}
    <3>1. c \notin Credited(kind, record)
      BY <1>4, <2>6 DEF Credited, FunctionCounters
    <3>2. Counted(r, c, name) = Counted(m, c, name)
      BY <1>2, <1>4, <2>6 DEF Counted, Kinds, Counters
    <3>3. QED BY <3>1, <3>2
  <2>7. QED BY <2>2, <2>3, <2>4, <2>5, <2>6
<1>5. CASE kind = "macro"
  <2>1. CASE c = "macro"
    <3>1. Counted(m, c, name) = {i \in DOMAIN s : s[i].module = name}
      BY <1>2, <1>5, <2>1 DEF Counted, s
    <3>2. Counted(r, c, name) = {i \in DOMAIN t : t[i].module = name}
      BY <1>2, <1>5, <2>1 DEF Counted
    <3>3. c \in Credited(kind, record) <=> TRUE
      BY <1>5, <2>1 DEF Credited, FunctionCounters
    <3>4. QED BY <1>1, <3>1, <3>2, <3>3
  <2>2. CASE c \notin {"macro"}
    <3>1. c \notin Credited(kind, record)
      BY <1>5, <2>2 DEF Credited, FunctionCounters
    <3>2. Counted(r, c, name) = Counted(m, c, name)
      BY <1>2, <1>5, <2>2 DEF Counted, Kinds, Counters
    <3>3. QED BY <3>1, <3>2
  <2>3. QED BY <2>1, <2>2
<1>6. CASE kind = "type"
  <2>1. CASE c = "type"
    <3>1. Counted(m, c, name) = {i \in DOMAIN s : s[i].module = name}
      BY <1>2, <1>6, <2>1 DEF Counted, s
    <3>2. Counted(r, c, name) = {i \in DOMAIN t : t[i].module = name}
      BY <1>2, <1>6, <2>1 DEF Counted
    <3>3. c \in Credited(kind, record) <=> TRUE
      BY <1>6, <2>1 DEF Credited, FunctionCounters
    <3>4. QED BY <1>1, <3>1, <3>2, <3>3
  <2>2. CASE c \notin {"type"}
    <3>1. c \notin Credited(kind, record)
      BY <1>6, <2>2 DEF Credited, FunctionCounters
    <3>2. Counted(r, c, name) = Counted(m, c, name)
      BY <1>2, <1>6, <2>2 DEF Counted, Kinds, Counters
    <3>3. QED BY <3>1, <3>2
  <2>3. QED BY <2>1, <2>2
<1>7. QED BY <1>3, <1>4, <1>5, <1>6 DEF Kinds

\* One module is credited in the counters cs, every other counter stands.
OneCredit(m, r, k, cs) ==
  /\ DOMAIN r.modules = DOMAIN m.modules
  /\ \A i \in DOMAIN m.modules :
       /\ r.modules[i].name = m.modules[i].name
       /\ \A c \in Counters :
            /\ i = k /\ c \in cs => r.modules[i].count[c] = m.modules[i].count[c] + 1
            /\ ~(i = k /\ c \in cs) => r.modules[i].count[c] = m.modules[i].count[c]

\* The same counters gain one position, x.
OnePosition(m, r, k, cs, x) ==
  \A i \in DOMAIN m.modules : \A c \in Counters :
    /\ i = k /\ c \in cs => Gains(m, r, c, m.modules[i].name, x)
    /\ ~(i = k /\ c \in cs) => Keeps(m, r, c, m.modules[i].name)

\* Counters stay right if what is credited is what gained a position.
LEMMA CreditKeepsCounters ==
  ASSUME NEW m, NEW r, NEW k, NEW cs, NEW x,
         StoreType(m), CountersMatch(m), OneCredit(m, r, k, cs), OnePosition(m, r, k, cs, x)
  PROVE  CountersMatch(r)
<1> SUFFICES ASSUME NEW i \in DOMAIN m.modules, NEW c \in Counters
             PROVE  r.modules[i].count[c] = Cardinality(Counted(r, c, m.modules[i].name))
  BY DEF CountersMatch, OneCredit
<1> DEFINE old == Counted(m, c, m.modules[i].name)
<1>1. m.modules[i].count[c] = Cardinality(old) /\ IsFiniteSet(old)
  BY CountedBounded DEF CountersMatch
<1>2. CASE i = k /\ c \in cs
  <2>1. x \notin old /\ Counted(r, c, m.modules[i].name) = old \cup {x}
    BY <1>2 DEF OnePosition, Gains
  <2>2. Cardinality(old \cup {x}) = Cardinality(old) + 1
    BY <1>1, <2>1, FS_AddElement
  <2>3. r.modules[i].count[c] = m.modules[i].count[c] + 1
    BY <1>2 DEF OneCredit
  <2>4. QED BY <1>1, <2>1, <2>2, <2>3
<1>3. CASE ~(i = k /\ c \in cs)
  <2>1. Counted(r, c, m.modules[i].name) = old
    BY <1>3 DEF OnePosition, Keeps
  <2>2. r.modules[i].count[c] = m.modules[i].count[c]
    BY <1>3 DEF OneCredit
  <2>3. QED BY <1>1, <2>1, <2>2
<1>4. QED BY <1>2, <1>3

\* The same modules, in the same order.
SameNames(m, r) ==
  /\ DOMAIN r.modules = DOMAIN m.modules
  /\ \A i \in DOMAIN m.modules : r.modules[i].name = m.modules[i].name

LEMMA SameNamesRegistered ==
  ASSUME NEW m, NEW r, SameNames(m, r), NEW name
  PROVE  Registered(r, name) <=> Registered(m, name)
BY DEF SameNames, Registered

\* new is old with one more in each of the counters cs.
CreditedBy(old, new, cs) ==
  /\ new \in Module /\ new.name = old.name
  /\ \A c \in Counters : new.count[c] = IF c \in cs THEN old.count[c] + 1 ELSE old.count[c]

\* One module is replaced by itself with credit.
LEMMA EditModule ==
  ASSUME NEW m, NEW r, NEW k, NEW new, NEW cs,
         StoreInv(m), k \in DOMAIN m.modules, CreditedBy(m.modules[k], new, cs),
         r.modules = [m.modules EXCEPT ![k] = new]
  PROVE  /\ r.modules \in Seq(Module) /\ Len(r.modules) = Len(m.modules)
         /\ SameNames(m, r) /\ OneCredit(m, r, k, cs) /\ ModuleNamesUnique(r)
<1>1. m.modules \in Seq(Module) /\ ModuleNamesUnique(m)
  BY DEF StoreInv, StoreType, Store
<1>2. new \in Module /\ new.name = m.modules[k].name
  BY DEF CreditedBy
<1>3. /\ r.modules \in Seq(Module) /\ Len(r.modules) = Len(m.modules)
      /\ DOMAIN r.modules = DOMAIN m.modules
      /\ \A i \in DOMAIN m.modules : r.modules[i] = IF i = k THEN new ELSE m.modules[i]
  BY <1>1, <1>2, ExceptSeq, LenProperties
<1>4. SameNames(m, r)
  BY <1>2, <1>3 DEF SameNames
<1>5. OneCredit(m, r, k, cs)
  BY <1>3, <1>4 DEF OneCredit, SameNames, CreditedBy
<1>6. ModuleNamesUnique(r)
  BY <1>1, <1>4 DEF ModuleNamesUnique, SameNames
<1>7. QED BY <1>3, <1>4, <1>5, <1>6

\* A record of a known module is appended, and its module is credited.
LEMMA InsertInv ==
  ASSUME NEW m, StoreInv(m),
         NEW kind \in Kinds, kind # "call",
         NEW record \in Record(kind), Registered(m, record.module),
         Len(m.table[kind]) < Capacity[kind],
         NEW cs, cs = Credited(kind, record)
  PROVE  /\ StoreInv(Insert(m, kind, record, cs))
         /\ SameNames(m, Insert(m, kind, record, cs))
         /\ Insert(m, kind, record, cs).files = m.files
         /\ Insert(m, kind, record, cs).table = [m.table EXCEPT ![kind] = Append(@, record)]
         /\ Insert(m, kind, record, cs).callsDropped = m.callsDropped
         /\ Insert(m, kind, record, cs).err = m.err
<1> DEFINE k == ModuleIndex(m, record.module)
           new == Credit(m.modules[k], cs)
<1>1. /\ m \in Store /\ StoreType(m) /\ ModuleNamesUnique(m) /\ CountersMatch(m) /\ Homes(m)
      /\ m.modules \in Seq(Module)
  BY DEF StoreInv, StoreType, Store
<1>2. k \in DOMAIN m.modules /\ m.modules[k].name = record.module
  <2>1. PICK i \in DOMAIN m.modules : m.modules[i].name = record.module
    BY DEF Registered
  <2>2. QED BY <1>1, <2>1, ModuleIndexUnique
<1>3. PICK r : r = Insert(m, kind, record, cs)
  OBVIOUS
<1>4. r = [m EXCEPT !.table[kind] = Append(m.table[kind], record), !.modules[k] = new]
  BY <1>3 DEF Insert, GetModule
<1> HIDE DEF k
<1>5. CreditedBy(m.modules[k], new, cs)
  BY <1>1, <1>2, CreditType, ElementOfSeq DEF CreditedBy
<1> HIDE DEF new
<1>6. /\ m.table[kind] \in Seq(Record(kind))
      /\ Append(m.table[kind], record) \in Seq(Record(kind))
      /\ Len(Append(m.table[kind], record)) = Len(m.table[kind]) + 1
      /\ Len(m.table[kind]) \in Nat
      /\ DOMAIN Append(m.table[kind], record) = DOMAIN m.table[kind] \cup {Len(m.table[kind]) + 1}
      /\ \A i \in DOMAIN m.table[kind] : Append(m.table[kind], record)[i] = m.table[kind][i]
      /\ Append(m.table[kind], record)[Len(m.table[kind]) + 1] = record
  <2>1. m.table[kind] \in Seq(Record(kind))
    BY <1>1 DEF StoreType
  <2>2. QED BY <2>1, AppendCounted
<1>7. Append(m.table[kind], record) \in Seq(UNION {Record(k2) : k2 \in Kinds})
  <2>1. Record(kind) \subseteq UNION {Record(k2) : k2 \in Kinds}
    OBVIOUS
  <2>2. QED BY <1>6, <2>1, SeqMonotonic
<1>8. /\ r.files = m.files /\ r.callsDropped = m.callsDropped /\ r.err = m.err
      /\ r.table = [m.table EXCEPT ![kind] = Append(m.table[kind], record)]
      /\ r.modules = [m.modules EXCEPT ![k] = new]
      /\ r = [files |-> m.files, modules |-> r.modules, table |-> r.table,
              callsDropped |-> m.callsDropped, err |-> m.err]
  BY <1>1, <1>4 DEF Store
<1>9. /\ r.modules \in Seq(Module) /\ Len(r.modules) = Len(m.modules)
      /\ SameNames(m, r) /\ OneCredit(m, r, k, cs) /\ ModuleNamesUnique(r)
  BY <1>2, <1>5, <1>8, EditModule
<1>10. r \in Store
  BY <1>1, <1>7, <1>8, <1>9 DEF Store
<1>11. Inserted(m, r, kind, record)
  BY <1>1, <1>8 DEF Store, Inserted
<1>12. StoreType(r)
  <2>1. ASSUME NEW other \in Kinds
        PROVE  r.table[other] \in Seq(Record(other)) /\ Len(r.table[other]) <= Capacity[other]
    <3>1. CASE other = kind
      <4>1. r.table[other] = Append(m.table[kind], record)
        BY <1>11, <3>1 DEF Inserted
      <4>2. Append(m.table[kind], record) \in Seq(Record(other))
        BY <1>6, <3>1
      <4>3. Capacity[kind] \in Nat
        BY LimitAssumption DEF Capacity, Kinds
      <4>4. Len(Append(m.table[kind], record)) <= Capacity[other]
        BY <1>6, <3>1, <4>3
      <4>5. QED BY <4>1, <4>2, <4>4
    <3>2. CASE other # kind
      BY <1>1, <1>11, <3>2 DEF StoreType, Inserted
    <3>3. QED BY <3>1, <3>2
  <2>2. QED BY <1>1, <1>8, <1>9, <1>10, <2>1 DEF StoreType
<1>13. Homes(r)
  <2>1. \A a : Registered(r, a) <=> Registered(m, a)
    BY <1>9, SameNamesRegistered
  <2>2. \A other \in Kinds : \A i \in DOMAIN r.table[other] :
          Registered(m, r.table[other][i].module)
    BY <1>1, <1>6, <1>11, SMTT(60) DEF Homes, Inserted
  <2>3. QED BY <1>1, <1>8, <2>1, <2>2 DEF Homes
<1>14. OnePosition(m, r, k, cs, Len(m.table[kind]) + 1)
  <2>1. SUFFICES ASSUME NEW i \in DOMAIN m.modules, NEW c \in Counters
        PROVE  /\ i = k /\ c \in cs =>
                    Gains(m, r, c, m.modules[i].name, Len(m.table[kind]) + 1)
               /\ ~(i = k /\ c \in cs) => Keeps(m, r, c, m.modules[i].name)
    BY DEF OnePosition
  <2>2. record.module = m.modules[i].name <=> i = k
    BY <1>1, <1>2 DEF ModuleNamesUnique
  <2>3. CountedRight(m, r, kind, record, c, m.modules[i].name)
    BY <1>1, <1>11, CountedInsert
  <2>4. QED BY <2>2, <2>3 DEF CountedRight
<1>15. CountersMatch(r)
  BY <1>1, <1>9, <1>14, CreditKeepsCounters
<1>16. QED BY <1>3, <1>8, <1>9, <1>12, <1>13, <1>15 DEF StoreInv

-----------------------------------------------------------------------------
(* Files. *)

FileCounter(file) == IF file.isHeader THEN {"header"} ELSE {"source"}

FileCountedRight(m, r, file, c, name) ==
  /\ c \in FileCounter(file) /\ file.module = name => Gains(m, r, c, name, Len(m.files) + 1)
  /\ ~(c \in FileCounter(file) /\ file.module = name) => Keeps(m, r, c, name)

\* Appending a file moves exactly the counter of its kind, of its module.
LEMMA CountedFile ==
  ASSUME NEW m, NEW r, NEW file \in File, NEW c \in Counters, NEW name,
         StoreType(m), r.files = Append(m.files, file), r.table = m.table
  PROVE  FileCountedRight(m, r, file, c, name)
<1> DEFINE s == m.files
           t == Append(s, file)
           x == Len(s) + 1
<1>1. /\ DOMAIN t = DOMAIN s \cup {x} /\ x \notin DOMAIN s
      /\ \A i \in DOMAIN s : t[i] = s[i]
      /\ t[x] = file
  <2>1. s \in Seq(File)
    BY DEF StoreType, Store
  <2>2. QED BY <2>1, AppendCounted
<1>2. r.files = t /\ file.isHeader \in BOOLEAN
  BY DEF File
<1> HIDE DEF t, x
<1>3. CASE c = "source"
  <2>1. Counted(m, c, name) = {i \in DOMAIN s : s[i].module = name /\ ~s[i].isHeader}
    BY <1>3 DEF Counted
  <2>2. Counted(r, c, name) = {i \in DOMAIN t : t[i].module = name /\ ~t[i].isHeader}
    BY <1>2, <1>3 DEF Counted
  <2>3. c \in FileCounter(file) <=> ~file.isHeader
    BY <1>2, <1>3 DEF FileCounter
  <2>4. /\ ~file.isHeader /\ file.module = name => Gains(m, r, c, name, x)
        /\ ~(~file.isHeader /\ file.module = name) => Keeps(m, r, c, name)
    BY <1>1, <2>1, <2>2 DEF Gains, Keeps
  <2>5. QED BY <2>3, <2>4 DEF FileCountedRight, x
<1>4. CASE c = "header"
  <2>1. Counted(m, c, name) = {i \in DOMAIN s : s[i].module = name /\ s[i].isHeader}
    BY <1>4 DEF Counted
  <2>2. Counted(r, c, name) = {i \in DOMAIN t : t[i].module = name /\ t[i].isHeader}
    BY <1>2, <1>4 DEF Counted
  <2>3. c \in FileCounter(file) <=> file.isHeader
    BY <1>2, <1>4 DEF FileCounter
  <2>4. /\ file.isHeader /\ file.module = name => Gains(m, r, c, name, x)
        /\ ~(file.isHeader /\ file.module = name) => Keeps(m, r, c, name)
    BY <1>1, <2>1, <2>2 DEF Gains, Keeps
  <2>5. QED BY <2>3, <2>4 DEF FileCountedRight, x
<1>5. CASE c \notin {"source", "header"}
  <2>1. c \notin FileCounter(file)
    BY <1>5 DEF FileCounter
  <2>2. Counted(r, c, name) = Counted(m, c, name)
    BY <1>5 DEF Counted, Counters
  <2>3. QED BY <2>1, <2>2 DEF FileCountedRight, Keeps
<1>6. QED BY <1>3, <1>4, <1>5

LEMMA FileCreditType ==
  ASSUME NEW module \in Module, NEW path \in Paths, NEW isHeader \in BOOLEAN
  PROVE  CreditedBy(module, FileCredit(module, path, isHeader),
                    IF isHeader THEN {"header"} ELSE {"source"})
<1>1. StoredPath[path] \in Paths
  BY StoredPathAssumption
<1>2. CASE isHeader
  <2> DEFINE credited == Credit(module, {"header"})
  <2>1. CreditedBy(module, credited, {"header"})
    BY CreditType DEF CreditedBy
  <2>2. FileCredit(module, path, isHeader) =
          [credited EXCEPT !.headerPath = IF credited.headerPath = NoPath THEN StoredPath[path]
                                          ELSE credited.headerPath]
    BY <1>2 DEF FileCredit
  <2> HIDE DEF credited
  <2>3. QED BY <1>1, <1>2, <2>1, <2>2 DEF Module, CreditedBy
<1>3. CASE ~isHeader
  <2> DEFINE credited == Credit(module, {"source"})
  <2>1. CreditedBy(module, credited, {"source"})
    BY CreditType DEF CreditedBy
  <2>2. FileCredit(module, path, isHeader) =
          [credited EXCEPT !.sourcePath = IF credited.sourcePath = NoPath THEN StoredPath[path]
                                          ELSE credited.sourcePath]
    BY <1>3 DEF FileCredit
  <2> HIDE DEF credited
  <2>3. QED BY <1>1, <1>3, <2>1, <2>2 DEF Module, CreditedBy
<1>4. QED BY <1>2, <1>3

\* r is m with one file more, and its module credited.
FileAdded(m, r, file, k, new) ==
  /\ r = [m EXCEPT !.files = Append(m.files, file), !.modules[k] = new]
  /\ k \in DOMAIN m.modules /\ m.modules[k].name = file.module
  /\ CreditedBy(m.modules[k], new, FileCounter(file))

LEMMA FileAddedInv ==
  ASSUME NEW m, NEW r, NEW file \in File, NEW k, NEW new,
         StoreInv(m), FileAdded(m, r, file, k, new), Len(m.files) < MaxFiles
  PROVE  /\ StoreInv(r) /\ SameNames(m, r)
         /\ r.files = Append(m.files, file) /\ r.table = m.table
         /\ r.callsDropped = m.callsDropped /\ r.err = m.err
<1> DEFINE cs == FileCounter(file)
           x == Len(m.files) + 1
<1>1. /\ m \in Store /\ StoreType(m) /\ ModuleNamesUnique(m) /\ Homes(m) /\ CountersMatch(m)
      /\ m.files \in Seq(File)
  BY DEF StoreInv, StoreType, Store
<1>2. /\ k \in DOMAIN m.modules /\ m.modules[k].name = file.module
      /\ CreditedBy(m.modules[k], new, cs)
  BY DEF FileAdded
<1>3. /\ r.files = Append(m.files, file) /\ r.modules = [m.modules EXCEPT ![k] = new]
      /\ r.table = m.table /\ r.callsDropped = m.callsDropped /\ r.err = m.err
      /\ r = [files |-> r.files, modules |-> r.modules, table |-> m.table,
              callsDropped |-> m.callsDropped, err |-> m.err]
  BY <1>1 DEF FileAdded, Store
<1>4. /\ Append(m.files, file) \in Seq(File)
      /\ Len(Append(m.files, file)) = x /\ Len(m.files) \in Nat
      /\ DOMAIN Append(m.files, file) = DOMAIN m.files \cup {x}
      /\ \A i \in DOMAIN m.files : Append(m.files, file)[i] = m.files[i]
      /\ Append(m.files, file)[x] = file
  BY <1>1, AppendCounted
<1> HIDE DEF cs, x
<1>5. /\ r.modules \in Seq(Module) /\ Len(r.modules) = Len(m.modules)
      /\ SameNames(m, r) /\ OneCredit(m, r, k, cs) /\ ModuleNamesUnique(r)
  BY <1>2, <1>3, EditModule
<1>6. r \in Store
  BY <1>1, <1>3, <1>4, <1>5 DEF Store
<1>7. StoreType(r)
  <2>1. x <= MaxFiles
    BY <1>4, LimitAssumption DEF x
  <2>2. QED BY <1>1, <1>3, <1>4, <1>5, <1>6, <2>1 DEF StoreType
<1>8. Homes(r)
  <2>1. \A a : Registered(r, a) <=> Registered(m, a)
    BY <1>5, SameNamesRegistered
  <2>2. \A j \in DOMAIN r.files : Registered(m, r.files[j].module)
    <3>1. Registered(m, file.module)
      BY <1>2 DEF Registered
    <3>2. QED BY <1>1, <1>3, <1>4, <3>1 DEF Homes
  <2>3. QED BY <1>1, <1>3, <2>1, <2>2 DEF Homes
<1>9. OnePosition(m, r, k, cs, x)
  <2>1. SUFFICES ASSUME NEW i \in DOMAIN m.modules, NEW c \in Counters
        PROVE  /\ i = k /\ c \in cs => Gains(m, r, c, m.modules[i].name, x)
               /\ ~(i = k /\ c \in cs) => Keeps(m, r, c, m.modules[i].name)
    BY DEF OnePosition
  <2>2. file.module = m.modules[i].name <=> i = k
    BY <1>1, <1>2 DEF ModuleNamesUnique
  <2>3. FileCountedRight(m, r, file, c, m.modules[i].name)
    BY <1>1, <1>3, CountedFile
  <2>4. QED BY <2>2, <2>3 DEF FileCountedRight, cs, x
<1>10. CountersMatch(r)
  BY <1>1, <1>5, <1>9, CreditKeepsCounters
<1>11. QED BY <1>3, <1>5, <1>7, <1>8, <1>10 DEF StoreInv

-----------------------------------------------------------------------------
(* Operations on the records of a file of the map. *)

\* StoreInv, and what ties modules and records to the files.
MapInv(m) ==
  /\ StoreInv(m)
  /\ ModulesAreFileGroups(m)
  /\ RecordsBelong(m)

Placed(m, file) == file \in File /\ \E j \in DOMAIN m.files : m.files[j] = file

\* What an operation may do for a file of m: it keeps the invariant and the
\* files, it never clears an error, it drops no call without raising one, and
\* it stores nothing when it raises one.
RecordOp(m, r) ==
  /\ MapInv(r) /\ r.files = m.files
  /\ r.err = "none" => m.err = "none" /\ r.callsDropped = m.callsDropped
  /\ m.err = "none" /\ r.err # "none" => r.table = m.table

LEMMA PlacedRegistered ==
  ASSUME NEW m, MapInv(m), NEW file, Placed(m, file)
  PROVE  Registered(m, file.module)
BY DEF MapInv, StoreInv, Homes, Placed

LEMMA SameFileGroups ==
  ASSUME NEW m, NEW r, ModulesAreFileGroups(m), SameNames(m, r), r.files = m.files
  PROVE  ModulesAreFileGroups(r)
<1>1. {r.modules[i].name : i \in DOMAIN r.modules} = {m.modules[i].name : i \in DOMAIN m.modules}
  BY DEF SameNames
<1>2. QED BY <1>1 DEF ModulesAreFileGroups

LEMMA SameTableBelongs ==
  ASSUME NEW m, NEW r, RecordsBelong(m), r.files = m.files, r.table = m.table
  PROVE  RecordsBelong(r)
BY DEF RecordsBelong

LEMMA RaiseOp ==
  ASSUME NEW m, MapInv(m), NEW e \in {"usage", "system"}
  PROVE  RecordOp(m, Raise(m, e)) /\ Raise(m, e).err = e
<1> DEFINE r == Raise(m, e)
<1>1. /\ StoreInv(r) /\ r.files = m.files /\ r.modules = m.modules
      /\ r.table = m.table /\ r.err = e
  BY RaiseInv DEF MapInv, Errors
<1> HIDE DEF r
<1>2. ModulesAreFileGroups(r) /\ RecordsBelong(r)
  <2>1. SameNames(m, r)
    BY <1>1 DEF SameNames
  <2>2. QED BY <1>1, <2>1, SameFileGroups, SameTableBelongs DEF MapInv
<1>3. RecordOp(m, r) /\ r.err = e
  BY <1>1, <1>2 DEF RecordOp, MapInv
<1>4. QED BY <1>3 DEF r

\* Raising an error changes nothing but the error, whatever was raised before.
LEMMA RaiseKeeps ==
  ASSUME NEW m, MapInv(m), NEW e \in Errors
  PROVE  MapInv(Raise(m, e)) /\ Raise(m, e).err = e /\ Raise(m, e).files = m.files
         /\ Raise(m, e).table = m.table /\ Raise(m, e).callsDropped = m.callsDropped
         /\ Raise(m, e).modules = m.modules
<1>1. PICK r : r = Raise(m, e)
  OBVIOUS
<1>2. /\ StoreInv(r) /\ r.files = m.files /\ r.modules = m.modules
      /\ r.table = m.table /\ r.callsDropped = m.callsDropped /\ r.err = e
  BY <1>1, RaiseInv DEF MapInv
<1>3. SameNames(m, r)
  BY <1>2 DEF SameNames
<1>4. MapInv(r)
  BY <1>2, <1>3, SameFileGroups, SameTableBelongs DEF MapInv
<1>5. QED BY <1>1, <1>2, <1>4

LEMMA InsertOp ==
  ASSUME NEW m, MapInv(m), NEW file, Placed(m, file),
         NEW kind \in Kinds, kind # "call",
         NEW record \in Record(kind), record.module = file.module, record.path = file.path,
         ~Full(m, kind), NEW cs, cs = Credited(kind, record)
  PROVE  RecordOp(m, Insert(m, kind, record, cs))
<1>1. PICK r : r = Insert(m, kind, record, cs)
  OBVIOUS
<1>2. m.table[kind] \in Seq(Record(kind)) /\ m.table \in [Kinds -> Seq(UNION {Record(k) : k \in Kinds})]
  BY DEF MapInv, StoreInv, StoreType, Store
<1>3. Len(m.table[kind]) < Capacity[kind]
  <2>1. Capacity[kind] \in Nat
    BY LimitAssumption DEF Capacity, Kinds
  <2>2. Len(m.table[kind]) \in Nat
    BY <1>2
  <2>3. QED BY <2>1, <2>2 DEF Full
<1>4. /\ StoreInv(r) /\ SameNames(m, r) /\ r.files = m.files
      /\ r.table = [m.table EXCEPT ![kind] = Append(@, record)]
      /\ r.callsDropped = m.callsDropped /\ r.err = m.err
  BY <1>1, <1>3, InsertInv, PlacedRegistered DEF MapInv
<1>5. ModulesAreFileGroups(r)
  BY <1>4, SameFileGroups DEF MapInv
<1>6. RecordsBelong(r)
  <2>1. ASSUME NEW other \in Kinds, NEW i \in DOMAIN r.table[other]
        PROVE  \E j \in DOMAIN m.files : /\ m.files[j].path = r.table[other][i].path
                                         /\ m.files[j].module = r.table[other][i].module
    <3>1. CASE other = kind /\ i \notin DOMAIN m.table[kind]
      <4>1. r.table[other] = Append(m.table[kind], record)
        BY <1>2, <1>4, <3>1
      <4>2. r.table[other][i] = record
        BY <1>2, <3>1, <4>1, AppendCounted
      <4>3. QED BY <4>2 DEF Placed
    <3>2. CASE other = kind /\ i \in DOMAIN m.table[kind]
      <4>1. r.table[other] = Append(m.table[kind], record)
        BY <1>2, <1>4, <3>2
      <4>2. r.table[other][i] = m.table[other][i]
        BY <1>2, <3>2, <4>1, AppendCounted
      <4>3. QED BY <3>2, <4>2 DEF MapInv, RecordsBelong
    <3>3. CASE other # kind
      <4>1. r.table[other] = m.table[other]
        BY <1>2, <1>4, <3>3
      <4>2. QED BY <4>1 DEF MapInv, RecordsBelong
    <3>4. QED BY <3>1, <3>2, <3>3
  <2>2. QED BY <1>4, <2>1 DEF RecordsBelong
<1>7. QED BY <1>1, <1>4, <1>5, <1>6 DEF RecordOp, MapInv

LEMMA AddIncludeOp ==
  ASSUME NEW m, MapInv(m), NEW file, Placed(m, file),
         NEW target \in Targets, NEW isLocal \in BOOLEAN
  PROVE  RecordOp(m, AddInclude(m, file, target, isLocal))
<1>1. CASE Full(m, "include")
  BY <1>1, RaiseOp DEF AddInclude
<1>2. CASE ~Full(m, "include")
  <2>1. PICK record : record = [module |-> file.module, path |-> file.path,
                 target |-> IF isLocal THEN LocalTarget[file.module, target] ELSE target,
                 isLocal |-> isLocal]
    OBVIOUS
  <2>2. PICK cs : cs = IF isLocal THEN {"local"} ELSE {"external"}
    OBVIOUS
  <2>3. file.module \in Names /\ file.path \in Paths
    BY DEF Placed, File
  <2>4. LocalTarget[file.module, target] \in Names
    BY <2>3, LocalTargetAssumption
  <2>5. record \in Record("include") /\ record.module = file.module /\ record.path = file.path
    BY <2>1, <2>3, <2>4 DEF Record
  <2>6. cs = Credited("include", record)
    BY <2>1, <2>2 DEF Credited
  <2>7. AddInclude(m, file, target, isLocal) = Insert(m, "include", record, cs)
    BY <1>2, <2>1, <2>2 DEF AddInclude
  <2>8. "include" \in Kinds /\ "include" # "call"
    BY DEF Kinds
  <2>9. QED BY <1>2, <2>5, <2>6, <2>7, <2>8, InsertOp
<1>3. QED BY <1>1, <1>2

LEMMA AddFunctionOp ==
  ASSUME NEW m, MapInv(m), NEW file, Placed(m, file), NEW usr \in Usrs \cup {BadUsr},
         NEW isStatic \in BOOLEAN, NEW isDeclaration \in BOOLEAN
  PROVE  RecordOp(m, AddFunction(m, file, usr, isStatic, isDeclaration))
<1>1. CASE Full(m, "function") \/ usr = BadUsr
  BY <1>1, RaiseOp DEF AddFunction
<1>2. CASE ~(Full(m, "function") \/ usr = BadUsr)
  <2>1. PICK record : record = [module |-> file.module, path |-> file.path, usr |-> usr,
                 isStatic |-> isStatic, isDeclaration |-> isDeclaration]
    OBVIOUS
  <2>2. file.module \in Names /\ file.path \in Paths /\ usr \in Usrs
    BY <1>2 DEF Placed, File
  <2>3. record \in Record("function") /\ record.module = file.module /\ record.path = file.path
    BY <2>1, <2>2 DEF Record
  <2>4. FunctionCounters(isStatic, isDeclaration) = Credited("function", record)
    BY <2>1 DEF Credited
  <2>5. AddFunction(m, file, usr, isStatic, isDeclaration) =
          Insert(m, "function", record, FunctionCounters(isStatic, isDeclaration))
    BY <1>2, <2>1 DEF AddFunction
  <2>6. "function" \in Kinds /\ "function" # "call"
    BY DEF Kinds
  <2>7. QED BY <1>2, <2>3, <2>4, <2>5, <2>6, InsertOp
<1>3. QED BY <1>1, <1>2

LEMMA AddMacroOp ==
  ASSUME NEW m, MapInv(m), NEW file, Placed(m, file), NEW name \in Symbols
  PROVE  RecordOp(m, AddMacro(m, file, name))
<1>1. CASE Full(m, "macro")
  BY <1>1, RaiseOp DEF AddMacro
<1>2. CASE ~Full(m, "macro")
  <2>1. PICK record : record = [module |-> file.module, path |-> file.path, name |-> name]
    OBVIOUS
  <2>2. record \in Record("macro") /\ record.module = file.module /\ record.path = file.path
    BY <2>1 DEF Record, Placed, File
  <2>3. {"macro"} = Credited("macro", record)
    BY DEF Credited
  <2>4. AddMacro(m, file, name) = Insert(m, "macro", record, {"macro"})
    BY <1>2, <2>1 DEF AddMacro
  <2>5. "macro" \in Kinds /\ "macro" # "call"
    BY DEF Kinds
  <2>6. QED BY <1>2, <2>2, <2>3, <2>4, <2>5, InsertOp
<1>3. QED BY <1>1, <1>2

LEMMA AddTypeOp ==
  ASSUME NEW m, MapInv(m), NEW file, Placed(m, file)
  PROVE  RecordOp(m, AddType(m, file))
<1>1. CASE Full(m, "type")
  BY <1>1, RaiseOp DEF AddType
<1>2. CASE ~Full(m, "type")
  <2>1. PICK record : record = [module |-> file.module, path |-> file.path]
    OBVIOUS
  <2>2. record \in Record("type") /\ record.module = file.module /\ record.path = file.path
    BY <2>1 DEF Record, Placed, File
  <2>3. {"type"} = Credited("type", record)
    BY DEF Credited
  <2>4. AddType(m, file) = Insert(m, "type", record, {"type"})
    BY <1>2, <2>1 DEF AddType
  <2>5. "type" \in Kinds /\ "type" # "call"
    BY DEF Kinds
  <2>6. QED BY <1>2, <2>2, <2>3, <2>4, <2>5, InsertOp
<1>3. QED BY <1>1, <1>2

\* The counters do not see calls.
LEMMA CountedWithoutCalls ==
  ASSUME NEW m, NEW r, r.files = m.files,
         \A kind \in Kinds : kind # "call" => r.table[kind] = m.table[kind],
         NEW c, NEW name
  PROVE  Counted(r, c, name) = Counted(m, c, name)
<1>1. /\ r.table["function"] = m.table["function"] /\ r.table["include"] = m.table["include"]
      /\ r.table["macro"] = m.table["macro"] /\ r.table["type"] = m.table["type"]
  BY DEF Kinds
<1>2. QED BY <1>1 DEF Counted

LEMMA DropCallOp ==
  ASSUME NEW m, MapInv(m)
  PROVE  RecordOp(m, Raise([m EXCEPT !.callsDropped = @ + 1], "usage"))
<1>1. PICK r : r = Raise([m EXCEPT !.callsDropped = @ + 1], "usage")
  OBVIOUS
<1>2. m \in Store
  BY DEF MapInv, StoreInv, StoreType
<1>3. /\ r \in Store /\ r.files = m.files /\ r.modules = m.modules
      /\ r.table = m.table /\ r.err = "usage"
  <2>1. r = [files |-> m.files, modules |-> m.modules, table |-> m.table,
             callsDropped |-> m.callsDropped + 1, err |-> "usage"]
    BY <1>1, <1>2 DEF Raise, Store
  <2>2. m.callsDropped + 1 \in Nat /\ "usage" \in Errors
    BY <1>2 DEF Store, Errors
  <2>3. QED BY <1>2, <2>1, <2>2 DEF Store
<1>4. StoreType(r) /\ ModuleNamesUnique(r)
  BY <1>3 DEF MapInv, StoreInv, StoreType, ModuleNamesUnique
<1>5. SameNames(m, r)
  BY <1>3 DEF SameNames
<1>6. Homes(r)
  <2>1. \A a : Registered(r, a) <=> Registered(m, a)
    BY <1>5, SameNamesRegistered
  <2>2. QED BY <1>3, <2>1 DEF MapInv, StoreInv, Homes
<1>7. CountersMatch(r)
  BY <1>3, CountedSame DEF MapInv, StoreInv, CountersMatch
<1>8. ModulesAreFileGroups(r) /\ RecordsBelong(r)
  BY <1>3, <1>5, SameFileGroups, SameTableBelongs DEF MapInv
<1>9. QED BY <1>1, <1>3, <1>4, <1>6, <1>7, <1>8 DEF RecordOp, MapInv, StoreInv

LEMMA AddCallOp ==
  ASSUME NEW m, MapInv(m), NEW file, Placed(m, file), NEW name \in Symbols,
         NEW usr \in Usrs \cup {BadUsr}
  PROVE  RecordOp(m, AddCall(m, file, name, usr))
<1>1. CASE Full(m, "call")
  BY <1>1, DropCallOp DEF AddCall
<1>2. CASE ~Full(m, "call") /\ usr = BadUsr
  BY <1>2, RaiseOp DEF AddCall
<1>3. CASE ~Full(m, "call") /\ usr # BadUsr
  <2>1. PICK record : record = [module |-> file.module, path |-> file.path, name |-> name,
                 usr |-> usr, isHeader |-> file.isHeader]
    OBVIOUS
  <2>2. record \in Record("call") /\ record.module = file.module /\ record.path = file.path
    BY <1>3, <2>1 DEF Record, Placed, File
  <2>3. PICK r : r = AddCall(m, file, name, usr)
    OBVIOUS
  <2>4. r = [m EXCEPT !.table["call"] = Append(@, record)]
    BY <1>3, <2>1, <2>3 DEF AddCall
  <2>5. /\ m \in Store /\ m.table["call"] \in Seq(Record("call")) /\ "call" \in Kinds
        /\ m.table \in [Kinds -> Seq(UNION {Record(k) : k \in Kinds})]
    BY DEF MapInv, StoreInv, StoreType, Store, Kinds
  <2> DEFINE s == m.table["call"]
             t == Append(s, record)
  <2>6. /\ t \in Seq(Record("call")) /\ Len(t) = Len(s) + 1 /\ Len(s) \in Nat
        /\ DOMAIN t = DOMAIN s \cup {Len(s) + 1}
        /\ \A i \in DOMAIN s : t[i] = s[i]
        /\ t[Len(s) + 1] = record
    BY <2>2, <2>5, AppendCounted
  <2> HIDE DEF t
  <2>7. t \in Seq(UNION {Record(k) : k \in Kinds})
    <3>1. Record("call") \subseteq UNION {Record(k) : k \in Kinds}
      BY <2>5
    <3>2. QED BY <2>6, <3>1, SeqMonotonic
  <2>8. /\ r \in Store /\ r.files = m.files /\ r.modules = m.modules
        /\ r.table = [m.table EXCEPT !["call"] = t]
        /\ r.callsDropped = m.callsDropped /\ r.err = m.err
    BY <2>4, <2>5, <2>7 DEF Store, t
  <2>9. /\ r.table["call"] = t
        /\ \A kind \in Kinds : kind # "call" => r.table[kind] = m.table[kind]
    BY <2>5, <2>8
  <2>10. StoreType(r)
    <3>1. Capacity["call"] \in Nat
      BY LimitAssumption DEF Capacity
    <3>2. Len(t) <= Capacity["call"]
      BY <1>3, <2>6, <3>1 DEF Full
    <3>3. ASSUME NEW kind \in Kinds
          PROVE  r.table[kind] \in Seq(Record(kind)) /\ Len(r.table[kind]) <= Capacity[kind]
      <4>1. CASE kind = "call"
        BY <2>6, <2>9, <3>2, <4>1
      <4>2. CASE kind # "call"
        BY <2>9, <4>2 DEF MapInv, StoreInv, StoreType
      <4>3. QED BY <4>1, <4>2
    <3>4. QED BY <2>8, <3>3 DEF MapInv, StoreInv, StoreType
  <2>11. SameNames(m, r) /\ ModuleNamesUnique(r)
    BY <2>8 DEF SameNames, MapInv, StoreInv, ModuleNamesUnique
  <2>12. RecordsBelong(r)
    <3>1. ASSUME NEW kind \in Kinds, NEW i \in DOMAIN r.table[kind]
          PROVE  \E j \in DOMAIN m.files : /\ m.files[j].path = r.table[kind][i].path
                                           /\ m.files[j].module = r.table[kind][i].module
      <4>1. CASE kind # "call"
        <5>1. r.table[kind] = m.table[kind]
          BY <2>9, <4>1
        <5>2. QED BY <5>1 DEF MapInv, RecordsBelong
      <4>2. CASE kind = "call" /\ i \in DOMAIN s
        <5>1. r.table[kind][i] = m.table[kind][i]
          BY <2>6, <2>9, <4>2
        <5>2. QED BY <4>2, <5>1 DEF MapInv, RecordsBelong
      <4>3. CASE kind = "call" /\ i \notin DOMAIN s
        <5>1. r.table[kind][i] = record
          BY <2>6, <2>9, <4>3
        <5>2. QED BY <2>2, <5>1 DEF Placed
      <4>4. QED BY <4>1, <4>2, <4>3
    <3>2. QED BY <2>8, <3>1 DEF RecordsBelong
  <2>13. ModulesAreFileGroups(r)
    BY <2>8, <2>11, SameFileGroups DEF MapInv
  <2>14. Homes(r)
    <3>1. \A a : Registered(r, a) <=> Registered(m, a)
      BY <2>11, SameNamesRegistered
    <3>2. ASSUME NEW kind \in Kinds, NEW i \in DOMAIN r.table[kind]
          PROVE  Registered(m, r.table[kind][i].module)
      <4>1. PICK j \in DOMAIN m.files : m.files[j].module = r.table[kind][i].module
        BY <2>8, <2>12 DEF RecordsBelong
      <4>2. QED BY <4>1 DEF MapInv, StoreInv, Homes
    <3>3. QED BY <2>8, <3>1, <3>2 DEF MapInv, StoreInv, Homes
  <2>15. CountersMatch(r)
    <3>1. \A c, a : Counted(r, c, a) = Counted(m, c, a)
      BY <2>8, <2>9, CountedWithoutCalls
    <3>2. QED BY <2>8, <3>1 DEF MapInv, StoreInv, CountersMatch
  <2>16. QED BY <2>3, <2>8, <2>10, <2>11, <2>12, <2>13, <2>14, <2>15 DEF RecordOp, MapInv, StoreInv
<1>4. QED BY <1>1, <1>2, <1>3

Edited(m, r, k, new) == r = [m EXCEPT !.modules[k] = new]

\* A note replaces one module by itself with a flag raised.
LEMMA EditOp ==
  ASSUME NEW m, MapInv(m), NEW k, NEW new, NEW r,
         k \in DOMAIN m.modules, CreditedBy(m.modules[k], new, {}), Edited(m, r, k, new)
  PROVE  RecordOp(m, r)
<1>1. m \in Store /\ StoreInv(m)
  BY DEF MapInv, StoreInv, StoreType
<1>2. /\ r.files = m.files /\ r.modules = [m.modules EXCEPT ![k] = new]
      /\ r.table = m.table /\ r.callsDropped = m.callsDropped /\ r.err = m.err
      /\ r = [files |-> m.files, modules |-> r.modules, table |-> m.table,
              callsDropped |-> m.callsDropped, err |-> m.err]
  BY <1>1 DEF Store, Edited
<1>3. /\ r.modules \in Seq(Module) /\ Len(r.modules) = Len(m.modules)
      /\ SameNames(m, r) /\ OneCredit(m, r, k, {}) /\ ModuleNamesUnique(r)
  BY <1>1, <1>2, EditModule
<1>4. r \in Store
  BY <1>1, <1>2, <1>3 DEF Store
<1>5. StoreType(r)
  BY <1>1, <1>2, <1>3, <1>4 DEF StoreInv, StoreType
<1>6. Homes(r)
  <2>1. \A a : Registered(r, a) <=> Registered(m, a)
    BY <1>3, SameNamesRegistered
  <2>2. QED BY <1>1, <1>2, <2>1 DEF StoreInv, Homes
<1>7. CountersMatch(r)
  <2>1. OnePosition(m, r, k, {}, 0)
    <3>1. \A c, a : Counted(r, c, a) = Counted(m, c, a)
      BY <1>2, CountedSame
    <3>2. QED BY <3>1 DEF OnePosition, Keeps
  <2>2. QED BY <1>1, <1>3, <2>1, CreditKeepsCounters DEF StoreInv
<1>8. ModulesAreFileGroups(r) /\ RecordsBelong(r)
  BY <1>2, <1>3, SameFileGroups, SameTableBelongs DEF MapInv
<1>9. QED BY <1>2, <1>3, <1>5, <1>6, <1>7, <1>8 DEF RecordOp, MapInv, StoreInv

LEMMA PlacedIndex ==
  ASSUME NEW m, MapInv(m), NEW file, Placed(m, file)
  PROVE  /\ ModuleIndex(m, file.module) \in DOMAIN m.modules
         /\ m.modules[ModuleIndex(m, file.module)] \in Module
         /\ GetModule(m, file.module) = m
<1>1. m.modules \in Seq(Module) /\ ModuleNamesUnique(m)
  BY DEF MapInv, StoreInv, StoreType, Store
<1>2. PICK i \in DOMAIN m.modules : m.modules[i].name = file.module
  BY PlacedRegistered DEF Registered
<1>3. ModuleIndex(m, file.module) = i
  BY <1>1, <1>2, ModuleIndexUnique
<1>4. GetModule(m, file.module) = m
  BY PlacedRegistered DEF GetModule
<1>5. QED BY <1>1, <1>2, <1>3, <1>4, ElementOfSeq

LEMMA NoteErrorUseOp ==
  ASSUME NEW m, MapInv(m), NEW file, Placed(m, file)
  PROVE  RecordOp(m, NoteErrorUse(m, file))
<1> DEFINE k == ModuleIndex(m, file.module)
           new == [m.modules[k] EXCEPT !.usesError = TRUE]
<1>1. k \in DOMAIN m.modules /\ m.modules[k] \in Module /\ GetModule(m, file.module) = m
  BY PlacedIndex
<1>2. NoteErrorUse(m, file) = [m EXCEPT !.modules[k] = new]
  BY <1>1, PlacedRegistered DEF NoteErrorUse
<1> HIDE DEF k
<1>3. CreditedBy(m.modules[k], new, {})
  BY <1>1 DEF CreditedBy, Module
<1>4. QED BY <1>1, <1>2, <1>3, EditOp DEF Edited

LEMMA NoteErrorCheckOp ==
  ASSUME NEW m, MapInv(m), NEW file, Placed(m, file)
  PROVE  RecordOp(m, NoteErrorCheck(m, file))
<1> DEFINE k == ModuleIndex(m, file.module)
           new == [m.modules[k] EXCEPT !.checksError = TRUE]
<1>1. k \in DOMAIN m.modules /\ m.modules[k] \in Module /\ GetModule(m, file.module) = m
  BY PlacedIndex
<1>2. NoteErrorCheck(m, file) = [m EXCEPT !.modules[k] = new]
  BY <1>1, PlacedRegistered DEF NoteErrorCheck
<1> HIDE DEF k
<1>3. CreditedBy(m.modules[k], new, {})
  BY <1>1 DEF CreditedBy, Module
<1>4. QED BY <1>1, <1>2, <1>3, EditOp DEF Edited

-----------------------------------------------------------------------------
(* Adding a file. *)

LEMMA GetModuleNames ==
  ASSUME NEW m, MapInv(m), NEW name \in Names, NEW r, r = GetModule(m, name),
         Registered(r, name)
  PROVE  {r.modules[i].name : i \in DOMAIN r.modules} =
           {m.modules[i].name : i \in DOMAIN m.modules} \cup {name}
<1>1. m \in Store /\ m.modules \in Seq(Module)
  BY DEF MapInv, StoreInv, StoreType, Store
<1>2. CASE Registered(m, name)
  BY <1>2 DEF GetModule, Registered
<1>3. CASE ~Registered(m, name) /\ Len(m.modules) >= MaxModules
  <2>1. r.modules = m.modules
    BY <1>1, <1>3 DEF GetModule, Raise, Store
  <2>2. QED BY <1>3, <2>1 DEF Registered
<1>4. CASE ~Registered(m, name) /\ ~(Len(m.modules) >= MaxModules)
  <2>1. r.modules = Append(m.modules, NewModule(name))
    BY <1>1, <1>4 DEF GetModule, Store
  <2>2. NewModule(name) \in Module /\ NewModule(name).name = name
    BY DEF NewModule, Module
  <2>3. /\ DOMAIN r.modules = DOMAIN m.modules \cup {Len(m.modules) + 1}
        /\ \A i \in DOMAIN m.modules : r.modules[i] = m.modules[i]
        /\ Len(m.modules) + 1 \notin DOMAIN m.modules
        /\ r.modules[Len(m.modules) + 1] = NewModule(name)
    BY <1>1, <2>1, <2>2, AppendCounted
  <2>4. QED BY <2>2, <2>3
<1>5. QED BY <1>2, <1>3, <1>4

\* What adding a file may do: it stores no record, without an error the map
\* has a file, and with an error it has no new one.
FileOp(m, r) ==
  /\ MapInv(r) /\ r.table = m.table
  /\ r.err = "none" => m.err = "none" /\ r.callsDropped = m.callsDropped /\ r.files # << >>
  /\ m.err = "none" /\ r.err # "none" => r.files = m.files

LEMMA AddNamedSourceFileOp ==
  ASSUME NEW m, MapInv(m), NEW path \in Paths, NEW name \in Names, NEW isHeader \in BOOLEAN
  PROVE  FileOp(m, AddNamedSourceFile(m, path, name, isHeader))
<1> DEFINE g == GetModule(m, name)
<1>1. \A e \in {"usage", "system"} : FileOp(m, Raise(m, e))
  BY RaiseOp, RaiseInv DEF FileOp, RecordOp, MapInv, Errors
<1>2. /\ StoreInv(g) /\ g.files = m.files /\ g.table = m.table
      /\ g.callsDropped = m.callsDropped
      /\ Registered(g, name) => g.err = m.err
      /\ ~Registered(g, name) => g = Raise(m, "usage")
  BY GetModuleInv DEF MapInv
<1>3. CASE Len(m.files) >= MaxFiles
  BY <1>1, <1>3 DEF AddNamedSourceFile
<1>4. CASE ~(Len(m.files) >= MaxFiles) /\ ~Registered(g, name)
  BY <1>1, <1>2, <1>4 DEF AddNamedSourceFile
<1>5. CASE ~(Len(m.files) >= MaxFiles) /\ Registered(g, name)
  <2> DEFINE k == ModuleIndex(g, name)
             new == FileCredit(g.modules[k], path, isHeader)
             file == [path |-> StoredPath[path], module |-> name, isHeader |-> isHeader]
  <2>1. {g.modules[i].name : i \in DOMAIN g.modules} =
           {m.modules[i].name : i \in DOMAIN m.modules} \cup {name}
    BY <1>5, GetModuleNames
  <2> HIDE DEF g
  <2>2. file \in File /\ file.module = name /\ file.isHeader = isHeader
    BY StoredPathAssumption DEF File
  <2>3. /\ g.modules \in Seq(Module) /\ ModuleNamesUnique(g) /\ g.files \in Seq(File)
        /\ g \in Store
    BY <1>2 DEF StoreInv, StoreType, Store
  <2>4. k \in DOMAIN g.modules /\ g.modules[k].name = name /\ g.modules[k] \in Module
    <3>1. PICK i \in DOMAIN g.modules : g.modules[i].name = name
      BY <1>5 DEF Registered
    <3>2. QED BY <2>3, <3>1, ModuleIndexUnique, ElementOfSeq
  <2>5. PICK r : r = AddNamedSourceFile(m, path, name, isHeader)
    OBVIOUS
  <2>6. r = [g EXCEPT !.files = Append(g.files, file), !.modules[k] = new]
    BY <1>5, <2>5 DEF AddNamedSourceFile, g
  <2> HIDE DEF k
  <2>7. CreditedBy(g.modules[k], new, FileCounter(file))
    BY <2>2, <2>4, FileCreditType DEF FileCounter
  <2> HIDE DEF new, file
  <2>8. FileAdded(g, r, file, k, new)
    BY <2>2, <2>4, <2>6, <2>7 DEF FileAdded
  <2>9. Len(g.files) < MaxFiles
    <3>1. Len(g.files) \in Nat
      BY <2>3
    <3>2. QED BY <1>2, <1>5, <3>1, LimitAssumption
  <2>10. /\ StoreInv(r) /\ SameNames(g, r)
         /\ r.files = Append(g.files, file) /\ r.table = g.table
         /\ r.callsDropped = g.callsDropped /\ r.err = g.err
    BY <1>2, <2>2, <2>8, <2>9, FileAddedInv
  <2>11. /\ DOMAIN r.files = DOMAIN m.files \cup {Len(m.files) + 1}
         /\ \A j \in DOMAIN m.files : r.files[j] = m.files[j]
         /\ r.files[Len(m.files) + 1] = file
    BY <1>2, <2>2, <2>3, <2>10, AppendCounted
  <2>12. ModulesAreFileGroups(r)
    <3>1. {r.modules[i].name : i \in DOMAIN r.modules} =
            {m.modules[i].name : i \in DOMAIN m.modules} \cup {name}
      BY <2>1, <2>10 DEF SameNames
    <3>2. {r.files[i].module : i \in DOMAIN r.files} =
            {m.files[i].module : i \in DOMAIN m.files} \cup {name}
      BY <2>2, <2>11
    <3>3. QED BY <3>1, <3>2 DEF ModulesAreFileGroups, MapInv
  <2>13. RecordsBelong(r)
    <3>1. RecordsBelong(m) /\ r.table = m.table
      BY <1>2, <2>10 DEF MapInv
    <3>2. QED BY <2>11, <3>1 DEF RecordsBelong
  <2>14. r.files # << >>
    BY <2>11
  <2>15. r.err = m.err /\ r.callsDropped = m.callsDropped /\ r.table = m.table
    BY <1>2, <1>5, <2>10
  <2>16. QED BY <2>5, <2>10, <2>12, <2>13, <2>14, <2>15 DEF FileOp, MapInv
<1>6. QED BY <1>3, <1>4, <1>5

-----------------------------------------------------------------------------
(* The empty map, and looking a file up. *)

LEMMA EmptyMapInv == MapInv(EmptyMap) /\ EmptyMap.err = "none" /\ EmptyMap.callsDropped = 0
<1>1. EmptyMap \in Store
  BY DEF EmptyMap, Store, Errors
<1>2. Capacity \in [Kinds -> Nat]
  BY LimitAssumption DEF Capacity, Kinds
<1>3. StoreType(EmptyMap)
  BY <1>1, <1>2, LimitAssumption DEF StoreType, EmptyMap
<1>4. /\ EmptyMap.files = << >> /\ EmptyMap.modules = << >>
      /\ \A kind \in Kinds : EmptyMap.table[kind] = << >>
      /\ EmptyMap.err = "none" /\ EmptyMap.callsDropped = 0
  BY DEF EmptyMap
<1>5. ModuleNamesUnique(EmptyMap) /\ Homes(EmptyMap) /\ CountersMatch(EmptyMap)
  BY <1>4 DEF ModuleNamesUnique, Homes, CountersMatch
<1>6. ModulesAreFileGroups(EmptyMap) /\ RecordsBelong(EmptyMap)
  BY <1>4 DEF ModulesAreFileGroups, RecordsBelong
<1>7. QED BY <1>3, <1>4, <1>5, <1>6 DEF MapInv, StoreInv

LEMMA FindFilePlaced ==
  ASSUME NEW m, MapInv(m), NEW path, Known(m, path)
  PROVE  Placed(m, FindFile(m, path))
<1>1. m.files \in Seq(File) /\ Len(m.files) \in Nat /\ DOMAIN m.files = 1..Len(m.files)
  BY LenProperties DEF MapInv, StoreInv, StoreType, Store
<1> DEFINE At == {i \in DOMAIN m.files : m.files[i].path = path}
<1>2. At # {} /\ At \subseteq Nat
  BY <1>1 DEF Known
<1> HIDE DEF At
<1>3. PICK i \in At : \A j \in At : i <= j
  BY <1>2, LeastNat
<1>4. \E k \in DOMAIN m.files :
        /\ m.files[k].path = path
        /\ \A j \in DOMAIN m.files : m.files[j].path = path => k <= j
  BY <1>3 DEF At
<1>5. \E k \in DOMAIN m.files : FindFile(m, path) = m.files[k]
  BY <1>4 DEF FindFile
<1>6. QED BY <1>1, <1>5, ElementOfSeq DEF Placed

-----------------------------------------------------------------------------
(* What the operations on records leave alone, and what they store. *)

\* The files, and of every module its name and the paths it is shown with.
SameShown(m, r) ==
  /\ r.files = m.files
  /\ SameNames(m, r)
  /\ \A i \in DOMAIN m.modules : /\ r.modules[i].sourcePath = m.modules[i].sourcePath
                                 /\ r.modules[i].headerPath = m.modules[i].headerPath

\* An operation that raises no error stores the record, in the table of its kind.
Stored(m, r, kind, record) ==
  /\ SameShown(m, r)
  /\ r.err = "none" => r.table = [m.table EXCEPT ![kind] = Append(m.table[kind], record)]

\* A note stores nothing.
Noted(m, r) == SameShown(m, r) /\ r.table = m.table /\ r.err = m.err

LEMMA SameShownRaise ==
  ASSUME NEW m, MapInv(m), NEW e \in {"usage", "system"}
  PROVE  SameShown(m, Raise(m, e)) /\ Raise(m, e).err = e
BY RaiseInv DEF MapInv, Errors, SameShown, SameNames

LEMMA InsertStored ==
  ASSUME NEW m, MapInv(m), NEW file, Placed(m, file), NEW kind \in Kinds, NEW record,
         record.module = file.module, NEW cs
  PROVE  Stored(m, Insert(m, kind, record, cs), kind, record)
<1> DEFINE k == ModuleIndex(m, file.module)
           new == Credit(m.modules[k], cs)
<1>1. k \in DOMAIN m.modules /\ m.modules[k] \in Module /\ GetModule(m, file.module) = m
  BY PlacedIndex
<1>2. m \in Store
  BY DEF MapInv, StoreInv, StoreType
<1>3. PICK r : r = Insert(m, kind, record, cs)
  OBVIOUS
<1>4. r = [m EXCEPT !.table[kind] = Append(m.table[kind], record), !.modules[k] = new]
  BY <1>1, <1>3, PlacedRegistered DEF Insert
<1>5. /\ new.name = m.modules[k].name /\ new.sourcePath = m.modules[k].sourcePath
      /\ new.headerPath = m.modules[k].headerPath
  BY <1>1 DEF Credit, Module
<1> HIDE DEF k, new
<1>6. /\ r.files = m.files /\ r.modules = [m.modules EXCEPT ![k] = new]
      /\ r.table = [m.table EXCEPT ![kind] = Append(m.table[kind], record)]
  BY <1>2, <1>4 DEF Store
<1>7. SameShown(m, r)
  BY <1>1, <1>5, <1>6 DEF SameShown, SameNames
<1>8. QED BY <1>3, <1>6, <1>7 DEF Stored

LEMMA AddIncludeStored ==
  ASSUME NEW m, MapInv(m), NEW file, Placed(m, file), NEW target, NEW isLocal
  PROVE  Stored(m, AddInclude(m, file, target, isLocal), "include",
                [module |-> file.module, path |-> file.path,
                 target |-> IF isLocal THEN LocalTarget[file.module, target] ELSE target,
                 isLocal |-> isLocal])
<1>1. CASE Full(m, "include")
  BY <1>1, SameShownRaise DEF AddInclude, Stored
<1>2. CASE ~Full(m, "include")
  BY <1>2, InsertStored DEF AddInclude, Kinds
<1>3. QED BY <1>1, <1>2

LEMMA AddFunctionStored ==
  ASSUME NEW m, MapInv(m), NEW file, Placed(m, file), NEW usr, NEW isStatic, NEW isDeclaration
  PROVE  Stored(m, AddFunction(m, file, usr, isStatic, isDeclaration), "function",
                [module |-> file.module, path |-> file.path, usr |-> usr,
                 isStatic |-> isStatic, isDeclaration |-> isDeclaration])
<1>1. CASE Full(m, "function") \/ usr = BadUsr
  BY <1>1, SameShownRaise DEF AddFunction, Stored
<1>2. CASE ~(Full(m, "function") \/ usr = BadUsr)
  BY <1>2, InsertStored DEF AddFunction, Kinds
<1>3. QED BY <1>1, <1>2

LEMMA AddMacroStored ==
  ASSUME NEW m, MapInv(m), NEW file, Placed(m, file), NEW name
  PROVE  Stored(m, AddMacro(m, file, name), "macro",
                [module |-> file.module, path |-> file.path, name |-> name])
<1>1. CASE Full(m, "macro")
  BY <1>1, SameShownRaise DEF AddMacro, Stored
<1>2. CASE ~Full(m, "macro")
  BY <1>2, InsertStored DEF AddMacro, Kinds
<1>3. QED BY <1>1, <1>2

LEMMA AddTypeStored ==
  ASSUME NEW m, MapInv(m), NEW file, Placed(m, file)
  PROVE  Stored(m, AddType(m, file), "type", [module |-> file.module, path |-> file.path])
<1>1. CASE Full(m, "type")
  BY <1>1, SameShownRaise DEF AddType, Stored
<1>2. CASE ~Full(m, "type")
  BY <1>2, InsertStored DEF AddType, Kinds
<1>3. QED BY <1>1, <1>2

LEMMA AddCallStored ==
  ASSUME NEW m, MapInv(m), NEW file, NEW name, NEW usr
  PROVE  Stored(m, AddCall(m, file, name, usr), "call",
                [module |-> file.module, path |-> file.path, name |-> name, usr |-> usr,
                 isHeader |-> file.isHeader])
<1>1. m \in Store
  BY DEF MapInv, StoreInv, StoreType
<1>2. PICK r : r = AddCall(m, file, name, usr)
  OBVIOUS
<1>3. CASE Full(m, "call")
  <2>1. /\ r.files = m.files /\ r.modules = m.modules /\ r.err = "usage"
    BY <1>1, <1>2, <1>3 DEF AddCall, Raise, Store
  <2>2. QED BY <1>2, <2>1 DEF Stored, SameShown, SameNames
<1>4. CASE ~Full(m, "call") /\ usr = BadUsr
  BY <1>4, SameShownRaise DEF AddCall, Stored
<1>5. CASE ~Full(m, "call") /\ usr # BadUsr
  <2>1. PICK record : record = [module |-> file.module, path |-> file.path, name |-> name,
                                usr |-> usr, isHeader |-> file.isHeader]
    OBVIOUS
  <2>2. r = [m EXCEPT !.table["call"] = Append(@, record)]
    BY <1>2, <1>5, <2>1 DEF AddCall
  <2>3. /\ r.files = m.files /\ r.modules = m.modules
        /\ r.table = [m.table EXCEPT !["call"] = Append(m.table["call"], record)]
    BY <1>1, <2>2 DEF Store, Kinds
  <2>4. QED BY <1>2, <2>1, <2>3 DEF Stored, SameShown, SameNames
<1>6. QED BY <1>3, <1>4, <1>5

\* One flag of the module of a file of the map is raised.
LEMMA NoteNoted ==
  ASSUME NEW m, MapInv(m), NEW file, Placed(m, file)
  PROVE  Noted(m, NoteErrorUse(m, file)) /\ Noted(m, NoteErrorCheck(m, file))
<1> DEFINE k == ModuleIndex(m, file.module)
<1>1. k \in DOMAIN m.modules /\ m.modules[k] \in Module /\ GetModule(m, file.module) = m
  BY PlacedIndex
<1>2. m \in Store /\ Registered(m, file.module)
  BY PlacedRegistered DEF MapInv, StoreInv, StoreType
<1>3. /\ NoteErrorUse(m, file) = [m EXCEPT !.modules[k].usesError = TRUE]
      /\ NoteErrorCheck(m, file) = [m EXCEPT !.modules[k].checksError = TRUE]
  BY <1>1, <1>2 DEF NoteErrorUse, NoteErrorCheck
<1> HIDE DEF k
<1>4. ASSUME NEW r, NEW new, r = [m EXCEPT !.modules[k] = new], new.name = m.modules[k].name,
             new.sourcePath = m.modules[k].sourcePath, new.headerPath = m.modules[k].headerPath
      PROVE  Noted(m, r)
  <2>1. /\ r.files = m.files /\ r.modules = [m.modules EXCEPT ![k] = new]
        /\ r.table = m.table /\ r.err = m.err
    BY <1>2, <1>4 DEF Store
  <2>2. QED BY <1>1, <1>4, <2>1 DEF Noted, SameShown, SameNames
<1>5. Noted(m, NoteErrorUse(m, file))
  <2>1. PICK new : new = [m.modules[k] EXCEPT !.usesError = TRUE]
    OBVIOUS
  <2>2. QED BY <1>1, <1>3, <1>4, <2>1 DEF Module
<1>6. Noted(m, NoteErrorCheck(m, file))
  <2>1. PICK new : new = [m.modules[k] EXCEPT !.checksError = TRUE]
    OBVIOUS
  <2>2. QED BY <1>1, <1>3, <1>4, <2>1 DEF Module
<1>7. QED BY <1>5, <1>6

\* A note about a check is a note about a use, too (both loaders).
LEMMA NotesOp ==
  ASSUME NEW m, MapInv(m), m.err = "none", NEW file, Placed(m, file)
  PROVE  LET r == NoteErrorCheck(NoteErrorUse(m, file), file) IN
         RecordOp(m, r) /\ Noted(m, r)
<1>1. PICK u : u = NoteErrorUse(m, file)
  OBVIOUS
<1>2. RecordOp(m, u) /\ Noted(m, u)
  BY <1>1, NoteErrorUseOp, NoteNoted
<1>3. MapInv(u) /\ Placed(u, file)
  BY <1>2 DEF RecordOp, Placed
<1>4. PICK r : r = NoteErrorCheck(u, file)
  OBVIOUS
<1>5. RecordOp(u, r) /\ Noted(u, r)
  BY <1>3, <1>4, NoteErrorCheckOp, NoteNoted
<1>6. RecordOp(m, r)
  BY <1>2, <1>5 DEF RecordOp, Noted
<1>7. Noted(m, r)
  BY <1>2, <1>5 DEF Noted, SameShown, SameNames
<1>8. QED BY <1>1, <1>4, <1>6, <1>7

-----------------------------------------------------------------------------
(* The paths modules are shown with. *)

\* What FirstPathsKept says of one module and one kind of files.
ShownRight(m, name, isHeader, shown) ==
  LET own == {j \in DOMAIN m.files :
                m.files[j].module = name /\ m.files[j].isHeader = isHeader}
  IN IF own = {} THEN shown = NoPath
     ELSE \E j \in own : shown = m.files[j].path /\ \A k \in own : j <= k

LEMMA FirstPathsShown ==
  ASSUME NEW m
  PROVE  FirstPathsKept(m) <=>
           \A i \in DOMAIN m.modules :
             /\ ShownRight(m, m.modules[i].name, FALSE, m.modules[i].sourcePath)
             /\ ShownRight(m, m.modules[i].name, TRUE, m.modules[i].headerPath)
BY DEF FirstPathsKept, ShownRight

LEMMA ShownSameFiles ==
  ASSUME NEW m, NEW r, r.files = m.files, NEW name, NEW isHeader, NEW shown,
         ShownRight(m, name, isHeader, shown)
  PROVE  ShownRight(r, name, isHeader, shown)
BY DEF ShownRight

LEMMA SameShownFirstPaths ==
  ASSUME NEW m, NEW r, SameShown(m, r), FirstPathsKept(m)
  PROVE  FirstPathsKept(r)
<1>1. ASSUME NEW i \in DOMAIN r.modules
      PROVE  /\ ShownRight(r, r.modules[i].name, FALSE, r.modules[i].sourcePath)
             /\ ShownRight(r, r.modules[i].name, TRUE, r.modules[i].headerPath)
  <2>1. /\ i \in DOMAIN m.modules /\ r.modules[i].name = m.modules[i].name
        /\ r.modules[i].sourcePath = m.modules[i].sourcePath
        /\ r.modules[i].headerPath = m.modules[i].headerPath
    BY DEF SameShown, SameNames
  <2>2. /\ ShownRight(m, m.modules[i].name, FALSE, m.modules[i].sourcePath)
        /\ ShownRight(m, m.modules[i].name, TRUE, m.modules[i].headerPath)
    BY <2>1, FirstPathsShown
  <2>3. QED BY <2>1, <2>2, ShownSameFiles DEF SameShown
<1>2. QED BY <1>1, FirstPathsShown

\* One file more: the first path of its kind in its module is set if there was none,
\* and all others stay.
LEMMA AppendShown ==
  ASSUME NEW m, m.files \in Seq(File), NEW r, NEW file \in File,
         r.files = Append(m.files, file),
         NEW name, NEW isHeader \in BOOLEAN, NEW shown, ShownRight(m, name, isHeader, shown)
  PROVE  /\ ~(file.module = name /\ file.isHeader = isHeader) =>
              ShownRight(r, name, isHeader, shown)
         /\ file.module = name /\ file.isHeader = isHeader =>
              ShownRight(r, name, isHeader, IF shown = NoPath THEN file.path ELSE shown)
<1> DEFINE Own(s) == {j \in DOMAIN s : s[j].module = name /\ s[j].isHeader = isHeader}
           t == Append(m.files, file)
           x == Len(m.files) + 1
<1>1. /\ DOMAIN t = DOMAIN m.files \cup {x} /\ x \notin DOMAIN m.files
      /\ \A i \in DOMAIN m.files : t[i] = m.files[i]
      /\ t[x] = file /\ DOMAIN m.files = 1..Len(m.files) /\ Len(m.files) \in Nat
  BY AppendCounted
<1>2. r.files = t
  OBVIOUS
<1> HIDE DEF t
<1>3. CASE ~(file.module = name /\ file.isHeader = isHeader)
  <2>1. Own(t) = Own(m.files)
    BY <1>1, <1>3
  <2>2. \A j \in Own(m.files) : t[j] = m.files[j]
    BY <1>1
  <2>3. QED BY <1>2, <1>3, <2>1, <2>2 DEF ShownRight
<1>4. CASE file.module = name /\ file.isHeader = isHeader /\ Own(m.files) = {}
  <2>1. Own(t) = {x}
    BY <1>1, <1>4
  <2>2. shown = NoPath
    BY <1>4 DEF ShownRight
  <2>3. \E j \in Own(t) : file.path = t[j].path /\ \A k \in Own(t) : j <= k
    BY <1>1, <2>1
  <2>4. QED BY <1>2, <1>4, <2>1, <2>2, <2>3 DEF ShownRight
<1>5. CASE file.module = name /\ file.isHeader = isHeader /\ Own(m.files) # {}
  <2>1. PICK j \in Own(m.files) : shown = m.files[j].path /\ \A k \in Own(m.files) : j <= k
    BY <1>5 DEF ShownRight
  <2>2. shown # NoPath
    <3>1. m.files[j] \in File
      BY <2>1, ElementOfSeq
    <3>2. QED BY <2>1, <3>1, StoredPathAssumption DEF File
  <2>3. Own(t) = Own(m.files) \cup {x}
    BY <1>1, <1>5
  <2>4. j \in Own(t) /\ shown = t[j].path /\ \A k \in Own(t) : j <= k
    BY <1>1, <2>1, <2>3
  <2>5. QED BY <1>2, <1>5, <2>2, <2>4 DEF ShownRight
<1>6. QED BY <1>3, <1>4, <1>5

\* The module of the file is shown with its path if it had none of that kind.
LEMMA FileCreditShown ==
  ASSUME NEW module \in Module, NEW path, NEW isHeader \in BOOLEAN
  PROVE  LET new == FileCredit(module, path, isHeader) IN
         /\ new.name = module.name
         /\ new.sourcePath = IF ~isHeader /\ module.sourcePath = NoPath THEN StoredPath[path]
                             ELSE module.sourcePath
         /\ new.headerPath = IF isHeader /\ module.headerPath = NoPath THEN StoredPath[path]
                             ELSE module.headerPath
<1> DEFINE credited(cs) == Credit(module, cs)
<1>1. ASSUME NEW cs
      PROVE  /\ credited(cs) \in Module /\ credited(cs).name = module.name
             /\ credited(cs).sourcePath = module.sourcePath
             /\ credited(cs).headerPath = module.headerPath
  BY CreditType DEF Credit, Module
<1>2. CASE isHeader
  <2>1. PICK c : /\ c = credited({"header"}) /\ c \in Module /\ c.name = module.name
                 /\ c.sourcePath = module.sourcePath /\ c.headerPath = module.headerPath
    BY <1>1
  <2>2. FileCredit(module, path, isHeader) =
          [c EXCEPT !.headerPath = IF c.headerPath = NoPath THEN StoredPath[path]
                                   ELSE c.headerPath]
    BY <1>2, <2>1 DEF FileCredit
  <2>3. QED BY <1>2, <2>1, <2>2 DEF Module
<1>3. CASE ~isHeader
  <2>1. PICK c : /\ c = credited({"source"}) /\ c \in Module /\ c.name = module.name
                 /\ c.sourcePath = module.sourcePath /\ c.headerPath = module.headerPath
    BY <1>1
  <2>2. FileCredit(module, path, isHeader) =
          [c EXCEPT !.sourcePath = IF c.sourcePath = NoPath THEN StoredPath[path]
                                   ELSE c.sourcePath]
    BY <1>3, <2>1 DEF FileCredit
  <2>3. QED BY <1>3, <2>1, <2>2 DEF Module
<1>4. QED BY <1>2, <1>3

\* get_module: a module made just now is shown without a path, and has no file.
LEMMA GetModuleShown ==
  ASSUME NEW m, MapInv(m), FirstPathsKept(m), NEW name \in Names
  PROVE  FirstPathsKept(GetModule(m, name))
<1> DEFINE g == GetModule(m, name)
<1>1. m \in Store /\ m.modules \in Seq(Module) /\ Homes(m)
  BY DEF MapInv, StoreInv, StoreType, Store
<1>2. CASE Registered(m, name)
  BY <1>2 DEF GetModule
<1>3. CASE ~Registered(m, name) /\ Len(m.modules) >= MaxModules
  <2>1. SameShown(m, g)
    BY <1>1, <1>3 DEF GetModule, Raise, SameShown, SameNames, Store
  <2>2. QED BY <2>1, SameShownFirstPaths
<1>4. CASE ~Registered(m, name) /\ ~(Len(m.modules) >= MaxModules)
  <2>1. PICK new : new = NewModule(name)
    OBVIOUS
  <2>2. /\ new \in Module /\ new.name = name /\ new.sourcePath = NoPath
        /\ new.headerPath = NoPath
    BY <2>1 DEF NewModule, Module
  <2>3. g.modules = Append(m.modules, new) /\ g.files = m.files
    BY <1>1, <1>4, <2>1 DEF GetModule, Store
  <2>4. /\ DOMAIN g.modules = DOMAIN m.modules \cup {Len(m.modules) + 1}
        /\ \A i \in DOMAIN m.modules : g.modules[i] = m.modules[i]
        /\ g.modules[Len(m.modules) + 1] = new
    BY <1>1, <2>2, <2>3, AppendCounted
  <2>5. \A j \in DOMAIN m.files : m.files[j].module # name
    BY <1>1, <1>4 DEF Homes
  <2>6. ShownRight(g, name, FALSE, NoPath) /\ ShownRight(g, name, TRUE, NoPath)
    BY <2>3, <2>5 DEF ShownRight
  <2>7. ASSUME NEW i \in DOMAIN m.modules
        PROVE  /\ ShownRight(g, m.modules[i].name, FALSE, m.modules[i].sourcePath)
               /\ ShownRight(g, m.modules[i].name, TRUE, m.modules[i].headerPath)
    <3>1. /\ ShownRight(m, m.modules[i].name, FALSE, m.modules[i].sourcePath)
          /\ ShownRight(m, m.modules[i].name, TRUE, m.modules[i].headerPath)
      BY FirstPathsShown
    <3> HIDE DEF g
    <3>2. QED BY <2>3, <3>1, ShownSameFiles
  <2> HIDE DEF g
  <2>8. QED BY <2>2, <2>4, <2>6, <2>7, FirstPathsShown DEF g
<1>5. QED BY <1>2, <1>3, <1>4

\* What adding a file does: without an error it is the last file of the map; the
\* first paths stay right either way.
FileStored(m, r, path, name, isHeader) ==
  /\ r.err = "none" =>
       r.files = Append(m.files, [path |-> StoredPath[path], module |-> name,
                                  isHeader |-> isHeader])
  /\ r.err # "none" => r.files = m.files
  /\ FirstPathsKept(m) => FirstPathsKept(r)

LEMMA AddNamedSourceFileStored ==
  ASSUME NEW m, MapInv(m), m.err = "none",
         NEW path \in Paths, NEW name \in Names, NEW isHeader \in BOOLEAN
  PROVE  FileStored(m, AddNamedSourceFile(m, path, name, isHeader), path, name, isHeader)
<1> DEFINE g == GetModule(m, name)
<1>1. FileStored(m, Raise(m, "usage"), path, name, isHeader)
  BY SameShownRaise, SameShownFirstPaths DEF FileStored, SameShown
<1>2. /\ StoreInv(g) /\ g.files = m.files
      /\ Registered(g, name) => g.err = m.err
      /\ ~Registered(g, name) => g = Raise(m, "usage")
  BY GetModuleInv DEF MapInv
<1>3. CASE Len(m.files) >= MaxFiles
  BY <1>1, <1>3 DEF AddNamedSourceFile
<1>4. CASE ~(Len(m.files) >= MaxFiles) /\ ~Registered(g, name)
  BY <1>1, <1>2, <1>4 DEF AddNamedSourceFile
<1>5. CASE ~(Len(m.files) >= MaxFiles) /\ Registered(g, name)
  <2> DEFINE k == ModuleIndex(g, name)
             new == FileCredit(g.modules[k], path, isHeader)
             file == [path |-> StoredPath[path], module |-> name, isHeader |-> isHeader]
  <2>1. FirstPathsKept(m) => FirstPathsKept(g)
    BY GetModuleShown
  <2> HIDE DEF g
  <2>2. /\ file \in File /\ file.module = name /\ file.isHeader = isHeader
        /\ file.path = StoredPath[path]
    BY StoredPathAssumption DEF File
  <2>3. /\ g.modules \in Seq(Module) /\ ModuleNamesUnique(g) /\ g.files \in Seq(File)
        /\ g \in Store
    BY <1>2 DEF StoreInv, StoreType, Store
  <2>4. k \in DOMAIN g.modules /\ g.modules[k].name = name /\ g.modules[k] \in Module
    <3>1. PICK i \in DOMAIN g.modules : g.modules[i].name = name
      BY <1>5 DEF Registered
    <3>2. QED BY <2>3, <3>1, ModuleIndexUnique, ElementOfSeq
  <2>5. PICK r : r = AddNamedSourceFile(m, path, name, isHeader)
    OBVIOUS
  <2>6. r = [g EXCEPT !.files = Append(g.files, file), !.modules[k] = new]
    BY <1>5, <2>5 DEF AddNamedSourceFile, g
  <2>7. /\ new.name = name
        /\ new.sourcePath = IF ~isHeader /\ g.modules[k].sourcePath = NoPath THEN file.path
                            ELSE g.modules[k].sourcePath
        /\ new.headerPath = IF isHeader /\ g.modules[k].headerPath = NoPath THEN file.path
                            ELSE g.modules[k].headerPath
    BY <2>2, <2>4, FileCreditShown
  <2> HIDE DEF k, new, file
  <2>8. /\ r.files = Append(m.files, file) /\ r.err = "none"
        /\ r.modules = [g.modules EXCEPT ![k] = new]
    BY <1>2, <1>5, <2>3, <2>6 DEF Store
  <2>9. ASSUME FirstPathsKept(g), NEW i \in DOMAIN g.modules
        PROVE  /\ ShownRight(r, r.modules[i].name, FALSE, r.modules[i].sourcePath)
               /\ ShownRight(r, r.modules[i].name, TRUE, r.modules[i].headerPath)
    <3>1. /\ ShownRight(g, g.modules[i].name, FALSE, g.modules[i].sourcePath)
          /\ ShownRight(g, g.modules[i].name, TRUE, g.modules[i].headerPath)
      BY <2>9, FirstPathsShown
    <3>2. r.files = Append(g.files, file)
      BY <1>2, <2>8
    <3>3. CASE i = k
      <4>1. r.modules[i] = new
        BY <2>4, <2>8, <3>3
      <4>2. /\ ShownRight(g, name, FALSE, g.modules[k].sourcePath)
            /\ ShownRight(g, name, TRUE, g.modules[k].headerPath)
        BY <2>4, <3>1, <3>3
      <4>3. CASE isHeader
        <5>1. file.isHeader = TRUE /\ file.isHeader # FALSE
          BY <2>2, <4>3
        <5>2. new.sourcePath = g.modules[k].sourcePath
          BY <2>7, <4>3
        <5>3. new.headerPath = IF g.modules[k].headerPath = NoPath THEN file.path
                               ELSE g.modules[k].headerPath
          BY <2>7, <4>3
        <5>4. ShownRight(r, name, FALSE, new.sourcePath)
          BY <2>2, <2>3, <3>2, <4>2, <5>1, <5>2, AppendShown
        <5>5. ShownRight(r, name, TRUE, new.headerPath)
          <6>1. PICK shown : shown = g.modules[k].headerPath
            OBVIOUS
          <6>2. ShownRight(g, name, TRUE, shown)
            BY <4>2, <6>1
          <6>3. ShownRight(r, name, TRUE, IF shown = NoPath THEN file.path ELSE shown)
            BY <2>2, <2>3, <3>2, <5>1, <6>2, AppendShown
          <6>4. QED BY <5>3, <6>1, <6>3
        <5>6. QED BY <2>7, <4>1, <5>4, <5>5
      <4>4. CASE ~isHeader
        <5>1. file.isHeader = FALSE /\ file.isHeader # TRUE
          BY <2>2, <4>4
        <5>2. new.headerPath = g.modules[k].headerPath
          BY <2>7, <4>4
        <5>3. new.sourcePath = IF g.modules[k].sourcePath = NoPath THEN file.path
                               ELSE g.modules[k].sourcePath
          BY <2>7, <4>4
        <5>4. ShownRight(r, name, TRUE, new.headerPath)
          BY <2>2, <2>3, <3>2, <4>2, <5>1, <5>2, AppendShown
        <5>5. ShownRight(r, name, FALSE, new.sourcePath)
          <6>1. PICK shown : shown = g.modules[k].sourcePath
            OBVIOUS
          <6>2. ShownRight(g, name, FALSE, shown)
            BY <4>2, <6>1
          <6>3. ShownRight(r, name, FALSE, IF shown = NoPath THEN file.path ELSE shown)
            BY <2>2, <2>3, <3>2, <5>1, <6>2, AppendShown
          <6>4. QED BY <5>3, <6>1, <6>3
        <5>6. QED BY <2>7, <4>1, <5>4, <5>5
      <4>5. QED BY <4>3, <4>4
    <3>4. CASE i # k
      <4>1. r.modules[i] = g.modules[i]
        BY <2>8, <3>4
      <4>2. file.module # g.modules[i].name
        BY <2>2, <2>3, <2>4, <3>4 DEF ModuleNamesUnique
      <4>3. /\ ShownRight(r, g.modules[i].name, FALSE, g.modules[i].sourcePath)
            /\ ShownRight(r, g.modules[i].name, TRUE, g.modules[i].headerPath)
        BY <2>2, <2>3, <3>1, <3>2, <4>2, AppendShown
      <4>4. QED BY <4>1, <4>3
    <3>5. QED BY <3>3, <3>4
  <2>10. FirstPathsKept(m) => FirstPathsKept(r)
    BY <2>1, <2>8, <2>9, FirstPathsShown
  <2>11. QED BY <2>5, <2>8, <2>10 DEF FileStored, file
<1>6. QED BY <1>3, <1>4, <1>5

LEMMA EmptyMapShown == FirstPathsKept(EmptyMap)
BY DEF FirstPathsKept, EmptyMap

-----------------------------------------------------------------------------
(* What Analysis.tla sees of the files. *)

\* The file a path is looked up to is the first of that path.
LEMMA FindFileFirst ==
  ASSUME NEW m, m.files \in Seq(File), NEW path, Known(m, path)
  PROVE  \E i \in DOMAIN m.files :
           /\ FindFile(m, path) = m.files[i] /\ m.files[i].path = path
           /\ \A j \in DOMAIN m.files : m.files[j].path = path => i <= j
<1> DEFINE At == {i \in DOMAIN m.files : m.files[i].path = path}
<1>1. At # {} /\ At \subseteq Nat
  BY LenProperties DEF Known
<1> HIDE DEF At
<1>2. PICK i \in At : \A j \in At : i <= j
  BY <1>1, LeastNat
<1>3. \E k \in DOMAIN m.files :
        /\ m.files[k].path = path
        /\ \A j \in DOMAIN m.files : m.files[j].path = path => k <= j
  BY <1>2 DEF At
<1>4. QED BY <1>3 DEF FindFile

LEMMA FindFileLeast ==
  ASSUME NEW m, m.files \in Seq(File), NEW i \in DOMAIN m.files,
         \A j \in DOMAIN m.files : m.files[j].path = m.files[i].path => i <= j
  PROVE  FindFile(m, m.files[i].path) = m.files[i]
<1>1. Known(m, m.files[i].path)
  BY DEF Known
<1>2. PICK k \in DOMAIN m.files :
        /\ FindFile(m, m.files[i].path) = m.files[k] /\ m.files[k].path = m.files[i].path
        /\ \A j \in DOMAIN m.files : m.files[j].path = m.files[i].path => k <= j
  BY <1>1, FindFileFirst
<1>3. i <= k /\ k <= i /\ i \in Nat /\ k \in Nat
  BY <1>2, LenProperties
<1>4. QED BY <1>2, <1>3

LEMMA FindFileSame ==
  ASSUME NEW m, NEW r, r.files = m.files, NEW path
  PROVE  FindFile(r, path) = FindFile(m, path) /\ (Known(r, path) <=> Known(m, path))
BY DEF FindFile, Known

\* A file more is found under its path only if that path was not known before.
LEMMA FindFileAppended ==
  ASSUME NEW m, m.files \in Seq(File), NEW file \in File, NEW r,
         r.files = Append(m.files, file), NEW path
  PROVE  /\ Known(r, path) <=> Known(m, path) \/ path = file.path
         /\ Known(m, path) => FindFile(r, path) = FindFile(m, path)
         /\ ~Known(m, path) /\ path = file.path => FindFile(r, path) = file
<1> DEFINE t == Append(m.files, file)
           x == Len(m.files) + 1
<1>1. /\ DOMAIN t = DOMAIN m.files \cup {x} /\ x \notin DOMAIN m.files
      /\ \A i \in DOMAIN m.files : t[i] = m.files[i]
      /\ t[x] = file /\ DOMAIN m.files = 1..Len(m.files) /\ Len(m.files) \in Nat
  BY AppendCounted
<1>2. r.files = t /\ t \in Seq(File)
  OBVIOUS
<1> HIDE DEF t
<1>3. Known(r, path) <=> Known(m, path) \/ path = file.path
  BY <1>1, <1>2 DEF Known
<1>4. CASE Known(m, path)
  <2>1. PICK i \in DOMAIN m.files :
          /\ FindFile(m, path) = m.files[i] /\ m.files[i].path = path
          /\ \A j \in DOMAIN m.files : m.files[j].path = path => i <= j
    BY <1>4, FindFileFirst
  <2>2. /\ i \in DOMAIN r.files /\ r.files[i] = m.files[i]
        /\ \A j \in DOMAIN r.files : r.files[j].path = r.files[i].path => i <= j
    BY <1>1, <1>2, <2>1
  <2>3. FindFile(r, r.files[i].path) = r.files[i]
    BY <1>2, <2>2, FindFileLeast
  <2>4. QED BY <1>3, <1>4, <2>1, <2>2, <2>3
<1>5. CASE ~Known(m, path) /\ path = file.path
  <2>1. \A j \in DOMAIN m.files : m.files[j].path # path
    BY <1>5 DEF Known
  <2>2. /\ x \in DOMAIN r.files /\ r.files[x] = file
        /\ \A j \in DOMAIN r.files : r.files[j].path = r.files[x].path => x <= j
    BY <1>1, <1>2, <1>5, <2>1
  <2>3. FindFile(r, r.files[x].path) = r.files[x]
    BY <1>2, <2>2, FindFileLeast
  <2>4. QED BY <1>3, <1>5, <2>2, <2>3
<1>6. QED BY <1>3, <1>4, <1>5

\* Two stores without an error that list the same files show the same owners.
LEMMA OwnersSame ==
  ASSUME NEW m, NEW r, r.files = m.files, m.err = "none", r.err = "none"
  PROVE  SeenOwners(r) = SeenOwners(m)
<1>1. SeenFiles(r) = SeenFiles(m)
  BY DEF SeenFiles
<1>2. \A p : FindFile(r, p) = FindFile(m, p)
  BY FindFileSame
<1>3. QED BY <1>1, <1>2 DEF SeenOwners

\* The owners after the file of a path was listed: those known before stay.
OwnersWith(m, path, name, isHeader) ==
  [p \in SeenFiles(m) \cup {path} |->
     IF p \in SeenFiles(m) THEN SeenOwners(m)[p]
     ELSE [module |-> name, isHeader |-> isHeader]]

LEMMA OwnersLearned ==
  ASSUME NEW m, m.files \in Seq(File), m.err = "none", NEW r, r.err = "none",
         NEW path, NEW name, NEW isHeader,
         NEW file \in File, file = [path |-> path, module |-> name, isHeader |-> isHeader],
         IF Known(m, path) THEN r.files = m.files ELSE r.files = Append(m.files, file)
  PROVE  SeenOwners(r) = OwnersWith(m, path, name, isHeader)
<1>1. /\ \A p : p \in SeenFiles(m) <=> Known(m, p)
      /\ \A p : p \in SeenFiles(r) <=> Known(r, p)
  BY DEF SeenFiles, Known
<1>2. CASE Known(m, path)
  <2>1. SeenFiles(m) \cup {path} = SeenFiles(m)
    BY <1>1, <1>2
  <2>2. SeenOwners(r) = SeenOwners(m)
    BY <1>2, OwnersSame
  <2>3. QED BY <2>1, <2>2 DEF SeenOwners, OwnersWith
<1>3. CASE ~Known(m, path)
  <2>1. \A p : /\ Known(r, p) <=> Known(m, p) \/ p = path
               /\ Known(m, p) => FindFile(r, p) = FindFile(m, p)
               /\ ~Known(m, p) /\ p = path => FindFile(r, p) = file
    BY <1>3, FindFileAppended
  <2>2. SeenFiles(r) = SeenFiles(m) \cup {path}
    BY <1>1, <2>1
  <2>3. \A p \in SeenFiles(m) : FindFile(r, p) = FindFile(m, p)
    BY <1>1, <2>1
  <2>4. FindFile(r, path) = file /\ path \notin SeenFiles(m)
    BY <1>1, <1>3, <2>1
  <2>5. QED BY <2>2, <2>3, <2>4 DEF SeenOwners, OwnersWith
<1>4. QED BY <1>2, <1>3

-----------------------------------------------------------------------------
(* Files of different paths. *)

\* A path is listed once.
PathsUnique(m) == \A i, j \in DOMAIN m.files : m.files[i].path = m.files[j].path => i = j

LEMMA PathsUniqueAppended ==
  ASSUME NEW m, m.files \in Seq(File), PathsUnique(m), NEW file \in File,
         ~Known(m, file.path), NEW r, r.files = Append(m.files, file)
  PROVE  PathsUnique(r)
<1>1. /\ DOMAIN r.files = DOMAIN m.files \cup {Len(m.files) + 1}
      /\ \A i \in DOMAIN m.files : r.files[i] = m.files[i]
      /\ r.files[Len(m.files) + 1] = file
  BY AppendCounted
<1>2. \A i \in DOMAIN m.files : m.files[i].path # file.path
  BY DEF Known
<1>3. QED BY <1>1, <1>2 DEF PathsUnique

\* The records after one of a kind was stored; of no table if the kind is "none".
RecordsWith(m, kind, record) ==
  [k \in Kinds |-> IF k = kind THEN Append(SeenRecords(m)[k], record) ELSE SeenRecords(m)[k]]

LEMMA RecordsStored ==
  ASSUME NEW m, MapInv(m), m.err = "none", NEW kind \in Kinds, NEW record, NEW r,
         Stored(m, r, kind, record), r.err = "none"
  PROVE  SeenRecords(r) = RecordsWith(m, kind, record)
<1>1. r.table = [m.table EXCEPT ![kind] = Append(m.table[kind], record)]
  BY DEF Stored
<1>2. DOMAIN m.table = Kinds
  BY DEF MapInv, StoreInv, StoreType, Store
<1>3. QED BY <1>1, <1>2 DEF SeenRecords, RecordsWith

LEMMA RecordsNoted ==
  ASSUME NEW m, m.err = "none", NEW r, Noted(m, r), NEW record
  PROVE  SeenRecords(r) = RecordsWith(m, "none", record)
BY DEF Noted, SeenRecords, RecordsWith, Kinds

-----------------------------------------------------------------------------
(* One fact. *)

\* A file that adding could not place is not known afterwards.
LEMMA FileForFactOp ==
  ASSUME NEW m, MapInv(m), m.err = "none", NEW f \in Facts
  PROVE  LET r == FileForFact(m, f) IN
         /\ MapInv(r) /\ r.table = m.table
         /\ r.err = "none" => r.callsDropped = m.callsDropped /\ Len(r.files) > 0
         /\ r.err # "none" => ~Known(r, f.path)
<1> DEFINE r == FileForFact(m, f)
<1>1. CASE Known(m, f.path)
  <2>1. r = m
    BY <1>1 DEF FileForFact
  <2>2. m.files \in Seq(File) /\ DOMAIN m.files # {}
    BY <1>1 DEF Known, MapInv, StoreInv, StoreType, Store
  <2>3. Len(m.files) > 0
    BY <2>2
  <2>4. QED BY <2>1, <2>3
<1>2. CASE ~Known(m, f.path)
  <2>1. r = AddNamedSourceFile(m, f.path, NormalizeModule[f.module], f.isHeader)
    BY <1>2 DEF FileForFact
  <2>2. f.path \in Paths /\ NormalizeModule[f.module] \in Names /\ f.isHeader \in BOOLEAN
    BY FactAssumption, NormalizeAssumption
  <2>3. FileOp(m, r)
    BY <2>1, <2>2, AddNamedSourceFileOp
  <2> HIDE DEF r
  <2>4. r.files \in Seq(File)
    BY <2>3 DEF FileOp, MapInv, StoreInv, StoreType, Store
  <2>5. r.files # << >> => Len(r.files) > 0
    BY <2>4
  <2>6. r.err # "none" => ~Known(r, f.path)
    BY <1>2, <2>3 DEF FileOp, Known
  <2>7. /\ MapInv(r) /\ r.table = m.table
        /\ r.err = "none" => r.callsDropped = m.callsDropped /\ Len(r.files) > 0
    BY <2>3, <2>5 DEF FileOp
  <2>8. QED BY <2>6, <2>7 DEF r
<1>3. QED BY <1>1, <1>2

LEMMA ApplyNoteOp ==
  ASSUME NEW m, MapInv(m), NEW file, Placed(m, file), NEW f
  PROVE  m.err = "none" => RecordOp(m, ApplyNote(m, file, f))
<1> SUFFICES ASSUME m.err = "none" PROVE RecordOp(m, ApplyNote(m, file, f))
  OBVIOUS
<1>1. CASE f.note = "ERROR_USE"
  BY <1>1, NoteErrorUseOp DEF ApplyNote
<1>2. CASE f.note = "ERROR_CHECK"
  BY <1>2, NotesOp DEF ApplyNote
<1>3. CASE f.note \notin {"ERROR_USE", "ERROR_CHECK"}
  BY <1>3 DEF ApplyNote, RecordOp
<1>4. QED BY <1>1, <1>2, <1>3

LEMMA ApplyKindOp ==
  ASSUME NEW m, MapInv(m), m.err = "none", NEW file, Placed(m, file), NEW f \in Facts
  PROVE  RecordOp(m, ApplyKind(m, file, f))
<1>1. CASE f.kind = "INCLUDE"
  BY <1>1, AddIncludeOp, FactAssumption DEF ApplyKind
<1>2. CASE f.kind = "FUNCTION"
  BY <1>2, AddFunctionOp, FactAssumption DEF ApplyKind
<1>3. CASE f.kind = "CALL"
  BY <1>3, AddCallOp, FactAssumption DEF ApplyKind
<1>4. CASE f.kind \in {"TYPE", "ENUM"}
  BY <1>4, AddTypeOp DEF ApplyKind
<1>5. CASE f.kind = "MACRO" /\ f.isDefinition
  BY <1>5, AddMacroOp, FactAssumption DEF ApplyKind
<1>6. CASE f.kind = "NOTE"
  BY <1>6, ApplyNoteOp DEF ApplyKind
<1>7. CASE /\ f.kind \notin {"INCLUDE", "FUNCTION", "CALL", "TYPE", "ENUM", "NOTE"}
           /\ ~(f.kind = "MACRO" /\ f.isDefinition)
  <2>1. ApplyKind(m, file, f) = m
    BY <1>7 DEF ApplyKind
  <2>2. QED BY <2>1 DEF RecordOp
<1>8. QED BY <1>1, <1>2, <1>3, <1>4, <1>5, <1>6, <1>7

\* What one fact does to a store without an error.
FactApplied(m, r) ==
  /\ MapInv(r)
  /\ r.err = "none" => r.callsDropped = m.callsDropped /\ r.files # << >>
  /\ r.err # "none" => r.table = m.table

LEMMA ApplyFactOp ==
  ASSUME NEW m, MapInv(m), m.err = "none", NEW f \in Facts
  PROVE  FactApplied(m, ApplyFact(m, f))
<1>1. PICK r : r = FileForFact(m, f)
  OBVIOUS
<1>2. /\ MapInv(r) /\ r.table = m.table
      /\ r.err = "none" => r.callsDropped = m.callsDropped /\ Len(r.files) > 0
      /\ r.err # "none" => ~Known(r, f.path)
  BY <1>1, FileForFactOp
<1>3. r.err = "none" => r.files # << >>
  BY <1>2
<1>4. CASE Known(r, f.path)
  <2>1. PICK file : file = FindFile(r, f.path)
    OBVIOUS
  <2>2. Placed(r, file) /\ r.err = "none"
    BY <1>2, <1>4, <2>1, FindFilePlaced
  <2>3. ApplyFact(m, f) = ApplyKind(r, file, f)
    BY <1>1, <1>4, <2>1 DEF ApplyFact
  <2>4. RecordOp(r, ApplyFact(m, f))
    BY <1>2, <2>2, <2>3, ApplyKindOp
  <2>5. QED BY <1>2, <1>3, <2>2, <2>4 DEF RecordOp, FactApplied
<1>5. CASE ~Known(r, f.path)
  <2>1. ApplyFact(m, f) = r
    BY <1>1, <1>5 DEF ApplyFact
  <2>2. QED BY <1>2, <1>3, <2>1 DEF FactApplied
<1>6. QED BY <1>4, <1>5

-----------------------------------------------------------------------------
(* What a fact stores. *)

\* Every path of the stream fits PATH_LEN bytes: copy_string of model_mutation.c
\* cuts none.  Without it the run long_path finds a file listed twice.
FactPathsFit == \A f \in Facts : StoredPath[f.path] = f.path

\* The file a fact adds if its path is not known.
FileOfFact(f) == [path |-> StoredPath[f.path], module |-> NormalizeModule[f.module],
                  isHeader |-> f.isHeader]

LEMMA FileForFactStored ==
  ASSUME NEW m, MapInv(m), m.err = "none", NEW f \in Facts
  PROVE  LET r == FileForFact(m, f) IN
         /\ FileOfFact(f) \in File
         /\ r.err # "none" => r.files = m.files
         /\ r.err = "none" => IF Known(m, f.path) THEN r.files = m.files
                              ELSE r.files = Append(m.files, FileOfFact(f))
         /\ FirstPathsKept(m) => FirstPathsKept(r)
<1>1. f.path \in Paths /\ NormalizeModule[f.module] \in Names /\ f.isHeader \in BOOLEAN
  BY FactAssumption, NormalizeAssumption
<1>2. FileOfFact(f) \in File
  BY <1>1, StoredPathAssumption DEF FileOfFact, File
<1>3. CASE Known(m, f.path)
  BY <1>2, <1>3 DEF FileForFact
<1>4. CASE ~Known(m, f.path)
  <2>1. FileStored(m, FileForFact(m, f), f.path, NormalizeModule[f.module], f.isHeader)
    BY <1>1, <1>4, AddNamedSourceFileStored DEF FileForFact
  <2>2. QED BY <1>2, <1>4, <2>1 DEF FileStored, FileOfFact
<1>5. QED BY <1>3, <1>4

\* The table of a fact, or "none" for a fact without a record.
TableOf(f) ==
  CASE f.kind = "INCLUDE" -> "include"
    [] f.kind = "FUNCTION" -> "function"
    [] f.kind = "CALL" -> "call"
    [] f.kind \in {"TYPE", "ENUM"} -> "type"
    [] f.kind = "MACRO" /\ f.isDefinition -> "macro"
    [] OTHER -> "none"

\* The record of a fact, given the module and the language of its file.
RecordOf(f, o) ==
  CASE TableOf(f) = "include" ->
         [module |-> o.module, path |-> f.path,
          target |-> IF f.isLocal THEN LocalTarget[o.module, f.target] ELSE f.target,
          isLocal |-> f.isLocal]
    [] TableOf(f) = "function" ->
         [module |-> o.module, path |-> f.path, usr |-> f.usr,
          isStatic |-> f.isStatic, isDeclaration |-> f.isDeclaration]
    [] TableOf(f) = "call" ->
         [module |-> o.module, path |-> f.path, name |-> f.name, usr |-> f.usr,
          isHeader |-> o.isHeader]
    [] TableOf(f) = "type" -> [module |-> o.module, path |-> f.path]
    [] TableOf(f) = "macro" -> [module |-> o.module, path |-> f.path, name |-> f.name]

\* The record of a fact of a known file is stored, and nothing else.
LEMMA ApplyKindStored ==
  ASSUME NEW m, MapInv(m), m.err = "none", NEW f \in Facts,
         NEW file, Placed(m, file), file.path = f.path,
         NEW o, o = [module |-> file.module, isHeader |-> file.isHeader]
  PROVE  LET r == ApplyKind(m, file, f) IN
         /\ SameShown(m, r)
         /\ r.err = "none" =>
              SeenRecords(r) = RecordsWith(m, TableOf(f), RecordOf(f, o))
<1> DEFINE Goal(r) ==
      /\ SameShown(m, r)
      /\ r.err = "none" =>
           SeenRecords(r) = RecordsWith(m, TableOf(f), RecordOf(f, o))
<1>1. PICK r : r = ApplyKind(m, file, f)
  OBVIOUS
<1>3. ASSUME NEW kind \in Kinds, TableOf(f) = kind,
             Stored(m, r, kind, RecordOf(f, o))
      PROVE  Goal(r)
  BY <1>3, RecordsStored DEF Stored
<1>4. ASSUME TableOf(f) = "none", Noted(m, r)
      PROVE  Goal(r)
  BY <1>4, RecordsNoted DEF Noted
<1>5. CASE f.kind = "INCLUDE"
  <2>1. TableOf(f) = "include"
    BY <1>5 DEF TableOf
  <2>2. Stored(m, r, "include", RecordOf(f, o))
    BY <1>1, <1>5, <2>1, AddIncludeStored, FactAssumption DEF ApplyKind, RecordOf
  <2>3. QED BY <1>1, <1>3, <2>1, <2>2 DEF Kinds
<1>6. CASE f.kind = "FUNCTION"
  <2>1. TableOf(f) = "function"
    BY <1>6 DEF TableOf
  <2>2. Stored(m, r, "function", RecordOf(f, o))
    BY <1>1, <1>6, <2>1, AddFunctionStored, FactAssumption DEF ApplyKind, RecordOf
  <2>3. QED BY <1>1, <1>3, <2>1, <2>2 DEF Kinds
<1>7. CASE f.kind = "CALL"
  <2>1. TableOf(f) = "call"
    BY <1>7 DEF TableOf
  <2>2. Stored(m, r, "call", RecordOf(f, o))
    BY <1>1, <1>7, <2>1, AddCallStored, FactAssumption DEF ApplyKind, RecordOf
  <2>3. QED BY <1>1, <1>3, <2>1, <2>2 DEF Kinds
<1>8. CASE f.kind \in {"TYPE", "ENUM"}
  <2>1. TableOf(f) = "type"
    BY <1>8 DEF TableOf
  <2>2. Stored(m, r, "type", RecordOf(f, o))
    BY <1>1, <1>8, <2>1, AddTypeStored DEF ApplyKind, RecordOf
  <2>3. QED BY <1>1, <1>3, <2>1, <2>2 DEF Kinds
<1>9. CASE f.kind = "MACRO" /\ f.isDefinition
  <2>1. TableOf(f) = "macro"
    BY <1>9 DEF TableOf
  <2>2. Stored(m, r, "macro", RecordOf(f, o))
    BY <1>1, <1>9, <2>1, AddMacroStored DEF ApplyKind, RecordOf
  <2>3. QED BY <1>1, <1>3, <2>1, <2>2 DEF Kinds
<1>10. CASE /\ f.kind \notin {"INCLUDE", "FUNCTION", "CALL", "TYPE", "ENUM"}
            /\ ~(f.kind = "MACRO" /\ f.isDefinition)
  <2>1. TableOf(f) = "none"
    BY <1>10 DEF TableOf
  <2>2. Noted(m, m)
    BY DEF Noted, SameShown, SameNames
  <2>3. Noted(m, r)
    <3>1. CASE f.kind # "NOTE"
      BY <1>1, <1>10, <2>2, <3>1 DEF ApplyKind
    <3>2. CASE f.kind = "NOTE"
      BY <1>1, <2>2, <3>2, NoteNoted, NotesOp DEF ApplyKind, ApplyNote
    <3>3. QED BY <3>1, <3>2
  <2>4. QED BY <1>1, <1>4, <2>1, <2>3
<1>11. QED BY <1>5, <1>6, <1>7, <1>8, <1>9, <1>10

\* One fact, as seen from outside: the files keep their order and their modules
\* their first paths.
LEMMA ApplyFactShown ==
  ASSUME NEW m, MapInv(m), m.err = "none", NEW f \in Facts
  PROVE  LET r == ApplyFact(m, f) IN
         /\ FirstPathsKept(m) => FirstPathsKept(r)
         /\ \/ r.files = m.files
            \/ ~Known(m, f.path) /\ r.files = Append(m.files, FileOfFact(f))
<1>1. PICK n : n = FileForFact(m, f)
  OBVIOUS
<1>2. /\ n.err # "none" => n.files = m.files
      /\ n.err = "none" => IF Known(m, f.path) THEN n.files = m.files
                           ELSE n.files = Append(m.files, FileOfFact(f))
      /\ FirstPathsKept(m) => FirstPathsKept(n)
  BY <1>1, FileForFactStored
<1>3. MapInv(n) /\ (n.err # "none" => ~Known(n, f.path))
  BY <1>1, FileForFactOp
<1>4. CASE Known(n, f.path)
  <2>1. PICK file : file = FindFile(n, f.path)
    OBVIOUS
  <2>2. PICK r : r = ApplyFact(m, f)
    OBVIOUS
  <2>3. Placed(n, file) /\ file.path = f.path
    <3>1. n.files \in Seq(File)
      BY <1>3 DEF MapInv, StoreInv, StoreType, Store
    <3>2. QED BY <1>3, <1>4, <2>1, <3>1, FindFilePlaced, FindFileFirst
  <2>4. r = ApplyKind(n, file, f)
    BY <1>1, <1>4, <2>1, <2>2 DEF ApplyFact
  <2>5. SameShown(n, r)
    BY <1>3, <1>4, <2>3, <2>4, ApplyKindStored
  <2>6. /\ FirstPathsKept(n) => FirstPathsKept(r)
        /\ r.files = n.files
    BY <2>5, SameShownFirstPaths DEF SameShown
  <2>7. QED BY <1>2, <1>3, <1>4, <2>2, <2>6
<1>5. CASE ~Known(n, f.path)
  <2>1. ApplyFact(m, f) = n
    BY <1>1, <1>5 DEF ApplyFact
  <2>2. QED BY <1>2, <2>1
<1>6. QED BY <1>4, <1>5

\* A fact without an error is taken as Analysis.tla promises: its file is learnt
\* and its record is the last of its table.
LEMMA ApplyFactTakes ==
  ASSUME FactPathsFit, NEW m, MapInv(m), m.err = "none", NEW f \in Facts,
         NEW r, r = ApplyFact(m, f), r.err = "none"
  PROVE  /\ SeenOwners(r) = OwnersWith(m, f.path, NormalizeModule[f.module], f.isHeader)
         /\ SeenRecords(r) = RecordsWith(m, TableOf(f),
                                         RecordOf(f, SeenOwners(r)[f.path]))
<1>1. PICK n : n = FileForFact(m, f)
  OBVIOUS
<1>2. PICK added : added = FileOfFact(f)
  OBVIOUS
<1>3. /\ added \in File /\ added.path = f.path
      /\ added.module = NormalizeModule[f.module] /\ added.isHeader = f.isHeader
      /\ n.err = "none" => IF Known(m, f.path) THEN n.files = m.files
                           ELSE n.files = Append(m.files, added)
  <2>1. f.path \in Paths
    BY FactAssumption
  <2>2. QED BY <1>1, <1>2, <2>1, FileForFactStored DEF FileOfFact, FactPathsFit
<1>4. MapInv(n) /\ n.table = m.table /\ (n.err # "none" => ~Known(n, f.path))
  BY <1>1, FileForFactOp
<1>5. m.files \in Seq(File) /\ n.files \in Seq(File)
  BY <1>4 DEF MapInv, StoreInv, StoreType, Store
<1>6. n.err = "none"
  <2>1. CASE Known(n, f.path)
    BY <1>4, <2>1
  <2>2. CASE ~Known(n, f.path)
    BY <1>1, <2>2 DEF ApplyFact
  <2>3. QED BY <2>1, <2>2
<1>7. Known(n, f.path)
  BY <1>3, <1>5, <1>6, FindFileAppended, FindFileSame
<1>8. PICK file : file = FindFile(n, f.path)
  OBVIOUS
<1>9. Placed(n, file) /\ file.path = f.path
  BY <1>4, <1>5, <1>7, <1>8, FindFilePlaced, FindFileFirst
<1>10. r = ApplyKind(n, file, f)
  BY <1>1, <1>7, <1>8 DEF ApplyFact
<1>11. PICK o : o = [module |-> file.module, isHeader |-> file.isHeader]
  OBVIOUS
<1>12. /\ SameShown(n, r)
       /\ SeenRecords(r) = RecordsWith(n, TableOf(f), RecordOf(f, o))
  BY <1>4, <1>6, <1>9, <1>10, <1>11, ApplyKindStored
<1>13. SeenOwners(r) = SeenOwners(n) /\ r.files = n.files
  BY <1>6, <1>12, OwnersSame DEF SameShown
<1>14. SeenOwners(r)[f.path] = o
  <2>1. f.path \in SeenFiles(n)
    BY <1>6, <1>7 DEF SeenFiles, Known
  <2>2. QED BY <1>8, <1>11, <1>13, <2>1 DEF SeenOwners
<1>15. SeenOwners(n) = OwnersWith(m, f.path, NormalizeModule[f.module], f.isHeader)
  <2>1. added = [path |-> f.path, module |-> NormalizeModule[f.module],
                 isHeader |-> f.isHeader]
    BY <1>2, <1>3 DEF FileOfFact
  <2>2. QED BY <1>3, <1>5, <1>6, <2>1, OwnersLearned
<1>16. SeenRecords(n) = SeenRecords(m)
  BY <1>4, <1>6 DEF SeenRecords
<1>17. RecordsWith(n, TableOf(f), RecordOf(f, o)) =
         RecordsWith(m, TableOf(f), RecordOf(f, o))
  BY <1>16 DEF RecordsWith
<1>18. QED BY <1>12, <1>13, <1>14, <1>15, <1>17

-----------------------------------------------------------------------------
(* Where local includes lead. *)

LEMMA EmptyMapTargets == TargetsAreModules(EmptyMap)
BY DEF EmptyMap, TargetsAreModules, Kinds

LEMMA StoredTargets ==
  ASSUME NEW m, MapInv(m), m.err = "none", TargetsAreModules(m),
         NEW r, MapInv(r), r.err # "none" => r.table = m.table,
         NEW kind, NEW record, r.err = "none" => SeenRecords(r) = RecordsWith(m, kind, record),
         kind = "include" => (record.isLocal => record.target \in Names)
  PROVE  TargetsAreModules(r)
<1>1. CASE r.err # "none"
  BY <1>1 DEF TargetsAreModules
<1>2. CASE r.err = "none"
  <2>1. "include" \in Kinds /\ m.table["include"] \in Seq(Record("include"))
        /\ r.table["include"] \in Seq(Record("include"))
    BY DEF MapInv, StoreInv, StoreType, Kinds
  <2>2. r.table["include"] = IF kind = "include" THEN Append(m.table["include"], record)
                             ELSE m.table["include"]
    BY <1>2, <2>1 DEF SeenRecords, RecordsWith
  <2>3. CASE kind # "include"
    BY <2>2, <2>3 DEF TargetsAreModules
  <2>4. CASE kind = "include"
    <3>1. /\ DOMAIN r.table["include"]
               = DOMAIN m.table["include"] \cup {Len(m.table["include"]) + 1}
          /\ \A i \in DOMAIN m.table["include"] : r.table["include"][i] = m.table["include"][i]
          /\ r.table["include"][Len(m.table["include"]) + 1] = record
      BY <2>1, <2>2, <2>4
    <3>2. QED BY <2>4, <3>1 DEF TargetsAreModules
  <2>5. QED BY <2>3, <2>4
<1>3. QED BY <1>1, <1>2

\* The record of an include of a file of the map.
LEMMA TargetOfRecord ==
  ASSUME NEW m, MapInv(m), NEW file, Placed(m, file), NEW f \in Facts,
         NEW o, o = [module |-> file.module, isHeader |-> file.isHeader],
         TableOf(f) = "include", RecordOf(f, o).isLocal
  PROVE  RecordOf(f, o).target \in Names
<1>1. f.kind = "INCLUDE"
  BY DEF TableOf
<1>2. f.target \in Targets
  BY <1>1, FactAssumption
<1>3. o.module \in Names
  BY DEF Placed, File
<1>4. RecordOf(f, o).isLocal = f.isLocal
      /\ RecordOf(f, o).target = IF f.isLocal THEN LocalTarget[o.module, f.target] ELSE f.target
  BY DEF RecordOf
<1>5. QED BY <1>2, <1>3, <1>4, LocalTargetAssumption

LEMMA ApplyFactTargets ==
  ASSUME NEW m, MapInv(m), m.err = "none", TargetsAreModules(m), NEW f \in Facts
  PROVE  TargetsAreModules(ApplyFact(m, f))
<1>1. PICK n : n = FileForFact(m, f)
  OBVIOUS
<1>2. MapInv(n) /\ n.table = m.table /\ (n.err # "none" => ~Known(n, f.path))
  BY <1>1, FileForFactOp
<1>3. TargetsAreModules(n)
  BY <1>2 DEF TargetsAreModules
<1>4. CASE ~Known(n, f.path)
  BY <1>1, <1>3, <1>4 DEF ApplyFact
<1>5. CASE Known(n, f.path)
  <2>1. PICK file, o : /\ file = FindFile(n, f.path)
                       /\ o = [module |-> file.module, isHeader |-> file.isHeader]
    OBVIOUS
  <2>2. PICK r : r = ApplyFact(m, f)
    OBVIOUS
  <2>3. n.files \in Seq(File) /\ n.err = "none"
    BY <1>2, <1>5 DEF MapInv, StoreInv, StoreType, Store
  <2>4. Placed(n, file) /\ file.path = f.path
    BY <1>2, <1>5, <2>1, <2>3, FindFilePlaced, FindFileFirst
  <2>5. r = ApplyKind(n, file, f)
    BY <1>1, <1>5, <2>1, <2>2 DEF ApplyFact
  <2>6. r.err = "none" => SeenRecords(r) = RecordsWith(n, TableOf(f), RecordOf(f, o))
    BY <1>2, <2>1, <2>3, <2>4, <2>5, ApplyKindStored
  <2>7. MapInv(r) /\ (r.err # "none" => r.table = n.table)
    BY <1>2, <2>3, <2>4, <2>5, ApplyKindOp DEF RecordOp
  <2>8. TableOf(f) = "include" => (RecordOf(f, o).isLocal => RecordOf(f, o).target \in Names)
    BY <1>2, <2>1, <2>4, TargetOfRecord
  <2>9. QED BY <1>2, <1>3, <2>2, <2>3, <2>6, <2>7, <2>8, StoredTargets
<1>6. QED BY <1>4, <1>5
=============================================================================
