-------------------------- MODULE RelativePathProofs --------------------------
(***************************************************************************)
(* For paths of any components and any length, the loop of                 *)
(* normalize_relative_path stays within its destination and leaves a path  *)
(* in normal form, names are cut only where a buffer ends, and the bytes   *)
(* say of every include what the modules say that count components.        *)
(***************************************************************************)
EXTENDS ByteNames, SequenceTheorems, WellFoundedInduction, TLAPS

-----------------------------------------------------------------------------
(* Induction and recursion over numbers. *)

\* Induction over numbers, for a set of numbers in the place of a predicate.
LEMMA Induction ==
  ASSUME NEW A, 0 \in A, \A n \in Nat : n \in A => n + 1 \in A
  PROVE  \A n \in Nat : n \in A
  <1> SUFFICES ASSUME {n \in Nat : n \notin A} # {} PROVE FALSE
    OBVIOUS
  <1>1. PICK n \in {m \in Nat : m \notin A} :
          \A k \in {m \in Nat : m \notin A} : <<k, n>> \notin OpToRel(<, Nat)
    BY NatLessThanWellFounded, WFMin
  <1>2. n \in Nat /\ n # 0
    BY <1>1
  <1>3. n - 1 \in Nat /\ n - 1 < n /\ (n - 1) + 1 = n
    BY <1>2
  <1>4. n - 1 \in A
    BY <1>1, <1>2, <1>3 DEF OpToRel
  <1>5. (n - 1) + 1 \in A
    BY <1>3, <1>4
  <1>6. QED
    BY <1>1, <1>3, <1>5

\* The values f[n] that the steps lead to from the base.
Steps(T, base, K, step) == base \in T /\ K \in Nat /\ step \in [1..K -> [T -> T]]

Follows(f, T, base, K, step) ==
  /\ f \in [0..K -> T] /\ f[0] = base
  /\ \A n \in 1..K : f[n] = step[n][f[n - 1]]

\* A function that is defined by what comes before exists: the least number for
\* which there is none would have a number before it.
LEMMA Recursion ==
  ASSUME NEW T, NEW base, NEW K, NEW step, Steps(T, base, K, step)
  PROVE  \E f : Follows(f, T, base, K, step)
  <1> USE DEF Steps
  <1> DEFINE Reached == {m \in Nat : m <= K =>
               \E f \in [0..m -> T] : f[0] = base /\ \A n \in 1..m : f[n] = step[n][f[n - 1]]}
  <1>1. 0 \in Reached
    <2> DEFINE f == [n \in 0..0 |-> base]
    <2>1. f \in [0..0 -> T] /\ f[0] = base /\ \A n \in 1..0 : f[n] = step[n][f[n - 1]]
      OBVIOUS
    <2>2. QED
      BY <2>1
  <1>2. ASSUME NEW m \in Nat, m \in Reached PROVE m + 1 \in Reached
    <2> SUFFICES ASSUME m + 1 <= K
                 PROVE  \E f \in [0..m + 1 -> T] :
                          f[0] = base /\ \A n \in 1..m + 1 : f[n] = step[n][f[n - 1]]
      OBVIOUS
    <2>1. PICK f \in [0..m -> T] : f[0] = base /\ \A n \in 1..m : f[n] = step[n][f[n - 1]]
      BY <1>2
    <2> DEFINE next == step[m + 1][f[m]]
               g == [n \in 0..m + 1 |-> IF n = m + 1 THEN next ELSE f[n]]
    <2>2. f[m] \in T /\ m + 1 \in 1..K
      BY <2>1
    <2>3. next \in T
      BY <2>2
    <2>4. g \in [0..m + 1 -> T] /\ g[0] = base
      BY <2>1, <2>3
    <2>5. \A n \in 1..m + 1 : g[n] = step[n][g[n - 1]]
      <3>1. TAKE n \in 1..m + 1
      <3>2. CASE n = m + 1
        <4>1. n - 1 = m /\ g[m] = f[m] /\ g[m + 1] = next
          BY <3>2
        <4>2. QED
          BY <3>2, <4>1
      <3>3. CASE n \in 1..m
        <4>1. g[n] = f[n] /\ g[n - 1] = f[n - 1]
          BY <3>3
        <4>2. QED
          BY <2>1, <3>3, <4>1
      <3>4. QED
        BY <3>2, <3>3
    <2>6. QED
      BY <2>4, <2>5
  <1>3. K \in Reached
    <2> HIDE DEF Reached
    <2>1. QED
      BY <1>1, <1>2, Induction
  <1>4. QED
    BY <1>3 DEF Follows

\* Two recursions that take the same steps agree.
Agrees(f, g, K) ==
  f[0] = g[0] /\ \A n \in 1..K : f[n - 1] = g[n - 1] => f[n] = g[n]

\* Two functions that begin alike and go on alike are alike.
LEMMA Agreement ==
  ASSUME NEW K \in Nat, NEW f, NEW g, Agrees(f, g, K)
  PROVE  \A n \in 0..K : f[n] = g[n]
  <1> USE DEF Agrees
  <1> DEFINE Same == {n \in Nat : n <= K => f[n] = g[n]}
  <1>1. 0 \in Same
    OBVIOUS
  <1>2. ASSUME NEW n \in Nat, n \in Same PROVE n + 1 \in Same
    <2>1. n + 1 <= K => n + 1 \in 1..K /\ (n + 1) - 1 = n
      OBVIOUS
    <2>2. QED
      BY <1>2, <2>1
  <1>3. \A n \in Nat : n \in Same
    <2> HIDE DEF Same
    <2>1. QED
      BY <1>1, <1>2, Induction
  <1>4. QED
    BY <1>3

-----------------------------------------------------------------------------
(* Least and greatest numbers. *)

\* The least of a set of numbers.
LEMMA MinIs ==
  ASSUME NEW A, A \subseteq Nat, A # {}
  PROVE  Min(A) \in A /\ \A n \in A : Min(A) <= n
  <1>1. PICK m \in A : \A k \in A : <<k, m>> \notin OpToRel(<, Nat)
    BY NatLessThanWellFounded, WFMin
  <1>2. \A k \in A : m <= k
    <2>1. TAKE k \in A
    <2>2. k \in Nat /\ m \in Nat /\ ~(k < m)
      BY <1>1 DEF OpToRel
    <2>3. QED
      BY <2>2
  <1>3. QED
    BY <1>2 DEF Min

\* The greatest of a set of numbers that has a bound.
LEMMA MaxIs ==
  ASSUME NEW A, A \subseteq Nat, A # {}, NEW x \in Nat, \A n \in A : n <= x
  PROVE  Max(A) \in A /\ \A n \in A : n <= Max(A)
  <1> DEFINE T == {x - n : n \in A}
  <1>1. T \subseteq Nat /\ T # {}
    <2>1. \A n \in A : x - n \in Nat
      OBVIOUS
    <2>2. QED
      BY <2>1
  <1>2. PICK n \in A : Min(T) = x - n
    <2>1. Min(T) \in T
      BY <1>1, MinIs
    <2>2. QED
      BY <2>1
  <1>3. \A k \in A : k <= n
    <2>1. TAKE k \in A
    <2>2. x - n <= x - k
      BY <1>1, <1>2, MinIs
    <2>3. QED
      BY <2>2
  <1>4. QED
    BY <1>3 DEF Max

\* The smaller of two numbers, as the buffers use it.
LEMMA MinOfTwo ==
  ASSUME NEW a \in Int, NEW b \in Int
  PROVE  Min({a, b}) = IF a <= b THEN a ELSE b
  BY DEF Min

\* The greater of two numbers, as the ends of directories use it.
LEMMA MaxOfTwo ==
  ASSUME NEW a \in Int, NEW b \in Int
  PROVE  Max({a, b}) = IF a <= b THEN b ELSE a
  BY DEF Max

-----------------------------------------------------------------------------
(* Joining parts. *)

\* The first n parts, joined.
Joins(f, A, parts, separator) ==
  /\ f \in [0..Len(parts) -> Seq(A)]
  /\ Join(parts, separator) = f[Len(parts)] /\ f[0] = << >>
  /\ \A n \in 1..Len(parts) :
       f[n] = IF n = 1 THEN parts[1] ELSE (f[n - 1] \o <<separator>>) \o parts[n]

\* Join is computed from one part to the next.
LEMMA JoinIs ==
  ASSUME NEW A, NEW parts \in Seq(Seq(A)), NEW separator \in A
  PROVE  \E f : Joins(f, A, parts, separator)
  <1> DEFINE K == Len(parts)
             To[n \in 0..Len(parts)] ==
               IF n = 0 THEN << >>
               ELSE IF n = 1 THEN parts[1]
               ELSE (To[n - 1] \o <<separator>>) \o parts[n]
             Step(x, n) == IF n = 1 THEN parts[1] ELSE (x \o <<separator>>) \o parts[n]
             step == [n \in 1..K |-> [x \in Seq(A) |-> Step(x, n)]]
             Equal(f) == f = [n \in 0..Len(parts) |->
               IF n = 0 THEN << >>
               ELSE IF n = 1 THEN parts[1]
               ELSE (f[n - 1] \o <<separator>>) \o parts[n]]
  <1>1. K \in Nat /\ << >> \in Seq(A) /\ \A n \in 1..K : parts[n] \in Seq(A)
    BY ElementOfSeq
  <1>2. Steps(Seq(A), << >>, K, step)
    <2>1. ASSUME NEW x \in Seq(A), NEW n \in 1..K PROVE Step(x, n) \in Seq(A)
      <3>1. 1 \in 1..K /\ <<separator>> \in Seq(A)
        BY <1>1
      <3>2. x \o <<separator>> \in Seq(A)
        BY <3>1, ConcatProperties
      <3> HIDE DEF K
      <3>3. (x \o <<separator>>) \o parts[n] \in Seq(A)
        BY <1>1, <3>2, ConcatProperties
      <3>4. QED
        BY <1>1, <3>1, <3>3
    <2> HIDE DEF Step, K
    <2>2. QED
      BY <1>1, <2>1 DEF Steps
  <1>3. PICK f : Follows(f, Seq(A), << >>, K, step)
    <2> HIDE DEF step, K
    <2>1. QED
      BY <1>2, Recursion
  <1>4. /\ f \in [0..K -> Seq(A)] /\ f[0] = << >>
        /\ \A n \in 1..K : f[n] = Step(f[n - 1], n)
    <2> HIDE DEF Step, K
    <2>1. /\ f \in [0..K -> Seq(A)] /\ f[0] = << >>
          /\ \A n \in 1..K : f[n] = step[n][f[n - 1]]
      <3> HIDE DEF step
      <3>1. QED
        BY <1>3 DEF Follows
    <2>2. ASSUME NEW n \in 1..K PROVE f[n] = Step(f[n - 1], n)
      <3>1. n - 1 \in 0..K
        BY <1>1
      <3>2. f[n - 1] \in Seq(A)
        BY <2>1, <3>1
      <3>3. step[n] = [x \in Seq(A) |-> Step(x, n)]
        OBVIOUS
      <3>4. step[n][f[n - 1]] = Step(f[n - 1], n)
        BY <3>2, <3>3
      <3>5. QED
        BY <2>1, <3>4
    <2>3. QED
      BY <2>1, <2>2
  <1>5. Equal(f)
    <2>1. f = [n \in 0..K |-> IF n = 0 THEN << >> ELSE Step(f[n - 1], n)]
      <3> HIDE DEF Step, K
      <3>1. QED
        BY <1>1, <1>4
    <2>2. QED
      BY <2>1
  <1>6. Equal(To)
    <2>1. To = CHOOSE g : Equal(g)
      OBVIOUS
    <2> HIDE DEF Equal, To
    <2>2. QED
      BY <1>5, <2>1
  <1>7. To[K] = f[K]
    <2>1. To = [n \in 0..K |-> IF n = 0 THEN << >> ELSE Step(To[n - 1], n)]
      BY <1>6
    <2> HIDE DEF To, K, Step, step, Equal
    <2>2. To[0] = f[0] /\ \A n \in 1..K : To[n] = Step(To[n - 1], n)
      BY <1>1, <1>4, <2>1
    <2>3. Agrees(To, f, K)
      BY <1>4, <2>2 DEF Agrees
    <2>4. \A n \in 0..K : To[n] = f[n]
      BY <1>1, <2>3, Agreement
    <2>5. QED
      BY <1>1, <2>4
  <1>8. Join(parts, separator) = To[K]
    BY DEF Join
  <1>9. QED
    BY <1>4, <1>7, <1>8 DEF Joins

-----------------------------------------------------------------------------
(* Dividing at a separator. *)

\* Parts with something in the last place.
Divided(A) == Seq(Seq(A)) \ {<< >>}

\* One more byte leaves parts, and at least one.
LEMMA DivideType ==
  ASSUME NEW A, NEW parts \in Divided(A), NEW byte \in A, NEW separator
  PROVE  /\ Divide(parts, byte, separator) \in Divided(A)
         /\ Len(parts) \in Nat \ {0} /\ parts[Len(parts)] \in Seq(A)
  <1>1. Len(parts) \in Nat \ {0} /\ parts \in Seq(Seq(A)) /\ << >> \in Seq(A)
    BY EmptySeq DEF Divided
  <1>2. Len(parts) \in 1..Len(parts)
    BY <1>1
  <1>3. parts[Len(parts)] \in Seq(A)
    BY <1>1, <1>2, ElementOfSeq
  <1>4. Append(parts, << >>) \in Divided(A)
    BY <1>1, AppendProperties DEF Divided
  <1>5. Append(parts[Len(parts)], byte) \in Seq(A)
    BY <1>3, AppendProperties
  <1>6. [parts EXCEPT ![Len(parts)] = Append(@, byte)] \in Divided(A)
    <2> DEFINE last == Append(parts[Len(parts)], byte)
    <2> HIDE DEF last
    <2>1. last \in Seq(A)
      BY <1>5 DEF last
    <2>2. [parts EXCEPT ![Len(parts)] = last] \in Seq(Seq(A)) /\ Len([parts EXCEPT ![Len(parts)] = last]) = Len(parts)
      BY <1>1, <1>2, <2>1, ExceptSeq
    <2>3. [parts EXCEPT ![Len(parts)] = last] # << >>
      BY <1>1, <2>2
    <2>4. QED
      BY <2>2, <2>3 DEF Divided, last
  <1>7. QED
    BY <1>1, <1>3, <1>4, <1>6 DEF Divide

\* The parts of the first n bytes.
Splits(f, A, s, separator) ==
  /\ f \in [0..Len(s) -> Divided(A)]
  /\ Split(s, separator) = f[Len(s)] /\ f[0] = << << >> >>
  /\ \A n \in 1..Len(s) : f[n] = Divide(f[n - 1], s[n], separator)

\* Split is computed from one byte to the next.
LEMMA SplitIs ==
  ASSUME NEW A, NEW s \in Seq(A), NEW separator
  PROVE  \E f : Splits(f, A, s, separator)
  <1> DEFINE K == Len(s)
             To[n \in 0..Len(s)] ==
               IF n = 0 THEN << << >> >> ELSE Divide(To[n - 1], s[n], separator)
             Step(x, n) == Divide(x, s[n], separator)
             step == [n \in 1..K |-> [x \in Divided(A) |-> Step(x, n)]]
             Equal(f) == f = [n \in 0..Len(s) |->
               IF n = 0 THEN << << >> >> ELSE Divide(f[n - 1], s[n], separator)]
  <1>1. K \in Nat /\ << << >> >> \in Divided(A) /\ \A n \in 1..K : s[n] \in A
    BY ElementOfSeq DEF Divided
  <1>2. Steps(Divided(A), << << >> >>, K, step)
    <2>1. ASSUME NEW x \in Divided(A), NEW n \in 1..K PROVE Step(x, n) \in Divided(A)
      <3>1. QED
        BY <1>1, DivideType
    <2> HIDE DEF Step, K
    <2>2. QED
      BY <1>1, <2>1 DEF Steps
  <1>3. PICK f : Follows(f, Divided(A), << << >> >>, K, step)
    <2> HIDE DEF step, K
    <2>1. QED
      BY <1>2, Recursion
  <1>4. /\ f \in [0..K -> Divided(A)] /\ f[0] = << << >> >>
        /\ \A n \in 1..K : f[n] = Step(f[n - 1], n)
    <2> HIDE DEF Step, K
    <2>1. /\ f \in [0..K -> Divided(A)] /\ f[0] = << << >> >>
          /\ \A n \in 1..K : f[n] = step[n][f[n - 1]]
      <3> HIDE DEF step
      <3>1. QED
        BY <1>3 DEF Follows
    <2>2. ASSUME NEW n \in 1..K PROVE f[n] = Step(f[n - 1], n)
      <3>1. n - 1 \in 0..K
        BY <1>1
      <3>2. f[n - 1] \in Divided(A)
        BY <2>1, <3>1
      <3>3. step[n] = [x \in Divided(A) |-> Step(x, n)]
        OBVIOUS
      <3>4. step[n][f[n - 1]] = Step(f[n - 1], n)
        BY <3>2, <3>3
      <3>5. QED
        BY <2>1, <3>4
    <2>3. QED
      BY <2>1, <2>2
  <1>5. Equal(f)
    <2>1. f = [n \in 0..K |-> IF n = 0 THEN << << >> >> ELSE Step(f[n - 1], n)]
      <3> HIDE DEF Step, K
      <3>1. QED
        BY <1>1, <1>4
    <2>2. QED
      BY <2>1
  <1>6. Equal(To)
    <2>1. To = CHOOSE g : Equal(g)
      OBVIOUS
    <2> HIDE DEF Equal, To
    <2>2. QED
      BY <1>5, <2>1
  <1>7. To[K] = f[K]
    <2>1. To = [n \in 0..K |-> IF n = 0 THEN << << >> >> ELSE Step(To[n - 1], n)]
      BY <1>6
    <2> HIDE DEF To, K, Step, step, Equal
    <2>2. To[0] = f[0] /\ \A n \in 1..K : To[n] = Step(To[n - 1], n)
      BY <1>1, <1>4, <2>1
    <2>3. Agrees(To, f, K)
      BY <1>4, <2>2 DEF Agrees
    <2>4. \A n \in 0..K : To[n] = f[n]
      BY <1>1, <2>3, Agreement
    <2>5. QED
      BY <1>1, <2>4
  <1>8. Split(s, separator) = To[K]
    BY DEF Split
  <1>9. QED
    BY <1>4, <1>7, <1>8 DEF Splits

\* Nothing, one part, and one part more.
JoinsPart(A, parts, part, separator) ==
  /\ Join(parts, separator) \in Seq(A)
  /\ parts = << >> => Join(parts, separator) = << >>
  /\ Join(Append(parts, part), separator) =
       IF parts = << >> THEN part
       ELSE (Join(parts, separator) \o <<separator>>) \o part

\* What one more part adds to a joined text.
LEMMA JoinParts ==
  ASSUME NEW A, NEW parts \in Seq(Seq(A)), NEW separator \in A, NEW part \in Seq(A)
  PROVE  JoinsPart(A, parts, part, separator)
  <1> DEFINE K == Len(parts)
             more == Append(parts, part)
  <1>1. K \in Nat /\ more \in Seq(Seq(A)) /\ Len(more) = K + 1 /\ more[K + 1] = part
        /\ \A n \in 1..K : more[n] = parts[n]
    BY AppendProperties
  <1>2. parts = << >> <=> K = 0
    BY <1>1, EmptySeq
  <1>3. PICK f : Joins(f, A, parts, separator)
    BY JoinIs
  <1>4. PICK g : Joins(g, A, more, separator)
    <2> HIDE DEF more
    <2>1. QED
      BY <1>1, JoinIs
  <1>5. /\ Join(parts, separator) = f[K] /\ f[0] = << >> /\ f[K] \in Seq(A)
        /\ \A n \in 1..K :
             f[n] = IF n = 1 THEN parts[1] ELSE (f[n - 1] \o <<separator>>) \o parts[n]
    <2> HIDE DEF more
    <2>1. f[K] \in Seq(A)
      <3>1. K \in 0..K /\ f \in [0..K -> Seq(A)]
        BY <1>1, <1>3 DEF Joins
      <3> HIDE DEF K
      <3>2. QED
        BY <3>1
    <2>2. QED
      BY <1>3, <2>1 DEF Joins
  <1> HIDE DEF more, K
  <1>6. /\ Join(more, separator) = g[K + 1] /\ g[0] = << >>
        /\ \A n \in 1..K + 1 :
             g[n] = IF n = 1 THEN more[1] ELSE (g[n - 1] \o <<separator>>) \o more[n]
    BY <1>1, <1>4 DEF Joins
  <1>7. g[K] = f[K]
    <2>1. ASSUME NEW n \in 1..K, g[n - 1] = f[n - 1] PROVE g[n] = f[n]
      <3>1. n \in 1..K + 1 /\ more[n] = parts[n]
        BY <1>1
      <3>2. CASE n = 1
        <4>1. g[n] = more[n] /\ f[n] = parts[n]
          BY <1>5, <1>6, <3>1, <3>2
        <4>2. QED
          BY <3>1, <4>1
      <3>3. CASE n # 1
        <4>1. /\ g[n] = (g[n - 1] \o <<separator>>) \o more[n]
              /\ f[n] = (f[n - 1] \o <<separator>>) \o parts[n]
          BY <1>5, <1>6, <3>1, <3>3
        <4>2. QED
          BY <2>1, <3>1, <4>1
      <3>4. QED
        BY <3>2, <3>3
    <2>2. Agrees(g, f, K)
      BY <1>5, <1>6, <2>1 DEF Agrees
    <2>3. \A n \in 0..K : g[n] = f[n]
      BY <1>1, <2>2, Agreement
    <2>4. QED
      BY <1>1, <2>3
  <1>8. g[K + 1] = IF K = 0 THEN part ELSE (f[K] \o <<separator>>) \o part
    <2>1. K + 1 \in 1..K + 1 /\ (K + 1) - 1 = K /\ (K + 1 = 1 <=> K = 0)
      BY <1>1
    <2>2. g[K + 1] = IF K + 1 = 1 THEN more[1] ELSE (g[K] \o <<separator>>) \o more[K + 1]
      BY <1>6, <2>1
    <2>3. QED
      BY <1>1, <1>7, <2>1, <2>2
  <1>9. QED
    BY <1>1, <1>2, <1>5, <1>6, <1>8 DEF more, JoinsPart

\* Nothing, and one byte more.
SplitsByte(A, s, byte, separator) ==
  /\ Split(s, separator) \in Divided(A)
  /\ s = << >> => Split(s, separator) = << << >> >>
  /\ Split(Append(s, byte), separator) = Divide(Split(s, separator), byte, separator)

\* What one more byte adds to the parts of a text.
LEMMA SplitBytes ==
  ASSUME NEW A, NEW s \in Seq(A), NEW separator, NEW byte \in A
  PROVE  SplitsByte(A, s, byte, separator)
  <1> DEFINE K == Len(s)
             more == Append(s, byte)
  <1>1. K \in Nat /\ more \in Seq(A) /\ Len(more) = K + 1 /\ more[K + 1] = byte
        /\ \A n \in 1..K : more[n] = s[n]
    BY AppendProperties
  <1>2. s = << >> <=> K = 0
    BY <1>1, EmptySeq
  <1>3. PICK f : Splits(f, A, s, separator)
    BY SplitIs
  <1>4. PICK g : Splits(g, A, more, separator)
    <2> HIDE DEF more
    <2>1. QED
      BY <1>1, SplitIs
  <1>5. /\ Split(s, separator) = f[K] /\ f[0] = << << >> >> /\ f[K] \in Divided(A)
        /\ \A n \in 1..K : f[n] = Divide(f[n - 1], s[n], separator)
    BY <1>1, <1>3 DEF Splits
  <1> HIDE DEF more, K
  <1>6. /\ Split(more, separator) = g[K + 1] /\ g[0] = << << >> >>
        /\ \A n \in 1..K + 1 : g[n] = Divide(g[n - 1], more[n], separator)
    BY <1>1, <1>4 DEF Splits
  <1>7. g[K] = f[K]
    <2>1. ASSUME NEW n \in 1..K, g[n - 1] = f[n - 1] PROVE g[n] = f[n]
      <3>1. n \in 1..K + 1 /\ more[n] = s[n]
        BY <1>1
      <3>2. QED
        BY <1>5, <1>6, <2>1, <3>1
    <2>2. Agrees(g, f, K)
      BY <1>5, <1>6, <2>1 DEF Agrees
    <2>3. \A n \in 0..K : g[n] = f[n]
      BY <1>1, <2>2, Agreement
    <2>4. QED
      BY <1>1, <2>3
  <1>8. g[K + 1] = Divide(f[K], byte, separator)
    <2>1. K + 1 \in 1..K + 1 /\ (K + 1) - 1 = K
      BY <1>1
    <2>2. QED
      BY <1>1, <1>6, <1>7, <2>1
  <1>9. QED
    BY <1>2, <1>5, <1>6, <1>8 DEF more, SplitsByte

\* Joined parts are a text.
LEMMA JoinType ==
  ASSUME NEW A, NEW parts \in Seq(Seq(A)), NEW separator \in A
  PROVE  Join(parts, separator) \in Seq(A)
  <1>1. << >> \in Seq(A)
    BY EmptySeq
  <1>2. JoinsPart(A, parts, << >>, separator)
    BY <1>1, JoinParts
  <1>3. QED
    BY <1>2 DEF JoinsPart

\* One part needs no separator.
LEMMA JoinOne ==
  ASSUME NEW A, NEW part \in Seq(A), NEW separator \in A
  PROVE  Join(<<part>>, separator) = part
  <1>1. << >> \in Seq(Seq(A)) /\ <<part>> = Append(<< >>, part)
    OBVIOUS
  <1>2. JoinsPart(A, << >>, part, separator)
    BY <1>1, JoinParts
  <1>3. QED
    BY <1>1, <1>2 DEF JoinsPart

\* A part more comes behind a separator.
LEMMA JoinMore ==
  ASSUME NEW A, NEW parts \in Seq(Seq(A)), parts # << >>, NEW part \in Seq(A), NEW separator \in A
  PROVE  Join(Append(parts, part), separator) = (Join(parts, separator) \o <<separator>>) \o part
  <1>1. JoinsPart(A, parts, part, separator)
    BY JoinParts
  <1>2. QED
    BY <1>1 DEF JoinsPart

\* A text has at least one part.
LEMMA SplitType ==
  ASSUME NEW A, NEW s \in Seq(A), NEW separator \in A
  PROVE  Split(s, separator) \in Seq(Seq(A)) /\ Split(s, separator) # << >>
  <1>1. SplitsByte(A, s, separator, separator)
    BY SplitBytes
  <1>2. QED
    BY <1>1 DEF SplitsByte, Divided

\* The empty text has one empty part.
LEMMA SplitNothing ==
  ASSUME NEW A, NEW separator \in A
  PROVE  Split(<< >>, separator) = << << >> >>
  <1>1. << >> \in Seq(A)
    BY EmptySeq
  <1>2. SplitsByte(A, << >>, separator, separator)
    BY <1>1, SplitBytes
  <1>3. QED
    BY <1>2 DEF SplitsByte

\* A byte more extends the last part, or begins a new one.
LEMMA SplitByte ==
  ASSUME NEW A, NEW s \in Seq(A), NEW byte \in A, NEW separator
  PROVE  Split(Append(s, byte), separator) = Divide(Split(s, separator), byte, separator)
  <1>1. SplitsByte(A, s, byte, separator)
    BY SplitBytes
  <1>2. QED
    BY <1>1 DEF SplitsByte

\* A byte of the last part.
LEMMA DivideLast ==
  ASSUME NEW A, NEW parts \in Seq(Seq(A)), NEW part \in Seq(A), NEW byte \in A,
         NEW separator, byte # separator
  PROVE  Divide(Append(parts, part), byte, separator) = Append(parts, Append(part, byte))
  <1> DEFINE all == Append(parts, part)
             last == Append(part, byte)
             right == Append(parts, last)
  <1>1. /\ all \in Seq(Seq(A)) /\ Len(all) = Len(parts) + 1 /\ Len(parts) \in Nat
        /\ all[Len(parts) + 1] = part /\ \A i \in 1..Len(parts) : all[i] = parts[i]
    BY AppendProperties
  <1>2. last \in Seq(A)
    BY AppendProperties
  <1>3. /\ right \in Seq(Seq(A)) /\ Len(right) = Len(parts) + 1
        /\ right[Len(parts) + 1] = last /\ \A i \in 1..Len(parts) : right[i] = parts[i]
    BY <1>2, AppendProperties
  <1>4. Divide(all, byte, separator) = [all EXCEPT ![Len(all)] = last]
    <2>1. all[Len(all)] = part
      BY <1>1
    <2> HIDE DEF all
    <2>2. QED
      BY <2>1 DEF Divide
  <1> HIDE DEF all, last, right
  <1>5. /\ [all EXCEPT ![Len(all)] = last] \in Seq(Seq(A))
        /\ Len([all EXCEPT ![Len(all)] = last]) = Len(all)
        /\ \A i \in 1..Len(all) :
             [all EXCEPT ![Len(all)] = last][i] = IF i = Len(all) THEN last ELSE all[i]
    <2>1. Len(all) \in 1..Len(all)
      BY <1>1
    <2>2. QED
      BY <1>1, <1>2, <2>1, ExceptSeq
  <1>6. PICK left : left = [all EXCEPT ![Len(all)] = last]
    OBVIOUS
  <1>7. left \in Seq(Seq(A)) /\ Len(left) = Len(right)
        /\ \A i \in 1..Len(left) : left[i] = right[i]
    <2>1. ASSUME NEW i \in 1..Len(parts) + 1 PROVE left[i] = right[i]
      <3>1. i = Len(parts) + 1 \/ (i \in 1..Len(parts) /\ i # Len(parts) + 1)
        BY <1>1
      <3>2. QED
        BY <1>1, <1>3, <1>5, <1>6, <3>1
    <2>2. QED
      BY <1>1, <1>3, <1>5, <1>6, <2>1
  <1>8. left = right
    BY <1>3, <1>7, SeqEqual
  <1>9. QED
    BY <1>4, <1>6, <1>8 DEF all, last, right

\* What follows the separator, when there is none behind it, is a part of its own.
Without(t, separator) == \A i \in DOMAIN t : t[i] # separator

\* What follows a separator, and holds none, is the last part.
LEMMA SplitAfter ==
  ASSUME NEW A, NEW s \in Seq(A), NEW separator \in A
  PROVE  \A t \in Seq(A) : Without(t, separator) =>
           Split((s \o <<separator>>) \o t, separator) = Append(Split(s, separator), t)
  <1> DEFINE P(t) == Split((s \o <<separator>>) \o t, separator) = Append(Split(s, separator), t)
             Right == {n \in Nat : \A t \in Seq(A) : Len(t) = n /\ Without(t, separator) => P(t)}
  <1>1. <<separator>> \in Seq(A) /\ s \o <<separator>> \in Seq(A) /\ << >> \in Seq(A)
        /\ s \o <<separator>> = Append(s, separator)
    BY ConcatProperties, EmptySeq, AppendIsConcat
  <1>2. Split(s, separator) \in Seq(Seq(A))
    BY SplitType
  <1>3. P(<< >>)
    <2>1. (s \o <<separator>>) \o << >> = Append(s, separator)
      BY <1>1, ConcatEmptySeq
    <2>2. Split(Append(s, separator), separator) = Divide(Split(s, separator), separator, separator)
      BY SplitByte
    <2>3. QED
      BY <2>1, <2>2 DEF Divide
  <1>4. 0 \in Right
    <2>1. \A t \in Seq(A) : Len(t) = 0 => t = << >>
      BY EmptySeq
    <2> HIDE DEF P
    <2>2. QED
      BY <1>3, <2>1
  <1>5. ASSUME NEW n \in Nat, n \in Right PROVE n + 1 \in Right
    <2> SUFFICES ASSUME NEW t \in Seq(A), Len(t) = n + 1, Without(t, separator) PROVE P(t)
      OBVIOUS
    <2>1. PICK u \in Seq(A), byte \in A : t = Append(u, byte)
      <3>1. t # << >>
        BY EmptySeq
      <3>2. QED
        BY <3>1, SequenceEmptyOrAppend
    <2>2. /\ Len(u) = n /\ byte # separator /\ Without(u, separator)
      <3>1. Len(t) = Len(u) + 1 /\ t[Len(u) + 1] = byte /\ (\A i \in 1..Len(u) : t[i] = u[i])
            /\ Len(u) \in Nat /\ DOMAIN u = 1..Len(u) /\ DOMAIN t = 1..Len(t)
        BY <2>1, AppendProperties, LenProperties
      <3>2. Len(u) = n
        <4>1. Len(t) = Len(u) + 1 /\ Len(u) \in Nat
          BY <3>1
        <4> HIDE DEF P, Right
        <4>2. QED
          BY <4>1
      <3>3. byte # separator
        <4>1. Len(u) + 1 \in DOMAIN t
          BY <3>1
        <4>2. QED
          BY <3>1, <4>1 DEF Without
      <3>4. Without(u, separator)
        <4>1. \A i \in 1..Len(u) : i \in DOMAIN t
          BY <3>1
        <4>2. QED
          BY <3>1, <4>1 DEF Without
      <3>5. QED
        BY <3>2, <3>3, <3>4
    <2>3. P(u)
      BY <1>5, <2>2
    <2>4. (s \o <<separator>>) \o t = Append((s \o <<separator>>) \o u, byte)
          /\ (s \o <<separator>>) \o u \in Seq(A)
      <3>1. PICK r \in Seq(A) : r = s \o <<separator>>
        BY <1>1
      <3>2. r \o Append(u, byte) = Append(r \o u, byte) /\ r \o u \in Seq(A)
        <4>1. Append(u, byte) = u \o <<byte>> /\ <<byte>> \in Seq(A) /\ r \o u \in Seq(A)
          BY AppendIsConcat, ConcatProperties
        <4>2. r \o (u \o <<byte>>) = (r \o u) \o <<byte>>
          BY <4>1, ConcatAssociative
        <4>3. Append(r \o u, byte) = (r \o u) \o <<byte>>
          BY <4>1, AppendIsConcat
        <4>4. QED
          BY <4>1, <4>2, <4>3
      <3>3. QED
        BY <2>1, <3>1, <3>2
    <2>5. Split((s \o <<separator>>) \o t, separator)
            = Divide(Append(Split(s, separator), u), byte, separator)
      BY <2>3, <2>4, SplitByte
    <2>6. Divide(Append(Split(s, separator), u), byte, separator) = Append(Split(s, separator), t)
      <3>1. PICK parts \in Seq(Seq(A)) : parts = Split(s, separator)
        BY <1>2
      <3>2. QED
        BY <2>1, <2>2, <3>1, DivideLast
    <2>7. QED
      BY <2>5, <2>6
  <1>6. \A n \in Nat : n \in Right
    <2> HIDE DEF Right
    <2>1. QED
      BY <1>4, <1>5, Induction
  <1>7. QED
    BY <1>6

-----------------------------------------------------------------------------
(* Cutting. *)

\* The first bytes of a text, as many as there are.
LEMMA CutIs ==
  ASSUME NEW A, NEW s \in Seq(A), NEW n \in Nat
  PROVE  /\ Cut(s, n) \in Seq(A) /\ Len(s) \in Nat
         /\ Len(Cut(s, n)) = IF n <= Len(s) THEN n ELSE Len(s)
         /\ \A i \in 1..Len(Cut(s, n)) : Cut(s, n)[i] = s[i]
  <1> DEFINE l == Len(s)
             m == IF n <= l THEN n ELSE l
  <1>1. l \in Nat /\ \A i \in 1..l : s[i] \in A
    BY ElementOfSeq
  <1>2. Min({n, l}) = m /\ m \in Nat /\ m <= l
    BY <1>1, MinOfTwo
  <1> HIDE DEF l, m
  <1>3. /\ SubSeq(s, 1, m) \in Seq(A)
        /\ Len(SubSeq(s, 1, m)) = IF 1 <= m THEN m - 1 + 1 ELSE 0
        /\ \A i \in 1..m - 1 + 1 : SubSeq(s, 1, m)[i] = s[1 + i - 1]
    BY <1>1, <1>2, SubSeqProperties
  <1>4. Cut(s, n) = SubSeq(s, 1, m)
    BY <1>2 DEF Cut, l
  <1>5. PICK c : c = SubSeq(s, 1, m)
    OBVIOUS
  <1>6. c \in Seq(A) /\ Len(c) = m /\ \A i \in 1..m : c[i] = s[i]
    BY <1>2, <1>3, <1>5
  <1>7. QED
    BY <1>1, <1>4, <1>5, <1>6 DEF l, m

\* The bytes of a text after the first ones.
LEMMA AfterIs ==
  ASSUME NEW A, NEW s \in Seq(A), NEW n \in 0..Len(s)
  PROVE  /\ After(s, n) \in Seq(A) /\ Len(s) \in Nat
         /\ Len(After(s, n)) = Len(s) - n
         /\ \A i \in 1..Len(s) - n : After(s, n)[i] = s[n + i]
  <1> DEFINE l == Len(s)
  <1>1. l \in Nat /\ n \in 0..l /\ \A i \in 1..l : s[i] \in A
    BY ElementOfSeq
  <1>2. PICK c : c = SubSeq(s, n + 1, l)
    OBVIOUS
  <1> HIDE DEF l
  <1>3. /\ c \in Seq(A)
        /\ Len(c) = IF n + 1 <= l THEN l - (n + 1) + 1 ELSE 0
        /\ \A i \in 1..l - (n + 1) + 1 : c[i] = s[n + 1 + i - 1]
    BY <1>1, <1>2, SubSeqProperties
  <1>4. Len(c) = l - n /\ \A i \in 1..l - n : c[i] = s[n + i]
    BY <1>1, <1>3
  <1>5. QED
    BY <1>1, <1>2, <1>3, <1>4 DEF After, l

\* Nothing is cut from a text that fits.
LEMMA CutWhole ==
  ASSUME NEW A, NEW s \in Seq(A), NEW n \in Nat, Len(s) <= n
  PROVE  Cut(s, n) = s
  <1>1. Cut(s, n) \in Seq(A) /\ Len(Cut(s, n)) = Len(s)
        /\ \A i \in 1..Len(Cut(s, n)) : Cut(s, n)[i] = s[i]
    BY CutIs
  <1>2. QED
    BY <1>1, SeqEqual

\* What is cut and what is left are the text.
LEMMA CutAfter ==
  ASSUME NEW A, NEW s \in Seq(A), NEW n \in 0..Len(s)
  PROVE  Cut(s, n) \o After(s, n) = s
  <1>1. Len(s) \in Nat /\ n <= Len(s) /\ n \in Nat
    BY LenProperties
  <1>2. Cut(s, n) = SubSeq(s, 1, n)
    BY <1>1, MinOfTwo DEF Cut
  <1>3. SubSeq(s, 1, n) \o SubSeq(s, n + 1, Len(s)) = SubSeq(s, 1, Len(s))
    <2>1. 1 \in 1..Len(s) + 1 /\ n \in 1 - 1..Len(s) /\ Len(s) \in n..Len(s)
      BY <1>1
    <2>2. QED
      BY <2>1, ConcatAdjacentSubSeq
  <1>4. QED
    BY <1>2, <1>3, SubSeqFull DEF After

\* Where a text of two pieces is cut.
LEMMA CutConcat ==
  ASSUME NEW A, NEW s \in Seq(A), NEW t \in Seq(A), NEW n \in Nat
  PROVE  Cut(s \o t, n) = IF n <= Len(s) THEN Cut(s, n) ELSE s \o Cut(t, n - Len(s))
  <1>1. /\ s \o t \in Seq(A) /\ Len(s \o t) = Len(s) + Len(t)
        /\ \A i \in 1..Len(s) + Len(t) :
             (s \o t)[i] = IF i <= Len(s) THEN s[i] ELSE t[i - Len(s)]
        /\ Len(s) \in Nat /\ Len(t) \in Nat
    BY ConcatProperties, LenProperties
  <1>2. /\ Cut(s \o t, n) \in Seq(A)
        /\ Len(Cut(s \o t, n)) = IF n <= Len(s) + Len(t) THEN n ELSE Len(s) + Len(t)
        /\ \A i \in 1..Len(Cut(s \o t, n)) : Cut(s \o t, n)[i] = (s \o t)[i]
    BY <1>1, CutIs
  <1>3. CASE n <= Len(s)
    <2>1. /\ Cut(s, n) \in Seq(A) /\ Len(Cut(s, n)) = n
          /\ \A i \in 1..n : Cut(s, n)[i] = s[i]
      BY <1>3, CutIs
    <2>2. Len(Cut(s \o t, n)) = n
      BY <1>1, <1>2, <1>3
    <2>3. \A i \in 1..n : Cut(s \o t, n)[i] = Cut(s, n)[i]
      BY <1>1, <1>2, <1>3, <2>1, <2>2
    <2>4. Cut(s \o t, n) = Cut(s, n)
      BY <1>2, <2>1, <2>2, <2>3, SeqEqual
    <2>5. QED
      BY <1>3, <2>4
  <1>4. CASE ~(n <= Len(s))
    <2> DEFINE m == n - Len(s)
               k == IF m <= Len(t) THEN m ELSE Len(t)
    <2>1. m \in Nat /\ k \in Nat /\ k <= Len(t) /\ Len(Cut(s \o t, n)) = Len(s) + k
      BY <1>1, <1>2, <1>4
    <2>2. /\ Cut(t, m) \in Seq(A) /\ Len(Cut(t, m)) = k
          /\ \A i \in 1..k : Cut(t, m)[i] = t[i]
      <3> HIDE DEF m
      <3>1. QED
        BY <2>1, CutIs
    <2>3. PICK c \in Seq(A) : c = Cut(t, m)
      BY <2>2
    <2> HIDE DEF m, k
    <2>4. /\ s \o c \in Seq(A) /\ Len(s \o c) = Len(s) + k
          /\ \A i \in 1..Len(s) + k : (s \o c)[i] = IF i <= Len(s) THEN s[i] ELSE c[i - Len(s)]
      BY <2>2, <2>3, ConcatProperties
    <2>5. \A i \in 1..Len(s) + k : Cut(s \o t, n)[i] = (s \o c)[i]
      <3>1. TAKE i \in 1..Len(s) + k
      <3>2. i \in 1..Len(s) + Len(t)
        BY <1>1, <2>1
      <3>3. Cut(s \o t, n)[i] = IF i <= Len(s) THEN s[i] ELSE t[i - Len(s)]
        BY <1>1, <1>2, <2>1, <3>2
      <3>4. ~(i <= Len(s)) => i - Len(s) \in 1..k
        BY <1>1, <2>1
      <3>5. QED
        BY <2>2, <2>3, <2>4, <3>3, <3>4
    <2>6. Cut(s \o t, n) = s \o c
      BY <1>2, <2>1, <2>4, <2>5, SeqEqual
    <2>7. QED
      BY <1>4, <2>3, <2>6 DEF m
  <1>5. QED
    BY <1>3, <1>4

\* The pieces of a text of two pieces.
LEMMA AfterConcat ==
  ASSUME NEW A, NEW s \in Seq(A), NEW t \in Seq(A)
  PROVE  /\ After(s \o t, Len(s)) = t /\ Cut(s \o t, Len(s)) = s
         /\ s \o t \in Seq(A) /\ Len(s \o t) = Len(s) + Len(t)
         /\ Len(s) \in Nat /\ Len(t) \in Nat
  <1>1. /\ s \o t \in Seq(A) /\ Len(s \o t) = Len(s) + Len(t)
        /\ \A i \in 1..Len(s) + Len(t) :
             (s \o t)[i] = IF i <= Len(s) THEN s[i] ELSE t[i - Len(s)]
        /\ Len(s) \in Nat /\ Len(t) \in Nat
    BY ConcatProperties, LenProperties
  <1>2. PICK r \in Seq(A) : r = s \o t
    BY <1>1
  <1>3. /\ After(r, Len(s)) \in Seq(A) /\ Len(After(r, Len(s))) = Len(t)
        /\ \A i \in 1..Len(t) : After(r, Len(s))[i] = r[Len(s) + i]
    <2>1. Len(s) \in 0..Len(r) /\ Len(r) - Len(s) = Len(t)
      BY <1>1, <1>2
    <2>2. QED
      BY <2>1, AfterIs
  <1>4. \A i \in 1..Len(t) : After(r, Len(s))[i] = t[i]
    <2>1. TAKE i \in 1..Len(t)
    <2>2. Len(s) + i \in 1..Len(s) + Len(t) /\ ~(Len(s) + i <= Len(s)) /\ (Len(s) + i) - Len(s) = i
      BY <1>1
    <2>3. QED
      BY <1>1, <1>2, <1>3, <2>2
  <1>5. After(r, Len(s)) = t
    BY <1>3, <1>4, SeqEqual
  <1>6. Cut(r, Len(s)) = s
    BY <1>1, <1>2, CutConcat, CutWhole, SMTT(60)
  <1>7. QED
    BY <1>1, <1>2, <1>5, <1>6

\* Of two cuts the shorter one counts.
LEMMA CutTwice ==
  ASSUME NEW A, NEW s \in Seq(A), NEW m \in Nat, NEW n \in Nat
  PROVE  Cut(Cut(s, m), n) = Cut(s, IF m <= n THEN m ELSE n)
  <1> DEFINE k == IF m <= n THEN m ELSE n
  <1>1. PICK c \in Seq(A) : c = Cut(s, m)
    BY CutIs
  <1>2. /\ Len(s) \in Nat /\ Len(c) = IF m <= Len(s) THEN m ELSE Len(s)
        /\ \A i \in 1..Len(c) : c[i] = s[i]
    BY <1>1, CutIs
  <1>3. /\ Cut(c, n) \in Seq(A) /\ Len(Cut(c, n)) = IF n <= Len(c) THEN n ELSE Len(c)
        /\ \A i \in 1..Len(Cut(c, n)) : Cut(c, n)[i] = c[i]
    BY CutIs
  <1>4. k \in Nat
    OBVIOUS
  <1>5. /\ Cut(s, k) \in Seq(A) /\ Len(Cut(s, k)) = IF k <= Len(s) THEN k ELSE Len(s)
        /\ \A i \in 1..Len(Cut(s, k)) : Cut(s, k)[i] = s[i]
    <2> HIDE DEF k
    <2>1. QED
      BY <1>4, CutIs
  <1>6. Len(Cut(c, n)) = Len(Cut(s, k)) /\ Len(Cut(c, n)) \in Nat /\ Len(Cut(c, n)) <= Len(c)
        /\ Len(c) \in Nat
    BY <1>2, <1>3, <1>5
  <1>7. \A i \in 1..Len(Cut(c, n)) : Cut(c, n)[i] = Cut(s, k)[i]
    <2> HIDE DEF k
    <2>1. TAKE i \in 1..Len(Cut(c, n))
    <2>2. i \in 1..Len(c) /\ i \in 1..Len(Cut(s, k))
      BY <1>6
    <2>3. QED
      BY <1>2, <1>3, <1>5, <2>2
  <1>8. Cut(c, n) = Cut(s, k)
    <2> HIDE DEF k
    <2>1. QED
      BY <1>3, <1>5, <1>6, <1>7, SeqEqual
  <1>9. QED
    BY <1>1, <1>8

-----------------------------------------------------------------------------
(* Where a byte stands. *)

\* Where a byte stands last, and 0 when it stands nowhere.
LEMMA LastOffsetIs ==
  ASSUME NEW A, NEW s \in Seq(A), NEW byte
  PROVE  /\ LastOffset(s, byte) \in 0..Len(s) /\ Len(s) \in Nat
         /\ LastOffset(s, byte) = 0 => Without(s, byte)
         /\ LastOffset(s, byte) > 0 => s[LastOffset(s, byte)] = byte
         /\ \A i \in DOMAIN s : s[i] = byte => i <= LastOffset(s, byte)
  <1> DEFINE O == Offsets(s, byte) \cup {0}
  <1>1. Len(s) \in Nat /\ DOMAIN s = 1..Len(s)
    BY LenProperties
  <1>2. /\ O \subseteq Nat /\ O # {} /\ \A n \in O : n <= Len(s)
        /\ \A n \in O : n = 0 \/ (n \in DOMAIN s /\ s[n] = byte)
        /\ \A i \in DOMAIN s : s[i] = byte => i \in O
    BY <1>1 DEF Offsets
  <1> HIDE DEF O
  <1>3. Max(O) \in O /\ \A n \in O : n <= Max(O)
    BY <1>1, <1>2, MaxIs
  <1>4. LastOffset(s, byte) = Max(O)
    BY DEF LastOffset, O
  <1>5. PICK m : m = Max(O)
    OBVIOUS
  <1>6. m \in 0..Len(s) /\ (m > 0 => s[m] = byte) /\ \A i \in DOMAIN s : s[i] = byte => i <= m
    <2>1. m \in O /\ \A n \in O : n <= m
      BY <1>3, <1>5
    <2>2. m \in 0..Len(s)
      BY <1>1, <1>2, <2>1
    <2>3. m > 0 => s[m] = byte
      BY <1>2, <2>1
    <2>4. \A i \in DOMAIN s : s[i] = byte => i <= m
      BY <1>2, <2>1
    <2>5. QED
      BY <2>2, <2>3, <2>4
  <1>7. m = 0 => Without(s, byte)
    BY <1>1, <1>6 DEF Without
  <1>8. QED
    BY <1>1, <1>4, <1>5, <1>6, <1>7

\* The last place of a byte divides the bytes around it.
LEMMA LastOffsetAt ==
  ASSUME NEW A, NEW s \in Seq(A), NEW byte \in A, NEW t \in Seq(A), Without(t, byte)
  PROVE  /\ LastOffset(t, byte) = 0
         /\ LastOffset((s \o <<byte>>) \o t, byte) = Len(s) + 1
         /\ (s \o <<byte>>) \o t \in Seq(A) /\ s \o <<byte>> \in Seq(A)
         /\ Len(s \o <<byte>>) = Len(s) + 1 /\ Len(s) \in Nat /\ Len(t) \in Nat
         /\ Cut((s \o <<byte>>) \o t, Len(s)) = s
         /\ Cut((s \o <<byte>>) \o t, Len(s) + 1) = s \o <<byte>>
         /\ After((s \o <<byte>>) \o t, Len(s) + 1) = t
  <1>0. <<byte>> \in Seq(A)
    OBVIOUS
  <1>1. PICK r \in Seq(A) : r = s \o <<byte>>
    BY <1>0, ConcatProperties
  <1>2. /\ Len(r) = Len(s) + 1 /\ r[Len(s) + 1] = byte
        /\ Len(s) \in Nat /\ Len(t) \in Nat /\ DOMAIN t = 1..Len(t)
    <2>1. r = Append(s, byte)
      BY <1>1, AppendIsConcat
    <2>2. QED
      BY <2>1, AppendProperties, LenProperties
  <1>3. PICK w \in Seq(A) : w = r \o t
    BY ConcatProperties
  <1>4. /\ Len(w) = Len(s) + 1 + Len(t) /\ DOMAIN w = 1..Len(w)
        /\ \A i \in 1..Len(w) : w[i] = IF i <= Len(s) + 1 THEN r[i] ELSE t[i - (Len(s) + 1)]
    <2>1. /\ Len(r \o t) = Len(r) + Len(t)
          /\ \A i \in 1..Len(r) + Len(t) :
               (r \o t)[i] = IF i <= Len(r) THEN r[i] ELSE t[i - Len(r)]
      BY ConcatProperties
    <2>2. Len(w) = Len(s) + 1 + Len(t)
      BY <1>2, <1>3, <2>1
    <2>3. DOMAIN w = 1..Len(w)
      BY LenProperties
    <2>4. QED
      BY <1>2, <1>3, <2>1, <2>2, <2>3
  <1>5. LastOffset(t, byte) = 0
    <2>1. LastOffset(t, byte) \in 0..Len(t)
          /\ (LastOffset(t, byte) > 0 => t[LastOffset(t, byte)] = byte)
      BY LastOffsetIs
    <2>2. QED
      BY <1>2, <2>1 DEF Without
  <1>6. LastOffset(w, byte) = Len(s) + 1
    <2>1. PICK m : m = LastOffset(w, byte)
      OBVIOUS
    <2>2. /\ m \in 0..Len(w) /\ (m > 0 => w[m] = byte)
          /\ \A i \in DOMAIN w : w[i] = byte => i <= m
      BY <2>1, LastOffsetIs
    <2>3. Len(s) + 1 \in DOMAIN w /\ w[Len(s) + 1] = byte
      BY <1>2, <1>4
    <2>4. m >= Len(s) + 1
      BY <1>2, <2>2, <2>3
    <2>5. ~(m > Len(s) + 1)
      <3> SUFFICES ASSUME m > Len(s) + 1 PROVE FALSE
        OBVIOUS
      <3>1. m - (Len(s) + 1) \in 1..Len(t) /\ m \in 1..Len(w) /\ ~(m <= Len(s) + 1)
        BY <1>2, <1>4, <2>2
      <3>2. t[m - (Len(s) + 1)] = byte
        BY <1>4, <2>2, <3>1
      <3>3. QED
        BY <1>2, <3>1, <3>2 DEF Without
    <2>6. QED
      BY <1>2, <2>1, <2>2, <2>4, <2>5
  <1>7. After(w, Len(s) + 1) = t /\ Cut(w, Len(s) + 1) = r
    BY <1>2, <1>3, AfterConcat
  <1>8. Cut(w, Len(s)) = s
    <2>1. Cut(w, Len(s)) = Cut(r, Len(s))
      <3>1. Len(s) <= Len(r)
        BY <1>2
      <3>2. QED
        BY <1>2, <1>3, <3>1, CutConcat
    <2>2. Cut(r, Len(s)) = s
      BY <1>0, <1>1, AfterConcat
    <2>3. QED
      BY <2>1, <2>2
  <1>9. QED
    BY <1>1, <1>2, <1>3, <1>5, <1>6, <1>7, <1>8

\* The last separator divides a text into what is before it and what is behind
\* it.
LEMMA LastDivides ==
  ASSUME NEW A, NEW s \in Seq(A), NEW byte \in A, LastOffset(s, byte) > 0
  PROVE  \E u, t \in Seq(A) : /\ s = (u \o <<byte>>) \o t /\ Without(t, byte)
                              /\ LastOffset(s, byte) = Len(u) + 1
                              /\ Len(u) < Len(s) /\ Len(t) < Len(s)
  <1>1. PICK d : d = LastOffset(s, byte)
    OBVIOUS
  <1>2. /\ d \in 1..Len(s) /\ Len(s) \in Nat /\ s[d] = byte
        /\ \A i \in DOMAIN s : s[i] = byte => i <= d
    BY <1>1, LastOffsetIs
  <1>3. PICK r, t \in Seq(A) : r = Cut(s, d) /\ t = After(s, d) /\ r \o t = s
    <2>1. d \in 0..Len(s) /\ d \in Nat
      BY <1>2
    <2>2. Cut(s, d) \in Seq(A)
      BY <2>1, CutIs
    <2>3. After(s, d) \in Seq(A)
      BY <2>1, AfterIs
    <2>4. Cut(s, d) \o After(s, d) = s
      BY <2>1, CutAfter
    <2>5. QED
      BY <2>2, <2>3, <2>4
  <1>4. /\ Len(r) = d /\ \A i \in 1..d : r[i] = s[i]
    <2>1. d \in Nat /\ d <= Len(s)
      BY <1>2
    <2>2. QED
      BY <1>3, <2>1, CutIs
  <1>5. Without(t, byte) /\ Len(t) = Len(s) - d
    <2>1. d \in 0..Len(s)
      BY <1>2
    <2>2. Len(t) = Len(s) - d /\ \A i \in 1..Len(s) - d : t[i] = s[d + i]
      BY <1>3, <2>1, AfterIs
    <2>3. ASSUME NEW i \in 1..Len(s) - d PROVE t[i] # byte
      <3>1. d + i \in 1..Len(s) /\ ~(d + i <= d)
        BY <1>2
      <3>2. d + i \in DOMAIN s
        BY <3>1, LenProperties
      <3>3. QED
        BY <1>2, <2>2, <3>1, <3>2
    <2>4. DOMAIN t = 1..Len(s) - d
      BY <2>2, LenProperties
    <2>5. QED
      BY <2>2, <2>3, <2>4 DEF Without
  <1>6. PICK u \in Seq(A), last \in A : r = Append(u, last)
    <2>1. r # << >>
      BY <1>2, <1>4, EmptySeq
    <2>2. QED
      BY <2>1, SequenceEmptyOrAppend
  <1>7. Len(u) + 1 = d /\ Len(u) \in Nat /\ last = byte /\ r = u \o <<byte>>
    <2>1. Len(r) = Len(u) + 1 /\ r[Len(u) + 1] = last /\ r = u \o <<last>> /\ Len(u) \in Nat
      BY <1>6, AppendProperties, AppendIsConcat, LenProperties
    <2>2. d \in 1..d
      BY <1>2
    <2>3. QED
      BY <1>2, <1>4, <2>1, <2>2
  <1>8. Len(u) < Len(s) /\ Len(t) < Len(s)
    BY <1>2, <1>5, <1>7
  <1>9. QED
    BY <1>1, <1>3, <1>5, <1>7, <1>8

-----------------------------------------------------------------------------
(* Dividing and joining are inverse. *)

\* Induction from all smaller numbers.
LEMMA Complete ==
  ASSUME NEW A, \A n \in Nat : (\A k \in Nat : k < n => k \in A) => n \in A
  PROVE  \A n \in Nat : n \in A
  <1> SUFFICES ASSUME {n \in Nat : n \notin A} # {} PROVE FALSE
    OBVIOUS
  <1>1. PICK n \in {m \in Nat : m \notin A} :
          \A k \in {m \in Nat : m \notin A} : <<k, n>> \notin OpToRel(<, Nat)
    BY NatLessThanWellFounded, WFMin
  <1>2. \A k \in Nat : k < n => k \in A
    BY <1>1 DEF OpToRel
  <1>3. QED
    BY <1>1, <1>2

\* A text without a separator is its only part.
LEMMA SplitWhole ==
  ASSUME NEW A, NEW separator \in A
  PROVE  \A t \in Seq(A) : Without(t, separator) => Split(t, separator) = <<t>>
  <1> DEFINE P(t) == Split(t, separator) = <<t>>
             Right == {n \in Nat : \A t \in Seq(A) : Len(t) = n /\ Without(t, separator) => P(t)}
  <1>1. << >> \in Seq(A) /\ << >> \in Seq(Seq(A))
        /\ \A t \in Seq(A) : <<t>> = Append(<< >>, t)
    OBVIOUS
  <1>2. 0 \in Right
    <2>1. P(<< >>)
      BY SplitNothing
    <2>2. \A t \in Seq(A) : Len(t) = 0 => t = << >>
      BY EmptySeq
    <2> HIDE DEF P
    <2>3. QED
      BY <2>1, <2>2
  <1>3. ASSUME NEW n \in Nat, n \in Right PROVE n + 1 \in Right
    <2> SUFFICES ASSUME NEW t \in Seq(A), Len(t) = n + 1, Without(t, separator) PROVE P(t)
      OBVIOUS
    <2>1. PICK u \in Seq(A), byte \in A : t = Append(u, byte)
      <3>1. t # << >>
        BY EmptySeq
      <3>2. QED
        BY <3>1, SequenceEmptyOrAppend
    <2>2. /\ Len(u) = n /\ byte # separator /\ Without(u, separator)
      <3>1. Len(t) = Len(u) + 1 /\ t[Len(u) + 1] = byte /\ (\A i \in 1..Len(u) : t[i] = u[i])
            /\ Len(u) \in Nat /\ DOMAIN u = 1..Len(u) /\ DOMAIN t = 1..Len(t)
        BY <2>1, AppendProperties, LenProperties
      <3>2. Len(u) = n
        <4>1. Len(t) = Len(u) + 1 /\ Len(u) \in Nat
          BY <3>1
        <4> HIDE DEF P, Right
        <4>2. QED
          BY <4>1
      <3>3. byte # separator
        <4>1. Len(u) + 1 \in DOMAIN t
          BY <3>1
        <4>2. QED
          BY <3>1, <4>1 DEF Without
      <3>4. Without(u, separator)
        <4>1. \A i \in 1..Len(u) : i \in DOMAIN t
          BY <3>1
        <4>2. QED
          BY <3>1, <4>1 DEF Without
      <3>5. QED
        BY <3>2, <3>3, <3>4
    <2>3. P(u)
      BY <1>3, <2>2
    <2>4. Split(t, separator) = Divide(Append(<< >>, u), byte, separator)
      <3>1. Split(Append(u, byte), separator) = Divide(Split(u, separator), byte, separator)
        BY SplitByte
      <3>2. Split(u, separator) = Append(<< >>, u)
        BY <1>1, <2>3
      <3>3. QED
        BY <2>1, <3>1, <3>2
    <2>5. Divide(Append(<< >>, u), byte, separator) = Append(<< >>, t)
      <3>1. PICK none \in Seq(Seq(A)) : none = << >>
        BY <1>1
      <3>2. Divide(Append(none, u), byte, separator) = Append(none, Append(u, byte))
        BY <2>2, DivideLast
      <3>3. QED
        BY <2>1, <3>1, <3>2
    <2>6. QED
      BY <1>1, <2>4, <2>5
  <1>4. \A n \in Nat : n \in Right
    <2> HIDE DEF Right
    <2>1. QED
      BY <1>2, <1>3, Induction
  <1>5. QED
    BY <1>4

\* A text is one part, or what is before its last separator and what follows it.
LEMMA WholeOrDivided ==
  ASSUME NEW A, NEW s \in Seq(A), NEW separator \in A
  PROVE  \/ Without(s, separator) /\ LastOffset(s, separator) = 0
         \/ \E u, t \in Seq(A) : /\ s = (u \o <<separator>>) \o t /\ Without(t, separator)
                                 /\ LastOffset(s, separator) = Len(u) + 1
                                 /\ Len(u) < Len(s) /\ Len(t) < Len(s)
  <1>1. LastOffset(s, separator) \in 0..Len(s) /\ Len(s) \in Nat
        /\ (LastOffset(s, separator) = 0 => Without(s, separator))
    BY LastOffsetIs
  <1>2. LastOffset(s, separator) > 0 =>
          \E u, t \in Seq(A) : /\ s = (u \o <<separator>>) \o t /\ Without(t, separator)
                              /\ LastOffset(s, separator) = Len(u) + 1
                              /\ Len(u) < Len(s) /\ Len(t) < Len(s)
    BY LastDivides
  <1>3. LastOffset(s, separator) = 0 \/ LastOffset(s, separator) > 0
    BY <1>1
  <1>4. QED
    BY <1>1, <1>2, <1>3

\* The parts of a text, joined, are the text: no byte is lost.
LEMMA JoinSplit ==
  ASSUME NEW A, NEW separator \in A
  PROVE  \A s \in Seq(A) : Join(Split(s, separator), separator) = s
  <1> DEFINE P(s) == Join(Split(s, separator), separator) = s
             Right == {n \in Nat : \A s \in Seq(A) : Len(s) = n => P(s)}
  <1>1. << >> \in Seq(Seq(A)) /\ \A t \in Seq(A) : <<t>> = Append(<< >>, t)
    OBVIOUS
  <1>2. ASSUME NEW n \in Nat, \A k \in Nat : k < n => k \in Right PROVE n \in Right
    <2> SUFFICES ASSUME NEW s \in Seq(A), Len(s) = n PROVE P(s)
      OBVIOUS
    <2>1. CASE Without(s, separator)
      <3>1. Split(s, separator) = <<s>>
        BY <2>1, SplitWhole
      <3>2. Join(<<s>>, separator) = s
        BY JoinOne
      <3>3. QED
        BY <3>1, <3>2
    <2>2. ASSUME NEW u \in Seq(A), NEW t \in Seq(A), s = (u \o <<separator>>) \o t,
                 Without(t, separator), Len(u) < Len(s)
          PROVE  P(s)
      <3>1. P(u)
        <4>1. Len(u) \in Nat /\ Len(u) < n
          BY <2>2, LenProperties
        <4>2. Len(u) \in Right
          BY <1>2, <4>1
        <4>3. QED
          BY <4>2
      <3>2. Split(s, separator) = Append(Split(u, separator), t)
        BY <2>2, SplitAfter
      <3>3. PICK parts \in Seq(Seq(A)) : parts = Split(u, separator) /\ parts # << >>
        BY SplitType
      <3>4. Join(Append(parts, t), separator) = (Join(parts, separator) \o <<separator>>) \o t
        BY <3>3, JoinMore
      <3>5. QED
        BY <2>2, <3>1, <3>2, <3>3, <3>4
    <2> HIDE DEF P
    <2>3. QED
      BY <2>1, <2>2, WholeOrDivided
  <1>3. \A n \in Nat : n \in Right
    <2> HIDE DEF Right
    <2>1. QED
      BY <1>2, Complete
  <1>4. \A s \in Seq(A) : Len(s) \in Nat
    BY LenProperties
  <1>5. QED
    BY <1>3, <1>4

\* Parts without separators are what their joined text is divided into.
LEMMA SplitJoin ==
  ASSUME NEW A, NEW separator \in A
  PROVE  \A parts \in Seq(Seq(A)) :
           parts # << >> /\ (\A i \in DOMAIN parts : Without(parts[i], separator))
             => Split(Join(parts, separator), separator) = parts
  <1> DEFINE Q(parts) == \A i \in DOMAIN parts : Without(parts[i], separator)
             P(parts) == Split(Join(parts, separator), separator) = parts
             Right == {n \in Nat : \A parts \in Seq(Seq(A)) :
                         Len(parts) = n + 1 /\ Q(parts) => P(parts)}
  <1>1. << >> \in Seq(Seq(A)) /\ \A t \in Seq(A) : <<t>> = Append(<< >>, t)
    OBVIOUS
  <1>2. ASSUME NEW parts \in Seq(Seq(A)), NEW n \in Nat, Len(parts) = n + 1, Q(parts)
        PROVE  \E front \in Seq(Seq(A)), t \in Seq(A) :
                 /\ parts = Append(front, t) /\ Len(front) = n
                 /\ Without(t, separator) /\ Q(front)
    <2>1. parts # << >>
      BY <1>2, EmptySeq
    <2>2. PICK front \in Seq(Seq(A)), t \in Seq(A) : parts = Append(front, t)
      BY <2>1, SequenceEmptyOrAppend
    <2>3. /\ Len(parts) = Len(front) + 1 /\ parts[Len(front) + 1] = t
          /\ \A i \in 1..Len(front) : parts[i] = front[i]
          /\ Len(front) \in Nat /\ DOMAIN front = 1..Len(front) /\ DOMAIN parts = 1..Len(parts)
      BY <2>2, AppendProperties, LenProperties
    <2>4. Len(front) = n
      <3>1. Len(front) + 1 = n + 1 /\ Len(front) \in Nat
        BY <1>2, <2>3
      <3> HIDE DEF Q
      <3>2. QED
        BY <3>1
    <2>5. Without(t, separator)
      <3>1. Len(front) + 1 \in DOMAIN parts
        BY <2>3
      <3>2. QED
        BY <1>2, <2>3, <3>1
    <2>6. Q(front)
      <3>1. \A i \in 1..Len(front) : i \in DOMAIN parts
        BY <2>3
      <3>2. QED
        BY <1>2, <2>3, <3>1
    <2>7. QED
      BY <2>2, <2>4, <2>5, <2>6
  <1>3. 0 \in Right
    <2> SUFFICES ASSUME NEW parts \in Seq(Seq(A)), Len(parts) = 1, Q(parts) PROVE P(parts)
      OBVIOUS
    <2>1. PICK front \in Seq(Seq(A)), t \in Seq(A) :
            parts = Append(front, t) /\ Len(front) = 0 /\ Without(t, separator)
      <3>1. Len(parts) = 0 + 1
        OBVIOUS
      <3> HIDE DEF Q
      <3>2. QED
        BY <1>2, <3>1
    <2>2. front = << >>
      BY <2>1, EmptySeq
    <2>3. parts = <<t>>
      BY <1>1, <2>1, <2>2
    <2>4. Join(<<t>>, separator) = t /\ Split(t, separator) = <<t>>
      BY <2>1, JoinOne, SplitWhole
    <2>5. QED
      BY <2>3, <2>4
  <1>4. ASSUME NEW n \in Nat, n \in Right PROVE n + 1 \in Right
    <2> SUFFICES ASSUME NEW parts \in Seq(Seq(A)), Len(parts) = (n + 1) + 1, Q(parts)
                 PROVE  P(parts)
      OBVIOUS
    <2>1. PICK front \in Seq(Seq(A)), t \in Seq(A) :
            parts = Append(front, t) /\ Len(front) = n + 1 /\ Without(t, separator) /\ Q(front)
      <3>1. n + 1 \in Nat
        OBVIOUS
      <3> HIDE DEF Q
      <3>2. QED
        BY <1>2, <3>1
    <2>2. P(front)
      BY <1>4, <2>1
    <2>3. front # << >>
      BY <2>1, EmptySeq
    <2>4. PICK s \in Seq(A) : s = Join(front, separator)
      BY JoinType
    <2>5. Join(parts, separator) = (s \o <<separator>>) \o t
      BY <2>1, <2>3, <2>4, JoinMore
    <2>6. Split((s \o <<separator>>) \o t, separator) = Append(Split(s, separator), t)
      BY <2>1, SplitAfter, ZenonT(60)
    <2>7. QED
      BY <2>1, <2>2, <2>4, <2>5, <2>6
  <1>5. \A n \in Nat : n \in Right
    <2> HIDE DEF Right
    <2>1. QED
      BY <1>3, <1>4, Induction
  <1>6. ASSUME NEW parts \in Seq(Seq(A)), parts # << >>, Q(parts) PROVE P(parts)
    <2>1. Len(parts) \in Nat /\ Len(parts) # 0
      BY <1>6, EmptySeq, LenProperties
    <2>2. Len(parts) - 1 \in Nat /\ Len(parts) = (Len(parts) - 1) + 1
      BY <2>1
    <2>3. Len(parts) - 1 \in Right
      BY <1>5, <2>2
    <2> HIDE DEF P, Q
    <2>4. QED
      BY <1>6, <2>2, <2>3 DEF Right
  <1>7. QED
    BY <1>6

-----------------------------------------------------------------------------
(* First and last elements. *)

\* What was before and behind an appended element.
LEMMA FrontOfAppend ==
  ASSUME NEW A, NEW s \in Seq(A), NEW e \in A
  PROVE  /\ S!Front(Append(s, e)) = s /\ S!Last(Append(s, e)) = e
         /\ SubSeq(Append(s, e), 1, Len(s)) = s /\ Append(s, e) # << >>
  <1>1. PICK t \in Seq(A) : t = Append(s, e)
    BY AppendProperties
  <1>2. /\ Len(t) = Len(s) + 1 /\ Len(s) \in Nat /\ t[Len(s) + 1] = e
        /\ \A i \in 1..Len(s) : t[i] = s[i]
    BY <1>1, AppendProperties, LenProperties
  <1>3. SubSeq(t, 1, Len(s)) = s
    <2>1. \A i \in 1..Len(s) : t[i] \in A
      BY <1>2, ElementOfSeq
    <2>2. /\ SubSeq(t, 1, Len(s)) \in Seq(A)
          /\ Len(SubSeq(t, 1, Len(s))) = IF 1 <= Len(s) THEN Len(s) - 1 + 1 ELSE 0
          /\ \A i \in 1..Len(s) - 1 + 1 : SubSeq(t, 1, Len(s))[i] = t[1 + i - 1]
      BY <1>2, <2>1, SubSeqProperties
    <2>3. PICK f \in Seq(A) : f = SubSeq(t, 1, Len(s))
      BY <2>2
    <2>4. Len(f) = Len(s) /\ \A i \in 1..Len(s) : f[i] = t[i]
      BY <1>2, <2>2, <2>3
    <2>5. \A i \in 1..Len(f) : f[i] = s[i]
      BY <1>2, <2>4
    <2>6. f = s
      BY <2>4, <2>5, SeqEqual
    <2>7. QED
      BY <2>3, <2>6
  <1>4. (Len(s) + 1) - 1 = Len(s)
    BY <1>2
  <1>5. t # << >>
    BY <1>2, EmptySeq
  <1>6. QED
    BY <1>1, <1>2, <1>3, <1>4, <1>5 DEF S!Front, S!Last

\* A sequence is its first element and the others.
LEMMA HeadAndTail ==
  ASSUME NEW A, NEW s \in Seq(A), s # << >>
  PROVE  /\ <<Head(s)>> \o Tail(s) = s /\ Head(s) = s[1] /\ Head(s) \in A
         /\ Tail(s) \in Seq(A) /\ Tail(s) = After(s, 1)
  <1>1. Len(s) \in Nat \ {0}
    BY EmptySeq
  <1>2. 1 \in 1..Len(s) /\ Len(s) \in 1..Len(s) /\ Head(s) = s[1]
    BY <1>1
  <1>3. SubSeq(s, 1, Len(s)) = <<s[1]>> \o SubSeq(s, 2, Len(s))
    <2>1. SubSeq(s, 1, Len(s)) = <<s[1]>> \o SubSeq(s, 1 + 1, Len(s))
      BY <1>2, SubSeqRecursiveFirst
    <2>2. QED
      BY <2>1
  <1>4. QED
    BY <1>2, <1>3, SubSeqFull, TailIsSubSeq, HeadTailProperties DEF After

\* The first element of a sequence stays the first.
LEMMA TailOfAppend ==
  ASSUME NEW A, NEW s \in Seq(A), s # << >>, NEW e \in A
  PROVE  Head(Append(s, e)) = Head(s) /\ Tail(Append(s, e)) = Append(Tail(s), e)
  <1>1. PICK h \in A, r \in Seq(A) : h = Head(s) /\ r = Tail(s) /\ s = <<h>> \o r
    BY HeadAndTail
  <1>2. <<h>> \in Seq(A) /\ <<e>> \in Seq(A) /\ r \o <<e>> \in Seq(A) /\ r \o <<e>> = Append(r, e)
    BY ConcatProperties, AppendIsConcat
  <1>3. Append(s, e) = <<h>> \o Append(r, e)
    BY <1>1, <1>2, AppendIsConcat, ConcatAssociative
  <1>4. PICK t \in Seq(A) : t = Append(s, e) /\ t # << >>
    BY AppendProperties, FrontOfAppend
  <1>5. After(<<h>> \o Append(r, e), 1) = Append(r, e)
    <2>1. PICK p \in Seq(A), q \in Seq(A) : p = <<h>> /\ q = Append(r, e) /\ Len(p) = 1
      BY <1>2
    <2>2. After(p \o q, Len(p)) = q
      BY AfterConcat
    <2>3. QED
      BY <2>1, <2>2
  <1>6. Tail(t) = Append(r, e)
    BY <1>3, <1>4, <1>5, HeadAndTail
  <1>7. Head(t) = h
    <2>1. Head(t) = t[1] /\ Head(s) = s[1]
      BY <1>4, HeadAndTail
    <2>2. 1 \in 1..Len(s)
      BY EmptySeq
    <2>3. t[1] = s[1]
      BY <1>4, <2>2, AppendProperties
    <2>4. QED
      BY <1>1, <2>1, <2>3
  <1>8. QED
    BY <1>1, <1>4, <1>6, <1>7

-----------------------------------------------------------------------------
(* Marks. *)

\* The two bytes of a mark.
LEMMA MarkType == /\ Mark \in Seq(Bytes) /\ Len(Mark) = 2
                  /\ Mark[1] = LibraryByte /\ Mark[2] = "_"
  <1>1. PICK a \in Bytes, b \in Bytes : a = LibraryByte /\ b = "_"
    BY BytesAssumption
  <1>2. <<a, b>> \in Seq(Bytes) /\ Len(<<a, b>>) = 2 /\ <<a, b>>[1] = a /\ <<a, b>>[2] = b
    OBVIOUS
  <1>3. QED
    BY <1>1, <1>2 DEF Mark

\* A prefix is followed by the rest of the text.
LEMMA PrefixIs ==
  ASSUME NEW s \in Seq(Bytes), NEW u \in Seq(Bytes)
  PROVE  S!IsPrefix(u, s) <=> \E r \in Seq(Bytes) : s = u \o r
  <1>1. Len(s) \in Nat /\ Len(u) \in Nat
    BY LenProperties
  <1>2. SubSeq(u, 1, Len(u)) = u
    BY SubSeqFull
  <1>3. ASSUME S!IsPrefix(u, s) PROVE \E r \in Seq(Bytes) : s = u \o r
    <2>1. Len(u) <= Len(s) /\ u = SubSeq(s, 1, Len(u))
      BY <1>2, <1>3 DEF S!IsPrefix
    <2>2. Len(u) \in 0..Len(s)
      BY <1>1, <2>1
    <2>3. Cut(s, Len(u)) = u
      BY <1>1, <2>1, MinOfTwo, SMTT(60) DEF Cut
    <2>4. After(s, Len(u)) \in Seq(Bytes) /\ Cut(s, Len(u)) \o After(s, Len(u)) = s
      BY <2>2, CutAfter, AfterIs
    <2>5. QED
      BY <2>3, <2>4
  <1>4. ASSUME NEW r \in Seq(Bytes), s = u \o r PROVE S!IsPrefix(u, s)
    <2>1. Len(s) = Len(u) + Len(r) /\ Len(r) \in Nat /\ Cut(s, Len(u)) = u
      BY <1>4, AfterConcat
    <2>2. Len(u) <= Len(s)
      BY <1>1, <2>1
    <2>3. SubSeq(s, 1, Len(u)) = u
      <3>1. Min({Len(u), Len(s)}) = Len(u)
        BY <1>1, <2>2, MinOfTwo, SMTT(60)
      <3>2. QED
        BY <2>1, <3>1 DEF Cut
    <2>4. QED
      BY <1>2, <2>2, <2>3 DEF S!IsPrefix
  <1>5. QED
    BY <1>3, <1>4

\* The bytes of some marks in a row.
LEMMA RepeatedIs ==
  ASSUME NEW n \in Nat
  PROVE  /\ Repeated(Mark, n) \in Seq(Bytes) /\ Len(Repeated(Mark, n)) = 2 * n
         /\ \A i \in 1..2 * n : Repeated(Mark, n)[i] \in {LibraryByte, "_"}
         /\ \A j \in 1..n : /\ Repeated(Mark, n)[2 * j - 1] = LibraryByte
                            /\ Repeated(Mark, n)[2 * j] = "_"
         /\ Repeated(Mark, 0) = << >>
         /\ Repeated(Mark, n + 1) = Mark \o Repeated(Mark, n)
  <1> DEFINE r(m) == [i \in 1..2 * m |-> Mark[IF \E j \in 1..m : i = 2 * j THEN 2 ELSE 1]]
  <1>1. \A m : Repeated(Mark, m) = r(m)
    BY DEF Repeated
  <1>2. ASSUME NEW m \in Nat
        PROVE  /\ r(m) \in Seq(Bytes) /\ Len(r(m)) = 2 * m
               /\ \A i \in 1..2 * m : r(m)[i] \in {LibraryByte, "_"}
               /\ \A j \in 1..m : r(m)[2 * j - 1] = LibraryByte /\ r(m)[2 * j] = "_"
    <2>1. 2 * m \in Nat
      OBVIOUS
    <2>2. \A i \in 1..2 * m : r(m)[i] \in {LibraryByte, "_"} /\ r(m)[i] \in Bytes
      BY MarkType, BytesAssumption
    <2>3. r(m) \in [1..2 * m -> Bytes]
      BY <2>2
    <2>4. r(m) \in Seq(Bytes)
      BY <2>1, <2>3
    <2>5. Len(r(m)) = 2 * m
      BY <2>1, <2>3
    <2>6. ASSUME NEW j \in 1..m
          PROVE  r(m)[2 * j - 1] = LibraryByte /\ r(m)[2 * j] = "_"
      <3>1. 2 * j - 1 \in 1..2 * m /\ 2 * j \in 1..2 * m /\ \A k \in 1..m : 2 * j - 1 # 2 * k
        OBVIOUS
      <3>2. QED
        BY <3>1, MarkType
    <2>7. QED
      BY <2>2, <2>4, <2>5, <2>6
  <1>3. r(0) = << >>
    <2>1. r(0) \in Seq(Bytes) /\ Len(r(0)) = 2 * 0
      BY <1>2
    <2> HIDE DEF r
    <2>2. QED
      BY <2>1, EmptySeq
  <1>4. r(n + 1) = Mark \o r(n)
    <2>1. n + 1 \in Nat
      OBVIOUS
    <2>2. PICK a \in Seq(Bytes), b \in Seq(Bytes) :
            a = r(n + 1) /\ b = r(n) /\ Len(a) = 2 * n + 2 /\ Len(b) = 2 * n
      <3>1. r(n + 1) \in Seq(Bytes) /\ Len(r(n + 1)) = 2 * (n + 1)
        BY <1>2, <2>1
      <3>2. r(n) \in Seq(Bytes) /\ Len(r(n)) = 2 * n
        BY <1>2
      <3> HIDE DEF r
      <3>3. QED
        BY <3>1, <3>2
    <2>3. /\ Mark \o b \in Seq(Bytes) /\ Len(Mark \o b) = 2 * n + 2
          /\ \A i \in 1..2 * n + 2 : (Mark \o b)[i] = IF i <= 2 THEN Mark[i] ELSE b[i - 2]
      <3>1. /\ Mark \o b \in Seq(Bytes) /\ Len(Mark \o b) = 2 + Len(b)
            /\ \A i \in 1..2 + Len(b) : (Mark \o b)[i] = IF i <= 2 THEN Mark[i] ELSE b[i - 2]
        <4>1. PICK mark \in Seq(Bytes) : mark = Mark /\ Len(mark) = 2
          BY MarkType
        <4> HIDE DEF r
        <4>2. /\ mark \o b \in Seq(Bytes) /\ Len(mark \o b) = Len(mark) + Len(b)
              /\ \A i \in 1..Len(mark) + Len(b) :
                   (mark \o b)[i] = IF i <= Len(mark) THEN mark[i] ELSE b[i - Len(mark)]
          BY ConcatProperties
        <4>3. QED
          BY <4>1, <4>2
      <3>2. 2 + 2 * n = 2 * n + 2
        OBVIOUS
      <3> HIDE DEF r
      <3>3. QED
        BY <2>2, <3>1, <3>2
    <2>4. ASSUME NEW i \in 1..2 * n + 2 PROVE a[i] = (Mark \o b)[i]
      <3>1. a[i] = Mark[IF \E j \in 1..n + 1 : i = 2 * j THEN 2 ELSE 1]
        <4>1. i \in 1..2 * (n + 1)
          OBVIOUS
        <4>2. QED
          BY <2>2, <4>1
      <3>2. CASE i <= 2
        <4>1. i = 1 \/ i = 2
          BY <3>2
        <4>2. i = 2 => \E j \in 1..n + 1 : i = 2 * j
          <5>1. 1 \in 1..n + 1 /\ 2 = 2 * 1
            OBVIOUS
          <5>2. QED
            BY <5>1
        <4>3. i = 1 => ~\E j \in 1..n + 1 : i = 2 * j
          OBVIOUS
        <4>4. a[i] = Mark[i]
          BY <3>1, <4>1, <4>2, <4>3
        <4> HIDE DEF r
        <4>5. QED
          BY <2>3, <3>2, <4>4
      <3>3. CASE ~(i <= 2)
        <4>1. i - 2 \in 1..2 * n
          BY <3>3
        <4>2. b[i - 2] = Mark[IF \E j \in 1..n : i - 2 = 2 * j THEN 2 ELSE 1]
          BY <2>2, <4>1
        <4>3. (\E j \in 1..n : i - 2 = 2 * j) <=> \E j \in 1..n + 1 : i = 2 * j
          <5>1. \A j \in 1..n : j + 1 \in 1..n + 1 /\ 2 * (j + 1) = 2 * j + 2
            OBVIOUS
          <5>2. ASSUME NEW j \in 1..n, i - 2 = 2 * j PROVE \E k \in 1..n + 1 : i = 2 * k
            <6>1. i = 2 * (j + 1)
              BY <5>2
            <6>2. QED
              BY <5>1, <6>1
          <5>3. ASSUME NEW j \in 1..n + 1, i = 2 * j PROVE \E k \in 1..n : i - 2 = 2 * k
            <6>1. j - 1 \in 1..n /\ i - 2 = 2 * (j - 1)
              BY <3>3, <5>3
            <6>2. QED
              BY <6>1
          <5>4. QED
            BY <5>2, <5>3
        <4>4. QED
          BY <2>3, <3>1, <3>3, <4>2, <4>3
      <3>4. QED
        BY <3>2, <3>3
    <2>5. a = Mark \o b
      <3> HIDE DEF r
      <3>1. QED
        BY <2>2, <2>3, <2>4, SeqEqual
    <2>6. QED
      BY <2>2, <2>5
  <1>5. QED
    <2> HIDE DEF r
    <2>1. QED
      BY <1>1, <1>2, <1>3, <1>4

\* The places of two bytes.
LEMMA OneOrTwo == \A j \in 1..2 : j = 1 \/ j = 2
  OBVIOUS

\* A mark at a place, byte by byte.
LEMMA PairIs ==
  ASSUME NEW b \in Seq(Bytes), NEW i \in Nat, i > 0, 2 * i <= Len(b)
  PROVE  SubSeq(b, 2 * i - 1, 2 * i) = Mark <=> b[2 * i - 1] = LibraryByte /\ b[2 * i] = "_"
  <1> DEFINE k == 2 * i - 1
             l == 2 * i
  <1>1. /\ k \in Int /\ l \in Int /\ k <= l /\ l - k + 1 = 2 /\ k + 1 - 1 = k /\ k + 2 - 1 = l
        /\ k \in 1..Len(b) /\ l \in 1..Len(b) /\ \A j \in k..l : j \in 1..Len(b)
    BY LenProperties
  <1> HIDE DEF k, l
  <1>2. \A j \in k..l : b[j] \in Bytes
    BY <1>1, ElementOfSeq
  <1>3. PICK p : p = SubSeq(b, k, l)
    OBVIOUS
  <1>4. /\ p \in Seq(Bytes) /\ Len(p) = 2
        /\ \A j \in 1..2 : p[j] = b[k + j - 1]
    <2>1. /\ SubSeq(b, k, l) \in Seq(Bytes)
          /\ Len(SubSeq(b, k, l)) = IF k <= l THEN l - k + 1 ELSE 0
          /\ \A j \in 1..l - k + 1 : SubSeq(b, k, l)[j] = b[k + j - 1]
      BY <1>1, <1>2, SubSeqProperties
    <2>2. QED
      BY <1>1, <1>3, <2>1
  <1>5. p[1] = b[k] /\ p[2] = b[l]
    BY <1>1, <1>4
  <1>6. (p[1] = LibraryByte /\ p[2] = "_") => p = Mark
    <2> SUFFICES ASSUME p[1] = LibraryByte, p[2] = "_" PROVE p = Mark
      OBVIOUS
    <2>1. \A j \in 1..2 : p[j] = Mark[j]
      <3>1. \A j \in 1..2 : j = 1 \/ j = 2
        BY OneOrTwo
      <3>2. QED
        BY <3>1, MarkType
    <2>2. QED
      BY <1>4, <2>1, MarkType, SeqEqual
  <1>7. QED
    BY <1>3, <1>5, <1>6, MarkType DEF k, l

\* A base name is its marks and a rest that begins with none.
MarksThenRest(b, m, rest) ==
  /\ Marks(b) = m /\ 2 * m \in 0..Len(b) /\ After(b, 2 * m) = rest
  /\ b = Repeated(Mark, m) \o rest
  /\ Unmarked(b) = Repeated(Mark, IF m > 0 THEN m - 1 ELSE 0) \o rest

\* A base name is its marks and a rest, and one mark less is left of it
\* (strings.c:36-41).
LEMMA MarksAre ==
  ASSUME NEW b \in Seq(Bytes)
  PROVE  \E m \in Nat, rest \in Seq(Bytes) : MarksThenRest(b, m, rest)
  <1> DEFINE O == {n \in 0..Len(b) : /\ 2 * n <= Len(b)
                                     /\ \A i \in 1..n : SubSeq(b, 2 * i - 1, 2 * i) = Mark}
  <1>1. Len(b) \in Nat
    BY LenProperties
  <1>2. 0 \in O /\ O \subseteq Nat /\ O # {} /\ \A n \in O : n <= Len(b)
    <2>1. 0 \in O
      BY <1>1
    <2>2. \A n \in O : n \in Nat /\ n <= Len(b)
      BY <1>1
    <2> HIDE DEF O
    <2>3. QED
      BY <2>1, <2>2
  <1>3. PICK m \in O : Marks(b) = m /\ \A n \in O : n <= m
    <2>1. Marks(b) = Max(O)
      BY DEF Marks
    <2> HIDE DEF O
    <2>2. QED
      BY <1>1, <1>2, <2>1, MaxIs
  <1>4. m \in Nat /\ 2 * m \in 0..Len(b) /\ 2 * m \in Nat
    BY <1>1
  <1>5. Cut(b, 2 * m) = Repeated(Mark, m)
    <2>1. /\ Repeated(Mark, m) \in Seq(Bytes) /\ Len(Repeated(Mark, m)) = 2 * m
          /\ \A j \in 1..m : /\ Repeated(Mark, m)[2 * j - 1] = LibraryByte
                             /\ Repeated(Mark, m)[2 * j] = "_"
      BY <1>4, RepeatedIs
    <2>2. /\ Cut(b, 2 * m) \in Seq(Bytes) /\ Len(Cut(b, 2 * m)) = 2 * m
          /\ \A i \in 1..2 * m : Cut(b, 2 * m)[i] = b[i]
      <3>1. 2 * m <= Len(b)
        BY <1>4
      <3>2. QED
        BY <1>4, <3>1, CutIs
    <2>3. ASSUME NEW i \in 1..2 * m PROVE b[i] = Repeated(Mark, m)[i]
      <3>1. PICK j \in 1..m : i = 2 * j - 1 \/ i = 2 * j
        <4>1. (i + 1) \div 2 \in 1..m
              /\ (i = 2 * ((i + 1) \div 2) - 1 \/ i = 2 * ((i + 1) \div 2))
          BY <1>4
        <4>2. QED
          BY <4>1
      <3>2. j \in Nat /\ j > 0 /\ 2 * j <= Len(b) /\ SubSeq(b, 2 * j - 1, 2 * j) = Mark
        BY <1>1, <1>4
      <3>3. b[2 * j - 1] = LibraryByte /\ b[2 * j] = "_"
        BY <3>2, PairIs
      <3>4. Repeated(Mark, m)[2 * j - 1] = LibraryByte /\ Repeated(Mark, m)[2 * j] = "_"
        BY <2>1
      <3>5. QED
        BY <3>1, <3>3, <3>4
    <2>4. PICK c \in Seq(Bytes), r \in Seq(Bytes) : c = Cut(b, 2 * m) /\ r = Repeated(Mark, m)
      BY <2>1, <2>2
    <2>5. Len(c) = Len(r) /\ \A i \in 1..Len(c) : c[i] = r[i]
      BY <2>1, <2>2, <2>3, <2>4
    <2>6. c = r
      BY <2>5, SeqEqual
    <2>7. QED
      BY <2>4, <2>6
  <1>6. PICK rest \in Seq(Bytes) : rest = After(b, 2 * m)
    BY <1>4, AfterIs
  <1>7. b = Repeated(Mark, m) \o rest
    BY <1>4, <1>5, <1>6, CutAfter
  <1>8. ~S!IsPrefix(Mark, rest)
    <2> SUFFICES ASSUME S!IsPrefix(Mark, rest) PROVE FALSE
      OBVIOUS
    <2>1. PICK r \in Seq(Bytes) : rest = Mark \o r
      BY PrefixIs, MarkType
    <2>2. /\ Len(rest) = 2 + Len(r) /\ Len(r) \in Nat
          /\ rest[1] = LibraryByte /\ rest[2] = "_"
      <3>1. PICK mark \in Seq(Bytes) : mark = Mark /\ Len(mark) = 2
        BY MarkType
      <3>2. /\ Len(mark \o r) = Len(mark) + Len(r) /\ Len(r) \in Nat
            /\ \A i \in 1..Len(mark) + Len(r) :
                 (mark \o r)[i] = IF i <= Len(mark) THEN mark[i] ELSE r[i - Len(mark)]
        BY ConcatProperties, LenProperties
      <3>3. Len(rest) = 2 + Len(r) /\ rest[1] = mark[1] /\ rest[2] = mark[2]
        <4>1. 1 \in 1..Len(mark) + Len(r) /\ 2 \in 1..Len(mark) + Len(r)
          BY <3>1, <3>2
        <4>2. QED
          BY <2>1, <3>1, <3>2, <4>1
      <3>4. QED
        BY <3>1, <3>2, <3>3, MarkType
    <2>3. /\ Len(rest) = Len(b) - 2 * m
          /\ \A i \in 1..Len(b) - 2 * m : rest[i] = b[2 * m + i]
      BY <1>4, <1>6, AfterIs
    <2>4. 2 * (m + 1) <= Len(b) /\ m + 1 \in 0..Len(b) /\ m + 1 > 0
          /\ 1 \in 1..Len(b) - 2 * m /\ 2 \in 1..Len(b) - 2 * m
      <3>1. PICK l \in Nat, k \in Nat : l = Len(b) /\ k = Len(r) /\ l - 2 * m = 2 + k
        BY <1>1, <2>2, <2>3
      <3> HIDE DEF O
      <3>2. m \in Nat
        BY <1>4
      <3>3. QED
        BY <3>1, <3>2
    <2>5. b[2 * m + 1] = LibraryByte /\ b[2 * m + 2] = "_"
      BY <2>2, <2>3, <2>4
    <2>6. 2 * m + 1 = 2 * (m + 1) - 1 /\ 2 * m + 2 = 2 * (m + 1) /\ m + 1 \in Nat
      BY <1>4
    <2>7. SubSeq(b, 2 * (m + 1) - 1, 2 * (m + 1)) = Mark
      BY <2>4, <2>5, <2>6, PairIs
    <2>8. m + 1 \in O
      <3>1. \A i \in 1..m + 1 : i \in 1..m \/ i = m + 1
        BY <1>4
      <3>2. QED
        BY <2>4, <2>7, <3>1
    <2>9. m + 1 <= m
      BY <1>3, <2>8
    <2>10. QED
      BY <1>4, <2>9
  <1>9. Unmarked(b) = Repeated(Mark, IF m > 0 THEN m - 1 ELSE 0) \o rest
    <2>1. CASE m = 0
      <3>1. Repeated(Mark, 0) = << >> /\ << >> \o rest = rest
        BY RepeatedIs, ConcatEmptySeq
      <3>2. b = rest
        BY <1>7, <2>1, <3>1
      <3>3. QED
        BY <1>8, <2>1, <3>1, <3>2 DEF Unmarked
    <2>2. CASE m > 0
      <3>1. m - 1 \in Nat /\ (m - 1) + 1 = m
        BY <1>4, <2>2
      <3>2. PICK r \in Seq(Bytes) : r = Repeated(Mark, m - 1) /\ Repeated(Mark, m) = Mark \o r
        BY <3>1, RepeatedIs
      <3>3. b = Mark \o (r \o rest) /\ r \o rest \in Seq(Bytes)
        <4>1. PICK mark \in Seq(Bytes) : mark = Mark
          BY MarkType
        <4>2. (mark \o r) \o rest = mark \o (r \o rest) /\ r \o rest \in Seq(Bytes)
          BY ConcatAssociative, ConcatProperties, SMTT(60)
        <4>3. QED
          BY <1>7, <3>2, <4>1, <4>2
      <3>4. S!IsPrefix(Mark, b)
        BY <3>3, PrefixIs, MarkType
      <3>5. After(b, Len(Mark)) = r \o rest
        BY <3>3, MarkType, AfterConcat
      <3>6. QED
        BY <2>2, <3>2, <3>4, <3>5 DEF Unmarked
    <2>3. QED
      BY <1>4, <2>1, <2>2
  <1>10. QED
    BY <1>3, <1>4, <1>6, <1>7, <1>9 DEF MarksThenRest

-----------------------------------------------------------------------------
(* Base names. *)

\* What PathOf takes a base name apart into.
BaseOf(b) ==
  LET names == Split(After(b, 2 * Marks(b)), ".")
  IN [marks |-> Marks(b), stem |-> Head(names), suffixes |-> Tail(names)]

\* A base name without one mark and without its last suffix.
Suffixless(b) ==
  LET dot == LastOffset(Unmarked(b), ".")
  IN IF dot = 0 THEN Unmarked(b) ELSE Cut(Unmarked(b), dot - 1)

\* The bytes the code compares with, and that they differ.
LEMMA BytesHere == "." \in Bytes /\ "/" \in Bytes /\ "_" \in Bytes /\ LibraryByte \in Bytes
                   /\ LibraryByte # "." /\ LibraryByte # "/" /\ LibraryByte # "@"
  BY BytesAssumption

\* A single byte is a text.
LEMMA OneByte ==
  ASSUME NEW A, NEW byte \in A
  PROVE  <<byte>> \in Seq(A)
  OBVIOUS

Groups(r, u, d) == r \o (u \o d) = (r \o u) \o d

\* It does not matter which two of three pieces are put together first.
LEMMA Grouping ==
  ASSUME NEW A, NEW r \in Seq(A), NEW u \in Seq(A), NEW d \in Seq(A)
  PROVE  Groups(r, u, d)
  BY ConcatAssociative DEF Groups

\* The record of a base name without one mark and without its last suffix.
LEMMA FewerMarks ==
  ASSUME NEW m, NEW h, NEW l
  PROVE  N!BasenameNoSuffix([marks |-> m, stem |-> h, suffixes |-> l])
           = [marks |-> IF m > 0 THEN m - 1 ELSE 0, stem |-> h,
              suffixes |-> IF l = << >> THEN l ELSE SubSeq(l, 1, Len(l) - 1)]
  <1> DEFINE base == [marks |-> m, stem |-> h, suffixes |-> l]
  <1>1. N!BasenameNoSuffix(base)
          = [base EXCEPT !.marks = IF base.marks > 0 THEN base.marks - 1 ELSE 0,
                         !.suffixes = IF base.suffixes = << >> THEN base.suffixes
                                      ELSE SubSeq(base.suffixes, 1, Len(base.suffixes) - 1)]
    BY DEF N!BasenameNoSuffix
  <1>2. base.marks = m /\ base.suffixes = l
    OBVIOUS
  <1>3. PICK fewer, left : /\ fewer = IF m > 0 THEN m - 1 ELSE 0
                           /\ left = IF l = << >> THEN l ELSE SubSeq(l, 1, Len(l) - 1)
    OBVIOUS
  <1>4. [base EXCEPT !.marks = fewer, !.suffixes = left]
          = [marks |-> fewer, stem |-> h, suffixes |-> left]
    <2>1. PICK one : one = [base EXCEPT !.marks = fewer]
      OBVIOUS
    <2>2. one = [marks |-> fewer, stem |-> h, suffixes |-> l]
      BY <2>1
    <2>3. [one EXCEPT !.suffixes = left] = [marks |-> fewer, stem |-> h, suffixes |-> left]
      BY <2>2
    <2>4. QED
      BY <2>1, <2>3
  <1>5. N!BasenameNoSuffix(base) = [base EXCEPT !.marks = fewer, !.suffixes = left]
    <2> HIDE DEF base
    <2>1. QED
      BY <1>1, <1>2, <1>3
  <1>6. QED
    BY <1>3, <1>4, <1>5

\* A buffer holds at least the final NUL.
LEMMA MaxNameType == MaxName \in Nat \ {0}
  BY BytesAssumption

\* The names behind the marks, for a rest with and without a dot.
Named(b, m, rest, names) ==
  /\ names \in Seq(Seq(Bytes)) /\ names # << >>
  /\ BaseOf(b) = [marks |-> m, stem |-> Head(names), suffixes |-> Tail(names)]
  /\ Head(names) \in Seq(Bytes) /\ Tail(names) \in Seq(Seq(Bytes))
  /\ <<Head(names)>> \o Tail(names) = names
  /\ Join(names, ".") = rest

\* The stem and the suffixes of a base name are what is between its dots.
LEMMA NamesOf ==
  ASSUME NEW b \in Seq(Bytes), NEW m \in Nat, NEW rest \in Seq(Bytes), MarksThenRest(b, m, rest),
         NEW names, names = Split(rest, ".")
  PROVE  Named(b, m, rest, names)
  <1>1. names \in Seq(Seq(Bytes)) /\ names # << >>
    BY SplitType, BytesHere
  <1>2. BaseOf(b) = [marks |-> m, stem |-> Head(names), suffixes |-> Tail(names)]
    BY DEF BaseOf, MarksThenRest
  <1>3. Join(names, ".") = rest
    BY BytesHere, JoinSplit
  <1>4. Head(names) \in Seq(Bytes) /\ Tail(names) \in Seq(Seq(Bytes))
        /\ <<Head(names)>> \o Tail(names) = names
    BY <1>1, HeadAndTail
  <1>5. QED
    BY <1>1, <1>2, <1>3, <1>4 DEF Named

\* A base name, taken apart and spelled again, is the same.
LEMMA BaseSpelled ==
  ASSUME NEW b \in Seq(Bytes)
  PROVE  SpelledBase(BaseOf(b)) = b
  <1>1. PICK m \in Nat, rest \in Seq(Bytes) : MarksThenRest(b, m, rest)
    BY MarksAre
  <1>2. PICK names : names = Split(rest, ".")
    OBVIOUS
  <1>3. /\ BaseOf(b).marks = m
        /\ <<BaseOf(b).stem>> \o BaseOf(b).suffixes = names /\ Join(names, ".") = rest
    <2>1. Named(b, m, rest, names)
      BY <1>1, <1>2, NamesOf
    <2>2. /\ BaseOf(b) = [marks |-> m, stem |-> Head(names), suffixes |-> Tail(names)]
          /\ <<Head(names)>> \o Tail(names) = names /\ Join(names, ".") = rest
      BY <2>1 DEF Named
    <2>3. QED
      BY <2>1, <2>2
  <1>4. QED
    BY <1>1, <1>3 DEF SpelledBase, MarksThenRest

\* The base name without its suffix and a mark is what Names says of it.
LEMMA BaseWithoutSuffix ==
  ASSUME NEW b \in Seq(Bytes)
  PROVE  /\ SpelledBase(N!BasenameNoSuffix(BaseOf(b))) = Suffixless(b)
         /\ Unmarked(b) \in Seq(Bytes) /\ Suffixless(b) \in Seq(Bytes)
  <1>1. PICK m \in Nat, rest \in Seq(Bytes) : MarksThenRest(b, m, rest)
    BY MarksAre
  <1>2. PICK names : names = Split(rest, ".")
    OBVIOUS
  <1> DEFINE fewer == IF m > 0 THEN m - 1 ELSE 0
             left == IF Tail(names) = << >> THEN Tail(names)
                     ELSE SubSeq(Tail(names), 1, Len(Tail(names)) - 1)
  <1>3. PICK r \in Seq(Bytes) :
          /\ r = Repeated(Mark, fewer) /\ Without(r, ".")
          /\ Unmarked(b) = r \o rest
    <2>1. fewer \in Nat
      OBVIOUS
    <2>2. Unmarked(b) = Repeated(Mark, fewer) \o rest
      BY <1>1 DEF MarksThenRest
    <2> HIDE DEF fewer
    <2>3. /\ Repeated(Mark, fewer) \in Seq(Bytes) /\ Len(Repeated(Mark, fewer)) = 2 * fewer
          /\ \A i \in 1..2 * fewer : Repeated(Mark, fewer)[i] \in {LibraryByte, "_"}
      BY <2>1, RepeatedIs
    <2>4. DOMAIN Repeated(Mark, fewer) = 1..2 * fewer
      BY <2>3, LenProperties
    <2>5. Without(Repeated(Mark, fewer), ".")
      BY <2>3, <2>4, BytesHere DEF Without
    <2>6. QED
      BY <2>2, <2>3, <2>5
  <1>4. /\ names \in Seq(Seq(Bytes)) /\ names # << >> /\ Head(names) \in Seq(Bytes)
        /\ BaseOf(b) = [marks |-> m, stem |-> Head(names), suffixes |-> Tail(names)]
    <2>1. Named(b, m, rest, names)
      BY <1>1, <1>2, NamesOf
    <2>2. QED
      BY <2>1 DEF Named
  <1>5. SpelledBase(N!BasenameNoSuffix(BaseOf(b))) = r \o Join(<<Head(names)>> \o left, ".")
    <2>1. N!BasenameNoSuffix(BaseOf(b)) = [marks |-> fewer, stem |-> Head(names), suffixes |-> left]
      <3>1. PICK h, l : h = Head(names) /\ l = Tail(names)
        OBVIOUS
      <3>2. BaseOf(b) = [marks |-> m, stem |-> h, suffixes |-> l]
        BY <1>4, <3>1
      <3>3. N!BasenameNoSuffix([marks |-> m, stem |-> h, suffixes |-> l])
              = [marks |-> IF m > 0 THEN m - 1 ELSE 0, stem |-> h,
                 suffixes |-> IF l = << >> THEN l ELSE SubSeq(l, 1, Len(l) - 1)]
        BY FewerMarks
      <3>4. QED
        BY <3>1, <3>2, <3>3
    <2> HIDE DEF fewer, left
    <2>2. QED
      BY <1>3, <2>1 DEF SpelledBase
  <1>6. r \o rest \in Seq(Bytes)
    BY ConcatProperties
  <1>7. CASE Without(rest, ".")
    <2>1. names = <<rest>>
      BY <1>2, <1>7, BytesHere, SplitWhole
    <2>2. Head(names) = rest /\ Tail(names) = << >> /\ left = << >>
      BY <2>1
    <2>3. <<Head(names)>> \o left = Append(<< >>, rest) /\ << >> \in Seq(Seq(Bytes))
      <3> HIDE DEF left
      <3>1. <<rest>> \in Seq(Seq(Bytes)) /\ << >> \in Seq(Seq(Bytes)) /\ <<rest>> = Append(<< >>, rest)
        OBVIOUS
      <3>2. <<rest>> \o << >> = <<rest>>
        BY <3>1, ConcatEmptySeq
      <3>3. QED
        BY <2>2, <3>1, <3>2
    <2>4. Join(Append(<< >>, rest), ".") = rest
      <3>1. Join(<<rest>>, ".") = rest
        BY BytesHere, JoinOne
      <3>2. Append(<< >>, rest) = <<rest>>
        OBVIOUS
      <3>3. QED
        BY <3>1, <3>2
    <2>5. LastOffset(r \o rest, ".") = 0
      <3>1. PICK w \in Seq(Bytes) : w = r \o rest
        BY <1>6
      <3>2. Without(w, ".")
        <4>1. /\ DOMAIN w = 1..Len(r) + Len(rest) /\ Len(r) \in Nat /\ Len(rest) \in Nat
              /\ DOMAIN r = 1..Len(r) /\ DOMAIN rest = 1..Len(rest)
              /\ \A i \in 1..Len(r) + Len(rest) : w[i] = IF i <= Len(r) THEN r[i] ELSE rest[i - Len(r)]
          BY <3>1, ConcatProperties, LenProperties
        <4>2. ASSUME NEW i \in 1..Len(r) + Len(rest) PROVE w[i] # "."
          <5>1. i <= Len(r) => i \in DOMAIN r
            BY <4>1
          <5>2. ~(i <= Len(r)) => i - Len(r) \in DOMAIN rest
            BY <4>1
          <5>3. QED
            BY <1>3, <1>7, <4>1, <5>1, <5>2 DEF Without
        <4>3. QED
          BY <4>1, <4>2 DEF Without
      <3>3. LastOffset(w, ".") = 0
        <4>1. /\ LastOffset(w, ".") \in 0..Len(w)
              /\ LastOffset(w, ".") > 0 => w[LastOffset(w, ".")] = "."
          BY LastOffsetIs
        <4>2. DOMAIN w = 1..Len(w) /\ Len(w) \in Nat
          BY LenProperties
        <4>3. QED
          BY <3>2, <4>1, <4>2 DEF Without
      <3>4. QED
        BY <3>1, <3>3
    <2>6. Suffixless(b) = r \o rest
      BY <1>3, <2>5 DEF Suffixless
    <2> HIDE DEF left
    <2>7. QED
      BY <1>3, <1>5, <1>6, <2>3, <2>4, <2>6
  <1>8. ASSUME NEW u \in Seq(Bytes), NEW t \in Seq(Bytes), rest = (u \o <<".">>) \o t, Without(t, ".")
        PROVE  /\ SpelledBase(N!BasenameNoSuffix(BaseOf(b))) = Suffixless(b)
               /\ Unmarked(b) \in Seq(Bytes) /\ Suffixless(b) \in Seq(Bytes)
    <2>1. PICK parts \in Seq(Seq(Bytes)) : parts = Split(u, ".") /\ parts # << >>
      BY SplitType, BytesHere
    <2>2. names = Append(parts, t)
      <3>1. Split((u \o <<".">>) \o t, ".") = Append(Split(u, "."), t)
        BY <1>8, BytesHere, SplitAfter, ZenonT(60)
      <3>2. QED
        BY <1>2, <1>8, <2>1, <3>1
    <2>3. Head(names) = Head(parts) /\ Tail(names) = Append(Tail(parts), t)
      BY <2>1, <2>2, TailOfAppend
    <2>4. Tail(parts) \in Seq(Seq(Bytes)) /\ <<Head(parts)>> \o Tail(parts) = parts
      BY <2>1, HeadAndTail
    <2>5. left = Tail(parts)
      <3>1. PICK p \in Seq(Seq(Bytes)) : p = Tail(parts)
        BY <2>4
      <3>2. SubSeq(Append(p, t), 1, Len(p)) = p /\ Append(p, t) # << >>
        BY FrontOfAppend
      <3>3. Len(Append(p, t)) - 1 = Len(p)
        BY AppendProperties, LenProperties
      <3>4. QED
        BY <2>3, <3>1, <3>2, <3>3
    <2>6. Join(parts, ".") = u
      BY <2>1, BytesHere, JoinSplit
    <2>7. SpelledBase(N!BasenameNoSuffix(BaseOf(b))) = r \o u
      <3> HIDE DEF left
      <3>1. QED
        BY <1>5, <2>3, <2>4, <2>5, <2>6
    <2>8. PICK w \in Seq(Bytes) : w = r \o u
      BY ConcatProperties
    <2>9. r \o rest = (w \o <<".">>) \o t
      <3>1. PICK dot \in Seq(Bytes) : dot = <<".">>
        BY BytesHere, OneByte
      <3> HIDE DEF left, fewer
      <3>2. Groups(r, u \o dot, t) /\ Groups(r, u, dot)
        <4>1. u \o dot \in Seq(Bytes)
          BY <3>1, ConcatProperties
        <4>2. QED
          BY <4>1, Grouping
      <3>3. QED
        BY <1>8, <2>8, <3>1, <3>2 DEF Groups
    <2>10. /\ LastOffset((w \o <<".">>) \o t, ".") = Len(w) + 1 /\ Len(w) \in Nat
           /\ Cut((w \o <<".">>) \o t, Len(w)) = w
      <3>1. PICK dot \in Bytes : dot = "."
        BY BytesHere
      <3>2. /\ LastOffset((w \o <<dot>>) \o t, dot) = Len(w) + 1 /\ Len(w) \in Nat
            /\ Cut((w \o <<dot>>) \o t, Len(w)) = w
        BY <1>8, <3>1, LastOffsetAt, SMTT(60)
      <3>3. QED
        BY <3>1, <3>2
    <2>11. Suffixless(b) = w
      <3>1. Len(w) + 1 # 0 /\ (Len(w) + 1) - 1 = Len(w)
        BY <2>10
      <3>2. QED
        BY <1>3, <2>9, <2>10, <3>1 DEF Suffixless
    <2>12. QED
      BY <1>3, <1>6, <2>7, <2>8, <2>11
  <1>9. Without(rest, ".") \/ \E u, t \in Seq(Bytes) : rest = (u \o <<".">>) \o t /\ Without(t, ".")
    BY BytesHere, WholeOrDivided, ZenonT(60)
  <1>10. QED
    BY <1>7, <1>8, <1>9

\* What the buffer takes of the base name of a path.
LEMMA SuffixlessCut ==
  ASSUME NEW s \in Seq(Bytes), PathBasename(s) \in Seq(Bytes), NEW size \in Nat \ {0}
  PROVE  BasenameNoSuffix(size, s) = Cut(Suffixless(PathBasename(s)), size - 1)
  <1>1. PICK b \in Seq(Bytes) : b = PathBasename(s)
    OBVIOUS
  <1>2. PICK u \in Seq(Bytes) : u = Unmarked(b)
    BY BaseWithoutSuffix
  <1>3. PICK dot : dot = LastOffset(u, ".")
    OBVIOUS
  <1>4. dot \in 0..Len(u) /\ Len(u) \in Nat /\ dot \in Nat
    BY <1>3, LastOffsetIs
  <1>5. BasenameNoSuffix(size, s) = Cut(u, Min({size, IF dot = 0 THEN Len(u) + 1 ELSE dot}) - 1)
    BY <1>1, <1>2, <1>3 DEF BasenameNoSuffix
  <1>6. CASE dot = 0
    <2>1. Suffixless(b) = u
      BY <1>2, <1>3, <1>6 DEF Suffixless
    <2>2. BasenameNoSuffix(size, s) = Cut(u, (IF size <= Len(u) + 1 THEN size ELSE Len(u) + 1) - 1)
      BY <1>4, <1>5, <1>6, MinOfTwo
    <2>3. CASE size <= Len(u) + 1
      BY <1>1, <2>1, <2>2, <2>3
    <2>4. CASE ~(size <= Len(u) + 1)
      <3>1. Len(u) + 1 - 1 = Len(u) /\ size - 1 \in Nat /\ Len(u) <= size - 1
        BY <1>4, <2>4
      <3>2. Cut(u, Len(u)) = u /\ Cut(u, size - 1) = u
        BY <1>4, <3>1, CutWhole
      <3>3. QED
        BY <1>1, <2>1, <2>2, <2>4, <3>1, <3>2
    <2>5. QED
      BY <2>3, <2>4
  <1>7. CASE dot # 0
    <2>1. Suffixless(b) = Cut(u, dot - 1)
      BY <1>2, <1>3, <1>7 DEF Suffixless
    <2>2. Min({size, dot}) = IF size <= dot THEN size ELSE dot
      BY <1>4, MinOfTwo
    <2>3. dot - 1 \in Nat /\ size - 1 \in Nat
          /\ Min({size, dot}) - 1 = IF dot - 1 <= size - 1 THEN dot - 1 ELSE size - 1
      BY <1>4, <1>7, <2>2
    <2>4. Cut(Cut(u, dot - 1), size - 1) = Cut(u, IF dot - 1 <= size - 1 THEN dot - 1 ELSE size - 1)
      BY <2>3, CutTwice
    <2>5. QED
      BY <1>1, <1>5, <1>7, <2>1, <2>3, <2>4
  <1>8. QED
    BY <1>6, <1>7

-----------------------------------------------------------------------------
(* Paths: what is before the base name, and the base name. *)

PathPrefix(s) == Cut(s, LastOffset(s, "/"))

\* A path is what ends in its last slash and its base name.
LEMMA PathParts ==
  ASSUME NEW s \in Seq(Bytes)
  PROVE  /\ PathPrefix(s) \in Seq(Bytes) /\ PathBasename(s) \in Seq(Bytes)
         /\ s = PathPrefix(s) \o PathBasename(s)
         /\ LastOffset(s, "/") = Len(PathPrefix(s)) /\ Len(PathPrefix(s)) \in Nat
         /\ PathBasename(PathBasename(s)) = PathBasename(s)
         /\ Without(PathBasename(s), "/")
         /\ PathOf(s) = [dirs |-> PathOf(s).dirs, base |-> BaseOf(PathBasename(s))]
         /\ PathOf(s).dirs \in Seq(Seq(Bytes))
         /\ Parts(s) = Append(PathOf(s).dirs, PathBasename(s))
         /\ \A x \in Seq(Bytes) : Join(Append(PathOf(s).dirs, x), "/") = PathPrefix(s) \o x
  <1>1. << >> \in Seq(Bytes) /\ << >> \in Seq(Seq(Bytes)) /\ (\A t \in Seq(Bytes) : <<t>> = Append(<< >>, t))
        /\ "/" \in Bytes /\ <<"/">> \in Seq(Bytes)
    <2>1. "/" \in Bytes /\ <<"/">> \in Seq(Bytes)
      BY BytesHere, OneByte
    <2>2. << >> \in Seq(Bytes) /\ << >> \in Seq(Seq(Bytes)) /\ \A t \in Seq(Bytes) : <<t>> = Append(<< >>, t)
      OBVIOUS
    <2>3. QED
      BY <2>1, <2>2
  <1>2. PathOf(s) = [dirs |-> S!Front(Parts(s)), base |-> BaseOf(S!Last(Parts(s)))]
    BY DEF PathOf, N!Path, BaseOf
  <1>3. ASSUME NEW t \in Seq(Bytes), Without(t, "/")
        PROVE  LastOffset(t, "/") = 0 /\ PathBasename(t) = t
    <2>1. LastOffset(t, "/") = 0
      BY <1>1, <1>3, LastOffsetAt, ZenonT(60)
    <2>2. After(t, 0) = t
      <3>1. Len(t) \in Nat /\ 0 \in 0..Len(t)
        BY LenProperties
      <3>2. Cut(t, 0) \in Seq(Bytes) /\ Len(Cut(t, 0)) = 0 /\ After(t, 0) \in Seq(Bytes)
            /\ Cut(t, 0) \o After(t, 0) = t
        <4>1. Cut(t, 0) \in Seq(Bytes) /\ Len(Cut(t, 0)) = 0
          <5>1. 0 <= Len(t)
            BY <3>1
          <5>2. QED
            BY <5>1, CutIs
        <4>2. After(t, 0) \in Seq(Bytes)
          BY <3>1, AfterIs
        <4>3. Cut(t, 0) \o After(t, 0) = t
          BY <3>1, CutAfter
        <4>4. QED
          BY <4>1, <4>2, <4>3
      <3>3. Cut(t, 0) = << >>
        BY <3>2, EmptySeq
      <3>4. << >> \o After(t, 0) = After(t, 0)
        BY <3>2, ConcatEmptySeq
      <3>5. QED
        BY <3>2, <3>3, <3>4
    <2>3. QED
      BY <2>1, <2>2 DEF PathBasename
  <1>4. CASE Without(s, "/")
    <2>1. LastOffset(s, "/") = 0 /\ PathBasename(s) = s
      BY <1>3, <1>4
    <2>2. PathPrefix(s) = << >>
      <3>1. Cut(s, 0) \in Seq(Bytes) /\ Len(Cut(s, 0)) = 0
        <4>1. 0 <= Len(s)
          BY LenProperties
        <4>2. QED
          BY <4>1, CutIs
      <3>2. QED
        BY <2>1, <3>1, EmptySeq DEF PathPrefix
    <2>3. Parts(s) = Append(<< >>, s)
      BY <1>1, <1>4, SplitWhole DEF Parts
    <2>4. S!Front(Append(<< >>, s)) = << >> /\ S!Last(Append(<< >>, s)) = s
      BY <1>1, FrontOfAppend, ZenonT(60)
    <2>5. PathOf(s) = [dirs |-> << >>, base |-> BaseOf(s)]
      BY <1>2, <2>3, <2>4
    <2>6. ASSUME NEW x \in Seq(Bytes) PROVE Join(Append(<< >>, x), "/") = << >> \o x
      <3>1. Join(<<x>>, "/") = x
        BY <1>1, JoinOne
      <3>2. << >> \o x = x
        BY ConcatEmptySeq
      <3>3. QED
        BY <1>1, <3>1, <3>2
    <2>7. << >> \o s = s /\ Len(<< >>) = 0
      BY ConcatEmptySeq
    <2>8. PathOf(s).dirs = << >> /\ PathOf(s).base = BaseOf(s)
      BY <2>5
    <2>9. QED
      BY <1>1, <1>4, <2>1, <2>2, <2>3, <2>5, <2>6, <2>7, <2>8
  <1>5. ASSUME NEW u \in Seq(Bytes), NEW t \in Seq(Bytes), s = (u \o <<"/">>) \o t, Without(t, "/")
        PROVE  /\ PathPrefix(s) \in Seq(Bytes) /\ PathBasename(s) \in Seq(Bytes)
               /\ s = PathPrefix(s) \o PathBasename(s)
               /\ LastOffset(s, "/") = Len(PathPrefix(s)) /\ Len(PathPrefix(s)) \in Nat
               /\ PathBasename(PathBasename(s)) = PathBasename(s)
               /\ Without(PathBasename(s), "/")
               /\ PathOf(s) = [dirs |-> PathOf(s).dirs, base |-> BaseOf(PathBasename(s))]
               /\ PathOf(s).dirs \in Seq(Seq(Bytes))
               /\ Parts(s) = Append(PathOf(s).dirs, PathBasename(s))
               /\ \A x \in Seq(Bytes) : Join(Append(PathOf(s).dirs, x), "/") = PathPrefix(s) \o x
    <2>1. PICK r \in Seq(Bytes) : r = u \o <<"/">>
      BY <1>1, ConcatProperties
    <2>2. /\ LastOffset(s, "/") = Len(u) + 1 /\ Len(r) = Len(u) + 1 /\ Len(r) \in Nat
          /\ Cut(s, Len(u) + 1) = r /\ After(s, Len(u) + 1) = t
      BY <1>1, <1>5, <2>1, LastOffsetAt, LenProperties
    <2>3. PathPrefix(s) = r /\ PathBasename(s) = t
      BY <2>2 DEF PathPrefix, PathBasename
    <2>4. PICK parts \in Seq(Seq(Bytes)) : parts = Split(u, "/") /\ parts # << >>
      BY SplitType, BytesHere
    <2>5. Parts(s) = Append(parts, t)
      BY <1>1, <1>5, <2>4, SplitAfter, SMTT(60) DEF Parts
    <2>6. S!Front(Append(parts, t)) = parts /\ S!Last(Append(parts, t)) = t
      BY FrontOfAppend
    <2>7. PathOf(s) = [dirs |-> parts, base |-> BaseOf(t)]
      BY <1>2, <2>5, <2>6
    <2>8. ASSUME NEW x \in Seq(Bytes) PROVE Join(Append(parts, x), "/") = r \o x
      <3>1. Join(parts, "/") = u
        BY <1>1, <2>4, JoinSplit
      <3>2. Join(Append(parts, x), "/") = (Join(parts, "/") \o <<"/">>) \o x
        BY <1>1, <2>4, JoinMore
      <3>3. QED
        BY <2>1, <3>1, <3>2
    <2>9. PathOf(s).dirs = parts /\ PathOf(s).base = BaseOf(t)
      BY <2>7
    <2>10. s = r \o t /\ PathBasename(t) = t
      BY <1>3, <1>5, <2>1
    <2>11. QED
      BY <1>5, <2>2, <2>3, <2>5, <2>7, <2>8, <2>9, <2>10
  <1>6. Without(s, "/") \/ \E u, t \in Seq(Bytes) : s = (u \o <<"/">>) \o t /\ Without(t, "/")
    BY <1>1, WholeOrDivided
  <1>7. QED
    BY <1>4, <1>5, <1>6

\* A path that was taken apart is spelled as it was.
LEMMA PathSpelled ==
  ASSUME NEW s \in Seq(Bytes)
  PROVE  Spelled(PathOf(s)) = s
  <1>1. /\ PathBasename(s) \in Seq(Bytes) /\ s = PathPrefix(s) \o PathBasename(s)
        /\ PathOf(s) = [dirs |-> PathOf(s).dirs, base |-> BaseOf(PathBasename(s))]
        /\ \A x \in Seq(Bytes) : Join(Append(PathOf(s).dirs, x), "/") = PathPrefix(s) \o x
    BY PathParts
  <1>2. PathOf(s).base = BaseOf(PathBasename(s))
    BY <1>1
  <1>3. SpelledBase(PathOf(s).base) = PathBasename(s)
    BY <1>1, <1>2, BaseSpelled
  <1>4. QED
    BY <1>1, <1>3 DEF Spelled

\* The module of a path is spelled with its directories and the shorter base
\* name.
LEMMA NameSpelled ==
  ASSUME NEW s \in Seq(Bytes)
  PROVE  /\ SpelledBase(N!NormalizeModuleName(PathOf(s)).base) = Suffixless(PathBasename(s))
         /\ Spelled(N!NormalizeModuleName(PathOf(s)))
              = PathPrefix(s) \o Suffixless(PathBasename(s))
         /\ Suffixless(PathBasename(s)) \in Seq(Bytes)
  <1>1. /\ PathBasename(s) \in Seq(Bytes)
        /\ PathOf(s) = [dirs |-> PathOf(s).dirs, base |-> BaseOf(PathBasename(s))]
        /\ \A x \in Seq(Bytes) : Join(Append(PathOf(s).dirs, x), "/") = PathPrefix(s) \o x
    BY PathParts
  <1>2. PICK b \in Seq(Bytes) : b = PathBasename(s)
    BY <1>1
  <1>3. PICK dirs, base : dirs = PathOf(s).dirs /\ base = BaseOf(b)
    OBVIOUS
  <1>4. N!NormalizeModuleName([dirs |-> dirs, base |-> base])
          = [dirs |-> dirs, base |-> N!BasenameNoSuffix(base)]
    BY DEF N!NormalizeModuleName
  <1>5. N!NormalizeModuleName(PathOf(s)) = [dirs |-> dirs, base |-> N!BasenameNoSuffix(base)]
    BY <1>1, <1>2, <1>3, <1>4
  <1>6. SpelledBase(N!BasenameNoSuffix(BaseOf(b))) = Suffixless(b) /\ Suffixless(b) \in Seq(Bytes)
    BY BaseWithoutSuffix
  <1>7. Spelled([dirs |-> dirs, base |-> N!BasenameNoSuffix(base)])
          = Join(Append(dirs, SpelledBase(N!BasenameNoSuffix(base))), "/")
    BY DEF Spelled
  <1>8. PICK x \in Seq(Bytes) : x = Suffixless(b) /\ x = SpelledBase(N!BasenameNoSuffix(base))
    BY <1>3, <1>6
  <1>9. Join(Append(dirs, x), "/") = PathPrefix(s) \o x
    BY <1>1, <1>3
  <1>10. N!NormalizeModuleName(PathOf(s)).base = N!BasenameNoSuffix(base)
    BY <1>5
  <1>11. Spelled(N!NormalizeModuleName(PathOf(s))) = PathPrefix(s) \o x
    BY <1>5, <1>7, <1>8, <1>9
  <1>12. QED
    BY <1>2, <1>8, <1>10, <1>11

-----------------------------------------------------------------------------
(* Buffers. *)

\* A buffer of so many bytes holds what was copied and what fits of what is appended.
LEMMA CopyThenAppend ==
  ASSUME NEW A, NEW s \in Seq(A), NEW t \in Seq(A), NEW size \in Nat \ {0}
  PROVE  AppendString(Cut(s, size - 1), size, t) = Cut(s \o t, size - 1)
  <1>1. /\ size - 1 \in Nat /\ Len(s) \in Nat
        /\ Cut(s \o t, size - 1)
             = IF size - 1 <= Len(s) THEN Cut(s, size - 1) ELSE s \o Cut(t, (size - 1) - Len(s))
    <2>1. size - 1 \in Nat /\ Len(s) \in Nat
      BY LenProperties
    <2>2. QED
      BY <2>1, CutConcat
  <1>2. CASE size - 1 <= Len(s)
    <2>1. Len(Cut(s, size - 1)) = size - 1
      BY <1>1, <1>2, CutIs
    <2>2. Len(Cut(s, size - 1)) + 1 >= size
      BY <2>1
    <2>3. QED
      BY <1>1, <1>2, <2>2 DEF AppendString
  <1>3. CASE ~(size - 1 <= Len(s))
    <2>1. Cut(s, size - 1) = s
      BY <1>1, <1>3, CutWhole
    <2>2. ~(Len(s) + 1 >= size) /\ size - Len(s) # 0 /\ (size - Len(s)) - 1 = (size - 1) - Len(s)
      BY <1>1, <1>3
    <2>3. QED
      BY <1>1, <1>3, <2>1, <2>2 DEF AppendString, CopyString
  <1>4. QED
    BY <1>2, <1>3

\* The name is cut where the buffer ends.
LEMMA NameCut ==
  ASSUME NEW s \in Seq(Bytes), NEW size \in 1..MaxName
  PROVE  NormalizeModuleName(size, s) = Cut(PathPrefix(s) \o Suffixless(PathBasename(s)), size - 1)
  <1>1. PICK p \in Seq(Bytes), b \in Seq(Bytes) :
          /\ p = PathPrefix(s) /\ b = PathBasename(s) /\ LastOffset(s, "/") = Len(p)
          /\ Len(p) \in Nat /\ PathBasename(b) = b
    BY PathParts
  <1>2. PICK x \in Seq(Bytes) : x = Suffixless(b)
    BY BaseWithoutSuffix
  <1>3. MaxName \in Nat \ {0} /\ size \in Nat \ {0} /\ size - 1 \in Nat /\ MaxName - 1 \in Nat
        /\ size - 1 <= MaxName - 1
    BY MaxNameType
  <1>4. BasenameNoSuffix(MaxName, b) = Cut(x, MaxName - 1)
    BY <1>1, <1>2, <1>3, SuffixlessCut
  <1>5. Cut(s, Min({LastOffset(s, "/"), size - 1})) = Cut(p, size - 1)
    <2>1. Min({Len(p), size - 1}) = IF Len(p) <= size - 1 THEN Len(p) ELSE size - 1
      BY <1>1, <1>3, MinOfTwo, SMTT(60)
    <2>2. Cut(Cut(s, Len(p)), size - 1) = Cut(s, IF Len(p) <= size - 1 THEN Len(p) ELSE size - 1)
      BY <1>1, <1>3, CutTwice
    <2>3. p = Cut(s, Len(p))
      BY <1>1 DEF PathPrefix
    <2>4. QED
      BY <1>1, <2>1, <2>2, <2>3
  <1>6. NormalizeModuleName(size, s) = AppendString(Cut(p, size - 1), size, Cut(x, MaxName - 1))
    BY <1>1, <1>4, <1>5 DEF NormalizeModuleName
  <1>7. AppendString(Cut(p, size - 1), size, Cut(x, MaxName - 1))
          = Cut(p \o Cut(x, MaxName - 1), size - 1)
    <2>1. Cut(x, MaxName - 1) \in Seq(Bytes)
      BY <1>3, CutIs
    <2>2. QED
      BY <1>3, <2>1, CopyThenAppend
  <1>8. Cut(p \o Cut(x, MaxName - 1), size - 1) = Cut(p \o x, size - 1)
    <2>1. PICK y \in Seq(Bytes) : y = Cut(x, MaxName - 1)
      BY <1>3, CutIs
    <2>2. CASE size - 1 <= Len(p)
      BY <1>3, <2>1, <2>2, CutConcat
    <2>3. CASE ~(size - 1 <= Len(p))
      <3>1. /\ (size - 1) - Len(p) \in Nat
            /\ MaxName - 1 <= (size - 1) - Len(p) => MaxName - 1 = (size - 1) - Len(p)
        BY <1>1, <1>3, <2>3
      <3>2. Cut(y, (size - 1) - Len(p)) = Cut(x, (size - 1) - Len(p))
        <4>1. (size - 1) - Len(p) \in Nat
          BY <3>1
        <4>2. PICK k \in Nat : k = (size - 1) - Len(p)
          BY <4>1
        <4>3. Cut(Cut(x, MaxName - 1), k) = Cut(x, IF MaxName - 1 <= k THEN MaxName - 1 ELSE k)
          BY <1>3, CutTwice
        <4>4. (IF MaxName - 1 <= k THEN MaxName - 1 ELSE k) = k
          BY <3>1, <4>2
        <4>5. QED
          BY <2>1, <4>2, <4>3, <4>4
      <3>3. Cut(p \o y, size - 1) = p \o Cut(y, (size - 1) - Len(p))
        BY <1>3, <2>3, CutConcat
      <3>4. Cut(p \o x, size - 1) = p \o Cut(x, (size - 1) - Len(p))
        BY <1>3, <2>3, CutConcat
      <3>5. QED
        BY <2>1, <3>2, <3>3, <3>4
    <2>4. QED
      BY <2>2, <2>3
  <1>9. QED
    BY <1>1, <1>2, <1>6, <1>7, <1>8

\* The bytes of each component.
LEMMA BytesOfAllType ==
  ASSUME NEW components \in Seq(Components)
  PROVE  /\ BytesOfAll(components) \in Seq(Seq(Bytes))
         /\ Len(BytesOfAll(components)) = Len(components)
         /\ \A i \in 1..Len(components) : BytesOfAll(components)[i] = BytesOf[components[i]]
  <1>1. Len(components) \in Nat /\ DOMAIN components = 1..Len(components)
        /\ \A i \in 1..Len(components) : components[i] \in Components
    BY ElementOfSeq, LenProperties
  <1>2. \A c \in Components : BytesOf[c] \in Seq(Bytes)
    BY BytesAssumption
  <1>3. BytesOfAll(components) \in [1..Len(components) -> Seq(Bytes)]
    BY <1>1, <1>2 DEF BytesOfAll
  <1>4. BytesOfAll(components) \in Seq(Seq(Bytes))
    BY <1>1, <1>3
  <1>5. Len(BytesOfAll(components)) = Len(components)
    BY <1>1, <1>3
  <1>6. QED
    BY <1>1, <1>4, <1>5 DEF BytesOfAll

\* The text of components.
LEMMA TextType ==
  ASSUME NEW components \in Seq(Components)
  PROVE  Text(components) \in Seq(Bytes)
  <1>1. BytesOfAll(components) \in Seq(Seq(Bytes)) /\ "/" \in Bytes
    BY BytesOfAllType, BytesHere
  <1>2. Join(BytesOfAll(components), "/") \in Seq(Bytes)
    BY <1>1, JoinType
  <1>3. QED
    BY <1>2 DEF Text

\* Names are cut only at the end, whatever the path (strings.c:115-134).
LEMMA CutIfTyped == TypeOK => CutOnlyAtTheEnd
  <1> SUFFICES ASSUME TypeOK PROVE CutOnlyAtTheEnd
    OBVIOUS
  <1>1. PICK s \in Seq(Bytes) : s = Text(path)
    BY TextType DEF TypeOK
  <1>2. /\ SpelledBase(N!NormalizeModuleName(PathOf(s)).base) = Suffixless(PathBasename(s))
        /\ Spelled(N!NormalizeModuleName(PathOf(s)))
                = PathPrefix(s) \o Suffixless(PathBasename(s))
        /\ PathBasename(s) \in Seq(Bytes)
    BY NameSpelled, PathParts
  <1>3. ASSUME NEW size \in 1..MaxName
        PROVE  /\ NormalizeModuleName(size, s) = Cut(PathPrefix(s) \o Suffixless(PathBasename(s)), size - 1)
               /\ BasenameNoSuffix(size, s) = Cut(Suffixless(PathBasename(s)), size - 1)
    <2>1. size \in Nat \ {0}
      BY MaxNameType
    <2>2. QED
      BY <1>2, <2>1, NameCut, SuffixlessCut
  <1>4. MaxName \in 1..MaxName
    BY MaxNameType
  <1>5. AddSourceFile(s) = Cut(Suffixless(PathBasename(s)), MaxName - 1)
    BY <1>3, <1>4 DEF AddSourceFile
  <1>6. QED
    BY <1>1, <1>2, <1>3, <1>5 DEF CutOnlyAtTheEnd

\* A sequence without its last element.
LEMMA WithoutLast ==
  ASSUME NEW A, NEW s \in Seq(A), Len(s) \in Nat \ {0}
  PROVE  /\ SubSeq(s, 1, Len(s) - 1) \in Seq(A)
         /\ Len(SubSeq(s, 1, Len(s) - 1)) = Len(s) - 1
         /\ \A i \in 1..(Len(s) - 1) : SubSeq(s, 1, Len(s) - 1)[i] = s[i]
  <1>1. /\ Len(s) - 1 \in Nat /\ 1 \in Int
        /\ \A i \in 1..(Len(s) - 1) : s[i] \in A
    OBVIOUS
  <1>2. /\ SubSeq(s, 1, Len(s) - 1) \in Seq(A)
        /\ Len(SubSeq(s, 1, Len(s) - 1)) =
             IF 1 <= Len(s) - 1 THEN Len(s) - 1 - 1 + 1 ELSE 0
        /\ \A i \in 1..(Len(s) - 1 - 1 + 1) :
             SubSeq(s, 1, Len(s) - 1)[i] = s[1 + i - 1]
    BY <1>1, SubSeqProperties
  <1>3. Len(SubSeq(s, 1, Len(s) - 1)) = Len(s) - 1
    <2> DEFINE k == Len(s)
               l == Len(SubSeq(s, 1, Len(s) - 1))
    <2>1. k \in Nat \ {0} /\ l = IF 1 <= k - 1 THEN k - 1 - 1 + 1 ELSE 0
      BY <1>2
    <2> HIDE DEF k, l
    <2>2. l = k - 1
      BY <2>1
    <2>3. QED
      BY <2>2 DEF k, l
  <1>4. \A i \in 1..(Len(s) - 1) : SubSeq(s, 1, Len(s) - 1)[i] = s[i]
    BY <1>1, <1>2
  <1>5. QED
    BY <1>2, <1>3, <1>4

-----------------------------------------------------------------------------
(* Folds. *)

\* What the steps of the parts lead to from the base.
FoldOf(step, base, parts) ==
  LET To[n \in 0..Len(parts)] ==
        IF n = 0 THEN base ELSE step[parts[n]][To[n - 1]]
  IN To[Len(parts)]

Folds(f, T, base, parts, step) ==
  /\ f \in [0..Len(parts) -> T] /\ f[0] = base /\ FoldOf(step, base, parts) = f[Len(parts)]
  /\ \A n \in 1..Len(parts) : f[n] = step[parts[n]][f[n - 1]]

\* A fold is computed from one part to the next.
LEMMA FoldIs ==
  ASSUME NEW T, NEW base \in T, NEW X, NEW parts \in Seq(X), NEW step \in [X -> [T -> T]]
  PROVE  \E f : Folds(f, T, base, parts, step)
  <1> DEFINE K == Len(parts)
             along == [n \in 1..K |-> step[parts[n]]]
             To[n \in 0..Len(parts)] == IF n = 0 THEN base ELSE step[parts[n]][To[n - 1]]
             Equal(f) == f = [n \in 0..Len(parts) |->
               IF n = 0 THEN base ELSE step[parts[n]][f[n - 1]]]
  <1>1. K \in Nat /\ \A n \in 1..K : parts[n] \in X
    BY ElementOfSeq
  <1>2. Steps(T, base, K, along)
    <2> HIDE DEF K
    <2>1. along \in [1..K -> [T -> T]]
      BY <1>1
    <2>2. QED
      BY <1>1, <2>1 DEF Steps
  <1>3. PICK f : Follows(f, T, base, K, along)
    <2> HIDE DEF along, K
    <2>1. QED
      BY <1>2, Recursion
  <1>4. /\ f \in [0..K -> T] /\ f[0] = base
        /\ \A n \in 1..K : f[n] = step[parts[n]][f[n - 1]]
    <2> HIDE DEF K
    <2>1. /\ f \in [0..K -> T] /\ f[0] = base
          /\ \A n \in 1..K : f[n] = along[n][f[n - 1]]
      <3> HIDE DEF along
      <3>1. QED
        BY <1>3 DEF Follows
    <2>2. \A n \in 1..K : along[n] = step[parts[n]]
      OBVIOUS
    <2> HIDE DEF along
    <2>3. QED
      BY <2>1, <2>2
  <1>5. Equal(f)
    BY <1>1, <1>4
  <1>6. Equal(To)
    <2>1. To = CHOOSE g : Equal(g)
      OBVIOUS
    <2> HIDE DEF Equal, To
    <2>2. QED
      BY <1>5, <2>1
  <1>7. To[K] = f[K]
    <2>1. To = [n \in 0..K |-> IF n = 0 THEN base ELSE step[parts[n]][To[n - 1]]]
      BY <1>6
    <2> HIDE DEF To, K, Equal
    <2>2. To[0] = f[0] /\ \A n \in 1..K : To[n] = step[parts[n]][To[n - 1]]
      BY <1>1, <1>4, <2>1
    <2>3. Agrees(To, f, K)
      BY <1>4, <2>2 DEF Agrees
    <2>4. \A n \in 0..K : To[n] = f[n]
      BY <1>1, <2>3, Agreement
    <2>5. QED
      BY <1>1, <2>4
  <1>8. FoldOf(step, base, parts) = To[K]
    BY DEF FoldOf
  <1>9. QED
    <2> HIDE DEF To
    <2>1. QED
      BY <1>4, <1>7, <1>8 DEF Folds

\* Nothing, and one part more.
FoldsMore(T, base, parts, step, e) ==
  /\ FoldOf(step, base, parts) \in T
  /\ parts = << >> => FoldOf(step, base, parts) = base
  /\ FoldOf(step, base, Append(parts, e)) = step[e][FoldOf(step, base, parts)]

\* What one more part does to a fold.
LEMMA FoldMore ==
  ASSUME NEW T, NEW base \in T, NEW X, NEW parts \in Seq(X), NEW e \in X,
         NEW step \in [X -> [T -> T]]
  PROVE  FoldsMore(T, base, parts, step, e)
  <1> DEFINE K == Len(parts)
             more == Append(parts, e)
  <1>1. K \in Nat /\ more \in Seq(X) /\ Len(more) = K + 1 /\ more[K + 1] = e
        /\ \A n \in 1..K : more[n] = parts[n]
    BY AppendProperties
  <1>2. parts = << >> => K = 0
    BY <1>1, EmptySeq
  <1>3. PICK f : Folds(f, T, base, parts, step)
    BY FoldIs
  <1>4. PICK g : Folds(g, T, base, more, step)
    <2> HIDE DEF more
    <2>1. QED
      BY <1>1, FoldIs
  <1> HIDE DEF more
  <1>5. /\ FoldOf(step, base, parts) = f[K] /\ f[0] = base /\ f[K] \in T
        /\ \A n \in 1..K : f[n] = step[parts[n]][f[n - 1]]
    BY <1>1, <1>3 DEF Folds
  <1> HIDE DEF K
  <1>6. /\ FoldOf(step, base, more) = g[K + 1] /\ g[0] = base
        /\ \A n \in 1..K + 1 : g[n] = step[more[n]][g[n - 1]]
    BY <1>1, <1>4 DEF Folds
  <1>7. g[K] = f[K]
    <2>1. ASSUME NEW n \in 1..K, g[n - 1] = f[n - 1] PROVE g[n] = f[n]
      <3>1. n \in 1..K + 1 /\ more[n] = parts[n]
        BY <1>1
      <3>2. QED
        BY <1>5, <1>6, <2>1, <3>1
    <2>2. Agrees(g, f, K)
      BY <1>5, <1>6, <2>1 DEF Agrees
    <2>3. \A n \in 0..K : g[n] = f[n]
      BY <1>1, <2>2, Agreement
    <2>4. QED
      BY <1>1, <2>3
  <1>8. g[K + 1] = step[e][f[K]]
    <2>1. K + 1 \in 1..K + 1 /\ (K + 1) - 1 = K
      BY <1>1
    <2>2. QED
      BY <1>1, <1>6, <1>7, <2>1
  <1>9. QED
    BY <1>2, <1>5, <1>6, <1>8 DEF more, FoldsMore

\* The types of the loop's turns.
LEMMA KeepType ==
  ASSUME NEW out \in Seq(Bytes), NEW c \in Seq(Bytes)
  PROVE  KeepComponent(out, c) \in Seq(Bytes)
  <1>1. out \o <<"/">> \in Seq(Bytes)
    BY BytesHere, OneByte, ConcatProperties
  <1>2. (out \o <<"/">>) \o c \in Seq(Bytes)
    BY <1>1, ConcatProperties
  <1>3. Cut(out, Max({LastOffset(out, "/") - 1, 0})) \in Seq(Bytes)
    <2>1. LastOffset(out, "/") \in 0..Len(out) /\ Len(out) \in Nat
      BY LastOffsetIs
    <2>2. Max({LastOffset(out, "/") - 1, 0}) \in Nat
      <3>1. LastOffset(out, "/") - 1 \in Int
        BY <2>1
      <3>2. QED
        BY <3>1, MaxOfTwo
    <2>3. QED
      BY <2>2, CutIs
  <1>4. QED
    BY <1>2, <1>3 DEF KeepComponent

\* What the loop of Names keeps are components.
LEMMA KeepDirType ==
  ASSUME NEW A, NEW out \in Seq(A), NEW c \in A
  PROVE  N!KeepComponent(out, c) \in Seq(A)
  <1>1. Append(out, c) \in Seq(A)
    BY AppendProperties
  <1>2. out # << >> => SubSeq(out, 1, Len(out) - 1) \in Seq(A)
    <2>1. out # << >> => Len(out) \in Nat \ {0}
      BY EmptySeq
    <2>2. QED
      BY <2>1, WithoutLast
  <1>3. QED
    BY <1>1, <1>2 DEF N!KeepComponent

\* One turn of a walk.
WalkStep(at, c) ==
  CASE c \in {Empty, "."} -> at
    [] c = ".." -> SubSeq(at, 1, Len(at) - 1)
    [] OTHER -> Append(at, c)

\* A walk leads from a directory to a directory.
LEMMA WalkStepType ==
  ASSUME NEW A, NEW at \in Seq(A), NEW c \in A
  PROVE  WalkStep(at, c) \in Seq(A)
  <1>1. Append(at, c) \in Seq(A)
    BY AppendProperties
  <1>2. SubSeq(at, 1, Len(at) - 1) \in Seq(A)
    <2>1. CASE at = << >>
      <3>1. SubSeq(at, 1, Len(at) - 1) = << >>
        BY <2>1, SubSeqEmpty
      <3>2. QED
        BY <3>1, EmptySeq
    <2>2. CASE at # << >>
      BY <2>2, EmptySeq, WithoutLast
    <2>3. QED
      BY <2>1, <2>2
  <1>3. QED
    BY <1>1, <1>2 DEF WalkStep

\* The loop over the bytes, as a fold over the parts.
LEMMA KeptFold ==
  ASSUME NEW s \in Seq(Bytes)
  PROVE  NormalizeRelativePath(s) = FoldOf([c \in Seq(Bytes) |-> [x \in Seq(Bytes) |-> KeepComponent(x, c)]], << >>, Parts(s))
  <1> DEFINE K == Len(Parts(s))
             Step(x, c) == KeepComponent(x, c)
             step == [c \in Seq(Bytes) |-> [x \in Seq(Bytes) |-> Step(x, c)]]
             To[n \in 0..Len(Parts(s))] ==
               IF n = 0 THEN << >> ELSE KeepComponent(To[n - 1], Parts(s)[n])
             Equal(f) == f = [n \in 0..Len(Parts(s)) |->
               IF n = 0 THEN << >> ELSE KeepComponent(f[n - 1], Parts(s)[n])]
  <1>1. K \in Nat /\ << >> \in Seq(Bytes) /\ \A n \in 1..K : Parts(s)[n] \in Seq(Bytes)
    <2>1. Parts(s) \in Seq(Seq(Bytes))
      BY BytesHere, SplitType DEF Parts
    <2>2. QED
      BY <2>1, ElementOfSeq, EmptySeq, LenProperties
  <1>2. step \in [Seq(Bytes) -> [Seq(Bytes) -> Seq(Bytes)]]
    <2>1. ASSUME NEW x \in Seq(Bytes), NEW c \in Seq(Bytes) PROVE Step(x, c) \in Seq(Bytes)
      BY KeepType
    <2> HIDE DEF Step
    <2>2. QED
      BY <2>1
  <1>3. PICK f : Folds(f, Seq(Bytes), << >>, Parts(s), step)
    <2> HIDE DEF step
    <2>1. QED
      BY <1>1, <1>2, FoldIs, BytesHere, SplitType DEF Parts
  <1>4. /\ f \in [0..K -> Seq(Bytes)] /\ f[0] = << >> /\ FoldOf(step, << >>, Parts(s)) = f[K]
        /\ \A n \in 1..K : f[n] = Step(f[n - 1], Parts(s)[n])
    <2> HIDE DEF Step, K
    <2>1. /\ f \in [0..K -> Seq(Bytes)] /\ f[0] = << >> /\ FoldOf(step, << >>, Parts(s)) = f[K]
          /\ \A n \in 1..K : f[n] = step[Parts(s)[n]][f[n - 1]]
      <3> HIDE DEF step
      <3>1. QED
        BY <1>3 DEF Folds, K
    <2>2. ASSUME NEW n \in 1..K PROVE f[n] = Step(f[n - 1], Parts(s)[n])
      <3>1. n - 1 \in 0..K
        BY <1>1
      <3>2. PICK y \in Seq(Bytes), c \in Seq(Bytes) : y = f[n - 1] /\ c = Parts(s)[n]
        BY <1>1, <2>1, <3>1
      <3>3. step[c][y] = Step(y, c)
        OBVIOUS
      <3> HIDE DEF step
      <3>4. QED
        BY <2>1, <3>2, <3>3
    <2>3. QED
      BY <2>1, <2>2
  <1>5. Equal(f)
    <2>1. f = [n \in 0..K |-> IF n = 0 THEN << >> ELSE Step(f[n - 1], Parts(s)[n])]
      <3> HIDE DEF Step, K
      <3>1. QED
        BY <1>1, <1>4
    <2>2. QED
      BY <2>1
  <1>6. Equal(To)
    <2>1. To = CHOOSE g : Equal(g)
      OBVIOUS
    <2> HIDE DEF Equal, To
    <2>2. QED
      BY <1>5, <2>1
  <1>7. To[K] = f[K]
    <2>1. To = [n \in 0..K |-> IF n = 0 THEN << >> ELSE Step(To[n - 1], Parts(s)[n])]
      BY <1>6
    <2> HIDE DEF To, K, Step, step, Equal
    <2>2. To[0] = f[0] /\ \A n \in 1..K : To[n] = Step(To[n - 1], Parts(s)[n])
      <3>1. 0 \in 0..K /\ \A n \in 1..K : n \in 0..K /\ n # 0
        BY <1>1
      <3>2. \A n \in 1..K : To[n] = Step(To[n - 1], Parts(s)[n])
        BY <2>1, <3>1
      <3>3. To[0] = f[0]
        BY <1>4, <2>1, <3>1
      <3>4. QED
        BY <3>2, <3>3
    <2>3. Agrees(To, f, K)
      BY <1>4, <2>2 DEF Agrees
    <2>4. \A n \in 0..K : To[n] = f[n]
      BY <1>1, <2>3, Agreement
    <2>5. QED
      BY <1>1, <2>4
  <1>8. NormalizeRelativePath(s) = To[K]
    BY DEF NormalizeRelativePath
  <1>9. QED
    <2> HIDE DEF To, K
    <2>1. QED
      BY <1>4, <1>7, <1>8

\* The loop over the components.
LEMMA KeptDirsFold ==
  ASSUME NEW A, NEW dirs \in Seq(A)
  PROVE  N!NormalizeRelativePath(dirs) = FoldOf([c \in A |-> [x \in Seq(A) |-> N!KeepComponent(x, c)]], << >>, dirs)
  <1> DEFINE K == Len(dirs)
             Step(x, c) == N!KeepComponent(x, c)
             step == [c \in A |-> [x \in Seq(A) |-> Step(x, c)]]
             To[n \in 0..Len(dirs)] ==
               IF n = 0 THEN << >> ELSE N!KeepComponent(To[n - 1], dirs[n])
             Equal(f) == f = [n \in 0..Len(dirs) |->
               IF n = 0 THEN << >> ELSE N!KeepComponent(f[n - 1], dirs[n])]
  <1>1. K \in Nat /\ << >> \in Seq(A) /\ \A n \in 1..K : dirs[n] \in A
    BY ElementOfSeq, EmptySeq, LenProperties
  <1>2. step \in [A -> [Seq(A) -> Seq(A)]]
    <2>1. ASSUME NEW x \in Seq(A), NEW c \in A PROVE Step(x, c) \in Seq(A)
      BY KeepDirType
    <2> HIDE DEF Step
    <2>2. QED
      BY <2>1
  <1>3. PICK f : Folds(f, Seq(A), << >>, dirs, step)
    <2> HIDE DEF step
    <2>1. QED
      BY <1>1, <1>2, FoldIs
  <1>4. /\ f \in [0..K -> Seq(A)] /\ f[0] = << >> /\ FoldOf(step, << >>, dirs) = f[K]
        /\ \A n \in 1..K : f[n] = Step(f[n - 1], dirs[n])
    <2> HIDE DEF Step, K
    <2>1. /\ f \in [0..K -> Seq(A)] /\ f[0] = << >> /\ FoldOf(step, << >>, dirs) = f[K]
          /\ \A n \in 1..K : f[n] = step[dirs[n]][f[n - 1]]
      <3> HIDE DEF step
      <3>1. QED
        BY <1>3 DEF Folds, K
    <2>2. ASSUME NEW n \in 1..K PROVE f[n] = Step(f[n - 1], dirs[n])
      <3>1. n - 1 \in 0..K
        BY <1>1
      <3>2. PICK y \in Seq(A), c \in A : y = f[n - 1] /\ c = dirs[n]
        BY <1>1, <2>1, <3>1
      <3>3. step[c][y] = Step(y, c)
        OBVIOUS
      <3> HIDE DEF step
      <3>4. QED
        BY <2>1, <3>2, <3>3
    <2>3. QED
      BY <2>1, <2>2
  <1>5. Equal(f)
    <2>1. f = [n \in 0..K |-> IF n = 0 THEN << >> ELSE Step(f[n - 1], dirs[n])]
      <3> HIDE DEF Step, K
      <3>1. QED
        BY <1>1, <1>4
    <2>2. QED
      BY <2>1
  <1>6. Equal(To)
    <2>1. To = CHOOSE g : Equal(g)
      OBVIOUS
    <2> HIDE DEF Equal, To
    <2>2. QED
      BY <1>5, <2>1
  <1>7. To[K] = f[K]
    <2>1. To = [n \in 0..K |-> IF n = 0 THEN << >> ELSE Step(To[n - 1], dirs[n])]
      BY <1>6
    <2> HIDE DEF To, K, Step, step, Equal
    <2>2. To[0] = f[0] /\ \A n \in 1..K : To[n] = Step(To[n - 1], dirs[n])
      <3>1. 0 \in 0..K /\ \A n \in 1..K : n \in 0..K /\ n # 0
        BY <1>1
      <3>2. \A n \in 1..K : To[n] = Step(To[n - 1], dirs[n])
        BY <2>1, <3>1
      <3>3. To[0] = f[0]
        BY <1>4, <2>1, <3>1
      <3>4. QED
        BY <3>2, <3>3
    <2>3. Agrees(To, f, K)
      BY <1>4, <2>2 DEF Agrees
    <2>4. \A n \in 0..K : To[n] = f[n]
      BY <1>1, <2>3, Agreement
    <2>5. QED
      BY <1>1, <2>4
  <1>8. N!NormalizeRelativePath(dirs) = To[K]
    BY DEF N!NormalizeRelativePath
  <1>9. QED
    <2> HIDE DEF To, K
    <2>1. QED
      BY <1>4, <1>7, <1>8

\* A walk.
LEMMA WalkFold ==
  ASSUME NEW A, NEW from \in Seq(A), NEW components \in Seq(A)
  PROVE  Walk(from, components) = FoldOf([c \in A |-> [x \in Seq(A) |-> WalkStep(x, c)]], from, components)
  <1> DEFINE K == Len(components)
             Step(x, c) == WalkStep(x, c)
             step == [c \in A |-> [x \in Seq(A) |-> Step(x, c)]]
             To[n \in 0..Len(components)] ==
               IF n = 0 THEN from ELSE WalkStep(To[n - 1], components[n])
             Equal(f) == f = [n \in 0..Len(components) |->
               IF n = 0 THEN from ELSE WalkStep(f[n - 1], components[n])]
  <1>1. K \in Nat /\ from \in Seq(A) /\ \A n \in 1..K : components[n] \in A
    BY ElementOfSeq, LenProperties
  <1>2. step \in [A -> [Seq(A) -> Seq(A)]]
    <2>1. ASSUME NEW x \in Seq(A), NEW c \in A PROVE Step(x, c) \in Seq(A)
      BY WalkStepType
    <2> HIDE DEF Step
    <2>2. QED
      BY <2>1
  <1>3. PICK f : Folds(f, Seq(A), from, components, step)
    <2> HIDE DEF step
    <2>1. QED
      BY <1>1, <1>2, FoldIs
  <1>4. /\ f \in [0..K -> Seq(A)] /\ f[0] = from /\ FoldOf(step, from, components) = f[K]
        /\ \A n \in 1..K : f[n] = Step(f[n - 1], components[n])
    <2> HIDE DEF Step, K
    <2>1. /\ f \in [0..K -> Seq(A)] /\ f[0] = from /\ FoldOf(step, from, components) = f[K]
          /\ \A n \in 1..K : f[n] = step[components[n]][f[n - 1]]
      <3> HIDE DEF step
      <3>1. QED
        BY <1>3 DEF Folds, K
    <2>2. ASSUME NEW n \in 1..K PROVE f[n] = Step(f[n - 1], components[n])
      <3>1. n - 1 \in 0..K
        BY <1>1
      <3>2. PICK y \in Seq(A), c \in A : y = f[n - 1] /\ c = components[n]
        BY <1>1, <2>1, <3>1
      <3>3. step[c][y] = Step(y, c)
        OBVIOUS
      <3> HIDE DEF step
      <3>4. QED
        BY <2>1, <3>2, <3>3
    <2>3. QED
      BY <2>1, <2>2
  <1>5. Equal(f)
    <2>1. f = [n \in 0..K |-> IF n = 0 THEN from ELSE Step(f[n - 1], components[n])]
      <3> HIDE DEF Step, K
      <3>1. QED
        BY <1>1, <1>4
    <2>2. QED
      BY <2>1
  <1>6. Equal(To)
    <2>1. To = CHOOSE g : Equal(g)
      OBVIOUS
    <2> HIDE DEF Equal, To
    <2>2. QED
      BY <1>5, <2>1
  <1>7. To[K] = f[K]
    <2>1. To = [n \in 0..K |-> IF n = 0 THEN from ELSE Step(To[n - 1], components[n])]
      BY <1>6
    <2> HIDE DEF To, K, Step, step, Equal
    <2>2. To[0] = f[0] /\ \A n \in 1..K : To[n] = Step(To[n - 1], components[n])
      <3>1. 0 \in 0..K /\ \A n \in 1..K : n \in 0..K /\ n # 0
        BY <1>1
      <3>2. \A n \in 1..K : To[n] = Step(To[n - 1], components[n])
        BY <2>1, <3>1
      <3>3. To[0] = f[0]
        BY <1>4, <2>1, <3>1
      <3>4. QED
        BY <3>2, <3>3
    <2>3. Agrees(To, f, K)
      BY <1>4, <2>2 DEF Agrees
    <2>4. \A n \in 0..K : To[n] = f[n]
      BY <1>1, <2>3, Agreement
    <2>5. QED
      BY <1>1, <2>4
  <1>8. Walk(from, components) = To[K]
    BY DEF Walk, WalkStep
  <1>9. QED
    <2> HIDE DEF To, K
    <2>1. QED
      BY <1>4, <1>7, <1>8

-----------------------------------------------------------------------------
(* One part more. *)

KeptText(parts) ==
  FoldOf([c \in Seq(Bytes) |-> [x \in Seq(Bytes) |-> KeepComponent(x, c)]], << >>, parts)

KeepsText(parts, c) ==
  /\ KeptText(parts) \in Seq(Bytes)
  /\ parts = << >> => KeptText(parts) = << >>
  /\ KeptText(Append(parts, c)) = KeepComponent(KeptText(parts), c)

\* One more turn of the loop over the bytes.
LEMMA KeptTextMore ==
  ASSUME NEW parts \in Seq(Seq(Bytes)), NEW c \in Seq(Bytes)
  PROVE  KeepsText(parts, c)
  <1> DEFINE step == [b \in Seq(Bytes) |-> [x \in Seq(Bytes) |-> KeepComponent(x, b)]]
  <1>1. step \in [Seq(Bytes) -> [Seq(Bytes) -> Seq(Bytes)]]
    BY KeepType
  <1>2. << >> \in Seq(Bytes)
    BY EmptySeq
  <1>3. FoldsMore(Seq(Bytes), << >>, parts, step, c)
    <2> HIDE DEF step
    <2>1. QED
      BY <1>1, <1>2, FoldMore
  <1>4. PICK y \in Seq(Bytes) : y = FoldOf(step, << >>, parts)
    BY <1>3 DEF FoldsMore
  <1>5. step[c][y] = KeepComponent(y, c)
    OBVIOUS
  <1>6. KeptText(parts) = FoldOf(step, << >>, parts)
        /\ KeptText(Append(parts, c)) = FoldOf(step, << >>, Append(parts, c))
    BY DEF KeptText
  <1> HIDE DEF step
  <1>7. QED
    BY <1>3, <1>4, <1>5, <1>6 DEF FoldsMore, KeepsText

KeepsDirs(A, dirs, c) ==
  /\ N!NormalizeRelativePath(dirs) \in Seq(A)
  /\ dirs = << >> => N!NormalizeRelativePath(dirs) = << >>
  /\ N!NormalizeRelativePath(Append(dirs, c)) = N!KeepComponent(N!NormalizeRelativePath(dirs), c)

\* One more turn of the loop of Names.
LEMMA KeptDirsMore ==
  ASSUME NEW A, NEW dirs \in Seq(A), NEW c \in A
  PROVE  KeepsDirs(A, dirs, c)
  <1> DEFINE step == [b \in A |-> [x \in Seq(A) |-> N!KeepComponent(x, b)]]
  <1>1. step \in [A -> [Seq(A) -> Seq(A)]]
    BY KeepDirType
  <1>2. << >> \in Seq(A) /\ Append(dirs, c) \in Seq(A)
    BY EmptySeq, AppendProperties
  <1>3. FoldsMore(Seq(A), << >>, dirs, step, c)
    <2> HIDE DEF step
    <2>1. QED
      BY <1>1, <1>2, FoldMore
  <1>4. PICK y \in Seq(A) : y = FoldOf(step, << >>, dirs)
    BY <1>3 DEF FoldsMore
  <1>5. step[c][y] = N!KeepComponent(y, c)
    OBVIOUS
  <1>6. N!NormalizeRelativePath(dirs) = FoldOf(step, << >>, dirs)
    BY KeptDirsFold
  <1>7. N!NormalizeRelativePath(Append(dirs, c)) = FoldOf(step, << >>, Append(dirs, c))
    <2>1. PICK more \in Seq(A) : more = Append(dirs, c)
      BY <1>2
    <2>2. N!NormalizeRelativePath(more) = FoldOf(step, << >>, more)
      BY KeptDirsFold
    <2>3. QED
      BY <2>1, <2>2
  <1> HIDE DEF step
  <1>8. QED
    BY <1>3, <1>4, <1>5, <1>6, <1>7 DEF FoldsMore, KeepsDirs

WalksOn(A, from, components, c) ==
  /\ Walk(from, components) \in Seq(A)
  /\ components = << >> => Walk(from, components) = from
  /\ Walk(from, Append(components, c)) = WalkStep(Walk(from, components), c)

\* One more step of a walk.
LEMMA WalkMore ==
  ASSUME NEW A, NEW from \in Seq(A), NEW components \in Seq(A), NEW c \in A
  PROVE  WalksOn(A, from, components, c)
  <1> DEFINE step == [b \in A |-> [x \in Seq(A) |-> WalkStep(x, b)]]
  <1>1. step \in [A -> [Seq(A) -> Seq(A)]]
    BY WalkStepType
  <1>2. Append(components, c) \in Seq(A)
    BY AppendProperties
  <1>3. FoldsMore(Seq(A), from, components, step, c)
    <2> HIDE DEF step
    <2>1. QED
      BY <1>1, <1>2, FoldMore
  <1>4. PICK y \in Seq(A) : y = FoldOf(step, from, components)
    BY <1>3 DEF FoldsMore
  <1>5. step[c][y] = WalkStep(y, c)
    OBVIOUS
  <1>6. Walk(from, components) = FoldOf(step, from, components)
    BY WalkFold
  <1>7. Walk(from, Append(components, c)) = FoldOf(step, from, Append(components, c))
    <2>1. PICK more \in Seq(A) : more = Append(components, c)
      BY <1>2
    <2>2. Walk(from, more) = FoldOf(step, from, more)
      BY WalkFold
    <2>3. QED
      BY <2>1, <2>2
  <1> HIDE DEF step
  <1>8. QED
    BY <1>3, <1>4, <1>5, <1>6, <1>7 DEF FoldsMore, WalksOn

-----------------------------------------------------------------------------
(* The loop over the bytes and the loop over the components. *)

\* Joined parts end in the last one.
EndsIn(e, l) ==
  /\ Join(Append(e, l), "/") \in Seq(Bytes) /\ Join(e, "/") \in Seq(Bytes)
  /\ PathBasename(Join(Append(e, l), "/")) = l
  /\ Cut(Join(Append(e, l), "/"), Max({LastOffset(Join(Append(e, l), "/"), "/") - 1, 0}))
       = Join(e, "/")
  /\ l # << >> => Join(Append(e, l), "/") # << >>
  /\ Len(Join(Append(e, l), "/")) =
       IF e = << >> THEN Len(l) ELSE (Len(Join(e, "/")) + 1) + Len(l)
  /\ Len(Join(e, "/")) \in Nat /\ Len(l) \in Nat
  /\ e = << >> => Join(e, "/") = << >> /\ Join(Append(e, l), "/") = l
  /\ e # << >> => Join(Append(e, l), "/") = (Join(e, "/") \o <<"/">>) \o l

\* The last part of a joined path, and the directory that is left without it.
LEMMA JoinEnds ==
  ASSUME NEW e \in Seq(Seq(Bytes)), NEW l \in Seq(Bytes), Without(l, "/")
  PROVE  EndsIn(e, l)
  <1>1. "/" \in Bytes /\ Len(l) \in Nat
    BY BytesHere, LenProperties
  <1>2. JoinsPart(Bytes, e, l, "/")
    BY <1>1, JoinParts
  <1>3. LastOffset(l, "/") = 0
    BY <1>1, LastOffsetAt
  <1>4. PICK j \in Seq(Bytes) : j = Join(e, "/")
    BY <1>2 DEF JoinsPart
  <1>5. CASE e = << >>
    <2>1. Join(Append(e, l), "/") = l /\ j = << >> /\ Len(j) = 0
      BY <1>2, <1>4, <1>5 DEF JoinsPart
    <2>2. Max({0 - 1, 0}) = 0
      BY MaxOfTwo
    <2>3. Cut(l, 0) = << >>
      <3>1. Cut(l, 0) \in Seq(Bytes) /\ Len(Cut(l, 0)) = 0
        BY <1>1, CutIs
      <3>2. QED
        BY <3>1, EmptySeq
    <2>4. PathBasename(l) = l
      <3>1. After(l, 0) = l
        <4>1. 0 \in 0..Len(l)
          BY <1>1
        <4>2. Cut(l, 0) \o After(l, 0) = l /\ After(l, 0) \in Seq(Bytes)
          BY <4>1, CutAfter, AfterIs
        <4>3. << >> \o After(l, 0) = After(l, 0)
          BY <4>2, ConcatEmptySeq
        <4>4. QED
          BY <2>3, <4>2, <4>3
      <3>2. QED
        BY <1>3, <3>1 DEF PathBasename
    <2>5. PICK w : w = Join(Append(e, l), "/") /\ w = l
      BY <2>1
    <2>6. Cut(w, Max({LastOffset(w, "/") - 1, 0})) = j
      BY <1>3, <2>1, <2>2, <2>3, <2>5
    <2>7. PathBasename(w) = l /\ w \in Seq(Bytes) /\ Len(w) = Len(l)
      BY <2>4, <2>5
    <2>8. Len(j) \in Nat
      BY <2>1
    <2>9. QED
      BY <1>1, <1>4, <1>5, <2>1, <2>5, <2>6, <2>7, <2>8 DEF EndsIn
  <1>6. CASE e # << >>
    <2>1. Join(Append(e, l), "/") = (j \o <<"/">>) \o l
      BY <1>2, <1>4, <1>6 DEF JoinsPart
    <2>2. PICK w \in Seq(Bytes) : w = (j \o <<"/">>) \o l
      <3>1. j \o <<"/">> \in Seq(Bytes)
        BY <1>1, OneByte, ConcatProperties
      <3>2. QED
        BY <3>1, ConcatProperties
    <2>3. /\ LastOffset(w, "/") = Len(j) + 1 /\ Len(j) \in Nat /\ Cut(w, Len(j)) = j
          /\ After(w, Len(j) + 1) = l
      BY <1>1, <2>2, LastOffsetAt
    <2>4. Max({(Len(j) + 1) - 1, 0}) = Len(j)
      <3>1. PICK k \in Nat : k = Len(j) /\ (Len(j) + 1) - 1 = k
        BY <2>3
      <3>2. Max({k, 0}) = IF k <= 0 THEN 0 ELSE k
        <4>1. k \in Int /\ 0 \in Int
          OBVIOUS
        <4>2. QED
          BY <4>1, MaxOfTwo
      <3>3. QED
        BY <3>1, <3>2
    <2>5. PathBasename(w) = l
      BY <2>3 DEF PathBasename
    <2>6. Len(w) = (Len(j) + 1) + Len(l)
      <3>1. PICK r \in Seq(Bytes) : r = j \o <<"/">> /\ Len(r) = Len(j) + 1
        BY <1>1, LastOffsetAt
      <3>2. Len(r \o l) = Len(r) + Len(l)
        BY ConcatProperties
      <3>3. QED
        BY <2>2, <3>1, <3>2
    <2>7. w # << >>
      BY <1>1, <2>3, <2>6, EmptySeq
    <2>8. QED
      BY <1>1, <1>4, <1>6, <2>1, <2>2, <2>3, <2>4, <2>5, <2>6, <2>7 DEF EndsIn
  <1>7. QED
    BY <1>5, <1>6

\* What a loop keeps: names, and no slash in them.
Clean(dirs) ==
  \A i \in DOMAIN dirs : Without(dirs[i], "/") /\ dirs[i] \notin {<< >>, <<".">>}

\* One turn of either loop.
Turns(dirs, c) ==
  /\ N!KeepComponent(dirs, c) \in Seq(Seq(Bytes))
  /\ Clean(N!KeepComponent(dirs, c))
  /\ KeepComponent(Join(dirs, "/"), c) = Join(N!KeepComponent(dirs, c), "/")
  /\ Len(Join(N!KeepComponent(dirs, c), "/")) <=
       IF dirs = << >> THEN Len(c) ELSE (Len(Join(dirs, "/")) + 1) + Len(c)
  /\ \A i \in DOMAIN N!KeepComponent(dirs, c) :
       \/ N!KeepComponent(dirs, c)[i] = c
       \/ \E j \in DOMAIN dirs : N!KeepComponent(dirs, c)[i] = dirs[j]

\* A turn of the loop over the bytes and a turn of the loop of Names do the same
\* (model_mutation.c:11-74).
LEMMA OneTurn ==
  ASSUME NEW dirs \in Seq(Seq(Bytes)), Clean(dirs), NEW c \in Seq(Bytes), Without(c, "/")
  PROVE  Turns(dirs, c)
  <1>1. Len(dirs) \in Nat /\ DOMAIN dirs = 1..Len(dirs) /\ "/" \in Bytes /\ Len(c) \in Nat
    BY BytesHere, LenProperties
  <1>2. PICK out \in Seq(Bytes) : out = Join(dirs, "/") /\ Len(out) \in Nat
    BY <1>1, JoinType, LenProperties
  <1>3. dirs = << >> => out = << >> /\ Len(out) = 0
    <2>1. JoinsPart(Bytes, dirs, c, "/")
      BY <1>1, JoinParts
    <2>2. QED
      BY <1>2, <2>1, EmptySeq DEF JoinsPart
  <1>4. CASE c \in {<< >>, <<".">>}
    <2>1. N!KeepComponent(dirs, c) = dirs
      BY <1>4 DEF N!KeepComponent
    <2>2. KeepComponent(out, c) = out
      BY <1>4 DEF KeepComponent
    <2>3. Len(out) <= IF dirs = << >> THEN Len(c) ELSE (Len(out) + 1) + Len(c)
      BY <1>1, <1>2, <1>3
    <2>4. QED
      BY <1>1, <1>2, <2>1, <2>2, <2>3 DEF Turns
  <1>5. ASSUME NEW e \in Seq(Seq(Bytes)), NEW l \in Seq(Bytes), dirs = Append(e, l)
        PROVE  /\ Without(l, "/") /\ l # << >> /\ Clean(e) /\ EndsIn(e, l)
               /\ SubSeq(dirs, 1, Len(dirs) - 1) = e /\ dirs[Len(dirs)] = l /\ dirs # << >>
               /\ Len(e) \in Nat /\ DOMAIN e = 1..Len(e) /\ \A i \in DOMAIN e : e[i] = dirs[i] /\ i \in DOMAIN dirs
    <2>1. /\ Len(dirs) = Len(e) + 1 /\ dirs[Len(e) + 1] = l /\ \A i \in 1..Len(e) : dirs[i] = e[i]
          /\ Len(e) \in Nat /\ DOMAIN e = 1..Len(e)
      BY <1>5, AppendProperties, LenProperties
    <2>2. Len(e) + 1 \in DOMAIN dirs /\ Len(dirs) - 1 = Len(e) /\ \A i \in 1..Len(e) : i \in DOMAIN dirs
      BY <1>1, <2>1
    <2>3. Without(l, "/") /\ l # << >>
      BY <2>1, <2>2 DEF Clean
    <2>4. Clean(e)
      BY <2>1, <2>2 DEF Clean
    <2>5. EndsIn(e, l)
      BY <2>3, JoinEnds
    <2>6. SubSeq(dirs, 1, Len(e)) = e /\ dirs # << >>
      BY <1>5, FrontOfAppend
    <2>7. QED
      BY <2>1, <2>2, <2>3, <2>4, <2>5, <2>6
  <1>6. ASSUME c = Up, NEW e \in Seq(Seq(Bytes)), NEW l \in Seq(Bytes), dirs = Append(e, l), l # Up
        PROVE  Turns(dirs, c)
    <2>1. /\ Without(l, "/") /\ l # << >> /\ Clean(e) /\ EndsIn(e, l)
          /\ SubSeq(dirs, 1, Len(dirs) - 1) = e /\ dirs[Len(dirs)] = l /\ dirs # << >>
          /\ \A i \in DOMAIN e : e[i] = dirs[i] /\ i \in DOMAIN dirs
      BY <1>5, <1>6
    <2>2. c \notin {<< >>, <<".">>}
      BY <1>6 DEF Up
    <2>3. N!KeepComponent(dirs, c) = e
      BY <1>6, <2>1, <2>2 DEF N!KeepComponent
    <2>4. /\ PathBasename(out) = l /\ out # << >>
          /\ Cut(out, Max({LastOffset(out, "/") - 1, 0})) = Join(e, "/")
      BY <1>2, <1>6, <2>1 DEF EndsIn
    <2>5. KeepComponent(out, c) = Join(e, "/")
      BY <1>6, <2>2, <2>4 DEF KeepComponent
    <2>6. Len(Join(e, "/")) <= (Len(out) + 1) + Len(c)
      <3>1. /\ Len(out) = IF e = << >> THEN Len(l) ELSE (Len(Join(e, "/")) + 1) + Len(l)
            /\ Len(Join(e, "/")) \in Nat /\ Len(l) \in Nat
            /\ e = << >> => Join(e, "/") = << >>
        BY <1>2, <1>6, <2>1 DEF EndsIn
      <3>2. Len(<< >>) = 0
        OBVIOUS
      <3>3. QED
        BY <1>1, <3>1, <3>2
    <2>7. QED
      BY <1>2, <2>1, <2>3, <2>5, <2>6 DEF Turns
  <1>7. ASSUME c \notin {<< >>, <<".">>}, c = Up => dirs = << >> \/ dirs[Len(dirs)] = Up
        PROVE  Turns(dirs, c)
    <2>1. N!KeepComponent(dirs, c) = Append(dirs, c)
      BY <1>7 DEF N!KeepComponent
    <2>2. EndsIn(dirs, c)
      BY JoinEnds
    <2>3. dirs # << >> => out # << >> /\ PathBasename(out) = dirs[Len(dirs)]
      <3> SUFFICES ASSUME dirs # << >> PROVE out # << >> /\ PathBasename(out) = dirs[Len(dirs)]
        OBVIOUS
      <3>1. PICK e \in Seq(Seq(Bytes)), l \in Seq(Bytes) : dirs = Append(e, l)
        BY SequenceEmptyOrAppend
      <3>2. EndsIn(e, l) /\ dirs[Len(dirs)] = l /\ l # << >>
        BY <1>5, <3>1
      <3>3. QED
        BY <1>2, <3>1, <3>2 DEF EndsIn
    <2>4. KeepComponent(out, c) = IF out = << >> THEN c ELSE (out \o <<"/">>) \o c
      BY <1>3, <1>7, <2>3 DEF KeepComponent
    <2>5. Join(Append(dirs, c), "/") = IF out = << >> THEN c ELSE (out \o <<"/">>) \o c
      <3>1. dirs = << >> <=> out = << >>
        BY <1>3, <2>3
      <3>2. QED
        BY <1>2, <2>2, <3>1 DEF EndsIn
    <2>6. Len(Join(Append(dirs, c), "/")) <=
            IF dirs = << >> THEN Len(c) ELSE (Len(out) + 1) + Len(c)
      <3>1. Len(Join(Append(dirs, c), "/")) =
              IF dirs = << >> THEN Len(c) ELSE (Len(out) + 1) + Len(c)
        BY <1>2, <2>2 DEF EndsIn
      <3>2. QED
        BY <1>1, <1>2, <3>1
    <2>7. /\ Append(dirs, c) \in Seq(Seq(Bytes)) /\ Len(Append(dirs, c)) = Len(dirs) + 1
          /\ DOMAIN Append(dirs, c) = 1..Len(dirs) + 1
          /\ \A i \in 1..Len(dirs) + 1 : i \in 1..Len(dirs) \/ i = Len(dirs) + 1
          /\ Append(dirs, c)[Len(dirs) + 1] = c
          /\ \A i \in 1..Len(dirs) : Append(dirs, c)[i] = dirs[i]
      <3>1. /\ Append(dirs, c) \in Seq(Seq(Bytes)) /\ Len(Append(dirs, c)) = Len(dirs) + 1
            /\ Append(dirs, c)[Len(dirs) + 1] = c
            /\ \A i \in 1..Len(dirs) : Append(dirs, c)[i] = dirs[i]
        BY AppendProperties
      <3>2. DOMAIN Append(dirs, c) = 1..Len(dirs) + 1
        BY <3>1, LenProperties
      <3>3. \A i \in 1..Len(dirs) + 1 : i \in 1..Len(dirs) \/ i = Len(dirs) + 1
        BY <1>1
      <3>4. QED
        BY <3>1, <3>2, <3>3
    <2>8. Clean(Append(dirs, c))
      BY <1>1, <1>7, <2>7 DEF Clean
    <2>9. \A i \in DOMAIN Append(dirs, c) :
            Append(dirs, c)[i] = c \/ \E j \in DOMAIN dirs : Append(dirs, c)[i] = dirs[j]
      BY <1>1, <2>7
    <2>10. QED
      BY <1>2, <2>1, <2>4, <2>5, <2>6, <2>7, <2>8, <2>9 DEF Turns
  <1>8. CASE c \notin {<< >>, <<".">>} /\ c = Up /\ dirs # << >> /\ dirs[Len(dirs)] # Up
    <2>1. PICK e \in Seq(Seq(Bytes)), l \in Seq(Bytes) : dirs = Append(e, l)
      BY <1>8, SequenceEmptyOrAppend
    <2>2. dirs[Len(dirs)] = l
      BY <1>5, <2>1
    <2>3. QED
      BY <1>6, <1>8, <2>1, <2>2
  <1>9. QED
    BY <1>4, <1>7, <1>8

-----------------------------------------------------------------------------
(* The loops over whole paths. *)

\* Induction over sequences, for a set of sequences in the place of a predicate.
LEMMA SequenceInduction ==
  ASSUME NEW A, NEW Q, << >> \in Q,
         \A s \in Seq(A), e \in A : s \in Q => Append(s, e) \in Q
  PROVE  \A s \in Seq(A) : s \in Q
  <1> DEFINE Right == {n \in Nat : \A s \in Seq(A) : Len(s) = n => s \in Q}
  <1>1. 0 \in Right
    <2>1. \A s \in Seq(A) : Len(s) = 0 => s = << >>
      BY EmptySeq
    <2>2. QED
      BY <2>1
  <1>2. ASSUME NEW n \in Nat, n \in Right PROVE n + 1 \in Right
    <2> SUFFICES ASSUME NEW s \in Seq(A), Len(s) = n + 1 PROVE s \in Q
      OBVIOUS
    <2>1. PICK u \in Seq(A), e \in A : s = Append(u, e)
      BY EmptySeq, SequenceEmptyOrAppend
    <2>2. Len(s) = Len(u) + 1 /\ Len(u) \in Nat
      BY <2>1, AppendProperties, LenProperties
    <2>3. Len(u) = n
      <3> HIDE DEF Right
      <3>1. QED
        BY <2>2
    <2>4. u \in Q
      BY <1>2, <2>3
    <2>5. QED
      BY <2>1, <2>4
  <1>3. \A n \in Nat : n \in Right
    <2> HIDE DEF Right
    <2>1. QED
      BY <1>1, <1>2, Induction
  <1>4. \A s \in Seq(A) : Len(s) \in Nat
    BY LenProperties
  <1>5. QED
    BY <1>3, <1>4

AllWithout(parts) == \A i \in DOMAIN parts : Without(parts[i], "/")

\* Both loops keep the same, it is made of parts of the path, and is no longer.
Loops(parts) ==
  /\ N!NormalizeRelativePath(parts) \in Seq(Seq(Bytes))
  /\ Clean(N!NormalizeRelativePath(parts))
  /\ KeptText(parts) = Join(N!NormalizeRelativePath(parts), "/")
  /\ Len(Join(N!NormalizeRelativePath(parts), "/")) <= Len(Join(parts, "/"))
  /\ \A i \in DOMAIN N!NormalizeRelativePath(parts) :
       \E j \in DOMAIN parts : N!NormalizeRelativePath(parts)[i] = parts[j]

\* The two loops keep the same of every path, and never more than there was.
LEMMA LoopsAgree ==
  \A parts \in Seq(Seq(Bytes)) : AllWithout(parts) => Loops(parts)
  <1> DEFINE Q == {parts \in Seq(Seq(Bytes)) : AllWithout(parts) => Loops(parts)}
  <1>1. << >> \in Q
    <2>1. << >> \in Seq(Seq(Bytes)) /\ << >> \in Seq(Bytes) /\ "/" \in Bytes
      BY BytesHere, EmptySeq
    <2>2. N!NormalizeRelativePath(<< >>) = << >> /\ KeptText(<< >>) = << >>
      <3>1. KeepsDirs(Seq(Bytes), << >>, << >>)
        BY <2>1, KeptDirsMore
      <3>2. KeepsText(<< >>, << >>)
        BY <2>1, KeptTextMore
      <3>3. QED
        BY <3>1, <3>2 DEF KeepsDirs, KeepsText
    <2>3. Join(<< >>, "/") = << >>
      <3>1. JoinsPart(Bytes, << >>, << >>, "/")
        BY <2>1, JoinParts
      <3>2. QED
        BY <3>1 DEF JoinsPart
    <2>4. Clean(<< >>)
      BY DEF Clean
    <2>5. Len(<< >>) <= Len(<< >>)
      OBVIOUS
    <2>6. Loops(<< >>)
      BY <2>1, <2>2, <2>3, <2>4, <2>5 DEF Loops
    <2>7. QED
      BY <2>1, <2>6
  <1>2. ASSUME NEW parts \in Seq(Seq(Bytes)), NEW c \in Seq(Bytes), parts \in Q
        PROVE  Append(parts, c) \in Q
    <2>1. /\ Append(parts, c) \in Seq(Seq(Bytes)) /\ DOMAIN parts = 1..Len(parts) /\ Len(parts) \in Nat
          /\ Append(parts, c)[Len(parts) + 1] = c
          /\ DOMAIN Append(parts, c) = 1..Len(parts) + 1
          /\ \A i \in 1..Len(parts) : Append(parts, c)[i] = parts[i]
      <3>1. /\ Append(parts, c) \in Seq(Seq(Bytes)) /\ Len(Append(parts, c)) = Len(parts) + 1
            /\ Append(parts, c)[Len(parts) + 1] = c
            /\ \A i \in 1..Len(parts) : Append(parts, c)[i] = parts[i]
        BY AppendProperties
      <3>2. DOMAIN Append(parts, c) = 1..Len(parts) + 1
        BY <3>1, LenProperties
      <3>3. QED
        BY <3>1, <3>2, LenProperties
    <2> SUFFICES ASSUME AllWithout(Append(parts, c)) PROVE Loops(Append(parts, c))
      BY <2>1
    <2>2. AllWithout(parts) /\ Without(c, "/")
      <3>1. Len(parts) + 1 \in DOMAIN Append(parts, c)
            /\ \A i \in 1..Len(parts) : i \in DOMAIN Append(parts, c)
        BY <2>1
      <3>2. QED
        BY <2>1, <3>1 DEF AllWithout
    <2>3. Loops(parts)
      BY <1>2, <2>2
    <2>4. PICK dirs \in Seq(Seq(Bytes)) : dirs = N!NormalizeRelativePath(parts)
      BY <2>3 DEF Loops
    <2>5. Turns(dirs, c)
      BY <2>2, <2>3, <2>4, OneTurn DEF Loops
    <2>6. N!NormalizeRelativePath(Append(parts, c)) = N!KeepComponent(dirs, c)
          /\ (parts = << >> => dirs = << >>)
      <3>1. KeepsDirs(Seq(Bytes), parts, c)
        BY KeptDirsMore
      <3>2. QED
        BY <2>4, <3>1 DEF KeepsDirs
    <2>7. KeptText(Append(parts, c)) = KeepComponent(Join(dirs, "/"), c)
      <3>1. KeepsText(parts, c)
        BY KeptTextMore
      <3>2. QED
        BY <2>3, <2>4, <3>1 DEF KeepsText, Loops
    <2>8. Len(Join(N!KeepComponent(dirs, c), "/")) <= Len(Join(Append(parts, c), "/"))
      <3>1. EndsIn(parts, c) /\ EndsIn(dirs, c)
        BY <2>2, JoinEnds
      <3>2. /\ Len(Join(Append(parts, c), "/")) =
                 IF parts = << >> THEN Len(c) ELSE (Len(Join(parts, "/")) + 1) + Len(c)
            /\ Len(Join(parts, "/")) \in Nat /\ Len(c) \in Nat /\ Len(Join(dirs, "/")) \in Nat
        BY <3>1 DEF EndsIn
      <3>3. Len(Join(dirs, "/")) <= Len(Join(parts, "/"))
        BY <2>3, <2>4 DEF Loops
      <3>4. Len(Join(N!KeepComponent(dirs, c), "/")) <=
              IF dirs = << >> THEN Len(c) ELSE (Len(Join(dirs, "/")) + 1) + Len(c)
        BY <2>5 DEF Turns
      <3>5. Len(Join(N!KeepComponent(dirs, c), "/")) \in Nat
        <4>1. Join(N!KeepComponent(dirs, c), "/") \in Seq(Bytes)
          BY <2>5, BytesHere, JoinType DEF Turns
        <4>2. QED
          BY <4>1, LenProperties
      <3>6. QED
        BY <2>6, <3>2, <3>3, <3>4, <3>5
    <2>9. ASSUME NEW i \in DOMAIN N!KeepComponent(dirs, c)
          PROVE  \E j \in DOMAIN Append(parts, c) : N!KeepComponent(dirs, c)[i] = Append(parts, c)[j]
      <3>1. CASE N!KeepComponent(dirs, c)[i] = c
        <4>1. Len(parts) + 1 \in DOMAIN Append(parts, c)
          BY <2>1
        <4>2. QED
          BY <2>1, <3>1, <4>1
      <3>2. ASSUME NEW j \in DOMAIN dirs, N!KeepComponent(dirs, c)[i] = dirs[j]
            PROVE  \E k \in DOMAIN Append(parts, c) : N!KeepComponent(dirs, c)[i] = Append(parts, c)[k]
        <4>1. PICK k \in DOMAIN parts : dirs[j] = parts[k]
          BY <2>3, <2>4, <3>2 DEF Loops
        <4>2. k \in DOMAIN Append(parts, c) /\ Append(parts, c)[k] = parts[k]
          BY <2>1
        <4>3. QED
          BY <3>2, <4>1, <4>2
      <3>3. QED
        BY <2>5, <3>1, <3>2 DEF Turns
    <2>10. QED
      BY <2>5, <2>6, <2>7, <2>8, <2>9 DEF Loops, Turns
  <1>3. \A parts \in Seq(Seq(Bytes)) : parts \in Q
    <2> HIDE DEF Q
    <2>1. QED
      BY <1>1, <1>2, SequenceInduction
  <1>4. QED
    BY <1>3

-----------------------------------------------------------------------------
(* The bytes of components. *)

\* Components are told apart by their bytes, which hold no slash.
LEMMA Component ==
  ASSUME NEW c \in Components
  PROVE  /\ BytesOf[c] \in Seq(Bytes) /\ Without(BytesOf[c], "/") /\ Len(BytesOf[c]) = Length[c]
         /\ BytesOf[c] = << >> <=> c = Empty
         /\ BytesOf[c] = <<".">> <=> c = "."
         /\ BytesOf[c] = Up <=> c = ".."
  <1>1. BytesOf[c] \in Seq(Bytes) /\ Len(BytesOf[c]) = Length[c]
    BY BytesAssumption
  <1>2. \A i \in DOMAIN BytesOf[c] : BytesOf[c][i] # "/"
    BY BytesAssumption
  <1>3. \A d \in Components : BytesOf[c] = BytesOf[d] => c = d
    BY BytesAssumption
  <1>4. BytesOf["."] = <<".">> /\ BytesOf[".."] = Up /\ "." \in Components /\ ".." \in Components
    BY BytesAssumption, LengthAssumption DEF Up
  <1>5. Length[c] = 0 <=> c = Empty
    BY LengthAssumption
  <1>6. BytesOf[c] = << >> <=> Len(BytesOf[c]) = 0
    BY <1>1, EmptySeq
  <1>7. QED
    BY <1>1, <1>2, <1>3, <1>4, <1>5, <1>6 DEF Without

BytesOfMore(p, c) ==
  /\ BytesOfAll(Append(p, c)) = Append(BytesOfAll(p), BytesOf[c])
  /\ BytesOfAll(p) \in Seq(Seq(Bytes)) /\ AllWithout(BytesOfAll(p))
  /\ BytesOfAll(p) = << >> <=> p = << >>

\* The bytes of one more component.
LEMMA BytesOfAppend ==
  ASSUME NEW p \in Seq(Components), NEW c \in Components
  PROVE  BytesOfMore(p, c)
  <1> DEFINE more == Append(p, c)
  <1>1. /\ more \in Seq(Components) /\ Len(more) = Len(p) + 1 /\ Len(p) \in Nat
        /\ more[Len(p) + 1] = c /\ \A i \in 1..Len(p) : more[i] = p[i]
    BY AppendProperties, LenProperties
  <1>2. PICK a \in Seq(Seq(Bytes)) : /\ a = BytesOfAll(p) /\ Len(a) = Len(p)
                                     /\ \A i \in 1..Len(p) : a[i] = BytesOf[p[i]]
    BY BytesOfAllType
  <1>3. PICK m \in Seq(Seq(Bytes)) : /\ m = BytesOfAll(more) /\ Len(m) = Len(more)
                                     /\ \A i \in 1..Len(more) : m[i] = BytesOf[more[i]]
    <2> HIDE DEF more
    <2>1. QED
      BY <1>1, BytesOfAllType
  <1> HIDE DEF more
  <1>4. BytesOf[c] \in Seq(Bytes)
    BY Component
  <1>5. /\ Append(a, BytesOf[c]) \in Seq(Seq(Bytes)) /\ Len(Append(a, BytesOf[c])) = Len(p) + 1
        /\ Append(a, BytesOf[c])[Len(p) + 1] = BytesOf[c]
        /\ \A i \in 1..Len(p) : Append(a, BytesOf[c])[i] = a[i]
    BY <1>2, <1>4, AppendProperties
  <1>6. \A i \in 1..Len(p) + 1 : m[i] = Append(a, BytesOf[c])[i]
    <2>1. TAKE i \in 1..Len(p) + 1
    <2>2. i \in 1..Len(more) /\ (i \in 1..Len(p) \/ i = Len(p) + 1)
      BY <1>1
    <2>3. QED
      BY <1>1, <1>2, <1>3, <1>5, <2>2, ZenonT(60)
  <1>7. m = Append(a, BytesOf[c])
    BY <1>1, <1>3, <1>5, <1>6, SeqEqual
  <1>8. AllWithout(a)
    <2>1. DOMAIN a = 1..Len(p) /\ \A i \in 1..Len(p) : p[i] \in Components
      BY <1>2, LenProperties, ElementOfSeq
    <2>2. QED
      BY <1>2, <2>1, Component, ZenonT(60) DEF AllWithout
  <1>9. a = << >> <=> p = << >>
    BY <1>2, EmptySeq
  <1>10. QED
    BY <1>2, <1>3, <1>7, <1>8, <1>9 DEF more, BytesOfMore

\* A path is divided into the bytes of its components.
LEMMA PartsOfText ==
  ASSUME NEW p \in Seq(Components), p # << >>
  PROVE  Parts(Text(p)) = BytesOfAll(p)
  <1>1. BytesOfMore(p, Empty)
    BY LengthAssumption, BytesOfAppend
  <1>2. PICK a \in Seq(Seq(Bytes)) : a = BytesOfAll(p) /\ a # << >> /\ AllWithout(a)
    BY <1>1 DEF BytesOfMore
  <1>3. Split(Join(a, "/"), "/") = a
    BY <1>2, BytesHere, SplitJoin DEF AllWithout
  <1>4. QED
    BY <1>2, <1>3 DEF Parts, Text

-----------------------------------------------------------------------------
(* The bytes of the destination. *)

\* Nothing is read before the first component.
ReadSomething == path = << >> => consumed = 0

IInv == TypeOK /\ Contiguous /\ FitsDestination /\ ReadSomething

\* The initial state of the loop satisfies the inductive invariant.
LEMMA InitIInv == Init => IInv
  BY LengthAssumption, MaxComponentsAssumption DEF Init, IInv, ReadSomething, TypeOK, Contiguous, FitsDestination, Last

\* The cursor moves on by the component and, except at first, by a slash.
LEMMA AdvanceType ==
  ASSUME IInv, NEW c \in Components, Advance(c)
  PROVE  /\ path' \in Seq(Components) /\ Len(path') <= MaxComponents
         /\ path' # << >>
         /\ consumed' \in Nat
         /\ consumed' >= consumed + Length[c]
         /\ path # << >> => consumed' = consumed + Length[c] + 1
  <1>1. Length[c] \in Nat
    BY LengthAssumption
  <1>2. QED
    BY <1>1, MaxComponentsAssumption DEF IInv, TypeOK, Advance

\* What a sequence over a set holds, and what is left without its last element.
LEMMA ElementIn ==
  ASSUME NEW A, NEW s \in Seq(A), NEW i \in 1..Len(s)
  PROVE  s[i] \in A
  OBVIOUS

\* The last component is where the used bytes end, if any byte is used.
LEMMA LastPlaced ==
  ASSUME IInv, used > 0
  PROVE  /\ destination # << >> /\ Len(destination) \in Nat \ {0}
         /\ Last \in [name : Components, start : Nat]
         /\ Last.name \notin {Empty, "."}
         /\ used = Last.start + Length[Last.name]
  <1>1. destination # << >>
    BY DEF IInv, Contiguous
  <1>2. Len(destination) \in 1..Len(destination) /\ Len(destination) \in Nat \ {0}
    BY <1>1 DEF IInv, TypeOK
  <1>3. Last \in [name : Components, start : Nat]
    BY <1>2, ElementIn DEF IInv, TypeOK, Last
  <1>4. Last.name \notin {Empty, "."}
    BY <1>2 DEF IInv, Contiguous, Last
  <1>5. used = Last.start + Length[Last.name]
    BY <1>1 DEF IInv, Contiguous
  <1>6. QED
    BY <1>1, <1>2, <1>3, <1>4, <1>5

\* Components that are copied or taken away have at least one byte.
LEMMA NameLength ==
  ASSUME NEW c \in Components, c # Empty
  PROVE  Length[c] \in Nat \ {0}
  BY LengthAssumption

\* Nothing is used only while nothing is kept.
LEMMA UsedIfKept ==
  ASSUME IInv, destination # << >>
  PROVE  used > 0
  <1>1. Len(destination) \in 1..Len(destination)
    BY DEF IInv, TypeOK
  <1>2. Last \in [name : Components, start : Nat] /\ Last.name # Empty
    <2>1. Last \in [name : Components, start : Nat]
      BY <1>1, ElementIn DEF IInv, TypeOK, Last
    <2>2. Last.name # Empty
      BY <1>1 DEF IInv, Contiguous, Last
    <2>3. QED
      BY <2>1, <2>2
  <1>3. used = Last.start + Length[Last.name]
    BY DEF IInv, Contiguous
  <1>4. QED
    BY <1>2, <1>3, NameLength

\* Bytes are used only once some have been read.
LEMMA ReadBeforeUsed ==
  ASSUME IInv, used > 0
  PROVE  path # << >>
  BY DEF IInv, TypeOK, FitsDestination, ReadSomething

\* "." and the empty component leave the destination alone.
LEMMA SkipIInv ==
  ASSUME IInv, Skip
  PROVE  IInv'
  <1>1. PICK c \in {Empty, "."} : Advance(c) /\ UNCHANGED <<destination, used>>
    BY DEF Skip
  <1>2. c \in Components /\ Length[c] \in Nat
    BY LengthAssumption
  <1>3. TypeOK' /\ consumed' >= consumed
    BY <1>1, <1>2, AdvanceType DEF IInv, TypeOK
  <1>4. Contiguous'
    BY <1>1 DEF IInv, Contiguous, Last
  <1>5. FitsDestination'
    BY <1>1, <1>3 DEF IInv, TypeOK, FitsDestination
  <1>6. ReadSomething'
    BY <1>1, <1>2, AdvanceType DEF ReadSomething
  <1>7. QED
    BY <1>3, <1>4, <1>5, <1>6 DEF IInv

\* ".." goes back to the end of the component before the one it takes away.
LEMMA GoUpIInv ==
  ASSUME IInv, GoUp
  PROVE  IInv'
  <1> DEFINE n == Len(destination)
  <1>1. used > 0 /\ ".." \in Components /\ Advance("..")
    BY LengthAssumption DEF GoUp, GoesUp
  <1>2. /\ n \in Nat \ {0} /\ Last \in [name : Components, start : Nat]
        /\ used = Last.start + Length[Last.name] /\ Length[Last.name] \in Nat \ {0}
    BY <1>1, LastPlaced, NameLength
  <1>3. /\ path' \in Seq(Components) /\ Len(path') <= MaxComponents
        /\ consumed' \in Nat /\ consumed' >= consumed
    BY <1>1, AdvanceType, LengthAssumption DEF IInv, TypeOK
  <1>4. /\ destination' = SubSeq(destination, 1, n - 1)
        /\ destination' \in Seq([name : Components, start : Nat])
        /\ Len(destination') = n - 1
        /\ \A i \in 1..(n - 1) : destination'[i] = destination[i]
    BY <1>2, WithoutLast DEF GoUp, IInv, TypeOK
  <1>5. used' = IF Last.start = 0 THEN 0 ELSE Last.start - 1
    BY DEF GoUp, UsedWithoutLast
  <1>6. used' \in Nat /\ used' <= used
    BY <1>2, <1>5
  <1>7. TypeOK'
    BY <1>3, <1>4, <1>6 DEF TypeOK
  <1>8. FitsDestination'
    BY <1>3, <1>6 DEF IInv, TypeOK, FitsDestination
  <1>9. Contiguous'
    <2>1. \A i \in 1..Len(destination') :
            /\ destination'[i].name \notin {Empty, "."}
            /\ destination'[i].start =
                 IF i = 1 THEN 0
                 ELSE destination'[i - 1].start + Length[destination'[i - 1].name] + 1
      BY <1>2, <1>4 DEF IInv, Contiguous
    <2>2. CASE n = 1
      <3>1. destination' = << >>
        BY <2>2, <1>4
      <3>2. Last.start = 0
        BY <2>2 DEF IInv, Contiguous, Last
      <3>3. QED
        BY <2>1, <3>1, <3>2, <1>5 DEF Contiguous
    <2>3. CASE n > 1
      <3>1. /\ n - 1 \in 1..(n - 1) /\ destination' # << >>
            /\ Last' = destination[n - 1]
            /\ destination[n - 1] \in [name : Components, start : Nat]
        <4>1. n - 1 \in 1..(n - 1) /\ n - 1 \in 1..n
          BY <2>3, <1>2
        <4>2. destination[n - 1] \in [name : Components, start : Nat]
          BY <4>1, ElementIn DEF IInv, TypeOK
        <4>3. Len(destination') = n - 1 /\ destination' # << >>
          <5>1. Len(destination') = n - 1
            BY <1>4
          <5>2. Len(destination') # 0
            BY <2>3, <1>2, <5>1
          <5>3. destination' = << >> => Len(destination') = 0
            OBVIOUS
          <5>4. QED
            BY <5>1, <5>2, <5>3
        <4>4. Last' = destination[n - 1]
          BY <4>1, <4>3, <1>4 DEF Last
        <4>5. QED
          BY <4>1, <4>2, <4>3, <4>4
      <3>2. /\ Last.start = destination[n - 1].start + Length[destination[n - 1].name] + 1
            /\ destination[n - 1].name # Empty
        BY <2>3, <1>2 DEF IInv, Contiguous, Last
      <3>3. Length[destination[n - 1].name] \in Nat
        BY <3>1, LengthAssumption
      <3>4. used' = Last'.start + Length[Last'.name]
        BY <3>1, <3>2, <3>3, <1>5
      <3>5. QED
        BY <2>1, <3>1, <3>4 DEF Contiguous
    <2>4. n = 1 \/ n > 1
      <3>1. n \in Nat \ {0}
        BY <1>2
      <3> HIDE DEF n
      <3>2. QED
        BY <3>1
    <2>5. QED
      BY <2>2, <2>3, <2>4
  <1>10. ReadSomething'
    BY <1>1, AdvanceType DEF ReadSomething
  <1>11. QED
    BY <1>7, <1>8, <1>9, <1>10 DEF IInv

\* A component is copied behind the slash that ends the used bytes.
LEMMA CopyIInv ==
  ASSUME IInv, Copy
  PROVE  IInv'
  <1>1. PICK c \in Components \ {Empty, "."} :
          /\ Advance(c)
          /\ destination' = Append(destination, [name |-> c, start |-> Offset])
          /\ used' = Offset + Length[c]
    BY DEF Copy
  <1> DEFINE n == Len(destination)
  <1>2. Length[c] \in Nat \ {0} /\ n \in Nat /\ used \in Nat /\ Offset \in Nat
    BY <1>1, NameLength DEF IInv, TypeOK, Offset
  <1>3. /\ path' \in Seq(Components) /\ Len(path') <= MaxComponents
        /\ consumed' \in Nat /\ consumed' >= consumed + Length[c]
        /\ path # << >> => consumed' = consumed + Length[c] + 1
    BY <1>1, AdvanceType
  <1>4. /\ destination' \in Seq([name : Components, start : Nat])
        /\ Len(destination') = n + 1 /\ destination' # << >>
        /\ \A i \in 1..n : destination'[i] = destination[i]
        /\ destination'[n + 1] = [name |-> c, start |-> Offset]
    BY <1>1, <1>2 DEF IInv, TypeOK
  <1>5. used' \in Nat
    BY <1>1, <1>2
  <1>6. TypeOK'
    BY <1>3, <1>4, <1>5 DEF TypeOK
  <1>7. FitsDestination'
    <2>1. CASE used = 0
      BY <2>1, <1>1, <1>2, <1>3 DEF Offset, FitsDestination, IInv, TypeOK
    <2>2. CASE used > 0
      <3>1. path # << >>
        BY <2>2, ReadBeforeUsed
      <3>2. QED
        BY <2>2, <3>1, <1>1, <1>2, <1>3 DEF Offset, FitsDestination, IInv, TypeOK
    <2>3. QED
      BY <2>1, <2>2, <1>2
  <1>8. Contiguous'
    <2>1. Offset = IF n = 0 THEN 0 ELSE Last.start + Length[Last.name] + 1
      <3>1. CASE destination = << >>
        BY <3>1 DEF Offset, IInv, Contiguous
      <3>2. CASE destination # << >>
        BY <3>2, UsedIfKept, LastPlaced DEF Offset
      <3>3. QED
        BY <3>1, <3>2
    <2>2. \A i \in 1..Len(destination') :
            /\ destination'[i].name \notin {Empty, "."}
            /\ destination'[i].start =
                 IF i = 1 THEN 0
                 ELSE destination'[i - 1].start + Length[destination'[i - 1].name] + 1
      <3>1. TAKE i \in 1..Len(destination')
      <3>2. CASE i \in 1..n
        <4>1. i = 1 \/ i - 1 \in 1..n
          BY <3>2, <1>2
        <4>2. i \in 1..Len(destination)
          BY <3>2
        <4>3. /\ destination[i].name \notin {Empty, "."}
              /\ destination[i].start =
                   IF i = 1 THEN 0
                   ELSE destination[i - 1].start + Length[destination[i - 1].name] + 1
          BY <4>2 DEF IInv, Contiguous
        <4>4. QED
          BY <3>2, <4>1, <4>3, <1>4
      <3>3. CASE i = n + 1
        BY <3>3, <2>1, <1>1, <1>2, <1>4 DEF Last
      <3>4. QED
        BY <3>2, <3>3, <1>2, <1>4
    <2>3. used' = Last'.start + Length[Last'.name]
      BY <1>1, <1>2, <1>4 DEF Last
    <2>4. QED
      BY <2>2, <2>3, <1>4 DEF Contiguous
  <1>9. ReadSomething'
    BY <1>1, AdvanceType DEF ReadSomething
  <1>10. QED
    BY <1>6, <1>7, <1>8, <1>9 DEF IInv

\* The bytes, their places and their bound, for every path.
THEOREM Invariant == Spec => []IInv
  <1>1. Init => IInv
    BY InitIInv
  <1>2. IInv /\ [Next]_vars => IInv'
    <2>1. SUFFICES ASSUME IInv, [Next]_vars PROVE IInv'
      OBVIOUS
    <2>2. CASE Skip
      BY <2>1, <2>2, SkipIInv
    <2>3. CASE GoUp
      BY <2>1, <2>3, GoUpIInv
    <2>4. CASE Copy
      BY <2>1, <2>4, CopyIInv
    <2>5. CASE UNCHANGED vars
      BY <2>1, <2>5 DEF IInv, ReadSomething, TypeOK, Contiguous, FitsDestination, Last, vars
    <2>6. QED
      BY <2>1, <2>2, <2>3, <2>4, <2>5 DEF Next
  <1>3. QED
    BY <1>1, <1>2, PTL DEF Spec

\* The types of the loop's variables: no offset is ever negative.
THEOREM TypeCorrect == Spec => []TypeOK
  <1>1. IInv => TypeOK
    BY DEF IInv
  <1>2. QED
    BY <1>1, Invariant, PTL

\* Each component follows the slash after the component before it.
THEOREM StaysContiguous == Spec => []Contiguous
  <1>1. IInv => Contiguous
    BY DEF IInv
  <1>2. QED
    BY <1>1, Invariant, PTL

\* The comment of model_mutation.c:57-60 is right: a copied component fits.
THEOREM Fits == Spec => []FitsDestination
  <1>1. IInv => FitsDestination
    BY DEF IInv
  <1>2. QED
    BY <1>1, Invariant, PTL

\* Only leading ".." remain, for ".." is copied only behind another or at the
\* start of the destination.
THEOREM StaysNormal == Spec => []NormalForm
  <1>1. Init => NormalForm
    BY DEF Init, NormalForm
  <1>2. IInv /\ NormalForm /\ [Next]_vars => NormalForm'
    <2>1. SUFFICES ASSUME IInv, NormalForm, [Next]_vars PROVE NormalForm'
      OBVIOUS
    <2>2. CASE Skip \/ UNCHANGED vars
      BY <2>1, <2>2 DEF Skip, NormalForm, vars
    <2>3. CASE GoUp
      <3>1. used > 0
        BY <2>3 DEF GoUp, GoesUp
      <3>2. /\ Len(destination) \in Nat \ {0}
            /\ destination' = SubSeq(destination, 1, Len(destination) - 1)
        BY <2>1, <2>3, <3>1, LastPlaced DEF GoUp
      <3>3. /\ DOMAIN destination' = 1..(Len(destination) - 1)
            /\ DOMAIN destination = 1..Len(destination)
            /\ \A i \in 1..(Len(destination) - 1) : destination'[i] = destination[i]
        BY <2>1, <3>2 DEF IInv, TypeOK
      <3>4. QED
        BY <2>1, <3>2, <3>3 DEF NormalForm
    <2>4. CASE Copy
      <3>1. PICK c \in Components \ {Empty, "."} :
              /\ ~GoesUp(c)
              /\ destination' = Append(destination, [name |-> c, start |-> Offset])
        BY <2>4 DEF Copy
      <3> DEFINE n == Len(destination)
      <3>2. /\ n \in Nat /\ DOMAIN destination' = 1..(n + 1) /\ DOMAIN destination = 1..n
            /\ \A i \in 1..n : destination'[i] = destination[i]
            /\ destination'[n + 1].name = c
        BY <2>1, <3>1 DEF IInv, TypeOK
      <3>3. c = ".." => \A i \in 1..n : destination[i].name = ".."
        <4>1. SUFFICES ASSUME c = "..", NEW i \in 1..n PROVE destination[i].name = ".."
          OBVIOUS
        <4>2. used > 0
          BY <2>1, <3>2, <4>1, UsedIfKept
        <4>3. Last.name = ".."
          BY <3>1, <4>1, <4>2 DEF GoesUp
        <4>4. QED
          BY <2>1, <3>2, <4>1, <4>3 DEF NormalForm, Last
      <3>4. QED
        BY <2>1, <3>2, <3>3 DEF NormalForm
    <2>5. QED
      BY <2>1, <2>2, <2>3, <2>4 DEF Next
  <1>3. QED
    BY <1>1, <1>2, Invariant, PTL DEF Spec

-----------------------------------------------------------------------------
(* The loop of the steps. *)

NamesIn(d) == [i \in DOMAIN d |-> d[i].name]

Places == [name : Components, start : Nat]

\* The names of the components kept.
LEMMA NamesInType ==
  ASSUME NEW d \in Seq(Places)
  PROVE  /\ NamesIn(d) \in Seq(Components) /\ Len(NamesIn(d)) = Len(d)
         /\ \A i \in 1..Len(d) : NamesIn(d)[i] = d[i].name
  <1>1. DOMAIN d = 1..Len(d) /\ Len(d) \in Nat
    BY LenProperties
  <1>2. \A i \in 1..Len(d) : d[i].name \in Components
    <2>1. \A i \in 1..Len(d) : d[i] \in Places
      BY ElementOfSeq
    <2>2. QED
      BY <2>1 DEF Places
  <1>3. NamesIn(d) \in [1..Len(d) -> Components]
    BY <1>1, <1>2 DEF NamesIn
  <1>4. NamesIn(d) \in Seq(Components) /\ Len(NamesIn(d)) = Len(d)
    BY <1>1, <1>3, LenProperties
  <1>5. QED
    BY <1>1, <1>4 DEF NamesIn

\* What is kept, as bytes.
KeptNames == BytesOfAll(NamesIn(destination))

\* The steps keep what the loop of Names keeps.
KeepsAsNames == N!NormalizeRelativePath(BytesOfAll(path)) = KeptNames

\* The bytes of the components kept.
LEMMA KeptNamesAre ==
  ASSUME NEW d \in Seq(Places)
  PROVE  /\ BytesOfAll(NamesIn(d)) \in Seq(Seq(Bytes)) /\ Len(BytesOfAll(NamesIn(d))) = Len(d)
         /\ \A i \in 1..Len(d) : BytesOfAll(NamesIn(d))[i] = BytesOf[d[i].name]
  <1>1. PICK a \in Seq(Components) :
          a = NamesIn(d) /\ Len(a) = Len(d) /\ \A i \in 1..Len(d) : a[i] = d[i].name
    BY NamesInType
  <1>2. QED
    BY <1>1, BytesOfAllType

\* The loop of Names on one more component.
LEMMA OneMoreKept ==
  ASSUME TypeOK, KeepsAsNames, NEW c \in Components
  PROVE  /\ N!NormalizeRelativePath(BytesOfAll(Append(path, c))) = N!KeepComponent(KeptNames, BytesOf[c])
         /\ KeptNames \in Seq(Seq(Bytes)) /\ Len(KeptNames) = Len(destination)
         /\ \A i \in 1..Len(destination) : KeptNames[i] = BytesOf[destination[i].name]
  <1>1. path \in Seq(Components) /\ destination \in Seq(Places)
    BY DEF TypeOK, Places
  <1>2. BytesOfMore(path, c) /\ BytesOf[c] \in Seq(Bytes)
    BY <1>1, BytesOfAppend, Component
  <1>3. PICK a \in Seq(Seq(Bytes)) :
          a = BytesOfAll(path) /\ BytesOfAll(Append(path, c)) = Append(a, BytesOf[c])
    BY <1>2 DEF BytesOfMore
  <1>4. KeepsDirs(Seq(Bytes), a, BytesOf[c])
    BY <1>2, KeptDirsMore
  <1>5. N!NormalizeRelativePath(Append(a, BytesOf[c])) = N!KeepComponent(KeptNames, BytesOf[c])
    BY <1>3, <1>4 DEF KeepsDirs, KeepsAsNames
  <1>6. QED
    BY <1>1, <1>3, <1>5, KeptNamesAre DEF KeptNames

\* What is skipped, Names skips.
LEMMA SkipKeeps ==
  ASSUME TypeOK, KeepsAsNames, Skip
  PROVE  KeepsAsNames'
  <1>1. PICK c \in {Empty, "."} : path' = Append(path, c) /\ destination' = destination
    BY DEF Skip, Advance
  <1>2. c \in Components /\ BytesOf[c] \in {<< >>, <<".">>}
    <2>1. c \in Components BY LengthAssumption
    <2>2. QED
      BY <2>1, Component
  <1>3. N!KeepComponent(KeptNames, BytesOf[c]) = KeptNames
    BY <1>2 DEF N!KeepComponent
  <1>4. N!NormalizeRelativePath(BytesOfAll(Append(path, c))) = KeptNames
    BY <1>2, <1>3, OneMoreKept
  <1>5. QED
    BY <1>1, <1>4 DEF KeepsAsNames, KeptNames

\* What is copied, Names keeps, for ".." is copied only where Names keeps it.
LEMMA CopyKeeps ==
  ASSUME IInv, KeepsAsNames, Copy
  PROVE  KeepsAsNames'
  <1>1. PICK c \in Components \ {Empty, "."} :
          /\ path' = Append(path, c) /\ ~GoesUp(c)
          /\ destination' = Append(destination, [name |-> c, start |-> Offset])
    BY DEF Copy, Advance
  <1> DEFINE e == [name |-> c, start |-> Offset]
  <1>2. TypeOK /\ destination \in Seq(Places) /\ used \in Nat
    BY DEF IInv, TypeOK, Places
  <1>3. e \in Places /\ e.name = c
    BY <1>1, <1>2 DEF Offset, Places
  <1> HIDE DEF e
  <1>4. /\ N!NormalizeRelativePath(BytesOfAll(Append(path, c))) = N!KeepComponent(KeptNames, BytesOf[c])
        /\ KeptNames \in Seq(Seq(Bytes)) /\ Len(KeptNames) = Len(destination)
        /\ \A i \in 1..Len(destination) : KeptNames[i] = BytesOf[destination[i].name]
    BY <1>1, <1>2, OneMoreKept
  <1>5. /\ BytesOf[c] \in Seq(Bytes) /\ BytesOf[c] \notin {<< >>, <<".">>}
        /\ BytesOf[c] = Up => c = ".."
    BY <1>1, Component
  <1>6. N!KeepComponent(KeptNames, BytesOf[c]) = Append(KeptNames, BytesOf[c])
    <2>1. SUFFICES ASSUME BytesOf[c] = Up, KeptNames # << >> PROVE KeptNames[Len(KeptNames)] = Up
      BY <1>5 DEF N!KeepComponent
    <2>2. Len(destination) \in 1..Len(destination) /\ destination # << >>
      BY <1>2, <1>4, <2>1, EmptySeq, LenProperties
    <2>3. Last.name = ".."
      <3>1. used > 0
        BY <2>2, UsedIfKept
      <3>2. QED
        BY <1>1, <1>5, <2>1, <3>1 DEF GoesUp
    <2>4. QED
      BY <1>4, <1>5, <2>1, <2>2, <2>3 DEF Last
  <1>7. /\ destination' = Append(destination, e) /\ destination' \in Seq(Places)
        /\ Len(destination') = Len(destination) + 1 /\ Len(destination) \in Nat
        /\ \A i \in 1..Len(destination) : destination'[i] = destination[i]
        /\ destination'[Len(destination) + 1] = e
    BY <1>1, <1>2, <1>3, AppendProperties, LenProperties DEF e
  <1>8. PICK m \in Seq(Seq(Bytes)) :
          /\ m = BytesOfAll(NamesIn(destination')) /\ Len(m) = Len(destination')
          /\ \A i \in 1..Len(destination') : m[i] = BytesOf[destination'[i].name]
    BY <1>7, KeptNamesAre
  <1>9. PICK k \in Seq(Seq(Bytes)) :
          k = KeptNames /\ Len(k) = Len(destination)
          /\ \A i \in 1..Len(destination) : k[i] = BytesOf[destination[i].name]
    BY <1>4
  <1>10. /\ Append(k, BytesOf[c]) \in Seq(Seq(Bytes)) /\ Len(Append(k, BytesOf[c])) = Len(k) + 1
         /\ Append(k, BytesOf[c])[Len(k) + 1] = BytesOf[c]
         /\ \A i \in 1..Len(k) : Append(k, BytesOf[c])[i] = k[i]
    BY <1>5, AppendProperties
  <1>11. \A i \in 1..Len(m) : m[i] = Append(k, BytesOf[c])[i]
    <2>1. TAKE i \in 1..Len(m)
    <2>2. i \in 1..Len(destination) \/ i = Len(destination) + 1
      BY <1>7, <1>8
    <2>3. CASE i \in 1..Len(destination)
      <3>1. destination'[i] = destination[i]
        BY <2>3, <1>7
      <3>2. k[i] = BytesOf[destination[i].name] /\ i \in 1..Len(k)
        BY <2>3, <1>9
      <3>3. m[i] = BytesOf[destination'[i].name]
        BY <1>8
      <3>4. Append(k, BytesOf[c])[i] = k[i]
        BY <3>2, <1>10
      <3>5. QED
        BY <3>1, <3>2, <3>3, <3>4
    <2>4. CASE i = Len(destination) + 1
      <3>1. destination'[i] = e
        BY <2>4, <1>7
      <3>2. m[i] = BytesOf[destination'[i].name]
        BY <1>8
      <3>3. Append(k, BytesOf[c])[i] = BytesOf[c]
        BY <2>4, <1>9, <1>10
      <3>4. QED
        BY <1>3, <3>1, <3>2, <3>3
    <2>5. QED
      BY <2>2, <2>3, <2>4
  <1>12. m = Append(k, BytesOf[c])
    BY <1>7, <1>8, <1>9, <1>10, <1>11, SeqEqual
  <1>13. QED
    BY <1>1, <1>4, <1>6, <1>8, <1>9, <1>12 DEF KeepsAsNames, KeptNames

\* What is taken away, Names takes away.
LEMMA GoUpKeeps ==
  ASSUME IInv, KeepsAsNames, GoUp
  PROVE  KeepsAsNames'
  <1>1. /\ path' = Append(path, "..") /\ GoesUp("..")
        /\ destination' = SubSeq(destination, 1, Len(destination) - 1)
    BY DEF GoUp, Advance
  <1>2. TypeOK /\ destination \in Seq(Places) /\ ".." \in Components
    BY LengthAssumption DEF IInv, TypeOK, Places
  <1>3. Len(destination) \in Nat \ {0} /\ Last.name \in Components /\ Last.name # ".."
    BY <1>1, LastPlaced DEF GoesUp
  <1>4. /\ N!NormalizeRelativePath(BytesOfAll(Append(path, ".."))) = N!KeepComponent(KeptNames, BytesOf[".."])
        /\ KeptNames \in Seq(Seq(Bytes)) /\ Len(KeptNames) = Len(destination)
        /\ \A i \in 1..Len(destination) : KeptNames[i] = BytesOf[destination[i].name]
    BY <1>2, OneMoreKept
  <1>5. BytesOf[".."] = Up /\ BytesOf[Last.name] # Up /\ Up # << >> /\ Up # <<".">>
    <2>1. BytesOf[".."] = Up /\ BytesOf[Last.name] # Up
      BY <1>2, <1>3, Component
    <2>2. QED
      BY <2>1, <1>2, LengthAssumption, Component
  <1>6. KeptNames # << >> /\ KeptNames[Len(KeptNames)] = BytesOf[Last.name]
    <2>1. Len(destination) \in 1..Len(destination)
      BY <1>3
    <2>2. KeptNames # << >>
      BY <1>3, <1>4, EmptySeq
    <2>3. QED
      BY <1>4, <2>1, <2>2 DEF Last
  <1>7. N!KeepComponent(KeptNames, BytesOf[".."]) = SubSeq(KeptNames, 1, Len(KeptNames) - 1)
    BY <1>5, <1>6 DEF N!KeepComponent
  <1>8. /\ destination' \in Seq(Places) /\ Len(destination') = Len(destination) - 1
        /\ \A i \in 1..Len(destination) - 1 : destination'[i] = destination[i]
    BY <1>1, <1>2, <1>3, WithoutLast
  <1>9. PICK m \in Seq(Seq(Bytes)) :
          /\ m = BytesOfAll(NamesIn(destination')) /\ Len(m) = Len(destination')
          /\ \A i \in 1..Len(destination') : m[i] = BytesOf[destination'[i].name]
    BY <1>8, KeptNamesAre
  <1>10. PICK k \in Seq(Seq(Bytes)) :
           k = KeptNames /\ Len(k) = Len(destination)
           /\ \A i \in 1..Len(destination) : k[i] = BytesOf[destination[i].name]
    BY <1>4
  <1>11. /\ SubSeq(k, 1, Len(k) - 1) \in Seq(Seq(Bytes)) /\ Len(SubSeq(k, 1, Len(k) - 1)) = Len(k) - 1
         /\ \A i \in 1..Len(k) - 1 : SubSeq(k, 1, Len(k) - 1)[i] = k[i]
    BY <1>3, <1>10, WithoutLast
  <1>12. \A i \in 1..Len(m) : m[i] = SubSeq(k, 1, Len(k) - 1)[i]
    <2>1. TAKE i \in 1..Len(m)
    <2>2. i \in 1..Len(destination) - 1 /\ i \in 1..Len(destination)
      BY <1>3, <1>8, <1>9
    <2>3. destination'[i] = destination[i]
      BY <2>2, <1>8
    <2>4. k[i] = BytesOf[destination[i].name]
      BY <2>2, <1>10
    <2>5. m[i] = BytesOf[destination'[i].name]
      BY <1>9
    <2>6. SubSeq(k, 1, Len(k) - 1)[i] = k[i]
      BY <2>2, <1>10, <1>11
    <2>7. QED
      BY <2>3, <2>4, <2>5, <2>6
  <1>13. m = SubSeq(k, 1, Len(k) - 1)
    <2>1. PICK t \in Seq(Seq(Bytes)) :
            /\ t = SubSeq(k, 1, Len(k) - 1) /\ Len(t) = Len(k) - 1
      BY <1>11
    <2>2. Len(m) = Len(t)
      BY <1>8, <1>9, <1>10, <2>1
    <2>3. \A i \in 1..Len(m) : m[i] = t[i]
      BY <1>12, <2>1
    <2>4. m = t
      BY <2>2, <2>3, SeqEqual
    <2>5. QED
      BY <2>1, <2>4
  <1>14. QED
    BY <1>1, <1>4, <1>7, <1>9, <1>10, <1>13 DEF KeepsAsNames, KeptNames

\* For every path, the steps of the loop keep the components the loop of Names
\* keeps (model_mutation.c:11-74).
THEOREM StepsKeepAsNames == Spec => []KeepsAsNames
  <1>1. Init => KeepsAsNames
    <2>1. SUFFICES ASSUME Init PROVE KeepsAsNames
      OBVIOUS
    <2>2. path = << >> /\ destination = << >> /\ << >> \in Seq(Components) /\ << >> \in Seq(Places)
          /\ << >> \in Seq(Seq(Bytes)) /\ << >> \in Seq(Bytes)
      <3>1. path = << >> /\ destination = << >>
        BY <2>1 DEF Init
      <3>2. << >> \in Seq(Components) /\ << >> \in Seq(Places)
        OBVIOUS
      <3>3. << >> \in Seq(Seq(Bytes)) /\ << >> \in Seq(Bytes)
        OBVIOUS
      <3>4. QED
        BY <3>1, <3>2, <3>3
    <2>3. BytesOfAll(<< >>) = << >>
      BY <2>2, BytesOfAllType, EmptySeq
    <2>4. NamesIn(<< >>) = << >>
      BY <2>2, NamesInType, EmptySeq
    <2>5. KeepsDirs(Seq(Bytes), << >>, << >>)
      BY <2>2, KeptDirsMore
    <2>6. N!NormalizeRelativePath(<< >>) = << >>
      BY <2>5 DEF KeepsDirs
    <2>7. QED
      BY <2>2, <2>3, <2>4, <2>6 DEF KeepsAsNames, KeptNames
  <1>2. IInv /\ KeepsAsNames /\ [Next]_vars => KeepsAsNames'
    <2>1. SUFFICES ASSUME IInv, KeepsAsNames, [Next]_vars PROVE KeepsAsNames'
      OBVIOUS
    <2>2. CASE Skip
      BY <2>1, <2>2, SkipKeeps DEF IInv
    <2>3. CASE GoUp
      BY <2>1, <2>3, GoUpKeeps
    <2>4. CASE Copy
      BY <2>1, <2>4, CopyKeeps
    <2>5. CASE UNCHANGED vars
      BY <2>1, <2>5 DEF vars, KeepsAsNames, KeptNames, NamesIn
    <2>6. QED
      BY <2>1, <2>2, <2>3, <2>4, <2>5 DEF Next
  <1>3. QED
    BY <1>1, <1>2, Invariant, PTL DEF Spec

-----------------------------------------------------------------------------
(* Paths one after the other. *)

\* The loop over the bytes of a path keeps what the loop of Names keeps.
LEMMA KeptOf ==
  ASSUME NEW p \in Seq(Components)
  PROVE  NormalizeRelativePath(Text(p)) = Join(N!NormalizeRelativePath(BytesOfAll(p)), "/")
  <1>1. Text(p) \in Seq(Bytes) /\ << >> \in Seq(Bytes) /\ << >> \in Seq(Seq(Bytes))
    BY TextType, EmptySeq
  <1>2. NormalizeRelativePath(Text(p)) = KeptText(Parts(Text(p)))
    BY <1>1, KeptFold DEF KeptText
  <1>3. PICK a \in Seq(Seq(Bytes)) : a = BytesOfAll(p) /\ AllWithout(a) /\ (a = << >> <=> p = << >>)
    <2>1. BytesOfMore(p, Empty)
      BY LengthAssumption, BytesOfAppend
    <2>2. QED
      BY <2>1 DEF BytesOfMore
  <1>4. CASE p # << >>
    <2>1. Parts(Text(p)) = a
      BY <1>3, <1>4, PartsOfText
    <2>2. Loops(a)
      BY <1>3, LoopsAgree
    <2>3. QED
      BY <1>2, <1>3, <2>1, <2>2 DEF Loops
  <1>5. CASE p = << >>
    <2>1. a = << >>
      BY <1>3, <1>5
    <2>2. Join(<< >>, "/") = << >>
      <3>1. JoinsPart(Bytes, << >>, << >>, "/")
        BY <1>1, BytesHere, JoinParts
      <3>2. QED
        BY <3>1 DEF JoinsPart
    <2>3. Parts(Text(p)) = << << >> >>
      BY <1>3, <2>1, <2>2, BytesHere, SplitNothing DEF Parts, Text
    <2>4. KeptText(<< << >> >>) = << >>
      <3>1. KeepsText(<< >>, << >>)
        BY <1>1, KeptTextMore
      <3>2. Append(<< >>, << >>) = << << >> >>
        OBVIOUS
      <3>3. KeepComponent(<< >>, << >>) = << >>
        BY DEF KeepComponent
      <3>4. QED
        BY <3>1, <3>2, <3>3 DEF KeepsText
    <2>5. N!NormalizeRelativePath(a) = << >>
      <3>1. KeepsDirs(Seq(Bytes), << >>, << >>)
        BY <1>1, KeptDirsMore
      <3>2. QED
        BY <2>1, <3>1 DEF KeepsDirs
    <2>6. QED
      BY <1>2, <1>3, <2>2, <2>3, <2>4, <2>5
  <1>6. QED
    BY <1>4, <1>5

\* The paths of the steps are those the loop over the bytes keeps.
LEMMA KeptAsText ==
  ASSUME TypeOK, KeepsAsNames
  PROVE  NormalizeRelativePath(Text(path)) = Text([i \in DOMAIN destination |-> destination[i].name])
  <1>1. path \in Seq(Components)
    BY DEF TypeOK
  <1>2. QED
    BY <1>1, KeptOf DEF KeepsAsNames, KeptNames, NamesIn, Text

JoinsAll(f, g) ==
  /\ f # << >> /\ g # << >> => Join(f \o g, "/") = (Join(f, "/") \o <<"/">>) \o Join(g, "/")
  /\ f \o g \in Seq(Seq(Bytes))

\* Two paths, one after the other, with a slash between them.
LEMMA JoinConcat ==
  ASSUME NEW f \in Seq(Seq(Bytes)), f # << >>
  PROVE  \A g \in Seq(Seq(Bytes)) : JoinsAll(f, g)
  <1> DEFINE Q == {g \in Seq(Seq(Bytes)) : JoinsAll(f, g)}
  <1>1. << >> \in Q
    <2>1. << >> \in Seq(Seq(Bytes)) /\ f \o << >> \in Seq(Seq(Bytes))
      BY ConcatEmptySeq, EmptySeq
    <2>2. QED
      BY <2>1 DEF JoinsAll
  <1>2. ASSUME NEW g \in Seq(Seq(Bytes)), NEW e \in Seq(Bytes), g \in Q
        PROVE  Append(g, e) \in Q
    <2>1. Append(g, e) \in Seq(Seq(Bytes)) /\ f \o g \in Seq(Seq(Bytes)) /\ "/" \in Bytes
      BY <1>2, BytesHere, AppendProperties DEF JoinsAll
    <2>2. f \o Append(g, e) = Append(f \o g, e) /\ Append(f \o g, e) \in Seq(Seq(Bytes))
      <3>1. f \o Append(g, e) = Append(f \o g, e)
        <4>1. Append(g, e) = g \o <<e>> /\ Append(f \o g, e) = (f \o g) \o <<e>> /\ <<e>> \in Seq(Seq(Bytes))
          BY <2>1, AppendIsConcat
        <4>2. Groups(f, g, <<e>>)
          BY <4>1, Grouping
        <4>3. QED
          BY <4>1, <4>2 DEF Groups
      <3>2. QED
        BY <3>1, <2>1, AppendProperties
    <2>3. PICK jf \in Seq(Bytes) : jf = Join(f, "/")
      BY <2>1, JoinType
    <2>4. PICK jg \in Seq(Bytes) : jg = Join(g, "/")
      BY <2>1, JoinType
    <2>5. CASE g = << >>
      <3>1. f \o g = f /\ Append(g, e) = <<e>>
        BY <2>5, ConcatEmptySeq
      <3>2. Join(Append(f, e), "/") = (jf \o <<"/">>) \o e
        BY <2>1, <2>3, JoinMore
      <3>3. Join(<<e>>, "/") = e
        BY <2>1, JoinOne
      <3>4. QED
        BY <2>1, <2>2, <2>3, <3>1, <3>2, <3>3 DEF JoinsAll
    <2>6. CASE g # << >>
      <3>1. Join(f \o g, "/") = (jf \o <<"/">>) \o jg
        BY <1>2, <2>3, <2>4, <2>6 DEF JoinsAll
      <3>2. f \o g # << >>
        <4>1. Len(f) \in Nat \ {0} /\ Len(g) \in Nat \ {0}
          BY <2>6, EmptySeq
        <4>2. Len(f \o g) = Len(f) + Len(g)
          BY ConcatProperties
        <4>3. Len(<< >>) = 0
          OBVIOUS
        <4>4. Len(f \o g) # 0
          BY <4>1, <4>2
        <4>5. QED
          BY <4>3, <4>4
      <3>3. Join(Append(f \o g, e), "/") = (((jf \o <<"/">>) \o jg) \o <<"/">>) \o e
        <4>1. PICK w \in Seq(Seq(Bytes)) : w = f \o g
          BY <2>1
        <4>2. Join(Append(w, e), "/") = (Join(w, "/") \o <<"/">>) \o e
          BY <2>1, <3>2, <4>1, JoinMore
        <4>3. QED
          BY <3>1, <4>1, <4>2
      <3>4. Join(Append(g, e), "/") = (jg \o <<"/">>) \o e
        BY <2>1, <2>4, <2>6, JoinMore
      <3>5. PICK d \in Seq(Bytes) : d = <<"/">>
        BY <2>1, OneByte
      <3>6. jf \o d \in Seq(Bytes) /\ jg \o d \in Seq(Bytes)
        BY ConcatProperties
      <3>7. Groups(jf \o d, jg, d) /\ Groups(jf \o d, jg \o d, e)
        BY <3>6, Grouping
      <3>8. (((jf \o d) \o jg) \o d) \o e = (jf \o d) \o ((jg \o d) \o e)
        BY <3>7 DEF Groups
      <3>9. QED
        BY <2>1, <2>2, <2>3, <3>3, <3>4, <3>5, <3>8 DEF JoinsAll
    <2>7. QED
      BY <2>5, <2>6
  <1>3. \A g \in Seq(Seq(Bytes)), e \in Seq(Bytes) : g \in Q => Append(g, e) \in Q
    BY <1>2
  <1> HIDE DEF Q
  <1>4. \A g \in Seq(Seq(Bytes)) : g \in Q
    BY <1>1, <1>3, SequenceInduction
  <1>5. QED
    BY <1>4 DEF Q

\* The first directory of a path.
FirstOf(u, parts) ==
  /\ Join(<<u>> \o parts, "/") = (u \o <<"/">>) \o Join(parts, "/")
  /\ FirstOffset(Join(<<u>> \o parts, "/"), "/") = Len(u) + 1
  /\ After(Join(<<u>> \o parts, "/"), Len(u) + 1) = Join(parts, "/")
  /\ Join(parts, "/") \in Seq(Bytes) /\ Len(u) \in Nat

\* The first separator of a text.
LEMMA FirstOffsetAt ==
  ASSUME NEW A, NEW u \in Seq(A), NEW byte \in A, NEW t \in Seq(A), Without(u, byte)
  PROVE  /\ FirstOffset((u \o <<byte>>) \o t, byte) = Len(u) + 1
         /\ FirstOffset(u, byte) = 0
         /\ After((u \o <<byte>>) \o t, Len(u) + 1) = t /\ Len(u) \in Nat
  <1>1. PICK d \in Seq(A) : d = <<byte>> /\ Len(d) = 1 /\ d[1] = byte
    <2>1. <<byte>> \in Seq(A)
      BY OneByte
    <2>2. QED
      BY <2>1
  <1>2. PICK ud \in Seq(A) : /\ ud = u \o d /\ Len(ud) = Len(u) + 1 /\ Len(u) \in Nat
                             /\ \A i \in 1..Len(u) : ud[i] = u[i]
                             /\ ud[Len(u) + 1] = byte
    <2>1. /\ u \o d \in Seq(A) /\ Len(u \o d) = Len(u) + Len(d) /\ Len(u) \in Nat
          /\ \A i \in 1..Len(u) + Len(d) : (u \o d)[i] = IF i <= Len(u) THEN u[i] ELSE d[i - Len(u)]
      BY ConcatProperties, LenProperties
    <2>2. Len(u) + 1 \in 1..Len(u) + Len(d) /\ ~(Len(u) + 1 <= Len(u)) /\ (Len(u) + 1) - Len(u) = 1
      BY <1>1, <2>1
    <2>3. (u \o d)[Len(u) + 1] = byte
      BY <1>1, <2>1, <2>2
    <2>4. \A i \in 1..Len(u) : (u \o d)[i] = u[i]
      BY <1>1, <2>1
    <2>5. QED
      BY <1>1, <2>1, <2>3, <2>4
  <1>3. PICK s \in Seq(A) : /\ s = ud \o t /\ Len(s) = Len(ud) + Len(t) /\ Len(t) \in Nat
                            /\ \A i \in 1..Len(ud) : s[i] = ud[i]
    <2>1. /\ ud \o t \in Seq(A) /\ Len(ud \o t) = Len(ud) + Len(t) /\ Len(t) \in Nat /\ Len(ud) \in Nat
          /\ \A i \in 1..Len(ud) + Len(t) : (ud \o t)[i] = IF i <= Len(ud) THEN ud[i] ELSE t[i - Len(ud)]
      BY ConcatProperties, LenProperties
    <2>2. \A i \in 1..Len(ud) : (ud \o t)[i] = ud[i]
      BY <2>1
    <2>3. QED
      BY <2>1, <2>2
  <1>4. After(s, Len(u) + 1) = t
    <2>1. After(ud \o t, Len(ud)) = t
      BY AfterConcat
    <2>2. QED
      BY <1>2, <1>3, <2>1
  <1>5. FirstOffset(s, byte) = Len(u) + 1
    <2>1. DOMAIN s = 1..Len(s) /\ DOMAIN u = 1..Len(u)
      BY LenProperties
    <2>2. Len(u) + 1 \in 1..Len(s) /\ s[Len(u) + 1] = byte
      BY <1>2, <1>3
    <2>3. Offsets(s, byte) \subseteq Nat /\ Len(u) + 1 \in Offsets(s, byte)
      BY <2>1, <2>2 DEF Offsets
    <2>4. \A i \in Offsets(s, byte) : i >= Len(u) + 1
      <3>1. SUFFICES ASSUME NEW i \in 1..Len(s), s[i] = byte PROVE i >= Len(u) + 1
        BY <2>1 DEF Offsets
      <3>2. ~(i \in 1..Len(u))
        <4>1. i \in 1..Len(u) => s[i] = u[i]
          BY <1>2, <1>3
        <4>2. QED
          BY <2>1, <3>1, <4>1 DEF Without
      <3>3. QED
        BY <1>2, <1>3, <3>2
    <2>5. PICK m \in Nat : m = Min(Offsets(s, byte)) /\ m \in Offsets(s, byte) /\ m <= Len(u) + 1
      <3>1. Min(Offsets(s, byte)) \in Offsets(s, byte) /\ \A n \in Offsets(s, byte) : Min(Offsets(s, byte)) <= n
        BY <2>3, MinIs
      <3>2. QED
        BY <2>3, <3>1
    <2>6. m = Len(u) + 1
      <3>1. m >= Len(u) + 1 BY <2>4, <2>5
      <3>2. QED
        BY <1>2, <2>5, <3>1
    <2>7. QED
      BY <2>3, <2>5, <2>6 DEF FirstOffset
  <1>6. FirstOffset(u, byte) = 0
    BY DEF FirstOffset, Offsets, Without
  <1>7. QED
    BY <1>1, <1>2, <1>3, <1>4, <1>5, <1>6

\* The first directory of a path, its slash and what is behind it.
LEMMA FirstPart ==
  ASSUME NEW u \in Seq(Bytes), Without(u, "/"), NEW parts \in Seq(Seq(Bytes)), parts # << >>
  PROVE  FirstOf(u, parts)
  <1>1. <<u>> \in Seq(Seq(Bytes)) /\ <<u>> # << >> /\ "/" \in Bytes
    <2>1. <<u>> \in Seq(Seq(Bytes))
      BY OneByte
    <2>2. QED
      BY <2>1, BytesHere
  <1>2. JoinsAll(<<u>>, parts)
    BY <1>1, JoinConcat
  <1>3. Join(<<u>>, "/") = u
    BY <1>1, JoinOne
  <1>4. PICK t \in Seq(Bytes) : t = Join(parts, "/")
    BY <1>1, JoinType
  <1>5. Join(<<u>> \o parts, "/") = (u \o <<"/">>) \o t
    BY <1>1, <1>2, <1>3, <1>4 DEF JoinsAll
  <1>6. /\ FirstOffset((u \o <<"/">>) \o t, "/") = Len(u) + 1
        /\ After((u \o <<"/">>) \o t, Len(u) + 1) = t /\ Len(u) \in Nat
    BY <1>1, FirstOffsetAt
  <1>7. QED
    BY <1>4, <1>5, <1>6 DEF FirstOf

-----------------------------------------------------------------------------
(* The first directory, and the library directory. *)

\* A prefix, byte by byte.
LEMMA PrefixAt ==
  ASSUME NEW s \in Seq(Bytes), NEW u \in Seq(Bytes)
  PROVE  S!IsPrefix(u, s) <=> Len(u) <= Len(s) /\ \A i \in 1..Len(u) : s[i] = u[i]
  <1>1. Len(u) \in Nat /\ Len(s) \in Nat
    BY LenProperties
  <1>2. ASSUME NEW r \in Seq(Bytes), s = u \o r
        PROVE  Len(u) <= Len(s) /\ \A i \in 1..Len(u) : s[i] = u[i]
    <2>1. /\ Len(u \o r) = Len(u) + Len(r) /\ Len(r) \in Nat
          /\ \A i \in 1..Len(u) + Len(r) : (u \o r)[i] = IF i <= Len(u) THEN u[i] ELSE r[i - Len(u)]
      BY ConcatProperties, LenProperties
    <2>2. \A i \in 1..Len(u) : (u \o r)[i] = u[i]
      BY <1>1, <2>1
    <2>3. QED
      BY <1>1, <1>2, <2>1, <2>2
  <1>3. ASSUME Len(u) <= Len(s), \A i \in 1..Len(u) : s[i] = u[i]
        PROVE  s = u \o After(s, Len(u)) /\ After(s, Len(u)) \in Seq(Bytes)
    <2>1. Len(u) \in 0..Len(s)
      BY <1>1, <1>3
    <2>2. Cut(s, Len(u)) \o After(s, Len(u)) = s /\ After(s, Len(u)) \in Seq(Bytes)
      BY <2>1, CutAfter, AfterIs
    <2>3. PICK c \in Seq(Bytes) : /\ c = Cut(s, Len(u)) /\ Len(c) = Len(u)
                                  /\ \A i \in 1..Len(c) : c[i] = s[i]
      BY <1>1, <1>3, CutIs
    <2>4. c = u
      <3>1. \A i \in 1..Len(c) : c[i] = u[i]
        BY <1>3, <2>3
      <3>2. QED
        BY <2>3, <3>1, SeqEqual
    <2>5. QED
      BY <2>2, <2>3, <2>4
  <1>4. QED
    BY <1>2, <1>3, PrefixIs

\* A prefix of two bytes.
LEMMA TwoBytes ==
  ASSUME NEW s \in Seq(Bytes), NEW a \in Bytes, NEW b \in Bytes
  PROVE  S!IsPrefix(<<a, b>>, s) <=> Len(s) >= 2 /\ s[1] = a /\ s[2] = b
  <1>1. PICK u \in Seq(Bytes) : u = <<a, b>> /\ Len(u) = 2 /\ u[1] = a /\ u[2] = b
    <2>1. <<a, b>> \in Seq(Bytes)
      OBVIOUS
    <2>2. QED
      BY <2>1
  <1>2. Len(s) \in Nat
    BY LenProperties
  <1>3. (\A i \in 1..2 : s[i] = u[i]) <=> s[1] = u[1] /\ s[2] = u[2]
    <2>1. 1 \in 1..2 /\ 2 \in 1..2
      OBVIOUS
    <2>2. QED
      BY <2>1, OneOrTwo
  <1>4. S!IsPrefix(u, s) <=> Len(u) <= Len(s) /\ \A i \in 1..Len(u) : s[i] = u[i]
    BY PrefixAt
  <1>5. QED
    BY <1>1, <1>2, <1>3, <1>4

\* A prefix of three bytes.
LEMMA ThreeBytes ==
  ASSUME NEW s \in Seq(Bytes), NEW a \in Bytes, NEW b \in Bytes, NEW c \in Bytes
  PROVE  S!IsPrefix(<<a, b, c>>, s) <=> Len(s) >= 3 /\ s[1] = a /\ s[2] = b /\ s[3] = c
  <1>1. PICK u \in Seq(Bytes) : u = <<a, b, c>> /\ Len(u) = 3 /\ u[1] = a /\ u[2] = b /\ u[3] = c
    <2>1. <<a, b, c>> \in Seq(Bytes)
      OBVIOUS
    <2>2. QED
      BY <2>1
  <1>2. Len(s) \in Nat
    BY LenProperties
  <1>3. (\A i \in 1..3 : s[i] = u[i]) <=> s[1] = u[1] /\ s[2] = u[2] /\ s[3] = u[3]
    <2>1. 1 \in 1..3 /\ 2 \in 1..3 /\ 3 \in 1..3
      OBVIOUS
    <2>2. \A j \in 1..3 : j = 1 \/ j = 2 \/ j = 3
      OBVIOUS
    <2>3. QED
      BY <2>1, <2>2
  <1>4. S!IsPrefix(u, s) <=> Len(u) <= Len(s) /\ \A i \in 1..Len(u) : s[i] = u[i]
    BY PrefixAt
  <1>5. QED
    BY <1>1, <1>2, <1>3, <1>4

\* The bytes of a path that begins with a directory.
LEMMA DirectoryBytes ==
  ASSUME NEW u \in Seq(Bytes), NEW t \in Seq(Bytes)
  PROVE  /\ (u \o <<"/">>) \o t \in Seq(Bytes)
         /\ Len((u \o <<"/">>) \o t) = (Len(u) + 1) + Len(t)
         /\ Len(u) \in Nat /\ Len(t) \in Nat
         /\ \A i \in 1..Len(u) : ((u \o <<"/">>) \o t)[i] = u[i]
         /\ ((u \o <<"/">>) \o t)[Len(u) + 1] = "/"
  <1>1. PICK d \in Seq(Bytes) : d = <<"/">> /\ Len(d) = 1 /\ d[1] = "/"
    <2>1. <<"/">> \in Seq(Bytes)
      BY BytesHere, OneByte
    <2>2. QED
      BY <2>1
  <1>2. PICK ud \in Seq(Bytes) : /\ ud = u \o d /\ Len(ud) = Len(u) + 1 /\ Len(u) \in Nat
                                 /\ \A i \in 1..Len(u) : ud[i] = u[i]
                                 /\ ud[Len(u) + 1] = "/"
    <2>1. /\ u \o d \in Seq(Bytes) /\ Len(u \o d) = Len(u) + Len(d) /\ Len(u) \in Nat
          /\ \A i \in 1..Len(u) + Len(d) : (u \o d)[i] = IF i <= Len(u) THEN u[i] ELSE d[i - Len(u)]
      BY ConcatProperties, LenProperties
    <2>2. Len(u) + 1 \in 1..Len(u) + Len(d) /\ ~(Len(u) + 1 <= Len(u)) /\ (Len(u) + 1) - Len(u) = 1
      BY <1>1, <2>1
    <2>3. (u \o d)[Len(u) + 1] = "/"
      BY <1>1, <2>1, <2>2
    <2>4. \A i \in 1..Len(u) : (u \o d)[i] = u[i]
      BY <1>1, <2>1
    <2>5. QED
      BY <1>1, <2>1, <2>3, <2>4
  <1>3. /\ ud \o t \in Seq(Bytes) /\ Len(ud \o t) = Len(ud) + Len(t) /\ Len(t) \in Nat
        /\ \A i \in 1..Len(ud) : (ud \o t)[i] = ud[i]
    <2>1. /\ ud \o t \in Seq(Bytes) /\ Len(ud \o t) = Len(ud) + Len(t) /\ Len(t) \in Nat /\ Len(ud) \in Nat
          /\ \A i \in 1..Len(ud) + Len(t) : (ud \o t)[i] = IF i <= Len(ud) THEN ud[i] ELSE t[i - Len(ud)]
      BY ConcatProperties, LenProperties
    <2>2. QED
      BY <2>1
  <1>4. \A i \in 1..Len(u) + 1 : (ud \o t)[i] = ud[i]
    BY <1>2, <1>3
  <1>5. \A i \in 1..Len(u) : (ud \o t)[i] = u[i]
    BY <1>2, <1>4
  <1>6. QED
    BY <1>1, <1>2, <1>3, <1>4, <1>5

\* The prefix is followed by a slash or by an underscore, and the slash is the first one.
LEMMA LibraryDirIs ==
  ASSUME NEW u \in Seq(Bytes), Without(u, "/"), NEW t \in Seq(Bytes)
  PROVE  InLibraryDir((u \o <<"/">>) \o t) <=> u = <<LibraryByte>> \/ S!IsPrefix(Mark, u)
  <1>1. PICK w \in Seq(Bytes) :
          /\ w = (u \o <<"/">>) \o t
          /\ Len(w) = (Len(u) + 1) + Len(t) /\ Len(u) \in Nat /\ Len(t) \in Nat
          /\ \A i \in 1..Len(u) : w[i] = u[i]
          /\ w[Len(u) + 1] = "/"
    BY DirectoryBytes
  <1>2. FirstOffset(w, "/") = Len(u) + 1
    BY <1>1, BytesHere, FirstOffsetAt
  <1>3. "_" # "/" /\ LibraryByte # "/" /\ "_" \in Bytes /\ "/" \in Bytes /\ LibraryByte \in Bytes
    BY BytesHere
  <1>4. DOMAIN u = 1..Len(u)
    BY LenProperties
  <1>5. S!IsPrefix(Mark, w) <=> Len(w) >= 2 /\ w[1] = LibraryByte /\ w[2] = "_"
    BY <1>3, TwoBytes DEF Mark
  <1>6. S!IsPrefix(Mark, u) <=> Len(u) >= 2 /\ u[1] = LibraryByte /\ u[2] = "_"
    BY <1>3, TwoBytes DEF Mark
  <1>7. S!IsPrefix(<<LibraryByte, "/">>, w) <=> Len(w) >= 2 /\ w[1] = LibraryByte /\ w[2] = "/"
    BY <1>3, TwoBytes
  <1>8. CASE Len(u) = 0
    <2>1. w[1] # LibraryByte
      <3>1. Len(u) + 1 = 1
        BY <1>8
      <3>2. w[1] = "/"
        BY <1>1, <3>1
      <3>3. QED
        BY <1>3, <3>2
    <2>2. u # <<LibraryByte>>
      <3>1. Len(<<LibraryByte>>) = 1
        OBVIOUS
      <3>2. QED
        BY <1>8, <3>1
    <2>3. ~S!IsPrefix(Mark, w)
      BY <1>5, <2>1
    <2>4. ~S!IsPrefix(Mark, u)
      BY <1>6, <1>8
    <2>5. ~S!IsPrefix(<<LibraryByte, "/">>, w)
      BY <1>7, <2>1
    <2>6. QED
      BY <1>1, <2>2, <2>3, <2>4, <2>5 DEF InLibraryDir
  <1>9. CASE Len(u) = 1
    <2>1. w[1] = u[1] /\ w[2] = "/" /\ Len(w) >= 2
      BY <1>1, <1>9
    <2>2. u = <<LibraryByte>> <=> u[1] = LibraryByte
      <3>1. PICK l \in Seq(Bytes) : l = <<LibraryByte>> /\ Len(l) = 1 /\ l[1] = LibraryByte
        <4>1. <<LibraryByte>> \in Seq(Bytes) BY <1>3, OneByte
        <4>2. QED
          BY <4>1
      <3>2. u[1] = LibraryByte => \A i \in 1..Len(u) : u[i] = l[i]
        BY <1>9, <3>1
      <3>3. u[1] = LibraryByte => u = l
        BY <1>9, <3>1, <3>2, SeqEqual
      <3>4. QED
        BY <3>1, <3>3
    <2>3. FirstOffset(w, "/") > 0
      BY <1>1, <1>2
    <2>4. ~S!IsPrefix(Mark, w) /\ ~S!IsPrefix(Mark, u)
      <3>1. w[2] # "_"
        BY <1>3, <2>1
      <3>2. ~(Len(u) >= 2)
        BY <1>9
      <3>3. QED
        BY <1>5, <1>6, <3>1, <3>2
    <2>5. S!IsPrefix(<<LibraryByte, "/">>, w) <=> u[1] = LibraryByte
      BY <1>7, <2>1
    <2>6. QED
      BY <1>1, <2>2, <2>3, <2>4, <2>5 DEF InLibraryDir
  <1>10. CASE Len(u) >= 2
    <2>1. w[1] = u[1] /\ w[2] = u[2] /\ Len(w) >= 2
      BY <1>1, <1>10
    <2>2. u[2] # "/"
      BY <1>4, <1>10 DEF Without
    <2>3. u # <<LibraryByte>>
      <3>1. Len(<<LibraryByte>>) = 1
        OBVIOUS
      <3>2. Len(u) # 1
        BY <1>1, <1>10
      <3>3. QED
        BY <3>1, <3>2
    <2>4. FirstOffset(w, "/") > 0
      BY <1>1, <1>2
    <2>5. QED
      BY <1>1, <1>5, <1>6, <1>7, <1>10, <2>1, <2>2, <2>3, <2>4 DEF InLibraryDir
  <1>11. Len(u) = 0 \/ Len(u) = 1 \/ Len(u) >= 2
    BY <1>1
  <1>12. QED
    BY <1>8, <1>9, <1>10, <1>11

\* A suffix and a mark are taken from the base name, and nothing is put in.
LEMMA SuffixlessInside ==
  ASSUME NEW b \in Seq(Bytes), Without(b, "/")
  PROVE  /\ Suffixless(b) \in Seq(Bytes) /\ Without(Suffixless(b), "/")
         /\ Len(Suffixless(b)) <= Len(b) /\ Len(b) \in Nat /\ Len(Suffixless(b)) \in Nat
  <1>1. Len(b) \in Nat /\ DOMAIN b = 1..Len(b)
    BY LenProperties
  <1>2. PICK v \in Seq(Bytes) : v = Unmarked(b) /\ Len(v) \in Nat /\ Len(v) <= Len(b) /\ Without(v, "/")
    <2>1. CASE ~S!IsPrefix(Mark, b)
      BY <2>1, <1>1 DEF Unmarked
    <2>2. CASE S!IsPrefix(Mark, b)
      <3>1. 2 \in 0..Len(b)
        <4>1. Len(b) >= 2
          BY <2>2, BytesHere, TwoBytes DEF Mark
        <4>2. QED
          BY <1>1, <4>1
      <3>2. /\ After(b, 2) \in Seq(Bytes) /\ Len(After(b, 2)) = Len(b) - 2
            /\ \A i \in 1..Len(b) - 2 : After(b, 2)[i] = b[2 + i]
        BY <3>1, AfterIs
      <3>3. \A i \in 1..Len(b) - 2 : 2 + i \in 1..Len(b)
        BY <1>1
      <3>4. DOMAIN After(b, 2) = 1..Len(b) - 2
        BY <3>2, LenProperties
      <3>5. Without(After(b, 2), "/")
        BY <1>1, <3>2, <3>3, <3>4 DEF Without
      <3>6. Unmarked(b) = After(b, 2)
        BY <2>2, MarkType DEF Unmarked
      <3>7. QED
        BY <1>1, <3>1, <3>2, <3>5, <3>6
    <2>3. QED
      BY <2>1, <2>2
  <1>3. PICK dot \in Nat : dot = LastOffset(v, ".") /\ dot <= Len(v)
    <2>1. LastOffset(v, ".") \in 0..Len(v)
      BY LastOffsetIs
    <2>2. QED
      BY <1>2, <2>1
  <1>4. CASE dot = 0
    BY <1>1, <1>2, <1>3, <1>4 DEF Suffixless
  <1>5. CASE dot > 0
    <2>1. PICK k \in Nat : k = dot - 1 /\ k <= Len(v)
      BY <1>2, <1>3, <1>5
    <2>2. PICK c \in Seq(Bytes) : c = Cut(v, k) /\ Len(c) = k /\ \A i \in 1..Len(c) : c[i] = v[i]
      BY <2>1, CutIs
    <2>3. Suffixless(b) = c
      BY <1>2, <1>3, <1>5, <2>1, <2>2 DEF Suffixless
    <2>4. DOMAIN c = 1..Len(c) /\ DOMAIN v = 1..Len(v) /\ \A i \in 1..Len(c) : i \in 1..Len(v)
      BY <1>2, <2>1, <2>2, LenProperties
    <2>5. Without(c, "/")
      BY <1>2, <2>2, <2>4 DEF Without
    <2>6. QED
      BY <1>1, <1>2, <2>1, <2>2, <2>3, <2>5
  <1>6. QED
    BY <1>3, <1>4, <1>5

\* What an include that is no "@" is taken for, when it fits.
IncludesPlain(s, dirs, x) ==
  /\ NormalizeModuleName(MaxName, s) = Join(Append(dirs, x), "/")
  /\ IncludeToModule(MaxName, s) =
       IF dirs # << >> /\ (Head(dirs) = <<LibraryByte>> \/ S!IsPrefix(Mark, Head(dirs)))
       THEN Join(Append(Tail(dirs), x), "/") ELSE Join(Append(dirs, x), "/")

\* An include that fits loses its suffix, one mark and a library directory
\* (strings.c:63-113).
LEMMA IncludePlain ==
  ASSUME NEW s \in Seq(Bytes), Len(s) < MaxName, s # << >> => s[1] # "@",
         NEW dirs, dirs = PathOf(s).dirs, AllWithout(dirs),
         NEW x, x = Suffixless(PathBasename(s))
  PROVE  IncludesPlain(s, dirs, x)
  <1>1. /\ PathPrefix(s) \in Seq(Bytes) /\ PathBasename(s) \in Seq(Bytes)
        /\ s = PathPrefix(s) \o PathBasename(s) /\ Without(PathBasename(s), "/")
        /\ dirs \in Seq(Seq(Bytes))
        /\ \A y \in Seq(Bytes) : Join(Append(dirs, y), "/") = PathPrefix(s) \o y
    BY PathParts
  <1>2. /\ x \in Seq(Bytes) /\ Without(x, "/")
        /\ Len(x) <= Len(PathBasename(s)) /\ Len(PathBasename(s)) \in Nat /\ Len(x) \in Nat
    BY <1>1, SuffixlessInside
  <1>3. PICK p, b \in Seq(Bytes) : p = PathPrefix(s) /\ b = PathBasename(s)
    BY <1>1
  <1>4. PICK w \in Seq(Bytes) : w = Join(Append(dirs, x), "/") /\ w = p \o x
    <2>1. p \o x \in Seq(Bytes)
      BY <1>2, ConcatProperties
    <2>2. QED
      BY <1>1, <1>2, <1>3, <2>1
  <1>5. Len(w) < MaxName /\ Len(w) \in Nat
    <2>1. Len(p \o x) = Len(p) + Len(x) /\ Len(p \o b) = Len(p) + Len(b) /\ Len(p) \in Nat
      BY <1>2, ConcatProperties, LenProperties
    <2>2. Len(w) = Len(p) + Len(x) /\ Len(s) = Len(p) + Len(b) /\ Len(x) <= Len(b) /\ Len(b) \in Nat
      BY <1>1, <1>2, <1>3, <1>4, <2>1
    <2>3. QED
      BY <1>2, <2>1, <2>2, MaxNameType
  <1>6. MaxName \in 1..MaxName /\ MaxName - 1 \in Nat /\ Len(w) <= MaxName - 1 /\ MaxName # 0
    BY <1>5, MaxNameType
  <1>7. NormalizeModuleName(MaxName, s) = w
    <2>1. NormalizeModuleName(MaxName, s) = Cut(p \o x, MaxName - 1)
      BY <1>3, <1>6, NameCut
    <2>2. QED
      BY <1>4, <1>6, <2>1, CutWhole
  <1>8. IncludeToModule(MaxName, s) = Cut(IF InLibraryDir(w) THEN After(w, FirstOffset(w, "/")) ELSE w, MaxName - 1)
    BY <1>6, <1>7 DEF IncludeToModule, CopyString
  <1>9. CASE dirs = << >>
    <2>1. w = x
      <3>1. Append(dirs, x) = <<x>>
        BY <1>9
      <3>2. QED
        BY <1>2, <1>4, <3>1, BytesHere, JoinOne
    <2>2. ~InLibraryDir(w)
      <3>1. FirstOffset(x, "/") = 0
        BY <1>2, BytesHere, FirstOffsetAt, EmptySeq
      <3>2. QED
        BY <2>1, <3>1 DEF InLibraryDir
    <2>3. IncludeToModule(MaxName, s) = w
      BY <1>6, <1>8, <2>2, CutWhole
    <2>4. QED
      BY <1>4, <1>7, <1>9, <2>3 DEF IncludesPlain
  <1>10. CASE dirs # << >>
    <2>1. PICK u \in Seq(Bytes), rest \in Seq(Seq(Bytes)) :
            u = Head(dirs) /\ rest = Append(Tail(dirs), x) /\ Append(dirs, x) = <<u>> \o rest
      <3>1. /\ <<Head(dirs)>> \o Tail(dirs) = dirs /\ Head(dirs) \in Seq(Bytes)
            /\ Tail(dirs) \in Seq(Seq(Bytes))
        BY <1>1, <1>10, HeadAndTail
      <3>2. PICK h \in Seq(Bytes), t \in Seq(Seq(Bytes)) : h = Head(dirs) /\ t = Tail(dirs)
        BY <3>1
      <3>3. <<h>> \in Seq(Seq(Bytes)) /\ <<x>> \in Seq(Seq(Bytes))
        BY <1>2, OneByte
      <3>4. Groups(<<h>>, t, <<x>>)
        BY <3>3, Grouping
      <3>5. Append(t, x) = t \o <<x>> /\ Append(dirs, x) = dirs \o <<x>>
        BY <1>1, <1>2, AppendIsConcat
      <3>6. Append(t, x) \in Seq(Seq(Bytes))
        BY <1>2, AppendProperties
      <3>7. QED
        BY <3>1, <3>2, <3>4, <3>5, <3>6 DEF Groups
    <2>2. Without(u, "/")
      <3>1. 1 \in DOMAIN dirs /\ u = dirs[1]
        <4>1. Head(dirs) = dirs[1]
          BY <1>1, <1>10, HeadAndTail
        <4>2. Len(dirs) \in Nat \ {0} /\ DOMAIN dirs = 1..Len(dirs)
          BY <1>1, <1>10, EmptySeq, LenProperties
        <4>3. QED
          BY <2>1, <4>1, <4>2
      <3>2. QED
        BY <3>1 DEF AllWithout
    <2>3. rest # << >>
      <3>1. Append(Tail(dirs), x) # << >>
        BY <1>1, <1>2, <1>10, HeadAndTail, FrontOfAppend, ZenonT(60)
      <3>2. QED
        BY <2>1, <3>1
    <2>4. FirstOf(u, rest)
      BY <2>2, <2>3, FirstPart
    <2>5. PICK t \in Seq(Bytes) : /\ t = Join(rest, "/") /\ w = (u \o <<"/">>) \o t
                                  /\ FirstOffset(w, "/") = Len(u) + 1 /\ After(w, Len(u) + 1) = t
      BY <1>4, <2>1, <2>4 DEF FirstOf
    <2>6. InLibraryDir(w) <=> u = <<LibraryByte>> \/ S!IsPrefix(Mark, u)
      BY <2>2, <2>5, LibraryDirIs
    <2>7. Len(t) <= MaxName - 1
      <3>1. Len(w) = (Len(u) + 1) + Len(t) /\ Len(u) \in Nat /\ Len(t) \in Nat
        BY <2>5, DirectoryBytes
      <3>2. QED
        BY <1>5, <3>1, MaxNameType
    <2>8. Cut(t, MaxName - 1) = t /\ Cut(w, MaxName - 1) = w
      BY <1>6, <2>7, CutWhole
    <2>9. IncludeToModule(MaxName, s) = IF u = <<LibraryByte>> \/ S!IsPrefix(Mark, u) THEN t ELSE w
      BY <1>8, <2>5, <2>6, <2>8
    <2>10. QED
      BY <1>4, <1>7, <1>10, <2>1, <2>5, <2>9 DEF IncludesPlain
  <1>11. QED
    BY <1>9, <1>10

\* A directory of a path is a library directory for Names too.
LEMMA LibraryDirOfNames ==
  ASSUME NEW c \in Components
  PROVE  BytesOf[c] \in {BytesOf[d] : d \in {d \in Components : IsLibraryDir(d)}}
           <=> BytesOf[c] = <<LibraryByte>> \/ S!IsPrefix(Mark, BytesOf[c])
  BY DEF IsLibraryDir

\* An include that fits stands for the module Names says it stands for.
LEMMA IncludeIsNames ==
  ASSUME NEW s \in Seq(Bytes), Len(s) < MaxName, s # << >> => s[1] # "@",
         NEW dirs, dirs = PathOf(s).dirs, AllWithout(dirs),
         dirs # << >> => \E c \in Components : Head(dirs) = BytesOf[c]
  PROVE  IncludeToModule(MaxName, s) = Spelled(N!IncludeToModule(N!Operand(FALSE, PathOf(s))))
  <1>1. PICK x : x = Suffixless(PathBasename(s))
    OBVIOUS
  <1>2. IncludesPlain(s, dirs, x)
    BY <1>1, IncludePlain
  <1>3. PICK name : name = N!NormalizeModuleName(PathOf(s))
    OBVIOUS
  <1>4. PICK base : name = [dirs |-> dirs, base |-> base]
    <2>1. PathOf(s) = [dirs |-> dirs, base |-> BaseOf(PathBasename(s))]
      BY PathParts
    <2>2. name = [dirs |-> dirs, base |-> N!BasenameNoSuffix(BaseOf(PathBasename(s)))]
      BY <1>3, <2>1 DEF N!NormalizeModuleName
    <2>3. QED
      BY <2>2
  <1>5. SpelledBase(base) = x
    <2>1. SpelledBase(name.base) = x
      BY <1>1, <1>3, NameSpelled
    <2>2. name.base = base
      BY <1>4
    <2>3. QED
      BY <2>1, <2>2
  <1>6. N!IncludeToModule(N!Operand(FALSE, PathOf(s))) = N!DropLibraryDir(name)
    BY <1>3 DEF N!IncludeToModule, N!Operand
  <1>7. CASE dirs = << >>
    <2>1. N!DropLibraryDir(name) = name
      BY <1>4, <1>7 DEF N!DropLibraryDir
    <2>2. Spelled(name) = Join(Append(dirs, x), "/")
      BY <1>4, <1>5 DEF Spelled
    <2>3. QED
      BY <1>2, <1>6, <1>7, <2>1, <2>2 DEF IncludesPlain
  <1>8. CASE dirs # << >>
    <2>1. PICK c \in Components : Head(dirs) = BytesOf[c]
      BY <1>8
    <2>2. PICK library \in BOOLEAN :
            library <=> BytesOf[c] = <<LibraryByte>> \/ S!IsPrefix(Mark, BytesOf[c])
      OBVIOUS
    <2>3. N!DropLibraryDir(name) = IF library THEN [dirs |-> Tail(dirs), base |-> base] ELSE name
      BY <1>4, <1>8, <2>1, <2>2, LibraryDirOfNames DEF N!DropLibraryDir
    <2>4. Spelled(N!DropLibraryDir(name))
            = IF library THEN Join(Append(Tail(dirs), x), "/") ELSE Join(Append(dirs, x), "/")
      <3>1. Spelled([dirs |-> Tail(dirs), base |-> base]) = Join(Append(Tail(dirs), x), "/")
        BY <1>5 DEF Spelled
      <3>2. Spelled([dirs |-> dirs, base |-> base]) = Join(Append(dirs, x), "/")
        BY <1>5 DEF Spelled
      <3>3. CASE library
        BY <2>3, <3>1, <3>3
      <3>4. CASE ~library
        BY <1>4, <2>3, <3>2, <3>4
      <3>5. QED
        BY <3>3, <3>4
    <2>5. IncludeToModule(MaxName, s)
            = IF library THEN Join(Append(Tail(dirs), x), "/") ELSE Join(Append(dirs, x), "/")
      BY <1>2, <1>8, <2>1, <2>2 DEF IncludesPlain
    <2>6. QED
      BY <1>6, <2>4, <2>5
  <1>9. QED
    BY <1>7, <1>8

-----------------------------------------------------------------------------
(* Divisions of a path. *)

\* The elements of a sequence from one place to another, and one more.
Stretch(A, p, n, m) ==
  /\ SubSeq(p, n + 1, m) \in Seq(A)
  /\ SubSeq(p, 1, n) \in Seq(A) /\ SubSeq(p, 1, m) \in Seq(A)
  /\ SubSeq(p, 1, n) \o SubSeq(p, n + 1, m) = SubSeq(p, 1, m)
  /\ m < Len(p) => /\ SubSeq(p, n + 1, m + 1) = Append(SubSeq(p, n + 1, m), p[m + 1])
                   /\ SubSeq(p, 1, m + 1) = Append(SubSeq(p, 1, m), p[m + 1])
                   /\ p[m + 1] \in A

\* Neighbouring stretches of a sequence.
LEMMA StretchIs ==
  ASSUME NEW A, NEW p \in Seq(A), NEW n \in 0..Len(p), NEW m \in n..Len(p)
  PROVE  Stretch(A, p, n, m)
  <1>1. Len(p) \in Nat /\ n \in Nat /\ m \in Nat /\ n <= m /\ m <= Len(p)
    BY LenProperties
  <1>2. \A i \in 1..Len(p) : p[i] \in A
    BY ElementOfSeq
  <1>3. /\ SubSeq(p, n + 1, m) \in Seq(A) /\ SubSeq(p, 1, n) \in Seq(A) /\ SubSeq(p, 1, m) \in Seq(A)
    <2>1. (\A i \in n + 1..m : p[i] \in A) /\ (\A i \in 1..n : p[i] \in A) /\ (\A i \in 1..m : p[i] \in A)
      BY <1>1, <1>2
    <2>2. n + 1 \in Int /\ m \in Int /\ n \in Int /\ 1 \in Int
      BY <1>1
    <2>3. QED
      BY <2>1, <2>2, SubSeqProperties
  <1>4. SubSeq(p, 1, n) \o SubSeq(p, n + 1, m) = SubSeq(p, 1, m)
    <2>1. 1 \in 1..Len(p) + 1 /\ n \in 1 - 1..Len(p) /\ m \in n..Len(p)
      BY <1>1
    <2>2. QED
      BY <2>1, ConcatAdjacentSubSeq
  <1>5. ASSUME m < Len(p)
        PROVE  /\ SubSeq(p, n + 1, m + 1) = Append(SubSeq(p, n + 1, m), p[m + 1])
               /\ SubSeq(p, 1, m + 1) = Append(SubSeq(p, 1, m), p[m + 1])
               /\ p[m + 1] \in A
    <2>1. PICK k \in Nat : k = m + 1 /\ k - 1 = m /\ k \in 1..Len(p) /\ k \in n + 1..Len(p) /\ n + 1 \in 1..Len(p)
                           /\ 1 \in 1..Len(p)
      BY <1>1, <1>5
    <2>2. PICK j \in Nat : j = n + 1
      BY <1>1
    <2>3. SubSeq(p, j, k) = SubSeq(p, j, k - 1) \o <<p[k]>>
      BY <2>1, <2>2, SubSeqRecursiveSecond
    <2>4. SubSeq(p, 1, k) = SubSeq(p, 1, k - 1) \o <<p[k]>>
      BY <2>1, SubSeqRecursiveSecond
    <2>5. p[k] \in A
      BY <1>2, <2>1
    <2>6. \A q \in Seq(A) : q \o <<p[k]>> = Append(q, p[k])
      BY <2>5, AppendIsConcat
    <2>7. QED
      BY <1>3, <2>1, <2>2, <2>3, <2>4, <2>5, <2>6
  <1>6. QED
    BY <1>3, <1>4, <1>5 DEF Stretch

\* The bytes of two paths.
LEMMA BytesOfConcat ==
  ASSUME NEW f \in Seq(Components), NEW g \in Seq(Components)
  PROVE  /\ BytesOfAll(f \o g) = BytesOfAll(f) \o BytesOfAll(g)
         /\ f \o g \in Seq(Components)
  <1>1. /\ f \o g \in Seq(Components) /\ Len(f \o g) = Len(f) + Len(g)
        /\ Len(f) \in Nat /\ Len(g) \in Nat
        /\ \A i \in 1..Len(f) + Len(g) : (f \o g)[i] = IF i <= Len(f) THEN f[i] ELSE g[i - Len(f)]
    BY ConcatProperties, LenProperties
  <1>2. PICK a \in Seq(Seq(Bytes)) :
          a = BytesOfAll(f) /\ Len(a) = Len(f) /\ \A i \in 1..Len(f) : a[i] = BytesOf[f[i]]
    BY BytesOfAllType
  <1>3. PICK b \in Seq(Seq(Bytes)) :
          b = BytesOfAll(g) /\ Len(b) = Len(g) /\ \A i \in 1..Len(g) : b[i] = BytesOf[g[i]]
    BY BytesOfAllType
  <1>4. PICK h \in Seq(Components) : h = f \o g
    BY <1>1
  <1>5. PICK c \in Seq(Seq(Bytes)) :
          c = BytesOfAll(h) /\ Len(c) = Len(h) /\ \A i \in 1..Len(h) : c[i] = BytesOf[h[i]]
    BY BytesOfAllType
  <1>6. /\ a \o b \in Seq(Seq(Bytes)) /\ Len(a \o b) = Len(a) + Len(b)
        /\ \A i \in 1..Len(a) + Len(b) : (a \o b)[i] = IF i <= Len(a) THEN a[i] ELSE b[i - Len(a)]
    BY ConcatProperties
  <1>7. \A i \in 1..Len(c) : c[i] = (a \o b)[i]
    <2>1. TAKE i \in 1..Len(c)
    <2>2. i \in 1..Len(f) + Len(g) /\ i \in 1..Len(a) + Len(b) /\ i \in 1..Len(h)
      BY <1>1, <1>2, <1>3, <1>4, <1>5
    <2>3. c[i] = BytesOf[h[i]]
      BY <1>5, <2>2
    <2>4. CASE i <= Len(f)
      <3>1. h[i] = f[i] /\ i \in 1..Len(f)
        BY <1>1, <1>4, <2>2, <2>4
      <3>2. (a \o b)[i] = a[i]
        BY <1>2, <1>6, <2>2, <2>4
      <3>3. a[i] = BytesOf[f[i]]
        BY <1>2, <3>1
      <3>4. QED
        BY <2>3, <3>1, <3>2, <3>3
    <2>5. CASE ~(i <= Len(f))
      <3>1. h[i] = g[i - Len(f)] /\ i - Len(f) \in 1..Len(g)
        BY <1>1, <1>4, <2>2, <2>5
      <3>2. (a \o b)[i] = b[i - Len(f)]
        BY <1>2, <1>6, <2>2, <2>5
      <3>3. b[i - Len(f)] = BytesOf[g[i - Len(f)]]
        BY <1>3, <3>1
      <3>4. QED
        BY <2>3, <3>1, <3>2, <3>3
    <2>6. QED
      BY <2>4, <2>5
  <1>8. c = a \o b
    <2>1. PICK ab \in Seq(Seq(Bytes)) : ab = a \o b
      BY <1>6
    <2>2. Len(c) = Len(ab)
      BY <1>1, <1>2, <1>3, <1>4, <1>5, <1>6, <2>1
    <2>3. \A i \in 1..Len(c) : c[i] = ab[i]
      BY <1>7, <2>1
    <2>4. QED
      BY <2>1, <2>2, <2>3, SeqEqual
  <1>9. QED
    BY <1>1, <1>2, <1>3, <1>4, <1>5, <1>8

\* The directories and the last component of a path that is joined.
LEMMA JoinPath ==
  ASSUME NEW e \in Seq(Seq(Bytes)), AllWithout(e), NEW l \in Seq(Bytes), Without(l, "/"),
         NEW s, s = Join(Append(e, l), "/")
  PROVE  s \in Seq(Bytes) /\ PathOf(s).dirs = e /\ PathBasename(s) = l
  <1>1. Append(e, l) \in Seq(Seq(Bytes)) /\ Append(e, l) # << >> /\ AllWithout(Append(e, l))
    <2>1. /\ Append(e, l) \in Seq(Seq(Bytes)) /\ Append(e, l) # << >> /\ Len(Append(e, l)) = Len(e) + 1
          /\ Append(e, l)[Len(e) + 1] = l /\ \A i \in 1..Len(e) : Append(e, l)[i] = e[i]
      BY AppendProperties
    <2>2. DOMAIN e = 1..Len(e) /\ DOMAIN Append(e, l) = 1..Len(e) + 1 /\ Len(e) \in Nat
      BY <2>1, LenProperties
    <2>3. \A i \in 1..Len(e) + 1 : i \in 1..Len(e) \/ i = Len(e) + 1
      BY <2>2
    <2>4. QED
      BY <2>1, <2>2, <2>3 DEF AllWithout
  <1>2. s \in Seq(Bytes)
    BY <1>1, BytesHere, JoinType
  <1>3. Parts(s) = Append(e, l)
    <2>1. PICK parts \in Seq(Seq(Bytes)) : parts = Append(e, l) /\ parts # << >> /\ AllWithout(parts)
      BY <1>1
    <2>2. Split(Join(parts, "/"), "/") = parts
      BY <2>1, BytesHere, SplitJoin DEF AllWithout
    <2>3. QED
      BY <2>1, <2>2 DEF Parts
  <1>4. /\ PathBasename(s) \in Seq(Bytes) /\ PathOf(s).dirs \in Seq(Seq(Bytes))
        /\ Parts(s) = Append(PathOf(s).dirs, PathBasename(s))
    BY <1>2, PathParts
  <1>5. S!Front(Append(e, l)) = e /\ S!Last(Append(e, l)) = l
    BY FrontOfAppend
  <1>6. PICK d \in Seq(Seq(Bytes)), x \in Seq(Bytes) : d = PathOf(s).dirs /\ x = PathBasename(s)
    BY <1>4
  <1>7. S!Front(Append(d, x)) = d /\ S!Last(Append(d, x)) = x
    BY FrontOfAppend
  <1>8. QED
    BY <1>2, <1>3, <1>4, <1>5, <1>6, <1>7

\* A joined path with no separator, or the first of its directories.
LEMMA FirstDivides ==
  ASSUME NEW e \in Seq(Seq(Bytes)), AllWithout(e), e # << >>, NEW l \in Seq(Bytes)
  PROVE  \E u, t \in Seq(Bytes) : /\ u = Head(e) /\ Without(u, "/")
                                  /\ Join(Append(e, l), "/") = (u \o <<"/">>) \o t
  <1>1. PICK u \in Seq(Bytes), d \in Seq(Seq(Bytes)) : u = Head(e) /\ d = Tail(e) /\ <<u>> \o d = e /\ u = e[1]
    BY HeadAndTail
  <1>2. Without(u, "/")
    <2>1. Len(e) \in Nat \ {0} /\ DOMAIN e = 1..Len(e)
      BY EmptySeq, LenProperties
    <2>2. 1 \in DOMAIN e
      BY <2>1
    <2>3. QED
      BY <1>1, <2>2 DEF AllWithout
  <1>3. PICK rest \in Seq(Seq(Bytes)) : rest = Append(d, l) /\ rest # << >>
    BY AppendProperties
  <1>4. Append(e, l) = <<u>> \o rest
    <2>1. <<u>> \in Seq(Seq(Bytes)) /\ <<l>> \in Seq(Seq(Bytes))
      BY OneByte
    <2>2. Groups(<<u>>, d, <<l>>)
      BY <2>1, Grouping
    <2>3. Append(d, l) = d \o <<l>> /\ Append(e, l) = e \o <<l>>
      BY AppendIsConcat
    <2>4. QED
      BY <1>1, <1>3, <2>2, <2>3 DEF Groups
  <1>5. FirstOf(u, rest)
    BY <1>2, <1>3, FirstPart
  <1>6. QED
    BY <1>1, <1>2, <1>4, <1>5 DEF FirstOf

\* A path is relative for the bytes when its first directory is "." or "..".
LEMMA RelativeIs ==
  ASSUME NEW e \in Seq(Seq(Bytes)), AllWithout(e), NEW l \in Seq(Bytes), Without(l, "/"),
         NEW s, s = Join(Append(e, l), "/")
  PROVE  IsRelative(s) <=> e # << >> /\ Head(e) \in {<<".">>, Up}
  <1>1. s \in Seq(Bytes) /\ "/" \in Bytes /\ "." \in Bytes /\ "." # "/"
    BY JoinPath, BytesHere
  <1>2. S!IsPrefix(<<".", "/">>, s) <=> Len(s) >= 2 /\ s[1] = "." /\ s[2] = "/"
    BY <1>1, TwoBytes
  <1>3. S!IsPrefix(<<".", ".", "/">>, s) <=> Len(s) >= 3 /\ s[1] = "." /\ s[2] = "." /\ s[3] = "/"
    BY <1>1, ThreeBytes
  <1>4. Len(s) \in Nat /\ DOMAIN s = 1..Len(s)
    BY <1>1, LenProperties
  <1>5. CASE e = << >>
    <2>1. s = l
      <3>1. Append(e, l) = <<l>>
        BY <1>5
      <3>2. QED
        BY <1>1, <3>1, JoinOne
    <2>2. \A i \in 1..Len(s) : s[i] # "/"
      BY <1>4, <2>1 DEF Without
    <2>3. (Len(s) >= 2 => s[2] # "/") /\ (Len(s) >= 3 => s[3] # "/")
      BY <1>4, <2>2
    <2>4. QED
      BY <1>2, <1>3, <1>5, <2>3 DEF IsRelative
  <1>6. CASE e # << >>
    <2>1. PICK u, t \in Seq(Bytes) : u = Head(e) /\ Without(u, "/") /\ s = (u \o <<"/">>) \o t
      BY <1>6, FirstDivides
    <2>2. /\ Len(s) = (Len(u) + 1) + Len(t) /\ Len(u) \in Nat /\ Len(t) \in Nat
          /\ \A i \in 1..Len(u) : s[i] = u[i]
          /\ s[Len(u) + 1] = "/"
      <3>1. /\ Len((u \o <<"/">>) \o t) = (Len(u) + 1) + Len(t)
            /\ Len(u) \in Nat /\ Len(t) \in Nat
            /\ \A i \in 1..Len(u) : ((u \o <<"/">>) \o t)[i] = u[i]
            /\ ((u \o <<"/">>) \o t)[Len(u) + 1] = "/"
        BY DirectoryBytes
      <3>2. QED
        BY <2>1, <3>1
    <2>3. \A i \in 1..Len(u) : u[i] # "/"
      <3>1. DOMAIN u = 1..Len(u)
        BY LenProperties
      <3>2. QED
        BY <2>1, <3>1 DEF Without
    <2>4. PICK d \in Seq(Bytes) : d = <<".">> /\ Len(d) = 1 /\ d[1] = "."
      <3>1. <<".">> \in Seq(Bytes)
        BY <1>1, OneByte
      <3>2. QED
        BY <3>1
    <2>5. PICK dd \in Seq(Bytes) : dd = Up /\ Len(dd) = 2 /\ dd[1] = "." /\ dd[2] = "."
      <3>1. <<".", ".">> \in Seq(Bytes)
        BY <1>1
      <3>2. QED
        BY <3>1 DEF Up
    <2>6. CASE Len(u) = 0
      <3>1. s[1] # "."
        <4>1. Len(u) + 1 = 1
          BY <2>6
        <4>2. QED
          BY <1>1, <2>2, <4>1
      <3>2. u # d /\ u # dd
        <4>1. Len(u) # Len(d) /\ Len(u) # Len(dd)
          BY <2>4, <2>5, <2>6
        <4>2. QED
          BY <4>1
      <3>3. QED
        BY <1>2, <1>3, <2>1, <2>4, <2>5, <3>1, <3>2 DEF IsRelative
    <2>7. CASE Len(u) = 1
      <3>1. s[1] = u[1] /\ s[2] = "/" /\ Len(s) >= 2
        BY <2>2, <2>7
      <3>2. u # dd
        BY <2>5, <2>7
      <3>3. u = d <=> u[1] = "."
        <4>1. u[1] = "." => \A i \in 1..Len(u) : u[i] = d[i]
          BY <2>4, <2>7
        <4>2. u[1] = "." => u = d
          BY <2>4, <2>7, <4>1, SeqEqual
        <4>3. QED
          BY <2>4, <4>2
      <3>4. ~S!IsPrefix(<<".", ".", "/">>, s)
        BY <1>1, <1>3, <3>1
      <3>5. S!IsPrefix(<<".", "/">>, s) <=> u = d
        BY <1>2, <3>1, <3>3
      <3>6. QED
        BY <1>6, <2>1, <2>4, <2>5, <3>2, <3>4, <3>5 DEF IsRelative
    <2>8. CASE Len(u) = 2
      <3>1. s[1] = u[1] /\ s[2] = u[2] /\ s[3] = "/" /\ Len(s) >= 3 /\ u[2] # "/"
        <4>1. 1 \in 1..Len(u) /\ 2 \in 1..Len(u) /\ Len(u) + 1 = 3
          BY <2>8
        <4>2. Len(s) >= 3
          BY <2>2, <2>8
        <4>3. QED
          BY <2>2, <2>3, <4>1, <4>2
      <3>2. u # d
        <4>1. Len(u) # Len(d)
          BY <2>4, <2>8
        <4>2. QED
          BY <4>1
      <3>3. u = dd <=> u[1] = "." /\ u[2] = "."
        <4>1. u[1] = "." /\ u[2] = "." => \A i \in 1..2 : u[i] = dd[i]
          BY <2>5, OneOrTwo
        <4>2. u[1] = "." /\ u[2] = "." => u = dd
          BY <2>5, <2>8, <4>1, SeqEqual
        <4>3. QED
          BY <2>5, <4>2
      <3>4. ~S!IsPrefix(<<".", "/">>, s)
        BY <1>2, <3>1
      <3>5. S!IsPrefix(<<".", ".", "/">>, s) <=> u = dd
        BY <1>3, <3>1, <3>3
      <3>6. QED
        BY <1>6, <2>1, <2>4, <2>5, <3>2, <3>4, <3>5 DEF IsRelative
    <2>9. CASE Len(u) >= 3
      <3>1. s[2] # "/" /\ s[3] # "/"
        <4>1. 2 \in 1..Len(u) /\ 3 \in 1..Len(u)
          BY <2>2, <2>9
        <4>2. QED
          BY <2>2, <2>3, <4>1
      <3>2. u # d /\ u # dd
        <4>1. Len(u) # 1 /\ Len(u) # 2
          <5>1. \A k \in Nat : k >= 3 => k # 1 /\ k # 2
            OBVIOUS
          <5>2. Len(u) \in Nat
            BY <2>2
          <5>3. QED
            BY <2>9, <5>1, <5>2
        <4>2. QED
          BY <2>4, <2>5, <4>1
      <3>3. ~S!IsPrefix(<<".", "/">>, s) /\ ~S!IsPrefix(<<".", ".", "/">>, s)
        BY <1>2, <1>3, <3>1
      <3>4. QED
        BY <2>1, <2>4, <2>5, <3>2, <3>3 DEF IsRelative
    <2>10. Len(u) = 0 \/ Len(u) = 1 \/ Len(u) = 2 \/ Len(u) >= 3
      <3>1. \A k \in Nat : k = 0 \/ k = 1 \/ k = 2 \/ k >= 3
        OBVIOUS
      <3>2. Len(u) \in Nat
        BY <2>2
      <3>3. QED
        BY <3>1, <3>2
    <2>11. QED
      BY <2>6, <2>7, <2>8, <2>9, <2>10
  <1>7. QED
    BY <1>5, <1>6

\* What the loop makes of a joined path.
LEMMA KeptParts ==
  ASSUME NEW parts \in Seq(Seq(Bytes)), parts # << >>, AllWithout(parts)
  PROVE  /\ NormalizeRelativePath(Join(parts, "/")) = Join(N!NormalizeRelativePath(parts), "/")
         /\ Loops(parts)
  <1>1. Split(Join(parts, "/"), "/") = parts
    BY BytesHere, SplitJoin DEF AllWithout
  <1>2. Join(parts, "/") \in Seq(Bytes)
    BY BytesHere, JoinType
  <1>3. NormalizeRelativePath(Join(parts, "/")) = KeptText(parts)
    BY <1>1, <1>2, KeptFold DEF KeptText, Parts
  <1>4. Loops(parts)
    BY LoopsAgree
  <1>5. QED
    BY <1>3, <1>4 DEF Loops

\* Directories that leave the same leave the same with more behind them.
LEMMA SameKept ==
  ASSUME NEW e \in Seq(Seq(Bytes)), NEW f \in Seq(Seq(Bytes)),
         N!NormalizeRelativePath(e) = N!NormalizeRelativePath(f)
  PROVE  \A g \in Seq(Seq(Bytes)) : N!NormalizeRelativePath(e \o g) = N!NormalizeRelativePath(f \o g)
  <1> DEFINE Q == {g \in Seq(Seq(Bytes)) : N!NormalizeRelativePath(e \o g) = N!NormalizeRelativePath(f \o g)}
  <1>1. << >> \in Q
    <2>1. e \o << >> = e /\ f \o << >> = f /\ << >> \in Seq(Seq(Bytes))
      BY ConcatEmptySeq, EmptySeq
    <2>2. QED
      BY <2>1
  <1>2. ASSUME NEW g \in Seq(Seq(Bytes)), NEW c \in Seq(Bytes), g \in Q
        PROVE  Append(g, c) \in Q
    <2>1. PICK eg, fg \in Seq(Seq(Bytes)) : eg = e \o g /\ fg = f \o g
      BY ConcatProperties
    <2>2. e \o Append(g, c) = Append(eg, c) /\ f \o Append(g, c) = Append(fg, c)
      <3>1. <<c>> \in Seq(Seq(Bytes))
        BY OneByte
      <3>2. Append(g, c) = g \o <<c>> /\ Append(eg, c) = eg \o <<c>> /\ Append(fg, c) = fg \o <<c>>
        BY AppendIsConcat
      <3>3. Groups(e, g, <<c>>) /\ Groups(f, g, <<c>>)
        BY <3>1, Grouping
      <3>4. QED
        BY <2>1, <3>2, <3>3 DEF Groups
    <2>3. KeepsDirs(Seq(Bytes), eg, c) /\ KeepsDirs(Seq(Bytes), fg, c)
      BY KeptDirsMore
    <2>4. N!NormalizeRelativePath(eg) = N!NormalizeRelativePath(fg)
      BY <1>2, <2>1
    <2>5. N!NormalizeRelativePath(Append(eg, c)) = N!NormalizeRelativePath(Append(fg, c))
      BY <2>3, <2>4 DEF KeepsDirs
    <2>6. Append(g, c) \in Seq(Seq(Bytes))
      BY AppendProperties
    <2>7. QED
      BY <2>2, <2>5, <2>6
  <1>3. \A g \in Seq(Seq(Bytes)), c \in Seq(Bytes) : g \in Q => Append(g, c) \in Q
    BY <1>2
  <1> HIDE DEF Q
  <1>4. \A g \in Seq(Seq(Bytes)) : g \in Q
    BY <1>1, <1>3, SequenceInduction
  <1>5. QED
    BY <1>4 DEF Q

-----------------------------------------------------------------------------
(* A relative include. *)

\* What fits is appended whole.
LEMMA AppendFits ==
  ASSUME NEW buffer \in Seq(Bytes), NEW source \in Seq(Bytes), NEW size \in Nat,
         Len(buffer) + Len(source) < size
  PROVE  AppendString(buffer, size, source) = buffer \o source
  <1>1. Len(buffer) \in Nat /\ Len(source) \in Nat
    BY LenProperties
  <1>2. CASE Len(buffer) + 1 >= size
    <2>1. Len(source) = 0
      BY <1>1, <1>2
    <2>2. source = << >>
      BY <2>1, EmptySeq
    <2>3. buffer \o << >> = buffer
      BY ConcatEmptySeq
    <2>4. QED
      BY <1>2, <2>2, <2>3 DEF AppendString
  <1>3. CASE ~(Len(buffer) + 1 >= size)
    <2>1. PICK m \in Nat : m = size - Len(buffer) /\ m # 0 /\ m - 1 \in Nat /\ Len(source) <= m - 1
      <3>1. PICK k \in Nat : k = Len(buffer)
        BY <1>1
      <3>2. PICK j \in Nat : j = Len(source)
        BY <1>1
      <3>3. ~(k + 1 >= size) /\ k + j < size
        BY <1>3, <3>1, <3>2
      <3>4. size - k \in Nat /\ size - k # 0 /\ (size - k) - 1 \in Nat /\ j <= (size - k) - 1
        BY <3>3
      <3>5. QED
        BY <3>1, <3>2, <3>4
    <2>2. Cut(source, m - 1) = source
      BY <2>1, CutWhole
    <2>3. QED
      BY <1>3, <2>1, <2>2 DEF AppendString, CopyString
  <1>4. QED
    BY <1>2, <1>3

\* Only "" and what begins with it are spelled with no byte.
LEMMA JoinNothing ==
  ASSUME NEW f \in Seq(Seq(Bytes)), AllWithout(f), f # << >>, Join(f, "/") = << >>
  PROVE  f = << << >> >>
  <1>1. PICK e \in Seq(Seq(Bytes)), x \in Seq(Bytes) : f = Append(e, x)
    <2>1. \E e \in Seq(Seq(Bytes)), x \in Seq(Bytes) : f = Append(e, x)
      BY SequenceEmptyOrAppend
    <2>2. QED
      BY <2>1
  <1>2. Without(x, "/")
    <2>1. Len(f) = Len(e) + 1 /\ f[Len(e) + 1] = x /\ Len(e) \in Nat /\ DOMAIN f = 1..Len(f)
      BY <1>1, AppendProperties, LenProperties
    <2>2. Len(e) + 1 \in DOMAIN f
      BY <2>1
    <2>3. QED
      BY <2>1, <2>2 DEF AllWithout
  <1>3. EndsIn(e, x)
    BY <1>2, JoinEnds
  <1>4. Len(Join(f, "/")) = 0
    BY EmptySeq
  <1>5. Len(x) \in Nat /\ Len(Join(e, "/")) \in Nat
        /\ 0 = IF e = << >> THEN Len(x) ELSE (Len(Join(e, "/")) + 1) + Len(x)
    BY <1>1, <1>3, <1>4 DEF EndsIn
  <1>6. e = << >> /\ Len(x) = 0
    BY <1>5
  <1>7. x = << >>
    BY <1>6, EmptySeq
  <1>8. QED
    BY <1>1, <1>6, <1>7

JoinedParts(f, g) == IF Join(f, "/") = << >> THEN g ELSE f \o g

\* The path that is normalized, and that it fits.
JoinsFrom(f, b, d, l) ==
  /\ JoinedParts(f, Append(d, l)) \in Seq(Seq(Bytes)) /\ JoinedParts(f, Append(d, l)) # << >>
  /\ AllWithout(JoinedParts(f, Append(d, l)))
  /\ Joined(Join(Append(f, b), "/"), Join(Append(d, l), "/")) = Join(JoinedParts(f, Append(d, l)), "/")
  /\ Len(Join(JoinedParts(f, Append(d, l)), "/")) < MaxName
  /\ N!NormalizeRelativePath(JoinedParts(f, Append(d, l))) = N!NormalizeRelativePath(f \o Append(d, l))

\* Two paths of parts without slashes.
LEMMA AllWithoutConcat ==
  ASSUME NEW f \in Seq(Seq(Bytes)), AllWithout(f), NEW g \in Seq(Seq(Bytes)), AllWithout(g)
  PROVE  AllWithout(f \o g)
  <1>1. /\ f \o g \in Seq(Seq(Bytes)) /\ Len(f \o g) = Len(f) + Len(g)
        /\ Len(f) \in Nat /\ Len(g) \in Nat
        /\ \A i \in 1..Len(f) + Len(g) : (f \o g)[i] = IF i <= Len(f) THEN f[i] ELSE g[i - Len(f)]
    BY ConcatProperties, LenProperties
  <1>2. DOMAIN (f \o g) = 1..Len(f) + Len(g) /\ DOMAIN f = 1..Len(f) /\ DOMAIN g = 1..Len(g)
    BY <1>1, LenProperties
  <1>3. \A i \in 1..Len(f) + Len(g) : IF i <= Len(f) THEN i \in 1..Len(f) ELSE i - Len(f) \in 1..Len(g)
    BY <1>1
  <1>4. QED
    BY <1>1, <1>2, <1>3 DEF AllWithout

\* One more part without a slash.
LEMMA AllWithoutAppend ==
  ASSUME NEW f \in Seq(Seq(Bytes)), AllWithout(f), NEW l \in Seq(Bytes), Without(l, "/")
  PROVE  AllWithout(Append(f, l)) /\ Append(f, l) \in Seq(Seq(Bytes)) /\ Append(f, l) # << >>
  <1>1. /\ Append(f, l) \in Seq(Seq(Bytes)) /\ Append(f, l) # << >> /\ Len(Append(f, l)) = Len(f) + 1
        /\ Append(f, l)[Len(f) + 1] = l /\ \A i \in 1..Len(f) : Append(f, l)[i] = f[i]
    BY AppendProperties
  <1>2. DOMAIN f = 1..Len(f) /\ DOMAIN Append(f, l) = 1..Len(f) + 1 /\ Len(f) \in Nat
    BY <1>1, LenProperties
  <1>3. \A i \in 1..Len(f) + 1 : i \in 1..Len(f) \/ i = Len(f) + 1
    BY <1>2
  <1>4. QED
    BY <1>1, <1>2, <1>3 DEF AllWithout

\* What fits is joined whole, and a directory spelled with no byte changes
\* nothing of what is kept.
LEMMA JoinedFrom ==
  ASSUME NEW f \in Seq(Seq(Bytes)), AllWithout(f), NEW b \in Seq(Bytes), Without(b, "/"),
         NEW d \in Seq(Seq(Bytes)), AllWithout(d), NEW l \in Seq(Bytes), Without(l, "/"),
         Len(Join(Append(f, b), "/")) + Len(Join(Append(d, l), "/")) < MaxName
  PROVE  JoinsFrom(f, b, d, l)
  <1>1. PICK g \in Seq(Seq(Bytes)) : g = Append(d, l) /\ g # << >> /\ AllWithout(g)
    BY AllWithoutAppend
  <1>2. EndsIn(f, b)
    BY JoinEnds
  <1>3. PICK jf, from, t \in Seq(Bytes) :
          /\ jf = Join(f, "/") /\ from = Join(Append(f, b), "/") /\ t = Join(g, "/")
          /\ Cut(from, Max({LastOffset(from, "/") - 1, 0})) = jf
    <2>1. Join(g, "/") \in Seq(Bytes)
      BY BytesHere, JoinType
    <2>2. QED
      BY <1>2, <2>1 DEF EndsIn
  <1>4. /\ Len(from) \in Nat /\ Len(t) \in Nat /\ Len(jf) \in Nat /\ Len(b) \in Nat
        /\ Len(from) + Len(t) < MaxName
    BY <1>1, <1>3, LenProperties
  <1>5. MaxName \in Nat /\ MaxName - 1 \in Nat
    BY MaxNameType
  <1>6. CASE jf = << >>
    <2>1. JoinedParts(f, g) = g
      BY <1>3, <1>6 DEF JoinedParts
    <2>2. Joined(from, t) = AppendString(<< >>, MaxName, t)
      BY <1>3, <1>6 DEF Joined
    <2>3. AppendString(<< >>, MaxName, t) = << >> \o t /\ << >> \o t = t
      <3>1. << >> \in Seq(Bytes) /\ Len(<< >>) = 0 /\ 0 + Len(t) < MaxName
        BY <1>4, <1>5, EmptySeq
      <3>2. QED
        BY <1>5, <3>1, AppendFits, ConcatEmptySeq
    <2>4. Len(t) < MaxName
      BY <1>4, <1>5
    <2>5. N!NormalizeRelativePath(f \o g) = N!NormalizeRelativePath(g)
      <3>1. CASE f = << >>
        BY <3>1, ConcatEmptySeq
      <3>2. CASE f # << >>
        <4>1. f = << << >> >>
          BY <1>3, <1>6, <3>2, JoinNothing
        <4>2. << >> \in Seq(Bytes) /\ << >> \in Seq(Seq(Bytes)) /\ Append(<< >>, << >>) = << << >> >>
          OBVIOUS
        <4>3. KeepsDirs(Seq(Bytes), << >>, << >>)
          BY <4>2, KeptDirsMore
        <4>4. N!KeepComponent(<< >>, << >>) = << >>
          BY DEF N!KeepComponent
        <4>5. N!NormalizeRelativePath(f) = N!NormalizeRelativePath(<< >>)
          BY <4>1, <4>2, <4>3, <4>4 DEF KeepsDirs
        <4>6. N!NormalizeRelativePath(f \o g) = N!NormalizeRelativePath(<< >> \o g)
          BY <4>2, <4>5, SameKept
        <4>7. << >> \o g = g
          BY ConcatEmptySeq
        <4>8. QED
          BY <4>6, <4>7
      <3>3. QED
        BY <3>1, <3>2
    <2>6. QED
      BY <1>1, <1>3, <2>1, <2>2, <2>3, <2>4, <2>5 DEF JoinsFrom
  <1>7. CASE jf # << >>
    <2>1. JoinedParts(f, g) = f \o g
      BY <1>3, <1>7 DEF JoinedParts
    <2>2. f # << >>
      <3>1. f = << >> => Join(f, "/") = << >>
        BY <1>2 DEF EndsIn
      <3>2. QED
        BY <1>3, <1>7, <3>1
    <2>3. Len(from) = (Len(jf) + 1) + Len(b)
      BY <1>2, <1>3, <2>2 DEF EndsIn
    <2>4. Cut(jf, MaxName - 1) = jf
      <3>1. Len(jf) <= MaxName - 1
        BY <1>4, <1>5, <2>3
      <3>2. QED
        BY <1>5, <3>1, CutWhole
    <2>5. PICK s \in Seq(Bytes) : s = <<"/">> /\ Len(s) = 1
      <3>1. <<"/">> \in Seq(Bytes)
        BY BytesHere, OneByte
      <3>2. QED
        BY <3>1
    <2>6. PICK js \in Seq(Bytes) : js = jf \o s /\ Len(js) = Len(jf) + 1
      <3>1. jf \o s \in Seq(Bytes) /\ Len(jf \o s) = Len(jf) + Len(s)
        BY ConcatProperties
      <3>2. QED
        BY <2>5, <3>1
    <2>7. AppendString(jf, MaxName, s) = js
      <3>1. Len(jf) + Len(s) < MaxName
        BY <1>4, <1>5, <2>3, <2>5
      <3>2. QED
        BY <1>5, <2>6, <3>1, AppendFits
    <2>8. AppendString(js, MaxName, t) = js \o t
      <3>1. Len(js) + Len(t) < MaxName
        BY <1>4, <1>5, <2>3, <2>6
      <3>2. QED
        BY <1>5, <3>1, AppendFits
    <2>9. Joined(from, t) = js \o t
      BY <1>3, <1>7, <2>4, <2>5, <2>7, <2>8 DEF Joined
    <2>10. JoinsAll(f, g)
      BY <2>2, JoinConcat
    <2>11. Join(f \o g, "/") = js \o t /\ f \o g \in Seq(Seq(Bytes))
      BY <1>1, <1>3, <2>2, <2>5, <2>6, <2>10 DEF JoinsAll
    <2>12. Len(js \o t) < MaxName
      <3>1. Len(js \o t) = Len(js) + Len(t)
        BY ConcatProperties
      <3>2. QED
        BY <1>4, <1>5, <2>3, <2>6, <3>1
    <2>13. f \o g # << >>
      <3>1. f \o g = << >> => f = << >>
        <4>1. Len(f \o g) = Len(f) + Len(g) /\ Len(f) \in Nat /\ Len(g) \in Nat
          BY ConcatProperties, LenProperties
        <4>2. f \o g = << >> => Len(f) = 0
          BY <4>1, EmptySeq
        <4>3. QED
          BY <4>2, EmptySeq
      <3>2. QED
        BY <2>2, <3>1
    <2>14. AllWithout(f \o g)
      BY <1>1, AllWithoutConcat
    <2>15. QED
      BY <1>1, <1>3, <2>1, <2>9, <2>11, <2>12, <2>13, <2>14 DEF JoinsFrom
  <1>8. QED
    BY <1>6, <1>7

\* A name is never taken away again.
LEMMA KeepsName ==
  ASSUME NEW e \in Seq(Seq(Bytes)), NEW l \in Seq(Bytes), l \notin {<< >>, <<".">>, Up}
  PROVE  N!NormalizeRelativePath(Append(e, l)) = Append(N!NormalizeRelativePath(e), l)
  <1>1. KeepsDirs(Seq(Bytes), e, l)
    BY KeptDirsMore
  <1>2. PICK k : k = N!NormalizeRelativePath(e)
    OBVIOUS
  <1>3. N!KeepComponent(k, l) = Append(k, l)
    BY DEF N!KeepComponent
  <1>4. QED
    BY <1>1, <1>2, <1>3 DEF KeepsDirs

\* What a relative operand becomes: a path of the directories the loop keeps.
Results(r, f, d, l) ==
  /\ N!NormalizeRelativePath(f \o d) \in Seq(Seq(Bytes)) /\ Clean(N!NormalizeRelativePath(f \o d))
  /\ AllWithout(N!NormalizeRelativePath(f \o d))
  /\ \A i \in DOMAIN N!NormalizeRelativePath(f \o d) :
       \E j \in DOMAIN (f \o d) : N!NormalizeRelativePath(f \o d)[i] = (f \o d)[j]
  /\ r = Join(Append(N!NormalizeRelativePath(f \o d), l), "/")
  /\ r \in Seq(Bytes) /\ Len(r) < MaxName

\* A relative include is resolved to directories of the path and the name it ends
\* in.
LEMMA RelativeResult ==
  ASSUME NEW f \in Seq(Seq(Bytes)), AllWithout(f), NEW b \in Seq(Bytes), Without(b, "/"),
         NEW d \in Seq(Seq(Bytes)), AllWithout(d), NEW l \in Seq(Bytes), Without(l, "/"),
         l \notin {<< >>, <<".">>, Up},
         Len(Join(Append(f, b), "/")) + Len(Join(Append(d, l), "/")) < MaxName
  PROVE  Results(NormalizeRelativePath(Joined(Join(Append(f, b), "/"), Join(Append(d, l), "/"))), f, d, l)
  <1>1. JoinsFrom(f, b, d, l)
    BY JoinedFrom
  <1>2. PICK parts \in Seq(Seq(Bytes)) :
          /\ parts = JoinedParts(f, Append(d, l)) /\ parts # << >> /\ AllWithout(parts)
          /\ Joined(Join(Append(f, b), "/"), Join(Append(d, l), "/")) = Join(parts, "/")
          /\ Len(Join(parts, "/")) < MaxName
          /\ N!NormalizeRelativePath(parts) = N!NormalizeRelativePath(f \o Append(d, l))
    BY <1>1 DEF JoinsFrom
  <1>3. PICK r : r = NormalizeRelativePath(Join(parts, "/"))
    OBVIOUS
  <1>4. r = Join(N!NormalizeRelativePath(parts), "/") /\ Loops(parts)
    BY <1>2, <1>3, KeptParts
  <1>5. PICK e \in Seq(Seq(Bytes)) : e = f \o d /\ f \o Append(d, l) = Append(e, l) /\ AllWithout(e)
    <2>1. f \o d \in Seq(Seq(Bytes)) /\ AllWithout(f \o d)
      BY ConcatProperties, AllWithoutConcat
    <2>2. PICK e \in Seq(Seq(Bytes)) : e = f \o d
      BY <2>1
    <2>3. <<l>> \in Seq(Seq(Bytes))
      BY OneByte
    <2>4. Append(d, l) = d \o <<l>> /\ Append(e, l) = e \o <<l>>
      BY AppendIsConcat
    <2>5. Groups(f, d, <<l>>)
      BY <2>3, Grouping
    <2>6. QED
      BY <2>1, <2>2, <2>4, <2>5 DEF Groups
  <1>6. N!NormalizeRelativePath(Append(e, l)) = Append(N!NormalizeRelativePath(e), l)
    BY KeepsName
  <1>7. r = Join(Append(N!NormalizeRelativePath(e), l), "/")
    BY <1>2, <1>4, <1>5, <1>6
  <1>8. Loops(e)
    BY <1>5, LoopsAgree
  <1>9. PICK k \in Seq(Seq(Bytes)) : k = N!NormalizeRelativePath(e) /\ Clean(k) /\ AllWithout(k)
    <2>1. N!NormalizeRelativePath(e) \in Seq(Seq(Bytes)) /\ Clean(N!NormalizeRelativePath(e))
      BY <1>8 DEF Loops
    <2>2. QED
      BY <2>1 DEF Clean, AllWithout
  <1>10. r \in Seq(Bytes)
    <2>1. Append(k, l) \in Seq(Seq(Bytes))
      BY AppendProperties
    <2>2. QED
      BY <1>7, <1>9, <2>1, BytesHere, JoinType
  <1>11. Len(r) < MaxName
    <2>1. Len(r) <= Len(Join(parts, "/"))
      BY <1>4 DEF Loops
    <2>2. Join(parts, "/") \in Seq(Bytes)
      BY BytesHere, JoinType
    <2>3. Len(r) \in Nat /\ Len(Join(parts, "/")) \in Nat
      BY <1>10, <2>2, LenProperties
    <2>4. QED
      BY <1>2, <2>1, <2>3, MaxNameType
  <1>12. \A i \in DOMAIN k : \E j \in DOMAIN e : k[i] = e[j]
    BY <1>8, <1>9 DEF Loops
  <1>13. QED
    BY <1>2, <1>3, <1>5, <1>7, <1>9, <1>10, <1>11, <1>12 DEF Results

\* The first byte of a path is that of its first directory.
LEMMA FirstByte ==
  ASSUME NEW e \in Seq(Seq(Bytes)), AllWithout(e), NEW l \in Seq(Bytes), Without(l, "/"),
         e # << >> => Head(e) # << >> /\ Head(e)[1] # "@",
         l # << >> /\ l[1] # "@",
         NEW s, s = Join(Append(e, l), "/")
  PROVE  s # << >> /\ s[1] # "@"
  <1>1. CASE e = << >>
    <2>1. Append(e, l) = <<l>>
      BY <1>1
    <2>2. s = l
      BY <2>1, BytesHere, JoinOne
    <2>3. QED
      BY <2>2
  <1>2. CASE e # << >>
    <2>1. PICK u, t \in Seq(Bytes) : u = Head(e) /\ s = (u \o <<"/">>) \o t
      BY <1>2, FirstDivides
    <2>2. /\ (u \o <<"/">>) \o t \in Seq(Bytes)
          /\ Len((u \o <<"/">>) \o t) = (Len(u) + 1) + Len(t) /\ Len(u) \in Nat /\ Len(t) \in Nat
          /\ \A i \in 1..Len(u) : ((u \o <<"/">>) \o t)[i] = u[i]
      BY DirectoryBytes
    <2>3. Len(u) \in Nat \ {0}
      BY <1>2, <2>1, EmptySeq
    <2>4. 1 \in 1..Len(u) /\ (Len(u) + 1) + Len(t) # 0
      BY <2>2, <2>3
    <2>5. s[1] = u[1]
      BY <2>1, <2>2, <2>4
    <2>6. s # << >>
      <3>1. Len(s) # 0
        BY <2>1, <2>2, <2>4
      <3>2. s \in Seq(Bytes) /\ Len(<< >>) = 0
        BY <2>1, <2>2, EmptySeq
      <3>3. QED
        BY <3>1, <3>2
    <2>7. QED
      BY <1>2, <2>1, <2>5, <2>6
  <1>3. QED
    BY <1>1, <1>2

-----------------------------------------------------------------------------
(* Includes of a file in the first directories of the path. *)

\* The directories of the file, those of the include, and the last component.
Divides(n, F, D, c) ==
  /\ F = SubSeq(path, 1, n) /\ c = path[Len(path)]
  /\ SubSeq(path, n + 1, Len(path)) = Append(D, c)
  /\ path = Append(F \o D, c)

\* A path, divided behind some directories.
LEMMA DivisionIs ==
  ASSUME path \in Seq(Components), NEW n \in Divisions
  PROVE  \E F, D \in Seq(Components), c \in Components : Divides(n, F, D, c)
  <1>1. Len(path) \in Nat /\ n \in 0..Len(path) - 1
    BY LenProperties DEF Divisions
  <1>2. PICK m \in Nat : m = Len(path) - 1 /\ m + 1 = Len(path) /\ m \in n..Len(path) /\ n \in 0..Len(path)
    <2>1. PICK k \in Nat : k = Len(path) /\ n \in 0..k - 1
      BY <1>1
    <2>2. k - 1 \in Nat /\ (k - 1) + 1 = k /\ k - 1 \in n..k /\ n \in 0..k
      BY <2>1
    <2>3. QED
      BY <2>1, <2>2
  <1>3. Stretch(Components, path, n, m)
    BY <1>2, StretchIs
  <1>4. SubSeq(path, 1, Len(path)) = path
    BY SubSeqFull
  <1>5. m < Len(path)
    BY <1>2
  <1>6. PICK F, D \in Seq(Components), c \in Components :
          /\ F = SubSeq(path, 1, n) /\ D = SubSeq(path, n + 1, m) /\ c = path[Len(path)]
          /\ F \o D = SubSeq(path, 1, m)
          /\ SubSeq(path, n + 1, Len(path)) = Append(D, c)
          /\ SubSeq(path, 1, Len(path)) = Append(SubSeq(path, 1, m), c)
    BY <1>2, <1>3, <1>5 DEF Stretch
  <1>7. path = Append(F \o D, c)
    BY <1>4, <1>6
  <1>8. QED
    BY <1>6, <1>7 DEF Divides

\* The division as bytes.
Spells(n, f, d, l, b, c) ==
  /\ f \in Seq(Seq(Bytes)) /\ AllWithout(f) /\ d \in Seq(Seq(Bytes)) /\ AllWithout(d)
  /\ l \in Seq(Bytes) /\ Without(l, "/") /\ b \in Seq(Bytes) /\ Without(b, "/")
  /\ l = BytesOf[c] /\ c = path[Len(path)]
  /\ BytesOfAll(path) = Append(f \o d, l)
  /\ Module(n) = Join(Append(f, b), "/") /\ Target(n) = Join(Append(d, l), "/")
  /\ Len(f) = n /\ Len(path) = (n + Len(d)) + 1 /\ n \in Nat /\ Len(d) \in Nat

\* The module and the include of a division, as parts.
LEMMA DivisionSpelled ==
  ASSUME path \in Seq(Components), NEW n \in Divisions
  PROVE  \E f, d, l, b, c : c \in Components /\ Spells(n, f, d, l, b, c)
  <1>1. PICK F, D \in Seq(Components), c \in Components : Divides(n, F, D, c)
    BY DivisionIs
  <1>2. Stem \in Components
    BY BytesAssumption
  <1>3. PICK l, b \in Seq(Bytes) : /\ l = BytesOf[c] /\ b = BytesOf[Stem]
                                   /\ Without(l, "/") /\ Without(b, "/")
    BY <1>2, Component
  <1>4. PICK f \in Seq(Seq(Bytes)) : /\ f = BytesOfAll(F) /\ AllWithout(f) /\ Len(f) = Len(F)
                                     /\ BytesOfAll(Append(F, Stem)) = Append(f, b)
    <2>1. BytesOfMore(F, Stem)
      BY <1>2, BytesOfAppend
    <2>2. Len(BytesOfAll(F)) = Len(F)
      BY BytesOfAllType
    <2>3. QED
      BY <1>3, <2>1, <2>2 DEF BytesOfMore
  <1>5. PICK d \in Seq(Seq(Bytes)) : /\ d = BytesOfAll(D) /\ AllWithout(d) /\ Len(d) = Len(D)
                                     /\ BytesOfAll(Append(D, c)) = Append(d, l)
    <2>1. BytesOfMore(D, c)
      BY BytesOfAppend
    <2>2. Len(BytesOfAll(D)) = Len(D)
      BY BytesOfAllType
    <2>3. QED
      BY <1>3, <2>1, <2>2 DEF BytesOfMore
  <1>6. BytesOfAll(path) = Append(f \o d, l)
    <2>1. PICK FD \in Seq(Components) : FD = F \o D /\ BytesOfAll(FD) = f \o d
      BY <1>4, <1>5, BytesOfConcat
    <2>2. BytesOfMore(FD, c)
      BY BytesOfAppend
    <2>3. QED
      BY <1>1, <1>3, <2>1, <2>2 DEF BytesOfMore, Divides
  <1>7. Module(n) = Join(Append(f, b), "/") /\ Target(n) = Join(Append(d, l), "/")
    BY <1>1, <1>4, <1>5 DEF Module, Target, Text, Divides
  <1>8. n \in Nat /\ Len(F) = n /\ Len(D) \in Nat
    <2>1. Len(path) \in Nat /\ n \in 0..Len(path) - 1
      BY LenProperties DEF Divisions
    <2>2. n \in Nat /\ n \in 0..Len(path)
      BY <2>1
    <2>3. \A i \in 1..n : path[i] \in Components
      <3>1. \A i \in 1..n : i \in 1..Len(path)
        BY <2>1
      <3>2. QED
        BY <3>1, ElementOfSeq
    <2>4. 1 \in Int /\ n \in Int
      BY <2>2
    <2>5. Len(SubSeq(path, 1, n)) = IF 1 <= n THEN n - 1 + 1 ELSE 0
      BY <2>3, <2>4, SubSeqProperties
    <2>6. Len(SubSeq(path, 1, n)) = n
      BY <2>2, <2>5
    <2>7. QED
      BY <1>1, <2>2, <2>6, LenProperties DEF Divides
  <1>9. Len(path) = (n + Len(d)) + 1
    <2>1. PICK FD \in Seq(Components) : FD = F \o D /\ Len(FD) = Len(F) + Len(D)
      BY ConcatProperties
    <2>2. Len(Append(FD, c)) = Len(FD) + 1
      BY AppendProperties
    <2>3. QED
      BY <1>1, <1>5, <1>8, <2>1, <2>2 DEF Divides
  <1>10. c = path[Len(path)]
    BY <1>1 DEF Divides
  <1>11. QED
    BY <1>3, <1>4, <1>5, <1>6, <1>7, <1>8, <1>9, <1>10 DEF Spells

\* Each part of the path is the bytes of a component, and begins with no "@" when it is
\* none of what the include names first.
PartsAre(n, f, d, l) ==
  /\ \A i \in DOMAIN f : \E c \in Components : f[i] = BytesOf[c]
  /\ \A i \in DOMAIN d : \E c \in Components : d[i] = BytesOf[c]
  /\ \A i \in DOMAIN f : f[i] # << >> => f[i][1] # "@"
  /\ \A i \in DOMAIN d : i # 1 /\ d[i] # << >> => d[i][1] # "@"
  /\ d # << >> /\ l # << >> => l[1] # "@"

\* The parts of a division are bytes of components.
LEMMA PartsOfPath ==
  ASSUME path \in Seq(Components), NEW n \in Divisions, MarksResolved(n),
         NEW f, NEW d, NEW l, NEW b, NEW c, Spells(n, f, d, l, b, c)
  PROVE  PartsAre(n, f, d, l)
  <1>1. /\ f \in Seq(Seq(Bytes)) /\ d \in Seq(Seq(Bytes)) /\ l \in Seq(Bytes)
        /\ BytesOfAll(path) = Append(f \o d, l)
        /\ Len(f) = n /\ Len(path) = (n + Len(d)) + 1 /\ n \in Nat /\ Len(d) \in Nat
    BY DEF Spells
  <1>2. PICK a \in Seq(Seq(Bytes)) :
          a = BytesOfAll(path) /\ Len(a) = Len(path) /\ \A i \in 1..Len(path) : a[i] = BytesOf[path[i]]
    BY BytesOfAllType
  <1>3. \A i \in 1..Len(path) : path[i] \in Components
    BY ElementOfSeq
  <1>4. DOMAIN path = 1..Len(path) /\ DOMAIN f = 1..n /\ DOMAIN d = 1..Len(d)
    BY <1>1, LenProperties
  <1>5. \A i \in 1..Len(path) : i # n + 1 /\ a[i] # << >> => a[i][1] # "@"
    <2>1. TAKE i \in 1..Len(path)
    <2>2. HAVE i # n + 1 /\ a[i] # << >>
    <2>3. path[i] # Empty /\ BytesOf[path[i]] \in Seq(Bytes) /\ BytesOf[path[i]] # << >>
      BY <1>2, <1>3, <2>2, Component
    <2>4. Head(BytesOf[path[i]]) # "@"
      BY <1>4, <2>2, <2>3 DEF MarksResolved
    <2>5. Head(BytesOf[path[i]]) = BytesOf[path[i]][1]
      BY <2>3, HeadAndTail
    <2>6. QED
      BY <1>2, <2>4, <2>5
  <1>6. PICK fd \in Seq(Seq(Bytes)) :
          /\ fd = f \o d /\ Len(fd) = n + Len(d)
          /\ \A i \in 1..n + Len(d) : fd[i] = IF i <= n THEN f[i] ELSE d[i - n]
    <2>1. /\ f \o d \in Seq(Seq(Bytes)) /\ Len(f \o d) = Len(f) + Len(d)
          /\ \A i \in 1..Len(f) + Len(d) : (f \o d)[i] = IF i <= Len(f) THEN f[i] ELSE d[i - Len(f)]
      BY <1>1, ConcatProperties
    <2>2. QED
      BY <1>1, <2>1
  <1>7. (\A i \in 1..n + Len(d) : a[i] = fd[i]) /\ a[(n + Len(d)) + 1] = l
    <2>1. (\A i \in 1..Len(fd) : Append(fd, l)[i] = fd[i]) /\ Append(fd, l)[Len(fd) + 1] = l
      BY <1>1, AppendProperties
    <2>2. QED
      BY <1>1, <1>2, <1>6, <2>1
  <1>8. \A i \in 1..n : i \in 1..Len(path) /\ i # n + 1 /\ f[i] = a[i]
    <2>1. TAKE i \in 1..n
    <2>2. i \in 1..n + Len(d) /\ i <= n /\ i # n + 1 /\ i \in 1..Len(path)
      BY <1>1
    <2>3. QED
      BY <1>6, <1>7, <2>2
  <1>9. \A i \in 1..Len(d) : n + i \in 1..Len(path) /\ d[i] = a[n + i] /\ (i # 1 => n + i # n + 1)
    <2>1. TAKE i \in 1..Len(d)
    <2>2. n + i \in 1..n + Len(d) /\ ~(n + i <= n) /\ (n + i) - n = i /\ n + i \in 1..Len(path)
          /\ (i # 1 => n + i # n + 1)
      BY <1>1
    <2>3. fd[n + i] = d[i]
      BY <1>6, <2>2
    <2>4. QED
      BY <1>7, <2>2, <2>3
  <1>10. d # << >> => (n + Len(d)) + 1 \in 1..Len(path) /\ (n + Len(d)) + 1 # n + 1
    <2>1. d # << >> => Len(d) \in Nat \ {0}
      BY <1>1, EmptySeq
    <2>2. QED
      BY <1>1, <2>1
  <1>11. \A i \in 1..n : f[i] # << >> => f[i][1] # "@"
    BY <1>5, <1>8
  <1>12. \A i \in 1..Len(d) : i # 1 /\ d[i] # << >> => d[i][1] # "@"
    BY <1>5, <1>9
  <1>13. d # << >> /\ l # << >> => l[1] # "@"
    BY <1>5, <1>7, <1>10
  <1>14. \A i \in 1..n : \E e \in Components : f[i] = BytesOf[e]
    BY <1>2, <1>3, <1>8, ZenonT(60)
  <1>15. \A i \in 1..Len(d) : \E e \in Components : d[i] = BytesOf[e]
    <2>1. TAKE i \in 1..Len(d)
    <2>2. PICK j \in 1..Len(path) : d[i] = a[j]
      BY <1>9
    <2>3. d[i] = BytesOf[path[j]] /\ path[j] \in Components
      BY <1>2, <1>3, <2>2
    <2>4. QED
      BY <2>3
  <1>16. QED
    BY <1>4, <1>11, <1>12, <1>13, <1>14, <1>15 DEF PartsAre

\* What is spelled, when the include names a file and fits.
IncludeSpells(n, f, d, l, b) ==
  /\ l \notin {<< >>, <<".">>, Up}
  /\ Len(Join(Append(f, b), "/")) + Len(Join(Append(d, l), "/")) < MaxName
  /\ Len(Join(Append(d, l), "/")) < MaxName
  /\ Target(n) \in Seq(Bytes)
  /\ PathOf(Module(n)).dirs = f
  /\ PathOf(Target(n)).dirs = d /\ PathBasename(Target(n)) = l
  /\ PathOf(Target(n)) = [dirs |-> d, base |-> BaseOf(l)]

\* The directories and the name of an include that names a file.
LEMMA IncludeSpelled ==
  ASSUME NEW n, NamesFile, FitsName(n),
         NEW f, NEW d, NEW l, NEW b, NEW c \in Components, Spells(n, f, d, l, b, c)
  PROVE  IncludeSpells(n, f, d, l, b)
  <1>1. /\ f \in Seq(Seq(Bytes)) /\ AllWithout(f) /\ d \in Seq(Seq(Bytes)) /\ AllWithout(d)
        /\ l \in Seq(Bytes) /\ Without(l, "/") /\ b \in Seq(Bytes) /\ Without(b, "/")
        /\ l = BytesOf[c] /\ c = path[Len(path)]
        /\ Module(n) = Join(Append(f, b), "/") /\ Target(n) = Join(Append(d, l), "/")
    BY DEF Spells
  <1>2. l \notin {<< >>, <<".">>, Up}
    <2>1. c \notin {Empty, ".", ".."}
      BY <1>1 DEF NamesFile
    <2>2. QED
      BY <1>1, <2>1, Component
  <1>3. Module(n) \in Seq(Bytes) /\ PathOf(Module(n)).dirs = f
    BY <1>1, JoinPath
  <1>4. Target(n) \in Seq(Bytes) /\ PathOf(Target(n)).dirs = d /\ PathBasename(Target(n)) = l
    BY <1>1, JoinPath
  <1>5. PathOf(Target(n)) = [dirs |-> PathOf(Target(n)).dirs, base |-> BaseOf(PathBasename(Target(n)))]
    BY <1>4, PathParts
  <1>6. Len(Module(n)) + Len(Target(n)) < MaxName
    BY DEF FitsName
  <1>7. Len(Module(n)) \in Nat /\ Len(Target(n)) \in Nat
    BY <1>3, <1>4, LenProperties
  <1>8. Len(Target(n)) < MaxName
    BY <1>6, <1>7, MaxNameType
  <1>9. QED
    BY <1>1, <1>2, <1>3, <1>4, <1>5, <1>6, <1>8 DEF IncludeSpells

\* "@" marks a module that is resolved: what follows is its name.
LEMMA RawInclude ==
  ASSUME NEW from, NEW t \in Seq(Bytes), Len(t) < MaxName, t # << >>, t[1] = "@",
         ~IsRelative(t)
  PROVE  LocalIncludeToModule(from, t)
           = Spelled(N!LocalIncludeToModule(PathOf(from), N!Operand(TRUE, PathOf(Tail(t)))))
  <1>1. Tail(t) \in Seq(Bytes) /\ Len(Tail(t)) = Len(t) - 1 /\ Len(t) \in Nat
    BY HeadTailProperties, LenProperties
  <1>2. PICK v \in Seq(Bytes) : v = Tail(t)
    BY <1>1
  <1>3. MaxName # 0 /\ MaxName - 1 \in Nat /\ Len(v) <= MaxName - 1
    BY <1>1, <1>2, MaxNameType
  <1>4. Cut(v, MaxName - 1) = v
    BY <1>3, CutWhole
  <1>5. IncludeToModule(MaxName, t) = v
    BY <1>2, <1>3, <1>4 DEF IncludeToModule, CopyString
  <1>6. LocalIncludeToModule(from, t) = v
    BY <1>5 DEF LocalIncludeToModule
  <1>7. N!LocalIncludeToModule(PathOf(from), N!Operand(TRUE, PathOf(v))) = PathOf(v)
    BY DEF N!LocalIncludeToModule, N!Operand, N!IncludeToModule
  <1>8. QED
    BY <1>2, <1>6, <1>7, PathSpelled

\* Any other include that is not relative is looked for as it stands.
LEMMA PlainInclude ==
  ASSUME NEW from, NEW t \in Seq(Bytes), Len(t) < MaxName, t # << >> => t[1] # "@",
         NEW d, d = PathOf(t).dirs, AllWithout(d),
         d # << >> => \E c \in Components : Head(d) = BytesOf[c],
         ~IsRelative(t), ~(d # << >> /\ Head(d) \in {<<".">>, Up})
  PROVE  LocalIncludeToModule(from, t)
           = Spelled(N!LocalIncludeToModule(PathOf(from), N!Operand(FALSE, PathOf(t))))
  <1>1. LocalIncludeToModule(from, t) = IncludeToModule(MaxName, t)
    BY DEF LocalIncludeToModule
  <1>2. N!LocalIncludeToModule(PathOf(from), N!Operand(FALSE, PathOf(t)))
          = N!IncludeToModule(N!Operand(FALSE, PathOf(t)))
    <2>1. PICK p : p = PathOf(t) /\ p.dirs = d
      OBVIOUS
    <2>2. ~N!IsExplicitlyRelative(p)
      BY <2>1 DEF N!IsExplicitlyRelative
    <2>3. N!Operand(FALSE, p).path = p
      BY DEF N!Operand
    <2>4. QED
      BY <2>1, <2>2, <2>3 DEF N!LocalIncludeToModule
  <1>3. QED
    BY <1>1, <1>2, IncludeIsNames

\* The first of the directories that are kept is one of the path's, and begins with no "@".
KeptFirst(k) ==
  k # << >> => /\ Head(k) # << >> /\ Head(k)[1] # "@"
               /\ \E c \in Components : Head(k) = BytesOf[c]

\* The loop brings no "@" to the front, for "@" begins only what the include
\* names first.
LEMMA KeptFirstIs ==
  ASSUME NEW n, NEW f \in Seq(Seq(Bytes)), NEW d \in Seq(Seq(Bytes)), NEW l, PartsAre(n, f, d, l),
         d # << >>, Head(d) \in {<<".">>, Up},
         NEW k \in Seq(Seq(Bytes)), Clean(k),
         \A i \in DOMAIN k : \E j \in DOMAIN (f \o d) : k[i] = (f \o d)[j]
  PROVE  KeptFirst(k)
  <1>1. SUFFICES ASSUME k # << >>
                 PROVE  /\ Head(k) # << >> /\ Head(k)[1] # "@"
                        /\ \E c \in Components : Head(k) = BytesOf[c]
    BY DEF KeptFirst
  <1>2. PICK u \in Seq(Bytes) : u = Head(k) /\ u = k[1]
    BY <1>1, HeadAndTail
  <1>3. 1 \in DOMAIN k
    <2>1. Len(k) \in Nat \ {0} /\ DOMAIN k = 1..Len(k)
      BY <1>1, EmptySeq, LenProperties
    <2>2. QED
      BY <2>1
  <1>4. u # << >>
    BY <1>2, <1>3 DEF Clean
  <1>5. PICK j \in DOMAIN (f \o d) : u = (f \o d)[j]
    BY <1>2, <1>3
  <1>6. /\ f \o d \in Seq(Seq(Bytes)) /\ Len(f \o d) = Len(f) + Len(d)
        /\ Len(f) \in Nat /\ Len(d) \in Nat
        /\ \A i \in 1..Len(f) + Len(d) : (f \o d)[i] = IF i <= Len(f) THEN f[i] ELSE d[i - Len(f)]
    BY ConcatProperties, LenProperties
  <1>7. DOMAIN (f \o d) = 1..Len(f) + Len(d) /\ DOMAIN f = 1..Len(f) /\ DOMAIN d = 1..Len(d)
    BY <1>6, LenProperties
  <1>8. CASE j <= Len(f)
    <2>1. j \in DOMAIN f /\ u = f[j]
      BY <1>5, <1>6, <1>7, <1>8
    <2>2. QED
      BY <1>2, <1>4, <2>1 DEF PartsAre
  <1>9. CASE ~(j <= Len(f))
    <2>1. PICK m \in DOMAIN d : u = d[m]
      <3>1. j - Len(f) \in 1..Len(d) /\ u = d[j - Len(f)]
        BY <1>5, <1>6, <1>7, <1>9
      <3>2. QED
        BY <1>7, <3>1
    <2>2. \E c \in Components : u = BytesOf[c]
      BY <2>1 DEF PartsAre
    <2>3. CASE m # 1
      BY <1>2, <1>4, <2>1, <2>2, <2>3 DEF PartsAre
    <2>4. CASE m = 1
      <3>1. u = Head(d)
        <4>1. Head(d) = d[1]
          BY HeadAndTail
        <4>2. QED
          BY <2>1, <2>4, <4>1
      <3>2. u[1] = "."
        <4>1. <<".">>[1] = "." /\ <<".", ".">>[1] = "."
          OBVIOUS
        <4>2. QED
          BY <3>1, <4>1 DEF Up
      <3>3. QED
        BY <1>2, <1>4, <2>2, <3>2
    <2>5. QED
      BY <2>3, <2>4
  <1>10. QED
    BY <1>8, <1>9

\* A relative include is resolved against the directory of the file.
LEMMA RelativeInclude ==
  ASSUME NEW n, NEW f, NEW d, NEW l, NEW b, NEW c, Spells(n, f, d, l, b, c),
         IncludeSpells(n, f, d, l, b), PartsAre(n, f, d, l),
         IsRelative(Target(n)), d # << >>, Head(d) \in {<<".">>, Up}
  PROVE  LocalIncludeToModule(Module(n), Target(n))
           = Spelled(N!LocalIncludeToModule(PathOf(Module(n)), N!Operand(FALSE, PathOf(Target(n)))))
  <1>1. /\ f \in Seq(Seq(Bytes)) /\ AllWithout(f) /\ d \in Seq(Seq(Bytes)) /\ AllWithout(d)
        /\ l \in Seq(Bytes) /\ Without(l, "/") /\ b \in Seq(Bytes) /\ Without(b, "/")
        /\ Module(n) = Join(Append(f, b), "/") /\ Target(n) = Join(Append(d, l), "/")
    BY DEF Spells
  <1>2. /\ l \notin {<< >>, <<".">>, Up}
        /\ Len(Join(Append(f, b), "/")) + Len(Join(Append(d, l), "/")) < MaxName
        /\ PathOf(Module(n)).dirs = f
        /\ PathOf(Target(n)) = [dirs |-> d, base |-> BaseOf(l)]
    BY DEF IncludeSpells
  <1>3. PICK r : r = NormalizeRelativePath(Joined(Module(n), Target(n)))
    OBVIOUS
  <1>4. Results(r, f, d, l)
    BY <1>1, <1>2, <1>3, RelativeResult
  <1>5. PICK k \in Seq(Seq(Bytes)) :
          /\ k = N!NormalizeRelativePath(f \o d) /\ Clean(k) /\ AllWithout(k)
          /\ \A i \in DOMAIN k : \E j \in DOMAIN (f \o d) : k[i] = (f \o d)[j]
          /\ r = Join(Append(k, l), "/") /\ r \in Seq(Bytes) /\ Len(r) < MaxName
    BY <1>4 DEF Results
  <1>6. KeptFirst(k)
    <2>1. f \in Seq(Seq(Bytes)) /\ d \in Seq(Seq(Bytes)) /\ PartsAre(n, f, d, l)
      BY <1>1
    <2>2. Clean(k) /\ \A i \in DOMAIN k : \E j \in DOMAIN (f \o d) : k[i] = (f \o d)[j]
      BY <1>5
    <2>3. QED
      BY <2>1, <2>2, KeptFirstIs, Zenon
  <1>7. r # << >> => r[1] # "@"
    <2>1. l # << >> /\ l[1] # "@"
      BY <1>2 DEF PartsAre
    <2>2. k # << >> => Head(k) # << >> /\ Head(k)[1] # "@"
      BY <1>6 DEF KeptFirst
    <2>3. QED
      BY <1>1, <1>5, <2>1, <2>2, FirstByte
  <1>8. PathOf(r).dirs = k /\ PathBasename(r) = l
    BY <1>1, <1>5, JoinPath
  <1>9. PathOf(r) = [dirs |-> k, base |-> BaseOf(l)]
    BY <1>5, <1>8, PathParts
  <1>10. k # << >> => \E e \in Components : Head(k) = BytesOf[e]
    BY <1>6 DEF KeptFirst
  <1>11. IncludeToModule(MaxName, r) = Spelled(N!IncludeToModule(N!Operand(FALSE, PathOf(r))))
    BY <1>5, <1>7, <1>8, <1>10, IncludeIsNames
  <1>12. LocalIncludeToModule(Module(n), Target(n)) = IncludeToModule(MaxName, r)
    BY <1>3 DEF LocalIncludeToModule
  <1>13. N!LocalIncludeToModule(PathOf(Module(n)), N!Operand(FALSE, PathOf(Target(n))))
           = N!IncludeToModule(N!Operand(FALSE, PathOf(r)))
    <2>1. PICK p, base, m : /\ p = PathOf(Target(n)) /\ base = BaseOf(l) /\ m = PathOf(Module(n))
                            /\ p = [dirs |-> d, base |-> base] /\ m.dirs = f
      BY <1>2
    <2>2. N!IsExplicitlyRelative(p)
      BY <2>1 DEF N!IsExplicitlyRelative
    <2>3. N!Operand(FALSE, p).path = p /\ N!Operand(FALSE, p).raw = FALSE
      BY DEF N!Operand
    <2>4. [p EXCEPT !.dirs = N!NormalizeRelativePath(m.dirs \o @)] = [dirs |-> k, base |-> base]
      BY <1>5, <2>1
    <2>5. N!LocalIncludeToModule(m, N!Operand(FALSE, p))
            = N!IncludeToModule(N!Operand(FALSE, [p EXCEPT !.dirs = N!NormalizeRelativePath(m.dirs \o @)]))
      BY <2>2, <2>3 DEF N!LocalIncludeToModule
    <2>6. QED
      BY <1>9, <2>1, <2>4, <2>5
  <1>14. QED
    BY <1>11, <1>12, <1>13

\* The operand of the include of a division, as a path of Names.
IsRaw(n) == Target(n) # << >> /\ Target(n)[1] = "@"

ResolvesAsNames(n) ==
  LocalIncludeToModule(Module(n), Target(n))
    = Spelled(N!LocalIncludeToModule(PathOf(Module(n)),
        N!Operand(IsRaw(n), PathOf(IF IsRaw(n) THEN Tail(Target(n)) ELSE Target(n)))))

\* Every include of a file whose path fits is resolved as Names says.
LEMMA IncludeAsNames ==
  ASSUME path \in Seq(Components), NEW n \in Divisions, NamesFile, FitsName(n), MarksResolved(n)
  PROVE  ResolvesAsNames(n)
  <1>1. PICK f, d, l, b, c : c \in Components /\ Spells(n, f, d, l, b, c)
    BY DivisionSpelled
  <1>2. IncludeSpells(n, f, d, l, b)
    BY <1>1, IncludeSpelled
  <1>3. PartsAre(n, f, d, l)
    BY <1>1, PartsOfPath
  <1>4. PICK t \in Seq(Bytes) : t = Target(n) /\ Len(t) < MaxName /\ PathOf(t).dirs = d
    <2>1. Target(n) \in Seq(Bytes) /\ PathOf(Target(n)).dirs = d
      BY <1>2 DEF IncludeSpells
    <2>2. Len(Target(n)) < MaxName
      BY <1>1, <1>2 DEF IncludeSpells, Spells
    <2>3. QED
      BY <2>1, <2>2
  <1>5. /\ d \in Seq(Seq(Bytes)) /\ AllWithout(d) /\ l \in Seq(Bytes) /\ Without(l, "/")
        /\ t = Join(Append(d, l), "/")
    BY <1>1, <1>4 DEF Spells
  <1>6. IsRelative(t) <=> d # << >> /\ Head(d) \in {<<".">>, Up}
    BY <1>5, RelativeIs
  <1>7. d # << >> => \E e \in Components : Head(d) = BytesOf[e]
    <2>1. SUFFICES ASSUME d # << >> PROVE \E e \in Components : Head(d) = BytesOf[e]
      OBVIOUS
    <2>2. Head(d) = d[1]
      BY <1>5, <2>1, HeadAndTail
    <2>3. 1 \in DOMAIN d
      <3>1. Len(d) \in Nat \ {0} /\ DOMAIN d = 1..Len(d)
        BY <1>5, <2>1, EmptySeq, LenProperties
      <3>2. QED
        BY <3>1
    <2>4. QED
      BY <1>3, <2>2, <2>3 DEF PartsAre
  <1>8. CASE IsRaw(n)
    <2>1. t # << >> /\ t[1] = "@"
      BY <1>4, <1>8 DEF IsRaw
    <2>2. ~IsRelative(t)
      <3>1. "." \in Bytes /\ "/" \in Bytes
        BY BytesHere
      <3>2. (S!IsPrefix(<<".", "/">>, t) => t[1] = ".") /\ (S!IsPrefix(<<".", ".", "/">>, t) => t[1] = ".")
        BY <3>1, TwoBytes, ThreeBytes
      <3>3. QED
        BY <2>1, <3>2 DEF IsRelative
    <2>3. LocalIncludeToModule(Module(n), t)
            = Spelled(N!LocalIncludeToModule(PathOf(Module(n)), N!Operand(TRUE, PathOf(Tail(t)))))
      BY <1>4, <2>1, <2>2, RawInclude
    <2>4. IsRaw(n) = TRUE
      BY <1>8 DEF IsRaw
    <2>5. QED
      BY <1>4, <2>3, <2>4 DEF ResolvesAsNames
  <1>9. CASE ~IsRaw(n)
    <2>1. t # << >> => t[1] # "@"
      BY <1>4, <1>9 DEF IsRaw
    <2>2. IsRaw(n) = FALSE
      BY <1>9 DEF IsRaw
    <2>3. LocalIncludeToModule(Module(n), t)
            = Spelled(N!LocalIncludeToModule(PathOf(Module(n)), N!Operand(FALSE, PathOf(t))))
      <3>1. CASE IsRelative(t)
        BY <1>1, <1>2, <1>3, <1>4, <1>6, <3>1, RelativeInclude
      <3>2. CASE ~IsRelative(t)
        <4>1. ~(d # << >> /\ Head(d) \in {<<".">>, Up})
          BY <1>6, <3>2
        <4>2. QED
          BY <1>4, <1>5, <1>7, <2>1, <3>2, <4>1, PlainInclude
      <3>3. QED
        BY <3>1, <3>2
    <2>4. QED
      BY <1>4, <2>2, <2>3 DEF ResolvesAsNames
  <1>10. QED
    BY <1>8, <1>9

\* For every path and every include that fits, the bytes resolve to the module
\* the other modules of this development resolve it to (strings.c:63-134,
\* model_mutation.c:11-127).
THEOREM ResolvesIncludesAsNames == Spec => []IncludesAsNames
  <1>1. TypeOK /\ KeepsAsNames => IncludesAsNames
    <2>1. SUFFICES ASSUME TypeOK, KeepsAsNames PROVE IncludesAsNames
      OBVIOUS
    <2>2. NormalizeRelativePath(Text(path)) = Text([i \in DOMAIN destination |-> destination[i].name])
      BY <2>1, KeptAsText
    <2>3. path \in Seq(Components)
      BY <2>1 DEF TypeOK
    <2>4. \A n \in Divisions : NamesFile /\ FitsName(n) /\ MarksResolved(n) => ResolvesAsNames(n)
      BY <2>3, IncludeAsNames
    <2>5. QED
      BY <2>2, <2>4 DEF IncludesAsNames, ResolvesAsNames, IsRaw
  <1>2. QED
    BY <1>1, TypeCorrect, StepsKeepAsNames, PTL

\* For every path and every size of a buffer, a name is cut only where the buffer
\* ends (strings.c:115-134).
THEOREM CutsOnlyAtTheEnd == Spec => []CutOnlyAtTheEnd
  BY CutIfTyped, TypeCorrect, PTL

-----------------------------------------------------------------------------
(* Where a relative include leads. *)

PlainPath(w) == \A i \in DOMAIN w : w[i] \notin {Empty, ".", ".."}

\* A path of names with one name more.
LEMMA PlainAppend ==
  ASSUME NEW v \in Seq(Components), NEW e \in Components
  PROVE  PlainPath(Append(v, e)) <=> PlainPath(v) /\ e \notin {Empty, ".", ".."}
  <1>1. /\ Append(v, e) \in Seq(Components) /\ Len(Append(v, e)) = Len(v) + 1
        /\ Append(v, e)[Len(v) + 1] = e /\ \A i \in 1..Len(v) : Append(v, e)[i] = v[i]
    BY AppendProperties
  <1>2. DOMAIN v = 1..Len(v) /\ DOMAIN Append(v, e) = 1..Len(v) + 1 /\ Len(v) \in Nat
    BY <1>1, LenProperties
  <1>3. (\A i \in 1..Len(v) + 1 : i \in 1..Len(v) \/ i = Len(v) + 1)
        /\ Len(v) + 1 \in 1..Len(v) + 1 /\ \A i \in 1..Len(v) : i \in 1..Len(v) + 1
    BY <1>2
  <1>4. QED
    BY <1>1, <1>2, <1>3 DEF PlainPath

\* The loop leaves a path of names as it is.
LEMMA PlainKept ==
  \A w \in Seq(Components) : PlainPath(w) => N!NormalizeRelativePath(BytesOfAll(w)) = BytesOfAll(w)
  <1> DEFINE Q == {w \in Seq(Components) :
                     PlainPath(w) => N!NormalizeRelativePath(BytesOfAll(w)) = BytesOfAll(w)}
  <1>1. << >> \in Q
    <2>1. << >> \in Seq(Components) /\ << >> \in Seq(Bytes) /\ << >> \in Seq(Seq(Bytes))
      OBVIOUS
    <2>2. BytesOfAll(<< >>) = << >>
      BY <2>1, BytesOfAllType, EmptySeq
    <2>3. KeepsDirs(Seq(Bytes), << >>, << >>)
      BY <2>1, KeptDirsMore
    <2>4. QED
      BY <2>1, <2>2, <2>3 DEF KeepsDirs
  <1>2. ASSUME NEW v \in Seq(Components), NEW e \in Components, v \in Q
        PROVE  Append(v, e) \in Q
    <2>1. Append(v, e) \in Seq(Components)
      BY AppendProperties
    <2>2. SUFFICES ASSUME PlainPath(Append(v, e))
                   PROVE  N!NormalizeRelativePath(BytesOfAll(Append(v, e))) = BytesOfAll(Append(v, e))
      BY <2>1
    <2>3. PlainPath(v) /\ e \notin {Empty, ".", ".."}
      BY <2>2, PlainAppend
    <2>4. PICK a \in Seq(Seq(Bytes)) :
            /\ a = BytesOfAll(v) /\ BytesOfAll(Append(v, e)) = Append(a, BytesOf[e])
      <3>1. BytesOfMore(v, e)
        BY BytesOfAppend
      <3>2. QED
        BY <3>1 DEF BytesOfMore
    <2>5. N!NormalizeRelativePath(a) = a
      BY <1>2, <2>3, <2>4
    <2>6. BytesOf[e] \in Seq(Bytes) /\ BytesOf[e] \notin {<< >>, <<".">>, Up}
      BY <2>3, Component
    <2>7. N!NormalizeRelativePath(Append(a, BytesOf[e])) = Append(N!NormalizeRelativePath(a), BytesOf[e])
      BY <2>6, KeepsName
    <2>8. QED
      BY <2>4, <2>5, <2>7
  <1>3. \A v \in Seq(Components), e \in Components : v \in Q => Append(v, e) \in Q
    BY <1>2
  <1> HIDE DEF Q
  <1>4. \A w \in Seq(Components) : w \in Q
    BY <1>1, <1>3, SequenceInduction
  <1>5. QED
    BY <1>4 DEF Q

Rooted(w) == <<"root">> \o w

\* A step of the walk, with a directory above, and a turn of the loop.
WalkTurns(w, c) ==
  /\ WalkStep(w, c) \in Seq(Components) /\ PlainPath(WalkStep(w, c))
  /\ WalkStep(Rooted(w), c) = Rooted(WalkStep(w, c))
  /\ N!KeepComponent(BytesOfAll(w), BytesOf[c]) = BytesOfAll(WalkStep(w, c))

\* The sets the walks are in: with a directory above it, and without.
LEMMA RootedType ==
  ASSUME NEW w \in Seq(Components)
  PROVE  /\ w \in Seq(Components \cup {"root"}) /\ <<"root">> \in Seq(Components \cup {"root"})
         /\ Rooted(w) \in Seq(Components \cup {"root"})
  <1> DEFINE A == Components \cup {"root"}
  <1>1. w \in Seq(A)
    BY SeqMonotonic
  <1>2. "root" \in A
    OBVIOUS
  <1> HIDE DEF A
  <1>3. <<"root">> \in Seq(A)
    BY <1>2, OneByte
  <1>4. <<"root">> \o w \in Seq(A)
    BY <1>1, <1>3, ConcatProperties
  <1>5. QED
    BY <1>1, <1>3, <1>4 DEF A, Rooted

\* With one more component, the path below the root has one more.
LEMMA RootedAppend ==
  ASSUME NEW v \in Seq(Components), NEW e \in Components
  PROVE  Rooted(Append(v, e)) = Append(Rooted(v), e)
  <1>1. PICK A : A = Components \cup {"root"}
    OBVIOUS
  <1>2. v \in Seq(A) /\ <<"root">> \in Seq(A) /\ Rooted(v) \in Seq(A) /\ e \in A
    BY <1>1, RootedType
  <1>3. <<e>> \in Seq(A)
    BY <1>2, OneByte
  <1>4. Groups(<<"root">>, v, <<e>>)
    BY <1>2, <1>3, Grouping
  <1>5. Append(v, e) = v \o <<e>> /\ Append(Rooted(v), e) = Rooted(v) \o <<e>>
    BY <1>2, AppendIsConcat
  <1>6. QED
    BY <1>4, <1>5 DEF Groups, Rooted

\* The last component of a path taken away again.
LEMMA TakeLast ==
  ASSUME NEW A, NEW v \in Seq(A), NEW e \in A
  PROVE  /\ SubSeq(Append(v, e), 1, Len(Append(v, e)) - 1) = v
         /\ Append(v, e)[Len(Append(v, e))] = e /\ Append(v, e) # << >>
  <1>1. Len(Append(v, e)) = Len(v) + 1 /\ Append(v, e)[Len(v) + 1] = e /\ Append(v, e) # << >>
        /\ Len(v) \in Nat
    BY AppendProperties, LenProperties
  <1>2. Len(Append(v, e)) - 1 = Len(v)
    BY <1>1
  <1>3. SubSeq(Append(v, e), 1, Len(v)) = v
    BY FrontOfAppend
  <1>4. QED
    BY <1>1, <1>2, <1>3

\* A step of the walk that stays below the root is a turn of the loop.
LEMMA WalkTurn ==
  ASSUME NEW w \in Seq(Components), PlainPath(w), NEW c \in Components,
         WalkStep(Rooted(w), c) # << >>
  PROVE  WalkTurns(w, c)
  <1>1. BytesOf[c] \in Seq(Bytes) /\ Empty # ".." /\ Empty \in Components /\ "." \in Components
        /\ ".." \in Components
    BY Component, LengthAssumption
  <1>2. CASE c \in {Empty, "."}
    <2>1. WalkStep(w, c) = w /\ WalkStep(Rooted(w), c) = Rooted(w)
      <3>1. c # ".."
        BY <1>1, <1>2
      <3>2. QED
        BY <1>2, <3>1 DEF WalkStep
    <2>2. BytesOf[c] \in {<< >>, <<".">>}
      BY <1>2, Component
    <2>3. N!KeepComponent(BytesOfAll(w), BytesOf[c]) = BytesOfAll(w)
      BY <2>2 DEF N!KeepComponent
    <2>4. QED
      BY <2>1, <2>3 DEF WalkTurns
  <1>3. CASE c = ".."
    <2>1. c \notin {Empty, "."}
      BY <1>1, <1>3
    <2>2. WalkStep(w, c) = SubSeq(w, 1, Len(w) - 1)
          /\ WalkStep(Rooted(w), c) = SubSeq(Rooted(w), 1, Len(Rooted(w)) - 1)
      BY <1>3, <2>1 DEF WalkStep
    <2>3. w # << >>
      <3>1. SUFFICES ASSUME w = << >> PROVE FALSE
        OBVIOUS
      <3>2. Rooted(w) = <<"root">>
        <4>1. <<"root">> \o << >> = <<"root">>
          OBVIOUS
        <4>2. QED
          BY <3>1, <4>1 DEF Rooted
      <3>3. Len(<<"root">>) - 1 = 0 /\ SubSeq(<<"root">>, 1, 0) = << >>
        <4>1. Len(<<"root">>) = 1
          OBVIOUS
        <4>2. SubSeq(<<"root">>, 1, 0) = << >>
          BY SubSeqEmpty
        <4>3. QED
          BY <4>1, <4>2
      <3>4. QED
        BY <2>2, <3>2, <3>3
    <2>4. PICK v \in Seq(Components), e \in Components : w = Append(v, e)
      <3>1. \E v \in Seq(Components), e \in Components : w = Append(v, e)
        BY <2>3, SequenceEmptyOrAppend
      <3>2. QED
        BY <3>1
    <2>5. PlainPath(v) /\ e \notin {Empty, ".", ".."}
      BY <2>4, PlainAppend
    <2>6. WalkStep(w, c) = v
      BY <2>2, <2>4, TakeLast
    <2>7. WalkStep(Rooted(w), c) = Rooted(v)
      <3>1. Rooted(w) = Append(Rooted(v), e)
        BY <2>4, RootedAppend
      <3>2. PICK A : A = Components \cup {"root"}
        OBVIOUS
      <3>3. Rooted(v) \in Seq(A) /\ e \in A
        BY <3>2, RootedType
      <3>4. PICK rv \in Seq(A) : rv = Rooted(v)
        BY <3>3
      <3>5. SubSeq(Append(rv, e), 1, Len(Append(rv, e)) - 1) = rv
        BY <3>3, TakeLast
      <3>6. QED
        BY <2>2, <3>1, <3>4, <3>5
    <2>8. N!KeepComponent(BytesOfAll(w), BytesOf[c]) = BytesOfAll(v)
      <3>1. BytesOfMore(v, e)
        BY BytesOfAppend
      <3>2. PICK a \in Seq(Seq(Bytes)), l \in Seq(Bytes) :
              a = BytesOfAll(v) /\ l = BytesOf[e] /\ BytesOfAll(w) = Append(a, l)
        <4>1. BytesOf[e] \in Seq(Bytes)
          BY Component
        <4>2. QED
          BY <2>4, <3>1, <4>1 DEF BytesOfMore
      <3>3. l # Up /\ BytesOf[c] = Up /\ Up \notin {<< >>, <<".">>}
        <4>1. l # Up
          BY <2>5, <3>2, Component
        <4>2. BytesOf[c] = Up /\ BytesOf[c] \notin {<< >>, <<".">>}
          BY <1>3, <2>1, Component
        <4>3. QED
          BY <4>1, <4>2
      <3>4. /\ SubSeq(Append(a, l), 1, Len(Append(a, l)) - 1) = a
            /\ Append(a, l)[Len(Append(a, l))] = l /\ Append(a, l) # << >>
        BY TakeLast
      <3>5. N!KeepComponent(Append(a, l), Up) = a
        BY <3>3, <3>4 DEF N!KeepComponent
      <3>6. QED
        BY <3>2, <3>3, <3>5
    <2>9. QED
      BY <2>5, <2>6, <2>7, <2>8 DEF WalkTurns
  <1>4. CASE c \notin {Empty, ".", ".."}
    <2>1. WalkStep(w, c) = Append(w, c) /\ WalkStep(Rooted(w), c) = Append(Rooted(w), c)
      BY <1>4 DEF WalkStep
    <2>2. Append(w, c) \in Seq(Components) /\ PlainPath(Append(w, c))
      BY <1>4, AppendProperties, PlainAppend
    <2>3. Rooted(Append(w, c)) = Append(Rooted(w), c)
      BY RootedAppend
    <2>4. N!KeepComponent(BytesOfAll(w), BytesOf[c]) = BytesOfAll(Append(w, c))
      <3>1. BytesOf[c] \notin {<< >>, <<".">>, Up}
        BY <1>4, Component
      <3>2. N!KeepComponent(BytesOfAll(w), BytesOf[c]) = Append(BytesOfAll(w), BytesOf[c])
        BY <3>1 DEF N!KeepComponent
      <3>3. BytesOfMore(w, c)
        BY BytesOfAppend
      <3>4. QED
        BY <3>2, <3>3 DEF BytesOfMore
    <2>5. QED
      BY <2>1, <2>2, <2>3, <2>4 DEF WalkTurns
  <1>5. QED
    BY <1>2, <1>3, <1>4

\* The directory the include has led to, and what the loop keeps of the path so far.
LeadsTo(n, m) ==
  LET w == Walk(SubSeq(path, 1, n), SubSeq(path, n + 1, m)) IN
  /\ w \in Seq(Components) /\ PlainPath(w)
  /\ Walk(Rooted(SubSeq(path, 1, n)), SubSeq(path, n + 1, m)) = Rooted(w)
  /\ N!NormalizeRelativePath(BytesOfAll(SubSeq(path, 1, m))) = BytesOfAll(w)

\* The walk begins in the directory of the file, which the loop leaves as it is.
LEMMA LeadsToFirst ==
  ASSUME path \in Seq(Components), NEW n \in 0..Len(path), PlainModule(n)
  PROVE  LeadsTo(n, n)
  <1>1. Len(path) \in Nat /\ n \in n..Len(path) /\ n \in Nat
    BY LenProperties
  <1>2. PICK F \in Seq(Components) : F = SubSeq(path, 1, n)
    <2>1. Stretch(Components, path, n, n)
      BY <1>1, StretchIs
    <2>2. QED
      BY <2>1 DEF Stretch
  <1>3. SubSeq(path, n + 1, n) = << >>
    <2>1. n \in Int /\ n + 1 \in Int /\ n < n + 1
      BY <1>1
    <2>2. QED
      BY <2>1, SubSeqEmpty
  <1>4. PlainPath(F)
    <2>1. (\A i \in 1..n : path[i] \in Components) /\ 1 \in Int /\ n \in Int
      <3>1. \A i \in 1..n : i \in 1..Len(path)
        BY <1>1
      <3>2. QED
        BY <1>1, <3>1, ElementOfSeq
    <2>2. /\ Len(F) = IF 1 <= n THEN n - 1 + 1 ELSE 0
          /\ \A i \in 1..n - 1 + 1 : F[i] = path[1 + i - 1]
      BY <1>2, <2>1, SubSeqProperties
    <2>3. Len(F) = n /\ \A i \in 1..n : F[i] = path[i]
      BY <1>1, <2>2
    <2>4. DOMAIN F = 1..n
      BY <2>3, LenProperties
    <2>5. QED
      BY <2>3, <2>4 DEF PlainPath, PlainModule
  <1>5. Walk(F, << >>) = F
    <2>1. << >> \in Seq(Components) /\ Empty \in Components
      BY LengthAssumption, EmptySeq
    <2>2. WalksOn(Components, F, << >>, Empty)
      BY <2>1, WalkMore
    <2>3. QED
      BY <2>2 DEF WalksOn
  <1>6. Walk(Rooted(F), << >>) = Rooted(F)
    <2>1. PICK A : A = Components \cup {"root"}
      OBVIOUS
    <2>2. Rooted(F) \in Seq(A) /\ << >> \in Seq(A) /\ "root" \in A
      BY <2>1, RootedType, EmptySeq
    <2>3. WalksOn(A, Rooted(F), << >>, "root")
      BY <2>2, WalkMore
    <2>4. QED
      BY <2>3 DEF WalksOn
  <1>7. N!NormalizeRelativePath(BytesOfAll(F)) = BytesOfAll(F)
    BY <1>4, PlainKept
  <1>8. QED
    BY <1>2, <1>3, <1>4, <1>5, <1>6, <1>7 DEF LeadsTo

\* The walk and the loop go on alike.
LEMMA LeadsToMore ==
  ASSUME path \in Seq(Components), NEW n \in 0..Len(path), NEW m \in n..Len(path), m < Len(path),
         LeadsTo(n, m), StaysInside(n)
  PROVE  LeadsTo(n, m + 1)
  <1>1. Len(path) \in Nat /\ n \in Nat /\ m \in Nat /\ m + 1 \in n..Len(path)
    BY LenProperties
  <1>2. Stretch(Components, path, n, m)
    BY StretchIs
  <1>3. PICK F, G, P \in Seq(Components), c \in Components :
          /\ F = SubSeq(path, 1, n) /\ G = SubSeq(path, n + 1, m) /\ P = SubSeq(path, 1, m)
          /\ SubSeq(path, n + 1, m + 1) = Append(G, c) /\ SubSeq(path, 1, m + 1) = Append(P, c)
    BY <1>2 DEF Stretch
  <1>4. PICK w \in Seq(Components) :
          /\ w = Walk(F, G) /\ PlainPath(w) /\ Walk(Rooted(F), G) = Rooted(w)
          /\ N!NormalizeRelativePath(BytesOfAll(P)) = BytesOfAll(w)
    BY <1>3 DEF LeadsTo
  <1>5. Walk(F, Append(G, c)) = WalkStep(w, c)
    <2>1. WalksOn(Components, F, G, c)
      BY WalkMore
    <2>2. QED
      BY <1>4, <2>1 DEF WalksOn
  <1>6. Walk(Rooted(F), Append(G, c)) = WalkStep(Rooted(w), c)
    <2>1. PICK A : A = Components \cup {"root"}
      OBVIOUS
    <2>2. Rooted(F) \in Seq(A) /\ G \in Seq(A) /\ c \in A
      BY <2>1, RootedType
    <2>3. WalksOn(A, Rooted(F), G, c)
      BY <2>2, WalkMore
    <2>4. QED
      BY <1>4, <2>3 DEF WalksOn
  <1>7. WalkStep(Rooted(w), c) # << >>
    <2>1. Walk(<<"root">> \o SubSeq(path, 1, n), SubSeq(path, n + 1, m + 1)) # << >>
      BY <1>1 DEF StaysInside
    <2>2. QED
      BY <1>3, <1>6, <2>1 DEF Rooted
  <1>8. WalkTurns(w, c)
    BY <1>4, <1>7, WalkTurn
  <1>9. N!NormalizeRelativePath(BytesOfAll(Append(P, c))) = N!KeepComponent(BytesOfAll(w), BytesOf[c])
    <2>1. BytesOfMore(P, c)
      BY BytesOfAppend
    <2>2. PICK a \in Seq(Seq(Bytes)), l \in Seq(Bytes) :
            a = BytesOfAll(P) /\ l = BytesOf[c] /\ BytesOfAll(Append(P, c)) = Append(a, l)
      <3>1. BytesOf[c] \in Seq(Bytes)
        BY Component
      <3>2. QED
        BY <2>1, <3>1 DEF BytesOfMore
    <2>3. KeepsDirs(Seq(Bytes), a, l)
      BY KeptDirsMore
    <2>4. QED
      BY <1>4, <2>2, <2>3 DEF KeepsDirs
  <1>10. QED
    BY <1>3, <1>5, <1>6, <1>8, <1>9 DEF LeadsTo, WalkTurns

\* The loop keeps of the whole path where the walk leads.
LEMMA LeadsToAll ==
  ASSUME path \in Seq(Components), NEW n \in 0..Len(path), PlainModule(n), StaysInside(n)
  PROVE  LeadsTo(n, Len(path))
  <1> DEFINE Q == {i \in Nat : n + i <= Len(path) => LeadsTo(n, n + i)}
  <1>1. Len(path) \in Nat /\ n \in Nat /\ n <= Len(path)
    BY LenProperties
  <1>2. 0 \in Q
    <2>1. n + 0 = n
      BY <1>1
    <2>2. QED
      BY <2>1, LeadsToFirst
  <1>3. ASSUME NEW i \in Nat, i \in Q
        PROVE  i + 1 \in Q
    <2>1. SUFFICES ASSUME n + (i + 1) <= Len(path) PROVE LeadsTo(n, n + (i + 1))
      OBVIOUS
    <2>2. PICK m \in Nat : m = n + i /\ m + 1 = n + (i + 1)
      BY <1>1
    <2>3. m \in n..Len(path) /\ m < Len(path)
      BY <1>1, <2>1, <2>2
    <2>4. LeadsTo(n, m)
      BY <1>3, <2>2, <2>3
    <2>5. QED
      BY <2>2, <2>3, <2>4, LeadsToMore
  <1>4. \A i \in Nat : i \in Q => i + 1 \in Q
    BY <1>3
  <1> HIDE DEF Q
  <1>5. \A i \in Nat : i \in Q
    BY <1>2, <1>4, Induction
  <1>6. PICK i \in Nat : n + i = Len(path)
    <2>1. Len(path) - n \in Nat /\ n + (Len(path) - n) = Len(path)
      BY <1>1
    <2>2. QED
      BY <2>1
  <1>7. i \in Q
    BY <1>5
  <1>8. QED
    BY <1>1, <1>6, <1>7 DEF Q

\* What the loop makes of a relative include is the path of the file it names.
LEMMA IncludeReaches ==
  ASSUME path \in Seq(Components), NEW n \in Divisions, NamesFile, FitsName(n), MarksResolved(n),
         IsRelative(Target(n)), PlainModule(n), StaysInside(n), ~InLibrary(n)
  PROVE  LocalIncludeToModule(Module(n), Target(n)) = NormalizeModuleName(MaxName, Text(Included(n)))
  <1>1. PICK f, d, l, b, c : c \in Components /\ Spells(n, f, d, l, b, c)
    BY DivisionSpelled
  <1>2. IncludeSpells(n, f, d, l, b)
    BY <1>1, IncludeSpelled
  <1>3. PartsAre(n, f, d, l)
    BY <1>1, PartsOfPath
  <1>4. /\ f \in Seq(Seq(Bytes)) /\ AllWithout(f) /\ d \in Seq(Seq(Bytes)) /\ AllWithout(d)
        /\ l \in Seq(Bytes) /\ Without(l, "/") /\ b \in Seq(Bytes) /\ Without(b, "/")
        /\ Module(n) = Join(Append(f, b), "/") /\ Target(n) = Join(Append(d, l), "/")
        /\ BytesOfAll(path) = Append(f \o d, l)
    BY <1>1 DEF Spells
  <1>5. /\ l \notin {<< >>, <<".">>, Up}
        /\ Len(Join(Append(f, b), "/")) + Len(Join(Append(d, l), "/")) < MaxName
    BY <1>2 DEF IncludeSpells
  <1>6. d # << >> /\ Head(d) \in {<<".">>, Up}
    BY <1>4, RelativeIs
  <1>7. PICK r : r = NormalizeRelativePath(Joined(Module(n), Target(n)))
    OBVIOUS
  <1>8. Results(r, f, d, l)
    BY <1>4, <1>5, <1>7, RelativeResult
  <1>9. PICK k \in Seq(Seq(Bytes)) :
          /\ k = N!NormalizeRelativePath(f \o d) /\ Clean(k) /\ AllWithout(k)
          /\ \A i \in DOMAIN k : \E j \in DOMAIN (f \o d) : k[i] = (f \o d)[j]
          /\ r = Join(Append(k, l), "/") /\ r \in Seq(Bytes) /\ Len(r) < MaxName
    BY <1>8 DEF Results
  <1>10. KeptFirst(k)
    <2>1. f \in Seq(Seq(Bytes)) /\ d \in Seq(Seq(Bytes)) /\ PartsAre(n, f, d, l)
          /\ d # << >> /\ Head(d) \in {<<".">>, Up}
      BY <1>3, <1>4, <1>6
    <2>2. Clean(k) /\ \A i \in DOMAIN k : \E j \in DOMAIN (f \o d) : k[i] = (f \o d)[j]
      BY <1>9
    <2>3. QED
      BY <2>1, <2>2, KeptFirstIs, ZenonT(60)
  <1>11. r # << >> => r[1] # "@"
    <2>1. l # << >> /\ l[1] # "@"
      BY <1>3, <1>5, <1>6 DEF PartsAre
    <2>2. k # << >> => Head(k) # << >> /\ Head(k)[1] # "@"
      BY <1>10 DEF KeptFirst
    <2>3. QED
      BY <1>4, <1>9, <2>1, <2>2, FirstByte
  <1>12. PathOf(r).dirs = k
    BY <1>4, <1>9, JoinPath
  <1>13. PICK x : x = Suffixless(PathBasename(r))
    OBVIOUS
  <1>14. IncludesPlain(r, k, x)
    BY <1>9, <1>11, <1>12, <1>13, IncludePlain
  <1>15. PICK w \in Seq(Components) : w = Included(n) /\ BytesOfAll(w) = Append(k, l)
    <2>1. n \in 0..Len(path) /\ Len(path) \in Nat
      <3>1. Len(path) \in Nat /\ n \in 0..Len(path) - 1
        BY LenProperties DEF Divisions
      <3>2. QED
        BY <3>1
    <2>2. LeadsTo(n, Len(path))
      BY <2>1, LeadsToAll
    <2>3. SubSeq(path, 1, Len(path)) = path
      BY SubSeqFull
    <2>4. Included(n) \in Seq(Components) /\ N!NormalizeRelativePath(BytesOfAll(path)) = BytesOfAll(Included(n))
      BY <2>2, <2>3 DEF LeadsTo, Included
    <2>5. PICK e \in Seq(Seq(Bytes)) : e = f \o d
      BY <1>4, ConcatProperties
    <2>6. N!NormalizeRelativePath(Append(e, l)) = Append(N!NormalizeRelativePath(e), l)
      BY <1>4, <1>5, KeepsName
    <2>7. QED
      BY <1>4, <1>9, <2>4, <2>5, <2>6
  <1>16. r = Text(Included(n))
    BY <1>9, <1>15 DEF Text
  <1>17. ~(k # << >> /\ (Head(k) = <<LibraryByte>> \/ S!IsPrefix(Mark, Head(k))))
    <2>1. SUFFICES ASSUME k # << >>, Head(k) = <<LibraryByte>> \/ S!IsPrefix(Mark, Head(k)) PROVE FALSE
      OBVIOUS
    <2>2. Len(w) = Len(k) + 1 /\ Len(k) \in Nat \ {0}
      <3>1. Len(Append(k, l)) = Len(k) + 1
        BY <1>4, AppendProperties
      <3>2. Len(BytesOfAll(w)) = Len(w)
        BY BytesOfAllType
      <3>3. QED
        BY <1>15, <2>1, <3>1, <3>2, EmptySeq
    <2>3. Len(w) > 1 /\ w # << >> /\ 1 \in 1..Len(w) /\ 1 \in 1..Len(k)
      <3>1. Len(w) > 1 /\ 1 \in 1..Len(w) /\ 1 \in 1..Len(k)
        BY <2>2
      <3>2. w = << >> => Len(w) = 0
        OBVIOUS
      <3>3. QED
        BY <3>1, <3>2
    <2>4. Head(w) = w[1] /\ Head(k) = k[1]
      BY <2>1, <2>3, HeadAndTail
    <2>5. BytesOfAll(w)[1] = BytesOf[w[1]]
      BY <2>3, BytesOfAllType
    <2>6. Append(k, l)[1] = k[1]
      BY <1>4, <2>3, AppendProperties
    <2>7. IsLibraryDir(Head(w))
      BY <1>15, <2>1, <2>4, <2>5, <2>6 DEF IsLibraryDir
    <2>8. QED
      BY <1>15, <2>3, <2>7 DEF InLibrary
  <1>18. IncludeToModule(MaxName, r) = NormalizeModuleName(MaxName, r)
    BY <1>14, <1>17 DEF IncludesPlain
  <1>19. LocalIncludeToModule(Module(n), Target(n)) = IncludeToModule(MaxName, r)
    BY <1>7 DEF LocalIncludeToModule
  <1>20. QED
    BY <1>16, <1>18, <1>19

\* For every path, a relative include stands for the module of the file the
\* compiler includes (test_module_map.c:186, model_mutation.c:76-127).
THEOREM ReachesTheFile == Spec => []RelativeReaches
  <1>1. TypeOK => RelativeReaches
    BY IncludeReaches DEF TypeOK, RelativeReaches
  <1>2. QED
    BY <1>1, TypeCorrect, PTL
=============================================================================
