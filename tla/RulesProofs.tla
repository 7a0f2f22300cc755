---------------------------- MODULE RulesProofs ----------------------------
(***************************************************************************)
(* What the entry rules, the labels, the backtest and the journal's round  *)
(* trips promise of every tape of bars and every history of orders.        *)
(***************************************************************************)
EXTENDS Rules, Recursions, ExitRulesProofs, SequenceTheorems

-----------------------------------------------------------------------------
(* What a loop keeps, and what it adds up *)

\* What holds at the start of a loop and is kept by each pass holds after each.
LEMMA Stays ==
    ASSUME NEW N \in Nat, NEW V, NEW g, g[0] \in V,
           \A n \in 1..N : g[n - 1] \in V => g[n] \in V
    PROVE  \A n \in 0..N : g[n] \in V
<1> DEFINE S == {n \in 0..N : g[n] \in V}
<1>1. 0 \in S
  OBVIOUS
<1>2. ASSUME NEW n \in 0..N, n \in S, n < N PROVE n + 1 \in S
  <2>1. n + 1 \in 1..N /\ (n + 1) - 1 = n
    BY <1>2
  <2> QED BY <1>2, <2>1
<1> HIDE DEF S
<1>3. 0..N \subseteq S
  BY <1>1, <1>2, Induct
<1> QED BY <1>3 DEF S

\* What the loop of Kept has kept after each element, and what that of SumTo has added up.
IsKept(k, s, T, S) ==
    /\ k \in [0..Len(s) -> Seq(T \cap S)]
    /\ k[0] = <<>> /\ Kept(s, S) = k[Len(s)]
    /\ \A n \in 1..Len(s) :
           k[n] = IF s[n] \in S THEN Append(k[n - 1], s[n]) ELSE k[n - 1]

IsSum(g, f, n) ==
    /\ g \in [0..n -> Int] /\ g[0] = 0 /\ SumTo(f, n) = g[n]
    /\ \A i \in 1..n : g[i] = g[i - 1] + f[i]

LEMMA KeptWalk ==
    ASSUME NEW T, NEW s \in Seq(T), NEW S
    PROVE  \E k : IsKept(k, s, T, S)
<1> DEFINE V == Seq(T \cap S)
           After(q, n) == IF s[n] \in S THEN Append(q, s[n]) ELSE q
<1>1. PICK N \in Nat : N = Len(s)
  OBVIOUS
<1>2. \A n \in 1..N : s[n] \in T
  BY <1>1
<1>3. <<>> \in V
  OBVIOUS
<1>4. ASSUME NEW q \in V, NEW n \in 1..N PROVE After(q, n) \in V
  BY <1>2
<1> DEFINE step == [p \in V \X (1..N) |-> After(p[1], p[2])]
<1>5. step \in [V \X (1..N) -> V]
  BY <1>4
<1>6. \A q \in V, n \in 1..N : step[<<q, n>>] = After(q, n)
  OBVIOUS
<1> HIDE DEF step, V, After
<1>w. PICK f : IsWalk(f, N, V, <<>>, step)
  BY <1>3, <1>5, Recursion
<1>7. f \in [0..N -> V] /\ f[0] = <<>> /\ \A n \in 1..N : f[n] = step[<<f[n - 1], n>>]
  BY <1>w DEF IsWalk
<1>8. f = [n \in 0..N |-> IF n = 0 THEN <<>> ELSE After(f[n - 1], n)]
  <2>1. \A n \in 0..N : n # 0 => n - 1 \in 0..N /\ n \in 1..N
    OBVIOUS
  <2>2. \A n \in 0..N : f[n] = IF n = 0 THEN <<>> ELSE After(f[n - 1], n)
    BY <1>6, <1>7, <2>1
  <2> QED BY <1>7, <2>2
<1>9. PICK g : /\ g = [n \in 0..N |-> IF n = 0 THEN <<>>
                          ELSE IF s[n] \in S THEN Append(g[n - 1], s[n]) ELSE g[n - 1]]
               /\ Kept(s, S) = g[N]
  BY <1>1, <1>8, Zenon DEF Kept, After
<1>10. g[0] = <<>> /\ \A n \in 1..N : g[n] = After(g[n - 1], n)
  <2>1. 0 \in 0..N /\ \A n \in 1..N : n \in 0..N /\ n # 0
    OBVIOUS
  <2> QED BY <1>9, <2>1 DEF After
<1>11. \A n \in 1..N : g[n - 1] \in V => g[n] \in V
  BY <1>4, <1>10
<1>12. g[0] \in V
  BY <1>3, <1>10
<1>13. \A n \in 0..N : g[n] \in V
  <2> PICK p : p = g
    OBVIOUS
  <2>1. p[0] \in V /\ \A n \in 1..N : p[n - 1] \in V => p[n] \in V
    BY <1>11, <1>12
  <2>2. \A n \in 0..N : p[n] \in V
    BY <2>1, Stays
  <2> QED BY <2>2
<1>14. g = [n \in 0..N |-> g[n]]
  BY <1>9
<1>15. g \in [0..N -> V]
  BY <1>13, <1>14
<1> QED BY <1>1, <1>9, <1>10, <1>15 DEF IsKept, V, After

\* Nothing is kept of nothing.
LEMMA KeptNone == ASSUME NEW S PROVE Kept(<<>>, S) = <<>>
<1>1. <<>> \in Seq({})
  OBVIOUS
<1>2. PICK k : IsKept(k, <<>>, {}, S)
  BY <1>1, KeptWalk
<1> QED BY <1>2 DEF IsKept

\* One more element is one more to keep, or not.
LEMMA KeptMore ==
    ASSUME NEW T, NEW s \in Seq(T), NEW e \in T, NEW S
    PROVE  Kept(Append(s, e), S) = IF e \in S THEN Append(Kept(s, S), e) ELSE Kept(s, S)
<1>1. PICK N \in Nat : N = Len(s)
  OBVIOUS
<1>r. PICK r : r = Append(s, e)
  OBVIOUS
<1>2. /\ r \in Seq(T) /\ r = Append(s, e) /\ Len(r) = N + 1 /\ r[N + 1] = e
      /\ \A n \in 1..N : r[n] = s[n]
  BY <1>1, <1>r
<1>3. PICK k : IsKept(k, s, T, S)
  BY KeptWalk
<1>4. PICK g : IsKept(g, r, T, S)
  BY <1>2, KeptWalk
<1>5. \A n \in 1..N : g[n - 1] = k[n - 1] => g[n] = k[n]
  <2> SUFFICES ASSUME NEW n \in 1..N, g[n - 1] = k[n - 1] PROVE g[n] = k[n]
    OBVIOUS
  <2>1. k[n] = IF s[n] \in S THEN Append(k[n - 1], s[n]) ELSE k[n - 1]
    BY <1>1, <1>3 DEF IsKept
  <2>2. n \in 1..Len(r)
    BY <1>2
  <2>3. g[n] = IF r[n] \in S THEN Append(g[n - 1], r[n]) ELSE g[n - 1]
    BY <1>4, <2>2 DEF IsKept
  <2>4. r[n] = s[n]
    BY <1>2
  <2> QED BY <2>1, <2>3, <2>4
<1>6. g[0] = k[0]
  BY <1>3, <1>4 DEF IsKept
<1>7. \A n \in 0..N : g[n] = k[n]
  BY <1>5, <1>6, Alike
<1>8. g[N] = k[N] /\ N + 1 \in 1..(N + 1) /\ (N + 1) - 1 = N
  BY <1>7
<1>9. g[N + 1] = IF e \in S THEN Append(g[N], e) ELSE g[N]
  BY <1>2, <1>4, <1>8 DEF IsKept
<1>10. Kept(r, S) = g[N + 1] /\ Kept(s, S) = k[N]
  BY <1>1, <1>2, <1>3, <1>4 DEF IsKept
<1> QED BY <1>2, <1>8, <1>9, <1>10

\* What is kept are elements of both.
LEMMA KeptType ==
    ASSUME NEW T, NEW s \in Seq(T), NEW S
    PROVE  Kept(s, S) \in Seq(T \cap S)
<1>1. PICK k : IsKept(k, s, T, S)
  BY KeptWalk
<1>2. Len(s) \in 0..Len(s)
  OBVIOUS
<1> QED BY <1>1, <1>2 DEF IsKept

LEMMA SumWalk ==
    ASSUME NEW n \in Nat, NEW f, \A i \in 1..n : f[i] \in Int
    PROVE  \E g : IsSum(g, f, n)
<1> DEFINE step == [p \in Int \X (1..n) |-> p[1] + f[p[2]]]
<1>1. step \in [Int \X (1..n) -> Int]
  OBVIOUS
<1>2. \A a \in Int, i \in 1..n : step[<<a, i>>] = a + f[i]
  OBVIOUS
<1>z. 0 \in Int
  OBVIOUS
<1> HIDE DEF step
<1>w. PICK h : IsWalk(h, n, Int, 0, step)
  BY <1>1, <1>z, Recursion
<1>3. h \in [0..n -> Int] /\ h[0] = 0 /\ \A i \in 1..n : h[i] = step[<<h[i - 1], i>>]
  BY <1>w DEF IsWalk
<1>4. h = [i \in 0..n |-> IF i = 0 THEN 0 ELSE h[i - 1] + f[i]]
  <2>1. \A i \in 0..n : i # 0 => i - 1 \in 0..n /\ i \in 1..n
    OBVIOUS
  <2>2. \A i \in 0..n : h[i] = IF i = 0 THEN 0 ELSE h[i - 1] + f[i]
    BY <1>2, <1>3, <2>1
  <2> QED BY <1>3, <2>2
<1>5. PICK g : /\ g = [i \in 0..n |-> IF i = 0 THEN 0 ELSE g[i - 1] + f[i]]
               /\ SumTo(f, n) = g[n]
  BY <1>4, Zenon DEF SumTo
<1>6. g[0] = 0 /\ \A i \in 1..n : g[i] = g[i - 1] + f[i]
  BY <1>5
<1>8. \A i \in 0..n : g[i] \in Int
  <2> PICK p : p = g
    OBVIOUS
  <2>1. p[0] \in Int /\ \A i \in 1..n : p[i - 1] \in Int => p[i] \in Int
    BY <1>6
  <2>2. \A i \in 0..n : p[i] \in Int
    BY <2>1, Stays
  <2> QED BY <2>2
<1>9. g = [i \in 0..n |-> g[i]]
  BY <1>5
<1>10. g \in [0..n -> Int]
  BY <1>8, <1>9
<1> QED BY <1>5, <1>6, <1>10 DEF IsSum

\* A sum of no terms.
LEMMA SumNone == ASSUME NEW f PROVE SumTo(f, 0) = 0
<1>1. 0 \in Nat /\ \A i \in 1..0 : f[i] \in Int
  OBVIOUS
<1>2. PICK g : IsSum(g, f, 0)
  BY <1>1, SumWalk
<1> QED BY <1>2 DEF IsSum

\* A sum is an integer.
LEMMA SumType ==
    ASSUME NEW n \in Nat, NEW f, \A i \in 1..n : f[i] \in Int
    PROVE  SumTo(f, n) \in Int
<1>1. PICK g : IsSum(g, f, n)
  BY SumWalk
<1> QED BY <1>1 DEF IsSum

\* Sums of the same terms are the same.
LEMMA SumSame ==
    ASSUME NEW n \in Nat, NEW f, NEW g, \A i \in 1..n : f[i] \in Int /\ g[i] = f[i]
    PROVE  SumTo(f, n) = SumTo(g, n)
<1>1. PICK a : IsSum(a, f, n)
  BY SumWalk
<1>0. \A i \in 1..n : g[i] \in Int
  OBVIOUS
<1>2. PICK b : IsSum(b, g, n)
  BY <1>0, SumWalk
<1>3. \A i \in 1..n : a[i - 1] = b[i - 1] => a[i] = b[i]
  BY <1>1, <1>2 DEF IsSum
<1>4. a[0] = b[0]
  BY <1>1, <1>2 DEF IsSum
<1>5. \A i \in 0..n : a[i] = b[i]
  BY <1>3, <1>4, Alike
<1> QED BY <1>1, <1>2, <1>5 DEF IsSum

\* A sum has one more term.
LEMMA SumMore ==
    ASSUME NEW n \in Nat, NEW f, \A i \in 1..(n + 1) : f[i] \in Int,
           NEW g, \A i \in 1..n : g[i] = f[i]
    PROVE  SumTo(f, n + 1) = SumTo(g, n) + f[n + 1]
<1>0. n + 1 \in Nat
  OBVIOUS
<1>1. PICK a : IsSum(a, f, n + 1)
  BY <1>0, SumWalk
<1>2. \A i \in 1..n : g[i] \in Int
  OBVIOUS
<1>3. PICK b : IsSum(b, g, n)
  BY <1>2, SumWalk
<1>4. \A i \in 1..n : a[i - 1] = b[i - 1] => a[i] = b[i]
  BY <1>1, <1>3 DEF IsSum
<1>5. a[0] = b[0]
  BY <1>1, <1>3 DEF IsSum
<1>6. \A i \in 0..n : a[i] = b[i]
  BY <1>4, <1>5, Alike
<1> QED BY <1>1, <1>3, <1>6 DEF IsSum

-----------------------------------------------------------------------------
(* Lists and their prefixes, and how many of their elements are in a set *)

\* A prefix of a list is a list; one element more is appended to it.
LEMMA PrefixIs ==
    ASSUME NEW T, NEW s \in Seq(T), NEW n \in 0..Len(s)
    PROVE  /\ SubSeq(s, 1, n) \in Seq(T) /\ Len(SubSeq(s, 1, n)) = n
           /\ \A i \in 1..n : SubSeq(s, 1, n)[i] = s[i]
<1>1. n \in Int /\ 1 \in Int /\ \A i \in 1..n : s[i] \in T
  OBVIOUS
<1> QED BY <1>1, SubSeqProperties

LEMMA PrefixMore ==
    ASSUME NEW T, NEW s \in Seq(T), NEW n \in 1..Len(s)
    PROVE  SubSeq(s, 1, n) = Append(SubSeq(s, 1, n - 1), s[n])
<1>1. /\ n - 1 \in 0..Len(s) /\ n \in 0..Len(s) /\ s[n] \in T
  OBVIOUS
<1>2. PICK p, q : p = SubSeq(s, 1, n - 1) /\ q = SubSeq(s, 1, n)
  OBVIOUS
<1>3. /\ p \in Seq(T) /\ Len(p) = n - 1 /\ \A i \in 1..(n - 1) : p[i] = s[i]
      /\ q \in Seq(T) /\ Len(q) = n /\ \A i \in 1..n : q[i] = s[i]
  BY <1>1, <1>2, PrefixIs
<1>4. q = Append(p, s[n])
  <2> PICK r : r = Append(p, s[n])
    OBVIOUS
  <2>1. r \in Seq(T) /\ Len(r) = n /\ r[n] = s[n] /\ \A i \in 1..(n - 1) : r[i] = p[i]
    BY <1>1, <1>3
  <2>2. \A i \in 1..n : r[i] = q[i]
    BY <1>3, <2>1
  <2> QED BY <1>3, <2>1, <2>2, SeqEqual
<1> QED BY <1>2, <1>4

\* Appending changes no prefix.
LEMMA PrefixStays ==
    ASSUME NEW T, NEW s \in Seq(T), NEW e \in T, NEW n \in 0..Len(s)
    PROVE  SubSeq(Append(s, e), 1, n) = SubSeq(s, 1, n)
<1>1. PICK r : r = Append(s, e)
  OBVIOUS
<1>2. r \in Seq(T) /\ n \in 0..Len(r) /\ \A i \in 1..n : r[i] = s[i]
  BY <1>1
<1>3. PICK p, q : p = SubSeq(r, 1, n) /\ q = SubSeq(s, 1, n)
  OBVIOUS
<1>4. /\ p \in Seq(T) /\ Len(p) = n /\ \A i \in 1..n : p[i] = r[i]
      /\ q \in Seq(T) /\ Len(q) = n /\ \A i \in 1..n : q[i] = s[i]
  BY <1>2, <1>3, PrefixIs
<1>5. \A i \in 1..n : p[i] = q[i]
  BY <1>2, <1>4
<1>6. p = q
  BY <1>4, <1>5, SeqEqual
<1> QED BY <1>1, <1>3, <1>6

\* A set that has the empty list, and each list with one more element, has every list.
LEMMA SeqInduct ==
    ASSUME NEW T, NEW V, <<>> \in V,
           \A s \in Seq(T), e \in T : s \in V => Append(s, e) \in V
    PROVE  Seq(T) \subseteq V
<1> SUFFICES ASSUME NEW s \in Seq(T) PROVE s \in V
  OBVIOUS
<1>1. PICK N \in Nat : N = Len(s)
  OBVIOUS
<1> DEFINE S == {n \in 0..N : SubSeq(s, 1, n) \in V}
<1>2. 0 \in S
  <2>1. SubSeq(s, 1, 0) = <<>>
    BY SubSeqEmpty
  <2>2. SubSeq(s, 1, 0) \in V
    BY <2>1, Zenon
  <2> QED BY <2>2
<1>3. ASSUME NEW n \in 0..N, n \in S, n < N PROVE n + 1 \in S
  <2>1. n + 1 \in 1..Len(s) /\ (n + 1) - 1 = n /\ s[n + 1] \in T /\ n \in 0..Len(s)
    BY <1>1, <1>3
  <2>2. SubSeq(s, 1, n + 1) = Append(SubSeq(s, 1, n), s[n + 1])
    BY <2>1, PrefixMore
  <2>3. SubSeq(s, 1, n) \in Seq(T)
    BY <2>1, PrefixIs
  <2>4. SubSeq(s, 1, n) \in V
    BY <1>3
  <2>5. SubSeq(s, 1, n + 1) \in V
    BY <2>1, <2>2, <2>3, <2>4, Zenon
  <2>6. n + 1 \in 0..N
    BY <1>3
  <2> QED BY <2>5, <2>6
<1> HIDE DEF S
<1>4. 0..N \subseteq S
  BY <1>2, <1>3, Induct
<1>5. SubSeq(s, 1, N) \in V
  BY <1>4 DEF S
<1> QED BY <1>1, <1>5, SubSeqFull

\* how many elements of s are in S
Among(s, S) == Cardinality({i \in DOMAIN s : s[i] \in S})

LEMMA AmongNone == ASSUME NEW S PROVE Among(<<>>, S) = 0
<1>1. {i \in DOMAIN <<>> : <<>>[i] \in S} = {}
  OBVIOUS
<1> QED BY <1>1, FS_EmptySet DEF Among

LEMMA AmongType ==
    ASSUME NEW T, NEW s \in Seq(T), NEW S
    PROVE  Among(s, S) \in Nat
<1>1. DOMAIN s = 1..Len(s) /\ Len(s) \in Int
  OBVIOUS
<1>2. IsFiniteSet(DOMAIN s)
  BY <1>1, FS_Interval
<1>3. IsFiniteSet({i \in DOMAIN s : s[i] \in S})
  BY <1>2, FS_Subset
<1> QED BY <1>3, FS_CardinalityType DEF Among

LEMMA AmongMore ==
    ASSUME NEW T, NEW s \in Seq(T), NEW e \in T, NEW S
    PROVE  Among(Append(s, e), S) = Among(s, S) + (IF e \in S THEN 1 ELSE 0)
<1>1. PICK N \in Nat : N = Len(s)
  OBVIOUS
<1>2. PICK r : r = Append(s, e)
  OBVIOUS
<1>3. /\ DOMAIN r = 1..(N + 1) /\ r[N + 1] = e /\ DOMAIN s = 1..N
      /\ \A i \in 1..N : r[i] = s[i]
  BY <1>1, <1>2
<1> DEFINE A == {i \in DOMAIN s : s[i] \in S}
           B == {i \in DOMAIN r : r[i] \in S}
<1>4. B = IF e \in S THEN A \cup {N + 1} ELSE A
  <2>1. \A i : i \in 1..(N + 1) <=> i \in 1..N \/ i = N + 1
    OBVIOUS
  <2> QED BY <1>3, <2>1
<1>5. N + 1 \notin A
  BY <1>3
<1>6. IsFiniteSet(A)
  <2>1. IsFiniteSet(1..N)
    BY FS_Interval
  <2>2. A \in SUBSET (1..N)
    BY <1>3
  <2> QED BY <2>1, <2>2, FS_Subset
<1> HIDE DEF A, B
<1>7. Cardinality(B) = Cardinality(A) + (IF e \in S THEN 1 ELSE 0)
  <2>1. Cardinality(A) \in Nat
    BY <1>6, FS_CardinalityType
  <2>2. Cardinality(A \cup {N + 1}) = Cardinality(A) + 1
    BY <1>5, <1>6, FS_AddElement, Zenon
  <2> QED BY <1>4, <2>1, <2>2
<1> QED BY <1>2, <1>7 DEF Among, A, B

\* Of what is kept, and of what is left when the first is taken off.
LEMMA AmongKept ==
    ASSUME NEW T, NEW s \in Seq(T), NEW S, NEW R
    PROVE  Among(Kept(s, S), R) = Among(s, S \cap R)
<1> DEFINE V == {q \in Seq(T) : Among(Kept(q, S), R) = Among(q, S \cap R)}
<1>1. <<>> \in V
  BY KeptNone, AmongNone, EmptySeq
<1>2. ASSUME NEW q \in Seq(T), NEW e \in T, q \in V PROVE Append(q, e) \in V
  <2>1. Kept(q, S) \in Seq(T \cap S)
    BY KeptType
  <2>2. Among(Append(q, e), S \cap R) = Among(q, S \cap R) + (IF e \in S \cap R THEN 1 ELSE 0)
    BY AmongMore
  <2>3. Kept(Append(q, e), S) = IF e \in S THEN Append(Kept(q, S), e) ELSE Kept(q, S)
    BY KeptMore
  <2>4. CASE e \in S
    <3>1. e \in T \cap S
      BY <2>4
    <3>2. Among(Append(Kept(q, S), e), R)
              = Among(Kept(q, S), R) + (IF e \in R THEN 1 ELSE 0)
      BY <2>1, <3>1, AmongMore
    <3>3. Among(Kept(q, S), R) = Among(q, S \cap R)
      BY <1>2
    <3>4. e \in S \cap R <=> e \in R
      BY <2>4
    <3>5. Append(q, e) \in Seq(T)
      OBVIOUS
    <3>6. Among(Kept(Append(q, e), S), R) = Among(Append(q, e), S \cap R)
      BY <2>2, <2>3, <2>4, <3>2, <3>3, <3>4, Zenon
    <3> QED BY <3>5, <3>6
  <2>5. CASE e \notin S
    <3>1. Among(q, S \cap R) \in Nat
      BY AmongType
    <3> QED BY <1>2, <2>2, <2>3, <2>5, <3>1
  <2> QED BY <2>4, <2>5
<1> HIDE DEF V
<1>3. Seq(T) \subseteq V
  BY <1>1, <1>2, SeqInduct
<1>4. s \in V
  BY <1>3
<1> QED BY <1>4 DEF V

LEMMA AmongTail ==
    ASSUME NEW T, NEW s \in Seq(T), s # <<>>, NEW S
    PROVE  Among(s, S) = Among(Tail(s), S) + (IF Head(s) \in S THEN 1 ELSE 0)
<1> DEFINE V == {q \in Seq(T) : q = <<>> \/
                     Among(q, S) = Among(Tail(q), S) + (IF Head(q) \in S THEN 1 ELSE 0)}
<1>1. <<>> \in V
  BY EmptySeq
<1>2. ASSUME NEW q \in Seq(T), NEW e \in T, q \in V PROVE Append(q, e) \in V
  <2>1. Among(Append(q, e), S) = Among(q, S) + (IF e \in S THEN 1 ELSE 0)
    BY AmongMore
  <2>2. /\ Head(Append(q, e)) = IF q = <<>> THEN e ELSE Head(q)
        /\ Tail(Append(q, e)) = IF q = <<>> THEN <<>> ELSE Append(Tail(q), e)
    BY HeadTailAppend
  <2>3. Append(q, e) \in Seq(T)
    OBVIOUS
  <2>4. CASE q = <<>>
    BY <2>1, <2>2, <2>3, <2>4, AmongNone
  <2>5. CASE q # <<>>
    <3>1. Tail(q) \in Seq(T)
      BY <2>5
    <3>2. Among(Append(Tail(q), e), S) = Among(Tail(q), S) + (IF e \in S THEN 1 ELSE 0)
      BY <3>1, AmongMore
    <3>3. Among(Tail(q), S) \in Nat
      BY <3>1, AmongType
    <3>4. Among(q, S) = Among(Tail(q), S) + (IF Head(q) \in S THEN 1 ELSE 0)
      BY <1>2, <2>5
    <3>5. /\ Head(Append(q, e)) = Head(q)
          /\ Tail(Append(q, e)) = Append(Tail(q), e)
      BY <2>2, <2>5
    <3>6. Among(Append(q, e), S)
              = Among(Tail(Append(q, e)), S) + (IF Head(Append(q, e)) \in S THEN 1 ELSE 0)
      <4>1. PICK a : a = Among(Tail(q), S)
        OBVIOUS
      <4>2. PICK h : h = Head(q)
        OBVIOUS
      <4>3. Among(Append(q, e), S)
              = (a + (IF h \in S THEN 1 ELSE 0)) + (IF e \in S THEN 1 ELSE 0)
        BY <2>1, <3>4, <4>1, <4>2, Zenon
      <4>4. Among(Tail(Append(q, e)), S) = a + (IF e \in S THEN 1 ELSE 0)
        BY <3>2, <3>5, <4>1, Zenon
      <4>5. a \in Nat
        BY <3>3, <4>1
      <4>6. Head(Append(q, e)) = h
        BY <3>5, <4>2, Zenon
      <4>7. (a + (IF h \in S THEN 1 ELSE 0)) + (IF e \in S THEN 1 ELSE 0)
              = (a + (IF e \in S THEN 1 ELSE 0)) + (IF h \in S THEN 1 ELSE 0)
        BY <4>5
      <4> QED BY <4>3, <4>4, <4>6, <4>7, Zenon
    <3> QED BY <2>3, <3>6
  <2> QED BY <2>4, <2>5
<1> HIDE DEF V
<1>3. Seq(T) \subseteq V
  BY <1>1, <1>2, SeqInduct
<1>4. s \in V
  BY <1>3
<1> QED BY <1>4 DEF V

-----------------------------------------------------------------------------
(* The round trips of the backfill *)

\* The sums and the filter of the journal are those above.
LEMMA TripsLoops ==
    /\ \A f, n : Trips!SumTo(f, n) = SumTo(f, n)
    /\ \A s, S : Trips!Kept(s, S) = Kept(s, S)
    /\ \A S : Trips!Cardinality(S) = Cardinality(S)
<1>1. \A f, n : Trips!SumTo(f, n) = SumTo(f, n)
  BY Zenon DEF Trips!SumTo, SumTo
<1>2. \A s, S : Trips!Kept(s, S) = Kept(s, S)
  BY Zenon DEF Trips!Kept, Kept
<1>3. \A S : Trips!Cardinality(S) = Cardinality(S)
  BY Zenon DEF Trips!Cardinality, Cardinality
<1> QED BY <1>1, <1>2, <1>3

\* What the assumption says of the orders.
LEMMA OrderFacts ==
    ASSUME NEW f \in Trips!Order
    PROVE  /\ f.side \in {"buy", "sell"} /\ f.shares \in Nat \ {0} /\ f.price \in Nat \ {0}
           /\ f.minute \in Trips!Moments /\ f.filled \in BOOLEAN
           /\ Trips!Signed(f) \in Int /\ f.shares * f.price \in Int
<1>1. Shares \subseteq Nat \ {0}
  BY PartsAssumption DEF Trips!JournalAssumption
<1>2. /\ f.side \in {"buy", "sell"} /\ f.shares \in Nat \ {0} /\ f.price \in Nat \ {0}
      /\ f.minute \in Trips!Moments /\ f.filled \in BOOLEAN
  BY <1>1 DEF Trips!Order
<1> QED BY <1>2 DEF Trips!Signed

\* The open episode: its side is that of the position, or it has sold some.
Where == [pos : Int, dir : {-1, 0, 1}, entered : Int, left : Int,
          last : Trips!Moments \cup {0}, trips : Seq(Trips!Trip)]
Sided(w) ==
    w.pos # 0 => w.dir # 0 /\ (w.last = 0 => (w.pos > 0 <=> w.dir = 1))
Walking == {w \in Where : Sided(w)}

\* what the open episode has brought in
Brought(w) ==
    IF w.pos = 0 THEN 0 ELSE IF w.dir = 1 THEN w.left - w.entered ELSE w.entered - w.left

\* what a fill brings in
Paid(f) == f.shares * f.price
Gain(f) == IF f.side = "buy" THEN -Paid(f) ELSE Paid(f)

\* A fill on a flat position opens an episode on its side.
LEMMA EpisodeIs ==
    ASSUME NEW w \in Walking, NEW f \in Trips!Order, NEW e, e = Trips!Episode(w, f)
    PROVE  /\ e \in Where /\ e.pos = w.pos /\ e.trips = w.trips /\ e.dir \in {1, -1}
           /\ (IF e.dir = 1 THEN e.left - e.entered ELSE e.entered - e.left) = Brought(w)
           /\ e.last = 0 =>
                  (e.dir = 1 <=> e.pos > 0 \/ (e.pos = 0 /\ Trips!Signed(f) > 0))
           /\ e.pos = 0 => e.last = 0
<1>1. CASE w.pos # 0
  BY <1>1 DEF Trips!Episode, Walking, Where, Sided, Brought
<1>2. CASE w.pos = 0
  <2>1. e = [Trips!Start EXCEPT !.dir = IF Trips!Signed(f) > 0 THEN 1 ELSE -1,
                                !.trips = w.trips]
    BY <1>2 DEF Trips!Episode
  <2>2. /\ e.pos = 0 /\ e.trips = w.trips /\ e.entered = 0 /\ e.left = 0 /\ e.last = 0
        /\ e.dir = IF Trips!Signed(f) > 0 THEN 1 ELSE -1
    BY <2>1 DEF Trips!Start
  <2>3. e \in Where
    <3>1. PICK d, ts : d = (IF Trips!Signed(f) > 0 THEN 1 ELSE -1) /\ ts = w.trips
      OBVIOUS
    <3>2. d \in {-1, 0, 1} /\ ts \in Seq(Trips!Trip)
      BY <3>1 DEF Walking, Where
    <3>3. e = [pos |-> 0, dir |-> d, entered |-> 0, left |-> 0, last |-> 0, trips |-> ts]
      BY <2>1, <3>1 DEF Trips!Start
    <3> QED BY <3>2, <3>3 DEF Where
  <2> QED BY <1>2, <2>2, <2>3 DEF Brought
<1> QED BY <1>1, <1>2

\* A fill moves the position; where it ends flat, the trip has made what the episode brought.
WalkDone(w, f, v) ==
    /\ v \in Walking /\ v.pos = w.pos + Trips!Signed(f)
    /\ v.pos # 0 => v.trips = w.trips /\ Brought(v) = Brought(w) + Gain(f)
    /\ v.pos = 0 => \E t \in Trips!Trip :
                        v.trips = Append(w.trips, t) /\ t.pnl = Brought(w) + Gain(f)

LEMMA WalkStep ==
    ASSUME NEW w \in Walking, NEW f \in Trips!Order
    PROVE  WalkDone(w, f, Trips!Walk(w, f))
<1> DEFINE entry(e) == (Trips!Signed(f) > 0) = (e.dir > 0)
<1>1. PICK e : e = Trips!Episode(w, f)
  OBVIOUS
<1>2. /\ e \in Where /\ e.pos = w.pos /\ e.trips = w.trips /\ e.dir \in {1, -1}
      /\ (IF e.dir = 1 THEN e.left - e.entered ELSE e.entered - e.left) = Brought(w)
      /\ e.last = 0 => (e.dir = 1 <=> e.pos > 0 \/ (e.pos = 0 /\ Trips!Signed(f) > 0))
      /\ e.pos = 0 => e.last = 0
  BY <1>1, EpisodeIs
<1>3. PICK p : p = Paid(f)
  OBVIOUS
<1>4. /\ p \in Int /\ f.minute \in Trips!Moments /\ f.shares \in Nat \ {0}
      /\ Trips!Signed(f) = IF f.side = "buy" THEN f.shares ELSE -f.shares
  BY <1>3, OrderFacts DEF Paid, Trips!Signed
<1>m. Trips!Moments \subseteq Nat \ {0}
  BY PartsAssumption DEF Trips!JournalAssumption, Trips!Moments
<1>5. PICK a : a = [e EXCEPT !.pos = @ + Trips!Signed(f),
                             !.entered = IF entry(e) THEN @ + p ELSE @,
                             !.left = IF entry(e) THEN @ ELSE @ + p,
                             !.last = IF entry(e) THEN @ ELSE f.minute]
  OBVIOUS
<1>6. /\ a.pos = e.pos + Trips!Signed(f) /\ a.dir = e.dir /\ a.trips = e.trips
      /\ a.entered = (IF entry(e) THEN e.entered + p ELSE e.entered)
      /\ a.left = (IF entry(e) THEN e.left ELSE e.left + p)
      /\ a.last = (IF entry(e) THEN e.last ELSE f.minute)
  BY <1>2, <1>5 DEF Where
<1>7. a \in Where
  <2>1. PICK x, y, z, u : /\ x = e.pos + Trips!Signed(f)
                          /\ y = IF entry(e) THEN e.entered + p ELSE e.entered
                          /\ z = IF entry(e) THEN e.left ELSE e.left + p
                          /\ u = IF entry(e) THEN e.last ELSE f.minute
    OBVIOUS
  <2>2. x \in Int /\ y \in Int /\ z \in Int /\ u \in Trips!Moments \cup {0}
    BY <1>2, <1>4, <2>1 DEF Where
  <2>3. a = [e EXCEPT !.pos = x, !.entered = y, !.left = z, !.last = u]
    BY <1>5, <2>1
  <2> QED BY <1>2, <2>2, <2>3 DEF Where
<1>8. entry(e) <=> (e.dir = 1 <=> Trips!Signed(f) > 0)
  BY <1>2
<1>9. a.last = 0 => (e.dir = 1 <=> e.pos > 0 \/ (e.pos = 0 /\ Trips!Signed(f) > 0))
  BY <1>2, <1>4, <1>6, <1>m
<1>10. a.last = 0 => entry(e)
  BY <1>4, <1>6, <1>m
<1>11. e.pos \in Int /\ e.left \in Int /\ e.entered \in Int /\ Trips!Signed(f) \in Int
  BY <1>2, OrderFacts DEF Where
<1>12. a.last = 0 => a.pos # 0 /\ (a.pos > 0 <=> a.dir = 1)
  BY <1>4, <1>6, <1>8, <1>9, <1>10, <1>11
<1>13. (IF a.dir = 1 THEN a.left - a.entered ELSE a.entered - a.left) = Brought(w) + Gain(f)
  <2>1. Gain(f) = IF f.side = "buy" THEN -p ELSE p
    BY <1>3 DEF Gain
  <2> QED BY <1>2, <1>4, <1>6, <1>8, <1>11, <2>1
<1>14. Trips!Walk(w, f)
         = IF a.pos # 0 THEN a
           ELSE [a EXCEPT !.trips = Append(@, [minute |-> a.last,
                                               pnl |-> e.dir * (a.left - a.entered)])]
  BY <1>1, <1>3, <1>5 DEF Trips!Walk, Trips!Over, Paid
<1> HIDE DEF entry
<1>15. CASE a.pos # 0
  <2>1. Brought(a) = Brought(w) + Gain(f)
    BY <1>13, <1>15 DEF Brought
  <2>2. a \in Walking
    BY <1>2, <1>6, <1>7, <1>12 DEF Walking, Sided
  <2> QED BY <1>2, <1>6, <1>14, <1>15, <2>1, <2>2 DEF WalkDone
<1>16. CASE a.pos = 0
  <2> DEFINE t == [minute |-> a.last, pnl |-> e.dir * (a.left - a.entered)]
             v == [a EXCEPT !.trips = Append(@, t)]
  <2>1. a.last \in Trips!Moments
    BY <1>7, <1>12, <1>16 DEF Where
  <2>2. e.dir * (a.left - a.entered) = Brought(w) + Gain(f)
    <3>1. a.left \in Int /\ a.entered \in Int
      BY <1>7 DEF Where
    <3>2. e.dir = 1 => e.dir * (a.left - a.entered) = a.left - a.entered
      BY <3>1
    <3>3. e.dir = -1 => e.dir * (a.left - a.entered) = a.entered - a.left
      BY <3>1
    <3> QED BY <1>2, <1>6, <1>13, <3>2, <3>3
  <2>3. e.dir * (a.left - a.entered) \in Int
    BY <1>2, <1>7 DEF Where
  <2>4. t \in Trips!Trip /\ t.pnl = Brought(w) + Gain(f)
    BY <2>1, <2>2, <2>3 DEF Trips!Trip
  <2>5. Trips!Walk(w, f) = v
    BY <1>14, <1>16
  <2> HIDE DEF t
  <2>6. v.pos = 0 /\ v.trips = Append(a.trips, t) /\ v \in Where
    BY <1>7, <1>16, <2>4 DEF Where
  <2>7. v \in Walking
    BY <2>6 DEF Walking, Sided
  <2>8. v.pos = w.pos + Trips!Signed(f)
    BY <1>2, <1>6, <1>16, <2>6
  <2> HIDE DEF v
  <2> QED BY <1>2, <1>6, <2>4, <2>5, <2>6, <2>7, <2>8 DEF WalkDone
<1> QED BY <1>15, <1>16

\* The walk along a list of orders.
IsWalked(k, os) ==
    /\ k \in [0..Len(os) -> Walking] /\ k[0] = Trips!Start /\ Trips!Walked(os) = k[Len(os)]
    /\ \A n \in 1..Len(os) :
           k[n] = IF os[n].filled THEN Trips!Walk(k[n - 1], os[n]) ELSE k[n - 1]

LEMMA WalkedWalk ==
    ASSUME NEW os \in Seq(Trips!Order)
    PROVE  \E k : IsWalked(k, os)
<1> DEFINE After(w, n) == IF os[n].filled THEN Trips!Walk(w, os[n]) ELSE w
<1>1. PICK N \in Nat : N = Len(os)
  OBVIOUS
<1>2. \A n \in 1..N : os[n] \in Trips!Order
  BY <1>1
<1>3. Trips!Start \in Walking
  BY EmptySeq DEF Trips!Start, Walking, Where, Sided
<1>4. ASSUME NEW w \in Walking, NEW n \in 1..N PROVE After(w, n) \in Walking
  BY <1>2, WalkStep DEF WalkDone
<1> DEFINE step == [p \in Walking \X (1..N) |-> After(p[1], p[2])]
<1>5. step \in [Walking \X (1..N) -> Walking]
  BY <1>4
<1>6. \A w \in Walking, n \in 1..N : step[<<w, n>>] = After(w, n)
  OBVIOUS
<1> HIDE DEF step, After
<1>w. PICK f : IsWalk(f, N, Walking, Trips!Start, step)
  BY <1>3, <1>5, Recursion
<1>7. /\ f \in [0..N -> Walking] /\ f[0] = Trips!Start
      /\ \A n \in 1..N : f[n] = step[<<f[n - 1], n>>]
  BY <1>w DEF IsWalk
<1>8. f = [n \in 0..N |-> IF n = 0 THEN Trips!Start ELSE After(f[n - 1], n)]
  <2>1. \A n \in 0..N : n # 0 => n - 1 \in 0..N /\ n \in 1..N
    OBVIOUS
  <2>2. \A n \in 0..N : f[n] = IF n = 0 THEN Trips!Start ELSE After(f[n - 1], n)
    BY <1>6, <1>7, <2>1
  <2> QED BY <1>7, <2>2
<1>9. PICK g : /\ g = [n \in 0..N |-> IF n = 0 THEN Trips!Start
                          ELSE IF os[n].filled THEN Trips!Walk(g[n - 1], os[n])
                          ELSE g[n - 1]]
               /\ Trips!Walked(os) = g[N]
  BY <1>1, <1>8, Zenon DEF Trips!Walked, After
<1>10. g[0] = Trips!Start /\ \A n \in 1..N : g[n] = After(g[n - 1], n)
  <2>1. 0 \in 0..N /\ \A n \in 1..N : n \in 0..N /\ n # 0
    OBVIOUS
  <2> QED BY <1>9, <2>1 DEF After
<1>13. \A n \in 0..N : g[n] \in Walking
  <2> PICK p : p = g
    OBVIOUS
  <2>1. p[0] \in Walking /\ \A n \in 1..N : p[n - 1] \in Walking => p[n] \in Walking
    BY <1>3, <1>4, <1>10
  <2>2. \A n \in 0..N : p[n] \in Walking
    BY <2>1, Stays
  <2> QED BY <2>2
<1>14. g = [n \in 0..N |-> g[n]]
  BY <1>9
<1>15. g \in [0..N -> Walking]
  BY <1>13, <1>14
<1> QED BY <1>1, <1>9, <1>10, <1>15 DEF IsWalked, After

LEMMA WalkedType == ASSUME NEW os \in Seq(Trips!Order) PROVE Trips!Walked(os) \in Walking
<1>1. PICK k : IsWalked(k, os)
  BY WalkedWalk
<1>2. Len(os) \in 0..Len(os)
  OBVIOUS
<1> QED BY <1>1, <1>2 DEF IsWalked

LEMMA WalkedNone == Trips!Walked(<<>>) = Trips!Start
<1>1. <<>> \in Seq(Trips!Order)
  BY EmptySeq
<1>2. PICK k : IsWalked(k, <<>>)
  BY <1>1, WalkedWalk
<1> QED BY <1>2 DEF IsWalked

LEMMA WalkedMore ==
    ASSUME NEW os \in Seq(Trips!Order), NEW f \in Trips!Order
    PROVE  Trips!Walked(Append(os, f))
             = IF f.filled THEN Trips!Walk(Trips!Walked(os), f) ELSE Trips!Walked(os)
<1>1. PICK N \in Nat : N = Len(os)
  OBVIOUS
<1>r. PICK r : r = Append(os, f)
  OBVIOUS
<1>2. /\ r \in Seq(Trips!Order) /\ Len(r) = N + 1 /\ r[N + 1] = f
      /\ \A n \in 1..N : r[n] = os[n]
  BY <1>1, <1>r
<1>3. PICK k : IsWalked(k, os)
  BY WalkedWalk
<1>4. PICK g : IsWalked(g, r)
  BY <1>2, WalkedWalk
<1>5. \A n \in 1..N : g[n - 1] = k[n - 1] => g[n] = k[n]
  <2> SUFFICES ASSUME NEW n \in 1..N, g[n - 1] = k[n - 1] PROVE g[n] = k[n]
    OBVIOUS
  <2>1. k[n] = IF os[n].filled THEN Trips!Walk(k[n - 1], os[n]) ELSE k[n - 1]
    BY <1>1, <1>3 DEF IsWalked
  <2>2. n \in 1..Len(r)
    BY <1>2
  <2>3. g[n] = IF r[n].filled THEN Trips!Walk(g[n - 1], r[n]) ELSE g[n - 1]
    BY <1>4, <2>2 DEF IsWalked
  <2>4. r[n] = os[n]
    BY <1>2
  <2> QED BY <2>1, <2>3, <2>4
<1>6. g[0] = k[0]
  BY <1>3, <1>4 DEF IsWalked
<1>7. \A n \in 0..N : g[n] = k[n]
  <2>1. PICK p, q : p = g /\ q = k
    OBVIOUS
  <2>2. p[0] = q[0] /\ \A n \in 1..N : p[n - 1] = q[n - 1] => p[n] = q[n]
    BY <1>5, <1>6, <2>1
  <2>3. \A n \in 0..N : p[n] = q[n]
    BY <2>2, Alike
  <2> QED BY <2>1, <2>3
<1>8. g[N] = k[N] /\ N + 1 \in 1..(N + 1) /\ (N + 1) - 1 = N
  BY <1>7
<1>9. g[N + 1] = IF f.filled THEN Trips!Walk(g[N], f) ELSE g[N]
  BY <1>2, <1>4, <1>8 DEF IsWalked
<1>10. Trips!Walked(r) = g[N + 1] /\ Trips!Walked(os) = k[N]
  BY <1>1, <1>2, <1>3, <1>4 DEF IsWalked
<1> QED BY <1>r, <1>8, <1>9, <1>10

\* what the first n of the orders did to the position and to the cash, and which left it flat
MovedTo(os, n) == SumTo([i \in 1..n |-> Trips!Moved(os[i])], n)
CashTo(os, n) == SumTo([i \in 1..n |-> -(Trips!Moved(os[i]) * os[i].price)], n)
FlatsOf(os) == {n \in DOMAIN os : os[n].filled /\ MovedTo(os, n) = 0}

LEMMA MovedIs ==
    ASSUME NEW f \in Trips!Order
    PROVE  /\ Trips!Moved(f) = IF f.filled THEN Trips!Signed(f) ELSE 0
           /\ -(Trips!Moved(f) * f.price) = IF f.filled THEN Gain(f) ELSE 0
           /\ Trips!Moved(f) \in Int /\ Gain(f) \in Int
<1>1. PICK a, b : a = f.shares /\ b = f.price
  OBVIOUS
<1>2. a \in Nat /\ b \in Nat /\ f.filled \in BOOLEAN /\ f.side \in {"buy", "sell"}
  BY <1>1, OrderFacts
<1>3. (-a) * b = -(a * b) /\ a * b \in Int /\ 0 * b = 0
  BY <1>2
<1> QED BY <1>1, <1>2, <1>3 DEF Trips!Moved, Trips!Signed, Gain, Paid

\* One order more adds its own shares and dollars, and leaves the sums up to it alone.
LEMMA SumsMore ==
    ASSUME NEW os \in Seq(Trips!Order), NEW f \in Trips!Order, NEW r, r = Append(os, f)
    PROVE  /\ \A n \in 0..Len(os) : /\ MovedTo(r, n) = MovedTo(os, n)
                                    /\ CashTo(r, n) = CashTo(os, n)
                                    /\ MovedTo(os, n) \in Int /\ CashTo(os, n) \in Int
           /\ MovedTo(r, Len(os) + 1) = MovedTo(os, Len(os)) + Trips!Moved(f)
           /\ CashTo(r, Len(os) + 1)
                = CashTo(os, Len(os)) + (IF f.filled THEN Gain(f) ELSE 0)
<1>1. PICK N \in Nat : N = Len(os)
  OBVIOUS
<1>2. /\ r \in Seq(Trips!Order) /\ Len(r) = N + 1 /\ r[N + 1] = f
      /\ \A n \in 1..N : r[n] = os[n]
  BY <1>1
<1> DEFINE M(q, n) == [i \in 1..n |-> Trips!Moved(q[i])]
           C(q, n) == [i \in 1..n |-> -(Trips!Moved(q[i]) * q[i].price)]
<1>3. \A i \in 1..(N + 1) : r[i] \in Trips!Order
  BY <1>2
<1>4. \A i \in 1..(N + 1) :
          Trips!Moved(r[i]) \in Int /\ -(Trips!Moved(r[i]) * r[i].price) \in Int
  <2> TAKE i \in 1..(N + 1)
  <2>1. r[i] \in Trips!Order
    BY <1>3
  <2> QED BY <2>1, MovedIs
<1>5. ASSUME NEW n \in 0..N
      PROVE  /\ MovedTo(r, n) = MovedTo(os, n) /\ MovedTo(os, n) \in Int
             /\ CashTo(r, n) = CashTo(os, n) /\ CashTo(os, n) \in Int
  <2>1. \A i \in 1..n : r[i] = os[i] /\ i \in 1..(N + 1)
    BY <1>2
  <2>2. n \in Nat
    OBVIOUS
  <2>3. PICK a, b, c, d : a = M(r, n) /\ b = M(os, n) /\ c = C(r, n) /\ d = C(os, n)
    OBVIOUS
  <2>4. \A i \in 1..n : a[i] \in Int /\ b[i] = a[i] /\ c[i] \in Int /\ d[i] = c[i]
    BY <1>4, <2>1, <2>3
  <2>5. \A i \in 1..n : a[i] \in Int /\ b[i] = a[i]
    BY <2>4
  <2>6. \A i \in 1..n : c[i] \in Int /\ d[i] = c[i]
    BY <2>4
  <2>7. \A i \in 1..n : b[i] \in Int
    BY <2>5
  <2>8. \A i \in 1..n : d[i] \in Int
    BY <2>6
  <2>9. SumTo(a, n) = SumTo(b, n) /\ SumTo(b, n) \in Int
    BY <2>2, <2>5, <2>7, SumSame, SumType
  <2>10. SumTo(c, n) = SumTo(d, n) /\ SumTo(d, n) \in Int
    BY <2>2, <2>6, <2>8, SumSame, SumType
  <2> QED BY <2>3, <2>9, <2>10 DEF MovedTo, CashTo
<1>6. /\ MovedTo(r, N + 1) = MovedTo(os, N) + Trips!Moved(f)
      /\ CashTo(r, N + 1) = CashTo(os, N) + (-(Trips!Moved(f) * f.price))
  <2>3. PICK a, b, c, d : /\ a = M(r, N + 1) /\ b = M(os, N)
                          /\ c = C(r, N + 1) /\ d = C(os, N)
    OBVIOUS
  <2>4. \A i \in 1..(N + 1) : a[i] = Trips!Moved(r[i]) /\ c[i] = -(Trips!Moved(r[i]) * r[i].price)
    BY <2>3
  <2>5. \A i \in 1..N : b[i] = Trips!Moved(os[i]) /\ d[i] = -(Trips!Moved(os[i]) * os[i].price)
    BY <2>3
  <2>6. \A i \in 1..(N + 1) : a[i] \in Int
    BY <1>4, <2>4
  <2>7. \A i \in 1..(N + 1) : c[i] \in Int
    BY <1>4, <2>4
  <2>8. \A i \in 1..N : i \in 1..(N + 1) /\ r[i] = os[i]
    BY <1>2
  <2>9. \A i \in 1..N : b[i] = a[i]
    BY <2>4, <2>5, <2>8
  <2>10. \A i \in 1..N : d[i] = c[i]
    BY <2>4, <2>5, <2>8
  <2>11. SumTo(a, N + 1) = SumTo(b, N) + a[N + 1]
    BY <2>6, <2>9, SumMore
  <2>12. SumTo(c, N + 1) = SumTo(d, N) + c[N + 1]
    BY <2>7, <2>10, SumMore
  <2>13. a[N + 1] = Trips!Moved(f) /\ c[N + 1] = -(Trips!Moved(f) * f.price)
    BY <1>2, <2>4
  <2> QED BY <2>3, <2>11, <2>12, <2>13 DEF MovedTo, CashTo
<1> QED BY <1>1, <1>5, <1>6, MovedIs

\* What the trips made.
LEMMA MadeMore ==
    ASSUME NEW ts \in Seq(Trips!Trip), NEW t \in Trips!Trip
    PROVE  /\ Trips!Made(Append(ts, t)) = Trips!Made(ts) + t.pnl
           /\ Trips!Made(ts) \in Int /\ Trips!Made(<<>>) = 0
<1>1. PICK N \in Nat : N = Len(ts)
  OBVIOUS
<1>2. PICK r : r = Append(ts, t)
  OBVIOUS
<1>3. /\ r \in Seq(Trips!Trip) /\ DOMAIN r = 1..(N + 1) /\ Len(r) = N + 1 /\ r[N + 1] = t
      /\ DOMAIN ts = 1..N /\ \A i \in 1..N : r[i] = ts[i]
  BY <1>1, <1>2
<1>4. PICK a, b : /\ a = [i \in DOMAIN r |-> r[i].pnl] /\ b = [i \in DOMAIN ts |-> ts[i].pnl]
  OBVIOUS
<1>5. \A i \in 1..(N + 1) : a[i] \in Int
  <2> TAKE i \in 1..(N + 1)
  <2>1. r[i] \in Trips!Trip
    BY <1>3
  <2> QED BY <1>3, <1>4, <2>1 DEF Trips!Trip
<1>6. \A i \in 1..N : b[i] = a[i]
  <2> TAKE i \in 1..N
  <2>1. i \in DOMAIN ts /\ i \in DOMAIN r /\ r[i] = ts[i]
    BY <1>3
  <2>2. a[i] = r[i].pnl /\ b[i] = ts[i].pnl
    BY <1>4, <2>1
  <2> QED BY <2>1, <2>2
<1>7. \A i \in 1..N : b[i] \in Int
  BY <1>5, <1>6
<1>8. SumTo(a, N + 1) = SumTo(b, N) + a[N + 1] /\ SumTo(b, N) \in Int
  BY <1>5, <1>6, <1>7, SumMore, SumType
<1>9. Trips!Made(r) = SumTo(a, N + 1) /\ Trips!Made(ts) = SumTo(b, N)
  BY <1>1, <1>3, <1>4, TripsLoops DEF Trips!Made
<1>10. a[N + 1] = t.pnl
  BY <1>3, <1>4
<1>11. Trips!Made(<<>>) = 0
  BY TripsLoops, SumNone DEF Trips!Made
<1> QED BY <1>2, <1>8, <1>9, <1>10, <1>11

\* The books of a list of orders: the position and the cash of the walk are the sums over the
\* fills, and there is a trip for each order that left the symbol flat.
Books(os) ==
    LET w == Trips!Walked(os)
        F == FlatsOf(os)
    IN  /\ w.pos = MovedTo(os, Len(os))
        /\ Brought(w) = CashTo(os, Len(os)) - Trips!Made(w.trips)
        /\ Len(w.trips) = Cardinality(F)
        /\ F = {} => Trips!Made(w.trips) = 0
        /\ \A n \in F : (\A m \in F : m <= n) => Trips!Made(w.trips) = CashTo(os, n)

LEMMA FlatsFinite ==
    ASSUME NEW os \in Seq(Trips!Order)
    PROVE  IsFiniteSet(FlatsOf(os)) /\ FlatsOf(os) \subseteq 1..Len(os)
<1>1. DOMAIN os = 1..Len(os) /\ Len(os) \in Int
  OBVIOUS
<1>2. FlatsOf(os) \in SUBSET (1..Len(os))
  BY <1>1 DEF FlatsOf
<1>3. IsFiniteSet(1..Len(os))
  BY <1>1, FS_Interval
<1> QED BY <1>2, <1>3, FS_Subset

LEMMA BooksNone == Books(<<>>)
<1>1. FlatsOf(<<>>) = {}
  BY DEF FlatsOf
<1>2. MovedTo(<<>>, 0) = 0 /\ CashTo(<<>>, 0) = 0
  BY SumNone DEF MovedTo, CashTo
<1>3. Trips!Walked(<<>>).pos = 0 /\ Trips!Walked(<<>>).trips = <<>>
  BY WalkedNone DEF Trips!Start
<1>4. Trips!Made(<<>>) = 0
  BY TripsLoops, SumNone DEF Trips!Made
<1>5. Brought(Trips!Walked(<<>>)) = 0
  BY <1>3 DEF Brought
<1>6. Len(<<>>) = 0 /\ Cardinality({}) = 0
  BY FS_EmptySet
<1>7. PICK e, w, a, c, F : /\ e = <<>> /\ w = Trips!Walked(e) /\ a = MovedTo(e, 0)
                           /\ c = CashTo(e, 0) /\ F = FlatsOf(e)
  OBVIOUS
<1>8. /\ w.pos = 0 /\ Brought(w) = 0 /\ Trips!Made(w.trips) = 0 /\ Len(w.trips) = 0
      /\ a = 0 /\ c = 0 /\ F = {} /\ Cardinality(F) = 0 /\ Len(e) = 0
  BY <1>1, <1>2, <1>3, <1>4, <1>5, <1>6, <1>7, Zenon
<1>9. Brought(w) = c - Trips!Made(w.trips)
  BY <1>8
<1>10. Books(e)
  BY <1>7, <1>8, <1>9, Zenon DEF Books
<1> QED BY <1>7, <1>10, Zenon

LEMMA BooksMore ==
    ASSUME NEW os \in Seq(Trips!Order), NEW f \in Trips!Order, Books(os)
    PROVE  Books(Append(os, f))
<1>1. PICK N \in Nat : N = Len(os)
  OBVIOUS
<1>2. PICK r : r = Append(os, f)
  OBVIOUS
<1>3. /\ r \in Seq(Trips!Order) /\ Len(r) = N + 1 /\ DOMAIN r = 1..(N + 1) /\ r[N + 1] = f
      /\ DOMAIN os = 1..N /\ \A n \in 1..N : r[n] = os[n]
  BY <1>1, <1>2
<1>4. PICK w, v : w = Trips!Walked(os) /\ v = Trips!Walked(r)
  OBVIOUS
<1>5. w \in Walking /\ v = IF f.filled THEN Trips!Walk(w, f) ELSE w
  BY <1>2, <1>4, WalkedMore, WalkedType
<1>6. /\ \A n \in 0..N : /\ MovedTo(r, n) = MovedTo(os, n) /\ CashTo(r, n) = CashTo(os, n)
                         /\ MovedTo(os, n) \in Int /\ CashTo(os, n) \in Int
      /\ MovedTo(r, N + 1) = MovedTo(os, N) + Trips!Moved(f)
      /\ CashTo(r, N + 1) = CashTo(os, N) + (IF f.filled THEN Gain(f) ELSE 0)
  BY <1>1, <1>2, SumsMore
<1>7. PICK F, G : F = FlatsOf(os) /\ G = FlatsOf(r)
  OBVIOUS
<1>8. G = IF f.filled /\ MovedTo(r, N + 1) = 0 THEN F \cup {N + 1} ELSE F
  <2>1. \A n : n \in 1..(N + 1) <=> n \in 1..N \/ n = N + 1
    OBVIOUS
  <2>2. \A n \in 1..N : n \in 0..N
    OBVIOUS
  <2> QED BY <1>3, <1>6, <1>7, <2>1, <2>2 DEF FlatsOf
<1>9. IsFiniteSet(F) /\ F \subseteq 1..N /\ Cardinality(F) \in Nat
  BY <1>1, <1>7, FlatsFinite, FS_CardinalityType
<1>10. /\ w.pos = MovedTo(os, N) /\ Brought(w) = CashTo(os, N) - Trips!Made(w.trips)
       /\ Len(w.trips) = Cardinality(F) /\ (F = {} => Trips!Made(w.trips) = 0)
       /\ \A n \in F : (\A m \in F : m <= n) => Trips!Made(w.trips) = CashTo(os, n)
  BY <1>1, <1>4, <1>7 DEF Books
<1>11. /\ w.trips \in Seq(Trips!Trip) /\ w.pos \in Int /\ Trips!Made(w.trips) \in Int
       /\ CashTo(os, N) \in Int /\ Gain(f) \in Int /\ Trips!Signed(f) \in Int
       /\ f.filled \in BOOLEAN
  <2>1. w.trips \in Seq(Trips!Trip) /\ w.pos \in Int
    BY <1>5 DEF Walking, Where
  <2>2. Trips!Made(w.trips) \in Int
    <3>1. PICK ts : ts = w.trips
      OBVIOUS
    <3>2. [minute |-> 1, pnl |-> 0] \in Trips!Trip
      BY PartsAssumption DEF Trips!JournalAssumption, Trips!Trip, Trips!Moments
    <3> QED BY <2>1, <3>1, <3>2, MadeMore
  <2> QED BY <1>6, <2>1, <2>2, MovedIs, OrderFacts
<1>12. \A n \in F : CashTo(r, n) = CashTo(os, n)
  BY <1>6, <1>9
<1>13. CASE ~f.filled
  <2>1. v = w /\ G = F /\ MovedTo(r, N + 1) = MovedTo(os, N) /\ CashTo(r, N + 1) = CashTo(os, N)
    <3>1. Trips!Moved(f) = 0
      BY <1>13, MovedIs
    <3>2. MovedTo(os, N) \in Int /\ CashTo(os, N) \in Int
      BY <1>6
    <3> QED BY <1>5, <1>6, <1>8, <1>13, <3>1, <3>2
  <2> QED BY <1>2, <1>3, <1>4, <1>7, <1>10, <1>12, <2>1 DEF Books
<1>14. CASE f.filled
  <2>1. WalkDone(w, f, v)
    BY <1>5, <1>14, WalkStep
  <2>2. /\ v.pos = w.pos + Trips!Signed(f) /\ MovedTo(r, N + 1) = v.pos
        /\ CashTo(r, N + 1) = CashTo(os, N) + Gain(f)
    BY <1>6, <1>10, <1>14, <2>1, MovedIs DEF WalkDone
  <2>3. CASE v.pos # 0
    <3>1. v.trips = w.trips /\ Brought(v) = Brought(w) + Gain(f) /\ G = F
      BY <1>8, <2>1, <2>2, <2>3 DEF WalkDone
    <3>2. Brought(v) = CashTo(r, N + 1) - Trips!Made(v.trips)
      BY <1>10, <1>11, <2>2, <3>1
    <3> QED BY <1>2, <1>3, <1>4, <1>7, <1>10, <1>12, <2>2, <3>1, <3>2 DEF Books
  <2>4. CASE v.pos = 0
    <3>1. PICK t \in Trips!Trip : v.trips = Append(w.trips, t) /\ t.pnl = Brought(w) + Gain(f)
      BY <2>1, <2>4 DEF WalkDone
    <3>2. PICK ts : ts = w.trips
      OBVIOUS
    <3>3. Trips!Made(v.trips) = Trips!Made(w.trips) + t.pnl /\ Len(v.trips) = Len(w.trips) + 1
      BY <1>11, <3>1, <3>2, MadeMore
    <3>4. Trips!Made(v.trips) = CashTo(r, N + 1)
      BY <1>10, <1>11, <2>2, <3>1, <3>3
    <3>5. Brought(v) = 0
      BY <2>4 DEF Brought
    <3>6. G = F \cup {N + 1} /\ N + 1 \notin F
      BY <1>8, <1>9, <1>14, <2>2, <2>4
    <3>7. Cardinality(G) = Cardinality(F) + 1
      BY <1>9, <3>6, FS_AddElement, Zenon
    <3>8. \A n \in G : (\A m \in G : m <= n) => n = N + 1
      BY <1>9, <3>6
    <3>9. G # {}
      BY <3>6
    <3>10. CashTo(r, N + 1) \in Int
      BY <1>11, <2>2
    <3> QED BY <1>2, <1>3, <1>4, <1>7, <1>10, <2>2, <3>3, <3>4, <3>5, <3>7, <3>8, <3>9, <3>10
            DEF Books
  <2> QED BY <2>3, <2>4
<1> QED BY <1>11, <1>13, <1>14

\* The books of every list of orders balance.
LEMMA BooksBalance == ASSUME NEW os \in Seq(Trips!Order) PROVE Books(os)
<1> DEFINE V == {q \in Seq(Trips!Order) : Books(q)}
<1>1. <<>> \in V
  BY BooksNone, EmptySeq
<1>2. ASSUME NEW q \in Seq(Trips!Order), NEW f \in Trips!Order, q \in V
      PROVE  Append(q, f) \in V
  BY <1>2, BooksMore
<1> HIDE DEF V
<1>3. Seq(Trips!Order) \subseteq V
  BY <1>1, <1>2, SeqInduct
<1>4. os \in V
  BY <1>3
<1> QED BY <1>4 DEF V

\* What the script has to write: a close for each trip, by the minute.
Leaving(m) == {t \in Trips!Trip : t.minute = m}
Closed(who, m) == {e \in Trips!Close : e.by = who /\ e.minute = m}
TripsUpTo(os, n) == Trips!Trips(SubSeq(os, 1, n))

JournalType == Trips!TypeOK

\* Where the script is: what it has still to write, with what it wrote, is one close per trip,
\* or none where the live sync wrote one.
Level(m, wrote, trips, lives, whole) ==
    \/ wrote + Among(trips, Leaving(m)) = Among(whole, Leaving(m))
    \/ wrote + Among(trips, Leaving(m)) = 0 /\ lives > 0

ScriptInv ==
    /\ script.read <= Len(orders) /\ good <= Len(orders)
    /\ script.at = "read" => script.trips = TripsUpTo(orders, script.read)
    /\ script.at = "compared" =>
           \A m \in Trips!Moments :
               Level(m, 0, script.trips, Among(closes, Closed("live", m)),
                     TripsUpTo(orders, script.read))
    /\ script.at = "emit" =>
           \A m \in Trips!Moments :
               Level(m, Among(closes, Closed("script", m)), script.trips,
                     Among(closes, Closed("live", m)), TripsUpTo(orders, script.read))
    /\ good > 0 =>
           /\ script.at = "idle"
           /\ \A m \in Trips!Moments :
                  Level(m, Among(closes, Closed("script", m)), <<>>,
                        Among(closes, Closed("live", m)), TripsUpTo(orders, good))

JournalInv == JournalType /\ ScriptInv

\* The trips of a list of orders are trips.
LEMMA TripsType ==
    ASSUME NEW os \in Seq(Trips!Order), NEW n \in 0..Len(os)
    PROVE  TripsUpTo(os, n) \in Seq(Trips!Trip)
<1>1. PICK p : p = SubSeq(os, 1, n)
  OBVIOUS
<1>2. p \in Seq(Trips!Order)
  BY <1>1, PrefixIs
<1>3. Trips!Walked(p) \in Walking
  BY <1>2, WalkedType
<1> QED BY <1>1, <1>3 DEF TripsUpTo, Trips!Trips, Walking, Where

\* What the two sums of the property say of the lists.
LEMMA CountsAre ==
    ASSUME JournalType, NEW m
    PROVE  /\ \A who : Trips!Written(who, m) = Among(closes, Closed(who, m))
           /\ \A n \in 0..Len(orders) :
                  Trips!TripsAt(m, n) = Among(TripsUpTo(orders, n), Leaving(m))
<1>1. closes \in Seq(Trips!Close) /\ orders \in Seq(Trips!Order)
  BY DEF JournalType, Trips!TypeOK
<1>2. \A i \in DOMAIN closes : closes[i] \in Trips!Close
  BY <1>1
<1>3. ASSUME NEW who PROVE Trips!Written(who, m) = Among(closes, Closed(who, m))
  <2>1. {i \in DOMAIN closes : closes[i].by = who /\ closes[i].minute = m}
          = {i \in DOMAIN closes : closes[i] \in Closed(who, m)}
    BY <1>2 DEF Closed
  <2> QED BY <2>1, TripsLoops, Zenon DEF Trips!Written, Among
<1>4. ASSUME NEW n \in 0..Len(orders)
      PROVE  Trips!TripsAt(m, n) = Among(TripsUpTo(orders, n), Leaving(m))
  <2>1. PICK ts : ts = TripsUpTo(orders, n)
    OBVIOUS
  <2>2. ts \in Seq(Trips!Trip)
    BY <1>1, <2>1, TripsType
  <2>3. \A i \in DOMAIN ts : ts[i] \in Trips!Trip
    BY <2>2
  <2>4. {i \in DOMAIN ts : ts[i].minute = m} = {i \in DOMAIN ts : ts[i] \in Leaving(m)}
    BY <2>3 DEF Leaving
  <2>5. Trips!TripsAt(m, n) = Cardinality({i \in DOMAIN ts : ts[i].minute = m})
    BY <2>1, TripsLoops, Zenon DEF Trips!TripsAt, TripsUpTo
  <2> QED BY <2>1, <2>4, <2>5 DEF Among
<1> QED BY <1>3, <1>4

\* The invariant gives the property.
LEMMA JournalWhole ==
    ASSUME JournalInv
    PROVE  Trips!TypeOK /\ Trips!TripsConserve /\ Trips!BackfillWhole
<1>1. orders \in Seq(Trips!Order) /\ closes \in Seq(Trips!Close) /\ good \in Nat
  BY DEF JournalInv, JournalType, Trips!TypeOK
<1>2. Trips!TripsConserve
  <2>1. PICK w, F : w = Trips!Walked(orders) /\ F = FlatsOf(orders)
    OBVIOUS
  <2>2. /\ Len(w.trips) = Cardinality(F) /\ (F = {} => Trips!Made(w.trips) = 0)
        /\ \A n \in F : (\A m \in F : m <= n) => Trips!Made(w.trips) = CashTo(orders, n)
    BY <1>1, <2>1, BooksBalance DEF Books
  <2>3. IsFiniteSet(F) /\ F \subseteq 1..Len(orders)
    BY <1>1, <2>1, FlatsFinite
  <2>4. Trips!Flats = F /\ Trips!Trips(orders) = w.trips
    BY <2>1, TripsLoops DEF Trips!Flats, FlatsOf, Trips!Net, MovedTo, Trips!Trips
  <2>5. F # {} => Trips!Made(w.trips) = Trips!Cash(Trips!Max(F))
    <3> SUFFICES ASSUME F # {} PROVE Trips!Made(w.trips) = Trips!Cash(Trips!Max(F))
      OBVIOUS
    <3>1. \E x \in F : \A y \in F : y <= x
      BY <2>3, Greatest
    <3>2. \E x \in F : \A y \in F : x >= y
      BY <2>3, <3>1
    <3>3. PICK x : x = Trips!Max(F)
      OBVIOUS
    <3>4. x \in F /\ \A y \in F : x >= y
      BY <3>2, <3>3 DEF Trips!Max
    <3>5. x \in F /\ \A y \in F : y <= x
      BY <2>3, <3>4
    <3>6. Trips!Cash(x) = CashTo(orders, x)
      BY TripsLoops DEF Trips!Cash, CashTo
    <3> QED BY <2>2, <3>3, <3>5, <3>6
  <2> QED BY <2>2, <2>4, <2>5, TripsLoops, Zenon DEF Trips!TripsConserve
<1>3. Trips!BackfillWhole
  <2> SUFFICES ASSUME good > 0, NEW m \in Trips!Moments
               PROVE  \/ Trips!Written("script", m) = Trips!TripsAt(m, good)
                      \/ Trips!Written("script", m) = 0 /\ Trips!Written("live", m) > 0
    BY DEF Trips!BackfillWhole
  <2>1. good \in 0..Len(orders)
    BY <1>1 DEF JournalInv, ScriptInv
  <2>2. Level(m, Among(closes, Closed("script", m)), <<>>,
              Among(closes, Closed("live", m)), TripsUpTo(orders, good))
    BY DEF JournalInv, ScriptInv
  <2>3. Among(closes, Closed("script", m)) \in Nat
    BY <1>1, AmongType
  <2>4. Among(<<>>, Leaving(m)) = 0
    BY AmongNone
  <2>5. /\ Trips!Written("script", m) = Among(closes, Closed("script", m))
        /\ Trips!Written("live", m) = Among(closes, Closed("live", m))
        /\ Trips!TripsAt(m, good) = Among(TripsUpTo(orders, good), Leaving(m))
    BY <2>1, CountsAre DEF JournalInv
  <2> QED BY <2>2, <2>3, <2>4, <2>5 DEF Level
<1> QED BY <1>2, <1>3 DEF JournalInv, JournalType

\* What one write, one deletion and one comparison do to the counts.
LEMMA CloseCounts ==
    ASSUME JournalType, NEW e \in Trips!Close, NEW who, NEW m
    PROVE  /\ Among(Append(closes, e), Closed(who, m))
                = Among(closes, Closed(who, m)) + (IF e.by = who /\ e.minute = m THEN 1 ELSE 0)
           /\ Among(closes, Closed(who, m)) \in Nat
           /\ Append(closes, e) \in Seq(Trips!Close)
<1>1. closes \in Seq(Trips!Close)
  BY DEF JournalType, Trips!TypeOK
<1>2. e \in Closed(who, m) <=> e.by = who /\ e.minute = m
  BY DEF Closed
<1> QED BY <1>1, <1>2, AmongMore, AmongType

LEMMA ClearCounts ==
    ASSUME JournalType, NEW q, q = Trips!Kept(closes, {e \in Trips!Close : e.by = "live"}), NEW m
    PROVE  /\ q \in Seq(Trips!Close)
           /\ Among(q, Closed("live", m)) = Among(closes, Closed("live", m))
           /\ Among(q, Closed("script", m)) = 0
<1>1. closes \in Seq(Trips!Close)
  BY DEF JournalType, Trips!TypeOK
<1> DEFINE S == {e \in Trips!Close : e.by = "live"}
<1>2. q = Kept(closes, S)
  BY TripsLoops
<1>3. S \cap Closed("live", m) = Closed("live", m) /\ S \cap Closed("script", m) = {}
  BY DEF Closed
<1>4. Trips!Close \cap S \subseteq Trips!Close
  OBVIOUS
<1> HIDE DEF S
<1>5. q \in Seq(Trips!Close \cap S)
  BY <1>1, <1>2, KeptType
<1>6. q \in Seq(Trips!Close)
  BY <1>4, <1>5
<1>7. \A R : Among(q, R) = Among(closes, S \cap R)
  BY <1>1, <1>2, AmongKept
<1>8. Among(closes, {}) = 0
  <2>1. {i \in DOMAIN closes : closes[i] \in {}} = {}
    OBVIOUS
  <2> QED BY <2>1, FS_EmptySet DEF Among
<1> QED BY <1>3, <1>6, <1>7, <1>8

LEMMA CompareCounts ==
    ASSUME JournalType, NEW lives,
           lives = {closes[i].minute : i \in {i \in DOMAIN closes : closes[i].by = "live"}},
           NEW q, q = Trips!Kept(script.trips, {t \in Trips!Trip : t.minute \notin lives}),
           NEW m \in Trips!Moments
    PROVE  /\ q \in Seq(Trips!Trip)
           /\ m \in lives => Among(q, Leaving(m)) = 0 /\ Among(closes, Closed("live", m)) > 0
           /\ m \notin lives => Among(q, Leaving(m)) = Among(script.trips, Leaving(m))
<1>1. closes \in Seq(Trips!Close) /\ script.trips \in Seq(Trips!Trip)
  BY DEF JournalType, Trips!TypeOK
<1>s. PICK ts : ts = script.trips
  OBVIOUS
<1> DEFINE S == {t \in Trips!Trip : t.minute \notin lives}
<1>2. ts \in Seq(Trips!Trip) /\ q = Kept(ts, S)
  BY <1>1, <1>s, TripsLoops
<1>3. /\ m \in lives => S \cap Leaving(m) = {}
      /\ m \notin lives => S \cap Leaving(m) = Leaving(m)
  BY DEF Leaving
<1>4. Trips!Trip \cap S \subseteq Trips!Trip
  OBVIOUS
<1> HIDE DEF S
<1>5. q \in Seq(Trips!Trip \cap S)
  BY <1>2, KeptType
<1>6. q \in Seq(Trips!Trip)
  BY <1>4, <1>5
<1>7. \A R : Among(q, R) = Among(ts, S \cap R)
  BY <1>2, AmongKept
<1>8. Among(ts, {}) = 0
  <2>1. {i \in DOMAIN ts : ts[i] \in {}} = {}
    OBVIOUS
  <2> QED BY <2>1, FS_EmptySet DEF Among
<1>9. m \in lives => Among(closes, Closed("live", m)) > 0
  <2> SUFFICES ASSUME m \in lives PROVE Among(closes, Closed("live", m)) > 0
    OBVIOUS
  <2>1. PICK i \in DOMAIN closes : closes[i].by = "live" /\ closes[i].minute = m
    OBVIOUS
  <2>2. closes[i] \in Closed("live", m)
    BY <1>1, <2>1 DEF Closed
  <2> DEFINE A == {j \in DOMAIN closes : closes[j] \in Closed("live", m)}
  <2>3. i \in A
    BY <2>2
  <2>4. DOMAIN closes = 1..Len(closes) /\ Len(closes) \in Int
    BY <1>1
  <2>5. IsFiniteSet(DOMAIN closes)
    BY <2>4, FS_Interval
  <2>6. IsFiniteSet(A)
    BY <2>5, FS_Subset
  <2> HIDE DEF A
  <2>7. Cardinality(A) # 0 /\ Cardinality(A) \in Nat
    BY <2>3, <2>6, FS_EmptySet, FS_CardinalityType
  <2> QED BY <2>7 DEF Among, A
<1> QED BY <1>3, <1>6, <1>7, <1>8, <1>9, <1>s

LEMMA HeldType == JournalType => Trips!Held \in Int
<1> SUFFICES ASSUME JournalType PROVE Trips!Held \in Int
  OBVIOUS
<1>1. orders \in Seq(Trips!Order)
  BY DEF JournalType, Trips!TypeOK
<1>2. PICK f : f = [i \in DOMAIN orders |-> Trips!Signed(orders[i])]
  OBVIOUS
<1>3. Len(orders) \in Nat /\ \A i \in 1..Len(orders) : f[i] \in Int
  <2>1. DOMAIN orders = 1..Len(orders) /\ Len(orders) \in Nat
    BY <1>1
  <2>2. \A i \in 1..Len(orders) : orders[i] \in Trips!Order
    BY <1>1
  <2> QED BY <1>2, <2>1, <2>2, OrderFacts
<1>4. SumTo(f, Len(orders)) \in Int
  BY <1>3, SumType
<1> QED BY <1>2, <1>4, TripsLoops DEF Trips!Held

\* More orders change no trip of the earlier ones.
LEMMA TripsStay ==
    ASSUME NEW os \in Seq(Trips!Order), NEW f \in Trips!Order, NEW n \in 0..Len(os)
    PROVE  TripsUpTo(Append(os, f), n) = TripsUpTo(os, n)
BY PrefixStays DEF TripsUpTo

LEMMA JournalStart == Trips!Init => JournalInv
<1> SUFFICES ASSUME Trips!Init PROVE JournalInv
  OBVIOUS
<1>1. MaxMinute \in Nat \ {0} /\ MaxFills \in Nat /\ MaxBackfills \in Nat
  BY PartsAssumption DEF Trips!JournalAssumption
<1>2. /\ orders = <<>> /\ synced = 0 /\ closes = <<>> /\ now = 1 /\ backfills = 0 /\ good = 0
      /\ script = [at |-> "idle", trips |-> <<>>, read |-> 0]
  BY DEF Trips!Init, Trips!Idle
<1>3. Len(orders) = 0
  BY <1>2
<1>4. Trips!TypeOK
  BY <1>1, <1>2, <1>3, EmptySeq DEF Trips!TypeOK, Trips!Moments
<1>5. ScriptInv
  BY <1>2, <1>3 DEF ScriptInv
<1> QED BY <1>4, <1>5 DEF JournalInv, JournalType

\* The script's record, field by field.
LEMMA ScriptIs ==
    ASSUME JournalType
    PROVE  /\ orders \in Seq(Trips!Order) /\ closes \in Seq(Trips!Close) /\ now \in Trips!Moments
           /\ script.trips \in Seq(Trips!Trip) /\ script.read \in Nat /\ script.read <= MaxFills
           /\ good \in Nat /\ good <= MaxFills /\ Len(orders) \in Nat
           /\ Len(orders) <= MaxFills /\ MaxFills \in Nat
<1>1. MaxFills \in Nat
  BY PartsAssumption DEF Trips!JournalAssumption
<1> QED BY <1>1 DEF JournalType, Trips!TypeOK

LEMMA OrderKeeps ==
    ASSUME JournalInv, NEW side \in {"buy", "sell"}, NEW n \in Shares, NEW whole \in BOOLEAN,
           Trips!OrderCloses([side |-> side, shares |-> n, price |-> Tape[now],
                              minute |-> now, filled |-> whole])
    PROVE  JournalInv'
<1> DEFINE f == [side |-> side, shares |-> n, price |-> Tape[now], minute |-> now,
                 filled |-> whole]
<1>1. /\ Len(orders) < MaxFills /\ orders' = Append(orders, f)
      /\ UNCHANGED <<synced, closes, now, script, backfills, good>>
  BY DEF Trips!OrderCloses
<1>2. f \in Trips!Order
  <2>1. now \in Trips!Moments /\ Tape \in [Trips!Moments -> Nat \ {0}]
    BY ScriptIs, PartsAssumption DEF JournalInv, Trips!JournalAssumption, Trips!Moments
  <2>2. Tape[now] \in Nat \ {0}
    BY <2>1
  <2> QED BY <2>1, <2>2 DEF Trips!Order
<1> HIDE DEF f
<1>3. JournalType /\ ScriptInv
  BY DEF JournalInv
<1>4. orders' \in Seq(Trips!Order) /\ Len(orders') = Len(orders) + 1 /\ Len(orders') <= MaxFills
  BY <1>1, <1>2, <1>3, ScriptIs
<1>5. JournalType'
  BY <1>1, <1>3, <1>4 DEF JournalType, Trips!TypeOK, Trips!Moments
<1>6. /\ TripsUpTo(orders', script.read) = TripsUpTo(orders, script.read)
      /\ TripsUpTo(orders', good) = TripsUpTo(orders, good)
  <2>1. script.read \in 0..Len(orders) /\ good \in 0..Len(orders)
    BY <1>3, ScriptIs DEF ScriptInv
  <2> QED BY <1>1, <1>2, <1>3, <2>1, ScriptIs, TripsStay
<1>7. script.read <= Len(orders') /\ good <= Len(orders')
  BY <1>3, <1>4, ScriptIs DEF ScriptInv
<1>8. ScriptInv'
  BY <1>1, <1>3, <1>6, <1>7 DEF ScriptInv
<1> QED BY <1>5, <1>8 DEF JournalInv

LEMMA PassesKeeps == JournalInv /\ Trips!Passes => JournalInv'
<1> SUFFICES ASSUME JournalInv, Trips!Passes PROVE JournalInv'
  OBVIOUS
<1>1. /\ now < MaxMinute /\ now' = now + 1
      /\ UNCHANGED <<orders, synced, closes, script, backfills, good>>
  BY DEF Trips!Passes
<1>2. now' \in Trips!Moments
  <2>1. MaxMinute \in Nat
    BY PartsAssumption DEF Trips!JournalAssumption
  <2> QED BY <1>1, <2>1, ScriptIs DEF JournalInv, Trips!Moments
<1>3. JournalType'
  BY <1>1, <1>2 DEF JournalInv, JournalType, Trips!TypeOK, Trips!Moments
<1>4. ScriptInv'
  BY <1>1 DEF JournalInv, ScriptInv
<1> QED BY <1>3, <1>4 DEF JournalInv

LEMMA SyncKeeps == JournalInv /\ Trips!Sync => JournalInv'
<1> SUFFICES ASSUME JournalInv, Trips!Sync PROVE JournalInv'
  OBVIOUS
<1> DEFINE e == [by |-> "live", minute |-> now]
<1>1. /\ synced' = Trips!Held /\ UNCHANGED <<orders, now, script, backfills, good>>
      /\ closes' = closes \/ closes' = Append(closes, e)
  BY DEF Trips!Sync
<1>2. JournalType /\ ScriptInv
  BY DEF JournalInv
<1>3. e \in Trips!Close /\ e.by = "live"
  BY <1>2, ScriptIs DEF Trips!Close
<1> HIDE DEF e
<1>4. closes' \in Seq(Trips!Close)
  BY <1>1, <1>2, <1>3, ScriptIs, AppendProperties
<1>5. Trips!Held \in Int
  BY <1>2, HeldType
<1>6. JournalType'
  BY <1>1, <1>2, <1>4, <1>5 DEF JournalType, Trips!TypeOK, Trips!Moments
<1>7. \A m : /\ Among(closes', Closed("script", m)) = Among(closes, Closed("script", m))
             /\ Among(closes, Closed("live", m)) > 0 => Among(closes', Closed("live", m)) > 0
  <2> TAKE m
  <2>1. CASE closes' = closes
    BY <2>1
  <2>2. CASE closes' = Append(closes, e)
    BY <1>2, <1>3, <2>2, CloseCounts
  <2> QED BY <1>1, <2>1, <2>2
<1>8. \A m, ts, ws : Level(m, 0, ts, Among(closes, Closed("live", m)), ws) =>
                     Level(m, 0, ts, Among(closes', Closed("live", m)), ws)
  BY <1>7 DEF Level
<1>9. \A m, ts, ws :
          Level(m, Among(closes, Closed("script", m)), ts, Among(closes, Closed("live", m)), ws)
          => Level(m, Among(closes', Closed("script", m)), ts,
                   Among(closes', Closed("live", m)), ws)
  BY <1>7, Zenon DEF Level
<1>10. ScriptInv'
  BY <1>1, <1>2, <1>8, <1>9 DEF ScriptInv
<1> QED BY <1>6, <1>10 DEF JournalInv

LEMMA ReadKeeps == JournalInv /\ Trips!Read => JournalInv'
<1> SUFFICES ASSUME JournalInv, Trips!Read PROVE JournalInv'
  OBVIOUS
<1>1. /\ backfills < MaxBackfills /\ backfills' = backfills + 1 /\ good' = 0
      /\ script' = [at |-> "read", trips |-> Trips!Trips(orders), read |-> Len(orders)]
      /\ UNCHANGED <<orders, synced, closes, now>>
  BY DEF Trips!Read
<1>2. JournalType /\ ScriptInv
  BY DEF JournalInv
<1>3. /\ script'.at = "read" /\ script'.trips = Trips!Trips(orders)
      /\ script'.read = Len(orders)
  BY <1>1
<1>4. TripsUpTo(orders, Len(orders)) = Trips!Trips(orders)
  BY <1>2, ScriptIs, SubSeqFull DEF TripsUpTo
<1>5. Trips!Trips(orders) \in Seq(Trips!Trip)
  <2>1. Len(orders) \in 0..Len(orders)
    BY <1>2, ScriptIs
  <2> QED BY <1>2, <1>4, <2>1, ScriptIs, TripsType
<1>6. backfills' \in 0..MaxBackfills /\ 0 \in 0..MaxFills /\ Len(orders) \in 0..MaxFills
  <2>1. MaxBackfills \in Nat
    BY PartsAssumption DEF Trips!JournalAssumption
  <2>2. backfills \in 0..MaxBackfills
    BY <1>2 DEF JournalType, Trips!TypeOK
  <2> QED BY <1>1, <1>2, <2>1, <2>2, ScriptIs
<1>7. JournalType'
  BY <1>1, <1>2, <1>3, <1>5, <1>6 DEF JournalType, Trips!TypeOK, Trips!Moments
<1>8. ScriptInv'
  BY <1>1, <1>2, <1>3, <1>4, ScriptIs DEF ScriptInv
<1> QED BY <1>7, <1>8 DEF JournalInv

LEMMA CompareKeeps == JournalInv /\ Trips!Compare => JournalInv'
<1> SUFFICES ASSUME JournalInv, Trips!Compare PROVE JournalInv'
  OBVIOUS
<1>1. PICK lives, q :
          /\ lives = {closes[i].minute : i \in {i \in DOMAIN closes : closes[i].by = "live"}}
          /\ q = Trips!Kept(script.trips, {t \in Trips!Trip : t.minute \notin lives})
  OBVIOUS
<1>2. /\ script.at = "read" /\ script' = [script EXCEPT !.at = "compared", !.trips = q]
      /\ UNCHANGED <<orders, synced, closes, now, backfills, good>>
  BY <1>1 DEF Trips!Compare
<1>3. JournalType /\ ScriptInv /\ script.trips = TripsUpTo(orders, script.read)
  BY <1>2 DEF JournalInv, ScriptInv
<1>4. /\ script'.at = "compared" /\ script'.trips = q /\ script'.read = script.read
  BY <1>2, <1>3 DEF JournalType, Trips!TypeOK
<1>5. q \in Seq(Trips!Trip)
  <2>1. 1 \in Trips!Moments
    BY PartsAssumption DEF Trips!JournalAssumption, Trips!Moments
  <2> QED BY <1>1, <1>3, <2>1, CompareCounts
<1>6. JournalType'
  BY <1>2, <1>3, <1>5 DEF JournalType, Trips!TypeOK, Trips!Moments
<1>7. ASSUME NEW m \in Trips!Moments
      PROVE  Level(m, 0, q, Among(closes, Closed("live", m)), TripsUpTo(orders, script.read))
  <2>1. /\ m \in lives => Among(q, Leaving(m)) = 0 /\ Among(closes, Closed("live", m)) > 0
        /\ m \notin lives => Among(q, Leaving(m)) = Among(script.trips, Leaving(m))
    BY <1>1, <1>3, CompareCounts
  <2>2. Among(script.trips, Leaving(m)) \in Nat
    BY <1>3, ScriptIs, AmongType
  <2> QED BY <1>3, <2>1, <2>2 DEF Level
<1>8. ScriptInv'
  BY <1>2, <1>3, <1>4, <1>7 DEF ScriptInv, Trips!Moments
<1> QED BY <1>6, <1>8 DEF JournalInv

LEMMA ClearKeeps == JournalInv /\ Trips!Clear => JournalInv'
<1> SUFFICES ASSUME JournalInv, Trips!Clear PROVE JournalInv'
  OBVIOUS
<1>1. PICK q : q = Trips!Kept(closes, {e \in Trips!Close : e.by = "live"})
  OBVIOUS
<1>2. /\ script.at = "compared" /\ script' = [script EXCEPT !.at = "emit"] /\ closes' = q
      /\ UNCHANGED <<orders, synced, now, backfills, good>>
  BY <1>1 DEF Trips!Clear
<1>3. JournalType /\ ScriptInv
  BY DEF JournalInv
<1>4. /\ script'.at = "emit" /\ script'.trips = script.trips /\ script'.read = script.read
  BY <1>2, <1>3 DEF JournalType, Trips!TypeOK
<1>5. \A m : /\ q \in Seq(Trips!Close)
             /\ Among(q, Closed("live", m)) = Among(closes, Closed("live", m))
             /\ Among(q, Closed("script", m)) = 0
  BY <1>1, <1>3, ClearCounts
<1>6. JournalType'
  BY <1>2, <1>3, <1>5 DEF JournalType, Trips!TypeOK, Trips!Moments
<1>7. ASSUME NEW m \in Trips!Moments
      PROVE  Level(m, Among(q, Closed("script", m)), script.trips,
                   Among(q, Closed("live", m)), TripsUpTo(orders, script.read))
  <2>1. Level(m, 0, script.trips, Among(closes, Closed("live", m)),
              TripsUpTo(orders, script.read))
    BY <1>2, <1>3 DEF ScriptInv
  <2> QED BY <1>5, <2>1
<1>8. ScriptInv'
  BY <1>2, <1>3, <1>4, <1>7 DEF ScriptInv, Trips!Moments
<1> QED BY <1>6, <1>8 DEF JournalInv

LEMMA WriteKeeps == JournalInv /\ Trips!Write => JournalInv'
<1> SUFFICES ASSUME JournalInv, Trips!Write PROVE JournalInv'
  OBVIOUS
<1>1. PICK ts, e : ts = script.trips /\ e = [by |-> "script", minute |-> Head(ts).minute]
  OBVIOUS
<1>2. /\ script.at = "emit" /\ ts # <<>> /\ closes' = Append(closes, e)
      /\ script' = [script EXCEPT !.trips = Tail(ts)]
      /\ UNCHANGED <<orders, synced, now, backfills, good>>
  BY <1>1 DEF Trips!Write
<1>3. JournalType /\ ScriptInv /\ ts \in Seq(Trips!Trip)
  BY <1>1, ScriptIs DEF JournalInv
<1>4. /\ script'.at = "emit" /\ script'.trips = Tail(ts) /\ script'.read = script.read
  BY <1>2, <1>3 DEF JournalType, Trips!TypeOK
<1>5. Head(ts) \in Trips!Trip /\ Tail(ts) \in Seq(Trips!Trip)
  BY <1>2, <1>3
<1>6. e \in Trips!Close /\ e.by = "script" /\ e.minute = Head(ts).minute
  BY <1>1, <1>5 DEF Trips!Close, Trips!Trip
<1>7. closes' \in Seq(Trips!Close)
  BY <1>2, <1>3, <1>6, CloseCounts
<1>8. JournalType'
  BY <1>2, <1>3, <1>5, <1>7 DEF JournalType, Trips!TypeOK, Trips!Moments
<1>9. ASSUME NEW m \in Trips!Moments
      PROVE  Level(m, Among(closes', Closed("script", m)), Tail(ts),
                   Among(closes', Closed("live", m)), TripsUpTo(orders, script.read))
  <2>1. Level(m, Among(closes, Closed("script", m)), ts, Among(closes, Closed("live", m)),
              TripsUpTo(orders, script.read))
    BY <1>1, <1>2, <1>3 DEF ScriptInv
  <2>2. /\ Among(closes', Closed("script", m))
             = Among(closes, Closed("script", m)) + (IF Head(ts).minute = m THEN 1 ELSE 0)
        /\ Among(closes, Closed("script", m)) \in Nat
        /\ Among(closes', Closed("live", m)) = Among(closes, Closed("live", m))
    BY <1>2, <1>3, <1>6, CloseCounts
  <2>3. Head(ts) \in Leaving(m) <=> Head(ts).minute = m
    BY <1>5 DEF Leaving
  <2>4. Among(ts, Leaving(m)) = Among(Tail(ts), Leaving(m)) + (IF Head(ts).minute = m THEN 1 ELSE 0)
    BY <1>2, <1>3, <2>3, AmongTail
  <2>5. Among(Tail(ts), Leaving(m)) \in Nat
    BY <1>5, AmongType
  <2>6. Among(closes', Closed("script", m)) + Among(Tail(ts), Leaving(m))
          = Among(closes, Closed("script", m)) + Among(ts, Leaving(m))
    BY <2>2, <2>4, <2>5
  <2> QED BY <2>1, <2>2, <2>6 DEF Level
<1>10. ScriptInv'
  BY <1>2, <1>3, <1>4, <1>9 DEF ScriptInv, Trips!Moments
<1> QED BY <1>8, <1>10 DEF JournalInv

LEMMA FinishKeeps == JournalInv /\ Trips!Finish => JournalInv'
<1> SUFFICES ASSUME JournalInv, Trips!Finish PROVE JournalInv'
  OBVIOUS
<1>1. /\ script.at = "emit" /\ script.trips = <<>> /\ good' = script.read
      /\ script' = [at |-> "idle", trips |-> <<>>, read |-> 0]
      /\ UNCHANGED <<orders, synced, closes, now, backfills>>
  BY DEF Trips!Finish, Trips!Idle
<1>2. JournalType /\ ScriptInv
  BY DEF JournalInv
<1>m. MaxFills \in Nat
  BY <1>2, ScriptIs
<1>3. JournalType'
  BY <1>1, <1>2, <1>m, EmptySeq DEF JournalType, Trips!TypeOK, Trips!Moments
<1>4. script'.at = "idle" /\ script'.read = 0
  BY <1>1
<1>5. ScriptInv'
  BY <1>1, <1>2, <1>4, ScriptIs DEF ScriptInv, Trips!Moments
<1> QED BY <1>3, <1>5 DEF JournalInv

LEMMA DiesKeeps == JournalInv /\ Trips!ScriptDies => JournalInv'
<1> SUFFICES ASSUME JournalInv, Trips!ScriptDies PROVE JournalInv'
  OBVIOUS
<1>1. /\ script.at # "idle" /\ script' = [at |-> "idle", trips |-> <<>>, read |-> 0]
      /\ UNCHANGED <<orders, synced, closes, now, backfills, good>>
  BY DEF Trips!ScriptDies, Trips!Idle
<1>2. JournalType /\ ScriptInv
  BY DEF JournalInv
<1>3. MaxFills \in Nat
  BY <1>2, ScriptIs
<1>4. JournalType'
  BY <1>1, <1>2, <1>3, EmptySeq DEF JournalType, Trips!TypeOK, Trips!Moments
<1>5. script'.at = "idle" /\ script'.read = 0
  BY <1>1
<1>6. ScriptInv'
  BY <1>1, <1>2, <1>5, ScriptIs DEF ScriptInv, Trips!Moments
<1> QED BY <1>4, <1>6 DEF JournalInv

LEMMA JournalStep == JournalInv /\ [RulesNext]_<<part, exitVars, tape, journalVars>> => JournalInv'
<1> SUFFICES ASSUME JournalInv, [RulesNext]_<<part, exitVars, tape, journalVars>>
             PROVE  JournalInv'
  OBVIOUS
<1>1. CASE UNCHANGED journalVars
  <2>1. UNCHANGED <<orders, synced, closes, now, script, backfills, good>>
    BY <1>1 DEF journalVars
  <2> QED BY <2>1 DEF JournalInv, JournalType, Trips!TypeOK, Trips!Moments, ScriptInv
<1>2. CASE Trips!Next
  BY <1>2, OrderKeeps, PassesKeeps, SyncKeeps, ReadKeeps, CompareKeeps, ClearKeeps, WriteKeeps,
     FinishKeeps, DiesKeeps DEF Trips!Next
<1>3. UNCHANGED journalVars \/ Trips!Next
  BY DEF RulesNext
<1> QED BY <1>1, <1>2, <1>3

\* The backfill's trips account for every share and dollar, however the orders fell; and a
\* backfill that ended left one close per trip, or the live sync's, however earlier ones ended.
THEOREM TripsAccounted == RulesSpec => []TripsWhole
<1>1. RulesInit => JournalInv
  BY JournalStart DEF RulesInit
<1>2. JournalInv /\ [RulesNext]_<<part, exitVars, tape, journalVars>> => JournalInv'
  BY JournalStep
<1>3. JournalInv => TripsWhole
  BY JournalWhole DEF TripsWhole
<1> QED BY <1>1, <1>2, <1>3, PTL DEF RulesSpec

-----------------------------------------------------------------------------
(* The backtest: one trade at a time *)

\* The filter and the least and greatest of the entry rules.
LEMMA EntriesLoops ==
    /\ \A s, S : Entries!Kept(s, S) = Kept(s, S)
    /\ \A S : Entries!Cardinality(S) = Cardinality(S)
<1>1. \A s, S : Entries!Kept(s, S) = Kept(s, S)
  BY Zenon DEF Entries!Kept, Kept
<1>2. \A S : Entries!Cardinality(S) = Cardinality(S)
  BY Zenon DEF Entries!Cardinality, Cardinality
<1> QED BY <1>1, <1>2

LEMMA MaxIs ==
    ASSUME NEW S, NEW x \in S, \A y \in S : x >= y
    PROVE  Entries!Max(S) \in S /\ \A y \in S : Entries!Max(S) >= y
BY DEF Entries!Max

LEMMA MinIs ==
    ASSUME NEW S \in SUBSET Nat, S # {}
    PROVE  Entries!Min(S) \in S /\ \A y \in S : Entries!Min(S) <= y
<1>1. \E x \in S : \A y \in S : x <= y
  BY LeastNatural
<1> QED BY <1>1 DEF Entries!Min

LEMMA RestedOne ==
    ASSUME NEW t, NEW best
    PROVE  \A a, b \in Entries!Rested(t, best) : a = b /\ a.type = "continuation_fallback"
BY DEF Entries!Rested, Entries!Setup

\* Each detector finds one setup at most, of its type.
LEMMA DetectorsOne ==
    ASSUME NEW t
    PROVE  /\ \A a, b \in Entries!OrbBreak(t) : a = b
           /\ \A a, b \in Entries!BullFlag(t) : a = b /\ a.type = "bull_flag"
           /\ \A a, b \in Entries!FirstPullback(t) : a = b /\ a.type = "first_pullback"
           /\ \A a, b \in Entries!GapAndGo(t) : a = b /\ a.type = "gap_and_go"
           /\ \A a, b \in Entries!HodBreak(t) : a = b /\ a.type = "hod_break"
           /\ \A a, b \in Entries!Continuation(t) : a = b /\ a.type = "continuation_fallback"
<1>1. \A a, b \in Entries!OrbBreak(t) : a = b
  BY DEF Entries!OrbBreak
<1>2. \A a, b \in Entries!BullFlag(t) : a = b /\ a.type = "bull_flag"
  BY DEF Entries!BullFlag, Entries!Setup
<1>3. \A a, b \in Entries!FirstPullback(t) : a = b /\ a.type = "first_pullback"
  BY DEF Entries!FirstPullback, Entries!Setup
<1>4. \A a, b \in Entries!GapAndGo(t) : a = b /\ a.type = "gap_and_go"
  BY DEF Entries!GapAndGo, Entries!Setup
<1>5. \A a, b \in Entries!HodBreak(t) : a = b /\ a.type = "hod_break"
  BY DEF Entries!HodBreak, Entries!Setup
<1>6. \A a, b \in Entries!Continuation(t) : a = b /\ a.type = "continuation_fallback"
  BY RestedOne, Zenon DEF Entries!Continuation
<1> QED BY <1>1, <1>2, <1>3, <1>4, <1>5, <1>6

\* The best of them is one.
LEMMA ClassifyOne ==
    ASSUME NEW t, NEW enabled,
           NEW a \in Entries!Classify(t, enabled), NEW b \in Entries!Classify(t, enabled)
    PROVE  a = b
<1> DEFINE fits(s) == s.quality >= 200 /\ (enabled = {} \/ s.type \in enabled)
           early == {s \in Entries!OrbBreak(t) : fits(s)}
           rest == {s \in Entries!BullFlag(t) \cup Entries!FirstPullback(t)
                            \cup Entries!GapAndGo(t) \cup Entries!HodBreak(t)
                            \cup Entries!Continuation(t) : fits(s)}
           order == <<"bull_flag", "first_pullback", "gap_and_go", "hod_break",
                      "continuation_fallback">>
           place(s) == CHOOSE i \in DOMAIN order : order[i] = s.type
           best == {s \in rest : \A r \in rest : r.quality <= s.quality}
           first == {s \in best : \A r \in best : place(s) <= place(r)}
<1>1. Entries!Classify(t, enabled) = IF early # {} THEN early ELSE first
  BY Zenon DEF Entries!Classify
<1>2. CASE early # {}
  <2>1. a \in early /\ b \in early
    BY <1>1, <1>2, Zenon
  <2>2. a \in Entries!OrbBreak(t) /\ b \in Entries!OrbBreak(t)
    BY <2>1
  <2> QED BY <2>2, DetectorsOne
<1>3. CASE early = {}
  <2>1. a \in first /\ b \in first
    BY <1>1, <1>3, Zenon
  <2>2. /\ a \in rest /\ b \in rest /\ a \in best /\ b \in best
        /\ place(a) <= place(b) /\ place(b) <= place(a)
    BY <2>1, Zenon
  <2> DEFINE types == {"bull_flag", "first_pullback", "gap_and_go", "hod_break",
                       "continuation_fallback"}
  <2>3. \A s \in rest : s.type \in types
    BY DetectorsOne
  <2>4. \A s : s.type \in types => place(s) \in 1..5 /\ order[place(s)] = s.type
    <3> TAKE s
    <3> HAVE s.type \in types
    <3>1. DOMAIN order = 1..5
      OBVIOUS
    <3>2. \E i \in DOMAIN order : order[i] = s.type
      <4>1. /\ order[1] = "bull_flag" /\ order[2] = "first_pullback" /\ order[3] = "gap_and_go"
            /\ order[4] = "hod_break" /\ order[5] = "continuation_fallback"
        OBVIOUS
      <4>2. 1 \in 1..5 /\ 2 \in 1..5 /\ 3 \in 1..5 /\ 4 \in 1..5 /\ 5 \in 1..5
        OBVIOUS
      <4> HIDE DEF order
      <4> QED BY <3>1, <4>1, <4>2
    <3> HIDE DEF order
    <3> QED BY <3>1, <3>2
  <2> HIDE DEF place, order
  <2>5. place(a) = place(b)
    <3>1. place(a) \in 1..5 /\ place(b) \in 1..5
      BY <2>2, <2>3, <2>4
    <3> QED BY <2>2, <3>1
  <2>6. a.type = b.type
    BY <2>2, <2>3, <2>4, <2>5
  <2>7. \A s \in rest : /\ s.type = "bull_flag" => s \in Entries!BullFlag(t)
                        /\ s.type = "first_pullback" => s \in Entries!FirstPullback(t)
                        /\ s.type = "gap_and_go" => s \in Entries!GapAndGo(t)
                        /\ s.type = "hod_break" => s \in Entries!HodBreak(t)
                        /\ s.type = "continuation_fallback" => s \in Entries!Continuation(t)
    BY DetectorsOne
  <2> HIDE DEF rest
  <2> QED BY <2>2, <2>3, <2>6, <2>7, DetectorsOne
<1> QED BY <1>2, <1>3

LEMMA EvaluateOne ==
    ASSUME NEW t, NEW x, NEW enabled, NEW a \in Entries!Evaluate(t, x, enabled).setups,
           NEW b \in Entries!Evaluate(t, x, enabled).setups
    PROVE  a = b
<1>1. \/ Entries!Evaluate(t, x, enabled).setups = {}
      \/ Entries!Evaluate(t, x, enabled).setups = Entries!Classify(t, enabled)
  <2> HIDE DEF Entries!Classify
  <2> QED BY Zenon DEF Entries!Evaluate
<1> QED BY <1>1, ClassifyOne

\* A trade ends after its entry, or at the last bar.
LEMMA ExitAfter ==
    ASSUME NEW t \in Seq(Shapes), NEW i \in Nat, NEW stop, NEW target
    PROVE  LET exit == Entries!ExitBar(t, i, stop, target)
           IN  exit \in Nat /\ ((exit > i /\ exit <= Len(t)) \/ exit = Len(t))
<1> DEFINE ends == {j \in i + 1 .. Len(t) : t[j].low * 1000 <= stop \/ t[j].high * 1000 >= target}
<1>1. Len(t) \in Nat
  OBVIOUS
<1>2. ends \in SUBSET Nat /\ \A j \in ends : j > i /\ j <= Len(t)
  BY <1>1
<1>3. Entries!ExitBar(t, i, stop, target) = IF ends = {} THEN Len(t) ELSE Entries!Min(ends)
  BY Zenon DEF Entries!ExitBar
<1> HIDE DEF ends
<1>4. ends # {} => Entries!Min(ends) \in ends
  BY <1>2, MinIs
<1> QED BY <1>1, <1>2, <1>3, <1>4

\* What a signal opens: one trade, entered at the next bar, stopped below its entry.
LEMMA OpenedOne ==
    ASSUME NEW t \in Seq(Shapes), NEW x, NEW i \in 1..(Len(t) - 1), NEW a \in Entries!Opened(t, x, i)
    PROVE  /\ a.signal = i /\ a.entry = i + 1 /\ a.stop < a.price
           /\ a.exit \in Nat /\ i < a.exit
           /\ \A b \in Entries!Opened(t, x, i) : a = b
<1> DEFINE setups == Entries!Evaluate(SubSeq(t, 1, i), x, {}).setups
<1>1. \A b \in Entries!Opened(t, x, i) :
          b.stop < b.price /\ \E s \in setups : b = Entries!Trade(t, i, s)
  <2> HIDE DEF Entries!Trade
  <2> QED BY DEF Entries!Opened
<1>2. PICK s \in setups : a = Entries!Trade(t, i, s)
  BY <1>1
<1>3. \A b \in Entries!Opened(t, x, i) : a = b
  BY <1>1, <1>2, EvaluateOne
<1>4. PICK stop, target : a.exit = Entries!ExitBar(t, i + 1, stop, target)
  BY <1>2 DEF Entries!Trade
<1>5. a.signal = i /\ a.entry = i + 1
  BY <1>2 DEF Entries!Trade
<1>6. PICK N \in Nat : N = Len(t)
  OBVIOUS
<1>7. i + 1 \in Nat /\ i \in Nat /\ i < N
  BY <1>6
<1>8. a.exit \in Nat /\ (a.exit > i + 1 \/ a.exit = N)
  BY <1>4, <1>6, <1>7, ExitAfter
<1>9. i < a.exit
  BY <1>7, <1>8
<1> QED BY <1>1, <1>3, <1>5, <1>8, <1>9

\* The books of the scan: its trades are over before it resumes, one after the other.
Booked(t, x) == UNION {Entries!Opened(t, x, i) : i \in 1..(Len(t) - 1)}
Ledgers(t, x) ==
    {w \in [resume : Nat \ {0}, trades : SUBSET Booked(t, x)] :
        /\ \A a \in w.trades : a.exit < w.resume
        /\ \A a, b \in w.trades : a = b \/ a.exit < b.signal \/ b.exit < a.signal}

\* The scan's pass at bar i.
ScanAt(w, t, x, i) ==
    LET new == IF i >= w.resume /\ i < Len(t) THEN Entries!Opened(t, x, i) ELSE {}
    IN  [resume |-> Entries!Max({w.resume} \cup {trd.exit + 1 : trd \in new}),
         trades |-> w.trades \cup new]

\* What a pass makes of the books: nothing, or one trade more.
ScanDone(w, v, t, x, i) ==
    \/ /\ v.resume = w.resume /\ v.trades = w.trades
       /\ i < w.resume \/ i = Len(t) \/ Entries!Opened(t, x, i) = {}
    \/ \E a \in Booked(t, x) :
          /\ i >= w.resume /\ i < Len(t) /\ Entries!Opened(t, x, i) = {a}
          /\ a.signal = i /\ a.exit \in Nat /\ i < a.exit
          /\ v.resume = a.exit + 1 /\ v.trades = w.trades \cup {a}

LEMMA ScanPass ==
    ASSUME NEW t \in Seq(Shapes), NEW x, NEW w, w.resume \in Nat \ {0}, NEW i \in 1..Len(t)
    PROVE  ScanDone(w, ScanAt(w, t, x, i), t, x, i)
<1> DEFINE new == IF i >= w.resume /\ i < Len(t) THEN Entries!Opened(t, x, i) ELSE {}
<1>0. PICK N \in Nat : N = Len(t)
  OBVIOUS
<1>1. /\ ScanAt(w, t, x, i).resume = Entries!Max({w.resume} \cup {trd.exit + 1 : trd \in new})
      /\ ScanAt(w, t, x, i).trades = w.trades \cup new
  BY DEF ScanAt
<1>2. CASE new = {}
  <2>1. {w.resume} \cup {trd.exit + 1 : trd \in new} = {w.resume}
    BY <1>2
  <2>2. Entries!Max({w.resume}) = w.resume
    <3>1. w.resume \in {w.resume} /\ \A y \in {w.resume} : w.resume >= y
      OBVIOUS
    <3>2. Entries!Max({w.resume}) \in {w.resume}
      BY <3>1, MaxIs
    <3> QED BY <3>2
  <2>3. i < w.resume \/ i = Len(t) \/ Entries!Opened(t, x, i) = {}
    BY <1>0, <1>2
  <2> HIDE DEF new
  <2>4. w.trades \cup new = w.trades
    BY <1>2
  <2> QED BY <1>1, <2>1, <2>2, <2>3, <2>4 DEF ScanDone
<1>3. CASE new # {}
  <2>1. i >= w.resume /\ i < Len(t) /\ new = Entries!Opened(t, x, i)
    BY <1>3
  <2>2. PICK a \in Entries!Opened(t, x, i) : TRUE
    BY <1>3, <2>1
  <2>3. i \in 1..(Len(t) - 1)
    BY <1>0, <2>1
  <2>4. /\ a.signal = i /\ a.exit \in Nat /\ i < a.exit
        /\ \A b \in Entries!Opened(t, x, i) : a = b
    BY <2>2, <2>3, OpenedOne
  <2>5. new = {a} /\ Entries!Opened(t, x, i) = {a}
    BY <2>1, <2>2, <2>4
  <2>6. a \in Booked(t, x)
    BY <2>2, <2>3 DEF Booked
  <2> HIDE DEF new
  <2>7. {w.resume} \cup {trd.exit + 1 : trd \in new} = {w.resume, a.exit + 1}
    BY <2>5
  <2> DEFINE S == {w.resume, a.exit + 1}
  <2>8. a.exit + 1 \in S /\ (\A y \in S : a.exit + 1 >= y) /\ a.exit + 1 # w.resume
    BY <2>1, <2>4
  <2>9. Entries!Max(S) \in S /\ \A y \in S : Entries!Max(S) >= y
    <3> HIDE DEF S
    <3> QED BY <2>8, MaxIs
  <2>10. Entries!Max(S) = a.exit + 1
    BY <2>1, <2>4, <2>9
  <2> HIDE DEF S
  <2>11. ScanAt(w, t, x, i).resume = a.exit + 1
    BY <1>1, <2>7, <2>10, Zenon DEF S
  <2>12. ScanAt(w, t, x, i).trades = w.trades \cup {a}
    BY <1>1, <2>5, Zenon
  <2> QED BY <2>1, <2>4, <2>5, <2>6, <2>11, <2>12, Zenon DEF ScanDone
<1> QED BY <1>2, <1>3

\* Each pass leaves the books sound: the new trade starts where the others are over.
LEMMA ScanKeeps ==
    ASSUME NEW t \in Seq(Shapes), NEW x, NEW w \in Ledgers(t, x), NEW i \in 1..Len(t)
    PROVE  ScanAt(w, t, x, i) \in Ledgers(t, x)
<1>1. /\ w.resume \in Nat \ {0} /\ w.trades \subseteq Booked(t, x)
      /\ \A a \in w.trades : a.exit < w.resume
      /\ \A a, b \in w.trades : a = b \/ a.exit < b.signal \/ b.exit < a.signal
  BY DEF Ledgers
<1>2. PICK v : v = ScanAt(w, t, x, i)
  OBVIOUS
<1>3. v = [resume |-> v.resume, trades |-> v.trades]
  BY <1>2 DEF ScanAt
<1>4. CASE v.resume = w.resume /\ v.trades = w.trades
  BY <1>1, <1>2, <1>3, <1>4 DEF Ledgers
<1>5. CASE \E a \in Booked(t, x) :
              /\ i >= w.resume /\ a.signal = i /\ a.exit \in Nat /\ i < a.exit
              /\ v.resume = a.exit + 1 /\ v.trades = w.trades \cup {a}
  <2>1. PICK a \in Booked(t, x) :
              /\ i >= w.resume /\ a.signal = i /\ a.exit \in Nat /\ i < a.exit
              /\ v.resume = a.exit + 1 /\ v.trades = w.trades \cup {a}
    BY <1>5
  <2>0. \A b \in w.trades : b.exit \in Nat
    <3> TAKE b \in w.trades
    <3>1. PICK j \in 1..(Len(t) - 1) : b \in Entries!Opened(t, x, j)
      BY <1>1 DEF Booked
    <3> QED BY <3>1, OpenedOne
  <2>2. \A b \in w.trades : b.exit < a.signal /\ b.exit < v.resume
    BY <1>1, <2>0, <2>1
  <2>3. \A b \in v.trades : b.exit < v.resume
    BY <2>1, <2>2
  <2>4. \A b, c \in v.trades : b = c \/ b.exit < c.signal \/ c.exit < b.signal
    <3> TAKE b, c \in v.trades
    <3>1. (b \in w.trades \/ b = a) /\ (c \in w.trades \/ c = a)
      BY <2>1
    <3> QED BY <1>1, <2>2, <3>1
  <2>5. v.resume \in Nat \ {0} /\ v.trades \subseteq Booked(t, x)
    BY <1>1, <2>1
  <2> QED BY <1>2, <1>3, <2>3, <2>4, <2>5 DEF Ledgers
<1>6. w.resume \in Nat \ {0}
  BY <1>1
<1>7. \/ v.resume = w.resume /\ v.trades = w.trades
      \/ \E a \in Booked(t, x) :
              /\ i >= w.resume /\ a.signal = i /\ a.exit \in Nat /\ i < a.exit
              /\ v.resume = a.exit + 1 /\ v.trades = w.trades \cup {a}
  <2>1. ScanDone(w, v, t, x, i)
    BY <1>2, <1>6, ScanPass
  <2> QED BY <2>1 DEF ScanDone
<1> QED BY <1>4, <1>5, <1>7

\* The scan along a tape.
IsScan(k, t, x) ==
    /\ k \in [0..Len(t) -> Ledgers(t, x)]
    /\ k[0] = [resume |-> K.scan, trades |-> {}] /\ Entries!Trades(t, x) = k[Len(t)].trades
    /\ \A i \in 1..Len(t) : k[i] = ScanAt(k[i - 1], t, x, i)

LEMMA ScanWalk ==
    ASSUME NEW t \in Seq(Shapes), NEW x
    PROVE  \E k : IsScan(k, t, x)
<1> DEFINE V == Ledgers(t, x)
           start == [resume |-> K.scan, trades |-> {}]
           After(w, i) == ScanAt(w, t, x, i)
<1>1. PICK N \in Nat : N = Len(t)
  OBVIOUS
<1>3. start \in V
  <2>1. K.scan \in Nat \ {0}
    BY PartsAssumption DEF Entries!LabelerAssumption, Entries!ShadowAssumption,
                           Entries!SetupAssumption
  <2> QED BY <2>1 DEF Ledgers
<1>4. ASSUME NEW w \in V, NEW i \in 1..N PROVE After(w, i) \in V
  BY <1>1, ScanKeeps
<1> DEFINE step == [p \in V \X (1..N) |-> After(p[1], p[2])]
<1> HIDE DEF V, After
<1>5. step \in [V \X (1..N) -> V]
  BY <1>4
<1>6. \A w \in V, i \in 1..N : step[<<w, i>>] = After(w, i)
  OBVIOUS
<1> HIDE DEF step, start
<1>w. PICK f : IsWalk(f, N, V, start, step)
  BY <1>3, <1>5, Recursion
<1>7. f \in [0..N -> V] /\ f[0] = start /\ \A i \in 1..N : f[i] = step[<<f[i - 1], i>>]
  BY <1>w DEF IsWalk
<1>8. f = [i \in 0..N |-> IF i = 0 THEN start ELSE After(f[i - 1], i)]
  <2>1. \A i \in 0..N : i # 0 => i - 1 \in 0..N /\ i \in 1..N
    OBVIOUS
  <2>2. \A i \in 0..N : f[i] = IF i = 0 THEN start ELSE After(f[i - 1], i)
    BY <1>6, <1>7, <2>1
  <2> QED BY <1>7, <2>2
<1>9. PICK g : /\ g = [i \in 0..N |-> IF i = 0 THEN start ELSE After(g[i - 1], i)]
               /\ Entries!Trades(t, x) = g[N].trades
  BY <1>1, <1>8, Zenon DEF Entries!Trades, start, After, ScanAt
<1>10. g[0] = start /\ \A i \in 1..N : g[i] = After(g[i - 1], i)
  <2>1. 0 \in 0..N /\ \A i \in 1..N : i \in 0..N /\ i # 0
    OBVIOUS
  <2> QED BY <1>9, <2>1
<1>13. \A i \in 0..N : g[i] \in V
  <2> PICK p : p = g
    OBVIOUS
  <2>1. p[0] \in V /\ \A i \in 1..N : p[i - 1] \in V => p[i] \in V
    BY <1>3, <1>4, <1>10
  <2>2. \A i \in 0..N : p[i] \in V
    BY <2>1, Stays
  <2> QED BY <2>2
<1>14. g = [i \in 0..N |-> g[i]]
  BY <1>9
<1>15. g \in [0..N -> V]
  BY <1>13, <1>14
<1> QED BY <1>1, <1>9, <1>10, <1>15 DEF IsScan, V, After, start

\* On every tape the backtest holds one trade at a time.
LEMMA ScanSound == ASSUME NEW t \in Seq(Shapes) PROVE Entries!OneTradeAtATime(t)
<1> SUFFICES ASSUME NEW x \in Contexts
             PROVE  /\ \A a \in Entries!Trades(t, x) : a.signal < a.entry /\ a.stop < a.price
                    /\ \A a, b \in Entries!Trades(t, x) :
                           a = b \/ a.exit < b.signal \/ b.exit < a.signal
  BY DEF Entries!OneTradeAtATime
<1>1. PICK k : IsScan(k, t, x)
  BY ScanWalk
<1>2. Len(t) \in 0..Len(t)
  OBVIOUS
<1>3. k[Len(t)] \in Ledgers(t, x) /\ Entries!Trades(t, x) = k[Len(t)].trades
  BY <1>1, <1>2 DEF IsScan
<1>4. /\ Entries!Trades(t, x) \subseteq Booked(t, x)
      /\ \A a, b \in Entries!Trades(t, x) : a = b \/ a.exit < b.signal \/ b.exit < a.signal
  BY <1>3 DEF Ledgers
<1>5. ASSUME NEW a \in Entries!Trades(t, x) PROVE a.signal < a.entry /\ a.stop < a.price
  <2>1. PICK i \in 1..(Len(t) - 1) : a \in Entries!Opened(t, x, i)
    BY <1>4 DEF Booked
  <2> QED BY <2>1, OpenedOne
<1> QED BY <1>4, <1>5


-----------------------------------------------------------------------------
(* The tape *)

\* What the assumption says of the bars and of the windows.
LEMMA BarFacts ==
    ASSUME NEW b \in Shapes
    PROVE  /\ b.open \in Nat \ {0} /\ b.high \in Nat \ {0} /\ b.low \in Nat \ {0}
           /\ b.close \in Nat \ {0} /\ b.volume \in Nat /\ b.session \in {"premarket", "regular"}
           /\ b.low <= b.open /\ b.open <= b.high /\ b.low <= b.close /\ b.close <= b.high
           /\ b.low <= b.high
<1>1. b \in [session : {"premarket", "regular"}, open : Nat, high : Nat, low : Nat \ {0},
             close : Nat, volume : Nat, wait : Nat]
  BY PartsAssumption DEF Entries!LabelerAssumption, Entries!ShadowAssumption,
                         Entries!SetupAssumption
<1>2. b.low <= b.open /\ b.open <= b.high /\ b.low <= b.close /\ b.close <= b.high
  BY PartsAssumption DEF Entries!LabelerAssumption, Entries!ShadowAssumption,
                         Entries!SetupAssumption
<1> QED BY <1>1, <1>2

LEMMA WindowFacts ==
    /\ \A f \in {"leg", "flag", "few", "search", "reach", "run", "pullback", "first", "hod",
                 "recent", "window", "fallback", "rest", "range", "full", "dead", "bars",
                 "cutoff", "grace", "lookback", "green", "burst", "swing", "curl", "fast",
                 "slow", "ahead", "warm", "room", "cooldown", "horizon", "budget", "scan",
                 "every"} : K[f] \in Nat \ {0}
    /\ K.window < K.fallback /\ K.curl >= 3 /\ K.swing >= 3
<1>1. K \in [DOMAIN K -> Nat \ {0}]
  BY PartsAssumption DEF Entries!LabelerAssumption, Entries!ShadowAssumption,
                         Entries!SetupAssumption
<1>2. {"leg", "flag", "few", "search", "reach", "run", "pullback", "first", "hod",
       "recent", "window", "fallback", "rest", "range", "full", "dead", "bars",
       "cutoff", "grace"} \subseteq DOMAIN K
  BY PartsAssumption DEF Entries!LabelerAssumption, Entries!ShadowAssumption,
                         Entries!SetupAssumption, Entries!Windows
<1>3. {"lookback", "green", "burst", "swing", "curl", "fast", "slow"} \subseteq DOMAIN K
  BY PartsAssumption DEF Entries!LabelerAssumption, Entries!ShadowAssumption
<1>4. {"ahead", "warm", "room", "cooldown", "horizon", "budget", "scan", "every"}
          \subseteq DOMAIN K
  BY PartsAssumption DEF Entries!LabelerAssumption
<1>5. K.window < K.fallback /\ K.curl >= 3 /\ K.swing >= 3
  BY PartsAssumption DEF Entries!LabelerAssumption, Entries!ShadowAssumption,
                         Entries!SetupAssumption
<1>6. \A f \in DOMAIN K : K[f] \in Nat \ {0}
  BY <1>1
<1> QED BY <1>2, <1>3, <1>4, <1>5, <1>6, Zenon

\* The bars of a session.
LEMMA InIs ==
    ASSUME NEW t \in Seq(Shapes), NEW session
    PROVE  /\ Entries!In(t, session) \in Seq(Shapes) /\ Entries!In(<<>>, session) = <<>>
           /\ \A e \in Shapes : Entries!In(Append(t, e), session)
                 = IF e.session = session THEN Append(Entries!In(t, session), e)
                   ELSE Entries!In(t, session)
<1> DEFINE S == {bar \in Shapes : bar.session = session}
<1>1. \A q : Entries!In(q, session) = Kept(q, S)
  BY EntriesLoops, Zenon DEF Entries!In
<1>2. \A e \in Shapes : e \in S <=> e.session = session
  OBVIOUS
<1> HIDE DEF S
<1>3. Kept(t, S) \in Seq(Shapes \cap S)
  BY KeptType
<1>4. Kept(t, S) \in Seq(Shapes)
  BY <1>3
<1>5. \A e \in Shapes :
          Kept(Append(t, e), S) = IF e \in S THEN Append(Kept(t, S), e) ELSE Kept(t, S)
  BY KeptMore
<1>6. Kept(<<>>, S) = <<>>
  BY KeptNone
<1> QED BY <1>1, <1>2, <1>4, <1>5, <1>6, Zenon

\* The premarket's bars are the first: no other bar comes before one.
Sessions(t) ==
    LET premarket == Entries!In(t, "premarket")
    IN  /\ Entries!In(t, "regular") = <<>> => premarket = t
        /\ premarket # <<>> => premarket[1] = t[1]
TapeInv == tape \in Seq(Shapes) /\ Sessions(tape)

LEMMA TapeStart == Entries!Init => TapeInv
<1> SUFFICES ASSUME tape = <<>> PROVE TapeInv
  BY DEF Entries!Init
<1>1. tape \in Seq(Shapes)
  BY EmptySeq
<1>2. Entries!In(tape, "premarket") = <<>>
  BY <1>1, InIs
<1> QED BY <1>1, <1>2 DEF TapeInv, Sessions

LEMMA BarKeeps == ASSUME TapeInv, NEW bar \in Shapes, Entries!NextBar(bar) PROVE TapeInv'
<1> DEFINE Pre(t) == Entries!In(t, "premarket")
           Reg(t) == Entries!In(t, "regular")
<1>1. /\ tape \in Seq(Shapes) /\ tape' = Append(tape, bar)
      /\ bar.session = "premarket" => Reg(tape) = <<>>
      /\ Reg(tape) = <<>> => Pre(tape) = tape
      /\ Pre(tape) # <<>> => Pre(tape)[1] = tape[1]
  BY DEF TapeInv, Sessions, Entries!NextBar
<1>2. bar.session \in {"premarket", "regular"}
  BY BarFacts
<1>3. /\ Pre(tape) \in Seq(Shapes) /\ Reg(tape) \in Seq(Shapes)
      /\ Pre(<<>>) = <<>>
      /\ Pre(tape') = IF bar.session = "premarket" THEN Append(Pre(tape), bar) ELSE Pre(tape)
      /\ Reg(tape') = IF bar.session = "regular" THEN Append(Reg(tape), bar) ELSE Reg(tape)
  BY <1>1, InIs
<1>4. tape' \in Seq(Shapes)
  BY <1>1
<1> HIDE DEF Pre, Reg
<1>5. CASE bar.session = "premarket"
  <2>1. Pre(tape') = tape'
    BY <1>1, <1>3, <1>5
  <2> QED BY <1>4, <2>1 DEF TapeInv, Sessions, Pre, Reg
<1>6. CASE bar.session = "regular"
  <2>1. Reg(tape') # <<>>
    BY <1>3, <1>6
  <2>2. Pre(tape') = Pre(tape)
    BY <1>3, <1>6
  <2>3. Pre(tape) # <<>> => tape # <<>>
    BY <1>3
  <2>4. tape # <<>> => tape'[1] = tape[1]
    BY <1>1
  <2>5. Pre(tape') # <<>> => Pre(tape')[1] = tape'[1]
    BY <1>1, <2>2, <2>3, <2>4
  <2> QED BY <1>4, <2>1, <2>5 DEF TapeInv, Sessions, Pre, Reg
<1> QED BY <1>2, <1>5, <1>6

LEMMA TapeStep ==
    ASSUME TapeInv, [RulesNext]_<<part, exitVars, tape, journalVars>>
    PROVE  /\ TapeInv'
           /\ tape' = tape \/ \E bar \in Shapes : tape' = Append(tape, bar)
<1>1. tape' = tape \/ \E bar \in Shapes : Entries!NextBar(bar)
  BY DEF RulesNext, Entries!Next
<1>2. tape' = tape \/ \E bar \in Shapes : tape' = Append(tape, bar)
  BY <1>1 DEF Entries!NextBar
<1>3. CASE tape' = tape
  BY <1>3 DEF TapeInv
<1> QED BY <1>1, <1>2, <1>3, BarKeeps

\* The backtest holds one trade at a time, whatever bars a session has.
THEOREM TradesApart == RulesSpec => OneTradeAtATime
<1>1. RulesInit => TapeInv
  BY TapeStart DEF RulesInit
<1>2. TapeInv /\ [RulesNext]_<<part, exitVars, tape, journalVars>> => TapeInv'
  BY TapeStep
<1>3. TapeInv /\ TapeInv' /\ [RulesNext]_<<part, exitVars, tape, journalVars>>
          => [part = "entries" => Entries!OneTradeAtATime(tape')]_tape
  BY ScanSound DEF TapeInv
<1> QED BY <1>1, <1>2, <1>3, PTL DEF RulesSpec, OneTradeAtATime

-----------------------------------------------------------------------------
(* Highs, lows and shares *)

\* Of the integers at the places i to j one is the greatest.
LEMMA Peak ==
    ASSUME NEW i \in Nat, NEW j \in Nat, i <= j, NEW f, \A k \in i..j : f[k] \in Int
    PROVE  \E m \in i..j : \A k \in i..j : f[k] <= f[m]
<1> DEFINE S == {n \in i..j : \E m \in i..n : \A k \in i..n : f[k] <= f[m]}
<1>1. i \in S
  <2>1. i \in i..i /\ i \in i..j /\ \A k \in i..i : k = i
    OBVIOUS
  <2>2. f[i] \in Int
    BY <2>1
  <2>3. \A k \in i..i : f[k] <= f[i]
    BY <2>1, <2>2
  <2> QED BY <2>1, <2>3
<1>2. ASSUME NEW n \in i..j, n \in S, n < j PROVE n + 1 \in S
  <2>1. PICK m \in i..n : \A k \in i..n : f[k] <= f[m]
    BY <1>2
  <2>2. /\ n + 1 \in i..j /\ m \in i..(n + 1) /\ n + 1 \in i..(n + 1) /\ m \in i..j
        /\ \A k \in i..(n + 1) : (k \in i..n \/ k = n + 1) /\ k \in i..j
    BY <1>2
  <2>3. f[n + 1] \in Int /\ f[m] \in Int /\ \A k \in i..(n + 1) : f[k] \in Int
    BY <2>2
  <2>4. CASE f[n + 1] <= f[m]
    <3>1. \A k \in i..(n + 1) : f[k] <= f[m]
      BY <2>1, <2>2, <2>4
    <3> QED BY <2>2, <3>1
  <2>5. CASE f[m] < f[n + 1]
    <3>1. \A k \in i..(n + 1) : f[k] <= f[n + 1]
      <4> TAKE k \in i..(n + 1)
      <4>1. CASE k \in i..n
        BY <2>1, <2>3, <2>5, <4>1
      <4>2. CASE k = n + 1
        BY <2>3, <4>2
      <4> QED BY <2>2, <4>1, <4>2
    <3> QED BY <2>2, <3>1
  <2> QED BY <2>3, <2>4, <2>5
<1> HIDE DEF S
<1>3. i..j \subseteq S
  BY <1>1, <1>2, Induct
<1>4. j \in S
  BY <1>3
<1> QED BY <1>4 DEF S

LEMMA MaxBounded ==
    ASSUME NEW S \in SUBSET Nat, S # {}, NEW b \in Nat, \A y \in S : y <= b
    PROVE  Entries!Max(S) \in S /\ \A y \in S : Entries!Max(S) >= y
<1> DEFINE T == {n \in Nat : \E y \in S : n = b - y}
<1>1. PICK y \in S : TRUE
  OBVIOUS
<1>2. b - y \in T
  BY <1>1
<1>3. PICK n \in T : \A m \in T : n <= m
  <2>1. T \in SUBSET Nat /\ T # {}
    BY <1>2
  <2> HIDE DEF T
  <2> QED BY <2>1, LeastNatural
<1>4. PICK x \in S : n = b - x
  OBVIOUS
<1>5. \A z \in S : b - z \in T
  OBVIOUS
<1> HIDE DEF T
<1>6. ASSUME NEW z \in S PROVE x >= z
  <2>1. n <= b - z
    BY <1>3, <1>5
  <2> QED BY <1>4, <2>1
<1> QED BY <1>6, MaxIs

\* The high of bars is that of one of them, and no bar's is over it; and the low.
LEMMA HighIs ==
    ASSUME NEW t \in Seq(Shapes), NEW i \in 1..Len(t), NEW j \in i..Len(t)
    PROVE  /\ Entries!High(t, i, j) \in Nat \ {0}
           /\ \E m \in i..j : Entries!High(t, i, j) = t[m].high
           /\ \A k \in i..j : t[k].high <= Entries!High(t, i, j)
<1> DEFINE f == [k \in i..j |-> t[k].high]
           S == {t[k].high : k \in i..j}
<1>1. i \in Nat /\ j \in Nat /\ i <= j /\ \A k \in i..j : t[k] \in Shapes
  OBVIOUS
<1>2. \A k \in i..j : f[k] = t[k].high /\ f[k] \in Int /\ t[k].high \in Nat \ {0}
  BY <1>1, BarFacts
<1>3. PICK m \in i..j : \A k \in i..j : f[k] <= f[m]
  <2> HIDE DEF f
  <2> QED BY <1>1, <1>2, Peak
<1>4. t[m].high \in S /\ \A y \in S : t[m].high >= y
  BY <1>2, <1>3
<1>5. Entries!High(t, i, j) = Entries!Max(S)
  BY DEF Entries!High
<1>6. Entries!Max(S) \in S /\ \A y \in S : Entries!Max(S) >= y
  <2> HIDE DEF S
  <2> QED BY <1>4, MaxIs
<1>7. \A k \in i..j : t[k].high \in S
  OBVIOUS
<1>8. PICK n \in i..j : Entries!Max(S) = t[n].high
  BY <1>6
<1> HIDE DEF S, f
<1> QED BY <1>2, <1>5, <1>6, <1>7, <1>8

LEMMA LowIs ==
    ASSUME NEW t \in Seq(Shapes), NEW i \in 1..Len(t), NEW j \in i..Len(t)
    PROVE  /\ Entries!Low(t, i, j) \in Nat \ {0}
           /\ \E m \in i..j : Entries!Low(t, i, j) = t[m].low
           /\ \A k \in i..j : Entries!Low(t, i, j) <= t[k].low
<1> DEFINE S == {t[k].low : k \in i..j}
<1>1. i \in i..j /\ \A k \in i..j : t[k] \in Shapes
  OBVIOUS
<1>2. \A k \in i..j : t[k].low \in Nat \ {0} /\ t[k].low \in S
  BY <1>1, BarFacts
<1>3. S \in SUBSET Nat /\ S # {}
  BY <1>1, <1>2
<1>4. Entries!Low(t, i, j) = Entries!Min(S)
  BY DEF Entries!Low
<1>5. Entries!Min(S) \in S /\ \A y \in S : Entries!Min(S) <= y
  <2> HIDE DEF S
  <2> QED BY <1>3, MinIs
<1>6. PICK n \in i..j : Entries!Min(S) = t[n].low
  BY <1>5
<1> HIDE DEF S
<1> QED BY <1>2, <1>4, <1>5, <1>6

\* A low is not over a high, when one bar is in both.
LEMMA LowUnderHigh ==
    ASSUME NEW t \in Seq(Shapes), NEW i \in 1..Len(t), NEW j \in i..Len(t),
           NEW m \in 1..Len(t), NEW n \in m..Len(t), NEW k \in i..j, k \in m..n
    PROVE  /\ Entries!Low(t, i, j) <= Entries!High(t, m, n)
           /\ 995 * Entries!Low(t, i, j) < 1000 * Entries!High(t, m, n)
<1>1. Entries!Low(t, i, j) \in Nat \ {0} /\ Entries!Low(t, i, j) <= t[k].low
  BY LowIs
<1>2. Entries!High(t, m, n) \in Nat \ {0} /\ t[k].high <= Entries!High(t, m, n)
  BY HighIs
<1>3. t[k] \in Shapes
  OBVIOUS
<1>4. t[k].low \in Nat /\ t[k].high \in Nat /\ t[k].low <= t[k].high
  BY <1>3, BarFacts
<1> QED BY <1>1, <1>2, <1>4

LEMMA DivIs ==
    ASSUME NEW a \in Int, NEW b \in Nat \ {0}
    PROVE  a \div b \in Int /\ (a >= 0 => a \div b >= 0)
OBVIOUS

LEMMA ShareIs ==
    ASSUME NEW part_ \in Int, NEW whole \in Nat \ {0}
    PROVE  /\ Entries!Share(part_, whole) \in Int
           /\ part_ >= 0 => Entries!Share(part_, whole) >= 0
<1>1. 1000 * part_ \in Int /\ (part_ >= 0 => 1000 * part_ >= 0)
  OBVIOUS
<1> QED BY <1>1, DivIs DEF Entries!Share

\* Marks of at most 1000, weighed to at most 10 in all, make a quality of at most 1000.
LEMMA Weighed ==
    ASSUME NEW n \in Int, NEW d \in Nat \ {0}, n <= 1000 * d
    PROVE  n \div d \in Int /\ n \div d <= 1000
OBVIOUS

-----------------------------------------------------------------------------
(* The detectors' setups: the stop below the breakout, the quality at most 1 *)

SoundSetup(s) == s.stop < s.breakout /\ s.quality \in Int /\ s.quality <= 1000

LEMMA LegsAre ==
    ASSUME NEW t, NEW leg \in Entries!Legs(t), Len(t) \in Nat
    PROVE  leg \in 1..Len(t) /\ leg - K.leg \in 1..Len(t) /\ leg - K.leg <= leg
<1>1. K.leg \in Nat \ {0}
  BY WindowFacts
<1>2. leg \in K.leg + 1 .. Len(t)
  BY DEF Entries!Legs
<1> QED BY <1>1, <1>2

LEMMA FlagEndsAre ==
    ASSUME NEW t, NEW leg \in 1..Len(t), NEW end \in Entries!FlagEnds(t, leg), Len(t) \in Nat
    PROVE  leg + 2 <= end /\ end \in 1..Len(t)
<1>1. K.flag \in Nat \ {0}
  BY WindowFacts
<1> DEFINE last == Entries!Smaller(leg + K.flag, Len(t) - 1)
<1>2. end \in leg + 2 .. last
  BY DEF Entries!FlagEnds
<1>3. last \in Int /\ last <= Len(t) - 1
  BY <1>1 DEF Entries!Smaller
<1> HIDE DEF last
<1> QED BY <1>2, <1>3

LEMMA FlagQualityAtMost ==
    ASSUME NEW t \in Seq(Shapes), NEW leg \in 1..Len(t), leg - K.leg \in 1..Len(t),
           NEW end \in 1..Len(t), leg + 2 <= end
    PROVE  Entries!FlagQuality(t, leg, end) \in Int /\ Entries!FlagQuality(t, leg, end) <= 1000
<1> DEFINE start == leg - K.leg
           depth == Entries!High(t, leg + 1, end) - Entries!Low(t, leg + 1, end)
           gain == Entries!Share(t[leg].close - t[start].close, t[start].close)
           wide == Entries!Share(end - leg, K.flag)
           deep == Entries!Share(depth, t[leg].close)
           A == Entries!Smaller(1000, 10 * gain)
           B == Entries!Larger(0, 1000 - wide)
           C == Entries!Larger(0, 1000 - 20 * deep)
<1>1. /\ t[leg].close \in Nat \ {0} /\ t[start].close \in Nat \ {0}
  BY BarFacts
<1>2. gain \in Int
  <2>1. t[leg].close - t[start].close \in Int
    BY <1>1
  <2> QED BY <1>1, <2>1, ShareIs, Zenon
<1>3. wide \in Int /\ wide >= 0
  <2>1. K.flag \in Nat \ {0} /\ end - leg \in Int /\ end - leg >= 0
    BY WindowFacts
  <2> QED BY <2>1, ShareIs, Zenon
<1>4. depth \in Int /\ depth >= 0
  <2>1. leg + 1 \in 1..Len(t) /\ end \in leg + 1 .. Len(t) /\ end \in leg + 1 .. end
    OBVIOUS
  <2>2. /\ Entries!High(t, leg + 1, end) \in Nat \ {0} /\ Entries!Low(t, leg + 1, end) \in Nat \ {0}
        /\ Entries!Low(t, leg + 1, end) <= Entries!High(t, leg + 1, end)
    <3>0. PICK i : i = leg + 1
      OBVIOUS
    <3>1. /\ i \in 1..Len(t) /\ end \in i..Len(t) /\ i \in i..end
      BY <2>1, <3>0
    <3>2. /\ Entries!High(t, i, end) \in Nat \ {0} /\ Entries!Low(t, i, end) \in Nat \ {0}
          /\ Entries!Low(t, i, end) <= Entries!High(t, i, end)
      <4>1. Entries!High(t, i, end) \in Nat \ {0}
        BY <3>1, HighIs
      <4>2. Entries!Low(t, i, end) \in Nat \ {0}
        BY <3>1, LowIs
      <4>3. Entries!Low(t, i, end) <= Entries!High(t, i, end)
        BY <3>1, LowUnderHigh
      <4> QED BY <4>1, <4>2, <4>3
    <3> QED BY <3>0, <3>2, Zenon
  <2> QED BY <2>2
<1>5. deep \in Int /\ deep >= 0
  <2> HIDE DEF depth
  <2> QED BY <1>1, <1>4, ShareIs, Zenon
<1> HIDE DEF gain, wide, deep
<1>6. A \in Int /\ A <= 1000
  BY <1>2 DEF Entries!Smaller, Entries!Larger
<1>7. B \in Int /\ B <= 1000
  BY <1>3 DEF Entries!Smaller, Entries!Larger
<1>8. C \in Int /\ C <= 1000
  BY <1>5 DEF Entries!Smaller, Entries!Larger
<1>9. Entries!FlagQuality(t, leg, end) = (4 * A + 3 * B + 3 * C) \div 10
  BY Zenon DEF Entries!FlagQuality, gain, wide, deep
<1> HIDE DEF A, B, C
<1>10. 4 * A + 3 * B + 3 * C \in Int /\ 4 * A + 3 * B + 3 * C <= 1000 * 10
  BY <1>6, <1>7, <1>8
<1> QED BY <1>9, <1>10, Weighed

LEMMA BullFlagSound ==
    ASSUME NEW t \in Seq(Shapes), NEW s \in Entries!BullFlag(t)
    PROVE  SoundSetup(s)
<1> DEFINE leg == Entries!Min(Entries!Legs(t))
           end == Entries!Max(Entries!FlagEnds(t, leg))
           top == Entries!High(t, leg + 1, end)
           low == Entries!Low(t, leg - K.leg, end)
           stop == Entries!Smaller(1000 * low, 995 * t[leg + 1].low)
<1>0. Len(t) \in Nat
  OBVIOUS
<1>1. /\ Entries!Legs(t) # {} /\ Entries!FlagEnds(t, leg) # {}
      /\ s.breakout = 1000 * top /\ s.stop = stop
      /\ s.quality = Entries!FlagQuality(t, leg, end)
  BY DEF Entries!BullFlag, Entries!Setup
<1>2. leg \in 1..Len(t) /\ leg - K.leg \in 1..Len(t) /\ leg - K.leg <= leg
  <2>1. Entries!Legs(t) \in SUBSET Nat
    BY <1>0, LegsAre
  <2>2. leg \in Entries!Legs(t)
    BY <1>1, <2>1, MinIs
  <2> HIDE DEF leg
  <2> QED BY <1>0, <2>2, LegsAre
<1> HIDE DEF leg
<1>3. leg + 2 <= end /\ end \in 1..Len(t)
  <2>1. Entries!FlagEnds(t, leg) \in SUBSET Nat /\ \A y \in Entries!FlagEnds(t, leg) : y <= Len(t)
    BY <1>0, <1>2, FlagEndsAre
  <2>2. end \in Entries!FlagEnds(t, leg)
    <3> PICK S : S = Entries!FlagEnds(t, leg)
      OBVIOUS
    <3>1. S \in SUBSET Nat /\ S # {} /\ Len(t) \in Nat /\ \A y \in S : y <= Len(t)
      BY <1>0, <1>1, <2>1
    <3> QED BY <3>1, MaxBounded
  <2> HIDE DEF end
  <2> QED BY <1>0, <1>2, <2>2, FlagEndsAre
<1> HIDE DEF end
<1>4. leg + 1 \in 1..Len(t) /\ end \in leg + 1 .. Len(t) /\ leg + 1 \in leg + 1 .. end
      /\ end \in leg - K.leg .. Len(t)
  BY <1>2, <1>3
<1>5. t[leg + 1] \in Shapes /\ top \in Nat \ {0} /\ t[leg + 1].high <= top
  <2> PICK i : i = leg + 1
    OBVIOUS
  <2>1. i \in 1..Len(t) /\ end \in i..Len(t) /\ i \in i..end
    BY <1>4
  <2>2. Entries!High(t, i, end) \in Nat \ {0} /\ t[i].high <= Entries!High(t, i, end)
    BY <2>1, HighIs
  <2> QED BY <2>1, <2>2
<1>6. 995 * t[leg + 1].low < 1000 * top
  <2>1. /\ t[leg + 1].low \in Nat \ {0} /\ t[leg + 1].high \in Nat \ {0}
        /\ t[leg + 1].low <= t[leg + 1].high
    BY <1>5, BarFacts
  <2> QED BY <1>5, <2>1
<1>7. low \in Nat \ {0} /\ t[leg + 1].low \in Nat \ {0}
  <2> PICK i : i = leg - K.leg
    OBVIOUS
  <2>1. i \in 1..Len(t) /\ end \in i..Len(t)
    BY <1>2, <1>4
  <2>2. Entries!Low(t, i, end) \in Nat \ {0}
    BY <2>1, LowIs
  <2> QED BY <1>5, <2>2, BarFacts
<1>8. stop \in Int /\ stop <= 995 * t[leg + 1].low
  <2> HIDE DEF low
  <2> QED BY <1>7 DEF Entries!Smaller
<1> HIDE DEF stop, top, low
<1>9. s.stop < s.breakout
  BY <1>1, <1>5, <1>6, <1>7, <1>8
<1>10. s.quality \in Int /\ s.quality <= 1000
  BY <1>1, <1>2, <1>3, FlagQualityAtMost
<1> QED BY <1>9, <1>10 DEF SoundSetup

\* The highest of the bars searched.
LEMMA FirstTopIs ==
    ASSUME NEW t \in Seq(Shapes), t # <<>>, NEW top, top = Entries!FirstTop(t),
           NEW searched, searched = Entries!Searched(t)
    PROVE  /\ searched \in 1..Len(t) /\ (Len(t) <= K.search => searched = Len(t))
           /\ top \in 1..searched /\ \A i \in 1..searched : t[i].high <= t[top].high
<1>1. K.search \in Nat \ {0}
  BY WindowFacts
<1>2. Len(t) \in Nat \ {0}
  OBVIOUS
<1>3. searched \in 1..Len(t) /\ (Len(t) <= K.search => searched = Len(t))
  BY <1>1, <1>2 DEF Entries!Searched, Entries!Smaller
<1> DEFINE hod == Entries!High(t, 1, searched)
           S == {i \in 1..searched : t[i].high = hod}
<1>4. /\ \E m \in 1..searched : hod = t[m].high
      /\ \A k \in 1..searched : t[k].high <= hod
  <2>1. 1 \in 1..Len(t)
    BY <1>2
  <2> QED BY <1>3, <2>1, HighIs
<1>5. top = Entries!Min(S)
  BY DEF Entries!FirstTop
<1> HIDE DEF hod
<1>6. S \in SUBSET Nat /\ S # {}
  BY <1>3, <1>4
<1>7. top \in S
  <2> HIDE DEF S
  <2> QED BY <1>5, <1>6, MinIs
<1> QED BY <1>3, <1>4, <1>7

LEMMA Risen ==
    ASSUME NEW a \in Nat, NEW b \in Nat \ {0}, 100 * (a - b) >= 3 * b
    PROVE  a - b \in Nat \ {0}
<1>1. PICK d \in Int : d = a - b
  OBVIOUS
<1>2. 100 * d >= 3 * b
  BY <1>1
<1>3. d > 0
  BY <1>2
<1> QED BY <1>1, <1>3

LEMMA FirstPullbackSound ==
    ASSUME NEW t \in Seq(Shapes), t # <<>>, NEW s \in Entries!FirstPullback(t)
    PROVE  Len(t) <= K.search => SoundSetup(s)
<1> DEFINE top == Entries!FirstTop(t)
           reach == Entries!Smaller(top - 1, K.reach)
           base == Entries!Low(t, top - reach, top - 1)
           run == t[top].high - base
           end == Entries!Smaller(top + K.pullback, Len(t))
           low == Entries!Low(t, top + 1, end)
           depth == Entries!Share(t[top].high - low, run)
<1>1. /\ reach >= K.run /\ 100 * run >= 3 * base /\ top < Len(t)
      /\ s.breakout = 1000 * t[top].high /\ s.stop = 995 * low
      /\ s.quality = Entries!PullbackQuality(depth, end - top)
  BY DEF Entries!FirstPullback, Entries!Setup
<1> SUFFICES ASSUME Len(t) <= K.search PROVE SoundSetup(s)
  OBVIOUS
<1>2. PICK N \in Nat \ {0} : N = Len(t)
  OBVIOUS
<1>3. top \in 1..N /\ \A i \in 1..N : t[i].high <= t[top].high
  <2> HIDE DEF top
  <2>1. PICK searched : searched = Entries!Searched(t)
    OBVIOUS
  <2> QED BY <1>2, <2>1, FirstTopIs DEF top
<1> HIDE DEF top
<1>4. K.reach \in Nat \ {0} /\ K.run \in Nat \ {0} /\ K.pullback \in Nat \ {0}
  BY WindowFacts
<1>5. reach \in Int /\ reach >= 1 /\ reach <= top - 1
  <2>1. top - 1 \in Int
    BY <1>3
  <2>2. reach \in Int /\ reach <= top - 1
    BY <1>4, <2>1 DEF Entries!Smaller
  <2> QED BY <1>1, <1>4, <2>2
<1>6. end \in top + 1 .. N
  <2>1. /\ end \in Int /\ end <= N /\ (end = top + K.pullback \/ end = N)
    BY <1>2, <1>3, <1>4 DEF Entries!Smaller
  <2> HIDE DEF end
  <2> QED BY <1>1, <1>2, <1>3, <1>4, <2>1
<1> HIDE DEF reach, end
<1>7. base \in Nat \ {0}
  <2> PICK i, j : i = top - reach /\ j = top - 1
    OBVIOUS
  <2>1. i \in 1..Len(t) /\ j \in i..Len(t)
    BY <1>2, <1>3, <1>5
  <2>2. Entries!Low(t, i, j) \in Nat \ {0}
    BY <2>1, LowIs
  <2> QED BY <2>2
<1>8. /\ top + 1 \in 1..Len(t) /\ end \in top + 1 .. Len(t) /\ top + 1 \in top + 1 .. end
      /\ top \in 1..Len(t) /\ top + 1 \in 1..N
  BY <1>1, <1>2, <1>3, <1>6
<1>9. low \in Nat \ {0} /\ low <= t[top + 1].low
  <2> PICK i : i = top + 1
    OBVIOUS
  <2>1. i \in 1..Len(t) /\ end \in i..Len(t) /\ i \in i..end
    BY <1>8
  <2>2. Entries!Low(t, i, end) \in Nat \ {0} /\ Entries!Low(t, i, end) <= t[i].low
    BY <2>1, LowIs
  <2> QED BY <2>2
<1>10. t[top].high \in Nat \ {0} /\ t[top + 1].low <= t[top + 1].high
       /\ t[top + 1].low \in Nat \ {0} /\ t[top + 1].high \in Nat \ {0}
       /\ t[top + 1].high <= t[top].high
  <2>1. t[top] \in Shapes /\ t[top + 1] \in Shapes
    BY <1>8
  <2> QED BY <1>3, <1>8, <2>1, BarFacts
<1> HIDE DEF base, low
<1>11. s.stop < s.breakout /\ t[top].high - low >= 0 /\ t[top].high - low \in Int
  <2> PICK a, b, c, d : a = t[top].high /\ b = t[top + 1].low /\ c = t[top + 1].high /\ d = low
    OBVIOUS
  <2>1. /\ d \in Nat \ {0} /\ d <= b /\ a \in Nat \ {0} /\ b <= c /\ b \in Nat \ {0}
        /\ c \in Nat \ {0} /\ c <= a
    BY <1>9, <1>10
  <2>2. 995 * d < 1000 * a /\ a - d >= 0 /\ a - d \in Int
    BY <2>1
  <2> QED BY <1>1, <2>2
<1>12. run \in Nat \ {0}
  <2> PICK a, b : a = t[top].high /\ b = base
    OBVIOUS
  <2>1. a \in Nat /\ b \in Nat \ {0} /\ 100 * (a - b) >= 3 * b
    BY <1>1, <1>7, <1>10
  <2>2. a - b \in Nat \ {0}
    BY <2>1, Risen, Zenon
  <2> QED BY <2>2
<1>13. depth \in Int /\ depth >= 0
  <2> PICK part_, whole : part_ = t[top].high - low /\ whole = run
    OBVIOUS
  <2> HIDE DEF run
  <2>1. part_ \in Int /\ part_ >= 0 /\ whole \in Nat \ {0}
    BY <1>11, <1>12
  <2>2. Entries!Share(part_, whole) \in Int /\ Entries!Share(part_, whole) >= 0
    BY <2>1, ShareIs
  <2> QED BY <2>2
<1>14. Entries!Share(end - top, K.pullback) \in Int /\ Entries!Share(end - top, K.pullback) >= 0
  <2>1. end - top \in Int /\ end - top >= 0
    BY <1>3, <1>6
  <2> QED BY <1>4, <2>1, ShareIs, Zenon
<1> HIDE DEF depth
<1>15. s.quality \in Int /\ s.quality <= 1000
  <2> DEFINE a == (10 * depth) \div 6
             b == Entries!Share(end - top, K.pullback)
             A == Entries!Larger(0, 1000 - a)
             B == Entries!Larger(0, 1000 - b)
  <2>1. a \in Int /\ a >= 0
    BY <1>13
  <2> HIDE DEF a, b
  <2>2. A \in Int /\ A <= 1000
    BY <2>1 DEF Entries!Larger
  <2>3. B \in Int /\ B <= 1000
    BY <1>14 DEF b, Entries!Larger
  <2>4. s.quality = (6 * A + 4 * B) \div 10
    BY <1>1 DEF Entries!PullbackQuality, a, b
  <2> HIDE DEF A, B
  <2>5. 6 * A + 4 * B \in Int /\ 6 * A + 4 * B <= 1000 * 10
    BY <2>2, <2>3
  <2> QED BY <2>4, <2>5, Weighed
<1> QED BY <1>11, <1>15 DEF SoundSetup

LEMMA GapAndGoSound ==
    ASSUME NEW t \in Seq(Shapes), t # <<>>, Sessions(t), NEW s \in Entries!GapAndGo(t)
    PROVE  SoundSetup(s)
<1> DEFINE premarket == Entries!In(t, "premarket")
           base == Entries!Low(t, 1, Entries!Smaller(K.few, Len(t)))
           gap == Entries!Share(t[1].open - base, base)
           level == IF premarket # <<>> THEN Entries!High(premarket, 1, Len(premarket))
                    ELSE Entries!High(t, 1, Entries!Smaller(K.first, Len(t)))
           trend == IF Entries!Price(t) > t[Entries!Smaller(Len(t), K.first + 1)].close
                    THEN 1000 ELSE 500
           low == Entries!Low(t, 1, Entries!Smaller(K.reach, Len(t)))
           most == Entries!Smaller(1000, (100 * gap) \div 15)
<1>1. /\ s.breakout = 1000 * level /\ s.stop = 995 * low
      /\ s.quality = (6 * most + 4 * trend) \div 10
  BY DEF Entries!GapAndGo, Entries!Setup
<1>2. /\ K.few \in Nat \ {0} /\ K.first \in Nat \ {0} /\ K.reach \in Nat \ {0}
      /\ Len(t) \in Nat \ {0}
  BY WindowFacts
<1>3. \A n \in Nat \ {0} : Entries!Smaller(n, Len(t)) \in 1..Len(t)
  BY <1>2 DEF Entries!Smaller
<1>4. 1 \in 1..Len(t) /\ t[1] \in Shapes
  BY <1>2
<1>5. low \in Nat \ {0} /\ low <= t[1].low
  <2> PICK n \in 1..Len(t) : n = Entries!Smaller(K.reach, Len(t))
    BY <1>2, <1>3
  <2>1. n \in 1..Len(t) /\ 1 \in 1..n
    BY <1>2
  <2>2. Entries!Low(t, 1, n) \in Nat \ {0} /\ Entries!Low(t, 1, n) <= t[1].low
    BY <1>4, <2>1, LowIs
  <2> QED BY <2>2
<1>6. level \in Nat \ {0} /\ t[1].high <= level
  <2>1. CASE premarket # <<>>
    <3>1. premarket \in Seq(Shapes) /\ premarket[1] = t[1]
      BY <2>1, InIs DEF Sessions
    <3>2. PICK n \in Nat \ {0} : n = Len(premarket)
      <4> HIDE DEF premarket
      <4> QED BY <2>1, <3>1
    <3> HIDE DEF premarket
    <3>3. 1 \in 1..Len(premarket) /\ n \in 1..Len(premarket) /\ 1 \in 1..n
      BY <3>2
    <3>4. Entries!High(premarket, 1, n) \in Nat \ {0}
          /\ premarket[1].high <= Entries!High(premarket, 1, n)
      BY <3>1, <3>3, HighIs
    <3> QED BY <2>1, <3>1, <3>2, <3>4
  <2>2. CASE premarket = <<>>
    <3> PICK n \in 1..Len(t) : n = Entries!Smaller(K.first, Len(t))
      BY <1>2, <1>3
    <3>1. n \in 1..Len(t) /\ 1 \in 1..n
      BY <1>2
    <3>2. Entries!High(t, 1, n) \in Nat \ {0} /\ t[1].high <= Entries!High(t, 1, n)
      BY <1>4, <3>1, HighIs
    <3> HIDE DEF premarket
    <3> QED BY <2>2, <3>2
  <2> QED BY <2>1, <2>2
<1>7. t[1].low \in Nat \ {0} /\ t[1].high \in Nat \ {0} /\ t[1].open \in Nat
      /\ t[1].low <= t[1].high
  BY <1>4, BarFacts
<1>8. base \in Nat \ {0}
  <2> PICK n \in 1..Len(t) : n = Entries!Smaller(K.few, Len(t))
    BY <1>2, <1>3
  <2>1. Entries!Low(t, 1, n) \in Nat \ {0}
    BY <1>4, LowIs
  <2> QED BY <2>1
<1> HIDE DEF base, level, low
<1>9. s.stop < s.breakout
  BY <1>1, <1>5, <1>6, <1>7
<1>10. gap \in Int
  <2>1. t[1].open - base \in Int
    BY <1>7, <1>8
  <2> QED BY <1>8, <2>1, ShareIs, Zenon
<1> HIDE DEF gap
<1>11. most \in Int /\ most <= 1000
  <2>1. PICK m \in Int : m = (100 * gap) \div 15
    BY <1>10
  <2> QED BY <2>1 DEF Entries!Smaller
<1>12. trend \in Int /\ trend <= 1000
  OBVIOUS
<1> HIDE DEF most, trend
<1>13. 6 * most + 4 * trend \in Int /\ 6 * most + 4 * trend <= 1000 * 10
  BY <1>11, <1>12
<1>14. s.quality \in Int /\ s.quality <= 1000
  BY <1>1, <1>13, Weighed
<1> QED BY <1>9, <1>14 DEF SoundSetup

LEMMA HodBreakSound ==
    ASSUME NEW t \in Seq(Shapes), t # <<>>, NEW s \in Entries!HodBreak(t)
    PROVE  SoundSetup(s)
<1> DEFINE hod == Entries!High(t, 1, Len(t))
           at == Entries!Min({i \in DOMAIN t : t[i].high = hod})
           touches == {i \in Entries!Larger(1, at - K.reach) .. at - 1 :
                           1000 * t[i].high > 995 * hod}
           from == Entries!Larger(1, Len(t) - K.recent + 1)
           low == Entries!Low(t, from, Len(t))
           most == Entries!Smaller(1000, Entries!Share(Entries!Cardinality(touches), 3))
<1>1. /\ s.breakout = 1000 * hod /\ s.stop = 995 * low
      /\ s.quality = (7 * most + 3000) \div 10
  BY DEF Entries!HodBreak, Entries!Setup
<1>2. K.recent \in Nat \ {0} /\ K.reach \in Nat \ {0} /\ Len(t) \in Nat \ {0}
  BY WindowFacts
<1>3. from \in 1..Len(t) /\ Len(t) \in from..Len(t) /\ 1 \in 1..Len(t) /\ Len(t) \in 1..Len(t)
  BY <1>2 DEF Entries!Larger
<1>4. hod \in Nat \ {0}
  BY <1>3, HighIs
<1>5. low \in Nat \ {0}
  <2> HIDE DEF from
  <2> QED BY <1>3, LowIs
<1>6. 995 * low < 1000 * hod
  <2> HIDE DEF from
  <2> QED BY <1>3, LowUnderHigh
<1>7. at \in Nat
  <2> DEFINE S == {i \in DOMAIN t : t[i].high = hod}
  <2>1. PICK m \in 1..Len(t) : hod = t[m].high
    BY <1>3, HighIs
  <2> HIDE DEF hod
  <2>2. DOMAIN t = 1..Len(t)
    OBVIOUS
  <2>3. S \in SUBSET Nat /\ S # {}
    BY <1>2, <2>1, <2>2
  <2> HIDE DEF S
  <2>4. Entries!Min(S) \in Nat
    BY <2>3, MinIs
  <2> QED BY <2>4 DEF S
<1> HIDE DEF at
<1>8. most \in Int /\ most <= 1000
  <2> DEFINE a == Entries!Larger(1, at - K.reach)
             R == a .. at - 1
  <2>1. a \in Int /\ at - 1 \in Int
    BY <1>2, <1>7 DEF Entries!Larger
  <2>2. IsFiniteSet(R)
    <3> HIDE DEF a
    <3> QED BY <2>1, FS_Interval
  <2>3. touches \in SUBSET R
    OBVIOUS
  <2> HIDE DEF touches, R
  <2>4. IsFiniteSet(touches)
    BY <2>2, <2>3, FS_Subset
  <2>5. Cardinality(touches) \in Int
    BY <2>4, FS_CardinalityType
  <2>6. Entries!Cardinality(touches) \in Int
    BY <2>5, EntriesLoops, Zenon
  <2>7. 3 \in Nat \ {0}
    OBVIOUS
  <2>8. Entries!Share(Entries!Cardinality(touches), 3) \in Int
    BY <2>6, <2>7, ShareIs, Zenon
  <2> QED BY <2>8 DEF Entries!Smaller
<1> HIDE DEF hod, low, most
<1>9. 7 * most + 3000 \in Int /\ 7 * most + 3000 <= 1000 * 10
  BY <1>8
<1>10. s.quality \in Int /\ s.quality <= 1000
  BY <1>1, <1>9, Weighed
<1> QED BY <1>1, <1>6, <1>10 DEF SoundSetup

LEMMA PriceIs ==
    ASSUME NEW t \in Seq(Shapes), t # <<>>
    PROVE  Entries!Price(t) \in Nat \ {0}
<1>1. t[Len(t)] \in Shapes
  OBVIOUS
<1> QED BY <1>1, BarFacts DEF Entries!Price

\* Room for a window, and the range of a mark.
LEMMA RoomFor ==
    ASSUME NEW w \in Nat, NEW a \in Nat, w < a, NEW N \in Nat, NEW k \in Int, k >= a, k <= N
    PROVE  k - w \in Nat \ {0} /\ (k - w) + w <= N
OBVIOUS

LEMMA Mark == ASSUME NEW q \in Int, q >= 200, q <= 1000 PROVE q \in 200..1000
OBVIOUS

\* The steepest of the windows is one of them.
LEMMA SteepestIs ==
    ASSUME NEW t \in Seq(Shapes),
           Len(t) >= Entries!Larger(K.fallback, K.window + K.few)
    PROVE  Entries!Steepest(t) \in Entries!Starts(t)
<1>1. /\ K.fallback \in Nat \ {0} /\ K.window \in Nat \ {0} /\ K.search \in Nat \ {0}
      /\ K.few \in Nat \ {0} /\ K.window < K.fallback /\ Len(t) \in Nat
  BY WindowFacts
<1>2. PICK n : n = Entries!Smaller(Len(t), Entries!Larger(K.fallback, K.search)) - K.window
  OBVIOUS
<1>3. n \in Nat \ {0} /\ n + K.window <= Len(t)
  <2> PICK w, N, a, b, c : /\ w = K.window /\ N = Len(t) /\ a = K.fallback /\ b = K.search
                           /\ c = K.few
    OBVIOUS
  <2>1. /\ w \in Nat \ {0} /\ N \in Nat /\ a \in Nat \ {0} /\ b \in Nat \ {0} /\ w < a
        /\ c \in Nat \ {0} /\ N >= Entries!Larger(a, w + c)
        /\ n = Entries!Smaller(N, Entries!Larger(a, b)) - w
    BY <1>1, <1>2
  <2>2. PICK m : m = Entries!Larger(a, b)
    OBVIOUS
  <2>3. m \in Int /\ m >= a
    BY <2>1, <2>2 DEF Entries!Larger
  <2>4. N >= a
    BY <2>1 DEF Entries!Larger
  <2>5. n \in Nat \ {0} /\ n + w <= N
    <3>1. PICK k : k = Entries!Smaller(N, m)
      OBVIOUS
    <3>2. n = k - w
      BY <2>1, <2>2, <3>1, Zenon
    <3>3. k \in Int /\ k >= a /\ k <= N
      BY <2>1, <2>3, <2>4, <3>1 DEF Entries!Smaller
    <3>4. w \in Nat /\ a \in Nat /\ w < a /\ N \in Nat
      BY <2>1
    <3>5. k - w \in Nat \ {0} /\ (k - w) + w <= N
      BY <3>3, <3>4, RoomFor, Zenon
    <3> QED BY <3>2, <3>5, Zenon
  <2> QED BY <2>5
<1>4. Entries!Starts(t) = 1..n
  BY <1>2 DEF Entries!Starts
<1> DEFINE f == [i \in 1..n |-> Entries!Gain(t, i)]
           S == {i \in 1..n : \A j \in 1..n : Entries!Gain(t, j) <= Entries!Gain(t, i)}
<1>5. ASSUME NEW i \in 1..n PROVE Entries!Gain(t, i) \in Int
  <2>1. i \in 1..Len(t) /\ i + K.window \in 1..Len(t)
    <3> PICK w, N : w = K.window /\ N = Len(t)
      OBVIOUS
    <3>1. w \in Nat \ {0} /\ N \in Nat /\ n \in Nat \ {0} /\ n + w <= N
      BY <1>1, <1>3
    <3>2. i \in 1..N /\ i + w \in 1..N
      BY <3>1
    <3> QED BY <3>2
  <2>2. t[i] \in Shapes /\ t[i + K.window] \in Shapes
    BY <2>1
  <2>3. t[i].close \in Nat \ {0} /\ t[i + K.window].close - t[i].close \in Int
    BY <2>2, BarFacts
  <2> QED BY <2>3, ShareIs, Zenon DEF Entries!Gain
<1>6. PICK m \in 1..n : \A k \in 1..n : f[k] <= f[m]
  <2>1. 1 \in Nat /\ n \in Nat /\ 1 <= n /\ \A k \in 1..n : f[k] \in Int
    BY <1>3, <1>5
  <2> HIDE DEF f
  <2> QED BY <2>1, Peak
<1>7. S \in SUBSET Nat /\ S # {}
  <2>1. m \in S
    BY <1>6
  <2>2. S \in SUBSET Nat
    BY <1>3
  <2> HIDE DEF S
  <2> QED BY <2>1, <2>2
<1>8. Entries!Steepest(t) = Entries!Min(S)
  BY <1>4 DEF Entries!Steepest
<1>9. Entries!Min(S) \in S
  <2> HIDE DEF S
  <2> QED BY <1>7, MinIs
<1>10. S \subseteq 1..n
  OBVIOUS
<1> HIDE DEF S
<1> QED BY <1>4, <1>8, <1>9, <1>10

IsMark(n) == n \in Int /\ n <= 1000

LEMMA RestQualityAtMost ==
    ASSUME NEW gain, gain \in Int, NEW depth, depth \in Nat, NEW apart, apart \in Nat
    PROVE  IsMark(Entries!RestQuality(gain, depth, apart))
<1> DEFINE a == (100 * depth) \div 65
           A == Entries!Smaller(1000, 20 * gain)
           B == Entries!Larger(0, 1000 - a)
           C == Entries!Larger(0, 1000 - apart)
<1>1. a \in Int /\ a >= 0
  OBVIOUS
<1> HIDE DEF a
<1>2. A \in Int /\ A <= 1000
  BY DEF Entries!Smaller
<1>3. B \in Int /\ B <= 1000
  BY <1>1 DEF Entries!Larger
<1>4. C \in Int /\ C <= 1000
  BY DEF Entries!Larger
<1>5. Entries!RestQuality(gain, depth, apart) = (45 * A + 35 * B + 20 * C) \div 100
  BY Zenon DEF Entries!RestQuality, a
<1> HIDE DEF A, B, C
<1>6. 45 * A + 35 * B + 20 * C \in Int /\ 45 * A + 35 * B + 20 * C <= 1000 * 100
  BY <1>2, <1>3, <1>4
<1> QED BY <1>5, <1>6, Weighed DEF IsMark

LEMMA ContinuationSound ==
    ASSUME NEW t \in Seq(Shapes), t # <<>>, NEW s \in Entries!Continuation(t)
    PROVE  SoundSetup(s)
<1>1. PICK best : best = Entries!Steepest(t)
  OBVIOUS
<1> DEFINE top == Entries!High(t, best, best + K.window)
           run == top - Entries!Low(t, best, best + K.window)
           from == Entries!Smaller(best + K.window + 1, Len(t))
           low == Entries!Low(t, from, Entries!Smaller(from + K.rest, Len(t)))
           depth == Entries!Share(Entries!Larger(0, top - low), run)
           apart == Entries!Share(Entries!Larger(top - Entries!Price(t), Entries!Price(t) - top),
                                  top)
<1>2. s \in Entries!Rested(t, best)
  BY <1>1 DEF Entries!Continuation
<1>3. /\ Len(t) >= Entries!Larger(K.fallback, K.window + K.few)
      /\ run > 0 /\ Entries!Placeable(low, top)
      /\ s.breakout = 1000 * top /\ s.stop = 995 * low
      /\ s.quality = Entries!RestQuality(Entries!Gain(t, best), depth, apart)
  BY <1>2 DEF Entries!Rested, Entries!Setup
<1>4. /\ K.fallback \in Nat \ {0} /\ K.window \in Nat \ {0} /\ K.search \in Nat \ {0}
      /\ K.few \in Nat \ {0} /\ K.rest \in Nat \ {0} /\ Len(t) \in Nat \ {0}
  BY WindowFacts
<1>5. best \in 1..Len(t) /\ best + K.window \in 1..Len(t)
  <2>1. best \in Entries!Starts(t)
    BY <1>1, <1>3, SteepestIs
  <2> DEFINE last == Entries!Smaller(Len(t), Entries!Larger(K.fallback, K.search))
  <2>2. best \in 1 .. last - K.window
    BY <2>1 DEF Entries!Starts
  <2>3. last \in Int /\ last <= Len(t)
    BY <1>4 DEF Entries!Smaller, Entries!Larger
  <2> HIDE DEF last
  <2> PICK w, N : w = K.window /\ N = Len(t)
    OBVIOUS
  <2>4. w \in Nat \ {0} /\ N \in Nat /\ best \in 1 .. last - w /\ last \in Int /\ last <= N
    BY <1>4, <2>2, <2>3
  <2>5. best \in 1..N /\ best + w \in 1..N
    BY <2>4
  <2> QED BY <2>5
<1>6. top \in Nat \ {0} /\ run \in Nat \ {0}
  <2>1. PICK j : j = best + K.window
    OBVIOUS
  <2>2. best \in 1..Len(t) /\ j \in best..Len(t)
    BY <1>4, <1>5, <2>1
  <2>3. Entries!High(t, best, j) \in Nat \ {0}
    BY <2>2, HighIs
  <2>4. Entries!Low(t, best, j) \in Nat \ {0}
    BY <2>2, LowIs
  <2> QED BY <1>3, <2>1, <2>3, <2>4
<1>7. low \in Nat \ {0}
  <2>1. from \in 1..Len(t)
    <3> PICK w, N : w = K.window /\ N = Len(t)
      OBVIOUS
    <3>1. best \in 1..N /\ best + w \in 1..N /\ N \in Nat /\ w \in Nat
      BY <1>4, <1>5
    <3>2. Entries!Smaller(best + w + 1, N) \in 1..N
      BY <3>1 DEF Entries!Smaller
    <3> QED BY <3>2
  <2> HIDE DEF from
  <2>2. PICK j : j = Entries!Smaller(from + K.rest, Len(t))
    OBVIOUS
  <2>3. j \in from..Len(t)
    BY <1>4, <2>1, <2>2 DEF Entries!Smaller
  <2>4. Entries!Low(t, from, j) \in Nat \ {0}
    BY <2>1, <2>3, LowIs
  <2> QED BY <2>2, <2>4
<1>8. Entries!Gain(t, best) \in Int
  <2>1. t[best] \in Shapes /\ t[best + K.window] \in Shapes
    BY <1>5
  <2>2. t[best].close \in Nat \ {0} /\ t[best + K.window].close - t[best].close \in Int
    BY <2>1, BarFacts
  <2> QED BY <2>2, ShareIs, Zenon DEF Entries!Gain
<1> HIDE DEF top, low, run
<1>9. depth \in Int /\ depth >= 0
  <2>1. Entries!Larger(0, top - low) \in Int /\ Entries!Larger(0, top - low) >= 0
    BY <1>6, <1>7 DEF Entries!Larger
  <2> QED BY <1>6, <2>1, ShareIs, Zenon
<1>10. apart \in Int /\ apart >= 0
  <2> DEFINE far == Entries!Larger(top - Entries!Price(t), Entries!Price(t) - top)
  <2>1. Entries!Price(t) \in Nat
    BY PriceIs
  <2>2. far \in Int /\ far >= 0
    BY <1>6, <2>1 DEF Entries!Larger
  <2> QED BY <1>6, <2>2, ShareIs, Zenon
<1> HIDE DEF depth, apart
<1>11. s.quality \in Int /\ s.quality <= 1000
  <2>1. /\ Entries!RestQuality(Entries!Gain(t, best), depth, apart) \in Int
        /\ Entries!RestQuality(Entries!Gain(t, best), depth, apart) <= 1000
    <3>1. depth \in Nat /\ apart \in Nat
      BY <1>9, <1>10
    <3>2. IsMark(Entries!RestQuality(Entries!Gain(t, best), depth, apart))
      BY <1>8, <3>1, RestQualityAtMost, Zenon
    <3> QED BY <3>2 DEF IsMark
  <2> QED BY <1>3, <2>1, Zenon
<1>12. s.stop < s.breakout
  BY <1>3 DEF Entries!Placeable
<1> QED BY <1>11, <1>12 DEF SoundSetup

LEMMA OrbBreakSound ==
    ASSUME NEW t \in Seq(Shapes), NEW s \in Entries!OrbBreak(t)
    PROVE  SoundSetup(s)
<1> DEFINE regular == Entries!In(t, "regular")
           top == Entries!High(regular, 1, K.range)
           low == Entries!Low(regular, 1, K.range)
           past == Entries!Share(Entries!Price(regular) - top, top)
           busy == 10 * K.range * regular[Len(regular)].volume
                       >= 8 * Entries!Volume(SubSeq(regular, 1, K.range))
           quality == 400 + Entries!Smaller(400, 20 * past) + IF busy THEN 200 ELSE 0
<1>1. /\ Len(regular) > K.range /\ 1000 * (top - low) >= 4 * top
      /\ s.breakout = 1000 * top /\ s.stop = 995 * low /\ s.quality = Entries!Unit(quality)
  BY DEF Entries!OrbBreak, Entries!Setup
<1>2. K.range \in Nat \ {0} /\ regular \in Seq(Shapes)
  BY WindowFacts, InIs
<1> HIDE DEF regular
<1>3. top \in Nat \ {0} /\ low \in Nat \ {0}
  <2>1. 1 \in 1..Len(regular) /\ K.range \in 1..Len(regular)
    BY <1>1, <1>2
  <2> QED BY <1>2, <2>1, HighIs, LowIs
<1>4. past \in Int
  <2>1. regular # <<>>
    BY <1>1, <1>2
  <2>2. Entries!Price(regular) \in Nat
    BY <1>2, <2>1, PriceIs
  <2>3. Entries!Price(regular) - top \in Int
    BY <1>3, <2>2
  <2> QED BY <1>3, <2>3, ShareIs, Zenon
<1> HIDE DEF top, low, past, busy
<1>5. quality \in Int
  BY <1>4 DEF Entries!Smaller
<1> HIDE DEF quality
<1>6. s.quality \in Int /\ s.quality <= 1000
  BY <1>1, <1>5 DEF Entries!Unit, Entries!Smaller, Entries!Larger
<1>7. s.stop < s.breakout
  BY <1>1, <1>3
<1> QED BY <1>6, <1>7 DEF SoundSetup

\* Every setup of an evaluation is sound, but for a pullback found late.
LEMMA EvaluationSound ==
    ASSUME NEW t \in Seq(Shapes), t # <<>>, Sessions(t)
    PROVE  Entries!SetupsSound(t)
<1> SUFFICES ASSUME NEW enabled \in Settings, NEW x \in Contexts,
                    NEW result, result = Entries!Evaluate(t, x, enabled)
             PROVE  /\ result.status # "blocked" => result.score >= 60 /\ result.setups # {}
                    /\ \A s \in result.setups :
                          /\ enabled # {} => s.type \in enabled
                          /\ \/ s.stop < s.breakout /\ s.quality \in 200 .. 1000
                             \/ s.type = "first_pullback" /\ Len(t) > K.search
  BY DEF Entries!SetupsSound
<1>1. result.status # "blocked" => result.score >= 60 /\ result.setups # {}
  <2> HIDE DEF Entries!Classify, Entries!Score, Entries!Passed
  <2> QED BY Zenon DEF Entries!Evaluate
<1>2. \/ result.setups = {} \/ result.setups = Entries!Classify(t, enabled)
  <2> HIDE DEF Entries!Classify
  <2> QED BY Zenon DEF Entries!Evaluate
<1>3. ASSUME NEW s \in Entries!Classify(t, enabled)
      PROVE  /\ s.quality >= 200 /\ (enabled = {} \/ s.type \in enabled)
             /\ \/ s \in Entries!OrbBreak(t) \/ s \in Entries!BullFlag(t)
                \/ s \in Entries!FirstPullback(t) \/ s \in Entries!GapAndGo(t)
                \/ s \in Entries!HodBreak(t) \/ s \in Entries!Continuation(t)
  BY DEF Entries!Classify
<1>4. ASSUME NEW s \in result.setups
      PROVE  /\ enabled # {} => s.type \in enabled
             /\ \/ s.stop < s.breakout /\ s.quality \in 200 .. 1000
                \/ s.type = "first_pullback" /\ Len(t) > K.search
  <2>1. s \in Entries!Classify(t, enabled)
    BY <1>2
  <2>2. s.quality >= 200 /\ (enabled = {} \/ s.type \in enabled)
    BY <1>3, <2>1
  <2>3. CASE SoundSetup(s)
    <3>1. s.quality \in 200..1000
      <4>1. s.quality \in Int /\ s.quality <= 1000 /\ s.quality >= 200
        BY <2>2, <2>3, Zenon DEF SoundSetup
      <4> QED BY <4>1, Mark, Zenon
    <3>2. s.stop < s.breakout
      BY <2>3, Zenon DEF SoundSetup
    <3> QED BY <2>2, <3>1, <3>2, Zenon
  <2>4. CASE s \in Entries!FirstPullback(t)
    <3>1. s.type = "first_pullback"
      BY <2>4, DetectorsOne
    <3>2. Len(t) \in Nat /\ K.search \in Nat
      <4>1. Len(t) \in Nat
        OBVIOUS
      <4> QED BY <4>1, WindowFacts
    <3>3. Len(t) > K.search \/ SoundSetup(s)
      BY <2>4, <3>2, FirstPullbackSound
    <3> QED BY <2>2, <2>3, <3>1, <3>3
  <2> QED BY <1>3, <2>1, <2>3, <2>4, BullFlagSound, GapAndGoSound, HodBreakSound,
             ContinuationSound, OrbBreakSound
<1> QED BY <1>1, <1>4

-----------------------------------------------------------------------------
(* The shadow setups: the stop below the entry *)

LEMMA Under ==
    ASSUME NEW p \in Nat \ {0}, NEW h \in Nat \ {0}, NEW c \in Nat, NEW l \in Nat,
           100 * p <= 98 * h, l <= c, p > c
    PROVE  l < p /\ p < h
OBVIOUS

LEMMA ReclaimSound ==
    ASSUME NEW t \in Seq(Shapes), t # <<>>, NEW risk, NEW s \in Entries!VwapReclaim(t, risk)
    PROVE  s.stop < s.entry /\ s.entry < s.target
<1> DEFINE n == Len(t)
           from == Entries!Larger(1, n - K.swing + 1)
           tops == {i \in from .. n - 2 : t[i].high = Entries!High(t, from, n - 2)}
           top == Entries!Min(tops)
           lows == {i \in top + 1 .. n : t[i].low = Entries!Low(t, top + 1, n)}
           low == Entries!Min(lows)
<1>1. /\ n >= K.curl /\ Entries!Curls(t, low)
      /\ 100 * Entries!Price(t) <= 98 * t[top].high
      /\ s.entry = Entries!Price(t) /\ s.stop = t[low].low /\ s.target = t[top].high
  BY DEF Entries!VwapReclaim, Entries!Signal
<1>2. n \in Nat /\ n >= 3 /\ K.swing \in Nat /\ K.swing >= 3
  <2>1. K.curl \in Nat /\ K.curl >= 3 /\ K.swing \in Nat /\ K.swing >= 3
    BY WindowFacts
  <2>2. n \in Nat
    OBVIOUS
  <2> QED BY <1>1, <2>1, <2>2
<1>3. top \in 1..(n - 2)
  <2>1. from \in 1..(n - 2)
    <3> PICK w : w = K.swing
      OBVIOUS
    <3>1. w \in Nat /\ w >= 3
      BY <1>2
    <3>2. Entries!Larger(1, n - w + 1) \in 1..(n - 2)
      BY <1>2, <3>1 DEF Entries!Larger
    <3> QED BY <3>2
  <2> HIDE DEF from
  <2>2. PICK j : j = n - 2
    OBVIOUS
  <2>3. from \in 1..Len(t) /\ j \in from..Len(t)
    BY <1>2, <2>1, <2>2
  <2>4. PICK m \in from..j : Entries!High(t, from, j) = t[m].high
    BY <2>3, HighIs
  <2>5. m \in tops /\ tops \in SUBSET Nat /\ tops \subseteq 1..(n - 2)
    BY <2>1, <2>2, <2>4
  <2> HIDE DEF tops
  <2> QED BY <2>5, MinIs
<1> HIDE DEF top
<1>4. low \in 1..n /\ t[low] \in Shapes
  <2>1. PICK i : i = top + 1
    OBVIOUS
  <2>2. i \in 1..Len(t) /\ n \in i..Len(t)
    BY <1>2, <1>3, <2>1
  <2>3. PICK m \in i..n : Entries!Low(t, i, n) = t[m].low
    BY <2>2, LowIs
  <2>4. m \in lows /\ lows \in SUBSET Nat /\ lows \subseteq 1..n
    BY <1>2, <1>3, <2>1, <2>3
  <2> HIDE DEF lows
  <2>5. low \in 1..n
    BY <2>4, MinIs
  <2> HIDE DEF low
  <2> QED BY <2>5
<1> HIDE DEF low
<1>5. t[low].low \in Nat \ {0} /\ t[low].close \in Nat \ {0} /\ t[low].low <= t[low].close
  BY <1>4, BarFacts
<1>6. Entries!Price(t) \in Nat \ {0} /\ Entries!Price(t) > t[low].close
  BY <1>1, PriceIs DEF Entries!Curls
<1>7. t[top].high \in Nat \ {0}
  <2>1. t[top] \in Shapes
    BY <1>2, <1>3
  <2> QED BY <2>1, BarFacts
<1>8. PICK p \in Nat \ {0}, h \in Nat \ {0}, c \in Nat, l \in Nat :
          p = Entries!Price(t) /\ h = t[top].high /\ c = t[low].close /\ l = t[low].low
  BY <1>5, <1>6, <1>7
<1>9. 100 * p <= 98 * h /\ l <= c /\ p > c
  BY <1>1, <1>5, <1>6, <1>8
<1>10. l < p /\ p < h
  BY <1>9, Under, Zenon
<1> QED BY <1>1, <1>8, <1>10

LEMMA PullbackEntrySound ==
    ASSUME NEW t \in Seq(Shapes), NEW s \in Entries!PullbackEntry(t, K.range + 1)
    PROVE  s.stop < s.entry
<1> DEFINE S == Entries!Reclaims(t, K.range + 1)
           i == Entries!Min(S)
<1>1. S # {} /\ s.entry = t[i].close /\ s.stop = t[i].low
  BY DEF Entries!PullbackEntry, Entries!Signal
<1>2. \A j \in S : j \in Nat /\ t[j].low < t[j].close
  <2>1. K.range \in Nat /\ Len(t) \in Nat
    <3>1. Len(t) \in Nat
      OBVIOUS
    <3> QED BY <3>1, WindowFacts
  <2>2. \A j \in S : j \in K.range + 1 .. Len(t) /\ t[j].low < t[j].close
    BY DEF Entries!Reclaims
  <2> HIDE DEF S
  <2> QED BY <2>1, <2>2
<1> HIDE DEF S
<1>3. i \in S
  <2>1. S \in SUBSET Nat
    BY <1>2
  <2> QED BY <1>1, <2>1, MinIs
<1> HIDE DEF i
<1> QED BY <1>1, <1>2, <1>3, Zenon

\* The stop of the continuation setups is a low of the session.
LEMMA HigherLowIs ==
    ASSUME NEW t \in Seq(Shapes), t # <<>>
    PROVE  \E i \in 1..Len(t) : Entries!HigherLow(t) = t[i].low
<1>1. Len(t) \in Nat \ {0}
  OBVIOUS
<1> DEFINE ups == {i \in 2 .. Len(t) - 1 : t[i].low > t[i - 1].low}
<1>2. Entries!HigherLow(t) = IF ups = {} THEN Entries!Low(t, 1, Len(t))
                             ELSE t[Entries!Max(ups)].low
  BY DEF Entries!HigherLow
<1>3. 1 \in 1..Len(t) /\ Len(t) \in 1..Len(t)
  BY <1>1
<1>4. \E m \in 1..Len(t) : Entries!Low(t, 1, Len(t)) = t[m].low
  BY <1>3, LowIs
<1>5. ups \in SUBSET Nat /\ (\A y \in ups : y <= Len(t)) /\ ups \subseteq 1..Len(t)
  BY <1>1
<1> HIDE DEF ups
<1>6. ups # {} => Entries!Max(ups) \in ups
  BY <1>1, <1>5, MaxBounded
<1> QED BY <1>2, <1>4, <1>5, <1>6

LEMMA IgnitionSound ==
    ASSUME NEW t \in Seq(Shapes), t # <<>>, NEW ath, NEW s \in Entries!Ignition(t, ath)
    PROVE  s.stop <= s.entry
<1>1. s.entry = Entries!High(t, 1, Len(t)) /\ s.stop = Entries!HigherLow(t)
  BY DEF Entries!Ignition, Entries!Signal
<1>2. 1 \in 1..Len(t) /\ Len(t) \in 1..Len(t)
  <2>1. Len(t) \in Nat \ {0}
    OBVIOUS
  <2> QED BY <2>1
<1>3. PICK i \in 1..Len(t) : Entries!HigherLow(t) = t[i].low
  BY HigherLowIs
<1>4. t[i].high <= Entries!High(t, 1, Len(t)) /\ Entries!High(t, 1, Len(t)) \in Nat \ {0}
  BY <1>2, HighIs
<1>5. t[i] \in Shapes
  OBVIOUS
<1>6. t[i].low \in Nat \ {0} /\ t[i].high \in Nat \ {0} /\ t[i].low <= t[i].high
  BY <1>5, BarFacts
<1>7. PICK l \in Nat, h \in Nat, m \in Nat :
          l = t[i].low /\ h = t[i].high /\ m = Entries!High(t, 1, Len(t)) /\ l <= h /\ h <= m
  BY <1>4, <1>6
<1>8. l <= m
  BY <1>7
<1> QED BY <1>1, <1>3, <1>7, <1>8

LEMMA ShadowsAre == ASSUME NEW t \in Seq(Shapes), t # <<>> PROVE Entries!ShadowsSound(t)
<1>1. \A risk \in {0, 15} : \A s \in Entries!VwapReclaim(t, risk) :
          s.stop < s.entry /\ s.entry < s.target
  BY ReclaimSound, Zenon
<1>2. \A s \in Entries!PullbackEntry(t, K.range + 1) : s.stop < s.entry
  BY PullbackEntrySound, Zenon
<1>3. \A x \in Contexts : \A s \in Entries!Ignition(t, x.ath) : s.stop <= s.entry
  BY IgnitionSound, Zenon
<1> QED BY <1>1, <1>2, <1>3, Zenon DEF Entries!ShadowsSound

\* Every bar that closes leaves only signals whose stop is below their entry, of the live
\* setups and of the shadow ones, whatever bars a session has.
THEOREM SignalsSound == RulesSpec => SetupsSound
<1>1. RulesInit => TapeInv
  BY TapeStart DEF RulesInit
<1>2. TapeInv /\ [RulesNext]_<<part, exitVars, tape, journalVars>> => TapeInv'
  BY TapeStep
<1>3. ASSUME TapeInv, TapeInv', [RulesNext]_<<part, exitVars, tape, journalVars>>
      PROVE  [part = "entries" => Entries!SetupsSound(tape') /\ Entries!ShadowsSound(tape')]_tape
  <2>1. tape' \in Seq(Shapes) /\ Sessions(tape')
    BY <1>3 DEF TapeInv
  <2>2. CASE \E bar \in Shapes : tape' = Append(tape, bar)
    <3>1. tape' # <<>>
      BY <1>3, <2>2 DEF TapeInv
    <3> QED BY <2>1, <3>1, EvaluationSound, ShadowsAre
  <2> QED BY <1>3, <2>2, TapeStep
<1> QED BY <1>1, <1>2, <1>3, PTL DEF RulesSpec, SetupsSound

-----------------------------------------------------------------------------
(* No look-ahead: the opening range *)

\* What a high and a low are of.
LEMMA SameBars ==
    ASSUME NEW t, NEW u, NEW i, NEW j, \A k \in i..j : t[k] = u[k]
    PROVE  Entries!High(t, i, j) = Entries!High(u, i, j) /\ Entries!Low(t, i, j) = Entries!Low(u, i, j)
<1>1. {t[k].high : k \in i..j} = {u[k].high : k \in i..j}
  OBVIOUS
<1>2. {t[k].low : k \in i..j} = {u[k].low : k \in i..j}
  OBVIOUS
<1> QED BY <1>1, <1>2, Zenon DEF Entries!High, Entries!Low

\* A session's bars stay, and one more may come.
LEMMA InStays ==
    ASSUME NEW t \in Seq(Shapes), NEW e \in Shapes, NEW session,
           NEW q, q = Entries!In(t, session), NEW r, r = Entries!In(Append(t, e), session)
    PROVE  /\ q \in Seq(Shapes) /\ r \in Seq(Shapes) /\ (r = q \/ r = Append(q, e))
           /\ Len(q) <= Len(r) /\ \A k \in 1..Len(q) : r[k] = q[k]
           /\ r = q <=> e.session # session
<1>1. q \in Seq(Shapes) /\ r = IF e.session = session THEN Append(q, e) ELSE q
  BY InIs
<1>2. PICK a : a = Append(q, e)
  OBVIOUS
<1>3. a \in Seq(Shapes) /\ Len(a) = Len(q) + 1 /\ Len(q) \in Nat /\ \A k \in 1..Len(q) : a[k] = q[k]
  BY <1>1, <1>2
<1>4. a # q
  BY <1>3
<1> QED BY <1>1, <1>2, <1>3, <1>4

LEMMA AsLong ==
    ASSUME NEW a \in Nat, NEW b \in Nat, NEW c \in Nat, a <= b, ~(a < c)
    PROVE  ~(b < c) /\ a >= c /\ \A k \in 1..c : k \in 1..a
OBVIOUS

LEMMA RangeStays ==
    ASSUME NEW t \in Seq(Shapes), NEW e \in Shapes, Entries!OpeningRange(t) # <<>>
    PROVE  Entries!OpeningRange(Append(t, e)) = Entries!OpeningRange(t)
<1>1. PICK q, r : q = Entries!In(t, "regular") /\ r = Entries!In(Append(t, e), "regular")
  OBVIOUS
<1>2. /\ q \in Seq(Shapes) /\ r \in Seq(Shapes) /\ Len(q) <= Len(r)
      /\ \A k \in 1..Len(q) : r[k] = q[k]
  BY <1>1, InStays
<1>3. K.range \in Nat \ {0}
  BY WindowFacts
<1>4. ~(Len(q) < K.range) /\ Entries!OpeningRange(t)
          = <<Entries!High(q, 1, K.range), Entries!Low(q, 1, K.range)>>
  BY <1>1 DEF Entries!OpeningRange
<1>5. Len(q) \in Nat /\ Len(r) \in Nat
  BY <1>2
<1>6. ~(Len(r) < K.range) /\ \A k \in 1..K.range : r[k] = q[k]
  <2>1. ~(Len(r) < K.range) /\ \A k \in 1..K.range : k \in 1..Len(q)
    <3>1. K.range \in Nat
      BY <1>3
    <3> QED BY <1>2, <1>4, <1>5, <3>1, AsLong, Zenon
  <2> QED BY <1>2, <2>1, Zenon
<1>7. /\ Entries!High(r, 1, K.range) = Entries!High(q, 1, K.range)
      /\ Entries!Low(r, 1, K.range) = Entries!Low(q, 1, K.range)
  BY <1>6, SameBars
<1>8. Entries!OpeningRange(Append(t, e))
          = <<Entries!High(r, 1, K.range), Entries!Low(r, 1, K.range)>>
  BY <1>1, <1>6, Zenon DEF Entries!OpeningRange
<1> QED BY <1>4, <1>7, <1>8, Zenon

LEMMA LevelsOf ==
    ASSUME NEW s, NEW u, s.breakout = 1000 * u[1], s.stop = 995 * u[2]
    PROVE  <<s.breakout, s.stop>> = <<1000 * u[1], 995 * u[2]>>
OBVIOUS

LEMMA OrbAtRange ==
    ASSUME NEW t \in Seq(Shapes), NEW s \in Entries!OrbBreak(t)
    PROVE  <<s.breakout, s.stop>>
               = <<1000 * Entries!OpeningRange(t)[1], 995 * Entries!OpeningRange(t)[2]>>
<1>1. PICK q : q = Entries!In(t, "regular")
  OBVIOUS
<1>2. /\ Len(q) > K.range
      /\ s.breakout = 1000 * Entries!High(q, 1, K.range)
      /\ s.stop = 995 * Entries!Low(q, 1, K.range)
  BY <1>1 DEF Entries!OrbBreak, Entries!Setup
<1>3. Len(q) \in Nat /\ K.range \in Nat
  <2>1. q \in Seq(Shapes)
    BY <1>1, InIs
  <2>2. Len(q) \in Nat
    BY <2>1
  <2> QED BY <2>2, WindowFacts
<1>4. ~(Len(q) < K.range)
  BY <1>2, <1>3
<1>5. Entries!OpeningRange(t) = <<Entries!High(q, 1, K.range), Entries!Low(q, 1, K.range)>>
  BY <1>1, <1>4 DEF Entries!OpeningRange
<1>6. /\ Entries!OpeningRange(t)[1] = Entries!High(q, 1, K.range)
      /\ Entries!OpeningRange(t)[2] = Entries!Low(q, 1, K.range)
  BY <1>5
<1>7. s.breakout = 1000 * Entries!OpeningRange(t)[1]
  BY <1>2, <1>6
<1>8. s.stop = 995 * Entries!OpeningRange(t)[2]
  BY <1>2, <1>6
<1> QED BY <1>7, <1>8, LevelsOf

\* The place of the bar that completes the range: one of the tape's.
Completes(t) == {i \in DOMAIN t : /\ t[i].session = "regular"
                                  /\ Len(Entries!In(SubSeq(t, 1, i), "regular")) = K.range}

LEMMA CompletedAt ==
    ASSUME NEW t \in Seq(Shapes), Entries!OpeningRange(t) # <<>>
    PROVE  Completes(t) # {} /\ Completes(t) \in SUBSET Nat /\ Completes(t) \subseteq 1..Len(t)
<1>1. PICK N \in Nat : N = Len(t) /\ DOMAIN t = 1..N
  OBVIOUS
<1> DEFINE Of(i) == Len(Entries!In(SubSeq(t, 1, i), "regular"))
           S == {i \in 0..N : Of(i) >= K.range}
<1>2. K.range \in Nat \ {0}
  BY WindowFacts
<1>3. \A i \in 0..N : Of(i) \in Nat
  <2> TAKE i \in 0..N
  <2>1. SubSeq(t, 1, i) \in Seq(Shapes)
    BY <1>1, PrefixIs
  <2>2. Entries!In(SubSeq(t, 1, i), "regular") \in Seq(Shapes)
    BY <2>1, InIs
  <2> QED BY <2>2
<1>4. ~(Len(Entries!In(t, "regular")) < K.range)
  BY DEF Entries!OpeningRange
<1>5. SubSeq(t, 1, N) = t
  BY <1>1, SubSeqFull
<1>6. N \in S
  <2>1. N \in 0..N
    OBVIOUS
  <2>2. Of(N) = Len(Entries!In(t, "regular"))
    BY <1>5, Zenon
  <2>3. Of(N) \in Nat /\ K.range \in Nat
    BY <1>2, <1>3, <2>1
  <2> HIDE DEF Of
  <2>4. Of(N) >= K.range
    BY <1>4, <2>2, <2>3
  <2> QED BY <2>1, <2>4
<1>7. PICK i \in S : \A j \in S : i <= j
  <2>1. S \in SUBSET Nat /\ S # {}
    BY <1>6
  <2> HIDE DEF S
  <2> QED BY <2>1, LeastNatural
<1>8. i # 0
  <2>1. SubSeq(t, 1, 0) = <<>>
    BY SubSeqEmpty
  <2>2. Entries!In(<<>>, "regular") = <<>>
    BY InIs
  <2>3. Of(0) = Len(<<>>)
    BY <2>1, <2>2, Zenon
  <2>4. Of(0) = 0
    BY <2>3
  <2> QED BY <1>2, <2>4
<1>9. i \in 1..N /\ i - 1 \in 0..N /\ i - 1 < i
  BY <1>8
<1>10. Of(i - 1) < K.range /\ Of(i) >= K.range
  <2>1. i - 1 \notin S
    BY <1>7, <1>9
  <2> QED BY <1>2, <1>3, <1>9, <2>1
<1> HIDE DEF S
<1>11. t[i].session = "regular" /\ Of(i) = K.range
  <2>0. i \in 1..Len(t) /\ i - 1 \in 0..Len(t) /\ t[i] \in Shapes
    BY <1>1, <1>9
  <2>1. PICK p \in Seq(Shapes) : p = SubSeq(t, 1, i - 1)
    BY <2>0, PrefixIs
  <2>2. SubSeq(t, 1, i) = Append(p, t[i])
    BY <2>0, <2>1, PrefixMore
  <2>3. PICK q : q = Entries!In(p, "regular")
    OBVIOUS
  <2>4. /\ q \in Seq(Shapes)
        /\ Entries!In(Append(p, t[i]), "regular")
               = IF t[i].session = "regular" THEN Append(q, t[i]) ELSE q
    BY <2>0, <2>3, InIs
  <2>5. Of(i - 1) = Len(q) /\ Of(i) = IF t[i].session = "regular" THEN Len(Append(q, t[i]))
                                      ELSE Len(q)
    BY <2>1, <2>2, <2>3, <2>4, Zenon
  <2>6. Len(q) \in Nat /\ Len(Append(q, t[i])) = Len(q) + 1
    BY <2>0, <2>4
  <2> HIDE DEF Of
  <2> QED BY <1>2, <1>10, <2>5, <2>6
<1>12. i \in Completes(t)
  BY <1>1, <1>9, <1>11 DEF Completes
<1> QED BY <1>1, <1>12 DEF Completes

LEMMA CompletesStays ==
    ASSUME NEW t \in Seq(Shapes), NEW e \in Shapes, Entries!OpeningRange(t) # <<>>
    PROVE  Completes(Append(t, e)) = Completes(t)
<1>1. PICK N \in Nat : N = Len(t) /\ DOMAIN t = 1..N
  OBVIOUS
<1>2. PICK r : r = Append(t, e)
  OBVIOUS
<1>3. /\ r \in Seq(Shapes) /\ DOMAIN r = 1..(N + 1) /\ Len(r) = N + 1 /\ r[N + 1] = e
      /\ \A i \in 1..N : r[i] = t[i]
  BY <1>1, <1>2
<1> DEFINE Of(s, i) == Len(Entries!In(SubSeq(s, 1, i), "regular"))
<1>4. \A i \in 1..N : Of(r, i) = Of(t, i)
  <2> TAKE i \in 1..N
  <2>1. i \in 0..Len(t)
    BY <1>1
  <2>2. SubSeq(r, 1, i) = SubSeq(t, 1, i)
    BY <1>2, <2>1, PrefixStays
  <2> QED BY <2>2, Zenon
<1>5. ~(r[N + 1].session = "regular" /\ Of(r, N + 1) = K.range)
  <2>1. PICK q, p : q = Entries!In(t, "regular") /\ p = Entries!In(r, "regular")
    OBVIOUS
  <2>2. q \in Seq(Shapes) /\ p = IF e.session = "regular" THEN Append(q, e) ELSE q
    BY <1>2, <2>1, InIs
  <2>3. SubSeq(r, 1, N + 1) = r
    BY <1>3, SubSeqFull
  <2>4. Of(r, N + 1) = Len(p)
    BY <2>1, <2>3, Zenon
  <2>5. Len(q) \in Nat /\ Len(Append(q, e)) = Len(q) + 1
    BY <2>2
  <2>6. ~(Len(q) < K.range)
    BY <2>1 DEF Entries!OpeningRange
  <2>7. K.range \in Nat
    BY WindowFacts
  <2> HIDE DEF Of
  <2> QED BY <1>3, <2>2, <2>4, <2>5, <2>6, <2>7
<1>6. \A i : i \in 1..(N + 1) <=> i \in 1..N \/ i = N + 1
  OBVIOUS
<1>7. /\ Completes(r) = {i \in 1..(N + 1) : r[i].session = "regular" /\ Of(r, i) = K.range}
      /\ Completes(t) = {i \in 1..N : t[i].session = "regular" /\ Of(t, i) = K.range}
  BY <1>1, <1>3, Zenon DEF Completes
<1> HIDE DEF Of
<1>8. Completes(r) = Completes(t)
  BY <1>3, <1>4, <1>5, <1>6, <1>7
<1> QED BY <1>2, <1>8

\* The opening range as a setup is found again, as it was.
LEMMA OrbSetupStays ==
    ASSUME NEW t \in Seq(Shapes), NEW e \in Shapes, NEW x
    PROVE  Entries!OrbSetup(t, x) \subseteq Entries!OrbSetup(Append(t, e), x)
<1> SUFFICES ASSUME Entries!OrbSetup(t, x) # {}
             PROVE  Entries!OrbSetup(Append(t, e), x) = Entries!OrbSetup(t, x)
  OBVIOUS
<1>1. PICK r : r = Append(t, e)
  OBVIOUS
<1> DEFINE As(s, q, at) ==
        LET range == Entries!OpeningRange(s)
            upto == SubSeq(s, 1, at)
        IN  IF range = <<>> \/ range[1] <= range[2] THEN {}
            ELSE {[at |-> at, entry |-> range[1], stop |-> range[2],
                   gap |-> IF x.previous > 0
                           THEN Entries!Share(q[1].open - x.previous, x.previous) ELSE 0,
                   above |-> Entries!AboveVwap(upto), quality |-> Entries!DataQuality(upto),
                   volume |-> Entries!RelativeVolume(upto, x)]}
<1>2. \A s : Entries!OrbSetup(s, x)
                 = As(s, Entries!In(s, "regular"), Entries!Min(Completes(s)))
  BY Zenon DEF Entries!OrbSetup, Completes
<1>3. Entries!OpeningRange(t) # <<>>
  BY <1>2
<1>4. Entries!OpeningRange(r) = Entries!OpeningRange(t) /\ Completes(r) = Completes(t)
  BY <1>1, <1>3, RangeStays, CompletesStays
<1>5. PICK at : at = Entries!Min(Completes(t))
  OBVIOUS
<1>6. at \in 0..Len(t)
  <2>1. Completes(t) # {} /\ Completes(t) \in SUBSET Nat /\ Completes(t) \subseteq 1..Len(t)
    BY <1>3, CompletedAt
  <2>2. at \in Completes(t)
    BY <1>5, <2>1, MinIs
  <2> QED BY <2>1, <2>2
<1>7. SubSeq(r, 1, at) = SubSeq(t, 1, at)
  BY <1>1, <1>6, PrefixStays
<1>8. PICK q, p : q = Entries!In(t, "regular") /\ p = Entries!In(r, "regular")
  OBVIOUS
<1>9. p[1] = q[1]
  <2>1. q \in Seq(Shapes) /\ \A k \in 1..Len(q) : p[k] = q[k]
    BY <1>1, <1>8, InStays
  <2>2. ~(Len(q) < K.range)
    BY <1>3, <1>8 DEF Entries!OpeningRange
  <2>3. K.range \in Nat \ {0}
    BY WindowFacts
  <2>4. Len(q) \in Nat
    BY <2>1
  <2> QED BY <2>1, <2>2, <2>3, <2>4
<1>10. As(r, p, at) = As(t, q, at)
  <2> HIDE DEF Entries!AboveVwap
  <2> QED BY <1>4, <1>7, <1>9, Zenon
<1> HIDE DEF As
<1>11. Entries!OrbSetup(r, x) = As(r, p, at)
  BY <1>2, <1>4, <1>5, <1>8, Zenon
<1>12. Entries!OrbSetup(t, x) = As(t, q, at)
  BY <1>2, <1>5, <1>8, Zenon
<1> QED BY <1>1, <1>10, <1>11, <1>12, Zenon

-----------------------------------------------------------------------------
(* No look-ahead: the setups of the tracks *)

\* What a track can find on its bars.
Findable(track, span, x) == UNION {Entries!SetupsAt(track, span, x, i) : i \in 1..Len(span)}
Sliding(track, span, x) ==
    [firing : BOOLEAN, last : Int, setups : SUBSET Findable(track, span, x)]

\* The sweep of a detector along its bars.
IsSlid(k, track, span, x) ==
    /\ k[0].setups = {} /\ k[0] = [firing |-> FALSE, last |-> -K.cooldown, setups |-> {}]
    /\ k[Len(span)].setups \subseteq Findable(track, span, x)
    /\ \A i \in 1..Len(span) :
           k[i] = IF i \in Entries!Decisions(track, span)
                  THEN Entries!Slide(k[i - 1], track, span, x, i) ELSE k[i - 1]

LEMMA SlideType ==
    ASSUME NEW track, NEW span, NEW x, NEW i \in 1..Len(span), i \in Int,
           NEW acc \in Sliding(track, span, x)
    PROVE  Entries!Slide(acc, track, span, x, i) \in Sliding(track, span, x)
<1> DEFINE new == IF ~acc.firing /\ i - acc.last >= K.cooldown
                  THEN Entries!SetupsAt(track, span, x, i) ELSE {}
           firing == Entries!Detected(track, SubSeq(span, 1, i), x) # {}
           last == IF new = {} THEN acc.last ELSE i
<1>1. Entries!Slide(acc, track, span, x, i)
          = [firing |-> firing, last |-> last, setups |-> acc.setups \cup new]
  BY Zenon DEF Entries!Slide
<1>2. new \subseteq Findable(track, span, x)
  <2>1. Entries!SetupsAt(track, span, x, i) \subseteq Findable(track, span, x)
    BY DEF Findable
  <2> QED BY <2>1
<1>3. acc.setups \subseteq Findable(track, span, x) /\ acc.last \in Int
  BY DEF Sliding
<1>4. firing \in BOOLEAN
  OBVIOUS
<1> HIDE DEF new, firing
<1>5. last \in Int
  BY <1>3
<1> HIDE DEF last
<1> QED BY <1>1, <1>2, <1>3, <1>4, <1>5 DEF Sliding

LEMMA SlidWalk ==
    ASSUME NEW track, NEW t, NEW span \in Seq(Shapes), span = Entries!TrackBars(track, t), NEW x
    PROVE  \E k : IsSlid(k, track, span, x) /\ Entries!Fires(track, t, x) = k[Len(span)].setups
<1> DEFINE V == Sliding(track, span, x)
           start == [firing |-> FALSE, last |-> -K.cooldown, setups |-> {}]
           After(w, i) == IF i \in Entries!Decisions(track, span)
                          THEN Entries!Slide(w, track, span, x, i) ELSE w
<1>1. PICK N \in Nat : N = Len(span)
  OBVIOUS
<1>3. start \in V
  <2>1. -K.cooldown \in Int
    <3>1. K.cooldown \in Nat
      BY WindowFacts
    <3> QED BY <3>1
  <2> QED BY <2>1 DEF Sliding
<1>4. ASSUME NEW w \in V, NEW i \in 1..N PROVE After(w, i) \in V
  <2>1. i \in 1..Len(span) /\ i \in Int
    BY <1>1
  <2> QED BY <2>1, SlideType
<1> DEFINE step == [p \in V \X (1..N) |-> After(p[1], p[2])]
<1> HIDE DEF V, After
<1>5. step \in [V \X (1..N) -> V]
  BY <1>4
<1>6. \A w \in V, i \in 1..N : step[<<w, i>>] = After(w, i)
  OBVIOUS
<1> HIDE DEF step, start
<1>w. PICK f : IsWalk(f, N, V, start, step)
  BY <1>3, <1>5, Recursion
<1>7. f \in [0..N -> V] /\ f[0] = start /\ \A i \in 1..N : f[i] = step[<<f[i - 1], i>>]
  BY <1>w DEF IsWalk
<1>8. f = [i \in 0..N |-> IF i = 0 THEN start ELSE After(f[i - 1], i)]
  <2>1. \A i \in 0..N : i # 0 => i - 1 \in 0..N /\ i \in 1..N
    OBVIOUS
  <2>2. \A i \in 0..N : f[i] = IF i = 0 THEN start ELSE After(f[i - 1], i)
    BY <1>6, <1>7, <2>1
  <2> QED BY <1>7, <2>2
<1>9. PICK g : /\ g = [i \in 0..N |-> IF i = 0 THEN start
                           ELSE IF i \in Entries!Decisions(track, span)
                                THEN Entries!Slide(g[i - 1], track, span, x, i)
                                ELSE g[i - 1]]
               /\ Entries!Fires(track, t, x) = g[N].setups
  BY <1>1, <1>8, Zenon DEF Entries!Fires, start, After
<1>10. g[0] = start /\ \A i \in 1..N : g[i] = After(g[i - 1], i)
  <2>1. 0 \in 0..N /\ \A i \in 1..N : i \in 0..N /\ i # 0
    OBVIOUS
  <2> QED BY <1>9, <2>1 DEF After
<1>13. g[N] \in V
  <2> PICK p : p = g
    OBVIOUS
  <2>1. p[0] \in V /\ \A i \in 1..N : p[i - 1] \in V => p[i] \in V
    BY <1>3, <1>4, <1>10
  <2>2. \A i \in 0..N : p[i] \in V
    BY <2>1, Stays
  <2> QED BY <2>2
<1>14. g[N].setups \subseteq Findable(track, span, x)
  BY <1>13 DEF V, Sliding
<1>15. g[0].setups = {}
  BY <1>10 DEF start
<1> QED BY <1>1, <1>9, <1>10, <1>14, <1>15 DEF IsSlid, After, start

\* A pass keeps the setups found before it.
LEMMA SlideKeeps ==
    ASSUME NEW acc, NEW track, NEW span, NEW x, NEW i
    PROVE  acc.setups \subseteq Entries!Slide(acc, track, span, x, i).setups
BY DEF Entries!Slide

\* Bars of a track, and those it is scored on.
LEMMA TrackStays ==
    ASSUME NEW t \in Seq(Shapes), NEW e \in Shapes, NEW track \in Entries!Tracks,
           NEW b, b = Entries!TrackBars(track, t),
           NEW c, c = Entries!TrackBars(track, Append(t, e))
    PROVE  b \in Seq(Shapes) /\ (c = b \/ c = Append(b, e))
<1>1. /\ Entries!In(t, "premarket") \in Seq(Shapes) /\ Entries!In(t, "regular") \in Seq(Shapes)
      /\ \A session : \/ Entries!In(Append(t, e), session) = Entries!In(t, session)
                      \/ Entries!In(Append(t, e), session) = Append(Entries!In(t, session), e)
  BY InIs, Zenon
<1>2. CASE track = "premarket"
  BY <1>1, <1>2 DEF Entries!TrackBars
<1>3. CASE track = "runner"
  BY <1>3 DEF Entries!TrackBars
<1>4. CASE track \notin {"premarket", "runner"}
  BY <1>1, <1>4 DEF Entries!TrackBars
<1> QED BY <1>2, <1>3, <1>4

LEMMA LabelStays ==
    ASSUME NEW t \in Seq(Shapes), NEW e \in Shapes, NEW track,
           NEW q, q = Entries!LabelBars(track, t),
           NEW r, r = Entries!LabelBars(track, Append(t, e))
    PROVE  /\ q \in Seq(Shapes) /\ r \in Seq(Shapes) /\ (r = q \/ r = Append(q, e))
           /\ Len(q) <= Len(r)
<1>1. PICK session : /\ q = Entries!In(t, session) /\ r = Entries!In(Append(t, e), session)
  BY DEF Entries!LabelBars
<1> QED BY <1>1, InStays

\* One bar more decides the same of the bars there were.
LEMMA DecisionsStay ==
    ASSUME NEW b \in Seq(Shapes), NEW e \in Shapes, NEW track,
           Entries!Decisions(track, b) # {}, NEW i \in 1..Len(b)
    PROVE  i \in Entries!Decisions(track, Append(b, e)) <=> i \in Entries!Decisions(track, b)
<1>1. PICK c : c = Append(b, e)
  OBVIOUS
<1>2. PICK N \in Nat : N = Len(b)
  OBVIOUS
<1>3. Len(c) = N + 1 /\ c[i] = b[i]
  BY <1>1, <1>2
<1>4. PICK q, r : q = Entries!LabelBars(track, b) /\ r = Entries!LabelBars(track, c)
  OBVIOUS
<1>5. Len(q) \in Nat /\ Len(r) \in Nat /\ Len(q) <= Len(r)
  <2>1. q \in Seq(Shapes) /\ r \in Seq(Shapes) /\ Len(q) <= Len(r)
    BY <1>1, <1>4, LabelStays
  <2> QED BY <2>1
<1> DEFINE room == IF track = "premarket" THEN K.warm + K.ahead ELSE K.room
<1>6. room \in Nat /\ K.warm \in Nat
  <2>1. K.warm \in Nat /\ K.ahead \in Nat /\ K.room \in Nat
    BY WindowFacts
  <2> QED BY <2>1
<1>7. \A s : Entries!Decisions(track, s)
                 = IF Len(Entries!LabelBars(track, s)) < room THEN {}
                   ELSE {j \in K.warm .. Len(s) : track = "runner" => s[j].session = "regular"}
  BY Zenon DEF Entries!Decisions
<1> HIDE DEF room
<1>8. ~(Len(q) < room)
  BY <1>4, <1>7
<1>9. ~(Len(r) < room)
  BY <1>5, <1>6, <1>8
<1>10. /\ Entries!Decisions(track, b)
              = {j \in K.warm .. N : track = "runner" => b[j].session = "regular"}
       /\ Entries!Decisions(track, c)
              = {j \in K.warm .. N + 1 : track = "runner" => c[j].session = "regular"}
  BY <1>2, <1>3, <1>4, <1>7, <1>8, <1>9
<1>11. i \in K.warm .. N <=> i \in K.warm .. N + 1
  BY <1>2, <1>6
<1> QED BY <1>1, <1>3, <1>10, <1>11

\* The setups at a bar: the same after one bar more, or none for want of bars to score.
LEMMA SetupsStay ==
    ASSUME NEW b \in Seq(Shapes), NEW e \in Shapes, NEW track, NEW x, NEW i \in 1..Len(b)
    PROVE  /\ track # "premarket" \/ Len(b) - i >= K.ahead =>
                  Entries!SetupsAt(track, Append(b, e), x, i) = Entries!SetupsAt(track, b, x, i)
           /\ track = "premarket" /\ ~(Len(b) - i >= K.ahead) =>
                  Entries!SetupsAt(track, b, x, i) = {}
<1>1. PICK c : c = Append(b, e)
  OBVIOUS
<1>2. PICK N \in Nat : N = Len(b)
  OBVIOUS
<1>3. Len(c) = N + 1 /\ i \in 0..Len(b) /\ i \in 1..N
  BY <1>1, <1>2
<1>4. SubSeq(c, 1, i) = SubSeq(b, 1, i)
  BY <1>1, <1>3, PrefixStays
<1>5. K.ahead \in Nat
  BY WindowFacts
<1> DEFINE As(upto, enough) ==
        {[at |-> Len(Entries!LabelBars(track, upto)), entry |-> s.entry, stop |-> s.stop,
          spent |-> track = "runner" /\ Entries!Exhausted(upto, x.previous)] :
            s \in {s \in Entries!Detected(track, upto, x) :
                    s.stop < s.entry /\ (track = "premarket" => enough)}}
<1>6. /\ Entries!SetupsAt(track, b, x, i) = As(SubSeq(b, 1, i), Len(b) - i >= K.ahead)
      /\ Entries!SetupsAt(track, c, x, i) = As(SubSeq(c, 1, i), Len(c) - i >= K.ahead)
  BY Zenon DEF Entries!SetupsAt
<1>7. Len(b) - i >= K.ahead => Len(c) - i >= K.ahead
  BY <1>2, <1>3, <1>5
<1>8. track = "premarket" => \A p : As(p, FALSE) = {}
  OBVIOUS
<1>9. track # "premarket" => \A p : As(p, TRUE) = As(p, FALSE)
  OBVIOUS
<1> HIDE DEF As
<1>10. CASE Len(b) - i >= K.ahead
  <2>1. (Len(b) - i >= K.ahead) = TRUE /\ (Len(c) - i >= K.ahead) = TRUE
    BY <1>7, <1>10
  <2> QED BY <1>1, <1>4, <1>6, <1>10, <2>1, Zenon
<1>11. CASE ~(Len(b) - i >= K.ahead)
  <2>1. (Len(b) - i >= K.ahead) = FALSE
    BY <1>11
  <2>2. track = "premarket" => Entries!SetupsAt(track, b, x, i) = {}
    BY <1>6, <1>8, <2>1, Zenon
  <2>3. track # "premarket" =>
            Entries!SetupsAt(track, c, x, i) = Entries!SetupsAt(track, b, x, i)
    <3>1. (Len(c) - i >= K.ahead) = TRUE \/ (Len(c) - i >= K.ahead) = FALSE
      OBVIOUS
    <3> QED BY <1>4, <1>6, <1>9, <2>1, <3>1, Zenon
  <2> QED BY <1>1, <1>11, <2>2, <2>3, Zenon
<1> QED BY <1>10, <1>11

\* A setup found is found again, however many bars follow.
LEMMA FiresStay ==
    ASSUME NEW t \in Seq(Shapes), NEW e \in Shapes, NEW track \in Entries!Tracks, NEW x
    PROVE  Entries!Fires(track, t, x) \subseteq Entries!Fires(track, Append(t, e), x)
<1>1. PICK b, c : b = Entries!TrackBars(track, t) /\ c = Entries!TrackBars(track, Append(t, e))
  OBVIOUS
<1>2. b \in Seq(Shapes) /\ (c = b \/ c = Append(b, e)) /\ c \in Seq(Shapes)
  <2>1. b \in Seq(Shapes) /\ (c = b \/ c = Append(b, e))
    BY <1>1, TrackStays
  <2>2. Append(b, e) \in Seq(Shapes)
    BY <2>1
  <2> QED BY <2>1, <2>2
<1>3. PICK k : IsSlid(k, track, b, x) /\ Entries!Fires(track, t, x) = k[Len(b)].setups
  BY <1>1, <1>2, SlidWalk
<1>4. CASE c = b
  <2>1. Entries!Fires(track, t, x) = Entries!Fires(track, Append(t, e), x)
    BY <1>1, <1>4, Zenon DEF Entries!Fires
  <2> QED BY <2>1
<1>5. CASE c = Append(b, e)
  <2>1. PICK g : IsSlid(g, track, c, x)
                 /\ Entries!Fires(track, Append(t, e), x) = g[Len(c)].setups
    BY <1>1, <1>2, SlidWalk
  <2>2. PICK N \in Nat : N = Len(b) /\ Len(c) = N + 1
    BY <1>2, <1>5
  <2> DEFINE D(s) == Entries!Decisions(track, s)
             Whole(i) == track = "premarket" => N - i >= K.ahead
             P == {i \in 0..N : /\ k[i].setups \subseteq g[i].setups
                                /\ Whole(i) => k[i] = g[i]}
  <2>3. 0 \in P
    BY <1>3, <2>1 DEF IsSlid
  <2>4. CASE D(b) = {}
    <3>1. \A i \in 1..N : k[i] = k[i - 1]
      BY <1>3, <2>2, <2>4 DEF IsSlid
    <3>2. k[0].setups = {}
      BY <1>3 DEF IsSlid
    <3>3. k[N].setups = {}
      <4>1. PICK V : V = {w \in {k[i] : i \in 0..N} : w.setups = {}}
        OBVIOUS
      <4>2. k[0] \in V
        BY <3>2, <4>1
      <4>3. \A i \in 1..N : k[i - 1] \in V => k[i] \in V
        BY <3>1
      <4> PICK p : p = k
        OBVIOUS
      <4>4. p[0] \in V
        BY <4>2
      <4>5. \A i \in 1..N : p[i - 1] \in V => p[i] \in V
        BY <4>3
      <4>6. \A i \in 0..N : p[i] \in V
        BY <4>4, <4>5, Stays
      <4>7. p[N] \in V
        BY <4>6
      <4> QED BY <4>1, <4>7
    <3> QED BY <1>3, <2>2, <3>3
  <2>5. CASE D(b) # {}
    <3>1. ASSUME NEW i \in 0..N, i \in P, i < N PROVE i + 1 \in P
      <4>1. PICK n \in 1..N : n = i + 1 /\ n - 1 = i
        BY <3>1
      <4>2. n \in 1..Len(b) /\ n \in 1..Len(c)
        BY <2>2
      <4>3. /\ k[n] = IF n \in D(b) THEN Entries!Slide(k[i], track, b, x, n) ELSE k[i]
            /\ g[n] = IF n \in D(c) THEN Entries!Slide(g[i], track, c, x, n) ELSE g[i]
        BY <1>3, <2>1, <4>1, <4>2 DEF IsSlid
      <4>4. n \in D(c) <=> n \in D(b)
        BY <1>2, <1>5, <2>5, <4>2, DecisionsStay
      <4>5. k[i].setups \subseteq g[i].setups /\ (Whole(i) => k[i] = g[i])
        BY <3>1
      <4>6. Whole(n) => Whole(i)
        <5>1. K.ahead \in Nat
          BY WindowFacts
        <5> QED BY <4>1, <5>1
      <4>7. CASE Whole(n)
        <5>1. Entries!SetupsAt(track, c, x, n) = Entries!SetupsAt(track, b, x, n)
          <6>1. track # "premarket" \/ Len(b) - n >= K.ahead
            BY <2>2, <4>7
          <6> QED BY <1>2, <1>5, <4>2, <6>1, SetupsStay
        <5>2. SubSeq(c, 1, n) = SubSeq(b, 1, n)
          <6>1. n \in 0..Len(b)
            BY <4>2
          <6> QED BY <1>2, <1>5, <6>1, PrefixStays
        <5>3. k[i] = g[i]
          BY <4>5, <4>6, <4>7
        <5>4. Entries!Slide(g[i], track, c, x, n) = Entries!Slide(k[i], track, b, x, n)
          BY <5>1, <5>2, <5>3, Zenon DEF Entries!Slide
        <5>5. k[n] = g[n]
          BY <4>3, <4>4, <5>3, <5>4, Zenon
        <5>6. n \in P
          BY <4>1, <5>5
        <5> QED BY <4>1, <5>6
      <4>8. CASE ~Whole(n)
        <5>1. track = "premarket" /\ ~(Len(b) - n >= K.ahead)
          BY <2>2, <4>8
        <5>2. Entries!SetupsAt(track, b, x, n) = {}
          BY <1>2, <4>2, <5>1, SetupsStay
        <5>3. Entries!Slide(k[i], track, b, x, n).setups = k[i].setups
          BY <5>2 DEF Entries!Slide
        <5>4. g[i].setups \subseteq Entries!Slide(g[i], track, c, x, n).setups
          BY SlideKeeps
        <5>5. k[n].setups = k[i].setups
          BY <4>3, <5>3, Zenon
        <5>6. g[i].setups \subseteq g[n].setups
          BY <4>3, <5>4, Zenon
        <5>7. k[n].setups \subseteq g[n].setups
          BY <4>5, <5>5, <5>6
        <5>8. n \in P
          BY <4>1, <4>8, <5>7
        <5> QED BY <4>1, <5>8
      <4> QED BY <4>7, <4>8
    <3>2. 0..N \subseteq P
      <4> HIDE DEF P
      <4> QED BY <2>3, <3>1, Induct
    <3>3. k[N].setups \subseteq g[N].setups
      <4>1. N \in P
        BY <3>2
      <4> QED BY <4>1
    <3>4. g[N].setups \subseteq g[N + 1].setups
      <4>1. PICK n : n = N + 1
        OBVIOUS
      <4>2. n \in 1..Len(c) /\ n - 1 = N
        BY <2>2, <4>1
      <4>3. g[n] = IF n \in D(c) THEN Entries!Slide(g[N], track, c, x, n) ELSE g[N]
        BY <2>1, <4>2 DEF IsSlid
      <4>4. g[N].setups \subseteq Entries!Slide(g[N], track, c, x, n).setups
        BY SlideKeeps
      <4> QED BY <4>1, <4>3, <4>4
    <3> QED BY <1>3, <2>1, <2>2, <3>3, <3>4
  <2> QED BY <2>4, <2>5
<1> QED BY <1>2, <1>4, <1>5

-----------------------------------------------------------------------------
(* No look-ahead: the outcome of a setup *)

\* A setup stands at the bars it was found on.
LEMMA FiresAt ==
    ASSUME NEW t \in Seq(Shapes), NEW track \in Entries!Tracks, NEW x,
           NEW s \in Entries!Fires(track, t, x)
    PROVE  s.at \in Nat
<1>1. PICK e \in Seq(Shapes) : e = Entries!TrackBars(track, t)
  <2>1. Entries!In(t, "premarket") \in Seq(Shapes) /\ Entries!In(t, "regular") \in Seq(Shapes)
    BY InIs
  <2>2. Entries!TrackBars(track, t) \in Seq(Shapes)
    BY <2>1 DEF Entries!TrackBars
  <2> QED BY <2>2
<1>2. PICK k : IsSlid(k, track, e, x) /\ Entries!Fires(track, t, x) = k[Len(e)].setups
  BY <1>1, SlidWalk
<1>3. s \in Findable(track, e, x)
  BY <1>2 DEF IsSlid
<1>4. PICK i \in 1..Len(e) : s \in Entries!SetupsAt(track, e, x, i)
  BY <1>3 DEF Findable
<1>5. PICK upto : upto = SubSeq(e, 1, i)
  OBVIOUS
<1>6. upto \in Seq(Shapes)
  <2>1. i \in 0..Len(e)
    OBVIOUS
  <2> QED BY <1>5, <2>1, PrefixIs
<1>7. s.at = Len(Entries!LabelBars(track, upto))
  BY <1>4, <1>5 DEF Entries!SetupsAt
<1>8. Entries!LabelBars(track, upto) \in Seq(Shapes)
  BY <1>6, InIs DEF Entries!LabelBars
<1>9. Len(Entries!LabelBars(track, upto)) \in Nat
  BY <1>8
<1> QED BY <1>7, <1>9

\* The bars before the stop stay, and are all of them once the stop is touched.
LEMMA BeforeStays ==
    ASSUME NEW q \in Seq(Shapes), NEW e \in Shapes, NEW s, s.at \in Nat
    PROVE  /\ Entries!Before(q, s) \subseteq Entries!Before(Append(q, e), s)
           /\ Entries!Before(q, s) \subseteq 1..Len(q)
           /\ Entries!Stopped(q, s) => Entries!Before(Append(q, e), s) = Entries!Before(q, s)
<1>0. PICK r : r = Append(q, e)
  OBVIOUS
<1>1. PICK N \in Nat, n \in Nat : r = Append(q, e) /\ N = Len(q) /\ n = s.at
  BY <1>0
<1>2. Len(r) = N + 1 /\ \A i \in 1..N : r[i] = q[i]
  BY <1>1
<1> DEFINE A == {i \in n + 1 .. N : q[i].low <= s.stop}
           B == {i \in n + 1 .. N + 1 : r[i].low <= s.stop}
<1>3. /\ Entries!Before(q, s) = IF A = {} THEN n + 1 .. N ELSE n + 1 .. Entries!Min(A) - 1
      /\ Entries!Before(r, s) = IF B = {} THEN n + 1 .. N + 1 ELSE n + 1 .. Entries!Min(B) - 1
  BY <1>1, <1>2, Zenon DEF Entries!Before
<1>4. A \in SUBSET Nat /\ B \in SUBSET Nat /\ \A i \in A : i <= N
  OBVIOUS
<1>5. \A i \in 1..(N + 1) : i \in A <=> i \in B /\ i <= N
  BY <1>2
<1>6. A \subseteq 1..(N + 1) /\ B \subseteq 1..(N + 1)
  <2>1. n + 1 .. N \subseteq 1..(N + 1) /\ n + 1 .. N + 1 \subseteq 1..(N + 1)
    OBVIOUS
  <2> QED BY <2>1
<1> HIDE DEF A, B
<1>7. CASE A = {}
  <2>1. ~Entries!Stopped(q, s)
    BY <1>1, <1>3, <1>7 DEF Entries!Stopped
  <2>2. B # {} => Entries!Min(B) = N + 1
    <3> HAVE B # {}
    <3>1. Entries!Min(B) \in B
      BY <1>4, MinIs
    <3>2. PICK m \in 1..(N + 1) : m = Entries!Min(B)
      BY <1>6, <3>1
    <3>3. ~(m <= N)
      BY <1>5, <1>7, <3>1, <3>2
    <3> QED BY <3>2, <3>3
  <2>3. Entries!Before(q, s) = n + 1 .. N
    BY <1>3, <1>7
  <2>4. Entries!Before(r, s) = n + 1 .. N \/ Entries!Before(r, s) = n + 1 .. N + 1
    <3>1. (N + 1) - 1 = N
      OBVIOUS
    <3> QED BY <1>3, <2>2, <3>1
  <2>5. n + 1 .. N \subseteq n + 1 .. N + 1 /\ n + 1 .. N \subseteq 1 .. N
    OBVIOUS
  <2> QED BY <1>1, <2>1, <2>3, <2>4, <2>5
<1>8. CASE A # {}
  <2>1. B # {}
    BY <1>5, <1>6, <1>8
  <2>2. PICK a, b : a = Entries!Min(A) /\ b = Entries!Min(B)
    OBVIOUS
  <2>3. a \in A /\ b \in B /\ (\A i \in A : a <= i) /\ (\A i \in B : b <= i)
    BY <1>4, <1>8, <2>1, <2>2, MinIs
  <2>4. a \in B /\ a <= N /\ a \in Nat /\ b \in Nat
    BY <1>4, <1>5, <1>6, <2>3
  <2>5. b <= a
    BY <2>3, <2>4
  <2>6. b \in A
    BY <1>5, <1>6, <2>3, <2>4, <2>5
  <2>7. a = b
    BY <2>3, <2>4, <2>5, <2>6
  <2>8. Entries!Before(q, s) = n + 1 .. a - 1 /\ Entries!Before(r, s) = n + 1 .. a - 1
    BY <1>3, <1>8, <2>1, <2>2, <2>7
  <2>9. n + 1 .. a - 1 \subseteq 1..N
    BY <2>4
  <2> QED BY <1>1, <2>8, <2>9
<1> QED BY <1>7, <1>8

\* What a race has reached is not changed by later bars, and is over once it is stopped.
LEMMA OutcomeStays ==
    ASSUME NEW q \in Seq(Shapes), NEW e \in Shapes, NEW s, s.at \in Nat,
           NEW r, r = q \/ r = Append(q, e)
    PROVE  /\ Entries!Outcome(q, s).two => Entries!Outcome(q, s).one
           /\ Entries!Outcome(q, s).one => Entries!Outcome(r, s).one
           /\ Entries!Stopped(q, s) => Entries!Outcome(r, s).one = Entries!Outcome(q, s).one
<1>1. \A b : /\ Entries!Outcome(b, s).one
                    = (Entries!Reached(b, s, 1) \/ Entries!Reached(b, s, 2))
             /\ Entries!Outcome(b, s).two = Entries!Reached(b, s, 2)
  BY DEF Entries!Outcome
<1>2. CASE r = q
  BY <1>1, <1>2
<1>3. CASE r = Append(q, e)
  <2>1. PICK A, B : A = Entries!Before(q, s) /\ B = Entries!Before(r, s)
    OBVIOUS
  <2>2. A \subseteq B /\ A \subseteq 1..Len(q) /\ (Entries!Stopped(q, s) => B = A)
    BY <1>3, <2>1, BeforeStays
  <2>3. \A i \in A : r[i] = q[i]
    <3>1. \A i \in 1..Len(q) : r[i] = q[i]
      BY <1>3
    <3> QED BY <2>2, <3>1
  <2>4. \A m : /\ Entries!Reached(q, s, m) => Entries!Reached(r, s, m)
               /\ Entries!Stopped(q, s) => (Entries!Reached(r, s, m) => Entries!Reached(q, s, m))
    <3> TAKE m
    <3>1. PICK line : line = s.entry + m * (s.entry - s.stop)
      OBVIOUS
    <3>2. /\ Entries!Reached(q, s, m) <=> \E i \in A : q[i].high >= line
          /\ Entries!Reached(r, s, m) <=> \E i \in B : r[i].high >= line
      BY <2>1, <3>1, Zenon DEF Entries!Reached
    <3> QED BY <2>2, <2>3, <3>2
  <2> QED BY <1>1, <2>4
<1> QED BY <1>2, <1>3

-----------------------------------------------------------------------------
(* No look-ahead: the trades of the backtest *)

\* A trade that an exit ended stays; one that was open at the last bar moves with it.
LEMMA ExitStays ==
    ASSUME NEW t \in Seq(Shapes), NEW e \in Shapes, NEW i \in Nat, NEW stop, NEW target,
           NEW a, a = Entries!ExitBar(t, i, stop, target),
           NEW b, b = Entries!ExitBar(Append(t, e), i, stop, target)
    PROVE  a = b \/ (a = Len(t) /\ b = Len(t) + 1)
<1>0. PICK r : r = Append(t, e)
  OBVIOUS
<1>1. PICK N \in Nat : N = Len(t)
  OBVIOUS
<1>2. Len(r) = N + 1 /\ \A j \in 1..N : r[j] = t[j]
  BY <1>0, <1>1
<1>m. PICK M \in Nat : M = Len(r) /\ M = N + 1
  BY <1>2
<1> DEFINE A == {j \in i + 1 .. N : t[j].low * 1000 <= stop \/ t[j].high * 1000 >= target}
           B == {j \in i + 1 .. M : r[j].low * 1000 <= stop \/ r[j].high * 1000 >= target}
<1>3. /\ a = IF A = {} THEN N ELSE Entries!Min(A)
      /\ b = IF B = {} THEN M ELSE Entries!Min(B)
  <2>1. a = IF A = {} THEN N ELSE Entries!Min(A)
    BY <1>1, Zenon DEF Entries!ExitBar
  <2>2. Entries!ExitBar(r, i, stop, target) = IF B = {} THEN M ELSE Entries!Min(B)
    BY <1>m, Zenon DEF Entries!ExitBar
  <2>3. b = Entries!ExitBar(r, i, stop, target)
    BY <1>0
  <2> QED BY <2>1, <2>2, <2>3, Zenon
<1>4. A \in SUBSET Nat /\ B \in SUBSET Nat
  OBVIOUS
<1>5. \A j \in 1..(N + 1) : j \in A <=> j \in B /\ j <= N
  <2> TAKE j \in 1..(N + 1)
  <2>1. j \in i + 1 .. N <=> j \in i + 1 .. M /\ j <= N
    BY <1>m
  <2>2. j <= N => r[j] = t[j]
    BY <1>2
  <2> QED BY <2>1, <2>2
<1>6. A \subseteq 1..(N + 1) /\ B \subseteq 1..(N + 1)
  <2>1. i + 1 .. N \subseteq 1..(N + 1) /\ i + 1 .. M \subseteq 1..(N + 1)
    BY <1>m
  <2> QED BY <2>1
<1> HIDE DEF A, B
<1>7. CASE A = {}
  <2>1. B # {} => Entries!Min(B) = N + 1
    <3> HAVE B # {}
    <3>1. Entries!Min(B) \in B
      BY <1>4, MinIs
    <3>2. PICK m \in 1..(N + 1) : m = Entries!Min(B)
      BY <1>6, <3>1
    <3>3. ~(m <= N)
      BY <1>5, <1>7, <3>1, <3>2
    <3> QED BY <3>2, <3>3
  <2> QED BY <1>1, <1>3, <1>m, <1>7, <2>1
<1>8. CASE A # {}
  <2>1. B # {}
    BY <1>5, <1>6, <1>8
  <2>2. a = Entries!Min(A) /\ b = Entries!Min(B)
    BY <1>3, <1>8, <2>1
  <2>3. a \in A /\ b \in B /\ (\A j \in A : a <= j) /\ (\A j \in B : b <= j)
    BY <1>4, <1>8, <2>1, <2>2, MinIs
  <2>4. a \in 1..(N + 1) /\ b \in 1..(N + 1) /\ a <= N /\ a \in B
    BY <1>5, <1>6, <2>3
  <2>5. b <= a
    BY <2>3, <2>4
  <2>6. b \in A
    BY <1>5, <2>3, <2>4, <2>5
  <2> QED BY <2>3, <2>4, <2>5, <2>6
<1> QED BY <1>7, <1>8

\* What a bar opens on a tape and on the tape with one bar more: the same trade, or one
\* still open at the last bar.
Carried(A, B, N) ==
    \/ A = {} /\ B = {}
    \/ \E a, b : A = {a} /\ B = {b} /\ (a = b \/ (a.exit = N /\ b.exit = N + 1))

LEMMA OpenedStays ==
    ASSUME NEW t \in Seq(Shapes), NEW e \in Shapes, NEW x, NEW i \in 1..(Len(t) - 1)
    PROVE  Carried(Entries!Opened(t, x, i), Entries!Opened(Append(t, e), x, i), Len(t))
<1>1. PICK r : r = Append(t, e)
  OBVIOUS
<1>2. PICK N \in Nat : N = Len(t)
  OBVIOUS
<1>3. /\ r \in Seq(Shapes) /\ i \in 1..(Len(r) - 1) /\ i \in 0..Len(t) /\ r[i + 1] = t[i + 1]
      /\ i + 1 \in Nat
  BY <1>1, <1>2
<1>4. SubSeq(r, 1, i) = SubSeq(t, 1, i)
  BY <1>1, <1>3, PrefixStays
<1>5. PICK signal : signal = Entries!Evaluate(SubSeq(t, 1, i), x, {})
  OBVIOUS
<1> DEFINE Bad == (i - 1) % K.every # 0 \/ signal.status # "ready"
           Good(trd) == /\ Entries!PositionSize(trd.price, trd.stop, {K.budget}, {}, {}) > 0
                        /\ trd.stop < trd.price
           Of(u, s) == Entries!Trade(u, i, s)
<1>6. \A u : u \in {t, r} => Entries!Opened(u, x, i)
          = IF Bad THEN {} ELSE {trd \in {Of(u, s) : s \in signal.setups} : Good(trd)}
  BY <1>4, <1>5, Zenon DEF Entries!Opened
<1>7. ASSUME NEW s PROVE
          /\ Good(Of(t, s)) <=> Good(Of(r, s))
          /\ Of(t, s) = Of(r, s) \/ (Of(t, s).exit = N /\ Of(r, s).exit = N + 1)
  <2>1. PICK price : price = 1000 * t[i + 1].open
    OBVIOUS
  <2>2. PICK target : target = price + 2 * (price - s.stop)
    OBVIOUS
  <2>3. price = 1000 * r[i + 1].open
    BY <1>3, <2>1
  <2>4. PICK a, b : /\ a = Entries!ExitBar(t, i + 1, s.stop, target)
                    /\ b = Entries!ExitBar(r, i + 1, s.stop, target)
    OBVIOUS
  <2>5. a = b \/ (a = N /\ b = N + 1)
    BY <1>1, <1>2, <1>3, <2>4, ExitStays
  <2>6. /\ Of(t, s) = [signal |-> i, entry |-> i + 1, price |-> price, stop |-> s.stop, exit |-> a]
        /\ Of(r, s) = [signal |-> i, entry |-> i + 1, price |-> price, stop |-> s.stop, exit |-> b]
    <3>1. Of(t, s) = [signal |-> i, entry |-> i + 1, price |-> price, stop |-> s.stop,
                      exit |-> Entries!ExitBar(t, i + 1, s.stop, target)]
      BY <2>1, <2>2 DEF Entries!Trade
    <3>2. Of(r, s) = [signal |-> i, entry |-> i + 1, price |-> price, stop |-> s.stop,
                      exit |-> Entries!ExitBar(r, i + 1, s.stop, target)]
      BY <2>2, <2>3 DEF Entries!Trade
    <3> QED BY <2>4, <3>1, <3>2, Zenon
  <2> HIDE DEF Of
  <2>7. /\ Of(t, s).price = price /\ Of(t, s).stop = s.stop /\ Of(t, s).exit = a
        /\ Of(r, s).price = price /\ Of(r, s).stop = s.stop /\ Of(r, s).exit = b
    BY <2>6
  <2>8. Good(Of(t, s)) <=> Good(Of(r, s))
    BY <2>7, Zenon
  <2>9. a = b => Of(t, s) = Of(r, s)
    BY <2>6
  <2> QED BY <2>5, <2>7, <2>8, <2>9
<1> HIDE DEF Good, Of, Bad
<1>8. PICK A, B : A = Entries!Opened(t, x, i) /\ B = Entries!Opened(r, x, i)
  OBVIOUS
<1>9. /\ A = IF Bad THEN {} ELSE {trd \in {Of(t, s) : s \in signal.setups} : Good(trd)}
      /\ B = IF Bad THEN {} ELSE {trd \in {Of(r, s) : s \in signal.setups} : Good(trd)}
  BY <1>6, <1>8
<1>10. /\ \A a, b : a \in A /\ b \in A => a = b
       /\ \A a, b : a \in B /\ b \in B => a = b
  <2>1. \A a \in Entries!Opened(t, x, i) : \A b \in Entries!Opened(t, x, i) : a = b
    BY OpenedOne
  <2>2. \A a \in Entries!Opened(r, x, i) : \A b \in Entries!Opened(r, x, i) : a = b
    BY <1>3, OpenedOne
  <2> QED BY <1>8, <2>1, <2>2
<1>11. \A a \in A : \E b \in B : a = b \/ (a.exit = N /\ b.exit = N + 1)
  <2> TAKE a \in A
  <2>1. PICK s \in signal.setups : a = Of(t, s) /\ Good(Of(t, s)) /\ ~Bad
    BY <1>9
  <2>2. Of(r, s) \in B
    <3>1. Good(Of(r, s))
      BY <1>7, <2>1
    <3> QED BY <1>9, <2>1, <3>1
  <2> QED BY <1>7, <2>1, <2>2
<1>12. B # {} => A # {}
  <2> SUFFICES ASSUME NEW b \in B PROVE A # {}
    OBVIOUS
  <2>1. PICK s \in signal.setups : b = Of(r, s) /\ Good(Of(r, s)) /\ ~Bad
    BY <1>9
  <2>2. Good(Of(t, s))
    BY <1>7, <2>1
  <2> QED BY <1>9, <2>1, <2>2
<1>13. Carried(A, B, N)
  <2>1. CASE A = {}
    BY <1>12, <2>1 DEF Carried
  <2>2. CASE A # {}
    <3>1. PICK a \in A : TRUE
      BY <2>2
    <3>2. PICK b \in B : a = b \/ (a.exit = N /\ b.exit = N + 1)
      BY <1>11, <3>1
    <3>3. A = {a} /\ B = {b}
      BY <1>10, <3>1, <3>2
    <3> QED BY <3>2, <3>3 DEF Carried
  <2> QED BY <2>1, <2>2
<1> QED BY <1>1, <1>2, <1>8, <1>13

\* The scans of a tape and of the tape with one bar more, at the same bar: they agree on
\* what is over, and resume together or not before the last bar.
Together(w, v, N) ==
    /\ \A a \in w.trades : a.exit < N => a \in v.trades
    /\ w.resume = v.resume \/ (w.resume > N /\ v.resume > N)

LEMMA TogetherKept ==
    ASSUME NEW t \in Seq(Shapes), NEW e \in Shapes, NEW r, r = Append(t, e), NEW x,
           NEW i \in 1..(Len(t) - 1), NEW w, NEW v, NEW y, NEW z,
           w.resume \in Nat, v.resume \in Nat, Together(w, v, Len(t)),
           ScanDone(w, y, t, x, i), ScanDone(v, z, r, x, i)
    PROVE  Together(y, z, Len(t))
<1>1. PICK N \in Nat : N = Len(t)
  OBVIOUS
<1>2. Len(r) = N + 1 /\ i \in 1..(N - 1) /\ i < N /\ i # N /\ i # N + 1
  BY <1>1
<1>3. PICK A, B : A = Entries!Opened(t, x, i) /\ B = Entries!Opened(r, x, i)
  OBVIOUS
<1>4. Carried(A, B, N)
  BY <1>1, <1>3, OpenedStays
<1>5. /\ \A a \in w.trades : a.exit < N => a \in v.trades
      /\ w.resume = v.resume \/ (w.resume > N /\ v.resume > N)
  BY <1>1 DEF Together
<1>6. \/ y.resume = w.resume /\ y.trades = w.trades /\ (i < w.resume \/ A = {})
      \/ \E a : i >= w.resume /\ A = {a} /\ y.resume = a.exit + 1 /\ y.trades = w.trades \cup {a}
  BY <1>1, <1>2, <1>3 DEF ScanDone
<1>7. \/ z.resume = v.resume /\ z.trades = v.trades /\ (i < v.resume \/ B = {})
      \/ \E a : i >= v.resume /\ B = {a} /\ z.resume = a.exit + 1 /\ z.trades = v.trades \cup {a}
  BY <1>1, <1>2, <1>3 DEF ScanDone
<1>8. CASE y.resume = w.resume /\ y.trades = w.trades /\ z.resume = v.resume /\ z.trades = v.trades
  BY <1>1, <1>5, <1>8 DEF Together
<1>9. CASE (i >= w.resume /\ A # {}) \/ (i >= v.resume /\ B # {})
  <2>1. w.resume = v.resume /\ i >= w.resume
    BY <1>2, <1>5, <1>9
  <2>2. PICK a, b : A = {a} /\ B = {b} /\ (a = b \/ (a.exit = N /\ b.exit = N + 1))
    BY <1>4, <1>9 DEF Carried
  <2>3. y.resume = a.exit + 1 /\ y.trades = w.trades \cup {a}
    <3>1. ~(i < w.resume) /\ A # {}
      BY <1>2, <2>1, <2>2
    <3>2. PICK c : A = {c} /\ y.resume = c.exit + 1 /\ y.trades = w.trades \cup {c}
      BY <1>6, <3>1
    <3>3. a = c
      BY <2>2, <3>2
    <3> QED BY <3>2, <3>3
  <2>4. z.resume = b.exit + 1 /\ z.trades = v.trades \cup {b}
    <3>1. ~(i < v.resume) /\ B # {}
      BY <1>2, <2>1, <2>2
    <3>2. PICK c : B = {c} /\ z.resume = c.exit + 1 /\ z.trades = v.trades \cup {c}
      BY <1>7, <3>1
    <3>3. b = c
      BY <2>2, <3>2
    <3> QED BY <3>2, <3>3
  <2>5. y.resume = z.resume \/ (y.resume > N /\ z.resume > N)
    BY <2>2, <2>3, <2>4
  <2>6. \A c \in y.trades : c.exit < N => c \in z.trades
    <3> SUFFICES ASSUME NEW c \in y.trades, c.exit < N PROVE c \in z.trades
      OBVIOUS
    <3>1. CASE c \in w.trades
      BY <1>5, <2>4, <3>1
    <3>2. CASE c = a
      <4>1. a = b
        BY <2>2, <3>2
      <4> QED BY <2>4, <3>2, <4>1
    <3> QED BY <2>3, <3>1, <3>2
  <2> QED BY <1>1, <2>5, <2>6 DEF Together
<1> QED BY <1>2, <1>6, <1>7, <1>8, <1>9

\* A trade that was over before the last bar stays as it is.
LEMMA TradesStay ==
    ASSUME NEW t \in Seq(Shapes), NEW e \in Shapes, NEW x,
           NEW a \in Entries!Trades(t, x), a.exit < Len(t)
    PROVE  a \in Entries!Trades(Append(t, e), x)
<1>1. PICK r, N \in Nat : N = Len(t)
  OBVIOUS
<1>2. PICK c : c = Append(t, e)
  OBVIOUS
<1>3. c \in Seq(Shapes) /\ Len(c) = N + 1
  BY <1>1, <1>2
<1>4. PICK k : IsScan(k, t, x)
  BY ScanWalk
<1>5. PICK g : IsScan(g, c, x)
  BY <1>3, ScanWalk
<1>6. /\ Entries!Trades(t, x) = k[N].trades /\ Entries!Trades(c, x) = g[N + 1].trades
      /\ k[0] = [resume |-> K.scan, trades |-> {}] /\ g[0] = [resume |-> K.scan, trades |-> {}]
      /\ \A i \in 1..N : k[i] = ScanAt(k[i - 1], t, x, i)
      /\ \A i \in 1..(N + 1) : g[i] = ScanAt(g[i - 1], c, x, i)
  BY <1>1, <1>3, <1>4, <1>5 DEF IsScan
<1>7. /\ \A i \in 0..N : k[i].resume \in Nat \ {0}
      /\ \A i \in 0..(N + 1) : g[i].resume \in Nat \ {0}
  <2>1. k \in [0..N -> Ledgers(t, x)] /\ g \in [0..(N + 1) -> Ledgers(c, x)]
    BY <1>1, <1>3, <1>4, <1>5 DEF IsScan
  <2>2. \A u : \A w \in Ledgers(u, x) : w.resume \in Nat \ {0}
    BY DEF Ledgers
  <2> QED BY <2>1, <2>2
<1>8. N # 0
  <2> SUFFICES ASSUME N = 0 PROVE FALSE
    OBVIOUS
  <2>1. k[0].trades = {}
    BY <1>6
  <2> QED BY <1>6, <2>1
<1>9. PICK M \in Nat : M = N - 1 /\ N = M + 1
  BY <1>8
<1> DEFINE P == {i \in 0..M : Together(k[i], g[i], N)}
<1>10. 0 \in P
  BY <1>6 DEF Together
<1>11. ASSUME NEW i \in 0..M, i \in P, i < M PROVE i + 1 \in P
  <2>1. PICK n \in 1..M : n = i + 1 /\ n - 1 = i
    BY <1>11
  <2>2. /\ n \in 1..(Len(t) - 1) /\ n \in 1..Len(t) /\ n \in 1..Len(c)
        /\ n \in 1..N /\ n \in 1..(N + 1) /\ i \in 0..N /\ i \in 0..(N + 1)
    BY <1>1, <1>3, <1>9
  <2>3. k[n] = ScanAt(k[i], t, x, n) /\ g[n] = ScanAt(g[i], c, x, n)
    BY <1>6, <2>1, <2>2
  <2>4. k[i].resume \in Nat \ {0} /\ g[i].resume \in Nat \ {0}
    BY <1>7, <2>2
  <2>5. PICK w, v, y, z : w = k[i] /\ v = g[i] /\ y = k[n] /\ z = g[n]
    OBVIOUS
  <2>6. ScanDone(w, y, t, x, n)
    BY <2>2, <2>3, <2>4, <2>5, ScanPass
  <2>7. ScanDone(v, z, c, x, n)
    BY <1>3, <2>2, <2>3, <2>4, <2>5, ScanPass
  <2>8. w.resume \in Nat /\ v.resume \in Nat /\ Together(w, v, Len(t))
    BY <1>1, <1>11, <2>4, <2>5
  <2>9. Together(y, z, Len(t))
    BY <1>2, <2>2, <2>6, <2>7, <2>8, TogetherKept
  <2> QED BY <1>1, <2>1, <2>5, <2>9
<1>12. M \in P
  <2> HIDE DEF P
  <2>1. 0..M \subseteq P
    BY <1>10, <1>11, Induct
  <2> QED BY <2>1
<1>13. k[N].trades = k[M].trades
  <2>1. N \in 1..Len(t) /\ M \in 0..N
    BY <1>1, <1>9
  <2>2. k[N] = ScanAt(k[M], t, x, N) /\ k[M].resume \in Nat \ {0}
    BY <1>6, <1>7, <1>9, <2>1
  <2>3. ScanDone(k[M], k[N], t, x, N)
    BY <2>1, <2>2, ScanPass
  <2> QED BY <1>1, <2>3 DEF ScanDone
<1>14. g[M].trades \subseteq g[N].trades /\ g[N].trades \subseteq g[N + 1].trades
  <2>1. \A w, u, i : w.trades \subseteq ScanAt(w, u, x, i).trades
    BY DEF ScanAt
  <2>2. N \in 1..(N + 1) /\ N - 1 = M
    BY <1>9
  <2>3. g[N] = ScanAt(g[M], c, x, N)
    BY <1>6, <2>2
  <2>4. PICK n : n = N + 1
    OBVIOUS
  <2>5. n \in 1..(N + 1) /\ n - 1 = N
    BY <2>4
  <2>6. g[n] = ScanAt(g[N], c, x, n)
    BY <1>6, <2>5
  <2> QED BY <2>1, <2>3, <2>4, <2>6
<1>15. a \in k[M].trades /\ a.exit < N
  BY <1>1, <1>6, <1>13
<1>16. a \in g[M].trades
  BY <1>12, <1>15 DEF Together
<1> QED BY <1>2, <1>6, <1>14, <1>16

-----------------------------------------------------------------------------
(* No look-ahead: the theorem *)

LEMMA OutcomesStay ==
    ASSUME NEW t \in Seq(Shapes), NEW e \in Shapes, NEW track \in Entries!Tracks, NEW x,
           NEW s \in Entries!Fires(track, t, x),
           NEW q, q = Entries!LabelBars(track, t),
           NEW r, r = Entries!LabelBars(track, Append(t, e))
    PROVE  /\ Entries!Outcome(q, s).two => Entries!Outcome(q, s).one
           /\ Entries!Outcome(q, s).one => Entries!Outcome(r, s).one
           /\ Entries!Stopped(q, s) => Entries!Outcome(r, s).one = Entries!Outcome(q, s).one
<1>1. q \in Seq(Shapes) /\ (r = q \/ r = Append(q, e))
  <2>1. PICK session : /\ q = Entries!In(t, session) /\ r = Entries!In(Append(t, e), session)
    BY DEF Entries!LabelBars
  <2> QED BY <2>1, InStays
<1>2. s.at \in Nat
  BY FiresAt
<1> QED BY <1>1, <1>2, OutcomeStays

\* The break-out is at the range.
AtRange(u) ==
    \A s \in Entries!OrbBreak(u) : <<s.breakout, s.stop>> =
        <<1000 * Entries!OpeningRange(u)[1], 995 * Entries!OpeningRange(u)[2]>>

LEMMA LevelsAgree == ASSUME NEW u \in Seq(Shapes) PROVE AtRange(u)
<1> SUFFICES ASSUME NEW s \in Entries!OrbBreak(u)
             PROVE  <<s.breakout, s.stop>> =
                        <<1000 * Entries!OpeningRange(u)[1], 995 * Entries!OpeningRange(u)[2]>>
  BY DEF AtRange
<1> QED BY OrbAtRange

LEMMA PastStays ==
    ASSUME NEW e \in Shapes, tape \in Seq(Shapes), tape' = Append(tape, e)
    PROVE  Entries!RangeAgreed /\ Entries!TimeSplit
<1> DEFINE Agreed(t, u) ==
               /\ Entries!OpeningRange(t) # <<>> =>
                      Entries!OpeningRange(u) = Entries!OpeningRange(t)
               /\ AtRange(u)
           Raced(t, u, track, s) ==
               LET old == Entries!Outcome(Entries!LabelBars(track, t), s)
                   new == Entries!Outcome(Entries!LabelBars(track, u), s)
               IN  /\ old.two => old.one
                   /\ old.one => new.one
                   /\ Entries!Stopped(Entries!LabelBars(track, t), s) => new.one = old.one
           Past(t, u, x) ==
               /\ \A track \in Entries!Tracks :
                      Entries!Fires(track, t, x) \subseteq Entries!Fires(track, u, x)
               /\ Entries!OrbSetup(t, x) \subseteq Entries!OrbSetup(u, x)
               /\ \A track \in Entries!Tracks : \A s \in Entries!Fires(track, t, x) :
                      Raced(t, u, track, s)
               /\ \A trd \in Entries!Trades(t, x) :
                      trd.exit < Len(t) => trd \in Entries!Trades(u, x)
<1>1. ASSUME NEW t \in Seq(Shapes) PROVE Agreed(t, Append(t, e))
  <2>1. Append(t, e) \in Seq(Shapes)
    OBVIOUS
  <2>2. AtRange(Append(t, e))
    BY <2>1, LevelsAgree
  <2> QED BY <2>2, RangeStays
<1>2. ASSUME NEW t \in Seq(Shapes), NEW x \in Contexts PROVE Past(t, Append(t, e), x)
  <2>1. \A track \in Entries!Tracks :
            Entries!Fires(track, t, x) \subseteq Entries!Fires(track, Append(t, e), x)
    BY FiresStay
  <2>2. Entries!OrbSetup(t, x) \subseteq Entries!OrbSetup(Append(t, e), x)
    BY OrbSetupStays
  <2>3. \A track \in Entries!Tracks : \A s \in Entries!Fires(track, t, x) :
            Raced(t, Append(t, e), track, s)
    BY OutcomesStay, Zenon
  <2>4. \A trd \in Entries!Trades(t, x) :
            trd.exit < Len(t) => trd \in Entries!Trades(Append(t, e), x)
    BY TradesStay
  <2> HIDE DEF Raced
  <2> QED BY <2>1, <2>2, <2>3, <2>4, Zenon
<1> HIDE DEF Agreed, Past
<1>3. Agreed(tape, tape') /\ \A x \in Contexts : Past(tape, tape', x)
  BY <1>1, <1>2
<1>4. Entries!RangeAgreed
  BY <1>3, Zenon DEF Entries!RangeAgreed, Agreed, AtRange
<1>5. Entries!TimeSplit
  BY <1>3, Zenon DEF Entries!TimeSplit, Past, Raced
<1> QED BY <1>4, <1>5

\* What research says of a moment is not changed by the bars after it: the opening range,
\* the setups with their features, the races that are over, the trades that have ended.
THEOREM NothingForeseen == RulesSpec => NoLookAhead
<1>1. RulesInit => TapeInv
  BY TapeStart DEF RulesInit
<1>2. TapeInv /\ [RulesNext]_<<part, exitVars, tape, journalVars>> => TapeInv'
  BY TapeStep
<1>3. ASSUME TapeInv, [RulesNext]_<<part, exitVars, tape, journalVars>>
      PROVE  [part = "entries" => Entries!RangeAgreed /\ Entries!TimeSplit]_tape
  <2>1. tape \in Seq(Shapes)
    BY <1>3 DEF TapeInv
  <2>2. tape' = tape \/ \E bar \in Shapes : tape' = Append(tape, bar)
    BY <1>3, TapeStep
  <2> QED BY <2>1, <2>2, PastStays
<1> QED BY <1>1, <1>2, <1>3, PTL DEF RulesSpec, NoLookAhead
=============================================================================
