----------------------------- MODULE MarksProofs -----------------------------
(***************************************************************************)
(* Proofs about marks: AssessmentAttempts, for any number of requests,     *)
(* attempts, questions and papers, and Examinations with ReportCards, for  *)
(* any number of exams, papers, results, students and requests.            *)
(*                                                                         *)
(* Both rest on facts about sums over finite sets, which come first.       *)
(***************************************************************************)
EXTENDS AssessmentAttempts, ReportCards, FiniteSetTheorems, TLAPS

-----------------------------------------------------------------------------
(* Sums over finite sets *)

\* Induction over a finite set, with the property given as a set.
LEMMA GrowsToAll ==
  ASSUME NEW S, IsFiniteSet(S), NEW Good, {} \in Good,
         \A T \in SUBSET S : \A x \in S \ T : T \in Good => T \cup {x} \in Good
  PROVE  S \in Good
<1> SUFFICES ASSUME S \notin Good PROVE FALSE
  OBVIOUS
<1> DEFINE Bad == {T \in SUBSET S : T \notin Good}
           R == StrictSubsetOrdering(S)
<1>1. IsWellFoundedOn(R, FiniteSubsetsOf(S))
  BY FS_StrictSubsetOrderingWellFounded
<1>2. Bad \subseteq FiniteSubsetsOf(S) /\ Bad # {}
  BY FS_Subset DEF FiniteSubsetsOf
<1>3. PICK T \in Bad : \A U \in Bad : ~(<<U, T>> \in R)
  <2> HIDE DEF Bad, R
  <2> QED BY <1>1, <1>2, WFMin, Zenon
<1>4. PICK x \in T : TRUE
  BY <1>3
<1>5. T \ {x} \in SUBSET S /\ T \ {x} # T /\ T \ {x} \subseteq T
  BY <1>3, <1>4
<1>6. T \ {x} \notin Bad
  BY <1>3, <1>5 DEF StrictSubsetOrdering
<1>7. (T \ {x}) \cup {x} = T /\ x \in S \ (T \ {x})
  BY <1>3, <1>4
<1>8. T \in Good
  BY <1>5, <1>6, <1>7
<1> QED
  BY <1>3, <1>8

\* The least sets in a family of finite sets.
LEMMA Least ==
  ASSUME NEW S, IsFiniteSet(S), NEW Bad, Bad \subseteq SUBSET S, Bad # {}
  PROVE  \E T \in Bad : \A U \in SUBSET T : U # T => U \notin Bad
<1>1. IsWellFoundedOn(StrictSubsetOrdering(S), FiniteSubsetsOf(S))
  BY FS_StrictSubsetOrderingWellFounded
<1>2. Bad \subseteq FiniteSubsetsOf(S)
  BY FS_Subset DEF FiniteSubsetsOf
<1>3. PICK T \in Bad : \A U \in Bad : ~(<<U, T>> \in StrictSubsetOrdering(S))
  BY <1>1, <1>2, WFMin, Zenon
<1>4. \A U \in SUBSET T : U # T => U \notin Bad
  BY <1>3 DEF StrictSubsetOrdering
<1> QED
  BY <1>3, <1>4

Pick(s) == CHOOSE x \in s : TRUE

\* g adds f up over every subset of S.
Adds(g, f, S) ==
  g = [s \in SUBSET S |-> IF s = {} THEN 0 ELSE f[Pick(s)] + g[s \ {Pick(s)}]]

LEMMA AddsOnce ==
  ASSUME NEW f, NEW S, IsFiniteSet(S), NEW T, S \subseteq T,
         NEW g, Adds(g, f, S), NEW h, Adds(h, f, T)
  PROVE  \A s \in SUBSET S : g[s] = h[s]
<1> SUFFICES ASSUME {s \in SUBSET S : g[s] # h[s]} # {} PROVE FALSE
  OBVIOUS
<1> DEFINE Bad == {s \in SUBSET S : g[s] # h[s]}
<1>0. PICK s \in Bad : \A u \in SUBSET s : u # s => u \notin Bad
  <2>1. Bad \subseteq SUBSET S /\ Bad # {}
    OBVIOUS
  <2> HIDE DEF Bad
  <2> QED BY <2>1, Least
<1>1. /\ s \in SUBSET S /\ g[s] # h[s]
      /\ \A u \in SUBSET s : u # s => g[u] = h[u]
  BY <1>0
<1>2. CASE s = {}
  BY <1>1, <1>2 DEF Adds
<1>3. CASE s # {}
  <2>1. Pick(s) \in s
    BY <1>3 DEF Pick
  <2>2. g[s \ {Pick(s)}] = h[s \ {Pick(s)}]
    BY <1>1, <2>1
  <2>3. g[s] = f[Pick(s)] + g[s \ {Pick(s)}]
    BY <1>3 DEF Adds
  <2>4. h[s] = f[Pick(s)] + h[s \ {Pick(s)}]
    BY <1>3 DEF Adds
  <2> QED
    BY <1>1, <2>2, <2>3, <2>4
<1> QED
  BY <1>2, <1>3

LEMMA AddsExists ==
  ASSUME NEW f, NEW S, IsFiniteSet(S)
  PROVE  \E g : Adds(g, f, S)
<1> DEFINE Bad == {s \in SUBSET S : ~\E g : Adds(g, f, s)}
<1> SUFFICES ASSUME Bad # {} PROVE FALSE
  OBVIOUS
<1>1. PICK T \in Bad : \A s \in SUBSET T : s # T => s \notin Bad
  <2> HIDE DEF Bad
  <2>1. Bad \subseteq SUBSET S
    BY DEF Bad
  <2> QED BY <2>1, Least
<1>2. T \in SUBSET S /\ IsFiniteSet(T)
  BY <1>1, FS_Subset
<1> DEFINE G(s) == CHOOSE g : Adds(g, f, s)
<1>3. \A s \in SUBSET T : s # T => Adds(G(s), f, s)
  BY <1>1, <1>2
<1> DEFINE v(s) == IF s = {} THEN 0 ELSE f[Pick(s)] + G(s \ {Pick(s)})[s \ {Pick(s)}]
           h == [s \in SUBSET T |-> v(s)]
<1>4. ASSUME NEW s \in SUBSET T, s # {}
      PROVE  h[s \ {Pick(s)}] = G(s \ {Pick(s)})[s \ {Pick(s)}]
  <2> DEFINE u == s \ {Pick(s)}
  <2>1. Pick(s) \in s
    BY <1>4 DEF Pick
  <2>2. u \in SUBSET T /\ u # T
    BY <2>1
  <2>3. Adds(G(u), f, u) /\ h[u] = v(u)
    BY <2>2, <1>3
  <2>4. CASE u = {}
    <3> HIDE DEF G
    <3> QED BY <2>3, <2>4 DEF Adds
  <2>5. CASE u # {}
    <3> DEFINE w == u \ {Pick(u)}
    <3>1. Pick(u) \in u
      BY <2>5 DEF Pick
    <3>2. w \in SUBSET T /\ w # T /\ w \subseteq u
      BY <2>2, <3>1
    <3>3. Adds(G(w), f, w)
      BY <3>2, <1>3
    <3>4. IsFiniteSet(w)
      BY <1>2, <3>2, FS_Subset
    <3>5. G(w)[w] = G(u)[w]
      <4> HIDE DEF G, u, w
      <4> QED BY <2>3, <3>2, <3>3, <3>4, AddsOnce
    <3>6. G(u)[u] = f[Pick(u)] + G(u)[w]
      <4> HIDE DEF G
      <4> QED BY <2>3, <2>5 DEF Adds
    <3> QED
      <4> HIDE DEF G
      <4> QED BY <2>3, <2>5, <3>5, <3>6
  <2> QED
    BY <2>4, <2>5
<1>5. Adds(h, f, T)
  <2>1. \A s \in SUBSET T : h[s] = IF s = {} THEN 0 ELSE f[Pick(s)] + h[s \ {Pick(s)}]
    <3> HIDE DEF G
    <3> QED BY <1>4
  <2>2. h = [s \in SUBSET T |-> h[s]]
    OBVIOUS
  <2> HIDE DEF h
  <2> QED BY <2>1, <2>2 DEF Adds
<1> QED
  BY <1>1, <1>5

LEMMA SumIsAdds ==
  ASSUME NEW f, NEW S, IsFiniteSet(S)
  PROVE  \E g : Adds(g, f, S) /\ SumFunctionOnSet(f, S) = g[S]
<1> DEFINE g == CHOOSE x : Adds(x, f, S)
<1>1. Adds(g, f, S)
  BY AddsExists
<1>2. SumFunctionOnSet(f, S) = g[S]
  BY Zenon DEF SumFunctionOnSet, FoldFunctionOnSet, MapThenFoldSet, Adds, Pick
<1> QED
  BY <1>1, <1>2

\* A sum takes in one element after the other, in any order.
LEMMA SumOfNone ==
  ASSUME NEW f
  PROVE  SumFunctionOnSet(f, {}) = 0
<1>1. PICK g : Adds(g, f, {}) /\ SumFunctionOnSet(f, {}) = g[{}]
  BY SumIsAdds, FS_EmptySet
<1> QED
  BY <1>1 DEF Adds

LEMMA SumPicked ==
  ASSUME NEW f, NEW S, IsFiniteSet(S), S # {}
  PROVE  /\ Pick(S) \in S
         /\ SumFunctionOnSet(f, S) = f[Pick(S)] + SumFunctionOnSet(f, S \ {Pick(S)})
<1> DEFINE U == S \ {Pick(S)}
<1>1. PICK g : Adds(g, f, S) /\ SumFunctionOnSet(f, S) = g[S]
  BY SumIsAdds
<1>2. Pick(S) \in S
  BY DEF Pick
<1>3. IsFiniteSet(U) /\ U \in SUBSET S
  BY FS_Subset
<1>4. PICK h : Adds(h, f, U) /\ SumFunctionOnSet(f, U) = h[U]
  BY SumIsAdds, <1>3
<1>5. g[U] = h[U]
  <2> HIDE DEF U
  <2> QED BY <1>1, <1>3, <1>4, AddsOnce
<1>6. g[S] = f[Pick(S)] + g[U]
  BY <1>1 DEF Adds
<1> QED
  BY <1>1, <1>2, <1>4, <1>5, <1>6

LEMMA SumType ==
  ASSUME NEW f, NEW S, IsFiniteSet(S), \A x \in S : f[x] \in Int
  PROVE  SumFunctionOnSet(f, S) \in Int
<1> DEFINE Bad == {T \in SUBSET S : SumFunctionOnSet(f, T) \notin Int}
<1> SUFFICES ASSUME Bad # {} PROVE FALSE
  OBVIOUS
<1>1. PICK T \in Bad : \A U \in SUBSET T : U # T => U \notin Bad
  <2>1. Bad \subseteq SUBSET S
    OBVIOUS
  <2> HIDE DEF Bad
  <2> QED BY <2>1, Least
<1>2. T # {}
  <2>1. SumFunctionOnSet(f, {}) = 0
    BY SumOfNone
  <2>2. SumFunctionOnSet(f, T) \notin Int
    BY <1>1
  <2> QED BY <2>1, <2>2
<1>3. IsFiniteSet(T)
  BY <1>1, FS_Subset
<1>4. /\ Pick(T) \in T
      /\ SumFunctionOnSet(f, T) = f[Pick(T)] + SumFunctionOnSet(f, T \ {Pick(T)})
  BY <1>2, <1>3, SumPicked
<1>5. SumFunctionOnSet(f, T \ {Pick(T)}) \in Int
  BY <1>1, <1>4
<1>6. f[Pick(T)] \in Int
  BY <1>1, <1>4
<1> QED
  BY <1>1, <1>4, <1>5, <1>6

LEMMA SumTakesOut ==
  ASSUME NEW f, NEW S, IsFiniteSet(S), \A x \in S : f[x] \in Int, NEW y \in S
  PROVE  SumFunctionOnSet(f, S) = f[y] + SumFunctionOnSet(f, S \ {y})
<1> DEFINE Sigma(T) == SumFunctionOnSet(f, T)
           Bad == {T \in SUBSET S : \E z \in T : Sigma(T) # f[z] + Sigma(T \ {z})}
<1> SUFFICES ASSUME Bad # {} PROVE FALSE
  BY Zenon
<1>1. PICK T \in Bad : \A U \in SUBSET T : U # T => U \notin Bad
  <2>1. Bad \subseteq SUBSET S
    OBVIOUS
  <2> HIDE DEF Bad
  <2> QED BY <2>1, Least
<1>2. PICK z \in T : Sigma(T) # f[z] + Sigma(T \ {z})
  BY <1>1
<1>3. T \in SUBSET S /\ IsFiniteSet(T)
  BY <1>1, FS_Subset
<1> DEFINE x == Pick(T)
<1>4. x \in T /\ Sigma(T) = f[x] + Sigma(T \ {x})
  BY <1>2, <1>3, SumPicked
<1> HIDE DEF x
<1>5. x # z
  BY <1>2, <1>4
<1>6. Sigma(T \ {x}) = f[z] + Sigma((T \ {x}) \ {z})
  <2>1. T \ {x} \in SUBSET T /\ T \ {x} # T /\ z \in T \ {x} /\ T \ {x} \in SUBSET S
    BY <1>2, <1>3, <1>4, <1>5
  <2> HIDE DEF Sigma
  <2> QED BY <1>1, <2>1
<1>7. Sigma(T \ {z}) = f[x] + Sigma((T \ {z}) \ {x})
  <2>1. T \ {z} \in SUBSET T /\ T \ {z} # T /\ x \in T \ {z} /\ T \ {z} \in SUBSET S
    BY <1>2, <1>3, <1>4, <1>5
  <2> HIDE DEF Sigma
  <2> QED BY <1>1, <2>1
<1>8. (T \ {x}) \ {z} = (T \ {z}) \ {x}
  OBVIOUS
<1>9. Sigma((T \ {z}) \ {x}) \in Int
  <2>1. (T \ {z}) \ {x} \subseteq S
    BY <1>3
  <2>2. IsFiniteSet((T \ {z}) \ {x})
    BY <2>1, FS_Subset
  <2> QED BY <2>1, <2>2, SumType
<1>10. f[x] \in Int /\ f[z] \in Int
  BY <1>2, <1>3, <1>4
<1> HIDE DEF Sigma
<1>11. Sigma(T) = f[x] + (f[z] + Sigma((T \ {z}) \ {x}))
  BY <1>4, <1>6, <1>8
<1> QED
  BY <1>2, <1>7, <1>9, <1>10, <1>11

LEMMA SumTakesIn ==
  ASSUME NEW f, NEW S, IsFiniteSet(S), NEW y, y \notin S,
         \A x \in S \cup {y} : f[x] \in Int
  PROVE  SumFunctionOnSet(f, S \cup {y}) = f[y] + SumFunctionOnSet(f, S)
<1>1. IsFiniteSet(S \cup {y}) /\ (S \cup {y}) \ {y} = S
  BY FS_AddElement
<1> QED
  BY <1>1, SumTakesOut

\* An inequality between terms carries over to sums.
LEMMA SumsCompare ==
  ASSUME NEW S, IsFiniteSet(S), NEW f, NEW g, NEW c \in Int, NEW k \in Int,
         \A x \in S : f[x] \in Int /\ g[x] \in Int /\ c * f[x] <= k * g[x]
  PROVE  c * SumFunctionOnSet(f, S) <= k * SumFunctionOnSet(g, S)
<1> DEFINE F(T) == SumFunctionOnSet(f, T)
           G(T) == SumFunctionOnSet(g, T)
           Good == {T \in SUBSET S : c * F(T) <= k * G(T)}
<1>1. {} \in Good
  <2>1. F({}) = 0 /\ G({}) = 0
    BY SumOfNone
  <2> HIDE DEF F, G
  <2> QED BY <2>1
<1>2. ASSUME NEW T \in SUBSET S, NEW y \in S \ T, T \in Good
      PROVE  T \cup {y} \in Good
  <2>1. IsFiniteSet(T)
    BY FS_Subset
  <2>2. F(T) \in Int /\ G(T) \in Int /\ f[y] \in Int /\ g[y] \in Int
    BY <2>1, SumType
  <2>3. F(T \cup {y}) = f[y] + F(T) /\ G(T \cup {y}) = g[y] + G(T)
    BY <2>1, SumTakesIn
  <2> HIDE DEF F, G
  <2>4. /\ c * (f[y] + F(T)) = c * f[y] + c * F(T)
        /\ k * (g[y] + G(T)) = k * g[y] + k * G(T)
    BY <2>2
  <2>5. c * F(T) <= k * G(T) /\ c * f[y] <= k * g[y]
    BY <1>2
  <2>6. c * F(T) \in Int /\ k * G(T) \in Int /\ c * f[y] \in Int /\ k * g[y] \in Int
    BY <2>2
  <2>7. c * f[y] + c * F(T) <= k * g[y] + k * G(T)
    BY <2>5, <2>6
  <2> QED
    BY <2>3, <2>4, <2>7
<1>3. S \in Good
  <2> HIDE DEF Good
  <2> QED BY <1>1, <1>2, GrowsToAll, Zenon
<1> QED
  BY <1>3

LEMMA SumsAgree ==
  ASSUME NEW S, IsFiniteSet(S), NEW f, NEW g,
         \A x \in S : f[x] \in Int /\ g[x] = f[x]
  PROVE  SumFunctionOnSet(f, S) = SumFunctionOnSet(g, S)
<1>1. SumFunctionOnSet(f, S) \in Int /\ SumFunctionOnSet(g, S) \in Int
  BY SumType
<1>2. 1 * SumFunctionOnSet(f, S) <= 1 * SumFunctionOnSet(g, S)
  BY SumsCompare
<1>3. 1 * SumFunctionOnSet(g, S) <= 1 * SumFunctionOnSet(f, S)
  BY SumsCompare
<1> QED
  BY <1>1, <1>2, <1>3

\* Terms that are zero may be left out, and others only add to a sum.
LEMMA SumOfPart ==
  ASSUME NEW S, IsFiniteSet(S), NEW T \in SUBSET S, NEW f,
         \A x \in S : f[x] \in Nat
  PROVE  /\ SumFunctionOnSet(f, T) <= SumFunctionOnSet(f, S)
         /\ (\A x \in S \ T : f[x] = 0) => SumFunctionOnSet(f, T) = SumFunctionOnSet(f, S)
<1> DEFINE F(U) == SumFunctionOnSet(f, U)
           Good == {U \in SUBSET S : /\ F(U \cap T) <= F(U)
                                     /\ (\A x \in S \ T : f[x] = 0) => F(U \cap T) = F(U)}
<1>1. {} \in Good
  <2>1. F({}) = 0
    BY SumOfNone
  <2>2. {} \cap T = {}
    OBVIOUS
  <2> HIDE DEF F
  <2> QED BY <2>1, <2>2
<1>2. ASSUME NEW U \in SUBSET S, NEW y \in S \ U, U \in Good
      PROVE  U \cup {y} \in Good
  <2>0. F(U \cap T) <= F(U) /\ ((\A x \in S \ T : f[x] = 0) => F(U \cap T) = F(U))
    BY <1>2
  <2>1. IsFiniteSet(U) /\ IsFiniteSet(U \cap T) /\ y \notin U \cap T
    BY FS_Subset
  <2>2. F(U) \in Int /\ F(U \cap T) \in Int /\ f[y] \in Nat
    BY <2>1, SumType
  <2>3. F(U \cup {y}) = f[y] + F(U)
    BY <2>1, SumTakesIn
  <2> DEFINE V == U \cup {y}
  <2> SUFFICES /\ F(V \cap T) <= F(V)
               /\ (\A x \in S \ T : f[x] = 0) => F(V \cap T) = F(V)
    BY Zenon
  <2>4. CASE y \in T
    <3>1. (U \cup {y}) \cap T = (U \cap T) \cup {y}
      BY <2>4
    <3>2. F((U \cap T) \cup {y}) = f[y] + F(U \cap T)
      BY <2>1, SumTakesIn
    <3> QED BY <2>0, <2>2, <2>3, <3>1, <3>2
  <2>5. CASE y \notin T
    <3>1. (U \cup {y}) \cap T = U \cap T
      BY <2>5
    <3>2. (\A x \in S \ T : f[x] = 0) => f[y] = 0
      BY <2>5
    <3> QED BY <2>0, <2>2, <2>3, <3>1, <3>2
  <2> QED
    BY <2>4, <2>5
<1>3. S \in Good
  <2> HIDE DEF Good
  <2> QED BY <1>1, <1>2, GrowsToAll, Zenon
<1>4. S \cap T = T
  OBVIOUS
<1> HIDE DEF F
<1> QED
  BY <1>3, <1>4 DEF F

LEMMA SumOfOnes ==
  ASSUME NEW S, IsFiniteSet(S), NEW f, \A x \in S : f[x] = 1
  PROVE  SumFunctionOnSet(f, S) = Cardinality(S)
<1> DEFINE Good == {T \in SUBSET S : SumFunctionOnSet(f, T) = Cardinality(T)}
<1>1. {} \in Good
  BY SumOfNone, FS_EmptySet
<1>2. ASSUME NEW T \in SUBSET S, NEW y \in S \ T, T \in Good
      PROVE  T \cup {y} \in Good
  <2>1. IsFiniteSet(T)
    BY FS_Subset
  <2>2. Cardinality(T \cup {y}) = Cardinality(T) + 1 /\ Cardinality(T) \in Nat
    BY <2>1, FS_AddElement, FS_CardinalityType
  <2>3. SumFunctionOnSet(f, T \cup {y}) = 1 + SumFunctionOnSet(f, T)
    BY <2>1, SumTakesIn
  <2> QED
    BY <1>2, <2>2, <2>3
<1>3. S \in Good
  <2> HIDE DEF Good
  <2> QED BY <1>1, <1>2, GrowsToAll, Zenon
<1> QED
  BY <1>3

LEMMA SumNatural ==
  ASSUME NEW f, NEW S, IsFiniteSet(S), \A x \in S : f[x] \in Nat
  PROVE  SumFunctionOnSet(f, S) \in Nat
<1>1. SumFunctionOnSet(f, S) \in Int
  BY SumType
<1>2. \A x \in S : f[x] \in Int /\ 0 * f[x] <= 1 * f[x]
  OBVIOUS
<1>3. 0 * SumFunctionOnSet(f, S) <= 1 * SumFunctionOnSet(f, S)
  BY <1>2, SumsCompare
<1> QED
  BY <1>1, <1>3

\* Division rounds down.
LEMMA Divide ==
  ASSUME NEW a \in Int, NEW b \in Nat, b > 0
  PROVE  /\ a \div b \in Int
         /\ b * (a \div b) <= a /\ a < b * (a \div b) + b
         /\ \A m \in Int : m * b <= a => m <= a \div b
         /\ \A m \in Int : a < (m + 1) * b => a \div b <= m
<1> DEFINE d == a \div b
<1>1. d \in Int /\ b * d <= a /\ a < b * d + b
  OBVIOUS
<1> HIDE DEF d
<1>2. ASSUME NEW m \in Int, m * b <= a, d < m
      PROVE  FALSE
  <2>1. (m - d - 1) * b >= 0
    BY <1>1, <1>2
  <2>2. (m - d - 1) * b = m * b - b * d - b
    BY <1>1, <1>2
  <2> QED
    BY <1>1, <1>2, <2>1, <2>2
<1>3. ASSUME NEW m \in Int, a < (m + 1) * b, m < d
      PROVE  FALSE
  <2>1. (d - m - 1) * b >= 0
    BY <1>1, <1>3
  <2>2. (d - m - 1) * b = b * d - (m + 1) * b
    BY <1>1, <1>3
  <2> QED
    BY <1>1, <1>3, <2>1, <2>2
<1> QED
  BY <1>1, <1>2, <1>3 DEF d

-----------------------------------------------------------------------------
(* Attempts *)

Ended == Submitted \cup {"gone"}

\* Attempts are deleted with the assessment, and only then.
GoneTogether ==
  /\ exists => \A n \in Attempts : attempt[n] # "gone"
  /\ ~exists => \A n \in Attempts : attempt[n] \in {"none", "gone"} /\ result[n] = NoResult

Consecutive ==
  \A m, n \in Attempts : m < n /\ attempt[n] # "none" => attempt[m] \in Ended

Ready ==
  \A r \in Requests :
    /\ req[r].pc = "create" =>
         /\ req[r].n <= topLimit
         /\ \A m \in Attempts : m < req[r].n => attempt[m] \in Ended
    /\ req[r].pc \in {"save", "submit", "review"} => attempt[req[r].n] # "none"

LimitKept == limit <= topLimit

\* Before its first submission an attempt has no grades.
Ungraded ==
  \A n \in Attempts :
    /\ attempt[n] = "none" => grade[n] = NoGrades
    /\ n \notin disturbed /\ attempt[n] = "IN_PROGRESS" => grade[n] = NoGrades

Alone ==
  \A n \in Attempts \ disturbed : \A r, s \in Working(n) : r = s

\* What a request read still holds while nobody else works on the attempt.
Current ==
  \A r \in Requests :
    req[r].n \in Attempts \ disturbed /\ exists =>
      /\ req[r].pc \in {"save", "submit"} => attempt[req[r].n] = "IN_PROGRESS"
      /\ req[r].pc = "submit" => req[r].answers = content[req[r].n]
      /\ req[r].pc = "review" => req[r].score = Sum(grade[req[r].n])

IInv ==
  /\ TypeOK
  /\ GoneTogether
  /\ Consecutive
  /\ Ready
  /\ LimitKept
  /\ AttemptLimit
  /\ ResultMatchesStatus
  /\ Ungraded
  /\ Alone
  /\ Current
  /\ ScoreIsSumOfGrades


LEMMA RequestFields ==
  ASSUME NEW l, NEW n, NEW v, NEW a, NEW p, NEW t, NEW f
  PROVE  LET x == Request(l, n, v, a, p, t, f) IN
         /\ x.pc = l /\ x.n = n /\ x.paper = v /\ x.answers = a
         /\ x.score = p /\ x.total = t /\ x.finalize = f
  BY DEF Request

LEMMA IdleFields == Idle.pc = "idle" /\ Idle.answers \in Answers
  BY DEF Idle, Request, NoAnswers, Answers, Content

-----------------------------------------------------------------------------
LEMMA InitInv == Init => IInv
<1> SUFFICES ASSUME Init
             PROVE  IInv
  OBVIOUS
<1> USE DEF Init
<1>1. NoAnswers \in Answers /\ NoGrades \in Grades
  BY DEF NoAnswers, Answers, Content, NoGrades, Grades
<1>2. \A r \in Requests : req[r].pc = "idle" /\ req[r].answers \in Answers
  BY IdleFields
<1>3. \A n \in Attempts : result[n].status = "none"
  BY DEF NoResult
<1>4. TypeOK
  BY <1>1, <1>2, <1>3, BoundAssumption
     DEF TypeOK, Pc, ResultStatus, AttemptStatus
<1>5. limit \in Int /\ GoneTogether /\ Consecutive /\ Ready /\ LimitKept /\ AttemptLimit
  BY <1>2, LimitAssumption, BoundAssumption
     DEF GoneTogether, Consecutive, Ready, LimitKept, AttemptLimit, Attempts
<1>6. ResultMatchesStatus /\ Ungraded /\ Alone /\ Current /\ ScoreIsSumOfGrades
  BY <1>2, <1>3 DEF ResultMatchesStatus, Ungraded, Alone, Working, Current,
     ScoreIsSumOfGrades, Submitted
<1> QED
  BY <1>4, <1>5, <1>6 DEF IInv

\* The number a start reads is the next one, and all before it are submitted.
LEMMA NextNumber ==
  ASSUME TypeOK, Consecutive, exists, GoneTogether, InProgress = {},
         Cardinality(Completed) + 1 <= limit
  PROVE  /\ Cardinality(Completed) + 1 \in Attempts
         /\ \A m \in Attempts :
              m < Cardinality(Completed) + 1 => attempt[m] \in Submitted
<1> DEFINE C == Completed
           k == Cardinality(C)
<1>1. C \in SUBSET (1 .. AttemptBound) /\ AttemptBound \in Nat
  BY BoundAssumption DEF Completed, Attempts
<1>2. IsFiniteSet(1 .. AttemptBound)
  BY <1>1, FS_Interval
<1>3. IsFiniteSet(C) /\ k \in Nat
  BY <1>1, <1>2, FS_Subset, FS_CardinalityType
<1>4. \A m \in C : m \in 1 .. k
  <2> SUFFICES ASSUME NEW m \in C
               PROVE  m \in 1 .. k
    OBVIOUS
  <2>1. m \in Nat /\ m >= 1
    BY <1>1
  <2>2. 1 .. m \subseteq C
    BY <1>1, <2>1 DEF Completed, Consecutive, Attempts, GoneTogether, Ended, Submitted
  <2>3. Cardinality(1 .. m) = m
    BY <2>1, FS_Interval
  <2>4. Cardinality(1 .. m) <= Cardinality(C)
    BY <1>3, <2>2, FS_Subset
  <2> QED
    BY <1>3, <2>1, <2>3, <2>4
<1>5. IsFiniteSet(1 .. k) /\ Cardinality(1 .. k) = k
  <2> HIDE DEF k
  <2> QED
    BY <1>3, FS_Interval
<1>6. C \in SUBSET (1 .. k)
  BY <1>4
<1>7. C = 1 .. k
  BY <1>5, <1>6, FS_Subset
<1>8. limit \in 1 .. AttemptBound
  BY LimitAssumption DEF TypeOK, Attempts
<1>9. k + 1 \in Attempts
  BY <1>1, <1>3, <1>8 DEF Attempts
<1>10. \A m \in Attempts : m < k + 1 => m \in C
  <2> HIDE DEF k, C
  <2> QED
    BY <1>1, <1>3, <1>7 DEF Attempts
<1> QED
  BY <1>9, <1>10 DEF Completed

-----------------------------------------------------------------------------
(* Steps *)

\* The steps with requests, one by one, for case splits.
LEMMA StepCases ==
  ASSUME Next
  PROVE  \/ Administration
         \/ \E r \in Requests :
              \/ ReadForStart(r) \/ CreateAttempt(r) \/ SaveAnswers(r)
              \/ SubmitAttempt(r) \/ WriteReview(r) \/ Abort(r)
         \/ \E r \in Requests, n \in Attempts :
              \/ ReadForSave(r, n) \/ ReadForSubmit(r, n)
              \/ \E finalize \in BOOLEAN : ReadForReview(r, n, finalize)
  BY DEF Next, RequestStep

LEMMA SavedTyped ==
  ASSUME TypeOK, NEW n \in Attempts, NEW S \in SUBSET Questions,
         NEW new \in [S -> Content \ {"none"}]
  PROVE  /\ [q \in Questions |-> IF q \in S THEN new[q] ELSE content[n][q]] \in Answers
         /\ [q \in Questions |-> IF q \in S THEN NoMark ELSE grade[n][q]] \in Grades
<1>1. content[n] \in Answers /\ grade[n] \in Grades
  BY DEF TypeOK
<1> QED
  BY <1>1 DEF Answers, Grades

LEMMA GradesTyped ==
  ASSUME NEW answers \in Answers, NEW old \in Grades
  PROVE  AutoGrade(answers, old) \in Grades
<1>1. \A q \in Questions : Mark[q] \in Int /\ Penalty \in Int
  BY MarkAssumption
<1>2. \A q \in Questions : Awarded(q, answers[q]) \in Int
  BY <1>1 DEF Awarded
<1> QED
  BY <1>2 DEF AutoGrade, Grades

LEMMA TypeStep == IInv /\ [Next]_vars => TypeOK'
<1> SUFFICES ASSUME IInv, TypeOK, [Next]_vars
             PROVE  TypeOK'
  BY DEF IInv
<1> USE DEF assessmentVars, attemptVars, Finish, Enter
<1> DEFINE ReqTyped ==
             /\ DOMAIN req = Requests
             /\ \A s \in Requests :
                  /\ req[s].pc \in Pc
                  /\ req[s].pc # "idle" => req[s].n \in Attempts
                  /\ req[s].pc \in {"save", "submit"} => req[s].paper \in 1 .. Versions
                  /\ req[s].answers \in Answers
<1>1. CASE UNCHANGED vars
  BY <1>1 DEF TypeOK, vars
<1>2. CASE ChangeAvailability \/ ChangeLimit
  BY <1>2 DEF TypeOK, ChangeAvailability, ChangeLimit
<1>3. NoAnswers \in Answers /\ NoGrades \in Grades
  BY DEF NoAnswers, Answers, Content, NoGrades, Grades
<1>4. CASE ReplaceQuestions
  BY <1>3, <1>4, BoundAssumption DEF TypeOK, ReplaceQuestions
<1>5. CASE DeleteAssessment
  BY <1>3, <1>5 DEF TypeOK, DeleteAssessment, AttemptStatus, NoResult, ResultStatus
<1>6. ASSUME NEW r \in Requests, req' = [req EXCEPT ![r] = Idle]
      PROVE  ReqTyped'
  BY <1>6, IdleFields DEF TypeOK, Pc
<1>7. ASSUME NEW r \in Requests, CreateAttempt(r)
      PROVE  TypeOK'
  BY <1>6, <1>7 DEF TypeOK, CreateAttempt, AttemptStatus
<1>8. ASSUME NEW r \in Requests, SaveAnswers(r)
      PROVE  TypeOK'
  <2>1. req[r].n \in Attempts /\ Paper[req[r].paper] \subseteq Questions
    BY <1>8, PaperAssumption DEF TypeOK, SaveAnswers
  <2>2. content' \in [Attempts -> Answers] /\ grade' \in [Attempts -> Grades]
    <3>1. PICK S \in SUBSET Paper[req[r].paper] :
            IF exists /\ paper = req[r].paper
            THEN \E new \in [S -> Content \ {"none"}] :
                   /\ content' = [content EXCEPT ![req[r].n] =
                        [q \in Questions |-> IF q \in S THEN new[q] ELSE content[req[r].n][q]]]
                   /\ grade' = [grade EXCEPT ![req[r].n] =
                        [q \in Questions |-> IF q \in S THEN NoMark ELSE grade[req[r].n][q]]]
            ELSE UNCHANGED <<content, grade>>
      BY <1>8 DEF SaveAnswers
    <3>2. CASE exists /\ paper = req[r].paper
      <4>1. S \in SUBSET Questions
        BY <2>1
      <4>2. PICK new \in [S -> Content \ {"none"}] :
              /\ content' = [content EXCEPT ![req[r].n] =
                   [q \in Questions |-> IF q \in S THEN new[q] ELSE content[req[r].n][q]]]
              /\ grade' = [grade EXCEPT ![req[r].n] =
                   [q \in Questions |-> IF q \in S THEN NoMark ELSE grade[req[r].n][q]]]
        BY <3>1, <3>2
      <4> QED
        BY <2>1, <4>1, <4>2, SavedTyped DEF TypeOK
    <3> QED
      BY <3>1, <3>2 DEF TypeOK
  <2> QED
    BY <1>6, <1>8, <2>2 DEF TypeOK, SaveAnswers
<1>9. ASSUME NEW r \in Requests, SubmitAttempt(r)
      PROVE  TypeOK'
  <2>1. req[r].n \in Attempts /\ AutoGrade(req[r].answers, grade[req[r].n]) \in Grades
    BY <1>9, GradesTyped DEF TypeOK, SubmitAttempt
  <2>2. /\ grade' \in [Attempts -> Grades] /\ attempt' \in [Attempts -> AttemptStatus]
        /\ DOMAIN result' = Attempts
        /\ \A n \in Attempts : result'[n].status \in ResultStatus
    BY <1>9, <2>1 DEF TypeOK, SubmitAttempt, AttemptStatus, Submitted, ResultStatus
  <2> QED
    BY <1>6, <1>9, <2>2 DEF TypeOK, SubmitAttempt
<1>10. ASSUME NEW r \in Requests, WriteReview(r)
       PROVE  TypeOK'
  <2>1. /\ attempt' \in [Attempts -> AttemptStatus]
        /\ DOMAIN result' = Attempts
        /\ \A n \in Attempts : result'[n].status \in ResultStatus
    BY <1>10 DEF TypeOK, WriteReview, AttemptStatus, Submitted, ResultStatus
  <2> QED
    BY <1>6, <1>10, <2>1 DEF TypeOK, WriteReview
<1>11. ASSUME NEW r \in Requests, Abort(r)
       PROVE  TypeOK'
  BY <1>6, <1>11 DEF TypeOK, Abort
<1>12. ASSUME NEW r \in Requests, NEW l \in Pc, NEW n \in Attempts, NEW v, NEW a \in Answers,
              NEW p, NEW t, NEW f, l \in {"save", "submit"} => v \in 1 .. Versions,
              req' = [req EXCEPT ![r] = Request(l, n, v, a, p, t, f)]
       PROVE  ReqTyped'
  <2> DEFINE x == Request(l, n, v, a, p, t, f)
  <2>1. x.pc = l /\ x.n = n /\ x.paper = v /\ x.answers = a
    BY RequestFields
  <2> HIDE DEF x
  <2> QED
    BY <1>12, <2>1 DEF TypeOK, x
<1>13. ASSUME NEW r \in Requests, ReadForStart(r)
       PROVE  TypeOK'
  <2>1. Cardinality(Completed) + 1 \in Attempts
    BY <1>13, NextNumber DEF ReadForStart, IInv
  <2>2. req' = [req EXCEPT ![r] =
               Request("create", Cardinality(Completed) + 1, 0, NoAnswers, 0, 0, FALSE)]
    BY <1>13 DEF ReadForStart
  <2>3. "create" \in Pc
    BY DEF Pc
  <2>4. ReqTyped'
    BY <1>3, <1>12, <2>1, <2>2, <2>3
  <2> QED
    BY <1>13, <2>4 DEF TypeOK, ReadForStart
<1>14. ASSUME NEW r \in Requests, NEW n \in Attempts, ReadForSave(r, n)
       PROVE  TypeOK'
  <2>1. req' = [req EXCEPT ![r] = Request("save", n, paper, NoAnswers, 0, 0, FALSE)]
    BY <1>14 DEF ReadForSave
  <2>2. paper \in 1 .. Versions /\ "save" \in Pc
    BY DEF TypeOK, Pc
  <2>3. ReqTyped'
    BY <1>3, <1>12, <2>1, <2>2
  <2> QED
    BY <1>14, <2>3 DEF TypeOK, ReadForSave
<1>15. ASSUME NEW r \in Requests, NEW n \in Attempts, ReadForSubmit(r, n)
       PROVE  TypeOK'
  <2>1. req' = [req EXCEPT ![r] = Request("submit", n, paper, content[n], 0, total, FALSE)]
    BY <1>15 DEF ReadForSubmit
  <2>2. paper \in 1 .. Versions /\ "submit" \in Pc /\ content[n] \in Answers
    BY DEF TypeOK, Pc
  <2>3. ReqTyped'
    BY <1>3, <1>12, <2>1, <2>2
  <2> QED
    BY <1>15, <2>3 DEF TypeOK, ReadForSubmit
<1>16. ASSUME NEW r \in Requests, NEW n \in Attempts, NEW f \in BOOLEAN, ReadForReview(r, n, f)
       PROVE  TypeOK'
  <2>1. req' = [req EXCEPT ![r] = Request("review", n, 0, NoAnswers, Sum(grade[n]), total, f)]
    BY <1>16 DEF ReadForReview
  <2>2. paper \in 1 .. Versions /\ "review" \in Pc /\ content[n] \in Answers
    BY DEF TypeOK, Pc
  <2>3. ReqTyped'
    BY <1>3, <1>12, <2>1, <2>2
  <2> QED
    BY <1>16, <2>3 DEF TypeOK, ReadForReview
<1> QED
  BY <1>1, <1>2, <1>4, <1>5, <1>7, <1>8, <1>9, <1>10, <1>11, <1>13, <1>14, <1>15, <1>16,
     StepCases DEF Administration

-----------------------------------------------------------------------------
(* What a step may do to the requests, to the attempts, and to their answers. *)
Begun(r) ==
  /\ UNCHANGED <<exists, attempt, content, grade, result, topLimit>>
  /\ req[r].pc = "idle"
  /\ \/ /\ req'[r].pc = "create"
        /\ req'[r].n \in Attempts /\ req'[r].n <= topLimit
        /\ \A m \in Attempts : m < req'[r].n => attempt[m] \in Submitted
     \/ /\ req'[r].pc \in {"save", "submit", "review"}
        /\ req'[r].n \in Attempts
        /\ attempt[req'[r].n] \notin {"none", "gone"}
        /\ req'[r].pc \in {"save", "submit"} => attempt[req'[r].n] = "IN_PROGRESS"
        /\ req'[r].pc = "submit" => req'[r].answers = content[req'[r].n]
        /\ req'[r].pc = "review" => req'[r].score = Sum(grade[req'[r].n])
        /\ Working(req'[r].n) = {} \/ req'[r].n \in disturbed'

LEMMA RequestMoves ==
  ASSUME IInv, Next
  PROVE  /\ disturbed \subseteq disturbed'
         /\ \/ UNCHANGED req
            \/ \E r \in Requests :
                 /\ \A s \in Requests \ {r} : req'[s] = req[s]
                 /\ req'[r].pc = "idle" \/ Begun(r)
<1> DEFINE Goal(r) == /\ \A s \in Requests \ {r} : req'[s] = req[s]
                      /\ req'[r].pc = "idle" \/ Begun(r)
           Mono == disturbed \subseteq disturbed'
<1>0. TypeOK /\ DOMAIN req = Requests
  BY DEF IInv, TypeOK
<1> USE DEF assessmentVars, attemptVars
<1>1. CASE Administration
  <2>1. UNCHANGED req /\ Mono
    BY <1>1 DEF Administration, ChangeAvailability, ChangeLimit, ReplaceQuestions,
       DeleteAssessment
  <2> QED
    BY <2>1
<1>2. ASSUME NEW r \in Requests,
             \/ CreateAttempt(r) \/ SaveAnswers(r)
             \/ SubmitAttempt(r) \/ WriteReview(r) \/ Abort(r)
      PROVE  Goal(r) /\ Mono
  <2>1. req' = [req EXCEPT ![r] = Idle] /\ Mono
    BY <1>2 DEF CreateAttempt, SaveAnswers, SubmitAttempt, WriteReview, Abort, Finish
  <2> QED
    BY <1>0, <2>1, IdleFields
<1>3. ASSUME NEW r \in Requests, ReadForStart(r)
      PROVE  Goal(r) /\ Mono
  <2> DEFINE n == Cardinality(Completed) + 1
  <2>1. /\ n \in Attempts /\ n <= limit
        /\ \A m \in Attempts : m < n => attempt[m] \in Submitted
    BY <1>0, <1>3, NextNumber DEF ReadForStart, IInv
  <2>2. req' = [req EXCEPT ![r] = Request("create", n, 0, NoAnswers, 0, 0, FALSE)]
    BY <1>3 DEF ReadForStart
  <2> HIDE DEF n
  <2>3. req'[r].pc = "create" /\ req'[r].n = n /\ \A s \in Requests \ {r} : req'[s] = req[s]
    BY <1>0, <2>2 DEF Request
  <2>4. n <= topLimit
    BY <1>0, <2>1, LimitAssumption, BoundAssumption DEF IInv, LimitKept, TypeOK, Attempts
  <2> QED
    BY <1>3, <2>1, <2>3, <2>4 DEF Begun, ReadForStart
<1>4. ASSUME NEW r \in Requests, NEW n \in Attempts, ReadForSave(r, n)
      PROVE  Goal(r) /\ Mono
  <2>1. req' = [req EXCEPT ![r] = Request("save", n, paper, NoAnswers, 0, 0, FALSE)]
    BY <1>4 DEF ReadForSave
  <2>2. req'[r].pc = "save" /\ req'[r].n = n /\ \A s \in Requests \ {r} : req'[s] = req[s]
    BY <1>0, <2>1 DEF Request
  <2>3. Mono /\ (Working(n) = {} \/ n \in disturbed')
    BY <1>4 DEF ReadForSave, Enter
  <2>4. Working(req'[r].n) = {} \/ req'[r].n \in disturbed'
    BY <2>2, <2>3
  <2>5. UNCHANGED <<exists, attempt, content, grade, result, topLimit>> /\ req[r].pc = "idle"
    BY <1>4 DEF ReadForSave
  <2>6. attempt[n] \notin {"none", "gone"} /\ (req'[r].pc # "review" => attempt[n] = "IN_PROGRESS")
    BY <1>4, <2>2 DEF ReadForSave
  <2> HIDE DEF Mono
  <2>7. Begun(r)
    BY <2>2, <2>4, <2>5, <2>6 DEF Begun
  <2> QED
    BY <2>2, <2>3, <2>7
<1>5. ASSUME NEW r \in Requests, NEW n \in Attempts, ReadForSubmit(r, n)
      PROVE  Goal(r) /\ Mono
  <2>1. req' = [req EXCEPT ![r] = Request("submit", n, paper, content[n], 0, total, FALSE)]
    BY <1>5 DEF ReadForSubmit
  <2>2. /\ req'[r].pc = "submit" /\ req'[r].n = n /\ req'[r].answers = content[n]
        /\ \A s \in Requests \ {r} : req'[s] = req[s]
    BY <1>0, <2>1 DEF Request
  <2>3. Mono /\ (Working(n) = {} \/ n \in disturbed')
    BY <1>5 DEF ReadForSubmit, Enter
  <2>4. Working(req'[r].n) = {} \/ req'[r].n \in disturbed'
    BY <2>2, <2>3
  <2>5. UNCHANGED <<exists, attempt, content, grade, result, topLimit>> /\ req[r].pc = "idle"
    BY <1>5 DEF ReadForSubmit
  <2>6. attempt[n] \notin {"none", "gone"} /\ (req'[r].pc # "review" => attempt[n] = "IN_PROGRESS")
    BY <1>5, <2>2 DEF ReadForSubmit
  <2> HIDE DEF Mono
  <2>7. Begun(r)
    BY <2>2, <2>4, <2>5, <2>6 DEF Begun
  <2> QED
    BY <2>2, <2>3, <2>7
<1>6. ASSUME NEW r \in Requests, NEW n \in Attempts, NEW f \in BOOLEAN, ReadForReview(r, n, f)
      PROVE  Goal(r) /\ Mono
  <2>1. req' = [req EXCEPT ![r] = Request("review", n, 0, NoAnswers, Sum(grade[n]), total, f)]
    BY <1>6 DEF ReadForReview
  <2>2. /\ req'[r].pc = "review" /\ req'[r].n = n /\ req'[r].score = Sum(grade[n])
        /\ \A s \in Requests \ {r} : req'[s] = req[s]
    BY <1>0, <2>1 DEF Request
  <2>3. Mono /\ (Working(n) = {} \/ n \in disturbed')
    BY <1>6 DEF ReadForReview, Enter
  <2>4. Working(req'[r].n) = {} \/ req'[r].n \in disturbed'
    BY <2>2, <2>3
  <2>5. UNCHANGED <<exists, attempt, content, grade, result, topLimit>> /\ req[r].pc = "idle"
    BY <1>6 DEF ReadForReview
  <2>6. attempt[n] \notin {"none", "gone"} /\ (req'[r].pc # "review" => attempt[n] = "IN_PROGRESS")
    BY <1>6, <2>2 DEF ReadForReview
  <2> HIDE DEF Mono
  <2>7. Begun(r)
    BY <2>2, <2>4, <2>5, <2>6 DEF Begun
  <2> QED
    BY <2>2, <2>3, <2>7
<1> HIDE DEF Goal, Mono
<1>7. \/ Mono /\ UNCHANGED req
      \/ \E r \in Requests : Mono /\ Goal(r)
  BY <1>1, <1>2, <1>3, <1>4, <1>5, <1>6, StepCases
     DEF Administration, ChangeAvailability, ChangeLimit, ReplaceQuestions, DeleteAssessment,
         Mono
<1> QED
  BY <1>7 DEF Goal, Mono

\* An attempt is opened in its turn, ended by a request that works on it, or
\* deleted with the assessment.
Opened(n) ==
  /\ exists /\ attempt[n] = "none" /\ attempt'[n] = "IN_PROGRESS" /\ n <= topLimit
  /\ \A m \in Attempts : m < n => attempt[m] \in Submitted
  /\ \A m \in Attempts \ {n} : attempt'[m] = attempt[m]

Graded(n) ==
  /\ attempt[n] \notin {"none", "gone"} /\ attempt'[n] \in Submitted
  /\ \A m \in Attempts \ {n} : attempt'[m] = attempt[m]

LEMMA AttemptMoves ==
  ASSUME IInv, Next
  PROVE  \/ DeleteAssessment
         \/ exists' = exists /\ attempt' = attempt
         \/ exists' = exists /\ \E n \in Attempts : Opened(n) \/ Graded(n)
<1>0. TypeOK /\ GoneTogether /\ Ready
  BY DEF IInv
<1> USE DEF assessmentVars, attemptVars
<1>1. ASSUME NEW r \in Requests, CreateAttempt(r)
      PROVE  exists' = exists /\ (attempt' = attempt \/ Opened(req[r].n)) /\ req[r].n \in Attempts
  <2>1. req[r].n \in Attempts
    BY <1>0, <1>1 DEF TypeOK, CreateAttempt
  <2>2. CASE exists /\ attempt[req[r].n] = "none"
    <3>1. /\ req[r].n <= topLimit
          /\ \A m \in Attempts : m < req[r].n => attempt[m] \in Submitted
      BY <1>0, <1>1, <2>2 DEF Ready, GoneTogether, CreateAttempt, Ended
    <3> QED
      BY <1>0, <1>1, <2>1, <2>2, <3>1 DEF Opened, CreateAttempt, TypeOK
  <2> QED
    BY <1>1, <2>1, <2>2 DEF CreateAttempt
<1>2. ASSUME NEW r \in Requests, SubmitAttempt(r) \/ WriteReview(r)
      PROVE  exists' = exists /\ (attempt' = attempt \/ Graded(req[r].n)) /\ req[r].n \in Attempts
  <2>1. req[r].n \in Attempts /\ attempt[req[r].n] # "none"
    BY <1>0, <1>2 DEF TypeOK, Ready, SubmitAttempt, WriteReview
  <2>2. exists => attempt[req[r].n] \notin {"none", "gone"}
    BY <1>0, <2>1 DEF GoneTogether
  <2> QED
    BY <1>0, <1>2, <2>1, <2>2 DEF Graded, SubmitAttempt, WriteReview, TypeOK, Submitted
<1>3. ASSUME \/ ChangeAvailability \/ ChangeLimit \/ ReplaceQuestions
             \/ \E r \in Requests : ReadForStart(r) \/ SaveAnswers(r) \/ Abort(r)
             \/ \E r \in Requests, n \in Attempts :
                  \/ ReadForSave(r, n) \/ ReadForSubmit(r, n)
                  \/ \E finalize \in BOOLEAN : ReadForReview(r, n, finalize)
      PROVE  exists' = exists /\ attempt' = attempt
  BY <1>3 DEF ChangeAvailability, ChangeLimit, ReplaceQuestions, ReadForStart, SaveAnswers,
     Abort, ReadForSave, ReadForSubmit, ReadForReview
<1> QED
  BY <1>1, <1>2, <1>3, StepCases DEF Administration

\* The answers, grades and result of an attempt change by a request that works on
\* it and ends, or with the paper or the assessment.
LEMMA DataMoves ==
  ASSUME IInv, Next, exists', NEW n \in Attempts, n \notin disturbed'
  PROVE  \/ /\ attempt'[n] = attempt[n] /\ content'[n] = content[n]
            /\ grade'[n] = grade[n] /\ result'[n] = result[n]
         \/ attempt[n] = "none"
         \/ \E r \in Working(n) :
              /\ req'[r].pc = "idle" /\ \A s \in Requests \ {r} : req'[s] = req[s]
              /\ SaveAnswers(r) \/ SubmitAttempt(r) \/ WriteReview(r)
<1>0. TypeOK
  BY DEF IInv
<1> DEFINE Same == /\ attempt'[n] = attempt[n] /\ content'[n] = content[n]
                   /\ grade'[n] = grade[n] /\ result'[n] = result[n]
<1> USE DEF assessmentVars, attemptVars
<1>1. ASSUME NEW r \in Requests, SaveAnswers(r) \/ SubmitAttempt(r) \/ WriteReview(r)
      PROVE  Same \/ (r \in Working(n) /\ req'[r].pc = "idle"
                        /\ \A s \in Requests \ {r} : req'[s] = req[s])
  <2>1. req' = [req EXCEPT ![r] = Idle]
    BY <1>1 DEF SaveAnswers, SubmitAttempt, WriteReview, Finish
  <2>2. req'[r].pc = "idle" /\ \A s \in Requests \ {r} : req'[s] = req[s]
    BY <1>0, <2>1, IdleFields DEF TypeOK
  <2>3. CASE req[r].n = n
    BY <1>1, <2>2, <2>3 DEF Working, SaveAnswers, SubmitAttempt, WriteReview
  <2>4. CASE req[r].n # n
    <3>1. CASE SaveAnswers(r)
      <4>1. content'[n] = content[n] /\ grade'[n] = grade[n]
        BY <1>0, <2>4, <3>1 DEF SaveAnswers, TypeOK
      <4> QED
        BY <3>1, <4>1 DEF SaveAnswers
    <3>2. CASE SubmitAttempt(r)
      BY <1>0, <2>4, <3>2 DEF SubmitAttempt, TypeOK
    <3>3. CASE WriteReview(r)
      BY <1>0, <2>4, <3>3 DEF WriteReview, TypeOK
    <3> QED
      BY <1>1, <3>1, <3>2, <3>3
  <2> QED
    BY <2>3, <2>4
<1>2. ASSUME NEW r \in Requests, CreateAttempt(r)
      PROVE  Same \/ attempt[n] = "none"
  BY <1>0, <1>2 DEF CreateAttempt, TypeOK
<1>3. CASE ReplaceQuestions
  BY <1>0, <1>3 DEF ReplaceQuestions, TypeOK
<1>4. ASSUME \/ ChangeAvailability \/ ChangeLimit
             \/ \E r \in Requests : ReadForStart(r) \/ Abort(r)
             \/ \E r \in Requests, m \in Attempts :
                  \/ ReadForSave(r, m) \/ ReadForSubmit(r, m)
                  \/ \E finalize \in BOOLEAN : ReadForReview(r, m, finalize)
      PROVE  Same
  BY <1>4 DEF ChangeAvailability, ChangeLimit, ReadForStart, Abort, ReadForSave,
     ReadForSubmit, ReadForReview
<1>5. CASE DeleteAssessment
  BY <1>5 DEF DeleteAssessment
<1> QED
  BY <1>1, <1>2, <1>3, <1>4, <1>5, StepCases DEF Administration

-----------------------------------------------------------------------------
(* The parts of the invariant. *)
LEMMA OrderStep ==
  IInv /\ Next => Consecutive' /\ AttemptLimit' /\ LimitKept'
<1> SUFFICES ASSUME IInv, Next
             PROVE  Consecutive' /\ AttemptLimit' /\ LimitKept'
  OBVIOUS
<1>0. TypeOK /\ Consecutive /\ AttemptLimit /\ LimitKept /\ TypeOK'
  BY TypeStep DEF IInv
<1>1. /\ limit \in Int /\ topLimit \in Int /\ limit' \in Int /\ topLimit' \in Int
      /\ \A n \in Attempts : n \in Int
  BY <1>0, LimitAssumption, BoundAssumption DEF TypeOK, Attempts
<1>2. topLimit <= topLimit' /\ LimitKept'
  <2>1. CASE ChangeLimit
    BY <1>1, <2>1 DEF ChangeLimit, LimitKept
  <2>2. CASE ~ChangeLimit
    <3>1. UNCHANGED <<limit, topLimit>>
      BY <2>2, StepCases DEF Administration, ChangeAvailability, ReplaceQuestions,
         DeleteAssessment, ReadForStart, CreateAttempt, SaveAnswers, SubmitAttempt,
         WriteReview, Abort, ReadForSave, ReadForSubmit, ReadForReview, assessmentVars
    <3> QED
      BY <1>0, <1>1, <3>1 DEF LimitKept
  <2> QED
    BY <2>1, <2>2
<1>3. Consecutive'
  <2>1. CASE DeleteAssessment
    BY <1>0, <2>1 DEF DeleteAssessment, Consecutive, Ended
  <2>2. ASSUME NEW n \in Attempts, Opened(n)
        PROVE  Consecutive'
    BY <1>0, <1>1, <2>2 DEF Opened, Consecutive, Ended, Submitted
  <2>3. ASSUME NEW n \in Attempts, Graded(n)
        PROVE  Consecutive'
    BY <1>0, <1>1, <2>3 DEF Graded, Consecutive, Ended, Submitted
  <2> QED
    BY <1>0, <2>1, <2>2, <2>3, AttemptMoves DEF Consecutive
<1>4. AttemptLimit'
  <2>1. \A n \in Attempts : attempt'[n] # "none" => attempt[n] # "none" \/ n <= topLimit
    BY AttemptMoves DEF DeleteAssessment, Opened, Graded
  <2> QED
    BY <1>0, <1>1, <1>2, <2>1 DEF AttemptLimit
<1> QED
  BY <1>2, <1>3, <1>4

LEMMA ReadyStep == IInv /\ Next => Ready'
<1> SUFFICES ASSUME IInv, Next
             PROVE  Ready'
  OBVIOUS
<1>0. TypeOK /\ Ready /\ TypeOK'
  BY TypeStep DEF IInv
<1>1. \A n \in Attempts : /\ attempt[n] # "none" => attempt'[n] # "none"
                          /\ attempt[n] \in Ended => attempt'[n] \in Ended
  BY AttemptMoves DEF DeleteAssessment, Opened, Graded, Ended, Submitted
<1>2. topLimit <= topLimit' /\ topLimit \in Int /\ topLimit' \in Int
      /\ \A n \in Attempts : n \in Int
  <2>1. topLimit \in Int /\ topLimit' \in Int /\ \A n \in Attempts : n \in Int
    BY <1>0, LimitAssumption, BoundAssumption DEF TypeOK, Attempts
  <2>2. limit' \in Int /\ (ChangeLimit => topLimit <= topLimit')
    BY <1>0, <2>1, LimitAssumption, BoundAssumption DEF TypeOK, Attempts, ChangeLimit
  <2>3. ~ChangeLimit => topLimit' = topLimit
    BY StepCases DEF Administration, ChangeAvailability, ReplaceQuestions,
       DeleteAssessment, ReadForStart, CreateAttempt, SaveAnswers, SubmitAttempt,
       WriteReview, Abort, ReadForSave, ReadForSubmit, ReadForReview, assessmentVars
  <2> QED
    BY <2>1, <2>2, <2>3
<1>3. ASSUME NEW r \in Requests, req'[r] = req[r]
      PROVE  /\ req'[r].pc = "create" =>
                  /\ req'[r].n <= topLimit'
                  /\ \A m \in Attempts : m < req'[r].n => attempt'[m] \in Ended
             /\ req'[r].pc \in {"save", "submit", "review"} => attempt'[req'[r].n] # "none"
  <2>1. req[r].pc # "idle" => req[r].n \in Attempts
    BY <1>0 DEF TypeOK
  <2> QED
    BY <1>0, <1>1, <1>2, <1>3, <2>1 DEF Ready
<1>4. ASSUME NEW r \in Requests, Begun(r)
      PROVE  /\ req'[r].pc = "create" =>
                  /\ req'[r].n <= topLimit'
                  /\ \A m \in Attempts : m < req'[r].n => attempt'[m] \in Ended
             /\ req'[r].pc \in {"save", "submit", "review"} => attempt'[req'[r].n] # "none"
  BY <1>4 DEF Begun, Ended
<1> QED
  BY <1>3, <1>4, RequestMoves DEF Ready

LEMMA GoneStep == IInv /\ Next => GoneTogether'
<1> SUFFICES ASSUME IInv, Next
             PROVE  GoneTogether'
  OBVIOUS
<1>0. TypeOK /\ GoneTogether /\ Ready
  BY DEF IInv
<1>1. CASE DeleteAssessment
  BY <1>0, <1>1 DEF DeleteAssessment, GoneTogether
<1>2. CASE ~DeleteAssessment /\ exists
  BY <1>0, <1>2, AttemptMoves DEF GoneTogether, Opened, Graded, Submitted
<1>3. CASE ~DeleteAssessment /\ ~exists
  <2>1. ~exists' /\ attempt' = attempt
    BY <1>0, <1>3, AttemptMoves DEF GoneTogether, Opened, Graded
  <2>2. UNCHANGED result
    BY <1>3, StepCases DEF Administration, ChangeAvailability, ChangeLimit,
       ReplaceQuestions, ReadForStart, CreateAttempt, SaveAnswers, SubmitAttempt,
       WriteReview, Abort, ReadForSave, ReadForSubmit, ReadForReview, attemptVars
  <2> QED
    BY <1>0, <1>3, <2>1, <2>2 DEF GoneTogether
<1> QED
  BY <1>1, <1>2, <1>3

LEMMA ResultStep == IInv /\ Next => ResultMatchesStatus'
<1> SUFFICES ASSUME IInv, Next
             PROVE  ResultMatchesStatus'
  OBVIOUS
<1>0. TypeOK /\ ResultMatchesStatus
  BY DEF IInv
<1> USE DEF attemptVars, assessmentVars, ResultMatchesStatus
<1>1. ASSUME NEW r \in Requests, SubmitAttempt(r)
      PROVE  ResultMatchesStatus'
  BY <1>0, <1>1 DEF SubmitAttempt, TypeOK
<1>2. ASSUME NEW r \in Requests, WriteReview(r)
      PROVE  ResultMatchesStatus'
  BY <1>0, <1>2 DEF WriteReview, TypeOK
<1>3. ASSUME NEW r \in Requests, CreateAttempt(r)
      PROVE  ResultMatchesStatus'
  BY <1>0, <1>3 DEF CreateAttempt, TypeOK
<1>4. CASE DeleteAssessment
  BY <1>0, <1>4 DEF DeleteAssessment, NoResult
<1>5. ASSUME UNCHANGED <<attempt, result>>
      PROVE  ResultMatchesStatus'
  BY <1>0, <1>5
<1> QED
  BY <1>1, <1>2, <1>3, <1>4, <1>5, StepCases DEF Administration, ChangeAvailability,
     ChangeLimit, ReplaceQuestions, ReadForStart, SaveAnswers, Abort, ReadForSave,
     ReadForSubmit, ReadForReview

LEMMA AloneStep == IInv /\ Next => Alone'
<1> SUFFICES ASSUME IInv, Next, NEW n \in Attempts, n \notin disturbed',
                    NEW r \in Requests, NEW s \in Requests,
                    r \in Working(n)', s \in Working(n)'
             PROVE  r = s
  BY DEF Alone, Working
<1>1. Alone /\ n \notin disturbed
  BY RequestMoves DEF IInv
<1>2. ASSUME NEW q \in Requests, q \in Working(n)'
      PROVE  q \in Working(n) \/ (Begun(q) /\ Working(n) = {}
                                    /\ \A t \in Requests \ {q} : req'[t] = req[t])
  BY <1>2, RequestMoves DEF Working, Begun
<1> QED
  BY <1>1, <1>2 DEF Alone, Working, Begun

LEMMA CurrentStep == IInv /\ Next => Current'
<1> SUFFICES ASSUME IInv, Next, exists', NEW r \in Requests,
                    req'[r].n \in Attempts, req'[r].n \notin disturbed'
             PROVE  /\ req'[r].pc \in {"save", "submit"} => attempt'[req'[r].n] = "IN_PROGRESS"
                    /\ req'[r].pc = "submit" => req'[r].answers = content'[req'[r].n]
                    /\ req'[r].pc = "review" => req'[r].score = Sum(grade'[req'[r].n])
  BY DEF Current, Sum
<1>0. Current /\ Alone /\ Ready /\ exists /\ req'[r].n \notin disturbed
  BY RequestMoves, AttemptMoves DEF IInv, DeleteAssessment
<1>1. CASE req'[r].pc \notin {"save", "submit", "review"}
  BY <1>1
<1>2. CASE Begun(r)
  BY <1>2 DEF Begun
<1>3. CASE req'[r] = req[r] /\ req[r].pc \in {"save", "submit", "review"}
  <2> DEFINE n == req[r].n
  <2>1. n \in Attempts /\ r \in Working(n) /\ attempt[n] # "none" /\ n \notin disturbed'
    BY <1>0, <1>3 DEF Working, Ready
  <2>2. /\ attempt'[n] = attempt[n] /\ content'[n] = content[n] /\ grade'[n] = grade[n]
    BY <1>0, <1>3, <2>1, DataMoves DEF Alone
  <2> QED
    BY <1>0, <1>3, <2>1, <2>2 DEF Current
<1> QED
  BY <1>1, <1>2, <1>3, RequestMoves

LEMMA UngradedStep == IInv /\ Next => Ungraded'
<1> SUFFICES ASSUME IInv, Next
             PROVE  Ungraded'
  OBVIOUS
<1>0. TypeOK /\ Ready /\ Ungraded /\ disturbed \subseteq disturbed'
  BY RequestMoves DEF IInv
<1> USE DEF attemptVars, assessmentVars
<1>1. ASSUME NEW r \in Requests, SaveAnswers(r)
      PROVE  Ungraded'
  <2>1. req[r].n \in Attempts /\ attempt[req[r].n] # "none" /\ UNCHANGED <<attempt, disturbed>>
    BY <1>0, <1>1 DEF SaveAnswers, Ready, TypeOK
  <2>2. /\ \A m \in Attempts \ {req[r].n} : grade'[m] = grade[m]
        /\ grade[req[r].n] = NoGrades => grade'[req[r].n] = NoGrades
    <3>1. \/ UNCHANGED grade
          \/ \E S \in SUBSET Paper[req[r].paper] :
               grade' = [grade EXCEPT ![req[r].n] =
                 [q \in Questions |-> IF q \in S THEN NoMark ELSE grade[req[r].n][q]]]
      BY <1>1 DEF SaveAnswers
    <3> QED
      BY <1>0, <2>1, <3>1 DEF TypeOK, NoGrades
  <2> QED
    BY <1>0, <2>1, <2>2 DEF Ungraded
<1>2. ASSUME NEW r \in Requests, SubmitAttempt(r)
      PROVE  Ungraded'
  <2>1. req[r].n \in Attempts /\ attempt[req[r].n] # "none" /\ UNCHANGED disturbed
    BY <1>0, <1>2 DEF SubmitAttempt, Ready, TypeOK
  <2>2. \/ UNCHANGED <<attempt, grade>>
        \/ /\ \A m \in Attempts \ {req[r].n} : grade'[m] = grade[m] /\ attempt'[m] = attempt[m]
           /\ attempt'[req[r].n] \in Submitted
    BY <1>0, <1>2, <2>1 DEF SubmitAttempt, TypeOK, Submitted
  <2> QED
    BY <1>0, <2>1, <2>2 DEF Ungraded, Submitted
<1>3. ASSUME NEW r \in Requests, WriteReview(r)
      PROVE  Ungraded'
  BY <1>0, <1>3 DEF WriteReview, Ungraded, TypeOK
<1>4. ASSUME NEW r \in Requests, CreateAttempt(r)
      PROVE  Ungraded'
  BY <1>0, <1>4 DEF CreateAttempt, Ungraded, TypeOK
<1>5. CASE DeleteAssessment \/ ReplaceQuestions
  BY <1>0, <1>5 DEF DeleteAssessment, ReplaceQuestions, Ungraded
<1>6. ASSUME UNCHANGED <<attempt, grade>>
      PROVE  Ungraded'
  BY <1>0, <1>6 DEF Ungraded
<1> QED
  BY <1>1, <1>2, <1>3, <1>4, <1>5, <1>6, StepCases DEF Administration, ChangeAvailability,
     ChangeLimit, ReadForStart, Abort, ReadForSave, ReadForSubmit, ReadForReview

\* An ungraded attempt is graded with what the submission counts.
LEMMA PointsAreGrades ==
  ASSUME NEW answers \in Answers
  PROVE  Points(answers) = Sum(AutoGrade(answers, NoGrades))
<1>1. [q \in Questions |->
         IF q \in Answered(answers) \ Manual THEN Awarded(q, answers[q]) ELSE NoMark]
      = AutoGrade(answers, NoGrades)
  BY DEF AutoGrade, NoGrades
<1> QED
  BY <1>1 DEF Points

LEMMA ScoreStep == IInv /\ Next => ScoreIsSumOfGrades'
<1> SUFFICES ASSUME IInv, Next, NEW n \in Attempts, n \notin disturbed',
                    attempt'[n] \in Submitted
             PROVE  result'[n].obtained = Sum(grade'[n])
  BY DEF ScoreIsSumOfGrades, Sum
<1>0. TypeOK /\ ScoreIsSumOfGrades /\ Ungraded /\ Current /\ n \notin disturbed
  BY RequestMoves DEF IInv
<1>1. exists' /\ exists
  BY GoneStep, AttemptMoves DEF GoneTogether, Submitted, DeleteAssessment
<1>2. attempt[n] # "none"
  BY <1>1, AttemptMoves DEF DeleteAssessment, Opened, Graded, Submitted
<1>3. CASE /\ attempt'[n] = attempt[n] /\ grade'[n] = grade[n] /\ result'[n] = result[n]
  BY <1>0, <1>3 DEF ScoreIsSumOfGrades
<1>4. ASSUME NEW r \in Working(n), SaveAnswers(r)
      PROVE  FALSE
  BY <1>0, <1>1, <1>4 DEF SaveAnswers, Current, Working, Submitted
<1>5. ASSUME NEW r \in Working(n), WriteReview(r)
      PROVE  result'[n].obtained = Sum(grade'[n])
  <2>1. req[r].score = Sum(grade[n]) /\ req[r].n = n
    BY <1>0, <1>1, <1>5 DEF WriteReview, Current, Working
  <2>2. grade'[n] = grade[n] /\ result'[n].obtained = req[r].score
    BY <1>0, <1>1, <1>5, <2>1 DEF WriteReview, TypeOK
  <2> QED
    BY <2>1, <2>2
<1>6. ASSUME NEW r \in Working(n), SubmitAttempt(r)
      PROVE  result'[n].obtained = Sum(grade'[n])
  <2>1. attempt[n] = "IN_PROGRESS" /\ req[r].n = n /\ req[r].answers \in Answers
    BY <1>0, <1>1, <1>6 DEF SubmitAttempt, Current, Working, TypeOK
  <2>2. grade[n] = NoGrades
    BY <1>0, <2>1 DEF Ungraded
  <2>3. attempt' # attempt
    BY <2>1 DEF Submitted
  <2>4. /\ grade'[n] = AutoGrade(req[r].answers, NoGrades)
        /\ result'[n].obtained = Points(req[r].answers)
    BY <1>0, <1>6, <2>1, <2>2, <2>3 DEF SubmitAttempt, TypeOK
  <2> QED
    BY <2>1, <2>4, PointsAreGrades
<1> QED
  BY <1>1, <1>2, <1>3, <1>4, <1>5, <1>6, DataMoves

-----------------------------------------------------------------------------
(* Theorems *)

\* Nothing above depends on more than the invariant, which every step keeps.
THEOREM Inductive == Spec => []IInv
<1>1. IInv /\ [Next]_vars => IInv'
  <2> SUFFICES ASSUME IInv, [Next]_vars
               PROVE  IInv'
    OBVIOUS
  <2>1. CASE Next
    BY <2>1, TypeStep, GoneStep, OrderStep, ReadyStep, ResultStep, UngradedStep,
       AloneStep, CurrentStep, ScoreStep DEF IInv
  <2>2. CASE UNCHANGED vars
    BY <2>2 DEF vars, IInv, TypeOK, GoneTogether, Consecutive, Ready, LimitKept,
       AttemptLimit, ResultMatchesStatus, Ungraded, Alone, Working, Current,
       ScoreIsSumOfGrades, Sum
  <2> QED
    BY <2>1, <2>2
<1> QED
  BY <1>1, InitInv, PTL DEF Spec

\* The tables and the requests keep their types.
THEOREM TypeCorrect == Spec => []TypeOK
<1>1. IInv => TypeOK
  BY DEF IInv
<1> QED
  BY <1>1, Inductive, PTL

\* startAssessment never exceeds the highest limit the assessment had.
THEOREM LimitHolds == Spec => []AttemptLimit
<1>1. IInv => AttemptLimit
  BY DEF IInv
<1> QED
  BY <1>1, Inductive, PTL

\* Submission and review keep an attempt and its result in agreement.
THEOREM ResultsAgree == Spec => []ResultMatchesStatus
<1>1. IInv => ResultMatchesStatus
  BY DEF IInv
<1> QED
  BY <1>1, Inductive, PTL

\* Without overlap the marks reported are the marks on the answers.
THEOREM ScoresAddUp == Spec => []ScoreIsSumOfGrades
<1>1. IInv => ScoreIsSumOfGrades
  BY DEF IInv
<1> QED
  BY <1>1, Inductive, PTL

\* The attempts of a student keep the promise of AttemptBook.
THEOREM Refinement == Spec => ImplementsBook
<1> DEFINE stages == [n \in Attempts |-> StageOf(attempt[n])]
<1>1. Init => Attempted!BookInit
  BY DEF Init, Attempted!BookInit, StageOf, Submitted
<1>2. IInv /\ [Next]_vars => [Attempted!BookNext]_stages
  <2> SUFFICES ASSUME IInv, [Next]_vars, attempt' # attempt
               PROVE  Attempted!BookNext \/ stages' = stages
    BY DEF StageOf
  <2>0. Next /\ TypeOK /\ Consecutive /\ GoneTogether
    BY DEF vars, IInv
  <2>1. CASE DeleteAssessment
    <3>1. \A n \in Attempts :
            StageOf(attempt'[n]) = IF StageOf(attempt[n]) = "none" THEN "none" ELSE "gone"
      BY <2>0, <2>1 DEF DeleteAssessment, StageOf, Submitted, TypeOK, AttemptStatus
    <3>2. Attempted!Discard
      BY <3>1 DEF Attempted!Discard
    <3> QED
      BY <3>2 DEF Attempted!BookNext
  <2>2. ASSUME NEW n \in Attempts, Opened(n)
        PROVE  Attempted!BookNext
    <3>1. \A m \in Attempts : m \in Int
      BY BoundAssumption DEF Attempts
    <3>2. \A m \in Attempts : m > n => attempt[m] = "none"
      BY <2>0, <2>2, <3>1 DEF Consecutive, Opened, Ended, Submitted
    <3>3. \A m \in Attempts : StageOf(attempt[m]) = IF m < n THEN "submitted" ELSE "none"
      BY <2>2, <3>1, <3>2 DEF Opened, StageOf, Submitted
    <3>4. \A m \in Attempts :
            StageOf(attempt'[m]) = IF m = n THEN "open" ELSE StageOf(attempt[m])
      BY <2>2 DEF Opened, StageOf, Submitted
    <3>5. Attempted!OpenAttempt(n)
      BY <3>3, <3>4 DEF Attempted!OpenAttempt
    <3> QED
      BY <3>5 DEF Attempted!BookNext
  <2>3. ASSUME NEW n \in Attempts, Graded(n)
        PROVE  Attempted!BookNext \/ stages' = stages
    <3>1. \A m \in Attempts :
            StageOf(attempt'[m]) = IF m = n THEN "submitted" ELSE StageOf(attempt[m])
      BY <2>3 DEF Graded, StageOf, Submitted
    <3>2. CASE attempt[n] = "IN_PROGRESS"
      <4>1. StageOf(attempt[n]) = "open"
        BY <3>2 DEF StageOf, Submitted
      <4>2. Attempted!CloseAttempt(n)
        BY <3>1, <4>1 DEF Attempted!CloseAttempt
      <4> QED
        BY <4>2 DEF Attempted!BookNext
    <3>3. CASE attempt[n] # "IN_PROGRESS"
      <4>1. StageOf(attempt[n]) = "submitted"
        BY <2>0, <2>3, <3>3 DEF Graded, StageOf, Submitted, TypeOK, AttemptStatus
      <4> QED
        BY <3>1, <4>1
    <3> QED
      BY <3>2, <3>3
  <2> QED
    BY <2>0, <2>1, <2>2, <2>3, AttemptMoves
<1> QED
  BY <1>1, <1>2, Inductive, PTL DEF Spec, ImplementsBook, Attempted!BookSpec

-----------------------------------------------------------------------------
(* The range of the marks reported for an attempt *)

\* A grade is that of a question of the paper, within what the question is worth.
InRange(g, v) ==
  \A q \in Questions : g[q] # NoMark => q \in Paper[v] /\ -Mark[q] <= g[q] /\ g[q] <= Mark[q]

OfPaper(answers, v) == \A q \in Questions : answers[q] # "none" => q \in Paper[v]

Within(x) ==
  x.obtained \in Int /\ x.total \in Int /\ -x.total <= x.obtained /\ x.obtained <= x.total

\* What a submission and a review have read.
Reads(x) ==
  /\ x.pc = "submit" => x.total = PaperTotal(x.paper) /\ OfPaper(x.answers, x.paper)
  /\ x.pc = "review" =>
       x.score \in Int /\ x.total \in Int /\ -x.total <= x.score /\ x.score <= x.total

MarksInv ==
  /\ TypeOK
  /\ total = PaperTotal(paper)
  /\ \A n \in Attempts : OfPaper(content[n], paper) /\ InRange(grade[n], paper)
  /\ \A r \in Requests : Reads(req[r])
  /\ \A n \in Attempts : Within(result[n])

LEMMA SumBound ==
  ASSUME NEW v \in 1 .. Versions, NEW g \in Grades, InRange(g, v)
  PROVE  /\ Sum(g) \in Int /\ PaperTotal(v) \in Int
         /\ -PaperTotal(v) <= Sum(g) /\ Sum(g) <= PaperTotal(v)
<1> DEFINE P == Paper[v]
           h == [q \in Questions |-> IF g[q] = NoMark THEN 0 ELSE g[q]]
           m == [q \in Questions |-> IF q \in P THEN Mark[q] ELSE 0]
           full == SumFunctionOnSet(m, Questions)
           sum == SumFunctionOnSet(h, Questions)
<1>1. P \in SUBSET Questions /\ IsFiniteSet(Questions) /\ IsFiniteSet(P)
  BY PaperAssumption, FS_Subset
<1>2. \A q \in Questions : Mark[q] \in Nat /\ (g[q] = NoMark \/ g[q] \in Int)
  BY MarkAssumption DEF Grades
<1>3. \A q \in Questions : /\ m[q] \in Nat /\ m[q] \in Int /\ h[q] \in Int
                           /\ 1 * h[q] <= 1 * m[q]
                           /\ (-1) * m[q] <= 1 * h[q]
  <2> TAKE q \in Questions
  <2>1. CASE g[q] = NoMark
    <3>1. h[q] = 0 /\ m[q] \in Nat
      BY <1>2, <2>1
    <3> HIDE DEF h, m
    <3> QED
      BY <3>1
  <2>2. CASE g[q] # NoMark
    <3>1. h[q] = g[q] /\ m[q] = Mark[q] /\ Mark[q] \in Nat /\ g[q] \in Int
          /\ -Mark[q] <= g[q] /\ g[q] <= Mark[q]
      BY <1>2, <2>2 DEF InRange
    <3> HIDE DEF h, m
    <3> QED
      BY <3>1
  <2> QED
    BY <2>1, <2>2
<1>4. \A q \in P : m[q] \in Int /\ Mark[q] = m[q]
  BY <1>1, <1>3
<1>5. \A q \in Questions \ P : m[q] = 0
  OBVIOUS
<1>6. Sum(g) = sum
  BY DEF Sum, SumFunction
<1>7. PaperTotal(v) = SumFunctionOnSet(Mark, P)
  BY DEF PaperTotal
<1> HIDE DEF h, m, P
<1>8. full = SumFunctionOnSet(m, P)
  BY <1>1, <1>3, <1>5, SumOfPart
<1>9. SumFunctionOnSet(m, P) = SumFunctionOnSet(Mark, P)
  BY <1>1, <1>4, SumsAgree
<1>10. full \in Int /\ sum \in Int
  BY <1>1, <1>3, SumType
<1>11. 1 * sum <= 1 * full
  BY <1>1, <1>3, SumsCompare
<1>12. (-1) * full <= 1 * sum
  <2>1. -1 \in Int /\ 1 \in Int
    OBVIOUS
  <2> QED
    BY <1>1, <1>3, <2>1, SumsCompare
<1> QED
  <2> HIDE DEF full, sum
  <2> QED
    BY <1>6, <1>7, <1>8, <1>9, <1>10, <1>11, <1>12

LEMMA AwardInRange ==
  ASSUME NEW q \in Questions, NEW c
  PROVE  Awarded(q, c) \in Int /\ -Mark[q] <= Awarded(q, c) /\ Awarded(q, c) <= Mark[q]
<1>1. Mark[q] \in Nat /\ Penalty \in Nat
  BY MarkAssumption
<1> QED
  BY <1>1 DEF Awarded

\* The marks a submission gives are in range, and so is what it counts.
LEMMA AutoGradeInRange ==
  ASSUME NEW v \in 1 .. Versions, NEW answers \in Answers, OfPaper(answers, v),
         NEW old \in Grades, InRange(old, v)
  PROVE  InRange(AutoGrade(answers, old), v)
<1> SUFFICES ASSUME NEW q \in Questions, AutoGrade(answers, old)[q] # NoMark
             PROVE  LET a == AutoGrade(answers, old)[q] IN
                    q \in Paper[v] /\ -Mark[q] <= a /\ a <= Mark[q]
  BY DEF InRange
<1>1. CASE q \in Answered(answers)
  <2>1. AutoGrade(answers, old)[q] = Awarded(q, answers[q])
    BY <1>1 DEF AutoGrade
  <2>2. q \in Paper[v]
    BY <1>1 DEF Answered, OfPaper
  <2> QED
    BY <2>1, <2>2, AwardInRange
<1>2. CASE q \notin Answered(answers)
  <2>1. AutoGrade(answers, old)[q] = old[q]
    BY <1>2 DEF AutoGrade
  <2> QED
    BY <2>1 DEF InRange
<1> QED
  BY <1>1, <1>2

LEMMA PointsBound ==
  ASSUME NEW v \in 1 .. Versions, NEW answers \in Answers, OfPaper(answers, v)
  PROVE  /\ Points(answers) \in Int /\ PaperTotal(v) \in Int
         /\ -PaperTotal(v) <= Points(answers) /\ Points(answers) <= PaperTotal(v)
<1>1. NoGrades \in Grades /\ InRange(NoGrades, v)
  BY DEF NoGrades, Grades, InRange
<1>2. InRange(AutoGrade(answers, NoGrades), v) /\ AutoGrade(answers, NoGrades) \in Grades
  BY <1>1, AutoGradeInRange, GradesTyped
<1> QED
  BY <1>2, PointsAreGrades, SumBound

LEMMA MarksInitInv == Init => MarksInv
<1> SUFFICES ASSUME Init PROVE MarksInv
  OBVIOUS
<1>1. TypeOK
  BY InitInv DEF IInv
<1>2. OfPaper(NoAnswers, 1) /\ InRange(NoGrades, 1)
  BY DEF OfPaper, InRange, NoAnswers, NoGrades
<1>3. Reads(Idle) /\ Within(NoResult)
  BY DEF Reads, Within, NoResult, Idle, Request
<1> QED
  BY <1>1, <1>2, <1>3 DEF Init, MarksInv

LEMMA MarksStepInv == IInv /\ MarksInv /\ [Next]_vars => MarksInv'
<1> SUFFICES ASSUME IInv, MarksInv, [Next]_vars
             PROVE  MarksInv'
  OBVIOUS
<1> USE DEF assessmentVars, attemptVars, Finish, Enter
<1>0. TypeOK /\ TypeOK'
  BY TypeStep DEF MarksInv
<1> DEFINE Rows == /\ total = PaperTotal(paper)
                   /\ \A n \in Attempts : OfPaper(content[n], paper) /\ InRange(grade[n], paper)
           AllRead == \A r \in Requests : Reads(req[r])
           AllWithin == \A n \in Attempts : Within(result[n])
<1>1. ASSUME UNCHANGED <<paper, total, content, grade>> PROVE Rows'
  BY <1>1 DEF MarksInv, OfPaper, InRange, PaperTotal
<1>2. ASSUME UNCHANGED req PROVE AllRead'
  BY <1>2 DEF MarksInv
<1>3. ASSUME UNCHANGED result PROVE AllWithin'
  BY <1>3 DEF MarksInv
<1>4. Reads(Idle) /\ Within(NoResult)
  BY DEF Reads, Within, NoResult, Idle, Request
<1>5. ASSUME NEW r \in Requests, NEW x, req' = [req EXCEPT ![r] = x], Reads(x)
      PROVE  AllRead'
  BY <1>5 DEF MarksInv
<1>6. \A v \in 1 .. Versions : OfPaper(NoAnswers, v) /\ InRange(NoGrades, v)
  BY DEF OfPaper, InRange, NoAnswers, NoGrades
<1> HIDE DEF Rows, AllRead, AllWithin
<1>7. ASSUME Rows', AllRead', AllWithin' PROVE MarksInv'
  BY <1>0, <1>7 DEF MarksInv, Rows, AllRead, AllWithin
<1>8. CASE UNCHANGED vars
  BY <1>1, <1>2, <1>3, <1>7, <1>8 DEF vars
<1>9. CASE ChangeAvailability \/ ChangeLimit
  BY <1>1, <1>2, <1>3, <1>7, <1>9 DEF ChangeAvailability, ChangeLimit
<1>10. CASE ReplaceQuestions
  <2>1. paper' \in 1 .. Versions
    BY <1>0 DEF TypeOK
  <2>2. Rows'
    BY <1>6, <1>10, <2>1 DEF Rows, ReplaceQuestions
  <2> QED
    BY <1>2, <1>3, <1>7, <1>10, <2>2 DEF ReplaceQuestions
<1>11. CASE DeleteAssessment
  <2>1. paper \in 1 .. Versions
    BY <1>0 DEF TypeOK
  <2>2. Rows'
    BY <1>6, <1>11, <2>1 DEF Rows, DeleteAssessment, MarksInv
  <2>3. AllWithin'
    BY <1>4, <1>11 DEF AllWithin, DeleteAssessment
  <2> QED
    BY <1>2, <1>7, <1>11, <2>2, <2>3 DEF DeleteAssessment
<1>12. ASSUME NEW r \in Requests, CreateAttempt(r) \/ Abort(r)
       PROVE  MarksInv'
  BY <1>1, <1>3, <1>4, <1>5, <1>7, <1>12 DEF CreateAttempt, Abort
<1>13. ASSUME NEW r \in Requests, SaveAnswers(r)
       PROVE  MarksInv'
  <2> DEFINE n == req[r].n
  <2>1. n \in Attempts
    BY <1>0, <1>13 DEF TypeOK, SaveAnswers
  <2>2. PICK S \in SUBSET Paper[req[r].paper] :
          IF exists /\ paper = req[r].paper
          THEN \E new \in [S -> Content \ {"none"}] :
                 /\ content' = [content EXCEPT ![n] =
                      [q \in Questions |-> IF q \in S THEN new[q] ELSE content[n][q]]]
                 /\ grade' = [grade EXCEPT ![n] =
                      [q \in Questions |-> IF q \in S THEN NoMark ELSE grade[n][q]]]
          ELSE UNCHANGED <<content, grade>>
    BY <1>13 DEF SaveAnswers
  <2> HIDE DEF n
  <2>3. UNCHANGED <<paper, total, result>> /\ req' = [req EXCEPT ![r] = Idle]
    BY <1>13 DEF SaveAnswers
  <2>4. Rows'
    <3>1. CASE exists /\ paper = req[r].paper
      <4>1. PICK new \in [S -> Content \ {"none"}] :
              /\ content' = [content EXCEPT ![n] =
                   [q \in Questions |-> IF q \in S THEN new[q] ELSE content[n][q]]]
              /\ grade' = [grade EXCEPT ![n] =
                   [q \in Questions |-> IF q \in S THEN NoMark ELSE grade[n][q]]]
        BY <2>2, <3>1
      <4>2. /\ \A m \in Attempts \ {n} : content'[m] = content[m] /\ grade'[m] = grade[m]
            /\ \A q \in Questions :
                 /\ q \notin S => content'[n][q] = content[n][q] /\ grade'[n][q] = grade[n][q]
                 /\ q \in S => grade'[n][q] = NoMark
        BY <1>0, <2>1, <4>1 DEF TypeOK
      <4>3. \A m \in Attempts : OfPaper(content[m], paper) /\ InRange(grade[m], paper)
        BY DEF MarksInv
      <4>4. OfPaper(content'[n], paper)
        BY <2>1, <3>1, <4>2, <4>3 DEF OfPaper
      <4>5. InRange(grade'[n], paper)
        BY <2>1, <4>2, <4>3 DEF InRange
      <4>6. \A m \in Attempts : OfPaper(content'[m], paper) /\ InRange(grade'[m], paper)
        BY <4>2, <4>3, <4>4, <4>5
      <4> QED
        BY <2>3, <4>6 DEF Rows, MarksInv
    <3>2. CASE ~(exists /\ paper = req[r].paper)
      BY <1>1, <2>2, <2>3, <3>2
    <3> QED
      BY <3>1, <3>2
  <2> QED
    BY <1>3, <1>4, <1>5, <1>7, <2>3, <2>4
<1>14. ASSUME NEW r \in Requests, SubmitAttempt(r)
       PROVE  MarksInv'
  <2> DEFINE n == req[r].n
             answers == req[r].answers
             v == req[r].paper
  <2>1. /\ n \in Attempts /\ answers \in Answers /\ v \in 1 .. Versions
        /\ req[r].total = PaperTotal(v) /\ OfPaper(answers, v)
    BY <1>0, <1>14 DEF TypeOK, SubmitAttempt, MarksInv, Reads
  <2>2. UNCHANGED <<paper, total, content>> /\ req' = [req EXCEPT ![r] = Idle]
    BY <1>14 DEF SubmitAttempt
  <2>3. CASE UNCHANGED <<grade, result>>
    BY <1>1, <1>3, <1>4, <1>5, <1>7, <2>2, <2>3
  <2>4. CASE ~UNCHANGED <<grade, result>>
    <3>1. /\ paper = v \/ Answered(answers) = {}
          /\ grade' = [grade EXCEPT ![n] = AutoGrade(answers, grade[n])]
          /\ \E st \in ResultStatus : result' = [result EXCEPT ![n] =
               [status |-> st, obtained |-> Points(answers), total |-> PaperTotal(v)]]
      BY <1>14, <2>1, <2>4 DEF SubmitAttempt, ResultStatus
    <3>2. \A m \in Attempts : OfPaper(content[m], paper) /\ InRange(grade[m], paper)
                              /\ grade[m] \in Grades
      BY <1>0 DEF MarksInv, TypeOK
    <3>3. InRange(AutoGrade(answers, grade[n]), paper)
      <4>1. CASE paper = v
        BY <2>1, <3>2, <4>1, AutoGradeInRange
      <4>2. CASE Answered(answers) = {}
        <5>1. AutoGrade(answers, grade[n]) = grade[n]
          BY <2>1, <3>2, <4>2 DEF AutoGrade, Grades
        <5> QED
          BY <2>1, <3>2, <5>1
      <4> QED
        BY <3>1, <4>1, <4>2
    <3>4. \A m \in Attempts : OfPaper(content'[m], paper') /\ InRange(grade'[m], paper')
      BY <1>0, <2>1, <2>2, <3>1, <3>2, <3>3 DEF TypeOK
    <3>5. Rows'
      BY <2>2, <3>4 DEF Rows, MarksInv
    <3>6. PICK st \in ResultStatus : result' = [result EXCEPT ![n] =
             [status |-> st, obtained |-> Points(answers), total |-> PaperTotal(v)]]
      BY <3>1
    <3> DEFINE x == [status |-> st, obtained |-> Points(answers), total |-> PaperTotal(v)]
    <3>7. Within(x)
      BY <2>1, PointsBound DEF Within
    <3> HIDE DEF x
    <3>8. AllWithin'
      BY <1>0, <2>1, <3>6, <3>7 DEF AllWithin, MarksInv, TypeOK, x
    <3> QED
      BY <1>4, <1>5, <1>7, <2>2, <3>5, <3>8
  <2> QED
    BY <2>3, <2>4
<1>15. ASSUME NEW r \in Requests, WriteReview(r)
       PROVE  MarksInv'
  <2>1. UNCHANGED <<paper, total, content, grade>> /\ req' = [req EXCEPT ![r] = Idle]
    BY <1>15 DEF WriteReview
  <2>2. AllWithin'
    <3>1. \/ UNCHANGED result
          \/ \E st \in ResultStatus : result' = [result EXCEPT ![req[r].n] =
               [status |-> st, obtained |-> req[r].score, total |-> req[r].total]]
      BY <1>15 DEF WriteReview, ResultStatus
    <3>2. ASSUME NEW st \in ResultStatus,
                 result' = [result EXCEPT ![req[r].n] =
                   [status |-> st, obtained |-> req[r].score, total |-> req[r].total]]
          PROVE  AllWithin'
      <4> DEFINE x == [status |-> st, obtained |-> req[r].score, total |-> req[r].total]
      <4>1. Within(x)
        BY <1>15 DEF Within, WriteReview, MarksInv, Reads
      <4> HIDE DEF x
      <4> QED
        BY <1>0, <3>2, <4>1 DEF AllWithin, MarksInv, TypeOK, x
    <3> QED
      BY <1>3, <3>1, <3>2
  <2> QED
    BY <1>1, <1>4, <1>5, <1>7, <2>1, <2>2
<1>16. ASSUME NEW r \in Requests, ReadForStart(r)
       PROVE  MarksInv'
  <2> DEFINE x == Request("create", Cardinality(Completed) + 1, 0, NoAnswers, 0, 0, FALSE)
  <2>1. Reads(x)
    BY DEF Reads, Request
  <2>2. req' = [req EXCEPT ![r] = x]
    BY <1>16 DEF ReadForStart
  <2> HIDE DEF x
  <2> QED
    BY <1>1, <1>3, <1>5, <1>7, <1>16, <2>1, <2>2 DEF ReadForStart
<1>17. ASSUME NEW r \in Requests, NEW n \in Attempts, ReadForSave(r, n)
       PROVE  MarksInv'
  <2> DEFINE x == Request("save", n, paper, NoAnswers, 0, 0, FALSE)
  <2>1. Reads(x)
    BY DEF Reads, Request
  <2>2. req' = [req EXCEPT ![r] = x]
    BY <1>17 DEF ReadForSave
  <2> HIDE DEF x
  <2> QED
    BY <1>1, <1>3, <1>5, <1>7, <1>17, <2>1, <2>2 DEF ReadForSave
<1>18. ASSUME NEW r \in Requests, NEW n \in Attempts, ReadForSubmit(r, n)
       PROVE  MarksInv'
  <2> DEFINE x == Request("submit", n, paper, content[n], 0, total, FALSE)
  <2>1. Reads(x)
    <3>1. x.pc = "submit" /\ x.paper = paper /\ x.answers = content[n] /\ x.total = total
      BY DEF Request
    <3> HIDE DEF x
    <3> QED
      BY <3>1 DEF Reads, MarksInv
  <2>2. req' = [req EXCEPT ![r] = x]
    BY <1>18 DEF ReadForSubmit
  <2> HIDE DEF x
  <2> QED
    BY <1>1, <1>3, <1>5, <1>7, <1>18, <2>1, <2>2 DEF ReadForSubmit
<1>19. ASSUME NEW r \in Requests, NEW n \in Attempts, NEW f \in BOOLEAN, ReadForReview(r, n, f)
       PROVE  MarksInv'
  <2> DEFINE x == Request("review", n, 0, NoAnswers, Sum(grade[n]), total, f)
  <2>1. Reads(x)
    <3>1. x.pc = "review" /\ x.score = Sum(grade[n]) /\ x.total = PaperTotal(paper)
      BY DEF Request, MarksInv
    <3>2. paper \in 1 .. Versions /\ grade[n] \in Grades /\ InRange(grade[n], paper)
      BY <1>0 DEF TypeOK, MarksInv
    <3> HIDE DEF x
    <3> QED
      BY <3>1, <3>2, SumBound DEF Reads
  <2>2. req' = [req EXCEPT ![r] = x]
    BY <1>19 DEF ReadForReview
  <2> HIDE DEF x
  <2> QED
    BY <1>1, <1>3, <1>5, <1>7, <1>19, <2>1, <2>2 DEF ReadForReview
<1> QED
  BY <1>8, <1>9, <1>10, <1>11, <1>12, <1>13, <1>14, <1>15, <1>16, <1>17, <1>18, <1>19,
     StepCases DEF Administration

\* No attempt is reported with more marks than its paper has, nor fewer than all of
\* them lost, whatever submissions and reviews of replaced papers overlap.
THEOREM ResultsWithin == Spec => []ResultWithinTotal
<1>1. MarksInv => ResultWithinTotal
  BY DEF MarksInv, Within, ResultWithinTotal
<1> QED
  BY <1>1, MarksInitInv, MarksStepInv, Inductive, PTL DEF Spec

-----------------------------------------------------------------------------
(* Exam results *)

\* The papers of an exam and their marks, for any rows of papers.
PapersIn(papers, e) == {p \in Papers : papers[p].exam = e}

MarksIn(papers, e) ==
  SumFunctionOnSet([p \in Papers |-> papers[p].marks], PapersIn(papers, e))

\* A request knows what it is about, its full marks are those of the exam unless
\* the papers changed, and the items it has seen kept are there.
EditSound(k) ==
  LET x == edit[k] IN
  x.pc # "idle" =>
    /\ x.id \in Results /\ x.exam \in Exams
    /\ ~x.given /\ x.pc # "create" => x.items = NoItems
    /\ ~x.stale /\ exam[x.exam] # "NONE" => x.full = MarksIn(examPaper, x.exam)
    /\ x.pc = "create" =>
         /\ x.student \in Examinees
         /\ examResult[x.id] = NoExamResult /\ \A j \in Clerks \ {k} : edit[j].id # x.id
    /\ examResult[x.id] # NoExamResult => x.kept \subseteq DOMAIN item[x.id]

\* ResultIsConsistent, in these terms.
Consistent ==
  \A r \in Results : examResult[r] # NoExamResult =>
    /\ examResult[r].grade = GetGrade(examResult[r].percentage)
    /\ \/ r \in loose
       \/ /\ examResult[r].total = Total(item[r])
          /\ examResult[r].percentage
               = Percentage(Total(item[r]), MarksIn(examPaper, examResult[r].exam))

ExamInv ==
  /\ ExamTypeOK
  /\ Distinct(examPaper)
  /\ \A k \in Clerks : EditSound(k)
  /\ Consistent

LEMMA MarksAre ==
  ASSUME NEW e
  PROVE  PapersOf({e}) = PapersIn(examPaper, e) /\ FullMarks(e) = MarksIn(examPaper, e)
<1>1. PapersOf({e}) = PapersIn(examPaper, e)
  BY DEF PapersOf, PapersIn
<1> QED
  BY <1>1 DEF FullMarks, MarksIn

LEMMA NoneDiffer ==
  /\ \A x \in ExamPaper : x # NoExamPaper /\ x.exam # NoExam /\ x.subject # NoExam
  /\ \A x \in ExamResult : x # NoExamResult /\ x.exam # NoExam /\ x.student # NoExam
  BY ExamAssumption DEF ExamPaper, NoExamPaper, ExamResult, NoExamResult

LEMMA PapersTyped ==
  ASSUME ExamTypeOK, NEW p \in Papers
  PROVE  /\ examPaper[p].marks \in Nat
         /\ examPaper[p] # NoExamPaper =>
              /\ examPaper[p].exam \in Exams /\ examPaper[p].subject \in ExamSubjects
              /\ examPaper[p].exam # NoExam
         /\ examPaper[p] = NoExamPaper =>
              examPaper[p].exam = NoExam /\ examPaper[p].subject = NoExam
<1>1. examPaper[p] \in ExamPaper \cup {NoExamPaper}
  BY DEF ExamTypeOK
<1>2. NoExamPaper.marks = 0 /\ NoExamPaper.exam = NoExam /\ NoExamPaper.subject = NoExam
  BY DEF NoExamPaper
<1>3. \A x \in ExamPaper : /\ x.marks \in Nat /\ x.exam \in Exams /\ x.subject \in ExamSubjects
                           /\ x.exam # NoExam
  BY ExamAssumption DEF ExamPaper
<1> QED
  BY <1>1, <1>2, <1>3

LEMMA ItemsTyped ==
  ASSUME NEW f \in ItemMarks
  PROVE  /\ DOMAIN f \subseteq Papers /\ IsFiniteSet(DOMAIN f)
         /\ \A p \in DOMAIN f : /\ f[p] \in Item /\ f[p].marks \in Nat
                               /\ f[p].subject \in ExamSubjects
         /\ f = [p \in DOMAIN f |-> f[p]]
<1>1. PICK P \in SUBSET Papers : f \in [P -> Item]
  BY DEF ItemMarks
<1>2. IsFiniteSet(P)
  BY FS_Subset, ExamAssumption
<1>3. \A x \in Item : x.marks \in Nat /\ x.subject \in ExamSubjects
  BY ExamAssumption DEF Item
<1> QED
  BY <1>1, <1>2, <1>3

LEMMA TypedItems ==
  ASSUME NEW P \in SUBSET Papers, NEW f \in [P -> Item]
  PROVE  f \in ItemMarks
  BY DEF ItemMarks

LEMMA NoItemsTyped == NoItems \in ItemMarks /\ DOMAIN NoItems = {}
<1>1. NoItems \in [{} -> Item]
  BY DEF NoItems
<1> QED
  BY <1>1, TypedItems DEF NoItems

LEMMA ItemsWithout ==
  ASSUME NEW f \in ItemMarks, NEW P, NEW g, g = [p \in DOMAIN f \ P |-> f[p]]
  PROVE  g \in ItemMarks /\ DOMAIN g = DOMAIN f \ P /\ (DOMAIN f \cap P = {} => g = f)
<1>1. DOMAIN f \ P \subseteq Papers /\ g \in [DOMAIN f \ P -> Item]
  BY ItemsTyped
<1>2. g \in ItemMarks
  BY <1>1, TypedItems
<1>3. DOMAIN f \cap P = {} => g = f
  <2> SUFFICES ASSUME DOMAIN f \cap P = {} PROVE g = f
    OBVIOUS
  <2>1. DOMAIN f \ P = DOMAIN f
    OBVIOUS
  <2> QED BY <2>1, ItemsTyped
<1> QED
  BY <1>2, <1>3

LEMMA TotalTyped ==
  ASSUME NEW f \in ItemMarks
  PROVE  Total(f) \in Nat
<1> DEFINE D == DOMAIN f
           g == [p \in D |-> f[p].marks]
<1>1. IsFiniteSet(D) /\ DOMAIN g = D /\ \A p \in D : g[p] \in Nat
  BY ItemsTyped
<1>2. Total(f) = SumFunction(g)
  BY DEF Total
<1> HIDE DEF D, g
<1>3. SumFunctionOnSet(g, D) \in Nat
  BY <1>1, SumNatural
<1> QED
  BY <1>1, <1>2, <1>3 DEF SumFunction

LEMMA PercentageTyped ==
  ASSUME NEW t \in Nat, NEW f \in Nat
  PROVE  Percentage(t, f) \in Nat
<1>1. ASSUME f > 0 PROVE (100 * t) \div f \in Nat
  <2>1. 100 * t \in Int /\ 0 * f <= 100 * t
    OBVIOUS
  <2> DEFINE a == 100 * t
  <2> HIDE DEF a
  <2>2. a \in Int /\ 0 * f <= a
    BY <2>1 DEF a
  <2>3. a \div f \in Int /\ 0 <= a \div f
    BY <1>1, <2>2, Divide
  <2> QED BY <2>3 DEF a
<1> QED
  BY <1>1 DEF Percentage

LEMMA GradeTyped == \A t \in Nat : GetGrade(t) \in Letters
  BY DEF GetGrade, Letters

LEMMA FullTyped ==
  ASSUME ExamTypeOK, NEW e
  PROVE  MarksIn(examPaper, e) \in Nat
<1> DEFINE m == [p \in Papers |-> examPaper[p].marks]
           Q == PapersIn(examPaper, e)
<1>1. \A p \in Papers : m[p] \in Nat
  BY PapersTyped
<1>2. Q \subseteq Papers /\ IsFiniteSet(Q)
  BY FS_Subset, ExamAssumption DEF PapersIn
<1> HIDE DEF m, Q
<1>3. SumFunctionOnSet(m, Q) \in Nat
  BY <1>1, <1>2, SumNatural
<1> QED
  BY <1>3 DEF MarksIn, m, Q

\* The marks of an exam change only with its papers.
LEMMA FullKept ==
  ASSUME ExamTypeOK, NEW e, NEW papers,
         \A p \in Papers : examPaper[p].exam = e \/ papers[p].exam = e
                             => papers[p] = examPaper[p]
  PROVE  PapersIn(papers, e) = PapersIn(examPaper, e) /\ MarksIn(papers, e) = MarksIn(examPaper, e)
<1> DEFINE m == [p \in Papers |-> examPaper[p].marks]
           n == [p \in Papers |-> papers[p].marks]
           Q == PapersIn(examPaper, e)
<1>1. PapersIn(papers, e) = Q
  BY DEF PapersIn
<1>2. \A p \in Q : m[p] \in Int /\ n[p] = m[p]
  BY PapersTyped DEF PapersIn
<1>3. IsFiniteSet(Q)
  BY FS_Subset, ExamAssumption DEF PapersIn
<1> HIDE DEF m, n, Q
<1>4. SumFunctionOnSet(m, Q) = SumFunctionOnSet(n, Q)
  BY <1>2, <1>3, SumsAgree
<1> QED
  BY <1>1, <1>4 DEF MarksIn, m, n, Q

-----------------------------------------------------------------------------
LEMMA ExamInitInv == ExamInit => ExamInv
<1> SUFFICES ASSUME ExamInit PROVE ExamInv
  OBVIOUS
<1> USE DEF ExamInit
<1>1. IdleEdit \in Edit /\ IdleEdit.pc = "idle"
  BY NoItemsTyped DEF IdleEdit, Edit
<1>2. NoItems \in ItemMarks /\ DOMAIN NoItems = {}
  BY NoItemsTyped
<1>3. \A p \in Papers : examPaper[p] # NoExamPaper => examPaper[p].exam \in Exams
  BY DEF ExamPaper
<1>4. ExamTypeOK
  BY <1>1, <1>2, <1>3 DEF ExamTypeOK
<1>5. \A k \in Clerks : EditSound(k)
  BY <1>1 DEF EditSound
<1> QED
  BY <1>4, <1>5 DEF ExamInv, Consistent

-----------------------------------------------------------------------------
(* Requests about results. *)

\* A request that changes nothing but its own locals.
LEMMA EditReplaced ==
  ASSUME ExamInv, NEW k \in Clerks, NEW x \in Edit, edit' = [edit EXCEPT ![k] = x],
         UNCHANGED <<exam, examPaper, examResult, item, loose>>, examOps' \in Nat,
         \A j \in Clerks \ {k} : edit[j].pc = "create" => edit[j].id # x.id,
         EditSound(k)'
  PROVE  ExamInv'
<1>0. ExamTypeOK /\ edit \in [Clerks -> Edit] /\ \A j \in Clerks : EditSound(j)
  BY DEF ExamInv, ExamTypeOK
<1>1. edit' \in [Clerks -> Edit] /\ edit'[k] = x /\ \A j \in Clerks \ {k} : edit'[j] = edit[j]
  BY <1>0
<1>2. ExamTypeOK'
  <2>1. UNCHANGED <<exam, examPaper, examResult, item, loose>>
    OBVIOUS
  <2> QED
    BY <1>0, <1>1, <2>1 DEF ExamTypeOK
<1>4. ASSUME NEW j \in Clerks \ {k} PROVE EditSound(j)'
  <2>1. EditSound(j) /\ edit'[j] = edit[j]
    BY <1>0, <1>1
  <2>2. edit[j].pc = "create" => \A i \in Clerks \ {j} : edit'[i].id # edit[j].id
    BY <1>1, <2>1 DEF EditSound
  <2>3. UNCHANGED <<exam, examResult, item>>
    OBVIOUS
  <2> QED
    BY <2>1, <2>2, <2>3 DEF EditSound
<1>5. Consistent' /\ Distinct(examPaper')
  <2>1. UNCHANGED <<exam, examPaper, examResult, item, loose>>
    OBVIOUS
  <2> QED
    BY <2>1 DEF ExamInv, Consistent, Total
<1> QED
  BY <1>2, <1>4, <1>5 DEF ExamInv

LEMMA CreateReads ==
  ASSUME ExamInv, NEW k \in Clerks, NEW r \in Results, NEW e \in Exams, NEW s \in Examinees,
         NEW items \in Sheets, ReadForCreate(k, r, e, s, items)
  PROVE  ExamInv'
<1> DEFINE x == [IdleEdit EXCEPT !.pc = "create", !.id = r, !.exam = e,
                !.student = s, !.items = items, !.full = FullMarks(e)]
<1>1. FullMarks(e) \in Nat /\ items \in ItemMarks
  BY FullTyped, MarksAre, SheetsAssumption DEF ExamInv
<1>2. /\ x.pc = "create" /\ x.id = r /\ x.exam = e /\ x.student = s /\ x.items = items
      /\ x.full = FullMarks(e) /\ x.kept = {} /\ x.stale = FALSE /\ x.given = FALSE
      /\ x \in Edit
  BY <1>1 DEF IdleEdit, Edit
<1>3. edit' = [edit EXCEPT ![k] = x]
  BY DEF ReadForCreate
<1> HIDE DEF x
<1>4. /\ UNCHANGED <<exam, examPaper, examResult, item, loose>>
      /\ examResult[r] = NoExamResult /\ \A j \in Clerks : edit[j].id # r
  BY DEF ReadForCreate
<1>5. edit \in [Clerks -> Edit] /\ examOps' \in Nat
  BY DEF ExamInv, ExamTypeOK, ExamRequest, ReadForCreate
<1>6. FullMarks(e) = MarksIn(examPaper, e) /\ PapersOf({e}) = PapersIn(examPaper, e)
  BY MarksAre
<1>7. edit'[k] = x /\ \A j \in Clerks \ {k} : edit'[j].id # r
  BY <1>3, <1>4, <1>5
<1>8. EditSound(k)'
  BY <1>2, <1>4, <1>6, <1>7 DEF EditSound
<1> QED
  BY <1>2, <1>3, <1>4, <1>5, <1>8, EditReplaced

LEMMA UpdateReads ==
  ASSUME ExamInv, NEW k \in Clerks, NEW r \in Results, NEW e \in Exams, NEW moves \in BOOLEAN,
         NEW s \in Examinees \cup {NoExam}, NEW given \in BOOLEAN, NEW items \in Sheets,
         ReadForUpdate(k, r, e, moves, s, given, items)
  PROVE  ExamInv'
<1> DEFINE x == [IdleEdit EXCEPT
                !.pc = IF given THEN "delete" ELSE "write", !.id = r, !.exam = e,
                !.moves = moves, !.student = s,
                !.given = given, !.items = items, !.full = FullMarks(e)]
<1>1. /\ UNCHANGED <<exam, examPaper, examResult, item, loose>>
      /\ examResult[r] # NoExamResult /\ (given \/ items = NoItems)
  BY DEF ReadForUpdate
<1>2. FullMarks(e) \in Nat /\ items \in ItemMarks
  BY FullTyped, MarksAre, SheetsAssumption DEF ExamInv
<1>3. /\ x.pc \in {"delete", "write"} /\ x.id = r /\ x.exam = e
      /\ x.items = items
      /\ x.full = FullMarks(e) /\ x.kept = {} /\ x.stale = FALSE /\ x.given = given
      /\ x \in Edit
  BY <1>2 DEF IdleEdit, Edit
<1>4. edit' = [edit EXCEPT ![k] = x]
  BY DEF ReadForUpdate
<1> HIDE DEF x
<1>5. edit \in [Clerks -> Edit] /\ examOps' \in Nat
  BY DEF ExamInv, ExamTypeOK, ExamRequest, ReadForUpdate
<1>6. FullMarks(e) = MarksIn(examPaper, e)
  BY MarksAre
<1>7. edit'[k] = x
  BY <1>4, <1>5
<1>8. EditSound(k)'
  BY <1>1, <1>2, <1>3, <1>6, <1>7 DEF EditSound
<1>9. \A j \in Clerks \ {k} : edit[j].pc = "create" => edit[j].id # x.id
  BY <1>1, <1>3 DEF ExamInv, EditSound
<1> QED
  BY <1>1, <1>3, <1>4, <1>5, <1>8, <1>9, EditReplaced

LEMMA ItemsDeleted ==
  ASSUME ExamInv, NEW k \in Clerks, DeleteItems(k)
  PROVE  ExamInv'
<1> DEFINE x == [edit[k] EXCEPT !.pc = "write", !.kept = {}]
<1>1. edit \in [Clerks -> Edit] /\ edit[k].pc = "delete" /\ EditSound(k)
  BY DEF ExamInv, ExamTypeOK, DeleteItems
<1>2. /\ x \in Edit /\ x.pc = "write" /\ x.id = edit[k].id /\ x.exam = edit[k].exam
      /\ x.student = edit[k].student /\ x.given = edit[k].given /\ x.items = edit[k].items
      /\ x.full = edit[k].full /\ x.stale = edit[k].stale /\ x.kept = {}
  BY <1>1 DEF Edit
<1>3. edit' = [edit EXCEPT ![k] = x]
  BY <1>1 DEF DeleteItems
<1>4. UNCHANGED <<exam, examPaper, examResult, item, loose>> /\ examOps' \in Nat
  BY DEF DeleteItems, ExamInv, ExamTypeOK
<1> HIDE DEF x
<1>5. ASSUME NEW j \in Clerks \ {k} PROVE edit[j].pc = "create" => edit[j].id # x.id
  <2>1. EditSound(j)
    BY DEF ExamInv
  <2> QED
    BY <1>2, <2>1 DEF EditSound
<1>7. EditSound(k)'
  BY <1>1, <1>2, <1>3, <1>4 DEF EditSound
<1> QED
  BY <1>2, <1>3, <1>4, <1>5, <1>7, EditReplaced

LEMMA EditDropped ==
  ASSUME ExamInv, NEW k \in Clerks, DropEdit(k)
  PROVE  ExamInv'
<1>1. IdleEdit \in Edit /\ IdleEdit.pc = "idle" /\ IdleEdit.id = NoExam
  BY NoItemsTyped DEF IdleEdit, Edit
<1>2. /\ UNCHANGED <<exam, examPaper, examResult, item, loose>> /\ examOps' \in Nat
      /\ edit' = [edit EXCEPT ![k] = IdleEdit] /\ edit \in [Clerks -> Edit]
  BY DEF DropEdit, ExamInv, ExamTypeOK
<1>3. EditSound(k)'
  BY <1>1, <1>2 DEF EditSound
<1>4. \A j \in Clerks \ {k} : edit[j].pc = "create" => edit[j].id # IdleEdit.id
  BY <1>1, ExamAssumption DEF ExamInv, EditSound
<1> QED
  BY <1>1, <1>2, <1>3, <1>4, EditReplaced

LEMMA OverTyped ==
  ASSUME NEW f \in ItemMarks, NEW g \in ItemMarks
  PROVE  /\ Over(f, g) \in ItemMarks /\ DOMAIN Over(f, g) = DOMAIN f \cup DOMAIN g
         /\ DOMAIN g = {} => Over(f, g) = f
<1>1. /\ DOMAIN f \cup DOMAIN g \in SUBSET Papers
      /\ Over(f, g) \in [DOMAIN f \cup DOMAIN g -> Item]
  BY ItemsTyped DEF Over
<1>2. Over(f, g) \in ItemMarks
  BY <1>1, TypedItems
<1>3. ASSUME DOMAIN g = {} PROVE Over(f, g) = f
  <2>1. DOMAIN f \cup DOMAIN g = DOMAIN f
    BY <1>3
  <2>2. Over(f, g) = [p \in DOMAIN f |-> f[p]]
    BY <2>1 DEF Over
  <2> QED
    BY <2>2, ItemsTyped
<1> QED
  BY <1>1, <1>2, <1>3

\* The figures of a result from its items.
LEMMA FiguresTyped ==
  ASSUME NEW x \in Edit
  PROVE  /\ x.items \in ItemMarks /\ x.full \in Nat /\ Total(x.items) \in Nat
         /\ Percentage(Total(x.items), x.full) \in Nat
         /\ GetGrade(Percentage(Total(x.items), x.full)) \in Letters
<1>1. x.items \in ItemMarks /\ x.full \in Nat
  BY DEF Edit
<1> QED
  BY <1>1, TotalTyped, PercentageTyped, GradeTyped

LEMMA ResultInserted ==
  ASSUME ExamInv, NEW k \in Clerks, NEW st \in {"DRAFT", "PUBLISHED"}, InsertResult(k, st)
  PROVE  ExamInv'
<1> DEFINE x == edit[k]
           r == x.id
           c == Percentage(Total(x.items), x.full)
           row == [exam |-> x.exam, student |-> x.student, total |-> Total(x.items),
                   percentage |-> c, grade |-> GetGrade(c), status |-> st]
<1>0. ExamTypeOK /\ (\A j \in Clerks : EditSound(j)) /\ Consistent
  BY DEF ExamInv
<1>1. x \in Edit /\ edit \in [Clerks -> Edit] /\ x.pc = "create" /\ Writable(k, x.exam, x.student)
  BY <1>0 DEF ExamTypeOK, InsertResult
<1>2. /\ r \in Results /\ x.exam \in Exams /\ x.student \in Examinees
      /\ examResult[r] = NoExamResult /\ \A j \in Clerks \ {k} : edit[j].id # r
      /\ ~x.stale /\ exam[x.exam] # "NONE" => x.full = MarksIn(examPaper, x.exam)
  BY <1>0, <1>1 DEF EditSound
<1>3. exam[x.exam] # "NONE" /\ \A p \in DOMAIN x.items : examPaper[p] # NoExamPaper
  BY <1>1 DEF Writable
<1>4. /\ examResult' = [examResult EXCEPT ![r] = row] /\ item' = [item EXCEPT ![r] = x.items]
      /\ loose' = IF x.stale THEN loose \cup {r} ELSE loose
      /\ edit' = [edit EXCEPT ![k] = IdleEdit] /\ UNCHANGED <<exam, examPaper, examOps>>
  BY DEF InsertResult
<1>5. x.items \in ItemMarks /\ c \in Nat /\ Total(x.items) \in Nat /\ GetGrade(c) \in Letters
  BY <1>1, FiguresTyped
<1>6. /\ row \in ExamResult /\ row # NoExamResult /\ row.exam = x.exam /\ row.total = Total(x.items)
      /\ row.percentage = c /\ row.grade = GetGrade(c)
  <2>1. row \in ExamResult
    BY <1>2, <1>5 DEF ExamResult
  <2> QED
    BY <2>1, NoneDiffer
<1>7. IdleEdit \in Edit /\ IdleEdit.pc = "idle" /\ IdleEdit.id = NoExam /\ NoExam \notin Results
  BY NoItemsTyped, ExamAssumption DEF IdleEdit, Edit
<1>9. c = Percentage(Total(x.items), x.full)
  OBVIOUS
<1> HIDE DEF c, row, x
<1>10. /\ examResult'[r] = row /\ item'[r] = x.items
       /\ \A q \in Results \ {r} : examResult'[q] = examResult[q] /\ item'[q] = item[q]
       /\ edit'[k] = IdleEdit /\ \A j \in Clerks \ {k} : edit'[j] = edit[j]
       /\ \A q \in Results \ {r} : q \in loose' <=> q \in loose
  BY <1>0, <1>1, <1>2, <1>4 DEF ExamTypeOK
<1> HIDE DEF r
<1>11. ExamTypeOK'
  <2>1. /\ exam' \in [Exams -> {"NONE", "DRAFT", "PUBLISHED"}]
        /\ examPaper' \in [Papers -> ExamPaper \cup {NoExamPaper}]
        /\ examOps' \in Nat
        /\ \A p \in Papers : examPaper'[p] # NoExamPaper => exam'[examPaper'[p].exam] # "NONE"
    BY <1>0, <1>4 DEF ExamTypeOK
  <2>2. /\ examResult' \in [Results -> ExamResult \cup {NoExamResult}]
        /\ item' \in [Results -> ItemMarks]
        /\ edit' \in [Clerks -> Edit]
        /\ loose' \subseteq Results
    BY <1>0, <1>2, <1>4, <1>5, <1>6, <1>7 DEF ExamTypeOK
  <2>3. \A q \in Results : /\ examResult'[q] # NoExamResult => exam'[examResult'[q].exam] # "NONE"
                           /\ examResult'[q] = NoExamResult => item'[q] = NoItems
                           /\ \A p \in DOMAIN item'[q] : examPaper'[p] # NoExamPaper
    BY <1>0, <1>3, <1>4, <1>6, <1>10 DEF ExamTypeOK
  <2> QED
    BY <2>1, <2>2, <2>3 DEF ExamTypeOK
<1>12. ASSUME NEW j \in Clerks PROVE EditSound(j)'
  <2>1. CASE j = k
    BY <1>7, <1>10, <2>1 DEF EditSound
  <2>2. CASE j # k
    <3>1. EditSound(j) /\ edit'[j] = edit[j] /\ edit[j].id # r
      BY <1>0, <1>2, <1>10, <2>2
    <3>2. \A i \in Clerks \ {j} : edit'[i].id \in {edit[i].id, NoExam}
      BY <1>7, <1>10
    <3>3. exam' = exam
      BY <1>4
    <3> QED
      BY <1>7, <1>4, <1>10, <3>1, <3>2, <3>3 DEF EditSound
  <2> QED
    BY <2>1, <2>2
<1>13. r \notin loose' => ~x.stale
  BY <1>4
<1>15. Consistent'
  <2> SUFFICES ASSUME NEW q \in Results, examResult'[q] # NoExamResult
               PROVE  /\ examResult'[q].grade = GetGrade(examResult'[q].percentage)
                      /\ \/ q \in loose'
                         \/ /\ examResult'[q].total = Total(item'[q])
                            /\ examResult'[q].percentage
                                 = Percentage(Total(item'[q]),
                                              MarksIn(examPaper', examResult'[q].exam))
    BY DEF Consistent, Total
  <2>1. CASE q = r
    BY <1>2, <1>3, <1>6, <1>4, <1>9, <1>10, <1>13, <2>1
  <2>2. CASE q # r
    BY <1>0, <1>4, <1>10, <2>2 DEF Consistent
  <2> QED
    BY <2>1, <2>2
<1>16. Distinct(examPaper')
  BY <1>4 DEF ExamInv
<1> QED
  BY <1>11, <1>12, <1>15, <1>16 DEF ExamInv

LEMMA ResultWritten ==
  ASSUME ExamInv, NEW k \in Clerks, NEW st \in {"DRAFT", "PUBLISHED"}, WriteResult(k, st)
  PROVE  ExamInv'
<1> DEFINE x == edit[k]
           r == x.id
           e == ExamAfter(k)
           s == StudentAfter(k)
           counted == x.items # NoItems
           graded == counted /\ x.full > 0
           c == IF graded THEN Percentage(Total(x.items), x.full) ELSE examResult[r].percentage
           t == IF counted THEN Total(x.items) ELSE examResult[r].total
           g == IF graded THEN GetGrade(c) ELSE examResult[r].grade
           row == [examResult[r] EXCEPT !.exam = e, !.student = s, !.status = st, !.total = t,
                     !.percentage = c, !.grade = g]
           rest == [p \in x.kept |-> item[r][p]]
           items == IF x.given THEN Over(x.items, rest) ELSE item[r]
<1>0. ExamTypeOK /\ (\A j \in Clerks : EditSound(j)) /\ Consistent
  BY DEF ExamInv
<1>1. /\ x \in Edit /\ edit \in [Clerks -> Edit] /\ x.pc = "write" /\ Writable(k, e, s)
      /\ examResult[r] # NoExamResult
  BY <1>0 DEF ExamTypeOK, WriteResult
<1>2. /\ r \in Results /\ x.exam \in Exams
      /\ ~x.given => x.items = NoItems
      /\ ~x.stale /\ exam[x.exam] # "NONE" => x.full = MarksIn(examPaper, x.exam)
      /\ x.kept \subseteq DOMAIN item[r]
  BY <1>0, <1>1 DEF EditSound
<1>3. exam[e] # "NONE" /\ \A p \in DOMAIN x.items : examPaper[p] # NoExamPaper
  BY <1>1 DEF Writable
<1>4. /\ examResult' = [examResult EXCEPT ![r] = row]
      /\ item' = IF x.given THEN [item EXCEPT ![r] = items] ELSE item
      /\ loose' = IF graded /\ ~x.stale /\ x.kept = {} /\ e = x.exam THEN loose \ {r}
                  ELSE IF x.given \/ e # examResult[r].exam THEN loose \cup {r} ELSE loose
      /\ edit' = Rebased(k) /\ UNCHANGED <<exam, examPaper, examOps>>
  <2>1. examResult' = [examResult EXCEPT ![r] = row]
    <3>1. examResult[r] \in ExamResult
      BY <1>0, <1>1, <1>2 DEF ExamTypeOK
    <3>2. examResult' = [examResult EXCEPT ![r] = [examResult[r] EXCEPT
            !.exam = e, !.student = s, !.status = st,
            !.total = IF counted THEN Total(x.items) ELSE @,
            !.percentage = c, !.grade = IF graded THEN GetGrade(c) ELSE @]]
      BY Zenon DEF WriteResult
    <3>3. row = [examResult[r] EXCEPT
            !.exam = e, !.student = s, !.status = st,
            !.total = IF counted THEN Total(x.items) ELSE @,
            !.percentage = c, !.grade = IF graded THEN GetGrade(c) ELSE @]
      <4> HIDE DEF r, x, e, s, c, counted, graded
      <4> QED
        BY <3>1 DEF ExamResult
    <3> HIDE DEF r, x, e, s, c, counted, graded, row
    <3> QED
      BY <3>2, <3>3
  <2>2. item' = IF x.given THEN [item EXCEPT ![r] = items] ELSE item
    BY DEF WriteResult
  <2>3. loose' = IF graded /\ ~x.stale /\ x.kept = {} /\ e = x.exam THEN loose \ {r}
                 ELSE IF x.given \/ e # examResult[r].exam THEN loose \cup {r} ELSE loose
    BY DEF WriteResult
  <2>4. edit' = Rebased(k) /\ UNCHANGED <<exam, examPaper, examOps>>
    BY DEF WriteResult
  <2> QED
    BY <2>1, <2>2, <2>3, <2>4
<1>5. /\ x.items \in ItemMarks /\ x.full \in Nat /\ Total(x.items) \in Nat
      /\ Percentage(Total(x.items), x.full) \in Nat
      /\ GetGrade(Percentage(Total(x.items), x.full)) \in Letters
  BY <1>1, FiguresTyped
<1>6. examResult[r] \in ExamResult /\ item[r] \in ItemMarks
  BY <1>0, <1>1, <1>2 DEF ExamTypeOK
<1>7. /\ rest \in ItemMarks /\ DOMAIN rest = x.kept
      /\ items \in ItemMarks
      /\ x.given => DOMAIN items = DOMAIN x.items \cup x.kept
      /\ x.given /\ x.kept = {} => items = x.items
      /\ ~x.given => items = item[r]
  <2>1. x.kept \in SUBSET Papers /\ rest \in [x.kept -> Item]
    BY <1>2, <1>6, ItemsTyped
  <2>2. rest \in ItemMarks /\ DOMAIN rest = x.kept
    BY <2>1, TypedItems
  <2> HIDE DEF rest
  <2>3. /\ Over(x.items, rest) \in ItemMarks
        /\ DOMAIN Over(x.items, rest) = DOMAIN x.items \cup x.kept
        /\ x.kept = {} => Over(x.items, rest) = x.items
    BY <1>5, <2>2, OverTyped
  <2> QED
    BY <1>6, <2>2, <2>3
<1>8. e \in Exams /\ s \in Examinees /\ t \in Nat /\ c \in Nat /\ g \in Letters
  <2>1. examResult[r].exam \in Exams /\ examResult[r].student \in Examinees
    BY <1>6 DEF ExamResult
  <2>2. x.student \in Examinees \cup {NoExam}
    BY <1>1 DEF Edit
  <2>3. e \in Exams /\ s \in Examinees
    BY <1>2, <2>1, <2>2 DEF ExamAfter, StudentAfter
  <2> QED
    BY <1>5, <1>6, <2>3 DEF ExamResult
<1>9. /\ graded => t = Total(x.items) /\ c = Percentage(Total(x.items), x.full) /\ g = GetGrade(c)
      /\ ~x.given => t = examResult[r].total /\ c = examResult[r].percentage
                       /\ g = examResult[r].grade
      /\ ~graded => c = examResult[r].percentage /\ g = examResult[r].grade
  BY <1>2
<1>10. graded => x.given
  BY <1>2
<1> HIDE DEF e, s, t, c, g, rest, items, counted, graded
<1>11. /\ row \in ExamResult /\ row # NoExamResult /\ row.exam = e /\ row.total = t
       /\ row.percentage = c /\ row.grade = g
  <2>1. row \in ExamResult /\ row.exam = e /\ row.total = t /\ row.percentage = c /\ row.grade = g
    BY <1>6, <1>8 DEF ExamResult
  <2> HIDE DEF row
  <2> QED
    BY <2>1, NoneDiffer
<1> HIDE DEF row
<1>12. /\ examResult'[r] = row /\ item'[r] = items
       /\ \A q \in Results \ {r} : examResult'[q] = examResult[q] /\ item'[q] = item[q]
       /\ \A q \in Results \ {r} : q \in loose' <=> q \in loose
  BY <1>0, <1>2, <1>4, <1>7 DEF ExamTypeOK
<1>13. ASSUME NEW j \in Clerks
       PROVE  edit'[j] = IF j = k THEN IdleEdit
                         ELSE IF edit[j].id = r /\ x.given
                         THEN [edit[j] EXCEPT !.kept = (@ \cap x.kept) \cup DOMAIN x.items]
                         ELSE edit[j]
  BY <1>4 DEF Rebased
<1>14. IdleEdit \in Edit /\ IdleEdit.pc = "idle" /\ IdleEdit.id = NoExam /\ NoExam \notin Results
  BY NoItemsTyped, ExamAssumption DEF IdleEdit, Edit
<1>15. ASSUME NEW j \in Clerks \ {k}
       PROVE  /\ edit'[j] \in Edit /\ edit'[j].pc = edit[j].pc /\ edit'[j].id = edit[j].id
              /\ edit'[j].exam = edit[j].exam /\ edit'[j].student = edit[j].student
              /\ edit'[j].given = edit[j].given /\ edit'[j].items = edit[j].items
              /\ edit'[j].full = edit[j].full /\ edit'[j].stale = edit[j].stale
              /\ edit'[j].kept = IF edit[j].id = r /\ x.given
                                 THEN (edit[j].kept \cap x.kept) \cup DOMAIN x.items
                                 ELSE edit[j].kept
  <2>1. edit[j] \in Edit /\ DOMAIN x.items \subseteq Papers
    BY <1>1, <1>5, ItemsTyped
  <2> DEFINE K == (edit[j].kept \cap x.kept) \cup DOMAIN x.items
  <2>2. K \subseteq Papers /\ edit'[j] = IF edit[j].id = r /\ x.given
                                         THEN [edit[j] EXCEPT !.kept = K] ELSE edit[j]
    BY <1>13, <2>1 DEF Edit
  <2> HIDE DEF r, x, K
  <2>3. CASE edit[j].id = r /\ x.given
    <3>1. edit'[j] = [edit[j] EXCEPT !.kept = K]
      BY <2>2, <2>3
    <3>2. edit'[j].kept = K
      BY <2>1, <3>1 DEF Edit
    <3> QED
      BY <2>1, <2>2, <2>3, <3>1, <3>2 DEF Edit, K
  <2>4. CASE ~(edit[j].id = r /\ x.given)
    BY <2>1, <2>2, <2>4
  <2> QED
    BY <2>3, <2>4
<1>16. edit' \in [Clerks -> Edit]
  <2>1. edit' = [j \in Clerks |-> edit'[j]]
    BY <1>4 DEF Rebased
  <2>2. \A j \in Clerks : edit'[j] \in Edit
    BY <1>13, <1>14, <1>15
  <2> QED
    BY <2>1, <2>2
<1>17. ExamTypeOK'
  <2>1. /\ exam' \in [Exams -> {"NONE", "DRAFT", "PUBLISHED"}]
        /\ examPaper' \in [Papers -> ExamPaper \cup {NoExamPaper}]
        /\ examOps' \in Nat
        /\ \A p \in Papers : examPaper'[p] # NoExamPaper => exam'[examPaper'[p].exam] # "NONE"
    BY <1>0, <1>4 DEF ExamTypeOK
  <2>2. /\ examResult' \in [Results -> ExamResult \cup {NoExamResult}]
        /\ item' \in [Results -> ItemMarks]
        /\ loose' \subseteq Results
    BY <1>0, <1>2, <1>4, <1>7, <1>11 DEF ExamTypeOK
  <2>3. \A p \in DOMAIN items : examPaper[p] # NoExamPaper
    BY <1>0, <1>2, <1>3, <1>7 DEF ExamTypeOK
  <2>4. \A q \in Results : /\ examResult'[q] # NoExamResult => exam'[examResult'[q].exam] # "NONE"
                           /\ examResult'[q] = NoExamResult => item'[q] = NoItems
                           /\ \A p \in DOMAIN item'[q] : examPaper'[p] # NoExamPaper
    BY <1>0, <1>3, <1>4, <1>11, <1>12, <2>3 DEF ExamTypeOK
  <2> QED
    BY <1>16, <2>1, <2>2, <2>4 DEF ExamTypeOK
<1>18. ASSUME NEW j \in Clerks PROVE EditSound(j)'
  <2>1. CASE j = k
    BY <1>13, <1>14, <2>1 DEF EditSound
  <2>2. CASE j # k
    <3>1. EditSound(j) /\ exam' = exam /\ examPaper' = examPaper
      BY <1>0, <1>4
    <3>2. \A i \in Clerks \ {j} : edit'[i].id \in {edit[i].id, NoExam}
      BY <1>13, <1>14, <1>15
    <3>3. edit[j].pc # "idle" /\ examResult'[edit[j].id] # NoExamResult =>
            edit'[j].kept \subseteq DOMAIN item'[edit[j].id]
      <4>1. CASE edit[j].id # r
        BY <1>12, <1>15, <2>2, <3>1, <4>1 DEF EditSound
      <4>2. CASE edit[j].id = r
        <5>1. edit[j].pc # "idle" => edit[j].kept \subseteq DOMAIN item[r]
          BY <1>1, <3>1, <4>2 DEF EditSound
        <5> HIDE DEF r, x
        <5> QED
          BY <1>7, <1>12, <1>15, <2>2, <4>2, <5>1
      <4> QED
        BY <4>1, <4>2
    <3>4. edit[j].pc = "create" => examResult'[edit[j].id] = NoExamResult
      BY <1>1, <1>12, <2>2, <3>1 DEF EditSound
    <3> QED
      BY <1>14, <1>15, <2>2, <3>1, <3>2, <3>3, <3>4 DEF EditSound
  <2> QED
    BY <2>1, <2>2
\* Either the items are those of the request, or the row keeps them and its exam.
<1>19. r \notin loose' =>
         \/ /\ graded /\ ~x.stale /\ e = x.exam
            /\ items = x.items
         \/ ~x.given /\ e = examResult[r].exam /\ r \notin loose
  BY <1>4, <1>7, <1>10
<1>21. Consistent'
  <2> SUFFICES ASSUME NEW q \in Results, examResult'[q] # NoExamResult
               PROVE  /\ examResult'[q].grade = GetGrade(examResult'[q].percentage)
                      /\ \/ q \in loose'
                         \/ /\ examResult'[q].total = Total(item'[q])
                            /\ examResult'[q].percentage
                                 = Percentage(Total(item'[q]),
                                              MarksIn(examPaper', examResult'[q].exam))
    BY DEF Consistent, Total
  <2>1. CASE q = r
    <3>1. g = GetGrade(c)
      BY <1>0, <1>1, <1>2, <1>9 DEF Consistent
    <3>2. ASSUME r \notin loose'
           PROVE  t = Total(items) /\ c = Percentage(Total(items), MarksIn(examPaper, e))
      BY <1>0, <1>1, <1>2, <1>3, <1>7, <1>9, <1>19, <3>2 DEF Consistent
    <3> QED
      BY <1>4, <1>11, <1>12, <2>1, <3>1, <3>2
  <2>2. CASE q # r
    BY <1>0, <1>4, <1>12, <2>2 DEF Consistent
  <2> QED
    BY <2>1, <2>2
<1>22. Distinct(examPaper')
  BY <1>4 DEF ExamInv
<1> QED
  BY <1>17, <1>18, <1>21, <1>22 DEF ExamInv

LEMMA ResultsDeleted ==
  ASSUME ExamInv, NEW R \in SUBSET Results, DeleteResults(R)
  PROVE  ExamInv'
<1>0. ExamTypeOK /\ (\A j \in Clerks : EditSound(j)) /\ Consistent
  BY DEF ExamInv
<1>1. /\ examResult' = [r \in Results |-> IF r \in R THEN NoExamResult ELSE examResult[r]]
      /\ item' = [r \in Results |-> IF r \in R THEN NoItems ELSE item[r]]
      /\ loose' = loose \ R /\ examOps' = examOps + 1
      /\ UNCHANGED <<exam, examPaper, edit>>
  BY DEF DeleteResults, ExamRequest
<1>2. NoItems \in ItemMarks /\ DOMAIN NoItems = {}
  BY NoItemsTyped
<1>3. ExamTypeOK'
  <2>1. /\ exam' \in [Exams -> {"NONE", "DRAFT", "PUBLISHED"}]
        /\ examPaper' \in [Papers -> ExamPaper \cup {NoExamPaper}]
        /\ examOps' \in Nat /\ edit' \in [Clerks -> Edit]
        /\ \A p \in Papers : examPaper'[p] # NoExamPaper => exam'[examPaper'[p].exam] # "NONE"
    BY <1>0, <1>1 DEF ExamTypeOK
  <2>2. /\ examResult' \in [Results -> ExamResult \cup {NoExamResult}]
        /\ item' \in [Results -> ItemMarks]
        /\ loose' \subseteq Results
    BY <1>0, <1>1, <1>2 DEF ExamTypeOK
  <2>3. \A q \in Results : /\ examResult'[q] # NoExamResult => exam'[examResult'[q].exam] # "NONE"
                           /\ examResult'[q] = NoExamResult => item'[q] = NoItems
                           /\ \A p \in DOMAIN item'[q] : examPaper'[p] # NoExamPaper
    BY <1>0, <1>1, <1>2 DEF ExamTypeOK
  <2> QED
    BY <2>1, <2>2, <2>3 DEF ExamTypeOK
<1>4. ASSUME NEW q \in Results
      PROVE  \/ examResult'[q] = NoExamResult
             \/ /\ examResult'[q] = examResult[q] /\ item'[q] = item[q]
                 /\ q \in loose => q \in loose'
  BY <1>1
<1>5. ASSUME NEW j \in Clerks PROVE EditSound(j)'
  BY <1>0, <1>1, <1>4 DEF EditSound
<1>6. Consistent' /\ Distinct(examPaper')
  BY <1>0, <1>1, <1>4 DEF ExamInv, Consistent, Total
<1> QED
  BY <1>3, <1>5, <1>6 DEF ExamInv

-----------------------------------------------------------------------------
(* Exams and their papers. *)

PaperRows == [Papers -> ExamPaper \cup {NoExamPaper}]

LEMMA PapersAdded ==
  ASSUME NEW e \in Exams, NEW N \in SUBSET Papers, NEW f \in Assigned(e, N),
         NEW old \in PaperRows, Distinct(old),
         \A p \in Papers : old[p].exam # e, \A p \in N : old[p] = NoExamPaper
  PROVE  /\ Over(f, old) \in PaperRows /\ Distinct(Over(f, old))
         /\ \A p \in Papers \ N : Over(f, old)[p] = old[p]
         /\ \A p \in N : Over(f, old)[p] # NoExamPaper /\ Over(f, old)[p].exam = e
<1> DEFINE new == Over(f, old)
<1>1. /\ f \in [N -> ExamPaper] /\ \A p \in N : f[p].exam = e
      /\ \A p, q \in N : p # q => f[p].subject # f[q].subject
  BY DEF Assigned
<1>2. DOMAIN f = N /\ DOMAIN old = Papers /\ DOMAIN f \cup DOMAIN old = Papers
  BY <1>1 DEF PaperRows
<1>3. new = [p \in Papers |-> IF p \in N THEN f[p] ELSE old[p]]
  BY <1>2 DEF Over
<1>4. new \in PaperRows /\ \A p \in Papers \ N : new[p] = old[p]
  BY <1>1, <1>3 DEF PaperRows
<1>5. \A p \in N : new[p] = f[p] /\ new[p] # NoExamPaper /\ new[p].exam = e
  BY <1>1, <1>3, NoneDiffer
<1> HIDE DEF new
<1>6. Distinct(new)
  <2> SUFFICES ASSUME NEW p \in Papers, NEW q \in Papers, new[p] # NoExamPaper, p # q
               PROVE  new[p].exam # new[q].exam \/ new[p].subject # new[q].subject
    BY DEF Distinct
  <2> QED
    BY <1>1, <1>4, <1>5 DEF Distinct
<1> QED
  BY <1>4, <1>5, <1>6 DEF new

LEMMA PapersRemoved ==
  ASSUME ExamInv, NEW P \in SUBSET Papers
  PROVE  /\ Removed(P) \in PaperRows /\ Distinct(Removed(P))
         /\ \A p \in Papers : Removed(P)[p] = IF p \in P THEN NoExamPaper ELSE examPaper[p]
<1>1. examPaper \in PaperRows /\ Distinct(examPaper)
  BY DEF ExamInv, ExamTypeOK, PaperRows
<1>2. Removed(P) \in PaperRows
  BY <1>1 DEF Removed, PaperRows
<1>3. \A p \in Papers : Removed(P)[p] = IF p \in P THEN NoExamPaper ELSE examPaper[p]
  BY DEF Removed
<1>4. Distinct(Removed(P))
  <2> SUFFICES ASSUME NEW p \in Papers, NEW q \in Papers, Removed(P)[p] # NoExamPaper, p # q
               PROVE  \/ Removed(P)[p].exam # Removed(P)[q].exam
                      \/ Removed(P)[p].subject # Removed(P)[q].subject
    BY DEF Distinct
  <2>1. Removed(P)[p] = examPaper[p] /\ Removed(P)[p].exam # NoExam
    BY <1>3, PapersTyped DEF ExamInv
  <2>2. CASE q \in P
    BY <1>3, <2>1, <2>2 DEF NoExamPaper
  <2>3. CASE q \notin P
    BY <1>1, <1>3, <2>1, <2>3 DEF Distinct
  <2> QED
    BY <2>2, <2>3
<1> QED
  BY <1>2, <1>3, <1>4

\* Exams come, or change their status, and nothing refers to what is new.
LEMMA ExamsSettled ==
  ASSUME ExamInv, UNCHANGED <<examResult, item, edit, loose>>, examOps' \in Nat,
         exam' \in [Exams -> {"NONE", "DRAFT", "PUBLISHED"}],
         examPaper' \in PaperRows, Distinct(examPaper'),
         \A e \in Exams : exam[e] # "NONE" => exam'[e] # "NONE",
         \A e \in Exams : exam[e] = "NONE" /\ exam'[e] # "NONE" =>
           \A k \in Clerks : edit[k].exam # e,
         \A p \in Papers : examPaper[p] # NoExamPaper => examPaper'[p] = examPaper[p],
         \A p \in Papers : examPaper'[p] # examPaper[p] =>
           exam[examPaper'[p].exam] = "NONE" /\ exam'[examPaper'[p].exam] # "NONE"
  PROVE  ExamInv'
<1>0. ExamTypeOK /\ (\A j \in Clerks : EditSound(j)) /\ Consistent
  BY DEF ExamInv
<1>1. ASSUME NEW e \in Exams, exam[e] # "NONE"
      PROVE  /\ PapersIn(examPaper', e) = PapersIn(examPaper, e)
             /\ MarksIn(examPaper', e) = MarksIn(examPaper, e)
  <2>1. \A p \in Papers : examPaper[p].exam = e \/ examPaper'[p].exam = e
                            => examPaper'[p] = examPaper[p]
    BY <1>0, <1>1, PapersTyped, ExamAssumption
  <2> QED
    BY <1>0, <2>1, FullKept
<1>2. \A r \in Results : examResult[r] # NoExamResult =>
        examResult[r].exam \in Exams /\ exam[examResult[r].exam] # "NONE"
  BY <1>0 DEF ExamTypeOK, ExamResult
<1>3. ExamTypeOK'
  <2>1. /\ examResult' \in [Results -> ExamResult \cup {NoExamResult}]
        /\ item' \in [Results -> ItemMarks]
        /\ edit' \in [Clerks -> Edit] /\ loose' \subseteq Results
        /\ examPaper' \in [Papers -> ExamPaper \cup {NoExamPaper}]
    BY <1>0 DEF ExamTypeOK, PaperRows
  <2>2. ASSUME NEW p \in Papers, examPaper'[p] # NoExamPaper
        PROVE  exam'[examPaper'[p].exam] # "NONE"
    <3>1. CASE examPaper'[p] = examPaper[p]
      BY <1>0, <2>2, <3>1, PapersTyped DEF ExamTypeOK
    <3> QED
      BY <3>1
  <2>3. \A r \in Results : /\ examResult'[r] # NoExamResult => exam'[examResult'[r].exam] # "NONE"
                           /\ examResult'[r] = NoExamResult => item'[r] = NoItems
                           /\ \A p \in DOMAIN item'[r] : examPaper'[p] # NoExamPaper
    <3>1. \A r \in Results : DOMAIN item[r] \subseteq Papers
      BY <1>0, ItemsTyped DEF ExamTypeOK
    <3> QED
      BY <1>0, <1>2, <3>1 DEF ExamTypeOK
  <2> QED
    BY <2>1, <2>2, <2>3 DEF ExamTypeOK
<1>4. ASSUME NEW k \in Clerks PROVE EditSound(k)'
  <2>1. EditSound(k) /\ edit' = edit /\ examResult' = examResult /\ item' = item
    BY <1>0
  <2>2. edit[k].pc # "idle" /\ exam'[edit[k].exam] # "NONE" => exam[edit[k].exam] # "NONE"
    BY <2>1 DEF EditSound
  <2> QED
    BY <1>1, <2>1, <2>2 DEF EditSound
<1>5. Consistent'
  <2>1. UNCHANGED <<examResult, item, loose>>
    OBVIOUS
  <2> QED
    BY <1>0, <1>1, <1>2, <2>1 DEF Consistent, Total
<1> QED
  BY <1>3, <1>4, <1>5 DEF ExamInv

LEMMA ExamCreated ==
  ASSUME ExamInv, NEW e \in Exams, NEW N \in SUBSET Papers, CreateExam(e, N)
  PROVE  ExamInv'
<1>1. /\ exam[e] = "NONE" /\ \A k \in Clerks : edit[k].exam # e
      /\ \A p \in N : examPaper[p] = NoExamPaper
      /\ UNCHANGED <<examResult, item, edit, loose>> /\ examOps' \in Nat
  BY DEF CreateExam, FreshPapers, ExamRequest, ExamInv, ExamTypeOK
<1>2. PICK f \in Assigned(e, N), st \in {"DRAFT", "PUBLISHED"} :
        exam' = [exam EXCEPT ![e] = st] /\ examPaper' = Over(f, examPaper)
  BY DEF CreateExam
<1>3. /\ examPaper \in PaperRows /\ Distinct(examPaper)
      /\ exam \in [Exams -> {"NONE", "DRAFT", "PUBLISHED"}]
  BY DEF ExamInv, ExamTypeOK, PaperRows
<1>4. \A p \in Papers : examPaper[p].exam # e
  <2>1. ExamTypeOK
    BY DEF ExamInv
  <2>2. \A p \in Papers : examPaper[p] # NoExamPaper => exam[examPaper[p].exam] # "NONE"
    BY <2>1 DEF ExamTypeOK
  <2> QED
    BY <1>1, <2>1, <2>2, PapersTyped, ExamAssumption
<1>5. /\ examPaper' \in PaperRows /\ Distinct(examPaper')
      /\ \A p \in Papers \ N : examPaper'[p] = examPaper[p]
      /\ \A p \in N : examPaper'[p].exam = e
  BY <1>1, <1>2, <1>3, <1>4, PapersAdded
<1>6. /\ exam' \in [Exams -> {"NONE", "DRAFT", "PUBLISHED"}] /\ exam'[e] # "NONE"
      /\ \A d \in Exams \ {e} : exam'[d] = exam[d]
  BY <1>2, <1>3
<1>7. \A p \in Papers : examPaper[p] # NoExamPaper => examPaper'[p] = examPaper[p]
  BY <1>1, <1>5
<1>8. \A p \in Papers : examPaper'[p] # examPaper[p] =>
           exam[examPaper'[p].exam] = "NONE" /\ exam'[examPaper'[p].exam] # "NONE"
  BY <1>1, <1>5, <1>6
<1> QED
  BY <1>1, <1>5, <1>6, <1>7, <1>8, ExamsSettled

LEMMA ExamsPublished ==
  ASSUME ExamInv, NEW E \in SUBSET Exams, NEW published \in BOOLEAN, BulkPublish(E, published)
  PROVE  ExamInv'
<1>1. /\ \A e \in E : exam[e] # "NONE"
      /\ exam' = [e \in Exams |->
           IF e \in E THEN IF published THEN "PUBLISHED" ELSE "DRAFT" ELSE exam[e]]
      /\ UNCHANGED <<examPaper, examResult, item, edit, loose>> /\ examOps' \in Nat
      /\ exam \in [Exams -> {"NONE", "DRAFT", "PUBLISHED"}]
      /\ examPaper \in PaperRows /\ Distinct(examPaper)
  BY DEF BulkPublish, ExamRequest, ExamInv, ExamTypeOK, PaperRows
<1>2. /\ exam' \in [Exams -> {"NONE", "DRAFT", "PUBLISHED"}]
      /\ \A e \in Exams : exam[e] # "NONE" <=> exam'[e] # "NONE"
  BY <1>1
<1> QED
  BY <1>1, <1>2, ExamsSettled

\* Papers P go with their items, other items may go too, exams E have other papers
\* than before and some requests end.
LEMMA ExamsReshaped ==
  ASSUME ExamInv, NEW E \in SUBSET Exams, NEW P \in SUBSET Papers,
         NEW G, \A r \in Results : P \subseteq G[r], NEW K \in SUBSET Clerks,
         examResult' = examResult, Unsettle(G, E, K), examOps' \in Nat,
         exam' \in [Exams -> {"NONE", "DRAFT", "PUBLISHED"}],
         \A e \in Exams : exam[e] # "NONE" <=> exam'[e] # "NONE",
         examPaper' \in PaperRows, Distinct(examPaper'),
         \A p \in Papers : examPaper'[p] # NoExamPaper => exam'[examPaper'[p].exam] # "NONE",
         \A p \in Papers \ P : examPaper[p] # NoExamPaper => examPaper'[p] = examPaper[p],
         \A p \in Papers : examPaper'[p] # examPaper[p] =>
           examPaper[p].exam \in E \cup {NoExam} /\ examPaper'[p].exam \in E \cup {NoExam}
  PROVE  ExamInv'
<1>0. ExamTypeOK /\ (\A j \in Clerks : EditSound(j)) /\ Consistent
  BY DEF ExamInv
<1>1. /\ item' = [r \in Results |-> [p \in DOMAIN item[r] \ G[r] |-> item[r][p]]]
      /\ edit' = [k \in Clerks |->
           IF k \in K THEN IdleEdit
           ELSE [edit[k] EXCEPT !.kept = {p \in @ : p \notin G[edit[k].id]},
                                !.stale = @ \/ edit[k].exam \in E]]
      /\ loose' = loose \cup {r \in Results :
           examResult[r] # NoExamResult
             /\ (examResult[r].exam \in E \/ DOMAIN item[r] \cap G[r] # {})}
  BY DEF Unsettle
<1>2. ASSUME NEW e \in Exams \ E
      PROVE  /\ PapersIn(examPaper', e) = PapersIn(examPaper, e)
             /\ MarksIn(examPaper', e) = MarksIn(examPaper, e)
  <2>1. \A p \in Papers : examPaper[p].exam = e \/ examPaper'[p].exam = e
                            => examPaper'[p] = examPaper[p]
    BY ExamAssumption
  <2> QED
    BY <1>0, <2>1, FullKept
<1>3. ASSUME NEW r \in Results
      PROVE  /\ item'[r] \in ItemMarks /\ DOMAIN item'[r] = DOMAIN item[r] \ G[r]
             /\ DOMAIN item[r] \cap G[r] = {} => item'[r] = item[r]
             /\ DOMAIN item[r] \subseteq Papers
  <2>1. item[r] \in ItemMarks /\ item'[r] = [p \in DOMAIN item[r] \ G[r] |-> item[r][p]]
    BY <1>0, <1>1 DEF ExamTypeOK
  <2> DEFINE f == item[r]
             g == item'[r]
             H == G[r]
  <2>2. f \in ItemMarks /\ g = [p \in DOMAIN f \ H |-> f[p]]
    BY <2>1
  <2> HIDE DEF f, g, H
  <2>3. g \in ItemMarks /\ DOMAIN g = DOMAIN f \ H /\ (DOMAIN f \cap H = {} => g = f)
    BY <2>2, ItemsWithout
  <2>4. DOMAIN f \subseteq Papers
    BY <2>2, ItemsTyped
  <2> QED
    BY <2>3, <2>4 DEF f, g, H
<1>4. ASSUME NEW k \in Clerks \ K
      PROVE  /\ edit'[k] \in Edit /\ edit'[k].pc = edit[k].pc /\ edit'[k].id = edit[k].id
             /\ edit'[k].exam = edit[k].exam /\ edit'[k].student = edit[k].student
             /\ edit'[k].given = edit[k].given /\ edit'[k].items = edit[k].items
             /\ edit'[k].full = edit[k].full
             /\ edit'[k].kept = {p \in edit[k].kept : p \notin G[edit[k].id]}
             /\ edit'[k].stale = (edit[k].stale \/ edit[k].exam \in E)
  <2>1. edit[k] \in Edit
    BY <1>0 DEF ExamTypeOK
  <2> DEFINE b == edit[k].stale \/ edit[k].exam \in E
             L == {p \in edit[k].kept : p \notin G[edit[k].id]}
  <2>2. b \in BOOLEAN /\ L \in SUBSET Papers
    BY <2>1 DEF Edit
  <2>3. edit'[k] = [edit[k] EXCEPT !.kept = L, !.stale = b]
    BY <1>1, <2>1 DEF Edit
  <2> HIDE DEF b, L
  <2>4. /\ edit'[k] \in Edit /\ edit'[k].pc = edit[k].pc /\ edit'[k].id = edit[k].id
        /\ edit'[k].exam = edit[k].exam /\ edit'[k].student = edit[k].student
        /\ edit'[k].given = edit[k].given /\ edit'[k].items = edit[k].items
        /\ edit'[k].full = edit[k].full /\ edit'[k].kept = L /\ edit'[k].stale = b
    BY <2>1, <2>2, <2>3 DEF Edit
  <2> QED
    BY <2>4 DEF b, L
<1>11. /\ \A k \in K : edit'[k] = IdleEdit
       /\ IdleEdit \in Edit /\ IdleEdit.pc = "idle" /\ IdleEdit.id = NoExam
       /\ NoExam \notin Results
  <2>1. \A k \in K : edit'[k] = IdleEdit
    BY <1>1
  <2> QED
    BY <2>1, NoItemsTyped, ExamAssumption DEF IdleEdit, Edit
<1>5. \A r \in Results : examResult[r] # NoExamResult =>
        examResult[r].exam \in Exams /\ exam[examResult[r].exam] # "NONE"
  BY <1>0 DEF ExamTypeOK, ExamResult
<1>6. ExamTypeOK'
  <2>1. /\ examResult' \in [Results -> ExamResult \cup {NoExamResult}]
        /\ loose' \subseteq Results
        /\ examPaper' \in [Papers -> ExamPaper \cup {NoExamPaper}]
    BY <1>0, <1>1 DEF ExamTypeOK, PaperRows
  <2>2. item' \in [Results -> ItemMarks]
    <3>1. item' = [r \in Results |-> item'[r]]
      BY <1>1
    <3> QED
      BY <1>3, <3>1
  <2>3. edit' \in [Clerks -> Edit]
    <3>1. edit' = [k \in Clerks |-> edit'[k]]
      BY <1>1
    <3> QED
      BY <1>4, <1>11, <3>1
  <2>4. \A r \in Results : /\ examResult'[r] # NoExamResult => exam'[examResult'[r].exam] # "NONE"
                           /\ examResult'[r] = NoExamResult => item'[r] = NoItems
                           /\ \A p \in DOMAIN item'[r] : examPaper'[p] # NoExamPaper
    <3>1. \A r \in Results : examResult[r] = NoExamResult => item[r] = NoItems
      BY <1>0 DEF ExamTypeOK
    <3>2. \A r \in Results : \A p \in DOMAIN item[r] : examPaper[p] # NoExamPaper
      BY <1>0 DEF ExamTypeOK
    <3> QED
      BY <1>3, <1>5, <3>1, <3>2, NoItemsTyped
  <2> QED
    BY <2>1, <2>2, <2>3, <2>4 DEF ExamTypeOK
<1>7. ASSUME NEW k \in Clerks PROVE EditSound(k)'
  <2>0. CASE k \in K
    BY <1>11, <2>0 DEF EditSound
  <2>1. EditSound(k)
    BY <1>0
  <2>2. CASE k \notin K
    <3>1. edit[k].pc # "idle" /\ ~edit'[k].stale => edit[k].exam \in Exams \ E /\ ~edit[k].stale
      BY <1>4, <2>1, <2>2 DEF EditSound
    <3>2. \A j \in Clerks : edit'[j].id \in {edit[j].id, NoExam}
      BY <1>4, <1>11
    <3>3. edit[k].pc # "idle" => edit[k].id \in Results /\ edit[k].exam \in Exams
      BY <2>1 DEF EditSound
    <3>4. edit[k].pc # "idle" /\ examResult[edit[k].id] # NoExamResult =>
            edit'[k].kept \subseteq DOMAIN item'[edit[k].id]
      <4>1. edit[k].pc # "idle" /\ examResult[edit[k].id] # NoExamResult =>
              edit[k].kept \subseteq DOMAIN item[edit[k].id]
        BY <2>1 DEF EditSound
      <4> QED
        BY <1>3, <1>4, <2>2, <3>3, <4>1
    <3>5. edit[k].pc = "create" => \A j \in Clerks \ {k} : edit'[j].id # edit[k].id
      BY <1>11, <2>1, <3>2, <3>3 DEF EditSound
    <3> QED
      BY <1>2, <1>4, <2>1, <2>2, <3>1, <3>3, <3>4, <3>5 DEF EditSound
  <2> QED
    BY <2>0, <2>2
\* What is not set aside keeps its exam's papers and its items.
<1>8. ASSUME NEW r \in Results, examResult[r] # NoExamResult, r \notin loose'
      PROVE  r \notin loose /\ examResult[r].exam \in Exams \ E /\ item'[r] = item[r]
  <2>1. /\ r \notin loose /\ ~(examResult[r].exam \in E) /\ DOMAIN item[r] \cap G[r] = {}
    BY <1>1, <1>8
  <2> QED
    BY <1>3, <1>5, <1>8, <2>1
<1>10. Consistent'
  <2> SUFFICES ASSUME NEW r \in Results, examResult[r] # NoExamResult
               PROVE  /\ examResult[r].grade = GetGrade(examResult[r].percentage)
                      /\ \/ r \in loose'
                         \/ /\ examResult[r].total = Total(item'[r])
                            /\ examResult[r].percentage
                                 = Percentage(Total(item'[r]),
                                              MarksIn(examPaper', examResult[r].exam))
    BY DEF Consistent, Total
  <2> QED
    BY <1>0, <1>2, <1>8 DEF Consistent
<1> QED
  BY <1>6, <1>7, <1>10 DEF ExamInv

LEMMA ExamUpdated ==
  ASSUME ExamInv, NEW e \in Exams, NEW N \in SUBSET Papers, NEW replace \in BOOLEAN,
         NEW st \in {"DRAFT", "PUBLISHED"}, UpdateExam(e, N, replace, st)
  PROVE  ExamInv'
<1>1. /\ exam[e] # "NONE" /\ \A p \in N : examPaper[p] = NoExamPaper
      /\ exam' = [exam EXCEPT ![e] = st] /\ examResult' = examResult /\ examOps' \in Nat
  BY DEF UpdateExam, FreshPapers, ExamRequest, ExamInv, ExamTypeOK
<1>2. /\ ExamTypeOK /\ exam \in [Exams -> {"NONE", "DRAFT", "PUBLISHED"}]
      /\ examPaper \in PaperRows /\ Distinct(examPaper)
      /\ \A p \in Papers : examPaper[p] # NoExamPaper => exam[examPaper[p].exam] # "NONE"
  BY DEF ExamInv, ExamTypeOK, PaperRows
<1>3. /\ exam' \in [Exams -> {"NONE", "DRAFT", "PUBLISHED"}]
      /\ \A d \in Exams : exam[d] # "NONE" <=> exam'[d] # "NONE"
  BY <1>1, <1>2
<1>4. CASE replace
  <2> DEFINE P == PapersOf({e})
             old == Removed(P)
  <2>1. PICK f \in Assigned(e, N) : examPaper' = Over(f, old)
    BY <1>4 DEF UpdateExam
  <2> DEFINE G == [r \in Results |-> P]
  <2>2. /\ Unsettle(G, {e}, {}) /\ P \in SUBSET Papers
        /\ \A r \in Results : P \subseteq G[r]
    BY <1>4 DEF UpdateExam, PapersOf
  <2>3. /\ old \in PaperRows /\ Distinct(old)
        /\ \A p \in Papers : old[p] = IF p \in P THEN NoExamPaper ELSE examPaper[p]
    BY <2>2, PapersRemoved
  <2>4. \A p \in Papers : p \in P <=> examPaper[p].exam = e
    BY DEF PapersOf
  <2>5. NoExamPaper.exam = NoExam /\ NoExam # e
    BY ExamAssumption DEF NoExamPaper
  <2> HIDE DEF P, old, G
  <2>6. /\ \A p \in Papers : old[p].exam # e
        /\ \A p \in N : old[p] = NoExamPaper
    BY <1>1, <2>3, <2>4, <2>5
  <2>7. /\ examPaper' \in PaperRows /\ Distinct(examPaper')
        /\ \A p \in Papers \ N : examPaper'[p] = old[p]
        /\ \A p \in N : examPaper'[p].exam = e
    BY <2>1, <2>3, <2>6, PapersAdded
  <2>8. \A p \in Papers : examPaper'[p] # NoExamPaper => exam'[examPaper'[p].exam] # "NONE"
    <3> SUFFICES ASSUME NEW p \in Papers, examPaper'[p] # NoExamPaper
                 PROVE  exam'[examPaper'[p].exam] # "NONE"
      OBVIOUS
    <3>1. CASE p \in N
      BY <1>1, <1>3, <2>7, <3>1
    <3>2. CASE p \notin N
      <4>1. examPaper'[p] = examPaper[p]
        BY <2>3, <2>7, <3>2
      <4> QED
        BY <1>2, <1>3, <4>1, PapersTyped
    <3> QED
      BY <3>1, <3>2
  <2>9. \A p \in Papers \ P : examPaper[p] # NoExamPaper => examPaper'[p] = examPaper[p]
    BY <1>1, <2>3, <2>7
  <2>10. \A p \in Papers : examPaper'[p] # examPaper[p] =>
           examPaper[p].exam \in {e} \cup {NoExam} /\ examPaper'[p].exam \in {e} \cup {NoExam}
    BY <1>1, <2>3, <2>4, <2>5, <2>7
  <2>11. {e} \in SUBSET Exams /\ {} \in SUBSET Clerks
    OBVIOUS
  <2> QED
    BY <1>1, <1>3, <2>2, <2>7, <2>8, <2>9, <2>10, <2>11, ExamsReshaped, Zenon
<1>5. CASE ~replace
  <2>1. UNCHANGED <<examPaper, examResult, item, edit, loose>>
    BY <1>1, <1>5 DEF UpdateExam
  <2> QED
    BY <1>1, <1>2, <1>3, <2>1, ExamsSettled
<1> QED
  BY <1>4, <1>5

LEMMA SubjectsDropped ==
  ASSUME ExamInv, NEW U \in SUBSET ExamSubjects, DropSubjects(U)
  PROVE  ExamInv'
<1> DEFINE P == {p \in Papers : examPaper[p].subject \in U}
           E == {examPaper[p].exam : p \in P}
           G == [r \in Results |-> P \cup {p \in DOMAIN item[r] : item[r][p].subject \in U}]
<1>1. /\ examPaper' = Removed(P) /\ Unsettle(G, E, Naming(U)) /\ examOps' \in Nat
      /\ UNCHANGED <<exam, examResult>>
  BY DEF DropSubjects, ExamRequest, ExamInv, ExamTypeOK
<1>8. Naming(U) \in SUBSET Clerks /\ \A r \in Results : P \subseteq G[r]
  BY DEF Naming
<1>2. /\ ExamTypeOK /\ exam \in [Exams -> {"NONE", "DRAFT", "PUBLISHED"}]
      /\ \A p \in Papers : examPaper[p] # NoExamPaper => exam[examPaper[p].exam] # "NONE"
  BY DEF ExamInv, ExamTypeOK
<1>3. NoExamPaper.exam = NoExam /\ NoExam \notin U
  BY ExamAssumption DEF NoExamPaper
<1>4. /\ P \in SUBSET Papers /\ \A p \in P : examPaper[p].exam \in E
      /\ E \in SUBSET Exams
  BY <1>2, <1>3, PapersTyped
<1> HIDE DEF P, E, G
<1>5. /\ examPaper' \in PaperRows /\ Distinct(examPaper')
      /\ \A p \in Papers : examPaper'[p] = IF p \in P THEN NoExamPaper ELSE examPaper[p]
  BY <1>1, <1>4, PapersRemoved
<1>6. \A p \in Papers : examPaper'[p] # NoExamPaper => exam'[examPaper'[p].exam] # "NONE"
  BY <1>1, <1>2, <1>5
<1>7. \A p \in Papers : examPaper'[p] # examPaper[p] =>
        examPaper[p].exam \in E \cup {NoExam} /\ examPaper'[p].exam \in E \cup {NoExam}
  BY <1>3, <1>4, <1>5
<1> QED
  <2>1. /\ exam' \in [Exams -> {"NONE", "DRAFT", "PUBLISHED"}]
        /\ \A e \in Exams : exam[e] # "NONE" <=> exam'[e] # "NONE"
    BY <1>1, <1>2
  <2>2. \A p \in Papers \ P : examPaper[p] # NoExamPaper => examPaper'[p] = examPaper[p]
    BY <1>5
  <2>3. examResult' = examResult
    BY <1>1
  <2> QED
    BY <1>1, <1>4, <1>5, <1>6, <1>7, <1>8, <2>1, <2>2, <2>3, ExamsReshaped, Zenon

LEMMA ExamsDeleted ==
  ASSUME ExamInv, NEW E \in SUBSET Exams, DeleteExams(E)
  PROVE  ExamInv'
<1> DEFINE R == {r \in Results : examResult[r].exam \in E}
           P == PapersOf(E)
<1>0. /\ ExamTypeOK /\ (\A j \in Clerks : EditSound(j)) /\ Consistent
      /\ \A p \in Papers : examPaper[p] # NoExamPaper => exam[examPaper[p].exam] # "NONE"
  BY DEF ExamInv, ExamTypeOK
<1>1. /\ examResult' = [r \in Results |-> IF r \in R THEN NoExamResult ELSE examResult[r]]
      /\ item' = [r \in Results |->
           IF r \in R THEN NoItems ELSE [p \in DOMAIN item[r] \ P |-> item[r][p]]]
      /\ loose' = (loose \ R) \cup {r \in Results \ R : DOMAIN item[r] \cap P # {}}
      /\ exam' = [e \in Exams |-> IF e \in E THEN "NONE" ELSE exam[e]]
      /\ examPaper' = Removed(P)
      /\ edit' = [k \in Clerks |-> [edit[k] EXCEPT !.kept = @ \ P]]
      /\ examOps' \in Nat
  BY <1>0 DEF DeleteExams, ExamRequest, ExamTypeOK
<1>2. /\ P \in SUBSET Papers /\ \A p \in Papers : p \in P <=> examPaper[p].exam \in E
      /\ \A r \in Results : r \in R <=> examResult[r].exam \in E
  BY DEF PapersOf
<1> HIDE DEF R, P
<1>3. /\ examPaper' \in PaperRows /\ Distinct(examPaper')
      /\ \A p \in Papers : examPaper'[p] = IF p \in P THEN NoExamPaper ELSE examPaper[p]
  BY <1>1, <1>2, PapersRemoved
<1>4. NoExamPaper.exam = NoExam /\ NoExam \notin Exams
  BY ExamAssumption DEF NoExamPaper
<1>5. ASSUME NEW e \in Exams \ E
      PROVE  /\ PapersIn(examPaper', e) = PapersIn(examPaper, e)
             /\ MarksIn(examPaper', e) = MarksIn(examPaper, e)
  <2>1. \A p \in Papers : examPaper[p].exam = e \/ examPaper'[p].exam = e
                            => examPaper'[p] = examPaper[p]
    BY <1>2, <1>3, <1>4
  <2> QED
    BY <1>0, <2>1, FullKept
<1>6. ASSUME NEW r \in Results
      PROVE  /\ item'[r] \in ItemMarks
             /\ r \notin R => DOMAIN item'[r] = DOMAIN item[r] \ P
             /\ r \notin R /\ DOMAIN item[r] \cap P = {} => item'[r] = item[r]
             /\ r \in R => item'[r] = NoItems
             /\ DOMAIN item[r] \subseteq Papers
  <2> DEFINE f == item[r]
             g == [p \in DOMAIN f \ P |-> f[p]]
  <2>1. f \in ItemMarks /\ item'[r] = IF r \in R THEN NoItems ELSE g
    BY <1>0, <1>1 DEF ExamTypeOK
  <2>2. g = [p \in DOMAIN f \ P |-> f[p]]
    OBVIOUS
  <2> HIDE DEF f, g
  <2>3. g \in ItemMarks /\ DOMAIN g = DOMAIN f \ P /\ (DOMAIN f \cap P = {} => g = f)
    BY <2>1, <2>2, ItemsWithout
  <2>4. DOMAIN f \subseteq Papers
    BY <2>1, ItemsTyped
  <2> QED
    BY <2>1, <2>3, <2>4, NoItemsTyped DEF f
<1>7. ASSUME NEW k \in Clerks
      PROVE  /\ edit'[k] \in Edit /\ edit'[k].pc = edit[k].pc /\ edit'[k].id = edit[k].id
             /\ edit'[k].exam = edit[k].exam /\ edit'[k].student = edit[k].student
             /\ edit'[k].given = edit[k].given /\ edit'[k].items = edit[k].items
             /\ edit'[k].full = edit[k].full /\ edit'[k].kept = edit[k].kept \ P
             /\ edit'[k].stale = edit[k].stale
  <2> DEFINE K == edit[k].kept \ P
  <2>1. edit[k] \in Edit /\ K \in SUBSET Papers
    BY <1>0 DEF ExamTypeOK, Edit
  <2>2. edit'[k] = [edit[k] EXCEPT !.kept = K]
    BY <1>1, <2>1 DEF Edit
  <2> HIDE DEF K
  <2>3. /\ edit'[k] \in Edit /\ edit'[k].pc = edit[k].pc /\ edit'[k].id = edit[k].id
        /\ edit'[k].exam = edit[k].exam /\ edit'[k].student = edit[k].student
        /\ edit'[k].given = edit[k].given /\ edit'[k].items = edit[k].items
        /\ edit'[k].full = edit[k].full /\ edit'[k].kept = K /\ edit'[k].stale = edit[k].stale
    BY <2>1, <2>2 DEF Edit
  <2> QED
    BY <2>3 DEF K
<1>8. ASSUME NEW r \in Results
      PROVE  /\ examResult'[r] = IF r \in R THEN NoExamResult ELSE examResult[r]
             /\ examResult[r] # NoExamResult =>
                  examResult[r].exam \in Exams /\ exam[examResult[r].exam] # "NONE"
  BY <1>0, <1>1 DEF ExamTypeOK, ExamResult
<1>9. \A e \in Exams : exam'[e] = IF e \in E THEN "NONE" ELSE exam[e]
  BY <1>1
<1>10. ExamTypeOK'
  <2>1. /\ exam' \in [Exams -> {"NONE", "DRAFT", "PUBLISHED"}]
        /\ loose' \subseteq Results
        /\ examResult' \in [Results -> ExamResult \cup {NoExamResult}]
        /\ examPaper' \in [Papers -> ExamPaper \cup {NoExamPaper}]
    BY <1>0, <1>1, <1>3 DEF ExamTypeOK, PaperRows
  <2>2. item' \in [Results -> ItemMarks]
    <3>1. item' = [r \in Results |-> item'[r]]
      BY <1>1
    <3> QED
      BY <1>6, <3>1
  <2>3. edit' \in [Clerks -> Edit]
    <3>1. edit' = [k \in Clerks |-> edit'[k]]
      BY <1>1
    <3> QED
      BY <1>7, <3>1
  <2>4. ASSUME NEW p \in Papers, examPaper'[p] # NoExamPaper
        PROVE  exam'[examPaper'[p].exam] # "NONE"
    <3>1. examPaper'[p] = examPaper[p] /\ examPaper[p].exam \in Exams \ E
      BY <1>0, <1>2, <1>3, <2>4, PapersTyped
    <3> QED
      BY <1>0, <1>9, <2>4, <3>1
  <2>5. ASSUME NEW r \in Results
        PROVE  /\ examResult'[r] # NoExamResult => exam'[examResult'[r].exam] # "NONE"
               /\ examResult'[r] = NoExamResult => item'[r] = NoItems
               /\ \A p \in DOMAIN item'[r] : examPaper'[p] # NoExamPaper
    <3>1. examResult[r] = NoExamResult => item[r] = NoItems
      BY <1>0 DEF ExamTypeOK
    <3>2. \A p \in DOMAIN item[r] : examPaper[p] # NoExamPaper
      BY <1>0 DEF ExamTypeOK
    <3>3. CASE r \in R
      BY <1>6, <1>8, <3>3, NoItemsTyped
    <3>4. CASE r \notin R
      BY <1>2, <1>3, <1>6, <1>8, <1>9, <3>1, <3>2, <3>4, NoItemsTyped
    <3> QED
      BY <3>3, <3>4
  <2> QED
    BY <1>1, <2>1, <2>2, <2>3, <2>4, <2>5 DEF ExamTypeOK
<1>11. ASSUME NEW k \in Clerks PROVE EditSound(k)'
  <2>1. EditSound(k) /\ \A j \in Clerks : edit'[j].id = edit[j].id
    BY <1>0, <1>7
  <2>2. edit[k].pc # "idle" => edit[k].id \in Results /\ edit[k].exam \in Exams
    BY <2>1 DEF EditSound
  <2>3. edit[k].pc # "idle" /\ exam'[edit[k].exam] # "NONE" =>
          edit[k].exam \in Exams \ E /\ exam[edit[k].exam] # "NONE"
    BY <1>9, <2>2
  <2>4. edit[k].pc # "idle" /\ examResult'[edit[k].id] # NoExamResult =>
          edit'[k].kept \subseteq DOMAIN item'[edit[k].id]
    <3>1. edit[k].pc # "idle" /\ examResult[edit[k].id] # NoExamResult =>
            edit[k].kept \subseteq DOMAIN item[edit[k].id]
      BY <2>1 DEF EditSound
    <3> QED
      BY <1>6, <1>7, <1>8, <2>2, <3>1
  <2>5. edit[k].pc = "create" => examResult'[edit[k].id] = NoExamResult
    BY <1>8, <2>1 DEF EditSound
  <2> QED
    BY <1>5, <1>7, <2>1, <2>2, <2>3, <2>4, <2>5 DEF EditSound
<1>12. ASSUME NEW r \in Results, examResult'[r] # NoExamResult
       PROVE  /\ examResult'[r] = examResult[r] /\ examResult[r] # NoExamResult
              /\ examResult[r].exam \in Exams \ E
              /\ r \notin loose' => r \notin loose /\ item'[r] = item[r]
  <2>1. r \notin R /\ examResult'[r] = examResult[r]
    BY <1>8, <1>12
  <2>2. r \notin loose' => r \notin loose /\ DOMAIN item[r] \cap P = {}
    BY <1>1, <2>1
  <2> QED
    BY <1>2, <1>6, <1>8, <1>12, <2>1, <2>2
<1>14. Consistent'
  <2> SUFFICES ASSUME NEW r \in Results, examResult'[r] # NoExamResult
               PROVE  /\ examResult'[r].grade = GetGrade(examResult'[r].percentage)
                      /\ \/ r \in loose'
                         \/ /\ examResult'[r].total = Total(item'[r])
                            /\ examResult'[r].percentage
                                 = Percentage(Total(item'[r]),
                                              MarksIn(examPaper', examResult'[r].exam))
    BY DEF Consistent, Total
  <2> QED
    BY <1>0, <1>5, <1>12 DEF Consistent
<1> QED
  BY <1>3, <1>10, <1>11, <1>14 DEF ExamInv

-----------------------------------------------------------------------------
LEMMA ExamStepInv == ExamInv /\ [ExamNext]_examVars => ExamInv'
<1> SUFFICES ASSUME ExamInv, [ExamNext]_examVars PROVE ExamInv'
  OBVIOUS
<1>1. ASSUME NEW k \in Clerks, ExamStep(k) PROVE ExamInv'
  BY <1>1, CreateReads, UpdateReads, ResultInserted, ResultWritten, ItemsDeleted, EditDropped
     DEF ExamStep
<1>2. ASSUME NEW e \in Exams, NEW N \in SUBSET Papers,
             \/ CreateExam(e, N)
             \/ \E replace \in BOOLEAN, st \in {"DRAFT", "PUBLISHED"} :
                  UpdateExam(e, N, replace, st)
      PROVE  ExamInv'
  BY <1>2, ExamCreated, ExamUpdated
<1>3. ASSUME NEW E \in SUBSET Exams,
             DeleteExams(E) \/ \E published \in BOOLEAN : BulkPublish(E, published)
      PROVE  ExamInv'
  BY <1>3, ExamsDeleted, ExamsPublished
<1>4. ASSUME NEW U \in SUBSET ExamSubjects, DropSubjects(U) PROVE ExamInv'
  BY <1>4, SubjectsDropped
<1>5. ASSUME NEW R \in SUBSET Results, DeleteResults(R) PROVE ExamInv'
  BY <1>5, ResultsDeleted
<1>6. CASE UNCHANGED examVars
  BY <1>6 DEF examVars, ExamInv, ExamTypeOK, EditSound, Consistent, Total
<1> QED
  BY <1>1, <1>2, <1>3, <1>4, <1>5, <1>6 DEF ExamNext, ExamChange

LEMMA ExamConsequence == ExamInv => ExamTypeOK /\ ResultIsConsistent
<1> SUFFICES ASSUME ExamInv, NEW r \in Results, examResult[r] # NoExamResult
             PROVE  /\ examResult[r].grade = GetGrade(examResult[r].percentage)
                    /\ \/ r \in loose
                       \/ /\ examResult[r].total = Total(item[r])
                          /\ examResult[r].percentage
                               = Percentage(Total(item[r]), FullMarks(examResult[r].exam))
  BY DEF ResultIsConsistent, ExamInv
<1>1. FullMarks(examResult[r].exam) = MarksIn(examPaper, examResult[r].exam)
  BY MarksAre
<1> QED
  BY <1>1 DEF ExamInv, Consistent

\* Exams, papers, results, their items and the requests on them keep their types,
\* and no item outlives its result or the paper it is for.
THEOREM ExamsTyped == ExamSpec => []ExamTypeOK
  BY ExamInitInv, ExamStepInv, ExamConsequence, PTL DEF ExamSpec

\* The total, percentage and grade of a result follow from its items and its exam's
\* papers, however requests on results and changes of exams interleave.
THEOREM ResultsConsistent == ExamSpec => []ResultIsConsistent
  BY ExamInitInv, ExamStepInv, ExamConsequence, PTL DEF ExamSpec

-----------------------------------------------------------------------------
(* The rows of the report card *)

CardInv == ExamInv /\ CardTypeOK

LEMMA CardInitInv == CardInit => CardInv
<1> SUFFICES ASSUME CardInit PROVE CardInv
  OBVIOUS
<1>1. ExamInv
  BY ExamInitInv DEF CardInit
<1>2. assignment \in [Assignments -> Assignment \cup {NoAssignment}]
  <2> DEFINE row(u) == [st |-> "PUBLISHED", subject |-> u, marks |-> 2,
                        late |-> FALSE, due |-> FALSE]
  <2>1. \A u \in ExamSubjects : row(u) \in Assignment
    <3>1. 2 \in Nat /\ FALSE \in BOOLEAN
      OBVIOUS
    <3> QED
      BY <3>1, Zenon DEF Assignment
  <2>2. assignment \in [Assignments -> {row(u) : u \in ExamSubjects}]
    BY DEF CardInit
  <2> HIDE DEF row
  <2> QED
    BY <2>1, <2>2
<1>3. submission \in [Assignments \X Examinees -> Submission]
  <2>1. \A x \in {NoSubmission, [st |-> "REVIEWED", awarded |-> 1]} : x \in Submission
    BY DEF Submission, NoSubmission
  <2>2. submission \in [Assignments \X Examinees ->
                          {NoSubmission, [st |-> "REVIEWED", awarded |-> 1]}]
    BY DEF CardInit
  <2> QED
    BY <2>1, <2>2
<1>4. IdleHand \in [pc : {"idle", "save", "submit", "review"},
                    a : Assignments \cup {NoExam}, s : Examinees \cup {NoExam}]
  BY DEF IdleHand
<1>5. hand = [h \in Hands |-> IdleHand]
  BY DEF CardInit
<1> QED
  BY <1>1, <1>2, <1>3, <1>4, <1>5, ExamConsequence DEF CardInv, CardTypeOK

LEMMA RequestCounted == ExamInv /\ CourseRequest => ExamInv'
<1> SUFFICES ASSUME ExamInv, CourseRequest PROVE ExamInv'
  OBVIOUS
<1>1. UNCHANGED <<exam, examPaper, examResult, item, edit, loose>> /\ examOps' \in Nat
  BY DEF CourseRequest, ExamRequest, ExamInv, ExamTypeOK
<1> QED
  BY <1>1 DEF ExamInv, ExamTypeOK, EditSound, Consistent, Total

CourseTyped ==
  /\ assignment \in [Assignments -> Assignment \cup {NoAssignment}]
  /\ submission \in [Assignments \X Examinees -> Submission]
  /\ hand \in [Hands -> [pc : {"idle", "save", "submit", "review"},
                         a : Assignments \cup {NoExam}, s : Examinees \cup {NoExam}]]

LEMMA CardStepInv == CardInv /\ [CardNext]_cardVars => CardInv'
<1> SUFFICES ASSUME CardInv, [CardNext]_cardVars PROVE CardInv'
  OBVIOUS
<1>0. ExamInv /\ CourseTyped
  BY DEF CardInv, CardTypeOK, CourseTyped
<1> SUFFICES ExamInv' /\ CourseTyped'
  <2>1. ExamInv' => ExamTypeOK'
    BY DEF ExamInv
  <2> QED
    BY <2>1 DEF CardInv, CardTypeOK, CourseTyped
<1> DEFINE HandRecords == [pc : {"idle", "save", "submit", "review"},
                           a : Assignments \cup {NoExam}, s : Examinees \cup {NoExam}]
<1>1. CASE ExamChange /\ UNCHANGED courseVars
  BY <1>0, <1>1, ExamStepInv DEF courseVars, CourseTyped, ExamNext
<1>2. CASE UNCHANGED cardVars
  BY <1>0, <1>2, ExamStepInv DEF cardVars, courseVars, CourseTyped
<1>3. ASSUME NEW a \in Assignments,
             NEW row \in [st : {"DRAFT", "PUBLISHED", "CLOSED"}, subject : ExamSubjects,
                          marks : {1, 2}, late : BOOLEAN, due : {FALSE}],
             CreateAssignment(a, row) \/ UpdateAssignment(a, row)
      PROVE  ExamInv' /\ CourseTyped'
  <2>1. row \in Assignment
    <3>1. {1, 2} \subseteq Nat /\ {FALSE} \subseteq BOOLEAN
      OBVIOUS
    <3> DEFINE M == {1, 2}
               F == {FALSE}
    <3>2. row \in [st : {"DRAFT", "PUBLISHED", "CLOSED"}, subject : ExamSubjects,
                   marks : M, late : BOOLEAN, due : F]
      OBVIOUS
    <3> HIDE DEF M, F
    <3> QED
      BY <3>1, <3>2, Zenon DEF Assignment, M, F
  <2>2. /\ assignment' = [assignment EXCEPT ![a] = row] /\ CourseRequest
        /\ UNCHANGED <<submission, hand>>
    BY <1>3 DEF CreateAssignment, UpdateAssignment
  <2> QED
    BY <1>0, <2>1, <2>2, RequestCounted DEF CourseTyped
<1>4. ASSUME NEW A \in SUBSET Assignments, DeleteAssignments(A)
      PROVE  ExamInv' /\ CourseTyped'
  <2>0. DOMAIN submission = Assignments \X Examinees
    BY <1>0 DEF CourseTyped
  <2>1. /\ assignment' = [a \in Assignments |-> IF a \in A THEN NoAssignment ELSE assignment[a]]
        /\ submission' = [x \in DOMAIN submission |->
                            IF x[1] \in A THEN NoSubmission ELSE submission[x]]
        /\ CourseRequest /\ UNCHANGED hand
    BY <1>4 DEF DeleteAssignments
  <2>2. NoSubmission \in Submission
    BY DEF NoSubmission, Submission
  <2> QED
    BY <1>0, <2>0, <2>1, <2>2, RequestCounted DEF CourseTyped
<1>12. ASSUME NEW U \in SUBSET ExamSubjects, DeleteSubjects(U)
       PROVE  ExamInv' /\ CourseTyped'
  <2> DEFINE A == {a \in Assignments : assignment[a].subject \in U}
  <2>0. DOMAIN submission = Assignments \X Examinees
    BY <1>0 DEF CourseTyped
  <2>1. /\ assignment' = [a \in Assignments |-> IF a \in A THEN NoAssignment ELSE assignment[a]]
        /\ submission' = [x \in DOMAIN submission |->
                            IF x[1] \in A THEN NoSubmission ELSE submission[x]]
        /\ DropSubjects(U) /\ UNCHANGED hand
    BY <1>12 DEF DeleteSubjects
  <2>2. NoSubmission \in Submission
    BY DEF NoSubmission, Submission
  <2> HIDE DEF A
  <2> QED
    BY <1>0, <2>0, <2>1, <2>2, SubjectsDropped DEF CourseTyped
<1>5. ASSUME NEW a \in Assignments, PassDueDate(a)
      PROVE  ExamInv' /\ CourseTyped'
  <2>1. assignment[a] \in Assignment
    BY <1>0, <1>5 DEF PassDueDate, CourseTyped
  <2>2. [assignment[a] EXCEPT !.due = TRUE] \in Assignment
    BY <2>1 DEF Assignment
  <2>3. /\ assignment' = [assignment EXCEPT ![a] = [assignment[a] EXCEPT !.due = TRUE]]
        /\ CourseRequest /\ UNCHANGED <<submission, hand>>
    BY <1>5 DEF PassDueDate
  <2> QED
    BY <1>0, <2>2, <2>3, RequestCounted DEF CourseTyped
<1>6. ASSUME NEW h \in Hands, NEW a \in Assignments, NEW s \in Examinees,
             NEW pc \in {"save", "submit", "review"},
             hand' = [hand EXCEPT ![h] = [pc |-> pc, a |-> a, s |-> s]],
             CourseRequest, UNCHANGED <<assignment, submission>>
      PROVE  ExamInv' /\ CourseTyped'
  <2>1. [pc |-> pc, a |-> a, s |-> s] \in HandRecords
    OBVIOUS
  <2> QED
    BY <1>0, <1>6, <2>1, RequestCounted DEF CourseTyped
<1>7. ASSUME NEW h \in Hands, NEW a \in Assignments, NEW s \in Examinees,
             ReviewSubmission(h, a, s) \/ \E pc \in {"save", "submit"} : OpenAssignment(h, a, s, pc)
      PROVE  ExamInv' /\ CourseTyped'
  BY <1>6, <1>7 DEF ReviewSubmission, OpenAssignment
<1>8. IdleHand \in HandRecords
  BY DEF IdleHand
<1>9. ASSUME UNCHANGED examVars PROVE ExamInv'
  BY <1>0, <1>9, ExamStepInv
<1>10. ASSUME NEW h \in Hands, StoreSubmission(h)
       PROVE  ExamInv' /\ CourseTyped'
  <2> DEFINE x == <<hand[h].a, hand[h].s>>
             st == IF hand[h].pc = "save" THEN "DRAFT" ELSE "SUBMITTED"
  <2>1. /\ submission' = [submission EXCEPT ![x] = [submission[x] EXCEPT !.st = st]]
        /\ hand' = [hand EXCEPT ![h] = IdleHand] /\ UNCHANGED <<examVars, assignment>>
    BY <1>10 DEF StoreSubmission
  <2>2. st \in {"NONE", "DRAFT", "SUBMITTED", "REVIEWED"}
    OBVIOUS
  <2> HIDE DEF x, st
  <2>3. submission' \in [Assignments \X Examinees -> Submission]
    <3>1. x \in Assignments \X Examinees => [submission[x] EXCEPT !.st = st] \in Submission
      BY <1>0, <2>2 DEF CourseTyped, Submission
    <3>2. submission \in [Assignments \X Examinees -> Submission]
      BY <1>0 DEF CourseTyped
    <3> QED
      BY <2>1, <3>1, <3>2
  <2> QED
    BY <1>0, <1>8, <1>9, <2>1, <2>3 DEF CourseTyped
<1>11. ASSUME NEW h \in Hands, RequestRefused(h)
       PROVE  ExamInv' /\ CourseTyped'
  <2>1. hand' = [hand EXCEPT ![h] = IdleHand] /\ UNCHANGED <<examVars, assignment, submission>>
    BY <1>11 DEF RequestRefused
  <2> QED
    BY <1>0, <1>8, <1>9, <2>1 DEF CourseTyped
<1> QED
  BY <1>1, <1>2, <1>3, <1>4, <1>5, <1>7, <1>10, <1>11, <1>12 DEF CardNext, CourseNext

\* Assignments, submissions and the requests on them keep their types beside the exams.
THEOREM CardsTyped == CardSpec => []CardTypeOK
<1>1. CardInv => CardTypeOK
  BY DEF CardInv
<1> QED
  BY <1>1, CardInitInv, CardStepInv, PTL DEF CardSpec

-----------------------------------------------------------------------------
(* The report card. *)

\* A finite set of numbers has a least and a greatest one.
LEMMA HasMax ==
  ASSUME NEW S, IsFiniteSet(S), S # {}, S \subseteq Int
  PROVE  Max(S) \in S /\ \A x \in S : x <= Max(S)
<1> DEFINE Good == {T \in SUBSET S : T = {} \/ \E m \in T : \A x \in T : m >= x}
<1>1. {} \in Good
  OBVIOUS
<1>2. ASSUME NEW T \in SUBSET S, NEW y \in S \ T, T \in Good
      PROVE  T \cup {y} \in Good
  <2>1. CASE T = {}
    <3>1. y \in T \cup {y} /\ \A x \in T \cup {y} : y >= x
      BY <2>1
    <3> QED
      BY <3>1
  <2>2. CASE T # {}
    <3>1. PICK m \in T : \A x \in T : m >= x
      BY <1>2, <2>2
    <3>2. m \in Int /\ y \in Int /\ T \subseteq Int
      OBVIOUS
    <3>3. CASE m >= y
      <4>1. m \in T \cup {y} /\ \A x \in T \cup {y} : m >= x
        BY <3>1, <3>3
      <4> QED
        BY <4>1
    <3>4. CASE ~(m >= y)
      <4>1. y \in T \cup {y} /\ \A x \in T \cup {y} : y >= x
        BY <3>1, <3>2, <3>4
      <4> QED
        BY <4>1
    <3> QED
      BY <3>3, <3>4
  <2> QED
    BY <2>1, <2>2
<1>3. S \in Good
  <2> HIDE DEF Good
  <2> QED
    BY <1>1, <1>2, GrowsToAll, Zenon
<1>4. \E m \in S : \A x \in S : m >= x
  BY <1>3
<1>5. Max(S) \in S /\ \A x \in S : Max(S) >= x
  BY <1>4 DEF Max
<1> QED
  BY <1>5

LEMMA HasMin ==
  ASSUME NEW S, IsFiniteSet(S), S # {}, S \subseteq Int
  PROVE  Min(S) \in S /\ \A x \in S : Min(S) <= x
<1> DEFINE Good == {T \in SUBSET S : T = {} \/ \E m \in T : \A x \in T : m <= x}
<1>1. {} \in Good
  OBVIOUS
<1>2. ASSUME NEW T \in SUBSET S, NEW y \in S \ T, T \in Good
      PROVE  T \cup {y} \in Good
  <2>1. CASE T = {}
    <3>1. y \in T \cup {y} /\ \A x \in T \cup {y} : y <= x
      BY <2>1
    <3> QED
      BY <3>1
  <2>2. CASE T # {}
    <3>1. PICK m \in T : \A x \in T : m <= x
      BY <1>2, <2>2
    <3>2. m \in Int /\ y \in Int /\ T \subseteq Int
      OBVIOUS
    <3>3. CASE m <= y
      <4>1. m \in T \cup {y} /\ \A x \in T \cup {y} : m <= x
        BY <3>1, <3>3
      <4> QED
        BY <4>1
    <3>4. CASE ~(m <= y)
      <4>1. y \in T \cup {y} /\ \A x \in T \cup {y} : y <= x
        BY <3>1, <3>2, <3>4
      <4> QED
        BY <4>1
    <3> QED
      BY <3>3, <3>4
  <2> QED
    BY <2>1, <2>2
<1>3. S \in Good
  <2> HIDE DEF Good
  <2> QED
    BY <1>1, <1>2, GrowsToAll, Zenon
<1>4. \E m \in S : \A x \in S : m <= x
  BY <1>3
<1> QED
  BY <1>4 DEF Min

\* The values of a function on a finite set are finitely many.
LEMMA FiniteValues ==
  ASSUME NEW S, IsFiniteSet(S), NEW f
  PROVE  IsFiniteSet({f[x] : x \in S})
<1> DEFINE Good == {T \in SUBSET S : IsFiniteSet({f[x] : x \in T})}
<1>1. {} \in Good
  <2>1. {f[x] : x \in {}} = {}
    OBVIOUS
  <2> QED
    BY <2>1, FS_EmptySet
<1>2. ASSUME NEW T \in SUBSET S, NEW y \in S \ T, T \in Good
      PROVE  T \cup {y} \in Good
  <2>1. {f[x] : x \in T \cup {y}} = {f[x] : x \in T} \cup {f[y]}
    OBVIOUS
  <2>2. IsFiniteSet({f[x] : x \in T} \cup {f[y]})
    BY <1>2, FS_AddElement
  <2> QED
    BY <2>1, <2>2
<1>3. S \in Good
  <2> HIDE DEF Good
  <2> QED
    BY <1>1, <1>2, GrowsToAll, Zenon
<1> QED
  BY <1>3

-----------------------------------------------------------------------------
(* Averages and percentages *)

LEMMA SignOfProduct ==
  ASSUME NEW k \in Int, NEW n \in Nat
  PROVE  (k >= 0 => k * n >= 0) /\ (k <= 0 => k * n <= 0) /\ k * n \in Int
  OBVIOUS

LEMMA AverageOfOne ==
  ASSUME NEW f, NEW y, DOMAIN f = {y}, f[y] \in Int
  PROVE  Average(f) = f[y]
<1>1. SumFunctionOnSet(f, {} \cup {y}) = f[y] + SumFunctionOnSet(f, {})
  BY FS_EmptySet, SumTakesIn
<1>2. {} \cup {y} = {y} /\ SumFunctionOnSet(f, {}) = 0 /\ Cardinality({y}) = 1
  BY SumOfNone, FS_Singleton
<1>3. SumFunction(f) = f[y] + 0
  BY <1>1, <1>2 DEF SumFunction
<1>4. Average(f) = (f[y] + 0) \div 1
  BY <1>2, <1>3 DEF Average
<1> QED
  BY <1>4

LEMMA AverageBetween ==
  ASSUME NEW f, IsFiniteSet(DOMAIN f), DOMAIN f # {}, NEW lo \in Int, NEW hi \in Int,
         \A x \in DOMAIN f : f[x] \in Int /\ lo <= f[x] /\ f[x] <= hi
  PROVE  Average(f) \in lo .. hi
<1> DEFINE D == DOMAIN f
           one == [x \in D |-> 1]
           n == Cardinality(D)
           t == SumFunctionOnSet(f, D)
<1>0. IsFiniteSet(D) /\ D # {} /\ \A x \in D : f[x] \in Int /\ lo <= f[x] /\ f[x] <= hi
  OBVIOUS
<1>1. \A x \in D : one[x] = 1
  OBVIOUS
<1> HIDE DEF one, D
<1>2. SumFunctionOnSet(one, D) = n
  BY <1>0, <1>1, SumOfOnes
<1>3. n \in Nat /\ n > 0 /\ t \in Int
  BY <1>0, FS_CardinalityType, FS_EmptySet, SumType
<1>4. lo * SumFunctionOnSet(one, D) <= 1 * t
  BY <1>0, <1>1, SumsCompare
<1>5. 1 * t <= hi * SumFunctionOnSet(one, D)
  BY <1>0, <1>1, SumsCompare
<1> HIDE DEF n, t
<1>6. lo * n <= t /\ t <= hi * n
  BY <1>2, <1>3, <1>4, <1>5
<1>7. (hi + 1) * n = hi * n + n /\ hi * n \in Int
  BY <1>3
<1>8. t < (hi + 1) * n
  BY <1>3, <1>6, <1>7
<1>9. t \div n \in Int /\ lo <= t \div n /\ t \div n <= hi
  BY <1>3, <1>6, <1>8, Divide
<1>10. Average(f) = t \div n
  BY DEF Average, SumFunction, t, n, D
<1> QED
  BY <1>9, <1>10

\* A sum of fractions with positive parts lies between the least and the greatest.
LEMMA Mediant ==
  ASSUME NEW S, IsFiniteSet(S), S # {}, NEW a, NEW b,
         \A x \in S : a[x] \in Nat /\ b[x] \in Nat /\ b[x] > 0,
         NEW full \in Nat, SumFunctionOnSet(b, S) <= full,
         NEW lo \in Int, NEW hi \in Int,
         \A x \in S : lo <= (100 * a[x]) \div b[x] /\ (100 * a[x]) \div b[x] <= hi
  PROVE  /\ full > 0
         /\ (100 * SumFunctionOnSet(a, S)) \div full <= hi
         /\ SumFunctionOnSet(b, S) = full => lo <= (100 * SumFunctionOnSet(a, S)) \div full
<1> DEFINE A(T) == SumFunctionOnSet(a, T)
           B(T) == SumFunctionOnSet(b, T)
<1>1. PICK y \in S : TRUE
  OBVIOUS
<1> DEFINE R == S \ {y}
<1>2. IsFiniteSet(R) /\ R \subseteq S
  BY FS_Subset
<1>3. A(S) \in Nat /\ B(S) \in Nat /\ A(R) \in Nat /\ B(R) \in Nat
  BY <1>2, SumNatural
<1>4. A(S) = a[y] + A(R) /\ B(S) = b[y] + B(R)
  BY SumTakesOut
<1>5. ASSUME NEW x \in S
      PROVE  /\ lo * b[x] <= 100 * a[x] /\ 100 * a[x] < (hi + 1) * b[x]
             /\ a[x] \in Int /\ b[x] \in Int
  <2> DEFINE w == 100 * a[x]
             z == b[x]
             d == w \div z
  <2>1. w \in Int /\ z \in Nat /\ z > 0 /\ lo <= d /\ d <= hi
    OBVIOUS
  <2> HIDE DEF w, z
  <2>2. d \in Int /\ z * d <= w /\ w < z * d + z
    BY <2>1, Divide
  <2> HIDE DEF d
  <2>3. z * d >= lo * z
    <3>1. (d - lo) * z >= 0
      BY <2>1, <2>2
    <3>2. (d - lo) * z = z * d - lo * z
      BY <2>1, <2>2
    <3> QED
      BY <2>1, <2>2, <3>1, <3>2
  <2>4. z * d <= hi * z
    <3>1. (hi - d) * z >= 0
      BY <2>1, <2>2
    <3>2. (hi - d) * z = hi * z - z * d
      BY <2>1, <2>2
    <3> QED
      BY <2>1, <2>2, <3>1, <3>2
  <2>5. (hi + 1) * z = hi * z + z /\ hi * z \in Int /\ lo * z \in Int /\ z * d \in Int
    BY <2>1, <2>2
  <2>6. lo * z <= w /\ w < (hi + 1) * z
    BY <2>1, <2>2, <2>3, <2>4, <2>5
  <2> QED
    BY <2>6 DEF w, z
<1>6. lo * B(S) <= 100 * A(S)
  BY <1>5, SumsCompare
<1>7. 100 * A(R) <= (hi + 1) * B(R)
  <2> DEFINE k == hi + 1
  <2>1. k \in Int
    OBVIOUS
  <2>2. \A x \in R : a[x] \in Int /\ b[x] \in Int /\ 100 * a[x] <= k * b[x]
    <3> SUFFICES ASSUME NEW x \in R PROVE a[x] \in Int /\ b[x] \in Int /\ 100 * a[x] <= k * b[x]
      OBVIOUS
    <3>1. a[x] \in Int /\ b[x] \in Int /\ 100 * a[x] < k * b[x]
      BY <1>2, <1>5
    <3> HIDE DEF k
    <3>2. k * b[x] \in Int
      BY <2>1, <3>1
    <3> QED
      BY <3>1, <3>2
  <2> HIDE DEF R, k
  <2>3. 100 * SumFunctionOnSet(a, R) <= k * SumFunctionOnSet(b, R)
    BY <1>2, <2>1, <2>2, SumsCompare
  <2> QED
    BY <2>3 DEF k
<1> HIDE DEF R, A, B
<1>8. full > 0 /\ B(S) <= full
  BY <1>3, <1>4 DEF B
<1>9. 100 * A(S) < (hi + 1) * B(S)
  <2> DEFINE k == hi + 1
             ar == A(R)
             br == B(R)
             ay == a[y]
             by == b[y]
  <2>1. /\ k \in Int /\ ar \in Nat /\ br \in Nat /\ ay \in Nat /\ by \in Nat
        /\ 100 * ay < k * by /\ 100 * ar <= k * br
    BY <1>3, <1>5, <1>7
  <2>2. A(S) = ay + ar /\ B(S) = by + br
    BY <1>4
  <2> HIDE DEF k, ar, br, ay, by
  <2>3. k * (by + br) = k * by + k * br /\ k * by \in Int /\ k * br \in Int
    BY <2>1
  <2>4. 100 * (ay + ar) < k * (by + br)
    BY <2>1, <2>3
  <2> QED
    BY <2>2, <2>4 DEF k
<1>10. hi + 1 >= 0 /\ 100 * A(S) < (hi + 1) * full
  <2> DEFINE k == hi + 1
             w == 100 * A(S)
             z == B(S)
  <2>1. k \in Int /\ w \in Nat /\ z \in Nat /\ w < k * z /\ full - z \in Nat
    BY <1>3, <1>8, <1>9
  <2> HIDE DEF k, w, z
  <2>2. k * z \in Int /\ (k <= 0 => k * z <= 0)
    BY <2>1, SignOfProduct
  <2>3. k >= 0
    BY <2>1, <2>2
  <2>4. k * (full - z) \in Int /\ k * (full - z) >= 0
    BY <2>1, <2>3, SignOfProduct
  <2>5. k * (full - z) = k * full - k * z /\ k * full \in Int
    BY <2>1
  <2>6. w < k * full
    BY <2>1, <2>2, <2>4, <2>5
  <2> QED
    BY <2>3, <2>6 DEF k, w
<1>12. 100 * A(S) \in Int
  BY <1>3
<1>13. (100 * A(S)) \div full <= hi /\ (lo * full <= 100 * A(S) => lo <= (100 * A(S)) \div full)
  BY <1>8, <1>10, <1>12, Divide
<1> QED
  BY <1>6, <1>8, <1>13 DEF A, B

-----------------------------------------------------------------------------
(* The report card and the results it shows *)

\* One published result whose papers have marks and whose items are in order: every
\* subject of the card has one item, and its figure is the percentage of that item.
LEMMA CardOfOneResult ==
  ASSUME CardInv, NEW s \in Examinees, NEW r \in Results, PublishedOf(s) = {r},
         NEW Q, Q = PapersIn(examPaper, examResult[r].exam),
         InOrder(r), DOMAIN item[r] \subseteq Q, \A p \in Q : examPaper[p].marks > 0
  PROVE  /\ \A p \in DOMAIN item[r] :
              /\ item[r][p].subject \in ExamSubjects
              /\ Counted(s, item[r][p].subject) = {<<r, p>>}
              /\ ExamPercentage(s, item[r][p].subject)
                   = (100 * item[r][p].marks) \div examPaper[p].marks
              /\ (100 * item[r][p].marks) \div examPaper[p].marks \in Int
         /\ \A u \in ExamSubjects : Counted(s, u) # {} =>
              \E p \in DOMAIN item[r] : u = item[r][p].subject
<1>0. ExamTypeOK /\ item[r] \in ItemMarks
  BY DEF CardInv, ExamInv, ExamTypeOK
<1>1. \A p \in DOMAIN item[r] : /\ p \in Papers /\ p \in Q /\ examPaper[p] # NoExamPaper
                                /\ item[r][p].subject \in ExamSubjects
                                /\ examPaper[p].marks \in Nat /\ examPaper[p].marks > 0
                                /\ item[r][p].marks \in Nat
                                /\ examPaper[p].exam = examResult[r].exam
  <2>1. \A p \in DOMAIN item[r] : /\ p \in Papers /\ item[r][p].marks \in Nat
                                  /\ item[r][p].subject \in ExamSubjects
    BY <1>0, ItemsTyped
  <2>2. \A p \in DOMAIN item[r] : examPaper[p] # NoExamPaper
    BY <1>0 DEF ExamTypeOK
  <2> QED
    BY <1>0, <2>1, <2>2, PapersTyped DEF PapersIn
<1>2. ASSUME NEW p \in DOMAIN item[r]
      PROVE  Counted(s, item[r][p].subject) = {<<r, p>>}
  <2> DEFINE u == item[r][p].subject
  <2>1. ASSUME NEW x \in Counted(s, u) PROVE x = <<r, p>>
    <3>1. /\ x \in {r} \X Papers /\ x[2] \in DOMAIN item[x[1]]
          /\ item[x[1]][x[2]].subject = u
      BY <2>1 DEF Counted
    <3>2. x = <<x[1], x[2]>> /\ x[1] = r /\ x[2] \in DOMAIN item[r]
      BY <3>1
    <3>3. x[2] = p
      BY <3>1, <3>2 DEF InOrder
    <3> QED
      BY <3>2, <3>3
  <2>2. <<r, p>> \in Counted(s, u)
    BY <1>1 DEF Counted
  <2> QED
    BY <2>1, <2>2
<1>3. ASSUME NEW p \in DOMAIN item[r]
      PROVE  /\ ExamPercentage(s, item[r][p].subject)
                  = (100 * item[r][p].marks) \div examPaper[p].marks
             /\ (100 * item[r][p].marks) \div examPaper[p].marks \in Int
  <2> DEFINE f == [x \in Counted(s, item[r][p].subject) |->
                     Percentage(item[x[1]][x[2]].marks, examPaper[x[2]].marks)]
             y == <<r, p>>
             v == (100 * item[r][p].marks) \div examPaper[p].marks
  <2>1. DOMAIN f = {y} /\ y[1] = r /\ y[2] = p
    BY <1>2
  <2>2. f[y] = Percentage(item[r][p].marks, examPaper[p].marks)
    BY <2>1
  <2>3. f[y] = v
    BY <1>1, <2>2 DEF Percentage
  <2>4. v \in Int
    <3> DEFINE a == 100 * item[r][p].marks
               b == examPaper[p].marks
    <3>1. a \in Int /\ b \in Nat /\ b > 0
      BY <1>1
    <3> HIDE DEF a, b
    <3>2. a \div b \in Int
      BY <3>1, Divide
    <3> QED
      BY <3>2 DEF a, b
  <2>5. ExamPercentage(s, item[r][p].subject) = Average(f)
    BY DEF ExamPercentage
  <2> HIDE DEF f, y, v
  <2>6. Average(f) = f[y]
    BY <2>1, <2>3, <2>4, AverageOfOne
  <2> QED
    BY <2>3, <2>4, <2>5, <2>6 DEF v
<1>4. ASSUME NEW u \in ExamSubjects, Counted(s, u) # {}
      PROVE  \E p \in DOMAIN item[r] : u = item[r][p].subject
  <2>1. PICK x \in Counted(s, u) : TRUE
    BY <1>4
  <2>2. x \in {r} \X Papers /\ x[2] \in DOMAIN item[x[1]] /\ item[x[1]][x[2]].subject = u
    BY <2>1 DEF Counted
  <2> QED
    BY <2>2
<1> QED
  BY <1>1, <1>2, <1>3, <1>4

LEMMA CardConsequence == CardInv => CardFollowsResults
<1> SUFFICES ASSUME CardInv, NEW s \in Examinees, NEW r \in Results,
                    PublishedOf(s) = {r}, r \notin loose, DOMAIN item[r] # {}, InOrder(r),
                    \A p \in PapersOf({examResult[r].exam}) : examPaper[p].marks > 0
             PROVE  /\ examResult[r].percentage <= Max(ExamPercentages(s))
                    /\ DOMAIN item[r] = PapersOf({examResult[r].exam})
                         => examResult[r].percentage >= Min(ExamPercentages(s))
                    /\ (\A u \in ExamSubjects : Quizzed[s][u] = Unmarked /\ Reviewed(s, u) = {})
                      => OverallPercentage(s) \in Min(ExamPercentages(s)) .. Max(ExamPercentages(s))
  BY DEF CardFollowsResults
<1> DEFINE e == examResult[r].exam
           Q == PapersIn(examPaper, e)
           D == DOMAIN item[r]
           shown == ExamPercentages(s)
           m == [p \in Papers |-> examPaper[p].marks]
           v == [p \in D |-> (100 * item[r][p].marks) \div m[p]]
           lo == Min(shown)
           hi == Max(shown)
<1>0. /\ ExamTypeOK /\ Consistent /\ item[r] \in ItemMarks
      /\ examResult[r] # NoExamResult
  <2>1. examResult[r].status = "PUBLISHED"
    BY DEF PublishedOf
  <2> QED
    BY <2>1 DEF CardInv, ExamInv, ExamTypeOK, NoExamResult
<1>1. Q = PapersOf({e})
  BY MarksAre
<1>2. /\ D \subseteq Q /\ Q \subseteq Papers /\ IsFiniteSet(Q) /\ IsFiniteSet(D)
      /\ \A p \in Q : m[p] \in Nat /\ m[p] > 0
      /\ \A p \in D : item[r][p].marks \in Nat
  <2>1. D \subseteq Q /\ Q \subseteq Papers
    BY <1>1 DEF InOrder, PapersIn
  <2>2. IsFiniteSet(Q) /\ IsFiniteSet(D)
    BY <2>1, ExamAssumption, FS_Subset
  <2>3. \A p \in Q : m[p] \in Nat /\ m[p] > 0
    BY <1>0, <1>1, <2>1, PapersTyped
  <2> QED
    BY <1>0, <2>1, <2>2, <2>3, ItemsTyped
<1>3. /\ \A p \in D : /\ item[r][p].subject \in ExamSubjects
                      /\ Counted(s, item[r][p].subject) = {<<r, p>>}
                      /\ ExamPercentage(s, item[r][p].subject) = v[p]
                      /\ v[p] \in Int
      /\ \A u \in ExamSubjects : Counted(s, u) # {} => \E p \in D : u = item[r][p].subject
  <2>1. D \subseteq Q /\ \A p \in Q : examPaper[p].marks > 0
    BY <1>1, <1>2
  <2>2. \A p \in D : m[p] = examPaper[p].marks
    BY <1>2
  <2> QED
    BY <2>1, <2>2, CardOfOneResult
<1>4. /\ examResult[r].total = Total(item[r])
      /\ examResult[r].percentage = Percentage(Total(item[r]), MarksIn(examPaper, e))
  BY <1>0 DEF Consistent
<1> HIDE DEF v
<1>5. shown = {v[p] : p \in D}
  <2>1. shown = {ExamPercentage(s, u) : u \in {w \in ExamSubjects : Counted(s, w) # {}}}
    BY DEF ExamPercentages
  <2>2. ASSUME NEW p \in D
        PROVE  v[p] \in shown
    <3> DEFINE u == item[r][p].subject
    <3>1. u \in ExamSubjects /\ Counted(s, u) = {<<r, p>>} /\ ExamPercentage(s, u) = v[p]
      BY <1>3
    <3> HIDE DEF u, shown
    <3>2. Counted(s, u) # {}
      BY <3>1
    <3> QED
      BY <2>1, <3>1, <3>2
  <2>3. ASSUME NEW u \in ExamSubjects, Counted(s, u) # {}
        PROVE  \E p \in D : ExamPercentage(s, u) = v[p]
    BY <1>3, <2>3
  <2> HIDE DEF shown, D
  <2> QED
    BY <2>1, <2>2, <2>3
<1>6. IsFiniteSet(shown) /\ shown # {} /\ shown \subseteq Int
  <2>1. IsFiniteSet({v[p] : p \in D})
    BY <1>2, FiniteValues
  <2> QED
    BY <1>3, <1>5, <2>1
<1> HIDE DEF shown
<1>7. /\ lo \in Int /\ hi \in Int /\ \A x \in shown : lo <= x /\ x <= hi
  BY <1>6, HasMin, HasMax
<1> HIDE DEF lo, hi
<1>8. \A p \in D : lo <= v[p] /\ v[p] <= hi
  BY <1>5, <1>7
<1>9. /\ examResult[r].percentage <= hi
      /\ D = Q => examResult[r].percentage >= lo
  <2> DEFINE i == [p \in D |-> item[r][p].marks]
             full == SumFunctionOnSet(m, Q)
  <2>1. full = MarksIn(examPaper, e) /\ Total(item[r]) = SumFunctionOnSet(i, D)
    <3>1. DOMAIN i = D
      OBVIOUS
    <3> QED
      BY <3>1 DEF MarksIn, Total, SumFunction
  <2>2. \A p \in D : i[p] \in Nat /\ m[p] \in Nat /\ m[p] > 0
    BY <1>2
  <2>3. \A p \in D : lo <= (100 * i[p]) \div m[p] /\ (100 * i[p]) \div m[p] <= hi
    BY <1>8 DEF v
  <2>4. examResult[r].percentage = Percentage(SumFunctionOnSet(i, D), full)
    BY <1>4, <2>1
  <2>5. D # {}
    OBVIOUS
  <2> HIDE DEF i, m, D, Q
  <2>6. full \in Nat /\ SumFunctionOnSet(m, D) <= full
    <3>1. D \in SUBSET Q /\ \A p \in Q : m[p] \in Nat
      BY <1>2
    <3> QED
      BY <1>2, <3>1, SumNatural, SumOfPart
  <2> HIDE DEF full
  <2>7. /\ full > 0
        /\ (100 * SumFunctionOnSet(i, D)) \div full <= hi
        /\ SumFunctionOnSet(m, D) = full => lo <= (100 * SumFunctionOnSet(i, D)) \div full
    BY <1>2, <1>7, <2>2, <2>3, <2>5, <2>6, Mediant
  <2>8. D = Q => SumFunctionOnSet(m, D) = full
    BY DEF full
  <2>9. examResult[r].percentage = (100 * SumFunctionOnSet(i, D)) \div full
    BY <2>4, <2>7 DEF Percentage
  <2>10. SumFunctionOnSet(i, D) \in Nat
    BY <1>2, <2>2, SumNatural
  <2>11. (100 * SumFunctionOnSet(i, D)) \div full \in Int
    <3> DEFINE w == 100 * SumFunctionOnSet(i, D)
    <3>1. w \in Int
      BY <2>10
    <3> HIDE DEF w
    <3>2. w \div full \in Int
      BY <2>6, <2>7, <3>1, Divide
    <3> QED
      BY <3>2 DEF w
  <2> QED
    BY <1>7, <2>7, <2>8, <2>9, <2>11
<1>10. ASSUME \A u \in ExamSubjects : Quizzed[s][u] = Unmarked /\ Reviewed(s, u) = {}
       PROVE  OverallPercentage(s) \in lo .. hi
  <2> DEFINE marked == {u \in ExamSubjects : Parts(s, u) # {}}
             f == [u \in marked |-> CombinedPercentage(s, u)]
  <2>1. ASSUME NEW u \in ExamSubjects
        PROVE  Parts(s, u) = IF Counted(s, u) # {} THEN {<<"exam", ExamPercentage(s, u)>>} ELSE {}
    BY <1>10 DEF Parts
  <2>2. ASSUME NEW u \in ExamSubjects, Counted(s, u) # {}
        PROVE  CombinedPercentage(s, u) \in shown
    <3>1. PICK p \in D : u = item[r][p].subject
      BY <1>3, <2>2
    <3>2. ExamPercentage(s, u) = v[p] /\ v[p] \in Int /\ v[p] \in shown
      BY <1>3, <1>5, <3>1
    <3> DEFINE y == <<"exam", v[p]>>
               g == [x \in Parts(s, u) |-> x[2]]
    <3>3. Parts(s, u) = {y}
      BY <2>1, <2>2, <3>2
    <3>4. DOMAIN g = {y} /\ g[y] = v[p]
      BY <3>3
    <3>5. CombinedPercentage(s, u) = Average(g)
      BY DEF CombinedPercentage
    <3> HIDE DEF g, y
    <3>6. Average(g) = g[y]
      BY <3>2, <3>4, AverageOfOne
    <3> QED
      BY <3>2, <3>4, <3>5, <3>6
  <2>3. \A u \in ExamSubjects : u \in marked => Counted(s, u) # {}
    BY <2>1
  <2>4. marked # {} /\ IsFiniteSet(marked)
    <3>1. PICK p \in D : TRUE
      OBVIOUS
    <3> DEFINE u == item[r][p].subject
    <3>2. u \in ExamSubjects /\ Counted(s, u) = {<<r, p>>}
      BY <1>3
    <3> HIDE DEF u
    <3>3. Parts(s, u) = {<<"exam", ExamPercentage(s, u)>>}
      BY <2>1, <3>2
    <3>4. u \in marked
      BY <3>2, <3>3
    <3> QED
      BY <3>4, FS_Subset, ExamAssumption
  <2>5. OverallPercentage(s) = Average(f)
    BY <2>4 DEF OverallPercentage
  <2>6. DOMAIN f = marked /\ \A u \in marked : f[u] \in shown
    BY <2>2, <2>3
  <2> HIDE DEF f, marked
  <2>7. \A u \in marked : f[u] \in Int /\ lo <= f[u] /\ f[u] <= hi
    BY <1>6, <1>7, <2>6
  <2>8. Average(f) \in lo .. hi
    BY <1>7, <2>4, <2>6, <2>7, AverageBetween
  <2> QED
    BY <2>5, <2>8
<1> QED
  BY <1>1, <1>9, <1>10 DEF lo, hi, shown

\* What the report card shows agrees with the percentage kept on a result, however
\* the requests that change results, exams and submissions interleave.
THEOREM CardsFollowResults == CardSpec => []CardFollowsResults
  BY CardInitInv, CardStepInv, CardConsequence, PTL DEF CardSpec

=============================================================================
