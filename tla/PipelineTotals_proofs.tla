----------------------- MODULE PipelineTotals_proofs -----------------------
(***************************************************************************)
(* Proofs about what a run of the pipeline keeps of its document: every    *)
(* page is accounted for, every line has a unit and a quantity, and the    *)
(* rows hold the quantities of the lines.                                  *)
(*                                                                         *)
(* The argument for pages: a page assembly takes is appended to the last   *)
(* block, to the list of discarded pages or to a block of its own, and     *)
(* each of the three is one more element of a list of pages selected from  *)
(* the document (AccountInv).  For types: lines keep a unit and a quantity *)
(* through assembly, SUNAT's answers and normalization (LinesInv), and     *)
(* whatever else is typed comes from the adapters (TypeInv).  For          *)
(* quantities: the entries of a registro's lines are divided by the keys   *)
(* of its rows, and a sum over a divided set is the sum of the sums        *)
(* (SumByClass).                                                           *)
(*                                                                         *)
(* Selected, FlattenSeq and SumFunction are recursive functions.  Each     *)
(* induction about them is an argument about a smallest length or subset   *)
(* at which the claim fails, for such a least one exists.                  *)
(***************************************************************************)
EXTENDS Pipeline_proofs

-----------------------------------------------------------------------------
(* Sums over finite sets.  A sum is the last value of a recursive function on the
   subsets. *)

LEMMA SmallestSubset ==
  ASSUME NEW S, IsFiniteSet(S), NEW B, B \subseteq SUBSET S, B # {}
  PROVE  \E T \in B : IsFiniteSet(T) /\ \A U \in SUBSET T : U # T => U \notin B
<1>1. \A T \in B : IsFiniteSet(T) /\ Cardinality(T) \in Nat
  BY FS_Subset, FS_CardinalityType
<1> DEFINE sizes == {Cardinality(T) : T \in B}
<1>2. PICK n \in sizes : \A m \in sizes : n <= m
  <2>1. sizes \subseteq Nat /\ sizes # {}
    BY <1>1
  <2> QED BY <2>1, LeastOf
<1>3. PICK T \in B : Cardinality(T) = n
  BY <1>2
<1>4. ASSUME NEW U \in SUBSET T, U # T PROVE U \notin B
  <2>1. Cardinality(U) < n
    BY <1>1, <1>3, <1>4, FS_Subset, FS_CardinalityType
  <2>2. U \in B => n <= Cardinality(U)
    BY <1>2
  <2> QED BY <1>1, <2>1, <2>2
<1> QED BY <1>1, <1>3, <1>4

AnyOf(S) == CHOOSE x \in S : TRUE
Iter(it, f, S) ==
  it = [T \in SUBSET S |-> IF T = {} THEN 0 ELSE f[AnyOf(T)] + it[T \ {AnyOf(T)}]]

LEMMA AnyIn ==
  ASSUME NEW S, S # {}
  PROVE  /\ AnyOf(S) \in S /\ S \ {AnyOf(S)} \in SUBSET S /\ S \ {AnyOf(S)} # S
BY DEF AnyOf

LEMMA IterValue ==
  ASSUME NEW it, NEW f, NEW S, Iter(it, f, S), NEW T \in SUBSET S
  PROVE  it[T] = IF T = {} THEN 0 ELSE f[AnyOf(T)] + it[T \ {AnyOf(T)}]
BY DEF Iter

LEMMA ItersAgree ==
  ASSUME NEW f, NEW R, NEW S, NEW i, NEW j, Iter(i, f, R), Iter(j, f, S),
         NEW U, IsFiniteSet(U), U \subseteq R, U \subseteq S
  PROVE  i[U] = j[U]
<1> DEFINE Apart == {T \in SUBSET U : i[T] # j[T]}
<1>1. SUFFICES ASSUME Apart # {} PROVE FALSE
  OBVIOUS
<1>2. PICK T \in Apart : \A V \in SUBSET T : V # T => V \notin Apart
  <2>1. Apart \subseteq SUBSET U
    OBVIOUS
  <2> HIDE DEF Apart
  <2> QED BY <1>1, <2>1, SmallestSubset
<1>0. T \in SUBSET R /\ T \in SUBSET S /\ i[T] # j[T]
  BY <1>2
<1>3. i[T] = IF T = {} THEN 0 ELSE f[AnyOf(T)] + i[T \ {AnyOf(T)}]
  BY <1>0, IterValue
<1>4. j[T] = IF T = {} THEN 0 ELSE f[AnyOf(T)] + j[T \ {AnyOf(T)}]
  BY <1>0, IterValue
<1>5. T # {} => i[T \ {AnyOf(T)}] = j[T \ {AnyOf(T)}]
  BY <1>2, AnyIn
<1> QED BY <1>0, <1>3, <1>4, <1>5

LEMMA IterExists ==
  ASSUME NEW f, NEW S, IsFiniteSet(S)
  PROVE  \E it : Iter(it, f, S)
<1> DEFINE Stuck == {T \in SUBSET S : ~ \E it : Iter(it, f, T)}
<1>1. SUFFICES ASSUME Stuck # {} PROVE FALSE
  OBVIOUS
<1>2. PICK T \in Stuck : IsFiniteSet(T) /\ \A U \in SUBSET T : U # T => U \notin Stuck
  <2>1. Stuck \subseteq SUBSET S
    OBVIOUS
  <2> HIDE DEF Stuck
  <2> QED BY <1>1, <2>1, SmallestSubset
<1> DEFINE its(U) == CHOOSE it : Iter(it, f, U)
           rest(U) == U \ {AnyOf(U)}
           sum == [U \in SUBSET T |-> IF U = {} THEN 0 ELSE f[AnyOf(U)] + its(rest(U))[rest(U)]]
<1>3. ASSUME NEW U \in SUBSET T, U # T PROVE Iter(its(U), f, U)
  BY <1>2, <1>3
<1> HIDE DEF its
<1>4. ASSUME NEW U \in SUBSET T, U # T PROVE sum[U] = its(U)[U]
  <2>1. Iter(its(U), f, U)
    BY <1>3, <1>4
  <2>2. its(U)[U] = IF U = {} THEN 0 ELSE f[AnyOf(U)] + its(U)[rest(U)]
    BY <2>1, IterValue
  <2>3. ASSUME U # {} PROVE its(U)[rest(U)] = its(rest(U))[rest(U)]
    <3>1. rest(U) \in SUBSET T /\ rest(U) # T /\ rest(U) \subseteq U
      BY <2>3, AnyIn, <1>4
    <3>2. Iter(its(rest(U)), f, rest(U))
      BY <1>3, <3>1
    <3>3. IsFiniteSet(rest(U))
      BY <1>2, <3>1, FS_Subset
    <3> QED BY <2>1, <3>1, <3>2, <3>3, ItersAgree
  <2> QED BY <2>2, <2>3
<1>5. ASSUME NEW U \in SUBSET T
      PROVE  sum[U] = IF U = {} THEN 0 ELSE f[AnyOf(U)] + sum[rest(U)]
  <2>1. U # {} => rest(U) \in SUBSET T /\ rest(U) # T
    BY AnyIn
  <2> QED BY <1>4, <2>1
<1>6. sum = [U \in SUBSET T |-> sum[U]]
  OBVIOUS
<1> HIDE DEF sum
<1>7. Iter(sum, f, T)
  BY <1>5, <1>6 DEF Iter
<1> QED BY <1>2, <1>7

LEMMA SumIter ==
  ASSUME NEW f, NEW S, NEW it, Iter(it, f, S), IsFiniteSet(S)
  PROVE  SumFunctionOnSet(f, S) = it[S]
<1>1. \E j : Iter(j, f, S) /\ SumFunctionOnSet(f, S) = j[S]
  BY DEF SumFunctionOnSet, FoldFunctionOnSet, MapThenFoldSet, Iter, AnyOf
<1> QED BY <1>1, ItersAgree

LEMMA SumStep ==
  ASSUME NEW f, NEW S, IsFiniteSet(S)
  PROVE  SumFunctionOnSet(f, S)
           = IF S = {} THEN 0 ELSE f[AnyOf(S)] + SumFunctionOnSet(f, S \ {AnyOf(S)})
<1>1. PICK it : Iter(it, f, S)
  BY IterExists
<1>2. it[S] = IF S = {} THEN 0 ELSE f[AnyOf(S)] + it[S \ {AnyOf(S)}]
  BY <1>1, IterValue
<1>3. ASSUME S # {} PROVE it[S \ {AnyOf(S)}] = SumFunctionOnSet(f, S \ {AnyOf(S)})
  <2> DEFINE U == S \ {AnyOf(S)}
  <2>1. IsFiniteSet(U) /\ U \subseteq S
    BY FS_RemoveElement
  <2>2. PICK j : Iter(j, f, U)
    BY <2>1, IterExists
  <2>3. it[U] = j[U]
    BY <1>1, <2>1, <2>2, ItersAgree
  <2> QED BY <2>1, <2>2, <2>3, SumIter
<1> QED BY <1>1, <1>2, <1>3, SumIter

LEMMA SumEmpty ==
  ASSUME NEW f
  PROVE  SumFunctionOnSet(f, {}) = 0
BY SumStep, FS_EmptySet

LEMMA SumSame ==
  ASSUME NEW f, NEW g, NEW S, IsFiniteSet(S), \A x \in S : f[x] = g[x]
  PROVE  SumFunctionOnSet(f, S) = SumFunctionOnSet(g, S)
<1> DEFINE Apart == {T \in SUBSET S : SumFunctionOnSet(f, T) # SumFunctionOnSet(g, T)}
<1>1. SUFFICES ASSUME Apart # {} PROVE FALSE
  OBVIOUS
<1>2. PICK T \in Apart : IsFiniteSet(T) /\ \A U \in SUBSET T : U # T => U \notin Apart
  <2>1. Apart \subseteq SUBSET S
    OBVIOUS
  <2> HIDE DEF Apart
  <2> QED BY <1>1, <2>1, SmallestSubset
<1>3. T # {}
  BY <1>2, SumEmpty
<1>4. SumFunctionOnSet(f, T \ {AnyOf(T)}) = SumFunctionOnSet(g, T \ {AnyOf(T)})
  BY <1>2, <1>3, AnyIn
<1>5. f[AnyOf(T)] = g[AnyOf(T)]
  BY <1>2, <1>3, AnyIn
<1>6. /\ SumFunctionOnSet(f, T) = f[AnyOf(T)] + SumFunctionOnSet(f, T \ {AnyOf(T)})
      /\ SumFunctionOnSet(g, T) = g[AnyOf(T)] + SumFunctionOnSet(g, T \ {AnyOf(T)})
  BY <1>2, <1>3, SumStep
<1> QED BY <1>2, <1>4, <1>5, <1>6

LEMMA SumIsInt ==
  ASSUME NEW f, NEW S, IsFiniteSet(S), \A x \in S : f[x] \in Int
  PROVE  SumFunctionOnSet(f, S) \in Int
<1> DEFINE Apart == {T \in SUBSET S : SumFunctionOnSet(f, T) \notin Int}
<1>1. SUFFICES ASSUME Apart # {} PROVE FALSE
  OBVIOUS
<1>2. PICK T \in Apart : IsFiniteSet(T) /\ \A U \in SUBSET T : U # T => U \notin Apart
  <2>1. Apart \subseteq SUBSET S
    OBVIOUS
  <2> HIDE DEF Apart
  <2> QED BY <1>1, <2>1, SmallestSubset
<1>3. T # {}
  <2>1. SumFunctionOnSet(f, T) \notin Int
    BY <1>2
  <2>2. SumFunctionOnSet(f, {}) \in Int
    BY SumEmpty
  <2> QED BY <2>1, <2>2
<1>4. SumFunctionOnSet(f, T \ {AnyOf(T)}) \in Int /\ f[AnyOf(T)] \in Int
  BY <1>2, <1>3, AnyIn
<1>5. SumFunctionOnSet(f, T) = f[AnyOf(T)] + SumFunctionOnSet(f, T \ {AnyOf(T)})
  BY <1>2, <1>3, SumStep
<1> QED BY <1>2, <1>4, <1>5

\* Whichever element is taken first.
LEMMA SumTake ==
  ASSUME NEW f, NEW S, IsFiniteSet(S), \A x \in S : f[x] \in Int, NEW x \in S
  PROVE  SumFunctionOnSet(f, S) = f[x] + SumFunctionOnSet(f, S \ {x})
<1> DEFINE Sum(T) == SumFunctionOnSet(f, T)
           Apart == {T \in SUBSET S : \E y \in T : Sum(T) # f[y] + Sum(T \ {y})}
<1>1. SUFFICES ASSUME Apart # {} PROVE FALSE
  OBVIOUS
<1>2. PICK T \in Apart : IsFiniteSet(T) /\ \A U \in SUBSET T : U # T => U \notin Apart
  <2>1. Apart \subseteq SUBSET S
    OBVIOUS
  <2> HIDE DEF Apart
  <2> QED BY <1>1, <2>1, SmallestSubset
<1>3. PICK y \in T : Sum(T) # f[y] + Sum(T \ {y})
  BY <1>2
<1> DEFINE a == AnyOf(T)
<1>4. a \in T
  BY <1>3, AnyIn
<1>5. Sum(T) = f[a] + Sum(T \ {a})
  BY <1>2, <1>3, SumStep
<1> HIDE DEF a, Sum
<1>6. a # y
  BY <1>3, <1>5
<1>7. Sum(T \ {a}) = f[y] + Sum((T \ {a}) \ {y})
  BY <1>2, <1>3, <1>4, <1>6
<1>8. Sum(T \ {y}) = f[a] + Sum((T \ {y}) \ {a})
  BY <1>2, <1>3, <1>4, <1>6
<1>9. (T \ {a}) \ {y} = (T \ {y}) \ {a}
  OBVIOUS
<1>10. Sum((T \ {y}) \ {a}) \in Int
  <2>1. IsFiniteSet((T \ {y}) \ {a})
    BY <1>2, FS_RemoveElement
  <2> QED BY <1>2, <2>1, SumIsInt DEF Sum
<1>11. f[a] \in Int /\ f[y] \in Int
  BY <1>2, <1>3, <1>4
<1> HIDE DEF Apart
<1>12. Sum(T) = f[a] + (f[y] + Sum((T \ {y}) \ {a}))
  BY <1>5, <1>7, <1>9
<1>13. f[y] + Sum(T \ {y}) = f[y] + (f[a] + Sum((T \ {y}) \ {a}))
  BY <1>8
<1>14. f[y] + (f[a] + Sum((T \ {y}) \ {a})) = f[a] + (f[y] + Sum((T \ {y}) \ {a}))
  BY <1>10, <1>11
<1> QED BY <1>3, <1>12, <1>13, <1>14

LEMMA SumAdd ==
  ASSUME NEW f, NEW S, IsFiniteSet(S), NEW x, x \notin S, \A y \in S \cup {x} : f[y] \in Int
  PROVE  SumFunctionOnSet(f, S \cup {x}) = f[x] + SumFunctionOnSet(f, S)
<1>1. IsFiniteSet(S \cup {x}) /\ (S \cup {x}) \ {x} = S
  BY FS_AddElement
<1> QED BY <1>1, SumTake

LEMMA SumUnion ==
  ASSUME NEW f, NEW R, NEW S, IsFiniteSet(R), IsFiniteSet(S), R \cap S = {},
         \A x \in R \cup S : f[x] \in Int
  PROVE  SumFunctionOnSet(f, R \cup S) = SumFunctionOnSet(f, R) + SumFunctionOnSet(f, S)
<1> DEFINE Sum(T) == SumFunctionOnSet(f, T)
           Apart == {T \in SUBSET S : Sum(R \cup T) # Sum(R) + Sum(T)}
<1>1. SUFFICES ASSUME Apart # {} PROVE FALSE
  OBVIOUS
<1>2. PICK T \in Apart : IsFiniteSet(T) /\ \A U \in SUBSET T : U # T => U \notin Apart
  <2>1. Apart \subseteq SUBSET S
    OBVIOUS
  <2> HIDE DEF Apart
  <2> QED BY <1>1, <2>1, SmallestSubset
<1>3. Sum(R) \in Int
  BY SumIsInt
<1>4. T # {}
  <2>1. R \cup {} = R /\ Sum({}) = 0
    BY SumEmpty
  <2>2. Sum(R \cup T) # Sum(R) + Sum(T)
    BY <1>2
  <2> HIDE DEF Sum
  <2> QED BY <1>3, <2>1, <2>2
<1>5. PICK x \in T : TRUE
  BY <1>4
<1> DEFINE U == T \ {x}
<1>6. /\ IsFiniteSet(U) /\ IsFiniteSet(R \cup U) /\ x \notin R \cup U /\ x \notin U
      /\ T = U \cup {x} /\ R \cup T = (R \cup U) \cup {x}
  <2>1. T \subseteq S
    BY <1>2
  <2>2. IsFiniteSet(U)
    BY <1>2, FS_RemoveElement
  <2>3. IsFiniteSet(R \cup U)
    BY <2>2, FS_Union
  <2> QED BY <1>5, <2>1, <2>2, <2>3
<1>7. Sum(R \cup U) = Sum(R) + Sum(U)
  BY <1>2, <1>5
<1>8. \A y \in (R \cup U) \cup {x} : f[y] \in Int
  BY <1>2
<1> HIDE DEF U
<1>9. Sum(R \cup T) = f[x] + Sum(R \cup U)
  BY <1>6, <1>8, SumAdd
<1>10. Sum(T) = f[x] + Sum(U) /\ Sum(U) \in Int
  BY <1>6, <1>8, SumAdd, SumIsInt
<1>11. f[x] \in Int /\ Sum(R \cup T) # Sum(R) + Sum(T)
  BY <1>2, <1>8
<1> HIDE DEF Sum
<1> QED BY <1>3, <1>7, <1>9, <1>10, <1>11

LEMMA SumMinus ==
  ASSUME NEW f, NEW g, NEW h, NEW S, IsFiniteSet(S),
         \A x \in S : f[x] \in Int /\ g[x] \in Int /\ h[x] = f[x] - g[x]
  PROVE  SumFunctionOnSet(h, S) = SumFunctionOnSet(f, S) - SumFunctionOnSet(g, S)
<1> DEFINE Sum(e, T) == SumFunctionOnSet(e, T)
           Apart == {T \in SUBSET S : Sum(h, T) # Sum(f, T) - Sum(g, T)}
<1>1. SUFFICES ASSUME Apart # {} PROVE FALSE
  OBVIOUS
<1>2. PICK T \in Apart : IsFiniteSet(T) /\ \A U \in SUBSET T : U # T => U \notin Apart
  <2>1. Apart \subseteq SUBSET S
    OBVIOUS
  <2> HIDE DEF Apart
  <2> QED BY <1>1, <2>1, SmallestSubset
<1>3. T # {}
  <2>1. Sum(f, {}) = 0 /\ Sum(g, {}) = 0 /\ Sum(h, {}) = 0
    BY SumEmpty
  <2>2. Sum(h, T) # Sum(f, T) - Sum(g, T)
    BY <1>2
  <2>3. 0 - 0 = 0
    OBVIOUS
  <2> HIDE DEF Sum, Apart
  <2> SUFFICES ASSUME T = {} PROVE FALSE
    OBVIOUS
  <2> QED BY <2>1, <2>2, <2>3
<1> DEFINE a == AnyOf(T)
           U == T \ {a}
<1>4. a \in T /\ IsFiniteSet(U) /\ Sum(h, U) = Sum(f, U) - Sum(g, U)
  BY <1>2, <1>3, AnyIn, FS_RemoveElement
<1>5. /\ Sum(f, T) = f[a] + Sum(f, U) /\ Sum(g, T) = g[a] + Sum(g, U)
      /\ Sum(h, T) = h[a] + Sum(h, U)
  BY <1>2, <1>3, SumStep
<1>6. Sum(f, U) \in Int /\ Sum(g, U) \in Int
  BY <1>2, <1>4, SumIsInt
<1>7. f[a] \in Int /\ g[a] \in Int /\ h[a] = f[a] - g[a]
  BY <1>2, <1>4
<1>8. Sum(h, T) # Sum(f, T) - Sum(g, T)
  BY <1>2
<1> HIDE DEF Sum, a, U
<1> QED BY <1>4, <1>5, <1>6, <1>7, <1>8

(* Summed class by class: k gives each element of E its class, K are the classes
   counted, and sum has the sum of w in each of them. *)
Classed(E, w, k, K, sum) ==
  /\ IsFiniteSet(E) /\ IsFiniteSet(K) /\ \A e \in E : w[e] \in Int
  /\ \A c \in K : sum[c] = SumFunctionOnSet(w, {e \in E : k[e] = c})

LEMMA SumByClass ==
  ASSUME NEW E, NEW w, NEW k, NEW K, NEW sum, Classed(E, w, k, K, sum)
  PROVE  SumFunctionOnSet(sum, K) = SumFunctionOnSet(w, {e \in E : k[e] \in K})
<1>0. /\ IsFiniteSet(E) /\ IsFiniteSet(K) /\ \A e \in E : w[e] \in Int
      /\ \A c \in K : sum[c] = SumFunctionOnSet(w, {e \in E : k[e] = c})
  BY DEF Classed
<1> DEFINE In(T) == {e \in E : k[e] \in T}
           Apart == {T \in SUBSET K : SumFunctionOnSet(sum, T) # SumFunctionOnSet(w, In(T))}
<1>1. SUFFICES ASSUME Apart # {} PROVE FALSE
  OBVIOUS
<1>2. PICK T \in Apart : IsFiniteSet(T) /\ \A U \in SUBSET T : U # T => U \notin Apart
  <2>1. Apart \subseteq SUBSET K
    OBVIOUS
  <2> HIDE DEF Apart
  <2> QED BY <1>0, <1>1, <2>1, SmallestSubset
<1>3. T # {}
  <2>1. In({}) = {}
    OBVIOUS
  <2> QED BY <1>2, <2>1, SumEmpty
<1> DEFINE a == AnyOf(T)
           U == T \ {a}
           Of == {e \in E : k[e] = a}
<1>4. a \in T /\ SumFunctionOnSet(sum, U) = SumFunctionOnSet(w, In(U))
  BY <1>2, <1>3, AnyIn
<1>5. SumFunctionOnSet(sum, T) = sum[a] + SumFunctionOnSet(sum, U)
  BY <1>2, <1>3, SumStep
<1>6. sum[a] = SumFunctionOnSet(w, Of)
  BY <1>0, <1>2, <1>4
<1>7. In(T) = Of \cup In(U) /\ Of \cap In(U) = {} /\ In(U) \subseteq E /\ Of \subseteq E
  BY <1>4
<1>8. IsFiniteSet(Of) /\ IsFiniteSet(In(U))
  BY <1>0, <1>7, FS_Subset
<1>9. SumFunctionOnSet(w, In(T)) = SumFunctionOnSet(w, Of) + SumFunctionOnSet(w, In(U))
  BY <1>0, <1>7, <1>8, SumUnion
<1> QED BY <1>2, <1>4, <1>5, <1>6, <1>9
-----------------------------------------------------------------------------
(* The elements of a list that are in a set. *)

\* f lists what is selected of the first n elements of s, one after the other.
Selects(s, S, n, f) ==
  f = [k \in 0 .. n |-> IF k = 0 THEN <<>>
                        ELSE IF s[k] \in S THEN Append(f[k - 1], s[k]) ELSE f[k - 1]]

LEMMA SelectsFirst ==
  ASSUME NEW s, NEW S, NEW n \in Nat, NEW f, Selects(s, S, n, f)
  PROVE  f[0] = <<>>
BY DEF Selects

LEMMA SelectsValue ==
  ASSUME NEW s, NEW S, NEW n \in Nat, NEW f, Selects(s, S, n, f)
  PROVE  \A k \in 1 .. n : f[k] = IF s[k] \in S THEN Append(f[k - 1], s[k]) ELSE f[k - 1]
<1> SUFFICES ASSUME NEW k \in 1 .. n
             PROVE  f[k] = IF s[k] \in S THEN Append(f[k - 1], s[k]) ELSE f[k - 1]
  OBVIOUS
<1>1. k \in 0 .. n /\ k # 0
  OBVIOUS
<1> QED BY <1>1 DEF Selects

LEMMA SelectsExist ==
  ASSUME NEW s, NEW S, NEW n \in Nat
  PROVE  \E f : Selects(s, S, n, f)
<1> DEFINE Stuck == {m \in Nat : ~ \E f : Selects(s, S, m, f)}
<1>1. SUFFICES ASSUME Stuck # {} PROVE FALSE
  OBVIOUS
<1>2. PICK m \in Stuck : \A j \in Stuck : m <= j
  <2>1. Stuck \subseteq Nat
    OBVIOUS
  <2> HIDE DEF Stuck
  <2> QED BY <1>1, <2>1, LeastOf
<1>3. CASE m = 0
  <2> DEFINE f == [k \in 0 .. 0 |-> <<>>]
  <2>1. f = [k \in 0 .. m |-> IF k = 0 THEN <<>>
                              ELSE IF s[k] \in S THEN Append(f[k - 1], s[k]) ELSE f[k - 1]]
    BY <1>3
  <2> QED BY <1>2, <2>1 DEF Selects
<1>4. CASE m # 0
  <2>1. m \in Nat /\ m - 1 \in Nat /\ m - 1 \notin Stuck
    BY <1>2, <1>4
  <2>2. PICK f : Selects(s, S, m - 1, f)
    BY <2>1
  <2> DEFINE g == [k \in 0 .. m |->
                     IF k = m THEN IF s[m] \in S THEN Append(f[m - 1], s[m]) ELSE f[m - 1]
                     ELSE f[k]]
  <2>3. ASSUME NEW k \in 0 .. m
        PROVE  g[k] = IF k = 0 THEN <<>>
                      ELSE IF s[k] \in S THEN Append(g[k - 1], s[k]) ELSE g[k - 1]
    <3>0. f[0] = <<>>
      BY <2>1, <2>2, SelectsFirst
    <3>1. \A j \in 1 .. m - 1 :
            f[j] = IF s[j] \in S THEN Append(f[j - 1], s[j]) ELSE f[j - 1]
      BY <2>1, <2>2, SelectsValue
    <3>2. CASE k = m
      <4>1. g[m - 1] = f[m - 1]
        BY <2>1
      <4> QED BY <1>4, <3>2, <4>1
    <3>3. CASE k = 0
      BY <1>4, <3>0, <3>3
    <3>4. CASE k \in 1 .. m - 1
      <4>1. g[k - 1] = f[k - 1] /\ g[k] = f[k] /\ k # 0
        BY <2>1, <3>4
      <4> QED BY <3>1, <3>4, <4>1
    <3> QED BY <2>1, <3>2, <3>3, <3>4
  <2>4. g = [k \in 0 .. m |-> g[k]]
    OBVIOUS
  <2> HIDE DEF g
  <2>5. Selects(s, S, m, g)
    BY <2>3, <2>4 DEF Selects
  <2> QED BY <1>2, <2>5
<1> QED BY <1>3, <1>4

\* As long as two lists and two sets agree, so does what is selected.
Alike(s, S, t, T, k) == \A i \in 1 .. k : s[i] = t[i] /\ (s[i] \in S <=> t[i] \in T)

LEMMA SelectsAgree ==
  ASSUME NEW s, NEW t, NEW S, NEW T, NEW m \in Nat, NEW n \in Nat, NEW f, NEW g,
         Selects(s, S, m, f), Selects(t, T, n, g),
         NEW k \in Nat, k <= m, k <= n, Alike(s, S, t, T, k)
  PROVE  f[k] = g[k]
<1>a. m \in Nat /\ Selects(s, S, m, f)
  OBVIOUS
<1>b. n \in Nat /\ Selects(t, T, n, g)
  OBVIOUS
<1> DEFINE Apart == {j \in 0 .. k : f[j] # g[j]}
<1>1. SUFFICES ASSUME Apart # {} PROVE FALSE
  OBVIOUS
<1>2. PICK d \in Apart : \A j \in Apart : d <= j
  <2>1. Apart \subseteq Nat
    OBVIOUS
  <2> HIDE DEF Apart
  <2> QED BY <1>1, <2>1, LeastOf
<1>3. d \in 0 .. k /\ f[d] # g[d]
  BY <1>2
<1>4. d # 0
  <2>1. f[0] = <<>> /\ g[0] = <<>>
    BY SelectsFirst
  <2> QED BY <1>3, <2>1
<1>5. d \in 1 .. k /\ d \in 1 .. m /\ d \in 1 .. n /\ d - 1 \in 0 .. k /\ f[d - 1] = g[d - 1]
  BY <1>2, <1>3, <1>4
<1> HIDE DEF Apart
<1>6. f[d] = IF s[d] \in S THEN Append(f[d - 1], s[d]) ELSE f[d - 1]
  <2>1. d \in 0 .. m /\ d # 0
    BY <1>4, <1>5
  <2> QED BY <1>a, <2>1 DEF Selects
<1>7. g[d] = IF t[d] \in T THEN Append(g[d - 1], t[d]) ELSE g[d - 1]
  <2>1. d \in 0 .. n /\ d # 0
    BY <1>4, <1>5
  <2> QED BY <1>b, <2>1 DEF Selects
<1>8. s[d] = t[d] /\ (s[d] \in S <=> t[d] \in T)
  BY <1>5 DEF Alike
<1> QED BY <1>3, <1>5, <1>6, <1>7, <1>8

LEMMA SelectedSteps ==
  ASSUME NEW s, Len(s) \in Nat, NEW S, NEW f, Selects(s, S, Len(s), f)
  PROVE  Selected(s, S) = f[Len(s)]
<1>1. \E g : Selects(s, S, Len(s), g) /\ Selected(s, S) = g[Len(s)]
  BY DEF Selected, Selects
<1>2. Alike(s, S, s, S, Len(s)) /\ Len(s) <= Len(s)
  BY DEF Alike
<1> QED BY <1>1, <1>2, SelectsAgree

LEMMA SelectedNone ==
  ASSUME NEW s, Len(s) = 0, NEW S
  PROVE  Selected(s, S) = <<>>
<1>1. PICK f : Selects(s, S, 0, f)
  BY SelectsExist
<1>2. f[0] = <<>>
  BY <1>1, SelectsFirst
<1>3. Selected(s, S) = f[Len(s)]
  BY <1>1, SelectedSteps
<1> QED BY <1>2, <1>3

LEMMA SelectedNext ==
  ASSUME NEW s, NEW t, Len(s) \in Nat, Len(t) = Len(s) + 1, NEW S, NEW T,
         Alike(s, S, t, T, Len(s))
  PROVE  Selected(t, T) = IF t[Len(t)] \in T THEN Append(Selected(s, S), t[Len(t)])
                          ELSE Selected(s, S)
<1> DEFINE n == Len(s)
<1>0. n \in Nat /\ n + 1 \in Nat /\ n <= n /\ n <= n + 1
  OBVIOUS
<1>1. PICK f : Selects(s, S, n, f)
  BY SelectsExist
<1>2. PICK g : Selects(t, T, n + 1, g)
  BY <1>0, SelectsExist
<1>3. f[n] = g[n]
  <2>1. Alike(s, S, t, T, n)
    OBVIOUS
  <2> HIDE DEF n
  <2> QED BY <1>0, <1>1, <1>2, <2>1, SelectsAgree
<1>4. g[n + 1] = IF t[n + 1] \in T THEN Append(g[n], t[n + 1]) ELSE g[n]
  <2> n + 1 \in Nat /\ n + 1 \in 1 .. (n + 1) /\ (n + 1) - 1 = n
    OBVIOUS
  <2> QED BY <1>2, SelectsValue
<1>5. Selected(s, S) = f[n] /\ Selected(t, T) = g[n + 1]
  BY <1>1, <1>2, SelectedSteps
<1> QED BY <1>3, <1>4, <1>5

LEMMA SelectedMembers ==
  ASSUME NEW s, IsList(s), NEW S
  PROVE  IsList(Selected(s, S)) /\ Range(Selected(s, S)) = Range(s) \cap S
<1> DEFINE n == Len(s)
           upto(k) == {s[i] : i \in 1 .. k} \cap S
<1>1. n \in Nat /\ DOMAIN s = 1 .. n
  BY ListIsFunction
<1>2. PICK f : Selects(s, S, n, f)
  BY <1>1, SelectsExist
<1> HIDE DEF n
<1> DEFINE Wrong == {k \in 0 .. n : ~ (IsList(f[k]) /\ Range(f[k]) = upto(k))}
<1>3. ASSUME Wrong # {} PROVE FALSE
  <2>1. PICK k \in Wrong : \A j \in Wrong : k <= j
    <3>1. Wrong \subseteq Nat
      OBVIOUS
    <3> HIDE DEF Wrong
    <3> QED BY <1>3, <3>1, LeastOf
  <2>2. k \in 0 .. n /\ ~ (IsList(f[k]) /\ Range(f[k]) = upto(k))
    BY <2>1
  <2>3. k # 0
    <3>1. upto(0) = {}
      OBVIOUS
    <3>2. f[0] = <<>>
      BY <1>1, <1>2, SelectsFirst
    <3> HIDE DEF upto
    <3> QED BY <2>2, <3>1, <3>2, NoList
  <2>4. k - 1 \in 0 .. n /\ k \in 1 .. n /\ IsList(f[k - 1]) /\ Range(f[k - 1]) = upto(k - 1)
    <3>1. k \in Nat /\ k - 1 \in 0 .. n /\ k \in 1 .. n /\ ~ (k <= k - 1)
      BY <1>1, <2>2, <2>3
    <3>2. k - 1 \notin Wrong
      BY <2>1, <3>1
    <3> HIDE DEF upto
    <3> QED BY <3>1, <3>2
  <2>5. f[k] = IF s[k] \in S THEN Append(f[k - 1], s[k]) ELSE f[k - 1]
    BY <1>1, <1>2, <2>4, SelectsValue
  <2>6. upto(k) = upto(k - 1) \cup ({s[k]} \cap S)
    <3>1. 1 .. k = 1 .. (k - 1) \cup {k}
      BY <2>4
    <3> QED BY <3>1
  <2>7. CASE s[k] \in S
    <3>1. Added(f[k - 1], s[k], f[k - 1] \o <<s[k]>>)
      BY <2>4, AddToList, Zenon
    <3>2. f[k] = Append(f[k - 1], s[k])
      BY <2>5, <2>7
    <3>3. Append(f[k - 1], s[k]) = f[k - 1] \o <<s[k]>>
      BY <2>4 DEF IsList
    <3>4. IsList(f[k]) /\ Range(f[k]) = upto(k - 1) \cup {s[k]}
      BY <2>4, <3>1, <3>2, <3>3 DEF Added
    <3> HIDE DEF upto
    <3> QED BY <2>2, <2>6, <2>7, <3>4
  <2>8. CASE s[k] \notin S
    BY <2>2, <2>4, <2>5, <2>6, <2>8
  <2> QED BY <2>7, <2>8
<1>4. IsList(f[n]) /\ Range(f[n]) = upto(n)
  BY <1>1, <1>3
<1>5. upto(n) = Range(s) \cap S
  BY <1>1 DEF Range
<1>6. Selected(s, S) = f[n]
  BY <1>1, <1>2, SelectedSteps DEF n
<1> QED BY <1>4, <1>5, <1>6
-----------------------------------------------------------------------------
(* Lists of lists, one after the other. *)

Flattens(ss, n, f) ==
  f = [i \in 1 .. n |-> IF i = 1 THEN ss[i] ELSE f[i - 1] \o ss[i]]

LEMMA FlattensFirst ==
  ASSUME NEW ss, NEW n \in Nat \ {0}, NEW f, Flattens(ss, n, f)
  PROVE  f[1] = ss[1]
<1>1. 1 \in 1 .. n
  OBVIOUS
<1> QED BY <1>1 DEF Flattens

LEMMA FlattensValue ==
  ASSUME NEW ss, NEW n \in Nat, NEW f, Flattens(ss, n, f), NEW i \in 2 .. n
  PROVE  f[i] = f[i - 1] \o ss[i]
<1>1. i \in 1 .. n /\ i # 1
  OBVIOUS
<1> QED BY <1>1 DEF Flattens

LEMMA FlattensExist ==
  ASSUME NEW ss, NEW n \in Nat
  PROVE  \E f : Flattens(ss, n, f)
<1> DEFINE Stuck == {m \in Nat : ~ \E f : Flattens(ss, m, f)}
<1>1. SUFFICES ASSUME Stuck # {} PROVE FALSE
  OBVIOUS
<1>2. PICK m \in Stuck : \A j \in Stuck : m <= j
  <2>1. Stuck \subseteq Nat
    OBVIOUS
  <2> HIDE DEF Stuck
  <2> QED BY <1>1, <2>1, LeastOf
<1>3. CASE m = 0
  <2> DEFINE f == [i \in 1 .. 0 |-> <<>>]
  <2>1. f = [i \in 1 .. m |-> IF i = 1 THEN ss[i] ELSE f[i - 1] \o ss[i]]
    BY <1>3
  <2>2. Flattens(ss, m, f)
    BY <2>1 DEF Flattens
  <2> QED BY <1>2, <2>2
<1>4. CASE m # 0
  <2>1. m \in Nat /\ m - 1 \in Nat /\ m - 1 \notin Stuck
    BY <1>2, <1>4
  <2>2. PICK f : Flattens(ss, m - 1, f)
    BY <2>1
  <2> DEFINE g == [i \in 1 .. m |-> IF i = 1 THEN ss[1]
                                    ELSE IF i = m THEN f[m - 1] \o ss[m] ELSE f[i]]
  <2>3. ASSUME NEW i \in 1 .. m
        PROVE  g[i] = IF i = 1 THEN ss[i] ELSE g[i - 1] \o ss[i]
    <3>1. CASE i = 1
      BY <3>1
    <3>2. CASE i # 1
      <4>1. m - 1 \in Nat \ {0} /\ i - 1 \in 1 .. m /\ i - 1 # m
        BY <2>1, <3>2
      <4>2. f[1] = ss[1]
        BY <2>2, <4>1, FlattensFirst
      <4>3. g[i - 1] = f[i - 1]
        BY <4>1, <4>2
      <4>4. CASE i = m
        BY <3>2, <4>3, <4>4
      <4>5. CASE i # m
        <5>1. i \in 2 .. m - 1
          BY <2>1, <3>2, <4>5
        <5>2. f[i] = f[i - 1] \o ss[i]
          BY <2>1, <2>2, <5>1, FlattensValue
        <5> QED BY <3>2, <4>3, <4>5, <5>2
      <4> QED BY <4>4, <4>5
    <3> QED BY <3>1, <3>2
  <2>4. g = [i \in 1 .. m |-> g[i]]
    OBVIOUS
  <2> HIDE DEF g
  <2>5. Flattens(ss, m, g)
    BY <2>3, <2>4 DEF Flattens
  <2> QED BY <1>2, <2>5
<1> QED BY <1>3, <1>4

\* As long as two lists agree, so do they flattened.
Begin(ss, ts, k) == \A i \in 1 .. k : ss[i] = ts[i]

LEMMA FlattensAgree ==
  ASSUME NEW ss, NEW ts, NEW m \in Nat, NEW n \in Nat, NEW f, NEW g,
         Flattens(ss, m, f), Flattens(ts, n, g),
         NEW k \in Nat, k <= m, k <= n, Begin(ss, ts, k)
  PROVE  \A i \in 1 .. k : f[i] = g[i]
<1>a. ASSUME NEW j \in 2 .. m
      PROVE  f[j] = f[j - 1] \o ss[j]
  BY FlattensValue
<1>b. ASSUME NEW j \in 2 .. n
      PROVE  g[j] = g[j - 1] \o ts[j]
  BY FlattensValue
<1> DEFINE Apart == {j \in 1 .. k : f[j] # g[j]}
<1>1. SUFFICES ASSUME Apart # {} PROVE FALSE
  OBVIOUS
<1>2. PICK d \in Apart : \A j \in Apart : d <= j
  <2>1. Apart \subseteq Nat
    OBVIOUS
  <2> HIDE DEF Apart
  <2> QED BY <1>1, <2>1, LeastOf
<1>3. d \in 1 .. k /\ f[d] # g[d]
  BY <1>2
<1>4. d # 1
  <2>1. ASSUME d = 1 PROVE f[1] = ss[1] /\ g[1] = ts[1] /\ 1 \in 1 .. k
    <3>1. m # 0 /\ n # 0
      BY <1>3
    <3>2. f[1] = ss[1]
      BY <3>1, FlattensFirst
    <3>3. g[1] = ts[1]
      BY <3>1, FlattensFirst
    <3> QED BY <1>3, <2>1, <3>2, <3>3
  <2> QED BY <1>3, <2>1 DEF Begin
<1>5. d \in 1 .. k /\ d \in 2 .. m /\ d \in 2 .. n /\ f[d - 1] = g[d - 1]
  BY <1>2, <1>3, <1>4
<1> HIDE DEF Apart
<1>6. f[d] = f[d - 1] \o ss[d]
  BY <1>a, <1>5
<1>7. g[d] = g[d - 1] \o ts[d]
  BY <1>b, <1>5
<1>8. ss[d] = ts[d]
  BY <1>5 DEF Begin
<1> QED BY <1>3, <1>5, <1>6, <1>7, <1>8

LEMMA FlattenNone == FlattenSeq(<<>>) = <<>>
<1>1. Len(<<>>) = 0
  OBVIOUS
<1> QED BY <1>1 DEF FlattenSeq

LEMMA FlattenSteps ==
  ASSUME NEW ss, Len(ss) \in Nat \ {0}, NEW f, Flattens(ss, Len(ss), f)
  PROVE  FlattenSeq(ss) = f[Len(ss)]
<1>1. \E g : Flattens(ss, Len(ss), g) /\ FlattenSeq(ss) = g[Len(ss)]
  BY DEF FlattenSeq, Flattens
<1>2. Len(ss) \in Nat /\ Len(ss) \in 1 .. Len(ss) /\ Len(ss) <= Len(ss)
      /\ Begin(ss, ss, Len(ss))
  BY DEF Begin
<1>3. ASSUME NEW g, Flattens(ss, Len(ss), g) PROVE f[Len(ss)] = g[Len(ss)]
  <2>1. \A i \in 1 .. Len(ss) : f[i] = g[i]
    BY <1>2, <1>3, FlattensAgree
  <2> QED BY <1>2, <2>1
<1> QED BY <1>1, <1>3

LEMMA FlattenOne ==
  ASSUME NEW ss, Len(ss) = 1
  PROVE  FlattenSeq(ss) = ss[1]
<1>1. PICK f : Flattens(ss, 1, f)
  BY FlattensExist
<1>2. f[1] = ss[1]
  BY <1>1, FlattensFirst
<1>3. FlattenSeq(ss) = f[Len(ss)]
  <2>1. Len(ss) \in Nat \ {0} /\ Flattens(ss, Len(ss), f)
    BY <1>1
  <2> QED BY <2>1, FlattenSteps
<1> QED BY <1>2, <1>3

LEMMA FlattenNext ==
  ASSUME NEW ss, NEW ts, Len(ss) \in Nat \ {0}, Len(ts) = Len(ss) + 1,
         Begin(ss, ts, Len(ss))
  PROVE  FlattenSeq(ts) = FlattenSeq(ss) \o ts[Len(ts)]
<1> DEFINE n == Len(ss)
<1>0. n \in Nat /\ n + 1 \in Nat /\ n + 1 # 0 /\ n <= n /\ n <= n + 1 /\ n \in 1 .. n
      /\ n + 1 \in 2 .. (n + 1) /\ (n + 1) - 1 = n /\ Len(ts) = n + 1
  OBVIOUS
<1>1. PICK f : Flattens(ss, n, f)
  BY FlattensExist
<1>2. PICK g : Flattens(ts, n + 1, g)
  BY <1>0, FlattensExist
<1>3. f[n] = g[n]
  <2>1. Begin(ss, ts, n)
    OBVIOUS
  <2> HIDE DEF n
  <2>2. \A i \in 1 .. n : f[i] = g[i]
    BY <1>0, <1>1, <1>2, <2>1, FlattensAgree
  <2> QED BY <1>0, <2>2
<1>4. g[n + 1] = g[n] \o ts[n + 1]
  <2>1. \A i \in 2 .. (n + 1) : g[i] = g[i - 1] \o ts[i]
    BY <1>0, <1>2, FlattensValue
  <2> QED BY <1>0, <2>1
<1>5. FlattenSeq(ss) = f[n]
  BY <1>1, FlattenSteps
<1>6. FlattenSeq(ts) = g[n + 1]
  BY <1>0, <1>2, FlattenSteps
<1> QED BY <1>0, <1>3, <1>4, <1>5, <1>6

LEMMA FlattenMembers ==
  ASSUME NEW ss, IsList(ss), NEW X, \A i \in 1 .. Len(ss) : ss[i] \in Seq(X)
  PROVE  /\ FlattenSeq(ss) \in Seq(X)
         /\ \A x \in Range(FlattenSeq(ss)) : \E i \in 1 .. Len(ss) : x \in Range(ss[i])
<1> DEFINE n == Len(ss)
           Among(s, k) == s \in Seq(X) /\ \A x \in Range(s) : \E i \in 1 .. k : x \in Range(ss[i])
<1>1. n \in Nat
  BY ListIsFunction
<1>2. CASE n = 0
  <2>1. FlattenSeq(ss) = <<>>
    BY <1>2, FlattenNone, EmptySeq DEF IsList
  <2> QED BY <2>1, NoList DEF Range
<1>3. CASE n # 0
  <2>1. PICK f : Flattens(ss, n, f)
    BY <1>1, FlattensExist
  <2>a. ASSUME NEW i \in 2 .. n PROVE f[i] = f[i - 1] \o ss[i]
    BY <1>1, <2>1, FlattensValue
  <2>b. FlattenSeq(ss) = f[n]
    BY <1>1, <1>3, <2>1, FlattenSteps
  <2>c. \A i \in 1 .. n : ss[i] \in Seq(X)
    OBVIOUS
  <2> HIDE DEF n
  <2> DEFINE Wrong == {k \in 1 .. n : ~ Among(f[k], k)}
  <2>2. ASSUME Wrong # {} PROVE FALSE
    <3>1. PICK k \in Wrong : \A j \in Wrong : k <= j
      <4>1. Wrong \subseteq Nat
        OBVIOUS
      <4> HIDE DEF Wrong
      <4> QED BY <2>2, <4>1, LeastOf
    <3>2. k \in 1 .. n /\ ~ Among(f[k], k)
      BY <3>1
    <3>3. CASE k = 1
      <4>1. f[1] = ss[1]
        BY <1>1, <1>3, <2>1, FlattensFirst
      <4> QED BY <2>c, <3>2, <3>3, <4>1
    <3>4. CASE k # 1
      <4>1. k - 1 \in 1 .. n /\ k \in 2 .. n /\ ~ (k <= k - 1)
        BY <1>1, <3>2, <3>4
      <4>2. Among(f[k - 1], k - 1)
        BY <3>1, <4>1
      <4>3. f[k] = f[k - 1] \o ss[k] /\ ss[k] \in Seq(X)
        BY <2>a, <2>c, <4>1
      <4>4. f[k] \in Seq(X) /\ Range(f[k]) = Range(f[k - 1]) \cup Range(ss[k])
        BY <4>2, <4>3, RangeConcatenation, ConcatProperties
      <4>5. \A i \in 1 .. k - 1 : i \in 1 .. k
        BY <4>1
      <4>6. \A x \in Range(f[k]) : \E i \in 1 .. k : x \in Range(ss[i])
        BY <4>1, <4>2, <4>4, <4>5
      <4> QED BY <3>2, <4>4, <4>6
    <3> QED BY <3>3, <3>4
  <2>3. Among(f[n], n)
    <3>1. n \in 1 .. n /\ n \notin Wrong
      <4>1. Wrong = {}
        BY <2>2
      <4> HIDE DEF Wrong
      <4> QED BY <1>1, <1>3, <4>1
    <3> HIDE DEF Among
    <3> QED BY <3>1
  <2> QED BY <2>b, <2>3 DEF n
<1> QED BY <1>2, <1>3

Regroups(a, b, c) == (a \o b) \o c = a \o (b \o c)

LEMMA ConcatTwice ==
  ASSUME NEW X, NEW a \in Seq(X), NEW b \in Seq(X), NEW c \in Seq(X)
  PROVE  Regroups(a, b, c)
BY ConcatAssociative DEF Regroups

\* The last list grows.
LEMMA FlattenGrown ==
  ASSUME NEW ss, IsList(ss), NEW ts, IsList(ts), Len(ss) # 0, Len(ts) = Len(ss), NEW X,
         \A i \in 1 .. Len(ss) : ss[i] \in Seq(X), NEW t \in Seq(X),
         Begin(ss, ts, Len(ss) - 1), ts[Len(ss)] = ss[Len(ss)] \o t
  PROVE  FlattenSeq(ts) = FlattenSeq(ss) \o t
<1> DEFINE n == Len(ss)
           front == [i \in 1 .. n - 1 |-> ss[i]]
<1>1. n \in Nat \ {0} /\ n - 1 \in Nat
  BY ListIsFunction
<1>2. CASE n = 1
  <2>1. FlattenSeq(ss) = ss[1] /\ FlattenSeq(ts) = ts[1]
    BY <1>2, FlattenOne
  <2> QED BY <1>2, <2>1
<1>3. CASE n # 1
  <2>1. IsList(front) /\ Len(front) = n - 1 /\ \A i \in 1 .. n - 1 : front[i] = ss[i]
    <3>1. front = [i \in 1 .. n - 1 |-> front[i]]
      OBVIOUS
    <3> HIDE DEF n
    <3>2. \A i \in 1 .. n - 1 : front[i] = ss[i]
      OBVIOUS
    <3> HIDE DEF front
    <3> QED BY <1>1, <3>1, <3>2, FunctionIsList
  <2> HIDE DEF front
  <2>2. Begin(front, ss, Len(front)) /\ Begin(front, ts, Len(front))
    BY <2>1 DEF Begin
  <2>3. Len(front) \in Nat \ {0} /\ n = Len(front) + 1
    BY <1>1, <1>3, <2>1
  <2>4. FlattenSeq(ss) = FlattenSeq(front) \o ss[n]
    BY <2>2, <2>3, FlattenNext
  <2>5. FlattenSeq(ts) = FlattenSeq(front) \o ts[n]
    BY <2>2, <2>3, FlattenNext
  <2>6. FlattenSeq(front) \in Seq(X)
    <3>1. \A i \in 1 .. Len(front) : front[i] \in Seq(X)
      BY <1>1, <2>1
    <3> QED BY <2>1, <3>1, FlattenMembers
  <2>7. ss[n] \in Seq(X) /\ ts[n] = ss[n] \o t
    BY <1>1
  <2> HIDE DEF n
  <2> DEFINE a == FlattenSeq(front)
             b == ss[n]
             d == FlattenSeq(ss)
             e == ts[n]
  <2>8. /\ a \in Seq(X) /\ b \in Seq(X) /\ t \in Seq(X)
        /\ d = a \o b /\ e = b \o t /\ FlattenSeq(ts) = a \o e
    BY <2>4, <2>5, <2>6, <2>7
  <2> HIDE DEF a, b, d, e
  <2>9. Regroups(a, b, t)
    BY <2>8, ConcatTwice, Zenon
  <2> QED BY <2>8, <2>9 DEF d, Regroups
<1> QED BY <1>2, <1>3
-----------------------------------------------------------------------------
(* Every page is accounted for. *)

Scanned == {p \in DOMAIN Pages : Pages[p].qr # None /\ "protocolo" \notin Pages[p].body}
Numbers(n) == [p \in 1 .. n |-> p]
PagesOf(bs) == [i \in DOMAIN bs |-> bs[i].source_pages]
OcrOf(p, review) == [k \in DOMAIN Pages[p].ocr |-> Line(Pages[p].ocr[k], review)]
LinesOf(b) ==
  FlattenSeq([j \in DOMAIN b.source_pages |->
                OcrOf(b.source_pages[j], b.identity_source = "ocr_fallback")])

(* A page with a compact QR is a guía page with evidence, and what assembly has
   taken is in the blocks or discarded. *)
AccountInv ==
  /\ stage \in Before => raws = <<>> /\ discarded = <<>>
  /\ stage \in {"declared", "ocr"} => \A p \in Scanned : kinds[p] = "GUIA"
  /\ stage \notin Before => Scanned \subseteq Evident
  /\ stage \notin Before \cup {"assemble"} => seen = Len(Pages)
  /\ stage = "assemble" => \A p \in DOMAIN raws : raws[p].lines = OcrOf(p, FALSE)
  /\ stage = "assemble" => \A b \in Range(Finished) : b.lines = LinesOf(b)
  /\ FlattenSeq(PagesOf(Finished)) = TakenPages(Evident)
  /\ IsList(discarded)
  /\ [i \in DOMAIN discarded |-> discarded[i].page] = TakenPages(DOMAIN raws \ Evident)

LEMMA NumbersList ==
  ASSUME NEW n \in Nat
  PROVE  IsList(Numbers(n)) /\ Len(Numbers(n)) = n /\ Range(Numbers(n)) = 1 .. n
         /\ \A p \in 1 .. n : Numbers(n)[p] = p
<1> DEFINE f == Numbers(n)
<1>1. f = [p \in 1 .. n |-> f[p]] /\ \A p \in 1 .. n : f[p] = p
  BY DEF Numbers
<1>2. Range(f) = 1 .. n
  BY DEF Numbers, Range
<1> HIDE DEF f
<1>3. IsList(f) /\ Len(f) = n
  BY <1>1, FunctionIsList
<1> QED BY <1>1, <1>2, <1>3 DEF f

LEMMA TakenNext ==
  ASSUME NEW n \in Nat, NEW S, NEW T, \A p \in 1 .. n : p \in S <=> p \in T
  PROVE  Selected(Numbers(n + 1), T) = IF n + 1 \in T THEN Append(Selected(Numbers(n), S), n + 1)
                                       ELSE Selected(Numbers(n), S)
<1> DEFINE s == Numbers(n)
           t == Numbers(n + 1)
<1>1. /\ Len(s) = n /\ Len(t) = n + 1 /\ t[n + 1] = n + 1
      /\ \A i \in 1 .. n : s[i] = i /\ t[i] = i
  <2>1. n + 1 \in Nat /\ n + 1 \in 1 .. (n + 1) /\ \A i \in 1 .. n : i \in 1 .. (n + 1)
    OBVIOUS
  <2>2. Len(t) = n + 1 /\ \A p \in 1 .. (n + 1) : t[p] = p
    BY <2>1, NumbersList
  <2>3. Len(s) = n /\ \A p \in 1 .. n : s[p] = p
    BY NumbersList
  <2> HIDE DEF s, t
  <2> QED BY <2>1, <2>2, <2>3
<1> HIDE DEF s, t
<1>2. Alike(s, S, t, T, Len(s))
  BY <1>1 DEF Alike
<1>3. Selected(t, T) = IF t[Len(t)] \in T THEN Append(Selected(s, S), t[Len(t)])
                       ELSE Selected(s, S)
  BY <1>1, <1>2, SelectedNext
<1> QED BY <1>1, <1>3 DEF s, t

LEMMA NothingTaken ==
  ASSUME seen = 0
  PROVE  /\ \A S : TakenPages(S) = <<>>
         /\ FlattenSeq(PagesOf(<<>>)) = <<>>
         /\ [i \in DOMAIN <<>> |-> <<>>[i].page] = <<>>
<1>1. ASSUME NEW S PROVE TakenPages(S) = <<>>
  <2>1. TakenPages(S) = Selected(Numbers(0), S)
    BY DEF TakenPages, Numbers
  <2> QED BY <2>1, NumbersList, SelectedNone
<1>2. PagesOf(<<>>) = <<>> /\ [i \in DOMAIN <<>> |-> <<>>[i].page] = <<>>
  BY DEF PagesOf
<1> QED BY <1>1, <1>2, FlattenNone

LEMMA EvidenceStays ==
  ASSUME UNCHANGED <<raws, decoded>>
  PROVE  Evident' = Evident /\ \A raw : HasEvidence(raw)' <=> HasEvidence(raw)
<1>1. \A raw : HasEvidence(raw)' <=> HasEvidence(raw)
  BY DEF HasEvidence, IsFallbackMaterial, Identity, HashqrUrl
<1> QED BY <1>1 DEF Evident

\* A page with a compact QR is a guía page, unless it is a Protocolo.
LEMMA QrIsGuia ==
  ASSUME NEW body, NEW title, NEW qr, qr, NEW dominant, "protocolo" \notin body
  PROVE  classify(body, title, qr, dominant) = "GUIA"
<1> DEFINE read == IF body = {} THEN title ELSE body
           signals == read \cup (IF qr THEN {"qr"} ELSE {})
                      \cup (IF dominant /\ "long" \notin body THEN {"header"} ELSE {})
<1>1. "qr" \in signals
  OBVIOUS
<1>2. CASE body = {}
  <2> DEFINE matching == {i \in DOMAIN ScanRules : ScanRules[i].signal \in signals}
  <2>1. DOMAIN ScanRules = 1 .. 6 /\ ScanRules[1].signal = "qr" /\ ScanRules[1].kind = "GUIA"
    BY DEF ScanRules, Rule
  <2>2. 1 \in matching /\ \A j \in matching : 1 <= j
    BY <1>1, <2>1
  <2>3. classify(body, title, qr, dominant) = FirstMatch(ScanRules, signals)
    BY <1>2 DEF classify
  <2>4. \A i \in matching : i \in 1 .. 6
    BY <2>1
  <2>6. FirstMatch(ScanRules, signals)
          = IF matching = {} THEN "UNCLASSIFIED"
            ELSE ScanRules[CHOOSE i \in matching : \A j \in matching : i <= j].kind
    BY DEF FirstMatch
  <2> HIDE DEF matching, signals
  <2>5. (CHOOSE i \in matching : \A j \in matching : i <= j) = 1
    BY <2>2, <2>4
  <2> QED BY <2>1, <2>2, <2>3, <2>5, <2>6
<1>3. CASE body # {}
  <2> DEFINE matching == {i \in DOMAIN TextRules : TextRules[i].signal \in signals}
  <2>1. /\ DOMAIN TextRules = 1 .. 10 /\ TextRules[2].signal = "qr" /\ TextRules[2].kind = "GUIA"
        /\ TextRules[1].signal = "protocolo"
    BY DEF TextRules, Rule
  <2>2. "protocolo" \notin signals
    BY <1>3
  <2>3. 2 \in matching /\ 1 \notin matching
    BY <1>1, <2>1, <2>2
  <2>4. classify(body, title, qr, dominant) = FirstMatch(TextRules, signals)
    BY <1>3 DEF classify
  <2>5. \A i \in matching : i \in 1 .. 10
    BY <2>1
  <2>7. FirstMatch(TextRules, signals)
          = IF matching = {} THEN "UNCLASSIFIED"
            ELSE TextRules[CHOOSE i \in matching : \A j \in matching : i <= j].kind
    BY DEF FirstMatch
  <2> HIDE DEF matching, signals
  <2>6. (CHOOSE i \in matching : \A j \in matching : i <= j) = 2
    BY <2>3, <2>5
  <2> QED BY <2>1, <2>3, <2>4, <2>6, <2>7
<1> QED BY <1>2, <1>3

LEMMA ListsEqual ==
  ASSUME NEW s, IsList(s), NEW t, IsList(t), Len(s) = Len(t),
         \A i \in 1 .. Len(s) : s[i] = t[i]
  PROVE  s = t
<1>1. s \in [1 .. Len(s) -> Range(s)] /\ t \in [1 .. Len(t) -> Range(t)]
  BY LenProperties DEF IsList
<1> QED BY <1>1

LEMMA PagesOfList ==
  ASSUME NEW bs, IsList(bs)
  PROVE  /\ IsList(PagesOf(bs)) /\ Len(PagesOf(bs)) = Len(bs)
         /\ \A i \in 1 .. Len(bs) : PagesOf(bs)[i] = bs[i].source_pages
<1>1. DOMAIN bs = 1 .. Len(bs) /\ Len(bs) \in Nat
  BY ListIsFunction
<1> DEFINE f == PagesOf(bs)
<1>2. /\ f = [i \in 1 .. Len(bs) |-> f[i]]
      /\ \A i \in 1 .. Len(bs) : f[i] = bs[i].source_pages
  BY <1>1 DEF PagesOf
<1> HIDE DEF f
<1>3. IsList(f) /\ Len(f) = Len(bs)
  BY <1>1, <1>2, FunctionIsList
<1> QED BY <1>2, <1>3 DEF f

\* The pages of one more block come after those of the others.
LEMMA PagesOfNewBlock ==
  ASSUME NEW bs, NEW b, NEW cs, IsList(bs), Added(bs, b, cs), NEW page, b.source_pages = <<page>>,
         IsList(FlattenSeq(PagesOf(bs)))
  PROVE  FlattenSeq(PagesOf(cs)) = Append(FlattenSeq(PagesOf(bs)), page)
<1> DEFINE ss == PagesOf(bs)
           ts == PagesOf(cs)
           n == Len(bs)
<1>1. n \in Nat /\ IsList(cs) /\ Len(cs) = n + 1 /\ cs[n + 1] = b /\ \A i \in 1 .. n : cs[i] = bs[i]
  BY DEF Added
<1>2. IsList(ss) /\ Len(ss) = n /\ \A i \in 1 .. n : ss[i] = bs[i].source_pages
  BY PagesOfList
<1>3. IsList(ts) /\ Len(ts) = n + 1 /\ \A i \in 1 .. n + 1 : ts[i] = cs[i].source_pages
  BY <1>1, PagesOfList
<1> HIDE DEF ss, ts, n
<1>4. ts[n + 1] = <<page>> /\ Begin(ss, ts, n)
  BY <1>1, <1>2, <1>3 DEF Begin
<1>5. CASE n = 0
  <2>1. FlattenSeq(ts) = <<page>>
    BY <1>3, <1>4, <1>5, FlattenOne
  <2>2. FlattenSeq(ss) = <<>>
    BY <1>2, <1>5, FlattenNone, EmptySeq DEF IsList
  <2> QED BY <2>1, <2>2 DEF ss, ts
<1>6. CASE n # 0
  <2>1. FlattenSeq(ts) = FlattenSeq(ss) \o <<page>>
    <3>1. /\ Len(ss) \in Nat \ {0} /\ Len(ts) = Len(ss) + 1
          /\ Begin(ss, ts, Len(ss)) /\ ts[Len(ts)] = <<page>>
      BY <1>1, <1>2, <1>3, <1>4, <1>6
    <3>2. FlattenSeq(ts) = FlattenSeq(ss) \o ts[Len(ts)]
      BY <3>1, FlattenNext
    <3> QED BY <3>1, <3>2
  <2>2. Append(FlattenSeq(ss), page) = FlattenSeq(ss) \o <<page>>
    BY DEF IsList, ss
  <2> QED BY <2>1, <2>2 DEF ss, ts
<1> QED BY <1>5, <1>6

\* A page more in the last block is a page more after them all.
LEMMA PagesOfGrownBlock ==
  ASSUME NEW front, NEW c, NEW bs, NEW b, NEW cs, Added(front, c, bs), Added(front, b, cs), NEW page \in Nat,
         \A x \in Range(bs) : x.source_pages \in Seq(Nat),
         b.source_pages = Append(c.source_pages, page)
  PROVE  FlattenSeq(PagesOf(cs)) = Append(FlattenSeq(PagesOf(bs)), page)
<1> DEFINE ss == PagesOf(bs)
           ts == PagesOf(cs)
           n == Len(bs)
<1>1. /\ n \in Nat \ {0} /\ IsList(bs) /\ IsList(cs) /\ Len(cs) = n
      /\ \A i \in 1 .. n - 1 : bs[i] = cs[i]
      /\ bs[n] = c /\ cs[n] = b
  <2> DEFINE m == Len(front)
  <2>1. m \in Nat /\ Len(bs) = m + 1 /\ Len(cs) = m + 1 /\ IsList(bs) /\ IsList(cs)
    BY DEF Added
  <2>2. bs[m + 1] = c /\ cs[m + 1] = b /\ \A i \in 1 .. m : bs[i] = cs[i]
    BY DEF Added
  <2> HIDE DEF m
  <2>3. Len(bs) - 1 = m
    BY <2>1
  <2> QED BY <2>1, <2>2, <2>3
<1>2. IsList(ss) /\ Len(ss) = n /\ \A i \in 1 .. n : ss[i] = bs[i].source_pages
  BY <1>1, PagesOfList
<1>3. IsList(ts) /\ Len(ts) = n /\ \A i \in 1 .. n : ts[i] = cs[i].source_pages
  BY <1>1, PagesOfList
<1>4. \A i \in 1 .. n : bs[i] \in Range(bs)
  BY <1>1, ListIsFunction DEF Range
<1>5. \A i \in 1 .. n : ss[i] \in Seq(Nat)
  BY <1>2, <1>4
<1> HIDE DEF ss, ts, n
<1>6. Begin(ss, ts, n - 1)
  BY <1>1, <1>2, <1>3 DEF Begin
<1>7. n \in 1 .. n /\ ts[n] = ss[n] \o <<page>> /\ <<page>> \in Seq(Nat)
  <2>1. n \in 1 .. n
    BY <1>1
  <2>2. c.source_pages \in Seq(Nat)
    BY <1>1, <1>4, <2>1
  <2>3. Append(c.source_pages, page) = c.source_pages \o <<page>>
    BY <2>2
  <2>4. ts[n] = b.source_pages /\ ss[n] = c.source_pages
    BY <1>1, <1>2, <1>3, <2>1
  <2>5. b.source_pages = c.source_pages \o <<page>>
    BY <2>3
  <2>6. <<page>> \in Seq(Nat)
    OBVIOUS
  <2> QED BY <2>1, <2>4, <2>5, <2>6, Zenon
<1>8. FlattenSeq(ts) = FlattenSeq(ss) \o <<page>>
  BY <1>1, <1>2, <1>3, <1>5, <1>6, <1>7, FlattenGrown
<1>9. Append(FlattenSeq(ss), page) = FlattenSeq(ss) \o <<page>>
  <2>1. FlattenSeq(ss) \in Seq(Nat)
    BY <1>2, <1>5, FlattenMembers
  <2> QED BY <2>1
<1> QED BY <1>8, <1>9 DEF ss, ts

\* The same for the discarded pages.
LEMMA PagesOfDiscarded ==
  ASSUME NEW s, NEW raw, NEW t, IsList(s), Added(s, raw, t)
  PROVE  [i \in DOMAIN t |-> t[i].page] = Append([i \in DOMAIN s |-> s[i].page], raw.page)
<1> DEFINE f == [i \in DOMAIN s |-> s[i].page]
           g == [i \in DOMAIN t |-> t[i].page]
           n == Len(s)
<1>1. /\ n \in Nat /\ DOMAIN s = 1 .. n /\ DOMAIN t = 1 .. n + 1 /\ t[n + 1] = raw
      /\ \A i \in 1 .. n : t[i] = s[i]
  BY ListIsFunction DEF Added
<1>2. f = [i \in 1 .. n |-> f[i]] /\ g = [i \in 1 .. n + 1 |-> g[i]]
      /\ g[n + 1] = raw.page /\ \A i \in 1 .. n : g[i] = f[i]
  BY <1>1
<1> HIDE DEF f, g, n
<1>3. IsList(f) /\ Len(f) = n
  BY <1>1, <1>2, FunctionIsList
<1>4. IsList(g) /\ Len(g) = n + 1
  BY <1>1, <1>2, FunctionIsList
<1> DEFINE h == f \o <<raw.page>>
<1>5. Added(f, raw.page, h)
  BY <1>3, AddToList, Zenon
<1> HIDE DEF h
<1>6. g = h
  <2>1. IsList(h) /\ Len(h) = n + 1 /\ h[n + 1] = raw.page /\ \A i \in 1 .. n : h[i] = f[i]
    BY <1>3, <1>5 DEF Added
  <2>2. \A i \in 1 .. n + 1 : g[i] = h[i]
    BY <1>1, <1>2, <2>1
  <2> QED BY <1>4, <2>1, <2>2, ListsEqual
<1>7. Append(f, raw.page) = f \o <<raw.page>>
  BY <1>3 DEF IsList
<1> QED BY <1>6, <1>7 DEF f, g, h

LEMMA TakenList ==
  ASSUME seen \in Nat
  PROVE  \A S : /\ TakenPages(S) = Selected(Numbers(seen), S) /\ IsList(TakenPages(S))
                /\ Range(TakenPages(S)) = (1 .. seen) \cap S
<1> SUFFICES ASSUME NEW S
             PROVE  /\ TakenPages(S) = Selected(Numbers(seen), S) /\ IsList(TakenPages(S))
                    /\ Range(TakenPages(S)) = (1 .. seen) \cap S
  OBVIOUS
<1>1. TakenPages(S) = Selected(Numbers(seen), S)
  BY DEF TakenPages, Numbers
<1>2. IsList(Numbers(seen)) /\ Range(Numbers(seen)) = 1 .. seen
  BY NumbersList
<1> QED BY <1>1, <1>2, SelectedMembers

\* Before the guía pages are known.
LEMMA AccountEmpty ==
  ASSUME raws' = <<>>, discarded' = <<>>, seen' = 0, Finished' = <<>>, stage' \in Before,
         stage' \in {"declared", "ocr"} => \A p \in Scanned' : kinds'[p] = "GUIA"
  PROVE  AccountInv'
<1>1. \A S : TakenPages(S)' = <<>>
  <2>1. \A S : TakenPages(S)' = Selected(Numbers(0), S)
    BY DEF TakenPages, Numbers
  <2> QED BY <2>1, NumbersList, SelectedNone
<1>2. FlattenSeq(PagesOf(<<>>)) = <<>> /\ PagesOf(Finished)' = PagesOf(<<>>)
      /\ [i \in DOMAIN <<>> |-> <<>>[i].page] = <<>>
  BY FlattenNone DEF PagesOf
<1>3. FlattenSeq(PagesOf(Finished))' = TakenPages(Evident)'
  BY <1>1, <1>2 DEF TakenPages
<1>4. [i \in DOMAIN discarded |-> discarded[i].page]' = TakenPages(DOMAIN raws \ Evident)'
  BY <1>1, <1>2 DEF TakenPages
<1> QED BY <1>3, <1>4, NoList DEF AccountInv, Before

\* After the last page.
LEMMA AccountStays ==
  ASSUME AccountInv, UNCHANGED <<doc, raws, decoded, seen, discarded>>,
         PagesOf(Finished)' = PagesOf(Finished),
         stage \notin Before, stage' \notin Before \cup {"assemble"},
         stage = "assemble" => seen = Len(Pages)
  PROVE  AccountInv'
<1>1. Evident' = Evident /\ Scanned' = Scanned
  BY EvidenceStays DEF Scanned, Pages
<1>2. FlattenSeq(PagesOf(Finished))' = TakenPages(Evident)'
  BY <1>1 DEF AccountInv, TakenPages
<1>3. [i \in DOMAIN discarded |-> discarded[i].page]' = TakenPages(DOMAIN raws \ Evident)'
  BY <1>1 DEF AccountInv, TakenPages
<1>4. seen' = Len(Pages')
  BY DEF AccountInv, Pages, Before
<1> QED BY <1>1, <1>2, <1>3, <1>4 DEF AccountInv, Before

LEMMA OcrStays ==
  ASSUME doc' = doc
  PROVE  /\ \A p, review : OcrOf(p, review)' = OcrOf(p, review)
         /\ \A b : LinesOf(b)' = LinesOf(b)
         /\ Scanned' = Scanned
BY DEF OcrOf, LinesOf, Scanned, Pages

LEMMA AccountExtractOcr ==
  ASSUME PagesInv, PagesInv', AccountInv, ExtractOcr
  PROVE  AccountInv'
<1>1. /\ stage = "ocr" /\ stage' = "assemble" /\ seen' = 0 /\ Finished' = <<>> /\ discarded' = <<>>
      /\ doc' = doc /\ decoded' = decoded
  <2>1. stage = "ocr" /\ seen = 0 /\ blocks = <<>> /\ block = <<>> /\ discarded = <<>>
    BY DEF ExtractOcr, PagesInv, Before, AccountInv
  <2> QED BY <2>1, NoList DEF ExtractOcr, Finished
<1>2. raws' = [p \in {p \in DOMAIN Pages : kinds[p] = "GUIA"} |->
                 [page |-> p, registro |-> page_to_registro(p), lines |-> OcrOf(p, FALSE)]]
  BY DEF ExtractOcr, OcrOf
<1>3. ASSUME NEW p \in Scanned PROVE p \in Evident'
  <2>1. p \in DOMAIN raws' /\ raws'[p].page = p
    BY <1>1, <1>2, <1>3 DEF AccountInv, Scanned
  <2>2. decoded'[p].identity = Pages[p].qr /\ Pages[p].qr # None
    BY <1>1, <1>3 DEF PagesInv, Scanned, Pages
  <2>3. HasEvidence(raws[p])'
    BY <2>1, <2>2 DEF HasEvidence, Identity
  <2> QED BY <2>1, <2>3 DEF Evident
<1>4. \A p \in DOMAIN raws' : raws'[p].lines = OcrOf(p, FALSE)'
  BY <1>1, <1>2, OcrStays
<1>5. \A S : TakenPages(S)' = <<>>
  <2>1. \A S : TakenPages(S)' = Selected(Numbers(0), S)
    BY <1>1 DEF TakenPages, Numbers
  <2> QED BY <2>1, NumbersList, SelectedNone
<1>6. /\ FlattenSeq(PagesOf(<<>>)) = <<>> /\ PagesOf(Finished)' = PagesOf(<<>>)
      /\ [i \in DOMAIN <<>> |-> <<>>[i].page] = <<>> /\ Range(<<>>) = {} /\ IsList(<<>>)
  BY <1>1, FlattenNone, NoList DEF PagesOf
<1>7. FlattenSeq(PagesOf(Finished))' = TakenPages(Evident)'
  BY <1>5, <1>6 DEF TakenPages
<1>8. [i \in DOMAIN discarded |-> discarded[i].page]' = TakenPages(DOMAIN raws \ Evident)'
  BY <1>1, <1>5, <1>6 DEF TakenPages
<1>9. Scanned' = Scanned /\ Range(Finished') = {}
  BY <1>1, <1>6, OcrStays
<1> QED BY <1>1, <1>3, <1>4, <1>6, <1>7, <1>8, <1>9 DEF AccountInv, Before

\* The lines of a block are those of its pages.
LEMMA NewBlockLines ==
  ASSUME PagesInv, AccountInv, AssemblePage, seen + 1 \in DOMAIN raws,
         HasEvidence(raws[seen + 1]), NEW b, b = NewBlock(raws[seen + 1])
  PROVE  b.source_pages = <<seen + 1>> /\ b.lines = LinesOf(b)
<1> DEFINE raw == raws[seen + 1]
           ocr == Pages[seen + 1].ocr
           review == b.identity_source = "ocr_fallback"
           lists == [j \in DOMAIN b.source_pages |-> OcrOf(b.source_pages[j], review)]
<1>1. b.source_pages = <<seen + 1>>
  BY NextPage DEF NewBlock
<1>2. raw.lines = [k \in DOMAIN ocr |-> Line(ocr[k], FALSE)]
  BY DEF AccountInv, AssemblePage, OcrOf
<1>3. b.lines = [k \in DOMAIN raw.lines |-> Line(raw.lines[k], IsFallbackMaterial(raw))]
  BY DEF NewBlock
<1>4. IsFallbackMaterial(raw) = review
  <2>1. b.identity_source = IF Identity(raw) # None THEN "qr" ELSE "ocr_fallback"
    BY DEF NewBlock
  <2>2. CASE Identity(raw) # None
    <3>1. IsFallbackMaterial(raw) = FALSE
      BY <2>2 DEF IsFallbackMaterial
    <3> QED BY <2>1, <2>2, <3>1
  <2>3. CASE Identity(raw) = None
    <3>1. IsFallbackMaterial(raw) = TRUE
      BY <2>3 DEF IsFallbackMaterial, HasEvidence
    <3> QED BY <2>1, <2>3, <3>1
  <2> QED BY <2>2, <2>3
<1>5. ASSUME NEW k \in DOMAIN ocr PROVE Line(raw.lines[k], review) = Line(ocr[k], review)
  <2>1. raw.lines[k] = Line(ocr[k], FALSE)
    BY <1>2
  <2>2. \A x, r : Line(Line(x, FALSE), r) = Line(x, r)
    BY DEF Line
  <2> HIDE DEF raw, ocr, review
  <2> QED BY <2>1, <2>2
<1>6. b.lines = OcrOf(seen + 1, review)
  <2>1. DOMAIN raw.lines = DOMAIN ocr
    BY <1>2
  <2>2. b.lines = [k \in DOMAIN raw.lines |-> Line(raw.lines[k], review)]
    BY <1>3, <1>4
  <2> HIDE DEF raw, ocr, review
  <2>3. b.lines = [k \in DOMAIN ocr |-> Line(ocr[k], review)]
    BY <1>5, <2>1, <2>2
  <2> QED BY <2>3 DEF OcrOf, ocr
<1>7. Len(lists) = 1 /\ lists[1] = OcrOf(seen + 1, review)
  <2>1. DOMAIN b.source_pages = 1 .. 1 /\ b.source_pages[1] = seen + 1
    BY <1>1
  <2>2. lists = [j \in 1 .. 1 |-> lists[j]] /\ lists[1] = OcrOf(seen + 1, review)
    BY <2>1
  <2> HIDE DEF lists
  <2> QED BY <2>2, FunctionIsList
<1>8. FlattenSeq(lists) = OcrOf(seen + 1, review)
  <2> HIDE DEF lists, review
  <2> QED BY <1>7, FlattenOne
<1> QED BY <1>1, <1>6, <1>8 DEF LinesOf

LEMMA AbsorbedLines ==
  ASSUME PagesInv, AccountInv, AssemblePage, seen + 1 \in DOMAIN raws, ~StartsBlock(raws[seen + 1]),
         HasEvidence(raws[seen + 1]), NEW c, block = <<c>>, Placed(c), c.lines = LinesOf(c),
         NEW b, b = Absorbed(raws[seen + 1])
  PROVE  b.source_pages = Append(c.source_pages, seen + 1) /\ b.lines = LinesOf(b)
<1> DEFINE raw == raws[seen + 1]
           pages == c.source_pages
           n == Len(pages)
           review == b.identity_source = "ocr_fallback"
           ss == [j \in DOMAIN pages |-> OcrOf(pages[j], review)]
           ts == [j \in DOMAIN b.source_pages |-> OcrOf(b.source_pages[j], review)]
<1>1. /\ b.source_pages = Append(pages, seen + 1)
      /\ b.lines = c.lines \o raw.lines
      /\ b.identity_source = c.identity_source
  BY NextPage DEF Absorbed, Placed
<1>2. b.identity_source = "qr"
  BY AbsorbedPlaced
<1>3. raw.lines = OcrOf(seen + 1, review)
  <2>1. raw.lines = OcrOf(seen + 1, FALSE)
    BY DEF AccountInv, AssemblePage
  <2>2. review = FALSE
    BY <1>2
  <2> QED BY <2>1, <2>2
<1>4. /\ n \in Nat \ {0} /\ DOMAIN pages = 1 .. n /\ DOMAIN b.source_pages = 1 .. n + 1
      /\ b.source_pages[n + 1] = seen + 1
      /\ \A j \in 1 .. n : b.source_pages[j] = pages[j]
  <2>1. pages \in Seq(1 .. seen) /\ pages # <<>>
    BY DEF Placed
  <2>2. pages \in Seq(Nat) /\ seen + 1 \in Nat
    BY <2>1, SeqMonotonic DEF PagesInv
  <2> HIDE DEF n, pages
  <2>3. Append(pages, seen + 1) \in Seq(Nat) /\ Len(Append(pages, seen + 1)) = Len(pages) + 1
        /\ Append(pages, seen + 1)[Len(pages) + 1] = seen + 1
        /\ \A j \in 1 .. Len(pages) : Append(pages, seen + 1)[j] = pages[j]
    BY <2>2, AppendProperties
  <2> QED BY <1>1, <2>1, <2>2, <2>3, LenProperties, EmptySeq DEF n
<1> HIDE DEF n, pages, review, raw
<1>5. Len(ss) = n /\ Len(ts) = n + 1
  <2>1. ss = [j \in 1 .. n |-> ss[j]] /\ ts = [j \in 1 .. n + 1 |-> ts[j]]
    BY <1>4
  <2> HIDE DEF ss, ts
  <2>2. Len(ss) = n
    BY <1>4, <2>1, FunctionIsList
  <2>3. Len(ts) = n + 1
    BY <1>4, <2>1, FunctionIsList
  <2> QED BY <2>2, <2>3
<1>6. ts[n + 1] = OcrOf(seen + 1, review) /\ Begin(ss, ts, n)
  BY <1>4 DEF Begin
<1> HIDE DEF ss, ts
<1>7. FlattenSeq(ts) = FlattenSeq(ss) \o OcrOf(seen + 1, review)
  <2>1. Len(ss) \in Nat \ {0} /\ Len(ts) = Len(ss) + 1 /\ Begin(ss, ts, Len(ss))
    BY <1>4, <1>5, <1>6
  <2>2. FlattenSeq(ts) = FlattenSeq(ss) \o ts[Len(ts)]
    BY <2>1, FlattenNext
  <2> QED BY <1>5, <1>6, <2>2
<1>8. FlattenSeq(ts) = LinesOf(b) /\ FlattenSeq(ss) = LinesOf(c)
  BY <1>1 DEF LinesOf, ss, ts, review, pages
<1> QED BY <1>1, <1>3, <1>7, <1>8 DEF pages, raw

\* What assembly takes with a page: a page of a block, or a discarded one.
LEMMA AccountTaken ==
  ASSUME PagesInv, AccountInv, AssemblePage
  PROVE  /\ TakenPages(Evident)' = IF seen + 1 \in Evident
                                   THEN Append(TakenPages(Evident), seen + 1)
                                   ELSE TakenPages(Evident)
         /\ TakenPages(DOMAIN raws \ Evident)'
              = IF seen + 1 \in DOMAIN raws \ Evident
                THEN Append(TakenPages(DOMAIN raws \ Evident), seen + 1)
                ELSE TakenPages(DOMAIN raws \ Evident)
<1>1. seen \in Nat /\ seen' = seen + 1 /\ UNCHANGED <<raws, decoded>>
  BY DEF PagesInv, AssemblePage
<1>2. Evident' = Evident
  BY <1>1, EvidenceStays
<1> DEFINE rest == DOMAIN raws \ Evident
<1>3. /\ TakenPages(Evident)' = Selected(Numbers(seen + 1), Evident)
      /\ TakenPages(DOMAIN raws \ Evident)' = Selected(Numbers(seen + 1), rest)
  BY <1>1, <1>2 DEF TakenPages, Numbers
<1>4. /\ TakenPages(Evident) = Selected(Numbers(seen), Evident)
      /\ TakenPages(rest) = Selected(Numbers(seen), rest)
  BY DEF TakenPages, Numbers
<1> HIDE DEF rest
<1>5. \A S : Selected(Numbers(seen + 1), S)
               = IF seen + 1 \in S THEN Append(Selected(Numbers(seen), S), seen + 1)
                 ELSE Selected(Numbers(seen), S)
  BY <1>1, TakenNext
<1> QED BY <1>3, <1>4, <1>5 DEF rest

LEMMA AccountAssembled ==
  ASSUME PagesInv, BlocksInv, AccountInv, AssemblePage
  PROVE  /\ FlattenSeq(PagesOf(Finished'))
              = IF seen + 1 \in Evident THEN Append(FlattenSeq(PagesOf(Finished)), seen + 1)
                ELSE FlattenSeq(PagesOf(Finished))
         /\ \A b \in Range(Finished') : b.lines = LinesOf(b)
<1> DEFINE page == seen + 1
           raw == raws[page]
<1>1. seen \in Nat /\ page \in Nat /\ stage = "assemble" /\ IsList(blocks)
  BY DEF PagesInv, AssemblePage, BlocksInv
<1>2. page \in Evident <=> page \in DOMAIN raws /\ HasEvidence(raw)
  BY DEF Evident
<1>3. \A b \in Range(Finished) : b.lines = LinesOf(b) /\ Placed(b)
  BY <1>1 DEF AccountInv, BlocksInv
<1>4. IsList(FlattenSeq(PagesOf(Finished)))
  BY <1>1, TakenList DEF AccountInv
<1>5. CASE UNCHANGED <<block, blocks>> /\ page \notin Evident
  <2>1. Finished' = Finished
    BY <1>5 DEF Finished
  <2> QED BY <1>3, <1>5, <2>1
<1>6. CASE page \in DOMAIN raws /\ HasEvidence(raw) /\ blocks' = Finished /\ block' = <<NewBlock(raw)>>
  <2>1. PICK b : b = NewBlock(raw)
    OBVIOUS
  <2>2. IsList(Finished) /\ Finished' = Finished \o <<b>>
    <3>1. CASE block = <<>>
      BY <1>1, <1>6, <2>1, <3>1, NoList DEF Finished
    <3>2. ASSUME NEW c, block = <<c>> PROVE <2>2
      <4>1. Added(blocks, c, Finished)
        BY <1>1, <3>2, AddToList, Zenon DEF Finished
      <4> QED BY <1>6, <2>1, <4>1 DEF Finished, Added
    <3> QED BY <3>1, <3>2 DEF BlocksInv
  <2>3. Added(Finished, b, Finished \o <<b>>)
    BY <2>2, AddToList, Zenon
  <2>4. b.source_pages = <<page>> /\ b.lines = LinesOf(b)
    BY <1>6, <2>1, NewBlockLines
  <2>5. Range(Finished') = Range(Finished) \cup {b}
    BY <2>2, <2>3 DEF Added
  <2>6. FlattenSeq(PagesOf(Finished \o <<b>>)) = Append(FlattenSeq(PagesOf(Finished)), page)
    BY <1>4, <2>2, <2>3, <2>4, PagesOfNewBlock
  <2> QED BY <1>2, <1>3, <1>6, <2>2, <2>4, <2>5, <2>6
<1>7. CASE /\ page \in DOMAIN raws /\ HasEvidence(raw) /\ ~StartsBlock(raw)
           /\ block' = <<Absorbed(raw)>> /\ blocks' = blocks
  <2>1. PICK b : b = Absorbed(raw)
    OBVIOUS
  <2>2. PICK c : block = <<c>>
    BY <1>7 DEF BlocksInv, StartsBlock, Range
  <2>3. Added(blocks, c, blocks \o <<c>>)
    BY <1>1, AddToList, Zenon
  <2>4. Added(blocks, b, blocks \o <<b>>)
    BY <1>1, AddToList, Zenon
  <2>5. Finished = blocks \o <<c>> /\ Finished' = blocks \o <<b>>
    BY <1>7, <2>1, <2>2 DEF Finished
  <2>6. c \in Range(Finished) /\ Range(Finished') \subseteq Range(Finished) \cup {b}
    BY <2>3, <2>4, <2>5 DEF Added
  <2>7. b.source_pages = Append(c.source_pages, page) /\ b.lines = LinesOf(b)
    BY <1>3, <1>7, <2>1, <2>2, <2>6, AbsorbedLines
  <2>8. \A x \in Range(Finished) : x.source_pages \in Seq(Nat)
    <3>1. \A s \in Seq(1 .. seen) : s \in Seq(Nat)
      BY <1>1, SeqMonotonic
    <3> QED BY <1>3, <3>1 DEF Placed
  <2>9. FlattenSeq(PagesOf(blocks \o <<b>>)) = Append(FlattenSeq(PagesOf(blocks \o <<c>>)), page)
    BY <1>1, <2>3, <2>4, <2>5, <2>7, <2>8, PagesOfGrownBlock
  <2> QED BY <1>2, <1>3, <1>7, <2>5, <2>6, <2>7, <2>9
<1> QED BY <1>2, <1>5, <1>6, <1>7 DEF AssemblePage

LEMMA AccountAssemblePage ==
  ASSUME PagesInv, BlocksInv, AccountInv, AssemblePage
  PROVE  AccountInv'
<1> DEFINE page == seen + 1
           raw == raws[page]
           rest == DOMAIN raws \ Evident
<1>1. /\ stage = "assemble" /\ stage' = "assemble" /\ UNCHANGED <<doc, raws, decoded>>
      /\ IsList(discarded)
  BY DEF AssemblePage, AccountInv
<1>2. Evident' = Evident
  BY <1>1, EvidenceStays
<1>3. /\ IsList(discarded')
      /\ [i \in DOMAIN discarded' |-> discarded'[i].page] = TakenPages(rest)'
  <2>1. [i \in DOMAIN discarded |-> discarded[i].page] = TakenPages(rest)
    BY DEF AccountInv
  <2>2. TakenPages(DOMAIN raws \ Evident)'
          = IF page \in rest THEN Append(TakenPages(rest), page) ELSE TakenPages(rest)
    BY AccountTaken
  <2>3. TakenPages(rest)' = TakenPages(DOMAIN raws \ Evident)'
    OBVIOUS
  <2>4. page \in rest <=> page \in DOMAIN raws /\ ~HasEvidence(raw)
    BY DEF Evident
  <2>5. CASE page \in DOMAIN raws /\ ~HasEvidence(raw) /\ discarded' = Append(discarded, raw)
    <3>1. Added(discarded, raw, discarded \o <<raw>>)
      BY <1>1, AddToList, Zenon
    <3>2. discarded' = discarded \o <<raw>>
      BY <1>1, <2>5 DEF IsList
    <3>3. raw.page = page
      BY <2>5, NextPage
    <3>4. [i \in DOMAIN discarded' |-> discarded'[i].page]
            = Append([i \in DOMAIN discarded |-> discarded[i].page], raw.page)
      BY <1>1, <3>1, <3>2, PagesOfDiscarded
    <3>5. IsList(discarded')
      BY <3>1, <3>2 DEF Added
    <3> HIDE DEF rest, page, raw
    <3> QED BY <2>1, <2>2, <2>3, <2>4, <2>5, <3>3, <3>4, <3>5
  <2>6. CASE page \notin rest /\ discarded' = discarded
    <3> HIDE DEF rest, page, raw
    <3> QED BY <1>1, <2>1, <2>2, <2>3, <2>6
  <2> QED BY <2>4, <2>5, <2>6 DEF AssemblePage
<1>4. FlattenSeq(PagesOf(Finished))' = TakenPages(Evident)'
  <2>1. FlattenSeq(PagesOf(Finished')) = FlattenSeq(PagesOf(Finished))'
    BY DEF PagesOf
  <2>2. FlattenSeq(PagesOf(Finished)) = TakenPages(Evident)
    BY DEF AccountInv
  <2> QED BY <2>1, <2>2, AccountTaken, AccountAssembled
<1>5. \A b \in Range(Finished') : b.lines = LinesOf(b)'
  BY <1>1, AccountAssembled, OcrStays
<1>6. \A p \in DOMAIN raws' : raws'[p].lines = OcrOf(p, FALSE)'
  BY <1>1, OcrStays DEF AccountInv
<1>7. Scanned' \subseteq Evident'
  BY <1>1, <1>2, OcrStays DEF AccountInv, Before
<1> QED BY <1>1, <1>3, <1>4, <1>5, <1>6, <1>7 DEF AccountInv, Before

LEMMA AccountApplySunat ==
  ASSUME PagesInv, BlocksInv, AccountInv, ApplySunat
  PROVE  AccountInv'
<1>1. /\ stage = "sunat" /\ stage' = "vision" /\ block = <<>> /\ block' = <<>> /\ IsList(blocks)
      /\ UNCHANGED <<doc, raws, decoded, seen, discarded>>
      /\ blocks' = [i \in DOMAIN blocks |-> Enriched(i)]
  BY DEF ApplySunat, PagesInv, BlocksInv
<1>2. Finished = blocks
  BY <1>1, NoList DEF Finished
<1>3. DOMAIN blocks = 1 .. Len(blocks) /\ Len(blocks) \in Nat
  BY <1>1, ListIsFunction
<1>4. IsList(blocks')
  <2>1. blocks' = [i \in 1 .. Len(blocks) |-> blocks'[i]]
    BY <1>1, <1>3
  <2> QED BY <1>3, <2>1, FunctionIsList
<1>5. Finished' = blocks'
  BY <1>1, <1>4, NoList DEF Finished
<1>6. \A i \in DOMAIN blocks : Enriched(i).source_pages = blocks[i].source_pages
  <2>1. \A i \in DOMAIN blocks : Placed(blocks[i])
    BY <1>2 DEF BlocksInv, Range
  <2> QED BY <2>1, EnrichedPlaced
<1>7. PagesOf(Finished)' = PagesOf(Finished)
  <2>1. PagesOf(blocks') = PagesOf(blocks)
    BY <1>1, <1>6 DEF PagesOf
  <2>2. PagesOf(Finished)' = PagesOf(Finished')
    BY DEF PagesOf
  <2> QED BY <1>2, <1>5, <2>1, <2>2
<1> QED BY <1>1, <1>7, AccountStays DEF Before

LEMMA AccountInvStep ==
  ASSUME PagesInv, PagesInv', BlocksInv, AccountInv, [Next]_vars
  PROVE  AccountInv'
<1>0. /\ stage \in Before => seen = 0 /\ Finished = <<>> /\ raws = <<>> /\ discarded = <<>>
      /\ stage # "assemble" => block = <<>>
  BY NoList DEF PagesInv, AccountInv, Before, Finished
<1>1. CASE Decode \/ Classify \/ ExtractDeclared
  <2>1. /\ stage \in Before /\ stage' \in Before
        /\ UNCHANGED <<doc, raws, seen, discarded, block, blocks>>
    BY <1>1 DEF Decode, Classify, ExtractDeclared, Before, assembly
  <2>2. Scanned' = Scanned
    BY <2>1, OcrStays
  <2>3. stage' \in {"declared", "ocr"} => \A p \in Scanned : kinds'[p] = "GUIA"
    <3>1. CASE Decode
      BY <3>1 DEF Decode
    <3>2. CASE Classify
      <4>1. ASSUME NEW p \in Scanned PROVE kinds'[p] = "GUIA"
        <5>1. decoded[p].identity # None /\ "protocolo" \notin Pages[p].body /\ p \in DOMAIN Pages
          BY <3>2, <4>1 DEF Classify, PagesInv, Scanned
        <5>2. classify(Pages[p].body, Pages[p].title, qr_is_guia(p), Pages[p].dominant) = "GUIA"
          BY <5>1, QrIsGuia DEF qr_is_guia
        <5> QED BY <3>2, <5>1, <5>2 DEF Classify
      <4> QED BY <4>1
    <3>3. CASE ExtractDeclared
      BY <3>3 DEF ExtractDeclared, AccountInv
    <3> QED BY <1>1, <3>1, <3>2, <3>3
  <2> QED BY <1>0, <2>1, <2>2, <2>3, AccountEmpty DEF Finished
<1>2. CASE ExtractOcr
  BY <1>2, AccountExtractOcr
<1>3. CASE AssemblePage
  BY <1>3, AccountAssemblePage
<1>4. CASE FinishAssembly
  <2>1. /\ stage = "assemble" /\ stage' = "sunat" /\ seen = Len(Pages)
        /\ UNCHANGED <<doc, raws, decoded, seen, discarded>>
        /\ blocks' = Finished /\ block' = <<>>
    BY <1>4 DEF FinishAssembly
  <2>2. IsList(Finished)
    <3>1. CASE block = <<>>
      BY <3>1, NoList DEF BlocksInv, Finished
    <3>2. ASSUME NEW b, block = <<b>> PROVE IsList(Finished)
      <4>1. Added(blocks, b, Finished)
        BY <3>2, AddToList, Zenon DEF BlocksInv, Finished
      <4> QED BY <4>1 DEF Added
    <3> QED BY <3>1, <3>2 DEF BlocksInv
  <2>3. Finished' = Finished
    BY <2>1, <2>2, NoList DEF Finished
  <2>4. PagesOf(Finished)' = PagesOf(Finished)
    BY <2>3 DEF PagesOf
  <2> QED BY <2>1, <2>4, AccountStays DEF Before
<1>5. CASE FetchWave
  <2>1. /\ stage = "sunat" /\ stage' = "sunat"
        /\ UNCHANGED <<doc, raws, decoded, seen, discarded, block, blocks>>
    BY <1>5 DEF FetchWave, assembly
  <2>2. PagesOf(Finished)' = PagesOf(Finished)
    BY <2>1 DEF PagesOf, Finished
  <2> QED BY <2>1, <2>2, AccountStays DEF Before
<1>6. CASE ApplySunat
  BY <1>6, AccountApplySunat
<1>7. CASE ReadStamp \/ ReadStampsInBatch \/ NormalizeDates \/ Normalize \/ Reconcile
           \/ WriteCache \/ WriteSidecar \/ AppendAudit
  <2>1. /\ stage \notin Before \cup {"assemble"} /\ stage' \notin Before \cup {"assemble"}
        /\ UNCHANGED <<doc, raws, decoded, seen, discarded, block, blocks>>
    BY <1>7 DEF ReadStamp, ReadStampsInBatch, NormalizeDates, Normalize, Reconcile,
                WriteCache, WriteSidecar, AppendAudit, assembly, locals, Before
  <2>2. PagesOf(Finished)' = PagesOf(Finished)
    BY <2>1 DEF PagesOf, Finished
  <2> QED BY <2>1, <2>2, AccountStays DEF Before
<1>8. CASE Fail
  <2>1. raws' = <<>> /\ discarded' = <<>> /\ seen' = 0 /\ Finished' = <<>> /\ stage' = "failed"
    BY <1>8, NoList DEF Fail, Forget, Finished
  <2> QED BY <2>1, AccountEmpty DEF Before
<1>9. CASE Retry
  <2>1. /\ stage = "failed" /\ stage' = "decode"
        /\ UNCHANGED <<raws, seen, discarded, block, blocks>>
    BY <1>9 DEF Retry, locals, assembly
  <2> QED BY <1>0, <2>1, AccountEmpty DEF Finished, Before
<1>10. CASE UNCHANGED vars
  <2>1. UNCHANGED <<doc, stage, kinds, raws, decoded, seen, discarded, block, blocks>>
    BY <1>10 DEF vars, locals, assembly
  <2>2. Evident' = Evident /\ Scanned' = Scanned /\ Finished' = Finished
    BY <2>1, EvidenceStays, OcrStays DEF Finished
  <2>3. /\ FlattenSeq(PagesOf(Finished))' = TakenPages(Evident)'
        /\ [i \in DOMAIN discarded |-> discarded[i].page]' = TakenPages(DOMAIN raws \ Evident)'
    BY <2>1, <2>2 DEF AccountInv, TakenPages, PagesOf
  <2>4. /\ \A p : OcrOf(p, FALSE)' = OcrOf(p, FALSE)
        /\ \A b : LinesOf(b)' = LinesOf(b)
    BY <2>1, OcrStays
  <2>5. /\ stage' = "assemble" => \A p \in DOMAIN raws' : raws'[p].lines = OcrOf(p, FALSE)'
        /\ stage' = "assemble" => \A b \in Range(Finished') : b.lines = LinesOf(b)'
    BY <2>1, <2>2, <2>4 DEF AccountInv
  <2>6. stage' \notin Before \cup {"assemble"} => seen' = Len(Pages')
    BY <2>1 DEF AccountInv, Pages
  <2> QED BY <2>1, <2>2, <2>3, <2>5, <2>6 DEF AccountInv
<1> QED
  BY <1>1, <1>2, <1>3, <1>4, <1>5, <1>6, <1>7, <1>8, <1>9, <1>10 DEF Next

LEMMA AccountInvInit ==
  Init => AccountInv
<1> SUFFICES ASSUME Init PROVE AccountInv
  OBVIOUS
<1>1. /\ raws = <<>> /\ discarded = <<>> /\ seen = 0 /\ Finished = <<>> /\ stage = "decode"
  BY NoList DEF Init, Fresh, Finished
<1> QED BY <1>1, NothingTaken, NoList DEF AccountInv, Before

\* What a list of blocks has taken is in one of them.
LEMMA PageInBlock ==
  ASSUME PagesInv, BlocksInv, AccountInv, stage # "assemble",
         NEW p \in Evident, p \in 1 .. seen
  PROVE  \E i \in DOMAIN blocks : p \in Range(blocks[i].source_pages)
<1>1. Finished = blocks /\ IsList(blocks) /\ DOMAIN blocks = 1 .. Len(blocks) /\ seen \in Nat
  BY NoList, ListIsFunction DEF PagesInv, BlocksInv, Finished
<1>2. p \in Range(FlattenSeq(PagesOf(blocks)))
  BY <1>1, TakenList DEF AccountInv
<1>3. IsList(PagesOf(blocks)) /\ Len(PagesOf(blocks)) = Len(blocks)
      /\ \A i \in 1 .. Len(blocks) : PagesOf(blocks)[i] = blocks[i].source_pages
  BY <1>1, PagesOfList
<1>4. \A i \in 1 .. Len(blocks) : blocks[i].source_pages \in Seq(Nat)
  <2>1. \A i \in 1 .. Len(blocks) : Placed(blocks[i])
    BY <1>1 DEF BlocksInv, Range
  <2>2. \A s \in Seq(1 .. seen) : s \in Seq(Nat)
    BY <1>1, SeqMonotonic
  <2> QED BY <2>1, <2>2 DEF Placed
<1>5. \E i \in 1 .. Len(blocks) : p \in Range(PagesOf(blocks)[i])
  <2>1. \A i \in 1 .. Len(PagesOf(blocks)) : PagesOf(blocks)[i] \in Seq(Nat)
    BY <1>3, <1>4
  <2> QED BY <1>2, <1>3, <2>1, FlattenMembers
<1> QED BY <1>1, <1>3, <1>5

LEMMA AccountInvSuffices ==
  ASSUME PagesInv, BlocksInv, CapInv, AccountInv
  PROVE  PagesAccounted
<1>1. FlattenSeq([i \in DOMAIN Finished |-> Finished[i].source_pages]) = TakenPages(Evident)
  BY DEF AccountInv, PagesOf
<1>2. [i \in DOMAIN discarded |-> discarded[i].page] = TakenPages(DOMAIN raws \ Evident)
  BY DEF AccountInv
<1>3. stage = "assemble" =>
        \A b \in Range(Finished) :
          b.lines = FlattenSeq([j \in DOMAIN b.source_pages |->
                      [k \in DOMAIN Pages[b.source_pages[j]].ocr |->
                         Line(Pages[b.source_pages[j]].ocr[k],
                              b.identity_source = "ocr_fallback")]])
  BY DEF AccountInv, LinesOf, OcrOf
<1>4. ASSUME stage = "done", NEW p \in DOMAIN Pages, Pages[p].qr # None,
             "protocolo" \notin Pages[p].body
      PROVE  \E i \in DOMAIN guias : p \in Range(guias[i].source_pages)
  <2>1. p \in Evident /\ seen = Len(Pages)
    BY <1>4 DEF AccountInv, Before, Scanned
  <2>2. p \in 1 .. seen
    <3>1. Pages \in Seq(Range(Pages))
      BY AdapterAssumption DEF PagesInv, Pages
    <3> QED BY <1>4, <2>1, <3>1, LenProperties
  <2>3. PICK i \in DOMAIN blocks : p \in Range(blocks[i].source_pages)
    BY <1>4, <2>1, <2>2, PageInBlock
  <2>4. /\ DOMAIN guias = 1 .. Len(guias) /\ DOMAIN blocks = 1 .. Len(blocks)
        /\ Len(guias) = Len(blocks) /\ guias[i].source_pages = blocks[i].source_pages
    BY <1>4, <2>3, ListIsFunction DEF CapInv, Read, BlocksInv, After
  <2> QED BY <2>3, <2>4
<1> QED BY <1>1, <1>2, <1>3, <1>4 DEF PagesAccounted

(* In every document and however often a run fails, each guía page is in one
   block, once, in its order and with its lines, or in the list of discarded
   pages; and in the end each page whose compact QR was read is in a guía unless
   it is a Protocolo. *)
THEOREM PagesAlwaysAccounted == Spec => []PagesAccounted
<1> DEFINE Inv == PagesInv /\ BlocksInv /\ CapInv /\ AccountInv
<1>1. Init => Inv
  BY BlocksInvInit, CapInvInit, AccountInvInit
<1>2. Inv /\ [Next]_vars => Inv'
  <2>1. BlocksInv => IsList(blocks)
    BY DEF BlocksInv
  <2>2. BlocksInv' => IsList(blocks')
    BY DEF BlocksInv
  <2> QED
    BY <2>1, <2>2, PagesInvStep, BlocksInvStep, CapInvStep, AccountInvStep
<1>3. Inv => PagesAccounted
  BY AccountInvSuffices
<1> QED BY <1>1, <1>2, <1>3, PTL DEF Spec
-----------------------------------------------------------------------------
(* Lines of a unit and a quantity, at every stage. *)

LEMMA LinesByIndex ==
  ASSUME NEW n \in Nat, NEW f, f = [j \in 1 .. n |-> f[j]], \A j \in 1 .. n : IsLine(f[j])
  PROVE  IsLines(f)
<1>1. IsList(f)
  BY FunctionIsList
<1>2. DOMAIN f = 1 .. n
  OBVIOUS
<1>3. \A line \in Range(f) : IsLine(line)
  BY <1>2 DEF Range
<1> QED BY <1>1, <1>3 DEF IsLines, IsList

LEMMA LineAt ==
  ASSUME NEW s, IsLines(s)
  PROVE  /\ IsList(s) /\ Len(s) \in Nat /\ DOMAIN s = 1 .. Len(s)
         /\ \A j \in 1 .. Len(s) : IsLine(s[j])
<1>1. IsList(s)
  BY DEF IsLines, IsList
<1>2. Len(s) \in Nat /\ DOMAIN s = 1 .. Len(s)
  BY <1>1, ListIsFunction
<1> QED BY <1>1, <1>2 DEF IsLines, Range

LEMMA LinesJoined ==
  ASSUME NEW s, IsLines(s), NEW t, IsLines(t)
  PROVE  IsLines(s \o t)
<1> DEFINE X == Range(s) \cup Range(t)
           u == s \o t
<1>1. s \in Seq(X) /\ t \in Seq(X) /\ \A x \in X : IsLine(x)
  BY SeqMonotonic DEF IsLines
<1> HIDE DEF X
<1>2. u \in Seq(X)
  BY <1>1, ConcatProperties
<1> HIDE DEF u
<1>3. Range(u) \subseteq X
  BY <1>2, RangeOfSeq
<1>4. u \in Seq(Range(u))
  <2>1. Len(u) \in Nat /\ DOMAIN u = 1 .. Len(u) /\ u = [i \in 1 .. Len(u) |-> u[i]]
    BY <1>2, LenProperties, SeqDef
  <2> QED BY <2>1, FunctionIsList DEF IsList
<1> QED BY <1>1, <1>3, <1>4 DEF IsLines, u

LEMMA LineKept ==
  \A read, review : IsLine(read) => IsLine(Line(read, review))
BY DEF Line, IsLine, IsItem

LEMMA LinesMarked ==
  ASSUME NEW s, IsLines(s), NEW review, NEW t, t = [j \in DOMAIN s |-> Line(s[j], review)]
  PROVE  IsLines(t)
<1>1. Len(s) \in Nat /\ DOMAIN s = 1 .. Len(s) /\ \A j \in 1 .. Len(s) : IsLine(s[j])
  BY LineAt
<1>2. t = [j \in 1 .. Len(s) |-> t[j]]
  BY <1>1
<1>3. \A j \in 1 .. Len(s) : IsLine(t[j])
  BY <1>1, LineKept
<1> QED BY <1>1, <1>2, <1>3, LinesByIndex

LEMMA OfficialLinesKept ==
  ASSUME NEW official \in SunatAnswers, NEW b
  PROVE  IsLines(OfficialLines(official, b))
<1> DEFINE known == Known(official.items)
           t == OfficialLines(official, b)
<1>1. IsList(official.items) /\ \A item \in Range(official.items) : IsItem(item)
  BY AdapterAssumption DEF IsList
<1>2. /\ IsList(known)
      /\ \A item \in Range(known) : IsItem(item) /\ item.unidad \in DOMAIN UnitMap
  <2> DEFINE S == {item \in Range(official.items) : item.unidad \in DOMAIN UnitMap}
  <2>1. IsList(Selected(official.items, S))
        /\ Range(Selected(official.items, S)) = Range(official.items) \cap S
    BY <1>1, SelectedMembers
  <2> QED BY <1>1, <2>1 DEF Known
<1>3. t = [j \in DOMAIN known |->
             Line([known[j] EXCEPT !.unidad = UnitMap[@]], b.identity_source = "ocr_fallback")]
  BY DEF OfficialLines
<1> HIDE DEF known, t
<1>4. DOMAIN known = 1 .. Len(known) /\ Len(known) \in Nat
  BY <1>2, ListIsFunction
<1>5. \A j \in 1 .. Len(known) : IsItem(known[j]) /\ known[j].unidad \in DOMAIN UnitMap
  BY <1>2, <1>4 DEF Range
<1>6. \A u \in DOMAIN UnitMap : UnitMap[u] \in Unit
  BY DEF Unit, Range
<1>7. ASSUME NEW item, IsItem(item), NEW u \in Unit
      PROVE  IsLine([item EXCEPT !.unidad = u])
  BY <1>7 DEF IsItem, IsLine
<1>8. \A j \in 1 .. Len(known) : IsLine(t[j])
  <2> SUFFICES ASSUME NEW j \in 1 .. Len(known) PROVE IsLine(t[j])
    OBVIOUS
  <2>1. PICK u \in Unit : u = UnitMap[known[j].unidad]
    BY <1>5, <1>6
  <2>2. t[j] = Line([known[j] EXCEPT !.unidad = u], b.identity_source = "ocr_fallback")
    BY <1>3, <1>4, <2>1
  <2> QED BY <1>5, <1>7, <2>2, LineKept
<1>9. t = [j \in 1 .. Len(known) |-> t[j]]
  BY <1>3, <1>4
<1> QED BY <1>4, <1>8, <1>9, LinesByIndex DEF t

LEMMA NormalizedLinesKept ==
  ASSUME NEW s, IsLines(s), NEW side, NEW i, NEW answered, NEW t,
         t = [j \in DOMAIN s |-> Normalized(s[j], <<side, i, j>> \in answered)]
  PROVE  IsLines(t)
<1>1. Len(s) \in Nat /\ DOMAIN s = 1 .. Len(s) /\ \A j \in 1 .. Len(s) : IsLine(s[j])
  BY LineAt
<1>2. ASSUME NEW line, IsLine(line), NEW b PROVE IsLine(Normalized(line, b))
  BY <1>2 DEF Normalized, IsLine, IsItem
<1>3. t = [j \in 1 .. Len(s) |-> t[j]] /\ \A j \in 1 .. Len(s) : IsLine(t[j])
  BY <1>1, <1>2
<1> QED BY <1>1, <1>3, LinesByIndex

(* Every line, of a registro, a block or a guía, has a quantity and a unit. *)
LinesInv ==
  /\ IsList(declared) /\ \A i \in DOMAIN declared : IsRegistro(declared[i])
  /\ \A b \in Range(blocks) \cup Range(block) : IsLines(b.lines)
  /\ \A i \in DOMAIN guias : IsLines(guias[i].lines)

LEMMA PageSays ==
  ASSUME PagesInv
  PROVE  /\ IsList(Pages) /\ Len(Pages) \in Nat /\ DOMAIN Pages = 1 .. Len(Pages)
         /\ \A p \in DOMAIN Pages :
              /\ Pages[p].url \in Url \cup {None} /\ IsLines(Pages[p].ocr)
              /\ Pages[p].form # None => IsRegistro(Pages[p].form)
<1>1. IsList(Pages) /\ \A page \in Range(Pages) :
        /\ page.url \in Url \cup {None} /\ IsLines(page.ocr)
        /\ page.form # None => IsRegistro(page.form)
  BY AdapterAssumption DEF PagesInv, Pages, IsList
<1>2. Len(Pages) \in Nat /\ DOMAIN Pages = 1 .. Len(Pages)
  BY <1>1, ListIsFunction
<1> QED BY <1>1, <1>2 DEF Range

LEMMA MaxIn ==
  ASSUME NEW n \in Nat, NEW S, S # {}, S \subseteq 1 .. n
  PROVE  Max(S) \in S /\ \A x \in S : x <= Max(S)
<1>1. S \subseteq Nat /\ \A x \in S : x <= n
  OBVIOUS
<1>2. \E greatest \in S : \A x \in S : x <= greatest
  BY <1>1, GreatestOf
<1> QED BY <1>2 DEF Max

LEMMA MinIn ==
  ASSUME NEW n \in Nat, NEW S, S # {}, S \subseteq 1 .. n
  PROVE  Min(S) \in S /\ \A x \in S : Min(S) <= x
<1>1. S \subseteq Nat
  OBVIOUS
<1>2. \E least \in S : \A x \in S : least <= x
  BY <1>1, LeastOf
<1> QED BY <1>2 DEF Min

LEMMA LinesExtractDeclared ==
  ASSUME PagesInv, ExtractDeclared
  PROVE  IsList(declared') /\ \A i \in DOMAIN declared' : IsRegistro(declared'[i])
<1> DEFINE first == {p \in DeclaredPages :
                       \A q \in DeclaredPages :
                         Pages[q].form.numero = Pages[p].form.numero => p <= q}
           numbers == [p \in DOMAIN Pages |-> p]
           order == Selected(numbers, first)
<1>1. declared' = [i \in DOMAIN order |-> CanonicalForm(Pages[order[i]].form.numero)]
  BY DEF ExtractDeclared
<1>2. IsList(numbers)
  <2>1. numbers = Numbers(Len(Pages))
    BY PageSays DEF Numbers
  <2> QED BY <2>1, PageSays, NumbersList
<1>3. IsList(order) /\ Range(order) \subseteq first
  <2> HIDE DEF numbers, first
  <2> QED BY <1>2, SelectedMembers
<1>4. \A p \in first : p \in DeclaredPages
  OBVIOUS
<1> HIDE DEF order, first
<1>5. DOMAIN order = 1 .. Len(order) /\ Len(order) \in Nat
  BY <1>3, ListIsFunction
<1>6. ASSUME NEW p \in DeclaredPages PROVE IsRegistro(CanonicalForm(Pages[p].form.numero))
  <2> DEFINE numero == Pages[p].form.numero
             ofNumero == {q \in DeclaredPages : Pages[q].form.numero = numero}
             protocolos == {q \in ofNumero : "protocolo" \in Pages[q].body}
             those == IF protocolos # {} THEN protocolos ELSE ofNumero
  <2>1. those # {} /\ those \subseteq DeclaredPages
    OBVIOUS
  <2>2. DeclaredPages \subseteq 1 .. Len(Pages)
    BY PageSays DEF DeclaredPages
  <2>3. CanonicalForm(numero) = Pages[Max(those)].form
    BY DEF CanonicalForm
  <2> HIDE DEF those
  <2>4. Max(those) \in DeclaredPages
    BY <2>1, <2>2, PageSays, MaxIn
  <2> QED BY <2>3, <2>4, PageSays DEF DeclaredPages
<1>7. \A i \in DOMAIN order : order[i] \in DeclaredPages
  BY <1>3, <1>4 DEF Range
<1>8. declared' = [i \in 1 .. Len(order) |-> declared'[i]]
  BY <1>1, <1>5
<1>9. IsList(declared')
  BY <1>5, <1>8, FunctionIsList
<1> QED BY <1>1, <1>6, <1>7, <1>9

LEMMA LinesNormalized ==
  ASSUME NEW docs, IsList(docs), NEW side, NEW answered, NEW i \in DOMAIN docs,
         "lines" \in DOMAIN docs[i], IsLines(docs[i].lines),
         NEW new, new = NormalizedLines(side, docs, answered)
  PROVE  /\ IsList(new) /\ Len(new) = Len(docs) /\ IsLines(new[i].lines)
         /\ DOMAIN new[i] = DOMAIN docs[i]
         /\ \A field \in DOMAIN docs[i] \ {"lines"} : new[i][field] = docs[i][field]
<1> DEFINE lines == [j \in DOMAIN docs[i].lines |->
                       Normalized(docs[i].lines[j], <<side, i, j>> \in answered)]
<1>1. DOMAIN docs = 1 .. Len(docs) /\ Len(docs) \in Nat
  BY ListIsFunction
<1>2. new = [k \in 1 .. Len(docs) |-> new[k]]
  BY <1>1 DEF NormalizedLines
<1>3. IsList(new) /\ Len(new) = Len(docs)
  BY <1>1, <1>2, FunctionIsList
<1>4. new[i] = [docs[i] EXCEPT !.lines = lines]
  BY DEF NormalizedLines
<1>5. IsLines(lines)
  BY NormalizedLinesKept
<1> HIDE DEF lines
<1> QED BY <1>3, <1>4, <1>5

LEMMA LinesNormalize ==
  ASSUME CapInv, FlagInv, LinesInv, Normalize
  PROVE  LinesInv'
<1>1. PICK answered : /\ declared' = NormalizedLines(1, declared, answered)
                      /\ guias' = NormalizedLines(2, guias, answered)
  BY DEF Normalize
<1>2. UNCHANGED <<blocks, block>>
  BY DEF Normalize, assembly
<1>3. IsList(declared') /\ DOMAIN declared' = DOMAIN declared
  <2>1. declared' = [i \in 1 .. Len(declared) |-> declared'[i]] /\ Len(declared) \in Nat
        /\ DOMAIN declared = 1 .. Len(declared)
    BY <1>1, ListIsFunction DEF NormalizedLines, LinesInv
  <2> QED BY <2>1, FunctionIsList
<1>4. ASSUME NEW i \in DOMAIN declared PROVE IsRegistro(declared'[i])
  <2>1. IsRegistro(declared[i]) /\ IsList(declared)
    BY DEF LinesInv
  <2>2. /\ IsLines(declared'[i].lines) /\ DOMAIN declared'[i] = DOMAIN declared[i]
        /\ \A field \in DOMAIN declared[i] \ {"lines"} : declared'[i][field] = declared[i][field]
    BY <1>1, <2>1, LinesNormalized DEF IsRegistro
  <2> QED BY <2>1, <2>2 DEF IsRegistro
<1>5. DOMAIN guias' = DOMAIN guias
  BY <1>1 DEF NormalizedLines
<1>6. ASSUME NEW i \in DOMAIN guias PROVE IsLines(guias'[i].lines)
  <2>1. IsList(guias) /\ "lines" \in DOMAIN guias[i] /\ IsLines(guias[i].lines)
    BY DEF LinesInv, FlagInv, CapInv, Read, GuiaFields
  <2> QED BY <1>1, <2>1, LinesNormalized
<1> QED BY <1>2, <1>3, <1>4, <1>5, <1>6 DEF LinesInv

LEMMA LinesAssemblePage ==
  ASSUME PagesInv, BlocksInv, AccountInv, LinesInv, AssemblePage
  PROVE  LinesInv'
<1> DEFINE raw == raws[seen + 1]
<1>1. UNCHANGED <<declared, guias>> /\ stage = "assemble"
  BY DEF AssemblePage
<1>2. ASSUME seen + 1 \in DOMAIN raws PROVE IsLines(raw.lines)
  <2>1. raw.lines = OcrOf(seen + 1, FALSE) /\ IsLines(Pages[seen + 1].ocr)
    BY <1>1, <1>2, PageSays DEF AccountInv, PagesInv
  <2> DEFINE s == Pages[seen + 1].ocr
             t == [j \in DOMAIN s |-> Line(s[j], FALSE)]
  <2>2. raw.lines = t
    BY <2>1 DEF OcrOf
  <2>3. IsLines(t)
    BY <2>1, LinesMarked
  <2> QED BY <2>2, <2>3
<1>3. Range(Finished) = Range(blocks) \cup Range(block)
  BY FinishedRange DEF BlocksInv
<1>4. \A b \in Range(blocks') \cup Range(block') : IsLines(b.lines)
  <2>1. CASE UNCHANGED <<block, blocks>>
    BY <2>1 DEF LinesInv
  <2>2. CASE /\ seen + 1 \in DOMAIN raws
             /\ blocks' = Finished /\ block' = <<NewBlock(raw)>>
    <3>1. PICK b : b = NewBlock(raw)
      OBVIOUS
    <3>2. b.lines = [j \in DOMAIN raw.lines |-> Line(raw.lines[j], IsFallbackMaterial(raw))]
      BY <3>1 DEF NewBlock
    <3>3. IsLines(b.lines)
      BY <1>2, <2>2, <3>2, LinesMarked
    <3>4. Range(block') = {b}
      BY <2>2, <3>1 DEF Range
    <3> QED BY <1>3, <2>2, <3>3, <3>4 DEF LinesInv
  <2>3. CASE /\ seen + 1 \in DOMAIN raws /\ ~StartsBlock(raw)
             /\ block' = <<Absorbed(raw)>> /\ UNCHANGED blocks
    <3>1. PICK b : b = Absorbed(raw)
      OBVIOUS
    <3>2. PICK c : block = <<c>>
      BY <2>3 DEF BlocksInv, StartsBlock, Range
    <3>3. Range(block) = {c} /\ Range(block') = {b}
      BY <2>3, <3>1, <3>2 DEF Range
    <3>4. DOMAIN c = {"guia_id", "identity_source", "registro", "source_pages", "url", "lines"}
          /\ IsLines(c.lines)
      BY <1>3, <3>3 DEF BlocksInv, Placed, LinesInv
    <3>5. b.lines = c.lines \o raw.lines
      BY <3>1, <3>2, <3>4 DEF Absorbed
    <3>6. IsLines(b.lines)
      BY <1>2, <2>3, <3>4, <3>5, LinesJoined
    <3> QED BY <2>3, <3>3, <3>6 DEF LinesInv
  <2> QED BY <2>1, <2>2, <2>3 DEF AssemblePage
<1> QED BY <1>1, <1>4 DEF LinesInv

LEMMA LinesApplySunat ==
  ASSUME BlocksInv, DateInv, LinesInv, ApplySunat
  PROVE  LinesInv'
<1>1. /\ UNCHANGED <<declared, guias, block>>
      /\ blocks' = [i \in DOMAIN blocks |-> Enriched(i)]
  BY DEF ApplySunat
<1>2. ASSUME NEW i \in DOMAIN blocks PROVE IsLines(Enriched(i).lines)
  <2> DEFINE b == blocks[i]
             official == OfficialLines(answers[b.url], b)
  <2>1. Placed(b) /\ IsLines(b.lines)
    BY FinishedRange DEF LinesInv, BlocksInv, Range
  <2>2. CASE Enriched(i) = b
    BY <2>1, <2>2
  <2>3. CASE b.url \in Answered /\ Enriched(i) = [b EXCEPT !.lines = official]
    <3>1. answers[b.url] \in SunatAnswers
      BY <2>3 DEF Answered, DateInv
    <3>2. IsLines(official)
      BY <3>1, OfficialLinesKept
    <3> HIDE DEF official
    <3>3. Enriched(i).lines = official
      BY <2>1, <2>3 DEF Placed
    <3> QED BY <3>2, <3>3
  <2> QED BY <2>2, <2>3 DEF Enriched
<1>3. \A b \in Range(blocks') : IsLines(b.lines)
  BY <1>1, <1>2 DEF Range
<1> QED BY <1>1, <1>3 DEF LinesInv

LEMMA LinesRead ==
  ASSUME BlocksInv, CapInv, LinesInv, ReadStamp \/ ReadStampsInBatch
  PROVE  LinesInv'
<1>1. UNCHANGED <<declared, blocks, block>>
  BY DEF ReadStamp, ReadStampsInBatch, assembly
<1>2. \A i \in DOMAIN blocks : IsLines(blocks[i].lines)
  BY DEF LinesInv, Range
<1>3. DOMAIN blocks = 1 .. Len(blocks) /\ Len(blocks) \in Nat
  BY ListIsFunction DEF BlocksInv
<1>4. \A b, reading : Guia(b, reading).lines = b.lines
  BY DEF Guia
<1>5. \A i \in DOMAIN guias' : IsLines(guias'[i].lines)
  <2>1. CASE ReadStamp
    <3> DEFINE n == Len(guias) + 1
    <3>1. PICK reading : guias' = Append(guias, Guia(blocks[n], reading))
      BY <2>1 DEF ReadStamp
    <3>2. PICK g : g = Guia(blocks[n], reading)
      OBVIOUS
    <3>3. Len(guias) \in Nat /\ n \in DOMAIN blocks
      BY <1>3, <2>1, ListIsFunction DEF ReadStamp, CapInv, Read
    <3>4. IsLines(g.lines)
      BY <1>2, <1>4, <3>2, <3>3
    <3>5. Added(guias, g, guias \o <<g>>)
      BY AddToList, Zenon DEF CapInv, Read
    <3>6. guias' = guias \o <<g>>
      BY <3>1, <3>2 DEF CapInv, Read, IsList
    <3>7. DOMAIN guias' = 1 .. Len(guias) + 1 /\ DOMAIN guias = 1 .. Len(guias)
      BY <3>5, <3>6, ListIsFunction DEF Added, CapInv, Read
    <3> QED BY <3>3, <3>4, <3>5, <3>6, <3>7 DEF Added, LinesInv
  <2>2. CASE ReadStampsInBatch
    <3>1. DOMAIN guias' = DOMAIN blocks
          /\ \A i \in DOMAIN blocks : \E reading : guias'[i] = Guia(blocks[i], reading)
      BY <2>2 DEF ReadStampsInBatch
    <3> QED BY <1>2, <1>4, <3>1
  <2> QED BY <2>1, <2>2
<1> QED BY <1>1, <1>5 DEF LinesInv

LEMMA LinesInvStep ==
  ASSUME PagesInv, BlocksInv, CapInv, DateInv, FlagInv, AccountInv, LinesInv, [Next]_vars
  PROVE  LinesInv'
<1>1. CASE Decode \/ Classify \/ ExtractOcr
  BY <1>1 DEF Decode, Classify, ExtractOcr, LinesInv, assembly
<1>2. CASE ExtractDeclared
  <2>1. UNCHANGED <<blocks, block, guias>>
    BY <1>2 DEF ExtractDeclared, assembly
  <2> QED BY <1>2, <2>1, LinesExtractDeclared DEF LinesInv
<1>3. CASE AssemblePage
  BY <1>3, LinesAssemblePage
<1>4. CASE FinishAssembly
  <2>1. blocks' = Finished /\ block' = <<>> /\ UNCHANGED <<declared, guias>>
    BY <1>4 DEF FinishAssembly
  <2>2. Range(Finished) = Range(blocks) \cup Range(block) /\ Range(<<>>) = {}
    BY FinishedRange, NoList DEF BlocksInv
  <2> QED BY <2>1, <2>2 DEF LinesInv
<1>5. CASE FetchWave
  BY <1>5 DEF FetchWave, LinesInv, assembly
<1>6. CASE ApplySunat
  BY <1>6, LinesApplySunat
<1>7. CASE ReadStamp \/ ReadStampsInBatch
  BY <1>7, LinesRead
<1>8. CASE NormalizeDates
  <2>1. /\ UNCHANGED <<declared, blocks, block>>
        /\ guias' = [i \in DOMAIN guias |-> Dated(guias[i])]
    BY <1>8 DEF NormalizeDates, assembly
  <2>2. \A g : "lines" \in DOMAIN g => Dated(g).lines = g.lines
    BY DEF Dated
  <2>3. \A i \in DOMAIN guias : "lines" \in DOMAIN guias[i]
    BY DEF FlagInv, GuiaFields
  <2> QED BY <2>1, <2>2, <2>3 DEF LinesInv
<1>9. CASE Normalize
  BY <1>9, LinesNormalize
<1>10. CASE Reconcile
  BY <1>10 DEF Reconcile, LinesInv, assembly
<1>11. CASE WriteCache \/ WriteSidecar \/ AppendAudit
  BY <1>11 DEF WriteCache, WriteSidecar, AppendAudit, LinesInv, assembly, locals
<1>12. CASE Fail
  BY <1>12, NoList DEF Fail, Forget, LinesInv
<1>13. CASE Retry
  BY <1>13 DEF Retry, LinesInv, assembly, locals
<1>14. CASE UNCHANGED vars
  BY <1>14 DEF vars, LinesInv, assembly, locals
<1> QED
  BY <1>1, <1>2, <1>3, <1>4, <1>5, <1>6, <1>7, <1>8, <1>9, <1>10, <1>11, <1>12, <1>13, <1>14
  DEF Next

LEMMA LinesInvInit ==
  Init => LinesInv
BY NoList DEF Init, Fresh, LinesInv

-----------------------------------------------------------------------------
(* Types. *)

(* What the types rest on: the URLs of the blocks are of the pages, SUNAT's answers
   are kept as they came, and there are no rows before the last stages. *)
TypeInv ==
  /\ Range(kinds) \subseteq Kind
  /\ seen <= Len(Pages)
  /\ stage \in {"classify", "declared", "ocr", "assemble"} =>
       \A p \in DOMAIN Pages : decoded[p].hashqr_url = Pages[p].url
  /\ \A b \in Range(blocks) \cup Range(block) : b.url \in Url \cup {None}
  /\ wave_size \in 1 .. Concurrency
  /\ sunat_cache \in [Url -> Pdf]
  /\ \A id \in DOMAIN sunat_map : sunat_map[id] \in SunatAnswers
  /\ stage \notin Persisting => rows = <<>>
  /\ failures \in 0 .. MaxFailures

LEMMA ClassifiedKind ==
  \A body, title, qr, dominant : classify(body, title, qr, dominant) \in Kind
<1>1. ASSUME NEW n \in Nat, NEW rules, DOMAIN rules = 1 .. n, NEW signals,
             \A i \in 1 .. n : rules[i].kind \in Kind
      PROVE  FirstMatch(rules, signals) \in Kind
  <2> DEFINE matching == {i \in DOMAIN rules : rules[i].signal \in signals}
             i == CHOOSE i \in matching : \A j \in matching : i <= j
  <2>1. FirstMatch(rules, signals) = IF matching = {} THEN "UNCLASSIFIED" ELSE rules[i].kind
    BY DEF FirstMatch
  <2>2. matching \subseteq 1 .. n /\ matching \subseteq Nat
    BY <1>1
  <2> HIDE DEF matching
  <2>3. ASSUME matching # {} PROVE i \in matching
    <3>1. \E least \in matching : \A x \in matching : least <= x
      BY <2>2, <2>3, LeastOf
    <3> QED BY <3>1
  <2> HIDE DEF i
  <2> QED BY <1>1, <2>1, <2>2, <2>3 DEF Kind
<1>2. DOMAIN TextRules = 1 .. 10 /\ \A i \in 1 .. 10 : TextRules[i].kind \in Kind
  BY DEF TextRules, Rule, Kind
<1>3. DOMAIN ScanRules = 1 .. 6 /\ \A i \in 1 .. 6 : ScanRules[i].kind \in Kind
  BY DEF ScanRules, Rule, Kind
<1>4. ASSUME NEW signals
      PROVE  FirstMatch(TextRules, signals) \in Kind /\ FirstMatch(ScanRules, signals) \in Kind
  BY <1>1, <1>2, <1>3
<1> QED BY <1>4 DEF classify

LEMMA TypeAssemblePage ==
  ASSUME PagesInv, BlocksInv, TypeInv, AssemblePage
  PROVE  TypeInv'
<1> DEFINE raw == raws[seen + 1]
<1>1. /\ stage = "assemble" /\ seen < Len(Pages) /\ seen' = seen + 1
      /\ UNCHANGED <<doc, stage, kinds, decoded, wave_size, sunat_cache, sunat_map, rows, failures>>
  BY DEF AssemblePage, sunat, files
<1>2. ASSUME seen + 1 \in DOMAIN raws PROVE HashqrUrl(raw) \in Url \cup {None}
  BY <1>1, <1>2, NextPage, PageSays DEF TypeInv, HashqrUrl
<1>3. Range(Finished) = Range(blocks) \cup Range(block)
  BY FinishedRange DEF BlocksInv
<1>4. \A b \in Range(blocks') \cup Range(block') : b.url \in Url \cup {None}
  <2>1. CASE UNCHANGED <<block, blocks>>
    BY <2>1 DEF TypeInv
  <2>2. CASE /\ seen + 1 \in DOMAIN raws
             /\ blocks' = Finished /\ block' = <<NewBlock(raw)>>
    <3>1. PICK b : b = NewBlock(raw)
      OBVIOUS
    <3>2. b.url = HashqrUrl(raw) /\ Range(block') = {b}
      BY <2>2, <3>1 DEF NewBlock, Range
    <3> QED BY <1>2, <1>3, <2>2, <3>2 DEF TypeInv
  <2>3. CASE /\ seen + 1 \in DOMAIN raws /\ ~StartsBlock(raw)
             /\ block' = <<Absorbed(raw)>> /\ UNCHANGED blocks
    <3>1. PICK b : b = Absorbed(raw)
      OBVIOUS
    <3>2. PICK c : block = <<c>>
      BY <2>3 DEF BlocksInv, StartsBlock, Range
    <3>3. Range(block) = {c} /\ Range(block') = {b}
      BY <2>3, <3>1, <3>2 DEF Range
    <3>4. DOMAIN c = {"guia_id", "identity_source", "registro", "source_pages", "url", "lines"}
          /\ c.url \in Url \cup {None}
      BY <1>3, <3>3 DEF BlocksInv, Placed, TypeInv
    <3>5. b.url = IF c.url = None THEN HashqrUrl(raw) ELSE c.url
      BY <3>1, <3>2, <3>4 DEF Absorbed
    <3>6. b.url \in Url \cup {None}
      BY <1>2, <2>3, <3>4, <3>5
    <3> QED BY <2>3, <3>3, <3>6 DEF TypeInv
  <2> QED BY <2>1, <2>2, <2>3 DEF AssemblePage
<1>5. seen' <= Len(Pages')
  BY <1>1, PageSays DEF PagesInv, Pages
<1> QED BY <1>1, <1>4, <1>5 DEF TypeInv, Pages

LEMMA TypeFetchWave ==
  ASSUME TypeInv, FetchWave
  PROVE  wave_size' \in 1 .. Concurrency /\ sunat_cache' \in [Url -> Pdf]
<1>1. PICK wave \in SUBSET pending : \E pdf \in [wave -> Pdf] :
        /\ sunat_cache' = [u \in Url |-> IF u \in wave THEN pdf[u] ELSE sunat_cache[u]]
        /\ wave_size' \in {wave_size, Max({1, wave_size - 1})}
  BY DEF FetchWave
<1>2. sunat_cache' \in [Url -> Pdf]
  BY <1>1 DEF TypeInv
<1>3. Max({1, wave_size - 1}) \in 1 .. Concurrency
  <2>1. wave_size \in Int /\ wave_size >= 1 /\ wave_size <= Concurrency
    BY FetchAssumption DEF TypeInv
  <2>2. CASE wave_size - 1 <= 1
    <3>1. Max({1, wave_size - 1}) = 1
      BY <2>1, <2>2 DEF Max
    <3> QED BY <2>1, <3>1, FetchAssumption
  <2>3. CASE wave_size - 1 > 1
    <3>1. Max({1, wave_size - 1}) = wave_size - 1
      BY <2>1, <2>3 DEF Max
    <3> QED BY <2>1, <2>3, <3>1, FetchAssumption
  <2> QED BY <2>1, <2>2, <2>3
<1> QED BY <1>1, <1>2, <1>3 DEF TypeInv

LEMMA TypeInvStep ==
  ASSUME PagesInv, BlocksInv, DateInv, TypeInv, [Next]_vars
  PROVE  TypeInv'
<1>1. CASE Decode
  <2>1. \A p \in DOMAIN Pages : decoded'[p].hashqr_url = Pages[p].url
    BY <1>1 DEF Decode
  <2> QED BY <1>1, <2>1 DEF Decode, TypeInv, Pages, Persisting, assembly, sunat, files
<1>2. CASE Classify
  <2>1. Range(kinds') \subseteq Kind
    BY <1>2, ClassifiedKind DEF Classify, Range
  <2> QED BY <1>2, <2>1 DEF Classify, TypeInv, Pages, Persisting, assembly, sunat, files
<1>3. CASE ExtractDeclared \/ ExtractOcr
  BY <1>3 DEF ExtractDeclared, ExtractOcr, TypeInv, Pages, Persisting, assembly, sunat, files
<1>4. CASE AssemblePage
  BY <1>4, TypeAssemblePage
<1>5. CASE FinishAssembly
  <2>1. Range(Finished) = Range(blocks) \cup Range(block) /\ Range(<<>>) = {}
    BY FinishedRange, NoList DEF BlocksInv
  <2> QED BY <1>5, <2>1 DEF FinishAssembly, TypeInv, Pages, Persisting, files
<1>6. CASE FetchWave
  <2>1. UNCHANGED <<doc, stage, decoded, kinds, seen, block, blocks, sunat_map, rows, failures>>
        /\ stage = "sunat"
    BY <1>6 DEF FetchWave, assembly
  <2> QED BY <1>6, <2>1, TypeFetchWave DEF TypeInv, Pages
<1>7. CASE ApplySunat
  <2>1. /\ UNCHANGED <<doc, kinds, seen, block, wave_size, rows, sunat_cache, failures>>
        /\ stage = "sunat" /\ stage' = "vision"
        /\ blocks' = [i \in DOMAIN blocks |-> Enriched(i)]
        /\ sunat_map' = [id \in {blocks[Owner(u)].guia_id : u \in Answered} |->
                           answers[LastAnswered(id)]]
    BY <1>7 DEF ApplySunat, files
  <2>2. \A id \in DOMAIN sunat_map' : sunat_map'[id] \in SunatAnswers
    <3>1. \A u \in Answered : answers[u] \in SunatAnswers
      BY DEF DateInv, Answered
    <3>2. IsList(blocks)
      BY DEF BlocksInv
    <3> QED BY <2>1, <3>1, <3>2, LastAnsweredIsAnswered
  <2>3. ASSUME NEW i \in DOMAIN blocks PROVE Enriched(i).url \in Url \cup {None}
    <3> DEFINE b == blocks[i]
    <3>1. Placed(b) /\ b.url \in Url \cup {None}
      BY FinishedRange DEF TypeInv, BlocksInv, Range
    <3>2. Enriched(i) = b \/ \E lines : Enriched(i) = [b EXCEPT !.lines = lines]
      BY DEF Enriched
    <3> QED BY <3>1, <3>2 DEF Placed
  <2>4. \A b \in Range(blocks') \cup Range(block') : b.url \in Url \cup {None}
    BY <2>1, <2>3 DEF Range, TypeInv
  <2> QED BY <2>1, <2>2, <2>4 DEF TypeInv, Pages, Persisting
<1>8. CASE ReadStamp \/ ReadStampsInBatch \/ NormalizeDates \/ Normalize
  BY <1>8 DEF ReadStamp, ReadStampsInBatch, NormalizeDates, Normalize, TypeInv, Pages,
              Persisting, assembly, sunat, files
<1>9. CASE Reconcile \/ WriteCache \/ WriteSidecar \/ AppendAudit
  BY <1>9 DEF Reconcile, WriteCache, WriteSidecar, AppendAudit, TypeInv, Pages,
              Persisting, assembly, sunat, files, locals
<1>10. CASE Fail
  <2>1. failures' \in 0 .. MaxFailures
    BY <1>10, FetchAssumption DEF Fail, TypeInv
  <2>2. Concurrency \in 1 .. Concurrency
    BY FetchAssumption
  <2>3. 0 <= Len(Pages)
    BY PageSays
  <2> QED BY <1>10, <2>1, <2>2, <2>3, NoList
          DEF Fail, Forget, TypeInv, Pages, Persisting, files, NoAnswers
<1>11. CASE Retry
  BY <1>11 DEF Retry, TypeInv, Pages, Persisting, assembly, sunat, locals
<1>12. CASE UNCHANGED vars
  BY <1>12 DEF vars, TypeInv, Pages, assembly, sunat, files, locals
<1> QED
  BY <1>1, <1>2, <1>3, <1>4, <1>5, <1>6, <1>7, <1>8, <1>9, <1>10, <1>11, <1>12 DEF Next

LEMMA TypeInvInit ==
  Init => TypeInv
<1> SUFFICES ASSUME Init PROVE TypeInv
  OBVIOUS
<1>1. PagesInv
  BY BlocksInvInit
<1>2. 0 <= Len(Pages) /\ Concurrency \in 1 .. Concurrency /\ 0 \in 0 .. MaxFailures
  BY <1>1, PageSays, FetchAssumption
<1>3. sunat_cache \in [Url -> Pdf]
  BY DEF Init, NoAnswers, Pdf
<1> QED BY <1>2, <1>3, NoList DEF Init, Fresh, TypeInv, Persisting


LEMMA RecoveredKeeps ==
  ASSUME NEW docs, NEW g, GuiaFields \subseteq DOMAIN g, IsLines(g.lines),
         NEW h, h = Recovered(docs, g)
  PROVE  /\ h.registro = g.registro /\ h.guia_id = g.guia_id
         /\ DOMAIN h.lines = DOMAIN g.lines /\ IsLines(h.lines)
         /\ \A j \in DOMAIN g.lines : /\ h.lines[j].unidad = g.lines[j].unidad
                                      /\ h.lines[j].cantidad = g.lines[j].cantidad
<1> DEFINE lines == [j \in DOMAIN g.lines |-> Adopted(docs, g.registro, g.lines[j])]
<1>1. CASE g.registro = None
  BY <1>1 DEF Recovered
<1>2. CASE g.registro # None
  <2>1. h = [g EXCEPT !.lines = lines]
    BY <1>2 DEF Recovered
  <2>2. ASSUME NEW line, IsLine(line)
        PROVE  LET a == Adopted(docs, g.registro, line)
               IN IsLine(a) /\ a.unidad = line.unidad /\ a.cantidad = line.cantidad
    BY <2>2 DEF Adopted, IsLine, IsItem
  <2>3. /\ Len(g.lines) \in Nat /\ DOMAIN g.lines = 1 .. Len(g.lines)
        /\ \A j \in DOMAIN g.lines : IsLine(g.lines[j])
    BY LineAt
  <2>4. \A j \in DOMAIN g.lines :
          /\ IsLine(lines[j]) /\ lines[j].unidad = g.lines[j].unidad
          /\ lines[j].cantidad = g.lines[j].cantidad
    BY <2>2, <2>3
  <2>5. lines = [j \in 1 .. Len(g.lines) |-> lines[j]] /\ DOMAIN lines = DOMAIN g.lines
    BY <2>3
  <2> HIDE DEF lines
  <2>6. IsLines(lines)
    BY <2>3, <2>4, <2>5, LinesByIndex
  <2>7. h.lines = lines /\ h.registro = g.registro /\ h.guia_id = g.guia_id
    BY <2>1 DEF GuiaFields
  <2> QED BY <2>4, <2>5, <2>6, <2>7
<1> QED BY <1>1, <1>2

\* The guías as reconcile() counts them.
Counted == [i \in DOMAIN guias |-> Recovered(declared, guias[i])]

LEMMA CountedLines ==
  ASSUME CapInv, FlagInv, LinesInv
  PROVE  /\ IsList(Counted) /\ DOMAIN Counted = DOMAIN guias
         /\ \A i \in DOMAIN guias :
              /\ Counted[i].registro = guias[i].registro
              /\ Counted[i].guia_id = guias[i].guia_id
              /\ DOMAIN Counted[i].lines = DOMAIN guias[i].lines
              /\ IsLines(Counted[i].lines)
              /\ \A j \in DOMAIN guias[i].lines :
                   /\ Counted[i].lines[j].unidad = guias[i].lines[j].unidad
                   /\ Counted[i].lines[j].cantidad = guias[i].lines[j].cantidad
<1>1. DOMAIN guias = 1 .. Len(guias) /\ Len(guias) \in Nat
  BY ListIsFunction DEF CapInv, Read
<1>2. Counted = [i \in 1 .. Len(guias) |-> Counted[i]] /\ DOMAIN Counted = DOMAIN guias
  BY <1>1 DEF Counted
<1>3. IsList(Counted)
  BY <1>1, <1>2, FunctionIsList
<1>4. ASSUME NEW i \in DOMAIN guias
      PROVE  /\ Counted[i] = Recovered(declared, guias[i])
             /\ GuiaFields \subseteq DOMAIN guias[i] /\ IsLines(guias[i].lines)
  BY DEF Counted, FlagInv, LinesInv
<1>5. ASSUME NEW i \in DOMAIN guias, NEW h, h = Counted[i]
      PROVE  /\ h.registro = guias[i].registro /\ h.guia_id = guias[i].guia_id
             /\ DOMAIN h.lines = DOMAIN guias[i].lines /\ IsLines(h.lines)
             /\ \A j \in DOMAIN guias[i].lines :
                  /\ h.lines[j].unidad = guias[i].lines[j].unidad
                  /\ h.lines[j].cantidad = guias[i].lines[j].cantidad
  <2> DEFINE g == guias[i]
  <2>1. h = Recovered(declared, g) /\ GuiaFields \subseteq DOMAIN g /\ IsLines(g.lines)
    BY <1>4, <1>5
  <2> HIDE DEF g
  <2>2. /\ h.registro = g.registro /\ h.guia_id = g.guia_id
        /\ DOMAIN h.lines = DOMAIN g.lines /\ IsLines(h.lines)
        /\ \A j \in DOMAIN g.lines : /\ h.lines[j].unidad = g.lines[j].unidad
                                     /\ h.lines[j].cantidad = g.lines[j].cantidad
    BY <2>1, RecoveredKeeps
  <2> QED BY <2>2 DEF g
<1> QED BY <1>2, <1>3, <1>5

LEMMA RowKeys ==
  ASSUME CapInv, FlagInv, LinesInv, stage \in Persisting, NEW key \in DOMAIN rows
  PROVE  key[1] # None /\ key[3] \in Unit
<1>1. key \in Keys(declared, Counted)
  BY DEF FlagInv, reconcile, Counted
<1>2. ASSUME NEW numero, NEW lines, IsLines(lines), NEW line \in Range(lines), numero # None,
             key = Key(numero, line)
      PROVE  key[1] # None /\ key[3] \in Unit
  BY <1>2 DEF Key, IsLines, IsLine
<1>3. CASE \E r \in Range(declared) : \E line \in Range(r.lines) : key = Key(r.numero, line)
  <2>1. \A r \in Range(declared) : r.numero # None /\ IsLines(r.lines)
    BY DEF LinesInv, IsRegistro, Range
  <2> QED BY <1>2, <1>3, <2>1
<1>4. CASE \E g \in Range(Counted) :
             g.registro # None /\ \E line \in Range(g.lines) : key = Key(g.registro, line)
  <2>1. \A g \in Range(Counted) : IsLines(g.lines)
    BY CountedLines DEF Range
  <2> QED BY <1>2, <1>4, <2>1
<1>5. \/ \E r \in Range(declared) : \E line \in Range(r.lines) : key = Key(r.numero, line)
      \/ \E g \in Range(Counted) :
           g.registro # None /\ \E line \in Range(g.lines) : key = Key(g.registro, line)
  BY <1>1 DEF Keys
<1> QED BY <1>3, <1>4, <1>5

LEMMA TypeInvSuffices ==
  ASSUME PagesInv, BlocksInv, CapInv, DateInv, FlagInv, LinesInv, TypeInv
  PROVE  TypeOK
<1>1. seen \in 0 .. Len(Pages)
  BY PageSays DEF PagesInv, TypeInv
<1>2. Len(block) <= 1
  <2>1. Len(<<>>) = 0 /\ \A b : Len(<<b>>) = 1
    BY EmptySeq
  <2>2. Len(block) = 0 \/ Len(block) = 1
    BY <2>1, Zenon DEF BlocksInv
  <2>3. ASSUME NEW n, n = 0 \/ n = 1 PROVE n <= 1
    BY <2>3
  <2> QED BY <2>2, <2>3
<1>3. \A b \in Range(Finished) : IsBlock(b)
  <2>1. Range(Finished) = Range(blocks) \cup Range(block)
    BY FinishedRange DEF BlocksInv
  <2>2. ASSUME NEW b \in Range(Finished) PROVE IsBlock(b)
    BY <2>1, <2>2 DEF BlocksInv, TypeInv, Placed, IsBlock
  <2> QED BY <2>2
<1>4. Range(sunat_map) \subseteq SunatAnswers
  BY DEF TypeInv, Range
<1>5. Len(guias) <= Len(blocks) /\ calls \in 0 .. Len(guias)
  BY DEF CapInv, Read
<1>6. \A key \in DOMAIN rows : key[1] # None /\ key[3] \in Unit
  <2>1. CASE stage \in Persisting
    BY <2>1, RowKeys
  <2>2. CASE stage \notin Persisting
    <3>1. rows = <<>> /\ DOMAIN <<>> = {}
      BY <2>2 DEF TypeInv
    <3> QED BY <3>1
  <2> QED BY <2>1, <2>2
<1> QED BY <1>1, <1>2, <1>3, <1>4, <1>5, <1>6 DEF TypeOK, PagesInv, DateInv, TypeInv

\* Together inductive: what is known of a run at every stage.
RunInv ==
  /\ PagesInv /\ BlocksInv /\ CapInv /\ DateInv /\ FlagInv
  /\ AccountInv /\ LinesInv /\ TypeInv

LEMMA RunInvInit ==
  Init => RunInv
<1>1. Init => DateInv
  BY DEF Init, Fresh, NoAnswers, DateInv, After
<1>2. Init => FlagInv
  BY NoList DEF Init, Fresh, FlagInv, After, Persisting
<1> QED
  BY <1>1, <1>2, BlocksInvInit, CapInvInit, AccountInvInit, LinesInvInit, TypeInvInit DEF RunInv

LEMMA RunInvStep ==
  RunInv /\ [Next]_vars => RunInv'
<1>1. BlocksInv => IsList(blocks)
  BY DEF BlocksInv
<1>2. BlocksInv' => IsList(blocks')
  BY DEF BlocksInv
<1> QED
  BY <1>1, <1>2, PagesInvStep, BlocksInvStep, CapInvStep, DateInvStep, FlagInvStep,
     AccountInvStep, LinesInvStep, TypeInvStep DEF RunInv

(* In every document and however often a run fails: whatever the adapters answer,
   each page is of a kind, each block of pages of the document, each answer of SUNAT
   to a URL of it, and each row of a registro and in a unit of the domain. *)
THEOREM TypeIsAlwaysOK == Spec => []TypeOK
<1>1. RunInv => TypeOK
  BY TypeInvSuffices DEF RunInv
<1> QED BY <1>1, RunInvInit, RunInvStep, PTL DEF Spec

-----------------------------------------------------------------------------
(* Quantities. *)

AllEntries(docs) == UNION {{i} \X DOMAIN docs[i].lines : i \in DOMAIN docs}
LineOf(docs, e) == docs[e[1]].lines[e[2]]
HaveLines(docs) == IsList(docs) /\ \A i \in DOMAIN docs : IsLines(docs[i].lines)
Weights(docs) == [e \in AllEntries(docs) |-> LineOf(docs, e).cantidad]

LEMMA ImageFinite ==
  ASSUME NEW S, IsFiniteSet(S), NEW f
  PROVE  IsFiniteSet({f[x] : x \in S})
<1> DEFINE T == {f[x] : x \in S}
           g == [x \in S |-> f[x]]
<1>1. g \in Surjection(S, T)
  BY DEF Surjection
<1> HIDE DEF T, g
<1>2. IsFiniteSet(T)
  BY <1>1, FS_Surjection
<1> QED BY <1>2 DEF T

LEMMA ListFinite ==
  ASSUME NEW s, IsList(s)
  PROVE  IsFiniteSet(DOMAIN s)
BY ListIsFunction, FS_Interval

LEMMA EntriesAt ==
  ASSUME NEW docs, HaveLines(docs)
  PROVE  /\ IsFiniteSet(AllEntries(docs))
         /\ \A e \in AllEntries(docs) :
              /\ e[1] \in DOMAIN docs /\ e[2] \in DOMAIN docs[e[1]].lines
              /\ IsLine(LineOf(docs, e)) /\ Weights(docs)[e] = LineOf(docs, e).cantidad
              /\ Weights(docs)[e] \in Int
<1> DEFINE f == [i \in DOMAIN docs |-> {i} \X DOMAIN docs[i].lines]
           parts == {f[i] : i \in DOMAIN docs}
<1>1. IsFiniteSet(DOMAIN docs)
  BY ListFinite DEF HaveLines
<1>2. IsFiniteSet(parts)
  <2> HIDE DEF f
  <2> QED BY <1>1, ImageFinite
<1>3. \A i \in DOMAIN docs : IsFiniteSet(f[i])
  <2> SUFFICES ASSUME NEW i \in DOMAIN docs PROVE IsFiniteSet(f[i])
    OBVIOUS
  <2>1. IsFiniteSet({i}) /\ IsFiniteSet(DOMAIN docs[i].lines)
    BY FS_Singleton, ListFinite, LineAt DEF HaveLines
  <2> QED BY <2>1, FS_Product
<1>4. AllEntries(docs) = UNION parts
  BY DEF AllEntries
<1>5. IsFiniteSet(AllEntries(docs))
  <2>1. \A T \in parts : IsFiniteSet(T)
    BY <1>3
  <2> HIDE DEF parts
  <2> QED BY <1>2, <1>4, <2>1, FS_UNION
<1>6. ASSUME NEW e \in AllEntries(docs)
      PROVE  /\ e[1] \in DOMAIN docs /\ e[2] \in DOMAIN docs[e[1]].lines
             /\ IsLine(LineOf(docs, e)) /\ Weights(docs)[e] = LineOf(docs, e).cantidad
             /\ Weights(docs)[e] \in Int
  <2>1. e[1] \in DOMAIN docs /\ e[2] \in DOMAIN docs[e[1]].lines
    BY DEF AllEntries
  <2>2. IsLine(docs[e[1]].lines[e[2]])
    <3>1. IsLines(docs[e[1]].lines)
      BY <2>1 DEF HaveLines
    <3> QED BY <2>1, <3>1 DEF IsLines, Range
  <2> QED BY <2>1, <2>2 DEF LineOf, Weights, IsLine, IsItem
<1> QED BY <1>5, <1>6

LEMMA QuantitySum ==
  ASSUME NEW docs, HaveLines(docs), NEW E \in SUBSET AllEntries(docs)
  PROVE  /\ IsFiniteSet(E) /\ Quantity(docs, E) = SumFunctionOnSet(Weights(docs), E)
         /\ Quantity(docs, E) \in Int
<1> DEFINE f == [e \in E |-> docs[e[1]].lines[e[2]].cantidad]
           w == Weights(docs)
<1>1. IsFiniteSet(E) /\ \A e \in E : w[e] \in Int
  BY EntriesAt, FS_Subset
<1>2. \A e \in E : f[e] = w[e]
  BY EntriesAt DEF LineOf
<1>3. Quantity(docs, E) = SumFunctionOnSet(f, E)
  BY DEF Quantity, SumFunction
<1> HIDE DEF f, w
<1>4. SumFunctionOnSet(f, E) = SumFunctionOnSet(w, E) /\ SumFunctionOnSet(w, E) \in Int
  BY <1>1, <1>2, SumSame, SumIsInt
<1> QED BY <1>1, <1>3, <1>4 DEF w

(* The keys own are those of numero and unidad, and sum has for each of them what
   the lines of docs with that key state. *)
OwnSums(docs, numeros, numero, unidad, own, sum) ==
  /\ IsFiniteSet(own)
  /\ \A e \in AllEntries(docs) :
       Key(numeros[e[1]], LineOf(docs, e)) \in own
         <=> numeros[e[1]] = numero /\ LineOf(docs, e).unidad = unidad
  /\ \A key \in own :
       sum[key] = Quantity(docs, {e \in AllEntries(docs) :
                                    Key(numeros[e[1]], LineOf(docs, e)) = key})

LEMMA TotalByKey ==
  ASSUME NEW docs, HaveLines(docs), NEW numeros, NEW numero, NEW unidad, NEW own, NEW sum,
         OwnSums(docs, numeros, numero, unidad, own, sum)
  PROVE  SumFunctionOnSet(sum, own) = Total(docs, numeros, numero, unidad)
         /\ Total(docs, numeros, numero, unidad) \in Int
<1> DEFINE E == AllEntries(docs)
           w == Weights(docs)
           k == [e \in E |-> Key(numeros[e[1]], LineOf(docs, e))]
           those == {e \in E : k[e] \in own}
<1>0. /\ IsFiniteSet(own)
      /\ \A e \in E : k[e] \in own
                       <=> numeros[e[1]] = numero /\ LineOf(docs, e).unidad = unidad
      /\ \A key \in own :
           sum[key] = Quantity(docs, {e \in E : Key(numeros[e[1]], LineOf(docs, e)) = key})
  BY DEF OwnSums
<1>1. IsFiniteSet(E) /\ \A e \in E : w[e] \in Int
  BY EntriesAt
<1>2. ASSUME NEW key \in own
      PROVE  sum[key] = SumFunctionOnSet(w, {e \in E : k[e] = key})
  <2> DEFINE ofKey == {e \in E : Key(numeros[e[1]], LineOf(docs, e)) = key}
  <2>1. ofKey = {e \in E : k[e] = key}
    OBVIOUS
  <2>2. sum[key] = Quantity(docs, ofKey)
    BY <1>0
  <2>3. ofKey \in SUBSET AllEntries(docs)
    OBVIOUS
  <2> HIDE DEF ofKey, k
  <2>4. Quantity(docs, ofKey) = SumFunctionOnSet(w, ofKey)
    BY <2>3, QuantitySum
  <2> QED BY <2>1, <2>2, <2>4
<1>3. those = {e \in E : numeros[e[1]] = numero /\ LineOf(docs, e).unidad = unidad}
  BY <1>0
<1>4. those \in SUBSET AllEntries(docs)
  OBVIOUS
<1>5. Total(docs, numeros, numero, unidad) = Quantity(docs, those)
  <2>1. Total(docs, numeros, numero, unidad)
          = Quantity(docs, {e \in E : numeros[e[1]] = numero /\ LineOf(docs, e).unidad = unidad})
    BY DEF Total, AllEntries, LineOf
  <2> QED BY <1>3, <2>1
<1>6. SumFunctionOnSet(sum, own) = SumFunctionOnSet(w, those)
  <2> HIDE DEF E, w, k
  <2>1. \A key \in own : sum[key] = SumFunctionOnSet(w, {e \in E : k[e] = key})
    BY <1>2
  <2>2. Classed(E, w, k, own, sum)
    BY <1>0, <1>1, <2>1 DEF Classed
  <2> QED BY <2>2, SumByClass
<1> HIDE DEF those
<1>7. Quantity(docs, those) = SumFunctionOnSet(w, those) /\ Quantity(docs, those) \in Int
  BY <1>4, QuantitySum
<1> QED BY <1>5, <1>6, <1>7

(* The guías of a row have the quantity of its entries: each name is one guía of
   the row, with the entries of all guías of that name. *)
LEMMA ContributionsSum ==
  ASSUME NEW docs, HaveLines(docs), NEW E \in SUBSET AllEntries(docs), NEW ceiling,
         NEW contributions,
         contributions = {Contribution(docs, E, i, ceiling) : i \in Contributing(docs, E)}
  PROVE  SumFunction([c \in contributions |-> c.cantidad]) = Quantity(docs, E)
<1> DEFINE C == Contributing(docs, E)
           NameOf(e) == docs[e[1]].guia_id
           w == Weights(docs)
           k == [e \in E |-> CHOOSE c \in contributions : c.guia_id = NameOf(e)]
           sum == [c \in contributions |-> c.cantidad]
<1>1. /\ IsFiniteSet(E) /\ DOMAIN docs \subseteq Nat
      /\ \A e \in E : e[1] \in DOMAIN docs /\ w[e] \in Int
  <2>1. DOMAIN docs \subseteq Nat
    BY ListIsFunction DEF HaveLines
  <2>2. IsFiniteSet(E) /\ \A e \in E : e[1] \in DOMAIN docs /\ w[e] \in Int
    BY EntriesAt, FS_Subset
  <2> QED BY <2>1, <2>2
<1>2. \A i \in C : /\ i \in {e[1] : e \in E}
                   /\ \A e \in E : NameOf(e) = docs[i].guia_id => i <= e[1]
  BY DEF Contributing
<1>3. ASSUME NEW e \in E PROVE \E i \in C : docs[i].guia_id = NameOf(e)
  <2> DEFINE same == {d \in E : NameOf(d) = NameOf(e)}
             S == {d[1] : d \in same}
  <2>1. S \subseteq Nat /\ S # {}
    BY <1>1
  <2>2. PICK i \in S : \A x \in S : i <= x
    <3> HIDE DEF S
    <3> QED BY <2>1, LeastOf
  <2>3. PICK d \in same : i = d[1]
    BY <2>2
  <2>4. docs[i].guia_id = NameOf(e) /\ i \in {c[1] : c \in E}
    BY <2>3
  <2>5. \A c \in E : NameOf(c) = docs[i].guia_id => i <= c[1]
    BY <2>2, <2>4
  <2> QED BY <2>4, <2>5 DEF Contributing
<1>4. ASSUME NEW i \in C, NEW j \in C, docs[i].guia_id = docs[j].guia_id PROVE i = j
  <2>1. PICK d \in E : i = d[1]
    BY <1>2
  <2>2. PICK e \in E : j = e[1]
    BY <1>2
  <2>3. i <= j /\ j <= i /\ i \in Nat /\ j \in Nat
    BY <1>1, <1>2, <1>4, <2>1, <2>2
  <2> QED BY <2>3
<1>5. \A i \in C : LET c == Contribution(docs, E, i, ceiling)
                   IN c.guia_id = docs[i].guia_id /\ c.cantidad = Quantity(docs, OwnEntries(docs, E, i))
  BY DEF Contribution
<1>6. IsFiniteSet(contributions)
  <2> DEFINE first == [e \in E |-> e[1]]
             made == [i \in C |-> Contribution(docs, E, i, ceiling)]
  <2>1. C \subseteq {first[e] : e \in E}
    BY <1>2
  <2>2. IsFiniteSet({first[e] : e \in E})
    <3> HIDE DEF first
    <3> QED BY <1>1, ImageFinite
  <2>3. IsFiniteSet(C)
    BY <2>1, <2>2, FS_Subset
  <2>4. contributions = {made[i] : i \in C}
    OBVIOUS
  <2> HIDE DEF made, C
  <2> QED BY <2>3, <2>4, ImageFinite
<1> HIDE DEF C
<1>7. ASSUME NEW c \in contributions, NEW d \in contributions, c.guia_id = d.guia_id
      PROVE  c = d
  <2>1. PICK i \in C : c = Contribution(docs, E, i, ceiling)
    BY DEF C
  <2>2. PICK j \in C : d = Contribution(docs, E, j, ceiling)
    BY DEF C
  <2>3. i = j
    BY <1>4, <1>5, <1>7, <2>1, <2>2
  <2> QED BY <2>1, <2>2, <2>3
<1>8. ASSUME NEW e \in E PROVE k[e] \in contributions /\ k[e].guia_id = NameOf(e)
  <2>1. PICK i \in C : docs[i].guia_id = NameOf(e)
    BY <1>3
  <2>2. PICK c \in contributions : c.guia_id = NameOf(e)
    <3>1. Contribution(docs, E, i, ceiling) \in contributions
      BY DEF C
    <3> QED BY <1>5, <2>1, <3>1
  <2> QED BY <2>2
<1> HIDE DEF k
<1>9. ASSUME NEW c \in contributions
      PROVE  sum[c] = SumFunctionOnSet(w, {e \in E : k[e] = c})
  <2>1. PICK i \in C : c = Contribution(docs, E, i, ceiling)
    BY DEF C
  <2> DEFINE own == OwnEntries(docs, E, i)
  <2>2. own = {e \in E : NameOf(e) = c.guia_id}
    BY <1>5, <2>1 DEF OwnEntries
  <2>3. own = {e \in E : k[e] = c}
    BY <1>7, <1>8, <2>2
  <2>4. sum[c] = Quantity(docs, own)
    BY <1>5, <2>1
  <2>5. own \in SUBSET AllEntries(docs)
    BY <2>2
  <2> HIDE DEF own
  <2>6. Quantity(docs, own) = SumFunctionOnSet(w, own)
    BY <2>5, QuantitySum
  <2> QED BY <2>3, <2>4, <2>6
<1>10. SumFunction(sum) = SumFunctionOnSet(sum, contributions)
  BY DEF SumFunction
<1> HIDE DEF w, sum
<1>11. SumFunctionOnSet(sum, contributions) = SumFunctionOnSet(w, {e \in E : k[e] \in contributions})
  <2>1. \A c \in contributions : sum[c] = SumFunctionOnSet(w, {e \in E : k[e] = c})
    BY <1>9
  <2>2. Classed(E, w, k, contributions, sum)
    BY <1>1, <1>6, <2>1 DEF Classed
  <2> QED BY <2>2, SumByClass
<1>12. {e \in E : k[e] \in contributions} = E
  BY <1>8
<1>13. Quantity(docs, E) = SumFunctionOnSet(w, E)
  BY QuantitySum DEF w
<1> QED BY <1>10, <1>11, <1>12, <1>13 DEF sum

LEMMA RowQuantities ==
  ASSUME CapInv, FlagInv, LinesInv, stage \in Persisting, NEW key \in DOMAIN rows
  PROVE  /\ HaveLines(Counted) /\ HaveLines(declared)
         /\ SumFunction([c \in rows[key].guias |-> c.cantidad])
              = Quantity(Counted, GuiaEntries(Counted, key))
         /\ rows[key].declared_qty = Quantity(declared, DeclaredEntries(declared, key))
         /\ rows[key].delta = Quantity(Counted, GuiaEntries(Counted, key))
                              - Quantity(declared, DeclaredEntries(declared, key))
<1> DEFINE E == GuiaEntries(Counted, key)
           ceiling == AuthoritativeFecha(declared, key[1])
           contributions == {Contribution(Counted, E, i, ceiling) : i \in Contributing(Counted, E)}
           received == SumFunction([c \in contributions |-> c.cantidad])
<1>1. HaveLines(Counted) /\ HaveLines(declared)
  BY CountedLines DEF HaveLines, LinesInv, IsRegistro
<1>2. rows[key] = Row(declared, Counted, key)
  BY DEF FlagInv, reconcile, Counted
<1>3. /\ rows[key].guias = contributions
      /\ rows[key].declared_qty = Quantity(declared, DeclaredEntries(declared, key))
      /\ rows[key].delta = received - Quantity(declared, DeclaredEntries(declared, key))
  BY <1>2 DEF Row
<1>4. E \in SUBSET AllEntries(Counted)
  BY DEF GuiaEntries, AllEntries
<1> HIDE DEF E, ceiling
<1>5. received = Quantity(Counted, E)
  BY <1>1, <1>4, ContributionsSum
<1> HIDE DEF contributions
<1> QED BY <1>1, <1>3, <1>5 DEF E

\* The keys of the rows are those of the entries.
LEMMA EntryKeys ==
  ASSUME NEW docs, NEW gs
  PROVE  /\ \A e \in AllEntries(docs) : Key(docs[e[1]].numero, LineOf(docs, e)) \in Keys(docs, gs)
         /\ \A e \in AllEntries(gs) :
              gs[e[1]].registro # None => Key(gs[e[1]].registro, LineOf(gs, e)) \in Keys(docs, gs)
<1>1. ASSUME NEW e \in AllEntries(docs)
      PROVE  Key(docs[e[1]].numero, LineOf(docs, e)) \in Keys(docs, gs)
  <2> DEFINE ofDocs == UNION {{Key(r.numero, line) : line \in Range(r.lines)} : r \in Range(docs)}
  <2>1. docs[e[1]] \in Range(docs) /\ LineOf(docs, e) \in Range(docs[e[1]].lines)
    BY DEF AllEntries, LineOf, Range
  <2>2. ofDocs \subseteq Keys(docs, gs)
    BY DEF Keys
  <2>3. Key(docs[e[1]].numero, LineOf(docs, e)) \in ofDocs
    BY <2>1
  <2> QED BY <2>2, <2>3
<1>2. ASSUME NEW e \in AllEntries(gs), gs[e[1]].registro # None
      PROVE  Key(gs[e[1]].registro, LineOf(gs, e)) \in Keys(docs, gs)
  <2> DEFINE known == {g \in Range(gs) : g.registro # None}
             ofKnown == UNION {{Key(g.registro, line) : line \in Range(g.lines)} : g \in known}
  <2>1. gs[e[1]] \in Range(gs) /\ LineOf(gs, e) \in Range(gs[e[1]].lines)
    BY DEF AllEntries, LineOf, Range
  <2>2. gs[e[1]] \in known
    BY <1>2, <2>1
  <2>3. ofKnown \subseteq Keys(docs, gs)
    BY DEF Keys
  <2> HIDE DEF known
  <2>4. Key(gs[e[1]].registro, LineOf(gs, e)) \in ofKnown
    BY <2>1, <2>2
  <2> QED BY <2>3, <2>4
<1> QED BY <1>1, <1>2

LEMMA KeysFinite ==
  ASSUME NEW docs, HaveLines(docs), NEW gs, HaveLines(gs)
  PROVE  IsFiniteSet(Keys(docs, gs))
<1> DEFINE f == [e \in AllEntries(docs) |-> Key(docs[e[1]].numero, LineOf(docs, e))]
           g == [e \in AllEntries(gs) |-> Key(gs[e[1]].registro, LineOf(gs, e))]
           declaredKeys == {f[e] : e \in AllEntries(docs)}
           receivedKeys == {g[e] : e \in AllEntries(gs)}
<1>1. IsFiniteSet(declaredKeys) /\ IsFiniteSet(receivedKeys)
  <2>1. IsFiniteSet(AllEntries(docs)) /\ IsFiniteSet(AllEntries(gs))
    BY EntriesAt
  <2> HIDE DEF f, g
  <2> QED BY <2>1, ImageFinite
<1>2. ASSUME NEW key \in Keys(docs, gs) PROVE key \in declaredKeys \cup receivedKeys
  <2>1. ASSUME NEW r \in Range(docs), NEW line \in Range(r.lines), key = Key(r.numero, line)
        PROVE  key \in declaredKeys
    <3>1. PICK i \in DOMAIN docs : r = docs[i]
      BY DEF Range
    <3>2. PICK j \in DOMAIN r.lines : line = r.lines[j]
      BY DEF Range
    <3>3. <<i, j>> \in AllEntries(docs)
      BY <3>1, <3>2 DEF AllEntries
    <3>4. f[<<i, j>>] = key
      BY <2>1, <3>1, <3>2, <3>3 DEF LineOf
    <3> QED BY <3>3, <3>4
  <2>2. ASSUME NEW r \in Range(gs), NEW line \in Range(r.lines), key = Key(r.registro, line)
        PROVE  key \in receivedKeys
    <3>1. PICK i \in DOMAIN gs : r = gs[i]
      BY DEF Range
    <3>2. PICK j \in DOMAIN r.lines : line = r.lines[j]
      BY DEF Range
    <3>3. <<i, j>> \in AllEntries(gs)
      BY <3>1, <3>2 DEF AllEntries
    <3>4. g[<<i, j>>] = key
      BY <2>2, <3>1, <3>2, <3>3 DEF LineOf
    <3> QED BY <3>3, <3>4
  <2>3. \/ \E r \in Range(docs) : \E line \in Range(r.lines) : key = Key(r.numero, line)
        \/ \E r \in Range(gs) : \E line \in Range(r.lines) : key = Key(r.registro, line)
    BY DEF Keys
  <2> HIDE DEF declaredKeys, receivedKeys
  <2> QED BY <2>1, <2>2, <2>3
<1> HIDE DEF declaredKeys, receivedKeys
<1>3. IsFiniteSet(declaredKeys \cup receivedKeys)
  BY <1>1, FS_Union
<1> QED BY <1>2, <1>3, FS_Subset

\* Recovery moves a line to another material, not to another registro or unit.
LEMMA TotalOfCounted ==
  ASSUME CapInv, FlagInv, LinesInv, NEW numeros, NEW numero, NEW unidad
  PROVE  Total(Counted, numeros, numero, unidad) = Total(guias, numeros, numero, unidad)
<1> DEFINE Those(docs) == {e \in AllEntries(docs) :
                             numeros[e[1]] = numero /\ LineOf(docs, e).unidad = unidad}
<1>1. HaveLines(Counted) /\ HaveLines(guias)
  BY CountedLines DEF HaveLines, LinesInv, CapInv, Read
<1>2. /\ DOMAIN Counted = DOMAIN guias
      /\ \A i \in DOMAIN guias : DOMAIN Counted[i].lines = DOMAIN guias[i].lines
  BY CountedLines
<1>3. AllEntries(Counted) = AllEntries(guias)
  BY <1>2 DEF AllEntries
<1>4. ASSUME NEW e \in AllEntries(guias)
      PROVE  /\ LineOf(Counted, e).unidad = LineOf(guias, e).unidad
             /\ LineOf(Counted, e).cantidad = LineOf(guias, e).cantidad
  <2>1. e[1] \in DOMAIN guias /\ e[2] \in DOMAIN guias[e[1]].lines
    BY <1>1, EntriesAt
  <2> QED BY <2>1, CountedLines DEF LineOf
<1>5. Those(Counted) = Those(guias)
  BY <1>3, <1>4
<1> DEFINE T == Those(guias)
<1>6. T \in SUBSET AllEntries(guias)
  OBVIOUS
<1>7. /\ Total(Counted, numeros, numero, unidad) = Quantity(Counted, Those(Counted))
      /\ Total(guias, numeros, numero, unidad) = Quantity(guias, T)
  BY DEF Total, AllEntries, LineOf
<1> HIDE DEF Those, T
<1>8. Quantity(Counted, T) = Quantity(guias, T)
  <2>1. \A e \in T : Weights(Counted)[e] = Weights(guias)[e]
    BY <1>3, <1>4, <1>6 DEF Weights
  <2>2. IsFiniteSet(T) /\ Quantity(guias, T) = SumFunctionOnSet(Weights(guias), T)
    BY <1>1, <1>6, QuantitySum
  <2>3. Quantity(Counted, T) = SumFunctionOnSet(Weights(Counted), T)
    BY <1>1, <1>3, <1>6, QuantitySum
  <2>4. SumFunctionOnSet(Weights(Counted), T) = SumFunctionOnSet(Weights(guias), T)
    BY <2>1, <2>2, SumSame
  <2> QED BY <2>2, <2>3, <2>4
<1> QED BY <1>5, <1>7, <1>8 DEF T

LEMMA RowsConserve ==
  ASSUME CapInv, FlagInv, LinesInv
  PROVE  MaterialConserved
<1> SUFFICES ASSUME stage \in Persisting, NEW n \in Numeros, NEW u \in Unit
             PROVE  LET own == {key \in DOMAIN rows : key[1] = n /\ key[3] = u}
                        received == Total(guias, [i \in DOMAIN guias |-> guias[i].registro], n, u)
                        stated == Total(declared, [i \in DOMAIN declared |-> declared[i].numero],
                                        n, u)
                        counted(key) == SumFunction([c \in rows[key].guias |-> c.cantidad])
                    IN /\ SumFunction([key \in own |-> counted(key)]) = received
                       /\ SumFunction([key \in own |-> rows[key].declared_qty]) = stated
                       /\ SumFunction([key \in own |-> rows[key].delta]) = received - stated
  BY DEF MaterialConserved
<1> DEFINE registros == [i \in DOMAIN guias |-> guias[i].registro]
           numeros == [i \in DOMAIN declared |-> declared[i].numero]
           own == {key \in DOMAIN rows : key[1] = n /\ key[3] = u}
           received == Total(guias, registros, n, u)
           stated == Total(declared, numeros, n, u)
           counted == [key \in own |-> SumFunction([c \in rows[key].guias |-> c.cantidad])]
           declaredQty == [key \in own |-> rows[key].declared_qty]
           delta == [key \in own |-> rows[key].delta]
<1>1. DOMAIN rows = Keys(declared, Counted) /\ HaveLines(declared) /\ HaveLines(Counted)
      /\ DOMAIN Counted = DOMAIN guias
      /\ \A i \in DOMAIN guias : Counted[i].registro = guias[i].registro
  BY CountedLines DEF FlagInv, reconcile, Counted, HaveLines, LinesInv, IsRegistro
<1>2. n # None
  BY DEF Numeros
<1>3. \A key \in DOMAIN rows : key \in own <=> key[1] = n /\ key[3] = u
  OBVIOUS
<1>4. IsFiniteSet(own)
  <2>1. IsFiniteSet(DOMAIN rows)
    BY <1>1, KeysFinite
  <2> QED BY <2>1, FS_Subset
<1>5. \A key \in own : key \in DOMAIN rows /\ key[1] # None
  BY <1>2, <1>3
<1>6. \A key \in own :
        /\ counted[key] = Quantity(Counted, GuiaEntries(Counted, key))
        /\ declaredQty[key] = Quantity(declared, DeclaredEntries(declared, key))
        /\ delta[key] = counted[key] - declaredQty[key]
  BY <1>5, RowQuantities
<1> HIDE DEF own, counted, declaredQty, delta
<1>7. SumFunctionOnSet(counted, own) = received /\ received \in Int
  <2>1. ASSUME NEW e \in AllEntries(Counted)
        PROVE  Key(registros[e[1]], LineOf(Counted, e)) \in own
                 <=> registros[e[1]] = n /\ LineOf(Counted, e).unidad = u
    <3> DEFINE key == Key(registros[e[1]], LineOf(Counted, e))
    <3>1. e[1] \in DOMAIN guias /\ registros[e[1]] = Counted[e[1]].registro
      BY <1>1, EntriesAt
    <3>2. key[1] = registros[e[1]] /\ key[3] = LineOf(Counted, e).unidad
      BY DEF Key
    <3>3. registros[e[1]] # None => key \in DOMAIN rows
      BY <1>1, <3>1, EntryKeys
    <3> HIDE DEF key
    <3>4. key \in own <=> registros[e[1]] = n /\ LineOf(Counted, e).unidad = u
      BY <1>2, <1>3, <1>5, <3>2, <3>3
    <3> QED BY <3>4 DEF key
  <2>2. ASSUME NEW key \in own
        PROVE  counted[key] = Quantity(Counted, {e \in AllEntries(Counted) :
                                                   Key(registros[e[1]], LineOf(Counted, e)) = key})
    <3>1. \A e \in AllEntries(Counted) : registros[e[1]] = Counted[e[1]].registro
      BY <1>1, EntriesAt
    <3>2. \A e \in AllEntries(Counted) :
            Key(registros[e[1]], LineOf(Counted, e)) = key => Counted[e[1]].registro # None
      BY <1>5, <3>1 DEF Key
    <3>3. GuiaEntries(Counted, key)
            = {e \in AllEntries(Counted) : Key(registros[e[1]], LineOf(Counted, e)) = key}
      BY <3>1, <3>2 DEF GuiaEntries, AllEntries, LineOf
    <3> QED BY <1>6, <3>3
  <2> HIDE DEF registros
  <2>3. OwnSums(Counted, registros, n, u, own, counted)
    BY <1>4, <2>1, <2>2 DEF OwnSums
  <2>4. SumFunctionOnSet(counted, own) = Total(Counted, registros, n, u)
        /\ Total(Counted, registros, n, u) \in Int
    BY <1>1, <2>3, TotalByKey
  <2> QED BY <2>4, TotalOfCounted
<1>8. SumFunctionOnSet(declaredQty, own) = stated /\ stated \in Int
  <2>1. ASSUME NEW e \in AllEntries(declared)
        PROVE  Key(numeros[e[1]], LineOf(declared, e)) \in own
                 <=> numeros[e[1]] = n /\ LineOf(declared, e).unidad = u
    <3> DEFINE key == Key(numeros[e[1]], LineOf(declared, e))
    <3>1. e[1] \in DOMAIN declared /\ numeros[e[1]] = declared[e[1]].numero
      BY <1>1, EntriesAt
    <3>2. key[1] = numeros[e[1]] /\ key[3] = LineOf(declared, e).unidad
      BY DEF Key
    <3>3. key \in DOMAIN rows
      BY <1>1, <3>1, EntryKeys
    <3> HIDE DEF key
    <3>4. key \in own <=> numeros[e[1]] = n /\ LineOf(declared, e).unidad = u
      BY <1>3, <3>2, <3>3, <1>5
    <3> QED BY <3>4 DEF key
  <2>2. ASSUME NEW key \in own
        PROVE  declaredQty[key] = Quantity(declared, {e \in AllEntries(declared) :
                                                        Key(numeros[e[1]], LineOf(declared, e)) = key})
    <3>1. \A e \in AllEntries(declared) : numeros[e[1]] = declared[e[1]].numero
      BY <1>1, EntriesAt
    <3>2. DeclaredEntries(declared, key)
            = {e \in AllEntries(declared) : Key(numeros[e[1]], LineOf(declared, e)) = key}
      BY <3>1 DEF DeclaredEntries, AllEntries, LineOf
    <3> QED BY <1>6, <3>2
  <2> HIDE DEF numeros
  <2>3. OwnSums(declared, numeros, n, u, own, declaredQty)
    BY <1>4, <2>1, <2>2 DEF OwnSums
  <2> QED BY <1>1, <2>3, TotalByKey
<1>9. SumFunctionOnSet(delta, own) = received - stated
  <2>1. \A key \in own : counted[key] \in Int /\ declaredQty[key] \in Int
    <3>1. \A key \in own : GuiaEntries(Counted, key) \in SUBSET AllEntries(Counted)
                           /\ DeclaredEntries(declared, key) \in SUBSET AllEntries(declared)
      BY DEF GuiaEntries, DeclaredEntries, AllEntries
    <3> QED BY <1>1, <1>6, <3>1, QuantitySum
  <2>2. SumFunctionOnSet(delta, own)
          = SumFunctionOnSet(counted, own) - SumFunctionOnSet(declaredQty, own)
    BY <1>4, <1>6, <2>1, SumMinus
  <2> HIDE DEF received, stated
  <2> QED BY <1>7, <1>8, <2>2
<1>10. /\ SumFunction(counted) = SumFunctionOnSet(counted, own)
       /\ SumFunction(declaredQty) = SumFunctionOnSet(declaredQty, own)
       /\ SumFunction(delta) = SumFunctionOnSet(delta, own)
  BY DEF SumFunction, counted, declaredQty, delta
<1>11. /\ SumFunction(counted) = received
       /\ SumFunction(declaredQty) = stated
       /\ SumFunction(delta) = received - stated
  BY <1>7, <1>8, <1>9, <1>10
<1> QED BY <1>11 DEF counted, declaredQty, delta, own

(* Of any documents, any answers and any quantities: the rows of a registro hold in
   each unit exactly what its declared pages and its guías do. *)
THEOREM MaterialIsConserved == Spec => []MaterialConserved
<1>1. RunInv => MaterialConserved
  BY RowsConserve DEF RunInv
<1> QED BY <1>1, RunInvInit, RunInvStep, PTL DEF Spec
=============================================================================
