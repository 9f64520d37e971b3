------------------------- MODULE StakeLedgerProofs -------------------------
(***************************************************************************)
(* What the tables say of the stakes, for any pools, stakers and number of *)
(* blocks and events.                                                      *)
(***************************************************************************)
EXTENDS StakeLedger, FiniteSetTheorems, WellFoundedInduction, TLAPS

-----------------------------------------------------------------------------
(* Sums over finite sets.                                                  *)

(* Of a set of subsets of S, one has no smaller one beside it.             *)
LEMMA SmallestSet ==
    ASSUME NEW S, IsFiniteSet(S), NEW Bad \in SUBSET SUBSET S, Bad # {}
    PROVE  \E T \in Bad : \A V \in Bad : V \subseteq T => V = T
<1> DEFINE R == {ss \in Nat \X Nat : ss[1] < ss[2]}
           Sizes == {Cardinality(T) : T \in Bad}
<1>1. IsWellFoundedOn(R, Nat)
  BY NatLessThanWellFounded DEF OpToRel
<1>2. \A T \in Bad : IsFiniteSet(T) /\ Cardinality(T) \in Nat
  BY FS_Subset, FS_CardinalityType
<1>3. Sizes \subseteq Nat /\ Sizes # {}
  BY <1>2
<1>4. PICK n \in Sizes : \A m \in Sizes : <<m, n>> \notin R
  <2> HIDE DEF R, Sizes
  <2> QED BY <1>1, <1>3, WFMin
<1>5. PICK T \in Bad : n = Cardinality(T)
  OBVIOUS
<1>6. ASSUME NEW V \in Bad, V \subseteq T PROVE V = T
  <2>1. V # T => Cardinality(V) < Cardinality(T)
    BY <1>2, <1>6, FS_Subset
  <2>2. Cardinality(V) \in Nat /\ Cardinality(T) \in Nat
    BY <1>2
  <2>3. <<Cardinality(V), Cardinality(T)>> \notin R
    BY <1>4, <1>5
  <2> QED BY <2>1, <2>2, <2>3
<1> QED BY <1>6

(* A family of subsets of S that has the empty set, and with a set every   *)
(* one with an element more, has S.                                        *)
LEMMA FiniteInduction ==
    ASSUME NEW S, IsFiniteSet(S), NEW C, {} \in C,
           \A T \in C, x \in S : T \subseteq S /\ x \notin T => T \cup {x} \in C
    PROVE  S \in C
<1> DEFINE Bad == {T \in SUBSET S : T \notin C}
<1>1. SUFFICES ASSUME S \notin C PROVE FALSE
  OBVIOUS
<1>2. PICK T \in Bad : \A V \in Bad : V \subseteq T => V = T
  <2>1. Bad \in SUBSET SUBSET S /\ Bad # {}
    BY <1>1
  <2> HIDE DEF Bad
  <2> QED BY <2>1, SmallestSet
<1>3. PICK x : x \in T
  OBVIOUS
<1>4. T \ {x} \in C
  BY <1>2, <1>3
<1>5. (T \ {x}) \cup {x} = T
  BY <1>3
<1> QED BY <1>3, <1>4, <1>5

(* The fold behind SumFunctionOnSet.                                       *)
Some(T) == CHOOSE x \in T : TRUE
Sums(f, S, g) == g = [T \in SUBSET S |-> IF T = {} THEN 0 ELSE f[Some(T)] + g[T \ {Some(T)}]]

LEMMA SumIs ==
    ASSUME NEW f, NEW S
    PROVE  SumFunctionOnSet(f, S) = (CHOOSE g : Sums(f, S, g))[S]
BY DEF SumFunctionOnSet, FoldFunctionOnSet, MapThenFoldSet, Sums, Some

(* The recursive function exists, by its approximations, and is the only   *)
(* one.                                                                    *)
LEMMA SumsUnique ==
    ASSUME NEW f, NEW S, IsFiniteSet(S), NEW U \in SUBSET S, NEW g, NEW h,
           Sums(f, S, g), Sums(f, U, h)
    PROVE  \A T \in SUBSET U : g[T] = h[T]
<1> DEFINE Bad == {T \in SUBSET U : g[T] # h[T]}
<1>1. SUFFICES ASSUME Bad # {} PROVE FALSE
  OBVIOUS
<1>2. PICK T \in Bad : \A V \in Bad : V \subseteq T => V = T
  <2>1. Bad \in SUBSET SUBSET U /\ IsFiniteSet(U)
    BY FS_Subset
  <2> HIDE DEF Bad
  <2> QED BY <1>1, <2>1, SmallestSet
<1>3. \A V \in SUBSET U :
        /\ g[V] = IF V = {} THEN 0 ELSE f[Some(V)] + g[V \ {Some(V)}]
        /\ h[V] = IF V = {} THEN 0 ELSE f[Some(V)] + h[V \ {Some(V)}]
  BY DEF Sums
<1>4. T # {}
  BY <1>3
<1>5. Some(T) \in T
  BY <1>4 DEF Some
<1>6. T \ {Some(T)} \notin Bad
  BY <1>2, <1>5
<1>7. T \ {Some(T)} \in SUBSET U
  OBVIOUS
<1> QED BY <1>3, <1>4, <1>6, <1>7

LEMMA SumsRestrict ==
    ASSUME NEW f, NEW S, NEW U \in SUBSET S, NEW g, Sums(f, S, g)
    PROVE  Sums(f, U, [T \in SUBSET U |-> g[T]])
<1>1. \A T \in SUBSET U : g[T] = IF T = {} THEN 0 ELSE f[Some(T)] + g[T \ {Some(T)}]
  BY DEF Sums
<1> QED BY <1>1 DEF Sums

LEMMA SumOf ==
    ASSUME NEW f, NEW S, IsFiniteSet(S), NEW g, Sums(f, S, g), NEW T \in SUBSET S
    PROVE  SumFunctionOnSet(f, T) = g[T]
<1> DEFINE h == CHOOSE h : Sums(f, T, h)
<1>1. Sums(f, T, h)
  BY SumsRestrict
<1>2. g[T] = h[T]
  BY <1>1, SumsUnique
<1> QED BY <1>2, SumIs

LEMMA SumsExist ==
    ASSUME NEW f, NEW S, IsFiniteSet(S)
    PROVE  \E g : Sums(f, S, g)
<1> DEFINE Bad == {T \in SUBSET S : ~ \E g : Sums(f, T, g)}
<1>1. SUFFICES ASSUME Bad # {} PROVE FALSE
  OBVIOUS
<1>2. PICK T \in Bad : \A V \in Bad : V \subseteq T => V = T
  <2>1. Bad \in SUBSET SUBSET S
    OBVIOUS
  <2> HIDE DEF Bad
  <2> QED BY <1>1, <2>1, SmallestSet
<1> DEFINE g == [V \in SUBSET T |-> IF V = {} THEN 0
                    ELSE f[Some(V)] + SumFunctionOnSet(f, V \ {Some(V)})]
<1>3. ASSUME NEW V \in SUBSET T, V # T PROVE SumFunctionOnSet(f, V) = g[V]
  <2>1. PICK h : Sums(f, V, h)
    BY <1>2, <1>3
  <2>2. IsFiniteSet(V) /\ V \ {Some(V)} \in SUBSET V
    BY FS_Subset
  <2>3. SumFunctionOnSet(f, V) = h[V] /\ SumFunctionOnSet(f, V \ {Some(V)}) = h[V \ {Some(V)}]
    BY <2>1, <2>2, SumOf
  <2>4. h[V] = IF V = {} THEN 0 ELSE f[Some(V)] + h[V \ {Some(V)}]
    BY <2>1 DEF Sums
  <2> QED BY <2>3, <2>4
<1>4. ASSUME NEW V \in SUBSET T, V # {}
      PROVE  V \ {Some(V)} \in SUBSET T /\ V \ {Some(V)} # T
  BY <1>4 DEF Some
<1>5. Sums(f, T, g)
  <2>1. \A V \in SUBSET T : V # {} => SumFunctionOnSet(f, V \ {Some(V)}) = g[V \ {Some(V)}]
    BY <1>3, <1>4
  <2> QED BY <2>1 DEF Sums
<1> QED BY <1>2, <1>5

LEMMA SumEmpty == ASSUME NEW f PROVE SumFunctionOnSet(f, {}) = 0
<1>1. PICK g : Sums(f, {}, g)
  BY SumsExist, FS_EmptySet
<1>2. SumFunctionOnSet(f, {}) = g[{}]
  BY <1>1, SumOf, FS_EmptySet
<1> QED BY <1>1, <1>2 DEF Sums

LEMMA SumChosen ==
    ASSUME NEW f, NEW S, IsFiniteSet(S), S # {}
    PROVE  /\ Some(S) \in S
           /\ SumFunctionOnSet(f, S) = f[Some(S)] + SumFunctionOnSet(f, S \ {Some(S)})
<1>1. PICK g : Sums(f, S, g)
  BY SumsExist
<1>2. SumFunctionOnSet(f, S) = g[S] /\ SumFunctionOnSet(f, S \ {Some(S)}) = g[S \ {Some(S)}]
  BY <1>1, SumOf
<1> QED BY <1>1, <1>2 DEF Sums, Some

LEMMA SumType ==
    ASSUME NEW S, IsFiniteSet(S), NEW f, \A x \in S : f[x] \in Int
    PROVE  SumFunctionOnSet(f, S) \in Int
<1> DEFINE Bad == {T \in SUBSET S : SumFunctionOnSet(f, T) \notin Int}
<1>1. SUFFICES ASSUME Bad # {} PROVE FALSE
  OBVIOUS
<1>2. PICK T \in Bad : \A V \in Bad : V \subseteq T => V = T
  <2>1. Bad \in SUBSET SUBSET S
    OBVIOUS
  <2> HIDE DEF Bad
  <2> QED BY <1>1, <2>1, SmallestSet
<1>3. T # {} /\ IsFiniteSet(T)
  <2>1. T # {}
    BY <1>2, SumEmpty
  <2> QED BY <2>1, FS_Subset
<1>4. Some(T) \in T /\ SumFunctionOnSet(f, T) = f[Some(T)] + SumFunctionOnSet(f, T \ {Some(T)})
  BY <1>3, SumChosen
<1>5. SumFunctionOnSet(f, T \ {Some(T)}) \in Int
  BY <1>2, <1>4
<1> QED BY <1>4, <1>5

(* One element at a time, whichever it is.                                 *)
LEMMA SumAdds ==
    ASSUME NEW S, IsFiniteSet(S), NEW f, \A x \in S : f[x] \in Int, NEW c \in S
    PROVE  SumFunctionOnSet(f, S) = f[c] + SumFunctionOnSet(f, S \ {c})
<1> DEFINE Bad == {T \in SUBSET S : \E x \in T : SumFunctionOnSet(f, T) # f[x] + SumFunctionOnSet(f, T \ {x})}
<1>1. SUFFICES ASSUME Bad # {} PROVE FALSE
  OBVIOUS
<1>2. PICK T \in Bad : \A V \in Bad : V \subseteq T => V = T
  <2>1. Bad \in SUBSET SUBSET S
    OBVIOUS
  <2> HIDE DEF Bad
  <2> QED BY <1>1, <2>1, SmallestSet
<1>3. PICK x \in T : SumFunctionOnSet(f, T) # f[x] + SumFunctionOnSet(f, T \ {x})
  OBVIOUS
<1> DEFINE s == Some(T)
           B == (T \ {s}) \ {x}
<1>4. T # {} /\ IsFiniteSet(T) /\ T \subseteq S
  BY FS_Subset
<1>5. s \in T /\ SumFunctionOnSet(f, T) = f[s] + SumFunctionOnSet(f, T \ {s})
  BY <1>4, SumChosen
<1>6. x # s
  BY <1>3, <1>5
<1>7. SumFunctionOnSet(f, T \ {s}) = f[x] + SumFunctionOnSet(f, B)
  <2>1. T \ {s} \notin Bad /\ T \ {s} \in SUBSET S /\ x \in T \ {s}
    BY <1>2, <1>4, <1>5, <1>6
  <2> QED BY <2>1
<1>8. SumFunctionOnSet(f, T \ {x}) = f[s] + SumFunctionOnSet(f, B)
  <2>1. T \ {x} \notin Bad /\ T \ {x} \in SUBSET S /\ s \in T \ {x}
    BY <1>2, <1>3, <1>4, <1>5, <1>6
  <2>2. (T \ {x}) \ {s} = B
    OBVIOUS
  <2> QED BY <2>1, <2>2
<1>9. f[x] \in Int /\ f[s] \in Int /\ SumFunctionOnSet(f, B) \in Int
  <2>1. IsFiniteSet(B) /\ B \subseteq S
    BY <1>4, FS_Subset
  <2> QED BY <2>1, <1>3, <1>4, <1>5, SumType
<1> QED BY <1>3, <1>5, <1>7, <1>8, <1>9

LEMMA SumWith ==
    ASSUME NEW T, IsFiniteSet(T), NEW x, x \notin T, NEW f, \A y \in T \cup {x} : f[y] \in Int
    PROVE  SumFunctionOnSet(f, T \cup {x}) = SumFunctionOnSet(f, T) + f[x]
<1>1. IsFiniteSet(T \cup {x}) /\ (T \cup {x}) \ {x} = T
  BY FS_AddElement
<1>2. SumFunctionOnSet(f, T \cup {x}) = f[x] + SumFunctionOnSet(f, T)
  BY <1>1, SumAdds
<1>3. SumFunctionOnSet(f, T) \in Int
  BY SumType
<1> QED BY <1>2, <1>3

LEMMA SumSplits ==
    ASSUME NEW S, IsFiniteSet(S), NEW f, NEW g, NEW h,
           \A x \in S : f[x] \in Int /\ g[x] \in Int /\ h[x] \in Int /\ f[x] = g[x] + h[x]
    PROVE  SumFunctionOnSet(f, S) = SumFunctionOnSet(g, S) + SumFunctionOnSet(h, S)
<1> DEFINE C == {T \in SUBSET S :
                    SumFunctionOnSet(f, T) = SumFunctionOnSet(g, T) + SumFunctionOnSet(h, T)}
<1>1. {} \in C
  BY SumEmpty
<1>2. ASSUME NEW T \in C, NEW x \in S, T \subseteq S, x \notin T PROVE T \cup {x} \in C
  <2>1. IsFiniteSet(T)
    BY FS_Subset
  <2>2. /\ SumFunctionOnSet(f, T \cup {x}) = SumFunctionOnSet(f, T) + f[x]
        /\ SumFunctionOnSet(g, T \cup {x}) = SumFunctionOnSet(g, T) + g[x]
        /\ SumFunctionOnSet(h, T \cup {x}) = SumFunctionOnSet(h, T) + h[x]
    BY <1>2, <2>1, SumWith
  <2>3. /\ SumFunctionOnSet(f, T) \in Int /\ SumFunctionOnSet(g, T) \in Int
        /\ SumFunctionOnSet(h, T) \in Int
    BY <2>1, SumType
  <2> QED BY <1>2, <2>2, <2>3
<1>3. S \in C
  <2> HIDE DEF C
  <2> QED BY <1>1, <1>2, FiniteInduction
<1> QED BY <1>3

LEMMA SumZero ==
    ASSUME NEW S, IsFiniteSet(S), NEW f, \A x \in S : f[x] = 0
    PROVE  SumFunctionOnSet(f, S) = 0
<1> DEFINE C == {T \in SUBSET S : SumFunctionOnSet(f, T) = 0}
<1>1. {} \in C
  BY SumEmpty
<1>2. ASSUME NEW T \in C, NEW x \in S, T \subseteq S, x \notin T PROVE T \cup {x} \in C
  <2>1. IsFiniteSet(T)
    BY FS_Subset
  <2>2. \A y \in T \cup {x} : f[y] \in Int
    BY <1>2
  <2>3. SumFunctionOnSet(f, T \cup {x}) = SumFunctionOnSet(f, T) + f[x]
    BY <1>2, <2>1, <2>2, SumWith
  <2> QED BY <1>2, <2>3
<1>3. S \in C
  <2> HIDE DEF C
  <2> QED BY <1>1, <1>2, FiniteInduction
<1> QED BY <1>3

(* Two functions that differ at c only, or nowhere.                        *)
LEMMA SumChanges ==
    ASSUME NEW S, IsFiniteSet(S), NEW f, NEW g, NEW c \in S,
           \A x \in S : f[x] \in Int /\ g[x] \in Int /\ (x # c => g[x] = f[x])
    PROVE  SumFunctionOnSet(g, S) = SumFunctionOnSet(f, S) - f[c] + g[c]
<1> DEFINE T == S \ {c}
           zero == [x \in S |-> 0]
<1>1. IsFiniteSet(T)
  BY FS_Subset
<1>2. SumFunctionOnSet(zero, T) = 0
  BY <1>1, SumZero
<1>3. \A x \in T : f[x] \in Int /\ g[x] \in Int /\ zero[x] \in Int /\ g[x] = f[x] + zero[x]
  OBVIOUS
<1>4. SumFunctionOnSet(g, T) = SumFunctionOnSet(f, T) + SumFunctionOnSet(zero, T)
  <2> HIDE DEF T, zero
  <2> QED BY <1>1, <1>3, SumSplits
<1>5. SumFunctionOnSet(f, T) \in Int
  BY <1>1, SumType
<1>6. /\ SumFunctionOnSet(f, S) = f[c] + SumFunctionOnSet(f, T)
      /\ SumFunctionOnSet(g, S) = g[c] + SumFunctionOnSet(g, T)
  BY SumAdds
<1> QED BY <1>2, <1>4, <1>5, <1>6

LEMMA SumSame ==
    ASSUME NEW S, IsFiniteSet(S), NEW f, NEW g, \A x \in S : f[x] \in Int /\ g[x] = f[x]
    PROVE  SumFunctionOnSet(g, S) = SumFunctionOnSet(f, S)
<1>1. CASE S = {}
  BY <1>1, SumEmpty
<1>2. CASE S # {}
  <2>1. PICK c \in S : TRUE
    BY <1>2
  <2>2. SumFunctionOnSet(g, S) = SumFunctionOnSet(f, S) - f[c] + g[c]
    BY SumChanges
  <2>3. SumFunctionOnSet(f, S) \in Int
    BY SumType
  <2> QED BY <2>2, <2>3
<1> QED BY <1>1, <1>2

LEMMA SumPositive ==
    ASSUME NEW S, IsFiniteSet(S), NEW f, \A x \in S : f[x] \in Nat
    PROVE  /\ SumFunctionOnSet(f, S) \in Nat
           /\ SumFunctionOnSet(f, S) > 0 => \E x \in S : f[x] > 0
<1> DEFINE C == {T \in SUBSET S : SumFunctionOnSet(f, T) \in Nat}
<1>1. {} \in C
  BY SumEmpty
<1>2. ASSUME NEW T \in C, NEW x \in S, T \subseteq S, x \notin T PROVE T \cup {x} \in C
  <2>1. IsFiniteSet(T)
    BY FS_Subset
  <2>2. \A y \in T \cup {x} : f[y] \in Int
    BY <1>2
  <2>3. SumFunctionOnSet(f, T \cup {x}) = SumFunctionOnSet(f, T) + f[x]
    BY <1>2, <2>1, <2>2, SumWith
  <2> QED BY <1>2, <2>3
<1>3. S \in C
  <2> HIDE DEF C
  <2> QED BY <1>1, <1>2, FiniteInduction
<1>4. (\A x \in S : f[x] = 0) => SumFunctionOnSet(f, S) = 0
  BY SumZero
<1> QED BY <1>3, <1>4

-----------------------------------------------------------------------------
(* What a sequence of events adds up to.                                   *)

(* Events that weigh w take x, one by one, to y.                           *)
Leads(q, w, x, y) ==
    \E path \in [1 .. Len(q) + 1 -> Int] :
        /\ path[1] = x /\ path[Len(q) + 1] = y
        /\ \A i \in 1 .. Len(q) : path[i + 1] = path[i] + w[q[i]]

LEMMA LeadsStart == ASSUME NEW w, NEW x \in Int PROVE Leads(<<>>, w, x, x)
<1> DEFINE path == [i \in 1 .. 1 |-> x]
<1>1. /\ path \in [1 .. Len(<<>>) + 1 -> Int] /\ path[1] = x /\ path[Len(<<>>) + 1] = x
      /\ \A i \in 1 .. Len(<<>>) : path[i + 1] = path[i] + w[<<>>[i]]
  OBVIOUS
<1> HIDE DEF path
<1> QED BY <1>1 DEF Leads

LEMMA LeadsEnd == ASSUME NEW w, NEW x, NEW y, Leads(<<>>, w, x, y) PROVE x = y
BY DEF Leads

LEMMA LeadsAppend ==
    ASSUME NEW S, NEW q \in Seq(S), NEW e \in S, NEW w, w[e] \in Int, NEW x, NEW y \in Int,
           Leads(q, w, x, y)
    PROVE  Leads(Append(q, e), w, x, y + w[e])
<1>1. PICK path \in [1 .. Len(q) + 1 -> Int] :
        /\ path[1] = x /\ path[Len(q) + 1] = y
        /\ \A i \in 1 .. Len(q) : path[i + 1] = path[i] + w[q[i]]
  BY DEF Leads
<1> DEFINE n == Len(q)
           r == Append(q, e)
           next == [i \in 1 .. n + 2 |-> IF i <= n + 1 THEN path[i] ELSE y + w[e]]
<1>2. n \in Nat /\ Len(r) = n + 1 /\ r[n + 1] = e /\ \A i \in 1 .. n : r[i] = q[i]
  OBVIOUS
<1>3. next \in [1 .. Len(r) + 1 -> Int]
  BY <1>2
<1>4. next[1] = x /\ next[Len(r) + 1] = y + w[e]
  BY <1>1, <1>2
<1>5. ASSUME NEW i \in 1 .. Len(r) PROVE next[i + 1] = next[i] + w[r[i]]
  <2>1. CASE i = n + 1
    BY <1>1, <1>2, <2>1
  <2>2. CASE i \in 1 .. n
    BY <1>1, <1>2, <2>2
  <2> QED BY <1>2, <2>1, <2>2
<1> HIDE DEF next, n, r
<1>6. Leads(r, w, x, y + w[e])
  BY <1>3, <1>4, <1>5 DEF Leads
<1> QED BY <1>6 DEF r

LEMMA LeadsJoin ==
    ASSUME NEW S, NEW q \in Seq(S), NEW r \in Seq(S), NEW w, NEW x, NEW y, NEW z,
           Leads(q, w, x, y), Leads(r, w, y, z)
    PROVE  Leads(q \o r, w, x, z)
<1>1. PICK f \in [1 .. Len(q) + 1 -> Int] :
        /\ f[1] = x /\ f[Len(q) + 1] = y
        /\ \A i \in 1 .. Len(q) : f[i + 1] = f[i] + w[q[i]]
  BY DEF Leads
<1>2. PICK g \in [1 .. Len(r) + 1 -> Int] :
        /\ g[1] = y /\ g[Len(r) + 1] = z
        /\ \A i \in 1 .. Len(r) : g[i + 1] = g[i] + w[r[i]]
  BY DEF Leads
<1> DEFINE n == Len(q)
           m == Len(r)
           s == q \o r
           h == [i \in 1 .. n + m + 1 |-> IF i <= n THEN f[i] ELSE g[i - n]]
<1>3. /\ n \in Nat /\ m \in Nat /\ Len(s) = n + m
      /\ \A i \in 1 .. n : s[i] = q[i]
      /\ \A i \in 1 .. m : s[n + i] = r[i]
  OBVIOUS
<1>4. h \in [1 .. Len(s) + 1 -> Int]
  <2>1. \A i \in 1 .. n + m + 1 : (i <= n => i \in 1 .. n + 1) /\ (~ i <= n => i - n \in 1 .. m + 1)
    BY <1>3
  <2> QED BY <1>3, <2>1
<1>5. h[1] = x /\ h[Len(s) + 1] = z
  <2>1. CASE n = 0
    BY <1>1, <1>2, <1>3, <2>1
  <2>2. CASE n > 0
    BY <1>1, <1>2, <1>3, <2>2
  <2> QED BY <1>3, <2>1, <2>2
<1>6. ASSUME NEW i \in 1 .. Len(s) PROVE h[i + 1] = h[i] + w[s[i]]
  <2>1. CASE i < n
    BY <1>1, <1>3, <2>1
  <2>2. CASE i = n
    <3>1. h[i] = f[n] /\ h[i + 1] = g[1] /\ s[i] = q[n]
      BY <1>3, <2>2
    <3>2. f[n + 1] = f[n] + w[q[n]]
      BY <1>1, <1>3, <2>2
    <3> QED BY <1>1, <1>2, <3>1, <3>2
  <2>3. CASE i > n
    <3>1. i - n \in 1 .. m /\ i = n + (i - n)
      BY <1>3, <2>3
    <3>2. h[i] = g[i - n] /\ h[i + 1] = g[(i - n) + 1]
      BY <1>3, <2>3
    <3>3. s[i] = r[i - n]
      BY <1>3, <3>1
    <3> QED BY <1>2, <3>1, <3>2, <3>3
  <2> QED BY <1>3, <2>1, <2>2, <2>3
<1> HIDE DEF h, s, n, m
<1>7. Leads(s, w, x, z)
  BY <1>4, <1>5, <1>6 DEF Leads
<1> QED BY <1>7 DEF s

LEMMA LeadsShift ==
    ASSUME NEW S, NEW q \in Seq(S), NEW w, \A e \in S : w[e] \in Int, NEW x \in Int, NEW y \in Int,
           NEW c \in Int, Leads(q, w, x, y)
    PROVE  Leads(q, w, x + c, y + c)
<1>1. PICK f \in [1 .. Len(q) + 1 -> Int] :
        /\ f[1] = x /\ f[Len(q) + 1] = y
        /\ \A i \in 1 .. Len(q) : f[i + 1] = f[i] + w[q[i]]
  BY DEF Leads
<1> DEFINE g == [i \in 1 .. Len(q) + 1 |-> f[i] + c]
<1>2. g \in [1 .. Len(q) + 1 -> Int] /\ g[1] = x + c /\ g[Len(q) + 1] = y + c
  BY <1>1
<1>3. ASSUME NEW i \in 1 .. Len(q) PROVE g[i + 1] = g[i] + w[q[i]]
  <2>1. f[i] \in Int /\ w[q[i]] \in Int
    OBVIOUS
  <2>2. g[i] = f[i] + c /\ g[i + 1] = f[i + 1] + c
    OBVIOUS
  <2>3. f[i + 1] = f[i] + w[q[i]]
    BY <1>1
  <2> HIDE DEF g
  <2>4. \A v, x1, x2 \in Int : x2 = x1 + v => x2 + c = x1 + c + v
    OBVIOUS
  <2>5. f[i + 1] \in Int
    BY <2>1, <2>3
  <2> QED BY <2>1, <2>2, <2>3, <2>4, <2>5
<1> HIDE DEF g
<1> QED BY <1>2, <1>3 DEF Leads

LEMMA LeadsTail ==
    ASSUME NEW S, NEW q \in Seq(S), q # <<>>, NEW w, NEW x, NEW y, Leads(q, w, x, y)
    PROVE  Leads(Tail(q), w, x + w[Head(q)], y)
<1>1. PICK f \in [1 .. Len(q) + 1 -> Int] :
        /\ f[1] = x /\ f[Len(q) + 1] = y
        /\ \A i \in 1 .. Len(q) : f[i + 1] = f[i] + w[q[i]]
  BY DEF Leads
<1> DEFINE r == Tail(q)
           g == [i \in 1 .. Len(r) + 1 |-> f[i + 1]]
<1>2. Len(q) \in Nat /\ Len(r) = Len(q) - 1 /\ Len(q) >= 1 /\ Head(q) = q[1]
  OBVIOUS
<1>3. \A i \in 1 .. Len(r) : r[i] = q[i + 1]
  BY <1>2
<1>4. g \in [1 .. Len(r) + 1 -> Int]
  BY <1>2
<1>5. g[1] = x + w[Head(q)] /\ g[Len(r) + 1] = y
  BY <1>1, <1>2
<1>6. ASSUME NEW i \in 1 .. Len(r) PROVE g[i + 1] = g[i] + w[r[i]]
  BY <1>1, <1>2, <1>3
<1> HIDE DEF g, r
<1>7. Leads(r, w, x + w[Head(q)], y)
  BY <1>4, <1>5, <1>6 DEF Leads
<1> QED BY <1>7 DEF r

-----------------------------------------------------------------------------
(* The events and what each of them weighs.                                *)

StakerEvents ==
    [kind : {"PlacedStake", "WithdrewStake", "OrderedWithdrawal", "ClaimedOrderedWithdrawal"},
     pool : Pools, staker : Stakers, amount : Nat \ {0}]

MoveEvents ==
    {e \in [kind : {"MovedStake"}, pool : Pools, to : Pools, staker : Stakers,
            amount : Nat \ {0}] : e.to # e.pool}

GatherEvents == [kind : {"GatherAbandonedStakes"}, pool : Pools, amount : Nat \ {0}]

Events == StakerEvents \cup MoveEvents \cup GatherEvents

EventsOf(k) == {e \in Events : e.kind = k}

(* By how much an event changes what pool p has,                           *)
PoolWeight(p) == [e \in Events |->
    IF e.kind = "OrderedWithdrawal" THEN 0
    ELSE IF e.kind = "MovedStake"
         THEN IF e.pool = p THEN -e.amount ELSE IF e.to = p THEN e.amount ELSE 0
    ELSE IF e.pool # p THEN 0
    ELSE IF e.kind = "PlacedStake" THEN e.amount ELSE -e.amount]

(* what s has delegated to p, what was claimed or gathered included,       *)
StakerWeight(p, s) == [e \in Events |->
    IF e.kind = "MovedStake" /\ e.staker = s
    THEN IF e.pool = p THEN -e.amount ELSE IF e.to = p THEN e.amount ELSE 0
    ELSE IF e.kind = "PlacedStake" /\ e.pool = p /\ e.staker = s THEN e.amount
    ELSE IF e.kind = "WithdrewStake" /\ e.pool = p /\ e.staker = s THEN -e.amount
    ELSE 0]

(* and what s has ordered of it.                                           *)
OrderWeight(p, s) == [e \in Events |->
    IF e.kind = "OrderedWithdrawal" /\ e.pool = p /\ e.staker = s THEN e.amount
    ELSE IF e.kind = "ClaimedOrderedWithdrawal" /\ e.pool = p /\ e.staker = s THEN -e.amount
    ELSE 0]

LEMMA EventFields ==
    ASSUME NEW e \in Events
    PROVE  /\ e.kind \in Kinds /\ e.pool \in Pools /\ e.amount \in Nat \ {0}
           /\ e.kind # "GatherAbandonedStakes" => e.staker \in Stakers
           /\ e.kind = "MovedStake" => e.to \in Pools /\ e.to # e.pool
BY DEF Events, StakerEvents, MoveEvents, GatherEvents, Kinds

LEMMA Weights ==
    ASSUME NEW e \in Events, NEW p, NEW s
    PROVE  PoolWeight(p)[e] \in Int /\ StakerWeight(p, s)[e] \in Int /\ OrderWeight(p, s)[e] \in Int
<1>1. e.amount \in Nat
  BY EventFields
<1> QED BY <1>1 DEF PoolWeight, StakerWeight, OrderWeight

LEMMA SeqWider ==
    ASSUME NEW S, NEW T, S \subseteq T, NEW q \in Seq(S)
    PROVE  q \in Seq(T)
<1>1. Len(q) \in Nat /\ q \in [1 .. Len(q) -> T]
  OBVIOUS
<1> QED BY <1>1

EmittedTyped(em) == DOMAIN em = Kinds /\ \A k \in Kinds : em[k] \in Seq(EventsOf(k))

(* The events of a block, whatever their order, take x to y.               *)
AllLead(em, w, x, y) ==
    \E d \in [Kinds -> Int] :
        /\ \A k \in Kinds : Leads(em[k], w, 0, d[k])
        /\ x + d["PlacedStake"] + d["WithdrewStake"] + d["MovedStake"] + d["OrderedWithdrawal"]
             + d["ClaimedOrderedWithdrawal"] + d["GatherAbandonedStakes"] = y

LEMMA AllLeadStart == ASSUME NEW w, NEW x \in Int PROVE AllLead(NoEvents, w, x, x)
<1> DEFINE d == [k \in Kinds |-> 0]
<1>1. \A k \in Kinds : Leads(NoEvents[k], w, 0, d[k])
  BY LeadsStart DEF NoEvents
<1>2. d \in [Kinds -> Int] /\ \A k \in Kinds : d[k] = 0
  OBVIOUS
<1>3. x + d["PlacedStake"] + d["WithdrewStake"] + d["MovedStake"] + d["OrderedWithdrawal"]
             + d["ClaimedOrderedWithdrawal"] + d["GatherAbandonedStakes"] = x
  BY DEF Kinds
<1> HIDE DEF d
<1> QED BY <1>1, <1>2, <1>3 DEF AllLead

LEMMA AllLeadEmit ==
    ASSUME NEW em, EmittedTyped(em), NEW e \in Events, NEW w, w[e] \in Int,
           NEW x \in Int, NEW y \in Int, AllLead(em, w, x, y)
    PROVE  AllLead([em EXCEPT ![e.kind] = Append(@, e)], w, x, y + w[e])
<1>1. PICK d \in [Kinds -> Int] :
        /\ \A k \in Kinds : Leads(em[k], w, 0, d[k])
        /\ x + d["PlacedStake"] + d["WithdrewStake"] + d["MovedStake"] + d["OrderedWithdrawal"]
             + d["ClaimedOrderedWithdrawal"] + d["GatherAbandonedStakes"] = y
  BY DEF AllLead
<1> DEFINE j == e.kind
           n == [em EXCEPT ![j] = Append(@, e)]
           c == [d EXCEPT ![j] = @ + w[e]]
<1>2. j \in Kinds /\ e \in EventsOf(j) /\ DOMAIN em = Kinds /\ em[j] \in Seq(EventsOf(j))
  BY EventFields DEF EventsOf, EmittedTyped
<1>3. c \in [Kinds -> Int] /\ \A k \in Kinds : c[k] = IF k = j THEN d[k] + w[e] ELSE d[k]
  BY <1>2
<1>4. n[j] = Append(em[j], e) /\ \A k \in Kinds : k # j => n[k] = em[k]
  BY <1>2
<1>5. Leads(n[j], w, 0, c[j])
  <2>1. Leads(em[j], w, 0, d[j]) /\ d[j] \in Int
    BY <1>1, <1>2
  <2>2. Leads(Append(em[j], e), w, 0, d[j] + w[e])
    <3> HIDE DEF j, n, c
    <3> QED BY <1>2, <2>1, LeadsAppend
  <2> QED BY <2>2, <1>2, <1>3, <1>4
<1>6. \A k \in Kinds : Leads(n[k], w, 0, c[k])
  <2> HIDE DEF n, c, j
  <2> QED BY <1>1, <1>3, <1>4, <1>5
<1>7. x + c["PlacedStake"] + c["WithdrewStake"] + c["MovedStake"] + c["OrderedWithdrawal"]
             + c["ClaimedOrderedWithdrawal"] + c["GatherAbandonedStakes"] = y + w[e]
  <2> DEFINE v == w[e]
  <2>1. \A k \in Kinds : d[k] \in Int /\ c[k] = IF k = j THEN d[k] + v ELSE d[k]
    BY <1>3
  <2>2. v \in Int
    OBVIOUS
  <2> HIDE DEF j, n, c, v
  <2>3. x + c["PlacedStake"] + c["WithdrewStake"] + c["MovedStake"] + c["OrderedWithdrawal"]
             + c["ClaimedOrderedWithdrawal"] + c["GatherAbandonedStakes"] = y + v
    <3> DEFINE at(k) == IF j = k THEN v ELSE 0
    <3>1. x + d["PlacedStake"] + d["WithdrewStake"] + d["MovedStake"] + d["OrderedWithdrawal"]
            + d["ClaimedOrderedWithdrawal"] + d["GatherAbandonedStakes"] = y
      BY <1>1
    <3>2. \A k \in Kinds : d[k] \in Int /\ at(k) \in Int /\ c[k] = d[k] + at(k)
      BY <2>1, <2>2
    <3>3. at("PlacedStake") + at("WithdrewStake") + at("MovedStake") + at("OrderedWithdrawal")
            + at("ClaimedOrderedWithdrawal") + at("GatherAbandonedStakes") = v
      BY <1>2, <2>2 DEF Kinds
    <3> HIDE DEF at
    <3>4. \A a1, a2, a3, a4, a5, a6, b1, b2, b3, b4, b5, b6 \in Int :
            x + (a1 + b1) + (a2 + b2) + (a3 + b3) + (a4 + b4) + (a5 + b5) + (a6 + b6)
              = x + a1 + a2 + a3 + a4 + a5 + a6 + (b1 + b2 + b3 + b4 + b5 + b6)
      OBVIOUS
    <3> QED BY <3>1, <3>2, <3>3, <3>4 DEF Kinds
  <2> QED BY <2>3 DEF v
<1> HIDE DEF n, c
<1>8. AllLead(n, w, x, y + w[e])
  BY <1>3, <1>6, <1>7 DEF AllLead
<1> QED BY <1>8 DEF n

(* What the six sequences add up to, ByKind does.                          *)
LEMMA AllLeadVisits ==
    ASSUME EmittedTyped(emitted), NEW w, \A e \in Events : w[e] \in Int,
           NEW x \in Int, NEW y, AllLead(emitted, w, x, y)
    PROVE  Leads(ByKind, w, x, y)
<1>1. PICK d \in [Kinds -> Int] :
        /\ \A k \in Kinds : Leads(emitted[k], w, 0, d[k])
        /\ x + d["PlacedStake"] + d["WithdrewStake"] + d["MovedStake"] + d["OrderedWithdrawal"]
             + d["ClaimedOrderedWithdrawal"] + d["GatherAbandonedStakes"] = y
  BY DEF AllLead
<1>2. \A k \in Kinds : emitted[k] \in Seq(Events)
  BY SeqWider DEF EmittedTyped, EventsOf
<1>3. ASSUME NEW k \in Kinds, NEW c \in Int PROVE Leads(emitted[k], w, c, c + d[k]) /\ c + d[k] \in Int
  <2>1. Leads(emitted[k], w, 0, d[k]) /\ d[k] \in Int /\ 0 \in Int /\ emitted[k] \in Seq(Events)
    BY <1>1, <1>2
  <2>2. Leads(emitted[k], w, 0 + c, d[k] + c)
    BY <2>1, LeadsShift
  <2> QED BY <2>1, <2>2
<1> DEFINE a == x + d["PlacedStake"]
           b == a + d["WithdrewStake"]
           f == b + d["MovedStake"]
           g == f + d["OrderedWithdrawal"]
           h == g + d["ClaimedOrderedWithdrawal"]
<1>4. Leads(emitted["PlacedStake"], w, x, a) /\ a \in Int
  BY <1>3 DEF Kinds
<1>5. Leads(emitted["WithdrewStake"], w, a, b) /\ b \in Int
  BY <1>3, <1>4 DEF Kinds
<1>6. Leads(emitted["MovedStake"], w, b, f) /\ f \in Int
  BY <1>3, <1>5 DEF Kinds
<1>7. Leads(emitted["OrderedWithdrawal"], w, f, g) /\ g \in Int
  BY <1>3, <1>6 DEF Kinds
<1>8. Leads(emitted["ClaimedOrderedWithdrawal"], w, g, h) /\ h \in Int
  BY <1>3, <1>7 DEF Kinds
<1>9. Leads(emitted["GatherAbandonedStakes"], w, h, y)
  BY <1>1, <1>3, <1>8 DEF Kinds
<1> HIDE DEF a, b, f, g, h
<1> DEFINE A == emitted["PlacedStake"]
           B == emitted["WithdrewStake"]
           C == emitted["MovedStake"]
           D == emitted["OrderedWithdrawal"]
           E == emitted["ClaimedOrderedWithdrawal"]
           G == emitted["GatherAbandonedStakes"]
<1>10. /\ A \in Seq(Events) /\ B \in Seq(Events) /\ C \in Seq(Events)
       /\ D \in Seq(Events) /\ E \in Seq(Events) /\ G \in Seq(Events)
  BY <1>2 DEF Kinds
<1>11. ByKind = A \o B \o C \o (D \o E) \o G
  BY DEF ByKind, PlacedStakeEvents, WithdrewStakeEvents, MovedStakeEvents, WithdrawalOrderEvents,
         GatherAbandonedStakesEvents
<1>12. /\ A \o B \in Seq(Events) /\ A \o B \o C \in Seq(Events) /\ D \o E \in Seq(Events)
       /\ A \o B \o C \o (D \o E) \in Seq(Events)
  <2> HIDE DEF A, B, C, D, E, G
  <2>1. A \o B \in Seq(Events) /\ D \o E \in Seq(Events)
    BY <1>10
  <2>2. A \o B \o C \in Seq(Events)
    BY <1>10, <2>1
  <2> QED BY <1>10, <2>1, <2>2
<1>13. Leads(A \o B, w, x, b)
  BY <1>4, <1>5, <1>10, LeadsJoin
<1>14. Leads(A \o B \o C, w, x, f)
  BY <1>6, <1>10, <1>12, <1>13, LeadsJoin
<1>15. Leads(D \o E, w, f, h)
  BY <1>7, <1>8, <1>10, LeadsJoin
<1>16. Leads(A \o B \o C \o (D \o E), w, x, h)
  BY <1>12, <1>14, <1>15, LeadsJoin
<1> HIDE DEF A, B, C, D, E
<1>17. Leads(A \o B \o C \o (D \o E) \o G, w, x, y)
  BY <1>9, <1>10, <1>12, <1>16, LeadsJoin
<1> QED BY <1>11, <1>17

-----------------------------------------------------------------------------
(* The rows of stake_history.                                              *)

HistoryRows == [pool : Pools, from : Nat, to : Nat, amount : Int]
OrderRows ==
    [id : Nat, pool : Pools, staker : Stakers, amount : Nat, placed : Nat, claimed : Nat]

Tables ==
    {t \in [history : SUBSET HistoryRows, orders : SUBSET OrderRows,
            delegated : [Accounts -> Int]] : IsFiniteSet(t.orders)}

HasRow(t, p) == \E r \in t.history : r.pool = p

(* n is the row of p that getLastStakeHistoryRecord looks for.             *)
Newest(t, p, n) ==
    /\ n \in t.history /\ n.pool = p /\ n.from = n.to /\ n.to <= block
    /\ \A r \in t.history : r.pool = p /\ r # n => r.to < n.to /\ r.from <= n.from

(* What the table says that p has; 0 when there is no row.                 *)
Stands(t, p, x) ==
    IF HasRow(t, p) THEN \E n \in t.history : Newest(t, p, n) /\ n.amount = x ELSE x = 0

(* What the table says that p had at block b.                              *)
Told(t, p, b, x) ==
    LET rows == RowsAt(t, p, b)
    IN  IF rows = {} THEN x = 0 ELSE \E r \in rows : rows = {r} /\ r.amount = x

LEMMA LastFound ==
    ASSUME NEW t \in Tables, NEW p, NEW n, Newest(t, p, n)
    PROVE  LastRecords(t, p) = {n}
<1> DEFINE ends == {r.to : r \in {q \in t.history : q.pool = p /\ q.from = q.to}}
           rows == {r \in t.history : r.pool = p /\ ends # {} /\ r.to = Max(ends)}
<1>1. t.history \subseteq HistoryRows /\ \A r \in t.history : r.to \in Nat
  BY DEF Tables, HistoryRows
<1>2. n.to \in ends /\ \A e \in ends : e \in Nat /\ e <= n.to
  BY <1>1 DEF Newest
<1>3. Max(ends) = n.to
  <2> HIDE DEF ends
  <2> QED BY <1>2 DEF Max
<1>4. rows = {n}
  <2>1. ASSUME NEW r \in rows PROVE r = n
    BY <1>1, <1>3 DEF Newest
  <2>2. n \in rows
    BY <1>2, <1>3 DEF Newest
  <2> QED BY <2>1, <2>2
<1>5. Cardinality({n}) = 1
  BY FS_Singleton
<1> HIDE DEF rows
<1>6. (IF Cardinality(rows) = 1 THEN rows ELSE {}) = {n}
  BY <1>4, <1>5
<1> QED BY <1>6 DEF LastRecords, rows

LEMMA NoneFound ==
    ASSUME NEW t, NEW p, ~HasRow(t, p)
    PROVE  LastRecords(t, p) = {}
BY FS_EmptySet DEF LastRecords, HasRow

LEMMA StandsOnce ==
    ASSUME NEW t \in Tables, NEW p, NEW x, NEW y, Stands(t, p, x), Stands(t, p, y)
    PROVE  x = y
<1>1. \A r \in t.history : r.to \in Nat
  BY DEF Tables, HistoryRows
<1> QED BY <1>1 DEF Stands, Newest

(* The newest row speaks for every block from its own on, and for none     *)
(* before.                                                                 *)
LEMMA NewestSpeaks ==
    ASSUME block \in Nat, NEW t \in Tables, NEW p, NEW n, Newest(t, p, n), NEW b \in Nat
    PROVE  /\ n.to <= b => RowsAt(t, p, b) = {n}
           /\ b < n.to => RowsAt(t, p, b) =
                            {r \in t.history : r.pool = p /\ r # n /\ r.from <= b /\ b <= r.to}
<1>1. \A r \in t.history : r.to \in Nat /\ r.from \in Nat
  BY DEF Tables, HistoryRows
<1>2. n \in RowsOf(t, p)
  BY <1>1 DEF RowsOf, Newest
<1>3. ASSUME n.to <= b PROVE RowsAt(t, p, b) = {n}
  <2>1. n \in RowsAt(t, p, b)
    BY <1>1, <1>2, <1>3 DEF RowsAt, RowsOf, Newest
  <2>2. ASSUME NEW r \in RowsAt(t, p, b), r # n PROVE FALSE
    <3>1. r \in t.history /\ r.pool = p /\ r.from <= r.to /\ r.to < n.to
      BY <2>2 DEF RowsAt, RowsOf, Newest
    <3>2. n.from <= r.from
      BY <1>1, <1>2, <1>3, <2>2, <3>1 DEF RowsAt, Newest
    <3> QED BY <1>1, <3>1, <3>2 DEF Newest
  <2> QED BY <2>1, <2>2
<1>4. ASSUME b < n.to
      PROVE  RowsAt(t, p, b) = {r \in t.history : r.pool = p /\ r # n /\ r.from <= b /\ b <= r.to}
  <2>1. ASSUME NEW r \in RowsAt(t, p, b)
        PROVE  r \in t.history /\ r.pool = p /\ r # n /\ r.from <= b /\ b <= r.to
    BY <1>1, <1>2, <1>4 DEF RowsAt, RowsOf, Newest
  <2>2. ASSUME NEW r \in t.history, r.pool = p, r # n, r.from <= b, b <= r.to
        PROVE  r \in RowsAt(t, p, b)
    BY <1>1, <2>2 DEF RowsAt, RowsOf
  <2> QED BY <2>1, <2>2
<1> QED BY <1>3, <1>4

(* Statements that touch the rows of p only and let p stand at x.          *)
Credits(t, u, p, x) ==
    /\ u \in Tables /\ u.orders = t.orders /\ u.delegated = t.delegated
    /\ HasRow(u, p) /\ Stands(u, p, x)
    /\ \A r : r.pool # p => (r \in u.history <=> r \in t.history)
    /\ \A b \in 1 .. block - 1, y \in Int : Told(t, p, b, y) => Told(u, p, b, y)

LEMMA StartedCredits ==
    ASSUME block \in Nat \ {0}, NEW t \in Tables, NEW p \in Pools, ~HasRow(t, p),
           NEW x \in Int, NEW u \in Started(t, p, x)
    PROVE  Credits(t, u, p, x)
<1> DEFINE m == NewRow(p, x)
<1>1. u = [t EXCEPT !.history = @ \cup {m}]
  BY DEF Started
<1>2. m \in HistoryRows /\ m.pool = p /\ m.from = block /\ m.to = block /\ m.amount = x
  BY DEF NewRow, HistoryRows
<1>3. /\ u.history = t.history \cup {m} /\ u.orders = t.orders /\ u.delegated = t.delegated
      /\ u \in Tables
  BY <1>1, <1>2 DEF Tables
<1> HIDE DEF m
<1>4. Newest(u, p, m)
  BY <1>2, <1>3 DEF Newest, HasRow
<1>5. HasRow(u, p) /\ Stands(u, p, x)
  BY <1>2, <1>3, <1>4 DEF HasRow, Stands
<1>6. \A r : r.pool # p => (r \in u.history <=> r \in t.history)
  BY <1>2, <1>3
<1>7. ASSUME NEW b \in 1 .. block - 1 PROVE RowsAt(t, p, b) = {} /\ RowsAt(u, p, b) = {}
  <2>1. RowsAt(u, p, b) = {r \in u.history : r.pool = p /\ r # m /\ r.from <= b /\ b <= r.to}
    BY <1>2, <1>3, <1>4, NewestSpeaks
  <2> QED BY <1>3, <2>1 DEF HasRow, RowsAt, RowsOf
<1>8. \A b \in 1 .. block - 1, y \in Int : Told(t, p, b, y) => Told(u, p, b, y)
  BY <1>7 DEF Told
<1> QED BY <1>3, <1>5, <1>6, <1>8 DEF Credits

LEMMA ChangedCredits ==
    ASSUME block \in Nat \ {0}, NEW t \in Tables, NEW p \in Pools, NEW n, Newest(t, p, n),
           NEW c \in Int, NEW u \in Changed(t, p, c)
    PROVE  Credits(t, u, p, n.amount + c)
<1> DEFINE x == n.amount + c
           m == NewRow(p, x)
           d == [n EXCEPT !.to = block - 1]
<1>1. LastRecords(t, p) = {n}
  BY LastFound
<1>2. u \in Amended(t, p, x)
  BY <1>1 DEF Changed
<1>3. u = [t EXCEPT !.history = (@ \ {n}) \cup {d, m}]
  BY <1>1, <1>2 DEF Amended
<1>4. \A r \in t.history : r.to \in Nat /\ r.from \in Nat
  BY DEF Tables, HistoryRows
<1>5. n \in t.history /\ n \in HistoryRows /\ n.pool = p /\ n.from = n.to /\ n.to <= block
  BY DEF Newest, Tables
<1>6. /\ d \in HistoryRows /\ d.pool = p /\ d.from = n.from /\ d.to = block - 1
      /\ d.amount = n.amount
  BY <1>5 DEF HistoryRows
<1>7. x \in Int
  BY <1>5 DEF HistoryRows
<1>8. m \in HistoryRows /\ m.pool = p /\ m.from = block /\ m.to = block /\ m.amount = x
  BY <1>7 DEF NewRow, HistoryRows
<1>9. /\ u.history = (t.history \ {n}) \cup {d, m} /\ u.orders = t.orders
      /\ u.delegated = t.delegated /\ u \in Tables
  BY <1>3, <1>6, <1>8 DEF Tables
<1> HIDE DEF m, d, x
<1>10. \A r \in t.history : r.pool = p /\ r # n => r.to < n.to /\ r.from <= n.from
  BY DEF Newest
<1>11. Newest(u, p, m)
  <2>1. ASSUME NEW r \in u.history, r.pool = p, r # m PROVE r.to < m.to /\ r.from <= m.from
    <3>1. CASE r = d
      BY <1>4, <1>5, <1>6, <1>8, <3>1
    <3>2. CASE r \in t.history /\ r # n
      BY <1>4, <1>5, <1>8, <1>10, <2>1, <3>2
    <3> QED BY <1>9, <2>1, <3>1, <3>2
  <2> QED BY <1>8, <1>9, <2>1 DEF Newest
<1>12. HasRow(u, p) /\ Stands(u, p, x)
  BY <1>8, <1>9, <1>11 DEF HasRow, Stands
<1>13. \A r : r.pool # p => (r \in u.history <=> r \in t.history)
  BY <1>5, <1>6, <1>8, <1>9
<1>14. ASSUME NEW b \in 1 .. block - 1, NEW y \in Int, Told(t, p, b, y) PROVE Told(u, p, b, y)
  <2>1. RowsAt(u, p, b) = {r \in u.history : r.pool = p /\ r # m /\ r.from <= b /\ b <= r.to}
    BY <1>8, <1>9, <1>11, NewestSpeaks
  <2>2. CASE n.to <= b
    <3>1. RowsAt(t, p, b) = {n}
      BY <2>2, NewestSpeaks
    <3>2. RowsAt(u, p, b) = {d}
      <4>1. d \in RowsAt(u, p, b)
        BY <1>5, <1>6, <1>8, <1>9, <2>1, <2>2
      <4>2. ASSUME NEW r \in RowsAt(u, p, b), r # d PROVE FALSE
        BY <1>4, <1>5, <1>9, <1>10, <2>1, <2>2, <4>2
      <4> QED BY <4>1, <4>2
    <3> QED BY <1>6, <1>14, <3>1, <3>2 DEF Told
  <2>3. CASE b < n.to
    <3>1. RowsAt(t, p, b) = {r \in t.history : r.pool = p /\ r # n /\ r.from <= b /\ b <= r.to}
      BY <2>3, NewestSpeaks
    <3>2. ASSUME NEW r \in RowsAt(u, p, b) PROVE r \in RowsAt(t, p, b)
      BY <1>4, <1>5, <1>6, <1>9, <2>1, <2>3, <3>1
    <3>3. ASSUME NEW r \in RowsAt(t, p, b) PROVE r \in RowsAt(u, p, b)
      BY <1>4, <1>5, <1>8, <1>9, <1>10, <2>1, <2>3, <3>1
    <3>4. RowsAt(u, p, b) = RowsAt(t, p, b)
      BY <3>2, <3>3
    <3> QED BY <1>14, <3>4 DEF Told
  <2> QED BY <1>4, <1>5, <2>2, <2>3
<1>15. Credits(t, u, p, x)
  BY <1>9, <1>12, <1>13, <1>14 DEF Credits
<1> QED BY <1>15 DEF x

(* Either way, which is how the visitors use them.                         *)
LEMMA Credited ==
    ASSUME block \in Nat \ {0}, NEW t \in Tables, NEW p \in Pools, NEW x \in Int, Stands(t, p, x),
           NEW a \in Int, NEW c \in Int,
           NEW u \in IF LastRecords(t, p) = {} THEN Started(t, p, a) ELSE Changed(t, p, c)
    PROVE  Credits(t, u, p, IF HasRow(t, p) THEN x + c ELSE a)
<1>1. CASE HasRow(t, p)
  <2>1. PICK n \in t.history : Newest(t, p, n) /\ n.amount = x
    BY <1>1 DEF Stands
  <2>2. u \in Changed(t, p, c)
    BY <2>1, LastFound
  <2> QED BY <1>1, <2>1, <2>2, ChangedCredits
<1>2. CASE ~HasRow(t, p)
  <2>1. u \in Started(t, p, a)
    BY <1>2, NoneFound
  <2> QED BY <1>2, <2>1, StartedCredits
<1> QED BY <1>1, <1>2

(* The rows of a pool are all that is said of it.                          *)
LEMMA OthersKept ==
    ASSUME NEW t, NEW u, NEW p, \A r : r.pool = p => (r \in u.history <=> r \in t.history)
    PROVE  /\ HasRow(u, p) <=> HasRow(t, p)
           /\ \A x : Stands(u, p, x) <=> Stands(t, p, x)
           /\ \A b, x : Told(u, p, b, x) <=> Told(t, p, b, x)
<1>1. HasRow(u, p) <=> HasRow(t, p)
  BY DEF HasRow
<1>2. \A n : Newest(u, p, n) <=> Newest(t, p, n)
  BY DEF Newest
<1>3. \A x : Stands(u, p, x) <=> Stands(t, p, x)
  BY <1>1, <1>2 DEF Stands, Newest
<1>4. RowsOf(u, p) = RowsOf(t, p)
  BY DEF RowsOf
<1>5. \A b : RowsAt(u, p, b) = RowsAt(t, p, b)
  BY <1>4 DEF RowsAt
<1> QED BY <1>1, <1>3, <1>5 DEF Told

-----------------------------------------------------------------------------
(* What the visit of one event does to the tables.                         *)

After(t, e) ==
    IF e.kind \in {"PlacedStake", "WithdrewStake"} THEN StakeChanged(t, e)
    ELSE IF e.kind = "MovedStake" THEN StakeMoved(t, e)
    ELSE IF e.kind = "OrderedWithdrawal" THEN WithdrawalOrdered(t, e)
    ELSE IF e.kind = "ClaimedOrderedWithdrawal" THEN OrderClaimed(t, e)
    ELSE StakesGathered(t, e)

Sound(t, p) == \E x \in Int : Stands(t, p, x)

(* What is open of the orders of s is x.                                   *)
Opens(t, p, s, x) ==
    LET open == OpenOrders(t, [pool |-> p, staker |-> s])
    IN  IF x = 0 THEN open = {} ELSE \E o \in open : open = {o} /\ o.amount = x

Brings(e, p) ==
    \/ e.kind = "PlacedStake" /\ e.pool = p
    \/ e.kind = "MovedStake" /\ e.to = p

OfAccount(e, kind, p, s) == e.kind = kind /\ e.pool = p /\ e.staker = s

(* An event of e's kind is visited with nothing lost: its pool has a row   *)
(* to count it in, and what is claimed is what is open.                    *)
Counts(t, e) ==
    /\ e.kind \notin {"PlacedStake", "OrderedWithdrawal"} => HasRow(t, e.pool)
    /\ e.kind = "ClaimedOrderedWithdrawal" => Opens(t, e.pool, e.staker, e.amount)

Visited(t, u, e) ==
    /\ u \in Tables
    /\ \A p \in Pools : Sound(u, p)
    /\ \A p \in Pools : HasRow(t, p) \/ Brings(e, p) => HasRow(u, p)
    /\ \A p \in Pools, b \in 1 .. block - 1, y \in Int : Told(t, p, b, y) => Told(u, p, b, y)
    /\ \A p \in Pools, s \in Stakers :
         u.delegated[<<p, s>>] = t.delegated[<<p, s>>] + IF p = s THEN 0 ELSE StakerWeight(p, s)[e]
    /\ Counts(t, e) =>
         \A p \in Pools, x \in Int : Stands(t, p, x) => Stands(u, p, x + PoolWeight(p)[e])
    /\ Counts(t, e) =>
         \A p \in Pools, s \in Stakers, x \in Nat :
            /\ Opens(t, p, s, x)
            /\ OfAccount(e, "ClaimedOrderedWithdrawal", p, s) => x = e.amount
            => Opens(u, p, s, x + OrderWeight(p, s)[e])

(* c more delegated stake of s in p, and nothing else.                     *)
Delegates(t, d, p, s, c) ==
    /\ d \in Tables /\ d.history = t.history /\ d.orders = t.orders
    /\ \A q \in Pools, r \in Stakers :
         d.delegated[<<q, r>>] = t.delegated[<<q, r>>] + IF q = p /\ r = s /\ p # s THEN c ELSE 0

LEMMA DelegatedDoes ==
    ASSUME NEW t \in Tables, NEW p \in Pools, NEW s \in Stakers, NEW c \in Int,
           NEW d, d = Delegated(t, p, s, c)
    PROVE  Delegates(t, d, p, s, c)
<1>1. /\ t \in [history : SUBSET HistoryRows, orders : SUBSET OrderRows,
                delegated : [Accounts -> Int]]
      /\ IsFiniteSet(t.orders)
  BY DEF Tables
<1>2. \A q \in Pools, r \in Stakers : <<q, r>> \in Accounts /\ t.delegated[<<q, r>>] \in Int
  BY <1>1 DEF Accounts
<1>3. CASE p = s
  BY <1>2, <1>3 DEF Delegated, Delegates
<1>4. CASE p # s
  <2> DEFINE f == [t.delegated EXCEPT ![<<p, s>>] = @ + c]
  <2>1. d = [t EXCEPT !.delegated = f]
    BY <1>4 DEF Delegated
  <2>2. f \in [Accounts -> Int]
    BY <1>1, <1>2
  <2>3. ASSUME NEW q \in Pools, NEW r \in Stakers
        PROVE  f[<<q, r>>] = t.delegated[<<q, r>>] + IF q = p /\ r = s THEN c ELSE 0
    <3>1. f[<<q, r>>] = IF <<q, r>> = <<p, s>> THEN t.delegated[<<p, s>>] + c
                        ELSE t.delegated[<<q, r>>]
      BY <1>1, <1>2
    <3>2. <<q, r>> = <<p, s>> <=> q = p /\ r = s
      OBVIOUS
    <3> QED BY <1>2, <3>1, <3>2
  <2> HIDE DEF f
  <2>4. d.history = t.history /\ d.orders = t.orders /\ d.delegated = f /\ d \in Tables
    BY <1>1, <2>1, <2>2 DEF Tables
  <2> QED BY <1>4, <2>3, <2>4 DEF Delegates
<1> QED BY <1>3, <1>4

CreditsOnly(t, u, p, y) ==
    /\ u \in Tables /\ HasRow(u, p) /\ Stands(u, p, y)
    /\ u.orders = t.orders /\ u.delegated = t.delegated
    /\ \A q \in Pools : Sound(u, q) /\ (HasRow(t, q) => HasRow(u, q))
    /\ \A q \in Pools, x \in Int : q # p /\ Stands(t, q, x) => Stands(u, q, x)
    /\ \A q \in Pools, b \in 1 .. block - 1, x \in Int : Told(t, q, b, x) => Told(u, q, b, x)

LEMMA CreditsAll ==
    ASSUME NEW t, NEW u, NEW p \in Pools, NEW y \in Int, Credits(t, u, p, y),
           \A q \in Pools : Sound(t, q)
    PROVE  CreditsOnly(t, u, p, y)
<1>1. ASSUME NEW q, q # p
      PROVE  /\ HasRow(u, q) <=> HasRow(t, q)
             /\ \A x : Stands(u, q, x) <=> Stands(t, q, x)
             /\ \A b, x : Told(u, q, b, x) <=> Told(t, q, b, x)
  <2>1. \A r : r.pool = q => (r \in u.history <=> r \in t.history)
    BY <1>1 DEF Credits
  <2> QED BY <2>1, OthersKept
<1>2. ASSUME NEW q \in Pools PROVE Sound(u, q) /\ (HasRow(t, q) => HasRow(u, q))
  BY <1>1 DEF Credits, Sound
<1>3. ASSUME NEW q \in Pools, NEW b \in 1 .. block - 1, NEW x \in Int, Told(t, q, b, x)
      PROVE  Told(u, q, b, x)
  BY <1>1, <1>3 DEF Credits
<1> QED BY <1>1, <1>2, <1>3 DEF Credits, CreditsOnly

LEMMA SameHistory ==
    ASSUME NEW t, NEW u, u.history = t.history, NEW p
    PROVE  /\ HasRow(u, p) <=> HasRow(t, p)
           /\ LastRecords(u, p) = LastRecords(t, p)
           /\ \A x : Stands(u, p, x) <=> Stands(t, p, x)
           /\ \A b, x : Told(u, p, b, x) <=> Told(t, p, b, x)
<1>1. LastRecords(u, p) = LastRecords(t, p)
  BY DEF LastRecords
<1> QED BY <1>1, OthersKept

LEMMA SameOrders ==
    ASSUME NEW t, NEW u, u.orders = t.orders
    PROVE  \A p, s, x : Opens(u, p, s, x) <=> Opens(t, p, s, x)
BY DEF Opens, OpenOrders

LEMMA StakeChangedVisited ==
    ASSUME block \in Nat \ {0}, NEW t \in Tables, \A p \in Pools : Sound(t, p), NEW e \in Events,
           e.kind \in {"PlacedStake", "WithdrewStake"}, NEW u \in StakeChanged(t, e)
    PROVE  Visited(t, u, e)
<1> DEFINE c == StakeChangeAmount(e)
<1>0. PICK d : d = Delegated(t, e.pool, e.staker, c)
  OBVIOUS
<1>1. /\ e.pool \in Pools /\ e.staker \in Stakers /\ e.amount \in Nat
      /\ c = IF e.kind = "WithdrewStake" THEN -e.amount ELSE e.amount
  BY EventFields DEF StakeChangeAmount
<1>2. c \in Int
  BY <1>1
<1>3. u \in IF LastRecords(d, e.pool) = {} THEN Started(d, e.pool, e.amount)
            ELSE Changed(d, e.pool, c)
  BY <1>0 DEF StakeChanged
<1> HIDE DEF c
<1>d. Delegates(t, d, e.pool, e.staker, c)
  BY <1>0, <1>1, <1>2, DelegatedDoes
<1>4. d \in Tables /\ d.history = t.history /\ d.orders = t.orders
  BY <1>d DEF Delegates
<1>5. PICK x \in Int : Stands(t, e.pool, x)
  BY <1>1 DEF Sound
<1>6. \A p : /\ HasRow(d, p) <=> HasRow(t, p)
             /\ \A z : Stands(d, p, z) <=> Stands(t, p, z)
             /\ \A b, z : Told(d, p, b, z) <=> Told(t, p, b, z)
  BY <1>4, SameHistory
<1> DEFINE y == IF HasRow(d, e.pool) THEN x + c ELSE e.amount
<1>7. Credits(d, u, e.pool, y) /\ y \in Int
  <2>1. Stands(d, e.pool, x) /\ d \in Tables /\ e.amount \in Int
    BY <1>1, <1>4, <1>5, <1>6
  <2>2. y \in Int
    BY <1>2, <2>1
  <2> QED BY <1>1, <1>2, <1>3, <2>1, <2>2, Credited
<1>8. \A q \in Pools : Sound(d, q)
  BY <1>6 DEF Sound
<1> HIDE DEF y
<1>9. /\ u \in Tables /\ HasRow(u, e.pool) /\ Stands(u, e.pool, y)
      /\ u.orders = d.orders /\ u.delegated = d.delegated
      /\ \A q \in Pools : Sound(u, q) /\ (HasRow(d, q) => HasRow(u, q))
      /\ \A q \in Pools, z \in Int : q # e.pool /\ Stands(d, q, z) => Stands(u, q, z)
      /\ \A q \in Pools, b \in 1 .. block - 1, z \in Int : Told(d, q, b, z) => Told(u, q, b, z)
  <2>1. CreditsOnly(d, u, e.pool, y)
    BY <1>1, <1>7, <1>8, CreditsAll
  <2> QED BY <2>1 DEF CreditsOnly
<1>10. \A p \in Pools : HasRow(t, p) \/ Brings(e, p) => HasRow(u, p)
  BY <1>6, <1>9 DEF Brings
<1>11. ASSUME NEW p \in Pools, NEW s \in Stakers
       PROVE  u.delegated[<<p, s>>] =
                t.delegated[<<p, s>>] + IF p = s THEN 0 ELSE StakerWeight(p, s)[e]
  <2>1. StakerWeight(p, s)[e] = IF e.pool = p /\ e.staker = s THEN c ELSE 0
    BY <1>1 DEF StakerWeight
  <2> QED BY <1>d, <1>9, <2>1 DEF Delegates
<1>12. ASSUME NEW p \in Pools, NEW z \in Int, Stands(t, p, z), Counts(t, e)
       PROVE  Stands(u, p, z + PoolWeight(p)[e])
  <2>1. PoolWeight(p)[e] = IF e.pool = p THEN c ELSE 0
    BY <1>1 DEF PoolWeight
  <2>2. CASE p # e.pool
    BY <1>6, <1>9, <1>12, <2>1, <2>2
  <2>3. CASE p = e.pool
    <3>1. z = x
      BY <1>5, <1>12, <2>3, StandsOnce
    <3>2. CASE HasRow(t, p)
      BY <1>6, <1>9, <2>1, <2>3, <3>1, <3>2 DEF y
    <3>3. CASE ~HasRow(t, p)
      <4>1. c = e.amount /\ z = 0
        BY <1>1, <1>12, <2>3, <3>3 DEF Counts, Stands
      <4> QED BY <1>1, <1>6, <1>9, <2>1, <2>3, <3>3, <4>1 DEF y
    <3> QED BY <3>2, <3>3
  <2> QED BY <2>2, <2>3
<1>13. ASSUME NEW p \in Pools, NEW s \in Stakers, NEW z \in Nat, Opens(t, p, s, z)
       PROVE  Opens(u, p, s, z + OrderWeight(p, s)[e])
  <2>1. OrderWeight(p, s)[e] = 0
    BY DEF OrderWeight
  <2> QED BY <1>4, <1>9, <1>13, <2>1, SameOrders
<1> QED BY <1>6, <1>9, <1>10, <1>11, <1>12, <1>13 DEF Visited

LEMMA StakeMovedVisited ==
    ASSUME block \in Nat \ {0}, NEW t \in Tables, \A p \in Pools : Sound(t, p), NEW e \in Events,
           e.kind = "MovedStake", HasRow(t, e.pool), NEW u \in StakeMoved(t, e)
    PROVE  Visited(t, u, e)
<1>1. /\ e.pool \in Pools /\ e.to \in Pools /\ e.to # e.pool /\ e.staker \in Stakers
      /\ e.amount \in Nat /\ e.amount \in Int /\ -e.amount \in Int
  BY EventFields
<1>2. PICK x \in Int : Stands(t, e.pool, x)
  BY <1>1 DEF Sound
<1>3. PICK n \in t.history : Newest(t, e.pool, n) /\ n.amount = x
  BY <1>2 DEF Stands
<1>4. LastRecords(t, e.pool) # {}
  BY <1>3, LastFound
<1>5. PICK c \in Changed(t, e.pool, -e.amount) :
        \E d \in IF LastRecords(c, e.to) = {} THEN Started(c, e.to, e.amount)
                 ELSE Changed(c, e.to, e.amount) :
            u = Delegated(Delegated(d, e.pool, e.staker, -e.amount), e.to, e.staker, e.amount)
  BY <1>4 DEF StakeMoved
<1>0. PICK d \in IF LastRecords(c, e.to) = {} THEN Started(c, e.to, e.amount)
                ELSE Changed(c, e.to, e.amount) :
        u = Delegated(Delegated(d, e.pool, e.staker, -e.amount), e.to, e.staker, e.amount)
  BY <1>5
<1>6. PICK v \in Int : v = x - e.amount
  BY <1>1, <1>2
<1>7. Credits(t, c, e.pool, v)
  <2>1. Credits(t, c, e.pool, x + -e.amount)
    BY <1>1, <1>3, ChangedCredits
  <2> QED BY <1>1, <1>6, <2>1
<1>8. /\ c \in Tables /\ HasRow(c, e.pool) /\ Stands(c, e.pool, v)
      /\ c.orders = t.orders /\ c.delegated = t.delegated
      /\ \A q \in Pools : Sound(c, q) /\ (HasRow(t, q) => HasRow(c, q))
      /\ \A q \in Pools, z \in Int : q # e.pool /\ Stands(t, q, z) => Stands(c, q, z)
      /\ \A q \in Pools, b \in 1 .. block - 1, z \in Int : Told(t, q, b, z) => Told(c, q, b, z)
  <2>1. CreditsOnly(t, c, e.pool, v)
    BY <1>1, <1>7, CreditsAll
  <2> QED BY <2>1 DEF CreditsOnly
<1>9. PICK y \in Int : Stands(t, e.to, y)
  BY <1>1 DEF Sound
<1>10. Stands(c, e.to, y)
  BY <1>1, <1>8, <1>9
<1>11. e.amount \in Int /\ (IF HasRow(c, e.to) THEN y + e.amount ELSE e.amount) = y + e.amount
  BY <1>1, <1>10 DEF Stands
<1>12. Credits(c, d, e.to, IF HasRow(c, e.to) THEN y + e.amount ELSE e.amount)
  BY <1>1, <1>8, <1>10, <1>11, <1>0, Credited
<1>13. Credits(c, d, e.to, y + e.amount) /\ y + e.amount \in Int
  BY <1>11, <1>12
<1>14. /\ d \in Tables /\ HasRow(d, e.to) /\ Stands(d, e.to, y + e.amount)
       /\ d.orders = c.orders /\ d.delegated = c.delegated
       /\ \A q \in Pools : Sound(d, q) /\ (HasRow(c, q) => HasRow(d, q))
       /\ \A q \in Pools, z \in Int : q # e.to /\ Stands(c, q, z) => Stands(d, q, z)
       /\ \A q \in Pools, b \in 1 .. block - 1, z \in Int : Told(c, q, b, z) => Told(d, q, b, z)
  <2>1. CreditsOnly(c, d, e.to, y + e.amount)
    BY <1>1, <1>8, <1>13, CreditsAll
  <2> QED BY <2>1 DEF CreditsOnly
<1>15. PICK f : f = Delegated(d, e.pool, e.staker, -e.amount)
  OBVIOUS
<1>d. Delegates(d, f, e.pool, e.staker, -e.amount)
  BY <1>1, <1>14, <1>15, DelegatedDoes
<1>16. f \in Tables /\ f.history = d.history /\ f.orders = d.orders
  BY <1>d DEF Delegates
<1>17. u = Delegated(f, e.to, e.staker, e.amount)
  BY <1>0, <1>15
<1>e. Delegates(f, u, e.to, e.staker, e.amount)
  BY <1>1, <1>16, <1>17, DelegatedDoes
<1>18. u \in Tables /\ u.history = f.history /\ u.orders = f.orders
  BY <1>e DEF Delegates
<1>19. \A p : /\ HasRow(u, p) <=> HasRow(d, p)
              /\ \A z : Stands(u, p, z) <=> Stands(d, p, z)
              /\ \A b, z : Told(u, p, b, z) <=> Told(d, p, b, z)
  BY <1>16, <1>18, SameHistory
<1>20. \A p \in Pools : Sound(u, p)
  BY <1>14, <1>19 DEF Sound
<1>21. \A p \in Pools : HasRow(t, p) \/ Brings(e, p) => HasRow(u, p)
  BY <1>8, <1>14, <1>19 DEF Brings
<1>22. \A p \in Pools, b \in 1 .. block - 1, z \in Int : Told(t, p, b, z) => Told(u, p, b, z)
  BY <1>8, <1>14, <1>19
<1>23. ASSUME NEW p \in Pools, NEW s \in Stakers
       PROVE  u.delegated[<<p, s>>] =
                t.delegated[<<p, s>>] + IF p = s THEN 0 ELSE StakerWeight(p, s)[e]
  <2>1. StakerWeight(p, s)[e] =
            IF e.staker = s
            THEN IF e.pool = p THEN -e.amount ELSE IF e.to = p THEN e.amount ELSE 0
            ELSE 0
    BY DEF StakerWeight
  <2>2. f.delegated[<<p, s>>] = d.delegated[<<p, s>>]
            + IF p = e.pool /\ s = e.staker /\ e.pool # e.staker THEN -e.amount ELSE 0
    BY <1>d DEF Delegates
  <2>3. u.delegated[<<p, s>>] = f.delegated[<<p, s>>]
            + IF p = e.to /\ s = e.staker /\ e.to # e.staker THEN e.amount ELSE 0
    BY <1>e DEF Delegates
  <2>4. d.delegated = t.delegated
    BY <1>8, <1>14
  <2>5. t.delegated[<<p, s>>] \in Int
    BY DEF Tables, Accounts
  <2> QED BY <1>1, <2>1, <2>2, <2>3, <2>4, <2>5
<1>24. ASSUME NEW p \in Pools, NEW z \in Int, Stands(t, p, z)
       PROVE  Stands(u, p, z + PoolWeight(p)[e])
  <2>1. PoolWeight(p)[e] = IF e.pool = p THEN -e.amount ELSE IF e.to = p THEN e.amount ELSE 0
    BY DEF PoolWeight
  <2>2. CASE p = e.pool
    <3>1. z = x
      BY <1>2, <1>24, <2>2, StandsOnce
    <3> QED BY <1>1, <1>6, <1>8, <1>14, <1>19, <2>1, <2>2, <3>1
  <2>3. CASE p = e.to
    <3>1. z = y
      BY <1>9, <1>24, <2>3, StandsOnce
    <3> QED BY <1>1, <1>14, <1>19, <2>1, <2>3, <3>1
  <2>4. CASE p # e.pool /\ p # e.to
    BY <1>8, <1>14, <1>19, <1>24, <2>1, <2>4
  <2> QED BY <2>2, <2>3, <2>4
<1>25. ASSUME NEW p \in Pools, NEW s \in Stakers, NEW z \in Nat, Opens(t, p, s, z)
       PROVE  Opens(u, p, s, z + OrderWeight(p, s)[e])
  <2>1. OrderWeight(p, s)[e] = 0
    BY DEF OrderWeight
  <2>2. u.orders = t.orders
    BY <1>8, <1>14, <1>16, <1>18
  <2> QED BY <1>25, <2>1, <2>2, SameOrders
<1> QED BY <1>18, <1>20, <1>21, <1>22, <1>23, <1>24, <1>25 DEF Visited

LEMMA StakesGatheredVisited ==
    ASSUME block \in Nat \ {0}, NEW t \in Tables, \A p \in Pools : Sound(t, p), NEW e \in Events,
           e.kind = "GatherAbandonedStakes", NEW u \in StakesGathered(t, e)
    PROVE  Visited(t, u, e)
<1>1. e.pool \in Pools /\ e.amount \in Nat /\ -e.amount \in Int
  BY EventFields
<1>2. PICK x \in Int : Stands(t, e.pool, x)
  BY <1>1 DEF Sound
<1>3. \A p, s : StakerWeight(p, s)[e] = 0 /\ OrderWeight(p, s)[e] = 0
  BY DEF StakerWeight, OrderWeight
<1>4. \A p : PoolWeight(p)[e] = IF e.pool = p THEN -e.amount ELSE 0
  BY DEF PoolWeight
<1>5. \A p \in Pools, s \in Stakers : t.delegated[<<p, s>>] \in Int
  BY DEF Tables, Accounts
<1>6. CASE ~HasRow(t, e.pool)
  <2>1. u = t
    BY <1>6, NoneFound DEF StakesGathered
  <2> QED BY <1>3, <1>5, <1>6, <2>1 DEF Visited, Counts, Brings
<1>7. CASE HasRow(t, e.pool)
  <2>1. PICK n \in t.history : Newest(t, e.pool, n) /\ n.amount = x
    BY <1>2, <1>7 DEF Stands
  <2>2. LastRecords(t, e.pool) # {}
    BY <2>1, LastFound
  <2>3. u \in Changed(t, e.pool, -e.amount)
    BY <2>2 DEF StakesGathered
  <2> PICK v \in Int : v = x - e.amount
    BY <1>1
  <2>4. Credits(t, u, e.pool, v)
    <3>1. Credits(t, u, e.pool, x + -e.amount)
      BY <1>1, <2>1, <2>3, ChangedCredits
    <3> QED BY <1>1, <3>1
  <2>5. /\ u \in Tables /\ HasRow(u, e.pool) /\ Stands(u, e.pool, v)
        /\ u.orders = t.orders /\ u.delegated = t.delegated
        /\ \A q \in Pools : Sound(u, q) /\ (HasRow(t, q) => HasRow(u, q))
        /\ \A q \in Pools, z \in Int : q # e.pool /\ Stands(t, q, z) => Stands(u, q, z)
        /\ \A q \in Pools, b \in 1 .. block - 1, z \in Int : Told(t, q, b, z) => Told(u, q, b, z)
    <3>1. CreditsOnly(t, u, e.pool, v)
      BY <1>1, <2>4, CreditsAll
    <3> QED BY <3>1 DEF CreditsOnly
  <2>6. ASSUME NEW p \in Pools, NEW z \in Int, Stands(t, p, z)
        PROVE  Stands(u, p, z + PoolWeight(p)[e])
    <3>1. p = e.pool => z = x
      BY <1>2, <2>6, StandsOnce
    <3> QED BY <1>1, <1>4, <2>5, <2>6, <3>1
  <2>7. \A p \in Pools, s \in Stakers, z \in Nat : Opens(t, p, s, z) => Opens(u, p, s, z + 0)
    BY <2>5, SameOrders
  <2>8. \A p \in Pools : HasRow(t, p) \/ Brings(e, p) => HasRow(u, p)
    BY <2>5 DEF Brings
  <2>9. ASSUME NEW p \in Pools, NEW s \in Stakers
        PROVE  u.delegated[<<p, s>>] =
                 t.delegated[<<p, s>>] + IF p = s THEN 0 ELSE StakerWeight(p, s)[e]
    BY <1>3, <1>5, <2>5
  <2> QED BY <1>3, <2>5, <2>6, <2>7, <2>8, <2>9 DEF Visited
<1> QED BY <1>6, <1>7

(* An order takes the place of those in R, all open and of its account.    *)
Replaces(t, u, e, R, n) ==
    /\ u \in Tables /\ u.history = t.history /\ u.delegated = t.delegated
    /\ OpenOrders(u, e) = (OpenOrders(t, e) \ R) \cup IF n.claimed = 0 THEN {n} ELSE {}
    /\ \A p, s, x : (p # e.pool \/ s # e.staker) /\ Opens(t, p, s, x) => Opens(u, p, s, x)

LEMMA OrderReplaces ==
    ASSUME NEW t \in Tables, NEW e, NEW R, R \subseteq OpenOrders(t, e),
           NEW n \in OrderRows, n.pool = e.pool, n.staker = e.staker,
           NEW u, u = [t EXCEPT !.orders = (@ \ R) \cup {n}]
    PROVE  Replaces(t, u, e, R, n)
<1>1. IsFiniteSet((t.orders \ R) \cup {n})
  <2>1. IsFiniteSet(t.orders)
    BY DEF Tables
  <2>2. IsFiniteSet(t.orders \ R)
    BY <2>1, FS_Subset
  <2> QED BY <2>2, FS_AddElement
<1>2. u.orders = (t.orders \ R) \cup {n} /\ u.history = t.history /\ u.delegated = t.delegated
  BY DEF Tables
<1>3. u \in Tables
  BY <1>1 DEF Tables, OpenOrders
<1>4. OpenOrders(u, e) = (OpenOrders(t, e) \ R) \cup IF n.claimed = 0 THEN {n} ELSE {}
  BY <1>2 DEF OpenOrders
<1>5. ASSUME NEW p, NEW s, p # e.pool \/ s # e.staker
      PROVE  OpenOrders(u, [pool |-> p, staker |-> s]) = OpenOrders(t, [pool |-> p, staker |-> s])
  BY <1>2, <1>5 DEF OpenOrders
<1> QED BY <1>2, <1>3, <1>4, <1>5 DEF Opens, Replaces

LEMMA OpenOf ==
    ASSUME NEW t, NEW e, NEW x, Opens(t, e.pool, e.staker, x)
    PROVE  IF x = 0 THEN OpenOrders(t, e) = {}
           ELSE \E o \in OpenOrders(t, e) : OpenOrders(t, e) = {o} /\ o.amount = x
<1>1. OpenOrders(t, e) = OpenOrders(t, [pool |-> e.pool, staker |-> e.staker])
  BY DEF OpenOrders
<1> QED BY <1>1 DEF Opens

LEMMA OpensOf ==
    ASSUME NEW t, NEW e, NEW x,
           IF x = 0 THEN OpenOrders(t, e) = {}
           ELSE \E o \in OpenOrders(t, e) : OpenOrders(t, e) = {o} /\ o.amount = x
    PROVE  Opens(t, e.pool, e.staker, x)
<1>1. OpenOrders(t, e) = OpenOrders(t, [pool |-> e.pool, staker |-> e.staker])
  BY DEF OpenOrders
<1> QED BY <1>1 DEF Opens

LEMMA WithdrawalOrderedVisited ==
    ASSUME block \in Nat \ {0}, NEW t \in Tables, \A p \in Pools : Sound(t, p), NEW e \in Events,
           e.kind = "OrderedWithdrawal", NEW u \in WithdrawalOrdered(t, e)
    PROVE  Visited(t, u, e)
<1>1. e.pool \in Pools /\ e.staker \in Stakers /\ e.amount \in Nat \ {0}
  BY EventFields
<1>2. \A p, s : StakerWeight(p, s)[e] = 0 /\ PoolWeight(p)[e] = 0
  BY DEF StakerWeight, PoolWeight
<1>3. \A p, s : OrderWeight(p, s)[e] = IF e.pool = p /\ e.staker = s THEN e.amount ELSE 0
  BY DEF OrderWeight
<1>4. \A p \in Pools, s \in Stakers : t.delegated[<<p, s>>] \in Int
  BY DEF Tables, Accounts
<1>5. t.orders \subseteq OrderRows /\ IsFiniteSet(t.orders)
  BY DEF Tables
<1>6. PICK R \in SUBSET OpenOrders(t, e), n \in OrderRows :
        /\ u = [t EXCEPT !.orders = (@ \ R) \cup {n}]
        /\ n.pool = e.pool /\ n.staker = e.staker /\ n.claimed = 0
        /\ IF OpenOrders(t, e) = {} THEN R = {} /\ n.amount = e.amount
           ELSE \E o \in OpenOrders(t, e) : R = {o} /\ n.amount = o.amount + e.amount
  <2>1. CASE OpenOrders(t, e) = {}
    <3>1. u = [t EXCEPT !.orders = @ \cup {NewOrder(t, e)}]
      BY <2>1 DEF WithdrawalOrdered
    <3>2. Cardinality(t.orders) \in Nat
      BY <1>5, FS_CardinalityType
    <3>3. /\ NewOrder(t, e) \in OrderRows
          /\ NewOrder(t, e).pool = e.pool /\ NewOrder(t, e).staker = e.staker
          /\ NewOrder(t, e).claimed = 0 /\ NewOrder(t, e).amount = e.amount
      BY <1>1, <3>2 DEF NewOrder, OrderRows
    <3> DEFINE n == NewOrder(t, e)
    <3> HIDE DEF n
    <3>4. t.orders \cup {n} = (t.orders \ {}) \cup {n}
      OBVIOUS
    <3>5. u = [t EXCEPT !.orders = (@ \ {}) \cup {n}] /\ {} \in SUBSET OpenOrders(t, e)
      BY <3>1, <3>4 DEF n
    <3> QED BY <2>1, <3>3, <3>5 DEF n
  <2>2. CASE OpenOrders(t, e) # {}
    <3>1. PICK o \in OpenOrders(t, e) :
            u = [t EXCEPT !.orders = (@ \ {o}) \cup
                    {[o EXCEPT !.amount = @ + e.amount, !.placed = block]}]
      BY <2>2 DEF WithdrawalOrdered
    <3> DEFINE m == [o EXCEPT !.amount = @ + e.amount]
               n == [m EXCEPT !.placed = block]
    <3>2. o \in OrderRows /\ o.pool = e.pool /\ o.staker = e.staker /\ o.claimed = 0
      BY <1>5 DEF OpenOrders
    <3>3. /\ m \in OrderRows /\ m.pool = e.pool /\ m.staker = e.staker /\ m.claimed = 0
          /\ m.amount = o.amount + e.amount
      BY <1>1, <3>2 DEF OrderRows
    <3> HIDE DEF m
    <3>4. /\ n \in OrderRows /\ n.pool = e.pool /\ n.staker = e.staker /\ n.claimed = 0
          /\ n.amount = o.amount + e.amount
      BY <3>3 DEF OrderRows
    <3>5. u = [t EXCEPT !.orders = (@ \ {o}) \cup {n}] /\ {o} \in SUBSET OpenOrders(t, e)
      BY <3>1 DEF m
    <3> HIDE DEF n
    <3> QED BY <2>2, <3>4, <3>5
  <2> QED BY <2>1, <2>2
<1>7. /\ u \in Tables /\ u.history = t.history /\ u.delegated = t.delegated
      /\ OpenOrders(u, e) = (OpenOrders(t, e) \ R) \cup {n}
      /\ \A p, s, x : (p # e.pool \/ s # e.staker) /\ Opens(t, p, s, x) => Opens(u, p, s, x)
  <2>1. Replaces(t, u, e, R, n)
    BY <1>6, OrderReplaces
  <2> QED BY <1>6, <2>1 DEF Replaces
<1>8. \A p : /\ HasRow(u, p) <=> HasRow(t, p)
             /\ \A z : Stands(u, p, z) <=> Stands(t, p, z)
             /\ \A b, z : Told(u, p, b, z) <=> Told(t, p, b, z)
  BY <1>7, SameHistory
<1>9. ASSUME NEW p \in Pools, NEW s \in Stakers, NEW x \in Nat, Opens(t, p, s, x)
      PROVE  Opens(u, p, s, x + OrderWeight(p, s)[e])
  <2>1. CASE p # e.pool \/ s # e.staker
    BY <1>3, <1>7, <1>9, <2>1
  <2>2. CASE p = e.pool /\ s = e.staker
    <3>1. IF x = 0 THEN OpenOrders(t, e) = {}
          ELSE \E o \in OpenOrders(t, e) : OpenOrders(t, e) = {o} /\ o.amount = x
      BY <1>9, <2>2, OpenOf
    <3>2. OpenOrders(u, e) = {n} /\ n.amount = x + e.amount
      <4>1. CASE x = 0
        <5>1. OpenOrders(t, e) = {}
          BY <3>1, <4>1
        <5>2. R = {} /\ n.amount = e.amount
          BY <1>6, <5>1
        <5>3. OpenOrders(u, e) = {n}
          BY <1>7, <5>1, <5>2
        <5> QED BY <1>1, <4>1, <5>2, <5>3
      <4>2. CASE x # 0
        <5>1. PICK o \in OpenOrders(t, e) : R = {o} /\ n.amount = o.amount + e.amount
          BY <1>6, <3>1, <4>2
        <5>2. OpenOrders(t, e) = {o} /\ o.amount = x
          BY <3>1, <4>2
        <5> QED BY <1>7, <5>1, <5>2
      <4> QED BY <4>1, <4>2
    <3>3. x + e.amount # 0
      BY <1>1
    <3>4. Opens(u, e.pool, e.staker, x + e.amount)
      BY <3>2, <3>3, OpensOf
    <3> QED BY <1>3, <2>2, <3>4
  <2> QED BY <2>1, <2>2
<1>10. \A p \in Pools : Sound(u, p) /\ (HasRow(t, p) \/ Brings(e, p) => HasRow(u, p))
  BY <1>8 DEF Sound, Brings
<1>11. ASSUME NEW p \in Pools, NEW s \in Stakers
       PROVE  u.delegated[<<p, s>>] =
                t.delegated[<<p, s>>] + IF p = s THEN 0 ELSE StakerWeight(p, s)[e]
  BY <1>2, <1>4, <1>7
<1>12. \A p \in Pools, x \in Int : Stands(t, p, x) => Stands(u, p, x + PoolWeight(p)[e])
  BY <1>2, <1>8
<1> QED BY <1>7, <1>8, <1>9, <1>10, <1>11, <1>12 DEF Visited

LEMMA OrderClaimedVisited ==
    ASSUME block \in Nat \ {0}, NEW t \in Tables, \A p \in Pools : Sound(t, p), NEW e \in Events,
           e.kind = "ClaimedOrderedWithdrawal", NEW u \in OrderClaimed(t, e)
    PROVE  Visited(t, u, e)
<1>1. e.pool \in Pools /\ e.staker \in Stakers /\ e.amount \in Nat \ {0} /\ -e.amount \in Int
  BY EventFields
<1>2. \A p, s : StakerWeight(p, s)[e] = 0
  BY DEF StakerWeight
<1>3. /\ \A p : PoolWeight(p)[e] = IF e.pool = p THEN -e.amount ELSE 0
      /\ \A p, s : OrderWeight(p, s)[e] = IF e.pool = p /\ e.staker = s THEN -e.amount ELSE 0
  BY DEF PoolWeight, OrderWeight
<1>4. \A p \in Pools, s \in Stakers : t.delegated[<<p, s>>] \in Int
  BY DEF Tables, Accounts
<1>5. t.orders \subseteq OrderRows
  BY DEF Tables
<1>6. PICK x \in Int : Stands(t, e.pool, x)
  BY <1>1 DEF Sound
<1> DEFINE closed == {[t EXCEPT !.orders = (@ \ {o}) \cup {[o EXCEPT !.claimed = block]}] :
                        o \in OpenOrders(t, e)}
<1>7. CASE OpenOrders(t, e) = {} \/ ~HasRow(t, e.pool)
  <2>1. closed = {} \/ LastRecords(t, e.pool) = {}
    BY <1>7, NoneFound
  <2>2. u = t
    BY <2>1 DEF OrderClaimed
  <2>3. ~Counts(t, e)
    <3>1. ASSUME Opens(t, e.pool, e.staker, e.amount) PROVE OpenOrders(t, e) # {}
      <4>1. e.amount # 0
        BY <1>1
      <4>2. \E o \in OpenOrders(t, e) : OpenOrders(t, e) = {o} /\ o.amount = e.amount
        BY <3>1, <4>1, OpenOf
      <4> QED BY <4>2
    <3>2. Counts(t, e) => Opens(t, e.pool, e.staker, e.amount) /\ HasRow(t, e.pool)
      BY DEF Counts
    <3> QED BY <1>7, <3>1, <3>2
  <2>4. \A p \in Pools : Sound(u, p) /\ (HasRow(t, p) \/ Brings(e, p) => HasRow(u, p))
    BY <2>2 DEF Brings
  <2>5. ASSUME NEW p \in Pools, NEW s \in Stakers
        PROVE  u.delegated[<<p, s>>] =
                 t.delegated[<<p, s>>] + IF p = s THEN 0 ELSE StakerWeight(p, s)[e]
    BY <1>2, <1>4, <2>2
  <2> QED BY <2>2, <2>3, <2>4, <2>5 DEF Visited
<1>8. CASE OpenOrders(t, e) # {} /\ HasRow(t, e.pool)
  <2>1. PICK n \in t.history : Newest(t, e.pool, n) /\ n.amount = x
    BY <1>6, <1>8 DEF Stands
  <2>2. closed # {} /\ LastRecords(t, e.pool) # {}
    <3>1. LastRecords(t, e.pool) = {n}
      BY <2>1, LastFound
    <3> QED BY <1>8, <3>1
  <2>3. PICK d \in closed : u \in Changed(d, e.pool, -e.amount)
    BY <2>2 DEF OrderClaimed
  <2>4. PICK o \in OpenOrders(t, e) :
          d = [t EXCEPT !.orders = (@ \ {o}) \cup {[o EXCEPT !.claimed = block]}]
    BY <2>3
  <2> HIDE DEF closed
  <2> DEFINE c == [o EXCEPT !.claimed = block]
  <2>5. o \in OrderRows /\ o.pool = e.pool /\ o.staker = e.staker
    BY <1>5 DEF OpenOrders
  <2>6. c \in OrderRows /\ c.pool = e.pool /\ c.staker = e.staker /\ c.claimed # 0
    BY <2>5 DEF OrderRows
  <2>7. d = [t EXCEPT !.orders = (@ \ {o}) \cup {c}] /\ {o} \subseteq OpenOrders(t, e)
    BY <2>4
  <2> HIDE DEF c
  <2>8. Replaces(t, d, e, {o}, c)
    BY <2>6, <2>7, OrderReplaces
  <2>9. /\ d \in Tables /\ d.history = t.history /\ d.delegated = t.delegated
        /\ OpenOrders(d, e) = OpenOrders(t, e) \ {o}
        /\ \A p, s, z : (p # e.pool \/ s # e.staker) /\ Opens(t, p, s, z) => Opens(d, p, s, z)
    BY <2>6, <2>8 DEF Replaces
  <2>10. \A p : /\ HasRow(d, p) <=> HasRow(t, p)
                /\ \A z : Stands(d, p, z) <=> Stands(t, p, z)
                /\ \A b, z : Told(d, p, b, z) <=> Told(t, p, b, z)
    BY <2>9, SameHistory
  <2>11. Newest(d, e.pool, n)
    BY <2>1, <2>9 DEF Newest
  <2>12. PICK v \in Int : v = x - e.amount
    BY <1>1
  <2>13. Credits(d, u, e.pool, v)
    <3>1. Credits(d, u, e.pool, n.amount + -e.amount)
      BY <1>1, <2>3, <2>9, <2>11, ChangedCredits
    <3> QED BY <1>1, <2>1, <2>12, <3>1
  <2>14. \A q \in Pools : Sound(d, q)
    BY <2>10 DEF Sound
  <2>15. CreditsOnly(d, u, e.pool, v)
    BY <1>1, <2>13, <2>14, CreditsAll
  <2>16. /\ u \in Tables /\ HasRow(u, e.pool) /\ Stands(u, e.pool, v)
         /\ u.orders = d.orders /\ u.delegated = d.delegated
         /\ \A q \in Pools : Sound(u, q) /\ (HasRow(d, q) => HasRow(u, q))
         /\ \A q \in Pools, z \in Int : q # e.pool /\ Stands(d, q, z) => Stands(u, q, z)
         /\ \A q \in Pools, b \in 1 .. block - 1, z \in Int : Told(d, q, b, z) => Told(u, q, b, z)
    BY <2>15 DEF CreditsOnly
  <2>17. \A p \in Pools : HasRow(t, p) \/ Brings(e, p) => HasRow(u, p)
    BY <2>10, <2>16 DEF Brings
  <2>18. \A p \in Pools, b \in 1 .. block - 1, z \in Int : Told(t, p, b, z) => Told(u, p, b, z)
    BY <2>10, <2>16
  <2>19. ASSUME NEW p \in Pools, NEW s \in Stakers
         PROVE  u.delegated[<<p, s>>] =
                  t.delegated[<<p, s>>] + IF p = s THEN 0 ELSE StakerWeight(p, s)[e]
    BY <1>2, <1>4, <2>9, <2>16
  <2>20. ASSUME NEW p \in Pools, NEW z \in Int, Stands(t, p, z)
         PROVE  Stands(u, p, z + PoolWeight(p)[e])
    <3>1. p = e.pool => z = x
      BY <1>6, <2>20, StandsOnce
    <3> QED BY <1>1, <1>3, <2>10, <2>12, <2>16, <2>20, <3>1
  <2>21. ASSUME NEW p \in Pools, NEW s \in Stakers, NEW z \in Nat, Opens(t, p, s, z),
                OfAccount(e, "ClaimedOrderedWithdrawal", p, s) => z = e.amount
         PROVE  Opens(u, p, s, z + OrderWeight(p, s)[e])
    <3>1. \A y : Opens(u, p, s, y) <=> Opens(d, p, s, y)
      BY <2>16, SameOrders
    <3>2. CASE p # e.pool \/ s # e.staker
      BY <1>3, <2>9, <2>21, <3>1, <3>2
    <3>3. CASE p = e.pool /\ s = e.staker
      <4>1. z = e.amount
        BY <2>21, <3>3 DEF OfAccount
      <4>2. Opens(t, e.pool, e.staker, z)
        BY <2>21, <3>3
      <4>3. OpenOrders(t, e) = {o}
        <5>1. z # 0
          BY <1>1, <4>1
        <5>2. \E m \in OpenOrders(t, e) : OpenOrders(t, e) = {m} /\ m.amount = z
          BY <4>2, <5>1, OpenOf
        <5> QED BY <2>4, <5>2
      <4>4. OpenOrders(d, e) = {}
        BY <2>9, <4>3
      <4>5. Opens(d, e.pool, e.staker, 0)
        BY <4>4, OpensOf
      <4>6. z + OrderWeight(p, s)[e] = 0
        BY <1>1, <1>3, <3>3, <4>1
      <4> QED BY <3>1, <3>3, <4>5, <4>6
    <3> QED BY <3>2, <3>3
  <2> QED BY <2>16, <2>17, <2>18, <2>19, <2>20, <2>21 DEF Visited
<1> QED BY <1>7, <1>8

LEMMA EventVisited ==
    ASSUME block \in Nat \ {0}, NEW t \in Tables, \A p \in Pools : Sound(t, p), NEW e \in Events,
           e.kind = "MovedStake" => HasRow(t, e.pool), NEW u \in After(t, e)
    PROVE  Visited(t, u, e)
<1>1. e.kind \in Kinds
  BY EventFields
<1>2. CASE e.kind \in {"PlacedStake", "WithdrewStake"}
  BY <1>2, StakeChangedVisited DEF After
<1>3. CASE e.kind = "MovedStake"
  <2>1. u \in StakeMoved(t, e)
    BY <1>3 DEF After
  <2> QED BY <1>3, <2>1, StakeMovedVisited
<1>4. CASE e.kind = "OrderedWithdrawal"
  <2>1. u \in WithdrawalOrdered(t, e)
    BY <1>4 DEF After
  <2> QED BY <1>4, <2>1, WithdrawalOrderedVisited
<1>5. CASE e.kind = "ClaimedOrderedWithdrawal"
  <2>1. u \in OrderClaimed(t, e)
    BY <1>5 DEF After
  <2> QED BY <1>5, <2>1, OrderClaimedVisited
<1>6. CASE e.kind = "GatherAbandonedStakes"
  <2>1. u \in StakesGathered(t, e)
    BY <1>6 DEF After
  <2> QED BY <1>6, <2>1, StakesGatheredVisited
<1> QED BY <1>1, <1>2, <1>3, <1>4, <1>5, <1>6 DEF Kinds

-----------------------------------------------------------------------------
(* The inductive invariant.                                                *)

Typed ==
    /\ stake \in [Accounts -> Nat] /\ ordered \in [Accounts -> Nat]
    /\ orderedAt \in [Accounts -> Nat] /\ left \in [Accounts -> Nat]
    /\ \A a \in Accounts : ordered[a] <= stake[a]
    /\ crossed \in BOOLEAN
    /\ block \in 1 .. MaxBlock /\ past \in [1 .. MaxBlock -> [Pools -> Nat]]
    /\ EmittedTyped(emitted) /\ queue \in Seq(Events)
    /\ pc \in {"chain", "visit", "refused"}
    /\ db \in Tables /\ work \in Tables /\ (pc # "visit" => work = db)
    /\ \A p \in Pools : Sound(db, p) /\ Sound(work, p)

Rows(t) == {p \in Pools : HasRow(t, p)}

Bringing(q) == {p \in Pools : \E i \in 1 .. Len(q) : Brings(q[i], p)}

(* Each event of one of these kinds finds a row of its pool.               *)
Sourced(q, rows, kinds) ==
    \A i \in 1 .. Len(q) : q[i].kind \in kinds =>
        \/ q[i].pool \in rows
        \/ \E j \in 1 .. i - 1 : Brings(q[j], q[i].pool)

Taking == {"MovedStake", "ClaimedOrderedWithdrawal", "GatherAbandonedStakes"}

Fed(em) == Rows(db) \cup Bringing(em["PlacedStake"]) \cup Bringing(em["MovedStake"])

(* No stake without a row that counts it or an event that will make one.   *)
Grounded ==
    /\ pc = "chain" =>
        /\ \A p \in Pools, s \in Stakers : stake[<<p, s>>] > 0 => p \in Fed(emitted)
        /\ Sourced(emitted["MovedStake"], Rows(db) \cup Bringing(emitted["PlacedStake"]), Taking)
        /\ \A k \in {"ClaimedOrderedWithdrawal", "GatherAbandonedStakes"} :
             \A i \in 1 .. Len(emitted[k]) : emitted[k][i].pool \in Fed(emitted)
    /\ pc = "visit" =>
        /\ \A p \in Pools, s \in Stakers : stake[<<p, s>>] > 0 => p \in Rows(work) \cup Bringing(queue)
        /\ Sourced(queue, Rows(work), Taking)
        /\ ~crossed => Sourced(queue, Rows(work), {"WithdrewStake"})

(* The events still to visit take the delegated stake to the contract's.   *)
Delegating ==
    \A p \in Pools, s \in Stakers :
        /\ p = s => db.delegated[<<p, s>>] = 0 /\ work.delegated[<<p, s>>] = 0
        /\ p # s /\ pc = "chain" =>
             AllLead(emitted, StakerWeight(p, s), db.delegated[<<p, s>>],
                     stake[<<p, s>>] + left[<<p, s>>])
        /\ p # s /\ pc = "visit" =>
             Leads(queue, StakerWeight(p, s), work.delegated[<<p, s>>],
                   stake[<<p, s>>] + left[<<p, s>>])

HasOf(q, kind, p, s) == \E i \in 1 .. Len(q) : OfAccount(q[i], kind, p, s)

(* A claim is of all that is open, and alone in its block.                 *)
Matched(q, p, s, x) ==
    \A i \in 1 .. Len(q) : OfAccount(q[i], "ClaimedOrderedWithdrawal", p, s) =>
        /\ q[i].amount = x
        /\ \A j \in 1 .. Len(q) : j # i =>
            /\ ~OfAccount(q[j], "ClaimedOrderedWithdrawal", p, s)
            /\ ~OfAccount(q[j], "OrderedWithdrawal", p, s)

OrderingChain(p, s, x) ==
    LET orders == emitted["OrderedWithdrawal"]
        claims == emitted["ClaimedOrderedWithdrawal"]
    IN  /\ AllLead(emitted, OrderWeight(p, s), x, ordered[<<p, s>>])
        /\ Matched(claims, p, s, x)
        /\ HasOf(claims, "ClaimedOrderedWithdrawal", p, s) =>
             ordered[<<p, s>>] = 0 /\ ~HasOf(orders, "OrderedWithdrawal", p, s)
        /\ HasOf(orders, "OrderedWithdrawal", p, s) => orderedAt[<<p, s>>] = block
        /\ \/ HasOf(claims, "ClaimedOrderedWithdrawal", p, s)
           \/ HasOf(orders, "OrderedWithdrawal", p, s)
           \/ ordered[<<p, s>>] = x

(* The one open order of an account is its ordered stake, but for what the *)
(* events change.                                                          *)
Ordering ==
    \A p \in Pools, s \in Stakers :
        /\ pc = "chain" => \E x \in Nat : Opens(db, p, s, x) /\ OrderingChain(p, s, x)
        /\ pc = "visit" => \E x \in Nat :
             /\ Opens(work, p, s, x)
             /\ Leads(queue, OrderWeight(p, s), x, ordered[<<p, s>>])
             /\ Matched(queue, p, s, x)

(* The newest row of a pool says what it has, but for what the events      *)
(* change, and the rows before what it had.                                *)
Telling ==
    \A p \in Pools :
        /\ pc = "chain" => \E x \in Int :
             Stands(db, p, x) /\ AllLead(emitted, PoolWeight(p), x, PoolStake(p))
        /\ pc = "visit" => \E x \in Int :
             Stands(work, p, x) /\ Leads(queue, PoolWeight(p), x, PoolStake(p))
        /\ pc = "visit" => past[block][p] = PoolStake(p)
        /\ \A b \in 1 .. block - 1 : Told(db, p, b, past[b][p]) /\ Told(work, p, b, past[b][p])

Ledger == Typed /\ Grounded /\ Delegating /\ (~crossed => Ordering /\ Telling)
-----------------------------------------------------------------------------
(* What an event of the contract changes.                                  *)

Sum(f, p) == SumFunctionOnSet(f, {p} \X Stakers)

Happens(e) ==
    /\ pc = "chain" /\ e \in Events
    /\ emitted' = [emitted EXCEPT ![e.kind] = Append(@, e)]
    /\ UNCHANGED <<past, block, queue, pc, db, work>>
    /\ stake' \in [Accounts -> Nat] /\ ordered' \in [Accounts -> Nat]
    /\ orderedAt' \in [Accounts -> Nat] /\ left' \in [Accounts -> Nat]
    /\ \A a \in Accounts : ordered'[a] <= stake'[a]
    /\ crossed' \in BOOLEAN /\ (crossed => crossed')
    /\ \A p \in Pools : Sum(stake', p) = Sum(stake, p) + PoolWeight(p)[e]
    /\ e.kind \in Taking => \E s \in Stakers : stake[<<e.pool, s>>] > 0
    /\ \A p \in Pools, s \in Stakers :
        /\ stake'[<<p, s>>] + left'[<<p, s>>] =
             stake[<<p, s>>] + left[<<p, s>>] + StakerWeight(p, s)[e]
        /\ ordered'[<<p, s>>] = ordered[<<p, s>>] + OrderWeight(p, s)[e]
        /\ stake'[<<p, s>>] > 0 => stake[<<p, s>>] > 0 \/ Brings(e, p)
        /\ OfAccount(e, "OrderedWithdrawal", p, s) =>
             /\ orderedAt'[<<p, s>>] = block
             /\ HasOf(emitted["ClaimedOrderedWithdrawal"], "ClaimedOrderedWithdrawal", p, s) => crossed'
        /\ ~OfAccount(e, "OrderedWithdrawal", p, s) => orderedAt'[<<p, s>>] = orderedAt[<<p, s>>]
        /\ OfAccount(e, "ClaimedOrderedWithdrawal", p, s) =>
             /\ e.amount = ordered[<<p, s>>] /\ ordered[<<p, s>>] > 0
             /\ orderedAt[<<p, s>>] < block

LEMMA PoolAccounts ==
    ASSUME NEW p \in Pools
    PROVE  IsFiniteSet({p} \X Stakers) /\ {p} \X Stakers \subseteq Accounts
<1>1. IsFiniteSet({p}) /\ IsFiniteSet(Stakers)
  BY LedgerShape, FS_Singleton
<1>2. IsFiniteSet({p} \X Stakers)
  BY <1>1, FS_Product
<1> QED BY <1>2 DEF Accounts

LEMMA SumChangesAt ==
    ASSUME NEW f \in [Accounts -> Int], NEW g \in [Accounts -> Int], NEW p \in Pools,
           NEW s \in Stakers, \A a \in Accounts : a # <<p, s>> => g[a] = f[a], NEW q \in Pools
    PROVE  Sum(g, q) = Sum(f, q) + IF q = p THEN g[<<p, s>>] - f[<<p, s>>] ELSE 0
<1> DEFINE S == {q} \X Stakers
<1>1. IsFiniteSet(S) /\ S \subseteq Accounts
  BY PoolAccounts
<1>2. \A a \in S : f[a] \in Int /\ g[a] \in Int
  BY <1>1
<1>3. SumFunctionOnSet(f, S) \in Int
  BY <1>1, <1>2, SumType
<1>4. CASE q = p
  <2> DEFINE c == <<p, s>>
  <2>1. c \in S /\ \A a \in S : f[a] \in Int /\ g[a] \in Int /\ (a # c => g[a] = f[a])
    BY <1>1, <1>2, <1>4
  <2> HIDE DEF S, c
  <2>2. SumFunctionOnSet(g, S) = SumFunctionOnSet(f, S) - f[c] + g[c]
    BY <1>1, <2>1, SumChanges
  <2> QED BY <1>2, <1>3, <1>4, <2>1, <2>2 DEF S, c, Sum
<1>5. CASE q # p
  <2>1. \A a \in S : f[a] \in Int /\ g[a] = f[a]
    BY <1>1, <1>2, <1>5
  <2> HIDE DEF S
  <2>2. SumFunctionOnSet(g, S) = SumFunctionOnSet(f, S)
    BY <1>1, <2>1, SumSame
  <2> QED BY <1>3, <1>5, <2>2 DEF S, Sum
<1> QED BY <1>4, <1>5

LEMMA SumInt ==
    ASSUME NEW f \in [Accounts -> Nat], NEW p \in Pools
    PROVE  Sum(f, p) \in Nat
<1>1. IsFiniteSet({p} \X Stakers) /\ \A a \in {p} \X Stakers : f[a] \in Nat
  BY PoolAccounts
<1> QED BY <1>1, SumPositive DEF Sum

LEMMA SameAccount ==
    \A p, s, q, r : <<p, s>> = <<q, r>> <=> p = q /\ s = r
OBVIOUS

LEMMA PlaceHappens ==
    ASSUME Typed, NEW p \in Pools, NEW s \in Stakers, Place(p, s)
    PROVE  \E e : Happens(e)
<1> DEFINE e == [kind |-> "PlacedStake", pool |-> p, staker |-> s, amount |-> 1]
           a == <<p, s>>
<1>1. /\ pc = "chain" /\ emitted' = [emitted EXCEPT ![e.kind] = Append(@, e)]
      /\ UNCHANGED <<past, block, queue, pc, db, work>>
      /\ UNCHANGED <<ordered, orderedAt, left, crossed>>
      /\ stake' = [stake EXCEPT ![a] = @ + 1]
  BY DEF Place, Emit
<1>2. e \in Events
  BY DEF Events, StakerEvents
<1>3. /\ e.kind = "PlacedStake" /\ e.pool = p /\ e.staker = s /\ e.amount = 1
  OBVIOUS
<1>0. a \in Accounts
  BY DEF Accounts
<1> HIDE DEF e, a
<1>4. stake \in [Accounts -> Nat] /\ ordered \in [Accounts -> Nat]
      /\ orderedAt \in [Accounts -> Nat] /\ left \in [Accounts -> Nat] /\ crossed \in BOOLEAN
  BY DEF Typed
<1>5. /\ stake' \in [Accounts -> Nat] /\ stake'[a] = stake[a] + 1
      /\ \A b \in Accounts : b # a => stake'[b] = stake[b]
  BY <1>0, <1>1, <1>4
<1>6. ASSUME NEW b \in Accounts PROVE ordered'[b] <= stake'[b]
  <2>1. ordered[b] <= stake[b] /\ ordered[b] \in Nat /\ stake[b] \in Nat
    BY <1>4 DEF Typed
  <2>2. ordered'[b] = ordered[b] /\ (stake'[b] = stake[b] \/ stake'[b] = stake[b] + 1)
    BY <1>1, <1>5
  <2> QED BY <2>1, <2>2
<1>7. ASSUME NEW q \in Pools PROVE Sum(stake', q) = Sum(stake, q) + PoolWeight(q)[e]
  <2>1. stake \in [Accounts -> Int] /\ stake' \in [Accounts -> Int]
    BY <1>4, <1>5
  <2>2. Sum(stake', q) = Sum(stake, q) + IF q = p THEN stake'[a] - stake[a] ELSE 0
    BY <1>5, <2>1, SumChangesAt DEF a
  <2>3. PoolWeight(q)[e] = IF q = p THEN 1 ELSE 0
    BY <1>2, <1>3 DEF PoolWeight
  <2> QED BY <1>0, <1>4, <1>5, <2>2, <2>3
<1>8. ASSUME NEW q \in Pools, NEW r \in Stakers
      PROVE  /\ stake'[<<q, r>>] = stake[<<q, r>>] + StakerWeight(q, r)[e]
             /\ OrderWeight(q, r)[e] = 0
             /\ stake'[<<q, r>>] > 0 => stake[<<q, r>>] > 0 \/ Brings(e, q)
  <2>1. StakerWeight(q, r)[e] = IF <<q, r>> = a THEN 1 ELSE 0
    BY <1>2, <1>3 DEF StakerWeight, a
  <2>2. <<q, r>> \in Accounts /\ (<<q, r>> = a => q = p)
    BY DEF Accounts, a
  <2>3. OrderWeight(q, r)[e] = 0
    BY <1>2, <1>3 DEF OrderWeight
  <2> QED BY <1>3, <1>4, <1>5, <2>1, <2>2, <2>3 DEF Brings
<1>9. ASSUME NEW q \in Pools, NEW r \in Stakers
      PROVE  /\ stake'[<<q, r>>] + left'[<<q, r>>] =
                  stake[<<q, r>>] + left[<<q, r>>] + StakerWeight(q, r)[e]
             /\ ordered'[<<q, r>>] = ordered[<<q, r>>] + OrderWeight(q, r)[e]
             /\ orderedAt'[<<q, r>>] = orderedAt[<<q, r>>]
  <2>1. <<q, r>> \in Accounts
    BY DEF Accounts
  <2>2. /\ stake[<<q, r>>] \in Nat /\ left[<<q, r>>] \in Nat /\ ordered[<<q, r>>] \in Nat
        /\ StakerWeight(q, r)[e] \in Int
    BY <1>2, <1>4, <2>1, Weights
  <2> QED BY <1>1, <1>8, <2>2
<1>10. \A q, r : /\ ~OfAccount(e, "OrderedWithdrawal", q, r)
                 /\ ~OfAccount(e, "ClaimedOrderedWithdrawal", q, r)
  BY <1>3 DEF OfAccount
<1>11. e.kind \notin Taking
  BY <1>3 DEF Taking
<1>12. Happens(e)
  BY <1>1, <1>2, <1>4, <1>5, <1>6, <1>7, <1>8, <1>9, <1>10, <1>11 DEF Happens
<1> QED BY <1>12


LEMMA WithdrawHappens ==
    ASSUME Typed, NEW p \in Pools, NEW s \in Stakers, Withdraw(p, s)
    PROVE  \E e : Happens(e)
<1> DEFINE e == [kind |-> "WithdrewStake", pool |-> p, staker |-> s, amount |-> 1]
           a == <<p, s>>
<1>1. /\ pc = "chain" /\ emitted' = [emitted EXCEPT ![e.kind] = Append(@, e)]
      /\ UNCHANGED <<past, block, queue, pc, db, work>>
      /\ UNCHANGED <<ordered, orderedAt, left, crossed>>
      /\ stake' = [stake EXCEPT ![a] = @ - 1] /\ stake[a] - ordered[a] > 0
  BY DEF Withdraw, Emit, Free
<1>2. e \in Events
  BY DEF Events, StakerEvents
<1>3. /\ e.kind = "WithdrewStake" /\ e.pool = p /\ e.staker = s /\ e.amount = 1
  OBVIOUS
<1>0. a \in Accounts
  BY DEF Accounts
<1> HIDE DEF e, a
<1>4. stake \in [Accounts -> Nat] /\ ordered \in [Accounts -> Nat]
      /\ orderedAt \in [Accounts -> Nat] /\ left \in [Accounts -> Nat] /\ crossed \in BOOLEAN
  BY DEF Typed
<1>5. /\ stake' \in [Accounts -> Nat] /\ stake'[a] = stake[a] - 1
      /\ \A b \in Accounts : b # a => stake'[b] = stake[b]
  <2>1. stake[a] - 1 \in Nat
    BY <1>0, <1>1, <1>4
  <2> QED BY <1>0, <1>1, <1>4, <2>1
<1>6. ASSUME NEW b \in Accounts PROVE ordered'[b] <= stake'[b]
  <2>1. ordered[b] <= stake[b] /\ ordered[b] \in Nat /\ stake[b] \in Nat
    BY <1>4 DEF Typed
  <2>2. CASE b = a
    BY <1>1, <1>5, <2>1, <2>2
  <2>3. CASE b # a
    BY <1>1, <1>5, <2>1, <2>3
  <2> QED BY <2>2, <2>3
<1>7. ASSUME NEW q \in Pools PROVE Sum(stake', q) = Sum(stake, q) + PoolWeight(q)[e]
  <2>1. stake \in [Accounts -> Int] /\ stake' \in [Accounts -> Int]
    BY <1>4, <1>5
  <2>2. Sum(stake', q) = Sum(stake, q) + IF q = p THEN stake'[a] - stake[a] ELSE 0
    BY <1>5, <2>1, SumChangesAt DEF a
  <2>3. PoolWeight(q)[e] = IF q = p THEN -1 ELSE 0
    BY <1>2, <1>3 DEF PoolWeight
  <2> QED BY <1>0, <1>4, <1>5, <2>2, <2>3
<1>8. ASSUME NEW q \in Pools, NEW r \in Stakers
      PROVE  /\ stake'[<<q, r>>] = stake[<<q, r>>] + StakerWeight(q, r)[e]
             /\ OrderWeight(q, r)[e] = 0
             /\ stake'[<<q, r>>] > 0 => stake[<<q, r>>] > 0
  <2>1. StakerWeight(q, r)[e] = IF <<q, r>> = a THEN -1 ELSE 0
    BY <1>2, <1>3 DEF StakerWeight, a
  <2>2. <<q, r>> \in Accounts
    BY DEF Accounts
  <2>3. OrderWeight(q, r)[e] = 0
    BY <1>2, <1>3 DEF OrderWeight
  <2> QED BY <1>4, <1>5, <2>1, <2>2, <2>3
<1>9. ASSUME NEW q \in Pools, NEW r \in Stakers
      PROVE  /\ stake'[<<q, r>>] + left'[<<q, r>>] =
                  stake[<<q, r>>] + left[<<q, r>>] + StakerWeight(q, r)[e]
             /\ ordered'[<<q, r>>] = ordered[<<q, r>>] + OrderWeight(q, r)[e]
             /\ orderedAt'[<<q, r>>] = orderedAt[<<q, r>>]
  <2>1. <<q, r>> \in Accounts
    BY DEF Accounts
  <2>2. /\ stake[<<q, r>>] \in Nat /\ left[<<q, r>>] \in Nat /\ ordered[<<q, r>>] \in Nat
        /\ StakerWeight(q, r)[e] \in Int
    BY <1>2, <1>4, <2>1, Weights
  <2> QED BY <1>1, <1>8, <2>2
<1>10. \A q, r : /\ ~OfAccount(e, "OrderedWithdrawal", q, r)
                 /\ ~OfAccount(e, "ClaimedOrderedWithdrawal", q, r)
  BY <1>3 DEF OfAccount
<1>11. e.kind \notin Taking
  BY <1>3 DEF Taking
<1>12. Happens(e)
  BY <1>1, <1>2, <1>4, <1>5, <1>6, <1>7, <1>8, <1>9, <1>10, <1>11 DEF Happens
<1> QED BY <1>12

LEMMA MoveHappens ==
    ASSUME Typed, NEW p \in Pools, NEW to \in Pools, NEW s \in Stakers, Move(p, to, s)
    PROVE  \E e : Happens(e)
<1> DEFINE e == [kind |-> "MovedStake", pool |-> p, to |-> to, staker |-> s, amount |-> 1]
           a == <<p, s>>
           c == <<to, s>>
           h == [stake EXCEPT ![a] = @ - 1]
<1>1. /\ pc = "chain" /\ emitted' = [emitted EXCEPT ![e.kind] = Append(@, e)]
      /\ UNCHANGED <<past, block, queue, pc, db, work>>
      /\ UNCHANGED <<ordered, orderedAt, left, crossed>>
      /\ stake' = [h EXCEPT ![c] = @ + 1] /\ stake[a] - ordered[a] > 0 /\ p # to
  BY DEF Move, Emit, Free
<1>2. e \in Events
  BY <1>1 DEF Events, MoveEvents
<1>3. /\ e.kind = "MovedStake" /\ e.pool = p /\ e.to = to /\ e.staker = s /\ e.amount = 1
  OBVIOUS
<1>0. a \in Accounts /\ c \in Accounts /\ a # c
  BY <1>1 DEF Accounts
<1> HIDE DEF e, a, c
<1>4. stake \in [Accounts -> Nat] /\ ordered \in [Accounts -> Nat]
      /\ orderedAt \in [Accounts -> Nat] /\ left \in [Accounts -> Nat] /\ crossed \in BOOLEAN
  BY DEF Typed
<1>h. /\ h \in [Accounts -> Nat] /\ h[a] = stake[a] - 1
      /\ \A b \in Accounts : b # a => h[b] = stake[b]
  <2>1. stake[a] - 1 \in Nat
    BY <1>0, <1>1, <1>4
  <2> QED BY <1>0, <1>1, <1>4, <2>1
<1> HIDE DEF h
<1>i. /\ stake' \in [Accounts -> Nat] /\ stake'[c] = h[c] + 1
      /\ \A b \in Accounts : b # c => stake'[b] = h[b]
  BY <1>0, <1>1, <1>h
<1>5. /\ stake' \in [Accounts -> Nat] /\ stake'[a] = stake[a] - 1 /\ stake'[c] = stake[c] + 1
      /\ \A b \in Accounts : b # a /\ b # c => stake'[b] = stake[b]
  BY <1>0, <1>h, <1>i
<1>6. ASSUME NEW b \in Accounts PROVE ordered'[b] <= stake'[b]
  <2>1. ordered[b] <= stake[b] /\ ordered[b] \in Nat /\ stake[b] \in Nat
    BY <1>4 DEF Typed
  <2>2. CASE b = a
    BY <1>1, <1>5, <2>1, <2>2
  <2>3. CASE b # a
    BY <1>1, <1>5, <2>1, <2>3
  <2> QED BY <2>2, <2>3
<1>7. ASSUME NEW q \in Pools PROVE Sum(stake', q) = Sum(stake, q) + PoolWeight(q)[e]
  <2>1. stake \in [Accounts -> Int] /\ h \in [Accounts -> Int] /\ stake' \in [Accounts -> Int]
    BY <1>4, <1>5, <1>h
  <2>2. Sum(h, q) = Sum(stake, q) + IF q = p THEN h[a] - stake[a] ELSE 0
    BY <1>h, <2>1, SumChangesAt DEF a
  <2>3. Sum(stake', q) = Sum(h, q) + IF q = to THEN stake'[c] - h[c] ELSE 0
    BY <1>i, <2>1, SumChangesAt DEF c
  <2>4. PoolWeight(q)[e] = IF q = p THEN -1 ELSE IF q = to THEN 1 ELSE 0
    BY <1>2, <1>3 DEF PoolWeight
  <2>5. Sum(stake, q) \in Nat /\ stake[a] \in Nat /\ h[c] \in Nat
    BY <1>0, <1>4, <1>h, SumInt
  <2> QED BY <1>1, <1>h, <1>i, <2>2, <2>3, <2>4, <2>5
<1>8. ASSUME NEW q \in Pools, NEW r \in Stakers
      PROVE  /\ stake'[<<q, r>>] = stake[<<q, r>>] + StakerWeight(q, r)[e]
             /\ OrderWeight(q, r)[e] = 0
             /\ stake'[<<q, r>>] > 0 => stake[<<q, r>>] > 0 \/ Brings(e, q)
  <2>1. StakerWeight(q, r)[e] = IF <<q, r>> = a THEN -1 ELSE IF <<q, r>> = c THEN 1 ELSE 0
    BY <1>2, <1>3 DEF StakerWeight, a, c
  <2>2. <<q, r>> \in Accounts /\ (<<q, r>> = c => q = to)
    BY DEF Accounts, c
  <2>3. OrderWeight(q, r)[e] = 0
    BY <1>2, <1>3 DEF OrderWeight
  <2>4. CASE <<q, r>> = a
    BY <1>0, <1>4, <1>5, <2>1, <2>3, <2>4
  <2>5. CASE <<q, r>> = c
    BY <1>0, <1>3, <1>4, <1>5, <2>1, <2>2, <2>3, <2>5 DEF Brings
  <2>6. CASE <<q, r>> # a /\ <<q, r>> # c
    BY <1>4, <1>5, <2>1, <2>2, <2>3, <2>6
  <2> QED BY <2>4, <2>5, <2>6
<1>9. ASSUME NEW q \in Pools, NEW r \in Stakers
      PROVE  /\ stake'[<<q, r>>] + left'[<<q, r>>] =
                  stake[<<q, r>>] + left[<<q, r>>] + StakerWeight(q, r)[e]
             /\ ordered'[<<q, r>>] = ordered[<<q, r>>] + OrderWeight(q, r)[e]
             /\ orderedAt'[<<q, r>>] = orderedAt[<<q, r>>]
  <2>1. <<q, r>> \in Accounts
    BY DEF Accounts
  <2>2. /\ stake[<<q, r>>] \in Nat /\ left[<<q, r>>] \in Nat /\ ordered[<<q, r>>] \in Nat
        /\ StakerWeight(q, r)[e] \in Int
    BY <1>2, <1>4, <2>1, Weights
  <2> QED BY <1>1, <1>8, <2>2
<1>10. \A q, r : /\ ~OfAccount(e, "OrderedWithdrawal", q, r)
                 /\ ~OfAccount(e, "ClaimedOrderedWithdrawal", q, r)
  BY <1>3 DEF OfAccount
<1>11. s \in Stakers /\ stake[<<e.pool, s>>] > 0
  <2>1. stake[a] \in Nat /\ ordered[a] \in Nat
    BY <1>0, <1>4
  <2> QED BY <1>1, <1>3, <2>1 DEF a
<1>12. /\ pc = "chain" /\ e \in Events
       /\ emitted' = [emitted EXCEPT ![e.kind] = Append(@, e)]
       /\ UNCHANGED <<past, block, queue, pc, db, work>>
       /\ stake' \in [Accounts -> Nat] /\ ordered' \in [Accounts -> Nat]
       /\ orderedAt' \in [Accounts -> Nat] /\ left' \in [Accounts -> Nat]
       /\ crossed' \in BOOLEAN /\ (crossed => crossed')
  BY <1>1, <1>2, <1>4, <1>5
<1>13. \E r \in Stakers : stake[<<e.pool, r>>] > 0
  BY <1>11
<1>14. Happens(e)
  BY <1>6, <1>7, <1>8, <1>9, <1>10, <1>12, <1>13 DEF Happens
<1> QED BY <1>14

LEMMA OrderHappens ==
    ASSUME Typed, NEW p \in Pools, NEW s \in Stakers, Order(p, s)
    PROVE  \E e : Happens(e)
<1> DEFINE e == [kind |-> "OrderedWithdrawal", pool |-> p, staker |-> s, amount |-> 1]
           a == <<p, s>>
<1>1. /\ pc = "chain" /\ emitted' = [emitted EXCEPT ![e.kind] = Append(@, e)]
      /\ UNCHANGED <<past, block, queue, pc, db, work>>
      /\ UNCHANGED <<stake, left>> /\ crossed' = (crossed \/ Claimed(p, s))
      /\ ordered' = [ordered EXCEPT ![a] = @ + 1] /\ stake[a] - ordered[a] > 0
      /\ orderedAt' = [orderedAt EXCEPT ![a] = block]
  BY DEF Order, Emit, Free
<1>2. e \in Events
  BY DEF Events, StakerEvents
<1>3. /\ e.kind = "OrderedWithdrawal" /\ e.pool = p /\ e.staker = s /\ e.amount = 1
  OBVIOUS
<1>0. a \in Accounts
  BY DEF Accounts
<1> HIDE DEF e, a
<1>4. stake \in [Accounts -> Nat] /\ ordered \in [Accounts -> Nat] /\ block \in Nat
      /\ orderedAt \in [Accounts -> Nat] /\ left \in [Accounts -> Nat] /\ crossed \in BOOLEAN
  BY LedgerShape DEF Typed
<1>5. /\ ordered' \in [Accounts -> Nat] /\ ordered'[a] = ordered[a] + 1
      /\ \A b \in Accounts : b # a => ordered'[b] = ordered[b]
  BY <1>0, <1>1, <1>4
<1>t. /\ orderedAt' \in [Accounts -> Nat] /\ orderedAt'[a] = block
      /\ \A b \in Accounts : b # a => orderedAt'[b] = orderedAt[b]
  BY <1>0, <1>1, <1>4
<1>6. ASSUME NEW b \in Accounts PROVE ordered'[b] <= stake'[b]
  <2>1. ordered[b] <= stake[b] /\ ordered[b] \in Nat /\ stake[b] \in Nat
    BY <1>4 DEF Typed
  <2>2. CASE b = a
    BY <1>1, <1>5, <2>1, <2>2
  <2>3. CASE b # a
    BY <1>1, <1>5, <2>1, <2>3
  <2> QED BY <2>2, <2>3
<1>7. ASSUME NEW q \in Pools PROVE Sum(stake', q) = Sum(stake, q) + PoolWeight(q)[e]
  <2>1. Sum(stake, q) \in Nat
    BY <1>4, SumInt
  <2>2. PoolWeight(q)[e] = 0
    BY <1>2, <1>3 DEF PoolWeight
  <2> QED BY <1>1, <2>1, <2>2
<1>8. ASSUME NEW q \in Pools, NEW r \in Stakers
      PROVE  /\ OfAccount(e, "OrderedWithdrawal", q, r) <=> <<q, r>> = a
             /\ ~OfAccount(e, "ClaimedOrderedWithdrawal", q, r)
             /\ StakerWeight(q, r)[e] = 0
             /\ OrderWeight(q, r)[e] = IF <<q, r>> = a THEN 1 ELSE 0
  BY <1>2, <1>3 DEF OfAccount, StakerWeight, OrderWeight, a
<1>9. ASSUME NEW q \in Pools, NEW r \in Stakers
      PROVE  /\ stake'[<<q, r>>] + left'[<<q, r>>] =
                  stake[<<q, r>>] + left[<<q, r>>] + StakerWeight(q, r)[e]
             /\ ordered'[<<q, r>>] = ordered[<<q, r>>] + OrderWeight(q, r)[e]
  <2>1. <<q, r>> \in Accounts
    BY DEF Accounts
  <2>2. /\ stake[<<q, r>>] \in Nat /\ left[<<q, r>>] \in Nat /\ ordered[<<q, r>>] \in Nat
    BY <1>4, <2>1
  <2> QED BY <1>1, <1>5, <1>8, <2>1, <2>2
<1>10. ASSUME NEW q \in Pools, NEW r \in Stakers
       PROVE  /\ OfAccount(e, "OrderedWithdrawal", q, r) =>
                   /\ orderedAt'[<<q, r>>] = block
                   /\ HasOf(emitted["ClaimedOrderedWithdrawal"], "ClaimedOrderedWithdrawal", q, r)
                        => crossed'
              /\ ~OfAccount(e, "OrderedWithdrawal", q, r) =>
                   orderedAt'[<<q, r>>] = orderedAt[<<q, r>>]
  <2>1. <<q, r>> \in Accounts
    BY DEF Accounts
  <2>2. CASE <<q, r>> # a
    BY <1>8, <1>t, <2>1, <2>2
  <2>3. CASE <<q, r>> = a
    <3>1. q = p /\ r = s
      BY <2>3 DEF a
    <3>2. HasOf(emitted["ClaimedOrderedWithdrawal"], "ClaimedOrderedWithdrawal", p, s) => Claimed(p, s)
      BY DEF HasOf, OfAccount, Claimed, Range, Typed, EmittedTyped, Kinds
    <3> QED BY <1>1, <1>8, <1>t, <2>3, <3>1, <3>2
  <2> QED BY <2>2, <2>3
<1>11. e.kind \notin Taking
  BY <1>3 DEF Taking
<1>12. Happens(e)
  BY <1>1, <1>2, <1>4, <1>5, <1>t, <1>6, <1>7, <1>8, <1>9, <1>10, <1>11 DEF Happens
<1> QED BY <1>12

LEMMA ClaimHappens ==
    ASSUME Typed, NEW p \in Pools, NEW s \in Stakers, Claim(p, s)
    PROVE  \E e : Happens(e)
<1> DEFINE a == <<p, s>>
           e == [kind |-> "ClaimedOrderedWithdrawal", pool |-> p, staker |-> s,
                 amount |-> ordered[a]]
<1>1. /\ pc = "chain" /\ emitted' = [emitted EXCEPT ![e.kind] = Append(@, e)]
      /\ UNCHANGED <<past, block, queue, pc, db, work>>
      /\ UNCHANGED <<orderedAt, crossed>>
      /\ ordered[a] > 0 /\ orderedAt[a] < block
      /\ stake' = [stake EXCEPT ![a] = @ - ordered[a]]
      /\ left' = [left EXCEPT ![a] = @ + ordered[a]]
      /\ ordered' = [ordered EXCEPT ![a] = 0]
  BY DEF Claim, Emit
<1>0. a \in Accounts
  BY DEF Accounts
<1>4. stake \in [Accounts -> Nat] /\ ordered \in [Accounts -> Nat]
      /\ orderedAt \in [Accounts -> Nat] /\ left \in [Accounts -> Nat] /\ crossed \in BOOLEAN
  BY DEF Typed
<1> DEFINE n == ordered[a]
<1>n. n \in Nat \ {0} /\ stake[a] \in Nat /\ left[a] \in Nat /\ n <= stake[a]
  <2> HIDE DEF a
  <2>1. ordered[a] \in Nat /\ stake[a] \in Nat /\ left[a] \in Nat
    BY <1>0, <1>4
  <2>2. ordered[a] <= stake[a]
    BY <1>0 DEF Typed
  <2> QED BY <1>1, <2>1, <2>2
<1>2. e \in Events
  BY <1>n DEF Events, StakerEvents
<1>3. /\ e.kind = "ClaimedOrderedWithdrawal" /\ e.pool = p /\ e.staker = s /\ e.amount = n
  OBVIOUS
<1> HIDE DEF e, a
<1>5. /\ stake' \in [Accounts -> Nat] /\ stake'[a] = stake[a] - n
      /\ \A b \in Accounts : b # a => stake'[b] = stake[b]
  <2>1. stake[a] - n \in Nat
    BY <1>n
  <2> QED BY <1>0, <1>1, <1>4, <2>1
<1>t. /\ left' \in [Accounts -> Nat] /\ left'[a] = left[a] + n
      /\ \A b \in Accounts : b # a => left'[b] = left[b]
  <2>1. left[a] + n \in Nat
    BY <1>n
  <2> QED BY <1>0, <1>1, <1>4, <2>1
<1>o. /\ ordered' \in [Accounts -> Nat] /\ ordered'[a] = 0
      /\ \A b \in Accounts : b # a => ordered'[b] = ordered[b]
  BY <1>0, <1>1, <1>4
<1>6. ASSUME NEW b \in Accounts PROVE ordered'[b] <= stake'[b]
  <2>1. ordered[b] <= stake[b] /\ ordered[b] \in Nat /\ stake[b] \in Nat /\ stake'[b] \in Nat
    BY <1>4, <1>5 DEF Typed
  <2>2. CASE b = a
    BY <1>o, <2>1, <2>2
  <2>3. CASE b # a
    BY <1>o, <1>5, <2>1, <2>3
  <2> QED BY <2>2, <2>3
<1>7. ASSUME NEW q \in Pools PROVE Sum(stake', q) = Sum(stake, q) + PoolWeight(q)[e]
  <2>1. stake \in [Accounts -> Int] /\ stake' \in [Accounts -> Int]
    BY <1>4, <1>5
  <2>2. Sum(stake', q) = Sum(stake, q) + IF q = p THEN stake'[a] - stake[a] ELSE 0
    BY <1>5, <2>1, SumChangesAt DEF a
  <2>3. PoolWeight(q)[e] = IF q = p THEN -n ELSE 0
    BY <1>2, <1>3 DEF PoolWeight
  <2> HIDE DEF n
  <2> QED BY <1>n, <1>5, <2>2, <2>3
<1>8. ASSUME NEW q \in Pools, NEW r \in Stakers
      PROVE  /\ StakerWeight(q, r)[e] = 0
             /\ OrderWeight(q, r)[e] = IF <<q, r>> = a THEN -n ELSE 0
             /\ ~OfAccount(e, "OrderedWithdrawal", q, r)
             /\ OfAccount(e, "ClaimedOrderedWithdrawal", q, r) <=> <<q, r>> = a
  BY <1>2, <1>3 DEF StakerWeight, OrderWeight, OfAccount, a
<1>9. ASSUME NEW q \in Pools, NEW r \in Stakers
      PROVE  /\ stake'[<<q, r>>] + left'[<<q, r>>] =
                  stake[<<q, r>>] + left[<<q, r>>] + StakerWeight(q, r)[e]
             /\ ordered'[<<q, r>>] = ordered[<<q, r>>] + OrderWeight(q, r)[e]
             /\ stake'[<<q, r>>] > 0 => stake[<<q, r>>] > 0
             /\ OfAccount(e, "ClaimedOrderedWithdrawal", q, r) =>
                  /\ e.amount = ordered[<<q, r>>] /\ ordered[<<q, r>>] > 0
                  /\ orderedAt[<<q, r>>] < block
  <2>1. <<q, r>> \in Accounts
    BY DEF Accounts
  <2>2. CASE <<q, r>> = a
    <3>1. stake'[a] + left'[a] = stake[a] + left[a]
      BY <1>n, <1>5, <1>t
    <3>2. ordered'[a] = ordered[a] + -n
      BY <1>n, <1>o
    <3>3. stake'[a] > 0 => stake[a] > 0
      BY <1>n, <1>5
    <3>4. StakerWeight(q, r)[e] = 0 /\ OrderWeight(q, r)[e] = -n
      BY <1>8, <2>2
    <3>5. stake[a] + left[a] \in Nat
      BY <1>n
    <3> QED BY <1>1, <1>3, <2>2, <3>1, <3>2, <3>3, <3>4, <3>5
  <2>3. CASE <<q, r>> # a
    <3>1. /\ stake[<<q, r>>] \in Nat /\ left[<<q, r>>] \in Nat /\ ordered[<<q, r>>] \in Nat
      BY <1>4, <2>1
    <3>2. /\ stake'[<<q, r>>] = stake[<<q, r>>] /\ left'[<<q, r>>] = left[<<q, r>>]
          /\ ordered'[<<q, r>>] = ordered[<<q, r>>]
      BY <1>5, <1>t, <1>o, <2>1, <2>3
    <3> QED BY <1>8, <2>3, <3>1, <3>2
  <2> QED BY <2>2, <2>3
<1>10. \A q \in Pools, r \in Stakers : orderedAt'[<<q, r>>] = orderedAt[<<q, r>>]
  BY <1>1
<1>11. s \in Stakers /\ stake[<<e.pool, s>>] > 0
  BY <1>n, <1>3 DEF a
<1> HIDE DEF n
<1>12. /\ pc = "chain" /\ emitted' = [emitted EXCEPT ![e.kind] = Append(@, e)]
       /\ UNCHANGED <<past, block, queue, pc, db, work>>
       /\ orderedAt' \in [Accounts -> Nat] /\ crossed' \in BOOLEAN /\ (crossed => crossed')
  BY <1>1, <1>4
<1>13. Happens(e)
  BY <1>2, <1>5, <1>t, <1>o, <1>6, <1>7, <1>8, <1>9, <1>10, <1>11, <1>12 DEF Happens
<1> QED BY <1>13

LEMMA GatherHappens ==
    ASSUME Typed, NEW p \in Pools, Gather(p)
    PROVE  \E e : Happens(e)
<1> DEFINE free == [a \in Accounts |-> Free(a[1], a[2])]
           n == SumFunctionOnSet(free, {p} \X Stakers)
           e == [kind |-> "GatherAbandonedStakes", pool |-> p, amount |-> n]
<1>1. /\ pc = "chain" /\ emitted' = [emitted EXCEPT ![e.kind] = Append(@, e)]
      /\ UNCHANGED <<past, block, queue, pc, db, work>>
      /\ UNCHANGED <<ordered, orderedAt, crossed>> /\ n > 0
      /\ stake' = [a \in Accounts |-> IF a[1] = p THEN ordered[a] ELSE stake[a]]
      /\ left' = [a \in Accounts |-> left[a] + IF a[1] = p THEN Free(p, a[2]) ELSE 0]
  BY DEF Gather, Emit
<1>4. stake \in [Accounts -> Nat] /\ ordered \in [Accounts -> Nat]
      /\ orderedAt \in [Accounts -> Nat] /\ left \in [Accounts -> Nat] /\ crossed \in BOOLEAN
  BY DEF Typed
<1>5. ASSUME NEW a \in Accounts
      PROVE  /\ a = <<a[1], a[2]>> /\ stake[a] \in Nat /\ ordered[a] \in Nat /\ left[a] \in Nat
             /\ free[a] = stake[a] - ordered[a] /\ free[a] \in Nat
  <2>1. a = <<a[1], a[2]>>
    BY DEF Accounts
  <2>2. stake[a] \in Nat /\ ordered[a] \in Nat /\ left[a] \in Nat /\ ordered[a] <= stake[a]
    BY <1>4 DEF Typed
  <2>3. free[a] = stake[a] - ordered[a]
    <3>1. free[a] = stake[<<a[1], a[2]>>] - ordered[<<a[1], a[2]>>]
      BY DEF Free
    <3> HIDE DEF free
    <3> QED BY <2>1, <3>1
  <2> QED BY <2>1, <2>2, <2>3
<1> HIDE DEF free
<1>6. IsFiniteSet({p} \X Stakers) /\ {p} \X Stakers \subseteq Accounts
  BY PoolAccounts
<1>7. n \in Nat /\ \E a \in {p} \X Stakers : free[a] > 0
  <2>1. \A a \in {p} \X Stakers : free[a] \in Nat
    BY <1>5, <1>6
  <2>2. n \in Nat /\ (n > 0 => \E a \in {p} \X Stakers : free[a] > 0)
    BY <1>6, <2>1, SumPositive
  <2> QED BY <1>1, <2>2
<1>2. e \in Events
  BY <1>1, <1>7 DEF Events, GatherEvents
<1>3. e.kind = "GatherAbandonedStakes" /\ e.pool = p /\ e.amount = n
  OBVIOUS
<1> HIDE DEF e, n
<1>8. ASSUME NEW a \in Accounts
      PROVE  /\ stake'[a] = IF a[1] = p THEN ordered[a] ELSE stake[a]
             /\ left'[a] = left[a] + IF a[1] = p THEN stake[a] - ordered[a] ELSE 0
             /\ stake'[a] \in Nat /\ left'[a] \in Nat /\ ordered'[a] <= stake'[a]
             /\ stake'[a] + left'[a] = stake[a] + left[a]
             /\ stake'[a] > 0 => stake[a] > 0
  <2>1. stake'[a] = IF a[1] = p THEN ordered[a] ELSE stake[a]
    BY <1>1
  <2>2. left'[a] = left[a] + IF a[1] = p THEN stake[a] - ordered[a] ELSE 0
    <3>1. left'[a] = left[a] + IF a[1] = p THEN Free(p, a[2]) ELSE 0
      BY <1>1
    <3>2. a[1] = p => Free(p, a[2]) = stake[a] - ordered[a]
      BY <1>5 DEF Free
    <3> QED BY <3>1, <3>2
  <2>3. ordered'[a] = ordered[a] /\ ordered[a] <= stake[a]
    BY <1>1 DEF Typed
  <2> QED BY <1>5, <2>1, <2>2, <2>3
<1>9. stake' \in [Accounts -> Nat] /\ left' \in [Accounts -> Nat]
  BY <1>1, <1>8
<1>10. ASSUME NEW q \in Pools PROVE Sum(stake', q) = Sum(stake, q) + PoolWeight(q)[e]
  <2> DEFINE S == {q} \X Stakers
  <2>1. IsFiniteSet(S) /\ S \subseteq Accounts /\ \A a \in S : a[1] = q
    BY PoolAccounts
  <2>2. PoolWeight(q)[e] = IF q = p THEN -n ELSE 0
    BY <1>2, <1>3 DEF PoolWeight
  <2>3. Sum(stake, q) \in Nat /\ Sum(ordered, q) \in Nat
    BY <1>4, SumInt
  <2>4. CASE q # p
    <3>1. \A a \in S : stake[a] \in Int /\ stake'[a] = stake[a]
      BY <1>5, <1>8, <2>1, <2>4
    <3>2. SumFunctionOnSet(stake', S) = SumFunctionOnSet(stake, S)
      <4> HIDE DEF S
      <4> QED BY <2>1, <3>1, SumSame
    <3> QED BY <2>2, <2>3, <2>4, <3>2 DEF Sum
  <2>5. CASE q = p
    <3>1. \A a \in S : ordered[a] \in Int /\ stake'[a] = ordered[a]
      BY <1>5, <1>8, <2>1, <2>5
    <3>2. SumFunctionOnSet(stake', S) = SumFunctionOnSet(ordered, S)
      <4> HIDE DEF S
      <4> QED BY <2>1, <3>1, SumSame
    <3>3. \A a \in S : /\ stake[a] \in Int /\ free[a] \in Int /\ ordered[a] \in Int
                       /\ stake[a] = free[a] + ordered[a]
      BY <1>5, <2>1
    <3>4. SumFunctionOnSet(stake, S) = SumFunctionOnSet(free, S) + SumFunctionOnSet(ordered, S)
      <4> HIDE DEF S
      <4> QED BY <2>1, <3>3, SumSplits
    <3>5. SumFunctionOnSet(free, S) = n
      BY <2>5 DEF n
    <3> QED BY <1>7, <2>2, <2>3, <2>5, <3>2, <3>4, <3>5 DEF Sum
  <2> QED BY <2>4, <2>5
<1>11. ASSUME NEW q \in Pools, NEW r \in Stakers
       PROVE  /\ StakerWeight(q, r)[e] = 0 /\ OrderWeight(q, r)[e] = 0
              /\ ~OfAccount(e, "OrderedWithdrawal", q, r)
              /\ ~OfAccount(e, "ClaimedOrderedWithdrawal", q, r)
  BY <1>2, <1>3 DEF StakerWeight, OrderWeight, OfAccount
<1>12. ASSUME NEW q \in Pools, NEW r \in Stakers
       PROVE  /\ stake'[<<q, r>>] + left'[<<q, r>>] =
                   stake[<<q, r>>] + left[<<q, r>>] + StakerWeight(q, r)[e]
              /\ ordered'[<<q, r>>] = ordered[<<q, r>>] + OrderWeight(q, r)[e]
              /\ stake'[<<q, r>>] > 0 => stake[<<q, r>>] > 0
              /\ orderedAt'[<<q, r>>] = orderedAt[<<q, r>>]
  <2>1. <<q, r>> \in Accounts
    BY DEF Accounts
  <2> QED BY <1>1, <1>5, <1>8, <1>11, <2>1
<1>13. \E s \in Stakers : stake[<<e.pool, s>>] > 0
  <2>1. PICK a \in {p} \X Stakers : free[a] > 0
    BY <1>7
  <2>2. a \in Accounts /\ a[1] = p /\ a[2] \in Stakers
    BY <1>6, <2>1
  <2>3. stake[<<p, a[2]>>] > 0
    BY <1>5, <2>1, <2>2
  <2> QED BY <1>3, <2>2, <2>3
<1>14. \A b \in Accounts : ordered'[b] <= stake'[b]
  BY <1>8
<1>15. Happens(e)
  BY <1>1, <1>2, <1>4, <1>9, <1>10, <1>11, <1>12, <1>13, <1>14 DEF Happens
<1> QED BY <1>15

-----------------------------------------------------------------------------
(* Longer, shorter and joined sequences of events.                         *)

LEMMA AppendElements ==
    ASSUME NEW S, NEW q \in Seq(S), NEW e
    PROVE  /\ Len(q) \in Nat /\ Len(Append(q, e)) = Len(q) + 1
           /\ Append(q, e)[Len(q) + 1] = e
           /\ \A i \in 1 .. Len(q) : Append(q, e)[i] = q[i]
OBVIOUS

LEMMA TailElements ==
    ASSUME NEW S, NEW q \in Seq(S), q # <<>>
    PROVE  /\ Len(q) \in Nat /\ Len(q) >= 1 /\ Len(Tail(q)) = Len(q) - 1 /\ Head(q) = q[1]
           /\ Tail(q) \in Seq(S) /\ Head(q) \in S
           /\ \A i \in 1 .. Len(q) - 1 : Tail(q)[i] = q[i + 1]
OBVIOUS

LEMMA JoinElements ==
    ASSUME NEW S, NEW q \in Seq(S), NEW r \in Seq(S)
    PROVE  /\ Len(q) \in Nat /\ Len(r) \in Nat /\ Len(q \o r) = Len(q) + Len(r)
           /\ q \o r \in Seq(S)
           /\ \A i \in 1 .. Len(q) : (q \o r)[i] = q[i]
           /\ \A i \in 1 .. Len(r) : (q \o r)[Len(q) + i] = r[i]
           /\ \A i \in 1 .. Len(q \o r) :
                i \in 1 .. Len(q) \/ (i - Len(q) \in 1 .. Len(r) /\ (q \o r)[i] = r[i - Len(q)])
OBVIOUS

LEMMA BringingAppend ==
    ASSUME NEW S, NEW q \in Seq(S), NEW e
    PROVE  Bringing(Append(q, e)) = Bringing(q) \cup {p \in Pools : Brings(e, p)}
<1> DEFINE r == Append(q, e)
<1>1. /\ Len(q) \in Nat /\ Len(r) = Len(q) + 1 /\ r[Len(q) + 1] = e
      /\ \A i \in 1 .. Len(q) : r[i] = q[i]
  BY AppendElements
<1> HIDE DEF r
<1>2. \A i \in 1 .. Len(r) : i \in 1 .. Len(q) \/ i = Len(q) + 1
  BY <1>1
<1>3. Len(q) + 1 \in 1 .. Len(r) /\ \A i \in 1 .. Len(q) : i \in 1 .. Len(r)
  BY <1>1
<1>4. \A p : (\E i \in 1 .. Len(r) : Brings(r[i], p)) <=>
             (\E i \in 1 .. Len(q) : Brings(q[i], p)) \/ Brings(e, p)
  BY <1>1, <1>2, <1>3
<1>5. Bringing(r) = Bringing(q) \cup {p \in Pools : Brings(e, p)}
  BY <1>4 DEF Bringing
<1> QED BY <1>5 DEF r

LEMMA HasOfAppend ==
    ASSUME NEW S, NEW q \in Seq(S), NEW e, NEW k, NEW p, NEW s
    PROVE  HasOf(Append(q, e), k, p, s) <=> HasOf(q, k, p, s) \/ OfAccount(e, k, p, s)
<1> DEFINE r == Append(q, e)
<1>1. /\ Len(q) \in Nat /\ Len(r) = Len(q) + 1 /\ r[Len(q) + 1] = e
      /\ \A i \in 1 .. Len(q) : r[i] = q[i]
  BY AppendElements
<1> HIDE DEF r
<1>2. \A i \in 1 .. Len(r) : i \in 1 .. Len(q) \/ i = Len(q) + 1
  BY <1>1
<1>3. Len(q) + 1 \in 1 .. Len(r) /\ \A i \in 1 .. Len(q) : i \in 1 .. Len(r)
  BY <1>1
<1>4. HasOf(r, k, p, s) <=> HasOf(q, k, p, s) \/ OfAccount(e, k, p, s)
  BY <1>1, <1>2, <1>3 DEF HasOf
<1> QED BY <1>4 DEF r

LEMMA SourcedAppend ==
    ASSUME NEW S, NEW q \in Seq(S), NEW e, NEW rows, NEW kinds, Sourced(q, rows, kinds),
           e.kind \in kinds => e.pool \in Pools /\ e.pool \in rows \cup Bringing(q)
    PROVE  Sourced(Append(q, e), rows, kinds)
<1> DEFINE r == Append(q, e)
<1>1. /\ Len(q) \in Nat /\ Len(r) = Len(q) + 1 /\ r[Len(q) + 1] = e
      /\ \A i \in 1 .. Len(q) : r[i] = q[i]
  BY AppendElements
<1> HIDE DEF r
<1>2. ASSUME NEW i \in 1 .. Len(r), r[i].kind \in kinds
      PROVE  r[i].pool \in rows \/ \E j \in 1 .. i - 1 : Brings(r[j], r[i].pool)
  <2>1. CASE i \in 1 .. Len(q)
    <3>1. q[i].pool \in rows \/ \E j \in 1 .. i - 1 : Brings(q[j], q[i].pool)
      BY <1>1, <1>2, <2>1 DEF Sourced
    <3>2. \A j \in 1 .. i - 1 : r[j] = q[j]
      BY <1>1, <2>1
    <3> QED BY <1>1, <2>1, <3>1, <3>2
  <2>2. CASE i = Len(q) + 1
    <3>1. r[i] = e /\ 1 .. i - 1 = 1 .. Len(q)
      BY <1>1, <2>2
    <3>2. e.pool \in rows \/ \E j \in 1 .. Len(q) : Brings(q[j], e.pool)
      BY <1>2, <3>1 DEF Bringing
    <3> QED BY <1>1, <3>1, <3>2
  <2> QED BY <1>1, <2>1, <2>2
<1>3. Sourced(r, rows, kinds)
  BY <1>2 DEF Sourced
<1> QED BY <1>3 DEF r

LEMMA SourcedMore ==
    ASSUME NEW q, NEW rows, NEW more, rows \subseteq more, NEW kinds, Sourced(q, rows, kinds)
    PROVE  Sourced(q, more, kinds)
BY DEF Sourced

LEMMA SourcedFree ==
    ASSUME NEW q, NEW rows, NEW kinds, \A i \in 1 .. Len(q) : q[i].kind \notin kinds
    PROVE  Sourced(q, rows, kinds)
BY DEF Sourced

LEMMA SourcedTail ==
    ASSUME NEW S, NEW q \in Seq(S), q # <<>>, NEW rows, NEW kinds, Sourced(q, rows, kinds),
           NEW more, rows \subseteq more, \A p : Brings(Head(q), p) => p \in more
    PROVE  /\ Head(q).kind \in kinds => Head(q).pool \in rows
           /\ Sourced(Tail(q), more, kinds)
<1> DEFINE r == Tail(q)
<1>1. /\ Len(q) \in Nat /\ Len(q) >= 1 /\ Len(r) = Len(q) - 1 /\ Head(q) = q[1]
      /\ \A i \in 1 .. Len(q) - 1 : r[i] = q[i + 1]
  BY TailElements
<1> HIDE DEF r
<1>2. Head(q).kind \in kinds => Head(q).pool \in rows
  <2>1. 1 \in 1 .. Len(q) /\ 1 .. 1 - 1 = {}
    BY <1>1
  <2> QED BY <1>1, <2>1 DEF Sourced
<1>3. ASSUME NEW i \in 1 .. Len(r), r[i].kind \in kinds
      PROVE  r[i].pool \in more \/ \E j \in 1 .. i - 1 : Brings(r[j], r[i].pool)
  <2>1. i + 1 \in 1 .. Len(q) /\ r[i] = q[i + 1] /\ i \in Nat
    BY <1>1
  <2>2. CASE q[i + 1].pool \in rows
    BY <2>1, <2>2
  <2>3. CASE \E j \in 1 .. (i + 1) - 1 : Brings(q[j], q[i + 1].pool)
    <3>1. PICK j \in 1 .. i : Brings(q[j], q[i + 1].pool)
      BY <2>1, <2>3
    <3>2. CASE j = 1
      BY <1>1, <2>1, <3>1, <3>2
    <3>3. CASE j > 1
      <4>1. j - 1 \in 1 .. i - 1 /\ r[j - 1] = q[j]
        BY <1>1, <2>1, <3>3
      <4> QED BY <2>1, <3>1, <4>1
    <3> QED BY <3>2, <3>3
  <2> QED BY <1>3, <2>1, <2>2, <2>3 DEF Sourced
<1>4. Sourced(r, more, kinds)
  BY <1>3 DEF Sourced
<1> QED BY <1>2, <1>4 DEF r

LEMMA BringingTail ==
    ASSUME NEW S, NEW q \in Seq(S), q # <<>>, NEW p \in Bringing(q)
    PROVE  Brings(Head(q), p) \/ p \in Bringing(Tail(q))
<1> DEFINE r == Tail(q)
<1>1. /\ Len(q) \in Nat /\ Len(q) >= 1 /\ Len(r) = Len(q) - 1 /\ Head(q) = q[1]
      /\ \A i \in 1 .. Len(q) - 1 : r[i] = q[i + 1]
  BY TailElements
<1> HIDE DEF r
<1>2. PICK i \in 1 .. Len(q) : Brings(q[i], p)
  BY DEF Bringing
<1>3. CASE i = 1
  BY <1>1, <1>2, <1>3
<1>4. CASE i > 1
  <2>1. i - 1 \in 1 .. Len(r) /\ r[i - 1] = q[i]
    BY <1>1, <1>4
  <2>2. p \in Bringing(r)
    BY <1>2, <2>1 DEF Bringing
  <2> QED BY <2>2 DEF r
<1> QED BY <1>3, <1>4

LEMMA BringingJoin ==
    ASSUME NEW S, NEW q \in Seq(S), NEW r \in Seq(S)
    PROVE  Bringing(q) \cup Bringing(r) \subseteq Bringing(q \o r)
<1> DEFINE t == q \o r
<1>1. /\ Len(q) \in Nat /\ Len(r) \in Nat /\ Len(t) = Len(q) + Len(r)
      /\ \A i \in 1 .. Len(q) : t[i] = q[i]
      /\ \A i \in 1 .. Len(r) : t[Len(q) + i] = r[i]
  BY JoinElements
<1> HIDE DEF t
<1>2. \A i \in 1 .. Len(q) : i \in 1 .. Len(t)
  BY <1>1
<1>3. \A i \in 1 .. Len(r) : Len(q) + i \in 1 .. Len(t)
  BY <1>1
<1>4. Bringing(q) \cup Bringing(r) \subseteq Bringing(t)
  BY <1>1, <1>2, <1>3 DEF Bringing
<1> QED BY <1>4 DEF t

LEMMA SourcedJoin ==
    ASSUME NEW S, NEW q \in Seq(S), NEW r \in Seq(S), NEW rows, NEW kinds,
           Sourced(q, rows, kinds), Sourced(r, rows \cup Bringing(q), kinds)
    PROVE  Sourced(q \o r, rows, kinds)
<1> DEFINE t == q \o r
           n == Len(q)
<1>1. /\ n \in Nat /\ Len(r) \in Nat /\ Len(t) = n + Len(r)
      /\ \A i \in 1 .. n : t[i] = q[i]
      /\ \A i \in 1 .. Len(r) : t[n + i] = r[i]
      /\ \A i \in 1 .. Len(t) :
            i \in 1 .. n \/ (i - n \in 1 .. Len(r) /\ t[i] = r[i - n])
  BY JoinElements
<1> HIDE DEF t
<1>2. ASSUME NEW i \in 1 .. Len(t), t[i].kind \in kinds
      PROVE  t[i].pool \in rows \/ \E j \in 1 .. i - 1 : Brings(t[j], t[i].pool)
  <2>1. CASE i \in 1 .. n
    <3>1. q[i].pool \in rows \/ \E j \in 1 .. i - 1 : Brings(q[j], q[i].pool)
      BY <1>1, <1>2, <2>1 DEF Sourced
    <3>2. \A j \in 1 .. i - 1 : t[j] = q[j]
      BY <1>1, <2>1
    <3> QED BY <1>1, <2>1, <3>1, <3>2
  <2>2. CASE i - n \in 1 .. Len(r) /\ t[i] = r[i - n]
    <3> DEFINE m == i - n
    <3>1. \/ r[m].pool \in rows \cup Bringing(q)
          \/ \E j \in 1 .. m - 1 : Brings(r[j], r[m].pool)
      BY <1>2, <2>2 DEF Sourced
    <3>2. CASE r[m].pool \in rows
      BY <2>2, <3>2
    <3>3. CASE r[m].pool \in Bringing(q)
      <4>1. PICK j \in 1 .. n : Brings(q[j], r[m].pool)
        BY <3>3 DEF Bringing
      <4>2. j \in 1 .. i - 1 /\ t[j] = q[j]
        BY <1>1, <2>2
      <4> QED BY <2>2, <4>1, <4>2
    <3>4. CASE \E j \in 1 .. m - 1 : Brings(r[j], r[m].pool)
      <4>1. PICK j \in 1 .. m - 1 : Brings(r[j], r[m].pool)
        BY <3>4
      <4>2. n + j \in 1 .. i - 1 /\ j \in 1 .. Len(r)
        BY <1>1, <2>2
      <4>3. t[n + j] = r[j]
        BY <1>1, <4>2
      <4> QED BY <2>2, <4>1, <4>2, <4>3
    <3> QED BY <3>1, <3>2, <3>3, <3>4
  <2> QED BY <1>1, <2>1, <2>2
<1>3. Sourced(t, rows, kinds)
  BY <1>2 DEF Sourced
<1> QED BY <1>3 DEF t

LEMMA HasOfJoin ==
    ASSUME NEW S, NEW q \in Seq(S), NEW r \in Seq(S), NEW k, NEW p, NEW s
    PROVE  HasOf(q \o r, k, p, s) <=> HasOf(q, k, p, s) \/ HasOf(r, k, p, s)
<1> DEFINE t == q \o r
           n == Len(q)
<1>1. /\ n \in Nat /\ Len(r) \in Nat /\ Len(t) = n + Len(r)
      /\ \A i \in 1 .. n : t[i] = q[i]
      /\ \A i \in 1 .. Len(r) : t[n + i] = r[i]
      /\ \A i \in 1 .. Len(t) :
            i \in 1 .. n \/ (i - n \in 1 .. Len(r) /\ t[i] = r[i - n])
  BY JoinElements
<1> HIDE DEF t, n
<1>2. \A i \in 1 .. n : i \in 1 .. Len(t)
  BY <1>1
<1>3. \A i \in 1 .. Len(r) : n + i \in 1 .. Len(t)
  BY <1>1
<1>4. (\E i \in 1 .. Len(t) : OfAccount(t[i], k, p, s)) <=>
        \/ \E i \in 1 .. n : OfAccount(q[i], k, p, s)
        \/ \E i \in 1 .. Len(r) : OfAccount(r[i], k, p, s)
  BY <1>1, <1>2, <1>3
<1> QED BY <1>4 DEF HasOf, t, n

(* Claims and orders of an account are in one of two parts.                *)
LEMMA MatchedJoin ==
    ASSUME NEW S, NEW q \in Seq(S), NEW r \in Seq(S), NEW p, NEW s, NEW x,
           \/ /\ Matched(q, p, s, x)
              /\ ~HasOf(r, "ClaimedOrderedWithdrawal", p, s) /\ ~HasOf(r, "OrderedWithdrawal", p, s)
           \/ /\ Matched(r, p, s, x)
              /\ ~HasOf(q, "ClaimedOrderedWithdrawal", p, s) /\ ~HasOf(q, "OrderedWithdrawal", p, s)
    PROVE  Matched(q \o r, p, s, x)
<1> DEFINE t == q \o r
           n == Len(q)
<1>1. /\ n \in Nat /\ Len(r) \in Nat /\ Len(t) = n + Len(r)
      /\ \A i \in 1 .. n : t[i] = q[i]
      /\ \A i \in 1 .. Len(r) : t[n + i] = r[i]
      /\ \A i \in 1 .. Len(t) :
            i \in 1 .. n \/ (i - n \in 1 .. Len(r) /\ t[i] = r[i - n])
  BY JoinElements
<1> HIDE DEF t
<1>2. CASE /\ Matched(q, p, s, x)
           /\ ~HasOf(r, "ClaimedOrderedWithdrawal", p, s) /\ ~HasOf(r, "OrderedWithdrawal", p, s)
  <2>1. \A j \in 1 .. Len(t) : (/\ ~OfAccount(t[j], "ClaimedOrderedWithdrawal", p, s)
                                /\ ~OfAccount(t[j], "OrderedWithdrawal", p, s))
                               \/ (j \in 1 .. n /\ t[j] = q[j])
    BY <1>1, <1>2 DEF HasOf
  <2>2. Matched(t, p, s, x)
    BY <1>2, <2>1 DEF Matched
  <2> QED BY <2>2 DEF t
<1>3. CASE /\ Matched(r, p, s, x)
           /\ ~HasOf(q, "ClaimedOrderedWithdrawal", p, s) /\ ~HasOf(q, "OrderedWithdrawal", p, s)
  <2>1. \A j \in 1 .. Len(t) : (/\ ~OfAccount(t[j], "ClaimedOrderedWithdrawal", p, s)
                                /\ ~OfAccount(t[j], "OrderedWithdrawal", p, s))
                               \/ (j - n \in 1 .. Len(r) /\ t[j] = r[j - n])
    BY <1>1, <1>3 DEF HasOf
  <2>2. ASSUME NEW i \in 1 .. Len(t), OfAccount(t[i], "ClaimedOrderedWithdrawal", p, s)
        PROVE  /\ t[i].amount = x
               /\ \A j \in 1 .. Len(t) : j # i =>
                    /\ ~OfAccount(t[j], "ClaimedOrderedWithdrawal", p, s)
                    /\ ~OfAccount(t[j], "OrderedWithdrawal", p, s)
    <3>1. i - n \in 1 .. Len(r) /\ t[i] = r[i - n]
      BY <2>1, <2>2
    <3>2. /\ r[i - n].amount = x
          /\ \A k \in 1 .. Len(r) : k # i - n =>
                    /\ ~OfAccount(r[k], "ClaimedOrderedWithdrawal", p, s)
                    /\ ~OfAccount(r[k], "OrderedWithdrawal", p, s)
      BY <1>3, <2>2, <3>1 DEF Matched
    <3>3. \A j \in 1 .. Len(t) : j # i => j - n # i - n
      BY <1>1
    <3> QED BY <2>1, <3>1, <3>2, <3>3
  <2>3. Matched(t, p, s, x)
    BY <2>2 DEF Matched
  <2> QED BY <2>3 DEF t
<1> QED BY <1>2, <1>3

LEMMA MatchedNone ==
    ASSUME NEW q, NEW p, NEW s, ~HasOf(q, "ClaimedOrderedWithdrawal", p, s), NEW x
    PROVE  Matched(q, p, s, x)
BY DEF Matched, HasOf

(* What is left of a matched sequence, with what is then open.             *)
LEMMA MatchedTail ==
    ASSUME NEW q \in Seq(Events), q # <<>>, NEW p \in Pools, NEW s \in Stakers, NEW x \in Nat,
           Matched(q, p, s, x)
    PROVE  /\ OfAccount(Head(q), "ClaimedOrderedWithdrawal", p, s) => x = Head(q).amount
           /\ x + OrderWeight(p, s)[Head(q)] \in Nat
           /\ Matched(Tail(q), p, s, x + OrderWeight(p, s)[Head(q)])
<1> DEFINE r == Tail(q)
           e == Head(q)
           w == OrderWeight(p, s)[e]
<1>1. /\ Len(q) \in Nat /\ Len(q) >= 1 /\ Len(r) = Len(q) - 1 /\ e = q[1] /\ e \in Events
      /\ \A i \in 1 .. Len(q) - 1 : r[i] = q[i + 1]
  BY TailElements
<1> HIDE DEF r, e
<1>2. e.amount \in Nat /\ 1 \in 1 .. Len(q) /\ \A i \in 1 .. Len(r) : i + 1 \in 1 .. Len(q) /\ i + 1 # 1
  BY <1>1, EventFields
<1>3. w = IF OfAccount(e, "OrderedWithdrawal", p, s) THEN e.amount
          ELSE IF OfAccount(e, "ClaimedOrderedWithdrawal", p, s) THEN -e.amount ELSE 0
  BY <1>1 DEF OrderWeight, OfAccount
<1> HIDE DEF w
<1>4. CASE OfAccount(e, "ClaimedOrderedWithdrawal", p, s) \/ OfAccount(e, "OrderedWithdrawal", p, s)
  <2>1. \A i \in 1 .. Len(r) : ~OfAccount(r[i], "ClaimedOrderedWithdrawal", p, s)
    BY <1>1, <1>2, <1>4 DEF Matched
  <2>2. Matched(r, p, s, x + w)
    BY <2>1 DEF Matched
  <2>3. OfAccount(e, "ClaimedOrderedWithdrawal", p, s) => x = e.amount
    BY <1>1, <1>2 DEF Matched
  <2>4. x + w \in Nat
    BY <1>2, <1>3, <1>4, <2>3 DEF OfAccount
  <2> QED BY <2>2, <2>3, <2>4 DEF r, e, w
<1>5. CASE ~OfAccount(e, "ClaimedOrderedWithdrawal", p, s) /\ ~OfAccount(e, "OrderedWithdrawal", p, s)
  <2>1. x + w = x
    BY <1>3, <1>5
  <2>2. ASSUME NEW i \in 1 .. Len(r), OfAccount(r[i], "ClaimedOrderedWithdrawal", p, s)
        PROVE  /\ r[i].amount = x
               /\ \A j \in 1 .. Len(r) : j # i =>
                    /\ ~OfAccount(r[j], "ClaimedOrderedWithdrawal", p, s)
                    /\ ~OfAccount(r[j], "OrderedWithdrawal", p, s)
    <3>1. r[i] = q[i + 1] /\ \A j \in 1 .. Len(r) : r[j] = q[j + 1]
      BY <1>1
    <3>2. /\ q[i + 1].amount = x
          /\ \A k \in 1 .. Len(q) : k # i + 1 =>
                    /\ ~OfAccount(q[k], "ClaimedOrderedWithdrawal", p, s)
                    /\ ~OfAccount(q[k], "OrderedWithdrawal", p, s)
      BY <1>2, <2>2, <3>1 DEF Matched
    <3>3. \A j \in 1 .. Len(r) : j # i => j + 1 # i + 1
      OBVIOUS
    <3> QED BY <1>2, <3>1, <3>2, <3>3
  <2>3. Matched(r, p, s, x + w)
    BY <2>1, <2>2 DEF Matched
  <2> QED BY <1>5, <2>1, <2>3 DEF r, e, w
<1> QED BY <1>4, <1>5

LEMMA MatchedAppend ==
    ASSUME NEW S, NEW q \in Seq(S), NEW e, NEW p, NEW s, NEW x,
           \/ /\ Matched(q, p, s, x)
              /\ ~OfAccount(e, "ClaimedOrderedWithdrawal", p, s)
              /\ ~OfAccount(e, "OrderedWithdrawal", p, s)
           \/ /\ OfAccount(e, "ClaimedOrderedWithdrawal", p, s) /\ e.amount = x
              /\ ~HasOf(q, "ClaimedOrderedWithdrawal", p, s) /\ ~HasOf(q, "OrderedWithdrawal", p, s)
    PROVE  Matched(Append(q, e), p, s, x)
<1> DEFINE r == Append(q, e)
<1>1. /\ Len(q) \in Nat /\ Len(r) = Len(q) + 1 /\ r[Len(q) + 1] = e
      /\ \A i \in 1 .. Len(q) : r[i] = q[i]
  BY AppendElements
<1> HIDE DEF r
<1>2. \A i \in 1 .. Len(r) : i \in 1 .. Len(q) \/ (i \notin 1 .. Len(q) /\ i = Len(q) + 1)
  BY <1>1
<1>3. CASE /\ Matched(q, p, s, x)
           /\ ~OfAccount(e, "ClaimedOrderedWithdrawal", p, s)
           /\ ~OfAccount(e, "OrderedWithdrawal", p, s)
  <2>1. Matched(r, p, s, x)
    BY <1>1, <1>2, <1>3 DEF Matched
  <2> QED BY <2>1 DEF r
<1>4. CASE /\ OfAccount(e, "ClaimedOrderedWithdrawal", p, s) /\ e.amount = x
           /\ ~HasOf(q, "ClaimedOrderedWithdrawal", p, s) /\ ~HasOf(q, "OrderedWithdrawal", p, s)
  <2>1. Matched(r, p, s, x)
    BY <1>1, <1>2, <1>4 DEF Matched, HasOf
  <2> QED BY <2>1 DEF r
<1> QED BY <1>3, <1>4

-----------------------------------------------------------------------------
(* An event of the contract keeps the invariant.                           *)

Grows(em, n, e) ==
    /\ EmittedTyped(n) /\ e.kind \in Kinds /\ n[e.kind] = Append(em[e.kind], e)
    /\ \A k \in Kinds : k # e.kind => n[k] = em[k]
    /\ \A k \in Kinds : em[k] \in Seq(EventsOf(k))

LEMMA EmittedGrows ==
    ASSUME NEW em, EmittedTyped(em), NEW e \in Events,
           NEW n, n = [em EXCEPT ![e.kind] = Append(@, e)]
    PROVE  Grows(em, n, e)
<1>1. e.kind \in Kinds /\ e \in EventsOf(e.kind)
  BY EventFields DEF EventsOf
<1>2. n[e.kind] = Append(em[e.kind], e) /\ DOMAIN n = Kinds
      /\ \A k \in Kinds : k # e.kind => n[k] = em[k]
  BY <1>1 DEF EmittedTyped
<1>3. Append(em[e.kind], e) \in Seq(EventsOf(e.kind))
  BY <1>1 DEF EmittedTyped
<1> QED BY <1>1, <1>2, <1>3 DEF EmittedTyped, Grows

LEMMA TablesKept ==
    ASSUME UNCHANGED <<block, db, work>>
    PROVE  /\ \A p, x : Stands(db, p, x)' <=> Stands(db, p, x)
           /\ \A p, x : Stands(work, p, x)' <=> Stands(work, p, x)
           /\ \A p : Sound(db, p)' <=> Sound(db, p)
           /\ \A p : Sound(work, p)' <=> Sound(work, p)
<1>1. \A p, x : Stands(db, p, x)' <=> Stands(db, p, x)
  BY DEF Stands, Newest, HasRow
<1>2. \A p, x : Stands(work, p, x)' <=> Stands(work, p, x)
  BY DEF Stands, Newest, HasRow
<1> QED BY <1>1, <1>2 DEF Sound

LEMMA HappensTyped ==
    ASSUME Typed, NEW e, Happens(e)
    PROVE  Typed'
<1>1. UNCHANGED <<past, block, queue, pc, db, work>> /\ EmittedTyped(emitted) /\ e \in Events
      /\ emitted' = [emitted EXCEPT ![e.kind] = Append(@, e)]
  BY DEF Typed, Happens
<1>2. EmittedTyped(emitted')
  BY <1>1, EmittedGrows DEF Grows
<1>3. \A p \in Pools : Sound(db, p)' /\ Sound(work, p)'
  BY <1>1, TablesKept DEF Typed
<1>4. /\ past' \in [1 .. MaxBlock -> [Pools -> Nat]] /\ block' \in 1 .. MaxBlock
      /\ queue' \in Seq(Events) /\ pc' \in {"chain", "visit", "refused"}
      /\ db' \in Tables /\ work' \in Tables /\ (pc' # "visit" => work' = db')
  BY <1>1 DEF Typed
<1> QED BY <1>2, <1>3, <1>4 DEF Typed, Happens

LEMMA HappensGrounded ==
    ASSUME Typed, Grounded, NEW e, Happens(e)
    PROVE  Grounded'
<1>1. /\ UNCHANGED <<past, block, queue, pc, db, work>> /\ EmittedTyped(emitted) /\ e \in Events
      /\ emitted' = [emitted EXCEPT ![e.kind] = Append(@, e)] /\ pc = "chain"
  BY DEF Typed, Happens
<1>2. /\ EmittedTyped(emitted') /\ emitted'[e.kind] = Append(emitted[e.kind], e)
      /\ \A k \in Kinds : k # e.kind => emitted'[k] = emitted[k]
      /\ \A k \in Kinds : emitted[k] \in Seq(EventsOf(k))
  <2>1. Grows(emitted, emitted', e)
    BY <1>1, EmittedGrows
  <2> QED BY <2>1 DEF Grows
<1>3. /\ e.kind \in Kinds /\ e.pool \in Pools
      /\ \A k \in {"PlacedStake", "MovedStake", "ClaimedOrderedWithdrawal", "GatherAbandonedStakes"} :
            k \in Kinds
  BY <1>1, EventFields DEF Kinds
<1>4. /\ Bringing(emitted'[e.kind]) = Bringing(emitted[e.kind]) \cup {p \in Pools : Brings(e, p)}
      /\ \A k \in Kinds : Bringing(emitted[k]) \subseteq Bringing(emitted'[k])
  <2>1. emitted[e.kind] \in Seq(EventsOf(e.kind))
    BY <1>2, <1>3
  <2>2. Bringing(Append(emitted[e.kind], e)) = Bringing(emitted[e.kind]) \cup {p \in Pools : Brings(e, p)}
    BY <2>1, BringingAppend
  <2>3. \A k \in Kinds : k # e.kind => Bringing(emitted'[k]) = Bringing(emitted[k])
    BY <1>2
  <2> QED BY <1>2, <2>2, <2>3
<1>5. \A p : Brings(e, p) => e.kind = "PlacedStake" \/ e.kind = "MovedStake"
  BY DEF Brings
<1>6. Fed(emitted)' = Rows(db) \cup Bringing(emitted'["PlacedStake"]) \cup Bringing(emitted'["MovedStake"])
  BY <1>1 DEF Fed, Rows, HasRow
<1>7. Fed(emitted) \subseteq Fed(emitted)' /\ \A p \in Pools : Brings(e, p) => p \in Fed(emitted)'
  <2>1. \A p \in Pools : Brings(e, p) => p \in Bringing(emitted'[e.kind])
    BY <1>4
  <2> QED BY <1>3, <1>4, <1>5, <1>6, <2>1 DEF Fed
<1>8. ASSUME NEW p \in Pools, NEW s \in Stakers, stake'[<<p, s>>] > 0 PROVE p \in Fed(emitted)'
  <2>1. stake[<<p, s>>] > 0 \/ Brings(e, p)
    BY <1>8 DEF Happens
  <2> QED BY <1>1, <1>7, <2>1 DEF Grounded
<1>9. e.kind \in Taking => e.pool \in Fed(emitted)
  <2>1. e.kind \in Taking => \E s \in Stakers : stake[<<e.pool, s>>] > 0
    BY DEF Happens
  <2> QED BY <1>1, <1>3, <2>1 DEF Grounded
<1>10. Sourced(emitted'["MovedStake"], Rows(db) \cup Bringing(emitted'["PlacedStake"]), Taking)
  <2> DEFINE rows == Rows(db) \cup Bringing(emitted["PlacedStake"])
             more == Rows(db) \cup Bringing(emitted'["PlacedStake"])
  <2>1. rows \subseteq more
    BY <1>3, <1>4
  <2>2. Sourced(emitted["MovedStake"], rows, Taking)
    BY <1>1 DEF Grounded
  <2>3. e.pool \in Fed(emitted) => e.pool \in rows \cup Bringing(emitted["MovedStake"])
    BY DEF Fed
  <2> HIDE DEF rows, more
  <2>4. Sourced(emitted'["MovedStake"], rows, Taking)
    <3>1. CASE e.kind = "MovedStake"
      <4>1. emitted["MovedStake"] \in Seq(EventsOf("MovedStake"))
        BY <1>2, <1>3
      <4>2. Sourced(Append(emitted["MovedStake"], e), rows, Taking)
        BY <1>3, <1>9, <2>2, <2>3, <4>1, SourcedAppend
      <4> QED BY <1>2, <3>1, <4>2
    <3>2. CASE e.kind # "MovedStake"
      BY <1>2, <1>3, <2>2, <3>2
    <3> QED BY <3>1, <3>2
  <2> QED BY <2>1, <2>4, SourcedMore DEF more
<1>11. ASSUME NEW k \in {"ClaimedOrderedWithdrawal", "GatherAbandonedStakes"},
              NEW i \in 1 .. Len(emitted'[k])
       PROVE  emitted'[k][i].pool \in Fed(emitted)'
  <2>0. k \in Kinds /\ k \in Taking
    BY DEF Kinds, Taking
  <2>1. \A j \in 1 .. Len(emitted[k]) : emitted[k][j].pool \in Fed(emitted)
    BY <1>1 DEF Grounded
  <2>2. CASE e.kind = k
    <3>1. /\ Len(emitted[k]) \in Nat /\ Len(emitted'[k]) = Len(emitted[k]) + 1
          /\ emitted'[k][Len(emitted[k]) + 1] = e
          /\ \A j \in 1 .. Len(emitted[k]) : emitted'[k][j] = emitted[k][j]
      BY <1>2, <2>0, <2>2, AppendElements
    <3>2. i \in 1 .. Len(emitted[k]) \/ i = Len(emitted[k]) + 1
      BY <3>1
    <3> QED BY <1>7, <1>9, <2>0, <2>1, <2>2, <3>1, <3>2
  <2>3. CASE e.kind # k
    BY <1>2, <1>7, <2>0, <2>1, <2>3
  <2> QED BY <2>2, <2>3
<1>12. Rows(db)' = Rows(db)
  BY <1>1 DEF Rows, HasRow
<1> QED BY <1>1, <1>8, <1>10, <1>11, <1>12 DEF Grounded

LEMMA HappensDelegating ==
    ASSUME Typed, Delegating, NEW e, Happens(e)
    PROVE  Delegating'
<1>1. /\ UNCHANGED <<past, block, queue, pc, db, work>> /\ EmittedTyped(emitted) /\ e \in Events
      /\ emitted' = [emitted EXCEPT ![e.kind] = Append(@, e)] /\ pc = "chain"
  BY DEF Typed, Happens
<1>2. ASSUME NEW p \in Pools, NEW s \in Stakers, p # s
      PROVE  AllLead(emitted', StakerWeight(p, s), db'.delegated[<<p, s>>],
                     stake'[<<p, s>>] + left'[<<p, s>>])
  <2> DEFINE x == db.delegated[<<p, s>>]
             y == stake[<<p, s>>] + left[<<p, s>>]
             w == StakerWeight(p, s)
  <2>1. AllLead(emitted, w, x, y)
    BY <1>1, <1>2 DEF Delegating
  <2>2. <<p, s>> \in Accounts
    BY DEF Accounts
  <2>3. x \in Int /\ y \in Int /\ w[e] \in Int
    BY <1>1, <2>2, Weights DEF Typed, Tables
  <2>4. stake'[<<p, s>>] + left'[<<p, s>>] = y + w[e]
    BY DEF Happens
  <2> HIDE DEF x, y, w
  <2>5. AllLead(emitted', w, x, y + w[e])
    BY <1>1, <2>1, <2>3, AllLeadEmit
  <2> QED BY <1>1, <2>4, <2>5 DEF x, w
<1> QED BY <1>1, <1>2 DEF Delegating

LEMMA HappensTelling ==
    ASSUME Typed, Telling, NEW e, Happens(e)
    PROVE  Telling'
<1>1. /\ UNCHANGED <<past, block, queue, pc, db, work>> /\ EmittedTyped(emitted) /\ e \in Events
      /\ emitted' = [emitted EXCEPT ![e.kind] = Append(@, e)] /\ pc = "chain"
  BY DEF Typed, Happens
<1>2. ASSUME NEW p \in Pools
      PROVE  \E x \in Int : Stands(db, p, x)' /\ AllLead(emitted, PoolWeight(p), x, PoolStake(p))'
  <2>1. PICK x \in Int : Stands(db, p, x) /\ AllLead(emitted, PoolWeight(p), x, PoolStake(p))
    BY <1>1 DEF Telling
  <2> DEFINE w == PoolWeight(p)
  <2>2. PoolStake(p) \in Int /\ w[e] \in Int
    <3>1. Sum(stake, p) \in Nat
      BY SumInt DEF Typed
    <3>2. w[e] \in Int
      BY <1>1, Weights
    <3> QED BY <3>1, <3>2 DEF PoolStake, Sum
  <2>3. PoolStake(p)' = PoolStake(p) + w[e]
    BY DEF Happens, PoolStake, Sum
  <2> HIDE DEF w
  <2>4. AllLead(emitted', w, x, PoolStake(p) + w[e])
    BY <1>1, <2>1, <2>2, AllLeadEmit DEF w
  <2>5. AllLead(emitted', PoolWeight(p), x, PoolStake(p)')
    BY <2>3, <2>4 DEF w
  <2>6. Stands(db, p, x)'
    BY <1>1, <2>1, TablesKept
  <2> QED BY <2>5, <2>6
<1>3. \A p \in Pools, b \in 1 .. block - 1 :
        Told(db', p, b, past[b][p]) /\ Told(work', p, b, past[b][p])
  BY <1>1 DEF Telling
<1>4. \A p, b, x : (Told(db, p, b, x)' <=> Told(db', p, b, x)) /\ (Told(work, p, b, x)' <=> Told(work', p, b, x))
  BY DEF Told, RowsAt, RowsOf
<1> QED BY <1>1, <1>2, <1>3, <1>4 DEF Telling

(* What is known of the account after the event.                           *)
LEMMA HappensOrdering ==
    ASSUME Typed, Ordering, NEW e, Happens(e), ~crossed'
    PROVE  Ordering'
<1>1. /\ UNCHANGED <<past, block, queue, pc, db, work>> /\ EmittedTyped(emitted) /\ e \in Events
      /\ emitted' = [emitted EXCEPT ![e.kind] = Append(@, e)] /\ pc = "chain"
  BY DEF Typed, Happens
<1>2. /\ EmittedTyped(emitted') /\ emitted'[e.kind] = Append(emitted[e.kind], e)
      /\ \A k \in Kinds : k # e.kind => emitted'[k] = emitted[k]
      /\ \A k \in Kinds : emitted[k] \in Seq(EventsOf(k))
  <2>1. Grows(emitted, emitted', e)
    BY <1>1, EmittedGrows
  <2> QED BY <2>1 DEF Grows
<1>3. ASSUME NEW p \in Pools, NEW s \in Stakers
      PROVE  \E x \in Nat : Opens(db', p, s, x) /\ OrderingChain(p, s, x)'
  <2>1. PICK x \in Nat : Opens(db, p, s, x) /\ OrderingChain(p, s, x)
    BY <1>1 DEF Ordering
  <2> DEFINE w == OrderWeight(p, s)
             o == "OrderedWithdrawal"
             c == "ClaimedOrderedWithdrawal"
             orders == emitted[o]
             claims == emitted[c]
             y == ordered[<<p, s>>]
  <2>2. /\ AllLead(emitted, w, x, y) /\ Matched(claims, p, s, x)
        /\ HasOf(claims, c, p, s) => y = 0 /\ ~HasOf(orders, o, p, s)
        /\ HasOf(orders, o, p, s) => orderedAt[<<p, s>>] = block
        /\ HasOf(claims, c, p, s) \/ HasOf(orders, o, p, s) \/ y = x
    BY <2>1 DEF OrderingChain
  <2>3. /\ ordered'[<<p, s>>] = y + w[e]
        /\ OfAccount(e, o, p, s) =>
             /\ orderedAt'[<<p, s>>] = block
             /\ ~HasOf(claims, c, p, s)
        /\ ~OfAccount(e, o, p, s) => orderedAt'[<<p, s>>] = orderedAt[<<p, s>>]
        /\ OfAccount(e, c, p, s) =>
             /\ e.amount = y /\ y > 0 /\ orderedAt[<<p, s>>] < block
    BY DEF Happens
  <2>4. y \in Nat /\ w[e] \in Int /\ block \in Nat /\ orderedAt[<<p, s>>] \in Nat /\ e.amount \in Nat
    <3>1. <<p, s>> \in Accounts
      BY DEF Accounts
    <3> QED BY <1>1, <3>1, Weights, EventFields DEF Typed
  <2>5. w[e] = IF OfAccount(e, o, p, s) THEN e.amount
               ELSE IF OfAccount(e, c, p, s) THEN -e.amount ELSE 0
    BY <1>1 DEF OrderWeight, OfAccount
  <2>6. AllLead(emitted', w, x, y + w[e])
    <3>1. AllLead(emitted, w, x, y) /\ x \in Int /\ y \in Int /\ w[e] \in Int
      BY <2>2, <2>4
    <3> HIDE DEF w, y
    <3> QED BY <1>1, <3>1, AllLeadEmit
  <2>7. c \in Kinds /\ o \in Kinds /\ c # o
    BY DEF Kinds
  <2>8. orders \in Seq(EventsOf(o)) /\ claims \in Seq(EventsOf(c))
    BY <1>2, <2>7
  <2>9. HasOf(emitted'[o], o, p, s) <=> HasOf(orders, o, p, s) \/ OfAccount(e, o, p, s)
    <3>1. CASE e.kind = o
      <4>1. HasOf(Append(orders, e), o, p, s) <=> HasOf(orders, o, p, s) \/ OfAccount(e, o, p, s)
        BY <2>8, HasOfAppend
      <4>2. emitted'[o] = Append(orders, e)
        BY <1>2, <3>1
      <4> QED BY <4>1, <4>2
    <3>2. CASE e.kind # o
      BY <1>2, <2>7, <3>2 DEF OfAccount
    <3> QED BY <3>1, <3>2
  <2>10. HasOf(emitted'[c], c, p, s) <=> HasOf(claims, c, p, s) \/ OfAccount(e, c, p, s)
    <3>1. CASE e.kind = c
      <4>1. HasOf(Append(claims, e), c, p, s) <=> HasOf(claims, c, p, s) \/ OfAccount(e, c, p, s)
        BY <2>8, HasOfAppend
      <4>2. emitted'[c] = Append(claims, e)
        BY <1>2, <3>1
      <4> QED BY <4>1, <4>2
    <3>2. CASE e.kind # c
      BY <1>2, <2>7, <3>2 DEF OfAccount
    <3> QED BY <3>1, <3>2
  <2>11. OfAccount(e, c, p, s) => y = x /\ ~HasOf(claims, c, p, s) /\ ~HasOf(orders, o, p, s)
    BY <2>2, <2>3, <2>4
  <2>12. ~(OfAccount(e, c, p, s) /\ OfAccount(e, o, p, s))
    BY DEF OfAccount
  <2>13. Matched(emitted'[c], p, s, x)
    <3>1. CASE e.kind # c
      BY <1>2, <2>2, <2>7, <3>1
    <3>2. CASE e.kind = c
      <4>1. ~OfAccount(e, o, p, s) /\ emitted'[c] = Append(claims, e)
        BY <1>2, <3>2 DEF OfAccount
      <4>2. ~HasOf(claims, o, p, s)
        BY <2>8 DEF HasOf, OfAccount, EventsOf
      <4>3. Matched(Append(claims, e), p, s, x)
        <5>1. CASE OfAccount(e, c, p, s)
          BY <2>3, <2>8, <2>11, <4>2, <5>1, MatchedAppend
        <5>2. CASE ~OfAccount(e, c, p, s)
          BY <2>2, <2>8, <4>1, <5>2, MatchedAppend
        <5> QED BY <5>1, <5>2
      <4> QED BY <4>1, <4>3
    <3> QED BY <3>1, <3>2
  <2> DEFINE z == ordered'[<<p, s>>]
  <2>14. /\ HasOf(emitted'[c], c, p, s) => z = 0 /\ ~HasOf(emitted'[o], o, p, s)
         /\ HasOf(emitted'[o], o, p, s) => orderedAt'[<<p, s>>] = block
         /\ HasOf(emitted'[c], c, p, s) \/ HasOf(emitted'[o], o, p, s) \/ z = x
    <3> HIDE DEF y, w, orders, claims, o, c
    <3>1. CASE OfAccount(e, c, p, s)
      BY <2>3, <2>4, <2>5, <2>9, <2>10, <2>11, <2>12, <3>1
    <3>2. CASE OfAccount(e, o, p, s)
      BY <2>3, <2>9, <2>10, <2>12, <3>2
    <3>3. CASE ~OfAccount(e, c, p, s) /\ ~OfAccount(e, o, p, s)
      BY <2>2, <2>3, <2>4, <2>5, <2>9, <2>10, <3>3
    <3> QED BY <3>1, <3>2, <3>3
  <2>15. AllLead(emitted', w, x, z)
    BY <2>3, <2>6
  <2> HIDE DEF z, w
  <2>16. OrderingChain(p, s, x)'
    BY <1>1, <2>13, <2>14, <2>15 DEF OrderingChain, z, w
  <2> QED BY <1>1, <2>1, <2>16
<1>4. \A p, s, x : Opens(db, p, s, x)' <=> Opens(db', p, s, x)
  BY DEF Opens, OpenOrders
<1> QED BY <1>1, <1>3, <1>4 DEF Ordering

LEMMA HappensLedger ==
    ASSUME Ledger, NEW e, Happens(e)
    PROVE  Ledger'
<1>1. crossed => crossed'
  BY DEF Happens
<1> QED BY <1>1, HappensTyped, HappensGrounded, HappensDelegating, HappensTelling, HappensOrdering
    DEF Ledger

-----------------------------------------------------------------------------
(* The first state, and a step that changes nothing.                       *)

LEMMA NothingEmitted ==
    /\ EmittedTyped(NoEvents) /\ \A k \in Kinds : NoEvents[k] = <<>>
    /\ Bringing(<<>>) = {} /\ \A k, p, s : ~HasOf(<<>>, k, p, s)
    /\ \A rows, kinds : Sourced(<<>>, rows, kinds)
    /\ \A p, s, x : Matched(<<>>, p, s, x)
<1>1. \A k \in Kinds : NoEvents[k] = <<>> /\ <<>> \in Seq(EventsOf(k))
  BY DEF NoEvents
<1>2. EmittedTyped(NoEvents)
  BY <1>1 DEF EmittedTyped, NoEvents
<1>3. Len(<<>>) = 0 /\ 1 .. 0 = {}
  OBVIOUS
<1> QED BY <1>1, <1>2, <1>3 DEF Bringing, HasOf, Sourced, Matched

LEMMA NothingKnown ==
    /\ EmptyTables \in Tables /\ Rows(EmptyTables) = {}
    /\ \A a \in Accounts : EmptyTables.delegated[a] = 0
    /\ \A p, s : Opens(EmptyTables, p, s, 0)
    /\ \A p : Stands(EmptyTables, p, 0) /\ Sound(EmptyTables, p)
<1>1. EmptyTables.history = {} /\ EmptyTables.orders = {}
      /\ EmptyTables.delegated = [a \in Accounts |-> 0]
  BY DEF EmptyTables
<1>2. EmptyTables \in Tables
  BY FS_EmptySet DEF EmptyTables, Tables
<1>3. \A p : ~HasRow(EmptyTables, p)
  BY <1>1 DEF HasRow
<1>4. \A p : Stands(EmptyTables, p, 0)
  BY <1>3 DEF Stands
<1>5. \A p, s : Opens(EmptyTables, p, s, 0)
  BY <1>1 DEF Opens, OpenOrders
<1> QED BY <1>1, <1>2, <1>3, <1>4, <1>5 DEF Rows, Sound

LEMMA InitLedger ==
    ASSUME Init
    PROVE  Ledger
<1>1. /\ block = 1 /\ emitted = NoEvents /\ queue = <<>> /\ pc = "chain"
      /\ db = EmptyTables /\ work = EmptyTables /\ crossed = FALSE
      /\ past = [b \in 1 .. MaxBlock |-> [p \in Pools |-> 0]]
      /\ stake \in [Accounts -> Nat] /\ ordered \in [Accounts -> Nat]
      /\ orderedAt \in [Accounts -> Nat] /\ left \in [Accounts -> Nat]
      /\ \A a \in Accounts : stake[a] = 0 /\ ordered[a] = 0 /\ left[a] = 0
  BY DEF Init
<1>2. \A p \in Pools, s \in Stakers : <<p, s>> \in Accounts
  BY DEF Accounts
<1>3. block \in 1 .. MaxBlock /\ 1 .. block - 1 = {}
  BY <1>1, LedgerShape
<1>4. Typed
  <2>1. past \in [1 .. MaxBlock -> [Pools -> Nat]]
    BY <1>1
  <2>2. queue \in Seq(Events)
    BY <1>1
  <2>3. \A a \in Accounts : ordered[a] <= stake[a]
    BY <1>1
  <2>4. db \in Tables /\ work \in Tables /\ work = db /\ \A p \in Pools : Sound(db, p) /\ Sound(work, p)
    BY <1>1, NothingKnown
  <2>5. EmittedTyped(emitted)
    BY <1>1, NothingEmitted
  <2> QED BY <1>1, <1>3, <2>1, <2>2, <2>3, <2>4, <2>5 DEF Typed
<1>5. Grounded
  <2>1. ASSUME NEW p \in Pools, NEW s \in Stakers PROVE ~(stake[<<p, s>>] > 0)
    <3>1. stake[<<p, s>>] = 0
      BY <1>1, <1>2
    <3> QED BY <3>1
  <2>2. \A k \in Kinds : emitted[k] = <<>>
    BY <1>1, NothingEmitted
  <2>3. \A k \in {"MovedStake", "ClaimedOrderedWithdrawal", "GatherAbandonedStakes"} :
          emitted[k] = <<>> /\ 1 .. Len(emitted[k]) = {}
    BY <2>2 DEF Kinds
  <2>4. Sourced(emitted["MovedStake"], Rows(db) \cup Bringing(emitted["PlacedStake"]), Taking)
    BY <2>3, NothingEmitted
  <2> QED BY <1>1, <2>1, <2>3, <2>4 DEF Grounded
<1>6. Delegating
  <2>1. ASSUME NEW p \in Pools, NEW s \in Stakers
        PROVE  /\ db.delegated[<<p, s>>] = 0 /\ work.delegated[<<p, s>>] = 0
               /\ AllLead(emitted, StakerWeight(p, s), db.delegated[<<p, s>>],
                          stake[<<p, s>>] + left[<<p, s>>])
    <3>1. db.delegated[<<p, s>>] = 0 /\ work.delegated[<<p, s>>] = 0
      BY <1>1, <1>2, NothingKnown
    <3>2. stake[<<p, s>>] + left[<<p, s>>] = 0
      BY <1>1, <1>2
    <3>3. AllLead(NoEvents, StakerWeight(p, s), 0, 0)
      BY AllLeadStart
    <3> QED BY <1>1, <3>1, <3>2, <3>3
  <2> QED BY <1>1, <2>1 DEF Delegating
<1>7. Ordering
  <2>1. ASSUME NEW p \in Pools, NEW s \in Stakers
        PROVE  Opens(db, p, s, 0) /\ OrderingChain(p, s, 0)
    <3>1. AllLead(NoEvents, OrderWeight(p, s), 0, 0)
      BY AllLeadStart
    <3>2. ordered[<<p, s>>] = 0
      BY <1>1, <1>2
    <3>3. emitted["OrderedWithdrawal"] = <<>> /\ emitted["ClaimedOrderedWithdrawal"] = <<>>
      BY <1>1, NothingEmitted DEF Kinds
    <3>4. OrderingChain(p, s, 0)
      BY <1>1, <3>1, <3>2, <3>3, NothingEmitted DEF OrderingChain
    <3> QED BY <1>1, <3>4, NothingKnown
  <2>2. 0 \in Nat
    OBVIOUS
  <2> QED BY <1>1, <2>1, <2>2 DEF Ordering
<1>8. Telling
  <2>1. ASSUME NEW p \in Pools
        PROVE  Stands(db, p, 0) /\ AllLead(emitted, PoolWeight(p), 0, PoolStake(p))
    <3>1. IsFiniteSet({p} \X Stakers) /\ \A a \in {p} \X Stakers : stake[a] = 0
      BY <1>1, PoolAccounts
    <3>2. PoolStake(p) = 0
      BY <3>1, SumZero DEF PoolStake
    <3>3. AllLead(NoEvents, PoolWeight(p), 0, 0)
      BY AllLeadStart
    <3> QED BY <1>1, <3>2, <3>3, NothingKnown
  <2>2. 0 \in Int
    OBVIOUS
  <2> QED BY <1>1, <1>3, <2>1, <2>2 DEF Telling
<1> QED BY <1>4, <1>5, <1>6, <1>7, <1>8 DEF Ledger

LEMMA NothingChanges ==
    ASSUME Ledger, UNCHANGED vars
    PROVE  Ledger'
<1>1. /\ UNCHANGED <<stake, ordered, orderedAt, left, crossed>>
      /\ UNCHANGED <<past, block, emitted, queue, pc, db, work>>
  BY DEF vars, contract
<1>2. Typed' <=> Typed
  <2>1. \A p : (Sound(db, p)' <=> Sound(db, p)) /\ (Sound(work, p)' <=> Sound(work, p))
    BY <1>1, TablesKept
  <2> QED BY <1>1, <2>1 DEF Typed
<1>3. Rows(work)' = Rows(work) /\ Rows(db)' = Rows(db) /\ Fed(emitted)' = Fed(emitted)
  BY <1>1 DEF Rows, HasRow, Fed
<1>4. Grounded' <=> Grounded
  BY <1>1, <1>3 DEF Grounded
<1>5. Delegating' <=> Delegating
  BY <1>1 DEF Delegating
<1>6. Ordering' <=> Ordering
  <2>1. \A p, s, x : (Opens(db, p, s, x)' <=> Opens(db, p, s, x)) /\ (Opens(work, p, s, x)' <=> Opens(work, p, s, x))
    BY <1>1 DEF Opens, OpenOrders
  <2>2. \A p, s, x : OrderingChain(p, s, x)' <=> OrderingChain(p, s, x)
    BY <1>1 DEF OrderingChain
  <2> QED BY <1>1, <2>1, <2>2 DEF Ordering
<1>7. Telling' <=> Telling
  <2>1. \A p, x : (Stands(db, p, x)' <=> Stands(db, p, x)) /\ (Stands(work, p, x)' <=> Stands(work, p, x))
    BY <1>1, TablesKept
  <2>2. \A p, b, x : (Told(db, p, b, x)' <=> Told(db, p, b, x)) /\ (Told(work, p, b, x)' <=> Told(work, p, b, x))
    BY <1>1 DEF Told, RowsAt, RowsOf
  <2>3. \A p : PoolStake(p)' = PoolStake(p)
    BY <1>1 DEF PoolStake
  <2> QED BY <1>1, <2>1, <2>2, <2>3 DEF Telling
<1> QED BY <1>1, <1>2, <1>4, <1>5, <1>6, <1>7 DEF Ledger

-----------------------------------------------------------------------------
(* The events of a block, as they are visited.                             *)

LEMMA Parts ==
    ASSUME EmittedTyped(emitted)
    PROVE  \A k \in {"PlacedStake", "WithdrewStake", "MovedStake", "OrderedWithdrawal",
                     "ClaimedOrderedWithdrawal", "GatherAbandonedStakes"} :
             /\ k \in Kinds /\ emitted[k] \in Seq(Events)
             /\ \A i \in 1 .. Len(emitted[k]) : emitted[k][i].kind = k /\ emitted[k][i].pool \in Pools
<1> SUFFICES ASSUME NEW k \in Kinds
             PROVE  /\ emitted[k] \in Seq(Events)
                    /\ \A i \in 1 .. Len(emitted[k]) :
                         emitted[k][i].kind = k /\ emitted[k][i].pool \in Pools
  BY DEF Kinds
<1>1. emitted[k] \in Seq(EventsOf(k)) /\ EventsOf(k) \subseteq Events
  BY DEF EmittedTyped, EventsOf
<1>2. emitted[k] \in Seq(Events)
  BY <1>1, SeqWider
<1>3. \A e \in EventsOf(k) : e.kind = k /\ e.pool \in Pools
  BY EventFields DEF EventsOf
<1> QED BY <1>1, <1>2, <1>3

LEMMA VisitsTyped ==
    ASSUME EmittedTyped(emitted)
    PROVE  /\ ByKind \in Seq(Events)
           /\ Bringing(emitted["PlacedStake"]) \subseteq Bringing(ByKind)
           /\ Bringing(emitted["MovedStake"]) \subseteq Bringing(ByKind)
<1> DEFINE A == emitted["PlacedStake"]
           B == emitted["WithdrewStake"]
           C == emitted["MovedStake"]
           D == emitted["OrderedWithdrawal"]
           E == emitted["ClaimedOrderedWithdrawal"]
           G == emitted["GatherAbandonedStakes"]
<1>1. /\ A \in Seq(Events) /\ B \in Seq(Events) /\ C \in Seq(Events)
      /\ D \in Seq(Events) /\ E \in Seq(Events) /\ G \in Seq(Events)
  BY Parts
<1>2. ByKind = A \o B \o C \o (D \o E) \o G
  BY DEF ByKind, PlacedStakeEvents, WithdrewStakeEvents, MovedStakeEvents,
         WithdrawalOrderEvents, GatherAbandonedStakesEvents
<1> HIDE DEF A, B, C, D, E, G
<1>3. /\ A \o B \in Seq(Events) /\ A \o B \o C \in Seq(Events) /\ D \o E \in Seq(Events)
      /\ A \o B \o C \o (D \o E) \in Seq(Events) /\ A \o B \o C \o (D \o E) \o G \in Seq(Events)
  BY <1>1
<1>4. Bringing(A) \subseteq Bringing(A \o B)
  BY <1>1, BringingJoin
<1>5. Bringing(A \o B) \cup Bringing(C) \subseteq Bringing(A \o B \o C)
  BY <1>1, <1>3, BringingJoin
<1>6. Bringing(A \o B \o C) \subseteq Bringing(A \o B \o C \o (D \o E))
  BY <1>3, BringingJoin
<1>7. Bringing(A \o B \o C \o (D \o E)) \subseteq Bringing(A \o B \o C \o (D \o E) \o G)
  BY <1>1, <1>3, BringingJoin
<1>8. Bringing(A) \subseteq Bringing(ByKind) /\ Bringing(C) \subseteq Bringing(ByKind)
  BY <1>2, <1>4, <1>5, <1>6, <1>7
<1> QED BY <1>2, <1>3, <1>8 DEF A, C

(* Each part may count on what the placed and moved stakes before it bring. *)
LEMMA VisitsSourced ==
    ASSUME EmittedTyped(emitted), NEW rows, NEW kinds,
           Sourced(emitted["PlacedStake"], rows, kinds),
           Sourced(emitted["WithdrewStake"], rows \cup Bringing(emitted["PlacedStake"]), kinds),
           Sourced(emitted["MovedStake"], rows \cup Bringing(emitted["PlacedStake"]), kinds),
           \A k \in {"OrderedWithdrawal", "ClaimedOrderedWithdrawal", "GatherAbandonedStakes"} :
             Sourced(emitted[k], rows \cup Bringing(emitted["PlacedStake"])
                                      \cup Bringing(emitted["MovedStake"]), kinds)
    PROVE  Sourced(ByKind, rows, kinds)
<1> DEFINE A == emitted["PlacedStake"]
           B == emitted["WithdrewStake"]
           C == emitted["MovedStake"]
           D == emitted["OrderedWithdrawal"]
           E == emitted["ClaimedOrderedWithdrawal"]
           G == emitted["GatherAbandonedStakes"]
<1>1. /\ A \in Seq(Events) /\ B \in Seq(Events) /\ C \in Seq(Events)
      /\ D \in Seq(Events) /\ E \in Seq(Events) /\ G \in Seq(Events)
  BY Parts
<1>2. ByKind = A \o B \o C \o (D \o E) \o G
  BY DEF ByKind, PlacedStakeEvents, WithdrewStakeEvents, MovedStakeEvents,
         WithdrawalOrderEvents, GatherAbandonedStakesEvents
<1>3. /\ Sourced(A, rows, kinds) /\ Sourced(B, rows \cup Bringing(A), kinds)
      /\ Sourced(C, rows \cup Bringing(A), kinds)
      /\ Sourced(D, rows \cup Bringing(A) \cup Bringing(C), kinds)
      /\ Sourced(E, rows \cup Bringing(A) \cup Bringing(C), kinds)
      /\ Sourced(G, rows \cup Bringing(A) \cup Bringing(C), kinds)
  OBVIOUS
<1> HIDE DEF A, B, C, D, E, G
<1> DEFINE AB == A \o B
           ABC == AB \o C
           DE == D \o E
           AE == ABC \o DE
<1>4. /\ AB \in Seq(Events) /\ ABC \in Seq(Events) /\ DE \in Seq(Events) /\ AE \in Seq(Events)
  BY <1>1
<1>5. Bringing(A) \subseteq Bringing(AB)
  BY <1>1, BringingJoin
<1>6. Sourced(AB, rows, kinds)
  BY <1>1, <1>3, SourcedJoin
<1> HIDE DEF AB
<1>7. Bringing(AB) \cup Bringing(C) \subseteq Bringing(ABC)
  BY <1>1, <1>4, BringingJoin
<1>8. Sourced(ABC, rows, kinds)
  <2>1. rows \cup Bringing(A) \subseteq rows \cup Bringing(AB)
    BY <1>5
  <2>2. Sourced(C, rows \cup Bringing(AB), kinds)
    BY <1>3, <2>1, SourcedMore
  <2> QED BY <1>1, <1>4, <1>6, <2>2, SourcedJoin
<1>9. Sourced(DE, rows \cup Bringing(A) \cup Bringing(C), kinds)
  <2> DEFINE more == rows \cup Bringing(A) \cup Bringing(C)
  <2>1. more \subseteq more \cup Bringing(D) /\ Sourced(D, more, kinds) /\ Sourced(E, more, kinds)
    BY <1>3
  <2> HIDE DEF more
  <2>2. Sourced(E, more \cup Bringing(D), kinds)
    BY <2>1, SourcedMore
  <2>3. Sourced(D \o E, more, kinds)
    BY <1>1, <2>1, <2>2, SourcedJoin
  <2> QED BY <2>3 DEF more
<1> HIDE DEF ABC, DE
<1>10. rows \cup Bringing(A) \cup Bringing(C) \subseteq rows \cup Bringing(ABC)
  BY <1>5, <1>7
<1>11. Sourced(AE, rows, kinds)
  <2>1. Sourced(DE, rows \cup Bringing(ABC), kinds)
    BY <1>9, <1>10, SourcedMore
  <2> QED BY <1>4, <1>8, <2>1, SourcedJoin
<1>12. Bringing(ABC) \subseteq Bringing(AE)
  BY <1>4, BringingJoin
<1> HIDE DEF AE
<1>13. Sourced(AE \o G, rows, kinds)
  <2>1. rows \cup Bringing(A) \cup Bringing(C) \subseteq rows \cup Bringing(AE)
    BY <1>10, <1>12
  <2>2. Sourced(G, rows \cup Bringing(AE), kinds)
    BY <1>3, <2>1, SourcedMore
  <2> QED BY <1>1, <1>4, <1>11, <2>2, SourcedJoin
<1> QED BY <1>2, <1>13 DEF AE, ABC, DE, AB

LEMMA VisitsMatched ==
    ASSUME EmittedTyped(emitted), NEW p, NEW s, NEW x,
           Matched(emitted["ClaimedOrderedWithdrawal"], p, s, x),
           \/ ~HasOf(emitted["ClaimedOrderedWithdrawal"], "ClaimedOrderedWithdrawal", p, s)
           \/ ~HasOf(emitted["OrderedWithdrawal"], "OrderedWithdrawal", p, s)
    PROVE  Matched(ByKind, p, s, x)
<1> DEFINE A == emitted["PlacedStake"]
           B == emitted["WithdrewStake"]
           C == emitted["MovedStake"]
           D == emitted["OrderedWithdrawal"]
           E == emitted["ClaimedOrderedWithdrawal"]
           G == emitted["GatherAbandonedStakes"]
           o == "OrderedWithdrawal"
           c == "ClaimedOrderedWithdrawal"
           None(q) == ~HasOf(q, c, p, s) /\ ~HasOf(q, o, p, s)
<1>1. /\ A \in Seq(Events) /\ B \in Seq(Events) /\ C \in Seq(Events)
      /\ D \in Seq(Events) /\ E \in Seq(Events) /\ G \in Seq(Events)
  BY Parts
<1>2. ByKind = A \o B \o C \o (D \o E) \o G
  BY DEF ByKind, PlacedStakeEvents, WithdrewStakeEvents, MovedStakeEvents,
         WithdrawalOrderEvents, GatherAbandonedStakesEvents
<1>3. ASSUME NEW k \in {"PlacedStake", "WithdrewStake", "MovedStake", "GatherAbandonedStakes"}
      PROVE  None(emitted[k])
  BY Parts DEF HasOf, OfAccount
<1>4. None(A) /\ None(B) /\ None(C) /\ None(G) /\ ~HasOf(D, c, p, s)
  <2>1. ~HasOf(D, c, p, s)
    BY Parts DEF HasOf, OfAccount
  <2> QED BY <1>3, <2>1
<1>5. Matched(E, p, s, x) /\ (~HasOf(E, c, p, s) \/ ~HasOf(D, o, p, s))
  OBVIOUS
<1> HIDE DEF A, B, C, D, E, G
<1> DEFINE AB == A \o B
           ABC == AB \o C
           DE == D \o E
           AE == ABC \o DE
<1>6. /\ AB \in Seq(Events) /\ ABC \in Seq(Events) /\ DE \in Seq(Events) /\ AE \in Seq(Events)
  BY <1>1
<1>7. None(AB)
  BY <1>1, <1>4, HasOfJoin
<1> HIDE DEF AB
<1>8. None(ABC)
  BY <1>1, <1>4, <1>6, <1>7, HasOfJoin
<1> HIDE DEF ABC
<1>9. Matched(DE, p, s, x)
  <2>1. CASE ~HasOf(E, c, p, s)
    <3>1. ~HasOf(DE, c, p, s)
      BY <1>1, <1>4, <2>1, HasOfJoin
    <3> QED BY <3>1, MatchedNone
  <2>2. CASE ~HasOf(D, o, p, s)
    BY <1>1, <1>4, <1>5, <2>2, MatchedJoin
  <2> QED BY <1>5, <2>1, <2>2
<1> HIDE DEF DE
<1>10. Matched(AE, p, s, x)
  BY <1>6, <1>8, <1>9, MatchedJoin
<1> HIDE DEF AE
<1>11. Matched(AE \o G, p, s, x)
  BY <1>1, <1>4, <1>6, <1>10, MatchedJoin
<1> QED BY <1>2, <1>11 DEF AE, ABC, DE, AB

-----------------------------------------------------------------------------
(* The end of a block, the visits and the commit keep the invariant.       *)

LEMMA BlockCompleteLedger ==
    ASSUME Ledger, BlockComplete
    PROVE  Ledger'
<1>1. /\ pc = "chain" /\ pc' = "visit" /\ queue' = ByKind
      /\ past' = [past EXCEPT ![block] = [p \in Pools |-> PoolStake(p)]]
      /\ crossed' = (crossed \/ WithdrawsBeforeMove)
      /\ UNCHANGED <<stake, ordered, orderedAt, left, block, emitted, count, db, work>>
  BY DEF BlockComplete
<1>2. Typed /\ Grounded /\ Delegating /\ EmittedTyped(emitted) /\ work = db
  BY <1>1 DEF Ledger, Typed
<1>3. UNCHANGED <<block, db, work>>
  BY <1>1
<1>4. \A p \in Pools : PoolStake(p) \in Nat /\ PoolStake(p)' = PoolStake(p)
  <2>1. \A p \in Pools : Sum(stake, p) \in Nat
    BY <1>2, SumInt DEF Typed
  <2> QED BY <1>1, <2>1 DEF PoolStake, Sum
<1>5. Typed'
  <2>1. ByKind \in Seq(Events)
    BY <1>2, VisitsTyped
  <2>2. \A p \in Pools : Sound(db, p)' /\ Sound(work, p)'
    BY <1>2, <1>3, TablesKept DEF Typed
  <2>3. past' \in [1 .. MaxBlock -> [Pools -> Nat]]
    <3>1. [p \in Pools |-> PoolStake(p)] \in [Pools -> Nat]
      BY <1>4
    <3> QED BY <1>1, <1>2, <3>1 DEF Typed
  <2>4. WithdrawsBeforeMove \in BOOLEAN
    BY DEF WithdrawsBeforeMove
  <2>5. crossed' \in BOOLEAN
    BY <1>1, <1>2, <2>4 DEF Typed
  <2> QED BY <1>1, <1>2, <2>1, <2>2, <2>3, <2>5 DEF Typed
<1>6. Rows(work)' = Rows(db)
  BY <1>1, <1>2 DEF Rows, HasRow
<1>7. Grounded'
  <2>1. Fed(emitted) \subseteq Rows(db) \cup Bringing(ByKind)
    BY <1>2, VisitsTyped DEF Fed
  <2>2. \A p \in Pools, s \in Stakers : stake'[<<p, s>>] > 0 => p \in Rows(work)' \cup Bringing(queue')
    BY <1>1, <1>2, <1>6, <2>1 DEF Grounded
  <2>3. Sourced(queue', Rows(work)', Taking)
    <3> DEFINE placed == Bringing(emitted["PlacedStake"])
               moved == Bringing(emitted["MovedStake"])
    <3>1. Sourced(emitted["PlacedStake"], Rows(db), Taking)
      BY <1>2, Parts, SourcedFree DEF Taking
    <3>2. Sourced(emitted["WithdrewStake"], Rows(db) \cup placed, Taking)
      BY <1>2, Parts, SourcedFree DEF Taking
    <3>3. Sourced(emitted["MovedStake"], Rows(db) \cup placed, Taking)
      BY <1>1, <1>2 DEF Grounded
    <3>4. Sourced(emitted["OrderedWithdrawal"], Rows(db) \cup placed \cup moved, Taking)
      BY <1>2, Parts, SourcedFree DEF Taking
    <3>5. ASSUME NEW k \in {"ClaimedOrderedWithdrawal", "GatherAbandonedStakes"}
          PROVE  Sourced(emitted[k], Rows(db) \cup placed \cup moved, Taking)
      <4>1. \A i \in 1 .. Len(emitted[k]) : emitted[k][i].pool \in Fed(emitted)
        BY <1>1, <1>2 DEF Grounded
      <4> QED BY <4>1 DEF Sourced, Fed
    <3>6. \A k \in {"OrderedWithdrawal", "ClaimedOrderedWithdrawal", "GatherAbandonedStakes"} :
             Sourced(emitted[k], Rows(db) \cup placed \cup moved, Taking)
      BY <3>4, <3>5
    <3>7. Sourced(ByKind, Rows(db), Taking)
      BY <1>2, <3>1, <3>2, <3>3, <3>6, VisitsSourced
    <3> QED BY <1>1, <1>6, <3>7
  <2>4. ASSUME ~crossed' PROVE Sourced(queue', Rows(work)', {"WithdrewStake"})
    <3> DEFINE placed == Bringing(emitted["PlacedStake"])
               moved == Bringing(emitted["MovedStake"])
               K == {"WithdrewStake"}
    <3>1. \A k \in {"PlacedStake", "MovedStake", "OrderedWithdrawal", "ClaimedOrderedWithdrawal",
                    "GatherAbandonedStakes"} :
            \A i \in 1 .. Len(emitted[k]) : emitted[k][i].kind \notin K
      BY <1>2, Parts
    <3>2. \A k \in {"PlacedStake", "MovedStake", "OrderedWithdrawal", "ClaimedOrderedWithdrawal",
                    "GatherAbandonedStakes"} : \A rows : Sourced(emitted[k], rows, K)
      BY <3>1, SourcedFree
    <3>3. ~WithdrawsBeforeMove
      BY <1>1, <2>4
    <3>4. ASSUME NEW i \in 1 .. Len(emitted["WithdrewStake"])
          PROVE  emitted["WithdrewStake"][i].pool \in Rows(db) \cup placed
      <4> DEFINE e == emitted["WithdrewStake"][i]
      <4>1. e.pool \in Pools /\ emitted["WithdrewStake"] \in Seq(Events)
            /\ emitted["PlacedStake"] \in Seq(Events)
        BY <1>2, Parts
      <4>2. e \in Range(emitted["WithdrewStake"])
        BY <4>1 DEF Range
      <4>3. \/ \E r \in db.history : r.pool = e.pool
            \/ \E d \in Range(emitted["PlacedStake"]) : d.pool = e.pool
        BY <3>3, <4>2 DEF WithdrawsBeforeMove, WithdrewStakeEvents, PlacedStakeEvents
      <4>4. CASE \E r \in db.history : r.pool = e.pool
        BY <4>1, <4>4 DEF Rows, HasRow
      <4>5. CASE \E d \in Range(emitted["PlacedStake"]) : d.pool = e.pool
        <5>1. PICK j \in 1 .. Len(emitted["PlacedStake"]) : emitted["PlacedStake"][j].pool = e.pool
          BY <4>1, <4>5 DEF Range
        <5>2. emitted["PlacedStake"][j].kind = "PlacedStake"
          BY <1>2, Parts
        <5> QED BY <4>1, <5>1, <5>2 DEF Bringing, Brings
      <4> QED BY <4>3, <4>4, <4>5
    <3>5. Sourced(emitted["WithdrewStake"], Rows(db) \cup placed, K)
      BY <3>4 DEF Sourced
    <3> HIDE DEF K
    <3>6. Sourced(ByKind, Rows(db), K)
      BY <1>2, <3>2, <3>5, VisitsSourced
    <3> QED BY <1>1, <1>6, <3>6 DEF K
  <2> QED BY <1>1, <2>2, <2>3, <2>4 DEF Grounded
<1>8. Delegating'
  <2>1. ASSUME NEW p \in Pools, NEW s \in Stakers, p # s
        PROVE  Leads(ByKind, StakerWeight(p, s), work.delegated[<<p, s>>],
                     stake[<<p, s>>] + left[<<p, s>>])
    <3> DEFINE w == StakerWeight(p, s)
               x == work.delegated[<<p, s>>]
    <3>1. AllLead(emitted, w, x, stake[<<p, s>>] + left[<<p, s>>])
      BY <1>1, <1>2, <2>1 DEF Delegating
    <3>2. \A e \in Events : w[e] \in Int
      BY Weights
    <3>3. x \in Int
      BY <1>2 DEF Typed, Tables, Accounts
    <3> HIDE DEF w, x
    <3>4. Leads(ByKind, w, x, stake[<<p, s>>] + left[<<p, s>>])
      BY <1>2, <3>1, <3>2, <3>3, AllLeadVisits
    <3> QED BY <3>4 DEF w, x
  <2> QED BY <1>1, <1>2, <2>1 DEF Delegating
<1>9. ASSUME ~crossed' PROVE Ordering'
  <2>1. ASSUME NEW p \in Pools, NEW s \in Stakers
        PROVE  \E x \in Nat : /\ Opens(work', p, s, x)
                              /\ Leads(ByKind, OrderWeight(p, s), x, ordered[<<p, s>>])
                              /\ Matched(ByKind, p, s, x)
    <3>1. PICK x \in Nat : Opens(db, p, s, x) /\ OrderingChain(p, s, x)
      BY <1>1, <1>9 DEF Ledger, Ordering
    <3>2. /\ AllLead(emitted, OrderWeight(p, s), x, ordered[<<p, s>>])
          /\ Matched(emitted["ClaimedOrderedWithdrawal"], p, s, x)
          /\ \/ ~HasOf(emitted["ClaimedOrderedWithdrawal"], "ClaimedOrderedWithdrawal", p, s)
             \/ ~HasOf(emitted["OrderedWithdrawal"], "OrderedWithdrawal", p, s)
      BY <3>1 DEF OrderingChain
    <3>3. (\A e \in Events : OrderWeight(p, s)[e] \in Int) /\ x \in Int
      BY Weights
    <3>4. Leads(ByKind, OrderWeight(p, s), x, ordered[<<p, s>>])
      BY <1>2, <3>2, <3>3, AllLeadVisits
    <3>5. Matched(ByKind, p, s, x)
      BY <1>2, <3>2, VisitsMatched
    <3> QED BY <1>1, <1>2, <3>1, <3>4, <3>5
  <2>2. \A p, s, x : Opens(work, p, s, x)' <=> Opens(work', p, s, x)
    BY DEF Opens, OpenOrders
  <2> QED BY <1>1, <2>1, <2>2 DEF Ordering
<1>10. ASSUME ~crossed' PROVE Telling'
  <2>0. Telling
    BY <1>1, <1>10 DEF Ledger
  <2>1. ASSUME NEW p \in Pools
        PROVE  \E x \in Int : Stands(work, p, x)' /\ Leads(queue', PoolWeight(p), x, PoolStake(p)')
    <3>1. PICK x \in Int : Stands(db, p, x) /\ AllLead(emitted, PoolWeight(p), x, PoolStake(p))
      BY <1>1, <2>0 DEF Telling
    <3>2. \A e \in Events : PoolWeight(p)[e] \in Int
      BY Weights
    <3>3. Leads(ByKind, PoolWeight(p), x, PoolStake(p))
      BY <1>2, <3>1, <3>2, AllLeadVisits
    <3>4. Stands(work, p, x)'
      BY <1>2, <1>3, <3>1, TablesKept
    <3> QED BY <1>1, <1>4, <3>3, <3>4
  <2>2. /\ \A p \in Pools : past'[block][p] = PoolStake(p)'
        /\ \A b \in 1 .. block - 1 : past'[b] = past[b]
    <3>1. block \in 1 .. MaxBlock /\ DOMAIN past = 1 .. MaxBlock
      BY <1>2 DEF Typed
    <3>2. past'[block] = [p \in Pools |-> PoolStake(p)]
      BY <1>1, <3>1
    <3>3. \A b \in 1 .. block - 1 : b \in 1 .. MaxBlock /\ b # block
      BY <3>1, LedgerShape
    <3> QED BY <1>1, <1>4, <3>1, <3>2, <3>3
  <2>3. \A p \in Pools, b \in 1 .. block - 1 :
          Told(db', p, b, past'[b][p]) /\ Told(work', p, b, past'[b][p])
    BY <1>1, <2>0, <2>2 DEF Telling
  <2>4. \A p, b, x : (Told(db, p, b, x)' <=> Told(db', p, b, x)) /\ (Told(work, p, b, x)' <=> Told(work', p, b, x))
    BY DEF Told, RowsAt, RowsOf
  <2> QED BY <1>1, <2>1, <2>2, <2>3, <2>4 DEF Telling
<1> QED BY <1>5, <1>7, <1>8, <1>9, <1>10 DEF Ledger

(* A visit: the head of the queue is done, or refused with all the block.  *)
Visiting ==
    /\ pc = "visit" /\ queue # <<>> /\ UNCHANGED <<contract, db>>
    /\ \/ work' \in After(work, Head(queue)) /\ queue' = Tail(queue) /\ pc' = pc
       \/ work' = db /\ queue' = <<>> /\ pc' = "refused"

LEMMA VisitsOne ==
    ASSUME \/ VisitStakeChanged \/ VisitMovedStake \/ VisitOrderedWithdrawal
           \/ VisitClaimedOrderedWithdrawal \/ VisitGatherAbandonedStakes
    PROVE  Visiting
<1>1. CASE VisitStakeChanged
  BY <1>1 DEF VisitStakeChanged, Visit, Visiting, After
<1>2. CASE VisitMovedStake
  BY <1>2 DEF VisitMovedStake, Visit, Visiting, After
<1>3. CASE VisitOrderedWithdrawal
  BY <1>3 DEF VisitOrderedWithdrawal, Visit, Visiting, After
<1>4. CASE VisitClaimedOrderedWithdrawal
  BY <1>4 DEF VisitClaimedOrderedWithdrawal, Visit, Visiting, After
<1>5. CASE VisitGatherAbandonedStakes
  BY <1>5 DEF VisitGatherAbandonedStakes, Visit, Visiting, After
<1> QED BY <1>1, <1>2, <1>3, <1>4, <1>5

LEMMA RefusedLedger ==
    ASSUME Ledger, Visiting, work' = db, queue' = <<>>, pc' = "refused"
    PROVE  Ledger'
<1>1. UNCHANGED <<stake, ordered, orderedAt, left, crossed, past, block, emitted, db>>
  BY DEF Visiting, contract
<1>2. \A p : Sound(db, p)' <=> Sound(db, p)
  BY <1>1 DEF Sound, Stands, Newest, HasRow
<1>3. Typed'
  <2>1. \A p \in Pools : Sound(db, p)' /\ Sound(work, p)'
    <3>1. \A p : Sound(work, p)' <=> Sound(db, p)'
      BY <1>1 DEF Sound, Stands, Newest, HasRow
    <3> QED BY <1>2, <3>1 DEF Ledger, Typed
  <2>2. queue' \in Seq(Events)
    OBVIOUS
  <2> QED BY <1>1, <2>1, <2>2 DEF Ledger, Typed
<1>4. Grounded' /\ Ordering'
  BY DEF Grounded, Ordering
<1>5. Delegating'
  BY <1>1 DEF Ledger, Delegating
<1>6. ASSUME ~crossed' PROVE Telling'
  <2>1. Telling
    BY <1>1, <1>6 DEF Ledger
  <2>2. \A p, b, x : (Told(db, p, b, x)' <=> Told(db', p, b, x)) /\ (Told(work, p, b, x)' <=> Told(work', p, b, x))
    BY DEF Told, RowsAt, RowsOf
  <2> QED BY <1>1, <2>1, <2>2 DEF Telling
<1> QED BY <1>3, <1>4, <1>5, <1>6 DEF Ledger

LEMMA VisitedLedger ==
    ASSUME Ledger, Visiting, work' \in After(work, Head(queue)), queue' = Tail(queue), pc' = pc
    PROVE  Ledger'
<1>1. UNCHANGED <<stake, ordered, orderedAt, left, crossed, past, block, emitted, db>>
      /\ pc = "visit" /\ queue # <<>>
  BY DEF Visiting, contract
<1>2. PICK e : e = Head(queue)
  OBVIOUS
<1>3. Typed /\ Grounded /\ Delegating /\ work \in Tables /\ block \in Nat \ {0}
      /\ queue \in Seq(Events) /\ e \in Events /\ \A p \in Pools : Sound(work, p)
  <2>1. Typed /\ Grounded /\ Delegating
    BY DEF Ledger
  <2>2. queue \in Seq(Events) /\ work \in Tables /\ block \in Nat \ {0} /\ \A p \in Pools : Sound(work, p)
    BY <2>1 DEF Typed
  <2>3. e \in Events
    BY <1>1, <1>2, <2>2, TailElements
  <2> QED BY <2>1, <2>2, <2>3
<1>4. /\ Sourced(queue, Rows(work), Taking)
      /\ ~crossed => Sourced(queue, Rows(work), {"WithdrewStake"})
      /\ \A p \in Pools, s \in Stakers : stake[<<p, s>>] > 0 => p \in Rows(work) \cup Bringing(queue)
  BY <1>1, <1>3 DEF Grounded
<1>5. e.kind \in Kinds /\ e.pool \in Pools
  BY <1>3, EventFields
<1>6. /\ e.kind \in Taking => HasRow(work, e.pool)
      /\ e.kind = "WithdrewStake" /\ ~crossed => HasRow(work, e.pool)
  <2>1. \A kinds : Sourced(queue, Rows(work), kinds) /\ e.kind \in kinds => e.pool \in Rows(work)
    <3>1. 1 \in 1 .. Len(queue) /\ 1 .. 1 - 1 = {} /\ queue[1] = e
      BY <1>1, <1>2, <1>3, TailElements
    <3> QED BY <3>1 DEF Sourced
  <2> QED BY <1>4, <2>1 DEF Rows
<1>7. Visited(work, work', e)
  BY <1>2, <1>3, <1>6, EventVisited DEF Taking
<1>8. /\ \A p : Sound(work, p)' <=> Sound(work', p)
      /\ \A p, x : Stands(work, p, x)' <=> Stands(work', p, x)
      /\ \A p, s, x : Opens(work, p, s, x)' <=> Opens(work', p, s, x)
      /\ \A p, b, x : (Told(db, p, b, x)' <=> Told(db, p, b, x))
                                /\ (Told(work, p, b, x)' <=> Told(work', p, b, x))
      /\ Rows(work)' = Rows(work') /\ \A p : Sound(db, p)' <=> Sound(db, p)
  BY <1>1 DEF Sound, Stands, Newest, HasRow, Opens, OpenOrders, Told, RowsAt, RowsOf, Rows
<1>9. Typed'
  <2>1. queue' \in Seq(Events)
    BY <1>1, <1>3, TailElements
  <2>2. work' \in Tables /\ \A p \in Pools : Sound(db, p)' /\ Sound(work, p)'
    BY <1>3, <1>7, <1>8 DEF Visited, Typed
  <2> QED BY <1>1, <1>3, <2>1, <2>2 DEF Typed
<1>10. Rows(work) \subseteq Rows(work') /\ \A p \in Pools : Brings(e, p) => p \in Rows(work')
  BY <1>7 DEF Visited, Rows
<1>11. Grounded'
  <2>1. ASSUME NEW p \in Pools, NEW s \in Stakers, stake'[<<p, s>>] > 0
        PROVE  p \in Rows(work') \cup Bringing(Tail(queue))
    <3>1. p \in Rows(work) \cup Bringing(queue)
      BY <1>1, <1>4, <2>1
    <3>2. p \in Bringing(queue) => Brings(e, p) \/ p \in Bringing(Tail(queue))
      BY <1>1, <1>2, <1>3, BringingTail
    <3> QED BY <1>10, <3>1, <3>2
  <2>2. ASSUME NEW kinds, Sourced(queue, Rows(work), kinds)
        PROVE  Sourced(Tail(queue), Rows(work'), kinds)
    <3>1. \A p : Brings(Head(queue), p) => p \in Rows(work')
      <4>1. \A p : Brings(e, p) => p \in Pools
        BY <1>3, EventFields DEF Brings
      <4> QED BY <1>2, <1>10, <4>1
    <3> QED BY <1>1, <1>3, <1>10, <2>2, <3>1, SourcedTail
  <2> QED BY <1>1, <1>4, <1>8, <2>1, <2>2 DEF Grounded
<1>12. Delegating'
  <2>1. ASSUME NEW p \in Pools, NEW s \in Stakers
        PROVE  /\ p = s => work'.delegated[<<p, s>>] = 0
               /\ p # s => Leads(Tail(queue), StakerWeight(p, s), work'.delegated[<<p, s>>],
                                 stake[<<p, s>>] + left[<<p, s>>])
    <3> DEFINE w == StakerWeight(p, s)
    <3>1. work'.delegated[<<p, s>>] = work.delegated[<<p, s>>] + IF p = s THEN 0 ELSE w[e]
      BY <1>7 DEF Visited
    <3>2. p # s => Leads(queue, w, work.delegated[<<p, s>>], stake[<<p, s>>] + left[<<p, s>>])
      BY <1>1, <1>3 DEF Delegating
    <3> HIDE DEF w
    <3>3. p # s => Leads(Tail(queue), w, work.delegated[<<p, s>>] + w[e], stake[<<p, s>>] + left[<<p, s>>])
      BY <1>1, <1>2, <1>3, <3>2, LeadsTail
    <3>4. p = s => work.delegated[<<p, s>>] = 0
      BY <1>3 DEF Delegating
    <3> QED BY <3>1, <3>3, <3>4 DEF w
  <2> QED BY <1>1, <1>3, <2>1 DEF Delegating
<1>13. ASSUME ~crossed'
       PROVE  /\ Counts(work, e)
              /\ \A p \in Pools, s \in Stakers : \E x \in Nat :
                   /\ Opens(work, p, s, x)
                   /\ Leads(queue, OrderWeight(p, s), x, ordered[<<p, s>>])
                   /\ Matched(queue, p, s, x)
  <2>1. \A p \in Pools, s \in Stakers : \E x \in Nat :
          /\ Opens(work, p, s, x)
          /\ Leads(queue, OrderWeight(p, s), x, ordered[<<p, s>>])
          /\ Matched(queue, p, s, x)
    BY <1>1, <1>13 DEF Ledger, Ordering
  <2>2. ASSUME e.kind = "ClaimedOrderedWithdrawal" PROVE Opens(work, e.pool, e.staker, e.amount)
    <3>1. e.staker \in Stakers
      BY <1>3, <2>2, EventFields
    <3>2. PICK x \in Nat : Opens(work, e.pool, e.staker, x) /\ Matched(queue, e.pool, e.staker, x)
      BY <1>5, <2>1, <3>1
    <3>3. OfAccount(e, "ClaimedOrderedWithdrawal", e.pool, e.staker)
      BY <2>2 DEF OfAccount
    <3>4. 1 \in 1 .. Len(queue) /\ queue[1] = e
      BY <1>1, <1>2, <1>3, TailElements
    <3>5. x = e.amount
      BY <3>2, <3>3, <3>4 DEF Matched
    <3> QED BY <3>2, <3>5
  <2>3. e.kind \notin {"PlacedStake", "OrderedWithdrawal"} => HasRow(work, e.pool)
    <3>1. e.kind \in Taking \/ e.kind = "WithdrewStake" \/ e.kind \in {"PlacedStake", "OrderedWithdrawal"}
      BY <1>5 DEF Kinds, Taking
    <3> QED BY <1>1, <1>6, <1>13, <3>1
  <2> QED BY <2>1, <2>2, <2>3 DEF Counts
<1>14. ASSUME ~crossed' PROVE Ordering'
  <2>1. ASSUME NEW p \in Pools, NEW s \in Stakers
        PROVE  \E x \in Nat : /\ Opens(work', p, s, x)
                              /\ Leads(Tail(queue), OrderWeight(p, s), x, ordered[<<p, s>>])
                              /\ Matched(Tail(queue), p, s, x)
    <3>1. PICK x \in Nat : /\ Opens(work, p, s, x)
                           /\ Leads(queue, OrderWeight(p, s), x, ordered[<<p, s>>])
                           /\ Matched(queue, p, s, x)
      BY <1>13, <1>14
    <3> DEFINE w == OrderWeight(p, s)
    <3>2. /\ OfAccount(e, "ClaimedOrderedWithdrawal", p, s) => x = e.amount
          /\ x + w[e] \in Nat /\ Matched(Tail(queue), p, s, x + w[e])
      BY <1>1, <1>2, <1>3, <3>1, MatchedTail
    <3>3. Leads(Tail(queue), w, x + w[e], ordered[<<p, s>>])
      BY <1>1, <1>2, <1>3, <3>1, LeadsTail
    <3>4. Opens(work', p, s, x + w[e])
      BY <1>7, <1>13, <1>14, <3>1, <3>2 DEF Visited
    <3> QED BY <3>2, <3>3, <3>4
  <2> QED BY <1>1, <1>8, <2>1 DEF Ordering
<1>15. ASSUME ~crossed' PROVE Telling'
  <2>0. Telling
    BY <1>1, <1>15 DEF Ledger
  <2>1. ASSUME NEW p \in Pools
        PROVE  \E x \in Int : Stands(work', p, x) /\ Leads(Tail(queue), PoolWeight(p), x, PoolStake(p))
    <3>1. PICK x \in Int : Stands(work, p, x) /\ Leads(queue, PoolWeight(p), x, PoolStake(p))
      BY <1>1, <2>0 DEF Telling
    <3> DEFINE w == PoolWeight(p)
    <3>2. x + w[e] \in Int
      <4>1. w[e] \in Int
        BY <1>3, Weights
      <4> HIDE DEF w
      <4> QED BY <4>1
    <3>3. Leads(Tail(queue), w, x + w[e], PoolStake(p))
      BY <1>1, <1>2, <1>3, <3>1, LeadsTail
    <3>4. Stands(work', p, x + w[e])
      BY <1>7, <1>13, <1>15, <3>1 DEF Visited
    <3> QED BY <3>2, <3>3, <3>4
  <2>2. \A p : PoolStake(p)' = PoolStake(p)
    BY <1>1 DEF PoolStake
  <2>3. ASSUME NEW p \in Pools, NEW b \in 1 .. block - 1
        PROVE  Told(db, p, b, past[b][p]) /\ Told(work', p, b, past[b][p])
    <3>1. Told(db, p, b, past[b][p]) /\ Told(work, p, b, past[b][p])
      BY <2>0, <2>3 DEF Telling
    <3>2. past[b][p] \in Int
      <4>1. b \in 1 .. MaxBlock
        BY <1>3, LedgerShape DEF Typed
      <4>2. past[b] \in [Pools -> Nat]
        BY <1>3, <4>1 DEF Typed
      <4> QED BY <4>2
    <3> QED BY <1>7, <3>1, <3>2 DEF Visited
  <2> QED BY <1>1, <1>8, <2>0, <2>1, <2>2, <2>3 DEF Telling
<1> QED BY <1>9, <1>11, <1>12, <1>14, <1>15 DEF Ledger

LEMMA CommitBlockLedger ==
    ASSUME Ledger, CommitBlock
    PROVE  Ledger'
<1>1. /\ pc = "visit" /\ queue = <<>> /\ block < MaxBlock /\ pc' = "chain"
      /\ db' = work /\ block' = block + 1 /\ emitted' = NoEvents
      /\ UNCHANGED <<stake, ordered, orderedAt, left, crossed, past, queue, work>>
  BY DEF CommitBlock
<1>2. Typed /\ Grounded /\ Delegating /\ work \in Tables /\ block \in Nat \ {0}
      /\ block \in 1 .. MaxBlock
  BY DEF Ledger, Typed
<1>3. /\ EmittedTyped(NoEvents) /\ \A k \in Kinds : NoEvents[k] = <<>>
      /\ Bringing(<<>>) = {} /\ \A k, p, s : ~HasOf(<<>>, k, p, s)
      /\ \A rows, kinds : Sourced(<<>>, rows, kinds)
      /\ \A p, s, x : Matched(<<>>, p, s, x)
  BY NothingEmitted
<1>4. \A n \in work.history : n.to \in Nat
  BY <1>2 DEF Tables, HistoryRows
<1>5. \A p, x : Stands(work, p, x) => Stands(db, p, x)' /\ Stands(work, p, x)'
  <2>1. \A p, n : Newest(work, p, n) => Newest(db, p, n)' /\ Newest(work, p, n)'
    BY <1>1, <1>2, <1>4 DEF Newest
  <2>2. \A p : (HasRow(db, p)' <=> HasRow(work, p)) /\ (HasRow(work, p)' <=> HasRow(work, p))
    BY <1>1 DEF HasRow
  <2> QED BY <1>1, <2>1, <2>2 DEF Stands
<1>6. Typed'
  <2>1. block' \in 1 .. MaxBlock
    BY <1>1, <1>2, LedgerShape
  <2>2. \A p \in Pools : Sound(db, p)' /\ Sound(work, p)'
    BY <1>2, <1>5 DEF Typed, Sound
  <2> QED BY <1>1, <1>2, <1>3, <2>1, <2>2 DEF Typed
<1>7. Grounded'
  <2>1. ASSUME NEW p \in Pools, NEW s \in Stakers, stake'[<<p, s>>] > 0 PROVE p \in Fed(emitted)'
    <3>1. p \in Rows(work)
      BY <1>1, <1>2, <1>3, <2>1 DEF Grounded
    <3>2. Rows(work) \subseteq Fed(emitted)'
      BY <1>1 DEF Fed, Rows, HasRow
    <3> QED BY <3>1, <3>2
  <2>2. \A k \in {"MovedStake", "ClaimedOrderedWithdrawal", "GatherAbandonedStakes"} :
          emitted'[k] = <<>> /\ 1 .. Len(emitted'[k]) = {}
    BY <1>1, <1>3 DEF Kinds
  <2>3. Sourced(emitted'["MovedStake"], Rows(db)' \cup Bringing(emitted'["PlacedStake"]), Taking)
    BY <1>3, <2>2
  <2> QED BY <1>1, <2>1, <2>2, <2>3 DEF Grounded
<1>8. Delegating'
  <2>1. ASSUME NEW p \in Pools, NEW s \in Stakers, p # s
        PROVE  AllLead(NoEvents, StakerWeight(p, s), work.delegated[<<p, s>>],
                       stake[<<p, s>>] + left[<<p, s>>])
    <3>1. Leads(<<>>, StakerWeight(p, s), work.delegated[<<p, s>>], stake[<<p, s>>] + left[<<p, s>>])
      BY <1>1, <1>2, <2>1 DEF Delegating
    <3>2. work.delegated[<<p, s>>] = stake[<<p, s>>] + left[<<p, s>>]
      BY <3>1, LeadsEnd
    <3>3. work.delegated[<<p, s>>] \in Int
      BY <1>2 DEF Tables, Accounts
    <3>4. AllLead(NoEvents, StakerWeight(p, s), work.delegated[<<p, s>>], work.delegated[<<p, s>>])
      BY <3>3, AllLeadStart
    <3> QED BY <3>2, <3>4
  <2> QED BY <1>1, <1>2, <2>1 DEF Delegating
<1>9. ASSUME ~crossed' PROVE Ordering'
  <2>1. ASSUME NEW p \in Pools, NEW s \in Stakers
        PROVE  \E x \in Nat : Opens(work, p, s, x) /\ OrderingChain(p, s, x)'
    <3>1. PICK x \in Nat : /\ Opens(work, p, s, x)
                           /\ Leads(<<>>, OrderWeight(p, s), x, ordered[<<p, s>>])
      BY <1>1, <1>9 DEF Ledger, Ordering
    <3>2. ordered[<<p, s>>] = x
      BY <3>1, LeadsEnd
    <3>3. AllLead(NoEvents, OrderWeight(p, s), x, x)
      BY AllLeadStart
    <3>4. NoEvents["OrderedWithdrawal"] = <<>> /\ NoEvents["ClaimedOrderedWithdrawal"] = <<>>
      BY <1>3 DEF Kinds
    <3>5. OrderingChain(p, s, x)'
      BY <1>1, <1>3, <3>2, <3>3, <3>4 DEF OrderingChain
    <3> QED BY <3>1, <3>5
  <2>2. \A p, s, x : Opens(db, p, s, x)' <=> Opens(work, p, s, x)
    BY <1>1 DEF Opens, OpenOrders
  <2> QED BY <1>1, <2>1, <2>2 DEF Ordering
<1>10. ASSUME ~crossed' PROVE Telling'
  <2>0. Telling
    BY <1>1, <1>10 DEF Ledger
  <2>1. ASSUME NEW p \in Pools
        PROVE  /\ \E x \in Int : Stands(db, p, x)' /\ AllLead(NoEvents, PoolWeight(p), x, PoolStake(p)')
               /\ Told(work, p, block, past[block][p])
    <3>1. PICK x \in Int : Stands(work, p, x) /\ Leads(<<>>, PoolWeight(p), x, PoolStake(p))
      BY <1>1, <2>0 DEF Telling
    <3>2. PoolStake(p) = x /\ past[block][p] = x /\ PoolStake(p)' = PoolStake(p)
      <4>1. PoolStake(p) = x
        BY <3>1, LeadsEnd
      <4>2. past[block][p] = PoolStake(p)
        BY <1>1, <2>0 DEF Telling
      <4> QED BY <1>1, <4>1, <4>2 DEF PoolStake
    <3>3. AllLead(NoEvents, PoolWeight(p), x, x)
      BY AllLeadStart
    <3>4. Told(work, p, block, x)
      <4>1. CASE HasRow(work, p)
        <5>1. PICK n \in work.history : Newest(work, p, n) /\ n.amount = x
          BY <3>1, <4>1 DEF Stands
        <5>2. n.to <= block
          BY <5>1 DEF Newest
        <5>3. RowsAt(work, p, block) = {n}
          BY <1>2, <5>1, <5>2, NewestSpeaks
        <5> QED BY <5>1, <5>3 DEF Told
      <4>2. CASE ~HasRow(work, p)
        <5>1. x = 0
          BY <3>1, <4>2 DEF Stands
        <5>2. RowsAt(work, p, block) = {}
          BY <4>2 DEF HasRow, RowsAt, RowsOf
        <5> QED BY <5>1, <5>2 DEF Told
      <4> QED BY <4>1, <4>2
    <3> QED BY <1>5, <3>1, <3>2, <3>3, <3>4
  <2>2. ASSUME NEW p \in Pools, NEW b \in 1 .. block' - 1
        PROVE  Told(work, p, b, past[b][p])
    <3>1. b \in 1 .. block - 1 \/ b = block
      BY <1>1, <1>2
    <3> QED BY <2>0, <2>1, <3>1 DEF Telling
  <2>3. \A p, b, x : (Told(db, p, b, x)' <=> Told(work, p, b, x)) /\ (Told(work, p, b, x)' <=> Told(work, p, b, x))
    BY <1>1 DEF Told, RowsAt, RowsOf
  <2> QED BY <1>1, <2>1, <2>2, <2>3 DEF Telling
<1> QED BY <1>6, <1>7, <1>8, <1>9, <1>10 DEF Ledger

-----------------------------------------------------------------------------
(* The theorems.                                                           *)

(* What the tables say and the events still to count add up to what the    *)
(* contract has: of stake_history, ordered_withdrawal and stake_delegators *)
(* (the visitors of eventsVisitor.ts), for any pools, stakers and events.  *)
THEOREM LedgerAlways == Spec => []Ledger
<1>1. Init => Ledger
  BY InitLedger
<1>2. ASSUME Ledger, [Next]_vars PROVE Ledger'
  <2>1. ASSUME NEW e, Happens(e) PROVE Ledger'
    BY <1>2, <2>1, HappensLedger
  <2>2. Typed
    BY <1>2 DEF Ledger
  <2>3. ASSUME NEW p \in Pools, NEW s \in Stakers,
               Place(p, s) \/ Withdraw(p, s) \/ Order(p, s) \/ Claim(p, s)
        PROVE  Ledger'
    <3>1. \E e : Happens(e)
      BY <2>2, <2>3, PlaceHappens, WithdrawHappens, OrderHappens, ClaimHappens
    <3> QED BY <2>1, <3>1
  <2>4. ASSUME NEW p \in Pools, NEW q \in Pools, NEW s \in Stakers, Move(p, q, s) PROVE Ledger'
    <3>1. \E e : Happens(e)
      BY <2>2, <2>4, MoveHappens
    <3> QED BY <2>1, <3>1
  <2>5. ASSUME NEW p \in Pools, Gather(p) PROVE Ledger'
    <3>1. \E e : Happens(e)
      BY <2>2, <2>5, GatherHappens
    <3> QED BY <2>1, <3>1
  <2>6. CASE BlockComplete
    BY <1>2, <2>6, BlockCompleteLedger
  <2>7. CASE \/ VisitStakeChanged \/ VisitMovedStake \/ VisitOrderedWithdrawal
             \/ VisitClaimedOrderedWithdrawal \/ VisitGatherAbandonedStakes
    <3>1. Visiting
      BY <2>7, VisitsOne
    <3>2. \/ work' \in After(work, Head(queue)) /\ queue' = Tail(queue) /\ pc' = pc
          \/ work' = db /\ queue' = <<>> /\ pc' = "refused"
      BY <3>1 DEF Visiting
    <3> QED BY <1>2, <3>1, <3>2, VisitedLedger, RefusedLedger
  <2>8. CASE CommitBlock
    BY <1>2, <2>8, CommitBlockLedger
  <2>9. CASE UNCHANGED vars
    BY <1>2, <2>9, NothingChanges
  <2> QED BY <1>2, <2>3, <2>4, <2>5, <2>6, <2>7, <2>8, <2>9 DEF Next
<1> QED BY <1>1, <1>2, PTL DEF Spec

(* stake_history says once, of every past block and pool, what the stake   *)
(* was, unless the visits of a block crossed.                              *)
THEOREM HistoryAlwaysFollows == Spec => []HistoryFollowsChain
<1>1. Ledger => HistoryFollowsChain
  BY DEF Ledger, Telling, Told, HistoryFollowsChain
<1> QED BY <1>1, LedgerAlways, PTL

(* Between blocks the one open order of a staker is what the contract has  *)
(* ordered, unless the visits of a block crossed.                          *)
THEOREM OrdersAlwaysFollow == Spec => []OrdersFollowChain
<1>1. ASSUME Ledger, pc = "chain", emitted = NoEvents, ~crossed, NEW p \in Pools, NEW s \in Stakers
      PROVE  Opens(db, p, s, ordered[<<p, s>>])
  <2>1. PICK x \in Nat : Opens(db, p, s, x) /\ OrderingChain(p, s, x)
    BY <1>1 DEF Ledger, Ordering
  <2>2. emitted["OrderedWithdrawal"] = <<>> /\ emitted["ClaimedOrderedWithdrawal"] = <<>>
    BY <1>1, NothingEmitted DEF Kinds
  <2>3. ordered[<<p, s>>] = x
    BY <2>1, <2>2, NothingEmitted DEF OrderingChain
  <2> QED BY <2>1, <2>3
<1>2. Ledger => OrdersFollowChain
  BY <1>1 DEF OrdersFollowChain, Opens
<1> QED BY <1>2, LedgerAlways, PTL

LEMMA NothingLeads ==
    ASSUME NEW w, NEW x \in Int, NEW y, AllLead(NoEvents, w, x, y)
    PROVE  x = y
<1>1. PICK d \in [Kinds -> Int] :
        /\ \A k \in Kinds : Leads(NoEvents[k], w, 0, d[k])
        /\ x + d["PlacedStake"] + d["WithdrewStake"] + d["MovedStake"] + d["OrderedWithdrawal"]
             + d["ClaimedOrderedWithdrawal"] + d["GatherAbandonedStakes"] = y
  BY DEF AllLead
<1>2. ASSUME NEW k \in Kinds PROVE d[k] = 0
  <2>1. Leads(<<>>, w, 0, d[k])
    BY <1>1, NothingEmitted
  <2> QED BY <2>1, LeadsEnd
<1>3. /\ d["PlacedStake"] = 0 /\ d["WithdrewStake"] = 0 /\ d["MovedStake"] = 0
      /\ d["OrderedWithdrawal"] = 0 /\ d["ClaimedOrderedWithdrawal"] = 0
      /\ d["GatherAbandonedStakes"] = 0
  BY <1>2 DEF Kinds
<1> QED BY <1>1, <1>3

(* Between blocks stake_delegators counts what a delegator has and what of *)
(* it was claimed or gathered, however the visits crossed.                 *)
THEOREM DelegatedAlwaysFollows == Spec => []DelegatedFollowsChain
<1>1. ASSUME Ledger, pc = "chain", emitted = NoEvents, NEW p \in Pools, NEW s \in Stakers
      PROVE  db.delegated[<<p, s>>] = IF p = s THEN 0 ELSE stake[<<p, s>>] + left[<<p, s>>]
  <2>1. CASE p = s
    BY <1>1, <2>1 DEF Ledger, Delegating
  <2>2. CASE p # s
    <3>1. AllLead(NoEvents, StakerWeight(p, s), db.delegated[<<p, s>>],
                  stake[<<p, s>>] + left[<<p, s>>])
      BY <1>1, <2>2 DEF Ledger, Delegating
    <3>2. db.delegated[<<p, s>>] \in Int
      BY <1>1 DEF Ledger, Typed, Tables, Accounts
    <3>3. db.delegated[<<p, s>>] = stake[<<p, s>>] + left[<<p, s>>]
      BY <3>1, <3>2, NothingLeads
    <3> QED BY <2>2, <3>3
  <2> QED BY <2>1, <2>2
<1>2. Ledger => DelegatedFollowsChain
  BY <1>1 DEF DelegatedFollowsChain
<1> QED BY <1>2, LedgerAlways, PTL
=============================================================================
