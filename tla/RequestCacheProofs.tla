------------------------- MODULE RequestCacheProofs -------------------------
(***************************************************************************)
(* Proofs about RequestCache, for any actors, identities, sizes, budgets   *)
(* and clock bound.                                                        *)
(*                                                                         *)
(* CacheInv is inductive.  Its parts are proved one lemma each, with one   *)
(* step per action; only CommitRename, EvictRemove, StaleRemove and        *)
(* PowerLoss touch what another actor relies on, and the first three       *)
(* happen under the exclusive lock of the identity.                        *)
(***************************************************************************)
EXTENDS RequestCache, FiniteSetTheorems, WellFoundedInduction, TLAPS

-----------------------------------------------------------------------------
(* Sums over files.  ActualTotal is a fold, whose laws need induction over *)
(* sets: a smallest counterexample is taken and refuted.                   *)

\* The bytes of the files f at the identities S, as ActualTotal adds them up.
SizeOf(f, S) == MapThenSumSet(LAMBDA i : f[i].size, S)

\* The element a fold takes next.
Any(s) == CHOOSE x \in s : TRUE

\* g is the sum of w over the subsets of S, by the recursion of the fold: for those of
\* at most n elements, and for all.
SumsUpTo(g, w, S, n) ==
  \A s \in SUBSET S : Cardinality(s) =< n => g[s] = IF s = {} THEN 0 ELSE w[Any(s)] + g[s \ {Any(s)}]
Sums(g, w, S) ==
  \A s \in SUBSET S : g[s] = IF s = {} THEN 0 ELSE w[Any(s)] + g[s \ {Any(s)}]

\* The law of a sum: any element can be taken first.
Additive(g, w, S) == \A s \in SUBSET S : \A x \in s : g[s] = w[x] + g[s \ {x}]

\* g is the table of the sums of the files f.
Tabulates(g, f, I) ==
  /\ g[{}] = 0
  /\ \A s \in SUBSET I : \A x \in s : g[s] = f[x].size + g[s \ {x}]
  /\ \A S \in SUBSET I : SizeOf(f, S) = g[S]

\* Induction over numbers and over finite sets, from the well-founded minimum of a set.
LEMMA LeastNatural ==
  ASSUME NEW N \in SUBSET Nat, N # {}
  PROVE  \E n \in N : \A m \in N : n =< m
<1>1. PICK n \in N : \A m \in N : ~(<<m, n>> \in OpToRel(<, Nat))
  BY NatLessThanWellFounded, WFMin
<1>2. \A m, k \in Nat : m < k => <<m, k>> \in OpToRel(<, Nat)
  BY Zenon DEF OpToRel
<1>3. \A m \in N : ~(m < n)
  BY <1>1, <1>2, Zenon
<1> QED
  BY <1>3

LEMMA LeastSubset ==
  ASSUME NEW S, IsFiniteSet(S), NEW B \in SUBSET SUBSET S, B # {}
  PROVE  \E s \in B : \A t \in B : t \subseteq s => t = s
<1>1. IsWellFoundedOn(StrictSubsetOrdering(S), SUBSET S)
  BY FS_StrictSubsetOrderingWellFounded, FS_FiniteSubsetsOfFinite
<1>2. PICK s \in B : \A t \in B : ~(<<t, s>> \in StrictSubsetOrdering(S))
  BY <1>1, WFMin
<1> QED
  BY <1>2 DEF StrictSubsetOrdering

LEMMA AnyElement == ASSUME NEW s, s # {} PROVE Any(s) \in s
  BY DEF Any

\* The recursion has a solution, level by level of the cardinality,
LEMMA SumExists ==
  ASSUME NEW S, IsFiniteSet(S), NEW w \in [S -> Int]
  PROVE  \E g \in [SUBSET S -> Int] : Sums(g, w, S)
<1>1. \A s \in SUBSET S : IsFiniteSet(s) /\ Cardinality(s) \in Nat /\ Cardinality(s) =< Cardinality(S)
  BY FS_Subset, FS_CardinalityType
<1> DEFINE N == {n \in Nat : ~\E g \in [SUBSET S -> Int] : SumsUpTo(g, w, S, n)}
<1>2. N = {}
  <2> SUFFICES ASSUME N # {} PROVE FALSE
    OBVIOUS
  <2>0. N \in SUBSET Nat /\ \A n \in Nat : n \notin N <=> \E g \in [SUBSET S -> Int] : SumsUpTo(g, w, S, n)
    OBVIOUS
  <2> HIDE DEF N
  <2>1. PICK n \in N : \A m \in N : n =< m
    BY <2>0, LeastNatural
  <2>2. CASE n = 0
    <3> DEFINE g == [s \in SUBSET S |-> 0]
    <3>1. \A s \in SUBSET S : Cardinality(s) =< 0 => s = {}
      BY <1>1, FS_EmptySet
    <3>2. g \in [SUBSET S -> Int] /\ SumsUpTo(g, w, S, 0)
      BY <3>1 DEF SumsUpTo
    <3> QED
      BY <2>0, <2>1, <2>2, <3>2
  <2>3. CASE n # 0
    <3>1. n - 1 \in Nat /\ n - 1 \notin N
      BY <2>0, <2>1, <2>3
    <3>2. PICK g \in [SUBSET S -> Int] : SumsUpTo(g, w, S, n - 1)
      BY <2>0, <3>1
    <3> DEFINE h == [s \in SUBSET S |-> IF s = {} THEN 0 ELSE w[Any(s)] + g[s \ {Any(s)}]]
    <3>3. h \in [SUBSET S -> Int]
      <4> SUFFICES ASSUME NEW s \in SUBSET S, s # {} PROVE w[Any(s)] + g[s \ {Any(s)}] \in Int
        OBVIOUS
      <4> QED
        BY AnyElement
    <3>4. \A s \in SUBSET S : Cardinality(s) =< n - 1 => h[s] = g[s]
      BY <3>2 DEF SumsUpTo
    <3>41. \A s \in SUBSET S : h[s] = IF s = {} THEN 0 ELSE w[Any(s)] + g[s \ {Any(s)}]
      OBVIOUS
    <3> HIDE DEF h
    <3>5. ASSUME NEW s \in SUBSET S, Cardinality(s) =< n, s # {}
          PROVE  h[s] = w[Any(s)] + h[s \ {Any(s)}]
      <4>1. Any(s) \in s
        BY <3>5, AnyElement
      <4>2. Cardinality(s \ {Any(s)}) = Cardinality(s) - 1
        BY <1>1, <4>1, FS_RemoveElement
      <4>3. s \ {Any(s)} \in SUBSET S /\ Cardinality(s \ {Any(s)}) =< n - 1
        BY <1>1, <2>0, <2>1, <3>5, <4>2
      <4>4. h[s \ {Any(s)}] = g[s \ {Any(s)}]
        BY <3>4, <4>3
      <4> QED
        BY <3>5, <4>4, <3>41
    <3>6. SumsUpTo(h, w, S, n)
      BY <3>5, <3>41 DEF SumsUpTo
    <3> QED
      BY <2>0, <2>1, <3>3, <3>6
  <2> QED
    BY <2>2, <2>3
<1>3. Cardinality(S) \in Nat
  BY FS_CardinalityType
<1>4. PICK g \in [SUBSET S -> Int] : SumsUpTo(g, w, S, Cardinality(S))
  BY <1>2, <1>3
<1> QED
  BY <1>1, <1>4 DEF SumsUpTo, Sums

\* only one,
LEMMA SumUnique ==
  ASSUME NEW S, IsFiniteSet(S), NEW w, NEW f, NEW g, Sums(f, w, S), Sums(g, w, S)
  PROVE  \A s \in SUBSET S : f[s] = g[s]
<1> DEFINE B == {s \in SUBSET S : f[s] # g[s]}
<1> SUFFICES ASSUME B # {} PROVE FALSE
  OBVIOUS
<1>0. B \in SUBSET SUBSET S
  OBVIOUS
<1>1. PICK s \in B : \A t \in B : t \subseteq s => t = s
  <2> HIDE DEF B
  <2> QED
    BY <1>0, LeastSubset
<1>2. s # {}
  BY <1>1 DEF Sums
<1>3. Any(s) \in s /\ s \ {Any(s)} \in SUBSET S
  BY <1>1, <1>2, AnyElement
<1>4. f[s \ {Any(s)}] = g[s \ {Any(s)}]
  BY <1>1, <1>3
<1> QED
  BY <1>1, <1>2, <1>3, <1>4 DEF Sums

\* which does not depend on the order in which the elements are taken,
LEMMA SumLaw ==
  ASSUME NEW S, IsFiniteSet(S), NEW w \in [S -> Int], NEW g \in [SUBSET S -> Int], Sums(g, w, S)
  PROVE  Additive(g, w, S)
<1> DEFINE B == {s \in SUBSET S : \E x \in s : g[s] # w[x] + g[s \ {x}]}
<1> SUFFICES ASSUME B # {} PROVE FALSE
  BY DEF Additive
<1>0. B \in SUBSET SUBSET S
  OBVIOUS
<1>1. PICK s \in B : \A t \in B : t \subseteq s => t = s
  <2> HIDE DEF B
  <2> QED
    BY <1>0, LeastSubset
<1>2. PICK x \in s : g[s] # w[x] + g[s \ {x}]
  BY <1>1
<1> DEFINE c == Any(s)
<1>3. c \in s /\ g[s] = w[c] + g[s \ {c}]
  BY <1>1, <1>2, AnyElement DEF Sums
<1> HIDE DEF c
<1>4. c # x
  BY <1>2, <1>3
<1>5. s \ {c} \in SUBSET S /\ s \ {c} \notin B /\ s \ {x} \in SUBSET S /\ s \ {x} \notin B
  BY <1>1, <1>2, <1>3
<1>6. g[s \ {c}] = w[x] + g[(s \ {c}) \ {x}]
  BY <1>2, <1>4, <1>5
<1>7. g[s \ {x}] = w[c] + g[(s \ {x}) \ {c}]
  BY <1>3, <1>4, <1>5
<1>8. (s \ {c}) \ {x} = (s \ {x}) \ {c}
  OBVIOUS
<1>9. w[x] \in Int /\ w[c] \in Int /\ g[(s \ {x}) \ {c}] \in Int
  BY <1>1, <1>2, <1>3
<1> DEFINE rest == g[(s \ {x}) \ {c}]
<1>10. g[s] = w[c] + (w[x] + rest) /\ w[x] + g[s \ {x}] = w[x] + (w[c] + rest)
  BY <1>3, <1>6, <1>7, <1>8
<1> HIDE DEF rest
<1>11. \A p, q, r \in Int : p + (q + r) = q + (p + r)
  OBVIOUS
<1> QED
  BY <1>2, <1>9, <1>10, <1>11 DEF rest

\* and which is what the fold of the library computes.
LEMMA FoldIsSum ==
  ASSUME NEW I, IsFiniteSet(I), NEW a, \A i \in I : a[i].size \in Int
  PROVE  \E g \in [SUBSET I -> Int] : Tabulates(g, a, I)
<1>0. PICK w \in [I -> Int] : \A i \in I : w[i] = a[i].size
  <2>1. [i \in I |-> a[i].size] \in [I -> Int]
    OBVIOUS
  <2> QED
    BY <2>1
<1>1. PICK g \in [SUBSET I -> Int] : Sums(g, w, I)
  BY SumExists
<1>2. Additive(g, w, I)
  BY <1>1, SumLaw
<1>3. ASSUME NEW S \in SUBSET I PROVE SizeOf(a, S) = g[S]
  <2> DEFINE F(f) == [s \in SUBSET S |-> IF s = {} THEN 0 ELSE a[Any(s)].size + f[s \ {Any(s)}]]
  <2>1. SizeOf(a, S) = (CHOOSE f : f = F(f))[S]
    BY DEF SizeOf, MapThenSumSet, MapThenFoldSet, Any
  <2>2. [s \in SUBSET S |-> g[s]] = F([s \in SUBSET S |-> g[s]])
    <3> SUFFICES ASSUME NEW s \in SUBSET S
                 PROVE  g[s] = IF s = {} THEN 0 ELSE a[Any(s)].size + [t \in SUBSET S |-> g[t]][s \ {Any(s)}]
      OBVIOUS
    <3>1. s # {} => Any(s) \in s
      BY AnyElement
    <3> QED
      BY <1>0, <1>1, <3>1 DEF Sums
  <2>3. (CHOOSE f : f = F(f)) = F(CHOOSE f : f = F(f))
    BY <2>2
  <2>4. PICK f : f = (CHOOSE h : h = F(h)) /\ f = F(f)
    BY <2>3
  <2>5. Sums(f, w, S)
    <3> SUFFICES ASSUME NEW s \in SUBSET S
                 PROVE  f[s] = IF s = {} THEN 0 ELSE w[Any(s)] + f[s \ {Any(s)}]
      BY DEF Sums
    <3>1. f[s] = IF s = {} THEN 0 ELSE a[Any(s)].size + f[s \ {Any(s)}]
      BY <2>4
    <3>2. s # {} => Any(s) \in s
      BY AnyElement
    <3> QED
      BY <1>0, <3>1, <3>2
  <2>6. Sums(g, w, S) /\ IsFiniteSet(S)
    BY <1>1, FS_Subset DEF Sums
  <2>7. f[S] = g[S]
    BY <2>5, <2>6, SumUnique
  <2> QED
    BY <2>1, <2>4, <2>7
<1>4. g[{}] = 0
  BY <1>1 DEF Sums
<1> QED
  BY <1>0, <1>2, <1>3, <1>4 DEF Additive, Tabulates

\* The laws of SizeOf.
LEMMA SizeLaw ==
  ASSUME NEW f, \A i \in Ids : f[i].size \in Int
  PROVE  /\ \A S \in SUBSET Ids : SizeOf(f, S) \in Int
         /\ SizeOf(f, {}) = 0
         /\ \A S \in SUBSET Ids : \A x \in S : SizeOf(f, S) = f[x].size + SizeOf(f, S \ {x})
<1>1. PICK g \in [SUBSET Ids -> Int] : Tabulates(g, f, Ids)
  BY CacheAssumption, FoldIsSum
<1> QED
  BY <1>1 DEF Tabulates

\* Files that agree in their sizes have the same sum.
LEMMA SameSizes ==
  ASSUME NEW f, \A i \in Ids : f[i].size \in Int, NEW h, \A i \in Ids : h[i].size \in Int,
         NEW S \in SUBSET Ids, \A i \in S : f[i].size = h[i].size
  PROVE  SizeOf(f, S) = SizeOf(h, S)
<1> DEFINE B == {s \in SUBSET S : SizeOf(f, s) # SizeOf(h, s)}
<1> SUFFICES ASSUME B # {} PROVE FALSE
  OBVIOUS
<1>1. B \in SUBSET SUBSET S /\ IsFiniteSet(S)
  BY CacheAssumption, FS_Subset
<1>2. PICK s \in B : \A t \in B : t \subseteq s => t = s
  <2> HIDE DEF B
  <2> QED
    BY <1>1, LeastSubset
<1>3. s \in SUBSET Ids /\ SizeOf(f, s) # SizeOf(h, s)
  BY <1>2
<1>4. s # {}
  BY <1>3, SizeLaw
<1>5. PICK x \in s : TRUE
  BY <1>4
<1>6. SizeOf(f, s \ {x}) = SizeOf(h, s \ {x})
  BY <1>2, <1>5
<1>7. f[x].size = h[x].size
  BY <1>2, <1>5
<1>8. SizeOf(f, s) = f[x].size + SizeOf(f, s \ {x}) /\ SizeOf(h, s) = h[x].size + SizeOf(h, s \ {x})
  BY <1>3, <1>5, SizeLaw
<1> QED
  BY <1>3, <1>6, <1>7, <1>8

\* Identities without a size can be left out.
LEMMA EmptyFiles ==
  ASSUME NEW f, \A i \in Ids : f[i].size \in Int, NEW P \in SUBSET Ids, \A i \in Ids \ P : f[i].size = 0
  PROVE  SizeOf(f, P) = SizeOf(f, Ids)
<1> DEFINE B == {s \in SUBSET Ids : SizeOf(f, s) # SizeOf(f, s \cap P)}
<1>0. Ids \cap P = P /\ Ids \in SUBSET Ids
  OBVIOUS
<1> SUFFICES ASSUME B # {} PROVE FALSE
  BY <1>0
<1>1. B \in SUBSET SUBSET Ids
  OBVIOUS
<1>2. PICK s \in B : \A t \in B : t \subseteq s => t = s
  <2> HIDE DEF B
  <2> QED
    BY <1>1, CacheAssumption, LeastSubset
<1>3. s \in SUBSET Ids /\ s \cap P \in SUBSET Ids /\ SizeOf(f, s) # SizeOf(f, s \cap P)
  BY <1>2
<1>4. s # {}
  <2> SUFFICES ASSUME s = {} PROVE FALSE
    OBVIOUS
  <2>1. s = s \cap P
    OBVIOUS
  <2> QED
    BY <1>3, <2>1
<1>5. PICK x \in s : TRUE
  BY <1>4
<1>6. s \ {x} \in SUBSET Ids /\ SizeOf(f, s \ {x}) = SizeOf(f, (s \ {x}) \cap P)
  BY <1>2, <1>3, <1>5
<1>7. SizeOf(f, s) = f[x].size + SizeOf(f, s \ {x})
  BY <1>3, <1>5, SizeLaw
<1>8. CASE x \in P
  <2>1. (s \ {x}) \cap P = (s \cap P) \ {x} /\ x \in s \cap P
    BY <1>5, <1>8
  <2>2. SizeOf(f, s \cap P) = f[x].size + SizeOf(f, (s \cap P) \ {x})
    BY <1>3, <2>1, SizeLaw
  <2> QED
    BY <1>3, <1>6, <1>7, <2>1, <2>2
<1>9. CASE x \notin P
  <2>1. (s \ {x}) \cap P = s \cap P /\ f[x].size = 0
    BY <1>3, <1>5, <1>9
  <2>2. SizeOf(f, s \ {x}) \in Int
    BY <1>6, SizeLaw
  <2>3. SizeOf(f, (s \ {x}) \cap P) = SizeOf(f, s \cap P)
    BY <2>1
  <2> QED
    BY <1>3, <1>6, <1>7, <2>1, <2>2, <2>3
<1> QED
  BY <1>8, <1>9

\* One file removed.
LEMMA RemoveFile ==
  ASSUME NEW f, \A i \in Ids : f[i].size \in Int, NEW h, \A i \in Ids : h[i].size \in Int,
         NEW x \in Ids, h[x].size = 0, \A i \in Ids \ {x} : h[i].size = f[i].size,
         NEW S \in SUBSET Ids
  PROVE  SizeOf(h, S) = IF x \in S THEN SizeOf(f, S) - f[x].size ELSE SizeOf(f, S)
<1>1. CASE x \in S
  <2>1. SizeOf(h, S) = h[x].size + SizeOf(h, S \ {x}) /\ SizeOf(f, S) = f[x].size + SizeOf(f, S \ {x})
    BY <1>1, SizeLaw
  <2>2. SizeOf(h, S \ {x}) = SizeOf(f, S \ {x})
    <3>1. S \ {x} \in SUBSET Ids /\ \A i \in S \ {x} : h[i].size = f[i].size
      OBVIOUS
    <3> QED
      BY <3>1, SameSizes
  <2>3. SizeOf(f, S \ {x}) \in Int /\ f[x].size \in Int
    BY SizeLaw
  <2> QED
    BY <1>1, <2>1, <2>2, <2>3
<1>2. CASE x \notin S
  <2>1. \A i \in S : h[i].size = f[i].size
    BY <1>2
  <2> QED
    BY <1>2, <2>1, SameSizes
<1> QED
  BY <1>1, <1>2

-----------------------------------------------------------------------------
(* The files, leases and steps of the cache.                               *)

\* Facts about file records: what commit() and a power failure make of a file is a
\* file again, and an absent file is absent.
LEMMA FileFacts ==
  /\ Absent \in Files /\ Absent.kind = "absent"
  /\ \A f \in Files : f.size \in Nat /\ f.mtime \in Times /\ f.kind \in Kinds
  /\ \A f \in Files : [f EXCEPT !.synced = TRUE] \in Files
  /\ \A f \in Files : AfterPowerLoss(f) \in Files
  /\ \A k \in Kinds, s \in Sizes, t \in Times :
       [kind |-> k, size |-> s, mtime |-> t, synced |-> FALSE] \in Files
<1> USE DEF Files
<1>1. Absent \in Files /\ Absent.kind = "absent"
  BY CacheAssumption DEF Absent, Kinds, Times
<1>2. \A f \in Files : f.size \in Nat /\ f.mtime \in Times /\ f.kind \in Kinds
  <2>1. TAKE f \in Files
  <2>2. f.size \in Sizes \cup {0}
    OBVIOUS
  <2>3. Sizes \cup {0} \subseteq Nat
    BY CacheAssumption
  <2> QED
    BY <2>2, <2>3
<1>3. \A f \in Files : [f EXCEPT !.synced = TRUE] \in Files
  OBVIOUS
<1>4. \A f \in Files : AfterPowerLoss(f) \in Files
  BY DEF AfterPowerLoss, Kinds
<1>5. \A k \in Kinds, s \in Sizes, t \in Times :
        [kind |-> k, size |-> s, mtime |-> t, synced |-> FALSE] \in Files
  OBVIOUS
<1> QED
  BY <1>1, <1>2, <1>3, <1>4, <1>5

\* Sizes are numbers, and so is what cleanup() finds on the disk.
LEMMA SizesAreInts ==
  ASSUME FilesOK
  PROVE  (\A i \in Ids : art[i].size \in Nat) /\ \A i \in Ids : art[i].size \in Int
  BY FileFacts DEF FilesOK

LEMMA ActualTotalType ==
  ASSUME FilesOK
  PROVE  ActualTotal = SizeOf(art, Present) /\ ActualTotal \in Int
<1>1. ActualTotal = SizeOf(art, Present)
  BY DEF ActualTotal, SizeOf, MapThenSumSet, MapThenFoldSet
<1>2. Present \in SUBSET Ids
  BY DEF Present
<1> QED
  BY <1>1, <1>2, SizesAreInts, SizeLaw

\* A lease or Hit is well formed, and no lease names no identity.
LEMMA LeaseFacts ==
  /\ NoLease \in Leases /\ NoLease.id = NoId /\ NoLease.via = "none"
  /\ \A i \in Ids, v \in {"lookup", "downgrade", "relock", "pin"} :
       [id |-> i, via |-> v] \in Leases
BY DEF Leases, NoLease

\* Writing one .partial keeps the types of all of them.
LEMMA PartialType ==
  ASSUME FilesOK, NEW a \in Actors, NEW i \in Ids, NEW f \in Files
  PROVE  [partial EXCEPT ![a][i] = f] \in [Actors -> [Ids -> Files]]
BY DEF FilesOK

\* What the rename of commit() does: it publishes a validated and synced partial, or
\* the commit is abandoned.
LEMMA RenameEffect ==
  ASSUME TypeOK, WorksOnId, CommitProgress, NEW a \in Actors, CommitRename(a)
  PROVE  /\ arg[a] \in Ids /\ pc[a] = "rename"
         /\ partial[a][arg[a]] \in Files
         /\ partial[a][arg[a]].kind = "valid" /\ partial[a][arg[a]].synced
         /\ UNCHANGED <<disk, lease>>
         /\ \/ Abandon(a)
            \/ /\ art' = [art EXCEPT ![arg[a]] = partial[a][arg[a]]]
               /\ partial' = [partial EXCEPT ![a][arg[a]] = Absent]
               /\ pc' = [pc EXCEPT ![a] = "stamp"]
               /\ arg' = arg
<1>1. arg[a] \in Ids /\ pc[a] = "rename"
  BY DEF CommitRename, WorksOnId, Working, ExclusivePCs
<1>2. partial[a][arg[a]] \in Files
  BY <1>1 DEF TypeOK, FilesOK
<1>3. partial[a][arg[a]].kind = "valid" /\ partial[a][arg[a]].synced
  BY <1>1 DEF CommitProgress
<1> QED
  BY <1>1, <1>2, <1>3 DEF CommitRename, Abandon, SetPartial, Step

\* What an eviction does: it works on the identity it has locked and removes at most
\* the artifact of that identity.
LEMMA EvictEffect ==
  ASSUME TypeOK, WorksOnId, NEW a \in Actors, EvictRemove(a)
  PROVE  /\ arg[a] \in Ids /\ pc[a] = "evictRemove"
         /\ \A i \in Ids : art'[i] = art[i] \/ (i = arg[a] /\ art'[i] = Absent)
         /\ pc' = [pc EXCEPT ![a] = "evict"] /\ arg' = [arg EXCEPT ![a] = NoId]
         /\ UNCHANGED <<disk, partial, lease>>
<1>1. arg[a] \in Ids /\ pc[a] = "evictRemove"
  BY DEF EvictRemove, WorksOnId, Working, ExclusivePCs
<1>2. art' = art \/ art' = [art EXCEPT ![arg[a]] = Absent]
  BY DEF EvictRemove
<1>3. \A i \in Ids : art'[i] = art[i] \/ (i = arg[a] /\ art'[i] = Absent)
  BY <1>1, <1>2 DEF TypeOK, FilesOK
<1> QED
  BY <1>1, <1>3 DEF EvictRemove

\* Every step keeps the types of the files.
LEMMA FilesStep ==
  ASSUME TypeOK, WorksOnId, [Next]_vars
  PROVE  FilesOK'
<1> USE FileFacts DEF TypeOK, FilesOK, files
<1>1. ASSUME NEW a \in Actors, NEW i \in Ids, Lookup(a, i) PROVE FilesOK'
  BY <1>1 DEF Lookup, Return, Begin
<1>2. ASSUME NEW a \in Actors, LookupLock(a) PROVE FilesOK'
  BY <1>2 DEF LookupLock, Step, Return
<1>3. ASSUME NEW a \in Actors, LookupValidate(a) PROVE FilesOK'
  BY <1>3 DEF LookupValidate, Step, Return
<1>4. ASSUME NEW a \in Actors, LookupTouch(a) PROVE FilesOK'
  BY <1>4 DEF LookupTouch, touchStamp, ReturnHit, Return
<1>5. ASSUME NEW a \in Actors, NEW i \in Ids, AcquireReadLease(a, i) PROVE FilesOK'
  BY <1>5 DEF AcquireReadLease, Return
<1>6. ASSUME NEW a \in Actors, ReleaseLease(a) PROVE FilesOK'
  BY <1>6 DEF ReleaseLease
<1>7. ASSUME NEW a \in Actors, NEW i \in Ids, BeginWrite(a, i) PROVE FilesOK'
  BY <1>7 DEF BeginWrite, Begin, Return
<1>8. ASSUME NEW a \in Actors, WritePartial(a) PROVE FilesOK'
  <2>1. arg[a] \in Ids
    BY <1>8 DEF WritePartial, WorksOnId, Working, ExclusivePCs
  <2>2. PICK k \in {"valid", "torn"}, s \in Sizes :
          partial' = [partial EXCEPT ![a][arg[a]] =
                        [kind |-> k, size |-> s, mtime |-> now, synced |-> FALSE]]
    BY <1>8 DEF WritePartial, SetPartial
  <2>3. partial' \in [Actors -> [Ids -> Files]]
    BY <2>1, <2>2, PartialType DEF Kinds
  <2> QED
    BY <1>8, <2>3 DEF WritePartial
<1>9. ASSUME NEW a \in Actors, Abort(a) PROVE FilesOK'
  BY <1>9 DEF Abort, Abandon, SetPartial, Return
<1>10. ASSUME NEW a \in Actors, CommitValidate(a) PROVE FilesOK'
  <2>1. arg[a] \in Ids
    BY <1>10 DEF CommitValidate, WorksOnId, Working, ExclusivePCs
  <2>2. partial[a][arg[a]] \in Files
    BY <2>1
  <2>3. CASE Abandon(a)
    BY <2>1, <2>3, PartialType DEF Abandon, SetPartial
  <2>4. CASE ~Abandon(a)
    BY <1>10, <2>1, <2>2, <2>4, PartialType DEF CommitValidate, SetPartial
  <2> QED
    BY <2>3, <2>4
<1>11. ASSUME NEW a \in Actors, CommitSync(a) PROVE FilesOK'
  <2>1. arg[a] \in Ids
    BY <1>11 DEF CommitSync, WorksOnId, Working, ExclusivePCs
  <2>2. partial[a][arg[a]] \in Files
    BY <2>1
  <2>3. CASE Abandon(a)
    BY <2>1, <2>3, PartialType DEF Abandon, SetPartial
  <2>4. CASE ~Abandon(a)
    <3>1. [partial[a][arg[a]] EXCEPT !.synced = TRUE] \in Files
      BY <2>2
    <3>2. partial' = [partial EXCEPT ![a][arg[a]] = [partial[a][arg[a]] EXCEPT !.synced = TRUE]]
      BY <1>11, <2>4 DEF CommitSync, SetPartial
    <3>3. partial' \in [Actors -> [Ids -> Files]]
      BY <2>1, <3>1, <3>2, PartialType
    <3> QED
      BY <1>11, <2>4, <3>3 DEF CommitSync
  <2> QED
    BY <2>3, <2>4
<1>12. ASSUME NEW a \in Actors, CommitRename(a) PROVE FilesOK'
  <2>1. arg[a] \in Ids
    BY <1>12 DEF CommitRename, WorksOnId, Working, ExclusivePCs
  <2>2. partial[a][arg[a]] \in Files
    BY <2>1
  <2>3. CASE Abandon(a)
    BY <2>1, <2>3, PartialType DEF Abandon, SetPartial
  <2>4. CASE ~Abandon(a)
    <3>1. /\ art' = [art EXCEPT ![arg[a]] = partial[a][arg[a]]]
          /\ partial' = [partial EXCEPT ![a][arg[a]] = Absent]
      BY <1>12, <2>4 DEF CommitRename, SetPartial
    <3>2. art' \in [Ids -> Files]
      BY <2>1, <2>2, <3>1
    <3>3. partial' \in [Actors -> [Ids -> Files]]
      BY <2>1, <3>1, PartialType
    <3> QED
      BY <1>12, <2>4, <3>2, <3>3 DEF CommitRename
  <2> QED
    BY <2>3, <2>4
<1>13. ASSUME NEW a \in Actors, CommitStamp(a) PROVE FilesOK'
  BY <1>13 DEF CommitStamp, touchStamp, Step
<1>14. ASSUME NEW a \in Actors, CommitDowngrade(a) PROVE FilesOK'
  BY <1>14 DEF CommitDowngrade, Step
<1>15. ASSUME NEW a \in Actors, CommitConvert(a) PROVE FilesOK'
  BY <1>15 DEF CommitConvert, ReturnHit, Step, Return
<1>16. ASSUME NEW a \in Actors, CommitRelock(a) PROVE FilesOK'
  BY <1>16 DEF CommitRelock, ReturnHit, Return
<1>17. ASSUME NEW a \in Actors, ScanRoot(a) PROVE FilesOK'
  BY <1>17 DEF ScanRoot, Begin
<1>18. ASSUME NEW a \in Actors, ScanEntry(a) PROVE FilesOK'
  BY <1>18 DEF ScanEntry, Present, LruStamp
<1>19. ASSUME NEW a \in Actors, ScanDone(a) PROVE FilesOK'
  BY <1>19 DEF ScanDone, Step, EndCleanup, Return
<1>20. ASSUME NEW a \in Actors, StaleLock(a) PROVE FilesOK'
  BY <1>20 DEF StaleLock
<1>21. ASSUME NEW a \in Actors, StaleRemove(a) PROVE FilesOK'
  <2>1. PICK x \in stale[a] :
          partial' = [partial EXCEPT ![x[1]][x[2]] = IF Old(@) THEN Absent ELSE @]
    BY <1>21 DEF StaleRemove
  <2>2. x[1] \in Actors /\ x[2] \in Ids
    BY <2>1 DEF CleaningOK
  <2>3. partial' \in [Actors -> [Ids -> Files]]
    BY <2>1, <2>2
  <2> QED
    BY <1>21, <2>3 DEF StaleRemove
<1>22. ASSUME NEW a \in Actors, EvictSpace(a) PROVE FilesOK'
  BY <1>22 DEF EvictSpace, EndCleanup, Step, Return
<1>23. ASSUME NEW a \in Actors, EvictLock(a) PROVE FilesOK'
  BY <1>23 DEF EvictLock
<1>24. ASSUME NEW a \in Actors, EvictRemove(a) PROVE FilesOK'
  <2>1. PICK v \in cand[a] :
          /\ v.id = arg[a]
          /\ art' \in {art, [art EXCEPT ![v.id] = Absent]}
          /\ touch' \in {touch, [touch EXCEPT ![v.id] = NoStamp]}
    BY <1>24 DEF EvictRemove
  <2>2. v.id \in Ids
    BY <2>1 DEF CleaningOK, Candidates
  <2>3. art' \in [Ids -> Files]
    BY <2>1, <2>2
  <2>4. touch' \in [Ids -> Times \cup {NoStamp}]
    BY <2>1, <2>2
  <2> QED
    BY <1>24, <2>3, <2>4 DEF EvictRemove
<1>25. ASSUME NEW a \in Actors, CleanupDone(a) PROVE FilesOK'
  BY <1>25 DEF CleanupDone, EndCleanup, Return
<1>26. ASSUME Tick PROVE FilesOK'
  BY <1>26, CacheAssumption DEF Tick, Times
<1>27. ASSUME NEW a \in Actors, Crash(a) PROVE FilesOK'
  BY <1>27 DEF Crash
<1>28. ASSUME PowerLoss PROVE FilesOK'
  BY <1>28 DEF PowerLoss, AfterPowerLoss
<1>29. ASSUME UNCHANGED vars PROVE FilesOK'
  BY <1>29 DEF vars
<1> QED
  BY <1>1, <1>2, <1>3, <1>4, <1>5, <1>6, <1>7, <1>8, <1>9, <1>10, <1>11, <1>12, <1>13, <1>14,
     <1>15, <1>16, <1>17, <1>18, <1>19, <1>20, <1>21, <1>22, <1>23, <1>24, <1>25, <1>26, <1>27, <1>28, <1>29
  DEF Next, Reader, Writer, Cleaner

\* Every step keeps the types of the operations in progress, leases and replies.
LEMMA ControlStep ==
  ASSUME TypeOK, WorksOnId, [Next]_vars
  PROVE  ControlOK'
<1> USE LeaseFacts DEF TypeOK, ControlOK, PCs, Replies
<1>1. ASSUME NEW a \in Actors, NEW i \in Ids, Lookup(a, i) PROVE ControlOK'
  BY <1>1 DEF Lookup, Return, Begin
<1>2. ASSUME NEW a \in Actors, LookupLock(a) PROVE ControlOK'
  BY <1>2 DEF LookupLock, Step, Return
<1>3. ASSUME NEW a \in Actors, LookupValidate(a) PROVE ControlOK'
  BY <1>3 DEF LookupValidate, Step, Return
<1>4. ASSUME NEW a \in Actors, LookupTouch(a) PROVE ControlOK'
  <2>1. arg[a] \in Ids
    BY <1>4 DEF LookupTouch, WorksOnId, Working
  <2> QED
    BY <1>4, <2>1 DEF LookupTouch, touchStamp, ReturnHit, Return
<1>5. ASSUME NEW a \in Actors, NEW i \in Ids, AcquireReadLease(a, i) PROVE ControlOK'
  <2>1. lease' \in [Actors -> Leases]
    BY <1>5 DEF AcquireReadLease
  <2> QED
    BY <1>5, <2>1 DEF AcquireReadLease, Return
<1>6. ASSUME NEW a \in Actors, ReleaseLease(a) PROVE ControlOK'
  BY <1>6 DEF ReleaseLease
<1>7. ASSUME NEW a \in Actors, NEW i \in Ids, BeginWrite(a, i) PROVE ControlOK'
  BY <1>7 DEF BeginWrite, Begin, Return
<1>8. ASSUME NEW a \in Actors, WritePartial(a) PROVE ControlOK'
  BY <1>8 DEF WritePartial, SetPartial, Step
<1>9. ASSUME NEW a \in Actors, Abort(a) PROVE ControlOK'
  BY <1>9 DEF Abort, Abandon, SetPartial, Return
<1>10. ASSUME NEW a \in Actors, CommitValidate(a) PROVE ControlOK'
  BY <1>10 DEF CommitValidate, Abandon, SetPartial, Step, Return
<1>11. ASSUME NEW a \in Actors, CommitSync(a) PROVE ControlOK'
  BY <1>11 DEF CommitSync, Abandon, SetPartial, Step, Return
<1>12. ASSUME NEW a \in Actors, CommitRename(a) PROVE ControlOK'
  <2>1. Cleaners \subseteq Actors
    BY CacheAssumption
  <2> QED
    BY <1>12, <2>1 DEF CommitRename, Abandon, SetPartial, Step, Return
<1>13. ASSUME NEW a \in Actors, CommitStamp(a) PROVE ControlOK'
  BY <1>13 DEF CommitStamp, touchStamp, Step
<1>14. ASSUME NEW a \in Actors, CommitDowngrade(a) PROVE ControlOK'
  BY <1>14 DEF CommitDowngrade, Step
<1>15. ASSUME NEW a \in Actors, CommitConvert(a) PROVE ControlOK'
  <2>1. arg[a] \in Ids
    BY <1>15 DEF CommitConvert, WorksOnId, Working
  <2>2. lease' \in [Actors -> Leases]
    BY <1>15, <2>1 DEF CommitConvert, ReturnHit
  <2> QED
    BY <1>15, <2>1, <2>2 DEF CommitConvert, ReturnHit, Step, Return
<1>16. ASSUME NEW a \in Actors, CommitRelock(a) PROVE ControlOK'
  <2>1. arg[a] \in Ids
    BY <1>16 DEF CommitRelock, WorksOnId, Working
  <2> QED
    BY <1>16, <2>1 DEF CommitRelock, ReturnHit, Return
<1>17. ASSUME NEW a \in Actors, ScanRoot(a) PROVE ControlOK'
  BY <1>17 DEF ScanRoot, Begin
<1>18. ASSUME NEW a \in Actors, ScanEntry(a) PROVE ControlOK'
  BY <1>18 DEF ScanEntry, Present, LruStamp
<1>19. ASSUME NEW a \in Actors, ScanDone(a) PROVE ControlOK'
  BY <1>19 DEF ScanDone, Step, EndCleanup, Return
<1>20. ASSUME NEW a \in Actors, StaleLock(a) PROVE ControlOK'
  <2>1. \A x \in stale[a] : x[2] \in Ids
    BY DEF CleaningOK
  <2> QED
    BY <1>20, <2>1 DEF StaleLock
<1>21. ASSUME NEW a \in Actors, StaleRemove(a) PROVE ControlOK'
  BY <1>21 DEF StaleRemove
<1>22. ASSUME NEW a \in Actors, EvictSpace(a) PROVE ControlOK'
  BY <1>22 DEF EvictSpace, EndCleanup, Step, Return
<1>23. ASSUME NEW a \in Actors, EvictLock(a) PROVE ControlOK'
  <2>1. \A v \in cand[a] : v.id \in Ids
    BY DEF CleaningOK, Candidates
  <2> QED
    BY <1>23, <2>1 DEF EvictLock
<1>24. ASSUME NEW a \in Actors, EvictRemove(a) PROVE ControlOK'
  BY <1>24 DEF EvictRemove, Unchanged
<1>25. ASSUME NEW a \in Actors, CleanupDone(a) PROVE ControlOK'
  BY <1>25 DEF CleanupDone, EndCleanup, Return
<1>26. ASSUME Tick PROVE ControlOK'
  BY <1>26 DEF Tick
<1>27. ASSUME NEW a \in Actors, Crash(a) PROVE ControlOK'
  BY <1>27 DEF Crash
<1>28. ASSUME PowerLoss PROVE ControlOK'
  BY <1>28 DEF PowerLoss, AfterPowerLoss
<1>29. ASSUME UNCHANGED vars PROVE ControlOK'
  BY <1>29 DEF vars
<1> QED
  BY <1>1, <1>2, <1>3, <1>4, <1>5, <1>6, <1>7, <1>8, <1>9, <1>10, <1>11, <1>12, <1>13, <1>14,
     <1>15, <1>16, <1>17, <1>18, <1>19, <1>20, <1>21, <1>22, <1>23, <1>24, <1>25, <1>26, <1>27, <1>28, <1>29
  DEF Next, Reader, Writer, Cleaner

\* Every step keeps the types of the locals of cleanup().
LEMMA CleaningStep ==
  ASSUME TypeOK, WorksOnId, [Next]_vars
  PROVE  CleaningOK'
<1> USE DEF TypeOK, CleaningOK, cleaning
<1>1. ASSUME NEW a \in Actors, NEW i \in Ids, Lookup(a, i) PROVE CleaningOK'
  BY <1>1 DEF Lookup, Return, Begin
<1>2. ASSUME NEW a \in Actors, LookupLock(a) PROVE CleaningOK'
  BY <1>2 DEF LookupLock, Step, Return
<1>3. ASSUME NEW a \in Actors, LookupValidate(a) PROVE CleaningOK'
  BY <1>3 DEF LookupValidate, Step, Return
<1>4. ASSUME NEW a \in Actors, LookupTouch(a) PROVE CleaningOK'
  BY <1>4 DEF LookupTouch, touchStamp, ReturnHit, Return
<1>5. ASSUME NEW a \in Actors, NEW i \in Ids, AcquireReadLease(a, i) PROVE CleaningOK'
  BY <1>5 DEF AcquireReadLease, Return
<1>6. ASSUME NEW a \in Actors, ReleaseLease(a) PROVE CleaningOK'
  BY <1>6 DEF ReleaseLease
<1>7. ASSUME NEW a \in Actors, NEW i \in Ids, BeginWrite(a, i) PROVE CleaningOK'
  BY <1>7 DEF BeginWrite, Begin, Return
<1>8. ASSUME NEW a \in Actors, WritePartial(a) PROVE CleaningOK'
  BY <1>8 DEF WritePartial, SetPartial, Step
<1>9. ASSUME NEW a \in Actors, Abort(a) PROVE CleaningOK'
  BY <1>9 DEF Abort, Abandon, SetPartial, Return
<1>10. ASSUME NEW a \in Actors, CommitValidate(a) PROVE CleaningOK'
  BY <1>10 DEF CommitValidate, Abandon, SetPartial, Step, Return
<1>11. ASSUME NEW a \in Actors, CommitSync(a) PROVE CleaningOK'
  BY <1>11 DEF CommitSync, Abandon, SetPartial, Step, Return
<1>12. ASSUME NEW a \in Actors, CommitRename(a) PROVE CleaningOK'
  BY <1>12 DEF CommitRename, Abandon, SetPartial, Step, Return
<1>13. ASSUME NEW a \in Actors, CommitStamp(a) PROVE CleaningOK'
  BY <1>13 DEF CommitStamp, touchStamp, Step
<1>14. ASSUME NEW a \in Actors, CommitDowngrade(a) PROVE CleaningOK'
  BY <1>14 DEF CommitDowngrade, Step
<1>15. ASSUME NEW a \in Actors, CommitConvert(a) PROVE CleaningOK'
  BY <1>15 DEF CommitConvert, ReturnHit, Step, Return
<1>16. ASSUME NEW a \in Actors, CommitRelock(a) PROVE CleaningOK'
  BY <1>16 DEF CommitRelock, ReturnHit, Return
<1>17. ASSUME NEW a \in Actors, ScanRoot(a) PROVE CleaningOK'
  BY <1>17 DEF ScanRoot, Begin
<1>18. ASSUME NEW a \in Actors, ScanEntry(a) PROVE CleaningOK'
  <2>1. \A j \in Ids : LruStamp(j) \in Int
    BY FileFacts, CacheAssumption DEF FilesOK, LruStamp, Times, NoStamp
  <2>2. \A j \in Ids : [id |-> j, size |-> art[j].size, stamp |-> LruStamp(j)] \in Candidates
    BY <2>1, FileFacts DEF FilesOK, Candidates
  <2>3. PICK i \in todo[a] :
          /\ todo' = [todo EXCEPT ![a] = @ \ {i}]
          /\ stale' = [stale EXCEPT ![a] = @ \cup {<<b, i>> : b \in {c \in Actors : Old(partial[c][i])}}]
          /\ \/ /\ cand' = [cand EXCEPT ![a] = @ \cup {[id |-> j, size |-> art[j].size, stamp |-> LruStamp(j)]
                                                     : j \in Present \cap {i}}]
                /\ total' = [total EXCEPT ![a] = @ + art[i].size]
             \/ UNCHANGED <<cand, total>>
    BY <1>18 DEF ScanEntry
  <2>4. i \in Ids /\ art[i].size \in Nat
    BY <2>3, FileFacts DEF FilesOK
  <2>5. cand' \in [Actors -> SUBSET Candidates]
    BY <2>2, <2>3, <2>4
  <2>6. stale' \in [Actors -> SUBSET (Actors \X Ids)]
    BY <2>3, <2>4
  <2>7. total' \in [Actors -> Int]
    BY <2>3, <2>4
  <2>8. todo' \in [Actors -> SUBSET Ids] /\ avail' \in [Actors -> Int]
    BY <1>18, <2>3, <2>4 DEF ScanEntry
  <2> QED
    BY <2>5, <2>6, <2>7, <2>8
<1>19. ASSUME NEW a \in Actors, ScanDone(a) PROVE CleaningOK'
  BY <1>19 DEF ScanDone, Step, EndCleanup, Return
<1>20. ASSUME NEW a \in Actors, StaleLock(a) PROVE CleaningOK'
  BY <1>20 DEF StaleLock
<1>21. ASSUME NEW a \in Actors, StaleRemove(a) PROVE CleaningOK'
  BY <1>21 DEF StaleRemove
<1>22. ASSUME NEW a \in Actors, EvictSpace(a) PROVE CleaningOK'
  <2>1. Capacity - ActualTotal \in Int
    BY ActualTotalType, CacheAssumption
  <2>2. PICK n \in Int : n = Capacity - ActualTotal
    BY <2>1
  <2>3. CASE EndCleanup(a, FALSE)
    BY <1>22, <2>3 DEF EvictSpace, EndCleanup, Return
  <2>4. CASE ~EndCleanup(a, FALSE)
    <3>1. avail' \in [Actors -> Int]
      BY <1>22, <2>2, <2>4 DEF EvictSpace
    <3> QED
      BY <1>22, <2>4, <3>1 DEF EvictSpace
  <2> QED
    BY <2>3, <2>4
<1>23. ASSUME NEW a \in Actors, EvictLock(a) PROVE CleaningOK'
  BY <1>23 DEF EvictLock
<1>24. ASSUME NEW a \in Actors, EvictRemove(a) PROVE CleaningOK'
  <2>1. \A v \in cand[a] : v.size \in Nat
    BY DEF Candidates
  <2> QED
    BY <1>24, <2>1 DEF EvictRemove
<1>25. ASSUME NEW a \in Actors, CleanupDone(a) PROVE CleaningOK'
  BY <1>25 DEF CleanupDone, EndCleanup, Return
<1>26. ASSUME Tick PROVE CleaningOK'
  BY <1>26 DEF Tick
<1>27. ASSUME NEW a \in Actors, Crash(a) PROVE CleaningOK'
  BY <1>27 DEF Crash
<1>28. ASSUME PowerLoss PROVE CleaningOK'
  BY <1>28 DEF PowerLoss, AfterPowerLoss
<1>29. ASSUME UNCHANGED vars PROVE CleaningOK'
  BY <1>29 DEF vars
<1> QED
  BY <1>1, <1>2, <1>3, <1>4, <1>5, <1>6, <1>7, <1>8, <1>9, <1>10, <1>11, <1>12, <1>13, <1>14,
     <1>15, <1>16, <1>17, <1>18, <1>19, <1>20, <1>21, <1>22, <1>23, <1>24, <1>25, <1>26, <1>27, <1>28, <1>29
  DEF Next, Reader, Writer, Cleaner

\* Every step keeps the types.
LEMMA TypeStep ==
  ASSUME TypeOK, WorksOnId, [Next]_vars
  PROVE  TypeOK'
BY FilesStep, ControlStep, CleaningStep DEF TypeOK

\* Every step keeps an operation in progress on an identity of the cache.
LEMMA WorksOnIdStep ==
  ASSUME TypeOK, WorksOnId, [Next]_vars
  PROVE  WorksOnId'
<1> USE DEF TypeOK, ControlOK, WorksOnId, Working, ExclusivePCs
<1>1. ASSUME NEW a \in Actors, NEW i \in Ids, Lookup(a, i) PROVE WorksOnId'
  BY <1>1 DEF Lookup, Return, Begin
<1>2. ASSUME NEW a \in Actors, LookupLock(a) PROVE WorksOnId'
  BY <1>2 DEF LookupLock, Step, Return
<1>3. ASSUME NEW a \in Actors, LookupValidate(a) PROVE WorksOnId'
  BY <1>3 DEF LookupValidate, Step, Return
<1>4. ASSUME NEW a \in Actors, LookupTouch(a) PROVE WorksOnId'
  BY <1>4 DEF LookupTouch, touchStamp, ReturnHit, Return
<1>5. ASSUME NEW a \in Actors, NEW i \in Ids, AcquireReadLease(a, i) PROVE WorksOnId'
  BY <1>5 DEF AcquireReadLease, Return
<1>6. ASSUME NEW a \in Actors, ReleaseLease(a) PROVE WorksOnId'
  BY <1>6 DEF ReleaseLease
<1>7. ASSUME NEW a \in Actors, NEW i \in Ids, BeginWrite(a, i) PROVE WorksOnId'
  BY <1>7 DEF BeginWrite, Begin, Return
<1>8. ASSUME NEW a \in Actors, WritePartial(a) PROVE WorksOnId'
  BY <1>8 DEF WritePartial, SetPartial, Step
<1>9. ASSUME NEW a \in Actors, Abort(a) PROVE WorksOnId'
  BY <1>9 DEF Abort, Abandon, SetPartial, Return
<1>10. ASSUME NEW a \in Actors, CommitValidate(a) PROVE WorksOnId'
  BY <1>10 DEF CommitValidate, Abandon, SetPartial, Step, Return
<1>11. ASSUME NEW a \in Actors, CommitSync(a) PROVE WorksOnId'
  BY <1>11 DEF CommitSync, Abandon, SetPartial, Step, Return
<1>12. ASSUME NEW a \in Actors, CommitRename(a) PROVE WorksOnId'
  BY <1>12 DEF CommitRename, Abandon, SetPartial, Step, Return
<1>13. ASSUME NEW a \in Actors, CommitStamp(a) PROVE WorksOnId'
  BY <1>13 DEF CommitStamp, touchStamp, Step
<1>14. ASSUME NEW a \in Actors, CommitDowngrade(a) PROVE WorksOnId'
  BY <1>14 DEF CommitDowngrade, Step
<1>15. ASSUME NEW a \in Actors, CommitConvert(a) PROVE WorksOnId'
  BY <1>15 DEF CommitConvert, ReturnHit, Step, Return
<1>16. ASSUME NEW a \in Actors, CommitRelock(a) PROVE WorksOnId'
  BY <1>16 DEF CommitRelock, ReturnHit, Return
<1>17. ASSUME NEW a \in Actors, ScanRoot(a) PROVE WorksOnId'
  BY <1>17 DEF ScanRoot, Begin
<1>18. ASSUME NEW a \in Actors, ScanEntry(a) PROVE WorksOnId'
  BY <1>18 DEF ScanEntry, Present, LruStamp
<1>19. ASSUME NEW a \in Actors, ScanDone(a) PROVE WorksOnId'
  BY <1>19 DEF ScanDone, Step, EndCleanup, Return
<1>20. ASSUME NEW a \in Actors, StaleLock(a) PROVE WorksOnId'
  <2>1. \A x \in stale[a] : x[2] \in Ids
    BY DEF CleaningOK
  <2> QED
    BY <1>20, <2>1 DEF StaleLock
<1>21. ASSUME NEW a \in Actors, StaleRemove(a) PROVE WorksOnId'
  BY <1>21 DEF StaleRemove
<1>22. ASSUME NEW a \in Actors, EvictSpace(a) PROVE WorksOnId'
  BY <1>22 DEF EvictSpace, EndCleanup, Step, Return
<1>23. ASSUME NEW a \in Actors, EvictLock(a) PROVE WorksOnId'
  <2>1. \A v \in cand[a] : v.id \in Ids
    BY DEF CleaningOK, Candidates
  <2> QED
    BY <1>23, <2>1 DEF EvictLock
<1>24. ASSUME NEW a \in Actors, EvictRemove(a) PROVE WorksOnId'
  BY <1>24 DEF EvictRemove, Unchanged
<1>25. ASSUME NEW a \in Actors, CleanupDone(a) PROVE WorksOnId'
  BY <1>25 DEF CleanupDone, EndCleanup, Return
<1>26. ASSUME Tick PROVE WorksOnId'
  BY <1>26 DEF Tick
<1>27. ASSUME NEW a \in Actors, Crash(a) PROVE WorksOnId'
  BY <1>27 DEF Crash
<1>28. ASSUME PowerLoss PROVE WorksOnId'
  BY <1>28 DEF PowerLoss, AfterPowerLoss
<1>29. ASSUME UNCHANGED vars PROVE WorksOnId'
  BY <1>29 DEF vars
<1> QED
  BY <1>1, <1>2, <1>3, <1>4, <1>5, <1>6, <1>7, <1>8, <1>9, <1>10, <1>11, <1>12, <1>13, <1>14,
     <1>15, <1>16, <1>17, <1>18, <1>19, <1>20, <1>21, <1>22, <1>23, <1>24, <1>25, <1>26, <1>27, <1>28, <1>29
  DEF Next, Reader, Writer, Cleaner

\* No step lets a second holder in beside an exclusive one: every lock is asked for
\* with TryExclusive or TryShared.
LEMMA ExclusionStep ==
  ASSUME TypeOK, WorksOnId, ExclusiveAlone, [Next]_vars
  PROVE  ExclusiveAlone'
<1> USE LeaseFacts, CacheAssumption DEF TypeOK, ControlOK, ExclusiveAlone, ExclusivePCs, HoldsExclusive, HoldsShared,
                       TryExclusive, TryShared, LockHeld
<1>1. ASSUME NEW a \in Actors, NEW i \in Ids, Lookup(a, i) PROVE ExclusiveAlone'
  BY <1>1 DEF Lookup, Return, Begin
<1>2. ASSUME NEW a \in Actors, LookupLock(a) PROVE ExclusiveAlone'
  BY <1>2 DEF LookupLock, Step, Return
<1>3. ASSUME NEW a \in Actors, LookupValidate(a) PROVE ExclusiveAlone'
  BY <1>3 DEF LookupValidate, Step, Return
<1>4. ASSUME NEW a \in Actors, LookupTouch(a) PROVE ExclusiveAlone'
  BY <1>4 DEF LookupTouch, touchStamp, ReturnHit, Return
<1>5. ASSUME NEW a \in Actors, NEW i \in Ids, AcquireReadLease(a, i) PROVE ExclusiveAlone'
  BY <1>5 DEF AcquireReadLease, Return
<1>6. ASSUME NEW a \in Actors, ReleaseLease(a) PROVE ExclusiveAlone'
  BY <1>6 DEF ReleaseLease
<1>7. ASSUME NEW a \in Actors, NEW i \in Ids, BeginWrite(a, i) PROVE ExclusiveAlone'
  BY <1>7 DEF BeginWrite, Begin, Return
<1>8. ASSUME NEW a \in Actors, WritePartial(a) PROVE ExclusiveAlone'
  BY <1>8 DEF WritePartial, SetPartial, Step
<1>9. ASSUME NEW a \in Actors, Abort(a) PROVE ExclusiveAlone'
  BY <1>9 DEF Abort, Abandon, SetPartial, Return
<1>10. ASSUME NEW a \in Actors, CommitValidate(a) PROVE ExclusiveAlone'
  BY <1>10 DEF CommitValidate, Abandon, SetPartial, Step, Return
<1>11. ASSUME NEW a \in Actors, CommitSync(a) PROVE ExclusiveAlone'
  BY <1>11 DEF CommitSync, Abandon, SetPartial, Step, Return
<1>12. ASSUME NEW a \in Actors, CommitRename(a) PROVE ExclusiveAlone'
  BY <1>12 DEF CommitRename, Abandon, SetPartial, Step, Return
<1>13. ASSUME NEW a \in Actors, CommitStamp(a) PROVE ExclusiveAlone'
  BY <1>13 DEF CommitStamp, touchStamp, Step
<1>14. ASSUME NEW a \in Actors, CommitDowngrade(a) PROVE ExclusiveAlone'
  BY <1>14 DEF CommitDowngrade, Step
<1>15. ASSUME NEW a \in Actors, CommitConvert(a) PROVE ExclusiveAlone'
  BY <1>15 DEF CommitConvert, ReturnHit, Step, Return
<1>16. ASSUME NEW a \in Actors, CommitRelock(a) PROVE ExclusiveAlone'
  BY <1>16 DEF CommitRelock, ReturnHit, Return
<1>17. ASSUME NEW a \in Actors, ScanRoot(a) PROVE ExclusiveAlone'
  BY <1>17 DEF ScanRoot, Begin
<1>18. ASSUME NEW a \in Actors, ScanEntry(a) PROVE ExclusiveAlone'
  BY <1>18 DEF ScanEntry, Present, LruStamp
<1>19. ASSUME NEW a \in Actors, ScanDone(a) PROVE ExclusiveAlone'
  BY <1>19 DEF ScanDone, Step, EndCleanup, Return
<1>20. ASSUME NEW a \in Actors, StaleLock(a) PROVE ExclusiveAlone'
  BY <1>20 DEF StaleLock
<1>21. ASSUME NEW a \in Actors, StaleRemove(a) PROVE ExclusiveAlone'
  BY <1>21 DEF StaleRemove
<1>22. ASSUME NEW a \in Actors, EvictSpace(a) PROVE ExclusiveAlone'
  BY <1>22 DEF EvictSpace, EndCleanup, Step, Return
<1>23. ASSUME NEW a \in Actors, EvictLock(a) PROVE ExclusiveAlone'
  BY <1>23 DEF EvictLock
<1>24. ASSUME NEW a \in Actors, EvictRemove(a) PROVE ExclusiveAlone'
  BY <1>24 DEF EvictRemove, Unchanged
<1>25. ASSUME NEW a \in Actors, CleanupDone(a) PROVE ExclusiveAlone'
  BY <1>25 DEF CleanupDone, EndCleanup, Return
<1>26. ASSUME Tick PROVE ExclusiveAlone'
  BY <1>26 DEF Tick
<1>27. ASSUME NEW a \in Actors, Crash(a) PROVE ExclusiveAlone'
  BY <1>27 DEF Crash
<1>28. ASSUME PowerLoss PROVE ExclusiveAlone'
  BY <1>28 DEF PowerLoss, AfterPowerLoss
<1>29. ASSUME UNCHANGED vars PROVE ExclusiveAlone'
  BY <1>29 DEF vars
<1> QED
  BY <1>1, <1>2, <1>3, <1>4, <1>5, <1>6, <1>7, <1>8, <1>9, <1>10, <1>11, <1>12, <1>13, <1>14,
     <1>15, <1>16, <1>17, <1>18, <1>19, <1>20, <1>21, <1>22, <1>23, <1>24, <1>25, <1>26, <1>27, <1>28, <1>29
  DEF Next, Reader, Writer, Cleaner

\* Every step, a power failure included, keeps what is published durable.
LEMMA DurableStep ==
  ASSUME TypeOK, WorksOnId, PublishedIsDurable, CommitProgress, [Next]_vars
  PROVE  PublishedIsDurable'
<1> USE FileFacts DEF TypeOK, FilesOK, files, PublishedIsDurable
<1>1. ASSUME NEW a \in Actors, NEW i \in Ids, Lookup(a, i) PROVE PublishedIsDurable'
  BY <1>1 DEF Lookup, Return, Begin
<1>2. ASSUME NEW a \in Actors, LookupLock(a) PROVE PublishedIsDurable'
  BY <1>2 DEF LookupLock, Step, Return
<1>3. ASSUME NEW a \in Actors, LookupValidate(a) PROVE PublishedIsDurable'
  BY <1>3 DEF LookupValidate, Step, Return
<1>4. ASSUME NEW a \in Actors, LookupTouch(a) PROVE PublishedIsDurable'
  BY <1>4 DEF LookupTouch, touchStamp, ReturnHit, Return
<1>5. ASSUME NEW a \in Actors, NEW i \in Ids, AcquireReadLease(a, i) PROVE PublishedIsDurable'
  BY <1>5 DEF AcquireReadLease, Return
<1>6. ASSUME NEW a \in Actors, ReleaseLease(a) PROVE PublishedIsDurable'
  BY <1>6 DEF ReleaseLease
<1>7. ASSUME NEW a \in Actors, NEW i \in Ids, BeginWrite(a, i) PROVE PublishedIsDurable'
  BY <1>7 DEF BeginWrite, Begin, Return
<1>8. ASSUME NEW a \in Actors, WritePartial(a) PROVE PublishedIsDurable'
  BY <1>8 DEF WritePartial, SetPartial, Step
<1>9. ASSUME NEW a \in Actors, Abort(a) PROVE PublishedIsDurable'
  BY <1>9 DEF Abort, Abandon, SetPartial, Return
<1>10. ASSUME NEW a \in Actors, CommitValidate(a) PROVE PublishedIsDurable'
  BY <1>10 DEF CommitValidate, Abandon, SetPartial, Step, Return
<1>11. ASSUME NEW a \in Actors, CommitSync(a) PROVE PublishedIsDurable'
  BY <1>11 DEF CommitSync, Abandon, SetPartial, Step, Return
<1>12. ASSUME NEW a \in Actors, CommitRename(a) PROVE PublishedIsDurable'
  <2>1. CASE Abandon(a)
    BY <2>1 DEF Abandon
  <2>2. CASE ~Abandon(a)
    BY <1>12, <2>2, RenameEffect
  <2> QED
    BY <2>1, <2>2
<1>13. ASSUME NEW a \in Actors, CommitStamp(a) PROVE PublishedIsDurable'
  BY <1>13 DEF CommitStamp, touchStamp, Step
<1>14. ASSUME NEW a \in Actors, CommitDowngrade(a) PROVE PublishedIsDurable'
  BY <1>14 DEF CommitDowngrade, Step
<1>15. ASSUME NEW a \in Actors, CommitConvert(a) PROVE PublishedIsDurable'
  BY <1>15 DEF CommitConvert, ReturnHit, Step, Return
<1>16. ASSUME NEW a \in Actors, CommitRelock(a) PROVE PublishedIsDurable'
  BY <1>16 DEF CommitRelock, ReturnHit, Return
<1>17. ASSUME NEW a \in Actors, ScanRoot(a) PROVE PublishedIsDurable'
  BY <1>17 DEF ScanRoot, Begin
<1>18. ASSUME NEW a \in Actors, ScanEntry(a) PROVE PublishedIsDurable'
  BY <1>18 DEF ScanEntry, Present, LruStamp
<1>19. ASSUME NEW a \in Actors, ScanDone(a) PROVE PublishedIsDurable'
  BY <1>19 DEF ScanDone, Step, EndCleanup, Return
<1>20. ASSUME NEW a \in Actors, StaleLock(a) PROVE PublishedIsDurable'
  BY <1>20 DEF StaleLock
<1>21. ASSUME NEW a \in Actors, StaleRemove(a) PROVE PublishedIsDurable'
  BY <1>21 DEF StaleRemove
<1>22. ASSUME NEW a \in Actors, EvictSpace(a) PROVE PublishedIsDurable'
  BY <1>22 DEF EvictSpace, EndCleanup, Step, Return
<1>23. ASSUME NEW a \in Actors, EvictLock(a) PROVE PublishedIsDurable'
  BY <1>23 DEF EvictLock
<1>24. ASSUME NEW a \in Actors, EvictRemove(a) PROVE PublishedIsDurable'
  BY <1>24, EvictEffect
<1>25. ASSUME NEW a \in Actors, CleanupDone(a) PROVE PublishedIsDurable'
  BY <1>25 DEF CleanupDone, EndCleanup, Return
<1>26. ASSUME Tick PROVE PublishedIsDurable'
  BY <1>26 DEF Tick
<1>27. ASSUME NEW a \in Actors, Crash(a) PROVE PublishedIsDurable'
  BY <1>27 DEF Crash
<1>28. ASSUME PowerLoss PROVE PublishedIsDurable'
  BY <1>28 DEF PowerLoss, AfterPowerLoss
<1>29. ASSUME UNCHANGED vars PROVE PublishedIsDurable'
  BY <1>29 DEF vars
<1> QED
  BY <1>1, <1>2, <1>3, <1>4, <1>5, <1>6, <1>7, <1>8, <1>9, <1>10, <1>11, <1>12, <1>13, <1>14,
     <1>15, <1>16, <1>17, <1>18, <1>19, <1>20, <1>21, <1>22, <1>23, <1>24, <1>25, <1>26, <1>27, <1>28, <1>29
  DEF Next, Reader, Writer, Cleaner

\* Every step, of whatever actor, keeps what a commit in progress has established:
\* the others would need the lock it holds.
LEMMA CommitStep ==
  ASSUME TypeOK, WorksOnId, ExclusiveAlone, PublishedIsDurable, CommitProgress, [Next]_vars
  PROVE  CommitProgress'
<1> USE DEF TypeOK, FilesOK, ControlOK, files, CommitProgress
<1>1. ASSUME NEW a \in Actors, NEW i \in Ids, Lookup(a, i) PROVE CommitProgress'
  <2>1. /\ pc'[a] \in {"idle", "lookLock"}
        /\ \A b \in Actors \ {a} : pc'[b] = pc[b] /\ arg'[b] = arg[b]
    BY <1>1 DEF Lookup, Return, Begin
  <2> QED
    BY <1>1, <2>1 DEF Lookup
<1>2. ASSUME NEW a \in Actors, LookupLock(a) PROVE CommitProgress'
  BY <1>2 DEF LookupLock, Step, Return
<1>3. ASSUME NEW a \in Actors, LookupValidate(a) PROVE CommitProgress'
  BY <1>3 DEF LookupValidate, Step, Return
<1>4. ASSUME NEW a \in Actors, LookupTouch(a) PROVE CommitProgress'
  BY <1>4 DEF LookupTouch, touchStamp, ReturnHit, Return
<1>5. ASSUME NEW a \in Actors, NEW i \in Ids, AcquireReadLease(a, i) PROVE CommitProgress'
  BY <1>5 DEF AcquireReadLease, Return
<1>6. ASSUME NEW a \in Actors, ReleaseLease(a) PROVE CommitProgress'
  BY <1>6 DEF ReleaseLease
<1>7. ASSUME NEW a \in Actors, NEW i \in Ids, BeginWrite(a, i) PROVE CommitProgress'
  BY <1>7 DEF BeginWrite, Begin, Return
<1>8. ASSUME NEW a \in Actors, WritePartial(a) PROVE CommitProgress'
  <2>1. arg[a] \in Ids
    BY <1>8 DEF WritePartial, WorksOnId, Working, ExclusivePCs
  <2>2. PICK k \in {"valid", "torn"}, s \in Sizes :
          partial' = [partial EXCEPT ![a][arg[a]] =
                        [kind |-> k, size |-> s, mtime |-> now, synced |-> FALSE]]
    BY <1>8 DEF WritePartial, SetPartial
  <2>3. partial'[a][arg[a]].kind # "absent" /\ \A b \in Actors \ {a} : partial'[b] = partial[b]
    BY <2>1, <2>2
  <2> QED
    BY <1>8, <2>1, <2>3 DEF WritePartial, Step
<1>9. ASSUME NEW a \in Actors, Abort(a) PROVE CommitProgress'
  BY <1>9 DEF Abort, Abandon, SetPartial, Return
<1>10. ASSUME NEW a \in Actors, CommitValidate(a) PROVE CommitProgress'
  BY <1>10 DEF CommitValidate, Abandon, SetPartial, Step, Return
<1>11. ASSUME NEW a \in Actors, CommitSync(a) PROVE CommitProgress'
  <2>1. arg[a] \in Ids
    BY <1>11 DEF CommitSync, WorksOnId, Working, ExclusivePCs
  <2>2. CASE Abandon(a)
    BY <2>1, <2>2 DEF Abandon, SetPartial, Return
  <2>3. CASE ~Abandon(a)
    <3>1. partial' = [partial EXCEPT ![a][arg[a]] = [partial[a][arg[a]] EXCEPT !.synced = TRUE]]
      BY <1>11, <2>3 DEF CommitSync, SetPartial
    <3>2. partial[a][arg[a]] \in Files
      BY <2>1
    <3>3. partial'[a][arg[a]].synced /\ partial'[a][arg[a]].kind = partial[a][arg[a]].kind
      BY <2>1, <3>1, <3>2 DEF Files
    <3>4. \A b \in Actors \ {a} : partial'[b] = partial[b]
      BY <2>1, <3>1
    <3> QED
      BY <1>11, <2>1, <2>3, <3>3, <3>4 DEF CommitSync, Step
  <2> QED
    BY <2>2, <2>3
<1>12. ASSUME NEW a \in Actors, CommitRename(a) PROVE CommitProgress'
  <2>1. CASE Abandon(a)
    BY <1>12, <2>1, RenameEffect DEF Abandon, SetPartial, Return
  <2>2. CASE ~Abandon(a)
    <3>1. /\ pc'[a] = "stamp" /\ art'[arg'[a]].kind = "valid"
          /\ \A b \in Actors \ {a} : pc'[b] = pc[b] /\ arg'[b] = arg[b] /\ partial'[b] = partial[b]
      BY <1>12, <2>2, RenameEffect
    <3>2. \A j \in Ids : art'[j] = art[j] \/ art'[j].kind = "valid"
      BY <1>12, <2>2, RenameEffect
    <3>3. \A b \in Actors : pc[b] \in {"stamp", "downgrade", "convert", "relock"} => arg[b] \in Ids
      BY DEF WorksOnId, Working, ExclusivePCs
    <3> QED
      BY <3>1, <3>2, <3>3
  <2> QED
    BY <2>1, <2>2
<1>13. ASSUME NEW a \in Actors, CommitStamp(a) PROVE CommitProgress'
  BY <1>13 DEF CommitStamp, touchStamp, Step
<1>14. ASSUME NEW a \in Actors, CommitDowngrade(a) PROVE CommitProgress'
  BY <1>14 DEF CommitDowngrade, Step
<1>15. ASSUME NEW a \in Actors, CommitConvert(a) PROVE CommitProgress'
  <2>1. /\ pc'[a] \in {"idle", "relock"} /\ pc[a] = "convert"
        /\ pc'[a] = "relock" => arg'[a] = arg[a]
        /\ \A b \in Actors \ {a} : pc'[b] = pc[b] /\ arg'[b] = arg[b]
    BY <1>15 DEF CommitConvert, ReturnHit, Step, Return
  <2> QED
    BY <1>15, <2>1 DEF CommitConvert
<1>16. ASSUME NEW a \in Actors, CommitRelock(a) PROVE CommitProgress'
  BY <1>16 DEF CommitRelock, ReturnHit, Return
<1>17. ASSUME NEW a \in Actors, ScanRoot(a) PROVE CommitProgress'
  BY <1>17 DEF ScanRoot, Begin
<1>18. ASSUME NEW a \in Actors, ScanEntry(a) PROVE CommitProgress'
  BY <1>18 DEF ScanEntry, Present, LruStamp
<1>19. ASSUME NEW a \in Actors, ScanDone(a) PROVE CommitProgress'
  BY <1>19 DEF ScanDone, Step, EndCleanup, Return
<1>20. ASSUME NEW a \in Actors, StaleLock(a) PROVE CommitProgress'
  BY <1>20 DEF StaleLock
<1>21. ASSUME NEW a \in Actors, StaleRemove(a) PROVE CommitProgress'
  <2>1. PICK x \in stale[a] :
          /\ x[2] = arg[a]
          /\ partial' = [partial EXCEPT ![x[1]][x[2]] = IF Old(@) THEN Absent ELSE @]
    BY <1>21 DEF StaleRemove
  <2>2. x[1] \in Actors /\ x[2] \in Ids
    BY <2>1 DEF CleaningOK
  <2>3. \A b \in Actors, j \in Ids : j # arg[a] => partial'[b][j] = partial[b][j]
    BY <2>1, <2>2
  <2>4. /\ pc[a] = "staleRemove"
        /\ pc'[a] = "stale"
        /\ \A b \in Actors \ {a} : pc'[b] = pc[b] /\ arg'[b] = arg[b]
    BY <1>21 DEF StaleRemove
  <2>5. \A b \in Actors \ {a} : pc[b] \in ExclusivePCs => arg[b] \in Ids /\ arg[b] # arg[a]
    BY <2>1, <2>2, <2>4 DEF ExclusiveAlone, HoldsExclusive, ExclusivePCs, WorksOnId, Working
  <2>6. art' = art
    BY <1>21 DEF StaleRemove
  <2>7. \A b \in Actors \ {a} :
          pc[b] \in {"written", "sync", "rename"} => partial'[b][arg'[b]] = partial[b][arg[b]]
    BY <2>3, <2>4, <2>5 DEF ExclusivePCs
  <2> QED
    BY <2>4, <2>6, <2>7
<1>22. ASSUME NEW a \in Actors, EvictSpace(a) PROVE CommitProgress'
  BY <1>22 DEF EvictSpace, EndCleanup, Step, Return
<1>23. ASSUME NEW a \in Actors, EvictLock(a) PROVE CommitProgress'
  BY <1>23 DEF EvictLock
<1>24. ASSUME NEW a \in Actors, EvictRemove(a) PROVE CommitProgress'
  <2>1. \A b \in Actors \ {a} : pc[b] \in ExclusivePCs => arg[b] # arg[a]
    BY <1>24, EvictEffect DEF ExclusiveAlone, HoldsExclusive, ExclusivePCs
  <2>2. \A b \in Actors : pc[b] \in {"stamp", "downgrade", "convert", "relock"} => arg[b] \in Ids
    BY DEF WorksOnId, Working, ExclusivePCs
  <2>3. \A j \in Ids : art'[j] = art[j] \/ (j = arg[a] /\ art'[j].kind = "absent")
    BY <1>24, EvictEffect, FileFacts
  <2>4. /\ pc'[a] = "evict"
        /\ \A b \in Actors \ {a} : pc'[b] = pc[b] /\ arg'[b] = arg[b]
        /\ partial' = partial
    BY <1>24, EvictEffect
  <2>5. \A b \in Actors \ {a} :
          pc[b] \in {"stamp", "downgrade"} => art'[arg'[b]] = art[arg[b]]
    BY <2>1, <2>2, <2>3, <2>4 DEF ExclusivePCs
  <2>6. \A b \in Actors \ {a} :
          pc[b] \in {"convert", "relock"} => art'[arg'[b]].kind \in {"valid", "absent"}
    BY <2>2, <2>3, <2>4
  <2> QED
    BY <2>4, <2>5, <2>6
<1>25. ASSUME NEW a \in Actors, CleanupDone(a) PROVE CommitProgress'
  BY <1>25 DEF CleanupDone, EndCleanup, Return
<1>26. ASSUME Tick PROVE CommitProgress'
  BY <1>26 DEF Tick
<1>27. ASSUME NEW a \in Actors, Crash(a) PROVE CommitProgress'
  BY <1>27 DEF Crash
<1>28. ASSUME PowerLoss PROVE CommitProgress'
  BY <1>28 DEF PowerLoss, AfterPowerLoss
<1>29. ASSUME UNCHANGED vars PROVE CommitProgress'
  BY <1>29 DEF vars
<1> QED
  BY <1>1, <1>2, <1>3, <1>4, <1>5, <1>6, <1>7, <1>8, <1>9, <1>10, <1>11, <1>12, <1>13, <1>14,
     <1>15, <1>16, <1>17, <1>18, <1>19, <1>20, <1>21, <1>22, <1>23, <1>24, <1>25, <1>26, <1>27, <1>28, <1>29
  DEF Next, Reader, Writer, Cleaner

\* Every step keeps the file valid that a lookup has validated under its lease.
LEMMA LookupStep ==
  ASSUME TypeOK, WorksOnId, ExclusiveAlone, CommitProgress, LookupProgress, [Next]_vars
  PROVE  LookupProgress'
<1> USE DEF TypeOK, FilesOK, ControlOK, files, LookupProgress
<1>1. ASSUME NEW a \in Actors, NEW i \in Ids, Lookup(a, i) PROVE LookupProgress'
  BY <1>1 DEF Lookup, Return, Begin
<1>2. ASSUME NEW a \in Actors, LookupLock(a) PROVE LookupProgress'
  BY <1>2 DEF LookupLock, Step, Return
<1>3. ASSUME NEW a \in Actors, LookupValidate(a) PROVE LookupProgress'
  BY <1>3 DEF LookupValidate, Step, Return
<1>4. ASSUME NEW a \in Actors, LookupTouch(a) PROVE LookupProgress'
  BY <1>4 DEF LookupTouch, touchStamp, ReturnHit, Return
<1>5. ASSUME NEW a \in Actors, NEW i \in Ids, AcquireReadLease(a, i) PROVE LookupProgress'
  BY <1>5 DEF AcquireReadLease, Return
<1>6. ASSUME NEW a \in Actors, ReleaseLease(a) PROVE LookupProgress'
  BY <1>6 DEF ReleaseLease
<1>7. ASSUME NEW a \in Actors, NEW i \in Ids, BeginWrite(a, i) PROVE LookupProgress'
  BY <1>7 DEF BeginWrite, Begin, Return
<1>8. ASSUME NEW a \in Actors, WritePartial(a) PROVE LookupProgress'
  BY <1>8 DEF WritePartial, SetPartial, Step
<1>9. ASSUME NEW a \in Actors, Abort(a) PROVE LookupProgress'
  BY <1>9 DEF Abort, Abandon, SetPartial, Return
<1>10. ASSUME NEW a \in Actors, CommitValidate(a) PROVE LookupProgress'
  BY <1>10 DEF CommitValidate, Abandon, SetPartial, Step, Return
<1>11. ASSUME NEW a \in Actors, CommitSync(a) PROVE LookupProgress'
  BY <1>11 DEF CommitSync, Abandon, SetPartial, Step, Return
<1>12. ASSUME NEW a \in Actors, CommitRename(a) PROVE LookupProgress'
  <2>1. CASE Abandon(a)
    BY <1>12, <2>1 DEF Abandon, Return
  <2>2. CASE ~Abandon(a)
    BY <1>12, <2>2, RenameEffect DEF WorksOnId, Working
  <2> QED
    BY <2>1, <2>2
<1>13. ASSUME NEW a \in Actors, CommitStamp(a) PROVE LookupProgress'
  BY <1>13 DEF CommitStamp, touchStamp, Step
<1>14. ASSUME NEW a \in Actors, CommitDowngrade(a) PROVE LookupProgress'
  BY <1>14 DEF CommitDowngrade, Step
<1>15. ASSUME NEW a \in Actors, CommitConvert(a) PROVE LookupProgress'
  BY <1>15 DEF CommitConvert, ReturnHit, Step, Return
<1>16. ASSUME NEW a \in Actors, CommitRelock(a) PROVE LookupProgress'
  BY <1>16 DEF CommitRelock, ReturnHit, Return
<1>17. ASSUME NEW a \in Actors, ScanRoot(a) PROVE LookupProgress'
  BY <1>17 DEF ScanRoot, Begin
<1>18. ASSUME NEW a \in Actors, ScanEntry(a) PROVE LookupProgress'
  BY <1>18 DEF ScanEntry, Present, LruStamp
<1>19. ASSUME NEW a \in Actors, ScanDone(a) PROVE LookupProgress'
  BY <1>19 DEF ScanDone, Step, EndCleanup, Return
<1>20. ASSUME NEW a \in Actors, StaleLock(a) PROVE LookupProgress'
  BY <1>20 DEF StaleLock
<1>21. ASSUME NEW a \in Actors, StaleRemove(a) PROVE LookupProgress'
  BY <1>21 DEF StaleRemove
<1>22. ASSUME NEW a \in Actors, EvictSpace(a) PROVE LookupProgress'
  BY <1>22 DEF EvictSpace, EndCleanup, Step, Return
<1>23. ASSUME NEW a \in Actors, EvictLock(a) PROVE LookupProgress'
  BY <1>23 DEF EvictLock
<1>24. ASSUME NEW a \in Actors, EvictRemove(a) PROVE LookupProgress'
  <2>1. \A b \in Actors : pc[b] = "lookTouch" => arg[b] # arg[a] /\ arg[b] \in Ids
    BY <1>24, EvictEffect DEF ExclusiveAlone, HoldsExclusive, HoldsShared, ExclusivePCs, WorksOnId, Working
  <2> QED
    BY <1>24, <2>1, EvictEffect, SMTT(20)
<1>25. ASSUME NEW a \in Actors, CleanupDone(a) PROVE LookupProgress'
  BY <1>25 DEF CleanupDone, EndCleanup, Return
<1>26. ASSUME Tick PROVE LookupProgress'
  BY <1>26 DEF Tick
<1>27. ASSUME NEW a \in Actors, Crash(a) PROVE LookupProgress'
  BY <1>27 DEF Crash
<1>28. ASSUME PowerLoss PROVE LookupProgress'
  BY <1>28 DEF PowerLoss, AfterPowerLoss
<1>29. ASSUME UNCHANGED vars PROVE LookupProgress'
  BY <1>29 DEF vars
<1> QED
  BY <1>1, <1>2, <1>3, <1>4, <1>5, <1>6, <1>7, <1>8, <1>9, <1>10, <1>11, <1>12, <1>13, <1>14,
     <1>15, <1>16, <1>17, <1>18, <1>19, <1>20, <1>21, <1>22, <1>23, <1>24, <1>25, <1>26, <1>27, <1>28, <1>29
  DEF Next, Reader, Writer, Cleaner

\* Every step keeps the file valid that a Hit names.
LEMMA LeaseStep ==
  ASSUME TypeOK, WorksOnId, ExclusiveAlone, CommitProgress, LookupProgress, LeaseProtectsHit, [Next]_vars
  PROVE  LeaseProtectsHit'
<1> USE FileFacts, LeaseFacts DEF TypeOK, FilesOK, ControlOK, files, LeaseProtectsHit
<1>1. ASSUME NEW a \in Actors, NEW i \in Ids, Lookup(a, i) PROVE LeaseProtectsHit'
  BY <1>1 DEF Lookup, Return, Begin
<1>2. ASSUME NEW a \in Actors, LookupLock(a) PROVE LeaseProtectsHit'
  BY <1>2 DEF LookupLock, Step, Return
<1>3. ASSUME NEW a \in Actors, LookupValidate(a) PROVE LeaseProtectsHit'
  BY <1>3 DEF LookupValidate, Step, Return
<1>4. ASSUME NEW a \in Actors, LookupTouch(a) PROVE LeaseProtectsHit'
  <2>1. /\ art' = art
        /\ \A b \in Actors \ {a} : lease'[b] = lease[b]
        /\ lease'[a].via \in {"lookup", "relock"} => art[lease'[a].id].kind = "valid"
    BY <1>4 DEF LookupTouch, touchStamp, ReturnHit, Return, LookupProgress, CommitProgress
  <2> QED
    BY <2>1
<1>5. ASSUME NEW a \in Actors, NEW i \in Ids, AcquireReadLease(a, i) PROVE LeaseProtectsHit'
  <2>1. /\ art' = art
        /\ \A b \in Actors \ {a} : lease'[b] = lease[b]
        /\ lease'[a].via \in {"lookup", "relock"} => art[lease'[a].id].kind = "valid"
    BY <1>5 DEF AcquireReadLease, Return, LookupProgress, CommitProgress
  <2> QED
    BY <2>1
<1>6. ASSUME NEW a \in Actors, ReleaseLease(a) PROVE LeaseProtectsHit'
  BY <1>6 DEF ReleaseLease
<1>7. ASSUME NEW a \in Actors, NEW i \in Ids, BeginWrite(a, i) PROVE LeaseProtectsHit'
  BY <1>7 DEF BeginWrite, Begin, Return
<1>8. ASSUME NEW a \in Actors, WritePartial(a) PROVE LeaseProtectsHit'
  BY <1>8 DEF WritePartial, SetPartial, Step
<1>9. ASSUME NEW a \in Actors, Abort(a) PROVE LeaseProtectsHit'
  BY <1>9 DEF Abort, Abandon, SetPartial, Return
<1>10. ASSUME NEW a \in Actors, CommitValidate(a) PROVE LeaseProtectsHit'
  BY <1>10 DEF CommitValidate, Abandon, SetPartial, Step, Return
<1>11. ASSUME NEW a \in Actors, CommitSync(a) PROVE LeaseProtectsHit'
  BY <1>11 DEF CommitSync, Abandon, SetPartial, Step, Return
<1>12. ASSUME NEW a \in Actors, CommitRename(a) PROVE LeaseProtectsHit'
  <2>1. CASE Abandon(a)
    BY <1>12, <2>1 DEF Abandon, Return
  <2>2. CASE ~Abandon(a)
    <3>1. \A b \in Actors : lease[b].via # "none" => lease[b].id \in Ids
      BY DEF Leases, NoLease
    <3>2. \A j \in Ids : art'[j] = art[j] \/ art'[j].kind = "valid"
      BY <1>12, <2>2, RenameEffect
    <3>3. lease' = lease
      BY <1>12, RenameEffect
    <3> QED
      BY <3>1, <3>2, <3>3
  <2> QED
    BY <2>1, <2>2
<1>13. ASSUME NEW a \in Actors, CommitStamp(a) PROVE LeaseProtectsHit'
  BY <1>13 DEF CommitStamp, touchStamp, Step
<1>14. ASSUME NEW a \in Actors, CommitDowngrade(a) PROVE LeaseProtectsHit'
  BY <1>14 DEF CommitDowngrade, Step
<1>15. ASSUME NEW a \in Actors, CommitConvert(a) PROVE LeaseProtectsHit'
  <2>1. /\ art' = art
        /\ \A b \in Actors \ {a} : lease'[b] = lease[b]
        /\ lease'[a].via \in {"lookup", "relock"} => art[lease'[a].id].kind = "valid"
    BY <1>15 DEF CommitConvert, ReturnHit, Step, Return, LookupProgress, CommitProgress
  <2> QED
    BY <2>1
<1>16. ASSUME NEW a \in Actors, CommitRelock(a) PROVE LeaseProtectsHit'
  <2>1. /\ art' = art
        /\ \A b \in Actors \ {a} : lease'[b] = lease[b]
        /\ lease'[a].via \in {"lookup", "relock"} => art[lease'[a].id].kind = "valid"
    BY <1>16 DEF CommitRelock, ReturnHit, Return, LookupProgress, CommitProgress
  <2> QED
    BY <2>1
<1>17. ASSUME NEW a \in Actors, ScanRoot(a) PROVE LeaseProtectsHit'
  BY <1>17 DEF ScanRoot, Begin
<1>18. ASSUME NEW a \in Actors, ScanEntry(a) PROVE LeaseProtectsHit'
  BY <1>18 DEF ScanEntry, Present, LruStamp
<1>19. ASSUME NEW a \in Actors, ScanDone(a) PROVE LeaseProtectsHit'
  BY <1>19 DEF ScanDone, Step, EndCleanup, Return
<1>20. ASSUME NEW a \in Actors, StaleLock(a) PROVE LeaseProtectsHit'
  BY <1>20 DEF StaleLock
<1>21. ASSUME NEW a \in Actors, StaleRemove(a) PROVE LeaseProtectsHit'
  BY <1>21 DEF StaleRemove
<1>22. ASSUME NEW a \in Actors, EvictSpace(a) PROVE LeaseProtectsHit'
  BY <1>22 DEF EvictSpace, EndCleanup, Step, Return
<1>23. ASSUME NEW a \in Actors, EvictLock(a) PROVE LeaseProtectsHit'
  BY <1>23 DEF EvictLock
<1>24. ASSUME NEW a \in Actors, EvictRemove(a) PROVE LeaseProtectsHit'
  <2>1. \A b \in Actors : lease[b].via # "none" => lease[b].id \in Ids
    BY DEF Leases, NoLease
  <2>2. \A b \in Actors : lease[b].id # arg[a]
    BY <1>24, EvictEffect DEF ExclusiveAlone, HoldsExclusive, HoldsShared, ExclusivePCs
  <2> QED
    <3>1. \A b \in Actors : lease[b].via # "none" => art'[lease[b].id] = art[lease[b].id]
      BY <1>24, <2>1, <2>2, EvictEffect
    <3>2. lease' = lease
      BY <1>24, EvictEffect
    <3> QED
      BY <3>1, <3>2
<1>25. ASSUME NEW a \in Actors, CleanupDone(a) PROVE LeaseProtectsHit'
  BY <1>25 DEF CleanupDone, EndCleanup, Return
<1>26. ASSUME Tick PROVE LeaseProtectsHit'
  BY <1>26 DEF Tick
<1>27. ASSUME NEW a \in Actors, Crash(a) PROVE LeaseProtectsHit'
  BY <1>27 DEF Crash
<1>28. ASSUME PowerLoss PROVE LeaseProtectsHit'
  BY <1>28 DEF PowerLoss, AfterPowerLoss
<1>29. ASSUME UNCHANGED vars PROVE LeaseProtectsHit'
  BY <1>29 DEF vars
<1> QED
  BY <1>1, <1>2, <1>3, <1>4, <1>5, <1>6, <1>7, <1>8, <1>9, <1>10, <1>11, <1>12, <1>13, <1>14,
     <1>15, <1>16, <1>17, <1>18, <1>19, <1>20, <1>21, <1>22, <1>23, <1>24, <1>25, <1>26, <1>27, <1>28, <1>29
  DEF Next, Reader, Writer, Cleaner

\* A cache whose directory is empty or holds foreign files satisfies the invariant.
LEMMA CacheInvInit ==
  Init => CacheInv
<1> SUFFICES ASSUME Init PROVE CacheInv
  OBVIOUS
<1>1. \A i \in Ids : art[i] \in Files /\ art[i].kind \in {"absent", "foreign"}
  <2>1. Foreign \in Files /\ Foreign.kind = "foreign"
    BY CacheAssumption DEF Foreign, Files, Kinds, Times
  <2> QED
    BY <2>1, FileFacts DEF Init
<1>2. FilesOK
  BY <1>1, FileFacts, CacheAssumption DEF Init, FilesOK, Times
<1>3. ControlOK /\ CleaningOK
  BY LeaseFacts DEF Init, ControlOK, CleaningOK, PCs, Replies
<1>4. WorksOnId /\ CommitProgress /\ LookupProgress
  BY DEF Init, WorksOnId, CommitProgress, LookupProgress, Working, ExclusivePCs
<1>5. ExclusiveAlone
  BY DEF Init, ExclusiveAlone, HoldsExclusive, ExclusivePCs
<1>6. PublishedIsDurable
  BY <1>1 DEF Init, PublishedIsDurable
<1>7. LeaseProtectsHit
  BY LeaseFacts DEF Init, LeaseProtectsHit
<1> QED
  BY <1>2, <1>3, <1>4, <1>5, <1>6, <1>7 DEF CacheInv, TypeOK

\* The invariant of the cache is inductive.
LEMMA CacheInvStep ==
  ASSUME CacheInv, [Next]_vars
  PROVE  CacheInv'
BY TypeStep, WorksOnIdStep, ExclusionStep, DurableStep, CommitStep, LookupStep, LeaseStep
DEF CacheInv

\* CacheInv holds in every reachable state, for any number of processes, identities,
\* sizes and budgets.
THEOREM CacheInvariance == Spec => []CacheInv
<1>1. CacheInv /\ [Next]_vars => CacheInv'
  BY CacheInvStep
<1> QED
  BY CacheInvInit, <1>1, PTL DEF Spec

\* A Hit of lookup() stays valid, no torn file is published and no live partial is
\* deleted, whatever processes run, fail or lose power.
THEOREM CacheSafety == Spec => [](LeaseProtectsHit /\ FilesStayWhole)
<1>1. CacheInv => LeaseProtectsHit
  BY DEF CacheInv
<1>2. CacheInv => NeverTorn
  BY DEF CacheInv, PublishedIsDurable, NeverTorn
<1>3. CacheInv => LivePartialKept
  BY DEF CacheInv, CommitProgress, LivePartialKept
<1> QED
  BY CacheInvariance, <1>1, <1>2, <1>3, PTL DEF FilesStayWhole

\* A step that changes an artifact is the step of an exclusive holder, or a power
\* failure that ends every lease.
LEMMA PinStep ==
  ASSUME CacheInv, [Next]_vars
  PROVE  Pinned
<1>1. ASSUME NEW a \in Actors, NEW i \in Ids, Lookup(a, i) PROVE Pinned
  BY <1>1 DEF Lookup, files, Pinned
<1>2. ASSUME NEW a \in Actors, LookupLock(a) PROVE Pinned
  BY <1>2 DEF LookupLock, files, Pinned
<1>3. ASSUME NEW a \in Actors, LookupValidate(a) PROVE Pinned
  BY <1>3 DEF LookupValidate, files, Pinned
<1>4. ASSUME NEW a \in Actors, LookupTouch(a) PROVE Pinned
  BY <1>4 DEF LookupTouch, files, Pinned
<1>5. ASSUME NEW a \in Actors, NEW i \in Ids, AcquireReadLease(a, i) PROVE Pinned
  BY <1>5 DEF AcquireReadLease, files, Pinned
<1>6. ASSUME NEW a \in Actors, ReleaseLease(a) PROVE Pinned
  BY <1>6 DEF ReleaseLease, files, Pinned
<1>7. ASSUME NEW a \in Actors, NEW i \in Ids, BeginWrite(a, i) PROVE Pinned
  BY <1>7 DEF BeginWrite, files, Pinned
<1>8. ASSUME NEW a \in Actors, WritePartial(a) PROVE Pinned
  BY <1>8 DEF WritePartial, files, Pinned
<1>9. ASSUME NEW a \in Actors, Abort(a) PROVE Pinned
  BY <1>9 DEF Abort, Abandon, files, Pinned
<1>10. ASSUME NEW a \in Actors, CommitValidate(a) PROVE Pinned
  BY <1>10 DEF CommitValidate, Abandon, files, Pinned
<1>11. ASSUME NEW a \in Actors, CommitSync(a) PROVE Pinned
  BY <1>11 DEF CommitSync, Abandon, files, Pinned
<1>12. ASSUME NEW a \in Actors, CommitRename(a) PROVE Pinned
  <2>1. \A b \in Actors : lease[b].id # arg[a]
    BY <1>12, RenameEffect DEF CacheInv, ExclusiveAlone, HoldsExclusive, HoldsShared, ExclusivePCs
  <2>2. \A j \in Ids : j # arg[a] => art'[j] = art[j]
    BY <1>12, RenameEffect DEF CacheInv, Abandon, TypeOK, FilesOK
  <2> QED
    BY <2>1, <2>2 DEF Pinned
<1>13. ASSUME NEW a \in Actors, CommitStamp(a) PROVE Pinned
  BY <1>13 DEF CommitStamp, files, Pinned
<1>14. ASSUME NEW a \in Actors, CommitDowngrade(a) PROVE Pinned
  BY <1>14 DEF CommitDowngrade, files, Pinned
<1>15. ASSUME NEW a \in Actors, CommitConvert(a) PROVE Pinned
  BY <1>15 DEF CommitConvert, files, Pinned
<1>16. ASSUME NEW a \in Actors, CommitRelock(a) PROVE Pinned
  BY <1>16 DEF CommitRelock, files, Pinned
<1>17. ASSUME NEW a \in Actors, ScanRoot(a) PROVE Pinned
  BY <1>17 DEF ScanRoot, files, Pinned
<1>18. ASSUME NEW a \in Actors, ScanEntry(a) PROVE Pinned
  BY <1>18 DEF ScanEntry, files, Pinned
<1>19. ASSUME NEW a \in Actors, ScanDone(a) PROVE Pinned
  BY <1>19 DEF ScanDone, files, Pinned
<1>20. ASSUME NEW a \in Actors, StaleLock(a) PROVE Pinned
  BY <1>20 DEF StaleLock, files, Pinned
<1>21. ASSUME NEW a \in Actors, StaleRemove(a) PROVE Pinned
  BY <1>21 DEF StaleRemove, files, Pinned
<1>22. ASSUME NEW a \in Actors, EvictSpace(a) PROVE Pinned
  BY <1>22 DEF EvictSpace, files, Pinned
<1>23. ASSUME NEW a \in Actors, EvictLock(a) PROVE Pinned
  BY <1>23 DEF EvictLock, files, Pinned
<1>24. ASSUME NEW a \in Actors, EvictRemove(a) PROVE Pinned
  <2>1. \A b \in Actors : lease[b].id # arg[a]
    BY <1>24, EvictEffect DEF CacheInv, ExclusiveAlone, HoldsExclusive, HoldsShared, ExclusivePCs
  <2>2. \A j \in Ids : j # arg[a] => art'[j] = art[j]
    BY <1>24, EvictEffect DEF CacheInv, Abandon, TypeOK, FilesOK
  <2> QED
    BY <2>1, <2>2 DEF Pinned
<1>25. ASSUME NEW a \in Actors, CleanupDone(a) PROVE Pinned
  BY <1>25 DEF CleanupDone, files, Pinned
<1>26. ASSUME Tick PROVE Pinned
  BY <1>26 DEF Tick, files, Pinned
<1>27. ASSUME NEW a \in Actors, Crash(a) PROVE Pinned
  BY <1>27 DEF Crash, files, Pinned
<1>28. ASSUME PowerLoss PROVE Pinned
  <2>1. \A a \in Actors : lease'[a] = NoLease
    BY <1>28 DEF PowerLoss
  <2> QED
    BY <2>1, LeaseFacts, CacheAssumption DEF Pinned
<1>29. ASSUME UNCHANGED vars PROVE Pinned
  BY <1>29 DEF vars, files, Pinned
<1> QED
  BY <1>1, <1>2, <1>3, <1>4, <1>5, <1>6, <1>7, <1>8, <1>9, <1>10, <1>11, <1>12, <1>13, <1>14,
     <1>15, <1>16, <1>17, <1>18, <1>19, <1>20, <1>21, <1>22, <1>23, <1>24, <1>25, <1>26, <1>27, <1>28, <1>29
  DEF Next, Reader, Writer, Cleaner

\* No step replaces or removes the file of a lease that is kept.
THEOREM CachePins == Spec => LeasePinsFile
<1>1. CacheInv /\ [Next]_vars => [Pinned]_vars
  BY PinStep
<1> QED
  BY CacheInvariance, <1>1, PTL DEF Spec, LeasePinsFile

-----------------------------------------------------------------------------
(* cleanup() stops at its budgets.                                         *)

CleaningPCs == {"scan", "stale", "staleRemove", "evict", "evictRemove"}

\* One process cleans at a time.
OneCleaner == \A a, b \in Cleaners : a = b

TotalSize == SizeOf(art, Ids)
Fits == TotalSize =< MaxTotal /\ (MinFree # 0 => Capacity - TotalSize >= MinFree)

\* An artifact that is not there has no size.
AbsentIsEmpty == \A i \in Ids : \A f \in {art[i], disk[i]} : f.kind = "absent" => f.size = 0

\* What a cleanup has counted and what it has yet to scan is at least what is there,
\* and exactly that when nobody else evicts.
TotalCovers(a) ==
  /\ total[a] + SizeOf(art, todo[a]) >= TotalSize
  /\ OneCleaner => total[a] + SizeOf(art, todo[a]) = TotalSize

\* The free space it reckons with is there.
SpaceIsThere(a) ==
  /\ avail[a] =< Capacity - TotalSize
  /\ OneCleaner => avail[a] = Capacity - TotalSize

\* What an actor knows of the budget at each point of cleanup() and after it, unless
\* its scan could not read a size or somebody has published since it began.
Knows(a) ==
  /\ pc[a] \in CleaningPCs \/ reply[a] = "met" => a \in Cleaners
  /\ reply[a] = "met" => pc[a] = "idle"
  /\ pc[a] \in CleaningPCs \ {"scan"} => todo[a] = {}
  /\ pc[a] = "evictRemove" => bytesOverTarget(a) # 0
  /\ a \notin outdated =>
       /\ pc[a] \in CleaningPCs => TotalCovers(a)
       /\ pc[a] \in {"evict", "evictRemove"} => SpaceIsThere(a)
       /\ pc[a] = "idle" /\ reply[a] = "met" => Fits

\* The inductive invariant of cleanup(), beside CacheInv.
AllKnow   == \A a \in Actors : Knows(a)
BudgetInv == AbsentIsEmpty /\ AllKnow

\* Sums of sizes are integers.
LEMMA SizeTypes ==
  ASSUME TypeOK
  PROVE  TotalSize \in Int /\ \A S \in SUBSET Ids : SizeOf(art, S) \in Int
  BY SizesAreInts, SizeLaw, CacheAssumption DEF TotalSize, TypeOK

\* ActualTotal adds up the files that are there.
LEMMA TotalIsSize ==
  ASSUME TypeOK, AbsentIsEmpty
  PROVE  ActualTotal = TotalSize
<1>1. ActualTotal = SizeOf(art, Present)
  BY DEF ActualTotal, SizeOf, MapThenSumSet, MapThenFoldSet
<1>2. Present \in SUBSET Ids /\ \A i \in Ids \ Present : art[i].size = 0
  BY DEF Present, AbsentIsEmpty
<1> QED
  BY <1>1, <1>2, SizesAreInts, EmptyFiles, CacheAssumption DEF TotalSize, TypeOK

\* When bytesOverTarget() reports a need.
LEMMA OverTarget ==
  ASSUME NEW a \in Actors, total[a] \in Int, avail[a] \in Int
  PROVE  bytesOverTarget(a) # 0 <=> total[a] > MaxTotal \/ (MinFree # 0 /\ avail[a] < MinFree)
  BY CacheAssumption DEF bytesOverTarget

\* The actor b has done nothing.
Kept(b) ==
  /\ pc'[b] = pc[b] /\ reply'[b] = reply[b]
  /\ todo'[b] = todo[b] /\ total'[b] = total[b] /\ avail'[b] = avail[b]
  /\ b \notin outdated' => b \notin outdated

\* The actor b is outside of cleanup() and has no good news of one.
Outside(b) == pc'[b] \notin CleaningPCs /\ reply'[b] # "met"

\* Who does nothing knows what it knew, and who is outside needs to know nothing.
LEMMA KeptKnows ==
  ASSUME NEW b \in Actors, Knows(b), Kept(b), art' = art
  PROVE  Knows(b)'
  BY DEF Knows, Kept, TotalCovers, SpaceIsThere, Fits, TotalSize, bytesOverTarget

LEMMA OutsideKnows ==
  ASSUME NEW b \in Actors, Outside(b)
  PROVE  Knows(b)'
  BY DEF Knows, Outside, CleaningPCs

\* A step of a.
StepOf(a) == art' = art /\ \A b \in Actors \ {a} : Kept(b)

LEMMA StepKnows ==
  ASSUME NEW a \in Actors, AllKnow, StepOf(a), Knows(a)'
  PROVE  AllKnow'
  BY KeptKnows DEF StepOf, AllKnow

\* Artifacts come as valid files and go without a trace of a size.
LEMMA AbsentStep ==
  ASSUME CacheInv, AbsentIsEmpty, [Next]_vars
  PROVE  AbsentIsEmpty'
<1> USE DEF AbsentIsEmpty, files
<1>1. ASSUME NEW a \in Actors, NEW i \in Ids, Lookup(a, i) PROVE AbsentIsEmpty'
  BY <1>1 DEF Lookup
<1>2. ASSUME NEW a \in Actors, LookupLock(a) PROVE AbsentIsEmpty'
  BY <1>2 DEF LookupLock
<1>3. ASSUME NEW a \in Actors, LookupValidate(a) PROVE AbsentIsEmpty'
  BY <1>3 DEF LookupValidate
<1>4. ASSUME NEW a \in Actors, LookupTouch(a) PROVE AbsentIsEmpty'
  BY <1>4 DEF LookupTouch
<1>5. ASSUME NEW a \in Actors, NEW i \in Ids, AcquireReadLease(a, i) PROVE AbsentIsEmpty'
  BY <1>5 DEF AcquireReadLease
<1>6. ASSUME NEW a \in Actors, ReleaseLease(a) PROVE AbsentIsEmpty'
  BY <1>6 DEF ReleaseLease
<1>7. ASSUME NEW a \in Actors, NEW i \in Ids, BeginWrite(a, i) PROVE AbsentIsEmpty'
  BY <1>7 DEF BeginWrite
<1>8. ASSUME NEW a \in Actors, WritePartial(a) PROVE AbsentIsEmpty'
  BY <1>8 DEF WritePartial
<1>9. ASSUME NEW a \in Actors, Abort(a) PROVE AbsentIsEmpty'
  BY <1>9 DEF Abort, Abandon
<1>10. ASSUME NEW a \in Actors, CommitValidate(a) PROVE AbsentIsEmpty'
  BY <1>10 DEF CommitValidate, Abandon
<1>11. ASSUME NEW a \in Actors, CommitSync(a) PROVE AbsentIsEmpty'
  BY <1>11 DEF CommitSync, Abandon
<1>12. ASSUME NEW a \in Actors, CommitRename(a) PROVE AbsentIsEmpty'
  <2>1. disk' = disk /\ (art' = art \/ art' = [art EXCEPT ![arg[a]] = partial[a][arg[a]]])
    BY <1>12, RenameEffect DEF CacheInv, Abandon
  <2>2. arg[a] \in Ids /\ partial[a][arg[a]].kind = "valid"
    BY <1>12, RenameEffect DEF CacheInv
  <2> QED
    BY <2>1, <2>2 DEF CacheInv, TypeOK, FilesOK
<1>13. ASSUME NEW a \in Actors, CommitStamp(a) PROVE AbsentIsEmpty'
  <2>1. arg[a] \in Ids
    BY <1>13 DEF CommitStamp, CacheInv, WorksOnId, Working, ExclusivePCs
  <2> QED
    BY <1>13, <2>1 DEF CommitStamp, CacheInv, TypeOK, FilesOK
<1>14. ASSUME NEW a \in Actors, CommitDowngrade(a) PROVE AbsentIsEmpty'
  BY <1>14 DEF CommitDowngrade
<1>15. ASSUME NEW a \in Actors, CommitConvert(a) PROVE AbsentIsEmpty'
  BY <1>15 DEF CommitConvert
<1>16. ASSUME NEW a \in Actors, CommitRelock(a) PROVE AbsentIsEmpty'
  BY <1>16 DEF CommitRelock
<1>17. ASSUME NEW a \in Actors, ScanRoot(a) PROVE AbsentIsEmpty'
  BY <1>17 DEF ScanRoot
<1>18. ASSUME NEW a \in Actors, ScanEntry(a) PROVE AbsentIsEmpty'
  BY <1>18 DEF ScanEntry
<1>19. ASSUME NEW a \in Actors, ScanDone(a) PROVE AbsentIsEmpty'
  BY <1>19 DEF ScanDone
<1>20. ASSUME NEW a \in Actors, StaleLock(a) PROVE AbsentIsEmpty'
  BY <1>20 DEF StaleLock
<1>21. ASSUME NEW a \in Actors, StaleRemove(a) PROVE AbsentIsEmpty'
  BY <1>21 DEF StaleRemove
<1>22. ASSUME NEW a \in Actors, EvictSpace(a) PROVE AbsentIsEmpty'
  BY <1>22 DEF EvictSpace
<1>23. ASSUME NEW a \in Actors, EvictLock(a) PROVE AbsentIsEmpty'
  BY <1>23 DEF EvictLock
<1>24. ASSUME NEW a \in Actors, EvictRemove(a) PROVE AbsentIsEmpty'
  <2>1. disk' = disk /\ \A i \in Ids : art'[i] = art[i] \/ art'[i] = Absent
    BY <1>24, EvictEffect DEF CacheInv
  <2> QED
    BY <2>1 DEF Absent
<1>25. ASSUME NEW a \in Actors, CleanupDone(a) PROVE AbsentIsEmpty'
  BY <1>25 DEF CleanupDone
<1>26. ASSUME Tick PROVE AbsentIsEmpty'
  BY <1>26 DEF Tick
<1>27. ASSUME NEW a \in Actors, Crash(a) PROVE AbsentIsEmpty'
  BY <1>27 DEF Crash
<1>28. ASSUME PowerLoss PROVE AbsentIsEmpty'
  <2>1. PICK synced \in SUBSET Ids :
          art' = [i \in Ids |-> AfterPowerLoss(IF i \in synced THEN disk[i] ELSE art[i])]
    BY <1>28 DEF PowerLoss
  <2>2. \A f \in Files : AfterPowerLoss(f).kind = "absent" => f.kind = "absent" /\ AfterPowerLoss(f) = f
    BY DEF AfterPowerLoss, Files
  <2>3. \A i \in Ids : art[i] \in Files /\ disk[i] \in Files
    BY DEF CacheInv, TypeOK, FilesOK
  <2>4. \A i \in Ids : art'[i].kind = "absent" => art'[i].size = 0
    BY <2>1, <2>2, <2>3
  <2> QED
    BY <1>28, <2>4 DEF PowerLoss
<1>29. ASSUME UNCHANGED vars PROVE AbsentIsEmpty'
  BY <1>29 DEF vars
<1> QED
  BY <1>1, <1>2, <1>3, <1>4, <1>5, <1>6, <1>7, <1>8, <1>9, <1>10, <1>11, <1>12, <1>13, <1>14,
     <1>15, <1>16, <1>17, <1>18, <1>19, <1>20, <1>21, <1>22, <1>23, <1>24, <1>25, <1>26, <1>27, <1>28, <1>29
  DEF Next, Reader, Writer, Cleaner

\* An eviction keeps what every cleanup knows: what it removes it takes off its own
\* count, and the others count too much.
LEMMA EvictKnows ==
  ASSUME CacheInv, BudgetInv, NEW a \in Actors, EvictRemove(a)
  PROVE  AllKnow'
<1>1. CASE art' = art /\ UNCHANGED <<total, avail>>
  <2>1. Knows(a)'
    <3>1. /\ pc[a] = "evictRemove" /\ pc'[a] = "evict" /\ reply' = reply /\ outdated' = outdated
          /\ todo' = todo
      BY <1>1 DEF EvictRemove, CacheInv, TypeOK, ControlOK
    <3>2. Knows(a)
      BY DEF BudgetInv, AllKnow
    <3> QED
      BY <1>1, <3>1, <3>2 DEF Knows, CleaningPCs, TotalCovers, SpaceIsThere, Fits, TotalSize
  <2>2. StepOf(a)
    BY <1>1 DEF EvictRemove, StepOf, Kept, CacheInv, TypeOK, ControlOK
  <2> QED
    BY <2>1, <2>2, StepKnows DEF BudgetInv
<1>2. CASE ~(art' = art /\ UNCHANGED <<total, avail>>)
  <2>1. PICK v \in cand[a] :
          /\ v.id = arg[a] /\ Unchanged(v)
          /\ art' = [art EXCEPT ![v.id] = Absent]
          /\ total' = [total EXCEPT ![a] = @ - v.size]
          /\ avail' = [avail EXCEPT ![a] = @ + v.size]
    BY <1>2 DEF EvictRemove
  <2>2. PICK x \in Ids : x = v.id /\ art[x].size = v.size /\ art[x].size \in Nat
    <3>1. v.id \in Ids
      BY <2>1 DEF CacheInv, TypeOK, CleaningOK, Candidates
    <3>2. art[v.id].size = v.size
      BY <2>1 DEF Unchanged
    <3> QED
      BY <3>1, <3>2, SizesAreInts DEF CacheInv, TypeOK
  <2>3. PICK n \in Nat : n = v.size
    BY <2>2
  <2>4. /\ pc[a] = "evictRemove" /\ pc' = [pc EXCEPT ![a] = "evict"]
        /\ reply' = reply /\ outdated' = outdated /\ todo' = todo
    BY DEF EvictRemove
  <2>5. /\ \A i \in Ids : art[i].size \in Int /\ art'[i].size \in Int
        /\ art'[x].size = 0 /\ \A i \in Ids \ {x} : art'[i].size = art[i].size
    BY <2>1, <2>2, SizesAreInts DEF CacheInv, TypeOK, FilesOK, Absent
  <2>6. \A S \in SUBSET Ids : SizeOf(art, S) \in Int
    BY SizeTypes DEF CacheInv
  <2>7. \A S \in SUBSET Ids : SizeOf(art', S) = IF x \in S THEN SizeOf(art, S) - n ELSE SizeOf(art, S)
    BY <2>2, <2>3, <2>5, RemoveFile, CacheAssumption
  <2>8. TotalSize \in Int /\ TotalSize' = TotalSize - n
    BY <2>6, <2>7 DEF TotalSize
  <2>9. \A b \in Actors : Knows(b) /\ total[b] \in Int /\ avail[b] \in Int /\ todo[b] \in SUBSET Ids
    BY DEF BudgetInv, AllKnow, CacheInv, TypeOK, CleaningOK
  <2>10. Capacity \in Int /\ MaxTotal \in Int /\ MinFree \in Int
    BY CacheAssumption
  <2>11. Knows(a)'
    <3>1. /\ total'[a] = total[a] - n /\ avail'[a] = avail[a] + n /\ pc'[a] = "evict"
          /\ reply'[a] = reply[a] /\ todo'[a] = todo[a]
      BY <2>1, <2>3, <2>4 DEF CacheInv, TypeOK, ControlOK, CleaningOK
    <3>2. a \in Cleaners /\ todo[a] = {} /\ reply[a] # "met"
      BY <2>4, <2>9 DEF Knows, CleaningPCs
    <3>3. SizeOf(art', {}) = SizeOf(art, {}) /\ SizeOf(art, {}) \in Int
      BY <2>6, <2>7
    <3>4. a \notin outdated => TotalCovers(a) /\ SpaceIsThere(a)
      BY <2>4, <2>9 DEF Knows, CleaningPCs
    <3>5. TotalCovers(a) => TotalCovers(a)'
      BY <2>8, <2>9, <3>1, <3>2, <3>3 DEF TotalCovers, OneCleaner
    <3>6. SpaceIsThere(a) => SpaceIsThere(a)'
      BY <2>8, <2>9, <2>10, <3>1 DEF SpaceIsThere, OneCleaner
    <3> QED
      BY <2>4, <3>1, <3>2, <3>4, <3>5, <3>6 DEF Knows, CleaningPCs
  <2>12. ASSUME NEW b \in Actors, b # a PROVE Knows(b)'
    <3>1. /\ total'[b] = total[b] /\ avail'[b] = avail[b] /\ pc'[b] = pc[b]
          /\ reply'[b] = reply[b] /\ todo'[b] = todo[b]
      BY <2>1, <2>4, <2>12 DEF CacheInv, TypeOK, ControlOK, CleaningOK
    <3>2. b \in Cleaners => ~OneCleaner
      BY <2>4, <2>9, <2>12 DEF Knows, CleaningPCs, OneCleaner
    <3>3. /\ SizeOf(art', todo[b]) >= SizeOf(art, todo[b]) - n
          /\ SizeOf(art', todo[b]) \in Int /\ SizeOf(art, todo[b]) \in Int
      BY <2>3, <2>6, <2>7, <2>9
    <3>4. TotalCovers(b) /\ b \in Cleaners => TotalCovers(b)'
      BY <2>8, <2>9, <3>1, <3>2, <3>3 DEF TotalCovers, OneCleaner
    <3>5. SpaceIsThere(b) /\ b \in Cleaners => SpaceIsThere(b)'
      BY <2>3, <2>8, <2>9, <2>10, <3>1, <3>2 DEF SpaceIsThere, OneCleaner
    <3>6. Fits => Fits'
      BY <2>3, <2>8, <2>10 DEF Fits
    <3>7. bytesOverTarget(b)' = bytesOverTarget(b)
      BY <3>1 DEF bytesOverTarget
    <3>8. Knows(b)
      BY <2>9
    <3> QED
      BY <2>4, <3>1, <3>4, <3>5, <3>6, <3>7, <3>8 DEF Knows, CleaningPCs
  <2> QED
    BY <2>11, <2>12 DEF AllKnow
<1> QED
  BY <1>1, <1>2

\* Every step keeps what the cleanups know.
LEMMA KnowStep ==
  ASSUME CacheInv, BudgetInv, [Next]_vars
  PROVE  AllKnow'
<1>0. \A a \in Actors : Knows(a)
  BY DEF BudgetInv, AllKnow
<1> USE DEF files, cleaning
<1>1. ASSUME NEW a \in Actors, NEW i \in Ids, Lookup(a, i) PROVE AllKnow'
  <2>1. StepOf(a)
    BY <1>1 DEF Lookup, Return, Begin, StepOf, Kept, CacheInv, TypeOK, ControlOK, CleaningOK
  <2>2. Outside(a)
    BY <1>0, <1>1
    DEF Lookup, Return, Begin, Outside, Knows, CleaningPCs, CacheInv, TypeOK, ControlOK, CleaningOK
  <2> QED
    BY <2>1, <2>2, StepKnows, OutsideKnows DEF BudgetInv
<1>2. ASSUME NEW a \in Actors, LookupLock(a) PROVE AllKnow'
  <2>1. StepOf(a)
    BY <1>2 DEF LookupLock, Step, Return, StepOf, Kept, CacheInv, TypeOK, ControlOK, CleaningOK
  <2>2. Outside(a)
    BY <1>0, <1>2
    DEF LookupLock, Step, Return, Outside, Knows, CleaningPCs, CacheInv, TypeOK, ControlOK, CleaningOK
  <2> QED
    BY <2>1, <2>2, StepKnows, OutsideKnows DEF BudgetInv
<1>3. ASSUME NEW a \in Actors, LookupValidate(a) PROVE AllKnow'
  <2>1. StepOf(a)
    BY <1>3 DEF LookupValidate, Step, Return, StepOf, Kept, CacheInv, TypeOK, ControlOK, CleaningOK
  <2>2. Outside(a)
    BY <1>0, <1>3
    DEF LookupValidate, Step, Return, Outside, Knows, CleaningPCs, CacheInv, TypeOK, ControlOK, CleaningOK
  <2> QED
    BY <2>1, <2>2, StepKnows, OutsideKnows DEF BudgetInv
<1>4. ASSUME NEW a \in Actors, LookupTouch(a) PROVE AllKnow'
  <2>1. StepOf(a)
    BY <1>4 DEF LookupTouch, ReturnHit, Return, StepOf, Kept, CacheInv, TypeOK, ControlOK, CleaningOK
  <2>2. Outside(a)
    BY <1>0, <1>4
    DEF LookupTouch, ReturnHit, Return, Outside, Knows, CleaningPCs, CacheInv, TypeOK, ControlOK, CleaningOK
  <2> QED
    BY <2>1, <2>2, StepKnows, OutsideKnows DEF BudgetInv
<1>5. ASSUME NEW a \in Actors, NEW i \in Ids, AcquireReadLease(a, i) PROVE AllKnow'
  <2>1. StepOf(a)
    BY <1>5 DEF AcquireReadLease, Return, StepOf, Kept, CacheInv, TypeOK, ControlOK, CleaningOK
  <2>2. Outside(a)
    BY <1>0, <1>5
    DEF AcquireReadLease, Return, Outside, Knows, CleaningPCs, CacheInv, TypeOK, ControlOK, CleaningOK
  <2> QED
    BY <2>1, <2>2, StepKnows, OutsideKnows DEF BudgetInv
<1>6. ASSUME NEW a \in Actors, ReleaseLease(a) PROVE AllKnow'
  <2>1. art' = art /\ \A b \in Actors : Kept(b)
    BY <1>6 DEF ReleaseLease, Kept
  <2> QED
    BY <1>0, <2>1, KeptKnows DEF AllKnow
<1>7. ASSUME NEW a \in Actors, NEW i \in Ids, BeginWrite(a, i) PROVE AllKnow'
  <2>1. StepOf(a)
    BY <1>7 DEF BeginWrite, Begin, Return, StepOf, Kept, CacheInv, TypeOK, ControlOK, CleaningOK
  <2>2. Outside(a)
    BY <1>0, <1>7
    DEF BeginWrite, Begin, Return, Outside, Knows, CleaningPCs, CacheInv, TypeOK, ControlOK, CleaningOK
  <2> QED
    BY <2>1, <2>2, StepKnows, OutsideKnows DEF BudgetInv
<1>8. ASSUME NEW a \in Actors, WritePartial(a) PROVE AllKnow'
  <2>1. StepOf(a)
    BY <1>8 DEF WritePartial, Step, StepOf, Kept, CacheInv, TypeOK, ControlOK, CleaningOK
  <2>2. Outside(a)
    BY <1>0, <1>8
    DEF WritePartial, Step, Outside, Knows, CleaningPCs, CacheInv, TypeOK, ControlOK, CleaningOK
  <2> QED
    BY <2>1, <2>2, StepKnows, OutsideKnows DEF BudgetInv
<1>9. ASSUME NEW a \in Actors, Abort(a) PROVE AllKnow'
  <2>1. StepOf(a)
    BY <1>9 DEF Abort, Abandon, Return, StepOf, Kept, CacheInv, TypeOK, ControlOK, CleaningOK
  <2>2. Outside(a)
    BY <1>0, <1>9
    DEF Abort, Abandon, Return, Outside, Knows, CleaningPCs, CacheInv, TypeOK, ControlOK, CleaningOK
  <2> QED
    BY <2>1, <2>2, StepKnows, OutsideKnows DEF BudgetInv
<1>10. ASSUME NEW a \in Actors, CommitValidate(a) PROVE AllKnow'
  <2>1. StepOf(a)
    BY <1>10
    DEF CommitValidate, Abandon, Step, Return, StepOf, Kept, CacheInv, TypeOK, ControlOK, CleaningOK
  <2>2. Outside(a)
    BY <1>0, <1>10
    DEF CommitValidate, Abandon, Step, Return, Outside, Knows, CleaningPCs, CacheInv, TypeOK, ControlOK, CleaningOK
  <2> QED
    BY <2>1, <2>2, StepKnows, OutsideKnows DEF BudgetInv
<1>11. ASSUME NEW a \in Actors, CommitSync(a) PROVE AllKnow'
  <2>1. StepOf(a)
    BY <1>11 DEF CommitSync, Abandon, Step, Return, StepOf, Kept, CacheInv, TypeOK, ControlOK, CleaningOK
  <2>2. Outside(a)
    BY <1>0, <1>11
    DEF CommitSync, Abandon, Step, Return, Outside, Knows, CleaningPCs, CacheInv, TypeOK, ControlOK, CleaningOK
  <2> QED
    BY <2>1, <2>2, StepKnows, OutsideKnows DEF BudgetInv
<1>12. ASSUME NEW a \in Actors, CommitRename(a) PROVE AllKnow'
  <2>1. CASE Abandon(a)
    <3>1. StepOf(a)
      BY <2>1 DEF Abandon, Return, StepOf, Kept, CacheInv, TypeOK, ControlOK, CleaningOK
    <3>2. Outside(a)
      BY <2>1 DEF Abandon, Return, Outside, CleaningPCs, CacheInv, TypeOK, ControlOK, CleaningOK
    <3> QED
      BY <3>1, <3>2, StepKnows, OutsideKnows DEF BudgetInv
  <2>2. CASE ~Abandon(a)
    <3>1. /\ outdated' = Cleaners /\ reply' = reply /\ todo' = todo /\ total' = total /\ avail' = avail
          /\ pc[a] = "rename" /\ pc' = [pc EXCEPT ![a] = "stamp"]
      BY <1>12, <2>2 DEF CommitRename, Step
    <3>2. ASSUME NEW b \in Actors PROVE Knows(b)'
      <4>1. pc'[b] = pc[b] \/ (pc[b] = "rename" /\ pc'[b] = "stamp")
        BY <3>1 DEF CacheInv, TypeOK, ControlOK, CleaningOK
      <4>2. Knows(b)
        BY <1>0
      <4> QED
        BY <3>1, <4>1, <4>2 DEF Knows, CleaningPCs, bytesOverTarget
    <3> QED
      BY <3>2 DEF AllKnow
  <2> QED
    BY <2>1, <2>2
<1>13. ASSUME NEW a \in Actors, CommitStamp(a) PROVE AllKnow'
  <2>1. StepOf(a)
    BY <1>13 DEF CommitStamp, Step, StepOf, Kept, CacheInv, TypeOK, ControlOK, CleaningOK
  <2>2. Outside(a)
    BY <1>0, <1>13
    DEF CommitStamp, Step, Outside, Knows, CleaningPCs, CacheInv, TypeOK, ControlOK, CleaningOK
  <2> QED
    BY <2>1, <2>2, StepKnows, OutsideKnows DEF BudgetInv
<1>14. ASSUME NEW a \in Actors, CommitDowngrade(a) PROVE AllKnow'
  <2>1. StepOf(a)
    BY <1>14 DEF CommitDowngrade, Step, StepOf, Kept, CacheInv, TypeOK, ControlOK, CleaningOK
  <2>2. Outside(a)
    BY <1>0, <1>14
    DEF CommitDowngrade, Step, Outside, Knows, CleaningPCs, CacheInv, TypeOK, ControlOK, CleaningOK
  <2> QED
    BY <2>1, <2>2, StepKnows, OutsideKnows DEF BudgetInv
<1>15. ASSUME NEW a \in Actors, CommitConvert(a) PROVE AllKnow'
  <2>1. StepOf(a)
    BY <1>15
    DEF CommitConvert, ReturnHit, Step, Return, StepOf, Kept, CacheInv, TypeOK, ControlOK, CleaningOK
  <2>2. Outside(a)
    BY <1>0, <1>15
    DEF CommitConvert, ReturnHit, Step, Return, Outside, Knows, CleaningPCs, CacheInv, TypeOK, ControlOK, CleaningOK
  <2> QED
    BY <2>1, <2>2, StepKnows, OutsideKnows DEF BudgetInv
<1>16. ASSUME NEW a \in Actors, CommitRelock(a) PROVE AllKnow'
  <2>1. StepOf(a)
    BY <1>16 DEF CommitRelock, ReturnHit, Return, StepOf, Kept, CacheInv, TypeOK, ControlOK, CleaningOK
  <2>2. Outside(a)
    BY <1>0, <1>16
    DEF CommitRelock, ReturnHit, Return, Outside, Knows, CleaningPCs, CacheInv, TypeOK, ControlOK, CleaningOK
  <2> QED
    BY <2>1, <2>2, StepKnows, OutsideKnows DEF BudgetInv
<1>17. ASSUME NEW a \in Actors, ScanRoot(a) PROVE AllKnow'
  <2>1. StepOf(a)
    BY <1>17 DEF ScanRoot, Begin, StepOf, Kept, CacheInv, TypeOK, ControlOK, CleaningOK
  <2>2. /\ a \in Cleaners /\ pc'[a] = "scan" /\ reply'[a] = "none"
        /\ todo'[a] = Ids /\ total'[a] = 0 /\ art' = art
    BY <1>17 DEF ScanRoot, Begin, CacheInv, TypeOK, ControlOK, CleaningOK
  <2>3. TotalCovers(a)'
    BY <2>2, SizeTypes DEF TotalCovers, TotalSize, CacheInv
  <2>4. Knows(a)'
    BY <2>2, <2>3 DEF Knows, CleaningPCs
  <2> QED
    BY <2>1, <2>4, StepKnows DEF BudgetInv
<1>18. ASSUME NEW a \in Actors, ScanEntry(a) PROVE AllKnow'
  <2>1. StepOf(a)
    BY <1>18 DEF ScanEntry, StepOf, Kept, CacheInv, TypeOK, ControlOK, CleaningOK
  <2>2. PICK i \in todo[a] : /\ todo' = [todo EXCEPT ![a] = @ \ {i}]
                            /\ \/ /\ total' = [total EXCEPT ![a] = @ + art[i].size]
                                  /\ outdated' = outdated
                               \/ outdated' = outdated \cup {a}
    BY <1>18 DEF ScanEntry
  <2>3. /\ todo'[a] = todo[a] \ {i}
        /\ \/ total'[a] = total[a] + art[i].size /\ outdated' = outdated
           \/ a \in outdated'
        /\ pc[a] = "scan" /\ pc'[a] = "scan" /\ reply'[a] = reply[a] /\ art' = art
    BY <1>18, <2>2 DEF ScanEntry, CacheInv, TypeOK, ControlOK, CleaningOK
  <2>4. todo[a] \in SUBSET Ids /\ total[a] \in Int
    BY DEF CacheInv, TypeOK, ControlOK, CleaningOK
  <2>5. PICK n \in Int : n = art[i].size
    BY <2>2, <2>4, SizesAreInts DEF CacheInv, TypeOK
  <2>6. PICK S \in SUBSET Ids : S = todo[a] \ {i}
    BY <2>4
  <2>7. SizeOf(art, todo[a]) = n + SizeOf(art, S) /\ SizeOf(art, S) \in Int /\ SizeOf(art, todo[a]) \in Int
    BY <2>2, <2>4, <2>5, <2>6, SizesAreInts, SizeLaw, CacheAssumption DEF CacheInv, TypeOK
  <2>8. a \notin outdated' /\ TotalCovers(a) => TotalCovers(a)'
    BY <2>3, <2>4, <2>5, <2>6, <2>7, SizeTypes DEF TotalCovers, TotalSize, OneCleaner, CacheInv
  <2>9. Knows(a)
    BY <1>0
  <2>10. Knows(a)'
    BY <2>3, <2>8, <2>9 DEF Knows, CleaningPCs
  <2> QED
    BY <2>1, <2>10, StepKnows DEF BudgetInv
<1>19. ASSUME NEW a \in Actors, ScanDone(a) PROVE AllKnow'
  <2>1. StepOf(a)
    BY <1>19 DEF ScanDone, Step, EndCleanup, Return, StepOf, Kept, CacheInv, TypeOK, ControlOK, CleaningOK
  <2>2. CASE pc'[a] = "idle"
    <3>1. Outside(a)
      BY <1>19, <2>2
      DEF ScanDone, Step, EndCleanup, Return, Outside, CleaningPCs, CacheInv, TypeOK, ControlOK, CleaningOK
    <3> QED
      BY <2>1, <3>1, StepKnows, OutsideKnows DEF BudgetInv
  <2>3. CASE pc'[a] # "idle"
    <3>1. /\ pc[a] = "scan" /\ pc'[a] = "stale" /\ todo[a] = {}
          /\ UNCHANGED <<art, todo, total, avail, reply, outdated>>
      BY <1>19, <2>3 DEF ScanDone, Step, EndCleanup, Return, CacheInv, TypeOK, ControlOK, CleaningOK
    <3>2. Knows(a)
      BY <1>0
    <3>3. Knows(a)'
      BY <3>1, <3>2 DEF Knows, CleaningPCs, TotalCovers, TotalSize
    <3> QED
      BY <2>1, <3>3, StepKnows DEF BudgetInv
  <2> QED
    BY <2>2, <2>3
<1>20. ASSUME NEW a \in Actors, StaleLock(a) PROVE AllKnow'
  <2>1. StepOf(a)
    BY <1>20 DEF StaleLock, StepOf, Kept, CacheInv, TypeOK, ControlOK, CleaningOK
  <2>2. /\ pc[a] = "stale" /\ pc'[a] \in {"stale", "staleRemove"}
        /\ UNCHANGED <<art, todo, total, avail, reply, outdated>>
    BY <1>20 DEF StaleLock, CacheInv, TypeOK, ControlOK, CleaningOK
  <2>3. Knows(a)
    BY <1>0
  <2>4. Knows(a)'
    BY <2>2, <2>3 DEF Knows, CleaningPCs, TotalCovers, SpaceIsThere, TotalSize
  <2> QED
    BY <2>1, <2>4, StepKnows DEF BudgetInv
<1>21. ASSUME NEW a \in Actors, StaleRemove(a) PROVE AllKnow'
  <2>1. StepOf(a)
    BY <1>21 DEF StaleRemove, StepOf, Kept, CacheInv, TypeOK, ControlOK, CleaningOK
  <2>2. /\ pc[a] = "staleRemove" /\ pc'[a] = "stale"
        /\ UNCHANGED <<art, todo, total, avail, reply, outdated>>
    BY <1>21 DEF StaleRemove, CacheInv, TypeOK, ControlOK, CleaningOK
  <2>3. Knows(a)
    BY <1>0
  <2>4. Knows(a)'
    BY <2>2, <2>3 DEF Knows, CleaningPCs, TotalCovers, SpaceIsThere, TotalSize
  <2> QED
    BY <2>1, <2>4, StepKnows DEF BudgetInv
<1>22. ASSUME NEW a \in Actors, EvictSpace(a) PROVE AllKnow'
  <2>1. CASE EndCleanup(a, FALSE)
    <3>1. StepOf(a)
      BY <1>22, <2>1
      DEF EvictSpace, EndCleanup, Return, StepOf, Kept, CacheInv, TypeOK, ControlOK, CleaningOK
    <3>2. Outside(a)
      BY <2>1 DEF EndCleanup, Return, Outside, CleaningPCs, CacheInv, TypeOK, ControlOK, CleaningOK
    <3> QED
      BY <3>1, <3>2, StepKnows, OutsideKnows DEF BudgetInv
  <2>2. CASE ~EndCleanup(a, FALSE)
    <3>1. PICK n \in Int : n = Capacity - ActualTotal
      BY ActualTotalType, CacheAssumption DEF CacheInv, TypeOK
    <3>2. /\ pc[a] = "stale" /\ pc' = [pc EXCEPT ![a] = "evict"]
          /\ avail' = [avail EXCEPT ![a] = n]
          /\ UNCHANGED <<art, todo, total, reply, outdated>>
      BY <1>22, <2>2, <3>1 DEF EvictSpace, Step
    <3>3. pc'[a] = "evict" /\ avail'[a] = n
      BY <3>2 DEF CacheInv, TypeOK, ControlOK, CleaningOK
    <3>4. StepOf(a)
      BY <3>2 DEF StepOf, Kept, CacheInv, TypeOK, ControlOK, CleaningOK
    <3>5. n = Capacity - TotalSize
      BY <3>1, TotalIsSize DEF CacheInv, BudgetInv
    <3>6. SpaceIsThere(a)'
      BY <3>2, <3>3, <3>5, SizeTypes, CacheAssumption DEF SpaceIsThere, TotalSize, CacheInv
    <3>7. Knows(a)
      BY <1>0
    <3>8. Knows(a)'
      BY <3>2, <3>3, <3>6, <3>7 DEF Knows, CleaningPCs, TotalCovers, TotalSize
    <3> QED
      BY <3>4, <3>8, StepKnows DEF BudgetInv
  <2> QED
    BY <2>1, <2>2
<1>23. ASSUME NEW a \in Actors, EvictLock(a) PROVE AllKnow'
  <2>1. StepOf(a)
    BY <1>23 DEF EvictLock, StepOf, Kept, CacheInv, TypeOK, ControlOK, CleaningOK
  <2>2. /\ pc[a] = "evict" /\ pc'[a] \in {"evict", "evictRemove"} /\ bytesOverTarget(a) # 0
        /\ UNCHANGED <<art, todo, total, avail, reply, outdated>>
    BY <1>23 DEF EvictLock, CacheInv, TypeOK, ControlOK, CleaningOK
  <2>3. Knows(a)
    BY <1>0
  <2>4. Knows(a)'
    BY <2>2, <2>3 DEF Knows, CleaningPCs, TotalCovers, SpaceIsThere, TotalSize, bytesOverTarget
  <2> QED
    BY <2>1, <2>4, StepKnows DEF BudgetInv
<1>24. ASSUME NEW a \in Actors, EvictRemove(a) PROVE AllKnow'
  BY <1>24, EvictKnows
<1>25. ASSUME NEW a \in Actors, CleanupDone(a) PROVE AllKnow'
  <2>1. StepOf(a)
    BY <1>25 DEF CleanupDone, EndCleanup, Return, StepOf, Kept, CacheInv, TypeOK, ControlOK, CleaningOK
  <2>2. /\ pc[a] = "evict" /\ pc'[a] = "idle" /\ art' = art /\ outdated' = outdated
        /\ reply'[a] = "met" => bytesOverTarget(a) = 0
    BY <1>25 DEF CleanupDone, EndCleanup, Return, CacheInv, TypeOK, ControlOK, CleaningOK
  <2>3. Knows(a) /\ total[a] \in Int /\ avail[a] \in Int
    BY <1>0 DEF CacheInv, TypeOK, ControlOK, CleaningOK
  <2>4. a \in Cleaners /\ (a \notin outdated => TotalCovers(a) /\ SpaceIsThere(a)) /\ todo[a] = {}
    BY <2>2, <2>3 DEF Knows, CleaningPCs
  <2>5. SizeOf(art, {}) = 0
    BY SizesAreInts, SizeLaw, CacheAssumption DEF CacheInv, TypeOK
  <2>6. TotalCovers(a) /\ SpaceIsThere(a) /\ bytesOverTarget(a) = 0 => Fits
    BY <2>3, <2>4, <2>5, OverTarget, SizeTypes, CacheAssumption
    DEF TotalCovers, SpaceIsThere, Fits, CacheInv
  <2>7. Fits => Fits'
    BY <2>2 DEF Fits, TotalSize
  <2>8. Knows(a)'
    BY <2>2, <2>4, <2>6, <2>7 DEF Knows, CleaningPCs
  <2> QED
    BY <2>1, <2>8, StepKnows DEF BudgetInv
<1>26. ASSUME Tick PROVE AllKnow'
  <2>1. art' = art /\ \A b \in Actors : Kept(b)
    BY <1>26 DEF Tick, Kept
  <2> QED
    BY <1>0, <2>1, KeptKnows DEF AllKnow
<1>27. ASSUME NEW a \in Actors, Crash(a) PROVE AllKnow'
  <2>1. StepOf(a)
    BY <1>27 DEF Crash, StepOf, Kept, CacheInv, TypeOK, ControlOK, CleaningOK
  <2>2. Outside(a)
    BY <1>0, <1>27 DEF Crash, Outside, Knows, CleaningPCs, CacheInv, TypeOK, ControlOK, CleaningOK
  <2> QED
    BY <2>1, <2>2, StepKnows, OutsideKnows DEF BudgetInv
<1>28. ASSUME PowerLoss PROVE AllKnow'
  <2>1. \A b \in Actors : Outside(b)
    BY <1>28 DEF PowerLoss, Outside, CleaningPCs
  <2> QED
    BY <2>1, OutsideKnows DEF AllKnow
<1>29. ASSUME UNCHANGED vars PROVE AllKnow'
  <2>1. art' = art /\ \A b \in Actors : Kept(b)
    BY <1>29 DEF vars, Kept
  <2> QED
    BY <1>0, <2>1, KeptKnows DEF AllKnow
<1> QED
  BY <1>1, <1>2, <1>3, <1>4, <1>5, <1>6, <1>7, <1>8, <1>9, <1>10, <1>11, <1>12, <1>13, <1>14,
     <1>15, <1>16, <1>17, <1>18, <1>19, <1>20, <1>21, <1>22, <1>23, <1>24, <1>25, <1>26, <1>27, <1>28, <1>29
  DEF Next, Reader, Writer, Cleaner

LEMMA BudgetInit ==
  ASSUME Init
  PROVE  BudgetInv
<1>1. AbsentIsEmpty
  BY DEF Init, AbsentIsEmpty, Absent, Foreign
<1>2. AllKnow
  BY DEF Init, AllKnow, Knows, CleaningPCs
<1> QED
  BY <1>1, <1>2 DEF BudgetInv

\* BudgetInv is inductive, given CacheInv.
THEOREM BudgetInvariance == Spec => []BudgetInv
<1>1. CacheInv /\ BudgetInv /\ [Next]_vars => BudgetInv'
  BY AbsentStep, KnowStep DEF BudgetInv
<1> QED
  BY CacheInvariance, BudgetInit, <1>1, PTL DEF Spec

\* Fits is UnderBudget, said with TotalSize.
LEMMA FitsIsUnderBudget ==
  ASSUME CacheInv, BudgetInv
  PROVE  Fits <=> UnderBudget
BY TotalIsSize DEF Fits, UnderBudget, CacheInv, BudgetInv

\* A cleanup() of request_cache.cpp that returns target_met has brought the cache under
\* max_total_bytes and min_free_bytes unless its scan could not read a size (then had_errors
\* is set too) or someone has published since, however many processes clean, read, write and
\* crash at the same time: the estimate that evictUntilUnderBudget() keeps is never too small.
THEOREM MetIsUnderBudget == Spec => []MetMeansUnderBudget
<1>1. CacheInv /\ BudgetInv => MetMeansUnderBudget
  BY FitsIsUnderBudget DEF BudgetInv, AllKnow, Knows, MetMeansUnderBudget
<1> QED
  BY CacheInvariance, BudgetInvariance, <1>1, PTL

\* With one cleaning process the estimate is exact, so an artifact that
\* evictUntilUnderBudget() removes was removed over budget.
LEMMA EvictsOver ==
  ASSUME CacheInv, BudgetInv, OneCleaner, NEW a \in Actors, pc[a] = "evictRemove", a \notin outdated
  PROVE  ~UnderBudget
<1>1. Knows(a) /\ total[a] \in Int /\ avail[a] \in Int
  BY DEF BudgetInv, AllKnow, CacheInv, TypeOK, CleaningOK
<1>2. TotalCovers(a) /\ SpaceIsThere(a) /\ todo[a] = {} /\ bytesOverTarget(a) # 0
  BY <1>1 DEF Knows, CleaningPCs
<1>3. SizeOf(art, {}) = 0
  BY SizesAreInts, SizeLaw, CacheAssumption DEF CacheInv, TypeOK
<1>4. ~Fits
  BY <1>1, <1>2, <1>3, OverTarget, SizeTypes, CacheAssumption
  DEF TotalCovers, SpaceIsThere, Fits, CacheInv
<1> QED
  BY <1>4, FitsIsUnderBudget

\* When one process cleans at a time, cleanup() stops exactly at its budgets: it does not say
\* they are met when they are not, and evicts nothing once they are, whatever the readers and
\* the writers of the cache do meanwhile.  Two cleaners may evict for the same excess twice.
THEOREM CleanupStopsAtBudget ==
  ASSUME \A a, b \in Cleaners : a = b
  PROVE  Spec => StopsAtBudget
<1> DEFINE Evicts ==
      \A a \in Actors :
        pc[a] = "evictRemove" /\ pc'[a] = "evict" /\ art' # art /\ a \notin outdated => ~UnderBudget
<1>1. CacheInv /\ BudgetInv => Evicts
  BY EvictsOver DEF OneCleaner
<1>2. CacheInv /\ BudgetInv /\ [Next]_vars => [Evicts]_vars
  BY <1>1
<1> HIDE DEF Evicts
<1>3. Spec => [][Evicts]_vars
  BY CacheInvariance, BudgetInvariance, <1>2, PTL DEF Spec
<1> QED
  BY MetIsUnderBudget, <1>3 DEF StopsAtBudget, EvictsOnlyOverBudget, Evicts
=============================================================================
