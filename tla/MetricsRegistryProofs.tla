------------------------- MODULE MetricsRegistryProofs -------------------------
(***************************************************************************)
(* Proofs about MetricsRegistry for any recorders, scrapers, route ids,    *)
(* statuses and latencies, and any ascending bounds.  IInv says who holds  *)
(* the lock; that the total is the sum of the routes, but for the record   *)
(* that the writer has counted in the total only; that what a reader has   *)
(* copied is what the registry holds; and that every snapshot adds up.     *)
(*                                                                         *)
(* A sum over a function does not depend on the order in which it is made, *)
(* and a text can be read back from what it is escaped as: both are shown  *)
(* by a least counterexample (LeastOf).                                    *)
(***************************************************************************)
EXTENDS MetricsRegistry, FiniteSetTheorems, SequenceTheorems, WellFoundedInduction, TLAPS

(* A tally of statuses, and a bucket whose parts agree with one another. *)
IsTally(f) == IsFiniteSet(DOMAIN f) /\ DOMAIN f \subseteq Int /\ \A c \in DOMAIN f : f[c] \in Nat

IsBucket(b) ==
  /\ b.requests \in Nat /\ b.totalLatency \in Nat /\ b.maxLatency \in Nat
  /\ IsTally(b.statusCodes)
  /\ b.counts \in [DOMAIN Boundaries -> Nat]

SoundBucket(b) ==
  /\ IsBucket(b)
  /\ b.requests = SumFunction(b.statusCodes)
  /\ b.totalLatency <= b.maxLatency * b.requests
  /\ \A k \in DOMAIN Boundaries :
       /\ b.counts[k] <= b.requests
       /\ b.counts[k] = b.requests <=> b.maxLatency <= Boundaries[k]
  /\ \A k \in 2 .. Len(Boundaries) : b.counts[k - 1] <= b.counts[k]

(* Route ids, and what they are escaped to. *)
Chars == Characters \cup {"unknown", "\\", "n", "\""}
Texts == Seq(Chars)

(* A total that the buckets of the routes add up to.  A status that has no  *)
(* count yet counts 0, so that the sums also hold for statuses to come.     *)
Requests(rts) == [i \in DOMAIN rts |-> rts[i].requests]
TotalLatencies(rts) == [i \in DOMAIN rts |-> rts[i].totalLatency]
Counts(rts, c) == [i \in DOMAIN rts |-> Count(rts[i].statusCodes, c)]

Consistent(tot, rts) ==
  /\ SoundBucket(tot)
  /\ rts = [i \in DOMAIN rts |-> rts[i]]
  /\ IsFiniteSet(DOMAIN rts) /\ DOMAIN rts \subseteq Texts
  /\ \A i \in DOMAIN rts : SoundBucket(rts[i])
  /\ tot.requests = SumFunction(Requests(rts))
  /\ tot.totalLatency = SumFunction(TotalLatencies(rts))
  /\ \A c \in Int : Count(tot.statusCodes, c) = SumFunction(Counts(rts, c))

(* The routes once a record has been counted. *)
BucketOf(rts, id) == IF id \in DOMAIN rts THEN rts[id] ELSE NewBucket
Counted(rts, rec) ==
  [i \in DOMAIN rts \cup {rec.id} |->
     IF i = rec.id THEN RecordBucket(BucketOf(rts, rec.id), rec) ELSE rts[i]]

(* Who holds the lock, for what. *)
LockInv ==
  /\ writer \in Recorders \cup {None}
  /\ readers \subseteq Scrapers
  /\ pc = [p \in Recorders \cup Scrapers |-> pc[p]]
  /\ \A r \in Recorders : pc[r] \in {"idle", "lock", "route"} /\ (pc[r] = "route" <=> writer = r)
  /\ \A s \in Scrapers : pc[s] \in {"idle", "rlock", "copy"} /\ (pc[s] = "copy" <=> s \in readers)
  /\ writer # None => readers = {}

(* The writer has counted its record in the total, and not yet in a route. *)
Records == [id : Texts, status : Int, latency : Nat]
CountInv ==
  /\ record \in [Recorders -> Records]
  /\ writer = None => Consistent(total, routes)
  /\ writer # None => Consistent(total, Counted(routes, record[writer]))

(* What a reader has copied is what the registry holds. *)
CopyInv ==
  /\ copied = [s \in Scrapers |-> copied[s]]
  /\ \A s \in Scrapers :
       /\ pc[s] # "copy" => copied[s] = <<>>
       /\ copied[s] = [i \in DOMAIN copied[s] |-> routes[i]]
       /\ DOMAIN copied[s] \subseteq DOMAIN routes

ScrapeInv ==
  /\ scraped = [s \in Scrapers |-> scraped[s]]
  /\ \A s \in Scrapers : Consistent(scraped[s].total, scraped[s].routes)

IInv == LockInv /\ CountInv /\ CopyInv /\ ScrapeInv
-----------------------------------------------------------------------------
(* Induction as the search for a least counterexample. *)
LEMMA LeastOf ==
  ASSUME NEW T \in SUBSET Nat, T # {}
  PROVE  \E x \in T : \A y \in T : x <= y
<1>1. PICK x \in T : \A y \in T : ~(<<y, x>> \in OpToRel(<, Nat))
  BY WFMin, NatLessThanWellFounded
<1>2. \A y \in Nat : y < x => <<y, x>> \in OpToRel(<, Nat)
  BY Zenon DEF OpToRel
<1>3. \A y \in T : ~(y < x)
  BY <1>1, <1>2
<1>4. QED
  BY <1>3

-----------------------------------------------------------------------------
(* Sums over a finite set *)

Pick(s) == CHOOSE x \in s : TRUE

(* g adds up f over every set of a family, one element at a time. *)
AddsUp(g, f, family) ==
  \A s \in family : g[s] = IF s = {} THEN 0 ELSE f[Pick(s)] + g[s \ {Pick(s)}]

(* The table that SumFunctionOnSet looks a sum up in. *)
Table(f, S) ==
  CHOOSE g : g = [s \in SUBSET S |-> IF s = {} THEN 0 ELSE f[Pick(s)] + g[s \ {Pick(s)}]]

LEMMA SumIsLookedUp ==
  ASSUME NEW f, NEW S
  PROVE  SumFunctionOnSet(f, S) = Table(f, S)[S]
  BY DEF SumFunctionOnSet, FoldFunctionOnSet, MapThenFoldSet, Pick, Table

LEMMA Picked ==
  ASSUME NEW s, s # {}
  PROVE  Pick(s) \in s
  BY DEF Pick

(* The table exists: it can be made for the subsets of up to n elements. *)
Small(S, n) == {s \in SUBSET S : Cardinality(s) <= n}
Tabled(f, S, n) == \E g \in [Small(S, n) -> Int] : AddsUp(g, f, Small(S, n))

LEMMA TabledEmpty ==
  ASSUME NEW S, IsFiniteSet(S), NEW f
  PROVE  Tabled(f, S, 0)
<1> DEFINE g == [s \in Small(S, 0) |-> 0]
<1>1. \A s \in Small(S, 0) : s = {}
  <2> TAKE s \in Small(S, 0)
  <2>1. s \in SUBSET S /\ Cardinality(s) <= 0
    BY DEF Small
  <2>2. IsFiniteSet(s)
    BY <2>1, FS_Subset
  <2>3. QED
    BY <2>1, <2>2, FS_CardinalityType, FS_EmptySet
<1>2. AddsUp(g, f, Small(S, 0))
  BY <1>1 DEF AddsUp
<1>3. QED
  BY <1>2 DEF Tabled

LEMMA TabledNext ==
  ASSUME NEW S, IsFiniteSet(S), NEW f, \A x \in S : f[x] \in Int,
         NEW n \in Nat, Tabled(f, S, n)
  PROVE  Tabled(f, S, n + 1)
<1>1. PICK g \in [Small(S, n) -> Int] : AddsUp(g, f, Small(S, n))
  BY DEF Tabled
<1> DEFINE h == [s \in Small(S, n + 1) |-> IF s = {} THEN 0 ELSE f[Pick(s)] + g[s \ {Pick(s)}]]
<1>2. ASSUME NEW s \in Small(S, n + 1), s # {}
      PROVE  s \ {Pick(s)} \in Small(S, n) /\ f[Pick(s)] \in Int
  <2>1. s \in SUBSET S /\ Cardinality(s) <= n + 1 /\ Pick(s) \in s
    BY <1>2, Picked DEF Small
  <2>2. IsFiniteSet(s)
    BY <2>1, FS_Subset
  <2>3. Cardinality(s) \in Nat /\ Cardinality(s \ {Pick(s)}) = Cardinality(s) - 1
    BY <2>1, <2>2, FS_RemoveElement, FS_CardinalityType
  <2>4. QED
    BY <2>1, <2>3 DEF Small
<1>3. h \in [Small(S, n + 1) -> Int]
  BY <1>2
<1>4. ASSUME NEW s \in Small(S, n) PROVE s \in Small(S, n + 1) /\ h[s] = g[s]
  <2>1. s \in Small(S, n + 1)
    <3>1. s \in SUBSET S /\ Cardinality(s) <= n
      BY DEF Small
    <3>2. Cardinality(s) \in Nat
      BY <3>1, FS_Subset, FS_CardinalityType
    <3>3. QED
      BY <3>1, <3>2 DEF Small
  <2>2. QED
    BY <1>1, <2>1 DEF AddsUp
<1>5. AddsUp(h, f, Small(S, n + 1))
  BY <1>2, <1>4 DEF AddsUp
<1>6. QED
  BY <1>3, <1>5 DEF Tabled

LEMMA TableExists ==
  ASSUME NEW S, IsFiniteSet(S), NEW f, \A x \in S : f[x] \in Int
  PROVE  \E g \in [SUBSET S -> Int] : AddsUp(g, f, SUBSET S)
<1> DEFINE Bad == {n \in Nat : ~Tabled(f, S, n)}
<1>1. Bad = {}
  <2> SUFFICES ASSUME Bad # {} PROVE FALSE
    OBVIOUS
  <2>1. PICK n \in Bad : \A m \in Bad : n <= m
    BY LeastOf
  <2>2. n # 0
    BY TabledEmpty
  <2>3. n - 1 \in Nat /\ Tabled(f, S, n - 1)
    BY <2>1, <2>2
  <2>4. Tabled(f, S, (n - 1) + 1)
    BY <2>3, TabledNext
  <2>5. QED
    BY <2>4
<1>2. Cardinality(S) \in Nat
  BY FS_CardinalityType
<1>3. Small(S, Cardinality(S)) = SUBSET S
  BY FS_Subset DEF Small
<1>4. Tabled(f, S, Cardinality(S))
  BY <1>1, <1>2
<1>5. QED
  BY <1>3, <1>4 DEF Tabled

(* Two tables agree on every set on which what they add up agrees. *)
LEMMA TablesAgree ==
  ASSUME NEW U, IsFiniteSet(U), NEW f, NEW h, \A x \in U : f[x] = h[x],
         NEW F, AddsUp(F, f, SUBSET U), NEW H, AddsUp(H, h, SUBSET U)
  PROVE  F[U] = H[U]
<1> DEFINE Bad == {n \in Nat : \E s \in SUBSET U : Cardinality(s) = n /\ F[s] # H[s]}
<1>1. Bad = {}
  <2> SUFFICES ASSUME Bad # {} PROVE FALSE
    OBVIOUS
  <2>1. PICK n \in Bad : \A m \in Bad : n <= m
    BY LeastOf
  <2>2. PICK s \in SUBSET U : Cardinality(s) = n /\ F[s] # H[s]
    OBVIOUS
  <2>3. s # {}
    BY <2>2 DEF AddsUp
  <2> DEFINE t == s \ {Pick(s)}
  <2>4. Pick(s) \in s
    BY <2>3, Picked
  <2>5. IsFiniteSet(s)
    BY FS_Subset
  <2>6. Cardinality(t) = n - 1 /\ Cardinality(t) \in Nat /\ t \in SUBSET U
    BY <2>2, <2>4, <2>5, FS_RemoveElement, FS_CardinalityType
  <2>7. F[t] = H[t]
    BY <2>1, <2>6
  <2>8. F[s] = f[Pick(s)] + F[t] /\ H[s] = h[Pick(s)] + H[t]
    BY <2>3 DEF AddsUp
  <2>9. f[Pick(s)] = h[Pick(s)]
    BY <2>4
  <2>10. QED
    BY <2>2, <2>7, <2>8, <2>9
<1>2. Cardinality(U) \in Nat
  BY FS_CardinalityType
<1>3. QED
  BY <1>1, <1>2

(* In a table any element may be taken first. *)
LEMMA AnyOrder ==
  ASSUME NEW S, IsFiniteSet(S), NEW f, \A x \in S : f[x] \in Int,
         NEW g \in [SUBSET S -> Int], AddsUp(g, f, SUBSET S),
         NEW T \in SUBSET S, NEW x \in T
  PROVE  g[T] = f[x] + g[T \ {x}]
<1> DEFINE Off(s) == \E y \in s : g[s] # f[y] + g[s \ {y}]
<1> DEFINE Bad == {n \in Nat : \E s \in SUBSET S : Cardinality(s) = n /\ Off(s)}
<1>1. Bad = {}
  <2> SUFFICES ASSUME Bad # {} PROVE FALSE
    OBVIOUS
  <2>1. PICK n \in Bad : \A m \in Bad : n <= m
    BY LeastOf
  <2>2. PICK s \in SUBSET S : Cardinality(s) = n /\ Off(s)
    OBVIOUS
  <2>3. PICK y \in s : g[s] # f[y] + g[s \ {y}]
    BY <2>2
  <2> DEFINE p == Pick(s)
  <2>4. p \in s /\ g[s] = f[p] + g[s \ {p}]
    BY <2>3, Picked DEF AddsUp
  <2>5. p # y
    BY <2>3, <2>4
  <2>6. IsFiniteSet(s) /\ n \in Nat
    BY FS_Subset
  <2> HIDE DEF p, Off
  <2>7. Cardinality(s \ {p}) = n - 1 /\ n - 1 \in Nat
    <3>1. IsFiniteSet(s \ {p}) /\ Cardinality(s \ {p}) = Cardinality(s) - 1
      BY <2>4, <2>6, FS_RemoveElement
    <3>2. Cardinality(s \ {p}) \in Nat
      BY <3>1, FS_CardinalityType
    <3>3. QED
      BY <2>2, <3>1, <3>2
  <2>8. Cardinality(s \ {y}) = n - 1
    BY <2>2, <2>3, <2>6, FS_RemoveElement
  <2>9. ~Off(s \ {p}) /\ ~Off(s \ {y})
    BY <2>1, <2>7, <2>8
  <2>10. g[s \ {p}] = f[y] + g[(s \ {p}) \ {y}]
    BY <2>5, <2>9 DEF Off
  <2>11. g[s \ {y}] = f[p] + g[(s \ {y}) \ {p}]
    BY <2>4, <2>5, <2>9 DEF Off
  <2> DEFINE rest == g[(s \ {p}) \ {y}]
  <2>12. rest = g[(s \ {y}) \ {p}]
    <3>1. (s \ {p}) \ {y} = (s \ {y}) \ {p}
      OBVIOUS
    <3>2. QED
      BY <3>1
  <2>13. f[p] \in Int /\ f[y] \in Int /\ rest \in Int
    BY <2>4
  <2> HIDE DEF rest
  <2>14. QED
    <3>1. g[s \ {p}] = f[y] + rest
      BY <2>10 DEF rest
    <3>2. g[s \ {y}] = f[p] + rest
      BY <2>11, <2>12
    <3>3. g[s] # f[y] + (f[p] + rest) /\ g[s] = f[p] + (f[y] + rest)
      BY <2>3, <2>4, <3>1, <3>2
    <3>4. QED
      BY <2>13, <3>3
<1>2. Cardinality(T) \in Nat
  BY FS_Subset, FS_CardinalityType
<1>3. ~Off(T)
  BY <1>1, <1>2
<1>4. QED
  BY <1>3

LEMMA TableIsSound ==
  ASSUME NEW S, IsFiniteSet(S), NEW f, \A x \in S : f[x] \in Int
  PROVE  Table(f, S) \in [SUBSET S -> Int] /\ AddsUp(Table(f, S), f, SUBSET S)
<1> DEFINE T == Table(f, S)
<1>1. PICK g \in [SUBSET S -> Int] : AddsUp(g, f, SUBSET S)
  BY TableExists
<1>2. g = [s \in SUBSET S |-> IF s = {} THEN 0 ELSE f[Pick(s)] + g[s \ {Pick(s)}]]
  BY <1>1 DEF AddsUp
<1>3. T = [s \in SUBSET S |-> IF s = {} THEN 0 ELSE f[Pick(s)] + T[s \ {Pick(s)}]]
  BY <1>2 DEF Table
<1> HIDE DEF T
<1>4. DOMAIN T = SUBSET S /\ AddsUp(T, f, SUBSET S)
  BY <1>3 DEF AddsUp
<1>5. \A U \in SUBSET S : T[U] = g[U]
  <2> TAKE U \in SUBSET S
  <2>1. IsFiniteSet(U) /\ \A x \in U : f[x] = f[x]
    BY FS_Subset
  <2>2. AddsUp(T, f, SUBSET U) /\ AddsUp(g, f, SUBSET U)
    BY <1>1, <1>4 DEF AddsUp
  <2>3. QED
    BY <2>1, <2>2, TablesAgree
<1>6. T \in [SUBSET S -> Int]
  BY <1>1, <1>3, <1>5
<1>7. QED
  BY <1>4, <1>6 DEF T

LEMMA SumSame ==
  ASSUME NEW S, IsFiniteSet(S), NEW f, NEW h,
         \A x \in S : f[x] \in Int /\ h[x] = f[x]
  PROVE  SumFunctionOnSet(f, S) = SumFunctionOnSet(h, S)
<1>1. AddsUp(Table(f, S), f, SUBSET S)
  BY TableIsSound
<1>2. \A x \in S : f[x] = h[x] /\ h[x] \in Int
  OBVIOUS
<1>3. AddsUp(Table(h, S), h, SUBSET S)
  BY <1>2, TableIsSound
<1>4. Table(f, S)[S] = Table(h, S)[S]
  BY <1>1, <1>2, <1>3, TablesAgree
<1>5. QED
  BY <1>4, SumIsLookedUp

LEMMA SumSplit ==
  ASSUME NEW S, IsFiniteSet(S), NEW f, \A x \in S : f[x] \in Int, NEW k \in S
  PROVE  SumFunctionOnSet(f, S) = f[k] + SumFunctionOnSet(f, S \ {k})
<1> DEFINE R == S \ {k}
           T == Table(f, S)
<1>1. T \in [SUBSET S -> Int] /\ AddsUp(T, f, SUBSET S)
  BY TableIsSound
<1>2. IsFiniteSet(R)
  BY FS_RemoveElement
<1>3. AddsUp(Table(f, R), f, SUBSET R)
  BY <1>2, TableIsSound
<1> HIDE DEF T
<1>4. AddsUp(T, f, SUBSET R)
  BY <1>1 DEF AddsUp
<1>5. T[R] = Table(f, R)[R]
  BY <1>2, <1>3, <1>4, TablesAgree
<1>6. T[S] = f[k] + T[R]
  BY <1>1, AnyOrder
<1>7. QED
  BY <1>5, <1>6, SumIsLookedUp DEF T

LEMMA SumType ==
  ASSUME NEW S, IsFiniteSet(S), NEW f, \A x \in S : f[x] \in Int
  PROVE  SumFunctionOnSet(f, S) \in Int
  BY TableIsSound, SumIsLookedUp

LEMMA SumOfNothing ==
  ASSUME NEW f, DOMAIN f = {}
  PROVE  SumFunction(f) = 0
<1>1. IsFiniteSet({})
  BY FS_EmptySet
<1>2. AddsUp(Table(f, {}), f, SUBSET {})
  BY <1>1, TableIsSound
<1>3. SumFunctionOnSet(f, {}) = 0
  BY <1>2, SumIsLookedUp DEF AddsUp
<1>4. QED
  BY <1>3 DEF SumFunction

(* Raising one entry, or making a new one, raises the sum by as much. *)
LEMMA SumRaised ==
  ASSUME NEW D, IsFiniteSet(D), NEW f, DOMAIN f = D, NEW h, NEW k, DOMAIN h = D \cup {k},
         \A x \in D : f[x] \in Int, \A x \in D : x # k => h[x] = f[x],
         NEW d \in Int, h[k] = (IF k \in D THEN f[k] ELSE 0) + d
  PROVE  SumFunction(h) = SumFunction(f) + d
<1> DEFINE R == D \ {k}
<1>1. IsFiniteSet(R) /\ IsFiniteSet(D \cup {k}) /\ (D \cup {k}) \ {k} = R
  BY FS_RemoveElement, FS_AddElement
<1>2. \A x \in D \cup {k} : h[x] \in Int
  OBVIOUS
<1>3. SumFunctionOnSet(h, D \cup {k}) = h[k] + SumFunctionOnSet(h, R)
  BY <1>1, <1>2, SumSplit
<1>4. SumFunctionOnSet(f, R) = SumFunctionOnSet(h, R)
  BY <1>1, SumSame
<1>5. SumFunctionOnSet(f, R) \in Int
  BY <1>1, SumType
<1>6. CASE k \in D
  <2>1. SumFunctionOnSet(f, D) = f[k] + SumFunctionOnSet(f, R)
    BY <1>6, SumSplit
  <2> DEFINE r == SumFunctionOnSet(f, R)
  <2>2. f[k] \in Int /\ h[k] = f[k] + d
    BY <1>6
  <2>3. SumFunction(f) = f[k] + r /\ SumFunction(h) = (f[k] + d) + r
    BY <1>3, <1>4, <2>1, <2>2 DEF SumFunction
  <2>4. r \in Int
    BY <1>5
  <2> HIDE DEF r
  <2>5. QED
    BY <2>2, <2>3, <2>4
<1>7. CASE k \notin D
  <2> DEFINE r == SumFunctionOnSet(f, D)
  <2>1. R = D /\ h[k] = d
    BY <1>7
  <2>2. SumFunction(f) = r /\ SumFunction(h) = d + r /\ r \in Int
    BY <1>3, <1>4, <1>5, <2>1 DEF SumFunction
  <2> HIDE DEF r
  <2>3. QED
    BY <2>2
<1>8. QED
  BY <1>6, <1>7
-----------------------------------------------------------------------------
(* Buckets *)

LEMMA EmptyTally == IsTally(<<>>) /\ SumFunction(<<>>) = 0 /\ DOMAIN <<>> = {}
<1>1. DOMAIN <<>> = {}
  OBVIOUS
<1>2. QED
  BY <1>1, FS_EmptySet, SumOfNothing DEF IsTally

LEMMA IncTally ==
  ASSUME NEW f, IsTally(f), NEW k \in Int
  PROVE  /\ IsTally(Inc(f, k))
         /\ SumFunction(Inc(f, k)) = SumFunction(f) + 1
         /\ \A c : Count(Inc(f, k), c) = Count(f, c) + (IF c = k THEN 1 ELSE 0)
<1> DEFINE h == Inc(f, k)
<1>1. DOMAIN h = DOMAIN f \cup {k} /\ h[k] = (IF k \in DOMAIN f THEN f[k] ELSE 0) + 1
  BY DEF IsTally, Inc
<1>2. \A c \in DOMAIN f : c # k => h[c] = f[c]
  BY DEF Inc
<1>3. IsFiniteSet(DOMAIN f) /\ \A c \in DOMAIN f : f[c] \in Nat
  BY DEF IsTally
<1>4. IsFiniteSet(DOMAIN h)
  BY <1>1, <1>3, FS_AddElement
<1> HIDE DEF h
<1>5. IsTally(h)
  BY <1>1, <1>2, <1>3, <1>4 DEF IsTally
<1>6. SumFunction(h) = SumFunction(f) + 1
  BY <1>1, <1>2, <1>3, SumRaised
<1>7. \A c : Count(h, c) = Count(f, c) + (IF c = k THEN 1 ELSE 0)
  BY <1>1, <1>2, <1>3 DEF Count
<1>8. QED
  BY <1>5, <1>6, <1>7 DEF h

LEMMA NewBucketSound == SoundBucket(NewBucket)
<1>1. IsBucket(NewBucket)
  BY EmptyTally DEF IsBucket, NewBucket
<1>2. \A k \in DOMAIN Boundaries : Boundaries[k] \in Nat /\ NewBucket.counts[k] = 0
  BY RegistryAssumption DEF NewBucket
<1>3. \A k \in 2 .. Len(Boundaries) : NewBucket.counts[k - 1] = 0 /\ NewBucket.counts[k] = 0
  BY RegistryAssumption DEF NewBucket
<1>4. /\ NewBucket.requests = 0 /\ NewBucket.totalLatency = 0 /\ NewBucket.maxLatency = 0
      /\ NewBucket.statusCodes = <<>>
  BY DEF NewBucket
<1>5. QED
  BY <1>1, <1>2, <1>3, <1>4, EmptyTally DEF SoundBucket

(* What RecordBucket does to each part of a bucket. *)
LEMMA RecordBucketParts ==
  ASSUME NEW b, IsBucket(b), NEW rec \in Records
  PROVE  LET a == RecordBucket(b, rec)
         IN  /\ IsBucket(a)
             /\ a.requests = b.requests + 1
             /\ a.totalLatency = b.totalLatency + rec.latency
             /\ a.maxLatency = IF rec.latency > b.maxLatency THEN rec.latency ELSE b.maxLatency
             /\ a.statusCodes = Inc(b.statusCodes, rec.status)
             /\ \A k \in DOMAIN Boundaries :
                  a.counts[k] = IF rec.latency <= Boundaries[k] THEN b.counts[k] + 1 ELSE b.counts[k]
<1> DEFINE a == RecordBucket(b, rec)
           counts == [k \in DOMAIN b.counts |->
                        IF rec.latency <= Boundaries[k] THEN b.counts[k] + 1 ELSE b.counts[k]]
<1>1. rec.latency \in Nat /\ rec.status \in Int
  BY DEF Records
<1>2. /\ b.requests \in Nat /\ b.totalLatency \in Nat /\ b.maxLatency \in Nat
      /\ IsTally(b.statusCodes) /\ b.counts \in [DOMAIN Boundaries -> Nat]
  BY DEF IsBucket
<1>3. a = [requests |-> b.requests + 1, totalLatency |-> b.totalLatency + rec.latency,
           maxLatency |-> IF rec.latency > b.maxLatency THEN rec.latency ELSE b.maxLatency,
           statusCodes |-> Inc(b.statusCodes, rec.status), counts |-> counts]
  BY Zenon DEF RecordBucket
<1>4. counts \in [DOMAIN Boundaries -> Nat]
  BY <1>2
<1>5. IsTally(Inc(b.statusCodes, rec.status))
  BY <1>1, <1>2, IncTally
<1> HIDE DEF a
<1>6. /\ a.requests = b.requests + 1
      /\ a.totalLatency = b.totalLatency + rec.latency
      /\ a.maxLatency = IF rec.latency > b.maxLatency THEN rec.latency ELSE b.maxLatency
      /\ a.statusCodes = Inc(b.statusCodes, rec.status)
      /\ a.counts = counts
  BY <1>3
<1>7. \A k \in DOMAIN Boundaries :
        a.counts[k] = IF rec.latency <= Boundaries[k] THEN b.counts[k] + 1 ELSE b.counts[k]
  BY <1>2, <1>6
<1> HIDE DEF counts
<1>8. IsBucket(a)
  BY <1>1, <1>2, <1>4, <1>5, <1>6 DEF IsBucket
<1>9. QED
  BY <1>6, <1>7, <1>8 DEF a

(* The average stays below the maximum. *)
LEMMA AverageBelowMaximum ==
  ASSUME NEW t \in Nat, NEW m \in Nat, NEW n \in Nat, NEW x \in Nat, NEW m2 \in Nat,
         t <= m * n, m <= m2, x <= m2
  PROVE  t + x <= m2 * (n + 1)
<1>1. m * n <= m2 * n
  OBVIOUS
<1>2. m2 * (n + 1) = m2 * n + m2
  OBVIOUS
<1>3. m * n \in Nat /\ m2 * n \in Nat
  OBVIOUS
<1>4. QED
  BY <1>1, <1>2, <1>3

LEMMA RecordBucketSound ==
  ASSUME NEW b, SoundBucket(b), NEW rec \in Records
  PROVE  SoundBucket(RecordBucket(b, rec))
<1> DEFINE a == RecordBucket(b, rec)
<1>1. IsBucket(b)
  BY DEF SoundBucket
<1>2. /\ IsBucket(a)
      /\ a.requests = b.requests + 1
      /\ a.totalLatency = b.totalLatency + rec.latency
      /\ a.maxLatency = IF rec.latency > b.maxLatency THEN rec.latency ELSE b.maxLatency
      /\ a.statusCodes = Inc(b.statusCodes, rec.status)
      /\ \A k \in DOMAIN Boundaries :
           a.counts[k] = IF rec.latency <= Boundaries[k] THEN b.counts[k] + 1 ELSE b.counts[k]
  BY <1>1, RecordBucketParts
<1> HIDE DEF a
<1>3. rec.latency \in Nat /\ rec.status \in Int
  BY DEF Records
<1>4. /\ b.requests \in Nat /\ b.totalLatency \in Nat /\ b.maxLatency \in Nat
      /\ \A k \in DOMAIN Boundaries : b.counts[k] \in Nat /\ Boundaries[k] \in Nat
  BY <1>1, RegistryAssumption DEF IsBucket
<1>5. a.requests = SumFunction(a.statusCodes)
  <2>1. IsTally(b.statusCodes) /\ b.requests = SumFunction(b.statusCodes)
    BY <1>1 DEF IsBucket, SoundBucket
  <2>2. QED
    BY <1>2, <1>3, <2>1, IncTally
<1>6. a.totalLatency <= a.maxLatency * a.requests
  <2>1. b.totalLatency <= b.maxLatency * b.requests
    BY DEF SoundBucket
  <2>2. a.maxLatency \in Nat /\ b.maxLatency <= a.maxLatency /\ rec.latency <= a.maxLatency
    BY <1>2, <1>3, <1>4
  <2>3. b.totalLatency + rec.latency <= a.maxLatency * (b.requests + 1)
    BY <1>3, <1>4, <2>1, <2>2, AverageBelowMaximum
  <2>4. QED
    BY <1>2, <2>3
<1>7. ASSUME NEW k \in DOMAIN Boundaries
      PROVE  /\ a.counts[k] <= a.requests
             /\ a.counts[k] = a.requests <=> a.maxLatency <= Boundaries[k]
  <2>1. /\ b.counts[k] <= b.requests
        /\ b.counts[k] = b.requests <=> b.maxLatency <= Boundaries[k]
    BY DEF SoundBucket
  <2>2. QED
    BY <1>2, <1>3, <1>4, <2>1
<1>8. ASSUME NEW k \in 2 .. Len(Boundaries) PROVE a.counts[k - 1] <= a.counts[k]
  <2>1. b.counts[k - 1] <= b.counts[k]
    BY DEF SoundBucket
  <2>2. k \in DOMAIN Boundaries /\ k - 1 \in DOMAIN Boundaries /\ Boundaries[k - 1] < Boundaries[k]
    BY RegistryAssumption
  <2>3. /\ a.counts[k - 1] = IF rec.latency <= Boundaries[k - 1] THEN b.counts[k - 1] + 1
                                                               ELSE b.counts[k - 1]
        /\ a.counts[k] = IF rec.latency <= Boundaries[k] THEN b.counts[k] + 1 ELSE b.counts[k]
    BY <1>2, <2>2
  <2>4. /\ b.counts[k - 1] \in Nat /\ b.counts[k] \in Nat
        /\ Boundaries[k - 1] \in Nat /\ Boundaries[k] \in Nat
    BY <1>4, <2>2
  <2>5. (IF rec.latency <= Boundaries[k - 1] THEN b.counts[k - 1] + 1 ELSE b.counts[k - 1])
          <= (IF rec.latency <= Boundaries[k] THEN b.counts[k] + 1 ELSE b.counts[k])
    <3> DEFINE n == b.counts[k - 1]
               m == b.counts[k]
               x == Boundaries[k - 1]
               y == Boundaries[k]
               latency == rec.latency
    <3>1. n <= m /\ x < y
      BY <2>1, <2>2
    <3>2. n \in Nat /\ m \in Nat /\ x \in Nat /\ y \in Nat /\ latency \in Nat
      BY <1>3, <2>4
    <3> HIDE DEF n, m, x, y, latency
    <3>3. (IF latency <= x THEN n + 1 ELSE n) <= (IF latency <= y THEN m + 1 ELSE m)
      BY ONLY <3>1, <3>2
    <3>4. QED
      BY <3>3, Zenon DEF n, m, x, y, latency
  <2>6. QED
    BY <2>3, <2>5, Zenon
<1>9. QED
  BY <1>2, <1>5, <1>6, <1>7, <1>8 DEF SoundBucket, a

(* A record counted in the total and in its route leaves them consistent. *)
LEMMA CountedConsistent ==
  ASSUME NEW T, NEW rts, Consistent(T, rts), NEW rec \in Records
  PROVE  Consistent(RecordBucket(T, rec), Counted(rts, rec))
<1> DEFINE tot == RecordBucket(T, rec)
           old == BucketOf(rts, rec.id)
           new == RecordBucket(old, rec)
           out == Counted(rts, rec)
           D   == DOMAIN rts
<1>1. rec.id \in Texts /\ rec.status \in Int /\ rec.latency \in Nat
  BY DEF Records
<1>2. /\ SoundBucket(T) /\ IsFiniteSet(D) /\ D \subseteq Texts
      /\ \A i \in D : SoundBucket(rts[i])
  BY DEF Consistent
<1>3. SoundBucket(old)
  BY <1>2, NewBucketSound DEF BucketOf
<1>4. SoundBucket(tot) /\ SoundBucket(new)
  BY <1>2, <1>3, RecordBucketSound
<1>5. /\ tot.requests = T.requests + 1 /\ tot.totalLatency = T.totalLatency + rec.latency
      /\ tot.statusCodes = Inc(T.statusCodes, rec.status)
      /\ new.requests = old.requests + 1 /\ new.totalLatency = old.totalLatency + rec.latency
      /\ new.statusCodes = Inc(old.statusCodes, rec.status)
  BY <1>2, <1>3, RecordBucketParts DEF SoundBucket
<1>6. /\ old = IF rec.id \in D THEN rts[rec.id] ELSE NewBucket
      /\ NewBucket.requests = 0 /\ NewBucket.totalLatency = 0 /\ NewBucket.statusCodes = <<>>
  BY DEF BucketOf, NewBucket
<1> HIDE DEF tot, old, new
<1>7. /\ DOMAIN out = D \cup {rec.id} /\ out[rec.id] = new
      /\ \A i \in D : i # rec.id => out[i] = rts[i]
      /\ out = [i \in DOMAIN out |-> out[i]]
  BY DEF Counted, new, old
<1> HIDE DEF out
<1>8. IsFiniteSet(DOMAIN out) /\ DOMAIN out \subseteq Texts
  <2>1. IsFiniteSet(D \cup {rec.id})
    BY <1>2, FS_AddElement
  <2>2. QED
    BY <1>1, <1>2, <1>7, <2>1
<1>9. \A i \in DOMAIN out : SoundBucket(out[i])
  BY <1>2, <1>4, <1>7
<1>10. \A i \in D : /\ rts[i].requests \in Int /\ rts[i].totalLatency \in Int
                     /\ IsTally(rts[i].statusCodes)
  BY <1>2 DEF SoundBucket, IsBucket
<1>11. tot.requests = SumFunction(Requests(out))
  <2> DEFINE f == Requests(rts)
             h == Requests(out)
  <2>1. DOMAIN f = D /\ DOMAIN h = D \cup {rec.id}
    BY <1>7 DEF Requests
  <2>2. \A i \in D : f[i] \in Int /\ (i # rec.id => h[i] = f[i])
    BY <1>7, <1>10 DEF Requests
  <2>3. h[rec.id] = (IF rec.id \in D THEN f[rec.id] ELSE 0) + 1
    BY <1>5, <1>6, <1>7 DEF Requests
  <2>4. T.requests = SumFunction(f)
    BY DEF Consistent
  <2> HIDE DEF f, h, D
  <2>5. SumFunction(h) = SumFunction(f) + 1
    BY <1>2, <2>1, <2>2, <2>3, SumRaised
  <2>6. QED
    BY <1>5, <2>4, <2>5 DEF h
<1>12. tot.totalLatency = SumFunction(TotalLatencies(out))
  <2> DEFINE f == TotalLatencies(rts)
             h == TotalLatencies(out)
  <2>1. DOMAIN f = D /\ DOMAIN h = D \cup {rec.id}
    BY <1>7 DEF TotalLatencies
  <2>2. \A i \in D : f[i] \in Int /\ (i # rec.id => h[i] = f[i])
    BY <1>7, <1>10 DEF TotalLatencies
  <2>3. h[rec.id] = (IF rec.id \in D THEN f[rec.id] ELSE 0) + rec.latency
    BY <1>5, <1>6, <1>7 DEF TotalLatencies
  <2>4. T.totalLatency = SumFunction(f)
    BY DEF Consistent
  <2> HIDE DEF f, h, D
  <2>5. SumFunction(h) = SumFunction(f) + rec.latency
    BY <1>1, <1>2, <2>1, <2>2, <2>3, SumRaised
  <2>6. QED
    BY <1>5, <2>4, <2>5 DEF h
<1>13. ASSUME NEW c \in Int PROVE Count(tot.statusCodes, c) = SumFunction(Counts(out, c))
  <2> DEFINE f == Counts(rts, c)
             h == Counts(out, c)
             d == IF c = rec.status THEN 1 ELSE 0
  <2>1. DOMAIN f = D /\ DOMAIN h = D \cup {rec.id}
    BY <1>7 DEF Counts
  <2>2. \A i \in D : f[i] \in Int /\ (i # rec.id => h[i] = f[i])
    BY <1>7, <1>10 DEF Counts, Count, IsTally
  <2>3. h[rec.id] = Count(new.statusCodes, c)
    BY <1>7 DEF Counts
  <2>4. Count(new.statusCodes, c) = Count(old.statusCodes, c) + d
    <3>1. IsTally(old.statusCodes)
      BY <1>3 DEF SoundBucket, IsBucket
    <3>2. QED
      BY <1>1, <1>5, <3>1, IncTally
  <2>5. Count(old.statusCodes, c) = IF rec.id \in D THEN f[rec.id] ELSE 0
    BY <1>6, EmptyTally DEF Counts, Count
  <2>6. Count(tot.statusCodes, c) = Count(T.statusCodes, c) + d
    <3>1. IsTally(T.statusCodes)
      BY <1>2 DEF SoundBucket, IsBucket
    <3>2. QED
      BY <1>1, <1>5, <3>1, IncTally
  <2>7. Count(T.statusCodes, c) = SumFunction(f)
    BY DEF Consistent
  <2>8. d \in Int
    OBVIOUS
  <2> HIDE DEF f, h, D, d
  <2>9. SumFunction(h) = SumFunction(f) + d
    BY <1>2, <2>1, <2>2, <2>3, <2>4, <2>5, <2>8, SumRaised
  <2>10. QED
    BY <2>6, <2>7, <2>9 DEF h
<1>14. QED
  BY <1>4, <1>7, <1>8, <1>9, <1>11, <1>12, <1>13 DEF Consistent, tot, out

(* A registry that has recorded nothing is consistent. *)
LEMMA NewConsistent == Consistent(NewBucket, <<>>)
<1>1. DOMAIN <<>> = {} /\ IsFiniteSet({})
  BY FS_EmptySet
<1>2. <<>> = [i \in DOMAIN <<>> |-> <<>>[i]]
  OBVIOUS
<1>3. NewBucket.requests = 0 /\ NewBucket.totalLatency = 0 /\ NewBucket.statusCodes = <<>>
  BY DEF NewBucket
<1>4. SumFunction(Requests(<<>>)) = 0
  BY <1>1, SumOfNothing DEF Requests
<1>5. SumFunction(TotalLatencies(<<>>)) = 0
  BY <1>1, SumOfNothing DEF TotalLatencies
<1>6. \A c : SumFunction(Counts(<<>>, c)) = 0 /\ Count(<<>>, c) = 0
  BY <1>1, SumOfNothing DEF Counts, Count
<1>7. QED
  BY <1>1, <1>2, <1>3, <1>4, <1>5, <1>6, NewBucketSound DEF Consistent
-----------------------------------------------------------------------------
(* Steps *)

LEMMA SanitizedType ==
  ASSUME NEW id \in Texts, NEW status \in Int, NEW latency \in Int
  PROVE  Sanitized(id, status, latency) \in Records
<1>1. Unknown \in Texts
  <2>1. "unknown" \in Chars
    BY DEF Chars
  <2>2. QED
    BY <2>1 DEF Unknown, Texts
<1>2. QED
  BY <1>1 DEF Sanitized, Records

LEMMA RouteIDsAreTexts == RouteIDs \subseteq Texts
<1>1. ASSUME NEW id \in RouteIDs PROVE id \in Texts
  <2>1. id \in Seq(Characters)
    BY RegistryAssumption
  <2>2. Characters \subseteq Chars
    BY DEF Chars
  <2>3. QED
    BY <2>1, <2>2, SeqMonotonic DEF Texts
<1>2. QED
  BY <1>1

LEMMA NoRecordType == NoRecord \in Records
<1>1. <<>> \in Texts
  BY DEF Texts
<1>2. QED
  BY <1>1, SanitizedType DEF NoRecord

LEMMA InitIInv == Init => IInv
<1> SUFFICES ASSUME Init PROVE IInv
  OBVIOUS
<1>1. LockInv
  BY RegistryAssumption DEF Init, LockInv
<1>3. CountInv
  BY NoRecordType, NewConsistent DEF Init, CountInv
<1>4. <<>> = [i \in DOMAIN <<>> |-> routes[i]] /\ DOMAIN <<>> = {}
  OBVIOUS
<1>5. CopyInv
  BY <1>4 DEF Init, CopyInv
<1>6. NoSnapshot.total = NewBucket /\ NoSnapshot.routes = <<>>
  BY DEF NoSnapshot
<1>7. ScrapeInv
  BY <1>6, NewConsistent DEF Init, ScrapeInv
<1>8. QED
  BY <1>1, <1>3, <1>5, <1>7 DEF IInv

(* A process that goes on without touching the lock. *)
LEMMA RecordStepInv ==
  ASSUME IInv, NEW r \in Recorders, NEW id \in RouteIDs, NEW status \in StatusCodes,
         NEW latency \in Latencies, Record(r, id, status, latency)
  PROVE  IInv'
<1>1. LockInv /\ CountInv /\ CopyInv /\ ScrapeInv
  BY DEF IInv
<1>2. /\ pc[r] = "idle" /\ pc' = [pc EXCEPT ![r] = "lock"]
      /\ record' = [record EXCEPT ![r] = Sanitized(id, status, latency)]
      /\ UNCHANGED <<total, routes, writer, readers, copied, scraped>>
  BY DEF Record, GoTo
<1>3. r \notin Scrapers /\ writer # r
  BY <1>1, <1>2, RegistryAssumption DEF LockInv
<1>4. LockInv'
  BY <1>1, <1>2, <1>3 DEF LockInv
<1>5. CountInv'
  <2>1. Sanitized(id, status, latency) \in Records
    BY RegistryAssumption, SanitizedType, RouteIDsAreTexts
  <2>2. record' \in [Recorders -> Records]
    BY <1>1, <1>2, <2>1 DEF CountInv
  <2>3. writer # None => record'[writer] = record[writer]
    BY <1>1, <1>2, <1>3 DEF LockInv, CountInv
  <2>4. QED
    BY <1>1, <1>2, <2>2, <2>3 DEF CountInv
<1>6. \A s \in Scrapers : pc'[s] = pc[s]
  BY <1>1, <1>2, <1>3 DEF LockInv
<1>7. CopyInv'
  BY <1>1, <1>2, <1>6 DEF CopyInv
<1>8. ScrapeInv'
  BY <1>1, <1>2 DEF ScrapeInv
<1>9. QED
  BY <1>4, <1>5, <1>7, <1>8 DEF IInv

(* The writer counts its record in the total: the routes are then one       *)
(* record behind.                                                           *)
LEMMA RecordTotalInv ==
  ASSUME IInv, NEW r \in Recorders, RecordTotal(r)
  PROVE  IInv'
<1>1. LockInv /\ CountInv /\ CopyInv /\ ScrapeInv
  BY DEF IInv
<1>2. /\ pc[r] = "lock" /\ writer = None /\ readers = {} /\ writer' = r
      /\ total' = RecordBucket(total, record[r]) /\ pc' = [pc EXCEPT ![r] = "route"]
      /\ UNCHANGED <<routes, readers, record, copied, scraped>>
  BY DEF RecordTotal, CanLock, GoTo
<1>3. r \notin Scrapers /\ r # None
  BY RegistryAssumption
<1>4. LockInv'
  <2>1. pc' = [p \in Recorders \cup Scrapers |-> pc'[p]]
    BY <1>1, <1>2 DEF LockInv
  <2>2. pc'[r] = "route" /\ \A p \in Recorders \cup Scrapers : p # r => pc'[p] = pc[p]
    BY <1>1, <1>2 DEF LockInv
  <2>3. \A q \in Recorders : pc'[q] \in {"idle", "lock", "route"} /\ (pc'[q] = "route" <=> writer' = q)
    BY <1>1, <1>2, <2>2, RegistryAssumption DEF LockInv
  <2>4. \A s \in Scrapers : pc'[s] \in {"idle", "rlock", "copy"} /\ (pc'[s] = "copy" <=> s \in readers')
    BY <1>1, <1>2, <1>3, <2>2 DEF LockInv
  <2>5. QED
    BY <1>2, <2>1, <2>3, <2>4 DEF LockInv
<1>5. record[r] \in Records /\ Consistent(total, routes)
  BY <1>1, <1>2 DEF CountInv
<1>6. Consistent(total', Counted(routes, record[r]))
  BY <1>2, <1>5, CountedConsistent
<1>7. CountInv'
  BY <1>1, <1>2, <1>3, <1>6 DEF CountInv
<1>8. \A s \in Scrapers : pc'[s] = pc[s]
  BY <1>1, <1>2, <1>3 DEF LockInv
<1>9. CopyInv'
  BY <1>1, <1>2, <1>8 DEF CopyInv
<1>10. ScrapeInv'
  BY <1>1, <1>2 DEF ScrapeInv
<1>11. QED
  BY <1>4, <1>7, <1>9, <1>10 DEF IInv

(* The writer catches up and lets the waiting readers in, who have copied   *)
(* nothing yet.                                                             *)
LEMMA RecordRouteInv ==
  ASSUME IInv, NEW r \in Recorders, RecordRoute(r)
  PROVE  IInv'
<1>1. LockInv /\ CountInv /\ CopyInv /\ ScrapeInv
  BY DEF IInv
<1>2. /\ pc[r] = "route" /\ record' = [record EXCEPT ![r] = NoRecord]
      /\ writer' = None /\ readers' = WaitingReaders
      /\ UNCHANGED <<total, copied, scraped>>
  BY DEF RecordRoute, Unlock
<1>3. pc' = [p \in DOMAIN pc |-> IF p = r THEN "idle"
                                 ELSE IF p \in WaitingReaders THEN "copy" ELSE pc[p]]
  BY DEF RecordRoute, Unlock
<1>4. routes' = Counted(routes, record[r])
  BY DEF RecordRoute, PutRoute, RouteBucket, Counted, BucketOf
<1>5. writer = r /\ r # None /\ r \notin Scrapers /\ readers = {}
  BY <1>1, <1>2, RegistryAssumption DEF LockInv
<1>6. DOMAIN pc = Recorders \cup Scrapers
  BY <1>1 DEF LockInv
<1>7. /\ pc'[r] = "idle"
      /\ \A q \in Recorders : q # r => pc'[q] = pc[q]
      /\ \A s \in Scrapers : pc'[s] = IF pc[s] = "rlock" THEN "copy" ELSE pc[s]
  BY <1>3, <1>5, <1>6, RegistryAssumption DEF WaitingReaders
<1>8. \A s \in Scrapers : pc[s] # "copy" /\ copied[s] = <<>>
  BY <1>1, <1>5 DEF LockInv, CopyInv
<1>9. LockInv'
  <2>1. pc' = [p \in Recorders \cup Scrapers |-> pc'[p]]
    BY <1>3, <1>6
  <2>2. readers' \subseteq Scrapers /\ \A s \in Scrapers : s \in readers' <=> pc[s] = "rlock"
    BY <1>2 DEF WaitingReaders
  <2>3. \A q \in Recorders : pc'[q] \in {"idle", "lock", "route"} /\ (pc'[q] = "route" <=> writer' = q)
    BY <1>1, <1>2, <1>5, <1>7, RegistryAssumption DEF LockInv
  <2>4. \A s \in Scrapers : pc'[s] \in {"idle", "rlock", "copy"} /\ (pc'[s] = "copy" <=> s \in readers')
    BY <1>1, <1>7, <1>8, <2>2 DEF LockInv
  <2>5. QED
    BY <1>2, <2>1, <2>2, <2>3, <2>4 DEF LockInv
<1>10. CountInv'
  <2>2. record' \in [Recorders -> Records]
    BY <1>1, <1>2, NoRecordType DEF CountInv
  <2>3. Consistent(total', routes')
    BY <1>1, <1>2, <1>4, <1>5 DEF CountInv
  <2>4. QED
    BY <1>2, <2>2, <2>3 DEF CountInv
<1>11. CopyInv'
  <2>1. \A s \in Scrapers : copied'[s] = <<>>
    BY <1>2, <1>8
  <2>2. <<>> = [i \in DOMAIN <<>> |-> routes'[i]] /\ DOMAIN <<>> = {}
    OBVIOUS
  <2>3. copied' = [s \in Scrapers |-> copied'[s]]
    BY <1>1, <1>2 DEF CopyInv
  <2>4. QED
    BY <2>1, <2>2, <2>3 DEF CopyInv
<1>12. ScrapeInv'
  BY <1>1, <1>2 DEF ScrapeInv
<1>13. QED
  BY <1>9, <1>10, <1>11, <1>12 DEF IInv

(* A scraper asks for the lock, or is let in. *)
LEMMA AskOrEnterInv ==
  ASSUME IInv, NEW s \in Scrapers, Scrape(s) \/ BeginSnapshot(s)
  PROVE  IInv'
<1>1. LockInv /\ CountInv /\ CopyInv /\ ScrapeInv
  BY DEF IInv
<1>2. UNCHANGED <<total, routes, writer, record, copied, scraped>> /\ pc[s] # "copy"
  BY DEF Scrape, BeginSnapshot, registry
<1>3. s \notin Recorders
  BY RegistryAssumption
<1>4. LockInv'
  <2>1. CASE Scrape(s)
    BY <1>1, <1>2, <1>3, <2>1 DEF Scrape, GoTo, LockInv, registry
  <2>2. CASE BeginSnapshot(s)
    BY <1>1, <1>2, <1>3, <2>2 DEF BeginSnapshot, CanRLock, GoTo, LockInv, registry
  <2>3. QED
    BY <2>1, <2>2
<1>5. CountInv'
  BY <1>1, <1>2 DEF CountInv
<1>6. \A q \in Scrapers : pc'[q] # "copy" => pc[q] # "copy"
  BY <1>1, <1>2 DEF Scrape, BeginSnapshot, GoTo, LockInv
<1>7. CopyInv'
  BY <1>1, <1>2, <1>6 DEF CopyInv
<1>8. ScrapeInv'
  BY <1>1, <1>2 DEF ScrapeInv
<1>9. QED
  BY <1>4, <1>5, <1>7, <1>8 DEF IInv

(* One more route is copied; the copies of the others stay as they are. *)
LEMMA CopyRouteInv ==
  ASSUME IInv, NEW s \in Scrapers, CopyRoute(s)
  PROVE  IInv'
<1>1. LockInv /\ CountInv /\ CopyInv /\ ScrapeInv
  BY DEF IInv
<1>2. PICK id \in DOMAIN routes \ DOMAIN copied[s] :
        copied' = [copied EXCEPT ![s] =
                     [i \in DOMAIN copied[s] \cup {id} |-> IF i = id THEN routes[id] ELSE copied[s][i]]]
  BY Zenon DEF CopyRoute
<1>3. pc[s] = "copy" /\ UNCHANGED <<total, routes, writer, record, readers, pc, scraped>>
  BY DEF CopyRoute, registry
<1>4. LockInv'
  BY <1>1, <1>3 DEF LockInv
<1>5. CountInv'
  BY <1>1, <1>3 DEF CountInv
<1>6. ScrapeInv'
  BY <1>1, <1>3 DEF ScrapeInv
<1> DEFINE new == [i \in DOMAIN copied[s] \cup {id} |-> IF i = id THEN routes[id] ELSE copied[s][i]]
<1>7. new = [i \in DOMAIN new |-> routes[i]] /\ DOMAIN new \subseteq DOMAIN routes
  <2>1. /\ copied[s] = [i \in DOMAIN copied[s] |-> routes[i]]
        /\ DOMAIN copied[s] \subseteq DOMAIN routes
    BY <1>1 DEF CopyInv
  <2>2. \A i \in DOMAIN copied[s] : copied[s][i] = routes[i]
    BY <2>1
  <2>3. QED
    BY <2>1, <2>2
<1>8. copied' = [copied EXCEPT ![s] = new]
  BY <1>2
<1> HIDE DEF new
<1>9. /\ copied' = [q \in Scrapers |-> copied'[q]]
      /\ copied'[s] = new /\ \A q \in Scrapers : q # s => copied'[q] = copied[q]
  BY <1>1, <1>8 DEF CopyInv
<1>10. CopyInv'
  BY <1>1, <1>3, <1>7, <1>9 DEF CopyInv
<1>11. QED
  BY <1>4, <1>5, <1>6, <1>10 DEF IInv

(* A reader that has copied every route holds the registry's routes, and    *)
(* nobody is writing.                                                       *)
LEMMA FullCopy ==
  ASSUME IInv, NEW s \in Scrapers, EndSnapshot(s)
  PROVE  copied[s] = routes /\ Consistent(total, routes)
<1>1. writer = None
  BY DEF IInv, LockInv, EndSnapshot
<1>2. Consistent(total, routes)
  BY <1>1 DEF IInv, CountInv
<1>3. routes = [i \in DOMAIN routes |-> routes[i]]
  BY <1>2 DEF Consistent
<1>4. copied[s] = [i \in DOMAIN copied[s] |-> routes[i]] /\ DOMAIN copied[s] = DOMAIN routes
  BY DEF IInv, CopyInv, EndSnapshot
<1>5. QED
  BY <1>2, <1>3, <1>4

LEMMA EndSnapshotInv ==
  ASSUME IInv, NEW s \in Scrapers, EndSnapshot(s)
  PROVE  IInv'
<1>1. LockInv /\ CountInv /\ CopyInv /\ ScrapeInv
  BY DEF IInv
<1>2. /\ pc[s] = "copy" /\ readers' = readers \ {s} /\ pc' = [pc EXCEPT ![s] = "idle"]
      /\ scraped' = [scraped EXCEPT ![s] = [total |-> total, routes |-> copied[s]]]
      /\ copied' = [copied EXCEPT ![s] = <<>>]
      /\ UNCHANGED <<total, routes, writer, record>>
  BY DEF EndSnapshot, GoTo, registry
<1>3. s \notin Recorders
  BY RegistryAssumption
<1>4. LockInv'
  <2>1. pc' = [p \in Recorders \cup Scrapers |-> pc'[p]]
    BY <1>1, <1>2 DEF LockInv
  <2>2. pc'[s] = "idle" /\ \A p \in Recorders \cup Scrapers : p # s => pc'[p] = pc[p]
    BY <1>1, <1>2 DEF LockInv
  <2>3. \A q \in Recorders : pc'[q] \in {"idle", "lock", "route"} /\ (pc'[q] = "route" <=> writer' = q)
    BY <1>1, <1>2, <1>3, <2>2 DEF LockInv
  <2>4. \A q \in Scrapers : pc'[q] \in {"idle", "rlock", "copy"} /\ (pc'[q] = "copy" <=> q \in readers')
    BY <1>1, <1>2, <2>2 DEF LockInv
  <2>5. writer' # None => readers' = {}
    BY <1>1, <1>2 DEF LockInv
  <2>6. QED
    BY <1>1, <1>2, <2>1, <2>3, <2>4, <2>5 DEF LockInv
<1>5. CountInv'
  BY <1>1, <1>2 DEF CountInv
<1>6. CopyInv'
  <2>1. \A q \in Scrapers : q # s => pc'[q] = pc[q] /\ copied'[q] = copied[q]
    BY <1>1, <1>2 DEF LockInv, CopyInv
  <2>2. copied'[s] = <<>> /\ copied' = [q \in Scrapers |-> copied'[q]]
    BY <1>1, <1>2 DEF CopyInv
  <2>3. <<>> = [i \in DOMAIN <<>> |-> routes'[i]] /\ DOMAIN <<>> = {}
    OBVIOUS
  <2>4. QED
    BY <1>1, <1>2, <2>1, <2>2, <2>3 DEF CopyInv
<1>7. ScrapeInv'
  <2>1. copied[s] = routes /\ Consistent(total, routes)
    BY FullCopy
  <2>2. /\ scraped'[s] = [total |-> total, routes |-> routes]
        /\ \A q \in Scrapers : q # s => scraped'[q] = scraped[q]
        /\ scraped' = [q \in Scrapers |-> scraped'[q]]
    BY <1>1, <1>2, <2>1 DEF ScrapeInv
  <2>3. scraped'[s].total = total /\ scraped'[s].routes = routes
    BY <2>2
  <2>4. \A q \in Scrapers : Consistent(scraped'[q].total, scraped'[q].routes)
    BY <1>1, <2>1, <2>2, <2>3 DEF ScrapeInv
  <2>5. QED
    BY <2>2, <2>4 DEF ScrapeInv
<1>8. QED
  BY <1>4, <1>5, <1>6, <1>7 DEF IInv

LEMMA StepIInv == IInv /\ [Next]_vars => IInv'
<1> SUFFICES ASSUME IInv, [Next]_vars PROVE IInv'
  OBVIOUS
<1>1. ASSUME NEW r \in Recorders, NEW id \in RouteIDs, NEW status \in StatusCodes,
             NEW latency \in Latencies, Record(r, id, status, latency)
      PROVE  IInv'
  BY <1>1, RecordStepInv
<1>2. ASSUME NEW r \in Recorders, RecordTotal(r) PROVE IInv'
  BY <1>2, RecordTotalInv
<1>3. ASSUME NEW r \in Recorders, RecordRoute(r) PROVE IInv'
  BY <1>3, RecordRouteInv
<1>4. ASSUME NEW s \in Scrapers, Scrape(s) \/ BeginSnapshot(s) PROVE IInv'
  BY <1>4, AskOrEnterInv
<1>5. ASSUME NEW s \in Scrapers, CopyRoute(s) PROVE IInv'
  BY <1>5, CopyRouteInv
<1>6. ASSUME NEW s \in Scrapers, EndSnapshot(s) PROVE IInv'
  BY <1>6, EndSnapshotInv
<1>7. CASE UNCHANGED vars
  BY <1>7 DEF vars, registry, IInv, LockInv, CountInv, CopyInv, ScrapeInv
<1>8. QED
  BY <1>1, <1>2, <1>3, <1>4, <1>5, <1>6, <1>7 DEF Next, RecordStep, ScrapeStep

LEMMA Invariance == Spec => []IInv
  BY InitIInv, StepIInv, PTL DEF Spec
-----------------------------------------------------------------------------
(* What a scrape shows *)

(* The lines of the text, part by part. *)
LEMMA TextParts ==
  ASSUME NEW snapshot
  PROVE  LET text == PrometheusText(snapshot)
         IN  /\ text.total = BucketLines(<<>>, snapshot.total)
             /\ DOMAIN text.routes = DOMAIN snapshot.routes
             /\ \A i \in DOMAIN snapshot.routes :
                  text.routes[i] = BucketLines(EscapeLabelValue(i), snapshot.routes[i])
  BY DEF PrometheusText

LEMMA LinesParts ==
  ASSUME NEW label, NEW b
  PROVE  LET lines == BucketLines(label, b)
         IN  /\ lines.label = label /\ lines.requests = b.requests /\ lines.status = b.statusCodes
             /\ lines.sum = b.totalLatency /\ lines.max = b.maxLatency
             /\ lines.buckets = HistogramLines(b)
  BY DEF BucketLines

(* Every scrape adds up: the total of a snapshot, which Record raises in a  *)
(* step of its own and Snapshot reads last, is the sum of its routes.       *)
THEOREM ScrapesAlwaysAddUp == Spec => []ScrapesAddUp
<1>1. ASSUME IInv, NEW s \in Scrapers
      PROVE  LET text  == PrometheusText(scraped[s])
                 all   == text.total
                 route == text.routes
                 ids   == DOMAIN route
             IN  /\ all.requests = SumFunction([i \in ids |-> route[i].requests])
                 /\ all.sum = SumFunction([i \in ids |-> route[i].sum])
                 /\ \A c \in DOMAIN all.status :
                      all.status[c] = SumFunction([i \in ids |-> Count(route[i].status, c)])
                 /\ all.requests = SumFunction(all.status)
                 /\ all.sum <= all.max * all.requests
  <2> DEFINE T    == scraped[s].total
             rts  == scraped[s].routes
             text == PrometheusText(scraped[s])
             ids  == DOMAIN text.routes
  <2>1. Consistent(T, rts)
    BY <1>1 DEF IInv, ScrapeInv
  <2>2. text.total = BucketLines(<<>>, T) /\ ids = DOMAIN rts
    BY TextParts
  <2>3. \A i \in ids : /\ text.routes[i].requests = rts[i].requests
                       /\ text.routes[i].sum = rts[i].totalLatency
                       /\ text.routes[i].status = rts[i].statusCodes
    BY TextParts, LinesParts
  <2>4. /\ text.total.requests = T.requests /\ text.total.sum = T.totalLatency
        /\ text.total.max = T.maxLatency /\ text.total.status = T.statusCodes
    BY <2>2, LinesParts
  <2> HIDE DEF T, rts, text
  <2>5. [i \in ids |-> text.routes[i].requests] = Requests(rts)
    BY <2>2, <2>3 DEF Requests
  <2>6. [i \in ids |-> text.routes[i].sum] = TotalLatencies(rts)
    BY <2>2, <2>3 DEF TotalLatencies
  <2>7. \A c : [i \in ids |-> Count(text.routes[i].status, c)] = Counts(rts, c)
    BY <2>2, <2>3 DEF Counts
  <2>8. ASSUME NEW c \in DOMAIN T.statusCodes PROVE T.statusCodes[c] = SumFunction(Counts(rts, c))
    <3>1. c \in Int /\ Count(T.statusCodes, c) = T.statusCodes[c]
      BY <2>1 DEF Consistent, SoundBucket, IsBucket, IsTally, Count
    <3>2. QED
      BY <2>1, <3>1 DEF Consistent
  <2>9. /\ T.requests = SumFunction(Requests(rts))
        /\ T.totalLatency = SumFunction(TotalLatencies(rts))
        /\ T.requests = SumFunction(T.statusCodes)
        /\ T.totalLatency <= T.maxLatency * T.requests
    BY <2>1 DEF Consistent, SoundBucket
  <2>10. /\ text.total.requests = SumFunction([i \in ids |-> text.routes[i].requests])
         /\ text.total.sum = SumFunction([i \in ids |-> text.routes[i].sum])
         /\ \A c \in DOMAIN text.total.status :
              text.total.status[c] = SumFunction([i \in ids |-> Count(text.routes[i].status, c)])
         /\ text.total.requests = SumFunction(text.total.status)
         /\ text.total.sum <= text.total.max * text.total.requests
    <3>1. text.total.requests = SumFunction([i \in ids |-> text.routes[i].requests])
      BY <2>4, <2>5, <2>9
    <3>2. text.total.sum = SumFunction([i \in ids |-> text.routes[i].sum])
      BY <2>4, <2>6, <2>9
    <3>3. ASSUME NEW c \in DOMAIN text.total.status
          PROVE  text.total.status[c] = SumFunction([i \in ids |-> Count(text.routes[i].status, c)])
      <4>1. [i \in ids |-> Count(text.routes[i].status, c)] = Counts(rts, c)
        BY <2>7
      <4>2. QED
        BY <2>4, <2>8, <4>1
    <3>4. text.total.requests = SumFunction(text.total.status)
      BY <2>4, <2>9
    <3>5. text.total.sum <= text.total.max * text.total.requests
      BY <2>4, <2>9
    <3>6. QED
      BY <3>1, <3>2, <3>3, <3>4, <3>5
  <2>11. QED
    BY <2>10 DEF text
<1>2. IInv => ScrapesAddUp
  BY <1>1 DEF ScrapesAddUp
<1>3. QED
  BY <1>2, Invariance, PTL

LEMMA HistogramOfBucket ==
  ASSUME NEW b, SoundBucket(b)
  PROVE  LET lines == HistogramLines(b)
         IN  /\ Len(lines) = Len(Boundaries) + 1
             /\ \A k \in 2 .. Len(lines) : lines[k - 1] <= lines[k]
             /\ lines[Len(lines)] = b.requests
             /\ \A k \in DOMAIN Boundaries : lines[k] = b.requests <=> b.maxLatency <= Boundaries[k]
<1> DEFINE n == Len(Boundaries)
           lines == HistogramLines(b)
<1>1. n \in Nat /\ DOMAIN Boundaries = 1 .. n
  BY RegistryAssumption
<1>2. b.counts \in [1 .. n -> Nat] /\ b.requests \in Nat
  BY <1>1 DEF SoundBucket, IsBucket
<1>3. b.counts \in Seq(Nat) /\ Len(b.counts) = n
  BY <1>1, <1>2
<1>4. /\ Len(lines) = n + 1 /\ lines[n + 1] = b.requests
      /\ \A k \in 1 .. n : lines[k] = b.counts[k]
  BY <1>2, <1>3, AppendProperties DEF HistogramLines
<1> HIDE DEF n, lines
<1>5. ASSUME NEW k \in 2 .. n + 1 PROVE lines[k - 1] <= lines[k]
  <2>1. CASE k <= n
    <3>1. k \in 2 .. n /\ k - 1 \in 1 .. n /\ k \in 1 .. n
      BY <1>1, <2>1
    <3>2. b.counts[k - 1] <= b.counts[k]
      BY <3>1 DEF SoundBucket, n
    <3>3. QED
      BY <1>4, <3>1, <3>2
  <2>2. CASE k = n + 1
    <3>1. k - 1 \in 1 .. n /\ k - 1 \in DOMAIN Boundaries
      BY <1>1, <2>2
    <3>2. b.counts[k - 1] <= b.requests
      BY <3>1 DEF SoundBucket
    <3>3. QED
      BY <1>4, <2>2, <3>1, <3>2
  <2>3. QED
    BY <1>1, <2>1, <2>2
<1>6. \A k \in DOMAIN Boundaries : lines[k] = b.requests <=> b.maxLatency <= Boundaries[k]
  BY <1>1, <1>4 DEF SoundBucket
<1>7. QED
  BY <1>4, <1>5, <1>6 DEF n, lines

(* The histograms of every scrape, of the total and of each route, are      *)
(* cumulative and end in the count, for any latencies and any ascending     *)
(* bounds.                                                                  *)
THEOREM HistogramsAlwaysCumulate == Spec => []HistogramsCumulate
<1>1. ASSUME NEW b, SoundBucket(b), NEW label
      PROVE  LET lines == BucketLines(label, b)
             IN  /\ \A k \in 2 .. Len(lines.buckets) : lines.buckets[k - 1] <= lines.buckets[k]
                 /\ lines.buckets[Len(lines.buckets)] = lines.requests
                 /\ \A k \in DOMAIN Boundaries :
                      lines.buckets[k] = lines.requests <=> lines.max <= Boundaries[k]
  BY <1>1, HistogramOfBucket, LinesParts
<1>2. ASSUME IInv, NEW s \in Scrapers,
             NEW lines \in {PrometheusText(scraped[s]).total}
                           \cup {PrometheusText(scraped[s]).routes[i] :
                                   i \in DOMAIN PrometheusText(scraped[s]).routes}
      PROVE  \E label, b : SoundBucket(b) /\ lines = BucketLines(label, b)
  <2>1. Consistent(scraped[s].total, scraped[s].routes)
    BY <1>2 DEF IInv, ScrapeInv
  <2>2. CASE lines = PrometheusText(scraped[s]).total
    BY <2>1, <2>2, TextParts DEF Consistent
  <2>3. CASE \E i \in DOMAIN PrometheusText(scraped[s]).routes :
               lines = PrometheusText(scraped[s]).routes[i]
    BY <2>1, <2>3, TextParts DEF Consistent
  <2>4. QED
    BY <1>2, <2>2, <2>3
<1>3. ASSUME IInv, NEW s \in Scrapers,
             NEW lines \in {PrometheusText(scraped[s]).total}
                           \cup {PrometheusText(scraped[s]).routes[i] :
                                   i \in DOMAIN PrometheusText(scraped[s]).routes}
      PROVE  /\ \A k \in 2 .. Len(lines.buckets) : lines.buckets[k - 1] <= lines.buckets[k]
             /\ lines.buckets[Len(lines.buckets)] = lines.requests
             /\ \A k \in DOMAIN Boundaries :
                  lines.buckets[k] = lines.requests <=> lines.max <= Boundaries[k]
  <2>1. PICK label, b : SoundBucket(b) /\ lines = BucketLines(label, b)
    BY <1>2, <1>3
  <2>2. QED
    BY <1>1, <2>1
<1>4. IInv => HistogramsCumulate
  BY <1>3, Zenon DEF HistogramsCumulate
<1>5. QED
  BY <1>4, Invariance, PTL

(* A snapshot, though its routes are copied one by one, is what the         *)
(* registry holds at one moment.                                            *)
SnapshotsAtomic ==
  [][\A s \in Scrapers :
       scraped'[s] # scraped[s] => scraped'[s] = [total |-> total, routes |-> routes]]_vars

(* Registry.Snapshot is atomic. *)
THEOREM SnapshotsAreAtomic == Spec => SnapshotsAtomic
<1> DEFINE Atomic ==
      \A s \in Scrapers :
        scraped'[s] # scraped[s] => scraped'[s] = [total |-> total, routes |-> routes]
<1>1. ASSUME IInv, [Next]_vars PROVE Atomic
  <2>1. CASE UNCHANGED scraped
    BY <2>1
  <2>2. ASSUME NEW s \in Scrapers, EndSnapshot(s) PROVE Atomic
    <3>1. copied[s] = routes
      BY <1>1, <2>2, FullCopy
    <3>2. scraped' = [scraped EXCEPT ![s] = [total |-> total, routes |-> routes]]
      BY <2>2, <3>1 DEF EndSnapshot
    <3>3. scraped = [q \in Scrapers |-> scraped[q]]
      BY <1>1 DEF IInv, ScrapeInv
    <3>4. QED
      BY <3>2, <3>3
  <2>3. QED
    BY <1>1, <2>1, <2>2
    DEF Next, RecordStep, ScrapeStep, Record, RecordTotal, RecordRoute, Scrape, BeginSnapshot,
        CopyRoute, registry, vars
<1>2. QED
  BY <1>1, Invariance, PTL DEF Spec, SnapshotsAtomic
-----------------------------------------------------------------------------
(* Escaped labels *)

(* g[i] joins the first i pieces of q. *)
Joining(g, q, n) == \A i \in 1 .. n : g[i] = IF i = 1 THEN q[i] ELSE g[i - 1] \o q[i]

Joins(q) == CHOOSE g : g = [i \in 1 .. Len(q) |-> IF i = 1 THEN q[i] ELSE g[i - 1] \o q[i]]

LEMMA FlattenIsLookedUp ==
  ASSUME NEW q
  PROVE  FlattenSeq(q) = IF Len(q) = 0 THEN q ELSE Joins(q)[Len(q)]
  BY DEF FlattenSeq, Joins

Joined(S, q, n) == \E g \in [1 .. n -> Seq(S)] : Joining(g, q, n)

LEMMA JoinedNext ==
  ASSUME NEW S, NEW q \in Seq(Seq(S)), NEW n \in Nat, n < Len(q), Joined(S, q, n)
  PROVE  Joined(S, q, n + 1)
<1>1. PICK g \in [1 .. n -> Seq(S)] : Joining(g, q, n)
  BY DEF Joined
<1> DEFINE last == IF n = 0 THEN q[n + 1] ELSE g[n] \o q[n + 1]
           h    == [i \in 1 .. n + 1 |-> IF i <= n THEN g[i] ELSE last]
<1>2. q[n + 1] \in Seq(S)
  BY ElementOfSeq
<1>3. last \in Seq(S)
  <2>1. CASE n = 0
    BY <1>2, <2>1
  <2>2. CASE n # 0
    <3>1. g[n] \in Seq(S)
      BY <2>2
    <3>2. QED
      BY <1>2, <2>2, <3>1, ConcatProperties
  <2>3. QED
    BY <2>1, <2>2
<1>4. n # 0 => last = g[n] \o q[n + 1]
  OBVIOUS
<1>5. n = 0 => last = q[n + 1]
  OBVIOUS
<1> HIDE DEF last
<1>6. h \in [1 .. n + 1 -> Seq(S)]
  BY <1>3
<1>7. ASSUME NEW i \in 1 .. n + 1 PROVE h[i] = IF i = 1 THEN q[i] ELSE h[i - 1] \o q[i]
  <2>1. CASE i <= n
    <3>1. g[i] = IF i = 1 THEN q[i] ELSE g[i - 1] \o q[i]
      <4>1. i \in 1 .. n
        BY <2>1
      <4>2. QED
        BY <1>1, <4>1, Zenon DEF Joining
    <3>2. h[i] = g[i] /\ (i # 1 => h[i - 1] = g[i - 1])
      BY <2>1
    <3>3. QED
      BY <3>1, <3>2
  <2>2. CASE i = n + 1
    <3>1. h[i] = last /\ q[i] = q[n + 1] /\ (n = 0 <=> i = 1)
      BY <2>2
    <3>2. n # 0 => h[i - 1] = g[n]
      BY <2>2
    <3>3. CASE n = 0
      BY <1>5, <3>1, <3>3
    <3>4. CASE n # 0
      BY <1>4, <3>1, <3>2, <3>4
    <3>5. QED
      BY <3>3, <3>4
  <2>3. QED
    BY <2>1, <2>2
<1>8. QED
  BY <1>6, <1>7 DEF Joined, Joining

LEMMA JoinsExist ==
  ASSUME NEW S, NEW q \in Seq(Seq(S))
  PROVE  Joined(S, q, Len(q))
<1> DEFINE Bad == {n \in Nat : n <= Len(q) /\ ~Joined(S, q, n)}
<1>1. Bad = {}
  <2> SUFFICES ASSUME Bad # {} PROVE FALSE
    OBVIOUS
  <2>1. PICK n \in Bad : \A m \in Bad : n <= m
    BY LeastOf
  <2>2. n # 0
    <3> DEFINE g == [i \in 1 .. 0 |-> <<>>]
    <3>1. g \in [1 .. 0 -> Seq(S)]
      OBVIOUS
    <3>2. \A i \in 1 .. 0 : FALSE
      OBVIOUS
    <3> HIDE DEF g
    <3>3. Joining(g, q, 0)
      BY <3>2, Zenon DEF Joining
    <3>4. Joined(S, q, 0)
      BY <3>1, <3>3 DEF Joined
    <3>5. QED
      BY <3>4
  <2>3. n - 1 \in Nat /\ Joined(S, q, n - 1) /\ n - 1 < Len(q)
    BY <2>1, <2>2
  <2>4. Joined(S, q, (n - 1) + 1)
    BY <2>3, JoinedNext
  <2>5. QED
    BY <2>4
<1>2. QED
  BY <1>1

SameUpTo(p, q, n) == \A i \in 1 .. n : p[i] = q[i]

LEMMA JoinsAgree ==
  ASSUME NEW n \in Nat, NEW p, NEW q, SameUpTo(p, q, n),
         NEW g, Joining(g, p, n), NEW h, Joining(h, q, n)
  PROVE  SameUpTo(g, h, n)
<1> DEFINE Bad == {i \in Nat : i \in 1 .. n /\ g[i] # h[i]}
<1>1. Bad = {}
  <2> SUFFICES ASSUME Bad # {} PROVE FALSE
    OBVIOUS
  <2>1. PICK i \in Bad : \A m \in Bad : i <= m
    BY LeastOf
  <2>2. i # 1
    BY DEF Joining, SameUpTo
  <2>3. i - 1 \in 1 .. n /\ g[i - 1] = h[i - 1]
    BY <2>1, <2>2
  <2>4. g[i] = g[i - 1] \o p[i] /\ h[i] = h[i - 1] \o q[i] /\ p[i] = q[i]
    BY <2>2 DEF Joining, SameUpTo
  <2>5. QED
    BY <2>3, <2>4
<1>2. QED
  BY <1>1 DEF SameUpTo

LEMMA JoinsSound ==
  ASSUME NEW S, NEW q \in Seq(Seq(S))
  PROVE  Joining(Joins(q), q, Len(q)) /\ \A i \in 1 .. Len(q) : Joins(q)[i] \in Seq(S)
<1> DEFINE J == Joins(q)
<1>1. PICK g \in [1 .. Len(q) -> Seq(S)] : Joining(g, q, Len(q))
  BY JoinsExist DEF Joined
<1>2. g = [i \in 1 .. Len(q) |-> IF i = 1 THEN q[i] ELSE g[i - 1] \o q[i]]
  BY <1>1 DEF Joining
<1>3. J = [i \in 1 .. Len(q) |-> IF i = 1 THEN q[i] ELSE J[i - 1] \o q[i]]
  BY <1>2 DEF Joins
<1> HIDE DEF J
<1>4. Joining(J, q, Len(q))
  BY <1>3 DEF Joining
<1>5. \A i \in 1 .. Len(q) : J[i] = g[i]
  <2>1. Len(q) \in Nat /\ SameUpTo(q, q, Len(q))
    BY DEF SameUpTo
  <2>2. SameUpTo(J, g, Len(q))
    BY <1>1, <1>4, <2>1, JoinsAgree
  <2>3. QED
    BY <2>2 DEF SameUpTo
<1>6. QED
  BY <1>1, <1>4, <1>5 DEF J

LEMMA FlattenType ==
  ASSUME NEW S, NEW q \in Seq(Seq(S))
  PROVE  FlattenSeq(q) \in Seq(S)
<1>1. CASE Len(q) = 0
  <2>1. q = <<>>
    BY <1>1
  <2>2. FlattenSeq(q) = <<>>
    BY <1>1, <2>1, FlattenIsLookedUp
  <2>3. QED
    BY <2>2
<1>2. CASE Len(q) # 0
  BY <1>2, FlattenIsLookedUp, JoinsSound
<1>3. QED
  BY <1>1, <1>2

LEMMA FlattenAppend ==
  ASSUME NEW S, NEW q \in Seq(Seq(S)), NEW e \in Seq(S)
  PROVE  FlattenSeq(Append(q, e)) = FlattenSeq(q) \o e
<1> DEFINE a == Append(q, e)
           n == Len(q)
<1>1. /\ a \in Seq(Seq(S)) /\ Len(a) = n + 1 /\ a[n + 1] = e /\ n \in Nat
      /\ \A i \in 1 .. n : a[i] = q[i]
  BY AppendProperties
<1> HIDE DEF a, n
<1>2. Joining(Joins(a), a, n + 1) /\ FlattenSeq(a) = Joins(a)[n + 1]
  BY <1>1, JoinsSound, FlattenIsLookedUp
<1>3. CASE n = 0
  <2>1. Joins(a)[n + 1] = e
    BY <1>1, <1>2, <1>3 DEF Joining
  <2>2. FlattenSeq(q) = <<>>
    BY <1>3, FlattenIsLookedUp DEF n
  <2>3. QED
    BY <1>2, <2>1, <2>2, ConcatEmptySeq DEF a
<1>4. CASE n # 0
  <2>1. Joins(a)[n + 1] = Joins(a)[n] \o e
    <3>1. n + 1 \in 1 .. (n + 1) /\ n + 1 # 1 /\ (n + 1) - 1 = n
      BY <1>1, <1>4
    <3>2. QED
      BY <1>1, <1>2, <3>1 DEF Joining
  <2>2. Joining(Joins(a), a, n)
    BY <1>1, <1>2 DEF Joining
  <2>3. Joining(Joins(q), q, n)
    BY JoinsSound DEF n
  <2>4. \A i \in 1 .. n : Joins(a)[i] = Joins(q)[i]
    <3>1. n \in Nat /\ SameUpTo(a, q, n)
      BY <1>1 DEF SameUpTo
    <3>2. SameUpTo(Joins(a), Joins(q), n)
      BY <2>2, <2>3, <3>1, JoinsAgree
    <3>3. QED
      BY <3>2 DEF SameUpTo
  <2>5. FlattenSeq(q) = Joins(q)[n]
    BY <1>4, FlattenIsLookedUp DEF n
  <2>6. n \in 1 .. n
    BY <1>1, <1>4
  <2>7. FlattenSeq(a) = FlattenSeq(q) \o e
    BY <1>2, <2>1, <2>4, <2>5, <2>6
  <2>8. QED
    BY <2>7 DEF a
<1>5. QED
  BY <1>3, <1>4

(* strings.ReplaceAll goes through a text character by character. *)
Piece(c, old, new) == IF c = old THEN new ELSE <<c>>

LEMMA PieceType ==
  ASSUME NEW c \in Chars, NEW old, NEW new \in Texts
  PROVE  Piece(c, old, new) \in Texts
<1>1. <<c>> \in Seq(Chars)
  OBVIOUS
<1>2. QED
  BY <1>1 DEF Piece, Texts

LEMMA ReplaceType ==
  ASSUME NEW t \in Texts, NEW old, NEW new \in Texts
  PROVE  ReplaceEach(t, old, new) \in Texts /\ ReplaceEach(<<>>, old, new) = <<>>
<1>1. \A i \in 1 .. Len(t) : Piece(t[i], old, new) \in Texts
  BY PieceType DEF Texts
<1> DEFINE pieces == [i \in 1 .. Len(t) |-> Piece(t[i], old, new)]
<1>2. pieces \in Seq(Seq(Chars))
  BY <1>1 DEF Texts
<1>3. ReplaceEach(t, old, new) = FlattenSeq(pieces)
  BY DEF ReplaceEach, Piece, Texts
<1>4. ReplaceEach(<<>>, old, new) = <<>>
  <2> DEFINE none == [i \in DOMAIN <<>> |-> IF <<>>[i] = old THEN new ELSE <<<<>>[i]>>]
  <2>1. none = <<>>
    OBVIOUS
  <2>2. FlattenSeq(<<>>) = <<>>
    BY FlattenIsLookedUp
  <2>3. ReplaceEach(<<>>, old, new) = FlattenSeq(none)
    BY Zenon DEF ReplaceEach
  <2>4. QED
    BY <2>1, <2>2, <2>3
<1> HIDE DEF pieces
<1>5. QED
  BY <1>2, <1>3, <1>4, FlattenType DEF Texts

LEMMA ReplaceAppend ==
  ASSUME NEW t \in Texts, NEW c \in Chars, NEW old, NEW new \in Texts
  PROVE  ReplaceEach(t \o <<c>>, old, new) = ReplaceEach(t, old, new) \o Piece(c, old, new)
<1> DEFINE P(u) == [i \in 1 .. Len(u) |-> Piece(u[i], old, new)]
           tc   == t \o <<c>>
<1>1. tc \in Texts /\ Len(tc) = Len(t) + 1 /\ tc[Len(t) + 1] = c /\ Len(t) \in Nat
  BY DEF Texts
<1>2. \A i \in 1 .. Len(t) : tc[i] = t[i]
  BY DEF Texts
<1> HIDE DEF tc
<1>3. ASSUME NEW u \in Texts
      PROVE  /\ ReplaceEach(u, old, new) = FlattenSeq(P(u))
             /\ P(u) \in Seq(Seq(Chars)) /\ Len(P(u)) = Len(u)
  <2>1. \A i \in 1 .. Len(u) : Piece(u[i], old, new) \in Seq(Chars)
    BY PieceType DEF Texts
  <2>2. ReplaceEach(u, old, new) = FlattenSeq(P(u))
    <3>1. DOMAIN u = 1 .. Len(u)
      BY DEF Texts
    <3>2. QED
      BY <3>1, Zenon DEF ReplaceEach, Piece
  <2>3. Len(u) \in Nat
    BY DEF Texts
  <2>4. Len(P(u)) = Len(u)
    BY <2>3
  <2>5. P(u) \in Seq(Seq(Chars))
    BY <2>1, <2>3
  <2>6. QED
    BY <2>2, <2>4, <2>5
<1>4. Piece(c, old, new) \in Seq(Chars)
  BY PieceType DEF Texts
<1>5. P(tc) = Append(P(t), Piece(c, old, new))
  <2>1. P(t) \in Seq(Seq(Chars)) /\ Len(P(t)) = Len(t)
    BY <1>3
  <2> DEFINE a == Append(P(t), Piece(c, old, new))
  <2>2. /\ a \in Seq(Seq(Chars)) /\ Len(a) = Len(t) + 1
        /\ a[Len(t) + 1] = Piece(c, old, new)
        /\ \A i \in 1 .. Len(t) : a[i] = P(t)[i]
    BY <1>4, <2>1, AppendProperties
  <2> HIDE DEF a
  <2>3. P(tc) \in Seq(Seq(Chars)) /\ Len(P(tc)) = Len(t) + 1
    <3>1. P(tc) \in Seq(Seq(Chars)) /\ Len(P(tc)) = Len(tc)
      BY <1>1, <1>3
    <3> HIDE DEF P
    <3>2. QED
      BY <1>1, <3>1
  <2>4. \A i \in 1 .. Len(t) + 1 : P(tc)[i] = a[i]
    <3> TAKE i \in 1 .. Len(t) + 1
    <3>1. P(tc)[i] = Piece(tc[i], old, new)
      BY <1>1
    <3>2. CASE i = Len(t) + 1
      BY <1>1, <2>2, <3>1, <3>2
    <3>3. CASE i \in 1 .. Len(t)
      <4>1. P(t)[i] = Piece(t[i], old, new)
        BY <3>3
      <4>2. QED
        BY <1>2, <2>2, <3>1, <3>3, <4>1
    <3>4. QED
      BY <1>1, <3>2, <3>3
  <2> HIDE DEF P
  <2>5. P(tc) = a
    BY <1>1, <2>2, <2>3, <2>4, SeqEqual
  <2>6. QED
    BY <2>5 DEF a
<1>6. P(t) \in Seq(Seq(Chars)) /\ ReplaceEach(t, old, new) = FlattenSeq(P(t))
  BY <1>3
<1>7. ReplaceEach(tc, old, new) = FlattenSeq(P(tc))
  BY <1>1, <1>3
<1> HIDE DEF P
<1>8. FlattenSeq(Append(P(t), Piece(c, old, new))) = FlattenSeq(P(t)) \o Piece(c, old, new)
  BY <1>4, <1>6, FlattenAppend
<1>9. QED
  BY <1>5, <1>6, <1>7, <1>8 DEF tc

(* The three passes of escapeLabelValue, and what they come to for one      *)
(* character: a code of which no word begins another.                       *)
Pass1(t) == ReplaceEach(t, "\\", <<"\\", "\\">>)
Pass2(t) == ReplaceEach(t, "LF", <<"\\", "n">>)
Pass3(t) == ReplaceEach(t, "\"", <<"\\", "\"">>)
Escaped == {"\\", "LF", "\""}
Letter(c) == IF c = "LF" THEN "n" ELSE c
Code(c) == IF c \in Escaped THEN <<"\\", Letter(c)>> ELSE <<c>>

LEMMA EscapeByPasses ==
  ASSUME NEW t
  PROVE  EscapeLabelValue(t) = Pass3(Pass2(Pass1(t)))
  BY Zenon DEF EscapeLabelValue, Pass1, Pass2, Pass3

LEMMA CharsHave ==
  /\ "\\" \in Chars /\ "n" \in Chars /\ "\"" \in Chars
  /\ <<"\\", "\\">> \in Texts /\ <<"\\", "n">> \in Texts /\ <<"\\", "\"">> \in Texts
<1>1. "\\" \in Chars /\ "n" \in Chars /\ "\"" \in Chars
  BY DEF Chars
<1>2. \A c, d \in Chars : <<c, d>> \in Seq(Chars)
  OBVIOUS
<1>3. QED
  BY <1>1, <1>2, Zenon DEF Texts

(* What each pass does to one character more. *)
LEMMA PassAppend ==
  ASSUME NEW t \in Texts, NEW c \in Chars
  PROVE  /\ Pass1(t) \in Texts /\ Pass2(t) \in Texts /\ Pass3(t) \in Texts
         /\ Pass1(t \o <<c>>) = Pass1(t) \o Piece(c, "\\", <<"\\", "\\">>)
         /\ Pass2(t \o <<c>>) = Pass2(t) \o Piece(c, "LF", <<"\\", "n">>)
         /\ Pass3(t \o <<c>>) = Pass3(t) \o Piece(c, "\"", <<"\\", "\"">>)
<1>1. ASSUME NEW old, NEW new \in Texts
      PROVE  /\ ReplaceEach(t, old, new) \in Texts
             /\ ReplaceEach(t \o <<c>>, old, new) = ReplaceEach(t, old, new) \o Piece(c, old, new)
  BY ReplaceType, ReplaceAppend
<1>2. Pass1(t) \in Texts /\ Pass1(t \o <<c>>) = Pass1(t) \o Piece(c, "\\", <<"\\", "\\">>)
  BY <1>1, CharsHave, Zenon DEF Pass1
<1>3. Pass2(t) \in Texts /\ Pass2(t \o <<c>>) = Pass2(t) \o Piece(c, "LF", <<"\\", "n">>)
  BY <1>1, CharsHave, Zenon DEF Pass2
<1>4. Pass3(t) \in Texts /\ Pass3(t \o <<c>>) = Pass3(t) \o Piece(c, "\"", <<"\\", "\"">>)
  BY <1>1, CharsHave, Zenon DEF Pass3
<1>5. QED
  BY <1>2, <1>3, <1>4, Zenon

LEMMA PairAppend ==
  ASSUME NEW t \in Texts, NEW c \in Chars, NEW d \in Chars
  PROVE  /\ t \o <<c, d>> = (t \o <<c>>) \o <<d>>
         /\ t \o <<c>> \in Texts /\ t \o <<c, d>> \in Texts
<1>1. <<c>> \in Seq(Chars) /\ <<d>> \in Seq(Chars) /\ <<c, d>> = <<c>> \o <<d>>
  <2>1. <<c>> \in Seq(Chars) /\ <<d>> \in Seq(Chars) /\ <<c, d>> \in Seq(Chars)
    OBVIOUS
  <2>2. Append(<<c>>, d) = <<c>> \o <<d>>
    BY <2>1, AppendIsConcat
  <2>3. Append(<<c>>, d) = <<c, d>>
    <3> DEFINE a == Append(<<c>>, d)
               p == <<c, d>>
    <3>1. a \in Seq(Chars) /\ Len(a) = 2 /\ a[1] = c /\ a[2] = d
      BY <2>1, AppendProperties
    <3>2. p \in Seq(Chars) /\ Len(p) = 2 /\ p[1] = c /\ p[2] = d
      BY <2>1
    <3> HIDE DEF a, p
    <3>3. \A i \in 1 .. Len(a) : a[i] = p[i]
      BY <3>1, <3>2
    <3>4. a = p
      BY <3>1, <3>2, <3>3, SeqEqual
    <3>5. QED
      BY <3>4 DEF a, p
  <2>4. QED
    BY <2>1, <2>2, <2>3
<1>2. t \o (<<c>> \o <<d>>) = (t \o <<c>>) \o <<d>>
  BY <1>1, ConcatAssociative DEF Texts
<1>3. t \o <<c>> \in Texts /\ (t \o <<c>>) \o <<d>> \in Texts
  BY <1>1, ConcatProperties DEF Texts
<1>4. QED
  BY <1>1, <1>2, <1>3

(* A pass leaves a pair of characters alone that are not its own. *)
LEMMA PassPair ==
  ASSUME NEW t \in Texts, NEW c \in Chars, NEW d \in Chars
  PROVE  /\ c # "LF" /\ d # "LF" => Pass2(t \o <<c, d>>) = Pass2(t) \o <<c, d>>
         /\ c # "\"" /\ d # "\"" => Pass3(t \o <<c, d>>) = Pass3(t) \o <<c, d>>
<1>1. /\ t \o <<c, d>> = (t \o <<c>>) \o <<d>> /\ t \o <<c>> \in Texts
      /\ Pass2(t) \in Texts /\ Pass3(t) \in Texts
  BY PairAppend, PassAppend
<1>2. ASSUME c # "LF", d # "LF" PROVE Pass2(t \o <<c, d>>) = Pass2(t) \o <<c, d>>
  <2>1. Pass2(t \o <<c>>) = Pass2(t) \o <<c>>
    BY <1>2, PassAppend DEF Piece
  <2>2. Pass2((t \o <<c>>) \o <<d>>) = Pass2(t \o <<c>>) \o <<d>>
    BY <1>1, <1>2, PassAppend DEF Piece
  <2>3. Pass2(t) \o <<c, d>> = (Pass2(t) \o <<c>>) \o <<d>>
    BY <1>1, PairAppend
  <2>4. QED
    BY <1>1, <2>1, <2>2, <2>3
<1>3. ASSUME c # "\"", d # "\"" PROVE Pass3(t \o <<c, d>>) = Pass3(t) \o <<c, d>>
  <2>1. Pass3(t \o <<c>>) = Pass3(t) \o <<c>>
    BY <1>3, PassAppend DEF Piece
  <2>2. Pass3((t \o <<c>>) \o <<d>>) = Pass3(t \o <<c>>) \o <<d>>
    BY <1>1, <1>3, PassAppend DEF Piece
  <2>3. Pass3(t) \o <<c, d>> = (Pass3(t) \o <<c>>) \o <<d>>
    BY <1>1, PairAppend
  <2>4. QED
    BY <1>1, <2>1, <2>2, <2>3
<1>4. QED
  BY <1>2, <1>3

LEMMA EscapeAppend ==
  ASSUME NEW t \in Texts, NEW c \in Chars
  PROVE  EscapeLabelValue(t) \in Texts /\ EscapeLabelValue(t \o <<c>>) = EscapeLabelValue(t) \o Code(c)
<1> DEFINE v1 == Pass1(t)
           v2 == Pass2(v1)
<1>1. v1 \in Texts /\ v2 \in Texts /\ Pass3(v2) \in Texts
  BY PassAppend
<1>2. EscapeLabelValue(t) = Pass3(v2) /\ EscapeLabelValue(t \o <<c>>) = Pass3(Pass2(Pass1(t \o <<c>>)))
  BY EscapeByPasses
<1> HIDE DEF v1, v2
<1>3. CASE c = "\\"
  <2>1. Pass1(t \o <<c>>) = v1 \o <<c, c>>
    BY <1>3, PassAppend DEF Piece, v1
  <2>2. Pass2(v1 \o <<c, c>>) = v2 \o <<c, c>>
    BY <1>1, <1>3, PassPair DEF v2
  <2>3. Pass3(v2 \o <<c, c>>) = Pass3(v2) \o <<c, c>>
    BY <1>1, <1>3, PassPair
  <2>4. Code(c) = <<c, c>>
    BY <1>3 DEF Code, Escaped, Letter
  <2>5. QED
    BY <1>1, <1>2, <2>1, <2>2, <2>3, <2>4
<1>4. CASE c = "LF"
  <2>1. Pass1(t \o <<c>>) = v1 \o <<c>>
    BY <1>4, PassAppend DEF Piece, v1
  <2>2. Pass2(v1 \o <<c>>) = v2 \o <<"\\", "n">>
    BY <1>1, <1>4, PassAppend DEF Piece, v2
  <2>3. Pass3(v2 \o <<"\\", "n">>) = Pass3(v2) \o <<"\\", "n">>
    BY <1>1, CharsHave, PassPair
  <2>4. Code(c) = <<"\\", "n">>
    BY <1>4 DEF Code, Escaped, Letter
  <2>5. QED
    BY <1>1, <1>2, <2>1, <2>2, <2>3, <2>4
<1>5. CASE c # "\\" /\ c # "LF"
  <2>1. Pass1(t \o <<c>>) = v1 \o <<c>>
    BY <1>5, PassAppend DEF Piece, v1
  <2>2. Pass2(v1 \o <<c>>) = v2 \o <<c>>
    BY <1>1, <1>5, PassAppend DEF Piece, v2
  <2>3. Pass3(v2 \o <<c>>) = Pass3(v2) \o Piece(c, "\"", <<"\\", "\"">>)
    BY <1>1, PassAppend
  <2>4. Piece(c, "\"", <<"\\", "\"">>) = Code(c)
    BY <1>5 DEF Piece, Code, Escaped, Letter
  <2>5. QED
    BY <1>1, <1>2, <2>1, <2>2, <2>3, <2>4
<1>6. QED
  BY <1>3, <1>4, <1>5

LEMMA CodeType ==
  ASSUME NEW c \in Chars
  PROVE  Code(c) \in Texts /\ Code(c) # <<>>
<1>1. Letter(c) \in Chars /\ "\\" \in Chars
  BY CharsHave DEF Letter
<1>2. CASE c \in Escaped
  <2>1. Code(c) = <<"\\", Letter(c)>>
    BY <1>2, Zenon DEF Code
  <2> DEFINE l == Letter(c)
             e == "\\"
  <2>2. l \in Chars /\ e \in Chars
    BY <1>1
  <2> HIDE DEF l, e
  <2>3. <<e, l>> \in Seq(Chars) /\ <<e, l>> # <<>>
    BY <2>2
  <2>4. QED
    BY <2>1, <2>3, Zenon DEF Texts, e, l
<1>3. CASE c \notin Escaped
  <2>1. Code(c) = <<c>>
    BY <1>3, Zenon DEF Code
  <2>2. <<c>> \in Seq(Chars) /\ <<c>> # <<>>
    OBVIOUS
  <2>3. QED
    BY <2>1, <2>2, Zenon DEF Texts
<1>4. QED
  BY <1>2, <1>3

LEMMA EscapeEmpty == EscapeLabelValue(<<>>) = <<>> /\ <<>> \in Texts
<1>1. <<>> \in Texts
  BY DEF Texts
<1>2. Pass1(<<>>) = <<>> /\ Pass2(<<>>) = <<>> /\ Pass3(<<>>) = <<>>
  <2>1. ASSUME NEW old, NEW new \in Texts PROVE ReplaceEach(<<>>, old, new) = <<>>
    BY <1>1, ReplaceType
  <2>2. QED
    BY <2>1, CharsHave, Zenon DEF Pass1, Pass2, Pass3
<1>3. QED
  BY <1>1, <1>2, EscapeByPasses

(* Escaping a text is escaping its first character, then the rest. *)
Fronted(c, t) == EscapeLabelValue(<<c>> \o t) = Code(c) \o EscapeLabelValue(t)

LEMMA FrontedNext ==
  ASSUME NEW c \in Chars, NEW t \in Texts, Fronted(c, t), NEW d \in Chars
  PROVE  Fronted(c, t \o <<d>>)
<1> DEFINE E(u) == EscapeLabelValue(u)
<1>1. <<c>> \in Texts /\ <<d>> \in Texts /\ <<c>> \o t \in Texts
  BY ConcatProperties DEF Texts
<1>2. <<c>> \o (t \o <<d>>) = (<<c>> \o t) \o <<d>>
  BY <1>1, ConcatAssociative DEF Texts
<1>3. E((<<c>> \o t) \o <<d>>) = E(<<c>> \o t) \o Code(d)
  BY <1>1, EscapeAppend
<1>4. E(t \o <<d>>) = E(t) \o Code(d) /\ E(t) \in Texts
  BY EscapeAppend
<1>5. Code(c) \in Texts /\ Code(d) \in Texts
  BY CodeType
<1>6. E(<<c>> \o t) = Code(c) \o E(t)
  BY DEF Fronted
<1> HIDE DEF E
<1>7. (Code(c) \o E(t)) \o Code(d) = Code(c) \o (E(t) \o Code(d))
  BY <1>4, <1>5, ConcatAssociative DEF Texts
<1>8. E(<<c>> \o (t \o <<d>>)) = Code(c) \o E(t \o <<d>>)
  BY <1>2, <1>3, <1>4, <1>6, <1>7
<1>9. QED
  BY <1>8 DEF Fronted, E

LEMMA AllFronted ==
  ASSUME NEW c \in Chars, NEW t \in Texts
  PROVE  Fronted(c, t)
<1> DEFINE Bad == {n \in Nat : \E u \in Texts : Len(u) = n /\ ~Fronted(c, u)}
<1>1. Bad = {}
  <2> SUFFICES ASSUME Bad # {} PROVE FALSE
    OBVIOUS
  <2>1. PICK n \in Bad : \A m \in Bad : n <= m
    BY LeastOf
  <2>2. PICK u \in Texts : Len(u) = n /\ ~Fronted(c, u)
    OBVIOUS
  <2>3. u # <<>>
    <3>1. <<c>> \in Texts /\ <<c>> \o <<>> = <<c>> /\ <<>> \o <<c>> = <<c>>
      BY ConcatEmptySeq DEF Texts
    <3>2. EscapeLabelValue(<<>> \o <<c>>) = EscapeLabelValue(<<>>) \o Code(c)
      BY EscapeEmpty, EscapeAppend
    <3>3. Code(c) \o <<>> = Code(c) /\ <<>> \o Code(c) = Code(c)
      BY CodeType, ConcatEmptySeq DEF Texts
    <3>4. Fronted(c, <<>>)
      BY <3>1, <3>2, <3>3, EscapeEmpty DEF Fronted
    <3>5. QED
      BY <2>2, <3>4
  <2>4. PICK w \in Texts, d \in Chars : u = Append(w, d)
    BY <2>3, SequenceEmptyOrAppend DEF Texts
  <2>5. u = w \o <<d>> /\ Len(u) = Len(w) + 1 /\ Len(w) \in Nat
    BY <2>4, AppendIsConcat, AppendProperties DEF Texts
  <2>6. Fronted(c, w)
    BY <2>1, <2>2, <2>5
  <2>7. QED
    BY <2>2, <2>5, <2>6, FrontedNext
<1>2. Len(t) \in Nat
  BY DEF Texts
<1>3. QED
  BY <1>1, <1>2

(* What a text that begins with a code begins with.  A backslash is itself  *)
(* escaped, so a code that does not begin with one is a single character.   *)
Starts(e, u) ==
  /\ e \in Escaped => u[1] = "\\" /\ u[2] = Letter(e)
  /\ e \notin Escaped => u[1] = e

LEMMA CodeStarts ==
  ASSUME NEW e \in Chars, NEW z \in Texts
  PROVE  Starts(e, Code(e) \o z)
<1> DEFINE k == Code(e)
           u == k \o z
           first == "\\"
           second == Letter(e)
<1>1. k \in Seq(Chars) /\ z \in Seq(Chars)
  BY CodeType DEF Texts
<1>2. Len(u) = Len(k) + Len(z) /\ \A i \in 1 .. Len(k) : u[i] = k[i]
  <2> HIDE DEF k
  <2> QED
    BY <1>1, ConcatProperties
<1>3. CASE e \in Escaped
  <2>1. k = <<first, second>>
    BY <1>3, Zenon DEF Code
  <2> HIDE DEF first, second, u
  <2>2. Len(k) = 2 /\ k[1] = first /\ k[2] = second
    BY <2>1
  <2>3. u[1] = first /\ u[2] = second
    BY <1>2, <2>2
  <2>4. QED
    BY <1>3, <2>3, Zenon DEF Starts, first, second, u
<1>4. CASE e \notin Escaped
  <2>1. k = <<e>>
    BY <1>4, Zenon DEF Code
  <2> HIDE DEF u
  <2>2. Len(k) = 1 /\ k[1] = e
    BY <2>1
  <2>3. u[1] = e
    BY <1>2, <2>2
  <2>4. QED
    BY <1>4, <2>3, Zenon DEF Starts, u
<1>5. QED
  BY <1>3, <1>4

LEMMA StartsTellsApart ==
  ASSUME NEW c \in Chars, NEW d \in Chars, NEW u, Starts(c, u), Starts(d, u)
  PROVE  c = d
<1>1. "\\" \in Escaped
  BY Zenon DEF Escaped
<1>2. CASE c \in Escaped /\ d \in Escaped
  <2>1. Letter(c) = Letter(d)
    BY <1>2, Zenon DEF Starts
  <2>2. \A e \in Escaped : IF e = "LF" THEN Letter(e) = "n" ELSE Letter(e) = e
    BY Zenon DEF Letter
  <2>3. "n" \notin Escaped
    BY Zenon DEF Escaped
  <2>4. CASE c = "LF"
    BY <1>2, <2>1, <2>2, <2>3, <2>4, Zenon
  <2>5. CASE c # "LF"
    BY <1>2, <2>1, <2>2, <2>3, <2>5, Zenon
  <2>6. QED
    BY <2>4, <2>5
<1>3. CASE c \in Escaped /\ d \notin Escaped
  BY <1>1, <1>3, Zenon DEF Starts
<1>4. CASE c \notin Escaped /\ d \in Escaped
  BY <1>1, <1>4, Zenon DEF Starts
<1>5. CASE c \notin Escaped /\ d \notin Escaped
  BY <1>5, Zenon DEF Starts
<1>6. QED
  BY <1>2, <1>3, <1>4, <1>5

SameCoded(c, x, d, y) == Code(c) \o x = Code(d) \o y

(* No code begins another. *)
LEMMA CodesAreApart ==
  ASSUME NEW c \in Chars, NEW d \in Chars, NEW x \in Texts, NEW y \in Texts,
         SameCoded(c, x, d, y)
  PROVE  c = d /\ x = y
<1>1. Starts(c, Code(c) \o x) /\ Starts(d, Code(d) \o y)
  BY CodeStarts
<1>2. c = d
  BY <1>1, StartsTellsApart DEF SameCoded
<1> DEFINE k == Code(c)
<1>3. k \in Seq(Chars) /\ x \in Seq(Chars) /\ y \in Seq(Chars)
  BY CodeType DEF Texts
<1>4. k \o x = k \o y
  BY <1>2 DEF SameCoded
<1> HIDE DEF k
<1>5. x = y
  BY <1>3, <1>4, ConcatSimplifications
<1>6. QED
  BY <1>2, <1>5

(* A text that is not empty begins with a character. *)
LEMMA FrontOf ==
  ASSUME NEW t \in Texts, t # <<>>
  PROVE  \E c \in Chars, w \in Texts : t = <<c>> \o w /\ Len(t) = Len(w) + 1 /\ Len(w) \in Nat
<1>1. Head(t) \in Chars /\ Tail(t) \in Texts /\ Len(Tail(t)) = Len(t) - 1 /\ Len(t) \in Nat
  BY HeadTailProperties DEF Texts
<1> DEFINE c == Head(t)
           w == Tail(t)
<1>2. t = <<c>> \o w
  <2>1. <<c>> \in Seq(Chars) /\ w \in Seq(Chars) /\ t \in Seq(Chars) /\ Len(<<c>>) = 1
    BY <1>1 DEF Texts
  <2>2. \A i \in 1 .. Len(w) : w[i] = t[i + 1]
    BY HeadTailProperties DEF Texts
  <2>3. c = t[1] /\ <<c>>[1] = c
    OBVIOUS
  <2>4. Len(w) = Len(t) - 1 /\ Len(t) \in Nat
    BY <1>1
  <2> HIDE DEF c, w
  <2> DEFINE both == <<c>> \o w
             front == <<c>>
  <2>5. /\ both \in Seq(Chars) /\ Len(both) = 1 + Len(w)
        /\ \A i \in 1 .. Len(both) : both[i] = IF i <= 1 THEN front[i] ELSE w[i - 1]
    BY <2>1, ConcatProperties
  <2> HIDE DEF both, front
  <2>6. front[1] = c
    BY <2>3 DEF front
  <2>7. Len(both) = Len(t)
    BY <2>4, <2>5
  <2>8. ASSUME NEW i \in 1 .. Len(t) PROVE both[i] = t[i]
    <3>1. both[i] = IF i <= 1 THEN front[i] ELSE w[i - 1]
      BY <2>5, <2>7
    <3>2. CASE i = 1
      BY <2>3, <2>6, <3>1, <3>2
    <3>3. CASE i # 1
      <4>1. i - 1 \in 1 .. Len(w) /\ (i - 1) + 1 = i /\ ~(i <= 1)
        BY <2>4, <3>3
      <4>2. QED
        BY <2>2, <3>1, <4>1
    <3>4. QED
      BY <3>2, <3>3
  <2>9. QED
    BY <2>1, <2>5, <2>7, <2>8, SeqEqual DEF both
<1>3. Len(t) = Len(w) + 1 /\ Len(w) \in Nat
  BY <1>1, LenProperties DEF Texts
<1> HIDE DEF c, w
<1>4. c \in Chars /\ w \in Texts
  BY <1>1 DEF c, w
<1>5. QED
  BY <1>2, <1>3, <1>4

(* Only the empty text is escaped as nothing. *)
LEMMA EscapeNotEmpty ==
  ASSUME NEW c \in Chars, NEW w \in Texts
  PROVE  EscapeLabelValue(<<c>> \o w) # <<>>
<1> DEFINE e == EscapeLabelValue(w)
           k == Code(c)
<1>1. EscapeLabelValue(<<c>> \o w) = k \o e
  BY AllFronted DEF Fronted
<1>2. k \in Seq(Chars) /\ e \in Seq(Chars) /\ k # <<>>
  <2>1. \A d \in Chars : d \in Chars
    OBVIOUS
  <2>2. e \in Texts
    BY EscapeAppend
  <2>3. QED
    BY <2>2, CodeType DEF Texts
<1> HIDE DEF k, e
<1>3. k \o e # <<>>
  BY <1>2, ConcatSimplifications
<1>4. QED
  BY <1>1, <1>3

Confused(s, t) == s # t /\ EscapeLabelValue(s) = EscapeLabelValue(t)

(* A text can be read back from what it is escaped as: the shortest text    *)
(* that is confused with another would have a shorter one behind its first  *)
(* character.                                                               *)
LEMMA EscapeInjective ==
  ASSUME NEW s \in Texts, NEW t \in Texts
  PROVE  ~Confused(s, t)
<1> DEFINE Bad == {n \in Nat : \E u, v \in Texts : Len(u) = n /\ Confused(u, v)}
<1>1. Bad = {}
  <2> SUFFICES ASSUME Bad # {} PROVE FALSE
    OBVIOUS
  <2>1. PICK n \in Bad : \A m \in Bad : n <= m
    BY LeastOf
  <2>2. PICK u \in Texts, v \in Texts : Len(u) = n /\ Confused(u, v)
    OBVIOUS
  <2>3. u # <<>>
    <3> SUFFICES ASSUME u = <<>> PROVE FALSE
      OBVIOUS
    <3>1. v # <<>> /\ EscapeLabelValue(v) = <<>>
      BY <2>2, EscapeEmpty DEF Confused
    <3>2. PICK d \in Chars, y \in Texts : v = <<d>> \o y
      BY <3>1, FrontOf
    <3>3. EscapeLabelValue(<<d>> \o y) # <<>>
      BY EscapeNotEmpty
    <3>4. QED
      BY <3>1, <3>2, <3>3
  <2>4. v # <<>>
    <3> SUFFICES ASSUME v = <<>> PROVE FALSE
      OBVIOUS
    <3>1. EscapeLabelValue(u) = <<>>
      BY <2>2, EscapeEmpty DEF Confused
    <3>2. PICK c \in Chars, x \in Texts : u = <<c>> \o x
      BY <2>3, FrontOf
    <3>3. EscapeLabelValue(<<c>> \o x) # <<>>
      BY EscapeNotEmpty
    <3>4. QED
      BY <3>1, <3>2, <3>3
  <2>5. PICK c \in Chars, x \in Texts : u = <<c>> \o x /\ Len(u) = Len(x) + 1 /\ Len(x) \in Nat
    BY <2>3, FrontOf
  <2>6. PICK d \in Chars, y \in Texts : v = <<d>> \o y /\ Len(v) = Len(y) + 1 /\ Len(y) \in Nat
    BY <2>4, FrontOf
  <2>7. EscapeLabelValue(u) = Code(c) \o EscapeLabelValue(x)
    BY <2>5, AllFronted DEF Fronted
  <2>8. EscapeLabelValue(v) = Code(d) \o EscapeLabelValue(y)
    BY <2>6, AllFronted DEF Fronted
  <2>9. EscapeLabelValue(x) \in Texts /\ EscapeLabelValue(y) \in Texts
    BY <2>5, EscapeAppend
  <2>10. Code(c) \o EscapeLabelValue(x) = Code(d) \o EscapeLabelValue(y)
    BY <2>2, <2>7, <2>8 DEF Confused
  <2>11. c = d /\ EscapeLabelValue(x) = EscapeLabelValue(y)
    <3> DEFINE p == EscapeLabelValue(x)
               q == EscapeLabelValue(y)
    <3> HIDE DEF p, q
    <3>1. p \in Texts /\ q \in Texts /\ SameCoded(c, p, d, q)
      BY <2>9, <2>10 DEF p, q, SameCoded
    <3>2. c = d /\ p = q
      BY <3>1, CodesAreApart
    <3>3. QED
      BY <3>2 DEF p, q
  <2>12. x # y
    BY <2>2, <2>5, <2>6, <2>11 DEF Confused
  <2>13. Confused(x, y)
    BY <2>11, <2>12 DEF Confused
  <2>14. Len(x) \in Bad
    BY <2>5, <2>13
  <2>15. QED
    BY <2>1, <2>2, <2>5, <2>14
<1>2. Len(s) \in Nat
  BY DEF Texts
<1>3. QED
  BY <1>1, <1>2

(* Different routes have different series, whatever characters their ids    *)
(* hold: escapeLabelValue can be read back, for each of its replacements    *)
(* leaves alone what the earlier ones have written.                         *)
THEOREM SeriesAlwaysTellRoutesApart == Spec => []SeriesTellRoutesApart
<1>1. ASSUME IInv, NEW s \in Scrapers,
             NEW i \in DOMAIN PrometheusText(scraped[s]).routes,
             NEW j \in DOMAIN PrometheusText(scraped[s]).routes,
             PrometheusText(scraped[s]).routes[i].label = PrometheusText(scraped[s]).routes[j].label
      PROVE  i = j
  <2>1. i \in DOMAIN scraped[s].routes /\ j \in DOMAIN scraped[s].routes
    BY <1>1, TextParts
  <2>2. i \in Texts /\ j \in Texts
    BY <1>1, <2>1 DEF IInv, ScrapeInv, Consistent
  <2>3. /\ PrometheusText(scraped[s]).routes[i].label = EscapeLabelValue(i)
        /\ PrometheusText(scraped[s]).routes[j].label = EscapeLabelValue(j)
    BY <2>1, TextParts, LinesParts
  <2>4. QED
    BY <1>1, <2>2, <2>3, EscapeInjective DEF Confused
<1>2. IInv => SeriesTellRoutesApart
  BY <1>1 DEF SeriesTellRoutesApart
<1>3. QED
  BY <1>2, Invariance, PTL
=============================================================================
