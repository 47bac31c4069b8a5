---------------------------- MODULE ReadingProofs ----------------------------
(***************************************************************************)
(* What readers of stored invoices are promised while synchronisation goes *)
(* on writing, for any invoices, filters, orders and sizes of a page.      *)
(*                                                                         *)
(* A page of a list is a slice of ranks.  Of an invoice that was there all *)
(* along the rank only grows, so it is never behind the offset unseen.     *)
(***************************************************************************)
EXTENDS Reading, FiniteSetTheorems, TLAPS

Sums4 == {"count", "summed", "excluded", "adjusted"}
Figures == [Sums4 -> Nat]

AnySel == {ByFilter(f) : f \in Filters}

ListReq ==
  [kind : {"list"}, sel : AnySel, sort : Sorts, step : {"count", "rows", "complete"},
   offset : Nat, total : Nat, seen : SUBSET Invoices, steady : SUBSET Invoices, calm : BOOLEAN]

SummaryReq ==
  [kind : {"summary"}, sel : AnySel, step : {"groups", "total", "complete"},
   byChieu : [Directions -> Figures], total : Figures, calm : BOOLEAN]

ReconcileReq ==
  [kind : {"reconcile"}, sel : AnySel, step : {"gaps", "status", "complete"},
   gaps : SUBSET ((SeriesOf(Invoices)) \X Nat), replaced : SUBSET Invoices,
   before : SUBSET Invoices]

\* How many rows of the list come before that of i.
RankOf(sort, sel, i) == Cardinality({j \in Selected(sel) : Before(sort, j, i)})

\* Up to where a list has been read.
ReadTo(r) == IF r.step = "complete" THEN r.offset + Limit ELSE r.offset

NothingSkipped(r) ==
  /\ ~r.sel.filter.biSua =>
       /\ r.steady \subseteq Selected(r.sel)
       /\ r.sort.by \notin Overwritten => \A i \in r.steady \ r.seen : ReadTo(r) <= RankOf(r.sort, r.sel, i)
  /\ r.calm /\ r.step # "count" => r.total = Cardinality(Selected(r.sel))

\* The sum of two figures is in the columns of a third one.
Adds(t, a, b) == \A x \in Sums4 : t[x] = a[x] + b[x]
Whole(t) == t.count = t.summed + t.excluded

SummaryFine(r) ==
  LET p == r.byChieu["purchase"]
      s == r.byChieu["sold"]
      shown == IF r.step = "complete" THEN r.total ELSE Totals(Selected(r.sel))
  IN /\ Whole(p) /\ Whole(s) /\ Whole(r.total)
     /\ r.step # "groups" =>
          /\ ~r.sel.filter.biSua => p.count + s.count <= shown.count
          /\ r.calm => Adds(shown, p, s)

Sold(r) == Numbered(Matching(SoldOf(r.sel.filter)))

GapsFine(r) ==
  /\ r.before \subseteq stored
  /\ r.step # "gaps" /\ ~r.sel.filter.biSua =>
       \E N \in SUBSET Sold(r) : Sold(r) \cap r.before \subseteq N /\ r.gaps = SequenceGaps(N)

RequestFine ==
  /\ "kind" \in DOMAIN req
  /\ req.kind \in {"none", "export", "list", "summary", "reconcile"}
  /\ req.kind = "list" => req \in ListReq /\ NothingSkipped(req)
  /\ req.kind = "summary" => req \in SummaryReq /\ SummaryFine(req)
  /\ req.kind = "reconcile" => req \in ReconcileReq /\ GapsFine(req)

IInv ==
  /\ stored \subseteq Invoices
  /\ tthai = [i \in Invoices |-> tthai[i]]
  /\ RequestFine

-----------------------------------------------------------------------------
(***************************************************************************)
(* Counting                                                                *)
(***************************************************************************)
LEMMA Counts ==
  ASSUME NEW T \in SUBSET Invoices
  PROVE  /\ IsFiniteSet(T) /\ Cardinality(T) \in Nat
         /\ \A S \in SUBSET T : Cardinality(S) <= Cardinality(T)
BY FS_Subset, FS_CardinalityType, ReadingAssumption

LEMMA CountParts ==
  ASSUME NEW T \in SUBSET Invoices, NEW A, NEW B, T = A \cup B, A \cap B = {}
  PROVE  Cardinality(T) = Cardinality(A) + Cardinality(B)
<1>1. IsFiniteSet(A) /\ IsFiniteSet(B) /\ Cardinality(A) \in Nat /\ Cardinality(B) \in Nat
  BY Counts
<1>2. Cardinality(A \cup B) = Cardinality(A) + Cardinality(B) - Cardinality(A \cap B)
  BY <1>1, FS_Union
<1>3. Cardinality(A \cap B) = 0
  BY FS_EmptySet
<1>4. Cardinality(T) = Cardinality(A \cup B)
  OBVIOUS
<1> QED BY <1>1, <1>2, <1>3, <1>4

LEMMA FewerThan ==
  ASSUME NEW T \in SUBSET Invoices, NEW i \in T, NEW S \in SUBSET (T \ {i})
  PROVE  Cardinality(S) < Cardinality(T)
<1>1. Cardinality(S) \in Nat /\ Cardinality(T) \in Nat
      /\ Cardinality(S) <= Cardinality(T) /\ S # T
  BY Counts
<1>2. Cardinality(S) # Cardinality(T)
  BY <1>1, Counts, FS_Subset
<1> QED BY <1>1, <1>2

-----------------------------------------------------------------------------
(***************************************************************************)
(* Ranks of numbers                                                        *)
(***************************************************************************)
LEMMA UpTo ==
  ASSUME NEW n \in Nat
  PROVE  IsFiniteSet(0 .. n - 1) /\ Cardinality(0 .. n - 1) = n
<1>1. 0 \in Int /\ n - 1 \in Int
  OBVIOUS
<1>2. /\ IsFiniteSet(0 .. n - 1)
      /\ Cardinality(0 .. n - 1) = IF 0 > n - 1 THEN 0 ELSE (n - 1) - 0 + 1
  BY <1>1, FS_Interval
<1> QED BY <1>2

LEMMA Ranks ==
  ASSUME NEW H \in SUBSET Nat, IsFiniteSet(H)
  PROVE  LET rank(n) == Cardinality({k \in H : k < n})
         IN /\ \A n \in H : rank(n) \in 0 .. Cardinality(H) - 1
            /\ \A m, n \in H : m < n => rank(m) < rank(n)
            /\ \A r \in 0 .. Cardinality(H) - 1 : \E n \in H : rank(n) = r
<1> DEFINE below(n) == {k \in H : k < n}
           rank(n) == Cardinality(below(n))
           c == Cardinality(H)
           f == [n \in H |-> rank(n)]
<1>1. c \in Nat /\ \A n \in H : IsFiniteSet(below(n)) /\ rank(n) \in Nat
  BY FS_Subset, FS_CardinalityType
<1>2. ASSUME NEW n \in H PROVE rank(n) \in 0 .. c - 1
  <2>1. below(n) \in SUBSET (H \ {n})
    OBVIOUS
  <2>2. IsFiniteSet(H \ {n}) /\ Cardinality(H \ {n}) = c - 1
    BY FS_RemoveElement
  <2>3. rank(n) <= c - 1
    BY <2>1, <2>2, FS_Subset
  <2> QED BY <1>1, <2>3
<1>3. ASSUME NEW m \in H, NEW n \in H, m < n PROVE rank(m) < rank(n)
  <2>0. \A k \in H : k < m => k < n
    BY <1>3
  <2>1. below(m) \cup {m} \in SUBSET below(n) /\ m \notin below(m)
    <3>1. below(m) \subseteq below(n)
      BY <2>0
    <3>2. m \in below(n)
      BY <1>3
    <3>3. m \notin below(m)
      OBVIOUS
    <3> QED BY <3>1, <3>2, <3>3
  <2>2. Cardinality(below(m) \cup {m}) = rank(m) + 1
    BY <1>1, <2>1, FS_AddElement
  <2>3. rank(m) + 1 <= rank(n)
    BY <1>1, <2>1, <2>2, FS_Subset
  <2> QED BY <1>1, <2>3
<1>4. f \in [H -> 0 .. c - 1] /\ \A n \in H : f[n] = rank(n)
  BY <1>2
<1>5. \A m, n \in H : f[m] = f[n] => m = n
  <2> SUFFICES ASSUME NEW m \in H, NEW n \in H, m # n PROVE f[m] # f[n]
    OBVIOUS
  <2>1. m < n \/ n < m
    OBVIOUS
  <2> HIDE DEF f, rank
  <2>2. f[m] < f[n] \/ f[n] < f[m]
    BY <1>3, <1>4, <2>1
  <2>3. f[m] \in Int /\ f[n] \in Int
    BY <1>1, <1>4
  <2> QED BY <2>2, <2>3
<1>6. IsFiniteSet(0 .. c - 1) /\ Cardinality(0 .. c - 1) = c
  BY <1>1, UpTo
<1>7. f \in Injection(H, 0 .. c - 1)
  BY <1>4, <1>5 DEF Injection, IsInjective
<1>8. f \in Surjection(H, 0 .. c - 1)
  BY <1>6, <1>7, FS_Injection
<1>9. \A r \in 0 .. c - 1 : \E n \in H : f[n] = r
  BY <1>8 DEF Surjection
<1> QED BY <1>2, <1>3, <1>4, <1>9

\* The first K of a set are K.
LEMMA FirstOnes ==
  ASSUME NEW H \in SUBSET Nat, IsFiniteSet(H), NEW K \in Nat, K <= Cardinality(H)
  PROVE  Cardinality({n \in H : Cardinality({k \in H : k < n}) < K}) = K
<1> DEFINE rank(n) == Cardinality({k \in H : k < n})
           F == {n \in H : rank(n) < K}
           g == [n \in F |-> rank(n)]
<1>1. Cardinality(H) \in Nat
  BY FS_CardinalityType
<1>2. /\ \A n \in H : rank(n) \in 0 .. Cardinality(H) - 1
      /\ \A m, n \in H : m < n => rank(m) < rank(n)
      /\ \A r \in 0 .. Cardinality(H) - 1 : \E n \in H : rank(n) = r
  BY Ranks
<1> HIDE DEF rank
<1>3. g \in [F -> 0 .. K - 1] /\ \A n \in F : g[n] = rank(n)
  <2>1. \A n \in F : rank(n) \in 0 .. K - 1
    BY <1>1, <1>2
  <2> HIDE DEF F
  <2> QED BY <2>1
<1>4. \A m, n \in F : g[m] = g[n] => m = n
  <2> SUFFICES ASSUME NEW m \in F, NEW n \in F, m # n PROVE g[m] # g[n]
    OBVIOUS
  <2>1. m < n \/ n < m
    OBVIOUS
  <2>2. rank(m) < rank(n) \/ rank(n) < rank(m)
    BY <1>2, <2>1
  <2>3. rank(m) \in Int /\ rank(n) \in Int
    BY <1>2
  <2> QED BY <1>3, <2>2, <2>3
<1>5. \A r \in 0 .. K - 1 : \E n \in F : g[n] = r
  BY <1>1, <1>2, <1>3
<1> HIDE DEF F, g
<1>6. IsFiniteSet(0 .. K - 1) /\ Cardinality(0 .. K - 1) = K
  BY UpTo
<1>7. g \in Injection(F, 0 .. K - 1)
  BY <1>3, <1>4 DEF Injection, IsInjective
<1>8. g \in Surjection(F, 0 .. K - 1)
  BY <1>3, <1>5 DEF Surjection
<1>9. Cardinality(F) = Cardinality(0 .. K - 1)
  BY <1>6, <1>7, <1>8, FS_Injection
<1> QED BY <1>6, <1>9 DEF F, rank

\* A set of numbers that is finite and not empty has a least and a greatest.
LEMMA Ends ==
  ASSUME NEW H \in SUBSET Nat, IsFiniteSet(H), H # {}
  PROVE  /\ Min(H) \in H /\ Max(H) \in H
         /\ \A n \in H : Min(H) <= n /\ n <= Max(H)
<1> DEFINE rank(n) == Cardinality({k \in H : k < n})
           c == Cardinality(H)
<1>1. c \in Nat /\ c # 0
  BY FS_CardinalityType, FS_EmptySet
<1>2. /\ \A n \in H : rank(n) \in 0 .. c - 1
      /\ \A m, n \in H : m < n => rank(m) < rank(n)
      /\ \A r \in 0 .. c - 1 : \E n \in H : rank(n) = r
  BY Ranks
<1> HIDE DEF rank, c
<1>3. PICK low \in H : rank(low) = 0
  BY <1>1, <1>2
<1>4. PICK high \in H : rank(high) = c - 1
  BY <1>1, <1>2
<1>5. \A n \in H : low <= n
  <2> SUFFICES ASSUME NEW n \in H, n < low PROVE FALSE
    OBVIOUS
  <2> QED BY <1>2, <1>3
<1>6. \A n \in H : n <= high
  <2> SUFFICES ASSUME NEW n \in H, high < n PROVE FALSE
    OBVIOUS
  <2>1. rank(high) < rank(n) /\ rank(n) \in 0 .. c - 1
    BY <1>2
  <2> QED BY <1>1, <1>4, <2>1
<1>7. Min(H) \in H /\ \A n \in H : Min(H) <= n
  BY <1>5 DEF Min
<1>8. Max(H) \in H /\ \A n \in H : n <= Max(H)
  BY <1>6 DEF Max
<1> QED BY <1>7, <1>8

-----------------------------------------------------------------------------
(***************************************************************************)
(* Holes of a series                                                       *)
(***************************************************************************)
LEMMA NumbersFinite ==
  ASSUME NEW N \in SUBSET Invoices
  PROVE  LET all == {Number[i] : i \in N} IN all \in SUBSET Nat /\ IsFiniteSet(all)
<1> DEFINE all == {Number[i] : i \in N}
           f == [i \in N |-> Number[i]]
<1>1. all \in SUBSET Nat /\ IsFiniteSet(N)
  BY Counts, ReadingAssumption
<1>2. f \in Surjection(N, all)
  BY DEF Surjection
<1> QED BY <1>1, <1>2, FS_Surjection

LEMMA SeriesNumbers ==
  ASSUME NEW N \in SUBSET Invoices, NEW s
  PROVE  /\ NumbersOf(N, s) \in SUBSET Nat /\ IsFiniteSet(NumbersOf(N, s))
         /\ s \in SeriesOf(N) => NumbersOf(N, s) # {}
<1>1. {j \in N : Series(j) = s} \in SUBSET Invoices
  OBVIOUS
<1>2. NumbersOf(N, s) \in SUBSET Nat /\ IsFiniteSet(NumbersOf(N, s))
  BY <1>1, NumbersFinite DEF NumbersOf
<1>3. s \in SeriesOf(N) => NumbersOf(N, s) # {}
  BY DEF SeriesOf, NumbersOf
<1> QED BY <1>2, <1>3

LEMMA HolesBetween ==
  ASSUME NEW N \in SUBSET Invoices, NEW s \in SeriesOf(N)
  PROVE  /\ Holes(N, s) \in SUBSET Nat /\ IsFiniteSet(Holes(N, s))
         /\ \A n \in Holes(N, s) :
              /\ n \notin NumbersOf(N, s)
              /\ \E a, b \in NumbersOf(N, s) : a < n /\ n < b
<1> DEFINE all == NumbersOf(N, s)
<1>1. /\ all \in SUBSET Nat /\ Min(all) \in all /\ Max(all) \in all
      /\ \A n \in all : Min(all) <= n /\ n <= Max(all)
  BY SeriesNumbers, Ends
<1>2. Holes(N, s) = (Min(all) .. Max(all)) \ all
  BY DEF Holes
<1> HIDE DEF all
<1>3. Min(all) \in Nat /\ Max(all) \in Nat
  BY <1>1
<1>4. Holes(N, s) \in SUBSET Nat /\ IsFiniteSet(Holes(N, s))
  <2>1. IsFiniteSet(Min(all) .. Max(all))
    BY <1>3, FS_Interval
  <2>2. Holes(N, s) \in SUBSET (Min(all) .. Max(all))
    BY <1>2
  <2>3. Min(all) .. Max(all) \subseteq Nat
    BY <1>3
  <2> QED BY <2>1, <2>2, <2>3, FS_Subset
<1>5. ASSUME NEW n \in Holes(N, s)
      PROVE  n \notin all /\ \E a, b \in all : a < n /\ n < b
  <2>1. n \in Min(all) .. Max(all) /\ n \notin all
    BY <1>2
  <2>2. Min(all) < n /\ n < Max(all)
    BY <1>1, <1>3, <2>1
  <2> QED BY <1>1, <2>1, <2>2
<1> QED BY <1>4, <1>5 DEF all

\* A number between two of a series is one of them or a hole.
LEMMA HoleBetween ==
  ASSUME NEW N \in SUBSET Invoices, NEW s \in SeriesOf(N), NEW n \in Nat,
         NEW a \in NumbersOf(N, s), NEW b \in NumbersOf(N, s), a <= n, n <= b,
         n \notin NumbersOf(N, s)
  PROVE  n \in Holes(N, s)
<1> DEFINE all == NumbersOf(N, s)
<1>1. /\ all \in SUBSET Nat /\ Min(all) \in all /\ Max(all) \in all
      /\ \A m \in all : Min(all) <= m /\ m <= Max(all)
  BY SeriesNumbers, Ends
<1>2. Holes(N, s) = (Min(all) .. Max(all)) \ all
  BY DEF Holes
<1> HIDE DEF all
<1>3. Min(all) <= a /\ b <= Max(all) /\ Min(all) \in Nat /\ Max(all) \in Nat
      /\ a \in Nat /\ b \in Nat /\ n \notin all
  BY <1>1 DEF all
<1>4. Min(all) <= n /\ n <= Max(all)
  BY <1>3
<1> QED BY <1>2, <1>3, <1>4

LEMMA GapsShape ==
  ASSUME NEW N, NEW s, NEW n
  PROVE  <<s, n>> \in SequenceGaps(N) <=>
           /\ s \in SeriesOf(N) /\ n \in Holes(N, s)
           /\ Cardinality({k \in Holes(N, s) : k < n}) < MaxGaps
<1> DEFINE low(t) == {m \in Holes(N, t) : Cardinality({k \in Holes(N, t) : k < m}) < MaxGaps}
<1>1. SequenceGaps(N) = UNION {{<<t, m>> : m \in low(t)} : t \in SeriesOf(N)}
  BY DEF SequenceGaps
<1>2. <<s, n>> \in SequenceGaps(N) <=> s \in SeriesOf(N) /\ n \in low(s)
  <2> HIDE DEF low
  <2> QED BY <1>1
<1> QED BY <1>2

\* What a report computed of N says is right of any set between what was known
\* and what is there: a gap is real, and one that is left out is behind others.
LEMMA ReportIsRight ==
  ASSUME NEW there \in SUBSET Invoices, \A i \in there : Number[i] > 0,
         NEW N \in SUBSET there, NEW known \in SUBSET N
  PROVE  LET gaps == SequenceGaps(N)
             of(s) == {n \in 1 .. Max({Number[i] : i \in Invoices}) : <<s, n>> \in gaps}
         IN /\ \A g \in gaps :
                 /\ g[2] \notin NumbersOf(known, g[1])
                 /\ \E m, n \in NumbersOf(there, g[1]) : m < g[2] /\ g[2] < n
            /\ \A s \in SeriesOf(known) : \A n \in Holes(known, s) \ NumbersOf(there, s) :
                 n \in of(s) \/ Cardinality({m \in of(s) : m < n}) = MaxGaps
<1> DEFINE gaps == SequenceGaps(N)
           top == Max({Number[i] : i \in Invoices})
           of(s) == {n \in 1 .. top : <<s, n>> \in gaps}
<1>1. \A s : NumbersOf(known, s) \subseteq NumbersOf(N, s) /\ NumbersOf(N, s) \subseteq NumbersOf(there, s)
  BY DEF NumbersOf
<1>2. ASSUME NEW g \in gaps
      PROVE  /\ g[2] \notin NumbersOf(known, g[1])
             /\ \E m, n \in NumbersOf(there, g[1]) : m < g[2] /\ g[2] < n
  <2>1. PICK s \in SeriesOf(N) : \E n \in Holes(N, s) : g = <<s, n>>
    BY <1>2 DEF SequenceGaps
  <2>2. PICK n \in Holes(N, s) : g = <<s, n>>
    BY <2>1
  <2>3. n \notin NumbersOf(N, s) /\ \E a, b \in NumbersOf(N, s) : a < n /\ n < b
    BY <2>2, HolesBetween
  <2>4. g[1] = s /\ g[2] = n
    BY <2>2
  <2> QED BY <1>1, <2>3, <2>4
<1>3. ASSUME NEW s \in SeriesOf(known), NEW n \in Holes(known, s) \ NumbersOf(there, s)
      PROVE  n \in of(s) \/ Cardinality({m \in of(s) : m < n}) = MaxGaps
  <2> DEFINE H == Holes(N, s)
             rank(m) == Cardinality({k \in H : k < m})
             F == {m \in H : rank(m) < MaxGaps}
  <2>1. s \in SeriesOf(N) /\ known \in SUBSET Invoices /\ N \in SUBSET Invoices
    BY DEF SeriesOf
  <2>2. PICK a, b \in NumbersOf(known, s) : a < n /\ n < b
    BY <2>1, HolesBetween
  <2>3. n \in Nat /\ n \notin NumbersOf(N, s) /\ a \in Nat /\ b \in Nat
    BY <1>1, <2>1, HolesBetween, SeriesNumbers
  <2>4. n \in H
    BY <1>1, <2>1, <2>2, <2>3, HoleBetween
  <2>5. H \in SUBSET Nat /\ IsFiniteSet(H)
    BY <2>1, HolesBetween
  <2>6. \A m \in H : m \in 1 .. top
    <3> SUFFICES ASSUME NEW m \in H PROVE m \in 1 .. top
      OBVIOUS
    <3>1. PICK c, d \in NumbersOf(N, s) : c < m /\ m < d
      BY <2>1, HolesBetween
    <3>2. c \in Nat /\ d \in Nat /\ m \in Nat
      BY <2>1, <2>5, SeriesNumbers
    <3>3. c > 0
      BY DEF NumbersOf
    <3>4. d \in {Number[i] : i \in Invoices}
      BY <2>1 DEF NumbersOf
    <3>5. d <= top /\ top \in Nat
      <4> DEFINE all == {Number[i] : i \in Invoices}
      <4>1. all \in SUBSET Nat /\ IsFiniteSet(all) /\ d \in all
        BY <3>4, NumbersFinite
      <4> HIDE DEF all
      <4>2. d <= Max(all) /\ Max(all) \in Nat
        BY <4>1, Ends
      <4> QED BY <4>2 DEF all
    <3> HIDE DEF top
    <3> QED BY <3>1, <3>2, <3>3, <3>5
  <2>7. of(s) = F
    BY <2>1, <2>6, GapsShape
  <2> HIDE DEF of, H
  <2>8. MaxGaps \in Nat \ {0}
    BY ReadingAssumption
  <2>9. /\ Cardinality(H) \in Nat
        /\ \A m \in H : rank(m) \in 0 .. Cardinality(H) - 1
        /\ \A m, k \in H : m < k => rank(m) < rank(k)
    BY <2>5, Ranks, FS_CardinalityType
  <2>10. CASE rank(n) < MaxGaps
    BY <2>4, <2>7, <2>10
  <2>11. CASE ~(rank(n) < MaxGaps)
    <3>1. MaxGaps <= Cardinality(H)
      BY <2>4, <2>8, <2>9, <2>11
    <3>2. Cardinality(F) = MaxGaps
      BY <2>5, <2>8, <3>1, FirstOnes
    <3>3. \A m \in F : m < n
      <4> SUFFICES ASSUME NEW m \in H, rank(m) < MaxGaps PROVE m < n
        OBVIOUS
      <4>1. rank(m) < rank(n)
        BY <2>4, <2>8, <2>9, <2>11
      <4> HIDE DEF rank
      <4>2. rank(m) \in Int /\ rank(n) \in Int /\ (n < m => rank(n) < rank(m))
        BY <2>4, <2>9
      <4>3. ~(n < m) /\ n # m
        BY <4>1, <4>2
      <4> QED BY <2>3, <2>5, <4>3
    <3> HIDE DEF F
    <3>4. {m \in F : m < n} = F
      BY <3>3
    <3> QED BY <2>7, <3>2, <3>4
  <2> QED BY <2>10, <2>11
<1> QED BY <1>2, <1>3

-----------------------------------------------------------------------------
(***************************************************************************)
(* What writers do to a request                                            *)
(***************************************************************************)
LEMMA MatchStays ==
  ASSUME NEW sel, ~sel.filter.biSua, NEW i, NEW c, NEW d
  PROVE  Matches(sel, i, c) = Matches(sel, i, d)
BY DEF Matches

LEMMA OrderStays ==
  ASSUME NEW sort, sort.by \notin Overwritten, NEW i, NEW j
  PROVE  Before(sort, i, j)' <=> Before(sort, i, j)
<1>1. \A k : SortKey(sort.by, k)' = SortKey(sort.by, k)
  BY DEF SortKey, Overwritten
<1> QED BY <1>1 DEF Before

LEMMA SelectedGrows ==
  ASSUME stored \subseteq stored', NEW sel, ~sel.filter.biSua
  PROVE  /\ Selected(sel) \subseteq Selected(sel)'
         /\ \A i \in stored : i \in Selected(sel)' => i \in Selected(sel)
<1>1. \A i : Matches(sel, i, tthai[i]) = Matches(sel, i, tthai'[i])
  BY MatchStays
<1> QED BY <1>1 DEF Selected

LEMMA SelectedStored == ASSUME IInv, NEW sel PROVE Selected(sel) \in SUBSET Invoices
BY DEF IInv, Selected

LEMMA RankGrows ==
  ASSUME stored \subseteq stored', stored' \subseteq Invoices,
         NEW sel, ~sel.filter.biSua, NEW sort, sort.by \notin Overwritten, NEW i
  PROVE  /\ RankOf(sort, sel, i) \in Nat /\ RankOf(sort, sel, i)' \in Nat
         /\ RankOf(sort, sel, i) <= RankOf(sort, sel, i)'
<1> DEFINE S == {j \in Selected(sel) : Before(sort, j, i)}
           T == {j \in Selected(sel)' : Before(sort, j, i)'}
<1>1. S \in SUBSET T
  BY SelectedGrows, OrderStays
<1>2. T \in SUBSET Invoices
  BY DEF Selected
<1> HIDE DEF S, T
<1>3. Cardinality(S) <= Cardinality(T) /\ Cardinality(S) \in Nat /\ Cardinality(T) \in Nat
  BY <1>1, <1>2, Counts
<1> QED BY <1>3 DEF RankOf, S, T

LEMMA NoFilterIds == \A sel \in AnySel : sel.ids = {} /\ sel.filter \in Filters
BY DEF AnySel, ByFilter

LEMMA Sizes == Limit \in Nat \ {0} /\ PageSize \in Nat \ {0}
BY ReadingAssumption

LEMMA FilterShape ==
  ASSUME NEW f \in Filters PROVE SoldOf(f).biSua = f.biSua
BY ReadingAssumption DEF SoldOf

LEMMA ListWrites ==
  ASSUME IInv, stored \subseteq stored', stored' \subseteq Invoices, req.kind = "list",
         req' \in ListReq, req'.calm = FALSE, req'.steady \subseteq req.steady,
         req'.sel = req.sel, req'.sort = req.sort, req'.step = req.step,
         req'.offset = req.offset, req'.seen = req.seen
  PROVE  NothingSkipped(req)'
<1>1. req \in ListReq /\ NothingSkipped(req)
  BY DEF IInv, RequestFine
<1>2. PICK sel, sort : sel = req.sel /\ sort = req.sort
  OBVIOUS
<1>3. req'.sel = sel /\ req'.sort = sort /\ ReadTo(req)' = ReadTo(req)
  BY <1>2 DEF ReadTo
<1>4. ReadTo(req) \in Nat
  BY <1>1, Sizes DEF ListReq, ReadTo
<1>5. ASSUME ~sel.filter.biSua
      PROVE  /\ req'.steady \subseteq Selected(sel)'
             /\ sort.by \notin Overwritten =>
                  \A i \in req'.steady \ req'.seen : ReadTo(req)' <= RankOf(sort, sel, i)'
  <2>1. req.steady \subseteq Selected(sel)
    BY <1>1, <1>2, <1>5 DEF NothingSkipped
  <2>2. Selected(sel) \subseteq Selected(sel)'
    BY <1>5, SelectedGrows
  <2>3. ASSUME sort.by \notin Overwritten, NEW i \in req'.steady \ req'.seen
        PROVE  ReadTo(req)' <= RankOf(sort, sel, i)'
    <3>1. ReadTo(req) <= RankOf(sort, sel, i)
      BY <1>1, <1>2, <1>5, <2>3 DEF NothingSkipped
    <3>2. /\ RankOf(sort, sel, i) \in Nat /\ RankOf(sort, sel, i)' \in Nat
          /\ RankOf(sort, sel, i) <= RankOf(sort, sel, i)'
      BY <1>5, <2>3, RankGrows
    <3> QED BY <1>3, <1>4, <3>1, <3>2
  <2> QED BY <2>1, <2>2, <2>3
<1> QED BY <1>3, <1>5 DEF NothingSkipped

LEMMA TotalsOf ==
  ASSUME NEW S \in SUBSET Invoices
  PROVE  /\ Totals(S) \in Figures /\ Totals(S).count = Cardinality(S)
         /\ Whole(Totals(S))
<1>1. \A v : {i \in S : Summed(tthai[i]) = v} \in SUBSET Invoices
  OBVIOUS
<1>2. {i \in S : tthai[i] = BI_DIEU_CHINH} \in SUBSET Invoices
  OBVIOUS
<1>3. Cardinality(S) \in Nat /\ Having(S, "true") \in Nat /\ Having(S, "false") \in Nat
      /\ Cardinality({i \in S : tthai[i] = BI_DIEU_CHINH}) \in Nat
  BY <1>1, <1>2, Counts DEF Having
<1>4. Cardinality(S) = Having(S, "true") + Having(S, "false")
  <2> DEFINE A == {i \in S : Summed(tthai[i]) = "true"}
             B == {i \in S : Summed(tthai[i]) = "false"}
  <2>1. S = A \cup B /\ A \cap B = {}
    BY DEF Summed
  <2> HIDE DEF A, B
  <2>2. Cardinality(S) = Cardinality(A) + Cardinality(B)
    BY <2>1, CountParts
  <2> QED BY <2>2 DEF A, B, Having
<1>5. Totals(S) \in Figures
  BY <1>3 DEF Totals, Figures, Sums4
<1>6. Totals(S).count = Cardinality(S) /\ Totals(S).summed = Having(S, "true")
      /\ Totals(S).excluded = Having(S, "false")
  BY DEF Totals
<1> QED BY <1>4, <1>5, <1>6 DEF Whole

LEMMA SummaryWrites ==
  ASSUME IInv, stored \subseteq stored', stored' \subseteq Invoices, req.kind = "summary",
         req' = [req EXCEPT !.calm = FALSE]
  PROVE  req' \in SummaryReq /\ SummaryFine(req)'
<1>1. req \in SummaryReq /\ SummaryFine(req)
  BY DEF IInv, RequestFine
<1>2. /\ req' \in SummaryReq /\ req'.calm = FALSE /\ req'.step = req.step
      /\ req'.byChieu = req.byChieu /\ req'.total = req.total /\ req'.sel = req.sel
  BY <1>1 DEF SummaryReq
<1>3. PICK sel, p, s : sel = req.sel /\ p = req.byChieu["purchase"] /\ s = req.byChieu["sold"]
  OBVIOUS
<1>4. CASE req.step = "total" /\ ~sel.filter.biSua
  <2>1. Selected(sel) \in SUBSET Selected(sel)' /\ Selected(sel)' \in SUBSET Invoices
    BY <1>4, SelectedGrows DEF Selected
  <2>2. Cardinality(Selected(sel)) <= Cardinality(Selected(sel)')
        /\ Cardinality(Selected(sel)) \in Nat /\ Cardinality(Selected(sel)') \in Nat
    BY <2>1, Counts
  <2>3. p.count + s.count <= Totals(Selected(sel)).count
    BY <1>1, <1>3, <1>4 DEF SummaryFine
  <2>4. Totals(Selected(sel)).count = Cardinality(Selected(sel))
        /\ Totals(Selected(sel))'.count = Cardinality(Selected(sel)')
    BY DEF Totals
  <2>5. p.count \in Nat /\ s.count \in Nat
    BY <1>1, <1>3 DEF SummaryReq, Figures, Sums4, Directions
  <2>6. p.count + s.count <= Totals(Selected(sel))'.count
    BY <2>2, <2>3, <2>4, <2>5
  <2> QED BY <1>1, <1>2, <1>3, <1>4, <2>6 DEF SummaryFine, Whole
<1>5. CASE ~(req.step = "total" /\ ~sel.filter.biSua)
  BY <1>1, <1>2, <1>3, <1>5 DEF SummaryFine, SummaryReq, Whole
<1> QED BY <1>2, <1>4, <1>5

LEMMA GapsWrites ==
  ASSUME IInv, stored \subseteq stored', req.kind = "reconcile", req' = req
  PROVE  req' \in ReconcileReq /\ GapsFine(req)'
<1>1. req \in ReconcileReq /\ GapsFine(req)
  BY DEF IInv, RequestFine
<1>2. req.sel.filter \in Filters
  BY <1>1, NoFilterIds DEF ReconcileReq
<1>3. PICK f \in Filters : f = req.sel.filter
  BY <1>2
<1> DEFINE sel == ByFilter(SoldOf(f))
<1>4. ASSUME ~f.biSua
      PROVE  /\ Sold(req) \subseteq Sold(req)'
             /\ \A i \in stored : i \in Sold(req)' => i \in Sold(req)
  <2>1. ~sel.filter.biSua
    BY <1>4, FilterShape DEF ByFilter
  <2>2. /\ Selected(sel) \subseteq Selected(sel)'
        /\ \A i \in stored : i \in Selected(sel)' => i \in Selected(sel)
    BY <2>1, SelectedGrows
  <2>3. Sold(req) = Numbered(Selected(sel)) /\ Sold(req)' = Numbered(Selected(sel)')
    BY <1>3 DEF Sold, Matching, Numbered
  <2> HIDE DEF sel
  <2> QED BY <2>2, <2>3 DEF Numbered
<1>5. req.before \subseteq stored'
  BY <1>1 DEF GapsFine
<1>6. ASSUME req.step # "gaps", ~f.biSua
      PROVE  \E N \in SUBSET (Sold(req)') :
               Sold(req)' \cap req.before \subseteq N /\ req.gaps = SequenceGaps(N)
  <2>1. PICK N \in SUBSET Sold(req) :
          Sold(req) \cap req.before \subseteq N /\ req.gaps = SequenceGaps(N)
    BY <1>1, <1>3, <1>6 DEF GapsFine
  <2>2. Sold(req)' \cap req.before \subseteq Sold(req) \cap req.before
    BY <1>1, <1>4, <1>6 DEF GapsFine
  <2>3. N \in SUBSET (Sold(req)') /\ Sold(req)' \cap req.before \subseteq N
    BY <1>4, <1>6, <2>1, <2>2
  <2> QED BY <2>1, <2>3
<1> QED BY <1>1, <1>3, <1>5, <1>6 DEF GapsFine

LEMMA WritesKeep == ASSUME IInv, Sync PROVE IInv'
<1>0. PICK i \in Invoices : \E code : Store(i, code) \/ Change(i, code)
  BY DEF Sync
<1>1. PICK code : Store(i, code) \/ Change(i, code)
  BY <1>0
<1>2. /\ stored \subseteq stored' /\ stored' \subseteq Invoices
      /\ tthai' = [j \in Invoices |-> tthai'[j]]
  BY <1>1 DEF IInv, Store, Change
<1>3. req' = Stirred(req) \/ req' = Stirred(Stays(req, i, code))
  BY <1>1 DEF Store, Change
<1>4. "kind" \in DOMAIN req /\ req.kind \in {"none", "export", "list", "summary", "reconcile"}
  BY DEF IInv, RequestFine
<1>5. CASE req.kind \in {"none", "reconcile"}
  <2>1. req' = req
    BY <1>3, <1>5 DEF Stirred, Stays
  <2>2. req.kind = "reconcile" => req' \in ReconcileReq /\ GapsFine(req)'
    BY <1>2, <2>1, GapsWrites
  <2> QED BY <1>2, <1>4, <1>5, <2>1, <2>2 DEF IInv, RequestFine
<1>6. CASE req.kind = "export"
  <2>1. req' = req \/ \E S : req' = [req EXCEPT !.steady = S]
    BY <1>3, <1>6 DEF Stirred, Stays
  <2>2. req'.kind = "export" /\ "kind" \in DOMAIN req'
    BY <1>4, <1>6, <2>1
  <2> QED BY <1>2, <2>2 DEF IInv, RequestFine
<1>7. CASE req.kind = "summary"
  <2>1. req' = [req EXCEPT !.calm = FALSE]
    BY <1>3, <1>7 DEF Stirred, Stays
  <2>2. req' \in SummaryReq /\ SummaryFine(req)'
    BY <1>2, <1>7, <2>1, SummaryWrites
  <2>3. req'.kind = "summary" /\ "kind" \in DOMAIN req'
    BY <2>2 DEF SummaryReq
  <2> QED BY <1>2, <2>2, <2>3 DEF IInv, RequestFine
<1>8. CASE req.kind = "list"
  <2>1. req \in ListReq
    BY <1>8 DEF IInv, RequestFine
  <2>2. PICK S \in SUBSET req.steady : Stays(req, i, code) = [req EXCEPT !.steady = S]
    BY <1>8 DEF Stays
  <2> DEFINE stay == [req EXCEPT !.steady = S]
  <2>3. /\ stay \in ListReq /\ stay.kind = "list" /\ stay.steady \subseteq req.steady
        /\ stay.sel = req.sel /\ stay.sort = req.sort /\ stay.step = req.step
        /\ stay.offset = req.offset /\ stay.seen = req.seen
    BY <2>1, <2>2 DEF ListReq
  <2> HIDE DEF stay
  <2>4. \E r \in {req, stay} : req' = [r EXCEPT !.calm = FALSE]
    BY <1>3, <1>8, <2>2, <2>3 DEF Stirred, stay
  <2>5. /\ req' \in ListReq /\ req'.calm = FALSE /\ req'.steady \subseteq req.steady
        /\ req'.sel = req.sel /\ req'.sort = req.sort /\ req'.step = req.step
        /\ req'.offset = req.offset /\ req'.seen = req.seen
    <3>1. PICK r \in {req, stay} : req' = [r EXCEPT !.calm = FALSE]
      BY <2>4
    <3>2. /\ r \in ListReq /\ r.steady \subseteq req.steady
          /\ r.sel = req.sel /\ r.sort = req.sort /\ r.step = req.step
          /\ r.offset = req.offset /\ r.seen = req.seen
      BY <2>1, <2>3
    <3>3. /\ req' \in ListReq /\ req'.calm = FALSE /\ req'.steady = r.steady
          /\ req'.sel = r.sel /\ req'.sort = r.sort /\ req'.step = r.step
          /\ req'.offset = r.offset /\ req'.seen = r.seen
      BY <3>1, <3>2 DEF ListReq
    <3> QED BY <3>2, <3>3
  <2>6. NothingSkipped(req)'
    BY <1>2, <1>8, <2>5, ListWrites
  <2>7. req'.kind = "list" /\ "kind" \in DOMAIN req'
    BY <2>5 DEF ListReq
  <2> QED BY <1>2, <2>5, <2>6, <2>7 DEF IInv, RequestFine
<1> QED BY <1>4, <1>5, <1>6, <1>7, <1>8

-----------------------------------------------------------------------------
(***************************************************************************)
(* The list                                                                *)
(***************************************************************************)
\* Nothing is written: what is selected and counted stays.
LEMMA NothingWritten ==
  ASSUME UNCHANGED dbVars
  PROVE  /\ stored' = stored /\ tthai' = tthai
         /\ \A sel : Selected(sel)' = Selected(sel)
         /\ \A sort, sel, i : RankOf(sort, sel, i)' = RankOf(sort, sel, i)
         /\ \A S : Totals(S)' = Totals(S)
<1>1. stored' = stored /\ tthai' = tthai
  BY DEF dbVars
<1>2. \A sel : Selected(sel)' = Selected(sel)
  BY <1>1 DEF Selected
<1>3. \A sort, i, j : Before(sort, i, j)' <=> Before(sort, i, j)
  BY <1>1 DEF Before, SortKey
<1>4. \A sort, sel, i : RankOf(sort, sel, i)' = RankOf(sort, sel, i)
  BY <1>2, <1>3 DEF RankOf
<1>5. \A S : Totals(S)' = Totals(S)
  BY <1>1 DEF Totals, Having
<1> QED BY <1>1, <1>2, <1>4, <1>5

LEMMA ListKeeps == ASSUME IInv, List PROVE IInv'
<1>1. UNCHANGED dbVars
  BY DEF List, AskList, ListCount, ListRows, NextPage
<1>2. stored' = stored /\ tthai' = tthai
  BY <1>1, NothingWritten
<1>3. SUFFICES req' \in ListReq /\ NothingSkipped(req)'
  BY <1>2 DEF IInv, RequestFine, ListReq
<1>4. CASE \E f \in Filters, sort \in Sorts : AskList(f, sort)
  <2>1. PICK f \in Filters, sort \in Sorts : AskList(f, sort)
    BY <1>4
  <2> DEFINE sel == ByFilter(f)
  <2>2. sel \in AnySel /\ Selected(sel) \in SUBSET Invoices
    BY SelectedStored DEF AnySel
  <2>3. req' = [kind |-> "list", sel |-> sel, sort |-> sort, step |-> "count", offset |-> 0,
                total |-> 0, seen |-> {}, steady |-> Selected(sel), calm |-> TRUE]
    BY <2>1 DEF AskList, Matching
  <2> HIDE DEF sel
  <2>4. req' \in ListReq
    BY <2>2, <2>3 DEF ListReq
  <2>5. Selected(sel)' = Selected(sel)
    BY <1>1, NothingWritten
  <2>6. \A i : RankOf(sort, sel, i)' \in Nat
    <3>1. {j \in Selected(sel)' : TRUE} \in SUBSET Invoices
      BY <2>2, <2>5
    <3>2. \A i : {j \in Selected(sel)' : Before(sort, j, i)'} \in SUBSET Invoices
      BY <3>1
    <3> QED BY <3>2, Counts DEF RankOf
  <2>7. /\ req'.sel = sel /\ req'.sort = sort /\ req'.step = "count" /\ req'.offset = 0
        /\ req'.steady = Selected(sel)
    BY <2>3
  <2>8. ReadTo(req)' = 0
    BY <2>7 DEF ReadTo
  <2>9. \A i : ReadTo(req)' <= RankOf(sort, sel, i)'
    BY <2>6, <2>8
  <2> QED BY <2>4, <2>5, <2>7, <2>9 DEF NothingSkipped
<1>5. CASE ListCount \/ ListRows \/ NextPage
  <2>1. req \in ListReq /\ NothingSkipped(req)
    BY <1>5 DEF ListCount, ListRows, NextPage, IInv, RequestFine
  <2>2. PICK sel, sort : sel = req.sel /\ sort = req.sort
    OBVIOUS
  <2>3. /\ Selected(sel)' = Selected(sel) /\ Selected(sel) \in SUBSET Invoices
        /\ \A i : RankOf(sort, sel, i)' = RankOf(sort, sel, i)
    BY <1>1, NothingWritten, SelectedStored
  <2>4. ~sel.filter.biSua =>
          /\ req.steady \subseteq Selected(sel)
          /\ sort.by \notin Overwritten => \A i \in req.steady \ req.seen : ReadTo(req) <= RankOf(sort, sel, i)
    BY <2>1, <2>2 DEF NothingSkipped
  <2>5. Cardinality(Selected(sel)) \in Nat
    BY <2>3, Counts
  <2>6. CASE ListCount
    <3>1. req' = [req EXCEPT !.total = Cardinality(Selected(sel)), !.step = "rows", !.calm = TRUE]
          /\ req.step = "count"
      BY <2>2, <2>6 DEF ListCount
    <3>2. /\ req' \in ListReq /\ req'.step = "rows" /\ req'.total = Cardinality(Selected(sel))
          /\ req'.offset = req.offset /\ req'.sel = sel /\ req'.sort = sort
          /\ req'.steady = req.steady /\ req'.seen = req.seen
      BY <2>1, <2>2, <2>5, <3>1 DEF ListReq
    <3>3. ReadTo(req)' = ReadTo(req)
      BY <3>1, <3>2 DEF ReadTo
    <3> QED BY <2>3, <2>4, <3>2, <3>3 DEF NothingSkipped
  <2>7. CASE ListRows
    <3> DEFINE slice == Slice(sort, Selected(sel), req.offset, Limit)
    <3>1. req' = [req EXCEPT !.seen = @ \cup slice, !.step = "complete"] /\ req.step = "rows"
      BY <2>2, <2>7 DEF ListRows
    <3>2. slice \in SUBSET Invoices
      BY <2>3 DEF Slice
    <3>3. /\ req' \in ListReq /\ req'.step = "complete" /\ req'.total = req.total
          /\ req'.offset = req.offset /\ req'.sel = sel /\ req'.sort = sort
          /\ req'.steady = req.steady /\ req'.seen = req.seen \cup slice /\ req'.calm = req.calm
      BY <2>1, <2>2, <3>1, <3>2 DEF ListReq
    <3>4. ReadTo(req) = req.offset /\ ReadTo(req)' = req.offset + Limit /\ req.offset \in Nat
      BY <2>1, <3>1, <3>3 DEF ReadTo, ListReq
    <3>5. ASSUME ~sel.filter.biSua, sort.by \notin Overwritten, NEW i \in req'.steady \ req'.seen
          PROVE  ReadTo(req)' <= RankOf(sort, sel, i)'
      <4>1. i \in Selected(sel) /\ i \notin slice /\ req.offset <= RankOf(sort, sel, i)
        BY <2>4, <3>3, <3>4, <3>5
      <4>2. RankOf(sort, sel, i) \notin req.offset .. req.offset + Limit - 1
        BY <4>1 DEF Slice, RankOf
      <4>3. RankOf(sort, sel, i) \in Nat
        <5>1. {j \in Selected(sel) : Before(sort, j, i)} \in SUBSET Invoices
          BY <2>3
        <5> QED BY <5>1, Counts DEF RankOf
      <4>4. req.offset + Limit <= RankOf(sort, sel, i)
        BY <3>4, <4>1, <4>2, <4>3, Sizes
      <4> QED BY <2>3, <3>4, <4>4
    <3>6. req'.calm => req'.total = Cardinality(Selected(sel)')
      BY <2>1, <2>2, <2>3, <3>1, <3>3 DEF NothingSkipped
    <3> HIDE DEF slice
    <3> QED BY <2>3, <2>4, <3>3, <3>5, <3>6 DEF NothingSkipped
  <2>8. CASE NextPage
    <3>1. req' = [req EXCEPT !.offset = @ + Limit, !.step = "count"] /\ req.step = "complete"
      BY <2>8 DEF NextPage
    <3>2. /\ req' \in ListReq /\ req'.step = "count"
          /\ req'.offset = req.offset + Limit /\ req'.sel = sel /\ req'.sort = sort
          /\ req'.steady = req.steady /\ req'.seen = req.seen
      <4> DEFINE on == [req EXCEPT !.offset = @ + Limit]
      <4>1. /\ on \in ListReq /\ on.offset = req.offset + Limit /\ on.sel = sel /\ on.sort = sort
            /\ on.steady = req.steady /\ on.seen = req.seen
        BY <2>1, <2>2, Sizes DEF ListReq
      <4>2. req' = [on EXCEPT !.step = "count"]
        BY <3>1
      <4> HIDE DEF on
      <4> QED BY <4>1, <4>2 DEF ListReq
    <3>3. ReadTo(req)' = ReadTo(req)
      BY <3>1, <3>2 DEF ReadTo
    <3> QED BY <2>3, <2>4, <3>2, <3>3 DEF NothingSkipped
  <2> QED BY <1>5, <2>6, <2>7, <2>8
<1> QED BY <1>4, <1>5 DEF List

-----------------------------------------------------------------------------
(***************************************************************************)
(* The summary                                                             *)
(***************************************************************************)
\* The invoices of a kind are those purchased and those sold.
LEMMA KindsAdd ==
  ASSUME NEW T \in SUBSET Invoices
  PROVE  Cardinality(T) = Cardinality({i \in T : Chieu[i] = "purchase"})
                            + Cardinality({i \in T : Chieu[i] = "sold"})
<1> DEFINE A == {i \in T : Chieu[i] = "purchase"}
           B == {i \in T : Chieu[i] = "sold"}
<1>1. T = A \cup B /\ A \cap B = {}
  BY ReadingAssumption
<1> HIDE DEF A, B
<1>2. Cardinality(T) = Cardinality(A) + Cardinality(B)
  BY <1>1, CountParts
<1> QED BY <1>2 DEF A, B

LEMMA TotalsAdd ==
  ASSUME NEW S \in SUBSET Invoices
  PROVE  Adds(Totals(S), Totals({i \in S : Chieu[i] = "purchase"}),
                         Totals({i \in S : Chieu[i] = "sold"}))
<1> DEFINE of(d) == {i \in S : Chieu[i] = d}
<1>1. Cardinality(S) = Cardinality(of("purchase")) + Cardinality(of("sold"))
  BY KindsAdd
<1>2. \A v : Having(S, v) = Having(of("purchase"), v) + Having(of("sold"), v)
  <2> TAKE v
  <2> DEFINE T == {i \in S : Summed(tthai[i]) = v}
  <2>1. T \in SUBSET Invoices
    OBVIOUS
  <2>2. \A d : {i \in T : Chieu[i] = d} = {i \in of(d) : Summed(tthai[i]) = v}
    OBVIOUS
  <2>3. Cardinality(T) = Cardinality({i \in T : Chieu[i] = "purchase"})
                           + Cardinality({i \in T : Chieu[i] = "sold"})
    BY <2>1, KindsAdd
  <2> HIDE DEF of
  <2> QED BY <2>2, <2>3 DEF Having
<1>3. LET adjusted(V) == Cardinality({i \in V : tthai[i] = BI_DIEU_CHINH})
      IN adjusted(S) = adjusted(of("purchase")) + adjusted(of("sold"))
  <2> DEFINE T == {i \in S : tthai[i] = BI_DIEU_CHINH}
  <2>1. T \in SUBSET Invoices
    OBVIOUS
  <2>2. \A d : {i \in T : Chieu[i] = d} = {i \in of(d) : tthai[i] = BI_DIEU_CHINH}
    OBVIOUS
  <2>3. Cardinality(T) = Cardinality({i \in T : Chieu[i] = "purchase"})
                           + Cardinality({i \in T : Chieu[i] = "sold"})
    BY <2>1, KindsAdd
  <2> HIDE DEF of
  <2> QED BY <2>2, <2>3
<1> HIDE DEF of
<1>4. Adds(Totals(S), Totals(of("purchase")), Totals(of("sold")))
  BY <1>1, <1>2, <1>3 DEF Adds, Sums4, Totals
<1> QED BY <1>4 DEF of

LEMMA SummaryKeeps == ASSUME IInv, Summary PROVE IInv'
<1>1. UNCHANGED dbVars
  BY DEF Summary, AskSummary, SummaryGroups, SummaryTotal
<1>2. stored' = stored /\ tthai' = tthai
  BY <1>1, NothingWritten
<1>3. SUFFICES req' \in SummaryReq /\ SummaryFine(req)'
  BY <1>2 DEF IInv, RequestFine, SummaryReq
<1>4. CASE \E f \in Filters : AskSummary(f)
  <2>1. PICK f \in Filters : AskSummary(f)
    BY <1>4
  <2> DEFINE sel == ByFilter(f)
             none == Totals({})
             both == [d \in Directions |-> none]
  <2>2. sel \in AnySel /\ none \in Figures /\ Whole(none)
    BY TotalsOf DEF AnySel
  <2>3. req' = [kind |-> "summary", sel |-> sel, step |-> "groups", byChieu |-> both,
                total |-> none, calm |-> TRUE]
    BY <2>1 DEF AskSummary
  <2>4. both["purchase"] = none /\ both["sold"] = none /\ both \in [Directions -> Figures]
    BY <2>2 DEF Directions
  <2> HIDE DEF sel, none, both
  <2>5. req' \in SummaryReq
    BY <2>2, <2>3, <2>4 DEF SummaryReq
  <2>6. req'.byChieu = both /\ req'.total = none /\ req'.step = "groups"
    BY <2>3
  <2> QED BY <2>2, <2>4, <2>5, <2>6 DEF SummaryFine, Whole
<1>5. CASE SummaryGroups \/ SummaryTotal
  <2>1. req \in SummaryReq /\ SummaryFine(req)
    BY <1>5 DEF SummaryGroups, SummaryTotal, IInv, RequestFine
  <2>2. PICK sel : sel = req.sel
    OBVIOUS
  <2>3. /\ Selected(sel)' = Selected(sel) /\ Selected(sel) \in SUBSET Invoices
        /\ \A S : Totals(S)' = Totals(S)
    BY <1>1, NothingWritten, SelectedStored
  <2> DEFINE now == Totals(Selected(sel))
  <2>4. now \in Figures /\ Whole(now) /\ Totals(Selected(sel))' = now
    BY <2>3, TotalsOf
  <2>5. CASE SummaryGroups
    <3> DEFINE of(d) == Totals({i \in Selected(sel) : Chieu[i] = d})
               both == [d \in Directions |-> of(d)]
    <3>1. req' = [req EXCEPT !.step = "total", !.calm = TRUE, !.byChieu = both]
      BY <2>2, <2>5 DEF SummaryGroups
    <3>2. \A d : of(d) \in Figures /\ Whole(of(d))
      <4> TAKE d
      <4>1. {i \in Selected(sel) : Chieu[i] = d} \in SUBSET Invoices
        BY <2>3
      <4> QED BY <4>1, TotalsOf
    <3>3. Adds(now, of("purchase"), of("sold"))
      BY <2>3, TotalsAdd
    <3> HIDE DEF of
    <3>4. both["purchase"] = of("purchase") /\ both["sold"] = of("sold")
          /\ both \in [Directions -> Figures]
      BY <3>2 DEF Directions
    <3> HIDE DEF both, now
    <3>5. /\ req' \in SummaryReq /\ req'.step = "total" /\ req'.byChieu = both
          /\ req'.total = req.total /\ req'.sel = sel
      BY <2>1, <2>2, <3>1, <3>4 DEF SummaryReq
    <3>6. now.count = of("purchase").count + of("sold").count
      BY <3>3 DEF Adds, Sums4
    <3>7. now.count \in Nat
      BY <2>4 DEF Figures, Sums4
    <3>8. of("purchase").count + of("sold").count <= now.count
      BY <3>6, <3>7
    <3> QED BY <2>1, <2>4, <3>2, <3>3, <3>4, <3>5, <3>8 DEF SummaryFine, Whole
  <2>6. CASE SummaryTotal
    <3>1. req' = [req EXCEPT !.step = "complete", !.total = now] /\ req.step = "total"
      BY <2>2, <2>6 DEF SummaryTotal
    <3>2. LET p == req.byChieu["purchase"]
              s == req.byChieu["sold"]
          IN /\ Whole(p) /\ Whole(s)
             /\ ~sel.filter.biSua => p.count + s.count <= now.count
             /\ req.calm => Adds(now, p, s)
      BY <2>1, <2>2, <3>1 DEF SummaryFine
    <3> HIDE DEF now
    <3>3. /\ req' \in SummaryReq /\ req'.step = "complete" /\ req'.byChieu = req.byChieu
          /\ req'.total = now /\ req'.sel = sel /\ req'.calm = req.calm
      BY <2>1, <2>2, <2>4, <3>1 DEF SummaryReq
    <3> QED BY <2>4, <3>2, <3>3 DEF SummaryFine, Whole
  <2> QED BY <1>5, <2>5, <2>6
<1> QED BY <1>4, <1>5 DEF Summary

-----------------------------------------------------------------------------
(***************************************************************************)
(* The reconciliation report                                               *)
(***************************************************************************)
LEMMA ReconcileKeeps == ASSUME IInv, Reconcile PROVE IInv'
<1>1. UNCHANGED dbVars
  BY DEF Reconcile, AskReconcile, FindGaps, FindReplaced
<1>2. stored' = stored /\ tthai' = tthai
  BY <1>1, NothingWritten
<1>3. SUFFICES req' \in ReconcileReq /\ GapsFine(req)'
  BY <1>2 DEF IInv, RequestFine, ReconcileReq
<1>4. stored \in SUBSET Invoices
  BY DEF IInv
<1>5. CASE \E f \in Filters : AskReconcile(f)
  <2>1. PICK f \in Filters : AskReconcile(f)
    BY <1>5
  <2> DEFINE sel == ByFilter(f)
  <2>2. sel \in AnySel
    BY DEF AnySel
  <2>3. req' = [kind |-> "reconcile", sel |-> sel, step |-> "gaps", gaps |-> {},
                replaced |-> {}, before |-> stored]
    BY <2>1 DEF AskReconcile
  <2> HIDE DEF sel
  <2>4. req' \in ReconcileReq
    BY <1>4, <2>2, <2>3 DEF ReconcileReq
  <2>5. req'.before = stored' /\ req'.step = "gaps"
    BY <1>2, <2>3
  <2> QED BY <2>4, <2>5 DEF GapsFine
<1>6. CASE FindGaps \/ FindReplaced
  <2>1. req \in ReconcileReq /\ GapsFine(req)
    BY <1>6 DEF FindGaps, FindReplaced, IInv, RequestFine
  <2>2. PICK sel \in AnySel : sel = req.sel
    BY <2>1 DEF ReconcileReq
  <2> DEFINE there == Numbered(Matching(SoldOf(sel.filter)))
  <2>3. \A r : r.sel = sel => Sold(r) = there
    BY DEF Sold
  <2>4. \A S : Selected(S)' = Selected(S)
    BY <1>1, NothingWritten
  <2>5. req'.sel = sel => Sold(req)' = there
    BY <2>4 DEF Sold, Matching, Numbered
  <2>6. there \in SUBSET Invoices /\ \A i \in there : Number[i] > 0
    BY SelectedStored DEF Numbered, Matching
  <2> HIDE DEF there
  <2>7. CASE FindGaps
    <3> DEFINE gaps == SequenceGaps(there)
    <3>1. req' = [req EXCEPT !.gaps = gaps, !.step = "status"]
      BY <2>2, <2>7 DEF FindGaps, there
    <3>2. gaps \in SUBSET (SeriesOf(Invoices) \X Nat)
      <4>1. \A s \in SeriesOf(there) : s \in SeriesOf(Invoices) /\ Holes(there, s) \subseteq Nat
        BY <2>6, HolesBetween DEF SeriesOf
      <4> SUFFICES ASSUME NEW g \in gaps PROVE g \in SeriesOf(Invoices) \X Nat
        OBVIOUS
      <4>2. PICK s \in SeriesOf(there) : \E n \in Holes(there, s) : g = <<s, n>>
        BY DEF SequenceGaps
      <4> QED BY <4>1, <4>2
    <3> HIDE DEF gaps
    <3>3. /\ req' \in ReconcileReq /\ req'.gaps = gaps /\ req'.sel = sel
          /\ req'.before = req.before
      BY <2>1, <2>2, <3>1, <3>2 DEF ReconcileReq
    <3>4. Sold(req)' \cap req'.before \subseteq there /\ there \in SUBSET (Sold(req)')
          /\ req'.gaps = SequenceGaps(there)
      BY <2>5, <3>3 DEF gaps
    <3> QED BY <1>2, <2>1, <3>3, <3>4 DEF GapsFine
  <2>8. CASE FindReplaced
    <3> DEFINE replaced == {i \in Selected(req.sel) : tthai[i] = BI_THAY_THE}
    <3>1. req' = [req EXCEPT !.replaced = replaced, !.step = "complete"] /\ req.step = "status"
      BY <2>8 DEF FindReplaced
    <3>2. replaced \in SUBSET Invoices
      BY SelectedStored
    <3> HIDE DEF replaced
    <3>3. /\ req' \in ReconcileReq /\ req'.gaps = req.gaps /\ req'.sel = sel
          /\ req'.before = req.before
      BY <2>1, <2>2, <3>1, <3>2 DEF ReconcileReq
    <3> QED BY <1>2, <2>1, <2>2, <2>3, <2>5, <3>1, <3>3 DEF GapsFine
  <2> QED BY <1>6, <2>7, <2>8
<1> QED BY <1>5, <1>6 DEF Reconcile

-----------------------------------------------------------------------------
(***************************************************************************)
(* The rest                                                                *)
(***************************************************************************)
LEMMA ExportKeeps == ASSUME IInv, Export PROVE IInv'
<1>1. UNCHANGED dbVars
  BY DEF Export, AskConvert, AskExport, Exporting, ExportRows, ExportLines, ExportDocuments,
         ConvertBatch
<1>2. stored' = stored /\ tthai' = tthai
  BY <1>1, NothingWritten
<1>3. SUFFICES req'.kind = "export" /\ "kind" \in DOMAIN req'
  BY <1>2 DEF IInv, RequestFine
<1>4. "kind" \in DOMAIN req
  BY DEF IInv, RequestFine
<1>5. CASE \E sel \in Selections : \E format : Exporting(sel, format)
  BY <1>5 DEF Exporting
<1>6. CASE ExportRows
  BY <1>4, <1>6 DEF ExportRows
<1>7. CASE ExportLines \/ ConvertBatch
  BY <1>4, <1>7 DEF ExportLines, ConvertBatch, Written
<1>8. CASE ExportDocuments
  BY <1>4, <1>8 DEF ExportDocuments, Written
<1> QED BY <1>5, <1>6, <1>7, <1>8 DEF Export, AskConvert, AskExport

LEMMA EndKeeps == ASSUME IInv, Answer \/ Fail PROVE IInv'
<1>1. stored' = stored /\ tthai' = tthai /\ req' = NoReq
  BY DEF Answer, Fail, dbVars
<1> QED BY <1>1 DEF IInv, RequestFine, NoReq

LEMMA NothingKeeps == ASSUME IInv, UNCHANGED <<dbVars, req>> PROVE IInv'
<1>1. stored' = stored /\ tthai' = tthai /\ req' = req
  BY DEF dbVars
<1>2. /\ \A sel : Selected(sel)' = Selected(sel)
      /\ \A sort, sel, i : RankOf(sort, sel, i)' = RankOf(sort, sel, i)
      /\ \A S : Totals(S)' = Totals(S)
  BY NothingWritten
<1>3. NothingSkipped(req) => NothingSkipped(req)'
  <2>1. ReadTo(req)' = ReadTo(req)
    BY <1>1 DEF ReadTo
  <2> QED BY <1>1, <1>2, <2>1 DEF NothingSkipped
<1>4. SummaryFine(req) => SummaryFine(req)'
  BY <1>1, <1>2 DEF SummaryFine, Whole
<1>5. req.kind = "reconcile" => req' \in ReconcileReq /\ GapsFine(req)'
  BY <1>1, GapsWrites
<1> QED BY <1>1, <1>3, <1>4, <1>5 DEF IInv, RequestFine

LEMMA InitSound == Init => IInv
BY DEF Init, IInv, RequestFine, NoReq

LEMMA NextSound == ASSUME IInv, [Next]_vars PROVE IInv'
<1>1. CASE Sync
  BY <1>1, WritesKeep
<1>2. CASE Export
  BY <1>2, ExportKeeps
<1>3. CASE List
  BY <1>3, ListKeeps
<1>4. CASE Summary
  BY <1>4, SummaryKeeps
<1>5. CASE Reconcile
  BY <1>5, ReconcileKeeps
<1>6. CASE Answer \/ Fail
  BY <1>6, EndKeeps
<1>7. CASE Browser
  <2>1. UNCHANGED <<dbVars, req>>
    BY <1>7 DEF Browser, OpenPage, LeavePage, Refetch, ReadCount, ShowCount, FetchFails,
                StartRun, RunEnds, RunIsDone
  <2> QED BY <2>1, NothingKeeps
<1>8. CASE UNCHANGED vars
  BY <1>8, NothingKeeps DEF vars
<1> QED BY <1>1, <1>2, <1>3, <1>4, <1>5, <1>6, <1>7, <1>8 DEF Next

\* The invariant holds, whatever is asked and written.
THEOREM Invariance == Spec => []IInv
<1>1. Init => IInv
  BY InitSound
<1>2. IInv /\ [Next]_vars => IInv'
  BY NextSound
<1> QED BY <1>1, <1>2, PTL DEF Spec

\* Who pages through a list to its end has seen all that was there, though
\* rows came in between, for any order of columns that never change, any size
\* of a page and any invoices (buildOrderBy's tie-breaker).
THEOREM NoPageIsSkipped == Spec => []NoPageSkips
<1>1. IInv => NoPageSkips
  <2> SUFFICES ASSUME IInv, req.kind = "list", Answered, req.calm, ~req.sel.filter.biSua,
                      req.sort.by \notin Overwritten, NEW i \in req.steady, i \notin req.seen
               PROVE  FALSE
    BY DEF NoPageSkips
  <2>1. req \in ListReq /\ NothingSkipped(req)
    BY DEF IInv, RequestFine
  <2>2. req.step = "complete" /\ req.offset + Limit >= req.total
    BY DEF Answered
  <2>3. /\ i \in Selected(req.sel) /\ req.offset + Limit <= RankOf(req.sort, req.sel, i)
        /\ req.total = Cardinality(Selected(req.sel))
    BY <2>1, <2>2 DEF NothingSkipped, ReadTo
  <2>4. RankOf(req.sort, req.sel, i) < Cardinality(Selected(req.sel))
    <3>1. Selected(req.sel) \in SUBSET Invoices
      BY SelectedStored
    <3>2. ~Before(req.sort, i, i)
      <4>1. i \in Invoices /\ Tdlap[i] \in Int
        <5>1. i \in Invoices
          BY <2>3, <3>1
        <5>2. Tdlap \in [Invoices -> Nat]
          BY ReadingAssumption
        <5>3. Tdlap[i] \in Nat
          BY <5>1, <5>2
        <5> QED BY <5>1, <5>3
      <4>2. SortKey(req.sort.by, i) \in Int
        BY <2>1, <4>1, AllowlistAssumption DEF SortKey, Overwritten, ListReq
      <4>3. \A dir : \A n \in Int : ~Ordered(dir, n, n)
        BY DEF Ordered
      <4>4. ~(i > i)
        BY <4>1, ReadingAssumption
      <4> QED BY <4>1, <4>2, <4>3, <4>4 DEF Before
    <3> QED BY <2>3, <3>1, <3>2, FewerThan DEF RankOf
  <2>5. /\ req.offset \in Nat /\ Limit \in Nat /\ Cardinality(Selected(req.sel)) \in Nat
        /\ RankOf(req.sort, req.sel, i) \in Nat
    <3>1. /\ Selected(req.sel) \in SUBSET Invoices
          /\ {j \in Selected(req.sel) : Before(req.sort, j, i)} \in SUBSET Invoices
      BY SelectedStored
    <3> QED BY <2>1, <3>1, Sizes, Counts DEF ListReq, RankOf
  <2> QED BY <2>2, <2>3, <2>4, <2>5
<1> QED BY <1>1, Invariance, PTL

\* The figures of a summary add up, by status and by direction, as far as
\* nothing was written between its two statements (GET /invoices/summary).
THEOREM SummaryIsWhole == Spec => []SummaryAddsUp
<1>1. IInv => SummaryAddsUp
  <2> SUFFICES ASSUME IInv, req.kind = "summary", req.step = "complete"
               PROVE  /\ \A t \in {req.total} \cup {req.byChieu[d] : d \in Directions} :
                           t.count = t.summed + t.excluded
                      /\ ~req.sel.filter.biSua => req.total.count >= Sums("count")
                      /\ req.calm => \A x \in {"count", "summed", "excluded", "adjusted"} :
                                       req.total[x] = Sums(x)
    BY DEF SummaryAddsUp
  <2>1. req \in SummaryReq /\ SummaryFine(req)
    BY DEF IInv, RequestFine
  <2>2. PICK p, s : p = req.byChieu["purchase"] /\ s = req.byChieu["sold"]
    OBVIOUS
  <2>3. /\ Whole(p) /\ Whole(s) /\ Whole(req.total)
        /\ ~req.sel.filter.biSua => p.count + s.count <= req.total.count
        /\ req.calm => Adds(req.total, p, s)
    BY <2>1, <2>2 DEF SummaryFine
  <2>4. \A x : Sums(x) = p[x] + s[x]
    BY <2>2 DEF Sums
  <2>5. \A t \in {req.total} \cup {req.byChieu[d] : d \in Directions} : Whole(t)
    BY <2>2, <2>3 DEF Directions
  <2>6. p.count \in Nat /\ s.count \in Nat /\ req.total.count \in Nat
    BY <2>1, <2>2 DEF SummaryReq, Figures, Sums4, Directions
  <2> QED BY <2>3, <2>4, <2>5, <2>6 DEF Whole, Adds, Sums4
<1> QED BY <1>1, Invariance, PTL

\* A gap a report shows is one, and one it leaves out is behind MaxGaps
\* others, for any series and any writes while it is made (findSequenceGaps).
THEOREM GapsShownAreReal == Spec => []GapsAreReal
<1>1. IInv => GapsAreReal
  <2> SUFFICES ASSUME IInv, req.kind = "reconcile", req.step = "complete", ~req.sel.filter.biSua
               PROVE  GapsAreReal
    BY DEF GapsAreReal
  <2> DEFINE there == Numbered(Matching(SoldOf(req.sel.filter)))
             known == there \cap req.before
  <2>1. there \in SUBSET Invoices /\ \A i \in there : Number[i] > 0
    BY SelectedStored DEF Numbered, Matching
  <2>2. PICK N \in SUBSET there : known \subseteq N /\ req.gaps = SequenceGaps(N)
    BY DEF IInv, RequestFine, GapsFine, Sold
  <2> HIDE DEF there
  <2>3. known \in SUBSET N
    BY <2>2
  <2> HIDE DEF known
  <2>4. LET of(s) == {n \in 1 .. Max({Number[i] : i \in Invoices}) : <<s, n>> \in req.gaps}
        IN /\ \A g \in req.gaps :
                /\ g[2] \notin NumbersOf(known, g[1])
                /\ \E m, n \in NumbersOf(there, g[1]) : m < g[2] /\ g[2] < n
           /\ \A s \in SeriesOf(known) : \A n \in Holes(known, s) \ NumbersOf(there, s) :
                n \in of(s) \/ Cardinality({m \in of(s) : m < n}) = MaxGaps
    <3>1. LET gaps == SequenceGaps(N)
              of(s) == {n \in 1 .. Max({Number[i] : i \in Invoices}) : <<s, n>> \in gaps}
          IN /\ \A g \in gaps :
                  /\ g[2] \notin NumbersOf(known, g[1])
                  /\ \E m, n \in NumbersOf(there, g[1]) : m < g[2] /\ g[2] < n
             /\ \A s \in SeriesOf(known) : \A n \in Holes(known, s) \ NumbersOf(there, s) :
                  n \in of(s) \/ Cardinality({m \in of(s) : m < n}) = MaxGaps
      BY <2>1, <2>2, <2>3, ReportIsRight
    <3> QED BY <2>2, <3>1
  <2> QED BY <2>4 DEF GapsAreReal, there, known
<1> QED BY <1>1, Invariance, PTL

-----------------------------------------------------------------------------
(***************************************************************************)
(* Batches of an export                                                    *)
(***************************************************************************)
LEMMA NewestFirst ==
  /\ \A i, j \in Invoices :
       Before(Newest, i, j) <=> Tdlap[i] > Tdlap[j] \/ (Tdlap[i] = Tdlap[j] /\ i > j)
  /\ \A i \in Invoices : i \in Nat /\ Tdlap[i] \in Nat
<1>1. \A k : SortKey("tdlap", k) = Tdlap[k]
  BY DEF SortKey
<1>2. Newest.by = "tdlap" /\ Newest.dir = "desc"
  BY DEF Newest
<1>3. \A m, n : Ordered("desc", m, n) <=> m > n
  BY DEF Ordered
<1>4. \A i \in Invoices : i \in Nat /\ Tdlap[i] \in Nat
  BY ReadingAssumption
<1>5. ASSUME NEW i \in Invoices, NEW j \in Invoices
      PROVE  Before(Newest, i, j) <=> Tdlap[i] > Tdlap[j] \/ (Tdlap[i] = Tdlap[j] /\ i > j)
  <2>1. Before(Newest, i, j) <=>
          \/ Tdlap[i] > Tdlap[j]
          \/ Tdlap[i] = Tdlap[j] /\ Tdlap[i] > Tdlap[j]
          \/ <<Tdlap[i], Tdlap[i]>> = <<Tdlap[j], Tdlap[j]>> /\ i > j
    BY <1>1, <1>2, <1>3 DEF Before
  <2> QED BY <1>4, <2>1
<1> QED BY <1>4, <1>5

\* The order of a keyset: nothing is before itself, of two one is before the
\* other, and what is before something before a third is before that.
LEMMA TotalOrder ==
  /\ \A i \in Invoices : ~Before(Newest, i, i)
  /\ \A i, j \in Invoices : i # j => Before(Newest, i, j) \/ Before(Newest, j, i)
  /\ \A i, j, k \in Invoices :
       Before(Newest, i, j) /\ Before(Newest, j, k) => Before(Newest, i, k)
<1>1. ASSUME NEW i \in Invoices, NEW j \in Invoices, NEW k \in Invoices
      PROVE  /\ ~Before(Newest, i, i)
             /\ i # j => Before(Newest, i, j) \/ Before(Newest, j, i)
             /\ Before(Newest, i, j) /\ Before(Newest, j, k) => Before(Newest, i, k)
  <2>1. PICK a, b, c \in Nat : a = Tdlap[i] /\ b = Tdlap[j] /\ c = Tdlap[k]
    BY NewestFirst
  <2>2. i \in Nat /\ j \in Nat /\ k \in Nat
    BY NewestFirst
  <2>3. /\ Before(Newest, i, i) <=> a > a \/ i > i
        /\ Before(Newest, i, j) <=> a > b \/ (a = b /\ i > j)
        /\ Before(Newest, j, i) <=> b > a \/ (b = a /\ j > i)
        /\ Before(Newest, j, k) <=> b > c \/ (b = c /\ j > k)
        /\ Before(Newest, i, k) <=> a > c \/ (a = c /\ i > k)
    BY <2>1, NewestFirst
  <2>4. ~(a > a) /\ ~(i > i)
    BY <2>1, <2>2
  <2>5. i # j => a > b \/ (a = b /\ i > j) \/ b > a \/ (b = a /\ j > i)
    BY <2>1, <2>2
  <2>6. (a > b \/ (a = b /\ i > j)) /\ (b > c \/ (b = c /\ j > k)) => a > c \/ (a = c /\ i > k)
    BY <2>1, <2>2
  <2> QED BY <2>3, <2>4, <2>5, <2>6
<1> QED BY <1>1

PlaceIn(S, i) == Cardinality({j \in S : Before(Newest, j, i)})

LEMMA Places ==
  ASSUME NEW S \in SUBSET Invoices
  PROVE  /\ Cardinality(S) \in Nat
         /\ \A i \in S : PlaceIn(S, i) \in 0 .. Cardinality(S) - 1
         /\ \A i, j \in S : Before(Newest, i, j) => PlaceIn(S, i) < PlaceIn(S, j)
         /\ \A r \in 0 .. Cardinality(S) - 1 : \E i \in S : PlaceIn(S, i) = r
<1> DEFINE above(i) == {j \in S : Before(Newest, j, i)}
           c == Cardinality(S)
           f == [i \in S |-> PlaceIn(S, i)]
<1>1. IsFiniteSet(S) /\ c \in Nat
  BY Counts
<1>2. \A i : PlaceIn(S, i) = Cardinality(above(i)) /\ above(i) \in SUBSET S
             /\ above(i) \in SUBSET Invoices
  BY DEF PlaceIn
<1>3. \A i \in S : i \notin above(i)
  BY TotalOrder
<1>4. \A i \in S : PlaceIn(S, i) \in 0 .. c - 1
  <2> SUFFICES ASSUME NEW i \in S PROVE PlaceIn(S, i) \in 0 .. c - 1
    OBVIOUS
  <2>1. above(i) \in SUBSET (S \ {i})
    BY <1>2, <1>3
  <2>2. Cardinality(above(i)) < Cardinality(S) /\ Cardinality(above(i)) \in Nat
    BY <1>2, <2>1, FewerThan, Counts
  <2> QED BY <1>1, <1>2, <2>2
<1>5. ASSUME NEW i \in S, NEW j \in S, Before(Newest, i, j) PROVE PlaceIn(S, i) < PlaceIn(S, j)
  <2>1. i \in above(j) /\ above(i) \in SUBSET (above(j) \ {i})
    BY <1>3, <1>5, TotalOrder
  <2>2. Cardinality(above(i)) < Cardinality(above(j))
    BY <1>2, <2>1, FewerThan
  <2> QED BY <1>2, <2>2
<1>6. f \in [S -> 0 .. c - 1] /\ \A i \in S : f[i] = PlaceIn(S, i)
  BY <1>4
<1>7. \A i, j \in S : f[i] = f[j] => i = j
  <2> SUFFICES ASSUME NEW i \in S, NEW j \in S, i # j PROVE f[i] # f[j]
    OBVIOUS
  <2>1. Before(Newest, i, j) \/ Before(Newest, j, i)
    BY TotalOrder
  <2> HIDE DEF f
  <2>2. f[i] < f[j] \/ f[j] < f[i]
    BY <1>5, <1>6, <2>1
  <2>3. f[i] \in Int /\ f[j] \in Int
    BY <1>1, <1>6
  <2> QED BY <2>2, <2>3
<1> HIDE DEF f
<1>8. IsFiniteSet(0 .. c - 1) /\ Cardinality(0 .. c - 1) = c
  BY <1>1, UpTo
<1>9. f \in Injection(S, 0 .. c - 1)
  BY <1>6, <1>7 DEF Injection, IsInjective
<1>10. f \in Surjection(S, 0 .. c - 1)
  BY <1>1, <1>8, <1>9, FS_Injection
<1>11. \A r \in 0 .. c - 1 : \E i \in S : f[i] = r
  BY <1>10 DEF Surjection
<1> QED BY <1>1, <1>4, <1>5, <1>6, <1>11

\* All of S, each once, in their order.
LEMMA InOrderFacts ==
  ASSUME NEW S \in SUBSET Invoices
  PROVE  /\ InOrder(S) \in [1 .. Cardinality(S) -> S] /\ InOrder(S) \in Seq(Invoices)
         /\ Len(InOrder(S)) = Cardinality(S)
         /\ ToSet(InOrder(S)) = S
         /\ \A m, n \in 1 .. Cardinality(S) :
              m < n => Before(Newest, InOrder(S)[m], InOrder(S)[n])
<1> DEFINE c == Cardinality(S)
           s == InOrder(S)
<1>1. /\ c \in Nat
      /\ \A i \in S : PlaceIn(S, i) \in 0 .. c - 1
      /\ \A i, j \in S : Before(Newest, i, j) => PlaceIn(S, i) < PlaceIn(S, j)
      /\ \A r \in 0 .. c - 1 : \E i \in S : PlaceIn(S, i) = r
  BY Places
<1>2. s = [n \in 1 .. c |-> CHOOSE i \in S : PlaceIn(S, i) = n - 1]
  BY DEF InOrder, PlaceIn
<1> HIDE DEF s, c
<1>3. \A n \in 1 .. c : s[n] \in S /\ PlaceIn(S, s[n]) = n - 1
  <2> SUFFICES ASSUME NEW n \in 1 .. c PROVE s[n] \in S /\ PlaceIn(S, s[n]) = n - 1
    OBVIOUS
  <2>1. \E i \in S : PlaceIn(S, i) = n - 1
    BY <1>1
  <2> QED BY <1>2, <2>1
<1>4. s \in [1 .. c -> S] /\ s \in Seq(Invoices) /\ Len(s) = c
  <2>1. s \in [1 .. c -> S]
    BY <1>2, <1>3
  <2>2. s \in Seq(S) /\ Len(s) = c
    BY <1>1, <2>1
  <2>3. s \in Seq(Invoices)
    BY <2>2
  <2> QED BY <2>1, <2>2, <2>3
<1>5. \A i, j \in S : PlaceIn(S, i) = PlaceIn(S, j) => i = j
  <2> SUFFICES ASSUME NEW i \in S, NEW j \in S, i # j PROVE PlaceIn(S, i) # PlaceIn(S, j)
    OBVIOUS
  <2>1. Before(Newest, i, j) \/ Before(Newest, j, i)
    BY TotalOrder
  <2>2. PlaceIn(S, i) \in Int /\ PlaceIn(S, j) \in Int
    BY <1>1
  <2> QED BY <1>1, <2>1, <2>2
<1>6. ToSet(s) = S
  <2>1. ASSUME NEW i \in S PROVE \E n \in 1 .. c : s[n] = i
    <3>1. PlaceIn(S, i) + 1 \in 1 .. c
      BY <1>1
    <3>2. PlaceIn(S, s[PlaceIn(S, i) + 1]) = PlaceIn(S, i) /\ s[PlaceIn(S, i) + 1] \in S
      BY <1>1, <1>3, <3>1
    <3> QED BY <1>5, <3>1, <3>2
  <2> QED BY <1>4, <2>1 DEF ToSet
<1>7. ASSUME NEW m \in 1 .. c, NEW n \in 1 .. c, m < n PROVE Before(Newest, s[m], s[n])
  <2>1. s[m] \in S /\ s[n] \in S /\ PlaceIn(S, s[m]) = m - 1 /\ PlaceIn(S, s[n]) = n - 1
    BY <1>3
  <2>2. s[m] # s[n]
    BY <1>1, <1>7, <2>1
  <2>3. ~Before(Newest, s[n], s[m])
    <3>1. ~(PlaceIn(S, s[n]) < PlaceIn(S, s[m]))
      BY <1>1, <1>7, <2>1
    <3> QED BY <1>1, <2>1, <3>1
  <2> QED BY <2>1, <2>2, <2>3, TotalOrder
<1> QED BY <1>4, <1>6, <1>7 DEF s, c

\* A batch: as many of the first ones as fit, and if more are left it is full
\* and they come after it.
LEMMA BatchFacts ==
  ASSUME NEW S \in SUBSET Invoices
  PROVE  LET rows == Slice(Newest, S, 0, PageSize)
         IN /\ rows \in SUBSET S /\ Cardinality(rows) <= PageSize
            /\ S # {} => rows # {}
            /\ \A i \in S \ rows :
                 /\ Cardinality(rows) = PageSize
                 /\ \A j \in rows : Before(Newest, j, i)
<1> DEFINE rows == Slice(Newest, S, 0, PageSize)
           c == Cardinality(S)
           f == [i \in rows |-> PlaceIn(S, i)]
<1>1. /\ c \in Nat
      /\ \A i \in S : PlaceIn(S, i) \in 0 .. c - 1
      /\ \A i, j \in S : Before(Newest, i, j) => PlaceIn(S, i) < PlaceIn(S, j)
      /\ \A r \in 0 .. c - 1 : \E i \in S : PlaceIn(S, i) = r
  BY Places
<1>2. rows = {i \in S : PlaceIn(S, i) \in 0 .. PageSize - 1}
  <2>1. 0 + PageSize - 1 = PageSize - 1
    BY Sizes
  <2> QED BY <2>1 DEF Slice, PlaceIn
<1> HIDE DEF rows, c
<1>3. f \in [rows -> 0 .. PageSize - 1] /\ \A i \in rows : f[i] = PlaceIn(S, i)
  BY <1>2
<1>4. \A i, j \in rows : f[i] = f[j] => i = j
  <2> SUFFICES ASSUME NEW i \in rows, NEW j \in rows, i # j PROVE f[i] # f[j]
    OBVIOUS
  <2>1. i \in S /\ j \in S /\ i \in Invoices /\ j \in Invoices
    BY <1>2
  <2>2. Before(Newest, i, j) \/ Before(Newest, j, i)
    BY <2>1, TotalOrder
  <2> HIDE DEF f
  <2>3. f[i] < f[j] \/ f[j] < f[i]
    BY <1>1, <1>3, <2>1, <2>2
  <2>4. f[i] \in Int /\ f[j] \in Int
    BY <1>1, <1>3, <2>1
  <2> QED BY <2>3, <2>4
<1> HIDE DEF f
<1>5. IsFiniteSet(0 .. PageSize - 1) /\ Cardinality(0 .. PageSize - 1) = PageSize
  BY UpTo, Sizes
<1>6. f \in Injection(rows, 0 .. PageSize - 1)
  BY <1>3, <1>4 DEF Injection, IsInjective
<1>7. Cardinality(rows) <= PageSize
  BY <1>5, <1>6, FS_Injection
<1>8. ASSUME S # {} PROVE rows # {}
  <2>1. c # 0
    BY <1>1, <1>8
  <2>2. 0 \in 0 .. c - 1 /\ 0 \in 0 .. PageSize - 1
    BY <1>1, <2>1, Sizes
  <2> QED BY <1>1, <1>2, <2>2
<1>9. ASSUME NEW i \in S \ rows
      PROVE  Cardinality(rows) = PageSize /\ \A j \in rows : Before(Newest, j, i)
  <2>1. PlaceIn(S, i) \in Int /\ PageSize <= PlaceIn(S, i) /\ PlaceIn(S, i) <= c - 1
    BY <1>1, <1>2, Sizes
  <2>2. \A r \in 0 .. PageSize - 1 : \E j \in rows : f[j] = r
    <3> SUFFICES ASSUME NEW r \in 0 .. PageSize - 1 PROVE \E j \in rows : f[j] = r
      OBVIOUS
    <3>1. r \in 0 .. c - 1
      BY <1>1, <2>1, Sizes
    <3>2. PICK j \in S : PlaceIn(S, j) = r
      BY <1>1, <3>1
    <3> QED BY <1>2, <1>3, <3>2
  <2>3. f \in Surjection(rows, 0 .. PageSize - 1)
    BY <1>3, <2>2 DEF Surjection
  <2>4. Cardinality(rows) = PageSize
    BY <1>5, <1>6, <2>3, FS_Injection
  <2>5. ASSUME NEW j \in rows PROVE Before(Newest, j, i)
    <3>1. j \in S /\ j # i /\ PlaceIn(S, j) \in 0 .. PageSize - 1
      BY <1>2, <1>9
    <3>2. ~(PlaceIn(S, i) < PlaceIn(S, j))
      BY <2>1, <3>1, Sizes
    <3> QED BY <1>1, <3>1, <3>2, TotalOrder
  <2> QED BY <2>4, <2>5
<1>10. rows \in SUBSET S
  BY <1>2
<1> QED BY <1>7, <1>8, <1>9, <1>10 DEF rows

-----------------------------------------------------------------------------
(***************************************************************************)
(* Rows of a file                                                          *)
(***************************************************************************)
\* What is so of 1, and of k + 1 if it is of k, is so up to N.
LEMMA OneByOne ==
  ASSUME NEW N \in Nat, NEW B \in SUBSET (1 .. N), 1 \notin B,
         \A k \in 1 .. N - 1 : k \notin B => k + 1 \notin B
  PROVE  B = {}
<1> SUFFICES ASSUME B # {} PROVE FALSE
  OBVIOUS
<1>1. B \in SUBSET Nat
  OBVIOUS
<1>2. IsFiniteSet(B)
  <2>1. IsFiniteSet(1 .. N)
    BY FS_Interval
  <2> QED BY <2>1, FS_Subset
<1>3. PICK k \in B : \A n \in B : k <= n
  BY <1>1, <1>2, Ends
<1>4. k # 1 /\ k \in 1 .. N
  OBVIOUS
<1>5. k - 1 \in 1 .. N - 1 /\ (k - 1) + 1 = k
  BY <1>4
<1>6. k - 1 \notin B
  BY <1>3, <1>5
<1> QED BY <1>5, <1>6

\* A flattened sequence has what each of its sequences has, each once.
Cells(seqs, k) == {p \in Nat \X Nat : p[1] \in 1 .. k /\ p[2] \in 1 .. Len(seqs[p[1]])}
CellsIn(e, seqs, k) ==
  \E at \in [1 .. Len(e) -> Cells(seqs, k)] :
    /\ \A m \in 1 .. Len(e) : e[m] = seqs[at[m][1]][at[m][2]]
    /\ \A m, n \in 1 .. Len(e) : at[m] = at[n] => m = n
    /\ \A p \in Cells(seqs, k) : \E m \in 1 .. Len(e) : at[m] = p

LEMMA FirstCells ==
  ASSUME NEW S, NEW seqs \in Seq(Seq(S)), Len(seqs) # 0
  PROVE  CellsIn(seqs[1], seqs, 1)
<1> DEFINE e == seqs[1]
           at == [m \in 1 .. Len(e) |-> <<1, m>>]
<1>1. e \in Seq(S) /\ Len(e) \in Nat
  OBVIOUS
<1>2. \A p : p \in Cells(seqs, 1) <=> p \in Nat \X Nat /\ p[1] = 1 /\ p[2] \in 1 .. Len(e)
  BY <1>1 DEF Cells
<1> HIDE DEF e
<1>3. \A m \in 1 .. Len(e) : <<1, m>> \in Cells(seqs, 1)
  <2> SUFFICES ASSUME NEW m \in 1 .. Len(e) PROVE <<1, m>> \in Cells(seqs, 1)
    OBVIOUS
  <2>1. <<1, m>> \in Nat \X Nat /\ <<1, m>>[1] = 1 /\ <<1, m>>[2] = m
    BY <1>1
  <2> QED BY <1>2, <2>1
<1>4. at \in [1 .. Len(e) -> Cells(seqs, 1)] /\ \A m \in 1 .. Len(e) : at[m] = <<1, m>>
  BY <1>3
<1> HIDE DEF at
<1>5. \A m \in 1 .. Len(e) : e[m] = seqs[at[m][1]][at[m][2]]
  BY <1>4 DEF e
<1>6. \A m, n \in 1 .. Len(e) : at[m] = at[n] => m = n
  BY <1>4
<1>7. \A p \in Cells(seqs, 1) : \E m \in 1 .. Len(e) : at[m] = p
  <2> SUFFICES ASSUME NEW p \in Cells(seqs, 1) PROVE \E m \in 1 .. Len(e) : at[m] = p
    OBVIOUS
  <2>1. p[2] \in 1 .. Len(e) /\ p = <<1, p[2]>>
    BY <1>2
  <2> QED BY <1>4, <2>1
<1>8. CellsIn(e, seqs, 1)
  BY <1>4, <1>5, <1>6, <1>7 DEF CellsIn
<1> QED BY <1>8 DEF e

LEMMA MoreCells ==
  ASSUME NEW S, NEW seqs \in Seq(Seq(S)), NEW k \in Nat \ {0}, k + 1 <= Len(seqs),
         NEW e \in Seq(S), CellsIn(e, seqs, k)
  PROVE  CellsIn(e \o seqs[k + 1], seqs, k + 1)
<1> DEFINE l == Len(e)
           t == seqs[k + 1]
           h == Len(t)
<1>1. l \in Nat /\ t \in Seq(S) /\ h \in Nat
  OBVIOUS
<1>2. PICK at \in [1 .. l -> Cells(seqs, k)] :
        /\ \A m \in 1 .. l : e[m] = seqs[at[m][1]][at[m][2]]
        /\ \A m, n \in 1 .. l : at[m] = at[n] => m = n
        /\ \A p \in Cells(seqs, k) : \E m \in 1 .. l : at[m] = p
  BY DEF CellsIn
<1> DEFINE f == e \o t
           to == [m \in 1 .. l + h |-> IF m <= l THEN at[m] ELSE <<k + 1, m - l>>]
<1>3. /\ f \in Seq(S) /\ Len(f) = l + h
      /\ \A m \in 1 .. l : f[m] = e[m]
      /\ \A m \in l + 1 .. l + h : f[m] = t[m - l]
  BY <1>1
<1> HIDE DEF l, t, h, f
<1>4. \A p : p \in Cells(seqs, k + 1) <=>
        \/ p \in Cells(seqs, k)
        \/ p \in Nat \X Nat /\ p[1] = k + 1 /\ p[2] \in 1 .. h
  BY <1>1 DEF Cells, t, h
<1>5. \A p \in Cells(seqs, k) : p[1] # k + 1
  BY DEF Cells
<1>6. \A m \in l + 1 .. l + h : <<k + 1, m - l>> \in Cells(seqs, k + 1) /\ m - l \in 1 .. h
  <2> SUFFICES ASSUME NEW m \in l + 1 .. l + h
               PROVE  <<k + 1, m - l>> \in Cells(seqs, k + 1) /\ m - l \in 1 .. h
    OBVIOUS
  <2>1. m - l \in 1 .. h /\ m - l \in Nat /\ k + 1 \in Nat
    BY <1>1
  <2>2. /\ <<k + 1, m - l>> \in Nat \X Nat
        /\ <<k + 1, m - l>>[1] = k + 1 /\ <<k + 1, m - l>>[2] = m - l
    BY <2>1
  <2> QED BY <1>4, <2>1, <2>2
<1>7. /\ to \in [1 .. l + h -> Cells(seqs, k + 1)]
      /\ \A m \in 1 .. l : to[m] = at[m] /\ m \in 1 .. l + h
      /\ \A m \in l + 1 .. l + h : to[m] = <<k + 1, m - l>> /\ m \in 1 .. l + h
      /\ \A m \in 1 .. l + h : m \in 1 .. l \/ m \in l + 1 .. l + h
  <2>1. \A m \in 1 .. l + h : m \in 1 .. l \/ m \in l + 1 .. l + h
    BY <1>1
  <2>2. \A m \in 1 .. l + h : to[m] = IF m <= l THEN at[m] ELSE <<k + 1, m - l>>
    OBVIOUS
  <2>3. \A m \in 1 .. l : to[m] = at[m] /\ m \in 1 .. l + h
    BY <1>1, <2>2
  <2>4. \A m \in l + 1 .. l + h : to[m] = <<k + 1, m - l>> /\ m \in 1 .. l + h
    BY <1>1, <2>2
  <2>5. \A m \in 1 .. l + h : to[m] \in Cells(seqs, k + 1)
    BY <1>1, <1>2, <1>4, <1>6, <2>1, <2>3, <2>4
  <2> QED BY <2>1, <2>3, <2>4, <2>5
<1> HIDE DEF to
<1>8. \A m \in 1 .. l + h : f[m] = seqs[to[m][1]][to[m][2]]
  <2> SUFFICES ASSUME NEW m \in 1 .. l + h PROVE f[m] = seqs[to[m][1]][to[m][2]]
    OBVIOUS
  <2>1. CASE m \in 1 .. l
    BY <1>2, <1>3, <1>7, <2>1
  <2>2. CASE m \in l + 1 .. l + h
    <3>1. f[m] = t[m - l] /\ to[m] = <<k + 1, m - l>>
      BY <1>3, <1>7, <2>2
    <3>2. to[m][1] = k + 1 /\ to[m][2] = m - l
      BY <3>1
    <3> QED BY <3>1, <3>2 DEF t
  <2> QED BY <1>7, <2>1, <2>2
<1>9. ASSUME NEW m \in 1 .. l + h, NEW n \in 1 .. l + h, to[m] = to[n] PROVE m = n
  <2>1. CASE m \in 1 .. l /\ n \in 1 .. l
    BY <1>2, <1>7, <1>9, <2>1
  <2>2. CASE m \in l + 1 .. l + h /\ n \in l + 1 .. l + h
    BY <1>1, <1>7, <1>9, <2>2
  <2>3. CASE m \in 1 .. l /\ n \in l + 1 .. l + h
    <3>1. to[m][1] # k + 1 /\ to[n][1] = k + 1
      BY <1>1, <1>2, <1>5, <1>7, <2>3
    <3> QED BY <1>9, <3>1
  <2>4. CASE n \in 1 .. l /\ m \in l + 1 .. l + h
    <3>1. to[n][1] # k + 1 /\ to[m][1] = k + 1
      BY <1>1, <1>2, <1>5, <1>7, <2>4
    <3> QED BY <1>9, <3>1
  <2> QED BY <1>7, <2>1, <2>2, <2>3, <2>4
<1>10. ASSUME NEW p \in Cells(seqs, k + 1) PROVE \E m \in 1 .. l + h : to[m] = p
  <2>1. CASE p \in Cells(seqs, k)
    BY <1>2, <1>7, <2>1
  <2>2. CASE p \in Nat \X Nat /\ p[1] = k + 1 /\ p[2] \in 1 .. h
    <3>1. p = <<k + 1, p[2]>> /\ l + p[2] \in l + 1 .. l + h /\ (l + p[2]) - l = p[2]
      BY <1>1, <2>2
    <3>2. to[l + p[2]] = <<k + 1, (l + p[2]) - l>> /\ l + p[2] \in 1 .. l + h
      BY <1>7, <3>1
    <3> QED BY <3>1, <3>2
  <2> QED BY <1>4, <2>1, <2>2
<1>11. CellsIn(f, seqs, k + 1)
  <2>1. Len(f) = l + h
    BY <1>3
  <2>2. \E g \in [1 .. Len(f) -> Cells(seqs, k + 1)] :
          /\ \A m \in 1 .. Len(f) : f[m] = seqs[g[m][1]][g[m][2]]
          /\ \A m, n \in 1 .. Len(f) : g[m] = g[n] => m = n
          /\ \A p \in Cells(seqs, k + 1) : \E m \in 1 .. Len(f) : g[m] = p
    <3>1. to \in [1 .. Len(f) -> Cells(seqs, k + 1)]
      BY <1>7, <2>1
    <3>2. \A m \in 1 .. Len(f) : f[m] = seqs[to[m][1]][to[m][2]]
      BY <1>8, <2>1
    <3>3. \A m, n \in 1 .. Len(f) : to[m] = to[n] => m = n
      BY <1>9, <2>1
    <3>4. \A p \in Cells(seqs, k + 1) : \E m \in 1 .. Len(f) : to[m] = p
      BY <1>10, <2>1
    <3> QED BY <3>1, <3>2, <3>3, <3>4
  <2> QED BY <2>2 DEF CellsIn
<1> QED BY <1>11 DEF f, t

LEMMA Flattened ==
  ASSUME NEW S, NEW seqs \in Seq(Seq(S))
  PROVE  FlattenSeq(seqs) \in Seq(S) /\ CellsIn(FlattenSeq(seqs), seqs, Len(seqs))
<1>1. CASE Len(seqs) = 0
  <2>1. seqs = <<>> /\ FlattenSeq(seqs) = seqs /\ seqs \in Seq(S) /\ Len(seqs) = 0
    BY <1>1 DEF FlattenSeq
  <2>2. 1 .. Len(seqs) = {} /\ Cells(seqs, Len(seqs)) = {}
    BY <1>1 DEF Cells
  <2>3. \E at \in [1 .. Len(seqs) -> Cells(seqs, Len(seqs))] : TRUE
    <3> DEFINE at == [m \in 1 .. Len(seqs) |-> <<m, m>>]
    <3>1. at \in [1 .. Len(seqs) -> Cells(seqs, Len(seqs))]
      BY <2>2
    <3> QED BY <3>1
  <2> QED BY <2>1, <2>2, <2>3 DEF CellsIn
<1>2. CASE Len(seqs) # 0
  <2>1. PICK N \in Nat \ {0} : N = Len(seqs)
    BY <1>2
  <2> DEFINE Rec(g, K) == \A i \in 1 .. K : g[i] = IF i = 1 THEN seqs[i] ELSE g[i - 1] \o seqs[i]
             Some(K) == \E g \in [1 .. K -> Seq(S)] : Rec(g, K)
             Without == {K \in 1 .. N : ~Some(K)}
  <2>2. \A i \in 1 .. N : seqs[i] \in Seq(S)
    BY <2>1
  <2>3. Some(1)
    <3> DEFINE g == [i \in 1 .. 1 |-> seqs[i]]
    <3>1. g \in [1 .. 1 -> Seq(S)] /\ Rec(g, 1)
      BY <2>1, <2>2
    <3> QED BY <3>1
  <2>4. ASSUME NEW K \in 1 .. N - 1, Some(K) PROVE Some(K + 1)
    <3>1. PICK g \in [1 .. K -> Seq(S)] : Rec(g, K)
      BY <2>4
    <3> DEFINE h == [i \in 1 .. K + 1 |-> IF i <= K THEN g[i] ELSE g[K] \o seqs[K + 1]]
    <3>2. K \in Nat \ {0} /\ K + 1 \in 1 .. N /\ K \in 1 .. K
      OBVIOUS
    <3>3. g[K] \o seqs[K + 1] \in Seq(S)
      <4>1. g[K] \in Seq(S) /\ seqs[K + 1] \in Seq(S)
        BY <2>2, <3>2
      <4> QED BY <4>1
    <3>4. /\ \A i \in 1 .. K : h[i] = g[i]
          /\ h[K + 1] = g[K] \o seqs[K + 1]
          /\ \A i \in 1 .. K + 1 : i \in 1 .. K \/ i = K + 1
      BY <3>2
    <3>5. h \in [1 .. K + 1 -> Seq(S)]
      BY <3>2, <3>3
    <3> HIDE DEF h
    <3>6. ASSUME NEW i \in 1 .. K + 1
          PROVE  h[i] = IF i = 1 THEN seqs[i] ELSE h[i - 1] \o seqs[i]
      <4>1. CASE i = K + 1
        <5>1. i # 1 /\ i - 1 = K
          BY <3>2, <4>1
        <5>2. h[i - 1] = g[K]
          BY <3>2, <3>4, <5>1
        <5> QED BY <3>4, <4>1, <5>1, <5>2
      <4>2. CASE i \in 1 .. K /\ i = 1
        BY <3>1, <3>4, <4>2
      <4>3. CASE i \in 1 .. K /\ i # 1
        <5>1. i - 1 \in 1 .. K
          BY <3>2, <4>3
        <5>2. h[i] = g[i] /\ h[i - 1] = g[i - 1]
          BY <3>4, <4>3, <5>1
        <5> QED BY <3>1, <4>3, <5>2
      <4> QED BY <3>4, <4>1, <4>2, <4>3
    <3> QED BY <3>5, <3>6
  <2> HIDE DEF Some
  <2>5. Some(N)
    <3>1. Without \in SUBSET (1 .. N) /\ 1 \notin Without
      BY <2>3
    <3>2. \A K \in 1 .. N - 1 : K \notin Without => K + 1 \notin Without
      BY <2>4
    <3> HIDE DEF Without
    <3>3. Without = {}
      BY <3>1, <3>2, OneByOne
    <3> QED BY <3>3 DEF Without
  <2>6. PICK g \in [1 .. N -> Seq(S)] : Rec(g, N)
    BY <2>5 DEF Some
  <2> DEFINE Eq(f) == f = [i \in 1 .. Len(seqs) |-> IF i = 1 THEN seqs[i] ELSE f[i - 1] \o seqs[i]]
             flatten == CHOOSE f : Eq(f)
  <2>7. Eq(g)
    BY <2>1, <2>6
  <2>8. Eq(flatten)
    <3> HIDE DEF Eq
    <3> QED BY <2>7
  <2>9. FlattenSeq(seqs) = flatten[N]
    BY <1>2, <2>1 DEF FlattenSeq
  <2> HIDE DEF flatten
  <2>10. /\ flatten[1] = seqs[1]
         /\ \A K \in 1 .. N - 1 : flatten[K + 1] = flatten[K] \o seqs[K + 1]
    <3>1. \A i \in 1 .. N : flatten[i] = IF i = 1 THEN seqs[i] ELSE flatten[i - 1] \o seqs[i]
      BY <2>1, <2>8
    <3>2. 1 \in 1 .. N
      BY <2>1
    <3>3. \A K \in 1 .. N - 1 : K + 1 \in 1 .. N /\ K + 1 # 1 /\ (K + 1) - 1 = K
      BY <2>1
    <3> QED BY <3>1, <3>2, <3>3
  <2> HIDE DEF Eq
  <2> DEFINE Good(K) == flatten[K] \in Seq(S) /\ CellsIn(flatten[K], seqs, K)
             Bad == {K \in 1 .. N : ~Good(K)}
  <2>11. Good(1)
    BY <2>1, <2>2, <2>10, FirstCells
  <2>12. ASSUME NEW K \in 1 .. N - 1, Good(K) PROVE Good(K + 1)
    <3>1. K \in Nat \ {0} /\ K + 1 <= Len(seqs) /\ seqs[K + 1] \in Seq(S)
      BY <2>1, <2>2
    <3>2. PICK e \in Seq(S) : e = flatten[K] /\ CellsIn(e, seqs, K)
      BY <2>12
    <3>3. CellsIn(e \o seqs[K + 1], seqs, K + 1)
      BY <3>1, <3>2, MoreCells
    <3>4. flatten[K + 1] = e \o seqs[K + 1] /\ e \o seqs[K + 1] \in Seq(S)
      <4>1. flatten[K + 1] = flatten[K] \o seqs[K + 1]
        BY <2>10
      <4>2. \A a, b \in Seq(S) : a \o b \in Seq(S)
        OBVIOUS
      <4> QED BY <3>1, <3>2, <4>1, <4>2
    <3> QED BY <3>3, <3>4
  <2> HIDE DEF Good
  <2>13. Good(N)
    <3>1. Bad \in SUBSET (1 .. N) /\ 1 \notin Bad
      BY <2>11
    <3>2. \A K \in 1 .. N - 1 : K \notin Bad => K + 1 \notin Bad
      BY <2>12
    <3> HIDE DEF Bad
    <3>3. Bad = {}
      BY <3>1, <3>2, OneByOne
    <3> QED BY <2>1, <3>3 DEF Bad
  <2> QED BY <2>1, <2>9, <2>13 DEF Good
<1> QED BY <1>1, <1>2

FlatRow == [of : Invoices, code : Int, line : Nat, stt : Nat]
InvoiceRow == [of : Invoices, code : Int]
DocumentRow == [of : Invoices, code : Int, goods : Nat, lines : Nat]
Row == FlatRow \cup InvoiceRow \cup DocumentRow

\* The invoices of a file, the lines it shows of one, and that these are all
\* of it, or an empty one, once.
Ofs(file) == {file[n].of : n \in DOMAIN file}
LinesShown(file, i) == {file[n].line : n \in {m \in DOMAIN file : file[m].of = i}}
AllLinesOnce(file) ==
  /\ \A m, n \in DOMAIN file :
       m # n /\ file[m].of = file[n].of => file[m].line # file[n].line
  /\ \A i \in Ofs(file) : LinesShown(file, i) \in {{0}, 1 .. Len(Lines[i])}
OneEach(file) == \A m, n \in DOMAIN file : m # n => file[m].of # file[n].of

\* How many documents before the n-th have its name.
Namesakes(file, n) ==
  {m \in 1 .. n - 1 : InvoiceFileStem(file[m].of) = InvoiceFileStem(file[n].of)}
Named(file, names) ==
  Len(names) = Len(file) /\ \A n \in DOMAIN file : names[n] = Cardinality(Namesakes(file, n))

\* An element of a concatenation is in the first part or in the second one.
Joins(f, a, b) ==
  /\ Len(f) = Len(a) + Len(b) /\ Len(a) \in Nat /\ Len(b) \in Nat
  /\ DOMAIN a = 1 .. Len(a) /\ DOMAIN b = 1 .. Len(b) /\ DOMAIN f = 1 .. Len(a) + Len(b)
  /\ \A n \in 1 .. Len(a) + Len(b) :
       \/ n \in 1 .. Len(a) /\ f[n] = a[n]
       \/ n - Len(a) \in 1 .. Len(b) /\ f[n] = b[n - Len(a)]
  /\ \A n \in 1 .. Len(a) : n \in 1 .. Len(a) + Len(b) /\ f[n] = a[n]
  /\ \A n \in 1 .. Len(b) : n + Len(a) \in 1 .. Len(a) + Len(b) /\ f[n + Len(a)] = b[n]

LEMMA Joined ==
  ASSUME NEW S, NEW a \in Seq(S), NEW b \in Seq(S)
  PROVE  a \o b \in Seq(S) /\ Joins(a \o b, a, b)
<1>1. /\ a \o b \in Seq(S) /\ Len(a \o b) = Len(a) + Len(b)
      /\ DOMAIN a = 1 .. Len(a) /\ DOMAIN b = 1 .. Len(b)
      /\ Len(a) \in Nat /\ Len(b) \in Nat
  OBVIOUS
<1>2. \A n \in 1 .. Len(a) + Len(b) :
        (a \o b)[n] = IF n <= Len(a) THEN a[n] ELSE b[n - Len(a)]
  OBVIOUS
<1>3. PICK k, l \in Nat : k = Len(a) /\ l = Len(b)
  BY <1>1
<1>4. /\ \A n \in 1 .. k + l : (n \in 1 .. k /\ n <= k) \/ (n - k \in 1 .. l /\ ~(n <= k))
      /\ \A n \in 1 .. k : n \in 1 .. k + l /\ n <= k
      /\ \A n \in 1 .. l : n + k \in 1 .. k + l /\ ~(n + k <= k) /\ (n + k) - k = n
  <2>1. ASSUME NEW n \in 1 .. k + l
        PROVE  (n \in 1 .. k /\ n <= k) \/ (n - k \in 1 .. l /\ ~(n <= k))
    OBVIOUS
  <2>2. ASSUME NEW n \in 1 .. k PROVE n \in 1 .. k + l /\ n <= k
    OBVIOUS
  <2>3. ASSUME NEW n \in 1 .. l PROVE n + k \in 1 .. k + l /\ ~(n + k <= k) /\ (n + k) - k = n
    OBVIOUS
  <2> QED BY <2>1, <2>2, <2>3
<1>5. DOMAIN (a \o b) = 1 .. Len(a) + Len(b)
  BY <1>1
<1> QED BY <1>1, <1>2, <1>3, <1>4, <1>5 DEF Joins

LEMMA JoinedOfs ==
  ASSUME NEW a \in Seq(Row), NEW b \in Seq(Row)
  PROVE  Ofs(a \o b) = Ofs(a) \cup Ofs(b)
<1> DEFINE f == a \o b
<1>1. f \in Seq(Row) /\ Joins(f, a, b)
  BY Joined
<1> HIDE DEF f
<1>2. Ofs(f) = Ofs(a) \cup Ofs(b)
  <2>1. ASSUME NEW i \in Ofs(f) PROVE i \in Ofs(a) \cup Ofs(b)
    BY <1>1 DEF Ofs, Joins
  <2>2. ASSUME NEW i \in Ofs(a) PROVE i \in Ofs(f)
    BY <1>1 DEF Ofs, Joins
  <2>3. ASSUME NEW i \in Ofs(b) PROVE i \in Ofs(f)
    <3>1. PICK n \in 1 .. Len(b) : i = b[n].of
      BY <1>1 DEF Ofs, Joins
    <3>2. n + Len(a) \in DOMAIN f /\ f[n + Len(a)] = b[n]
      BY <1>1 DEF Joins
    <3> QED BY <3>1, <3>2 DEF Ofs
  <2> QED BY <2>1, <2>2, <2>3
<1> QED BY <1>2 DEF f

LEMMA JoinedOnce ==
  ASSUME NEW a \in Seq(Row), NEW b \in Seq(Row), OneEach(a), OneEach(b), Ofs(a) \cap Ofs(b) = {}
  PROVE  OneEach(a \o b)
<1> DEFINE f == a \o b
<1>1. f \in Seq(Row) /\ Joins(f, a, b)
  BY Joined
<1> HIDE DEF f
<1>2. \A m \in DOMAIN a, n \in DOMAIN b : a[m].of # b[n].of
  BY DEF Ofs
<1>3. ASSUME NEW m \in DOMAIN f, NEW n \in DOMAIN f, m # n PROVE f[m].of # f[n].of
  <2>1. CASE m \in 1 .. Len(a) /\ f[m] = a[m] /\ n \in 1 .. Len(a) /\ f[n] = a[n]
    BY <1>1, <1>3, <2>1 DEF OneEach, Joins
  <2>2. CASE /\ m - Len(a) \in 1 .. Len(b) /\ f[m] = b[m - Len(a)]
             /\ n - Len(a) \in 1 .. Len(b) /\ f[n] = b[n - Len(a)]
    <3>1. m - Len(a) # n - Len(a)
      BY <1>1, <1>3 DEF Joins
    <3> QED BY <1>1, <2>2, <3>1 DEF OneEach, Joins
  <2>3. CASE \/ m \in 1 .. Len(a) /\ f[m] = a[m] /\ n - Len(a) \in 1 .. Len(b) /\ f[n] = b[n - Len(a)]
             \/ n \in 1 .. Len(a) /\ f[n] = a[n] /\ m - Len(a) \in 1 .. Len(b) /\ f[m] = b[m - Len(a)]
    BY <1>1, <1>2, <2>3 DEF Joins
  <2> QED BY <1>1, <2>1, <2>2, <2>3 DEF Joins
<1>4. OneEach(f)
  BY <1>3 DEF OneEach
<1> QED BY <1>4 DEF f

LEMMA JoinedLines ==
  ASSUME NEW a \in Seq(Row), NEW b \in Seq(Row), AllLinesOnce(a), AllLinesOnce(b),
         Ofs(a) \cap Ofs(b) = {}
  PROVE  AllLinesOnce(a \o b)
<1> DEFINE f == a \o b
<1>1. f \in Seq(Row) /\ Joins(f, a, b)
  BY Joined
<1>2. Ofs(f) = Ofs(a) \cup Ofs(b)
  BY JoinedOfs
<1> HIDE DEF f
<1>3. \A m \in DOMAIN a, n \in DOMAIN b : a[m].of # b[n].of
  BY DEF Ofs
<1>4. ASSUME NEW m \in DOMAIN f, NEW n \in DOMAIN f, m # n, f[m].of = f[n].of
      PROVE  f[m].line # f[n].line
  <2>1. CASE m \in 1 .. Len(a) /\ f[m] = a[m] /\ n \in 1 .. Len(a) /\ f[n] = a[n]
    BY <1>1, <1>4, <2>1 DEF AllLinesOnce, Joins
  <2>2. CASE /\ m - Len(a) \in 1 .. Len(b) /\ f[m] = b[m - Len(a)]
             /\ n - Len(a) \in 1 .. Len(b) /\ f[n] = b[n - Len(a)]
    <3>1. m - Len(a) # n - Len(a)
      BY <1>1, <1>4 DEF Joins
    <3> QED BY <1>1, <1>4, <2>2, <3>1 DEF AllLinesOnce, Joins
  <2>3. CASE \/ m \in 1 .. Len(a) /\ f[m] = a[m] /\ n - Len(a) \in 1 .. Len(b) /\ f[n] = b[n - Len(a)]
             \/ n \in 1 .. Len(a) /\ f[n] = a[n] /\ m - Len(a) \in 1 .. Len(b) /\ f[m] = b[m - Len(a)]
    BY <1>1, <1>3, <1>4, <2>3 DEF Joins
  <2> QED BY <1>1, <2>1, <2>2, <2>3 DEF Joins
<1>5. ASSUME NEW i \in Ofs(a) PROVE LinesShown(f, i) = LinesShown(a, i)
  <2>1. i \notin Ofs(b)
    OBVIOUS
  <2>2. \A n \in DOMAIN f : f[n].of = i => n \in DOMAIN a /\ f[n] = a[n]
    BY <1>1, <2>1 DEF Ofs, Joins
  <2> QED BY <1>1, <2>2 DEF LinesShown, Joins
<1>6. ASSUME NEW i \in Ofs(b) PROVE LinesShown(f, i) = LinesShown(b, i)
  <2>1. i \notin Ofs(a)
    OBVIOUS
  <2>2. \A n \in DOMAIN f : f[n].of = i => n - Len(a) \in DOMAIN b /\ f[n] = b[n - Len(a)]
    BY <1>1, <2>1 DEF Ofs, Joins
  <2>3. \A n \in DOMAIN b : n + Len(a) \in DOMAIN f /\ f[n + Len(a)] = b[n]
    BY <1>1 DEF Joins
  <2>4. ASSUME NEW x \in LinesShown(f, i) PROVE x \in LinesShown(b, i)
    BY <2>2 DEF LinesShown
  <2>5. ASSUME NEW x \in LinesShown(b, i) PROVE x \in LinesShown(f, i)
    BY <2>3 DEF LinesShown
  <2> QED BY <2>4, <2>5
<1>7. \A i \in Ofs(f) : LinesShown(f, i) \in {{0}, 1 .. Len(Lines[i])}
  BY <1>2, <1>5, <1>6 DEF AllLinesOnce
<1>8. AllLinesOnce(f)
  BY <1>4, <1>7 DEF AllLinesOnce
<1> QED BY <1>8 DEF f

\* A name counts the documents before it, in the file and in its batch.
LEMMA JoinedNames ==
  ASSUME NEW a \in Seq(Row), NEW b \in Seq(Row), NEW names \in Seq(Nat), Named(a, names),
         NEW order \in Seq(Invoices), Len(b) = Len(order),
         \A n \in 1 .. Len(order) : b[n].of = order[n]
  PROVE  LET before(n) == [m \in 1 .. Len(a) |-> a[m].of] \o SubSeq(order, 1, n - 1)
             more == [n \in 1 .. Len(order) |-> UniqueName(order[n], before(n))]
         IN names \o more \in Seq(Nat) /\ Named(a \o b, names \o more)
<1> DEFINE ofA == [m \in 1 .. Len(a) |-> a[m].of]
           before(n) == ofA \o SubSeq(order, 1, n - 1)
           more == [n \in 1 .. Len(order) |-> UniqueName(order[n], before(n))]
           f == a \o b
           stem(n) == InvoiceFileStem(f[n].of)
<1>1. f \in Seq(Row) /\ Joins(f, a, b)
  BY Joined
<1> HIDE DEF f
<1>2. PICK k, l \in Nat : k = Len(a) /\ l = Len(b) /\ l = Len(order)
  OBVIOUS
<1>3. ofA \in Seq(Invoices) /\ Len(ofA) = k /\ \A m \in 1 .. k : ofA[m] = f[m].of
  <2>1. \A m \in 1 .. k : a[m] \in Row
    BY <1>2
  <2>2. \A m \in 1 .. k : a[m].of \in Invoices
    BY <2>1 DEF Row, FlatRow, InvoiceRow, DocumentRow
  <2>3. ofA \in [1 .. k -> Invoices] /\ \A m \in 1 .. k : ofA[m] = a[m].of
    BY <1>2, <2>2
  <2> HIDE DEF ofA
  <2>4. ofA \in Seq(Invoices) /\ Len(ofA) = k
    BY <2>3
  <2> QED BY <1>1, <1>2, <2>3, <2>4 DEF Joins
<1> HIDE DEF ofA
<1>4. ASSUME NEW n \in 1 .. l
      PROVE  UniqueName(order[n], before(n)) = Cardinality(Namesakes(f, n + k))
  <2>1. SubSeq(order, 1, n - 1) \in Seq(Invoices) /\ Len(SubSeq(order, 1, n - 1)) = n - 1
        /\ \A m \in 1 .. n - 1 : SubSeq(order, 1, n - 1)[m] = order[m]
    BY <1>2
  <2> DEFINE part == SubSeq(order, 1, n - 1)
  <2> HIDE DEF part
  <2>2. /\ DOMAIN (ofA \o part) = 1 .. k + (n - 1)
        /\ \A m \in 1 .. k + (n - 1) :
             \/ m \in 1 .. k /\ (ofA \o part)[m] = ofA[m]
             \/ m - k \in 1 .. n - 1 /\ (ofA \o part)[m] = part[m - k]
    <3>1. part \in Seq(Invoices) /\ Len(part) = n - 1
      BY <2>1 DEF part
    <3>2. Joins(ofA \o part, ofA, part)
      BY <1>3, <3>1, Joined
    <3> QED BY <1>3, <3>1, <3>2 DEF Joins
  <2>3. \A m \in 1 .. k + (n - 1) : (ofA \o part)[m] = f[m].of
    <3> SUFFICES ASSUME NEW m \in 1 .. k + (n - 1) PROVE (ofA \o part)[m] = f[m].of
      OBVIOUS
    <3>1. CASE m \in 1 .. k /\ (ofA \o part)[m] = ofA[m]
      BY <1>3, <3>1
    <3>2. CASE m - k \in 1 .. n - 1 /\ (ofA \o part)[m] = part[m - k]
      <4>1. m - k \in 1 .. l /\ (m - k) + k = m
        BY <3>2
      <4>2. f[(m - k) + k] = b[m - k] /\ b[m - k].of = order[m - k]
        BY <1>1, <1>2, <4>1 DEF Joins
      <4>3. part[m - k] = order[m - k]
        BY <2>1, <3>2 DEF part
      <4> QED BY <3>2, <4>1, <4>2, <4>3
    <3> QED BY <2>2, <3>1, <3>2
  <2>4. f[n + k].of = order[n] /\ (n + k) - 1 = k + (n - 1)
    BY <1>1, <1>2 DEF Joins
  <2>5. {m \in DOMAIN (ofA \o part) :
           InvoiceFileStem((ofA \o part)[m]) = InvoiceFileStem(order[n])} = Namesakes(f, n + k)
    BY <2>2, <2>3, <2>4 DEF Namesakes
  <2> QED BY <2>5 DEF UniqueName, part
<1>5. \A n \in 1 .. l : Cardinality(Namesakes(f, n + k)) \in Nat
  <2> SUFFICES ASSUME NEW n \in 1 .. l PROVE Cardinality(Namesakes(f, n + k)) \in Nat
    OBVIOUS
  <2>1. IsFiniteSet(1 .. (n + k) - 1)
    BY FS_Interval
  <2>2. Namesakes(f, n + k) \in SUBSET (1 .. (n + k) - 1)
    BY DEF Namesakes
  <2> QED BY <2>1, <2>2, FS_Subset, FS_CardinalityType
<1>6. more \in Seq(Nat) /\ Len(more) = l
      /\ \A n \in 1 .. l : more[n] = Cardinality(Namesakes(f, n + k))
  <2>1. \A n \in 1 .. l : more[n] = Cardinality(Namesakes(f, n + k))
    BY <1>2, <1>4
  <2>2. more \in [1 .. l -> Nat]
    <3>1. \A n \in 1 .. l : UniqueName(order[n], before(n)) \in Nat
      BY <1>4, <1>5
    <3> DEFINE name(n) == UniqueName(order[n], before(n))
    <3>2. more = [n \in 1 .. l |-> name(n)] /\ \A n \in 1 .. l : name(n) \in Nat
      BY <1>2, <3>1
    <3> HIDE DEF name
    <3> QED BY <3>2
  <2> HIDE DEF more
  <2> QED BY <2>1, <2>2
<1> HIDE DEF more
<1>7. Len(names) = k /\ \A n \in 1 .. k : names[n] = Cardinality(Namesakes(a, n))
  BY <1>1, <1>2 DEF Named, Joins
<1>8. \A n \in 1 .. k : Namesakes(a, n) = Namesakes(f, n)
  BY <1>1, <1>2 DEF Namesakes, Joins
<1>9. /\ names \o more \in Seq(Nat) /\ Len(names \o more) = k + l
      /\ \A n \in 1 .. k : (names \o more)[n] = names[n]
      /\ \A n \in 1 .. l : (names \o more)[n + k] = more[n]
  <2>1. names \o more \in Seq(Nat) /\ Joins(names \o more, names, more)
    BY <1>6, Joined
  <2> QED BY <1>6, <1>7, <2>1 DEF Joins
<1>10. \A n \in 1 .. k + l : (names \o more)[n] = Cardinality(Namesakes(f, n))
  <2> SUFFICES ASSUME NEW n \in 1 .. k + l
               PROVE  (names \o more)[n] = Cardinality(Namesakes(f, n))
    OBVIOUS
  <2>1. CASE n \in 1 .. k
    BY <1>7, <1>8, <1>9, <2>1
  <2>2. CASE n \notin 1 .. k
    <3>1. n - k \in 1 .. l /\ (n - k) + k = n
      BY <2>2
    <3>2. (names \o more)[(n - k) + k] = Cardinality(Namesakes(f, (n - k) + k))
      BY <1>6, <1>9, <3>1
    <3> QED BY <3>1, <3>2
  <2> QED BY <2>1, <2>2
<1>11. names \o more \in Seq(Nat) /\ Named(f, names \o more)
  BY <1>1, <1>2, <1>9, <1>10 DEF Named, Joins
<1> QED BY <1>11 DEF f, more, ofA

\* Of two documents with one name the later has more before it.
LEMMA NamesDiffer ==
  ASSUME NEW file \in Seq(Row), NEW names, Named(file, names),
         NEW m \in DOMAIN file, NEW n \in DOMAIN file, m < n,
         InvoiceFileStem(file[m].of) = InvoiceFileStem(file[n].of)
  PROVE  names[m] # names[n]
<1>1. m \in Nat /\ n \in Nat /\ m # 0
  OBVIOUS
<1>2. IsFiniteSet(1 .. n - 1)
  BY <1>1, FS_Interval
<1>3. /\ Namesakes(file, n) \in SUBSET (1 .. n - 1)
      /\ m \in Namesakes(file, n)
      /\ Namesakes(file, m) \in SUBSET (Namesakes(file, n) \ {m})
  BY <1>1 DEF Namesakes
<1>4. IsFiniteSet(Namesakes(file, n))
  BY <1>2, <1>3, FS_Subset
<1>5. Cardinality(Namesakes(file, m)) # Cardinality(Namesakes(file, n))
  BY <1>3, <1>4, FS_Subset
<1> QED BY <1>5 DEF Named

LEMMA LinesThere ==
  \A i \in Invoices : Len(Lines[i]) \in Nat /\ (Lines[i] # <<>> => Len(Lines[i]) # 0)
<1> DEFINE Line == [thtien : Decimals, ltsuat : {"rate", "word", "none"},
                    tsuat : Decimals, tsuatTien : Decimals]
<1>1. Lines \in [Invoices -> Seq(Line)]
  BY ReadingAssumption
<1> HIDE DEF Line
<1> SUFFICES ASSUME NEW i \in Invoices
             PROVE  Len(Lines[i]) \in Nat /\ (Lines[i] # <<>> => Len(Lines[i]) # 0)
  OBVIOUS
<1>2. PICK s \in Seq(Line) : s = Lines[i]
  BY <1>1
<1>3. Len(s) \in Nat /\ (s # <<>> => Len(s) # 0)
  OBVIOUS
<1> QED BY <1>2, <1>3

\* The rows of a batch in a flat file: of each invoice all lines, or an empty one.
LEMMA FlatBatch ==
  ASSUME NEW order \in Seq(Invoices), NEW codes \in [ToSet(order) -> Int], NEW stt \in Nat,
         NEW got \in SUBSET HavingLines(ToSet(order)),
         \A m, n \in 1 .. Len(order) : order[m] = order[n] => m = n
  PROVE  LET rows == Stamped(FlatRows(order, codes, got), stt)
         IN /\ rows \in Seq(FlatRow) /\ AllLinesOnce(rows)
            /\ Ofs(rows) = ToSet(order)
<1> DEFINE l == Len(order)
           count(i) == IF i \in got THEN Len(Lines[i]) ELSE 1
           of(i) == [k \in 1 .. IF i \in got THEN Len(Lines[i]) ELSE 1 |->
                      [of |-> i, code |-> codes[i], line |-> IF i \in got THEN k ELSE 0]]
           seqs == [n \in 1 .. l |-> of(order[n])]
           PlainRow == [of : Invoices, code : Int, line : Nat]
           raw == FlatRows(order, codes, got)
           rows == Stamped(raw, stt)
<1>1. /\ l \in Nat /\ \A n \in 1 .. l : order[n] \in Invoices /\ order[n] \in ToSet(order)
      /\ \A i \in ToSet(order) : i \in Invoices /\ \E n \in 1 .. l : order[n] = i
      /\ \A m, n \in 1 .. l : order[m] = order[n] => m = n
  BY DEF ToSet
<1>2. \A i \in ToSet(order) : count(i) \in Nat \ {0} /\ (i \in got => count(i) = Len(Lines[i]))
  BY <1>1, LinesThere DEF HavingLines
<1>3. \A i \in ToSet(order) :
        /\ of(i) \in Seq(PlainRow) /\ Len(of(i)) = count(i)
        /\ \A k \in 1 .. count(i) :
             of(i)[k].of = i /\ of(i)[k].line = IF i \in got THEN k ELSE 0
  <2> SUFFICES ASSUME NEW i \in ToSet(order)
               PROVE  /\ of(i) \in Seq(PlainRow) /\ Len(of(i)) = count(i)
                      /\ \A k \in 1 .. count(i) :
                           of(i)[k].of = i /\ of(i)[k].line = IF i \in got THEN k ELSE 0
    OBVIOUS
  <2> DEFINE row(k) == [of |-> i, code |-> codes[i], line |-> IF i \in got THEN k ELSE 0]
  <2>1. PICK c \in Nat : c = count(i)
    BY <1>2
  <2>2. of(i) = [k \in 1 .. c |-> row(k)]
    BY <2>1
  <2>3. \A k \in 1 .. c : row(k) \in PlainRow /\ row(k).of = i
                          /\ row(k).line = IF i \in got THEN k ELSE 0
    BY <1>1, <2>1
  <2> HIDE DEF of, row, PlainRow, count
  <2>4. of(i) \in [1 .. c -> PlainRow] /\ \A k \in 1 .. c : of(i)[k] = row(k)
    BY <2>2, <2>3
  <2>5. of(i) \in Seq(PlainRow) /\ Len(of(i)) = c
    BY <2>1, <2>4
  <2> QED BY <2>1, <2>3, <2>4, <2>5
<1>4. raw = FlattenSeq(seqs)
  BY DEF FlatRows
<1> HIDE DEF of, raw, PlainRow, count
<1>5. /\ seqs \in Seq(Seq(PlainRow)) /\ Len(seqs) = l
      /\ \A n \in 1 .. l : seqs[n] = of(order[n])
  <2>1. seqs \in [1 .. l -> Seq(PlainRow)] /\ \A n \in 1 .. l : seqs[n] = of(order[n])
    BY <1>1, <1>3
  <2> HIDE DEF seqs, l
  <2>2. seqs \in Seq(Seq(PlainRow)) /\ Len(seqs) = l
    BY <1>1, <2>1
  <2> QED BY <2>1, <2>2
<1> HIDE DEF seqs
<1>6. raw \in Seq(PlainRow) /\ CellsIn(raw, seqs, l)
  BY <1>4, <1>5, Flattened
<1>7. PICK at \in [1 .. Len(raw) -> Cells(seqs, l)] :
        /\ \A m \in 1 .. Len(raw) : raw[m] = seqs[at[m][1]][at[m][2]]
        /\ \A m, n \in 1 .. Len(raw) : at[m] = at[n] => m = n
        /\ \A p \in Cells(seqs, l) : \E m \in 1 .. Len(raw) : at[m] = p
  BY <1>6 DEF CellsIn
<1> HIDE DEF l
<1>8. \A p : p \in Cells(seqs, l) <=>
        p \in Nat \X Nat /\ p[1] \in 1 .. l /\ p[2] \in 1 .. count(order[p[1]])
  <2>1. \A n \in 1 .. l : Len(seqs[n]) = count(order[n])
    BY <1>1, <1>3, <1>5
  <2> QED BY <2>1 DEF Cells
<1>9. \A m \in 1 .. Len(raw) :
        /\ at[m] \in Nat \X Nat /\ at[m][1] \in 1 .. l /\ at[m][2] \in 1 .. count(order[at[m][1]])
        /\ raw[m].of = order[at[m][1]]
        /\ raw[m].line = IF order[at[m][1]] \in got THEN at[m][2] ELSE 0
  <2> SUFFICES ASSUME NEW m \in 1 .. Len(raw)
               PROVE  /\ at[m] \in Nat \X Nat /\ at[m][1] \in 1 .. l
                      /\ at[m][2] \in 1 .. count(order[at[m][1]])
                      /\ raw[m].of = order[at[m][1]]
                      /\ raw[m].line = IF order[at[m][1]] \in got THEN at[m][2] ELSE 0
    OBVIOUS
  <2>1. PICK a, b : a = at[m][1] /\ b = at[m][2]
    OBVIOUS
  <2>2. at[m] \in Nat \X Nat /\ a \in 1 .. l /\ b \in 1 .. count(order[a])
    BY <1>7, <1>8, <2>1
  <2>3. raw[m] = of(order[a])[b]
    BY <1>5, <1>7, <2>1, <2>2
  <2>4. raw[m].of = order[a] /\ raw[m].line = IF order[a] \in got THEN b ELSE 0
    BY <1>1, <1>3, <2>2, <2>3
  <2> QED BY <2>1, <2>2, <2>4
<1>10. \A n \in 1 .. l : \A k \in 1 .. count(order[n]) :
         \E m \in 1 .. Len(raw) : at[m][1] = n /\ at[m][2] = k
  <2> SUFFICES ASSUME NEW n \in 1 .. l, NEW k \in 1 .. count(order[n])
               PROVE  \E m \in 1 .. Len(raw) : at[m][1] = n /\ at[m][2] = k
    OBVIOUS
  <2>1. n \in Nat /\ k \in Nat
    BY <1>1, <1>2
  <2>2. <<n, k>> \in Nat \X Nat /\ <<n, k>>[1] = n /\ <<n, k>>[2] = k
    BY <2>1
  <2>3. <<n, k>> \in Cells(seqs, l)
    BY <1>8, <2>2
  <2> QED BY <1>7, <2>2, <2>3
<1>11. Len(raw) \in Nat /\ \A m \in 1 .. Len(raw) : raw[m] \in PlainRow
  BY <1>6
<1>12. /\ rows \in Seq(FlatRow) /\ DOMAIN rows = 1 .. Len(raw)
       /\ \A m \in 1 .. Len(raw) : rows[m].of = raw[m].of /\ rows[m].line = raw[m].line
  <2> DEFINE row(m) == [of |-> raw[m].of, code |-> raw[m].code, line |-> raw[m].line, stt |-> stt + m]
  <2>1. rows = [m \in 1 .. Len(raw) |-> row(m)]
    BY DEF Stamped
  <2>2. \A m \in 1 .. Len(raw) : row(m) \in FlatRow /\ row(m).of = raw[m].of
                                 /\ row(m).line = raw[m].line
    <3> SUFFICES ASSUME NEW m \in 1 .. Len(raw)
                 PROVE  row(m) \in FlatRow /\ row(m).of = raw[m].of /\ row(m).line = raw[m].line
      OBVIOUS
    <3>1. stt + m \in Nat
      BY <1>11
    <3> QED BY <1>11, <3>1 DEF FlatRow, PlainRow
  <2> HIDE DEF row, rows
  <2>3. rows \in [1 .. Len(raw) -> FlatRow]
    BY <2>1, <2>2
  <2>4. rows \in Seq(FlatRow)
    BY <1>11, <2>3
  <2> QED BY <2>1, <2>2, <2>3, <2>4
<1> HIDE DEF rows
<1>13. Ofs(rows) = ToSet(order)
  <2>1. ASSUME NEW i \in Ofs(rows) PROVE i \in ToSet(order)
    <3>1. PICK m \in 1 .. Len(raw) : i = raw[m].of
      BY <1>12 DEF Ofs
    <3> QED BY <1>1, <1>9, <3>1
  <2>2. ASSUME NEW i \in ToSet(order) PROVE i \in Ofs(rows)
    <3>1. PICK n \in 1 .. l : order[n] = i
      BY <1>1
    <3>2. 1 \in 1 .. count(order[n])
      BY <1>2, <3>1
    <3>3. PICK m \in 1 .. Len(raw) : at[m][1] = n
      BY <1>10, <3>2
    <3>4. rows[m].of = i /\ m \in DOMAIN rows
      BY <1>9, <1>12, <3>1, <3>3
    <3> QED BY <3>4 DEF Ofs
  <2> QED BY <2>1, <2>2
<1>14. ASSUME NEW m \in DOMAIN rows, NEW n \in DOMAIN rows, m # n, rows[m].of = rows[n].of
       PROVE  rows[m].line # rows[n].line
  <2>1. m \in 1 .. Len(raw) /\ n \in 1 .. Len(raw) /\ raw[m].of = raw[n].of
    BY <1>12, <1>14
  <2>2. at[m][1] = at[n][1]
    <3>1. at[m][1] \in 1 .. l /\ at[n][1] \in 1 .. l /\ order[at[m][1]] = order[at[n][1]]
      BY <1>9, <2>1
    <3> QED BY <1>1, <3>1
  <2>3. at[m] # at[n] /\ at[m] = <<at[m][1], at[m][2]>> /\ at[n] = <<at[n][1], at[n][2]>>
    BY <1>7, <1>9, <1>14, <2>1
  <2>4. at[m][2] # at[n][2]
    BY <2>2, <2>3
  <2>5. PICK i : i = order[at[m][1]] /\ i \in ToSet(order)
    BY <1>1, <1>9, <2>1
  <2>6. at[m][2] \in 1 .. count(i) /\ at[n][2] \in 1 .. count(i)
    BY <1>9, <2>1, <2>2, <2>5
  <2>7. i \in got
    <3> SUFFICES ASSUME i \notin got PROVE FALSE
      OBVIOUS
    <3>1. count(i) = 1
      BY DEF count
    <3> QED BY <2>4, <2>6, <3>1
  <2>8. raw[m].line = at[m][2] /\ raw[n].line = at[n][2]
    BY <1>9, <2>1, <2>2, <2>5, <2>7
  <2> QED BY <1>12, <2>1, <2>4, <2>8
<1>15. ASSUME NEW i \in Ofs(rows)
       PROVE  LinesShown(rows, i) \in {{0}, 1 .. Len(Lines[i])}
  <2>1. PICK n \in 1 .. l : order[n] = i /\ i \in ToSet(order)
    BY <1>1, <1>13
  <2>2. \A m \in 1 .. Len(raw) : rows[m].of = i => at[m][1] = n
    <3> SUFFICES ASSUME NEW m \in 1 .. Len(raw), rows[m].of = i PROVE at[m][1] = n
      OBVIOUS
    <3>1. at[m][1] \in 1 .. l /\ order[at[m][1]] = order[n]
      BY <1>9, <1>12, <2>1
    <3> QED BY <1>1, <3>1
  <2>3. \A m \in 1 .. Len(raw) : at[m][1] = n => rows[m].of = i
    BY <1>9, <1>12, <2>1
  <2>4. CASE i \notin got
    <3>1. count(i) = 1 /\ 1 \in 1 .. count(i)
      BY <2>4 DEF count
    <3>2. PICK m \in 1 .. Len(raw) : at[m][1] = n
      BY <1>10, <2>1, <3>1
    <3>3. \A k \in 1 .. Len(raw) : at[k][1] = n => rows[k].line = 0
      BY <1>9, <1>12, <2>1, <2>4
    <3>4. LinesShown(rows, i) = {0}
      BY <1>12, <2>2, <2>3, <3>2, <3>3 DEF LinesShown
    <3> QED BY <3>4
  <2>5. CASE i \in got
    <3>1. count(i) = Len(Lines[i])
      BY <2>5 DEF count
    <3>2. \A m \in 1 .. Len(raw) :
            at[m][1] = n => rows[m].line = at[m][2] /\ at[m][2] \in 1 .. count(i)
      BY <1>9, <1>12, <2>1, <2>5
    <3>3. ASSUME NEW x \in LinesShown(rows, i) PROVE x \in 1 .. count(i)
      BY <1>12, <2>2, <3>2 DEF LinesShown
    <3>4. ASSUME NEW x \in 1 .. count(i) PROVE x \in LinesShown(rows, i)
      <4>1. PICK m \in 1 .. Len(raw) : at[m][1] = n /\ at[m][2] = x
        BY <1>10, <2>1
      <4> QED BY <1>12, <2>3, <3>2, <4>1 DEF LinesShown
    <3>5. LinesShown(rows, i) = 1 .. count(i)
      BY <3>3, <3>4
    <3> QED BY <3>1, <3>5
  <2> QED BY <2>4, <2>5
<1>16. AllLinesOnce(rows)
  BY <1>14, <1>15 DEF AllLinesOnce
<1> QED BY <1>12, <1>13, <1>16 DEF rows, raw

\* The rows of a batch elsewhere: of each invoice one.
InStep(rows, order) ==
  Len(rows) = Len(order) /\ \A n \in 1 .. Len(order) : rows[n].of = order[n]

LEMMA PlainBatch ==
  ASSUME NEW order \in Seq(Invoices), NEW codes \in [ToSet(order) -> Int],
         NEW seen \in SUBSET Invoices, NEW got \in SUBSET Invoices,
         \A m, n \in 1 .. Len(order) : order[m] = order[n] => m = n,
         NEW rows, rows = InvoiceRows(order, codes) \/ rows = Documents(order, codes, seen, got)
  PROVE  /\ rows \in Seq(Row) /\ OneEach(rows) /\ Ofs(rows) = ToSet(order)
         /\ InStep(rows, order)
<1> DEFINE count(i, S) == IF i \in S THEN Len(Lines[i]) ELSE 0
           plain(n) == [of |-> order[n], code |-> codes[order[n]]]
           doc(n) == [of |-> order[n], code |-> codes[order[n]],
                      goods |-> count(order[n], seen), lines |-> count(order[n], got)]
<1>1. PICK l \in Nat : l = Len(order)
  OBVIOUS
<1>2. \A n \in 1 .. l : order[n] \in Invoices /\ order[n] \in ToSet(order)
  BY <1>1 DEF ToSet
<1>3. \A n \in 1 .. l : count(order[n], seen) \in Nat /\ count(order[n], got) \in Nat
  BY <1>2, LinesThere
<1>4. \A n \in 1 .. l : codes[order[n]] \in Int
  BY <1>2
<1>5. \A n \in 1 .. l : plain(n) \in Row /\ plain(n).of = order[n]
  BY <1>2, <1>4 DEF Row, InvoiceRow
<1>6. \A n \in 1 .. l : doc(n) \in Row /\ doc(n).of = order[n]
  <2> HIDE DEF count
  <2> QED BY <1>2, <1>3, <1>4 DEF Row, DocumentRow
<1>7. rows = [n \in 1 .. l |-> plain(n)] \/ rows = [n \in 1 .. l |-> doc(n)]
  BY <1>1 DEF InvoiceRows, Documents
<1> HIDE DEF plain, doc
<1>8. rows \in [1 .. l -> Row] /\ \A n \in 1 .. l : rows[n].of = order[n]
  BY <1>5, <1>6, <1>7
<1>9. rows \in Seq(Row) /\ Len(rows) = l /\ DOMAIN rows = 1 .. l
  BY <1>8
<1>10. OneEach(rows)
  BY <1>1, <1>8, <1>9 DEF OneEach
<1>11. Ofs(rows) = ToSet(order)
  <2>1. DOMAIN order = 1 .. l
    BY <1>1
  <2> QED BY <1>8, <1>9, <2>1 DEF Ofs, ToSet
<1> QED BY <1>1, <1>8, <1>9, <1>10, <1>11 DEF InStep

-----------------------------------------------------------------------------
(***************************************************************************)
(* The invariant of an export, and of what else the types are of           *)
(***************************************************************************)
\* The order of the keyset, which no status changes.
Newer(i, j) == Tdlap[i] > Tdlap[j] \/ (Tdlap[i] = Tdlap[j] /\ i > j)
Ahead(cursor, i) == cursor = None \/ Newer(cursor, i)

ExportReq ==
  [kind : {"export"}, sel : Selections, format : {"flat", "zip", "converted"},
   step : {"rows", "lines", "complete"}, cursor : Invoices \cup {None}, batch : Seq(Invoices),
   codes : {<<>>} \cup UNION {[S -> Int] : S \in SUBSET Invoices}, seen : SUBSET Invoices,
   file : Seq(Row), names : Seq(Nat), steady : SUBSET Invoices]

FileFine(format, file, names) ==
  /\ format = "flat" => AllLinesOnce(file)
  /\ format # "flat" => OneEach(file)
  /\ format = "zip" => Named(file, names)

\* What is in the file is not ahead of the cursor, the batch is; and what
\* stayed selected is in the file or still to come.
CursorFine(r) ==
  /\ \A i \in Ofs(r.file) : ~Ahead(r.cursor, i)
  /\ \A n \in 1 .. Len(r.batch) : Ahead(r.cursor, r.batch[n])
  /\ \A m, n \in 1 .. Len(r.batch) : m < n => Newer(r.batch[m], r.batch[n])
  /\ Len(r.batch) <= PageSize
  /\ r.step = "rows" => \A i \in r.steady \ Ofs(r.file) : Ahead(r.cursor, i)
  /\ r.step = "lines" =>
       /\ Len(r.batch) # 0 /\ r.codes \in [ToSet(r.batch) -> Int]
       /\ \A i \in r.steady \ (Ofs(r.file) \cup ToSet(r.batch)) :
            Len(r.batch) = PageSize /\ Newer(Last(r.batch), i)
  /\ r.step = "complete" => r.steady \subseteq Ofs(r.file)

ExportFine ==
  /\ req \in ExportReq
  /\ Ofs(req.file) \cup ToSet(req.batch) \subseteq stored
  /\ req.steady \subseteq Selected(req.sel)
  /\ FileFine(req.format, req.file, req.names) /\ CursorFine(req)

Pages ==
  [open : BOOLEAN, count : {None} \cup 0 .. Cardinality(Invoices), error : BOOLEAN,
   fetch : {"none", "asked", "read"}, read : {None} \cup 0 .. Cardinality(Invoices),
   run : {"idle", "following", "ended"}, owed : {None} \cup 0 .. Cardinality(Invoices)]

ListTypes ==
  /\ req.seen \cup req.steady \subseteq stored
  /\ req.total \in 0 .. Cardinality(Invoices)
  /\ req.offset \in 0 .. Cardinality(Invoices)

Tables ==
  /\ \A i \in Invoices : tthai[i] \in Codes[i] \cup {Null}
  /\ changes \in 0 .. MaxChanges

FileInv ==
  /\ Tables
  /\ page \in Pages
  /\ req.kind = "list" => ListTypes
  /\ req.kind = "export" => ExportFine

LEMMA NewerFacts ==
  /\ \A i, j \in Invoices : Before(Newest, i, j) <=> Newer(i, j)
  /\ \A i \in Invoices : ~Newer(i, i) /\ i # None
  /\ \A i, j, k \in Invoices : Newer(i, j) /\ Newer(j, k) => Newer(i, k)
  /\ \A i, j \in Invoices : Newer(i, j) => ~Newer(j, i)
<1>1. \A i, j \in Invoices : Before(Newest, i, j) <=> Newer(i, j)
  BY NewestFirst DEF Newer
<1>2. \A i \in Invoices : ~Newer(i, i)
  BY <1>1, TotalOrder
<1>3. \A i, j, k \in Invoices : Newer(i, j) /\ Newer(j, k) => Newer(i, k)
  BY <1>1, TotalOrder
<1>4. \A i \in Invoices : i # None
  BY NewestFirst DEF None
<1> QED BY <1>1, <1>2, <1>3, <1>4

LEMMA BatchRanges ==
  ASSUME NEW r \in ExportReq
  PROVE  /\ r.batch \in Seq(Invoices) /\ Len(r.batch) \in Nat
         /\ \A n \in 1 .. Len(r.batch) : r.batch[n] \in Invoices /\ r.batch[n] \in ToSet(r.batch)
         /\ \A i \in ToSet(r.batch) : i \in Invoices /\ \E n \in 1 .. Len(r.batch) : r.batch[n] = i
         /\ r.file \in Seq(Row) /\ r.names \in Seq(Nat)
         /\ r.cursor \in Invoices \cup {None} /\ r.steady \in SUBSET Invoices
         /\ r.seen \in SUBSET Invoices
         /\ Ofs(r.file) \in SUBSET Invoices
<1>1. /\ r.batch \in Seq(Invoices) /\ r.file \in Seq(Row) /\ r.names \in Seq(Nat)
      /\ r.cursor \in Invoices \cup {None} /\ r.steady \in SUBSET Invoices
      /\ r.seen \in SUBSET Invoices
  BY DEF ExportReq
<1>2. PICK s \in Seq(Invoices), f \in Seq(Row) : s = r.batch /\ f = r.file
  BY <1>1
<1>3. /\ Len(s) \in Nat
      /\ \A n \in 1 .. Len(s) : s[n] \in Invoices /\ s[n] \in ToSet(s)
      /\ \A i \in ToSet(s) : i \in Invoices /\ \E n \in 1 .. Len(s) : s[n] = i
  BY DEF ToSet
<1>4. Ofs(f) \in SUBSET Invoices
  <2>1. \A n \in DOMAIN f : f[n] \in Row
    OBVIOUS
  <2>2. \A row \in Row : row.of \in Invoices
    BY DEF Row, FlatRow, InvoiceRow, DocumentRow
  <2> QED BY <2>1, <2>2 DEF Ofs
<1> QED BY <1>1, <1>2, <1>3, <1>4

LEMMA EachOnce ==
  ASSUME NEW r \in ExportReq, CursorFine(r)
  PROVE  /\ Ofs(r.file) \cap ToSet(r.batch) = {}
         /\ \A m, n \in 1 .. Len(r.batch) : r.batch[m] = r.batch[n] => m = n
<1>1. Ofs(r.file) \cap ToSet(r.batch) = {}
  <2> SUFFICES ASSUME NEW i \in ToSet(r.batch), i \in Ofs(r.file) PROVE FALSE
    OBVIOUS
  <2>1. PICK n \in 1 .. Len(r.batch) : r.batch[n] = i
    BY BatchRanges
  <2> QED BY <2>1 DEF CursorFine
<1>2. ASSUME NEW m \in 1 .. Len(r.batch), NEW n \in 1 .. Len(r.batch), m # n
      PROVE  r.batch[m] # r.batch[n]
  <2>1. m < n \/ n < m
    <3>1. Len(r.batch) \in Nat
      BY BatchRanges
    <3> QED BY <1>2, <3>1
  <2>2. r.batch[m] \in Invoices /\ r.batch[n] \in Invoices
    BY BatchRanges
  <2>3. Newer(r.batch[m], r.batch[n]) \/ Newer(r.batch[n], r.batch[m])
    BY <2>1 DEF CursorFine
  <2> QED BY <2>2, <2>3, NewerFacts
<1> QED BY <1>1, <1>2

\* What is left to come once a batch is written is behind its last row.
LEMMA CursorMoves ==
  ASSUME NEW r \in ExportReq, CursorFine(r), r.step = "lines", NEW q \in ExportReq,
         Ofs(q.file) = Ofs(r.file) \cup ToSet(r.batch), q.cursor = Last(r.batch),
         q.batch = <<>>, q.steady = r.steady,
         q.step = IF Len(r.batch) < PageSize THEN "complete" ELSE "rows"
  PROVE  CursorFine(q)
<1> DEFINE s == r.batch
           last == Last(r.batch)
<1>1. /\ Len(s) \in Nat \ {0}
      /\ \A n \in 1 .. Len(s) : s[n] \in Invoices
      /\ \A i \in ToSet(s) : i \in Invoices /\ \E n \in 1 .. Len(s) : s[n] = i
  BY BatchRanges DEF CursorFine
<1>2. last = s[Len(s)] /\ Len(s) \in 1 .. Len(s) /\ last \in Invoices
  BY <1>1 DEF Last
<1>3. last # None /\ \A i : Ahead(last, i) <=> Newer(last, i)
  BY <1>2, NewerFacts DEF Ahead
<1>4. \A i \in ToSet(s) : ~Newer(last, i)
  <2> SUFFICES ASSUME NEW i \in ToSet(s) PROVE ~Newer(last, i)
    OBVIOUS
  <2>1. PICK n \in 1 .. Len(s) : s[n] = i
    BY <1>1
  <2>2. CASE n = Len(s)
    BY <1>2, <2>1, <2>2, NewerFacts
  <2>3. CASE n # Len(s)
    <3>1. n < Len(s)
      BY <1>1, <2>3
    <3>2. Newer(i, last)
      BY <1>2, <2>1, <3>1 DEF CursorFine
    <3> QED BY <1>1, <1>2, <3>2, NewerFacts
  <2> QED BY <2>2, <2>3
<1>5. \A i \in Ofs(r.file) : ~Newer(last, i)
  <2> SUFFICES ASSUME NEW i \in Ofs(r.file), Newer(last, i) PROVE FALSE
    OBVIOUS
  <2>1. ~Ahead(r.cursor, i) /\ Ahead(r.cursor, last)
    BY <1>2 DEF CursorFine
  <2>2. r.cursor # None /\ ~Newer(r.cursor, i) /\ Newer(r.cursor, last)
    BY <2>1 DEF Ahead
  <2>3. i \in Invoices /\ r.cursor \in Invoices
    BY <2>2, BatchRanges
  <2> QED BY <1>2, <2>2, <2>3, NewerFacts
<1>6. /\ \A i \in Ofs(q.file) : ~Ahead(q.cursor, i)
      /\ Len(q.batch) = 0 /\ 1 .. Len(q.batch) = {} /\ Len(q.batch) <= PageSize
  <2>1. Len(<<>>) = 0 /\ 1 .. 0 = {} /\ 0 <= PageSize
    BY Sizes
  <2> QED BY <1>3, <1>4, <1>5, <2>1
<1>7. \A i \in q.steady \ Ofs(q.file) : Len(s) = PageSize /\ Ahead(q.cursor, i)
  BY <1>3 DEF CursorFine
<1>8. q.step = "complete" => q.steady \subseteq Ofs(q.file)
  <2>1. q.step = "complete" => Len(s) # PageSize
    BY <1>1, Sizes
  <2> QED BY <1>7, <2>1
<1>9. q.step # "lines"
  OBVIOUS
<1> QED BY <1>6, <1>7, <1>8, <1>9 DEF CursorFine

-----------------------------------------------------------------------------
(***************************************************************************)
(* The steps of an export                                                  *)
(***************************************************************************)
LEMMA RequestStarts ==
  ASSUME IInv, FileInv, NEW sel \in Selections, NEW format \in {"flat", "zip", "converted"},
         Exporting(sel, format)
  PROVE  FileInv'
<1>1. req' = [kind |-> "export", sel |-> sel, format |-> format, step |-> "rows", cursor |-> None,
              batch |-> <<>>, codes |-> <<>>, seen |-> {}, file |-> <<>>, names |-> <<>>,
              steady |-> Selected(sel)]
  BY DEF Exporting
<1>2. UNCHANGED <<dbVars, page>>
  BY DEF Exporting
<1>3. Selected(sel) \in SUBSET Invoices /\ Selected(sel)' = Selected(sel)
  BY <1>2, SelectedStored, NothingWritten
<1>4. <<>> \in Seq(Invoices) /\ <<>> \in Seq(Row) /\ <<>> \in Seq(Nat)
  OBVIOUS
<1>5. req' \in ExportReq
  BY <1>1, <1>3, <1>4 DEF ExportReq
<1>6. /\ req'.file = <<>> /\ req'.batch = <<>> /\ req'.names = <<>> /\ req'.cursor = None
      /\ req'.step = "rows" /\ req'.steady = Selected(sel) /\ req'.sel = sel /\ req'.kind = "export"
  BY <1>1
<1>7. Ofs(<<>>) = {} /\ ToSet(<<>>) = {} /\ Len(<<>>) = 0 /\ DOMAIN <<>> = {} /\ 1 .. 0 = {}
  BY DEF Ofs, ToSet
<1>8. FileFine(req'.format, <<>>, <<>>)
  BY <1>7 DEF FileFine, AllLinesOnce, OneEach, Named
<1>9. CursorFine(req')
  BY <1>6, <1>7, Sizes DEF CursorFine, Ahead
<1>10. ExportFine'
  BY <1>3, <1>5, <1>6, <1>7, <1>8, <1>9 DEF ExportFine
<1> QED BY <1>2, <1>6, <1>10 DEF FileInv, Tables, dbVars

LEMMA BatchRead == ASSUME IInv, FileInv, ExportRows PROVE FileInv'
<1> DEFINE S == {i \in Selected(req.sel) : Beyond(req.cursor, i)}
           rows == Slice(Newest, S, 0, PageSize)
           batch == InOrder(rows)
           codes == [i \in rows |-> tthai[i]]
           step == IF rows = {} THEN "complete" ELSE "lines"
<1>1. req \in ExportReq /\ ExportFine /\ CursorFine(req) /\ req.step = "rows" /\ req.kind = "export"
  BY DEF ExportRows, FileInv, ExportFine
<1>2. PICK seen \in SUBSET HavingLines(rows) :
        req' = [req EXCEPT !.batch = batch, !.codes = codes, !.seen = seen, !.step = step]
  BY DEF ExportRows
<1>3. UNCHANGED <<dbVars, page>>
  BY DEF ExportRows
<1>4. S \in SUBSET Invoices /\ S \in SUBSET stored /\ S \in SUBSET Selected(req.sel)
  BY SelectedStored DEF Selected
<1>5. /\ rows \in SUBSET S /\ Cardinality(rows) <= PageSize
      /\ S # {} => rows # {}
      /\ \A i \in S \ rows : Cardinality(rows) = PageSize /\ \A j \in rows : Before(Newest, j, i)
  BY <1>4, BatchFacts
<1> HIDE DEF rows
<1>6. /\ batch \in [1 .. Cardinality(rows) -> rows] /\ batch \in Seq(Invoices)
      /\ Len(batch) = Cardinality(rows) /\ ToSet(batch) = rows
      /\ \A m, n \in 1 .. Cardinality(rows) : m < n => Before(Newest, batch[m], batch[n])
  BY <1>4, <1>5, InOrderFacts
<1>7. codes \in [rows -> Int]
  <2>1. \A i \in rows : tthai[i] \in Codes[i] \cup {Null} /\ Codes[i] \subseteq Null .. BI_DIEU_CHINH
    BY <1>4, <1>5, ReadingAssumption DEF FileInv, Tables
  <2>2. \A i \in rows : tthai[i] \in Int
    BY <2>1 DEF Null, BI_DIEU_CHINH
  <2> QED BY <2>2
<1>8. seen \in SUBSET Invoices
  BY <1>4, <1>5 DEF HavingLines
<1> HIDE DEF batch, codes, step
<1>9. /\ req' \in ExportReq /\ req'.kind = "export" /\ req'.sel = req.sel /\ req'.cursor = req.cursor
      /\ req'.file = req.file /\ req'.names = req.names /\ req'.format = req.format
      /\ req'.steady = req.steady /\ req'.batch = batch /\ req'.codes = codes /\ req'.step = step
  <2>1. codes \in UNION {[T -> Int] : T \in SUBSET Invoices}
    BY <1>4, <1>5, <1>7
  <2>2. step \in {"rows", "lines", "complete"}
    BY DEF step
  <2> QED BY <1>1, <1>2, <1>6, <1>8, <2>1, <2>2 DEF ExportReq
<1>10. \A i \in S : i \in Invoices /\ Ahead(req.cursor, i)
  <2>1. req.cursor \in Invoices \cup {None}
    BY <1>1 DEF ExportReq
  <2> QED BY <1>4, <2>1, NewerFacts DEF Beyond, Ahead
<1>11. ASSUME NEW i \in req.steady \ Ofs(req.file)
       PROVE  i \in S
  <2>1. Ahead(req.cursor, i) /\ i \in Selected(req.sel) /\ i \in Invoices
    BY <1>1, SelectedStored DEF CursorFine, ExportFine
  <2>2. req.cursor \in Invoices \cup {None}
    BY <1>1 DEF ExportReq
  <2>3. Beyond(req.cursor, i)
    BY <2>1, <2>2, NewerFacts DEF Beyond, Ahead
  <2> QED BY <2>1, <2>3
<1>12. /\ \A n \in 1 .. Len(batch) : batch[n] \in rows /\ Ahead(req.cursor, batch[n])
       /\ \A m, n \in 1 .. Len(batch) : m < n => Newer(batch[m], batch[n])
       /\ Len(batch) <= PageSize
  <2>1. \A n \in 1 .. Len(batch) : batch[n] \in rows /\ batch[n] \in Invoices /\ Ahead(req.cursor, batch[n])
    BY <1>5, <1>6, <1>10
  <2> QED BY <1>5, <1>6, <2>1, NewerFacts
<1>13. step = "lines" => Len(batch) # 0 /\ codes \in [ToSet(batch) -> Int]
  <2>1. step = "lines" => rows # {}
    BY DEF step
  <2>2. rows # {} => Len(batch) # 0
    <3> SUFFICES ASSUME rows # {}, Len(batch) = 0 PROVE FALSE
      OBVIOUS
    <3>1. ToSet(batch) = {}
      BY <1>6 DEF ToSet
    <3> QED BY <1>6, <3>1
  <2> QED BY <1>6, <1>7, <2>1, <2>2
<1>14. step = "lines" =>
         \A i \in req.steady \ (Ofs(req.file) \cup ToSet(batch)) :
           Len(batch) = PageSize /\ Newer(Last(batch), i)
  <2> SUFFICES ASSUME step = "lines", NEW i \in req.steady \ (Ofs(req.file) \cup ToSet(batch))
               PROVE  Len(batch) = PageSize /\ Newer(Last(batch), i)
    OBVIOUS
  <2>1. i \in S \ rows
    BY <1>6, <1>11
  <2>2. Len(batch) \in 1 .. Len(batch)
    BY <1>6, <1>13
  <2>3. Last(batch) \in rows
    BY <1>12, <2>2 DEF Last
  <2>4. Before(Newest, Last(batch), i) /\ Last(batch) \in Invoices /\ i \in Invoices
    BY <1>4, <1>5, <2>1, <2>3
  <2> QED BY <1>5, <1>6, <2>1, <2>4, NewerFacts
<1>15. step = "complete" => req.steady \subseteq Ofs(req.file)
  <2>1. step = "complete" => S = {}
    BY <1>5 DEF step
  <2> QED BY <1>11, <2>1
<1>16. step # "rows"
  BY DEF step
<1>17. CursorFine(req')
  BY <1>1, <1>9, <1>12, <1>13, <1>14, <1>15, <1>16 DEF CursorFine
<1>18. Selected(req.sel)' = Selected(req.sel)'
  OBVIOUS
<1>19. stored' = stored /\ \A sel : Selected(sel)' = Selected(sel)
  BY <1>3, NothingWritten
<1>20. req'.steady \subseteq Selected(req.sel)'
  BY <1>1, <1>9, <1>19 DEF ExportFine
<1>21. Ofs(req'.file) \cup ToSet(req'.batch) \subseteq stored'
  BY <1>1, <1>4, <1>5, <1>6, <1>9, <1>19 DEF ExportFine
<1>22. FileFine(req'.format, req'.file, req'.names)
  BY <1>1, <1>9 DEF ExportFine
<1>23. ExportFine'
  BY <1>9, <1>17, <1>20, <1>21, <1>22 DEF ExportFine
<1> QED BY <1>3, <1>9, <1>23 DEF FileInv, Tables, dbVars

\* The request after a batch was written.
FileWith(q, rows, names) ==
  /\ q \in ExportReq
  /\ q.sel = req.sel /\ q.format = req.format /\ q.steady = req.steady
  /\ q.step = IF Len(req.batch) < PageSize THEN "complete" ELSE "rows"
  /\ q.cursor = Last(req.batch) /\ q.batch = <<>>
  /\ q.file = req.file \o rows /\ q.names = names

LEMMA WrittenAs ==
  ASSUME req \in ExportReq, Last(req.batch) \in Invoices, NEW rows, req.file \o rows \in Seq(Row)
  PROVE  /\ FileWith(Written(rows), rows, req.names)
         /\ \A more : req.names \o more \in Seq(Nat) =>
              FileWith([Written(rows) EXCEPT !.names = @ \o more], rows, req.names \o more)
<1> DEFINE step == IF Len(req.batch) < PageSize THEN "complete" ELSE "rows"
<1>1. PICK file \in Seq(Row), last \in Invoices : file = req.file \o rows /\ last = Last(req.batch)
  OBVIOUS
<1>2. <<>> \in Seq(Invoices) /\ step \in {"rows", "lines", "complete"}
  OBVIOUS
<1>3. Written(rows) = [req EXCEPT !.file = file, !.cursor = last, !.batch = <<>>, !.codes = <<>>,
                                  !.seen = {}, !.step = step]
  BY <1>1 DEF Written
<1> HIDE DEF step
<1>4. /\ Written(rows) \in ExportReq
      /\ Written(rows).sel = req.sel /\ Written(rows).format = req.format
      /\ Written(rows).steady = req.steady /\ Written(rows).names = req.names
      /\ Written(rows).step = step /\ Written(rows).cursor = last /\ Written(rows).batch = <<>>
      /\ Written(rows).file = file
  <2>1. PICK r \in ExportReq : r = req
    OBVIOUS
  <2> DEFINE p == [r EXCEPT !.file = file, !.cursor = last, !.batch = <<>>]
             q == [p EXCEPT !.codes = <<>>, !.seen = {}, !.step = step]
  <2>2. /\ p \in ExportReq /\ p.sel = r.sel /\ p.format = r.format /\ p.steady = r.steady
        /\ p.names = r.names /\ p.cursor = last /\ p.batch = <<>> /\ p.file = file
    BY <1>2 DEF ExportReq
  <2>3. q = [r EXCEPT !.file = file, !.cursor = last, !.batch = <<>>, !.codes = <<>>,
                      !.seen = {}, !.step = step]
    OBVIOUS
  <2> HIDE DEF p
  <2>4. /\ q \in ExportReq /\ q.sel = p.sel /\ q.format = p.format /\ q.steady = p.steady
        /\ q.names = p.names /\ q.cursor = p.cursor /\ q.batch = p.batch /\ q.file = p.file
        /\ q.step = step
    <3>1. <<>> \in {<<>>} \cup UNION {[S -> Int] : S \in SUBSET Invoices} /\ {} \in SUBSET Invoices
      OBVIOUS
    <3> DEFINE tables == {<<>>} \cup UNION {[S -> Int] : S \in SUBSET Invoices}
    <3> HIDE DEF tables
    <3> QED BY <1>2, <2>2, <3>1 DEF ExportReq, tables
  <2> HIDE DEF q
  <2> QED BY <1>3, <2>1, <2>2, <2>3, <2>4
<1>5. FileWith(Written(rows), rows, req.names)
  BY <1>1, <1>4 DEF FileWith, step
<1>6. ASSUME NEW more, req.names \o more \in Seq(Nat)
      PROVE  FileWith([Written(rows) EXCEPT !.names = @ \o more], rows, req.names \o more)
  <2>1. PICK all \in Seq(Nat) : all = req.names \o more
    BY <1>6
  <2>2. PICK r \in ExportReq : r = Written(rows)
    BY <1>4
  <2> DEFINE q == [r EXCEPT !.names = all]
  <2>3. /\ q \in ExportReq /\ q.sel = r.sel /\ q.format = r.format /\ q.steady = r.steady
        /\ q.step = r.step /\ q.cursor = r.cursor /\ q.batch = r.batch /\ q.file = r.file
        /\ q.names = all
    BY DEF ExportReq
  <2>4. [Written(rows) EXCEPT !.names = @ \o more] = q
    BY <1>4, <2>1, <2>2
  <2> HIDE DEF q
  <2>5. FileWith(q, rows, all)
    BY <1>5, <2>2, <2>3 DEF FileWith
  <2> QED BY <2>1, <2>4, <2>5
<1> QED BY <1>5, <1>6

\* A batch has a last row.
LEMMA LastOne ==
  ASSUME req \in ExportReq, CursorFine(req), req.step = "lines"
  PROVE  Last(req.batch) \in Invoices
<1>1. Len(req.batch) \in Nat /\ Len(req.batch) # 0
  BY BatchRanges DEF CursorFine
<1>2. Len(req.batch) \in 1 .. Len(req.batch)
  BY <1>1
<1> QED BY <1>2, BatchRanges DEF Last

LEMMA BatchWritten ==
  ASSUME IInv, FileInv, UNCHANGED <<dbVars, page>>, req.kind = "export", req.step = "lines",
         NEW rows \in Seq(Row), Ofs(rows) = ToSet(req.batch),
         NEW names \in Seq(Nat), FileWith(req', rows, names),
         FileFine(req.format, req.file \o rows, names)
  PROVE  FileInv'
<1>1. req \in ExportReq /\ ExportFine /\ CursorFine(req)
  BY DEF FileInv, ExportFine
<1>2. /\ req' \in ExportReq /\ req'.kind = "export" /\ req'.sel = req.sel
      /\ req'.format = req.format /\ req'.steady = req.steady
      /\ req'.step = (IF Len(req.batch) < PageSize THEN "complete" ELSE "rows")
      /\ req'.cursor = Last(req.batch) /\ req'.batch = <<>> /\ req'.file = req.file \o rows
      /\ req'.names = names
  BY DEF FileWith, ExportReq
<1>3. req.file \in Seq(Row) /\ req.batch \in Seq(Invoices) /\ Len(req.batch) \in Nat
  BY <1>1, BatchRanges
<1>4. req.file \o rows \in Seq(Row) /\ Ofs(req.file \o rows) = Ofs(req.file) \cup ToSet(req.batch)
  BY <1>3, Joined, JoinedOfs
<1>7. CursorFine(req')
  <2>1. PICK q \in ExportReq : q = req'
    BY <1>2
  <2>2. CursorFine(q)
    BY <1>1, <1>2, <1>4, <2>1, CursorMoves
  <2> QED BY <2>1, <2>2
<1>8. stored' = stored /\ \A sel : Selected(sel)' = Selected(sel)
  BY NothingWritten
<1>9. ToSet(<<>>) = {}
  BY DEF ToSet
<1>10. ExportFine'
  BY <1>1, <1>2, <1>4, <1>7, <1>8, <1>9 DEF ExportFine
<1> QED BY <1>2, <1>10 DEF FileInv, Tables, dbVars

LEMMA LinesWritten == ASSUME IInv, FileInv, ExportLines PROVE FileInv'
<1>1. /\ req.kind = "export" /\ req.step = "lines" /\ req.format = "flat"
      /\ UNCHANGED <<dbVars, page>>
  BY DEF ExportLines
<1>2. req \in ExportReq /\ ExportFine /\ CursorFine(req)
  BY <1>1 DEF FileInv, ExportFine
<1>3. PICK got \in LinesFound :
        req' = Written(Stamped(FlatRows(req.batch, req.codes, got), Len(req.file)))
  BY DEF ExportLines
<1>4. /\ req.file \in Seq(Row) /\ req.batch \in Seq(Invoices) /\ req.names \in Seq(Nat)
      /\ req.codes \in [ToSet(req.batch) -> Int]
  BY <1>1, <1>2, BatchRanges DEF CursorFine
<1>5. /\ \A m, n \in 1 .. Len(req.batch) : req.batch[m] = req.batch[n] => m = n
      /\ Ofs(req.file) \cap ToSet(req.batch) = {}
  BY <1>2, EachOnce
<1>6. got \in SUBSET HavingLines(ToSet(req.batch)) /\ Len(req.file) \in Nat
  BY <1>4 DEF LinesFound
<1> DEFINE rows == Stamped(FlatRows(req.batch, req.codes, got), Len(req.file))
<1>7. /\ rows \in Seq(FlatRow) /\ AllLinesOnce(rows) /\ Ofs(rows) = ToSet(req.batch)
  BY <1>4, <1>5, <1>6, FlatBatch
<1> HIDE DEF rows
<1>8. rows \in Seq(Row)
  BY <1>7 DEF Row
<1>9. AllLinesOnce(req.file \o rows)
  <2>1. AllLinesOnce(req.file)
    BY <1>1, <1>2 DEF ExportFine, FileFine
  <2> QED BY <1>4, <1>5, <1>7, <1>8, <2>1, JoinedLines
<1>10. FileFine(req.format, req.file \o rows, req.names)
  BY <1>1, <1>9 DEF FileFine
<1>11. FileWith(req', rows, req.names)
  BY <1>1, <1>2, <1>3, <1>4, <1>8, LastOne, Joined, WrittenAs DEF rows
<1> QED BY <1>1, <1>4, <1>7, <1>8, <1>10, <1>11, BatchWritten

LEMMA BatchConverted == ASSUME IInv, FileInv, ConvertBatch PROVE FileInv'
<1>1. /\ req.kind = "export" /\ req.step = "lines" /\ req.format = "converted"
      /\ UNCHANGED <<dbVars, page>>
      /\ req' = Written(InvoiceRows(req.batch, req.codes))
  BY DEF ConvertBatch
<1>2. req \in ExportReq /\ ExportFine /\ CursorFine(req)
  BY <1>1 DEF FileInv, ExportFine
<1>4. /\ req.file \in Seq(Row) /\ req.batch \in Seq(Invoices) /\ req.names \in Seq(Nat)
      /\ req.codes \in [ToSet(req.batch) -> Int]
  BY <1>1, <1>2, BatchRanges DEF CursorFine
<1>5. /\ \A m, n \in 1 .. Len(req.batch) : req.batch[m] = req.batch[n] => m = n
      /\ Ofs(req.file) \cap ToSet(req.batch) = {}
  BY <1>2, EachOnce
<1> DEFINE rows == InvoiceRows(req.batch, req.codes)
<1>6. /\ rows \in Seq(Row) /\ OneEach(rows) /\ Ofs(rows) = ToSet(req.batch)
  BY <1>4, <1>5, PlainBatch
<1> HIDE DEF rows
<1>7. OneEach(req.file \o rows)
  <2>1. OneEach(req.file)
    BY <1>1, <1>2 DEF ExportFine, FileFine
  <2> QED BY <1>4, <1>5, <1>6, <2>1, JoinedOnce
<1>8. FileFine(req.format, req.file \o rows, req.names)
  BY <1>1, <1>7 DEF FileFine
<1>9. FileWith(req', rows, req.names)
  BY <1>1, <1>2, <1>4, <1>6, LastOne, Joined, WrittenAs DEF rows
<1> QED BY <1>1, <1>4, <1>6, <1>8, <1>9, BatchWritten

LEMMA DocumentsWritten == ASSUME IInv, FileInv, ExportDocuments PROVE FileInv'
<1> DEFINE before(n) == [m \in 1 .. Len(req.file) |-> req.file[m].of] \o SubSeq(req.batch, 1, n - 1)
           more == [n \in 1 .. Len(req.batch) |-> UniqueName(req.batch[n], before(n))]
<1>1. /\ req.kind = "export" /\ req.step = "lines" /\ req.format = "zip"
      /\ UNCHANGED <<dbVars, page>>
  BY DEF ExportDocuments
<1>2. req \in ExportReq /\ ExportFine /\ CursorFine(req)
  BY <1>1 DEF FileInv, ExportFine
<1>3. PICK got \in LinesFound :
        req' = [Written(Documents(req.batch, req.codes, req.seen, got)) EXCEPT !.names = @ \o more]
  BY DEF ExportDocuments
<1> HIDE DEF more
<1>4. /\ req.file \in Seq(Row) /\ req.batch \in Seq(Invoices) /\ req.names \in Seq(Nat)
      /\ req.codes \in [ToSet(req.batch) -> Int] /\ req.seen \in SUBSET Invoices
      /\ \A i \in ToSet(req.batch) : i \in Invoices
  BY <1>1, <1>2, BatchRanges DEF CursorFine
<1>5. /\ \A m, n \in 1 .. Len(req.batch) : req.batch[m] = req.batch[n] => m = n
      /\ Ofs(req.file) \cap ToSet(req.batch) = {}
  BY <1>2, EachOnce
<1>6. got \in SUBSET Invoices
  BY <1>4 DEF LinesFound, HavingLines
<1> DEFINE rows == Documents(req.batch, req.codes, req.seen, got)
<1>7. /\ rows \in Seq(Row) /\ OneEach(rows) /\ Ofs(rows) = ToSet(req.batch)
      /\ Len(rows) = Len(req.batch) /\ \A n \in 1 .. Len(req.batch) : rows[n].of = req.batch[n]
  <2>1. PICK order, codes, seen, all :
          order = req.batch /\ codes = req.codes /\ seen = req.seen /\ all = rows
    OBVIOUS
  <2>2. /\ order \in Seq(Invoices) /\ codes \in [ToSet(order) -> Int] /\ seen \in SUBSET Invoices
        /\ \A m, n \in 1 .. Len(order) : order[m] = order[n] => m = n
        /\ all = InvoiceRows(order, codes) \/ all = Documents(order, codes, seen, got)
    BY <1>4, <1>5, <2>1
  <2> HIDE DEF rows
  <2>3. /\ all \in Seq(Row) /\ OneEach(all) /\ Ofs(all) = ToSet(order)
        /\ InStep(all, order)
    BY <1>6, <2>2, PlainBatch
  <2> QED BY <2>1, <2>3 DEF InStep
<1> HIDE DEF rows
<1>8. OneEach(req.file) /\ Named(req.file, req.names)
  BY <1>1, <1>2 DEF ExportFine, FileFine
<1>9. OneEach(req.file \o rows)
  BY <1>4, <1>5, <1>7, <1>8, JoinedOnce
<1>10. req.names \o more \in Seq(Nat) /\ Named(req.file \o rows, req.names \o more)
  BY <1>4, <1>7, <1>8, JoinedNames DEF more
<1>11. FileFine(req.format, req.file \o rows, req.names \o more)
  BY <1>1, <1>9, <1>10 DEF FileFine
<1>12. FileWith(req', rows, req.names \o more)
  BY <1>1, <1>2, <1>3, <1>4, <1>7, <1>10, LastOne, Joined, WrittenAs DEF rows
<1> QED BY <1>1, <1>4, <1>7, <1>10, <1>11, <1>12, BatchWritten

-----------------------------------------------------------------------------
(***************************************************************************)
(* The other steps                                                         *)
(***************************************************************************)
\* A request that asks less to stay.
Keeping(r, T) == [r EXCEPT !.steady = T]

\* An invoice that does not stay selected is no longer asked for.
LEMMA FewerSteady ==
  ASSUME NEW r \in ExportReq, CursorFine(r), NEW T \in SUBSET r.steady,
         NEW q, q = Keeping(r, T)
  PROVE  /\ q \in ExportReq /\ CursorFine(q) /\ q.steady = T
         /\ q.kind = "export" /\ q.sel = r.sel /\ q.format = r.format
         /\ q.file = r.file /\ q.names = r.names /\ q.batch = r.batch
<1>1. T \in SUBSET Invoices
  BY BatchRanges
<1>2. /\ q \in ExportReq /\ q.steady = T /\ q.kind = "export" /\ q.sel = r.sel
      /\ q.format = r.format /\ q.file = r.file /\ q.names = r.names /\ q.batch = r.batch
      /\ q.cursor = r.cursor /\ q.step = r.step /\ q.codes = r.codes
  BY <1>1 DEF ExportReq, Keeping
<1>3. q.steady \subseteq r.steady
  BY <1>2
<1>4. CursorFine(q)
  <2>1. /\ \A i \in Ofs(q.file) : ~Ahead(q.cursor, i)
        /\ \A n \in 1 .. Len(q.batch) : Ahead(q.cursor, q.batch[n])
        /\ \A m, n \in 1 .. Len(q.batch) : m < n => Newer(q.batch[m], q.batch[n])
        /\ Len(q.batch) <= PageSize
    BY <1>2 DEF CursorFine
  <2>2. q.step = "rows" => \A i \in q.steady \ Ofs(q.file) : Ahead(q.cursor, i)
    BY <1>2, <1>3 DEF CursorFine
  <2>3. q.step = "lines" => Len(q.batch) # 0 /\ q.codes \in [ToSet(q.batch) -> Int]
    BY <1>2 DEF CursorFine
  <2>4. q.step = "lines" =>
          \A i \in q.steady \ (Ofs(q.file) \cup ToSet(q.batch)) :
            Len(q.batch) = PageSize /\ Newer(Last(q.batch), i)
    BY <1>2, <1>3 DEF CursorFine
  <2>5. q.step = "complete" => q.steady \subseteq Ofs(q.file)
    BY <1>2, <1>3 DEF CursorFine
  <2> QED BY <2>1, <2>2, <2>3, <2>4, <2>5 DEF CursorFine
<1> QED BY <1>2, <1>4

LEMMA StillSelected ==
  ASSUME NEW sel, NEW i \in Invoices, NEW code, tthai = [j \in Invoices |-> tthai[j]],
         stored \subseteq Invoices, stored \subseteq stored', tthai' = [tthai EXCEPT ![i] = code],
         NEW j \in Selected(sel), j = i => Matches(sel, i, code)
  PROVE  j \in Selected(sel)'
<1>1. j \in stored /\ j \in Invoices /\ Matches(sel, j, tthai[j])
  BY DEF Selected
<1>2. Matches(sel, j, tthai'[j])
  <2>1. CASE j = i
    BY <1>1, <2>1
  <2>2. CASE j # i
    BY <1>1, <2>2
  <2> QED BY <2>1, <2>2
<1> QED BY <1>1, <1>2 DEF Selected

LEMMA SyncFile == ASSUME IInv, FileInv, Sync PROVE FileInv'
<1>0. PICK i \in Invoices : \E code : code \in Codes[i] /\ (Store(i, code) \/ Change(i, code))
  BY DEF Sync
<1>1. PICK code : code \in Codes[i] /\ (Store(i, code) \/ Change(i, code))
  BY <1>0
<1>2. /\ stored \subseteq stored' /\ stored \subseteq Invoices
      /\ tthai = [j \in Invoices |-> tthai[j]] /\ tthai' = [tthai EXCEPT ![i] = code]
      /\ page' = page /\ page \in Pages
  BY <1>1 DEF IInv, Store, Change, FileInv
<1>3. Tables'
  <2>1. \A j \in Invoices : tthai'[j] \in Codes[j] \cup {Null}
    BY <1>1, <1>2 DEF FileInv, Tables
  <2>2. changes' \in 0 .. MaxChanges
    <3>1. changes \in 0 .. MaxChanges /\ MaxChanges \in Nat
      BY ReadingAssumption DEF FileInv, Tables
    <3>2. changes' = changes \/ (changes < MaxChanges /\ changes' = changes + 1)
      BY <1>1 DEF Store, Change
    <3> QED BY <3>1, <3>2
  <2> QED BY <2>1, <2>2 DEF Tables
<1>4. CASE req.kind = "export"
  <2>1. req \in ExportReq /\ ExportFine /\ CursorFine(req)
    BY <1>4 DEF FileInv, ExportFine
  <2>2. PICK T \in SUBSET req.steady :
          /\ req' = [req EXCEPT !.steady = T]
          /\ \A j \in T : j = i => Matches(req.sel, i, code)
    <3>1. CASE Store(i, code)
      <4>1. req' = req /\ i \notin stored
        BY <1>4, <3>1 DEF Store, Stirred
      <4>2. req.steady \subseteq stored
        BY <2>1 DEF ExportFine, Selected
      <4>3. req = [req EXCEPT !.steady = req.steady]
        BY <2>1 DEF ExportReq
      <4> QED BY <4>1, <4>2, <4>3
    <3>2. CASE Change(i, code)
      <4> DEFINE T == {j \in req.steady : j = i => Matches(req.sel, i, code)}
      <4>1. Stays(req, i, code) = [req EXCEPT !.steady = T]
        BY <1>4 DEF Stays
      <4>2. [req EXCEPT !.steady = T].kind = "export"
        BY <1>4, <2>1 DEF ExportReq
      <4>3. T \in SUBSET req.steady /\ \A j \in T : j = i => Matches(req.sel, i, code)
        OBVIOUS
      <4> HIDE DEF T
      <4>4. PICK r : r = [req EXCEPT !.steady = T]
        OBVIOUS
      <4>5. req' = Stirred(r) /\ r.kind = "export"
        BY <3>2, <4>1, <4>2, <4>4 DEF Change
      <4>6. req' = r
        BY <4>5 DEF Stirred
      <4> QED BY <4>3, <4>4, <4>6
    <3> QED BY <1>1, <3>1, <3>2
  <2>3. /\ req' \in ExportReq /\ CursorFine(req') /\ req'.steady = T
        /\ req'.kind = "export" /\ req'.sel = req.sel /\ req'.format = req.format
        /\ req'.file = req.file /\ req'.names = req.names /\ req'.batch = req.batch
    <3>0. PICK r \in ExportReq : r = req
      BY <2>1
    <3>1. PICK q : r = req /\ q = req'
      BY <3>0
    <3>2. CursorFine(r) /\ T \in SUBSET r.steady /\ q = Keeping(r, T)
      BY <2>1, <2>2, <3>1 DEF Keeping
    <3>3. /\ q \in ExportReq /\ CursorFine(q) /\ q.steady = T
          /\ q.kind = "export" /\ q.sel = r.sel /\ q.format = r.format
          /\ q.file = r.file /\ q.names = r.names /\ q.batch = r.batch
      BY <3>2, FewerSteady
    <3> QED BY <3>1, <3>3
  <2>4. PICK sel : sel = req.sel
    OBVIOUS
  <2>5. T \subseteq Selected(sel)'
    <3>1. \A j \in T : j \in Selected(sel) /\ (j = i => Matches(sel, i, code))
      BY <2>1, <2>2, <2>4 DEF ExportFine
    <3> QED BY <1>2, <3>1, StillSelected
  <2>6. ExportFine'
    BY <1>2, <2>1, <2>3, <2>4, <2>5 DEF ExportFine
  <2> QED BY <1>2, <1>3, <2>3, <2>6 DEF FileInv
<1>5. CASE req.kind = "list"
  <2>1. req \in ListReq /\ ListTypes
    BY <1>5 DEF FileInv, IInv, RequestFine
  <2>2. PICK T \in SUBSET req.steady : req' = Stirred([req EXCEPT !.steady = T])
    <3>1. CASE Store(i, code)
      <4>1. req' = Stirred(req)
        BY <3>1 DEF Store
      <4>2. req = [req EXCEPT !.steady = req.steady]
        BY <2>1 DEF ListReq
      <4> QED BY <4>1, <4>2
    <3>2. CASE Change(i, code)
      <4>1. req' = Stirred(Stays(req, i, code))
        BY <3>2 DEF Change
      <4> QED BY <1>5, <4>1 DEF Stays
    <3> QED BY <1>1, <3>1, <3>2
  <2> DEFINE stay == [req EXCEPT !.steady = T]
  <2>3. /\ stay \in ListReq /\ stay.steady = T /\ stay.seen = req.seen
        /\ stay.total = req.total /\ stay.offset = req.offset
    BY <2>1 DEF ListReq
  <2> HIDE DEF stay
  <2>4. req' = [stay EXCEPT !.calm = FALSE]
    BY <2>2, <2>3 DEF Stirred, ListReq, stay
  <2>5. /\ req' \in ListReq /\ req'.steady = T /\ req'.seen = req.seen
        /\ req'.total = req.total /\ req'.offset = req.offset
    BY <2>3, <2>4 DEF ListReq
  <2>6. ListTypes'
    BY <1>2, <2>1, <2>5 DEF ListTypes
  <2> QED BY <1>2, <1>3, <2>5, <2>6 DEF FileInv, ListReq
<1>6. CASE req.kind \notin {"export", "list"}
  <2>1. req' = req \/ req' = [req EXCEPT !.calm = FALSE]
    BY <1>1, <1>6 DEF Store, Change, Stirred, Stays
  <2>2. req'.kind = req.kind
    BY <2>1 DEF IInv, RequestFine
  <2> QED BY <1>2, <1>3, <1>6, <2>2 DEF FileInv
<1> QED BY <1>4, <1>5, <1>6

LEMMA ListFile == ASSUME IInv, FileInv, List PROVE FileInv'
<1>1. UNCHANGED <<dbVars, page>>
  BY DEF List, AskList, ListCount, ListRows, NextPage
<1>2. stored' = stored /\ stored \in SUBSET Invoices
  BY <1>1, NothingWritten DEF IInv
<1>3. Cardinality(Invoices) \in Nat /\ 0 \in 0 .. Cardinality(Invoices)
  BY Counts
<1>4. SUFFICES req'.kind = "list" /\ ListTypes'
  BY <1>1 DEF FileInv, Tables, dbVars
<1>5. req.kind = "list" => req \in ListReq /\ ListTypes
  BY DEF FileInv, IInv, RequestFine
<1>6. CASE \E f \in Filters, sort \in Sorts : AskList(f, sort)
  <2>1. PICK f \in Filters, sort \in Sorts : AskList(f, sort)
    BY <1>6
  <2>2. Matching(f) \subseteq stored
    BY DEF Matching, Selected
  <2>3. /\ req'.kind = "list" /\ req'.seen = {} /\ req'.steady = Matching(f)
        /\ req'.total = 0 /\ req'.offset = 0
    BY <2>1 DEF AskList
  <2> QED BY <1>2, <1>3, <2>2, <2>3 DEF ListTypes
<1>7. CASE ListCount
  <2>1. Cardinality(Selected(req.sel)) \in 0 .. Cardinality(Invoices)
    <3>1. Selected(req.sel) \in SUBSET Invoices
      BY SelectedStored
    <3> QED BY <1>3, <3>1, Counts
  <2>2. /\ req'.kind = "list" /\ req'.seen = req.seen /\ req'.steady = req.steady
        /\ req'.total = Cardinality(Selected(req.sel)) /\ req'.offset = req.offset
    BY <1>5, <1>7 DEF ListCount, ListReq
  <2> QED BY <1>2, <1>5, <1>7, <2>1, <2>2 DEF ListTypes, ListCount
<1>8. CASE ListRows
  <2>1. PICK more : more = Slice(req.sort, Selected(req.sel), req.offset, Limit)
    OBVIOUS
  <2>2. more \subseteq stored
    BY <2>1 DEF Slice, Selected
  <2>3. /\ req'.kind = "list" /\ req'.seen = req.seen \cup more /\ req'.steady = req.steady
        /\ req'.total = req.total /\ req'.offset = req.offset
    BY <1>5, <1>8, <2>1 DEF ListRows, ListReq
  <2> QED BY <1>2, <1>5, <1>8, <2>2, <2>3 DEF ListTypes, ListRows
<1>9. CASE NextPage
  <2>1. req.kind = "list" /\ req.step = "complete" /\ ~(req.offset + Limit >= req.total)
    BY <1>9 DEF NextPage, Answered
  <2>2. req.offset + Limit \in 0 .. Cardinality(Invoices)
    BY <1>3, <1>5, <2>1, Sizes DEF ListTypes
  <2>3. /\ req'.kind = "list" /\ req'.seen = req.seen /\ req'.steady = req.steady
        /\ req'.total = req.total /\ req'.offset = req.offset + Limit
    BY <1>5, <1>9 DEF NextPage, ListReq
  <2> QED BY <1>2, <1>5, <2>1, <2>2, <2>3 DEF ListTypes
<1> QED BY <1>6, <1>7, <1>8, <1>9 DEF List

LEMMA OtherFile == ASSUME IInv, FileInv, Summary \/ Reconcile \/ Answer \/ Fail PROVE FileInv'
<1>1. UNCHANGED <<dbVars, page>>
  BY DEF Summary, AskSummary, SummaryGroups, SummaryTotal, Reconcile, AskReconcile, FindGaps,
         FindReplaced, Answer, Fail
<1>2. req'.kind \in {"none", "summary", "reconcile"}
  <2>1. CASE Summary
    <3>1. CASE \E f \in Filters : AskSummary(f)
      BY <3>1 DEF AskSummary
    <3>2. CASE SummaryGroups \/ SummaryTotal
      <4>1. req.kind = "summary" /\ "kind" \in DOMAIN req
        BY <3>2 DEF SummaryGroups, SummaryTotal, IInv, RequestFine
      <4> QED BY <3>2, <4>1 DEF SummaryGroups, SummaryTotal
    <3> QED BY <2>1, <3>1, <3>2 DEF Summary
  <2>2. CASE Reconcile
    <3>1. CASE \E f \in Filters : AskReconcile(f)
      BY <3>1 DEF AskReconcile
    <3>2. CASE FindGaps \/ FindReplaced
      <4>1. req.kind = "reconcile" /\ "kind" \in DOMAIN req
        BY <3>2 DEF FindGaps, FindReplaced, IInv, RequestFine
      <4> QED BY <3>2, <4>1 DEF FindGaps, FindReplaced
    <3> QED BY <2>2, <3>1, <3>2 DEF Reconcile
  <2>3. CASE Answer \/ Fail
    BY <2>3 DEF Answer, Fail, NoReq
  <2> QED BY <2>1, <2>2, <2>3
<1> QED BY <1>1, <1>2 DEF FileInv, Tables, dbVars

LEMMA PageKeeps == ASSUME IInv, FileInv, Browser PROVE page' \in Pages
<1>1. page \in Pages
  BY DEF FileInv
<1>2. \A f : Cardinality(Matching(f)) \in 0 .. Cardinality(Invoices)
  <2> SUFFICES ASSUME NEW f PROVE Cardinality(Matching(f)) \in 0 .. Cardinality(Invoices)
    OBVIOUS
  <2>1. Matching(f) \in SUBSET Invoices
    BY SelectedStored DEF Matching
  <2> QED BY <2>1, Counts
<1>3. Closed \in Pages
  BY DEF Closed, Pages
<1>4. CASE OpenPage
  BY <1>3, <1>4 DEF OpenPage, Pages
<1>5. CASE LeavePage
  BY <1>3, <1>5 DEF LeavePage
<1>6. CASE Refetch
  BY <1>1, <1>6 DEF Refetch, Pages
<1>7. CASE ReadCount
  <2>1. PICK c \in 0 .. Cardinality(Invoices) : c = Cardinality(Matching(ViewFilter))
    BY <1>2
  <2>2. page' = [page EXCEPT !.fetch = "read", !.read = c]
    BY <1>7, <2>1 DEF ReadCount
  <2> QED BY <1>1, <2>2 DEF Pages
<1>8. CASE ShowCount
  <2>1. PICK owed \in {None, page.owed} :
          page' = [page EXCEPT !.fetch = "none", !.read = None, !.count = page.read, !.error = FALSE,
                               !.owed = owed]
    BY <1>8 DEF ShowCount
  <2> QED BY <1>1, <2>1 DEF Pages
<1>9. CASE FetchFails
  BY <1>1, <1>9 DEF FetchFails, Pages
<1>10. CASE StartRun \/ RunEnds
  BY <1>1, <1>10 DEF StartRun, RunEnds, Pages
<1>11. CASE RunIsDone
  <2>1. Invalidated(page) \in Pages
    BY <1>1 DEF Invalidated, Pages
  <2>2. PICK p \in Pages, owed \in {None} \cup 0 .. Cardinality(Invoices) :
          p = Invalidated(page) /\ page' = [p EXCEPT !.run = "ended", !.owed = owed]
    BY <1>2, <1>11, <2>1 DEF RunIsDone
  <2> QED BY <2>2 DEF Pages
<1> QED BY <1>4, <1>5, <1>6, <1>7, <1>8, <1>9, <1>10, <1>11 DEF Browser

LEMMA BrowserFile ==
  ASSUME IInv, FileInv, UNCHANGED <<dbVars, req>>, page' \in Pages
  PROVE  FileInv'
<1>1. stored' = stored /\ req' = req /\ \A sel : Selected(sel)' = Selected(sel)
  BY NothingWritten
<1>2. ListTypes => ListTypes'
  BY <1>1 DEF ListTypes
<1>3. ExportFine => ExportFine'
  BY <1>1 DEF ExportFine
<1> QED BY <1>1, <1>2, <1>3 DEF FileInv, Tables, dbVars

LEMMA FileStarts == Init => FileInv
<1> SUFFICES ASSUME Init PROVE FileInv
  OBVIOUS
<1>1. Tables
  BY ReadingAssumption DEF Init, Tables
<1>2. page \in Pages
  BY DEF Init, Closed, Pages
<1>3. req.kind = "none"
  BY DEF Init, NoReq
<1> QED BY <1>1, <1>2, <1>3 DEF FileInv

LEMMA FileKeeps == ASSUME IInv, FileInv, [Next]_vars PROVE FileInv'
<1>1. CASE Sync
  BY <1>1, SyncFile
<1>2. CASE Export
  <2>1. CASE \E sel \in Selections, format \in {"flat", "zip", "converted"} : Exporting(sel, format)
    BY <2>1, RequestStarts
  <2> QED BY <1>2, <2>1, BatchRead, LinesWritten, BatchConverted, DocumentsWritten
          DEF Export, AskConvert, AskExport
<1>3. CASE List
  BY <1>3, ListFile
<1>4. CASE Summary \/ Reconcile \/ Answer \/ Fail
  BY <1>4, OtherFile
<1>5. CASE Browser
  <2>1. UNCHANGED <<dbVars, req>>
    BY <1>5 DEF Browser, OpenPage, LeavePage, Refetch, ReadCount, ShowCount, FetchFails,
                StartRun, RunEnds, RunIsDone
  <2> QED BY <1>5, <2>1, PageKeeps, BrowserFile
<1>6. CASE UNCHANGED vars
  BY <1>6, BrowserFile DEF vars, FileInv
<1> QED BY <1>1, <1>2, <1>3, <1>4, <1>5, <1>6 DEF Next

\* The invariant of the files, the types of the page and of the list.
THEOREM FileInvariance == Spec => [](IInv /\ FileInv)
<1>1. Init => IInv /\ FileInv
  BY InitSound, FileStarts
<1>2. IInv /\ FileInv /\ [Next]_vars => (IInv /\ FileInv)'
  BY NextSound, FileKeeps
<1> QED BY <1>1, <1>2, PTL DEF Spec

-----------------------------------------------------------------------------
(***************************************************************************)
(* What a complete export has                                              *)
(***************************************************************************)
\* Rows of one invoice with lines of their own are as many as their lines.
LEMMA AsManyLines ==
  ASSUME NEW file \in Seq(Row), AllLinesOnce(file), NEW i
  PROVE  LET rows == {n \in DOMAIN file : file[n].of = i}
         IN Cardinality(rows) = Cardinality({file[n].line : n \in rows})
<1> DEFINE rows == {n \in DOMAIN file : file[n].of = i}
           lines == {file[n].line : n \in rows}
           g == [n \in rows |-> file[n].line]
<1>1. IsFiniteSet(rows)
  <2>1. Len(file) \in Nat /\ DOMAIN file = 1 .. Len(file)
    OBVIOUS
  <2>2. IsFiniteSet(1 .. Len(file))
    BY <2>1, FS_Interval
  <2> QED BY <2>1, <2>2, FS_Subset
<1>2. \A m, n \in rows : file[m].line = file[n].line => m = n
  BY DEF AllLinesOnce
<1> HIDE DEF rows
<1>3. /\ g \in [rows -> lines] /\ \A n \in rows : g[n] = file[n].line
      /\ \A x \in lines : \E n \in rows : g[n] = x
  OBVIOUS
<1> HIDE DEF g, lines
<1>4. g \in Injection(rows, lines) /\ g \in Surjection(rows, lines)
  BY <1>2, <1>3 DEF Injection, IsInjective, Surjection
<1>5. IsFiniteSet(lines)
  BY <1>1, <1>4, FS_Surjection
<1>6. Cardinality(rows) = Cardinality(lines)
  BY <1>4, <1>5, FS_Injection
<1> QED BY <1>6 DEF rows, lines

LEMMA AtMostOne ==
  ASSUME NEW file \in Seq(Row), OneEach(file), NEW i
  PROVE  Cardinality({n \in DOMAIN file : file[n].of = i}) <= 1
<1> DEFINE rows == {n \in DOMAIN file : file[n].of = i}
<1>1. \A m, n \in rows : m = n
  BY DEF OneEach
<1> HIDE DEF rows
<1>2. Cardinality(rows) <= 1
  <2>1. CASE rows = {}
    BY <2>1, FS_EmptySet
  <2>2. CASE rows # {}
    <3>1. PICK n : n \in rows
      BY <2>2
    <3>2. rows = {n}
      BY <1>1, <3>1
    <3>3. Cardinality({n}) = 1
      BY FS_Singleton
    <3> QED BY <3>2, <3>3
  <2> QED BY <2>1, <2>2
<1> QED BY <1>2 DEF rows

LEMMA AllKept ==
  ASSUME IInv, FileInv, req.kind = "export", req.step = "complete"
  PROVE  KeepsAll
<1>1. req \in ExportReq /\ FileFine(req.format, req.file, req.names) /\ CursorFine(req)
  BY DEF FileInv, ExportFine
<1>2. PICK file \in Seq(Row), names \in Seq(Nat) : file = req.file /\ names = req.names
  BY <1>1, BatchRanges
<1>3. req.steady \subseteq {file[n].of : n \in DOMAIN file}
  BY <1>1, <1>2 DEF CursorFine, Ofs
<1>4. \A i : OfFile(i) = {n \in DOMAIN file : file[n].of = i}
  BY <1>2 DEF OfFile
<1>5. ASSUME NEW i \in Invoices, req.format = "flat"
      PROVE  LET lines == {file[n].line : n \in OfFile(i)}
             IN Cardinality(OfFile(i)) = Cardinality(lines) /\ lines \in {{}, {0}, 1 .. Len(Lines[i])}
  <2> DEFINE rows == {n \in DOMAIN file : file[n].of = i}
             lines == {file[n].line : n \in rows}
  <2>1. AllLinesOnce(file)
    BY <1>1, <1>2, <1>5 DEF FileFine
  <2>2. Cardinality(rows) = Cardinality(lines)
    BY <2>1, AsManyLines
  <2>3. lines \in {{}, {0}, 1 .. Len(Lines[i])}
    <3>1. CASE i \in Ofs(file)
      BY <2>1, <3>1 DEF AllLinesOnce, LinesShown
    <3>2. CASE i \notin Ofs(file)
      BY <3>2 DEF Ofs
    <3> QED BY <3>1, <3>2
  <2> HIDE DEF rows
  <2>4. OfFile(i) = rows
    BY <1>4 DEF rows
  <2> QED BY <2>2, <2>3, <2>4
<1>6. ASSUME NEW i \in Invoices, req.format # "flat"
      PROVE  Cardinality(OfFile(i)) <= 1
  <2>1. OneEach(file)
    BY <1>1, <1>2, <1>6 DEF FileFine
  <2> QED BY <1>4, <2>1, AtMostOne
<1>7. ASSUME req.format = "zip", NEW m \in DOMAIN file, NEW n \in DOMAIN file, m # n
      PROVE  <<InvoiceFileStem(file[m].of), names[m]>> # <<InvoiceFileStem(file[n].of), names[n]>>
  <2>1. Named(file, names)
    BY <1>1, <1>2, <1>7 DEF FileFine
  <2>2. m < n \/ n < m
    <3>1. Len(file) \in Nat /\ DOMAIN file = 1 .. Len(file)
      OBVIOUS
    <3> QED BY <1>7, <3>1
  <2>3. InvoiceFileStem(file[m].of) = InvoiceFileStem(file[n].of) => names[m] # names[n]
    BY <2>1, <2>2, NamesDiffer
  <2>4. PICK a, b, c, d : /\ a = InvoiceFileStem(file[m].of) /\ b = InvoiceFileStem(file[n].of)
                          /\ c = names[m] /\ d = names[n]
    OBVIOUS
  <2>5. ~(a = b /\ c = d)
    BY <2>3, <2>4
  <2>6. <<a, c>> # <<b, d>>
    BY <2>5
  <2> QED BY <2>4, <2>6
<1>8. ASSUME NEW i \in Invoices
      PROVE  IF req.format = "flat"
             THEN LET lines == {req.file[n].line : n \in OfFile(i)}
                  IN Cardinality(OfFile(i)) = Cardinality(lines) /\ lines \in {{}, {0}, 1 .. Len(Lines[i])}
             ELSE Cardinality(OfFile(i)) <= 1
  BY <1>2, <1>5, <1>6
<1>9. req.format = "zip" =>
        \A m, n \in DOMAIN req.file : m # n =>
          <<InvoiceFileStem(req.file[m].of), req.names[m]>> # <<InvoiceFileStem(req.file[n].of), req.names[n]>>
  BY <1>2, <1>7
<1>10. req.steady \subseteq {req.file[n].of : n \in DOMAIN req.file}
  BY <1>2, <1>3
<1> QED BY <1>8, <1>9, <1>10 DEF KeepsAll

LEMMA Types == ASSUME IInv, FileInv PROVE TypeOK
<1>1. /\ stored \subseteq Invoices /\ \A i \in Invoices : tthai[i] \in Codes[i] \cup {Null}
      /\ changes \in 0 .. MaxChanges
  BY DEF IInv, FileInv, Tables
<1>2. ASSUME req.kind = "export"
      PROVE  /\ req.step \in {"rows", "lines", "complete"}
             /\ req.cursor \in Invoices \cup {None}
             /\ ToSet(req.batch) \subseteq stored /\ Len(req.batch) <= PageSize
             /\ \A i \in ToSet(req.batch) : Beyond(req.cursor, i)
             /\ \A n \in DOMAIN req.file : req.file[n].of \in stored
  <2>1. /\ req \in ExportReq /\ CursorFine(req)
        /\ Ofs(req.file) \subseteq stored /\ ToSet(req.batch) \subseteq stored
    BY <1>2 DEF FileInv, ExportFine
  <2>2. req.step \in {"rows", "lines", "complete"} /\ req.cursor \in Invoices \cup {None}
    BY <2>1 DEF ExportReq
  <2>3. ASSUME NEW i \in ToSet(req.batch) PROVE Beyond(req.cursor, i)
    <3>1. PICK n \in 1 .. Len(req.batch) : req.batch[n] = i /\ i \in Invoices
      BY <2>1, BatchRanges
    <3>2. Ahead(req.cursor, i)
      BY <2>1, <3>1 DEF CursorFine
    <3> QED BY <2>2, <3>1, <3>2, NewerFacts DEF Ahead, Beyond
  <2>4. \A n \in DOMAIN req.file : req.file[n].of \in stored
    BY <2>1 DEF Ofs
  <2> QED BY <2>1, <2>2, <2>3, <2>4 DEF CursorFine
<1>3. ASSUME req.kind = "list"
      PROVE  req.step \in {"count", "rows", "complete"} /\ ListTypes
  BY <1>3 DEF FileInv, IInv, RequestFine, ListReq
<1>4. page \in Pages
  BY DEF FileInv
<1> QED BY <1>1, <1>2, <1>3, <1>4 DEF TypeOK, ListTypes, Pages

\* A complete export has every invoice that was there when it began and stayed
\* selected, once, with all its lines or an empty one, and in a zip under a
\* name of its own; for any invoices, any size of a batch and whatever is
\* stored or changed between two batches (iterateInvoices, uniqueName).
THEOREM ExportIsWhole == Spec => []ExportInv
<1>1. IInv /\ FileInv => ExportInv
  BY Types, AllKept DEF ExportInv
<1> QED BY <1>1, FileInvariance, PTL

\* What a summary and a report say is right, whatever is written meanwhile.
THEOREM ReportsHold == Spec => []ReportsAreRight
<1>1. SummaryAddsUp /\ GapsAreReal => ReportsAreRight
  BY DEF ReportsAreRight
<1> QED BY <1>1, SummaryIsWhole, GapsShownAreReal, PTL
=============================================================================
