-------------------------- MODULE FieldHistory_proofs --------------------------
(***************************************************************************)
(* Proofs about FieldHistory, for any texts and widths, any changelog and  *)
(* any number of collections: what is derived lies end to end, ends at the *)
(* current value, and of a complete changelog tells the truth.             *)
(***************************************************************************)
EXTENDS FieldHistory, TLAPS, FiniteSetTheorems, SequenceTheorems

(* The inductive invariant behind the properties.                          *)

(* The changelog is in the order of time, and its ids count from 1. *)
Chronicle ==
    /\ truth[now] = value /\ IsFiniteSet(log)
    /\ \A h \in log : h.at \in 1 .. now /\ h.id \in 1 .. Cardinality(log)
    /\ \A g, h \in log : (g.id = h.id => g = h) /\ (g.id < h.id => g.at <= h.at)
    /\ log # {} => \E h \in log : h.id = 1

(* h is what the changelog says last of the instant t. *)
IsLatest(h, t) == h.at <= t /\ \A g \in log : g.at <= t => g.id <= h.id

(* A field that never changed silently had the value its changelog tells. *)
Truthful == ~silent => \A t \in 0 .. now :
                /\ \A h \in log : IsLatest(h, t) => truth[t] = h.to
                /\ (\A h \in log : t < h.at) =>
                      \A h \in log : h.id = 1 => truth[t] = h.from
                /\ log = {} => truth[t] = value

(* The rows are the histories served of what had happened when a run read. *)
Collected ==
    /\ asOf <= now
    /\ rows = {Row(h) : h \in {g \in Served : g.at <= asOf}}
    /\ asOf > 0 => created <= asOf /\ current = truth[asOf]
    /\ asOf = 0 => phase = "idle" /\ hist = {} /\ firstDone = 0 /\ current = None

(* Intervals that lie end to end from creation on. *)
Laid(I) == /\ I # {} => \E i \in I : i.from = created
           /\ \A i \in I : /\ i.from \in created .. MaxTime
                           /\ i.to = EndOf({j.from : j \in I}, i.from)
           /\ \A i, j \in I : i.from = j.from => i = j

(* What is stored was derived, and once it was derived, from these rows. *)
Stands == /\ Laid(hist) /\ cats = MergeCategories(hist)
          /\ Derived => \E o \in Orders(rows) : hist = BuildIntervals(rows, o)

(* A first_done_at that is set was right even before it is set anew. *)
NeverWrong == Complete /\ storage = "COLUMN" /\ Plain => firstDone \in {0} \cup DoneAt

HistoryInv == /\ TypeOK /\ Chronicle /\ Truthful /\ Collected /\ Stands
              /\ NeverWrong /\ FirstDoneIsFirst
-----------------------------------------------------------------------------
(* What holds of some natural number holds of a smallest one. *)
LEMMA Smallest ==
  ASSUME NEW S \in SUBSET Nat, NEW s \in S
  PROVE  \E m \in S : \A k \in S : m <= k
<1> DEFINE R == {p \in Nat \X Nat : p[1] < p[2]}
<1>1. IsWellFoundedOn(R, Nat)
  <2>1. R = OpToRel(<, Nat)
    BY Zenon DEF OpToRel
  <2> QED  BY <2>1, NatLessThanWellFounded
<1>2. PICK x \in S : \A y \in S : ~ (<<y, x>> \in R)
  BY <1>1, WFMin, Zenon
<1>3. \A y \in S : ~ (y < x)
  <2> SUFFICES ASSUME NEW y \in S, y < x PROVE FALSE
    OBVIOUS
  <2>1. <<y, x>> \in Nat \X Nat /\ <<y, x>>[1] = y /\ <<y, x>>[2] = x
    OBVIOUS
  <2> QED  BY <1>2, <2>1
<1> QED  BY <1>3

LEMMA Largest ==
  ASSUME NEW S \in SUBSET Nat, NEW s \in S, NEW n \in Nat, \A k \in S : k <= n
  PROVE  \E m \in S : \A k \in S : k <= m
<1> DEFINE T == {n - k : k \in S}
<1>1. T \in SUBSET Nat /\ n - s \in T
  OBVIOUS
<1>2. PICK m \in T : \A k \in T : m <= k
  BY <1>1, Smallest
<1>3. PICK l \in S : m = n - l
  OBVIOUS
<1>4. \A k \in S : n - l <= n - k
  BY <1>2, <1>3
<1> QED  BY <1>4
-----------------------------------------------------------------------------
(* The size of a text is what its definition says it is: one function on   *)
(* all texts agrees with it on the texts of each length.                   *)

Texts == Seq(DOMAIN Bytes)

NextSize(f, t) == IF t = <<>> THEN 0 ELSE Bytes[Head(t)] + f[Tail(t)]

UpToLen(n) == {t \in Texts : Len(t) <= n}

Measures(f, n) == /\ f \in [UpToLen(n) -> Nat]
                  /\ \A t \in UpToLen(n) : f[t] = NextSize(f, t)

LEMMA TailOf ==
  ASSUME NEW t \in Texts
  PROVE  /\ Len(t) \in Nat
         /\ t = <<>> <=> Len(t) = 0
         /\ t # <<>> => /\ Tail(t) \in Texts /\ Len(Tail(t)) = Len(t) - 1
                        /\ Head(t) \in DOMAIN Bytes /\ Bytes[Head(t)] \in Nat \ {0}
<1>1. t # <<>> => Tail(t) \in Texts /\ Len(Tail(t)) = Len(t) - 1 /\ Head(t) \in DOMAIN Bytes
  BY HeadTailProperties DEF Texts
<1> QED  BY <1>1, EmptySeq, TextAssumption DEF Texts

LEMMA MeasureExists ==
  ASSUME NEW n \in Nat
  PROVE  \E f : Measures(f, n)
<1> DEFINE Bad == {k \in Nat : ~ \E f : Measures(f, k)}
<1> SUFFICES ASSUME n \in Bad PROVE FALSE
  OBVIOUS
<1>1. PICK m \in Bad : \A k \in Bad : m <= k
  BY Smallest
<1>2. m \in Nat /\ ~ \E f : Measures(f, m)
  OBVIOUS
<1>3. CASE m = 0
  <2> DEFINE f == [t \in UpToLen(0) |-> 0]
  <2>1. \A t \in UpToLen(0) : t = <<>>
    BY TailOf DEF UpToLen
  <2>2. Measures(f, 0)
    BY <2>1 DEF Measures, NextSize
  <2> QED  BY <1>2, <1>3, <2>2
<1>4. CASE m # 0
  <2>1. m - 1 \in Nat /\ m - 1 \notin Bad
    BY <1>1, <1>4
  <2>2. PICK f : Measures(f, m - 1)
    BY <2>1
  <2> DEFINE g == [t \in UpToLen(m) |-> NextSize(f, t)]
  <2>3. \A t \in UpToLen(m) : t # <<>> => Tail(t) \in UpToLen(m - 1) /\ Tail(t) \in UpToLen(m)
    BY <1>2, TailOf DEF UpToLen
  <2>4. \A t \in UpToLen(m) : t # <<>> => f[Tail(t)] \in Nat /\ f[Tail(t)] = NextSize(f, Tail(t))
    BY <2>2, <2>3 DEF Measures
  <2>5. \A t \in UpToLen(m) : t # <<>> => Bytes[Head(t)] \in Nat
    BY TailOf DEF UpToLen
  <2>6. g \in [UpToLen(m) -> Nat]
    BY <2>4, <2>5 DEF NextSize
  <2>7. \A t \in UpToLen(m) : g[t] = NextSize(g, t)
    BY <2>3, <2>4 DEF NextSize
  <2> QED  BY <1>2, <2>6, <2>7 DEF Measures
<1> QED  BY <1>3, <1>4

LEMMA MeasuresAgree ==
  ASSUME NEW f, NEW g, NEW n \in Nat, NEW k \in Nat, Measures(f, n), Measures(g, k),
         NEW t \in UpToLen(n) \cap UpToLen(k)
  PROVE  f[t] = g[t]
<1> DEFINE Both == {u \in UpToLen(n) \cap UpToLen(k) : f[u] # g[u]}
           Lens == {Len(u) : u \in Both}
<1> SUFFICES ASSUME t \in Both PROVE FALSE
  OBVIOUS
<1>1. Lens \in SUBSET Nat /\ Len(t) \in Lens
  BY TailOf DEF UpToLen
<1>2. PICK l \in Lens : \A j \in Lens : l <= j
  BY <1>1, Smallest
<1>3. PICK u \in Both : Len(u) = l
  OBVIOUS
<1>4. f[u] = NextSize(f, u) /\ g[u] = NextSize(g, u) /\ f[u] # g[u]
  BY DEF Measures
<1>5. u # <<>> /\ f[Tail(u)] # g[Tail(u)]
  BY <1>4 DEF NextSize
<1>6. Tail(u) \in UpToLen(n) \cap UpToLen(k) /\ Len(Tail(u)) = l - 1 /\ l \in Nat
  BY <1>3, <1>5, TailOf DEF UpToLen
<1>7. l - 1 \in Lens
  BY <1>5, <1>6
<1> HIDE DEF Lens
<1> QED  BY <1>2, <1>6, <1>7

LEMMA SizeDef ==
  /\ Size \in [Texts -> Nat]
  /\ \A t \in Texts : Size[t] = NextSize(Size, t)
<1> DEFINE M(n) == CHOOSE f : Measures(f, n)
           F    == [t \in Texts |-> M(Len(t))[t]]
<1>1. \A n \in Nat : Measures(M(n), n)
  BY MeasureExists
<1> HIDE DEF M
<1>2. ASSUME NEW t \in Texts PROVE F[t] = NextSize(F, t) /\ F[t] \in Nat
  <2>1. Len(t) \in Nat /\ t \in UpToLen(Len(t)) /\ F[t] = M(Len(t))[t]
    BY TailOf DEF UpToLen
  <2>2. Measures(M(Len(t)), Len(t))
    BY <1>1, <2>1
  <2>3. F[t] = NextSize(M(Len(t)), t) /\ F[t] \in Nat
    BY <2>1, <2>2 DEF Measures
  <2>4. CASE t # <<>>
    <3>1. Tail(t) \in Texts /\ Len(Tail(t)) \in Nat /\ Len(Tail(t)) = Len(t) - 1
      BY <2>4, TailOf
    <3>2. Tail(t) \in UpToLen(Len(t)) \cap UpToLen(Len(Tail(t)))
      BY <2>1, <3>1 DEF UpToLen
    <3>3. Measures(M(Len(Tail(t))), Len(Tail(t)))
      BY <1>1, <3>1
    <3>4. M(Len(t))[Tail(t)] = M(Len(Tail(t)))[Tail(t)]
      BY <2>1, <2>2, <3>1, <3>2, <3>3, MeasuresAgree
    <3>5. F[Tail(t)] = M(Len(Tail(t)))[Tail(t)]
      BY <3>1
    <3> QED  BY <2>3, <2>4, <3>4, <3>5 DEF NextSize
  <2> QED  BY <2>3, <2>4 DEF NextSize
<1>3. F = [t \in Texts |-> NextSize(F, t)]
  <2> DEFINE G == [t \in Texts |-> NextSize(F, t)]
  <2>1. \A t \in Texts : F[t] = G[t]
    BY <1>2
  <2> QED  BY <2>1
<1> HIDE DEF F
<1>4. Size = CHOOSE f : f = [t \in Texts |-> NextSize(f, t)]
  BY DEF Size, Texts, NextSize
<1>5. Size = [t \in Texts |-> NextSize(Size, t)]
  BY <1>3, <1>4, Zenon
<1>6. \A t \in Texts : Size[t] = NextSize(Size, t)
  BY <1>5
<1>7. ASSUME NEW t \in Texts PROVE Size[t] \in Nat
  <2> DEFINE Bad  == {u \in Texts : Size[u] \notin Nat}
             Lens == {Len(u) : u \in Bad}
  <2> SUFFICES ASSUME t \in Bad PROVE FALSE
    OBVIOUS
  <2>1. Lens \in SUBSET Nat /\ Len(t) \in Lens
    BY TailOf
  <2>2. PICK l \in Lens : \A j \in Lens : l <= j
    BY <2>1, Smallest
  <2>3. PICK u \in Bad : Len(u) = l
    OBVIOUS
  <2>4. Size[u] = NextSize(Size, u) /\ Size[u] \notin Nat /\ u \in Texts
    BY <1>6
  <2>5. u # <<>> /\ Size[Tail(u)] \notin Nat /\ Tail(u) \in Texts
    BY <2>4, TailOf DEF NextSize
  <2>6. Len(Tail(u)) = l - 1 /\ l \in Nat
    BY <2>3, <2>5, TailOf
  <2>7. l - 1 \in Lens
    BY <2>5, <2>6
  <2> HIDE DEF Lens
  <2> QED  BY <2>2, <2>6, <2>7
<1> QED  BY <1>5, <1>6, <1>7
-----------------------------------------------------------------------------
(* Texts stripped and cut.                                                 *)

LEMMA MaxOfNats ==
  ASSUME NEW S \in SUBSET Nat, NEW s \in S, NEW n \in Nat, \A k \in S : k <= n
  PROVE  Max(S) \in S /\ \A k \in S : k <= Max(S)
<1>1. PICK m \in S : \A k \in S : k <= m
  BY Largest
<1>2. \A k \in S : m >= k
  BY <1>1
<1>3. Max(S) \in S /\ \A k \in S : Max(S) >= k
  BY <1>2 DEF Max
<1> QED  BY <1>3

LEMMA MinOfNats ==
  ASSUME NEW S \in SUBSET Nat, NEW s \in S
  PROVE  Min(S) \in S /\ \A k \in S : Min(S) <= k
<1>1. PICK m \in S : \A k \in S : m <= k
  BY Smallest
<1> QED  BY <1>1 DEF Min

LEMMA PrefixOf ==
  ASSUME NEW t \in Texts, NEW k \in 0 .. Len(t)
  PROVE  /\ SubSeq(t, 1, k) \in Texts /\ Len(SubSeq(t, 1, k)) = k
         /\ \A j \in 1 .. k : SubSeq(t, 1, k)[j] = t[j]
         /\ k = Len(t) => SubSeq(t, 1, k) = t
<1>1. Len(t) \in Nat /\ \A j \in 1 .. Len(t) : t[j] \in DOMAIN Bytes
  BY TailOf, ElementOfSeq DEF Texts
<1>2. \A j \in 1 .. k : t[j] \in DOMAIN Bytes
  BY <1>1
<1>3. /\ SubSeq(t, 1, k) \in Texts
      /\ Len(SubSeq(t, 1, k)) = IF 1 <= k THEN k - 1 + 1 ELSE 0
      /\ \A j \in 1 .. k - 1 + 1 : SubSeq(t, 1, k)[j] = t[1 + j - 1]
  <2>1. 1 \in Int /\ k \in Int
    BY <1>1
  <2> QED  BY <1>2, <2>1, SubSeqProperties DEF Texts
<1>4. k - 1 + 1 = k /\ \A j \in 1 .. k : 1 + j - 1 = j
  BY <1>1
<1>5. Len(SubSeq(t, 1, k)) = k
  BY <1>1, <1>3
<1>6. k = Len(t) => SubSeq(t, 1, k) = t
  BY SubSeqFull DEF Texts
<1>7. \A j \in 1 .. k : SubSeq(t, 1, k)[j] = t[j]
  BY <1>3, <1>4
<1> QED  BY <1>3, <1>5, <1>6, <1>7

(* A stripped text neither begins nor ends in a blank. *)
LEMMA StripOf ==
  ASSUME NEW t \in Texts
  PROVE  /\ Strip(t) \in Texts
         /\ Strip(t) # <<>> => /\ Strip(t)[1] \notin Blanks
                               /\ Strip(t)[Len(Strip(t))] \notin Blanks
         /\ t # <<>> /\ t[1] \notin Blanks => \E k \in 1 .. Len(t) : Strip(t) = SubSeq(t, 1, k)
         /\ t # <<>> /\ t[1] \notin Blanks /\ t[Len(t)] \notin Blanks => Strip(t) = t
<1> DEFINE solid == {k \in DOMAIN t : t[k] \notin Blanks}
<1>1. Len(t) \in Nat /\ DOMAIN t = 1 .. Len(t) /\ \A j \in 1 .. Len(t) : t[j] \in DOMAIN Bytes
  BY TailOf, ElementOfSeq, LenProperties DEF Texts
<1>2. solid \in SUBSET Nat /\ \A k \in solid : k \in 1 .. Len(t) /\ k <= Len(t)
  BY <1>1
<1>3. CASE solid = {}
  <2>1. Strip(t) = <<>>
    BY <1>3 DEF Strip
  <2>2. <<>> \in Texts
    BY EmptySeq DEF Texts
  <2>3. t # <<>> => 1 \in DOMAIN t
    BY <1>1, TailOf
  <2> QED  BY <1>3, <2>1, <2>2, <2>3
<1>4. CASE solid # {}
  <2> DEFINE a == Min(solid)
             b == Max(solid)
  <2>1. PICK k \in solid : TRUE
    BY <1>4
  <2>2. /\ a \in solid /\ b \in solid
        /\ \A j \in solid : a <= j /\ j <= b
    <3>1. a \in solid /\ \A j \in solid : a <= j
      BY <1>2, <2>1, MinOfNats
    <3>2. b \in solid /\ \A j \in solid : j <= b
      BY <1>1, <1>2, <2>1, MaxOfNats
    <3> QED  BY <3>1, <3>2
  <2>3. Strip(t) = SubSeq(t, a, b)
    BY <1>4 DEF Strip
  <2> HIDE DEF a, b
  <2>4. a \in 1 .. Len(t) /\ b \in 1 .. Len(t) /\ a <= b /\ t[a] \notin Blanks /\ t[b] \notin Blanks
    BY <1>2, <2>2
  <2>5. \A j \in a .. b : t[j] \in DOMAIN Bytes
    BY <1>1, <2>4
  <2>6. /\ Strip(t) \in Texts /\ Len(Strip(t)) = b - a + 1
        /\ \A j \in 1 .. b - a + 1 : Strip(t)[j] = t[a + j - 1]
    <3>1. a \in Int /\ b \in Int
      BY <2>4
    <3>2. /\ SubSeq(t, a, b) \in Texts
          /\ Len(SubSeq(t, a, b)) = IF a <= b THEN b - a + 1 ELSE 0
          /\ \A j \in 1 .. b - a + 1 : SubSeq(t, a, b)[j] = t[a + j - 1]
      BY <2>5, <3>1, SubSeqProperties DEF Texts
    <3> QED  BY <2>3, <2>4, <3>2
  <2>7. Strip(t)[1] = t[a] /\ Strip(t)[Len(Strip(t))] = t[b]
    <3>1. 1 \in 1 .. b - a + 1 /\ b - a + 1 \in 1 .. b - a + 1 /\ a + 1 - 1 = a /\ a + (b - a + 1) - 1 = b
      BY <2>4
    <3> QED  BY <2>6, <3>1
  <2>8. t[1] \notin Blanks => a = 1
    <3>1. t[1] \notin Blanks => 1 \in solid
      BY <1>1, <2>4
    <3> QED  BY <2>2, <2>4, <3>1
  <2>9. t[Len(t)] \notin Blanks => b = Len(t)
    <3>1. t[Len(t)] \notin Blanks => Len(t) \in solid
      BY <1>1, <2>4
    <3> QED  BY <1>1, <2>2, <2>4, <3>1
  <2>10. SubSeq(t, 1, Len(t)) = t
    BY SubSeqFull DEF Texts
  <2> QED  BY <2>3, <2>4, <2>6, <2>7, <2>8, <2>9, <2>10
<1> QED  BY <1>3, <1>4

(* A cut leaves the beginning of the stripped text, no longer than the     *)
(* width: all of it if it fits, and something if one character does.       *)
LEMMA TruncateOf ==
  ASSUME NEW t \in Texts, NEW w \in Nat
  PROVE  /\ Size[Truncate(t, w)] <= w /\ Truncate(t, w) \in Texts
         /\ \E k \in 0 .. Len(Strip(t)) : /\ Truncate(t, w) = SubSeq(Strip(t), 1, k)
                                          /\ Size[Strip(t)] <= w => k = Len(Strip(t))
                                          /\ ColumnBytes <= w /\ Strip(t) # <<>> => k >= 1
<1> DEFINE s    == Strip(t)
           fits == {k \in 0 .. Len(s) : Size[SubSeq(s, 1, k)] <= w}
<1>1. s \in Texts /\ Len(s) \in Nat
  BY StripOf, TailOf
<1>2. Truncate(t, w) = SubSeq(s, 1, Max(fits))
  BY DEF Truncate
<1> HIDE DEF s
<1>3. \A k \in 0 .. Len(s) : SubSeq(s, 1, k) \in Texts /\ Len(SubSeq(s, 1, k)) = k
  BY <1>1, PrefixOf
<1>4. fits \in SUBSET Nat /\ \A k \in fits : k <= Len(s)
  BY <1>1
<1>5. 0 \in fits
  <2>1. SubSeq(s, 1, 0) = <<>> /\ SubSeq(s, 1, 0) \in Texts
    BY <1>1, <1>3, TailOf
  <2>2. Size[SubSeq(s, 1, 0)] = 0
    BY <2>1, SizeDef DEF NextSize
  <2> QED  BY <1>1, <2>2
<1>6. Max(fits) \in fits /\ \A k \in fits : k <= Max(fits)
  BY <1>1, <1>4, <1>5, MaxOfNats
<1> DEFINE m == Max(fits)
<1>7. m \in 0 .. Len(s) /\ Size[SubSeq(s, 1, m)] <= w
  BY <1>6
<1>8. Size[s] <= w => m = Len(s)
  <2>1. SubSeq(s, 1, Len(s)) = s
    BY <1>1, SubSeqFull DEF Texts
  <2>2. Len(s) \in 0 .. Len(s)
    BY <1>1
  <2>3. Size[s] <= w => Len(s) \in fits
    BY <2>1, <2>2
  <2> QED  BY <1>1, <1>6, <1>7, <2>3
<1>9. ColumnBytes <= w /\ s # <<>> => m >= 1
  <2> SUFFICES ASSUME ColumnBytes <= w, s # <<>> PROVE 1 \in fits
    BY <1>6, <1>7
  <2> DEFINE u == SubSeq(s, 1, 1)
  <2>1. 1 \in 0 .. Len(s)
    BY <1>1, TailOf
  <2>2. u \in Texts /\ Len(u) = 1
    BY <1>3, <2>1
  <2> HIDE DEF u
  <2>3. Size[u] = Bytes[Head(u)] + Size[Tail(u)] /\ Head(u) \in DOMAIN Bytes /\ Tail(u) \in Texts /\ Len(Tail(u)) = 0
    <3>1. u # <<>>
      BY <2>2, TailOf
    <3>2. Head(u) \in DOMAIN Bytes /\ Tail(u) \in Texts /\ Len(Tail(u)) = 0
      BY <2>2, <3>1, TailOf
    <3>3. Size[u] = NextSize(Size, u)
      BY <2>2, SizeDef
    <3> QED  BY <3>1, <3>2, <3>3 DEF NextSize
  <2>4. Size[Tail(u)] = 0
    BY <2>3, TailOf, SizeDef DEF NextSize
  <2>5. Bytes[Head(u)] <= ColumnBytes /\ Bytes[Head(u)] \in Nat /\ ColumnBytes \in Nat
    BY <2>3, TextAssumption, ValueAssumption
  <2>6. Size[u] <= w
    BY <2>3, <2>4, <2>5
  <2> QED  BY <2>1, <2>6 DEF u
<1> HIDE DEF m, fits
<1>10. Truncate(t, w) = SubSeq(s, 1, m)
  BY <1>2 DEF m
<1> QED  BY <1>3, <1>7, <1>8, <1>9, <1>10 DEF s

(* A value as a column holds it fits the column. *)
LEMMA StoredFits ==
  ASSUME NEW v \in Texts \cup {None}, NEW w \in Nat
  PROVE  /\ Stored(v, w) \in Texts \cup {None}
         /\ FitsIn(Stored(v, w), w)
<1>1. None \notin Texts
  BY ValueAssumption DEF Texts
<1>2. v # None => Truncate(v, w) \in Texts /\ Size[Truncate(v, w)] <= w
  BY TruncateOf
<1> QED  BY <1>1, <1>2 DEF Stored, FitsIn

(* What is left of v after two cuts shows v.                               *)
LEMMA ShownTwice ==
  ASSUME NEW v \in Texts \cup {None}, NEW w1 \in Nat, NEW w2 \in Nat,
         ColumnBytes <= w1, ColumnBytes <= w2
  PROVE  Shows(Stored(Stored(v, w1), w2), v)
<1>0. ColumnBytes \in Nat /\ None \notin Texts
  BY ValueAssumption DEF Texts
<1>1. CASE v = None
  BY <1>1 DEF Stored, Shows
<1>2. CASE v # None /\ Strip(v) = <<>>
  <2>1. v \in Texts /\ Len(<<>>) = 0
    BY <1>2
  <2>2. Truncate(v, w1) = SubSeq(<<>>, 1, 0)
    BY <1>2, <2>1, TruncateOf
  <2>3. Truncate(v, w1) = <<>>
    BY <2>2, SubSeqEmpty
  <2>4. Stored(v, w1) = None
    BY <2>3 DEF Stored
  <2> QED  BY <1>2, <2>4 DEF Stored, Shows
<1>3. CASE v # None /\ Strip(v) # <<>>
  <2> DEFINE s  == Strip(v)
             c1 == Truncate(v, w1)
             s2 == Strip(c1)
             c2 == Truncate(c1, w2)
  <2>1. v \in Texts /\ s \in Texts /\ Len(s) \in Nat \ {0} /\ s[1] \notin Blanks /\ s[Len(s)] \notin Blanks
    BY <1>3, StripOf, TailOf
  <2>2. PICK k1 \in 1 .. Len(s) : c1 = SubSeq(s, 1, k1) /\ (Size[s] <= w1 => k1 = Len(s))
    <3>1. PICK k \in 0 .. Len(s) : c1 = SubSeq(s, 1, k) /\ (Size[s] <= w1 => k = Len(s)) /\ k >= 1
      BY <1>3, <2>1, TruncateOf
    <3> QED  BY <2>1, <3>1
  <2> HIDE DEF c1
  <2>3. /\ c1 \in Texts /\ Len(c1) = k1 /\ \A j \in 1 .. k1 : c1[j] = s[j]
        /\ k1 = Len(s) => c1 = s
    BY <2>1, <2>2, PrefixOf
  <2>4. c1 # <<>> /\ c1[1] = s[1] /\ Stored(v, w1) = c1 /\ c1 # None
    <3>1. c1 # <<>> /\ c1[1] = s[1]
      BY <2>1, <2>2, <2>3, TailOf
    <3> QED  BY <1>0, <1>3, <2>3, <3>1 DEF Stored, c1
  <2> HIDE DEF s
  <2>5. PICK k2 \in 1 .. k1 : s2 = SubSeq(c1, 1, k2)
    BY <2>1, <2>3, <2>4, StripOf
  <2>6. s2 \in Texts /\ Len(s2) = k2 /\ \A j \in 1 .. k2 : s2[j] = c1[j]
    <3>1. k2 \in 0 .. Len(c1)
      BY <2>1, <2>2, <2>3, <2>5
    <3> HIDE DEF s2
    <3> QED  BY <2>3, <2>5, <3>1, PrefixOf
  <2>7. c1 = s => s2 = s
    BY <2>1, <2>3, <2>4, StripOf
  <2> HIDE DEF s2
  <2>8. s2 # <<>> /\ k2 \in Nat \ {0}
    <3>1. k2 \in Nat /\ k2 # 0
      BY <2>1, <2>2, <2>5
    <3> QED  BY <2>6, <3>1, TailOf
  <2>9. PICK k3 \in 1 .. k2 : c2 = SubSeq(s2, 1, k3) /\ (Size[s2] <= w2 => k3 = k2)
    <3>1. PICK k \in 0 .. Len(s2) : c2 = SubSeq(s2, 1, k) /\ (Size[s2] <= w2 => k = Len(s2)) /\ k >= 1
      BY <2>3, <2>8, TruncateOf DEF s2
    <3> QED  BY <2>5, <2>6, <3>1
  <2> HIDE DEF c2
  <2>10. c2 \in Texts /\ Len(c2) = k3 /\ (\A j \in 1 .. k3 : c2[j] = s2[j]) /\ (k3 = k2 => c2 = s2)
    <3>1. k3 \in 0 .. Len(s2)
      BY <2>6, <2>8, <2>9
    <3> QED  BY <2>6, <2>9, <3>1, PrefixOf
  <2>11. c2 # <<>> /\ c2 # None
    <3>1. k3 \in Nat /\ k3 # 0
      BY <2>8, <2>9
    <3> QED  BY <1>0, <2>10, <3>1, TailOf
  <2>12. Stored(Stored(v, w1), w2) = c2
    BY <2>4, <2>11 DEF Stored, c2
  <2>13. c2 = SubSeq(s, 1, k3)
    <3>1. k3 \in 0 .. Len(s) /\ \A j \in 1 .. k3 : j \in 1 .. k2 /\ j \in 1 .. k1
      BY <2>1, <2>2, <2>5, <2>9
    <3>2. /\ SubSeq(s, 1, k3) \in Texts /\ Len(SubSeq(s, 1, k3)) = k3
          /\ \A j \in 1 .. k3 : SubSeq(s, 1, k3)[j] = s[j]
      BY <2>1, <3>1, PrefixOf
    <3>3. \A j \in 1 .. k3 : c2[j] = s[j]
      BY <2>3, <2>6, <2>10, <3>1
    <3> QED  BY <2>10, <3>2, <3>3, SeqEqual DEF Texts
  <2>14. FitsIn(s, ColumnBytes) => c2 = s
    <3> SUFFICES ASSUME FitsIn(s, ColumnBytes) PROVE c2 = s
      OBVIOUS
    <3>1. Size[s] <= ColumnBytes /\ Size[s] \in Nat
      BY <1>0, <2>1, SizeDef DEF FitsIn
    <3>2. Size[s] <= w1 /\ Size[s] <= w2
      BY <1>0, <3>1
    <3>3. c1 = s /\ s2 = s
      BY <2>2, <2>3, <2>7, <3>2
    <3> QED  BY <2>9, <2>10, <3>2, <3>3
  <2> QED  BY <1>3, <2>10, <2>11, <2>12, <2>13, <2>14 DEF Shows, s
<1> QED  BY <1>1, <1>2, <1>3
-----------------------------------------------------------------------------
(* Intervals that lie end to end.                                          *)

(* Where an interval ends: at the next start, or never.                    *)
LEMMA EndOfIs ==
  ASSUME NEW S \in SUBSET Nat, NEW s \in Nat, s < Sentinel, \A u \in S : u < Sentinel
  PROVE  /\ EndOf(S, s) \in S \cup {Sentinel}
         /\ EndOf(S, s) \in Nat /\ s < EndOf(S, s) /\ EndOf(S, s) <= Sentinel
         /\ \A u \in S : s < u => EndOf(S, s) <= u
<1> DEFINE later == {u \in S : s < u}
<1>0. Sentinel \in Nat
  BY BoundAssumption
<1>1. CASE later = {}
  <2>1. EndOf(S, s) = Sentinel
    BY <1>1 DEF EndOf
  <2>2. \A u \in S : ~ (s < u)
    BY <1>1
  <2> QED  BY <1>0, <2>1, <2>2
<1>2. CASE later # {}
  <2>1. PICK u \in later : \A w \in later : u <= w
    <3>1. later \in SUBSET Nat /\ \E k : k \in later
      BY <1>2
    <3> QED  BY <3>1, Smallest
  <2>2. EndOf(S, s) = CHOOSE v \in later : \A w \in later : v <= w
    BY <1>2 DEF EndOf
  <2>3. EndOf(S, s) \in later /\ \A w \in later : EndOf(S, s) <= w
    BY <2>1, <2>2, Zenon
  <2>4. EndOf(S, s) \in S /\ s < EndOf(S, s)
    BY <2>3
  <2>5. EndOf(S, s) \in Nat /\ EndOf(S, s) < Sentinel
    BY <2>4
  <2>6. \A v \in S : s < v => EndOf(S, s) <= v
    BY <2>3
  <2> QED  BY <1>0, <2>4, <2>5, <2>6
<1> QED  BY <1>1, <1>2

CreatedInTime == created \in 1 .. 2 /\ created <= MaxTime

(* At each instant from creation on exactly one of them holds, and an      *)
(* earlier one is over where a later one begins.                           *)
LEMMA LaidFacts ==
  ASSUME CreatedInTime, NEW I, Laid(I)
  PROVE  /\ \A i \in I : /\ i.from \in Nat /\ i.to \in Nat /\ created <= i.from /\ i.from <= MaxTime
                         /\ i.from < i.to /\ i.to <= Sentinel
         /\ \A i, j \in I : i.from < j.from => i.to <= j.from
         /\ I # {} => \A t \in created .. Sentinel - 1 :
                         \E i \in I : Covers(i, t) /\ \A j \in I : Covers(j, t) => j = i
<1> DEFINE S == {j.from : j \in I}
<1>1. created \in Nat /\ MaxTime \in Nat /\ Sentinel \in Nat /\ MaxTime < Sentinel
  BY BoundAssumption DEF CreatedInTime
<1>2. S \in SUBSET Nat /\ \A u \in S : created <= u /\ u <= MaxTime /\ u < Sentinel
  <2>1. \A i \in I : i.from \in created .. MaxTime
    BY DEF Laid
  <2>2. \A k \in created .. MaxTime : k \in Nat /\ created <= k /\ k <= MaxTime /\ k < Sentinel
    BY <1>1
  <2> QED  BY <2>1, <2>2
<1>3. \A i \in I : i.from \in S /\ i.to = EndOf(S, i.from)
  BY DEF Laid
<1>4. ASSUME NEW i \in I
      PROVE  /\ i.from \in Nat /\ i.to \in Nat /\ created <= i.from /\ i.from <= MaxTime
             /\ i.from < i.to /\ i.to <= Sentinel /\ i.to \in S \cup {Sentinel}
             /\ \A u \in S : i.from < u => i.to <= u
  <2>1. i.from \in S /\ i.to = EndOf(S, i.from)
    BY <1>3
  <2> HIDE DEF S
  <2>2. i.from \in Nat /\ created <= i.from /\ i.from <= MaxTime /\ i.from < Sentinel
    BY <1>2, <2>1
  <2>3. \A u \in S : u < Sentinel
    BY <1>2
  <2>4. /\ EndOf(S, i.from) \in S \cup {Sentinel} /\ EndOf(S, i.from) \in Nat
        /\ i.from < EndOf(S, i.from) /\ EndOf(S, i.from) <= Sentinel
        /\ \A u \in S : i.from < u => EndOf(S, i.from) <= u
    BY <1>2, <2>2, <2>3, EndOfIs
  <2> QED  BY <2>1, <2>2, <2>4
<1>5. \A i, j \in I : i.from < j.from => i.to <= j.from
  BY <1>3, <1>4
<1>6. ASSUME NEW t \in created .. Sentinel - 1, I # {}
      PROVE  \E i \in I : Covers(i, t) /\ \A j \in I : Covers(j, t) => j = i
  <2> DEFINE T == {u \in S : u <= t}
  <2>1. created \in T /\ T \in SUBSET Nat /\ t \in Nat
    BY <1>1, <1>2, <1>6 DEF Laid
  <2>2. PICK m \in T : \A k \in T : k <= m
    <3> HIDE DEF S
    <3> QED  BY <2>1, Largest
  <2>3. PICK i \in I : i.from = m
    OBVIOUS
  <2>4. Covers(i, t)
    <3>1. i.to <= t => i.to \in S
      BY <1>1, <1>4, <2>1
    <3>2. i.to <= t => i.to \in T
      BY <3>1
    <3>3. i.to \in Nat /\ i.from < i.to /\ i.from \in Nat /\ m <= t
      BY <1>4
    <3> HIDE DEF T
    <3> QED  BY <2>1, <2>2, <2>3, <3>2, <3>3 DEF Covers
  <2>5. ASSUME NEW j \in I, Covers(j, t) PROVE j = i
    <3>1. j.from \in T /\ t < j.to
      BY <1>3, <2>5 DEF Covers
    <3>2. j.from <= m
      BY <2>2, <3>1
    <3>3. j.from < m => j.to <= m
      BY <1>5, <2>3
    <3>4. m <= t /\ m \in Nat /\ t \in Nat /\ j.to \in Nat /\ j.from \in Nat
      BY <1>4, <2>1, <2>2
    <3>5. j.from = i.from
      BY <2>3, <3>1, <3>2, <3>3, <3>4
    <3> QED  BY <3>5 DEF Laid
  <2> QED  BY <2>4, <2>5
<1> QED  BY <1>4, <1>5, <1>6

LEMMA LaidTiles ==
  ASSUME CreatedInTime, NEW I, Laid(I)
  PROVE  Tiles(I)
<1>1. \A i \in I : created <= i.from /\ i.from < i.to
  BY LaidFacts
<1>2. ASSUME I # {}, NEW t \in created .. Sentinel - 1
      PROVE  Cardinality({i \in I : Covers(i, t)}) = 1
  <2>1. PICK i \in I : Covers(i, t) /\ \A j \in I : Covers(j, t) => j = i
    BY <1>2, LaidFacts
  <2>2. {j \in I : Covers(j, t)} = {i}
    BY <2>1
  <2> QED  BY <2>2, FS_Singleton
<1> QED  BY <1>1, <1>2 DEF Tiles

(* Merging lays the categories end to end, and they follow the intervals.  *)
LEMMA MergedLaid ==
  ASSUME CreatedInTime, NEW I, Laid(I)
  PROVE  /\ Laid(MergeCategories(I))
         /\ \A i \in I, c \in MergeCategories(I) :
               (i.from < c.to /\ c.from < i.to) => c.val = Category(i.val)
         /\ \A c, d \in MergeCategories(I) : c.to = d.from => c.val # d.val
         /\ I # {} => MergeCategories(I) # {}
         /\ \A c \in MergeCategories(I) : \E i \in I : c.from = i.from /\ c.val = Category(i.val)
<1> DEFINE heads  == {i \in I : ~Continues(I, i)}
           S      == {j.from : j \in heads}
           New(i) == [from |-> i.from, to |-> EndOf(S, i.from), val |-> Category(i.val)]
           M      == MergeCategories(I)
<1>0. created \in Nat /\ MaxTime \in Nat /\ Sentinel \in Nat /\ MaxTime < Sentinel
  BY BoundAssumption DEF CreatedInTime
<1>1. M = {New(i) : i \in heads}
  BY DEF MergeCategories
<1>2. S \in SUBSET Nat /\ \A u \in S : created <= u /\ u <= MaxTime /\ u < Sentinel
  BY <1>0, LaidFacts
<1>3. \A g \in heads : g \in I /\ g.from \in S
  OBVIOUS
<1> HIDE DEF M
<1>4. \A c \in M : \E g \in heads : c.from = g.from /\ c.to = EndOf(S, g.from) /\ c.val = Category(g.val)
  <2> HIDE DEF S, heads
  <2> QED  BY <1>1
<1>5. \A g \in heads : \E c \in M : c.from = g.from
  <2> SUFFICES ASSUME NEW g \in heads PROVE \E c \in M : c.from = g.from
    OBVIOUS
  <2>1. New(g) \in M
    <3> HIDE DEF New, heads
    <3> QED  BY <1>1
  <2>2. New(g).from = g.from
    OBVIOUS
  <2> QED  BY <2>1, <2>2
<1>6. {c.from : c \in M} = S
  <2> HIDE DEF heads
  <2>1. \A c \in M : c.from \in S
    BY <1>4
  <2>2. \A u \in S : \E c \in M : c.from = u
    BY <1>5
  <2> QED  BY <2>1, <2>2
<1>7. ASSUME NEW i \in I, i.from = created PROVE i \in heads
  <2>1. \A j \in I : j.to # created
    BY <1>0, LaidFacts
  <2> QED  BY <1>7, <2>1 DEF Continues
<1>8. ASSUME NEW g \in heads, NEW i \in I, g.from <= i.from, i.from < EndOf(S, g.from)
      PROVE  Category(i.val) = Category(g.val)
  <2> DEFINE Bad    == {j \in I : /\ g.from <= j.from /\ j.from < EndOf(S, g.from)
                                  /\ Category(j.val) # Category(g.val)}
             Begins == {j.from : j \in Bad}
  <2> SUFFICES ASSUME i \in Bad PROVE FALSE
    BY <1>8
  <2>1. Begins \in SUBSET Nat /\ i.from \in Begins
    <3>1. \A j \in Bad : j.from \in Nat
      BY LaidFacts
    <3> HIDE DEF Bad
    <3> QED  BY <3>1
  <2>2. PICK m \in Begins : \A k \in Begins : m <= k
    <3> HIDE DEF Begins
    <3> QED  BY <2>1, Smallest
  <2>3. PICK j \in Bad : j.from = m
    OBVIOUS
  <2>4. g \in I /\ g.from \in Nat /\ j \in I /\ j.from \in Nat
    BY LaidFacts
  <2>5. g.from < j.from
    <3>1. j.from # g.from
      BY <2>3, <2>4 DEF Laid
    <3> QED  BY <2>3, <2>4, <3>1
  <2>6. j \notin heads
    <3>1. EndOf(S, g.from) \in Nat /\ \A u \in S : g.from < u => EndOf(S, g.from) <= u
      <4>1. g.from < Sentinel
        BY <1>0, <2>4, LaidFacts
      <4> HIDE DEF S
      <4> QED  BY <1>0, <1>2, <2>4, <4>1, EndOfIs
    <3>2. j.from < EndOf(S, g.from)
      OBVIOUS
    <3>3. j.from \notin S
      <4> HIDE DEF S
      <4> QED  BY <2>4, <2>5, <3>1, <3>2
    <3> QED  BY <3>3
  <2>7. PICK h \in I : h.to = j.from /\ Category(h.val) = Category(j.val)
    BY <2>4, <2>6 DEF Continues
  <2>8. h.from \in Nat /\ h.from < j.from /\ (h.from < g.from => h.to <= g.from)
    BY <2>4, <2>7, LaidFacts
  <2>9. g.from <= h.from
    BY <2>4, <2>5, <2>7, <2>8
  <2>10. EndOf(S, g.from) \in Nat
    <3>1. g.from < Sentinel
      BY <1>0, <2>4, LaidFacts
    <3> HIDE DEF S
    <3> QED  BY <1>0, <1>2, <2>4, <3>1, EndOfIs
  <2>11. h.from < EndOf(S, g.from) /\ Category(h.val) # Category(g.val)
    <3>1. j.from < EndOf(S, g.from) /\ Category(j.val) # Category(g.val)
      OBVIOUS
    <3> HIDE DEF S, Bad
    <3> QED  BY <2>4, <2>7, <2>8, <2>10, <3>1
  <2>12. h.from \in Begins
    BY <2>9, <2>11
  <2> HIDE DEF Begins, Bad
  <2> QED  BY <2>2, <2>3, <2>4, <2>8, <2>12
<1>9. Laid(M)
  <2>1. M # {} => \E c \in M : c.from = created
    <3>1. M # {} => I # {}
      BY <1>4
    <3>2. I # {} => \E i \in I : i.from = created
      BY DEF Laid
    <3> QED  BY <1>5, <1>7, <3>1, <3>2
  <2>2. ASSUME NEW c \in M PROVE c.from \in created .. MaxTime /\ c.to = EndOf({d.from : d \in M}, c.from)
    <3>1. PICK g \in heads : c.from = g.from /\ c.to = EndOf(S, g.from)
      BY <1>4
    <3>2. g.from \in S
      BY <1>3
    <3> HIDE DEF S
    <3>3. g.from \in created .. MaxTime
      <4>1. g.from \in Nat /\ created <= g.from /\ g.from <= MaxTime
        BY <1>2, <3>2
      <4> QED  BY <1>0, <4>1
    <3> QED  BY <1>6, <3>1, <3>3
  <2>3. ASSUME NEW c \in M, NEW d \in M, c.from = d.from PROVE c = d
    <3>1. PICK g \in heads : c = New(g)
      BY <1>1
    <3>2. PICK h \in heads : d = New(h)
      BY <1>1
    <3>3. g.from = h.from
      BY <2>3, <3>1, <3>2
    <3>4. g = h
      BY <1>3, <3>3 DEF Laid
    <3> QED  BY <3>1, <3>2, <3>4
  <2> QED  BY <2>1, <2>2, <2>3 DEF Laid
<1>10. ASSUME NEW i \in I, NEW c \in M, i.from < c.to, c.from < i.to PROVE c.val = Category(i.val)
  <2>1. PICK g \in heads : c.from = g.from /\ c.to = EndOf(S, g.from) /\ c.val = Category(g.val)
    BY <1>4
  <2>2. i.from < g.from => i.to <= g.from
    BY <1>3, LaidFacts
  <2>3. i.from \in Nat /\ i.to \in Nat /\ g.from \in Nat
    BY <1>3, LaidFacts
  <2>4. g.from <= i.from /\ i.from < EndOf(S, g.from)
    BY <1>10, <2>1, <2>2, <2>3
  <2> QED  BY <1>8, <2>1, <2>4
<1>11. ASSUME NEW c \in M, NEW d \in M, c.to = d.from PROVE c.val # d.val
  <2>1. PICK h \in heads : d.from = h.from /\ d.val = Category(h.val)
    BY <1>4
  <2>2. c.from \in Nat /\ created <= c.from /\ c.from < c.to /\ c.to = h.from /\ h.from <= MaxTime /\ h.from \in Nat
    BY <1>3, <1>9, <1>11, <2>1, LaidFacts
  <2>3. h.from - 1 \in created .. Sentinel - 1 /\ I # {}
    BY <1>0, <1>3, <2>2
  <2>4. PICK i \in I : Covers(i, h.from - 1)
    BY <2>3, LaidFacts
  <2>5. i.from \in Nat /\ i.to \in Nat /\ (i.from < h.from => i.to <= h.from)
    BY <1>3, LaidFacts
  <2>6. i.to = h.from /\ i.from < h.from
    BY <2>2, <2>4, <2>5 DEF Covers
  <2>7. Category(i.val) # Category(h.val)
    BY <2>6 DEF Continues
  <2>8. c.val = Category(i.val)
    BY <1>10, <2>2, <2>5, <2>6
  <2> QED  BY <2>1, <2>7, <2>8
<1>12. I # {} => M # {}
  BY <1>5, <1>7 DEF Laid
<1>13. \A c \in M : \E i \in I : c.from = i.from /\ c.val = Category(i.val)
  BY <1>4
<1> QED  BY <1>9, <1>10, <1>11, <1>12, <1>13 DEF M
-----------------------------------------------------------------------------
(* The rows, and what is built from them.                                  *)

LEMMA TypesOf ==
  /\ ValuesOrNone \subseteq Texts \cup {None} /\ None \notin Texts
  /\ ColumnBytes \in Nat /\ ValueBytes \in Nat /\ LogBytes \in Nat
  /\ ColumnBytes <= ValueBytes /\ ColumnBytes <= LogBytes
  /\ MaxTime \in Nat \ {0} /\ Sentinel \in Nat /\ MaxTime < Sentinel /\ Times \subseteq Nat
<1>1. ColumnBytes \in Nat /\ ValueBytes \in Nat /\ LogBytes \in Nat
  BY ValueAssumption
<1> QED  BY <1>1, ValueAssumption, BoundAssumption DEF ValuesOrNone, Texts, Times

LEMMA ItemFacts ==
  ASSUME NEW h \in Items
  PROVE  /\ h.id \in 1 .. MaxItems /\ h.at \in Times
         /\ h.from \in Texts \cup {None} /\ h.to \in Texts \cup {None}
         /\ Row(h) = [id |-> h.id, at |-> h.at, from |-> Stored(h.from, LogBytes),
                      to |-> Stored(h.to, LogBytes)]
<1>1. h.id \in 1 .. MaxItems /\ h.at \in Times /\ h.from \in ValuesOrNone /\ h.to \in ValuesOrNone
  BY DEF Items
<1>2. Row(h) = [id |-> h.id, at |-> h.at, from |-> Stored(h.from, LogBytes),
                to |-> Stored(h.to, LogBytes)]
  <2> DEFINE a == Stored(h.from, LogBytes)
             b == Stored(h.to, LogBytes)
  <2>1. Row(h) = [h EXCEPT !.from = a, !.to = b]
    BY DEF Row
  <2> HIDE DEF a, b
  <2>2. Row(h) = [id |-> h.id, at |-> h.at, from |-> a, to |-> b]
    BY <2>1 DEF Items
  <2> QED  BY <2>2 DEF a, b
<1> QED  BY <1>1, <1>2, TypesOf

(* A row is the row of a history served; of such a history there is one.   *)
LEMMA RowFacts ==
  ASSUME TypeOK, Chronicle, Collected
  PROVE  /\ \A r \in rows : \E h \in log :
               /\ h.id <= Inline /\ h.at <= asOf /\ r = Row(h) /\ r.id = h.id /\ r.at = h.at
               /\ r.from = Stored(h.from, LogBytes) /\ r.to = Stored(h.to, LogBytes)
         /\ \A h \in log : h.id <= Inline /\ h.at <= asOf => Row(h) \in rows
         /\ \A r \in rows : /\ r.at \in 1 .. MaxTime /\ r.at <= asOf
                            /\ r.from \in Texts \cup {None} /\ r.to \in Texts \cup {None}
         /\ IsFiniteSet(rows) /\ Cardinality(rows) \in Nat
<1> DEFINE Had == {g \in Served : g.at <= asOf}
<1>1. rows = {Row(h) : h \in Had}
  BY DEF Collected
<1>2. \A h \in Had : h \in log /\ h.id <= Inline /\ h.at <= asOf /\ h \in Items
  BY DEF Served, TypeOK
<1>3. \A h \in log : h.id <= Inline /\ h.at <= asOf => h \in Had
  BY DEF Served
<1>4. IsFiniteSet(rows)
  <2>1. Had \subseteq log /\ IsFiniteSet(log)
    BY DEF Chronicle, Served
  <2> HIDE DEF Had
  <2>2. IsFiniteSet(Had)
    BY <2>1, FS_Subset
  <2> DEFINE f == [h \in Had |-> Row(h)]
  <2>3. f \in Surjection(Had, rows)
    BY <1>1 DEF Surjection
  <2> QED  BY <2>2, <2>3, FS_Surjection
<1> HIDE DEF Had
<1>5. \A r \in rows : \E h \in log :
        /\ h.id <= Inline /\ h.at <= asOf /\ r = Row(h) /\ r.id = h.id /\ r.at = h.at
        /\ r.from = Stored(h.from, LogBytes) /\ r.to = Stored(h.to, LogBytes)
  <2> SUFFICES ASSUME NEW r \in rows
               PROVE  \E h \in log :
        /\ h.id <= Inline /\ h.at <= asOf /\ r = Row(h) /\ r.id = h.id /\ r.at = h.at
        /\ r.from = Stored(h.from, LogBytes) /\ r.to = Stored(h.to, LogBytes)
    OBVIOUS
  <2>1. PICK h \in Had : r = Row(h)
    BY <1>1
  <2>2. h \in log /\ h.id <= Inline /\ h.at <= asOf /\ h \in Items
    BY <1>2
  <2>3. Row(h) = [id |-> h.id, at |-> h.at, from |-> Stored(h.from, LogBytes),
                  to |-> Stored(h.to, LogBytes)]
    BY <2>2, ItemFacts
  <2> QED  BY <2>1, <2>2, <2>3
<1>6. \A h \in log : h.id <= Inline /\ h.at <= asOf => Row(h) \in rows
  BY <1>1, <1>3
<1>7. ASSUME NEW r \in rows
      PROVE  /\ r.at \in 1 .. MaxTime /\ r.at <= asOf
             /\ r.from \in Texts \cup {None} /\ r.to \in Texts \cup {None}
  <2>1. PICK h \in log : /\ h.at <= asOf /\ r.at = h.at
                         /\ r.from = Stored(h.from, LogBytes) /\ r.to = Stored(h.to, LogBytes)
    BY <1>5
  <2>2. h \in Items /\ h.at \in 1 .. now /\ now \in 0 .. MaxTime
    BY DEF TypeOK, Chronicle, Times
  <2>3. h.at \in 1 .. MaxTime
    BY <2>2, TypesOf
  <2>4. h.from \in Texts \cup {None} /\ h.to \in Texts \cup {None}
    BY <2>2, ItemFacts
  <2>5. r.from \in Texts \cup {None} /\ r.to \in Texts \cup {None}
    BY <2>1, <2>4, TypesOf, StoredFits
  <2> QED  BY <2>1, <2>3, <2>5
<1> QED  BY <1>4, <1>5, <1>6, <1>7, FS_CardinalityType

(* What is seen of a value is a text, and is cut like one.                 *)
LEMMA SeenIsText ==
  ASSUME NEW v \in Texts \cup {None}, v # None => v \in Values
  PROVE  Seen(v) \in Texts \cup {None}
<1>1. CASE v = None \/ storage # "MULTI"
  BY <1>1 DEF Seen
<1>2. CASE v # None /\ storage = "MULTI"
  <2>1. FirstText[v] \in Texts
    BY <1>2, ValueAssumption DEF Texts
  <2> QED  BY <1>2, <2>1 DEF Seen
<1> QED  BY <1>1, <1>2

(* The current value as it was stored.                                     *)
LEMMA LoadedFacts ==
  ASSUME TypeOK
  PROVE  /\ Seen(current) \in Texts \cup {None}
         /\ Loaded(current) \in Texts \cup {None}
         /\ \E w \in Nat : ColumnBytes <= w /\ Loaded(current) = Stored(Seen(current), w)
<1>1. Seen(current) \in Texts \cup {None}
  BY SeenIsText, TypesOf DEF TypeOK, ValuesOrNone
<1>2. \E w \in Nat : ColumnBytes <= w /\ Loaded(current) = Stored(Seen(current), w)
  <2>1. CASE storage = "COLUMN"
    <3>1. ColumnBytes \in Nat /\ ColumnBytes <= ColumnBytes
      BY TypesOf
    <3> QED  BY <2>1, <3>1 DEF Loaded
  <2>2. CASE storage # "COLUMN"
    BY <2>2, TypesOf DEF Loaded
  <2> QED  BY <2>1, <2>2
<1>3. Loaded(current) \in Texts \cup {None}
  BY <1>1, <1>2, StoredFits
<1> QED  BY <1>1, <1>2, <1>3

(* In an order of the rows, some of them have a last one and a first one.  *)
LEMMA OrderEnds ==
  ASSUME NEW R, Cardinality(R) \in Nat, NEW o \in Orders(R), NEW H \in SUBSET R, H # {}
  PROVE  /\ LastOf(H, o) \in H /\ \A b \in H : o[b] <= o[LastOf(H, o)]
         /\ FirstOf(H, o) \in H /\ \A b \in H : o[FirstOf(H, o)] <= o[b]
<1> DEFINE Ranks == {o[b] : b \in H}
<1>1. \A b \in H : o[b] \in Nat /\ o[b] <= Cardinality(R)
  BY DEF Orders
<1>2. PICK b \in H : TRUE
  OBVIOUS
<1>3. Ranks \in SUBSET Nat /\ o[b] \in Ranks /\ \A k \in Ranks : k <= Cardinality(R)
  BY <1>1
<1>4. PICK m \in Ranks : \A k \in Ranks : k <= m
  <2> HIDE DEF Ranks
  <2> QED  BY <1>3, Largest
<1>5. PICK n \in Ranks : \A k \in Ranks : n <= k
  <2> HIDE DEF Ranks
  <2> QED  BY <1>3, Smallest
<1>6. \E a \in H : \A c \in H : o[c] <= o[a]
  BY <1>4
<1>7. \E a \in H : \A c \in H : o[a] <= o[c]
  BY <1>5
<1>8. LastOf(H, o) \in H /\ \A c \in H : o[c] <= o[LastOf(H, o)]
  BY <1>6, Zenon DEF LastOf
<1>9. FirstOf(H, o) \in H /\ \A c \in H : o[FirstOf(H, o)] <= o[c]
  BY <1>7, Zenon DEF FirstOf
<1> QED  BY <1>8, <1>9

LEMMA StartsIn ==
  ASSUME created \in 1 .. 2, NEW R, NEW n \in Nat, created <= n, \A r \in R : r.at \in 1 .. n
  PROVE  /\ Starts(R) \in SUBSET Nat /\ created \in Starts(R)
         /\ \A s \in Starts(R) : created <= s /\ s <= n
         /\ \A r \in R : /\ Stamp(r) \in Starts(R) /\ Stamp(r) \in Nat /\ r.at <= Stamp(r)
                         /\ Stamp(r) = created \/ Stamp(r) = r.at
<1>1. \A r \in R : Stamp(r) \in created .. n /\ r.at <= Stamp(r) /\ (Stamp(r) = created \/ Stamp(r) = r.at)
  BY DEF Stamp
<1>2. created \in Nat /\ created .. n \in SUBSET Nat
  OBVIOUS
<1>3. created \in Starts(R) /\ \A r \in R : Stamp(r) \in Starts(R)
  BY DEF Starts
<1>4. Starts(R) \subseteq created .. n
  <2> HIDE DEF Stamp
  <2>1. \A r \in R : Stamp(r) \in created .. n
    BY <1>1
  <2>2. created \in created .. n
    OBVIOUS
  <2> QED  BY <2>1, <2>2 DEF Starts
<1> QED  BY <1>1, <1>2, <1>3, <1>4

(* What is built lies end to end, with a start for each row's time.        *)
LEMMA BuiltLaid ==
  ASSUME CreatedInTime, NEW R, NEW o, \A r \in R : r.at \in 1 .. MaxTime
  PROVE  /\ Laid(BuildIntervals(R, o))
         /\ BuildIntervals(R, o) # {} => R # {} \/ HasCurrent(current)
         /\ R # {} \/ HasCurrent(current) => BuildIntervals(R, o) # {}
         /\ \A i \in BuildIntervals(R, o) :
               /\ i.from \in Starts(R) /\ i.to = EndOf(Starts(R), i.from)
               /\ i.val = Stored(IF i.to = Sentinel THEN Endpoint(R, o, i.from)
                                                    ELSE Boundary(R, o, i.from), ValueBytes)
               /\ i = [from |-> i.from, to |-> i.to, val |-> i.val]
<1> DEFINE S      == Starts(R)
           New(s) == [from |-> s, to |-> EndOf(S, s),
                      val |-> Stored(IF EndOf(S, s) = Sentinel THEN Endpoint(R, o, s)
                                                               ELSE Boundary(R, o, s), ValueBytes)]
           I      == BuildIntervals(R, o)
<1>1. MaxTime \in Nat /\ created \in 1 .. 2 /\ created <= MaxTime
  BY TypesOf DEF CreatedInTime
<1>2. S \in SUBSET Nat /\ created \in S /\ \A s \in S : created <= s /\ s <= MaxTime
  BY <1>1, StartsIn
<1>3. I = IF R = {} /\ ~HasCurrent(current) THEN {} ELSE {New(s) : s \in S}
  BY DEF BuildIntervals
<1> HIDE DEF I, S
<1>4. CASE I = {}
  <2>1. ~ (R # {} \/ HasCurrent(current))
    <3>1. New(created) \in {New(s) : s \in S}
      BY <1>2
    <3> QED  BY <1>3, <1>4, <3>1
  <2> QED  BY <1>4, <2>1 DEF I, Laid
<1>5. CASE I # {}
  <2>1. I = {New(s) : s \in S} /\ (R # {} \/ HasCurrent(current))
    BY <1>3, <1>5
  <2>2. \A i \in I : i.from \in S /\ i = New(i.from)
    BY <2>1
  <2>3. \A s \in S : \E i \in I : i.from = s
    <3> SUFFICES ASSUME NEW s \in S PROVE \E i \in I : i.from = s
      OBVIOUS
    <3>1. New(s).from = s
      OBVIOUS
    <3> HIDE DEF New
    <3> QED  BY <2>1, <3>1
  <2>4. {i.from : i \in I} = S
    <3> HIDE DEF New
    <3> QED  BY <2>2, <2>3
  <2>5. \A i \in I : /\ i.to = EndOf(S, i.from)
                     /\ i.val = Stored(IF i.to = Sentinel THEN Endpoint(R, o, i.from)
                                                          ELSE Boundary(R, o, i.from), ValueBytes)
                     /\ i = [from |-> i.from, to |-> i.to, val |-> i.val]
    BY <2>2
  <2>6. \A i, j \in I : i.from = j.from => i = j
    <3> HIDE DEF New
    <3> QED  BY <2>2
  <2> HIDE DEF New
  <2>7. \A i \in I : i.from \in created .. MaxTime
    <3> SUFFICES ASSUME NEW i \in I PROVE i.from \in created .. MaxTime
      OBVIOUS
    <3>1. i.from \in Nat /\ created <= i.from /\ i.from <= MaxTime
      BY <1>2, <2>2
    <3> QED  BY <1>1, <3>1
  <2>8. Laid(I)
    BY <1>2, <2>3, <2>4, <2>5, <2>6, <2>7 DEF Laid
  <2> QED  BY <1>5, <2>1, <2>2, <2>5, <2>8 DEF I, S
<1> QED  BY <1>4, <1>5
-----------------------------------------------------------------------------
(* What the history tells in a state of the invariant.                     *)

Told == TypeOK /\ Chronicle /\ Truthful /\ Collected /\ Stands

LEMMA InTime ==
  ASSUME Told
  PROVE  /\ created \in 1 .. 2 /\ now \in Nat /\ now <= MaxTime /\ asOf \in Nat /\ asOf <= now
         /\ asOf > 0 => CreatedInTime /\ created <= asOf /\ current = truth[asOf]
         /\ hist # {} => asOf > 0
         /\ phase # "idle" => asOf > 0
<1>1. created \in 1 .. 2 /\ now \in 0 .. MaxTime /\ asOf \in 0 .. MaxTime /\ MaxTime \in Nat
  BY TypesOf DEF Told, TypeOK, Times
<1>2. /\ asOf <= now /\ (asOf > 0 => created <= asOf /\ current = truth[asOf])
      /\ (asOf = 0 => hist = {} /\ phase = "idle")
  BY DEF Told, Collected
<1> QED  BY <1>1, <1>2 DEF CreatedInTime

LEMMA EndsRight ==
  ASSUME Told
  PROVE  EndsAtCurrent
<1> SUFFICES ASSUME Derived, HasCurrent(current)
             PROVE  \E i \in hist : i.to = Sentinel /\ Shows(i.val, Seen(current))
  BY DEF EndsAtCurrent
<1>1. HasCurrent(current)
  OBVIOUS
<1>2. asOf > 0 /\ CreatedInTime
  BY InTime DEF Derived
<1>3. PICK o \in Orders(rows) : hist = BuildIntervals(rows, o)
  BY DEF Told, Stands
<1>4. \A r \in rows : r.at \in 1 .. MaxTime
  BY RowFacts DEF Told
<1>5. /\ Laid(hist) /\ hist # {}
      /\ \A i \in hist : i.to = Sentinel => i.val = Stored(Endpoint(rows, o, i.from), ValueBytes)
  BY <1>1, <1>2, <1>3, <1>4, BuiltLaid
<1>6. Sentinel - 1 \in created .. Sentinel - 1 /\ Sentinel \in Nat
  BY <1>2, TypesOf DEF CreatedInTime
<1>7. PICK i \in hist : Covers(i, Sentinel - 1)
  BY <1>2, <1>5, <1>6, LaidFacts
<1>8. i.to = Sentinel
  <2>1. i.to \in Nat /\ i.to <= Sentinel
    BY <1>2, <1>5, LaidFacts
  <2> QED  BY <1>6, <1>7, <2>1 DEF Covers
<1>9. i.val = Stored(Loaded(current), ValueBytes)
  BY <1>1, <1>5, <1>8 DEF Endpoint
<1>10. PICK w \in Nat : ColumnBytes <= w /\ Loaded(current) = Stored(Seen(current), w)
  BY LoadedFacts DEF Told
<1>11. Seen(current) \in Texts \cup {None}
  BY LoadedFacts DEF Told
<1>12. Shows(i.val, Seen(current))
  BY <1>9, <1>10, <1>11, TypesOf, ShownTwice
<1> QED  BY <1>8, <1>12

(* A field that never changed silently keeps its value between histories.  *)
LEMMA SameTruth ==
  ASSUME TypeOK, Chronicle, Truthful, ~silent, NEW t \in 0 .. now, NEW u \in 0 .. now, t <= u,
         \A h \in log : h.at <= u => h.at <= t
  PROVE  truth[t] = truth[u]
<1> DEFINE H   == {h \in log : h.at <= u}
           Ids == {h.id : h \in H}
<1>0. now \in Nat /\ t \in Nat /\ u \in Nat /\ \A h \in log : h.at \in Nat
  BY TypesOf DEF TypeOK, Chronicle, Times
<1>1. CASE log = {}
  BY <1>1 DEF Truthful
<1>2. CASE log # {} /\ H = {}
  <2>1. PICK g \in log : g.id = 1
    BY <1>2 DEF Chronicle
  <2>2. \A h \in log : u < h.at /\ t < h.at
    BY <1>0, <1>2
  <2> QED  BY <2>1, <2>2 DEF Truthful
<1>3. CASE H # {}
  <2>1. \A h \in H : h.id \in Nat /\ h.id <= Cardinality(log)
    BY DEF Chronicle
  <2>2. PICK h \in H : TRUE
    BY <1>3
  <2>3. Cardinality(log) \in Nat
    BY FS_CardinalityType DEF Chronicle
  <2>4. Ids \in SUBSET Nat /\ h.id \in Ids /\ \A k \in Ids : k <= Cardinality(log)
    <3> HIDE DEF H
    <3> QED  BY <2>1
  <2>5. PICK m \in Ids : \A k \in Ids : k <= m
    <3> HIDE DEF Ids
    <3> QED  BY <2>3, <2>4, Largest
  <2>6. PICK l \in H : l.id = m
    OBVIOUS
  <2>7. \A g \in H : g.id <= l.id
    BY <2>5, <2>6
  <2>8. IsLatest(l, u)
    BY <2>7 DEF IsLatest
  <2>9. IsLatest(l, t)
    <3>1. \A g \in log : g.at <= t => g \in H
      BY <1>0
    <3> QED  BY <2>7, <3>1 DEF IsLatest
  <2> QED  BY <2>8, <2>9 DEF Truthful
<1> QED  BY <1>1, <1>2, <1>3

(* With nothing lost, the value from a boundary on is the one the field    *)
(* had at each instant up to the next.                                     *)
LEMMA BoundaryTells ==
  ASSUME Told, Complete, asOf > 0, NEW o \in Orders(rows), rows # {},
         NEW t \in created .. asOf, NEW s \in Starts(rows), s <= t,
         \A u \in Starts(rows) : u <= t => u <= s
  PROVE  Boundary(rows, o, s) = Stored(truth[t], LogBytes)
<1> DEFINE here == {r \in rows : Stamp(r) = s}
<1> USE DEF Told
<1>0. /\ created \in 1 .. 2 /\ asOf \in Nat /\ created <= asOf /\ ~silent
      /\ t \in 0 .. now /\ t \in Nat /\ t <= asOf /\ now \in Nat
  BY InTime DEF Complete
<1>1. /\ \A r \in rows : \E h \in log :
           /\ h.at <= asOf /\ r = Row(h) /\ r.id = h.id /\ r.at = h.at
           /\ r.from = Stored(h.from, LogBytes) /\ r.to = Stored(h.to, LogBytes)
      /\ \A r \in rows : r.at \in 1 .. asOf
      /\ Cardinality(rows) \in Nat
  <2>1. \A r \in rows : r.at \in 1 .. MaxTime /\ r.at <= asOf
    BY RowFacts
  <2>2. \A r \in rows : r.at \in 1 .. asOf
    BY <1>0, <2>1
  <2> QED  BY <2>2, RowFacts
<1>2. /\ Starts(rows) \in SUBSET Nat
      /\ \A r \in rows : /\ Stamp(r) \in Starts(rows) /\ Stamp(r) \in Nat /\ r.at <= Stamp(r)
                         /\ Stamp(r) = created \/ Stamp(r) = r.at
  BY <1>0, <1>1, StartsIn
<1>3. \A h \in log : h.at \in Nat /\ h.id \in Nat
  BY DEF Chronicle
<1>4. \A h \in log : h.at <= t => \E r \in rows : r.id = h.id /\ r.at = h.at
  <2> SUFFICES ASSUME NEW h \in log, h.at <= t PROVE \E r \in rows : r.id = h.id /\ r.at = h.at
    OBVIOUS
  <2>1. h.at <= asOf
    BY <1>0, <1>3
  <2>2. PICK r \in rows : r.id = h.id
    BY <2>1 DEF Complete
  <2>3. PICK g \in log : r.id = g.id /\ r.at = g.at
    BY <1>1
  <2>4. g = h
    BY <2>2, <2>3 DEF Chronicle
  <2> QED  BY <2>2, <2>3, <2>4
<1>5. \A r \in rows : r.at <= t => Stamp(r) <= s
  <2> SUFFICES ASSUME NEW r \in rows, r.at <= t PROVE Stamp(r) <= s
    OBVIOUS
  <2>1. Stamp(r) <= t
    BY <1>0, <1>2
  <2> QED  BY <1>2, <2>1
<1>6. \A a, b \in rows : a.at < b.at => o[a] < o[b]
  BY DEF Orders
<1>7. \A a \in rows : o[a] \in Nat
  BY DEF Orders
<1>8. CASE here # {}
  <2> DEFINE l == LastOf(here, o)
  <2>1. l \in here /\ \A b \in here : o[b] <= o[l]
    BY <1>1, <1>8, OrderEnds
  <2>2. Boundary(rows, o, s) = l.to
    BY <1>8 DEF Boundary
  <2> HIDE DEF l
  <2>3. l \in rows /\ Stamp(l) = s
    BY <2>1
  <2>4. PICK g \in log : /\ g.at <= asOf /\ l.id = g.id /\ l.at = g.at
                         /\ l.to = Stored(g.to, LogBytes)
    BY <1>1, <2>3
  <2>5. g.at <= t
    BY <1>0, <1>2, <1>3, <2>3, <2>4
  <2>6. ASSUME NEW k \in log, k.at <= t PROVE k.id <= g.id
    <3>1. PICK r \in rows : r.id = k.id /\ r.at = k.at
      BY <1>4, <2>6
    <3>2. Stamp(r) <= s
      BY <1>5, <2>6, <3>1
    <3>3. r.at \in Nat /\ l.at \in Nat /\ r.at <= l.at
      <4>1. r.at \in Nat /\ l.at \in Nat
        BY <1>1, <2>3
      <4>2. CASE Stamp(r) = s
        <5>1. o[r] <= o[l]
          BY <2>1, <4>2
        <5> QED  BY <1>6, <1>7, <2>3, <4>1, <5>1
      <4>3. CASE Stamp(r) # s
        <5>1. Stamp(r) < Stamp(l)
          BY <1>2, <2>3, <3>2, <4>3
        <5>2. ~ (l.at <= r.at)
          <6>1. Stamp(l) = (IF l.at < created THEN created ELSE l.at)
            BY DEF Stamp
          <6>2. Stamp(r) = (IF r.at < created THEN created ELSE r.at)
            BY DEF Stamp
          <6> QED  BY <1>0, <4>1, <5>1, <6>1, <6>2
        <5> QED  BY <4>1, <5>2
      <4> QED  BY <4>2, <4>3, <4>1
    <3>4. CASE r.at = l.at
      <4>1. r = l
        BY <2>3, <3>4 DEF Complete
      <4> QED  BY <1>3, <2>4, <3>1, <4>1
    <3>5. CASE r.at < l.at
      <4>1. ~ (g.id < k.id)
        <5>1. g.id < k.id => g.at <= k.at
          BY DEF Chronicle
        <5> QED  BY <1>3, <2>4, <3>1, <3>5, <5>1
      <4> QED  BY <1>3, <4>1
    <3> QED  BY <3>3, <3>4, <3>5
  <2>7. IsLatest(g, t)
    BY <2>5, <2>6 DEF IsLatest
  <2>8. truth[t] = g.to
    BY <1>0, <2>7 DEF Truthful
  <2> QED  BY <2>2, <2>4, <2>8
<1>9. CASE here = {}
  <2> DEFINE f == FirstOf(rows, o)
  <2>1. f \in rows /\ \A b \in rows : o[f] <= o[b]
    BY <1>1, OrderEnds
  <2>2. Boundary(rows, o, s) = f.from
    BY <1>9 DEF Boundary
  <2> HIDE DEF f
  <2>3. s = created
    <3>1. \A r \in rows : Stamp(r) # s
      BY <1>9
    <3> HIDE DEF here
    <3> QED  BY <3>1 DEF Starts
  <2>4. \A h \in log : t < h.at
    <3> SUFFICES ASSUME NEW h \in log, h.at <= t PROVE FALSE
      BY <1>0, <1>3
    <3>1. PICK r \in rows : r.at = h.at
      BY <1>4
    <3>2. Stamp(r) <= s /\ Stamp(r) \in Nat /\ (Stamp(r) = created \/ Stamp(r) = r.at) /\ r.at <= Stamp(r)
      BY <1>2, <1>5, <3>1
    <3>3. Stamp(r) = s
      <4>1. Stamp(r) = (IF r.at < created THEN created ELSE r.at) /\ r.at \in Nat
        BY <1>1 DEF Stamp
      <4> QED  BY <1>0, <2>3, <3>2, <4>1
    <3> QED  BY <1>9, <3>3
  <2>5. PICK g \in log : g.at <= asOf /\ f.id = g.id /\ f.at = g.at /\ f.from = Stored(g.from, LogBytes)
    BY <1>1, <2>1
  <2>6. PICK h \in log : h.id = 1
    BY <2>5 DEF Chronicle
  <2>7. h.at <= g.at
    <3>1. h.id < g.id \/ h.id = g.id
      BY <1>3, <2>6 DEF Chronicle
    <3> QED  BY <1>3, <3>1 DEF Chronicle
  <2>8. PICK r \in rows : r.id = h.id /\ r.at = h.at
    <3>1. h.at <= asOf
      BY <1>0, <1>3, <2>5, <2>7
    <3>2. PICK r \in rows : r.id = h.id
      BY <3>1 DEF Complete
    <3>3. PICK k \in log : r.id = k.id /\ r.at = k.at
      BY <1>1
    <3>4. k = h
      BY <3>2, <3>3 DEF Chronicle
    <3> QED  BY <3>2, <3>3, <3>4
  <2>9. r.at = f.at
    <3>1. ~ (r.at < f.at)
      BY <1>6, <1>7, <2>1
    <3> QED  BY <1>3, <2>5, <2>7, <2>8, <3>1
  <2>10. r = f
    BY <2>1, <2>9 DEF Complete
  <2>11. g.id = 1
    BY <2>5, <2>6, <2>8, <2>10
  <2>12. truth[t] = g.from
    BY <1>0, <2>4, <2>11 DEF Truthful
  <2> QED  BY <2>2, <2>5, <2>12
<1> QED  BY <1>8, <1>9

LEMMA TellsTruth ==
  ASSUME Told
  PROVE  Faithful
<1> SUFFICES ASSUME Derived, Complete, hist # {}, NEW t \in created .. asOf
             PROVE  \E i \in hist : /\ Covers(i, t)
                                    /\ Shows(i.val, IF Overwritten /\ i.to = Sentinel
                                                    THEN Seen(current) ELSE truth[t])
  BY DEF Faithful
<1> USE DEF Told
<1>1. /\ asOf > 0 /\ CreatedInTime /\ created \in 1 .. 2 /\ asOf \in Nat /\ created <= asOf
      /\ asOf <= now /\ now \in Nat /\ now <= MaxTime /\ current = truth[asOf] /\ ~silent
  BY InTime DEF Derived, Complete
<1>2. PICK o \in Orders(rows) : hist = BuildIntervals(rows, o)
  BY DEF Stands
<1>3. \A r \in rows : r.at \in 1 .. MaxTime /\ r.at <= asOf
  BY RowFacts
<1>4. /\ Laid(hist) /\ (rows # {} \/ HasCurrent(current))
      /\ \A i \in hist : /\ i.from \in Starts(rows) /\ i.to = EndOf(Starts(rows), i.from)
                         /\ i.val = Stored(IF i.to = Sentinel THEN Endpoint(rows, o, i.from)
                                                              ELSE Boundary(rows, o, i.from), ValueBytes)
  BY <1>1, <1>2, <1>3, BuiltLaid
<1>5. t \in created .. Sentinel - 1 /\ t \in Nat /\ t <= asOf /\ t \in 0 .. now /\ asOf \in 0 .. now /\ t \in Times
  BY <1>1, TypesOf DEF Times
<1>6. PICK i \in hist : Covers(i, t)
  BY <1>1, <1>4, <1>5, LaidFacts
<1> DEFINE s == i.from
<1>7. /\ Starts(rows) \in SUBSET Nat /\ created \in Starts(rows)
      /\ \A u \in Starts(rows) : u <= MaxTime
      /\ \A r \in rows : Stamp(r) \in Starts(rows) /\ Stamp(r) \in Nat /\ r.at <= Stamp(r)
  <2>1. \A r \in rows : r.at \in 1 .. MaxTime
    BY <1>3
  <2>2. MaxTime \in Nat /\ created <= MaxTime
    BY <1>1, TypesOf
  <2> QED  BY <1>1, <2>1, <2>2, StartsIn
<1>8. s \in Starts(rows) /\ s <= t /\ s \in Nat /\ t < EndOf(Starts(rows), s)
  BY <1>4, <1>6, <1>7 DEF Covers
<1>9. \A u \in Starts(rows) : u <= t => u <= s
  <2>1. s < Sentinel /\ \A u \in Starts(rows) : u < Sentinel
    BY <1>7, <1>8, TypesOf
  <2>2. EndOf(Starts(rows), s) \in Nat /\ \A u \in Starts(rows) : s < u => EndOf(Starts(rows), s) <= u
    BY <1>7, <1>8, <2>1, EndOfIs
  <2> QED  BY <1>5, <1>7, <1>8, <2>2
<1>10. truth[t] \in Texts \cup {None} /\ current \in Texts \cup {None}
  BY <1>5, TypesOf DEF TypeOK
<1>11. CASE i.to = Sentinel /\ HasCurrent(current)
  <2>1. \A h \in log : h.at <= asOf => h.at <= t
    <3> SUFFICES ASSUME NEW h \in log, h.at <= asOf PROVE h.at <= t
      OBVIOUS
    <3>1. PICK r \in rows : r.id = h.id
      BY DEF Complete
    <3>2. PICK g \in log : r.id = g.id /\ r.at = g.at
      BY RowFacts
    <3>3. g = h
      BY <3>1, <3>2 DEF Chronicle
    <3>4. Stamp(r) <= s
      <4>1. s < Sentinel /\ \A u \in Starts(rows) : u < Sentinel
        BY <1>7, <1>8, TypesOf
      <4>2. s < Stamp(r) => EndOf(Starts(rows), s) <= Stamp(r)
        BY <1>7, <1>8, <4>1, EndOfIs
      <4>3. EndOf(Starts(rows), s) = Sentinel /\ Stamp(r) \in Nat /\ Stamp(r) < Sentinel
        BY <1>4, <1>7, <1>11, <4>1
      <4> QED  BY <1>8, <4>2, <4>3, TypesOf
    <3>5. r.at <= Stamp(r) /\ Stamp(r) \in Nat /\ r.at \in Nat
      BY <1>3, <1>7
    <3> QED  BY <1>5, <1>8, <3>2, <3>3, <3>4, <3>5
  <2>2. truth[t] = truth[asOf]
    BY <1>1, <1>5, <2>1, SameTruth
  <2>3. i.val = Stored(Loaded(current), ValueBytes)
    BY <1>4, <1>11 DEF Endpoint
  <2>4. PICK w \in Nat : ColumnBytes <= w /\ Loaded(current) = Stored(Seen(current), w)
    BY LoadedFacts
  <2>5. Seen(current) \in Texts \cup {None}
    BY LoadedFacts
  <2>6. Shows(i.val, Seen(current))
    BY <2>3, <2>4, <2>5, TypesOf, ShownTwice
  <2>7. ~Overwritten => Seen(current) = truth[t]
    BY <1>1, <2>2 DEF Overwritten, Seen
  <2> QED  BY <1>6, <1>11, <2>6, <2>7
<1>12. CASE ~(i.to = Sentinel /\ HasCurrent(current))
  <2>1. rows # {}
    <3> SUFFICES ASSUME rows = {} PROVE FALSE
      OBVIOUS
    <3>1. Starts(rows) = {created} /\ HasCurrent(current)
      BY <1>4 DEF Starts
    <3>2. EndOf(Starts(rows), s) = Sentinel
      BY <1>8, <3>1 DEF EndOf
    <3> QED  BY <1>4, <1>12, <3>1, <3>2
  <2>2. i.val = Stored(Boundary(rows, o, s), ValueBytes)
    BY <1>4, <1>12 DEF Endpoint
  <2>3. Boundary(rows, o, s) = Stored(truth[t], LogBytes)
    BY <1>1, <1>8, <1>9, <2>1, BoundaryTells
  <2>4. Shows(i.val, truth[t])
    BY <1>10, <2>2, <2>3, TypesOf, ShownTwice
  <2>5. ~ (Overwritten /\ i.to = Sentinel)
    <3>1. Overwritten => HasCurrent(current)
      BY DEF Overwritten, HasCurrent
    <3> QED  BY <1>12, <3>1
  <2> QED  BY <1>6, <2>4, <2>5
<1> QED  BY <1>11, <1>12

(* The categories follow the history, and so its truth.                    *)
LEMMA CategoriesTell ==
  ASSUME Told
  PROVE  /\ HistoryTiles /\ CategoriesFollow /\ Laid(hist) /\ Laid(cats)
         /\ hist # {} => cats # {}
         /\ Derived => \A c \in cats : c.from \in created .. asOf
<1> USE DEF Told
<1>1. Laid(hist) /\ cats = MergeCategories(hist)
  BY DEF Stands
<1>2. CASE hist = {}
  <2>1. cats = {}
    BY <1>1, <1>2 DEF MergeCategories
  <2> QED  BY <1>1, <1>2, <2>1 DEF HistoryTiles, CategoriesFollow, Tiles, Laid
<1>3. CASE hist # {}
  <2>1. CreatedInTime /\ asOf > 0 /\ created \in 1 .. 2 /\ asOf \in Nat /\ created <= asOf
    BY <1>3, InTime
  <2>2. HistoryTiles
    BY <1>1, <2>1, LaidTiles DEF HistoryTiles
  <2>3. /\ Laid(cats) /\ cats # {}
        /\ \A i \in hist, c \in cats : (i.from < c.to /\ c.from < i.to) => c.val = Category(i.val)
        /\ \A c, d \in cats : c.to = d.from => c.val # d.val
        /\ \A c \in cats : \E i \in hist : c.from = i.from
    BY <1>1, <1>3, <2>1, MergedLaid
  <2>4. CategoriesFollow
    BY <2>1, <2>3, LaidTiles DEF CategoriesFollow
  <2>5. ASSUME Derived, NEW c \in cats PROVE c.from \in created .. asOf
    <3>1. PICK o \in Orders(rows) : hist = BuildIntervals(rows, o)
      BY <2>5 DEF Stands
    <3>2. \A r \in rows : r.at \in 1 .. MaxTime /\ r.at <= asOf
      BY RowFacts
    <3>3. \A r \in rows : r.at \in 1 .. MaxTime
      BY <3>2
    <3>4. PICK i \in hist : c.from = i.from /\ i.from \in Starts(rows)
      BY <2>1, <2>3, <3>1, <3>3, BuiltLaid
    <3>5. \A r \in rows : r.at \in 1 .. asOf
      BY <2>1, <3>2
    <3>6. i.from \in Nat /\ created <= i.from /\ i.from <= asOf
      BY <2>1, <3>4, <3>5, StartsIn
    <3> QED  BY <2>1, <3>4, <3>6
  <2> QED  BY <1>1, <2>2, <2>3, <2>4, <2>5
<1> QED  BY <1>2, <1>3

(* A plain value is derived as it is.                                      *)
LEMMA PlainShown ==
  ASSUME NEW v, NEW w, IsPlain(v), Shows(w, v)
  PROVE  w = v
<1>1. CASE v = None
  BY <1>1 DEF Shows
<1>2. CASE v # None
  <2>1. v # <<>> /\ Strip(v) = v /\ FitsIn(v, ColumnBytes)
    BY <1>2 DEF IsPlain
  <2> QED  BY <1>2, <2>1 DEF Shows
<1> QED  BY <1>1, <1>2

(* Of a column whose changelog is complete, a category holds from an       *)
(* instant on if and only if the issue had it then.                        *)
LEMMA DoneTells ==
  ASSUME Told, Derived, Complete, storage = "COLUMN", Plain
  PROVE  DoneSince \subseteq DoneAt /\ \A t \in DoneAt : \E u \in DoneSince : u <= t
<1> USE DEF Told
<1>1. /\ asOf > 0 /\ CreatedInTime /\ created \in 1 .. 2 /\ asOf \in Nat /\ created <= asOf
      /\ asOf <= MaxTime
  BY InTime, TypesOf DEF Derived
<1>2. hist # {}
  <2>1. PICK o \in Orders(rows) : hist = BuildIntervals(rows, o)
    BY DEF Stands
  <2>2. \A r \in rows : r.at \in 1 .. MaxTime
    BY RowFacts
  <2> QED  BY <1>1, <2>1, <2>2, BuiltLaid DEF HasCurrent
<1>3. Laid(hist) /\ Laid(cats) /\ cats # {} /\ \A c \in cats : c.from \in created .. asOf
  BY <1>2, CategoriesTell
<1>4. ASSUME NEW t \in created .. asOf, NEW c \in cats, Covers(c, t)
      PROVE  c.val = Category(truth[t])
  <2>1. PICK i \in hist : Covers(i, t) /\ Shows(i.val, truth[t])
    BY <1>2, TellsTruth DEF Faithful, Overwritten
  <2>2. i.val = truth[t]
    BY <2>1, PlainShown DEF Plain
  <2>3. i.from \in Nat /\ i.to \in Nat /\ c.from \in Nat /\ c.to \in Nat /\ t \in Nat
    BY <1>1, <1>3, LaidFacts
  <2>4. i.from < c.to /\ c.from < i.to
    BY <1>4, <2>1, <2>3 DEF Covers
  <2> QED  BY <1>2, <2>2, <2>4, CategoriesTell DEF CategoriesFollow
<1>5. ASSUME NEW c \in cats, c.val = "done" PROVE c.from \in DoneAt
  <2>1. c.from \in created .. asOf /\ Covers(c, c.from)
    <3>1. c.from < c.to /\ c.from \in Nat
      BY <1>1, <1>3, LaidFacts
    <3> QED  BY <1>3, <3>1 DEF Covers
  <2> QED  BY <1>4, <1>5, <2>1 DEF DoneAt
<1>6. ASSUME NEW t \in DoneAt PROVE \E u \in DoneSince : u <= t
  <2>1. t \in created .. asOf /\ Category(truth[t]) = "done" /\ t \in created .. Sentinel - 1
    BY <1>1, TypesOf DEF DoneAt
  <2>2. PICK c \in cats : Covers(c, t)
    BY <1>1, <1>3, <2>1, LaidFacts
  <2>3. c.val = "done"
    BY <1>4, <2>1, <2>2
  <2> QED  BY <2>2, <2>3 DEF DoneSince, Covers
<1> QED  BY <1>5, <1>6 DEF DoneSince
-----------------------------------------------------------------------------
(* Every step keeps what the history is told from.                         *)

LEMMA ToldInit ==
  ASSUME Init
  PROVE  Told
<1>0. Times = 0 .. MaxTime /\ 0 \in Times /\ 1 \in Times /\ 1 \in Nat
  BY TypesOf DEF Times
<1>1. TypeOK
  <2>1. truth \in [Times -> ValuesOrNone] /\ value \in ValuesOrNone /\ current \in ValuesOrNone
    BY DEF Init, ValuesOrNone
  <2>2. Loaded(current) = None
    BY DEF Init, Loaded, Seen, Stored
  <2> QED  BY <1>0, <2>1, <2>2 DEF Init, TypeOK, FitsIn
<1>2. Chronicle
  BY <1>0, FS_EmptySet DEF Init, Chronicle
<1>3. Truthful
  <2>1. \A t \in 0 .. now : t \in Times
    BY <1>0, TypesOf DEF Init
  <2> QED  BY <2>1 DEF Init, Truthful
<1>4. Collected
  <2>1. Served = {}
    BY DEF Init, Served
  <2> QED  BY <2>1 DEF Init, Collected
<1>5. Stands
  BY DEF Init, Stands, Laid, MergeCategories, Derived
<1> QED  BY <1>1, <1>2, <1>3, <1>4, <1>5 DEF Told

LEMMA BuildStable ==
  ASSUME UNCHANGED <<storage, created, current, rows>>, NEW o
  PROVE  BuildIntervals(rows, o)' = BuildIntervals(rows, o)
BY DEF BuildIntervals, Starts, Stamp, Endpoint, Boundary, Loaded, Seen, HasCurrent

LEMMA StandsStable ==
  ASSUME Stands, UNCHANGED <<storage, created, current, rows, hist, cats>>, Derived' => Derived
  PROVE  Stands'
<1>1. Laid(hist)'
  BY DEF Stands, Laid
<1>2. (cats = MergeCategories(hist))'
  BY DEF Stands
<1>3. ASSUME Derived' PROVE (\E o \in Orders(rows) : hist = BuildIntervals(rows, o))'
  <2>1. PICK o \in Orders(rows) : hist = BuildIntervals(rows, o)
    BY <1>3 DEF Stands
  <2>2. BuildIntervals(rows, o)' = BuildIntervals(rows, o)
    BY BuildStable
  <2> QED  BY <2>1, <2>2
<1> QED  BY <1>1, <1>2, <1>3 DEF Stands

LEMMA TickTold ==
  ASSUME Told, Tick
  PROVE  Told'
<1> USE DEF Told
<1>0. /\ now \in Nat /\ now <= MaxTime /\ asOf \in Nat /\ asOf <= now /\ now + 1 \in Times
      /\ Times = 0 .. MaxTime /\ MaxTime \in Nat /\ truth \in [Times -> ValuesOrNone]
      /\ value \in ValuesOrNone
  BY InTime, TypesOf DEF Tick, Times, TypeOK
<1>1. /\ truth' \in [Times -> ValuesOrNone] /\ truth'[now + 1] = value
      /\ \A t \in 0 .. now : truth'[t] = truth[t]
  BY <1>0 DEF Tick
<1>2. \A h \in log : h.at \in 1 .. now
  BY DEF Chronicle
<1>3. TypeOK'
  BY <1>0, <1>1 DEF Tick, TypeOK, jiraVars, dbVars, Loaded, Seen
<1>4. Chronicle'
  <2>1. \A h \in log : h.at \in 1 .. now + 1
    BY <1>0, <1>2
  <2> QED  BY <1>1, <2>1 DEF Tick, Chronicle, dbVars
<1>5. Truthful'
  <2> SUFFICES ASSUME ~silent, NEW t \in 0 .. now + 1
               PROVE  /\ \A h \in log : IsLatest(h, t) => truth'[t] = h.to
                      /\ (\A h \in log : t < h.at) => \A h \in log : h.id = 1 => truth'[t] = h.from
                      /\ log = {} => truth'[t] = value
    BY DEF Truthful, Tick, IsLatest
  <2>1. CASE t \in 0 .. now
    BY <1>1, <2>1 DEF Truthful
  <2>2. CASE t = now + 1
    <3>1. \A h \in log : h.at <= now /\ h.at <= now + 1 /\ ~ (now + 1 < h.at)
      BY <1>0, <1>2
    <3>2. \A h \in log : IsLatest(h, t) => IsLatest(h, now)
      BY <2>2, <3>1 DEF IsLatest
    <3>3. now \in 0 .. now /\ truth[now] = value
      BY <1>0 DEF Chronicle
    <3> QED  BY <1>1, <2>2, <3>1, <3>2, <3>3 DEF Truthful
  <2> QED  BY <1>0, <2>1, <2>2
<1>6. Collected'
  <2>1. truth'[asOf] = truth[asOf]
    BY <1>0, <1>1
  <2> QED  BY <1>0, <2>1 DEF Tick, Collected, Served, dbVars
<1>7. Stands'
  BY StandsStable DEF Tick, dbVars, Derived
<1> QED  BY <1>3, <1>4, <1>5, <1>6, <1>7

(* What becomes of the value changes no instant that a run has read. *)
LEMMA BecomesFacts ==
  ASSUME Told, NEW v \in ValuesOrNone, Becomes(v)
  PROVE  /\ now \in Nat /\ now <= MaxTime /\ now \in Times /\ asOf \in Nat /\ asOf < now
         /\ truth' \in [Times -> ValuesOrNone] /\ truth'[now] = v /\ value' = v
         /\ \A t \in 0 .. now : t # now => truth'[t] = truth[t]
         /\ truth'[asOf] = truth[asOf]
<1>1. /\ now \in Nat /\ now <= MaxTime /\ asOf \in Nat /\ asOf < now /\ now \in Times
      /\ Times = 0 .. MaxTime /\ MaxTime \in Nat /\ truth \in [Times -> ValuesOrNone]
  BY InTime, TypesOf DEF Becomes, Times, TypeOK, Told
<1>2. \A t \in 0 .. now : t \in Times
  BY <1>1
<1>3. truth' \in [Times -> ValuesOrNone] /\ truth'[now] = v /\ value' = v
  BY <1>1 DEF Becomes
<1>4. \A t \in 0 .. now : t # now => truth'[t] = truth[t]
  BY <1>1, <1>2 DEF Becomes
<1>5. asOf \in 0 .. now /\ asOf # now
  BY <1>1
<1> QED  BY <1>1, <1>3, <1>4, <1>5

LEMMA EditTold ==
  ASSUME Told, NEW v \in ValuesOrNone, Edit(v)
  PROVE  Told'
<1> USE DEF Told
<1> DEFINE n == [id |-> Cardinality(log) + 1, at |-> now, from |-> value, to |-> v]
           C == Cardinality(log)
<1>0. /\ now \in Nat /\ now <= MaxTime /\ now \in Times /\ asOf \in Nat /\ asOf < now
      /\ truth' \in [Times -> ValuesOrNone] /\ truth'[now] = v /\ value' = v
      /\ \A t \in 0 .. now : t # now => truth'[t] = truth[t]
      /\ truth'[asOf] = truth[asOf]
  BY BecomesFacts DEF Edit
<1>1. /\ log' = log \cup {n} /\ Cardinality(log) < MaxItems
      /\ UNCHANGED <<storage, created, now, silent, phase, dbVars>>
  BY DEF Edit
<1>2. IsFiniteSet(log) /\ C \in Nat /\ MaxItems \in Nat /\ value \in ValuesOrNone
  BY FS_CardinalityType, BoundAssumption DEF Chronicle, TypeOK
<1>3. \A h \in log : h.id \in Nat /\ 1 <= h.id /\ h.id <= C /\ h.at \in Nat /\ 1 <= h.at /\ h.at <= now
  BY <1>0, <1>2 DEF Chronicle
<1>4. n.id = C + 1 /\ n.at = now /\ n.from = value /\ n.to = v
  OBVIOUS
<1>5. n \notin log /\ n \in Items
  <2>1. n.id \in 1 .. MaxItems
    BY <1>1, <1>2
  <2> QED  BY <1>0, <1>2, <1>3, <1>4, <2>1 DEF Items
<1> HIDE DEF n
<1>6. IsFiniteSet(log') /\ Cardinality(log') = C + 1
  BY <1>1, <1>2, <1>5, FS_AddElement
<1> HIDE DEF C
<1>7. TypeOK'
  <2>1. log' \subseteq Items
    BY <1>1, <1>5 DEF TypeOK
  <2>2. \A r \in rows : /\ \E h \in log' : r.id = h.id /\ r.at = h.at
                        /\ FitsIn(r.from, LogBytes) /\ FitsIn(r.to, LogBytes)
    BY <1>1 DEF TypeOK
  <2> QED  BY <1>0, <1>1, <2>1, <2>2 DEF TypeOK, dbVars, Loaded, Seen
<1>8. Chronicle'
  <2>1. \A h \in log' : h.at \in 1 .. now /\ h.id \in 1 .. C + 1
    BY <1>0, <1>1, <1>2, <1>3, <1>4
  <2>2. ASSUME NEW g \in log', NEW h \in log'
        PROVE  (g.id = h.id => g = h) /\ (g.id < h.id => g.at <= h.at)
    <3>1. CASE g \in log /\ h \in log
      BY <3>1 DEF Chronicle
    <3>2. CASE g = n /\ h = n
      BY <1>0, <1>2, <1>4, <3>2
    <3>3. CASE g \in log /\ h = n
      <4>1. g.id <= C /\ g.id \in Nat /\ g.at <= now
        BY <1>3, <3>3
      <4> QED  BY <1>2, <1>4, <3>3, <4>1
    <3>4. CASE g = n /\ h \in log
      <4>1. h.id <= C /\ h.id \in Nat
        BY <1>3, <3>4
      <4> QED  BY <1>2, <1>4, <3>4, <4>1
    <3> QED  BY <1>1, <3>1, <3>2, <3>3, <3>4
  <2>3. \E h \in log' : h.id = 1
    <3>1. CASE log = {}
      <4>1. C = 0
        BY <3>1, FS_EmptySet DEF C
      <4> QED  BY <1>1, <1>4, <4>1
    <3>2. CASE log # {}
      BY <1>1, <3>2 DEF Chronicle
    <3> QED  BY <3>1, <3>2
  <2> QED  BY <1>0, <1>1, <1>6, <2>1, <2>2, <2>3 DEF Chronicle
<1>9. Truthful'
  <2> SUFFICES ASSUME ~silent, NEW t \in 0 .. now
               PROVE  /\ \A h \in log' : IsLatest(h, t)' => truth'[t] = h.to
                      /\ (\A h \in log' : t < h.at) => \A h \in log' : h.id = 1 => truth'[t] = h.from
                      /\ log' = {} => truth'[t] = value'
    BY <1>1 DEF Truthful
  <2>1. log' # {} /\ n \in log'
    BY <1>1
  <2>2. CASE t = now
    <3>1. ASSUME NEW h \in log', IsLatest(h, t)' PROVE truth'[t] = h.to
      <4>1. n.id <= h.id
        BY <1>0, <1>4, <2>1, <2>2, <3>1 DEF IsLatest
      <4>2. h = n
        BY <1>1, <1>2, <1>3, <1>4, <4>1
      <4> QED  BY <1>0, <1>4, <2>2, <4>2
    <3>2. ~ (\A h \in log' : t < h.at)
      BY <1>0, <1>4, <2>1, <2>2
    <3> QED  BY <2>1, <3>1, <3>2
  <2>3. CASE t # now
    <3>1. truth'[t] = truth[t] /\ t < now /\ ~ (n.at <= t)
      BY <1>0, <1>4, <2>3
    <3>2. ASSUME NEW h \in log', IsLatest(h, t)' PROVE truth'[t] = h.to
      <4>1. h \in log
        BY <1>1, <3>1, <3>2 DEF IsLatest
      <4>2. IsLatest(h, t)
        BY <1>1, <3>2 DEF IsLatest
      <4> QED  BY <3>1, <4>1, <4>2 DEF Truthful
    <3>3. ASSUME \A h \in log' : t < h.at, NEW h \in log', h.id = 1 PROVE truth'[t] = h.from
      <4>1. CASE h \in log
        BY <1>1, <3>1, <3>3, <4>1 DEF Truthful
      <4>2. CASE h = n
        <5>1. C = 0
          BY <1>2, <1>4, <3>3, <4>2
        <5>2. log = {}
          BY <1>2, <5>1, FS_EmptySet DEF C
        <5> QED  BY <1>4, <3>1, <4>2, <5>2 DEF Truthful
      <4> QED  BY <1>1, <4>1, <4>2
    <3> QED  BY <2>1, <3>2, <3>3
  <2> QED  BY <2>2, <2>3
<1>10. Collected'
  <2>1. {g \in Served : g.at <= asOf}' = {g \in Served : g.at <= asOf}
    <3>1. ~ (n.at <= asOf)
      BY <1>0, <1>4
    <3> QED  BY <1>1, <3>1 DEF Served, dbVars
  <2>2. rows' = {Row(h) : h \in {g \in Served : g.at <= asOf}}'
    <3>1. rows' = rows /\ rows = {Row(h) : h \in {g \in Served : g.at <= asOf}}
      BY <1>1 DEF Collected, dbVars
    <3> QED  BY <2>1, <3>1
  <2> QED  BY <1>0, <1>1, <2>2 DEF Collected, dbVars
<1>11. Stands'
  BY <1>1, StandsStable DEF dbVars, Derived
<1> QED  BY <1>7, <1>8, <1>9, <1>10, <1>11

LEMMA SilentTold ==
  ASSUME Told, NEW v \in ValuesOrNone, EditSilently(v)
  PROVE  Told'
<1> USE DEF Told
<1>0. /\ now \in Nat /\ now <= MaxTime /\ now \in Times /\ asOf \in Nat /\ asOf < now
      /\ truth' \in [Times -> ValuesOrNone] /\ truth'[now] = v /\ value' = v
      /\ truth'[asOf] = truth[asOf]
  BY BecomesFacts DEF EditSilently
<1>1. silent' = TRUE /\ UNCHANGED <<storage, created, now, log, phase, dbVars>>
  BY DEF EditSilently
<1>2. TypeOK'
  BY <1>0, <1>1 DEF TypeOK, dbVars, Loaded, Seen
<1>3. Chronicle'
  BY <1>0, <1>1 DEF Chronicle
<1>4. Truthful'
  BY <1>1 DEF Truthful
<1>5. Collected'
  BY <1>0, <1>1 DEF Collected, Served, dbVars
<1>6. Stands'
  BY <1>1, StandsStable DEF dbVars, Derived
<1> QED  BY <1>2, <1>3, <1>4, <1>5, <1>6

LEMMA LoadedFits ==
  ASSUME NEW v \in ValuesOrNone
  PROVE  FitsIn(Loaded(v), IF storage = "COLUMN" THEN ColumnBytes ELSE ValueBytes)
<1> DEFINE w == IF storage = "COLUMN" THEN ColumnBytes ELSE ValueBytes
<1>1. w \in Nat /\ Seen(v) \in Texts \cup {None}
  BY SeenIsText, TypesOf DEF ValuesOrNone
<1>2. FitsIn(Stored(Seen(v), w), w)
  BY <1>1, StoredFits
<1> QED  BY <1>2 DEF Loaded

LEMMA CollectTold ==
  ASSUME Told, Collect
  PROVE  Told'
<1> USE DEF Told
<1>0. /\ rows' = rows \cup {Row(h) : h \in Served} /\ current' = value /\ asOf' = now
      /\ phase' = "history" /\ created <= now
      /\ UNCHANGED <<storage, created, now, value, truth, log, silent, hist, cats, firstDone>>
  BY DEF Collect, jiraVars
<1>1. created \in 1 .. 2 /\ now \in Nat /\ asOf \in Nat /\ asOf <= now /\ now \in Times
  BY InTime DEF TypeOK
<1>2. \A h \in log : h.at \in Nat /\ h.at <= now
  BY <1>1 DEF Chronicle
<1>3. ASSUME NEW h \in Served
      PROVE  /\ h \in log /\ Row(h).id = h.id /\ Row(h).at = h.at
             /\ FitsIn(Row(h).from, LogBytes) /\ FitsIn(Row(h).to, LogBytes)
  <2>1. h \in log /\ h \in Items
    BY DEF Served, TypeOK
  <2>2. /\ h.from \in Texts \cup {None} /\ h.to \in Texts \cup {None}
        /\ Row(h) = [id |-> h.id, at |-> h.at, from |-> Stored(h.from, LogBytes),
                     to |-> Stored(h.to, LogBytes)]
    BY <2>1, ItemFacts
  <2>3. FitsIn(Stored(h.from, LogBytes), LogBytes) /\ FitsIn(Stored(h.to, LogBytes), LogBytes)
    BY <2>2, TypesOf, StoredFits
  <2> QED  BY <2>1, <2>2, <2>3
<1>4. TypeOK'
  <2>1. \A r \in rows' : /\ \E h \in log : r.id = h.id /\ r.at = h.at
                         /\ FitsIn(r.from, LogBytes) /\ FitsIn(r.to, LogBytes)
    <3> SUFFICES ASSUME NEW r \in rows'
                 PROVE  /\ \E h \in log : r.id = h.id /\ r.at = h.at
                        /\ FitsIn(r.from, LogBytes) /\ FitsIn(r.to, LogBytes)
      OBVIOUS
    <3>1. CASE r \in rows
      BY <3>1 DEF TypeOK
    <3>2. CASE r \notin rows
      <4>1. PICK h \in Served : r = Row(h)
        BY <1>0, <3>2
      <4> QED  BY <1>3, <4>1
    <3> QED  BY <3>1, <3>2
  <2>2. FitsIn(Loaded(value), IF storage = "COLUMN" THEN ColumnBytes ELSE ValueBytes)
    BY LoadedFits DEF TypeOK
  <2>3. Loaded(current)' = Loaded(value)
    BY <1>0 DEF Loaded, Seen
  <2>4. FitsIn(Loaded(current), IF storage = "COLUMN" THEN ColumnBytes ELSE ValueBytes)'
    BY <1>0, <2>2, <2>3
  <2>5. hist' \subseteq Intervals({i.val : i \in hist'}) /\ \A i \in hist' : FitsIn(i.val, ValueBytes)
    BY <1>0 DEF TypeOK
  <2> QED  BY <1>0, <1>1, <2>1, <2>4, <2>5 DEF TypeOK
<1>5. Chronicle'
  BY <1>0 DEF Chronicle
<1>6. Truthful'
  BY <1>0 DEF Truthful, IsLatest
<1>7. Collected'
  <2>1. {g \in Served : g.at <= asOf}' = Served
    BY <1>0, <1>2 DEF Served
  <2>2. rows \subseteq {Row(h) : h \in Served}
    <3>1. rows = {Row(h) : h \in {g \in Served : g.at <= asOf}}
      BY DEF Collected
    <3> HIDE DEF Row, Served
    <3> QED  BY <3>1
  <2>3. rows' = {Row(h) : h \in {g \in Served : g.at <= asOf}}'
    <3> HIDE DEF Row, Served
    <3>1. rows' = {Row(h) : h \in Served}
      BY <1>0, <2>2
    <3> QED  BY <2>1, <3>1
  <2>4. now > 0 /\ value = truth[now]
    BY <1>0, <1>1 DEF Chronicle
  <2> QED  BY <1>0, <1>1, <2>3, <2>4 DEF Collected
<1>8. Stands'
  <2>1. Laid(hist)'
    BY <1>0 DEF Stands, Laid
  <2>2. (cats = MergeCategories(hist))'
    BY <1>0 DEF Stands
  <2>3. ~ Derived'
    BY <1>0 DEF Derived
  <2> QED  BY <2>1, <2>2, <2>3 DEF Stands
<1> QED  BY <1>4, <1>5, <1>6, <1>7, <1>8

(* An interval ends where another starts, or never. *)
LEMMA LaidEnds ==
  ASSUME CreatedInTime, NEW I, Laid(I), NEW i \in I
  PROVE  i.from \in Times /\ i.to \in Times \cup {Sentinel}
<1> DEFINE S == {j.from : j \in I}
<1>0. created \in Nat /\ MaxTime \in Nat /\ Times = 0 .. MaxTime
  BY TypesOf DEF CreatedInTime, Times
<1>1. \A j \in I : j.from \in Nat /\ j.from <= MaxTime /\ j.from < Sentinel
  BY LaidFacts, TypesOf
<1>2. S \in SUBSET Nat /\ (\A u \in S : u < Sentinel /\ u \in Times) /\ i.from \in S
  BY <1>0, <1>1
<1>3. i.to = EndOf(S, i.from)
  BY DEF Laid
<1> HIDE DEF S
<1>4. EndOf(S, i.from) \in S \cup {Sentinel}
  BY <1>1, <1>2, EndOfIs
<1> QED  BY <1>2, <1>3, <1>4

LEMMA BoundaryType ==
  ASSUME TypeOK, Chronicle, Collected, NEW o \in Orders(rows), NEW s
  PROVE  /\ Boundary(rows, o, s) \in Texts \cup {None}
         /\ Endpoint(rows, o, s) \in Texts \cup {None}
<1> DEFINE here == {h \in rows : Stamp(h) = s}
<1>1. /\ \A r \in rows : r.from \in Texts \cup {None} /\ r.to \in Texts \cup {None}
      /\ Cardinality(rows) \in Nat /\ Loaded(current) \in Texts \cup {None}
  BY RowFacts, LoadedFacts
<1>2. here # {} => LastOf(here, o) \in rows
  BY <1>1, OrderEnds
<1>3. rows # {} => FirstOf(rows, o) \in rows
  BY <1>1, OrderEnds
<1>4. Boundary(rows, o, s) \in Texts \cup {None}
  BY <1>1, <1>2, <1>3 DEF Boundary
<1> QED  BY <1>1, <1>4 DEF Endpoint

LEMMA DeriveTold ==
  ASSUME Told, DeriveHistory
  PROVE  Told'
<1> USE DEF Told
<1>0. /\ phase = "history" /\ phase' = "first_done"
      /\ UNCHANGED <<storage, created, now, value, truth, log, silent, rows, current, asOf, firstDone>>
  BY DEF DeriveHistory, jiraVars
<1>1. PICK o \in Orders(rows) :
         hist' = BuildIntervals(rows, o) /\ cats' = MergeCategories(BuildIntervals(rows, o))
  BY DEF DeriveHistory
<1>2. CreatedInTime /\ asOf > 0
  BY <1>0, InTime
<1>3. \A r \in rows : r.at \in 1 .. MaxTime
  BY RowFacts
<1> DEFINE I == BuildIntervals(rows, o)
<1>4. /\ Laid(I)
      /\ \A i \in I :
            /\ i.val = Stored(IF i.to = Sentinel THEN Endpoint(rows, o, i.from)
                                                 ELSE Boundary(rows, o, i.from), ValueBytes)
            /\ i = [from |-> i.from, to |-> i.to, val |-> i.val]
  BY <1>2, <1>3, BuiltLaid
<1>5. hist' = I /\ cats' = MergeCategories(I)
  BY <1>1
<1> HIDE DEF I
<1>6. ASSUME NEW i \in I
      PROVE  /\ i.from \in Times /\ i.to \in Times \cup {Sentinel} /\ FitsIn(i.val, ValueBytes)
             /\ i = [from |-> i.from, to |-> i.to, val |-> i.val]
  <2>1. i.from \in Times /\ i.to \in Times \cup {Sentinel}
    BY <1>2, <1>4, LaidEnds
  <2>2. FitsIn(i.val, ValueBytes)
    <3> DEFINE x == IF i.to = Sentinel THEN Endpoint(rows, o, i.from) ELSE Boundary(rows, o, i.from)
    <3>1. x \in Texts \cup {None}
      BY BoundaryType
    <3>2. i.val = Stored(x, ValueBytes)
      BY <1>4
    <3> HIDE DEF x
    <3> QED  BY <3>1, <3>2, TypesOf, StoredFits
  <2> QED  BY <1>4, <2>1, <2>2
<1>7. MergeCategories(I) \subseteq Intervals(Categories)
  <2> SUFFICES ASSUME NEW c \in MergeCategories(I) PROVE c \in Intervals(Categories)
    OBVIOUS
  <2>1. c.from \in Times /\ c.to \in Times \cup {Sentinel}
    BY <1>2, <1>4, MergedLaid, LaidEnds
  <2>2. PICK i \in I : c.val = Category(i.val)
    BY <1>2, <1>4, MergedLaid
  <2>3. c.val \in Categories
    BY <2>2, ValueAssumption DEF Category, Categories
  <2>4. c = [from |-> c.from, to |-> c.to, val |-> c.val]
    <3> DEFINE heads  == {h \in I : ~Continues(I, h)}
               S      == {j.from : j \in heads}
               New(h) == [from |-> h.from, to |-> EndOf(S, h.from), val |-> Category(h.val)]
    <3>1. c \in {New(h) : h \in heads}
      BY DEF MergeCategories
    <3> HIDE DEF heads, S
    <3> QED  BY <3>1
  <2> HIDE DEF Categories
  <2> QED  BY <2>1, <2>3, <2>4 DEF Intervals
<1>8. I \subseteq Intervals({i.val : i \in I})
  <2> SUFFICES ASSUME NEW i \in I PROVE i \in Intervals({j.val : j \in I})
    OBVIOUS
  <2>1. i.val \in {j.val : j \in I}
    OBVIOUS
  <2> QED  BY <1>6, <2>1 DEF Intervals
<1>9. TypeOK'
  <2>1. FitsIn(Loaded(current), IF storage = "COLUMN" THEN ColumnBytes ELSE ValueBytes)'
    BY <1>0 DEF TypeOK, Loaded, Seen
  <2>2. hist' \subseteq Intervals({i.val : i \in hist'}) /\ \A i \in hist' : FitsIn(i.val, ValueBytes)
    BY <1>5, <1>6, <1>8
  <2>3. cats' \subseteq Intervals(Categories)
    BY <1>5, <1>7
  <2> QED  BY <1>0, <2>1, <2>2, <2>3 DEF TypeOK
<1>10. Chronicle' /\ Truthful'
  BY <1>0 DEF Chronicle, Truthful, IsLatest
<1>11. Collected'
  BY <1>0, <1>2 DEF Collected, Served
<1>12. Stands'
  <2>1. Laid(hist)'
    BY <1>0, <1>4, <1>5 DEF Laid
  <2>2. (cats = MergeCategories(hist))'
    BY <1>5
  <2>3. BuildIntervals(rows, o)' = BuildIntervals(rows, o)
    BY <1>0, BuildStable
  <2>4. (\E p \in Orders(rows) : hist = BuildIntervals(rows, p))'
    BY <1>0, <1>5, <2>3 DEF I
  <2> QED  BY <2>1, <2>2, <2>4 DEF Stands
<1> QED  BY <1>9, <1>10, <1>11, <1>12

LEMMA UpdateTold ==
  ASSUME Told, UpdateFirstDoneAt
  PROVE  Told'
<1> USE DEF Told
<1>0. /\ phase = "first_done" /\ phase' = "idle"
      /\ UNCHANGED <<storage, created, now, value, truth, log, silent, rows, current, asOf, hist, cats>>
  BY DEF UpdateFirstDoneAt, jiraVars
<1>1. asOf > 0
  BY <1>0, InTime
<1>2. firstDone' \in Times
  <2>1. firstDone \in Times /\ \A c \in cats : c.from \in Times
    BY DEF TypeOK, Intervals
  <2> QED  BY <2>1 DEF UpdateFirstDoneAt, EarliestDone, DoneSince
<1>3. TypeOK'
  BY <1>0, <1>2 DEF TypeOK, Loaded, Seen
<1>4. Chronicle' /\ Truthful'
  BY <1>0 DEF Chronicle, Truthful, IsLatest
<1>5. Collected'
  BY <1>0, <1>1 DEF Collected, Served
<1>6. Stands'
  BY <1>0, StandsStable DEF Derived
<1> QED  BY <1>3, <1>4, <1>5, <1>6

LEMMA StutterTold ==
  ASSUME Told, UNCHANGED vars
  PROVE  Told'
<1> USE DEF Told
<1>0. UNCHANGED <<storage, created, now, value, truth, log, silent, phase, rows, current, asOf, hist, cats, firstDone>>
  BY DEF vars, jiraVars, dbVars
<1>1. TypeOK'
  BY <1>0 DEF TypeOK, Loaded, Seen
<1>2. Chronicle' /\ Truthful' /\ Collected'
  BY <1>0 DEF Chronicle, Truthful, IsLatest, Collected, Served
<1>3. Stands'
  BY <1>0, StandsStable DEF Derived
<1> QED  BY <1>1, <1>2, <1>3
-----------------------------------------------------------------------------
(* first_done_at.                                                          *)

Sure == NeverWrong /\ FirstDoneIsFirst

(* What a run has read stays as it was, whatever Jira does later.          *)
LEMMA SureKept ==
  ASSUME Told, Sure, UNCHANGED <<created, asOf, firstDone, storage, rows>>, log \subseteq log',
         ~silent' => ~silent, phase' = "idle" => phase = "idle",
         \A t \in created .. asOf : truth'[t] = truth[t]
  PROVE  Sure'
<1>1. Complete' => Complete
  BY DEF Complete
<1>2. Plain' => Plain
  BY DEF Plain
<1>3. DoneAt' = DoneAt
  BY DEF DoneAt
<1>4. NeverWrong'
  BY <1>1, <1>2, <1>3 DEF Sure, NeverWrong
<1>5. FirstDoneIsFirst'
  BY <1>1, <1>2, <1>3 DEF Sure, FirstDoneIsFirst
<1> QED  BY <1>4, <1>5 DEF Sure

LEMMA BecomesSure ==
  ASSUME Told, NEW v \in ValuesOrNone, Becomes(v)
  PROVE  \A t \in created .. asOf : truth'[t] = truth[t]
<1>1. /\ now \in Nat /\ asOf \in Nat /\ asOf < now
      /\ \A t \in 0 .. now : t # now => truth'[t] = truth[t]
  BY BecomesFacts
<1>2. created \in 1 .. 2
  BY InTime
<1> QED  BY <1>1, <1>2

(* A later reading can only show that less is missing: what was complete   *)
(* to a later instant was complete to an earlier one.                      *)
LEMMA CollectSure ==
  ASSUME Told, Sure, Collect
  PROVE  Sure'
<1> USE DEF Told
<1>0. /\ rows' = rows \cup {Row(h) : h \in Served} /\ asOf' = now /\ phase' = "history"
      /\ UNCHANGED <<storage, created, truth, log, silent, firstDone>>
  BY DEF Collect, jiraVars
<1>1. created \in 1 .. 2 /\ now \in Nat /\ asOf \in Nat /\ asOf <= now
  BY InTime
<1>2. created .. asOf \subseteq created .. now
  BY <1>1
<1>3. Plain' => Plain
  BY <1>0, <1>2 DEF Plain
<1>4. DoneAt \subseteq DoneAt'
  BY <1>0, <1>2 DEF DoneAt
<1>5. ASSUME Complete' PROVE Complete
  <2>1. \A g, h \in rows : g.at = h.at => g = h
    BY <1>0, <1>5 DEF Complete
  <2>2. ASSUME NEW h \in log, h.at <= asOf PROVE \E r \in rows : r.id = h.id
    <3>1. h.at <= now
      BY <1>1, <2>2 DEF Chronicle
    <3>2. PICK r \in rows' : r.id = h.id
      BY <1>0, <1>5, <3>1 DEF Complete
    <3>3. CASE r \in rows
      BY <3>2, <3>3
    <3>4. CASE r \notin rows
      <4>1. PICK g \in Served : r = Row(g)
        BY <1>0, <3>2, <3>4
      <4>2. g \in log /\ g \in Items /\ g.id <= Inline
        BY DEF Served, TypeOK
      <4>3. r.id = g.id
        BY <4>1, <4>2, ItemFacts
      <4>4. g = h
        BY <3>2, <4>2, <4>3 DEF Chronicle
      <4> QED  BY <2>2, <3>4, <4>1, <4>2, <4>4, RowFacts
    <3> QED  BY <3>3, <3>4
  <2> QED  BY <1>0, <1>5, <2>1, <2>2 DEF Complete
<1>6. NeverWrong'
  BY <1>0, <1>3, <1>4, <1>5 DEF Sure, NeverWrong
<1>7. FirstDoneIsFirst'
  BY <1>0 DEF FirstDoneIsFirst
<1> QED  BY <1>6, <1>7 DEF Sure

LEMMA UpdateSure ==
  ASSUME Told, Sure, UpdateFirstDoneAt
  PROVE  Sure'
<1>0. /\ phase = "first_done"
      /\ UNCHANGED <<storage, created, truth, log, silent, rows, asOf>>
      /\ IF DoneSince = {} THEN firstDone' = firstDone ELSE firstDone' \in EarliestDone
  BY DEF UpdateFirstDoneAt, jiraVars
<1>1. /\ Complete' <=> Complete
      /\ Plain' <=> Plain
      /\ DoneAt' = DoneAt
  BY <1>0 DEF Complete, Plain, DoneAt
<1>2. asOf > 0 /\ Derived /\ asOf \in Nat /\ created \in 1 .. 2
  BY <1>0, InTime DEF Derived
<1>3. ASSUME Complete, storage = "COLUMN", Plain
      PROVE  /\ DoneAt = {} => firstDone' = 0
             /\ DoneAt # {} => firstDone' \in DoneAt /\ \A t \in DoneAt : firstDone' <= t
  <2>1. DoneSince \subseteq DoneAt /\ \A t \in DoneAt : \E u \in DoneSince : u <= t
    BY <1>2, <1>3, DoneTells
  <2>2. CASE DoneAt = {}
    <3>1. firstDone' = firstDone /\ firstDone \in {0} \cup DoneAt
      BY <1>0, <1>3, <2>1, <2>2 DEF Sure, NeverWrong
    <3> QED  BY <2>2, <3>1
  <2>3. CASE DoneAt # {}
    <3>1. DoneSince # {}
      BY <2>1, <2>3
    <3>2. firstDone' \in DoneSince /\ \A u \in DoneSince : firstDone' <= u
      BY <1>0, <3>1 DEF EarliestDone
    <3>3. \A t \in DoneAt : t \in Nat
      BY <1>2 DEF DoneAt
    <3> QED  BY <2>1, <2>3, <3>2, <3>3
  <2> QED  BY <2>2, <2>3
<1>4. NeverWrong'
  BY <1>0, <1>1, <1>3 DEF NeverWrong
<1>5. FirstDoneIsFirst'
  BY <1>0, <1>1, <1>3 DEF FirstDoneIsFirst
<1> QED  BY <1>4, <1>5 DEF Sure
-----------------------------------------------------------------------------
(* The theorems.                                                           *)

LEMMA InvInit == Init => HistoryInv
<1> SUFFICES ASSUME Init PROVE HistoryInv
  OBVIOUS
<1>1. Told
  BY ToldInit
<1>2. NeverWrong /\ FirstDoneIsFirst
  BY DEF Init, NeverWrong, FirstDoneIsFirst
<1> QED  BY <1>1, <1>2 DEF HistoryInv, Told

LEMMA InvNext == HistoryInv /\ [Next]_vars => HistoryInv'
<1> SUFFICES ASSUME HistoryInv, [Next]_vars PROVE Told' /\ Sure'
  BY DEF HistoryInv, Told, Sure
<1>0. Told /\ Sure
  BY DEF HistoryInv, Told, Sure
<1>1. CASE Tick
  <2>1. \A t \in created .. asOf : truth'[t] = truth[t]
    <3>1. /\ created \in 1 .. 2 /\ asOf \in Nat /\ asOf <= now /\ now \in Nat /\ now <= MaxTime
          /\ MaxTime \in Nat /\ truth \in [0 .. MaxTime -> ValuesOrNone]
      BY <1>0, InTime, TypesOf DEF Told, TypeOK, Times
    <3> QED  BY <1>1, <3>1 DEF Tick
  <2>2. Sure'
    BY <1>0, <1>1, <2>1, SureKept DEF Tick, dbVars
  <2> QED  BY <1>0, <1>1, <2>2, TickTold
<1>2. ASSUME NEW v \in ValuesOrNone, Edit(v) PROVE Told' /\ Sure'
  <2>1. \A t \in created .. asOf : truth'[t] = truth[t]
    BY <1>0, <1>2, BecomesSure DEF Edit
  <2>2. Sure'
    BY <1>0, <1>2, <2>1, SureKept DEF Edit, dbVars
  <2> QED  BY <1>0, <1>2, <2>2, EditTold
<1>3. ASSUME NEW v \in ValuesOrNone, EditSilently(v) PROVE Told' /\ Sure'
  <2>1. \A t \in created .. asOf : truth'[t] = truth[t]
    BY <1>0, <1>3, BecomesSure DEF EditSilently
  <2>2. Sure'
    BY <1>0, <1>3, <2>1, SureKept DEF EditSilently, dbVars
  <2> QED  BY <1>0, <1>3, <2>2, SilentTold
<1>4. CASE Collect
  BY <1>0, <1>4, CollectTold, CollectSure
<1>5. CASE DeriveHistory
  <2>1. Sure'
    BY <1>0, <1>5, SureKept DEF DeriveHistory, jiraVars
  <2> QED  BY <1>0, <1>5, <2>1, DeriveTold
<1>6. CASE UpdateFirstDoneAt
  BY <1>0, <1>6, UpdateTold, UpdateSure
<1>7. CASE UNCHANGED vars
  <2>1. Sure'
    BY <1>0, <1>7, SureKept DEF vars, jiraVars, dbVars
  <2> QED  BY <1>0, <1>7, <2>1, StutterTold
<1> QED  BY <1>1, <1>2, <1>3, <1>4, <1>5, <1>6, <1>7 DEF Next

(* The inductive invariant: what Jira's changelog says of the past is      *)
(* true, the rows are what was served of it up to the last collection, and *)
(* what is stored was derived from them (sync_issues, derive_history and   *)
(* update_first_done_at in any order of runs).                             *)
THEOREM HistoryInvSafe == Spec => []HistoryInv
<1> QED  BY InvInit, InvNext, PTL DEF Spec

(* No value outgrows the column it is written to, for any alphabet, any    *)
(* width and any number of cuts (truncate, models.py:11-13).               *)
THEOREM WidthsSafe == Spec => []TypeOK
<1>1. HistoryInv => TypeOK
  BY DEF HistoryInv
<1> QED  BY <1>1, HistoryInvSafe, PTL

(* The intervals of build_intervals tile the time of the issue, without    *)
(* gap, overlap or length zero, whatever the changelog holds.              *)
THEOREM HistoryTilesSafe == Spec => []HistoryTiles
<1>1. HistoryInv => HistoryTiles
  BY CategoriesTell DEF HistoryInv, Told
<1> QED  BY <1>1, HistoryInvSafe, PTL

(* merge_categories: the categories tile the same time, agree with the     *)
(* status at each instant, and change at each boundary.                    *)
THEOREM CategoriesFollowSafe == Spec => []CategoriesFollow
<1>1. HistoryInv => CategoriesFollow
  BY CategoriesTell DEF HistoryInv, Told
<1> QED  BY <1>1, HistoryInvSafe, PTL

(* The last interval has the current value, whatever the changelog lost    *)
(* (derive_history.py:75-83).                                              *)
THEOREM EndsAtCurrentSafe == Spec => []EndsAtCurrent
<1>1. HistoryInv => EndsAtCurrent
  BY EndsRight DEF HistoryInv, Told
<1> QED  BY <1>1, HistoryInvSafe, PTL

(* With nothing lost, the history gives the value of each instant: of a    *)
(* column or a text, and through clamp, NULL and both cuts.                *)
THEOREM FaithfulSafe == Spec => []Faithful
<1>1. HistoryInv => Faithful
  BY TellsTruth DEF HistoryInv, Told
<1> QED  BY <1>1, HistoryInvSafe, PTL

(* With nothing lost, first_done_at is the first instant at which the      *)
(* issue was done, and NULL if there is none (update_first_done_at).       *)
THEOREM FirstDoneIsFirstSafe == Spec => []FirstDoneIsFirst
<1>1. HistoryInv => FirstDoneIsFirst
  BY DEF HistoryInv
<1> QED  BY <1>1, HistoryInvSafe, PTL
===============================================================================
