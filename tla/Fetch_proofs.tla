----------------------------- MODULE Fetch_proofs -----------------------------
(***************************************************************************)
(* Proofs about Fetch, for any issues, changelogs, page caps and numbers   *)
(* of attempts and edits: FetchInv is inductive, and a search that ends    *)
(* has what its properties promise.                                        *)
(***************************************************************************)
EXTENDS Fetch, TLAPS, FiniteSetTheorems, SequenceTheorems

(* The inductive invariant behind the safety properties.                   *)

(* Where the pages read so far end. *)
Reached == IF pc \in {"page", "changelog"} THEN startAt + cap ELSE startAt

(* Between two requests there is no page, and a page is about this order.  *)
Paging == /\ pc \in {"search", "done"} => page = <<>>
          /\ pc \in {"page", "changelog"} => total = Len(order) /\ (stalled \/ cap > 0)

(* Undisturbed, what was yielded and the page are the order up to there.   *)
InOrder == edits = 0 /\ ~stalled =>
              /\ pc = "done" => yielded = order
              /\ pc \in {"search", "page", "changelog"} =>
                    yielded \o page = SubSeq(order, 1, Min({Reached, Len(order)}))

(* The issues neither read nor yet to come are no more than the edits. *)
Ahead   == IF pc = "done" THEN {} ELSE {order[k] : k \in Reached + 1 .. Len(order)}
Skipped == Issues \ (ToSet(yielded) \cup ToSet(page) \cup Ahead)
FewSkipped == ~stalled /\ pc # "failed" => Cardinality(Skipped) <= edits

Counted == \A i \in ToSet(yielded) :
              i \in ToSet(page) \/ kept[i] = 1 .. TotalOf[i] \/ i \in truncated

(* Answers from the first history on leave no gap behind what is kept. *)
Gapless == \A i \in Issues :
              /\ kept[i] \subseteq 1 .. TotalOf[i]
              /\ i \notin sliced => offered[i] \subseteq kept[i] /\ kept[i] = 1 .. Cardinality(kept[i])

FetchInv == TypeOK /\ Paging /\ InOrder /\ FewSkipped /\ Counted /\ Gapless
-----------------------------------------------------------------------------
LEMMA MinOf ==
  ASSUME NEW a \in Int, NEW b \in Int
  PROVE  Min({a, b}) = IF a <= b THEN a ELSE b
<1> DEFINE m == IF a <= b THEN a ELSE b
<1>1. m \in {a, b} /\ \A y \in {a, b} : m =< y
  OBVIOUS
<1>2. \A x \in {a, b} : (\A y \in {a, b} : x =< y) => x = m
  OBVIOUS
<1> QED  BY <1>1, <1>2 DEF Min

LEMMA MaxOf ==
  ASSUME NEW a \in Int, NEW b \in Int
  PROVE  Max({a, b}) = IF a >= b THEN a ELSE b
<1> DEFINE m == IF a >= b THEN a ELSE b
<1>1. m \in {a, b} /\ \A y \in {a, b} : m >= y
  OBVIOUS
<1>2. \A x \in {a, b} : (\A y \in {a, b} : x >= y) => x = m
  OBVIOUS
<1> QED  BY <1>1, <1>2 DEF Max

(* Moving an entry to the end shifts those behind it by one. *)
LEMMA MovedToEnd ==
  ASSUME NEW S, NEW s \in Seq(S), NEW n \in 1 .. Len(s) - 1
  PROVE  LET t == Append(RemoveAt(s, n), s[n])
         IN  /\ t \in Seq(S) /\ Len(t) = Len(s)
             /\ \A k \in 1 .. Len(s) :
                   t[k] = IF k < n THEN s[k] ELSE IF k < Len(s) THEN s[k + 1] ELSE s[n]
<1> DEFINE a == SubSeq(s, 1, n - 1)
           b == SubSeq(s, n + 1, Len(s))
<1>0. Len(s) \in Nat /\ n \in Nat /\ 1 <= n /\ n <= Len(s) - 1
  OBVIOUS
<1>1. /\ a \in Seq(S) /\ Len(a) = n - 1 /\ \A k \in 1 .. n - 1 : a[k] = s[k]
  BY <1>0, SubSeqProperties
<1>2. /\ b \in Seq(S) /\ Len(b) = Len(s) - n /\ \A k \in 1 .. Len(s) - n : b[k] = s[k + n]
  BY <1>0, SubSeqProperties
<1>3. RemoveAt(s, n) = a \o b
  BY DEF RemoveAt
<1> HIDE DEF a, b
<1> DEFINE c == a \o b
<1>4. /\ c \in Seq(S) /\ Len(c) = Len(s) - 1
      /\ \A k \in 1 .. Len(s) - 1 : c[k] = IF k <= n - 1 THEN a[k] ELSE b[k - (n - 1)]
  <2>1. /\ c \in Seq(S) /\ Len(c) = Len(a) + Len(b)
        /\ \A k \in 1 .. Len(a) + Len(b) : c[k] = IF k <= Len(a) THEN a[k] ELSE b[k - Len(a)]
    BY <1>1, <1>2, ConcatProperties, Zenon
  <2>2. Len(a) + Len(b) = Len(s) - 1
    BY <1>0, <1>1, <1>2
  <2> QED  BY <1>1, <2>1, <2>2
<1> HIDE DEF c
<1>5. \A k \in 1 .. Len(s) - 1 : c[k] = IF k < n THEN s[k] ELSE s[k + 1]
  <2> SUFFICES ASSUME NEW k \in 1 .. Len(s) - 1
               PROVE  c[k] = IF k < n THEN s[k] ELSE s[k + 1]
    OBVIOUS
  <2>1. CASE k < n
    BY <1>0, <1>1, <1>4, <2>1
  <2>2. CASE ~(k < n)
    <3>1. k - (n - 1) \in 1 .. Len(s) - n /\ (k - (n - 1)) + n = k + 1
      BY <1>0, <2>2
    <3> QED  BY <1>0, <1>2, <1>4, <2>2, <3>1
  <2> QED  BY <2>1, <2>2
<1>6. s[n] \in S
  BY <1>0
<1> DEFINE t == Append(c, s[n])
<1>7. /\ t \in Seq(S) /\ Len(t) = Len(s)
      /\ \A k \in 1 .. Len(s) - 1 : t[k] = c[k]
      /\ t[Len(s)] = s[n]
  BY <1>0, <1>4, <1>6, AppendProperties
<1> HIDE DEF t
<1>8. \A k \in 1 .. Len(s) :
         t[k] = IF k < n THEN s[k] ELSE IF k < Len(s) THEN s[k + 1] ELSE s[n]
  <2> SUFFICES ASSUME NEW k \in 1 .. Len(s)
               PROVE  t[k] = IF k < n THEN s[k] ELSE IF k < Len(s) THEN s[k + 1] ELSE s[n]
    OBVIOUS
  <2>1. CASE k < Len(s)
    BY <1>0, <1>5, <1>7, <2>1
  <2>2. CASE k = Len(s)
    BY <1>0, <1>7, <2>2
  <2> QED  BY <1>0, <2>1, <2>2
<1> QED  BY <1>3, <1>7, <1>8 DEF c, t
-----------------------------------------------------------------------------
(* What the order, and a page of it, always is.                            *)

LEMMA SequenceOfIssues ==
  ASSUME NEW s \in SetToSeqs(Issues)
  PROVE  /\ s \in Seq(Issues) /\ Len(s) = Cardinality(Issues) /\ Len(s) \in Nat
         /\ \A k \in 1 .. Len(s) : s[k] \in Issues
         /\ \A k, l \in 1 .. Len(s) : k # l => s[k] # s[l]
         /\ \A i \in Issues : \E k \in 1 .. Len(s) : s[k] = i
<1> DEFINE D == 1 .. Cardinality(Issues)
<1>1. s \in [D -> Issues] /\ \A k, l \in D : k # l => s[k] # s[l]
  BY DEF SetToSeqs
<1>2. Cardinality(Issues) \in Nat /\ IsFiniteSet(Issues)
  BY IssueAssumption, FS_CardinalityType
<1>3. s \in Seq(Issues) /\ Len(s) = Cardinality(Issues)
  BY <1>1, <1>2
<1>4. s \in Injection(D, Issues)
  BY <1>1 DEF Injection, IsInjective
<1>5. Cardinality(D) = Cardinality(Issues)
  BY <1>2, FS_Interval
<1>6. s \in Surjection(D, Issues)
  BY <1>2, <1>4, <1>5, FS_Injection
<1> QED  BY <1>1, <1>2, <1>3, <1>6 DEF Surjection

(* An edited order still holds each issue once. *)
LEMMA EditedOrder ==
  ASSUME NEW s \in SetToSeqs(Issues), NEW n \in 1 .. Len(s) - 1
  PROVE  Append(RemoveAt(s, n), s[n]) \in SetToSeqs(Issues)
<1> DEFINE t == Append(RemoveAt(s, n), s[n])
<1>1. /\ s \in Seq(Issues) /\ Len(s) = Cardinality(Issues) /\ Len(s) \in Nat
      /\ \A k \in 1 .. Len(s) : s[k] \in Issues
      /\ \A k, l \in 1 .. Len(s) : k # l => s[k] # s[l]
  BY SequenceOfIssues
<1>2. /\ t \in Seq(Issues) /\ Len(t) = Len(s)
      /\ \A k \in 1 .. Len(s) :
            t[k] = IF k < n THEN s[k] ELSE IF k < Len(s) THEN s[k + 1] ELSE s[n]
  BY <1>1, MovedToEnd
<1> HIDE DEF t
<1>3. t \in [1 .. Cardinality(Issues) -> Issues]
  BY <1>1, <1>2
<1> DEFINE from(k) == IF k < n THEN k ELSE IF k < Len(s) THEN k + 1 ELSE n
<1>4. \A k \in 1 .. Len(s) : from(k) \in 1 .. Len(s) /\ t[k] = s[from(k)]
  BY <1>1, <1>2
<1>5. \A k, l \in 1 .. Len(s) : k # l => from(k) # from(l)
  BY <1>1
<1> HIDE DEF from
<1>6. \A k, l \in 1 .. Len(s) : k # l => t[k] # t[l]
  BY <1>1, <1>4, <1>5
<1>7. t \in SetToSeqs(Issues)
  BY <1>1, <1>3, <1>6 DEF SetToSeqs
<1> QED  BY <1>7 DEF t

(* Moving the head of a sequence to the end of another joins the same. *)
LEMMA HeadAcross ==
  ASSUME NEW S, NEW s \in Seq(S), NEW t \in Seq(S), t # <<>>
  PROVE  Append(s, Head(t)) \o Tail(t) = s \o t
<1>1. Head(t) \in S /\ Tail(t) \in Seq(S)
  BY HeadTailProperties
<1>2. Append(s, Head(t)) = s \o <<Head(t)>>
  BY <1>1, AppendIsConcat
<1>3. <<Head(t)>> \in Seq(S)
  BY <1>1
<1>4. (s \o <<Head(t)>>) \o Tail(t) = s \o (<<Head(t)>> \o Tail(t))
  BY <1>1, <1>3, ConcatAssociative
<1>5. Len(t) \in Nat \ {0} /\ SubSeq(t, 1, Len(t)) = t
  BY EmptySeq, SubSeqFull
<1>6. t = <<t[1]>> \o SubSeq(t, 2, Len(t))
  <2>1. 1 \in 1 .. Len(t) /\ Len(t) \in 1 .. Len(t) /\ 1 + 1 = 2
    BY <1>5
  <2>2. SubSeq(t, 1, Len(t)) = <<t[1]>> \o SubSeq(t, 1 + 1, Len(t))
    BY <2>1, SubSeqRecursiveFirst
  <2> QED  BY <1>5, <2>1, <2>2
<1>7. Tail(t) = SubSeq(t, 2, Len(t)) /\ Head(t) = t[1]
  BY TailIsSubSeq
<1> QED  BY <1>2, <1>4, <1>6, <1>7

(* The elements of both are the same before and after. *)
LEMMA ElementsAcross ==
  ASSUME NEW S, NEW s \in Seq(S), NEW t \in Seq(S), t # <<>>
  PROVE  /\ ToSet(Append(s, Head(t))) = ToSet(s) \cup {Head(t)}
         /\ ToSet(t) = ToSet(Tail(t)) \cup {Head(t)}
<1>1. /\ Head(t) \in S /\ Tail(t) \in Seq(S) /\ Len(Tail(t)) = Len(t) - 1
      /\ \A k \in 1 .. Len(Tail(t)) : Tail(t)[k] = t[k + 1]
  BY HeadTailProperties
<1>2. Len(s) \in Nat /\ Len(t) \in Nat \ {0} /\ Head(t) = t[1]
  BY EmptySeq
<1>3. ToSet(t) = {t[k] : k \in 1 .. Len(t)} /\ ToSet(Tail(t)) = {Tail(t)[k] : k \in 1 .. Len(t) - 1}
  <2>1. DOMAIN t = 1 .. Len(t) /\ DOMAIN Tail(t) = 1 .. Len(t) - 1
    BY <1>1, LenProperties
  <2> QED  BY <2>1 DEF ToSet
<1>4. ToSet(t) = ToSet(Tail(t)) \cup {Head(t)}
  <2>1. \A k \in 1 .. Len(t) : k = 1 \/ (k - 1 \in 1 .. Len(t) - 1 /\ Tail(t)[k - 1] = t[k])
    BY <1>1, <1>2
  <2>2. ToSet(t) \subseteq ToSet(Tail(t)) \cup {Head(t)}
    BY <1>2, <1>3, <2>1
  <2>3. \A k \in 1 .. Len(t) - 1 : k + 1 \in 1 .. Len(t) /\ Tail(t)[k] = t[k + 1]
    BY <1>1, <1>2
  <2>4. 1 \in 1 .. Len(t)
    BY <1>2
  <2> QED  BY <1>2, <1>3, <2>2, <2>3, <2>4
<1> DEFINE u == Append(s, Head(t))
<1>5. /\ u \in Seq(S) /\ Len(u) = Len(s) + 1 /\ u[Len(s) + 1] = Head(t)
      /\ \A k \in 1 .. Len(s) : u[k] = s[k]
  BY <1>1, AppendProperties
<1> HIDE DEF u
<1>6. ToSet(u) = {u[k] : k \in 1 .. Len(s) + 1} /\ ToSet(s) = {s[k] : k \in 1 .. Len(s)}
  BY <1>5 DEF ToSet
<1>7. 1 .. Len(s) + 1 = (1 .. Len(s)) \cup {Len(s) + 1}
  BY <1>2
<1>8. ToSet(u) = ToSet(s) \cup {Head(t)}
  <2>1. ToSet(u) = {u[k] : k \in 1 .. Len(s)} \cup {u[Len(s) + 1]}
    BY <1>6, <1>7
  <2>2. {u[k] : k \in 1 .. Len(s)} = {s[k] : k \in 1 .. Len(s)}
    BY <1>5
  <2> QED  BY <1>5, <1>6, <2>1, <2>2
<1> QED  BY <1>4, <1>8 DEF u

(* The first n histories are n. *)
LEMMA UpTo ==
  ASSUME NEW n \in Nat
  PROVE  IsFiniteSet(1 .. n) /\ Cardinality(1 .. n) = n
<1>1. n \in Int /\ 1 \in Int /\ (1 > n => n = 0) /\ n - 1 + 1 = n
  OBVIOUS
<1>2. IsFiniteSet(1 .. n) /\ Cardinality(1 .. n) = IF 1 > n THEN 0 ELSE n - 1 + 1
  BY <1>1, FS_Interval
<1> QED  BY <1>1, <1>2

(* Of an answer from the first history on, the slice is what follows. *)
LEMMA SlicedFromFirst ==
  ASSUME NEW n \in Nat, NEW c \in Nat
  PROVE  Sliced(1 .. n, c) = c + 1 .. n
<1>1. ASSUME NEW h \in 1 .. n PROVE Cardinality({g \in 1 .. n : g < h}) = h - 1
  <2>1. {g \in 1 .. n : g < h} = 1 .. h - 1
    OBVIOUS
  <2>2. Cardinality(1 .. h - 1) = h - 1
    BY FS_Interval
  <2> QED  BY <2>1, <2>2
<1>2. Sliced(1 .. n, c) = {h \in 1 .. n : h - 1 >= c}
  BY <1>1 DEF Sliced
<1>3. \A h \in Int : h \in 1 .. n /\ h - 1 >= c <=> h \in c + 1 .. n
  OBVIOUS
<1>4. \A h : h \in {g \in 1 .. n : g - 1 >= c} <=> h \in c + 1 .. n
  BY <1>3
<1> QED  BY <1>2, <1>4
-----------------------------------------------------------------------------
(* The invariant, step by step.                                            *)

(* What an answer may hold lies within the changelog. *)
LEMMA Within ==
  ASSUME TypeOK
  PROVE  /\ Inline \in Nat
         /\ \A i \in Issues : /\ TotalOf[i] \in Nat /\ 1 .. TotalOf[i] \subseteq Histories
                              /\ 1 .. Min({Inline, TotalOf[i]}) \subseteq 1 .. TotalOf[i]
                              /\ Min({Inline, TotalOf[i]}) \in Nat
                              /\ \A sent \in Answers(i) : sent \subseteq 1 .. TotalOf[i]
<1>1. Inline \in Nat /\ \A i \in Issues : TotalOf[i] \in Nat
  BY IssueAssumption, ServerAssumption
<1>2. \A i \in Issues : Min({Inline, TotalOf[i]}) = IF Inline <= TotalOf[i] THEN Inline ELSE TotalOf[i]
  BY <1>1, MinOf
<1>3. \A i \in Issues : \A sent \in Answers(i) : sent \subseteq 1 .. TotalOf[i]
  BY <1>1 DEF Answers
<1>4. \A i \in Issues : 1 .. TotalOf[i] \subseteq Histories
  BY DEF Histories
<1> QED  BY <1>1, <1>2, <1>3, <1>4

(* The page a server caps at m. *)
LEMMA PageOfOrder ==
  ASSUME TypeOK, NEW m \in Caps
  PROVE  LET w    == IF m >= 1 THEN m ELSE 1
             last == IF startAt + w <= Len(order) THEN startAt + w ELSE Len(order)
             p    == SubSeq(order, startAt + 1, Min({startAt + Max({m, 1}), Len(order)}))
         IN  /\ p = SubSeq(order, startAt + 1, last) /\ p \in Seq(Issues)
             /\ Len(p) = IF startAt + 1 <= last THEN last - startAt ELSE 0
             /\ \A k \in 1 .. last - startAt : p[k] = order[startAt + k]
             /\ p = <<>> <=> Len(order) <= startAt
<1> DEFINE w    == IF m >= 1 THEN m ELSE 1
           last == IF startAt + w <= Len(order) THEN startAt + w ELSE Len(order)
           p    == SubSeq(order, startAt + 1, last)
<1>1. startAt \in Nat /\ m \in Nat
  BY ServerAssumption DEF TypeOK
<1>2. order \in Seq(Issues) /\ Len(order) \in Nat /\ \A k \in 1 .. Len(order) : order[k] \in Issues
  BY SequenceOfIssues DEF TypeOK
<1>3. Max({m, 1}) = w /\ w \in Nat /\ w >= 1
  BY <1>1, MaxOf
<1> HIDE DEF w
<1>4. Min({startAt + Max({m, 1}), Len(order)}) = last /\ last \in Nat /\ last <= Len(order)
  <2>1. startAt + w \in Int /\ Len(order) \in Int
    BY <1>1, <1>2, <1>3
  <2>2. Min({startAt + w, Len(order)}) = last
    BY <2>1, MinOf
  <2>3. Min({startAt + Max({m, 1}), Len(order)}) = Min({startAt + w, Len(order)})
    BY <1>3, Zenon
  <2>4. last \in Nat /\ last <= Len(order)
    BY <1>1, <1>2, <1>3
  <2> QED  BY <2>2, <2>3, <2>4
<1>5. \A k \in startAt + 1 .. last : order[k] \in Issues
  BY <1>1, <1>2, <1>4
<1>6. startAt + 1 <= last <=> startAt < Len(order)
  BY <1>1, <1>2, <1>3
<1> HIDE DEF last
<1>7. startAt + 1 \in Int /\ last \in Int
  BY <1>1, <1>4
<1>8. /\ p \in Seq(Issues)
      /\ Len(p) = IF startAt + 1 <= last THEN last - (startAt + 1) + 1 ELSE 0
      /\ \A k \in 1 .. last - (startAt + 1) + 1 : p[k] = order[startAt + 1 + k - 1]
  BY <1>5, <1>7, SubSeqProperties
<1>9. last - (startAt + 1) + 1 = last - startAt
  BY <1>1, <1>4
<1>10. \A k \in 1 .. last - startAt : p[k] = order[startAt + k]
  <2> SUFFICES ASSUME NEW k \in 1 .. last - startAt PROVE p[k] = order[startAt + k]
    OBVIOUS
  <2>1. startAt + 1 + k - 1 = startAt + k
    BY <1>1
  <2>2. p[k] = order[startAt + 1 + k - 1]
    BY <1>8, <1>9
  <2> QED  BY <2>1, <2>2
<1>11. p = <<>> <=> Len(p) = 0
  BY <1>8, EmptySeq
<1>12. p = <<>> <=> Len(order) <= startAt
  BY <1>1, <1>2, <1>4, <1>6, <1>8, <1>9, <1>11
<1> HIDE DEF p
<1>13. Len(p) = IF startAt + 1 <= last THEN last - startAt ELSE 0
  BY <1>8, <1>9
<1> QED  BY <1>4, <1>8, <1>10, <1>12, <1>13 DEF w, last, p

(* What the client may do keeps every variable among its values. *)
LEMMA TypeStep ==
  ASSUME TypeOK, [Next]_vars
  PROVE  TypeOK'
<1> USE DEF TypeOK
<1>0. /\ MaxAttempts \in Nat \ {0} /\ MaxEdits \in Nat /\ Inline \in Nat
      /\ \A c \in Caps \cup {0} : c \in Nat
  BY BoundAssumption, ServerAssumption
<1>1. ASSUME NEW n \in DOMAIN order, Edit(n) PROVE TypeOK'
  <2>1. order \in SetToSeqs(Issues) /\ order \in Seq(Issues) /\ Len(order) \in Nat
    BY SequenceOfIssues
  <2>2. n \in 1 .. Len(order) - 1
    <3>1. n \in 1 .. Len(order) /\ n < Len(order)
      BY <1>1, <2>1 DEF Edit
    <3> QED  BY <2>1, <3>1
  <2>3. order' \in SetToSeqs(Issues)
    BY <1>1, <2>1, <2>2, EditedOrder DEF Edit
  <2>4. edits' \in 0 .. MaxEdits
    BY <1>0, <1>1 DEF Edit
  <2> QED  BY <1>1, <2>3, <2>4 DEF Edit
<1>2. CASE Retry
  <2>1. attempt' \in 1 .. MaxAttempts /\ pc' \in {pc, "failed"}
    BY <1>0, <1>2 DEF Retry, GivesUp
  <2> QED  BY <1>2, <2>1 DEF Retry
<1>3. CASE Refuse
  BY <1>3 DEF Refuse, Refused
<1>4. CASE SearchAnswer
  <2>1. PICK m \in Caps :
          /\ page' = SubSeq(order, startAt + 1, Min({startAt + Max({m, 1}), Len(order)}))
          /\ cap' = m /\ total' = Len(order) /\ attempt' = 1
          /\ pc' \in {"done", "page"}
          /\ stalled' = (stalled \/ (m = 0 /\ page' # <<>>))
          /\ UNCHANGED <<order, edits, startAt, yielded, kept, offered, truncated, sliced>>
    BY <1>4 DEF SearchAnswer
  <2>2. page' \in Seq(Issues)
    BY <2>1, PageOfOrder
  <2>3. Len(order) \in Nat
    BY SequenceOfIssues
  <2>4. stalled' \in BOOLEAN
    BY <2>1
  <2>5. /\ cap' \in Caps \cup {0} /\ total' \in Nat /\ attempt' \in 1 .. MaxAttempts
        /\ pc' \in {"done", "page"}
    BY <1>0, <2>1, <2>3
  <2> QED  BY <1>4, <2>2, <2>4, <2>5 DEF SearchAnswer
<1>5. CASE PageDone
  <2>1. Advance(cap) \subseteq Nat
    BY <1>0 DEF Advance
  <2> QED  BY <1>5, <2>1 DEF PageDone
<1>6. ASSUME page # <<>>, NEW got \in SUBSET Histories, Leave(got)
      PROVE  /\ pc' = "page" /\ page' \in Seq(Issues) /\ yielded' \in Seq(Issues)
             /\ kept' \in [Issues -> SUBSET Histories] /\ truncated' \subseteq Issues
  <2>1. Head(page) \in Issues /\ Tail(page) \in Seq(Issues)
    BY <1>6, HeadTailProperties
  <2>2. Append(yielded, Head(page)) \in Seq(Issues)
    BY <2>1, AppendProperties
  <2> QED  BY <1>6, <2>1, <2>2 DEF Leave
<1>7. CASE TakeIssue
  <2> DEFINE i   == Head(page)
             got == 1 .. Min({Inline, TotalOf[i]})
  <2>1. page # <<>> /\ i \in Issues
    BY <1>7, HeadTailProperties DEF TakeIssue
  <2>2. got \in SUBSET Histories
    BY <2>1, Within
  <2>3. /\ offered' = [offered EXCEPT ![i] = got] /\ attempt' = 1
        /\ UNCHANGED <<order, edits, startAt, total, cap, stalled, sliced>>
        /\ \/ /\ pc' = "changelog" /\ kept' = [kept EXCEPT ![i] = got]
              /\ UNCHANGED <<page, yielded, truncated>>
           \/ Leave(got)
    BY <1>7 DEF TakeIssue
  <2> HIDE DEF got
  <2>4. offered' \in [Issues -> SUBSET Histories]
    BY <2>1, <2>2, <2>3
  <2>5. CASE Leave(got)
    <3>1. /\ pc' = "page" /\ page' \in Seq(Issues) /\ yielded' \in Seq(Issues)
          /\ kept' \in [Issues -> SUBSET Histories] /\ truncated' \subseteq Issues
      BY <1>6, <2>1, <2>2, <2>5
    <3> QED  BY <1>0, <2>3, <2>4, <3>1
  <2>6. CASE pc' = "changelog" /\ kept' = [kept EXCEPT ![i] = got] /\ UNCHANGED <<page, yielded, truncated>>
    BY <1>0, <2>1, <2>2, <2>3, <2>4, <2>6
  <2> QED  BY <2>3, <2>5, <2>6
<1>8. CASE ChangelogAnswer
  <2> DEFINE i == Head(page)
  <2>1. page # <<>> /\ i \in Issues
    BY <1>8, HeadTailProperties DEF ChangelogAnswer
  <2>2. PICK sent \in Answers(i) :
            LET fresh == Sliced(sent, Cardinality(kept[i])) \ kept[i]
                got   == kept[i] \cup fresh
            IN  /\ offered' = [offered EXCEPT ![i] = @ \cup sent]
                /\ sliced' = IF 1 \in sent THEN sliced ELSE sliced \cup {i}
                /\ IF Stops(fresh, i, got)
                   THEN Leave(got)
                   ELSE /\ kept' = [kept EXCEPT ![i] = got]
                        /\ UNCHANGED <<pc, page, yielded, truncated>>
    BY <1>8 DEF ChangelogAnswer
  <2> DEFINE fresh == Sliced(sent, Cardinality(kept[i])) \ kept[i]
             got   == kept[i] \cup fresh
  <2>3. sent \in SUBSET Histories /\ got \in SUBSET Histories
    <3>1. sent \subseteq 1 .. TotalOf[i] /\ 1 .. TotalOf[i] \subseteq Histories
      BY <2>1, Within
    <3>2. fresh \subseteq sent
      BY DEF Sliced
    <3> QED  BY <2>1, <3>1, <3>2
  <2> HIDE DEF fresh
  <2>7. Leave(got) \/ (kept' = [kept EXCEPT ![i] = got] /\ UNCHANGED <<pc, page, yielded, truncated>>)
    BY <2>2 DEF fresh
  <2> HIDE DEF got
  <2>4. offered' \in [Issues -> SUBSET Histories] /\ sliced' \subseteq Issues
    BY <2>1, <2>2, <2>3
  <2>5. CASE Leave(got)
    <3>1. /\ pc' = "page" /\ page' \in Seq(Issues) /\ yielded' \in Seq(Issues)
          /\ kept' \in [Issues -> SUBSET Histories] /\ truncated' \subseteq Issues
      BY <1>6, <2>1, <2>3, <2>5
    <3> QED  BY <1>0, <1>8, <2>4, <3>1 DEF ChangelogAnswer
  <2>6. CASE kept' = [kept EXCEPT ![i] = got] /\ UNCHANGED <<pc, page, yielded, truncated>>
    BY <1>0, <1>8, <2>1, <2>3, <2>4, <2>6 DEF ChangelogAnswer
  <2> QED  BY <2>5, <2>6, <2>7
<1>9. CASE UNCHANGED vars
  BY <1>9 DEF vars
<1> QED  BY <1>1, <1>2, <1>3, <1>4, <1>5, <1>7, <1>8, <1>9 DEF Next, Client

(* The part of the invariant that is about pages. *)
PageInv == Paging /\ InOrder /\ FewSkipped /\ Counted

(* Less missing, or one more after an edit, is still few. *)
LEMMA FewerSkipped ==
  ASSUME FewSkipped, ~stalled, pc # "failed", edits \in Nat,
         NEW T, T \subseteq Skipped
  PROVE  IsFiniteSet(T) /\ Cardinality(T) <= edits /\ Cardinality(T) \in Nat
<1>1. IsFiniteSet(Skipped)
  BY IssueAssumption, FS_Subset DEF Skipped
<1>2. IsFiniteSet(T) /\ Cardinality(T) <= Cardinality(Skipped)
  BY <1>1, FS_Subset
<1>3. Cardinality(T) \in Nat /\ Cardinality(Skipped) \in Nat
  BY <1>1, <1>2, FS_CardinalityType
<1> QED  BY <1>2, <1>3 DEF FewSkipped

(* The request goes on about the issue at the head of the same page, or    *)
(* the search fails.                                                       *)
LEMMA SamePageKeeps ==
  ASSUME TypeOK, PageInv,
         UNCHANGED <<order, edits, startAt, total, cap, page, yielded, truncated, stalled>>,
         \/ pc' = "failed" \/ pc' = pc
         \/ pc = "page" /\ pc' = "changelog",
         UNCHANGED kept \/ (page # <<>> /\ \E got : kept' = [kept EXCEPT ![Head(page)] = got])
  PROVE  PageInv'
<1> USE DEF PageInv
<1>1. Paging'
  BY DEF Paging
<1>2. InOrder'
  BY DEF InOrder, Reached
<1>3. ASSUME ~stalled, pc' # "failed" PROVE Skipped' = Skipped /\ pc # "failed"
  <2>1. Ahead' = Ahead
    BY <1>3 DEF Ahead, Reached
  <2> QED  BY <1>3, <2>1 DEF Skipped, ToSet
<1>4. FewSkipped'
  BY <1>3 DEF FewSkipped
<1>5. Counted'
  <2> SUFFICES ASSUME NEW i \in ToSet(yielded), i \notin ToSet(page)
               PROVE  kept'[i] = 1 .. TotalOf[i] \/ i \in truncated
    BY DEF Counted, ToSet
  <2>1. kept[i] = 1 .. TotalOf[i] \/ i \in truncated
    BY DEF Counted
  <2>2. page # <<>> => Head(page) \in ToSet(page)
    BY ElementsAcross DEF TypeOK
  <2>3. i \in Issues
    BY DEF TypeOK, ToSet
  <2> QED  BY <2>1, <2>2, <2>3 DEF TypeOK
<1> QED  BY <1>1, <1>2, <1>4, <1>5

(* An issue is left complete or counted, and joins what was yielded. *)
LEMMA LeaveKeeps ==
  ASSUME TypeOK, PageInv, pc \in {"page", "changelog"}, page # <<>>,
         NEW got \in SUBSET (1 .. TotalOf[Head(page)]), Leave(got),
         UNCHANGED <<order, edits, startAt, total, cap, stalled>>
  PROVE  PageInv'
<1> USE DEF PageInv
<1> DEFINE i == Head(page)
<1>1. /\ pc' = "page" /\ page' = Tail(page) /\ yielded' = Append(yielded, i)
      /\ kept' = [kept EXCEPT ![i] = got]
      /\ truncated' = IF FallsShort(i, got) THEN truncated \cup {i} ELSE truncated
  BY DEF Leave
<1>2. /\ page \in Seq(Issues) /\ yielded \in Seq(Issues) /\ i \in Issues
      /\ TotalOf[i] \in Nat
  BY HeadTailProperties, Within DEF TypeOK
<1>3. ToSet(yielded') = ToSet(yielded) \cup {i} /\ ToSet(page) = ToSet(page') \cup {i}
  BY <1>1, <1>2, ElementsAcross
<1>4. Reached' = Reached
  BY <1>1 DEF Reached
<1>5. Paging'
  BY <1>1 DEF Paging
<1>6. InOrder'
  <2>1. yielded' \o page' = yielded \o page
    BY <1>1, <1>2, HeadAcross
  <2> QED  BY <1>1, <1>4, <2>1 DEF InOrder
<1>7. FewSkipped'
  <2> SUFFICES ASSUME ~stalled PROVE Cardinality(Skipped') <= edits
    BY DEF FewSkipped
  <2>1. Ahead' = Ahead
    BY <1>1, <1>4 DEF Ahead
  <2>2. Skipped' \subseteq Skipped
    BY <1>3, <2>1 DEF Skipped
  <2>3. edits \in Nat
    BY DEF TypeOK
  <2> QED  BY <2>2, <2>3, FewerSkipped
<1>8. Counted'
  <2> SUFFICES ASSUME NEW j \in ToSet(yielded'), j \notin ToSet(page')
               PROVE  kept'[j] = 1 .. TotalOf[j] \/ j \in truncated'
    BY DEF Counted
  <2>1. CASE j = i
    <3>1. FallsShort(i, got) => i \in truncated'
      BY <1>1
    <3>2. ~FallsShort(i, got) => got = 1 .. TotalOf[i]
      <4>1. IsFiniteSet(1 .. TotalOf[i]) /\ Cardinality(1 .. TotalOf[i]) = TotalOf[i]
        BY <1>2, UpTo
      <4>2. /\ Cardinality(got) <= TotalOf[i] /\ IsFiniteSet(got)
            /\ Cardinality(got) = TotalOf[i] => got = 1 .. TotalOf[i]
        BY <4>1, FS_Subset
      <4>3. Cardinality(got) \in Nat
        BY <4>2, FS_CardinalityType
      <4> QED  BY <1>2, <4>2, <4>3 DEF FallsShort
    <3>3. kept'[i] = got
      BY <1>1, <1>2 DEF TypeOK
    <3> QED  BY <2>1, <3>1, <3>2, <3>3
  <2>2. CASE j # i
    <3>1. j \in ToSet(yielded) /\ j \notin ToSet(page)
      BY <1>3, <2>2
    <3>2. j \in Issues
      BY <1>2, <3>1 DEF ToSet
    <3>3. kept'[j] = kept[j] /\ truncated \subseteq truncated'
      BY <1>1, <1>2, <2>2, <3>2 DEF TypeOK
    <3>4. kept[j] = 1 .. TotalOf[j] \/ j \in truncated
      BY <3>1 DEF Counted
    <3> QED  BY <3>3, <3>4
  <2> QED  BY <2>1, <2>2
<1> QED  BY <1>5, <1>6, <1>7, <1>8

(* An edit costs the pages to come at most the issue that was next. *)
LEMMA EditKeeps ==
  ASSUME TypeOK, PageInv, NEW n \in DOMAIN order, Edit(n)
  PROVE  PageInv'
<1> USE DEF PageInv
<1>1. /\ order \in Seq(Issues) /\ Len(order) \in Nat /\ order \in SetToSeqs(Issues)
      /\ \A k \in 1 .. Len(order) : order[k] \in Issues
  BY SequenceOfIssues DEF TypeOK
<1>2. n \in 1 .. Len(order) - 1
  <2>1. n \in 1 .. Len(order) /\ n < Len(order)
    BY <1>1 DEF Edit
  <2> QED  BY <1>1, <2>1
<1>3. /\ Len(order') = Len(order)
      /\ \A k \in 1 .. Len(order) :
            order'[k] = IF k < n THEN order[k] ELSE IF k < Len(order) THEN order[k + 1] ELSE order[n]
  BY <1>1, <1>2, MovedToEnd DEF Edit
<1>4. /\ pc \notin {"done", "failed"} /\ edits' = edits + 1 /\ edits \in Nat
      /\ UNCHANGED <<pc, startAt, total, cap, page, yielded, kept, truncated, stalled>>
  BY DEF Edit, TypeOK
<1>5. Paging'
  BY <1>3, <1>4 DEF Paging
<1>6. InOrder'
  BY <1>4 DEF InOrder
<1>7. FewSkipped'
  <2> SUFFICES ASSUME ~stalled PROVE Cardinality(Skipped') <= edits + 1
    BY <1>4 DEF FewSkipped
  <2> DEFINE r == Reached
             x == order[r + 1]
  <2>1. r \in Nat /\ Reached' = r
    BY <1>4, ServerAssumption DEF Reached, TypeOK
  <2>2. /\ Ahead = {order[k] : k \in r + 1 .. Len(order)}
        /\ Ahead' = {order'[k] : k \in r + 1 .. Len(order)}
    BY <1>3, <1>4, <2>1 DEF Ahead
  <2> HIDE DEF r
  <2>3. ASSUME NEW k \in r + 1 .. Len(order), k # r + 1 PROVE order[k] \in Ahead'
    <3>0. k \in Nat /\ r + 1 < k /\ k <= Len(order)
      BY <1>1, <2>1, <2>3
    <3>1. CASE k < n
      BY <1>1, <1>2, <1>3, <2>1, <2>2, <3>0, <3>1
    <3>2. CASE k = n
      <4>1. Len(order) \in r + 1 .. Len(order) /\ order'[Len(order)] = order[n]
        BY <1>1, <1>2, <1>3, <2>1, <3>0
      <4> QED  BY <2>2, <3>2, <4>1
    <3>3. CASE n < k
      <4>1. k - 1 \in r + 1 .. Len(order) /\ k - 1 \in 1 .. Len(order) /\ k - 1 < Len(order) /\ ~(k - 1 < n)
        BY <1>1, <1>2, <2>1, <3>0, <3>3
      <4>2. order'[k - 1] = order[(k - 1) + 1] /\ (k - 1) + 1 = k
        BY <1>3, <3>0, <4>1
      <4> QED  BY <2>2, <4>1, <4>2
    <3> QED  BY <1>2, <3>0, <3>1, <3>2, <3>3
  <2>4. Ahead \subseteq Ahead' \cup {x}
    BY <2>2, <2>3
  <2>5. Skipped' \ {x} \subseteq Skipped
    BY <1>4, <2>4 DEF Skipped, ToSet
  <2>6. /\ IsFiniteSet(Skipped' \ {x}) /\ Cardinality(Skipped' \ {x}) <= edits
        /\ Cardinality(Skipped' \ {x}) \in Nat
    BY <1>4, <2>5, FewerSkipped
  <2>7. Cardinality((Skipped' \ {x}) \cup {x}) <= edits + 1
    BY <1>4, <2>6, FS_AddElement
  <2>8. IsFiniteSet((Skipped' \ {x}) \cup {x}) /\ Skipped' \subseteq (Skipped' \ {x}) \cup {x}
    BY <2>6, FS_AddElement
  <2>9. Cardinality(Skipped') <= Cardinality((Skipped' \ {x}) \cup {x}) /\ IsFiniteSet(Skipped')
    BY <2>8, FS_Subset
  <2>10. Cardinality(Skipped') \in Nat /\ Cardinality((Skipped' \ {x}) \cup {x}) \in Nat
    BY <2>8, <2>9, FS_CardinalityType
  <2> QED  BY <1>4, <2>7, <2>9, <2>10
<1>8. Counted'
  BY <1>4 DEF Counted, ToSet
<1> QED  BY <1>5, <1>6, <1>7, <1>8

(* A page continues what was yielded; an empty one ends the search. *)
LEMMA SearchKeeps ==
  ASSUME TypeOK, PageInv, SearchAnswer
  PROVE  PageInv'
<1> USE DEF PageInv
<1>1. PICK m \in Caps :
        /\ pc = "search" /\ cap' = m /\ total' = Len(order)
        /\ page' = SubSeq(order, startAt + 1, Min({startAt + Max({m, 1}), Len(order)}))
        /\ stalled' = (stalled \/ (m = 0 /\ page' # <<>>))
        /\ pc' = IF page' = <<>> THEN "done" ELSE "page"
        /\ UNCHANGED <<order, edits, startAt, yielded, kept, offered, truncated, sliced>>
  BY DEF SearchAnswer
<1> DEFINE w    == IF m >= 1 THEN m ELSE 1
           last == IF startAt + w <= Len(order) THEN startAt + w ELSE Len(order)
<1>2. /\ page' = SubSeq(order, startAt + 1, last) /\ page' \in Seq(Issues)
      /\ Len(page') = IF startAt + 1 <= last THEN last - startAt ELSE 0
      /\ \A k \in 1 .. last - startAt : page'[k] = order[startAt + k]
      /\ page' = <<>> <=> Len(order) <= startAt
  BY <1>1, PageOfOrder
<1>3. /\ m \in Nat /\ startAt \in Nat /\ Len(order) \in Nat /\ order \in Seq(Issues)
      /\ page = <<>> /\ yielded \in Seq(Issues) /\ edits \in Nat
  BY <1>1, ServerAssumption, SequenceOfIssues DEF TypeOK, Paging
<1>4. ~stalled' /\ page' # <<>> => m > 0
  <2>1. ~stalled' /\ page' # <<>> => m # 0
    BY <1>1, Zenon
  <2> QED  BY <1>3, <2>1
<1>5. Paging'
  BY <1>1, <1>4 DEF Paging
<1>6. ASSUME edits = 0, ~stalled' PROVE yielded = SubSeq(order, 1, Min({startAt, Len(order)}))
  <2>1. yielded \o page = SubSeq(order, 1, Min({startAt, Len(order)}))
    BY <1>1, <1>6 DEF InOrder, Reached
  <2> QED  BY <1>3, <2>1, ConcatEmptySeq
<1>7. InOrder'
  <2> SUFFICES ASSUME edits = 0, ~stalled'
               PROVE  /\ pc' = "done" => yielded = order
                      /\ pc' = "page" => yielded \o page' = SubSeq(order, 1, Min({startAt + m, Len(order)}))
    BY <1>1 DEF InOrder, Reached
  <2>1. Min({startAt, Len(order)}) = IF startAt <= Len(order) THEN startAt ELSE Len(order)
    BY <1>3, MinOf
  <2>2. CASE page' = <<>>
    <3>1. Min({startAt, Len(order)}) = Len(order)
      BY <1>2, <1>3, <2>1, <2>2
    <3>2. yielded = order
      BY <1>3, <1>6, <3>1, SubSeqFull
    <3> QED  BY <1>1, <2>2, <3>2
  <2>3. CASE page' # <<>>
    <3>1. startAt < Len(order) /\ w = m /\ startAt + m \in Nat
      BY <1>2, <1>3, <1>4, <2>3
    <3>2. Min({startAt, Len(order)}) = startAt
      BY <1>3, <2>1, <3>1
    <3>3. Min({startAt + m, Len(order)}) = last
      BY <1>3, <3>1, MinOf
    <3>4. startAt \in 0 .. Len(order) /\ last \in startAt .. Len(order)
      BY <1>3, <3>1
    <3> HIDE DEF w, last
    <3>5. SubSeq(order, 1, startAt) \o SubSeq(order, startAt + 1, last) = SubSeq(order, 1, last)
      <4>1. 1 \in 1 .. Len(order) + 1 /\ startAt \in 1 - 1 .. Len(order)
        BY <1>3, <3>1
      <4> QED  BY <1>3, <3>4, <4>1, ConcatAdjacentSubSeq
    <3> QED  BY <1>1, <1>2, <1>6, <2>3, <3>2, <3>3, <3>5
  <2> QED  BY <2>2, <2>3
<1>8. FewSkipped'
  <2> SUFFICES ASSUME ~stalled' PROVE Cardinality(Skipped') <= edits
    BY <1>1 DEF FewSkipped
  <2>1. Ahead = {order[k] : k \in startAt + 1 .. Len(order)}
    BY <1>1 DEF Ahead, Reached
  <2>2. Ahead \subseteq ToSet(page') \cup Ahead'
    <3>1. CASE page' = <<>>
      BY <1>2, <1>3, <2>1, <3>1
    <3>2. CASE page' # <<>>
      <4>0. pc' = "page"
        BY <1>1, <3>2, Zenon
      <4>1. startAt < Len(order) /\ w = m
        BY <1>2, <1>3, <1>4, <3>2
      <4>2. Ahead' = {order[k] : k \in startAt + m + 1 .. Len(order)}
        BY <1>1, <4>0 DEF Ahead, Reached
      <4>3. last \in Nat /\ startAt < last /\ Len(page') = last - startAt
        BY <1>2, <1>3, <4>1
      <4>4. ASSUME NEW k \in startAt + 1 .. Len(order) PROVE order[k] \in ToSet(page') \cup Ahead'
        <5>0. k \in Nat /\ startAt < k /\ k <= Len(order)
          BY <1>3
        <5>1. CASE k <= last
          <6>1. k - startAt \in 1 .. last - startAt /\ startAt + (k - startAt) = k
            BY <1>3, <4>3, <5>0, <5>1
          <6>2. page'[k - startAt] = order[k] /\ DOMAIN page' = 1 .. last - startAt
            BY <1>2, <4>3, <6>1, LenProperties
          <6> QED  BY <6>1, <6>2 DEF ToSet
        <5>2. CASE ~(k <= last)
          <6>1. k \in startAt + m + 1 .. Len(order)
            BY <1>3, <4>1, <5>0, <5>2
          <6> QED  BY <4>2, <6>1
        <5> QED  BY <5>1, <5>2
      <4> QED  BY <2>1, <4>4
    <3> QED  BY <3>1, <3>2
  <2>3. ToSet(page) = {}
    BY <1>3 DEF ToSet
  <2>4. Skipped' \subseteq Skipped
    BY <1>1, <2>2, <2>3 DEF Skipped, ToSet
  <2>5. ~stalled /\ pc # "failed"
    BY <1>1
  <2> QED  BY <1>3, <2>4, <2>5, FewerSkipped
<1>9. Counted'
  <2>1. ToSet(page) = {}
    BY <1>3 DEF ToSet
  <2>2. ToSet(yielded') = ToSet(yielded)
    BY <1>1
  <2> QED  BY <1>1, <2>1, <2>2 DEF Counted
<1> QED  BY <1>5, <1>7, <1>8, <1>9

(* The page after this one starts where it ends, or there is none. *)
LEMMA PageDoneKeeps ==
  ASSUME TypeOK, PageInv, PageDone
  PROVE  PageInv'
<1> USE DEF PageInv
<1>1. /\ pc = "page" /\ page = <<>> /\ total = Len(order)
      /\ UNCHANGED <<order, edits, attempt, total, cap, page, yielded, kept, offered, truncated,
                     stalled, sliced>>
  BY DEF PageDone, Paging
<1>2. /\ cap \in Nat /\ startAt \in Nat /\ Len(order) \in Nat /\ order \in Seq(Issues)
      /\ yielded \in Seq(Issues) /\ edits \in Nat
  BY ServerAssumption, SequenceOfIssues DEF TypeOK
<1>3. \/ pc' = "done" /\ (cap = 0 \/ startAt + cap >= Len(order))
      \/ pc' = "search" /\ startAt' = startAt + cap
  BY <1>1 DEF PageDone, Advance
<1>4. ~stalled => cap > 0
  BY <1>1 DEF Paging
<1>5. Paging'
  BY <1>1, <1>3 DEF Paging
<1>6. InOrder'
  <2> SUFFICES ASSUME edits = 0, ~stalled PROVE InOrder'
    BY <1>1 DEF InOrder
  <2>1. yielded \o page = SubSeq(order, 1, Min({startAt + cap, Len(order)}))
    BY <1>1 DEF InOrder, Reached
  <2>2. CASE pc' = "done"
    <3>1. Min({startAt + cap, Len(order)}) = Len(order)
      <4>1. startAt + cap \in Int /\ (startAt + cap <= Len(order) => startAt + cap = Len(order))
        BY <1>2, <1>3, <1>4, <2>2
      <4> QED  BY <1>2, <4>1, MinOf
    <3>2. yielded = order
      BY <1>1, <1>2, <2>1, <3>1, SubSeqFull, ConcatEmptySeq
    <3> QED  BY <1>1, <2>2, <3>2 DEF InOrder
  <2>3. CASE pc' = "search" /\ startAt' = startAt + cap
    BY <1>1, <2>1, <2>3 DEF InOrder, Reached
  <2> QED  BY <1>3, <2>2, <2>3
<1>7. FewSkipped'
  <2> SUFFICES ASSUME ~stalled PROVE Cardinality(Skipped') <= edits
    BY <1>1 DEF FewSkipped
  <2>1. Ahead = {order[k] : k \in startAt + cap + 1 .. Len(order)}
    BY <1>1 DEF Ahead, Reached
  <2>2. Ahead \subseteq Ahead'
    <3>1. CASE pc' = "done"
      BY <1>2, <1>3, <1>4, <2>1, <3>1
    <3>2. CASE pc' = "search" /\ startAt' = startAt + cap
      BY <1>1, <2>1, <3>2 DEF Ahead, Reached
    <3> QED  BY <1>3, <3>1, <3>2
  <2>3. Skipped' \subseteq Skipped
    BY <1>1, <2>2 DEF Skipped, ToSet
  <2>4. pc # "failed"
    BY <1>1
  <2> QED  BY <1>2, <2>3, <2>4, FewerSkipped
<1>8. Counted'
  BY <1>1 DEF Counted, ToSet
<1> QED  BY <1>5, <1>6, <1>7, <1>8

(* Less than all that is kept of an issue never has a gap: what a later    *)
(* answer adds begins where the last one stopped.                          *)
LEMMA TakeKeeps ==
  ASSUME TypeOK, PageInv, Gapless, TakeIssue
  PROVE  PageInv' /\ Gapless'
<1> DEFINE i   == Head(page)
           top == Min({Inline, TotalOf[i]})
           got == 1 .. top
<1>1. page # <<>> /\ pc = "page" /\ i \in Issues
  BY HeadTailProperties DEF TakeIssue, TypeOK
<1>2. top \in Nat /\ got \in SUBSET (1 .. TotalOf[i])
  BY <1>1, Within
<1>3. /\ offered' = [offered EXCEPT ![i] = got] /\ sliced' = sliced
      /\ UNCHANGED <<order, edits, startAt, total, cap, stalled>>
      /\ \/ /\ pc' = "changelog" /\ kept' = [kept EXCEPT ![i] = got]
            /\ UNCHANGED <<page, yielded, truncated>>
         \/ Leave(got)
  BY DEF TakeIssue
<1>4. got = 1 .. Cardinality(got)
  BY <1>2, UpTo
<1> HIDE DEF top, got
<1>5. PageInv'
  <2>1. CASE Leave(got)
    BY <1>1, <1>2, <1>3, <2>1, LeaveKeeps
  <2>2. CASE /\ pc' = "changelog" /\ kept' = [kept EXCEPT ![i] = got]
             /\ UNCHANGED <<page, yielded, truncated>>
    BY <1>1, <1>3, <2>2, SamePageKeeps
  <2> QED  BY <1>3, <2>1, <2>2
<1>6. kept' = [kept EXCEPT ![i] = got]
  BY <1>3 DEF Leave
<1>7. Gapless'
  BY <1>1, <1>2, <1>3, <1>4, <1>6 DEF Gapless, TypeOK
<1> QED  BY <1>5, <1>7

LEMMA AnswerKeeps ==
  ASSUME TypeOK, PageInv, Gapless, ChangelogAnswer
  PROVE  PageInv' /\ Gapless'
<1> DEFINE i == Head(page)
           c == Cardinality(kept[i])
<1>1. page # <<>> /\ pc = "changelog" /\ i \in Issues
  BY HeadTailProperties DEF ChangelogAnswer, TypeOK
<1>2. PICK sent \in Answers(i) :
          LET fresh == Sliced(sent, c) \ kept[i]
              got   == kept[i] \cup fresh
          IN  /\ offered' = [offered EXCEPT ![i] = @ \cup sent]
              /\ sliced' = IF 1 \in sent THEN sliced ELSE sliced \cup {i}
              /\ IF Stops(fresh, i, got)
                 THEN Leave(got)
                 ELSE /\ kept' = [kept EXCEPT ![i] = got]
                      /\ UNCHANGED <<pc, page, yielded, truncated>>
  BY DEF ChangelogAnswer
<1> DEFINE fresh == Sliced(sent, c) \ kept[i]
           got   == kept[i] \cup fresh
<1>3. /\ offered' = [offered EXCEPT ![i] = @ \cup sent]
      /\ sliced' = IF 1 \in sent THEN sliced ELSE sliced \cup {i}
      /\ UNCHANGED <<order, edits, startAt, total, cap, stalled>>
      /\ \/ Leave(got)
         \/ kept' = [kept EXCEPT ![i] = got] /\ UNCHANGED <<pc, page, yielded, truncated>>
  BY <1>2 DEF ChangelogAnswer
<1>4. sent \subseteq 1 .. TotalOf[i] /\ kept[i] \subseteq 1 .. TotalOf[i] /\ TotalOf[i] \in Nat
  BY <1>1, Within DEF Gapless
<1>5. got \in SUBSET (1 .. TotalOf[i])
  BY <1>4 DEF Sliced
<1>6. i \notin sliced' => sent \subseteq got /\ got = 1 .. Cardinality(got)
  <2> SUFFICES ASSUME i \notin sliced' PROVE sent \subseteq got /\ got = 1 .. Cardinality(got)
    OBVIOUS
  <2>1. 1 \in sent /\ i \notin sliced
    BY <1>3
  <2>2. PICK n \in Nat : sent = 1 .. n
    BY <1>4, <2>1, ServerAssumption DEF Answers
  <2>3. kept[i] = 1 .. c
    BY <1>1, <2>1 DEF Gapless
  <2>4. c \in Nat
    <3>1. IsFiniteSet(kept[i])
      BY <1>4, UpTo, FS_Subset
    <3> QED  BY <3>1, FS_CardinalityType
  <2> HIDE DEF c
  <2>5. Sliced(sent, c) = c + 1 .. n
    BY <2>2, <2>4, SlicedFromFirst
  <2> DEFINE most == IF n <= c THEN c ELSE n
  <2>6. got = 1 .. most /\ most \in Nat /\ sent \subseteq 1 .. most
    BY <2>2, <2>3, <2>4, <2>5
  <2> HIDE DEF got, most
  <2> QED  BY <2>6, UpTo
<1> HIDE DEF got, c, fresh
<1>7. kept' = [kept EXCEPT ![i] = got]
  BY <1>3 DEF Leave
<1>8. PageInv'
  <2>1. CASE Leave(got)
    BY <1>1, <1>3, <1>5, <2>1, LeaveKeeps
  <2>2. CASE kept' = [kept EXCEPT ![i] = got] /\ UNCHANGED <<pc, page, yielded, truncated>>
    BY <1>1, <1>3, <2>2, SamePageKeeps
  <2> QED  BY <1>3, <2>1, <2>2
<1>9. Gapless'
  <2> SUFFICES ASSUME NEW j \in Issues
               PROVE  /\ kept'[j] \subseteq 1 .. TotalOf[j]
                      /\ j \notin sliced' => /\ offered'[j] \subseteq kept'[j]
                                             /\ kept'[j] = 1 .. Cardinality(kept'[j])
    BY DEF Gapless
  <2>1. CASE j = i
    <3>1. kept'[i] = got /\ offered'[i] = offered[i] \cup sent
      BY <1>1, <1>3, <1>7 DEF TypeOK
    <3>2. i \notin sliced' => i \notin sliced
      BY <1>3
    <3>3. i \notin sliced' => offered[i] \subseteq got
      BY <1>1, <3>2 DEF Gapless, got
    <3> QED  BY <1>5, <1>6, <2>1, <3>1, <3>3
  <2>2. CASE j # i
    <3>1. kept'[j] = kept[j] /\ offered'[j] = offered[j] /\ (j \in sliced' <=> j \in sliced)
      BY <1>1, <1>3, <1>7, <2>2 DEF TypeOK
    <3> QED  BY <3>1 DEF Gapless
  <2> QED  BY <2>1, <2>2
<1> QED  BY <1>8, <1>9

LEMMA FetchInit ==
  ASSUME Init
  PROVE  FetchInv
<1>1. order \in SetToSeqs(Issues) /\ order \in Seq(Issues) /\ Len(order) \in Nat
  BY SequenceOfIssues DEF Init
<1>2. /\ yielded = <<>> /\ page = <<>> /\ pc = "search" /\ startAt = 0 /\ edits = 0
      /\ yielded \in Seq(Issues)
  BY DEF Init
<1>3. TypeOK
  <2>1. MaxAttempts \in Nat \ {0} /\ MaxEdits \in Nat
    BY BoundAssumption
  <2>2. kept \in [Issues -> SUBSET Histories] /\ offered \in [Issues -> SUBSET Histories]
    BY DEF Init
  <2>3. attempt \in 1 .. MaxAttempts /\ edits \in 0 .. MaxEdits
    BY <2>1 DEF Init
  <2>4. cap \in Caps \cup {0} /\ total \in Nat /\ startAt \in Nat
    BY DEF Init
  <2>5. truncated \subseteq Issues /\ sliced \subseteq Issues /\ stalled \in BOOLEAN
    BY DEF Init
  <2> QED  BY <1>1, <1>2, <2>2, <2>3, <2>4, <2>5 DEF TypeOK
<1>4. Paging
  BY DEF Init, Paging
<1>5. InOrder
  <2>1. Min({0, Len(order)}) = 0
    BY <1>1, MinOf
  <2>2. SubSeq(order, 1, 0) = <<>>
    BY SubSeqEmpty
  <2>3. yielded \o page = <<>>
    BY <1>2, ConcatEmptySeq
  <2> QED  BY <1>2, <2>1, <2>2, <2>3 DEF InOrder, Reached
<1>6. FewSkipped
  <2>1. Ahead = {order[k] : k \in 1 .. Len(order)}
    BY <1>2 DEF Ahead, Reached
  <2>2. Skipped = {}
    BY <1>1, <2>1, SequenceOfIssues DEF Skipped
  <2> QED  BY <1>2, <2>2, FS_EmptySet DEF FewSkipped
<1>7. Counted
  BY <1>2 DEF Counted, ToSet
<1>8. Gapless
  <2>1. \A i \in Issues : kept[i] = {} /\ offered[i] = {}
    BY DEF Init
  <2>2. {} = 1 .. Cardinality({})
    BY FS_EmptySet
  <2> QED  BY <2>1, <2>2 DEF Gapless
<1> QED  BY <1>3, <1>4, <1>5, <1>6, <1>7, <1>8 DEF FetchInv

LEMMA FetchStep ==
  ASSUME FetchInv, [Next]_vars
  PROVE  FetchInv'
<1>1. TypeOK /\ PageInv /\ Gapless
  BY DEF FetchInv, PageInv
<1>2. TypeOK'
  BY <1>1, TypeStep
<1>3. PageInv' /\ Gapless'
  <2>1. ASSUME NEW n \in DOMAIN order, Edit(n) PROVE PageInv' /\ Gapless'
    <3>1. PageInv'
      BY <1>1, <2>1, EditKeeps
    <3> QED  BY <1>1, <2>1, <3>1 DEF Gapless, Edit
  <2>2. CASE Retry \/ Refuse
    <3>1. /\ UNCHANGED <<order, edits, startAt, total, cap, page, yielded, kept, offered,
                         truncated, stalled, sliced>>
          /\ pc' = "failed" \/ pc' = pc
      BY <2>2 DEF Retry, Refuse, Refused
    <3>2. PageInv'
      BY <1>1, <3>1, SamePageKeeps
    <3> QED  BY <1>1, <3>1, <3>2 DEF Gapless
  <2>3. CASE SearchAnswer
    <3>1. PageInv'
      BY <1>1, <2>3, SearchKeeps
    <3> QED  BY <1>1, <2>3, <3>1 DEF Gapless, SearchAnswer
  <2>4. CASE PageDone
    <3>1. PageInv'
      BY <1>1, <2>4, PageDoneKeeps
    <3> QED  BY <1>1, <2>4, <3>1 DEF Gapless, PageDone
  <2>5. CASE TakeIssue
    BY <1>1, <2>5, TakeKeeps
  <2>6. CASE ChangelogAnswer
    BY <1>1, <2>6, AnswerKeeps
  <2>7. CASE UNCHANGED vars
    <3>1. UNCHANGED <<order, edits, pc, startAt, total, cap, page, yielded, kept, offered,
                      truncated, stalled, sliced>>
      BY <2>7 DEF vars
    <3>2. PageInv'
      BY <1>1, <3>1, SamePageKeeps
    <3> QED  BY <1>1, <3>1, <3>2 DEF Gapless
  <2> QED  BY <2>1, <2>2, <2>3, <2>4, <2>5, <2>6, <2>7 DEF Next, Client
<1> QED  BY <1>2, <1>3 DEF FetchInv, PageInv

(* FetchInv holds of every search, whatever the server answers and         *)
(* whatever is edited meanwhile (sync_issues.py:53-99, client.py:36-116).  *)
THEOREM FetchInvSafe == Spec => []FetchInv
<1>1. Init => FetchInv
  BY FetchInit
<1>2. FetchInv /\ [Next]_vars => FetchInv'
  BY FetchStep
<1> QED  BY <1>1, <1>2, PTL DEF Spec

(* An undisturbed search that ends without an error yielded each issue     *)
(* once and in order, for any page sizes (sync_issues.py:53-73).           *)
THEOREM CompleteSafe == Spec => []Complete
<1>1. FetchInv => Complete
  BY DEF FetchInv, InOrder, Complete, Ended
<1> QED  BY <1>1, FetchInvSafe, PTL

(* No more issues are skipped than were edited while pages were read.      *)
THEOREM SkipsBoundedSafe == Spec => []SkipsBounded
<1>1. ASSUME FetchInv, Ended, ~stalled
      PROVE  Cardinality(Issues) - Cardinality({yielded[n] : n \in DOMAIN yielded}) <= edits
  <2> DEFINE Y == {yielded[n] : n \in DOMAIN yielded}
  <2>1. Y = ToSet(yielded) /\ ToSet(page) = {} /\ Ahead = {}
    BY <1>1 DEF FetchInv, Paging, Ended, ToSet, Ahead
  <2>2. Y \subseteq Issues
    BY <1>1 DEF FetchInv, TypeOK
  <2>3. Cardinality(Issues \ Y) <= edits
    BY <1>1, <2>1 DEF FetchInv, FewSkipped, Skipped, Ended
  <2>4. Cardinality(Issues \ Y) = Cardinality(Issues) - Cardinality(Issues \cap Y)
    BY IssueAssumption, FS_Difference
  <2>5. Issues \cap Y = Y
    BY <2>2
  <2> QED  BY <2>3, <2>4, <2>5
<1>2. FetchInv => SkipsBounded
  BY <1>1 DEF SkipsBounded
<1> QED  BY <1>2, FetchInvSafe, PTL

(* An issue left with less than its changelog is counted, whatever the     *)
(* server answered on the way (sync_issues.py:84-99).                      *)
THEOREM TruncationIsToldSafe == Spec => []TruncationIsTold
<1>1. FetchInv => TruncationIsTold
  BY DEF FetchInv, Counted, TruncationIsTold, Left
<1> QED  BY <1>1, FetchInvSafe, PTL

(* Of a server that answers from the first history on, what it ever sent   *)
(* is kept without a gap (client.py:105-116).                              *)
THEOREM OfferedIsKeptSafe == Spec => []OfferedIsKept
<1>1. FetchInv => OfferedIsKept
  BY DEF FetchInv, Gapless, OfferedIsKept
<1> QED  BY <1>1, FetchInvSafe, PTL
=============================================================================
