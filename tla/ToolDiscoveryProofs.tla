------------------------ MODULE ToolDiscoveryProofs ------------------------
(***************************************************************************)
(* For every set of tools, every attempt budget and any number of passes:  *)
(* types, the discipline of the fallback loop, what a pass returns, and    *)
(* the agreement of the usage log with the attempts.                       *)
(***************************************************************************)
EXTENDS ToolDiscovery, SequenceTheorems, WellFoundedInduction, TLAPS

Ids == Tool \cup Ghost

LEMMA Opaque ==
  /\ Selection \subseteq Seq(Ids)
  /\ \A s \in Selection : Capped(s) \in Seq(Ids)
  <1>1. \A s \in Selection : s \in Seq(Ids)
    <2>1. SUFFICES ASSUME NEW s \in Selection PROVE s \in Seq(Ids)
      OBVIOUS
    <2>2. PICK m \in 0 .. 3 : s \in [1 .. m -> Ids]
      BY <2>1 DEF Selection, BoundedSeq, SeqOf, Ids
    <2>3. m \in Nat
      BY <2>2, SMT
    <2> QED
      BY <2>2, <2>3, SeqDef
  <1>2. \A s \in Selection : Capped(s) \in Seq(Ids)
    BY <1>1, DiscoveryAssumption, SMT DEF Capped
  <1> QED
    BY <1>1, <1>2

\* What the loop over the candidates relies on: distinct ids, within the budget.
LEMMA CandidatesChosen ==
  ASSUME NEW selected \in Selection, NEW ids \in OrderedCandidates(selected)
  PROVE  /\ ids \in Seq(Ids)
         /\ Len(ids) <= MaxAttempts
         /\ Len(ids) > 0
         /\ IsInjective(ids)
  <1>1. PICK s \in Selection : ids = Capped(s) /\ IsInjective(s)
    BY DEF OrderedCandidates
  <1>2. s \in Seq(Ids) /\ Len(s) > 0
    <2>1. s \in Seq(Ids)
      BY Opaque
    <2>2. s # <<>>
      BY DEF Selection
    <2> QED
      BY <2>1, <2>2, EmptySeq, SMT
  <1>3. MaxAttempts \in Nat /\ MaxAttempts > 0
    BY DiscoveryAssumption, SMT
  <1>4. CASE Len(s) < MaxAttempts
    <2>2. Len(s) <= MaxAttempts
      BY <1>2, <1>3, <1>4, SMT
    <2>1. ids = s
      BY <1>1, <1>2, <1>4, SubSeqFull DEF Capped
    <2> QED
      BY <2>1, <2>2, <1>1, <1>2, Zenon
  <1>5. CASE ~ Len(s) < MaxAttempts
    <2>1. ids = SubSeq(s, 1, MaxAttempts)
      BY <1>1, <1>5 DEF Capped
    <2>2. ids \in Seq(Ids) /\ Len(ids) = MaxAttempts /\ \A i \in 1 .. MaxAttempts : ids[i] = s[i]
      BY <2>1, <1>2, <1>3, <1>5, SMT
    <2>3. DOMAIN ids = 1 .. MaxAttempts /\ 1 .. MaxAttempts \subseteq DOMAIN s
      BY <2>2, <1>2, <1>3, <1>5, SMT
    <2>4. IsInjective(ids)
      BY <2>2, <2>3, <1>1 DEF IsInjective
    <2> QED
      BY <2>2, <2>4, <1>3, SMT
  <1> QED
    BY <1>4, <1>5

----------------------------------------------------------------------------
(* _ordered_candidates *)

LEMMA Least ==
  ASSUME NEW T, T \subseteq Nat, T # {}
  PROVE  \E x \in T : \A y \in T : x <= y
  <1> DEFINE R == OpToRel(<, Nat)
  <1>1. IsWellFoundedOn(R, Nat)
    BY NatLessThanWellFounded
  <1>2. \A x, y \in Nat : <<x, y>> \in R <=> x < y
    BY DEF OpToRel
  <1> HIDE DEF R
  <1>3. PICK x \in T : \A y \in T : ~ (<<y, x>> \in R)
    BY <1>1, WFMin
  <1>4. ASSUME NEW y \in T
        PROVE  x <= y
    <2>1. x \in Nat /\ y \in Nat
      OBVIOUS
    <2>2. ~ (y < x)
      BY <1>2, <1>3, <2>1
    <2> QED
      BY <2>1, <2>2
  <1> QED
    BY <1>4

LEMMA FirstMentionIs ==
  ASSUME NEW sel \in Seq(Ids), NEW k \in 1 .. Len(sel)
  PROVE  /\ FirstMention(sel[k], sel) \in 1 .. k
         /\ sel[FirstMention(sel[k], sel)] = sel[k]
  <1> DEFINE T == {i \in 1 .. Len(sel) : sel[i] = sel[k]}
  <1>1. PICK m \in T : \A j \in T : m <= j
    <2>1. T \subseteq Nat /\ k \in T
      OBVIOUS
    <2> HIDE DEF T
    <2>2. T # {}
      BY <2>1
    <2> QED
      BY <2>1, <2>2, Least
  <1>2. DOMAIN sel = 1 .. Len(sel)
    OBVIOUS
  <1>3. /\ m \in DOMAIN sel /\ sel[m] = sel[k]
        /\ \A j \in DOMAIN sel : sel[j] = sel[k] => m <= j
    BY <1>1, <1>2
  <1> DEFINE f == FirstMention(sel[k], sel)
  <1>4. /\ f \in DOMAIN sel /\ sel[f] = sel[k]
        /\ \A j \in DOMAIN sel : sel[j] = sel[k] => f <= j
    BY <1>3 DEF FirstMention
  <1> HIDE DEF f
  <1>5. f <= k
    BY <1>2, <1>4
  <1> QED
    BY <1>2, <1>4, <1>5 DEF f

\* The list after the first k ids of a selection
Listing(s, sel, k) ==
  /\ s \in Seq(Ids)
  /\ \A i, j \in 1 .. Len(s) : s[i] = s[j] => i = j
  /\ \A i \in 1 .. Len(s) : \E j \in 1 .. k : s[i] = sel[j]
  /\ \A j \in 1 .. k : \E i \in 1 .. Len(s) : s[i] = sel[j]
  /\ \A i, j \in 1 .. Len(s) : i < j => FirstMention(s[i], sel) < FirstMention(s[j], sel)

LEMMA ListingMeans ==
  ASSUME NEW sel \in Seq(Ids), NEW s \in Seq(Ids)
  PROVE  Listing(s, sel, Len(sel)) <=>
           /\ IsInjective(s) /\ ToSet(s) = ToSet(sel)
           /\ \A i, j \in DOMAIN s :
                i < j => FirstMention(s[i], sel) < FirstMention(s[j], sel)
  <1>1. DOMAIN s = 1 .. Len(s) /\ DOMAIN sel = 1 .. Len(sel)
    OBVIOUS
  <1>2. ToSet(s) = ToSet(sel) <=>
          /\ \A i \in 1 .. Len(s) : \E j \in 1 .. Len(sel) : s[i] = sel[j]
          /\ \A j \in 1 .. Len(sel) : \E i \in 1 .. Len(s) : s[i] = sel[j]
    <2>1. ToSet(s) = {s[i] : i \in 1 .. Len(s)} /\ ToSet(sel) = {sel[j] : j \in 1 .. Len(sel)}
      BY <1>1 DEF ToSet
    <2>2. ASSUME ToSet(s) = ToSet(sel)
          PROVE  /\ \A i \in 1 .. Len(s) : \E j \in 1 .. Len(sel) : s[i] = sel[j]
                 /\ \A j \in 1 .. Len(sel) : \E i \in 1 .. Len(s) : s[i] = sel[j]
      <3>1. \A i \in 1 .. Len(s) : s[i] \in ToSet(sel)
        BY <2>1, <2>2
      <3>2. \A j \in 1 .. Len(sel) : sel[j] \in ToSet(s)
        BY <2>1, <2>2
      <3> QED
        BY <2>1, <3>1, <3>2
    <2>3. ASSUME \A i \in 1 .. Len(s) : \E j \in 1 .. Len(sel) : s[i] = sel[j],
                 \A j \in 1 .. Len(sel) : \E i \in 1 .. Len(s) : s[i] = sel[j]
          PROVE  ToSet(s) = ToSet(sel)
      <3>1. \A x : x \in ToSet(s) <=> x \in ToSet(sel)
        BY <2>1, <2>3
      <3> QED
        BY <3>1
    <2> QED
      BY <2>2, <2>3
  <1>3. IsInjective(s) <=> \A i, j \in 1 .. Len(s) : s[i] = s[j] => i = j
    BY <1>1 DEF IsInjective
  <1> QED
    BY <1>1, <1>2, <1>3, Zenon DEF Listing

\* One turn of the loop: an id is appended unless it is there.
LEMMA ListingGrows ==
  ASSUME NEW sel \in Seq(Ids), NEW k \in 1 .. Len(sel), NEW s, Listing(s, sel, k - 1),
         Len(s) <= k - 1
  PROVE  \E u : Listing(u, sel, k) /\ Len(u) <= k
  <1>1. CASE \E j \in 1 .. k - 1 : sel[j] = sel[k]
    <2>1. Listing(s, sel, k) /\ Len(s) <= k
      <3>1. Len(s) \in Nat
        BY DEF Listing
      <3>2. Len(s) <= k
        BY <3>1
      <3>3. \A i \in 1 .. Len(s) : \E j \in 1 .. k : s[i] = sel[j]
        BY DEF Listing
      <3>4. ASSUME NEW j \in 1 .. k
            PROVE  \E i \in 1 .. Len(s) : s[i] = sel[j]
        <4>1. PICK l \in 1 .. k - 1 : sel[l] = sel[j]
          BY <1>1
        <4> QED
          BY <4>1 DEF Listing
      <3> QED
        BY <3>2, <3>3, <3>4 DEF Listing
    <2> QED
      BY <2>1
  <1>2. CASE \A j \in 1 .. k - 1 : sel[j] # sel[k]
    <2> DEFINE u == Append(s, sel[k])
               n == Len(s)
    <2>1. /\ s \in Seq(Ids) /\ n \in Nat /\ n <= k - 1 /\ sel[k] \in Ids
          /\ \A i \in 1 .. n : \E j \in 1 .. k - 1 : s[i] = sel[j]
      BY DEF Listing
    <2>2. /\ u \in Seq(Ids) /\ Len(u) = n + 1 /\ u[n + 1] = sel[k]
          /\ \A i \in 1 .. n : u[i] = s[i]
      BY <2>1
    <2>3. FirstMention(sel[k], sel) = k
      <3>1. FirstMention(sel[k], sel) \in 1 .. k /\ sel[FirstMention(sel[k], sel)] = sel[k]
        BY FirstMentionIs
      <3> QED
        BY <1>2, <3>1
    <2>4. ASSUME NEW i \in 1 .. n
          PROVE  FirstMention(s[i], sel) < k /\ s[i] # sel[k]
      <3>1. PICK j \in 1 .. k - 1 : s[i] = sel[j]
        BY <2>1
      <3>2. j \in 1 .. Len(sel)
        BY <2>1
      <3>3. FirstMention(sel[j], sel) \in 1 .. j
        BY <3>2, FirstMentionIs
      <3> QED
        BY <1>2, <3>1, <3>3
    <2> HIDE DEF u, n
    <2>5. 1 .. n + 1 = 1 .. n \cup {n + 1}
      BY <2>1
    <2>6. \A i, j \in 1 .. n + 1 : u[i] = u[j] => i = j
      BY <2>2, <2>4, <2>5 DEF Listing, n
    <2>7. \A i, j \in 1 .. n + 1 :
             i < j => FirstMention(u[i], sel) < FirstMention(u[j], sel)
      <3> SUFFICES ASSUME NEW i \in 1 .. n + 1, NEW j \in 1 .. n + 1, i < j
                   PROVE  FirstMention(u[i], sel) < FirstMention(u[j], sel)
        OBVIOUS
      <3>1. i \in 1 .. n /\ u[i] = s[i]
        BY <2>1, <2>2
      <3>2. CASE j \in 1 .. n
        BY <2>2, <3>1, <3>2 DEF Listing, n
      <3>3. CASE j = n + 1
        BY <2>2, <2>3, <2>4, <3>1, <3>3
      <3> QED
        BY <2>5, <3>2, <3>3
    <2>8. \A i \in 1 .. n + 1 : \E j \in 1 .. k : u[i] = sel[j]
      <3>1. \A i \in 1 .. n : \E j \in 1 .. k : u[i] = sel[j]
        BY <2>1, <2>2
      <3>2. \E j \in 1 .. k : u[n + 1] = sel[j]
        BY <2>2
      <3> QED
        BY <2>5, <3>1, <3>2
    <2>9. \A j \in 1 .. k : \E i \in 1 .. n + 1 : u[i] = sel[j]
      <3>1. ASSUME NEW j \in 1 .. k - 1
            PROVE  \E i \in 1 .. n + 1 : u[i] = sel[j]
        <4>1. PICK i \in 1 .. n : s[i] = sel[j]
          BY DEF Listing, n
        <4> QED
          BY <2>2, <2>5, <4>1
      <3>2. \E i \in 1 .. n + 1 : u[i] = sel[k]
        BY <2>2, <2>5
      <3>3. 1 .. k = 1 .. k - 1 \cup {k}
        OBVIOUS
      <3> QED
        BY <3>1, <3>2, <3>3
    <2>10. Listing(u, sel, k) /\ Len(u) <= k
      BY <2>1, <2>2, <2>6, <2>7, <2>8, <2>9 DEF Listing
    <2> QED
      BY <2>10
  <1> QED
    BY <1>1, <1>2

LEMMA ListingExists ==
  ASSUME NEW sel \in Seq(Ids)
  PROVE  \E s : Listing(s, sel, Len(sel)) /\ Len(s) <= Len(sel)
  <1> DEFINE Without == {k \in 0 .. Len(sel) : \A s : ~ (Listing(s, sel, k) /\ Len(s) <= k)}
  <1>1. SUFFICES ASSUME Len(sel) \in Without
                 PROVE  FALSE
    OBVIOUS
  <1>2. PICK k \in Without : \A j \in Without : k <= j
    <2>1. Without \subseteq Nat
      OBVIOUS
    <2> HIDE DEF Without
    <2>2. Without # {}
      BY <1>1
    <2> QED
      BY <2>1, <2>2, Least
  <1>3. CASE k = 0
    <2>1. <<>> \in Seq(Ids) /\ Len(<<>>) = 0
      OBVIOUS
    <2>2. Listing(<<>>, sel, 0)
      BY <2>1 DEF Listing
    <2> QED
      BY <1>3, <2>2
  <1>4. CASE k # 0
    <2>1. k \in 1 .. Len(sel) /\ k - 1 \in 0 .. Len(sel) /\ k - 1 \notin Without
      BY <1>2, <1>4
    <2>2. PICK s : Listing(s, sel, k - 1) /\ Len(s) <= k - 1
      BY <2>1
    <2> QED
      BY <2>1, <2>2, ListingGrows
  <1> QED
    BY <1>3, <1>4

\* Two lists of the same ids in the order of their mentions agree wherever the
\* first has one.
LEMMA ListingsAgree ==
  ASSUME NEW sel \in Seq(Ids), NEW s, Listing(s, sel, Len(sel)),
         NEW u, Listing(u, sel, Len(sel))
  PROVE  \A i \in 1 .. Len(s) : i <= Len(u) /\ s[i] = u[i]
  <1> DEFINE Differ == {i \in 1 .. Len(s) : ~ (i <= Len(u) /\ s[i] = u[i])}
             First(t) == FirstMention(t, sel)
  <1>1. Len(s) \in Nat /\ Len(u) \in Nat
    BY DEF Listing
  <1>2. SUFFICES ASSUME Differ # {} PROVE FALSE
    OBVIOUS
  <1>3. PICK i \in Differ : \A j \in Differ : i <= j
    <2>1. Differ \subseteq Nat
      BY <1>1
    <2> HIDE DEF Differ
    <2> QED
      BY <1>2, <2>1, Least
  <1>4. \A j \in 1 .. i - 1 : j \in 1 .. Len(s) /\ j \in 1 .. Len(u) /\ s[j] = u[j]
    BY <1>1, <1>3
  <1>5. PICK k \in 1 .. Len(u) : u[k] = s[i]
    BY <1>3 DEF Listing
  <1>6. k > i
    <2>1. k \notin 1 .. i - 1
      BY <1>3, <1>4, <1>5 DEF Listing
    <2> QED
      BY <1>1, <1>3, <1>5, <2>1
  <1>7. i \in 1 .. Len(u) /\ s[i] # u[i]
    BY <1>1, <1>3, <1>6
  <1>8. PICK l \in 1 .. Len(s) : s[l] = u[i]
    BY <1>7 DEF Listing
  <1>9. l > i
    <2>1. l \notin 1 .. i - 1
      BY <1>4, <1>7, <1>8 DEF Listing
    <2> QED
      BY <1>1, <1>3, <1>7, <1>8, <2>1
  <1>10. First(s[i]) < First(s[l]) /\ First(u[i]) < First(u[k])
    BY <1>3, <1>6, <1>7, <1>9 DEF Listing
  <1>11. First(s[i]) \in Nat /\ First(u[i]) \in Nat
    <2>1. \A j \in 1 .. Len(sel) : First(sel[j]) \in Nat
      BY FirstMentionIs
    <2>2. (\E j \in 1 .. Len(sel) : s[i] = sel[j]) /\ (\E j \in 1 .. Len(sel) : u[i] = sel[j])
      BY <1>3, <1>7 DEF Listing
    <2> QED
      BY <2>1, <2>2
  <1> HIDE DEF First
  <1> QED
    BY <1>5, <1>8, <1>10, <1>11

LEMMA OneListing ==
  ASSUME NEW sel \in Seq(Ids), NEW s, Listing(s, sel, Len(sel)),
         NEW u, Listing(u, sel, Len(sel))
  PROVE  s = u
  <1>1. s \in Seq(Ids) /\ u \in Seq(Ids)
    BY DEF Listing
  <1>2. /\ \A i \in 1 .. Len(s) : i <= Len(u) /\ s[i] = u[i]
        /\ \A i \in 1 .. Len(u) : i <= Len(s) /\ u[i] = s[i]
    BY ListingsAgree
  <1>3. Len(s) = Len(u)
    BY <1>1, <1>2
  <1> QED
    BY <1>1, <1>2, <1>3, SeqEqual

LEMMA SelectionIs ==
  ASSUME NEW s
  PROVE  s \in Selection <=> s \in Seq(Ids) /\ Len(s) \in 1 .. 3
  <1>1. ASSUME s \in Selection
        PROVE  s \in Seq(Ids) /\ Len(s) \in 1 .. 3
    <2>1. PICK m \in 0 .. 3 : s \in [1 .. m -> Ids]
      BY <1>1 DEF Selection, BoundedSeq, SeqOf, Ids
    <2>2. s \in Seq(Ids) /\ Len(s) = m
      BY <2>1, SeqDef, LenProperties
    <2>3. s # <<>>
      BY <1>1 DEF Selection
    <2> QED
      BY <2>2, <2>3, EmptySeq
  <1>2. ASSUME s \in Seq(Ids), Len(s) \in 1 .. 3
        PROVE  s \in Selection
    <2>1. s \in [1 .. Len(s) -> Ids] /\ s # <<>>
      <3>1. s \in [1 .. Len(s) -> Ids]
        BY <1>2, LenProperties
      <3>2. Len(<<>>) = 0 /\ Len(s) # 0
        BY <1>2
      <3>3. s # <<>>
        BY <3>2, Zenon
      <3> QED
        BY <3>1, <3>3
    <2>2. Len(s) \in 0 .. 3
      BY <1>2
    <2>3. s \in BoundedSeq(Ids, 3)
      BY <2>1, <2>2 DEF BoundedSeq, SeqOf
    <2>4. Selection = BoundedSeq(Ids, 3) \ {<<>>}
      BY DEF Selection, Ids
    <2> QED
      BY <2>1, <2>3, <2>4
  <1> QED
    BY <1>1, <1>2

\* Whatever a model names, once or repeatedly, known or not, _ordered_candidates
\* has one result: it begins with the id named first, and names no id twice, no
\* other id and, within the budget, every id (discovery.py:372).
THEOREM CandidatesDetermined ==
  ASSUME NEW selected \in Selection
  PROVE  \E ids \in Seq(Ids) :
           /\ OrderedCandidates(selected) = {ids}
           /\ Len(ids) \in 1 .. MaxAttempts /\ IsInjective(ids)
           /\ ids[1] = selected[1]
           /\ ToSet(ids) \subseteq ToSet(selected)
           /\ Len(ids) < MaxAttempts => ToSet(ids) = ToSet(selected)
  <1>1. selected \in Seq(Ids) /\ Len(selected) \in 1 .. 3
    BY SelectionIs
  <1>2. PICK s : Listing(s, selected, Len(selected)) /\ Len(s) <= Len(selected)
    BY <1>1, ListingExists
  <1>3. s \in Seq(Ids) /\ Len(s) <= Len(selected)
    BY <1>2 DEF Listing
  <1>4. s # <<>> /\ s[1] = selected[1]
    <2>1. PICK k \in 1 .. Len(s) : s[k] = selected[1]
      BY <1>1, <1>2 DEF Listing
    <2>2. FirstMention(selected[1], selected) = 1
      <3>1. FirstMention(selected[1], selected) \in 1 .. 1
        BY <1>1, FirstMentionIs
      <3> QED
        BY <3>1
    <2>3. CASE k > 1
      <3>1. FirstMention(s[1], selected) < 1 /\ 1 \in 1 .. Len(s)
        BY <1>2, <1>3, <2>1, <2>2, <2>3 DEF Listing
      <3>2. PICK j \in 1 .. Len(selected) : s[1] = selected[j]
        BY <1>2, <3>1 DEF Listing
      <3>3. FirstMention(s[1], selected) \in 1 .. j
        BY <1>1, <3>2, FirstMentionIs
      <3> QED
        BY <3>1, <3>3
    <2> QED
      BY <1>3, <2>1, <2>3
  <1>5. s \in Selection
    <2>1. Len(s) # 0 /\ Len(s) \in Nat
      BY <1>3, <1>4, EmptySeq
    <2>2. Len(s) \in 1 .. 3
      <3> PICK n \in Nat : n = Len(s)
        BY <2>1
      <3> PICK m \in 1 .. 3 : m = Len(selected)
        BY <1>1
      <3>1. n <= m /\ n # 0
        BY <1>3, <2>1
      <3>2. n \in 1 .. 3
        BY <3>1
      <3> QED
        BY <3>2
    <2> QED
      BY <1>3, <2>2, SelectionIs
  <1>6. OrderedCandidates(selected) = {Capped(s)}
    <2> DEFINE Orders == {u \in Selection :
                 /\ IsInjective(u)
                 /\ ToSet(u) = ToSet(selected)
                 /\ \A i, j \in DOMAIN u :
                      i < j => FirstMention(u[i], selected) < FirstMention(u[j], selected)}
    <2>1. s \in Orders
      BY <1>1, <1>2, <1>3, <1>5, ListingMeans
    <2>2. ASSUME NEW u \in Orders
          PROVE  u = s
      <3>1. u \in Seq(Ids)
        BY SelectionIs
      <3>2. Listing(u, selected, Len(selected))
        BY <1>1, <3>1, ListingMeans
      <3> QED
        BY <1>1, <1>2, <3>2, OneListing
    <2> HIDE DEF Orders
    <2>3. Orders = {s}
      BY <2>1, <2>2
    <2>4. OrderedCandidates(selected) = {Capped(ids) : ids \in Orders}
      BY DEF OrderedCandidates, Orders
    <2> QED
      BY <2>3, <2>4
  <1>7. Capped(s) \in OrderedCandidates(selected)
    BY <1>6
  <1>8. /\ Capped(s) \in Seq(Ids) /\ Len(Capped(s)) \in 1 .. MaxAttempts
        /\ IsInjective(Capped(s))
    <2>1. /\ Capped(s) \in Seq(Ids) /\ Len(Capped(s)) <= MaxAttempts
          /\ Len(Capped(s)) > 0 /\ IsInjective(Capped(s))
      BY <1>7, CandidatesChosen
    <2> QED
      BY <2>1, DiscoveryAssumption
  <1>9. /\ Capped(s)[1] = selected[1]
        /\ ToSet(Capped(s)) \subseteq ToSet(selected)
        /\ Len(Capped(s)) < MaxAttempts => ToSet(Capped(s)) = ToSet(selected)
    <2>1. ToSet(s) = ToSet(selected) /\ Len(s) \in Nat \ {0} /\ MaxAttempts \in Nat \ {0}
      <3>1. ToSet(s) = ToSet(selected)
        BY <1>1, <1>2, <1>3, ListingMeans
      <3>2. Len(s) \in 1 .. 3
        BY <1>5, SelectionIs
      <3>3. MaxAttempts \in 1 .. 10
        BY DiscoveryAssumption
      <3> QED
        BY <3>1, <3>2, <3>3
    <2>2. CASE Len(s) < MaxAttempts
      <3>1. Capped(s) = s
        BY <1>3, <2>1, <2>2, SubSeqFull DEF Capped
      <3> QED
        BY <1>4, <2>1, <3>1
    <2>3. CASE ~ Len(s) < MaxAttempts
      <3>1. Capped(s) = SubSeq(s, 1, MaxAttempts)
        BY <2>3 DEF Capped
      <3>2. /\ Len(Capped(s)) = MaxAttempts /\ Capped(s)[1] = s[1]
            /\ \A i \in 1 .. MaxAttempts : i \in 1 .. Len(s) /\ Capped(s)[i] = s[i]
        BY <1>3, <2>1, <2>3, <3>1
      <3>3. DOMAIN Capped(s) = 1 .. MaxAttempts /\ DOMAIN s = 1 .. Len(s)
        BY <1>3, <1>8, <3>2
      <3>4. ToSet(Capped(s)) \subseteq ToSet(s)
        BY <3>2, <3>3 DEF ToSet
      <3> QED
        BY <1>4, <2>1, <3>2, <3>4
    <2> QED
      BY <2>2, <2>3
  <1> QED
    BY <1>6, <1>8, <1>9

----------------------------------------------------------------------------
(* Types *)

\* What each await relies on beyond the types.
Placed ==
  /\ pc \in {"search", "select"} => index = 1
  /\ pc \in {"bind", "invoke", "log"} => index \in 1 .. Len(candidates)
  /\ pc \in {"invoke", "log", "last_log"} => Candidate \in Tool
  /\ pc \in {"log", "last_log"} => Len(attempts) > 0
  /\ \A n \in DOMAIN usage : usage[n].pass <= pass
  /\ \A row \in late : row.pass <= pass

Typed == TypeOK /\ Placed

LEMMA TypedInit == Init => Typed
  <1> SUFFICES ASSUME Init PROVE Typed
    OBVIOUS
  <1>1. success \in BOOLEAN /\ postLost \in BOOLEAN
    BY Zenon DEF Init
  <1>2. usage \in Seq(UsageRow) /\ candidates \in Seq(Ids) /\ attempts \in Seq(Attempt)
    BY EmptySeq, Zenon DEF Init
  <1>3. DOMAIN usage = {}
    BY SMT DEF Init
  <1> QED
    BY <1>1, <1>2, <1>3, DiscoveryAssumption, SMT DEF Init, Typed, Placed, TypeOK, Ids

\* The row of the last attempt.
LEMMA RowTyped ==
  ASSUME TypeOK, Len(attempts) > 0
  PROVE  /\ Row \in UsageRow
         /\ Row.pass = pass
         /\ Row.tool = attempts[Len(attempts)].tool
         /\ Row.ok = attempts[Len(attempts)].ok
  <1>1. attempts[Len(attempts)] \in Attempt /\ pass \in Nat
    BY SMT DEF TypeOK
  <1> QED
    BY <1>1, SMT DEF Row, Last, UsageRow, Attempt

\* What a POST does to the log: its row is there, or on its way.
Posted ==
  \/ usage' = Append(usage, Row) /\ late' = late
  \/ usage' = usage /\ late' = late \cup {Row}

\* What the types and the places say of the log.
LogPlaced ==
  /\ usage \in Seq(UsageRow)
  /\ late \subseteq UsageRow
  /\ \A n \in DOMAIN usage : usage[n].pass <= pass
  /\ \A row \in late : row.pass <= pass

LEMMA AppendedPlaced ==
  ASSUME LogPlaced, NEW row \in UsageRow, row.pass <= pass,
         usage' = Append(usage, row), late' \subseteq late, pass' = pass
  PROVE  LogPlaced'
  <1>1. /\ usage' \in Seq(UsageRow)
        /\ \A n \in DOMAIN usage' : usage'[n].pass <= pass
    BY SMT DEF LogPlaced
  <1> QED
    BY <1>1 DEF LogPlaced

LEMMA PostTyped ==
  ASSUME TypeOK, Len(attempts) > 0, LogPlaced, Posted, pass' = pass
  PROVE  LogPlaced'
  <1>1. Row \in UsageRow /\ Row.pass = pass /\ pass \in Nat /\ Row.pass <= pass
    BY RowTyped, SMT DEF TypeOK
  <1>2. CASE usage' = usage /\ late' = late \cup {Row}
    BY <1>1, <1>2 DEF LogPlaced
  <1>3. CASE usage' = Append(usage, Row) /\ late' = late
    BY <1>1, <1>3, AppendedPlaced
  <1> QED
    BY <1>2, <1>3 DEF Posted

LEMMA PostOutcome ==
  ASSUME PostUsage, postLost \in BOOLEAN
  PROVE  /\ Posted
         /\ postLost' \in BOOLEAN
         /\ ~ postLost' => ~ postLost /\ usage' = Append(usage, Row) /\ late' = late
  <1>1. CASE usage' = Append(usage, Row) /\ UNCHANGED <<late, postLost>>
    BY <1>1, Zenon DEF Posted
  <1>2. CASE GiveUp /\ UNCHANGED usage
    BY <1>2, Zenon DEF GiveUp, Posted
  <1> QED
    BY <1>1, <1>2, Zenon DEF PostUsage

\* The loop goes on within the candidates.
LEMMA Continues ==
  ASSUME TypeOK, index \in 1 .. Len(candidates), Continue
  PROVE  /\ pc' \in {"bind", "done"}
         /\ index' \in Nat
         /\ pc' = "bind" => index' = index + 1 /\ index' \in 1 .. Len(candidates)
         /\ pc' = "done" => index' = index /\ index = Len(candidates) /\ success' = FALSE
         /\ success' \in BOOLEAN
  <1>1. CASE index < Len(candidates)
    <2>1. index' = index + 1 /\ pc' = "bind" /\ success' = success
      BY <1>1 DEF Continue
    <2>2. success' \in BOOLEAN /\ pc' # "done"
      BY <2>1, Zenon DEF TypeOK
    <2> QED
      BY <1>1, <2>1, <2>2, SMT DEF TypeOK
  <1>2. CASE ~ index < Len(candidates)
    <2>1. index' = index /\ pc' = "done" /\ success' = FALSE
      BY <1>2 DEF Continue, Return
    <2>2. index = Len(candidates) /\ index' \in Nat /\ pc' # "bind"
      BY <1>2, <2>1, SMT DEF TypeOK
    <2> QED
      BY <2>1, <2>2, Zenon
  <1> QED
    BY <1>1, <1>2

LEMMA TypedStep == Typed /\ [Next]_vars => Typed'
  <1> SUFFICES ASSUME Typed, [Next]_vars PROVE Typed'
    OBVIOUS
  <1> USE DEF Typed
  <1>1. CASE StartPass
    <2>1. success' \in BOOLEAN /\ postLost' \in BOOLEAN
      BY <1>1, Zenon DEF StartPass
    <2>2. candidates' \in Seq(Ids) /\ attempts' \in Seq(Attempt)
      BY <1>1, EmptySeq, Zenon DEF StartPass
    <2>3. pass' = pass + 1 /\ pass' \in 0 .. Passes
      BY <1>1, DiscoveryAssumption, SMT DEF StartPass, TypeOK
    <2>4. \A n \in DOMAIN usage' : usage'[n].pass <= pass'
      <3> SUFFICES ASSUME NEW n \in DOMAIN usage PROVE usage[n].pass <= pass'
        BY <1>1 DEF StartPass
      <3>1. usage[n].pass \in Nat /\ usage[n].pass <= pass
        <4>1. usage[n] \in UsageRow
          BY SMT DEF TypeOK
        <4> QED
          BY <4>1, SMT DEF Placed, UsageRow
      <3> QED
        BY <3>1, <2>3, DiscoveryAssumption, SMT DEF TypeOK
    <2>5. \A row \in late' : row.pass <= pass'
      <3> SUFFICES ASSUME NEW row \in late PROVE row.pass <= pass'
        BY <1>1 DEF StartPass
      <3>1. row.pass \in Nat /\ row.pass <= pass
        BY SMT DEF TypeOK, Placed, UsageRow
      <3> QED
        BY <3>1, <2>3, DiscoveryAssumption, SMT DEF TypeOK
    <2> QED
      BY <1>1, <2>1, <2>2, <2>3, <2>4, <2>5, SMT DEF StartPass, TypeOK, Placed, Awaiting, Ids
  <1>2. CASE Search
    <2>1. /\ results' \subseteq Tool
          /\ success' \in BOOLEAN
          /\ pc = "search"
          /\ pc' \in {"select", "done"}
          /\ UNCHANGED <<status, usage, late, pass, candidates, index, attempts, skipped, postLost>>
      <3>1. CASE \E found \in SUBSET Listed : results' = found
        BY <1>2, <3>1, Zenon DEF Search, Return, TypeOK, Listed, Registered
      <3>2. CASE Return(FALSE) /\ UNCHANGED results
        BY <1>2, <3>2, Zenon DEF Search, Return, TypeOK
      <3> QED
        BY <1>2, <3>1, <3>2, Zenon DEF Search
    <2> QED
      BY <2>1, SMT DEF TypeOK, Placed, Awaiting
  <1>3. CASE Select
    <2>1. candidates' \in Seq(Ids) /\ Len(candidates') > 0 /\ index = index'
      <3>1. CASE \E selected \in Selection : candidates' \in OrderedCandidates(selected)
        BY <1>3, <3>1, CandidatesChosen DEF Select
      <3>2. CASE \E t \in results : candidates' = <<t>>
        BY <1>3, <3>2, SMT DEF Select, TypeOK, Ids
      <3> QED
        BY <1>3, <3>1, <3>2 DEF Select
    <2> QED
      BY <1>3, <2>1, SMT DEF Select, TypeOK, Placed, Awaiting, Ids
  <1>4. CASE Bind
    <2>1. index \in 1 .. Len(candidates) /\ Candidate \in Ids
      BY <1>4, SMT DEF Bind, TypeOK, Placed, Candidate, Ids
    <2>2. UNCHANGED <<status, usage, late, pass, results, candidates, attempts, postLost>>
      BY <1>4 DEF Bind
    <2>3. CASE /\ Candidate \in Registered /\ pc' = "invoke"
               /\ UNCHANGED <<index, success, skipped>>
      BY <2>1, <2>2, <2>3, SMT DEF TypeOK, Placed, Awaiting, Registered, Candidate
    <2>4. CASE skipped' = skipped \cup {Candidate} /\ Continue
      <3>1. /\ pc' \in {"bind", "done"} /\ index' \in Nat /\ success' \in BOOLEAN
            /\ pc' = "bind" => index' \in 1 .. Len(candidates)
        BY <2>1, <2>4, Continues
      <3> QED
        <4>1. skipped' \subseteq Ids /\ postLost' \in BOOLEAN
          BY <2>1, <2>2, <2>4, Zenon DEF TypeOK, Ids
        <4>2. TypeOK'
          BY <2>2, <3>1, <4>1, Zenon DEF TypeOK, Awaiting, Ids
        <4>3. Placed'
          BY <2>2, <3>1, SMT DEF Placed
        <4> QED
          BY <4>2, <4>3
    <2> QED
      BY <1>4, <2>3, <2>4 DEF Bind
  <1>5. CASE Invoke
    <2>1. PICK ok \in BOOLEAN : attempts' = Append(attempts, [tool |-> Candidate, ok |-> ok])
      BY <1>5 DEF Invoke
    <2>2. [tool |-> Candidate, ok |-> ok] \in Attempt
      BY <1>5 DEF Invoke, Placed, Attempt
    <2>3. attempts' \in Seq(Attempt) /\ Len(attempts') > 0
      BY <2>1, <2>2, SMT DEF TypeOK
    <2> QED
      BY <1>5, <2>3, SMT DEF Invoke, TypeOK, Placed, Awaiting, Candidate
  <1>6. CASE LogUsage
    <2>1. index \in 1 .. Len(candidates) /\ Len(attempts) > 0 /\ PostUsage /\ postLost \in BOOLEAN
      BY <1>6 DEF LogUsage, TypeOK, Placed
    <2>2. UNCHANGED <<status, pass, results, candidates, attempts, skipped>>
      BY <1>6 DEF LogUsage
    <2>3. LogPlaced'
      BY <2>1, <2>2, PostTyped, PostOutcome DEF LogPlaced, Placed, TypeOK
    <2>4. postLost' \in BOOLEAN
      BY <2>1, PostOutcome
    <2>5. CASE Return(TRUE) /\ UNCHANGED index
      BY <2>1, <2>2, <2>3, <2>4, <2>5, SMT DEF Return, TypeOK, Placed, LogPlaced, Candidate
    <2>6. CASE Continue
      <3>1. /\ pc' \in {"bind", "done"} /\ index' \in Nat /\ success' \in BOOLEAN
            /\ pc' = "bind" => index' \in 1 .. Len(candidates)
        BY <2>1, <2>6, Continues
      <3> QED
        BY <2>1, <2>2, <2>3, <2>4, <3>1, SMT DEF TypeOK, Placed, LogPlaced, Awaiting
    <2> QED
      BY <1>6, <2>5, <2>6 DEF LogUsage
  <1>7. CASE Cancel
    <2>1. UNCHANGED <<status, pass, results, candidates, index, success, skipped>>
      BY <1>7 DEF Cancel
    <2>2. CASE pc' = "cancelled" /\ UNCHANGED <<attempts, usage, late, postLost>>
      BY <2>1, <2>2, SMT DEF TypeOK, Placed, Candidate
    <2>3. CASE /\ pc = "log" /\ GiveUp /\ UNCHANGED usage
               /\ pc' = "cancelled" /\ UNCHANGED attempts
      <3>1. LogPlaced'
        BY <2>1, <2>3, PostTyped DEF GiveUp, Posted, LogPlaced, Placed, TypeOK
      <3> QED
        BY <2>1, <2>3, <3>1, SMT DEF GiveUp, TypeOK, Placed, LogPlaced, Candidate
    <2>4. CASE /\ pc = "invoke" /\ pc' = "last_log" /\ UNCHANGED <<usage, late, postLost>>
               /\ attempts' = Append(attempts, [tool |-> Candidate, ok |-> FALSE])
      <3>1. [tool |-> Candidate, ok |-> FALSE] \in Attempt
        BY <2>4 DEF Placed, Attempt
      <3>2. attempts' \in Seq(Attempt) /\ Len(attempts') > 0
        BY <2>4, <3>1, SMT DEF TypeOK
      <3> QED
        BY <2>1, <2>4, <3>2, SMT DEF TypeOK, Placed, Awaiting, Candidate
    <2> QED
      BY <1>7, <2>2, <2>3, <2>4 DEF Cancel, CancelElsewhere
  <1>8. CASE LastLog
    <2>1. Len(attempts) > 0 /\ PostUsage /\ postLost \in BOOLEAN
      BY <1>8 DEF LastLog, TypeOK, Placed
    <2>2. LogPlaced'
      BY <1>8, <2>1, PostTyped, PostOutcome DEF LastLog, LogPlaced, Placed, TypeOK
    <2>3. postLost' \in BOOLEAN
      BY <2>1, PostOutcome
    <2> QED
      BY <1>8, <2>2, <2>3, SMT DEF LastLog, TypeOK, Placed, LogPlaced
  <1>9. ASSUME NEW t \in Tool, NEW new \in Status, SetStatus(t, new) PROVE Typed'
    BY <1>9, SMT DEF SetStatus, TypeOK, Placed, locals, Candidate
  <1>10. CASE \E t \in Tool : RegisterTool(t) \/ UpdateTool(t) \/ DeleteTool(t) \/ CheckHealth(t)
    BY <1>9, <1>10 DEF RegisterTool, UpdateTool, DeleteTool, CheckHealth, Status
  <1>11. CASE UNCHANGED vars
    BY <1>11, SMT DEF vars, locals, TypeOK, Placed, Candidate
  <1>12. CASE CommitLate
    <2>1. PICK row \in late : usage' = Append(usage, row) /\ late' = late \ {row}
      BY <1>12 DEF CommitLate
    <2>2. UNCHANGED <<status, pc, pass, results, candidates, index, attempts, success, skipped,
                      postLost>>
      BY <1>12 DEF CommitLate, locals
    <2>3. LogPlaced'
      <3>1. LogPlaced /\ row \in UsageRow /\ row.pass <= pass
        BY DEF TypeOK, Placed, LogPlaced
      <3> QED
        BY <2>1, <2>2, <3>1, AppendedPlaced
    <2> QED
      BY <2>2, <2>3, Zenon DEF TypeOK, Placed, LogPlaced, Candidate
  <1> QED
    BY <1>1, <1>2, <1>3, <1>4, <1>5, <1>6, <1>7, <1>8, <1>10, <1>11, <1>12 DEF Next, Step

\* Every variable keeps its type: an unregistered id is never invoked or logged.
THEOREM TypeCorrect == Spec => []TypeOK
  <1>1. Spec => []Typed
    BY TypedInit, TypedStep, PTL DEF Spec
  <1> QED
    BY <1>1, PTL DEF Typed
----------------------------------------------------------------------------
(* The fallback loop *)

Before(k) == {candidates[i] : i \in 1 .. k}

Failing(k) == \A i \in DOMAIN attempts : i <= k => ~ attempts[i].ok

Apart == \A i, j \in DOMAIN attempts : i < j => attempts[i].tool # attempts[j].tool

\* Where the loop stands: the candidates before index are those that were invoked
\* or skipped, and every attempt but a last successful one has failed.
Loop ==
  /\ IsInjective(candidates)
  /\ Len(candidates) <= MaxAttempts
  /\ Apart
  /\ Failing(Len(attempts) - 1)
  /\ Len(attempts) <= MaxAttempts
  /\ pc \in {"search", "select"} =>
       candidates = <<>> /\ attempts = <<>> /\ skipped = {} /\ ~ success
  /\ pc \in {"bind", "invoke"} =>
       /\ Tried \cup skipped = Before(index - 1)
       /\ Len(attempts) <= index - 1
       /\ Failing(Len(attempts))
       /\ ~ success
  /\ pc = "log" => /\ Tried \cup skipped = Before(index)
                   /\ Len(attempts) <= index
                   /\ ~ success
  /\ pc = "done" /\ ~ success => Tried \cup skipped = ToSet(candidates)
  /\ pc = "done" => (success <=> attempts # <<>> /\ Last(attempts).ok)

LEMMA LoopInit == Init => Loop
  <1> SUFFICES ASSUME Init PROVE Loop
    OBVIOUS
  <1>1. DOMAIN attempts = {} /\ DOMAIN candidates = {} /\ Len(attempts) = 0 /\ Len(candidates) = 0
    BY SMT DEF Init
  <1>2. pc = "idle"
    BY DEF Init
  <1> QED
    BY <1>1, <1>2, DiscoveryAssumption, SMT DEF Loop, Apart, Failing, IsInjective

LEMMA BeforeStep ==
  ASSUME TypeOK, index \in 1 .. Len(candidates)
  PROVE  /\ Before(index) = Before(index - 1) \cup {Candidate}
         /\ index = Len(candidates) => Before(index) = ToSet(candidates)
         /\ index = 1 => Before(index - 1) = {}
  <1>1. Before(index) = Before(index - 1) \cup {Candidate}
    BY SMT DEF Before, Candidate, TypeOK
  <1>2. index = Len(candidates) => Before(index) = ToSet(candidates)
    <2>1. DOMAIN candidates = 1 .. Len(candidates)
      BY SMT DEF TypeOK
    <2> QED
      BY <2>1, Zenon DEF Before, ToSet
  <1>3. index = 1 => Before(index - 1) = {}
    BY SMT DEF Before
  <1> QED
    BY <1>1, <1>2, <1>3

\* An invocation adds the one candidate that was neither invoked nor skipped.
LEMMA Attempted ==
  ASSUME Typed, Loop, pc = "invoke", NEW ok \in BOOLEAN,
         attempts' = Append(attempts, [tool |-> Candidate, ok |-> ok]),
         UNCHANGED <<candidates, index, skipped>>
  PROVE  /\ Apart'
         /\ Failing(Len(attempts) - 1)'
         /\ Len(attempts') = Len(attempts) + 1
         /\ Len(attempts') <= index
         /\ Len(attempts') <= MaxAttempts
         /\ (Tried \cup skipped)' = Before(index)'
         /\ Last(attempts').ok = ok
  <1> DEFINE a == [tool |-> Candidate, ok |-> ok]
  <1>1. /\ index \in 1 .. Len(candidates) /\ Candidate \in Tool /\ TypeOK
    BY DEF Typed, Placed
  <1>2. a \in Attempt /\ a.tool = Candidate /\ a.ok = ok
    BY <1>1 DEF Attempt
  <1>3. attempts \in Seq(Attempt)
    BY <1>1 DEF TypeOK
  <1> HIDE DEF a
  <1>4. /\ Len(attempts') = Len(attempts) + 1
        /\ attempts'[Len(attempts) + 1] = a
        /\ \A i \in 1 .. Len(attempts) : attempts'[i] = attempts[i]
        /\ DOMAIN attempts = 1 .. Len(attempts)
        /\ DOMAIN attempts' = 1 .. (Len(attempts) + 1)
        /\ Len(attempts) \in Nat
    BY <1>2, <1>3, SMT DEF a
  <1>5. /\ Tried \cup skipped = Before(index - 1)
        /\ Len(attempts) <= index - 1
        /\ Failing(Len(attempts))
        /\ Apart
        /\ IsInjective(candidates)
        /\ Len(candidates) <= MaxAttempts
    BY DEF Loop
  <1>6. Candidate \notin Before(index - 1)
    <2>1. SUFFICES ASSUME NEW k \in 1 .. index - 1, candidates[k] = candidates[index] PROVE FALSE
      BY DEF Before, Candidate
    <2>2. k \in DOMAIN candidates /\ index \in DOMAIN candidates /\ k # index
      BY <1>1, <2>1, SMT DEF TypeOK
    <2> QED
      BY <1>5, <2>1, <2>2 DEF IsInjective
  <1>7. Apart'
    <2>1. SUFFICES ASSUME NEW i \in DOMAIN attempts', NEW j \in DOMAIN attempts', i < j
                   PROVE  attempts'[i].tool # attempts'[j].tool
      BY DEF Apart
    <2>2. i \in DOMAIN attempts /\ attempts'[i] = attempts[i]
      BY <1>4, <2>1, SMT
    <2>3. CASE j = Len(attempts) + 1
      <3>1. attempts[i].tool \in Tried
        BY <2>2 DEF Tried
      <3> QED
        BY <3>1, <2>2, <2>3, <1>2, <1>4, <1>5, <1>6
    <2>4. CASE j # Len(attempts) + 1
      <3>1. j \in DOMAIN attempts /\ attempts'[j] = attempts[j]
        BY <1>4, <2>1, <2>4, SMT
      <3> QED
        BY <3>1, <2>1, <2>2, <1>5 DEF Apart
    <2> QED
      BY <2>3, <2>4
  <1>8. Failing(Len(attempts) - 1)'
    BY <1>4, <1>5, SMT DEF Failing
  <1>9. Tried' = Tried \cup {Candidate}
    <2>1. Tried' \subseteq Tried \cup {Candidate}
      BY <1>2, <1>4, SMT DEF Tried
    <2>2. Tried \subseteq Tried'
      BY <1>4, SMT DEF Tried
    <2>3. Candidate \in Tried'
      BY <1>2, <1>4, SMT DEF Tried
    <2> QED
      BY <2>1, <2>2, <2>3
  <1>10. (Tried \cup skipped)' = Before(index)'
    <2>1. Before(index)' = Before(index)
      BY DEF Before
    <2> QED
      BY <2>1, <1>1, <1>5, <1>9, BeforeStep
  <1>11. Last(attempts').ok = ok
    BY <1>2, <1>4 DEF Last
  <1>12. Len(attempts') <= index /\ Len(attempts') <= MaxAttempts
    BY <1>1, <1>4, <1>5, DiscoveryAssumption, SMT DEF TypeOK
  <1> QED
    BY <1>4, <1>7, <1>8, <1>10, <1>11, <1>12

\* What a step that adds no attempt and chooses no candidates leaves as it is.
LEMMA LoopKept ==
  ASSUME Loop, UNCHANGED <<candidates, attempts>>
  PROVE  /\ IsInjective(candidates')
         /\ Len(candidates') <= MaxAttempts
         /\ Apart'
         /\ Failing(Len(attempts) - 1)'
         /\ Len(attempts') <= MaxAttempts
         /\ Tried' = Tried
         /\ Failing(Len(attempts))' <=> Failing(Len(attempts))
         /\ \A k : Before(k)' = Before(k)
  BY DEF Loop, Apart, Failing, Tried, Before

LEMMA LoopStep == Typed /\ Loop /\ [Next]_vars => Loop'
  <1> SUFFICES ASSUME Typed, Loop, [Next]_vars PROVE Loop'
    OBVIOUS
  <1>0. TypeOK /\ index \in Nat /\ Len(attempts) \in Nat /\ Len(candidates) \in Nat
    BY SMT DEF Typed, TypeOK
  <1>1. CASE StartPass
    <2>1. /\ candidates' = <<>> /\ attempts' = <<>> /\ skipped' = {} /\ pc' = "search"
          /\ ~ success'
      BY <1>1, Zenon DEF StartPass
    <2>2. /\ DOMAIN attempts' = {} /\ DOMAIN candidates' = {}
          /\ Len(attempts') = 0 /\ Len(candidates') = 0
      BY <2>1, SMT
    <2> QED
      BY <2>1, <2>2, DiscoveryAssumption, SMT DEF Loop, Apart, Failing, IsInjective
  <1>2. CASE Search
    <2>1. /\ UNCHANGED <<candidates, attempts, skipped>>
          /\ candidates = <<>> /\ attempts = <<>> /\ skipped = {} /\ ~ success
          /\ pc' \in {"select", "done"}
          /\ ~ success'
      <3>1. /\ UNCHANGED <<candidates, attempts, skipped>>
            /\ candidates = <<>> /\ attempts = <<>> /\ skipped = {} /\ ~ success
        BY <1>2 DEF Search, Loop
      <3>2. CASE Return(FALSE)
        BY <3>1, <3>2, Zenon DEF Return
      <3>3. CASE pc' = "select" /\ UNCHANGED success
        BY <3>1, <3>3, Zenon
      <3> QED
        BY <1>2, <3>1, <3>2, <3>3 DEF Search
    <2>2. Tried' \cup skipped' = ToSet(candidates')
      BY <2>1, SMT DEF Tried, ToSet
    <2> QED
      BY <2>1, <2>2, LoopKept, Zenon DEF Loop
  <1>3. CASE Select
    <2>1. /\ attempts = <<>> /\ skipped = {} /\ ~ success /\ pc' = "bind"
          /\ UNCHANGED <<attempts, skipped, success, index>>
          /\ index = 1
      BY <1>3 DEF Select, Loop, Typed, Placed
    <2>2. IsInjective(candidates') /\ Len(candidates') <= MaxAttempts
      <3>1. CASE \E selected \in Selection : candidates' \in OrderedCandidates(selected)
        BY <3>1, CandidatesChosen
      <3>2. CASE \E t \in results : candidates' = <<t>>
        BY <3>2, DiscoveryAssumption, SMT DEF IsInjective
      <3> QED
        BY <1>3, <3>1, <3>2 DEF Select
    <2>3. Tried' = {} /\ Before(index - 1)' = {} /\ DOMAIN attempts = {} /\ Len(attempts) = 0
      BY <2>1, SMT DEF Tried, Before
    <2>4. Apart' /\ Failing(Len(attempts) - 1)' /\ Failing(Len(attempts))'
      BY <2>1, <2>3 DEF Apart, Failing
    <2> QED
      BY <2>1, <2>2, <2>3, <2>4, DiscoveryAssumption, SMT DEF Loop
  <1>4. CASE Bind
    <2>1. /\ UNCHANGED <<candidates, attempts>>
          /\ index \in 1 .. Len(candidates)
          /\ Tried \cup skipped = Before(index - 1)
          /\ Len(attempts) <= index - 1
          /\ Failing(Len(attempts))
          /\ ~ success
      BY <1>4 DEF Bind, Loop, Typed, Placed
    <2>2. CASE pc' = "invoke" /\ UNCHANGED <<index, success, skipped>>
      <3>1. Before(index - 1)' = Before(index - 1)
        BY <2>1, <2>2 DEF Before
      <3> QED
        BY <2>1, <2>2, <3>1, LoopKept, Zenon DEF Loop
    <2>3. CASE skipped' = skipped \cup {Candidate} /\ Continue
      <3>1. /\ pc' \in {"bind", "done"}
            /\ pc' = "bind" => index' = index + 1 /\ UNCHANGED success
            /\ pc' = "done" => index' = index /\ index = Len(candidates) /\ success' = FALSE
        BY <1>0, <2>1, <2>3, Continues DEF Continue, Return
      <3>2. Tried' \cup skipped' = Before(index)
        BY <1>0, <2>1, <2>3, LoopKept, BeforeStep
      <3>3. CASE pc' = "bind"
        <4>1. /\ Before(index - 1)' = Before(index) /\ Len(attempts') <= index' - 1
              /\ Failing(Len(attempts))' /\ ~ success'
          BY <1>0, <2>1, <3>1, <3>3, LoopKept, SMT DEF Before
        <4> QED
          BY <3>2, <3>3, <4>1, <2>1, LoopKept, Zenon DEF Loop
      <3>4. CASE pc' = "done"
        <4>1. Tried' \cup skipped' = ToSet(candidates')
          BY <1>0, <2>1, <3>1, <3>2, <3>4, BeforeStep
        <4>2. ~ (attempts' # <<>> /\ Last(attempts').ok)
          <5>1. SUFFICES ASSUME attempts # <<>> PROVE ~ Last(attempts).ok
            BY <2>1
          <5>2. Len(attempts) \in DOMAIN attempts /\ Len(attempts) <= Len(attempts)
            BY <1>0, <5>1, EmptySeq, SMT DEF TypeOK
          <5> QED
            BY <5>2, <2>1 DEF Failing, Last
        <4> QED
          BY <2>1, <3>1, <3>4, <4>1, <4>2, LoopKept, Zenon DEF Loop
      <3> QED
        BY <3>1, <3>3, <3>4
    <2> QED
      BY <1>4, <2>2, <2>3 DEF Bind
  <1>5. CASE Invoke
    <2>1. PICK ok \in BOOLEAN : attempts' = Append(attempts, [tool |-> Candidate, ok |-> ok])
      BY <1>5 DEF Invoke
    <2>2. /\ pc = "invoke" /\ pc' = "log" /\ ~ success
          /\ UNCHANGED <<candidates, index, skipped, success>>
      BY <1>5 DEF Invoke, Loop
    <2> QED
      BY <2>1, <2>2, Attempted, Zenon DEF Loop
  <1>6. CASE LogUsage
    <2>1. /\ UNCHANGED <<candidates, attempts, skipped>>
          /\ index \in 1 .. Len(candidates)
          /\ Len(attempts) > 0
          /\ Tried \cup skipped = Before(index)
          /\ Len(attempts) <= index
          /\ ~ success
      BY <1>6 DEF LogUsage, Loop, Typed, Placed
    <2>2. attempts # <<>>
      BY <2>1, SMT
    <2>3. CASE Last(attempts).ok /\ Return(TRUE)
      <3>1. success' /\ pc' = "done"
        BY <2>3, Zenon DEF Return
      <3> QED
        BY <2>1, <2>2, <2>3, <3>1, LoopKept, Zenon DEF Loop
    <2>4. CASE ~ Last(attempts).ok /\ Continue
      <3>1. /\ pc' \in {"bind", "done"}
            /\ pc' = "bind" => index' = index + 1 /\ UNCHANGED success
            /\ pc' = "done" => index' = index /\ index = Len(candidates) /\ success' = FALSE
        BY <1>0, <2>1, <2>4, Continues DEF Continue, Return
      <3>2. Failing(Len(attempts))
        <4>1. SUFFICES ASSUME NEW i \in DOMAIN attempts, i <= Len(attempts)
                       PROVE  ~ attempts[i].ok
          BY DEF Failing
        <4>2. i = Len(attempts) \/ i <= Len(attempts) - 1
          BY <1>0, <4>1, SMT DEF TypeOK
        <4> QED
          BY <4>1, <4>2, <2>4 DEF Loop, Failing, Last
      <3>3. CASE pc' = "bind"
        <4>1. /\ Before(index - 1)' = Before(index) /\ Len(attempts') <= index' - 1
              /\ Failing(Len(attempts))' /\ ~ success'
          BY <1>0, <2>1, <3>1, <3>2, <3>3, LoopKept, SMT DEF Before
        <4> QED
          BY <2>1, <3>3, <4>1, LoopKept, Zenon DEF Loop
      <3>4. CASE pc' = "done"
        <4>1. Tried' \cup skipped' = ToSet(candidates')
          BY <1>0, <2>1, <3>1, <3>4, BeforeStep, LoopKept
        <4> QED
          BY <2>1, <2>4, <3>1, <3>4, <4>1, LoopKept, Zenon DEF Loop
      <3> QED
        BY <3>1, <3>3, <3>4
    <2> QED
      BY <1>6, <2>3, <2>4 DEF LogUsage
  <1>7. CASE Cancel
    <2>1. UNCHANGED <<candidates, index, skipped, success>>
      BY <1>7 DEF Cancel
    <2>2. CASE pc' = "cancelled" /\ UNCHANGED attempts
      BY <2>1, <2>2, LoopKept, Zenon DEF Loop
    <2>3. CASE /\ pc = "invoke" /\ pc' = "last_log"
               /\ attempts' = Append(attempts, [tool |-> Candidate, ok |-> FALSE])
      <3>1. Apart' /\ Failing(Len(attempts) - 1)' /\ Len(attempts') <= MaxAttempts
        BY <2>1, <2>3, Attempted, FALSE \in BOOLEAN
      <3> QED
        BY <2>1, <2>3, <3>1, Zenon DEF Loop
    <2> QED
      BY <1>7, <2>2, <2>3 DEF Cancel, CancelElsewhere
  <1>8. CASE LastLog
    BY <1>8, LoopKept, Zenon DEF LastLog, Loop
  <1>9. ASSUME UNCHANGED <<pc, candidates, index, attempts, success, skipped>> PROVE Loop'
    <2>1. Before(index - 1)' = Before(index - 1) /\ Before(index)' = Before(index)
      BY <1>9 DEF Before
    <2> QED
      BY <1>9, <2>1, LoopKept, Zenon DEF Loop
  <1>10. CASE \E t \in Tool : RegisterTool(t) \/ UpdateTool(t) \/ DeleteTool(t) \/ CheckHealth(t)
    BY <1>9, <1>10 DEF RegisterTool, UpdateTool, DeleteTool, CheckHealth, SetStatus, locals
  <1>11. CASE UNCHANGED vars
    BY <1>9, <1>11 DEF vars, locals
  <1>12. CASE CommitLate
    BY <1>9, <1>12 DEF CommitLate, locals
  <1> QED
    BY <1>1, <1>2, <1>3, <1>4, <1>5, <1>6, <1>7, <1>8, <1>10, <1>11, <1>12 DEF Next, Step

LEMMA LoopInvariant == Spec => [](Typed /\ Loop)
  <1>1. Spec => []Typed
    BY TypedInit, TypedStep, PTL DEF Spec
  <1> QED
    BY <1>1, LoopInit, LoopStep, PTL DEF Spec

\* A pass invokes a tool once, within its budget, goes on only after a failure,
\* and gives up only when every candidate was invoked or could not be bound.
THEOREM FallbackAlways == Spec => []FallbackDiscipline
  <1>1. Typed /\ Loop => FallbackDiscipline
    <2> SUFFICES ASSUME Typed, Loop PROVE FallbackDiscipline
      OBVIOUS
    <2>1. ASSUME NEW i \in DOMAIN attempts, NEW j \in DOMAIN attempts, i < j
          PROVE  attempts[i].tool # attempts[j].tool /\ ~ attempts[i].ok
      <3>1. i <= Len(attempts) - 1
        BY <2>1, SMT DEF Typed, TypeOK
      <3> QED
        BY <2>1, <3>1 DEF Loop, Apart, Failing
    <2> QED
      BY <2>1 DEF Loop, FallbackDiscipline
  <1> QED
    BY <1>1, LoopInvariant, PTL

\* A pass returns success exactly when its last attempt succeeded.
THEOREM AnswerReturnedAlways == Spec => []AnswerReturned
  <1>1. Loop => AnswerReturned
    BY DEF Loop, AnswerReturned
  <1> QED
    BY <1>1, LoopInvariant, PTL

----------------------------------------------------------------------------
(* The usage log *)

\* The rows that are committed or may still be.
Sent == ToSet(usage) \cup late

Same(row, other) == row.pass = other.pass /\ row.tool = other.tool

Explained ==
  \A row \in Sent : row.pass = pass => \E i \in DOMAIN attempts : Reports(row, i)

Once == \A m, n \in DOMAIN usage : Same(usage[m], usage[n]) => m = n

\* A row that may still be committed is not there yet, and owed once.
Owed ==
  \A row \in late :
    /\ \A n \in DOMAIN usage : ~ Same(row, usage[n])
    /\ \A other \in late : Same(row, other) => row = other

InOrder == \A m, n \in DOMAIN usage : \A i, j \in DOMAIN attempts :
             m < n /\ Logs(m, i) /\ Logs(n, j) => i < j

Logged(k) == \A i \in DOMAIN attempts : i <= k => \E n \in DOMAIN usage : Logs(n, i)

\* Nothing was sent yet for the last attempt.
Fresh == \A row \in Sent : row.pass = pass => row.tool # attempts[Len(attempts)].tool

\* While an attempt waits for its row none was sent, and those before it have
\* theirs unless a POST was given up.
LogInv ==
  /\ Explained
  /\ Once
  /\ Owed
  /\ ~ postLost => InOrder /\ \A row \in late : row.pass # pass
  /\ pc \in {"log", "last_log"} => Fresh /\ (~ postLost => Logged(Len(attempts) - 1))
  /\ pc \notin {"log", "last_log"} /\ ~ postLost => Logged(Len(attempts))

LEMMA LogInit == Init => LogInv
  <1> SUFFICES ASSUME Init PROVE LogInv
    OBVIOUS
  <1>1. DOMAIN attempts = {} /\ DOMAIN usage = {}
    BY SMT DEF Init
  <1>2. pc = "idle" /\ late = {}
    BY DEF Init
  <1>3. Sent = {}
    BY <1>1, <1>2 DEF Sent, ToSet
  <1> QED
    BY <1>1, <1>2, <1>3, Zenon DEF LogInv, Explained, Once, Owed, InOrder, Logged

\* What depends on the log and the attempts only stays while these do.
LEMMA LogSame ==
  ASSUME UNCHANGED <<usage, late, attempts, pass>>
  PROVE  /\ Explained' <=> Explained
         /\ Once' <=> Once
         /\ Owed' <=> Owed
         /\ InOrder' <=> InOrder
         /\ Fresh' <=> Fresh
         /\ Logged(Len(attempts) - 1)' <=> Logged(Len(attempts) - 1)
         /\ Logged(Len(attempts))' <=> Logged(Len(attempts))
  BY DEF Explained, Once, Owed, InOrder, Fresh, Logged, Sent, Logs, Reports, Same, ToSet

\* A new attempt has no row yet: its tool was not invoked before.
LEMMA LogAttempted ==
  ASSUME Typed, LogInv, pc = "invoke", Apart', NEW a \in Attempt,
         attempts' = Append(attempts, a), UNCHANGED <<usage, late, pass>>
  PROVE  /\ Explained' /\ Once' /\ Owed' /\ Fresh'
         /\ InOrder => InOrder'
         /\ Logged(Len(attempts)) => Logged(Len(attempts) - 1)'
  <1>1. /\ Len(attempts) \in Nat
        /\ DOMAIN attempts = 1 .. Len(attempts)
        /\ DOMAIN attempts' = 1 .. (Len(attempts) + 1)
        /\ Len(attempts') = Len(attempts) + 1
        /\ attempts'[Len(attempts) + 1] = a
        /\ \A i \in 1 .. Len(attempts) : attempts'[i] = attempts[i]
    BY SMT DEF Typed, TypeOK
  <1>2. \A row : \A i \in DOMAIN attempts : Reports(row, i)' <=> Reports(row, i)
    BY <1>1 DEF Reports
  <1>3. Sent' = Sent /\ \A n \in DOMAIN usage : usage[n] \in Sent
    BY DEF Sent, ToSet
  <1>4. Fresh'
    <2>1. SUFFICES ASSUME NEW row \in Sent, row.pass = pass, row.tool = a.tool PROVE FALSE
      BY <1>1, <1>3 DEF Fresh
    <2>2. PICK i \in DOMAIN attempts : Reports(row, i)
      BY <2>1 DEF LogInv, Explained
    <2>3. attempts'[i].tool = a.tool
      BY <2>1, <2>2, <1>1 DEF Reports
    <2>4. i \in DOMAIN attempts' /\ Len(attempts') \in DOMAIN attempts' /\ i < Len(attempts')
      BY <2>2, <1>1, SMT
    <2> QED
      BY <2>3, <2>4, <1>1 DEF Apart
  <1>5. \A row \in Sent : \A i \in DOMAIN attempts' :
          Reports(row, i)' => i \in DOMAIN attempts /\ Reports(row, i)
    <2>1. SUFFICES ASSUME NEW row \in Sent, NEW i \in DOMAIN attempts', Reports(row, i)'
                   PROVE  i \in DOMAIN attempts /\ Reports(row, i)
      OBVIOUS
    <2>2. i # Len(attempts')
      BY <2>1, <1>3, <1>4 DEF Fresh, Reports
    <2>3. i \in DOMAIN attempts
      BY <2>1, <2>2, <1>1, SMT
    <2> QED
      BY <2>1, <2>3, <1>2
  <1>6. Explained'
    <2>1. SUFFICES ASSUME NEW row \in Sent, row.pass = pass
                   PROVE  \E i \in DOMAIN attempts' : Reports(row, i)'
      BY <1>3 DEF Explained
    <2>2. PICK i \in DOMAIN attempts : Reports(row, i)
      BY <2>1 DEF LogInv, Explained
    <2>3. i \in DOMAIN attempts' /\ Reports(row, i)'
      BY <2>2, <1>1, <1>2, SMT
    <2> QED
      BY <2>3
  <1>7. Once' /\ Owed'
    BY DEF LogInv, Once, Owed, Same
  <1>8. ASSUME InOrder PROVE InOrder'
    <2>1. SUFFICES ASSUME NEW m \in DOMAIN usage, NEW n \in DOMAIN usage,
                          NEW i \in DOMAIN attempts', NEW j \in DOMAIN attempts',
                          m < n, Logs(m, i)', Logs(n, j)'
                   PROVE  i < j
      BY DEF InOrder
    <2>2. i \in DOMAIN attempts /\ j \in DOMAIN attempts /\ Logs(m, i) /\ Logs(n, j)
      <3>1. Reports(usage[m], i)' /\ Reports(usage[n], j)'
        BY <2>1 DEF Logs, Reports
      <3> QED
        BY <3>1, <2>1, <1>3, <1>5 DEF Logs
    <2> QED
      BY <2>1, <2>2, <1>8 DEF InOrder
  <1>9. ASSUME Logged(Len(attempts)) PROVE Logged(Len(attempts) - 1)'
    <2>1. SUFFICES ASSUME NEW i \in DOMAIN attempts', i <= Len(attempts') - 1
                   PROVE  \E n \in DOMAIN usage : Logs(n, i)'
      BY DEF Logged
    <2>2. i \in DOMAIN attempts /\ i <= Len(attempts)
      BY <2>1, <1>1, SMT
    <2>3. PICK n \in DOMAIN usage : Logs(n, i)
      BY <2>2, <1>9 DEF Logged
    <2>4. Logs(n, i)'
      BY <2>2, <2>3, <1>2 DEF Logs, Reports
    <2> QED
      BY <2>4
  <1> QED
    BY <1>4, <1>6, <1>7, <1>8, <1>9

\* A row appended to the log, by its own POST or late.
LEMMA RowAppended ==
  ASSUME TypeOK, NEW row \in UsageRow, usage' = Append(usage, row),
         UNCHANGED <<attempts, pass>>
  PROVE  /\ ToSet(usage)' = ToSet(usage) \cup {row}
         /\ \A n \in DOMAIN usage' :
              \/ n \in DOMAIN usage /\ usage'[n] = usage[n]
              \/ n \notin DOMAIN usage /\ usage'[n] = row
         /\ Once /\ (\A n \in DOMAIN usage : ~ Same(row, usage[n])) => Once'
         /\ InOrder /\ (\A n \in DOMAIN usage : \A i, j \in DOMAIN attempts :
                          Logs(n, i) /\ Reports(row, j) => i < j) => InOrder'
         /\ \A k : Logged(k) => \A i \in DOMAIN attempts :
              i <= k \/ Reports(row, i) => \E n \in DOMAIN usage' : Logs(n, i)'
  <1>a. PICK new : new = Len(usage) + 1
    OBVIOUS
  <1>1. /\ Len(usage) \in Nat /\ DOMAIN usage = 1 .. Len(usage)
        /\ DOMAIN usage' = 1 .. new
        /\ usage'[new] = row
        /\ \A n \in 1 .. Len(usage) : usage'[n] = usage[n]
    BY <1>a, SMT DEF TypeOK
  <1>2. \A n \in DOMAIN usage' : n \in DOMAIN usage \/ n = new
    BY <1>1, <1>a, SMT
  <1>3. new \in DOMAIN usage' /\ new \notin DOMAIN usage /\ DOMAIN usage \subseteq DOMAIN usage'
    BY <1>1, <1>a, SMT
  <1>4. /\ \A n \in DOMAIN usage : \A i : Logs(n, i)' <=> Logs(n, i)
        /\ \A i : Logs(new, i)' <=> Reports(row, i)
    BY <1>1 DEF Logs, Reports
  <1>5. ToSet(usage)' = ToSet(usage) \cup {row}
    BY <1>1, <1>2, <1>3 DEF ToSet
  <1>6. \A n \in DOMAIN usage' : \/ n \in DOMAIN usage /\ usage'[n] = usage[n]
                                 \/ n \notin DOMAIN usage /\ usage'[n] = row
    BY <1>1, <1>2, <1>3
  <1>7. ASSUME Once, \A n \in DOMAIN usage : ~ Same(row, usage[n]) PROVE Once'
    <2>1. SUFFICES ASSUME NEW m \in DOMAIN usage', NEW n \in DOMAIN usage',
                          Same(usage'[m], usage'[n])
                   PROVE  m = n
      BY DEF Once, Same
    <2>2. CASE m \in DOMAIN usage /\ n \in DOMAIN usage
      BY <2>1, <2>2, <1>1, <1>7 DEF Once
    <2>3. CASE m = new /\ n \in DOMAIN usage
      BY <2>1, <2>3, <1>1, <1>7
    <2>4. CASE m \in DOMAIN usage /\ n = new
      BY <2>1, <2>4, <1>1, <1>7 DEF Same
    <2> QED
      BY <2>2, <2>3, <2>4, <1>2
  <1>8. ASSUME InOrder,
               \A n \in DOMAIN usage : \A i, j \in DOMAIN attempts :
                 Logs(n, i) /\ Reports(row, j) => i < j
        PROVE  InOrder'
    <2>1. SUFFICES ASSUME NEW m \in DOMAIN usage', NEW n \in DOMAIN usage',
                          NEW i \in DOMAIN attempts, NEW j \in DOMAIN attempts,
                          m < n, Logs(m, i)', Logs(n, j)'
                   PROVE  i < j
      BY DEF InOrder
    <2>2. m \in DOMAIN usage
      BY <2>1, <1>1, <1>a, SMT
    <2>3. Logs(m, i)
      BY <2>1, <2>2, <1>4
    <2>4. CASE n \in DOMAIN usage
      BY <2>1, <2>2, <2>3, <2>4, <1>4, <1>8 DEF InOrder
    <2>5. CASE n = new
      BY <2>1, <2>2, <2>3, <2>5, <1>4, <1>8
    <2> QED
      BY <2>4, <2>5, <1>2
  <1>9. ASSUME NEW k, Logged(k), NEW i \in DOMAIN attempts, i <= k \/ Reports(row, i)
        PROVE  \E n \in DOMAIN usage' : Logs(n, i)'
    <2>1. CASE i <= k
      <3>1. PICK n \in DOMAIN usage : Logs(n, i)
        BY <2>1, <1>9 DEF Logged
      <3> QED
        BY <3>1, <1>3, <1>4
    <2>2. CASE Reports(row, i)
      BY <2>2, <1>3, <1>4
    <2> QED
      BY <2>1, <2>2, <1>9
  <1> QED
    BY <1>5, <1>6, <1>7, <1>8, <1>9

\* A POST sends the row of the last attempt, and nothing else.
LEMMA LogPosted ==
  ASSUME Typed, Apart, LogInv, pc \in {"log", "last_log"}, Posted,
         UNCHANGED <<attempts, pass>>
  PROVE  /\ Explained' /\ Once' /\ Owed'
         /\ InOrder /\ usage' = Append(usage, Row) => InOrder'
         /\ usage' = Append(usage, Row) /\ Logged(Len(attempts) - 1) => Logged(Len(attempts))'
  <1>b. PICK last : last = Len(attempts)
    OBVIOUS
  <1>1. TypeOK /\ Len(attempts) > 0
    BY DEF Typed, Placed
  <1>2. /\ Row \in UsageRow /\ Row.pass = pass
        /\ Row.tool = attempts[last].tool /\ Row.ok = attempts[last].ok
    BY <1>1, <1>b, RowTyped
  <1>3. /\ last \in DOMAIN attempts /\ Len(attempts) \in Nat /\ DOMAIN attempts = 1 .. last
    BY <1>1, <1>b, SMT DEF TypeOK
  <1>4. /\ Reports(Row, last)
        /\ \A row \in Sent : ~ Same(Row, row)
        /\ \A n \in DOMAIN usage : usage[n] \in Sent
    <2>1. Fresh
      BY DEF LogInv
    <2> QED
      BY <2>1, <1>2, <1>b DEF Reports, Fresh, Same, Sent, ToSet
  <1>5. \A i \in DOMAIN attempts : Reports(Row, i) => i = last
    <2>1. SUFFICES ASSUME NEW i \in DOMAIN attempts, Reports(Row, i), i # last PROVE FALSE
      OBVIOUS
    <2>2. attempts[i].tool = attempts[last].tool
      BY <2>1, <1>2 DEF Reports
    <2>3. i < last
      BY <2>1, <1>3, SMT
    <2> QED
      BY <2>2, <2>3, <1>3 DEF Apart
  <1>6. \A n \in DOMAIN usage : ~ Logs(n, last)
    BY <1>2, <1>4 DEF Logs, Reports, Same
  <1>7. Sent' = Sent \cup {Row}
    <2>1. CASE usage' = usage /\ late' = late \cup {Row}
      BY <2>1 DEF Sent
    <2>2. CASE usage' = Append(usage, Row) /\ late' = late
      <3>1. ToSet(usage)' = ToSet(usage) \cup {Row}
        BY <2>2, <1>1, <1>2, RowAppended
      <3> QED
        BY <2>2, <3>1 DEF Sent
    <2> QED
      BY <2>1, <2>2 DEF Posted
  <1>8. Explained'
    BY <1>3, <1>4, <1>7 DEF LogInv, Explained, Reports
  <1>9. Once' /\ Owed'
    <2>1. CASE usage' = usage /\ late' = late \cup {Row}
      <3>1. Once'
        BY <2>1 DEF LogInv, Once, Same
      <3>2. Owed'
        <4>1. SUFFICES ASSUME NEW row \in late'
                       PROVE  /\ \A n \in DOMAIN usage : ~ Same(row, usage[n])
                              /\ \A other \in late' : Same(row, other) => row = other
          BY <2>1 DEF Owed, Same
        <4>2. late \subseteq Sent
          BY DEF Sent
        <4>3. CASE row = Row
          BY <4>2, <4>3, <2>1, <1>4
        <4>4. CASE row \in late
          BY <4>2, <4>4, <2>1, <1>4 DEF LogInv, Owed, Same
        <4> QED
          BY <4>1, <4>3, <4>4, <2>1
      <3> QED
        BY <3>1, <3>2
    <2>2. CASE usage' = Append(usage, Row) /\ late' = late
      <3>1. Once'
        BY <2>2, <1>1, <1>2, <1>4, RowAppended DEF LogInv
      <3>2. \A n \in DOMAIN usage' : \/ n \in DOMAIN usage /\ usage'[n] = usage[n]
                                     \/ n \notin DOMAIN usage /\ usage'[n] = Row
        BY <2>2, <1>1, <1>2, RowAppended
      <3>3. late \subseteq Sent
        BY DEF Sent
      <3>4. Owed'
        BY <2>2, <3>2, <3>3, <1>4 DEF LogInv, Owed, Same
      <3> QED
        BY <3>1, <3>4
    <2> QED
      BY <2>1, <2>2 DEF Posted
  <1>10. ASSUME InOrder, usage' = Append(usage, Row) PROVE InOrder'
    <2>1. ASSUME NEW n \in DOMAIN usage, NEW i \in DOMAIN attempts, NEW j \in DOMAIN attempts,
                 Logs(n, i), Reports(Row, j)
          PROVE  i < j
      <3>1. j = last /\ i # last
        BY <2>1, <1>5, <1>6
      <3> QED
        BY <3>1, <1>3, <1>b, SMT
    <2> QED
      BY <2>1, <1>1, <1>2, <1>10, RowAppended
  <1>11. ASSUME usage' = Append(usage, Row), Logged(Len(attempts) - 1)
         PROVE  Logged(Len(attempts))'
    <2>1. SUFFICES ASSUME NEW i \in DOMAIN attempts PROVE \E n \in DOMAIN usage' : Logs(n, i)'
      BY DEF Logged
    <2>2. i <= Len(attempts) - 1 \/ i = last
      BY <1>3, <1>b, SMT
    <2>3. i <= Len(attempts) - 1 \/ Reports(Row, i)
      BY <2>2, <1>4
    <2> QED
      BY <2>3, <1>1, <1>2, <1>11, RowAppended
  <1> QED
    BY <1>8, <1>9, <1>10, <1>11

\* A late row was owed, so it doubles nothing; of a pass that gave no POST up it
\* is not.
LEMMA LogLate ==
  ASSUME Typed, LogInv, CommitLate
  PROVE  LogInv'
  <1>1. PICK row \in late : usage' = Append(usage, row) /\ late' = late \ {row}
    BY DEF CommitLate
  <1>2. UNCHANGED <<pc, pass, attempts, postLost>>
    BY DEF CommitLate, locals
  <1>3. TypeOK /\ row \in UsageRow
    BY DEF Typed, TypeOK
  <1>4. ToSet(usage)' = ToSet(usage) \cup {row}
    BY <1>1, <1>2, <1>3, RowAppended
  <1>5. Sent' = Sent
    BY <1>1, <1>4 DEF Sent
  <1>6. Explained' /\ (Fresh' <=> Fresh)
    BY <1>2, <1>5 DEF LogInv, Explained, Fresh, Reports
  <1>7. \A n \in DOMAIN usage : ~ Same(row, usage[n])
    BY DEF LogInv, Owed
  <1>8. Once'
    BY <1>1, <1>2, <1>3, <1>7, RowAppended DEF LogInv
  <1>9. Owed'
    <2>1. \A n \in DOMAIN usage' : \/ n \in DOMAIN usage /\ usage'[n] = usage[n]
                                   \/ n \notin DOMAIN usage /\ usage'[n] = row
      BY <1>1, <1>2, <1>3, RowAppended
    <2> QED
      BY <2>1, <1>1 DEF LogInv, Owed, Same
  <1>10. ASSUME ~ postLost PROVE InOrder' /\ \A other \in late' : other.pass # pass'
    <2>1. row.pass # pass
      BY <1>10 DEF LogInv
    <2>2. \A j : ~ Reports(row, j)
      BY <2>1 DEF Reports
    <2>3. InOrder'
      BY <2>2, <1>1, <1>2, <1>3, <1>10, RowAppended DEF LogInv
    <2> QED
      BY <2>3, <1>1, <1>2, <1>10 DEF LogInv
  <1>11. ASSUME NEW k, Logged(k) PROVE \A i \in DOMAIN attempts' :
           i <= k => \E n \in DOMAIN usage' : Logs(n, i)'
    BY <1>1, <1>2, <1>3, <1>11, RowAppended
  <1>12. /\ Logged(Len(attempts)) => Logged(Len(attempts))'
         /\ Logged(Len(attempts) - 1) => Logged(Len(attempts) - 1)'
    BY <1>2, <1>11 DEF Logged
  <1> QED
    BY <1>2, <1>6, <1>8, <1>9, <1>10, <1>12, Zenon DEF LogInv

LEMMA LogKept ==
  ASSUME LogInv, UNCHANGED <<usage, late, attempts, pass, postLost>>,
         pc \notin {"log", "last_log"}, pc' \notin {"log", "last_log"}
  PROVE  LogInv'
  BY LogSame, Zenon DEF LogInv

LEMMA LogStep == Typed /\ Loop /\ Loop' /\ LogInv /\ [Next]_vars => LogInv'
  <1> SUFFICES ASSUME Typed, Loop, Loop', LogInv, [Next]_vars PROVE LogInv'
    OBVIOUS
  <1>0. Apart /\ Apart' /\ postLost \in BOOLEAN
    BY DEF Loop, Typed, TypeOK
  <1>1. CASE StartPass
    <2>1. /\ attempts' = <<>> /\ usage' = usage /\ late' = late /\ pass' = pass + 1
          /\ pc' = "search"
      BY <1>1 DEF StartPass
    <2>2. DOMAIN attempts' = {}
      BY <2>1, SMT
    <2>3. \A row \in Sent' : row.pass # pass'
      <3>1. Sent' = Sent
        BY <2>1 DEF Sent
      <3>2. SUFFICES ASSUME NEW row \in Sent PROVE row.pass # pass + 1
        BY <2>1, <3>1
      <3>3. row \in UsageRow /\ row.pass <= pass /\ pass \in Nat
        BY SMT DEF Sent, ToSet, Typed, TypeOK, Placed
      <3> QED
        BY <3>3, SMT DEF UsageRow
    <2>4. Explained' /\ InOrder' /\ Logged(Len(attempts))'
      BY <2>2, <2>3, Zenon DEF Explained, InOrder, Logged
    <2>5. Once' /\ Owed'
      BY <2>1 DEF LogInv, Once, Owed, Same
    <2>6. \A row \in late' : row.pass # pass'
      BY <2>3 DEF Sent
    <2> QED
      BY <2>1, <2>4, <2>5, <2>6, Zenon DEF LogInv
  <1>2. CASE Search
    <2>1. pc' \in {"select", "done"}
      BY <1>2 DEF Search, Return
    <2> QED
      BY <1>2, <2>1, LogKept DEF Search
  <1>3. CASE Select
    BY <1>3, LogKept DEF Select
  <1>4. CASE Bind
    <2>1. pc' \in {"invoke", "bind", "done"}
      BY <1>4 DEF Bind, Continue, Return
    <2> QED
      BY <1>4, <2>1, LogKept DEF Bind
  <1>5. CASE Invoke
    <2>1. PICK ok \in BOOLEAN : attempts' = Append(attempts, [tool |-> Candidate, ok |-> ok])
      BY <1>5 DEF Invoke
    <2>2. [tool |-> Candidate, ok |-> ok] \in Attempt
      BY <1>5 DEF Invoke, Typed, Placed, Attempt
    <2>3. pc = "invoke" /\ pc' = "log" /\ UNCHANGED <<usage, late, pass, postLost>>
      BY <1>5 DEF Invoke
    <2> QED
      BY <1>0, <2>1, <2>2, <2>3, LogAttempted, Zenon DEF LogInv
  <1>6. CASE LogUsage
    <2>1. /\ pc = "log" /\ pc' \in {"bind", "done"} /\ PostUsage
          /\ UNCHANGED <<attempts, pass>>
      BY <1>6 DEF LogUsage, Return, Continue
    <2> QED
      BY <1>0, <2>1, PostOutcome, LogPosted, Zenon DEF LogInv
  <1>7. CASE Cancel
    <2>1. CASE /\ pc \in {"search", "select", "bind"} /\ pc' = "cancelled"
               /\ UNCHANGED <<attempts, usage, late, postLost>>
      BY <1>7, <2>1, LogKept DEF Cancel
    <2>2. CASE /\ pc = "log" /\ GiveUp /\ UNCHANGED usage
               /\ pc' = "cancelled" /\ UNCHANGED attempts
      <3>1. pass' = pass /\ Posted /\ postLost'
        BY <1>7, <2>2, Zenon DEF Cancel, GiveUp, Posted
      <3> QED
        BY <1>0, <2>2, <3>1, LogPosted, Zenon DEF LogInv
    <2>3. CASE /\ pc = "invoke" /\ pc' = "last_log" /\ UNCHANGED <<usage, late, postLost>>
               /\ attempts' = Append(attempts, [tool |-> Candidate, ok |-> FALSE])
      <3>1. [tool |-> Candidate, ok |-> FALSE] \in Attempt /\ pass' = pass
        BY <1>7, <2>3 DEF Cancel, Typed, Placed, Attempt
      <3> QED
        BY <1>0, <2>3, <3>1, LogAttempted, Zenon DEF LogInv
    <2> QED
      BY <1>7, <2>1, <2>2, <2>3 DEF Cancel, CancelElsewhere
  <1>8. CASE LastLog
    <2>1. /\ pc = "last_log" /\ pc' = "cancelled" /\ PostUsage
          /\ UNCHANGED <<attempts, pass>>
      BY <1>8 DEF LastLog
    <2> QED
      BY <1>0, <2>1, PostOutcome, LogPosted, Zenon DEF LogInv
  <1>9. ASSUME UNCHANGED <<usage, late, attempts, pass, postLost, pc>> PROVE LogInv'
    BY <1>9, LogSame, Zenon DEF LogInv
  <1>10. CASE \E t \in Tool : RegisterTool(t) \/ UpdateTool(t) \/ DeleteTool(t) \/ CheckHealth(t)
    BY <1>9, <1>10 DEF RegisterTool, UpdateTool, DeleteTool, CheckHealth, SetStatus, locals
  <1>11. CASE UNCHANGED vars
    BY <1>9, <1>11 DEF vars, locals
  <1>12. CASE CommitLate
    BY <1>12, LogLate
  <1> QED
    BY <1>1, <1>2, <1>3, <1>4, <1>5, <1>6, <1>7, <1>8, <1>10, <1>11, <1>12 DEF Next, Step

\* However late the rows of given-up POSTs are committed: the rows of a pass report
\* its attempts, no pass has two rows for a tool, and a pass that gave up no POST
\* has the rows of all its attempts, in their order.
THEOREM UsageMatchesAlways == Spec => []UsageMatchesAttempts
  <1>1. Typed /\ LogInv => UsageMatchesAttempts
    <2> SUFFICES ASSUME Typed, LogInv PROVE UsageMatchesAttempts
      OBVIOUS
    <2>1. ASSUME pc \in {"done", "cancelled"}, ~ postLost, NEW i \in DOMAIN attempts
          PROVE  \E n \in DOMAIN usage : Logs(n, i)
      <3>1. i <= Len(attempts)
        BY SMT DEF Typed, TypeOK
      <3> QED
        BY <2>1, <3>1 DEF LogInv, Logged
    <2>2. \A n \in DOMAIN usage : usage[n].pass = pass => \E i \in DOMAIN attempts : Logs(n, i)
      BY DEF LogInv, Explained, Sent, ToSet, Logs
    <2>3. \A m, n \in DOMAIN usage :
            usage[m].pass = usage[n].pass /\ usage[m].tool = usage[n].tool => m = n
      BY DEF LogInv, Once, Same
    <2>4. ~ postLost => InOrder
      BY DEF LogInv
    <2> QED
      BY <2>1, <2>2, <2>3, <2>4 DEF UsageMatchesAttempts, InOrder
  <1>2. Spec => []LogInv
    BY LoopInvariant, LogInit, LogStep, PTL DEF Spec
  <1> QED
    BY <1>1, <1>2, LoopInvariant, PTL
=============================================================================
