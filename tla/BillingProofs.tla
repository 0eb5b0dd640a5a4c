--------------------------- MODULE BillingProofs ---------------------------
(***************************************************************************)
(* What the payment module guarantees, whatever the number of customers,   *)
(* contracts, stages, transactions and requests: the sums of its rows are  *)
(* well defined, matchStatus tells how much of a transaction is allocated, *)
(* stages stay balanced, and autoMatch pays in order and within the price. *)
(***************************************************************************)
EXTENDS Billing, FiniteSetTheorems, TLAPS

-----------------------------------------------------------------------------
(* Sums over finite sets *)

Some(s) == CHOOSE x \in s : TRUE
\* f is the sum of w on every subset of T, taken one element at a time.
Adds(w, T, f) ==
  f = [s \in SUBSET T |-> IF s = {} THEN 0 ELSE w[Some(s)] + f[s \ {Some(s)}]]

\* A set of subsets of a finite set has a member no other member is part of.
LEMMA Smallest ==
  ASSUME NEW T, IsFiniteSet(T), NEW Bad \in SUBSET (SUBSET T), Bad # {}
  PROVE  \E B \in Bad : \A A \in Bad : A \subseteq B => A = B
<1> DEFINE R == StrictSubsetOrdering(T)
<1>1. IsWellFoundedOn(R, SUBSET T)
  BY FS_StrictSubsetOrderingWellFounded, FS_FiniteSubsetsOfFinite
<1> HIDE DEF R
<1>2. PICK B \in Bad : \A A \in Bad : <<A, B>> \notin R
  BY <1>1, WFMin
<1>3. \A A \in Bad : A \subseteq B => A = B
  BY <1>2 DEF R, StrictSubsetOrdering
<1> QED BY <1>3

LEMMA AddsOnce ==
  ASSUME NEW T, IsFiniteSet(T), NEW w, NEW f, NEW g, Adds(w, T, f), Adds(w, T, g)
  PROVE  f = g
<1> DEFINE Bad == {s \in SUBSET T : f[s] # g[s]}
<1>1. CASE Bad # {}
  <2>0. Bad \in SUBSET (SUBSET T) OBVIOUS
  <2> HIDE DEF Bad
  <2>9. \E B \in Bad : \A A \in Bad : A \subseteq B => A = B BY <1>1, <2>0, Smallest
  <2> USE DEF Bad
  <2>1. PICK B \in Bad : \A A \in Bad : A \subseteq B => A = B BY <2>9
  <2>2. B # {} BY <2>1 DEF Adds
  <2>3. Some(B) \in B BY <2>2 DEF Some
  <2> DEFINE A == B \ {Some(B)}
  <2>4. f[A] = g[A] BY <2>1, <2>3
  <2>5. f[B] = w[Some(B)] + f[A] /\ g[B] = w[Some(B)] + g[A] BY <2>1, <2>2 DEF Adds
  <2> QED BY <2>1, <2>4, <2>5
<1>2. CASE Bad = {}
  <2>1. DOMAIN f = SUBSET T /\ DOMAIN g = SUBSET T BY DEF Adds
  <2>2. \A s \in SUBSET T : f[s] = g[s] BY <1>2
  <2> QED BY <2>1, <2>2 DEF Adds
<1> QED BY <1>1, <1>2

LEMMA AddsPart ==
  ASSUME NEW T, NEW U \in SUBSET T, NEW w, NEW f, Adds(w, T, f)
  PROVE  Adds(w, U, [s \in SUBSET U |-> f[s]])
<1> DEFINE g == [s \in SUBSET U |-> f[s]]
<1>1. ASSUME NEW s \in SUBSET U
      PROVE  g[s] = IF s = {} THEN 0 ELSE w[Some(s)] + g[s \ {Some(s)}]
  <2>1. s \in SUBSET T /\ s \ {Some(s)} \in SUBSET U OBVIOUS
  <2>2. g[s] = f[s] /\ g[s \ {Some(s)}] = f[s \ {Some(s)}] BY <2>1
  <2> QED BY <2>1, <2>2 DEF Adds
<1>2. g = [s \in SUBSET U |-> g[s]] OBVIOUS
<1> HIDE DEF g
<1>3. g = [s \in SUBSET U |-> IF s = {} THEN 0 ELSE w[Some(s)] + g[s \ {Some(s)}]]
  BY <1>1, <1>2
<1> QED BY <1>3 DEF Adds, g

LEMMA AddsExists ==
  ASSUME NEW T, IsFiniteSet(T), NEW w
  PROVE  \E f : Adds(w, T, f)
<1> DEFINE Bad == {s \in SUBSET T : ~\E f : Adds(w, s, f)}
<1>1. CASE Bad # {}
  <2>0. Bad \in SUBSET (SUBSET T) OBVIOUS
  <2> HIDE DEF Bad
  <2>9. \E B \in Bad : \A A \in Bad : A \subseteq B => A = B BY <1>1, <2>0, Smallest
  <2> USE DEF Bad
  <2>1. PICK B \in Bad : \A A \in Bad : A \subseteq B => A = B BY <2>9
  <2> DEFINE F(A) == CHOOSE f : Adds(w, A, f)
             g == [s \in SUBSET B |-> IF s = {} THEN 0
                     ELSE w[Some(s)] + F(s \ {Some(s)})[s \ {Some(s)}]]
  <2>2. ASSUME NEW A \in SUBSET B, A # B PROVE Adds(w, A, F(A)) /\ IsFiniteSet(A)
    <3>1. A \in SUBSET T /\ A \notin Bad BY <2>1, <2>2
    <3>2. IsFiniteSet(A) BY <3>1, FS_Subset
    <3>3. \E f : Adds(w, A, f) BY <3>1
    <3> QED BY <3>2, <3>3
  <2> HIDE DEF F
  <2>3. ASSUME NEW A \in SUBSET B, A # B PROVE F(A)[A] = g[A]
    <3>1. CASE A = {} BY <2>2, <3>1 DEF Adds
    <3>2. CASE A # {}
      <4> DEFINE C == A \ {Some(A)}
      <4>1. Some(A) \in A BY <3>2 DEF Some
      <4>2. C \in SUBSET A /\ C \in SUBSET B /\ C # B BY <2>3, <4>1
      <4>31. Adds(w, A, F(A)) BY <2>2, <2>3
      <4>32. Adds(w, C, F(C)) /\ IsFiniteSet(C)
        <5> HIDE DEF C
        <5> QED BY <2>2, <4>2
      <4>3. Adds(w, A, F(A)) /\ Adds(w, C, F(C)) /\ IsFiniteSet(C) BY <4>31, <4>32
      <4>4. Adds(w, C, [s \in SUBSET C |-> F(A)[s]])
        <5> HIDE DEF C
        <5> QED BY <4>2, <4>31, AddsPart
      <4>5. [s \in SUBSET C |-> F(A)[s]] = F(C) BY <4>3, <4>4, AddsOnce
      <4>6. F(C)[C] = F(A)[C]
        <5>1. [s \in SUBSET C |-> F(A)[s]][C] = F(A)[C] OBVIOUS
        <5> QED BY <4>5, <5>1
      <4>7. F(A)[A] = w[Some(A)] + F(A)[C] BY <3>2, <4>3 DEF Adds
      <4>8. g[A] = w[Some(A)] + F(C)[C] BY <3>2
      <4> QED BY <4>6, <4>7, <4>8
    <3> QED BY <3>1, <3>2
  <2>4. ASSUME NEW s \in SUBSET B
        PROVE  g[s] = IF s = {} THEN 0 ELSE w[Some(s)] + g[s \ {Some(s)}]
    <3>1. CASE s = {} BY <3>1
    <3>2. CASE s # {}
      <4>1. Some(s) \in s BY <3>2 DEF Some
      <4>2. s \ {Some(s)} \in SUBSET B /\ s \ {Some(s)} # B BY <4>1
      <4>3. F(s \ {Some(s)})[s \ {Some(s)}] = g[s \ {Some(s)}] BY <2>3, <4>2
      <4> QED BY <3>2, <4>3
    <3> QED BY <3>1, <3>2
  <2>5. g = [s \in SUBSET B |-> g[s]] OBVIOUS
  <2> HIDE DEF g
  <2>6. g = [s \in SUBSET B |-> IF s = {} THEN 0 ELSE w[Some(s)] + g[s \ {Some(s)}]]
    BY <2>4, <2>5
  <2>7. Adds(w, B, g) BY <2>6 DEF Adds
  <2> QED BY <2>1, <2>7
<1>2. CASE Bad = {}
  <2>1. T \in SUBSET T OBVIOUS
  <2> QED BY <1>2, <2>1
<1> QED BY <1>1, <1>2

Sum(w, T) == (CHOOSE f : Adds(w, T, f))[T]

LEMMA SumIs ==
  ASSUME NEW T, IsFiniteSet(T), NEW w, NEW f, Adds(w, T, f)
  PROVE  Sum(w, T) = f[T]
<1>1. Adds(w, T, CHOOSE g : Adds(w, T, g)) OBVIOUS
<1>2. (CHOOSE g : Adds(w, T, g)) = f BY <1>1, AddsOnce
<1> QED BY <1>2 DEF Sum

LEMMA SumNone == ASSUME NEW w PROVE Sum(w, {}) = 0
<1>1. IsFiniteSet({}) BY FS_EmptySet
<1>2. PICK f : Adds(w, {}, f) BY <1>1, AddsExists
<1>3. f[{}] = 0 BY <1>2 DEF Adds
<1> QED BY <1>1, <1>2, <1>3, SumIs

LEMMA SumStep ==
  ASSUME NEW T, IsFiniteSet(T), T # {}, NEW w
  PROVE  /\ Some(T) \in T
         /\ Sum(w, T) = w[Some(T)] + Sum(w, T \ {Some(T)})
<1> DEFINE C == T \ {Some(T)}
<1>1. PICK f : Adds(w, T, f) BY AddsExists
<1>2. Some(T) \in T BY DEF Some
<1>3. C \in SUBSET T OBVIOUS
<1>4. f[T] = w[Some(T)] + f[C] BY <1>1 DEF Adds
<1> HIDE DEF C
<1>5. IsFiniteSet(C) BY <1>3, FS_Subset
<1>6. Adds(w, C, [s \in SUBSET C |-> f[s]]) BY <1>1, <1>3, AddsPart
<1>7. Sum(w, C) = [s \in SUBSET C |-> f[s]][C] BY <1>5, <1>6, SumIs
<1>8. [s \in SUBSET C |-> f[s]][C] = f[C] OBVIOUS
<1>9. Sum(w, T) = f[T] BY <1>1, SumIs
<1> QED BY <1>2, <1>4, <1>7, <1>8, <1>9 DEF C

\* To show something of every subset of a finite set, it is enough to show it of
\* a subset all of whose proper subsets have it: Has is the set of those that do.
LEMMA Parts ==
  ASSUME NEW T, IsFiniteSet(T), NEW Has,
         \A B \in SUBSET T : (\A A \in SUBSET B : A # B => A \in Has) => B \in Has
  PROVE  T \in Has
<1> DEFINE Bad == (SUBSET T) \ Has
<1>1. CASE Bad # {}
  <2>0. Bad \in SUBSET (SUBSET T) OBVIOUS
  <2> HIDE DEF Bad
  <2>1. \E B \in Bad : \A A \in Bad : A \subseteq B => A = B BY <1>1, <2>0, Smallest
  <2>2. PICK B \in Bad : \A A \in Bad : A \subseteq B => A = B BY <2>1
  <2> USE DEF Bad
  <2>3. \A A \in SUBSET B : A # B => A \in Has BY <2>2
  <2> QED BY <2>2, <2>3
<1>2. CASE Bad = {} BY <1>2
<1> QED BY <1>1, <1>2

LEMMA SumNat ==
  ASSUME NEW T, IsFiniteSet(T), NEW w, \A x \in T : w[x] \in Nat
  PROVE  Sum(w, T) \in Nat
<1> DEFINE Has == {A \in SUBSET T : Sum(w, A) \in Nat}
<1>1. ASSUME NEW B \in SUBSET T, \A A \in SUBSET B : A # B => A \in Has
      PROVE  B \in Has
  <2>0. IsFiniteSet(B) BY FS_Subset
  <2>1. CASE B = {} BY <2>1, SumNone
  <2>2. CASE B # {}
    <3>1. Some(B) \in B /\ Sum(w, B) = w[Some(B)] + Sum(w, B \ {Some(B)})
      BY <2>0, <2>2, SumStep
    <3>2. B \ {Some(B)} \in SUBSET B /\ B \ {Some(B)} # B BY <3>1
    <3>3. Sum(w, B \ {Some(B)}) \in Nat BY <1>1, <3>2
    <3> QED BY <3>1, <3>3
  <2> QED BY <2>1, <2>2
<1> HIDE DEF Has
<1>2. T \in Has BY <1>1, Parts
<1> QED BY <1>2 DEF Has

\* The order in which a sum is taken does not matter.
LEMMA SumAny ==
  ASSUME NEW T, IsFiniteSet(T), NEW w, \A x \in T : w[x] \in Nat, NEW x \in T
  PROVE  Sum(w, T) = w[x] + Sum(w, T \ {x})
<1> DEFINE Has == {A \in SUBSET T : \A y \in A : Sum(w, A) = w[y] + Sum(w, A \ {y})}
<1>1. ASSUME NEW B \in SUBSET T, \A A \in SUBSET B : A # B => A \in Has
      PROVE  B \in Has
  <2> SUFFICES ASSUME NEW y \in B PROVE Sum(w, B) = w[y] + Sum(w, B \ {y})
    OBVIOUS
  <2> DEFINE z == Some(B)
             C == B \ {z}
             D == B \ {y}
             E == D \ {z}
  <2>0. IsFiniteSet(B) BY FS_Subset
  <2>1. z \in B /\ Sum(w, B) = w[z] + Sum(w, C) BY <2>0, SumStep
  <2>2. CASE y = z BY <2>1, <2>2
  <2>3. CASE y # z
    <3>1. C \in Has /\ D \in Has /\ y \in C /\ z \in D BY <1>1, <2>1, <2>3
    <3>2. Sum(w, C) = w[y] + Sum(w, C \ {y}) BY <3>1
    <3>3. Sum(w, D) = w[z] + Sum(w, E) BY <3>1
    <3>4. C \ {y} = E OBVIOUS
    <3>5. Sum(w, E) \in Nat
      <4>1. IsFiniteSet(E) BY <2>0, FS_Subset
      <4>2. \A u \in E : w[u] \in Nat OBVIOUS
      <4> HIDE DEF E
      <4> QED BY <4>1, <4>2, SumNat
    <3>6. w[y] \in Nat /\ w[z] \in Nat BY <2>1
    <3> HIDE DEF C, D, E, z
    <3> QED BY <2>1, <3>2, <3>3, <3>4, <3>5, <3>6 DEF D
  <2> QED BY <2>2, <2>3
<1> HIDE DEF Has
<1>2. T \in Has BY <1>1, Parts
<1> QED BY <1>2 DEF Has

LEMMA SumBoth ==
  ASSUME NEW T, IsFiniteSet(T), NEW S, IsFiniteSet(S), S \cap T = {}, NEW w,
         \A x \in S \cup T : w[x] \in Nat
  PROVE  Sum(w, S \cup T) = Sum(w, S) + Sum(w, T)
<1> DEFINE Has == {A \in SUBSET T : Sum(w, S \cup A) = Sum(w, S) + Sum(w, A)}
<1>1. ASSUME NEW B \in SUBSET T, \A A \in SUBSET B : A # B => A \in Has
      PROVE  B \in Has
  <2>0. IsFiniteSet(B) BY FS_Subset
  <2>1. Sum(w, S) \in Nat BY SumNat
  <2>2. CASE B = {}
    <3>1. S \cup B = S BY <2>2
    <3> QED BY <2>1, <2>2, <3>1, SumNone
  <2>3. CASE B # {}
    <3> DEFINE z == Some(B)
               C == B \ {z}
    <3>1. z \in B /\ Sum(w, B) = w[z] + Sum(w, C) BY <2>0, <2>3, SumStep
    <3>2. C \in Has BY <1>1, <3>1
    <3>3. (S \cup B) \ {z} = S \cup C BY <3>1
    <3>4. Sum(w, S \cup B) = w[z] + Sum(w, (S \cup B) \ {z})
      <4> DEFINE U == S \cup B
      <4>1. IsFiniteSet(U) BY <2>0, FS_Union
      <4>2. z \in U /\ \A x \in U : w[x] \in Nat BY <3>1
      <4> HIDE DEF U, z
      <4> QED BY <4>1, <4>2, SumAny DEF U
    <3>5. Sum(w, C) \in Nat
      <4>1. IsFiniteSet(C) /\ \A x \in C : w[x] \in Nat BY <2>0, FS_Subset
      <4> HIDE DEF C
      <4> QED BY <4>1, SumNat
    <3>6. w[z] \in Nat BY <3>1
    <3>7. Sum(w, S \cup C) = Sum(w, S) + Sum(w, C) BY <3>2
    <3> HIDE DEF z, C
    <3>8. Sum(w, S \cup B) = Sum(w, S) + Sum(w, B)
      BY <2>1, <3>1, <3>3, <3>4, <3>5, <3>6, <3>7
    <3> QED BY <3>8
  <2> QED BY <2>2, <2>3
<1> HIDE DEF Has
<1>2. T \in Has BY <1>1, Parts
<1> QED BY <1>2 DEF Has

LEMMA ImageFinite ==
  ASSUME NEW T, IsFiniteSet(T), NEW f PROVE IsFiniteSet({f[x] : x \in T})
<1> DEFINE I == {f[x] : x \in T}
           g == [x \in T |-> f[x]]
<1>1. g \in [T -> I] /\ \A y \in I : \E x \in T : g[x] = y OBVIOUS
<1>2. g \in Surjection(T, I) BY <1>1 DEF Surjection
<1> HIDE DEF g
<1> QED BY <1>2, FS_Surjection

\* Terms that agree have the same sum, taken over any set they are moved to.
LEMMA SumMoved ==
  ASSUME NEW T, IsFiniteSet(T), NEW w, NEW v, NEW f,
         \A x \in T : v[f[x]] = w[x] /\ w[x] \in Nat,
         \A x, y \in T : f[x] = f[y] => x = y
  PROVE  Sum(v, {f[x] : x \in T}) = Sum(w, T)
<1> DEFINE To(A) == {f[x] : x \in A}
           Has == {A \in SUBSET T : Sum(v, To(A)) = Sum(w, A)}
<1>1. ASSUME NEW B \in SUBSET T, \A A \in SUBSET B : A # B => A \in Has
      PROVE  B \in Has
  <2>0. IsFiniteSet(B) BY FS_Subset
  <2>2. CASE B = {}
    <3>1. To(B) = {} BY <2>2
    <3> QED BY <2>2, <3>1, SumNone
  <2>3. CASE B # {}
    <3> DEFINE z == Some(B)
               C == B \ {z}
    <3>1. z \in B /\ Sum(w, B) = w[z] + Sum(w, C) BY <2>0, <2>3, SumStep
    <3>2. C \in Has BY <1>1, <3>1
    <3>3. To(B) \ {f[z]} = To(C) BY <3>1
    <3>4. Sum(v, To(B)) = v[f[z]] + Sum(v, To(B) \ {f[z]})
      <4>1. IsFiniteSet(To(B)) BY <2>0, ImageFinite
      <4>2. f[z] \in To(B) /\ \A y \in To(B) : v[y] \in Nat BY <3>1
      <4> HIDE DEF To, z
      <4> QED BY <4>1, <4>2, SumAny
    <3>5. Sum(v, To(C)) = Sum(w, C) /\ v[f[z]] = w[z] BY <3>1, <3>2
    <3> HIDE DEF z, C, To
    <3>6. Sum(v, To(B)) = Sum(w, B) BY <3>1, <3>3, <3>4, <3>5
    <3> QED BY <3>6
  <2> QED BY <2>2, <2>3
<1> HIDE DEF Has
<1>2. T \in Has BY <1>1, Parts
<1> QED BY <1>2 DEF Has

\* Nothing adds up to nothing.
LEMMA SumZero ==
  ASSUME NEW T, IsFiniteSet(T), NEW w, \A x \in T : w[x] = 0
  PROVE  Sum(w, T) = 0
<1> DEFINE Has == {A \in SUBSET T : Sum(w, A) = 0}
<1>1. ASSUME NEW B \in SUBSET T, \A A \in SUBSET B : A # B => A \in Has
      PROVE  B \in Has
  <2>0. IsFiniteSet(B) BY FS_Subset
  <2>1. CASE B = {} BY <2>1, SumNone
  <2>2. CASE B # {}
    <3>1. Some(B) \in B /\ Sum(w, B) = w[Some(B)] + Sum(w, B \ {Some(B)})
      BY <2>0, <2>2, SumStep
    <3>2. B \ {Some(B)} \in SUBSET B /\ B \ {Some(B)} # B BY <3>1
    <3>3. Sum(w, B \ {Some(B)}) = 0 BY <1>1, <3>2
    <3> QED BY <3>1, <3>3
  <2> QED BY <2>1, <2>2
<1> HIDE DEF Has
<1>2. T \in Has BY <1>1, Parts
<1> QED BY <1>2 DEF Has

\* The sums of the model are these sums.
Worth == [p \in Payment |-> p.amount]

LEMMA TotalIs ==
  ASSUME NEW rows \in SUBSET Payment, IsFiniteSet(rows)
  PROVE  Total(rows) = Sum(Worth, rows)
<1> DEFINE It(f) == f = [s \in SUBSET rows |-> IF s = {} THEN 0
                           ELSE LET x == CHOOSE x \in s : TRUE
                                IN  x.amount + f[s \ {x}]]
<1>1. ASSUME NEW f PROVE It(f) <=> Adds(Worth, rows, f)
  <2>1. ASSUME NEW s \in SUBSET rows
        PROVE  (IF s = {} THEN 0
                ELSE LET x == CHOOSE x \in s : TRUE IN x.amount + f[s \ {x}])
               = (IF s = {} THEN 0 ELSE Worth[Some(s)] + f[s \ {Some(s)}])
    <3>1. CASE s = {} BY <3>1
    <3>2. CASE s # {}
      <4>1. Some(s) \in Payment BY <3>2 DEF Some
      <4>2. Worth[Some(s)] = Some(s).amount BY <4>1 DEF Worth
      <4> QED BY <3>2, <4>2 DEF Some
    <3> QED BY <3>1, <3>2
  <2> QED BY <2>1 DEF Adds
<1> HIDE DEF It
<1>2. PICK g : Adds(Worth, rows, g) BY AddsExists
<1>3. It(CHOOSE f : It(f)) BY <1>1, <1>2
<1>4. (CHOOSE f : It(f)) = g BY <1>1, <1>2, <1>3, AddsOnce
<1>5. Total(rows) = (CHOOSE f : It(f))[rows]
  BY DEF Total, MapThenSumSet, MapThenFoldSet, It
<1> QED BY <1>2, <1>4, <1>5, SumIs

LEMMA SumOverIs ==
  ASSUME NEW S, IsFiniteSet(S), NEW w
  PROVE  SumOver(S, w) = Sum(w, S)
<1> DEFINE It(f) == f = [s \in SUBSET S |-> IF s = {} THEN 0
                           ELSE LET x == CHOOSE x \in s : TRUE
                                IN  w[x] + f[s \ {x}]]
<1>1. ASSUME NEW f PROVE It(f) <=> Adds(w, S, f)
  BY DEF Adds, Some
<1> HIDE DEF It
<1>2. PICK g : Adds(w, S, g) BY AddsExists
<1>3. It(CHOOSE f : It(f)) BY <1>1, <1>2
<1>4. (CHOOSE f : It(f)) = g BY <1>1, <1>2, <1>3, AddsOnce
<1>5. SumOver(S, w) = (CHOOSE f : It(f))[S]
  BY DEF SumOver, MapThenSumSet, MapThenFoldSet, It
<1> QED BY <1>2, <1>4, <1>5, SumIs

LEMMA TotalNat ==
  ASSUME NEW rows \in SUBSET Payment, IsFiniteSet(rows)
  PROVE  Total(rows) \in Nat
<1>1. \A p \in rows : Worth[p] \in Nat BY DEF Worth, Payment
<1> QED BY <1>1, SumNat, TotalIs

LEMMA TotalBoth ==
  ASSUME NEW rows \in SUBSET Payment, IsFiniteSet(rows),
         NEW more \in SUBSET Payment, IsFiniteSet(more), rows \cap more = {}
  PROVE  Total(rows \cup more) = Total(rows) + Total(more)
<1>1. \A p \in rows \cup more : Worth[p] \in Nat BY DEF Worth, Payment
<1>2. IsFiniteSet(rows \cup more) BY FS_Union
<1>3. Sum(Worth, rows \cup more) = Sum(Worth, rows) + Sum(Worth, more)
  BY <1>1, SumBoth
<1>4. rows \cup more \in SUBSET Payment OBVIOUS
<1>5. Total(rows \cup more) = Sum(Worth, rows \cup more) BY <1>2, <1>4, TotalIs
<1> QED BY <1>3, <1>5, TotalIs

\* What a plan allocates is what its rows add up to.
LEMMA RowsTotal ==
  ASSUME batch \in Nat, NEW t \in Txns, NEW plan \in [Stages -> Nat]
  PROVE  /\ Rows(t, plan) \in SUBSET Payment /\ IsFiniteSet(Rows(t, plan))
         /\ Total(Rows(t, plan)) = SumOver(Stages, plan)
         /\ SumOver(Stages, plan) \in Nat
<1> DEFINE pos == {s \in Stages : plan[s] > 0}
           row == [s \in pos |-> [batch |-> batch, txn |-> t, stage |-> s,
                                  amount |-> plan[s]]]
<1>0. IsFiniteSet(Stages) /\ IsFiniteSet(pos) /\ IsFiniteSet(Stages \ pos)
  BY ContractAssumption, FS_Subset
<1>1. Rows(t, plan) = {row[s] : s \in pos} BY DEF Rows
<1>2. \A s \in pos : row[s] \in Payment /\ Worth[row[s]] = plan[s] /\ plan[s] \in Nat
  BY DEF Worth, Payment
<1>3. \A r, s \in pos : row[r] = row[s] => r = s OBVIOUS
<1>4. IsFiniteSet({row[s] : s \in pos})
  <2> HIDE DEF row, pos
  <2> QED BY <1>0, ImageFinite
<1>5. Sum(Worth, {row[s] : s \in pos}) = Sum(plan, pos)
  <2> HIDE DEF row, pos
  <2> QED BY <1>0, <1>2, <1>3, SumMoved
<1>6. Sum(plan, Stages \ pos) = 0
  <2>1. \A s \in Stages \ pos : plan[s] = 0 OBVIOUS
  <2> HIDE DEF pos
  <2> QED BY <1>0, <2>1, SumZero
<1>7. Sum(plan, pos) \in Nat
  <2>1. \A s \in pos : plan[s] \in Nat OBVIOUS
  <2> HIDE DEF pos
  <2> QED BY <1>0, <2>1, SumNat
<1>8. Sum(plan, Stages) = Sum(plan, pos) + Sum(plan, Stages \ pos)
  <2>1. pos \cap (Stages \ pos) = {} /\ pos \cup (Stages \ pos) = Stages OBVIOUS
  <2>2. \A s \in pos \cup (Stages \ pos) : plan[s] \in Nat OBVIOUS
  <2> HIDE DEF pos
  <2>3. Sum(plan, pos \cup (Stages \ pos)) = Sum(plan, pos) + Sum(plan, Stages \ pos)
    BY <1>0, <2>1, <2>2, SumBoth
  <2> QED BY <2>1, <2>3
<1>9. {row[s] : s \in pos} \in SUBSET Payment BY <1>2
<1> HIDE DEF row, pos
<1>10. Total(Rows(t, plan)) = Sum(Worth, Rows(t, plan)) BY <1>1, <1>4, <1>9, TotalIs
<1>11. SumOver(Stages, plan) = Sum(plan, Stages) BY <1>0, SumOverIs
<1> QED BY <1>1, <1>4, <1>5, <1>6, <1>7, <1>8, <1>9, <1>10, <1>11

-----------------------------------------------------------------------------
(* The allocation *)

\* Of finitely many stages one comes last.
LEMMA LastOf ==
  ASSUME NEW D \in SUBSET Stages, IsFiniteSet(D), D # {}
  PROVE  \E s \in D : \A r \in D : Rank[r] <= Rank[s]
<1> DEFINE Has == {A \in SUBSET D : A # {} => \E s \in A : \A r \in A : Rank[r] <= Rank[s]}
<1>1. ASSUME NEW B \in SUBSET D, \A A \in SUBSET B : A # B => A \in Has
      PROVE  B \in Has
  <2> SUFFICES ASSUME B # {} PROVE \E s \in B : \A r \in B : Rank[r] <= Rank[s]
    OBVIOUS
  <2>1. PICK x \in B : TRUE OBVIOUS
  <2>2. B \ {x} \in SUBSET B /\ B \ {x} # B OBVIOUS
  <2>3. B \ {x} \in Has BY <1>1, <2>2
  <2>4. \A s \in B : Rank[s] \in Nat BY ContractAssumption
  <2>5. CASE B \ {x} = {} BY <2>4, <2>5
  <2>6. CASE B \ {x} # {}
    <3>1. PICK y \in B \ {x} : \A r \in B \ {x} : Rank[r] <= Rank[y] BY <2>3, <2>6
    <3>2. CASE Rank[x] <= Rank[y] BY <3>1, <3>2
    <3>3. CASE Rank[y] <= Rank[x] BY <2>4, <3>1, <3>3
    <3> QED BY <2>4, <3>2, <3>3
  <2> QED BY <2>5, <2>6
<1> HIDE DEF Has
<1>2. D \in Has BY <1>1, Parts
<1> QED BY <1>2 DEF Has

Rests == [r \in Stages |-> Owe(r)]
StagesTyped == stage \in [Stages -> [paid : Nat, status : StageStatus]]

LEMMA OweNat ==
  ASSUME StagesTyped PROVE \A s \in Stages : Rests[s] = Owe(s) /\ Owe(s) \in Nat
<1> SUFFICES ASSUME NEW s \in Stages PROVE Rests[s] = Owe(s) /\ Owe(s) \in Nat
  OBVIOUS
<1>1. stage[s].paid \in Nat /\ Price[s] \in Nat
  BY ContractAssumption DEF StagesTyped
<1> QED BY <1>1 DEF Rests, Owe, Positive

LEMMA OweUpToNat ==
  ASSUME StagesTyped, NEW S \in SUBSET Stages, NEW s
  PROVE  /\ OweUpTo(s, S) \in Nat
         /\ OweUpTo(s, S) = Sum(Rests, {r \in S : Rank[r] < Rank[s]})
<1> DEFINE D == {r \in S : Rank[r] < Rank[s]}
<1>1. IsFiniteSet(D) /\ D \in SUBSET Stages BY ContractAssumption, FS_Subset
<1>2. OweUpTo(s, S) = SumOver(D, Rests) BY DEF OweUpTo, Rests
<1> HIDE DEF D
<1>3. SumOver(D, Rests) = Sum(Rests, D) BY <1>1, SumOverIs
<1>4. \A r \in D : Rests[r] \in Nat BY <1>1, OweNat
<1>5. Sum(Rests, D) \in Nat BY <1>1, <1>4, SumNat
<1> QED BY <1>2, <1>3, <1>5 DEF D

LEMMA PlanOf ==
  ASSUME StagesTyped, NEW t \in Txns, NEW S \in SUBSET Stages
  PROVE  /\ Plan(t, S) \in [Stages -> Nat]
         /\ \A s \in Stages : Plan(t, S)[s] =
              IF s \in S THEN Least(Owe(s), Positive(Amount[t] - OweUpTo(s, S))) ELSE 0
<1>1. \A s \in Stages : Owe(s) \in Nat /\ OweUpTo(s, S) \in Nat
  BY OweNat, OweUpToNat
<1>2. Amount[t] \in Nat BY RequestAssumption
<1>3. \A s \in Stages : Least(Owe(s), Positive(Amount[t] - OweUpTo(s, S))) \in Nat
  BY <1>1, <1>2 DEF Least, Positive
<1> QED BY <1>3 DEF Plan

\* The loop of autoMatch hands out what there is or what is owed, whichever is
\* less: never more than the amount of the transaction.
LEMMA PlanWithin ==
  ASSUME StagesTyped, NEW t \in Txns, NEW S \in SUBSET Stages
  PROVE  SumOver(Stages, Plan(t, S)) <= Amount[t]
<1> DEFINE plan == Plan(t, S)
           Down(D) == \A r \in S : \A s \in D : Rank[r] < Rank[s] => r \in D
           Has == {D \in SUBSET S : Down(D) => Sum(plan, D) = Least(Amount[t], Sum(Rests, D))}
<1>0. IsFiniteSet(Stages) /\ IsFiniteSet(S) /\ IsFiniteSet(Stages \ S) /\ Amount[t] \in Nat
  BY ContractAssumption, RequestAssumption, FS_Subset
<1>p. /\ plan \in [Stages -> Nat]
      /\ \A s \in S : plan[s] = Least(Owe(s), Positive(Amount[t] - OweUpTo(s, S)))
      /\ \A s \in Stages \ S : plan[s] = 0
  BY PlanOf
<1> HIDE DEF plan
<1>1. ASSUME NEW B \in SUBSET S, \A A \in SUBSET B : A # B => A \in Has
      PROVE  B \in Has
  <2> SUFFICES ASSUME Down(B) PROVE Sum(plan, B) = Least(Amount[t], Sum(Rests, B))
    OBVIOUS
  <2>0. IsFiniteSet(B) BY <1>0, FS_Subset
  <2>1. CASE B = {} BY <1>0, <2>1, SumNone DEF Least
  <2>2. CASE B # {}
    <3>1. PICK x \in B : \A r \in B : Rank[r] <= Rank[x] BY <2>0, <2>2, LastOf
    <3> DEFINE C == B \ {x}
    <3>2. C = {r \in S : Rank[r] < Rank[x]}
      <4>1. \A r \in S : Rank[r] \in Nat /\ (Rank[r] = Rank[x] => r = x)
        BY ContractAssumption
      <4>2. \A r \in C : Rank[r] < Rank[x] BY <3>1, <4>1
      <4>3. \A r \in S : Rank[r] < Rank[x] => r \in C BY <4>1
      <4> QED BY <4>2, <4>3
    <3>3. Down(C) BY <3>2, ContractAssumption
    <3>4. C \in SUBSET B /\ C # B OBVIOUS
    <3>5. Sum(plan, C) = Least(Amount[t], Sum(Rests, C)) BY <1>1, <3>3, <3>4
    <3>6. \A r \in B : plan[r] \in Nat /\ Rests[r] \in Nat BY <1>p, OweNat
    <3>7. Sum(plan, B) = plan[x] + Sum(plan, C) /\ Sum(Rests, B) = Rests[x] + Sum(Rests, C)
      BY <2>0, <3>6, SumAny
    <3>8. Sum(Rests, C) = OweUpTo(x, S) /\ OweUpTo(x, S) \in Nat BY <3>2, OweUpToNat
    <3>9. plan[x] = Least(Owe(x), Positive(Amount[t] - OweUpTo(x, S))) BY <1>p
    <3>10. Rests[x] = Owe(x) /\ Owe(x) \in Nat BY OweNat
    <3> HIDE DEF C
    <3> QED BY <1>0, <3>5, <3>7, <3>8, <3>9, <3>10 DEF Least, Positive
  <2> QED BY <2>1, <2>2
<1>2. S \in Has
  <2> HIDE DEF Has
  <2> QED BY <1>0, <1>1, Parts
<1>3. Sum(plan, S) = Least(Amount[t], Sum(Rests, S)) BY <1>2
<1> HIDE DEF Has
<1>4. Sum(Rests, S) \in Nat
  <2>1. \A s \in S : Rests[s] \in Nat BY OweNat
  <2> QED BY <1>0, <2>1, SumNat
<1>5. Sum(plan, Stages \ S) = 0 BY <1>0, <1>p, SumZero
<1>6. Sum(plan, Stages) = Sum(plan, S) + Sum(plan, Stages \ S)
  <2>1. S \cap (Stages \ S) = {} /\ S \cup (Stages \ S) = Stages OBVIOUS
  <2>2. Sum(plan, S \cup (Stages \ S)) = Sum(plan, S) + Sum(plan, Stages \ S)
    BY <1>0, <1>p, <2>1, SumBoth
  <2> QED BY <2>1, <2>2
<1>7. SumOver(Stages, plan) = Sum(plan, Stages) BY <1>0, SumOverIs
<1> QED BY <1>0, <1>3, <1>4, <1>5, <1>6, <1>7 DEF Least, plan

Reading == {"stages", "nothing", "commit", "erase", "linked", "unlinked"}

-----------------------------------------------------------------------------
(* Types *)

\* The fields a request uses later hold what the step before put there.
Aimed(w) == /\ job[w].at \in Reading => job[w].txn \in Serves[w]
            /\ job[w].at = "write" => job[w].target \in job[w].dirty
            /\ job[w].at = "close" => job[w].target \in job[w].closing
TypeInv == /\ TypeOK
           /\ IsFiniteSet(payments)
           /\ \A w \in Workers : Aimed(w)

LEMMA RestingTyped ==
  /\ Resting \in Jobs
  /\ Resting.at = "idle" /\ Resting.op = "none" /\ Resting.txn = "none"
  /\ Resting.gone = {}
  /\ Resting.plan \in [Stages -> Nat]
BY DEF Resting, Jobs, Ats

LEMMA SetTyped ==
  ASSUME TypeOK, NEW w \in Workers, NEW j \in Jobs, Set(w, j)
  PROVE  /\ job' \in [Workers -> Jobs]
         /\ job'[w] = j
         /\ \A v \in Workers : v # w => job'[v] = job[v]
BY DEF TypeOK, Set

LEMMA InitTyped == Init => TypeInv
<1> SUFFICES ASSUME Init PROVE TypeInv
  OBVIOUS
<1>1. IsFiniteSet(payments)
  BY FS_EmptySet DEF Init
<1>2. stage \in [Stages -> [paid : Nat, status : StageStatus]]
  BY DEF Init, StageStatus
<1>3. contract \in [Contracts -> ContractStatus]
  BY ContractAssumption DEF Init
<1>4. job \in [Workers -> Jobs] /\ \A w \in Workers : Aimed(w)
  BY RestingTyped DEF Init, Aimed, Reading
<1>5. match \in [Txns -> MatchStatus]
  BY DEF Init, MatchStatus
<1> QED
  BY <1>1, <1>2, <1>3, <1>4, <1>5 DEF Init, TypeInv, TypeOK

\* Steps of one request: the rows stay typed, and so does what it does next.
LEMMA StepTyped ==
  ASSUME TypeInv, NEW w \in Workers, NEW j \in Jobs, Set(w, j), Aimed(w)',
         IsFiniteSet(payments'), payments' \subseteq Payment,
         live' \subseteq Txns, match' \in [Txns -> MatchStatus],
         batch' \in Nat, made' \in Nat,
         stage' \in [Stages -> [paid : Nat, status : StageStatus]],
         contract' \in [Contracts -> ContractStatus]
  PROVE  TypeInv'
<1>1. /\ job' \in [Workers -> Jobs]
      /\ \A v \in Workers : v # w => job'[v] = job[v]
  BY SetTyped DEF TypeInv
<1>2. \A v \in Workers : v # w => Aimed(v)'
  BY <1>1 DEF TypeInv, Aimed
<1> QED
  BY <1>1, <1>2 DEF TypeInv, TypeOK

LEMMA StartAutoTyped ==
  ASSUME TypeInv, NEW w \in Workers, StartAuto(w) PROVE TypeInv'
<1>1. PICK t \in Serves[w] :
        Set(w, [Resting EXCEPT !.at = "stages", !.op = "auto", !.txn = t])
  BY DEF StartAuto
<1> DEFINE j == [Resting EXCEPT !.at = "stages", !.op = "auto", !.txn = t]
<1>2. t \in Txns
  BY RequestAssumption
<1>3. j \in Jobs /\ j.at = "stages" /\ j.txn = t
  BY <1>2, RestingTyped DEF Jobs, Ats, Requests
<1> HIDE DEF j
<1>4. job'[w] = j
  BY <1>1, <1>3, SetTyped DEF TypeInv, j
<1>5. Aimed(w)'
  BY <1>3, <1>4 DEF Aimed
<1>6. UNCHANGED <<txnRows, payments, batch, stage, contract>> /\ made' = made + 1
  BY DEF StartAuto, Accept
<1> QED
  BY <1>1, <1>3, <1>5, <1>6, StepTyped DEF TypeInv, TypeOK, txnRows, j

LEMMA OpenStages == \A c : Open(c) \in SUBSET Stages
BY DEF Open

LEMMA AutoStagesTyped ==
  ASSUME TypeInv, NEW w \in Workers, AutoStages(w) PROVE TypeInv'
<1> DEFINE t == job[w].txn
           open == Open(Payer[t])
           plan == Plan(t, open)
           j == IF open = {} THEN [job[w] EXCEPT !.at = "nothing"]
                ELSE [job[w] EXCEPT !.at = "commit", !.plan = plan]
<1>1. job[w].at = "stages" /\ Set(w, j)
  BY DEF AutoStages
<1>2. t \in Serves[w] /\ t \in Txns /\ job[w] \in Jobs
  BY <1>1, RequestAssumption DEF TypeInv, TypeOK, Aimed, Reading
<1>3. plan \in [Stages -> Nat]
  BY <1>2, PlanOf, OpenStages DEF TypeInv, TypeOK, StagesTyped
<1>4. j \in Jobs /\ j.at \in {"nothing", "commit"} /\ j.txn = t
  <2> HIDE DEF plan, open
  <2>1. CASE open = {}
    BY <1>2, <2>1 DEF Jobs, Ats
  <2>2. CASE open # {}
    BY <1>2, <1>3, <2>2 DEF Jobs, Ats
  <2> QED
    BY <2>1, <2>2
<1> HIDE DEF j
<1>5. job'[w] = j
  BY <1>1, <1>4, SetTyped DEF TypeInv
<1>6. Aimed(w)'
  BY <1>2, <1>4, <1>5 DEF Aimed
<1>7. UNCHANGED <<txnRows, payments, batch, stage, contract, made>>
  BY DEF AutoStages
<1> QED
  BY <1>1, <1>4, <1>6, <1>7, StepTyped DEF TypeInv, TypeOK, txnRows

\* Back to rest.
LEMMA RestTyped ==
  ASSUME TypeInv, NEW w \in Workers, Rest(w),
         live' = live, match' \in [Txns -> MatchStatus],
         UNCHANGED <<payments, batch, stage, contract, made>>
  PROVE  TypeInv'
<1>1. Set(w, Resting)
  BY DEF Rest
<1>2. job'[w] = Resting
  BY <1>1, RestingTyped, SetTyped DEF TypeInv
<1>3. Aimed(w)'
  BY <1>2, RestingTyped DEF Aimed, Reading
<1> QED
  BY <1>1, <1>3, RestingTyped, StepTyped DEF TypeInv, TypeOK

LEMMA VerdictTyped ==
  ASSUME NEW t, NEW plan, NEW full \in {"AUTO", "MANUAL"}
  PROVE  Verdict(t, plan, full) \in MatchStatus
BY DEF Verdict, MatchStatus

LEMMA MatchTyped ==
  ASSUME NEW rows \in [Txns -> MatchStatus], NEW t, NEW m \in MatchStatus
  PROVE  [rows EXCEPT ![t] = m] \in [Txns -> MatchStatus]
OBVIOUS

LEMMA JobType == ASSUME TypeInv, NEW w \in Workers PROVE job[w] \in Jobs
BY DEF TypeInv, TypeOK

\* A commit and the recalculation it starts.
LEMMA CommitTyped ==
  ASSUME TypeInv, NEW w \in Workers, NEW dirty \in SUBSET Stages,
         NEW closing \in SUBSET Contracts, Recalculate(w, dirty, closing),
         IsFiniteSet(payments'), payments' \subseteq Payment,
         live' = live, match' \in [Txns -> MatchStatus], batch' \in Nat,
         UNCHANGED <<stage, contract, made>>
  PROVE  TypeInv'
<1> DEFINE j == [job[w] EXCEPT !.at = "recalc", !.dirty = dirty, !.closing = closing,
                               !.gone = {}]
<1>1. Set(w, j)
  BY DEF Recalculate
<1>2. j \in Jobs /\ j.at = "recalc"
  BY JobType, ZenonT(60) DEF Jobs, Ats
<1> HIDE DEF j
<1>3. job'[w] = j
  BY <1>1, <1>2, SetTyped DEF TypeInv
<1>4. Aimed(w)'
  BY <1>2, <1>3 DEF Aimed, Reading
<1> QED
  BY <1>1, <1>2, <1>4, StepTyped DEF TypeInv, TypeOK

LEMMA AutoCommitTyped ==
  ASSUME TypeInv, NEW w \in Workers, AutoCommit(w) PROVE TypeInv'
<1> DEFINE t == job[w].txn
           plan == job[w].plan
           paid == {s \in Stages : plan[s] > 0}
<1>1. /\ t \in Txns /\ plan \in [Stages -> Nat] /\ job[w].at = "commit"
      /\ UNCHANGED <<live, stage, contract, made>>
  BY RequestAssumption DEF AutoCommit, TypeInv, TypeOK, Aimed, Reading, Jobs
<1>2. CASE t \in live
  <2>1. /\ payments' = payments \cup Rows(t, plan) /\ batch' = batch + 1
        /\ match' = [match EXCEPT ![t] = Verdict(t, plan, "AUTO")]
        /\ Recalculate(w, paid, {ContractOf[s] : s \in paid})
    BY <1>2 DEF AutoCommit
  <2>2. Rows(t, plan) \in SUBSET Payment /\ IsFiniteSet(Rows(t, plan))
    BY <1>1, RowsTotal DEF TypeInv, TypeOK
  <2>3. IsFiniteSet(payments') /\ payments' \subseteq Payment
    BY <2>1, <2>2, FS_Union DEF TypeInv, TypeOK
  <2>9. Verdict(t, plan, "AUTO") \in MatchStatus
    BY VerdictTyped
  <2>4. match' \in [Txns -> MatchStatus] /\ batch' \in Nat
    <3>1. match' = [match EXCEPT ![t] = Verdict(t, plan, "AUTO")] /\ batch' = batch + 1
      BY <2>1
    <3>2. match \in [Txns -> MatchStatus] /\ batch \in Nat
      BY DEF TypeInv, TypeOK
    <3> QED
      BY <2>9, <3>1, <3>2, MatchTyped
  <2>5. {ContractOf[s] : s \in paid} \in SUBSET Contracts
    BY ContractAssumption
  <2> QED
    BY <1>1, <2>1, <2>3, <2>4, <2>5, CommitTyped
<1>3. CASE t \notin live
  BY <1>1, <1>3, RestTyped DEF AutoCommit, TypeInv, TypeOK
<1> QED
  BY <1>2, <1>3

LEMMA StartLinkTyped ==
  ASSUME TypeInv, NEW w \in Workers, StartLink(w) PROVE TypeInv'
<1> DEFINE seen(t) == {p.stage : p \in {q \in payments : q.txn = t}}
<1>0. PICK t \in Serves[w] : \E plan \in [Stages -> 0 .. Amount[t]] :
        Set(w, [Resting EXCEPT !.at = "erase", !.op = "link", !.txn = t, !.plan = plan,
                  !.seen = seen(t)])
  BY DEF StartLink
<1>1. PICK plan \in [Stages -> 0 .. Amount[t]] :
        Set(w, [Resting EXCEPT !.at = "erase", !.op = "link", !.txn = t, !.plan = plan,
                  !.seen = seen(t)])
  BY <1>0
<1> DEFINE j == [Resting EXCEPT !.at = "erase", !.op = "link", !.txn = t,
                   !.plan = plan, !.seen = seen(t)]
<1>2. t \in Txns /\ plan \in [Stages -> Nat] /\ seen(t) \in SUBSET Stages
  BY RequestAssumption DEF TypeInv, TypeOK, Payment
<1> HIDE DEF seen
<1>3. j \in Jobs /\ j.at = "erase" /\ j.txn = t
  BY <1>2, RestingTyped DEF Jobs, Ats, Requests
<1> HIDE DEF j
<1>4. job'[w] = j
  BY <1>1, <1>3, SetTyped DEF TypeInv, j
<1>5. Aimed(w)'
  BY <1>3, <1>4 DEF Aimed
<1>6. UNCHANGED <<txnRows, payments, batch, stage, contract>> /\ made' = made + 1
  BY DEF StartLink, Accept
<1> QED
  BY <1>1, <1>3, <1>5, <1>6, StepTyped DEF TypeInv, TypeOK, txnRows, j

LEMMA StartUnlinkTyped ==
  ASSUME TypeInv, NEW w \in Workers, StartUnlink(w) PROVE TypeInv'
<1> DEFINE seen(t) == {p.stage : p \in {q \in payments : q.txn = t}}
<1>1. PICK t \in Serves[w] :
        Set(w, [Resting EXCEPT !.at = "erase", !.op = "unlink", !.txn = t,
                  !.seen = seen(t)])
  BY DEF StartUnlink
<1> DEFINE j == [Resting EXCEPT !.at = "erase", !.op = "unlink", !.txn = t,
                   !.seen = seen(t)]
<1>2. t \in Txns /\ seen(t) \in SUBSET Stages
  BY RequestAssumption DEF TypeInv, TypeOK, Payment
<1> HIDE DEF seen
<1>3. j \in Jobs /\ j.at = "erase" /\ j.txn = t
  BY <1>2, RestingTyped DEF Jobs, Ats, Requests
<1> HIDE DEF j
<1>4. job'[w] = j
  BY <1>1, <1>3, SetTyped DEF TypeInv, j
<1>5. Aimed(w)'
  BY <1>3, <1>4 DEF Aimed
<1>6. UNCHANGED <<txnRows, payments, batch, stage, contract>> /\ made' = made + 1
  BY DEF StartUnlink, Accept
<1> QED
  BY <1>1, <1>3, <1>5, <1>6, StepTyped DEF TypeInv, TypeOK, txnRows, j

LEMMA EraseTyped ==
  ASSUME TypeInv, NEW w \in Workers, Erase(w) PROVE TypeInv'
<1> DEFINE at == IF job[w].op = "link" THEN "linked" ELSE "unlinked"
           gone == IF job[w].op = "link" /\ job[w].seen = {} THEN {}
                   ELSE {p \in payments : p.txn = job[w].txn}
           j == [job[w] EXCEPT !.at = at, !.gone = gone]
<1>1. Set(w, j) /\ job[w].at = "erase"
  BY DEF Erase
<1>2. at \in Ats /\ at \in {"linked", "unlinked"} /\ gone \in SUBSET Payment
  BY DEF TypeInv, TypeOK, Ats
<1> HIDE DEF at, gone
<1>3. j \in Jobs /\ j.at = at /\ j.txn = job[w].txn
  BY <1>2, JobType, ZenonT(60) DEF Jobs
<1> HIDE DEF j
<1>4. job'[w] = j
  BY <1>1, <1>3, SetTyped DEF TypeInv
<1>5. Aimed(w)'
  BY <1>1, <1>2, <1>3, <1>4 DEF TypeInv, Aimed, Reading
<1>6. UNCHANGED <<txnRows, payments, batch, stage, contract, made>>
  BY DEF Erase
<1> QED
  BY <1>1, <1>3, <1>5, <1>6, StepTyped DEF TypeInv, TypeOK, txnRows

LEMMA LinkCommitTyped ==
  ASSUME TypeInv, NEW w \in Workers, LinkCommit(w) PROVE TypeInv'
<1> DEFINE t == job[w].txn
           plan == job[w].plan
<1>1. /\ t \in Txns /\ plan \in [Stages -> Nat] /\ job[w].at = "linked"
      /\ UNCHANGED <<live, stage, contract, made>>
  BY RequestAssumption DEF LinkCommit, TypeInv, TypeOK, Aimed, Reading, Jobs
<1>2. CASE t \in live
  <2>1. /\ payments' = (payments \ job[w].gone) \cup Rows(t, plan)
        /\ batch' = batch + 1
        /\ match' = [match EXCEPT ![t] = Verdict(t, plan, "MANUAL")]
        /\ Recalculate(w, Affected(w), {})
    BY <1>2 DEF LinkCommit
  <2>2. Rows(t, plan) \in SUBSET Payment /\ IsFiniteSet(Rows(t, plan))
    BY <1>1, RowsTotal DEF TypeInv, TypeOK
  <2>3. payments \ job[w].gone \in SUBSET payments
    OBVIOUS
  <2>4. IsFiniteSet(payments \ job[w].gone)
    BY <2>3, FS_Subset DEF TypeInv
  <2>5. IsFiniteSet(payments') /\ payments' \subseteq Payment
    BY <2>1, <2>2, <2>4, FS_Union DEF TypeInv, TypeOK
  <2>9. Verdict(t, plan, "MANUAL") \in MatchStatus
    BY VerdictTyped
  <2>6. match' \in [Txns -> MatchStatus] /\ batch' \in Nat
    <3>1. match' = [match EXCEPT ![t] = Verdict(t, plan, "MANUAL")] /\ batch' = batch + 1
      BY <2>1
    <3>2. match \in [Txns -> MatchStatus] /\ batch \in Nat
      BY DEF TypeInv, TypeOK
    <3> QED
      BY <2>9, <3>1, <3>2, MatchTyped
  <2>7. Affected(w) \in SUBSET Stages
    BY DEF TypeInv, TypeOK, Jobs, Affected
  <2>8. {} \in SUBSET Contracts
    OBVIOUS
  <2> QED
    BY <1>1, <2>1, <2>5, <2>6, <2>7, <2>8, CommitTyped
<1>3. CASE t \notin live
  BY <1>1, <1>3, RestTyped DEF LinkCommit, TypeInv, TypeOK
<1> QED
  BY <1>2, <1>3

LEMMA UnlinkCommitTyped ==
  ASSUME TypeInv, NEW w \in Workers, UnlinkCommit(w) PROVE TypeInv'
<1>1. UNCHANGED <<live, batch, stage, contract, made>> /\ job[w].at = "unlinked"
  BY DEF UnlinkCommit
<1>2. CASE job[w].txn \in live
  <2>1. /\ payments' = payments \ job[w].gone
        /\ match' = [match EXCEPT ![job[w].txn] = "UNMATCHED"]
        /\ Recalculate(w, job[w].seen, {})
    BY <1>2 DEF UnlinkCommit
  <2>2. payments' \in SUBSET payments
    BY <2>1
  <2>3. IsFiniteSet(payments')
    BY <2>2, FS_Subset DEF TypeInv
  <2>4. match' \in [Txns -> MatchStatus]
    BY <2>1 DEF TypeInv, TypeOK, MatchStatus
  <2>5. job[w].seen \in SUBSET Stages /\ {} \in SUBSET Contracts
    BY DEF TypeInv, TypeOK, Jobs
  <2>6. payments' \subseteq Payment /\ batch' \in Nat
    BY <1>1, <2>2 DEF TypeInv, TypeOK
  <2> QED
    BY <1>1, <2>1, <2>3, <2>4, <2>5, <2>6, CommitTyped
<1>3. CASE job[w].txn \notin live
  BY <1>1, <1>3, RestTyped DEF UnlinkCommit, TypeInv, TypeOK
<1> QED
  BY <1>2, <1>3

LEMMA PaidNat == ASSUME TypeInv, NEW s PROVE Paid(s) \in Nat
<1> DEFINE rows == {p \in payments : p.stage = s}
<1>1. rows \in SUBSET Payment /\ rows \in SUBSET payments
  BY DEF TypeInv, TypeOK
<1> HIDE DEF rows
<1>2. IsFiniteSet(rows)
  BY <1>1, FS_Subset DEF TypeInv
<1> QED
  BY <1>1, <1>2, TotalNat DEF Paid, rows

LEMMA RecalcReadTyped ==
  ASSUME TypeInv, NEW w \in Workers, RecalcRead(w) PROVE TypeInv'
<1>1. PICK s \in job[w].dirty :
        Set(w, [job[w] EXCEPT !.at = "write", !.target = s, !.paid = Paid(s)])
  BY DEF RecalcRead
<1> DEFINE j == [job[w] EXCEPT !.at = "write", !.target = s, !.paid = Paid(s)]
<1>2. Paid(s) \in Nat
  BY PaidNat
<1>3. j \in Jobs /\ j.at = "write" /\ j.target = s /\ j.dirty = job[w].dirty
  BY <1>2, JobType, ZenonT(60) DEF Jobs, Ats
<1> HIDE DEF j
<1>4. job'[w] = j
  BY <1>1, <1>3, SetTyped DEF TypeInv, j
<1>5. Aimed(w)'
  BY <1>3, <1>4 DEF Aimed, Reading
<1>6. UNCHANGED <<txnRows, payments, batch, stage, contract, made>>
  BY DEF RecalcRead
<1> QED
  BY <1>1, <1>3, <1>5, <1>6, StepTyped DEF TypeInv, TypeOK, txnRows, j

LEMMA RecalcWriteTyped ==
  ASSUME TypeInv, NEW w \in Workers, RecalcWrite(w) PROVE TypeInv'
<1> DEFINE s == job[w].target
           j == [job[w] EXCEPT !.at = "recalc", !.dirty = job[w].dirty \ {s}]
<1>1. /\ Set(w, j)
      /\ stage' = [stage EXCEPT ![s] = [paid |-> job[w].paid,
                                        status |-> StatusAfter(s, job[w].paid)]]
  BY DEF RecalcWrite
<1>2. job[w].paid \in Nat /\ job[w].dirty \subseteq Stages
  BY DEF TypeInv, TypeOK, Jobs
<1>3. StatusAfter(s, job[w].paid) \in StageStatus
  BY <1>2 DEF StatusAfter, StageStatus
<1>4. stage' \in [Stages -> [paid : Nat, status : StageStatus]]
  BY <1>1, <1>2, <1>3 DEF TypeInv, TypeOK
<1>5. j \in Jobs /\ j.at = "recalc"
  BY JobType, ZenonT(60) DEF Jobs, Ats
<1> HIDE DEF j
<1>6. job'[w] = j
  BY <1>1, <1>5, SetTyped DEF TypeInv
<1>7. Aimed(w)'
  BY <1>5, <1>6 DEF Aimed, Reading
<1>8. UNCHANGED <<txnRows, payments, batch, contract, made>>
  BY DEF RecalcWrite
<1> QED
  BY <1>1, <1>4, <1>5, <1>7, <1>8, StepTyped DEF TypeInv, TypeOK, txnRows

LEMMA CloseReadTyped ==
  ASSUME TypeInv, NEW w \in Workers, CloseRead(w) PROVE TypeInv'
<1>1. PICK c \in job[w].closing :
        Set(w, IF Settled(c) THEN [job[w] EXCEPT !.at = "close", !.target = c]
               ELSE [job[w] EXCEPT !.closing = job[w].closing \ {c}])
  BY DEF CloseRead
<1> DEFINE j == [job[w] EXCEPT !.at = "close", !.target = c]
           k == [job[w] EXCEPT !.closing = job[w].closing \ {c}]
<1>2. UNCHANGED <<txnRows, payments, batch, stage, contract, made>> /\ job[w].at = "recalc"
  BY DEF CloseRead
<1>3. j \in Jobs /\ j.at = "close" /\ j.target = c /\ j.closing = job[w].closing
  BY JobType, ZenonT(60) DEF Jobs, Ats
<1>4. k \in Jobs /\ k.at = "recalc"
  BY <1>2, JobType, ZenonT(60) DEF Jobs
<1>5. CASE Settled(c)
  <2>1. Set(w, j)
    BY <1>1, <1>5
  <2> HIDE DEF j
  <2>2. job'[w] = j
    BY <1>3, <2>1, SetTyped DEF TypeInv
  <2>3. Aimed(w)'
    BY <1>3, <2>2 DEF Aimed, Reading
  <2> QED
    BY <1>2, <1>3, <2>1, <2>3, StepTyped DEF TypeInv, TypeOK, txnRows
<1>6. CASE ~Settled(c)
  <2>1. Set(w, k)
    BY <1>1, <1>6
  <2> HIDE DEF k
  <2>2. job'[w] = k
    BY <1>4, <2>1, SetTyped DEF TypeInv
  <2>3. Aimed(w)'
    BY <1>4, <2>2 DEF Aimed, Reading
  <2> QED
    BY <1>2, <1>4, <2>1, <2>3, StepTyped DEF TypeInv, TypeOK, txnRows
<1> QED
  BY <1>5, <1>6

LEMMA CloseWriteTyped ==
  ASSUME TypeInv, NEW w \in Workers, CloseWrite(w) PROVE TypeInv'
<1> DEFINE rest == job[w].closing \ {job[w].target}
           j == [job[w] EXCEPT !.at = "recalc", !.closing = rest]
<1>1. /\ Set(w, j) /\ contract' = [contract EXCEPT ![job[w].target] = "COMPLETED"]
      /\ UNCHANGED <<txnRows, payments, batch, stage, made>>
  BY DEF CloseWrite
<1>2. j \in Jobs /\ j.at = "recalc"
  BY JobType, ZenonT(60) DEF Jobs, Ats
<1> HIDE DEF j
<1>3. job'[w] = j
  BY <1>1, <1>2, SetTyped DEF TypeInv
<1>4. Aimed(w)'
  BY <1>2, <1>3 DEF Aimed, Reading
<1>5. contract' \in [Contracts -> ContractStatus]
  BY <1>1 DEF TypeInv, TypeOK, ContractStatus
<1> QED
  BY <1>1, <1>2, <1>4, <1>5, StepTyped DEF TypeInv, TypeOK, txnRows

\* Whatever requests, deletions by the mirror and crashes do, the rows and the
\* requests of the payment module keep their types: sums of amounts are natural
\* numbers, and a recalculation writes to a stage or a contract it was to do.
LEMMA NextTyped == TypeInv /\ [Next]_vars => TypeInv'
<1> SUFFICES ASSUME TypeInv, [Next]_vars PROVE TypeInv'
  OBVIOUS
<1>1. ASSUME NEW w \in Workers, Step(w) PROVE TypeInv'
  <2>1. CASE AutoNothing(w)
    <3>1. match' \in [Txns -> MatchStatus]
      BY <2>1 DEF AutoNothing, TypeInv, TypeOK, MatchStatus
    <3> QED
      BY <2>1, <3>1, RestTyped DEF AutoNothing
  <2>2. CASE Respond(w)
    BY <2>2, RestTyped DEF Respond, TypeInv, TypeOK, txnRows
  <2> QED
    BY <1>1, <2>1, <2>2, StartAutoTyped, AutoStagesTyped, AutoCommitTyped,
       StartLinkTyped, StartUnlinkTyped, EraseTyped, LinkCommitTyped,
       UnlinkCommitTyped, RecalcReadTyped, RecalcWriteTyped, CloseReadTyped,
       CloseWriteTyped DEF Step
<1>2. CASE Ignore
  <2>1. match' \in [Txns -> MatchStatus] /\ made' \in Nat
    BY <1>2 DEF Ignore, Accept, TypeInv, TypeOK, MatchStatus
  <2> QED
    BY <1>2, <2>1 DEF Ignore, TypeInv, TypeOK, Aimed
<1>3. CASE SyncDelete
  <2>1. payments' \in SUBSET payments /\ live' \subseteq live /\ made' \in Nat
    BY <1>3 DEF SyncDelete, Accept, TypeInv, TypeOK
  <2>2. IsFiniteSet(payments')
    BY <2>1, FS_Subset DEF TypeInv
  <2> QED
    BY <1>3, <2>1, <2>2 DEF SyncDelete, TypeInv, TypeOK, Aimed
<1>4. CASE Crash
  <2>1. job' \in [Workers -> Jobs] /\ \A w \in Workers : Aimed(w)'
    BY <1>4, RestingTyped DEF Crash, Aimed, Reading
  <2> QED
    BY <1>4, <2>1 DEF Crash, Accept, TypeInv, TypeOK, txnRows
<1>5. CASE UNCHANGED vars
  BY <1>5 DEF vars, TypeInv, TypeOK, Aimed
<1> QED
  BY <1>1, <1>2, <1>3, <1>4, <1>5 DEF Next

\* Rows, stages and contracts keep their shape and statuses, amounts stay
\* positive, and a request has in hand what its step works on (autoMatch,
\* linkManual, unlink, ignore, applyDeletedChange).
THEOREM BillingTyped == Spec => []TypeOK
<1>1. TypeInv => TypeOK
  BY DEF TypeInv
<1> QED
  BY InitTyped, NextTyped, <1>1, PTL DEF Spec

LEMMA NoPayments == Total({}) = 0
BY TotalIs, SumNone, FS_EmptySet

\* The rows a plan adds are new and belong to its transaction.
LEMMA RowsOfPlan ==
  ASSUME NEW t, NEW plan, NEW p \in Rows(t, plan)
  PROVE  /\ p.txn = t /\ p.batch = batch
         /\ p.stage \in Stages /\ plan[p.stage] > 0
BY DEF Rows

\* Every payment carries the stamp of a commit that is over.
Stamped == \A p \in payments : p.batch < batch

LEMMA NextStamped == TypeInv /\ Stamped /\ [Next]_vars => Stamped'
<1> SUFFICES ASSUME TypeInv, Stamped, [Next]_vars PROVE Stamped'
  OBVIOUS
<1>1. batch \in Nat /\ \A p \in payments : p.batch \in Nat /\ p.batch < batch
  BY DEF TypeInv, TypeOK, Stamped, Payment
<1>2. ASSUME NEW w \in Workers, AutoCommit(w) \/ LinkCommit(w) PROVE Stamped'
  <2>1. CASE UNCHANGED <<payments, batch>>
    BY <1>1, <2>1 DEF Stamped
  <2>2. CASE /\ payments' \subseteq payments \cup Rows(job[w].txn, job[w].plan)
             /\ batch' = batch + 1
    <3>1. \A p \in Rows(job[w].txn, job[w].plan) : p.batch = batch
      BY RowsOfPlan
    <3> QED
      BY <1>1, <2>2, <3>1 DEF Stamped
  <2>3. CASE job[w].txn \in live
    BY <1>2, <2>2, <2>3 DEF AutoCommit, LinkCommit
  <2>4. CASE job[w].txn \notin live
    BY <1>2, <2>1, <2>4 DEF AutoCommit, LinkCommit
  <2> QED
    BY <2>3, <2>4
<1>3. CASE payments' \subseteq payments /\ batch' = batch
  BY <1>1, <1>3 DEF Stamped
<1>4. ASSUME NEW w \in Workers, Step(w), ~AutoCommit(w), ~LinkCommit(w)
      PROVE  payments' \subseteq payments /\ batch' = batch
  BY <1>4 DEF Step, StartAuto, AutoStages, AutoNothing, StartLink, StartUnlink, Erase,
     UnlinkCommit, RecalcRead, RecalcWrite, CloseRead, CloseWrite, Respond
<1>5. Ignore \/ SyncDelete \/ Crash \/ UNCHANGED vars =>
        payments' \subseteq payments /\ batch' = batch
  BY DEF Ignore, SyncDelete, Crash, vars
<1> QED
  BY <1>2, <1>3, <1>4, <1>5 DEF Next

-----------------------------------------------------------------------------
(* What matchStatus tells *)

Separate == \A v, w \in Workers : v # w => Serves[v] \cap Serves[w] = {}

Of(t) == {p \in payments : p.txn = t}
Told(t) ==
  CASE match[t] \in {"AUTO", "MANUAL"} -> Allocated(t) = Amount[t]
    [] match[t] = "PARTIAL" -> Allocated(t) < Amount[t]
    [] match[t] = "UNMATCHED" -> Allocated(t) = 0
    [] OTHER -> TRUE

\* What a request in progress may rely on: nobody has allocated the transaction
\* that autoMatch found unmatched, deleteMany takes all its payments, and the
\* plan stays within its amount.
Knows(w) ==
  LET t == job[w].txn IN
  /\ job[w].at \in {"stages", "nothing", "commit"} /\ t \in live =>
       match[t] = "UNMATCHED"
  /\ job[w].at = "erase" /\ t \in live => \A p \in Of(t) : p.stage \in job[w].seen
  /\ job[w].at \in {"linked", "unlinked"} /\ t \in live => job[w].gone = Of(t)
  /\ job[w].at \in {"commit", "linked"} \/ (job[w].at = "erase" /\ job[w].op = "link") =>
       SumOver(Stages, job[w].plan) <= Amount[t]
Kept == \A p \in payments : p.txn \in live
NeverIgnored == \A t \in Txns : match[t] # "IGNORED"

ToldInv == /\ TypeInv
           /\ Stamped /\ Kept /\ NeverIgnored
           /\ \A w \in Workers : Knows(w)
           /\ \A t \in live : Told(t)

LEMMA InitTold == Init => ToldInv
<1> SUFFICES ASSUME Init PROVE ToldInv
  OBVIOUS
<1>1. ASSUME NEW w \in Workers PROVE Knows(w)
  BY RestingTyped DEF Init, Knows
<1>2. ASSUME NEW t \in live PROVE Told(t)
  <2>1. Allocated(t) = 0
    BY NoPayments DEF Init, Allocated
  <2>2. match[t] = "UNMATCHED"
    BY DEF Init
  <2> QED
    BY <2>1, <2>2 DEF Told
<1>3. Stamped /\ Kept /\ NeverIgnored
  BY DEF Init, Stamped, Kept, NeverIgnored
<1> QED
  BY <1>1, <1>2, <1>3, InitTyped DEF ToldInv

\* A transaction whose row and payments stay tells what it told.
LEMMA SameTold ==
  ASSUME NEW t, Told(t), match'[t] = match[t], Of(t)' = Of(t)
  PROVE  Told(t)'
<1>1. Allocated(t)' = Allocated(t)
  BY DEF Allocated, Of
<1> QED
  BY <1>1 DEF Told

LEMMA SameKnows ==
  ASSUME NEW v, Knows(v), job'[v] = job[v], live' \subseteq live,
         \A t \in live' : t = job[v].txn /\ job[v].at \in Reading =>
           match'[t] = match[t] /\ Of(t)' = Of(t)
  PROVE  Knows(v)'
<1>1. PICK t : t = job[v].txn
  OBVIOUS
<1>2. /\ Of(t) = {p \in payments : p.txn = t} /\ Of(t)' = {p \in payments' : p.txn = t}
      /\ Of(job[v].txn)' = {p \in payments' : p.txn = job'[v].txn}
      /\ Of(job[v].txn) = {p \in payments : p.txn = job[v].txn}
  BY DEF Of
<1> QED
  BY <1>1, <1>2 DEF Knows, Reading

\* A step of one request writes the row and the payments of one transaction it
\* serves.
LEMMA StepTold ==
  ASSUME Separate, ToldInv, TypeInv', Stamped', NEW w \in Workers, NEW u \in Serves[w],
         \A v \in Workers : v # w => job'[v] = job[v], live' \subseteq live,
         \A t \in live' : t # u => match'[t] = match[t] /\ Of(t)' = Of(t),
         Kept', NeverIgnored', Knows(w)', u \in live' => Told(u)'
  PROVE  ToldInv'
<1>1. ASSUME NEW v \in Workers, v # w PROVE Knows(v)'
  <2>1. job[v].at \in Reading => job[v].txn # u
    BY <1>1 DEF Separate, ToldInv, TypeInv, Aimed
  <2> QED
    BY <1>1, <2>1, SameKnows DEF ToldInv
<1>2. ASSUME NEW t \in live', t # u PROVE Told(t)'
  BY <1>2, SameTold DEF ToldInv
<1> QED
  BY <1>1, <1>2 DEF ToldInv

\* Steps that write no row.
LEMMA QuietTold ==
  ASSUME ToldInv, TypeInv', Stamped', NEW w \in Workers,
         \A v \in Workers : v # w => job'[v] = job[v],
         UNCHANGED <<txnRows, payments, batch>>, Knows(w)'
  PROVE  ToldInv'
<1>1. \A t : Of(t)' = Of(t)
  BY DEF Of
<1>2. live' = live /\ match' = match
  BY DEF txnRows
<1>3. ASSUME NEW v \in Workers, v # w PROVE Knows(v)'
  BY <1>1, <1>2, <1>3, SameKnows DEF ToldInv
<1>4. ASSUME NEW t \in live' PROVE Told(t)'
  BY <1>1, <1>2, SameTold DEF ToldInv
<1>5. Kept' /\ NeverIgnored'
  BY <1>2 DEF ToldInv, Kept, NeverIgnored
<1> QED
  BY <1>3, <1>4, <1>5 DEF ToldInv

\* The steps of a request write one field after the other.
LEMMA JobSet ==
  ASSUME TypeInv, NEW w \in Workers, NEW j, Set(w, j)
  PROVE  /\ job'[w] = j
         /\ \A v \in Workers : v # w => job'[v] = job[v]
BY DEF TypeInv, TypeOK, Set

LEMMA StartAutoTold ==
  ASSUME ToldInv, TypeInv', Stamped', NEW w \in Workers, StartAuto(w) PROVE ToldInv'
<1>1. PICK t \in Serves[w] \cap live :
        /\ match[t] \notin {"AUTO", "MANUAL", "PARTIAL"}
        /\ Set(w, [Resting EXCEPT !.at = "stages", !.op = "auto", !.txn = t])
  BY DEF StartAuto
<1> DEFINE j == [Resting EXCEPT !.at = "stages", !.op = "auto", !.txn = t]
<1>2. j.at = "stages" /\ j.txn = t
  BY DEF Resting
<1> HIDE DEF j
<1>3. job'[w] = j /\ \A v \in Workers : v # w => job'[v] = job[v]
  BY <1>1, JobSet DEF ToldInv, j
<1>4. match[t] = "UNMATCHED"
  <2>1. match[t] \in MatchStatus /\ match[t] # "IGNORED"
    BY RequestAssumption DEF ToldInv, TypeInv, TypeOK, NeverIgnored
  <2> QED
    BY <1>1, <2>1 DEF MatchStatus
<1>5. UNCHANGED <<txnRows, payments, batch>>
  BY DEF StartAuto
<1>6. Knows(w)'
  BY <1>2, <1>3, <1>4, <1>5 DEF Knows, txnRows
<1> QED
  BY <1>3, <1>5, <1>6, QuietTold

LEMMA AutoStagesTold ==
  ASSUME ToldInv, TypeInv', Stamped', NEW w \in Workers, AutoStages(w) PROVE ToldInv'
<1> DEFINE t == job[w].txn
           open == Open(Payer[t])
           plan == Plan(t, open)
           j == IF open = {} THEN [job[w] EXCEPT !.at = "nothing"]
                ELSE [job[w] EXCEPT !.at = "commit", !.plan = plan]
<1>1. job[w].at = "stages" /\ Set(w, j) /\ UNCHANGED <<txnRows, payments, batch>>
  BY DEF AutoStages
<1>2. t \in Txns /\ job[w] \in Jobs
  BY <1>1, RequestAssumption DEF ToldInv, TypeInv, TypeOK, Aimed, Reading
<1>3. SumOver(Stages, plan) <= Amount[t]
  BY <1>2, PlanWithin, OpenStages DEF ToldInv, TypeInv, TypeOK, StagesTyped
<1>4. j.txn = t /\ (j.at = "nothing" \/ (j.at = "commit" /\ j.plan = plan))
  <2> HIDE DEF plan, open
  <2>1. /\ [job[w] EXCEPT !.at = "nothing"].at = "nothing"
        /\ [job[w] EXCEPT !.at = "nothing"].txn = job[w].txn
    BY <1>2 DEF Jobs
  <2>2. /\ [job[w] EXCEPT !.at = "commit", !.plan = plan].at = "commit"
        /\ [job[w] EXCEPT !.at = "commit", !.plan = plan].txn = job[w].txn
        /\ [job[w] EXCEPT !.at = "commit", !.plan = plan].plan = plan
    BY <1>2 DEF Jobs
  <2>3. \/ j = [job[w] EXCEPT !.at = "nothing"]
        \/ j = [job[w] EXCEPT !.at = "commit", !.plan = plan]
    OBVIOUS
  <2> HIDE DEF j
  <2> QED
    BY <2>1, <2>2, <2>3
<1> HIDE DEF j, plan
<1>5. job'[w] = j /\ \A v \in Workers : v # w => job'[v] = job[v]
  BY <1>1, JobSet DEF ToldInv
<1>6. t \in live => match[t] = "UNMATCHED"
  BY <1>1 DEF ToldInv, Knows
<1>7. Knows(w)'
  BY <1>1, <1>3, <1>4, <1>5, <1>6 DEF Knows, txnRows
<1> QED
  BY <1>1, <1>5, <1>7, QuietTold

LEMMA RestTold ==
  ASSUME ToldInv, TypeInv', Stamped', NEW w \in Workers, Rest(w),
         UNCHANGED <<txnRows, payments, batch>>
  PROVE  ToldInv'
<1>1. job'[w] = Resting /\ \A v \in Workers : v # w => job'[v] = job[v]
  BY JobSet DEF ToldInv, Rest
<1>2. Knows(w)'
  BY <1>1, RestingTyped DEF Knows
<1> QED
  BY <1>1, <1>2, QuietTold

LEMMA AutoNothingTold ==
  ASSUME ToldInv, TypeInv', Stamped', NEW w \in Workers, AutoNothing(w) PROVE ToldInv'
<1>1. job[w].txn \in live => match[job[w].txn] = "UNMATCHED"
  BY DEF AutoNothing, ToldInv, Knows
<1>2. match' = match
  BY <1>1 DEF AutoNothing, ToldInv, TypeInv, TypeOK
<1> QED
  BY <1>2, RestTold DEF AutoNothing, txnRows

\* The row and the payments of the transaction of a request change together.
LEMMA CommitTold ==
  ASSUME Separate, ToldInv, TypeInv', Stamped', NEW w \in Workers, job[w].at \in Reading,
         NEW dirty, NEW closing, Recalculate(w, dirty, closing), live' = live,
         NEW m \in MatchStatus \ {"IGNORED"}, NEW u, u = job[w].txn,
         match' = [match EXCEPT ![u] = m],
         \A t \in live : t # u => Of(t)' = Of(t), Kept', Told(u)'
  PROVE  ToldInv'
<1> DEFINE j == [job[w] EXCEPT !.at = "recalc", !.dirty = dirty, !.closing = closing,
                               !.gone = {}]
<1>1. u \in Serves[w] /\ u \in Txns /\ job[w] \in Jobs
  BY RequestAssumption DEF ToldInv, TypeInv, TypeOK, Aimed
<1>2. j.at = "recalc"
  BY <1>1 DEF Jobs
<1>3. Set(w, j)
  BY DEF Recalculate
<1> HIDE DEF j
<1>4. job'[w] = j /\ \A v \in Workers : v # w => job'[v] = job[v]
  BY <1>3, JobSet DEF ToldInv
<1>5. Knows(w)'
  BY <1>2, <1>4 DEF Knows
<1>6. \A t \in Txns : match'[t] = IF t = u THEN m ELSE match[t]
  BY DEF ToldInv, TypeInv, TypeOK
<1>7. NeverIgnored'
  BY <1>6 DEF ToldInv, NeverIgnored
<1>8. \A t \in live' : t # u => match'[t] = match[t] /\ Of(t)' = Of(t)
  BY <1>6 DEF ToldInv, TypeInv, TypeOK
<1> QED
  BY <1>1, <1>4, <1>5, <1>7, <1>8, StepTold

LEMMA AllocatedOf == \A t : Allocated(t) = Total(Of(t))
BY DEF Allocated, Of

\* A plan within the amount, allocated to a transaction that has no other
\* payments left: the verdict says how much it is.
LEMMA VerdictTold ==
  ASSUME NEW t \in Txns, NEW plan, NEW full \in {"AUTO", "MANUAL"},
         TypeInv, SumOver(Stages, plan) <= Amount[t], SumOver(Stages, plan) \in Nat,
         match'[t] = Verdict(t, plan, full),
         Allocated(t)' = SumOver(Stages, plan)
  PROVE  Told(t)'
<1>1. Amount[t] \in Nat
  BY RequestAssumption
<1>2. CASE SumOver(Stages, plan) >= Amount[t]
  <2>1. match'[t] \in {"AUTO", "MANUAL"} /\ SumOver(Stages, plan) = Amount[t]
    BY <1>1, <1>2 DEF Verdict
  <2> QED
    BY <2>1 DEF Told
<1>3. CASE SumOver(Stages, plan) < Amount[t]
  <2>1. match'[t] = "PARTIAL"
    BY <1>1, <1>3 DEF Verdict
  <2> QED
    BY <1>3, <2>1 DEF Told
<1> QED
  BY <1>1, <1>2, <1>3

LEMMA VerdictRange ==
  ASSUME NEW t, NEW plan, NEW full \in {"AUTO", "MANUAL"}
  PROVE  Verdict(t, plan, full) \in MatchStatus \ {"IGNORED"}
BY DEF Verdict, MatchStatus

LEMMA AutoCommitTold ==
  ASSUME Separate, ToldInv, TypeInv', Stamped', NEW w \in Workers, AutoCommit(w) PROVE ToldInv'
<1>0. PICK t, plan : t = job[w].txn /\ plan = job[w].plan
  OBVIOUS
<1> DEFINE paid == {s \in Stages : plan[s] > 0}
<1>1. /\ t \in Txns /\ plan \in [Stages -> Nat] /\ batch \in Nat
      /\ job[w].at = "commit" /\ job[w].at \in Reading
  BY <1>0, RequestAssumption DEF AutoCommit, ToldInv, TypeInv, TypeOK, Aimed, Reading, Jobs
<1>2. CASE t \notin live
  BY <1>0, <1>2, RestTold DEF AutoCommit, txnRows
<1>3. CASE t \in live
  <2>1. payments' = payments \cup Rows(t, plan) /\ batch' = batch + 1
    BY <1>0, <1>3 DEF AutoCommit
  <2>2. /\ live' = live /\ match' = [match EXCEPT ![t] = Verdict(t, plan, "AUTO")]
        /\ Recalculate(w, paid, {ContractOf[s] : s \in paid})
    BY <1>0, <1>3 DEF AutoCommit
  <2>3. /\ Rows(t, plan) \in SUBSET Payment /\ IsFiniteSet(Rows(t, plan))
        /\ Total(Rows(t, plan)) = SumOver(Stages, plan) /\ SumOver(Stages, plan) \in Nat
    BY <1>1, RowsTotal
  <2>4. SumOver(Stages, plan) <= Amount[t] /\ match[t] = "UNMATCHED"
    BY <1>0, <1>1, <1>3 DEF ToldInv, Knows
  <2>5. Total(Of(t)) = 0
    BY <1>3, <2>4, AllocatedOf DEF ToldInv, Told
  <2>6. Of(t)' = Of(t) \cup Rows(t, plan) /\ Of(t) \cap Rows(t, plan) = {}
    <3>1. \A p \in Rows(t, plan) : p.txn = t /\ p.batch = batch
      BY RowsOfPlan
    <3>2. \A p \in payments : p.batch \in Nat /\ p.batch < batch
      BY DEF ToldInv, TypeInv, TypeOK, Stamped, Payment
    <3> QED
      BY <1>1, <2>1, <3>1, <3>2 DEF Of
  <2>7. Of(t) \in SUBSET Payment /\ IsFiniteSet(Of(t))
    <3>1. Of(t) \in SUBSET payments
      BY DEF Of
    <3> QED
      BY <3>1, FS_Subset DEF ToldInv, TypeInv, TypeOK
  <2>8. Total(Of(t) \cup Rows(t, plan)) = Total(Of(t)) + Total(Rows(t, plan))
    BY <2>3, <2>6, <2>7, TotalBoth
  <2>9. Allocated(t)' = Total(Of(t)')
    BY DEF Allocated, Of
  <2>10. Allocated(t)' = SumOver(Stages, plan)
    BY <2>3, <2>5, <2>6, <2>8, <2>9
  <2>11. match'[t] = Verdict(t, plan, "AUTO")
    BY <1>1, <2>2 DEF ToldInv, TypeInv, TypeOK
  <2>12. Told(t)'
    BY <1>1, <2>3, <2>4, <2>10, <2>11, VerdictTold DEF ToldInv
  <2>13. Verdict(t, plan, "AUTO") \in MatchStatus \ {"IGNORED"}
    BY VerdictRange
  <2>14. \A p \in Rows(t, plan) : p.txn = t /\ p.batch = batch
    BY RowsOfPlan
  <2>15. \A r \in live : r # t => Of(r)' = Of(r)
    BY <2>1, <2>14 DEF Of
  <2>16. Kept'
    <3>1. \A p \in payments : p.txn \in live
      BY DEF ToldInv, Kept
    <3> QED
      BY <1>3, <2>1, <2>2, <2>14, <3>1 DEF Kept
  <2> HIDE DEF paid
  <2> QED
    BY <1>0, <1>1, <2>2, <2>12, <2>13, <2>15, <2>16, CommitTold
<1> QED
  BY <1>2, <1>3

LEMMA StartLinkTold ==
  ASSUME ToldInv, TypeInv', Stamped', NEW w \in Workers, StartLink(w) PROVE ToldInv'
<1> DEFINE seen(t) == {p.stage : p \in {q \in payments : q.txn = t}}
<1>0. PICK t \in Serves[w] : \E plan \in [Stages -> 0 .. Amount[t]] :
        /\ SumOver(Stages, plan) \in 1 .. Amount[t]
        /\ Set(w, [Resting EXCEPT !.at = "erase", !.op = "link", !.txn = t, !.plan = plan,
                     !.seen = seen(t)])
  BY DEF StartLink
<1>1. PICK plan \in [Stages -> 0 .. Amount[t]] :
        /\ SumOver(Stages, plan) \in 1 .. Amount[t]
        /\ Set(w, [Resting EXCEPT !.at = "erase", !.op = "link", !.txn = t, !.plan = plan,
                     !.seen = seen(t)])
  BY <1>0
<1> DEFINE j == [Resting EXCEPT !.at = "erase", !.op = "link", !.txn = t,
                   !.plan = plan, !.seen = seen(t)]
<1>2. \A p \in Of(t) : p.stage \in seen(t)
  BY DEF Of
<1> HIDE DEF seen
<1>3. j.at = "erase" /\ j.txn = t /\ j.plan = plan /\ j.seen = seen(t)
  BY DEF Resting
<1> HIDE DEF j
<1>4. job'[w] = j /\ \A v \in Workers : v # w => job'[v] = job[v]
  BY <1>1, JobSet DEF ToldInv, j
<1>5. UNCHANGED <<txnRows, payments, batch>>
  BY DEF StartLink
<1>6. SumOver(Stages, plan) <= Amount[t]
  <2>1. Amount[t] \in Nat
    BY RequestAssumption
  <2> QED
    BY <1>1, <2>1
<1>7. Of(t)' = Of(t)
  BY <1>5 DEF Of
<1>8. \A p \in Of(job[w].txn)' : p.stage \in job'[w].seen
  BY <1>2, <1>3, <1>4, <1>7 DEF Of
<1>9. Knows(w)'
  BY <1>3, <1>4, <1>6, <1>8 DEF Knows
<1> QED
  BY <1>4, <1>5, <1>9, QuietTold

LEMMA StartUnlinkTold ==
  ASSUME ToldInv, TypeInv', Stamped', NEW w \in Workers, StartUnlink(w) PROVE ToldInv'
<1> DEFINE seen(t) == {p.stage : p \in {q \in payments : q.txn = t}}
<1>1. PICK t \in Serves[w] :
        Set(w, [Resting EXCEPT !.at = "erase", !.op = "unlink", !.txn = t,
                  !.seen = seen(t)])
  BY DEF StartUnlink
<1> DEFINE j == [Resting EXCEPT !.at = "erase", !.op = "unlink", !.txn = t,
                   !.seen = seen(t)]
<1>2. \A p \in Of(t) : p.stage \in seen(t)
  BY DEF Of
<1> HIDE DEF seen
<1>3. j.at = "erase" /\ j.op = "unlink" /\ j.txn = t /\ j.seen = seen(t)
  BY DEF Resting
<1> HIDE DEF j
<1>4. job'[w] = j /\ \A v \in Workers : v # w => job'[v] = job[v]
  BY <1>1, JobSet DEF ToldInv, j
<1>5. UNCHANGED <<txnRows, payments, batch>>
  BY DEF StartUnlink
<1>7. Of(t)' = Of(t)
  BY <1>5 DEF Of
<1>8. \A p \in Of(job[w].txn)' : p.stage \in job'[w].seen
  BY <1>2, <1>3, <1>4, <1>7 DEF Of
<1>9. Knows(w)'
  BY <1>3, <1>4, <1>8 DEF Knows
<1> QED
  BY <1>4, <1>5, <1>9, QuietTold

LEMMA EraseTold ==
  ASSUME ToldInv, TypeInv', Stamped', NEW w \in Workers, Erase(w) PROVE ToldInv'
<1>0. PICK t : t = job[w].txn
  OBVIOUS
<1> DEFINE at == IF job[w].op = "link" THEN "linked" ELSE "unlinked"
           gone == IF job[w].op = "link" /\ job[w].seen = {} THEN {}
                   ELSE {p \in payments : p.txn = job[w].txn}
           j == [job[w] EXCEPT !.at = at, !.gone = gone]
<1>1. job[w].at = "erase" /\ Set(w, j) /\ UNCHANGED <<txnRows, payments, batch>>
  BY DEF Erase
<1>2. t \in live => gone = Of(t)
  <2>1. t \in live => \A p \in Of(t) : p.stage \in job[w].seen
    BY <1>0, <1>1 DEF ToldInv, Knows
  <2> QED
    BY <1>0, <2>1 DEF Of
<1>3. at = "linked" => SumOver(Stages, job[w].plan) <= Amount[t]
  BY <1>0, <1>1 DEF ToldInv, Knows
<1>4. at \in {"linked", "unlinked"}
  OBVIOUS
<1> HIDE DEF at, gone
<1>5. j.at = at /\ j.txn = t /\ j.plan = job[w].plan /\ j.gone = gone
  BY <1>0 DEF ToldInv, TypeInv, TypeOK, Jobs
<1> HIDE DEF j
<1>6. job'[w] = j /\ \A v \in Workers : v # w => job'[v] = job[v]
  BY <1>1, JobSet DEF ToldInv
<1>7. Of(job[w].txn)' = Of(t) /\ live' = live
  BY <1>1, <1>5, <1>6 DEF Of, txnRows
<1>8. Knows(w)'
  BY <1>2, <1>3, <1>4, <1>5, <1>6, <1>7 DEF Knows
<1> QED
  BY <1>1, <1>6, <1>8, QuietTold

LEMMA LinkCommitTold ==
  ASSUME Separate, ToldInv, TypeInv', Stamped', NEW w \in Workers, LinkCommit(w) PROVE ToldInv'
<1>0. PICK t, plan : t = job[w].txn /\ plan = job[w].plan
  OBVIOUS
<1>1. /\ t \in Txns /\ plan \in [Stages -> Nat] /\ batch \in Nat
      /\ job[w].at = "linked" /\ job[w].at \in Reading
  BY <1>0, RequestAssumption DEF LinkCommit, ToldInv, TypeInv, TypeOK, Aimed, Reading, Jobs
<1>2. CASE t \notin live
  BY <1>0, <1>2, RestTold DEF LinkCommit, txnRows
<1>3. CASE t \in live
  <2>1. payments' = (payments \ job[w].gone) \cup Rows(t, plan) /\ batch' = batch + 1
    BY <1>0, <1>3 DEF LinkCommit
  <2>2. /\ live' = live /\ match' = [match EXCEPT ![t] = Verdict(t, plan, "MANUAL")]
        /\ Recalculate(w, Affected(w), {})
    BY <1>0, <1>3 DEF LinkCommit
  <2>3. Total(Rows(t, plan)) = SumOver(Stages, plan) /\ SumOver(Stages, plan) \in Nat
    BY <1>1, RowsTotal
  <2>4. SumOver(Stages, plan) <= Amount[t] /\ job[w].gone = Of(t)
    BY <1>0, <1>1, <1>3 DEF ToldInv, Knows
  <2>5. \A p \in Rows(t, plan) : p.txn = t /\ p.batch = batch
    BY RowsOfPlan
  <2>6. Of(t)' = Rows(t, plan)
    BY <2>1, <2>4, <2>5 DEF Of
  <2>7. Allocated(t)' = Total(Of(t)')
    BY DEF Allocated, Of
  <2>8. Allocated(t)' = SumOver(Stages, plan)
    BY <2>3, <2>6, <2>7
  <2>9. match'[t] = Verdict(t, plan, "MANUAL")
    BY <1>1, <2>2, ZenonT(60) DEF ToldInv, TypeInv, TypeOK
  <2>10. Told(t)'
    BY <1>1, <2>3, <2>4, <2>8, <2>9, VerdictTold DEF ToldInv
  <2>11. Verdict(t, plan, "MANUAL") \in MatchStatus \ {"IGNORED"}
    BY VerdictRange
  <2>12. \A r \in live : r # t => Of(r)' = Of(r)
    BY <2>1, <2>4, <2>5 DEF Of
  <2>13. Kept'
    <3>1. \A p \in payments : p.txn \in live
      BY DEF ToldInv, Kept
    <3> QED
      BY <1>3, <2>1, <2>2, <2>5, <3>1 DEF Kept
  <2> QED
    BY <1>0, <1>1, <2>2, <2>10, <2>11, <2>12, <2>13, CommitTold
<1> QED
  BY <1>2, <1>3

LEMMA UnlinkCommitTold ==
  ASSUME Separate, ToldInv, TypeInv', Stamped', NEW w \in Workers, UnlinkCommit(w) PROVE ToldInv'
<1>0. PICK t : t = job[w].txn
  OBVIOUS
<1>1. t \in Txns /\ job[w].at = "unlinked" /\ job[w].at \in Reading
  BY <1>0, RequestAssumption DEF UnlinkCommit, ToldInv, TypeInv, TypeOK, Aimed, Reading
<1>2. CASE t \notin live
  BY <1>0, <1>2, RestTold DEF UnlinkCommit, txnRows
<1>3. CASE t \in live
  <2>1. /\ payments' = payments \ job[w].gone /\ batch' = batch /\ live' = live
        /\ match' = [match EXCEPT ![t] = "UNMATCHED"]
        /\ Recalculate(w, job[w].seen, {})
    BY <1>0, <1>3 DEF UnlinkCommit
  <2>2. job[w].gone = Of(t)
    BY <1>0, <1>1, <1>3 DEF ToldInv, Knows
  <2>3. Of(t)' = {}
    BY <2>1, <2>2 DEF Of
  <2>4. Allocated(t)' = 0
    BY <2>3, NoPayments DEF Allocated, Of
  <2>5. match'[t] = "UNMATCHED"
    BY <1>1, <2>1 DEF ToldInv, TypeInv, TypeOK
  <2>6. Told(t)'
    BY <2>4, <2>5 DEF Told
  <2>7. \A r \in live : r # t => Of(r)' = Of(r)
    BY <2>1, <2>2 DEF Of
  <2>8. Kept'
    BY <2>1 DEF ToldInv, Kept
  <2>9. "UNMATCHED" \in MatchStatus \ {"IGNORED"}
    BY DEF MatchStatus
  <2> QED
    BY <1>0, <1>1, <2>1, <2>6, <2>7, <2>8, <2>9, CommitTold
<1> QED
  BY <1>2, <1>3

\* While it recalculates, a request knows nothing of its transaction.
LEMMA RecalcTold ==
  ASSUME ToldInv, TypeInv', Stamped', NEW w \in Workers,
         RecalcRead(w) \/ RecalcWrite(w) \/ CloseRead(w) \/ CloseWrite(w)
  PROVE  ToldInv'
<1> DEFINE j == job'[w]
<1>0. job[w] \in Jobs
  BY DEF ToldInv, TypeInv, TypeOK
<1>1. UNCHANGED <<txnRows, payments, batch>>
  BY DEF RecalcRead, RecalcWrite, CloseRead, CloseWrite
<1>2. \E k : Set(w, k) /\ k.at \in {"recalc", "write", "close"}
  <2>1. CASE RecalcRead(w)
    <3>1. PICK s \in job[w].dirty :
            Set(w, [job[w] EXCEPT !.at = "write", !.target = s, !.paid = Paid(s)])
      BY <2>1 DEF RecalcRead
    <3>2. [job[w] EXCEPT !.at = "write", !.target = s, !.paid = Paid(s)].at = "write"
      BY <1>0 DEF Jobs
    <3> QED
      BY <3>1, <3>2
  <2>2. CASE RecalcWrite(w)
    <3> DEFINE k == [job[w] EXCEPT !.at = "recalc", !.dirty = @ \ {job[w].target}]
    <3>1. Set(w, k)
      BY <2>2 DEF RecalcWrite
    <3>2. k.at = "recalc"
      BY <1>0 DEF Jobs
    <3> QED
      BY <3>1, <3>2
  <2>3. CASE CloseRead(w)
    <3>1. PICK c \in job[w].closing :
            Set(w, IF Settled(c) THEN [job[w] EXCEPT !.at = "close", !.target = c]
                   ELSE [job[w] EXCEPT !.closing = @ \ {c}])
      BY <2>3 DEF CloseRead
    <3>2. job[w].at = "recalc"
      BY <2>3 DEF CloseRead
    <3>3. /\ [job[w] EXCEPT !.at = "close", !.target = c].at = "close"
          /\ [job[w] EXCEPT !.closing = @ \ {c}].at = "recalc"
      BY <1>0, <3>2 DEF Jobs
    <3> QED
      BY <3>1, <3>3
  <2>4. CASE CloseWrite(w)
    <3> DEFINE k == [job[w] EXCEPT !.at = "recalc", !.closing = @ \ {job[w].target}]
    <3>1. Set(w, k)
      BY <2>4 DEF CloseWrite
    <3>2. k.at = "recalc"
      BY <1>0 DEF Jobs
    <3> QED
      BY <3>1, <3>2
  <2> QED
    BY <2>1, <2>2, <2>3, <2>4
<1>3. PICK k : Set(w, k) /\ k.at \in {"recalc", "write", "close"}
  BY <1>2
<1>4. job'[w] = k /\ \A v \in Workers : v # w => job'[v] = job[v]
  BY <1>3, JobSet DEF ToldInv
<1>5. Knows(w)'
  BY <1>3, <1>4 DEF Knows
<1> QED
  BY <1>1, <1>4, <1>5, QuietTold

LEMMA NextTold ==
  ASSUME Separate, "ignore" \notin Ops
  PROVE  ToldInv /\ [Next]_vars => ToldInv'
<1> SUFFICES ASSUME ToldInv, [Next]_vars PROVE ToldInv'
  OBVIOUS
<1>0. TypeInv' /\ Stamped'
  BY NextTyped, NextStamped DEF ToldInv
<1>1. ASSUME NEW w \in Workers, Step(w) PROVE ToldInv'
  <2>1. CASE Respond(w)
    BY <1>0, <2>1, RestTold DEF Respond
  <2> QED
    BY <1>0, <1>1, <2>1, StartAutoTold, AutoStagesTold, AutoNothingTold,
       AutoCommitTold, StartLinkTold, StartUnlinkTold, EraseTold, LinkCommitTold,
       UnlinkCommitTold, RecalcTold DEF Step
<1>2. CASE SyncDelete
  <2>1. PICK t \in live : /\ live' = live \ {t}
                          /\ payments' = {p \in payments : p.txn # t}
    BY <1>2 DEF SyncDelete
  <2>2. UNCHANGED <<match, batch, job>>
    BY <1>2 DEF SyncDelete
  <2>3. \A r \in live' : Of(r)' = Of(r)
    BY <2>1 DEF Of
  <2>4. ASSUME NEW v \in Workers PROVE Knows(v)'
    BY <2>1, <2>2, <2>3, SameKnows DEF ToldInv
  <2>5. ASSUME NEW r \in live' PROVE Told(r)'
    BY <2>1, <2>2, <2>3, SameTold DEF ToldInv
  <2>6. Kept' /\ NeverIgnored'
    BY <2>1, <2>2 DEF ToldInv, Kept, NeverIgnored
  <2> QED
    BY <1>0, <2>4, <2>5, <2>6 DEF ToldInv
<1>3. CASE Crash
  <2>1. UNCHANGED <<txnRows, payments, batch>> /\ \A w \in Workers : job'[w] = Resting
    BY <1>3 DEF Crash
  <2>2. \A w \in Workers : Knows(w)'
    BY <2>1, RestingTyped DEF Knows
  <2>3. ASSUME NEW t \in live' PROVE Told(t)'
    BY <2>1, SameTold DEF ToldInv, Of, txnRows
  <2>4. Kept' /\ NeverIgnored'
    BY <2>1 DEF ToldInv, Kept, NeverIgnored, txnRows
  <2> QED
    BY <1>0, <2>2, <2>3, <2>4 DEF ToldInv
<1>4. CASE UNCHANGED vars
  <2>1. UNCHANGED <<live, match, payments, batch, job>>
    BY <1>4 DEF vars
  <2>2. \A t : Of(t)' = Of(t)
    BY <2>1 DEF Of
  <2>3. ASSUME NEW v \in Workers PROVE Knows(v)'
    BY <2>1, <2>2, SameKnows DEF ToldInv
  <2>4. ASSUME NEW t \in live' PROVE Told(t)'
    BY <2>1, <2>2, SameTold DEF ToldInv
  <2>5. Kept' /\ NeverIgnored'
    BY <2>1 DEF ToldInv, Kept, NeverIgnored
  <2> QED
    BY <1>0, <2>3, <2>4, <2>5 DEF ToldInv
<1>5. ~Ignore
  BY DEF Ignore, Accept
<1> QED
  BY <1>1, <1>2, <1>3, <1>4, <1>5 DEF Next

\* While no two requests serve one transaction and nobody ignores one,
\* matchStatus tells how much of a transaction is allocated, all of it, a part or
\* nothing, at every moment and also over crashes and the deletions of the
\* mirror (autoMatch, linkManual, unlink; detectChanges).
THEOREM TellsAllocated ==
  ASSUME Separate, "ignore" \notin Ops
  PROVE  Spec => []MatchTold
<1>1. ToldInv => MatchTold
  BY DEF ToldInv, MatchTold, Told
<1> QED
  BY InitTold, NextTold, <1>1, PTL DEF Spec

\* Under the same conditions no transaction is allocated beyond its amount: that
\* takes two requests about one transaction, or an ignored row matched again.
THEOREM WithinAmount ==
  ASSUME Separate, "ignore" \notin Ops
  PROVE  Spec => []TxnNotOverspent
<1>1. ToldInv => TxnNotOverspent
  <2> SUFFICES ASSUME ToldInv, NEW t \in live PROVE Allocated(t) <= Amount[t]
    BY DEF TxnNotOverspent
  <2>1. /\ t \in Txns /\ Amount[t] \in Nat
        /\ match[t] \in MatchStatus \ {"IGNORED"}
    BY RequestAssumption DEF ToldInv, TypeInv, TypeOK, NeverIgnored
  <2>2. Told(t) /\ Allocated(t) \in Nat
    <3>1. Of(t) \in SUBSET payments /\ Of(t) \in SUBSET Payment
      BY DEF Of, ToldInv, TypeInv, TypeOK
    <3>2. Total(Of(t)) \in Nat
      BY <3>1, FS_Subset, TotalNat DEF ToldInv, TypeInv
    <3> QED
      BY <3>2, AllocatedOf DEF ToldInv
  <2> QED
    BY <2>1, <2>2 DEF Told, MatchStatus
<1> QED
  BY InitTold, NextTold, <1>1, PTL DEF Spec

-----------------------------------------------------------------------------
(* Stages stay balanced while requests have nothing in common *)

JobsIn(V) == [at : V, op : V, txn : V, plan : V, seen : V, gone : V, dirty : V,
              closing : V, target : V, paid : V]
IsJob(j) == \E V : j \in JobsIn(V)
Shape == /\ job = [w \in Workers |-> job[w]]
         /\ \A w \in Workers : IsJob(job[w])
         /\ stage = [s \in Stages |-> stage[s]]

\* What a request in progress knows, and that it concerns nobody else.
OwnWork(w) ==
  /\ job[w].dirty \subseteq Mine(w) /\ job[w].seen \subseteq Mine(w)
  /\ \A s \in Stages : job[w].plan[s] > 0 => s \in Mine(w)
  /\ job[w].at \in Reading => job[w].txn \in Serves[w]
  /\ \A p \in payments : p.txn \in Serves[w] => p.stage \in Mine(w)
Progress(w) ==
  /\ job[w].at \notin {"recalc", "write"} => job[w].dirty = {}
  /\ job[w].at = "write" => /\ job[w].target \in job[w].dirty
                            /\ job[w].paid = Paid(job[w].target)
  /\ job[w].at = "erase" =>
       \A p \in payments : p.txn = job[w].txn => p.stage \in job[w].seen
  /\ job[w].at \in {"linked", "unlinked"} =>
       \A p \in job[w].gone : p.stage \in job[w].seen
Sound(w) == OwnWork(w) /\ Progress(w)

IInv == /\ Shape
        /\ \A w \in Workers : Sound(w)
        /\ StagesBalanced

\* Room for new values in the fields of a request.
LEMMA Widen ==
  ASSUME NEW j, IsJob(j), NEW X
  PROVE  \E V : X \subseteq V /\ j \in JobsIn(V)
<1>1. PICK U : j \in JobsIn(U)
  BY DEF IsJob
<1>2. j \in JobsIn(U \cup X)
  BY <1>1 DEF JobsIn
<1> QED
  BY <1>2

\* A request that is started is a well-formed record.
LEMMA RestingIsJob ==
  /\ IsJob(Resting)
  /\ Resting.at = "idle" /\ Resting.dirty = {} /\ Resting.seen = {}
  /\ Resting.gone = {} /\ \A s \in Stages : Resting.plan[s] = 0
<1>1. Resting \in JobsIn({"idle", "none", {}, 0, [s \in Stages |-> 0]})
  BY DEF Resting, JobsIn
<1> QED
  BY <1>1 DEF Resting, IsJob

\* Nothing changes for a stage whose payments stay.
LEMMA SamePayments ==
  ASSUME NEW s, {p \in payments' : p.stage = s} = {p \in payments : p.stage = s}
  PROVE  Paid(s)' = Paid(s)
BY DEF Paid

LEMMA InitSound == Init => IInv
<1> SUFFICES ASSUME Init PROVE IInv
  OBVIOUS
<1>1. Shape
  BY RestingIsJob DEF Init, Shape
<1>2. ASSUME NEW w \in Workers PROVE Sound(w)
  BY RestingIsJob DEF Init, Sound, OwnWork, Progress, Reading
<1>3. \A s : Paid(s) = 0
  BY NoPayments DEF Init, Paid
<1>4. StagesBalanced
  BY <1>3 DEF Init, StagesBalanced, Balanced
<1> QED
  BY <1>1, <1>2, <1>4 DEF IInv

\* Setting the state of one request.
LEMMA SetJob ==
  ASSUME Shape, NEW w \in Workers, NEW j, IsJob(j), Set(w, j)
  PROVE  /\ job' = [v \in Workers |-> job'[v]]
         /\ \A v \in Workers : IsJob(job'[v])
         /\ job'[w] = j
         /\ \A v \in Workers : v # w => job'[v] = job[v]
BY DEF Shape, Set

\* A step of one request that leaves the payments and the stages of the others
\* alone keeps what the others know.
LEMMA OthersSound ==
  ASSUME Apart, NEW w \in Workers, NEW v \in Workers, v # w, Sound(v), OwnWork(w),
         job'[v] = job[v],
         \A p \in payments' \ payments : p.txn \in Serves[w] /\ p.stage \in Mine(w),
         \A p \in payments \ payments' : p.stage \in Mine(w)
  PROVE  Sound(v)'
<1>1. OwnWork(v)'
  <2>1. \A p \in payments' : p.txn \in Serves[v] => p.stage \in Mine(v)
    BY DEF Sound, OwnWork, Apart
  <2> QED
    BY <2>1 DEF Sound, OwnWork, Mine
<1>2. ASSUME job[v].at = "write" PROVE Paid(job[v].target)' = Paid(job[v].target)
  <2>1. job[v].target \notin Mine(w)
    BY <1>2 DEF Sound, OwnWork, Progress, Apart
  <2> QED
    BY <2>1, SamePayments
<1>3. ASSUME job[v].at = "erase"
      PROVE  \A p \in payments' : p.txn = job[v].txn => p.stage \in job[v].seen
  BY <1>3 DEF Sound, OwnWork, Progress, Apart, Reading
<1> QED
  BY <1>1, <1>2, <1>3 DEF Sound, Progress

\* What a step of one request has to show: its own knowledge stays sound, it
\* touches payments of its own stages and transactions only, and a stage it
\* has not to recalculate afterwards is as before or balanced anew.
LEMMA StepSound ==
  ASSUME Apart, IInv, NEW w \in Workers,
         Shape', Sound(w)',
         \A v \in Workers : v # w => job'[v] = job[v],
         \A p \in payments' \ payments : p.txn \in Serves[w] /\ p.stage \in Mine(w),
         \A p \in payments \ payments' : p.stage \in Mine(w),
         \A s \in Stages : s \notin job'[w].dirty =>
           \/ Balanced(s)'
           \/ /\ s \notin job[w].dirty /\ stage'[s] = stage[s]
              /\ {p \in payments' : p.stage = s} = {p \in payments : p.stage = s}
  PROVE  IInv'
<1>1. ASSUME NEW v \in Workers PROVE Sound(v)'
  <2>1. CASE v = w
    BY <2>1
  <2>2. CASE v # w
    BY <2>2, OthersSound DEF IInv, Sound
  <2> QED
    BY <2>1, <2>2
<1>2. ASSUME NEW s \in Stages, \A v \in Workers : s \notin job'[v].dirty
      PROVE  Balanced(s)'
  <2> SUFFICES ASSUME /\ s \notin job[w].dirty /\ stage'[s] = stage[s]
                      /\ {p \in payments' : p.stage = s} = {p \in payments : p.stage = s}
               PROVE  Balanced(s)'
    BY <1>2
  <2>1. \A v \in Workers : s \notin job[v].dirty
    BY <1>2
  <2>2. Balanced(s)
    BY <2>1 DEF IInv, StagesBalanced
  <2>3. Paid(s)' = Paid(s)
    BY SamePayments
  <2> QED
    BY <2>2, <2>3 DEF Balanced, StatusAfter
<1>3. StagesBalanced'
  BY <1>2 DEF StagesBalanced
<1> QED
  BY <1>1, <1>3 DEF IInv

\* Steps that write neither payments nor stages and leave the stages to
\* recalculate as they are.
LEMMA QuietStep ==
  ASSUME Apart, IInv, NEW w \in Workers, NEW j, IsJob(j), Set(w, j),
         payments' = payments, stage' = stage, j.dirty = job[w].dirty,
         Sound(w)'
  PROVE  IInv'
<1>1. Shape'
  BY SetJob DEF IInv, Shape
<1>2. job'[w] = j /\ \A v \in Workers : v # w => job'[v] = job[v]
  BY SetJob DEF IInv
<1> QED
  BY <1>1, <1>2, StepSound

LEMMA StartAutoSound ==
  ASSUME Apart, IInv, NEW w \in Workers, StartAuto(w) PROVE IInv'
<1>1. PICK t \in Serves[w] :
        Set(w, [Resting EXCEPT !.at = "stages", !.op = "auto", !.txn = t])
  BY DEF StartAuto
<1> DEFINE j == [Resting EXCEPT !.at = "stages", !.op = "auto", !.txn = t]
<1>2. /\ IsJob(j) /\ j.at = "stages" /\ j.txn = t /\ j.dirty = {} /\ j.seen = {}
      /\ \A s \in Stages : j.plan[s] = 0
  <2>1. PICK V : {"stages", "auto", t} \subseteq V /\ Resting \in JobsIn(V)
    BY RestingIsJob, Widen
  <2>2. j \in JobsIn(V) /\ j.at = "stages" /\ j.txn = t /\ j.dirty = Resting.dirty
        /\ j.seen = Resting.seen /\ j.plan = Resting.plan
    BY <2>1 DEF JobsIn
  <2> QED
    BY <2>2, RestingIsJob DEF IsJob
<1>3. job'[w] = j
  BY <1>1, <1>2, SetJob DEF IInv
<1>4. job[w].at = "idle" /\ payments' = payments /\ stage' = stage
  BY DEF StartAuto
<1>5. Sound(w) /\ job[w].dirty = {}
  BY <1>4 DEF IInv, Sound, Progress
<1>6. Sound(w)'
  BY <1>2, <1>3, <1>4, <1>5 DEF Sound, OwnWork, Progress, Mine
<1> HIDE DEF j
<1> QED
  BY <1>1, <1>2, <1>4, <1>5, <1>6, QuietStep DEF j

LEMMA AutoStagesSound ==
  ASSUME Apart, IInv, NEW w \in Workers, AutoStages(w) PROVE IInv'
<1> DEFINE t == job[w].txn
           open == Open(Payer[t])
           j == IF open = {} THEN [job[w] EXCEPT !.at = "nothing"]
                ELSE [job[w] EXCEPT !.at = "commit", !.plan = Plan(t, open)]
<1>1. job[w].at = "stages" /\ Set(w, j) /\ payments' = payments /\ stage' = stage
  BY DEF AutoStages
<1>2. Sound(w) /\ job[w].dirty = {} /\ t \in Serves[w]
  BY <1>1 DEF IInv, Sound, Progress, OwnWork, Reading
<1>3. \A s \in Stages : Plan(t, open)[s] > 0 => s \in Mine(w)
  <2> SUFFICES ASSUME NEW s \in Stages, Plan(t, open)[s] > 0 PROVE s \in Mine(w)
    OBVIOUS
  <2>1. s \in open
    BY DEF Plan
  <2> QED
    BY <2>1, <1>2 DEF Open, Mine
<1>4. /\ IsJob(j) /\ j.at \in {"nothing", "commit"} /\ j.txn = t
      /\ j.dirty = job[w].dirty /\ j.seen = job[w].seen
      /\ j.plan \in {job[w].plan, Plan(t, open)}
  <2>1. PICK V : /\ {"nothing", "commit", Plan(t, open)} \subseteq V
                 /\ job[w] \in JobsIn(V)
    BY Widen DEF IInv, Shape
  <2>2. CASE open = {}
    BY <2>1, <2>2 DEF JobsIn, IsJob
  <2>3. CASE open # {}
    BY <2>1, <2>3 DEF JobsIn, IsJob
  <2> QED
    BY <2>2, <2>3
<1> HIDE DEF j
<1>5. job'[w] = j
  BY <1>1, <1>4, SetJob DEF IInv
<1>6. Sound(w)'
  BY <1>1, <1>2, <1>3, <1>4, <1>5 DEF Sound, OwnWork, Progress, Mine, Reading
<1> QED
  BY <1>1, <1>4, <1>6, QuietStep

\* Back to rest, when nothing is left to recalculate.
LEMMA RestSound ==
  ASSUME Apart, IInv, NEW w \in Workers, Rest(w), payments' = payments,
         stage' = stage, job[w].dirty = {}
  PROVE  IInv'
<1>1. Set(w, Resting)
  BY DEF Rest
<1>2. job'[w] = Resting
  BY <1>1, RestingIsJob, SetJob DEF IInv
<1>3. Sound(w)'
  BY <1>2, RestingIsJob DEF IInv, Sound, OwnWork, Progress, Mine, Reading
<1> QED
  BY <1>1, <1>3, RestingIsJob, QuietStep

\* A commit: the rows it removes lie in stages that were read, the rows it
\* adds in stages of the plan, and all of these are to be recalculated.
LEMMA CommitSound ==
  ASSUME Apart, IInv, NEW w \in Workers, NEW dirty, NEW closing,
         job[w].at \in Reading, job[w].dirty = {},
         Recalculate(w, dirty, closing), stage' = stage, dirty \subseteq Mine(w),
         \A p \in payments' \ payments : p.txn \in Serves[w] /\ p.stage \in dirty,
         \A p \in payments \ payments' : p.stage \in dirty
  PROVE  IInv'
<1> DEFINE j == [job[w] EXCEPT !.at = "recalc", !.dirty = dirty, !.closing = closing,
                               !.gone = {}]
<1>1. /\ IsJob(j) /\ j.at = "recalc" /\ j.dirty = dirty /\ j.seen = job[w].seen
      /\ j.plan = job[w].plan
  <2> DEFINE news == {"recalc", dirty, closing, {}}
  <2>1. PICK V : news \subseteq V /\ job[w] \in JobsIn(V)
    <3>1. IsJob(job[w])
      BY DEF IInv, Shape
    <3> HIDE DEF news
    <3> QED
      BY <3>1, Widen
  <2>2. j \in JobsIn(V)
    BY <2>1 DEF JobsIn
  <2>3. /\ j.at = "recalc" /\ j.dirty = dirty
        /\ j.seen = job[w].seen /\ j.plan = job[w].plan
    BY <2>1 DEF JobsIn
  <2> QED
    BY <2>2, <2>3 DEF IsJob
<1>2. Set(w, j)
  BY DEF Recalculate
<1> HIDE DEF j
<1>3. Shape' /\ job'[w] = j /\ \A v \in Workers : v # w => job'[v] = job[v]
  BY <1>1, <1>2, SetJob DEF IInv, Shape
<1>4. OwnWork(w)
  BY DEF IInv, Sound
<1>5. Sound(w)'
  BY <1>1, <1>3, <1>4 DEF Sound, OwnWork, Progress, Mine, Reading
<1> QED
  BY <1>1, <1>3, <1>5, StepSound

LEMMA AutoCommitSound ==
  ASSUME Apart, IInv, NEW w \in Workers, AutoCommit(w) PROVE IInv'
<1> DEFINE t == job[w].txn
           paid == {s \in Stages : job[w].plan[s] > 0}
<1>1. job[w].at = "commit" /\ stage' = stage
  BY DEF AutoCommit
<1>2. job[w].dirty = {} /\ t \in Serves[w] /\ paid \subseteq Mine(w)
  BY <1>1 DEF IInv, Sound, Progress, OwnWork, Reading
<1>3. CASE t \in live
  <2>1. /\ payments' = payments \cup Rows(t, job[w].plan)
        /\ Recalculate(w, paid, {ContractOf[s] : s \in paid})
    BY <1>3 DEF AutoCommit
  <2>2. \A p \in payments' \ payments : p.txn \in Serves[w] /\ p.stage \in paid
    BY <2>1, <1>2, RowsOfPlan
  <2> QED
    BY <2>1, <2>2, <1>1, <1>2, CommitSound DEF Reading
<1>4. CASE t \notin live
  BY <1>1, <1>2, <1>4, RestSound DEF AutoCommit
<1> QED
  BY <1>3, <1>4

LEMMA StartLinkSound ==
  ASSUME Apart, IInv, NEW w \in Workers, StartLink(w) PROVE IInv'
<1>0. PICK t \in Serves[w] :
        \E plan \in [Stages -> 0 .. Amount[t]] :
          /\ \A s \in Stages : plan[s] > 0 => s \in Reach[w]
          /\ Set(w, [Resting EXCEPT !.at = "erase", !.op = "link", !.txn = t,
                       !.plan = plan,
                       !.seen = {p.stage : p \in {q \in payments : q.txn = t}}])
  BY DEF StartLink
<1>1. PICK plan :
        /\ \A s \in Stages : plan[s] > 0 => s \in Reach[w]
        /\ Set(w, [Resting EXCEPT !.at = "erase", !.op = "link", !.txn = t,
                     !.plan = plan,
                     !.seen = {p.stage : p \in {q \in payments : q.txn = t}}])
  BY <1>0
<1> DEFINE seen == {p.stage : p \in {q \in payments : q.txn = t}}
           j == [Resting EXCEPT !.at = "erase", !.op = "link", !.txn = t,
                   !.plan = plan, !.seen = seen]
<1>2. IsJob(j) /\ j.at = "erase" /\ j.txn = t /\ j.dirty = {} /\ j.seen = seen
      /\ j.plan = plan
  <2>1. PICK V : {"erase", "link", t, plan, seen} \subseteq V /\ Resting \in JobsIn(V)
    BY RestingIsJob, Widen
  <2>2. j \in JobsIn(V)
    BY <2>1 DEF JobsIn
  <2>3. j.at = "erase" /\ j.txn = t /\ j.dirty = Resting.dirty /\ j.seen = seen
        /\ j.plan = plan
    BY <2>1 DEF JobsIn
  <2> QED
    BY <2>2, <2>3, RestingIsJob DEF IsJob
<1> HIDE DEF j
<1>3. job'[w] = j
  BY <1>1, <1>2, SetJob DEF IInv, j
<1>4. job[w].at = "idle" /\ payments' = payments /\ stage' = stage
  BY DEF StartLink
<1>5. Sound(w) /\ job[w].dirty = {}
  BY <1>4 DEF IInv, Sound, Progress
<1>6. seen \subseteq Mine(w)
  BY <1>5 DEF Sound, OwnWork
<1>7. OwnWork(w)'
  BY <1>1, <1>2, <1>3, <1>4, <1>5, <1>6 DEF Sound, OwnWork, Mine
<1>8. Progress(w)'
  BY <1>2, <1>3, <1>4 DEF Progress
<1> QED
  BY <1>1, <1>2, <1>4, <1>5, <1>7, <1>8, QuietStep DEF j, Sound

LEMMA StartUnlinkSound ==
  ASSUME Apart, IInv, NEW w \in Workers, StartUnlink(w) PROVE IInv'
<1>1. PICK t \in Serves[w] :
        Set(w, [Resting EXCEPT !.at = "erase", !.op = "unlink", !.txn = t,
                  !.seen = {p.stage : p \in {q \in payments : q.txn = t}}])
  BY DEF StartUnlink
<1> DEFINE seen == {p.stage : p \in {q \in payments : q.txn = t}}
           j == [Resting EXCEPT !.at = "erase", !.op = "unlink", !.txn = t,
                   !.seen = seen]
<1>2. IsJob(j) /\ j.at = "erase" /\ j.txn = t /\ j.dirty = {} /\ j.seen = seen
      /\ \A s \in Stages : j.plan[s] = 0
  <2>1. PICK V : {"erase", "unlink", t, seen} \subseteq V /\ Resting \in JobsIn(V)
    BY RestingIsJob, Widen
  <2>2. j \in JobsIn(V)
    BY <2>1 DEF JobsIn
  <2>3. j.at = "erase" /\ j.txn = t /\ j.dirty = Resting.dirty /\ j.seen = seen
        /\ j.plan = Resting.plan
    BY <2>1 DEF JobsIn
  <2> QED
    BY <2>2, <2>3, RestingIsJob DEF IsJob
<1> HIDE DEF j
<1>3. job'[w] = j
  BY <1>1, <1>2, SetJob DEF IInv, j
<1>4. job[w].at = "idle" /\ payments' = payments /\ stage' = stage
  BY DEF StartUnlink
<1>5. Sound(w) /\ job[w].dirty = {}
  BY <1>4 DEF IInv, Sound, Progress
<1>6. seen \subseteq Mine(w)
  BY <1>5 DEF Sound, OwnWork
<1>7. OwnWork(w)'
  BY <1>1, <1>2, <1>3, <1>4, <1>5, <1>6 DEF Sound, OwnWork, Mine
<1>8. Progress(w)'
  BY <1>2, <1>3, <1>4 DEF Progress
<1> QED
  BY <1>1, <1>2, <1>4, <1>5, <1>7, <1>8, QuietStep DEF j, Sound

\* deleteMany finds rows of stages that were read: nobody else pays with the
\* transaction meanwhile.
LEMMA EraseSound ==
  ASSUME Apart, IInv, NEW w \in Workers, Erase(w) PROVE IInv'
<1> DEFINE at == IF job[w].op = "link" THEN "linked" ELSE "unlinked"
           gone == IF job[w].op = "link" /\ job[w].seen = {} THEN {}
                   ELSE {p \in payments : p.txn = job[w].txn}
           j == [job[w] EXCEPT !.at = at, !.gone = gone]
<1>1. job[w].at = "erase" /\ Set(w, j) /\ payments' = payments /\ stage' = stage
  BY DEF Erase
<1>2. Sound(w) /\ job[w].dirty = {}
  BY <1>1 DEF IInv, Sound, Progress
<1>3. \A p \in gone : p.stage \in job[w].seen
  BY <1>1, <1>2 DEF Sound, Progress
<1>4. IsJob(j) /\ j.at = at /\ j.txn = job[w].txn /\ j.dirty = job[w].dirty
      /\ j.seen = job[w].seen /\ j.plan = job[w].plan /\ j.gone = gone
  <2> HIDE DEF at, gone
  <2>1. PICK V : {at, gone} \subseteq V /\ job[w] \in JobsIn(V)
    BY Widen DEF IInv, Shape
  <2>2. j \in JobsIn(V)
    BY <2>1 DEF JobsIn
  <2>3. j.at = at /\ j.txn = job[w].txn /\ j.dirty = job[w].dirty
        /\ j.seen = job[w].seen /\ j.plan = job[w].plan /\ j.gone = gone
    BY <2>1 DEF JobsIn
  <2> QED
    BY <2>2, <2>3 DEF IsJob
<1>5. at \in {"linked", "unlinked"}
  OBVIOUS
<1> HIDE DEF j, at, gone
<1>6. job'[w] = j
  BY <1>1, <1>4, SetJob DEF IInv
<1>7. Sound(w)'
  BY <1>1, <1>2, <1>3, <1>4, <1>5, <1>6 DEF Sound, OwnWork, Progress, Mine, Reading
<1> QED
  BY <1>1, <1>4, <1>7, QuietStep

LEMMA LinkCommitSound ==
  ASSUME Apart, IInv, NEW w \in Workers, LinkCommit(w) PROVE IInv'
<1> DEFINE t == job[w].txn
<1>1. job[w].at = "linked" /\ stage' = stage
  BY DEF LinkCommit
<1>2. /\ job[w].dirty = {} /\ t \in Serves[w]
      /\ Affected(w) \subseteq Mine(w)
      /\ \A p \in job[w].gone : p.stage \in Affected(w)
  BY <1>1 DEF IInv, Sound, Progress, OwnWork, Reading, Affected
<1>3. CASE t \in live
  <2>1. /\ payments' = (payments \ job[w].gone) \cup Rows(t, job[w].plan)
        /\ Recalculate(w, Affected(w), {})
    BY <1>3 DEF LinkCommit
  <2>2. \A p \in payments' \ payments : p.txn \in Serves[w] /\ p.stage \in Affected(w)
    BY <2>1, <1>2, RowsOfPlan DEF Affected
  <2>3. \A p \in payments \ payments' : p.stage \in Affected(w)
    BY <2>1, <1>2
  <2> HIDE DEF t
  <2> QED
    BY <2>1, <2>2, <2>3, <1>1, <1>2, CommitSound DEF Reading
<1>4. CASE t \notin live
  BY <1>1, <1>2, <1>4, RestSound DEF LinkCommit
<1> QED
  BY <1>3, <1>4

LEMMA UnlinkCommitSound ==
  ASSUME Apart, IInv, NEW w \in Workers, UnlinkCommit(w) PROVE IInv'
<1>1. job[w].at = "unlinked" /\ stage' = stage
  BY DEF UnlinkCommit
<1>2. /\ job[w].dirty = {} /\ job[w].seen \subseteq Mine(w)
      /\ \A p \in job[w].gone : p.stage \in job[w].seen
  BY <1>1 DEF IInv, Sound, Progress, OwnWork
<1>3. CASE job[w].txn \in live
  <2>1. payments' = payments \ job[w].gone /\ Recalculate(w, job[w].seen, {})
    BY <1>3 DEF UnlinkCommit
  <2> QED
    BY <2>1, <1>1, <1>2, CommitSound DEF Reading
<1>4. CASE job[w].txn \notin live
  BY <1>1, <1>2, <1>4, RestSound DEF UnlinkCommit
<1> QED
  BY <1>3, <1>4

LEMMA RecalcReadSound ==
  ASSUME Apart, IInv, NEW w \in Workers, RecalcRead(w) PROVE IInv'
<1>1. PICK s \in job[w].dirty :
        Set(w, [job[w] EXCEPT !.at = "write", !.target = s, !.paid = Paid(s)])
  BY DEF RecalcRead
<1> DEFINE j == [job[w] EXCEPT !.at = "write", !.target = s, !.paid = Paid(s)]
<1>2. payments' = payments /\ stage' = stage
  BY DEF RecalcRead
<1>3. IsJob(j) /\ j.at = "write" /\ j.target = s /\ j.paid = Paid(s)
      /\ j.dirty = job[w].dirty /\ j.seen = job[w].seen /\ j.plan = job[w].plan
  <2>1. PICK V : {"write", s, Paid(s)} \subseteq V /\ job[w] \in JobsIn(V)
    BY Widen DEF IInv, Shape
  <2>2. j \in JobsIn(V)
    BY <2>1 DEF JobsIn
  <2>3. j.at = "write" /\ j.target = s /\ j.paid = Paid(s)
        /\ j.dirty = job[w].dirty /\ j.seen = job[w].seen /\ j.plan = job[w].plan
    BY <2>1 DEF JobsIn
  <2> QED
    BY <2>2, <2>3 DEF IsJob
<1> HIDE DEF j
<1>4. job'[w] = j
  BY <1>1, <1>3, SetJob DEF IInv, j
<1>5. OwnWork(w)'
  BY <1>2, <1>3, <1>4 DEF IInv, Sound, OwnWork, Mine, Reading
<1>6. Paid(s)' = Paid(s)
  BY <1>2, SamePayments
<1>7. Progress(w)'
  BY <1>3, <1>4, <1>6 DEF Progress
<1> QED
  BY <1>1, <1>2, <1>3, <1>5, <1>7, QuietStep DEF j, Sound

\* The write leaves the stage balanced: its payments are still those summed.
LEMMA RecalcWriteSound ==
  ASSUME Apart, IInv, NEW w \in Workers, RecalcWrite(w) PROVE IInv'
<1> DEFINE s == job[w].target
           j == [job[w] EXCEPT !.at = "recalc", !.dirty = job[w].dirty \ {s}]
<1>1. job[w].at = "write" /\ payments' = payments /\ Set(w, j)
      /\ stage' = [stage EXCEPT ![s] = [paid |-> job[w].paid,
                                        status |-> StatusAfter(s, job[w].paid)]]
  BY DEF RecalcWrite
<1>2. IsJob(j) /\ j.at = "recalc" /\ j.dirty = job[w].dirty \ {s}
      /\ j.seen = job[w].seen /\ j.plan = job[w].plan
  <2>1. PICK V : {"recalc", job[w].dirty \ {s}} \subseteq V /\ job[w] \in JobsIn(V)
    BY Widen DEF IInv, Shape
  <2>2. j \in JobsIn(V)
    BY <2>1 DEF JobsIn
  <2>3. j.at = "recalc" /\ j.dirty = job[w].dirty \ {s}
        /\ j.seen = job[w].seen /\ j.plan = job[w].plan
    BY <2>1 DEF JobsIn
  <2> QED
    BY <2>2, <2>3 DEF IsJob
<1> HIDE DEF j
<1>3. job'[w] = j /\ Shape' /\ \A v \in Workers : v # w => job'[v] = job[v]
  BY <1>1, <1>2, SetJob DEF IInv, Shape
<1>4. Sound(w)'
  BY <1>1, <1>2, <1>3 DEF IInv, Sound, OwnWork, Progress, Mine, Reading
<1>5. job[w].paid = Paid(s)
  BY <1>1 DEF IInv, Sound, Progress
<1>6. ASSUME NEW r \in Stages, r \notin j.dirty
      PROVE  \/ Balanced(r)'
             \/ r \notin job[w].dirty /\ stage'[r] = stage[r]
  <2>1. CASE r = s
    <3>1. stage'[r] = [paid |-> Paid(r), status |-> StatusAfter(r, Paid(r))]
      BY <1>1, <1>5, <2>1 DEF IInv, Shape
    <3>2. Paid(r)' = Paid(r)
      BY <1>1, SamePayments
    <3> QED
      BY <3>1, <3>2 DEF Balanced, StatusAfter
  <2>2. CASE r # s
    BY <1>1, <1>2, <1>6, <2>2 DEF IInv, Shape
  <2> QED
    BY <2>1, <2>2
<1> QED
  BY <1>1, <1>3, <1>4, <1>6, StepSound

\* recalcContract leaves the payments and the stages alone.
LEMMA CloseSound ==
  ASSUME Apart, IInv, NEW w \in Workers, NEW j, IsJob(j), Set(w, j),
         payments' = payments, stage' = stage, job[w].dirty = {},
         j.at \in {"recalc", "close"}, j.dirty = job[w].dirty,
         j.seen = job[w].seen, j.plan = job[w].plan
  PROVE  IInv'
<1>1. job'[w] = j
  BY SetJob DEF IInv
<1>2. Sound(w)'
  BY <1>1 DEF IInv, Sound, OwnWork, Progress, Mine, Reading
<1> QED
  BY <1>2, QuietStep

LEMMA CloseReadSound ==
  ASSUME Apart, IInv, NEW w \in Workers, CloseRead(w) PROVE IInv'
<1>1. PICK c \in job[w].closing :
        Set(w, IF Settled(c) THEN [job[w] EXCEPT !.at = "close", !.target = c]
               ELSE [job[w] EXCEPT !.closing = job[w].closing \ {c}])
  BY DEF CloseRead
<1> DEFINE rest == job[w].closing \ {c}
           j == [job[w] EXCEPT !.at = "close", !.target = c]
           k == [job[w] EXCEPT !.closing = rest]
<1>2. /\ job[w].at = "recalc" /\ job[w].dirty = {}
      /\ payments' = payments /\ stage' = stage
  BY DEF CloseRead
<1>3. PICK V : {"close", c, rest} \subseteq V /\ job[w] \in JobsIn(V)
  BY Widen DEF IInv, Shape
<1>4. /\ j \in JobsIn(V) /\ j.at = "close" /\ j.dirty = job[w].dirty
      /\ j.seen = job[w].seen /\ j.plan = job[w].plan
  BY <1>3 DEF JobsIn
<1>5. /\ k \in JobsIn(V) /\ k.at = job[w].at /\ k.dirty = job[w].dirty
      /\ k.seen = job[w].seen /\ k.plan = job[w].plan
  BY <1>3 DEF JobsIn
<1>6. Set(w, j) \/ Set(w, k)
  BY <1>1
<1> HIDE DEF j, k
<1> QED
  BY <1>2, <1>4, <1>5, <1>6, CloseSound DEF IsJob

LEMMA CloseWriteSound ==
  ASSUME Apart, IInv, NEW w \in Workers, CloseWrite(w) PROVE IInv'
<1> DEFINE rest == job[w].closing \ {job[w].target}
           j == [job[w] EXCEPT !.at = "recalc", !.closing = rest]
<1>1. /\ job[w].dirty = {} /\ payments' = payments /\ stage' = stage /\ Set(w, j)
  BY DEF CloseWrite, IInv, Sound, Progress
<1>2. PICK V : {"recalc", rest} \subseteq V /\ job[w] \in JobsIn(V)
  BY Widen DEF IInv, Shape
<1>3. /\ j \in JobsIn(V) /\ j.at = "recalc" /\ j.dirty = job[w].dirty
      /\ j.seen = job[w].seen /\ j.plan = job[w].plan
  BY <1>2 DEF JobsIn
<1> HIDE DEF j
<1> QED
  BY <1>1, <1>3, CloseSound DEF IsJob

LEMMA StepKeeps ==
  ASSUME Apart, IInv, NEW w \in Workers, Step(w) PROVE IInv'
<1>1. CASE AutoNothing(w)
  <2>1. job[w].dirty = {}
    BY <1>1 DEF AutoNothing, IInv, Sound, Progress
  <2> QED
    BY <1>1, <2>1, RestSound DEF AutoNothing
<1>2. CASE Respond(w)
  BY <1>2, RestSound DEF Respond
<1> QED
  BY <1>1, <1>2, StartAutoSound, AutoStagesSound, AutoCommitSound, StartLinkSound,
     StartUnlinkSound, EraseSound, LinkCommitSound, UnlinkCommitSound,
     RecalcReadSound, RecalcWriteSound, CloseReadSound,
     CloseWriteSound DEF Step

\* Steps that touch none of the payments, stages and requests.
LEMMA Untouched ==
  ASSUME IInv, UNCHANGED <<payments, stage, job>> PROVE IInv'
<1>1. \A s : Paid(s)' = Paid(s)
  BY DEF Paid
<1>2. Shape'
  BY DEF IInv, Shape
<1>3. ASSUME NEW w \in Workers PROVE Sound(w)'
  BY <1>1 DEF IInv, Sound, OwnWork, Progress, Mine, Reading
<1>4. StagesBalanced'
  BY <1>1 DEF IInv, StagesBalanced, Balanced, StatusAfter
<1> QED
  BY <1>2, <1>3, <1>4 DEF IInv

LEMMA NextSound ==
  ASSUME Apart, Ops \cap {"delete", "crash"} = {}
  PROVE  IInv /\ [Next]_vars => IInv'
<1> SUFFICES ASSUME IInv, [Next]_vars PROVE IInv'
  OBVIOUS
<1>1. CASE \E w \in Workers : Step(w)
  BY <1>1, StepKeeps
<1>2. CASE Ignore
  BY <1>2, Untouched DEF Ignore
<1>3. CASE UNCHANGED vars
  BY <1>3, Untouched DEF vars
<1>4. ~SyncDelete /\ ~Crash
  BY DEF SyncDelete, Crash, Accept
<1> QED
  BY <1>1, <1>2, <1>3, <1>4 DEF Next

\* While requests have no stage and no transaction in common, no mirrored row is
\* deleted and the server stays up, a stage that no request has still to
\* recalculate shows the sum of its payments (recalcStage after autoMatch,
\* linkManual and unlink).
THEOREM BalancedWhenApart ==
  ASSUME Apart, Ops \cap {"delete", "crash"} = {}
  PROVE  Spec => []StagesBalanced
<1>1. IInv => StagesBalanced
  BY DEF IInv
<1> QED
  BY InitSound, NextSound, <1>1, PTL DEF Spec

-----------------------------------------------------------------------------
(* autoMatch pays in order, within the price, and closes what is paid up *)

Bought(w) == {ContractOf[s] : s \in {r \in Stages : job[w].plan[r] > 0}}
Closing == {"recalc", "write", "close"}

Roles(w) ==
  /\ job[w].at \in {"stages", "nothing", "commit"} => job[w].op = "auto"
  /\ job[w].at \in {"erase", "linked", "unlinked"} => job[w].op # "auto"
  /\ job[w].op # "auto" => job[w].closing = {}

\* What the plan of autoMatch promises until it is committed.
Allots(w) ==
  job[w].at = "commit" =>
    /\ \A s \in Stages : job[w].plan[s] > 0 =>
         stage[s].paid + job[w].plan[s] <= Price[s]
    /\ \A r \in Open(Payer[job[w].txn]), s \in Stages :
         Rank[r] < Rank[s] /\ job[w].plan[s] > 0 =>
           stage[r].paid + job[w].plan[r] >= Price[r]
    /\ \A c \in Bought(w) : Owner[c] = Payer[job[w].txn] /\ contract[c] # "COMPLETED"

\* Contracts still to close are open; of the others autoMatch has paid into,
\* those that are paid up are closed.
Closes(w) ==
  job[w].op = "auto" /\ job[w].at \in Closing =>
    /\ job[w].txn \in Serves[w] /\ job[w].closing \subseteq Bought(w)
    /\ \A c \in Bought(w) : Owner[c] = Payer[job[w].txn]
    /\ job[w].dirty # {} => job[w].closing = Bought(w)
    /\ \A c \in job[w].closing : contract[c] # "COMPLETED"
    /\ \A c \in Bought(w) : c \notin job[w].closing =>
         (contract[c] = "COMPLETED" <=> PaidUp(c))
    /\ job[w].at = "close" => Settled(job[w].target)

Honest == \A s \in Stages : stage[s].status = "PAID" => stage[s].paid >= Price[s]

PayInv == /\ TypeInv /\ Stamped /\ IInv /\ Honest
          /\ \A w \in Workers : Roles(w) /\ Allots(w) /\ Closes(w)

LEMMA InitPays == Init => PayInv
<1> SUFFICES ASSUME Init PROVE PayInv
  OBVIOUS
<1>1. ASSUME NEW w \in Workers PROVE Roles(w) /\ Allots(w) /\ Closes(w)
  <2>1. job[w] = Resting /\ Resting.closing = {}
    BY DEF Init, Resting
  <2> QED
    BY <2>1, RestingTyped DEF Roles, Allots, Closes
<1>2. Honest /\ Stamped
  BY DEF Init, Honest, Stamped
<1> QED
  BY <1>1, <1>2, InitTyped, InitSound DEF PayInv

\* A request writes stages and payments of its own, and closes contracts of the
\* customers it serves.
LEMMA OwnStages ==
  ASSUME PayInv, NEW w \in Workers, Step(w), NEW s \in Stages, s \notin Mine(w)
  PROVE  stage'[s] = stage[s] /\ Paid(s)' = Paid(s)
<1>0. Sound(w) /\ OwnWork(w) /\ Progress(w)
  BY DEF PayInv, IInv, Sound
<1>1. stage'[s] = stage[s]
  <2>1. CASE RecalcWrite(w)
    <3>1. job[w].target # s
      BY <1>0, <2>1 DEF RecalcWrite, OwnWork, Progress
    <3> QED
      BY <2>1, <3>1 DEF RecalcWrite, PayInv, TypeInv, TypeOK
  <2>2. CASE ~RecalcWrite(w)
    BY <2>2 DEF Step, StartAuto, AutoStages, AutoNothing, AutoCommit, StartLink,
       StartUnlink, Erase, LinkCommit, UnlinkCommit, RecalcRead, CloseRead, CloseWrite,
       Respond
  <2> QED
    BY <2>1, <2>2
<1>2. \A p \in Rows(job[w].txn, job[w].plan) : p.stage \in Mine(w)
  BY <1>0, RowsOfPlan DEF OwnWork
<1>3. job[w].at \in {"linked", "unlinked"} => \A p \in job[w].gone : p.stage \in Mine(w)
  BY <1>0 DEF OwnWork, Progress
<1>4. {p \in payments' : p.stage = s} = {p \in payments : p.stage = s}
  <2>1. CASE AutoCommit(w)
    <3>1. \/ payments' = payments \cup Rows(job[w].txn, job[w].plan)
          \/ payments' = payments
      BY <2>1 DEF AutoCommit
    <3> QED
      BY <1>2, <3>1
  <2>2. CASE LinkCommit(w)
    <3>1. \/ payments' = (payments \ job[w].gone) \cup Rows(job[w].txn, job[w].plan)
          \/ payments' = payments
      BY <2>2 DEF LinkCommit
    <3>2. job[w].at = "linked"
      BY <2>2 DEF LinkCommit
    <3> QED
      BY <1>2, <1>3, <3>1, <3>2
  <2>3. CASE UnlinkCommit(w)
    <3>1. payments' = payments \ job[w].gone \/ payments' = payments
      BY <2>3 DEF UnlinkCommit
    <3>2. job[w].at = "unlinked"
      BY <2>3 DEF UnlinkCommit
    <3> QED
      BY <1>3, <3>1, <3>2
  <2>4. CASE ~AutoCommit(w) /\ ~LinkCommit(w) /\ ~UnlinkCommit(w)
    BY <2>4 DEF Step, StartAuto, AutoStages, AutoNothing, StartLink, StartUnlink,
       Erase, RecalcRead, RecalcWrite, CloseRead, CloseWrite, Respond
  <2> QED
    BY <2>1, <2>2, <2>3, <2>4
<1> QED
  BY <1>1, <1>4, SamePayments

LEMMA OwnContracts ==
  ASSUME PayInv, NEW w \in Workers, Step(w), NEW c \in Contracts
  PROVE  \/ contract'[c] = contract[c]
         \/ contract'[c] = "COMPLETED" /\ \E t \in Serves[w] : Owner[c] = Payer[t]
<1>1. CASE CloseWrite(w)
  <2>1. job[w].at = "close" /\ contract' = [contract EXCEPT ![job[w].target] = "COMPLETED"]
    BY <1>1 DEF CloseWrite
  <2>2. job[w].target \in job[w].closing /\ Roles(w) /\ Closes(w)
    BY <2>1 DEF PayInv, TypeInv, Aimed
  <2>3. \E t \in Serves[w] : Owner[job[w].target] = Payer[t]
    BY <2>1, <2>2 DEF Roles, Closes, Closing
  <2>4. contract'[c] = IF c = job[w].target THEN "COMPLETED" ELSE contract[c]
    BY <2>1 DEF PayInv, TypeInv, TypeOK
  <2> QED
    BY <2>3, <2>4
<1>2. CASE ~CloseWrite(w)
  BY <1>2 DEF Step, StartAuto, AutoStages, AutoNothing, AutoCommit, StartLink,
     StartUnlink, Erase, LinkCommit, UnlinkCommit, RecalcRead, RecalcWrite, CloseRead,
     Respond
<1> QED
  BY <1>1, <1>2

LEMMA OthersPay ==
  ASSUME Apart, PayInv, NEW w \in Workers, Step(w), NEW v \in Workers, v # w,
         job'[v] = job[v]
  PROVE  Roles(v)' /\ Allots(v)' /\ Closes(v)'
<1>0. Roles(v) /\ Allots(v) /\ Closes(v) /\ OwnWork(v) /\ Aimed(v)
  BY DEF PayInv, TypeInv, IInv, Sound
<1>1. PICK t : t = job[v].txn
  OBVIOUS
<1>2. \A s \in Mine(v) : s \in Stages /\ s \notin Mine(w)
  BY RequestAssumption DEF Apart, Mine
<1>3. \A s \in Mine(v) : stage'[s] = stage[s] /\ Paid(s)' = Paid(s)
  BY <1>2, OwnStages
<1>4. Bought(v)' = Bought(v)
  BY DEF Bought
<1>5. \A s \in Stages : t \in Serves[v] /\ Owner[ContractOf[s]] = Payer[t] => s \in Mine(v)
  BY DEF Mine
<1>6. \A c \in Bought(v) : c \in Contracts /\ \E s \in Stages : c = ContractOf[s]
  BY ContractAssumption DEF Bought
<1>7. ASSUME t \in Serves[v], NEW c \in Bought(v), Owner[c] = Payer[t]
      PROVE  contract'[c] = contract[c]
  <2>1. PICK s \in Stages : c = ContractOf[s]
    BY <1>6
  <2>2. s \notin Mine(w)
    BY <1>2, <1>5, <1>7, <2>1
  <2>3. ~\E u \in Serves[w] : Owner[c] = Payer[u]
    BY <2>1, <2>2 DEF Mine
  <2> QED
    BY <1>6, <2>3, OwnContracts
<1>8. Roles(v)'
  BY <1>0 DEF Roles
<1>9. Allots(v)'
  <2> SUFFICES ASSUME job[v].at = "commit" PROVE Allots(v)'
    BY DEF Allots
  <2>1. t \in Serves[v]
    BY <1>0, <1>1 DEF Aimed, Reading
  <2>2. ASSUME NEW r \in Open(Payer[t])' PROVE r \in Open(Payer[t]) /\ r \in Mine(v)
    <3>1. /\ r \in Stages /\ Owner[ContractOf[r]] = Payer[t]
          /\ contract'[ContractOf[r]] \in {"ACTIVE", "SUSPENDED"}
          /\ stage'[r].status # "PAID"
      BY DEF Open
    <3>2. r \in Mine(v)
      BY <1>5, <2>1, <3>1
    <3>3. contract'[ContractOf[r]] = contract[ContractOf[r]]
      BY <3>1, OwnContracts, ContractAssumption
    <3> QED
      BY <1>3, <3>1, <3>2, <3>3 DEF Open
  <2>3. \A s \in Stages : job[v].plan[s] > 0 => s \in Mine(v)
    BY <1>0 DEF OwnWork
  <2>4. \A s \in Stages : job[v].plan[s] > 0 => stage'[s].paid + job[v].plan[s] <= Price[s]
    BY <1>0, <1>3, <2>3 DEF Allots
  <2>5. \A r \in Open(Payer[t])', s \in Stages :
          Rank[r] < Rank[s] /\ job[v].plan[s] > 0 =>
            stage'[r].paid + job[v].plan[r] >= Price[r]
    BY <1>0, <1>1, <1>3, <2>2 DEF Allots
  <2>6. \A c \in Bought(v) : Owner[c] = Payer[t] /\ contract'[c] # "COMPLETED"
    BY <1>0, <1>1, <1>7, <2>1 DEF Allots
  <2>7. Open(Payer[t])' = Open(Payer[job[v].txn])'
    BY <1>1 DEF Open
  <2> QED
    BY <1>1, <1>4, <2>4, <2>5, <2>6, <2>7 DEF Allots
<1>10. Closes(v)'
  <2> SUFFICES ASSUME job[v].op = "auto", job[v].at \in Closing PROVE Closes(v)'
    BY DEF Closes
  <2>1. /\ t \in Serves[v] /\ job[v].closing \subseteq Bought(v)
        /\ \A c \in Bought(v) : Owner[c] = Payer[t]
    BY <1>0, <1>1 DEF Closes
  <2>2. \A c \in Bought(v) : contract'[c] = contract[c]
    BY <1>7, <2>1
  <2>3. \A c \in Bought(v) : \A s \in Stages : ContractOf[s] = c => s \in Mine(v)
    BY <1>5, <2>1
  <2>4. \A c \in Bought(v) : PaidUp(c)' <=> PaidUp(c)
    BY <1>3, <2>3 DEF PaidUp
  <2>5. \A c \in Bought(v) : Settled(c)' <=> Settled(c)
    BY <1>3, <2>3 DEF Settled
  <2>6. PICK g : g = job[v].target
    OBVIOUS
  <2>7. job[v].at = "close" => g \in Bought(v) /\ Settled(g)
    BY <1>0, <2>1, <2>6 DEF Aimed, Closes
  <2>8. Settled(g)' = Settled(job[v].target)'
    BY <2>6 DEF Settled
  <2> QED
    BY <1>0, <1>1, <1>4, <2>1, <2>2, <2>4, <2>5, <2>6, <2>7, <2>8 DEF Closes
<1> QED
  BY <1>8, <1>9, <1>10

\* With nothing left to recalculate, the status of a stage says whether its
\* payments reach its amount.
LEMMA StatusTells ==
  ASSUME PayInv, NEW s \in Stages, \A v \in Workers : s \notin job[v].dirty
  PROVE  stage[s].status = "PAID" <=> Paid(s) >= Price[s]
<1>1. /\ Balanced(s) /\ Paid(s) \in Nat /\ Price[s] \in Nat \ {0}
      /\ stage[s].status = "PAID" => stage[s].paid >= Price[s]
  BY PaidNat, ContractAssumption DEF PayInv, IInv, StagesBalanced, Honest
<1>2. Paid(s) >= Price[s] => StatusAfter(s, Paid(s)) = "PAID"
  BY <1>1 DEF StatusAfter
<1> QED
  BY <1>1, <1>2 DEF Balanced

LEMMA MineIdle ==
  ASSUME Apart, PayInv, NEW w \in Workers, job[w].dirty = {}, NEW s \in Mine(w)
  PROVE  s \in Stages /\ \A v \in Workers : s \notin job[v].dirty
<1>1. s \in Stages
  BY RequestAssumption DEF Mine
<1>2. \A v \in Workers : job[v].dirty \subseteq Mine(v)
  BY DEF PayInv, IInv, Sound, OwnWork
<1> QED
  BY <1>1, <1>2 DEF Apart

LEMMA SettledTells ==
  ASSUME Apart, PayInv, NEW w \in Workers, job[w].dirty = {}, job[w].op = "auto",
         job[w].at \in Closing, NEW c \in Bought(w)
  PROVE  Settled(c) <=> PaidUp(c)
<1>1. job[w].txn \in Serves[w] /\ Owner[c] = Payer[job[w].txn]
  BY DEF PayInv, Closes
<1>2. \A s \in Stages : ContractOf[s] = c => s \in Mine(w)
  BY <1>1 DEF Mine
<1>3. \A s \in Stages : ContractOf[s] = c =>
        (stage[s].status = "PAID" <=> Paid(s) >= Price[s])
  BY <1>2, MineIdle, StatusTells
<1> QED
  BY <1>3 DEF Settled, PaidUp

-----------------------------------------------------------------------------
(* The plan *)

\* An older stage counts in full among what is owed before a younger one.
LEMMA OweGrows ==
  ASSUME StagesTyped, NEW S \in SUBSET Stages, NEW r \in S, NEW s \in Stages,
         Rank[r] < Rank[s]
  PROVE  OweUpTo(r, S) + Owe(r) <= OweUpTo(s, S)
<1> DEFINE D == {q \in S : Rank[q] < Rank[r]}
           E == {q \in S : Rank[q] < Rank[s]}
           X == D \cup {r}
<1>1. \A q \in Stages : Rank[q] \in Nat
  BY ContractAssumption
<1>2. D \in SUBSET Stages /\ E \in SUBSET Stages /\ X \in SUBSET E /\ r \in X
      /\ X \ {r} = D
  BY <1>1
<1>3. OweUpTo(r, S) = Sum(Rests, D) /\ OweUpTo(s, S) = Sum(Rests, E)
      /\ OweUpTo(r, S) \in Nat
  BY OweUpToNat
<1>4. \A q \in Stages : Rests[q] = Owe(q) /\ Owe(q) \in Nat
  BY OweNat
<1> HIDE DEF D, E, X
<1>5. IsFiniteSet(X) /\ IsFiniteSet(E) /\ IsFiniteSet(E \ X)
  BY <1>2, ContractAssumption, FS_Subset
<1>6. Sum(Rests, X) = Rests[r] + Sum(Rests, D)
  BY <1>2, <1>4, <1>5, SumAny
<1>7. Sum(Rests, E \ X) \in Nat
  BY <1>2, <1>4, <1>5, SumNat
<1>8. X \cap (E \ X) = {} /\ X \cup (E \ X) = E
  BY <1>2
<1>9. Sum(Rests, X \cup (E \ X)) = Sum(Rests, X) + Sum(Rests, E \ X)
  BY <1>2, <1>4, <1>5, <1>8, SumBoth
<1> QED
  BY <1>3, <1>4, <1>6, <1>7, <1>8, <1>9

LEMMA PlanAllots ==
  ASSUME StagesTyped, NEW t \in Txns, NEW S \in SUBSET Stages
  PROVE  /\ \A s \in Stages : Plan(t, S)[s] > 0 =>
              s \in S /\ stage[s].paid + Plan(t, S)[s] <= Price[s]
         /\ \A r \in S, s \in Stages : Rank[r] < Rank[s] /\ Plan(t, S)[s] > 0 =>
              stage[r].paid + Plan(t, S)[r] >= Price[r]
<1>1. \A s \in Stages : /\ Price[s] \in Nat /\ stage[s].paid \in Nat
                        /\ Owe(s) \in Nat /\ OweUpTo(s, S) \in Nat
  BY ContractAssumption, OweNat, OweUpToNat DEF StagesTyped
<1>2. Amount[t] \in Nat
  BY RequestAssumption
<1>3. \A s \in Stages : Plan(t, S)[s] =
        IF s \in S THEN Least(Owe(s), Positive(Amount[t] - OweUpTo(s, S))) ELSE 0
  BY PlanOf
<1>4. ASSUME NEW s \in Stages, Plan(t, S)[s] > 0
      PROVE  s \in S /\ stage[s].paid + Plan(t, S)[s] <= Price[s]
  <2>1. s \in S /\ Plan(t, S)[s] = Least(Owe(s), Positive(Amount[t] - OweUpTo(s, S)))
    BY <1>3, <1>4
  <2>2. Plan(t, S)[s] <= Owe(s) /\ Owe(s) > 0 /\ Plan(t, S)[s] \in Nat
    BY <1>1, <1>2, <1>4, <2>1 DEF Least, Positive
  <2>3. Owe(s) = Price[s] - stage[s].paid
    BY <1>1, <2>2 DEF Owe, Positive
  <2> QED
    BY <1>1, <2>1, <2>2, <2>3
<1>5. ASSUME NEW r \in S, NEW s \in Stages, Rank[r] < Rank[s], Plan(t, S)[s] > 0
      PROVE  stage[r].paid + Plan(t, S)[r] >= Price[r]
  <2>1. Plan(t, S)[s] = Least(Owe(s), Positive(Amount[t] - OweUpTo(s, S)))
    BY <1>3, <1>4, <1>5
  <2>2. OweUpTo(s, S) < Amount[t]
    BY <1>1, <1>2, <1>5, <2>1 DEF Least, Positive
  <2>3. OweUpTo(r, S) + Owe(r) <= OweUpTo(s, S)
    BY <1>5, OweGrows
  <2>4. Plan(t, S)[r] = Least(Owe(r), Positive(Amount[t] - OweUpTo(r, S)))
    BY <1>3
  <2>5. Plan(t, S)[r] = Owe(r)
    BY <1>1, <1>2, <2>2, <2>3, <2>4 DEF Least, Positive
  <2>6. Owe(r) >= Price[r] - stage[r].paid
    BY <1>1 DEF Owe, Positive
  <2> QED
    BY <1>1, <2>5, <2>6
<1> QED
  BY <1>4, <1>5

-----------------------------------------------------------------------------
(* Each step of the request itself *)

LEMMA AutoStagesPays ==
  ASSUME PayInv, NEW w \in Workers, AutoStages(w)
  PROVE  Roles(w)' /\ Allots(w)' /\ Closes(w)'
<1>0. PICK t : t = job[w].txn
  OBVIOUS
<1> DEFINE open == Open(Payer[t])
           plan == Plan(t, open)
           j == IF open = {} THEN [job[w] EXCEPT !.at = "nothing"]
                ELSE [job[w] EXCEPT !.at = "commit", !.plan = plan]
<1>1. job[w].at = "stages" /\ Set(w, j) /\ stage' = stage /\ contract' = contract
  BY <1>0 DEF AutoStages
<1>2. job[w] \in Jobs /\ t \in Txns /\ job[w].op = "auto"
  BY <1>0, <1>1, RequestAssumption DEF PayInv, TypeInv, TypeOK, Aimed, Reading, Roles
<1>3. /\ \A s \in Stages : plan[s] > 0 =>
           s \in open /\ stage[s].paid + plan[s] <= Price[s]
      /\ \A r \in open, s \in Stages : Rank[r] < Rank[s] /\ plan[s] > 0 =>
           stage[r].paid + plan[r] >= Price[r]
  BY <1>2, PlanAllots, OpenStages DEF PayInv, TypeInv, TypeOK, StagesTyped
<1>4. \A s \in open : /\ s \in Stages /\ Owner[ContractOf[s]] = Payer[t]
                      /\ contract[ContractOf[s]] # "COMPLETED"
  BY DEF Open
<1>5. open' = open
  BY <1>1 DEF Open
<1>6. PICK o : o = open
  OBVIOUS
<1>7. PICK q : q = plan
  OBVIOUS
<1> HIDE DEF plan
<1>8. /\ j.op = "auto" /\ j.txn = t
      /\ j.at = "nothing" \/ (j.at = "commit" /\ j.plan = q)
  <2> HIDE DEF open
  <2>1. CASE open = {}
    <3>1. j = [job[w] EXCEPT !.at = "nothing"]
      BY <2>1
    <3> QED
      BY <1>0, <1>2, <3>1 DEF Jobs
  <2>2. CASE open # {}
    <3>1. j = [job[w] EXCEPT !.at = "commit", !.plan = plan]
      BY <2>2
    <3> QED
      BY <1>0, <1>2, <1>7, <3>1 DEF Jobs
  <2> QED
    BY <2>1, <2>2
<1> HIDE DEF j
<1>9. job'[w] = j
  BY <1>1, JobSet DEF PayInv
<1>10. Roles(w)' /\ Closes(w)'
  BY <1>8, <1>9 DEF Roles, Closes, Closing
<1>11. ASSUME j.at = "commit" PROVE Allots(w)'
  <2>1. job'[w].plan = q /\ job'[w].txn = t
    BY <1>8, <1>9, <1>11
  <2>2. /\ \A s \in Stages : q[s] > 0 => stage'[s].paid + q[s] <= Price[s]
        /\ \A r \in o, s \in Stages : Rank[r] < Rank[s] /\ q[s] > 0 =>
             stage'[r].paid + q[r] >= Price[r]
    BY <1>1, <1>3, <1>6, <1>7
  <2>3. Open(Payer[job[w].txn])' = o
    BY <1>5, <1>6, <2>1 DEF Open
  <2>4. \A c \in Bought(w)' : Owner[c] = Payer[t] /\ contract'[c] # "COMPLETED"
    BY <1>1, <1>3, <1>4, <1>7, <2>1 DEF Bought
  <2> QED
    BY <2>1, <2>2, <2>3, <2>4 DEF Allots
<1>12. j.at = "nothing" => Allots(w)'
  BY <1>9 DEF Allots
<1> QED
  BY <1>8, <1>10, <1>11, <1>12

LEMMA AutoCommitPays ==
  ASSUME PayInv, NEW w \in Workers, AutoCommit(w)
  PROVE  Roles(w)' /\ Allots(w)' /\ Closes(w)'
<1>1. job[w].at = "commit" /\ contract' = contract
  BY DEF AutoCommit
<1>2. /\ job[w] \in Jobs /\ job[w].op = "auto" /\ job[w].txn \in Serves[w]
      /\ \A c \in Bought(w) : Owner[c] = Payer[job[w].txn] /\ contract[c] # "COMPLETED"
  BY <1>1 DEF PayInv, TypeInv, TypeOK, Aimed, Reading, Roles, Allots
<1>3. CASE job[w].txn \in live
  <2> DEFINE paid == {s \in Stages : job[w].plan[s] > 0}
             closing == {ContractOf[s] : s \in paid}
             j == [job[w] EXCEPT !.at = "recalc", !.dirty = paid, !.closing = closing,
                                 !.gone = {}]
  <2>1. Set(w, j)
    BY <1>3 DEF AutoCommit, Recalculate
  <2>2. closing = Bought(w)
    BY DEF Bought
  <2> HIDE DEF paid, closing
  <2>3. /\ j.at = "recalc" /\ j.op = "auto" /\ j.txn = job[w].txn /\ j.closing = closing
        /\ j.plan = job[w].plan
    BY <1>2 DEF Jobs
  <2> HIDE DEF j
  <2>4. job'[w] = j
    BY <2>1, JobSet DEF PayInv
  <2>5. Bought(w)' = Bought(w)
    BY <2>3, <2>4 DEF Bought
  <2> QED
    BY <1>1, <1>2, <2>2, <2>3, <2>4, <2>5 DEF Roles, Allots, Closes
<1>4. CASE job[w].txn \notin live
  <2>1. job'[w] = Resting /\ Resting.closing = {}
    BY <1>4, JobSet DEF AutoCommit, Rest, PayInv, Resting
  <2> QED
    BY <2>1, RestingTyped DEF Roles, Allots, Closes, Closing
<1> QED
  BY <1>3, <1>4

\* Steps of linkManual and unlink, and the beginnings and ends of requests.
LEMMA OtherPays ==
  ASSUME PayInv, NEW w \in Workers, NEW j, Set(w, j),
         \/ j.closing = {} /\ j.at = "idle"
         \/ j.closing = {} /\ j.at = "stages" /\ j.op = "auto"
         \/ j.closing = {} /\ j.op # "auto" /\ j.at \notin {"stages", "nothing", "commit"}
  PROVE  Roles(w)' /\ Allots(w)' /\ Closes(w)'
<1>1. job'[w] = j
  BY JobSet DEF PayInv
<1> QED
  BY <1>1 DEF Roles, Allots, Closes, Closing

LEMMA RestPays ==
  ASSUME PayInv, NEW w \in Workers, Rest(w)
  PROVE  Roles(w)' /\ Allots(w)' /\ Closes(w)'
<1>1. Set(w, Resting) /\ Resting.closing = {} /\ Resting.at = "idle"
  BY DEF Rest, Resting
<1> QED
  BY <1>1, OtherPays

LEMMA StartsPay ==
  ASSUME PayInv, NEW w \in Workers, StartAuto(w) \/ StartLink(w) \/ StartUnlink(w)
  PROVE  Roles(w)' /\ Allots(w)' /\ Closes(w)'
<1> DEFINE seen(t) == {p.stage : p \in {q \in payments : q.txn = t}}
<1>1. CASE StartAuto(w)
  <2>1. PICK t : Set(w, [Resting EXCEPT !.at = "stages", !.op = "auto", !.txn = t])
    BY <1>1 DEF StartAuto
  <2>2. /\ [Resting EXCEPT !.at = "stages", !.op = "auto", !.txn = t].closing = {}
        /\ [Resting EXCEPT !.at = "stages", !.op = "auto", !.txn = t].at = "stages"
        /\ [Resting EXCEPT !.at = "stages", !.op = "auto", !.txn = t].op = "auto"
    BY DEF Resting
  <2> QED
    BY <2>1, <2>2, OtherPays
<1>2. CASE StartLink(w)
  <2>1. PICK t, plan :
          Set(w, [Resting EXCEPT !.at = "erase", !.op = "link", !.txn = t, !.plan = plan,
                    !.seen = seen(t)])
    BY <1>2 DEF StartLink
  <2> DEFINE j == [Resting EXCEPT !.at = "erase", !.op = "link", !.txn = t,
                     !.plan = plan, !.seen = seen(t)]
  <2>2. j.closing = {} /\ j.at = "erase" /\ j.op = "link"
    BY DEF Resting
  <2> HIDE DEF j
  <2> QED
    BY <2>1, <2>2, OtherPays DEF j
<1>3. CASE StartUnlink(w)
  <2>1. PICK t : Set(w, [Resting EXCEPT !.at = "erase", !.op = "unlink", !.txn = t,
                           !.seen = seen(t)])
    BY <1>3 DEF StartUnlink
  <2> DEFINE j == [Resting EXCEPT !.at = "erase", !.op = "unlink", !.txn = t,
                     !.seen = seen(t)]
  <2>2. j.closing = {} /\ j.at = "erase" /\ j.op = "unlink"
    BY DEF Resting
  <2> HIDE DEF j
  <2> QED
    BY <2>1, <2>2, OtherPays DEF j
<1> QED
  BY <1>1, <1>2, <1>3

LEMMA LinksPay ==
  ASSUME PayInv, NEW w \in Workers, Erase(w) \/ LinkCommit(w) \/ UnlinkCommit(w)
  PROVE  Roles(w)' /\ Allots(w)' /\ Closes(w)'
<1>0. job[w] \in Jobs
  BY DEF PayInv, TypeInv, TypeOK
<1>1. CASE Erase(w)
  <2> DEFINE at == IF job[w].op = "link" THEN "linked" ELSE "unlinked"
             gone == IF job[w].op = "link" /\ job[w].seen = {} THEN {}
                     ELSE {p \in payments : p.txn = job[w].txn}
             j == [job[w] EXCEPT !.at = at, !.gone = gone]
  <2>1. job[w].at = "erase" /\ Set(w, j)
    BY <1>1 DEF Erase
  <2>2. at \in {"linked", "unlinked"}
    OBVIOUS
  <2>3. job[w].op # "auto" /\ job[w].closing = {}
    BY <2>1 DEF PayInv, Roles
  <2> HIDE DEF at, gone
  <2>4. j.closing = job[w].closing /\ j.at = at /\ j.op = job[w].op
    BY <1>0 DEF Jobs
  <2> HIDE DEF j
  <2> QED
    BY <2>1, <2>2, <2>3, <2>4, OtherPays
<1>2. CASE ~Rest(w) /\ (LinkCommit(w) \/ UnlinkCommit(w))
  <2>1. job[w].at \in {"linked", "unlinked"} /\ \E d : Recalculate(w, d, {})
    BY <1>2 DEF LinkCommit, UnlinkCommit
  <2>2. PICK d : Recalculate(w, d, {})
    BY <2>1
  <2> DEFINE j == [job[w] EXCEPT !.at = "recalc", !.dirty = d, !.closing = {}, !.gone = {}]
  <2>3. Set(w, j)
    BY <2>2 DEF Recalculate
  <2>4. j.closing = {} /\ j.at = "recalc" /\ j.op = job[w].op
    BY <1>0 DEF Jobs
  <2>5. job[w].op # "auto"
    BY <2>1 DEF PayInv, Roles
  <2> HIDE DEF j
  <2> QED
    BY <2>3, <2>4, <2>5, OtherPays
<1> QED
  BY <1>1, <1>2, RestPays

\* recalcStage leaves contracts, payments and the list of contracts to close alone.
LEMMA RecalcPays ==
  ASSUME PayInv, NEW w \in Workers, RecalcRead(w) \/ RecalcWrite(w)
  PROVE  Roles(w)' /\ Allots(w)' /\ Closes(w)'
<1>0. job[w] \in Jobs /\ Roles(w) /\ Closes(w) /\ Aimed(w)
  BY DEF PayInv, TypeInv, TypeOK
<1>1. /\ contract' = contract /\ payments' = payments
      /\ job[w].at \in {"recalc", "write"} /\ job[w].dirty # {}
  BY <1>0 DEF RecalcRead, RecalcWrite, Aimed
<1>2. \E j : /\ Set(w, j) /\ j.at \in {"recalc", "write"} /\ j.op = job[w].op
             /\ j.txn = job[w].txn /\ j.plan = job[w].plan /\ j.closing = job[w].closing
  <2>1. CASE RecalcRead(w)
    <3>1. PICK s \in job[w].dirty :
            Set(w, [job[w] EXCEPT !.at = "write", !.target = s, !.paid = Paid(s)])
      BY <2>1 DEF RecalcRead
    <3> DEFINE j == [job[w] EXCEPT !.at = "write", !.target = s, !.paid = Paid(s)]
    <3>2. /\ j.at = "write" /\ j.op = job[w].op /\ j.txn = job[w].txn
          /\ j.plan = job[w].plan /\ j.closing = job[w].closing
      BY <1>0 DEF Jobs
    <3> HIDE DEF j
    <3> QED
      BY <3>1, <3>2 DEF j
  <2>2. CASE RecalcWrite(w)
    <3> DEFINE j == [job[w] EXCEPT !.at = "recalc", !.dirty = @ \ {job[w].target}]
    <3>1. Set(w, j)
      BY <2>2 DEF RecalcWrite
    <3>2. /\ j.at = "recalc" /\ j.op = job[w].op /\ j.txn = job[w].txn
          /\ j.plan = job[w].plan /\ j.closing = job[w].closing
      BY <1>0 DEF Jobs
    <3> HIDE DEF j
    <3> QED
      BY <3>1, <3>2
  <2> QED
    BY <2>1, <2>2
<1>3. PICK j : /\ Set(w, j) /\ j.at \in {"recalc", "write"} /\ j.op = job[w].op
               /\ j.txn = job[w].txn /\ j.plan = job[w].plan /\ j.closing = job[w].closing
  BY <1>2
<1>4. job'[w] = j
  BY <1>3, JobSet DEF PayInv
<1>5. Bought(w)' = Bought(w)
  BY <1>3, <1>4 DEF Bought
<1>6. \A c : PaidUp(c)' <=> PaidUp(c)
  BY <1>1, SamePayments DEF PaidUp
<1>7. Roles(w)' /\ Allots(w)'
  BY <1>0, <1>1, <1>3, <1>4 DEF Roles, Allots
<1>8. Closes(w)'
  BY <1>0, <1>1, <1>3, <1>4, <1>5, <1>6 DEF Closes, Closing
<1> QED
  BY <1>7, <1>8

\* recalcContract closes the contract when every stage is paid, and only then.
LEMMA ClosesPay ==
  ASSUME Apart, PayInv, NEW w \in Workers, CloseRead(w) \/ CloseWrite(w)
  PROVE  Roles(w)' /\ Allots(w)' /\ Closes(w)'
<1>0. /\ job[w] \in Jobs /\ Roles(w) /\ Closes(w) /\ Aimed(w) /\ job[w].dirty = {}
      /\ job[w].at \in {"recalc", "close"}
  BY DEF PayInv, TypeInv, TypeOK, CloseRead, CloseWrite, IInv, Sound, Progress
<1>1. payments' = payments /\ stage' = stage
  BY DEF CloseRead, CloseWrite
<1>2. \A c : (PaidUp(c)' <=> PaidUp(c)) /\ (Settled(c)' <=> Settled(c))
  BY <1>1, SamePayments DEF PaidUp, Settled
<1>3. CASE CloseRead(w)
  <2>1. PICK c \in job[w].closing :
          Set(w, IF Settled(c) THEN [job[w] EXCEPT !.at = "close", !.target = c]
                 ELSE [job[w] EXCEPT !.closing = @ \ {c}])
    BY <1>3 DEF CloseRead
  <2>2. job[w].op = "auto" /\ job[w].at = "recalc" /\ contract' = contract
    BY <1>0, <1>3, <2>1 DEF CloseRead, Roles
  <2>3. c \in Bought(w)
    BY <1>0, <2>2 DEF Closes, Closing
  <2>4. CASE Settled(c)
    <3> DEFINE j == [job[w] EXCEPT !.at = "close", !.target = c]
    <3>1. Set(w, j)
      BY <2>1, <2>4
    <3>2. /\ j.at = "close" /\ j.op = "auto" /\ j.txn = job[w].txn /\ j.target = c
          /\ j.plan = job[w].plan /\ j.closing = job[w].closing /\ j.dirty = {}
      BY <1>0, <2>2 DEF Jobs
    <3> HIDE DEF j
    <3>3. job'[w] = j
      BY <3>1, JobSet DEF PayInv
    <3>4. Bought(w)' = Bought(w)
      BY <3>2, <3>3 DEF Bought
    <3>5. Settled(job[w].target)'
      BY <1>2, <2>4, <3>2, <3>3 DEF Settled
    <3>6. Closes(w)'
      BY <1>0, <1>2, <2>2, <3>2, <3>3, <3>4, <3>5 DEF Closes, Closing
    <3> QED
      BY <3>2, <3>3, <3>6 DEF Roles, Allots
  <2>5. CASE ~Settled(c)
    <3> DEFINE rest == job[w].closing \ {c}
               j == [job[w] EXCEPT !.closing = rest]
    <3>1. Set(w, j)
      BY <2>1, <2>5
    <3>2. /\ j.at = "recalc" /\ j.op = "auto" /\ j.txn = job[w].txn
          /\ j.plan = job[w].plan /\ j.closing = rest /\ j.dirty = {}
      BY <1>0, <2>2 DEF Jobs
    <3> HIDE DEF j
    <3>3. job'[w] = j
      BY <3>1, JobSet DEF PayInv
    <3>4. Bought(w)' = Bought(w)
      BY <3>2, <3>3 DEF Bought
    <3>5. ~PaidUp(c) /\ contract[c] # "COMPLETED"
      BY <1>0, <2>2, <2>3, <2>5, SettledTells DEF Closes, Closing
    <3>6. \A b \in Bought(w) : b \notin rest =>
            (contract[b] = "COMPLETED" <=> PaidUp(b))
      BY <1>0, <2>2, <3>5 DEF Closes, Closing
    <3>7. Closes(w)'
      BY <1>0, <1>2, <2>2, <3>2, <3>3, <3>4, <3>6 DEF Closes, Closing
    <3> QED
      BY <3>2, <3>3, <3>7 DEF Roles, Allots
  <2> QED
    BY <2>4, <2>5
<1>4. CASE CloseWrite(w)
  <2>1. PICK c : c = job[w].target
    OBVIOUS
  <2>2. /\ job[w].at = "close" /\ c \in job[w].closing
        /\ contract' = [contract EXCEPT ![c] = "COMPLETED"]
    BY <1>0, <1>4, <2>1 DEF CloseWrite, Aimed
  <2>3. job[w].op = "auto"
    BY <1>0, <2>2 DEF Roles
  <2>4. c \in Bought(w) /\ Settled(c)
    BY <1>0, <2>1, <2>2, <2>3 DEF Closes, Closing
  <2>5. PaidUp(c)
    BY <1>0, <2>2, <2>3, <2>4, SettledTells DEF Closing
  <2> DEFINE rest == job[w].closing \ {c}
             j == [job[w] EXCEPT !.at = "recalc", !.closing = rest]
  <2>6. Set(w, j)
    BY <1>4, <2>1 DEF CloseWrite
  <2>7. /\ j.at = "recalc" /\ j.op = "auto" /\ j.txn = job[w].txn
        /\ j.plan = job[w].plan /\ j.closing = rest /\ j.dirty = {}
    BY <1>0, <2>3 DEF Jobs
  <2> HIDE DEF j
  <2>8. job'[w] = j
    BY <2>6, JobSet DEF PayInv
  <2>9. Bought(w)' = Bought(w)
    BY <2>7, <2>8 DEF Bought
  <2>10. \A b \in Bought(w) : contract'[b] = IF b = c THEN "COMPLETED" ELSE contract[b]
    BY <2>2, ContractAssumption DEF Bought, PayInv, TypeInv, TypeOK
  <2>11. /\ job[w].closing \subseteq Bought(w)
         /\ \A b \in job[w].closing : contract[b] # "COMPLETED"
         /\ \A b \in Bought(w) : b \notin job[w].closing =>
              (contract[b] = "COMPLETED" <=> PaidUp(b))
    BY <1>0, <2>2, <2>3 DEF Closes, Closing
  <2>12. /\ \A b \in rest : contract'[b] # "COMPLETED"
         /\ \A b \in Bought(w) : b \notin rest =>
              (contract'[b] = "COMPLETED" <=> PaidUp(b))
    BY <2>2, <2>5, <2>10, <2>11
  <2>13. Closes(w)'
    BY <1>0, <1>2, <2>2, <2>3, <2>7, <2>8, <2>9, <2>11, <2>12 DEF Closes, Closing
  <2> QED
    BY <2>7, <2>8, <2>13 DEF Roles, Allots
<1> QED
  BY <1>3, <1>4

LEMMA NextPays ==
  ASSUME Apart, Ops \cap {"delete", "crash"} = {}
  PROVE  PayInv /\ [Next]_vars => PayInv'
<1> SUFFICES ASSUME PayInv, [Next]_vars PROVE PayInv'
  OBVIOUS
<1>0. TypeInv' /\ Stamped' /\ IInv'
  BY NextTyped, NextStamped, NextSound DEF PayInv
<1>1. ASSUME NEW w \in Workers, Step(w) PROVE PayInv'
  <2>1. Roles(w)' /\ Allots(w)' /\ Closes(w)'
    BY <1>1, AutoStagesPays, AutoCommitPays, RestPays, StartsPay, LinksPay, RecalcPays,
       ClosesPay DEF Step, AutoNothing, Respond
  <2>2. \A v \in Workers : v # w => job'[v] = job[v]
    BY <1>1, JobSet DEF PayInv, Step, StartAuto, AutoStages, AutoNothing, AutoCommit,
       StartLink, StartUnlink, Erase, LinkCommit, UnlinkCommit, RecalcRead, RecalcWrite,
       CloseRead, CloseWrite, Respond, Rest, Recalculate
  <2>3. \A v \in Workers : v # w => Roles(v)' /\ Allots(v)' /\ Closes(v)'
    BY <1>1, <2>2, OthersPay
  <2>4. Honest'
    <3>1. CASE RecalcWrite(w)
      <4>1. PICK s : s = job[w].target
        OBVIOUS
      <4>2. stage' = [stage EXCEPT ![s] = [paid |-> job[w].paid,
                                           status |-> StatusAfter(s, job[w].paid)]]
        BY <3>1, <4>1 DEF RecalcWrite
      <4>3. job[w].paid \in Nat
        BY DEF PayInv, TypeInv, TypeOK, Jobs
      <4>4. \A r \in Stages : Price[r] \in Nat \ {0}
        BY ContractAssumption
      <4>5. s \in Stages /\ StatusAfter(s, job[w].paid) = "PAID" => job[w].paid >= Price[s]
        BY <4>3, <4>4 DEF StatusAfter
      <4> QED
        BY <4>2, <4>5 DEF PayInv, TypeInv, TypeOK, Honest
    <3>2. CASE ~RecalcWrite(w)
      <4>1. stage' = stage
        BY <1>1, <3>2 DEF Step, StartAuto, AutoStages, AutoNothing, AutoCommit,
           StartLink, StartUnlink, Erase, LinkCommit, UnlinkCommit, RecalcRead,
           CloseRead, CloseWrite, Respond
      <4> QED
        BY <4>1 DEF PayInv, Honest
    <3> QED
      BY <3>1, <3>2
  <2> QED
    BY <1>0, <2>1, <2>3, <2>4 DEF PayInv
<1>2. CASE Ignore \/ UNCHANGED vars
  <2>1. UNCHANGED <<payments, stage, contract, job>>
    BY <1>2 DEF Ignore, vars
  <2>2. Honest'
    BY <2>1 DEF PayInv, Honest
  <2>3. \A c : (PaidUp(c)' <=> PaidUp(c)) /\ (Settled(c)' <=> Settled(c))
    BY <2>1, SamePayments DEF PaidUp, Settled
  <2>4. ASSUME NEW v \in Workers PROVE Roles(v)' /\ Allots(v)' /\ Closes(v)'
    <3>1. Roles(v) /\ Allots(v) /\ Closes(v)
      BY DEF PayInv
    <3>2. Bought(v)' = Bought(v) /\ Open(Payer[job[v].txn])' = Open(Payer[job[v].txn])
      BY <2>1 DEF Bought, Open
    <3>3. Settled(job[v].target)' = Settled(job[v].target)
      BY <2>1 DEF Settled
    <3> QED
      BY <2>1, <2>3, <3>1, <3>2, <3>3 DEF Roles, Allots, Closes
  <2> QED
    BY <1>0, <2>2, <2>4 DEF PayInv
<1>3. ~SyncDelete /\ ~Crash
  BY DEF SyncDelete, Crash, Accept
<1> QED
  BY <1>1, <1>2, <1>3 DEF Next

-----------------------------------------------------------------------------
(* The step in which autoMatch pays *)

\* What a stage is paid grows by its share of the plan.
LEMMA PaidGrows ==
  ASSUME TypeInv, Stamped, NEW t \in Txns, NEW plan \in [Stages -> Nat],
         payments' = payments \cup Rows(t, plan), NEW s \in Stages
  PROVE  Paid(s)' = Paid(s) + plan[s]
<1> DEFINE old == {p \in payments : p.stage = s}
           new == {p \in Rows(t, plan) : p.stage = s}
           row == [batch |-> batch, txn |-> t, stage |-> s, amount |-> plan[s]]
<1>1. batch \in Nat /\ \A p \in payments : p.batch \in Nat /\ p.batch < batch
  BY DEF TypeInv, TypeOK, Stamped, Payment
<1>2. Rows(t, plan) \in SUBSET Payment /\ IsFiniteSet(Rows(t, plan))
  BY <1>1, RowsTotal
<1>3. old \in SUBSET payments /\ old \in SUBSET Payment /\ new \in SUBSET Payment
      /\ new \in SUBSET Rows(t, plan)
  BY <1>2 DEF TypeInv, TypeOK
<1>4. old \cap new = {}
  BY <1>1, RowsOfPlan
<1>5. Paid(s)' = Total({p \in payments' : p.stage = s}) /\ Paid(s) = Total(old)
  BY DEF Paid
<1>6. {p \in payments' : p.stage = s} = old \cup new
  OBVIOUS
<1>7. IF plan[s] > 0 THEN new = {row} ELSE new = {}
  BY DEF Rows
<1>8. plan[s] > 0 => row \in Payment /\ Worth[row] = plan[s]
  BY <1>1 DEF Payment, Worth
<1> HIDE DEF old, new, row
<1>9. IsFiniteSet(old) /\ IsFiniteSet(new)
  BY <1>2, <1>3, FS_Subset DEF TypeInv
<1>10. Total(old \cup new) = Total(old) + Total(new)
  BY <1>3, <1>4, <1>9, TotalBoth
<1>11. Total(new) = plan[s]
  <2>1. CASE plan[s] > 0
    <3>1. Sum(Worth, {row}) = Worth[row] + Sum(Worth, {row} \ {row})
      <4>1. IsFiniteSet({row}) /\ \A x \in {row} : Worth[x] \in Nat
        BY <1>7, <1>8, <1>9, <2>1
      <4> QED
        BY <4>1, SumAny
    <3>2. {row} \ {row} = {}
      OBVIOUS
    <3>3. Sum(Worth, {row}) = plan[s]
      BY <1>8, <2>1, <3>1, <3>2, SumNone
    <3> QED
      BY <1>3, <1>7, <1>9, <2>1, <3>3, TotalIs
  <2>2. CASE ~(plan[s] > 0)
    <3>1. plan[s] = 0
      BY <2>2
    <3> QED
      BY <1>7, <2>2, <3>1, NoPayments
  <2> QED
    BY <2>1, <2>2
<1> QED
  BY <1>5, <1>6, <1>10, <1>11

\* At the step in which autoMatch pays, the plan it computed is still the right
\* one: nobody has paid the stages of its customer in the meantime.
LEMMA PayStep ==
  ASSUME Apart, Ops \cap {"delete", "crash"} = {}, PayInv, [Next]_vars,
         NEW w \in Workers, AutoPays(w), NEW s \in Stages, Paid(s)' > Paid(s)
  PROVE  /\ Allots(w) /\ job[w].at = "commit" /\ job[w].plan[s] > 0
         /\ \A r \in Stages : Paid(r)' = Paid(r) + job[w].plan[r]
         /\ \A r \in Mine(w) : stage[r].paid = Paid(r)
         /\ s \in Mine(w) /\ job[w].txn \in Serves[w]
<1>1. job[w].at = "commit" /\ job'[w] # job[w]
  BY DEF AutoPays
<1>2. AutoCommit(w)
  <2>1. ~Ignore /\ ~SyncDelete /\ ~Crash /\ ~UNCHANGED vars
    BY <1>1 DEF Ignore, SyncDelete, Crash, Accept, vars
  <2>2. PICK v \in Workers : Step(v)
    BY <2>1 DEF Next
  <2>3. \A u \in Workers : u # v => job'[u] = job[u]
    BY <2>2, JobSet DEF PayInv, Step, StartAuto, AutoStages, AutoNothing, AutoCommit,
       StartLink, StartUnlink, Erase, LinkCommit, UnlinkCommit, RecalcRead, RecalcWrite,
       CloseRead, CloseWrite, Respond, Rest, Recalculate
  <2>4. v = w
    BY <1>1, <2>3
  <2> QED
    BY <1>1, <2>2, <2>4 DEF Step, StartAuto, AutoStages, AutoNothing, StartLink,
       StartUnlink, Erase, LinkCommit, UnlinkCommit, RecalcRead, RecalcWrite, CloseRead,
       CloseWrite, Respond
<1>3. PICK t, plan : t = job[w].txn /\ plan = job[w].plan
  OBVIOUS
<1>4. t \in Serves[w] /\ t \in Txns /\ plan \in [Stages -> Nat] /\ Allots(w)
      /\ OwnWork(w) /\ job[w].dirty = {}
  BY <1>1, <1>3, RequestAssumption DEF PayInv, TypeInv, TypeOK, Aimed, Reading, Jobs,
     IInv, Sound, Progress
<1>5. payments' = payments \cup Rows(t, plan)
  <2>1. CASE t \in live
    BY <1>2, <1>3, <2>1 DEF AutoCommit
  <2>2. CASE t \notin live
    <3>1. payments' = payments
      BY <1>2, <1>3, <2>2 DEF AutoCommit
    <3>2. Paid(s)' = Paid(s) /\ Paid(s) \in Nat
      BY <3>1, SamePayments, PaidNat DEF PayInv
    <3> QED
      BY <3>2
  <2> QED
    BY <2>1, <2>2
<1>6. \A r \in Stages : Paid(r)' = Paid(r) + plan[r]
  BY <1>4, <1>5, PaidGrows DEF PayInv
<1>7. plan[s] > 0
  <2>1. Paid(s) \in Nat /\ plan[s] \in Nat
    BY <1>4, PaidNat DEF PayInv
  <2> QED
    BY <1>6, <2>1
<1>8. \A r \in Mine(w) : stage[r].paid = Paid(r)
  BY <1>4, MineIdle DEF PayInv, IInv, StagesBalanced, Balanced
<1> QED
  BY <1>1, <1>3, <1>4, <1>6, <1>7, <1>8 DEF OwnWork

\* While requests have no stage and no transaction in common, no mirrored row is
\* deleted and the server stays up, autoMatch pays an older open stage of the
\* payer in full before a younger one receives anything.
THEOREM PaysOldestFirst ==
  ASSUME Apart, Ops \cap {"delete", "crash"} = {}
  PROVE  Spec => OldestFirst
<1>1. PayInv /\ [Next]_vars =>
        [\A w \in Workers : AutoPays(w) =>
           \A r, s \in Open(Payer[job[w].txn]) :
             Rank[r] < Rank[s] /\ Paid(s)' > Paid(s) => Paid(r)' >= Price[r]]_vars
  <2> SUFFICES ASSUME PayInv, [Next]_vars, NEW w \in Workers, AutoPays(w),
                      NEW r \in Open(Payer[job[w].txn]), NEW s \in Open(Payer[job[w].txn]),
                      Rank[r] < Rank[s], Paid(s)' > Paid(s)
               PROVE  Paid(r)' >= Price[r]
    OBVIOUS
  <2>1. r \in Stages /\ s \in Stages /\ Owner[ContractOf[r]] = Payer[job[w].txn]
    BY DEF Open
  <2>2. /\ Allots(w) /\ job[w].at = "commit" /\ job[w].plan[s] > 0
        /\ Paid(r)' = Paid(r) + job[w].plan[r]
        /\ \A q \in Mine(w) : stage[q].paid = Paid(q)
        /\ job[w].txn \in Serves[w]
    BY <2>1, PayStep
  <2>3. r \in Mine(w)
    BY <2>1, <2>2 DEF Mine
  <2>4. stage[r].paid + job[w].plan[r] >= Price[r]
    BY <2>1, <2>2 DEF Allots
  <2> QED
    BY <2>2, <2>3, <2>4
<1> QED
  BY InitPays, NextPays, <1>1, PTL DEF Spec, OldestFirst

\* Under the same conditions autoMatch gives no stage more than it owes.
THEOREM PaysWithinPrice ==
  ASSUME Apart, Ops \cap {"delete", "crash"} = {}
  PROVE  Spec => AutoWithinPrice
<1>1. PayInv /\ [Next]_vars =>
        [\A w \in Workers : AutoPays(w) =>
           \A s \in Stages : Paid(s)' > Paid(s) => Paid(s)' <= Price[s]]_vars
  <2> SUFFICES ASSUME PayInv, [Next]_vars, NEW w \in Workers, AutoPays(w),
                      NEW s \in Stages, Paid(s)' > Paid(s)
               PROVE  Paid(s)' <= Price[s]
    OBVIOUS
  <2>1. /\ Allots(w) /\ job[w].at = "commit" /\ job[w].plan[s] > 0
        /\ Paid(s)' = Paid(s) + job[w].plan[s] /\ stage[s].paid = Paid(s)
    BY PayStep
  <2> QED
    BY <2>1 DEF Allots
<1> QED
  BY InitPays, NextPays, <1>1, PTL DEF Spec, AutoWithinPrice

\* Under the same conditions, when autoMatch answers, a contract it has paid into
\* is COMPLETED exactly when the payments of all its stages reach their amounts
\* (recalcContract).
THEOREM ClosesPaidUp ==
  ASSUME Apart, Ops \cap {"delete", "crash"} = {}
  PROVE  Spec => AutoCloses
<1>1. PayInv /\ [Next]_vars =>
        [\A w \in Workers :
           job[w].op = "auto" /\ job[w].at = "recalc" /\ job'[w].at = "idle" =>
             \A s \in Stages : job[w].plan[s] > 0 =>
               (contract[ContractOf[s]] = "COMPLETED" <=> PaidUp(ContractOf[s]))]_vars
  <2> SUFFICES ASSUME PayInv, [Next]_vars, NEW w \in Workers,
                      job[w].op = "auto", job[w].at = "recalc", job'[w].at = "idle",
                      NEW s \in Stages, job[w].plan[s] > 0
               PROVE  contract[ContractOf[s]] = "COMPLETED" <=> PaidUp(ContractOf[s])
    OBVIOUS
  <2>1. job[w].closing = {}
    <3>1. ~Ignore /\ ~SyncDelete /\ ~Crash /\ ~UNCHANGED vars
      BY DEF Ignore, SyncDelete, Crash, Accept, vars
    <3>2. PICK v \in Workers : Step(v)
      BY <3>1 DEF Next
    <3>3. \A u \in Workers : u # v => job'[u] = job[u]
      BY <3>2, JobSet DEF PayInv, Step, StartAuto, AutoStages, AutoNothing, AutoCommit,
         StartLink, StartUnlink, Erase, LinkCommit, UnlinkCommit, RecalcRead,
         RecalcWrite, CloseRead, CloseWrite, Respond, Rest, Recalculate
    <3>4. Step(w)
      BY <3>2, <3>3
    <3>5. job[w] \in Jobs
      BY DEF PayInv, TypeInv, TypeOK
    <3>6. ~RecalcRead(w)
      <4> SUFFICES ASSUME RecalcRead(w) PROVE FALSE
        OBVIOUS
      <4>1. PICK r \in job[w].dirty :
              Set(w, [job[w] EXCEPT !.at = "write", !.target = r, !.paid = Paid(r)])
        BY DEF RecalcRead
      <4>2. [job[w] EXCEPT !.at = "write", !.target = r, !.paid = Paid(r)].at = "write"
        BY <3>5 DEF Jobs
      <4> QED
        BY <4>1, <4>2, JobSet DEF PayInv
    <3>7. ~CloseRead(w)
      <4> SUFFICES ASSUME CloseRead(w) PROVE FALSE
        OBVIOUS
      <4>1. PICK c \in job[w].closing :
              Set(w, IF Settled(c) THEN [job[w] EXCEPT !.at = "close", !.target = c]
                     ELSE [job[w] EXCEPT !.closing = @ \ {c}])
        BY DEF CloseRead
      <4>2. /\ [job[w] EXCEPT !.at = "close", !.target = c].at = "close"
            /\ [job[w] EXCEPT !.closing = @ \ {c}].at = "recalc"
        BY <3>5 DEF Jobs
      <4> QED
        BY <4>1, <4>2, JobSet DEF PayInv
    <3> QED
      BY <3>4, <3>6, <3>7 DEF Step, StartAuto, AutoStages, AutoNothing, AutoCommit,
         StartLink, StartUnlink, Erase, LinkCommit, UnlinkCommit, RecalcWrite,
         CloseWrite, Respond
  <2>2. ContractOf[s] \in Bought(w)
    BY DEF Bought
  <2> QED
    BY <2>1, <2>2 DEF PayInv, Closes, Closing
<1> QED
  BY InitPays, NextPays, <1>1, PTL DEF Spec, AutoCloses
=============================================================================
