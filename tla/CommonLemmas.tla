---------------------------- MODULE CommonLemmas ----------------------------
(***************************************************************************)
(* What the proofs about several components rest on: how to reason about   *)
(* what a loop has done up to each step; what a loop keeps of a list, for  *)
(* every list; and the places that a total order gives to the items of a   *)
(* list.                                                                   *)
(***************************************************************************)
EXTENDS Selections, TLAPS, SequenceTheorems, NaturalsInduction, WellFoundedInduction, FiniteSetTheorems

-----------------------------------------------------------------------------
(* Numbers, and induction and recursion on those up to a bound.            *)

\* What holds at first and then at every next number holds up to the last: of the
\* numbers for which it did not hold there would be a least one.
LEMMA UpTo ==
  ASSUME NEW N \in Nat, NEW good, 0 \in good, \A n \in 0..N : n < N /\ n \in good => n + 1 \in good
  PROVE  0..N \subseteq good
<1> DEFINE bad == (0..N) \ good
<1> SUFFICES ASSUME bad # {} PROVE FALSE
  OBVIOUS
<1>1. PICK m \in bad : \A n \in bad : <<n, m>> \notin OpToRel(<, Nat)
  <2>1. bad \subseteq Nat
    OBVIOUS
  <2> QED
    BY <2>1, WFMin, NatLessThanWellFounded
<1>2. m - 1 \in 0..N /\ m - 1 < N /\ (m - 1) + 1 = m
  OBVIOUS
<1>3. <<m - 1, m>> \in OpToRel(<, Nat)
  <2>1. m - 1 \in Nat /\ m \in Nat /\ m - 1 < m
    BY <1>2
  <2> QED
    BY <2>1 DEF OpToRel
<1> QED
  BY <1>1, <1>2, <1>3

\* A function that is defined by a step from each number to the next exists.
Computes(f, N, S, start, step) ==
  f \in [0..N -> S] /\ f[0] = start /\ \A n \in 1..N : f[n] = step[n][f[n - 1]]

\* A function that is defined by recursion on its argument exists.
LEMMA Recursion ==
  ASSUME NEW N \in Nat, NEW S, NEW start \in S, NEW step \in [1..N -> [S -> S]]
  PROVE  \E f : Computes(f, N, S, start, step)
<1> DEFINE Is(f, m) == f \in [0..m -> S] /\ f[0] = start /\ \A n \in 1..m : f[n] = step[n][f[n - 1]]
           good == {m \in 0..N : \E f : Is(f, m)}
<1>1. 0 \in good
  <2>1. Is([n \in 0..0 |-> start], 0)
    OBVIOUS
  <2> HIDE DEF Is
  <2> QED
    BY <2>1
<1>2. ASSUME NEW m \in 0..N, m < N, m \in good
      PROVE  m + 1 \in good
  <2>1. PICK f : Is(f, m)
    BY <1>2
  <2>2. m + 1 \in 1..N /\ m + 1 \in 0..N
    BY <1>2
  <2> DEFINE next == step[m + 1][f[m]]
             g == [n \in 0..(m + 1) |-> IF n = m + 1 THEN next ELSE f[n]]
  <2>3. next \in S
    BY <2>1, <2>2
  <2>4. g \in [0..(m + 1) -> S] /\ g[0] = start
    BY <2>1, <2>3
  <2>5. ASSUME NEW n \in 1..(m + 1)
        PROVE  g[n] = step[n][g[n - 1]]
    <3>1. n - 1 \in 0..m /\ n - 1 # m + 1
      OBVIOUS
    <3>2. g[n - 1] = f[n - 1]
      BY <3>1
    <3>3. CASE n = m + 1
      <4>1. n - 1 = m /\ g[n] = next
        BY <3>3
      <4> QED
        BY <3>2, <3>3, <4>1
    <3>4. CASE n \in 1..m
      <4>1. g[n] = f[n] /\ f[n] = step[n][f[n - 1]]
        BY <2>1, <3>4
      <4> QED
        BY <3>2, <4>1
    <3> QED
      BY <3>3, <3>4
  <2> HIDE DEF g
  <2>6. Is(g, m + 1)
    BY <2>4, <2>5
  <2> HIDE DEF Is
  <2> QED
    BY <2>2, <2>6
<1>3. \E f : Is(f, N)
  <2> HIDE DEF good
  <2>1. 0..N \subseteq good
    BY <1>1, <1>2, UpTo
  <2> QED
    BY <2>1 DEF good
<1> QED
  BY <1>3 DEF Computes

\* Numbers have a least one among them.
LEMMA Least ==
  ASSUME NEW numbers \in SUBSET Nat, numbers # {}
  PROVE  \E least \in numbers : \A n \in numbers : least <= n
<1>1. PICK least \in numbers : \A n \in numbers : <<n, least>> \notin OpToRel(<, Nat)
  BY WFMin, NatLessThanWellFounded
<1>2. least \in Nat /\ \A n \in numbers : n \in Nat
  BY <1>1
<1>3. \A n \in numbers : ~(n < least)
  BY <1>1, <1>2 DEF OpToRel
<1>4. \A n \in numbers : least <= n
  BY <1>2, <1>3
<1> QED
  BY <1>1, <1>4

\* Three values are not four.
LEMMA AtMostThree ==
  ASSUME NEW a, NEW b, NEW c
  PROVE  Cardinality({a, b, c}) # 4
<1>1. IsFiniteSet({a}) /\ Cardinality({a}) = 1
  BY FS_Singleton
<1>2. IsFiniteSet({a, b}) /\ Cardinality({a, b}) \in {1, 2}
  <2>1. {a} \cup {b} = {a, b}
    OBVIOUS
  <2> QED BY <1>1, <2>1, FS_AddElement
<1>3. Cardinality({a, b, c}) \in {1, 2, 3}
  <2>1. {a, b} \cup {c} = {a, b, c}
    OBVIOUS
  <2>2. Cardinality({a, b} \cup {c}) \in {Cardinality({a, b}), Cardinality({a, b}) + 1}
    BY <1>2, FS_AddElement
  <2> QED BY <1>2, <2>1, <2>2
<1> QED BY <1>3

-----------------------------------------------------------------------------
(* The items at some places.                                               *)

\* kept[n] is what the loop has kept of the first n items.
KeepingOf(kept, s, places) ==
  /\ kept[0] = <<>>
  /\ \A n \in 1..Len(s) : kept[n] = IF n \in places THEN Append(kept[n - 1], s[n]) ELSE kept[n - 1]
  /\ ItemsAt(s, places) = kept[Len(s)]

\* The loop is a fold.
LEMMA Keeping ==
  ASSUME NEW S, NEW s \in Seq(S), NEW places
  PROVE  \E kept : kept \in [0..Len(s) -> Seq(S)] /\ KeepingOf(kept, s, places)
<1> DEFINE N == Len(s)
           Is(f) == f = [i \in 0..N |-> IF i = 0 THEN <<>>
                                        ELSE IF i \in places THEN Append(f[i - 1], s[i]) ELSE f[i - 1]]
           step == [n \in 1..N |-> [seq \in Seq(S) |-> IF n \in places THEN Append(seq, s[n]) ELSE seq]]
           kept == CHOOSE f : Is(f)
<1>1. N \in Nat /\ \A i \in 1..N : s[i] \in S
  BY LenProperties, ElementOfSeq
<1>2. step \in [1..N -> [Seq(S) -> Seq(S)]] /\ <<>> \in Seq(S)
  BY <1>1, AppendProperties, EmptySeq
<1>3. \A seq \in Seq(S), n \in 1..N : step[n][seq] = IF n \in places THEN Append(seq, s[n]) ELSE seq
  OBVIOUS
<1> HIDE DEF step, N
<1>4. PICK f : Computes(f, N, Seq(S), <<>>, step)
  BY <1>1, <1>2, Recursion
<1>5. f \in [0..N -> Seq(S)] /\ Is(f)
  <2>1. ASSUME NEW n \in 0..N
        PROVE  f[n] = IF n = 0 THEN <<>> ELSE IF n \in places THEN Append(f[n - 1], s[n]) ELSE f[n - 1]
    <3>1. n # 0 => n - 1 \in 0..N /\ n \in 1..N
      BY <1>1
    <3> QED
      BY <1>3, <1>4, <3>1 DEF Computes
  <2>2. f = [n \in 0..N |-> f[n]] /\ f \in [0..N -> Seq(S)]
    BY <1>4 DEF Computes
  <2> QED
    BY <2>1, <2>2
<1>6. Is(kept)
  <2> HIDE DEF Is
  <2> QED
    BY <1>5
<1>7. ItemsAt(s, places) = kept[N]
  BY DEF ItemsAt, N
<1> HIDE DEF kept
<1>8. kept[0] = <<>>
  BY <1>1, <1>6
<1>9. ASSUME NEW n \in 1..N
      PROVE  kept[n] = IF n \in places THEN Append(kept[n - 1], s[n]) ELSE kept[n - 1]
  <2>1. n \in 0..N /\ n # 0
    BY <1>1
  <2> QED
    BY <1>6, <2>1
<1>10. kept \in [0..N -> Seq(S)]
  <2>1. DOMAIN kept = 0..N /\ kept = [n \in 0..N |-> kept[n]]
    BY <1>6
  <2> DEFINE good == {n \in 0..N : kept[n] \in Seq(S)}
  <2>2. 0 \in good
    <3>1. 0 \in 0..N /\ kept[0] \in Seq(S)
      BY <1>1, <1>2, <1>8
    <3> QED
      BY <3>1
  <2>3. ASSUME NEW n \in 0..N, n < N, n \in good
        PROVE  n + 1 \in good
    <3>1. n + 1 \in 1..N /\ n + 1 \in 0..N /\ (n + 1) - 1 = n
      BY <1>1, <2>3
    <3>2. kept[n + 1] = IF n + 1 \in places THEN Append(kept[n], s[n + 1]) ELSE kept[n]
      BY <1>9, <3>1
    <3>3. Append(kept[n], s[n + 1]) \in Seq(S)
      BY <1>1, <2>3, <3>1, AppendProperties
    <3> QED
      BY <2>3, <3>1, <3>2, <3>3
  <2>4. 0..N \subseteq good
    <3> HIDE DEF good
    <3> QED
      BY <1>1, <2>2, <2>3, UpTo
  <2> QED
    BY <2>1, <2>4
<1> QED
  BY <1>7, <1>8, <1>9, <1>10 DEF KeepingOf, N

\* What is kept is a list of the same kind.
LEMMA ItemsAreAList ==
  ASSUME NEW S, NEW s \in Seq(S), NEW places
  PROVE  ItemsAt(s, places) \in Seq(S)
<1>1. PICK kept : kept \in [0..Len(s) -> Seq(S)] /\ KeepingOf(kept, s, places)
  BY Keeping
<1>2. Len(s) \in Nat
  BY LenProperties
<1> QED
  BY <1>1, <1>2 DEF KeepingOf

\* No place, no item; and places that are not in the list do not count.
LEMMA SamePlaces ==
  ASSUME NEW S, NEW s \in Seq(S), NEW places, NEW others, places \cap (1..Len(s)) = others \cap (1..Len(s))
  PROVE  ItemsAt(s, places) = ItemsAt(s, others)
<1> DEFINE N == Len(s)
<1>1. N \in Nat
  BY LenProperties
<1>2. PICK f : KeepingOf(f, s, places)
  BY Keeping
<1>3. PICK g : KeepingOf(g, s, others)
  BY Keeping
<1> DEFINE good == {n \in 0..N : f[n] = g[n]}
<1>4. 0 \in good
  BY <1>1, <1>2, <1>3 DEF KeepingOf
<1>5. ASSUME NEW n \in 0..N, n < N, n \in good
      PROVE  n + 1 \in good
  <2>1. n + 1 \in 1..N /\ n + 1 \in 0..N /\ (n + 1) - 1 = n
    BY <1>1, <1>5
  <2>2. (n + 1 \in places) <=> (n + 1 \in others)
    BY <2>1
  <2>3. /\ f[n + 1] = IF n + 1 \in places THEN Append(f[n], s[n + 1]) ELSE f[n]
        /\ g[n + 1] = IF n + 1 \in others THEN Append(g[n], s[n + 1]) ELSE g[n]
    BY <1>2, <1>3, <2>1 DEF KeepingOf
  <2> QED
    BY <1>5, <2>1, <2>2, <2>3
<1>6. N \in good
  <2> HIDE DEF good
  <2>1. 0..N \subseteq good
    BY <1>1, <1>4, <1>5, UpTo
  <2> QED
    BY <1>1, <2>1
<1> QED
  BY <1>2, <1>3, <1>6 DEF KeepingOf

\* Before the first place nothing is kept, and then at most every item.
LEMMA KeptLength ==
  ASSUME NEW S, NEW s \in Seq(S), NEW x \in 1..(Len(s) + 1), NEW places \in SUBSET (x..Len(s))
  PROVE  Len(ItemsAt(s, places)) \in 0..(Len(s) + 1 - x)
<1> DEFINE N == Len(s)
<1>1. N \in Nat
  BY LenProperties
<1>2. PICK f : f \in [0..N -> Seq(S)] /\ KeepingOf(f, s, places)
  BY Keeping
<1> DEFINE good == {n \in 0..N : IF n < x THEN f[n] = <<>> ELSE Len(f[n]) <= n + 1 - x}
<1>3. 0 \in good
  BY <1>1, <1>2 DEF KeepingOf
<1>4. ASSUME NEW n \in 0..N, n < N, n \in good
      PROVE  n + 1 \in good
  <2>1. n + 1 \in 1..N /\ n + 1 \in 0..N /\ (n + 1) - 1 = n /\ s[n + 1] \in S /\ f[n] \in Seq(S)
    BY <1>1, <1>2, <1>4, ElementOfSeq
  <2>2. f[n + 1] = IF n + 1 \in places THEN Append(f[n], s[n + 1]) ELSE f[n]
    BY <1>2, <2>1 DEF KeepingOf
  <2>3. Len(f[n]) \in Nat /\ Len(Append(f[n], s[n + 1])) = Len(f[n]) + 1 /\ Len(<<>>) = 0
    BY <2>1, LenProperties, AppendProperties, EmptySeq
  <2>4. CASE n + 1 < x
    <3>1. n < x /\ n + 1 \notin places
      BY <2>4
    <3> QED
      BY <1>4, <2>1, <2>2, <2>4, <3>1
  <2>5. CASE ~(n + 1 < x)
    <3>1. Len(f[n]) <= n + 1 - x
      <4>1. CASE n < x
        BY <1>4, <2>3, <2>5, <4>1
      <4>2. CASE ~(n < x)
        BY <1>4, <4>2
      <4> QED
        BY <4>1, <4>2
    <3>2. Len(f[n + 1]) <= Len(f[n]) + 1
      BY <2>2, <2>3
    <3>3. Len(f[n + 1]) \in Nat
      BY <2>2, <2>3
    <3>4. Len(f[n + 1]) <= (n + 1) + 1 - x
      BY <2>3, <3>1, <3>2, <3>3
    <3> QED
      BY <2>1, <2>5, <3>4
  <2> QED
    BY <2>4, <2>5
<1>5. N \in good
  <2> HIDE DEF good
  <2>1. 0..N \subseteq good
    BY <1>1, <1>3, <1>4, UpTo
  <2> QED
    BY <1>1, <2>1
<1>6. f[N] \in Seq(S) /\ Len(f[N]) \in Nat /\ Len(<<>>) = 0
  BY <1>1, <1>2, LenProperties, EmptySeq
<1>7. Len(f[N]) <= N + 1 - x
  BY <1>1, <1>5, <1>6
<1> QED
  BY <1>1, <1>2, <1>6, <1>7 DEF KeepingOf

\* A list with one more item before the others.
BeginningWith(e, seq) == <<e>> \o seq

\* It is one longer, and its first item and the others can be told apart.
LEMMA BeginningIsOneMore ==
  ASSUME NEW S, NEW e \in S, NEW seq \in Seq(S)
  PROVE  BeginningWith(e, seq) \in Seq(S) /\ Len(BeginningWith(e, seq)) = 1 + Len(seq) /\ Len(seq) \in Nat
BY LenProperties DEF BeginningWith

\* The same, for two lists that are the same.
LEMMA SameBeginnings ==
  ASSUME NEW S, NEW e \in S, NEW seq \in Seq(S), NEW f \in S, NEW other \in Seq(S),
         BeginningWith(e, seq) = BeginningWith(f, other)
  PROVE  e = f /\ seq = other
<1>1. \A g \in S, q \in Seq(S) : Head(BeginningWith(g, q)) = g /\ Tail(BeginningWith(g, q)) = q
  <2> SUFFICES ASSUME NEW g \in S, NEW q \in Seq(S)
               PROVE  Head(BeginningWith(g, q)) = g /\ Tail(BeginningWith(g, q)) = q
    OBVIOUS
  <2>1. /\ <<g>> \in Seq(S) /\ Len(<<g>>) = 1 /\ <<g>>[1] = g /\ Len(q) \in Nat
    BY LenProperties
  <2> DEFINE u == <<g>> \o q
  <2>2. u \in Seq(S) /\ Len(u) = 1 + Len(q) /\ u[1] = g /\ \A i \in 1..Len(q) : u[i + 1] = q[i]
    BY <2>1
  <2> HIDE DEF u
  <2>3. Head(u) = g
    BY <2>1, <2>2
  <2>4. Tail(u) \in Seq(S) /\ Len(Tail(u)) = Len(q) /\ \A i \in 1..Len(q) : Tail(u)[i] = q[i]
    BY <2>1, <2>2
  <2>5. Tail(u) = q
    BY <2>4, SeqEqual
  <2> QED
    BY <2>3, <2>5 DEF u, BeginningWith
<1> QED
  BY <1>1

\* Without its first place, a list loses its first item.
LEMMA FirstItem ==
  ASSUME NEW S, NEW s \in Seq(S), NEW x \in 1..Len(s), NEW places \in SUBSET (x..Len(s)), x \in places
  PROVE  ItemsAt(s, places) = BeginningWith(s[x], ItemsAt(s, places \ {x}))
<1> DEFINE N == Len(s)
<1>1. N \in Nat /\ s[x] \in S /\ x \in Nat
  BY LenProperties, ElementOfSeq
<1>2. PICK f : f \in [0..N -> Seq(S)] /\ KeepingOf(f, s, places)
  BY Keeping
<1>3. PICK g : g \in [0..N -> Seq(S)] /\ KeepingOf(g, s, places \ {x})
  BY Keeping
<1>4. \A seq \in Seq(S), e \in S : BeginningWith(s[x], Append(seq, e)) = Append(BeginningWith(s[x], seq), e)
  BY <1>1 DEF BeginningWith
<1> DEFINE good == {n \in 0..N : /\ n < x => f[n] = <<>> /\ g[n] = <<>>
                                 /\ ~(n < x) => f[n] = BeginningWith(s[x], g[n])}
<1>5. 0 \in good
  BY <1>1, <1>2, <1>3 DEF KeepingOf
<1>6. ASSUME NEW n \in 0..N, n < N, n \in good
      PROVE  n + 1 \in good
  <2>1. n + 1 \in 1..N /\ n + 1 \in 0..N /\ (n + 1) - 1 = n /\ s[n + 1] \in S /\ g[n] \in Seq(S)
    BY <1>1, <1>3, <1>6, ElementOfSeq
  <2>2. /\ f[n + 1] = IF n + 1 \in places THEN Append(f[n], s[n + 1]) ELSE f[n]
        /\ g[n + 1] = IF n + 1 \in places \ {x} THEN Append(g[n], s[n + 1]) ELSE g[n]
    BY <1>2, <1>3, <2>1 DEF KeepingOf
  <2>3. CASE n + 1 < x
    <3>1. n < x /\ n + 1 \notin places
      BY <2>3
    <3> QED
      BY <1>6, <2>1, <2>2, <2>3, <3>1
  <2>4. CASE n + 1 = x
    <3>1. n < x /\ ~(n + 1 < x)
      BY <1>1, <2>4
    <3>2. f[n + 1] = Append(<<>>, s[x]) /\ g[n + 1] = <<>>
      BY <1>6, <2>2, <2>4, <3>1
    <3>3. f[n + 1] = BeginningWith(s[x], g[n + 1])
      BY <1>1, <3>2 DEF BeginningWith
    <3> QED
      BY <2>1, <3>1, <3>3
  <2>5. CASE n + 1 > x
    <3>1. ~(n < x) /\ ~(n + 1 < x) /\ n + 1 # x
      BY <1>1, <2>5
    <3>2. f[n] = BeginningWith(s[x], g[n])
      BY <1>6, <3>1
    <3>3. (n + 1 \in places) <=> (n + 1 \in places \ {x})
      BY <3>1
    <3>4. f[n + 1] = BeginningWith(s[x], g[n + 1])
      BY <1>4, <2>1, <2>2, <3>2, <3>3
    <3> QED
      BY <2>1, <3>1, <3>4
  <2> QED
    BY <1>1, <2>1, <2>3, <2>4, <2>5
<1>7. N \in good
  <2> HIDE DEF good
  <2>1. 0..N \subseteq good
    BY <1>1, <1>5, <1>6, UpTo
  <2> QED
    BY <1>1, <2>1
<1>8. f[N] = BeginningWith(s[x], g[N])
  BY <1>1, <1>7
<1> QED
  BY <1>2, <1>3, <1>8 DEF KeepingOf

\* No place, no item.
LEMMA NoPlaces ==
  ASSUME NEW S, NEW s \in Seq(S)
  PROVE  ItemsAt(s, {}) = <<>>
<1>1. Len(s) \in Nat /\ ItemsAt(s, {}) \in Seq(S)
  BY LenProperties, ItemsAreAList
<1>2. Len(s) + 1 \in 1..(Len(s) + 1) /\ {} \in SUBSET ((Len(s) + 1)..Len(s))
  BY <1>1
<1>3. Len(ItemsAt(s, {})) \in 0..(Len(s) + 1 - (Len(s) + 1))
  BY <1>2, KeptLength
<1> QED
  BY <1>1, <1>3, EmptySeq

\* A list that is not empty begins with the item at the first place.
LEMMA LosesFirst ==
  ASSUME NEW S, NEW s \in Seq(S), NEW x \in 1..(Len(s) + 1), NEW places \in SUBSET (x..Len(s)), places # {}
  PROVE  \E first \in places :
           /\ ItemsAt(s, places) = BeginningWith(s[first], ItemsAt(s, places \ {first}))
           /\ places \ {first} \in SUBSET ((x + 1)..Len(s))
           /\ x \in places => first = x
<1>1. Len(s) \in Nat /\ places \in SUBSET Nat
  BY LenProperties
<1>2. PICK first \in places : \A n \in places : first <= n
  BY <1>1, Least
<1>3. first \in 1..Len(s) /\ places \in SUBSET (first..Len(s))
  BY <1>1, <1>2
<1>4. ItemsAt(s, places) = BeginningWith(s[first], ItemsAt(s, places \ {first}))
  BY <1>3, FirstItem
<1>5. places \ {first} \in SUBSET ((x + 1)..Len(s))
  BY <1>1, <1>2
<1>6. x \in places => first = x
  BY <1>1, <1>2
<1> QED
  BY <1>4, <1>5, <1>6

\* The same, where the other places have a name.
LEMMA FirstOfPlaces ==
  ASSUME NEW S, NEW s \in Seq(S), NEW x \in 1..Len(s), NEW places \in SUBSET (x..Len(s)),
         NEW others, x \in places, others = places \ {x}
  PROVE  ItemsAt(s, places) = BeginningWith(s[x], ItemsAt(s, others))
BY FirstItem

\* A selection of a list has items of the list that pass the test.
LEMMA ChosenItems ==
  ASSUME NEW S, NEW s \in Seq(S), NEW places
  PROVE  /\ ItemsAt(s, places) \in Seq(S)
         /\ \A k \in DOMAIN ItemsAt(s, places) : \E i \in DOMAIN s : i \in places /\ ItemsAt(s, places)[k] = s[i]
<1> DEFINE N == Len(s)
<1>1. N \in Nat /\ DOMAIN s = 1..N /\ \A n \in 1..N : s[n] \in S
  BY LenProperties, ElementOfSeq
<1>2. PICK kept : kept \in [0..N -> Seq(S)] /\ KeepingOf(kept, s, places)
  BY Keeping
<1> DEFINE good == {n \in 0..N : \A k \in DOMAIN kept[n] : \E i \in DOMAIN s : i \in places /\ kept[n][k] = s[i]}
<1>3. 0 \in good
  BY <1>1, <1>2, EmptySeq DEF KeepingOf
<1>4. ASSUME NEW n \in 0..N, n < N, n \in good
      PROVE  n + 1 \in good
  <2>1. PICK m \in 1..N : m = n + 1 /\ m - 1 = n /\ m \in 0..N
    BY <1>1, <1>4
  <2>2. kept[m] = IF m \in places THEN Append(kept[n], s[m]) ELSE kept[n]
    BY <1>2, <2>1 DEF KeepingOf
  <2>3. kept[n] \in Seq(S) /\ s[m] \in S
    BY <1>1, <1>2, <2>1
  <2>4. PICK l \in Nat : l = Len(kept[n]) /\ DOMAIN kept[n] = 1..l
    BY <2>3, LenProperties
  <2>5. /\ DOMAIN Append(kept[n], s[m]) = 1..(l + 1) /\ Append(kept[n], s[m])[l + 1] = s[m]
        /\ \A k \in 1..l : Append(kept[n], s[m])[k] = kept[n][k]
    BY <2>3, <2>4, AppendProperties, LenProperties
  <2>6. \A k \in 1..(l + 1) : k \in 1..l \/ k = l + 1
    BY <2>4
  <2>7. \A k \in DOMAIN kept[m] : \E i \in DOMAIN s : i \in places /\ kept[m][k] = s[i]
    <3>1. CASE m \in places
      <4>1. kept[m] = Append(kept[n], s[m]) /\ m \in DOMAIN s
        BY <1>1, <2>2, <3>1
      <4>2. \A k \in 1..l : \E i \in DOMAIN s : i \in places /\ kept[n][k] = s[i]
        BY <1>4, <2>4
      <4> QED
        BY <2>5, <2>6, <3>1, <4>1, <4>2
    <3>2. CASE m \notin places
      BY <1>4, <2>2, <3>2
    <3> QED
      BY <3>1, <3>2
  <2> QED
    BY <2>1, <2>7
<1>5. N \in good
  <2> HIDE DEF good
  <2>1. 0..N \subseteq good
    BY <1>1, <1>3, <1>4, UpTo
  <2> QED
    BY <1>1, <2>1
<1>6. ItemsAt(s, places) = kept[N] /\ kept[N] \in Seq(S)
  BY <1>1, <1>2 DEF KeepingOf
<1> QED
  BY <1>5, <1>6

\* The next item that is kept stands behind those that have been.
StandsBehind(kept, s, places) ==
  \A n \in 1..Len(s) : n \in places =>
    /\ Len(kept[n]) = Len(kept[n - 1]) + 1 /\ Len(kept[n]) \in 1..Len(ItemsAt(s, places))
    /\ ItemsAt(s, places)[Len(kept[n])] = s[n]

\* A list of items keeps what the loop has kept first.
LEMMA KeptBefore ==
  ASSUME NEW S, NEW s \in Seq(S), NEW places
  PROVE  \E kept : kept \in [0..Len(s) -> Seq(S)] /\ KeepingOf(kept, s, places) /\ StandsBehind(kept, s, places)
<1> DEFINE N == Len(s)
<1>1. N \in Nat /\ \A n \in 1..N : s[n] \in S
  BY LenProperties, ElementOfSeq
<1>2. PICK kept : kept \in [0..N -> Seq(S)] /\ KeepingOf(kept, s, places)
  BY Keeping
<1>3. \A n \in 0..N : kept[n] \in Seq(S) /\ Len(kept[n]) \in Nat
  BY <1>2, LenProperties
<1> DEFINE good == {m \in 0..N : \A n \in 0..m, k \in Nat : k \in 1..Len(kept[n]) =>
                      k \in 1..Len(kept[m]) /\ kept[m][k] = kept[n][k]}
<1>4. 0 \in good
  BY <1>1
<1>5. ASSUME NEW m \in 0..N, m < N, m \in good
      PROVE  m + 1 \in good
  <2>1. m + 1 \in 1..N /\ m + 1 \in 0..N /\ (m + 1) - 1 = m /\ s[m + 1] \in S
    BY <1>1, <1>5
  <2>2. kept[m + 1] = IF m + 1 \in places THEN Append(kept[m], s[m + 1]) ELSE kept[m]
    BY <1>2, <2>1 DEF KeepingOf
  <2>3. \A k \in 1..Len(kept[m]) : k \in 1..Len(kept[m + 1]) /\ kept[m + 1][k] = kept[m][k]
    <3>1. Len(Append(kept[m], s[m + 1])) = Len(kept[m]) + 1
          /\ \A k \in 1..Len(kept[m]) : Append(kept[m], s[m + 1])[k] = kept[m][k]
      BY <1>3, <2>1, AppendProperties
    <3> QED
      BY <1>3, <2>2, <3>1
  <2>4. ASSUME NEW n \in 0..(m + 1), NEW k \in Nat, k \in 1..Len(kept[n])
        PROVE  k \in 1..Len(kept[m + 1]) /\ kept[m + 1][k] = kept[n][k]
    <3>1. CASE n = m + 1
      BY <2>4, <3>1
    <3>2. CASE n # m + 1
      <4>1. n \in 0..m
        BY <2>1, <3>2
      <4>2. k \in 1..Len(kept[m]) /\ kept[m][k] = kept[n][k]
        BY <1>5, <2>4, <4>1
      <4> QED
        BY <2>3, <4>2
    <3> QED
      BY <3>1, <3>2
  <2> QED
    BY <2>1, <2>4
<1>6. N \in good
  <2> HIDE DEF good
  <2>1. 0..N \subseteq good
    BY <1>1, <1>4, <1>5, UpTo
  <2> QED
    BY <1>1, <2>1
<1>7. ASSUME NEW n \in 1..N, n \in places
      PROVE  /\ Len(kept[n]) = Len(kept[n - 1]) + 1 /\ Len(kept[n]) \in 1..Len(kept[N])
             /\ kept[N][Len(kept[n])] = s[n]
  <2>1. n - 1 \in 0..N /\ n \in 0..N /\ s[n] \in S
    BY <1>1
  <2>2. kept[n] = Append(kept[n - 1], s[n])
    BY <1>2, <1>7 DEF KeepingOf
  <2>3. Len(kept[n]) = Len(kept[n - 1]) + 1 /\ kept[n][Len(kept[n - 1]) + 1] = s[n]
    BY <1>3, <2>1, <2>2, AppendProperties
  <2>4. Len(kept[n]) \in 1..Len(kept[n]) /\ Len(kept[n]) \in Nat
    BY <1>3, <2>1, <2>3
  <2>5. Len(kept[n]) \in 1..Len(kept[N]) /\ kept[N][Len(kept[n])] = kept[n][Len(kept[n])]
    BY <1>6, <2>1, <2>4
  <2> QED
    BY <2>3, <2>5
<1>8. ItemsAt(s, places) = kept[N]
  BY <1>2 DEF KeepingOf
<1>9. StandsBehind(kept, s, places)
  BY <1>7, <1>8 DEF StandsBehind
<1> QED
  BY <1>2, <1>9

\* At every place of a list stands one of its items.
LEMMA AllItems ==
  ASSUME NEW S, NEW s \in Seq(S)
  PROVE  ItemsAt(s, 1..Len(s)) = s
<1> DEFINE N == Len(s)
<1>1. N \in Nat /\ \A n \in 1..N : s[n] \in S
  BY LenProperties, ElementOfSeq
<1>2. PICK kept : kept \in [0..N -> Seq(S)] /\ KeepingOf(kept, s, 1..N)
  BY Keeping
<1> DEFINE good == {n \in 0..N : Len(kept[n]) = n /\ \A k \in 1..n : kept[n][k] = s[k]}
<1>3. 0 \in good
  BY <1>1, <1>2, EmptySeq DEF KeepingOf
<1>4. ASSUME NEW n \in 0..N, n < N, n \in good
      PROVE  n + 1 \in good
  <2>1. n + 1 \in 1..N /\ n + 1 \in 0..N /\ (n + 1) - 1 = n /\ s[n + 1] \in S /\ kept[n] \in Seq(S)
    BY <1>1, <1>2, <1>4
  <2>2. kept[n + 1] = Append(kept[n], s[n + 1])
    BY <1>2, <2>1 DEF KeepingOf
  <2>3. /\ Len(kept[n + 1]) = n + 1 /\ kept[n + 1][n + 1] = s[n + 1]
        /\ \A k \in 1..n : kept[n + 1][k] = s[k]
    BY <1>4, <2>1, <2>2, AppendProperties
  <2>4. \A k \in 1..(n + 1) : k \in 1..n \/ k = n + 1
    BY <2>1
  <2> QED
    BY <2>1, <2>3, <2>4
<1>5. N \in good
  <2> HIDE DEF good
  <2>1. 0..N \subseteq good
    BY <1>1, <1>3, <1>4, UpTo
  <2> QED
    BY <1>1, <2>1
<1>6. ItemsAt(s, 1..N) = kept[N] /\ kept[N] \in Seq(S)
  BY <1>1, <1>2 DEF KeepingOf
<1>7. kept[N] = s
  BY <1>5, <1>6, SeqEqual
<1> QED
  BY <1>6, <1>7

\* And at every place but the first one of those behind it.
LEMMA OtherItems ==
  ASSUME NEW S, NEW s \in Seq(S), s # <<>>
  PROVE  ItemsAt(s, 2..Len(s)) = Tail(s)
<1> DEFINE N == Len(s)
<1>1. N \in Nat /\ 1 \in 1..N /\ s[1] \in S /\ Tail(s) \in Seq(S)
  BY EmptySeq, LenProperties, HeadTailProperties, ElementOfSeq
<1>2. s = BeginningWith(s[1], Tail(s))
  BY <1>1, HeadTailProperties DEF BeginningWith
<1>3. (1..N) \ {1} = 2..N /\ 1..N \in SUBSET (1..N)
  BY <1>1
<1>4. ItemsAt(s, 1..N) = BeginningWith(s[1], ItemsAt(s, 2..N))
  BY <1>1, <1>3, FirstItem
<1>5. ItemsAt(s, 2..N) \in Seq(S)
  BY ItemsAreAList
<1>6. BeginningWith(s[1], ItemsAt(s, 2..N)) = BeginningWith(s[1], Tail(s))
  BY <1>2, <1>4, AllItems
<1>7. PICK e \in S, rest \in Seq(S), tail \in Seq(S) : e = s[1] /\ rest = ItemsAt(s, 2..N) /\ tail = Tail(s)
  BY <1>1, <1>5
<1>8. rest = tail
  <2>1. BeginningWith(e, rest) = BeginningWith(e, tail)
    BY <1>6, <1>7
  <2> QED
    BY <2>1, SameBeginnings
<1> QED
  BY <1>7, <1>8

\* A single place.
LEMMA OnePlace ==
  ASSUME NEW S, NEW s \in Seq(S), NEW x \in 1..Len(s)
  PROVE  ItemsAt(s, {x}) = <<s[x]>>
<1>1. Len(s) \in Nat /\ s[x] \in S
  BY LenProperties, ElementOfSeq
<1>2. {x} \in SUBSET (x..Len(s)) /\ {x} \ {x} = {} /\ x \in {x}
  BY <1>1
<1>3. ItemsAt(s, {x}) = BeginningWith(s[x], ItemsAt(s, {x} \ {x}))
  BY <1>2, FirstItem
<1>4. ItemsAt(s, {x}) = BeginningWith(s[x], <<>>)
  BY <1>2, <1>3, NoPlaces
<1> QED
  BY <1>1, <1>4 DEF BeginningWith

-----------------------------------------------------------------------------
(* Orders.                                                                 *)

\* A total order of the first N numbers, and how many of them it puts before one.
TotalOrder(less, N) ==
  /\ \A i \in 1..N : <<i, i>> \notin less
  /\ \A i, j \in 1..N : i # j => <<i, j>> \in less \/ <<j, i>> \in less
  /\ \A i, j, k \in 1..N : <<i, j>> \in less /\ <<j, k>> \in less => <<i, k>> \in less

Less(less, N, i)   == {j \in 1..N : <<j, i>> \in less}
Earlier(less, N, i) == Cardinality(Less(less, N, i))

\* The more it puts before one, the later one comes.
LEMMA EarlierGrows ==
  ASSUME NEW N \in Nat, NEW less, TotalOrder(less, N)
  PROVE  /\ \A i \in 1..N : Earlier(less, N, i) \in 0..(N - 1)
         /\ \A i, k \in 1..N : <<i, k>> \in less => Earlier(less, N, i) < Earlier(less, N, k)
<1>1. IsFiniteSet(1..N) /\ Cardinality(1..N) = N
  BY FS_Interval
<1>2. ASSUME NEW i \in 1..N, NEW set, set \subseteq 1..N, Less(less, N, i) \subseteq set, i \in set
      PROVE  /\ Earlier(less, N, i) \in Nat /\ Cardinality(set) \in Nat
             /\ Earlier(less, N, i) < Cardinality(set)
  <2> DEFINE others == Less(less, N, i)
  <2>1. IsFiniteSet(set)
    BY <1>1, <1>2, FS_Subset
  <2>2. IsFiniteSet(others) /\ Cardinality(others) <= Cardinality(set)
        /\ (Cardinality(others) = Cardinality(set) => others = set)
    BY <1>2, <2>1, FS_Subset
  <2>3. others # set
    BY <1>2 DEF Less, TotalOrder
  <2>4. Cardinality(others) \in Nat /\ Cardinality(set) \in Nat
    BY <2>1, <2>2, FS_CardinalityType
  <2> HIDE DEF others
  <2>5. Cardinality(others) < Cardinality(set)
    BY <2>2, <2>3, <2>4
  <2> QED
    BY <2>4, <2>5 DEF Earlier, others
<1>3. ASSUME NEW i \in 1..N
      PROVE  Earlier(less, N, i) \in 0..(N - 1)
  <2>1. Less(less, N, i) \subseteq 1..N
    BY DEF Less
  <2> DEFINE e == Earlier(less, N, i)
  <2>2. e \in Nat /\ e < N
    <3> DEFINE set == 1..N
    <3>1. set \subseteq 1..N /\ i \in set /\ Cardinality(set) = N
      BY <1>1
    <3> HIDE DEF set
    <3> QED
      BY <1>2, <2>1, <3>1 DEF set
  <2> HIDE DEF e
  <2> QED
    BY <2>2 DEF e
<1>4. ASSUME NEW i \in 1..N, NEW k \in 1..N, <<i, k>> \in less
      PROVE  Earlier(less, N, i) < Earlier(less, N, k)
  <2>1. Less(less, N, i) \subseteq Less(less, N, k) /\ i \in Less(less, N, k) /\ Less(less, N, k) \subseteq 1..N
    BY <1>4 DEF Less, TotalOrder
  <2> QED
    BY <1>2, <2>1 DEF Earlier
<1> QED
  BY <1>3, <1>4

\* And so each place is somebody's.
LEMMA EveryPlaceTaken ==
  ASSUME NEW N \in Nat, NEW less, TotalOrder(less, N)
  PROVE  \A k \in 1..N : \E i \in 1..N : Earlier(less, N, i) = k - 1
<1> DEFINE rank == [i \in 1..N |-> Earlier(less, N, i)]
           places == 0..(N - 1)
<1>1. IsFiniteSet(1..N) /\ Cardinality(1..N) = N /\ IsFiniteSet(places) /\ Cardinality(places) = N
  <2>1. /\ Cardinality(1..N) = IF 1 > N THEN 0 ELSE N - 1 + 1
        /\ Cardinality(0..(N - 1)) = IF 0 > N - 1 THEN 0 ELSE (N - 1) - 0 + 1
        /\ IsFiniteSet(1..N) /\ IsFiniteSet(0..(N - 1))
    BY FS_Interval
  <2> QED
    BY <2>1
<1>2. rank \in [1..N -> places]
  BY EarlierGrows
<1>3. \A i, j \in 1..N : rank[i] = rank[j] => i = j
  <2> SUFFICES ASSUME NEW i \in 1..N, NEW j \in 1..N, i # j
               PROVE  rank[i] # rank[j]
    OBVIOUS
  <2>1. rank[i] < rank[j] \/ rank[j] < rank[i]
    BY EarlierGrows DEF TotalOrder
  <2>2. rank[i] \in Int /\ rank[j] \in Int
    BY <1>2
  <2> QED
    BY <2>1, <2>2
<1>4. rank \in Injection(1..N, places)
  <2> HIDE DEF rank, places
  <2> QED
    BY <1>2, <1>3 DEF Injection, IsInjective
<1>5. rank \in Surjection(1..N, places)
  <2> HIDE DEF rank, places
  <2> QED
    BY <1>1, <1>4, FS_Injection
<1>6. \A p \in places : \E i \in 1..N : rank[i] = p
  BY <1>5 DEF Surjection
<1>7. \A k \in 1..N : k - 1 \in places
  OBVIOUS
<1> QED
  BY <1>6, <1>7
=============================================================================
