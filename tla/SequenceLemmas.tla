--------------------------- MODULE SequenceLemmas ---------------------------
(***************************************************************************)
(* Facts about sequences: the queues of the scheduler and of the planner,  *)
(* which list every element at most once; and FlattenSeq, out of which the *)
(* texts of an edge are made.  What a recursive function computes is shown *)
(* by induction on the set of the numbers of which it is right.            *)
(***************************************************************************)
EXTENDS Integers, SequencesExt, FiniteSetTheorems, FunctionTheorems,
        SequenceTheorems, WellFoundedInduction, TLAPS

(* An enumeration of a finite set is a sequence that lists each element    *)
(* exactly once.                                                           *)
LEMMA Enumeration ==
  ASSUME NEW T, IsFiniteSet(T), NEW s \in SetToSeqs(T)
  PROVE  /\ s \in Seq(T)
         /\ IsInjective(s)
         /\ Range(s) = T
<1> DEFINE D == 1..Cardinality(T)
<1>1. Cardinality(T) \in Nat
  BY FS_CardinalityType
<1>2. s \in [D -> T] /\ \A i, j \in D : i # j => s[i] # s[j]
  BY DEF SetToSeqs
<1>3. s \in Seq(T)
  BY <1>1, <1>2, SeqDef
<1>4. IsInjective(s)
  BY <1>2 DEF IsInjective
<1>5. s \in Injection(D, T)
  BY <1>2, Fun_IsInj
<1>6. Cardinality(D) = Cardinality(T)
  BY <1>1, FS_Interval
<1>7. s \in Surjection(D, T)
  BY <1>5, <1>6, FS_Injection
<1>8. Range(s) = T
  BY <1>7, Fun_SurjectionProperties
<1>. QED BY <1>3, <1>4, <1>8

(* Taking the head of a queue without duplicates.                          *)
LEMMA TakeHead ==
  ASSUME NEW S, NEW q \in Seq(S), q # <<>>, IsInjective(q)
  PROVE  /\ Head(q) \in Range(q)
         /\ Tail(q) \in Seq(S)
         /\ IsInjective(Tail(q))
         /\ Range(Tail(q)) = Range(q) \ {Head(q)}
<1>1. Len(q) \in Nat /\ DOMAIN q = 1..Len(q) /\ Len(q) # 0
  BY EmptySeq, LenProperties, SeqEqual
<1>2. /\ Tail(q) \in Seq(S) /\ Len(Tail(q)) = Len(q) - 1
      /\ \A i \in 1..Len(Tail(q)) : Tail(q)[i] = q[i + 1]
  BY HeadTailProperties
<1>3. DOMAIN Tail(q) = 1..(Len(q) - 1)
  BY <1>2, LenProperties
<1>4. Head(q) = q[1]
  BY <1>1
<1>5. \A i, j \in 1..Len(q) : q[i] = q[j] => i = j
  BY <1>1 DEF IsInjective
<1>6. IsInjective(Tail(q))
  BY <1>1, <1>2, <1>3, <1>5 DEF IsInjective
<1>7. Range(Tail(q)) = {q[i] : i \in 2..Len(q)}
  <2>1. \A i \in 1..(Len(q) - 1) : Tail(q)[i] = q[i + 1] /\ i + 1 \in 2..Len(q)
    BY <1>1, <1>2
  <2>2. \A i \in 2..Len(q) : i - 1 \in 1..(Len(q) - 1)
                             /\ Tail(q)[i - 1] = q[i]
    BY <1>1, <1>2
  <2>3. Range(Tail(q)) = {Tail(q)[i] : i \in 1..(Len(q) - 1)}
    BY <1>3 DEF Range
  <2>. QED BY <2>1, <2>2, <2>3
<1>8. Range(q) \ {q[1]} = {q[i] : i \in 2..Len(q)}
  BY <1>1, <1>5 DEF Range
<1>9. q[1] \in Range(q)
  BY <1>1 DEF Range
<1>. QED BY <1>2, <1>4, <1>6, <1>7, <1>8, <1>9

(* Pushing new elements behind a queue without duplicates.                 *)
LEMMA PushAll ==
  ASSUME NEW S, NEW q \in Seq(S), NEW s \in Seq(S),
         IsInjective(q), IsInjective(s), Range(q) \cap Range(s) = {}
  PROVE  /\ q \o s \in Seq(S)
         /\ IsInjective(q \o s)
         /\ Range(q \o s) = Range(q) \cup Range(s)
<1>1. /\ q \o s \in Seq(S) /\ Len(q \o s) = Len(q) + Len(s)
      /\ \A i \in 1..(Len(q) + Len(s)) :
           (q \o s)[i] = IF i <= Len(q) THEN q[i] ELSE s[i - Len(q)]
  BY ConcatProperties
<1>2. /\ Len(q) \in Nat /\ Len(s) \in Nat
      /\ DOMAIN q = 1..Len(q) /\ DOMAIN s = 1..Len(s)
      /\ DOMAIN (q \o s) = 1..(Len(q) + Len(s))
  BY <1>1, LenProperties
<1>3. \A i \in 1..Len(q), j \in 1..Len(s) : q[i] # s[j]
  BY <1>2 DEF Range
<1>4. ASSUME NEW i \in 1..(Len(q) + Len(s)), NEW j \in 1..(Len(q) + Len(s)),
             (q \o s)[i] = (q \o s)[j]
      PROVE  i = j
  <2>1. CASE i <= Len(q) /\ j <= Len(q)
    BY <1>1, <1>2, <1>4, <2>1 DEF IsInjective
  <2>2. CASE i <= Len(q) /\ j > Len(q)
    <3>1. (q \o s)[i] = q[i] /\ (q \o s)[j] = s[j - Len(q)]
      BY <1>1, <1>2, <2>2
    <3>2. i \in 1..Len(q) /\ j - Len(q) \in 1..Len(s)
      BY <1>2, <2>2
    <3>. QED BY <1>3, <1>4, <3>1, <3>2
  <2>3. CASE i > Len(q) /\ j <= Len(q)
    <3>1. (q \o s)[j] = q[j] /\ (q \o s)[i] = s[i - Len(q)]
      BY <1>1, <1>2, <2>3
    <3>2. j \in 1..Len(q) /\ i - Len(q) \in 1..Len(s)
      BY <1>2, <2>3
    <3>. QED BY <1>3, <1>4, <3>1, <3>2
  <2>4. CASE i > Len(q) /\ j > Len(q)
    <3>1. (q \o s)[i] = s[i - Len(q)] /\ (q \o s)[j] = s[j - Len(q)]
      BY <1>1, <1>2, <2>4
    <3>2. i - Len(q) \in 1..Len(s) /\ j - Len(q) \in 1..Len(s)
      BY <1>2, <2>4
    <3>3. i - Len(q) = j - Len(q)
      BY <1>2, <1>4, <3>1, <3>2 DEF IsInjective
    <3>. QED BY <1>2, <3>3
  <2>. QED BY <1>2, <2>1, <2>2, <2>3, <2>4
<1>5. IsInjective(q \o s)
  BY <1>2, <1>4 DEF IsInjective
<1>6. Range(q \o s) = Range(q) \cup Range(s)
  BY RangeConcatenation
<1>. QED BY <1>1, <1>5, <1>6

(* A list is its first element and the rest, or its last and the rest.     *)
LEMMA SplitHead ==
  ASSUME NEW S, NEW q \in Seq(S), q # <<>>
  PROVE  /\ Head(q) \in S /\ Tail(q) \in Seq(S)
         /\ Range(q) = {Head(q)} \cup Range(Tail(q))
<1>1. Len(q) \in Nat /\ DOMAIN q = 1..Len(q) /\ Len(q) # 0
  BY EmptySeq, LenProperties, SeqEqual
<1>2. /\ Head(q) = q[1] /\ Head(q) \in S
      /\ Tail(q) \in Seq(S) /\ Len(Tail(q)) = Len(q) - 1
      /\ \A i \in 1..Len(Tail(q)) : Tail(q)[i] = q[i + 1]
  BY <1>1, HeadTailProperties, ElementOfSeq
<1>3. DOMAIN Tail(q) = 1..(Len(q) - 1)
  BY <1>2, LenProperties
<1>4. Range(Tail(q)) = {q[i] : i \in 2..Len(q)}
  <2>1. \A i \in 1..(Len(q) - 1) : Tail(q)[i] = q[i + 1] /\ i + 1 \in 2..Len(q)
    BY <1>1, <1>2
  <2>2. \A i \in 2..Len(q) : i - 1 \in 1..(Len(q) - 1)
                             /\ Tail(q)[i - 1] = q[i]
    BY <1>1, <1>2
  <2>3. Range(Tail(q)) = {Tail(q)[i] : i \in 1..(Len(q) - 1)}
    BY <1>3 DEF Range
  <2>4. Range(Tail(q)) \subseteq {q[i] : i \in 2..Len(q)}
    BY <2>1, <2>3
  <2>5. {q[i] : i \in 2..Len(q)} \subseteq Range(Tail(q))
    BY <2>2, <2>3
  <2>. QED BY <2>4, <2>5
<1>5. Range(q) = {q[1]} \cup {q[i] : i \in 2..Len(q)}
  BY <1>1 DEF Range
<1>. QED BY <1>2, <1>4, <1>5

LEMMA SplitLast ==
  ASSUME NEW S, NEW q \in Seq(S), q # <<>>
  PROVE  /\ Last(q) \in S /\ Front(q) \in Seq(S)
         /\ Range(q) = {Last(q)} \cup Range(Front(q))
<1>1. Len(q) \in Nat /\ DOMAIN q = 1..Len(q) /\ Len(q) # 0
  BY EmptySeq, LenProperties, SeqEqual
<1>2. Last(q) = q[Len(q)] /\ Last(q) \in S
  BY <1>1, ElementOfSeq DEF Last
<1>3. /\ Front(q) \in Seq(S) /\ DOMAIN Front(q) = 1..(Len(q) - 1)
      /\ \A i \in 1..(Len(q) - 1) : Front(q)[i] = q[i]
  BY <1>1, SubSeqProperties, LenProperties DEF Front
<1>4. Range(Front(q)) = {q[i] : i \in 1..(Len(q) - 1)}
  BY <1>3 DEF Range
<1>5. Range(q) = {q[Len(q)]} \cup {q[i] : i \in 1..(Len(q) - 1)}
  BY <1>1 DEF Range
<1>. QED BY <1>2, <1>3, <1>4, <1>5

LEMMA FrontIsShorter ==
  ASSUME NEW S, NEW q \in Seq(S), q # <<>>
  PROVE  Len(q) \in Nat /\ Len(Front(q)) = Len(q) - 1
<1>1. Len(q) \in Nat /\ Len(q) # 0
  BY EmptySeq, LenProperties, SeqEqual
<1>2. \A i \in 1..(Len(q) - 1) : q[i] \in S
  BY <1>1, ElementOfSeq
<1>3. ASSUME NEW k \in Nat, \A i \in 1..k : q[i] \in S
      PROVE  Len(SubSeq(q, 1, k)) = k
  BY <1>3, SubSeqProperties
<1>4. Len(q) - 1 \in Nat
  BY <1>1
<1>5. Len(SubSeq(q, 1, Len(q) - 1)) = Len(q) - 1
  BY <1>2, <1>3, <1>4, Zenon
<1>. QED BY <1>1, <1>5, Zenon DEF Front

(* Appending an element.                                                   *)
LEMMA AppendOne ==
  ASSUME NEW S, NEW q \in Seq(S), NEW x \in S
  PROVE  /\ Append(q, x) \in Seq(S)
         /\ Range(Append(q, x)) = Range(q) \cup {x}
         /\ IsInjective(q) /\ x \notin Range(q) => IsInjective(Append(q, x))
<1>1. /\ Len(q) \in Nat /\ DOMAIN q = 1..Len(q)
      /\ Append(q, x) \in Seq(S) /\ DOMAIN Append(q, x) = 1..(Len(q) + 1)
      /\ \A i \in 1..Len(q) : Append(q, x)[i] = q[i]
      /\ Append(q, x)[Len(q) + 1] = x
  BY LenProperties, AppendProperties
<1>2. Range(Append(q, x)) = {Append(q, x)[i] : i \in 1..(Len(q) + 1)}
  BY <1>1 DEF Range
<1>3. Range(q) = {q[i] : i \in 1..Len(q)}
  BY <1>1 DEF Range
<1>4. Range(Append(q, x)) = Range(q) \cup {x}
  BY <1>1, <1>2, <1>3
<1>5. ASSUME IsInjective(q), x \notin Range(q)
      PROVE  IsInjective(Append(q, x))
  <2>1. \A i, j \in 1..Len(q) : q[i] = q[j] => i = j
    BY <1>1, <1>5 DEF IsInjective
  <2>2. \A i \in 1..Len(q) : q[i] # x
    BY <1>3, <1>5
  <2>3. \A i, j \in 1..(Len(q) + 1) :
          Append(q, x)[i] = Append(q, x)[j] => i = j
    BY <1>1, <2>1, <2>2
  <2>. QED BY <1>1, <2>3 DEF IsInjective
<1>. QED BY <1>1, <1>4, <1>5

(* A list without duplicates is as long as it has elements.                *)
LEMMA InjectiveLength ==
  ASSUME NEW S, NEW q \in Seq(S), IsInjective(q)
  PROVE  IsFiniteSet(Range(q)) /\ Cardinality(Range(q)) = Len(q)
<1>1. Len(q) \in Nat /\ DOMAIN q = 1..Len(q) /\ q \in [1..Len(q) -> S]
  BY LenProperties
<1>2. q \in Injection(1..Len(q), Range(q))
  BY <1>1, Fun_IsInj DEF IsInjective, Range
<1>3. q \in Surjection(1..Len(q), Range(q))
  BY <1>1 DEF Surjection, Range
<1>4. IsFiniteSet(1..Len(q)) /\ Cardinality(1..Len(q)) = Len(q)
  BY <1>1, FS_Interval
<1>. QED BY <1>2, <1>3, <1>4, FS_Surjection, FS_Injection
-----------------------------------------------------------------------------
(* Every set of numbers has a least one, so that one that has 0 and, with *)
(* each number, the next has them all.                                     *)
LEMMA LeastNumber ==
  ASSUME NEW S \in SUBSET Nat, S # {}
  PROVE  \E n \in S : \A m \in S : n <= m
<1>. DEFINE R == OpToRel(<, Nat)
<1>1. IsWellFoundedOn(R, Nat)
  BY NatLessThanWellFounded
<1>2. \A x, y \in Nat : x < y => <<x, y>> \in R
  BY DEF OpToRel
<1>. HIDE DEF R
<1>3. PICK n \in S : \A m \in S : ~(<<m, n>> \in R)
  BY <1>1, WFMin
<1>4. \A m \in S : ~(m < n)
  <2>1. S \subseteq Nat
    OBVIOUS
  <2>. QED BY <1>2, <1>3, <2>1
<1>. QED BY <1>4

LEMMA Induction ==
  ASSUME NEW S \in SUBSET Nat, 0 \in S, \A n \in S : n + 1 \in S
  PROVE  S = Nat
<1>. SUFFICES ASSUME Nat \ S # {} PROVE FALSE
  OBVIOUS
<1>1. PICK n \in Nat \ S : \A m \in Nat \ S : n <= m
  BY LeastNumber
<1>2. n - 1 \in Nat /\ n - 1 \notin Nat \ S
  BY <1>1
<1>. QED BY <1>1, <1>2

(* The recursion of FlattenSeq, up to the k-th of the sequences ss.        *)
FlattensTo(f, ss, k) ==
  \A i \in 1..k : f[i] = IF i = 1 THEN ss[i] ELSE f[i - 1] \o ss[i]

LEMMA FlattenExists ==
  ASSUME NEW V, NEW ss \in Seq(Seq(V))
  PROVE  \A k \in 0..Len(ss) : \E f \in [1..k -> Seq(V)] : FlattensTo(f, ss, k)
<1>. DEFINE S == {k \in Nat : k <= Len(ss) => \E f \in [1..k -> Seq(V)] :
                                                 FlattensTo(f, ss, k)}
<1>0. Len(ss) \in Nat /\ \A i \in 1..Len(ss) : ss[i] \in Seq(V)
  BY LenProperties, ElementOfSeq
<1>1. 0 \in S
  <2>1. [i \in 1..0 |-> <<>>] \in [1..0 -> Seq(V)]
    OBVIOUS
  <2>2. FlattensTo([i \in 1..0 |-> <<>>], ss, 0)
    BY DEF FlattensTo
  <2>. QED BY <2>1, <2>2
<1>2. ASSUME NEW k \in S PROVE k + 1 \in S
  <2>. SUFFICES ASSUME k + 1 <= Len(ss)
                PROVE  \E f \in [1..k + 1 -> Seq(V)] : FlattensTo(f, ss, k + 1)
    OBVIOUS
  <2>1. PICK f \in [1..k -> Seq(V)] : FlattensTo(f, ss, k)
    BY <1>0
  <2>. DEFINE last == IF k = 0 THEN ss[1] ELSE f[k] \o ss[k + 1]
              g == [i \in 1..k + 1 |-> IF i = k + 1 THEN last ELSE f[i]]
  <2>2. k \in Nat /\ k + 1 \in 1..Len(ss)
    BY <1>0
  <2>3. last \in Seq(V)
    <3>1. CASE k = 0
      BY <1>0, <2>2, <3>1
    <3>2. CASE k # 0
      <4>1. f[k] \in Seq(V) /\ ss[k + 1] \in Seq(V)
        BY <1>0, <2>2, <3>2
      <4>2. f[k] \o ss[k + 1] \in Seq(V)
        BY <4>1, ConcatProperties
      <4>. QED BY <3>2, <4>2
    <3>. QED BY <3>1, <3>2
  <2>4. g \in [1..k + 1 -> Seq(V)]
    <3>. HIDE DEF last
    <3>. QED BY <2>2, <2>3
  <2>5. g[k + 1] = last /\ \A i \in 1..k : g[i] = f[i]
    <3>. HIDE DEF last
    <3>. QED BY <2>2
  <2>. HIDE DEF g
  <2>6. FlattensTo(g, ss, k + 1)
    <3>1. g[k + 1] = IF k + 1 = 1 THEN ss[k + 1] ELSE g[k] \o ss[k + 1]
      <4>1. CASE k = 0
        BY <2>5, <4>1
      <4>2. CASE k # 0
        <5>1. k \in 1..k /\ k + 1 # 1
          BY <2>2, <4>2
        <5>. QED BY <2>5, <4>2, <5>1
      <4>. QED BY <4>1, <4>2
    <3>2. ASSUME NEW i \in 1..k
          PROVE  g[i] = IF i = 1 THEN ss[i] ELSE g[i - 1] \o ss[i]
      <4>1. g[i] = f[i] /\ (i # 1 => g[i - 1] = f[i - 1])
        <5>1. i # 1 => i - 1 \in 1..k
          BY <2>2
        <5>. QED BY <2>5, <5>1
      <4>. QED BY <2>1, <4>1 DEF FlattensTo
    <3>3. \A i \in 1..k + 1 : i = k + 1 \/ i \in 1..k
      BY <2>2
    <3>4. (k + 1) - 1 = k
      BY <2>2
    <3>. QED BY <3>1, <3>2, <3>3, <3>4 DEF FlattensTo
  <2>. HIDE DEF g
  <2>. QED BY <2>4, <2>6
<1>3. S \in SUBSET Nat
  OBVIOUS
<1>. HIDE DEF S
<1>4. S = Nat
  BY <1>1, <1>2, <1>3, Induction
<1>5. \A k \in 0..Len(ss) : k \in S /\ k <= Len(ss)
  BY <1>0, <1>4
<1>. QED BY <1>5 DEF S

(* Two sequences that agree flatten alike.                                 *)
LEMMA FlattenUnique ==
  ASSUME NEW n \in Nat, NEW s, NEW t, NEW f, NEW g,
         FlattensTo(f, s, n), FlattensTo(g, t, n),
         \A i \in 1..n : s[i] = t[i]
  PROVE  \A i \in 1..n : f[i] = g[i]
<1>. DEFINE S == {k \in Nat : k \in 1..n => f[k] = g[k]}
<1>1. 0 \in S
  OBVIOUS
<1>2. ASSUME NEW k \in S PROVE k + 1 \in S
  <2>. SUFFICES ASSUME k + 1 \in 1..n PROVE f[k + 1] = g[k + 1]
    OBVIOUS
  <2>1. CASE k = 0
    BY <2>1 DEF FlattensTo
  <2>2. CASE k # 0
    <3>1. k \in 1..n /\ (k + 1) - 1 = k /\ k + 1 # 1
      BY <2>2
    <3>2. f[k] = g[k]
      BY <3>1
    <3>3. /\ f[k + 1] = f[k] \o s[k + 1]
          /\ g[k + 1] = g[k] \o t[k + 1]
      BY <3>1 DEF FlattensTo
    <3>. QED BY <3>2, <3>3
  <2>. QED BY <2>1, <2>2
<1>3. S \in SUBSET Nat
  OBVIOUS
<1>. HIDE DEF S
<1>4. S = Nat
  BY <1>1, <1>2, <1>3, Induction
<1>. QED BY <1>4 DEF S

(* FlattenSeq is what its recursion says.                                  *)
LEMMA FlattenValue ==
  ASSUME NEW V, NEW ss \in Seq(Seq(V))
  PROVE  /\ ss = <<>> => FlattenSeq(ss) = <<>>
         /\ ss # <<>> => \E f \in [1..Len(ss) -> Seq(V)] :
               FlattensTo(f, ss, Len(ss)) /\ FlattenSeq(ss) = f[Len(ss)]
<1>0. Len(ss) \in Nat /\ (ss = <<>> <=> Len(ss) = 0)
  BY LenProperties, EmptySeq
<1>1. ASSUME ss = <<>> PROVE FlattenSeq(ss) = <<>>
  BY <1>0, <1>1 DEF FlattenSeq
<1>2. ASSUME ss # <<>>
      PROVE  \E f \in [1..Len(ss) -> Seq(V)] :
               FlattensTo(f, ss, Len(ss)) /\ FlattenSeq(ss) = f[Len(ss)]
  <2>. DEFINE Eqn(f) == f = [i \in 1..Len(ss) |->
                           IF i = 1 THEN ss[i] ELSE f[i - 1] \o ss[i]]
              flatten == CHOOSE f : Eqn(f)
  <2>1. PICK f \in [1..Len(ss) -> Seq(V)] : FlattensTo(f, ss, Len(ss))
    BY <1>0, FlattenExists
  <2>2. Eqn(f)
    BY <2>1 DEF FlattensTo
  <2>3. FlattenSeq(ss) = flatten[Len(ss)]
    BY <1>0, <1>2, Zenon DEF FlattenSeq
  <2>. HIDE DEF flatten
  <2>4. Eqn(flatten)
    BY <2>2, Zenon DEF flatten
  <2>5. FlattensTo(flatten, ss, Len(ss))
    BY <2>4, Zenon DEF FlattensTo
  <2>6. flatten \in [1..Len(ss) -> Seq(V)]
    <3>1. \A i \in 1..Len(ss) : flatten[i] = f[i]
      BY <1>0, <2>1, <2>5, FlattenUnique
    <3>2. DOMAIN flatten = 1..Len(ss)
      BY <2>4
    <3>3. flatten = [i \in DOMAIN flatten |-> flatten[i]]
      BY <2>4
    <3>. QED BY <3>1, <3>2, <3>3
  <2>. QED BY <2>3, <2>5, <2>6
<1>. QED BY <1>1, <1>2

LEMMA FlattenTyped ==
  ASSUME NEW V, NEW ss \in Seq(Seq(V))
  PROVE  FlattenSeq(ss) \in Seq(V)
<1>0. Len(ss) \in Nat /\ (ss = <<>> <=> Len(ss) = 0)
  BY LenProperties, EmptySeq
<1>1. ss # <<>> => Len(ss) \in 1..Len(ss)
  BY <1>0
<1>2. <<>> \in Seq(V)
  OBVIOUS
<1>3. CASE ss = <<>>
  BY <1>2, <1>3, FlattenValue
<1>4. CASE ss # <<>>
  <2>1. PICK f \in [1..Len(ss) -> Seq(V)] : FlattenSeq(ss) = f[Len(ss)]
    BY <1>4, FlattenValue
  <2>. QED BY <1>1, <1>4, <2>1
<1>. QED BY <1>3, <1>4

LEMMA FlattenAppend ==
  ASSUME NEW V, NEW ss \in Seq(Seq(V)), NEW s \in Seq(V)
  PROVE  FlattenSeq(Append(ss, s)) = FlattenSeq(ss) \o s
<1>. DEFINE n == Len(ss)  tt == Append(ss, s)
<1>0. /\ n \in Nat /\ (ss = <<>> <=> n = 0)
      /\ tt \in Seq(Seq(V)) /\ Len(tt) = n + 1 /\ tt # <<>>
      /\ tt[n + 1] = s /\ \A i \in 1..n : tt[i] = ss[i]
  BY LenProperties, EmptySeq, AppendProperties
<1>. HIDE DEF tt
<1>1. PICK g \in [1..Len(tt) -> Seq(V)] :
        FlattensTo(g, tt, Len(tt)) /\ FlattenSeq(tt) = g[Len(tt)]
  BY <1>0, FlattenValue
<1>2. FlattensTo(g, tt, n + 1) /\ FlattenSeq(tt) = g[n + 1]
  BY <1>0, <1>1
<1>3. CASE ss = <<>>
  <2>1. n = 0 /\ FlattenSeq(ss) = <<>>
    BY <1>0, <1>3, FlattenValue
  <2>2. g[n + 1] = s
    BY <1>0, <1>2, <2>1 DEF FlattensTo
  <2>3. <<>> \o s = s
    BY ConcatEmptySeq
  <2>. QED BY <1>2, <2>1, <2>2, <2>3 DEF tt
<1>4. CASE ss # <<>>
  <2>1. PICK f \in [1..n -> Seq(V)] :
          FlattensTo(f, ss, n) /\ FlattenSeq(ss) = f[n]
    BY <1>4, FlattenValue
  <2>2. FlattensTo(g, tt, n)
    <3>1. \A i \in 1..n : i \in 1..n + 1
      BY <1>0
    <3>. QED BY <1>2, <3>1 DEF FlattensTo
  <2>3. n \in 1..n /\ n + 1 \in 1..n + 1 /\ n + 1 # 1 /\ (n + 1) - 1 = n
    BY <1>0, <1>4
  <2>4. f[n] = g[n]
    <3>1. FlattensTo(f, ss, n) /\ \A i \in 1..n : ss[i] = tt[i]
      BY <1>0, <2>1
    <3>2. \A i \in 1..n : f[i] = g[i]
      <4>1. n \in Nat
        BY <1>0
      <4>. QED BY <2>2, <3>1, <4>1, FlattenUnique, Z3
    <3>. QED BY <2>3, <3>2
  <2>5. g[n + 1] = g[n] \o s
    BY <1>0, <1>2, <2>3 DEF FlattensTo
  <2>. QED BY <1>2, <2>1, <2>4, <2>5 DEF tt
<1>. QED BY <1>3, <1>4

(* What holds of the empty sequence, and with each of one more element,    *)
(* holds of all.                                                           *)
LEMMA InductionOnSequences ==
  ASSUME NEW V, NEW T \in SUBSET Seq(V), <<>> \in T,
         \A t \in T : \A x \in V : Append(t, x) \in T
  PROVE  T = Seq(V)
<1>. DEFINE S == {n \in Nat : \A t \in Seq(V) : Len(t) = n => t \in T}
<1>1. 0 \in S
  BY EmptySeq
<1>2. ASSUME NEW n \in S PROVE n + 1 \in S
  <2>. SUFFICES ASSUME NEW t \in Seq(V), Len(t) = n + 1 PROVE t \in T
    OBVIOUS
  <2>1. t # <<>>
    BY EmptySeq
  <2>2. PICK s \in Seq(V), x \in V : t = Append(s, x)
    BY <2>1, SequenceEmptyOrAppend
  <2>3. Len(s) \in Nat /\ Len(t) = Len(s) + 1
    BY <2>2, AppendProperties, LenProperties
  <2>4. s \in T
    BY <2>3
  <2>. QED BY <2>2, <2>4
<1>3. S \in SUBSET Nat
  OBVIOUS
<1>. HIDE DEF S
<1>4. S = Nat
  BY <1>1, <1>2, <1>3, Induction
<1>. QED BY <1>4, LenProperties DEF S

LEMMA FlattenConcat ==
  ASSUME NEW V, NEW ss \in Seq(Seq(V)), NEW tt \in Seq(Seq(V))
  PROVE  FlattenSeq(ss \o tt) = FlattenSeq(ss) \o FlattenSeq(tt)
<1>. DEFINE T == {t \in Seq(Seq(V)) :
                    FlattenSeq(ss \o t) = FlattenSeq(ss) \o FlattenSeq(t)}
<1>1. <<>> \in T
  <2>1. /\ <<>> \in Seq(Seq(V)) /\ FlattenSeq(ss) \in Seq(V)
    BY FlattenTyped
  <2>2. FlattenSeq(<<>>) = <<>>
    BY <2>1, FlattenValue
  <2>3. ss \o <<>> = ss /\ FlattenSeq(ss) \o <<>> = FlattenSeq(ss)
    BY <2>1, ConcatEmptySeq
  <2>. QED BY <2>1, <2>2, <2>3
<1>2. ASSUME NEW t \in T, NEW x \in Seq(V) PROVE Append(t, x) \in T
  <2>1. /\ t \in Seq(Seq(V)) /\ Append(t, x) \in Seq(Seq(V))
        /\ ss \o t \in Seq(Seq(V))
        /\ FlattenSeq(ss \o t) = FlattenSeq(ss) \o FlattenSeq(t)
    BY AppendProperties, ConcatProperties
  <2>2. ss \o Append(t, x) = Append(ss \o t, x)
    BY <2>1, ConcatSimplifications
  <2>3. /\ FlattenSeq(Append(ss \o t, x)) = FlattenSeq(ss \o t) \o x
        /\ FlattenSeq(Append(t, x)) = FlattenSeq(t) \o x
    BY <2>1, FlattenAppend
  <2>4. FlattenSeq(ss) \in Seq(V) /\ FlattenSeq(t) \in Seq(V)
    BY <2>1, FlattenTyped
  <2>5. (FlattenSeq(ss) \o FlattenSeq(t)) \o x =
          FlattenSeq(ss) \o (FlattenSeq(t) \o x)
    BY <2>4, ConcatAssociative
  <2>. QED BY <2>1, <2>2, <2>3, <2>5
<1>3. T \in SUBSET Seq(Seq(V))
  OBVIOUS
<1>. HIDE DEF T
<1>4. T = Seq(Seq(V))
  BY <1>1, <1>2, <1>3, InductionOnSequences
<1>. QED BY <1>4 DEF T

(* Where the elements of a concatenation are.                              *)
LEMMA ConcatParts ==
  ASSUME NEW V, NEW p \in Seq(V), NEW q \in Seq(V)
  PROVE  /\ Len(p) \in Nat /\ Len(q) \in Nat
         /\ p \o q \in Seq(V) /\ Len(p \o q) = Len(p) + Len(q)
         /\ \A i \in 1..Len(p) : /\ i \in 1..Len(p) + Len(q)
                                 /\ (p \o q)[i] = p[i]
         /\ \A i \in 1..Len(q) : /\ Len(p) + i \in 1..Len(p) + Len(q)
                                 /\ (p \o q)[Len(p) + i] = q[i]
<1>1. /\ Len(p) \in Nat /\ Len(q) \in Nat
      /\ p \o q \in Seq(V) /\ Len(p \o q) = Len(p) + Len(q)
      /\ \A i \in 1..Len(p) + Len(q) :
           (p \o q)[i] = IF i <= Len(p) THEN p[i] ELSE q[i - Len(p)]
  BY ConcatProperties, LenProperties
<1>2. ASSUME NEW i \in 1..Len(q)
      PROVE  /\ Len(p) + i \in 1..Len(p) + Len(q)
             /\ (p \o q)[Len(p) + i] = q[i]
  <2>1. /\ Len(p) + i \in 1..Len(p) + Len(q)
        /\ ~(Len(p) + i <= Len(p)) /\ (Len(p) + i) - Len(p) = i
    BY <1>1
  <2>. QED BY <1>1, <2>1
<1>3. ASSUME NEW i \in 1..Len(p)
      PROVE  i \in 1..Len(p) + Len(q) /\ (p \o q)[i] = p[i]
  BY <1>1
<1>. QED BY <1>1, <1>2, <1>3

LEMMA IsConcat ==
  ASSUME NEW V, NEW p \in Seq(V), NEW q \in Seq(V), NEW r \in Seq(V),
         Len(r) = Len(p) + Len(q),
         \A i \in 1..Len(p) : r[i] = p[i],
         \A i \in 1..Len(q) : r[Len(p) + i] = q[i]
  PROVE  r = p \o q
<1>1. /\ Len(p) \in Nat /\ Len(q) \in Nat
      /\ p \o q \in Seq(V) /\ Len(p \o q) = Len(p) + Len(q)
      /\ \A i \in 1..Len(p) + Len(q) :
           (p \o q)[i] = IF i <= Len(p) THEN p[i] ELSE q[i - Len(p)]
  BY ConcatProperties, LenProperties
<1>2. ASSUME NEW i \in 1..Len(p) + Len(q) PROVE r[i] = (p \o q)[i]
  <2>1. CASE i <= Len(p)
    BY <1>1, <2>1
  <2>2. CASE ~(i <= Len(p))
    <3>1. i - Len(p) \in 1..Len(q) /\ Len(p) + (i - Len(p)) = i
      BY <1>1, <2>2
    <3>. QED BY <1>1, <2>2, <3>1
  <2>. QED BY <2>1, <2>2
<1>. QED BY <1>1, <1>2, SeqEqual

(* The sequence in which every element x of s has become h[x].              *)
Rewrite(h, s) == FlattenSeq([i \in 1..Len(s) |-> h[s[i]]])
Rewrites(h, V) == \A x \in V : h[x] \in Seq(V)

LEMMA RewriteSteps ==
  ASSUME NEW V, NEW h, Rewrites(h, V)
  PROVE  /\ Rewrite(h, <<>>) = <<>>
         /\ \A s \in Seq(V) : /\ [i \in 1..Len(s) |-> h[s[i]]] \in Seq(Seq(V))
                              /\ Rewrite(h, s) \in Seq(V)
         /\ \A s \in Seq(V), x \in V :
              Rewrite(h, Append(s, x)) = Rewrite(h, s) \o h[x]
<1>1. ASSUME NEW s \in Seq(V)
      PROVE  [i \in 1..Len(s) |-> h[s[i]]] \in Seq(Seq(V))
  <2>1. Len(s) \in Nat /\ \A i \in 1..Len(s) : h[s[i]] \in Seq(V)
    BY LenProperties, ElementOfSeq DEF Rewrites
  <2>. QED BY <2>1, IsASeq
<1>2. ASSUME NEW s \in Seq(V) PROVE Rewrite(h, s) \in Seq(V)
  BY <1>1, FlattenTyped DEF Rewrite
<1>3. Rewrite(h, <<>>) = <<>>
  <2>1. [i \in 1..Len(<<>>) |-> h[<<>>[i]]] = <<>>
    OBVIOUS
  <2>2. <<>> \in Seq(Seq(V))
    OBVIOUS
  <2>. QED BY <2>1, <2>2, FlattenValue DEF Rewrite
<1>4. ASSUME NEW s \in Seq(V), NEW x \in V
      PROVE  Rewrite(h, Append(s, x)) = Rewrite(h, s) \o h[x]
  <2>. DEFINE t == Append(s, x)
              hs == [i \in 1..Len(s) |-> h[s[i]]]
              ht == [i \in 1..Len(t) |-> h[t[i]]]
  <2>1. /\ t \in Seq(V) /\ Len(t) = Len(s) + 1 /\ Len(s) \in Nat
        /\ t[Len(s) + 1] = x /\ \A i \in 1..Len(s) : t[i] = s[i]
    BY AppendProperties, LenProperties
  <2>2. hs \in Seq(Seq(V)) /\ ht \in Seq(Seq(V)) /\ h[x] \in Seq(V)
    BY <1>1, <2>1 DEF Rewrites
  <2>3. Len(hs) = Len(s) /\ \A i \in 1..Len(s) : hs[i] = h[s[i]]
    BY <2>1
  <2>4. Len(ht) = Len(s) + 1 /\ \A i \in 1..Len(s) + 1 : ht[i] = h[t[i]]
    <3>. HIDE DEF t
    <3>. QED BY <2>1
  <2>5. /\ Append(hs, h[x]) \in Seq(Seq(V))
        /\ Len(Append(hs, h[x])) = Len(s) + 1
        /\ Append(hs, h[x])[Len(s) + 1] = h[x]
        /\ \A i \in 1..Len(s) : Append(hs, h[x])[i] = hs[i]
    <3>. HIDE DEF hs, ht
    <3>. QED BY <2>2, <2>3, AppendProperties
  <2>6. \A i \in 1..Len(s) + 1 : ht[i] = Append(hs, h[x])[i]
    <3>1. \A i \in 1..Len(s) + 1 : i \in 1..Len(s) \/ i = Len(s) + 1
      BY <2>1
    <3>. HIDE DEF hs, ht, t
    <3>. QED BY <2>1, <2>3, <2>4, <2>5, <3>1
  <2>7. ht = Append(hs, h[x])
    <3>. HIDE DEF hs, ht, t
    <3>. QED BY <2>2, <2>4, <2>5, <2>6, SeqEqual
  <2>8. FlattenSeq(ht) = FlattenSeq(hs) \o h[x]
    <3>. HIDE DEF hs, ht, t
    <3>. QED BY <2>2, <2>7, FlattenAppend
  <2>. QED BY <2>8 DEF Rewrite
<1>. QED BY <1>1, <1>2, <1>3, <1>4

(* Elements that stay as they are make a sequence that does.               *)
LEMMA RewriteUntouched ==
  ASSUME NEW V, NEW h, Rewrites(h, V), NEW s \in Seq(V),
         \A x \in Range(s) : h[x] = <<x>>
  PROVE  Rewrite(h, s) = s
<1>. DEFINE T == {u \in Seq(V) : (\A x \in Range(u) : h[x] = <<x>>)
                                   => Rewrite(h, u) = u}
<1>1. <<>> \in T
  BY RewriteSteps
<1>2. ASSUME NEW u \in T, NEW y \in V PROVE Append(u, y) \in T
  <2>1. /\ u \in Seq(V) /\ Append(u, y) \in Seq(V)
        /\ Range(Append(u, y)) = Range(u) \cup {y}
        /\ Append(u, y) = u \o <<y>>
    <3>1. u \in Seq(V)
      OBVIOUS
    <3>2. Append(u, y) \in Seq(V) /\ Range(Append(u, y)) = Range(u) \cup {y}
      BY <3>1, AppendOne
    <3>3. Append(u, y) = u \o <<y>>
      BY <3>1, AppendIsConcat
    <3>. QED BY <3>1, <3>2, <3>3
  <2>2. Rewrite(h, Append(u, y)) = Rewrite(h, u) \o h[y]
    <3>. HIDE DEF T
    <3>1. u \in Seq(V)
      BY <2>1
    <3>. QED BY <3>1, RewriteSteps
  <2>3. (\A x \in Range(u) : h[x] = <<x>>) => Rewrite(h, u) = u
    OBVIOUS
  <2>4. ASSUME \A x \in Range(Append(u, y)) : h[x] = <<x>>
        PROVE  Rewrite(h, Append(u, y)) = Append(u, y)
    <3>1. h[y] = <<y>> /\ Rewrite(h, u) = u
      BY <2>1, <2>3, <2>4
    <3>. QED BY <2>1, <2>2, <3>1
  <2>. QED BY <2>1, <2>4
<1>3. T \in SUBSET Seq(V)
  OBVIOUS
<1>. HIDE DEF T
<1>4. T = Seq(V)
  BY <1>1, <1>2, <1>3, InductionOnSequences
<1>. QED BY <1>4 DEF T

(* The first so many of some values, and one more.                         *)
LEMMA FirstAndNext ==
  ASSUME NEW V, NEW g, NEW k \in Nat, \A i \in 1..k + 1 : g[i] \in V
  PROVE  /\ [i \in 1..k |-> g[i]] \in Seq(V)
         /\ [i \in 1..k + 1 |-> g[i]] = Append([i \in 1..k |-> g[i]], g[k + 1])
<1>. DEFINE a == [i \in 1..k |-> g[i]]  b == [i \in 1..k + 1 |-> g[i]]
            v == g[k + 1]
<1>1. a \in Seq(V) /\ b \in Seq(V) /\ v \in V
  <2>1. \A i \in 1..k : g[i] \in V
    OBVIOUS
  <2>2. a \in Seq(V)
    BY <2>1, IsASeq
  <2>3. b \in Seq(V)
    <3>1. k + 1 \in Nat
      OBVIOUS
    <3>. QED BY <3>1, IsASeq
  <2>. QED BY <2>2, <2>3
<1>2. /\ Len(a) = k /\ Len(b) = k + 1 /\ b[k + 1] = v
      /\ \A i \in 1..k : a[i] = b[i]
  OBVIOUS
<1>. HIDE DEF a, b, v
<1>3. /\ Append(a, v) \in Seq(V) /\ Len(Append(a, v)) = Len(a) + 1
      /\ \A i \in 1..Len(a) : Append(a, v)[i] = a[i]
      /\ Append(a, v)[Len(a) + 1] = v
  BY <1>1, AppendProperties
<1>4. \A i \in 1..k + 1 : b[i] = Append(a, v)[i]
  <2>1. \A i \in 1..k + 1 : i = k + 1 \/ i \in 1..k
    OBVIOUS
  <2>. QED BY <1>2, <1>3, <2>1
<1>5. b = Append(a, v)
  BY <1>1, <1>2, <1>3, <1>4, SeqEqual
<1>. QED BY <1>1, <1>5 DEF a, b, v

(* The two halves of a concatenation.                                      *)
LEMMA Halves ==
  ASSUME NEW V, NEW p \in Seq(V), NEW q \in Seq(V)
  PROVE  /\ SubSeq(p \o q, 1, Len(p)) = p
         /\ SubSeq(p \o q, Len(p) + 1, Len(p \o q)) = q
<1>. DEFINE r == p \o q  a == SubSeq(r, 1, Len(p))
            b == SubSeq(r, Len(p) + 1, Len(r))
<1>1. /\ Len(p) \in Nat /\ Len(q) \in Nat
      /\ r \in Seq(V) /\ Len(r) = Len(p) + Len(q)
      /\ \A i \in 1..Len(p) : i \in 1..Len(r) /\ r[i] = p[i]
      /\ \A i \in 1..Len(q) : Len(p) + i \in 1..Len(r) /\ r[Len(p) + i] = q[i]
  BY ConcatParts
<1>. HIDE DEF r
<1>2. a = p
  <2>1. /\ a \in Seq(V) /\ Len(a) = Len(p) /\ \A i \in 1..Len(p) : a[i] = r[i]
    BY <1>1
  <2>. HIDE DEF a
  <2>. QED BY <1>1, <2>1, SeqEqual
<1>3. b = q
  <2>1. /\ b \in Seq(V) /\ Len(b) = Len(q)
        /\ \A i \in 1..Len(q) : b[i] = r[Len(p) + i]
    BY <1>1
  <2>. HIDE DEF b
  <2>. QED BY <1>1, <2>1, SeqEqual
<1>. QED BY <1>2, <1>3 DEF r

LEMMA ConcatThenAppend ==
  ASSUME NEW V, NEW p \in Seq(V), NEW q \in Seq(V), NEW e \in V
  PROVE  p \o Append(q, e) = Append(p \o q, e)
<1>1. /\ <<e>> \in Seq(V) /\ Append(q, e) = q \o <<e>>
      /\ p \o q \in Seq(V)
  BY AppendIsConcat, ConcatProperties
<1>2. Append(p \o q, e) = (p \o q) \o <<e>>
  BY <1>1, AppendIsConcat
<1>3. (p \o q) \o <<e>> = p \o (q \o <<e>>)
  BY <1>1, ConcatAssociative
<1>. QED BY <1>1, <1>2, <1>3

LEMMA ChangeLast ==
  ASSUME NEW V, NEW p \in Seq(Seq(V)), NEW q \in Seq(V), NEW e \in V
  PROVE  [Append(p, q) EXCEPT ![Len(Append(p, q))] = Append(@, e)] =
           Append(p, Append(q, e))
<1>. DEFINE a == Append(p, q)  r == Append(q, e)  b == Append(p, r)
            c == [a EXCEPT ![Len(a)] = Append(@, e)]
<1>1. /\ Len(p) \in Nat /\ a \in Seq(Seq(V)) /\ Len(a) = Len(p) + 1
      /\ a[Len(p) + 1] = q /\ \A i \in 1..Len(p) : a[i] = p[i]
  BY LenProperties, AppendProperties
<1>2. r \in Seq(V)
  BY AppendProperties
<1>. HIDE DEF a
<1>3. DOMAIN a = 1..Len(p) + 1
  BY <1>1, LenProperties
<1>4. /\ DOMAIN c = 1..Len(p) + 1 /\ c[Len(p) + 1] = r
      /\ \A i \in 1..Len(p) : c[i] = p[i]
  BY <1>1, <1>3
<1>. HIDE DEF r
<1>5. /\ b \in Seq(Seq(V)) /\ Len(b) = Len(p) + 1
      /\ b[Len(p) + 1] = r /\ \A i \in 1..Len(p) : b[i] = p[i]
  BY <1>2, AppendProperties
<1>6. DOMAIN b = 1..Len(p) + 1
  BY <1>5, LenProperties
<1>. HIDE DEF b
<1>7. b = [i \in 1..Len(p) + 1 |-> b[i]]
  BY <1>5, <1>6
<1>8. c = [i \in 1..Len(p) + 1 |-> c[i]]
  BY <1>3
<1>. HIDE DEF c
<1>9. \A i \in 1..Len(p) + 1 : c[i] = b[i]
  <2>1. \A i \in 1..Len(p) + 1 : i = Len(p) + 1 \/ i \in 1..Len(p)
    BY <1>1
  <2>. QED BY <1>4, <1>5, <2>1
<1>. QED BY <1>7, <1>8, <1>9 DEF a, b, c, r

=============================================================================
