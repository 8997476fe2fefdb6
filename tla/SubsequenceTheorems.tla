------------------------ MODULE SubsequenceTheorems -------------------------
(***************************************************************************)
(* What the operators on sequences do to their members, one by one: where  *)
(* a member is, how often, and what is left of it.                         *)
(***************************************************************************)
EXTENDS Subsequences, SequencesExt, FiniteSetTheorems, WellFoundedInduction, TLAPS

(* x is in seq not more than once. *)
Unique(seq, x) ==
    \A i, j \in DOMAIN seq : seq[i] = x /\ seq[j] = x => i = j

LEMMA ContainsIsMember ==
    ASSUME NEW T, NEW seq \in Seq(T), NEW x
    PROVE  x \in ToSet(seq) <=> Contains(seq, x)
  BY DEF ToSet, Contains

LEMMA ContainsAppend ==
    ASSUME NEW T, NEW seq \in Seq(T), NEW y \in T, NEW x
    PROVE  Contains(Append(seq, y), x) <=> Contains(seq, x) \/ x = y
  <1>1. Len(Append(seq, y)) = Len(seq) + 1
    OBVIOUS
  <1>2. \A i \in 1 .. Len(seq) : Append(seq, y)[i] = seq[i]
    OBVIOUS
  <1>3. Append(seq, y)[Len(seq) + 1] = y
    OBVIOUS
  <1> QED BY <1>1, <1>2, <1>3 DEF Contains

LEMMA UniqueAppend ==
    ASSUME NEW T, NEW seq \in Seq(T), NEW y \in T, NEW x, Unique(seq, x),
           x = y => ~Contains(seq, x)
    PROVE  Unique(Append(seq, y), x)
  <1>1. DOMAIN Append(seq, y) = 1 .. Len(seq) + 1
    OBVIOUS
  <1>2. \A i \in 1 .. Len(seq) : Append(seq, y)[i] = seq[i]
    OBVIOUS
  <1>3. Append(seq, y)[Len(seq) + 1] = y
    OBVIOUS
  <1> QED BY <1>1, <1>2, <1>3 DEF Contains, Unique

LEMMA ContainsTail ==
    ASSUME NEW T, NEW seq \in Seq(T), seq # <<>>, NEW x
    PROVE  Contains(seq, x) <=> x = Head(seq) \/ Contains(Tail(seq), x)
  <1>1. Len(Tail(seq)) = Len(seq) - 1 /\ Len(seq) \in Nat \ {0}
    OBVIOUS
  <1>2. \A i \in 1 .. Len(seq) - 1 : Tail(seq)[i] = seq[i + 1]
    OBVIOUS
  <1>3. Head(seq) = seq[1]
    OBVIOUS
  <1>4. ASSUME NEW i \in 1 .. Len(seq), seq[i] = x
        PROVE  x = Head(seq) \/ Contains(Tail(seq), x)
    <2>1. CASE i = 1
      BY <1>3, <1>4, <2>1
    <2>2. CASE i # 1
      <3>1. i - 1 \in 1 .. Len(Tail(seq)) /\ Tail(seq)[i - 1] = x
        BY <1>1, <1>2, <1>4, <2>2
      <3> QED BY <3>1 DEF Contains
    <2> QED BY <2>1, <2>2
  <1>5. ASSUME NEW i \in 1 .. Len(Tail(seq)), Tail(seq)[i] = x PROVE Contains(seq, x)
    <2>1. i + 1 \in 1 .. Len(seq) /\ seq[i + 1] = x
      BY <1>1, <1>2, <1>5
    <2> QED BY <2>1 DEF Contains
  <1> QED BY <1>1, <1>3, <1>4, <1>5 DEF Contains

LEMMA UniqueTail ==
    ASSUME NEW T, NEW seq \in Seq(T), seq # <<>>, NEW x, Unique(seq, x)
    PROVE  Unique(Tail(seq), x) /\ (x = Head(seq) => ~Contains(Tail(seq), x))
  <1>1. Len(Tail(seq)) = Len(seq) - 1 /\ Len(seq) \in Nat \ {0} /\ DOMAIN seq = 1 .. Len(seq)
        /\ DOMAIN Tail(seq) = 1 .. Len(Tail(seq))
    OBVIOUS
  <1>2. \A i \in 1 .. Len(seq) - 1 : Tail(seq)[i] = seq[i + 1] /\ i + 1 \in 1 .. Len(seq)
    OBVIOUS
  <1>3. Head(seq) = seq[1]
    OBVIOUS
  <1>4. Unique(Tail(seq), x)
    <2> SUFFICES ASSUME NEW i \in DOMAIN Tail(seq), NEW j \in DOMAIN Tail(seq),
                        Tail(seq)[i] = x, Tail(seq)[j] = x
                 PROVE  i = j
      BY DEF Unique
    <2>1. /\ i + 1 \in DOMAIN seq /\ j + 1 \in DOMAIN seq /\ i \in Int /\ j \in Int
          /\ seq[i + 1] = x /\ seq[j + 1] = x
      BY <1>1, <1>2
    <2>2. i + 1 = j + 1
      BY <2>1 DEF Unique
    <2> QED BY <2>1, <2>2
  <1>5. x = Head(seq) => ~Contains(Tail(seq), x)
    <2> SUFFICES ASSUME x = Head(seq), NEW i \in 1 .. Len(Tail(seq)), Tail(seq)[i] = x
                 PROVE  FALSE
      BY DEF Contains
    <2>1. i + 1 \in DOMAIN seq /\ seq[i + 1] = x /\ i \in Nat /\ i # 0 /\ 1 \in DOMAIN seq
      BY <1>1, <1>2
    <2>2. i + 1 = 1
      BY <1>3, <2>1 DEF Unique
    <2> QED BY <2>1, <2>2
  <1> QED BY <1>4, <1>5

LEMMA ConcatFacts ==
    ASSUME NEW T, NEW s \in Seq(T), NEW t \in Seq(T)
    PROVE  /\ s \o t \in Seq(T) /\ DOMAIN (s \o t) = 1 .. Len(s) + Len(t)
           /\ Len(s) \in Nat /\ Len(t) \in Nat
           /\ \A i \in 1 .. Len(s) : (s \o t)[i] = s[i]
           /\ \A i \in 1 .. Len(t) : (s \o t)[Len(s) + i] = t[i]
  OBVIOUS

LEMMA ContainsConcat ==
    ASSUME NEW T, NEW s \in Seq(T), NEW t \in Seq(T), NEW x
    PROVE  Contains(s \o t, x) <=> Contains(s, x) \/ Contains(t, x)
  <1> DEFINE st == s \o t
  <1>1. /\ DOMAIN st = 1 .. Len(s) + Len(t) /\ Len(s) \in Nat /\ Len(t) \in Nat
        /\ \A i \in 1 .. Len(s) : st[i] = s[i]
        /\ \A i \in 1 .. Len(t) : st[Len(s) + i] = t[i]
        /\ Len(st) = Len(s) + Len(t)
    BY ConcatFacts
  <1> HIDE DEF st
  <1>2. ASSUME NEW i \in 1 .. Len(st), st[i] = x PROVE Contains(s, x) \/ Contains(t, x)
    <2>1. CASE i <= Len(s)
      BY <1>1, <1>2, <2>1 DEF Contains
    <2>2. CASE i > Len(s)
      <3>1. i - Len(s) \in 1 .. Len(t) /\ t[i - Len(s)] = st[Len(s) + (i - Len(s))]
        BY <1>1, <2>2
      <3>2. Len(s) + (i - Len(s)) = i
        BY <1>1
      <3> QED BY <1>2, <3>1, <3>2 DEF Contains
    <2> QED BY <1>1, <2>1, <2>2
  <1>3. ASSUME NEW i \in 1 .. Len(s), s[i] = x PROVE Contains(st, x)
    <2>1. i \in 1 .. Len(st) /\ st[i] = x
      BY <1>1, <1>3
    <2> QED BY <2>1 DEF Contains
  <1>4. ASSUME NEW i \in 1 .. Len(t), t[i] = x PROVE Contains(st, x)
    <2>1. Len(s) + i \in 1 .. Len(st) /\ st[Len(s) + i] = x
      BY <1>1, <1>4
    <2> QED BY <2>1 DEF Contains
  <1>5. Contains(st, x) <=> Contains(s, x) \/ Contains(t, x)
    BY <1>2, <1>3, <1>4 DEF Contains
  <1> QED BY <1>5 DEF st

LEMMA UniqueConcat ==
    ASSUME NEW T, NEW s \in Seq(T), NEW t \in Seq(T), NEW x, Unique(s, x), Unique(t, x),
           ~(Contains(s, x) /\ Contains(t, x))
    PROVE  Unique(s \o t, x)
  <1> DEFINE st == s \o t
  <1>1. /\ DOMAIN st = 1 .. Len(s) + Len(t) /\ Len(s) \in Nat /\ Len(t) \in Nat
        /\ \A i \in 1 .. Len(s) : st[i] = s[i]
        /\ \A i \in 1 .. Len(t) : st[Len(s) + i] = t[i]
        /\ DOMAIN s = 1 .. Len(s) /\ DOMAIN t = 1 .. Len(t)
    BY ConcatFacts
  <1> HIDE DEF st
  <1>2. ASSUME NEW i \in DOMAIN st, st[i] = x
        PROVE  \/ i \in DOMAIN s /\ s[i] = x
               \/ i - Len(s) \in DOMAIN t /\ t[i - Len(s)] = x
    <2>1. CASE i <= Len(s)
      BY <1>1, <1>2, <2>1
    <2>2. CASE i > Len(s)
      <3>1. i - Len(s) \in 1 .. Len(t) /\ Len(s) + (i - Len(s)) = i
        BY <1>1, <2>2
      <3> QED BY <1>1, <1>2, <3>1
    <2> QED BY <1>1, <2>1, <2>2
  <1>3. ASSUME NEW i \in DOMAIN st, NEW j \in DOMAIN st, st[i] = x, st[j] = x PROVE i = j
    <2>1. i \in Int /\ j \in Int
      BY <1>1
    <2>2. CASE i \in DOMAIN s /\ s[i] = x
      <3>1. Contains(s, x)
        BY <1>1, <2>2 DEF Contains
      <3>2. j \in DOMAIN s /\ s[j] = x
        BY <1>1, <1>2, <1>3, <3>1 DEF Contains
      <3> QED BY <2>2, <3>2 DEF Unique
    <2>3. CASE i - Len(s) \in DOMAIN t /\ t[i - Len(s)] = x
      <3>1. Contains(t, x)
        BY <1>1, <2>3 DEF Contains
      <3>2. j - Len(s) \in DOMAIN t /\ t[j - Len(s)] = x
        BY <1>1, <1>2, <1>3, <3>1 DEF Contains
      <3>3. i - Len(s) = j - Len(s)
        BY <2>3, <3>2 DEF Unique
      <3> QED BY <1>1, <2>1, <3>3
    <2> QED BY <1>2, <1>3, <2>2, <2>3
  <1>4. Unique(st, x)
    BY <1>3 DEF Unique
  <1> QED BY <1>4 DEF st

LEMMA EmptyFacts ==
    ASSUME NEW x PROVE ~Contains(<<>>, x) /\ Unique(<<>>, x)
  BY DEF Contains, Unique

-----------------------------------------------------------------------------
(* Only, by induction over the length of the sequence *)

Below == {pair \in Nat \X Nat : pair[1] < pair[2]}

LEMMA BelowIsWellFounded == IsWellFoundedOn(Below, Nat)
  BY NatLessThanWellFounded, Zenon DEF OpToRel, Below

(* A set of numbers that is not empty has a least one. *)
LEMMA LeastNumber ==
    ASSUME NEW S \in SUBSET Nat, S # {}
    PROVE  \E n \in S : \A m \in S : n <= m
  <1>1. \E n \in S : \A m \in S : ~(<<m, n>> \in Below)
    BY WFMin, BelowIsWellFounded, Zenon
  <1>2. ASSUME NEW n \in Nat, NEW m \in Nat, ~(<<m, n>> \in Below) PROVE n <= m
    BY <1>2 DEF Below
  <1> QED BY <1>1, <1>2

(* f computes the first n steps of Only. *)
Computes(f, seq, kept, n) ==
    f = [i \in 0 .. n |-> IF i = 0 THEN <<>>
                           ELSE IF seq[i] \in kept THEN Append(f[i - 1], seq[i])
                           ELSE f[i - 1]]

LEMMA OnlyIsComputed ==
    ASSUME NEW seq, NEW kept, NEW n \in Nat
    PROVE  \E f : Computes(f, seq, kept, n)
  <1> DEFINE Wrong == {m \in Nat : ~\E f : Computes(f, seq, kept, m)}
  <1> SUFFICES ASSUME Wrong # {} PROVE FALSE
    OBVIOUS
  <1>1. PICK m \in Wrong : \A k \in Wrong : m <= k
    BY LeastNumber
  <1>2. CASE m = 0
    <2>1. Computes([i \in 0 .. 0 |-> <<>>], seq, kept, 0)
      BY DEF Computes
    <2> QED BY <1>1, <1>2, <2>1
  <1>3. CASE m # 0
    <2>1. m - 1 \in Nat /\ m - 1 \notin Wrong /\ m \in Nat
      BY <1>1, <1>3
    <2>2. PICK f : Computes(f, seq, kept, m - 1)
      BY <2>1
    <2> DEFINE g == [i \in 0 .. m |-> IF i < m THEN f[i]
                        ELSE IF seq[m] \in kept THEN Append(f[m - 1], seq[m]) ELSE f[m - 1]]
    <2>3. ASSUME NEW i \in 0 .. m
          PROVE  g[i] = IF i = 0 THEN <<>>
                        ELSE IF seq[i] \in kept THEN Append(g[i - 1], seq[i]) ELSE g[i - 1]
      <3>1. CASE i < m
        <4>1. i \in 0 .. m - 1 /\ g[i] = f[i]
          BY <2>1, <3>1
        <4>2. i # 0 => g[i - 1] = f[i - 1]
          BY <2>1, <3>1
        <4>3. f[i] = IF i = 0 THEN <<>>
                     ELSE IF seq[i] \in kept THEN Append(f[i - 1], seq[i]) ELSE f[i - 1]
          BY <2>2, <4>1 DEF Computes
        <4> QED BY <4>1, <4>2, <4>3
      <3>2. CASE i = m
        <4>1. g[i - 1] = f[m - 1] /\ i # 0
          BY <2>1, <1>3, <3>2
        <4> QED BY <3>2, <4>1
      <3> QED BY <2>1, <3>1, <3>2
    <2>4. g = [i \in 0 .. m |-> g[i]]
      OBVIOUS
    <2> HIDE DEF g
    <2>5. Computes(g, seq, kept, m)
      BY <2>3, <2>4 DEF Computes
    <2> QED BY <1>1, <2>5
  <1> QED BY <1>2, <1>3

LEMMA OnlyComputes ==
    ASSUME NEW seq, NEW kept, Len(seq) \in Nat
    PROVE  \E f : Computes(f, seq, kept, Len(seq)) /\ Only(seq, kept) = f[Len(seq)]
  <1>1. \E f : Computes(f, seq, kept, Len(seq))
    BY OnlyIsComputed
  <1> DEFINE only == CHOOSE f : Computes(f, seq, kept, Len(seq))
  <1>2. Computes(only, seq, kept, Len(seq))
    BY <1>1
  <1>3. Only(seq, kept) = only[Len(seq)]
    BY DEF Only, Computes
  <1> HIDE DEF only
  <1> QED BY <1>2, <1>3

(* What is left of the first n members. *)
KeepsOf(left, seq, kept, T, n) ==
    /\ left \in Seq(T)
    /\ \A x : Contains(left, x) <=> x \in kept /\ \E i \in 1 .. n : seq[i] = x
    /\ \A x : (\A i, j \in 1 .. n : seq[i] = x /\ seq[j] = x => i = j) => Unique(left, x)

LEMMA KeepsNext ==
    ASSUME NEW T, NEW seq \in Seq(T), NEW kept, NEW n \in 1 .. Len(seq), NEW left,
           KeepsOf(left, seq, kept, T, n - 1)
    PROVE  KeepsOf(IF seq[n] \in kept THEN Append(left, seq[n]) ELSE left, seq, kept, T, n)
  <1>1. n \in Nat /\ n - 1 \in Nat /\ seq[n] \in T
    OBVIOUS
  <1>2. 1 .. n = (1 .. n - 1) \cup {n}
    BY <1>1
  <1>3. \A x : (\E i \in 1 .. n : seq[i] = x) <=> (\E i \in 1 .. n - 1 : seq[i] = x) \/ seq[n] = x
    BY <1>2
  <1>4. CASE seq[n] \in kept
    <2> DEFINE new == Append(left, seq[n])
    <2>1. new \in Seq(T) /\ left \in Seq(T)
      BY <1>1 DEF KeepsOf
    <2>2. \A x : Contains(new, x) <=> Contains(left, x) \/ x = seq[n]
      BY <1>1, <2>1, ContainsAppend
    <2>3. \A x : Contains(new, x) <=> x \in kept /\ \E i \in 1 .. n : seq[i] = x
      BY <1>3, <1>4, <2>2 DEF KeepsOf
    <2>4. ASSUME NEW x, \A i, j \in 1 .. n : seq[i] = x /\ seq[j] = x => i = j
          PROVE  Unique(new, x)
      <3>1. Unique(left, x)
        BY <1>2, <2>4 DEF KeepsOf
      <3>2. x = seq[n] => ~\E i \in 1 .. n - 1 : seq[i] = x
        BY <1>1, <1>2, <2>4
      <3>3. x = seq[n] => ~Contains(left, x)
        BY <3>2 DEF KeepsOf
      <3> QED BY <1>1, <2>1, <3>1, <3>3, UniqueAppend
    <2> QED BY <1>4, <2>1, <2>3, <2>4 DEF KeepsOf
  <1>5. CASE seq[n] \notin kept
    <2>1. \A x : x \in kept =>
            ((\E i \in 1 .. n : seq[i] = x) <=> (\E i \in 1 .. n - 1 : seq[i] = x))
      BY <1>3, <1>5
    <2>2. \A x : Contains(left, x) <=> x \in kept /\ \E i \in 1 .. n : seq[i] = x
      BY <2>1 DEF KeepsOf
    <2>3. \A x : (\A i, j \in 1 .. n : seq[i] = x /\ seq[j] = x => i = j) => Unique(left, x)
      BY <1>2 DEF KeepsOf
    <2> QED BY <1>5, <2>2, <2>3 DEF KeepsOf
  <1> QED BY <1>4, <1>5

(* Only keeps, of the members that are kept, each as often as it was there  *)
(* if that was once, and no others.                                         *)
LEMMA OnlyFacts ==
    ASSUME NEW T, NEW seq \in Seq(T), NEW kept
    PROVE  /\ Only(seq, kept) \in Seq(T)
           /\ \A x : Contains(Only(seq, kept), x) <=> Contains(seq, x) /\ x \in kept
           /\ \A x : Unique(seq, x) => Unique(Only(seq, kept), x)
  <1>1. Len(seq) \in Nat /\ DOMAIN seq = 1 .. Len(seq)
    OBVIOUS
  <1>2. PICK f : Computes(f, seq, kept, Len(seq)) /\ Only(seq, kept) = f[Len(seq)]
    BY <1>1, OnlyComputes
  <1> DEFINE Wrong == {n \in 0 .. Len(seq) : ~KeepsOf(f[n], seq, kept, T, n)}
  <1>3. Wrong = {}
    <2> SUFFICES ASSUME Wrong # {} PROVE FALSE
      OBVIOUS
    <2>1. Wrong \in SUBSET Nat
      BY <1>1
    <2>2. PICK n \in Wrong : \A m \in Wrong : n <= m
      BY <2>1, LeastNumber
    <2>3. CASE n = 0
      <3>1. f[0] = <<>>
        BY <1>1, <1>2 DEF Computes
      <3>2. KeepsOf(<<>>, seq, kept, T, 0)
        BY EmptyFacts DEF KeepsOf
      <3> QED BY <2>2, <2>3, <3>1, <3>2
    <2>4. CASE n # 0
      <3>1. n \in 1 .. Len(seq) /\ n - 1 \in 0 .. Len(seq) /\ n - 1 \notin Wrong
        BY <1>1, <2>2, <2>4
      <3>2. KeepsOf(f[n - 1], seq, kept, T, n - 1)
        BY <3>1
      <3>3. f[n] = IF seq[n] \in kept THEN Append(f[n - 1], seq[n]) ELSE f[n - 1]
        <4>1. n \in 0 .. Len(seq) /\ n # 0
          BY <1>1, <3>1
        <4> QED BY <1>2, <4>1 DEF Computes
      <3>4. KeepsOf(f[n], seq, kept, T, n)
        BY <3>1, <3>2, <3>3, KeepsNext
      <3> QED BY <2>2, <3>4
    <2> QED BY <2>3, <2>4
  <1>4. KeepsOf(f[Len(seq)], seq, kept, T, Len(seq))
    BY <1>1, <1>3
  <1> QED BY <1>1, <1>2, <1>4 DEF KeepsOf, Contains, Unique

-----------------------------------------------------------------------------
(* Sets in some order, and how often something is there *)

LEMMA SetToSeqFacts ==
    ASSUME NEW S, IsFiniteSet(S)
    PROVE  SetToSeq(S) \in Seq(S)
  <1>1. Cardinality(S) \in Nat /\ Bijection(1 .. Cardinality(S), S) # {}
    BY FS_CardinalityType DEF ExistsBijection
  <1>2. \E f \in [1 .. Cardinality(S) -> S] : IsInjective(f)
    BY <1>1 DEF Bijection, Injection
  <1>3. SetToSeq(S) \in [1 .. Cardinality(S) -> S]
    BY <1>2 DEF SetToSeq
  <1> QED BY <1>1, <1>3

LEMMA CountFacts ==
    ASSUME NEW T, NEW seq \in Seq(T), NEW x, NEW n, n = Cardinality({i \in DOMAIN seq : seq[i] = x})
    PROVE  /\ n \in Nat
           /\ ~Contains(seq, x) => n = 0
           /\ Contains(seq, x) => n > 0
           /\ Contains(seq, x) /\ Unique(seq, x) => n = 1
  <1> DEFINE places == {i \in DOMAIN seq : seq[i] = x}
  <1>1. DOMAIN seq = 1 .. Len(seq) /\ Len(seq) \in Nat
    OBVIOUS
  <1>2. IsFiniteSet(places)
    <2>1. IsFiniteSet(1 .. Len(seq)) /\ places \in SUBSET (1 .. Len(seq))
      BY <1>1, FS_Interval
    <2> QED BY <2>1, FS_Subset
  <1>3. n \in Nat
    BY <1>2, FS_CardinalityType
  <1>4. Contains(seq, x) <=> places # {}
    BY <1>1 DEF Contains
  <1>5. Cardinality(places) = 0 <=> places = {}
    BY <1>2, FS_EmptySet
  <1>6. Contains(seq, x) /\ Unique(seq, x) => n = 1
    <2> SUFFICES ASSUME Contains(seq, x), Unique(seq, x) PROVE n = 1
      OBVIOUS
    <2>1. PICK i \in places : TRUE
      BY <1>4
    <2>2. places = {i}
      BY <2>1 DEF Unique
    <2> QED BY <2>2, FS_Singleton
  <1> QED BY <1>3, <1>4, <1>5, <1>6

-----------------------------------------------------------------------------
(* How Only treats sequences that are put together *)

LEMMA UpwardInduction ==
    ASSUME NEW S, NEW n \in Nat, 0 \in S, \A i \in 1 .. n : i - 1 \in S => i \in S
    PROVE  \A i \in 0 .. n : i \in S
  <1> DEFINE Wrong == {i \in 0 .. n : i \notin S}
  <1> SUFFICES ASSUME Wrong # {} PROVE FALSE
    OBVIOUS
  <1>1. PICK i \in Wrong : \A j \in Wrong : i <= j
    <2>1. Wrong \in SUBSET Nat
      OBVIOUS
    <2> QED BY <2>1, LeastNumber
  <1>2. i # 0 /\ i \in 1 .. n /\ i - 1 \in 0 .. n
    OBVIOUS
  <1>3. i - 1 \in S
    BY <1>1, <1>2
  <1> QED BY <1>2, <1>3

(* The steps of Only, as one fact about a function. *)
LEMMA OnlySteps ==
    ASSUME NEW T, NEW seq \in Seq(T), NEW kept
    PROVE  \E f : /\ Only(seq, kept) = f[Len(seq)]
                  /\ f[0] = <<>>
                  /\ \A i \in 1 .. Len(seq) :
                        f[i] = IF seq[i] \in kept THEN Append(f[i - 1], seq[i]) ELSE f[i - 1]
                  /\ \A i \in 0 .. Len(seq) : f[i] \in Seq(T)
  <1>1. Len(seq) \in Nat /\ \A i \in 1 .. Len(seq) : seq[i] \in T
    OBVIOUS
  <1>2. PICK f : Computes(f, seq, kept, Len(seq)) /\ Only(seq, kept) = f[Len(seq)]
    BY <1>1, OnlyComputes
  <1>3. f[0] = <<>>
    BY <1>1, <1>2 DEF Computes
  <1>4. ASSUME NEW i \in 1 .. Len(seq)
        PROVE  f[i] = IF seq[i] \in kept THEN Append(f[i - 1], seq[i]) ELSE f[i - 1]
    <2>1. i \in 0 .. Len(seq) /\ i # 0
      BY <1>1
    <2> QED BY <1>2, <2>1 DEF Computes
  <1> DEFINE S == {i \in 0 .. Len(seq) : f[i] \in Seq(T)}
  <1>5. 0 \in S
    <2>1. <<>> \in Seq(T)
      OBVIOUS
    <2>2. 0 \in 0 .. Len(seq)
      BY <1>1
    <2>3. f[0] \in Seq(T)
      BY <1>3, <2>1
    <2> QED BY <2>2, <2>3
  <1>6. ASSUME NEW i \in 1 .. Len(seq), i - 1 \in S PROVE i \in S
    <2>1. i \in 0 .. Len(seq) /\ f[i - 1] \in Seq(T) /\ seq[i] \in T
      BY <1>1, <1>6
    <2>2. Append(f[i - 1], seq[i]) \in Seq(T)
      BY <2>1
    <2> QED BY <1>4, <2>1, <2>2
  <1>7. \A i \in 0 .. Len(seq) : i \in S
    <2> HIDE DEF S
    <2> QED BY <1>1, <1>5, <1>6, UpwardInduction
  <1> QED BY <1>2, <1>3, <1>4, <1>7

LEMMA AppendAssociates ==
    ASSUME NEW T, NEW s \in Seq(T), NEW t \in Seq(T), NEW x \in T
    PROVE  s \o Append(t, x) = Append(s \o t, x)
  OBVIOUS

LEMMA OnlyConcat ==
    ASSUME NEW T, NEW s \in Seq(T), NEW t \in Seq(T), NEW kept
    PROVE  Only(s \o t, kept) = Only(s, kept) \o Only(t, kept)
  <1> DEFINE st == s \o t
  <1>1. /\ st \in Seq(T) /\ Len(st) = Len(s) + Len(t) /\ Len(s) \in Nat /\ Len(t) \in Nat
        /\ \A i \in 1 .. Len(s) : st[i] = s[i]
        /\ \A i \in 1 .. Len(t) : st[Len(s) + i] = t[i]
        /\ \A i \in 1 .. Len(t) : t[i] \in T
    BY ConcatFacts
  <1> HIDE DEF st
  <1>2. PICK f : /\ Only(s, kept) = f[Len(s)]
                 /\ f[0] = <<>>
                 /\ \A i \in 1 .. Len(s) :
                       f[i] = IF s[i] \in kept THEN Append(f[i - 1], s[i]) ELSE f[i - 1]
                 /\ \A i \in 0 .. Len(s) : f[i] \in Seq(T)
    BY OnlySteps
  <1>3. PICK g : /\ Only(t, kept) = g[Len(t)]
                 /\ g[0] = <<>>
                 /\ \A i \in 1 .. Len(t) :
                       g[i] = IF t[i] \in kept THEN Append(g[i - 1], t[i]) ELSE g[i - 1]
                 /\ \A i \in 0 .. Len(t) : g[i] \in Seq(T)
    BY OnlySteps
  <1>4. PICK h : /\ Only(st, kept) = h[Len(st)]
                 /\ h[0] = <<>>
                 /\ \A i \in 1 .. Len(st) :
                       h[i] = IF st[i] \in kept THEN Append(h[i - 1], st[i]) ELSE h[i - 1]
                 /\ \A i \in 0 .. Len(st) : h[i] \in Seq(T)
    <2>1. st \in Seq(T)
      BY <1>1
    <2> QED BY <2>1, OnlySteps
  <1> DEFINE First == {i \in 0 .. Len(s) : h[i] = f[i]}
  <1>5. h[Len(s)] = f[Len(s)]
    <2>1. 0 \in First
      BY <1>1, <1>2, <1>4
    <2>2. ASSUME NEW i \in 1 .. Len(s), i - 1 \in First PROVE i \in First
      <3>1. i \in 1 .. Len(st) /\ st[i] = s[i] /\ i \in 0 .. Len(s)
        BY <1>1
      <3> QED BY <1>2, <1>4, <2>2, <3>1
    <2>3. \A i \in 0 .. Len(s) : i \in First
      <3> HIDE DEF First
      <3> QED BY <1>1, <2>1, <2>2, UpwardInduction
    <2> QED BY <1>1, <2>3
  <1> DEFINE Second == {i \in 0 .. Len(t) : h[Len(s) + i] = f[Len(s)] \o g[i]}
  <1>6. h[Len(s) + Len(t)] = f[Len(s)] \o g[Len(t)]
    <2>1. 0 \in Second
      <3>1. f[Len(s)] \in Seq(T)
        BY <1>1, <1>2
      <3>2. f[Len(s)] \o <<>> = f[Len(s)]
        BY <3>1
      <3>3. 0 \in 0 .. Len(t) /\ Len(s) + 0 = Len(s)
        BY <1>1
      <3> QED BY <1>3, <1>5, <3>2, <3>3
    <2>2. ASSUME NEW i \in 1 .. Len(t), i - 1 \in Second PROVE i \in Second
      <3>1. /\ Len(s) + i \in 1 .. Len(st) /\ st[Len(s) + i] = t[i] /\ i \in 0 .. Len(t)
            /\ (Len(s) + i) - 1 = Len(s) + (i - 1) /\ i - 1 \in 0 .. Len(t) /\ t[i] \in T
        BY <1>1
      <3>2. h[Len(s) + i] = IF t[i] \in kept THEN Append(h[Len(s) + (i - 1)], t[i])
                            ELSE h[Len(s) + (i - 1)]
        BY <1>4, <3>1
      <3>3. h[Len(s) + (i - 1)] = f[Len(s)] \o g[i - 1]
        BY <2>2
      <3>4. f[Len(s)] \in Seq(T) /\ g[i - 1] \in Seq(T)
        BY <1>1, <1>2, <1>3, <3>1
      <3>5. f[Len(s)] \o Append(g[i - 1], t[i]) = Append(f[Len(s)] \o g[i - 1], t[i])
        <4> DEFINE a == f[Len(s)]
                   b == g[i - 1]
                   x == t[i]
        <4>1. a \in Seq(T) /\ b \in Seq(T) /\ x \in T
          BY <3>1, <3>4
        <4> HIDE DEF a, b, x
        <4>2. a \o Append(b, x) = Append(a \o b, x)
          BY <4>1, AppendAssociates
        <4> QED BY <4>2 DEF a, b, x
      <3>6. g[i] = IF t[i] \in kept THEN Append(g[i - 1], t[i]) ELSE g[i - 1]
        BY <1>3
      <3>7. h[Len(s) + i] = f[Len(s)] \o g[i]
        BY <3>2, <3>3, <3>5, <3>6
      <3> QED BY <3>1, <3>7
    <2>3. \A i \in 0 .. Len(t) : i \in Second
      <3> HIDE DEF Second
      <3> QED BY <1>1, <2>1, <2>2, UpwardInduction
    <2>4. Len(t) \in 0 .. Len(t)
      BY <1>1
    <2>5. Len(t) \in Second
      <3> HIDE DEF Second
      <3> QED BY <2>3, <2>4
    <2> QED BY <2>5
  <1>7. Only(st, kept) = Only(s, kept) \o Only(t, kept)
    BY <1>1, <1>2, <1>3, <1>4, <1>6
  <1> QED BY <1>7 DEF st

LEMMA OnlyOfOne ==
    ASSUME NEW x, NEW kept
    PROVE  /\ Only(<<>>, kept) = <<>>
           /\ Only(<<x>>, kept) = IF x \in kept THEN <<x>> ELSE <<>>
  <1>1. <<>> \in Seq({x}) /\ Len(<<>>) = 0 /\ <<x>> \in Seq({x}) /\ Len(<<x>>) = 1 /\ <<x>>[1] = x
    OBVIOUS
  <1>2. Only(<<>>, kept) = <<>>
    <2> DEFINE none == <<>>
    <2>1. none \in Seq({x})
      OBVIOUS
    <2> HIDE DEF none
    <2>2. PICK f : Only(none, kept) = f[Len(none)] /\ f[0] = <<>>
      BY <2>1, OnlySteps
    <2> QED BY <1>1, <2>2 DEF none
  <1>3. PICK f : /\ Only(<<x>>, kept) = f[1] /\ f[0] = <<>>
                 /\ \A i \in 1 .. 1 : f[i] = IF <<x>>[i] \in kept THEN Append(f[i - 1], <<x>>[i])
                                             ELSE f[i - 1]
    <2> DEFINE one == <<x>>
    <2>1. one \in Seq({x})
      OBVIOUS
    <2> HIDE DEF one
    <2>2. PICK f : /\ Only(one, kept) = f[Len(one)] /\ f[0] = <<>>
                   /\ \A i \in 1 .. Len(one) :
                         f[i] = IF one[i] \in kept THEN Append(f[i - 1], one[i]) ELSE f[i - 1]
      BY <2>1, OnlySteps
    <2> QED BY <1>1, <2>2 DEF one
  <1>4. f[1] = IF x \in kept THEN Append(f[0], x) ELSE f[0]
    <2>1. 1 \in 1 .. 1 /\ 1 - 1 = 0
      OBVIOUS
    <2> QED BY <1>1, <1>3, <2>1
  <1>5. Append(<<>>, x) = <<x>>
    OBVIOUS
  <1> QED BY <1>2, <1>3, <1>4, <1>5

LEMMA OnlyAppend ==
    ASSUME NEW T, NEW s \in Seq(T), NEW x \in T, NEW kept
    PROVE  Only(Append(s, x), kept) = IF x \in kept THEN Append(Only(s, kept), x)
                                      ELSE Only(s, kept)
  <1>1. Append(s, x) = s \o <<x>> /\ <<x>> \in Seq(T)
    OBVIOUS
  <1>2. Only(s, kept) \in Seq(T)
    BY OnlyFacts
  <1>3. Only(s, kept) \o <<>> = Only(s, kept) /\ Only(s, kept) \o <<x>> = Append(Only(s, kept), x)
    BY <1>2
  <1>4. Only(s \o <<x>>, kept) = Only(s, kept) \o Only(<<x>>, kept)
    <2> DEFINE one == <<x>>
    <2>1. one \in Seq(T)
      BY <1>1
    <2> HIDE DEF one
    <2>2. Only(s \o one, kept) = Only(s, kept) \o Only(one, kept)
      BY <2>1, OnlyConcat
    <2> QED BY <2>2 DEF one
  <1> QED BY <1>1, <1>3, <1>4, OnlyOfOne

LEMMA HeadAndTail ==
    ASSUME NEW T, NEW s \in Seq(T), s # <<>>
    PROVE  /\ s = <<Head(s)>> \o Tail(s) /\ Head(s) \in T /\ Tail(s) \in Seq(T)
           /\ <<Head(s)>> \in Seq(T)
  OBVIOUS

LEMMA OnlyTail ==
    ASSUME NEW T, NEW s \in Seq(T), s # <<>>, NEW kept
    PROVE  Only(s, kept) = IF Head(s) \in kept THEN <<Head(s)>> \o Only(Tail(s), kept)
                           ELSE Only(Tail(s), kept)
  <1>1. Only(s, kept) = Only(<<Head(s)>>, kept) \o Only(Tail(s), kept)
    <2>1. s = <<Head(s)>> \o Tail(s) /\ Tail(s) \in Seq(T) /\ <<Head(s)>> \in Seq(T)
      BY HeadAndTail
    <2>2. Only(<<Head(s)>> \o Tail(s), kept) = Only(<<Head(s)>>, kept) \o Only(Tail(s), kept)
      <3> DEFINE first == <<Head(s)>>
                 rest == Tail(s)
      <3>1. first \in Seq(T) /\ rest \in Seq(T)
        BY <2>1
      <3> HIDE DEF first, rest
      <3>2. Only(first \o rest, kept) = Only(first, kept) \o Only(rest, kept)
        BY <3>1, OnlyConcat
      <3> QED BY <3>2 DEF first, rest
    <2> QED BY <2>1, <2>2
  <1>2. Only(Tail(s), kept) \in Seq(T)
    BY HeadAndTail, OnlyFacts
  <1>3. <<>> \o Only(Tail(s), kept) = Only(Tail(s), kept)
    BY <1>2
  <1> QED BY <1>1, <1>3, OnlyOfOne

(* Only the members of the sequence matter for what is kept. *)
LEMMA OnlySame ==
    ASSUME NEW T, NEW s \in Seq(T), NEW kept, NEW also,
           \A x : Contains(s, x) => (x \in kept <=> x \in also)
    PROVE  Only(s, kept) = Only(s, also)
  <1>1. PICK f : /\ Only(s, kept) = f[Len(s)]
                 /\ f[0] = <<>>
                 /\ \A i \in 1 .. Len(s) :
                       f[i] = IF s[i] \in kept THEN Append(f[i - 1], s[i]) ELSE f[i - 1]
    BY OnlySteps
  <1>2. PICK g : /\ Only(s, also) = g[Len(s)]
                 /\ g[0] = <<>>
                 /\ \A i \in 1 .. Len(s) :
                       g[i] = IF s[i] \in also THEN Append(g[i - 1], s[i]) ELSE g[i - 1]
    BY OnlySteps
  <1>3. \A i \in 1 .. Len(s) : s[i] \in kept <=> s[i] \in also
    BY DEF Contains
  <1>4. Len(s) \in Nat
    OBVIOUS
  <1> DEFINE S == {i \in 0 .. Len(s) : f[i] = g[i]}
  <1>5. 0 \in S
    BY <1>1, <1>2, <1>4
  <1>6. \A i \in 1 .. Len(s) : i - 1 \in S => i \in S
    BY <1>1, <1>2, <1>3, <1>4
  <1>7. \A i \in 0 .. Len(s) : i \in S
    <2> HIDE DEF S
    <2> QED BY <1>4, <1>5, <1>6, UpwardInduction
  <1> QED BY <1>1, <1>2, <1>4, <1>7

LEMMA OnlyNone ==
    ASSUME NEW T, NEW s \in Seq(T), NEW kept, \A x : Contains(s, x) => x \notin kept
    PROVE  Only(s, kept) = <<>>
  <1>1. Only(s, kept) \in Seq(T) /\ \A x : ~Contains(Only(s, kept), x)
    BY OnlyFacts
  <1>2. ASSUME Only(s, kept) # <<>> PROVE Contains(Only(s, kept), Only(s, kept)[1])
    <2>1. 1 \in 1 .. Len(Only(s, kept))
      BY <1>1, <1>2
    <2> QED BY <2>1 DEF Contains
  <1> QED BY <1>1, <1>2

(* Each member is greater than those before it. *)
IsAscending(seq) == \A i, j \in DOMAIN seq : i < j => seq[i] < seq[j]

LEMMA AscendingAppend ==
    ASSUME NEW s \in Seq(Nat), NEW n \in Nat, IsAscending(s), \A m \in Nat : Contains(s, m) => m < n
    PROVE  IsAscending(Append(s, n))
  <1>1. /\ Len(s) \in Nat /\ DOMAIN s = 1 .. Len(s) /\ DOMAIN Append(s, n) = 1 .. Len(s) + 1
        /\ \A i \in 1 .. Len(s) : Append(s, n)[i] = s[i] /\ s[i] \in Nat
        /\ Append(s, n)[Len(s) + 1] = n
    OBVIOUS
  <1>2. \A i \in 1 .. Len(s) : s[i] < n
    BY <1>1 DEF Contains
  <1> SUFFICES ASSUME NEW i \in 1 .. Len(s) + 1, NEW j \in 1 .. Len(s) + 1, i < j
               PROVE  Append(s, n)[i] < Append(s, n)[j]
    BY <1>1 DEF IsAscending
  <1>3. i \in 1 .. Len(s)
    BY <1>1
  <1>4. CASE j = Len(s) + 1
    BY <1>1, <1>2, <1>3, <1>4
  <1>5. CASE j # Len(s) + 1
    <2>1. j \in 1 .. Len(s)
      BY <1>1, <1>5
    <2> QED BY <1>1, <1>3, <2>1 DEF IsAscending
  <1> QED BY <1>4, <1>5

LEMMA OnlyAscends ==
    ASSUME NEW s \in Seq(Nat), NEW kept, IsAscending(s)
    PROVE  IsAscending(Only(s, kept))
  <1>1. PICK f : /\ Only(s, kept) = f[Len(s)]
                 /\ f[0] = <<>>
                 /\ \A i \in 1 .. Len(s) :
                       f[i] = IF s[i] \in kept THEN Append(f[i - 1], s[i]) ELSE f[i - 1]
                 /\ \A i \in 0 .. Len(s) : f[i] \in Seq(Nat)
    BY OnlySteps
  <1>2. Len(s) \in Nat /\ DOMAIN s = 1 .. Len(s) /\ \A i \in 1 .. Len(s) : s[i] \in Nat
    OBVIOUS
  <1> DEFINE S == {i \in 0 .. Len(s) :
                      /\ IsAscending(f[i])
                      /\ \A m \in Nat : Contains(f[i], m) => \E j \in 1 .. i : s[j] = m}
  <1>3. 0 \in S
    BY <1>1, <1>2 DEF IsAscending, Contains
  <1>4. ASSUME NEW i \in 1 .. Len(s), i - 1 \in S PROVE i \in S
    <2>1. i \in 0 .. Len(s) /\ i - 1 \in 0 .. Len(s) /\ s[i] \in Nat
      BY <1>2
    <2>2. f[i - 1] \in Seq(Nat) /\ IsAscending(f[i - 1])
      BY <1>1, <1>4, <2>1
    <2>3. \A m \in Nat : Contains(f[i - 1], m) => \E j \in 1 .. i - 1 : s[j] = m
      BY <1>4
    <2>4. \A m \in Nat : Contains(f[i - 1], m) => m < s[i] /\ \E j \in 1 .. i : s[j] = m
      <3>1. \A j \in 1 .. i - 1 : j \in DOMAIN s /\ i \in DOMAIN s /\ j < i /\ j \in 1 .. i
        BY <1>2
      <3> QED BY <2>3, <3>1 DEF IsAscending
    <2>5. CASE s[i] \in kept
      <3>1. f[i] = Append(f[i - 1], s[i])
        BY <1>1, <2>5
      <3>2. IsAscending(f[i])
        BY <2>1, <2>2, <2>4, <3>1, AscendingAppend
      <3>3. \A m : Contains(f[i], m) <=> Contains(f[i - 1], m) \/ m = s[i]
        BY <2>1, <2>2, <3>1, ContainsAppend
      <3>4. i \in 1 .. i
        BY <2>1
      <3> QED BY <2>1, <2>4, <3>2, <3>3, <3>4
    <2>6. CASE s[i] \notin kept
      <3>1. f[i] = f[i - 1]
        BY <1>1, <2>6
      <3> QED BY <2>1, <2>2, <2>4, <3>1
    <2> QED BY <2>5, <2>6
  <1>5. \A i \in 0 .. Len(s) : i \in S
    <2> HIDE DEF S
    <2> QED BY <1>2, <1>3, <1>4, UpwardInduction
  <1> QED BY <1>1, <1>2, <1>5

LEMMA OnlyAll ==
    ASSUME NEW T, NEW s \in Seq(T), NEW kept, \A i \in 1 .. Len(s) : s[i] \in kept
    PROVE  Only(s, kept) = s
  <1>1. PICK f : /\ Only(s, kept) = f[Len(s)]
                 /\ f[0] = <<>>
                 /\ \A i \in 1 .. Len(s) :
                       f[i] = IF s[i] \in kept THEN Append(f[i - 1], s[i]) ELSE f[i - 1]
                 /\ \A i \in 0 .. Len(s) : f[i] \in Seq(T)
    BY OnlySteps
  <1>2. Len(s) \in Nat /\ DOMAIN s = 1 .. Len(s)
    OBVIOUS
  <1> DEFINE S == {i \in 0 .. Len(s) : Len(f[i]) = i /\ \A j \in 1 .. i : f[i][j] = s[j]}
  <1>3. 0 \in S
    BY <1>1, <1>2
  <1>4. ASSUME NEW i \in 1 .. Len(s), i - 1 \in S PROVE i \in S
    <2>1. i \in 0 .. Len(s) /\ i - 1 \in 0 .. Len(s) /\ i \in Nat
      BY <1>2
    <2>2. f[i] = Append(f[i - 1], s[i])
      BY <1>1
    <2>3. f[i - 1] \in Seq(T) /\ Len(f[i - 1]) = i - 1 /\ \A j \in 1 .. i - 1 : f[i - 1][j] = s[j]
      BY <1>1, <1>4, <2>1
    <2>4. Len(f[i]) = i /\ f[i][i] = s[i]
      BY <2>1, <2>2, <2>3
    <2>5. \A j \in 1 .. i - 1 : f[i][j] = s[j]
      BY <2>1, <2>2, <2>3
    <2>6. \A j \in 1 .. i : f[i][j] = s[j]
      BY <2>1, <2>4, <2>5
    <2> QED BY <2>1, <2>4, <2>6
  <1>5. \A i \in 0 .. Len(s) : i \in S
    <2> HIDE DEF S
    <2> QED BY <1>2, <1>3, <1>4, UpwardInduction
  <1>6. Len(s) \in S
    <2> HIDE DEF S
    <2>1. Len(s) \in 0 .. Len(s)
      BY <1>2
    <2> QED BY <1>5, <2>1
  <1>7. Only(s, kept) \in Seq(T) /\ Len(Only(s, kept)) = Len(s)
        /\ \A j \in 1 .. Len(s) : Only(s, kept)[j] = s[j]
    BY <1>1, <1>6, OnlyFacts
  <1> QED BY <1>7
=============================================================================
