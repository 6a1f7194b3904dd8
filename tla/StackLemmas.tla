---------------------------- MODULE StackLemmas ----------------------------
(***************************************************************************)
(* Facts about sequences that serve as stacks of frames or as queues: what *)
(* a push and a pop do to the elements they hold.  The first element is    *)
(* the top of the stack.                                                   *)
(***************************************************************************)
EXTENDS Integers, Sequences, SequenceTheorems, TLAPS

\* s holds an element of P.
Has(s, P) == \E i \in 1..Len(s) : s[i] \in P

\* s holds at most one element of P.
Alone(s, P) == \A i, j \in 1..Len(s) : s[i] \in P /\ s[j] \in P => i = j

LEMMA EmptyStack ==
  ASSUME NEW S
  PROVE  <<>> \in Seq(S) /\ \A P : ~Has(<<>>, P) /\ Alone(<<>>, P)
  BY DEF Has, Alone

\* An element of P is one of any set that includes P.
LEMMA HasMore ==
  ASSUME NEW s, NEW P, NEW Q, P \subseteq Q, Has(s, P)
  PROVE  Has(s, Q)
  BY DEF Has

LEMMA SeveralHas ==
  ASSUME NEW s, NEW P, ~Alone(s, P)
  PROVE  Has(s, P)
  BY DEF Has, Alone

\* What a sequence holds is of its type.
LEMMA ElementHas ==
  ASSUME NEW S, NEW s \in Seq(S), NEW x, Has(s, {x})
  PROVE  x \in S
  BY ElementOfSeq DEF Has

\* Taking the top off.
LEMMA PopFrame ==
  ASSUME NEW S, NEW s \in Seq(S), s # <<>>
  PROVE  /\ Head(s) \in S /\ Tail(s) \in Seq(S) /\ Len(Tail(s)) = Len(s) - 1
         /\ \A P : Has(s, P) <=> Head(s) \in P \/ Has(Tail(s), P)
         /\ \A P : Alone(s, P) <=> Alone(Tail(s), P) /\ ~(Head(s) \in P /\ Has(Tail(s), P))
<1>1. /\ Tail(s) \in Seq(S) /\ Len(Tail(s)) = Len(s) - 1
      /\ \A i \in 1..Len(Tail(s)) : Tail(s)[i] = s[i + 1]
  BY HeadTailProperties
<1>2. Len(s) \in Nat /\ Len(s) > 0
  BY LenProperties, EmptySeq
<1>3. 1 \in 1..Len(s) /\ Head(s) = s[1] /\ s[1] \in S
  BY <1>2
<1>4. \A i \in 1..Len(Tail(s)) : i + 1 \in 1..Len(s) /\ i + 1 # 1
  BY <1>1, <1>2
<1>5. \A i \in 1..Len(s) :
        i = 1 \/ (i - 1 \in 1..Len(Tail(s)) /\ s[i] = Tail(s)[i - 1])
  <2> SUFFICES ASSUME NEW i \in 1..Len(s), i # 1
               PROVE  i - 1 \in 1..Len(Tail(s)) /\ s[i] = Tail(s)[i - 1]
    OBVIOUS
  <2>1. i - 1 \in 1..Len(Tail(s)) /\ (i - 1) + 1 = i
    BY <1>1, <1>2
  <2> QED
    BY <1>1, <2>1
<1>6. ASSUME NEW P
      PROVE  Has(s, P) <=> Head(s) \in P \/ Has(Tail(s), P)
  <2>1. Has(s, P) => Head(s) \in P \/ Has(Tail(s), P)
    BY <1>3, <1>5 DEF Has
  <2>2. Head(s) \in P => Has(s, P)
    BY <1>3 DEF Has
  <2>3. Has(Tail(s), P) => Has(s, P)
    BY <1>1, <1>4 DEF Has
  <2> QED
    BY <2>1, <2>2, <2>3
<1>7. ASSUME NEW P
      PROVE  Alone(s, P) <=> Alone(Tail(s), P) /\ ~(Head(s) \in P /\ Has(Tail(s), P))
  <2>1. ASSUME Alone(s, P)
        PROVE  Alone(Tail(s), P) /\ ~(Head(s) \in P /\ Has(Tail(s), P))
    <3>1. ASSUME NEW i \in 1..Len(Tail(s)), NEW j \in 1..Len(Tail(s)),
                 Tail(s)[i] \in P, Tail(s)[j] \in P
          PROVE  i = j
      <4>1. s[i + 1] \in P /\ s[j + 1] \in P
        BY <1>1, <3>1
      <4>2. i + 1 = j + 1
        BY <1>4, <2>1, <4>1 DEF Alone
      <4> QED
        BY <4>2
    <3>2. ASSUME Head(s) \in P, NEW i \in 1..Len(Tail(s)), Tail(s)[i] \in P
          PROVE  FALSE
      <4>1. s[1] \in P /\ s[i + 1] \in P
        BY <1>1, <1>3, <3>2
      <4> QED
        BY <1>3, <1>4, <2>1, <4>1 DEF Alone
    <3> QED
      BY <3>1, <3>2 DEF Alone, Has
  <2>2. ASSUME Alone(Tail(s), P), ~(Head(s) \in P /\ Has(Tail(s), P)),
               NEW i \in 1..Len(s), NEW j \in 1..Len(s), s[i] \in P, s[j] \in P
        PROVE  i = j
    <3>1. CASE i # 1 /\ j # 1
      <4>1. /\ i - 1 \in 1..Len(Tail(s)) /\ Tail(s)[i - 1] \in P
            /\ j - 1 \in 1..Len(Tail(s)) /\ Tail(s)[j - 1] \in P
        BY <1>5, <2>2, <3>1
      <4>2. i - 1 = j - 1
        BY <2>2, <4>1 DEF Alone
      <4> QED
        BY <4>2
    <3>2. CASE i = 1 /\ j # 1
      BY <1>3, <1>5, <2>2, <3>2 DEF Has
    <3>3. CASE i # 1 /\ j = 1
      BY <1>3, <1>5, <2>2, <3>3 DEF Has
    <3> QED
      BY <3>1, <3>2, <3>3
  <2> QED
    BY <2>1, <2>2 DEF Alone
<1> QED
  BY <1>1, <1>3, <1>6, <1>7

LEMMA PushFrame ==
  ASSUME NEW S, NEW r \in Seq(S), NEW f \in S
  PROVE  /\ <<f>> \o r \in Seq(S) /\ <<f>> \o r # <<>>
         /\ Head(<<f>> \o r) = f /\ Tail(<<f>> \o r) = r
         /\ \A P : Has(<<f>> \o r, P) <=> f \in P \/ Has(r, P)
         /\ \A P : Alone(<<f>> \o r, P) <=> Alone(r, P) /\ ~(f \in P /\ Has(r, P))
<1> DEFINE p == <<f>> \o r
<1>1. /\ p \in Seq(S) /\ Len(p) = Len(r) + 1 /\ Len(r) \in Nat
      /\ p[1] = f /\ \A i \in 1..Len(r) : p[i + 1] = r[i]
  <2>1. Len(r) \in Nat /\ <<f>> \in Seq(S) /\ Len(<<f>>) = 1 /\ <<f>>[1] = f
    BY LenProperties
  <2>2. /\ p \in Seq(S) /\ Len(p) = 1 + Len(r)
        /\ \A i \in 1..(1 + Len(r)) : p[i] = IF i <= 1 THEN <<f>>[i] ELSE r[i - 1]
    BY <2>1, ConcatProperties
  <2> HIDE DEF p
  <2>3. \A i \in 1..Len(r) : i + 1 \in 1..(1 + Len(r)) /\ ~(i + 1 <= 1) /\ (i + 1) - 1 = i
    BY <2>1
  <2>4. \A i \in 1..Len(r) : p[i + 1] = r[i]
    BY <2>2, <2>3
  <2>5. p[1] = f
    BY <2>1, <2>2
  <2> QED
    BY <2>1, <2>2, <2>4, <2>5
<1> HIDE DEF p
<1>2. p # <<>> /\ Head(p) = f
  BY <1>1, EmptySeq
<1>3. /\ Tail(p) \in Seq(S) /\ Len(Tail(p)) = Len(r)
      /\ \A i \in 1..Len(r) : Tail(p)[i] = r[i]
  BY <1>1, <1>2, HeadTailProperties
<1>4. Tail(p) = r
  BY <1>3, SeqEqual
<1>5. /\ \A P : Has(p, P) <=> Head(p) \in P \/ Has(Tail(p), P)
      /\ \A P : Alone(p, P) <=> Alone(Tail(p), P) /\ ~(Head(p) \in P /\ Has(Tail(p), P))
  BY <1>1, <1>2, PopFrame
<1> QED
  BY <1>1, <1>2, <1>4, <1>5 DEF p

\* Pushing several frames is pushing one after the other.
LEMMA PushTwo ==
  ASSUME NEW S, NEW r \in Seq(S), NEW f \in S, NEW g \in S
  PROVE  <<f, g>> \o r = <<f>> \o (<<g>> \o r) /\ <<f, g>> \o r \in Seq(S)
<1>1. <<f>> \in Seq(S) /\ <<g>> \in Seq(S) /\ <<f, g>> \in Seq(S)
  OBVIOUS
<1>2. <<f, g>> = <<f>> \o <<g>>
  <2>1. <<f, g>> = Append(<<f>>, g)
    OBVIOUS
  <2> QED
    BY <1>1, <2>1, AppendIsConcat
<1>3. (<<f>> \o <<g>>) \o r = <<f>> \o (<<g>> \o r)
  BY <1>1, ConcatAssociative
<1> QED
  BY <1>1, <1>2, <1>3, ConcatProperties

\* The end of a queue.
LEMMA AppendHas ==
  ASSUME NEW S, NEW s \in Seq(S), NEW x \in S
  PROVE  /\ Append(s, x) \in Seq(S)
         /\ \A P : Has(Append(s, x), P) <=> Has(s, P) \/ x \in P
         /\ \A P : Alone(Append(s, x), P) <=> Alone(s, P) /\ ~(x \in P /\ Has(s, P))
<1> DEFINE a == Append(s, x)
<1>1. /\ a \in Seq(S) /\ Len(a) = Len(s) + 1
      /\ \A i \in 1..Len(s) : a[i] = s[i]
      /\ a[Len(s) + 1] = x
  BY AppendProperties
<1>2. Len(s) \in Nat
  BY LenProperties
<1> HIDE DEF a
<1>3. /\ \A i \in 1..Len(a) : i \in 1..Len(s) \/ i = Len(s) + 1
      /\ \A i \in 1..Len(s) : i \in 1..Len(a) /\ i # Len(s) + 1
      /\ Len(s) + 1 \in 1..Len(a)
  BY <1>1, <1>2
<1>4. ASSUME NEW P
      PROVE  Has(a, P) <=> Has(s, P) \/ x \in P
  BY <1>1, <1>3 DEF Has
<1>5. ASSUME NEW P
      PROVE  Alone(a, P) <=> Alone(s, P) /\ ~(x \in P /\ Has(s, P))
  <2>1. Alone(a, P) => Alone(s, P)
    BY <1>1, <1>3 DEF Alone
  <2>2. Alone(a, P) => ~(x \in P /\ Has(s, P))
    BY <1>1, <1>3 DEF Alone, Has
  <2>3. Alone(s, P) /\ ~(x \in P /\ Has(s, P)) => Alone(a, P)
    BY <1>1, <1>3 DEF Alone, Has
  <2> QED
    BY <2>1, <2>2, <2>3
<1> QED
  BY <1>1, <1>4, <1>5 DEF a

LEMMA HasConcat ==
  ASSUME NEW S, NEW s \in Seq(S), NEW t \in Seq(S)
  PROVE  s \o t \in Seq(S) /\ \A P : Has(s \o t, P) <=> Has(s, P) \/ Has(t, P)
<1> DEFINE c == s \o t
<1>1. /\ c \in Seq(S) /\ Len(c) = Len(s) + Len(t)
      /\ \A i \in 1..(Len(s) + Len(t)) : c[i] = IF i <= Len(s) THEN s[i] ELSE t[i - Len(s)]
  BY ConcatProperties
<1>2. Len(s) \in Nat /\ Len(t) \in Nat
  BY LenProperties
<1> HIDE DEF c
<1>3. \A i \in 1..Len(s) : i \in 1..Len(c) /\ c[i] = s[i]
  BY <1>1, <1>2
<1>4. \A i \in 1..Len(t) : i + Len(s) \in 1..Len(c) /\ c[i + Len(s)] = t[i]
  <2> SUFFICES ASSUME NEW i \in 1..Len(t)
               PROVE  i + Len(s) \in 1..Len(c) /\ c[i + Len(s)] = t[i]
    OBVIOUS
  <2>1. /\ i + Len(s) \in 1..(Len(s) + Len(t)) /\ ~(i + Len(s) <= Len(s))
        /\ (i + Len(s)) - Len(s) = i
    BY <1>2
  <2> QED
    BY <1>1, <2>1
<1>5. \A i \in 1..Len(c) :
        i \in 1..Len(s) \/ (i - Len(s) \in 1..Len(t) /\ c[i] = t[i - Len(s)])
  <2> SUFFICES ASSUME NEW i \in 1..Len(c), i \notin 1..Len(s)
               PROVE  i - Len(s) \in 1..Len(t) /\ c[i] = t[i - Len(s)]
    OBVIOUS
  <2>1. i \in 1..(Len(s) + Len(t)) /\ ~(i <= Len(s)) /\ i - Len(s) \in 1..Len(t)
    BY <1>1, <1>2
  <2> QED
    BY <1>1, <2>1
<1>6. ASSUME NEW P
      PROVE  Has(c, P) <=> Has(s, P) \/ Has(t, P)
  <2>1. Has(s, P) => Has(c, P)
    BY <1>3 DEF Has
  <2>2. Has(t, P) => Has(c, P)
    BY <1>4 DEF Has
  <2>3. Has(c, P) => Has(s, P) \/ Has(t, P)
    BY <1>3, <1>5 DEF Has
  <2> QED
    BY <2>1, <2>2, <2>3
<1> QED
  BY <1>1, <1>6 DEF c

LEMMA FewFrames ==
  ASSUME NEW S, NEW f \in S, NEW g \in S
  PROVE  <<f>> = <<f>> \o <<>> /\ <<f, g>> = <<f>> \o (<<g>> \o <<>>)
<1>1. <<>> \in Seq(S) /\ <<f>> \in Seq(S) /\ <<f, g>> \in Seq(S)
  OBVIOUS
<1>2. <<f>> = <<f>> \o <<>> /\ <<f, g>> = <<f, g>> \o <<>>
  BY <1>1, ConcatEmptySeq
<1> QED
  BY <1>1, <1>2, PushTwo

-----------------------------------------------------------------------------
\* Sequences that keep the order of another, in which nothing occurs twice.

Once(s) == \A i, j \in 1..Len(s) : s[i] = s[j] => i = j

Prior(s, a, b) == \E i, j \in 1..Len(s) : i < j /\ s[i] = a /\ s[j] = b

Sorted(q, s) == \A i, j \in 1..Len(q) : i < j => Prior(s, q[i], q[j])

\* What comes first does not come again.
LEMMA NotPriorToItself ==
  ASSUME NEW S, NEW s \in Seq(S), Once(s), NEW a
  PROVE  ~Prior(s, a, a)
<1>1. Len(s) \in Nat
  BY LenProperties
<1> QED
  BY <1>1 DEF Once, Prior

\* A new element comes after all the others.
LEMMA NewIsLast ==
  ASSUME NEW S, NEW s \in Seq(S), Once(s), NEW x \in S, \A i \in 1..Len(s) : s[i] # x
  PROVE  /\ Once(Append(s, x))
         /\ \A a, b : Prior(s, a, b) => Prior(Append(s, x), a, b)
         /\ \A a : Has(s, {a}) => Prior(Append(s, x), a, x)
<1> DEFINE t == Append(s, x)
<1>1. /\ Len(t) = Len(s) + 1 /\ Len(s) \in Nat
      /\ \A i \in 1..Len(s) : t[i] = s[i]
      /\ t[Len(s) + 1] = x
  BY AppendProperties, LenProperties
<1> HIDE DEF t
<1>2. /\ \A i \in 1..Len(t) : i \in 1..Len(s) \/ i = Len(s) + 1
      /\ \A i \in 1..Len(s) : i \in 1..Len(t) /\ i < Len(s) + 1
      /\ Len(s) + 1 \in 1..Len(t)
  BY <1>1
<1>3. Once(t)
  BY <1>1, <1>2 DEF Once
<1>4. \A a, b : Prior(s, a, b) => Prior(t, a, b)
  BY <1>1, <1>2 DEF Prior
<1>5. \A a : Has(s, {a}) => Prior(t, a, x)
  BY <1>1, <1>2 DEF Prior, Has
<1> QED
  BY <1>3, <1>4, <1>5 DEF t

\* What comes before another comes before it without the last element, or the
\* other is the last.
LEMMA PriorAppend ==
  ASSUME NEW S, NEW s \in Seq(S), NEW x \in S
  PROVE  \A a, b : Prior(Append(s, x), a, b) => Prior(s, a, b) \/ (b = x /\ Has(s, {a}))
<1> DEFINE t == Append(s, x)
<1>1. /\ Len(t) = Len(s) + 1 /\ Len(s) \in Nat
      /\ \A i \in 1..Len(s) : t[i] = s[i]
      /\ t[Len(s) + 1] = x
  BY AppendProperties, LenProperties
<1> HIDE DEF t
<1>2. ASSUME NEW a, NEW b, NEW i \in 1..Len(t), NEW j \in 1..Len(t),
             i < j, t[i] = a, t[j] = b
      PROVE  Prior(s, a, b) \/ (b = x /\ Has(s, {a}))
  <2>1. i \in 1..Len(s) /\ s[i] = a
    BY <1>1, <1>2
  <2>2. CASE j \in 1..Len(s)
    BY <1>1, <1>2, <2>1, <2>2 DEF Prior
  <2>3. CASE j = Len(s) + 1
    BY <1>1, <1>2, <2>1, <2>3 DEF Has
  <2> QED
    BY <1>1, <2>2, <2>3
<1> QED
  BY <1>2 DEF Prior, t

LEMMA SortedPop ==
  ASSUME NEW S, NEW q \in Seq(S), q # <<>>, NEW s, Sorted(q, s)
  PROVE  /\ Sorted(Tail(q), s)
         /\ \A d : Has(Tail(q), {d}) => Prior(s, Head(q), d)
<1>1. /\ Tail(q) \in Seq(S) /\ Len(Tail(q)) = Len(q) - 1
      /\ \A i \in 1..Len(Tail(q)) : Tail(q)[i] = q[i + 1]
  BY HeadTailProperties
<1>2. Len(q) \in Nat /\ Len(q) > 0 /\ Head(q) = q[1]
  BY LenProperties, EmptySeq
<1>3. \A i \in 1..Len(Tail(q)) : i + 1 \in 1..Len(q) /\ 1 < i + 1
  BY <1>1, <1>2
<1>4. \A i, j \in 1..Len(Tail(q)) : i < j => i + 1 < j + 1
  OBVIOUS
<1>5. 1 \in 1..Len(q)
  BY <1>2
<1>6. Sorted(Tail(q), s)
  BY <1>1, <1>3, <1>4 DEF Sorted
<1>7. \A d : Has(Tail(q), {d}) => Prior(s, Head(q), d)
  BY <1>1, <1>2, <1>3, <1>5 DEF Sorted, Has
<1> QED
  BY <1>6, <1>7

LEMMA SortedAppend ==
  ASSUME NEW S, NEW q \in Seq(S), NEW x \in S, NEW s, Sorted(q, s),
         \A d : Has(q, {d}) => Prior(s, d, x)
  PROVE  Sorted(Append(q, x), s)
<1> DEFINE t == Append(q, x)
<1>1. /\ Len(t) = Len(q) + 1 /\ Len(q) \in Nat
      /\ \A i \in 1..Len(q) : t[i] = q[i]
      /\ t[Len(q) + 1] = x
  BY AppendProperties, LenProperties
<1> HIDE DEF t
<1> SUFFICES ASSUME NEW i \in 1..Len(t), NEW j \in 1..Len(t), i < j
             PROVE  Prior(s, t[i], t[j])
  BY DEF Sorted, t
<1>2. i \in 1..Len(q) /\ t[i] = q[i]
  BY <1>1
<1>3. CASE j \in 1..Len(q)
  BY <1>1, <1>2, <1>3 DEF Sorted
<1>4. CASE j = Len(q) + 1
  <2>1. Has(q, {t[i]})
    BY <1>2 DEF Has
  <2> QED
    BY <1>1, <1>4, <2>1
<1> QED
  BY <1>1, <1>3, <1>4
=============================================================================
