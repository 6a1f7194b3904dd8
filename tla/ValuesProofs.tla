---------------------------- MODULE ValuesProofs ----------------------------
(***************************************************************************)
(* Proofs about the values on their way to SQLite and back, for every      *)
(* statement, every set of calls and columns, and every width.  The        *)
(* argument is in the README.                                              *)
(***************************************************************************)
EXTENDS Values, FiniteSetTheorems, SequenceTheorems, WellFoundedInduction, TLAPS

-----------------------------------------------------------------------------
\* Least and greatest elements.

\* Intervals that begin with 0, ordered by inclusion, are ordered as their ends.
LEMMA LeastElement ==
  ASSUME NEW T \in SUBSET Nat, T # {}
  PROVE  \E x \in T : \A y \in T : x <= y
<1> DEFINE Below == {0..x : x \in T}
<1>1. Below \subseteq FiniteSubsetsOf(Nat) /\ Below # {}
  <2>1. ASSUME NEW x \in T
        PROVE  0..x \in SUBSET Nat /\ IsFiniteSet(0..x)
    BY FS_Interval
  <2> QED
    BY <2>1 DEF FiniteSubsetsOf
<1>2. PICK B \in Below : \A C \in Below : <<C, B>> \notin StrictSubsetOrdering(Nat)
  BY <1>1, FS_StrictSubsetOrderingWellFounded, WFMin
<1>3. PICK x \in T : B = 0..x
  BY <1>2
<1>4. ASSUME NEW y \in T, y < x
      PROVE  FALSE
  <2>1. 0..y \in Below /\ 0..y \subseteq 0..x /\ 0..y # 0..x /\ 0..x \subseteq Nat
    BY <1>4
  <2> QED
    BY <1>2, <1>3, <2>1 DEF StrictSubsetOrdering
<1> QED
  BY <1>4

LEMMA GreatestElement ==
  ASSUME NEW n \in Nat, NEW T \in SUBSET (1..n), T # {}
  PROVE  \E x \in T : \A y \in T : y <= x
<1> DEFINE Down == {n - x : x \in T}
<1>1. Down \in SUBSET Nat /\ Down # {}
  <2>1. \A x \in T : n - x \in Nat
    OBVIOUS
  <2>2. Down \subseteq Nat
    BY <2>1
  <2>3. PICK x \in T : TRUE
    OBVIOUS
  <2>4. n - x \in Down
    BY <2>3
  <2> QED
    BY <2>2, <2>4
<1>2. PICK d \in Down : \A e \in Down : d <= e
  BY <1>1, LeastElement
<1>3. PICK x \in T : d = n - x
  BY <1>2
<1>4. \A y \in T : n - y \in Down
  OBVIOUS
<1>5. \A y \in T : d <= n - y
  BY <1>2, <1>4
<1>6. n \in Int /\ \A y \in T : y \in Int
  OBVIOUS
<1> HIDE DEF Down
<1>7. \A y \in T : y <= x
  BY <1>3, <1>5, <1>6
<1> QED
  BY <1>7

LEMMA MinIs ==
  ASSUME NEW T \in SUBSET Nat, T # {}
  PROVE  Min(T) \in T /\ \A y \in T : Min(T) <= y
  BY LeastElement DEF Min

LEMMA MaxIs ==
  ASSUME NEW n \in Nat, NEW T \in SUBSET (1..n), T # {}
  PROVE  Max(T) \in T /\ \A y \in T : Max(T) >= y
<1>1. PICK x \in T : \A y \in T : x >= y
  BY GreatestElement
<1> QED
  BY <1>1 DEF Max

\* A function from 1..n to 1..n that grows is the identity.
LEMMA GrowingIsIdentity ==
  ASSUME NEW n \in Nat, NEW f \in [1..n -> 1..n],
         \A i, j \in 1..n : i < j => f[i] < f[j]
  PROVE  \A i \in 1..n : f[i] = i
<1>1. \A i \in 1..n : f[i] >= i
  <2> DEFINE Low == {i \in 1..n : f[i] < i}
  <2> SUFFICES ASSUME Low # {}
               PROVE  FALSE
    OBVIOUS
  <2>1. PICK i \in Low : \A j \in Low : i <= j
    <3>1. Low \in SUBSET Nat
      OBVIOUS
    <3> HIDE DEF Low
    <3> QED
      BY <3>1, LeastElement
  <2>2. i \in 1..n /\ f[i] < i /\ f[i] \in 1..n
    OBVIOUS
  <2>3. i - 1 \in 1..n /\ i - 1 \notin Low
    BY <2>1, <2>2
  <2>4. f[i - 1] >= i - 1 /\ f[i - 1] < f[i] /\ f[i - 1] \in 1..n
    BY <2>2, <2>3
  <2> QED
    BY <2>2, <2>4
<1>2. \A i \in 1..n : f[i] <= i
  <2> DEFINE High == {i \in 1..n : f[i] > i}
  <2> SUFFICES ASSUME High # {}
               PROVE  FALSE
    OBVIOUS
  <2>1. PICK i \in High : \A j \in High : j <= i
    <3>1. High \in SUBSET (1..n)
      OBVIOUS
    <3> HIDE DEF High
    <3> QED
      BY <3>1, GreatestElement
  <2>2. i \in 1..n /\ f[i] > i /\ f[i] \in 1..n
    OBVIOUS
  <2>3. i + 1 \in 1..n /\ i + 1 \notin High
    BY <2>1, <2>2
  <2>4. f[i + 1] <= i + 1 /\ f[i] < f[i + 1] /\ f[i + 1] \in 1..n
    BY <2>2, <2>3
  <2> QED
    BY <2>2, <2>4
<1>3. \A i \in 1..n : f[i] \in 1..n
  OBVIOUS
<1> QED
  BY <1>1, <1>2, <1>3

-----------------------------------------------------------------------------
\* The order of an object's properties.

LEMMA IntervalSize ==
  ASSUME NEW n \in Nat
  PROVE  IsFiniteSet(1..n) /\ Cardinality(1..n) = n
<1>1. IsFiniteSet(1..n) /\ Cardinality(1..n) = IF 1 > n THEN 0 ELSE n - 1 + 1
  BY FS_Interval
<1> QED
  BY <1>1

\* Names that differ and are no array indices stay as they were added.
LEMMA NamesKeepOrder ==
  ASSUME NEW n \in Nat, NEW ns, DOMAIN ns = 1..n, ns = [i \in 1..n |-> ns[i]],
         IsInjective(ns), \A i \in 1..n : ~IsIndex(ns[i])
  PROVE  PropertyOrder(ns) = ns
<1> DEFINE S == ToSet(ns)
           Sorted(s) == \A i, j \in DOMAIN s : i < j => ComesBefore(ns, s[i], s[j])
<1>1. S = {ns[i] : i \in 1..n}
  BY DEF ToSet
<1>2. \A i, j \in 1..n : ns[i] = ns[j] => i = j
  BY DEF IsInjective
<1>3. ns \in Bijection(1..n, S)
  BY <1>1, <1>2 DEF Bijection, Injection, Surjection, IsInjective
<1>4. Cardinality(S) = n
  <2>1. IsFiniteSet(1..n) /\ Cardinality(1..n) = n
    BY IntervalSize
  <2>2. ExistsBijection(1..n, S)
    BY <1>3 DEF ExistsBijection
  <2> QED
    BY <2>1, <2>2, FS_Bijection
<1>5. Len(ns) = n
  <2>1. ns \in Seq(S)
    BY <1>1
  <2> QED
    BY <2>1
<1>6. ASSUME NEW i \in 1..n
      PROVE  Added(ns, ns[i]) = i
  <2> DEFINE I == {j \in 1..Len(ns) : ns[j] = ns[i]}
  <2>1. I \in SUBSET Nat /\ I # {} /\ \A j \in I : j = i
    BY <1>2, <1>5
  <2>2. Added(ns, ns[i]) = Min(I)
    BY <2>1 DEF Added, SelectInSeq
  <2>3. Min(I) \in I
    <3> HIDE DEF I
    <3> QED
      BY <2>1, MinIs
  <2> QED
    BY <2>1, <2>2, <2>3
<1>7. \A a \in S : ~IsIndex(a)
  BY <1>1
<1>8. ns \in [1..n -> S] /\ Sorted(ns)
  BY <1>1, <1>6, <1>7 DEF ComesBefore
<1>9. ASSUME NEW s \in [1..n -> S], Sorted(s)
      PROVE  s = ns
  <2> DEFINE f == [i \in 1..n |-> Added(ns, s[i])]
  <2>1. \A i \in 1..n : s[i] \in S /\ \E j \in 1..n : s[i] = ns[j]
    BY <1>1
  <2>2. \A i \in 1..n : f[i] \in 1..n /\ ns[f[i]] = s[i]
    BY <1>6, <2>1
  <2>3. \A i, j \in 1..n : i < j => f[i] < f[j]
    BY <1>7, <1>9, <2>1 DEF ComesBefore
  <2>4. f \in [1..n -> 1..n]
    BY <2>2
  <2>5. \A i \in 1..n : f[i] = i
    <3> HIDE DEF f
    <3> QED
      BY <2>3, <2>4, GrowingIsIdentity
  <2>6. \A i \in 1..n : ns[i] = s[i]
    BY <2>2, <2>5
  <2> QED
    BY <2>6
<1>10. PropertyOrder(ns) = CHOOSE s \in [1..n -> S] : Sorted(s)
  BY <1>4 DEF PropertyOrder
<1> HIDE DEF S, Sorted
<1> QED
  BY <1>8, <1>9, <1>10

-----------------------------------------------------------------------------
\* The invariant.

Asked == FieldsOf(call)

\* The loop of Bind is done with so many of them.
Done == Len(Asked) - Len(fields)

\* Field i is for parameter p.
Lands(i, p) == Asked[i].field # None /\ Position(Asked[i]) = p

Typed ==
  /\ call.entries \in Seq(Entry)
  /\ bindings = [p \in DOMAIN Parameters |-> bindings[p]]
  /\ status \in {"idle", "binding", "ok", "range", "row"}

\* The first k fields are bound, each over those before it.
Filled(k) ==
  \A p \in DOMAIN Parameters :
    \/ bindings[p] = SqlNull /\ \A i \in 1..k : ~Lands(i, p)
    \/ \E i \in 1..k :
         /\ Lands(i, p) /\ bindings[p] = Stored(Asked[i].field)
         /\ \A j \in 1..k : Lands(j, p) => j <= i

\* There is a parameter for each of them.
Fits(k) == \A i \in 1..k : Asked[i].field # None => Position(Asked[i]) \in DOMAIN Parameters

\* What remains is the rest of what was asked for.
Remaining ==
  /\ fields \in Seq({Asked[i] : i \in DOMAIN Asked})
  /\ Len(fields) <= Len(Asked)
  /\ \A j \in 1..Len(fields) : fields[j] = Asked[Done + j]

BindInv ==
  /\ Typed
  /\ status = "binding" => Remaining
  /\ status \in {"binding", "ok", "row"} => Fits(Done) /\ (call.entries # <<>> => Filled(Done))
  /\ status \in {"ok", "row"} => fields = <<>>
  /\ status = "range" => ~Fits(Len(Asked))
  /\ status = "row" =>
       row = SetProperties(names, bindings) /\ \E n \in DOMAIN Parameters : names \in [1..n -> Columns]

LEMMA AskedType ==
  ASSUME NEW c, c.entries \in Seq(Entry)
  PROVE  /\ FieldsOf(c) \in Seq({FieldsOf(c)[i] : i \in DOMAIN FieldsOf(c)})
         /\ Len(FieldsOf(c)) = Len(c.entries) /\ Len(FieldsOf(c)) \in Nat
         /\ DOMAIN FieldsOf(c) = 1..Len(c.entries)
<1> DEFINE F == FieldsOf(c)
<1>1. DOMAIN c.entries = 1..Len(c.entries) /\ Len(c.entries) \in Nat
  OBVIOUS
<1>2. F = [i \in 1..Len(c.entries) |-> F[i]]
  BY <1>1 DEF FieldsOf
<1> HIDE DEF F
<1>3. DOMAIN F = 1..Len(c.entries)
  BY <1>2
<1>4. F \in Seq({F[i] : i \in DOMAIN F})
  BY <1>1, <1>2, <1>3
<1> QED
  BY <1>1, <1>3, <1>4 DEF F

LEMMA InitBind == Init => BindInv
  BY DEF Init, NoBindings, BindInv, Typed

\* A call clears what was bound, if it has parameters.
LEMMA CallBind ==
  ASSUME BindInv, NEW c \in Calls, Call(c)
  PROVE  BindInv'
<1>1. /\ call' = c /\ fields' = FieldsOf(c) /\ status' = "binding"
      /\ bindings' = IF FieldsOf(c) = <<>> THEN bindings ELSE Cleared
  BY DEF Call
<1>2. c.entries \in Seq(Entry)
  BY ValueAssumption
<1>3. Asked' = FieldsOf(c)
  BY <1>1 DEF Asked
<1>4. Typed'
  BY <1>1, <1>2 DEF Typed, BindInv, Cleared, NoBindings
<1>5. /\ FieldsOf(c) \in Seq({FieldsOf(c)[i] : i \in DOMAIN FieldsOf(c)})
      /\ Len(FieldsOf(c)) = Len(c.entries) /\ Len(FieldsOf(c)) \in Nat
  BY <1>2, AskedType
<1>6. Done' = 0 /\ Remaining'
  BY <1>1, <1>3, <1>5 DEF Done, Remaining
<1>7. Fits(0)' /\ (c.entries # <<>> => Filled(0)')
  <2>1. c.entries # <<>> => FieldsOf(c) # <<>>
    BY <1>2, <1>5
  <2> QED
    BY <1>1, <2>1 DEF Fits, Filled, Cleared, NoBindings
<1> QED
  BY <1>1, <1>4, <1>6, <1>7 DEF BindInv

\* One round of the loop binds the next field, or finds no parameter for it.
LEMMA FieldBind ==
  ASSUME BindInv, BindField
  PROVE  BindInv'
<1> DEFINE f == Head(fields)
           pos == Position(f)
<1>1. /\ status = "binding" /\ fields # <<>> /\ UNCHANGED <<call, names, row>>
  BY DEF BindField
<1>2. /\ Remaining /\ Fits(Done) /\ (call.entries # <<>> => Filled(Done)) /\ Typed
  BY <1>1 DEF BindInv
<1>3. /\ Asked \in Seq({Asked[i] : i \in DOMAIN Asked}) /\ Len(Asked) \in Nat
      /\ Len(Asked) = Len(call.entries) /\ DOMAIN Asked = 1..Len(Asked)
  BY <1>2, AskedType DEF Typed, Asked
<1>4. Asked' = Asked
  BY <1>1 DEF Asked
<1> HIDE DEF Asked
<1>5. /\ Len(fields) \in Nat /\ Len(fields) > 0 /\ Len(fields) <= Len(Asked)
      /\ Tail(fields) \in Seq({Asked[i] : i \in DOMAIN Asked})
      /\ Len(Tail(fields)) = Len(fields) - 1
      /\ \A j \in 1..Len(Tail(fields)) : Tail(fields)[j] = fields[j + 1]
      /\ f = fields[1]
  BY <1>1, <1>2 DEF Remaining
<1>6. PICK k \in 1..Len(Asked) : Done \in Nat /\ k = Done + 1 /\ f = Asked[k]
  BY <1>2, <1>3, <1>5 DEF Done, Remaining
<1>7. ASSUME fields' = Tail(fields), bindings' = [p \in DOMAIN Parameters |-> bindings'[p]],
             f.field # None => pos \in DOMAIN Parameters,
             call.entries # <<>> => Filled(k)', UNCHANGED status
      PROVE  BindInv'
  <2>1. Done' = k
    <3>1. Len(Asked)' = Len(Asked) /\ Len(fields)' = Len(Tail(fields))
      BY <1>4, <1>7
    <3>2. Done' = Len(Asked) - (Len(fields) - 1)
      BY <1>5, <3>1 DEF Done
    <3>3. k = Len(Asked) - Len(fields) + 1
      BY <1>6 DEF Done
    <3> QED
      BY <1>3, <1>5, <3>2, <3>3
  <2>2. Remaining'
    <3>1. \A j \in 1..Len(Tail(fields)) : Tail(fields)[j] = Asked[k + j]
      BY <1>2, <1>5, <1>6 DEF Remaining
    <3> QED
      BY <1>3, <1>4, <1>5, <1>7, <2>1, <3>1 DEF Remaining
  <2>3. Fits(k)'
    BY <1>2, <1>4, <1>6, <1>7 DEF Fits
  <2>4. Typed'
    BY <1>1, <1>2, <1>7 DEF Typed
  <2> QED
    BY <1>1, <1>7, <2>1, <2>2, <2>3, <2>4 DEF BindInv
<1>8. call.entries # <<>> /\ Filled(Done)
  <2>1. call.entries # <<>>
    BY <1>3, <1>5, <1>2 DEF Typed
  <2> QED
    BY <1>2, <2>1
<1>9. CASE f.field = None /\ fields' = Tail(fields) /\ UNCHANGED <<bindings, status>>
  <2>1. \A p : ~Lands(k, p)
    BY <1>6, <1>9 DEF Lands
  <2>2. Filled(k)'
    BY <1>1, <1>4, <1>6, <1>8, <1>9, <2>1 DEF Filled, Lands
  <2> QED
    BY <1>2, <1>7, <1>9, <2>2 DEF Typed
<1>10. CASE /\ f.field # None /\ pos \in DOMAIN Parameters
            /\ bindings' = [bindings EXCEPT ![pos] = Stored(f.field)]
            /\ fields' = Tail(fields) /\ UNCHANGED status
  <2>1. /\ bindings' = [p \in DOMAIN Parameters |-> bindings'[p]]
        /\ bindings'[pos] = Stored(f.field)
        /\ \A p \in DOMAIN Parameters \ {pos} : bindings'[p] = bindings[p]
    BY <1>2, <1>10 DEF Typed
  <2>2. Lands(k, pos) /\ \A p : p # pos => ~Lands(k, p)
    BY <1>6, <1>10 DEF Lands
  <2>3. \A i, p : Lands(i, p)' <=> Lands(i, p)
    BY <1>4 DEF Lands
  <2>4. Filled(k)'
    <3> SUFFICES ASSUME NEW p \in DOMAIN Parameters
                 PROVE  \/ bindings'[p] = SqlNull /\ \A i \in 1..k : ~Lands(i, p)
                        \/ \E i \in 1..k :
                             /\ Lands(i, p) /\ bindings'[p] = Stored(Asked[i].field)
                             /\ \A j \in 1..k : Lands(j, p) => j <= i
      BY <1>4, <1>6, <2>3 DEF Filled, Done
    <3>1. CASE p = pos
      BY <1>6, <2>1, <2>2, <3>1
    <3>2. CASE p # pos
      BY <1>6, <1>8, <2>1, <2>2, <3>2 DEF Filled
    <3> QED
      BY <3>1, <3>2
  <2> QED
    BY <1>7, <1>10, <2>1, <2>4
<1>11. CASE /\ f.field # None /\ pos \notin DOMAIN Parameters
            /\ status' = "range" /\ fields' = <<>> /\ UNCHANGED bindings
  <2>1. ~Fits(Len(Asked))'
    BY <1>4, <1>6, <1>11, <1>3 DEF Fits
  <2> QED
    BY <1>1, <1>2, <1>11, <2>1 DEF BindInv, Typed
<1> QED
  BY <1>9, <1>10, <1>11 DEF BindField

LEMMA BindNext ==
  ASSUME BindInv, [Next]_vars
  PROVE  BindInv'
<1>1. CASE \E c \in Calls : Call(c)
  BY <1>1, CallBind
<1>2. CASE BindField
  BY <1>2, FieldBind
<1>3. CASE Bound
  <2>1. /\ status = "binding" /\ fields = <<>> /\ status' = "ok"
        /\ UNCHANGED <<call, fields, bindings, names, row>>
    BY <1>3 DEF Bound
  <2> QED
    BY <2>1 DEF BindInv, Typed, Done, Asked, Fits, Filled, Lands
<1>4. ASSUME NEW n \in DOMAIN Parameters, NEW ns \in [1..n -> Columns], Read(ns)
      PROVE  BindInv'
  <2>1. /\ status = "ok" /\ status' = "row" /\ names' = ns /\ row' = SetProperties(ns, bindings)
        /\ UNCHANGED <<call, fields, bindings>>
    BY <1>4 DEF Read
  <2> QED
    BY <1>4, <2>1 DEF BindInv, Typed, Done, Asked, Fits, Filled, Lands
<1>5. CASE UNCHANGED vars
  BY <1>5 DEF vars, BindInv, Typed, Remaining, Done, Asked, Fits, Filled, Lands
<1> QED
  BY <1>1, <1>2, <1>3, <1>4, <1>5 DEF Next

\* The parameters hold what the fields before the loop's asked for, and a row
\* what is bound.
THEOREM BindInvariant == Spec => []BindInv
  BY InitBind, BindNext, PTL DEF Spec

-----------------------------------------------------------------------------
\* The conversions.

\* An int is what comes out of Int32 as it went in.
LEMMA OtherIsIntIs ==
  ASSUME NEW n \in Int
  PROVE  OtherIsInt(n) <=> n \in (-IntHalf)..(IntHalf - 1)
<1>1. IntHalf \in Nat \ {0}
  BY ValueAssumption
<1> QED
  BY <1>1 DEF OtherIsInt, Int32

\* A position that an unsigned short holds is kept.
LEMMA ShortKeeps ==
  ASSUME NEW n \in 0..(ShortSize - 1)
  PROVE  UnsignedShort(n) = n /\ OtherIsInt(n)
<1>1. ShortSize \in Nat \ {0} /\ IntHalf \in Nat /\ ShortSize <= IntHalf
  BY ValueAssumption
<1>2. n % ShortSize = n
  BY <1>1
<1>3. n \in Int /\ n \in (-IntHalf)..(IntHalf - 1)
  BY <1>1
<1> QED
  BY <1>2, <1>3, OtherIsIntIs DEF UnsignedShort

\* BindParameter makes a field of every value but those it does not know, and
\* the field reads back as that value.
LEMMA FieldReads ==
  ASSUME NEW v \in JsValue
  PROVE  /\ Field(v) = None <=> Skipped(v)
         /\ ~Skipped(v) => ToJs(Stored(Field(v))) = Expected(v)
<1>1. v.type \in JsTypes /\ v.n \in Int
  BY DEF JsValue
<1>2. OtherIsInt(v.n) => Int32(v.n) = v.n
  BY DEF OtherIsInt
<1>3. CASE v.type = "number"
  BY <1>1, <1>2, <1>3 DEF Field, Stored, ToJs, Expected, Skipped, Sql, SqlNull, None
<1>4. CASE v.type \in {"string", "regexp", "object", "fraction"}
  BY <1>4 DEF Field, Stored, ToJs, Expected, Skipped, Sql, SqlNull, None
<1>5. CASE v.type \in {"nan", "null", "undefined", "bigint"}
  BY <1>5 DEF Field, Stored, ToJs, Expected, Skipped, Sql, SqlNull, None
<1>6. CASE v.type \in {"true", "false", "buffer", "date"}
  BY <1>6 DEF Field, Stored, ToJs, Expected, Skipped, Sql, SqlNull, None
<1> QED
  BY <1>1, <1>3, <1>4, <1>5, <1>6 DEF JsTypes

\* The parameter of a name, and 0 for a name that no parameter has.
LEMMA NameIs ==
  ASSUME NEW name
  PROVE  /\ name # "" /\ (\E p \in DOMAIN Parameters : Parameters[p] = name) =>
              ParameterIndex(name) = CHOOSE p \in DOMAIN Parameters : Parameters[p] = name
         /\ ~(name # "" /\ \E p \in DOMAIN Parameters : Parameters[p] = name) =>
              ParameterIndex(name) = 0
<1> DEFINE I == {i \in 1..Len(Parameters) : Parameters[i] = name}
<1>1. DOMAIN Parameters = 1..Len(Parameters) /\ Len(Parameters) \in Nat
  <2>1. Parameters \in Seq(STRING)
    BY ParameterAssumption
  <2> QED
    BY <2>1
<1>2. name # "" => ParameterIndex(name) = IF I # {} THEN Min(I) ELSE 0
  BY DEF ParameterIndex, SelectInSeq
<1>3. ASSUME name # "", NEW q \in DOMAIN Parameters, Parameters[q] = name
      PROVE  ParameterIndex(name) = CHOOSE p \in DOMAIN Parameters : Parameters[p] = name
  <2>1. \A p \in DOMAIN Parameters : Parameters[p] = name => p = q
    BY <1>3, ParameterAssumption
  <2>2. (CHOOSE p \in DOMAIN Parameters : Parameters[p] = name) = q
    BY <1>3, <2>1
  <2>3. I \in SUBSET Nat /\ q \in I /\ \A i \in I : i = q
    <3>1. I \in SUBSET Nat
      BY <1>1
    <3> QED
      BY <1>1, <1>3, <2>1, <3>1
  <2>4. Min(I) \in I
    <3> HIDE DEF I
    <3> QED
      BY <2>3, MinIs
  <2> QED
    BY <1>2, <1>3, <2>2, <2>3, <2>4
<1>4. ASSUME ~(name # "" /\ \E p \in DOMAIN Parameters : Parameters[p] = name)
      PROVE  ParameterIndex(name) = 0
  BY <1>1, <1>2, <1>4 DEF ParameterIndex
<1> QED
  BY <1>3, <1>4

\* A value that is given lands where it is addressed to, if an unsigned short
\* holds that position.
LEMMA LandsAsAddressed ==
  ASSUME NEW c, c.entries \in Seq(Entry), NEW i \in DOMAIN c.entries,
         Addressed(c, i) \in 0..(ShortSize - 1)
  PROVE  Position(FieldsOf(c)[i]) = Addressed(c, i)
<1> DEFINE a == Addressed(c, i)
           f == FieldsOf(c)[i]
           key == c.entries[i].key
           v == c.entries[i].value
<1>1. i \in Nat \ {0} /\ c.entries[i] \in Entry
  OBVIOUS
<1>2. key.numeric \in BOOLEAN /\ key.n \in Int
  BY <1>1 DEF Entry, Key
<1>3. f = IF c.shape = "object" THEN ByKey(key, v) ELSE At(i, "", v)
  BY DEF FieldsOf
<1>4. UnsignedShort(a) = a /\ OtherIsInt(a) /\ a \in Nat
  BY ShortKeeps, ValueAssumption
<1>5. \A n, name : At(n, name, v).index = UnsignedShort(n) /\ At(n, name, v).name = name
  BY DEF At
<1> HIDE DEF f
<1>6. CASE c.shape # "object"
  <2>1. a = i
    BY <1>6 DEF Addressed
  <2>2. f.index = UnsignedShort(a)
    BY <1>3, <1>5, <1>6, <2>1
  <2>3. f.index = a /\ a > 0
    BY <1>1, <1>4, <2>1, <2>2
  <2>4. Position(f) = a
    BY <2>3 DEF Position
  <2> QED
    BY <2>4 DEF f
<1>7. CASE c.shape = "object" /\ key.numeric
  <2>1. a = key.n
    BY <1>7 DEF Addressed
  <2>2. f.index = a /\ f.name = ""
    <3>1. f = At(a, "", v)
      BY <1>3, <1>4, <1>7, <2>1 DEF ByKey
    <3> QED
      BY <1>4, <1>5, <3>1
  <2>3. ParameterIndex("") = 0
    BY NameIs
  <2> HIDE DEF a
  <2>4. Position(f) = a
    <3>1. CASE a > 0
      BY <2>2, <3>1 DEF Position
    <3>2. CASE a = 0
      BY <2>2, <2>3, <3>2 DEF Position
    <3> QED
      BY <1>4, <3>1, <3>2
  <2> QED
    BY <2>4 DEF f, a
<1>8. CASE c.shape = "object" /\ ~key.numeric
  <2>1. a = ParameterIndex(key.name)
    BY <1>8, NameIs DEF Addressed
  <2>2. UnsignedShort(0) = 0
    BY ShortKeeps, ValueAssumption
  <2>3. f.index = 0 /\ f.name = key.name
    BY <1>3, <1>5, <1>8, <2>2 DEF ByKey
  <2>4. Position(f) = a
    BY <2>1, <2>3 DEF Position
  <2> QED
    BY <2>4 DEF f
<1> QED
  BY <1>6, <1>7, <1>8

\* Of a value that is given a field is made that lands where it is addressed
\* to; of any other value none.
LEMMA GivenLands ==
  ASSUME Typed, ~GoesRound(call)
  PROVE  /\ Len(Asked) \in Nat
         /\ \A i \in 1..Len(Asked) :
              /\ Asked[i].field # None <=> i \in Given(call)
              /\ i \in Given(call) =>
                   /\ Position(Asked[i]) = Addressed(call, i)
                   /\ ToJs(Stored(Asked[i].field)) = Expected(call.entries[i].value)
         /\ Given(call) \subseteq 1..Len(Asked)
<1>1. /\ call.entries \in Seq(Entry) /\ DOMAIN call.entries = 1..Len(Asked)
      /\ Len(Asked) \in Nat
  <2>1. call.entries \in Seq(Entry)
    BY DEF Typed
  <2>2. Len(Asked) = Len(call.entries) /\ Len(Asked) \in Nat
    BY <2>1, AskedType DEF Asked
  <2> QED
    BY <2>1, <2>2
<1>2. ASSUME NEW i \in 1..Len(Asked)
      PROVE  /\ Asked[i].field # None <=> i \in Given(call)
             /\ i \in Given(call) =>
                  /\ Position(Asked[i]) = Addressed(call, i)
                  /\ ToJs(Stored(Asked[i].field)) = Expected(call.entries[i].value)
  <2> DEFINE v == call.entries[i].value
  <2>1. i \in DOMAIN call.entries /\ call.entries[i] \in Entry
    BY <1>1
  <2>2. v \in JsValue
    BY <2>1 DEF Entry
  <2>3. Asked[i].field = Field(v)
    BY <2>1 DEF Asked, FieldsOf, ByKey, At
  <2>4. i \in Given(call) <=> ~Skipped(v)
    BY <2>1 DEF Given
  <2>5. i \in Given(call) => Position(Asked[i]) = Addressed(call, i)
    BY <1>1, <2>1, LandsAsAddressed DEF GoesRound, Asked
  <2> QED
    BY <2>2, <2>3, <2>4, <2>5, FieldReads
<1>3. Given(call) \subseteq 1..Len(Asked)
  BY <1>1 DEF Given
<1> QED
  BY <1>1, <1>2, <1>3

-----------------------------------------------------------------------------
\* The theorems.

\* After a call that succeeds each parameter holds the last value that was
\* given for it, whatever calls before have bound, and a call is refused exactly
\* when it gives a value to no parameter: Statement::Bind and BindParameter.
THEOREM ValuesBound == Spec => []BoundAsAddressed
<1>1. BindInv => BoundAsAddressed
  <2> SUFFICES ASSUME BindInv, ~GoesRound(call)
               PROVE  /\ status = "ok" /\ call.entries # <<>> =>
                           \A p \in DOMAIN Parameters :
                             LET given == {i \in Given(call) : Addressed(call, i) = p}
                                 last == CHOOSE i \in given : \A j \in given : j <= i
                             IN  ToJs(bindings[p]) =
                                   IF given = {} THEN ToJs(SqlNull)
                                   ELSE Expected(call.entries[last].value)
                      /\ status \in {"ok", "range"} =>
                           (status = "range" <=>
                              \E i \in Given(call) : Addressed(call, i) \notin DOMAIN Parameters)
    BY DEF BoundAsAddressed
  <2>1. /\ Len(Asked) \in Nat
        /\ \A i \in 1..Len(Asked) :
             /\ Asked[i].field # None <=> i \in Given(call)
             /\ i \in Given(call) =>
                  /\ Position(Asked[i]) = Addressed(call, i)
                  /\ ToJs(Stored(Asked[i].field)) = Expected(call.entries[i].value)
        /\ Given(call) \subseteq 1..Len(Asked)
    BY GivenLands DEF BindInv
  <2>2. status = "ok" => Done = Len(Asked)
    BY <2>1 DEF BindInv, Done
  <2>3. Fits(Len(Asked)) <=> \A i \in Given(call) : Addressed(call, i) \in DOMAIN Parameters
    BY <2>1 DEF Fits
  <2>4. status \in {"ok", "range"} =>
          (status = "range" <=>
             \E i \in Given(call) : Addressed(call, i) \notin DOMAIN Parameters)
    BY <2>2, <2>3 DEF BindInv
  <2>5. ASSUME status = "ok", call.entries # <<>>, NEW p \in DOMAIN Parameters
        PROVE  LET given == {i \in Given(call) : Addressed(call, i) = p}
                   last == CHOOSE i \in given : \A j \in given : j <= i
               IN  ToJs(bindings[p]) =
                     IF given = {} THEN ToJs(SqlNull)
                     ELSE Expected(call.entries[last].value)
    <3> DEFINE given == {i \in Given(call) : Addressed(call, i) = p}
               last == CHOOSE i \in given : \A j \in given : j <= i
    <3>1. Filled(Len(Asked))
      BY <2>2, <2>5 DEF BindInv
    <3>2. \A i \in 1..Len(Asked) : Lands(i, p) <=> i \in given
      BY <2>1 DEF Lands
    <3>3. given \subseteq 1..Len(Asked)
      BY <2>1
    <3>4. CASE bindings[p] = SqlNull /\ \A i \in 1..Len(Asked) : ~Lands(i, p)
      BY <3>2, <3>3, <3>4
    <3>5. ASSUME NEW i \in 1..Len(Asked), Lands(i, p), bindings[p] = Stored(Asked[i].field),
                 \A j \in 1..Len(Asked) : Lands(j, p) => j <= i
          PROVE  given # {} /\ ToJs(bindings[p]) = Expected(call.entries[last].value)
      <4>1. i \in given /\ \A j \in given : j <= i
        BY <3>2, <3>3, <3>5
      <4>2. \A k \in given : (\A j \in given : j <= k) => k = i
        BY <2>1, <3>3, <4>1
      <4>3. last = i
        <5> HIDE DEF given
        <5> QED
          BY <4>1, <4>2
      <4> QED
        BY <2>1, <3>5, <4>1, <4>3
    <3> QED
      BY <3>1, <3>4, <3>5 DEF Filled
  <2> QED
    BY <2>4, <2>5
<1> QED
  BY <1>1, BindInvariant, PTL

\* Statement.prototype.map takes the first column for the key, the second of
\* two for the value, and the row of three, when the names of the columns differ
\* and none is an array index.
THEOREM ColumnsMapped == Spec => []MapTakesColumns
<1>1. BindInv => MapTakesColumns
  <2> SUFFICES ASSUME BindInv, status = "row", Len(names) > 1, IsInjective(names),
                      \A i \in DOMAIN names : ~IsIndex(names[i])
               PROVE  /\ MappedKey(row) = ToJs(bindings[1])
                      /\ Len(names) = 2 => MappedValue(row) = ToJs(bindings[2])
                      /\ Len(names) > 2 => MappedValue(row) = row
    BY DEF MapTakesColumns
  <2>1. PICK n \in DOMAIN Parameters : names \in [1..n -> Columns]
    BY DEF BindInv
  <2>2. n \in Nat /\ DOMAIN names = 1..n /\ names = [i \in 1..n |-> names[i]] /\ Len(names) = n
    <3>1. Parameters \in Seq(STRING)
      BY ParameterAssumption
    <3>2. n \in Nat
      BY <3>1
    <3> QED
      BY <2>1, <3>2
  <2>3. PropertyOrder(names) = names
    BY <2>2, NamesKeepOrder
  <2>4. ASSUME NEW i \in 1..n
        PROVE  LastAdded(names, names[i]) = i
    <3> DEFINE I == {j \in 1..Len(names) : names[j] = names[i]}
    <3>1. I \in SUBSET (1..n) /\ i \in I /\ \A j \in I : j = i
      BY <2>2 DEF IsInjective
    <3>2. LastAdded(names, names[i]) = Max(I)
      BY <3>1 DEF LastAdded, SelectLastInSeq
    <3>3. Max(I) \in I
      <4> HIDE DEF I
      <4> QED
        BY <2>2, <3>1, MaxIs
    <3> QED
      BY <3>1, <3>2, <3>3
  <2>5. row = [i \in 1..n |-> [key |-> names[i], value |-> ToJs(bindings[i])]]
    <3>1. row = SetProperties(names, bindings)
      BY DEF BindInv
    <3>2. SetProperties(names, bindings) =
            [i \in 1..n |->
               [key |-> names[i], value |-> ToJs(bindings[LastAdded(names, names[i])])]]
      BY <2>2, <2>3 DEF SetProperties
    <3> QED
      BY <2>4, <3>1, <3>2
  <2>6. n > 1 /\ Len(row) = n
    BY <2>2, <2>5
  <2> QED
    BY <2>2, <2>5, <2>6 DEF MappedKey, MappedValue
<1> QED
  BY <1>1, BindInvariant, PTL
=============================================================================
