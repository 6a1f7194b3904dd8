------------------------ MODULE CachedDatabaseProofs ------------------------
(***************************************************************************)
(* The callbacks of cached.Database come in the order of the requests, and *)
(* find the database open, for every set of files and any number of        *)
(* requests.                                                               *)
(***************************************************************************)
EXTENDS CachedDatabase, StackLemmas

Known == 1..Len(requests)
FileOf(r) == requests[r].file

Lives == {"none", "opening", "open", "failed", "closed"}
TurnKinds == {"idle", "program", "open", "emit", "listener", "tick"}

\* Init names a file even when there is none.
Places == Files \cup {CHOOSE f \in Files : TRUE}

\* Those whom the open of f will call, in their order.
Waiters(f) ==
  IF life[f] \in {"none", "opening"} \/ (turn.kind = "open" /\ turn.file = f /\ life[f] = "open")
    THEN waiting[f]
  ELSE IF turn.kind \in {"emit", "listener"} /\ turn.file = f THEN turn.left
  ELSE <<>>

Typed ==
  /\ life \in [Files -> Lives]
  /\ waiting = [f \in Files |-> waiting[f]]
  /\ requests \in Seq([file : Files, callback : BOOLEAN])
  /\ called \in Seq(Known) /\ ticks \in Seq(Known)
  /\ turn \in [kind : TurnKinds, file : Places, left : Seq(Nat)]
  /\ turn.kind \notin {"idle", "program"} => turn.file \in Files
  /\ \A f \in Files : Waiters(f) \in Seq(Known)
  /\ late \in BOOLEAN /\ tickThrew \in BOOLEAN

\* y is the first request for f.
First(y, f) == FileOf(y) = f /\ \A r \in Known : FileOf(r) = f => y <= r

\* The database is made by the first request, and calls nobody before its open.
Making ==
  /\ \A f \in Files : life[f] = "none" => \A r \in Known : FileOf(r) # f
  /\ \A f \in Files : life[f] # "none" => \E y \in Known : First(y, f)
  /\ \A f \in Files : life[f] \in {"none", "opening"} =>
       /\ \A x \in Known : Has(ticks, {x}) \/ Has(called, {x}) => FileOf(x) # f
       /\ \A x \in Known : Has(waiting[f], {x}) => \E y \in Known : y < x /\ FileOf(y) = f

\* The open event comes from an open database, and so do ticks, unless one of
\* them threw.
Opened ==
  /\ turn.kind \in {"emit", "listener"} => life[turn.file] = "open"
  /\ late => tickThrew
  /\ ~tickThrew => \A x \in Known : Has(ticks, {x}) => life[FileOf(x)] = "open"

Rising(s) == \A i, j \in 1..Len(s) : i < j => s[i] < s[j]

\* Who was called, who waits for the event and who waits for a tick asked in
\* this order.
InLine ==
  /\ Rising(ticks)
  /\ \A x, y \in Known :
       Has(called, {x}) /\ Has(ticks, {y}) /\ FileOf(x) = FileOf(y) => x < y
  /\ \A f \in Files :
       /\ Rising(Waiters(f))
       /\ \A x \in Known : Has(Waiters(f), {x}) => FileOf(x) = f
       /\ \A x, y \in Known :
            Has(Waiters(f), {y}) /\ Has(called, {x}) /\ FileOf(x) = f => x < y
       /\ \A x, y \in Known :
            Has(Waiters(f), {x}) /\ Has(ticks, {y}) /\ FileOf(y) = f => x < y

CacheInv == Typed /\ Making /\ Opened /\ InLine /\ CalledMeansOpen /\ InRequestOrder

-----------------------------------------------------------------------------
\* Sequences of requests.

LEMMA SeqGrows ==
  ASSUME NEW n \in Nat, NEW s \in Seq(1..n)
  PROVE  s \in Seq(1..(n + 1)) /\ s \in Seq(Nat) /\ \A x : Has(s, {x}) => x \in 1..n
<1>1. \A x : Has(s, {x}) => x \in 1..n
  BY ElementHas
<1> QED
  BY <1>1

LEMMA RisingPop ==
  ASSUME NEW S, S \subseteq Nat, NEW s \in Seq(S), s # <<>>, Rising(s)
  PROVE  Rising(Tail(s)) /\ \A x : Has(Tail(s), {x}) => Head(s) < x
<1>1. /\ Len(Tail(s)) = Len(s) - 1 /\ Len(s) \in Nat
      /\ \A i \in 1..Len(Tail(s)) : Tail(s)[i] = s[i + 1]
  BY HeadTailProperties, LenProperties
<1>2. \A i \in 1..Len(Tail(s)) : i + 1 \in 1..Len(s) /\ 1 \in 1..Len(s) /\ 1 < i + 1
  BY <1>1
<1>3. ASSUME NEW i \in 1..Len(Tail(s)), NEW j \in 1..Len(Tail(s)), i < j
      PROVE  Tail(s)[i] < Tail(s)[j]
  <2>1. i + 1 < j + 1
    BY <1>1, <1>3
  <2>2. s[i + 1] < s[j + 1]
    BY <1>2, <2>1 DEF Rising
  <2> QED
    BY <1>1, <2>2
<1>4. ASSUME NEW i \in 1..Len(Tail(s))
      PROVE  Head(s) < Tail(s)[i]
  <2>1. s[1] < s[i + 1]
    BY <1>2 DEF Rising
  <2> QED
    BY <1>1, <2>1
<1> QED
  BY <1>3, <1>4 DEF Rising, Has

LEMMA RisingPush ==
  ASSUME NEW S, S \subseteq Nat, NEW s \in Seq(S), NEW x \in Nat, Rising(s),
         \A y : Has(s, {y}) => y < x
  PROVE  Rising(Append(s, x))
<1> DEFINE t == Append(s, x)
<1>1. s \in Seq(Nat)
  BY SeqMonotonic
<1>2. /\ Len(t) = Len(s) + 1 /\ Len(s) \in Nat
      /\ \A i \in 1..Len(s) : t[i] = s[i]
      /\ t[Len(s) + 1] = x
  BY <1>1, AppendProperties, LenProperties
<1> HIDE DEF t
<1>3. \A i \in 1..Len(s) : Has(s, {s[i]})
  BY DEF Has
<1>4. ASSUME NEW i \in 1..Len(t), NEW j \in 1..Len(t), i < j
      PROVE  t[i] < t[j]
  <2>1. i \in 1..Len(s)
    BY <1>2, <1>4
  <2>2. CASE j \in 1..Len(s)
    BY <1>2, <1>4, <2>1, <2>2 DEF Rising
  <2>3. CASE j = Len(s) + 1
    BY <1>2, <1>3, <2>1, <2>3
  <2> QED
    BY <1>2, <2>2, <2>3
<1> QED
  BY <1>4 DEF Rising, t

LEMMA RisingEmpty ==
  ASSUME NEW S, NEW s \in Seq(S), \A x : ~Has(s, {x})
  PROVE  Rising(s) /\ s = <<>>
<1>1. Len(s) \in Nat /\ ~(Len(s) > 0)
  BY LenProperties DEF Has
<1> QED
  BY <1>1, EmptySeq DEF Rising

LEMMA NobodyThere ==
  /\ Rising(<<>>) /\ \A x : ~Has(<<>>, {x})
  /\ \A S : <<>> \in Seq(S)
  BY EmptyStack DEF Rising

\* What the sequences of requests hold is known.
LEMMA WhoIsKnown ==
  ASSUME Typed
  PROVE  /\ Len(requests) \in Nat
         /\ \A x : Has(called, {x}) \/ Has(ticks, {x}) => x \in Known
         /\ \A f \in Files : \A x : Has(Waiters(f), {x}) => x \in Known
         /\ \A r \in Known : FileOf(r) \in Files
<1>1. Len(requests) \in Nat
  BY LenProperties DEF Typed
<1>2. ASSUME NEW r \in Known
      PROVE  FileOf(r) \in Files
  <2>1. requests[r] \in [file : Files, callback : BOOLEAN]
    BY ElementOfSeq DEF Typed, Known
  <2> QED
    BY <2>1 DEF FileOf
<1> QED
  BY <1>1, <1>2, ElementHas DEF Typed

\* The constructor's request is the first for its file.
LEMMA FirstRequest ==
  ASSUME Typed, Making, NEW f \in Files, life[f] # "none"
  PROVE  constructor(f) \in Known /\ First(constructor(f), f)
<1> DEFINE I == {r \in 1..Len(requests) : requests[r].file = f}
<1>1. Len(requests) \in Nat
  BY WhoIsKnown
<1>2. PICK m \in Known : First(m, f)
  BY DEF Making
<1>3. m \in I /\ I \subseteq Nat /\ \A r \in I : m <= r
  BY <1>1, <1>2 DEF First, Known, FileOf
<1>4. constructor(f) = Min(I)
  BY <1>3 DEF constructor, SelectInSeq
<1> HIDE DEF I
<1>5. Min(I) = m
  <2>1. Min(I) \in I /\ \A r \in I : Min(I) <= r
    BY <1>3 DEF Min
  <2>2. Min(I) <= m /\ m <= Min(I)
    BY <1>3, <2>1
  <2>3. Min(I) \in Nat /\ m \in Nat
    BY <1>3, <2>1
  <2> QED
    BY <2>2, <2>3
<1> QED
  BY <1>2, <1>4, <1>5 DEF First

-----------------------------------------------------------------------------
\* Steps that call nobody and make no request: at most they give up those who
\* still wait for an event, or close a database with no tick to come.

TurnTyped ==
  /\ turn \in [kind : TurnKinds, file : Places, left : Seq(Nat)]
  /\ turn.kind \notin {"idle", "program"} => turn.file \in Files
  /\ turn.kind \in {"emit", "listener"} => life[turn.file] = "open"

LEMMA QuietCache ==
  ASSUME CacheInv, UNCHANGED <<requests, called, ticks, waiting, misled>>,
         life' \in [Files -> Lives], TurnTyped',
         late' \in BOOLEAN, tickThrew' \in BOOLEAN,
         tickThrew => tickThrew', late' => tickThrew',
         \A f \in Files :
           \/ life'[f] = life[f]
           \/ life[f] = "open" /\ life'[f] = "closed" /\ (ticks = <<>> \/ late),
         \A f \in Files : Waiters(f)' \in {Waiters(f), <<>>}
  PROVE  CacheInv'
<1>1. Known' = Known /\ \A r : FileOf(r)' = FileOf(r)
  BY DEF Known, FileOf
<1>2. Typed'
  <2>1. /\ called' \in Seq(Known') /\ ticks' \in Seq(Known')
        /\ requests' \in Seq([file : Files, callback : BOOLEAN])
        /\ waiting' = [f \in Files |-> waiting'[f]]
    BY <1>1 DEF CacheInv, Typed
  <2>2. \A f \in Files : Waiters(f)' \in Seq(Known')
    BY <1>1, NobodyThere DEF CacheInv, Typed
  <2> QED
    BY <2>1, <2>2 DEF Typed, TurnTyped
<1>3. \A f \in Files :
        /\ life'[f] \in {"none", "opening"} => life'[f] = life[f]
        /\ life[f] = "none" => life'[f] = "none"
  OBVIOUS
<1>4. Making'
  <2>1. \A f, y : First(y, f)' <=> First(y, f)
    BY <1>1 DEF First
  <2>2. \A f \in Files : life'[f] = "none" => \A r \in Known : FileOf(r) # f
    <3>1. \A f \in Files : life'[f] = "none" => life[f] = "none"
      BY <1>3
    <3> QED
      BY <3>1 DEF CacheInv, Making
  <2>3. \A f \in Files : life'[f] # "none" => \E y \in Known : First(y, f)
    <3>1. \A f \in Files : life'[f] # "none" => life[f] # "none"
      BY <1>3
    <3> QED
      BY <3>1 DEF CacheInv, Making
  <2>4. ASSUME NEW f \in Files, life'[f] \in {"none", "opening"}
        PROVE  /\ \A x \in Known : Has(ticks, {x}) \/ Has(called, {x}) => FileOf(x) # f
               /\ \A x \in Known :
                    Has(waiting[f], {x}) => \E y \in Known : y < x /\ FileOf(y) = f
    <3>1. life[f] \in {"none", "opening"}
      BY <1>3, <2>4
    <3> QED
      BY <3>1 DEF CacheInv, Making
  <2> QED
    BY <1>1, <2>1, <2>2, <2>3, <2>4 DEF Making
<1>5. ASSUME ~tickThrew', NEW x \in Known, Has(ticks, {x})
      PROVE  life'[FileOf(x)] = "open"
  <2>1. ~tickThrew /\ ~late /\ ticks # <<>>
    BY <1>5, NobodyThere DEF CacheInv, Opened
  <2>2. life[FileOf(x)] = "open"
    BY <1>5, <2>1 DEF CacheInv, Opened
  <2>3. FileOf(x) \in Files
    BY <1>5, WhoIsKnown DEF CacheInv
  <2> QED
    BY <2>1, <2>2, <2>3
<1>6. Opened'
  BY <1>1, <1>5 DEF Opened, TurnTyped
<1>7. InLine' /\ InRequestOrder'
  <2>1. \A f \in Files :
          /\ Rising(Waiters(f)')
          /\ \A x : Has(Waiters(f)', {x}) => Has(Waiters(f), {x})
    BY NobodyThere DEF CacheInv, InLine
  <2>2. InRequestOrder'
    BY DEF CacheInv, InRequestOrder
  <2> QED
    BY <1>1, <2>1, <2>2 DEF CacheInv, InLine
<1>8. CalledMeansOpen'
  BY DEF CacheInv, CalledMeansOpen
<1> QED
  BY <1>2, <1>4, <1>6, <1>7, <1>8 DEF CacheInv

LEMMA TurnIsTyped ==
  ASSUME CacheInv
  PROVE  TurnTyped /\ (\A f \in Files : f \in Places)
  BY DEF CacheInv, Typed, Opened, TurnTyped, Places

LEMMA QuietSteps ==
  ASSUME CacheInv,
         \/ \E f \in Files : Close(f) \/ AfterClose(f)
         \/ OtherEvent \/ LateTicks \/ Return \/ Throw
  PROVE  CacheInv'
<1> USE TurnIsTyped DEF TurnTyped, TurnKinds
<1>0. /\ life \in [Files -> Lives] /\ late \in BOOLEAN /\ tickThrew \in BOOLEAN
      /\ (late => tickThrew)
  BY DEF CacheInv, Typed, Opened
<1>1. ASSUME NEW f \in Files, Close(f)
      PROVE  CacheInv'
  <2>1. UNCHANGED <<life, turn, waiting, ticks, late, requests, called, misled, tickThrew>>
    BY <1>1 DEF Close, history
  <2>2. \A g \in Files : Waiters(g)' = Waiters(g)
    BY <2>1 DEF Waiters
  <2> QED
    BY <1>0, <2>1, <2>2, QuietCache
<1>2. ASSUME NEW f \in Files, AfterClose(f)
      PROVE  CacheInv'
  <2>1. /\ turn.kind = "idle" /\ (ticks = <<>> \/ late) /\ life[f] = "open" /\ late' = FALSE
        /\ (life' = [life EXCEPT ![f] = "closed"] \/ life' = life)
        /\ turn' = Of("program", f)
        /\ UNCHANGED <<waiting, ticks, requests, called, misled, tickThrew>>
    BY <1>2 DEF AfterClose, history
  <2>2. \A g \in Files : Waiters(g)' = Waiters(g)
    BY <1>0, <2>1 DEF Waiters, Of
  <2>3. TurnTyped'
    BY <2>1, NobodyThere DEF Of
  <2>4. life' \in [Files -> Lives]
    BY <1>0, <2>1 DEF Lives
  <2> QED
    BY <1>0, <2>1, <2>2, <2>3, <2>4, QuietCache
<1>3. CASE OtherEvent
  <2>1. /\ turn.kind = "idle" /\ late' = FALSE
        /\ turn' = [turn EXCEPT !.kind = "program"]
        /\ UNCHANGED <<life, waiting, ticks, requests, called, misled, tickThrew>>
    BY <1>3 DEF OtherEvent, history
  <2>2. \A g \in Files : Waiters(g)' = Waiters(g)
    BY <2>1 DEF Waiters
  <2> QED
    BY <1>0, <2>1, <2>2, QuietCache
<1>4. CASE LateTicks
  <2>1. /\ late' = FALSE
        /\ UNCHANGED <<life, turn, waiting, ticks, requests, called, misled, tickThrew>>
    BY <1>4 DEF LateTicks, history
  <2>2. \A g \in Files : Waiters(g)' = Waiters(g)
    BY <2>1 DEF Waiters
  <2> QED
    BY <1>0, <2>1, <2>2, QuietCache
<1>5. CASE Return
  <2>1. /\ turn.kind \in {"program", "open", "listener", "tick"}
        /\ turn' = CASE turn.kind = "open" -> AfterCallback
                     [] turn.kind = "listener" -> [turn EXCEPT !.kind = "emit"]
                     [] OTHER -> Idle
        /\ UNCHANGED <<life, waiting, ticks, late, requests, called, misled, tickThrew>>
    BY <1>5 DEF Return, Js, history
  <2>2. CASE turn.kind = "open" /\ life[turn.file] = "open"
    <3>1. turn' = [turn EXCEPT !.kind = "emit", !.left = waiting[turn.file]]
      BY <2>1, <2>2 DEF AfterCallback
    <3>2. turn.file \in Files /\ Waiters(turn.file) = waiting[turn.file]
      BY <2>2 DEF Waiters
    <3>3. waiting[turn.file] \in Seq(Nat)
      BY <3>2, SeqGrows, WhoIsKnown DEF CacheInv, Typed, Known
    <3>4. \A g \in Files : Waiters(g)' = Waiters(g)
      BY <2>1, <2>2, <3>1, <3>2, <3>3 DEF Waiters
    <3>5. TurnTyped'
      BY <2>1, <2>2, <3>1, <3>2, <3>3
    <3> QED
      BY <1>0, <2>1, <3>4, <3>5, QuietCache
  <2>3. CASE turn.kind = "listener"
    <3>1. turn' = [turn EXCEPT !.kind = "emit"]
      BY <2>1, <2>3
    <3>2. \A g \in Files : Waiters(g)' = Waiters(g)
      BY <2>1, <2>3, <3>1 DEF Waiters
    <3> QED
      BY <1>0, <2>1, <2>3, <3>1, <3>2, QuietCache
  <2>4. CASE turn' = Idle /\ ~(turn.kind = "open" /\ life[turn.file] = "open")
    <3>1. \A g \in Files : Waiters(g)' \in {Waiters(g), <<>>}
      BY <2>1, <2>4 DEF Waiters, Idle
    <3>2. TurnTyped'
      BY <2>1, <2>4, NobodyThere DEF Idle
    <3> QED
      BY <1>0, <2>1, <3>1, <3>2, QuietCache
  <2> QED
    BY <2>1, <2>2, <2>3, <2>4 DEF AfterCallback
<1>6. CASE Throw
  <2>1. /\ turn' = Idle /\ late' = (turn.kind = "tick")
        /\ tickThrew' = (tickThrew \/ turn.kind = "tick")
        /\ UNCHANGED <<life, waiting, ticks, requests, called, misled>>
    BY <1>6 DEF Throw
  <2>2. \A g \in Files : Waiters(g)' \in {Waiters(g), <<>>}
    BY <2>1 DEF Waiters, Idle
  <2>3. TurnTyped'
    BY <2>1, NobodyThere DEF Idle
  <2> QED
    BY <1>0, <2>1, <2>2, <2>3, QuietCache
<1> QED
  BY <1>1, <1>2, <1>3, <1>4, <1>5, <1>6

-----------------------------------------------------------------------------
\* A request.

\* It is later than all that are known, and leaves them as they are.
LEMMA NewRequest ==
  ASSUME Typed, NEW f \in Files, NEW callback \in BOOLEAN,
         NEW r, r = Len(requests) + 1,
         requests' = Append(requests, [file |-> f, callback |-> callback])
  PROVE  /\ Len(requests) \in Nat /\ r \in Nat
         /\ requests' \in Seq([file : Files, callback : BOOLEAN])
         /\ Known' = Known \cup {r}
         /\ \A x \in Known : x < r /\ FileOf(x)' = FileOf(x)
         /\ FileOf(r)' = f
<1> DEFINE R == [file : Files, callback : BOOLEAN]
           e == [file |-> f, callback |-> callback]
<1>1. requests \in Seq(R) /\ e \in R
  BY DEF Typed
<1>2. Len(requests) \in Nat
  BY <1>1, LenProperties
<1> HIDE DEF R, e
<1>3. /\ Append(requests, e) \in Seq(R) /\ Len(Append(requests, e)) = Len(requests) + 1
      /\ \A i \in 1..Len(requests) : Append(requests, e)[i] = requests[i]
      /\ Append(requests, e)[Len(requests) + 1] = e
  BY <1>1, AppendProperties
<1>4. requests' = Append(requests, e)
  BY DEF e
<1>5. Known' = Known \cup {r}
  BY <1>2, <1>3, <1>4 DEF Known
<1>6. \A x \in Known : x < r
  BY <1>2 DEF Known
<1>7. \A x \in Known : FileOf(x)' = FileOf(x)
  BY <1>3, <1>4 DEF FileOf, Known
<1>8. FileOf(r)' = f
  <2>1. e.file = f
    BY DEF e
  <2>2. requests'[r] = e
    BY <1>3, <1>4
  <2> QED
    BY <2>1, <2>2 DEF FileOf
<1> QED
  BY <1>2, <1>3, <1>4, <1>5, <1>6, <1>7, <1>8 DEF R

\* Those of a sequence of known requests still are.
LEMMA StillKnown ==
  ASSUME NEW s \in Seq(Known), Len(requests) \in Nat, NEW r \in Nat, r = Len(requests) + 1,
         Known' = Known \cup {r}
  PROVE  /\ s \in Seq(Known') /\ Append(s, r) \in Seq(Known')
         /\ \A x : Has(s, {x}) => x \in Known
         /\ \A x : Has(Append(s, r), {x}) <=> Has(s, {x}) \/ x = r
         /\ Rising(s) => Rising(Append(s, r))
<1>1. s \in Seq(Known') /\ r \in Known'
  BY SeqMonotonic
<1>2. \A x : Has(s, {x}) => x \in Known
  BY ElementHas
<1>3. \A x : Has(s, {x}) => x < r
  <2>1. \A x \in Known : x < r
    BY DEF Known
  <2> QED
    BY <1>2, <2>1
<1>4. Known' \subseteq Nat
  BY DEF Known
<1>5. Rising(s) => Rising(Append(s, r))
  BY <1>1, <1>3, <1>4, RisingPush
<1>6. /\ Append(s, r) \in Seq(Known')
      /\ \A P : Has(Append(s, r), P) <=> Has(s, P) \/ r \in P
  BY <1>1, AppendHas
<1>7. \A x : Has(Append(s, r), {x}) <=> Has(s, {x}) \/ r \in {x}
  BY <1>6
<1> QED
  BY <1>1, <1>2, <1>5, <1>6, <1>7

\* What the three forms of a request have in common.
LEMMA RequestKept ==
  ASSUME CacheInv, NEW f \in Files, NEW callback \in BOOLEAN, NEW r, r = Len(requests) + 1,
         requests' = Append(requests, [file |-> f, callback |-> callback]),
         UNCHANGED <<called, misled, turn, late, tickThrew>>,
         life' \in [Files -> Lives], life'[f] # "none",
         waiting' = [g \in Files |-> waiting'[g]],
         \A g \in Files : \/ life'[g] = life[g]
                          \/ g = f /\ life[f] = "none" /\ life'[f] = "opening",
         ticks' = ticks \/ (ticks' = Append(ticks, r) /\ life[f] = "open"),
         \A g \in Files :
           \/ Waiters(g)' = Waiters(g)
           \/ g = f /\ life[f] = "opening" /\ Waiters(g)' = Append(Waiters(g), r)
  PROVE  CacheInv'
<1>1. /\ Len(requests) \in Nat /\ r \in Nat
      /\ requests' \in Seq([file : Files, callback : BOOLEAN])
      /\ Known' = Known \cup {r}
      /\ \A x \in Known : x < r /\ FileOf(x)' = FileOf(x)
      /\ FileOf(r)' = f
  BY NewRequest DEF CacheInv
<1>2. /\ called \in Seq(Known') /\ \A x : Has(called, {x}) => x \in Known
  BY <1>1, StillKnown DEF CacheInv, Typed
<1>3. /\ ticks' \in Seq(Known') /\ Rising(ticks')
      /\ \A x : Has(ticks', {x}) =>
           (Has(ticks, {x}) /\ x \in Known) \/ (x = r /\ life[f] = "open")
  <2>1. /\ ticks \in Seq(Known') /\ Append(ticks, r) \in Seq(Known')
        /\ \A x : Has(ticks, {x}) => x \in Known
        /\ \A x : Has(Append(ticks, r), {x}) <=> Has(ticks, {x}) \/ x = r
        /\ Rising(ticks) /\ Rising(Append(ticks, r))
    BY <1>1, StillKnown DEF CacheInv, Typed, InLine
  <2> QED
    BY <2>1
<1>4. ASSUME NEW g \in Files
      PROVE  /\ Waiters(g)' \in Seq(Known') /\ Rising(Waiters(g)')
             /\ \A x : Has(Waiters(g)', {x}) =>
                  \/ Has(Waiters(g), {x}) /\ x \in Known
                  \/ x = r /\ g = f /\ life[f] = "opening"
  <2>1. Waiters(g) \in Seq(Known) /\ Rising(Waiters(g))
    BY DEF CacheInv, Typed, InLine
  <2>2. /\ Waiters(g) \in Seq(Known') /\ Append(Waiters(g), r) \in Seq(Known')
        /\ \A x : Has(Waiters(g), {x}) => x \in Known
        /\ \A x : Has(Append(Waiters(g), r), {x}) <=> Has(Waiters(g), {x}) \/ x = r
        /\ Rising(Append(Waiters(g), r))
    BY <1>1, <2>1, StillKnown
  <2> QED
    BY <2>1, <2>2
<1>5. Typed'
  BY <1>1, <1>2, <1>3, <1>4 DEF CacheInv, Typed
<1>6. Making'
  <2>1. ASSUME NEW g \in Files, life'[g] = "none"
        PROVE  \A x \in Known' : FileOf(x)' # g
    <3>1. g # f /\ life[g] = "none"
      BY <2>1
    <3> QED
      BY <1>1, <3>1 DEF CacheInv, Making
  <2>2. ASSUME NEW g \in Files, life'[g] # "none"
        PROVE  \E y \in Known' : First(y, g)'
    <3>1. CASE life[g] # "none"
      <4>1. PICK y \in Known : First(y, g)
        BY <3>1 DEF CacheInv, Making
      <4>2. y \in Nat /\ y < r
        BY <1>1 DEF Known
      <4>3. y \in Known' /\ FileOf(y)' = g
        BY <1>1, <4>1 DEF First
      <4>4. \A x \in Known' : FileOf(x)' = g => y <= x
        BY <1>1, <4>1, <4>2 DEF First
      <4> QED
        BY <4>3, <4>4 DEF First
    <3>2. CASE life[g] = "none"
      <4>1. g = f /\ \A x \in Known : FileOf(x) # f
        BY <2>2, <3>2 DEF CacheInv, Making
      <4>2. \A x \in Known' : FileOf(x)' = f => r <= x
        BY <1>1, <4>1
      <4> QED
        BY <1>1, <4>1, <4>2 DEF First
    <3> QED
      BY <3>1, <3>2
  <2>3. ASSUME NEW g \in Files, life'[g] \in {"none", "opening"}
        PROVE  /\ \A x \in Known' : Has(ticks', {x}) \/ Has(called', {x}) => FileOf(x)' # g
               /\ \A x \in Known' : Has(waiting'[g], {x}) =>
                    \E y \in Known' : y < x /\ FileOf(y)' = g
    <3>1. life[g] \in {"none", "opening"}
      BY <2>3
    <3>2. \A x \in Known : Has(ticks, {x}) \/ Has(called, {x}) => FileOf(x) # g
      BY <3>1 DEF CacheInv, Making
    <3>3. g = f => life[f] # "open"
      BY <3>1
    <3>4. \A x \in Known' : Has(ticks', {x}) \/ Has(called', {x}) => FileOf(x)' # g
      BY <1>1, <1>2, <1>3, <3>2, <3>3
    <3>5. Waiters(g)' = waiting'[g] /\ Waiters(g) = waiting[g]
      BY <2>3, <3>1 DEF Waiters
    <3>6. ASSUME NEW x \in Known', Has(waiting'[g], {x})
          PROVE  \E y \in Known' : y < x /\ FileOf(y)' = g
      <4>1. CASE Has(waiting[g], {x}) /\ x \in Known
        <5>1. PICK y \in Known : y < x /\ FileOf(y) = g
          BY <3>1, <4>1 DEF CacheInv, Making
        <5> QED
          BY <1>1, <5>1
      <4>2. CASE x = r /\ g = f /\ life[f] = "opening"
        <5>1. PICK y \in Known : First(y, f)
          BY <4>2 DEF CacheInv, Making
        <5> QED
          BY <1>1, <4>2, <5>1 DEF First
      <4>3. Has(Waiters(g)', {x})
        BY <3>5, <3>6
      <4>4. \/ Has(Waiters(g), {x}) /\ x \in Known
            \/ x = r /\ g = f /\ life[f] = "opening"
        BY <1>4, <4>3
      <4> QED
        BY <3>5, <4>1, <4>2, <4>4
    <3> QED
      BY <3>4, <3>6
  <2> QED
    BY <2>1, <2>2, <2>3 DEF Making
<1>7. Opened'
  <2>1. turn.kind \in {"emit", "listener"} => life'[turn.file] = "open"
    BY DEF CacheInv, Typed, Opened
  <2>2. ASSUME ~tickThrew, NEW x \in Known', Has(ticks', {x})
        PROVE  life'[FileOf(x)'] = "open"
    <3>1. CASE Has(ticks, {x}) /\ x \in Known
      <4>1. life[FileOf(x)] = "open" /\ FileOf(x) \in Files
        BY <2>2, <3>1, WhoIsKnown DEF CacheInv, Opened
      <4> QED
        BY <1>1, <3>1, <4>1
    <3>2. CASE x = r /\ life[f] = "open"
      BY <1>1, <3>2
    <3> QED
      BY <1>3, <2>2, <3>1, <3>2
  <2> QED
    BY <2>1, <2>2 DEF CacheInv, Opened
<1>8. InLine'
  <2>1. ASSUME NEW x \in Known', NEW y \in Known', Has(called', {x}), Has(ticks', {y}),
               FileOf(x)' = FileOf(y)'
        PROVE  x < y
    <3>1. Has(called, {x}) /\ x \in Known /\ x < r
      BY <1>1, <1>2, <2>1
    <3>2. CASE y = r
      BY <3>1, <3>2
    <3>3. CASE Has(ticks, {y}) /\ y \in Known
      <4>1. FileOf(x) = FileOf(y)
        BY <1>1, <2>1, <3>1, <3>3
      <4> QED
        BY <3>1, <3>3, <4>1 DEF CacheInv, InLine
    <3> QED
      BY <1>3, <2>1, <3>2, <3>3
  <2>2. ASSUME NEW g \in Files, NEW x \in Known', Has(Waiters(g)', {x})
        PROVE  FileOf(x)' = g
    BY <1>1, <1>4, <2>2 DEF CacheInv, InLine
  <2>3. ASSUME NEW g \in Files, NEW x \in Known', NEW y \in Known',
               Has(Waiters(g)', {y}), Has(called', {x}), FileOf(x)' = g
        PROVE  x < y
    BY <1>1, <1>2, <1>4, <2>3 DEF CacheInv, InLine
  <2>4. ASSUME NEW g \in Files, NEW x \in Known', NEW y \in Known',
               Has(Waiters(g)', {x}), Has(ticks', {y}), FileOf(y)' = g
        PROVE  x < y
    <3>1. CASE x = r /\ g = f /\ life[f] = "opening"
      <4>1. y \in Known /\ Has(ticks, {y})
        BY <1>3, <2>4, <3>1
      <4>2. FileOf(y) = f
        BY <1>1, <2>4, <3>1, <4>1
      <4> QED
        BY <3>1, <4>1, <4>2 DEF CacheInv, Making
    <3>2. CASE Has(Waiters(g), {x}) /\ x \in Known
      <4>1. CASE y = r
        BY <1>1, <3>2, <4>1
      <4>2. CASE Has(ticks, {y}) /\ y \in Known
        <5>1. FileOf(y) = g
          BY <1>1, <2>4, <4>2
        <5> QED
          BY <3>2, <4>2, <5>1 DEF CacheInv, InLine
      <4> QED
        BY <1>3, <2>4, <4>1, <4>2
    <3>3. \/ Has(Waiters(g), {x}) /\ x \in Known
          \/ x = r /\ g = f /\ life[f] = "opening"
      BY <1>4, <2>4
    <3> QED
      BY <3>1, <3>2, <3>3
  <2> QED
    BY <1>3, <1>4, <2>1, <2>2, <2>3, <2>4 DEF InLine
<1>9. CalledMeansOpen'
  BY DEF CacheInv, CalledMeansOpen
<1>10. InRequestOrder'
  <2>1. \A i \in DOMAIN called : called[i] \in Known /\ FileOf(called[i])' = FileOf(called[i])
    <3>1. DOMAIN called = 1..Len(called) /\ \A i \in 1..Len(called) : called[i] \in Known
      BY ElementOfSeq, LenProperties DEF CacheInv, Typed
    <3> QED
      BY <1>1, <3>1
  <2>2. \A i \in DOMAIN called : requests'[called[i]].file = requests[called[i]].file
    BY <2>1 DEF FileOf
  <2> SUFFICES ASSUME NEW i \in DOMAIN called, NEW j \in DOMAIN called, i < j,
                      requests'[called[i]].file = requests'[called[j]].file
               PROVE  called[i] < called[j]
    BY DEF InRequestOrder
  <2> QED
    BY <2>2 DEF CacheInv, InRequestOrder
<1> QED
  BY <1>5, <1>6, <1>7, <1>8, <1>9, <1>10 DEF CacheInv

LEMMA RequestStep ==
  ASSUME CacheInv, NEW f \in Files, NEW callback \in BOOLEAN, Request(f, callback)
  PROVE  CacheInv'
<1>1. PICK r : r = Len(requests) + 1
  OBVIOUS
<1>2. /\ requests' = Append(requests, [file |-> f, callback |-> callback])
      /\ UNCHANGED <<called, misled, turn, late, tickThrew>>
      /\ \/ Construct(r, f) \/ Reuse(r, f)
         \/ life[f] # "none" /\ UNCHANGED <<life, waiting, ticks>>
  BY <1>1 DEF Request
<1>3. life \in [Files -> Lives] /\ waiting = [g \in Files |-> waiting[g]]
  BY DEF CacheInv, Typed
<1>4. ASSUME life[f] # "none", UNCHANGED life,
             waiting' = [g \in Files |-> waiting'[g]],
             ticks' = ticks \/ (ticks' = Append(ticks, r) /\ life[f] = "open"),
             \A g \in Files :
               \/ Waiters(g)' = Waiters(g)
               \/ g = f /\ life[f] = "opening" /\ Waiters(g)' = Append(Waiters(g), r)
      PROVE  CacheInv'
  BY <1>1, <1>2, <1>3, <1>4, RequestKept
<1>5. CASE Construct(r, f)
  <2>1. /\ life[f] = "none" /\ life' = [life EXCEPT ![f] = "opening"]
        /\ UNCHANGED <<waiting, ticks>>
    BY <1>5 DEF Construct
  <2>2. life' \in [Files -> Lives] /\ life'[f] = "opening"
        /\ \A g \in Files : g # f => life'[g] = life[g]
    BY <1>3, <2>1 DEF Lives
  <2>3. \A g \in Files : Waiters(g)' = Waiters(g)
    BY <1>2, <2>1, <2>2 DEF Waiters
  <2> QED
    BY <1>1, <1>2, <1>3, <2>1, <2>2, <2>3, RequestKept
<1>6. CASE Reuse(r, f) /\ life[f] = "open"
  <2>1. UNCHANGED <<life, waiting>> /\ ticks' = Append(ticks, r)
    BY <1>6 DEF Reuse
  <2>2. \A g \in Files : Waiters(g)' = Waiters(g)
    BY <1>2, <2>1 DEF Waiters
  <2> QED
    BY <1>3, <1>4, <1>6, <2>1, <2>2
<1>7. CASE Reuse(r, f) /\ life[f] # "open"
  <2>1. /\ life[f] # "none" /\ UNCHANGED <<life, ticks>>
        /\ waiting' = [waiting EXCEPT ![f] = Append(@, r)]
    BY <1>7 DEF Reuse
  <2>2. /\ waiting' = [g \in Files |-> waiting'[g]]
        /\ waiting'[f] = Append(waiting[f], r)
        /\ \A g \in Files : g # f => waiting'[g] = waiting[g]
    BY <1>3, <2>1
  <2>3. CASE life[f] = "opening"
    <3>1. Waiters(f)' = Append(Waiters(f), r)
      BY <1>2, <2>1, <2>2, <2>3 DEF Waiters
    <3>2. \A g \in Files : g # f => Waiters(g)' = Waiters(g)
      BY <1>2, <2>1, <2>2 DEF Waiters
    <3> QED
      BY <1>4, <2>1, <2>2, <2>3, <3>1, <3>2
  <2>4. CASE life[f] # "opening"
    <3>1. \A g \in Files : Waiters(g)' = Waiters(g)
      BY <1>2, <1>7, <2>1, <2>2, <2>4 DEF Waiters
    <3> QED
      BY <1>4, <2>1, <2>2, <3>1
  <2> QED
    BY <2>3, <2>4
<1>8. CASE life[f] # "none" /\ UNCHANGED <<life, waiting, ticks>>
  <2>1. \A g \in Files : Waiters(g)' = Waiters(g)
    BY <1>2, <1>8 DEF Waiters
  <2> QED
    BY <1>3, <1>4, <1>8, <2>1
<1> QED
  BY <1>2, <1>5, <1>6, <1>7, <1>8

-----------------------------------------------------------------------------
\* A callback is called.

LEMMA CallInOrder ==
  ASSUME CacheInv, NEW r \in Known, called' = Append(called, r), UNCHANGED requests,
         \A x \in Known : Has(called, {x}) /\ FileOf(x) = FileOf(r) => x < r
  PROVE  /\ called' \in Seq(Known) /\ InRequestOrder'
         /\ \A x : Has(called', {x}) => (Has(called, {x}) /\ x \in Known) \/ x = r
<1> DEFINE c == Append(called, r)
<1>1. called \in Seq(Known)
  BY DEF CacheInv, Typed
<1>2. \A x : Has(called, {x}) => x \in Known
  BY <1>1, ElementHas
<1>3. /\ c \in Seq(Known)
      /\ \A P : Has(c, P) <=> Has(called, P) \/ r \in P
  BY <1>1, AppendHas
<1>4. \A x : Has(c, {x}) <=> Has(called, {x}) \/ r \in {x}
  BY <1>3
<1>5. /\ Len(c) = Len(called) + 1 /\ Len(called) \in Nat
      /\ \A i \in 1..Len(called) : c[i] = called[i]
      /\ c[Len(called) + 1] = r
      /\ DOMAIN c = 1..Len(c) /\ DOMAIN called = 1..Len(called)
  BY <1>1, <1>3, AppendProperties, LenProperties
<1> HIDE DEF c
<1>6. ASSUME NEW i \in DOMAIN c, NEW j \in DOMAIN c, i < j,
             requests[c[i]].file = requests[c[j]].file
      PROVE  c[i] < c[j]
  <2>1. i \in 1..Len(called) /\ c[i] = called[i]
    BY <1>5, <1>6
  <2>2. CASE j \in 1..Len(called)
    BY <1>5, <1>6, <2>1, <2>2 DEF CacheInv, InRequestOrder
  <2>3. CASE j = Len(called) + 1
    <3>1. Has(called, {c[i]}) /\ c[j] = r
      BY <1>5, <2>1, <2>3 DEF Has
    <3>2. c[i] \in Known /\ FileOf(c[i]) = FileOf(r)
      BY <1>2, <1>6, <3>1 DEF FileOf
    <3> QED
      BY <3>1, <3>2
  <2> QED
    BY <1>5, <1>6, <2>2, <2>3
<1>7. called' = c
  BY DEF c
<1>8. InRequestOrder'
  BY <1>6, <1>7 DEF InRequestOrder
<1> QED
  BY <1>2, <1>3, <1>4, <1>7, <1>8

\* What the three turns that may call a callback have in common: the open of f,
\* the next listener of its event, the next tick.
LEMMA CallKept ==
  ASSUME CacheInv, NEW f \in Files, NEW r \in Known, FileOf(r) = f,
         UNCHANGED <<requests, tickThrew>>, called' = called \/ called' = Append(called, r),
         ~tickThrew => misled' = {},
         late' \in BOOLEAN, late' => tickThrew, TurnTyped',
         life' \in [Files -> Lives], life'[f] \notin {"none", "opening"},
         \A g \in Files : life'[g] = life[g] \/ (g = f /\ life[f] = "opening"),
         waiting' = [g \in Files |-> waiting'[g]],
         \A g \in Files : g # f => waiting'[g] = waiting[g],
         ticks' \in Seq(Known), Rising(ticks'),
         \A x \in Known : Has(ticks', {x}) =>
           Has(ticks, {x}) /\ (FileOf(x) = f => r < x),
         \A x \in Known : Has(called, {x}) /\ FileOf(x) = f => x < r,
         \A g \in Files :
           /\ Waiters(g)' \in Seq(Known) /\ Rising(Waiters(g)')
           /\ \A x \in Known : Has(Waiters(g)', {x}) => Has(Waiters(g), {x}),
         \A x \in Known : Has(Waiters(f)', {x}) => r < x
  PROVE  CacheInv'
<1>1. Known' = Known /\ \A x : FileOf(x)' = FileOf(x)
  BY DEF Known, FileOf
<1>2. /\ called' \in Seq(Known) /\ InRequestOrder'
      /\ \A x : Has(called', {x}) => (Has(called, {x}) /\ x \in Known) \/ x = r
  <2>1. CASE called' = Append(called, r)
    BY <2>1, CallInOrder
  <2>2. CASE called' = called
    BY <2>2, WhoIsKnown DEF CacheInv, Typed, InRequestOrder
  <2> QED
    BY <2>1, <2>2
<1>3. Typed'
  <2>1. requests' \in Seq([file : Files, callback : BOOLEAN]) /\ tickThrew' \in BOOLEAN
    BY DEF CacheInv, Typed
  <2> QED
    BY <1>1, <1>2, <2>1 DEF Typed, TurnTyped
<1>4. Making'
  <2>1. ASSUME NEW g \in Files
        PROVE  /\ life'[g] = "none" => \A x \in Known : FileOf(x) # g
               /\ life'[g] # "none" => \E y \in Known : First(y, g)
    <3>1. CASE life'[g] = life[g]
      BY <3>1 DEF CacheInv, Making
    <3>2. CASE g = f /\ life[f] = "opening"
      BY <3>2 DEF CacheInv, Making
    <3> QED
      BY <3>1, <3>2
  <2>2. ASSUME NEW g \in Files, life'[g] \in {"none", "opening"}
        PROVE  /\ \A x \in Known : Has(ticks', {x}) \/ Has(called', {x}) => FileOf(x) # g
               /\ \A x \in Known : Has(waiting'[g], {x}) => \E y \in Known : y < x /\ FileOf(y) = g
    <3>1. g # f /\ life[g] \in {"none", "opening"} /\ waiting'[g] = waiting[g]
      BY <2>2
    <3>2. \A x \in Known : Has(ticks, {x}) \/ Has(called, {x}) => FileOf(x) # g
      BY <3>1 DEF CacheInv, Making
    <3>3. \A x \in Known : Has(waiting[g], {x}) => \E y \in Known : y < x /\ FileOf(y) = g
      BY <3>1 DEF CacheInv, Making
    <3> QED
      BY <1>2, <3>1, <3>2, <3>3
  <2> QED
    BY <1>1, <2>1, <2>2 DEF Making, First
<1>5. Opened'
  <2>1. ASSUME ~tickThrew, NEW x \in Known, Has(ticks', {x})
        PROVE  life'[FileOf(x)] = "open"
    <3>1. Has(ticks, {x}) /\ FileOf(x) \in Files
      BY <2>1, WhoIsKnown DEF CacheInv
    <3>2. life[FileOf(x)] = "open"
      BY <2>1, <3>1 DEF CacheInv, Opened
    <3> QED
      BY <3>1, <3>2
  <2> QED
    BY <1>1, <2>1 DEF Opened, TurnTyped
<1>6. InLine'
  <2>1. ASSUME NEW x \in Known, NEW y \in Known, Has(called', {x}), Has(ticks', {y}),
               FileOf(x) = FileOf(y)
        PROVE  x < y
    BY <1>2, <2>1 DEF CacheInv, InLine
  <2>2. ASSUME NEW g \in Files, NEW x \in Known, Has(Waiters(g)', {x})
        PROVE  FileOf(x) = g
    BY <2>2 DEF CacheInv, InLine
  <2>3. ASSUME NEW g \in Files, NEW x \in Known, NEW y \in Known,
               Has(Waiters(g)', {y}), Has(called', {x}), FileOf(x) = g
        PROVE  x < y
    BY <1>2, <2>3 DEF CacheInv, InLine
  <2>4. ASSUME NEW g \in Files, NEW x \in Known, NEW y \in Known,
               Has(Waiters(g)', {x}), Has(ticks', {y}), FileOf(y) = g
        PROVE  x < y
    BY <2>4 DEF CacheInv, InLine
  <2> QED
    BY <1>1, <2>1, <2>2, <2>3, <2>4 DEF InLine
<1>7. CalledMeansOpen'
  BY DEF CalledMeansOpen
<1> QED
  BY <1>2, <1>3, <1>4, <1>5, <1>6, <1>7 DEF CacheInv

LEMMA EmitStep ==
  ASSUME CacheInv, Emit
  PROVE  CacheInv'
<1>f. PICK f : f = turn.file
  OBVIOUS
<1>r. PICK r : r = Head(turn.left)
  OBVIOUS
<1>0. /\ TurnTyped /\ turn.kind = "emit" /\ f \in Files /\ life[f] = "open"
      /\ life \in [Files -> Lives] /\ late \in BOOLEAN /\ tickThrew \in BOOLEAN
      /\ (late => tickThrew) /\ waiting = [g \in Files |-> waiting[g]]
      /\ (~tickThrew => misled = {})
  BY <1>f, TurnIsTyped DEF Emit, CacheInv, Typed, Opened, TurnTyped, CalledMeansOpen
<1>1. CASE turn.left = <<>> /\ turn' = Idle /\ UNCHANGED <<called, misled, waiting>>
  <2>1. UNCHANGED <<life, ticks, late, requests, tickThrew>>
    BY DEF Emit
  <2>2. \A g \in Files : Waiters(g)' \in {Waiters(g), <<>>}
    BY <1>0, <1>1, <2>1 DEF Waiters, Idle
  <2>3. TurnTyped'
    BY <1>0, <1>1, NobodyThere DEF Idle, TurnTyped, TurnKinds
  <2> QED
    BY <1>0, <1>1, <2>1, <2>2, <2>3, QuietCache
<1>2. CASE turn.left # <<>>
  <2>1. /\ waiting' = [waiting EXCEPT ![f] = Remove(@, r)]
        /\ called' = Append(called, r) /\ misled' = misled
        /\ turn' = [turn EXCEPT !.kind = "listener", !.left = Tail(@)]
        /\ UNCHANGED <<life, ticks, late, requests, tickThrew>>
    BY <1>f, <1>r, <1>0, <1>2 DEF Emit, Call
  <2>2. Waiters(f) = turn.left
    BY <1>f, <1>0 DEF Waiters
  <2>3. turn.left \in Seq(Known) /\ Rising(turn.left) /\ Known \subseteq Nat
    BY <1>0, <2>2 DEF CacheInv, Typed, InLine, Known
  <2>4. /\ r \in Known /\ Tail(turn.left) \in Seq(Known)
        /\ \A P : Has(turn.left, P) <=> r \in P \/ Has(Tail(turn.left), P)
    BY <1>r, <1>2, <2>3, PopFrame
  <2>5. Rising(Tail(turn.left)) /\ \A x : Has(Tail(turn.left), {x}) => r < x
    BY <1>r, <1>2, <2>3, RisingPop
  <2>6. Has(Waiters(f), {r})
    BY <2>2, <2>4
  <2>7. /\ turn'.kind = "listener" /\ turn'.file = f /\ turn'.left = Tail(turn.left)
        /\ Tail(turn.left) \in Seq(Nat)
    BY <1>f, <1>0, <2>1, <2>3, <2>4, SeqMonotonic DEF TurnTyped
  <2>8. Waiters(f)' = Tail(turn.left)
    BY <1>f, <1>0, <2>1, <2>7 DEF Waiters
  <2>9. \A g \in Files : g # f => Waiters(g)' = Waiters(g)
    BY <1>f, <1>0, <2>1, <2>7 DEF Waiters
  <2>10. TurnTyped'
    BY <1>f, <1>0, <2>1, <2>7 DEF TurnTyped, TurnKinds
  <2>11. /\ waiting' = [g \in Files |-> waiting'[g]]
         /\ \A g \in Files : g # f => waiting'[g] = waiting[g]
    BY <1>0, <2>1
  <2>12. /\ FileOf(r) = f /\ ticks \in Seq(Known) /\ Rising(ticks)
         /\ \A x \in Known : Has(ticks, {x}) /\ FileOf(x) = f => r < x
         /\ \A x \in Known : Has(called, {x}) /\ FileOf(x) = f => x < r
    BY <1>0, <2>4, <2>6 DEF CacheInv, Typed, InLine
  <2>13. \A g \in Files :
           /\ Waiters(g)' \in Seq(Known) /\ Rising(Waiters(g)')
           /\ \A x \in Known : Has(Waiters(g)', {x}) => Has(Waiters(g), {x})
    <3>1. ASSUME NEW x \in Known, Has(Waiters(f)', {x})
          PROVE  Has(Waiters(f), {x})
      BY <2>2, <2>4, <2>8, <3>1
    <3>2. \A g \in Files : Waiters(g) \in Seq(Known) /\ Rising(Waiters(g))
      BY DEF CacheInv, Typed, InLine
    <3> QED
      BY <2>4, <2>5, <2>8, <2>9, <3>1, <3>2
  <2>14. \A x \in Known : Has(Waiters(f)', {x}) => r < x
    BY <2>5, <2>8
  <2> QED
    BY <1>0, <2>1, <2>4, <2>10, <2>11, <2>12, <2>13, <2>14, CallKept
<1> QED
  BY <1>f, <1>1, <1>2 DEF Emit, NoCall

LEMMA TickStep ==
  ASSUME CacheInv, RunTick
  PROVE  CacheInv'
<1>r. PICK r : r = Head(ticks)
  OBVIOUS
<1>f. PICK f : f = FileOf(r)
  OBVIOUS
<1>0. /\ turn.kind = "idle" /\ ticks # <<>> /\ ticks' = Tail(ticks) /\ turn' = Of("tick", f)
      /\ called' = Append(called, r)
      /\ misled' = IF life[f] # "open" THEN misled \cup {r} ELSE misled
      /\ UNCHANGED <<life, waiting, late, requests, tickThrew>>
  BY <1>f, <1>r DEF RunTick, Call, FileOf
<1>1. /\ life \in [Files -> Lives] /\ late \in BOOLEAN /\ (late => tickThrew)
      /\ waiting = [g \in Files |-> waiting[g]]
      /\ ticks \in Seq(Known) /\ Rising(ticks) /\ Known \subseteq Nat
  BY DEF CacheInv, Typed, Opened, InLine, Known
<1>2. /\ r \in Known /\ Tail(ticks) \in Seq(Known)
      /\ \A P : Has(ticks, P) <=> r \in P \/ Has(Tail(ticks), P)
  BY <1>r, <1>0, <1>1, PopFrame
<1>3. Rising(Tail(ticks)) /\ \A x : Has(Tail(ticks), {x}) => r < x
  BY <1>r, <1>0, <1>1, RisingPop
<1>4. Has(ticks, {r}) /\ \A x : Has(Tail(ticks), {x}) => Has(ticks, {x})
  BY <1>2
<1>5. f \in Files /\ f \in Places
  BY <1>f, <1>2, WhoIsKnown, TurnIsTyped DEF CacheInv
<1>6. life[f] \notin {"none", "opening"}
  BY <1>f, <1>2, <1>4, <1>5 DEF CacheInv, Making
<1>7. ~tickThrew => misled' = {}
  BY <1>f, <1>0, <1>2, <1>4 DEF CacheInv, Opened, CalledMeansOpen
<1>8. TurnTyped'
  BY <1>0, <1>5, NobodyThere DEF Of, TurnTyped, TurnKinds
<1>9. \A g \in Files : Waiters(g)' = Waiters(g)
  BY <1>0 DEF Waiters, Of
<1>10. \A x : ~Has(Waiters(f), {x})
  BY <1>0, <1>6, NobodyThere DEF Waiters
<1>11. \A x \in Known : Has(called, {x}) /\ FileOf(x) = f => x < r
  BY <1>f, <1>2, <1>4 DEF CacheInv, InLine
<1>12. \A g \in Files : Waiters(g) \in Seq(Known) /\ Rising(Waiters(g))
  BY DEF CacheInv, Typed, InLine
<1> QED
  BY <1>f, <1>0, <1>1, <1>2, <1>3, <1>4, <1>5, <1>6, <1>7, <1>8, <1>9, <1>10, <1>11, <1>12,
     CallKept

LEMMA OpenStep ==
  ASSUME CacheInv, NEW f \in Files, AfterOpen(f)
  PROVE  CacheInv'
<1>r. PICK r : r = constructor(f)
  OBVIOUS
<1>o. PICK outcome \in {"open", "failed"} :
        /\ life' = [life EXCEPT ![f] = outcome]
        /\ \/ /\ turn' = Of("open", f)
              /\ Call(r, outcome = "open", outcome)
           \/ /\ turn' = IF outcome = "open" THEN [Of("emit", f) EXCEPT !.left = waiting[f]]
                         ELSE Of("program", f)
              /\ NoCall
  BY <1>r DEF AfterOpen
<1>0. /\ turn.kind = "idle" /\ life[f] = "opening" /\ late' = FALSE
      /\ UNCHANGED <<waiting, ticks, requests, tickThrew>>
  BY DEF AfterOpen
<1>1. /\ life \in [Files -> Lives] /\ waiting = [g \in Files |-> waiting[g]] /\ f \in Places
      /\ ticks \in Seq(Known) /\ Rising(ticks) /\ (~tickThrew => misled = {})
  BY TurnIsTyped DEF CacheInv, Typed, InLine, CalledMeansOpen
<1>2. r \in Known /\ FileOf(r) = f /\ \A x \in Known : FileOf(x) = f => r <= x
  BY <1>r, <1>0, FirstRequest DEF CacheInv, First
<1>3. /\ \A x \in Known : Has(ticks, {x}) \/ Has(called, {x}) => FileOf(x) # f
      /\ \A x \in Known : Has(waiting[f], {x}) => \E y \in Known : y < x /\ FileOf(y) = f
  BY <1>0 DEF CacheInv, Making
<1>4. misled' = misled /\ (called' = called \/ called' = Append(called, r))
  BY <1>o DEF Call, NoCall
<1>5. /\ life' \in [Files -> Lives] /\ life'[f] = outcome /\ outcome \notin {"none", "opening"}
      /\ \A g \in Files : g # f => life'[g] = life[g]
  BY <1>o, <1>1 DEF Lives
<1>6. Waiters(f) = waiting[f] /\ waiting[f] \in Seq(Known) /\ Rising(waiting[f])
  <2>1. Waiters(f) = waiting[f]
    BY <1>0 DEF Waiters
  <2> QED
    BY <2>1 DEF CacheInv, Typed, InLine
<1>7. waiting[f] \in Seq(Nat)
  BY <1>6, WhoIsKnown, SeqGrows DEF CacheInv, Known
<1>8. /\ TurnTyped' /\ turn'.file = f
      /\ \/ turn'.kind = "open"
         \/ turn'.kind = "emit" /\ turn'.left = waiting[f]
         \/ turn'.kind = "program"
  <2>1. CASE turn' = Of("open", f)
    BY <2>1, <1>1, NobodyThere DEF Of, TurnTyped, TurnKinds
  <2>2. CASE outcome = "open" /\ turn' = [Of("emit", f) EXCEPT !.left = waiting[f]]
    BY <2>2, <1>1, <1>5, <1>7 DEF Of, TurnTyped, TurnKinds
  <2>3. CASE turn' = Of("program", f)
    BY <2>3, <1>1, NobodyThere DEF Of, TurnTyped, TurnKinds
  <2> QED
    BY <1>o, <2>1, <2>2, <2>3
<1>9. \A g \in Files : g # f => Waiters(g)' = Waiters(g)
  BY <1>0, <1>5, <1>8 DEF Waiters
<1>10. Waiters(f)' \in {waiting[f], <<>>}
  BY <1>0, <1>5, <1>8 DEF Waiters
<1>11. ASSUME NEW x \in Known, Has(waiting[f], {x})
       PROVE  r < x
  <2>1. PICK y \in Known : y < x /\ FileOf(y) = f
    BY <1>3, <1>11
  <2>2. r <= y /\ r \in Nat /\ x \in Nat /\ y \in Nat
    BY <1>2, <2>1 DEF Known
  <2> QED
    BY <2>1, <2>2
<1>12. \A g \in Files :
         /\ Waiters(g)' \in Seq(Known) /\ Rising(Waiters(g)')
         /\ \A x \in Known : Has(Waiters(g)', {x}) => Has(Waiters(g), {x})
  <2>1. \A g \in Files : Waiters(g) \in Seq(Known) /\ Rising(Waiters(g))
    BY DEF CacheInv, Typed, InLine
  <2>2. CASE Waiters(f)' = waiting[f]
    BY <1>6, <1>9, <2>1, <2>2
  <2>3. CASE Waiters(f)' = <<>>
    BY <1>9, <2>1, <2>3, NobodyThere
  <2> QED
    BY <1>10, <2>2, <2>3
<1>13. \A x \in Known : Has(Waiters(f)', {x}) => r < x
  BY <1>10, <1>11, NobodyThere
<1> QED
  BY <1>0, <1>1, <1>2, <1>3, <1>4, <1>5, <1>8, <1>12, <1>13, CallKept

-----------------------------------------------------------------------------
\* The invariant that carries the two theorems below.
LEMMA CacheInvariant == Spec => []CacheInv
<1>1. Init => CacheInv
  <2> SUFFICES ASSUME Init
               PROVE  CacheInv
    OBVIOUS
  <2>1. Known = {} /\ \A f \in Files : life[f] = "none" /\ waiting[f] = <<>>
    BY DEF Init, Known
  <2>2. \A f \in Files : Waiters(f) = <<>>
    BY <2>1 DEF Waiters
  <2>3. Typed
    BY <2>2, NobodyThere DEF Init, Typed, Lives, TurnKinds, Places, Of
  <2>4. Making
    BY <2>1 DEF Making
  <2>5. Opened
    BY <2>1 DEF Init, Opened, Of
  <2>6. InLine
    BY <2>1, <2>2, NobodyThere DEF Init, InLine
  <2>7. CalledMeansOpen /\ InRequestOrder
    BY DEF Init, CalledMeansOpen, InRequestOrder
  <2> QED
    BY <2>3, <2>4, <2>5, <2>6, <2>7 DEF CacheInv
<1>2. CacheInv /\ [Next]_vars => CacheInv'
  <2> SUFFICES ASSUME CacheInv, [Next]_vars
               PROVE  CacheInv'
    OBVIOUS
  <2>1. CASE UNCHANGED vars
    <3>1. UNCHANGED <<life, turn, waiting, ticks, late, requests, called, misled, tickThrew>>
      BY <2>1 DEF vars, history
    <3>2. \A g \in Files : Waiters(g)' = Waiters(g)
      BY <3>1 DEF Waiters
    <3>3. TurnTyped'
      BY <3>1, TurnIsTyped DEF TurnTyped
    <3> QED
      BY <3>1, <3>2, <3>3, QuietCache DEF CacheInv, Typed, Opened
  <2>2. CASE Next
    BY <2>2, RequestStep, QuietSteps, OpenStep, EmitStep, TickStep DEF Next
  <2> QED
    BY <2>1, <2>2
<1> QED
  BY <1>1, <1>2, PTL DEF Spec

\* A callback that is told no error finds the database open, unless a tick
\* threw before: for every set of files, of requests and of closes.
THEOREM CallbacksFindItOpen == Spec => []CalledMeansOpen
<1>1. CacheInv => CalledMeansOpen
  BY DEF CacheInv
<1> QED
  BY <1>1, CacheInvariant, PTL

\* The callbacks for one file come in the order in which the database was asked
\* for, whichever of the three ways each of them takes.
THEOREM CallbacksInOrder == Spec => []InRequestOrder
<1>1. CacheInv => InRequestOrder
  BY DEF CacheInv
<1> QED
  BY <1>1, CacheInvariant, PTL
=============================================================================
