---------------------------- MODULE EventsProofs ----------------------------
(***************************************************************************)
(* Proofs about the trace event, for every bound, and listeners that throw *)
(* or do not.  The argument is in the README.                              *)
(***************************************************************************)
EXTENDS Events, StackLemmas

-----------------------------------------------------------------------------
\* The order of the events.

Rising(s) == \A i, j \in 1..Len(s) : i < j => s[i] < s[j]
Ahead(s, t) == \A i \in 1..Len(s), j \in 1..Len(t) : s[i] < t[j]

LEMMA AheadHas ==
  \A s, t : Ahead(s, t) <=> \A x, y : Has(s, {x}) /\ Has(t, {y}) => x < y
  BY DEF Ahead, Has

LEMMA RisingAppend ==
  ASSUME NEW S, NEW s \in Seq(S), NEW x \in S, Rising(s), \A y : Has(s, {y}) => y < x
  PROVE  Rising(Append(s, x))
<1> DEFINE t == Append(s, x)
<1>1. /\ Len(t) = Len(s) + 1 /\ Len(s) \in Nat
      /\ \A i \in 1..Len(s) : t[i] = s[i]
      /\ t[Len(s) + 1] = x
  BY AppendProperties, LenProperties
<1> HIDE DEF t
<1> SUFFICES ASSUME NEW i \in 1..Len(t), NEW j \in 1..Len(t), i < j
             PROVE  t[i] < t[j]
  BY DEF Rising, t
<1>2. i \in 1..Len(s) /\ t[i] = s[i] /\ Has(s, {t[i]})
  BY <1>1 DEF Has
<1>3. CASE j \in 1..Len(s)
  BY <1>1, <1>2, <1>3 DEF Rising
<1>4. CASE j = Len(s) + 1
  BY <1>1, <1>2, <1>4
<1> QED
  BY <1>1, <1>3, <1>4

LEMMA RisingPop ==
  ASSUME NEW S, NEW s \in Seq(S), s # <<>>, Rising(s)
  PROVE  Rising(Tail(s)) /\ \A y : Has(Tail(s), {y}) => Head(s) < y
<1>1. /\ Tail(s) \in Seq(S) /\ Len(Tail(s)) = Len(s) - 1
      /\ \A i \in 1..Len(Tail(s)) : Tail(s)[i] = s[i + 1]
  BY HeadTailProperties
<1>2. Len(s) \in Nat /\ Len(s) > 0 /\ Head(s) = s[1]
  BY LenProperties, EmptySeq
<1>3. \A i \in 1..Len(Tail(s)) : i + 1 \in 1..Len(s) /\ 1 < i + 1
  BY <1>1, <1>2
<1>4. \A i, j \in 1..Len(Tail(s)) : i < j => i + 1 < j + 1
  OBVIOUS
<1>5. 1 \in 1..Len(s)
  BY <1>2
<1>6. Rising(Tail(s))
  BY <1>1, <1>3, <1>4 DEF Rising
<1>7. \A y : Has(Tail(s), {y}) => Head(s) < y
  BY <1>1, <1>2, <1>3, <1>5 DEF Rising, Has
<1> QED
  BY <1>6, <1>7

-----------------------------------------------------------------------------
\* The frames that the invariants tell apart.

NeutralPcs == {"js", "dead", "tail", "process"}
Neutral == {f \in Frame : f.pc \in NeutralPcs /\ f.items = <<>>}
Listening == {f \in Frame : f.pc = "listener"}

\* Those of finish() that will close the watcher of an object of S, or of one
\* that is not in S.
Closing(S) == {f \in Frame : f.pc = "uvclose" /\ f.of \in S}
Straying(S) == {f \in Frame : f.pc = "uvclose" /\ f.of \notin S}

\* Those that hold event x, those that hold events out of order, and frames
\* that no handler pushes, of which only the first m objects were made.
Carrying(x) == {f \in Frame : Has(f.items, {x})}
Unruly(h, d) == {f \in Frame : ~(Rising(f.items) /\ Ahead(h, f.items) /\ Ahead(f.items, d))}
Misfits(m) == {f \in Frame : f.pc # "listener" /\ f.items # <<>>} \cup Straying(1..m)

LEMMA FrameKinds ==
  /\ \A p \in NeutralPcs : At(p) \in Neutral
  /\ \A q \in Seq(1..MaxEvents) :
       Listener(q) \in Frame /\ Listener(q).pc = "listener" /\ Listener(q).items = q
  /\ \A n \in Nat : /\ UvClose(n) \in Frame /\ UvClose(n).pc = "uvclose"
                    /\ UvClose(n).items = <<>> /\ UvClose(n).of = n
  /\ Callback \in Neutral
<1>1. <<>> \in Seq(1..MaxEvents) /\ 0 \in Nat
  OBVIOUS
<1>2. \A p \in NeutralPcs : At(p) \in Neutral
  BY <1>1 DEF At, Neutral, NeutralPcs, Frame, PCs
<1>3. \A q \in Seq(1..MaxEvents) :
        Listener(q) \in Frame /\ Listener(q).pc = "listener" /\ Listener(q).items = q
  <2> TAKE q \in Seq(1..MaxEvents)
  <2>1. Listener(q) = [pc |-> "listener", items |-> q, of |-> 0]
    BY DEF Listener, At
  <2> QED
    BY <1>1, <2>1 DEF Frame, PCs
<1>4. \A n \in Nat : /\ UvClose(n) \in Frame /\ UvClose(n).pc = "uvclose"
                     /\ UvClose(n).items = <<>> /\ UvClose(n).of = n
  <2> TAKE n \in Nat
  <2>1. UvClose(n) = [pc |-> "uvclose", items |-> <<>>, of |-> n]
    BY DEF UvClose, At
  <2> QED
    BY <1>1, <2>1 DEF Frame, PCs
<1> QED
  BY <1>2, <1>3, <1>4 DEF Callback, NeutralPcs

LEMMA FrameSets ==
  /\ \A f \in Frame : /\ f.pc \in PCs /\ f.items \in Seq(1..MaxEvents) /\ f.of \in Nat
                      /\ f \in Neutral <=> f.pc \in NeutralPcs /\ f.items = <<>>
                      /\ f \in Listening <=> f.pc = "listener"
                      /\ \A S : f \in Closing(S) <=> f.pc = "uvclose" /\ f.of \in S
                      /\ \A S : f \in Straying(S) <=> f.pc = "uvclose" /\ f.of \notin S
                      /\ \A x : f \in Carrying(x) <=> Has(f.items, {x})
                      /\ \A m : f \in Misfits(m) <=> \/ f.pc # "listener" /\ f.items # <<>>
                                                     \/ f.pc = "uvclose" /\ f.of \notin 1..m
<1>1. \A f \in Frame : f.pc \in PCs /\ f.items \in Seq(1..MaxEvents) /\ f.of \in Nat
  BY DEF Frame
<1>2. \A f \in Frame : /\ f \in Neutral <=> f.pc \in NeutralPcs /\ f.items = <<>>
                       /\ f \in Listening <=> f.pc = "listener"
                       /\ \A S : f \in Closing(S) <=> f.pc = "uvclose" /\ f.of \in S
                       /\ \A S : f \in Straying(S) <=> f.pc = "uvclose" /\ f.of \notin S
                       /\ \A x : f \in Carrying(x) <=> Has(f.items, {x})
  BY DEF Neutral, Listening, Closing, Straying, Carrying
<1>3. \A f \in Frame : \A m : f \in Misfits(m) <=> \/ f.pc # "listener" /\ f.items # <<>>
                                                   \/ f.pc = "uvclose" /\ f.of \notin 1..m
  BY DEF Misfits, Straying
<1> QED
  BY <1>1, <1>2, <1>3

\* None of them counts the frames of JavaScript and of Process.
LEMMA NeutralApart ==
  /\ Listening \cap Neutral = {}
  /\ \A S : Closing(S) \cap Neutral = {} /\ Straying(S) \cap Neutral = {}
  /\ \A x : Carrying(x) \cap Neutral = {}
  /\ \A h, d : Unruly(h, d) \cap Neutral = {}
  /\ \A m : Misfits(m) \cap Neutral = {}
<1>1. Rising(<<>>) /\ \A s : Ahead(s, <<>>) /\ Ahead(<<>>, s)
  BY DEF Rising, Ahead
<1>2. \A x : ~Has(<<>>, {x})
  BY EmptyStack
<1> QED
  BY <1>1, <1>2 DEF Listening, Closing, Straying, Carrying, Unruly, Misfits, Neutral,
     NeutralPcs

\* s2 has the frames of s, but for neutral ones.
Keeps(s2, s) ==
  /\ s2 \in Seq(Frame)
  /\ \A P : P \cap Neutral = {} => (Has(s2, P) <=> Has(s, P)) /\ (Alone(s2, P) <=> Alone(s, P))

LEMMA KeepsSame ==
  ASSUME NEW s \in Seq(Frame)
  PROVE  Keeps(s, s)
  BY DEF Keeps

LEMMA KeepsPush ==
  ASSUME NEW s, NEW r, Keeps(r, s), NEW f \in Neutral
  PROVE  Keeps(<<f>> \o r, s)
<1>1. f \in Frame /\ r \in Seq(Frame)
  BY DEF Neutral, Keeps
<1>2. /\ <<f>> \o r \in Seq(Frame)
      /\ \A P : Has(<<f>> \o r, P) <=> f \in P \/ Has(r, P)
      /\ \A P : Alone(<<f>> \o r, P) <=> Alone(r, P) /\ ~(f \in P /\ Has(r, P))
  BY <1>1, PushFrame
<1> QED
  BY <1>2 DEF Keeps

LEMMA KeepsPop ==
  ASSUME NEW s \in Seq(Frame), s # <<>>, Head(s) \in Neutral
  PROVE  Keeps(Tail(s), s)
<1>1. /\ Tail(s) \in Seq(Frame)
      /\ \A P : Has(s, P) <=> Head(s) \in P \/ Has(Tail(s), P)
      /\ \A P : Alone(s, P) <=> Alone(Tail(s), P) /\ ~(Head(s) \in P /\ Has(Tail(s), P))
  BY PopFrame
<1> QED
  BY <1>1 DEF Keeps

LEMMA KeepsPushTwo ==
  ASSUME NEW s, NEW r, Keeps(r, s), NEW f \in Neutral, NEW g \in Neutral
  PROVE  Keeps(<<f, g>> \o r, s)
<1>1. f \in Frame /\ g \in Frame /\ r \in Seq(Frame)
  BY DEF Neutral, Keeps
<1>2. <<f, g>> \o r = <<f>> \o (<<g>> \o r)
  BY <1>1, PushTwo
<1>3. Keeps(<<g>> \o r, s)
  BY KeepsPush
<1> QED
  BY <1>2, <1>3, KeepsPush

-----------------------------------------------------------------------------
\* The invariants.

\* The Async objects.
Objects ==
  /\ trace \in 0..made /\ gone \subseteq 1..made /\ trace \notin gone
  /\ ~Has(stack, Misfits(made))
  /\ sent <= MaxEvents

\* Some watcher is going to be closed twice.
Doomed == Has(stack, Closing(gone)) \/ ~Alone(stack, Closing({trace}))

\* The object in use is being finished.
Ending == Has(stack, Closing({trace}))

\* There is an object while the hook is registered, until it is finished.
Hooks ==
  /\ ~Has(stack, Straying(gone \cup {trace}))
  /\ trace = 0 => data = <<>>
  /\ Doomed => twice
  /\ twice => nested
  /\ Ending => data = <<>> /\ (~hook \/ life = "closing")
  /\ life \in {"opening", "failed"} => trace = 0 /\ ~hook
  /\ life = "closing" /\ trace # 0 => Ending
  /\ life = "open" /\ ~busyClosed /\ ~Doomed => (trace # 0 <=> hook \/ Ending)

\* What has happened to event x.
Accounted(x) ==
  Has(heard, {x}) \/ x \in missed \/ Has(data, {x}) \/ Has(stack, Carrying(x))

Account == \A x \in 1..MaxEvents : x <= sent <=> Accounted(x)

\* The configure calls that wait will bring the hook in line with the listener.
Switches ==
  /\ paired => listeners \in {0, 1}
  /\ life \in {"opening", "open", "closing"} /\ paired /\ ~busyClosed /\ ~Doomed =>
       (hook <=> (listeners + waiting) % 2 = 1)

\* Events go from data to the one listener() and from there to JavaScript.
InRow ==
  ~nested =>
    /\ Rising(heard) /\ Rising(data) /\ Ahead(heard, data)
    /\ ~Has(stack, Unruly(heard, data)) /\ Alone(stack, Listening)

Base == TypeOK /\ Objects /\ CrashHasCause /\ InRow
Live == Hooks /\ Account /\ Switches
IInv == Base /\ (~crashed => Live)

-----------------------------------------------------------------------------
\* The types, one by one.

Numbers ==
  /\ listeners \in Nat /\ waiting \in Nat /\ trace \in Nat /\ sent \in Nat /\ made \in Nat
  /\ ops \in Nat /\ closes \in Nat

Flags ==
  /\ hook \in BOOLEAN /\ signal \in BOOLEAN /\ crashed \in BOOLEAN /\ raised \in BOOLEAN
  /\ busyClosed \in BOOLEAN /\ nested \in BOOLEAN /\ twice \in BOOLEAN
  /\ paired \in BOOLEAN

Contents ==
  /\ life \in {"opening", "open", "failed", "closing", "closed"}
  /\ data \in Seq(1..MaxEvents) /\ heard \in Seq(1..MaxEvents)
  /\ gone \subseteq 1..made /\ missed \subseteq 1..MaxEvents
  /\ stack \in Seq(Frame)

LEMMA TypeParts == TypeOK <=> Numbers /\ Flags /\ Contents
  BY DEF TypeOK, Numbers, Flags, Contents

LEMMA TypePartsNext == TypeOK' <=> Numbers' /\ Flags' /\ Contents'
  BY DEF TypeOK, Numbers, Flags, Contents

\* Steps that change neither the object nor the events and keep the frames.
Still == Keeps(stack', stack) /\ UNCHANGED <<async, crashed, events, nested, twice>>

\* The steps that switch the hook: on an object that is made, or one that is
\* finished.
SwitchOn == \E below : Keeps(below, stack) /\ HookOn(below) /\ UNCHANGED <<crashed, events>>
SwitchOff ==
  \E below :
    /\ Keeps(below, stack) /\ trace # 0 /\ Finish(below)
    /\ UNCHANGED <<crashed, events>>
    /\ hook' = FALSE \/ life' = "closing"

LEMMA CallbackStack ==
  ASSUME stack \in Seq(Frame)
  PROVE  /\ Keeps(stack, stack)
         /\ Keeps(<<At("process")>> \o stack, stack)
         /\ Keeps(<<Callback, At("process")>> \o stack, stack)
<1>1. Keeps(stack, stack) /\ At("process") \in Neutral /\ Callback \in Neutral
  BY KeepsSame, FrameKinds DEF NeutralPcs
<1> QED
  BY <1>1, KeepsPush, KeepsPushTwo

\* What Configure does: nothing, but that a call is rejected or waits, or it
\* switches the hook.
LEMMA ConfigureSteps ==
  ASSUME TypeOK, ~crashed, Configure, UNCHANGED <<life, crashed, events, busyClosed>>
  PROVE  \/ Still /\ hook' = hook /\ waiting' = waiting /\ life = "closed"
         \/ Still /\ hook' = hook /\ waiting' = waiting + 1
         \/ life = "open" /\ SwitchOn /\ waiting' = waiting
         \/ life = "open" /\ SwitchOff /\ hook' = FALSE /\ waiting' = waiting
<1>0. stack \in Seq(Frame)
  BY TypeParts DEF Contents
<1>1. CASE life = "closed" /\ stack' = <<Callback, At("process")>> \o stack
           /\ UNCHANGED <<waiting, hook, async, nested, twice>>
  BY <1>0, <1>1, CallbackStack DEF Still
<1>2. CASE waiting' = waiting + 1 /\ stack' = <<At("process")>> \o stack
           /\ UNCHANGED <<hook, async, nested, twice>>
  BY <1>0, <1>2, CallbackStack DEF Still
<1> DEFINE b == <<At("process")>> \o stack
<1>3. Keeps(b, stack)
  BY <1>0, CallbackStack
<1>4. CASE life = "open" /\ Toggle(b) /\ UNCHANGED waiting
  <2> HIDE DEF b
  <2> QED
    BY <1>3, <1>4 DEF Toggle, HookOff, SwitchOn, SwitchOff
<1> QED
  BY <1>1, <1>2, <1>4 DEF Configure

-----------------------------------------------------------------------------
\* Steps that keep the frames, the object and the events.

LEMMA StillFacts ==
  ASSUME Objects, Still
  PROVE  /\ Objects' /\ (InRow => InRow') /\ (Account => Account')
         /\ (Doomed' <=> Doomed) /\ (Ending' <=> Ending)
         /\ \A S : Has(stack', Straying(S)) <=> Has(stack, Straying(S))
<1>1. /\ \A S : Has(stack', Closing(S)) <=> Has(stack, Closing(S))
      /\ \A S : Alone(stack', Closing(S)) <=> Alone(stack, Closing(S))
      /\ \A S : Has(stack', Straying(S)) <=> Has(stack, Straying(S))
      /\ \A x : Has(stack', Carrying(x)) <=> Has(stack, Carrying(x))
      /\ \A h, d : Has(stack', Unruly(h, d)) <=> Has(stack, Unruly(h, d))
      /\ \A m : Has(stack', Misfits(m)) <=> Has(stack, Misfits(m))
      /\ Alone(stack', Listening) <=> Alone(stack, Listening)
  BY NeutralApart DEF Still, Keeps
<1>2. /\ trace' = trace /\ data' = data /\ gone' = gone /\ made' = made
      /\ sent' = sent /\ heard' = heard /\ missed' = missed /\ nested' = nested
      /\ twice' = twice
  BY DEF Still, async, events
<1>3. Objects'
  BY <1>1, <1>2 DEF Objects
<1>4. InRow => InRow'
  BY <1>1, <1>2 DEF InRow
<1>5. Account => Account'
  BY <1>1, <1>2 DEF Account, Accounted
<1>6. (Doomed' <=> Doomed) /\ (Ending' <=> Ending)
  BY <1>1, <1>2 DEF Doomed, Ending
<1> QED
  BY <1>1, <1>3, <1>4, <1>5, <1>6

-----------------------------------------------------------------------------
\* A new object.

LEMMA OnFacts ==
  ASSUME TypeOK, Objects, Hooks, SwitchOn
  PROVE  /\ Objects' /\ (InRow => InRow') /\ (Account => Account')
         /\ (Doomed' <=> Doomed) /\ ~Ending' /\ (life = "open" => ~Ending)
         /\ ~Has(stack', Straying(gone' \cup {trace'}))
         /\ hook' = TRUE /\ trace' = made + 1 /\ data' = <<>>
         /\ UNCHANGED <<crashed, events, nested, twice>> /\ trace = 0
<1>1. PICK below : Keeps(below, stack) /\ HookOn(below) /\ UNCHANGED <<crashed, events>>
  BY DEF SwitchOn
<1>2. /\ trace = 0 /\ trace' = made + 1 /\ made' = made + 1 /\ hook' = TRUE /\ data' = <<>>
      /\ gone' = gone /\ nested' = nested /\ twice' = twice /\ stack' = below
      /\ sent' = sent /\ heard' = heard /\ missed' = missed /\ crashed' = crashed
  BY <1>1 DEF HookOn, events
<1>3. /\ \A S : Has(stack', Closing(S)) <=> Has(stack, Closing(S))
      /\ \A S : Alone(stack', Closing(S)) <=> Alone(stack, Closing(S))
      /\ \A S : Has(stack', Straying(S)) <=> Has(stack, Straying(S))
      /\ \A x : Has(stack', Carrying(x)) <=> Has(stack, Carrying(x))
      /\ \A h, d : Has(stack', Unruly(h, d)) <=> Has(stack, Unruly(h, d))
      /\ \A m : Has(stack', Misfits(m)) <=> Has(stack, Misfits(m))
      /\ Alone(stack', Listening) <=> Alone(stack, Listening)
  BY <1>1, <1>2, NeutralApart DEF Keeps
<1>4. /\ made \in Nat /\ gone \subseteq 1..made /\ stack \in Seq(Frame) /\ data = <<>>
  BY <1>2, TypeParts DEF Numbers, Contents, Hooks
<1>5. ~Has(stack, Straying(1..made))
  <2>1. Straying(1..made) \subseteq Misfits(made)
    BY DEF Misfits
  <2> QED
    BY <2>1, HasMore DEF Objects
<1>6. ASSUME NEW n \in Nat, n \notin 1..made
      PROVE  ~Has(stack, Closing({n}))
  <2>1. Closing({n}) \subseteq Straying(1..made)
    BY <1>6 DEF Closing, Straying
  <2> QED
    BY <1>5, <2>1, HasMore
<1>7. ~Has(stack, Closing({0})) /\ ~Has(stack, Closing({made + 1}))
  BY <1>4, <1>6
<1>8. Alone(stack, Closing({0})) /\ Alone(stack, Closing({made + 1}))
  BY <1>7, SeveralHas
<1>9. Objects'
  <2>1. Misfits(made + 1) \subseteq Misfits(made)
    BY <1>4 DEF Misfits, Straying
  <2>2. ~Has(stack', Misfits(made + 1))
    BY <1>3, <2>1, HasMore DEF Objects
  <2>3. made + 1 \in 0..(made + 1) /\ gone \subseteq 1..(made + 1) /\ made + 1 \notin gone
    BY <1>4
  <2> QED
    BY <1>2, <2>2, <2>3 DEF Objects
<1>10. InRow => InRow'
  BY <1>2, <1>3, <1>4 DEF InRow
<1>11. Account => Account'
  BY <1>2, <1>3, <1>4 DEF Account, Accounted
<1>12. (Doomed' <=> Doomed) /\ ~Ending' /\ ~Ending
  BY <1>2, <1>3, <1>7, <1>8 DEF Doomed, Ending
<1>13. ~Has(stack', Straying(gone \cup {made + 1}))
  <2>1. Straying(gone \cup {made + 1}) \subseteq Straying(1..made) \cup Straying(gone \cup {0})
    BY <1>4 DEF Straying
  <2>2. ~Has(stack, Straying(gone \cup {0}))
    BY <1>2 DEF Hooks
  <2>3. ~Has(stack, Straying(gone \cup {made + 1}))
    BY <1>5, <2>1, <2>2 DEF Has
  <2> QED
    BY <1>3, <2>3
<1> QED
  BY <1>1, <1>2, <1>9, <1>10, <1>11, <1>12, <1>13

-----------------------------------------------------------------------------
\* finish() of the object in use.

LEMMA OffStack ==
  ASSUME TypeOK, SwitchOff
  PROVE  LET l == Listener(data)
             u == UvClose(trace)
         IN  /\ stack' \in Seq(Frame) /\ l \in Frame /\ u \in Frame
             /\ \A P : P \cap Neutral = {} =>
                  /\ Has(stack', P) <=> l \in P \/ u \in P \/ Has(stack, P)
                  /\ Alone(stack', P) <=> /\ Alone(stack, P)
                                          /\ ~(u \in P /\ Has(stack, P))
                                          /\ ~(l \in P /\ (u \in P \/ Has(stack, P)))
<1> DEFINE l == Listener(data)
           u == UvClose(trace)
<1>1. PICK b : Keeps(b, stack) /\ Finish(b)
  BY DEF SwitchOff
<1>2. l \in Frame /\ u \in Frame /\ b \in Seq(Frame)
  BY <1>1, FrameKinds, TypeParts DEF Numbers, Contents, Keeps
<1>3. stack' = <<l, u>> \o b
  BY <1>1 DEF Finish
<1> HIDE DEF l, u
<1> DEFINE c == <<u>> \o b
<1>4. stack' = <<l>> \o c /\ stack' \in Seq(Frame)
  BY <1>2, <1>3, PushTwo
<1>5. /\ c \in Seq(Frame)
      /\ \A P : Has(c, P) <=> u \in P \/ Has(b, P)
      /\ \A P : Alone(c, P) <=> Alone(b, P) /\ ~(u \in P /\ Has(b, P))
  BY <1>2, PushFrame
<1> HIDE DEF c
<1>6. /\ \A P : Has(stack', P) <=> l \in P \/ Has(c, P)
      /\ \A P : Alone(stack', P) <=> Alone(c, P) /\ ~(l \in P /\ Has(c, P))
  BY <1>2, <1>4, <1>5, PushFrame
<1>7. \A P : P \cap Neutral = {} =>
        (Has(b, P) <=> Has(stack, P)) /\ (Alone(b, P) <=> Alone(stack, P))
  BY <1>1 DEF Keeps
<1> QED
  BY <1>2, <1>4, <1>5, <1>6, <1>7 DEF l, u

LEMMA OffFacts ==
  ASSUME TypeOK, Objects, Hooks, SwitchOff
  PROVE  /\ Objects' /\ (InRow => InRow') /\ (Account => Account')
         /\ (Doomed => Doomed') /\ (Doomed' => twice') /\ Ending' /\ (Ending => Doomed')
         /\ ~Has(stack', Straying(gone' \cup {trace'}))
         /\ trace # 0 /\ trace' = trace /\ data' = <<>>
         /\ (nested => nested') /\ (twice' => nested')
         /\ UNCHANGED <<crashed, events>>
         /\ hook' = FALSE \/ life' = "closing"
<1> DEFINE l == Listener(data)
           u == UvClose(trace)
<1>1. /\ trace # 0 /\ trace' = trace /\ made' = made /\ gone' = gone /\ data' = <<>>
      /\ sent' = sent /\ heard' = heard /\ missed' = missed /\ crashed' = crashed
      /\ nested' = (nested \/ \E i \in 1..Len(stack) : stack[i].pc \in {"listener", "uvclose"})
      /\ twice' = (twice \/ \E i \in 1..Len(stack) : stack[i].pc = "uvclose")
      /\ hook' = FALSE \/ life' = "closing"
  BY DEF SwitchOff, Finish, Overlap, events
<1>2. /\ l \in Frame /\ u \in Frame
      /\ \A P : P \cap Neutral = {} =>
           /\ Has(stack', P) <=> l \in P \/ u \in P \/ Has(stack, P)
           /\ Alone(stack', P) <=> /\ Alone(stack, P)
                                   /\ ~(u \in P /\ Has(stack, P))
                                   /\ ~(l \in P /\ (u \in P \/ Has(stack, P)))
  BY OffStack
<1>3. /\ l.pc = "listener" /\ l.items = data
      /\ u.pc = "uvclose" /\ u.items = <<>> /\ u.of = trace
      /\ data \in Seq(1..MaxEvents) /\ trace \in 1..made /\ trace \notin gone
      /\ stack \in Seq(Frame)
  BY <1>1, FrameKinds, TypeParts DEF Numbers, Contents, Objects
<1> HIDE DEF l, u
<1>4. /\ \A S : l \notin Closing(S) /\ l \notin Straying(S)
      /\ \A S : (u \in Closing(S) <=> trace \in S) /\ (u \in Straying(S) <=> trace \notin S)
      /\ \A x : (l \in Carrying(x) <=> Has(data, {x})) /\ u \notin Carrying(x)
      /\ l \notin Misfits(made) /\ u \notin Misfits(made)
      /\ l \in Listening /\ u \notin Listening
  <2>1. \A x : ~Has(<<>>, {x})
    BY EmptyStack
  <2>2. /\ l \in Listening /\ \A S : l \notin Closing(S) /\ l \notin Straying(S)
        /\ \A x : l \in Carrying(x) <=> Has(data, {x})
    BY <1>2, <1>3, FrameSets
  <2>3. /\ u \notin Listening
        /\ \A S : (u \in Closing(S) <=> trace \in S) /\ (u \in Straying(S) <=> trace \notin S)
    BY <1>2, <1>3, FrameSets
  <2>4. \A x : u \notin Carrying(x)
    BY <1>2, <1>3 DEF Carrying, Has
  <2>5. l \notin Misfits(made) /\ u \notin Misfits(made)
    BY <1>2, <1>3, FrameSets
  <2> QED
    BY <2>2, <2>3, <2>4, <2>5
<1>5. /\ \A S : Has(stack', Closing(S)) <=> trace \in S \/ Has(stack, Closing(S))
      /\ \A S : Has(stack', Straying(S)) <=> trace \notin S \/ Has(stack, Straying(S))
      /\ \A x : Has(stack', Carrying(x)) <=> Has(data, {x}) \/ Has(stack, Carrying(x))
      /\ Has(stack', Misfits(made)) <=> Has(stack, Misfits(made))
      /\ Alone(stack', Closing({trace})) <=>
           Alone(stack, Closing({trace})) /\ ~Has(stack, Closing({trace}))
      /\ Alone(stack', Listening) <=> Alone(stack, Listening) /\ ~Has(stack, Listening)
  BY <1>2, <1>4, NeutralApart
<1>6. ~nested' => ~Has(stack, Listening) /\ \A S : ~Has(stack, Closing(S))
  BY <1>1 DEF Has, Listening, Closing
<1>7. Objects'
  BY <1>1, <1>5 DEF Objects
<1>8. InRow => InRow'
  <2> SUFFICES ASSUME InRow, ~nested'
               PROVE  InRow'
    BY DEF InRow
  <2>1. /\ ~nested /\ Rising(heard) /\ Rising(data) /\ Ahead(heard, data)
        /\ ~Has(stack, Unruly(heard, data)) /\ Alone(stack, Listening)
    BY <1>1 DEF InRow
  <2>2. Rising(<<>>) /\ \A s : Ahead(s, <<>>) /\ Ahead(<<>>, s)
    BY DEF Rising, Ahead
  <2>3. Unruly(heard, <<>>) \subseteq Unruly(heard, data)
    BY <2>2 DEF Unruly
  <2>4. ~Has(stack, Unruly(heard, <<>>))
    BY <2>1, <2>3, HasMore
  <2>5. l \notin Unruly(heard, <<>>) /\ u \notin Unruly(heard, <<>>)
    BY <1>2, <1>3, <2>1, <2>2 DEF Unruly
  <2>6. ~Has(stack', Unruly(heard, <<>>))
    BY <1>2, <2>4, <2>5, NeutralApart
  <2> QED
    BY <1>1, <1>5, <1>6, <2>1, <2>2, <2>6 DEF InRow
<1>9. Account => Account'
  <2>1. \A x : ~Has(<<>>, {x})
    BY EmptyStack
  <2>2. \A x : Accounted(x) <=> Accounted(x)'
    BY <1>1, <1>5, <2>1 DEF Accounted
  <2> QED
    BY <1>1, <2>2 DEF Account
<1>10. (Doomed => Doomed') /\ Ending' /\ (Ending => Doomed')
  BY <1>1, <1>5 DEF Doomed, Ending
<1>11. (Doomed' => twice') /\ (twice' => nested')
  <2>1. ~twice' => \A S : ~Has(stack, Closing(S))
    BY <1>1 DEF Has, Closing
  <2>2. Doomed' => twice'
    BY <1>1, <1>3, <1>5, <2>1 DEF Doomed, Hooks
  <2>3. twice' => nested'
    BY <1>1 DEF Hooks
  <2> QED
    BY <2>2, <2>3
<1>12. ~Has(stack', Straying(gone \cup {trace}))
  BY <1>5 DEF Hooks
<1> QED
  BY <1>1, <1>7, <1>8, <1>9, <1>10, <1>11, <1>12 DEF events

-----------------------------------------------------------------------------
\* uv_close.

LEMMA CloseFacts ==
  ASSUME TypeOK, Objects, Hooks, ~crashed, CloseWatcher
  PROVE  /\ Objects' /\ (InRow => InRow') /\ (Account => Account')
         /\ crashed' => twice
         /\ ~crashed' => /\ Ending /\ ~Ending' /\ (Doomed' => Doomed) /\ (Doomed => Doomed')
                         /\ ~Has(stack', Straying(gone' \cup {trace'}))
         /\ trace' = 0
<1> DEFINE h == Head(stack)
<1>1. /\ stack # <<>> /\ h.pc = "uvclose" /\ stack' = Tail(stack)
      /\ crashed' = (h.of \in gone) /\ gone' = gone \cup {h.of} /\ trace' = 0
      /\ UNCHANGED <<data, made, sent, heard, missed, nested, twice>>
  BY DEF CloseWatcher, InPc, events
<1>2. /\ h \in Frame /\ stack' \in Seq(Frame)
      /\ \A P : Has(stack, P) <=> h \in P \/ Has(stack', P)
      /\ \A P : Alone(stack, P) <=> Alone(stack', P) /\ ~(h \in P /\ Has(stack', P))
  BY <1>1, PopFrame, TypeParts DEF Contents
<1>3. /\ made \in Nat /\ gone \subseteq 1..made /\ trace \in 0..made /\ trace \notin gone
      /\ ~Has(stack, Misfits(made)) /\ sent <= MaxEvents
  BY TypeParts DEF Numbers, Objects
<1> HIDE DEF h
<1>4. /\ h.of \in 1..made /\ h.items = <<>> /\ \A S : h \in Closing(S) <=> h.of \in S
      /\ \A S : h \in Straying(S) <=> h.of \notin S
  <2>1. h \notin Misfits(made)
    BY <1>2, <1>3
  <2> QED
    BY <1>1, <1>2, <2>1, FrameSets
<1>5. \A x : h \notin Carrying(x)
  BY <1>2, <1>4 DEF Carrying, Has
<1>6. Objects'
  <2>1. ~Has(stack', Misfits(made))
    BY <1>2, <1>3
  <2>2. /\ 0 \in 0..made /\ gone \cup {h.of} \subseteq 1..made
        /\ 0 \notin gone \cup {h.of}
    <3>1. 0 \in 0..made /\ 0 \notin 1..made
      BY <1>3
    <3>2. gone \cup {h.of} \subseteq 1..made
      BY <1>3, <1>4
    <3> QED
      BY <3>1, <3>2
  <2> QED
    BY <1>1, <1>3, <2>1, <2>2 DEF Objects
<1>7. InRow => InRow'
  BY <1>1, <1>2 DEF InRow
<1>8. Account => Account'
  BY <1>1, <1>2, <1>5 DEF Account, Accounted
<1>9. crashed' => twice
  BY <1>1, <1>2, <1>4 DEF Hooks, Doomed
<1>10. ASSUME h.of \notin gone
       PROVE  /\ Ending /\ ~Ending' /\ (Doomed' <=> Doomed)
              /\ ~Has(stack', Straying(gone' \cup {trace'}))
  <2>1. h.of = trace
    BY <1>2, <1>4, <1>10 DEF Hooks
  <2>2. Ending
    BY <1>2, <1>4, <2>1 DEF Ending
  <2>3. ~Has(stack', Closing({0}))
    <3>1. Closing({0}) \subseteq Misfits(made)
      BY <1>3 DEF Closing, Straying, Misfits
    <3> QED
      BY <1>2, <1>3, <3>1, HasMore
  <2>4. ~Ending' /\ Alone(stack', Closing({0}))
    BY <1>1, <2>3, SeveralHas DEF Ending
  <2>5. Has(stack', Closing(gone \cup {trace})) <=>
          Has(stack', Closing(gone)) \/ Has(stack', Closing({trace}))
    BY DEF Has, Closing
  <2>6. Doomed' <=> Has(stack', Closing(gone)) \/ Has(stack', Closing({trace}))
    BY <1>1, <2>1, <2>4, <2>5 DEF Doomed
  <2>7. Doomed <=> Has(stack', Closing(gone)) \/ Has(stack', Closing({trace}))
    <3>1. h \notin Closing(gone) /\ h \in Closing({trace})
      BY <1>4, <1>10, <2>1
    <3>2. Has(stack, Closing(gone)) <=> Has(stack', Closing(gone))
      BY <1>2, <3>1
    <3>3. ~Alone(stack, Closing({trace})) <=> Has(stack', Closing({trace}))
      BY <1>2, <3>1, SeveralHas
    <3> QED
      BY <3>2, <3>3 DEF Doomed
  <2>8. ~Has(stack', Straying(gone' \cup {trace'}))
    <3>1. Straying(gone' \cup {trace'}) \subseteq Straying(gone \cup {trace})
      BY <1>1, <2>1 DEF Straying
    <3>2. ~Has(stack', Straying(gone \cup {trace}))
      BY <1>2 DEF Hooks
    <3> QED
      BY <3>1, <3>2, HasMore
  <2> QED
    BY <2>2, <2>4, <2>6, <2>7, <2>8
<1> QED
  BY <1>1, <1>6, <1>7, <1>8, <1>9, <1>10

-----------------------------------------------------------------------------
\* Events.

LEMMA ReportFacts ==
  ASSUME TypeOK, Objects, Hooks, Account, ~crashed, Report
  PROVE  /\ Objects' /\ (InRow => InRow')
         /\ crashed' => busyClosed \/ twice
         /\ ~crashed' => Account' /\ trace' # 0 /\ ~Ending
<1>1. /\ life = "open" /\ hook /\ sent < MaxEvents /\ sent' = sent + 1
      /\ crashed' = (trace = 0)
      /\ data' = IF trace = 0 THEN data ELSE Append(data, sent + 1)
      /\ UNCHANGED <<life, hook, trace, gone, made, stack, heard, missed, nested, twice>>
      /\ UNCHANGED busyClosed
  BY DEF Report
<1>2. /\ sent \in Nat /\ MaxEvents \in Nat /\ heard \in Seq(1..MaxEvents)
      /\ data \in Seq(1..MaxEvents) /\ stack \in Seq(Frame) /\ sent + 1 \in 1..MaxEvents
  <2>1. sent \in Nat /\ heard \in Seq(1..MaxEvents)
        /\ data \in Seq(1..MaxEvents) /\ stack \in Seq(Frame)
    BY TypeParts DEF Numbers, Contents
  <2>2. MaxEvents \in Nat
    BY EventBounds
  <2>3. sent + 1 \in 1..MaxEvents
    BY <1>1, <2>1, <2>2
  <2> QED
    BY <2>1, <2>2, <2>3
<1>3. Objects'
  BY <1>1, <1>2 DEF Objects
<1>4. ~Ending
  BY <1>1 DEF Hooks
<1>5. crashed' => busyClosed \/ twice
  BY <1>1, <1>4 DEF Hooks
<1> DEFINE d == Append(data, sent + 1)
<1>6. \A P : Has(d, P) <=> Has(data, P) \/ sent + 1 \in P
  BY <1>2, AppendHas
<1> HIDE DEF d
<1>7. trace # 0 => Account'
  <2> SUFFICES ASSUME trace # 0, NEW x \in 1..MaxEvents
               PROVE  x <= sent + 1 <=> Accounted(x)'
    BY <1>1 DEF Account
  <2>1. data' = d
    BY <1>1 DEF d
  <2>2. Accounted(x)' <=> Accounted(x) \/ x = sent + 1
    BY <1>1, <1>6, <2>1 DEF Accounted
  <2>3. Accounted(x) <=> x <= sent
    BY DEF Account
  <2>4. x <= sent + 1 <=> x <= sent \/ x = sent + 1
    BY <1>2
  <2> QED
    BY <2>2, <2>3, <2>4
<1>8. InRow => InRow'
  <2> SUFFICES ASSUME InRow, trace # 0, ~nested
               PROVE  InRow'
    BY <1>1 DEF InRow
  <2>1. /\ Rising(heard) /\ Rising(data) /\ Ahead(heard, data)
        /\ ~Has(stack, Unruly(heard, data)) /\ Alone(stack, Listening)
    BY DEF InRow
  <2>2. \A x \in 1..MaxEvents : Accounted(x) => x < sent + 1
    BY <1>2 DEF Account
  <2>3. \A x : Has(data, {x}) => x < sent + 1
    BY <1>2, <2>2, ElementOfSeq DEF Accounted, Has
  <2>4. Rising(d)
    BY <1>2, <2>1, <2>3, RisingAppend DEF d
  <2>5. ASSUME NEW s \in Seq(1..MaxEvents), Ahead(s, data),
               \A x : Has(s, {x}) => x < sent + 1
        PROVE  Ahead(s, d)
    BY <1>6, <2>5, AheadHas
  <2>6. \A x : Has(heard, {x}) => x < sent + 1
    BY <1>2, <2>2, ElementOfSeq DEF Accounted, Has
  <2>7. Ahead(heard, d)
    BY <1>2, <2>1, <2>5, <2>6
  <2>8. ASSUME NEW i \in 1..Len(stack)
        PROVE  stack[i] \notin Unruly(heard, d)
    <3> DEFINE f == stack[i]
    <3>1. f \in Frame
      BY <1>2, ElementOfSeq
    <3>2. f.items \in Seq(1..MaxEvents) /\ \A x : f \in Carrying(x) <=> Has(f.items, {x})
      BY <3>1, FrameSets
    <3>3. \A x : f \in Carrying(x) => Has(stack, Carrying(x))
      BY DEF Has
    <3>4. f \notin Unruly(heard, data)
      BY <2>1 DEF Has
    <3> HIDE DEF f
    <3>5. \A x : Has(f.items, {x}) => x \in 1..MaxEvents
      BY <3>2, ElementHas
    <3>6. \A x : Has(f.items, {x}) => x < sent + 1
      BY <2>2, <3>2, <3>3, <3>5 DEF Accounted
    <3>7. Rising(f.items) /\ Ahead(heard, f.items) /\ Ahead(f.items, data)
      BY <3>1, <3>4 DEF Unruly
    <3>8. Ahead(f.items, d)
      BY <2>5, <3>2, <3>6, <3>7
    <3> QED
      BY <3>1, <3>7, <3>8 DEF Unruly, f
  <2>9. ~Has(stack, Unruly(heard, d))
    BY <2>8 DEF Has
  <2> QED
    BY <1>1, <2>1, <2>4, <2>7, <2>9 DEF InRow, d
<1> QED
  BY <1>1, <1>3, <1>4, <1>5, <1>7, <1>8

LEMMA WakeFacts ==
  ASSUME TypeOK, Objects, Wake
  PROVE  /\ Objects' /\ (InRow => InRow') /\ (Account => Account')
         /\ ~Ending /\ ~Ending' /\ ~Doomed /\ ~Doomed' /\ \A S : ~Has(stack', Straying(S))
         /\ data' = <<>>
<1> DEFINE l == Listener(data)
           e == <<>>
<1>1. /\ stack = e /\ stack' = <<l>> /\ data' = e
      /\ UNCHANGED <<trace, gone, made, sent, heard, missed, nested, twice>>
  BY DEF Wake, Swap, events
<1>2. /\ data \in Seq(1..MaxEvents)
      /\ l \in Frame /\ l.pc = "listener" /\ l.items = data
  BY FrameKinds, TypeParts DEF Contents
<1> HIDE DEF l
<1>3. e \in Seq(Frame) /\ \A P : ~Has(e, P) /\ Alone(e, P)
  BY EmptyStack
<1>4. /\ l \in Listening /\ l \notin Misfits(made)
      /\ \A S : l \notin Closing(S) /\ l \notin Straying(S)
      /\ \A x : l \in Carrying(x) <=> Has(data, {x})
  BY <1>2, FrameSets
<1> HIDE DEF e
<1>5. /\ \A P : Has(stack', P) <=> l \in P
      /\ \A P : Alone(stack', P)
  <2>1. stack' = <<l>> \o e
    BY <1>1, <1>2, FewFrames DEF e
  <2> QED
    BY <1>2, <1>3, <2>1, PushFrame
<1>6. Objects'
  BY <1>1, <1>4, <1>5 DEF Objects
<1>7. Account => Account'
  <2>1. \A x : Accounted(x) <=> Accounted(x)'
    BY <1>1, <1>3, <1>4, <1>5 DEF Accounted
  <2> QED
    BY <1>1, <2>1 DEF Account
<1>8. InRow => InRow'
  <2> SUFFICES ASSUME InRow, ~nested
               PROVE  InRow'
    BY <1>1 DEF InRow
  <2>1. Rising(e) /\ \A s : Ahead(s, e) /\ Ahead(e, s)
    BY DEF Rising, Ahead, e
  <2>2. l \notin Unruly(heard, e)
    BY <1>2, <2>1 DEF Unruly, InRow
  <2> QED
    BY <1>1, <1>5, <2>1, <2>2 DEF InRow
<1>9. ~Ending /\ ~Ending' /\ ~Doomed /\ ~Doomed'
  BY <1>1, <1>3, <1>4, <1>5 DEF Ending, Doomed
<1> QED
  BY <1>1, <1>4, <1>5, <1>6, <1>7, <1>8, <1>9 DEF e

\* listener() passes on one event, or is done.
LEMMA EmitStack ==
  ASSUME TypeOK, Emit
  PROVE  LET f == Head(stack)
             l == Listener(Tail(f.items))
         IN  /\ stack # <<>> /\ f \in Frame /\ f.pc = "listener" /\ f.items # <<>>
             /\ Head(f.items) \in 1..MaxEvents
             /\ l \in Frame /\ l.pc = "listener" /\ l.items = Tail(f.items)
             /\ stack' \in Seq(Frame)
             /\ \A P : P \cap Neutral = {} =>
                  /\ Has(stack', P) <=> l \in P \/ Has(Tail(stack), P)
                  /\ Alone(stack', P) <=>
                       Alone(Tail(stack), P) /\ ~(l \in P /\ Has(Tail(stack), P))
                  /\ Has(stack, P) <=> f \in P \/ Has(Tail(stack), P)
                  /\ Alone(stack, P) <=>
                       Alone(Tail(stack), P) /\ ~(f \in P /\ Has(Tail(stack), P))
<1> DEFINE f == Head(stack)
           r == Tail(stack)
           q == Tail(f.items)
           l == Listener(q)
           b == <<l>> \o r
<1>1. /\ stack # <<>> /\ f.pc = "listener" /\ f.items # <<>>
      /\ stack' = b \/ stack' = <<At("js")>> \o b
  BY DEF Emit, InPc
<1>2. /\ f \in Frame /\ r \in Seq(Frame)
      /\ \A P : Has(stack, P) <=> f \in P \/ Has(r, P)
      /\ \A P : Alone(stack, P) <=> Alone(r, P) /\ ~(f \in P /\ Has(r, P))
  BY <1>1, PopFrame, TypeParts DEF Contents
<1>3. f.items \in Seq(1..MaxEvents)
  BY <1>2, FrameSets
<1>4. Head(f.items) \in 1..MaxEvents /\ q \in Seq(1..MaxEvents)
  BY <1>1, <1>3, HeadTailProperties
<1>5. l \in Frame /\ l.pc = "listener" /\ l.items = q
  BY <1>4, FrameKinds
<1> HIDE DEF l, r, q
<1>6. /\ b \in Seq(Frame)
      /\ \A P : Has(b, P) <=> l \in P \/ Has(r, P)
      /\ \A P : Alone(b, P) <=> Alone(r, P) /\ ~(l \in P /\ Has(r, P))
  BY <1>2, <1>5, PushFrame
<1> HIDE DEF b
<1>7. Keeps(stack', b)
  <2>1. At("js") \in Neutral /\ Keeps(b, b)
    BY <1>6, FrameKinds, KeepsSame DEF NeutralPcs
  <2>2. Keeps(<<At("js")>> \o b, b)
    BY <2>1, KeepsPush
  <2> QED
    BY <1>1, <2>1, <2>2
<1>8. \A P : P \cap Neutral = {} =>
        /\ Has(stack', P) <=> l \in P \/ Has(r, P)
        /\ Alone(stack', P) <=> Alone(r, P) /\ ~(l \in P /\ Has(r, P))
  BY <1>6, <1>7 DEF Keeps
<1> QED
  BY <1>1, <1>2, <1>4, <1>5, <1>7, <1>8 DEF Keeps, l, r, q

LEMMA EmitFacts ==
  ASSUME TypeOK, Objects, Emit
  PROVE  /\ Objects' /\ (InRow => InRow') /\ (Account => Account')
         /\ (Doomed' <=> Doomed) /\ (Ending' <=> Ending)
         /\ \A S : Has(stack', Straying(S)) <=> Has(stack, Straying(S))
<1> DEFINE f == Head(stack)
           r == Tail(stack)
           x == Head(f.items)
           q == Tail(f.items)
           l == Listener(q)
<1>1. /\ f \in Frame /\ f.pc = "listener" /\ f.items # <<>> /\ x \in 1..MaxEvents
      /\ l \in Frame /\ l.pc = "listener" /\ l.items = q
      /\ \A P : P \cap Neutral = {} =>
           /\ Has(stack', P) <=> l \in P \/ Has(r, P)
           /\ Alone(stack', P) <=> Alone(r, P) /\ ~(l \in P /\ Has(r, P))
           /\ Has(stack, P) <=> f \in P \/ Has(r, P)
           /\ Alone(stack, P) <=> Alone(r, P) /\ ~(f \in P /\ Has(r, P))
  BY EmitStack
<1>2. /\ \/ heard' = Append(heard, x) /\ missed' = missed
         \/ heard' = heard /\ missed' = missed \cup {x}
      /\ UNCHANGED <<trace, data, gone, made, sent, nested, twice>>
  BY DEF Emit, async
<1>3. /\ heard \in Seq(1..MaxEvents) /\ f.items \in Seq(1..MaxEvents) /\ q \in Seq(1..MaxEvents)
      /\ r \in Seq(Frame) /\ stack \in Seq(Frame) /\ stack # <<>>
  <2>1. stack \in Seq(Frame) /\ heard \in Seq(1..MaxEvents) /\ stack # <<>>
    BY EmitStack, TypeParts DEF Contents
  <2>2. f.items \in Seq(1..MaxEvents)
    BY <1>1, FrameSets
  <2>3. q \in Seq(1..MaxEvents)
    BY <1>1, <2>2, HeadTailProperties
  <2>4. r \in Seq(Frame)
    BY <2>1, HeadTailProperties
  <2> QED
    BY <2>1, <2>2, <2>3, <2>4
<1>4. \A y : Has(f.items, {y}) <=> y = x \/ Has(q, {y})
  BY <1>1, <1>3, PopFrame
<1> HIDE DEF l, r
<1>5. /\ f \in Listening /\ l \in Listening
      /\ \A S : f \notin Closing(S) /\ f \notin Straying(S)
      /\ \A S : l \notin Closing(S) /\ l \notin Straying(S)
      /\ \A y : f \in Carrying(y) <=> Has(f.items, {y})
      /\ \A y : l \in Carrying(y) <=> Has(q, {y})
      /\ l \notin Misfits(made)
  <2>1. f \in Frame /\ f.pc = "listener"
    BY <1>1
  <2>2. l \in Frame /\ l.pc = "listener" /\ l.items = q
    BY <1>1
  <2> HIDE DEF f, q
  <2>3. /\ f \in Listening /\ \A S : f \notin Closing(S) /\ f \notin Straying(S)
        /\ \A y : f \in Carrying(y) <=> Has(f.items, {y})
    BY <2>1, FrameSets
  <2>4. /\ l \in Listening /\ \A S : l \notin Closing(S) /\ l \notin Straying(S)
        /\ \A y : l \in Carrying(y) <=> Has(q, {y})
    BY <2>2, FrameSets
  <2>5. l \notin Misfits(made)
    BY <2>2, FrameSets
  <2> QED
    BY <2>3, <2>4, <2>5
<1> HIDE DEF f, q, x
<1>6. /\ \A S : Has(stack', Closing(S)) <=> Has(stack, Closing(S))
      /\ \A S : Alone(stack', Closing(S)) <=> Alone(stack, Closing(S))
      /\ \A S : Has(stack', Straying(S)) <=> Has(stack, Straying(S))
      /\ \A y : Has(stack', Carrying(y)) <=> Has(q, {y}) \/ Has(r, Carrying(y))
      /\ \A y : Has(stack, Carrying(y)) <=> y = x \/ Has(q, {y}) \/ Has(r, Carrying(y))
      /\ Has(stack', Misfits(made)) => Has(stack, Misfits(made))
      /\ Alone(stack', Listening) <=> Alone(stack, Listening)
  BY <1>1, <1>4, <1>5, NeutralApart
<1>7. Objects'
  BY <1>2, <1>6 DEF Objects
<1>8. (Doomed' <=> Doomed) /\ (Ending' <=> Ending)
  BY <1>2, <1>6 DEF Doomed, Ending
<1>9. \A P : Has(Append(heard, x), P) <=> Has(heard, P) \/ x \in P
  <2>1. x \in 1..MaxEvents /\ heard \in Seq(1..MaxEvents)
    BY <1>1, <1>3
  <2> QED
    BY <2>1, AppendHas
<1>10. Account => Account'
  <2>1. \A y : Has(heard', {y}) \/ y \in missed' <=> Has(heard, {y}) \/ y \in missed \/ y = x
    BY <1>2, <1>9
  <2>2. \A y : Accounted(y) <=> Accounted(y)'
    BY <1>2, <1>6, <2>1 DEF Accounted
  <2> QED
    BY <1>2, <2>2 DEF Account
<1>11. InRow => InRow'
  <2> SUFFICES ASSUME InRow, ~nested
               PROVE  InRow'
    BY <1>2 DEF InRow
  <2>1. /\ Rising(heard) /\ Rising(data) /\ Ahead(heard, data)
        /\ ~Has(stack, Unruly(heard, data)) /\ Alone(stack, Listening)
    BY DEF InRow
  <2>2. Rising(f.items) /\ Ahead(heard, f.items) /\ Ahead(f.items, data)
    <3>1. f \notin Unruly(heard, data)
      BY <1>1, <2>1, NeutralApart
    <3> QED
      BY <1>1, <3>1 DEF Unruly
  <2>3. Rising(q) /\ \A y : Has(q, {y}) => x < y
    BY <1>1, <1>3, <2>2, RisingPop DEF q, x
  <2>4. /\ \A y : Has(heard, {y}) => y < x
        /\ \A y : Has(data, {y}) => x < y
        /\ Ahead(heard, q) /\ Ahead(q, data)
    BY <1>4, <2>2, AheadHas
  <2>5. \A y : Has(heard', {y}) => Has(heard, {y}) \/ y = x
    BY <1>2, <1>9
  <2>6. Rising(heard')
    <3>1. /\ x \in 1..MaxEvents /\ heard \in Seq(1..MaxEvents) /\ Rising(heard)
          /\ \A y : Has(heard, {y}) => y < x
      BY <1>1, <1>3, <2>1, <2>4
    <3>2. Rising(Append(heard, x))
      BY <3>1, RisingAppend
    <3> QED
      BY <1>2, <2>1, <3>2
  <2>7. Ahead(heard', data)
    BY <2>1, <2>4, <2>5, AheadHas
  <2>8. Ahead(heard', q)
    BY <2>3, <2>4, <2>5, AheadHas
  <2>9. l \notin Unruly(heard', data)
    BY <1>1, <2>3, <2>4, <2>8 DEF Unruly
  <2>10. ~Has(r, Listening)
    BY <1>1, <1>5, <2>1, NeutralApart
  <2>11. ~Has(r, Misfits(made))
    BY <1>1, NeutralApart DEF Objects
  <2>12. ~Has(r, Unruly(heard', data))
    <3> SUFFICES ASSUME NEW i \in 1..Len(r)
                 PROVE  r[i] \notin Unruly(heard', data)
      BY DEF Has
    <3> DEFINE g == r[i]
    <3>1. g \in Frame
      BY <1>3, ElementOfSeq
    <3>2. g \notin Listening /\ g \notin Misfits(made)
      BY <2>10, <2>11 DEF Has
    <3> HIDE DEF g
    <3>3. g.items = <<>>
      BY <3>1, <3>2, FrameSets
    <3>4. Rising(<<>>) /\ \A s : Ahead(s, <<>>) /\ Ahead(<<>>, s)
      BY DEF Rising, Ahead
    <3> QED
      BY <3>3, <3>4 DEF Unruly, g
  <2>13. ~Has(stack', Unruly(heard', data))
    BY <1>1, <2>9, <2>12, NeutralApart
  <2> QED
    BY <1>2, <1>6, <2>1, <2>6, <2>7, <2>13 DEF InRow
<1> QED
  BY <1>6, <1>7, <1>8, <1>10, <1>11

LEMMA ListenerReturnFacts ==
  ASSUME TypeOK, Objects, ListenerReturn
  PROVE  /\ Objects' /\ (InRow => InRow') /\ (Account => Account')
         /\ (Doomed' <=> Doomed) /\ (Ending' <=> Ending)
         /\ \A S : Has(stack', Straying(S)) <=> Has(stack, Straying(S))
<1> DEFINE h == Head(stack)
<1>1. /\ stack # <<>> /\ h.pc = "listener" /\ h.items = <<>> /\ stack' = Tail(stack)
      /\ UNCHANGED <<trace, data, gone, made, sent, heard, missed, nested, twice>>
  BY DEF ListenerReturn, InPc, async, events
<1>2. /\ h \in Frame /\ stack' \in Seq(Frame)
      /\ \A P : Has(stack, P) <=> h \in P \/ Has(stack', P)
      /\ \A P : Alone(stack, P) <=> Alone(stack', P) /\ ~(h \in P /\ Has(stack', P))
  BY <1>1, PopFrame, TypeParts DEF Contents
<1> HIDE DEF h
<1>3. /\ \A S : h \notin Closing(S) /\ h \notin Straying(S)
      /\ \A x : h \notin Carrying(x)
  <2>1. \A x : h \notin Carrying(x)
    BY <1>1, <1>2 DEF Carrying, Has
  <2> QED
    BY <1>1, <1>2, <2>1, FrameSets
<1>4. Objects'
  BY <1>1, <1>2 DEF Objects
<1>5. InRow => InRow'
  BY <1>1, <1>2 DEF InRow
<1>6. Account => Account'
  BY <1>1, <1>2, <1>3 DEF Account, Accounted
<1>7. (Doomed' <=> Doomed) /\ (Ending' <=> Ending)
  BY <1>1, <1>2, <1>3 DEF Doomed, Ending
<1> QED
  BY <1>2, <1>3, <1>4, <1>5, <1>6, <1>7

-----------------------------------------------------------------------------
\* The kinds of steps.

NewHook == life = "open" /\ SwitchOn /\ UNCHANGED <<life, busyClosed>>

EndHook ==
  /\ life = "open" /\ SwitchOff /\ UNCHANGED busyClosed
  /\ \/ life' = life /\ hook' = FALSE
     \/ life' = "closing" /\ UNCHANGED <<hook, listeners, waiting, paired>>

Quietly == Still /\ UNCHANGED <<life, hook, busyClosed>>

LEMMA NeutralTop ==
  ASSUME TypeOK, Objects, stack # <<>>, Head(stack).pc \in NeutralPcs
  PROVE  /\ Keeps(Tail(stack), stack)
         /\ Keeps(<<Callback>> \o Tail(stack), stack)
         /\ Keeps(<<At("process")>> \o Tail(stack), stack)
<1> DEFINE h == Head(stack)
<1>1. stack \in Seq(Frame) /\ h \in Frame /\ h \notin Misfits(made)
  BY PopFrame, TypeParts DEF Contents, Objects
<1>2. h \in Neutral
  <2> HIDE DEF h
  <2>1. h.pc \in NeutralPcs
    BY DEF h
  <2> QED
    BY <1>1, <2>1, FrameSets DEF NeutralPcs
<1>3. Keeps(Tail(stack), stack)
  BY <1>1, <1>2, KeepsPop
<1> QED
  BY <1>3, FrameKinds, KeepsPush DEF NeutralPcs

\* A callback that throws takes the handler below it away.
LEMMA UnwoundKeeps ==
  ASSUME TypeOK, Objects, stack # <<>>, Head(stack).pc \in {"js", "dead"}
  PROVE  Keeps(Unwound, stack)
<1> DEFINE t == Tail(stack)
<1>1. Keeps(t, stack) /\ t \in Seq(Frame)
  BY NeutralTop DEF Keeps, NeutralPcs
<1>2. CASE t # <<>> /\ Head(t).pc = "tail"
  <2>1. stack \in Seq(Frame) /\ Misfits(made) \cap Neutral = {} /\ ~Has(stack, Misfits(made))
    BY NeutralApart, TypeParts DEF Contents, Objects
  <2>2. ~Has(t, Misfits(made))
    BY <1>1, <2>1 DEF Keeps
  <2> HIDE DEF t
  <2>3. Head(t) \in Frame /\ Head(t) \notin Misfits(made)
    BY <1>1, <1>2, <2>2, PopFrame
  <2>4. Head(t) \in Neutral
    BY <1>2, <2>1, <2>3, FrameSets DEF NeutralPcs, Misfits
  <2>5. Keeps(Tail(t), t)
    BY <1>1, <1>2, <2>4, KeepsPop
  <2>6. Keeps(Tail(t), stack)
    BY <1>1, <2>5 DEF Keeps
  <2> QED
    BY <1>2, <2>6 DEF Unwound, t
<1>3. CASE ~(t # <<>> /\ Head(t).pc = "tail")
  BY <1>1, <1>3 DEF Unwound
<1> QED
  BY <1>2, <1>3

LEMMA EmptyPush ==
  ASSUME stack = <<>>
  PROVE  /\ Keeps(<<At("js")>>, stack) /\ Keeps(<<At("process")>>, stack)
         /\ Keeps(<<Callback>>, stack) /\ Keeps(<<Callback, At("tail")>>, stack)
<1> SUFFICES ASSUME NEW f \in Neutral, NEW g \in Neutral
             PROVE  Keeps(<<f>>, stack) /\ Keeps(<<f, g>>, stack)
  BY FrameKinds DEF NeutralPcs
<1> DEFINE e == <<>>
<1>2. f \in Frame /\ g \in Frame
  BY DEF Neutral
<1>3. <<f>> = <<f>> \o e /\ <<f, g>> = <<f>> \o (<<g>> \o e)
  BY <1>2, FewFrames
<1>4. e \in Seq(Frame)
  OBVIOUS
<1>5. stack = e
  OBVIOUS
<1> HIDE DEF e
<1>6. Keeps(<<f>> \o e, e) /\ Keeps(<<g>> \o e, e)
  BY <1>4, KeepsSame, KeepsPush
<1>7. Keeps(<<f>> \o (<<g>> \o e), e)
  BY <1>6, KeepsPush
<1> QED
  BY <1>3, <1>5, <1>6, <1>7

\* The calls of JavaScript that change the listeners.
ListenerCall ==
  \/ AddListener \/ RemoveListener \/ RemoveAllListeners \/ RemoveEverything
  \/ Off \/ PrependListener

LEMMA CallKinds ==
  ASSUME TypeOK, ~crashed, ListenerCall
  PROVE  /\ UNCHANGED <<life, busyClosed>>
         /\ Quietly \/ NewHook \/ EndHook
<1>1. UNCHANGED <<life, crashed, events, busyClosed>> /\ (Configure \/ NoConfigure)
  BY DEF ListenerCall, AddListener, RemoveListener, RemoveAllListeners, RemoveEverything, Off,
     PrependListener, Change
<1>2. CASE Configure
  BY <1>1, <1>2, ConfigureSteps DEF Quietly, NewHook, EndHook
<1>3. CASE NoConfigure
  <2>1. Keeps(stack, stack)
    BY CallbackStack, TypeParts DEF Contents
  <2> QED
    BY <1>1, <1>3, <2>1 DEF NoConfigure, Quietly, Still
<1> QED
  BY <1>1, <1>2, <1>3

\* The steps that change nothing but frames, and at most what waits.
Turning ==
  \/ ProcessReject \/ ProcessReturn \/ DeadCallback \/ TailCall \/ ProcessTurn
  \/ NewTurn \/ JsReturn \/ JsThrow \/ JsCatch

LEMMA TurningKind ==
  ASSUME TypeOK, Objects, Turning
  PROVE  Quietly
<1>1. CASE ProcessReject \/ ProcessReturn
  <2>1. stack # <<>> /\ Head(stack).pc = "process"
    BY <1>1 DEF ProcessReject, ProcessReturn, InPc
  <2>2. Keeps(Tail(stack), stack) /\ Keeps(<<Callback>> \o Tail(stack), stack)
    BY <2>1, NeutralTop, FrameKinds DEF NeutralPcs
  <2> QED
    BY <1>1, <2>2 DEF ProcessReject, ProcessReturn, Quietly, Still
<1>2. CASE DeadCallback \/ JsReturn \/ JsThrow
  <2>1. stack # <<>> /\ Head(stack).pc \in {"dead", "js"}
    BY <1>2 DEF DeadCallback, JsReturn, JsThrow, InPc
  <2>2. Keeps(Tail(stack), stack) /\ Keeps(Unwound, stack)
    BY <2>1, NeutralTop, UnwoundKeeps DEF NeutralPcs
  <2> QED
    BY <1>2, <2>2 DEF DeadCallback, JsReturn, JsThrow, Quietly, Still, rest
<1>5. CASE TailCall
  <2>1. stack # <<>> /\ Head(stack).pc = "tail"
    BY <1>5 DEF TailCall, InPc
  <2>2. Keeps(<<At("process")>> \o Tail(stack), stack)
    BY <2>1, NeutralTop, FrameKinds DEF NeutralPcs
  <2> QED
    BY <1>5, <2>2 DEF TailCall, Quietly, Still
<1>3. CASE ProcessTurn \/ NewTurn
  <2>1. stack = <<>>
    BY <1>3 DEF ProcessTurn, NewTurn
  <2>2. Keeps(<<At("js")>>, stack) /\ Keeps(<<At("process")>>, stack)
    BY <2>1, EmptyPush
  <2> QED
    BY <1>3, <2>2 DEF ProcessTurn, NewTurn, Quietly, Still, rest
<1>4. CASE JsCatch
  <2>1. Keeps(stack, stack)
    BY CallbackStack, TypeParts DEF Contents
  <2> QED
    BY <1>4, <2>1 DEF JsCatch, Quietly, Still, rest
<1> QED
  BY <1>1, <1>2, <1>3, <1>4, <1>5 DEF Turning

LEMMA ToggleKind ==
  ASSUME TypeOK, Objects, ProcessToggle
  PROVE  NewHook \/ EndHook
<1>1. /\ life = "open" /\ Toggle(stack) /\ UNCHANGED <<life, crashed, events, busyClosed>>
  BY DEF ProcessToggle, MayToggle
<1>2. Keeps(stack, stack)
  BY CallbackStack, TypeParts DEF Contents
<1>3. CASE HookOn(stack)
  BY <1>1, <1>2, <1>3 DEF NewHook, SwitchOn
<1>4. CASE HookOff(stack)
  BY <1>1, <1>2, <1>4 DEF EndHook, SwitchOff, HookOff
<1> QED
  BY <1>1, <1>3, <1>4 DEF Toggle

LEMMA BeginCloseKind ==
  ASSUME TypeOK, BeginClose
  PROVE  EndHook \/ (trace = 0 /\ Still)
<1>1. Keeps(stack, stack)
  BY CallbackStack, TypeParts DEF Contents
<1>2. CASE trace # 0 /\ Finish(stack)
  BY <1>1, <1>2 DEF BeginClose, EndHook, SwitchOff
<1>3. CASE trace = 0 /\ UNCHANGED <<async, stack, nested, twice>>
  BY <1>1, <1>3 DEF BeginClose, Still
<1> QED
  BY <1>2, <1>3 DEF BeginClose, RemoveCallbacks

LEMMA OpenKind ==
  ASSUME Open \/ AfterClose
  PROVE  stack = <<>> /\ Still
<1>1. stack = <<>>
  BY DEF Open, AfterClose
<1>2. /\ Keeps(<<Callback>>, stack) /\ Keeps(<<Callback, At("tail")>>, stack)
  BY <1>1, EmptyPush
<1>3. CASE Open
  BY <1>1, <1>2, <1>3 DEF Open, Still
<1>4. CASE AfterClose
  BY <1>1, <1>2, <1>4 DEF AfterClose, Still
<1> QED
  BY <1>3, <1>4

\* What Open and AfterClose do to the database, and BeginClose when there is no
\* object.
Opening == Still /\ stack = <<>> /\ life = "opening" /\ life' \in {"open", "failed"}
           /\ UNCHANGED <<hook, busyClosed>>

Reopening ==
  /\ Still /\ stack = <<>> /\ life = "closing"
  /\ \/ life' = "closed" /\ UNCHANGED busyClosed
     \/ life' = "open" /\ busyClosed' = (busyClosed \/ hook) /\ UNCHANGED hook

Leaving ==
  Still /\ life = "open" /\ life' = "closing" /\ trace = 0 /\ UNCHANGED <<hook, busyClosed>>

LEMMA StepKinds ==
  ASSUME TypeOK, Objects, ~crashed, Step
  PROVE  \/ Quietly \/ NewHook \/ EndHook \/ Opening \/ Reopening \/ Leaving
         \/ CloseWatcher \/ Report \/ Wake \/ Emit \/ ListenerReturn
<1>1. CASE ListenerCall
  BY <1>1, CallKinds
<1>2. CASE Turning
  BY <1>2, TurningKind
<1>3. CASE ProcessToggle
  BY <1>3, ToggleKind
<1>4. CASE BeginClose
  BY <1>4, BeginCloseKind DEF BeginClose, Leaving
<1>5. CASE Open
  BY <1>5, OpenKind DEF Open, Opening
<1>6. CASE AfterClose
  BY <1>6, OpenKind DEF AfterClose, Reopening
<1> QED
  BY <1>1, <1>2, <1>3, <1>4, <1>5, <1>6 DEF Step, Handler, ListenerCall, Turning

-----------------------------------------------------------------------------
\* The invariants, but for the types.

\* An object that some watcher closes twice stays so.
LEMMA DoomedStays ==
  ASSUME IInv, ~crashed, Step, ~crashed', Doomed
  PROVE  Doomed'
<1>0. TypeOK /\ Objects /\ Hooks /\ Account
  BY DEF IInv, Base, Live
<1>1. CASE Quietly \/ Opening \/ Reopening \/ Leaving
  BY <1>0, <1>1, StillFacts DEF Quietly, Opening, Reopening, Leaving
<1>2. CASE NewHook
  BY <1>0, <1>2, OnFacts DEF NewHook
<1>3. CASE EndHook
  BY <1>0, <1>3, OffFacts DEF EndHook
<1>4. CASE CloseWatcher
  BY <1>0, <1>4, CloseFacts
<1>5. CASE Report
  BY <1>5 DEF Report, Doomed
<1>6. CASE Wake
  BY <1>0, <1>6, WakeFacts
<1>7. CASE Emit
  BY <1>0, <1>7, EmitFacts
<1>8. CASE ListenerReturn
  BY <1>0, <1>8, ListenerReturnFacts
<1> QED
  BY <1>0, <1>1, <1>2, <1>3, <1>4, <1>5, <1>6, <1>7, <1>8, StepKinds

LEMMA ObjectsNext ==
  ASSUME IInv, ~crashed, Step
  PROVE  Objects' /\ InRow' /\ CrashHasCause' /\ (~crashed' => Account')
<1>0. TypeOK /\ Objects /\ Hooks /\ Account /\ InRow /\ CrashHasCause
  BY DEF IInv, Base, Live
<1>1. CASE Quietly \/ Opening \/ Reopening \/ Leaving
  <2>1. Still /\ crashed' = crashed
    BY <1>1 DEF Quietly, Opening, Reopening, Leaving, Still
  <2> QED
    BY <1>0, <2>1, StillFacts DEF CrashHasCause
<1>2. CASE NewHook
  BY <1>0, <1>2, OnFacts DEF NewHook, CrashHasCause
<1>3. CASE EndHook
  BY <1>0, <1>3, OffFacts DEF EndHook, CrashHasCause
<1>4. CASE CloseWatcher
  <2>1. twice' = twice
    BY <1>4 DEF CloseWatcher
  <2> QED
    BY <1>0, <1>4, <2>1, CloseFacts DEF CrashHasCause
<1>5. CASE Report
  <2>1. twice' = twice /\ busyClosed' = busyClosed
    BY <1>5 DEF Report
  <2> QED
    BY <1>0, <1>5, <2>1, ReportFacts DEF CrashHasCause
<1>6. CASE Wake
  <2>1. crashed' = crashed
    BY <1>6 DEF Wake
  <2> QED
    BY <1>0, <1>6, <2>1, WakeFacts DEF CrashHasCause
<1>7. CASE Emit
  <2>1. crashed' = crashed
    BY <1>7 DEF Emit
  <2> QED
    BY <1>0, <1>7, <2>1, EmitFacts DEF CrashHasCause
<1>8. CASE ListenerReturn
  <2>1. crashed' = crashed
    BY <1>8 DEF ListenerReturn
  <2> QED
    BY <1>0, <1>8, <2>1, ListenerReturnFacts DEF CrashHasCause
<1> QED
  BY <1>0, <1>1, <1>2, <1>3, <1>4, <1>5, <1>6, <1>7, <1>8, StepKinds

LEMMA HooksNext ==
  ASSUME IInv, ~crashed, Step, ~crashed'
  PROVE  Hooks'
<1>0. TypeOK /\ Objects /\ Hooks /\ Account
  BY DEF IInv, Base, Live
<1>1. CASE Quietly \/ Opening \/ Reopening \/ Leaving
  <2>1. /\ (Doomed' <=> Doomed) /\ (Ending' <=> Ending)
        /\ trace' = trace /\ data' = data /\ gone' = gone /\ nested' = nested /\ twice' = twice
        /\ ~Has(stack', Straying(gone \cup {trace}))
    <3>1. Still
      BY <1>1 DEF Quietly, Opening, Reopening, Leaving
    <3> QED
      BY <1>0, <3>1, StillFacts DEF Still, async, Hooks
  <2>2. stack = <<>> => ~Ending
    BY EmptyStack DEF Ending
  <2>3. CASE Quietly
    BY <1>0, <2>1, <2>3 DEF Quietly, Hooks
  <2>4. CASE Opening
    BY <1>0, <2>1, <2>2, <2>4 DEF Opening, Hooks
  <2>5. CASE Reopening
    <3>1. trace = 0 /\ ~Ending
      BY <1>0, <2>2, <2>5 DEF Reopening, Hooks
    <3>2. life' \in {"open", "closed"}
      BY <2>5 DEF Reopening
    <3>3. life' = "open" /\ ~busyClosed' => ~hook'
      BY <2>5 DEF Reopening
    <3> QED
      BY <1>0, <2>1, <3>1, <3>2, <3>3 DEF Hooks
  <2>6. CASE Leaving
    BY <1>0, <2>1, <2>6 DEF Leaving, Hooks
  <2> QED
    BY <1>1, <2>3, <2>4, <2>5, <2>6
<1>2. CASE NewHook
  <2>1. life' = "open"
    BY <1>2 DEF NewHook
  <2>2. made \in Nat
    BY <1>0, TypeParts DEF Numbers
  <2>3. /\ (Doomed' <=> Doomed) /\ ~Ending' /\ hook' = TRUE /\ trace' # 0 /\ data' = <<>>
        /\ nested' = nested /\ twice' = twice /\ ~Has(stack', Straying(gone' \cup {trace'}))
    BY <1>0, <1>2, <2>2, OnFacts DEF NewHook
  <2> QED
    BY <1>0, <2>1, <2>3 DEF Hooks
<1>3. CASE EndHook
  <2>1. life' \in {"open", "closing"}
    BY <1>3 DEF EndHook
  <2>2. /\ (Doomed' => twice') /\ (twice' => nested') /\ Ending' /\ trace' # 0 /\ data' = <<>>
        /\ ~Has(stack', Straying(gone' \cup {trace'}))
        /\ hook' = FALSE \/ life' = "closing"
    BY <1>0, <1>3, OffFacts DEF EndHook
  <2> QED
    BY <2>1, <2>2 DEF Hooks
<1>4. CASE CloseWatcher
  <2>1. UNCHANGED <<life, hook, data, busyClosed, nested, twice>>
    BY <1>4 DEF CloseWatcher
  <2>2. /\ Ending /\ ~Ending' /\ (Doomed' <=> Doomed) /\ trace' = 0
        /\ ~Has(stack', Straying(gone' \cup {trace'}))
    BY <1>0, <1>4, CloseFacts
  <2> QED
    BY <1>0, <2>1, <2>2 DEF Hooks
<1>5. CASE Report
  <2>1. UNCHANGED <<life, hook, trace, gone, stack, busyClosed, nested, twice>>
    BY <1>5 DEF Report
  <2>2. trace # 0 /\ ~Ending
    BY <1>0, <1>5, <2>1, ReportFacts
  <2>3. (Doomed' <=> Doomed) /\ (Ending' <=> Ending)
    BY <2>1 DEF Doomed, Ending
  <2> QED
    BY <1>0, <2>1, <2>2, <2>3 DEF Hooks
<1>6. CASE Wake
  <2>1. UNCHANGED <<life, hook, trace, busyClosed, nested, twice>>
    BY <1>6 DEF Wake
  <2>2. ~Ending /\ ~Ending' /\ ~Doomed /\ ~Doomed' /\ data' = <<>>
        /\ \A S : ~Has(stack', Straying(S))
    BY <1>0, <1>6, WakeFacts
  <2> QED
    BY <1>0, <2>1, <2>2 DEF Hooks
<1>7. CASE Emit \/ ListenerReturn
  <2>1. UNCHANGED <<life, hook, trace, data, gone, busyClosed, nested, twice>>
    BY <1>7 DEF Emit, ListenerReturn, async
  <2>2. (Doomed' <=> Doomed) /\ (Ending' <=> Ending)
        /\ \A S : Has(stack', Straying(S)) <=> Has(stack, Straying(S))
    BY <1>0, <1>7, EmitFacts, ListenerReturnFacts
  <2> QED
    BY <1>0, <2>1, <2>2 DEF Hooks
<1> QED
  BY <1>0, <1>1, <1>2, <1>3, <1>4, <1>5, <1>6, <1>7, StepKinds

-----------------------------------------------------------------------------
\* Parity.

LEMMA Parity ==
  ASSUME NEW m \in Nat, NEW n \in Nat
  PROVE  /\ n = m + 1 => (n % 2 = 1 <=> ~(m % 2 = 1))
         /\ n = m + 2 => (n % 2 = 1 <=> m % 2 = 1)
  OBVIOUS

\* A switch of the hook, of an object that no watcher closes twice, switches it.
LEMMA HookFlips ==
  ASSUME IInv, ~crashed, NewHook \/ (EndHook /\ life' = life), ~Doomed', ~busyClosed
  PROVE  hook' = ~hook
<1>0. TypeOK /\ Objects /\ Hooks /\ hook \in BOOLEAN
  BY TypeParts DEF IInv, Base, Live, Flags
<1>1. CASE NewHook
  <2>1. ~Doomed /\ life = "open" /\ ~Ending /\ trace = 0 /\ hook' = TRUE
    BY <1>0, <1>1, OnFacts DEF NewHook
  <2> QED
    BY <1>0, <2>1 DEF Hooks
<1>2. CASE EndHook /\ life' = life
  <2>1. ~Doomed /\ life = "open" /\ ~Ending /\ trace # 0 /\ hook' = FALSE
    BY <1>0, <1>2, OffFacts DEF EndHook
  <2> QED
    BY <1>0, <2>1 DEF Hooks
<1> QED
  BY <1>1, <1>2

Balanced == hook <=> (listeners + waiting) % 2 = 1

Covered == life \in {"opening", "open", "closing"} /\ paired /\ ~busyClosed /\ ~Doomed

\* A call adds a listener to none or removes the only one; it is done, or waits.
LEMMA OddSum ==
  ASSUME NEW l \in Nat, NEW w \in Nat, NEW k \in Nat, NEW v \in Nat
  PROVE  /\ l + k = 1 /\ v = w + 1 => ((k + v) % 2 = 1 <=> (l + w) % 2 = 1)
         /\ l + k = 1 /\ v = w => ((k + v) % 2 = 1 <=> ~((l + w) % 2 = 1))
         /\ l = k /\ v = w - 1 => ((k + v) % 2 = 1 <=> ~((l + w) % 2 = 1))
<1> DEFINE m == l + w
           n == k + v
<1>1. /\ m \in Nat /\ n \in Nat
      /\ l + k = 1 /\ v = w + 1 => n = m \/ n = m + 2
      /\ l + k = 1 /\ v = w => n = m + 1 \/ m = n + 1
      /\ l = k /\ v = w - 1 => m = n + 1
  OBVIOUS
<1>2. /\ l + k = 1 /\ v = w + 1 => (n % 2 = 1 <=> m % 2 = 1)
      /\ l + k = 1 /\ v = w => (n % 2 = 1 <=> ~(m % 2 = 1))
      /\ l = k /\ v = w - 1 => (n % 2 = 1 <=> ~(m % 2 = 1))
  <2> HIDE DEF m, n
  <2> QED
    BY <1>1, Parity
<1> QED
  BY <1>2

LEMMA ConfigureBalances ==
  ASSUME IInv, ~crashed, Step, ~crashed', Configure,
         UNCHANGED <<life, crashed, events, busyClosed>>, paired, Covered',
         listeners' \in Nat, listeners + listeners' = 1
  PROVE  Balanced'
<1>0. TypeOK /\ hook \in BOOLEAN /\ Switches
  BY TypeParts DEF IInv, Base, Live, Flags
<1>1. ~busyClosed /\ ~Doomed' /\ ~Doomed /\ life \in {"opening", "open", "closing"}
  BY DoomedStays DEF Covered
<1>2. Balanced
  BY <1>0, <1>1 DEF Switches, Balanced
<1>3. listeners \in Nat /\ waiting \in Nat
  BY <1>0, TypeParts DEF Numbers
<1> DEFINE l == listeners
           w == waiting
           k == listeners'
           v == waiting'
<1>7. l \in Nat /\ w \in Nat /\ k \in Nat /\ l + k = 1
  BY <1>3
<1>4. \/ hook' = hook /\ waiting' = waiting + 1
      \/ (NewHook \/ (EndHook /\ life' = life)) /\ waiting' = waiting
  BY <1>0, <1>1, ConfigureSteps DEF NewHook, EndHook
<1>5. CASE hook' = hook /\ waiting' = waiting + 1
  <2>1. waiting' = waiting + 1 /\ hook' = hook
    BY <1>5
  <2>2. waiting' \in Nat
    BY <1>3, <2>1
  <2>3. (listeners' + waiting') % 2 = 1 <=> (listeners + waiting) % 2 = 1
    <3>1. v \in Nat /\ v = w + 1
      BY <2>1, <2>2
    <3> HIDE DEF l, w, k, v
    <3>2. (k + v) % 2 = 1 <=> (l + w) % 2 = 1
      BY <1>7, <3>1, OddSum
    <3> QED
      BY <3>2 DEF l, w, k, v
  <2> QED
    BY <1>2, <2>1, <2>3 DEF Balanced
<1>6. CASE (NewHook \/ (EndHook /\ life' = life)) /\ waiting' = waiting
  <2>1. waiting' = waiting /\ hook' = ~hook
    BY <1>1, <1>6, HookFlips
  <2>2. waiting' \in Nat
    BY <1>3, <2>1
  <2>3. (listeners' + waiting') % 2 = 1 <=> ~((listeners + waiting) % 2 = 1)
    <3>1. v \in Nat /\ v = w
      BY <2>1, <2>2
    <3> HIDE DEF l, w, k, v
    <3>2. (k + v) % 2 = 1 <=> ~((l + w) % 2 = 1)
      BY <1>7, <3>1, OddSum
    <3> QED
      BY <3>2 DEF l, w, k, v
  <2> QED
    BY <1>0, <1>2, <2>1, <2>3 DEF Balanced
<1> QED
  BY <1>4, <1>5, <1>6

LEMMA SwitchesNext ==
  ASSUME IInv, ~crashed, Step, ~crashed'
  PROVE  Switches'
<1>0. /\ TypeOK /\ listeners \in Nat /\ waiting \in Nat /\ hook \in BOOLEAN /\ Switches
      /\ paired \in BOOLEAN
  BY TypeParts DEF IInv, Base, Live, Flags, Numbers
<1>1. (paired => listeners \in {0, 1}) /\ (Covered => Balanced)
  BY <1>0 DEF Switches, Covered, Balanced
<1> SUFFICES (paired' => listeners' \in {0, 1}) /\ (Covered' => Balanced')
  BY DEF Switches, Covered, Balanced
<1>2. CASE AddListener
  <2>1. /\ listeners' = listeners + 1 /\ (paired' => paired /\ listeners = 0) /\ Configure
        /\ UNCHANGED <<life, crashed, events, busyClosed>>
    BY <1>0, <1>2 DEF AddListener, Change
  <2>2. Covered' => paired'
    BY DEF Covered
  <2> QED
    BY <1>0, <2>1, <2>2, ConfigureBalances
<1>3. CASE RemoveListener \/ RemoveAllListeners
  <2>1. /\ UNCHANGED <<life, crashed, events, busyClosed>>
        /\ paired' = (paired /\ listeners # 0)
    BY <1>3 DEF RemoveListener, RemoveAllListeners, Change
  <2>2. paired' => paired /\ listeners = 1
    BY <1>0, <1>1, <2>1
  <2>3. listeners = 1 => listeners' = 0 /\ Configure
    <3>1. CASE RemoveListener
      BY <3>1 DEF RemoveListener, Change
    <3>2. CASE RemoveAllListeners
      BY <3>2 DEF RemoveAllListeners, Change
    <3> QED
      BY <1>3, <3>1, <3>2
  <2>4. Covered' => paired'
    BY DEF Covered
  <2>5. listeners = 1 /\ listeners' = 0 => listeners' \in Nat /\ listeners + listeners' = 1
    OBVIOUS
  <2> QED
    BY <2>1, <2>2, <2>3, <2>4, <2>5, ConfigureBalances
<1>4. CASE ProcessToggle
  <2>1. /\ waiting > 0 /\ waiting' = waiting - 1
        /\ UNCHANGED <<life, listeners, busyClosed, paired>>
    BY <1>4 DEF ProcessToggle, MayToggle
  <2>2. NewHook \/ (EndHook /\ life' = life)
    BY <1>0, <1>4, <2>1, ToggleKind DEF IInv, Base
  <2>3. ASSUME Covered'
        PROVE  Balanced'
    <3>1. Covered /\ ~Doomed' /\ ~busyClosed
      BY <2>1, <2>3, DoomedStays DEF Covered
    <3>2. hook' = ~hook
      BY <2>2, <3>1, HookFlips
    <3>3. waiting' \in Nat
      BY <1>0, <2>1
    <3>4. (listeners' + waiting') % 2 = 1 <=> ~((listeners + waiting) % 2 = 1)
      BY <1>0, <2>1, <3>3, OddSum
    <3> QED
      BY <1>0, <1>1, <3>1, <3>2, <3>4 DEF Balanced
  <2> QED
    BY <1>1, <2>1, <2>3
<1>5. ASSUME /\ paired' => paired /\ listeners' = listeners
             /\ waiting' = waiting
             /\ life' \in {"opening", "open", "closing"} =>
                  /\ hook' = hook
                  /\ life \in {"opening", "open", "closing"}
                  /\ busyClosed => busyClosed'
      PROVE  (paired' => listeners' \in {0, 1}) /\ (Covered' => Balanced')
  <2>1. /\ waiting' = waiting /\ (paired' => paired)
        /\ life' \in {"opening", "open", "closing"} =>
             /\ hook' = hook
             /\ life \in {"opening", "open", "closing"}
             /\ busyClosed => busyClosed'
    BY <1>0, <1>5
  <2>2. paired' => listeners' = listeners
    BY <1>0, <1>5
  <2>3. Covered' => Covered
    BY <2>1, DoomedStays DEF Covered
  <2>4. Covered' => paired' /\ life' \in {"opening", "open", "closing"}
    BY DEF Covered
  <2> QED
    BY <1>1, <2>1, <2>2, <2>3, <2>4 DEF Balanced
<1>9. CASE RemoveEverything \/ Off \/ PrependListener
  <2>1. /\ paired' => paired /\ listeners = 0 /\ listeners' = 0
        /\ UNCHANGED <<waiting, life, hook, busyClosed>>
    BY <1>0, <1>9 DEF RemoveEverything, Off, PrependListener, Change, NoConfigure
  <2> QED
    BY <1>5, <2>1
<1>6. CASE ProcessReject
  BY <1>1, <1>6 DEF ProcessReject, Covered
<1>7. CASE CloseWatcher \/ ProcessReturn \/ Emit \/ ListenerReturn \/ DeadCallback \/ TailCall
           \/ Report \/ Wake \/ ProcessTurn \/ NewTurn \/ JsReturn \/ JsThrow \/ JsCatch
  <2>1. UNCHANGED <<listeners, paired, waiting, hook, life, busyClosed>>
    BY <1>7 DEF CloseWatcher, ProcessReturn, Emit, ListenerReturn, DeadCallback, TailCall, Report,
       Wake, ProcessTurn, NewTurn, JsReturn, JsThrow, JsCatch, rest
  <2> QED
    BY <1>5, <2>1
<1>8. CASE Open \/ BeginClose \/ AfterClose
  <2>1. /\ UNCHANGED <<listeners, paired, waiting>>
        /\ life' \in {"opening", "open", "closing"} =>
             hook' = hook /\ life \in {"opening", "open", "closing"}
    BY <1>8 DEF Open, BeginClose, AfterClose
  <2>2. busyClosed => busyClosed'
    BY <1>8 DEF Open, BeginClose, AfterClose
  <2> QED
    BY <1>5, <2>1, <2>2
<1> QED
  BY <1>2, <1>3, <1>4, <1>6, <1>7, <1>8, <1>9 DEF Step, Handler

-----------------------------------------------------------------------------
\* The types.

\* Those of the object, the events and the stack.
CarrierTypes ==
  /\ trace \in Nat /\ made \in Nat /\ sent \in Nat
  /\ data \in Seq(1..MaxEvents) /\ heard \in Seq(1..MaxEvents) /\ missed \subseteq 1..MaxEvents
  /\ signal \in BOOLEAN /\ nested \in BOOLEAN /\ twice \in BOOLEAN /\ crashed \in BOOLEAN
  /\ stack \in Seq(Frame)

LEMMA CarrierNext ==
  ASSUME TypeOK, Objects, Step, ~crashed
  PROVE  CarrierTypes'
<1>0. CarrierTypes /\ MaxEvents \in Nat
  BY TypeParts, EventBounds DEF Numbers, Flags, Contents, CarrierTypes
<1>1. ASSUME Still
      PROVE  CarrierTypes'
  <2>1. stack' \in Seq(Frame)
    BY <1>1 DEF Still, Keeps
  <2>2. UNCHANGED <<trace, made, sent, data, heard, missed, signal, nested, twice, crashed>>
    BY <1>1 DEF Still, async, events
  <2> QED
    BY <1>0, <2>1, <2>2 DEF CarrierTypes
<1>2. ASSUME SwitchOn
      PROVE  CarrierTypes'
  <2>1. PICK below : Keeps(below, stack) /\ HookOn(below) /\ UNCHANGED <<crashed, events>>
    BY <1>2 DEF SwitchOn
  <2>2. /\ trace' = made + 1 /\ made' = made + 1 /\ data' = <<>> /\ signal' = FALSE
        /\ stack' = below /\ UNCHANGED <<nested, twice, crashed, sent, heard, missed>>
    BY <2>1 DEF HookOn, events
  <2>3. below \in Seq(Frame)
    BY <2>1 DEF Keeps
  <2>4. <<>> \in Seq(1..MaxEvents)
    OBVIOUS
  <2>5. trace' \in Nat /\ made' \in Nat
    BY <1>0, <2>2 DEF CarrierTypes
  <2>6. /\ data' \in Seq(1..MaxEvents) /\ heard' \in Seq(1..MaxEvents)
        /\ missed' \subseteq 1..MaxEvents /\ sent' \in Nat /\ stack' \in Seq(Frame)
    BY <1>0, <2>2, <2>3, <2>4 DEF CarrierTypes
  <2>7. signal' \in BOOLEAN /\ nested' \in BOOLEAN /\ twice' \in BOOLEAN /\ crashed' \in BOOLEAN
    BY <1>0, <2>2 DEF CarrierTypes
  <2> QED
    BY <2>5, <2>6, <2>7 DEF CarrierTypes
<1>3. ASSUME SwitchOff
      PROVE  CarrierTypes'
  <2>1. stack' \in Seq(Frame)
    BY <1>3, OffStack
  <2>2. /\ data' = <<>> /\ UNCHANGED <<trace, made, signal, sent, heard, missed, crashed>>
        /\ nested' \in BOOLEAN /\ twice' \in BOOLEAN
    BY <1>0, <1>3 DEF SwitchOff, Finish, Overlap, events, CarrierTypes
  <2>3. <<>> \in Seq(1..MaxEvents)
    OBVIOUS
  <2> QED
    BY <1>0, <2>1, <2>2, <2>3 DEF CarrierTypes
<1>4. CASE CloseWatcher
  <2>1. /\ trace' = 0 /\ signal' = FALSE /\ stack' = Tail(stack) /\ stack # <<>>
        /\ crashed' = (Head(stack).of \in gone)
        /\ UNCHANGED <<made, data, sent, heard, missed, nested, twice>>
    BY <1>4 DEF CloseWatcher, InPc, events
  <2>2. Tail(stack) \in Seq(Frame)
    BY <1>0, <2>1, PopFrame DEF CarrierTypes
  <2>3. crashed' \in BOOLEAN
    BY <2>1
  <2> QED
    BY <1>0, <2>1, <2>2, <2>3 DEF CarrierTypes
<1>5. CASE Report
  <2>1. /\ sent' = sent + 1 /\ crashed' = (trace = 0) /\ signal' = (trace # 0) /\ sent < MaxEvents
        /\ data' = IF trace = 0 THEN data ELSE Append(data, sent + 1)
        /\ UNCHANGED <<trace, made, stack, heard, missed, nested, twice>>
    BY <1>5 DEF Report
  <2>2. sent \in Nat /\ sent + 1 \in 1..MaxEvents /\ sent' \in Nat
    BY <1>0, <2>1 DEF CarrierTypes
  <2>3. Append(data, sent + 1) \in Seq(1..MaxEvents)
    BY <1>0, <2>2, AppendHas DEF CarrierTypes
  <2>4. crashed' \in BOOLEAN /\ signal' \in BOOLEAN
    BY <2>1
  <2>5. data' \in Seq(1..MaxEvents)
    BY <1>0, <2>1, <2>3 DEF CarrierTypes
  <2> QED
    BY <1>0, <2>1, <2>2, <2>4, <2>5 DEF CarrierTypes
<1>6. CASE Wake
  <2>1. /\ signal' = FALSE /\ data' = <<>> /\ stack' = <<Listener(data)>>
        /\ UNCHANGED <<trace, made, crashed, sent, heard, missed, nested, twice>>
    BY <1>6 DEF Wake, Swap, events
  <2>2. Listener(data) \in Frame
    BY <1>0, FrameKinds DEF CarrierTypes
  <2>3. stack' \in Seq(Frame)
    <3> DEFINE l == Listener(data)
    <3>1. stack' = <<l>> /\ l \in Frame
      BY <2>1, <2>2
    <3> HIDE DEF l
    <3> QED
      BY <3>1
  <2>4. <<>> \in Seq(1..MaxEvents)
    OBVIOUS
  <2> QED
    BY <1>0, <2>1, <2>3, <2>4 DEF CarrierTypes
<1>7. CASE Emit
  <2>1. stack' \in Seq(Frame) /\ Head(Head(stack).items) \in 1..MaxEvents
    BY <1>7, EmitStack
  <2> DEFINE x == Head(Head(stack).items)
  <2>2. /\ UNCHANGED <<trace, made, sent, data, signal, nested, twice, crashed>>
        /\ \/ heard' = Append(heard, x) /\ missed' = missed
           \/ heard' = heard /\ missed' = missed \cup {x}
    BY <1>7 DEF Emit, async
  <2>3. x \in 1..MaxEvents
    BY <2>1
  <2> HIDE DEF x
  <2>4. Append(heard, x) \in Seq(1..MaxEvents)
    BY <1>0, <2>3, AppendHas DEF CarrierTypes
  <2>5. heard' \in Seq(1..MaxEvents) /\ missed' \subseteq 1..MaxEvents
    BY <1>0, <2>2, <2>3, <2>4 DEF CarrierTypes
  <2> QED
    BY <1>0, <2>1, <2>2, <2>5 DEF CarrierTypes
<1>8. CASE ListenerReturn
  <2>1. /\ stack' = Tail(stack) /\ stack # <<>>
        /\ UNCHANGED <<trace, made, sent, data, heard, missed, signal, nested, twice, crashed>>
    BY <1>8 DEF ListenerReturn, InPc, async, events
  <2>2. Tail(stack) \in Seq(Frame)
    BY <1>0, <2>1, PopFrame DEF CarrierTypes
  <2> QED
    BY <1>0, <2>1, <2>2 DEF CarrierTypes
<1> QED
  BY <1>1, <1>2, <1>3, <1>4, <1>5, <1>6, <1>7, <1>8, StepKinds
     DEF Quietly, NewHook, EndHook, Opening, Reopening, Leaving

\* Those of the listeners and of the database.
CallTypes ==
  /\ life \in {"opening", "open", "failed", "closing", "closed"}
  /\ listeners \in Nat /\ waiting \in Nat /\ ops \in Nat /\ closes \in Nat
  /\ hook \in BOOLEAN /\ raised \in BOOLEAN /\ busyClosed \in BOOLEAN /\ paired \in BOOLEAN

LEMMA CallNext ==
  ASSUME TypeOK, Step
  PROVE  CallTypes'
<1>0. CallTypes
  BY TypeParts DEF Numbers, Flags, Contents, CallTypes
<1>1. CASE ListenerCall
  <2>1. /\ ops' = ops + 1 /\ UNCHANGED <<life, raised, closes, busyClosed>>
        /\ listeners' \in {0, listeners + 1, IF listeners = 0 THEN 0 ELSE listeners - 1}
        /\ \/ paired' = (paired /\ listeners = 0)
           \/ paired' = (paired /\ listeners # 0)
           \/ paired' = FALSE
        /\ Configure \/ NoConfigure
    BY <1>1 DEF ListenerCall, AddListener, RemoveListener, RemoveAllListeners, RemoveEverything,
       Off, PrependListener, Change
  <2>2. waiting' \in {waiting, waiting + 1} /\ hook' \in {TRUE, FALSE, hook}
    BY <2>1 DEF Configure, NoConfigure, Toggle, HookOn, HookOff
  <2>3. ops' \in Nat /\ listeners' \in Nat
    BY <1>0, <2>1 DEF CallTypes
  <2>4. waiting' \in Nat
    BY <1>0, <2>2 DEF CallTypes
  <2>5. hook' \in BOOLEAN /\ paired' \in BOOLEAN
    BY <1>0, <2>1, <2>2 DEF CallTypes
  <2> QED
    BY <1>0, <2>1, <2>3, <2>4, <2>5 DEF CallTypes
<1>2. CASE ProcessToggle
  <2>1. /\ waiting > 0 /\ waiting' = waiting - 1 /\ hook' \in BOOLEAN
        /\ UNCHANGED <<life, listeners, raised, ops, closes, busyClosed, paired>>
    BY <1>2 DEF ProcessToggle, MayToggle, Toggle, HookOn, HookOff, counts
  <2>2. waiting' \in Nat
    BY <1>0, <2>1 DEF CallTypes
  <2> QED
    BY <1>0, <2>1, <2>2 DEF CallTypes
<1>3. CASE Open \/ AfterClose
  <2>1. /\ life' \in {"open", "failed", "closed"} /\ hook' \in {FALSE, hook}
        /\ busyClosed' = busyClosed \/ busyClosed' = (busyClosed \/ hook)
        /\ UNCHANGED <<listeners, waiting, raised, ops, closes, paired>>
    BY <1>3 DEF Open, AfterClose, counts
  <2>2. hook' \in BOOLEAN /\ busyClosed' \in BOOLEAN
    BY <1>0, <2>1 DEF CallTypes
  <2> QED
    BY <1>0, <2>1, <2>2 DEF CallTypes
<1>4. CASE BeginClose
  <2>1. /\ life' = "closing" /\ closes' = closes + 1
        /\ UNCHANGED <<listeners, waiting, hook, raised, ops, busyClosed, paired>>
    BY <1>4 DEF BeginClose
  <2>2. closes' \in Nat
    BY <1>0, <2>1 DEF CallTypes
  <2> QED
    BY <1>0, <2>1, <2>2 DEF CallTypes
<1>5. CASE Turning \/ CloseWatcher \/ Emit \/ ListenerReturn \/ Report \/ Wake
  <2>1. /\ UNCHANGED <<life, listeners, hook, ops, closes, busyClosed, paired>>
        /\ waiting' \in {0, waiting} /\ raised' \in {TRUE, FALSE, raised}
    BY <1>5 DEF Turning, CloseWatcher, Emit, ListenerReturn, Report, Wake, ProcessReject,
       ProcessReturn, DeadCallback, TailCall, ProcessTurn, NewTurn, JsReturn, JsThrow, JsCatch, rest, counts
  <2>2. waiting' \in Nat
    BY <1>0, <2>1 DEF CallTypes
  <2>3. raised' \in BOOLEAN
    BY <1>0, <2>1 DEF CallTypes
  <2> QED
    BY <1>0, <2>1, <2>2, <2>3 DEF CallTypes
<1> QED
  BY <1>1, <1>2, <1>3, <1>4, <1>5 DEF Step, Handler, ListenerCall, Turning

-----------------------------------------------------------------------------
\* The invariant.

LEMMA InitInvariant ==
  ASSUME Init
  PROVE  IInv
<1> DEFINE f == At("js")
           e == <<>>
<1>1. f \in Neutral /\ f \in Frame /\ stack = <<f>>
  BY FrameKinds DEF Init, Neutral, NeutralPcs
<1> HIDE DEF f
<1>2. /\ <<f>> \in Seq(Frame) /\ \A P : ~Has(e, P) /\ Alone(e, P) /\ e \in Seq(Frame)
      /\ <<f>> = <<f>> \o e
  BY <1>1, EmptyStack, FewFrames
<1> HIDE DEF e
<1>3. \A P : P \cap Neutral = {} => ~Has(stack, P) /\ Alone(stack, P)
  <2>1. /\ \A P : Has(<<f>> \o e, P) <=> f \in P \/ Has(e, P)
        /\ \A P : Alone(<<f>> \o e, P) <=> Alone(e, P) /\ ~(f \in P /\ Has(e, P))
    BY <1>1, <1>2, PushFrame
  <2>2. stack = <<f>> \o e
    BY <1>1, <1>2
  <2> QED
    BY <1>1, <1>2, <2>1, <2>2
<1>4. /\ \A S : ~Has(stack, Closing(S)) /\ ~Has(stack, Straying(S)) /\ Alone(stack, Closing(S))
      /\ \A x : ~Has(stack, Carrying(x))
      /\ \A h, d : ~Has(stack, Unruly(h, d))
      /\ \A m : ~Has(stack, Misfits(m))
      /\ Alone(stack, Listening)
  BY <1>3, NeutralApart
<1>5. stack \in Seq(Frame)
  BY <1>1, <1>2
<1>6. /\ life = "opening" /\ listeners = 0 /\ waiting = 0 /\ hook = FALSE /\ trace = 0
      /\ data = <<>> /\ signal = FALSE /\ gone = {} /\ made = 0 /\ crashed = FALSE
      /\ raised = FALSE /\ sent = 0 /\ heard = <<>> /\ missed = {} /\ ops = 0 /\ closes = 0
      /\ busyClosed = FALSE /\ nested = FALSE /\ twice = FALSE /\ paired = TRUE
  BY DEF Init
<1>7. TypeOK
  <2>1. <<>> \in Seq(1..MaxEvents)
    OBVIOUS
  <2> QED
    BY <1>5, <1>6, <2>1, TypeParts DEF Numbers, Flags, Contents
<1>8. MaxEvents \in Nat
  BY EventBounds
<1>9. Objects
  BY <1>4, <1>6, <1>8 DEF Objects
<1>10. ~Doomed /\ ~Ending
  BY <1>4 DEF Doomed, Ending
<1>11. Hooks
  BY <1>4, <1>6, <1>10 DEF Hooks
<1>12. Account
  <2>1. \A x : ~Has(<<>>, {x})
    BY EmptyStack
  <2>2. \A x \in 1..MaxEvents : ~(x <= 0)
    BY <1>8
  <2> QED
    BY <1>4, <1>6, <2>1, <2>2 DEF Account, Accounted
<1>13. Switches
  <2>1. ~((0 + 0) % 2 = 1)
    OBVIOUS
  <2> QED
    BY <1>6, <2>1 DEF Switches
<1>14. InRow
  <2>1. Rising(<<>>) /\ Ahead(<<>>, <<>>)
    BY DEF Rising, Ahead
  <2> QED
    BY <1>4, <1>6, <2>1 DEF InRow
<1> QED
  BY <1>6, <1>7, <1>9, <1>11, <1>12, <1>13, <1>14 DEF IInv, Base, Live, CrashHasCause

LEMMA StepInvariant ==
  ASSUME IInv, Next
  PROVE  IInv'
<1>1. ~crashed /\ Step /\ TypeOK /\ Objects
  BY DEF Next, IInv, Base
<1>2. Objects' /\ InRow' /\ CrashHasCause' /\ (~crashed' => Account')
  BY <1>1, ObjectsNext
<1>3. TypeOK'
  <2>1. CarrierTypes' /\ CallTypes'
    BY <1>1, CarrierNext, CallNext
  <2>2. gone' \subseteq 1..made'
    BY <1>2 DEF Objects
  <2> QED
    BY <2>1, <2>2, TypePartsNext DEF Numbers, Flags, Contents, CarrierTypes, CallTypes
<1>4. ~crashed' => Hooks' /\ Switches'
  BY <1>1, HooksNext, SwitchesNext
<1> QED
  BY <1>2, <1>3, <1>4 DEF IInv, Base, Live

LEMMA StutterInvariant ==
  ASSUME IInv, UNCHANGED vars
  PROVE  IInv'
<1>1. /\ UNCHANGED <<life, listeners, waiting, hook, trace, data, signal, gone, made>>
      /\ UNCHANGED <<crashed, stack, raised, sent, heard, missed, ops, closes>>
      /\ UNCHANGED <<busyClosed, nested, twice, paired>>
  BY DEF vars, async, events, counts
<1>2. TypeOK' <=> TypeOK
  BY <1>1 DEF TypeOK
<1>3. (Objects' <=> Objects) /\ (CrashHasCause' <=> CrashHasCause) /\ (InRow' <=> InRow)
  BY <1>1 DEF Objects, CrashHasCause, InRow
<1>4. (Doomed' <=> Doomed) /\ (Ending' <=> Ending)
  BY <1>1 DEF Doomed, Ending
<1>5. Hooks' <=> Hooks
  BY <1>1, <1>4 DEF Hooks
<1>6. Account' <=> Account
  BY <1>1 DEF Account, Accounted
<1>7. Switches' <=> Switches
  BY <1>1, <1>4 DEF Switches
<1> QED
  BY <1>1, <1>2, <1>3, <1>5, <1>6, <1>7 DEF IInv, Base, Live

\* The invariant that carries the four theorems below.
THEOREM EventInvariant == Spec => []IInv
<1>1. Init => IInv
  BY InitInvariant
<1>2. IInv /\ [Next]_vars => IInv'
  BY StepInvariant, StutterInvariant
<1> QED
  BY <1>1, <1>2, PTL DEF Spec

\* Every variable has its type.
THEOREM EventTypes == Spec => []TypeOK
<1>1. IInv => TypeOK
  BY DEF IInv, Base
<1> QED
  BY <1>1, EventInvariant, PTL

\* The process is aborted only after a close that failed with the hook still
\* registered, or when a listener that finish() called switched the hook.
THEOREM EventCrashes == Spec => []CrashHasCause
<1>1. IInv => CrashHasCause
  BY DEF IInv, Base
<1> QED
  BY <1>1, EventInvariant, PTL

\* Whatever waited, a program with one listener at a time ends with the hook
\* registered exactly while it listens.
THEOREM EventHook == Spec => []HookMatchesListener
<1>1. IInv => HookMatchesListener
  <2> SUFFICES ASSUME IInv, Calm, paired, ~busyClosed
               PROVE  hook <=> listeners = 1
    BY DEF HookMatchesListener
  <2>1. ~crashed /\ life = "open" /\ waiting = 0 /\ stack = <<>>
    BY DEF Calm
  <2>2. \A P : ~Has(stack, P) /\ Alone(stack, P)
    BY <2>1, EmptyStack
  <2>3. ~Doomed
    BY <2>2 DEF Doomed
  <2>4. Switches
    BY <2>1 DEF IInv, Live
  <2>5. listeners \in {0, 1} /\ (hook <=> (listeners + 0) % 2 = 1)
    BY <2>1, <2>3, <2>4 DEF Switches
  <2>6. (0 + 0) % 2 = 0 /\ (1 + 0) % 2 = 1
    OBVIOUS
  <2> QED
    BY <2>5, <2>6
<1> QED
  BY <1>1, EventInvariant, PTL

\* What is on its way, in terms of the invariants.
LEMMA OnTheWayHas ==
  ASSUME TypeOK
  PROVE  /\ \A x : x \in OnTheWay <=> Has(data, {x}) \/ Has(stack, Carrying(x))
         /\ \A x : x \in {heard[i] : i \in 1..Len(heard)} <=> Has(heard, {x})
<1> DEFINE Held(k) == {stack[k].items[i] : i \in 1..Len(stack[k].items)}
           Passing == UNION {Held(k) : k \in 1..Len(stack)}
<1>1. \A k \in 1..Len(stack) : stack[k] \in Frame
  BY ElementOfSeq, TypeParts DEF Contents
<1>2. \A x, k : x \in Held(k) <=> Has(stack[k].items, {x})
  BY DEF Has
<1>3. \A x : x \in Passing <=> \E k \in 1..Len(stack) : x \in Held(k)
  <2> HIDE DEF Held
  <2> QED
    OBVIOUS
<1>4. \A x : x \in Passing <=> Has(stack, Carrying(x))
  <2> HIDE DEF Held, Passing
  <2>1. \A x : Has(stack, Carrying(x)) <=>
          \E k \in 1..Len(stack) : stack[k] \in Frame /\ Has(stack[k].items, {x})
    BY DEF Has, Carrying
  <2> QED
    BY <1>1, <1>2, <1>3, <2>1
<1>5. \A x : x \in {data[i] : i \in 1..Len(data)} <=> Has(data, {x})
  BY DEF Has
<1>6. OnTheWay = {data[i] : i \in 1..Len(data)} \cup Passing
  BY DEF OnTheWay
<1>7. \A x : x \in OnTheWay <=> Has(data, {x}) \/ Has(stack, Carrying(x))
  <2> HIDE DEF Passing
  <2> QED
    BY <1>4, <1>5, <1>6
<1>8. \A x : x \in {heard[i] : i \in 1..Len(heard)} <=> Has(heard, {x})
  BY DEF Has
<1> QED
  BY <1>7, <1>8

\* Every event reported was heard, found no listener or is on its way, and those
\* heard are in the order of the statements unless finish() was nested.
THEOREM EventsKept == Spec => []NothingLost
<1>1. IInv => NothingLost
  <2> SUFFICES ASSUME IInv
               PROVE  NothingLost
    OBVIOUS
  <2>1. TypeOK /\ Objects /\ InRow
    BY DEF IInv, Base
  <2>2. /\ sent \in Nat /\ MaxEvents \in Nat /\ sent <= MaxEvents
        /\ heard \in Seq(1..MaxEvents) /\ data \in Seq(1..MaxEvents)
        /\ missed \subseteq 1..MaxEvents /\ stack \in Seq(Frame)
    BY <2>1, TypeParts, EventBounds DEF Numbers, Contents, Objects
  <2>3. ASSUME ~crashed
        PROVE  1..sent = {heard[i] : i \in 1..Len(heard)} \cup missed \cup OnTheWay
    <3> DEFINE H == {heard[i] : i \in 1..Len(heard)}
    <3>1. /\ \A x : x \in OnTheWay <=> Has(data, {x}) \/ Has(stack, Carrying(x))
          /\ \A x : x \in H <=> Has(heard, {x})
      BY <2>1, OnTheWayHas
    <3> HIDE DEF H
    <3>2. \A x : x \in H \cup missed \cup OnTheWay <=> Accounted(x)
      BY <3>1 DEF Accounted
    <3>3. \A x : Accounted(x) => x \in 1..MaxEvents
      <4>1. \A x : Has(heard, {x}) \/ Has(data, {x}) => x \in 1..MaxEvents
        BY <2>2, ElementHas
      <4>2. ASSUME NEW x, Has(stack, Carrying(x))
            PROVE  x \in 1..MaxEvents
        <5>1. PICK k \in 1..Len(stack) : stack[k] \in Carrying(x)
          BY <4>2 DEF Has
        <5>2. stack[k] \in Frame /\ Has(stack[k].items, {x})
          BY <5>1 DEF Carrying
        <5>3. stack[k].items \in Seq(1..MaxEvents)
          BY <5>2, FrameSets
        <5> QED
          BY <5>2, <5>3, ElementHas
      <4> QED
        BY <2>2, <4>1, <4>2 DEF Accounted
    <3>4. \A x \in 1..MaxEvents : x <= sent <=> Accounted(x)
      BY <2>3 DEF IInv, Live, Account
    <3>5. \A x : x \in 1..sent <=> x \in 1..MaxEvents /\ x <= sent
      BY <2>2
    <3>6. 1..sent = H \cup missed \cup OnTheWay
      BY <3>2, <3>3, <3>4, <3>5
    <3> QED
      BY <3>6 DEF H
  <2>4. ~nested => \A i, j \in 1..Len(heard) : i < j => heard[i] < heard[j]
    BY <2>1 DEF InRow, Rising
  <2> QED
    BY <2>3, <2>4 DEF NothingLost
<1> QED
  BY <1>1, EventInvariant, PTL
=============================================================================
