-------------------------- MODULE StatementProofs --------------------------
(***************************************************************************)
(* Proofs about one statement, for every set of operations, every bound,   *)
(* and callbacks that throw or do not: no operation is answered twice, the *)
(* errors it answers are its own, successive calls of get() walk through   *)
(* the result and, when no callback throws, it is finalized once, its work *)
(* finds the sqlite3_stmt, and it implements StatementService.  The        *)
(* argument is in the README.                                              *)
(***************************************************************************)
EXTENDS Statement, StackLemmas

-----------------------------------------------------------------------------
\* The places where an operation that was issued and not answered can be.

In(s, x) == \E i \in 1..Len(s) : s[i] = x

Told(a, o) == \E i \in 1..Len(a) : a[i].op = o
ToldOnce(a) == \A i, j \in 1..Len(a) : i # j => a[i].op # a[j].op

\* A finalize that is under way has the frame that will answer it.
Releases(s, o) == \E i \in 1..Len(s) : s[i].pc = "release" /\ s[i].op = o

StackOnce(s) ==
  \A i, j \in 1..Len(s) :
    /\ s[i].pc = "release" /\ s[j].pc = "release"
    /\ s[i].op = s[j].op /\ s[i].op # NoOp
    => i = j

\* An operation is in one place at a time.
Apart ==
  \A o \in Ops :
    /\ In(queue, o) \/ current = o \/ Releases(stack, o) \/ Told(answers, o)
         => o \in issued
    /\ In(queue, o) => current # o /\ ~Releases(stack, o) /\ ~Told(answers, o)
    /\ current = o => ~Releases(stack, o) /\ ~Told(answers, o)
    /\ Releases(stack, o) => ~Told(answers, o)

IInv == TypeOK /\ Once(queue) /\ StackOnce(stack) /\ ToldOnce(answers) /\ Apart

-----------------------------------------------------------------------------
\* Queues and answers.

LEMMA TailIn ==
  ASSUME NEW S, NEW s \in Seq(S), s # <<>>, Once(s)
  PROVE  /\ Tail(s) \in Seq(S) /\ Once(Tail(s)) /\ Head(s) \in S
         /\ In(s, Head(s)) /\ ~In(Tail(s), Head(s))
         /\ \A x : In(Tail(s), x) => In(s, x)
<1>1. /\ Tail(s) \in Seq(S) /\ Len(Tail(s)) = Len(s) - 1
      /\ \A i \in 1..Len(Tail(s)) : Tail(s)[i] = s[i + 1]
  BY HeadTailProperties
<1>2. Len(s) \in Nat /\ Len(s) > 0
  BY LenProperties, EmptySeq
<1>3. 1 \in 1..Len(s) /\ Head(s) = s[1] /\ s[1] \in S
  BY <1>2
<1>4. \A i \in 1..Len(Tail(s)) : i + 1 \in 1..Len(s) /\ i + 1 # 1
  BY <1>1, <1>2
<1>5. Once(Tail(s))
  <2> SUFFICES ASSUME NEW i \in 1..Len(Tail(s)), NEW j \in 1..Len(Tail(s)),
                      Tail(s)[i] = Tail(s)[j]
               PROVE  i = j
    BY DEF Once
  <2>1. i + 1 = j + 1
    BY <1>1, <1>4 DEF Once
  <2> QED
    BY <2>1
<1>6. ~In(Tail(s), Head(s))
  BY <1>1, <1>3, <1>4 DEF In, Once
<1>7. \A x : In(Tail(s), x) => In(s, x)
  BY <1>1, <1>4 DEF In
<1> QED
  BY <1>1, <1>3, <1>5, <1>6, <1>7 DEF In

LEMMA AppendIn ==
  ASSUME NEW S, NEW s \in Seq(S), NEW x \in S, Once(s), ~In(s, x)
  PROVE  /\ Append(s, x) \in Seq(S) /\ Once(Append(s, x))
         /\ \A y : In(Append(s, x), y) => In(s, y) \/ y = x
<1>1. /\ Append(s, x) \in Seq(S) /\ Len(Append(s, x)) = Len(s) + 1
      /\ \A i \in 1..Len(s) : Append(s, x)[i] = s[i]
      /\ Append(s, x)[Len(s) + 1] = x
  BY AppendProperties
<1>2. Len(s) \in Nat
  BY LenProperties
<1>3. \A i \in 1..Len(Append(s, x)) : i \in 1..Len(s) \/ i = Len(s) + 1
  BY <1>1, <1>2
<1> QED
  BY <1>1, <1>3 DEF In, Once

LEMMA AppendTold ==
  ASSUME NEW a \in Seq(Answer), NEW x \in Answer, ToldOnce(a), ~Told(a, x.op)
  PROVE  /\ Append(a, x) \in Seq(Answer) /\ ToldOnce(Append(a, x))
         /\ \A o : Told(Append(a, x), o) => Told(a, o) \/ o = x.op
<1>1. /\ Append(a, x) \in Seq(Answer) /\ Len(Append(a, x)) = Len(a) + 1
      /\ \A i \in 1..Len(a) : Append(a, x)[i] = a[i]
      /\ Append(a, x)[Len(a) + 1] = x
  BY AppendProperties
<1>2. Len(a) \in Nat
  BY LenProperties
<1>3. \A i \in 1..Len(Append(a, x)) : i \in 1..Len(a) \/ i = Len(a) + 1
  BY <1>1, <1>2
<1> QED
  BY <1>1, <1>3 DEF Told, ToldOnce

\* What Tell does to the answers.
LEMMA TellStep ==
  ASSUME answers \in Seq(Answer), ToldOnce(answers), NEW o \in Ops, ~Told(answers, o),
         NEW says \in Says, NEW n \in 0..MaxRows, Tell(o, says, n)
  PROVE  /\ answers' \in Seq(Answer) /\ ToldOnce(answers')
         /\ \A d : Told(answers', d) => Told(answers, d) \/ d = o
<1> DEFINE x == [op |-> o, says |-> says, row |-> n]
<1>1. x \in Answer /\ x.op = o
  BY DEF Answer
<1>2. CASE raised
  BY <1>2 DEF Tell
<1>3. CASE ~raised
  <2>1. answers' = Append(answers, x)
    BY <1>3 DEF Tell
  <2> HIDE DEF x
  <2> QED
    BY <1>1, <2>1, AppendTold
<1> QED
  BY <1>2, <1>3

-----------------------------------------------------------------------------
\* The stack.

\* s2 has finalizes under way that s has, and each of them once.
Keeps(s2, s) ==
  /\ s2 \in Seq(Frame) /\ StackOnce(s2)
  /\ \A o \in Ops : Releases(s2, o) => Releases(s, o)

\* Frames that answer no finalize.
Plain == {f \in Frame : f.pc # "release" \/ f.op = NoOp}

LEMMA PlainFrames ==
  /\ \A p \in PCs : At(p) \in Plain
  /\ \A b \in BOOLEAN : Cleaning(b) \in Plain
  /\ Release(NoOp) \in Plain /\ Callback \in Plain
  BY DEF Plain, Frame, PCs, At, Cleaning, Release, Callback

LEMMA PushAny ==
  ASSUME NEW r \in Seq(Frame), NEW f \in Frame
  PROVE  /\ <<f>> \o r \in Seq(Frame)
         /\ Len(<<f>> \o r) = Len(r) + 1 /\ Len(r) \in Nat
         /\ (<<f>> \o r)[1] = f
         /\ \A i \in 2..Len(r) + 1 : i - 1 \in 1..Len(r) /\ (<<f>> \o r)[i] = r[i - 1]
<1>1. Len(r) \in Nat
  BY LenProperties
<1>2. /\ <<f>> \o r \in Seq(Frame) /\ Len(<<f>> \o r) = Len(r) + 1
      /\ (<<f>> \o r)[1] = f
      /\ \A i \in 2..Len(r) + 1 : (<<f>> \o r)[i] = r[i - 1]
  OBVIOUS
<1>3. \A i \in 2..Len(r) + 1 : i - 1 \in 1..Len(r)
  BY <1>1
<1> QED
  BY <1>1, <1>2, <1>3

LEMMA PushPlain ==
  ASSUME NEW r \in Seq(Frame), NEW s, Keeps(r, s), NEW f \in Plain
  PROVE  Keeps(<<f>> \o r, s)
<1> DEFINE p == <<f>> \o r
<1>1. /\ p \in Seq(Frame) /\ Len(p) = Len(r) + 1 /\ Len(r) \in Nat /\ p[1] = f
      /\ \A i \in 2..Len(r) + 1 : i - 1 \in 1..Len(r) /\ p[i] = r[i - 1]
  BY PushAny DEF Plain
<1> HIDE DEF p
<1>2. \A i \in 1..Len(p) : p[i].pc = "release" /\ p[i].op # NoOp => i \in 2..Len(r) + 1
  BY <1>1 DEF Plain
<1>3. StackOnce(p)
  <2> SUFFICES ASSUME NEW i \in 1..Len(p), NEW j \in 1..Len(p),
                      p[i].pc = "release", p[j].pc = "release",
                      p[i].op = p[j].op, p[i].op # NoOp
               PROVE  i = j
    BY DEF StackOnce
  <2>1. i \in 2..Len(r) + 1 /\ j \in 2..Len(r) + 1
    BY <1>2
  <2>2. i - 1 = j - 1
    BY <1>1, <2>1 DEF Keeps, StackOnce
  <2> QED
    BY <2>1, <2>2
<1>4. \A o \in Ops : Releases(p, o) => Releases(r, o)
  BY <1>1, <1>2, OpsAssumption DEF Releases
<1> QED
  BY <1>1, <1>3, <1>4 DEF Keeps, p

\* Finalize_ that begins.
LEMMA PushRelease ==
  ASSUME NEW r \in Seq(Frame), StackOnce(r), NEW o \in Ops, ~Releases(r, o)
  PROVE  LET p == <<Release(o)>> \o r
         IN  /\ p \in Seq(Frame) /\ StackOnce(p)
             /\ \A d \in Ops : Releases(p, d) => Releases(r, d) \/ d = o
<1> DEFINE f == Release(o)
           p == <<f>> \o r
<1>1. f \in Frame /\ f.op = o
  BY DEF Release, Frame, PCs
<1> HIDE DEF f
<1>2. /\ p \in Seq(Frame) /\ Len(p) = Len(r) + 1 /\ Len(r) \in Nat /\ p[1] = f
      /\ \A i \in 2..Len(r) + 1 : i - 1 \in 1..Len(r) /\ p[i] = r[i - 1]
  BY <1>1, PushAny
<1> HIDE DEF p
<1>3. \A i \in 1..Len(p) : i = 1 \/ i \in 2..Len(r) + 1
  BY <1>2
<1>4. StackOnce(p)
  <2> SUFFICES ASSUME NEW i \in 1..Len(p), NEW j \in 1..Len(p),
                      p[i].pc = "release", p[j].pc = "release",
                      p[i].op = p[j].op, p[i].op # NoOp
               PROVE  i = j
    BY DEF StackOnce
  <2>1. CASE i \in 2..Len(r) + 1 /\ j \in 2..Len(r) + 1
    <3>1. i - 1 = j - 1
      BY <1>2, <2>1 DEF StackOnce
    <3> QED
      BY <2>1, <3>1
  <2>2. CASE i = 1 /\ j \in 2..Len(r) + 1
    BY <1>1, <1>2, <2>2 DEF Releases
  <2>3. CASE j = 1 /\ i \in 2..Len(r) + 1
    BY <1>1, <1>2, <2>3 DEF Releases
  <2> QED
    BY <1>3, <2>1, <2>2, <2>3
<1>5. \A d \in Ops : Releases(p, d) => Releases(r, d) \/ d = o
  BY <1>1, <1>2, <1>3 DEF Releases
<1> QED
  BY <1>2, <1>4, <1>5 DEF p, f

LEMMA KeepsSame ==
  ASSUME NEW s \in Seq(Frame), StackOnce(s)
  PROVE  Keeps(s, s)
  BY DEF Keeps

LEMMA KeepsTail ==
  ASSUME NEW s \in Seq(Frame), StackOnce(s), s # <<>>
  PROVE  /\ Keeps(Tail(s), s) /\ Tail(s) \in Seq(Frame) /\ Head(s) \in Frame
         /\ \A o \in Ops : Head(s).pc = "release" /\ Head(s).op = o
              => Releases(s, o) /\ ~Releases(Tail(s), o)
<1>1. /\ Tail(s) \in Seq(Frame) /\ Len(Tail(s)) = Len(s) - 1
      /\ \A i \in 1..Len(Tail(s)) : Tail(s)[i] = s[i + 1]
  BY HeadTailProperties
<1>2. Len(s) \in Nat /\ Len(s) > 0
  BY LenProperties, EmptySeq
<1>3. 1 \in 1..Len(s) /\ Head(s) = s[1] /\ s[1] \in Frame
  BY <1>2
<1>4. \A i \in 1..Len(Tail(s)) : i + 1 \in 1..Len(s) /\ i + 1 # 1
  BY <1>1, <1>2
<1>5. StackOnce(Tail(s))
  <2> SUFFICES ASSUME NEW i \in 1..Len(Tail(s)), NEW j \in 1..Len(Tail(s)),
                      Tail(s)[i].pc = "release", Tail(s)[j].pc = "release",
                      Tail(s)[i].op = Tail(s)[j].op, Tail(s)[i].op # NoOp
               PROVE  i = j
    BY DEF StackOnce
  <2>1. i + 1 = j + 1
    BY <1>1, <1>4 DEF StackOnce
  <2> QED
    BY <2>1
<1>6. \A o \in Ops : Releases(Tail(s), o) => Releases(s, o)
  BY <1>1, <1>4 DEF Releases
<1>7. ASSUME NEW o \in Ops, Head(s).pc = "release", Head(s).op = o
      PROVE  Releases(s, o) /\ ~Releases(Tail(s), o)
  <2>1. Releases(s, o)
    BY <1>3, <1>7 DEF Releases
  <2>2. ~Releases(Tail(s), o)
    BY <1>1, <1>3, <1>4, <1>7, OpsAssumption DEF Releases, StackOnce
  <2> QED
    BY <2>1, <2>2
<1> QED
  BY <1>1, <1>3, <1>5, <1>6, <1>7 DEF Keeps

LEMMA KeepsUnwound ==
  ASSUME stack \in Seq(Frame), StackOnce(stack), stack # <<>>
  PROVE  Keeps(Unwound, stack)
<1> DEFINE t == Tail(stack)
<1>1. t \in Seq(Frame) /\ Keeps(t, stack)
  BY KeepsTail
<1>2. CASE Unwound = t
  BY <1>1, <1>2
<1>3. CASE t # <<>> /\ Unwound = Tail(t)
  <2>1. Keeps(Tail(t), t)
    BY <1>1, <1>3, KeepsTail DEF Keeps
  <2> QED
    BY <1>1, <1>3, <2>1 DEF Keeps
<1> QED
  BY <1>2, <1>3 DEF Unwound

LEMMA KeepsTwo ==
  ASSUME NEW r \in Seq(Frame), NEW s, Keeps(r, s), NEW f \in Plain, NEW g \in Plain
  PROVE  Keeps(<<f, g>> \o r, s)
<1>1. f \in Frame /\ g \in Frame
  BY DEF Plain
<1>2. <<f, g>> \o r = <<f>> \o (<<g>> \o r)
  BY <1>1, PushTwo
<1>3. Keeps(<<g>> \o r, s)
  BY PushPlain
<1>4. Keeps(<<f>> \o (<<g>> \o r), s)
  BY <1>3, PushPlain DEF Keeps
<1> QED
  BY <1>2, <1>4

\* The handlers that libuv enters.
LEMMA FromEmpty ==
  ASSUME stack = <<>>, NEW f \in Plain, NEW g \in Plain
  PROVE  Keeps(<<f>>, stack) /\ Keeps(<<f, g>>, stack)
<1>1. <<>> \in Seq(Frame) /\ Keeps(<<>>, stack)
  BY DEF Keeps, StackOnce, Releases
<1>2. Keeps(<<f>> \o <<>>, stack) /\ Keeps(<<f, g>> \o <<>>, stack)
  BY <1>1, PushPlain, KeepsTwo
<1>3. <<f>> \o <<>> = <<f>> /\ <<f, g>> \o <<>> = <<f, g>>
  BY DEF Plain
<1> QED
  BY <1>2, <1>3

\* The callback of an operation, if it has one.
LEMMA PushCall ==
  ASSUME NEW r \in Seq(Frame), NEW s, Keeps(r, s), NEW o
  PROVE  Keeps(Call(o) \o r, s) /\ Call(o) \o r \in Seq(Frame)
<1>1. CASE o \in Silent
  <2>1. Call(o) \o r = r
    BY <1>1 DEF Call
  <2> QED
    BY <2>1
<1>2. CASE o \notin Silent
  <2>1. Call(o) = <<Callback>>
    BY <1>2 DEF Call
  <2>2. Keeps(<<Callback>> \o r, s)
    BY PlainFrames, PushPlain
  <2> QED
    BY <2>1, <2>2 DEF Keeps
<1> QED
  BY <1>1, <1>2

-----------------------------------------------------------------------------
\* How the parts of the invariant survive a step.

\* TypeOK but for the sequences.
DataOK ==
  /\ prepared \in BOOLEAN /\ locked \in BOOLEAN /\ finalized \in BOOLEAN
  /\ status \in {"ok", "row", "done", "error"}
  /\ handle \in {"none", "live"}
  /\ cursor \in 0..MaxRows
  /\ released \in Nat
  /\ preparing \in {"new", "scheduled", "begun", "ran", "over"}
  /\ current \in Ops \cup {NoOp}
  /\ working \in {"idle", "begun", "ran", "crashed"}
  /\ failed \in BOOLEAN
  /\ raised \in BOOLEAN
  /\ issued \in SUBSET Ops

LEMMA TypeData ==
  ASSUME TypeOK
  PROVE  DataOK
  BY DEF TypeOK, DataOK

LEMMA TypeParts ==
  ASSUME DataOK', queue' \in Seq(Ops), stack' \in Seq(Frame), answers' \in Seq(Answer)
  PROVE  TypeOK'
  BY DEF DataOK, TypeOK

\* Actions that leave every operation where it is, or forget it.
LEMMA QuietStep ==
  ASSUME IInv, DataOK', Keeps(stack', stack), queue' \in {queue, <<>>},
         current' \in {current, NoOp}, UNCHANGED history
  PROVE  IInv'
<1>1. TypeOK' /\ StackOnce(stack') /\ ToldOnce(answers')
  <2>1. queue \in Seq(Ops) /\ answers \in Seq(Answer) /\ ToldOnce(answers)
    BY DEF IInv, TypeOK
  <2>2. queue' \in Seq(Ops)
    <3>1. <<>> \in Seq(Ops)
      OBVIOUS
    <3> QED
      BY <2>1, <3>1
  <2>3. answers' \in Seq(Answer) /\ ToldOnce(answers')
    BY <2>1 DEF history
  <2>4. stack' \in Seq(Frame) /\ StackOnce(stack')
    BY DEF Keeps
  <2> QED
    BY <2>2, <2>3, <2>4, TypeParts
<1>2. Once(queue') /\ \A x : In(queue', x) => In(queue, x)
  BY DEF IInv, Once, In
<1>3. Apart'
  <2> SUFFICES ASSUME NEW o \in Ops
      PROVE  /\ In(queue', o) \/ current' = o \/ Releases(stack', o) \/ Told(answers', o)
                  => o \in issued'
             /\ In(queue', o) => current' # o /\ ~Releases(stack', o) /\ ~Told(answers', o)
             /\ current' = o => ~Releases(stack', o) /\ ~Told(answers', o)
             /\ Releases(stack', o) => ~Told(answers', o)
    BY DEF Apart
  <2>1. /\ In(queue', o) => In(queue, o)
        /\ current' = o => current = o
        /\ Releases(stack', o) => Releases(stack, o)
        /\ Told(answers', o) <=> Told(answers, o)
        /\ issued' = issued
    BY <1>2, OpsAssumption DEF Keeps, history
  <2> QED
    BY <2>1 DEF IInv, Apart
<1> QED
  BY <1>1, <1>2, <1>3 DEF IInv

\* Actions that move one operation o and leave the others, or forget them.
LEMMA MoveStep ==
  ASSUME IInv, NEW o \in Ops, TypeOK', Once(queue'), StackOnce(stack'),
         ToldOnce(answers'), issued' = issued \cup {o},
         \A d \in Ops \ {o} :
           /\ In(queue', d) => In(queue, d)
           /\ current' = d => current = d
           /\ Releases(stack', d) => Releases(stack, d)
           /\ Told(answers', d) => Told(answers, d),
         In(queue', o) => current' # o /\ ~Releases(stack', o) /\ ~Told(answers', o),
         current' = o => ~Releases(stack', o) /\ ~Told(answers', o),
         Releases(stack', o) => ~Told(answers', o)
  PROVE  IInv'
<1>1. Apart'
  <2> SUFFICES ASSUME NEW d \in Ops
      PROVE  /\ In(queue', d) \/ current' = d \/ Releases(stack', d) \/ Told(answers', d)
                  => d \in issued'
             /\ In(queue', d) => current' # d /\ ~Releases(stack', d) /\ ~Told(answers', d)
             /\ current' = d => ~Releases(stack', d) /\ ~Told(answers', d)
             /\ Releases(stack', d) => ~Told(answers', d)
    BY DEF Apart
  <2>1. CASE d = o
    BY <2>1
  <2>2. CASE d # o
    BY <2>2 DEF IInv, Apart
  <2> QED
    BY <2>1, <2>2
<1> QED
  BY <1>1 DEF IInv

\* An operation that was nowhere but in the queue, or was just issued, starts.
LEMMA RunStep ==
  ASSUME IInv, DataOK', NEW o \in Ops, NEW rest \in Seq(Frame), Keeps(rest, stack),
         Run(o, rest), queue' \in Seq(Ops), Once(queue'), ~In(queue', o),
         \A x : In(queue', x) => In(queue, x),
         current # o, ~Releases(stack, o), ~Told(answers, o),
         issued' = issued \cup {o}, UNCHANGED answers
  PROVE  IInv'
<1>1. StackOnce(rest) /\ ~Releases(rest, o)
      /\ \A d \in Ops : Releases(rest, d) => Releases(stack, d)
  BY DEF Keeps
<1>2. answers' \in Seq(Answer) /\ ToldOnce(answers') /\ ~Told(answers', o)
  BY DEF IInv, TypeOK
<1>3. CASE KindOf[o] # "finalize"
  <2>1. stack' = rest /\ current' = o
    BY <1>3 DEF Run
  <2>2. TypeOK'
    BY <1>2, <2>1, TypeParts
  <2> QED
    BY <1>1, <1>2, <2>1, <2>2, MoveStep
<1>4. CASE KindOf[o] = "finalize"
  <2> DEFINE p == <<Release(o)>> \o rest
  <2>1. current' = current /\ stack' = <<At("clean"), Release(o)>> \o rest
    BY <1>4 DEF Run, work
  <2>2. /\ p \in Seq(Frame) /\ StackOnce(p)
        /\ \A d \in Ops : Releases(p, d) => Releases(rest, d) \/ d = o
    BY <1>1, PushRelease
  <2>3. stack' = <<At("clean")>> \o p
    <3>1. At("clean") \in Frame /\ Release(o) \in Frame
      BY DEF At, Release, Frame, PCs
    <3> QED
      BY <2>1, <3>1, PushTwo
  <2> HIDE DEF p
  <2>4. At("clean") \in Plain
    BY PlainFrames DEF PCs
  <2>5. Keeps(stack', p)
    BY <2>2, <2>3, <2>4, KeepsSame, PushPlain
  <2>6. /\ StackOnce(stack') /\ stack' \in Seq(Frame)
        /\ \A d \in Ops \ {o} : Releases(stack', d) => Releases(stack, d)
    BY <1>1, <2>2, <2>5 DEF Keeps
  <2>7. TypeOK'
    BY <1>2, <2>6, TypeParts
  <2> QED
    BY <1>1, <1>2, <2>1, <2>6, <2>7, MoveStep
<1> QED
  BY <1>3, <1>4

-----------------------------------------------------------------------------
\* One step for each action.

LEMMA InitIInv ==
  ASSUME Init
  PROVE  IInv
<1>1. stack = <<At("js")>> /\ At("js") \in Plain /\ At("js") \in Frame
  BY PlainFrames DEF Init, PCs, Plain
<1>2. stack \in Seq(Frame) /\ StackOnce(stack) /\ \A o \in Ops : ~Releases(stack, o)
  <2>1. Len(stack) = 1 /\ stack[1] = At("js") /\ stack \in Seq(Frame)
    BY <1>1
  <2>2. stack[1].pc # "release"
    BY <2>1 DEF At
  <2> QED
    BY <2>1, <2>2 DEF StackOnce, Releases
<1>3. Once(queue) /\ ToldOnce(answers) /\ \A o \in Ops : ~In(queue, o) /\ ~Told(answers, o)
  BY DEF Init, Once, ToldOnce, In, Told
<1>4. TypeOK
  <2>1. queue \in Seq(Ops) /\ answers \in Seq(Answer)
    <3>1. <<>> \in Seq(Ops) /\ <<>> \in Seq(Answer)
      OBVIOUS
    <3> QED
      BY <3>1 DEF Init
  <2>2. cursor \in 0..MaxRows /\ released \in Nat
    BY OpBoundAssumption DEF Init
  <2> QED
    BY <1>2, <2>1, <2>2 DEF Init, TypeOK
<1>5. Apart
  BY <1>2, <1>3, OpsAssumption DEF Init, Apart
<1> QED
  BY <1>2, <1>3, <1>4, <1>5 DEF IInv

LEMMA PrepareStep ==
  ASSUME IInv, Construct \/ ConstructRejected \/ Prepare \/ WorkPrepare \/ AfterPrepare
  PROVE  IInv'
<1>0. TypeOK /\ stack \in Seq(Frame) /\ StackOnce(stack)
  BY DEF IInv, TypeOK
<1>1. DataOK' /\ UNCHANGED <<queue, current, history>>
  <2>1. CASE Construct \/ ConstructRejected
    <3>1. CASE Construct
      BY <1>0, <3>1, TypeData DEF DataOK, Construct, fields, vm, work, history
    <3>2. CASE ConstructRejected
      <4>1. released' \in Nat
        BY <1>0, <3>2 DEF TypeOK, ConstructRejected
      <4> QED
        BY <1>0, <3>2, <4>1, TypeData DEF DataOK, ConstructRejected, vm, work, history
    <3> QED
      BY <2>1, <3>1, <3>2
  <2>2. CASE Prepare
    BY <1>0, <2>2, TypeData DEF DataOK, Prepare, PrepareBegin, PrepareRejected, fields, vm,
       work, history
  <2>3. CASE WorkPrepare \/ AfterPrepare
    BY <1>0, <2>3, TypeData DEF DataOK, WorkPrepare, AfterPrepare, fields, vm, work, history
  <2> QED
    BY <2>1, <2>2, <2>3
<1>2. Keeps(stack', stack)
  <2>1. CASE ConstructRejected
    BY <1>0, <2>1, KeepsSame, PlainFrames, PushPlain DEF ConstructRejected
  <2>2. CASE PrepareRejected
    <3>1. At("reject") \in Plain /\ Callback \in Plain
      BY PlainFrames DEF PCs
    <3> QED
      BY <1>0, <2>2, <3>1, KeepsSame, KeepsTwo DEF PrepareRejected
  <2>3. CASE AfterPrepare
    <3>1. /\ At("js") \in Plain
          /\ At(IF status = "ok" THEN "end" ELSE "failed") \in Plain
      BY PlainFrames DEF PCs
    <3> QED
      BY <2>3, <3>1, FromEmpty DEF AfterPrepare, EventLoop
  <2>4. CASE Construct \/ PrepareBegin \/ WorkPrepare
    BY <1>0, <2>4, KeepsSame DEF Construct, PrepareBegin, WorkPrepare
  <2> QED
    BY <2>1, <2>2, <2>3, <2>4 DEF Prepare
<1> QED
  BY <1>1, <1>2, QuietStep

LEMMA ScheduleStep ==
  ASSUME IInv, NEW o \in Ops, Schedule(o)
  PROVE  IInv'
<1>0. TypeOK /\ stack \in Seq(Frame) /\ StackOnce(stack) /\ queue \in Seq(Ops)
      /\ Once(queue) /\ ToldOnce(answers) /\ answers \in Seq(Answer)
  BY DEF IInv, TypeOK
<1>1. Enter(o) /\ issued' = issued \cup {o} /\ UNCHANGED answers
  BY DEF Schedule, ScheduleRefuse, ScheduleQueue, ScheduleRun, Enter
<1>2. ~In(queue, o) /\ current # o /\ ~Releases(stack, o) /\ ~Told(answers, o)
  BY <1>1 DEF IInv, Apart, Enter
<1>3. CASE ScheduleRefuse(o) \/ ScheduleQueue(o)
  <2>1. queue' = Append(queue, o) /\ UNCHANGED current
    BY <1>3 DEF ScheduleRefuse, ScheduleQueue, work
  <2>2. /\ queue' \in Seq(Ops) /\ Once(queue')
        /\ \A d \in Ops : In(queue', d) => In(queue, d) \/ d = o
    BY <1>0, <1>2, <2>1, AppendIn
  <2>3. Keeps(stack', stack)
    <3>1. At("clean") \in Plain
      BY PlainFrames DEF PCs
    <3> QED
      BY <1>0, <1>3, <3>1, KeepsSame, PushPlain DEF ScheduleRefuse, ScheduleQueue
  <2>4. DataOK'
    BY <1>0, <1>1, <1>3, TypeData DEF DataOK, ScheduleRefuse, ScheduleQueue, Enter, fields,
       vm, work
  <2>5. TypeOK' /\ ToldOnce(answers')
    BY <1>0, <1>1, <2>2, <2>3, <2>4, TypeParts DEF Keeps
  <2>6. ~Releases(stack', o) /\ ~Told(answers', o) /\ current' # o
    BY <1>1, <1>2, <2>1, <2>3 DEF Keeps
  <2>7. /\ StackOnce(stack')
        /\ \A d \in Ops \ {o} :
             /\ In(queue', d) => In(queue, d)
             /\ current' = d => current = d
             /\ Releases(stack', d) => Releases(stack, d)
             /\ Told(answers', d) => Told(answers, d)
    BY <1>1, <2>1, <2>2, <2>3 DEF Keeps
  <2> QED
    BY <1>1, <2>2, <2>5, <2>6, <2>7, MoveStep
<1>4. CASE ScheduleRun(o)
  <2>1. Run(o, stack) /\ UNCHANGED queue
    BY <1>4 DEF ScheduleRun
  <2>2. DataOK'
    <3>1. DataOK /\ issued' \in SUBSET Ops
      BY <1>0, <1>1, TypeData DEF DataOK
    <3>2. /\ locked' \in BOOLEAN /\ finalized' \in BOOLEAN /\ failed' \in BOOLEAN
          /\ current' \in Ops \cup {NoOp} /\ working' \in {"idle", "begun", "ran", "crashed"}
      BY <2>1, <3>1 DEF DataOK, Run, work
    <3>3. UNCHANGED <<prepared, status, handle, cursor, released, preparing, raised>>
      BY <1>1 DEF Enter, vm
    <3> QED
      BY <3>1, <3>2, <3>3 DEF DataOK
  <2>3. Keeps(stack, stack)
    BY <1>0, KeepsSame
  <2>4. queue' \in Seq(Ops) /\ Once(queue') /\ \A x : In(queue', x) <=> In(queue, x)
    BY <1>0, <2>1
  <2> QED
    BY <1>0, <1>1, <1>2, <2>1, <2>2, <2>3, <2>4, RunStep
<1> QED
  BY <1>3, <1>4 DEF Schedule

\* A handler replaces the frame at the top of the stack by plain ones.
LEMMA TopStep ==
  ASSUME IInv, stack # <<>>
  PROVE  /\ Keeps(Tail(stack), stack) /\ Tail(stack) \in Seq(Frame)
         /\ Head(stack) \in Frame
         /\ \A f \in Plain : Keeps(<<f>> \o Tail(stack), stack)
         /\ \A f, g \in Plain : Keeps(<<f, g>> \o Tail(stack), stack)
<1>1. stack \in Seq(Frame) /\ StackOnce(stack)
  BY DEF IInv, TypeOK
<1>2. Keeps(Tail(stack), stack) /\ Tail(stack) \in Seq(Frame) /\ Head(stack) \in Frame
  BY <1>1, KeepsTail
<1>3. \A f \in Plain : Keeps(<<f>> \o Tail(stack), stack)
  BY <1>2, PushPlain
<1>4. \A f, g \in Plain : Keeps(<<f, g>> \o Tail(stack), stack)
  BY <1>2, KeepsTwo
<1> QED
  BY <1>2, <1>3, <1>4

LEMMA ProcessStep ==
  ASSUME IInv, ProcessClean \/ ProcessRun \/ ProcessReturn
  PROVE  IInv'
<1>0. TypeOK /\ stack # <<>> /\ queue \in Seq(Ops) /\ Once(queue)
  BY DEF IInv, TypeOK, ProcessClean, ProcessRun, ProcessReturn, InLoop, InPc
<1>1. At("clean") \in Plain /\ At("loop") \in Plain
  BY PlainFrames DEF PCs
<1>2. CASE ProcessClean \/ ProcessReturn
  <2>1. DataOK' /\ UNCHANGED <<queue, current, history>>
    BY <1>0, <1>2, TypeData DEF DataOK, ProcessClean, ProcessReturn, fields, vm, work, history
  <2>2. Keeps(stack', stack)
    BY <1>0, <1>1, <1>2, TopStep DEF ProcessClean, ProcessReturn
  <2> QED
    BY <2>1, <2>2, QuietStep
<1>3. CASE ProcessRun
  <2> DEFINE o == Head(queue)
             rest == <<At("loop")>> \o Tail(stack)
  <2>1. queue # <<>> /\ queue' = Tail(queue) /\ Run(o, rest) /\ UNCHANGED history
    BY <1>3 DEF ProcessRun
  <2>2. /\ queue' \in Seq(Ops) /\ Once(queue') /\ o \in Ops /\ In(queue, o)
        /\ ~In(queue', o) /\ \A x : In(queue', x) => In(queue, x)
    BY <1>0, <2>1, TailIn
  <2>3. Keeps(rest, stack) /\ rest \in Seq(Frame)
    BY <1>0, <1>1, TopStep DEF Keeps
  <2>4. DataOK'
    BY <1>0, <1>3, <2>2, TypeData DEF DataOK, ProcessRun, Run, vm, work, history
  <2> HIDE DEF o, rest
  <2>5. current # o /\ ~Releases(stack, o) /\ ~Told(answers, o) /\ o \in issued
    BY <2>2 DEF IInv, Apart
  <2>6. issued' = issued \cup {o} /\ UNCHANGED answers
    BY <2>1, <2>5 DEF history
  <2> QED
    BY <2>1, <2>2, <2>3, <2>4, <2>5, <2>6, RunStep
<1> QED
  BY <1>2, <1>3

LEMMA CleanStep ==
  ASSUME IInv, CleanEnter \/ CleanCall \/ CleanReturn
  PROVE  IInv'
<1>0. /\ TypeOK /\ stack # <<>> /\ queue \in Seq(Ops) /\ Once(queue)
      /\ answers \in Seq(Answer) /\ ToldOnce(answers)
  BY DEF IInv, TypeOK, CleanEnter, CleanCall, CleanReturn, InPc
<1>1. DataOK' /\ UNCHANGED <<current, issued>>
  BY <1>0, TypeData DEF DataOK, CleanEnter, CleanCall, CleanReturn, fields, vm, work, history
<1>2. CASE CleanEnter
  <2>1. Cleaning(FALSE) \in Plain
    BY PlainFrames
  <2>2. Keeps(stack', stack)
    BY <1>0, <1>2, <2>1, TopStep DEF CleanEnter
  <2>3. queue' \in {queue, <<>>} /\ UNCHANGED history
    BY <1>2 DEF CleanEnter
  <2> QED
    BY <1>1, <2>2, <2>3, QuietStep
<1>3. CASE CleanCall
  <2> DEFINE o == Head(queue)
             f == Cleaning(Head(stack).called \/ o \notin Silent)
             r == <<f>> \o Tail(stack)
  <2>1. /\ queue # <<>> /\ queue' = Tail(queue) /\ Tell(o, "refused", 0)
        /\ stack' = Call(o) \o <<f>> \o Tail(stack)
    BY <1>3 DEF CleanCall
  <2>2. /\ queue' \in Seq(Ops) /\ Once(queue') /\ o \in Ops /\ In(queue, o)
        /\ ~In(queue', o) /\ \A x : In(queue', x) => In(queue, x)
    BY <1>0, <2>1, TailIn
  <2>3. f \in Plain
    BY PlainFrames
  <2> HIDE DEF o, f
  <2>4. Keeps(r, stack) /\ r \in Seq(Frame)
    BY <1>0, <2>3, TopStep DEF Keeps
  <2>5. stack' = Call(o) \o r
    <3>1. Tail(stack) \in Seq(Frame) /\ <<f>> \in Seq(Frame) /\ Call(o) \in Seq(Frame)
      BY <1>0, <2>3, TopStep, PlainFrames DEF Call, Plain
    <3> QED
      BY <2>1, <3>1, ConcatAssociative
  <2> HIDE DEF r
  <2>6. Keeps(stack', stack)
    BY <2>4, <2>5, PushCall
  <2>7. current # o /\ ~Releases(stack, o) /\ ~Told(answers, o) /\ o \in issued
    BY <2>2 DEF IInv, Apart
  <2>8. /\ answers' \in Seq(Answer) /\ ToldOnce(answers')
        /\ \A d : Told(answers', d) => Told(answers, d) \/ d = o
    <3>1. 0 \in 0..MaxRows /\ "refused" \in Says
      BY OpBoundAssumption DEF Says
    <3> QED
      BY <1>0, <2>1, <2>2, <2>7, <3>1, TellStep
  <2>9. TypeOK' /\ StackOnce(stack') /\ ~Releases(stack', o)
    BY <1>1, <2>2, <2>6, <2>7, <2>8, TypeParts DEF Keeps
  <2>10. issued' = issued \cup {o} /\ current' # o
    BY <1>1, <2>7
  <2>11. \A d \in Ops \ {o} :
           /\ In(queue', d) => In(queue, d)
           /\ current' = d => current = d
           /\ Releases(stack', d) => Releases(stack, d)
           /\ Told(answers', d) => Told(answers, d)
    BY <1>1, <2>2, <2>6, <2>8 DEF Keeps
  <2> QED
    BY <2>2, <2>8, <2>9, <2>10, <2>11, MoveStep
<1>4. CASE CleanReturn
  <2>1. Keeps(stack', stack)
    <3>1. CASE Head(stack).called
      <4>1. Tail(stack) \in Seq(Frame)
        BY <1>0, TopStep
      <4>2. stack' = <<>> \o Tail(stack)
        BY <1>4, <3>1 DEF CleanReturn
      <4>3. stack' = Tail(stack)
        BY <4>1, <4>2
      <4> QED
        BY <1>0, <4>3, TopStep
    <3>2. CASE ~Head(stack).called
      <4>1. stack' = <<Callback>> \o Tail(stack)
        BY <1>4, <3>2 DEF CleanReturn
      <4> QED
        BY <1>0, <4>1, TopStep, PlainFrames
    <3> QED
      BY <3>1, <3>2
  <2>2. UNCHANGED <<queue, history>>
    BY <1>4 DEF CleanReturn
  <2> QED
    BY <1>1, <2>1, <2>2, QuietStep
<1> QED
  BY <1>2, <1>3, <1>4

LEMMA FinalizeStep ==
  ASSUME IInv, FinalizeFailed \/ FinalizeRelease
  PROVE  IInv'
<1>0. /\ TypeOK /\ stack # <<>> /\ queue \in Seq(Ops) /\ Once(queue)
      /\ answers \in Seq(Answer) /\ ToldOnce(answers) /\ stack \in Seq(Frame)
      /\ StackOnce(stack)
  BY DEF IInv, TypeOK, FinalizeFailed, FinalizeRelease, InPc
<1>1. DataOK' /\ UNCHANGED <<queue, current, issued>>
  <2>1. released' \in Nat
    BY <1>0 DEF TypeOK, FinalizeFailed, FinalizeRelease
  <2>2. cursor' \in 0..MaxRows
    BY <1>0, OpBoundAssumption DEF TypeOK, FinalizeFailed, FinalizeRelease, vm
  <2> QED
    BY <1>0, <2>1, <2>2, TypeData DEF DataOK, FinalizeFailed, FinalizeRelease, fields, vm,
       work, history
<1>2. CASE FinalizeFailed
  <2> DEFINE t == Tail(stack)
             r == (IF InPc("failed") THEN <<At("errorEnd")>> ELSE <<>>) \o t
  <2>1. At("clean") \in Plain /\ Release(NoOp) \in Plain /\ At("errorEnd") \in Plain
    BY PlainFrames DEF PCs
  <2>2. Keeps(r, stack) /\ r \in Seq(Frame)
    <3>1. t \in Seq(Frame) /\ Keeps(t, stack)
      BY <1>0, TopStep
    <3>2. <<>> \o t = t
      BY <3>1
    <3> QED
      BY <2>1, <3>1, <3>2, PushPlain DEF Keeps
  <2>3. stack' = <<At("clean"), Release(NoOp)>> \o r
    <3>1. t \in Seq(Frame) /\ <<At("clean"), Release(NoOp)>> \in Seq(Frame)
          /\ (IF InPc("failed") THEN <<At("errorEnd")>> ELSE <<>>) \in Seq(Frame)
      BY <1>0, <2>1, TopStep DEF Plain
    <3>2. stack' = <<At("clean"), Release(NoOp)>>
                     \o (IF InPc("failed") THEN <<At("errorEnd")>> ELSE <<>>) \o t
      BY <1>2 DEF FinalizeFailed
    <3> QED
      BY <3>1, <3>2, ConcatAssociative
  <2> HIDE DEF r
  <2>4. Keeps(stack', stack)
    BY <2>1, <2>2, <2>3, KeepsTwo
  <2>5. UNCHANGED history
    BY <1>2 DEF FinalizeFailed
  <2> QED
    BY <1>1, <2>4, <2>5, QuietStep
<1>3. CASE FinalizeRelease
  <2> DEFINE o == Head(stack).op
  <2>1. Head(stack).pc = "release" /\ o \in Ops \cup {NoOp}
    BY <1>0, <1>3, TopStep DEF FinalizeRelease, InPc, Frame
  <2>2. CASE o = NoOp
    <3>1. stack' = Tail(stack) /\ UNCHANGED history
      BY <1>3, <2>2 DEF FinalizeRelease, history
    <3> QED
      BY <1>0, <1>1, <3>1, TopStep, QuietStep
  <2>3. CASE o \in Ops
    <3>1. Tell(o, "ok", 0) /\ stack' = Call(o) \o Tail(stack)
      BY <1>3, <2>3, OpsAssumption DEF FinalizeRelease
    <3>2. /\ Releases(stack, o) /\ ~Releases(Tail(stack), o)
          /\ Keeps(Tail(stack), stack) /\ Tail(stack) \in Seq(Frame)
      BY <1>0, <2>1, <2>3, KeepsTail
    <3> HIDE DEF o
    <3>3. ~In(queue, o) /\ current # o /\ ~Told(answers, o) /\ o \in issued
      BY <2>3, <3>2 DEF IInv, Apart
    <3>4. Keeps(stack', Tail(stack)) /\ Keeps(stack', stack)
      <4>1. Keeps(Tail(stack), Tail(stack))
        BY <3>2 DEF Keeps
      <4> QED
        BY <3>1, <3>2, <4>1, PushCall
    <3>5. /\ answers' \in Seq(Answer) /\ ToldOnce(answers')
          /\ \A d : Told(answers', d) => Told(answers, d) \/ d = o
      <4>1. 0 \in 0..MaxRows /\ "ok" \in Says
        BY OpBoundAssumption DEF Says
      <4> QED
        BY <1>0, <2>3, <3>1, <3>3, <4>1, TellStep
    <3>6. TypeOK' /\ StackOnce(stack') /\ ~Releases(stack', o)
      BY <1>0, <1>1, <2>3, <3>2, <3>4, <3>5, TypeParts DEF Keeps
    <3>7. issued' = issued \cup {o} /\ current' # o /\ ~In(queue', o) /\ Once(queue')
      BY <1>0, <1>1, <3>3
    <3>8. \A d \in Ops \ {o} :
            /\ In(queue', d) => In(queue, d)
            /\ current' = d => current = d
            /\ Releases(stack', d) => Releases(stack, d)
            /\ Told(answers', d) => Told(answers, d)
      BY <1>1, <3>4, <3>5 DEF Keeps
    <3> QED
      BY <2>3, <3>5, <3>6, <3>7, <3>8, MoveStep
  <2> QED
    BY <2>1, <2>2, <2>3
<1> QED
  BY <1>2, <1>3

LEMMA HandlerStep ==
  ASSUME IInv, Handler
  PROVE  IInv'
<1>0. TypeOK /\ stack \in Seq(Frame) /\ StackOnce(stack)
  BY DEF IInv, TypeOK
<1>1. CASE End
  <2>1. DataOK' /\ UNCHANGED <<queue, current, history>>
    <3>1. DataOK
      BY <1>0, TypeData
    <3>2. /\ locked' = FALSE /\ UNCHANGED <<queue, current, history>>
          /\ UNCHANGED <<prepared, finalized, status, handle, cursor, released, preparing,
                        current, working, failed, raised, issued>>
      BY <1>1 DEF End, vm, work, history
    <3>3. /\ prepared' \in BOOLEAN /\ locked' \in BOOLEAN /\ finalized' \in BOOLEAN
          /\ failed' \in BOOLEAN /\ raised' \in BOOLEAN
      BY <3>1, <3>2, Zenon DEF DataOK
    <3> QED
      BY <3>1, <3>2, <3>3 DEF DataOK
  <2>2. Keeps(stack', stack)
    <3>1. At("process") \in Plain /\ stack # <<>>
      BY <1>1, PlainFrames DEF PCs, End, InPc
    <3> QED
      BY <1>1, <3>1, TopStep DEF End
  <2> QED
    BY <2>1, <2>2, QuietStep
<1>2. CASE DeadCallback
  <2>1. DataOK' /\ UNCHANGED <<queue, current, history>>
    BY <1>0, <1>2, TypeData DEF DataOK, DeadCallback, fields, vm, work, history
  <2>2. Keeps(stack', stack)
    BY <1>0, <1>2, KeepsUnwound DEF DeadCallback, InPc
  <2> QED
    BY <2>1, <2>2, QuietStep
<1> QED
  BY <1>1, <1>2, ProcessStep, CleanStep, FinalizeStep DEF Handler

LEMMA WorkSafe ==
  ASSUME IInv, NEW o \in Ops, Work(o)
  PROVE  IInv'
<1>0. TypeOK /\ stack \in Seq(Frame) /\ StackOnce(stack)
  BY DEF IInv, TypeOK
<1>1. Working(o)
  BY DEF Work, WorkBind, WorkStep, WorkAll, WorkReset, WorkSkip, WorkRefused, WorkGone
<1>2. UNCHANGED <<fields, queue, handle, released, preparing, current, stack, raised,
                  history>>
  BY <1>1 DEF Working
<1>3. cursor' \in 0..MaxRows
  <2>1. From(o) \in 0..MaxRows /\ 0 \in 0..MaxRows
    BY <1>0, OpBoundAssumption DEF From, TypeOK
  <2>2. CASE WorkStep(o)
    BY <2>1, <2>2, OpBoundAssumption DEF WorkStep, Stepped
  <2> QED
    BY <1>0, <2>1, <2>2 DEF TypeOK, Work, WorkBind, WorkAll, WorkReset, WorkSkip,
       WorkRefused, WorkGone
<1>4. status' \in {"ok", "row", "done", "error"}
  BY <1>0 DEF TypeOK, Work, WorkBind, WorkStep, Stepped, WorkAll, WorkReset, WorkSkip,
     WorkRefused, WorkGone
<1>5. failed' \in BOOLEAN
  BY <1>0 DEF TypeOK, Work, WorkBind, WorkStep, Stepped, WorkAll, WorkReset, WorkSkip,
     WorkRefused, WorkGone
<1>6. working' \in {"idle", "begun", "ran", "crashed"}
  BY DEF Work, WorkBind, WorkStep, WorkAll, WorkReset, WorkSkip, WorkRefused, WorkGone
<1>7. DataOK'
  BY <1>0, <1>2, <1>3, <1>4, <1>5, <1>6, TypeData DEF DataOK, fields, history
<1>8. Keeps(stack', stack)
  BY <1>0, <1>2, KeepsSame
<1> QED
  BY <1>2, <1>7, <1>8, QuietStep

LEMMA AfterStep ==
  ASSUME IInv, NEW o \in Ops, After(o)
  PROVE  IInv'
<1>0. /\ TypeOK /\ queue \in Seq(Ops) /\ Once(queue)
      /\ answers \in Seq(Answer) /\ ToldOnce(answers)
  BY DEF IInv, TypeOK
<1>1. stack = <<>> /\ current = o /\ current' = NoOp /\ UNCHANGED <<queue, issued>>
  BY DEF After, AfterError, AfterOk, Ended, EventLoop
<1>2. DataOK'
  BY <1>0, TypeData DEF DataOK, After, AfterError, AfterOk, Ended, fields, vm
<1>3. ~In(queue, o) /\ ~Releases(stack, o) /\ ~Told(answers, o) /\ o \in issued
  BY <1>1 DEF IInv, Apart
<1>4. /\ answers' \in Seq(Answer) /\ ToldOnce(answers')
      /\ \A d : Told(answers', d) => Told(answers, d) \/ d = o
  <2>1. 0 \in 0..MaxRows /\ cursor \in 0..MaxRows
    BY <1>0, OpBoundAssumption DEF TypeOK
  <2>2. \E says \in Says, n \in 0..MaxRows : Tell(o, says, n)
    <3>1. {"ok", "row", "none", "error"} \subseteq Says
      BY DEF Says
    <3> QED
      BY <2>1, <3>1 DEF After, AfterError, AfterOk
  <2> QED
    BY <1>0, <1>3, <2>2, TellStep
<1>5. Keeps(stack', stack)
  <2>1. At("js") \in Plain /\ At("end") \in Plain /\ At("errorEnd") \in Plain
        /\ Callback \in Plain
    BY PlainFrames DEF PCs
  <2>2. CASE AfterError(o)
    BY <1>1, <2>1, <2>2, FromEmpty DEF AfterError
  <2>3. CASE AfterOk(o)
    <3>1. Keeps(<<At("end")>>, stack) /\ <<At("end")>> \in Seq(Frame)
      BY <1>1, <2>1, FromEmpty DEF Keeps
    <3>2. CASE KindOf[o] = "each"
      <4>1. stack' = <<>> \o <<At("end")>>
        BY <2>3, <3>2 DEF AfterOk
      <4>2. stack' = <<At("end")>>
        BY <3>1, <4>1
      <4> QED
        BY <3>1, <4>2
    <3>3. CASE KindOf[o] # "each"
      <4>1. stack' = Call(o) \o <<At("end")>>
        BY <2>3, <3>3 DEF AfterOk
      <4> QED
        BY <3>1, <4>1, PushCall
    <3> QED
      BY <3>2, <3>3
  <2> QED
    BY <2>2, <2>3 DEF After
<1>6. TypeOK' /\ StackOnce(stack') /\ ~Releases(stack', o)
  BY <1>0, <1>1, <1>2, <1>3, <1>4, <1>5, TypeParts DEF Keeps
<1>7. issued' = issued \cup {o} /\ current' # o /\ ~In(queue', o) /\ Once(queue')
  BY <1>0, <1>1, <1>3, OpsAssumption
<1>8. \A d \in Ops \ {o} :
        /\ In(queue', d) => In(queue, d)
        /\ current' = d => current = d
        /\ Releases(stack', d) => Releases(stack, d)
        /\ Told(answers', d) => Told(answers, d)
  BY <1>1, <1>4, <1>5, OpsAssumption DEF Keeps
<1> QED
  BY <1>4, <1>6, <1>7, <1>8, MoveStep

LEMMA JsStep ==
  ASSUME IInv, NewTurn \/ JsReturn \/ JsThrow \/ JsCatch
  PROVE  IInv'
<1>0. TypeOK /\ stack \in Seq(Frame) /\ StackOnce(stack)
  BY DEF IInv, TypeOK
<1>1. DataOK' /\ UNCHANGED <<queue, current, history>>
  <2>1. UNCHANGED <<fields, queue, vm, released, preparing, work, history>>
    BY DEF NewTurn, JsReturn, JsThrow, JsCatch
  <2>2. raised' \in BOOLEAN
    BY <1>0 DEF TypeOK, NewTurn, JsReturn, JsThrow, JsCatch
  <2> QED
    BY <1>0, <2>1, <2>2, TypeData DEF DataOK, fields, vm, work, history
<1>2. Keeps(stack', stack)
  <2>1. CASE NewTurn
    <3>1. At("js") \in Plain
      BY PlainFrames DEF PCs
    <3> QED
      BY <2>1, <3>1, FromEmpty DEF NewTurn
  <2>2. CASE JsReturn
    BY <2>2, TopStep DEF JsReturn, Js, InPc
  <2>3. CASE JsThrow
    BY <1>0, <2>3, KeepsUnwound DEF JsThrow, InPc
  <2>4. CASE JsCatch
    BY <1>0, <2>4, KeepsSame DEF JsCatch
  <2> QED
    BY <2>1, <2>2, <2>3, <2>4
<1> QED
  BY <1>1, <1>2, QuietStep

LEMMA NextIInv ==
  ASSUME IInv, [Next]_vars
  PROVE  IInv'
<1>1. CASE Next
  BY <1>1, PrepareStep, HandlerStep, JsStep, ScheduleStep, WorkSafe, AfterStep
     DEF Next, Step
<1>2. CASE UNCHANGED vars
  BY <1>2 DEF vars, fields, vm, work, history, IInv, TypeOK, Apart
<1> QED
  BY <1>1, <1>2

LEMMA Invariant == Spec => []IInv
  BY InitIInv, NextIInv, PTL DEF Spec

-----------------------------------------------------------------------------
\* The theorems.

\* Whatever the operations do, in whichever order handlers and callbacks
\* interleave and whichever callbacks throw, the fields of the statement, its
\* queue and the frames of the main thread have their types.
THEOREM StatementType == Spec => []TypeOK
<1>1. IInv => TypeOK
  BY DEF IInv
<1> QED
  BY <1>1, Invariant, PTL

\* No callback of an operation runs twice: the queue, the work in flight and
\* the finalize under way never share an operation, and what is answered has
\* left all three, although callbacks issue operations and throw while Process
\* and CleanQueue are half done.
THEOREM StatementAnsweredOnce == Spec => []AnsweredOnce
<1>1. IInv => AnsweredOnce
  BY DEF IInv, ToldOnce, AnsweredOnce
<1> QED
  BY <1>1, Invariant, PTL

-----------------------------------------------------------------------------
\* The frames that the invariants tell apart.

Enders == {f \in Frame : f.pc \in {"end", "errorEnd", "failed"}}
Failing == {f \in Frame : f.pc \in {"failed", "reject"}}
Releasers == {f \in Frame : f.pc = "release"}
Owned(o) == {f \in Frame : f.pc = "release" /\ f.op = o}
Cleaners == {f \in Frame : f.pc \in {"clean", "cleaning"}}
Looping == {f \in Frame : f.pc = "cleaning"}
Dead == {f \in Frame : f.pc = "dead"}

\* The frames that none of the first three sets holds.
Neutral == {f \in Frame : f.pc \notin {"end", "errorEnd", "failed", "reject", "release"}}

\* Those that CleanQueue must not return to as long as something is queued.
Sheltered == {f \in Frame : f.pc \in {"loop", "release"}}
Shielded(s) == \A i \in 1..Len(s) : s[i] \in Sheltered => \E j \in 1..i-1 : s[j] \in Cleaners

-----------------------------------------------------------------------------
\* The invariants.

\* The handler that ends a work unlocks the statement after it, and only work
\* of a statement that is prepared is under way.
Locks ==
  /\ Has(stack, Enders) => locked /\ working = "idle"
  /\ Alone(stack, Enders)
  /\ working # "idle" => locked /\ prepared /\ KindOf[current] # "finalize"
  /\ working = "idle" <=> current = NoOp
  /\ preparing # "over" =>
       /\ ~Has(stack, Enders) /\ ~Has(stack, Failing) /\ ~Has(stack, Releasers)
       /\ locked /\ ~prepared /\ ~finalized /\ released = 0
  /\ preparing = "new" => queue = <<>>

\* What the operation whose work is done will answer.
Verdict ==
  /\ working = "begun" => ~failed
  /\ working = "ran" /\ ~(KindOf[current] = "bind" /\ Params[current] \in {"none", "undefined"})
       => (Refuses(current) <=> failed)

\* The sqlite3_stmt is there from the preparation to the finalization.
Handles ==
  /\ preparing \in {"new", "scheduled", "begun"} => status = "ok"
  /\ preparing = "ran" /\ status = "ok" => handle = "live"
  /\ prepared /\ released = 0 => handle = "live"

\* A statement is finalized by one handler, and not while work is under way.
Finalizing ==
  /\ Alone(stack, Failing) /\ (Has(stack, Failing) => ~finalized /\ ~prepared)
  /\ Alone(stack, Releasers) /\ (Has(stack, Releasers) => finalized /\ released = 0)
  /\ finalized /\ released = 0 => Has(stack, Releasers)
  /\ released <= 1 /\ (released > 0 => finalized)
  /\ working # "idle" => ~finalized

\* What finalize answers, and when.
FinalizeSaid == \E i \in 1..Len(answers) : KindOf[answers[i].op] = "finalize"
                                           /\ answers[i].says # "refused"

Owners ==
  /\ \A o \in Ops : Has(stack, Owned(o)) => prepared /\ KindOf[o] = "finalize"
  /\ Has(stack, Owned(NoOp)) => ~prepared
  /\ FinalizeSaid <=> prepared /\ released > 0

\* CleanQueue empties the queue before anything else goes on.
Shelter ==
  /\ ~raised /\ ~Has(stack, Dead)
  /\ finalized /\ queue # <<>> => Shielded(stack)
  /\ prepared /\ ~locked /\ ~finalized /\ queue # <<>> => InPc("process") \/ InPc("loop")
  /\ Has(stack, Cleaners) => finalized
  /\ Has(stack, Looping) => prepared

Calm == ~MayThrow => Handles /\ Finalizing /\ Owners /\ Shelter
Full == IInv /\ Locks /\ Verdict /\ Calm

-----------------------------------------------------------------------------
\* The stack.

LEMMA FramesNeutral ==
  /\ \A p \in {"js", "dead", "process", "loop", "clean"} : At(p) \in Neutral
  /\ \A b \in BOOLEAN : Cleaning(b) \in Neutral
  /\ Callback \in Neutral
  BY DEF Neutral, Frame, PCs, At, Cleaning, Callback

LEMMA FramesApart ==
  /\ Enders \cap Neutral = {} /\ Failing \cap Neutral = {} /\ Releasers \cap Neutral = {}
  /\ \A o : Owned(o) \cap Neutral = {}
  BY DEF Enders, Failing, Releasers, Neutral, Owned

LEMMA OtherFrames ==
  /\ \A p \in {"end", "errorEnd", "failed", "reject"} : At(p) \in Frame /\ At(p).pc = p
  /\ \A o \in Ops \cup {NoOp} : /\ Release(o) \in Frame /\ Release(o).pc = "release"
                                /\ Release(o).op = o
  BY DEF Frame, PCs, At, Release

\* s2 has the frames of s, but for neutral ones.
Same(s2, s) ==
  /\ s2 \in Seq(Frame)
  /\ \A P : P \cap Neutral = {} => (Has(s2, P) <=> Has(s, P)) /\ (Alone(s2, P) <=> Alone(s, P))

\* Or it lacks some that a callback that threw has unwound.
Fewer(s2, s) ==
  /\ s2 \in Seq(Frame)
  /\ \A P : P \cap Neutral = {} => (Has(s2, P) => Has(s, P)) /\ (Alone(s, P) => Alone(s2, P))

LEMMA SameAll ==
  ASSUME NEW s \in Seq(Frame)
  PROVE  Same(s, s)
  BY DEF Same

LEMMA SamePush ==
  ASSUME NEW s, NEW r, Same(r, s), NEW f \in Neutral
  PROVE  Same(<<f>> \o r, s)
<1>1. f \in Frame /\ r \in Seq(Frame)
  BY DEF Neutral, Same
<1>2. /\ <<f>> \o r \in Seq(Frame)
      /\ \A P : Has(<<f>> \o r, P) <=> f \in P \/ Has(r, P)
      /\ \A P : Alone(<<f>> \o r, P) <=> Alone(r, P) /\ ~(f \in P /\ Has(r, P))
  BY <1>1, PushFrame
<1> QED
  BY <1>2 DEF Same

LEMMA SamePushTwo ==
  ASSUME NEW s, NEW r, Same(r, s), NEW f \in Neutral, NEW g \in Neutral
  PROVE  Same(<<f, g>> \o r, s)
<1>1. f \in Frame /\ g \in Frame /\ r \in Seq(Frame)
  BY DEF Neutral, Same
<1>2. <<f, g>> \o r = <<f>> \o (<<g>> \o r)
  BY <1>1, PushTwo
<1>3. Same(<<g>> \o r, s)
  BY SamePush
<1> QED
  BY <1>2, <1>3, SamePush

LEMMA SamePop ==
  ASSUME NEW s \in Seq(Frame), s # <<>>, Head(s) \in Neutral
  PROVE  Same(Tail(s), s)
<1>1. /\ Tail(s) \in Seq(Frame)
      /\ \A P : Has(s, P) <=> Head(s) \in P \/ Has(Tail(s), P)
      /\ \A P : Alone(s, P) <=> Alone(Tail(s), P) /\ ~(Head(s) \in P /\ Has(Tail(s), P))
  BY PopFrame
<1> QED
  BY <1>1 DEF Same

LEMMA SameCall ==
  ASSUME NEW s, NEW r, Same(r, s), NEW o
  PROVE  Same(Call(o) \o r, s)
<1>1. r \in Seq(Frame)
  BY DEF Same
<1>2. CASE o \in Silent
  <2>1. Call(o) \o r = r
    BY <1>1, <1>2 DEF Call
  <2> QED
    BY <2>1
<1>3. CASE o \notin Silent
  <2>1. Call(o) = <<Callback>>
    BY <1>3 DEF Call
  <2>2. Same(<<Callback>> \o r, s)
    BY FramesNeutral, SamePush
  <2> QED
    BY <2>1, <2>2
<1> QED
  BY <1>2, <1>3

\* Frames that are taken off are missed.
LEMMA FewerPop ==
  ASSUME NEW s \in Seq(Frame), s # <<>>
  PROVE  Fewer(Tail(s), s)
<1>1. /\ Tail(s) \in Seq(Frame)
      /\ \A P : Has(s, P) <=> Head(s) \in P \/ Has(Tail(s), P)
      /\ \A P : Alone(s, P) <=> Alone(Tail(s), P) /\ ~(Head(s) \in P /\ Has(Tail(s), P))
  BY PopFrame
<1> QED
  BY <1>1 DEF Fewer

LEMMA FewerUnwound ==
  ASSUME stack \in Seq(Frame), stack # <<>>
  PROVE  Fewer(Unwound, stack)
<1> DEFINE t == Tail(stack)
<1>1. t \in Seq(Frame) /\ Fewer(t, stack)
  BY FewerPop DEF Fewer
<1>2. CASE Unwound = t
  BY <1>1, <1>2
<1>3. CASE t # <<>> /\ Unwound = Tail(t)
  <2>1. Fewer(Tail(t), t)
    BY <1>1, <1>3, FewerPop
  <2> HIDE DEF t
  <2>2. Fewer(Tail(t), stack)
    BY <1>1, <2>1 DEF Fewer
  <2> QED
    BY <1>3, <2>2
<1> QED
  BY <1>2, <1>3 DEF Unwound

\* What is known of the frame on top.
LEMMA TopFrame ==
  ASSUME TypeOK, stack # <<>>
  PROVE  /\ stack \in Seq(Frame) /\ Head(stack) \in Frame /\ Tail(stack) \in Seq(Frame)
         /\ Same(Tail(stack), Tail(stack))
         /\ Head(stack).pc \in {"js", "dead", "process", "loop", "clean", "cleaning"} =>
              Head(stack) \in Neutral /\ Same(Tail(stack), stack)
<1>1. stack \in Seq(Frame)
  BY DEF TypeOK
<1>2. Head(stack) \in Frame /\ Tail(stack) \in Seq(Frame)
  BY <1>1, PopFrame
<1> DEFINE h == Head(stack)
<1>3. h.pc \in {"js", "dead", "process", "loop", "clean", "cleaning"} => h \in Neutral
  <2>1. h \in Frame
    BY <1>2
  <2> HIDE DEF h
  <2> QED
    BY <2>1 DEF Neutral
<1>4. h \in Neutral => Same(Tail(stack), stack)
  BY <1>1, SamePop
<1> QED
  BY <1>1, <1>2, <1>3, <1>4, SameAll

-----------------------------------------------------------------------------
\* The steps that leave all but neutral frames, the queue and the answers.

Mild ==
  \/ \E o \in Ops : ScheduleRefuse(o) \/ ScheduleQueue(o)
  \/ ProcessClean \/ ProcessReturn \/ CleanEnter \/ CleanCall \/ CleanReturn
  \/ NewTurn \/ JsReturn \/ JsCatch

Unwinding == JsThrow \/ DeadCallback

LEMMA MildFrame ==
  ASSUME Mild \/ Unwinding
  PROVE  UNCHANGED <<fields, work, released, preparing, status, handle>>
  BY DEF Mild, Unwinding, ScheduleRefuse, ScheduleQueue, Enter, ProcessClean, ProcessReturn,
     CleanEnter, CleanCall, CleanReturn, DeadCallback, NewTurn, JsReturn, JsThrow, JsCatch, fields,
     vm

LEMMA MildStack ==
  ASSUME TypeOK, Mild
  PROVE  Same(stack', stack)
<1>0. stack \in Seq(Frame) /\ Same(stack, stack)
  BY SameAll DEF TypeOK
<1>1. CASE \E o \in Ops : ScheduleRefuse(o) \/ ScheduleQueue(o)
  <2>1. stack' = <<At("clean")>> \o stack \/ stack' = stack
    BY <1>1 DEF ScheduleRefuse, ScheduleQueue
  <2>2. Same(<<At("clean")>> \o stack, stack)
    BY <1>0, FramesNeutral, SamePush
  <2> QED
    BY <1>0, <2>1, <2>2
<1>2. CASE ProcessClean \/ ProcessReturn
  <2>1. /\ stack # <<>> /\ Head(stack).pc \in {"process", "loop"}
        /\ stack' = <<At("clean")>> \o Tail(stack) \/ stack' = Tail(stack)
    BY <1>2 DEF ProcessClean, ProcessReturn, InLoop, InPc
  <2>2. Same(Tail(stack), stack) /\ Same(<<At("clean")>> \o Tail(stack), stack)
    BY <2>1, TopFrame, FramesNeutral, SamePush
  <2> QED
    BY <2>1, <2>2
<1>3. CASE CleanEnter
  <2>1. /\ stack # <<>> /\ Head(stack).pc = "clean"
        /\ stack' = <<Cleaning(FALSE)>> \o Tail(stack) \/ stack' = Tail(stack)
    BY <1>3 DEF CleanEnter, InPc
  <2>2. Same(Tail(stack), stack) /\ Same(<<Cleaning(FALSE)>> \o Tail(stack), stack)
    BY <2>1, TopFrame, FramesNeutral, SamePush
  <2> QED
    BY <2>1, <2>2
<1>4. CASE CleanCall
  <2> DEFINE o == Head(queue)
             f == Cleaning(Head(stack).called \/ o \notin Silent)
             t == Tail(stack)
             r == <<f>> \o t
  <2>1. /\ stack # <<>> /\ Head(stack).pc = "cleaning"
        /\ stack' = Call(o) \o <<f>> \o t
    BY <1>4 DEF CleanCall, InPc
  <2>2. t \in Seq(Frame) /\ Same(t, stack) /\ f \in Neutral
    BY <2>1, TopFrame, FramesNeutral
  <2>3. f \in Frame /\ Callback \in Frame
    BY <2>2, FramesNeutral DEF Neutral
  <2> HIDE DEF f, t, o
  <2>4. Same(r, stack)
    BY <2>2, SamePush
  <2>5. stack' = Call(o) \o r
    <3>1. <<f>> \in Seq(Frame) /\ Call(o) \in Seq(Frame)
      BY <2>3 DEF Call
    <3> QED
      BY <2>1, <2>2, <3>1, ConcatAssociative
  <2> HIDE DEF r
  <2> QED
    BY <2>4, <2>5, SameCall
<1>5. CASE CleanReturn
  <2>1. /\ stack # <<>> /\ Head(stack).pc = "cleaning"
        /\ stack' = (IF Head(stack).called THEN <<>> ELSE <<Callback>>) \o Tail(stack)
    BY <1>5 DEF CleanReturn, InPc
  <2>2. /\ Tail(stack) \in Seq(Frame) /\ Same(Tail(stack), stack)
        /\ Same(<<Callback>> \o Tail(stack), stack)
    BY <2>1, TopFrame, FramesNeutral, SamePush
  <2>3. <<>> \o Tail(stack) = Tail(stack)
    BY <2>2
  <2> QED
    BY <2>1, <2>2, <2>3
<1>6. CASE NewTurn
  <2> DEFINE f == At("js")
             e == <<>>
  <2>1. stack = e /\ stack' = <<f>> /\ f \in Neutral
    BY <1>6, FramesNeutral DEF NewTurn
  <2> HIDE DEF f
  <2>2. f \in Frame
    BY <2>1 DEF Neutral
  <2>3. <<f>> = <<f>> \o e
    BY <2>2, FewFrames
  <2> HIDE DEF e
  <2>4. Same(<<f>> \o e, stack)
    BY <1>0, <2>1, SamePush
  <2> QED
    BY <2>1, <2>3, <2>4
<1>7. CASE JsReturn
  <2>1. stack # <<>> /\ Head(stack).pc = "js" /\ stack' = Tail(stack)
    BY <1>7 DEF JsReturn, Js, InPc
  <2> QED
    BY <2>1, TopFrame
<1>8. CASE JsCatch
  BY <1>0, <1>8 DEF JsCatch
<1> QED
  BY <1>1, <1>2, <1>3, <1>4, <1>5, <1>6, <1>7, <1>8 DEF Mild

LEMMA UnwindingStack ==
  ASSUME TypeOK, Unwinding
  PROVE  Fewer(stack', stack) /\ (MayThrow \/ Has(stack, Dead))
<1>1. stack # <<>> /\ stack' = Unwound /\ (MayThrow \/ Head(stack).pc = "dead")
  BY DEF Unwinding, JsThrow, DeadCallback, InPc
<1>2. stack \in Seq(Frame) /\ Head(stack) \in Frame
  BY <1>1, TopFrame
<1>3. Has(stack, {Head(stack)})
  BY <1>1, <1>2, PopFrame
<1>4. Head(stack).pc = "dead" => Has(stack, Dead)
  BY <1>2, <1>3 DEF Has, Dead
<1> QED
  BY <1>1, <1>2, <1>4, FewerUnwound

-----------------------------------------------------------------------------
\* The frames that the other steps leave.

\* Finalize_ that an operation, or NoOp, begins.
LEMMA ReleaseStack ==
  ASSUME NEW o \in Ops \cup {NoOp}, NEW s, NEW r, Same(r, s),
         stack' = <<At("clean"), Release(o)>> \o r
  PROVE  /\ stack' \in Seq(Frame)
         /\ \A P : P \cap Neutral = {} =>
              /\ Has(stack', P) <=> Release(o) \in P \/ Has(s, P)
              /\ Alone(stack', P) <=> Alone(s, P) /\ ~(Release(o) \in P /\ Has(s, P))
<1> DEFINE f == At("clean")
           g == Release(o)
           c == <<g>> \o r
<1>1. f \in Neutral /\ f \in Frame /\ g \in Frame /\ r \in Seq(Frame)
  BY FramesNeutral, OtherFrames DEF Neutral, Same
<1> HIDE DEF f, g
<1>2. stack' = <<f>> \o (<<g>> \o r)
  <2>1. stack' = <<f, g>> \o r
    BY DEF f, g
  <2> QED
    BY <1>1, <2>1, PushTwo
<1>3. /\ c \in Seq(Frame)
      /\ \A P : Has(c, P) <=> g \in P \/ Has(r, P)
      /\ \A P : Alone(c, P) <=> Alone(r, P) /\ ~(g \in P /\ Has(r, P))
  BY <1>1, PushFrame
<1> HIDE DEF c
<1>4. Same(stack', c)
  <2>1. stack' = <<f>> \o c
    BY <1>2 DEF c
  <2>2. Same(c, c)
    BY <1>3, SameAll
  <2>3. Same(<<f>> \o c, c)
    BY <1>1, <2>2, SamePush
  <2> QED
    BY <2>1, <2>3
<1> QED
  BY <1>3, <1>4 DEF Same, g

LEMMA RunStack ==
  ASSUME NEW o \in Ops, NEW r, Same(r, stack), Run(o, r), KindOf[o] = "finalize"
  PROVE  /\ stack' \in Seq(Frame)
         /\ \A P : P \cap Neutral = {} =>
              /\ Has(stack', P) <=> Release(o) \in P \/ Has(stack, P)
              /\ Alone(stack', P) <=> Alone(stack, P) /\ ~(Release(o) \in P /\ Has(stack, P))
<1>1. stack' = <<At("clean"), Release(o)>> \o r
  BY DEF Run
<1> QED
  BY <1>1, ReleaseStack

\* The steps of JavaScript and of Process that start an operation.
Starting(o) ==
  /\ ~locked /\ prepared
  /\ \E r : Same(r, stack) /\ Run(o, r)
  /\ UNCHANGED <<prepared, vm, released, preparing, raised, answers>>

LEMMA StartKinds ==
  /\ \A o \in Ops : TypeOK /\ ScheduleRun(o) => Starting(o) /\ ~finalized
  /\ TypeOK /\ ProcessRun => \E o \in Ops : Starting(o) /\ o = Head(queue)
<1>1. ASSUME NEW o \in Ops, TypeOK, ScheduleRun(o)
      PROVE  Starting(o) /\ ~finalized
  <2>1. Same(stack, stack)
    BY <1>1, SameAll DEF TypeOK
  <2> QED
    BY <1>1, <2>1 DEF ScheduleRun, Enter, Starting
<1>2. ASSUME TypeOK, ProcessRun
      PROVE  \E o \in Ops : Starting(o) /\ o = Head(queue)
  <2> DEFINE r == <<At("loop")>> \o Tail(stack)
  <2>1. /\ stack # <<>> /\ Head(stack).pc \in {"process", "loop"} /\ prepared /\ ~locked
        /\ queue # <<>> /\ Run(Head(queue), r)
        /\ UNCHANGED <<prepared, vm, released, preparing, raised, answers>>
    BY <1>2 DEF ProcessRun, InLoop, InPc, history
  <2>2. Same(r, stack)
    BY <1>2, <2>1, TopFrame, FramesNeutral, SamePush
  <2>3. Head(queue) \in Ops
    BY <1>2, <2>1 DEF TypeOK
  <2> HIDE DEF r
  <2> QED
    BY <2>1, <2>2, <2>3 DEF Starting
<1> QED
  BY <1>1, <1>2

LEMMA FailStack ==
  ASSUME TypeOK, FinalizeFailed
  PROVE  LET h == Head(stack)
             t == Tail(stack)
             e == At("errorEnd")
         IN  /\ stack # <<>> /\ h \in Frame /\ h \in Failing /\ t \in Seq(Frame)
             /\ InPc("failed") <=> h \in Enders
             /\ stack' \in Seq(Frame)
             /\ \A P : P \cap Neutral = {} =>
                  /\ Has(stack', P) <=> \/ Release(NoOp) \in P \/ (h \in Enders /\ e \in P)
                                        \/ Has(t, P)
                  /\ (Alone(t, P) /\ ~(Release(NoOp) \in P /\ Has(t, P))
                                  /\ ~(h \in Enders /\ e \in P /\ Has(t, P))
                                  /\ ~(Release(NoOp) \in P /\ e \in P)) => Alone(stack', P)
<1> DEFINE h == Head(stack)
           t == Tail(stack)
           e == At("errorEnd")
           r == (IF InPc("failed") THEN <<e>> ELSE <<>>) \o t
           a == <<At("clean"), Release(NoOp)>>
           b == IF InPc("failed") THEN <<e>> ELSE <<>>
<1>1. /\ stack # <<>> /\ h.pc \in {"failed", "reject"} /\ (InPc("failed") <=> h.pc = "failed")
      /\ stack' = a \o b \o t
  BY DEF FinalizeFailed, InPc
<1>2. h \in Frame /\ t \in Seq(Frame)
  BY <1>1, TopFrame
<1> HIDE DEF h, t
<1>3. h \in Failing /\ (InPc("failed") <=> h \in Enders)
  BY <1>1, <1>2 DEF Failing, Enders
<1>4. e \in Frame /\ a \in Seq(Frame) /\ b \in Seq(Frame)
  <2>1. e \in Frame /\ At("clean") \in Frame /\ Release(NoOp) \in Frame
    BY FramesNeutral, OtherFrames DEF Neutral
  <2> QED
    BY <2>1
<1>5. stack' = a \o r
  <2> HIDE DEF a, b
  <2>1. stack' = (a \o b) \o t
    BY <1>1
  <2>2. (a \o b) \o t = a \o (b \o t)
    BY <1>2, <1>4, ConcatAssociative
  <2> QED
    BY <2>1, <2>2 DEF b
<1>6. /\ r \in Seq(Frame)
      /\ \A P : Has(r, P) <=> (h \in Enders /\ e \in P) \/ Has(t, P)
      /\ \A P : Alone(r, P) <=> Alone(t, P) /\ ~(h \in Enders /\ e \in P /\ Has(t, P))
  <2>1. CASE h \in Enders
    <3>1. r = <<e>> \o t
      BY <1>3, <2>1
    <3> HIDE DEF e, r
    <3> QED
      BY <1>2, <1>4, <2>1, <3>1, PushFrame
  <2>2. CASE h \notin Enders
    <3>1. r = t
      BY <1>2, <1>3, <2>2
    <3> HIDE DEF r
    <3> QED
      BY <1>2, <2>2, <3>1
  <2> QED
    BY <2>1, <2>2
<1> HIDE DEF r, e
<1>7. Same(r, r) /\ NoOp \in Ops \cup {NoOp}
  BY <1>6, SameAll
<1>8. /\ stack' \in Seq(Frame)
      /\ \A P : P \cap Neutral = {} =>
           /\ Has(stack', P) <=> Release(NoOp) \in P \/ Has(r, P)
           /\ Alone(stack', P) <=> Alone(r, P) /\ ~(Release(NoOp) \in P /\ Has(r, P))
  BY <1>5, <1>7, ReleaseStack
<1> QED
  BY <1>1, <1>2, <1>3, <1>6, <1>8 DEF h, t, e

\* The end of Finalize_ and of the handlers.
LEMMA PopStack ==
  ASSUME TypeOK, FinalizeRelease \/ End
  PROVE  LET h == Head(stack)
         IN  /\ stack # <<>> /\ h \in Frame
             /\ FinalizeRelease => h.pc = "release" /\ h \in Releasers
             /\ End => h \in Enders
             /\ stack' \in Seq(Frame)
             /\ \A P : P \cap Neutral = {} =>
                  /\ Has(stack, P) <=> h \in P \/ Has(stack', P)
                  /\ Alone(stack, P) <=> Alone(stack', P) /\ ~(h \in P /\ Has(stack', P))
<1> DEFINE h == Head(stack)
           t == Tail(stack)
<1>1. /\ stack # <<>>
      /\ \/ FinalizeRelease /\ h.pc = "release"
            /\ (stack' = t \/ \E o : stack' = Call(o) \o t)
         \/ End /\ h.pc \in {"end", "errorEnd"} /\ stack' = <<At("process")>> \o t
  BY DEF FinalizeRelease, End, InPc
<1>2. /\ h \in Frame /\ t \in Seq(Frame) /\ Same(t, t)
      /\ \A P : Has(stack, P) <=> h \in P \/ Has(t, P)
      /\ \A P : Alone(stack, P) <=> Alone(t, P) /\ ~(h \in P /\ Has(t, P))
  BY <1>1, TopFrame, PopFrame
<1>3. Same(stack', t)
  <2> HIDE DEF t
  <2>1. CASE stack' = t
    BY <1>2, <2>1
  <2>2. CASE \E o : stack' = Call(o) \o t
    <3>1. PICK o : stack' = Call(o) \o t
      BY <2>2
    <3> QED
      BY <1>2, <3>1, SameCall
  <2>3. CASE stack' = <<At("process")>> \o t
    <3>1. Same(<<At("process")>> \o t, t)
      BY <1>2, SamePush, FramesNeutral
    <3> QED
      BY <2>3, <3>1
  <2> QED
    BY <1>1, <2>1, <2>2, <2>3
<1>4. /\ FinalizeRelease => h.pc = "release"
      /\ End => h.pc \in {"end", "errorEnd"}
  BY DEF FinalizeRelease, End, InPc
<1> HIDE DEF h, t
<1>5. (h.pc = "release" => h \in Releasers) /\ (h.pc \in {"end", "errorEnd"} => h \in Enders)
  BY <1>2 DEF Releasers, Enders
<1> QED
  BY <1>1, <1>2, <1>3, <1>4, <1>5 DEF Same, h

\* The handlers that libuv enters leave one frame.
LEMMA EnterStack ==
  ASSUME NEW p \in {"end", "errorEnd", "failed"}, NEW k,
         stack' = <<At("js"), At(p)>> \/ stack' = <<At(p)>> \/ stack' = Call(k) \o <<At(p)>>
         \/ stack' = <<>> \o <<At(p)>>
  PROVE  /\ stack' \in Seq(Frame)
         /\ \A P : P \cap Neutral = {} => (Has(stack', P) <=> At(p) \in P) /\ Alone(stack', P)
<1> DEFINE f == At(p)
           j == At("js")
           s == <<f>>
           e == <<>>
<1>1. f \in Frame /\ j \in Neutral
  BY FramesNeutral, OtherFrames
<1>2. j \in Frame
  BY <1>1 DEF Neutral
<1>3. <<j, f>> = <<j>> \o s
  <2> HIDE DEF j, f
  <2> QED
    BY <1>1, <1>2
<1>4. /\ s \in Seq(Frame) /\ \A P : (Has(s, P) <=> f \in P) /\ Alone(s, P)
  <2> HIDE DEF f
  <2>1. /\ e \in Seq(Frame) /\ \A P : ~Has(e, P) /\ Alone(e, P)
        /\ s = <<f>> \o e
    BY <1>1, EmptyStack, FewFrames
  <2> HIDE DEF e
  <2>2. /\ <<f>> \o e \in Seq(Frame)
        /\ \A P : Has(<<f>> \o e, P) <=> f \in P \/ Has(e, P)
        /\ \A P : Alone(<<f>> \o e, P) <=> Alone(e, P) /\ ~(f \in P /\ Has(e, P))
    BY <1>1, <2>1, PushFrame
  <2> HIDE DEF s
  <2> QED
    BY <2>1, <2>2
<1>5. e \o s = s
  <2> HIDE DEF f
  <2> QED
    BY <1>4
<1>6. \/ stack' = <<j>> \o s \/ stack' = s \/ stack' = Call(k) \o s
  BY <1>3, <1>5
<1> HIDE DEF s, j, f
<1>7. Same(stack', s)
  BY <1>1, <1>4, <1>6, SameAll, SamePush, SameCall
<1> QED
  BY <1>4, <1>7 DEF Same, f

LEMMA RejectStack ==
  ASSUME TypeOK, PrepareRejected
  PROVE  /\ stack' \in Seq(Frame)
         /\ \A P : P \cap Neutral = {} =>
              /\ Has(stack', P) <=> At("reject") \in P \/ Has(stack, P)
              /\ Alone(stack', P) <=> Alone(stack, P) /\ ~(At("reject") \in P /\ Has(stack, P))
<1> DEFINE f == Callback
           g == At("reject")
           c == <<g>> \o stack
<1>1. f \in Neutral /\ f \in Frame /\ g \in Frame /\ stack \in Seq(Frame)
  BY FramesNeutral, OtherFrames DEF Neutral, TypeOK
<1>2. stack' = <<f, g>> \o stack
  BY DEF PrepareRejected
<1> HIDE DEF f, g
<1>3. stack' = <<f>> \o c
  BY <1>1, <1>2, PushTwo
<1>4. /\ c \in Seq(Frame)
      /\ \A P : Has(c, P) <=> g \in P \/ Has(stack, P)
      /\ \A P : Alone(c, P) <=> Alone(stack, P) /\ ~(g \in P /\ Has(stack, P))
  BY <1>1, PushFrame
<1> HIDE DEF c
<1>5. Same(stack', c)
  BY <1>1, <1>3, <1>4, SameAll, SamePush
<1> QED
  BY <1>4, <1>5 DEF Same, g

-----------------------------------------------------------------------------
\* The locks, and what an operation will answer, whichever callbacks throw.

\* The steps of the database.
Preparing == Construct \/ ConstructRejected \/ Prepare \/ WorkPrepare \/ AfterPrepare

LEMMA StepParts ==
  ASSUME TypeOK, Step
  PROVE  \/ Mild \/ Unwinding \/ Preparing \/ (\E o \in Ops : Starting(o))
         \/ FinalizeFailed \/ FinalizeRelease \/ End
         \/ \E o \in Ops : Work(o) \/ After(o)
  BY StartKinds DEF Step, Handler, Schedule, Mild, Unwinding, Preparing

LEMMA MildLocks ==
  ASSUME TypeOK, Locks, Verdict, Mild \/ Unwinding
  PROVE  Locks' /\ Verdict'
<1>1. UNCHANGED <<prepared, locked, finalized, current, working, failed, released, preparing,
                  status>>
  BY MildFrame DEF fields, work
<1>2. Fewer(stack', stack)
  BY MildStack, UnwindingStack DEF Same, Fewer
<1>3. /\ Has(stack', Enders) => Has(stack, Enders)
      /\ Alone(stack, Enders) => Alone(stack', Enders)
      /\ Has(stack', Failing) => Has(stack, Failing)
      /\ Has(stack', Releasers) => Has(stack, Releasers)
  BY <1>2, FramesApart DEF Fewer
<1>4. preparing = "new" => queue' = <<>>
  BY DEF Locks, Mild, Unwinding, ScheduleRefuse, ScheduleQueue, Enter, ProcessClean,
     ProcessReturn, CleanEnter, CleanCall, CleanReturn, DeadCallback, NewTurn, JsReturn, JsThrow,
     JsCatch
<1>5. Locks'
  BY <1>1, <1>3, <1>4 DEF Locks
<1>6. Verdict'
  BY <1>1 DEF Verdict, Refuses
<1> QED
  BY <1>5, <1>6

LEMMA PreparingLocks ==
  ASSUME TypeOK, Locks, Verdict, Preparing
  PROVE  Locks' /\ Verdict'
<1>0. /\ preparing # "over" /\ working = "idle" /\ current = NoOp /\ locked /\ ~prepared
      /\ UNCHANGED <<working, current, failed, locked, queue>>
      /\ ~Has(stack, Enders) /\ ~Has(stack, Failing) /\ ~Has(stack, Releasers)
  BY DEF Locks, Preparing, Construct, ConstructRejected, Prepare, PrepareBegin, PrepareRejected,
     WorkPrepare, AfterPrepare, fields, work
<1>1. Verdict'
  BY <1>0 DEF Verdict
<1>6. locked' /\ working' = "idle" /\ current' = NoOp /\ queue' = queue
  BY <1>0
<1>7. Alone(stack', Enders) /\ preparing' = "over" => Locks'
  BY <1>6 DEF Locks
<1>2. CASE Construct \/ PrepareBegin \/ WorkPrepare
  <2>1. /\ UNCHANGED <<prepared, finalized, released, stack>>
        /\ preparing' \in {"scheduled", "begun", "ran"}
    BY <1>2 DEF Construct, PrepareBegin, WorkPrepare, fields
  <2>2. /\ Alone(stack', Enders) /\ ~Has(stack', Enders) /\ ~Has(stack', Failing)
        /\ ~Has(stack', Releasers) /\ ~prepared' /\ ~finalized' /\ released' = 0
    BY <1>0, <2>1 DEF Locks
  <2> QED
    BY <1>1, <1>6, <2>1, <2>2 DEF Locks
<1>3. CASE ConstructRejected
  <2>1. stack' = <<Callback>> \o stack /\ preparing' = "over"
    BY <1>3 DEF ConstructRejected
  <2>2. Same(stack', stack)
    BY <2>1, SameAll, SamePush, FramesNeutral DEF TypeOK
  <2>3. Alone(stack', Enders)
    BY <2>2, FramesApart DEF Same, Locks
  <2> QED
    BY <1>1, <1>7, <2>1, <2>3
<1>4. CASE PrepareRejected
  <2>1. preparing' = "over"
    BY <1>4 DEF PrepareRejected
  <2>2. At("reject") \notin Enders
    BY OtherFrames DEF Enders
  <2>3. Alone(stack', Enders)
    BY <1>0, <1>4, <2>2, RejectStack, FramesApart DEF Locks
  <2> QED
    BY <1>1, <1>7, <2>1, <2>3
<1>5. CASE AfterPrepare
  <2> DEFINE p == IF status = "ok" THEN "end" ELSE "failed"
  <2>1. preparing' = "over" /\ stack' = <<At("js"), At(p)>> /\ p \in {"end", "errorEnd", "failed"}
    BY <1>5 DEF AfterPrepare
  <2> HIDE DEF p
  <2>2. Alone(stack', Enders)
    BY <2>1, EnterStack, FramesApart
  <2> QED
    BY <1>1, <1>7, <2>1, <2>2
<1> QED
  BY <1>1, <1>2, <1>3, <1>4, <1>5 DEF Preparing, Prepare

LEMMA StartingLocks ==
  ASSUME TypeOK, Locks, Verdict, NEW o \in Ops, Starting(o)
  PROVE  Locks' /\ Verdict'
<1>1. /\ ~locked /\ prepared /\ working = "idle" /\ preparing = "over"
      /\ ~Has(stack, Enders)
      /\ UNCHANGED <<prepared, released, preparing, status>>
  BY DEF Starting, Locks, vm
<1>2. PICK r : Same(r, stack) /\ Run(o, r)
  BY DEF Starting
<1>3. o # NoOp
  BY OpsAssumption
<1>4. CASE KindOf[o] # "finalize"
  <2>1. /\ locked' = TRUE /\ current' = o /\ working' = "begun" /\ failed' = FALSE /\ stack' = r
    BY <1>2, <1>4 DEF Run
  <2>2. ~Has(stack', Enders) /\ Alone(stack', Enders)
    BY <1>1, <1>2, <2>1, FramesApart DEF Same, Locks
  <2> QED
    BY <1>1, <1>3, <1>4, <2>1, <2>2 DEF Locks, Verdict
<1>5. CASE KindOf[o] = "finalize"
  <2>1. UNCHANGED <<locked, working, current, failed>>
    BY <1>2, <1>5 DEF Run, work
  <2>2. Release(o) \notin Enders
    BY OtherFrames DEF Enders
  <2>3. ~Has(stack', Enders) /\ Alone(stack', Enders)
    BY <1>1, <1>2, <1>5, <2>2, RunStack, FramesApart DEF Locks
  <2> QED
    BY <1>1, <2>1, <2>3 DEF Locks, Verdict
<1> QED
  BY <1>4, <1>5

LEMMA EndLocks ==
  ASSUME TypeOK, Locks, Verdict, FinalizeFailed \/ FinalizeRelease \/ End
  PROVE  Locks' /\ Verdict'
<1>0. UNCHANGED <<prepared, current, working, failed, preparing, status, queue>>
  BY DEF FinalizeFailed, FinalizeRelease, End, fields, work, vm
<1>1. CASE FinalizeFailed
  <2> DEFINE h == Head(stack)
             t == Tail(stack)
             e == At("errorEnd")
  <2>1. /\ stack # <<>> /\ h \in Failing /\ stack \in Seq(Frame)
        /\ \A P : P \cap Neutral = {} =>
             /\ Has(stack', P) <=> \/ Release(NoOp) \in P \/ (h \in Enders /\ e \in P)
                                   \/ Has(t, P)
             /\ (Alone(t, P) /\ ~(Release(NoOp) \in P /\ Has(t, P))
                             /\ ~(h \in Enders /\ e \in P /\ Has(t, P))
                             /\ ~(Release(NoOp) \in P /\ e \in P)) => Alone(stack', P)
    BY <1>1, FailStack DEF TypeOK
  <2>2. /\ \A P : Has(stack, P) <=> h \in P \/ Has(t, P)
        /\ \A P : Alone(stack, P) <=> Alone(t, P) /\ ~(h \in P /\ Has(t, P))
    BY <2>1, PopFrame
  <2>3. Release(NoOp) \notin Enders
    BY OtherFrames DEF Enders
  <2> HIDE DEF h, t, e
  <2>4. (Has(stack', Enders) => Has(stack, Enders)) /\ Alone(stack', Enders)
    BY <2>1, <2>2, <2>3, FramesApart DEF Locks
  <2>5. UNCHANGED locked /\ preparing = "over"
    BY <1>1, <2>1, <2>2 DEF FinalizeFailed, Locks
  <2> QED
    BY <1>0, <2>4, <2>5 DEF Locks, Verdict, Refuses
<1>2. CASE FinalizeRelease \/ End
  <2> DEFINE h == Head(stack)
  <2>1. /\ FinalizeRelease => h \in Releasers
        /\ End => h \in Enders
        /\ \A P : P \cap Neutral = {} =>
             /\ Has(stack, P) <=> h \in P \/ Has(stack', P)
             /\ Alone(stack, P) <=> Alone(stack', P) /\ ~(h \in P /\ Has(stack', P))
    BY <1>2, PopStack
  <2> HIDE DEF h
  <2>2. /\ Has(stack', Enders) => Has(stack, Enders)
        /\ Alone(stack', Enders)
        /\ End => Has(stack, Enders) /\ ~Has(stack', Enders)
        /\ FinalizeRelease => Has(stack, Releasers)
    BY <2>1, FramesApart DEF Locks
  <2>3. preparing = "over" /\ (End => working = "idle")
    BY <1>2, <2>2 DEF Locks
  <2>4. (FinalizeRelease /\ UNCHANGED locked) \/ End
    BY <1>2 DEF FinalizeRelease, fields
  <2>5. Locks'
    BY <1>0, <2>2, <2>3, <2>4 DEF Locks
  <2> QED
    BY <1>0, <2>5 DEF Verdict, Refuses
<1> QED
  BY <1>1, <1>2

LEMMA WorkLocks ==
  ASSUME TypeOK, Locks, Verdict, NEW o \in Ops, Work(o)
  PROVE  Locks' /\ Verdict'
<1>1. /\ current = o /\ working = "begun" /\ working' \in {"ran", "crashed"} /\ ~failed
      /\ UNCHANGED <<prepared, locked, finalized, queue, released, preparing, current, stack>>
  BY DEF Verdict, Work, WorkBind, WorkStep, WorkAll, WorkReset, WorkSkip, WorkRefused, WorkGone,
     Working, fields
<1>2. Locks'
  BY <1>1 DEF Locks
<1>3. ASSUME working' = "ran", ~(KindOf[o] = "bind" /\ Params[o] \in {"none", "undefined"})
      PROVE  Refuses(o)' <=> failed'
  <2>0. KindOf[o] \in Kinds /\ Params[o] \in Parameters
    BY OpKindAssumption
  <2>1. CASE WorkBind(o)
    BY <1>1, <1>3, <2>0, <2>1 DEF WorkBind, Usable, Refuses, Parameters
  <2>2. CASE WorkStep(o)
    BY <2>2 DEF WorkStep, Stepped, Refuses
  <2>3. CASE WorkAll(o)
    BY <2>3 DEF WorkAll, Refuses
  <2>4. CASE WorkReset(o)
    BY <1>1, <2>4 DEF WorkReset, Refuses
  <2>5. CASE WorkSkip(o)
    BY <1>1, <2>5 DEF WorkSkip, Skips, Refuses
  <2>6. CASE WorkRefused(o)
    <3>1. status' = "error" /\ failed' /\ KindOf[o] # "reset" /\ KindOf[o] # "finalize"
      BY <1>1, <2>6 DEF WorkRefused, Locks
    <3> QED
      BY <2>0, <3>1 DEF Refuses, Kinds
  <2>7. CASE WorkGone(o)
    <3>1. KindOf[o] \notin {"reset", "finalize"} /\ Params[o] = "none" /\ KindOf[o] # "bind"
      BY <1>1, <1>3, <2>7 DEF WorkGone, Locks, Bare
    <3>2. CASE Skips(o)
      BY <1>1, <2>7, <3>1, <3>2 DEF WorkGone, Skips, Refuses
    <3>3. CASE ~Skips(o)
      <4>1. status' = "error" /\ failed'
        BY <2>7, <3>1, <3>3 DEF WorkGone
      <4> QED
        BY <2>0, <3>1, <4>1 DEF Refuses, Kinds
    <3> QED
      BY <3>2, <3>3
  <2> QED
    BY <2>1, <2>2, <2>3, <2>4, <2>5, <2>6, <2>7 DEF Work
<1>4. Verdict'
  BY <1>1, <1>3 DEF Verdict, Refuses
<1> QED
  BY <1>2, <1>4

LEMMA AfterLocks ==
  ASSUME TypeOK, Locks, Verdict, NEW o \in Ops, After(o)
  PROVE  Locks' /\ Verdict'
<1>1. /\ current = o /\ current' = NoOp /\ working = "ran" /\ working' = "idle"
      /\ UNCHANGED <<prepared, locked, finalized, queue, released, preparing>>
  BY DEF After, AfterError, AfterOk, Ended, fields
<1>2. locked /\ prepared /\ preparing = "over"
  BY <1>1 DEF Locks
<1>3. Alone(stack', Enders)
  <2>1. CASE AfterError(o)
    <3>1. stack' = <<At("js"), At("errorEnd")>>
      BY <2>1 DEF AfterError
    <3> QED
      BY <3>1, EnterStack, FramesApart
  <2>2. CASE AfterOk(o)
    <3>1. stack' = <<>> \o <<At("end")>> \/ stack' = Call(o) \o <<At("end")>>
      BY <2>2 DEF AfterOk
    <3> QED
      BY <3>1, EnterStack, FramesApart
  <2> QED
    BY <2>1, <2>2 DEF After
<1> QED
  BY <1>1, <1>2, <1>3 DEF Locks, Verdict

LEMMA LocksNext ==
  ASSUME TypeOK, Locks, Verdict, Step
  PROVE  Locks' /\ Verdict'
  BY StepParts, MildLocks, PreparingLocks, StartingLocks, EndLocks, WorkLocks, AfterLocks

\* Init leaves one frame, of JavaScript.
LEMMA InitStack ==
  ASSUME Init
  PROVE  stack \in Seq(Frame) /\ \A P : P \cap Neutral = {} => ~Has(stack, P) /\ Alone(stack, P)
<1> DEFINE f == At("js")
           e == <<>>
<1>1. stack = <<f>> /\ f \in Neutral
  BY FramesNeutral DEF Init
<1> HIDE DEF f
<1>2. f \in Frame
  BY <1>1 DEF Neutral
<1>3. e \in Seq(Frame) /\ (\A P : ~Has(e, P) /\ Alone(e, P)) /\ stack = <<f>> \o e
  BY <1>1, <1>2, EmptyStack, FewFrames
<1> HIDE DEF e
<1>4. Same(e, e)
  BY <1>3, SameAll
<1>5. Same(<<f>> \o e, e)
  BY <1>1, <1>4, SamePush
<1> QED
  BY <1>3, <1>5 DEF Same

LEMMA InitLocks ==
  ASSUME Init
  PROVE  Locks /\ Verdict
<1>1. /\ ~Has(stack, Enders) /\ ~Has(stack, Failing) /\ ~Has(stack, Releasers)
      /\ Alone(stack, Enders)
  BY InitStack, FramesApart
<1> QED
  BY <1>1 DEF Init, Locks, Verdict

LEMMA LocksInvariant == Spec => [](Locks /\ Verdict)
<1>1. Init => Locks /\ Verdict
  BY InitLocks
<1>2. IInv /\ Locks /\ Verdict /\ [Next]_vars => Locks' /\ Verdict'
  <2>1. ASSUME IInv, Locks, Verdict, Next
        PROVE  Locks' /\ Verdict'
    BY <2>1, LocksNext DEF Next, IInv
  <2>2. ASSUME Locks, Verdict, UNCHANGED vars
        PROVE  Locks' /\ Verdict'
    BY <2>2 DEF vars, fields, vm, work, Locks, Verdict, Refuses
  <2> QED
    BY <2>1, <2>2
<1> QED
  BY <1>1, <1>2, Invariant, PTL DEF Spec

\* An operation answers an error when, and only when, SQLite refused something
\* in its own work, whatever other operations did to the status of the
\* statement and whichever callbacks throw.
THEOREM StatementErrors == Spec => ErrorsAreOwn
<1> DEFINE A == \A o \in Ops :
                  /\ After(o) /\ ~(KindOf[o] = "bind" /\ Params[o] \in {"none", "undefined"})
                  => (answers'[Len(answers')].says = "error" <=> failed)
<1>1. IInv /\ Locks /\ Verdict => A
  <2> SUFFICES ASSUME IInv, Locks, Verdict, NEW o \in Ops, After(o),
                      ~(KindOf[o] = "bind" /\ Params[o] \in {"none", "undefined"})
               PROVE  answers'[Len(answers')].says = "error" <=> failed
    OBVIOUS
  <2>1. current = o /\ working = "ran" /\ ~raised
    BY DEF After, AfterError, AfterOk, Ended, EventLoop
  <2>2. Refuses(o) <=> failed
    BY <2>1 DEF Verdict
  <2>3. answers \in Seq(Answer)
    BY DEF IInv, TypeOK
  <2>4. ASSUME NEW says, NEW row, Tell(o, says, row)
        PROVE  answers'[Len(answers')].says = says
    <3> DEFINE a == [op |-> o, says |-> says, row |-> row]
    <3>1. answers' = Append(answers, a) /\ a.says = says
      BY <2>1, <2>4 DEF Tell
    <3> HIDE DEF a
    <3>2. Len(answers') = Len(answers) + 1 /\ Append(answers, a)[Len(answers) + 1] = a
      BY <2>3, <3>1
    <3> QED
      BY <3>1, <3>2
  <2>5. CASE AfterError(o)
    <3>1. Refuses(o) /\ Tell(o, "error", 0)
      BY <2>5 DEF AfterError
    <3> QED
      BY <2>2, <2>4, <3>1
  <2>6. CASE AfterOk(o)
    <3>1. ~Refuses(o) /\ \E says \in {"row", "none", "ok"} : \E row : Tell(o, says, row)
      BY <2>6 DEF AfterOk
    <3> QED
      BY <2>2, <2>4, <3>1
  <2> QED
    BY <2>5, <2>6 DEF After
<1>2. IInv /\ Locks /\ Verdict => [A]_vars
  BY <1>1
<1> HIDE DEF A
<1>3. Spec => [][A]_vars
  BY <1>2, Invariant, LocksInvariant, PTL
<1> QED
  BY <1>3 DEF ErrorsAreOwn, A

-----------------------------------------------------------------------------
\* Where Finalize_ is under way no operation begins, throws or not: no loop of
\* Process goes on above it.

Low == {f \in Frame : f.pc \in {"process", "loop", "end", "errorEnd", "failed"}}

\* What is above the rest of a Finalize_ will not run the queue.
Above(s) == \A i, j \in 1..Len(s) : i < j /\ s[j] \in Releasers => s[i] \notin Low

Standing ==
  /\ Has(stack, Releasers) => finalized /\ working = "idle"
  /\ \A o \in Ops : Has(stack, Owned(o)) => KindOf[o] = "finalize"
  /\ Has(stack, Failing) => ~prepared

Clear(s) == s \in Seq(Frame) /\ Above(s)

\* Without a Finalize_ under way nothing is wrong with a stack.
LEMMA ClearFree ==
  ASSUME NEW s \in Seq(Frame), ~Has(s, Releasers)
  PROVE  Clear(s)
  BY DEF Clear, Above, Has

\* A frame is pushed.
LEMMA ClearPush ==
  ASSUME NEW r, Clear(r), NEW f \in Frame, f \in Low => ~Has(r, Releasers)
  PROVE  Clear(<<f>> \o r)
<1> DEFINE s == <<f>> \o r
<1>1. r \in Seq(Frame) /\ Above(r)
  BY DEF Clear
<1>2. /\ s \in Seq(Frame) /\ s # <<>> /\ Head(s) = f /\ Tail(s) = r
  BY <1>1, PushFrame
<1> HIDE DEF s
<1>3. /\ Len(r) = Len(s) - 1 /\ Len(s) \in Nat /\ Len(s) > 0 /\ s[1] = f
      /\ \A i \in 1..Len(r) : r[i] = s[i + 1]
  BY <1>2, HeadTailProperties, LenProperties, EmptySeq
<1>4. \A i \in 1..Len(s) : i # 1 => i - 1 \in 1..Len(r) /\ (i - 1) + 1 = i /\ r[i - 1] = s[i]
  BY <1>3
<1> SUFFICES ASSUME NEW i \in 1..Len(s), NEW j \in 1..Len(s), i < j, s[j] \in Releasers
             PROVE  s[i] \notin Low
  BY <1>2 DEF Clear, Above, s
<1>5. j # 1 /\ j - 1 \in 1..Len(r) /\ r[j - 1] \in Releasers
  BY <1>3, <1>4
<1>6. CASE i = 1
  BY <1>3, <1>5, <1>6 DEF Has
<1>7. CASE i # 1
  <2>1. i - 1 \in 1..Len(r) /\ i - 1 < j - 1 /\ r[i - 1] = s[i]
    BY <1>3, <1>4, <1>7
  <2> QED
    BY <1>1, <1>5, <2>1 DEF Above
<1> QED
  BY <1>6, <1>7

\* The frame on top is taken off.
LEMMA ClearPop ==
  ASSUME NEW s, Clear(s), s # <<>>
  PROVE  /\ Clear(Tail(s)) /\ Head(s) \in Frame
         /\ Head(s) \in Low => ~Has(Tail(s), Releasers)
<1> DEFINE r == Tail(s)
<1>1. s \in Seq(Frame) /\ Above(s)
  BY DEF Clear
<1>2. /\ r \in Seq(Frame) /\ Head(s) \in Frame /\ Head(s) = s[1]
      /\ Len(r) = Len(s) - 1 /\ Len(s) \in Nat /\ Len(s) > 0
      /\ \A i \in 1..Len(r) : r[i] = s[i + 1]
  BY <1>1, HeadTailProperties, LenProperties, EmptySeq
<1> HIDE DEF r
<1>3. \A i \in 1..Len(r) : i + 1 \in 1..Len(s) /\ 1 < i + 1 /\ 1 \in 1..Len(s)
  BY <1>2
<1>4. Above(r)
  <2> SUFFICES ASSUME NEW i \in 1..Len(r), NEW j \in 1..Len(r), i < j, r[j] \in Releasers
               PROVE  r[i] \notin Low
    BY DEF Above
  <2>1. i + 1 < j + 1 /\ s[j + 1] \in Releasers
    BY <1>2
  <2> QED
    BY <1>1, <1>2, <1>3, <2>1 DEF Above
<1>5. Head(s) \in Low => ~Has(r, Releasers)
  BY <1>1, <1>2, <1>3 DEF Above, Has
<1> QED
  BY <1>2, <1>4, <1>5 DEF Clear, r

LEMMA FramesHigh ==
  /\ \A p \in {"js", "dead", "clean", "reject"} : At(p) \in Frame /\ At(p) \notin Low
  /\ \A b \in BOOLEAN : Cleaning(b) \in Frame /\ Cleaning(b) \notin Low
  /\ Callback \in Frame /\ Callback \notin Low
  /\ \A p \in {"process", "loop", "errorEnd"} : At(p) \in Frame
  /\ \A o \in Ops \cup {NoOp} : Release(o) \in Frame /\ Release(o) \notin Low
  BY DEF Frame, PCs, At, Cleaning, Callback, Release, Low

LEMMA ClearCall ==
  ASSUME NEW r, Clear(r), NEW o
  PROVE  Clear(Call(o) \o r)
<1>1. CASE o \in Silent
  <2>1. Call(o) \o r = r
    BY <1>1 DEF Call, Clear
  <2> QED
    BY <2>1
<1>2. CASE o \notin Silent
  <2>1. Call(o) = <<Callback>>
    BY <1>2 DEF Call
  <2>2. Clear(<<Callback>> \o r)
    BY ClearPush, FramesHigh
  <2> QED
    BY <2>1, <2>2
<1> QED
  BY <1>1, <1>2

\* Two frames are pushed.
LEMMA ClearPushTwo ==
  ASSUME NEW r, Clear(r), NEW f \in Frame, f \notin Low,
         NEW g \in Frame, g \in Low => ~Has(r, Releasers)
  PROVE  Clear(<<f, g>> \o r)
<1>1. Clear(<<g>> \o r)
  BY ClearPush
<1>2. Clear(<<f>> \o (<<g>> \o r))
  BY <1>1, ClearPush
<1>3. r \in Seq(Frame)
  BY DEF Clear
<1>4. <<f, g>> \o r = <<f>> \o (<<g>> \o r)
  BY <1>3, PushTwo
<1> QED
  BY <1>2, <1>4

LEMMA ClearMild ==
  ASSUME TypeOK, Above(stack), Mild
  PROVE  Clear(stack')
<1>0. stack \in Seq(Frame) /\ Clear(stack)
  BY DEF TypeOK, Clear
<1>1. CASE \E o \in Ops : ScheduleRefuse(o) \/ ScheduleQueue(o)
  <2>1. stack' = <<At("clean")>> \o stack \/ stack' = stack
    BY <1>1 DEF ScheduleRefuse, ScheduleQueue
  <2>2. Clear(<<At("clean")>> \o stack)
    BY <1>0, FramesHigh, ClearPush
  <2> QED
    BY <1>0, <2>1, <2>2
<1>2. CASE ProcessClean \/ ProcessReturn \/ CleanEnter \/ CleanReturn \/ JsReturn
  <2> DEFINE t == Tail(stack)
  <2>1. /\ stack # <<>>
        /\ \/ stack' = <<At("clean")>> \o t \/ stack' = <<Cleaning(FALSE)>> \o t
           \/ stack' = <<Callback>> \o t \/ stack' = <<>> \o t \/ stack' = t
    BY <1>2 DEF ProcessClean, ProcessReturn, InLoop, CleanEnter, CleanReturn, JsReturn, Js, InPc
  <2>2. Clear(t) /\ t \in Seq(Frame)
    BY <1>0, <2>1, ClearPop DEF Clear
  <2> HIDE DEF t
  <2>3. Clear(<<At("clean")>> \o t) /\ Clear(<<Callback>> \o t)
    BY <2>2, FramesHigh, ClearPush
  <2>4. Clear(<<Cleaning(FALSE)>> \o t)
    <3>1. Cleaning(FALSE) \in Frame /\ Cleaning(FALSE) \notin Low
      BY FramesHigh
    <3> QED
      BY <2>2, <3>1, ClearPush
  <2>5. <<>> \o t = t
    BY <2>2
  <2> QED
    BY <2>1, <2>2, <2>3, <2>4, <2>5
<1>3. CASE CleanCall
  <2> DEFINE o == Head(queue)
             f == Cleaning(Head(stack).called \/ o \notin Silent)
             t == Tail(stack)
             r == <<f>> \o t
  <2>1. stack # <<>> /\ Head(stack).pc = "cleaning" /\ stack' = Call(o) \o <<f>> \o t
    BY <1>3 DEF CleanCall, InPc
  <2>2. Clear(t) /\ t \in Seq(Frame)
    BY <1>0, <2>1, ClearPop DEF Clear
  <2>3. f \in Frame /\ f \notin Low /\ Callback \in Frame
    BY <2>1, TopFrame, FramesHigh
  <2> HIDE DEF f, t, o
  <2>4. Clear(r)
    BY <2>2, <2>3, ClearPush
  <2>5. stack' = Call(o) \o r
    <3>1. <<f>> \in Seq(Frame) /\ Call(o) \in Seq(Frame)
      BY <2>3 DEF Call
    <3> QED
      BY <2>1, <2>2, <3>1, ConcatAssociative
  <2> HIDE DEF r
  <2> QED
    BY <2>4, <2>5, ClearCall
<1>4. CASE NewTurn
  <2> DEFINE f == At("js")
             e == <<>>
  <2>1. stack = e /\ stack' = <<f>> /\ f \in Frame /\ f \notin Low
    BY <1>4, FramesHigh DEF NewTurn
  <2> HIDE DEF f
  <2>2. <<f>> = <<f>> \o e
    BY <2>1, FewFrames
  <2> HIDE DEF e
  <2> QED
    BY <1>0, <2>1, <2>2, ClearPush
<1>5. CASE JsCatch
  BY <1>0, <1>5 DEF JsCatch
<1> QED
  BY <1>1, <1>2, <1>3, <1>4, <1>5 DEF Mild

LEMMA ClearUnwinding ==
  ASSUME TypeOK, Above(stack), Unwinding
  PROVE  Clear(stack')
<1> DEFINE t == Tail(stack)
<1>1. stack # <<>> /\ stack' = Unwound
  BY DEF Unwinding, JsThrow, DeadCallback, InPc
<1>2. Clear(stack)
  BY DEF TypeOK, Clear
<1>3. Clear(t)
  BY <1>1, <1>2, ClearPop
<1>4. stack' = t \/ (t # <<>> /\ stack' = Tail(t))
  BY <1>1 DEF Unwound
<1> HIDE DEF t
<1> QED
  BY <1>3, <1>4, ClearPop

LEMMA ClearPreparing ==
  ASSUME TypeOK, Locks, Above(stack), Preparing
  PROVE  Clear(stack') /\ ~Has(stack', Releasers)
<1>0. stack \in Seq(Frame) /\ Clear(stack) /\ preparing # "over"
  BY DEF TypeOK, Clear, Preparing, Construct, ConstructRejected, Prepare, PrepareBegin,
     PrepareRejected, WorkPrepare, AfterPrepare
<1>1. ~Has(stack, Releasers)
  BY <1>0 DEF Locks
<1>2. CASE Construct \/ PrepareBegin \/ WorkPrepare
  BY <1>0, <1>1, <1>2 DEF Construct, PrepareBegin, WorkPrepare
<1>3. CASE ConstructRejected
  <2>1. stack' = <<Callback>> \o stack
    BY <1>3 DEF ConstructRejected
  <2>2. Same(stack', stack)
    BY <1>0, <2>1, SameAll, SamePush, FramesNeutral
  <2> QED
    BY <1>1, <2>2, FramesApart, ClearFree DEF Same
<1>4. CASE PrepareRejected
  <2>1. At("reject") \notin Releasers
    BY OtherFrames DEF Releasers
  <2>2. stack' \in Seq(Frame) /\ ~Has(stack', Releasers)
    BY <1>1, <1>4, <2>1, RejectStack, FramesApart
  <2> QED
    BY <2>2, ClearFree
<1>5. CASE AfterPrepare
  <2> DEFINE p == IF status = "ok" THEN "end" ELSE "failed"
  <2>1. stack' = <<At("js"), At(p)>> /\ p \in {"end", "errorEnd", "failed"}
    BY <1>5 DEF AfterPrepare
  <2> HIDE DEF p
  <2>2. At(p) \notin Releasers
    BY <2>1, OtherFrames DEF Releasers
  <2>3. stack' \in Seq(Frame) /\ ~Has(stack', Releasers)
    BY <2>1, <2>2, EnterStack, FramesApart
  <2> QED
    BY <2>3, ClearFree
<1> QED
  BY <1>2, <1>3, <1>4, <1>5 DEF Preparing, Prepare

\* An operation begins where no Finalize_ is under way.
LEMMA StartsClear ==
  ASSUME TypeOK, Standing, Above(stack), ProcessRun \/ \E o \in Ops : ScheduleRun(o)
  PROVE  Clear(stack') /\ ~Has(stack, Releasers)
<1>0. stack \in Seq(Frame) /\ Clear(stack)
  BY DEF TypeOK, Clear
<1>1. ASSUME NEW r, Clear(r), NEW o \in Ops, Run(o, r)
      PROVE  Clear(stack')
  <2>1. CASE stack' = r
    BY <1>1, <2>1
  <2>2. CASE stack' = <<At("clean"), Release(o)>> \o r
    BY <1>1, <2>2, FramesHigh, ClearPushTwo
  <2> QED
    BY <1>1, <2>1, <2>2 DEF Run
<1>2. ASSUME NEW o \in Ops, ScheduleRun(o)
      PROVE  Clear(stack') /\ ~Has(stack, Releasers)
  <2>1. Run(o, stack) /\ ~finalized
    BY <1>2 DEF ScheduleRun
  <2> QED
    BY <1>0, <1>1, <2>1 DEF Standing
<1>3. CASE ProcessRun
  <2> DEFINE t == Tail(stack)
             r == <<At("loop")>> \o t
             h == Head(stack)
  <2>1. /\ stack # <<>> /\ h.pc \in {"process", "loop"}
        /\ queue # <<>> /\ Run(Head(queue), r) /\ Head(queue) \in Ops
    BY <1>3 DEF ProcessRun, InLoop, InPc, TypeOK
  <2>2. /\ Clear(t) /\ h \in Frame /\ (h \in Low => ~Has(t, Releasers))
        /\ Has(stack, Releasers) <=> h \in Releasers \/ Has(t, Releasers)
    BY <1>0, <2>1, ClearPop, PopFrame
  <2> HIDE DEF h, t
  <2>3. ~Has(t, Releasers) /\ ~Has(stack, Releasers)
    BY <2>1, <2>2 DEF Low, Releasers
  <2>4. Clear(r)
    BY <2>2, <2>3, FramesHigh, ClearPush
  <2> HIDE DEF r
  <2> QED
    BY <1>1, <2>1, <2>3, <2>4
<1> QED
  BY <1>2, <1>3

LEMMA ClearEnds ==
  ASSUME TypeOK, Above(stack), FinalizeFailed \/ FinalizeRelease \/ End
  PROVE  Clear(stack')
<1> DEFINE h == Head(stack)
           t == Tail(stack)
<1>0. stack # <<>> /\ Clear(stack)
  BY DEF TypeOK, Clear, FinalizeFailed, FinalizeRelease, End, InPc
<1>1. Clear(t) /\ t \in Seq(Frame) /\ h \in Frame /\ (h \in Low => ~Has(t, Releasers))
  BY <1>0, ClearPop DEF Clear
<1>2. CASE FinalizeFailed
  <2> DEFINE e == At("errorEnd")
             f == At("clean")
             g == Release(NoOp)
             a == <<f, g>>
             b == IF InPc("failed") THEN <<e>> ELSE <<>>
             r == b \o t
  <2>1. stack' = a \o b \o t /\ (InPc("failed") => h.pc = "failed")
    BY <1>2 DEF FinalizeFailed, InPc
  <2>2. e \in Frame /\ f \in Frame /\ g \in Frame /\ f \notin Low /\ g \notin Low
    BY FramesHigh
  <2> HIDE DEF e, f, g, h, t
  <2>3. InPc("failed") => ~Has(t, Releasers)
    BY <1>1, <2>1 DEF Low
  <2>4. Clear(r)
    <3>1. CASE InPc("failed")
      <4>1. r = <<e>> \o t
        BY <3>1
      <4> HIDE DEF r
      <4> QED
        BY <1>1, <2>2, <2>3, <3>1, <4>1, ClearPush
    <3>2. CASE ~InPc("failed")
      <4>1. r = t
        BY <1>1, <3>2
      <4> HIDE DEF r
      <4> QED
        BY <1>1, <4>1
    <3> QED
      BY <3>1, <3>2
  <2>5. stack' = a \o r
    <3>1. a \in Seq(Frame) /\ b \in Seq(Frame)
      BY <2>2
    <3> HIDE DEF a, b
    <3> QED
      BY <1>1, <2>1, <3>1, ConcatAssociative
  <2> HIDE DEF r
  <2> QED
    BY <2>2, <2>4, <2>5, ClearPushTwo
<1>3. CASE FinalizeRelease
  <2>1. stack' = t \/ \E o : stack' = Call(o) \o t
    BY <1>3 DEF FinalizeRelease
  <2> HIDE DEF t
  <2> QED
    BY <1>1, <2>1, ClearCall
<1>4. CASE End
  <2>1. stack' = <<At("process")>> \o t /\ h.pc \in {"end", "errorEnd"}
    BY <1>4 DEF End, InPc
  <2> HIDE DEF t, h
  <2>2. h \in Low
    BY <1>1, <2>1 DEF Low
  <2> QED
    BY <1>1, <2>1, <2>2, FramesHigh, ClearPush
<1> QED
  BY <1>2, <1>3, <1>4

LEMMA ClearAfter ==
  ASSUME NEW o \in Ops, After(o)
  PROVE  /\ Clear(stack') /\ ~Has(stack', Releasers) /\ ~Has(stack', Failing)
<1>1. \E p \in {"end", "errorEnd"} : \E k :
        \/ stack' = <<At("js"), At(p)>> \/ stack' = <<>> \o <<At(p)>>
        \/ stack' = Call(k) \o <<At(p)>>
  BY DEF After, AfterError, AfterOk
<1>2. PICK p \in {"end", "errorEnd"} : \E k :
        \/ stack' = <<At("js"), At(p)>> \/ stack' = <<>> \o <<At(p)>>
        \/ stack' = Call(k) \o <<At(p)>>
  BY <1>1
<1>3. At(p) \notin Releasers /\ At(p) \notin Failing
  BY OtherFrames DEF Releasers, Failing
<1>4. stack' \in Seq(Frame) /\ ~Has(stack', Releasers) /\ ~Has(stack', Failing)
  BY <1>2, <1>3, EnterStack, FramesApart
<1> QED
  BY <1>4, ClearFree

LEMMA StandingNext ==
  ASSUME TypeOK, Locks, Standing, Above(stack), Step
  PROVE  Standing' /\ Above(stack')
<1>0. Has(stack, Releasers) => finalized /\ working = "idle"
  BY DEF Standing
<1>1. \A o : Owned(o) \subseteq Releasers
  BY DEF Owned, Releasers
<1>2. ASSUME ~Has(stack', Releasers), Has(stack', Failing) => ~prepared'
      PROVE  Standing'
  <2>1. \A o \in Ops : ~Has(stack', Owned(o))
    BY <1>1, <1>2, HasMore
  <2> QED
    BY <1>2, <2>1 DEF Standing
<1>3. ASSUME \A P : P \cap Neutral = {} => (Has(stack', P) => Has(stack, P)),
             UNCHANGED <<finalized, working, prepared>>
      PROVE  Standing'
  BY <1>3, FramesApart DEF Standing
<1>4. CASE Mild \/ Unwinding
  <2>1. Fewer(stack', stack)
    BY <1>4, MildStack, UnwindingStack DEF Same, Fewer
  <2>2. UNCHANGED <<finalized, working, prepared>>
    BY <1>4, MildFrame DEF fields, work
  <2>3. Above(stack')
    BY <1>4, ClearMild, ClearUnwinding DEF Clear
  <2> QED
    BY <1>3, <2>1, <2>2, <2>3 DEF Fewer
<1>5. CASE Preparing
  <2>1. ~Has(stack', Releasers) /\ Above(stack')
    BY <1>5, ClearPreparing DEF Clear
  <2>2. ~prepared /\ ~Has(stack, Failing)
    BY <1>5 DEF Preparing, Construct, ConstructRejected, Prepare, PrepareBegin,
       PrepareRejected, WorkPrepare, AfterPrepare, Locks
  <2>3. Has(stack', Failing) => ~prepared'
    <3>1. CASE ~AfterPrepare
      BY <1>5, <2>2, <3>1 DEF Preparing, Construct, ConstructRejected, Prepare, PrepareBegin,
         PrepareRejected, WorkPrepare, fields
    <3>2. CASE AfterPrepare
      <4> DEFINE p == IF status = "ok" THEN "end" ELSE "failed"
      <4>1. /\ stack' = <<At("js"), At(p)>> /\ p \in {"end", "errorEnd", "failed"}
            /\ prepared' = (status = "ok") /\ (p = "failed" <=> status # "ok")
        BY <3>2 DEF AfterPrepare
      <4> HIDE DEF p
      <4>2. Has(stack', Failing) <=> At(p) \in Failing
        BY <4>1, EnterStack, FramesApart
      <4>3. At(p) \in Failing => p = "failed"
        BY <4>1, OtherFrames DEF Failing
      <4> QED
        BY <4>1, <4>2, <4>3
    <3> QED
      BY <3>1, <3>2
  <2> QED
    BY <1>2, <2>1, <2>3
<1>6. CASE ProcessRun \/ \E o \in Ops : ScheduleRun(o)
  <2>1. Above(stack') /\ ~Has(stack, Releasers)
    BY <1>6, StartsClear DEF Clear
  <2>2. PICK o \in Ops : Starting(o)
    BY <1>6, StartKinds
  <2>3. /\ prepared /\ prepared' = prepared /\ ~locked
        /\ \E r : Same(r, stack) /\ Run(o, r)
    BY <2>2 DEF Starting
  <2>4. PICK r : Same(r, stack) /\ Run(o, r)
    BY <2>3
  <2>5. working = "idle" /\ ~Has(stack, Failing)
    BY <2>3 DEF Locks, Standing
  <2>6. CASE KindOf[o] # "finalize"
    <3>1. stack' = r
      BY <2>4, <2>6 DEF Run
    <3>2. ~Has(stack', Releasers) /\ ~Has(stack', Failing)
      BY <2>1, <2>4, <2>5, <3>1, FramesApart DEF Same
    <3> QED
      BY <1>2, <2>1, <3>2
  <2>7. CASE KindOf[o] = "finalize"
    <3>1. finalized' /\ working' = "idle"
      BY <2>4, <2>5, <2>7 DEF Run, work
    <3>2. \A P : P \cap Neutral = {} => (Has(stack', P) <=> Release(o) \in P \/ Has(stack, P))
      BY <2>4, <2>7, RunStack
    <3>3. Release(o) \notin Failing /\ \A d : Release(o) \in Owned(d) => d = o
      BY OtherFrames DEF Failing, Owned
    <3>4. ~Has(stack', Failing)
      BY <2>5, <3>2, <3>3, FramesApart
    <3>5. \A d \in Ops : Has(stack', Owned(d)) => KindOf[d] = "finalize"
      BY <2>7, <3>2, <3>3, FramesApart DEF Standing
    <3> QED
      BY <2>1, <3>1, <3>4, <3>5 DEF Standing
  <2> QED
    BY <2>6, <2>7
<1>7. CASE FinalizeFailed
  <2> DEFINE h == Head(stack)
             t == Tail(stack)
             e == At("errorEnd")
  <2>1. Above(stack')
    BY <1>7, ClearEnds DEF Clear
  <2>2. /\ stack # <<>> /\ h \in Failing /\ stack \in Seq(Frame)
        /\ \A P : P \cap Neutral = {} =>
             (Has(stack', P) <=> \/ Release(NoOp) \in P \/ (h \in Enders /\ e \in P)
                                 \/ Has(t, P))
    BY <1>7, FailStack DEF TypeOK
  <2>3. \A P : Has(stack, P) <=> h \in P \/ Has(t, P)
    BY <2>2, PopFrame
  <2>4. ~prepared /\ prepared' = prepared /\ finalized' /\ working' = working
    BY <1>7, <2>2, <2>3 DEF FinalizeFailed, Standing, work
  <2>5. working = "idle"
    BY <2>4 DEF Locks
  <2>6. \A d \in Ops : Release(NoOp) \notin Owned(d) /\ e \notin Owned(d)
    BY OtherFrames, OpsAssumption DEF Owned
  <2> HIDE DEF h, t, e
  <2>7. \A d \in Ops : Has(stack', Owned(d)) => Has(stack, Owned(d))
    BY <2>2, <2>3, <2>6, FramesApart
  <2> QED
    BY <2>1, <2>4, <2>5, <2>7 DEF Standing
<1>8. CASE FinalizeRelease \/ End
  <2>1. Above(stack')
    BY <1>8, ClearEnds DEF Clear
  <2>2. \A P : P \cap Neutral = {} => (Has(stack', P) => Has(stack, P))
    BY <1>8, PopStack
  <2>3. UNCHANGED <<finalized, working, prepared>>
    BY <1>8 DEF FinalizeRelease, End, fields, work
  <2> QED
    BY <1>3, <2>1, <2>2, <2>3
<1>9. CASE \E o \in Ops : Work(o)
  <2>1. working = "begun" /\ UNCHANGED <<stack, finalized, prepared>>
    BY <1>9 DEF Work, WorkBind, WorkStep, WorkAll, WorkReset, WorkSkip, WorkRefused, WorkGone,
       Working, fields
  <2>2. ~Has(stack', Releasers)
    BY <1>0, <2>1
  <2> QED
    BY <1>2, <2>1, <2>2 DEF Standing
<1>10. CASE \E o \in Ops : After(o)
  BY <1>2, <1>10, ClearAfter DEF Clear
<1> QED
  BY <1>4, <1>5, <1>6, <1>7, <1>8, <1>9, <1>10
     DEF Step, Handler, Schedule, Mild, Unwinding, Preparing

-----------------------------------------------------------------------------
\* Where the cursor is after the last answer that moved it.

\* Among the first n answers, i is the last that moved the cursor.
LastOf(s, n, i) == i \in 1..n /\ Moves(s[i]) /\ \A k \in 1..n : Moves(s[k]) => k <= i

HasLast(s) == \A n \in 0..Len(s) : (\A i \in 1..n : ~Moves(s[i])) \/ \E i : LastOf(s, n, i)

\* The call of get() that goes on where it finds the statement.
BareGet(a) == KindOf[a.op] = "get" /\ Bare(a.op) /\ a.says \in {"row", "none"}

\* It goes on from answer b.
Follows(a, b) ==
  /\ b.says = "row" => a.says = "none" \/ a.row = b.row + 1
  /\ b.says = "none" => a.says = "none"
  /\ b.says = "ok" /\ KindOf[b.op] \in {"all", "each"} => a.says = "none"
  /\ b.says = "ok" /\ KindOf[b.op] \in {"reset", "bind"} /\ a.says = "row" => a.row = 1
  /\ b.says = "ok" /\ KindOf[b.op] = "run" /\ a.says = "row" => a.row = 2

Walks(s) ==
  \A j \in 1..Len(s) : BareGet(s[j]) => \A i : LastOf(s, j - 1, i) => Follows(s[j], s[i])

\* Where answer b left the statement, with status st, handle h and cursor c.
Left(b, st, h, c) ==
  /\ b.says = "none" \/ (b.says = "ok" /\ KindOf[b.op] \in {"all", "each"}) => st = "done"
  /\ h = "live" =>
       /\ b.says = "row" => st = "row" /\ c = b.row
       /\ b.says = "ok" /\ KindOf[b.op] \in {"reset", "bind"} => c = 0
       /\ b.says = "ok" /\ KindOf[b.op] = "run" => st = "done" \/ c = 1

\* And where a get() that went on from there has come.
Reached(b, st, c) ==
  st = "row" =>
    /\ b.says = "row" => c = b.row + 1
    /\ b.says # "none"
    /\ b.says = "ok" => KindOf[b.op] \notin {"all", "each"}
    /\ b.says = "ok" /\ KindOf[b.op] \in {"reset", "bind"} => c = 1
    /\ b.says = "ok" /\ KindOf[b.op] = "run" => c = 2

Stays(o) == KindOf[o] = "bind" /\ Bare(o)
GoesOn(o) == KindOf[o] = "get" /\ Bare(o)

\* No answer that moved the cursor comes before the preparation has ended.
Unmoved == ~prepared => \A i \in 1..Len(answers) : ~Moves(answers[i])

Placed(b) ==
  /\ working \in {"idle", "begun"} \/ (working = "ran" /\ Stays(current)) =>
       Left(b, status, handle, cursor)
  /\ working = "ran" /\ GoesOn(current) => Reached(b, status, cursor)

\* What the work that is done has made of the cursor.
Moved ==
  working = "ran" /\ handle = "live" =>
    /\ KindOf[current] = "reset" \/ (KindOf[current] = "bind" /\ ~Bare(current)) => cursor = 0
    /\ KindOf[current] = "run" /\ status = "row" => cursor = 1

Place ==
  /\ Unmoved /\ Moved
  /\ \A i : LastOf(answers, Len(answers), i) => Placed(answers[i])

History == HasLast(answers) /\ Walks(answers)

\* An answer is appended.
LEMMA LastAppend ==
  ASSUME NEW s \in Seq(Answer), NEW x \in Answer
  PROVE  LET t == Append(s, x)
         IN  /\ t \in Seq(Answer) /\ Len(t) = Len(s) + 1 /\ t[Len(s) + 1] = x
             /\ \A i \in 1..Len(s) : t[i] = s[i]
             /\ \A i : \A n \in 0..Len(s) : LastOf(t, n, i) <=> LastOf(s, n, i)
             /\ Moves(x) => \A i : LastOf(t, Len(t), i) <=> i = Len(t)
             /\ ~Moves(x) => \A i : LastOf(t, Len(t), i) <=> LastOf(s, Len(s), i)
             /\ HasLast(s) => HasLast(t)
<1> DEFINE t == Append(s, x)
<1>1. /\ t \in Seq(Answer) /\ Len(t) = Len(s) + 1 /\ Len(s) \in Nat
      /\ \A i \in 1..Len(s) : t[i] = s[i]
      /\ t[Len(s) + 1] = x
  BY AppendProperties, LenProperties
<1> HIDE DEF t
<1>2. ASSUME NEW n \in 0..Len(s), NEW i
      PROVE  LastOf(t, n, i) <=> LastOf(s, n, i)
  <2>1. \A k \in 1..n : t[k] = s[k]
    BY <1>1
  <2> QED
    BY <2>1 DEF LastOf
<1>3. ASSUME Moves(x), NEW i
      PROVE  LastOf(t, Len(t), i) <=> i = Len(t)
  <2>1. Len(t) \in 1..Len(t) /\ Moves(t[Len(t)]) /\ Len(t) \in Nat
    BY <1>1, <1>3
  <2> QED
    BY <2>1 DEF LastOf
<1>4. ASSUME ~Moves(x), NEW i
      PROVE  LastOf(t, Len(t), i) <=> LastOf(s, Len(s), i)
  <2>1. \A k \in 1..Len(t) : k \in 1..Len(s) \/ k = Len(s) + 1
    BY <1>1
  <2>2. \A k \in 1..Len(s) : k \in 1..Len(t)
    BY <1>1
  <2>3. ~Moves(t[Len(s) + 1])
    BY <1>1, <1>4
  <2>4. \A k \in 1..Len(s) : Moves(t[k]) <=> Moves(s[k])
    BY <1>1
  <2>5. \A k \in 1..Len(t) : Moves(t[k]) => k \in 1..Len(s)
    BY <2>1, <2>3
  <2> QED
    BY <2>2, <2>4, <2>5 DEF LastOf
<1>5. ASSUME HasLast(s)
      PROVE  HasLast(t)
  <2> SUFFICES ASSUME NEW n \in 0..Len(t)
               PROVE  (\A i \in 1..n : ~Moves(t[i])) \/ \E i : LastOf(t, n, i)
    BY DEF HasLast
  <2>1. CASE n \in 0..Len(s)
    <3>1. \A i \in 1..n : t[i] = s[i]
      BY <1>1, <2>1
    <3>2. (\A i \in 1..n : ~Moves(s[i])) \/ \E i : LastOf(s, n, i)
      BY <1>5, <2>1 DEF HasLast
    <3> QED
      BY <1>2, <2>1, <3>1, <3>2
  <2>2. CASE n = Len(t) /\ Moves(x)
    BY <1>3, <2>2
  <2>3. CASE n = Len(t) /\ ~Moves(x)
    <3>1. Len(s) \in 0..Len(s)
      BY <1>1
    <3>2. (\A i \in 1..Len(s) : ~Moves(s[i])) \/ \E i : LastOf(s, Len(s), i)
      BY <1>5, <3>1 DEF HasLast
    <3>3. \A i \in 1..n : i \in 1..Len(s) \/ i = Len(s) + 1
      BY <1>1, <2>3
    <3>4. CASE \A i \in 1..Len(s) : ~Moves(s[i])
      BY <1>1, <2>3, <3>3, <3>4
    <3>5. CASE \E i : LastOf(s, Len(s), i)
      BY <1>4, <2>3, <3>5
    <3> QED
      BY <3>2, <3>4, <3>5
  <2> QED
    BY <1>1, <2>1, <2>2, <2>3
<1> QED
  BY <1>1, <1>2, <1>3, <1>4, <1>5 DEF t

LEMMA WalksAppend ==
  ASSUME NEW s \in Seq(Answer), NEW x \in Answer, Walks(s),
         BareGet(x) => \A i : LastOf(s, Len(s), i) => Follows(x, s[i])
  PROVE  Walks(Append(s, x))
<1> DEFINE t == Append(s, x)
<1>1. /\ Len(t) = Len(s) + 1 /\ t[Len(s) + 1] = x /\ Len(s) \in Nat
      /\ \A i \in 1..Len(s) : t[i] = s[i]
      /\ \A i : \A n \in 0..Len(s) : LastOf(t, n, i) <=> LastOf(s, n, i)
  BY LastAppend, LenProperties
<1> HIDE DEF t
<1> SUFFICES ASSUME NEW j \in 1..Len(t), BareGet(t[j]), NEW i, LastOf(t, j - 1, i)
             PROVE  Follows(t[j], t[i])
  BY DEF Walks, t
<1>2. j - 1 \in 0..Len(s) /\ LastOf(s, j - 1, i)
  BY <1>1
<1>3. i \in 1..(j - 1)
  BY DEF LastOf
<1>4. i \in 1..Len(s) /\ t[i] = s[i]
  BY <1>1, <1>3
<1>5. CASE j \in 1..Len(s)
  BY <1>1, <1>2, <1>4, <1>5 DEF Walks
<1>6. CASE j = Len(s) + 1
  <2>1. j - 1 = Len(s)
    BY <1>1, <1>6
  <2> QED
    BY <1>1, <1>2, <1>4, <1>6, <2>1
<1> QED
  BY <1>1, <1>5, <1>6

\* The invariant says what the property does.
LEMMA WalksContinue ==
  ASSUME History, answers \in Seq(Answer)
  PROVE  GetContinues
<1> DEFINE before(j) == {i \in 1..j-1 : Moves(answers[i])}
           last(j) == CHOOSE i \in before(j) : \A k \in before(j) : k <= i
<1>0. Len(answers) \in Nat
  BY LenProperties
<1>1. ASSUME NEW j \in 1..Len(answers), before(j) # {}, BareGet(answers[j])
      PROVE  Follows(answers[j], answers[last(j)])
  <2>1. j - 1 \in 0..Len(answers)
    BY <1>0
  <2>2. PICK i : LastOf(answers, j - 1, i)
    BY <1>1, <2>1 DEF History, HasLast
  <2>3. i \in before(j) /\ \A k \in before(j) : k <= i
    BY <2>2 DEF LastOf
  <2>4. last(j) \in before(j) /\ \A k \in before(j) : k <= last(j)
    BY <2>3
  <2>5. last(j) = i
    <3>1. i \in Int /\ last(j) \in Int
      BY <2>3, <2>4
    <3>2. i <= last(j) /\ last(j) <= i
      BY <2>3, <2>4
    <3> HIDE DEF last
    <3> QED
      BY <3>1, <3>2
  <2> QED
    BY <1>1, <2>2, <2>5 DEF History, Walks
<1> SUFFICES ASSUME NEW j \in 1..Len(answers), before(j) # {}, BareGet(answers[j])
             PROVE  Follows(answers[j], answers[last(j)])
  BY DEF GetContinues, BareGet, Follows
<1> QED
  BY <1>1

\* Steps that answer nothing and leave the cursor where it is.
LEMMA PlaceStill ==
  ASSUME Place, UNCHANGED <<answers, status, handle, cursor>>,
         Unmoved', UNCHANGED <<current, working>> \/ (working = "idle" /\ working' = "begun")
  PROVE  Place'
<1>1. Moved'
  BY DEF Place, Moved
<1>2. ASSUME NEW i, LastOf(answers, Len(answers), i)
      PROVE  Placed(answers[i])'
  BY <1>2 DEF Place, Placed
<1> QED
  BY <1>1, <1>2 DEF Place, LastOf

\* Steps that answer something that does not move the cursor.
LEMMA PlaceTold ==
  ASSUME TypeOK, Place, History, NEW x \in Answer, ~Moves(x), answers' = Append(answers, x),
         UNCHANGED <<prepared, status>>,
         UNCHANGED <<handle, cursor>> \/ handle' = "none",
         \/ UNCHANGED <<current, working>> /\ (UNCHANGED <<handle, cursor>> \/ working = "idle")
         \/ /\ working = "ran" /\ Stays(current) /\ working' = "idle"
            /\ UNCHANGED <<handle, cursor>>
  PROVE  Place' /\ History'
<1>0. answers \in Seq(Answer)
  BY DEF TypeOK
<1> DEFINE t == Append(answers, x)
<1>1. /\ Len(t) = Len(answers) + 1 /\ Len(answers) \in Nat /\ t[Len(answers) + 1] = x
      /\ \A i \in 1..Len(answers) : t[i] = answers[i]
      /\ \A i : LastOf(t, Len(t), i) <=> LastOf(answers, Len(answers), i)
      /\ HasLast(t)
  BY <1>0, LastAppend, LenProperties DEF History
<1>2. Walks(t)
  BY <1>0, WalksAppend DEF History, BareGet, Moves
<1>3. answers' = t
  OBVIOUS
<1> HIDE DEF t
<1>4. History'
  BY <1>1, <1>2, <1>3 DEF History
<1>5. Unmoved'
  <2> SUFFICES ASSUME ~prepared, NEW i \in 1..Len(t)
               PROVE  ~Moves(t[i])
    BY <1>3 DEF Unmoved
  <2>1. CASE i \in 1..Len(answers)
    BY <1>1, <2>1 DEF Place, Unmoved
  <2>2. CASE i = Len(answers) + 1
    BY <1>1, <2>2
  <2> QED
    BY <1>1, <2>1, <2>2
<1>6. Moved'
  BY DEF Place, Moved
<1>7. ASSUME NEW i, LastOf(t, Len(t), i)
      PROVE  /\ working' \in {"idle", "begun"} \/ (working' = "ran" /\ Stays(current')) =>
                  Left(t[i], status', handle', cursor')
             /\ working' = "ran" /\ GoesOn(current') => Reached(t[i], status', cursor')
  <2>1. LastOf(answers, Len(answers), i)
    BY <1>1, <1>7
  <2>2. i \in 1..Len(answers)
    BY <2>1 DEF LastOf
  <2>3. t[i] = answers[i] /\ Placed(answers[i])
    BY <1>1, <2>1, <2>2 DEF Place
  <2>4. Left(t[i], status, handle, cursor) => Left(t[i], status', handle', cursor')
    BY DEF Left
  <2>5. CASE handle' = handle /\ cursor' = cursor
    BY <2>3, <2>4, <2>5 DEF Placed
  <2>6. CASE working = "idle" /\ working' = "idle"
    BY <2>3, <2>4, <2>6 DEF Placed
  <2> QED
    BY <2>5, <2>6
<1>8. \A i : LastOf(answers, Len(answers), i)' => Placed(answers[i])'
  BY <1>3, <1>7 DEF LastOf, Placed
<1> QED
  BY <1>4, <1>5, <1>6, <1>8 DEF Place

\* The steps of the main thread, but for those that end work.
LEMMA PlaceMain ==
  ASSUME TypeOK, Locks, Standing, Above(stack), Place, History,
         Mild \/ Unwinding \/ FinalizeFailed \/ FinalizeRelease \/ End
  PROVE  Place' /\ History'
<1>0. 0 \in 0..MaxRows /\ "ok" \in Says /\ "refused" \in Says
  BY OpBoundAssumption DEF Says
<1>1. ASSUME UNCHANGED <<prepared, status, handle, cursor, current, working, answers>>
      PROVE  Place' /\ History'
  <2>1. Unmoved'
    BY <1>1 DEF Place, Unmoved
  <2> QED
    BY <1>1, <2>1, PlaceStill DEF History
<1>2. ASSUME NEW o \in Ops, NEW says \in Says, Tell(o, says, 0),
             says = "refused" \/ KindOf[o] = "finalize",
             UNCHANGED <<prepared, status, current, working>>,
             UNCHANGED <<handle, cursor>> \/ (working = "idle" /\ handle' = "none")
      PROVE  Place' /\ History'
  <2>1. \E x \in Answer : ~Moves(x) /\ (answers' = answers \/ answers' = Append(answers, x))
    <3> DEFINE x == [op |-> o, says |-> says, row |-> 0]
    <3>1. answers' = answers \/ answers' = Append(answers, x)
      BY <1>2 DEF Tell
    <3>2. x \in Answer /\ ~Moves(x)
      BY <1>0, <1>2 DEF Answer, Moves
    <3> HIDE DEF x
    <3> QED
      BY <3>1, <3>2
  <2>2. PICK x \in Answer : ~Moves(x) /\ (answers' = answers \/ answers' = Append(answers, x))
    BY <2>1
  <2>3. CASE answers' = Append(answers, x)
    <3>1. /\ UNCHANGED <<prepared, status>> /\ UNCHANGED <<current, working>>
          /\ UNCHANGED <<handle, cursor>> \/ handle' = "none"
          /\ UNCHANGED <<handle, cursor>> \/ working = "idle"
      BY <1>2
    <3> QED
      BY <2>2, <2>3, <3>1, PlaceTold
  <2>4. CASE answers' = answers /\ UNCHANGED <<handle, cursor>>
    BY <1>1, <1>2, <2>4
  <2>5. CASE answers' = answers /\ working = "idle" /\ handle' = "none"
    <3>1. History' /\ Unmoved' /\ Moved'
      BY <1>2, <2>5 DEF History, Place, Unmoved, Moved
    <3>2. ASSUME NEW i, LastOf(answers, Len(answers), i)
          PROVE  Placed(answers[i])'
      <4>1. Left(answers[i], status, handle, cursor)
        BY <2>5, <3>2 DEF Place, Placed
      <4>2. Left(answers[i], status, "none", cursor')
        BY <4>1 DEF Left
      <4> QED
        BY <1>2, <2>5, <4>2 DEF Placed
    <3> QED
      BY <2>5, <3>1, <3>2 DEF Place, LastOf
  <2> QED
    BY <1>2, <2>2, <2>3, <2>4, <2>5
<1>3. CASE CleanCall
  <2>1. /\ Tell(Head(queue), "refused", 0) /\ Head(queue) \in Ops
        /\ UNCHANGED <<prepared, status, current, working, handle, cursor>>
    BY <1>3 DEF CleanCall, TypeOK, fields, vm, work
  <2> QED
    BY <1>0, <1>2, <2>1
<1>4. CASE FinalizeRelease
  <2> DEFINE h == Head(stack)
  <2>1. /\ stack # <<>> /\ h \in Frame /\ h.pc = "release" /\ Has(stack, {h})
    <3>1. stack # <<>> /\ h.pc = "release"
      BY <1>4 DEF FinalizeRelease, InPc
    <3> QED
      BY <3>1, PopFrame DEF TypeOK
  <2>2. /\ UNCHANGED <<prepared, status, current, working>> /\ handle' = "none"
        /\ \/ h.op = NoOp /\ answers' = answers
           \/ h.op # NoOp /\ Tell(h.op, "ok", 0)
    BY <1>4 DEF FinalizeRelease, fields, work
  <2> HIDE DEF h
  <2>3. h \in Releasers /\ h \in Owned(h.op) /\ h.op \in Ops \cup {NoOp}
    BY <2>1 DEF Releasers, Owned, Frame
  <2>4. Has(stack, Releasers) /\ Has(stack, Owned(h.op))
    BY <2>1, <2>3, HasMore
  <2>5. working = "idle" /\ (h.op # NoOp => h.op \in Ops /\ KindOf[h.op] = "finalize")
    BY <2>3, <2>4 DEF Standing
  <2>6. CASE h.op # NoOp
    BY <1>0, <1>2, <2>2, <2>5, <2>6
  <2>7. CASE h.op = NoOp
    <3>1. History' /\ Unmoved' /\ Moved'
      BY <2>2, <2>5, <2>7 DEF History, Place, Unmoved, Moved
    <3>2. ASSUME NEW i, LastOf(answers, Len(answers), i)
          PROVE  Placed(answers[i])'
      <4>1. Left(answers[i], status, handle, cursor)
        BY <2>5, <3>2 DEF Place, Placed
      <4>2. Left(answers[i], status, "none", cursor')
        BY <4>1 DEF Left
      <4> QED
        BY <2>2, <2>5, <2>7, <4>2 DEF Placed
    <3> QED
      BY <2>2, <2>7, <3>1, <3>2 DEF Place, LastOf
  <2> QED
    BY <2>6, <2>7
<1>5. CASE (Mild /\ ~CleanCall) \/ Unwinding \/ FinalizeFailed \/ End
  <2>1. UNCHANGED <<prepared, status, handle, cursor, current, working, answers>>
    BY <1>5 DEF Mild, Unwinding, ScheduleRefuse, ScheduleQueue, Enter, ProcessClean,
       ProcessReturn, CleanEnter, CleanReturn, NewTurn, JsReturn, JsCatch, JsThrow, DeadCallback,
       FinalizeFailed, End, fields, vm, work, history
  <2> QED
    BY <1>1, <2>1
<1> QED
  BY <1>3, <1>4, <1>5

\* The steps of the database, before which nothing was answered.
LEMMA PlacePreparing ==
  ASSUME TypeOK, Locks, Place, History, Preparing
  PROVE  Place' /\ History'
<1>1. ~prepared /\ working = "idle" /\ UNCHANGED <<current, working, answers>>
  BY DEF Preparing, Construct, ConstructRejected, Prepare, PrepareBegin, PrepareRejected,
     WorkPrepare, AfterPrepare, Locks, work, history
<1>2. \A i \in 1..Len(answers) : ~Moves(answers[i])
  BY <1>1 DEF Place, Unmoved
<1>3. \A i : ~LastOf(answers, Len(answers), i)
  BY <1>2 DEF LastOf
<1>4. Unmoved' /\ Moved' /\ History'
  BY <1>1, <1>2 DEF Unmoved, Moved, History
<1> QED
  BY <1>1, <1>3, <1>4 DEF Place, LastOf

LEMMA PlaceStarting ==
  ASSUME TypeOK, Locks, Place, History, NEW o \in Ops, Starting(o)
  PROVE  Place' /\ History'
<1>1. working = "idle" /\ UNCHANGED <<answers, status, handle, cursor, prepared>>
  BY DEF Starting, Locks, vm
<1>2. UNCHANGED <<current, working>> \/ working' = "begun"
  BY DEF Starting, Run, work
<1>3. Unmoved' /\ History'
  BY <1>1 DEF Place, Unmoved, History
<1> QED
  BY <1>1, <1>2, <1>3, PlaceStill

\* What work does to the cursor.
LEMMA PlaceWork ==
  ASSUME TypeOK, Locks, Place, History, NEW o \in Ops, Work(o)
  PROVE  Place' /\ History'
<1>1. /\ current = o /\ working = "begun" /\ working' \in {"ran", "crashed"}
      /\ UNCHANGED <<prepared, current, handle, answers>> /\ KindOf[o] # "finalize"
  BY DEF Work, WorkBind, WorkStep, WorkAll, WorkReset, WorkSkip, WorkRefused, WorkGone,
     Working, fields, history, Locks
<1>2. cursor \in 0..MaxRows /\ MaxRows \in Nat /\ KindOf[o] \in Kinds
  BY OpBoundAssumption, OpKindAssumption DEF TypeOK
<1>3. Unmoved' /\ History'
  BY <1>1 DEF Place, Unmoved, History
<1>4. ASSUME working' = "ran", Stays(o)
      PROVE  status' = status /\ (handle = "live" => cursor' = cursor)
  BY <1>1, <1>4 DEF Work, WorkBind, WorkStep, WorkAll, WorkReset, WorkSkip, WorkRefused, WorkGone,
     Stays, Bare, From, Skips, Usable
<1>5. ASSUME working' = "ran", GoesOn(o), status' = "row"
      PROVE  handle = "live" /\ status # "done" /\ cursor' = cursor + 1
  BY <1>1, <1>5 DEF Work, WorkBind, WorkStep, WorkAll, WorkReset, WorkSkip, WorkRefused, WorkGone,
     GoesOn, Bare, From, Skips, Usable, Stepped
<1>6. Moved'
  <2> SUFFICES ASSUME working' = "ran", handle = "live"
               PROVE  /\ KindOf[o] = "reset" \/ (KindOf[o] = "bind" /\ ~Bare(o)) => cursor' = 0
                      /\ KindOf[o] = "run" /\ status' = "row" => cursor' = 1
    BY <1>1 DEF Moved
  <2>1. CASE WorkBind(o) \/ WorkReset(o) \/ WorkSkip(o) \/ WorkRefused(o) \/ WorkAll(o)
    BY <2>1 DEF WorkBind, WorkReset, WorkSkip, WorkRefused, WorkAll, From, Skips
  <2>2. CASE WorkStep(o)
    BY <2>2 DEF WorkStep, Stepped, From
  <2>3. CASE WorkGone(o)
    BY <2>3 DEF WorkGone
  <2> QED
    BY <2>1, <2>2, <2>3 DEF Work
<1>7. ASSUME NEW i, LastOf(answers, Len(answers), i)
      PROVE  Placed(answers[i])'
  <2> DEFINE b == answers[i]
  <2>1. Left(b, status, handle, cursor)
    BY <1>1, <1>7 DEF Place, Placed
  <2> HIDE DEF b
  <2>2. working' = "ran" /\ Stays(o) => Left(b, status', handle, cursor')
    BY <1>4, <2>1 DEF Left
  <2>3. working' = "ran" /\ GoesOn(o) => Reached(b, status', cursor')
    BY <1>2, <1>5, <2>1 DEF Left, Reached
  <2>4. working' \notin {"idle", "begun"}
    BY <1>1
  <2> QED
    BY <1>1, <2>2, <2>3, <2>4 DEF Placed, b
<1> QED
  BY <1>1, <1>3, <1>6, <1>7 DEF Place, LastOf

\* The end of work says where the cursor is.
LEMMA PlaceAfter ==
  ASSUME TypeOK, Locks, Place, History, NEW o \in Ops, After(o)
  PROVE  Place' /\ History'
<1>1. /\ current = o /\ working = "ran" /\ working' = "idle" /\ ~raised
      /\ UNCHANGED <<prepared, status, handle, cursor>>
      /\ KindOf[o] # "finalize" /\ prepared
  BY DEF After, AfterError, AfterOk, Ended, EventLoop, Locks, fields, vm
<1>2. /\ cursor \in 0..MaxRows /\ 0 \in 0..MaxRows /\ KindOf[o] \in Kinds
      /\ status \in {"ok", "row", "done", "error"} /\ answers \in Seq(Answer)
  BY OpBoundAssumption, OpKindAssumption DEF TypeOK
<1>3. \E x \in Answer :
        /\ answers' = Append(answers, x) /\ x.op = o
        /\ \/ x.says = "error"
           \/ x.says = "row" /\ KindOf[o] = "get" /\ status = "row" /\ x.row = cursor
           \/ x.says = "none" /\ KindOf[o] = "get" /\ status = "done"
           \/ x.says = "ok" /\ KindOf[o] # "get" /\ ~Refuses(o)
  <2>1. ASSUME NEW says \in Says, NEW row \in 0..MaxRows, Tell(o, says, row),
               \/ says = "error"
               \/ says = "row" /\ KindOf[o] = "get" /\ status = "row" /\ row = cursor
               \/ says = "none" /\ KindOf[o] = "get" /\ status = "done"
               \/ says = "ok" /\ KindOf[o] # "get" /\ ~Refuses(o)
        PROVE  \E x \in Answer :
                 /\ answers' = Append(answers, x) /\ x.op = o
                 /\ \/ x.says = "error"
                    \/ x.says = "row" /\ KindOf[o] = "get" /\ status = "row" /\ x.row = cursor
                    \/ x.says = "none" /\ KindOf[o] = "get" /\ status = "done"
                    \/ x.says = "ok" /\ KindOf[o] # "get" /\ ~Refuses(o)
    <3> DEFINE x == [op |-> o, says |-> says, row |-> row]
    <3>1. x \in Answer /\ x.op = o /\ x.says = says /\ x.row = row
      BY DEF Answer
    <3>2. answers' = Append(answers, x)
      BY <1>1, <2>1 DEF Tell
    <3> HIDE DEF x
    <3> QED
      BY <2>1, <3>1, <3>2
  <2>2. CASE AfterError(o)
    <3>1. Tell(o, "error", 0) /\ "error" \in Says
      BY <2>2 DEF AfterError, Says
    <3> QED
      BY <1>2, <2>1, <3>1
  <2>3. CASE AfterOk(o) /\ KindOf[o] = "get" /\ status = "row"
    <3>1. Tell(o, "row", cursor) /\ "row" \in Says
      BY <2>3 DEF AfterOk, Says
    <3> QED
      BY <1>2, <2>1, <2>3, <3>1
  <2>4. CASE AfterOk(o) /\ KindOf[o] = "get" /\ status # "row"
    <3>1. Tell(o, "none", 0) /\ "none" \in Says /\ status = "done"
      BY <1>2, <2>4 DEF AfterOk, Says, Refuses
    <3> QED
      BY <1>2, <2>1, <2>4, <3>1
  <2>5. CASE AfterOk(o) /\ KindOf[o] # "get"
    <3>1. Tell(o, "ok", 0) /\ "ok" \in Says /\ ~Refuses(o)
      BY <2>5 DEF AfterOk, Says
    <3> QED
      BY <1>2, <2>1, <2>5, <3>1
  <2> QED
    BY <2>2, <2>3, <2>4, <2>5 DEF After
<1>4. PICK x \in Answer :
        /\ answers' = Append(answers, x) /\ x.op = o
        /\ \/ x.says = "error"
           \/ x.says = "row" /\ KindOf[o] = "get" /\ status = "row" /\ x.row = cursor
           \/ x.says = "none" /\ KindOf[o] = "get" /\ status = "done"
           \/ x.says = "ok" /\ KindOf[o] # "get" /\ ~Refuses(o)
  BY <1>3
<1>5. CASE ~Moves(x)
  <2>1. Stays(o)
    BY <1>1, <1>4, <1>5 DEF Moves, Stays
  <2> QED
    BY <1>1, <1>4, <1>5, <2>1, PlaceTold
<1>6. CASE Moves(x)
  <2> DEFINE t == Append(answers, x)
  <2>1. /\ Len(t) = Len(answers) + 1 /\ t[Len(t)] = x
        /\ \A i : LastOf(t, Len(t), i) <=> i = Len(t)
        /\ HasLast(t)
    BY <1>2, <1>6, LastAppend DEF History
  <2>2. BareGet(x) => \A i : LastOf(answers, Len(answers), i) => Follows(x, answers[i])
    <3> SUFFICES ASSUME BareGet(x), NEW i, LastOf(answers, Len(answers), i)
                 PROVE  Follows(x, answers[i])
      OBVIOUS
    <3>1. KindOf[o] = "get" /\ Bare(o) /\ x.says \in {"row", "none"}
      BY <1>4 DEF BareGet
    <3>2. Placed(answers[i])
      BY DEF Place
    <3> DEFINE b == answers[i]
    <3>3. Reached(b, status, cursor)
      BY <1>1, <3>1, <3>2 DEF Placed, GoesOn
    <3> HIDE DEF b
    <3>4. Follows(x, b)
      BY <1>4, <3>1, <3>3 DEF Reached, Follows
    <3> QED
      BY <3>4 DEF b
  <2>3. Walks(t)
    BY <1>2, <2>2, WalksAppend DEF History
  <2>4. answers' = t
    BY <1>4
  <2> HIDE DEF t
  <2>5. History'
    BY <2>1, <2>3, <2>4 DEF History
  <2>6. Unmoved' /\ Moved'
    BY <1>1 DEF Unmoved, Moved
  <2>7. Left(x, status, handle, cursor)
    <3>1. KindOf[o] \in {"all", "each"} /\ x.says = "ok" => status = "done"
      BY <1>4 DEF Refuses
    <3>2. KindOf[o] = "run" /\ x.says = "ok" => status \in {"row", "done"}
      BY <1>4 DEF Refuses
    <3>3. handle = "live" =>
            /\ KindOf[o] = "reset" \/ (KindOf[o] = "bind" /\ ~Bare(o)) => cursor = 0
            /\ KindOf[o] = "run" /\ status = "row" => cursor = 1
      BY <1>1 DEF Place, Moved
    <3>4. KindOf[o] = "bind" => ~Bare(o)
      BY <1>4, <1>6 DEF Moves
    <3> QED
      BY <1>4, <3>1, <3>2, <3>3, <3>4 DEF Left
  <2>8. \A i : LastOf(t, Len(t), i) => Left(t[i], status, handle, cursor)
    BY <2>1, <2>7
  <2>9. \A i : LastOf(answers, Len(answers), i)' => Placed(answers[i])'
    <3>1. \A i : LastOf(answers', Len(answers'), i) => Left(answers'[i], status', handle', cursor')
      BY <1>1, <2>4, <2>8
    <3> QED
      BY <1>1, <3>1 DEF LastOf, Placed
  <2> QED
    BY <2>5, <2>6, <2>9 DEF Place
<1> QED
  BY <1>5, <1>6

LEMMA PlaceInvariant == Spec => [](Standing /\ Above(stack) /\ Place /\ History)
<1>1. Init => Standing /\ Above(stack) /\ Place /\ History
  <2> SUFFICES ASSUME Init
               PROVE  Standing /\ Above(stack) /\ Place /\ History
    OBVIOUS
  <2>1. ~Has(stack, Releasers) /\ ~Has(stack, Failing) /\ stack \in Seq(Frame)
    BY InitStack, FramesApart
  <2>2. \A o \in Ops : ~Has(stack, Owned(o))
    BY InitStack, FramesApart
  <2>3. Above(stack)
    BY <2>1, ClearFree DEF Clear
  <2>4. answers = <<>> /\ Len(answers) = 0 /\ working = "idle"
    BY DEF Init
  <2>5. History
    BY <2>4 DEF History, HasLast, Walks
  <2>6. Place
    BY <2>4 DEF Place, Unmoved, Moved, LastOf
  <2> QED
    BY <2>1, <2>2, <2>3, <2>5, <2>6 DEF Standing
<1>2. IInv /\ Locks /\ Standing /\ Above(stack) /\ Place /\ History /\ [Next]_vars
      => Standing' /\ Above(stack)' /\ Place' /\ History'
  <2>1. ASSUME IInv, Locks, Standing, Above(stack), Place, History, Next
        PROVE  Standing' /\ Above(stack)' /\ Place' /\ History'
    <3>1. TypeOK /\ Step
      BY <2>1 DEF IInv, Next
    <3>2. Standing' /\ Above(stack')
      BY <2>1, <3>1, StandingNext
    <3>3. Place' /\ History'
      BY <2>1, <3>1, StepParts, PlaceMain, PlacePreparing, PlaceStarting, PlaceWork, PlaceAfter
    <3> QED
      BY <3>2, <3>3 DEF Above
  <2>2. ASSUME Standing, Above(stack), Place, History, UNCHANGED vars
        PROVE  Standing' /\ Above(stack)' /\ Place' /\ History'
    BY <2>2 DEF vars, fields, vm, work, history, Standing, Above, Place, History, Unmoved, Moved,
       Placed, LastOf
  <2> QED
    BY <2>1, <2>2
<1> QED
  BY <1>1, <1>2, Invariant, LocksInvariant, PTL DEF Spec

\* Successive calls of get() walk through the result, whatever other operations
\* were in between, whichever callbacks throw, and even where a throw has the
\* statement finalized twice.
THEOREM StatementGetContinues == Spec => []GetContinues
<1>1. IInv /\ History => GetContinues
  BY WalksContinue DEF IInv, TypeOK
<1> QED
  BY <1>1, Invariant, PlaceInvariant, PTL

-----------------------------------------------------------------------------
\* One statement is finalized once, when no callback throws.

\* What the sets of frames hold, by the program counter.
LEMMA FrameSets ==
  \A f \in Frame :
    /\ f \in Enders <=> f.pc \in {"end", "errorEnd", "failed"}
    /\ f \in Failing <=> f.pc \in {"failed", "reject"}
    /\ f \in Releasers <=> f.pc = "release"
    /\ \A o : f \in Owned(o) <=> f.pc = "release" /\ f.op = o
    /\ f \in Dead <=> f.pc = "dead"
    /\ f \in Cleaners <=> f.pc \in {"clean", "cleaning"}
    /\ f \in Looping <=> f.pc = "cleaning"
    /\ f \in Sheltered <=> f.pc \in {"loop", "release"}
  BY DEF Enders, Failing, Releasers, Owned, Dead, Cleaners, Looping, Sheltered

\* Nothing unwinds the stack.
LEMMA NoUnwinding ==
  ASSUME TypeOK, Shelter, ~MayThrow, Step
  PROVE  ~Unwinding /\ ~raised /\ ~raised' /\ Callback = At("js")
<1>1. ~raised /\ ~Has(stack, Dead)
  BY DEF Shelter
<1>2. ~Unwinding
  BY <1>1, UnwindingStack
<1>3. raised' = raised \/ raised' = FALSE
  <2>1. CASE Mild
    BY <2>1 DEF Mild, ScheduleRefuse, ScheduleQueue, Enter, ProcessClean, ProcessReturn,
       CleanEnter, CleanCall, CleanReturn, NewTurn, JsReturn, JsCatch
  <2>2. CASE Preparing
    BY <2>2 DEF Preparing, Construct, ConstructRejected, Prepare, PrepareBegin, PrepareRejected,
       WorkPrepare, AfterPrepare
  <2>3. CASE FinalizeFailed \/ FinalizeRelease \/ End \/ \E o \in Ops : Starting(o)
    BY <2>3 DEF FinalizeFailed, FinalizeRelease, End, Starting
  <2>4. CASE \E o \in Ops : Work(o) \/ After(o)
    BY <2>4 DEF Work, WorkBind, WorkStep, WorkAll, WorkReset, WorkSkip, WorkRefused, WorkGone,
       Working, After, AfterError, AfterOk, Ended
  <2> QED
    BY <1>2, <2>1, <2>2, <2>3, <2>4, StepParts
<1> QED
  BY <1>1, <1>2, <1>3 DEF Callback

\* The loop of Process runs nothing of a statement that was finalized.
LEMMA RunsBefore ==
  ASSUME TypeOK, Shelter, ProcessRun
  PROVE  ~finalized
<1>1. stack # <<>> /\ queue # <<>> /\ (Head(stack).pc = "loop" \/ ~finalized)
  BY DEF ProcessRun, InLoop, InPc
<1>2. CASE finalized
  <2>1. Shielded(stack) /\ Head(stack).pc = "loop"
    BY <1>1, <1>2 DEF Shelter
  <2>2. stack \in Seq(Frame) /\ Head(stack) \in Frame
    BY <1>1, TopFrame
  <2>3. 1 \in 1..Len(stack) /\ stack[1] = Head(stack)
    BY <1>1, <2>2, EmptySeq, LenProperties
  <2>4. stack[1] \in Sheltered
    BY <2>1, <2>2, <2>3, FrameSets
  <2>5. 1..1-1 = {}
    OBVIOUS
  <2> QED
    BY <2>1, <2>3, <2>4, <2>5 DEF Shielded
<1> QED
  BY <1>2

LEMMA StartsBefore ==
  ASSUME TypeOK, Shelter, Step
  PROVE  \/ Mild \/ Unwinding \/ Preparing \/ (\E o \in Ops : Starting(o) /\ ~finalized)
         \/ FinalizeFailed \/ FinalizeRelease \/ End
         \/ \E o \in Ops : Work(o) \/ After(o)
  BY StartKinds, RunsBefore DEF Step, Handler, Schedule, Mild, Unwinding, Preparing

LEMMA HandlesNext ==
  ASSUME TypeOK, Locks, Handles, Finalizing, Shelter, ~MayThrow, Step
  PROVE  Handles'
<1>0. ~Unwinding
  BY NoUnwinding
<1>1. CASE Mild
  BY <1>1, MildFrame DEF Handles, fields
<1>2. CASE Preparing
  <2>1. CASE Construct \/ Prepare
    BY <2>1 DEF Construct, Prepare, PrepareBegin, PrepareRejected, Handles, Locks, fields, vm
  <2>2. CASE ConstructRejected
    BY <2>2 DEF ConstructRejected, Handles, Locks, vm
  <2>3. CASE WorkPrepare
    BY <2>3 DEF WorkPrepare, Handles, Locks, fields
  <2>4. CASE AfterPrepare
    BY <2>4 DEF AfterPrepare, Handles, vm
  <2> QED
    BY <1>2, <2>1, <2>2, <2>3, <2>4 DEF Preparing
<1>3. CASE \E o \in Ops : Starting(o)
  BY <1>3 DEF Starting, Handles, vm
<1>4. CASE FinalizeFailed \/ End
  <2>1. UNCHANGED <<prepared, released, preparing, status, handle>>
    BY <1>4 DEF FinalizeFailed, End, vm
  <2> QED
    BY <2>1 DEF Handles
<1>5. CASE FinalizeRelease
  <2>1. preparing = "over"
    <3>1. Has(stack, Releasers)
      BY <1>5, PopStack, FramesApart
    <3> QED
      BY <3>1 DEF Locks
  <2>2. released' # 0 /\ preparing' = preparing
    BY <1>5 DEF FinalizeRelease, TypeOK
  <2> QED
    BY <2>1, <2>2 DEF Handles
<1>6. CASE \E o \in Ops : Work(o)
  <2>1. working # "idle" /\ UNCHANGED <<prepared, released, preparing, handle>>
    BY <1>6 DEF Work, WorkBind, WorkStep, WorkAll, WorkReset, WorkSkip, WorkRefused, WorkGone,
       Working, fields
  <2>2. preparing = "over"
    BY <2>1 DEF Locks
  <2> QED
    BY <2>1, <2>2 DEF Handles
<1>7. CASE \E o \in Ops : After(o)
  BY <1>7 DEF After, AfterError, AfterOk, Ended, Handles, fields, vm
<1> QED
  BY <1>0, <1>1, <1>2, <1>3, <1>4, <1>5, <1>6, <1>7, StepParts

LEMMA FinalizingNext ==
  ASSUME TypeOK, Locks, Finalizing, Shelter, ~MayThrow, Step
  PROVE  Finalizing'
<1>0. ~Unwinding /\ released \in Nat
  BY NoUnwinding DEF TypeOK
<1>1. CASE Mild
  <2>1. Same(stack', stack) /\ UNCHANGED <<prepared, finalized, working, released>>
    BY <1>1, MildStack, MildFrame DEF fields, work
  <2>2. /\ Has(stack', Failing) <=> Has(stack, Failing)
        /\ Alone(stack', Failing) <=> Alone(stack, Failing)
        /\ Has(stack', Releasers) <=> Has(stack, Releasers)
        /\ Alone(stack', Releasers) <=> Alone(stack, Releasers)
    BY <2>1, FramesApart DEF Same
  <2> QED
    BY <2>1, <2>2 DEF Finalizing
<1>2. CASE Preparing
  <2>0. /\ preparing # "over" /\ working = "idle" /\ ~prepared /\ ~finalized /\ released = 0
        /\ ~Has(stack, Failing) /\ ~Has(stack, Releasers) /\ working' = working
    BY <1>2 DEF Locks, Preparing, Construct, ConstructRejected, Prepare, PrepareBegin,
       PrepareRejected, WorkPrepare, AfterPrepare, work
  <2>1. CASE Construct \/ PrepareBegin \/ WorkPrepare
    <3>1. UNCHANGED <<prepared, finalized, released, stack>>
      BY <2>1 DEF Construct, PrepareBegin, WorkPrepare, fields
    <3> QED
      BY <2>0, <3>1 DEF Finalizing
  <2>2. CASE ConstructRejected
    <3>1. /\ stack' = <<Callback>> \o stack /\ finalized' = TRUE /\ released' = released + 1
          /\ prepared' = prepared
      BY <2>2 DEF ConstructRejected
    <3>2. Same(stack', stack)
      BY <3>1, SameAll, SamePush, FramesNeutral DEF TypeOK
    <3>3. /\ ~Has(stack', Failing) /\ Alone(stack', Failing)
          /\ ~Has(stack', Releasers) /\ Alone(stack', Releasers)
      BY <2>0, <3>2, FramesApart DEF Same, Finalizing
    <3>4. released' = 1
      BY <2>0, <3>1
    <3> QED
      BY <2>0, <3>1, <3>3, <3>4 DEF Finalizing
  <2>3. CASE PrepareRejected
    <3>1. UNCHANGED <<prepared, finalized, released>>
      BY <2>3 DEF PrepareRejected, fields
    <3>2. At("reject") \notin Releasers
      BY OtherFrames, FrameSets
    <3>3. /\ ~Has(stack', Releasers) /\ Alone(stack', Releasers) /\ Alone(stack', Failing)
      BY <2>0, <2>3, <3>2, RejectStack, FramesApart DEF Finalizing
    <3> QED
      BY <2>0, <3>1, <3>3 DEF Finalizing
  <2>4. CASE AfterPrepare
    <3> DEFINE p == IF status = "ok" THEN "end" ELSE "failed"
    <3>1. /\ stack' = <<At("js"), At(p)>> /\ p \in {"end", "errorEnd", "failed"}
          /\ p = "end" => prepared' = TRUE
          /\ p = "failed" => prepared' = FALSE
          /\ UNCHANGED <<finalized, released>>
      BY <2>4 DEF AfterPrepare
    <3> HIDE DEF p
    <3>2. (Has(stack', Failing) <=> At(p) \in Failing) /\ Alone(stack', Failing)
          /\ (Has(stack', Releasers) <=> At(p) \in Releasers) /\ Alone(stack', Releasers)
      BY <3>1, EnterStack, FramesApart
    <3>3. At(p) \notin Releasers /\ (At(p) \in Failing <=> p = "failed")
      BY <3>1, OtherFrames, FrameSets
    <3> QED
      BY <2>0, <3>1, <3>2, <3>3 DEF Finalizing
  <2> QED
    BY <1>2, <2>1, <2>2, <2>3, <2>4 DEF Preparing, Prepare
<1>3. CASE \E o \in Ops : Starting(o) /\ ~finalized
  <2>1. PICK o \in Ops : Starting(o) /\ ~finalized
    BY <1>3
  <2>2. PICK r : Same(r, stack) /\ Run(o, r)
    BY <2>1 DEF Starting
  <2>3. /\ prepared /\ ~Has(stack, Failing) /\ ~Has(stack, Releasers) /\ released = 0
        /\ prepared' = prepared /\ released' = released /\ working = "idle"
    BY <1>0, <2>1 DEF Starting, Finalizing, Locks
  <2>4. CASE KindOf[o] # "finalize"
    <3>1. stack' = r /\ finalized' = finalized
      BY <2>2, <2>4 DEF Run
    <3>2. /\ ~Has(stack', Failing) /\ Alone(stack', Failing)
          /\ ~Has(stack', Releasers) /\ Alone(stack', Releasers)
      BY <2>2, <2>3, <3>1, FramesApart DEF Same, Finalizing
    <3> QED
      BY <2>1, <2>3, <3>1, <3>2 DEF Finalizing
  <2>5. CASE KindOf[o] = "finalize"
    <3>1. finalized' = TRUE /\ working' = working
      BY <2>2, <2>5 DEF Run, work
    <3>2. Release(o) \notin Failing /\ Release(o) \in Releasers
      BY OtherFrames, FrameSets
    <3>3. /\ ~Has(stack', Failing) /\ Alone(stack', Failing)
          /\ Has(stack', Releasers) /\ Alone(stack', Releasers)
      BY <2>2, <2>3, <2>5, <3>2, RunStack, FramesApart DEF Finalizing
    <3> QED
      BY <2>3, <3>1, <3>3 DEF Finalizing
  <2> QED
    BY <2>4, <2>5
<1>4. CASE FinalizeFailed
  <2> DEFINE h == Head(stack)
             t == Tail(stack)
             e == At("errorEnd")
  <2>1. /\ stack # <<>> /\ h \in Failing /\ stack \in Seq(Frame)
        /\ \A P : P \cap Neutral = {} =>
             /\ Has(stack', P) <=> \/ Release(NoOp) \in P \/ (h \in Enders /\ e \in P)
                                   \/ Has(t, P)
             /\ (Alone(t, P) /\ ~(Release(NoOp) \in P /\ Has(t, P))
                             /\ ~(h \in Enders /\ e \in P /\ Has(t, P))
                             /\ ~(Release(NoOp) \in P /\ e \in P)) => Alone(stack', P)
    BY <1>4, FailStack DEF TypeOK
  <2>2. /\ \A P : Has(stack, P) <=> h \in P \/ Has(t, P)
        /\ \A P : Alone(stack, P) <=> Alone(t, P) /\ ~(h \in P /\ Has(t, P))
    BY <2>1, PopFrame
  <2>3. /\ Release(NoOp) \notin Failing /\ Release(NoOp) \in Releasers
        /\ e \notin Failing /\ e \notin Releasers
    BY OtherFrames, FrameSets
  <2> HIDE DEF h, t, e
  <2>4. ~finalized /\ ~prepared /\ released = 0 /\ ~Has(stack, Releasers) /\ working = "idle"
    BY <1>0, <2>1, <2>2 DEF Finalizing, Locks
  <2>5. Alone(t, Failing) /\ ~Has(t, Failing) /\ ~Has(t, Releasers) /\ Alone(t, Releasers)
    BY <2>1, <2>2, <2>4 DEF Finalizing
  <2>6. /\ ~Has(stack', Failing) /\ Alone(stack', Failing)
        /\ Has(stack', Releasers) /\ Alone(stack', Releasers)
    BY <2>1, <2>3, <2>5, FramesApart
  <2>7. finalized' = TRUE /\ UNCHANGED <<prepared, released, working>>
    BY <1>4 DEF FinalizeFailed, work
  <2> QED
    BY <2>4, <2>6, <2>7 DEF Finalizing
<1>5. CASE FinalizeRelease
  <2> DEFINE h == Head(stack)
  <2>1. /\ h \in Releasers
        /\ \A P : P \cap Neutral = {} =>
             /\ Has(stack, P) <=> h \in P \/ Has(stack', P)
             /\ Alone(stack, P) <=> Alone(stack', P) /\ ~(h \in P /\ Has(stack', P))
    BY <1>5, PopStack
  <2> HIDE DEF h
  <2>2. /\ finalized /\ released = 0 /\ ~Has(stack', Releasers) /\ Alone(stack', Releasers)
        /\ ~Has(stack', Failing) /\ Alone(stack', Failing)
    BY <2>1, FramesApart DEF Finalizing
  <2>3. released' = released + 1 /\ UNCHANGED <<prepared, finalized, working>>
    BY <1>5 DEF FinalizeRelease, fields, work
  <2>4. released' = 1
    BY <2>2, <2>3
  <2> QED
    BY <2>2, <2>3, <2>4 DEF Finalizing
<1>6. CASE End
  <2> DEFINE h == Head(stack)
  <2>1. /\ h \in Enders /\ h \in Frame
        /\ \A P : P \cap Neutral = {} =>
             /\ Has(stack, P) <=> h \in P \/ Has(stack', P)
             /\ Alone(stack, P) <=> Alone(stack', P) /\ ~(h \in P /\ Has(stack', P))
    BY <1>6, PopStack
  <2> HIDE DEF h
  <2>2. h \notin Releasers
    BY <2>1, FrameSets
  <2>3. /\ Has(stack', Failing) => Has(stack, Failing)
        /\ Alone(stack', Failing) /\ Alone(stack', Releasers)
        /\ Has(stack', Releasers) <=> Has(stack, Releasers)
    BY <2>1, <2>2, FramesApart DEF Finalizing
  <2>4. UNCHANGED <<prepared, finalized, working, released>>
    BY <1>6 DEF End, work
  <2> QED
    BY <2>3, <2>4 DEF Finalizing
<1>7. CASE \E o \in Ops : Work(o)
  <2>1. working # "idle" /\ UNCHANGED <<prepared, finalized, released, stack>>
    BY <1>7 DEF Work, WorkBind, WorkStep, WorkAll, WorkReset, WorkSkip, WorkRefused, WorkGone,
       Working, fields
  <2> QED
    BY <2>1 DEF Finalizing
<1>8. CASE \E o \in Ops : After(o)
  <2>1. PICK o \in Ops : After(o)
    BY <1>8
  <2>2. stack = <<>> /\ working' = "idle" /\ UNCHANGED <<prepared, finalized, released>>
    BY <2>1 DEF After, AfterError, AfterOk, Ended, EventLoop, fields
  <2>3. \E p \in {"end", "errorEnd"} :
          \/ stack' = <<At("js"), At(p)>> \/ stack' = Call(o) \o <<At(p)>>
          \/ stack' = <<>> \o <<At(p)>>
    BY <2>1 DEF After, AfterError, AfterOk
  <2>4. PICK p \in {"end", "errorEnd"} :
          \A P : P \cap Neutral = {} => (Has(stack', P) <=> At(p) \in P) /\ Alone(stack', P)
    BY <2>3, EnterStack
  <2>5. At(p) \notin Failing /\ At(p) \notin Releasers
    BY OtherFrames, FrameSets
  <2>6. /\ ~Has(stack', Failing) /\ Alone(stack', Failing)
        /\ ~Has(stack', Releasers) /\ Alone(stack', Releasers)
    BY <2>4, <2>5, FramesApart
  <2>7. ~Has(stack, Releasers)
    BY <2>2, EmptyStack
  <2> QED
    BY <2>2, <2>6, <2>7 DEF Finalizing
<1> QED
  BY <1>0, <1>1, <1>2, <1>3, <1>4, <1>5, <1>6, <1>7, <1>8, StartsBefore

-----------------------------------------------------------------------------
\* What finalize answers.

\* An answer is appended.
LEMMA SaidAppend ==
  ASSUME TypeOK, NEW x \in Answer, answers' = Append(answers, x)
  PROVE  FinalizeSaid' <=> FinalizeSaid \/ (KindOf[x.op] = "finalize" /\ x.says # "refused")
<1> DEFINE P == {a \in Answer : KindOf[a.op] = "finalize" /\ a.says # "refused"}
<1>1. answers \in Seq(Answer)
  BY DEF TypeOK
<1>2. /\ Append(answers, x) \in Seq(Answer)
      /\ Has(Append(answers, x), P) <=> Has(answers, P) \/ x \in P
  BY <1>1, AppendHas
<1>3. answers' \in Seq(Answer) /\ (Has(answers', P) <=> Has(answers, P) \/ x \in P)
  BY <1>2
<1>4. ASSUME NEW s \in Seq(Answer)
      PROVE  Has(s, P) <=> \E i \in 1..Len(s) : KindOf[s[i].op] = "finalize"
                                                 /\ s[i].says # "refused"
  <2>1. \A i \in 1..Len(s) : s[i] \in Answer
    BY ElementOfSeq
  <2> QED
    BY <2>1 DEF Has
<1>5. x \in P <=> KindOf[x.op] = "finalize" /\ x.says # "refused"
  OBVIOUS
<1> HIDE DEF P
<1> QED
  BY <1>1, <1>3, <1>4, <1>5 DEF FinalizeSaid

\* Only the end of Finalize_ says anything but "refused" to a finalize.
LEMMA SaidOtherwise ==
  ASSUME TypeOK, Locks, Shelter, ~MayThrow, Step, ~FinalizeRelease
  PROVE  FinalizeSaid' <=> FinalizeSaid
<1>1. ASSUME answers' = answers
      PROVE  FinalizeSaid' <=> FinalizeSaid
  BY <1>1 DEF FinalizeSaid
<1>2. ASSUME NEW o \in Ops, NEW says \in Says, NEW row \in 0..MaxRows, Tell(o, says, row),
             KindOf[o] # "finalize" \/ says = "refused"
      PROVE  FinalizeSaid' <=> FinalizeSaid
  <2> DEFINE x == [op |-> o, says |-> says, row |-> row]
  <2>1. ~raised
    BY DEF Shelter
  <2>2. answers' = Append(answers, x)
    BY <1>2, <2>1 DEF Tell
  <2>3. x \in Answer /\ x.op = o /\ x.says = says
    BY DEF Answer
  <2> HIDE DEF x
  <2> QED
    BY <1>2, <2>2, <2>3, SaidAppend
<1>0. ~Unwinding /\ 0 \in 0..MaxRows
  BY NoUnwinding, OpBoundAssumption
<1>3. CASE CleanCall
  <2>1. Tell(Head(queue), "refused", 0) /\ Head(queue) \in Ops /\ "refused" \in Says
    BY <1>3 DEF CleanCall, TypeOK, Says
  <2> QED
    BY <1>0, <1>2, <2>1
<1>4. CASE Mild /\ ~CleanCall
  BY <1>1, <1>4 DEF Mild, ScheduleRefuse, ScheduleQueue, Enter, ProcessClean, ProcessReturn,
     CleanEnter, CleanReturn, NewTurn, JsReturn, JsCatch, history
<1>5. CASE Preparing
  BY <1>1, <1>5 DEF Preparing, Construct, ConstructRejected, Prepare, PrepareBegin,
     PrepareRejected, WorkPrepare, AfterPrepare, history
<1>6. CASE FinalizeFailed \/ End \/ \E o \in Ops : Starting(o)
  BY <1>1, <1>6 DEF FinalizeFailed, End, Starting, history
<1>7. CASE \E o \in Ops : Work(o)
  BY <1>1, <1>7 DEF Work, WorkBind, WorkStep, WorkAll, WorkReset, WorkSkip, WorkRefused,
     WorkGone, Working, history
<1>8. CASE \E o \in Ops : After(o)
  <2>1. PICK o \in Ops : After(o)
    BY <1>8
  <2>2. current = o /\ working # "idle" /\ KindOf[o] # "finalize"
    BY <2>1 DEF After, AfterError, AfterOk, Ended, Locks
  <2>3. \E says \in Says, row \in 0..MaxRows : Tell(o, says, row)
    <3>1. cursor \in 0..MaxRows
      BY DEF TypeOK
    <3>2. CASE AfterError(o)
      BY <1>0, <3>2 DEF AfterError, Says
    <3>3. CASE AfterOk(o) /\ KindOf[o] = "get"
      BY <1>0, <3>1, <3>3 DEF AfterOk, Says
    <3>4. CASE AfterOk(o) /\ KindOf[o] # "get"
      BY <1>0, <3>4 DEF AfterOk, Says
    <3> QED
      BY <2>1, <3>2, <3>3, <3>4 DEF After
  <2> QED
    BY <1>2, <2>2, <2>3
<1> QED
  BY <1>0, <1>3, <1>4, <1>5, <1>6, <1>7, <1>8, StepParts

-----------------------------------------------------------------------------
\* Whose Finalize_ is under way.

LEMMA OwnersNext ==
  ASSUME TypeOK, Locks, Finalizing, Owners, Shelter, ~MayThrow, Step
  PROVE  Owners'
<1>0. /\ ~Unwinding /\ released \in Nat
      /\ \A o : Owned(o) \cap Neutral = {}
  BY NoUnwinding, FramesApart DEF TypeOK
<1>1. ASSUME \A o \in Ops \cup {NoOp} : Has(stack', Owned(o)) => Has(stack, Owned(o)),
             prepared' = prepared, released' = released, ~FinalizeRelease
      PROVE  Owners'
  <2>1. FinalizeSaid' <=> FinalizeSaid
    BY <1>1, SaidOtherwise
  <2> QED
    BY <1>1, <2>1 DEF Owners
<1>2. CASE Mild
  <2>1. UNCHANGED <<prepared, released>> /\ Same(stack', stack)
    BY <1>2, MildFrame, MildStack DEF fields
  <2>2. \A o : Has(stack', Owned(o)) => Has(stack, Owned(o))
    BY <1>0, <2>1 DEF Same
  <2>3. CASE FinalizeRelease
    <3>1. stack # <<>> /\ Head(stack) \in Releasers /\ stack \in Seq(Frame)
      BY <2>3, PopStack DEF TypeOK
    <3>2. Has(stack, Releasers) /\ released \in Nat
      BY <1>0, <3>1, PopFrame
    <3>3. released' = released + 1
      BY <2>3 DEF FinalizeRelease
    <3> QED
      BY <1>0, <2>1, <3>3
  <2> QED
    BY <1>1, <2>1, <2>2, <2>3
<1>3. CASE Preparing /\ ~FinalizeRelease
  <2>0. preparing # "over" /\ ~Has(stack, Releasers) /\ ~prepared /\ released = 0
    BY <1>3 DEF Preparing, Construct, ConstructRejected, Prepare, PrepareBegin, PrepareRejected,
       WorkPrepare, AfterPrepare, Locks
  <2>1. \A o : ~Has(stack, Owned(o))
    BY <2>0 DEF Has, Owned, Releasers
  <2>2. CASE Construct \/ PrepareBegin \/ WorkPrepare
    BY <1>1, <1>3, <2>2 DEF Construct, PrepareBegin, WorkPrepare, fields
  <2>3. FinalizeSaid' <=> FinalizeSaid
    BY <1>3, SaidOtherwise
  <2>4. CASE ConstructRejected
    <3>1. stack' = <<Callback>> \o stack /\ prepared' = prepared
      BY <2>4 DEF ConstructRejected
    <3>2. Same(stack', stack)
      BY <3>1, SameAll, SamePush, FramesNeutral DEF TypeOK
    <3>3. \A o : ~Has(stack', Owned(o))
      BY <1>0, <2>1, <3>2 DEF Same
    <3> QED
      BY <2>0, <2>3, <3>1, <3>3 DEF Owners
  <2>5. CASE PrepareRejected
    <3>1. UNCHANGED <<prepared, released>>
      BY <2>5 DEF PrepareRejected, fields
    <3>2. \A o : At("reject") \notin Owned(o)
      BY OtherFrames, FrameSets
    <3>3. \A o : ~Has(stack', Owned(o))
      BY <1>0, <2>1, <2>5, <3>2, RejectStack
    <3> QED
      BY <1>1, <1>3, <3>1, <3>3
  <2>6. CASE AfterPrepare
    <3> DEFINE p == IF status = "ok" THEN "end" ELSE "failed"
    <3>1. /\ stack' = <<At("js"), At(p)>> /\ p \in {"end", "errorEnd", "failed"}
          /\ released' = released
      BY <2>6 DEF AfterPrepare
    <3> HIDE DEF p
    <3>2. \A o : Has(stack', Owned(o)) <=> At(p) \in Owned(o)
      BY <1>0, <3>1, EnterStack
    <3>3. \A o : At(p) \notin Owned(o)
      BY <3>1, OtherFrames, FrameSets
    <3>4. ~FinalizeSaid'
      BY <2>0, <2>3 DEF Owners
    <3> QED
      BY <2>0, <3>1, <3>2, <3>3, <3>4 DEF Owners
  <2> QED
    BY <1>3, <2>2, <2>4, <2>5, <2>6 DEF Preparing, Prepare
<1>4. CASE (\E o \in Ops : Starting(o)) /\ ~FinalizeRelease
  <2>1. PICK o \in Ops : Starting(o)
    BY <1>4
  <2>2. PICK r : Same(r, stack) /\ Run(o, r)
    BY <2>1 DEF Starting
  <2>3. prepared /\ UNCHANGED <<prepared, released>>
    BY <2>1 DEF Starting
  <2>4. CASE KindOf[o] # "finalize"
    <3>1. stack' = r
      BY <2>2, <2>4 DEF Run
    <3>2. \A d : Has(stack', Owned(d)) => Has(stack, Owned(d))
      BY <1>0, <2>2, <3>1 DEF Same
    <3> QED
      BY <1>1, <1>4, <2>3, <3>2
  <2>5. CASE KindOf[o] = "finalize"
    <3>1. \A d : Has(stack', Owned(d)) <=> Release(o) \in Owned(d) \/ Has(stack, Owned(d))
      BY <1>0, <2>2, <2>5, RunStack
    <3>2. \A d : Release(o) \in Owned(d) => d = o
      BY OtherFrames, FrameSets
    <3>3. FinalizeSaid' <=> FinalizeSaid
      BY <1>4, SaidOtherwise
    <3> QED
      BY <2>3, <2>5, <3>1, <3>2, <3>3, OpsAssumption DEF Owners
  <2> QED
    BY <2>4, <2>5
<1>5. CASE FinalizeFailed /\ ~FinalizeRelease
  <2> DEFINE h == Head(stack)
             t == Tail(stack)
             e == At("errorEnd")
  <2>1. /\ stack # <<>> /\ h \in Failing /\ stack \in Seq(Frame)
        /\ \A P : P \cap Neutral = {} =>
             (Has(stack', P) <=> Release(NoOp) \in P \/ (h \in Enders /\ e \in P) \/ Has(t, P))
    BY <1>5, FailStack DEF TypeOK
  <2>2. \A P : Has(stack, P) <=> h \in P \/ Has(t, P)
    BY <2>1, PopFrame
  <2>3. \A d : (Release(NoOp) \in Owned(d) => d = NoOp) /\ e \notin Owned(d)
    BY OtherFrames, FrameSets
  <2> HIDE DEF h, t, e
  <2>4. ~prepared
    BY <2>1, <2>2 DEF Finalizing
  <2>5. \A d : d # NoOp => (Has(stack', Owned(d)) => Has(stack, Owned(d)))
    BY <1>0, <2>1, <2>2, <2>3
  <2>6. UNCHANGED <<prepared, released>>
    BY <1>5 DEF FinalizeFailed
  <2>7. FinalizeSaid' <=> FinalizeSaid
    BY <1>5, SaidOtherwise
  <2> QED
    BY <2>4, <2>5, <2>6, <2>7, OpsAssumption DEF Owners
<1>6. CASE FinalizeRelease
  <2> DEFINE h == Head(stack)
             k == h.op
  <2>1. /\ stack # <<>> /\ h \in Frame /\ h.pc = "release" /\ h \in Releasers
        /\ \A P : P \cap Neutral = {} => (Has(stack, P) <=> h \in P \/ Has(stack', P))
    BY <1>6, PopStack
  <2>2. /\ released' = released + 1 /\ prepared' = prepared
        /\ \/ k = NoOp /\ answers' = answers
           \/ k # NoOp /\ Tell(k, "ok", 0)
    BY <1>6 DEF FinalizeRelease, fields
  <2>3. k \in Ops \cup {NoOp}
    BY <2>1 DEF Frame
  <2> HIDE DEF h, k
  <2>4. /\ \A o : Has(stack', Owned(o)) => Has(stack, Owned(o))
        /\ Has(stack, Owned(k)) /\ Has(stack, Releasers)
    BY <1>0, <2>1, FrameSets, FramesApart DEF k
  <2>5. released = 0 /\ released' = 1
    <3>1. released = 0
      BY <2>4 DEF Finalizing
    <3> QED
      BY <2>2, <3>1
  <2>6. ~FinalizeSaid
    BY <2>5 DEF Owners
  <2>7. CASE k = NoOp
    <3>1. ~prepared /\ ~FinalizeSaid'
      BY <2>2, <2>4, <2>6, <2>7, OpsAssumption DEF Owners, FinalizeSaid
    <3> QED
      BY <2>2, <2>4, <3>1 DEF Owners
  <2>8. CASE k # NoOp
    <3> DEFINE x == [op |-> k, says |-> "ok", row |-> 0]
    <3>1. k \in Ops /\ prepared /\ KindOf[k] = "finalize"
      BY <2>3, <2>4, <2>8 DEF Owners
    <3>2. ~raised /\ 0 \in 0..MaxRows
      BY OpBoundAssumption DEF Shelter
    <3>3. answers' = Append(answers, x)
      BY <2>2, <2>8, <3>2 DEF Tell
    <3>4. x \in Answer /\ x.op = k /\ x.says = "ok"
      BY <3>1, <3>2 DEF Answer, Says
    <3> HIDE DEF x
    <3>5. FinalizeSaid'
      BY <3>1, <3>3, <3>4, SaidAppend
    <3>6. released' > 0
      BY <2>5
    <3> QED
      BY <2>2, <2>4, <3>1, <3>5, <3>6 DEF Owners
  <2> QED
    BY <2>7, <2>8
<1>7. CASE End /\ ~FinalizeRelease
  <2>1. \A o : Has(stack', Owned(o)) => Has(stack, Owned(o))
    BY <1>0, <1>7, PopStack
  <2> QED
    BY <1>1, <1>7, <2>1 DEF End
<1>8. CASE (\E o \in Ops : Work(o)) /\ ~FinalizeRelease
  <2>1. UNCHANGED <<prepared, released, stack>>
    BY <1>8 DEF Work, WorkBind, WorkStep, WorkAll, WorkReset, WorkSkip, WorkRefused, WorkGone,
       Working, fields
  <2> QED
    BY <1>1, <1>8, <2>1
<1>9. CASE (\E o \in Ops : After(o)) /\ ~FinalizeRelease
  <2>1. PICK o \in Ops : After(o)
    BY <1>9
  <2>2. UNCHANGED <<prepared, released>>
    BY <2>1 DEF After, AfterError, AfterOk, Ended, fields
  <2>3. \E p \in {"end", "errorEnd"} :
          \/ stack' = <<At("js"), At(p)>> \/ stack' = Call(o) \o <<At(p)>>
          \/ stack' = <<>> \o <<At(p)>>
    BY <2>1 DEF After, AfterError, AfterOk
  <2>4. PICK p \in {"end", "errorEnd"} :
          \A P : P \cap Neutral = {} => (Has(stack', P) <=> At(p) \in P)
    BY <2>3, EnterStack
  <2>5. \A d : At(p) \notin Owned(d)
    BY OtherFrames, FrameSets
  <2>6. \A d : ~Has(stack', Owned(d))
    BY <1>0, <2>4, <2>5
  <2> QED
    BY <1>1, <1>9, <2>2, <2>6
<1> QED
  BY <1>0, <1>2, <1>3, <1>4, <1>5, <1>6, <1>7, <1>8, <1>9, StepParts

-----------------------------------------------------------------------------
\* CleanQueue and what it shelters.

\* What is on top of a stack decides with what is below it.
LEMMA PopShelter ==
  ASSUME NEW s \in Seq(Frame), s # <<>>
  PROVE  LET p == Head(s).pc
             t == Tail(s)
         IN  /\ Head(s) \in Frame /\ t \in Seq(Frame)
             /\ Has(s, Dead) <=> p = "dead" \/ Has(t, Dead)
             /\ Has(s, Cleaners) <=> p \in {"clean", "cleaning"} \/ Has(t, Cleaners)
             /\ Has(s, Looping) <=> p = "cleaning" \/ Has(t, Looping)
             /\ Shielded(s) <=> \/ p \in {"clean", "cleaning"}
                                \/ p \notin {"loop", "release"} /\ Shielded(t)
<1> DEFINE h == Head(s)
           t == Tail(s)
<1>1. /\ h \in Frame /\ t \in Seq(Frame)
      /\ \A P : Has(s, P) <=> h \in P \/ Has(t, P)
  BY PopFrame
<1>2. /\ h \in Dead <=> h.pc = "dead"
      /\ h \in Cleaners <=> h.pc \in {"clean", "cleaning"}
      /\ h \in Looping <=> h.pc = "cleaning"
      /\ h \in Sheltered <=> h.pc \in {"loop", "release"}
  BY <1>1, FrameSets
<1>3. /\ Len(t) = Len(s) - 1 /\ Len(s) \in Nat /\ Len(s) > 0 /\ s[1] = h
      /\ \A i \in 1..Len(t) : t[i] = s[i + 1]
  BY HeadTailProperties, LenProperties, EmptySeq
<1> HIDE DEF h, t
<1>4. /\ 1 \in 1..Len(s) /\ 1..1-1 = {} /\ Len(t) \in Nat
      /\ \A i \in 1..Len(s) : i # 1 => 1 \in 1..i-1 /\ i-1 \in 1..Len(t) /\ s[i] = t[i-1]
      /\ \A i \in 1..Len(t) : i+1 \in 1..Len(s) /\ t[i] = s[i+1]
  <2>1. 1 \in 1..Len(s) /\ 1..1-1 = {} /\ Len(t) \in Nat
    BY <1>3
  <2>2. \A i \in 1..Len(s) : i # 1 => 1 \in 1..i-1 /\ i-1 \in 1..Len(t) /\ (i-1)+1 = i
    BY <1>3
  <2>3. \A i \in 1..Len(t) : i+1 \in 1..Len(s)
    BY <1>3
  <2> QED
    BY <1>3, <2>1, <2>2, <2>3
<1>5. h \in Cleaners => Shielded(s)
  <2> SUFFICES ASSUME h \in Cleaners, NEW i \in 1..Len(s), s[i] \in Sheltered
               PROVE  \E j \in 1..i-1 : s[j] \in Cleaners
    BY DEF Shielded
  <2>1. i # 1
    BY <1>2, <1>3
  <2> QED
    BY <1>3, <1>4, <2>1
<1>6. Shielded(s) => h \notin Sheltered
  BY <1>3, <1>4 DEF Shielded
<1>7. ASSUME h \notin Cleaners, h \notin Sheltered
      PROVE  Shielded(s) <=> Shielded(t)
  <2>1. ASSUME Shielded(s), NEW i \in 1..Len(t), t[i] \in Sheltered
        PROVE  \E j \in 1..i-1 : t[j] \in Cleaners
    <3>1. i+1 \in 1..Len(s) /\ s[i+1] \in Sheltered
      BY <1>4, <2>1
    <3>2. PICK j \in 1..(i+1)-1 : s[j] \in Cleaners
      BY <2>1, <3>1 DEF Shielded
    <3>3. j # 1
      BY <1>3, <1>7, <3>2
    <3>4. j \in 1..Len(s) /\ j-1 \in 1..i-1
      BY <1>3, <2>1, <3>2, <3>3
    <3>5. t[j-1] \in Cleaners
      BY <1>4, <3>2, <3>3, <3>4
    <3> QED
      BY <3>4, <3>5
  <2>2. ASSUME Shielded(t), NEW i \in 1..Len(s), s[i] \in Sheltered
        PROVE  \E j \in 1..i-1 : s[j] \in Cleaners
    <3>1. i # 1
      BY <1>3, <1>7, <2>2
    <3>2. i-1 \in 1..Len(t) /\ t[i-1] \in Sheltered
      BY <1>4, <2>2, <3>1
    <3>3. PICK j \in 1..(i-1)-1 : t[j] \in Cleaners
      BY <2>2, <3>2 DEF Shielded
    <3>4. j \in 1..Len(t) /\ j+1 \in 1..i-1
      BY <1>4, <2>2, <3>2, <3>3
    <3>5. s[j+1] \in Cleaners
      BY <1>4, <3>3, <3>4
    <3> QED
      BY <3>4, <3>5
  <2> QED
    BY <2>1, <2>2 DEF Shielded
<1> QED
  BY <1>1, <1>2, <1>5, <1>6, <1>7 DEF h, t

\* A frame is pushed.
LEMMA PushShelter ==
  ASSUME NEW r \in Seq(Frame), NEW f \in Frame
  PROVE  LET s == <<f>> \o r
         IN  /\ s \in Seq(Frame) /\ s # <<>> /\ Head(s) = f
             /\ Has(s, Dead) <=> f.pc = "dead" \/ Has(r, Dead)
             /\ Has(s, Cleaners) <=> f.pc \in {"clean", "cleaning"} \/ Has(r, Cleaners)
             /\ Has(s, Looping) <=> f.pc = "cleaning" \/ Has(r, Looping)
             /\ Shielded(s) <=> \/ f.pc \in {"clean", "cleaning"}
                                \/ f.pc \notin {"loop", "release"} /\ Shielded(r)
<1> DEFINE s == <<f>> \o r
<1>1. s \in Seq(Frame) /\ s # <<>> /\ Head(s) = f /\ Tail(s) = r
  BY PushFrame
<1> HIDE DEF s
<1>2. /\ Has(s, Dead) <=> f.pc = "dead" \/ Has(r, Dead)
      /\ Has(s, Cleaners) <=> f.pc \in {"clean", "cleaning"} \/ Has(r, Cleaners)
      /\ Has(s, Looping) <=> f.pc = "cleaning" \/ Has(r, Looping)
      /\ Shielded(s) <=> \/ f.pc \in {"clean", "cleaning"}
                         \/ f.pc \notin {"loop", "release"} /\ Shielded(r)
  BY <1>1, PopShelter
<1> QED
  BY <1>1, <1>2 DEF s

LEMMA EmptyShelter ==
  /\ <<>> \in Seq(Frame) /\ Shielded(<<>>)
  /\ ~Has(<<>>, Dead) /\ ~Has(<<>>, Cleaners) /\ ~Has(<<>>, Looping)
  BY DEF Shielded, Has

\* A stack on which nothing is dead, nothing cleans and nothing is sheltered
\* that the one below it does not have.
Calmer(s2, s) ==
  /\ s2 \in Seq(Frame)
  /\ Has(s2, Dead) => Has(s, Dead)
  /\ Has(s2, Cleaners) => Has(s, Cleaners)
  /\ Has(s2, Looping) => Has(s, Looping)
  /\ Shielded(s) => Shielded(s2)

Plainer == {"js", "end", "errorEnd", "failed", "reject", "process"}

LEMMA CalmerPush ==
  ASSUME NEW s, NEW r, Calmer(r, s), NEW p \in Plainer
  PROVE  Calmer(<<At(p)>> \o r, s)
<1> DEFINE f == At(p)
           c == <<f>> \o r
<1>1. f \in Frame /\ f.pc = p /\ r \in Seq(Frame)
  BY DEF Frame, PCs, At, Plainer, Calmer
<1> HIDE DEF f
<1>2. /\ c \in Seq(Frame)
      /\ Has(c, Dead) <=> f.pc = "dead" \/ Has(r, Dead)
      /\ Has(c, Cleaners) <=> f.pc \in {"clean", "cleaning"} \/ Has(r, Cleaners)
      /\ Has(c, Looping) <=> f.pc = "cleaning" \/ Has(r, Looping)
      /\ Shielded(c) <=> \/ f.pc \in {"clean", "cleaning"}
                         \/ f.pc \notin {"loop", "release"} /\ Shielded(r)
  BY <1>1, PushShelter
<1> HIDE DEF c
<1>3. Calmer(c, s)
  BY <1>1, <1>2 DEF Calmer, Plainer
<1> QED
  BY <1>3 DEF c, f

LEMMA CalmerCall ==
  ASSUME NEW s, NEW r, Calmer(r, s), NEW o, Callback = At("js")
  PROVE  Calmer(Call(o) \o r, s)
<1>1. r \in Seq(Frame) /\ "js" \in Plainer
  BY DEF Calmer, Plainer
<1>2. CASE o \in Silent
  <2>1. Call(o) \o r = r
    BY <1>1, <1>2 DEF Call
  <2> QED
    BY <2>1
<1>3. CASE o \notin Silent
  <2>1. Call(o) = <<At("js")>>
    BY <1>3 DEF Call
  <2>2. Calmer(<<At("js")>> \o r, s)
    BY <1>1, CalmerPush
  <2> QED
    BY <2>1, <2>2
<1> QED
  BY <1>2, <1>3

\* The frame on top is taken off, and it cleans nothing.
LEMMA CalmerPop ==
  ASSUME NEW s \in Seq(Frame), s # <<>>, Head(s).pc \notin {"clean", "cleaning"}
  PROVE  Calmer(Tail(s), s)
  BY PopShelter DEF Calmer

\* CleanQueue is on top.
LEMMA ShieldClean ==
  ASSUME NEW r \in Seq(Frame), NEW p \in {"clean", "cleaning"}, NEW f \in Frame, f.pc = p
  PROVE  LET s == <<f>> \o r
         IN  /\ s \in Seq(Frame) /\ Shielded(s)
             /\ Has(s, Dead) => Has(r, Dead)
             /\ Has(s, Looping) => p = "cleaning" \/ Has(r, Looping)
<1> DEFINE s == <<f>> \o r
<1>1. /\ s \in Seq(Frame)
      /\ Has(s, Dead) <=> f.pc = "dead" \/ Has(r, Dead)
      /\ Has(s, Looping) <=> f.pc = "cleaning" \/ Has(r, Looping)
      /\ Shielded(s) <=> \/ f.pc \in {"clean", "cleaning"}
                         \/ f.pc \notin {"loop", "release"} /\ Shielded(r)
  BY PushShelter
<1> HIDE DEF s
<1>2. s \in Seq(Frame) /\ Shielded(s) /\ (Has(s, Dead) => Has(r, Dead))
      /\ (Has(s, Looping) => p = "cleaning" \/ Has(r, Looping))
  BY <1>1
<1> QED
  BY <1>2 DEF s

\* The steps of JavaScript, Process and CleanQueue.
LEMMA ShelterMild ==
  ASSUME TypeOK, Locks, Finalizing, Shelter, ~MayThrow, Step, Mild
  PROVE  Shelter'
<1>0. /\ ~raised /\ ~raised' /\ Callback = At("js") /\ ~Has(stack, Dead)
      /\ stack \in Seq(Frame) /\ Calmer(stack, stack) /\ "js" \in Plainer
  BY NoUnwinding DEF Shelter, TypeOK, Calmer, Plainer
<1>1. UNCHANGED <<prepared, locked, finalized>>
  BY MildFrame DEF fields
<1>2. /\ finalized /\ queue # <<>> => Shielded(stack)
      /\ prepared /\ ~locked /\ ~finalized /\ queue # <<>> => InPc("process") \/ InPc("loop")
      /\ Has(stack, Cleaners) => finalized
      /\ Has(stack, Looping) => prepared
  BY DEF Shelter
<1>3. ASSUME Calmer(stack', stack), finalized /\ queue' # <<>> => queue # <<>>,
             prepared /\ ~locked /\ ~finalized => queue' = <<>>
      PROVE  Shelter'
  BY <1>0, <1>1, <1>2, <1>3 DEF Shelter, Calmer
\* CleanQueue takes over.
<1>4. ASSUME finalized, NEW r \in Seq(Frame), ~Has(r, Dead), Has(r, Looping) => prepared,
             NEW f \in Frame, f.pc \in {"clean", "cleaning"}, f.pc = "cleaning" => prepared,
             stack' = <<f>> \o r
      PROVE  Shelter'
  <2> DEFINE c == <<f>> \o r
             p == f.pc
  <2>1. /\ c \in Seq(Frame) /\ Shielded(c) /\ (Has(c, Dead) => Has(r, Dead))
        /\ Has(c, Looping) => p = "cleaning" \/ Has(r, Looping)
    BY <1>4, ShieldClean
  <2>2. stack' = c
    BY <1>4
  <2> HIDE DEF c
  <2>3. ~Has(stack', Dead) /\ Shielded(stack') /\ (Has(stack', Looping) => prepared)
    BY <1>4, <2>1, <2>2
  <2> QED
    BY <1>0, <1>1, <1>4, <2>3 DEF Shelter
<1>5. At("clean") \in Frame /\ At("clean").pc = "clean"
      /\ \A b \in BOOLEAN : Cleaning(b) \in Frame /\ Cleaning(b).pc = "cleaning"
  BY DEF At, Cleaning, Frame, PCs
<1>6. CASE \E o \in Ops : ScheduleRefuse(o)
  <2>1. finalized /\ stack' = <<At("clean")>> \o stack
    BY <1>6 DEF ScheduleRefuse
  <2> QED
    BY <1>0, <1>2, <1>4, <1>5, <2>1
<1>7. CASE \E o \in Ops : ScheduleQueue(o)
  <2>1. ~finalized /\ (~prepared \/ locked) /\ stack' = stack
    BY <1>7 DEF ScheduleQueue
  <2> QED
    BY <1>0, <1>1, <1>2, <2>1 DEF Shelter
<1>8. CASE ProcessClean
  <2>1. finalized /\ stack # <<>> /\ stack' = <<At("clean")>> \o Tail(stack)
    BY <1>8 DEF ProcessClean, InPc
  <2>2. Tail(stack) \in Seq(Frame) /\ ~Has(Tail(stack), Dead)
        /\ (Has(Tail(stack), Looping) => prepared)
    BY <1>0, <1>2, <2>1, PopShelter
  <2> QED
    BY <1>4, <1>5, <2>1, <2>2
<1>9. CASE ProcessReturn
  <2>1. /\ stack # <<>> /\ stack' = Tail(stack) /\ queue' = queue
        /\ ~(prepared /\ ~locked /\ queue # <<>>)
        /\ Head(stack).pc \in {"process", "loop"}
    BY <1>9 DEF ProcessReturn, InLoop, InPc
  <2>2. Calmer(stack', stack)
    BY <1>0, <2>1, CalmerPop
  <2> QED
    BY <1>3, <2>1, <2>2
<1>10. CASE CleanEnter
  <2>1. stack # <<>> /\ Head(stack).pc = "clean"
    BY <1>10 DEF CleanEnter, InPc
  <2>2. /\ Tail(stack) \in Seq(Frame) /\ ~Has(Tail(stack), Dead) /\ finalized
        /\ Has(Tail(stack), Looping) => prepared
        /\ Has(Tail(stack), Cleaners) => finalized
    BY <1>0, <1>2, <2>1, PopShelter
  <2>3. CASE prepared /\ stack' = <<Cleaning(FALSE)>> \o Tail(stack)
    BY <1>4, <1>5, <2>2, <2>3
  <2>4. CASE queue' = <<>> /\ stack' = Tail(stack)
    BY <1>0, <1>1, <2>2, <2>4 DEF Shelter
  <2> QED
    BY <1>10, <2>3, <2>4 DEF CleanEnter
<1>11. CASE CleanCall
  <2> DEFINE o == Head(queue)
             f == Cleaning(Head(stack).called \/ o \notin Silent)
             t == Tail(stack)
             c == <<f>> \o t
  <2>1. stack # <<>> /\ Head(stack).pc = "cleaning" /\ stack' = Call(o) \o <<f>> \o t
    BY <1>11 DEF CleanCall, InPc
  <2>2. /\ t \in Seq(Frame) /\ ~Has(t, Dead) /\ finalized /\ prepared
    BY <1>0, <1>2, <2>1, PopShelter
  <2>3. f \in Frame /\ f.pc = "cleaning" /\ At("js") \in Frame
    BY <1>5 DEF At, Frame, PCs
  <2> HIDE DEF o, f, t
  <2>4. c \in Seq(Frame) /\ Shielded(c) /\ ~Has(c, Dead)
    BY <2>2, <2>3, ShieldClean
  <2>5. stack' = Call(o) \o c
    <3>1. <<f>> \in Seq(Frame) /\ Call(o) \in Seq(Frame)
      BY <1>0, <2>3 DEF Call
    <3> QED
      BY <2>1, <2>2, <3>1, ConcatAssociative
  <2> HIDE DEF c
  <2>6. Calmer(stack', c)
    <3>1. Calmer(c, c)
      BY <2>4 DEF Calmer
    <3> QED
      BY <1>0, <2>5, <3>1, CalmerCall
  <2> QED
    BY <1>0, <1>1, <2>2, <2>4, <2>6 DEF Shelter, Calmer
<1>12. CASE CleanReturn
  <2>1. /\ stack # <<>> /\ Head(stack).pc = "cleaning" /\ queue' = <<>>
        /\ stack' = (IF Head(stack).called THEN <<>> ELSE <<Callback>>) \o Tail(stack)
    BY <1>12 DEF CleanReturn, InPc
  <2> DEFINE t == Tail(stack)
  <2>2. /\ t \in Seq(Frame) /\ ~Has(t, Dead) /\ finalized /\ prepared
    BY <1>0, <1>2, <2>1, PopShelter
  <2>3. stack' = t \/ stack' = <<At("js")>> \o t
    BY <1>0, <2>1, <2>2
  <2> HIDE DEF t
  <2>4. Calmer(stack', t)
    <3>1. Calmer(t, t)
      BY <2>2 DEF Calmer
    <3> QED
      BY <1>0, <2>3, <3>1, CalmerPush
  <2> QED
    BY <1>0, <1>1, <2>1, <2>2, <2>4 DEF Shelter, Calmer
<1>13. CASE NewTurn
  <2> DEFINE e == <<>>
             f == At("js")
  <2>1. stack = e /\ stack' = <<f>> /\ queue' = queue /\ ~InPc("process") /\ ~InPc("loop")
    BY <1>13 DEF NewTurn, InPc
  <2>2. f \in Frame
    BY DEF At, Frame, PCs
  <2> HIDE DEF f
  <2>3. <<f>> = <<f>> \o e
    BY <2>2, FewFrames
  <2> HIDE DEF e
  <2>4. Calmer(stack', stack)
    <3>1. Calmer(<<At("js")>> \o stack, stack)
      BY <1>0, CalmerPush
    <3> QED
      BY <2>1, <2>3, <3>1 DEF f
  <2> QED
    BY <1>2, <1>3, <2>1, <2>4
<1>14. CASE JsReturn
  <2>1. /\ stack # <<>> /\ Head(stack).pc = "js" /\ stack' = Tail(stack) /\ queue' = queue
        /\ ~InPc("process") /\ ~InPc("loop")
    BY <1>14 DEF JsReturn, Js, InPc
  <2>2. Calmer(stack', stack)
    BY <1>0, <2>1, CalmerPop
  <2> QED
    BY <1>2, <1>3, <2>1, <2>2
<1>15. CASE JsCatch
  BY <1>0, <1>15 DEF JsCatch
<1> QED
  BY <1>6, <1>7, <1>8, <1>9, <1>10, <1>11, <1>12, <1>13, <1>14, <1>15 DEF Mild

\* The steps of the database, before which nothing is queued or sheltered.
LEMMA ShelterPreparing ==
  ASSUME TypeOK, Locks, Finalizing, Shelter, ~MayThrow, Step, Preparing
  PROVE  Shelter'
<1>0. /\ ~raised /\ ~raised' /\ Callback = At("js") /\ ~Has(stack, Dead)
      /\ stack \in Seq(Frame) /\ Calmer(stack, stack)
      /\ "js" \in Plainer /\ "reject" \in Plainer
  BY NoUnwinding DEF Shelter, TypeOK, Calmer, Plainer
<1>1. /\ locked /\ ~prepared /\ ~finalized /\ ~Has(stack, Cleaners) /\ ~Has(stack, Looping)
      /\ locked' = locked /\ queue' = queue
  BY DEF Preparing, Construct, ConstructRejected, Prepare, PrepareBegin, PrepareRejected,
     WorkPrepare, AfterPrepare, Locks, Shelter, fields
<1>2. ASSUME Calmer(stack', stack), finalized' = finalized \/ queue = <<>>
      PROVE  Shelter'
  BY <1>0, <1>1, <1>2 DEF Shelter, Calmer
<1>3. CASE Construct \/ PrepareBegin \/ WorkPrepare
  BY <1>0, <1>2, <1>3 DEF Construct, PrepareBegin, WorkPrepare, fields
<1>4. CASE ConstructRejected
  <2>1. stack' = <<At("js")>> \o stack /\ queue = <<>>
    BY <1>0, <1>4 DEF ConstructRejected, Locks
  <2> QED
    BY <1>0, <1>2, <2>1, CalmerPush
<1>5. CASE PrepareRejected
  <2>1. stack' = <<At("js"), At("reject")>> \o stack /\ finalized' = finalized
    BY <1>0, <1>5 DEF PrepareRejected, fields
  <2> DEFINE f == At("js")
             g == At("reject")
  <2>2. f \in Frame /\ g \in Frame
    BY DEF At, Frame, PCs
  <2>3. Calmer(<<f>> \o (<<g>> \o stack), stack)
    BY <1>0, CalmerPush
  <2>4. stack' = <<f, g>> \o stack
    BY <2>1
  <2> HIDE DEF f, g
  <2>5. stack' = <<f>> \o (<<g>> \o stack)
    BY <1>0, <2>2, <2>4, PushTwo
  <2> QED
    BY <1>2, <2>1, <2>3, <2>5
<1>6. CASE AfterPrepare
  <2> DEFINE p == IF status = "ok" THEN "end" ELSE "failed"
             f == At("js")
             g == At(p)
             e == <<>>
  <2>1. stack = e /\ stack' = <<f, g>> /\ p \in Plainer /\ finalized' = finalized
    BY <1>6 DEF AfterPrepare, EventLoop, Plainer
  <2>2. f \in Frame /\ g \in Frame
    BY <2>1 DEF At, Frame, PCs, Plainer
  <2> HIDE DEF p
  <2>3. Calmer(<<f>> \o (<<g>> \o stack), stack)
    BY <1>0, <2>1, CalmerPush
  <2> HIDE DEF f, g
  <2>4. stack' = <<f>> \o (<<g>> \o e)
    BY <2>1, <2>2, FewFrames
  <2> QED
    BY <1>2, <2>1, <2>3, <2>4
<1> QED
  BY <1>3, <1>4, <1>5, <1>6 DEF Preparing, Prepare

\* An operation starts.
LEMMA ShelterStarting ==
  ASSUME TypeOK, Locks, Finalizing, Shelter, ~MayThrow, Step,
         ProcessRun \/ \E o \in Ops : ScheduleRun(o)
  PROVE  Shelter'
<1>0. /\ ~raised /\ ~raised' /\ ~Has(stack, Dead) /\ stack \in Seq(Frame)
      /\ Has(stack, Cleaners) => finalized
  BY NoUnwinding DEF Shelter, TypeOK
<1>1. \E o \in Ops, r \in Seq(Frame) :
        /\ Run(o, r) /\ ~finalized /\ prepared /\ prepared' = prepared
        /\ ~Has(r, Dead) /\ ~Has(r, Cleaners)
        /\ KindOf[o] = "finalize" => queue' = <<>> \/ Head(stack).pc # "js"
  <2>1. ASSUME NEW o \in Ops, ScheduleRun(o)
        PROVE  Run(o, stack) /\ ~finalized /\ prepared /\ prepared' = prepared
    BY <2>1 DEF ScheduleRun, Enter
  <2>2. ASSUME ProcessRun
        PROVE  LET r == <<At("loop")>> \o Tail(stack)
               IN  /\ Run(Head(queue), r) /\ prepared /\ prepared' = prepared
                   /\ Head(queue) \in Ops /\ r \in Seq(Frame)
                   /\ ~Has(r, Dead) /\ (Has(r, Cleaners) => Has(stack, Cleaners))
                   /\ Head(stack).pc # "js"
    <3> DEFINE f == At("loop")
               t == Tail(stack)
               r == <<f>> \o t
    <3>1. /\ stack # <<>> /\ Run(Head(queue), r) /\ prepared /\ prepared' = prepared
          /\ Head(queue) \in Ops /\ Head(stack).pc # "js"
      BY <2>2 DEF ProcessRun, InLoop, InPc, TypeOK
    <3>2. /\ t \in Seq(Frame) /\ ~Has(t, Dead) /\ (Has(t, Cleaners) => Has(stack, Cleaners))
      BY <1>0, <3>1, PopShelter
    <3>3. f \in Frame /\ f.pc = "loop"
      BY DEF At, Frame, PCs
    <3> HIDE DEF f, t
    <3>4. /\ r \in Seq(Frame) /\ ~Has(r, Dead) /\ (Has(r, Cleaners) => Has(stack, Cleaners))
      BY <3>2, <3>3, PushShelter
    <3> QED
      BY <3>1, <3>4 DEF f, t
  <2>3. ASSUME NEW o \in Ops, ScheduleRun(o)
        PROVE  queue' = <<>>
    <3>1. ~finalized /\ prepared /\ ~locked /\ queue' = queue /\ ~InPc("process") /\ ~InPc("loop")
      BY <2>3 DEF ScheduleRun, Enter, MayEnter, Js, InPc
    <3> QED
      BY <3>1 DEF Shelter
  <2>4. CASE ProcessRun
    BY <1>0, <2>2, <2>4, RunsBefore
  <2> QED
    BY <1>0, <2>1, <2>3, <2>4
<1>2. PICK o \in Ops, r \in Seq(Frame) :
        /\ Run(o, r) /\ ~finalized /\ prepared /\ prepared' = prepared
        /\ ~Has(r, Dead) /\ ~Has(r, Cleaners)
  BY <1>1
<1>3. ~Has(r, Looping)
  BY <1>2 DEF Has, Looping, Cleaners
<1>4. CASE KindOf[o] # "finalize"
  <2>1. locked' = TRUE /\ stack' = r /\ finalized' = finalized
    BY <1>2, <1>4 DEF Run
  <2> QED
    BY <1>0, <1>2, <1>3, <2>1 DEF Shelter
<1>5. CASE KindOf[o] = "finalize"
  <2> DEFINE f == At("clean")
             g == Release(o)
             c == <<g>> \o r
             s == <<f>> \o c
  <2>1. finalized' = TRUE /\ stack' = <<f, g>> \o r
    BY <1>2, <1>5 DEF Run
  <2>2. f \in Frame /\ g \in Frame /\ f.pc = "clean" /\ g.pc = "release"
    BY DEF At, Release, Frame, PCs
  <2> HIDE DEF f, g
  <2>3. stack' = s
    BY <1>2, <2>1, <2>2, PushTwo
  <2>4. c \in Seq(Frame) /\ ~Has(c, Dead) /\ ~Has(c, Looping)
    BY <1>2, <1>3, <2>2, PushShelter
  <2> HIDE DEF c
  <2>5. Shielded(s) /\ ~Has(s, Dead) /\ ~Has(s, Looping)
    BY <2>2, <2>4, ShieldClean
  <2> HIDE DEF s
  <2> QED
    BY <1>0, <1>2, <2>1, <2>3, <2>5 DEF Shelter
<1> QED
  BY <1>4, <1>5

\* Finalize_ goes on when nothing is queued any more.
LEMMA ReleaseEmpty ==
  ASSUME TypeOK, Finalizing, Shelter, FinalizeRelease
  PROVE  finalized /\ queue = <<>>
<1>1. stack # <<>> /\ Head(stack).pc = "release" /\ stack \in Seq(Frame)
  BY DEF FinalizeRelease, InPc, TypeOK
<1>2. ~Shielded(stack)
  BY <1>1, PopShelter
<1>3. Has(stack, Releasers)
  BY PopStack, FramesApart
<1> QED
  BY <1>2, <1>3 DEF Finalizing, Shelter

\* Finalize_ of a statement that failed, and the ends of the handlers.
LEMMA ShelterEnds ==
  ASSUME TypeOK, Locks, Finalizing, Shelter, ~MayThrow, Step,
         FinalizeFailed \/ FinalizeRelease \/ End
  PROVE  Shelter'
<1>0. /\ ~raised /\ ~raised' /\ Callback = At("js") /\ ~Has(stack, Dead) /\ stack \in Seq(Frame)
      /\ finalized /\ queue # <<>> => Shielded(stack)
      /\ Has(stack, Cleaners) => finalized
      /\ Has(stack, Looping) => prepared
      /\ "errorEnd" \in Plainer /\ "process" \in Plainer /\ "js" \in Plainer
  BY NoUnwinding DEF Shelter, TypeOK, Plainer
<1> DEFINE h == Head(stack)
           t == Tail(stack)
<1>1. /\ stack # <<>> /\ prepared' = prepared /\ queue' = queue
      /\ h.pc \in {"failed", "reject", "release", "end", "errorEnd"}
  BY DEF FinalizeFailed, FinalizeRelease, End, InPc, fields
<1>2. /\ Calmer(t, stack) /\ t \in Seq(Frame)
      /\ ~Has(t, Dead) /\ (Has(t, Cleaners) => finalized) /\ (Has(t, Looping) => prepared)
  BY <1>0, <1>1, PopShelter, CalmerPop DEF Calmer
<1>3. CASE FinalizeFailed
  <2> DEFINE e == At("errorEnd")
             f == At("clean")
             g == Release(NoOp)
             b == IF InPc("failed") THEN <<e>> ELSE <<>>
             r == b \o t
             c == <<g>> \o r
             s == <<f>> \o c
  <2>1. stack' = <<f, g>> \o b \o t /\ finalized' = TRUE
    BY <1>3 DEF FinalizeFailed
  <2>2. f \in Frame /\ g \in Frame /\ f.pc = "clean" /\ g.pc = "release" /\ e \in Frame
    BY DEF At, Release, Frame, PCs
  <2> HIDE DEF t, h
  <2>3. Calmer(r, t)
    <3>1. Calmer(t, t)
      BY <1>2 DEF Calmer
    <3>2. CASE InPc("failed")
      <4>1. r = <<At("errorEnd")>> \o t
        BY <3>2
      <4>2. Calmer(<<At("errorEnd")>> \o t, t)
        BY <1>0, <3>1, CalmerPush
      <4> QED
        BY <4>1, <4>2
    <3>3. CASE ~InPc("failed")
      <4>1. r = t
        BY <1>2, <3>3
      <4> QED
        BY <3>1, <4>1
    <3> QED
      BY <3>2, <3>3
  <2>4. r \in Seq(Frame) /\ ~Has(r, Dead) /\ (Has(r, Looping) => prepared)
    BY <1>2, <2>3 DEF Calmer
  <2>5. b \in Seq(Frame)
    BY <2>2
  <2> HIDE DEF f, g, e, b
  <2>6. stack' = <<f, g>> \o r
    <3>1. <<f, g>> \in Seq(Frame)
      BY <2>2
    <3> QED
      BY <1>2, <2>1, <2>5, <3>1, ConcatAssociative
  <2> HIDE DEF r
  <2>7. stack' = s
    BY <2>2, <2>4, <2>6, PushTwo
  <2>8. c \in Seq(Frame) /\ ~Has(c, Dead) /\ (Has(c, Looping) => prepared)
    BY <2>2, <2>4, PushShelter
  <2> HIDE DEF c
  <2>9. Shielded(s) /\ ~Has(s, Dead) /\ (Has(s, Looping) => prepared)
    BY <2>2, <2>8, ShieldClean
  <2> HIDE DEF s
  <2> QED
    BY <1>0, <1>1, <2>1, <2>7, <2>9 DEF Shelter
<1>4. CASE FinalizeRelease
  <2>1. /\ UNCHANGED <<locked, finalized>>
        /\ stack' = t \/ \E o : stack' = Call(o) \o t
    BY <1>4 DEF FinalizeRelease, InPc, fields
  <2> HIDE DEF h, t
  <2>2. Calmer(stack', t)
    <3>1. Calmer(t, t)
      BY <1>2 DEF Calmer
    <3>2. CASE stack' = t
      BY <3>1, <3>2
    <3>3. CASE \E o : stack' = Call(o) \o t
      <4>1. PICK o : stack' = Call(o) \o t
        BY <3>3
      <4> QED
        BY <1>0, <3>1, <4>1, CalmerCall
    <3> QED
      BY <2>1, <3>2, <3>3
  <2>3. finalized /\ queue = <<>>
    BY <1>4, ReleaseEmpty
  <2> QED
    BY <1>0, <1>1, <1>2, <2>1, <2>2, <2>3 DEF Shelter, Calmer
<1>5. CASE End
  <2>1. stack' = <<At("process")>> \o t /\ finalized' = finalized
    BY <1>5 DEF End
  <2>2. Calmer(stack', stack)
    BY <1>0, <1>2, <2>1, CalmerPush
  <2>3. InPc("process")'
    <3> DEFINE p == At("process")
    <3>1. p \in Frame /\ p.pc = "process"
      BY DEF At, Frame, PCs
    <3> HIDE DEF p
    <3>2. <<p>> \o t # <<>> /\ Head(<<p>> \o t) = p
      BY <1>2, <3>1, PushFrame
    <3>3. stack' # <<>> /\ Head(stack') = p
      BY <2>1, <3>2 DEF p
    <3> QED
      BY <3>1, <3>3 DEF InPc
  <2> QED
    BY <1>0, <1>1, <2>1, <2>2, <2>3 DEF Shelter, Calmer
<1> QED
  BY <1>3, <1>4, <1>5

LEMMA ShelterNext ==
  ASSUME TypeOK, Locks, Finalizing, Shelter, ~MayThrow, Step
  PROVE  Shelter'
<1>0. /\ ~Unwinding /\ ~raised /\ ~raised' /\ Callback = At("js")
      /\ "errorEnd" \in Plainer /\ "end" \in Plainer /\ "js" \in Plainer
  BY NoUnwinding DEF Plainer
<1>1. CASE Mild
  BY <1>1, ShelterMild
<1>2. CASE Preparing
  BY <1>2, ShelterPreparing
<1>3. CASE ProcessRun \/ \E o \in Ops : ScheduleRun(o)
  BY <1>3, ShelterStarting
<1>4. CASE FinalizeFailed \/ FinalizeRelease \/ End
  BY <1>4, ShelterEnds
<1>5. CASE \E o \in Ops : Work(o)
  <2>1. UNCHANGED <<prepared, locked, finalized, queue, stack>>
    BY <1>5 DEF Work, WorkBind, WorkStep, WorkAll, WorkReset, WorkSkip, WorkRefused, WorkGone,
       Working, fields
  <2> QED
    BY <1>0, <2>1 DEF Shelter, InPc
<1>6. CASE \E o \in Ops : After(o)
  <2>1. PICK o \in Ops : After(o)
    BY <1>6
  <2>2. /\ stack = <<>> /\ locked /\ ~finalized
        /\ UNCHANGED <<prepared, locked, finalized, queue>>
    BY <2>1 DEF After, AfterError, AfterOk, Ended, EventLoop, Locks, Finalizing, fields
  <2>3. Calmer(stack', <<>>)
    <3> DEFINE e == <<>>
    <3>0. Calmer(e, e)
      BY EmptyShelter DEF Calmer
    <3>1. \A p \in {"end", "errorEnd"} : Calmer(<<At(p)>>, e) /\ At(p) \in Frame
      <4> SUFFICES ASSUME NEW p \in {"end", "errorEnd"}
                   PROVE  Calmer(<<At(p)>>, e) /\ At(p) \in Frame
        OBVIOUS
      <4> DEFINE f == At(p)
      <4>1. f \in Frame /\ p \in Plainer
        BY <1>0 DEF At, Frame, PCs
      <4>2. Calmer(<<f>> \o e, e)
        BY <3>0, <4>1, CalmerPush
      <4> HIDE DEF f
      <4>3. <<f>> = <<f>> \o e
        BY <4>1, FewFrames
      <4> QED
        BY <4>1, <4>2, <4>3 DEF f
    <3>2. CASE AfterError(o)
      <4> DEFINE g == At("errorEnd")
                 j == At("js")
                 s == <<g>>
      <4>1. stack' = <<j, g>> /\ j \in Frame /\ g \in Frame
        BY <3>2 DEF AfterError, At, Frame, PCs
      <4>2. Calmer(s, e)
        BY <3>1
      <4>3. Calmer(<<j>> \o s, e)
        BY <1>0, <4>2, CalmerPush
      <4> HIDE DEF g, j
      <4>4. <<j, g>> = <<j>> \o s
        BY <4>1
      <4> QED
        BY <4>1, <4>3, <4>4
    <3>3. CASE AfterOk(o)
      <4> DEFINE s == <<At("end")>>
      <4>1. stack' = <<>> \o s \/ stack' = Call(o) \o s
        BY <3>3 DEF AfterOk
      <4>2. Calmer(s, e) /\ s \in Seq(Frame)
        BY <3>1 DEF Calmer
      <4> HIDE DEF s
      <4>3. <<>> \o s = s
        BY <4>2
      <4> QED
        BY <1>0, <4>1, <4>2, <4>3, CalmerCall
    <3> QED
      BY <2>1, <3>2, <3>3 DEF After
  <2> QED
    BY <1>0, <2>2, <2>3, EmptyShelter DEF Shelter, Calmer
<1> QED
  BY <1>0, <1>1, <1>2, <1>3, <1>4, <1>5, <1>6
     DEF Step, Handler, Schedule, Mild, Unwinding, Preparing

LEMMA InitCalm == Init => Handles /\ Finalizing /\ Owners /\ Shelter
<1> SUFFICES ASSUME Init
             PROVE  Handles /\ Finalizing /\ Owners /\ Shelter
  OBVIOUS
<1> DEFINE f == At("js")
           e == <<>>
<1>1. f \in Frame /\ f.pc = "js" /\ stack = <<f>>
  BY DEF At, Frame, PCs, Init
<1> HIDE DEF f
<1>2. <<f>> = <<f>> \o e /\ e \in Seq(Frame) /\ Shielded(e)
      /\ ~Has(e, Dead) /\ ~Has(e, Cleaners) /\ ~Has(e, Looping)
      /\ \A P : ~Has(e, P) /\ Alone(e, P)
  BY <1>1, FewFrames, EmptyShelter, EmptyStack
<1> HIDE DEF e
<1>3. /\ stack = <<f>> \o e
      /\ \A P : Has(<<f>> \o e, P) <=> f \in P \/ Has(e, P)
      /\ \A P : Alone(<<f>> \o e, P) <=> Alone(e, P) /\ ~(f \in P /\ Has(e, P))
  BY <1>1, <1>2, PushFrame
<1>4. /\ ~Has(stack, Failing) /\ ~Has(stack, Releasers) /\ (\A o : ~Has(stack, Owned(o)))
      /\ ~Has(stack, Dead) /\ ~Has(stack, Cleaners) /\ ~Has(stack, Looping)
      /\ Alone(stack, Failing) /\ Alone(stack, Releasers)
  BY <1>1, <1>2, <1>3, FrameSets
<1>5. Handles /\ Shelter
  BY <1>4 DEF Init, Handles, Shelter
<1>6. Finalizing
  BY <1>4 DEF Init, Finalizing
<1>7. Owners
  <2>1. answers = <<>> /\ released = 0
    BY DEF Init
  <2>2. ~FinalizeSaid
    BY <2>1 DEF FinalizeSaid
  <2>3. ~(released > 0)
    BY <2>1
  <2> QED
    BY <1>4, <2>2, <2>3 DEF Owners
<1> QED
  BY <1>5, <1>6, <1>7

LEMMA CalmNext ==
  ASSUME IInv, Locks, Calm, ~MayThrow, [Next]_vars
  PROVE  Calm'
<1>0. TypeOK /\ Handles /\ Finalizing /\ Owners /\ Shelter
  BY DEF IInv, Calm
<1>1. CASE Next
  <2>1. Step
    BY <1>1 DEF Next
  <2>2. Handles' /\ Finalizing' /\ Owners' /\ Shelter'
    BY <1>0, <2>1, HandlesNext, FinalizingNext, OwnersNext, ShelterNext
  <2> QED
    BY <2>2 DEF Calm
<1>2. CASE vars' = vars
  <2>1. UNCHANGED <<prepared, locked, finalized, queue, status, handle, released, preparing,
                    working, stack, raised, answers>>
    BY <1>2 DEF vars, fields, vm, work, history
  <2>2. Handles' /\ Finalizing'
    BY <1>0, <2>1 DEF Handles, Finalizing
  <2>3. Owners'
    BY <1>0, <2>1 DEF Owners, FinalizeSaid
  <2>4. Shelter'
    BY <1>0, <2>1 DEF Shelter, InPc
  <2> QED
    BY <2>2, <2>3, <2>4 DEF Calm
<1> QED
  BY <1>1, <1>2

\* When no callback throws, CleanQueue empties the queue of a statement that
\* was finalized before Finalize_ or Process goes on, and one handler
\* finalizes it.
LEMMA CalmInvariant ==
  ASSUME ~MayThrow
  PROVE  Spec => []Calm
<1>1. Init => Calm
  BY InitCalm DEF Calm
<1>2. IInv /\ Locks /\ Calm /\ [Next]_vars => Calm'
  BY CalmNext
<1> QED
  BY <1>1, <1>2, Invariant, LocksInvariant, PTL DEF Spec

\* The database that a statement refers to is let go of once, when no
\* callback throws: statement.cc:889 asserts it.
THEOREM StatementFinalizedOnce ==
  ASSUME ~MayThrow
  PROVE  Spec => []FinalizedOnce
<1>1. Calm => FinalizedOnce
  BY DEF Calm, Finalizing, FinalizedOnce
<1> QED
  BY <1>1, CalmInvariant, PTL

\* The work that is on the thread pool finds the statement locked, prepared
\* and not finalized, and its sqlite3_stmt alive, when no callback throws.
THEOREM StatementWorkFinds ==
  ASSUME ~MayThrow
  PROVE  Spec => []WorkFindsStatement
<1>1. TypeOK /\ Locks /\ Calm => WorkFindsStatement
  <2> SUFFICES ASSUME TypeOK, Locks, Calm, working \in {"begun", "ran"}
               PROVE  locked /\ prepared /\ ~finalized /\ handle = "live"
    BY DEF WorkFindsStatement
  <2>1. locked /\ prepared /\ ~finalized
    BY DEF Locks, Calm, Finalizing
  <2>2. released = 0
    BY <2>1 DEF Calm, Finalizing, TypeOK
  <2> QED
    BY <2>1, <2>2 DEF Calm, Handles
<1>2. IInv => TypeOK
  BY DEF IInv
<1> QED
  BY <1>1, <1>2, Invariant, LocksInvariant, CalmInvariant, PTL

-----------------------------------------------------------------------------
\* The line of operations that StatementService promises, when no callback
\* throws.

LineOf(s, c, q) ==
  LET R == {i \in 1..Len(s) : s[i].pc = "release" /\ s[i].op # NoOp}
  IN  (IF R = {} THEN <<>> ELSE <<s[CHOOSE i \in R : TRUE].op>>)
      \o (IF c = NoOp THEN <<>> ELSE <<c>>)
      \o q

SaidOf(a) == [i \in 1..Len(a) |-> [op |-> a[i].op, refused |-> a[i].says = "refused"]]

Saying == [op : Ops, refused : BOOLEAN]

LEMMA LineIs ==
  /\ Line = LineOf(stack, current, queue) /\ Line' = LineOf(stack', current', queue')
  /\ Said = SaidOf(answers) /\ Said' = SaidOf(answers')
  BY DEF Line, Releasing, LineOf, Said, SaidOf

\* What stands in the line.
LEMMA LineParts ==
  ASSUME NEW s \in Seq(Frame), NEW c \in Ops \cup {NoOp}, NEW q \in Seq(Ops)
  PROVE  /\ \A o \in Ops : Has(s, Owned(o)) /\ Alone(s, Releasers) /\ c = NoOp =>
              LineOf(s, c, q) = <<o>> \o q
         /\ (\A o \in Ops : ~Has(s, Owned(o))) =>
              LineOf(s, c, q) = IF c = NoOp THEN q ELSE <<c>> \o q
<1> DEFINE R == {i \in 1..Len(s) : s[i].pc = "release" /\ s[i].op # NoOp}
           a == IF R = {} THEN <<>> ELSE <<s[CHOOSE i \in R : TRUE].op>>
           b == IF c = NoOp THEN <<>> ELSE <<c>>
<1>1. LineOf(s, c, q) = (a \o b) \o q
  BY DEF LineOf
<1>2. \A i \in 1..Len(s) : s[i] \in Frame /\ s[i].op \in Ops \cup {NoOp}
  <2>1. \A i \in 1..Len(s) : s[i] \in Frame
    BY ElementOfSeq
  <2> QED
    BY <2>1 DEF Frame
<1>3. <<>> \o q = q /\ <<>> \o <<>> = <<>> /\ (c # NoOp => <<>> \o <<c>> = <<c>>)
  <2>1. c # NoOp => <<c>> \in Seq(Ops)
    OBVIOUS
  <2> QED
    BY <2>1
<1>4. ASSUME NEW o \in Ops, Has(s, Owned(o)), Alone(s, Releasers), c = NoOp
      PROVE  LineOf(s, c, q) = <<o>> \o q
  <2>1. PICK k \in 1..Len(s) : s[k] \in Owned(o)
    BY <1>4 DEF Has
  <2>2. k \in R /\ s[k].op = o
    BY <2>1, OpsAssumption DEF Owned
  <2>3. \A i \in R : i = k
    BY <1>2, <1>4, <2>1, <2>2, FrameSets DEF Alone
  <2>4. (CHOOSE i \in R : TRUE) = k
    BY <2>2, <2>3
  <2>5. a = <<o>>
    BY <2>2, <2>4
  <2>6. b = <<>> /\ <<o>> \o <<>> = <<o>>
    BY <1>4
  <2> QED
    BY <1>1, <2>5, <2>6
<1>5. ASSUME \A o \in Ops : ~Has(s, Owned(o))
      PROVE  LineOf(s, c, q) = IF c = NoOp THEN q ELSE <<c>> \o q
  <2>1. R = {}
    <3> SUFFICES ASSUME NEW i \in R
                 PROVE  FALSE
      OBVIOUS
    <3>1. s[i] \in Owned(s[i].op) /\ s[i].op \in Ops
      BY <1>2 DEF Owned
    <3> QED
      BY <1>5, <3>1 DEF Has
  <2>2. a = <<>>
    BY <2>1
  <2> QED
    BY <1>1, <1>3, <2>2
<1> QED
  BY <1>4, <1>5

\* What was said.
LEMMA SaidParts ==
  ASSUME NEW a \in Seq(Answer)
  PROVE  /\ SaidOf(a) \in Seq(Saying) /\ Len(SaidOf(a)) = Len(a)
         /\ \A i \in 1..Len(a) : /\ SaidOf(a)[i].op = a[i].op
                                 /\ SaidOf(a)[i].refused = (a[i].says = "refused")
         /\ \A x \in Answer : SaidOf(Append(a, x)) =
              Append(SaidOf(a), [op |-> x.op, refused |-> x.says = "refused"])
<1> DEFINE g(y) == [op |-> y.op, refused |-> y.says = "refused"]
<1>0. \A y \in Answer : g(y) \in Saying
  BY DEF Answer, Saying
<1>1. ASSUME NEW b \in Seq(Answer)
      PROVE  /\ SaidOf(b) \in Seq(Saying) /\ Len(SaidOf(b)) = Len(b)
             /\ \A i \in 1..Len(b) : SaidOf(b)[i] = g(b[i])
  <2>1. Len(b) \in Nat /\ \A i \in 1..Len(b) : b[i] \in Answer
    BY LenProperties, ElementOfSeq
  <2>2. SaidOf(b) = [i \in 1..Len(b) |-> g(b[i])]
    BY DEF SaidOf
  <2>3. \A i \in 1..Len(b) : g(b[i]) \in Saying
    BY <1>0, <2>1
  <2> HIDE DEF g
  <2>4. SaidOf(b) \in [1..Len(b) -> Saying]
    BY <2>2, <2>3
  <2>5. SaidOf(b) \in Seq(Saying)
    BY <2>1, <2>4, SeqDef
  <2>6. Len(SaidOf(b)) = Len(b)
    <3> DEFINE n == Len(SaidOf(b))
               m == Len(b)
    <3>1. n \in Nat /\ m \in Nat /\ 1..n = 1..m
      BY <2>1, <2>2, <2>5, LenProperties
    <3> HIDE DEF n, m
    <3>2. n = m
      BY <3>1
    <3> QED
      BY <3>2 DEF n, m
  <2> QED
    BY <2>2, <2>5, <2>6
<1>2. ASSUME NEW x \in Answer
      PROVE  SaidOf(Append(a, x)) = Append(SaidOf(a), g(x))
  <2> DEFINE b == Append(a, x)
             s == SaidOf(a)
             t == SaidOf(b)
             u == Append(s, g(x))
  <2>1. /\ b \in Seq(Answer) /\ Len(b) = Len(a) + 1 /\ Len(a) \in Nat
        /\ \A i \in 1..Len(a) : b[i] = a[i]
        /\ b[Len(a) + 1] = x
    BY AppendProperties, LenProperties
  <2> HIDE DEF b
  <2>2. /\ s \in Seq(Saying) /\ Len(s) = Len(a) /\ \A i \in 1..Len(a) : s[i] = g(a[i])
        /\ t \in Seq(Saying) /\ Len(t) = Len(b) /\ \A i \in 1..Len(b) : t[i] = g(b[i])
    BY <1>1, <2>1
  <2> HIDE DEF s, t
  <2>3. g(x) \in Saying
    BY <1>0
  <2> HIDE DEF g
  <2>4. /\ u \in Seq(Saying) /\ Len(u) = Len(s) + 1
        /\ \A i \in 1..Len(s) : u[i] = s[i]
        /\ u[Len(s) + 1] = g(x)
    BY <2>2, <2>3, AppendProperties
  <2> HIDE DEF u
  <2>5. \A i \in 1..Len(b) : i \in 1..Len(a) \/ i = Len(a) + 1
    BY <2>1
  <2>6. ASSUME NEW i \in 1..Len(b)
        PROVE  t[i] = u[i]
    <3>1. CASE i \in 1..Len(a)
      BY <2>1, <2>2, <2>4, <2>6, <3>1
    <3>2. CASE i = Len(a) + 1
      <4>1. t[i] = g(b[i]) /\ b[i] = x
        BY <2>1, <2>2, <2>6, <3>2
      <4>2. u[i] = g(x)
        BY <2>2, <2>4, <3>2
      <4> QED
        BY <4>1, <4>2
    <3> QED
      BY <2>5, <2>6, <3>1, <3>2
  <2>7. Len(t) = Len(u)
    BY <2>1, <2>2, <2>4
  <2>8. t = u
    BY <2>2, <2>4, <2>6, <2>7, SeqEqual
  <2> QED
    BY <2>8 DEF t, u, s, b
<1>3. \A y : g(y).op = y.op /\ g(y).refused = (y.says = "refused")
  OBVIOUS
<1>4. \A i \in 1..Len(a) : SaidOf(a)[i] = g(a[i])
  BY <1>1
<1>5. \A i \in 1..Len(a) : /\ SaidOf(a)[i].op = a[i].op
                           /\ SaidOf(a)[i].refused = (a[i].says = "refused")
  <2> HIDE DEF g
  <2> QED
    BY <1>3, <1>4
<1>6. \A x \in Answer : SaidOf(Append(a, x)) =
        Append(SaidOf(a), [op |-> x.op, refused |-> x.says = "refused"])
  BY <1>2
<1>7. SaidOf(a) \in Seq(Saying) /\ Len(SaidOf(a)) = Len(a)
  BY <1>1
<1> QED
  BY <1>5, <1>6, <1>7

\* The line is closed when a finalize was answered.
LEMMA ClosedIs ==
  ASSUME TypeOK
  PROVE  Service!Closed <=> FinalizeSaid
<1>1. /\ answers \in Seq(Answer) /\ Len(Said) = Len(answers)
      /\ \A i \in 1..Len(answers) : /\ Said[i].op = answers[i].op
                                    /\ Said[i].refused = (answers[i].says = "refused")
  BY LineIs, SaidParts DEF TypeOK
<1> QED
  BY <1>1 DEF Service!Closed, Service!Finalizes, FinalizeSaid

\* What the invariants say of the line.
Snug ==
  /\ TypeOK /\ Alone(stack, Releasers)
  /\ Has(stack, Releasers) => current = NoOp /\ finalized

LEMMA SnugIs ==
  ASSUME IInv, Locks, Finalizing
  PROVE  Snug
  BY DEF IInv, Locks, Finalizing, Snug

LEMMA OwnedRelease ==
  ASSUME NEW s, NEW o, Has(s, Owned(o))
  PROVE  Has(s, Releasers)
  BY DEF Has, Owned, Releasers

LEMMA LineNow ==
  ASSUME Snug
  PROVE  /\ \A o \in Ops : Has(stack, Owned(o)) => Line = <<o>> \o queue
         /\ (\A o \in Ops : ~Has(stack, Owned(o))) =>
              Line = IF current = NoOp THEN queue ELSE <<current>> \o queue
         /\ Line \in Seq(Ops)
<1>1. /\ stack \in Seq(Frame) /\ current \in Ops \cup {NoOp} /\ queue \in Seq(Ops)
      /\ Line = LineOf(stack, current, queue)
  BY LineIs DEF Snug, TypeOK
<1>2. \A o \in Ops : Has(stack, Owned(o)) => Line = <<o>> \o queue
  BY <1>1, LineParts, OwnedRelease DEF Snug
<1>3. (\A o \in Ops : ~Has(stack, Owned(o))) =>
        Line = IF current = NoOp THEN queue ELSE <<current>> \o queue
  BY <1>1, LineParts
<1>4. \A o \in Ops : <<o>> \o queue \in Seq(Ops)
  BY <1>1, PushFrame
<1>5. CASE \E o \in Ops : Has(stack, Owned(o))
  BY <1>2, <1>3, <1>4, <1>5
<1>6. CASE \A o \in Ops : ~Has(stack, Owned(o))
  <2>1. CASE current = NoOp
    BY <1>1, <1>2, <1>3, <1>6, <2>1
  <2>2. CASE current # NoOp
    BY <1>1, <1>2, <1>3, <1>4, <1>6, <2>2
  <2> QED
    BY <2>1, <2>2
<1> QED
  BY <1>5, <1>6

LEMMA LineNext ==
  ASSUME Snug'
  PROVE  /\ \A o \in Ops : Has(stack', Owned(o)) => Line' = <<o>> \o queue'
         /\ (\A o \in Ops : ~Has(stack', Owned(o))) =>
              Line' = IF current' = NoOp THEN queue' ELSE <<current'>> \o queue'
<1>1. /\ stack' \in Seq(Frame) /\ current' \in Ops \cup {NoOp} /\ queue' \in Seq(Ops)
      /\ Line' = LineOf(stack', current', queue')
      /\ Alone(stack', Releasers) /\ (Has(stack', Releasers) => current' = NoOp)
  BY LineIs DEF Snug, TypeOK
<1>2. \A o \in Ops : Has(stack', Owned(o)) => Line' = <<o>> \o queue'
  BY <1>1, LineParts, OwnedRelease
<1>3. (\A o \in Ops : ~Has(stack', Owned(o))) =>
        Line' = IF current' = NoOp THEN queue' ELSE <<current'>> \o queue'
  BY <1>1, LineParts
<1> QED
  BY <1>2, <1>3

\* Who owns the Finalize_ that is under way.
SameOwner == \A o \in Ops : Has(stack', Owned(o)) <=> Has(stack, Owned(o))

LEMMA SameLine ==
  ASSUME Snug, Snug', SameOwner, queue' = queue, current' = current
  PROVE  Line' = Line
<1>1. CASE \E o \in Ops : Has(stack, Owned(o))
  <2>1. PICK o \in Ops : Has(stack, Owned(o))
    BY <1>1
  <2>2. Line = <<o>> \o queue /\ Line' = <<o>> \o queue'
    BY <2>1, LineNow, LineNext DEF SameOwner
  <2> QED
    BY <2>2
<1>2. CASE \A o \in Ops : ~Has(stack, Owned(o))
  BY <1>2, LineNow, LineNext DEF SameOwner
<1> QED
  BY <1>1, <1>2

LEMMA Stutters ==
  ASSUME Snug, Snug', SameOwner, UNCHANGED <<queue, current, answers, prepared, finalized>>
  PROVE  UNCHANGED Service!vars
<1>1. Line' = Line
  BY SameLine
<1>2. State' = State
  BY DEF State
<1>3. Said' = Said
  BY DEF Said
<1> QED
  BY <1>1, <1>2, <1>3 DEF Service!vars

\* An operation that was not issued is not in the line, and nothing was said
\* of it.
LEMMA NotInLine ==
  ASSUME IInv, Snug, NEW o \in Ops, o \notin issued
  PROVE  /\ ~\E i \in 1..Len(Line) : Line[i] = o
         /\ ~\E i \in 1..Len(Said) : Said[i].op = o
<1>0. /\ ~In(queue, o) /\ current # o /\ ~Releases(stack, o) /\ ~Told(answers, o)
      /\ queue \in Seq(Ops) /\ current \in Ops \cup {NoOp} /\ stack \in Seq(Frame)
  BY DEF IInv, Apart, TypeOK
<1>1. ~Has(queue, {o})
  BY <1>0 DEF In, Has
<1>2. ~Has(stack, Owned(o))
  BY <1>0 DEF Releases, Has, Owned
<1>3. \A d \in Ops : d # o => ~Has(<<d>> \o queue, {o})
  BY <1>0, <1>1, PushFrame
<1>4. ~Has(Line, {o})
  <2>1. CASE \E d \in Ops : Has(stack, Owned(d))
    BY <1>2, <1>3, <2>1, LineNow
  <2>2. CASE \A d \in Ops : ~Has(stack, Owned(d))
    <3>1. CASE current = NoOp
      BY <1>1, <2>2, <3>1, LineNow
    <3>2. CASE current # NoOp
      BY <1>0, <1>3, <2>2, <3>2, LineNow
    <3> QED
      BY <3>1, <3>2
  <2> QED
    BY <2>1, <2>2
<1>5. ~\E i \in 1..Len(Said) : Said[i].op = o
  <2>1. /\ Len(Said) = Len(answers)
        /\ \A i \in 1..Len(answers) : Said[i].op = answers[i].op
    BY LineIs, SaidParts DEF Snug, TypeOK
  <2> QED
    BY <1>0, <2>1 DEF Told
<1> QED
  BY <1>4, <1>5 DEF Has

\* What joins the queue joins the line.
LEMMA LineGrows ==
  ASSUME Snug, Snug', SameOwner, NEW o \in Ops, queue' = Append(queue, o), current' = current
  PROVE  Line' = Append(Line, o)
<1>0. queue \in Seq(Ops) /\ current \in Ops \cup {NoOp}
  BY DEF Snug, TypeOK
<1>1. \A d \in Ops : <<d>> \o Append(queue, o) = Append(<<d>> \o queue, o)
  <2> SUFFICES ASSUME NEW d \in Ops
               PROVE  <<d>> \o Append(queue, o) = Append(<<d>> \o queue, o)
    OBVIOUS
  <2>1. Append(queue, o) = queue \o <<o>> /\ <<d>> \in Seq(Ops) /\ <<o>> \in Seq(Ops)
    BY <1>0, AppendIsConcat
  <2>2. <<d>> \o (queue \o <<o>>) = (<<d>> \o queue) \o <<o>> /\ <<d>> \o queue \in Seq(Ops)
    BY <1>0, <2>1, ConcatAssociative, ConcatProperties
  <2>3. Append(<<d>> \o queue, o) = (<<d>> \o queue) \o <<o>>
    BY <2>2, AppendIsConcat
  <2> QED
    BY <2>1, <2>2, <2>3
<1>2. CASE \E d \in Ops : Has(stack, Owned(d))
  <2>1. PICK d \in Ops : Has(stack, Owned(d))
    BY <1>2
  <2>2. Line = <<d>> \o queue /\ Line' = <<d>> \o Append(queue, o)
    BY <2>1, LineNow, LineNext DEF SameOwner
  <2> QED
    BY <1>1, <2>2
<1>3. CASE \A d \in Ops : ~Has(stack, Owned(d))
  <2>1. CASE current = NoOp
    BY <1>3, <2>1, LineNow, LineNext DEF SameOwner
  <2>2. CASE current # NoOp
    <3>1. Line = <<current>> \o queue /\ Line' = <<current>> \o Append(queue, o)
      BY <1>3, <2>2, LineNow, LineNext DEF SameOwner
    <3> QED
      BY <1>0, <1>1, <2>2, <3>1
  <2> QED
    BY <2>1, <2>2
<1> QED
  BY <1>2, <1>3

\* An operation is told its answer.
LEMMA SaidGrows ==
  ASSUME TypeOK, ~raised, NEW o \in Ops, NEW says \in Says, NEW row \in 0..MaxRows,
         Tell(o, says, row)
  PROVE  Said' = Append(Said, [op |-> o, refused |-> says = "refused"])
<1> DEFINE x == [op |-> o, says |-> says, row |-> row]
<1>1. answers \in Seq(Answer) /\ answers' = Append(answers, x)
  BY DEF TypeOK, Tell
<1>2. x \in Answer /\ x.op = o /\ x.says = says
  BY DEF Answer
<1> HIDE DEF x
<1>3. SaidOf(answers') = Append(SaidOf(answers), [op |-> x.op, refused |-> x.says = "refused"])
  BY <1>1, <1>2, SaidParts
<1> QED
  BY <1>2, <1>3, LineIs

-----------------------------------------------------------------------------
\* The steps, as StatementService sees them.

\* What the proof of a step may assume.
Ready ==
  /\ IInv /\ Locks /\ Finalizing /\ Owners /\ Shelter
  /\ Snug /\ Snug' /\ Finalizing' /\ Owners'
  /\ ~MayThrow /\ Step

Served == [Service!Next]_(Service!vars)

LEMMA StuttersServed ==
  ASSUME Ready, SameOwner, UNCHANGED <<queue, current, answers, prepared, finalized>>
  PROVE  Served
  BY Stutters DEF Ready, Served

\* An operation is issued.
LEMMA IssueServed ==
  ASSUME Ready, NEW o \in Ops, o \notin issued, Line' = Append(Line, o),
         UNCHANGED <<answers, State>>
  PROVE  Served
<1>1. Said' = Said
  BY DEF Said
<1>2. Service!Issue(o)
  BY <1>1, NotInLine DEF Ready, Service!Issue
<1> QED
  BY <1>2 DEF Served, Service!Next

LEMMA MildServed ==
  ASSUME Ready, Mild
  PROVE  Served
<1>0. TypeOK /\ ~raised /\ \A o : Owned(o) \cap Neutral = {}
  BY FramesApart DEF Ready, IInv, Shelter
<1>1. /\ SameOwner /\ UNCHANGED <<prepared, locked, finalized, released, current, working>>
  BY <1>0, MildStack, MildFrame DEF Same, SameOwner, fields, work
<1>2. State' = State
  BY <1>1 DEF State
<1>3. CASE \E o \in Ops : ScheduleRefuse(o) \/ ScheduleQueue(o)
  <2>1. PICK o \in Ops : ScheduleRefuse(o) \/ ScheduleQueue(o)
    BY <1>3
  <2>2. o \notin issued /\ queue' = Append(queue, o) /\ answers' = answers
    BY <2>1 DEF ScheduleRefuse, ScheduleQueue, Enter
  <2>3. Line' = Append(Line, o)
    BY <1>1, <2>2, LineGrows DEF Ready
  <2> QED
    BY <1>2, <2>2, <2>3, IssueServed
<1>4. CASE UNCHANGED <<queue, answers>>
  BY <1>1, <1>4, StuttersServed
<1>5. CASE CleanEnter /\ queue' # queue
  <2>1. stack # <<>> /\ Head(stack).pc = "clean" /\ answers' = answers /\ queue' = <<>> /\ ~prepared
    BY <1>5 DEF CleanEnter, InPc, history
  <2>2. Has(stack, Cleaners)
    BY <1>0, <2>1, PopShelter DEF TypeOK
  <2>3. finalized /\ working = "idle" /\ current = NoOp
    BY <2>2 DEF Ready, Shelter, Finalizing, Locks
  <2>4. \A o \in Ops : ~Has(stack', Owned(o))
    BY <1>1, <2>1 DEF Ready, Owners
  <2>5. Line' = <<>>
    BY <1>1, <2>1, <2>3, <2>4, LineNext DEF Ready
  <2>6. State = "failed" /\ Said' = Said
    BY <2>1, <2>3 DEF State, Said
  <2>7. Service!Drop
    BY <1>2, <2>5, <2>6 DEF Service!Drop
  <2> QED
    BY <2>7 DEF Served, Service!Next
<1>6. CASE CleanCall
  <2> DEFINE o == Head(queue)
  <2>1. /\ stack # <<>> /\ Head(stack).pc = "cleaning" /\ queue # <<>> /\ queue' = Tail(queue)
        /\ Tell(o, "refused", 0)
    BY <1>6 DEF CleanCall, InPc
  <2>2. Has(stack, Cleaners) /\ Has(stack, Looping) /\ queue \in Seq(Ops)
    BY <1>0, <2>1, PopShelter DEF TypeOK
  <2>3. prepared /\ finalized /\ working = "idle" /\ current = NoOp
    BY <2>2 DEF Ready, Shelter, Finalizing, Locks
  <2>4. State = "prepared"
    BY <2>3 DEF State
  <2>5. o \in Ops /\ queue = <<o>> \o Tail(queue) /\ Tail(queue) \in Seq(Ops)
    BY <2>1, <2>2
  <2>6. Said' = Append(Said, [op |-> o, refused |-> TRUE])
    <3>1. "refused" \in Says /\ 0 \in 0..MaxRows
      BY OpBoundAssumption DEF Says
    <3>2. Said' = Append(Said, [op |-> o, refused |-> "refused" = "refused"])
      BY <1>0, <2>1, <2>5, <3>1, SaidGrows
    <3> QED
      BY <3>2
  <2> HIDE DEF o
  <2>7. Service!Answer(o, TRUE)
    BY <1>2, <2>4, <2>6 DEF Service!Answer
  <2>8. CASE \E d \in Ops : Has(stack, Owned(d))
    <3>1. PICK d \in Ops : Has(stack, Owned(d))
      BY <2>8
    <3>2. KindOf[d] = "finalize" /\ released = 0
      BY <3>1, OwnedRelease DEF Ready, Owners, Finalizing
    <3>3. ~Service!Closed
      <4>1. ~FinalizeSaid
        BY <3>2 DEF Ready, Owners
      <4> QED
        BY <1>0, <4>1, ClosedIs
    <3>4. Line = <<d>> \o queue /\ Line' = <<d>> \o Tail(queue)
      BY <1>1, <2>1, <3>1, LineNow, LineNext DEF Ready, SameOwner
    <3>5. /\ Line \in Seq(Ops) /\ Len(Line) > 1 /\ Head(Line) = d /\ Line[2] = o
          /\ Tail(Tail(Line)) = Tail(queue)
      <4>1. Line # <<>> /\ Head(Line) = d /\ Tail(Line) = queue /\ Line \in Seq(Ops)
        BY <2>2, <3>4, PushFrame
      <4>2. Len(queue) = Len(Line) - 1 /\ Len(queue) # 0 /\ Len(queue) \in Nat /\ Len(Line) \in Nat
        BY <2>1, <2>2, <4>1, PopFrame, LenProperties, EmptySeq
      <4>3. \A i \in 1..Len(queue) : queue[i] = Line[i + 1]
        BY <4>1, HeadTailProperties
      <4>4. 1 \in 1..Len(queue) /\ queue[1] = o
        BY <2>1, <2>2, <4>2 DEF o
      <4>5. queue[1] = Line[1 + 1]
        BY <4>3, <4>4
      <4> QED
        BY <4>1, <4>2, <4>4, <4>5
    <3>6. Service!RefuseBehind
      BY <2>7, <3>2, <3>3, <3>4, <3>5 DEF Service!RefuseBehind, Service!Finalizes
    <3> QED
      BY <3>6 DEF Served, Service!Next
  <2>9. CASE \A d \in Ops : ~Has(stack, Owned(d))
    <3>1. released > 0
      <4>1. Has(stack, Releasers) => \E d \in Ops \cup {NoOp} : Has(stack, Owned(d))
        <5> SUFFICES ASSUME NEW i \in 1..Len(stack), stack[i] \in Releasers
                     PROVE  \E d \in Ops \cup {NoOp} : Has(stack, Owned(d))
          BY DEF Has
        <5>1. stack[i] \in Owned(stack[i].op) /\ stack[i].op \in Ops \cup {NoOp}
          BY DEF Releasers, Owned, Frame
        <5> QED
          BY <5>1 DEF Has
      <4>2. ~Has(stack, Releasers)
        BY <2>3, <2>9, <4>1 DEF Ready, Owners
      <4>3. released # 0 /\ released \in Nat
        BY <1>0, <2>3, <4>2 DEF Ready, Finalizing, TypeOK
      <4> QED
        BY <4>3
    <3>2. Service!Closed
      BY <1>0, <2>3, <3>1, ClosedIs DEF Ready, Owners
    <3>3. Line = queue /\ Line' = Tail(queue)
      <4>1. \A d \in Ops : ~Has(stack', Owned(d))
        BY <1>1, <2>9 DEF SameOwner
      <4> QED
        BY <1>1, <2>1, <2>3, <2>9, <4>1, LineNow, LineNext DEF Ready
    <3>4. Service!Refuse
      BY <2>1, <2>7, <3>2, <3>3 DEF Service!Refuse, o
    <3> QED
      BY <3>4 DEF Served, Service!Next
  <2> QED
    BY <2>8, <2>9
<1>7. CASE CleanEnter /\ queue' = queue
  BY <1>4, <1>7 DEF CleanEnter, history
<1>8. CASE ProcessClean \/ ProcessReturn \/ CleanReturn \/ NewTurn \/ JsReturn \/ JsCatch
  BY <1>4, <1>8 DEF ProcessClean, ProcessReturn, CleanReturn, NewTurn, JsReturn, JsCatch, history
<1> QED
  BY <1>3, <1>5, <1>6, <1>7, <1>8 DEF Mild

LEMMA PreparingServed ==
  ASSUME Ready, Preparing
  PROVE  Served
<1>0. /\ TypeOK /\ \A o : Owned(o) \cap Neutral = {}
      /\ preparing # "over" /\ ~prepared /\ ~finalized /\ State = "preparing"
      /\ ~Has(stack, Releasers)
      /\ UNCHANGED <<queue, current, answers>>
  BY FramesApart DEF Ready, IInv, Locks, Preparing, Construct, ConstructRejected, Prepare,
     PrepareBegin, PrepareRejected, WorkPrepare, AfterPrepare, State, work, history
<1>1. \A o : ~Has(stack, Owned(o))
  BY <1>0, OwnedRelease
<1>2. ASSUME SameOwner, State' \in {"preparing", "prepared", "failed"}
      PROVE  Served
  <2>1. Line' = Line /\ Said' = Said
    BY <1>0, <1>2, SameLine DEF Ready, Said
  <2>2. CASE State' = "preparing"
    BY <1>0, <2>1, <2>2 DEF Served, Service!vars
  <2>3. CASE State' = "prepared"
    BY <1>0, <2>1, <2>3 DEF Served, Service!Next, Service!Prepared
  <2>4. CASE State' = "failed"
    BY <1>0, <2>1, <2>4 DEF Served, Service!Next, Service!Failed
  <2> QED
    BY <1>2, <2>2, <2>3, <2>4
<1>3. State' \in {"preparing", "prepared", "failed"}
  BY DEF State
<1>4. CASE Construct \/ PrepareBegin \/ WorkPrepare
  BY <1>2, <1>3, <1>4 DEF Construct, PrepareBegin, WorkPrepare, SameOwner
<1>5. CASE ConstructRejected
  <2>1. stack' = <<Callback>> \o stack
    BY <1>5 DEF ConstructRejected
  <2>2. Same(stack', stack)
    BY <1>0, <2>1, SameAll, SamePush, FramesNeutral DEF TypeOK
  <2>3. SameOwner
    BY <1>0, <2>2 DEF Same, SameOwner
  <2> QED
    BY <1>2, <1>3, <2>3
<1>6. CASE PrepareRejected
  <2>1. \A o : At("reject") \notin Owned(o)
    BY OtherFrames, FrameSets
  <2>2. SameOwner
    BY <1>0, <1>6, <2>1, RejectStack DEF SameOwner
  <2> QED
    BY <1>2, <1>3, <2>2
<1>7. CASE AfterPrepare
  <2> DEFINE p == IF status = "ok" THEN "end" ELSE "failed"
  <2>1. stack' = <<At("js"), At(p)>> /\ p \in {"end", "errorEnd", "failed"}
    BY <1>7 DEF AfterPrepare
  <2> HIDE DEF p
  <2>2. \A o : At(p) \notin Owned(o)
    BY <2>1, OtherFrames, FrameSets
  <2>3. \A o : ~Has(stack', Owned(o))
    BY <1>0, <2>1, <2>2, EnterStack
  <2> QED
    BY <1>1, <1>2, <1>3, <2>3 DEF SameOwner
<1> QED
  BY <1>4, <1>5, <1>6, <1>7 DEF Preparing, Prepare

\* An operation starts: nothing stands before it in the line.
LEMMA StartingServed ==
  ASSUME Ready, ProcessRun \/ \E o \in Ops : ScheduleRun(o)
  PROVE  Served
<1>0. TypeOK /\ ~raised /\ queue \in Seq(Ops) /\ \A o : Owned(o) \cap Neutral = {}
  BY FramesApart DEF Ready, IInv, Shelter, TypeOK
\* The operation and what is queued behind it.
<1>1. ASSUME NEW o \in Ops, Starting(o), ~finalized
      PROVE  /\ Line = queue /\ Line' = <<o>> \o queue' /\ State' = State /\ answers' = answers
  <2>1. /\ ~locked /\ prepared /\ UNCHANGED <<prepared, answers>>
        /\ working = "idle" /\ current = NoOp /\ ~Has(stack, Releasers)
    BY <1>1 DEF Starting, Ready, Locks, Finalizing
  <2>2. \A d : ~Has(stack, Owned(d))
    BY <2>1, OwnedRelease
  <2>3. Line = queue
    BY <2>1, <2>2, LineNow DEF Ready
  <2>4. State' = State
    BY <2>1 DEF State
  <2>5. PICK r : Same(r, stack) /\ Run(o, r)
    BY <1>1 DEF Starting
  <2>6. CASE KindOf[o] # "finalize"
    <3>1. current' = o /\ stack' = r
      BY <2>5, <2>6 DEF Run
    <3>2. \A d : ~Has(stack', Owned(d))
      BY <1>0, <2>2, <2>5, <3>1 DEF Same
    <3>3. Line' = <<o>> \o queue'
      BY <3>1, <3>2, LineNext, OpsAssumption DEF Ready
    <3> QED
      BY <2>1, <2>3, <2>4, <3>3
  <2>7. CASE KindOf[o] = "finalize"
    <3>1. Release(o) \in Owned(o)
      BY OtherFrames, FrameSets
    <3>2. Has(stack', Owned(o))
      BY <1>0, <2>5, <2>7, <3>1, RunStack
    <3>3. Line' = <<o>> \o queue'
      BY <3>2, LineNext DEF Ready
    <3> QED
      BY <2>1, <2>3, <2>4, <3>3
  <2> QED
    BY <2>6, <2>7
<1>2. CASE ProcessRun
  <2>1. PICK o \in Ops : Starting(o) /\ o = Head(queue)
    BY <1>0, <1>2, StartKinds
  <2>2. ~finalized /\ queue # <<>> /\ queue' = Tail(queue)
    BY <1>0, <1>2, RunsBefore DEF ProcessRun, Ready
  <2>3. Line' = <<Head(queue)>> \o Tail(queue) /\ Line = queue /\ State' = State /\ Said' = Said
    BY <1>1, <2>1, <2>2 DEF Said
  <2>4. <<Head(queue)>> \o Tail(queue) = queue
    BY <1>0, <2>2
  <2> QED
    BY <2>3, <2>4 DEF Served, Service!vars
<1>3. CASE \E o \in Ops : ScheduleRun(o)
  <2>1. PICK o \in Ops : ScheduleRun(o)
    BY <1>3
  <2>2. /\ ~finalized /\ prepared /\ ~locked /\ queue' = queue /\ o \notin issued
        /\ ~InPc("process") /\ ~InPc("loop")
    BY <2>1 DEF ScheduleRun, Enter, MayEnter, Js, InPc
  <2>3. queue = <<>>
    BY <2>2 DEF Ready, Shelter
  <2>4. Starting(o)
    BY <1>0, <2>1, StartKinds
  <2>5. /\ Line = <<>> /\ Line' = <<o>> \o <<>> /\ State' = State /\ answers' = answers
    BY <1>1, <2>2, <2>3, <2>4
  <2>6. Line' = Append(Line, o)
    BY <2>5
  <2> QED
    BY <2>2, <2>5, <2>6, IssueServed
<1> QED
  BY <1>2, <1>3

\* Finalize_ and the ends of the handlers.
LEMMA EndsServed ==
  ASSUME Ready, FinalizeFailed \/ FinalizeRelease \/ End
  PROVE  Served
<1>0. /\ TypeOK /\ ~raised /\ \A o : Owned(o) \cap Neutral = {}
      /\ UNCHANGED <<prepared, queue, current>>
  BY FramesApart DEF Ready, IInv, Shelter, FinalizeFailed, FinalizeRelease, End, work, fields
<1>1. CASE FinalizeFailed
  <2> DEFINE h == Head(stack)
             t == Tail(stack)
             e == At("errorEnd")
  <2>1. /\ stack # <<>> /\ h \in Failing /\ h \in Frame /\ stack \in Seq(Frame)
        /\ \A P : P \cap Neutral = {} =>
             (Has(stack', P) <=> Release(NoOp) \in P \/ (h \in Enders /\ e \in P) \/ Has(t, P))
    BY <1>0, <1>1, FailStack DEF TypeOK
  <2>2. \A P : Has(stack, P) <=> h \in P \/ Has(t, P)
    BY <2>1, PopFrame
  <2>3. \A d : (Release(NoOp) \in Owned(d) => d = NoOp) /\ e \notin Owned(d)
    BY OtherFrames, FrameSets
  <2>4. \A d : h \notin Owned(d)
    <3> HIDE DEF h
    <3> QED
      BY <2>1, FrameSets
  <2> HIDE DEF h, t, e
  <2>5. SameOwner
    BY <1>0, <2>1, <2>2, <2>3, <2>4, OpsAssumption DEF SameOwner
  <2>6. ~prepared /\ ~finalized /\ finalized' /\ answers' = answers
    BY <1>1, <2>1, <2>2 DEF Ready, Finalizing, FinalizeFailed, history
  <2>7. State = "preparing" /\ State' = "failed" /\ Said' = Said
    BY <1>0, <2>6 DEF State, Said
  <2>8. Line' = Line
    BY <1>0, <2>5, SameLine DEF Ready
  <2> QED
    BY <2>7, <2>8 DEF Served, Service!Next, Service!Failed
<1>2. CASE FinalizeRelease
  <2> DEFINE h == Head(stack)
             o == h.op
  <2>1. /\ stack # <<>> /\ h \in Frame /\ h.pc = "release" /\ h \in Releasers
        /\ \A P : P \cap Neutral = {} =>
             /\ Has(stack, P) <=> h \in P \/ Has(stack', P)
             /\ Alone(stack, P) <=> Alone(stack', P) /\ ~(h \in P /\ Has(stack', P))
    BY <1>0, <1>2, PopStack
  <2>2. /\ finalized' = finalized
        /\ \/ o = NoOp /\ answers' = answers
           \/ o # NoOp /\ Tell(o, "ok", 0)
    BY <1>2 DEF FinalizeRelease, fields
  <2>3. o \in Ops \cup {NoOp} /\ h \in Owned(o)
    BY <2>1 DEF Frame, Owned
  <2> HIDE DEF h, o
  <2>4. Has(stack, Owned(o)) /\ Has(stack, Releasers) /\ ~Has(stack', Releasers)
    BY <1>0, <2>1, <2>3, FramesApart DEF Ready, Finalizing
  <2>5. /\ queue = <<>> /\ finalized /\ released = 0 /\ current = NoOp
    BY <1>0, <1>2, <2>4, ReleaseEmpty DEF Ready, Finalizing, Snug
  <2>6. \A d : ~Has(stack', Owned(d))
    BY <2>4, OwnedRelease
  <2>7. CASE o = NoOp
    <3>1. ~prepared
      BY <2>4, <2>7 DEF Ready, Owners
    <3>2. SameOwner
      BY <2>6, <3>1 DEF Ready, Owners, SameOwner
    <3> QED
      BY <1>0, <2>2, <2>7, <3>2, StuttersServed
  <2>8. CASE o # NoOp
    <3>1. o \in Ops /\ prepared /\ KindOf[o] = "finalize"
      BY <2>3, <2>4, <2>8 DEF Ready, Owners
    <3>2. Line = <<o>> /\ Line' = <<>>
      <4>1. Line = <<o>> \o <<>>
        BY <2>4, <2>5, <3>1, LineNow DEF Ready
      <4>2. Line' = <<>>
        BY <1>0, <2>5, <2>6, LineNext DEF Ready
      <4> QED
        BY <3>1, <4>1, <4>2
    <3>3. Said' = Append(Said, [op |-> o, refused |-> FALSE])
      <4>1. "ok" \in Says /\ 0 \in 0..MaxRows
        BY OpBoundAssumption DEF Says
      <4>2. Said' = Append(Said, [op |-> o, refused |-> "ok" = "refused"])
        BY <1>0, <2>2, <2>8, <3>1, <4>1, SaidGrows
      <4> QED
        BY <4>2
    <3>4. State = "prepared" /\ State' = State
      BY <1>0, <3>1 DEF State
    <3>5. ~Service!Closed
      <4>1. ~FinalizeSaid
        BY <2>5 DEF Ready, Owners
      <4> QED
        BY <1>0, <4>1, ClosedIs
    <3>6. Len(Line) = 1 /\ Head(Line) = o
      BY <3>2
    <3>7. Service!Close
      BY <3>1, <3>2, <3>3, <3>4, <3>5, <3>6
         DEF Service!Close, Service!Answer, Service!Finalizes
    <3> QED
      BY <3>7 DEF Served, Service!Next
  <2> QED
    BY <2>7, <2>8
<1>3. CASE End
  <2> DEFINE h == Head(stack)
  <2>1. /\ h \in Enders /\ h \in Frame
        /\ \A P : P \cap Neutral = {} => (Has(stack, P) <=> h \in P \/ Has(stack', P))
    BY <1>0, <1>3, PopStack
  <2> HIDE DEF h
  <2>2. SameOwner
    BY <1>0, <2>1, FrameSets DEF SameOwner
  <2> QED
    BY <1>0, <1>3, <2>2, StuttersServed DEF End, history
<1> QED
  BY <1>1, <1>2, <1>3

\* The operation whose work is done is the first in the line.
LEMMA AfterServed ==
  ASSUME Ready, NEW o \in Ops, After(o)
  PROVE  Served
<1>0. /\ TypeOK /\ ~raised /\ \A d : Owned(d) \cap Neutral = {}
      /\ stack = <<>> /\ current = o /\ working = "ran" /\ current' = NoOp
      /\ UNCHANGED <<prepared, finalized, queue>>
  BY FramesApart
     DEF Ready, IInv, Shelter, After, AfterError, AfterOk, Ended, EventLoop, fields
<1>1. prepared /\ ~finalized /\ KindOf[o] # "finalize" /\ released = 0
  BY <1>0 DEF Ready, Locks, Finalizing, TypeOK
<1>2. \A d : ~Has(stack, Owned(d)) /\ ~Has(stack', Owned(d))
  <2>1. \E p \in {"end", "errorEnd"} :
          \/ stack' = <<At("js"), At(p)>> \/ stack' = Call(o) \o <<At(p)>>
          \/ stack' = <<>> \o <<At(p)>>
    BY DEF After, AfterError, AfterOk
  <2>2. PICK p \in {"end", "errorEnd"} :
          \A P : P \cap Neutral = {} => (Has(stack', P) <=> At(p) \in P)
    BY <2>1, EnterStack
  <2>3. \A d : At(p) \notin Owned(d)
    BY OtherFrames, FrameSets
  <2> QED
    BY <1>0, <2>2, <2>3, EmptyStack
<1>3. Line = <<o>> \o queue /\ Line' = queue
  BY <1>0, <1>2, LineNow, LineNext, OpsAssumption DEF Ready
<1>4. Line # <<>> /\ Head(Line) = o /\ Tail(Line) = queue
  <2>1. queue \in Seq(Ops)
    BY <1>0 DEF TypeOK
  <2> QED
    BY <1>3, <2>1, PushFrame
<1>5. \E says \in {"error", "row", "none", "ok"} : \E row \in 0..MaxRows : Tell(o, says, row)
  <2>1. cursor \in 0..MaxRows /\ 0 \in 0..MaxRows
    BY <1>0, OpBoundAssumption DEF TypeOK
  <2>2. CASE AfterError(o)
    BY <2>1, <2>2 DEF AfterError
  <2>3. CASE AfterOk(o) /\ KindOf[o] = "get"
    BY <2>1, <2>3 DEF AfterOk
  <2>4. CASE AfterOk(o) /\ KindOf[o] # "get"
    BY <2>1, <2>4 DEF AfterOk
  <2> QED
    BY <2>2, <2>3, <2>4 DEF After
<1>6. Said' = Append(Said, [op |-> o, refused |-> FALSE])
  <2>1. PICK says \in {"error", "row", "none", "ok"} : \E row \in 0..MaxRows : Tell(o, says, row)
    BY <1>5
  <2>2. says \in Says /\ (says = "refused") = FALSE
    BY DEF Says
  <2>3. Said' = Append(Said, [op |-> o, refused |-> says = "refused"])
    BY <1>0, <2>1, <2>2, SaidGrows
  <2> QED
    BY <2>2, <2>3
<1>7. ~Service!Closed
  <2>1. ~FinalizeSaid
    BY <1>1 DEF Ready, Owners
  <2> QED
    BY <1>0, <2>1, ClosedIs
<1>8. State = "prepared" /\ State' = State
  BY <1>0, <1>1 DEF State
<1>9. Service!Serve
  BY <1>1, <1>3, <1>4, <1>6, <1>7, <1>8 DEF Service!Serve, Service!Answer, Service!Finalizes
<1> QED
  BY <1>9 DEF Served, Service!Next

LEMMA NextServed ==
  ASSUME Ready
  PROVE  Served
<1>0. ~Unwinding /\ Step
  BY NoUnwinding DEF Ready, IInv
<1>1. CASE \E o \in Ops : Work(o)
  <2>1. UNCHANGED <<prepared, finalized, queue, current, stack, answers>>
    BY <1>1 DEF Work, WorkBind, WorkStep, WorkAll, WorkReset, WorkSkip, WorkRefused, WorkGone,
       Working, fields, history
  <2> QED
    BY <2>1, StuttersServed DEF SameOwner
<1> QED
  BY <1>0, <1>1, MildServed, PreparingServed, StartingServed, EndsServed, AfterServed
     DEF Step, Handler, Schedule, Mild, Unwinding, Preparing

\* When no callback throws, a statement answers its operations one by one in
\* the order of their issue, refuses what stands behind a finalize before it
\* answers it, refuses everything after it, and answers nothing when it could
\* not be prepared: every step is one of StatementService or changes nothing
\* that it shows.
THEOREM StatementImplements ==
  ASSUME ~MayThrow
  PROVE  Spec => ImplementsService
<1>1. Init => Service!Init
  <2> SUFFICES ASSUME Init
               PROVE  Service!Init
    OBVIOUS
  <2>1. /\ ~prepared /\ ~finalized /\ queue = <<>> /\ current = NoOp /\ answers = <<>>
    BY DEF Init
  <2>2. State = "preparing"
    BY <2>1 DEF State
  <2>3. Snug
    <3>1. IInv /\ Locks /\ Finalizing
      BY InitIInv, InitLocks, InitCalm
    <3> QED
      BY <3>1, SnugIs
  <2>4. \A o \in Ops : ~Has(stack, Owned(o))
    BY <2>1, InitCalm DEF Owners
  <2>5. Line = <<>>
    BY <2>1, <2>3, <2>4, LineNow
  <2>6. Said = <<>>
    <3>1. Said \in Seq(Saying) /\ Len(Said) = 0
      BY <2>1, <2>3, LineIs, SaidParts DEF Snug, TypeOK
    <3> QED
      BY <3>1, EmptySeq
  <2> QED
    BY <2>2, <2>5, <2>6 DEF Service!Init
<1>2. ASSUME IInv, Locks, Verdict, Calm, [Next]_vars
      PROVE  [Service!Next]_(Service!vars)
  <2>1. CASE Next
    <3>1. IInv' /\ Locks' /\ Calm'
      BY <1>2, <2>1, NextIInv, LocksNext, CalmNext DEF Next, IInv
    <3>2. Finalizing /\ Owners /\ Shelter /\ Finalizing' /\ Owners'
      BY <1>2, <3>1 DEF Calm
    <3>3. Snug
      BY <1>2, <3>2, SnugIs
    <3>4. Snug'
      BY <3>1, <3>2 DEF IInv, Locks, Finalizing, Snug
    <3>5. Ready
      BY <1>2, <2>1, <3>2, <3>3, <3>4 DEF Ready, Next
    <3> QED
      BY <3>5, NextServed DEF Served
  <2>2. CASE vars' = vars
    <3>1. UNCHANGED <<prepared, finalized, queue, current, stack, answers>>
      BY <2>2 DEF vars, fields, work, history
    <3> QED
      BY <3>1 DEF Service!vars, State, Line, Releasing, Said
  <2> QED
    BY <1>2, <2>1, <2>2
<1> QED
  BY <1>1, <1>2, Invariant, LocksInvariant, CalmInvariant, PTL
     DEF Spec, ImplementsService, Service!Spec

-----------------------------------------------------------------------------
\* What the service implies, and Statement with it.

\* What is answered after a finalize was is refused, and before that an
\* operation is refused only when a finalize is first in the line.
Finality ==
  /\ Line \in Seq(Ops) /\ Said \in Seq(Saying)
  /\ State # "prepared" => Said = <<>>
  /\ \A i, j \in 1..Len(Said) :
       i < j /\ Service!Finalizes(Said[i].op) /\ ~Said[i].refused => Said[j].refused
  /\ \A j \in 1..Len(Said) :
       Said[j].refused => Service!Closed \/ (Line # <<>> /\ Service!Finalizes(Head(Line)))

\* An answer that keeps to it.
LEMMA AnswerKeepsFinality ==
  ASSUME Finality, NEW o \in Ops, NEW refused \in BOOLEAN, Service!Answer(o, refused),
         Line' \in Seq(Ops),
         Service!Closed => refused,
         refused => Service!Closed \/ (Line' # <<>> /\ Service!Finalizes(Head(Line'))),
         \/ Service!Closed
         \/ Line' # <<>> /\ Line # <<>> /\ Head(Line') = Head(Line)
         \/ Line # <<>> /\ (Service!Finalizes(Head(Line)) => Service!Finalizes(o) /\ ~refused)
  PROVE  Finality'
<1> DEFINE x == [op |-> o, refused |-> refused]
<1>1. Said' = Append(Said, x) /\ State = "prepared" /\ State' = "prepared"
  BY DEF Service!Answer
<1>2. x \in Saying
  BY DEF Saying
<1>3. /\ Said' \in Seq(Saying) /\ Len(Said) \in Nat /\ Len(Said') = Len(Said) + 1
      /\ \A i \in 1..Len(Said) : Said'[i] = Said[i]
      /\ Said'[Len(Said')] = x
  BY <1>1, <1>2 DEF Finality
<1>4. Service!Closed => Service!Closed'
  BY <1>3 DEF Service!Closed, Service!Finalizes
<1>5. \A i, j \in 1..Len(Said') :
        i < j /\ Service!Finalizes(Said'[i].op) /\ ~Said'[i].refused => Said'[j].refused
  <2> SUFFICES ASSUME NEW i \in 1..Len(Said'), NEW j \in 1..Len(Said'), i < j,
                      Service!Finalizes(Said'[i].op), ~Said'[i].refused
               PROVE  Said'[j].refused
    OBVIOUS
  <2>1. i \in 1..Len(Said) /\ Said'[i] = Said[i]
    BY <1>3
  <2>2. CASE j \in 1..Len(Said)
    BY <1>3, <2>1, <2>2 DEF Finality
  <2>3. CASE j = Len(Said')
    <3>1. Service!Closed
      BY <2>1 DEF Service!Closed
    <3> QED
      BY <1>3, <2>3, <3>1
  <2> QED
    BY <1>3, <2>2, <2>3
<1>6. ASSUME NEW j \in 1..Len(Said'), Said'[j].refused
      PROVE  Service!Closed' \/ (Line' # <<>> /\ Service!Finalizes(Head(Line')))
  <2>1. CASE j \in 1..Len(Said)
    <3>1. Service!Closed \/ (Line # <<>> /\ Service!Finalizes(Head(Line)))
      BY <1>3, <1>6, <2>1 DEF Finality
    <3>2. Service!Finalizes(o) /\ ~refused => Service!Closed'
      BY <1>3 DEF Service!Closed, Service!Finalizes
    <3> QED
      BY <1>4, <3>1, <3>2
  <2>2. CASE j = Len(Said')
    <3>1. refused
      BY <1>3, <1>6, <2>2
    <3> QED
      BY <1>4, <3>1
  <2> QED
    BY <1>3, <2>1, <2>2
<1> QED
  BY <1>1, <1>3, <1>5, <1>6 DEF Finality, Service!Finalizes

LEMMA ServiceFinality ==
  ASSUME Finality, [Service!Next]_(Service!vars)
  PROVE  Finality'
<1>0. Line \in Seq(Ops) /\ Said \in Seq(Saying)
  BY DEF Finality
<1>1. CASE Service!Prepared \/ Service!Failed \/ UNCHANGED Service!vars
  BY <1>1 DEF Service!Prepared, Service!Failed, Service!vars, Finality, Service!Closed,
     Service!Finalizes
<1>2. CASE Service!Drop
  <2>1. Line' = <<>> /\ Said' = Said /\ State' = State /\ Said = <<>>
    BY <1>2 DEF Service!Drop, Finality
  <2>2. Len(Said') = 0 /\ Said' = <<>> /\ Line' \in Seq(Ops) /\ Said' \in Seq(Saying)
    BY <1>0, <2>1
  <2>3. 1..Len(Said') = {}
    BY <2>2
  <2> QED
    BY <2>2, <2>3 DEF Finality
<1>3. CASE \E o \in Ops : Service!Issue(o)
  <2>1. PICK o \in Ops : Service!Issue(o)
    BY <1>3
  <2>2. Line' = Append(Line, o) /\ Said' = Said /\ State' = State
    BY <2>1 DEF Service!Issue
  <2>3. Line' \in Seq(Ops) /\ (Line # <<>> => Line' # <<>> /\ Head(Line') = Head(Line))
    BY <1>0, <2>2
  <2> QED
    BY <2>2, <2>3 DEF Finality, Service!Closed, Service!Finalizes
<1>4. CASE Service!Serve
  <2>1. /\ Line # <<>> /\ ~Service!Closed /\ ~Service!Finalizes(Head(Line))
        /\ Line' = Tail(Line) /\ Service!Answer(Head(Line), FALSE)
    BY <1>4 DEF Service!Serve
  <2>2. Head(Line) \in Ops /\ Line' \in Seq(Ops)
    BY <1>0, <2>1
  <2> QED
    BY <2>1, <2>2, AnswerKeepsFinality
<1>5. CASE Service!RefuseBehind
  <2>1. /\ Len(Line) > 1 /\ ~Service!Closed /\ Service!Finalizes(Head(Line))
        /\ Line' = <<Head(Line)>> \o Tail(Tail(Line)) /\ Service!Answer(Line[2], TRUE)
    BY <1>5 DEF Service!RefuseBehind
  <2>2. Line[2] \in Ops /\ Line # <<>> /\ Head(Line) \in Ops /\ Tail(Tail(Line)) \in Seq(Ops)
    <3> DEFINE s == Tail(Line)
    <3>1. s \in Seq(Ops) /\ Len(s) = Len(Line) - 1
      BY <1>0, <2>1
    <3>2. s # <<>>
      <4>1. Len(s) # 0
        BY <1>0, <2>1, <3>1
      <4> HIDE DEF s
      <4> QED
        BY <4>1
    <3> HIDE DEF s
    <3>3. Tail(s) \in Seq(Ops)
      BY <3>1, <3>2
    <3>4. Line[2] \in Ops /\ Line # <<>> /\ Head(Line) \in Ops
      BY <1>0, <2>1
    <3> QED
      BY <3>3, <3>4 DEF s
  <2>3. Line' \in Seq(Ops) /\ Line' # <<>> /\ Head(Line') = Head(Line)
    BY <2>1, <2>2
  <2>4. Service!Finalizes(Head(Line'))
    BY <2>1, <2>3
  <2> QED
    BY <2>1, <2>2, <2>3, <2>4, AnswerKeepsFinality
<1>6. CASE Service!Close
  <2>1. /\ Len(Line) = 1 /\ ~Service!Closed /\ Service!Finalizes(Head(Line))
        /\ Line' = <<>> /\ Service!Answer(Head(Line), FALSE)
    BY <1>6 DEF Service!Close
  <2>2. Head(Line) \in Ops /\ Line' \in Seq(Ops) /\ Line # <<>>
    BY <1>0, <2>1
  <2> QED
    BY <2>1, <2>2, AnswerKeepsFinality
<1>7. CASE Service!Refuse
  <2>1. /\ Line # <<>> /\ Service!Closed
        /\ Line' = Tail(Line) /\ Service!Answer(Head(Line), TRUE)
    BY <1>7 DEF Service!Refuse
  <2>2. Head(Line) \in Ops /\ Line' \in Seq(Ops)
    BY <1>0, <2>1
  <2> QED
    BY <2>1, <2>2, AnswerKeepsFinality
<1> QED
  BY <1>1, <1>2, <1>3, <1>4, <1>5, <1>6, <1>7 DEF Service!Next

\* finalize is final: whatever a statement answers after a finalize is a
\* refusal (of a run as of another finalize), and it refuses an operation only
\* when a finalize was issued before it.
FinalizeIsFinal ==
  /\ \A i, j \in 1..Len(answers) :
       i < j /\ KindOf[answers[i].op] = "finalize" /\ answers[i].says # "refused"
       => answers[j].says = "refused"
  /\ \A j \in 1..Len(answers) :
       answers[j].says = "refused"
       => FinalizeSaid \/ (Line # <<>> /\ KindOf[Head(Line)] = "finalize")

\* When no callback throws: finalize is final, because Statement implements
\* StatementService, of which it holds.
THEOREM StatementFinal ==
  ASSUME ~MayThrow
  PROVE  Spec => []FinalizeIsFinal
<1>1. Service!Init => Finality
  <2> SUFFICES ASSUME Service!Init
               PROVE  Finality
    OBVIOUS
  <2>1. Line = <<>> /\ Said = <<>> /\ Len(Said) = 0
    BY DEF Service!Init
  <2> QED
    BY <2>1 DEF Finality
<1>2. TypeOK /\ Finality => FinalizeIsFinal
  <2> SUFFICES ASSUME TypeOK, Finality
               PROVE  FinalizeIsFinal
    OBVIOUS
  <2>1. /\ Len(Said) = Len(answers)
        /\ \A i \in 1..Len(answers) : /\ Said[i].op = answers[i].op
                                      /\ Said[i].refused = (answers[i].says = "refused")
    BY LineIs, SaidParts DEF TypeOK
  <2>2. Service!Closed <=> FinalizeSaid
    BY ClosedIs
  <2> QED
    BY <2>1, <2>2 DEF Finality, FinalizeIsFinal, Service!Finalizes
<1>3. Finality /\ [Service!Next]_(Service!vars) => Finality'
  BY ServiceFinality
<1> QED
  BY <1>1, <1>2, <1>3, StatementImplements, StatementType, PTL
     DEF ImplementsService, Service!Spec
=============================================================================
