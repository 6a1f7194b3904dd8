---------------------------- MODULE BackupProofs ----------------------------
(***************************************************************************)
(* Proofs about one backup, for every set of operations, every set of      *)
(* errors to retry, every bound, and callbacks that throw or do not.  The  *)
(* argument is in the README.                                              *)
(***************************************************************************)
EXTENDS Backup, StackLemmas

-----------------------------------------------------------------------------
\* The frames that the invariants tell apart.

Frames(ps) == {f \in Frame : f.pc \in ps}

\* Handlers that end with BACKUP_END: until then the backup stays locked.
Ending ==
  Frames({"end", "errorEnd", "failed"}) \cup {f \in Frame : f.pc = "release" /\ f.op # NoOp}

\* Those that have begun to finish the backup.
Creators == Frames({"failed", "reject"})
Releasers == Frames({"release"})
Finishers == Frames({"failed", "reject", "release"})

Loops == Frames({"loop"})

\* Frames that none of the invariants of Core is about.
Plain == Frames({"js", "dead", "clean", "cleaning", "process"})

LEMMA FrameKinds ==
  /\ \A f \in Frame :
       /\ f.pc \in PCs /\ f.op \in Ops \cup {NoOp} /\ f.called \in BOOLEAN
       /\ f \in Ending <=> f.pc \in {"end", "errorEnd", "failed"}
                            \/ (f.pc = "release" /\ f.op # NoOp)
       /\ f \in Creators <=> f.pc \in {"failed", "reject"}
       /\ f \in Releasers <=> f.pc = "release"
       /\ f \in Finishers <=> f.pc \in {"failed", "reject", "release"}
       /\ f \in Loops <=> f.pc = "loop"
       /\ f \in Plain <=> f.pc \in {"js", "dead", "clean", "cleaning", "process"}
  /\ \A p \in PCs : At(p) \in Frame /\ At(p).pc = p /\ At(p).op = NoOp
  /\ \A o \in Ops \cup {NoOp} :
       Release(o) \in Frame /\ Release(o).pc = "release" /\ Release(o).op = o
  /\ \A b \in BOOLEAN : Cleaning(b) \in Plain /\ Cleaning(b).pc = "cleaning"
  /\ Callback \in Plain /\ Callback.pc = IF raised THEN "dead" ELSE "js"
<1>1. \A f \in Frame :
        /\ f.pc \in PCs /\ f.op \in Ops \cup {NoOp} /\ f.called \in BOOLEAN
        /\ f \in Ending <=> f.pc \in {"end", "errorEnd", "failed"}
                             \/ (f.pc = "release" /\ f.op # NoOp)
        /\ f \in Creators <=> f.pc \in {"failed", "reject"}
        /\ f \in Releasers <=> f.pc = "release"
        /\ f \in Finishers <=> f.pc \in {"failed", "reject", "release"}
        /\ f \in Loops <=> f.pc = "loop"
        /\ f \in Plain <=> f.pc \in {"js", "dead", "clean", "cleaning", "process"}
  BY DEF Frame, Frames, Ending, Creators, Releasers, Finishers, Loops, Plain
<1>2. \A p \in PCs : At(p) \in Frame /\ At(p).pc = p /\ At(p).op = NoOp
  BY DEF Frame, At
<1>3. \A o \in Ops \cup {NoOp} :
        Release(o) \in Frame /\ Release(o).pc = "release" /\ Release(o).op = o
  BY DEF Frame, At, Release, PCs
<1>4. \A b \in BOOLEAN : Cleaning(b) \in Frame /\ Cleaning(b).pc = "cleaning"
  BY DEF Frame, At, Cleaning, PCs
<1>5. Callback \in Frame /\ Callback.pc = IF raised THEN "dead" ELSE "js"
  BY DEF Frame, At, Callback, PCs
<1> QED
  BY <1>1, <1>2, <1>3, <1>4, <1>5

\* The frames that handlers push, one by one.
LEMMA HandlerFrames ==
  /\ At("js") \in Plain /\ At("clean") \in Plain /\ At("process") \in Plain
  /\ At("js").pc = "js" /\ At("clean").pc = "clean" /\ At("process").pc = "process"
  /\ At("end") \in Frame /\ At("end").pc = "end"
  /\ At("errorEnd") \in Frame /\ At("errorEnd").pc = "errorEnd"
  /\ At("failed") \in Frame /\ At("failed").pc = "failed"
  /\ At("reject") \in Frame /\ At("reject").pc = "reject"
  /\ At("loop") \in Frame /\ At("loop").pc = "loop"
<1>1. {"js", "clean", "process", "end", "errorEnd", "failed", "reject", "loop"} \subseteq PCs
  BY DEF PCs
<1> QED
  BY <1>1, FrameKinds

-----------------------------------------------------------------------------
\* What the stack of a step owes to the stack before it.

\* s2 has the frames of s that matter, but for handlers that have ended.
Keeps(s2, s) ==
  /\ s2 \in Seq(Frame)
  /\ Has(s2, Ending) => Has(s, Ending)
  /\ Alone(s, Ending) => Alone(s2, Ending)
  /\ Has(s2, Finishers) <=> Has(s, Finishers)
  /\ Alone(s, Finishers) => Alone(s2, Finishers)
  /\ Has(s2, Creators) => Has(s, Creators)
  /\ Has(s2, Releasers) => Has(s, Releasers)
  /\ Has(s2, Loops) => Has(s, Loops)

LEMMA KeepsSame ==
  ASSUME NEW s \in Seq(Frame)
  PROVE  Keeps(s, s)
  BY DEF Keeps

LEMMA KeepsPush ==
  ASSUME NEW s, NEW r \in Seq(Frame), Keeps(r, s), NEW f \in Plain
  PROVE  Keeps(<<f>> \o r, s)
<1>1. /\ f \in Frame /\ f \notin Ending /\ f \notin Finishers /\ f \notin Creators
      /\ f \notin Releasers /\ f \notin Loops
  <2>1. f \in Frame
    BY DEF Plain, Frames
  <2> QED
    BY <2>1, FrameKinds
<1> QED
  BY <1>1, PushFrame DEF Keeps

LEMMA KeepsPop ==
  ASSUME NEW s \in Seq(Frame), s # <<>>, Head(s).pc \notin {"failed", "reject", "release"}
  PROVE  Keeps(Tail(s), s) /\ Tail(s) \in Seq(Frame) /\ Head(s) \in Frame
<1>1. Head(s) \in Frame /\ Head(s) \notin Finishers
  BY PopFrame, FrameKinds
<1> QED
  BY <1>1, PopFrame DEF Keeps

LEMMA KeepsTrans ==
  ASSUME NEW s, NEW t, NEW u, Keeps(t, s), Keeps(u, t)
  PROVE  Keeps(u, s)
  BY DEF Keeps

LEMMA KeepsUnwound ==
  ASSUME stack \in Seq(Frame), stack # <<>>, Head(stack).pc \in {"js", "dead"}
  PROVE  Keeps(Unwound, stack)
<1>1. Keeps(Tail(stack), stack) /\ Tail(stack) \in Seq(Frame)
  BY KeepsPop
<1>2. CASE Tail(stack) # <<>> /\ Head(Tail(stack)).pc \in Skippable
  <2>1. Keeps(Tail(Tail(stack)), Tail(stack))
    BY <1>1, <1>2, KeepsPop DEF Skippable
  <2> QED
    BY <1>1, <1>2, <2>1, KeepsTrans DEF Unwound
<1> QED
  BY <1>1, <1>2 DEF Unwound

\* The callback of an operation, if it has one.
LEMMA KeepsCall ==
  ASSUME NEW s, NEW r \in Seq(Frame), Keeps(r, s), NEW o
  PROVE  Keeps(Call(o) \o r, s) /\ Call(o) \o r \in Seq(Frame)
<1>1. CASE o \in Silent
  <2>1. Call(o) \o r = r
    BY <1>1, ConcatEmptySeq DEF Call
  <2> QED
    BY <2>1
<1>2. CASE o \notin Silent
  <2>1. Call(o) = <<Callback>>
    BY <1>2 DEF Call
  <2>2. Keeps(<<Callback>> \o r, s)
    BY FrameKinds, KeepsPush
  <2> QED
    BY <2>1, <2>2 DEF Keeps
<1> QED
  BY <1>1, <1>2

-----------------------------------------------------------------------------
\* Type correctness.

\* TypeOK but for the sequences.
DataOK ==
  /\ {inited, locked, finished, completed, failed, other} \subseteq BOOLEAN
  /\ {collected, raised, threw, manual} \subseteq BOOLEAN
  /\ status \in Statuses /\ handle \in {"none", "live"}
  /\ retry \in SUBSET Statuses /\ tolerated \in [Ops -> SUBSET Statuses]
  /\ released \in Nat
  /\ creating \in {"new", "scheduled", "begun", "ran", "over"}
  /\ current \in Ops \cup {NoOp} /\ working \in {"idle", "begun", "ran"}

Answer == [op : Ops, says : Says]

LEMMA TypeParts ==
  /\ TypeOK => DataOK /\ queue \in Seq(Ops) /\ stack \in Seq(Frame)
               /\ issued \in Seq(Ops) /\ answers \in Seq(Answer)
  /\ DataOK' /\ queue' \in Seq(Ops) /\ stack' \in Seq(Frame)
       /\ issued' \in Seq(Ops) /\ answers' \in Seq(Answer) => TypeOK'
  BY DEF TypeOK, DataOK, Answer

LEMMA TellType ==
  ASSUME answers \in Seq(Answer), NEW o \in Ops, NEW says \in Says, Tell(o, says)
  PROVE  answers' \in Seq(Answer)
<1>1. [op |-> o, says |-> says] \in Answer
  BY DEF Answer
<1> QED
  BY <1>1, AppendProperties DEF Tell

LEMMA QueueTail ==
  ASSUME NEW S, NEW s \in Seq(S), s # <<>>
  PROVE  Tail(s) \in Seq(S) /\ Head(s) \in S
  BY HeadTailProperties

\* The actions that change neither the flags of the backup nor what it holds,
\* nor the work under way; they push and pop frames that do not matter.
Calm ==
  \/ SetRetry \/ NewTurn \/ JsReturn \/ JsThrow \/ JsCatch \/ DeadCallback
  \/ ProcessClean \/ ProcessReturn \/ CleanEnter \/ CleanCall \/ CleanReturn
  \/ \E o \in Ops : ScheduleRefuse(o) \/ ScheduleQueue(o)

LEMMA CalmData ==
  ASSUME TypeOK, Calm
  PROVE  DataOK' /\ UNCHANGED <<fields, outcome, sqlite, work, object>>
<1>1. DataOK
  BY TypeParts
<1>2. CASE SetRetry
  <2>1. retry' \in SUBSET Statuses
    BY <1>2, RetryAssumption DEF SetRetry
  <2>2. manual' \in BOOLEAN
    BY <1>1, <1>2 DEF SetRetry, DataOK
  <2> QED
    BY <1>1, <1>2, <2>1, <2>2
       DEF SetRetry, DataOK, fields, outcome, sqlite, work, object, thread, history
<1>3. CASE NewTurn \/ JsReturn \/ JsThrow \/ JsCatch \/ DeadCallback
  <2>1. raised' \in BOOLEAN /\ threw' \in BOOLEAN
    BY <1>1, <1>3 DEF NewTurn, JsReturn, JsThrow, JsCatch, DeadCallback, DataOK
  <2>2. UNCHANGED rest
    BY <1>3 DEF NewTurn, JsReturn, JsThrow, JsCatch, DeadCallback
  <2> QED
    BY <1>1, <2>1, <2>2 DEF DataOK, rest, fields, outcome, sqlite, retries, work, object
<1>4. CASE ProcessClean \/ ProcessReturn \/ CleanEnter \/ CleanCall \/ CleanReturn
  <2>1. UNCHANGED <<fields, outcome, sqlite, retries, work, object, raised, threw>>
    BY <1>4 DEF ProcessClean, ProcessReturn, CleanEnter, CleanCall, CleanReturn
  <2> QED
    BY <1>1, <2>1 DEF DataOK, fields, outcome, sqlite, retries, work, object
<1>5. ASSUME NEW o \in Ops, ScheduleRefuse(o) \/ ScheduleQueue(o)
      PROVE  DataOK' /\ UNCHANGED <<fields, outcome, sqlite, work, object>>
  <2>1. /\ UNCHANGED <<fields, outcome, sqlite, work, object, retry, manual, raised, threw>>
        /\ tolerated' = IF KindOf[o] = "step" THEN [tolerated EXCEPT ![o] = retry] ELSE tolerated
    BY <1>5 DEF ScheduleRefuse, ScheduleQueue, Enter, fields
  <2>2. tolerated' \in [Ops -> SUBSET Statuses]
    BY <1>1, <2>1 DEF DataOK
  <2> QED
    BY <1>1, <2>1, <2>2 DEF DataOK, fields, outcome, sqlite, work, object
<1> QED
  BY <1>2, <1>3, <1>4, <1>5 DEF Calm

LEMMA CalmStack ==
  ASSUME TypeOK, Calm
  PROVE  Keeps(stack', stack)
<1>0. stack \in Seq(Frame) /\ queue \in Seq(Ops) /\ Keeps(stack, stack)
  BY TypeParts, KeepsSame
<1>1. CASE SetRetry \/ JsCatch \/ \E o \in Ops : ScheduleQueue(o)
  BY <1>0, <1>1 DEF SetRetry, JsCatch, ScheduleQueue, thread
<1>2. CASE NewTurn
  <2>1. stack' = <<At("js")>> \o stack
    BY <1>2, HandlerFrames, FewFrames DEF NewTurn
  <2> QED
    BY <1>0, <2>1, HandlerFrames, KeepsPush
<1>3. CASE JsReturn
  BY <1>0, <1>3, KeepsPop DEF JsReturn, Js, InPc
<1>4. CASE JsThrow \/ DeadCallback
  BY <1>0, <1>4, KeepsUnwound DEF JsThrow, DeadCallback, InPc
<1>5. CASE ProcessClean
  <2>1. stack # <<>> /\ Head(stack).pc = "process"
        /\ stack' = <<At("clean")>> \o Tail(stack)
    BY <1>5 DEF ProcessClean, InPc
  <2> QED
    BY <1>0, <2>1, KeepsPop, KeepsPush, HandlerFrames
<1>6. CASE ProcessReturn
  BY <1>0, <1>6, KeepsPop DEF ProcessReturn, InLoop, InPc
<1>7. CASE CleanEnter
  <2>1. stack # <<>> /\ Head(stack).pc = "clean"
        /\ stack' \in {Tail(stack), <<Cleaning(FALSE)>> \o Tail(stack)}
    BY <1>7 DEF CleanEnter, InPc
  <2>2. Cleaning(FALSE) \in Plain
    BY FrameKinds
  <2>3. Keeps(Tail(stack), stack) /\ Tail(stack) \in Seq(Frame)
    BY <1>0, <2>1, KeepsPop
  <2>4. Keeps(<<Cleaning(FALSE)>> \o Tail(stack), stack)
    BY <2>2, <2>3, KeepsPush
  <2> QED
    BY <2>1, <2>3, <2>4
<1>8. CASE CleanCall
  <2> DEFINE b == Head(stack).called \/ Head(queue) \notin Silent
             c == <<Cleaning(b)>>
  <2>1. stack # <<>> /\ Head(stack).pc = "cleaning"
        /\ stack' = Call(Head(queue)) \o c \o Tail(stack)
    BY <1>8 DEF CleanCall, InPc
  <2>2. Keeps(Tail(stack), stack) /\ Tail(stack) \in Seq(Frame) /\ Head(stack) \in Frame
    BY <1>0, <2>1, KeepsPop
  <2>3. b \in BOOLEAN
    BY <2>2, FrameKinds
  <2> HIDE DEF b
  <2>4. Cleaning(b) \in Plain /\ c \in Seq(Frame)
    BY <2>3, FrameKinds DEF Plain, Frames
  <2>5. Keeps(c \o Tail(stack), stack) /\ c \o Tail(stack) \in Seq(Frame)
    BY <2>2, <2>4, KeepsPush DEF Keeps
  <2>6. Keeps(Call(Head(queue)) \o (c \o Tail(stack)), stack)
    BY <2>5, KeepsCall
  <2>7. Call(Head(queue)) \in Seq(Frame)
    BY FrameKinds DEF Call, Plain, Frames
  <2>8. Call(Head(queue)) \o (c \o Tail(stack)) = Call(Head(queue)) \o c \o Tail(stack)
    BY <2>2, <2>4, <2>7, ConcatAssociative
  <2> QED
    BY <2>1, <2>6, <2>8
<1>9. CASE CleanReturn
  <2>1. stack # <<>> /\ Head(stack).pc = "cleaning"
        /\ stack' = (IF Head(stack).called THEN <<>> ELSE <<Callback>>) \o Tail(stack)
    BY <1>9 DEF CleanReturn, InPc
  <2>2. Keeps(Tail(stack), stack) /\ Tail(stack) \in Seq(Frame)
    BY <1>0, <2>1, KeepsPop
  <2>3. <<>> \o Tail(stack) = Tail(stack)
    BY <2>2, ConcatEmptySeq
  <2> QED
    BY <2>1, <2>2, <2>3, KeepsPush, FrameKinds
<1>10. CASE \E o \in Ops : ScheduleRefuse(o)
  <2>1. stack' = <<At("clean")>> \o stack
    BY <1>10 DEF ScheduleRefuse
  <2> QED
    BY <1>0, <2>1, KeepsPush, HandlerFrames
<1> QED
  BY <1>1, <1>2, <1>3, <1>4, <1>5, <1>6, <1>7, <1>8, <1>9, <1>10 DEF Calm

LEMMA CalmType ==
  ASSUME TypeOK, Calm
  PROVE  TypeOK'
<1>0. queue \in Seq(Ops) /\ stack \in Seq(Frame) /\ issued \in Seq(Ops)
      /\ answers \in Seq(Answer)
  BY TypeParts
<1>1. DataOK' /\ stack' \in Seq(Frame)
  BY CalmData, CalmStack DEF Keeps
<1>2. queue' \in Seq(Ops) /\ issued' \in Seq(Ops) /\ answers' \in Seq(Answer)
  <2>1. CASE SetRetry \/ NewTurn \/ JsReturn \/ JsThrow \/ JsCatch \/ DeadCallback
    BY <1>0, <2>1 DEF SetRetry, NewTurn, JsReturn, JsThrow, JsCatch, DeadCallback, rest, history
  <2>2. CASE ProcessClean \/ ProcessReturn \/ CleanReturn
    BY <1>0, <2>2 DEF ProcessClean, ProcessReturn, CleanReturn, history
  <2>3. CASE CleanEnter
    <3>1. <<>> \in Seq(Ops)
      OBVIOUS
    <3> QED
      BY <1>0, <2>3, <3>1 DEF CleanEnter, history
  <2>4. CASE CleanCall
    <3>1. queue # <<>> /\ queue' = Tail(queue) /\ Tell(Head(queue), "refused")
          /\ issued' = issued
      BY <2>4 DEF CleanCall
    <3>2. Tail(queue) \in Seq(Ops) /\ Head(queue) \in Ops
      BY <1>0, <3>1, QueueTail
    <3>3. answers' \in Seq(Answer)
      BY <1>0, <3>1, <3>2, TellType DEF Says
    <3> QED
      BY <1>0, <3>1, <3>2, <3>3
  <2>5. CASE \E o \in Ops : ScheduleRefuse(o) \/ ScheduleQueue(o)
    <3>1. PICK o \in Ops : ScheduleRefuse(o) \/ ScheduleQueue(o)
      BY <2>5
    <3>2. queue' = Append(queue, o) /\ issued' = Append(issued, o) /\ answers' = answers
      BY <3>1 DEF ScheduleRefuse, ScheduleQueue, Enter
    <3> QED
      BY <1>0, <3>2, AppendProperties
  <2> QED
    BY <2>1, <2>2, <2>3, <2>4, <2>5 DEF Calm
<1> QED
  BY <1>1, <1>2, TypeParts

-----------------------------------------------------------------------------
\* The lock, and how a backup is finished.

\* Work is under way only while the backup is locked, and so is a handler that
\* will unlock it; there is one such handler at a time, and none with the work.
Locks ==
  /\ working # "idle" => inited /\ locked /\ ~finished
  /\ (current = NoOp) <=> (working = "idle")
  /\ inited \/ finished => creating = "over"
  /\ creating # "over" => locked
  /\ Has(stack, Ending) => locked /\ working = "idle" /\ creating = "over"
  /\ Alone(stack, Ending)
  /\ Has(stack, Loops) => working # "idle"

\* Whoever finishes the backup is alone in doing so, and has not let go of the
\* database yet.
Releasing ==
  /\ Alone(stack, Finishers)
  /\ Has(stack, Finishers) => released = 0 /\ ~collected /\ creating = "over"
  /\ Has(stack, Creators) => ~inited /\ ~finished
  /\ Has(stack, Releasers) => finished
  /\ finished /\ ~Has(stack, Finishers) => released = 1 /\ handle = "none" /\ ~other
  /\ ~finished => released = 0
  /\ collected => finished /\ ~Has(stack, Finishers)
  /\ creating \in {"new", "scheduled", "begun"} => handle = "none" /\ ~other /\ status = "ok"

Core == TypeOK /\ Locks /\ Releasing

LEMMA CalmCore ==
  ASSUME Core, Calm
  PROVE  Core'
<1>1. TypeOK' /\ Keeps(stack', stack) /\ UNCHANGED <<fields, outcome, sqlite, work, object>>
  BY CalmType, CalmStack, CalmData DEF Core
<1>2. Locks'
  BY <1>1 DEF Core, Locks, Keeps, fields, work, object
<1>3. Releasing'
  BY <1>1 DEF Core, Releasing, Keeps, fields, sqlite, object
<1> QED
  BY <1>1, <1>2, <1>3 DEF Core

LEMMA InitCore ==
  ASSUME Init
  PROVE  Core
<1>1. /\ stack = <<At("js")>> \o <<>> /\ stack \in Seq(Frame)
      /\ \A P : Has(stack, P) <=> At("js") \in P
      /\ \A P : Alone(stack, P)
  <2>1. At("js") \in Frame
    BY HandlerFrames DEF Plain, Frames
  <2>2. stack = <<At("js")>> \o <<>>
    BY <2>1, FewFrames DEF Init
  <2> QED
    BY <2>1, <2>2, EmptyStack, PushFrame
<1>2. /\ At("js") \notin Ending /\ At("js") \notin Finishers /\ At("js") \notin Creators
      /\ At("js") \notin Releasers /\ At("js") \notin Loops
  BY HandlerFrames, FrameKinds DEF Plain, Frames
<1>3. TypeOK
  <2>1. <<>> \in Seq(Ops) /\ <<>> \in Seq([op : Ops, says : Says])
    OBVIOUS
  <2>2. retry \in SUBSET Statuses /\ tolerated \in [Ops -> SUBSET Statuses]
    BY DEF Init, DefaultRetry, Statuses
  <2> QED
    BY <1>1, <2>1, <2>2 DEF Init, TypeOK, Statuses
<1>4. Locks
  BY <1>1, <1>2 DEF Init, Locks
<1>5. Releasing
  BY <1>1, <1>2 DEF Init, Releasing
<1> QED
  BY <1>3, <1>4, <1>5 DEF Core

\* What Core says of the sequences, and the frame on top.
LEMMA CoreTypes ==
  ASSUME Core
  PROVE  /\ queue \in Seq(Ops) /\ stack \in Seq(Frame) /\ issued \in Seq(Ops)
         /\ answers \in Seq(Answer) /\ DataOK /\ Keeps(stack, stack)
         /\ Locks /\ Releasing /\ TypeOK
  BY TypeParts, KeepsSame DEF Core

LEMMA CreateCore ==
  ASSUME Core, Construct \/ ConstructRejected \/ CreateBegin \/ WorkInitialize
  PROVE  Core'
<1>0. /\ queue \in Seq(Ops) /\ stack \in Seq(Frame) /\ issued \in Seq(Ops)
      /\ answers \in Seq(Answer) /\ DataOK /\ Keeps(stack, stack)
      /\ Locks /\ Releasing
  BY CoreTypes
<1>1. UNCHANGED <<queue, issued, answers>>
  BY DEF Construct, ConstructRejected, CreateBegin, WorkInitialize, history
<1>2. Keeps(stack', stack)
  <2>1. CASE ConstructRejected
    BY <1>0, <2>1, FrameKinds, KeepsPush DEF ConstructRejected
  <2> QED
    BY <1>0, <2>1 DEF Construct, CreateBegin, WorkInitialize, thread
<1>3. DataOK'
  <2>1. CASE Construct \/ CreateBegin
    BY <1>0, <2>1 DEF DataOK, Construct, CreateBegin, fields, outcome, sqlite, retries, work,
       thread
  <2>2. CASE ConstructRejected
    <3>1. failed' \in BOOLEAN /\ finished' \in BOOLEAN /\ released' \in Nat
      BY <1>0, <2>2 DEF DataOK, ConstructRejected, Settle
    <3> QED
      BY <1>0, <2>2, <3>1 DEF DataOK, ConstructRejected, sqlite, retries, work
  <2>3. CASE WorkInitialize
    <3>1. other' \in BOOLEAN /\ handle' \in {"none", "live"} /\ status' \in Statuses
      BY <1>0, <2>3 DEF DataOK, WorkInitialize, Statuses
    <3> QED
      BY <1>0, <2>3, <3>1 DEF DataOK, WorkInitialize, fields, outcome, retries, work, thread
  <2> QED
    BY <2>1, <2>2, <2>3
<1>4. TypeOK'
  BY <1>0, <1>1, <1>2, <1>3, TypeParts DEF Keeps
<1>5. Locks' /\ Releasing'
  <2>1. CASE Construct \/ CreateBegin
    <3>1. /\ creating \in {"new", "scheduled"} /\ creating' \in {"scheduled", "begun"}
          /\ UNCHANGED <<inited, locked, finished, working, current, handle, other, status,
                         released, collected, stack>>
      BY <2>1 DEF Construct, CreateBegin, fields, sqlite, work, thread
    <3> QED
      BY <1>0, <3>1 DEF Locks, Releasing
  <2>2. CASE ConstructRejected
    <3>1. /\ creating = "new" /\ creating' = "over" /\ finished' = TRUE
          /\ released' = released + 1
          /\ UNCHANGED <<inited, locked, working, current, handle, other, status, collected>>
      BY <2>2 DEF ConstructRejected, Settle, sqlite, work
    <3>2. ~finished /\ ~inited /\ ~Has(stack, Finishers) /\ ~Has(stack, Ending)
          /\ released = 0 /\ ~collected /\ handle = "none" /\ ~other
          /\ ~Has(stack, Creators)
      <4>1. ~finished /\ ~inited /\ ~Has(stack, Finishers) /\ ~Has(stack, Ending)
        BY <1>0, <3>1 DEF Locks, Releasing
      <4>2. released = 0 /\ ~collected /\ handle = "none" /\ ~other
        BY <1>0, <3>1, <4>1 DEF Locks, Releasing
      <4>3. ~Has(stack, Creators)
        BY <4>1, FrameKinds, <1>0 DEF Has
      <4> QED
        BY <4>1, <4>2, <4>3
    <3>3. Locks'
      BY <1>0, <1>2, <3>1, <3>2 DEF Locks, Keeps
    <3>4. Releasing'
      BY <1>0, <1>2, <3>1, <3>2 DEF Releasing, Keeps
    <3> QED
      BY <3>3, <3>4
  <2>3. CASE WorkInitialize
    <3>1. /\ creating = "begun" /\ creating' = "ran"
          /\ UNCHANGED <<inited, locked, finished, working, current, released, collected, stack>>
      BY <2>3 DEF WorkInitialize, fields, work, thread
    <3> QED
      BY <1>0, <3>1 DEF Locks, Releasing
  <2> QED
    BY <2>1, <2>2, <2>3
<1> QED
  BY <1>4, <1>5 DEF Core

LEMMA NoFinishers ==
  ASSUME NEW s \in Seq(Frame), ~Has(s, Finishers)
  PROVE  ~Has(s, Creators) /\ ~Has(s, Releasers)
<1>1. Creators \subseteq Finishers /\ Releasers \subseteq Finishers
  BY DEF Creators, Releasers, Finishers, Frames
<1> QED
  BY <1>1 DEF Has

\* The request of the constructor ends.
LEMMA CreatedCore ==
  ASSUME Core, CreateRejected \/ AfterInitialize
  PROVE  Core'
<1>0. /\ queue \in Seq(Ops) /\ stack \in Seq(Frame) /\ issued \in Seq(Ops)
      /\ answers \in Seq(Answer) /\ DataOK /\ Locks /\ Releasing
  BY CoreTypes
<1>1. UNCHANGED <<queue, issued, answers, locked, finished, working, current, released,
                  collected, handle, other, status>>
  BY DEF CreateRejected, AfterInitialize, history, fields, sqlite, work
<1>2. creating \in {"scheduled", "ran"} /\ creating' = "over"
      /\ ~inited /\ ~finished /\ ~collected
      /\ ~Has(stack, Ending) /\ ~Has(stack, Finishers) /\ ~Has(stack, Creators)
      /\ ~Has(stack, Releasers) /\ ~Has(stack, Loops)
  <2>1. creating \in {"scheduled", "ran"} /\ creating' = "over"
    BY DEF CreateRejected, AfterInitialize
  <2>2. ~inited /\ ~finished /\ ~Has(stack, Ending) /\ ~Has(stack, Finishers)
    BY <1>0, <2>1 DEF Locks, Releasing
  <2>3. ~Has(stack, Creators) /\ ~Has(stack, Releasers)
    BY <1>0, <2>2, NoFinishers
  <2>4. ~Has(stack, Loops) /\ ~collected
    BY <1>0, <2>2 DEF Locks, Releasing
  <2> QED
    BY <2>1, <2>2, <2>3, <2>4
<1>3. CASE CreateRejected
  <2> DEFINE f == At("reject")
             t == <<f>> \o stack
  <2>1. stack' = <<Callback>> \o t /\ inited' = inited
    <3>1. Callback \in Frame /\ f \in Frame
      BY FrameKinds, HandlerFrames DEF Plain, Frames
    <3>2. stack' = <<Callback, f>> \o stack /\ inited' = inited
      BY <1>3 DEF CreateRejected, fields
    <3> QED
      BY <1>0, <3>1, <3>2, PushTwo
  <2>2. f \in Frame /\ f \notin Ending /\ f \in Finishers /\ f \in Creators
        /\ f \notin Releasers /\ f \notin Loops
    <3>1. f \in Frame /\ f.pc = "reject"
      BY HandlerFrames
    <3> QED
      BY <3>1, FrameKinds
  <2> HIDE DEF f
  <2>3. /\ t \in Seq(Frame) /\ ~Has(t, Ending) /\ Alone(t, Ending) /\ Has(t, Finishers)
        /\ Alone(t, Finishers) /\ Has(t, Creators) /\ ~Has(t, Releasers) /\ ~Has(t, Loops)
    BY <1>0, <1>2, <2>2, PushFrame DEF Locks, Releasing
  <2>4. Keeps(stack', t)
    <3>1. Keeps(t, t)
      BY <2>3, KeepsSame
    <3> QED
      BY <2>1, <2>3, <3>1, FrameKinds, KeepsPush
  <2> HIDE DEF t
  <2>5. /\ stack' \in Seq(Frame) /\ ~Has(stack', Ending) /\ Alone(stack', Ending)
        /\ Has(stack', Finishers) /\ Alone(stack', Finishers)
        /\ ~Has(stack', Releasers) /\ ~Has(stack', Loops)
    BY <2>3, <2>4 DEF Keeps
  <2>6. DataOK'
    BY <1>0, <1>3 DEF DataOK, CreateRejected, fields, outcome, sqlite, retries, work
  <2>7. TypeOK'
    BY <1>0, <1>1, <2>5, <2>6, TypeParts
  <2>8. Locks'
    BY <1>0, <1>1, <1>2, <2>1, <2>5 DEF Locks
  <2>9. Releasing'
    BY <1>0, <1>1, <1>2, <2>1, <2>5 DEF Releasing
  <2> QED
    BY <2>7, <2>8, <2>9 DEF Core
<1>4. CASE AfterInitialize
  <2> DEFINE f == At(IF status = "ok" THEN "end" ELSE "failed")
             t == <<f>> \o <<>>
  <2>1. stack' = <<At("js")>> \o t /\ (inited' <=> status = "ok") /\ creating = "ran"
        /\ stack = <<>>
    <3>1. At("js") \in Frame /\ f \in Frame
      BY HandlerFrames DEF Plain, Frames
    <3>2. stack' = <<At("js"), f>>
      BY <1>4 DEF AfterInitialize
    <3>3. stack' = <<At("js")>> \o t
      BY <3>1, <3>2, FewFrames
    <3>4. (inited' <=> status = "ok") /\ creating = "ran" /\ stack = <<>>
      BY <1>4 DEF AfterInitialize, EventLoop
    <3> QED
      BY <3>3, <3>4
  <2>2. /\ f \in Frame /\ f \in Ending /\ f \notin Releasers /\ f \notin Loops
        /\ f \in Finishers <=> status # "ok"
        /\ f \in Creators <=> status # "ok"
    <3>1. f \in Frame /\ f.pc = IF status = "ok" THEN "end" ELSE "failed"
      BY HandlerFrames
    <3> QED
      BY <3>1, FrameKinds
  <2> HIDE DEF f
  <2>3. /\ t \in Seq(Frame) /\ Has(t, Ending) /\ Alone(t, Ending) /\ Alone(t, Finishers)
        /\ Has(t, Finishers) <=> status # "ok"
        /\ Has(t, Creators) <=> status # "ok"
        /\ ~Has(t, Releasers) /\ ~Has(t, Loops)
    BY <2>2, EmptyStack, PushFrame
  <2>4. Keeps(stack', t)
    <3>1. Keeps(t, t)
      BY <2>3, KeepsSame
    <3> QED
      BY <2>1, <2>3, <3>1, HandlerFrames, KeepsPush
  <2> HIDE DEF t
  <2>5. /\ stack' \in Seq(Frame) /\ Alone(stack', Ending)
        /\ Has(stack', Finishers) <=> status # "ok"
        /\ Has(stack', Creators) => status # "ok"
        /\ Alone(stack', Finishers)
        /\ ~Has(stack', Releasers) /\ ~Has(stack', Loops)
    BY <2>3, <2>4 DEF Keeps
  <2>6. DataOK'
    <3>1. inited' \in BOOLEAN
      BY <1>4 DEF AfterInitialize
    <3> QED
      BY <1>0, <1>1, <1>4, <3>1 DEF DataOK, AfterInitialize, outcome, sqlite, retries, work
  <2>7. TypeOK'
    BY <1>0, <1>1, <2>5, <2>6, TypeParts
  <2>8. locked /\ working = "idle"
    BY <1>0, <1>2 DEF Locks
  <2>9. Locks'
    BY <1>0, <1>1, <1>2, <2>5, <2>8 DEF Locks
  <2>10. Releasing'
    BY <1>0, <1>1, <1>2, <2>1, <2>5 DEF Releasing
  <2> QED
    BY <2>7, <2>9, <2>10 DEF Core
<1> QED
  BY <1>3, <1>4

\* An operation begins.
LEMMA RunCore ==
  ASSUME Core, ProcessRun \/ \E o \in Ops : ScheduleRun(o)
  PROVE  Core'
<1>0. /\ queue \in Seq(Ops) /\ stack \in Seq(Frame) /\ issued \in Seq(Ops)
      /\ answers \in Seq(Answer) /\ DataOK /\ Locks /\ Releasing /\ Keeps(stack, stack)
  BY CoreTypes
<1>1. PICK o \in Ops : Run(o) /\ (ProcessRun \/ ScheduleRun(o))
  <2>1. CASE ProcessRun
    BY <1>0, <2>1, QueueTail DEF ProcessRun
  <2>2. CASE \E o \in Ops : ScheduleRun(o)
    BY <2>2 DEF ScheduleRun
  <2> QED
    BY <2>1, <2>2
<1>2. locked' = TRUE /\ current' = o /\ working' = "begun" /\ o # NoOp
      /\ UNCHANGED <<inited, finished, released, collected, creating, handle, other, status>>
  BY <1>1, OpsAssumption DEF Run, ProcessRun, ScheduleRun, Enter, sqlite, object
<1>3. inited /\ ~locked /\ ~finished
  <2>1. CASE ProcessRun
    <3>1. inited /\ ~locked
      BY <2>1 DEF ProcessRun
    <3>2. InPc("loop") => FALSE
      <4>1. ASSUME InPc("loop")
            PROVE  Has(stack, Loops)
        BY <1>0, <4>1, PopFrame, FrameKinds DEF InPc
      <4> QED
        BY <1>0, <3>1, <4>1 DEF Locks
    <3> QED
      BY <2>1, <3>1, <3>2 DEF ProcessRun, InLoop
  <2>2. CASE ScheduleRun(o)
    BY <2>2 DEF ScheduleRun, MustQueue
  <2> QED
    BY <1>1, <2>1, <2>2
<1>4. ~Has(stack, Ending) /\ working = "idle"
  BY <1>0, <1>3 DEF Locks
<1>5. /\ stack' \in Seq(Frame) /\ ~Has(stack', Ending) /\ Alone(stack', Ending)
      /\ Has(stack', Finishers) <=> Has(stack, Finishers)
      /\ Alone(stack', Finishers)
      /\ Has(stack', Creators) => Has(stack, Creators)
      /\ Has(stack', Releasers) => Has(stack, Releasers)
  <2>1. CASE ScheduleRun(o)
    BY <1>0, <1>4, <2>1 DEF ScheduleRun, Locks, Releasing
  <2>2. CASE ProcessRun
    <3>1. stack # <<>> /\ Head(stack).pc \in {"process", "loop"}
          /\ stack' = <<At("loop")>> \o Tail(stack)
      BY <2>2 DEF ProcessRun, InLoop, InPc
    <3>2. Keeps(Tail(stack), stack) /\ Tail(stack) \in Seq(Frame)
      BY <1>0, <3>1, KeepsPop
    <3>3. /\ At("loop") \in Frame /\ At("loop") \notin Ending /\ At("loop") \notin Finishers
          /\ At("loop") \notin Creators /\ At("loop") \notin Releasers
      BY HandlerFrames, FrameKinds
    <3> DEFINE f == At("loop")
               r == Tail(stack)
    <3>4. f \in Frame /\ r \in Seq(Frame) /\ stack' = <<f>> \o r
      BY <3>1, <3>2, <3>3
    <3> HIDE DEF f, r
    <3>5. /\ stack' \in Seq(Frame)
          /\ \A P : f \notin P => (Has(stack', P) <=> Has(r, P))
          /\ \A P : f \notin P => (Alone(stack', P) <=> Alone(r, P))
      BY <3>4, PushFrame
    <3> QED
      BY <1>0, <1>4, <3>2, <3>3, <3>5 DEF Keeps, Locks, Releasing, f, r
  <2> QED
    BY <1>1, <2>1, <2>2
<1>6. TypeOK'
  <2>1. queue' \in Seq(Ops) /\ issued' \in Seq(Ops) /\ answers' = answers
    <3>1. CASE ScheduleRun(o)
      <4>1. queue' = queue /\ issued' = Append(issued, o) /\ answers' = answers
        BY <3>1 DEF ScheduleRun, Enter
      <4> QED
        BY <1>0, <4>1, AppendProperties
    <3>2. CASE ProcessRun
      BY <1>0, <3>2, QueueTail DEF ProcessRun, history
    <3> QED
      BY <1>1, <3>1, <3>2
  <2>2. DataOK'
    <3>1. tolerated' \in [Ops -> SUBSET Statuses]
      BY <1>0, <1>1 DEF DataOK, ScheduleRun, Enter, ProcessRun, retries
    <3>2. UNCHANGED <<completed, failed, raised, threw, manual, retry>>
      BY <1>1 DEF ScheduleRun, Enter, ProcessRun, outcome, retries
    <3> QED
      BY <1>0, <1>2, <3>1, <3>2 DEF DataOK
  <2> QED
    BY <1>0, <1>5, <2>1, <2>2, TypeParts
<1>7. Locks'
  BY <1>0, <1>2, <1>3, <1>5 DEF Locks
<1>8. Releasing'
  BY <1>0, <1>2, <1>5 DEF Releasing
<1> QED
  BY <1>6, <1>7, <1>8 DEF Core

\* The thread pool runs it.
LEMMA WorkCore ==
  ASSUME Core, NEW o \in Ops, Work(o)
  PROVE  Core'
<1>0. /\ queue \in Seq(Ops) /\ stack \in Seq(Frame) /\ issued \in Seq(Ops)
      /\ answers \in Seq(Answer) /\ DataOK /\ Locks /\ Releasing
  BY CoreTypes
<1>1. Working(o) /\ (UNCHANGED <<handle, other>> \/ (handle' = "none" /\ other' = FALSE))
  BY DEF Work, WorkStep, WorkFinish, FinishSqlite
<1>2. /\ working = "begun" /\ working' = "ran"
      /\ UNCHANGED <<inited, locked, finished, completed, failed, queue, retry, tolerated,
                     manual, current, released, creating, collected, stack, raised, threw,
                     issued, answers>>
  BY <1>1 DEF Working, fields, outcome, retries, object, thread, history
<1>3. status' \in Statuses
  <2>1. StepAnswers \subseteq Statuses
    BY <1>0 DEF StepAnswers, DataOK
  <2> QED
    BY <1>0, <2>1 DEF Work, WorkStep, WorkFinish, DataOK
<1>4. DataOK'
  BY <1>0, <1>1, <1>2, <1>3 DEF DataOK
<1>5. TypeOK'
  BY <1>0, <1>2, <1>4, TypeParts
<1>6. Locks'
  BY <1>0, <1>2 DEF Locks
<1>7. creating = "over" /\ ~finished
  BY <1>0, <1>2 DEF Locks
<1>8. Releasing'
  BY <1>0, <1>2, <1>7 DEF Releasing
<1> QED
  BY <1>5, <1>6, <1>8 DEF Core

\* BACKUP_END.
LEMMA EndCore ==
  ASSUME Core, End
  PROVE  Core'
<1>0. /\ queue \in Seq(Ops) /\ stack \in Seq(Frame) /\ issued \in Seq(Ops)
      /\ answers \in Seq(Answer) /\ DataOK /\ Locks /\ Releasing
  BY CoreTypes
<1>1. /\ stack # <<>> /\ Head(stack).pc \in {"end", "errorEnd"}
      /\ locked' = FALSE /\ stack' = <<At("process")>> \o Tail(stack)
      /\ UNCHANGED <<inited, finished, outcome, sqlite, queue, retries, work, object, raised,
                     threw, history>>
  BY DEF End, InPc
<1>2. /\ Head(stack) \in Frame /\ Head(stack) \in Ending
      /\ Keeps(Tail(stack), stack) /\ Tail(stack) \in Seq(Frame)
  BY <1>0, <1>1, KeepsPop, FrameKinds
<1>3. Keeps(stack', stack)
  BY <1>1, <1>2, HandlerFrames, KeepsPush
<1>4. Has(stack, Ending) /\ ~Has(Tail(stack), Ending)
  BY <1>0, <1>1, <1>2, PopFrame DEF Locks
<1>5. ~Has(stack', Ending)
  <2>1. At("process") \in Frame /\ At("process") \notin Ending
    BY HandlerFrames, FrameKinds DEF Plain, Frames
  <2> QED
    BY <1>1, <1>2, <1>4, <2>1, PushFrame
<1>6. DataOK'
  BY <1>0, <1>1 DEF DataOK, outcome, sqlite, retries, work, object
<1>7. TypeOK'
  BY <1>0, <1>1, <1>3, <1>6, TypeParts DEF Keeps, history
<1>8. Locks'
  <2>1. working = "idle" /\ creating = "over"
    BY <1>0, <1>4 DEF Locks
  <2> QED
    BY <1>0, <1>1, <1>3, <1>5, <2>1 DEF Locks, Keeps, work, object
<1>9. Releasing'
  BY <1>0, <1>1, <1>3 DEF Releasing, Keeps, sqlite, object
<1> QED
  BY <1>7, <1>8, <1>9 DEF Core

\* A stack that holds one frame and calls over it.
LEMMA OnlyFrame ==
  ASSUME NEW f \in Frame
  PROVE  LET t == <<f>> \o <<>>
         IN  /\ t \in Seq(Frame) /\ Keeps(t, t)
             /\ \A P : (Has(t, P) <=> f \in P) /\ Alone(t, P)
<1> DEFINE t == <<f>> \o <<>>
<1>1. /\ t \in Seq(Frame) /\ \A P : (Has(t, P) <=> f \in P) /\ Alone(t, P)
  BY EmptyStack, PushFrame
<1> QED
  BY <1>1, KeepsSame

\* The work of an operation has ended.
LEMMA AfterCore ==
  ASSUME Core, NEW o \in Ops, After(o)
  PROVE  Core'
<1>0. /\ queue \in Seq(Ops) /\ stack \in Seq(Frame) /\ issued \in Seq(Ops)
      /\ answers \in Seq(Answer) /\ DataOK /\ Locks /\ Releasing
  BY CoreTypes
<1>1. /\ Ended(o) /\ stack = <<>> /\ working = "ran"
      /\ current' = NoOp /\ working' = "idle"
      /\ UNCHANGED <<inited, locked, sqlite, queue, retries, object, raised, threw, issued>>
  BY DEF After, AfterStep, AfterFinish, Ended, EventLoop
<1>2. inited /\ locked /\ ~finished /\ creating = "over"
  BY <1>0, <1>1 DEF Locks
<1>3. released = 0 /\ ~collected
  BY <1>0, <1>2 DEF Releasing
<1>4. CASE AfterStep(o)
  <2>1. PICK p \in {"end", "errorEnd"} : Keeps(stack', <<At(p)>> \o <<>>)
    <3>1. CASE stack' = Call(o) \o <<At("end")>>
      <4>1. At("end") \in Frame
        BY HandlerFrames
      <4>2. /\ <<At("end")>> = <<At("end")>> \o <<>>
            /\ Keeps(<<At("end")>> \o <<>>, <<At("end")>> \o <<>>)
            /\ <<At("end")>> \o <<>> \in Seq(Frame)
        BY <4>1, FewFrames, OnlyFrame
      <4>3. Keeps(Call(o) \o (<<At("end")>> \o <<>>), <<At("end")>> \o <<>>)
        BY <4>2, KeepsCall
      <4> QED
        BY <3>1, <4>2, <4>3
    <3>2. CASE stack' = <<At("js"), At("errorEnd")>>
      <4>1. At("errorEnd") \in Frame /\ At("js") \in Plain /\ At("js") \in Frame
        BY HandlerFrames DEF Plain, Frames
      <4>2. /\ stack' = <<At("js")>> \o (<<At("errorEnd")>> \o <<>>)
            /\ Keeps(<<At("errorEnd")>> \o <<>>, <<At("errorEnd")>> \o <<>>)
            /\ <<At("errorEnd")>> \o <<>> \in Seq(Frame)
        BY <3>2, <4>1, FewFrames, OnlyFrame
      <4> QED
        BY <4>1, <4>2, KeepsPush
    <3> QED
      BY <1>4, <3>1, <3>2 DEF AfterStep
  <2> DEFINE f == At(p)
             t == <<f>> \o <<>>
  <2>2. /\ f \in Frame /\ f \in Ending /\ f \notin Finishers /\ f \notin Creators
        /\ f \notin Releasers /\ f \notin Loops
    <3>1. f \in Frame /\ f.pc \in {"end", "errorEnd"}
      BY HandlerFrames
    <3> QED
      BY <3>1, FrameKinds
  <2> HIDE DEF f
  <2>3. \A P : (Has(t, P) <=> f \in P) /\ Alone(t, P)
    BY <2>2, OnlyFrame
  <2>4. Keeps(stack', t)
    BY <2>1 DEF f
  <2> HIDE DEF t
  <2>5. /\ stack' \in Seq(Frame) /\ Alone(stack', Ending)
        /\ Alone(stack', Finishers) /\ ~Has(stack', Finishers)
        /\ ~Has(stack', Creators) /\ ~Has(stack', Releasers) /\ ~Has(stack', Loops)
    BY <2>2, <2>3, <2>4 DEF Keeps
  <2>6. finished' = finished
    BY <1>4 DEF AfterStep
  <2>7. DataOK'
    <3>1. completed' \in BOOLEAN /\ failed' \in BOOLEAN
      BY <1>0, <1>4 DEF AfterStep, Judge, DataOK
    <3> QED
      BY <1>0, <1>1, <2>6, <3>1 DEF DataOK, sqlite, retries, object
  <2>8. answers' \in Seq(Answer)
    BY <1>0, <1>4, TellType DEF AfterStep, Says
  <2>9. TypeOK'
    BY <1>0, <1>1, <2>5, <2>7, <2>8, TypeParts
  <2>10. Locks'
    BY <1>0, <1>1, <1>2, <2>5, <2>6 DEF Locks, object
  <2>11. Releasing'
    BY <1>0, <1>1, <1>2, <1>3, <2>5, <2>6 DEF Releasing, sqlite, object
  <2> QED
    BY <2>9, <2>10, <2>11 DEF Core
<1>5. CASE AfterFinish(o)
  <2> DEFINE f == Release(o)
             t == <<f>> \o <<>>
  <2>1. f \in Frame /\ f.pc = "release" /\ f.op # NoOp
    BY FrameKinds, OpsAssumption
  <2>2. f \in Ending /\ f \in Finishers /\ f \notin Creators /\ f \in Releasers /\ f \notin Loops
    BY <2>1, FrameKinds
  <2>3. stack' = <<At("clean")>> \o t
    <3>1. stack' = <<At("clean"), f>> /\ At("clean") \in Frame
      BY <1>5, HandlerFrames DEF AfterFinish, Plain, Frames
    <3> QED
      BY <2>1, <3>1, FewFrames
  <2> HIDE DEF f
  <2>4. t \in Seq(Frame) /\ Keeps(t, t) /\ \A P : (Has(t, P) <=> f \in P) /\ Alone(t, P)
    BY <2>1, OnlyFrame
  <2> HIDE DEF t
  <2>5. Keeps(stack', t)
    BY <2>3, <2>4, HandlerFrames, KeepsPush
  <2>6. /\ stack' \in Seq(Frame) /\ Alone(stack', Ending) /\ Alone(stack', Finishers)
        /\ Has(stack', Finishers) /\ ~Has(stack', Creators) /\ ~Has(stack', Loops)
    BY <2>2, <2>4, <2>5 DEF Keeps
  <2>7. finished' = TRUE /\ failed' = (failed \/ ~completed) /\ UNCHANGED <<completed, answers>>
    BY <1>5 DEF AfterFinish, Settle
  <2>8. DataOK'
    BY <1>0, <1>1, <2>7 DEF DataOK, sqlite, retries, object
  <2>9. TypeOK'
    BY <1>0, <1>1, <2>6, <2>7, <2>8, TypeParts
  <2>10. Locks'
    BY <1>0, <1>1, <1>2, <2>6, <2>7 DEF Locks, object
  <2>11. Releasing'
    BY <1>0, <1>1, <1>2, <1>3, <2>6, <2>7 DEF Releasing, sqlite, object
  <2> QED
    BY <2>9, <2>10, <2>11 DEF Core
<1> QED
  BY <1>4, <1>5 DEF After

\* FinishAll on behalf of the initialisation.
LEMMA FinishFailedCore ==
  ASSUME Core, FinishFailed
  PROVE  Core'
<1>0. /\ queue \in Seq(Ops) /\ stack \in Seq(Frame) /\ issued \in Seq(Ops)
      /\ answers \in Seq(Answer) /\ DataOK /\ Locks /\ Releasing
  BY CoreTypes
<1> DEFINE h == Head(stack)
           r == Tail(stack)
           e == IF h.pc = "failed" THEN <<At("errorEnd")>> \o r ELSE r
           g == Release(NoOp)
           t == <<g>> \o e
<1>1. /\ stack # <<>> /\ h.pc \in {"failed", "reject"}
      /\ stack' = <<At("clean"), g>>
                  \o (IF h.pc = "failed" THEN <<At("errorEnd")>> ELSE <<>>) \o r
      /\ finished' = TRUE /\ failed' = (failed \/ ~completed)
      /\ UNCHANGED <<inited, locked, completed, sqlite, queue, retries, work, object, raised,
                     threw, history>>
  BY DEF FinishFailed, InPc, Settle
<1>2. /\ h \in Frame /\ r \in Seq(Frame)
      /\ \A P : Has(stack, P) <=> h \in P \/ Has(r, P)
      /\ \A P : Alone(stack, P) <=> Alone(r, P) /\ ~(h \in P /\ Has(r, P))
  BY <1>0, <1>1, PopFrame
<1>3. /\ h \in Finishers /\ h \in Creators /\ h \notin Releasers /\ h \notin Loops
      /\ h \in Ending <=> h.pc = "failed"
  BY <1>1, <1>2, FrameKinds
<1>4. /\ g \in Frame /\ g \in Finishers /\ g \in Releasers /\ g \notin Ending
      /\ g \notin Creators /\ g \notin Loops
  <2>1. g \in Frame /\ g.pc = "release" /\ g.op = NoOp
    BY FrameKinds
  <2> QED
    BY <2>1, FrameKinds
<1>5. stack' = <<At("clean")>> \o t /\ e \in Seq(Frame)
  <2>1. At("clean") \in Frame /\ At("errorEnd") \in Frame
    BY HandlerFrames DEF Plain, Frames
  <2>2. CASE h.pc = "failed"
    <3>1. stack' = <<At("clean"), g>> \o <<At("errorEnd")>> \o r
      BY <1>1, <2>2
    <3>2. e = <<At("errorEnd")>> \o r /\ e \in Seq(Frame)
      BY <1>2, <2>1, <2>2, PushFrame
    <3>3. <<At("clean"), g>> \o <<At("errorEnd")>> \o r
            = <<At("clean")>> \o (<<g>> \o (<<At("errorEnd")>> \o r))
      <4> DEFINE c == At("clean")
                 d == At("errorEnd")
      <4>1. c \in Frame /\ d \in Frame /\ g \in Frame /\ r \in Seq(Frame)
        BY <1>2, <1>4, <2>1
      <4> HIDE DEF c, d, g, r
      <4>2. <<c, g>> \o <<d>> \o r = <<c>> \o (<<g>> \o (<<d>> \o r))
        <5>1. <<c, g>> \in Seq(Frame) /\ <<d>> \in Seq(Frame) /\ <<d>> \o r \in Seq(Frame)
          BY <4>1, ConcatProperties
        <5>2. (<<c, g>> \o <<d>>) \o r = <<c, g>> \o (<<d>> \o r)
          BY <4>1, <5>1, ConcatAssociative
        <5>3. <<c, g>> \o (<<d>> \o r) = <<c>> \o (<<g>> \o (<<d>> \o r))
          <6> DEFINE k == <<d>> \o r
          <6>1. k \in Seq(Frame)
            BY <5>1
          <6> HIDE DEF k
          <6>2. <<c, g>> \o k = <<c>> \o (<<g>> \o k)
            BY <4>1, <6>1, PushTwo
          <6> QED
            BY <6>2 DEF k
        <5> QED
          BY <5>2, <5>3
      <4> QED
        BY <4>2 DEF c, d
    <3> HIDE DEF e
    <3> QED
      BY <3>1, <3>2, <3>3
  <2>3. CASE h.pc # "failed"
    <3>1. stack' = <<At("clean"), g>> \o <<>> \o r /\ e = r
      BY <1>1, <2>3
    <3>2. <<At("clean"), g>> \in Seq(Frame)
      BY <1>4, <2>1
    <3>3. <<At("clean"), g>> \o <<>> = <<At("clean"), g>>
      BY <3>2, ConcatEmptySeq
    <3>4. <<At("clean"), g>> \o r = <<At("clean")>> \o (<<g>> \o r)
      <4> HIDE DEF g, r
      <4> QED
        BY <1>2, <1>4, <2>1, PushTwo
    <3> HIDE DEF e
    <3> QED
      BY <1>2, <3>1, <3>3, <3>4
  <2> QED
    BY <2>2, <2>3
<1>6. /\ ~Has(r, Finishers) /\ ~Has(r, Creators) /\ ~Has(r, Releasers) /\ ~Has(r, Loops)
      /\ ~inited /\ ~finished /\ released = 0 /\ ~collected /\ working = "idle"
      /\ creating = "over"
  <2>1. Has(stack, Finishers) /\ Has(stack, Creators) /\ ~Has(r, Finishers)
    BY <1>0, <1>2, <1>3 DEF Releasing
  <2>2. ~inited /\ ~finished /\ released = 0 /\ ~collected /\ creating = "over"
    BY <1>0, <2>1 DEF Releasing
  <2>3. working = "idle"
    BY <1>0, <2>2 DEF Locks
  <2>4. ~Has(r, Loops)
    BY <1>0, <1>2, <2>3 DEF Locks
  <2> QED
    BY <1>2, <2>1, <2>2, <2>3, <2>4, NoFinishers
<1>7. /\ Has(e, Ending) => Has(stack, Ending)
      /\ Alone(e, Ending)
      /\ ~Has(e, Finishers) /\ Alone(e, Finishers) /\ ~Has(e, Creators) /\ ~Has(e, Loops)
  <2>1. Alone(r, Ending) /\ Alone(r, Finishers)
    BY <1>0, <1>2 DEF Locks, Releasing
  <2>2. CASE h.pc = "failed"
    <3> DEFINE d == At("errorEnd")
    <3>1. d \in Frame /\ d.pc = "errorEnd"
      BY HandlerFrames
    <3>2. /\ d \in Ending /\ d \notin Finishers /\ d \notin Creators /\ d \notin Releasers
          /\ d \notin Loops
      BY <3>1, FrameKinds
    <3>3. e = <<d>> \o r
      BY <2>2
    <3>4. ~Has(r, Ending) /\ Has(stack, Ending)
      BY <1>0, <1>2, <1>3, <2>2 DEF Locks
    <3> HIDE DEF d, e, r, h
    <3>5. /\ \A P : Has(e, P) <=> d \in P \/ Has(r, P)
          /\ \A P : Alone(e, P) <=> Alone(r, P) /\ ~(d \in P /\ Has(r, P))
      BY <1>2, <3>1, <3>3, PushFrame
    <3> QED
      BY <1>6, <2>1, <3>2, <3>4, <3>5
  <2>3. CASE h.pc # "failed"
    <3>1. e = r
      BY <2>3
    <3> QED
      BY <1>2, <1>6, <2>1, <3>1
  <2> QED
    BY <2>2, <2>3
<1> HIDE DEF g, e, r, h
<1>8. /\ t \in Seq(Frame)
      /\ \A P : Has(t, P) <=> g \in P \/ Has(e, P)
      /\ \A P : Alone(t, P) <=> Alone(e, P) /\ ~(g \in P /\ Has(e, P))
  BY <1>4, <1>5, PushFrame
<1>9. Keeps(stack', t)
  <2> HIDE DEF t
  <2>1. Keeps(t, t)
    BY <1>8, KeepsSame
  <2> QED
    BY <1>5, <1>8, <2>1, HandlerFrames, KeepsPush
<1> HIDE DEF t
<1>10. /\ stack' \in Seq(Frame)
       /\ Has(stack', Ending) => Has(stack, Ending)
       /\ Alone(stack', Ending) /\ Has(stack', Finishers) /\ Alone(stack', Finishers)
       /\ ~Has(stack', Creators) /\ ~Has(stack', Loops)
  BY <1>4, <1>7, <1>8, <1>9 DEF Keeps
<1>11. DataOK'
  BY <1>0, <1>1 DEF DataOK, sqlite, retries, work, object
<1>12. TypeOK'
  BY <1>0, <1>1, <1>10, <1>11, TypeParts DEF history
<1>13. Locks'
  BY <1>0, <1>1, <1>6, <1>10 DEF Locks, work, object
<1>14. Releasing'
  BY <1>0, <1>1, <1>6, <1>10 DEF Releasing, sqlite, object
<1> QED
  BY <1>12, <1>13, <1>14 DEF Core

\* FinishSqlite and db->Unref().
LEMMA FinishReleaseCore ==
  ASSUME Core, FinishRelease
  PROVE  Core'
<1>0. /\ queue \in Seq(Ops) /\ stack \in Seq(Frame) /\ issued \in Seq(Ops)
      /\ answers \in Seq(Answer) /\ DataOK /\ Locks /\ Releasing
  BY CoreTypes
<1> DEFINE h == Head(stack)
           r == Tail(stack)
           t == <<At("end")>> \o r
<1>1. /\ stack # <<>> /\ h.pc = "release" /\ handle' = "none" /\ other' = FALSE
      /\ released' = released + 1 /\ FinishTell(h.op)
      /\ UNCHANGED <<fields, outcome, status, queue, retries, work, creating, collected,
                     raised, threw, issued>>
  BY DEF FinishRelease, InPc, FinishSqlite
<1>2. /\ h \in Frame /\ h.op \in Ops \cup {NoOp} /\ r \in Seq(Frame)
      /\ \A P : Has(stack, P) <=> h \in P \/ Has(r, P)
      /\ \A P : Alone(stack, P) <=> Alone(r, P) /\ ~(h \in P /\ Has(r, P))
  BY <1>0, <1>1, PopFrame, FrameKinds
<1>3. /\ h \in Finishers /\ h \in Releasers /\ h \notin Creators /\ h \notin Loops
      /\ h \in Ending <=> h.op # NoOp
  BY <1>1, <1>2, FrameKinds
<1>4. /\ ~Has(r, Finishers) /\ ~Has(r, Creators) /\ ~Has(r, Releasers)
      /\ Alone(r, Finishers) /\ Alone(r, Ending)
      /\ finished /\ released = 0 /\ ~collected /\ creating = "over"
  <2>1. Has(stack, Finishers) /\ Has(stack, Releasers) /\ ~Has(r, Finishers)
    BY <1>0, <1>2, <1>3 DEF Releasing
  <2>2. finished /\ released = 0 /\ ~collected /\ creating = "over"
    BY <1>0, <2>1 DEF Releasing
  <2>3. Alone(r, Finishers) /\ Alone(r, Ending)
    BY <1>0, <1>2 DEF Locks, Releasing
  <2> QED
    BY <1>2, <2>1, <2>2, <2>3, NoFinishers
<1>5. /\ stack' \in Seq(Frame) /\ answers' \in Seq(Answer)
      /\ Has(stack', Ending) => Has(stack, Ending)
      /\ Alone(stack', Ending) /\ ~Has(stack', Finishers) /\ Alone(stack', Finishers)
      /\ Has(stack', Loops) => Has(stack, Loops)
  <2>1. CASE h.op = NoOp
    <3>1. stack' = r /\ answers' = answers
      BY <1>1, <2>1 DEF FinishTell
    <3> HIDE DEF h, r
    <3> QED
      BY <1>0, <1>2, <1>4, <3>1
  <2>2. CASE h.op # NoOp
    <3>1. h.op \in Ops /\ Tell(h.op, "ok") /\ stack' = Call(h.op) \o <<At("end")>> \o r
      BY <1>1, <1>2, <2>2 DEF FinishTell
    <3>2. answers' \in Seq(Answer)
      BY <1>0, <3>1, TellType DEF Says
    <3> DEFINE f == At("end")
    <3>3. f \in Frame /\ f \in Ending /\ f \notin Finishers /\ f \notin Loops
      BY HandlerFrames, FrameKinds
    <3> HIDE DEF f
    <3>4. /\ t \in Seq(Frame)
          /\ \A P : Has(t, P) <=> f \in P \/ Has(r, P)
          /\ \A P : Alone(t, P) <=> Alone(r, P) /\ ~(f \in P /\ Has(r, P))
      BY <1>2, <3>3, PushFrame DEF f
    <3>5. Keeps(stack', t)
      <4>1. Call(h.op) \in Seq(Frame) /\ <<At("end")>> \in Seq(Frame)
        BY FrameKinds, HandlerFrames DEF Call, Plain, Frames
      <4>2. stack' = Call(h.op) \o t
        BY <1>2, <3>1, <4>1, ConcatAssociative
      <4> HIDE DEF t
      <4>3. Keeps(t, t)
        BY <3>4, KeepsSame
      <4> QED
        BY <3>4, <4>2, <4>3, KeepsCall
    <3>6. ~Has(r, Ending) /\ Has(stack, Ending)
      BY <1>0, <1>2, <1>3, <2>2 DEF Locks
    <3> HIDE DEF t, h, r
    <3> QED
      BY <1>2, <1>4, <3>2, <3>3, <3>4, <3>5, <3>6 DEF Keeps
  <2> QED
    BY <2>1, <2>2
<1>6. ~Has(stack', Creators) /\ ~Has(stack', Releasers)
  BY <1>5, NoFinishers
<1>7. DataOK'
  <2>1. released' \in Nat /\ other' \in BOOLEAN /\ handle' \in {"none", "live"}
    <3>1. released \in Nat
      BY <1>0 DEF DataOK
    <3>2. released' \in Nat
      BY <1>1, <3>1
    <3>3. other' \in BOOLEAN
      BY <1>1
    <3>4. handle' \in {"none", "live"}
      BY <1>1
    <3> QED
      BY <3>2, <3>3, <3>4
  <2>2. UNCHANGED <<fields, outcome, status, retries, work, creating, collected, raised, threw>>
    BY <1>1
  <2> QED
    BY <1>0, <2>1, <2>2 DEF DataOK, fields, outcome, retries, work
<1>8. TypeOK'
  BY <1>0, <1>1, <1>5, <1>7, TypeParts
<1>9. Locks'
  BY <1>0, <1>1, <1>5 DEF Locks, fields, work
<1>10. Releasing'
  BY <1>0, <1>1, <1>4, <1>5, <1>6 DEF Releasing, fields
<1> QED
  BY <1>8, <1>9, <1>10 DEF Core

\* ~Backup.
LEMMA CollectCore ==
  ASSUME Core, Collect
  PROVE  Core'
<1>0. /\ queue \in Seq(Ops) /\ stack \in Seq(Frame) /\ issued \in Seq(Ops)
      /\ answers \in Seq(Answer) /\ DataOK /\ Locks /\ Releasing
  BY CoreTypes
<1>1. /\ stack = <<>> /\ creating = "over" /\ current = NoOp /\ collected' = TRUE
      /\ UNCHANGED <<inited, locked, completed, status, queue, retries, work, creating, thread,
                     history>>
      /\ \/ finished /\ UNCHANGED <<finished, failed, handle, other, released>>
         \/ /\ ~finished /\ finished' = TRUE /\ failed' = (failed \/ ~completed)
            /\ handle' = "none" /\ other' = FALSE /\ released' = released + 1
  BY DEF Collect, EventLoop, Settle, FinishSqlite
<1>2. stack' = <<>> /\ stack' \in Seq(Frame)
      /\ \A P : ~Has(stack', P) /\ Alone(stack', P) /\ ~Has(stack, P)
  <2>1. stack' = <<>>
    BY <1>1 DEF thread
  <2> QED
    BY <1>0, <1>1, <2>1, EmptyStack
<1>3. working = "idle"
  BY <1>0, <1>1 DEF Locks
<1>4. DataOK'
  <2>1. /\ released' \in Nat /\ other' \in BOOLEAN /\ handle' \in {"none", "live"}
        /\ finished' \in BOOLEAN /\ failed' \in BOOLEAN
    <3>1. /\ released \in Nat /\ other \in BOOLEAN /\ handle \in {"none", "live"}
          /\ finished \in BOOLEAN /\ failed \in BOOLEAN
      BY <1>0 DEF DataOK
    <3>2. released + 1 \in Nat /\ (failed \/ ~completed) \in BOOLEAN
      BY <3>1
    <3> QED
      BY <1>1, <3>1, <3>2
  <2> QED
    BY <1>0, <1>1, <2>1 DEF DataOK, retries, work, thread
<1>5. TypeOK'
  BY <1>0, <1>1, <1>2, <1>4, TypeParts DEF history
<1>6. Locks'
  BY <1>0, <1>1, <1>2, <1>3 DEF Locks, work
<1>7. Releasing'
  BY <1>0, <1>1, <1>2 DEF Releasing
<1> QED
  BY <1>5, <1>6, <1>7 DEF Core

LEMMA CoreNext ==
  ASSUME Core, [Next]_vars
  PROVE  Core'
<1>1. CASE Calm
  BY <1>1, CalmCore
<1>2. CASE Construct \/ ConstructRejected \/ CreateBegin \/ WorkInitialize
  BY <1>2, CreateCore
<1>3. CASE CreateRejected \/ AfterInitialize
  BY <1>3, CreatedCore
<1>4. CASE ProcessRun \/ \E o \in Ops : ScheduleRun(o)
  BY <1>4, RunCore
<1>5. CASE \E o \in Ops : Work(o)
  BY <1>5, WorkCore
<1>6. CASE \E o \in Ops : After(o)
  BY <1>6, AfterCore
<1>7. CASE End
  BY <1>7, EndCore
<1>8. CASE FinishFailed
  BY <1>8, FinishFailedCore
<1>9. CASE FinishRelease
  BY <1>9, FinishReleaseCore
<1>10. CASE Collect
  BY <1>10, CollectCore
<1>11. CASE UNCHANGED vars
  BY <1>11 DEF vars, Core, TypeOK, Locks, Releasing, fields, outcome, sqlite, retries, work,
     object, thread, history
<1> QED
  BY <1>1, <1>2, <1>3, <1>4, <1>5, <1>6, <1>7, <1>8, <1>9, <1>10, <1>11
     DEF Next, Handler, Create, Schedule, Calm

LEMMA CoreInvariant == Spec => []Core
<1>1. Core /\ [Next]_vars => Core'
  BY CoreNext
<1> QED
  BY InitCore, <1>1, PTL DEF Spec

\* Every variable keeps its type.
THEOREM BackupTypes == Spec => []TypeOK
<1>1. Core => TypeOK
  BY DEF Core
<1> QED
  BY <1>1, CoreInvariant, PTL

\* The assertions of BACKUP_BEGIN hold for as long as the work lasts, whatever
\* the callbacks of the backup issue meanwhile and whether or not they throw.
THEOREM BackupUnderWork == Spec => []WorkFindsBackup
<1>1. Core => WorkFindsBackup
  BY DEF Core, Locks, WorkFindsBackup
<1> QED
  BY <1>1, CoreInvariant, PTL

LEMMA FinishingFrames ==
  ASSUME Core
  PROVE  Finishing <=> Has(stack, Finishers)
<1>1. \A i \in 1..Len(stack) : stack[i] \in Frame
  BY CoreTypes, ElementOfSeq
<1> QED
  BY <1>1, FrameKinds DEF Finishing, Has

\* A backup is finished once (the assertion of FinishAll), and lets go of its
\* database and of SQLite when it is, or when it is collected.
THEOREM BackupReleasedOnce == Spec => []ReleasedOnce
<1>1. Core => ReleasedOnce
  <2> SUFFICES ASSUME Core
               PROVE  ReleasedOnce
    OBVIOUS
  <2>1. released \in {0, 1}
    BY DEF Core, Releasing
  <2>2. collected \/ (finished /\ ~Finishing) => finished /\ ~Has(stack, Finishers)
    BY FinishingFrames DEF Core, Releasing
  <2> QED
    BY <2>1, <2>2 DEF Core, Releasing, ReleasedOnce
<1> QED
  BY <1>1, CoreInvariant, PTL

-----------------------------------------------------------------------------
\* How a backup ends.

\* The flags follow what SQLite answered.
Flags ==
  /\ completed => status = "done"
  /\ status = "done" =>
       ~failed /\ inited /\ (completed \/ (working = "ran" /\ KindOf[current] = "step"))
  /\ finished => completed \/ failed
  /\ failed => handle = "none" /\ (inited \/ finished)

\* What the backup holds of SQLite, at each stage of its life.
Held ==
  /\ handle = "live" => other
  /\ handle = "none" /\ other => status = "ok" /\ (inited \/ creating = "ran")
  /\ creating = "ran" => (status = "error" /\ ~other) \/ (status = "ok" /\ other)
  /\ ~inited /\ creating = "over" => handle = "none" /\ ~other
  /\ inited /\ ~completed /\ ~failed /\ working # "ran" =>
       other /\ (handle = "live" \/ status = "ok")
  /\ working = "ran" /\ KindOf[current] = "finish" => handle = "none" /\ ~other

Outcome == Flags /\ Held

LEMMA OutcomeQuiet ==
  ASSUME Outcome, UNCHANGED <<inited, finished, outcome, sqlite, creating>>,
         UNCHANGED work \/ (working = "idle" /\ working' = "begun")
  PROVE  Outcome'
  BY DEF Outcome, Flags, Held, outcome, sqlite, work

LEMMA OutcomeCreate ==
  ASSUME Core, Outcome,
         Construct \/ ConstructRejected \/ Create \/ WorkInitialize \/ AfterInitialize
  PROVE  Outcome'
<1>0. UNCHANGED <<completed, current, working>>
  BY DEF Construct, ConstructRejected, Create, CreateBegin, CreateRejected, WorkInitialize,
     AfterInitialize, outcome, work
<1>1. /\ inited \/ finished => creating = "over"
      /\ creating \in {"new", "scheduled", "begun"} => handle = "none" /\ ~other /\ status = "ok"
      /\ working # "idle" => inited
      /\ handle \in {"none", "live"}
  BY DEF Core, Locks, Releasing, TypeOK
<1>2. CASE Construct \/ Create
  <2>1. /\ creating \in {"new", "scheduled"} /\ creating' \in {"scheduled", "begun", "over"}
        /\ UNCHANGED <<inited, finished, failed, sqlite>>
    BY <1>2 DEF Construct, Create, CreateBegin, CreateRejected, fields, outcome
  <2>8. Flags'
    BY <1>0, <1>1, <2>1 DEF Outcome, Flags, Held, sqlite
  <2>9. Held'
    BY <1>0, <1>1, <2>1 DEF Outcome, Flags, Held, sqlite
  <2> QED
    BY <2>8, <2>9 DEF Outcome
<1>3. CASE ConstructRejected
  <2>1. /\ creating = "new" /\ creating' = "over" /\ finished' /\ (failed' <=> failed \/ ~completed)
        /\ UNCHANGED <<inited, sqlite>>
    BY <1>3 DEF ConstructRejected, Settle
  <2>8. Flags'
    BY <1>0, <1>1, <2>1 DEF Outcome, Flags, Held, sqlite
  <2>9. Held'
    BY <1>0, <1>1, <2>1 DEF Outcome, Flags, Held, sqlite
  <2> QED
    BY <2>8, <2>9 DEF Outcome
<1>4. CASE WorkInitialize
  <2>1. /\ creating = "begun" /\ creating' = "ran" /\ UNCHANGED <<inited, finished, failed>>
        /\ \/ status' = "error" /\ UNCHANGED <<handle, other>>
           \/ other' /\ handle' \in {"none", "live"} /\ UNCHANGED status
    BY <1>4 DEF WorkInitialize, fields, outcome
  <2>2. /\ ~inited /\ ~finished /\ working = "idle" /\ handle = "none" /\ ~other
        /\ status = "ok"
    BY <1>1, <2>1
  <2>8. Flags'
    BY <1>0, <2>1, <2>2 DEF Outcome, Flags
  <2>9. Held'
    <3>1. CASE status' = "error" /\ UNCHANGED <<handle, other>>
      BY <1>0, <2>1, <2>2, <3>1 DEF Held
    <3>2. CASE other' /\ handle' \in {"none", "live"} /\ UNCHANGED status
      BY <1>0, <2>1, <2>2, <3>2 DEF Held
    <3> QED
      BY <2>1, <3>1, <3>2
  <2> QED
    BY <2>8, <2>9 DEF Outcome
<1>5. CASE AfterInitialize
  <2>1. /\ creating = "ran" /\ creating' = "over" /\ (inited' <=> status = "ok")
        /\ UNCHANGED <<finished, failed, sqlite>>
    BY <1>5 DEF AfterInitialize, outcome
  <2>8. Flags'
    BY <1>0, <1>1, <2>1 DEF Outcome, Flags, Held, sqlite
  <2>9. Held'
    BY <1>0, <1>1, <2>1 DEF Outcome, Flags, Held, sqlite
  <2> QED
    BY <2>8, <2>9 DEF Outcome
<1> QED
  BY <1>2, <1>3, <1>4, <1>5

\* FinishAll, before and after CleanQueue, and ~Backup.
LEMMA OutcomeFinish ==
  ASSUME Core, Outcome, FinishFailed \/ FinishRelease \/ Collect
  PROVE  Outcome'
<1>0. UNCHANGED <<inited, completed, status, current, working, creating>>
  BY DEF FinishFailed, FinishRelease, Collect, fields, outcome, sqlite, object, work
<1>1. stack \in Seq(Frame) /\ Locks /\ Releasing /\ handle \in {"none", "live"}
  BY CoreTypes DEF DataOK
<1>2. CASE FinishFailed
  <2>1. /\ stack # <<>> /\ Head(stack).pc \in {"failed", "reject"}
        /\ finished' /\ (failed' <=> failed \/ ~completed) /\ UNCHANGED <<handle, other>>
    BY <1>2 DEF FinishFailed, InPc, Settle, sqlite
  <2>2. Has(stack, Creators) /\ Has(stack, Finishers)
    BY <1>1, <2>1, PopFrame, FrameKinds
  <2>3. ~inited /\ creating = "over"
    BY <1>1, <2>2 DEF Releasing
  <2>8. Flags'
    BY <1>0, <2>1, <2>3 DEF Outcome, Flags, Held
  <2>9. Held'
    BY <1>0, <2>1, <2>3 DEF Outcome, Flags, Held
  <2> QED
    BY <2>8, <2>9 DEF Outcome
<1>3. CASE FinishRelease
  <2>1. /\ stack # <<>> /\ Head(stack).pc = "release"
        /\ handle' = "none" /\ ~other' /\ UNCHANGED <<finished, failed>>
    BY <1>3 DEF FinishRelease, InPc, FinishSqlite, fields, outcome
  <2>2. finished /\ creating = "over"
    <3>1. Has(stack, Releasers)
      BY <1>1, <2>1, PopFrame, FrameKinds
    <3> QED
      BY <1>1, <3>1 DEF Releasing, Locks
  <2>8. Flags'
    BY <1>0, <2>1, <2>2 DEF Outcome, Flags, Held
  <2>9. Held'
    BY <1>0, <2>1, <2>2 DEF Outcome, Flags, Held
  <2> QED
    BY <2>8, <2>9 DEF Outcome
<1>4. CASE Collect
  <2>1. working = "idle" /\ creating = "over"
    BY <1>1, <1>4 DEF Collect, Locks
  <2>2. \/ finished /\ UNCHANGED <<finished, failed, handle, other>>
        \/ finished' /\ (failed' <=> failed \/ ~completed) /\ handle' = "none" /\ ~other'
    BY <1>4 DEF Collect, Settle, FinishSqlite
  <2>8. Flags'
    BY <1>0, <2>1, <2>2 DEF Outcome, Flags, Held
  <2>9. Held'
    BY <1>0, <2>1, <2>2 DEF Outcome, Flags, Held
  <2> QED
    BY <2>8, <2>9 DEF Outcome
<1> QED
  BY <1>2, <1>3, <1>4

LEMMA OutcomeWork ==
  ASSUME Core, Outcome, NEW o \in Ops, Work(o) \/ After(o)
  PROVE  Outcome'
<1>0. /\ UNCHANGED <<inited, creating>> /\ inited /\ ~finished /\ creating = "over"
      /\ current = o /\ handle \in {"none", "live"} /\ KindOf[o] \in {"step", "finish"}
      /\ working' # "begun" /\ current' \in {o, NoOp}
  <2>1. /\ UNCHANGED <<inited, creating>> /\ working # "idle" /\ current = o
        /\ working' \in {"ran", "idle"} /\ current' \in {o, NoOp}
    BY DEF Work, WorkStep, WorkFinish, Working, After, AfterStep, AfterFinish, Ended, fields,
       object
  <2> QED
    BY <2>1, KindAssumption DEF Core, Locks, TypeOK, Kinds
<1>1. CASE WorkStep(o)
  <2>1. /\ KindOf[o] = "step" /\ working = "begun" /\ working' = "ran" /\ current' = o
        /\ UNCHANGED <<finished, completed, failed>> /\ status' \in StepAnswers
        /\ UNCHANGED <<handle, other>> \/ (handle' = "none" /\ ~other')
    BY <1>1 DEF WorkStep, Working, FinishSqlite, fields, outcome
  <2>2. CASE handle = "live" /\ status \notin {"done", "error"}
    <3>1. other /\ ~failed
      BY <2>2 DEF Outcome, Flags, Held
    <3>2. Flags'
      BY <1>0, <2>1, <2>2, <3>1 DEF Outcome, Flags
    <3>3. Held'
      BY <1>0, <2>1, <2>2, <3>1 DEF Outcome, Held
    <3> QED
      BY <3>2, <3>3 DEF Outcome
  <2>3. CASE ~(handle = "live" /\ status \notin {"done", "error"})
    <3>1. status' = status
      BY <2>1, <2>3 DEF StepAnswers
    <3> QED
      BY <1>0, <2>1, <3>1 DEF Outcome, Flags, Held
  <2> QED
    BY <2>2, <2>3
<1>2. CASE WorkFinish(o)
  <2>1. /\ KindOf[o] = "finish" /\ working = "begun" /\ working' = "ran" /\ current' = o
        /\ UNCHANGED <<finished, completed, failed, status>> /\ handle' = "none" /\ ~other'
    BY <1>2 DEF WorkFinish, Working, FinishSqlite, fields, outcome
  <2>8. Flags'
    BY <1>0, <2>1 DEF Outcome, Flags, Held
  <2>9. Held'
    BY <1>0, <2>1 DEF Outcome, Flags, Held
  <2> QED
    BY <2>8, <2>9 DEF Outcome
<1>3. CASE AfterStep(o)
  <2>1. /\ KindOf[o] = "step" /\ working = "ran" /\ working' = "idle"
        /\ UNCHANGED <<finished, status, handle, other>>
        /\ completed' <=> completed \/ status = "done"
        /\ failed' <=> failed \/ (status # "done" /\ handle = "none")
    BY <1>3 DEF AfterStep, Ended, Judge, sqlite
  <2>8. Flags'
    BY <1>0, <2>1 DEF Outcome, Flags, Held
  <2>9. Held'
    BY <1>0, <2>1 DEF Outcome, Flags, Held
  <2> QED
    BY <2>8, <2>9 DEF Outcome
<1>4. CASE AfterFinish(o)
  <2>1. /\ KindOf[o] = "finish" /\ working = "ran" /\ working' = "idle"
        /\ UNCHANGED <<status, handle, other, completed>>
        /\ finished' /\ (failed' <=> failed \/ ~completed)
    BY <1>4 DEF AfterFinish, Ended, Settle, sqlite
  <2>8. Flags'
    BY <1>0, <2>1 DEF Outcome, Flags, Held
  <2>9. Held'
    BY <1>0, <2>1 DEF Outcome, Flags, Held
  <2> QED
    BY <2>8, <2>9 DEF Outcome
<1> QED
  BY <1>1, <1>2, <1>3, <1>4 DEF Work, After

LEMMA OutcomeNext ==
  ASSUME Core, Outcome, [Next]_vars
  PROVE  Outcome'
<1>1. CASE Calm
  <2>1. TypeOK /\ UNCHANGED <<fields, outcome, sqlite, work, object>>
    BY <1>1, CalmData DEF Core
  <2> QED
    BY <2>1, OutcomeQuiet DEF fields, object
<1>2. CASE ProcessRun \/ \E o \in Ops : ScheduleRun(o)
  <2>1. /\ UNCHANGED <<inited, finished, outcome, sqlite, object>> /\ ~locked
        /\ working' = "begun"
    BY <1>2 DEF ProcessRun, ScheduleRun, Enter, Run, MustQueue
  <2>2. working = "idle"
    BY <2>1 DEF Core, Locks
  <2> QED
    BY <2>1, <2>2, OutcomeQuiet DEF object
<1>3. CASE End
  <2>1. UNCHANGED <<inited, finished, outcome, sqlite, work, object>>
    BY <1>3 DEF End
  <2> QED
    BY <2>1, OutcomeQuiet DEF object
<1>4. CASE Construct \/ ConstructRejected \/ Create \/ WorkInitialize \/ AfterInitialize
  BY <1>4, OutcomeCreate
<1>5. CASE FinishFailed \/ FinishRelease \/ Collect
  BY <1>5, OutcomeFinish
<1>6. CASE \E o \in Ops : Work(o) \/ After(o)
  BY <1>6, OutcomeWork
<1>7. CASE UNCHANGED vars
  <2>1. UNCHANGED <<inited, finished, outcome, sqlite, work, creating>>
    BY <1>7 DEF vars, fields, object
  <2> QED
    BY <2>1, OutcomeQuiet
<1> QED
  BY <1>1, <1>2, <1>3, <1>4, <1>5, <1>6, <1>7 DEF Next, Handler, Schedule, Calm

LEMMA OutcomeInvariant == Spec => [](Core /\ Outcome)
<1>1. Init => Outcome
  BY DEF Init, Outcome, Flags, Held
<1>2. Core /\ Outcome /\ [Next]_vars => Outcome'
  BY OutcomeNext
<1> QED
  BY <1>1, <1>2, CoreInvariant, PTL DEF Spec

\* The flags completed and failed agree with each other and with SQLite, and a
\* backup with neither has what it needs to go on.
THEOREM BackupOutcome == Spec => []OutcomeAgrees
<1>1. Core /\ Outcome => OutcomeAgrees
  <2> SUFFICES ASSUME Core, Outcome
               PROVE  OutcomeAgrees
    OBVIOUS
  <2>1. handle \in {"none", "live"}
    BY DEF Core, TypeOK
  <2> QED
    BY <2>1 DEF Outcome, Flags, Held, OutcomeAgrees, Void
<1> QED
  BY <1>1, OutcomeInvariant, PTL

-----------------------------------------------------------------------------
\* The errors that a step tolerates.

\* What a step does to the operations that were issued and wait or run.
LEMMA Moves ==
  ASSUME Core, [Next]_vars
  PROVE  /\ \A o \in Ops : (Has(queue', {o}) => Has(queue, {o})) \/ Enter(o)
         /\ \A o \in Ops : current' = o => current = o \/ Has(queue, {o}) \/ Enter(o)
         /\ \/ UNCHANGED <<issued, tolerated>>
            \/ \E o \in Ops : Enter(o)
<1>0. queue \in Seq(Ops) /\ NoOp \notin Ops
  BY CoreTypes, OpsAssumption
<1>1. ASSUME NEW d \in Ops, Schedule(d)
      PROVE  /\ Enter(d)
             /\ \A o \in Ops : (Has(queue', {o}) => Has(queue, {o})) \/ o = d
             /\ \A o \in Ops : current' = o => current = o \/ o = d
  <2>1. Enter(d) /\ queue' \in {queue, Append(queue, d)} /\ current' \in {current, d}
    BY <1>1 DEF Schedule, ScheduleRefuse, ScheduleQueue, ScheduleRun, Run, work
  <2>2. \A o \in Ops : Has(Append(queue, d), {o}) => Has(queue, {o}) \/ o = d
    BY <1>0, AppendHas
  <2> QED
    BY <2>1, <2>2
<1>2. CASE ProcessRun \/ CleanCall \/ CleanEnter
  <2>1. /\ UNCHANGED <<issued, tolerated>>
        /\ queue' \in {queue, <<>>} \/ queue # <<>>
        /\ queue # <<>> => queue' \in {queue, <<>>, Tail(queue)}
        /\ current' = current \/ (queue # <<>> /\ current' = Head(queue))
    BY <1>2 DEF ProcessRun, CleanCall, CleanEnter, Run, history, retries, work
  <2>2. \A o \in Ops : ~Has(<<>>, {o})
    BY EmptyStack
  <2>3. CASE queue # <<>>
    <3>1. \A o \in Ops : (Has(Tail(queue), {o}) => Has(queue, {o}))
                         /\ (Head(queue) = o => Has(queue, {o}))
      BY <1>0, <2>3, PopFrame
    <3> QED
      BY <2>1, <2>2, <2>3, <3>1, <1>2 DEF ProcessRun, CleanCall, CleanEnter, history, retries
  <2>4. CASE queue = <<>>
    BY <2>1, <2>2, <2>4, <1>2 DEF ProcessRun, CleanCall, CleanEnter, history, retries
  <2> QED
    BY <2>3, <2>4
<1>3. CASE \E o \in Ops : Work(o) \/ After(o)
  <2>1. UNCHANGED <<queue, issued, tolerated>> /\ current' \in {current, NoOp}
    BY <1>3 DEF Work, WorkStep, WorkFinish, Working, After, AfterStep, AfterFinish, Ended,
       retries, history
  <2> QED
    BY <1>0, <2>1
<1>4. CASE \/ Construct \/ ConstructRejected \/ Create \/ WorkInitialize \/ AfterInitialize
           \/ Collect \/ FinishFailed \/ FinishRelease
  <2>1. UNCHANGED <<queue, issued, tolerated, current>>
    BY <1>4 DEF Construct, ConstructRejected, Create, CreateBegin, CreateRejected,
       WorkInitialize, AfterInitialize, Collect, FinishFailed, FinishRelease, retries, history,
       work
  <2> QED
    BY <2>1
<1>5. CASE \/ End \/ ProcessClean \/ ProcessReturn \/ CleanReturn \/ DeadCallback \/ SetRetry
           \/ NewTurn \/ JsReturn \/ JsThrow \/ JsCatch \/ UNCHANGED vars
  <2>1. UNCHANGED <<queue, issued, tolerated, current>>
    BY <1>5 DEF End, ProcessClean, ProcessReturn, CleanReturn, DeadCallback, SetRetry, NewTurn,
       JsReturn, JsThrow, JsCatch, vars, rest, retries, history, work
  <2> QED
    BY <2>1
<1> QED
  BY <1>1, <1>2, <1>3, <1>4, <1>5 DEF Next, Handler

\* What waits or runs was issued.
Listed == \A o \in Ops : Has(queue, {o}) \/ current = o => Has(issued, {o})

\* With automatic finishing no step tolerates the end of the backup, so that a
\* backup that is done has been finished; and a step that ended with an error
\* it tolerates has left the sqlite3_backup alone.
Tolerance ==
  /\ ~manual =>
       /\ retry # {} /\ "done" \notin retry
       /\ \A o \in Ops : KindOf[o] = "step" /\ Has(issued, {o}) =>
                           tolerated[o] # {} /\ "done" \notin tolerated[o]
  /\ ~manual /\ status = "done" => handle = "none"
  /\ working = "ran" /\ KindOf[current] = "step" /\ ~failed
       /\ status \in tolerated[current] \ {"done"}
       => handle = "live" \/ status = "ok"

LEMMA IssuedGrow ==
  ASSUME Core
  PROVE  \A d \in Ops : Enter(d) =>
           \A o \in Ops : Has(issued', {o}) <=> Has(issued, {o}) \/ o = d
<1>1. issued \in Seq(Ops)
  BY CoreTypes
<1> QED
  BY <1>1, AppendHas DEF Enter

LEMMA ListedNext ==
  ASSUME Core, Listed, [Next]_vars
  PROVE  Listed'
<1>1. \A o \in Ops : Has(issued, {o}) => Has(issued', {o})
  BY Moves, IssuedGrow
<1>2. \A o \in Ops : Enter(o) => Has(issued', {o})
  BY IssuedGrow
<1> QED
  BY <1>1, <1>2, Moves DEF Listed

\* Entering changes what the operation entered tolerates and nothing else.
LEMMA EnterTolerance ==
  ASSUME Core, NEW d \in Ops, Enter(d)
  PROVE  /\ ~Has(issued, {d}) /\ UNCHANGED <<retry, manual, outcome, sqlite>>
         /\ KindOf[d] = "step" => tolerated'[d] = retry
         /\ \A o \in Ops \ {d} : tolerated'[o] = tolerated[o]
<1>1. tolerated \in [Ops -> SUBSET Statuses]
  BY DEF Core, TypeOK
<1>2. ~Has(issued, {d})
  BY DEF Enter, Has
<1> QED
  BY <1>1, <1>2 DEF Enter

LEMMA ToleranceFirst ==
  ASSUME Core, Listed, Tolerance, [Next]_vars, ~manual'
  PROVE  /\ retry' # {} /\ "done" \notin retry'
         /\ \A o \in Ops : KindOf[o] = "step" /\ Has(issued', {o}) =>
                             tolerated'[o] # {} /\ "done" \notin tolerated'[o]
<1>1. CASE \E d \in Ops : Enter(d)
  <2>1. PICK d \in Ops : Enter(d)
    BY <1>1
  <2>2. ~manual /\ retry' = retry /\ retry # {} /\ "done" \notin retry
    BY <2>1, EnterTolerance DEF Tolerance
  <2> SUFFICES ASSUME NEW o \in Ops, KindOf[o] = "step", Has(issued', {o})
               PROVE  tolerated'[o] # {} /\ "done" \notin tolerated'[o]
    BY <2>2
  <2>3. CASE o = d
    BY <2>1, <2>2, <2>3, EnterTolerance
  <2>4. CASE o # d
    <3>1. Has(issued, {o}) /\ tolerated'[o] = tolerated[o]
      BY <2>1, <2>4, IssuedGrow, EnterTolerance
    <3> QED
      BY <2>2, <3>1 DEF Tolerance
  <2> QED
    BY <2>3, <2>4
<1>2. CASE SetRetry
  BY <1>2 DEF SetRetry, Tolerance, history
<1>3. CASE UNCHANGED <<retry, manual, issued, tolerated>>
  BY <1>3 DEF Tolerance
<1>4. \/ \E d \in Ops : Enter(d)
      \/ SetRetry \/ UNCHANGED <<retry, manual, issued, tolerated>>
  <2>1. CASE \E o \in Ops : Schedule(o)
    BY <2>1 DEF Schedule, ScheduleRefuse, ScheduleQueue, ScheduleRun
  <2>2. CASE \E o \in Ops : Work(o) \/ After(o)
    BY <2>2 DEF Work, WorkStep, WorkFinish, Working, After, AfterStep, AfterFinish, Ended,
       retries, history
  <2>3. CASE \/ Construct \/ ConstructRejected \/ Create \/ WorkInitialize \/ AfterInitialize
             \/ Collect \/ FinishFailed \/ FinishRelease
    BY <2>3 DEF Construct, ConstructRejected, Create, CreateBegin, CreateRejected,
       WorkInitialize, AfterInitialize, Collect, FinishFailed, FinishRelease, retries, history
  <2>4. CASE \/ End \/ ProcessClean \/ ProcessReturn \/ ProcessRun \/ CleanEnter \/ CleanCall
             \/ CleanReturn \/ DeadCallback \/ NewTurn \/ JsReturn \/ JsThrow \/ JsCatch
             \/ UNCHANGED vars
    BY <2>4 DEF End, ProcessClean, ProcessReturn, ProcessRun, CleanEnter, CleanCall,
       CleanReturn, DeadCallback, NewTurn, JsReturn, JsThrow, JsCatch, vars, rest, retries,
       history
  <2> QED
    BY <2>1, <2>2, <2>3, <2>4 DEF Next, Handler
<1> QED
  BY <1>1, <1>2, <1>3, <1>4

LEMMA ToleranceWork ==
  ASSUME Core, Outcome, Listed, Tolerance, NEW o \in Ops, Work(o) \/ After(o)
  PROVE  /\ ~manual' /\ status' = "done" => handle' = "none"
         /\ working' = "ran" /\ KindOf[current'] = "step" /\ ~failed'
              /\ status' \in tolerated'[current'] \ {"done"}
              => handle' = "live" \/ status' = "ok"
<1>1. handle \in {"none", "live"} /\ UNCHANGED <<manual, tolerated>>
  BY DEF Core, TypeOK, Work, WorkStep, WorkFinish, Working, After, AfterStep, AfterFinish,
     Ended, retries
<1>2. CASE WorkStep(o)
  <2>1. /\ KindOf[o] = "step" /\ current = o /\ current' = o /\ working = "begun"
        /\ UNCHANGED <<completed, failed>>
    BY <1>2 DEF WorkStep, Working, outcome
  <2>2. PICK s \in StepAnswers :
          status' = s /\ IF Fatal(o, s) THEN FinishSqlite ELSE UNCHANGED <<handle, other>>
    BY <1>2 DEF WorkStep
  <2>3. ASSUME ~manual', status' = "done"
        PROVE  handle' = "none"
    <3>1. Has(issued, {o}) /\ ~manual
      BY <1>1, <2>1, <2>3 DEF Listed
    <3>2. tolerated[o] # {} /\ "done" \notin tolerated[o]
      BY <2>1, <3>1 DEF Tolerance
    <3> QED
      BY <2>2, <2>3, <3>2 DEF Fatal, FinishSqlite
  <2>4. ASSUME ~failed', status' \in tolerated[o] \ {"done"}
        PROVE  handle' = "live" \/ status' = "ok"
    <3>1. handle' = handle
      BY <2>2, <2>4 DEF Fatal
    <3>2. CASE handle = "none"
      <4>1. status' = status
        BY <2>2, <3>2 DEF StepAnswers
      <4>2. ~completed /\ ~failed /\ working # "ran" /\ inited
        BY <2>1, <2>4, <4>1 DEF Outcome, Flags, Core, Locks
      <4> QED
        BY <3>2, <4>1, <4>2 DEF Outcome, Held
    <3> QED
      BY <1>1, <3>1, <3>2
  <2> QED
    BY <1>1, <2>1, <2>3, <2>4
<1>3. CASE WorkFinish(o)
  <2>1. KindOf[o] = "finish" /\ current' = o /\ handle' = "none"
    BY <1>3 DEF WorkFinish, Working, FinishSqlite
  <2> QED
    BY <2>1
<1>4. CASE After(o)
  <2>1. working' = "idle" /\ UNCHANGED <<status, handle>>
    BY <1>4 DEF After, AfterStep, AfterFinish, Ended, sqlite
  <2> QED
    BY <1>1, <2>1 DEF Tolerance
<1> QED
  BY <1>2, <1>3, <1>4 DEF Work

LEMMA ToleranceRest ==
  ASSUME Core, Outcome, Listed, Tolerance, [Next]_vars
  PROVE  /\ ~manual' /\ status' = "done" => handle' = "none"
         /\ working' = "ran" /\ KindOf[current'] = "step" /\ ~failed'
              /\ status' \in tolerated'[current'] \ {"done"}
              => handle' = "live" \/ status' = "ok"
<1>0. stack \in Seq(Frame) /\ Locks /\ Releasing
  BY CoreTypes
<1>1. CASE \E o \in Ops : Work(o) \/ After(o)
  BY <1>1, ToleranceWork
<1>2. CASE \E d \in Ops : Schedule(d)
  <2>1. PICK d \in Ops : Schedule(d)
    BY <1>2
  <2>2. Enter(d) /\ (UNCHANGED <<working, current>> \/ working' = "begun")
    BY <2>1 DEF Schedule, ScheduleRefuse, ScheduleQueue, ScheduleRun, Run, work
  <2>3. ~Has(issued, {d}) /\ UNCHANGED <<manual, status, handle, failed>>
        /\ \A o \in Ops \ {d} : tolerated'[o] = tolerated[o]
    BY <2>2, EnterTolerance DEF outcome, sqlite
  <2>4. working = "ran" => current \in Ops \ {d}
    <3>1. current # NoOp /\ current \in Ops \cup {NoOp} => current \in Ops
      OBVIOUS
    <3> QED
      BY <1>0, <2>3, <3>1 DEF Locks, Listed, Core, TypeOK
  <2> QED
    BY <2>2, <2>3, <2>4 DEF Tolerance
<1>3. CASE \/ Construct \/ ConstructRejected \/ Create \/ WorkInitialize \/ AfterInitialize
           \/ FinishFailed \/ FinishRelease \/ Collect
  <2>1. working' = "idle" /\ UNCHANGED manual
    <3>1. UNCHANGED <<working, manual>>
      BY <1>3 DEF Construct, ConstructRejected, Create, CreateBegin, CreateRejected,
         WorkInitialize, AfterInitialize, FinishFailed, FinishRelease, Collect, work, retries
    <3>2. CASE \/ Construct \/ ConstructRejected \/ Create \/ WorkInitialize \/ AfterInitialize
      <4>1. creating # "over"
        BY <3>2 DEF Construct, ConstructRejected, Create, CreateBegin, CreateRejected,
           WorkInitialize, AfterInitialize
      <4> QED
        BY <1>0, <3>1, <4>1 DEF Locks
    <3>3. CASE FinishFailed \/ FinishRelease
      <4>1. stack # <<>> /\ Head(stack).pc \in {"failed", "reject", "release"}
        BY <3>3 DEF FinishFailed, FinishRelease, InPc
      <4>2. Has(stack, Creators) \/ Has(stack, Releasers)
        BY <1>0, <4>1, PopFrame, FrameKinds
      <4> QED
        BY <1>0, <3>1, <4>2 DEF Locks, Releasing
    <3>4. CASE Collect
      BY <1>0, <3>1, <3>4 DEF Collect, Locks
    <3> QED
      BY <1>3, <3>1, <3>2, <3>3, <3>4
  <2>2. handle' = "none" \/ UNCHANGED <<status, handle>> \/ status' # "done"
    <3>1. CASE WorkInitialize
      <4>1. status' = status \/ status' = "error"
        BY <3>1 DEF WorkInitialize
      <4>2. status = "ok"
        BY <1>0, <3>1 DEF WorkInitialize, Releasing
      <4> QED
        BY <4>1, <4>2
    <3> QED
      BY <1>3, <3>1 DEF Construct, ConstructRejected, Create, CreateBegin, CreateRejected,
         AfterInitialize, FinishFailed, FinishRelease, Collect, FinishSqlite, sqlite
  <2> QED
    BY <2>1, <2>2 DEF Tolerance
<1>4. CASE ProcessRun
  BY <1>4 DEF ProcessRun, Run, Tolerance, sqlite, retries
<1>5. CASE \/ End \/ ProcessClean \/ ProcessReturn \/ CleanEnter \/ CleanCall
           \/ CleanReturn \/ DeadCallback \/ SetRetry \/ NewTurn \/ JsReturn \/ JsThrow
           \/ JsCatch \/ UNCHANGED vars
  <2>1. UNCHANGED <<status, handle, failed, working, current, tolerated>>
    BY <1>5 DEF End, ProcessClean, ProcessReturn, CleanEnter, CleanCall, CleanReturn,
       DeadCallback, SetRetry, NewTurn, JsReturn, JsThrow, JsCatch, vars, rest, retries, work,
       outcome, sqlite
  <2>2. ~manual' => ~manual
    BY <1>5 DEF End, ProcessClean, ProcessReturn, CleanEnter, CleanCall, CleanReturn,
       DeadCallback, SetRetry, NewTurn, JsReturn, JsThrow, JsCatch, vars, rest, retries
  <2> QED
    BY <2>1, <2>2 DEF Tolerance
<1> QED
  BY <1>1, <1>2, <1>3, <1>4, <1>5 DEF Next, Handler

\* The invariant of the backup.
IInv == Core /\ Outcome /\ Listed /\ Tolerance

LEMMA BackupInvariant == Spec => []IInv
<1>1. Init => Listed /\ Tolerance
  <2>1. ASSUME Init
        PROVE  Listed /\ Tolerance
    <3>1. \A o \in Ops : ~Has(queue, {o}) /\ ~Has(issued, {o}) /\ current # o
      BY <2>1, EmptyStack, OpsAssumption DEF Init
    <3> QED
      BY <2>1, <3>1 DEF Init, Listed, Tolerance, DefaultRetry
  <2> QED
    BY <2>1
<1>2. Core /\ Listed /\ [Next]_vars => Listed'
  BY ListedNext
<1>3. Core /\ Outcome /\ Listed /\ Tolerance /\ [Next]_vars => Tolerance'
  <2>1. ASSUME Core, Outcome, Listed, Tolerance, [Next]_vars
        PROVE  Tolerance'
    BY <2>1, ToleranceFirst, ToleranceRest DEF Tolerance
  <2> QED
    BY <2>1
<1>4. Core /\ Outcome /\ Listed /\ Tolerance <=> IInv
  BY DEF IInv
<1> QED
  BY <1>1, <1>2, <1>3, <1>4, OutcomeInvariant, PTL DEF Spec

\* With automatic finishing a backup that has completed or failed holds nothing
\* of SQLite, whenever retryErrors is set.
THEOREM BackupFinishesItself == Spec => []FinishesItself
<1>1. IInv => FinishesItself
  <2> SUFFICES ASSUME IInv, ~manual, completed \/ failed
               PROVE  handle = "none" /\ (other => Void)
    BY DEF FinishesItself
  <2>1. handle = "none"
    BY DEF IInv, Outcome, Flags, Tolerance
  <2>2. other => status = "ok" /\ inited
    BY <2>1 DEF IInv, Outcome, Held, Core, Locks, Flags
  <2> QED
    BY <2>1, <2>2 DEF Void
<1> QED
  BY <1>1, BackupInvariant, PTL

\* An error that the caller of the step tolerated leaves the backup able to go
\* on, whatever JavaScript has made of retryErrors since.
THEOREM BackupRetryContinues == Spec => RetryContinues
<1>1. IInv /\ [Next]_vars =>
        [\A o \in Ops :
           AfterStep(o) /\ ~failed /\ status \in tolerated[o] \ {"done"} /\ ~Void =>
             ~failed' /\ handle = "live"]_vars
  <2> SUFFICES ASSUME IInv, NEW o \in Ops, AfterStep(o), ~failed,
                      status \in tolerated[o] \ {"done"}, ~Void
               PROVE  ~failed' /\ handle = "live"
    OBVIOUS
  <2>1. /\ KindOf[o] = "step" /\ current = o /\ working = "ran"
        /\ failed' <=> failed \/ (status # "done" /\ handle = "none")
    BY DEF AfterStep, Ended, Judge
  <2>2. inited /\ handle \in {"none", "live"}
    BY <2>1 DEF IInv, Core, Locks, TypeOK
  <2>3. handle = "live" \/ status = "ok"
    BY <2>1 DEF IInv, Tolerance
  <2>4. handle = "live"
    BY <2>2, <2>3 DEF Void
  <2> QED
    BY <2>1, <2>4
<1> QED
  BY <1>1, BackupInvariant, PTL DEF Spec, RetryContinues

-----------------------------------------------------------------------------
\* Nothing that is issued is forgotten.

Dead == Frames({"dead"})
Cleaners == Frames({"clean", "cleaning"})
Enders == Frames({"end", "errorEnd", "process"})

\* The frames that see to it that the queue is taken up again.
Pending == Ending \cup Frames({"reject", "process", "loop", "clean", "cleaning"})

\* The finish that a frame will answer, and the answer.
ReleaseOf(o) == {f \in Frame : f.pc = "release" /\ f.op = o}
AnswerOf(o) == {x \in Answer : x.op = o}

\* The frames that a handler pops without pushing another in their place.
Passing == Frames({"js", "dead", "process", "loop", "clean", "cleaning"})

\* Frames are there for a reason.
Reasons ==
  /\ raised \/ Has(stack, Dead) => threw
  /\ Has(stack, Cleaners) => finished
  /\ Has(stack, Enders) => inited \/ finished
  /\ creating = "new" => queue = <<>> /\ issued = <<>>

\* While there is something to do, a frame or a request will see to it, unless
\* a callback that threw has cut the handler short.
Attended ==
  /\ ~threw /\ inited /\ locked => working # "idle" \/ Has(stack, Ending)
  /\ creating = "over" /\ ~inited /\ ~finished => Has(stack, Creators)
  /\ ~threw /\ creating = "over" /\ queue # <<>> => working # "idle" \/ Has(stack, Pending)

\* An operation that was issued waits, runs or has its answer.
Conserved ==
  ~threw /\ (inited \/ creating # "over") =>
    \A o \in Ops : Has(issued, {o}) =>
      \/ Has(queue, {o}) \/ current = o
      \/ Has(stack, ReleaseOf(o)) \/ Has(answers, AnswerOf(o))

Kept == Reasons /\ Attended /\ Conserved

LEMMA MoreKinds ==
  /\ \A f \in Frame :
       /\ f \in Dead <=> f.pc = "dead"
       /\ f \in Cleaners <=> f.pc \in {"clean", "cleaning"}
       /\ f \in Enders <=> f.pc \in {"end", "errorEnd", "process"}
       /\ f \in Pending <=> f.pc \in {"end", "errorEnd", "failed", "reject", "process", "loop",
                                      "clean", "cleaning"}
                            \/ (f.pc = "release" /\ f.op # NoOp)
       /\ \A o : f \in ReleaseOf(o) <=> f.pc = "release" /\ f.op = o
       /\ f \in Passing <=> f.pc \in {"js", "dead", "process", "loop", "clean", "cleaning"}
  /\ Ending \subseteq Pending /\ Creators \subseteq Pending /\ Cleaners \subseteq Pending
  /\ Ending \cap Passing = {} /\ Creators \cap Passing = {}
  /\ \A o : ReleaseOf(o) \cap Passing = {}
<1>1. \A f \in Frame :
        /\ f \in Dead <=> f.pc = "dead"
        /\ f \in Cleaners <=> f.pc \in {"clean", "cleaning"}
        /\ f \in Enders <=> f.pc \in {"end", "errorEnd", "process"}
        /\ f \in Pending <=> f.pc \in {"end", "errorEnd", "failed", "reject", "process", "loop",
                                       "clean", "cleaning"}
                             \/ (f.pc = "release" /\ f.op # NoOp)
        /\ \A o : f \in ReleaseOf(o) <=> f.pc = "release" /\ f.op = o
        /\ f \in Passing <=> f.pc \in {"js", "dead", "process", "loop", "clean", "cleaning"}
  BY DEF Frames, Dead, Cleaners, Enders, Pending, ReleaseOf, Passing, Ending
<1>2. Ending \subseteq Pending /\ Creators \subseteq Pending /\ Cleaners \subseteq Pending
  BY DEF Pending, Ending, Creators, Cleaners, Frames
<1>3. Ending \cap Passing = {} /\ Creators \cap Passing = {}
  BY DEF Passing, Ending, Creators, Frames
<1>4. \A o : ReleaseOf(o) \cap Passing = {}
  BY DEF Passing, ReleaseOf, Frames
<1> QED
  BY <1>1, <1>2, <1>3, <1>4

\* The frames that a calm step pushes, each for a reason.
LEMMA CalmRetains ==
  ASSUME Core, Reasons, Calm, ~threw'
  PROVE  \A P : P \cap Passing = {} /\ Has(stack, P) => Has(stack', P)
<1>0. stack \in Seq(Frame) /\ (threw \in BOOLEAN)
  BY CoreTypes DEF DataOK
<1>1. CASE SetRetry \/ JsCatch \/ \E o \in Ops : ScheduleQueue(o)
  BY <1>1 DEF SetRetry, JsCatch, ScheduleQueue, thread
<1>2. CASE NewTurn
  BY <1>2, EmptyStack DEF NewTurn
<1>3. CASE JsThrow
  BY <1>3 DEF JsThrow
<1>4. CASE DeadCallback
  <2>1. Has(stack, Dead)
    BY <1>0, <1>4, PopFrame, MoreKinds DEF DeadCallback, InPc
  <2>2. threw' = threw
    BY <1>4 DEF DeadCallback
  <2> QED
    BY <2>1, <2>2 DEF Reasons
<1>5. CASE \E o \in Ops : ScheduleRefuse(o)
  <2>1. stack' = <<At("clean")>> \o stack /\ At("clean") \in Frame
    BY <1>5, HandlerFrames DEF ScheduleRefuse, Plain, Frames
  <2> QED
    BY <1>0, <2>1, PushFrame
<1>6. CASE JsReturn \/ ProcessClean \/ ProcessReturn \/ CleanEnter \/ CleanCall \/ CleanReturn
  <2> DEFINE r == Tail(stack)
  <2>1. stack # <<>> /\ Head(stack).pc \in {"js", "process", "loop", "clean", "cleaning"}
    BY <1>6 DEF JsReturn, Js, ProcessClean, ProcessReturn, InLoop, CleanEnter, CleanCall,
       CleanReturn, InPc
  <2>2. /\ Head(stack) \in Passing /\ r \in Seq(Frame) /\ Head(stack) \in Frame
        /\ \A P : Has(stack, P) <=> Head(stack) \in P \/ Has(r, P)
    BY <1>0, <2>1, PopFrame, MoreKinds
  <2>3. \A P : P \cap Passing = {} /\ Has(stack, P) => Has(r, P)
    BY <2>2
  <2>4. \E s \in Seq(Frame) : stack' = s \o r
    <3>1. CASE JsReturn \/ ProcessReturn
      <4>1. stack' = <<>> \o r /\ <<>> \in Seq(Frame)
        BY <2>2, <3>1, ConcatEmptySeq DEF JsReturn, ProcessReturn
      <4> QED
        BY <4>1
    <3>2. CASE ProcessClean
      <4> DEFINE c == <<At("clean")>>
      <4>1. stack' = c \o r /\ c \in Seq(Frame)
        BY <3>2, HandlerFrames DEF ProcessClean, Plain, Frames
      <4> HIDE DEF c, r
      <4> QED
        BY <4>1
    <3>3. CASE CleanEnter
      <4> DEFINE f == Cleaning(FALSE)
                 c == <<f>>
      <4>1. stack' = r \/ stack' = c \o r
        BY <3>3 DEF CleanEnter
      <4>2. r = <<>> \o r /\ <<>> \in Seq(Frame)
        BY <2>2, ConcatEmptySeq
      <4>3. c \in Seq(Frame)
        <5>1. f \in Frame
          BY FrameKinds DEF Plain, Frames
        <5> HIDE DEF f
        <5> QED
          BY <5>1
      <4> HIDE DEF c, r
      <4> QED
        BY <4>1, <4>2, <4>3
    <3>4. CASE CleanCall
      <4> DEFINE b == Head(stack).called \/ Head(queue) \notin Silent
      <4>1. b \in BOOLEAN
        BY <2>2, FrameKinds
      <4>2. stack' = Call(Head(queue)) \o <<Cleaning(b)>> \o r
        BY <3>4 DEF CleanCall
      <4> HIDE DEF b
      <4>3. Call(Head(queue)) \in Seq(Frame) /\ <<Cleaning(b)>> \in Seq(Frame)
        BY <4>1, FrameKinds DEF Call, Plain, Frames
      <4>4. Call(Head(queue)) \o <<Cleaning(b)>> \in Seq(Frame)
        BY <4>3, ConcatProperties
      <4> QED
        BY <4>2, <4>4
    <3>5. CASE CleanReturn
      <4>1. stack' = (IF Head(stack).called THEN <<>> ELSE <<Callback>>) \o r
        BY <3>5 DEF CleanReturn
      <4>2. (IF Head(stack).called THEN <<>> ELSE <<Callback>>) \in Seq(Frame)
        BY FrameKinds DEF Plain, Frames
      <4> QED
        BY <4>1, <4>2
    <3> QED
      BY <1>6, <3>1, <3>2, <3>3, <3>4, <3>5
  <2> HIDE DEF r
  <2>5. \A P : Has(r, P) => Has(stack', P)
    BY <2>2, <2>4, HasConcat
  <2> QED
    BY <2>3, <2>5
<1> QED
  BY <1>1, <1>2, <1>3, <1>4, <1>5, <1>6 DEF Calm

\* Sequences of at most two frames, and the callback of an operation.
LEMMA SmallStacks ==
  ASSUME NEW f \in Frame, NEW g \in Frame
  PROVE  /\ <<f>> \in Seq(Frame) /\ <<f, g>> \in Seq(Frame) /\ <<>> \in Seq(Frame)
         /\ \A P : (Has(<<f>>, P) <=> f \in P) /\ ~Has(<<>>, P)
         /\ \A P : Has(<<f, g>>, P) <=> f \in P \/ g \in P
<1> DEFINE e == <<>>
<1>0. e \in Seq(Frame) /\ \A P : ~Has(e, P)
  BY EmptyStack
<1>1. <<g>> = <<g>> \o e /\ <<f>> = <<f>> \o e /\ <<f, g>> = <<f>> \o (<<g>> \o e)
  BY FewFrames
<1>2. <<f>> \o e \in Seq(Frame) /\ \A P : Has(<<f>> \o e, P) <=> f \in P \/ Has(e, P)
  BY <1>0, PushFrame
<1> DEFINE k == <<g>> \o e
<1>3. k \in Seq(Frame) /\ \A P : Has(k, P) <=> g \in P \/ Has(e, P)
  BY <1>0, PushFrame
<1> HIDE DEF k, e
<1>4. <<f>> \o k \in Seq(Frame) /\ \A P : Has(<<f>> \o k, P) <=> f \in P \/ Has(k, P)
  BY <1>3, PushFrame
<1> QED
  BY <1>0, <1>1, <1>2, <1>3, <1>4 DEF e, k

LEMMA CallStack ==
  /\ Callback \in Frame /\ (Callback.pc = IF raised THEN "dead" ELSE "js")
  /\ \A o : Call(o) \in Seq(Frame) /\ \A P : Has(Call(o), P) => Callback \in P
<1>1. Callback \in Frame /\ (Callback.pc = IF raised THEN "dead" ELSE "js")
  BY FrameKinds DEF Plain, Frames
<1>2. /\ <<Callback>> \in Seq(Frame) /\ <<>> \in Seq(Frame)
      /\ \A P : (Has(<<Callback>>, P) <=> Callback \in P) /\ ~Has(<<>>, P)
  BY <1>1, SmallStacks
<1> QED
  BY <1>1, <1>2 DEF Call

\* The frames of a stack whose top is replaced.
LEMMA Replaced ==
  ASSUME NEW s \in Seq(Frame), s # <<>>, NEW t \in Seq(Frame)
  PROVE  /\ Head(s) \in Frame /\ t \o Tail(s) \in Seq(Frame)
         /\ \A P : /\ Has(t \o Tail(s), P) <=> Has(t, P) \/ Has(Tail(s), P)
                  /\ Has(s, P) <=> Head(s) \in P \/ Has(Tail(s), P)
<1>1. Tail(s) \in Seq(Frame) /\ Head(s) \in Frame
  BY PopFrame
<1>2. \A P : Has(s, P) <=> Head(s) \in P \/ Has(Tail(s), P)
  BY PopFrame
<1> QED
  BY <1>1, <1>2, HasConcat

\* The frames that a calm step adds: calls, and those of CleanQueue, which
\* come from one that is there or from a backup that is finished.
LEMMA CalmAdds ==
  ASSUME Core, Calm
  PROVE  \A P : Has(stack', P) =>
           \/ Has(stack, P) \/ At("js") \in P \/ Callback \in P
           \/ (finished \/ Has(stack, Cleaners)) /\ \E f \in Cleaners : f \in P
<1>0. stack \in Seq(Frame) /\ At("js") \in Frame /\ At("clean") \in Frame
  BY CoreTypes, HandlerFrames DEF DataOK, Plain, Frames
<1>1. At("clean") \in Cleaners /\ \A b \in BOOLEAN : Cleaning(b) \in Frame /\ Cleaning(b) \in Cleaners
  <2>1. \A b \in BOOLEAN : Cleaning(b) \in Frame /\ Cleaning(b).pc = "cleaning"
    BY FrameKinds DEF Plain, Frames
  <2> QED
    BY <1>0, <2>1, HandlerFrames, MoreKinds
<1>2. CASE SetRetry \/ JsCatch \/ \E o \in Ops : ScheduleQueue(o)
  BY <1>2 DEF SetRetry, JsCatch, ScheduleQueue, thread
<1>3. CASE NewTurn
  BY <1>0, <1>3, SmallStacks DEF NewTurn
<1>4. CASE JsThrow \/ DeadCallback
  <2>1. stack # <<>> /\ stack' = Unwound
    BY <1>4 DEF JsThrow, DeadCallback, InPc
  <2>2. Tail(stack) \in Seq(Frame) /\ \A P : Has(Tail(stack), P) => Has(stack, P)
    BY <1>0, <2>1, PopFrame
  <2>3. Tail(stack) # <<>> => \A P : Has(Tail(Tail(stack)), P) => Has(Tail(stack), P)
    BY <2>2, PopFrame
  <2> QED
    BY <2>1, <2>2, <2>3 DEF Unwound
<1>5. CASE \E o \in Ops : ScheduleRefuse(o)
  <2>1. finished /\ stack' = <<At("clean")>> \o stack
    BY <1>5 DEF ScheduleRefuse
  <2>2. \A P : Has(stack', P) <=> At("clean") \in P \/ Has(stack, P)
    BY <1>0, <2>1, PushFrame
  <2> QED
    BY <1>1, <2>1, <2>2
<1>6. CASE JsReturn \/ ProcessReturn
  <2>1. stack # <<>> /\ stack' = Tail(stack)
    BY <1>6 DEF JsReturn, Js, ProcessReturn, InLoop, InPc
  <2> QED
    BY <1>0, <2>1, PopFrame
<1>7. CASE ProcessClean \/ CleanEnter
  <2>1. /\ stack # <<>>
        /\ finished \/ Has(stack, Cleaners)
        /\ \E f \in Cleaners : stack' \in {Tail(stack), <<f>> \o Tail(stack)}
    <3>1. CASE ProcessClean
      BY <1>1, <3>1 DEF ProcessClean, InPc
    <3>2. CASE CleanEnter
      <4>1. stack # <<>> /\ Head(stack).pc = "clean"
        BY <3>2 DEF CleanEnter, InPc
      <4>2. Has(stack, Cleaners)
        BY <1>0, <4>1, PopFrame, MoreKinds
      <4> QED
        BY <1>1, <3>2, <4>1, <4>2 DEF CleanEnter
    <3> QED
      BY <1>7, <3>1, <3>2
  <2>2. PICK f \in Cleaners : stack' \in {Tail(stack), <<f>> \o Tail(stack)}
    BY <2>1
  <2>3. f \in Frame
    BY DEF Cleaners, Frames
  <2> DEFINE r == Tail(stack)
  <2>4. stack # <<>>
    BY <2>1, EmptyStack
  <2>5. r \in Seq(Frame) /\ \A P : Has(r, P) => Has(stack, P)
    BY <1>0, <2>4, PopFrame
  <2>6. stack' \in {r, <<f>> \o r}
    BY <2>2
  <2> HIDE DEF r
  <2>7. \A P : Has(<<f>> \o r, P) <=> f \in P \/ Has(r, P)
    BY <2>3, <2>5, PushFrame
  <2>8. \A P : Has(stack', P) => f \in P \/ Has(stack, P)
    BY <2>5, <2>6, <2>7
  <2> QED
    BY <2>1, <2>8
<1>8. CASE CleanCall
  <2> DEFINE b == Head(stack).called \/ Head(queue) \notin Silent
             c == <<Cleaning(b)>>
             k == Call(Head(queue))
  <2>1. stack # <<>> /\ Head(stack).pc = "cleaning" /\ stack' = k \o c \o Tail(stack)
    BY <1>8 DEF CleanCall, InPc
  <2>2. Has(stack, Cleaners) /\ b \in BOOLEAN
    BY <1>0, <2>1, PopFrame, MoreKinds, FrameKinds
  <2> HIDE DEF b
  <2>3. c \in Seq(Frame) /\ \A P : Has(c, P) <=> Cleaning(b) \in P
    BY <1>1, <2>2, SmallStacks
  <2>4. k \in Seq(Frame) /\ \A P : Has(k, P) => Callback \in P
    BY CallStack
  <2> HIDE DEF c, k
  <2>5. k \o c \in Seq(Frame) /\ \A P : Has(k \o c, P) <=> Has(k, P) \/ Has(c, P)
    BY <2>3, <2>4, HasConcat
  <2> DEFINE kc == k \o c
  <2> DEFINE r == Tail(stack)
  <2>6. stack' = kc \o r /\ kc \in Seq(Frame)
    <3>1. r \in Seq(Frame)
      BY <1>0, <2>1, PopFrame
    <3> HIDE DEF r
    <3>2. k \o c \o r = (k \o c) \o r
      BY <2>3, <2>4, <3>1, ConcatAssociative
    <3> QED
      BY <2>1, <2>5, <3>2 DEF r
  <2>7. \A P : Has(kc, P) <=> Has(k, P) \/ Has(c, P)
    BY <2>5
  <2> HIDE DEF kc
  <2>8. \A P : Has(stack', P) => Has(kc, P) \/ Has(stack, P)
    <3>1. r \in Seq(Frame) /\ \A P : Has(r, P) => Has(stack, P)
      BY <1>0, <2>1, PopFrame
    <3> HIDE DEF r
    <3>2. \A P : Has(kc \o r, P) <=> Has(kc, P) \/ Has(r, P)
      BY <2>6, <3>1, HasConcat
    <3> QED
      BY <2>6, <3>1, <3>2
  <2> QED
    BY <1>1, <2>2, <2>3, <2>4, <2>7, <2>8
<1>9. CASE CleanReturn
  <2> DEFINE k == IF Head(stack).called THEN <<>> ELSE <<Callback>>
  <2>1. stack # <<>> /\ stack' = k \o Tail(stack)
    BY <1>9 DEF CleanReturn, InPc
  <2>2. k \in Seq(Frame) /\ \A P : Has(k, P) => Callback \in P
    BY CallStack, SmallStacks
  <2> DEFINE r == Tail(stack)
  <2>3. r \in Seq(Frame) /\ \A P : Has(r, P) => Has(stack, P)
    BY <1>0, <2>1, PopFrame
  <2>4. stack' = k \o r
    BY <2>1
  <2> HIDE DEF k, r
  <2>5. \A P : Has(k \o r, P) <=> Has(k, P) \/ Has(r, P)
    BY <2>2, <2>3, HasConcat
  <2> QED
    BY <2>2, <2>3, <2>4, <2>5
<1> QED
  BY <1>2, <1>3, <1>4, <1>5, <1>6, <1>7, <1>8, <1>9 DEF Calm

LEMMA CalmReasons ==
  ASSUME Core, Reasons, Calm
  PROVE  Reasons' /\ (threw => threw')
<1>0. UNCHANGED <<inited, finished, creating>> /\ threw \in BOOLEAN
  BY CalmData DEF Core, fields, object, TypeOK
<1>1. /\ At("js") \notin Dead /\ At("js") \notin Cleaners /\ At("js") \notin Enders
      /\ Callback \notin Cleaners /\ Callback \notin Enders /\ (Callback \in Dead => raised)
      /\ \A f \in Cleaners : f \notin Dead /\ f \notin Enders
  <2>1. At("js") \in Frame /\ Callback \in Frame
    BY HandlerFrames, CallStack DEF Plain, Frames
  <2>2. Callback.pc \in {"dead", "js"} /\ (Callback.pc = "dead" => raised)
    BY CallStack
  <2>3. \A f \in Cleaners : f \in Frame
    BY DEF Cleaners, Frames
  <2> QED
    BY <2>1, <2>2, <2>3, HandlerFrames, MoreKinds
<1>2. raised' => raised \/ threw'
  BY DEF Calm, SetRetry, NewTurn, JsReturn, JsThrow, JsCatch, DeadCallback, ProcessClean,
     ProcessReturn, CleanEnter, CleanCall, CleanReturn, ScheduleRefuse, ScheduleQueue, Enter,
     thread
<1>3. threw => threw'
  BY DEF Calm, SetRetry, NewTurn, JsReturn, JsThrow, JsCatch, DeadCallback, ProcessClean,
     ProcessReturn, CleanEnter, CleanCall, CleanReturn, ScheduleRefuse, ScheduleQueue, Enter,
     thread
<1>4. Has(stack', Dead) => Has(stack, Dead) \/ raised
  BY <1>1, CalmAdds
<1>5. Has(stack', Cleaners) => Has(stack, Cleaners) \/ finished
  BY <1>1, CalmAdds
<1>6. Has(stack', Enders) => Has(stack, Enders)
  BY <1>1, CalmAdds
<1>7. creating = "new" => queue' = <<>> /\ issued' = <<>>
  <2> SUFFICES ASSUME creating = "new"
               PROVE  queue' = <<>> /\ issued' = <<>>
    OBVIOUS
  <2>1. queue = <<>> /\ issued = <<>>
    BY DEF Reasons
  <2> QED
    BY <2>1 DEF Calm, SetRetry, NewTurn, JsReturn, JsThrow, JsCatch, DeadCallback, ProcessClean,
       ProcessReturn, CleanEnter, CleanCall, CleanReturn, ScheduleRefuse, ScheduleQueue, Enter,
       history, rest
<1> QED
  BY <1>0, <1>2, <1>3, <1>4, <1>5, <1>6, <1>7 DEF Reasons

LEMMA CalmAttended ==
  ASSUME Core, Kept, Calm
  PROVE  Attended'
<1>0. /\ UNCHANGED <<inited, locked, finished, creating, working>> /\ stack \in Seq(Frame)
      /\ threw => threw'
      /\ Reasons /\ Attended
  BY CalmData, CoreTypes, CalmReasons DEF fields, object, work, Kept, Core
<1>1. ~threw' => \A P : P \cap Passing = {} /\ Has(stack, P) => Has(stack', P)
  BY <1>0, CalmRetains
<1>2. ~threw' /\ Has(stack, Ending) => Has(stack', Ending)
  BY <1>1, MoreKinds
<1>3. ~threw' /\ Has(stack, Creators) => Has(stack', Creators)
  BY <1>1, MoreKinds
<1>4. creating = "over" /\ ~inited /\ ~finished => Has(stack', Creators)
  <2> SUFFICES ASSUME creating = "over", ~inited, ~finished
               PROVE  Has(stack', Creators)
    OBVIOUS
  <2>1. Has(stack, Creators) /\ Creators \subseteq Finishers
    BY <1>0 DEF Attended, Creators, Finishers, Frames
  <2>2. Has(stack, Finishers)
    BY <2>1, HasMore
  <2>3. Has(stack', Finishers)
    BY <2>2, CalmStack DEF Keeps, Core
  <2>4. Core' /\ ~finished'
    BY <1>0, CalmCore
  <2>5. \A f \in Finishers : f \in Creators \/ f \in Releasers
    BY DEF Finishers, Creators, Releasers, Frames
  <2>6. Has(stack', Creators) \/ Has(stack', Releasers)
    BY <2>3, <2>5 DEF Has
  <2> QED
    BY <2>4, <2>6 DEF Core, Releasing
<1>5. ASSUME ~threw', creating = "over", queue' # <<>>, working = "idle"
      PROVE  Has(stack', Pending)
  <2>0. \A P : P \subseteq Pending /\ Has(stack', P) => Has(stack', Pending)
    BY HasMore
  <2>1. Has(stack, Ending) \/ Has(stack, Creators) => Has(stack', Pending)
    BY <1>2, <1>3, <1>5, <2>0, MoreKinds
  <2>2. (~inited /\ ~finished) \/ (inited /\ locked) => Has(stack', Pending)
    BY <1>0, <1>5, <2>1 DEF Attended
  <2>3. /\ At("clean") \in Frame /\ At("clean") \in Pending /\ At("js") \in Frame
        /\ \A b \in BOOLEAN : Cleaning(b) \in Frame /\ Cleaning(b) \in Pending
    <3>1. \A b \in BOOLEAN : Cleaning(b) \in Frame /\ Cleaning(b).pc = "cleaning"
      BY FrameKinds DEF Plain, Frames
    <3>2. At("clean") \in Frame /\ At("clean").pc = "clean" /\ At("js") \in Frame
      BY HandlerFrames DEF Plain, Frames
    <3> QED
      BY <3>1, <3>2, MoreKinds
  <2>4. queue # <<>> => Has(stack, Pending)
    BY <1>0, <1>5 DEF Attended
  <2>5. CASE SetRetry \/ JsCatch
    BY <1>5, <2>4, <2>5 DEF SetRetry, JsCatch, thread, rest
  <2>6. CASE NewTurn
    <3>1. stack = <<>> /\ queue # <<>>
      BY <1>5, <2>6 DEF NewTurn, rest
    <3> QED
      BY <2>4, <3>1, EmptyStack
  <2>7. CASE JsThrow
    BY <1>5, <2>7 DEF JsThrow
  <2>8. CASE DeadCallback
    <3>1. Has(stack, Dead)
      BY <1>0, <2>8, PopFrame, MoreKinds DEF DeadCallback, InPc
    <3> QED
      BY <1>0, <1>5, <3>1 DEF Reasons
  <2>9. CASE JsReturn
    <3>1. stack # <<>> /\ Head(stack).pc = "js" /\ stack' = Tail(stack) /\ queue # <<>>
      BY <1>5, <2>9 DEF JsReturn, Js, InPc, rest
    <3>2. Head(stack) \notin Pending
      BY <1>0, <3>1, PopFrame, MoreKinds
    <3> QED
      BY <1>0, <2>4, <3>1, <3>2, PopFrame
  <2>10. CASE \E o \in Ops : ScheduleRefuse(o)
    <3>1. stack' = <<At("clean")>> \o stack
      BY <2>10 DEF ScheduleRefuse
    <3> QED
      BY <1>0, <2>3, <3>1, PushFrame
  <2>11. CASE \E o \in Ops : ScheduleQueue(o)
    <3>1. ~finished /\ stack' = stack /\ (~inited \/ locked \/ queue # <<>>)
      BY <2>11 DEF ScheduleQueue, MustQueue
    <3> QED
      BY <2>2, <2>4, <3>1
  <2>12. CASE ProcessClean
    <3>1. stack # <<>> /\ stack' = <<At("clean")>> \o Tail(stack)
      BY <2>12 DEF ProcessClean, InPc
    <3>2. Tail(stack) \in Seq(Frame)
      BY <1>0, <3>1, PopFrame
    <3> QED
      BY <2>3, <3>1, <3>2, PushFrame
  <2>13. CASE ProcessReturn
    <3>1. /\ stack # <<>> /\ Head(stack).pc \in {"process", "loop"} /\ queue # <<>>
          /\ ~inited \/ locked
          /\ Head(stack).pc = "process" => ~finished
      BY <1>5, <2>13 DEF ProcessReturn, InLoop, InPc
    <3>2. Head(stack).pc # "loop"
      <4>1. Head(stack).pc = "loop" => Has(stack, Loops)
        BY <1>0, <3>1, PopFrame, FrameKinds
      <4> QED
        BY <1>5, <4>1 DEF Core, Locks
    <3> QED
      BY <2>2, <3>1, <3>2
  <2>14. CASE CleanEnter
    <3>1. stack # <<>> /\ stack' = <<Cleaning(FALSE)>> \o Tail(stack)
      BY <1>5, <2>14 DEF CleanEnter, InPc
    <3>2. Tail(stack) \in Seq(Frame)
      BY <1>0, <3>1, PopFrame
    <3> QED
      BY <2>3, <3>1, <3>2, PushFrame
  <2>15. CASE CleanCall
    <3> DEFINE b == Head(stack).called \/ Head(queue) \notin Silent
               c == <<Cleaning(b)>>
               k == Call(Head(queue))
    <3>1. stack # <<>> /\ stack' = k \o c \o Tail(stack)
      BY <2>15 DEF CleanCall, InPc
    <3>2. b \in BOOLEAN
      BY <1>0, <3>1, PopFrame, FrameKinds
    <3> HIDE DEF b
    <3>3. c \in Seq(Frame) /\ Has(c, Pending)
      BY <2>3, <3>2, SmallStacks
    <3>4. k \in Seq(Frame)
      BY CallStack
    <3> HIDE DEF c, k
    <3>5. k \o c \in Seq(Frame) /\ Has(k \o c, Pending)
      BY <3>3, <3>4, HasConcat
    <3> DEFINE kc == k \o c
               r == Tail(stack)
    <3>6. stack' = kc \o r /\ kc \in Seq(Frame) /\ Has(kc, Pending)
      BY <3>1, <3>5
    <3>7. r \in Seq(Frame)
      BY <1>0, <3>1, PopFrame
    <3> HIDE DEF kc, r
    <3>8. Has(kc \o r, Pending)
      BY <3>6, <3>7, HasConcat
    <3> QED
      BY <3>6, <3>8
  <2>16. CASE CleanReturn
    BY <1>5, <2>16 DEF CleanReturn
  <2> QED
    BY <2>5, <2>6, <2>7, <2>8, <2>9, <2>10, <2>11, <2>12, <2>13, <2>14, <2>15, <2>16 DEF Calm
<1>6. ~threw' /\ inited /\ locked => working # "idle" \/ Has(stack', Ending)
  BY <1>0, <1>2 DEF Attended
<1> QED
  BY <1>0, <1>4, <1>5, <1>6 DEF Attended

LEMMA CalmConserved ==
  ASSUME Core, Kept, Calm
  PROVE  Conserved'
<1>0. /\ UNCHANGED <<inited, finished, creating, current>> /\ stack \in Seq(Frame)
      /\ queue \in Seq(Ops) /\ issued \in Seq(Ops) /\ answers \in Seq(Answer)
      /\ threw => threw'
      /\ Reasons /\ Conserved
  BY CalmData, CoreTypes, CalmReasons DEF fields, object, work, Kept, Core
<1> SUFFICES ASSUME ~threw', inited \/ creating # "over",
                    NEW o \in Ops, Has(issued', {o})
             PROVE  \/ Has(queue', {o}) \/ current = o
                    \/ Has(stack', ReleaseOf(o)) \/ Has(answers', AnswerOf(o))
  BY <1>0 DEF Conserved
<1>1. Has(stack, ReleaseOf(o)) => Has(stack', ReleaseOf(o))
  BY <1>0, CalmRetains, MoreKinds
<1>2. Has(issued, {o}) => \/ Has(queue, {o}) \/ current = o
                          \/ Has(stack, ReleaseOf(o)) \/ Has(answers, AnswerOf(o))
  BY <1>0 DEF Conserved
<1>3. CASE UNCHANGED <<queue, issued, answers>>
  BY <1>1, <1>2, <1>3
<1>4. CASE \E d \in Ops : ScheduleRefuse(d) \/ ScheduleQueue(d)
  <2>1. PICK d \in Ops : /\ queue' = Append(queue, d) /\ issued' = Append(issued, d)
                         /\ answers' = answers
    BY <1>4 DEF ScheduleRefuse, ScheduleQueue, Enter
  <2>2. /\ Has(issued', {o}) <=> Has(issued, {o}) \/ o = d
        /\ Has(queue', {o}) <=> Has(queue, {o}) \/ o = d
    BY <1>0, <2>1, AppendHas
  <2> QED
    BY <1>1, <1>2, <2>1, <2>2
<1>5. CASE CleanCall
  <2> DEFINE h == Head(queue)
             a == [op |-> h, says |-> "refused"]
  <2>1. queue # <<>> /\ queue' = Tail(queue) /\ Tell(h, "refused") /\ UNCHANGED <<issued, threw>>
    BY <1>5 DEF CleanCall
  <2>2. h \in Ops /\ Has(queue, {o}) => h = o \/ Has(queue', {o})
    BY <1>0, <2>1, PopFrame
  <2>3. answers' = Append(answers, a)
    BY <1>0, <2>1 DEF Tell, Reasons
  <2>4. h \in Ops
    BY <1>0, <2>1, PopFrame
  <2> HIDE DEF h
  <2>5. a \in Answer /\ a \in AnswerOf(h)
    BY <2>4 DEF Answer, AnswerOf, Says
  <2> HIDE DEF a
  <2>6. \A P : Has(answers', P) <=> Has(answers, P) \/ a \in P
    BY <1>0, <2>3, <2>5, AppendHas
  <2> QED
    BY <1>1, <1>2, <2>1, <2>2, <2>4, <2>5, <2>6
<1>6. CASE CleanEnter
  <2>1. Has(stack, Cleaners)
    BY <1>0, <1>6, PopFrame, MoreKinds DEF CleanEnter, InPc
  <2>2. inited
    BY <1>0, <2>1 DEF Reasons, Core, Locks
  <2>3. UNCHANGED <<queue, issued, answers>>
    BY <1>6, <2>2 DEF CleanEnter, history
  <2> QED
    BY <1>3, <2>3
<1> QED
  <2>1. \/ UNCHANGED <<queue, issued, answers>> \/ CleanCall \/ CleanEnter
        \/ \E d \in Ops : ScheduleRefuse(d) \/ ScheduleQueue(d)
    BY DEF Calm, SetRetry, NewTurn, JsReturn, JsThrow, JsCatch, DeadCallback, ProcessClean,
       ProcessReturn, CleanReturn, history, rest
  <2> QED
    BY <1>3, <1>4, <1>5, <1>6, <2>1

LEMMA CalmKept ==
  ASSUME Core, Kept, Calm
  PROVE  Kept'
<1>1. Reasons
  BY DEF Kept
<1> QED
  BY <1>1, CalmReasons, CalmAttended, CalmConserved DEF Kept

\* The frames at which the handlers of the other actions go on.
LEMMA KindsOfFrames ==
  /\ At("js") \in Frame /\ At("js") \notin Dead \cup Cleaners \cup Enders
  /\ At("reject") \in Frame /\ At("reject") \notin Dead \cup Cleaners \cup Enders
  /\ At("reject") \in Creators \cap Pending
  /\ At("end") \in Frame /\ At("end") \notin Dead \cup Cleaners
  /\ At("end") \in Ending \cap Pending
  /\ At("errorEnd") \in Frame /\ At("errorEnd") \notin Dead \cup Cleaners
  /\ At("errorEnd") \in Ending \cap Pending
  /\ At("failed") \in Frame /\ At("failed") \notin Dead \cup Cleaners \cup Enders
  /\ At("failed") \in Creators \cap Pending
  /\ At("process") \in Frame /\ At("process") \notin Dead \cup Cleaners
  /\ At("process") \in Pending
  /\ At("loop") \in Frame /\ At("loop") \notin Dead \cup Cleaners \cup Enders
  /\ At("clean") \in Frame /\ At("clean") \notin Dead \cup Enders
  /\ At("clean") \in Cleaners \cap Pending
  /\ Callback \in Frame /\ Callback \notin Cleaners \cup Enders /\ (Callback \in Dead => raised)
  /\ \A o \in Ops \cup {NoOp} :
       Release(o) \in Frame /\ Release(o) \notin Dead \cup Cleaners \cup Enders
  /\ \A o \in Ops : Release(o) \in Ending \cap Pending \cap ReleaseOf(o)
<1>1. /\ At("js") \in Frame /\ At("clean") \in Frame /\ At("process") \in Frame
      /\ Callback \in Frame
  BY HandlerFrames, CallStack DEF Plain, Frames
<1>2. Callback.pc \in {"dead", "js"} /\ (Callback.pc = "dead" => raised)
  BY CallStack
<1>3. Callback \notin Cleaners \cup Enders /\ (Callback \in Dead => raised)
  BY <1>1, <1>2, MoreKinds
<1>4. \A o \in Ops \cup {NoOp} :
        Release(o) \in Frame /\ Release(o) \notin Dead \cup Cleaners \cup Enders
  BY FrameKinds, MoreKinds
<1>5. \A o \in Ops : Release(o) \in Ending \cap Pending \cap ReleaseOf(o)
  <2> SUFFICES ASSUME NEW o \in Ops
               PROVE  Release(o) \in Ending \cap Pending \cap ReleaseOf(o)
    OBVIOUS
  <2> DEFINE f == Release(o)
  <2>1. f \in Frame /\ f.pc = "release" /\ f.op = o /\ o # NoOp
    BY FrameKinds, OpsAssumption
  <2> HIDE DEF f
  <2>2. f \in Ending
    BY <2>1, FrameKinds
  <2>3. f \in Pending /\ f \in ReleaseOf(o)
    BY <2>1, MoreKinds
  <2> QED
    BY <2>2, <2>3 DEF f
<1>6. At("js") \notin Dead \cup Cleaners \cup Enders
  BY <1>1, HandlerFrames, MoreKinds
<1>7. /\ At("reject") \notin Dead \cup Cleaners \cup Enders
      /\ At("reject") \in Creators \cap Pending
  BY HandlerFrames, MoreKinds, FrameKinds
<1>8. At("end") \notin Dead \cup Cleaners /\ At("end") \in Ending \cap Pending
  BY HandlerFrames, MoreKinds, FrameKinds
<1>9. At("errorEnd") \notin Dead \cup Cleaners /\ At("errorEnd") \in Ending \cap Pending
  BY HandlerFrames, MoreKinds, FrameKinds
<1>10. /\ At("failed") \notin Dead \cup Cleaners \cup Enders
       /\ At("failed") \in Creators \cap Pending
  BY HandlerFrames, MoreKinds, FrameKinds
<1>11. At("process") \notin Dead \cup Cleaners /\ At("process") \in Pending
  BY <1>1, HandlerFrames, MoreKinds
<1>12. At("loop") \notin Dead \cup Cleaners \cup Enders
  BY HandlerFrames, MoreKinds
<1>13. At("clean") \notin Dead \cup Enders /\ At("clean") \in Cleaners \cap Pending
  BY <1>1, HandlerFrames, MoreKinds
<1> QED
  BY <1>1, <1>3, <1>4, <1>5, <1>6, <1>7, <1>8, <1>9, <1>10, <1>11, <1>12, <1>13, HandlerFrames

\* An operation is answered, unless an exception keeps it from being told.
LEMMA Answered ==
  ASSUME answers \in Seq(Answer), NEW o \in Ops, NEW says \in Says, Tell(o, says)
  PROVE  /\ \A P : Has(answers, P) => Has(answers', P)
         /\ ~raised => Has(answers', AnswerOf(o))
<1> DEFINE a == [op |-> o, says |-> says]
           q == Append(answers, a)
<1>1. a \in Answer /\ a \in AnswerOf(o)
  BY DEF Answer, AnswerOf
<1>2. (answers' = answers \/ answers' = q) /\ (~raised => answers' = q)
  BY DEF Tell
<1> HIDE DEF a
<1>3. \A P : Has(q, P) <=> Has(answers, P) \/ a \in P
  BY <1>1, AppendHas
<1> HIDE DEF q
<1> QED
  BY <1>1, <1>2, <1>3

LEMMA KeptCreate ==
  ASSUME Core, Kept,
         Construct \/ ConstructRejected \/ Create \/ WorkInitialize \/ AfterInitialize
  PROVE  Kept'
<1>0. /\ stack \in Seq(Frame) /\ Locks /\ DataOK
      /\ Reasons /\ Attended /\ Conserved
  BY CoreTypes DEF Kept
<1>1. /\ UNCHANGED <<queue, issued, answers, working, current, threw, raised>>
      /\ creating # "over" /\ creating' # "new" /\ ~inited /\ ~finished
  <2>1. /\ UNCHANGED <<queue, issued, answers, working, current, threw, raised>>
        /\ creating # "over" /\ creating' # "new"
    BY DEF Construct, ConstructRejected, Create, CreateBegin, CreateRejected, WorkInitialize,
       AfterInitialize, thread, history, work
  <2> QED
    BY <1>0, <2>1 DEF Locks
<1>2. CASE Construct \/ CreateBegin \/ WorkInitialize
  <2>1. UNCHANGED <<stack, inited, finished>> /\ creating' # "over"
    BY <1>2 DEF Construct, CreateBegin, WorkInitialize, thread, fields
  <2> QED
    BY <1>0, <1>1, <2>1 DEF Kept, Reasons, Attended, Conserved
<1>3. CASE ConstructRejected
  <2>1. /\ finished' = TRUE /\ inited' = inited /\ creating = "new" /\ creating' = "over"
        /\ stack' = <<Callback>> \o stack
    BY <1>3 DEF ConstructRejected, Settle
  <2>2. \A P : Has(stack', P) <=> Callback \in P \/ Has(stack, P)
    BY <1>0, <2>1, KindsOfFrames, PushFrame
  <2>3. Reasons'
    BY <1>0, <1>1, <2>1, <2>2, KindsOfFrames DEF Reasons
  <2>4. queue' = <<>>
    BY <1>0, <1>1, <2>1 DEF Reasons
  <2> QED
    BY <1>1, <2>1, <2>3, <2>4 DEF Kept, Attended, Conserved
<1>4. CASE CreateRejected
  <2> DEFINE f == At("reject")
  <2>1. /\ UNCHANGED <<inited, finished>> /\ creating' = "over"
        /\ stack' = <<Callback, f>> \o stack
    BY <1>4 DEF CreateRejected, fields
  <2>2. Callback \in Frame /\ f \in Frame
    BY KindsOfFrames
  <2>3. /\ <<Callback, f>> \in Seq(Frame)
        /\ \A P : Has(<<Callback, f>>, P) <=> Callback \in P \/ f \in P
    BY <2>2, SmallStacks
  <2> DEFINE t == <<Callback, f>>
  <2> HIDE DEF t
  <2>4. \A P : Has(t \o stack, P) <=> Has(t, P) \/ Has(stack, P)
    BY <1>0, <2>3, HasConcat DEF t
  <2>5. \A P : Has(stack', P) <=> Callback \in P \/ f \in P \/ Has(stack, P)
    BY <2>1, <2>3, <2>4 DEF t
  <2> HIDE DEF f
  <2>6. /\ f \notin Dead \cup Cleaners \cup Enders /\ f \in Creators \cap Pending
        /\ Callback \notin Cleaners \cup Enders /\ (Callback \in Dead => raised)
    BY KindsOfFrames DEF f
  <2>7. Reasons'
    BY <1>0, <1>1, <2>1, <2>5, <2>6 DEF Reasons
  <2>8. Attended' /\ Conserved'
    BY <1>1, <2>1, <2>5, <2>6 DEF Attended, Conserved
  <2> QED
    BY <2>7, <2>8 DEF Kept
<1>5. CASE AfterInitialize
  <2> DEFINE f == At(IF status = "ok" THEN "end" ELSE "failed")
  <2>1. /\ finished' = finished /\ (inited' <=> status = "ok") /\ creating' = "over"
        /\ stack = <<>> /\ stack' = <<At("js"), f>>
    BY <1>5 DEF AfterInitialize, EventLoop
  <2>2. /\ f \in Frame /\ f \notin Dead \cup Cleaners /\ f \in Pending
        /\ status = "ok" => f \in Ending
        /\ status # "ok" => f \in Creators /\ f \notin Enders
    BY KindsOfFrames
  <2> HIDE DEF f
  <2>3. /\ \A P : ~Has(stack, P)
        /\ \A P : Has(stack', P) <=> At("js") \in P \/ f \in P
    BY <2>1, <2>2, KindsOfFrames, SmallStacks, EmptyStack
  <2>4. Reasons'
    BY <1>0, <1>1, <2>1, <2>2, <2>3, KindsOfFrames DEF Reasons
  <2>5. Attended'
    BY <1>1, <2>1, <2>2, <2>3 DEF Attended
  <2>6. Conserved'
    BY <1>0, <1>1, <2>1, <2>3 DEF Conserved
  <2> QED
    BY <2>4, <2>5, <2>6 DEF Kept
<1> QED
  BY <1>2, <1>3, <1>4, <1>5 DEF Create

LEMMA KeptRun ==
  ASSUME Core, Kept, ProcessRun \/ \E o \in Ops : ScheduleRun(o)
  PROVE  Kept'
<1>0. /\ stack \in Seq(Frame) /\ queue \in Seq(Ops) /\ issued \in Seq(Ops) /\ Locks
      /\ Reasons /\ Attended /\ Conserved
  BY CoreTypes DEF Kept
<1>1. /\ UNCHANGED <<inited, finished, creating, raised, threw, answers>> /\ inited /\ ~locked
      /\ working' = "begun"
  BY DEF ProcessRun, ScheduleRun, Run, Enter, MustQueue, object, history
<1>2. creating = "over" /\ current = NoOp
  BY <1>0, <1>1 DEF Locks
<1>3. CASE \E o \in Ops : ScheduleRun(o)
  <2>1. PICK o \in Ops : /\ issued' = Append(issued, o) /\ current' = o
                         /\ UNCHANGED <<queue, stack>>
    BY <1>3 DEF ScheduleRun, Enter, Run
  <2>2. \A d \in Ops : Has(issued', {d}) <=> Has(issued, {d}) \/ d = o
    BY <1>0, <2>1, AppendHas
  <2>3. Conserved'
    BY <1>0, <1>1, <1>2, <2>1, <2>2, OpsAssumption DEF Conserved
  <2>4. Reasons' /\ Attended'
    BY <1>0, <1>1, <1>2, <2>1 DEF Reasons, Attended
  <2> QED
    BY <2>3, <2>4 DEF Kept
<1>4. CASE ProcessRun
  <2> DEFINE r == Tail(stack)
             l == At("loop")
             k == Head(queue)
  <2>1. /\ stack # <<>> /\ Head(stack).pc \in {"process", "loop"} /\ stack' = <<l>> \o r
        /\ queue # <<>> /\ queue' = Tail(queue) /\ current' = k /\ issued' = issued
    BY <1>4 DEF ProcessRun, InLoop, InPc, Run, history
  <2>2. /\ Head(stack) \in Frame /\ r \in Seq(Frame)
        /\ \A P : Has(stack, P) <=> Head(stack) \in P \/ Has(r, P)
    BY <1>0, <2>1, PopFrame
  <2>3. l \in Frame /\ l \notin Dead \cup Cleaners \cup Enders
    BY KindsOfFrames
  <2>4. \A o \in Ops : Has(queue, {o}) => Has(queue', {o}) \/ current' = o
    BY <1>0, <2>1, PopFrame
  <2>5. \A o : Head(stack) \notin ReleaseOf(o)
    BY <2>1, <2>2, MoreKinds
  <2> HIDE DEF r, l, k
  <2>6. \A P : Has(stack', P) <=> l \in P \/ Has(r, P)
    BY <2>1, <2>2, <2>3, PushFrame
  <2>7. Reasons'
    BY <1>0, <1>1, <1>2, <2>2, <2>3, <2>6 DEF Reasons
  <2>8. Attended'
    BY <1>1 DEF Attended
  <2>9. Conserved'
    <3>1. \A o \in Ops : Has(stack, ReleaseOf(o)) => Has(stack', ReleaseOf(o))
      BY <2>2, <2>5, <2>6
    <3> QED
      BY <1>0, <1>1, <1>2, <2>1, <2>4, <3>1, OpsAssumption DEF Conserved
  <2> QED
    BY <2>7, <2>8, <2>9 DEF Kept
<1> QED
  BY <1>3, <1>4

LEMMA KeptWork ==
  ASSUME Core, Kept, NEW o \in Ops, Work(o) \/ After(o)
  PROVE  Kept'
<1>0. /\ stack \in Seq(Frame) /\ answers \in Seq(Answer) /\ Locks
      /\ Reasons /\ Attended /\ Conserved
  BY CoreTypes DEF Kept
<1>1. /\ UNCHANGED <<inited, locked, creating, queue, issued, raised, threw>>
      /\ working # "idle" /\ current = o
  BY DEF Work, WorkStep, WorkFinish, Working, After, AfterStep, AfterFinish, Ended, fields,
     object, thread, history
<1>2. inited /\ creating = "over" /\ ~finished
  BY <1>0, <1>1 DEF Locks
<1>3. CASE Work(o)
  <2>1. UNCHANGED <<stack, finished, answers, current>> /\ working' = "ran"
    BY <1>3 DEF Work, WorkStep, WorkFinish, Working, fields, thread, history
  <2> QED
    BY <1>0, <1>1, <1>2, <2>1 DEF Kept, Reasons, Attended, Conserved
<1>4. CASE After(o)
  <2>1. stack = <<>> /\ ~raised /\ \A P : ~Has(stack, P)
    <3>1. stack = <<>> /\ ~raised
      BY <1>4 DEF After, AfterStep, AfterFinish, Ended, EventLoop
    <3> QED
      BY <3>1, EmptyStack
  <2>2. /\ Has(stack', Ending) /\ Has(stack', Pending) /\ ~Has(stack', Dead)
        /\ Has(stack', Cleaners) => finished'
    <3>1. CASE AfterStep(o)
      <4>1. CASE stack' = Call(o) \o <<At("end")>>
        <5> DEFINE e == <<At("end")>>
                   c == Call(o)
        <5>1. /\ e \in Seq(Frame) /\ Has(e, Ending) /\ Has(e, Pending)
              /\ ~Has(e, Dead) /\ ~Has(e, Cleaners)
          BY KindsOfFrames, SmallStacks
        <5>2. c \in Seq(Frame) /\ ~Has(c, Dead) /\ ~Has(c, Cleaners)
          BY <2>1, KindsOfFrames, CallStack
        <5> HIDE DEF e, c
        <5>3. \A P : Has(c \o e, P) <=> Has(c, P) \/ Has(e, P)
          BY <5>1, <5>2, HasConcat
        <5>4. stack' = c \o e
          BY <4>1 DEF c, e
        <5> QED
          BY <5>1, <5>2, <5>3, <5>4
      <4>2. CASE stack' = <<At("js"), At("errorEnd")>>
        <5> DEFINE f == At("js")
                   g == At("errorEnd")
        <5>1. /\ f \in Frame /\ f \notin Dead \cup Cleaners
              /\ g \in Frame /\ g \notin Dead \cup Cleaners /\ g \in Ending \cap Pending
          BY KindsOfFrames
        <5> HIDE DEF f, g
        <5>2. \A P : Has(<<f, g>>, P) <=> f \in P \/ g \in P
          BY <5>1, SmallStacks
        <5> QED
          BY <4>2, <5>1, <5>2 DEF f, g
      <4> QED
        BY <3>1, <4>1, <4>2 DEF AfterStep
    <3>2. CASE AfterFinish(o)
      <4> DEFINE f == At("clean")
                 g == Release(o)
      <4>1. stack' = <<f, g>> /\ finished'
        BY <3>2 DEF AfterFinish, Settle
      <4>2. /\ f \in Frame /\ f \notin Dead /\ f \in Pending
            /\ g \in Frame /\ g \notin Dead /\ g \in Ending
        BY KindsOfFrames
      <4> HIDE DEF f, g
      <4>3. \A P : Has(<<f, g>>, P) <=> f \in P \/ g \in P
        BY <4>2, SmallStacks
      <4> QED
        BY <4>1, <4>2, <4>3
    <3> QED
      BY <1>4, <3>1, <3>2 DEF After
  <2>3. Has(stack', ReleaseOf(o)) \/ Has(answers', AnswerOf(o))
    <3>1. CASE AfterStep(o)
      <4>1. PICK s \in Says : Tell(o, s)
        BY <3>1 DEF AfterStep, Says
      <4> QED
        BY <1>0, <2>1, <4>1, Answered
    <3>2. CASE AfterFinish(o)
      <4>1. stack' = <<At("clean"), Release(o)>>
        BY <3>2 DEF AfterFinish
      <4> QED
        BY <4>1, KindsOfFrames, SmallStacks
    <3> QED
      BY <1>4, <3>1, <3>2 DEF After
  <2>4. \A P : Has(answers, P) => Has(answers', P)
    <3>1. CASE AfterStep(o)
      <4>1. PICK s \in Says : Tell(o, s)
        BY <3>1 DEF AfterStep, Says
      <4> QED
        BY <1>0, <4>1, Answered
    <3>2. CASE AfterFinish(o)
      BY <3>2 DEF AfterFinish
    <3> QED
      BY <1>4, <3>1, <3>2 DEF After
  <2>5. Reasons'
    BY <1>0, <1>1, <1>2, <2>2 DEF Reasons
  <2>6. Attended'
    BY <1>1, <1>2, <2>2 DEF Attended
  <2>7. Conserved'
    BY <1>0, <1>1, <1>2, <2>1, <2>3, <2>4 DEF Conserved
  <2> QED
    BY <2>5, <2>6, <2>7 DEF Kept
<1> QED
  BY <1>3, <1>4

LEMMA KeptEnd ==
  ASSUME Core, Kept, End
  PROVE  Kept'
<1>0. stack \in Seq(Frame) /\ Locks /\ Reasons /\ Attended /\ Conserved
  BY CoreTypes DEF Kept
<1> DEFINE h == Head(stack)
           r == Tail(stack)
           p == At("process")
<1>1. /\ stack # <<>> /\ h.pc \in {"end", "errorEnd"} /\ stack' = <<p>> \o r
      /\ locked' = FALSE
      /\ UNCHANGED <<inited, finished, creating, queue, issued, answers, working, current,
                     raised, threw>>
  BY DEF End, InPc, work, object, history
<1>2. /\ h \in Frame /\ r \in Seq(Frame)
      /\ \A P : Has(stack, P) <=> h \in P \/ Has(r, P)
  BY <1>0, <1>1, PopFrame
<1>3. h \in Enders /\ (\A o : h \notin ReleaseOf(o))
  BY <1>1, <1>2, MoreKinds
<1>4. p \in Frame /\ p \notin Dead \cup Cleaners /\ p \in Pending
  BY KindsOfFrames
<1> HIDE DEF h, r, p
<1>5. \A P : Has(stack', P) <=> p \in P \/ Has(r, P)
  BY <1>1, <1>2, <1>4, PushFrame
<1>6. inited \/ finished
  BY <1>0, <1>2, <1>3 DEF Reasons
<1>7. Reasons'
  BY <1>0, <1>1, <1>2, <1>4, <1>5, <1>6 DEF Reasons
<1>8. Attended'
  BY <1>1, <1>4, <1>5, <1>6 DEF Attended
<1>9. Conserved'
  <2>1. \A o \in Ops : Has(stack, ReleaseOf(o)) => Has(stack', ReleaseOf(o))
    BY <1>2, <1>3, <1>5
  <2> QED
    BY <1>0, <1>1, <2>1 DEF Conserved
<1> QED
  BY <1>7, <1>8, <1>9 DEF Kept

LEMMA KeptFinishFailed ==
  ASSUME Core, Kept, FinishFailed
  PROVE  Kept'
<1>0. stack \in Seq(Frame) /\ Locks /\ Reasons /\ Attended /\ Conserved
  BY CoreTypes DEF Kept
<1> DEFINE h == Head(stack)
           r == Tail(stack)
           f == At("clean")
           g == Release(NoOp)
           c == <<f, g>>
           e == IF h.pc = "failed" THEN <<At("errorEnd")>> ELSE <<>>
           k == c \o e
<1>1. /\ stack # <<>> /\ h.pc \in {"failed", "reject"} /\ stack' = k \o r
      /\ finished' = TRUE
      /\ UNCHANGED <<inited, locked, creating, queue, issued, answers, working, current,
                     raised, threw>>
  BY DEF FinishFailed, InPc, Settle, work, object, history
<1>2. /\ h \in Frame /\ h \in Creators /\ h \in Finishers /\ r \in Seq(Frame)
      /\ \A P : Has(stack, P) <=> h \in P \/ Has(r, P)
  BY <1>0, <1>1, PopFrame, FrameKinds
<1>3. ~inited /\ creating = "over"
  BY <1>2 DEF Core, Releasing
<1>4. c \in Seq(Frame) /\ Has(c, Pending) /\ ~Has(c, Dead)
  <2>1. f \in Frame /\ f \notin Dead /\ f \in Pending /\ g \in Frame /\ g \notin Dead
    BY KindsOfFrames
  <2> HIDE DEF f, g
  <2> QED
    BY <2>1, SmallStacks
<1>5. e \in Seq(Frame) /\ ~Has(e, Dead)
  BY KindsOfFrames, SmallStacks
<1> HIDE DEF c, e, h, r
<1>6. k \in Seq(Frame) /\ \A P : Has(k, P) <=> Has(c, P) \/ Has(e, P)
  BY <1>4, <1>5, HasConcat
<1> HIDE DEF k
<1>7. /\ \A P : Has(k, P) => Has(stack', P)
      /\ \A P : Has(stack', P) => Has(k, P) \/ Has(stack, P)
  <2>1. \A P : Has(k \o r, P) <=> Has(k, P) \/ Has(r, P)
    BY <1>2, <1>6, HasConcat
  <2> QED
    BY <1>1, <1>2, <2>1
<1>8. Reasons'
  BY <1>0, <1>1, <1>3, <1>4, <1>5, <1>6, <1>7 DEF Reasons
<1>9. Attended'
  BY <1>1, <1>3, <1>4, <1>6, <1>7 DEF Attended
<1>10. Conserved'
  BY <1>1, <1>3 DEF Conserved
<1> QED
  BY <1>8, <1>9, <1>10 DEF Kept

LEMMA KeptFinishRelease ==
  ASSUME Core, Kept, FinishRelease
  PROVE  Kept'
<1>0. /\ stack \in Seq(Frame) /\ answers \in Seq(Answer) /\ Locks
      /\ Reasons /\ Attended /\ Conserved
  BY CoreTypes DEF Kept
<1> DEFINE h == Head(stack)
           r == Tail(stack)
<1>1. /\ stack # <<>> /\ h.pc = "release" /\ FinishTell(h.op)
      /\ UNCHANGED <<inited, locked, finished, creating, queue, issued, working, current,
                     raised, threw>>
  BY DEF FinishRelease, InPc, fields, work
<1>2. /\ h \in Frame /\ h.op \in Ops \cup {NoOp} /\ r \in Seq(Frame)
      /\ \A P : Has(stack, P) <=> h \in P \/ Has(r, P)
  BY <1>0, <1>1, PopFrame, FrameKinds
<1>3. finished /\ creating = "over"
  <2>1. Has(stack, Releasers)
    BY <1>1, <1>2, FrameKinds
  <2> QED
    BY <2>1 DEF Core, Releasing, Locks
<1>4. CASE h.op = NoOp
  <2>1. stack' = r /\ answers' = answers
    BY <1>1, <1>4 DEF FinishTell
  <2>2. /\ h \notin Ending /\ h \notin Pending
        /\ \A o \in Ops : h \notin ReleaseOf(o)
    BY <1>1, <1>2, <1>4, FrameKinds, MoreKinds, OpsAssumption
  <2> HIDE DEF h, r
  <2>3. Reasons'
    BY <1>0, <1>1, <1>2, <1>3, <2>1 DEF Reasons
  <2>4. Attended'
    BY <1>0, <1>1, <1>2, <1>3, <2>1, <2>2 DEF Attended
  <2>5. Conserved'
    BY <1>0, <1>1, <1>2, <2>1, <2>2 DEF Conserved
  <2> QED
    BY <2>3, <2>4, <2>5 DEF Kept
<1>5. CASE h.op # NoOp
  <2> DEFINE o == h.op
             c == Call(o)
             e == <<At("end")>>
             k == c \o e
  <2>1. o \in Ops /\ Tell(o, "ok") /\ stack' = k \o r
    BY <1>1, <1>2, <1>5 DEF FinishTell
  <2>2. \A d \in Ops : h \in ReleaseOf(d) => d = o
    BY <1>1, <1>2, MoreKinds
  <2>3. /\ e \in Seq(Frame) /\ Has(e, Ending) /\ Has(e, Pending)
        /\ ~Has(e, Dead) /\ ~Has(e, Cleaners)
    BY KindsOfFrames, SmallStacks
  <2>4. c \in Seq(Frame) /\ (Has(c, Dead) => raised) /\ ~Has(c, Cleaners)
    BY KindsOfFrames, CallStack
  <2> HIDE DEF c, e, h, r, o
  <2>5. k \in Seq(Frame) /\ \A P : Has(k, P) <=> Has(c, P) \/ Has(e, P)
    BY <2>3, <2>4, HasConcat
  <2> HIDE DEF k
  <2>6. \A P : /\ Has(stack', P) <=> Has(k, P) \/ Has(r, P)
               /\ Has(stack, P) <=> h \in P \/ Has(r, P)
    BY <1>2, <2>1, <2>5, HasConcat
  <2>7. /\ \A P : Has(answers, P) => Has(answers', P)
        /\ ~raised => Has(answers', AnswerOf(o))
    BY <1>0, <2>1, Answered DEF Says
  <2>8. Reasons'
    BY <1>0, <1>1, <1>3, <2>3, <2>4, <2>5, <2>6 DEF Reasons
  <2>9. Attended'
    BY <1>1, <1>3, <2>3, <2>5, <2>6 DEF Attended
  <2>10. Conserved'
    <3>1. \A d \in Ops : Has(stack, ReleaseOf(d)) => d = o \/ Has(stack', ReleaseOf(d))
      BY <2>2, <2>6
    <3>2. ~threw' => ~raised
      BY <1>0, <1>1 DEF Reasons
    <3> QED
      BY <1>0, <1>1, <2>7, <3>1, <3>2 DEF Conserved
  <2> QED
    BY <2>8, <2>9, <2>10 DEF Kept
<1> QED
  BY <1>4, <1>5

LEMMA KeptNext ==
  ASSUME Core, Kept, [Next]_vars
  PROVE  Kept'
<1>1. CASE Calm
  BY <1>1, CalmKept
<1>2. CASE Construct \/ ConstructRejected \/ Create \/ WorkInitialize \/ AfterInitialize
  BY <1>2, KeptCreate
<1>3. CASE ProcessRun \/ \E o \in Ops : ScheduleRun(o)
  BY <1>3, KeptRun
<1>4. CASE \E o \in Ops : Work(o) \/ After(o)
  BY <1>4, KeptWork
<1>5. CASE End
  BY <1>5, KeptEnd
<1>6. CASE FinishFailed
  BY <1>6, KeptFinishFailed
<1>7. CASE FinishRelease
  BY <1>7, KeptFinishRelease
<1>8. CASE Collect
  <2>1. /\ UNCHANGED <<inited, locked, stack, queue, issued, answers, working, current, raised,
                       threw, creating>>
        /\ finished' /\ queue = <<>>
    BY <1>8 DEF Collect, Settle, thread, work, history
  <2> QED
    BY <2>1 DEF Kept, Reasons, Attended, Conserved
<1>9. CASE UNCHANGED vars
  BY <1>9 DEF vars, Kept, Reasons, Attended, Conserved, fields, work, object, thread, history
<1> QED
  BY <1>1, <1>2, <1>3, <1>4, <1>5, <1>6, <1>7, <1>8, <1>9
     DEF Next, Handler, Schedule, Calm

LEMMA KeptInvariant == Spec => [](Core /\ Kept)
<1>1. Init => Kept
  <2> SUFFICES ASSUME Init
               PROVE  Kept
    OBVIOUS
  <2>1. \A P : Has(stack, P) <=> At("js") \in P
    BY KindsOfFrames, SmallStacks DEF Init
  <2>2. \A P : ~Has(issued, P)
    BY EmptyStack DEF Init
  <2>3. Reasons
    BY <2>1, KindsOfFrames DEF Init, Reasons
  <2>4. Attended /\ Conserved
    BY <2>2 DEF Init, Attended, Conserved
  <2> QED
    BY <2>3, <2>4 DEF Kept
<1>2. Core /\ Kept /\ [Next]_vars => Kept'
  BY KeptNext
<1> QED
  BY <1>1, <1>2, CoreInvariant, PTL DEF Spec

\* A backup that says it is idle has nothing in progress, and neither an idle
\* backup nor one with nothing under way keeps an operation without an answer,
\* for as long as no callback throws.
THEOREM BackupIdleHonest == Spec => []IdleHonest
<1>1. Core /\ Kept => IdleHonest
  <2> SUFFICES ASSUME Core, Kept
               PROVE  IdleHonest
    OBVIOUS
  <2>0. /\ issued \in Seq(Ops) /\ Locks /\ Reasons /\ Attended /\ Conserved
        /\ stack \in Seq(Frame)
    BY CoreTypes DEF Kept
  <2>1. Idle => current = NoOp /\ ~Has(stack, Ending) /\ queue = <<>> /\ creating = "over"
    BY <2>0 DEF Idle, Locks
  <2>2. Quiet => current = NoOp /\ \A P : ~Has(stack, P)
    BY <2>0, EmptyStack DEF Quiet, Locks
  <2>3. (Idle \/ Quiet) /\ ~threw => queue = <<>>
    BY <2>0, <2>1, <2>2 DEF Attended, Quiet
  <2>4. \A o \in Ops : ReleaseOf(o) \subseteq Ending
    BY FrameKinds, OpsAssumption DEF ReleaseOf
  <2>5. (Idle \/ Quiet) => \A o \in Ops : ~Has(stack, ReleaseOf(o))
    BY <2>1, <2>2, <2>4, HasMore
  <2>6. ASSUME Idle \/ Quiet, ~threw, inited, NEW i \in 1..Len(issued)
        PROVE  \E j \in 1..Len(answers) : answers[j].op = issued[i]
    <3> DEFINE o == issued[i]
    <3>1. o \in Ops /\ Has(issued, {o})
      BY <2>0, ElementOfSeq DEF Has
    <3> HIDE DEF o
    <3>2. queue = <<>> /\ current # o
      BY <2>1, <2>2, <2>3, <2>6, <3>1, OpsAssumption
    <3>3. ~Has(queue, {o})
      BY <3>2, EmptyStack
    <3>4. Has(answers, AnswerOf(o))
      BY <2>0, <2>5, <2>6, <3>1, <3>2, <3>3 DEF Conserved
    <3> QED
      BY <3>4 DEF Has, AnswerOf, o
  <2> QED
    BY <2>1, <2>3, <2>6 DEF IdleHonest
<1> QED
  BY <1>1, KeptInvariant, PTL

-----------------------------------------------------------------------------
\* The order of the answers.

\* The operation that has the backup to itself: its work is under way, or it
\* has finished the backup and has not called back yet.
Active(o) == current = o \/ Has(stack, ReleaseOf(o))

InLine(o) == Active(o) \/ Has(queue, {o})

Before(a, b) == Prior(issued, a, b)

\* The operations stand in line in the order in which they were issued.
Line ==
  /\ Once(issued)
  /\ Sorted(queue, issued)
  /\ \A o \in Ops : InLine(o) => Has(issued, {o})
  /\ \A o, d \in Ops : Active(o) /\ Has(queue, {d}) => Before(o, d)

\* What has been carried out came before those that stand in line, and once
\* finish() has told its caller, nothing that is active does.
Over(x) ==
  /\ Has(issued, {x.op}) /\ ~InLine(x.op)
  /\ x.says # "refused" => \A d \in Ops : InLine(d) => Before(x.op, d)
  /\ KindOf[x.op] = "finish" /\ x.says = "ok" =>
       finished /\ \A d \in Ops : ~Has(stack, ReleaseOf(d))

Past == \A x \in Answer : Has(answers, {x}) => Over(x)

\* Two answers, x before y.
InOrder(x, y) ==
  /\ x.op # y.op
  /\ "refused" \notin {x.says, y.says} => Before(x.op, y.op)
  /\ KindOf[x.op] = "finish" /\ x.says = "ok" => y.says = "refused"

Sequence == \A x, y \in Answer : Prior(answers, x, y) => InOrder(x, y)

Order == Line /\ Past /\ Sequence

LEMMA OneActive ==
  ASSUME Core, NEW o \in Ops, NEW d \in Ops, Active(o), Active(d)
  PROVE  o = d
<1>1. \A c \in Ops : ReleaseOf(c) \subseteq Ending
  BY FrameKinds, OpsAssumption DEF ReleaseOf
<1>2. Locks /\ (Has(stack, Ending) => current = NoOp)
  BY DEF Core, Locks
<1>3. CASE current = o \/ current = d
  <2>1. ~Has(stack, Ending)
    BY <1>2, <1>3, OpsAssumption
  <2>2. ~Has(stack, ReleaseOf(o)) /\ ~Has(stack, ReleaseOf(d))
    BY <1>1, <2>1, HasMore
  <2> QED
    BY <2>2 DEF Active
<1>4. CASE current # o /\ current # d
  <2>1. PICK i \in 1..Len(stack) : stack[i] \in ReleaseOf(o)
    BY <1>4 DEF Active, Has
  <2>2. PICK j \in 1..Len(stack) : stack[j] \in ReleaseOf(d)
    BY <1>4 DEF Active, Has
  <2>3. i = j
    BY <1>1, <1>2, <2>1, <2>2 DEF Locks, Alone
  <2> QED
    BY <2>1, <2>2, <2>3 DEF ReleaseOf
<1> QED
  BY <1>3, <1>4

\* No frame of FinishAll that has someone to tell is made but by Work_AfterFinish.
LEMMA NoNewRelease ==
  ASSUME Core, [Next]_vars
  PROVE  \A o \in Ops : Has(stack', ReleaseOf(o)) => Has(stack, ReleaseOf(o)) \/ AfterFinish(o)
<1>0. stack \in Seq(Frame)
  BY CoreTypes
<1>1. /\ At("js") \in Frame /\ At("end") \in Frame /\ At("errorEnd") \in Frame
      /\ At("failed") \in Frame /\ At("reject") \in Frame /\ At("process") \in Frame
      /\ At("loop") \in Frame /\ At("clean") \in Frame /\ Callback \in Frame
      /\ \A o : Release(o).pc = "release" /\ Release(o).op = o
      /\ Release(NoOp) \in Frame
  BY KindsOfFrames DEF Release, At
<1>2. /\ \A o : At("js") \notin ReleaseOf(o) /\ At("end") \notin ReleaseOf(o)
      /\ \A o : At("errorEnd") \notin ReleaseOf(o) /\ At("failed") \notin ReleaseOf(o)
      /\ \A o : At("reject") \notin ReleaseOf(o) /\ At("process") \notin ReleaseOf(o)
      /\ \A o : At("loop") \notin ReleaseOf(o) /\ At("clean") \notin ReleaseOf(o)
  BY <1>1, HandlerFrames, MoreKinds
<1>3. /\ \A o : Callback \notin ReleaseOf(o)
      /\ \A f \in Cleaners : \A o : f \notin ReleaseOf(o)
  <2>1. Callback.pc # "release"
    BY CallStack
  <2> QED
    BY <1>1, <2>1, MoreKinds DEF Cleaners, Frames
<1>4. \A o \in Ops : Release(NoOp) \notin ReleaseOf(o)
  BY <1>1, MoreKinds, OpsAssumption
<1> SUFFICES ASSUME NEW o \in Ops, Has(stack', ReleaseOf(o)), ~Has(stack, ReleaseOf(o))
             PROVE  AfterFinish(o)
  OBVIOUS
<1> DEFINE P == ReleaseOf(o)
<1>5. CASE Calm
  BY <1>2, <1>3, <1>5, CalmAdds
<1>6. CASE \/ Construct \/ CreateBegin \/ WorkInitialize \/ Collect \/ UNCHANGED vars
           \/ \E d \in Ops : ScheduleRun(d) \/ Work(d)
  BY <1>6 DEF Construct, CreateBegin, WorkInitialize, Collect, vars, thread, ScheduleRun, Work,
     WorkStep, WorkFinish, Working
<1>7. CASE ConstructRejected
  <2>1. stack' = <<Callback>> \o stack
    BY <1>7 DEF ConstructRejected
  <2> QED
    BY <1>0, <1>1, <1>3, <2>1, PushFrame
<1>8. CASE CreateRejected
  <2> DEFINE t == <<Callback, At("reject")>>
  <2>1. t \in Seq(Frame) /\ ~Has(t, P)
    BY <1>1, <1>2, <1>3, SmallStacks
  <2>2. stack' = t \o stack
    BY <1>8 DEF CreateRejected
  <2> HIDE DEF t, P
  <2>3. Has(stack', P) <=> Has(t, P) \/ Has(stack, P)
    BY <1>0, <2>1, <2>2, HasConcat
  <2> QED
    BY <2>1, <2>3 DEF P
<1>9. CASE AfterInitialize
  <2> DEFINE f == At("js")
             g == At("end")
             h == At("failed")
  <2>1. stack' = <<f, g>> \/ stack' = <<f, h>>
    BY <1>9 DEF AfterInitialize
  <2>2. f \in Frame /\ f \notin P /\ g \in Frame /\ g \notin P /\ h \in Frame /\ h \notin P
    BY <1>1, <1>2
  <2> HIDE DEF f, g, h, P
  <2>3. ~Has(<<f, g>>, P) /\ ~Has(<<f, h>>, P)
    BY <2>2, SmallStacks
  <2>4. ~Has(stack', P)
    BY <2>1, <2>3
  <2> QED
    BY <2>4 DEF P
<1>10. CASE ProcessRun \/ End
  <2>1. PICK f \in {At("loop"), At("process")} :
          stack # <<>> /\ stack' = <<f>> \o Tail(stack)
    BY <1>10 DEF ProcessRun, End, InLoop, InPc
  <2>2. f \in Frame /\ f \notin P /\ Tail(stack) \in Seq(Frame)
        /\ (Has(Tail(stack), P) => Has(stack, P))
    BY <1>0, <1>1, <1>2, <2>1, PopFrame
  <2> HIDE DEF P
  <2>3. Has(stack', P) <=> f \in P \/ Has(Tail(stack), P)
    BY <2>1, <2>2, PushFrame
  <2> QED
    BY <2>2, <2>3 DEF P
<1>11. CASE \E d \in Ops : After(d)
  <2>1. PICK d \in Ops : After(d)
    BY <1>11
  <2>2. CASE AfterFinish(d)
    <3>1. stack' = <<At("clean"), Release(d)>> /\ Release(d) \in Frame
      BY <2>2, KindsOfFrames DEF AfterFinish
    <3>2. Release(d) \in P
      BY <1>1, <1>2, <3>1, SmallStacks
    <3> QED
      BY <1>1, <2>2, <3>2 DEF ReleaseOf
  <2>3. CASE AfterStep(d)
    <3>1. CASE stack' = Call(d) \o <<At("end")>>
      <4> DEFINE e == <<At("end")>>
                 c == Call(d)
      <4>1. e \in Seq(Frame) /\ ~Has(e, P)
        BY <1>1, <1>2, SmallStacks
      <4>2. c \in Seq(Frame) /\ ~Has(c, P)
        BY <1>3, CallStack
      <4>3. stack' = c \o e
        BY <3>1
      <4> HIDE DEF e, c, P
      <4>4. Has(stack', P) <=> Has(c, P) \/ Has(e, P)
        BY <4>1, <4>2, <4>3, HasConcat
      <4> QED
        BY <4>1, <4>2, <4>4 DEF P
    <3>2. CASE stack' = <<At("js"), At("errorEnd")>>
      BY <1>1, <1>2, <3>2, SmallStacks
    <3> QED
      BY <2>3, <3>1, <3>2 DEF AfterStep
  <2> QED
    BY <2>1, <2>2, <2>3 DEF After
<1>12. CASE FinishFailed
  <2> DEFINE c == <<At("clean"), Release(NoOp)>>
             e == IF Head(stack).pc = "failed" THEN <<At("errorEnd")>> ELSE <<>>
             k == c \o e
             r == Tail(stack)
  <2>1. stack # <<>> /\ stack' = k \o r
    BY <1>12 DEF FinishFailed, InPc
  <2>2. c \in Seq(Frame) /\ ~Has(c, P)
    BY <1>1, <1>2, <1>4, SmallStacks
  <2>3. e \in Seq(Frame) /\ ~Has(e, P)
    BY <1>1, <1>2, SmallStacks
  <2> HIDE DEF c, e, P
  <2>4. k \in Seq(Frame) /\ ~Has(k, P)
    BY <2>2, <2>3, HasConcat
  <2>5. r \in Seq(Frame) /\ (Has(r, P) => Has(stack, P))
    BY <1>0, <2>1, PopFrame
  <2> HIDE DEF k, r
  <2>6. Has(stack', P) => Has(k, P) \/ Has(r, P)
    BY <2>1, <2>4, <2>5, HasConcat
  <2> QED
    BY <2>4, <2>5, <2>6 DEF P
<1>13. CASE FinishRelease
  <2> DEFINE h == Head(stack).op
             c == Call(h)
             e == <<At("end")>>
             k == c \o e
             r == Tail(stack)
  <2>1. stack # <<>> /\ (stack' = r \/ stack' = k \o r)
    BY <1>13 DEF FinishRelease, FinishTell, InPc
  <2>2. e \in Seq(Frame) /\ ~Has(e, P)
    BY <1>1, <1>2, SmallStacks
  <2>3. c \in Seq(Frame) /\ ~Has(c, P)
    BY <1>3, CallStack
  <2> HIDE DEF c, e, P
  <2>4. k \in Seq(Frame) /\ ~Has(k, P)
    BY <2>2, <2>3, HasConcat
  <2>5. r \in Seq(Frame) /\ (Has(r, P) => Has(stack, P))
    BY <1>0, <2>1, PopFrame
  <2> HIDE DEF k, r
  <2>6. Has(k \o r, P) => Has(k, P) \/ Has(r, P)
    BY <2>4, <2>5, HasConcat
  <2> QED
    BY <2>1, <2>4, <2>5, <2>6 DEF P
<1> QED
  BY <1>5, <1>6, <1>7, <1>8, <1>9, <1>10, <1>11, <1>12, <1>13
     DEF Next, Handler, Create, Schedule, Calm

\* A step that puts nobody in line and answers nobody.
LEMMA PastStays ==
  ASSUME Core, Order, UNCHANGED <<issued, answers>>, finished => finished',
         \A o \in Ops : InLine(o)' => InLine(o),
         \A o \in Ops : Has(stack', ReleaseOf(o)) => Has(stack, ReleaseOf(o)) \/ ~finished
  PROVE  Past' /\ Sequence'
<1>1. \A x \in Answer : x.op \in Ops
  BY DEF Answer
<1>2. \A x \in Answer : Over(x) => Over(x)'
  BY <1>1 DEF Over, Before
<1>3. \A x, y : InOrder(x, y) => InOrder(x, y)'
  BY DEF InOrder, Before
<1> QED
  BY <1>2, <1>3 DEF Order, Past, Sequence

LEMMA LineShrinks ==
  ASSUME Core, Order, issued' = issued,
         queue' \in {queue, <<>>} \/ (queue # <<>> /\ queue' = Tail(queue)),
         \A o \in Ops : Active(o)' => Active(o)
  PROVE  Line' /\ \A o \in Ops : InLine(o)' => InLine(o)
<1>1. queue \in Seq(Ops) /\ Line
  BY CoreTypes DEF Order
<1>2. Sorted(queue', issued) /\ \A d \in Ops : Has(queue', {d}) => Has(queue, {d})
  <2>1. CASE queue' = queue
    BY <1>1, <2>1 DEF Line
  <2>2. CASE queue' = <<>>
    BY <2>2, EmptyStack DEF Sorted
  <2>3. CASE queue # <<>> /\ queue' = Tail(queue)
    BY <1>1, <2>3, PopFrame, SortedPop DEF Line
  <2> QED
    BY <2>1, <2>2, <2>3
<1>3. \A o \in Ops : InLine(o)' => InLine(o)
  BY <1>2 DEF InLine
<1>4. Line'
  BY <1>1, <1>2, <1>3 DEF Line, Before
<1> QED
  BY <1>3, <1>4

\* Someone leaves the line and is answered.
LEMMA Answering ==
  ASSUME Core, Order, issued' = issued, finished => finished',
         NEW o \in Ops, NEW says \in Says, Tell(o, says), InLine(o),
         \A d \in Ops : InLine(d)' => InLine(d) /\ d # o,
         \A d \in Ops : Has(stack', ReleaseOf(d)) => Has(stack, ReleaseOf(d)),
         says # "refused" => Active(o) /\ (~finished \/ Has(stack, ReleaseOf(o))),
         KindOf[o] = "finish" /\ says = "ok" =>
           finished' /\ \A d \in Ops : ~Has(stack', ReleaseOf(d))
  PROVE  Past' /\ Sequence'
<1>1. answers \in Seq(Answer) /\ \A x \in Answer : x.op \in Ops
  BY CoreTypes DEF Answer
<1>2. Line /\ Past /\ Sequence
  BY DEF Order
<1>3. CASE answers' = answers
  <2>1. \A d \in Ops : InLine(d)' => InLine(d)
    OBVIOUS
  <2>2. \A d \in Ops : Has(stack', ReleaseOf(d)) => Has(stack, ReleaseOf(d)) \/ ~finished
    OBVIOUS
  <2> QED
    BY <1>3, <2>1, <2>2, PastStays
<1> DEFINE a == [op |-> o, says |-> says]
<1>4. CASE answers' = Append(answers, a)
  <2>1. a \in Answer /\ a.op = o /\ a.says = says
    BY DEF Answer
  <2> HIDE DEF a
  <2>2. \A P : Has(answers', P) <=> Has(answers, P) \/ a \in P
    BY <1>1, <1>4, <2>1, AppendHas
  <2>3. \A x, y : Prior(answers', x, y) =>
          Prior(answers, x, y) \/ (y = a /\ Has(answers, {x}))
    BY <1>1, <1>4, <2>1, PriorAppend
  <2>4. says # "refused" => \A d \in Ops : InLine(d)' => Before(o, d)
    BY <1>2, OneActive DEF Line, InLine
  <2>5. ASSUME NEW x \in Answer, Has(answers', {x})
        PROVE  Over(x)'
    <3>1. CASE Has(answers, {x})
      <4>1. Over(x)
        BY <1>2, <3>1 DEF Past
      <4> QED
        BY <1>1, <4>1 DEF Over, Before
    <3>2. CASE x = a
      <4>1. Has(issued, {o}) /\ ~InLine(o)'
        BY <1>2 DEF Line
      <4> QED
        BY <2>1, <2>4, <3>2, <4>1 DEF Over, Before
    <3> QED
      BY <2>2, <2>5, <3>1, <3>2
  <2>6. ASSUME NEW x \in Answer, NEW y \in Answer, Prior(answers', x, y)
        PROVE  InOrder(x, y)'
    <3>1. CASE Prior(answers, x, y)
      BY <1>2, <3>1 DEF Sequence, InOrder, Before
    <3>2. CASE y = a /\ Has(answers, {x})
      <4>1. Over(x)
        BY <1>2, <3>2 DEF Past
      <4>2. /\ x.op # o
            /\ x.says # "refused" => Before(x.op, o)
            /\ KindOf[x.op] = "finish" /\ x.says = "ok" =>
                 finished /\ \A d \in Ops : ~Has(stack, ReleaseOf(d))
        BY <4>1 DEF Over
      <4> QED
        BY <2>1, <3>2, <4>2 DEF InOrder, Before
    <3> QED
      BY <2>3, <2>6, <3>1, <3>2
  <2> QED
    BY <2>5, <2>6 DEF Past, Sequence
<1> QED
  BY <1>3, <1>4 DEF Tell

\* Somebody new stands at the end.
LEMMA OrderEnter ==
  ASSUME Core, Order, NEW o \in Ops, Schedule(o)
  PROVE  Order'
<1>0. /\ queue \in Seq(Ops) /\ issued \in Seq(Ops) /\ answers \in Seq(Answer)
      /\ Line /\ Past /\ Sequence /\ Locks
  BY CoreTypes DEF Order
<1>1. /\ issued' = Append(issued, o) /\ answers' = answers /\ finished' = finished
      /\ \A i \in 1..Len(issued) : issued[i] # o
  BY DEF Schedule, ScheduleRefuse, ScheduleQueue, ScheduleRun, Enter
<1>2. /\ Once(issued')
      /\ \A a, b : Before(a, b) => Before(a, b)'
      /\ \A a : Has(issued, {a}) => Before(a, o)'
  BY <1>0, <1>1, NewIsLast DEF Line, Before
<1>3. \A a : Has(issued', {a}) <=> Has(issued, {a}) \/ a = o
  BY <1>0, <1>1, AppendHas
<1>4. ~Has(issued, {o})
  BY <1>1 DEF Has
<1>5. \A d \in Ops : Has(stack', ReleaseOf(d)) => Has(stack, ReleaseOf(d))
  <2>1. \A d \in Ops : AfterFinish(d) => FALSE
    BY <1>1 DEF AfterFinish, Ended, Schedule, ScheduleRefuse, ScheduleQueue, ScheduleRun, Enter,
       MayEnter, Js, InPc, EventLoop
  <2>2. Next
    BY DEF Next
  <2> QED
    BY <2>1, <2>2, NoNewRelease
<1>6. /\ Sorted(queue', issued')
      /\ \A d \in Ops : InLine(d)' => InLine(d) \/ d = o
      /\ \A d, e \in Ops : Active(d)' /\ Has(queue', {e}) => Before(d, e)'
  <2>1. Sorted(queue, issued')
    BY <1>0, <1>2 DEF Line, Sorted, Before
  <2>2. CASE ScheduleRefuse(o) \/ ScheduleQueue(o)
    <3>1. queue' = Append(queue, o) /\ current' = current
      BY <2>2 DEF ScheduleRefuse, ScheduleQueue, work
    <3>2. \A d : Has(queue', {d}) <=> Has(queue, {d}) \/ d = o
      BY <1>0, <3>1, AppendHas
    <3>3. \A d \in Ops : Has(queue, {d}) => Before(d, o)'
      BY <1>0, <1>2 DEF Line, InLine
    <3>4. \A d : Has(queue, {d}) => d \in Ops
      BY <1>0, ElementOfSeq DEF Has
    <3>5. Sorted(queue', issued')
      BY <1>0, <2>1, <3>1, <3>3, <3>4, SortedAppend DEF Before
    <3>6. \A d \in Ops : Active(d)' => Active(d)
      BY <1>5, <3>1 DEF Active
    <3>7. \A d \in Ops : InLine(d)' => InLine(d) \/ d = o
      BY <3>2, <3>6 DEF InLine
    <3>8. \A d, e \in Ops : Active(d)' /\ Has(queue', {e}) => Before(d, e)'
      BY <1>0, <1>2, <3>2, <3>6 DEF Line, InLine
    <3> QED
      BY <3>5, <3>7, <3>8
  <2>3. CASE ScheduleRun(o)
    <3>1. queue' = queue /\ queue = <<>> /\ current' = o
      BY <2>3 DEF ScheduleRun, Run, MustQueue
    <3>2. \A d : ~Has(queue', {d})
      BY <3>1, EmptyStack
    <3>3. \A d \in Ops : InLine(d)' => InLine(d) \/ d = o
      BY <1>5, <3>1, <3>2 DEF Active, InLine
    <3> QED
      BY <2>1, <3>1, <3>2, <3>3
  <2> QED
    BY <2>2, <2>3 DEF Schedule
<1>7. Line'
  BY <1>0, <1>2, <1>3, <1>6 DEF Line
<1>8. ASSUME NEW x \in Answer, Over(x)
      PROVE  Over(x)'
  <2>1. x.op \in Ops /\ Has(issued, {x.op}) /\ x.op # o
    BY <1>4, <1>8 DEF Over, Answer
  <2>2. Has(issued', {x.op}) /\ ~InLine(x.op)'
    BY <1>3, <1>6, <1>8, <2>1 DEF Over
  <2>3. x.says # "refused" => \A d \in Ops : InLine(d)' => Before(x.op, d)'
    BY <1>2, <1>6, <1>8, <2>1 DEF Over
  <2> QED
    BY <1>1, <1>5, <1>8, <2>2, <2>3 DEF Over
<1>9. \A x, y : InOrder(x, y) => InOrder(x, y)'
  BY <1>2 DEF InOrder
<1> QED
  BY <1>0, <1>1, <1>7, <1>8, <1>9 DEF Order, Past, Sequence

\* The first in the queue begins.
LEMMA OrderRun ==
  ASSUME Core, Order, ProcessRun
  PROVE  Order'
<1> DEFINE h == Head(queue)
<1>0. queue \in Seq(Ops) /\ Line /\ Past /\ Sequence /\ Locks
  BY CoreTypes DEF Order
<1>1. /\ queue # <<>> /\ queue' = Tail(queue) /\ current' = h /\ ~locked
      /\ UNCHANGED <<finished, issued, answers>>
  BY DEF ProcessRun, Run, history
<1>2. \A o \in Ops : ~Active(o)
  <2>1. current = NoOp /\ ~Has(stack, Ending)
    BY <1>0, <1>1 DEF Locks
  <2>2. \A o \in Ops : ReleaseOf(o) \subseteq Ending
    BY FrameKinds, OpsAssumption DEF ReleaseOf
  <2> QED
    BY <2>1, <2>2, HasMore, OpsAssumption DEF Active
<1>3. \A o \in Ops : Has(stack', ReleaseOf(o)) => Has(stack, ReleaseOf(o))
  <2>1. \A o \in Ops : AfterFinish(o) => FALSE
    BY <1>1, OpsAssumption DEF AfterFinish, Ended, ProcessRun, Run, InLoop, InPc, EventLoop
  <2>2. Next
    BY DEF Next, Handler
  <2> QED
    BY <2>1, <2>2, NoNewRelease
<1>4. /\ h \in Ops
      /\ \A d : Has(queue, {d}) <=> h = d \/ Has(queue', {d})
      /\ Sorted(queue', issued)
      /\ \A d : Has(queue', {d}) => Before(h, d)
  BY <1>0, <1>1, PopFrame, SortedPop DEF Line, Before
<1> HIDE DEF h
<1>5. \A o \in Ops : Active(o)' => o = h
  BY <1>1, <1>2, <1>3 DEF Active
<1>6. \A o \in Ops : InLine(o)' => InLine(o)
  BY <1>4, <1>5 DEF InLine
<1>7. Line'
  <2>1. \A o \in Ops : InLine(o)' => Has(issued', {o})
    BY <1>0, <1>1, <1>6 DEF Line
  <2>2. \A o, d \in Ops : Active(o)' /\ Has(queue', {d}) => Before(o, d)'
    BY <1>1, <1>4, <1>5 DEF Before
  <2> QED
    BY <1>0, <1>1, <1>4, <2>1, <2>2 DEF Line
<1>8. Past' /\ Sequence'
  BY <1>1, <1>3, <1>6, PastStays
<1> QED
  BY <1>7, <1>8 DEF Order

\* Those that a finished backup refuses.
LEMMA OrderRefused ==
  ASSUME Core, Order, CleanCall
  PROVE  Order'
<1> DEFINE h == Head(queue)
<1>0. queue \in Seq(Ops) /\ Line /\ issued \in Seq(Ops)
  BY CoreTypes DEF Order
<1>1. /\ queue # <<>> /\ queue' = Tail(queue) /\ Tell(h, "refused") /\ stack # <<>>
      /\ UNCHANGED <<finished, issued, current>>
  BY DEF CleanCall, InPc, fields, work
<1>2. \A o \in Ops : Has(stack', ReleaseOf(o)) => Has(stack, ReleaseOf(o))
  <2>1. \A o \in Ops : AfterFinish(o) => FALSE
    BY <1>1 DEF AfterFinish, Ended, EventLoop
  <2>2. Next
    BY DEF Next, Handler
  <2> QED
    BY <2>1, <2>2, NoNewRelease
<1>3. /\ h \in Ops
      /\ \A d : Has(queue, {d}) <=> h = d \/ Has(queue', {d})
      /\ \A d : Has(queue', {d}) => Before(h, d)
      /\ ~Before(h, h)
  BY <1>0, <1>1, PopFrame, SortedPop, NotPriorToItself DEF Line, Before
<1> HIDE DEF h
<1>4. \A o \in Ops : Active(o)' => Active(o) /\ o # h
  BY <1>0, <1>1, <1>2, <1>3 DEF Active, Line
<1>5. Line' /\ \A o \in Ops : InLine(o)' => InLine(o)
  BY <1>1, <1>4, LineShrinks
<1>6. \A o \in Ops : InLine(o)' => InLine(o) /\ o # h
  BY <1>3, <1>4, <1>5 DEF InLine
<1>7. InLine(h) /\ "refused" \in Says
  BY <1>3 DEF InLine, Says
<1>8. Past' /\ Sequence'
  BY <1>1, <1>2, <1>3, <1>6, <1>7, Answering
<1> QED
  BY <1>5, <1>8 DEF Order

\* The end of a step.
LEMMA OrderStep ==
  ASSUME Core, Order, NEW o \in Ops, AfterStep(o)
  PROVE  Order'
<1>0. Line /\ Locks /\ issued \in Seq(Ops)
  BY CoreTypes DEF Order
<1>1. /\ current = o /\ current' = NoOp /\ working # "idle" /\ KindOf[o] = "step"
      /\ UNCHANGED <<finished, issued, queue>>
  BY DEF AfterStep, Ended
<1>2. PICK s \in Says : Tell(o, s)
  BY DEF AfterStep, Says
<1>3. \A d \in Ops : Has(stack', ReleaseOf(d)) => Has(stack, ReleaseOf(d))
  <2>1. \A d \in Ops : AfterFinish(d) => FALSE
    BY <1>1 DEF AfterFinish, Ended
  <2>2. Next
    BY DEF Next, After
  <2> QED
    BY <2>1, <2>2, NoNewRelease
<1>4. \A d \in Ops : ~Has(stack', ReleaseOf(d))
  <2>1. stack = <<>>
    BY DEF AfterStep, Ended, EventLoop
  <2> QED
    BY <1>3, <2>1, EmptyStack
<1>5. \A d \in Ops : ~Active(d)'
  BY <1>1, <1>4, OpsAssumption DEF Active
<1>6. Line' /\ \A d \in Ops : InLine(d)' => InLine(d)
  BY <1>1, <1>5, LineShrinks
<1>7. InLine(o) /\ Active(o) /\ ~finished /\ ~Has(queue, {o})
  <2>1. ~Before(o, o)
    BY <1>0, NotPriorToItself DEF Line, Before
  <2> QED
    BY <1>0, <1>1, <2>1 DEF InLine, Active, Line, Locks
<1>8. \A d \in Ops : InLine(d)' => InLine(d) /\ d # o
  BY <1>1, <1>5, <1>6, <1>7 DEF InLine
<1>9. Past' /\ Sequence'
  BY <1>1, <1>2, <1>3, <1>7, <1>8, Answering
<1> QED
  BY <1>6, <1>9 DEF Order

\* The end of a finish.
LEMMA OrderRelease ==
  ASSUME Core, Order, FinishRelease
  PROVE  Order'
<1> DEFINE h == Head(stack)
<1>0. stack \in Seq(Frame) /\ Line /\ Locks /\ issued \in Seq(Ops)
  BY CoreTypes DEF Order
<1>1. /\ stack # <<>> /\ h.pc = "release" /\ FinishTell(h.op)
      /\ UNCHANGED <<finished, issued, queue, current>>
  BY DEF FinishRelease, InPc, fields, work
<1>2. /\ h \in Frame /\ h.op \in Ops \cup {NoOp} /\ Tail(stack) \in Seq(Frame)
      /\ \A P : Alone(stack, P) <=> Alone(Tail(stack), P) /\ ~(h \in P /\ Has(Tail(stack), P))
      /\ \A P : Has(stack, P) <=> h \in P \/ Has(Tail(stack), P)
  BY <1>0, <1>1, PopFrame, FrameKinds
<1>3. \A d \in Ops : Has(stack', ReleaseOf(d)) => Has(stack, ReleaseOf(d))
  <2>1. \A d \in Ops : AfterFinish(d) => FALSE
    BY <1>1 DEF AfterFinish, Ended, EventLoop
  <2>2. Next
    BY DEF Next, Handler
  <2> QED
    BY <2>1, <2>2, NoNewRelease
<1>4. \A d \in Ops : Active(d)' => Active(d)
  BY <1>1, <1>3 DEF Active
<1>5. Line' /\ \A d \in Ops : InLine(d)' => InLine(d)
  BY <1>1, <1>4, LineShrinks
<1>6. CASE h.op = NoOp
  <2>1. answers' = answers
    BY <1>1, <1>6 DEF FinishTell
  <2>2. Past' /\ Sequence'
    BY <1>1, <1>3, <1>5, <2>1, PastStays
  <2> QED
    BY <1>5, <2>2 DEF Order
<1>7. CASE h.op # NoOp
  <2> DEFINE o == h.op
             c == Call(o)
             e == <<At("end")>>
             k == c \o e
  <2>1. o \in Ops /\ Tell(o, "ok") /\ stack' = k \o Tail(stack)
    BY <1>1, <1>2, <1>7 DEF FinishTell
  <2>2. h \in Ending /\ h \in ReleaseOf(o) /\ Has(stack, Ending)
    BY <1>1, <1>2, <1>7, FrameKinds, MoreKinds
  <2>3. ~Has(Tail(stack), Ending) /\ current = NoOp
    BY <1>0, <1>2, <2>2 DEF Locks
  <2>4. \A d \in Ops : ~Has(k, ReleaseOf(d))
    <3>1. c \in Seq(Frame) /\ \A d \in Ops : ~Has(c, ReleaseOf(d))
      <4>1. Callback \in Frame /\ Callback.pc # "release"
        BY CallStack
      <4>2. \A d : Callback \notin ReleaseOf(d)
        BY <4>1, MoreKinds
      <4> QED
        BY <4>2, CallStack
    <3>2. e \in Seq(Frame) /\ \A d \in Ops : ~Has(e, ReleaseOf(d))
      <4>1. At("end") \in Frame /\ At("end").pc = "end"
        BY HandlerFrames
      <4>2. \A d : At("end") \notin ReleaseOf(d)
        BY <4>1, MoreKinds
      <4> QED
        BY <4>1, <4>2, SmallStacks
    <3> HIDE DEF c, e
    <3> QED
      BY <3>1, <3>2, HasConcat
  <2>5. k \in Seq(Frame)
    <3>1. c \in Seq(Frame)
      BY CallStack
    <3>2. e \in Seq(Frame)
      BY HandlerFrames
    <3> HIDE DEF c, e
    <3> QED
      BY <3>1, <3>2, HasConcat
  <2> HIDE DEF k, o, c, e, h
  <2>6. \A d \in Ops : ReleaseOf(d) \subseteq Ending
    BY FrameKinds, OpsAssumption DEF ReleaseOf
  <2>7. \A d \in Ops : ~Has(stack', ReleaseOf(d))
    <3>1. \A P : Has(stack', P) <=> Has(k, P) \/ Has(Tail(stack), P)
      BY <1>2, <2>1, <2>5, HasConcat
    <3> QED
      BY <2>3, <2>4, <2>6, <3>1, HasMore
  <2>8. \A d \in Ops : ~Active(d)'
    BY <1>1, <2>3, <2>7, OpsAssumption DEF Active
  <2>9. Has(stack, ReleaseOf(o)) /\ Active(o) /\ InLine(o)
    BY <1>2, <2>2 DEF Active, InLine
  <2>10. ~Has(queue, {o})
    <3>1. ~Before(o, o)
      BY <1>0, NotPriorToItself DEF Line, Before
    <3> QED
      BY <1>0, <2>1, <2>9, <3>1 DEF Line
  <2>11. \A d \in Ops : InLine(d)' => InLine(d) /\ d # o
    BY <1>1, <1>5, <2>8, <2>10 DEF InLine
  <2>12. finished
    <3>1. Has(stack, Releasers)
      BY <1>1, <1>2, FrameKinds DEF h
    <3> QED
      BY <3>1 DEF Core, Releasing
  <2>13. "ok" \in Says
    BY DEF Says
  <2>14. Past' /\ Sequence'
    BY <1>1, <1>3, <2>1, <2>7, <2>9, <2>11, <2>12, <2>13, Answering
  <2> QED
    BY <1>5, <2>14 DEF Order
<1> QED
  BY <1>6, <1>7

LEMMA OrderRest ==
  ASSUME Core, Order, [Next]_vars, UNCHANGED <<issued, answers>>, finished => finished',
         queue' \in {queue, <<>>}, \A o \in Ops : current' = o => current = o,
         ~FinishRelease
  PROVE  Order'
<1>1. \A o \in Ops : Has(stack', ReleaseOf(o)) => Has(stack, ReleaseOf(o)) \/ AfterFinish(o)
  BY NoNewRelease
<1>2. \A o \in Ops : AfterFinish(o) => current = o /\ ~finished
  BY OpsAssumption DEF AfterFinish, Ended, Core, Locks
<1>3. \A o \in Ops : Active(o)' => Active(o)
  BY <1>1, <1>2 DEF Active
<1>4. Line' /\ \A o \in Ops : InLine(o)' => InLine(o)
  BY <1>3, LineShrinks
<1>5. \A o \in Ops : Has(stack', ReleaseOf(o)) => Has(stack, ReleaseOf(o)) \/ ~finished
  BY <1>1, <1>2
<1>6. Past' /\ Sequence'
  BY <1>4, <1>5, PastStays
<1> QED
  BY <1>4, <1>6 DEF Order

LEMMA OrderNext ==
  ASSUME Core, Order, [Next]_vars
  PROVE  Order'
<1>1. CASE \E o \in Ops : Schedule(o)
  BY <1>1, OrderEnter
<1>2. CASE ProcessRun \/ CleanCall \/ FinishRelease \/ \E o \in Ops : AfterStep(o)
  BY <1>2, OrderRun, OrderRefused, OrderRelease, OrderStep
<1>3. ASSUME ~FinishRelease,
             \/ Construct \/ ConstructRejected \/ Create \/ WorkInitialize \/ AfterInitialize
             \/ ProcessClean \/ ProcessReturn \/ CleanEnter \/ CleanReturn
             \/ FinishFailed \/ End \/ DeadCallback
             \/ SetRetry \/ Collect \/ NewTurn \/ JsReturn \/ JsThrow \/ JsCatch
             \/ UNCHANGED vars \/ \E o \in Ops : Work(o) \/ AfterFinish(o)
      PROVE  Order'
  <2>1. /\ UNCHANGED <<issued, answers>> /\ (finished => finished')
        /\ queue' \in {queue, <<>>} /\ current' \in {current, NoOp}
    <3>1. CASE Construct \/ Create \/ WorkInitialize \/ AfterInitialize \/ Collect
      BY <3>1 DEF Construct, Create, CreateBegin, CreateRejected, WorkInitialize,
         AfterInitialize, Collect, fields, history, work
    <3>2. CASE ConstructRejected \/ FinishFailed
      BY <3>2 DEF ConstructRejected, FinishFailed, Settle, history, work
    <3>3. CASE ProcessClean \/ ProcessReturn \/ CleanEnter
      BY <3>3 DEF ProcessClean, ProcessReturn, CleanEnter, fields, history, work
    <3>4. CASE CleanReturn \/ End
      <4>1. UNCHANGED <<queue, work, history>> /\ (finished' = finished)
        <5>1. CASE CleanReturn
          BY <5>1 DEF CleanReturn, fields
        <5>2. CASE End
          BY <5>2 DEF End
        <5> QED
          BY <3>4, <5>1, <5>2
      <4> QED
        BY <4>1 DEF history, work
    <3>5. CASE DeadCallback \/ SetRetry \/ NewTurn \/ JsReturn \/ JsThrow \/ JsCatch
      BY <3>5 DEF DeadCallback, SetRetry, NewTurn, JsReturn, JsThrow, JsCatch, rest, fields,
         history, work
    <3>6. CASE UNCHANGED vars
      BY <3>6 DEF vars, fields, history, work
    <3>7. CASE \E o \in Ops : Work(o) \/ AfterFinish(o)
      BY <3>7 DEF Work, WorkStep, WorkFinish, Working, AfterFinish, Ended, Settle, fields, history
    <3> QED
      BY <1>3, <3>1, <3>2, <3>3, <3>4, <3>5, <3>6, <3>7
  <2>2. \A o \in Ops : current' = o => current = o
    BY <2>1, OpsAssumption
  <2> QED
    BY <1>3, <2>1, <2>2, OrderRest
<1> QED
  BY <1>1, <1>2, <1>3 DEF Next, Handler, After

LEMMA OrderInvariant == Spec => [](Core /\ Order)
<1>1. Init => Order
  <2> SUFFICES ASSUME Init
               PROVE  Order
    OBVIOUS
  <2>1. issued = <<>> /\ queue = <<>> /\ answers = <<>> /\ current = NoOp
    BY DEF Init
  <2>2. \A o \in Ops : ~Has(stack, ReleaseOf(o))
    <3>1. At("js") \in Frame /\ At("js").pc = "js"
      BY HandlerFrames DEF Plain, Frames
    <3>2. \A o : At("js") \notin ReleaseOf(o)
      BY <3>1, MoreKinds
    <3> QED
      BY <3>1, <3>2, SmallStacks DEF Init
  <2>3. \A o \in Ops : ~InLine(o)
    BY <2>1, <2>2, EmptyStack, OpsAssumption DEF InLine, Active
  <2>4. Once(issued) /\ Sorted(queue, issued)
    BY <2>1 DEF Once, Sorted
  <2>5. (\A P : ~Has(answers, P)) /\ \A d : ~Has(queue, {d})
    BY <2>1, EmptyStack
  <2>6. Line
    BY <2>3, <2>4, <2>5 DEF Line
  <2>7. Past
    BY <2>5 DEF Past
  <2>8. Sequence
    BY <2>1 DEF Sequence, Prior
  <2> QED
    BY <2>6, <2>7, <2>8 DEF Order
<1>2. Core /\ Order /\ [Next]_vars => Order'
  BY OrderNext
<1> QED
  BY <1>1, <1>2, CoreInvariant, PTL DEF Spec

\* Operations are answered at most once, those that are carried out in the
\* order in which they were issued, and whatever follows a finish is refused.
THEOREM BackupAnswersInOrder == Spec => []AnsweredInOrder
<1>1. Core /\ Order => AnsweredInOrder
  <2> SUFFICES ASSUME Core, Order
               PROVE  AnsweredInOrder
    OBVIOUS
  <2>1. issued \in Seq(Ops) /\ answers \in Seq(Answer) /\ Once(issued) /\ Sequence
    BY CoreTypes DEF Order, Line
  <2>2. \A a, b : Before(a, b) => Position(a) < Position(b)
    <3> SUFFICES ASSUME NEW a, NEW b, NEW i \in 1..Len(issued), NEW j \in 1..Len(issued),
                        i < j, issued[i] = a, issued[j] = b
                 PROVE  Position(a) < Position(b)
      BY DEF Before, Prior
    <3>1. Position(a) = i
      BY <2>1 DEF Position, Once
    <3>2. Position(b) = j
      BY <2>1 DEF Position, Once
    <3> QED
      BY <3>1, <3>2
  <2>3. \A i, j \in 1..Len(answers) : i < j => InOrder(answers[i], answers[j])
    <3> SUFFICES ASSUME NEW i \in 1..Len(answers), NEW j \in 1..Len(answers), i < j
                 PROVE  InOrder(answers[i], answers[j])
      OBVIOUS
    <3>1. answers[i] \in Answer /\ answers[j] \in Answer
      BY <2>1, ElementOfSeq
    <3>2. Prior(answers, answers[i], answers[j])
      BY DEF Prior
    <3> QED
      BY <2>1, <3>1, <3>2 DEF Sequence
  <2> QED
    BY <2>2, <2>3 DEF AnsweredInOrder, InOrder
<1> QED
  BY <1>1, OrderInvariant, PTL
=============================================================================
