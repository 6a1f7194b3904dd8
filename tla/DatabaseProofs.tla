--------------------------- MODULE DatabaseProofs ---------------------------
(***************************************************************************)
(* Proofs about the scheduler of a database, for every set of calls and    *)
(* every bound.  The argument of each theorem is in the README.            *)
(***************************************************************************)
EXTENDS Database, StackLemmas, FiniteSetTheorems

-----------------------------------------------------------------------------
\* The stack.  An operation that ends has its frame at the bottom, since it
\* was entered from the event loop.

EndPcs == {"end", "errorEnd"}

EndLast(s) == \A i \in 1..Len(s) : s[i].pc \in EndPcs => i = Len(s)

\* The frames of s2 that end an operation are frames of s.
NoNewEnd(s2, s) ==
  \A i \in 1..Len(s2) :
    s2[i].pc \in EndPcs => \E j \in 1..Len(s) : s2[i] = s[j]

\* What any handler but those entered from the event loop does to the stack.
StackStep(s2, s) == s2 \in Seq(Frame) /\ EndLast(s2) /\ NoNewEnd(s2, s)

LEMMA FrameTypes ==
  /\ \A p \in PCs : At(p) \in Frame
  /\ \A p \in PCs, c \in Calls : For(p, c) \in Frame
  /\ \A b \in BOOLEAN : Restore(b) \in Frame
  /\ Callback \in Frame /\ Callback.pc \notin EndPcs
  BY DEF Frame, PCs, At, For, Restore, Callback, EndPcs

LEMMA TailStep ==
  ASSUME NEW s \in Seq(Frame), s # <<>>, EndLast(s)
  PROVE  StackStep(Tail(s), s)
<1>1. /\ Tail(s) \in Seq(Frame) /\ Len(Tail(s)) = Len(s) - 1
      /\ \A i \in 1..Len(Tail(s)) : Tail(s)[i] = s[i + 1]
  BY HeadTailProperties
<1>2. Len(s) \in Nat
  BY LenProperties
<1>3. EndLast(Tail(s))
  <2> SUFFICES ASSUME NEW i \in 1..Len(Tail(s)), Tail(s)[i].pc \in EndPcs
               PROVE  i = Len(Tail(s))
    BY DEF EndLast
  <2>1. i + 1 \in 1..Len(s) /\ s[i + 1].pc \in EndPcs
    BY <1>1, <1>2
  <2>2. i + 1 = Len(s)
    BY <2>1 DEF EndLast
  <2>3. i = Len(s) - 1
    BY <1>2, <2>2
  <2> QED
    BY <1>1, <2>3
<1>4. NoNewEnd(Tail(s), s)
  <2> SUFFICES ASSUME NEW i \in 1..Len(Tail(s))
               PROVE  \E j \in 1..Len(s) : Tail(s)[i] = s[j]
    BY DEF NoNewEnd
  <2>1. i + 1 \in 1..Len(s) /\ Tail(s)[i] = s[i + 1]
    BY <1>1, <1>2
  <2> QED
    BY <2>1
<1> QED
  BY <1>1, <1>3, <1>4 DEF StackStep

\* Pushing a frame that ends no operation.
LEMMA PushStep ==
  ASSUME NEW s \in Seq(Frame), NEW r \in Seq(Frame), StackStep(r, s),
         NEW f \in Frame, f.pc \notin EndPcs
  PROVE  StackStep(<<f>> \o r, s)
<1>1. /\ <<f>> \o r \in Seq(Frame) /\ Len(<<f>> \o r) = Len(r) + 1
      /\ (<<f>> \o r)[1] = f
      /\ \A i \in 2..Len(r) + 1 : (<<f>> \o r)[i] = r[i - 1]
  OBVIOUS
<1>2. Len(r) \in Nat
  BY LenProperties
<1> DEFINE p == <<f>> \o r
<1>3. ASSUME NEW i \in 1..Len(p), p[i].pc \in EndPcs
      PROVE  i = Len(p) /\ \E j \in 1..Len(s) : p[i] = s[j]
  <2>1. i # 1
    BY <1>1, <1>3
  <2>2. i \in 2..Len(r) + 1 /\ i - 1 \in 1..Len(r)
    BY <1>1, <1>2, <2>1
  <2>3. p[i] = r[i - 1]
    BY <1>1, <2>2
  <2>4. i - 1 = Len(r)
    BY <1>3, <2>2, <2>3 DEF StackStep, EndLast
  <2>5. \E j \in 1..Len(s) : r[i - 1] = s[j]
    BY <1>3, <2>2, <2>3 DEF StackStep, NoNewEnd
  <2>6. i = Len(p)
    BY <1>1, <1>2, <2>2, <2>4
  <2> QED
    BY <2>3, <2>5, <2>6
<1> HIDE DEF p
<1>4. p \in Seq(Frame)
  BY <1>1 DEF p
<1>5. StackStep(p, s)
  BY <1>3, <1>4 DEF StackStep, EndLast, NoNewEnd
<1> QED
  BY <1>5 DEF p

LEMMA PushTwoStep ==
  ASSUME NEW s \in Seq(Frame), NEW r \in Seq(Frame), StackStep(r, s),
         NEW f \in Frame, f.pc \notin EndPcs, NEW g \in Frame, g.pc \notin EndPcs
  PROVE  StackStep(<<f, g>> \o r, s)
<1>1. <<f, g>> \o r = <<f>> \o (<<g>> \o r)
  OBVIOUS
<1>2. StackStep(<<g>> \o r, s)
  BY PushStep
<1>3. <<g>> \o r \in Seq(Frame)
  OBVIOUS
<1> QED
  BY <1>1, <1>2, <1>3, PushStep

LEMMA UnwoundStep ==
  ASSUME stack \in Seq(Frame), stack # <<>>, EndLast(stack)
  PROVE  StackStep(Unwound, stack)
<1> DEFINE t == Tail(stack)
<1>1. t \in Seq(Frame) /\ StackStep(t, stack)
  BY TailStep DEF StackStep
<1>2. CASE Unwound = t
  BY <1>1, <1>2
<1>3. CASE t # <<>> /\ Unwound = Tail(t)
  <2>1. StackStep(Tail(t), t)
    BY <1>1, <1>3, TailStep DEF StackStep
  <2> QED
    BY <1>1, <1>3, <2>1 DEF StackStep, NoNewEnd
<1> QED
  BY <1>2, <1>3 DEF Unwound

-----------------------------------------------------------------------------
\* The inductive invariant of the count of pending requests.

\* How far a call has gone bounds what its object may be doing.
Lifecycle ==
  \A c \in Calls :
    /\ stage[c] \in {"new", "queued", "starting", "begun"} => phase[c] = "none"
    /\ stage[c] = "starting" => KindOf[c] = "close"
    /\ stage[c] \in {"ran", "ending"} /\ KindOf[c] = "prepare"
         => phase[c] \in {"prepared", "failed"}
    /\ stage[c] = "over" => phase[c] \notin {"prepared", "failed"}
    /\ KindOf[c] # "prepare" => phase[c] = "none" /\ stage[c] # "ending"
    /\ stage[c] \in InFlight => Asynchronous(c)

\* What a frame at STATEMENT_END ends: the prepare call, or an operation.
Ends(c) ==
  /\ c \in Calls
  /\ \/ stage[c] = "ending" /\ phase[c] \in {"prepared", "failed"}
     \/ stage[c] = "over" /\ phase[c] = "ending"

EndFrames ==
  /\ EndLast(stack)
  /\ \A c \in Calls \cup {NoCall} :
       (\E i \in 1..Len(stack) : stack[i].pc \in EndPcs /\ stack[i].call = c)
         => Ends(c)

IInv == TypeOK /\ PendingAccurate /\ Lifecycle /\ QueueFaithful /\ EndFrames

-----------------------------------------------------------------------------
\* Counting.

LEMMA CountsFinite ==
  /\ IsFiniteSet(Working) /\ Cardinality(Working) \in Nat
  /\ IsFiniteSet(Operating) /\ Cardinality(Operating) \in Nat
  /\ Cardinality(Working') \in Nat /\ Cardinality(Operating') \in Nat
<1>1. \A S \in SUBSET Calls : IsFiniteSet(S) /\ Cardinality(S) \in Nat
  BY CallsAssumption, FS_Subset, FS_CardinalityType
<1>2. /\ Working \in SUBSET Calls /\ Operating \in SUBSET Calls
      /\ Working' \in SUBSET Calls /\ Operating' \in SUBSET Calls
  BY DEF Working, Operating
<1> QED
  BY <1>1, <1>2

LEMMA CountChange ==
  ASSUME NEW S, IsFiniteSet(S), NEW c, NEW T, NEW b,
         b => T = S \cup {c}, ~b => T = S \ {c}
  PROVE  Cardinality(T) = Cardinality(S) + (IF b THEN 1 ELSE 0)
                                         - (IF c \in S THEN 1 ELSE 0)
<1>1. Cardinality(S) \in Nat
  BY FS_CardinalityType
<1>2. CASE b
  BY <1>1, <1>2, FS_AddElement
<1>3. CASE ~b
  BY <1>1, <1>3, FS_RemoveElement
<1> QED
  BY <1>2, <1>3

\* One call changing stage changes the count by what it was and becomes.
LEMMA WorkingCount ==
  ASSUME stage \in [Calls -> Stages], NEW c \in Calls, NEW v,
         stage' = [stage EXCEPT ![c] = v]
  PROVE  Cardinality(Working') =
           Cardinality(Working) + (IF v \in InFlight THEN 1 ELSE 0)
                                - (IF stage[c] \in InFlight THEN 1 ELSE 0)
<1> DEFINE b == v \in InFlight
<1>1. /\ b => Working' = Working \cup {c}
      /\ ~b => Working' = Working \ {c}
  BY DEF Working
<1>2. c \in Working <=> stage[c] \in InFlight
  BY DEF Working
<1> HIDE DEF b
<1>3. Cardinality(Working') = Cardinality(Working) + (IF b THEN 1 ELSE 0)
                             - (IF c \in Working THEN 1 ELSE 0)
  BY <1>1, CountsFinite, CountChange
<1> QED
  BY <1>2, <1>3 DEF b

LEMMA OperatingCount ==
  ASSUME phase \in [Calls -> Phases], NEW c \in Calls, NEW v,
         phase' = [phase EXCEPT ![c] = v]
  PROVE  Cardinality(Operating') =
           Cardinality(Operating) + (IF v \in InFlight THEN 1 ELSE 0)
                                  - (IF phase[c] \in InFlight THEN 1 ELSE 0)
<1> DEFINE b == v \in InFlight
<1>1. /\ b => Operating' = Operating \cup {c}
      /\ ~b => Operating' = Operating \ {c}
  BY DEF Operating
<1>2. c \in Operating <=> phase[c] \in InFlight
  BY DEF Operating
<1> HIDE DEF b
<1>3. Cardinality(Operating') = Cardinality(Operating) + (IF b THEN 1 ELSE 0)
                             - (IF c \in Operating THEN 1 ELSE 0)
  BY <1>1, CountsFinite, CountChange
<1> QED
  BY <1>2, <1>3 DEF b

-----------------------------------------------------------------------------
\* Every action keeps the stack well formed, and only the two handlers that
\* start with an empty stack add a frame that ends an operation.

PlainPcs == PCs \ EndPcs

LEMMA PlainFrames ==
  ASSUME NEW p \in PlainPcs
  PROVE  At(p) \in Frame /\ At(p).pc \notin EndPcs
  BY DEF PlainPcs, Frame, At, PCs

LEMMA CallFrames ==
  ASSUME NEW c \in Calls
  PROVE  /\ For("finalize", c) \in Frame /\ For("finalize", c).pc \notin EndPcs
         /\ For("starting", c) \in Frame /\ For("starting", c).pc \notin EndPcs
  BY DEF Frame, For, PCs, EndPcs

LEMMA RestoreFrame ==
  ASSUME NEW b \in BOOLEAN
  PROVE  Restore(b) \in Frame /\ Restore(b).pc \notin EndPcs
  BY DEF Frame, Restore, PCs, EndPcs

LEMMA SameStack ==
  ASSUME NEW s \in Seq(Frame), EndLast(s)
  PROVE  StackStep(s, s)
  BY DEF StackStep, NoNewEnd

LEMMA BeginStack ==
  ASSUME NEW s \in Seq(Frame), NEW r \in Seq(Frame), StackStep(r, s),
         NEW c \in Calls, Begin(c, r) \/ BeginTraced(c, r)
  PROVE  StackStep(stack', s)
<1>1. At("tail") \in Frame /\ At("tail").pc \notin EndPcs
  BY PlainFrames DEF PlainPcs, PCs, EndPcs
<1>2. StackStep(<<Callback, At("tail")>> \o r, s)
  BY <1>1, FrameTypes, PushTwoStep
<1>3. /\ StackStep(<<Callback, For("starting", c)>> \o r, s)
      /\ StackStep(<<Callback>> \o r, s)
  BY FrameTypes, CallFrames, PushStep, PushTwoStep
<1> QED
  BY <1>2, <1>3 DEF Begin, BeginTraced

LEMMA ReturningStack ==
  ASSUME stack \in Seq(Frame), EndLast(stack), NEW c \in Calls
  PROVE  Returning(c) \in Seq(Frame) /\ StackStep(Returning(c), stack)
<1>1. At("process") \in Frame /\ At("process").pc \notin EndPcs
  BY PlainFrames DEF PlainPcs, PCs, EndPcs
<1>2. StackStep(<<At("process")>> \o stack, stack)
  BY <1>1, SameStack, PushStep
<1> QED
  BY <1>2, SameStack DEF Returning, StackStep

LEMMA JavaScriptStack ==
  ASSUME TypeOK, EndLast(stack), JavaScript
  PROVE  StackStep(stack', stack)
<1> USE DEF TypeOK
<1>1. ASSUME NEW c \in Calls, ScheduleReject(c)
      PROVE  StackStep(stack', stack)
  BY <1>1, ReturningStack, FrameTypes, PushStep DEF ScheduleReject
<1>2. ASSUME NEW c \in Calls, ScheduleQueue(c)
      PROVE  StackStep(stack', stack)
  BY <1>2, ReturningStack DEF ScheduleQueue
<1>3. ASSUME NEW c \in Calls, ScheduleBegin(c)
      PROVE  StackStep(stack', stack)
  BY <1>3, ReturningStack, BeginStack DEF ScheduleBegin
<1>4. ASSUME NEW c \in Calls, ObjectBegin(c) \/ ObjectFinalize(c)
      PROVE  StackStep(stack', stack)
  <2>1. CASE ObjectBegin(c)
    BY <2>1, SameStack DEF ObjectBegin
  <2>2. CASE ObjectFinalize(c)
    BY <2>2, SameStack, FrameTypes, PushStep DEF ObjectFinalize
  <2> QED
    BY <1>4, <2>1, <2>2
<1>5. ASSUME NEW value \in BOOLEAN, SetSerialize(value)
      PROVE  StackStep(stack', stack)
  <2>1. At("process") \in Frame /\ At("process").pc \notin EndPcs
    BY PlainFrames DEF PlainPcs, PCs, EndPcs
  <2>2. Restore(serialize) \in Frame /\ Restore(serialize).pc \notin EndPcs
    BY RestoreFrame
  <2>3. StackStep(<<At("process")>> \o stack, stack)
    BY <2>1, SameStack, PushStep
  <2>4. StackStep(<<Callback, Restore(serialize)>> \o stack, stack)
    BY <2>2, SameStack, FrameTypes, PushTwoStep
  <2> QED
    BY <1>5, <2>3, <2>4 DEF SetSerialize
<1>6. CASE JsReturn
  BY <1>6, TailStep DEF JsReturn, Js, InPc
<1>7. CASE JsThrow
  BY <1>7, UnwoundStep DEF JsThrow, InPc
<1>8. CASE JsCatch
  BY <1>8, SameStack DEF JsCatch
<1> QED
  BY <1>1, <1>2, <1>3, <1>4, <1>5, <1>6, <1>7, <1>8 DEF JavaScript, Enter

LEMMA HandlerStack ==
  ASSUME TypeOK, EndLast(stack), QueueFaithful, Handler
  PROVE  StackStep(stack', stack)
<1> USE DEF TypeOK
<1>1. stack # <<>>
  BY DEF Handler, ProcessReject, ProcessRun, ProcessReturn, ProcessLoop, Emit,
         TailCall, Finalize, DeadCallback, CloseBegins, End, EndRest, EndNext,
         EndFinalize, Ending, FinalizeNext, InPc
<1>2. StackStep(Tail(stack), stack) /\ Tail(stack) \in Seq(Frame)
  BY <1>1, TailStep DEF StackStep
<1>3. \A p \in {"process", "check", "tail", "reject"} :
        At(p) \in Frame /\ At(p).pc \notin EndPcs
  BY PlainFrames DEF PlainPcs, PCs, EndPcs
<1>4. StackStep(<<At("process")>> \o Tail(stack), stack)
  BY <1>2, <1>3, PushStep
<1>5. CASE ProcessReject
  BY <1>2, <1>3, <1>5, FrameTypes, PushTwoStep DEF ProcessReject
<1>6. CASE ProcessRun
  <2> DEFINE r == Head(queue)
  <2>1. r \in Request
    BY <1>6 DEF ProcessRun, CanRun
  <2>2. r.call \in Calls
    BY <2>1 DEF Request
  <2>3. StackStep(<<At("check")>> \o Tail(stack), stack)
    BY <1>2, <1>3, PushStep
  <2>4. \E rest \in Seq(Frame) :
          /\ StackStep(rest, stack)
          /\ Begin(r.call, rest) \/ BeginTraced(r.call, rest)
    BY <1>2, <1>6, <2>3, SameStack DEF ProcessRun, StackStep
  <2> QED
    BY <2>2, <2>4, BeginStack
<1>7. CASE ProcessReturn
  BY <1>2, <1>7 DEF ProcessReturn
<1>8. CASE ProcessLoop \/ TailCall
  BY <1>4, <1>8 DEF ProcessLoop, TailCall
<1>9. CASE Emit
  BY <1>2, <1>3, <1>9, FrameTypes, PushTwoStep DEF Emit
<1>10. CASE Finalize
  BY <1>2, <1>10, FrameTypes, PushStep DEF Finalize
<1>11. CASE DeadCallback
  BY <1>1, <1>11, UnwoundStep DEF DeadCallback
<1>12. ASSUME NEW c \in Calls, End(c)
       PROVE  StackStep(stack', stack)
  <2>1. CASE EndRest(c) \/ EndNext(c)
    BY <1>4, <2>1 DEF EndRest, EndNext
  <2>2. CASE EndFinalize(c)
    <3> DEFINE r == <<At("process")>> \o Tail(stack)
    <3>1. r \in Seq(Frame) /\ StackStep(r, stack)
      BY <1>4 DEF StackStep
    <3>2. stack' = <<Callback, For("finalize", c)>> \o r
      BY <1>2, <1>3, <2>2, FrameTypes, CallFrames DEF EndFinalize
    <3> QED
      BY <3>1, <3>2, FrameTypes, CallFrames, PushTwoStep
  <2> QED
    BY <1>12, <2>1, <2>2 DEF End
<1>13. ASSUME NEW c \in Calls, FinalizeNext(c)
       PROVE  StackStep(stack', stack)
  BY <1>2, <1>13, FrameTypes, PushStep DEF FinalizeNext
<1>14. ASSUME NEW c \in Calls, CloseBegins(c)
       PROVE  StackStep(stack', stack)
  BY <1>2, <1>14 DEF CloseBegins
<1> QED
  BY <1>5, <1>6, <1>7, <1>8, <1>9, <1>10, <1>11, <1>12, <1>13, <1>14 DEF Handler

-----------------------------------------------------------------------------
\* How the parts of the invariant survive a step.

LEMMA EndFramesKept ==
  ASSUME EndFrames, StackStep(stack', stack), stack \in Seq(Frame),
         \A c \in Calls : Ends(c) => Ends(c)'
  PROVE  EndFrames'
<1>1. EndLast(stack)'
  BY DEF StackStep, EndLast
<1>2. ASSUME NEW c \in Calls \cup {NoCall},
             NEW i \in 1..Len(stack'), stack'[i].pc \in EndPcs, stack'[i].call = c
      PROVE  Ends(c)'
  <2>1. \E j \in 1..Len(stack) : stack[j].pc \in EndPcs /\ stack[j].call = c
    BY <1>2 DEF StackStep, NoNewEnd
  <2>2. Ends(c)
    BY <2>1 DEF EndFrames
  <2>3. c \in Calls
    BY <2>2 DEF Ends
  <2> QED
    BY <2>2, <2>3
<1> QED
  BY <1>1, <1>2 DEF EndFrames

LEMMA QueueKept ==
  ASSUME QueueFaithful, UNCHANGED queue,
         \A c \in Calls : stage'[c] = "queued" <=> stage[c] = "queued"
  PROVE  QueueFaithful'
  BY DEF QueueFaithful

LEMMA QueueHead ==
  ASSUME QueueFaithful, queue \in Seq(Request), queue # <<>>
  PROVE  /\ Head(queue) \in Request /\ Head(queue).call \in Calls
         /\ stage[Head(queue).call] = "queued"
<1>1. Head(queue) \in Request /\ Head(queue) = queue[1] /\ 1 \in 1..Len(queue)
  OBVIOUS
<1>2. Head(queue).call \in Calls
  BY <1>1 DEF Request
<1> QED
  BY <1>1, <1>2 DEF QueueFaithful

LEMMA QueuePop ==
  ASSUME QueueFaithful, queue \in Seq(Request), queue # <<>>,
         stage \in [Calls -> Stages], NEW v, v # "queued",
         queue' = Tail(queue), stage' = [stage EXCEPT ![Head(queue).call] = v]
  PROVE  QueueFaithful'
<1> DEFINE h == Head(queue).call
<1>1. h \in Calls /\ h = queue[1].call /\ Len(queue) \in Nat /\ Len(queue) > 0
  BY QueueHead
<1>2. /\ Len(queue') = Len(queue) - 1
      /\ \A i \in 1..Len(queue') : queue'[i] = queue[i + 1]
  BY HeadTailProperties
<1>3. \A i \in 1..Len(queue') : i + 1 \in 1..Len(queue) /\ queue'[i].call # h
  BY <1>1, <1>2 DEF QueueFaithful
<1>4. ASSUME NEW c \in Calls
      PROVE  stage'[c] = "queued" <=> \E i \in 1..Len(queue') : queue'[i].call = c
  <2>1. CASE c = h
    BY <1>1, <1>3, <2>1
  <2>2. CASE c # h
    <3>1. stage'[c] = stage[c]
      BY <2>2
    <3>2. ASSUME NEW i \in 1..Len(queue), queue[i].call = c
          PROVE  i - 1 \in 1..Len(queue') /\ queue'[i - 1].call = c
      <4>1. i # 1
        BY <1>1, <2>2, <3>2
      <4>2. i - 1 \in 1..Len(queue')
        BY <1>1, <1>2, <4>1
      <4>3. queue'[i - 1] = queue[(i - 1) + 1]
        BY <1>2, <4>2
      <4> QED
        BY <3>2, <4>2, <4>3
    <3>3. ASSUME NEW i \in 1..Len(queue'), queue'[i].call = c
          PROVE  \E j \in 1..Len(queue) : queue[j].call = c
      BY <1>2, <1>3, <3>3
    <3> QED
      BY <3>1, <3>2, <3>3 DEF QueueFaithful
  <2> QED
    BY <2>1, <2>2
<1>5. ASSUME NEW i \in 1..Len(queue'), NEW j \in 1..Len(queue'),
             queue'[i].call = queue'[j].call
      PROVE  i = j
  <2>1. i + 1 = j + 1
    BY <1>2, <1>3, <1>5 DEF QueueFaithful
  <2> QED
    BY <2>1
<1> QED
  BY <1>4, <1>5 DEF QueueFaithful

LEMMA QueuePush ==
  ASSUME QueueFaithful, queue \in Seq(Request), stage \in [Calls -> Stages],
         NEW c \in Calls, stage[c] # "queued", NEW r \in Request, r.call = c,
         queue' = Append(queue, r), stage' = [stage EXCEPT ![c] = "queued"]
  PROVE  QueueFaithful'
<1>1. /\ Len(queue) \in Nat /\ Len(queue') = Len(queue) + 1
      /\ \A i \in 1..Len(queue) : queue'[i] = queue[i]
      /\ queue'[Len(queue')] = r
  OBVIOUS
<1>2. \A i \in 1..Len(queue) : queue[i].call # c
  BY DEF QueueFaithful
<1>3. ASSUME NEW d \in Calls
      PROVE  stage'[d] = "queued" <=> \E i \in 1..Len(queue') : queue'[i].call = d
  <2>1. CASE d = c
    BY <1>1, <2>1
  <2>2. CASE d # c
    <3>1. stage'[d] = stage[d]
      BY <2>2
    <3>2. \A i \in 1..Len(queue') : queue'[i].call = d => i \in 1..Len(queue)
      BY <1>1, <2>2
    <3>3. \A i \in 1..Len(queue) : i \in 1..Len(queue')
      BY <1>1
    <3> QED
      BY <1>1, <3>1, <3>2, <3>3 DEF QueueFaithful
  <2> QED
    BY <2>1, <2>2
<1>4. ASSUME NEW i \in 1..Len(queue'), NEW j \in 1..Len(queue'),
             queue'[i].call = queue'[j].call
      PROVE  i = j
  <2>1. CASE i = Len(queue') \/ j = Len(queue')
    BY <1>1, <1>2, <1>4, <2>1
  <2>2. CASE i # Len(queue') /\ j # Len(queue')
    <3>1. i \in 1..Len(queue) /\ j \in 1..Len(queue)
      BY <1>1, <2>2
    <3> QED
      BY <1>1, <1>4, <3>1 DEF QueueFaithful
  <2> QED
    BY <2>1, <2>2
<1> QED
  BY <1>3, <1>4 DEF QueueFaithful

\* TypeOK but for the count: that it is natural follows from what it counts.
DataOK ==
  /\ open \in BOOLEAN /\ closing \in BOOLEAN /\ locked \in BOOLEAN
  /\ serialize \in BOOLEAN
  /\ queue \in Seq(Request)
  /\ handle \in {"null", "live"}
  /\ opening \in {"begun", "ran", "over"}
  /\ stage \in [Calls -> Stages]
  /\ phase \in [Calls -> Phases]
  /\ ops \in [Calls -> Nat]
  /\ sqlite \in SUBSET Calls
  /\ raised \in BOOLEAN
  /\ excused \in BOOLEAN

LEMMA TypeFromParts ==
  ASSUME DataOK', PendingAccurate', stack' \in Seq(Frame)
  PROVE  TypeOK'
<1>1. pending' \in Nat
  BY CountsFinite DEF PendingAccurate
<1> QED
  BY <1>1 DEF DataOK, TypeOK

\* Actions that leave the calls, the objects and the queue alone.
LEMMA QuietStep ==
  ASSUME IInv, DataOK', UNCHANGED <<stage, phase, pending, queue>>,
         StackStep(stack', stack)
  PROVE  IInv'
<1>1. PendingAccurate' /\ Lifecycle' /\ QueueFaithful'
  BY DEF IInv, PendingAccurate, Lifecycle, QueueFaithful, Working, Operating
<1>2. EndFrames'
  BY EndFramesKept DEF IInv, TypeOK, Ends
<1> QED
  BY <1>1, <1>2, TypeFromParts DEF IInv, StackStep

Count(x) == IF x \in InFlight THEN 1 ELSE 0

\* Stage v and phase w may go together in a call c.
Fits(c, v, w) ==
  /\ v \in {"new", "queued", "starting", "begun"} => w = "none"
  /\ v = "starting" => KindOf[c] = "close"
  /\ v \in {"ran", "ending"} /\ KindOf[c] = "prepare" => w \in {"prepared", "failed"}
  /\ v = "over" => w \notin {"prepared", "failed"}
  /\ KindOf[c] # "prepare" => w = "none" /\ v # "ending"
  /\ v \in InFlight => Asynchronous(c)

NoEnds(s) == \A i \in 1..Len(s) : s[i].pc \notin EndPcs

\* Actions that change the stage or the phase of one call c, on which no end
\* frame is left to depend.
LEMMA CallStep ==
  ASSUME IInv, DataOK', NEW c \in Calls, NEW v, NEW w,
         stage' = [stage EXCEPT ![c] = v], phase' = [phase EXCEPT ![c] = w],
         StackStep(stack', stack), ~Ends(c) \/ NoEnds(stack'), QueueFaithful',
         pending' = pending + Count(v) - Count(stage[c]) + Count(w) - Count(phase[c]),
         Fits(c, v, w)
  PROVE  IInv'
<1>1. stage \in [Calls -> Stages] /\ phase \in [Calls -> Phases] /\ pending \in Nat
  BY DEF IInv, TypeOK
<1>2. PendingAccurate'
  <2>1. Cardinality(Working') =
          Cardinality(Working) + (IF v \in InFlight THEN 1 ELSE 0)
                               - (IF stage[c] \in InFlight THEN 1 ELSE 0)
    BY <1>1, WorkingCount
  <2>2. Cardinality(Operating') =
          Cardinality(Operating) + (IF w \in InFlight THEN 1 ELSE 0)
                                 - (IF phase[c] \in InFlight THEN 1 ELSE 0)
    BY <1>1, OperatingCount
  <2> QED
    BY <1>1, <2>1, <2>2, CountsFinite DEF IInv, PendingAccurate, Count
<1>3. Lifecycle'
  BY <1>1 DEF IInv, Lifecycle, Asynchronous, Fits
<1>4. EndFrames'
  <2>1. CASE NoEnds(stack')
    BY <2>1 DEF EndFrames, EndLast, NoEnds
  <2>2. CASE ~Ends(c)
    <3>1. \A d \in Calls : Ends(d) => Ends(d)'
      BY <1>1, <2>2 DEF Ends
    <3> QED
      BY <3>1, EndFramesKept DEF IInv, TypeOK
  <2> QED
    BY <2>1, <2>2
<1> QED
  BY <1>2, <1>3, <1>4, TypeFromParts DEF IInv, StackStep

-----------------------------------------------------------------------------
\* One step for each action.

LEMMA RequestType ==
  ASSUME NEW c \in Calls, NEW b \in BOOLEAN
  PROVE  /\ [call |-> c, exclusive |-> b] \in Request
         /\ [call |-> c, exclusive |-> b].call = c
  BY DEF Request

\* What becomes of a call that Schedule or Process begins.
LEMMA Begun ==
  ASSUME NEW c \in Calls, NEW rest, Begin(c, rest) \/ BeginTraced(c, rest),
         pending \in Nat, closing \in BOOLEAN
  PROVE  /\ \E v \in {"starting", "begun", "over"} :
              /\ stage' = [stage EXCEPT ![c] = v]
              /\ pending' = pending + Count(v)
              /\ Fits(c, v, "none")
              /\ closing' = (closing \/ (KindOf[c] = "close" /\ v # "starting"))
              /\ Asynchronous(c) <=> v # "over"
         /\ closing' \in BOOLEAN
<1>1. CASE Begin(c, rest) /\ Asynchronous(c)
  BY <1>1 DEF Begin, Count, InFlight, Fits
<1>2. CASE Begin(c, rest) /\ ~Asynchronous(c)
  <2>1. /\ stage' = [stage EXCEPT ![c] = "over"] /\ pending' = pending
        /\ closing' = closing /\ KindOf[c] # "close"
    BY <1>2 DEF Begin, Asynchronous
  <2>2. Count("over") = 0 /\ Fits(c, "over", "none")
    BY DEF Count, InFlight, Fits
  <2>3. pending' = pending + Count("over")
    BY <2>1, <2>2
  <2> QED
    BY <1>2, <2>1, <2>2, <2>3
<1>3. CASE BeginTraced(c, rest)
  BY <1>3 DEF BeginTraced, Count, InFlight, Fits, Asynchronous
<1> QED
  BY <1>1, <1>2, <1>3

LEMMA JavaScriptStep ==
  ASSUME IInv, JavaScript
  PROVE  IInv'
<1>0. TypeOK /\ Lifecycle /\ QueueFaithful
  BY DEF IInv
<1>1. StackStep(stack', stack)
  BY JavaScriptStack DEF IInv, EndFrames
<1>2. ASSUME NEW c \in Calls, ScheduleReject(c)
      PROVE  IInv'
  <2> DEFINE w == IF KindOf[c] = "prepare" THEN "gone" ELSE phase[c]
  <2>1. /\ stage' = [stage EXCEPT ![c] = "over"] /\ phase' = [phase EXCEPT ![c] = w]
        /\ stage[c] = "new" /\ phase[c] = "none" /\ UNCHANGED <<pending, queue>>
    BY <1>0, <1>2 DEF ScheduleReject, Rejected, fields, Lifecycle
  <2>2. QueueFaithful'
    BY <1>0, <2>1, QueueKept
  <2>3. DataOK'
    BY <1>0, <1>2, <2>1 DEF TypeOK, DataOK, ScheduleReject, fields, Stages, Phases
  <2>7. pending' = pending + Count("over") - Count(stage[c]) + Count(w) - Count(phase[c])
    BY <1>0, <2>1 DEF TypeOK, Count, InFlight
  <2>8. Fits(c, "over", w) /\ ~Ends(c)
    BY <1>0, <2>1 DEF Fits, Ends, InFlight
  <2> QED
    BY <1>1, <2>1, <2>2, <2>3, <2>7, <2>8, CallStep
<1>3. ASSUME NEW c \in Calls, ScheduleQueue(c)
      PROVE  IInv'
  <2> DEFINE r == [call |-> c, exclusive |-> Exclusive(c) \/ serialize]
  <2>1. /\ stage' = [stage EXCEPT ![c] = "queued"] /\ phase' = [phase EXCEPT ![c] = phase[c]]
        /\ stage[c] = "new" /\ phase[c] = "none" /\ UNCHANGED pending
        /\ queue' = Append(queue, r)
    BY <1>0, <1>3 DEF TypeOK, ScheduleQueue, fields, objects, Lifecycle
  <2>2. r \in Request /\ r.call = c
    BY RequestType DEF Exclusive
  <2>3. QueueFaithful'
    BY <1>0, <2>1, <2>2, QueuePush DEF TypeOK
  <2>4. DataOK'
    BY <1>0, <1>3, <2>1, <2>2 DEF TypeOK, DataOK, ScheduleQueue, fields, objects, Stages, Phases
  <2>7. pending' = pending + Count("queued") - Count(stage[c]) + Count(phase[c]) - Count(phase[c])
    BY <1>0, <2>1 DEF TypeOK, Count, InFlight
  <2>8. Fits(c, "queued", phase[c]) /\ ~Ends(c)
    BY <1>0, <2>1 DEF Fits, Ends, InFlight
  <2> QED
    BY <1>1, <2>1, <2>3, <2>4, <2>7, <2>8, CallStep
<1>4. ASSUME NEW c \in Calls, ScheduleBegin(c)
      PROVE  IInv'
  <2>1. PICK v \in {"starting", "begun", "over"} :
          /\ stage' = [stage EXCEPT ![c] = v] /\ pending' = pending + Count(v)
          /\ Fits(c, v, "none")
    BY <1>0, <1>4, Begun DEF ScheduleBegin, TypeOK
  <2>2. /\ phase' = [phase EXCEPT ![c] = phase[c]]
        /\ stage[c] = "new" /\ phase[c] = "none" /\ UNCHANGED queue
        /\ closing' \in BOOLEAN
    BY <1>0, <1>4, Begun DEF TypeOK, ScheduleBegin, objects, Lifecycle
  <2>3. QueueFaithful'
    BY <1>0, <2>1, <2>2, QueueKept DEF TypeOK
  <2>4. DataOK'
    BY <1>0, <1>4, <2>1, <2>2 DEF TypeOK, DataOK, ScheduleBegin, objects, Exclusive, Stages
  <2>5. pending' = pending + Count(v) - Count(stage[c]) + Count(phase[c]) - Count(phase[c])
    BY <1>0, <2>1, <2>2 DEF TypeOK, Count, InFlight
  <2>6. Fits(c, v, phase[c]) /\ ~Ends(c)
    BY <2>1, <2>2 DEF Ends
  <2> QED
    BY <1>1, <2>1, <2>2, <2>3, <2>4, <2>5, <2>6, CallStep
<1>5. ASSUME NEW c \in Calls, ObjectBegin(c)
      PROVE  IInv'
  <2>1. /\ stage' = [stage EXCEPT ![c] = stage[c]] /\ phase' = [phase EXCEPT ![c] = "begun"]
        /\ stage[c] = "over" /\ phase[c] = "idle" /\ UNCHANGED queue
        /\ pending' = pending + 1 /\ KindOf[c] = "prepare"
    BY <1>0, <1>5 DEF TypeOK, ObjectBegin, Operate, Lifecycle, Stages, Asynchronous, InFlight
  <2>2. QueueFaithful'
    BY <1>0, <2>1, QueueKept
  <2>3. DataOK'
    BY <1>0, <1>5 DEF TypeOK, DataOK, ObjectBegin, Operate, Phases
  <2>7. pending' = pending + Count(stage[c]) - Count(stage[c]) + Count("begun") - Count(phase[c])
    BY <1>0, <2>1 DEF TypeOK, Count, InFlight
  <2>8. Fits(c, stage[c], "begun") /\ ~Ends(c)
    BY <1>0, <2>1 DEF Fits, Ends, InFlight
  <2> QED
    BY <1>1, <2>1, <2>2, <2>3, <2>7, <2>8, CallStep
<1>6. ASSUME NEW c \in Calls, ObjectFinalize(c)
      PROVE  IInv'
  <2>1. /\ stage' = [stage EXCEPT ![c] = stage[c]] /\ phase' = [phase EXCEPT ![c] = "gone"]
        /\ stage[c] = "over" /\ phase[c] = "idle" /\ UNCHANGED <<pending, queue>>
        /\ KindOf[c] = "prepare"
    BY <1>0, <1>6 DEF TypeOK, ObjectFinalize, fields, Lifecycle, Stages, Asynchronous, InFlight
  <2>2. QueueFaithful'
    BY <1>0, <2>1, QueueKept
  <2>3. DataOK'
    BY <1>0, <1>6 DEF TypeOK, DataOK, ObjectFinalize, fields, Phases
  <2>7. pending' = pending + Count(stage[c]) - Count(stage[c]) + Count("gone") - Count(phase[c])
    BY <1>0, <2>1 DEF TypeOK, Count, InFlight
  <2>8. Fits(c, stage[c], "gone") /\ ~Ends(c)
    BY <1>0, <2>1 DEF Fits, Ends, InFlight
  <2> QED
    BY <1>1, <2>1, <2>2, <2>3, <2>7, <2>8, CallStep
<1>7. ASSUME NEW value \in BOOLEAN, SetSerialize(value)
      PROVE  IInv'
  <2>1. DataOK' /\ UNCHANGED <<stage, phase, pending, queue>>
    BY <1>0, <1>7 DEF TypeOK, DataOK, SetSerialize, objects
  <2> QED
    BY <1>1, <2>1, QuietStep
<1>8. CASE JsReturn \/ JsThrow \/ JsCatch
  <2>1. DataOK' /\ UNCHANGED <<stage, phase, pending, queue>>
    BY <1>0, <1>8 DEF TypeOK, DataOK, JsReturn, JsThrow, JsCatch, fields, objects
  <2> QED
    BY <1>1, <2>1, QuietStep
<1> QED
  BY <1>2, <1>3, <1>4, <1>5, <1>6, <1>7, <1>8 DEF JavaScript, Enter

\* The frame of STATEMENT_END is the only one of its stack.
LEMMA EndingFacts ==
  ASSUME IInv, NEW c \in Calls, Ending(c)
  PROVE  Ends(c) /\ Tail(stack) = <<>>
<1>1. /\ stack \in Seq(Frame) /\ stack # <<>> /\ Head(stack).pc \in EndPcs
      /\ Head(stack).call = c
  BY DEF IInv, TypeOK, Ending, InPc, EndPcs
<1>2. stack[1] = Head(stack) /\ 1 \in 1..Len(stack)
  BY <1>1
<1>3. Ends(c)
  BY <1>1, <1>2 DEF IInv, EndFrames
<1>4. Len(stack) = 1
  BY <1>1, <1>2 DEF IInv, EndFrames, EndLast
<1>5. Tail(stack) = <<>>
  BY <1>1, <1>4
<1> QED
  BY <1>3, <1>5

LEMMA NothingBelow ==
  ASSUME NEW f, NEW g, NEW h
  PROVE  <<f>> \o <<>> = <<f>> /\ <<f, g, h>> \o <<>> = <<f, g, h>>
<1>1. <<f>> \in Seq({f, g, h}) /\ <<f, g, h>> \in Seq({f, g, h})
  OBVIOUS
<1> QED
  BY <1>1, ConcatEmptySeq

LEMMA EndStep ==
  ASSUME IInv, NEW c \in Calls, End(c)
  PROVE  IInv'
<1>0. TypeOK /\ Lifecycle /\ QueueFaithful
  BY DEF IInv
<1>1. StackStep(stack', stack)
  BY <1>0, HandlerStack DEF IInv, EndFrames, Handler
<1>2. Ends(c) /\ Tail(stack) = <<>>
  BY EndingFacts DEF End, EndRest, EndNext, EndFinalize
<1>3. NoEnds(stack')
  <2>2. CASE EndRest(c) \/ EndNext(c)
    <3>1. stack' = <<At("process")>>
      BY <1>2, <2>2, NothingBelow DEF EndRest, EndNext
    <3> QED
      BY <3>1 DEF NoEnds, At, EndPcs
  <2>3. CASE EndFinalize(c)
    <3>1. stack' = <<Callback, For("finalize", c), At("process")>>
      BY <1>2, <2>3, NothingBelow DEF EndFinalize
    <3> QED
      BY <3>1, FrameTypes, CallFrames DEF NoEnds, At, EndPcs
  <2> QED
    BY <2>2, <2>3 DEF End
<1>4. KindOf[c] = "prepare"
  BY <1>0, <1>2 DEF Lifecycle, Ends, InFlight, Asynchronous
<1>5. /\ stage' = [stage EXCEPT ![c] = "over"] /\ UNCHANGED queue
      /\ stage[c] \in {"ending", "over"}
  BY <1>2 DEF End, EndRest, EndNext, EndFinalize, Ending, Ends
<1>6. QueueFaithful'
  BY <1>0, <1>5, QueueKept DEF TypeOK
<1>7. ASSUME NEW w \in {"idle", "gone", "begun"},
             phase' = [phase EXCEPT ![c] = w],
             pending' = IF w = "begun" THEN pending ELSE pending - 1, DataOK'
      PROVE  IInv'
  <2>1. pending' = pending + Count("over") - Count(stage[c]) + Count(w) - Count(phase[c])
    BY <1>0, <1>2, <1>7 DEF TypeOK, Count, InFlight, Ends
  <2>2. Fits(c, "over", w)
    BY <1>4, <1>7 DEF Fits, InFlight
  <2> QED
    BY <1>1, <1>3, <1>5, <1>6, <1>7, <2>1, <2>2, CallStep
<1>8. CASE EndRest(c)
  <2>1. DataOK'
    BY <1>0, <1>8 DEF TypeOK, DataOK, EndRest, Ending, Stages, Phases
  <2>2. pending' = pending - 1 /\ \E w \in {"idle", "gone"} : phase' = [phase EXCEPT ![c] = w]
    BY <1>8 DEF EndRest
  <2> QED
    BY <1>7, <2>1, <2>2
<1>9. CASE EndNext(c)
  <2>1. DataOK'
    BY <1>0, <1>9 DEF TypeOK, DataOK, EndNext, Ending, Operate, Stages, Phases
  <2> QED
    BY <1>7, <1>9, <2>1 DEF EndNext, Operate
<1>10. CASE EndFinalize(c)
  <2>1. DataOK'
    BY <1>0, <1>10 DEF TypeOK, DataOK, EndFinalize, Ending, Stages, Phases
  <2> QED
    BY <1>7, <1>10, <2>1 DEF EndFinalize
<1> QED
  BY <1>8, <1>9, <1>10 DEF End

LEMMA HandlerStep ==
  ASSUME IInv, Handler
  PROVE  IInv'
<1>0. TypeOK /\ Lifecycle /\ QueueFaithful
  BY DEF IInv
<1>1. StackStep(stack', stack)
  BY <1>0, HandlerStack DEF IInv, EndFrames
<1>2. CASE ProcessReject
  <2> DEFINE c == Head(queue).call
             w == IF KindOf[c] = "prepare" THEN "gone" ELSE phase[c]
  <2>1. queue # <<>>
    BY <1>2 DEF ProcessReject
  <2>2. c \in Calls /\ stage[c] = "queued" /\ phase[c] = "none"
    BY <1>0, <2>1, QueueHead DEF TypeOK, Lifecycle
  <2>3. /\ stage' = [stage EXCEPT ![c] = "over"] /\ phase' = [phase EXCEPT ![c] = w]
        /\ queue' = Tail(queue) /\ UNCHANGED pending
    BY <1>2 DEF ProcessReject, Rejected, fields
  <2>4. QueueFaithful'
    BY <1>0, <2>1, <2>3, QueuePop DEF TypeOK
  <2>5. DataOK'
    BY <1>0, <1>2, <2>1, <2>2, <2>3 DEF TypeOK, DataOK, ProcessReject, fields, Stages, Phases
  <2> HIDE DEF c
  <2>6. pending' = pending + Count("over") - Count(stage[c]) + Count(w) - Count(phase[c])
    BY <1>0, <2>2, <2>3 DEF TypeOK, Count, InFlight
  <2>7. Fits(c, "over", w) /\ ~Ends(c)
    BY <2>2 DEF Fits, Ends, InFlight
  <2> QED
    BY <1>1, <2>2, <2>3, <2>4, <2>5, <2>6, <2>7, CallStep
<1>3. CASE ProcessRun
  <2> DEFINE r == Head(queue)
             c == r.call
  <2>1. queue # <<>>
    BY <1>3 DEF ProcessRun, CanRun
  <2>2. r \in Request /\ c \in Calls /\ stage[c] = "queued" /\ phase[c] = "none"
    BY <1>0, <2>1, QueueHead DEF TypeOK, Lifecycle
  <2>3. /\ UNCHANGED phase /\ queue' = Tail(queue)
        /\ \E rest : Begin(c, rest) \/ BeginTraced(c, rest)
    BY <1>3 DEF ProcessRun, objects
  <2>4. PICK v \in {"starting", "begun", "over"} :
          /\ stage' = [stage EXCEPT ![c] = v] /\ pending' = pending + Count(v)
          /\ Fits(c, v, "none") /\ closing' \in BOOLEAN
    BY <1>0, <2>2, <2>3, Begun DEF TypeOK
  <2>5. QueueFaithful'
    BY <1>0, <2>1, <2>3, <2>4, QueuePop DEF TypeOK
  <2>6. DataOK'
    <3>1. stage' \in [Calls -> Stages]
      BY <1>0, <2>2, <2>4 DEF TypeOK, Stages
    <3>3. queue' \in Seq(Request)
      BY <1>0, <2>1, <2>3 DEF TypeOK
    <3>2. locked' \in BOOLEAN /\ excused' \in BOOLEAN
      BY <1>0, <1>3, <2>2 DEF TypeOK, ProcessRun, Request
    <3> QED
      BY <1>0, <1>3, <2>4, <3>1, <3>2, <3>3 DEF TypeOK, DataOK, ProcessRun, objects
  <2> HIDE DEF c
  <2>7. phase' = [phase EXCEPT ![c] = phase[c]]
    BY <1>0, <2>2, <2>3 DEF TypeOK
  <2>8. pending' = pending + Count(v) - Count(stage[c]) + Count(phase[c]) - Count(phase[c])
    BY <1>0, <2>2, <2>4 DEF TypeOK, Count, InFlight
  <2>9. Fits(c, v, phase[c]) /\ ~Ends(c)
    BY <2>2, <2>4 DEF Ends
  <2> QED
    BY <1>1, <2>2, <2>4, <2>5, <2>6, <2>7, <2>8, <2>9, CallStep
<1>4. CASE ProcessReturn \/ ProcessLoop \/ Emit \/ TailCall \/ Finalize \/ DeadCallback
  <2>1. DataOK'
    <3>1. CASE TailCall
      <4>1. stack # <<>>
        BY <3>1 DEF TailCall, InPc
      <4>2. Head(stack) \in Frame
        BY <1>0, <4>1 DEF TypeOK
      <4>3. serialize' \in BOOLEAN
        BY <1>0, <3>1, <4>2 DEF TypeOK, TailCall, Frame
      <4> QED
        BY <1>0, <3>1, <4>3 DEF TypeOK, DataOK, TailCall, objects
    <3>2. CASE Finalize
      BY <1>0, <3>2 DEF TypeOK, DataOK, Finalize, fields
    <3>3. CASE ProcessReturn \/ ProcessLoop \/ Emit \/ DeadCallback
      BY <1>0, <3>3 DEF TypeOK, DataOK, ProcessReturn, ProcessLoop, Emit,
         DeadCallback, fields, objects
    <3> QED
      BY <1>4, <3>1, <3>2, <3>3
  <2>2. UNCHANGED <<stage, phase, pending, queue>>
    BY <1>4 DEF ProcessReturn, ProcessLoop, Emit, TailCall, Finalize, DeadCallback,
       fields, objects
  <2> QED
    BY <1>1, <2>1, <2>2, QuietStep
<1>5. ASSUME NEW c \in Calls, End(c)
      PROVE  IInv'
  BY <1>5, EndStep
<1>6. ASSUME NEW c \in Calls, FinalizeNext(c)
      PROVE  IInv'
  <2>1. /\ stage' = [stage EXCEPT ![c] = stage[c]] /\ phase' = [phase EXCEPT ![c] = "begun"]
        /\ stage[c] = "over" /\ phase[c] = "gone"
        /\ pending' = pending + 1 /\ UNCHANGED queue
        /\ KindOf[c] = "prepare"
    BY <1>0, <1>6 DEF TypeOK, FinalizeNext, Operate, Lifecycle, Stages, Asynchronous, InFlight
  <2>2. QueueFaithful'
    BY <1>0, <2>1, QueueKept
  <2>3. DataOK'
    BY <1>0, <1>6 DEF TypeOK, DataOK, FinalizeNext, Operate, Phases
  <2>4. pending' = pending + Count(stage[c]) - Count(stage[c]) + Count("begun") - Count(phase[c])
    BY <1>0, <2>1 DEF TypeOK, Count, InFlight
  <2>5. Fits(c, stage[c], "begun") /\ ~Ends(c)
    BY <1>0, <2>1 DEF Fits, Ends, InFlight
  <2> QED
    BY <1>1, <2>1, <2>2, <2>3, <2>4, <2>5, CallStep
<1>7. ASSUME NEW c \in Calls, CloseBegins(c)
      PROVE  IInv'
  <2>1. /\ stage' = [stage EXCEPT ![c] = "begun"] /\ phase' = [phase EXCEPT ![c] = phase[c]]
        /\ stage[c] = "starting" /\ phase[c] = "none" /\ KindOf[c] = "close"
        /\ UNCHANGED <<pending, queue>>
    BY <1>0, <1>7 DEF TypeOK, CloseBegins, objects, Lifecycle
  <2>2. QueueFaithful'
    BY <1>0, <2>1, QueueKept DEF TypeOK
  <2>3. DataOK'
    BY <1>0, <1>7 DEF TypeOK, DataOK, CloseBegins, objects, Stages
  <2>4. pending' = pending + Count("begun") - Count(stage[c]) + Count(phase[c]) - Count(phase[c])
    BY <1>0, <2>1 DEF TypeOK, Count, InFlight
  <2>5. Fits(c, "begun", phase[c]) /\ ~Ends(c)
    BY <2>1 DEF Fits, Ends, InFlight, Asynchronous
  <2> QED
    BY <1>1, <2>1, <2>2, <2>3, <2>4, <2>5, CallStep
<1> QED
  BY <1>2, <1>3, <1>4, <1>5, <1>6, <1>7 DEF Handler

LEMMA WorkStep ==
  ASSUME IInv, NEW c \in Calls, Work(c)
  PROVE  IInv'
<1>0. TypeOK /\ Lifecycle /\ QueueFaithful
  BY DEF IInv
<1>1. StackStep(stack', stack)
  BY <1>0, SameStack DEF IInv, TypeOK, EndFrames, Work, WorkExec, WorkClose,
     WorkPrepare, WorkOperation
<1>2. CASE WorkExec(c) \/ WorkClose(c)
  <2>1. /\ stage' = [stage EXCEPT ![c] = "ran"] /\ phase' = [phase EXCEPT ![c] = phase[c]]
        /\ stage[c] = "begun" /\ phase[c] = "none" /\ UNCHANGED <<pending, queue>>
        /\ KindOf[c] \in {"exec", "close"}
    BY <1>0, <1>2 DEF TypeOK, WorkExec, WorkClose, fields, objects, Lifecycle
  <2>2. QueueFaithful'
    BY <1>0, <2>1, QueueKept DEF TypeOK
  <2>3. DataOK'
    BY <1>0, <1>2 DEF TypeOK, DataOK, WorkExec, WorkClose, fields, objects, Stages
  <2>4. pending' = pending + Count("ran") - Count(stage[c]) + Count(phase[c]) - Count(phase[c])
    BY <1>0, <2>1 DEF TypeOK, Count, InFlight
  <2>5. Fits(c, "ran", phase[c]) /\ ~Ends(c)
    BY <2>1 DEF Fits, Ends, InFlight, Asynchronous
  <2> QED
    BY <1>1, <2>1, <2>2, <2>3, <2>4, <2>5, CallStep
<1>3. CASE WorkPrepare(c)
  <2>1. PICK w \in {"prepared", "failed"} : phase' = [phase EXCEPT ![c] = w]
    BY <1>3 DEF WorkPrepare
  <2>2. /\ stage' = [stage EXCEPT ![c] = "ran"] /\ KindOf[c] = "prepare"
        /\ stage[c] = "begun" /\ phase[c] = "none" /\ UNCHANGED <<pending, queue>>
    BY <1>0, <1>3 DEF WorkPrepare, fields, Lifecycle
  <2>3. QueueFaithful'
    BY <1>0, <2>2, QueueKept DEF TypeOK
  <2>4. DataOK'
    BY <1>0, <1>3 DEF TypeOK, DataOK, WorkPrepare, fields, Stages, Phases
  <2>5. pending' = pending + Count("ran") - Count(stage[c]) + Count(w) - Count(phase[c])
    BY <1>0, <2>2 DEF TypeOK, Count, InFlight
  <2>6. Fits(c, "ran", w) /\ ~Ends(c)
    BY <2>2 DEF Fits, Ends, InFlight, Asynchronous
  <2> QED
    BY <1>1, <2>1, <2>2, <2>3, <2>4, <2>5, <2>6, CallStep
<1>4. CASE WorkOperation(c)
  <2>1. /\ stage' = [stage EXCEPT ![c] = stage[c]] /\ phase' = [phase EXCEPT ![c] = "ran"]
        /\ stage[c] = "over" /\ phase[c] = "begun" /\ UNCHANGED <<pending, queue>>
        /\ KindOf[c] = "prepare"
    BY <1>0, <1>4 DEF TypeOK, WorkOperation, fields, Lifecycle, Stages, Asynchronous,
       InFlight
  <2>2. QueueFaithful'
    BY <1>0, <2>1, QueueKept DEF TypeOK
  <2>3. DataOK'
    BY <1>0, <1>4 DEF TypeOK, DataOK, WorkOperation, fields, Phases
  <2>4. pending' = pending + Count(stage[c]) - Count(stage[c]) + Count("ran") - Count(phase[c])
    BY <1>0, <2>1 DEF TypeOK, Count, InFlight
  <2>5. Fits(c, stage[c], "ran") /\ ~Ends(c)
    BY <2>1 DEF Fits, Ends, InFlight
  <2> QED
    BY <1>1, <2>1, <2>2, <2>3, <2>4, <2>5, CallStep
<1> QED
  BY <1>2, <1>3, <1>4 DEF Work

\* A handler entered from the event loop has a callback above one frame.
LEMMA EventStack ==
  ASSUME NEW f \in Frame, NEW s
  PROVE  /\ EndLast(<<At("js")>>) /\ <<At("js")>> \in Seq(Frame)
         /\ EndLast(<<At("js"), f>>) /\ <<At("js"), f>> \in Seq(Frame)
         /\ StackStep(<<At("js")>>, s)
         /\ f.pc \notin EndPcs => StackStep(<<At("js"), f>>, s)
<1>1. At("js") \in Frame /\ At("js").pc \notin EndPcs
  BY PlainFrames DEF PlainPcs, PCs, EndPcs
<1>2. EndLast(<<At("js")>>) /\ EndLast(<<At("js"), f>>)
  BY <1>1 DEF EndLast
<1> QED
  BY <1>1, <1>2 DEF StackStep, NoNewEnd

LEMMA AfterStep ==
  ASSUME IInv, NEW c \in Calls, After(c)
  PROVE  IInv'
<1>0. TypeOK /\ Lifecycle /\ QueueFaithful
  BY DEF IInv
<1>1. CASE AfterExec(c) \/ AfterClose(c)
  <2>1. /\ stage' = [stage EXCEPT ![c] = "over"] /\ phase' = [phase EXCEPT ![c] = phase[c]]
        /\ stage[c] = "ran" /\ phase[c] = "none" /\ UNCHANGED queue
        /\ pending' = pending - 1
    BY <1>0, <1>1 DEF TypeOK, AfterExec, AfterClose, objects, Lifecycle
  <2>2. QueueFaithful'
    BY <1>0, <2>1, QueueKept DEF TypeOK
  <2>3. DataOK'
    BY <1>0, <1>1 DEF TypeOK, DataOK, AfterExec, AfterClose, objects, Stages
  <2>4. pending' = pending + Count("over") - Count(stage[c]) + Count(phase[c]) - Count(phase[c])
    BY <1>0, <2>1 DEF TypeOK, Count, InFlight
  <2>5. Fits(c, "over", phase[c]) /\ ~Ends(c)
    BY <2>1 DEF Fits, Ends, InFlight
  <2>6. \A p \in {"tail", "closed"} : At(p) \in Frame /\ At(p).pc \notin EndPcs
    BY PlainFrames DEF PlainPcs, PCs, EndPcs
  <2>7. StackStep(stack', stack)
    BY <1>1, <2>6, EventStack DEF AfterExec, AfterClose
  <2> QED
    BY <2>1, <2>2, <2>3, <2>4, <2>5, <2>7, CallStep
<1>2. CASE AfterPrepare(c) \/ AfterOperation(c)
  <2>1. PICK p \in EndPcs : stack' = <<At("js"), For(p, c)>>
    BY <1>2 DEF AfterPrepare, AfterOperation, EndPcs
  <2>2. For(p, c) \in Frame /\ For(p, c).call = c /\ At("js").pc \notin EndPcs
    BY <2>1, FrameTypes DEF PCs, EndPcs, For, At
  <2>3. KindOf[c] = "prepare" /\ UNCHANGED <<pending, queue>>
    BY <1>0, <1>2 DEF AfterPrepare, AfterOperation, Lifecycle, fields
  <2>4. /\ stage' \in [Calls -> Stages] /\ phase' \in [Calls -> Phases]
        /\ \A d \in Calls : d # c => stage'[d] = stage[d] /\ phase'[d] = phase[d]
        /\ \/ /\ stage[c] = "ran" /\ stage'[c] = "ending" /\ phase'[c] = phase[c]
           \/ /\ phase[c] = "ran" /\ phase'[c] = "ending" /\ stage'[c] = stage[c]
    BY <1>0, <1>2 DEF TypeOK, AfterPrepare, AfterOperation, objects, Stages, Phases
  <2>5. Working' = Working /\ Operating' = Operating
    BY <2>4 DEF Working, Operating, InFlight
  <2>6. PendingAccurate'
    BY <2>3, <2>5 DEF IInv, PendingAccurate
  <2>7. Lifecycle'
    BY <1>0, <2>3, <2>4 DEF Lifecycle, InFlight
  <2>8. QueueFaithful'
    BY <1>0, <2>3, <2>4, QueueKept
  <2>9. Ends(c)'
    BY <1>0, <2>3, <2>4 DEF Ends, Lifecycle, TypeOK, Stages, InFlight
  <2>10. EndFrames'
    <3>1. EndLast(stack)'
      BY <2>1, <2>2, EventStack DEF EndLast
    <3>2. \A i \in 1..Len(stack') : stack'[i].pc \in EndPcs => stack'[i].call = c
      BY <2>1, <2>2
    <3> QED
      BY <2>9, <3>1, <3>2 DEF EndFrames
  <2>11. DataOK'
    BY <1>0, <1>2, <2>4 DEF TypeOK, DataOK, AfterPrepare, AfterOperation, fields, objects
  <2>12. stack' \in Seq(Frame)
    BY <2>1, <2>2, EventStack
  <2> QED
    BY <2>6, <2>7, <2>8, <2>10, <2>11, <2>12, TypeFromParts DEF IInv
<1> QED
  BY <1>1, <1>2 DEF After

LEMMA OpeningStep ==
  ASSUME IInv, NewTurn \/ WorkOpen \/ AfterOpen
  PROVE  IInv'
<1>0. TypeOK /\ EndLast(stack)
  BY DEF IInv, EndFrames
<1>1. At("opened") \in Frame /\ At("opened").pc \notin EndPcs
  BY PlainFrames DEF PlainPcs, PCs, EndPcs
<1>2. StackStep(stack', stack)
  <2>1. CASE WorkOpen
    BY <1>0, <2>1, SameStack DEF WorkOpen, TypeOK
  <2>2. CASE NewTurn \/ AfterOpen
    BY <1>1, <2>2, EventStack DEF NewTurn, AfterOpen
  <2> QED
    BY <2>1, <2>2
<1>3. DataOK' /\ UNCHANGED <<stage, phase, pending, queue>>
  BY <1>0 DEF NewTurn, WorkOpen, AfterOpen, TypeOK, DataOK, fields, objects
<1> QED
  BY <1>2, <1>3, QuietStep

-----------------------------------------------------------------------------
LEMMA InitIInv ==
  ASSUME Init
  PROVE  IInv
<1>1. Working = {} /\ Operating = {}
  BY DEF Init, Working, Operating, InFlight
<1>2. PendingAccurate
  BY <1>1, FS_EmptySet DEF Init, PendingAccurate
<1>3. stack = <<At("js")>> /\ At("js") \in Frame /\ At("js").pc \notin EndPcs
  BY PlainFrames DEF Init, PlainPcs, PCs, EndPcs
<1>4. EndFrames
  BY <1>3 DEF EndFrames, EndLast
<1>5. TypeOK
  <2>1. stack \in Seq(Frame)
    BY <1>3
  <2>2. queue \in Seq(Request)
    BY DEF Init
  <2>3. stage \in [Calls -> Stages] /\ phase \in [Calls -> Phases]
        /\ ops \in [Calls -> Nat]
    BY DEF Init, Stages, Phases
  <2>4. /\ {} \in SUBSET Calls
        /\ 0 \in Nat
    OBVIOUS
  <2> QED
    BY <2>1, <2>2, <2>3, <2>4 DEF Init, TypeOK
<1>6. Lifecycle /\ QueueFaithful
  BY DEF Init, Lifecycle, QueueFaithful, InFlight
<1> QED
  BY <1>2, <1>4, <1>5, <1>6 DEF IInv

LEMMA NextIInv ==
  ASSUME IInv, [Next]_vars
  PROVE  IInv'
<1>1. CASE UNCHANGED vars
  BY <1>1 DEF vars, fields, objects, IInv, TypeOK, PendingAccurate, Working, Operating,
     Lifecycle, QueueFaithful, EndFrames, EndLast, Ends
<1>2. CASE Next
  BY <1>2, JavaScriptStep, HandlerStep, WorkStep, AfterStep, OpeningStep DEF Next
<1> QED
  BY <1>1, <1>2

\* The invariant that carries the two theorems below.
THEOREM InductiveInvariant == Spec => []IInv
  BY InitIInv, NextIInv, PTL DEF Spec

\* Every reachable state is well typed; in particular Database::pending never
\* goes below zero, whatever callbacks do, throwing included.
THEOREM TypeCorrect == Spec => []TypeOK
<1>1. IInv => TypeOK
  BY DEF IInv
<1> QED
  BY <1>1, InductiveInvariant, PTL

\* Database::pending counts the requests in flight, so that Schedule, Process
\* and Close may take zero to mean that nothing is.
THEOREM PendingIsAccurate == Spec => []PendingAccurate
<1>1. IInv => PendingAccurate
  BY DEF IInv
<1> QED
  BY <1>1, InductiveInvariant, PTL

\* The queue holds the calls that wait, each once.
THEOREM QueueIsFaithful == Spec => []QueueFaithful
<1>1. IInv => QueueFaithful
  BY DEF IInv
<1> QED
  BY <1>1, InductiveInvariant, PTL

-----------------------------------------------------------------------------
\* Isolation of exclusive calls and the life of the sqlite3 handle, from the
\* accuracy of the count of pending requests.

\* What Schedule queued for an exclusive method says so.
QueueExclusive ==
  \A i \in 1..Len(queue) : Exclusive(queue[i].call) => queue[i].exclusive

\* The field closing is set exactly while a close is in flight and its
\* listeners have run.
ClosingTracks ==
  closing <=> \E c \in Working : KindOf[c] = "close" /\ stage[c] # "starting"

\* The handle is created once, and the database is not open before.
OpeningOrder ==
  /\ opening = "begun" => handle = "null"
  /\ opening # "over" => ~open

SafeInv ==
  /\ Isolation /\ HandleAlive /\ InterruptSafe
  /\ QueueExclusive /\ ClosingTracks /\ OpeningOrder

LEMMA NothingPending ==
  ASSUME IInv, pending = 0
  PROVE  Working = {}
<1>1. Cardinality(Working) = 0
  BY CountsFinite DEF IInv, PendingAccurate
<1> QED
  BY <1>1, CountsFinite, FS_EmptySet

\* Actions that begin no call and leave the handle alone.
LEMMA SafeKept ==
  ASSUME SafeInv, UNCHANGED <<open, closing, locked, handle, opening>>,
         QueueExclusive', sqlite' # {} => handle = "live",
         \A c \in Calls :
           /\ stage'[c] \in InFlight => stage[c] \in InFlight
           /\ stage'[c] \in {"starting", "begun"} => stage'[c] = stage[c]
           /\ KindOf[c] = "close" /\ stage[c] \in InFlight => stage'[c] = stage[c]
  PROVE  SafeInv'
<1>1. Working' \subseteq Working
  BY DEF Working
<1>2. \A c \in Calls : KindOf[c] = "close" /\ c \in Working => c \in Working'
  BY DEF Working
<1>3. \A c \in Working' :
        /\ stage'[c] \in {"starting", "begun"} => stage'[c] = stage[c]
        /\ KindOf[c] = "close" => stage'[c] = stage[c]
  BY DEF Working
<1>4. Isolation'
  BY <1>1 DEF SafeInv, Isolation
<1>5. HandleAlive'
  BY <1>1, <1>3 DEF SafeInv, HandleAlive
<1>6. ClosingTracks'
  BY <1>1, <1>2, <1>3 DEF SafeInv, ClosingTracks, Working
<1>7. InterruptSafe' /\ OpeningOrder'
  BY DEF SafeInv, InterruptSafe, OpeningOrder
<1> QED
  BY <1>4, <1>5, <1>6, <1>7 DEF SafeInv

\* Beginning a call as Schedule and Process do.
LEMMA BeginSafe ==
  ASSUME IInv, SafeInv, NEW c \in Calls, NEW r, Begin(c, r) \/ BeginTraced(c, r), open,
         UNCHANGED <<open, handle, opening, sqlite>>, QueueExclusive',
         Exclusive(c) => locked',
         locked' => pending = 0, locked => pending = 0
  PROVE  SafeInv'
<1>1. stage \in [Calls -> Stages] /\ pending \in Nat /\ closing \in BOOLEAN
  BY DEF IInv, TypeOK
<1>2. PICK v \in {"starting", "begun", "over"} :
        /\ stage' = [stage EXCEPT ![c] = v]
        /\ closing' = (closing \/ (KindOf[c] = "close" /\ v # "starting"))
        /\ Asynchronous(c) <=> v # "over"
  BY <1>1, Begun
<1>3. Working' = IF v # "over" THEN Working \cup {c} ELSE Working \ {c}
  BY <1>1, <1>2 DEF Working, InFlight
<1>4. stage'[c] = v
  BY <1>1, <1>2
<1>5. locked \/ locked' => Working = {}
  BY NothingPending
<1>6. ASSUME NEW d \in Working, Exclusive(d)
      PROVE  FALSE
  BY <1>5, <1>6 DEF SafeInv, Isolation
<1>7. ~closing /\ handle = "live"
  BY <1>6 DEF SafeInv, ClosingTracks, InterruptSafe, Exclusive
<1>8. Isolation'
  BY <1>3, <1>5, <1>6 DEF Isolation
<1>9. HandleAlive'
  BY <1>3, <1>7 DEF SafeInv, HandleAlive
<1>10. ClosingTracks'
  <2>1. \A d \in Working' : KindOf[d] = "close" => d = c
    BY <1>3, <1>6 DEF Exclusive
  <2>2. KindOf[c] = "close" => c \in Working'
    BY <1>2, <1>3 DEF Asynchronous
  <2> QED
    BY <1>2, <1>4, <1>7, <2>1, <2>2 DEF ClosingTracks
<1>11. InterruptSafe' /\ OpeningOrder'
  BY <1>7 DEF SafeInv, InterruptSafe, OpeningOrder
<1> QED
  BY <1>8, <1>9, <1>10, <1>11 DEF SafeInv

LEMMA QueueExclusiveKept ==
  ASSUME QueueExclusive, queue \in Seq(Request)
  PROVE  /\ queue # <<>> => \A i \in 1..Len(Tail(queue)) :
              Exclusive(Tail(queue)[i].call) => Tail(queue)[i].exclusive
         /\ queue # <<>> => (Exclusive(Head(queue).call) => Head(queue).exclusive)
         /\ \A r \in Request : (Exclusive(r.call) => r.exclusive) =>
              \A i \in 1..Len(Append(queue, r)) :
                Exclusive(Append(queue, r)[i].call) => Append(queue, r)[i].exclusive
<1>1. ASSUME queue # <<>>, NEW i \in 1..Len(Tail(queue))
      PROVE  i + 1 \in 1..Len(queue) /\ Tail(queue)[i] = queue[i + 1]
  BY <1>1, HeadTailProperties
<1>2. queue # <<>> => 1 \in 1..Len(queue) /\ Head(queue) = queue[1]
  OBVIOUS
<1>3. ASSUME NEW r \in Request, NEW i \in 1..Len(Append(queue, r))
      PROVE  \/ i \in 1..Len(queue) /\ Append(queue, r)[i] = queue[i]
             \/ Append(queue, r)[i] = r
  OBVIOUS
<1> QED
  BY <1>1, <1>2, <1>3 DEF QueueExclusive

-----------------------------------------------------------------------------
LEMMA JavaScriptSafe ==
  ASSUME IInv, SafeInv, JavaScript
  PROVE  SafeInv'
<1>0. /\ stage \in [Calls -> Stages] /\ queue \in Seq(Request)
      /\ QueueExclusive /\ (sqlite # {} => handle = "live")
  BY DEF IInv, TypeOK, SafeInv, HandleAlive
<1>1. ASSUME NEW c \in Calls, ScheduleReject(c)
      PROVE  SafeInv'
  <2>1. /\ stage[c] = "new" /\ stage' = [stage EXCEPT ![c] = "over"]
        /\ UNCHANGED <<open, closing, locked, handle, opening, queue, sqlite>>
    BY <1>1 DEF ScheduleReject, Rejected, fields
  <2>2. QueueExclusive'
    BY <1>0, <2>1 DEF QueueExclusive
  <2> QED
    BY <1>0, <2>1, <2>2, SafeKept DEF InFlight
<1>2. ASSUME NEW c \in Calls, ScheduleQueue(c)
      PROVE  SafeInv'
  <2> DEFINE r == [call |-> c, exclusive |-> Exclusive(c) \/ serialize]
  <2>1. /\ stage[c] = "new" /\ stage' = [stage EXCEPT ![c] = "queued"]
        /\ UNCHANGED <<open, closing, locked, handle, opening, sqlite>>
        /\ queue' = Append(queue, r)
    BY <1>2 DEF ScheduleQueue, fields, objects
  <2>2. r \in Request /\ (Exclusive(r.call) => r.exclusive)
    BY DEF Request, Exclusive, IInv, TypeOK
  <2>3. QueueExclusive'
    BY <1>0, <2>1, <2>2, QueueExclusiveKept DEF QueueExclusive
  <2> QED
    BY <1>0, <2>1, <2>3, SafeKept DEF InFlight
<1>3. ASSUME NEW c \in Calls, ScheduleBegin(c)
      PROVE  SafeInv'
  <2>1. /\ Begin(c, Returning(c)) \/ BeginTraced(c, Returning(c))
        /\ locked' = Exclusive(c)
        /\ UNCHANGED <<open, handle, opening, sqlite, queue>>
        /\ open /\ ~MustWait(c)
    BY <1>3 DEF ScheduleBegin, objects, MustWait
  <2>2. /\ locked => pending = 0
        /\ locked' => pending = 0
    BY <2>1 DEF MustWait, IInv, TypeOK
  <2>3. QueueExclusive'
    BY <1>0, <2>1 DEF QueueExclusive
  <2> QED
    BY <2>1, <2>2, <2>3, BeginSafe
<1>4. ASSUME NEW c \in Calls, ObjectBegin(c) \/ ObjectFinalize(c)
      PROVE  SafeInv'
  <2>1. /\ UNCHANGED <<open, closing, locked, handle, opening, queue, stage>>
        /\ sqlite' \subseteq sqlite
    BY <1>4 DEF ObjectBegin, ObjectFinalize, fields
  <2>2. QueueExclusive'
    BY <1>0, <2>1 DEF QueueExclusive
  <2> QED
    BY <1>0, <2>1, <2>2, SafeKept
<1>5. ASSUME \/ \E value \in BOOLEAN : SetSerialize(value)
             \/ JsReturn \/ JsThrow \/ JsCatch
      PROVE  SafeInv'
  <2>1. UNCHANGED <<open, closing, locked, handle, opening, queue, stage, sqlite>>
    BY <1>5 DEF SetSerialize, JsReturn, JsThrow, JsCatch, fields, objects
  <2>2. QueueExclusive'
    BY <1>0, <2>1 DEF QueueExclusive
  <2> QED
    BY <1>0, <2>1, <2>2, SafeKept
<1> QED
  BY <1>1, <1>2, <1>3, <1>4, <1>5 DEF JavaScript, Enter

LEMMA HandlerSafe ==
  ASSUME IInv, SafeInv, Handler
  PROVE  SafeInv'
<1>0. /\ stage \in [Calls -> Stages] /\ queue \in Seq(Request)
      /\ QueueExclusive /\ QueueFaithful /\ (sqlite # {} => handle = "live")
  BY DEF IInv, TypeOK, SafeInv, HandleAlive
<1>1. CASE ProcessReject
  <2> DEFINE c == Head(queue).call
  <2>1. c \in Calls /\ stage[c] = "queued" /\ queue # <<>>
    BY <1>0, <1>1, QueueHead DEF ProcessReject
  <2>2. /\ stage' = [stage EXCEPT ![c] = "over"] /\ queue' = Tail(queue)
        /\ UNCHANGED <<open, closing, locked, handle, opening, sqlite>>
    BY <1>1 DEF ProcessReject, Rejected, fields
  <2>3. QueueExclusive'
    BY <1>0, <2>1, <2>2, QueueExclusiveKept DEF QueueExclusive
  <2> HIDE DEF c
  <2> QED
    BY <1>0, <2>1, <2>2, <2>3, SafeKept DEF InFlight
<1>2. CASE ProcessRun
  <2> DEFINE r == Head(queue)
  <2>1. /\ r \in Request /\ r.call \in Calls /\ queue # <<>>
        /\ (Exclusive(r.call) => r.exclusive)
    BY <1>0, <1>2, QueueHead, QueueExclusiveKept DEF ProcessRun, CanRun
  <2>2. /\ queue' = Tail(queue) /\ locked' = r.exclusive
        /\ UNCHANGED <<open, handle, opening, sqlite>> /\ CanRun
        /\ \E rest : Begin(r.call, rest) \/ BeginTraced(r.call, rest)
    BY <1>2 DEF ProcessRun, objects
  <2>3. open /\ (locked => pending = 0) /\ (locked' => pending = 0)
    BY <2>2 DEF CanRun, IInv, TypeOK
  <2>4. QueueExclusive'
    BY <1>0, <2>1, <2>2, QueueExclusiveKept DEF QueueExclusive
  <2> QED
    BY <2>1, <2>2, <2>3, <2>4, BeginSafe
<1>3. CASE ProcessReturn \/ ProcessLoop \/ Emit \/ TailCall \/ Finalize \/ DeadCallback
  <2>1. /\ UNCHANGED <<open, closing, locked, handle, opening, queue, stage>>
        /\ sqlite' \subseteq sqlite
    BY <1>3 DEF ProcessReturn, ProcessLoop, Emit, TailCall, Finalize, DeadCallback,
       fields, objects
  <2>2. QueueExclusive'
    BY <1>0, <2>1 DEF QueueExclusive
  <2> QED
    BY <1>0, <2>1, <2>2, SafeKept
<1>4. ASSUME NEW c \in Calls, End(c)
      PROVE  SafeInv'
  <2>1. Ends(c) /\ KindOf[c] = "prepare"
    BY <1>4, EndingFacts DEF End, EndRest, EndNext, EndFinalize, IInv, Lifecycle, Ends
  <2>2. /\ stage' = [stage EXCEPT ![c] = "over"]
        /\ UNCHANGED <<open, closing, locked, handle, opening, queue, sqlite>>
    BY <1>4 DEF End, EndRest, EndNext, EndFinalize, Ending
  <2>3. QueueExclusive'
    BY <1>0, <2>2 DEF QueueExclusive
  <2> QED
    BY <1>0, <2>1, <2>2, <2>3, SafeKept DEF InFlight
<1>5. ASSUME NEW c \in Calls, FinalizeNext(c)
      PROVE  SafeInv'
  <2>1. /\ UNCHANGED <<open, closing, locked, handle, opening, queue, stage>>
        /\ sqlite' \subseteq sqlite
    BY <1>5 DEF FinalizeNext
  <2>2. QueueExclusive'
    BY <1>0, <2>1 DEF QueueExclusive
  <2> QED
    BY <1>0, <2>1, <2>2, SafeKept
<1>6. ASSUME NEW c \in Calls, CloseBegins(c)
      PROVE  SafeInv'
  <2>1. /\ stage[c] = "starting" /\ stage' = [stage EXCEPT ![c] = "begun"]
        /\ closing' = TRUE /\ UNCHANGED <<open, locked, handle, opening, queue, sqlite>>
        /\ KindOf[c] = "close"
    BY <1>6 DEF CloseBegins, objects, IInv, Lifecycle
  <2>2. Working' = Working /\ c \in Working /\ stage'[c] = "begun"
    BY <1>0, <2>1 DEF Working, InFlight
  <2>3. \A d \in Working : d = c
    BY <2>1, <2>2 DEF SafeInv, Isolation, Exclusive
  <2>4. Isolation' /\ QueueExclusive'
    BY <2>1, <2>2 DEF SafeInv, Isolation, QueueExclusive
  <2>5. ClosingTracks'
    BY <2>1, <2>2 DEF ClosingTracks
  <2>6. HandleAlive'
    BY <2>1, <2>2, <2>3 DEF SafeInv, HandleAlive
  <2>7. InterruptSafe' /\ OpeningOrder'
    BY <2>1 DEF SafeInv, InterruptSafe, OpeningOrder
  <2> QED
    BY <2>4, <2>5, <2>6, <2>7 DEF SafeInv
<1> QED
  BY <1>1, <1>2, <1>3, <1>4, <1>5, <1>6 DEF Handler

LEMMA WorkSafe ==
  ASSUME IInv, SafeInv, NEW c \in Calls, Work(c)
  PROVE  SafeInv'
<1>0. /\ stage \in [Calls -> Stages] /\ QueueExclusive
      /\ (sqlite # {} => handle = "live")
  BY DEF IInv, TypeOK, SafeInv, HandleAlive
<1>1. UNCHANGED <<open, closing, locked, opening, queue>>
  BY DEF Work, WorkExec, WorkClose, WorkPrepare, WorkOperation, fields
<1>2. QueueExclusive'
  BY <1>0, <1>1 DEF QueueExclusive
<1>3. CASE WorkExec(c)
  <2>1. /\ stage[c] = "begun" /\ stage' = [stage EXCEPT ![c] = "ran"]
        /\ UNCHANGED <<handle, sqlite>> /\ KindOf[c] = "exec"
    BY <1>3 DEF WorkExec, objects
  <2> QED
    BY <1>0, <1>1, <1>2, <2>1, SafeKept DEF InFlight
<1>4. CASE WorkPrepare(c)
  <2>1. /\ stage[c] = "begun" /\ stage' = [stage EXCEPT ![c] = "ran"]
        /\ UNCHANGED handle /\ KindOf[c] = "prepare"
    BY <1>4 DEF WorkPrepare
  <2>2. handle = "live"
    BY <2>1 DEF SafeInv, HandleAlive, Working, InFlight
  <2> QED
    BY <1>0, <1>1, <1>2, <2>1, <2>2, SafeKept DEF InFlight
<1>5. CASE WorkOperation(c)
  <2>1. UNCHANGED <<handle, stage>> /\ sqlite' \subseteq sqlite
    BY <1>5 DEF WorkOperation
  <2> QED
    BY <1>0, <1>1, <1>2, <2>1, SafeKept
<1>6. CASE WorkClose(c)
  <2>1. /\ stage[c] = "begun" /\ stage' = [stage EXCEPT ![c] = "ran"]
        /\ KindOf[c] = "close" /\ UNCHANGED sqlite
        /\ handle' = IF sqlite = {} THEN "null" ELSE handle
    BY <1>6 DEF WorkClose, objects
  <2>2. Working' = Working /\ c \in Working /\ stage'[c] = "ran"
    BY <1>0, <2>1 DEF Working, InFlight
  <2>3. \A d \in Working : d = c
    BY <2>1, <2>2 DEF SafeInv, Isolation, Exclusive
  <2>4. closing /\ closing'
    BY <1>1, <2>1, <2>2 DEF SafeInv, ClosingTracks
  <2>5. Isolation' /\ ClosingTracks'
    BY <1>1, <2>1, <2>2, <2>4 DEF SafeInv, Isolation, ClosingTracks
  <2>6. HandleAlive'
    BY <1>0, <1>1, <2>1, <2>2, <2>3 DEF SafeInv, HandleAlive
  <2>7. InterruptSafe' /\ OpeningOrder'
    BY <1>1, <2>1, <2>4 DEF SafeInv, InterruptSafe, OpeningOrder
  <2> QED
    BY <1>2, <2>5, <2>6, <2>7 DEF SafeInv
<1> QED
  BY <1>3, <1>4, <1>5, <1>6 DEF Work

LEMMA AfterSafe ==
  ASSUME IInv, SafeInv, NEW c \in Calls, After(c)
  PROVE  SafeInv'
<1>0. /\ stage \in [Calls -> Stages] /\ QueueExclusive /\ handle \in {"null", "live"}
      /\ (sqlite # {} => handle = "live")
  BY DEF IInv, TypeOK, SafeInv, HandleAlive
<1>1. UNCHANGED <<locked, opening, queue, handle, sqlite>>
  BY DEF After, AfterExec, AfterClose, AfterPrepare, AfterOperation, fields, objects
<1>2. QueueExclusive'
  BY <1>0, <1>1 DEF QueueExclusive
<1>3. CASE AfterExec(c) \/ AfterPrepare(c)
  <2>1. /\ stage[c] = "ran" /\ stage' \in {[stage EXCEPT ![c] = "over"], [stage EXCEPT ![c] = "ending"]}
        /\ UNCHANGED <<open, closing>> /\ KindOf[c] # "close"
    BY <1>3 DEF AfterExec, AfterPrepare, fields
  <2> QED
    BY <1>0, <1>1, <1>2, <2>1, SafeKept DEF InFlight
<1>4. CASE AfterOperation(c)
  <2>1. UNCHANGED <<open, closing, stage>>
    BY <1>4 DEF AfterOperation, fields
  <2> QED
    BY <1>0, <1>1, <1>2, <2>1, SafeKept
<1>5. CASE AfterClose(c)
  <2>1. /\ stage[c] = "ran" /\ stage' = [stage EXCEPT ![c] = "over"]
        /\ KindOf[c] = "close" /\ closing' = FALSE /\ open' = (handle = "live")
    BY <1>5 DEF AfterClose
  <2>2. c \in Working
    BY <2>1 DEF Working, InFlight
  <2>3. \A d \in Working : d = c
    BY <2>1, <2>2 DEF SafeInv, Isolation, Exclusive
  <2>4. Working' = {}
    BY <1>0, <2>1, <2>3 DEF Working, InFlight
  <2>5. opening = "over"
    BY <2>2 DEF SafeInv, HandleAlive, OpeningOrder
  <2>6. Isolation' /\ HandleAlive' /\ ClosingTracks'
    BY <1>0, <1>1, <2>1, <2>4 DEF Isolation, HandleAlive, ClosingTracks
  <2>7. InterruptSafe' /\ OpeningOrder'
    BY <1>1, <2>1, <2>5 DEF InterruptSafe, OpeningOrder
  <2> QED
    BY <1>2, <2>6, <2>7 DEF SafeInv
<1> QED
  BY <1>3, <1>4, <1>5 DEF After

LEMMA OpeningSafe ==
  ASSUME IInv, SafeInv, NewTurn \/ WorkOpen \/ AfterOpen
  PROVE  SafeInv'
<1>0. handle \in {"null", "live"} /\ QueueExclusive
  BY DEF IInv, TypeOK, SafeInv
<1>1. UNCHANGED <<closing, locked, queue, stage, sqlite>>
  BY DEF NewTurn, WorkOpen, AfterOpen, fields, objects
<1>2. Working' = Working /\ QueueExclusive'
  BY <1>0, <1>1 DEF Working, QueueExclusive
<1>3. Isolation' /\ ClosingTracks'
  BY <1>1, <1>2 DEF SafeInv, Isolation, ClosingTracks
<1>4. CASE NewTurn
  BY <1>1, <1>2, <1>3, <1>4 DEF NewTurn, fields, SafeInv, HandleAlive, InterruptSafe,
     OpeningOrder
<1>5. CASE WorkOpen
  <2>1. opening = "begun" /\ opening' = "ran" /\ ~open /\ UNCHANGED open /\ sqlite = {}
    BY <1>5 DEF WorkOpen, fields, SafeInv, OpeningOrder, HandleAlive
  <2>2. Working = {}
    BY <2>1 DEF SafeInv, HandleAlive
  <2> QED
    BY <1>1, <1>2, <1>3, <2>1, <2>2 DEF SafeInv, HandleAlive, InterruptSafe, OpeningOrder
<1>6. CASE AfterOpen
  <2>1. /\ opening = "ran" /\ opening' = "over" /\ ~open /\ UNCHANGED handle
        /\ open' = (handle = "live")
    BY <1>6 DEF AfterOpen, SafeInv, OpeningOrder
  <2>2. Working = {}
    BY <2>1 DEF SafeInv, HandleAlive
  <2> QED
    BY <1>1, <1>2, <1>3, <2>1, <2>2 DEF SafeInv, HandleAlive, InterruptSafe, OpeningOrder
<1> QED
  BY <1>4, <1>5, <1>6

-----------------------------------------------------------------------------
\* The invariant that carries the theorems below: exclusive calls, the handle
\* and the fields that tell about it, together.
THEOREM SafetyInvariant == Spec => [](IInv /\ SafeInv)
<1>1. Init => IInv /\ SafeInv
  <2>1. Init => SafeInv
    BY DEF Init, SafeInv, Isolation, HandleAlive, InterruptSafe, QueueExclusive,
       ClosingTracks, OpeningOrder, Working, InFlight
  <2> QED
    BY <2>1, InitIInv
<1>2. IInv /\ SafeInv /\ [Next]_vars => (IInv /\ SafeInv)'
  <2> SUFFICES ASSUME IInv, SafeInv, [Next]_vars
               PROVE  SafeInv'
    BY NextIInv
  <2>1. CASE UNCHANGED vars
    BY <2>1 DEF vars, fields, objects, SafeInv, Isolation, HandleAlive, InterruptSafe,
       QueueExclusive, ClosingTracks, OpeningOrder, Working
  <2>2. CASE Next
    BY <2>2, JavaScriptSafe, HandlerSafe, WorkSafe, AfterSafe, OpeningSafe DEF Next
  <2> QED
    BY <2>1, <2>2
<1> QED
  BY <1>1, <1>2, PTL DEF Spec

\* An exclusive call never shares the database with another call.
THEOREM ExclusiveIsolation == Spec => []Isolation
<1>1. SafeInv => Isolation
  BY DEF SafeInv
<1> QED
  BY <1>1, SafetyInvariant, PTL

\* No call in flight and no unfinished object sees the handle closed, and
\* interrupt, on the main thread, never passes a closed one to sqlite3.
THEOREM HandleOutlivesUse == Spec => []HandleSafe
<1>1. SafeInv => HandleSafe
  BY DEF SafeInv, HandleSafe
<1> QED
  BY <1>1, SafetyInvariant, PTL

-----------------------------------------------------------------------------
\* A count of nothing means that nothing is in flight, of either sort.
LEMMA NothingAtAll ==
  ASSUME IInv, pending = 0
  PROVE  Working = {} /\ Operating = {}
<1>1. Cardinality(Working) = 0 /\ Cardinality(Operating) = 0
  BY CountsFinite DEF IInv, PendingAccurate
<1> QED
  BY <1>1, CountsFinite, FS_EmptySet

\* Where Schedule and Process may begin a call no close is in flight.
LEMMA BeginsLive ==
  ASSUME IInv, SafeInv, open, locked => pending = 0
  PROVE  handle = "live"
<1>1. ASSUME NEW d \in Working, Exclusive(d)
      PROVE  FALSE
  BY <1>1, NothingPending DEF SafeInv, Isolation
<1> QED
  BY <1>1 DEF SafeInv, ClosingTracks, InterruptSafe, Exclusive

\* What a step that begins or rejects a call finds.
BeginsFairly(c) ==
  \/ /\ open /\ handle = "live"
     /\ Exclusive(c) => locked'
     /\ Barred(c) => pending = 0
  \/ ~open /\ locked /\ stage'[c] = "over"

\* No call begins, and none is rejected, but in Schedule and in Process.
LEMMA Beginnings ==
  ASSUME IInv, SafeInv, Next, NEW c \in Calls,
         stage[c] \in {"new", "queued"},
         stage'[c] \in {"starting", "begun", "over"}
  PROVE  BeginsFairly(c)
<1>0. /\ stage \in [Calls -> Stages] /\ queue \in Seq(Request)
      /\ pending \in Nat /\ locked \in BOOLEAN
      /\ QueueExclusive /\ QueueFaithful
  BY DEF IInv, TypeOK, SafeInv
<1>1. ASSUME NEW d \in Calls, ScheduleReject(d)
      PROVE  BeginsFairly(c)
  <2>1. ~open /\ locked /\ stage' = [stage EXCEPT ![d] = "over"]
    BY <1>1 DEF ScheduleReject, Rejected
  <2> QED
    BY <1>0, <2>1 DEF BeginsFairly
<1>2. ASSUME NEW d \in Calls, ScheduleQueue(d)
      PROVE  BeginsFairly(c)
  <2>1. stage' = [stage EXCEPT ![d] = "queued"]
    BY <1>2 DEF ScheduleQueue
  <2> QED
    BY <1>0, <2>1
<1>3. ASSUME NEW d \in Calls, ScheduleBegin(d)
      PROVE  BeginsFairly(c)
  <2>1. /\ stage[d] = "new" /\ open /\ ~MustWait(d)
        /\ locked' = Exclusive(d)
        /\ \E v : stage' = [stage EXCEPT ![d] = v]
    BY <1>3 DEF ScheduleBegin, Begin, BeginTraced, MustWait
  <2>2. d = c
    BY <1>0, <2>1
  <2>3. handle = "live"
    BY <1>0, <2>1, BeginsLive DEF MustWait
  <2>4. ~\E i \in 1..Len(queue) : queue[i].call = c
    BY <1>0, <2>1, <2>2 DEF QueueFaithful
  <2>5. Barred(c) => Exclusive(c) \/ serialize
    BY <2>4 DEF Barred
  <2> QED
    BY <1>0, <2>1, <2>2, <2>3, <2>5 DEF BeginsFairly, MustWait
<1>4. ASSUME ProcessReject
      PROVE  BeginsFairly(c)
  <2> DEFINE d == Head(queue).call
  <2>1. ~open /\ locked /\ stage' = [stage EXCEPT ![d] = "over"]
    BY <1>4 DEF ProcessReject, Rejected
  <2> HIDE DEF d
  <2> QED
    BY <1>0, <2>1 DEF BeginsFairly
<1>5. ASSUME ProcessRun
      PROVE  BeginsFairly(c)
  <2> DEFINE r == Head(queue)
  <2>1. /\ r \in Request /\ r.call \in Calls /\ stage[r.call] = "queued" /\ queue # <<>>
        /\ (Exclusive(r.call) => r.exclusive)
    BY <1>0, <1>5, QueueHead, QueueExclusiveKept DEF ProcessRun, CanRun
  <2>2. /\ CanRun /\ locked' = r.exclusive
        /\ \E v : stage' = [stage EXCEPT ![r.call] = v]
    BY <1>5 DEF ProcessRun, Begin, BeginTraced
  <2>3. r.call = c
    BY <1>0, <2>1, <2>2
  <2>4. open /\ (locked => pending = 0) /\ (r.exclusive => pending = 0)
    BY <1>0, <2>2 DEF CanRun
  <2>5. handle = "live"
    BY <2>4, BeginsLive
  <2>6. ASSUME NEW i \in 1..Len(queue), queue[i].call = c
        PROVE  queue[i] = r
    <3>1. 1 \in 1..Len(queue) /\ r = queue[1]
      BY <1>0, <2>1
    <3>2. queue[i].call = queue[1].call
      BY <2>3, <2>6, <3>1
    <3>3. i = 1
      BY <1>0, <2>6, <3>1, <3>2 DEF QueueFaithful
    <3> QED
      BY <3>1, <3>3
  <2>7. Barred(c) => r.exclusive
    BY <2>1, <2>3, <2>6 DEF Barred
  <2> QED
    BY <2>1, <2>2, <2>3, <2>4, <2>5, <2>7 DEF BeginsFairly
<1>6. ASSUME NEW d \in Calls, End(d)
      PROVE  BeginsFairly(c)
  <2>1. Ends(d) /\ KindOf[d] = "prepare"
    BY <1>6, EndingFacts DEF End, EndRest, EndNext, EndFinalize, IInv, Lifecycle, Ends
  <2>2. stage' = [stage EXCEPT ![d] = "over"]
    BY <1>6 DEF End, EndRest, EndNext, EndFinalize, Ending
  <2>3. stage[d] \notin {"new", "queued"}
    BY <1>6, EndingFacts DEF End, EndRest, EndNext, EndFinalize, Ends, IInv, Lifecycle
  <2> QED
    BY <1>0, <2>2, <2>3
<1>7. ASSUME NEW d \in Calls, Work(d) \/ After(d)
      PROVE  BeginsFairly(c)
  <2>1. \/ UNCHANGED stage
        \/ /\ stage[d] \in {"begun", "ran"}
           /\ \E s \in Stages : stage' = [stage EXCEPT ![d] = s]
    BY <1>7 DEF Work, WorkExec, WorkClose, WorkPrepare, WorkOperation, After, AfterExec,
       AfterClose, AfterPrepare, AfterOperation, Stages
  <2> QED
    BY <1>0, <2>1
<1>8. ASSUME UNCHANGED stage
      PROVE  BeginsFairly(c)
  BY <1>8
<1>12. ASSUME NEW d \in Calls, CloseBegins(d)
       PROVE  BeginsFairly(c)
  BY <1>0, <1>12 DEF CloseBegins
<1>9. CASE JavaScript
  BY <1>1, <1>2, <1>3, <1>8, <1>9 DEF JavaScript, Enter, ObjectBegin, ObjectFinalize,
     SetSerialize, JsReturn, JsThrow, JsCatch
<1>10. CASE Handler
  BY <1>4, <1>5, <1>6, <1>8, <1>10, <1>12 DEF Handler, ProcessReturn, ProcessLoop, Emit, TailCall,
     Finalize, DeadCallback, FinalizeNext
<1>11. CASE NewTurn \/ WorkOpen \/ AfterOpen
  BY <1>8, <1>11 DEF NewTurn, WorkOpen, AfterOpen
<1> QED
  BY <1>7, <1>9, <1>10, <1>11 DEF Next

\* What holds of every step of the scheduler.
LEMMA BeginningsOfSteps ==
  ASSUME IInv, SafeInv, [Next]_vars, NEW c \in Calls,
         stage[c] \in {"new", "queued"},
         stage'[c] \in {"starting", "begun", "over"}
  PROVE  BeginsFairly(c)
<1>1. CASE UNCHANGED vars
  BY <1>1 DEF vars
<1> QED
  BY <1>1, Beginnings

\* The assertions that a release build drops hold: a call that begins finds the
\* database open, its handle live and, if it is exclusive, nothing in flight;
\* of a closed database calls are rejected and never begun.
THEOREM AssertionsHold == Spec => BeginAsserts
<1> DEFINE Step == \A c \in Calls :
       stage[c] \in {"new", "queued"} /\ stage'[c] \in {"starting", "begun", "over"} =>
         \/ /\ open /\ handle = "live"
            /\ Exclusive(c) => locked' /\ pending = 0
         \/ ~open /\ locked /\ stage'[c] = "over"
<1>1. IInv /\ SafeInv /\ [Next]_vars => [Step]_vars
  BY BeginningsOfSteps DEF BeginsFairly, Barred
<1> HIDE DEF Step
<1>2. Spec => [][Step]_vars
  BY <1>1, SafetyInvariant, PTL DEF Spec
<1> QED
  BY <1>2 DEF BeginAsserts, Step

\* What is issued under serialize, or exclusively, begins only when no call and
\* no operation of any statement or backup is in flight on any thread.
THEOREM SerializeWaits == Spec => SerializeBarrier
<1> DEFINE Step == \A c \in Calls :
       stage[c] \in {"new", "queued"} /\ stage'[c] \in {"starting", "begun", "over"}
       /\ open /\ Barred(c) => Working = {} /\ Operating = {}
<1>1. IInv /\ SafeInv /\ [Next]_vars => [Step]_vars
  BY BeginningsOfSteps, NothingAtAll DEF BeginsFairly
<1> HIDE DEF Step
<1>2. Spec => [][Step]_vars
  BY <1>1, SafetyInvariant, PTL DEF Spec
<1> QED
  BY <1>2 DEF SerializeBarrier, Step

-----------------------------------------------------------------------------
\* Why the queue does not stall.  Unless an event excused it, a queue that
\* waits on an open database with nothing in flight has a handler on the stack
\* that will still call Process, and nothing skips that handler.

\* The frames that call Process before they end, or are in it.
GoesOn ==
  {f \in Frame :
     f.pc \in {"opened", "closed", "tail", "end", "errorEnd", "restore", "process"}}

\* The callbacks that do not run since an exception is pending.
Killed == {f \in Frame : f.pc = "dead"}

\* Without an event nothing has thrown.
NoThrow == ~raised /\ ~Has(stack, Killed)

\* The loop of Process, which goes on unless its callbacks locked the database.
Checks == {f \in Frame : f.pc = "check"}

\* A queue that could go on has somebody to take it on.
Attended ==
  open /\ queue # <<>> /\ pending = 0
    => Has(stack, GoesOn) \/ (~locked /\ Has(stack, Checks))

Promise == ~excused => NoThrow /\ Attended

\* A stack on which no callback was skipped.
Sound(s) == s \in Seq(Frame) /\ ~Has(s, Killed)

LEMMA FrameSorts ==
  /\ \A p \in {"opened", "closed", "tail", "process"} :
       At(p) \in Frame /\ At(p) \in GoesOn /\ At(p) \notin Killed
  /\ \A p \in {"js", "check", "reject"} :
       At(p) \in Frame /\ At(p) \notin GoesOn /\ At(p) \notin Killed
  /\ \A p \in {"end", "errorEnd"}, c \in Calls :
       For(p, c) \in Frame /\ For(p, c) \in GoesOn /\ For(p, c) \notin Killed
  /\ At("check") \in Checks
  /\ \A p \in {"finalize", "starting"}, c \in Calls :
       For(p, c) \in Frame /\ For(p, c) \notin Killed
  /\ \A b \in BOOLEAN :
       Restore(b) \in Frame /\ Restore(b) \in GoesOn /\ Restore(b) \notin Killed
  /\ ~raised => Callback \in Frame /\ Callback \notin Killed
  BY DEF At, For, Restore, Callback, Frame, PCs, GoesOn, Killed, Checks

LEMMA SoundPush ==
  ASSUME NEW s, Sound(s), NEW f \in Frame, f \notin Killed
  PROVE  /\ Sound(<<f>> \o s)
         /\ Has(<<f>> \o s, GoesOn) <=> f \in GoesOn \/ Has(s, GoesOn)
         /\ Has(<<f>> \o s, Checks) <=> f \in Checks \/ Has(s, Checks)
<1>1. s \in Seq(Frame) /\ ~Has(s, Killed)
  BY DEF Sound
<1>2. /\ <<f>> \o s \in Seq(Frame)
      /\ \A P : Has(<<f>> \o s, P) <=> f \in P \/ Has(s, P)
  BY <1>1, PushFrame
<1> QED
  BY <1>1, <1>2 DEF Sound

LEMMA SoundPushTwo ==
  ASSUME NEW s, Sound(s), NEW f \in Frame, f \notin Killed, NEW g \in Frame, g \notin Killed
  PROVE  /\ Sound(<<f, g>> \o s)
         /\ Has(<<f, g>> \o s, GoesOn) <=> f \in GoesOn \/ g \in GoesOn \/ Has(s, GoesOn)
<1> DEFINE t == <<g>> \o s
<1>1. Sound(t) /\ (Has(t, GoesOn) <=> g \in GoesOn \/ Has(s, GoesOn))
  BY SoundPush
<1>2. <<f, g>> \o s = <<f>> \o t
  BY PushTwo DEF Sound
<1> HIDE DEF t
<1>3. Sound(<<f>> \o t) /\ (Has(<<f>> \o t, GoesOn) <=> f \in GoesOn \/ Has(t, GoesOn))
  BY <1>1, SoundPush
<1> QED
  BY <1>1, <1>2, <1>3

LEMMA SoundPop ==
  ASSUME NEW s, Sound(s), s # <<>>
  PROVE  /\ Sound(Tail(s)) /\ Head(s) \in Frame /\ Head(s) \notin Killed
         /\ Has(s, GoesOn) <=> Head(s) \in GoesOn \/ Has(Tail(s), GoesOn)
         /\ Has(s, Checks) <=> Head(s) \in Checks \/ Has(Tail(s), Checks)
<1>1. s \in Seq(Frame) /\ ~Has(s, Killed)
  BY DEF Sound
<1>2. /\ Head(s) \in Frame /\ Tail(s) \in Seq(Frame)
      /\ \A P : Has(s, P) <=> Head(s) \in P \/ Has(Tail(s), P)
  BY <1>1, PopFrame
<1> QED
  BY <1>1, <1>2 DEF Sound

LEMMA SoundReturning ==
  ASSUME Sound(stack), NEW c \in Calls
  PROVE  /\ Sound(Returning(c)) /\ (Has(stack, GoesOn) => Has(Returning(c), GoesOn))
         /\ KindOf[c] = "configure" => Has(Returning(c), GoesOn)
<1>1. /\ Sound(<<At("process")>> \o stack) /\ Has(<<At("process")>> \o stack, GoesOn)
  BY FrameSorts, SoundPush
<1> QED
  BY <1>1 DEF Returning

\* Work_Wait calls Process after its callback; work that is requested ends
\* with Process.
LEMMA SoundBegin ==
  ASSUME ~raised, NEW s, Sound(s), NEW c \in Calls, Begin(c, s), pending \in Nat
  PROVE  /\ Sound(stack')
         /\ KindOf[c] # "configure" /\ pending' = 0 => Has(stack', GoesOn)
         /\ KindOf[c] = "configure" => stack' = s
<1>1. /\ Sound(<<Callback, At("tail")>> \o s)
      /\ Has(<<Callback, At("tail")>> \o s, GoesOn)
  BY FrameSorts, SoundPushTwo
<1>2. KindOf[c] \in Kinds
  BY KindAssumption
<1>3. CASE KindOf[c] = "wait"
  BY <1>1, <1>3 DEF Begin
<1>4. CASE KindOf[c] = "configure"
  BY <1>4 DEF Begin
<1>5. CASE Asynchronous(c)
  BY <1>5 DEF Begin, Asynchronous
<1> QED
  BY <1>2, <1>3, <1>4, <1>5 DEF Kinds, Asynchronous

\* The listeners that a configure runs leave the frames below them.
LEMMA SoundTraced ==
  ASSUME ~raised, NEW s, Sound(s), NEW c \in Calls, BeginTraced(c, s), pending \in Nat
  PROVE  /\ Sound(stack')
         /\ pending' = 0 => /\ KindOf[c] = "configure"
                            /\ Has(s, GoesOn) => Has(stack', GoesOn)
                            /\ Has(s, Checks) => Has(stack', Checks)
<1>1. CASE KindOf[c] = "close"
  <2>1. Sound(<<Callback, For("starting", c)>> \o s)
    BY FrameSorts, SoundPushTwo
  <2>2. stack' = <<Callback, For("starting", c)>> \o s /\ pending' = pending + 1
    BY <1>1 DEF BeginTraced
  <2> QED
    BY <2>1, <2>2
<1>2. CASE KindOf[c] # "close"
  <2>1. /\ Sound(<<Callback>> \o s)
        /\ Has(s, GoesOn) => Has(<<Callback>> \o s, GoesOn)
        /\ Has(s, Checks) => Has(<<Callback>> \o s, Checks)
    BY FrameSorts, SoundPush
  <2>2. KindOf[c] = "configure" /\ stack' = <<Callback>> \o s
    BY <1>2 DEF BeginTraced
  <2> QED
    BY <2>1, <2>2
<1> QED
  BY <1>1, <1>2

LEMMA ExcuseGrows ==
  ASSUME Next
  PROVE  excused => excused'
<1>1. CASE JavaScript
  BY <1>1 DEF JavaScript, Enter, ScheduleReject, ScheduleQueue, ScheduleBegin, ObjectBegin,
     ObjectFinalize, SetSerialize, JsReturn, JsThrow, JsCatch
<1>2. CASE Handler
  BY <1>2 DEF Handler, ProcessReject, ProcessRun, ProcessReturn, ProcessLoop, Emit, TailCall,
     Finalize, DeadCallback, CloseBegins, End, EndRest, EndNext, EndFinalize, Ending,
     FinalizeNext
<1>3. CASE NewTurn \/ WorkOpen \/ AfterOpen
  BY <1>3 DEF NewTurn, WorkOpen, AfterOpen
<1>4. ASSUME NEW c \in Calls, Work(c) \/ After(c)
      PROVE  excused => excused'
  BY <1>4 DEF Work, WorkExec, WorkClose, WorkPrepare, WorkOperation, After, AfterExec,
     AfterClose, AfterPrepare, AfterOperation
<1> QED
  BY <1>1, <1>2, <1>3, <1>4 DEF Next

\* What a step shows when no event excuses the queue after it.
LEMMA PromiseFacts ==
  ASSUME TypeOK, Promise, Next, ~excused'
  PROVE  /\ ~excused /\ ~raised /\ Sound(stack) /\ Attended
         /\ pending \in Nat /\ queue \in Seq(Request) /\ open \in BOOLEAN
         /\ serialize \in BOOLEAN
<1>1. ~excused
  BY ExcuseGrows
<1> QED
  BY <1>1 DEF TypeOK, Promise, NoThrow, Sound

LEMMA JavaScriptPromise ==
  ASSUME TypeOK, Promise, JavaScript, ~excused'
  PROVE  NoThrow' /\ Attended'
<1>0. /\ ~excused /\ ~raised /\ Sound(stack) /\ Attended
      /\ pending \in Nat /\ queue \in Seq(Request) /\ serialize \in BOOLEAN
  BY PromiseFacts DEF Next
<1>c. Callback \in Frame /\ Callback \notin Killed
  BY <1>0, FrameSorts
<1>1. ASSUME NEW c \in Calls, ScheduleReject(c)
      PROVE  NoThrow' /\ Attended'
  <2>1. Sound(<<Callback>> \o Returning(c))
    BY <1>0, <1>c, SoundReturning, SoundPush
  <2>2. /\ ~open /\ UNCHANGED <<open, raised>> /\ stack' = <<Callback>> \o Returning(c)
    BY <1>1 DEF ScheduleReject, fields
  <2> QED
    BY <1>0, <2>1, <2>2 DEF NoThrow, Attended, Sound
<1>2. ASSUME NEW c \in Calls, ScheduleQueue(c)
      PROVE  NoThrow' /\ Attended'
  <2>1. /\ MustWait(c) /\ UNCHANGED <<open, pending, raised>> /\ stack' = Returning(c)
    BY <1>2 DEF ScheduleQueue, fields
  <2>2. open => pending # 0
    BY <1>0, <2>1 DEF MustWait
  <2> QED
    BY <1>0, <2>1, <2>2, SoundReturning DEF NoThrow, Attended, Sound
<1>3. ASSUME NEW c \in Calls, ScheduleBegin(c)
      PROVE  NoThrow' /\ Attended'
  <2>1. Begin(c, Returning(c)) \/ BeginTraced(c, Returning(c))
    BY <1>3 DEF ScheduleBegin
  <2>2. UNCHANGED raised
    BY <1>3 DEF ScheduleBegin
  <2>3. Sound(Returning(c)) /\ (KindOf[c] = "configure" => Has(Returning(c), GoesOn))
    BY <1>0, SoundReturning
  <2>4. Sound(stack') /\ (pending' = 0 => Has(stack', GoesOn))
    BY <1>0, <2>1, <2>3, SoundBegin, SoundTraced
  <2> QED
    BY <1>0, <2>2, <2>4 DEF NoThrow, Attended, Sound
<1>4. ASSUME NEW c \in Calls, ObjectBegin(c)
      PROVE  NoThrow' /\ Attended'
  <2>1. pending' = pending + 1 /\ UNCHANGED <<stack, raised>>
    BY <1>4 DEF ObjectBegin
  <2> QED
    BY <1>0, <2>1 DEF NoThrow, Attended, Sound
<1>5. ASSUME NEW c \in Calls, ObjectFinalize(c)
      PROVE  NoThrow' /\ Attended'
  <2>1. /\ UNCHANGED <<open, locked, pending, queue, raised>>
        /\ stack' = <<Callback>> \o stack
    BY <1>5 DEF ObjectFinalize, fields
  <2>2. /\ Sound(<<Callback>> \o stack)
        /\ (Has(stack, GoesOn) => Has(<<Callback>> \o stack, GoesOn))
        /\ (Has(stack, Checks) => Has(<<Callback>> \o stack, Checks))
    BY <1>0, <1>c, SoundPush
  <2> QED
    BY <1>0, <2>1, <2>2 DEF NoThrow, Attended, Sound
<1>6. ASSUME NEW value \in BOOLEAN, SetSerialize(value)
      PROVE  NoThrow' /\ Attended'
  <2>1. /\ Sound(<<At("process")>> \o stack) /\ Has(<<At("process")>> \o stack, GoesOn)
    BY <1>0, FrameSorts, SoundPush
  <2>2. /\ Sound(<<Callback, Restore(serialize)>> \o stack)
        /\ Has(<<Callback, Restore(serialize)>> \o stack, GoesOn)
    BY <1>0, <1>c, FrameSorts, SoundPushTwo
  <2>3. Sound(stack') /\ Has(stack', GoesOn) /\ UNCHANGED raised
    BY <1>6, <2>1, <2>2 DEF SetSerialize
  <2> QED
    BY <1>0, <2>3 DEF NoThrow, Attended, Sound
<1>7. CASE JsReturn
  <2>1. /\ stack # <<>> /\ Head(stack).pc = "js" /\ stack' = Tail(stack)
        /\ UNCHANGED <<open, locked, pending, queue, raised>>
    BY <1>7 DEF JsReturn, Js, InPc, fields
  <2>2. Head(stack) \notin GoesOn /\ Head(stack) \notin Checks
    BY <2>1 DEF GoesOn, Checks
  <2> QED
    BY <1>0, <2>1, <2>2, SoundPop DEF NoThrow, Attended, Sound
<1>8. ~JsThrow /\ ~JsCatch
  BY <1>0 DEF JsThrow, JsCatch
<1> QED
  BY <1>1, <1>2, <1>3, <1>4, <1>5, <1>6, <1>7, <1>8 DEF JavaScript, Enter

LEMMA ProcessPromise ==
  ASSUME TypeOK, QueueFaithful, Promise, ~excused',
         ProcessReject \/ ProcessRun \/ ProcessReturn \/ ProcessLoop
  PROVE  NoThrow' /\ Attended'
<1>0. /\ ~excused /\ ~raised /\ Sound(stack) /\ Attended
      /\ pending \in Nat /\ queue \in Seq(Request)
  BY PromiseFacts DEF Next, Handler
<1>c. Callback \in Frame /\ Callback \notin Killed
  BY <1>0, FrameSorts
<1>1. CASE ProcessReject
  <2>1. /\ stack # <<>> /\ ~open /\ UNCHANGED <<open, raised>>
        /\ stack' = <<Callback, At("reject")>> \o Tail(stack)
    BY <1>1 DEF ProcessReject, InPc, fields
  <2>2. Sound(<<Callback, At("reject")>> \o Tail(stack))
    BY <1>0, <1>c, <2>1, FrameSorts, SoundPop, SoundPushTwo
  <2> QED
    BY <2>1, <1>0, <2>2 DEF NoThrow, Attended, Sound
<1>2. CASE ProcessRun
  <2> DEFINE r == Head(queue)
             c == r.call
             t == <<At("check")>> \o Tail(stack)
             s == IF KindOf[c] = "wait" THEN t
                  ELSE IF r.exclusive THEN Tail(stack) ELSE stack
  <2>1. /\ stack # <<>> /\ Head(stack).pc = "process" /\ queue # <<>>
        /\ Begin(c, s) \/ BeginTraced(c, t)
        /\ UNCHANGED raised /\ locked' = r.exclusive
        /\ ~(r.exclusive /\ KindOf[c] = "configure")
    BY <1>2 DEF ProcessRun, CanRun, InPc
  <2>2. c \in Calls /\ r \in Request
    BY <1>0, <2>1, QueueHead DEF TypeOK
  <2>3. Sound(Tail(stack)) /\ Sound(t) /\ Has(t, Checks)
    BY <1>0, <2>1, FrameSorts, SoundPop, SoundPush
  <2>4. Has(stack, GoesOn)
    BY <1>0, <2>1, SoundPop DEF GoesOn
  <2>5. Sound(s)
    BY <1>0, <2>3
  <2>6. KindOf[c] = "configure" => Has(s, GoesOn) /\ ~locked'
    <3>1. r.exclusive \in BOOLEAN
      BY <2>2 DEF Request
    <3>2. KindOf[c] = "configure" => s = stack
      BY <2>1
    <3> QED
      BY <2>1, <2>4, <3>1, <3>2
  <2> HIDE DEF s, t, r, c
  <2>7. CASE Begin(c, s)
    <3>1. Sound(stack') /\ (pending' = 0 => Has(stack', GoesOn))
      BY <1>0, <2>2, <2>5, <2>6, <2>7, SoundBegin
    <3> QED
      BY <1>0, <2>1, <3>1 DEF NoThrow, Attended, Sound
  <2>8. CASE BeginTraced(c, t)
    <3>1. Sound(stack') /\ (pending' = 0 => ~locked' /\ Has(stack', Checks))
      BY <1>0, <2>2, <2>3, <2>6, <2>8, SoundTraced
    <3> QED
      BY <1>0, <2>1, <3>1 DEF NoThrow, Attended, Sound
  <2> QED
    BY <2>1, <2>7, <2>8
<1>3. CASE ProcessReturn
  <2>1. /\ stack # <<>> /\ stack' = Tail(stack)
        /\ UNCHANGED <<open, locked, pending, queue, raised>>
    BY <1>3 DEF ProcessReturn, InPc, fields
  <2>2. CASE InPc("process") /\ ~CanRun
    <3>1. open /\ queue # <<>> => pending # 0
      BY <1>0, <2>2 DEF CanRun
    <3> QED
      BY <1>0, <2>1, <3>1, SoundPop DEF NoThrow, Attended, Sound
  <2>3. CASE queue = <<>>
    BY <1>0, <2>1, <2>3, SoundPop DEF NoThrow, Attended, Sound
  <2>4. CASE InPc("check") /\ locked
    <3>1. Head(stack) \notin GoesOn /\ locked
      BY <2>4 DEF InPc, GoesOn
    <3>2. Attended' <=> (open /\ queue # <<>> /\ pending = 0 => Has(Tail(stack), GoesOn))
      BY <2>1, <3>1 DEF Attended
    <3> QED
      BY <1>0, <2>1, <3>1, <3>2, SoundPop DEF NoThrow, Attended, Sound
  <2> QED
    BY <1>3, <2>2, <2>3, <2>4 DEF ProcessReturn
<1>4. CASE ProcessLoop
  <2>1. /\ stack # <<>> /\ stack' = <<At("process")>> \o Tail(stack) /\ UNCHANGED raised
    BY <1>4 DEF ProcessLoop, InPc
  <2>2. /\ Sound(<<At("process")>> \o Tail(stack))
        /\ Has(<<At("process")>> \o Tail(stack), GoesOn)
    BY <1>0, <2>1, FrameSorts, SoundPop, SoundPush
  <2> QED
    BY <1>0, <2>1, <2>2 DEF NoThrow, Attended, Sound
<1> QED
  BY <1>1, <1>2, <1>3, <1>4

LEMMA HandlerPromise ==
  ASSUME TypeOK, QueueFaithful, Promise, Handler, ~excused'
  PROVE  NoThrow' /\ Attended'
<1>0. /\ ~excused /\ ~raised /\ Sound(stack) /\ Attended /\ serialize \in BOOLEAN
  BY PromiseFacts DEF Next
<1>c. Callback \in Frame /\ Callback \notin Killed
  BY <1>0, FrameSorts
<1>1. ASSUME stack # <<>>, stack' = <<At("process")>> \o Tail(stack), UNCHANGED raised
      PROVE  NoThrow' /\ Attended'
  <2>1. /\ Sound(<<At("process")>> \o Tail(stack))
        /\ Has(<<At("process")>> \o Tail(stack), GoesOn)
    BY <1>0, <1>1, FrameSorts, SoundPop, SoundPush
  <2> QED
    BY <1>0, <1>1, <2>1 DEF NoThrow, Attended, Sound
<1>2. CASE Emit
  <2>1. /\ stack # <<>> /\ stack' = <<Callback, At("tail")>> \o Tail(stack) /\ UNCHANGED raised
    BY <1>2 DEF Emit, InPc
  <2>2. /\ Sound(<<Callback, At("tail")>> \o Tail(stack))
        /\ Has(<<Callback, At("tail")>> \o Tail(stack), GoesOn)
    BY <1>0, <1>c, <2>1, FrameSorts, SoundPop, SoundPushTwo
  <2> QED
    BY <1>0, <2>1, <2>2 DEF NoThrow, Attended, Sound
<1>3. CASE TailCall
  BY <1>1, <1>3 DEF TailCall, InPc
<1>4. CASE Finalize
  <2>1. /\ stack # <<>> /\ Head(stack).pc = "finalize"
        /\ stack' = <<Callback>> \o Tail(stack)
        /\ UNCHANGED <<open, locked, pending, queue, raised>>
    BY <1>4 DEF Finalize, InPc, fields
  <2>2. Head(stack) \notin GoesOn /\ Head(stack) \notin Checks
    BY <2>1 DEF GoesOn, Checks
  <2>3. /\ Sound(<<Callback>> \o Tail(stack))
        /\ (Has(stack, GoesOn) => Has(<<Callback>> \o Tail(stack), GoesOn))
        /\ (Has(stack, Checks) => Has(<<Callback>> \o Tail(stack), Checks))
    BY <1>0, <1>c, <2>1, <2>2, SoundPop, SoundPush
  <2> QED
    BY <1>0, <2>1, <2>3 DEF NoThrow, Attended, Sound
<1>5. ~DeadCallback
  <2> SUFFICES ASSUME DeadCallback
               PROVE  FALSE
    OBVIOUS
  <2>1. stack # <<>> /\ Head(stack).pc = "dead"
    BY DEF DeadCallback, InPc
  <2>2. Head(stack) \in Frame /\ Head(stack) \notin Killed
    BY <1>0, <2>1, SoundPop
  <2> QED
    BY <2>1, <2>2 DEF Killed
<1>6. ASSUME NEW c \in Calls, FinalizeNext(c)
      PROVE  FALSE
  BY <1>0, <1>6 DEF FinalizeNext
<1>7. ASSUME NEW c \in Calls, EndRest(c) \/ EndNext(c)
      PROVE  NoThrow' /\ Attended'
  BY <1>1, <1>7 DEF EndRest, EndNext, Ending, InPc
<1>8. ASSUME NEW c \in Calls, EndFinalize(c)
      PROVE  NoThrow' /\ Attended'
  <2> DEFINE t == <<At("process")>> \o Tail(stack)
             u == <<For("finalize", c)>> \o t
  <2>1. stack # <<>> /\ UNCHANGED raised
        /\ stack' = <<Callback, For("finalize", c), At("process")>> \o Tail(stack)
    BY <1>8 DEF EndFinalize, Ending, InPc
  <2>2. Sound(t) /\ Has(t, GoesOn)
    BY <1>0, <2>1, FrameSorts, SoundPop, SoundPush
  <2>3. Tail(stack) \in Seq(Frame)
    BY <1>0, <2>1, SoundPop DEF Sound
  <2>4. stack' = <<Callback, For("finalize", c)>> \o t
    BY <1>c, <2>1, <2>3, FrameSorts
  <2> HIDE DEF t
  <2>5. Sound(stack') /\ Has(stack', GoesOn)
    BY <1>c, <2>2, <2>4, FrameSorts, SoundPushTwo
  <2> QED
    BY <1>0, <2>1, <2>5 DEF NoThrow, Attended, Sound
<1>9. CASE ProcessReject \/ ProcessRun \/ ProcessReturn \/ ProcessLoop
  BY <1>9, ProcessPromise
<1>10. ASSUME NEW c \in Calls, CloseBegins(c)
       PROVE  NoThrow' /\ Attended'
  <2>1. /\ stack # <<>> /\ Head(stack).pc = "starting" /\ stack' = Tail(stack)
        /\ UNCHANGED <<open, locked, pending, queue, raised>>
    BY <1>10 DEF CloseBegins, InPc
  <2>2. Head(stack) \notin GoesOn /\ Head(stack) \notin Checks
    BY <2>1 DEF GoesOn, Checks
  <2> QED
    BY <1>0, <2>1, <2>2, SoundPop DEF NoThrow, Attended, Sound
<1> QED
  BY <1>2, <1>3, <1>4, <1>5, <1>6, <1>7, <1>8, <1>9, <1>10 DEF Handler, End

\* The thread pool touches neither the stack nor the queue; the event loop
\* starts from an empty stack.
LEMMA EventPromise ==
  ASSUME TypeOK, Promise, ~excused',
         NewTurn \/ WorkOpen \/ AfterOpen \/ \E c \in Calls : Work(c) \/ After(c)
  PROVE  NoThrow' /\ Attended'
<1>0. /\ ~excused /\ ~raised /\ Sound(stack) /\ Attended
      /\ pending \in Nat /\ handle \in {"null", "live"}
  BY PromiseFacts DEF Next, TypeOK
<1>e. Sound(<<>>)
  BY EmptyStack DEF Sound
<1>1. ASSUME NEW f \in Frame, f \in GoesOn, f \notin Killed,
             stack' = <<At("js"), f>>, UNCHANGED raised
      PROVE  NoThrow' /\ Attended'
  <2>1. /\ Sound(<<At("js"), f>> \o <<>>) /\ Has(<<At("js"), f>> \o <<>>, GoesOn)
    BY <1>e, <1>1, FrameSorts, SoundPushTwo
  <2>2. <<At("js"), f>> \o <<>> = <<At("js"), f>>
    BY <1>1, FrameSorts
  <2> QED
    BY <1>0, <1>1, <2>1, <2>2 DEF NoThrow, Attended, Sound
<1>2. Sound(<<At("js")>>)
  <2>1. Sound(<<At("js")>> \o <<>>)
    BY <1>e, FrameSorts, SoundPush
  <2>2. <<At("js")>> \o <<>> = <<At("js")>>
    BY FrameSorts
  <2> QED
    BY <2>1, <2>2
<1>3. ASSUME UNCHANGED <<open, locked, queue, pending, stack, raised>>
      PROVE  NoThrow' /\ Attended'
  BY <1>0, <1>3 DEF NoThrow, Attended, Sound
<1>4. CASE NewTurn
  <2>1. stack = <<>> /\ stack' = <<At("js")>> /\ ~raised'
        /\ UNCHANGED <<open, queue, pending>>
    BY <1>4 DEF NewTurn, fields
  <2>2. ~Has(stack, GoesOn) /\ ~Has(stack, Checks)
    BY <2>1, EmptyStack
  <2> QED
    BY <1>0, <1>2, <2>1, <2>2 DEF NoThrow, Attended, Sound
<1>5. CASE WorkOpen
  BY <1>3, <1>5 DEF WorkOpen, fields
<1>6. CASE AfterOpen
  <2>1. CASE handle = "live"
    BY <1>1, <1>6, <2>1, FrameSorts DEF AfterOpen
  <2>2. CASE handle # "live"
    BY <1>0, <1>2, <1>6, <2>2 DEF AfterOpen, NoThrow, Attended, Sound
  <2> QED
    BY <2>1, <2>2
<1>7. ASSUME NEW c \in Calls, Work(c)
      PROVE  NoThrow' /\ Attended'
  BY <1>3, <1>7 DEF Work, WorkExec, WorkClose, WorkPrepare, WorkOperation, fields
<1>8. ASSUME NEW c \in Calls, AfterExec(c)
      PROVE  NoThrow' /\ Attended'
  BY <1>1, <1>8, FrameSorts DEF AfterExec
<1>9. ASSUME NEW c \in Calls, AfterClose(c)
      PROVE  NoThrow' /\ Attended'
  <2>1. handle # "live"
    BY <1>9 DEF AfterClose
  <2> QED
    BY <1>1, <1>9, <2>1, FrameSorts DEF AfterClose
<1>10. ASSUME NEW c \in Calls, AfterPrepare(c)
       PROVE  NoThrow' /\ Attended'
  BY <1>1, <1>10, FrameSorts DEF AfterPrepare
<1>11. ASSUME NEW c \in Calls, AfterOperation(c)
       PROVE  NoThrow' /\ Attended'
  <2>1. PICK p \in {"end", "errorEnd"} : stack' = <<At("js"), For(p, c)>>
    BY <1>11 DEF AfterOperation
  <2>2. UNCHANGED raised
    BY <1>11 DEF AfterOperation
  <2> QED
    BY <1>1, <2>1, <2>2, FrameSorts
<1> QED
  BY <1>4, <1>5, <1>6, <1>7, <1>8, <1>9, <1>10, <1>11 DEF After

\* A queue that could go on is attended, whatever thread or callback acts,
\* until an event excuses it.
LEMMA PromiseKept == Spec => []Promise
<1>1. Init => Promise
  <2> SUFFICES ASSUME Init
               PROVE  Promise
    OBVIOUS
  <2>1. Sound(<<>>)
    BY EmptyStack DEF Sound
  <2>2. Sound(<<At("js")>> \o <<>>)
    BY <2>1, FrameSorts, SoundPush
  <2>3. <<At("js")>> \o <<>> = <<At("js")>>
    BY FrameSorts
  <2> QED
    BY <2>2, <2>3 DEF Init, Promise, NoThrow, Attended, Sound
<1>2. IInv /\ Promise /\ [Next]_vars => Promise'
  <2> SUFFICES ASSUME IInv, Promise, [Next]_vars
               PROVE  Promise'
    OBVIOUS
  <2>1. CASE UNCHANGED vars
    BY <2>1 DEF vars, fields, Promise, NoThrow, Attended
  <2>2. CASE Next
    <3> SUFFICES ASSUME ~excused'
                 PROVE  NoThrow' /\ Attended'
      BY DEF Promise
    <3> QED
      BY <2>2, JavaScriptPromise, HandlerPromise, EventPromise DEF Next, IInv
  <2> QED
    BY <2>1, <2>2
<1> QED
  BY <1>1, <1>2, InductiveInvariant, PTL DEF Spec

\* When the main thread is idle and calls wait on an open database, a request
\* in flight will take them on, unless a callback threw, a close failed, or a
\* configure ran exclusively from the queue.
THEOREM StallsAreExcused == Spec => []StallHasCause
<1>1. IInv /\ Promise => StallHasCause
  <2> SUFFICES ASSUME IInv, Promise, stack = <<>>, open, queue # <<>>, ~excused
               PROVE  pending > 0
    BY DEF StallHasCause
  <2>1. ~Has(stack, GoesOn) /\ ~Has(stack, Checks)
    BY EmptyStack
  <2>2. pending # 0 /\ pending \in Nat
    BY <2>1 DEF Promise, Attended, IInv, TypeOK
  <2> QED
    BY <2>2
<1> QED
  BY <1>1, InductiveInvariant, PromiseKept, PTL
=============================================================================
