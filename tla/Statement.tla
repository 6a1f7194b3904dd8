----------------------------- MODULE Statement -----------------------------
(***************************************************************************)
(* One sqlite3.Statement object (src/src/statement.cc): its preparation,   *)
(* the queue of its operations, its status and the cursor of its           *)
(* sqlite3_stmt.                                                           *)
(*                                                                         *)
(* As in Database the main thread is a stack of frames, because the        *)
(* callbacks of an operation may issue others before the handler that      *)
(* called them goes on.  The database appears as what decides when the     *)
(* statement is prepared, or rejects it.  The SQL text holds a statement,  *)
(* so that the database cannot be closed under it.                         *)
(***************************************************************************)
EXTENDS Integers, Sequences

CONSTANTS
  Ops,        \* the operations JavaScript may issue, each at most once
  KindOf,     \* the method called
  Params,     \* the parameters given
  Silent,     \* the operations without a callback
  NoOp,       \* the operation of a frame that belongs to none
  MaxRows,    \* bound on the rows of the result
  MaxDepth,   \* bound on the stack when JavaScript enters the API
  MayThrow    \* whether JavaScript callbacks may throw

Kinds == {"bind", "get", "run", "all", "each", "reset", "finalize"}

\* What Bind(parameters) does depends on the parameters in four ways: there
\* are none, only undefined ones, ones that SQLite takes, or one it refuses.
Parameters == {"none", "undefined", "good", "bad"}

ASSUME OpsAssumption == NoOp \notin Ops /\ Silent \subseteq Ops
ASSUME OpKindAssumption == KindOf \in [Ops -> Kinds] /\ Params \in [Ops -> Parameters]
ASSUME OpBoundAssumption == MaxRows \in Nat /\ MaxDepth \in Nat
ASSUME OpThrowAssumption == MayThrow \in BOOLEAN

VARIABLES
  prepared, locked, finalized,  \* the fields of Statement
  status,     \* Statement::status
  queue,      \* Statement::queue
  handle,     \* Statement::_handle
  cursor,     \* the row the sqlite3_stmt is at, 0 when it has to start
  released,   \* how often Finalize_ has let go of the database (db->Unref)
  preparing,  \* progress of the constructor's request
  current,    \* the operation whose work is requested
  working,    \* progress of that work
  failed,     \* whether SQLite refused something in that work
  stack,      \* the main thread, innermost frame first
  raised,     \* a JavaScript exception is pending
  issued,     \* history: the operations issued
  answers     \* history: what the operations answered

fields == <<prepared, locked, finalized>>
vm == <<status, handle, cursor>>
work == <<current, working, failed>>
history == <<issued, answers>>
vars == <<fields, queue, vm, released, preparing, work, stack, raised, history>>

-----------------------------------------------------------------------------
\* Frames of the main thread.

PCs ==
  { "js",        \* JavaScript is running
    "dead",      \* a callback that is not run because an exception is pending
    "end",       \* STATEMENT_END of a handler that called a callback itself
    "errorEnd",  \* the same, the callback called by Error()
    "failed",    \* Work_AfterPrepare, after Error()
    "reject",    \* Database::Process, before it destroys the PrepareBaton
    "process",   \* Statement::Process
    "loop",      \* its loop
    "clean",     \* CleanQueue
    "cleaning",  \* its loop
    "release" }  \* Finalize_, after CleanQueue

Frame == [pc : PCs, op : Ops \cup {NoOp}, called : BOOLEAN]

At(p) == [pc |-> p, op |-> NoOp, called |-> FALSE]
Release(o) == [pc |-> "release", op |-> o, called |-> FALSE]
Cleaning(b) == [pc |-> "cleaning", op |-> NoOp, called |-> b]

\* TRY_CATCH_CALL and EMIT_EVENT: with an exception pending MakeCallback
\* returns an empty value without running anything.
Callback == IF raised THEN At("dead") ELSE At("js")

\* The handlers that TRY_CATCH_CALL leaves when the callback throws.
Skippable == {"end", "cleaning"}

Unwound ==
  IF Tail(stack) # <<>> /\ Head(Tail(stack)).pc \in Skippable
  THEN Tail(Tail(stack))
  ELSE Tail(stack)

InPc(p) == stack # <<>> /\ Head(stack).pc = p
Js == InPc("js") /\ ~raised
MayEnter == Js /\ Len(stack) < MaxDepth
EventLoop == stack = <<>> /\ ~raised

\* An operation that has no callback ends without telling anyone.
Call(o) == IF o \in Silent THEN <<>> ELSE <<Callback>>

Says == {"ok", "row", "none", "error", "refused"}
Answer == [op : Ops, says : Says, row : 0..MaxRows]

\* A callback that is not run tells nothing.
Tell(o, says, row) ==
  answers' = IF raised THEN answers
             ELSE Append(answers, [op |-> o, says |-> says, row |-> row])

Init ==
  /\ prepared = FALSE /\ locked = TRUE /\ finalized = FALSE
  /\ status = "ok" /\ handle = "none" /\ cursor = 0
  /\ queue = <<>>
  /\ released = 0
  /\ preparing = "new"
  /\ current = NoOp /\ working = "idle" /\ failed = FALSE
  /\ stack = <<At("js")>> /\ raised = FALSE
  /\ issued = {} /\ answers = <<>>

-----------------------------------------------------------------------------
\* The constructor, and the database's answer to it.

Construct ==
  /\ MayEnter /\ preparing = "new"
  /\ preparing' \in {"scheduled", "begun"}
  /\ UNCHANGED <<fields, queue, vm, released, work, stack, raised, history>>

\* A closed database destroys the baton, whose destructor finalizes the
\* statement, and then calls back.
ConstructRejected ==
  /\ MayEnter /\ preparing = "new"
  /\ preparing' = "over"
  /\ finalized' = TRUE
  /\ released' = released + 1
  /\ stack' = <<Callback>> \o stack
  /\ UNCHANGED <<prepared, locked, queue, vm, work, raised, history>>

\* Database::Process takes the call from its queue.
PrepareBegin ==
  /\ preparing = "scheduled"
  /\ preparing' = "begun"
  /\ UNCHANGED <<fields, queue, vm, released, work, stack, raised, history>>

\* Or, on a closed database, it calls back and then destroys the baton.
PrepareRejected ==
  /\ preparing = "scheduled"
  /\ EventLoop \/ MayEnter
  /\ preparing' = "over"
  /\ stack' = <<Callback, At("reject")>> \o stack
  /\ UNCHANGED <<fields, queue, vm, released, work, raised, history>>

WorkPrepare ==
  /\ preparing = "begun"
  /\ preparing' = "ran"
  /\ \/ handle' = "live" /\ status' = status
     \/ handle' = handle /\ status' = "error"
  /\ UNCHANGED <<fields, queue, cursor, released, work, stack, raised, history>>

\* Mutant: the statement counts as prepared although preparing failed.
AfterPrepareAnyway ==
  /\ EventLoop /\ preparing = "ran"
  /\ preparing' = "over"
  /\ prepared' = TRUE
  /\ stack' = <<At("js"), At(IF status = "ok" THEN "end" ELSE "failed")>>
  /\ UNCHANGED <<locked, finalized, queue, vm, released, work, raised, history>>

AfterPrepare ==
  /\ EventLoop /\ preparing = "ran"
  /\ preparing' = "over"
  /\ prepared' = (status = "ok")
  /\ stack' = <<At("js"), At(IF status = "ok" THEN "end" ELSE "failed")>>
  /\ UNCHANGED <<locked, finalized, queue, vm, released, work, raised, history>>

-----------------------------------------------------------------------------
\* The queue.

\* Mutant: Finalize_ does not set finalized.
RunUnmarked(o, rest) ==
  \/ /\ KindOf[o] # "finalize"
     /\ locked' = TRUE
     /\ current' = o /\ working' = "begun" /\ failed' = FALSE
     /\ stack' = rest
     /\ UNCHANGED finalized
  \/ /\ KindOf[o] = "finalize"
     /\ stack' = <<At("clean"), Release(o)>> \o rest
     /\ UNCHANGED <<locked, finalized, work>>

\* What a queued operation does when it is called, with rest below it:
\* STATEMENT_BEGIN for all but finalize, which runs Finalize_ at once.
Run(o, rest) ==
  \/ /\ KindOf[o] # "finalize"
     /\ locked' = TRUE
     /\ current' = o /\ working' = "begun" /\ failed' = FALSE
     /\ stack' = rest
     /\ UNCHANGED finalized
  \/ /\ KindOf[o] = "finalize"
     /\ finalized' = TRUE
     /\ stack' = <<At("clean"), Release(o)>> \o rest
     /\ UNCHANGED <<locked, work>>

Enter(o) ==
  /\ MayEnter /\ preparing # "new" /\ o \notin issued
  /\ issued' = issued \cup {o}
  /\ UNCHANGED <<prepared, vm, released, preparing, raised, answers>>

ScheduleRefuse(o) ==
  /\ Enter(o) /\ finalized
  /\ queue' = Append(queue, o)
  /\ stack' = <<At("clean")>> \o stack
  /\ UNCHANGED <<locked, finalized, work>>

ScheduleQueue(o) ==
  /\ Enter(o) /\ ~finalized /\ (~prepared \/ locked)
  /\ queue' = Append(queue, o)
  /\ UNCHANGED <<locked, finalized, work, stack>>

\* Mutant: an operation issued from a callback of another is not queued.
ScheduleRunLocked(o) ==
  /\ Enter(o) /\ ~finalized /\ prepared
  /\ Run(o, stack)
  /\ UNCHANGED queue

ScheduleRun(o) ==
  /\ Enter(o) /\ ~finalized /\ prepared /\ ~locked
  /\ Run(o, stack)
  /\ UNCHANGED queue

\* Statement::Process looks at finalized once, when it is entered.
ProcessClean ==
  /\ InPc("process") /\ finalized /\ queue # <<>>
  /\ stack' = <<At("clean")>> \o Tail(stack)
  /\ UNCHANGED <<fields, queue, vm, released, preparing, work, raised, history>>

InLoop == InPc("loop") \/ (InPc("process") /\ ~(finalized /\ queue # <<>>))

ProcessRun ==
  /\ InLoop /\ prepared /\ ~locked /\ queue # <<>>
  /\ queue' = Tail(queue)
  /\ Run(Head(queue), <<At("loop")>> \o Tail(stack))
  /\ UNCHANGED <<prepared, vm, released, preparing, raised, history>>

ProcessReturn ==
  /\ InLoop /\ ~(prepared /\ ~locked /\ queue # <<>>)
  /\ stack' = Tail(stack)
  /\ UNCHANGED <<fields, queue, vm, released, preparing, work, raised, history>>

\* Mutant: CleanQueue calls the callbacks of a statement never prepared.
CleanEnterAll ==
  /\ InPc("clean")
  /\ \/ /\ queue # <<>>
        /\ stack' = <<Cleaning(FALSE)>> \o Tail(stack)
     \/ /\ queue = <<>>
        /\ stack' = Tail(stack)
  /\ UNCHANGED <<fields, queue, vm, released, preparing, work, raised, history>>

\* CleanQueue of a statement that was never prepared deletes what is queued.
CleanEnter ==
  /\ InPc("clean")
  /\ \/ /\ prepared /\ queue # <<>>
        /\ stack' = <<Cleaning(FALSE)>> \o Tail(stack)
        /\ UNCHANGED queue
     \/ /\ ~(prepared /\ queue # <<>>)
        /\ queue' = <<>>
        /\ stack' = Tail(stack)
  /\ UNCHANGED <<fields, vm, released, preparing, work, raised, history>>

\* Mutant: the call is taken from the queue after its callback.
CleanCallKeep ==
  /\ InPc("cleaning") /\ queue # <<>>
  /\ Tell(Head(queue), "refused", 0)
  /\ stack' = Call(Head(queue)) \o
              <<Cleaning(Head(stack).called \/ Head(queue) \notin Silent)>> \o Tail(stack)
  /\ UNCHANGED <<fields, queue, vm, released, preparing, work, raised, issued>>

CleanCall ==
  /\ InPc("cleaning") /\ queue # <<>>
  /\ queue' = Tail(queue)
  /\ Tell(Head(queue), "refused", 0)
  /\ stack' = Call(Head(queue)) \o
              <<Cleaning(Head(stack).called \/ Head(queue) \notin Silent)>> \o Tail(stack)
  /\ UNCHANGED <<fields, vm, released, preparing, work, raised, issued>>

\* When no callback could be called the error is emitted as an event.
CleanReturn ==
  /\ InPc("cleaning") /\ queue = <<>>
  /\ stack' = (IF Head(stack).called THEN <<>> ELSE <<Callback>>) \o Tail(stack)
  /\ UNCHANGED <<fields, queue, vm, released, preparing, work, raised, history>>

-----------------------------------------------------------------------------
\* Finalize_ and the ends of the handlers.

\* Finalize_ on behalf of Work_AfterPrepare, which ends with STATEMENT_END,
\* and of the destructor of the PrepareBaton.
FinalizeFailed ==
  /\ InPc("failed") \/ InPc("reject")
  /\ finalized' = TRUE
  /\ stack' = <<At("clean"), Release(NoOp)>>
              \o (IF InPc("failed") THEN <<At("errorEnd")>> ELSE <<>>) \o Tail(stack)
  /\ UNCHANGED <<prepared, locked, queue, vm, released, preparing, work, raised, history>>

\* Mutant: the callback is taken from a baton although there is none.
FinalizeReleaseTell ==
  /\ InPc("release")
  /\ handle' = "none" /\ cursor' = 0
  /\ released' = released + 1
  /\ Tell(Head(stack).op, "ok", 0)
  /\ stack' = Call(Head(stack).op) \o Tail(stack)
  /\ UNCHANGED <<fields, queue, status, preparing, work, raised, issued>>

\* sqlite3_finalize, db->Unref() and the callback of finalize().
FinalizeRelease ==
  /\ InPc("release")
  /\ handle' = "none" /\ cursor' = 0
  /\ released' = released + 1
  /\ LET o == Head(stack).op IN
       \/ /\ o = NoOp
          /\ stack' = Tail(stack)
          /\ UNCHANGED answers
       \/ /\ o # NoOp
          /\ Tell(o, "ok", 0)
          /\ stack' = Call(o) \o Tail(stack)
  /\ UNCHANGED <<fields, queue, status, preparing, work, raised, issued>>

\* Mutant: STATEMENT_END does not look at the queue.
EndIdle ==
  /\ InPc("end") \/ InPc("errorEnd")
  /\ locked' = FALSE
  /\ stack' = Tail(stack)
  /\ UNCHANGED <<prepared, finalized, queue, vm, released, preparing, work, raised, history>>

End ==
  /\ InPc("end") \/ InPc("errorEnd")
  /\ locked' = FALSE
  /\ stack' = <<At("process")>> \o Tail(stack)
  /\ UNCHANGED <<prepared, finalized, queue, vm, released, preparing, work, raised, history>>

-----------------------------------------------------------------------------
\* The work of an operation, on the thread pool.

Bare(o) == Params[o] = "none"

Working(o) ==
  /\ current = o /\ working = "begun"
  /\ UNCHANGED <<fields, queue, handle, released, preparing, current, stack, raised,
                 history>>

\* bind(), get() and each of them with parameters, run, all and each: the row
\* from which the next step goes on.
From(o) == IF Bare(o) /\ KindOf[o] \in {"bind", "get"} THEN cursor ELSE 0

\* sqlite3_step from row c; a statement that is done or failed starts anew.
Stepped(c) ==
  /\ \/ c < MaxRows /\ status' = "row" /\ cursor' = c + 1
     \/ status' \in {"done", "error"} /\ cursor' = 0
  /\ failed' = (status' = "error")

\* Mutant: Work_Get steps a statement that is done.
SkipsNever(o) == FALSE

\* Work_Get does not step a statement that is done, unless it has parameters.
Skips(o) == KindOf[o] = "get" /\ Bare(o) /\ status = "done"

Usable(o) == handle = "live" /\ Params[o] # "bad" /\ ~Skips(o)

\* bind leaves the status alone unless SQLite was given a parameter.
WorkBind(o) ==
  /\ Working(o) /\ Usable(o) /\ KindOf[o] = "bind"
  /\ status' = IF Params[o] = "good" THEN "ok" ELSE status
  /\ cursor' = From(o)
  /\ working' = "ran" /\ UNCHANGED failed

WorkStep(o) ==
  /\ Working(o) /\ Usable(o) /\ KindOf[o] \in {"get", "run"}
  /\ Stepped(From(o))
  /\ working' = "ran"

\* all and each step to the end.
WorkAll(o) ==
  /\ Working(o) /\ Usable(o) /\ KindOf[o] \in {"all", "each"}
  /\ status' \in {"done", "error"} /\ cursor' = 0
  /\ failed' = (status' = "error")
  /\ working' = "ran"

WorkReset(o) ==
  /\ Working(o) /\ KindOf[o] = "reset"
  /\ status' = "ok" /\ cursor' = 0
  /\ working' = "ran" /\ UNCHANGED failed

WorkSkip(o) ==
  /\ Working(o) /\ handle = "live" /\ Skips(o)
  /\ working' = "ran" /\ UNCHANGED <<status, cursor, failed>>

\* Bind(parameters) meets a parameter that SQLite refuses.
WorkRefused(o) ==
  /\ Working(o) /\ handle = "live" /\ Params[o] = "bad" /\ KindOf[o] # "reset"
  /\ status' = "error" /\ cursor' = 0 /\ failed' = TRUE
  /\ working' = "ran"

\* The sqlite3_stmt is gone: SQLite answers SQLITE_MISUSE, but it crashes in
\* sqlite3_clear_bindings, which Bind calls when there are parameters.
WorkGone(o) ==
  /\ Working(o) /\ handle = "none" /\ KindOf[o] # "reset"
  /\ working' = IF Bare(o) THEN "ran" ELSE "crashed"
  /\ IF KindOf[o] = "bind" \/ Skips(o)
     THEN UNCHANGED <<status, failed>>
     ELSE status' = "error" /\ failed' = TRUE
  /\ UNCHANGED cursor

-----------------------------------------------------------------------------
\* The end of the work, on the main thread.

\* Mutant: Work_AfterGet and Work_AfterRun take SQLITE_DONE for an error.
RefusesDone(o) ==
  \/ KindOf[o] = "bind" /\ status # "ok"
  \/ KindOf[o] \in {"get", "run"} /\ status # "row"
  \/ KindOf[o] \in {"all", "each"} /\ status # "done"

\* The statuses that the After handlers take for an error.
Refuses(o) ==
  \/ KindOf[o] = "bind" /\ status # "ok"
  \/ KindOf[o] \in {"get", "run"} /\ status \notin {"row", "done"}
  \/ KindOf[o] \in {"all", "each"} /\ status # "done"

Ended(o) ==
  /\ EventLoop /\ current = o /\ working = "ran"
  /\ current' = NoOp /\ working' = "idle"
  /\ UNCHANGED <<fields, queue, vm, released, preparing, failed, raised, issued>>

AfterError(o) ==
  /\ Ended(o) /\ Refuses(o)
  /\ Tell(o, "error", 0)
  /\ stack' = <<At("js"), At("errorEnd")>>

\* The completion of an each, which AsyncEach calls, is not part of it.
AfterOk(o) ==
  /\ Ended(o) /\ ~Refuses(o)
  /\ IF KindOf[o] = "get"
     THEN Tell(o, IF status = "row" THEN "row" ELSE "none",
                  IF status = "row" THEN cursor ELSE 0)
     ELSE Tell(o, "ok", 0)
  /\ stack' = (IF KindOf[o] = "each" THEN <<>> ELSE Call(o)) \o <<At("end")>>

-----------------------------------------------------------------------------
JsReturn ==
  /\ Js
  /\ stack' = Tail(stack)
  /\ UNCHANGED <<fields, queue, vm, released, preparing, work, raised, history>>

JsThrow ==
  /\ MayThrow /\ InPc("js")
  /\ stack' = Unwound
  /\ raised' = TRUE
  /\ UNCHANGED <<fields, queue, vm, released, preparing, work, history>>

JsCatch ==
  /\ InPc("js") /\ raised
  /\ raised' = FALSE
  /\ UNCHANGED <<fields, queue, vm, released, preparing, work, stack, history>>

DeadCallback ==
  /\ InPc("dead")
  /\ stack' = Unwound
  /\ UNCHANGED <<fields, queue, vm, released, preparing, work, raised, history>>

\* An event of another object runs JavaScript.
NewTurn ==
  /\ stack = <<>>
  /\ stack' = <<At("js")>>
  /\ raised' = FALSE
  /\ UNCHANGED <<fields, queue, vm, released, preparing, work, history>>

Schedule(o) == ScheduleRefuse(o) \/ ScheduleQueue(o) \/ ScheduleRun(o)

Handler ==
  \/ ProcessClean \/ ProcessRun \/ ProcessReturn
  \/ CleanEnter \/ CleanCall \/ CleanReturn
  \/ FinalizeFailed \/ FinalizeRelease \/ End \/ DeadCallback

Prepare == PrepareBegin \/ PrepareRejected

Work(o) ==
  \/ WorkBind(o) \/ WorkStep(o) \/ WorkAll(o) \/ WorkReset(o)
  \/ WorkSkip(o) \/ WorkRefused(o) \/ WorkGone(o)

After(o) == AfterError(o) \/ AfterOk(o)

Step ==
  \/ Construct \/ ConstructRejected \/ Prepare \/ WorkPrepare \/ AfterPrepare
  \/ Handler \/ NewTurn \/ JsReturn \/ JsThrow \/ JsCatch
  \/ \E o \in Ops : Schedule(o) \/ Work(o) \/ After(o)

\* A process that crashed does nothing more.
Next == working # "crashed" /\ Step

\* As in Database; the database answers the request to prepare.
Fairness ==
  /\ WF_vars(Handler) /\ WF_vars(JsReturn)
  /\ \A d \in 1..MaxDepth : SF_vars(JsReturn /\ Len(stack) = d)
  /\ SF_vars(Prepare) /\ WF_vars(WorkPrepare) /\ SF_vars(AfterPrepare)
  /\ \A o \in Ops : WF_vars(Work(o)) /\ SF_vars(After(o))

Spec == Init /\ [][Next]_vars
FairSpec == Spec /\ Fairness

-----------------------------------------------------------------------------
\* Properties.

\* Every variable has its type.
TypeOK ==
  /\ prepared \in BOOLEAN /\ locked \in BOOLEAN /\ finalized \in BOOLEAN
  /\ status \in {"ok", "row", "done", "error"}
  /\ handle \in {"none", "live"}
  /\ cursor \in 0..MaxRows
  /\ queue \in Seq(Ops)
  /\ released \in Nat
  /\ preparing \in {"new", "scheduled", "begun", "ran", "over"}
  /\ current \in Ops \cup {NoOp}
  /\ working \in {"idle", "begun", "ran", "crashed"}
  /\ failed \in BOOLEAN
  /\ stack \in Seq(Frame) /\ raised \in BOOLEAN
  /\ issued \in SUBSET Ops /\ answers \in Seq(Answer)

\* The assertions of STATEMENT_BEGIN, for as long as the work lasts: what is
\* on the thread pool finds the statement locked, prepared and not finalized,
\* whatever callbacks issue meanwhile.
WorkFindsStatement ==
  working \in {"begun", "ran"} =>
    locked /\ prepared /\ ~finalized /\ handle = "live"

\* statement.cc:889 asserts that a statement is finalized once: the database
\* it refers to is let go of once.
FinalizedOnce == released <= 1

\* No operation is answered twice, whichever callbacks throw in between.
AnsweredOnce ==
  \A i, j \in 1..Len(answers) : i # j => answers[i].op # answers[j].op

\* The answers that say where the cursor is.  A bind that gives SQLite no
\* parameters answers by the status that another operation left.
Moves(a) ==
  a.says # "refused" /\ KindOf[a.op] # "finalize" /\ ~(KindOf[a.op] = "bind" /\ Bare(a.op))

\* Successive calls of get() walk through the result: a call without
\* parameters goes on where the operation before it left the statement, and
\* after the last row it answers nothing rather than the first row again.
GetContinues ==
  \A j \in 1..Len(answers) :
    LET a == answers[j]
        before == {i \in 1..j-1 : Moves(answers[i])}
        b == answers[CHOOSE i \in before : \A k \in before : k <= i]
    IN  KindOf[a.op] = "get" /\ Bare(a.op) /\ a.says \in {"row", "none"} /\ before # {}
        => /\ b.says = "row" => a.says = "none" \/ a.row = b.row + 1
           /\ b.says = "none" => a.says = "none"
           /\ b.says = "ok" /\ KindOf[b.op] \in {"all", "each"} => a.says = "none"
           /\ b.says = "ok" /\ KindOf[b.op] \in {"reset", "bind"} /\ a.says = "row"
                => a.row = 1
           /\ b.says = "ok" /\ KindOf[b.op] = "run" /\ a.says = "row" => a.row = 2

\* An operation answers an error when, and only when, SQLite refused something
\* in its own work.  A bind without parameters is the exception: it answers
\* the SQLITE_ROW, the SQLITE_DONE or the error of the operation before it.
ErrorsAreOwn ==
  [][\A o \in Ops :
       /\ After(o) /\ ~(KindOf[o] = "bind" /\ Params[o] \in {"none", "undefined"})
       => (answers'[Len(answers')].says = "error" <=> failed)]_vars

-----------------------------------------------------------------------------
\* What the statement promises to its caller.

\* The finalize that is under way, the operation whose work is under way, and
\* the queue: the operations not yet answered, in the order of their issue.
Releasing == {i \in 1..Len(stack) : stack[i].pc = "release" /\ stack[i].op # NoOp}

Line ==
  (IF Releasing = {} THEN <<>> ELSE <<stack[CHOOSE i \in Releasing : TRUE].op>>)
  \o (IF current = NoOp THEN <<>> ELSE <<current>>)
  \o queue

State == IF prepared THEN "prepared" ELSE IF finalized THEN "failed" ELSE "preparing"

Said ==
  [i \in 1..Len(answers) |->
     [op |-> answers[i].op, refused |-> answers[i].says = "refused"]]

Service == INSTANCE StatementService WITH state <- State, line <- Line, said <- Said

\* When no callback throws, operations are answered one by one in the order of
\* their issue, those behind a finalize are refused before it is answered, and
\* a statement that could not be prepared answers nothing.
ImplementsService == Service!Spec

\* No operation waits for ever.
EveryOpEnds == Service!Answered
=============================================================================
