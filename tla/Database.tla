------------------------------ MODULE Database ------------------------------
(***************************************************************************)
(* The scheduler of one sqlite3.Database object (src/src/database.cc).     *)
(*                                                                         *)
(* The main thread runs JavaScript and the C++ handlers; work requests run *)
(* on the libuv thread pool.  Every C++ handler may call back into         *)
(* JavaScript, which may call the API again before the handler goes on, so *)
(* the main thread is an explicit stack of frames: what remains to be done *)
(* by each JavaScript function and C++ handler that has been entered.      *)
(*                                                                         *)
(* A call is one invocation of the API.  A call that creates a Statement   *)
(* or a Backup also names that object.  The queue such an object keeps of  *)
(* its own operations is hidden here: whether it holds something shows     *)
(* when Statement::Process takes it (EndNext, EndFinalize).                *)
(***************************************************************************)
EXTENDS Integers, Sequences, FiniteSets

CONSTANTS
  Calls,      \* the API calls a run makes, each at most once
  KindOf,     \* what each call asks for
  NoCall,     \* the call of a frame that belongs to none
  MaxOps,     \* bound on the operations of one statement or backup
  MaxDepth,   \* bound on the stack when JavaScript enters the API
  MayThrow    \* whether JavaScript callbacks may throw

\* exec stands for loadExtension too, and prepare for the initialisation of a
\* backup: the scheduler treats them alike.
Kinds == {"exec", "close", "prepare", "wait", "configure"}

ASSUME CallsAssumption == IsFiniteSet(Calls) /\ NoCall \notin Calls
ASSUME KindAssumption == KindOf \in [Calls -> Kinds]
ASSUME BoundAssumption == MaxOps \in Nat /\ MaxDepth \in Nat
ASSUME ThrowAssumption == MayThrow \in BOOLEAN

VARIABLES
  open, closing, locked, pending, serialize,  \* the fields of Database
  queue,     \* Database::queue
  handle,    \* Database::_handle, "null" or "live"
  opening,   \* progress of the constructor's open request
  stage,     \* progress of each call
  phase,     \* state of the object a prepare call creates
  ops,       \* operations begun on each object
  sqlite,    \* objects with an unfinished sqlite3_stmt or sqlite3_backup
  stack,     \* the main thread, innermost frame first
  raised,    \* a JavaScript exception is pending
  excused    \* history: an event happened after which the queue may stall

fields == <<open, closing, locked, pending, serialize>>
objects == <<phase, ops, sqlite>>
vars == <<fields, queue, handle, opening, stage, objects, stack, raised, excused>>

-----------------------------------------------------------------------------
\* Frames of the main thread.

PCs ==
  { "js",        \* JavaScript is running
    "dead",      \* a callback that is not run because an exception is pending
    "opened",    \* Work_AfterOpen, after the callback
    "closed",    \* Work_AfterClose, after the callback
    "tail",      \* a handler of which only Process() remains
    "starting",  \* Work_BeginClose, after RemoveCallbacks
    "end",       \* STATEMENT_END of a handler that called a callback itself
    "errorEnd",  \* the same, the callback called by Error()
    "finalize",  \* Statement::Finalize_, after CleanQueue
    "restore",   \* Serialize and Parallelize, after the function
    "process",   \* Database::Process
    "check",     \* the loop of Process, after a synchronous callback
    "reject" }   \* the loop of Process on a closed database

Frame == [pc : PCs, call : Calls \cup {NoCall}, before : BOOLEAN]

At(p) == [pc |-> p, call |-> NoCall, before |-> FALSE]
For(p, c) == [pc |-> p, call |-> c, before |-> FALSE]
Restore(b) == [pc |-> "restore", call |-> NoCall, before |-> b]

\* TRY_CATCH_CALL and EMIT_EVENT: with an exception pending MakeCallback
\* returns an empty value without running anything.
Callback == IF raised THEN At("dead") ELSE At("js")

\* The handlers that TRY_CATCH_CALL leaves when the callback throws, skipping
\* what remains of them.
Skippable == {"opened", "closed", "tail", "end", "restore", "reject"}

\* The stack when the innermost frame, a callback, ends with an exception.
Unwound ==
  IF Tail(stack) # <<>> /\ Head(Tail(stack)).pc \in Skippable
  THEN Tail(Tail(stack))
  ELSE Tail(stack)

InPc(p) == stack # <<>> /\ Head(stack).pc = p

\* JavaScript runs and may enter the API.
Js == InPc("js") /\ ~raised
MayEnter == Js /\ Len(stack) < MaxDepth

\* Nothing runs on the main thread: libuv may deliver an event.
EventLoop == stack = <<>> /\ ~raised

-----------------------------------------------------------------------------
\* Calls and objects.

Request == [call : Calls, exclusive : BOOLEAN]
Stages == {"new", "queued", "starting", "begun", "ran", "ending", "over"}
Phases == {"none", "prepared", "failed", "idle", "begun", "ran", "ending", "gone"}

\* What counts in Database::pending: a close whose listeners run, and work
\* requested and not yet ended.
InFlight == {"starting", "begun", "ran", "ending"}

Exclusive(c) == KindOf[c] \in {"exec", "close", "wait"}
Asynchronous(c) == KindOf[c] \in {"exec", "close", "prepare"}

\* The destructor of a PrepareBaton or an InitializeBaton finalizes the
\* object of a call that the database rejects.
Rejected(c) ==
  /\ stage' = [stage EXCEPT ![c] = "over"]
  /\ phase' = [phase EXCEPT ![c] = IF KindOf[c] = "prepare" THEN "gone" ELSE @]

\* Mutant: Work_BeginClose does not set closing.
BeginNotClosing(c, rest) ==
  /\ stage' = [stage EXCEPT ![c] = IF Asynchronous(c) THEN "begun" ELSE "over"]
  /\ pending' = IF Asynchronous(c) THEN pending + 1 ELSE pending
  /\ closing' = closing
  /\ stack' = IF KindOf[c] = "wait" THEN <<Callback, At("tail")>> \o rest ELSE rest

\* Work_BeginExec, Work_BeginClose, Work_BeginPrepare, Work_BeginInitialize,
\* Work_Wait and the functions of Configure, entered with rest below them.
Begin(c, rest) ==
  /\ stage' = [stage EXCEPT ![c] = IF Asynchronous(c) THEN "begun" ELSE "over"]
  /\ pending' = IF Asynchronous(c) THEN pending + 1 ELSE pending
  /\ closing' = (closing \/ KindOf[c] = "close")
  /\ stack' = IF KindOf[c] = "wait" THEN <<Callback, At("tail")>> \o rest ELSE rest

\* Events of a trace or profile hook may wait once another configure has run.
Traced(c) == \E d \in Calls \ {c} : KindOf[d] = "configure" /\ stage[d] = "over"

\* Taking such a hook away, which close does and a configure may do, runs the
\* listeners of its events at once (Async::finish).  One callback stands for
\* all of them: a listener that throws ends none of the handlers, and those
\* after it do not run.  A close has raised pending by then and goes on later.
BeginTraced(c, rest) ==
  /\ Traced(c)
  /\ \/ /\ KindOf[c] = "close"
        /\ stage' = [stage EXCEPT ![c] = "starting"]
        /\ pending' = pending + 1
        /\ stack' = <<Callback, For("starting", c)>> \o rest
     \/ /\ KindOf[c] = "configure"
        /\ stage' = [stage EXCEPT ![c] = "over"]
        /\ pending' = pending
        /\ stack' = <<Callback>> \o rest
  /\ closing' = closing

Init ==
  /\ open = FALSE /\ closing = FALSE /\ locked = FALSE
  /\ pending = 0 /\ serialize = FALSE
  /\ queue = <<>>
  /\ handle = "null"
  /\ opening = "begun"
  /\ stage = [c \in Calls |-> "new"]
  /\ phase = [c \in Calls |-> "none"]
  /\ ops = [c \in Calls |-> 0]
  /\ sqlite = {}
  /\ stack = <<At("js")>>
  /\ raised = FALSE
  /\ excused = FALSE

-----------------------------------------------------------------------------
\* JavaScript enters the API.

\* Configure calls Process after Schedule; the other methods return.
Returning(c) ==
  IF KindOf[c] = "configure" THEN <<At("process")>> \o stack ELSE stack

ScheduleReject(c) ==
  /\ MayEnter /\ stage[c] = "new"
  /\ ~open /\ locked
  /\ Rejected(c)
  /\ stack' = <<Callback>> \o Returning(c)
  /\ UNCHANGED <<fields, queue, handle, opening, ops, sqlite, raised, excused>>

\* Mutants: Schedule overlooks locked, or serialize.
MustWaitUnlocked(c) == ~open \/ ((Exclusive(c) \/ serialize) /\ pending > 0)
MustWaitParallel(c) == ~open \/ ((locked \/ Exclusive(c)) /\ pending > 0)

MustWait(c) == ~open \/ ((locked \/ Exclusive(c) \/ serialize) /\ pending > 0)

ScheduleQueue(c) ==
  /\ MayEnter /\ stage[c] = "new"
  /\ ~(~open /\ locked) /\ MustWait(c)
  /\ queue' = Append(queue, [call |-> c, exclusive |-> Exclusive(c) \/ serialize])
  /\ stage' = [stage EXCEPT ![c] = "queued"]
  /\ stack' = Returning(c)
  /\ UNCHANGED <<fields, handle, opening, objects, raised, excused>>

ScheduleBegin(c) ==
  /\ MayEnter /\ stage[c] = "new"
  /\ ~(~open /\ locked) /\ ~MustWait(c)
  /\ locked' = Exclusive(c)
  /\ Begin(c, Returning(c)) \/ BeginTraced(c, Returning(c))
  /\ UNCHANGED <<open, serialize, queue, handle, opening, objects, raised, excused>>

\* Serialize and Parallelize, without and with a function.
SetSerialize(value) ==
  /\ MayEnter
  /\ serialize' = value
  /\ \/ stack' = <<At("process")>> \o stack
     \/ stack' = <<Callback, Restore(serialize)>> \o stack
  /\ UNCHANGED <<open, closing, locked, pending, queue, handle, opening, stage,
                 objects, raised, excused>>

\* STATEMENT_BEGIN and BACKUP_BEGIN.  They look at the object only, not at
\* Database::locked.
Operate(c) ==
  /\ phase' = [phase EXCEPT ![c] = "begun"]
  /\ ops' = [ops EXCEPT ![c] = @ + 1]

ObjectBegin(c) ==
  /\ Js /\ phase[c] = "idle" /\ ops[c] < MaxOps
  /\ Operate(c)
  /\ pending' = pending + 1
  /\ UNCHANGED <<open, closing, locked, serialize, queue, handle, opening, stage,
                 sqlite, stack, raised, excused>>

\* Statement.finalize() on an idle statement runs at once.
ObjectFinalize(c) ==
  /\ MayEnter /\ phase[c] = "idle"
  /\ phase' = [phase EXCEPT ![c] = "gone"]
  /\ sqlite' = sqlite \ {c}
  /\ stack' = <<Callback>> \o stack
  /\ UNCHANGED <<fields, queue, handle, opening, stage, ops, raised, excused>>

JsReturn ==
  /\ Js
  /\ stack' = Tail(stack)
  /\ UNCHANGED <<fields, queue, handle, opening, stage, objects, raised, excused>>

\* The script or the callback throws, or lets the exception of a call it made
\* propagate.
JsThrow ==
  /\ MayThrow /\ InPc("js")
  /\ stack' = Unwound
  /\ raised' = TRUE
  /\ excused' = TRUE
  /\ UNCHANGED <<fields, queue, handle, opening, stage, objects>>

JsCatch ==
  /\ InPc("js") /\ raised
  /\ raised' = FALSE
  /\ UNCHANGED <<fields, queue, handle, opening, stage, objects, stack, excused>>

DeadCallback ==
  /\ InPc("dead")
  /\ stack' = Unwound
  /\ UNCHANGED <<fields, queue, handle, opening, stage, objects, raised, excused>>

-----------------------------------------------------------------------------
\* Database::Process.

ProcessReject ==
  /\ InPc("process") \/ InPc("reject")
  /\ ~open /\ locked /\ queue # <<>>
  /\ queue' = Tail(queue)
  /\ Rejected(Head(queue).call)
  /\ stack' = <<Callback, At("reject")>> \o Tail(stack)
  /\ UNCHANGED <<fields, handle, opening, ops, sqlite, raised, excused>>

\* Mutants: Process overlooks the requests in flight, or whether the database
\* is open.
CanRunBusy ==
  /\ open /\ queue # <<>>
  /\ ~locked \/ pending = 0

CanRunClosed ==
  /\ queue # <<>>
  /\ ~locked \/ pending = 0
  /\ ~(Head(queue).exclusive /\ pending > 0)

CanRun ==
  /\ open /\ queue # <<>>
  /\ ~locked \/ pending = 0
  /\ ~(Head(queue).exclusive /\ pending > 0)

\* Mutant: the call that Process takes stays in the queue.
ProcessRunKeep ==
  /\ InPc("process") /\ CanRun
  /\ LET r == Head(queue) IN
       /\ locked' = r.exclusive
       /\ Begin(r.call, Tail(stack)) \/ BeginTraced(r.call, Tail(stack))
  /\ UNCHANGED <<open, serialize, queue, handle, opening, objects, raised, excused>>

ProcessRun ==
  /\ InPc("process") /\ CanRun
  /\ LET r == Head(queue) IN
       /\ queue' = Tail(queue)
       /\ locked' = r.exclusive
       /\ \/ Begin(r.call, IF KindOf[r.call] = "wait"
                           THEN <<At("check")>> \o Tail(stack)
                           ELSE IF r.exclusive THEN Tail(stack) ELSE stack)
          \/ BeginTraced(r.call, <<At("check")>> \o Tail(stack))
       /\ excused' = (excused \/ (r.exclusive /\ KindOf[r.call] = "configure"))
  /\ UNCHANGED <<open, serialize, handle, opening, objects, raised>>

ProcessReturn ==
  /\ \/ InPc("process") /\ ~CanRun /\ ~(~open /\ locked /\ queue # <<>>)
     \/ InPc("reject") /\ queue = <<>>
     \/ InPc("check") /\ locked
  /\ stack' = Tail(stack)
  /\ UNCHANGED <<fields, queue, handle, opening, stage, objects, raised, excused>>

ProcessLoop ==
  /\ InPc("check") /\ ~locked
  /\ stack' = <<At("process")>> \o Tail(stack)
  /\ UNCHANGED <<fields, queue, handle, opening, stage, objects, raised, excused>>

-----------------------------------------------------------------------------
\* What remains of the handlers after their callback.

\* Work_BeginClose after RemoveCallbacks: the work is requested.
CloseBegins(c) ==
  /\ InPc("starting") /\ Head(stack).call = c /\ stage[c] = "starting"
  /\ stage' = [stage EXCEPT ![c] = "begun"]
  /\ closing' = TRUE
  /\ stack' = Tail(stack)
  /\ UNCHANGED <<open, locked, pending, serialize, queue, handle, opening, objects,
                 raised, excused>>

\* EMIT_EVENT "open" in Work_AfterOpen and "close" in Work_AfterClose.
Emit ==
  /\ InPc("opened") \/ InPc("closed")
  /\ stack' = <<Callback, At("tail")>> \o Tail(stack)
  /\ UNCHANGED <<fields, queue, handle, opening, stage, objects, raised, excused>>

TailCall ==
  /\ InPc("tail") \/ InPc("restore")
  /\ serialize' = IF InPc("restore") THEN Head(stack).before ELSE serialize
  /\ stack' = <<At("process")>> \o Tail(stack)
  /\ UNCHANGED <<open, closing, locked, pending, queue, handle, opening, stage,
                 objects, raised, excused>>

\* STATEMENT_END and BACKUP_END: the object is unlocked, then Process of the
\* object, then Process of the database.
Ending(c) ==
  /\ InPc("end") \/ InPc("errorEnd")
  /\ Head(stack).call = c
  /\ stage' = [stage EXCEPT ![c] = "over"]
  /\ UNCHANGED <<open, closing, locked, serialize, queue, handle, opening,
                 raised, excused>>

\* Mutant: STATEMENT_END takes the request off pending twice.
EndRestTwice(c) ==
  /\ Ending(c)
  /\ pending' = pending - 2
  /\ phase' = [phase EXCEPT ![c] = "idle"]
  /\ stack' = <<At("process")>> \o Tail(stack)
  /\ UNCHANGED <<ops, sqlite>>

\* Mutant: STATEMENT_END does not call Database::Process.
EndRestIdle(c) ==
  /\ Ending(c)
  /\ pending' = pending - 1
  /\ phase' = [phase EXCEPT ![c] = IF phase[c] = "failed" THEN "gone" ELSE "idle"]
  /\ stack' = Tail(stack)
  /\ UNCHANGED <<ops, sqlite>>

\* Nothing to do for the object: its queue is empty, it failed to prepare, or
\* the operation that ends was the last one of a backup.
EndRest(c) ==
  /\ Ending(c)
  /\ pending' = pending - 1
  /\ \/ phase[c] # "failed" /\ phase' = [phase EXCEPT ![c] = "idle"]
     \/ phase[c] = "failed" /\ phase' = [phase EXCEPT ![c] = "gone"]
     \/ phase[c] = "ending" /\ c \notin sqlite /\ phase' = [phase EXCEPT ![c] = "gone"]
  /\ stack' = <<At("process")>> \o Tail(stack)
  /\ UNCHANGED <<ops, sqlite>>

\* Mutant: STATEMENT_BEGIN forgets pending++.
EndNextUncounted(c) ==
  /\ Ending(c) /\ phase[c] # "failed" /\ ops[c] < MaxOps
  /\ Operate(c)
  /\ pending' = pending - 1
  /\ stack' = <<At("process")>> \o Tail(stack)
  /\ UNCHANGED sqlite

\* The object's queue starts with an operation.
EndNext(c) ==
  /\ Ending(c) /\ phase[c] # "failed" /\ ops[c] < MaxOps
  /\ Operate(c)
  /\ stack' = <<At("process")>> \o Tail(stack)
  /\ UNCHANGED <<pending, sqlite>>

\* It starts with finalize: CleanQueue calls what is queued behind it.
EndFinalize(c) ==
  /\ Ending(c) /\ phase[c] # "failed"
  /\ pending' = pending - 1
  /\ phase' = [phase EXCEPT ![c] = "gone"]
  /\ stack' = <<Callback, For("finalize", c), At("process")>> \o Tail(stack)
  /\ UNCHANGED <<ops, sqlite>>

Finalize ==
  /\ InPc("finalize")
  /\ sqlite' = sqlite \ {Head(stack).call}
  /\ stack' = <<Callback>> \o Tail(stack)
  /\ UNCHANGED <<fields, queue, handle, opening, stage, phase, ops, raised, excused>>

\* A callback of CleanQueue that throws leaves operations queued behind it, and
\* the loop of Statement::Process, which called Finalize_, begins the next one
\* although the statement is finalized.
FinalizeNext(c) ==
  /\ InPc("finalize") /\ Head(stack).call = c
  /\ raised /\ phase[c] = "gone" /\ ops[c] < MaxOps
  /\ Operate(c)
  /\ pending' = pending + 1
  /\ sqlite' = sqlite \ {c}
  /\ stack' = <<Callback>> \o Tail(stack)
  /\ UNCHANGED <<open, closing, locked, serialize, queue, handle, opening, stage,
                 raised, excused>>

-----------------------------------------------------------------------------
\* The thread pool.

WorkOpen ==
  /\ opening = "begun"
  /\ opening' = "ran"
  /\ handle' \in {"null", "live"}
  /\ UNCHANGED <<fields, queue, stage, objects, stack, raised, excused>>

WorkExec(c) ==
  /\ stage[c] = "begun" /\ KindOf[c] = "exec"
  /\ stage' = [stage EXCEPT ![c] = "ran"]
  /\ UNCHANGED <<fields, queue, handle, opening, objects, stack, raised, excused>>

\* Mutant: the handle is dropped although sqlite3_close refused.
WorkCloseAnyway(c) ==
  /\ stage[c] = "begun" /\ KindOf[c] = "close"
  /\ stage' = [stage EXCEPT ![c] = "ran"]
  /\ handle' = "null"
  /\ UNCHANGED <<fields, queue, opening, objects, stack, raised, excused>>

\* sqlite3_close refuses, with SQLITE_BUSY, while objects are unfinished.
WorkClose(c) ==
  /\ stage[c] = "begun" /\ KindOf[c] = "close"
  /\ stage' = [stage EXCEPT ![c] = "ran"]
  /\ handle' = IF sqlite = {} THEN "null" ELSE handle
  /\ UNCHANGED <<fields, queue, opening, objects, stack, raised, excused>>

\* Preparing may fail, and it may succeed without an object (an SQL text that
\* holds no statement, a backup that could not be initialised).
WorkPrepare(c) ==
  /\ stage[c] = "begun" /\ KindOf[c] = "prepare"
  /\ stage' = [stage EXCEPT ![c] = "ran"]
  /\ \/ phase' = [phase EXCEPT ![c] = "prepared"] /\ sqlite' \in {sqlite, sqlite \cup {c}}
     \/ phase' = [phase EXCEPT ![c] = "failed"] /\ sqlite' = sqlite
  /\ UNCHANGED <<fields, queue, handle, opening, ops, stack, raised, excused>>

\* Work_Bind, Work_Get, ... and Work_Step, Work_Finish; only the last two
\* release the object.
WorkOperation(c) ==
  /\ phase[c] = "begun"
  /\ phase' = [phase EXCEPT ![c] = "ran"]
  /\ sqlite' \in {sqlite, sqlite \ {c}}
  /\ UNCHANGED <<fields, queue, handle, opening, stage, ops, stack, raised, excused>>

-----------------------------------------------------------------------------
\* The event loop.

\* A timer, another event or an uncaughtException handler runs JavaScript.
NewTurn ==
  /\ stack = <<>>
  /\ stack' = <<At("js")>>
  /\ raised' = FALSE
  /\ UNCHANGED <<fields, queue, handle, opening, stage, objects, excused>>

AfterOpen ==
  /\ EventLoop /\ opening = "ran"
  /\ opening' = "over"
  /\ open' = (handle = "live")
  /\ stack' = IF handle = "live" THEN <<At("js"), At("opened")>> ELSE <<At("js")>>
  /\ UNCHANGED <<closing, locked, pending, serialize, queue, handle, stage, objects,
                 raised, excused>>

\* Mutant: Work_AfterExec does not call Process.
AfterExecIdle(c) ==
  /\ EventLoop /\ stage[c] = "ran" /\ KindOf[c] = "exec"
  /\ stage' = [stage EXCEPT ![c] = "over"]
  /\ pending' = pending - 1
  /\ stack' = <<At("js")>>
  /\ UNCHANGED <<open, closing, locked, serialize, queue, handle, opening, objects,
                 raised, excused>>

AfterExec(c) ==
  /\ EventLoop /\ stage[c] = "ran" /\ KindOf[c] = "exec"
  /\ stage' = [stage EXCEPT ![c] = "over"]
  /\ pending' = pending - 1
  /\ stack' = <<At("js"), At("tail")>>
  /\ UNCHANGED <<open, closing, locked, serialize, queue, handle, opening, objects,
                 raised, excused>>

\* Mutant: Work_AfterClose ends with the callback.
AfterCloseIdle(c) ==
  /\ EventLoop /\ stage[c] = "ran" /\ KindOf[c] = "close"
  /\ stage' = [stage EXCEPT ![c] = "over"]
  /\ pending' = pending - 1
  /\ closing' = FALSE
  /\ open' = (handle = "live")
  /\ stack' = <<At("js")>>
  /\ excused' = (excused \/ handle = "live")
  /\ UNCHANGED <<locked, serialize, queue, handle, opening, objects, raised>>

\* A close that fails leaves the database open, and does not call Process.
AfterClose(c) ==
  /\ EventLoop /\ stage[c] = "ran" /\ KindOf[c] = "close"
  /\ stage' = [stage EXCEPT ![c] = "over"]
  /\ pending' = pending - 1
  /\ closing' = FALSE
  /\ open' = (handle = "live")
  /\ stack' = IF handle = "live" THEN <<At("js")>> ELSE <<At("js"), At("closed")>>
  /\ excused' = (excused \/ handle = "live")
  /\ UNCHANGED <<locked, serialize, queue, handle, opening, objects, raised>>

AfterPrepare(c) ==
  /\ EventLoop /\ stage[c] = "ran" /\ KindOf[c] = "prepare"
  /\ stage' = [stage EXCEPT ![c] = "ending"]
  /\ stack' = <<At("js"), For(IF phase[c] = "failed" THEN "errorEnd" ELSE "end", c)>>
  /\ UNCHANGED <<fields, queue, handle, opening, objects, raised, excused>>

AfterOperation(c) ==
  /\ EventLoop /\ phase[c] = "ran"
  /\ phase' = [phase EXCEPT ![c] = "ending"]
  /\ \E p \in {"end", "errorEnd"} : stack' = <<At("js"), For(p, c)>>
  /\ UNCHANGED <<fields, queue, handle, opening, stage, ops, sqlite, raised, excused>>

-----------------------------------------------------------------------------
Enter(c) ==
  \/ ScheduleReject(c) \/ ScheduleQueue(c) \/ ScheduleBegin(c)
  \/ ObjectBegin(c) \/ ObjectFinalize(c)

JavaScript ==
  \/ \E c \in Calls : Enter(c)
  \/ \E value \in BOOLEAN : SetSerialize(value)
  \/ JsReturn \/ JsThrow \/ JsCatch

End(c) == EndRest(c) \/ EndNext(c) \/ EndFinalize(c)

\* The main thread goes on with the C++ handler it is in.
Handler ==
  \/ ProcessReject \/ ProcessRun \/ ProcessReturn \/ ProcessLoop
  \/ Emit \/ TailCall \/ Finalize \/ DeadCallback
  \/ \E c \in Calls : CloseBegins(c) \/ End(c) \/ FinalizeNext(c)

Work(c) == WorkExec(c) \/ WorkClose(c) \/ WorkPrepare(c) \/ WorkOperation(c)

After(c) == AfterExec(c) \/ AfterClose(c) \/ AfterPrepare(c) \/ AfterOperation(c)

Next ==
  \/ JavaScript \/ Handler \/ NewTurn
  \/ WorkOpen \/ AfterOpen
  \/ \E c \in Calls : Work(c) \/ After(c)

\* Handlers run to their end and every work request is executed.  Every
\* JavaScript function returns, however often it enters the API before: hence
\* one condition for each depth, since the return of an inner function says
\* nothing of the outer one.  libuv delivers the end of a request although
\* timers keep running JavaScript.
Fairness ==
  /\ WF_vars(Handler) /\ WF_vars(JsReturn)
  /\ \A d \in 1..MaxDepth : SF_vars(JsReturn /\ Len(stack) = d)
  /\ WF_vars(WorkOpen) /\ SF_vars(AfterOpen)
  /\ \A c \in Calls : WF_vars(Work(c)) /\ SF_vars(After(c))

Spec == Init /\ [][Next]_vars
FairSpec == Spec /\ Fairness

-----------------------------------------------------------------------------
\* Properties.

\* Every variable has its type; the fields of Database in particular: pending
\* never goes below zero, whatever is taken off it.
TypeOK ==
  /\ open \in BOOLEAN /\ closing \in BOOLEAN /\ locked \in BOOLEAN
  /\ pending \in Nat /\ serialize \in BOOLEAN
  /\ queue \in Seq(Request)
  /\ handle \in {"null", "live"}
  /\ opening \in {"begun", "ran", "over"}
  /\ stage \in [Calls -> Stages]
  /\ phase \in [Calls -> Phases]
  /\ ops \in [Calls -> Nat]
  /\ sqlite \in SUBSET Calls
  /\ stack \in Seq(Frame)
  /\ raised \in BOOLEAN
  /\ excused \in BOOLEAN

Working == {c \in Calls : stage[c] \in InFlight}
Operating == {c \in Calls : phase[c] \in InFlight}

\* Database::pending, which Schedule, Process and close trust, counts exactly
\* the requests that have begun and not ended, an operation that a throwing
\* callback left locked for ever included.
PendingAccurate == pending = Cardinality(Working) + Cardinality(Operating)

\* A call that runs exclusively (exec, loadExtension and close, and what was
\* queued under serialize) shares the database with no other call, whatever
\* was issued from callbacks in the meantime.
Isolation ==
  /\ \A c \in Working : Exclusive(c) => locked
  /\ locked => \A c, d \in Working : c = d

\* The sqlite3 handle outlives what uses it: a call in flight finds the
\* database open and the handle live until a close has taken it, and an
\* unfinished statement or backup keeps it live.  The destructor of a
\* PrepareBaton relies on it: a database that is closed when it runs makes
\* it finalize the statement again.
HandleAlive ==
  /\ \A c \in Working :
       /\ open
       /\ handle = "live" \/ (KindOf[c] = "close" /\ stage[c] \notin {"starting", "begun"})
  /\ sqlite # {} => handle = "live"

\* Database::Interrupt uses the handle on the main thread while a close may
\* be running on another: the fields it tests tell it when it may.
InterruptSafe == open /\ ~closing => handle = "live"

\* Whoever uses the handle, on whichever thread, finds it live.
HandleSafe == HandleAlive /\ InterruptSafe

\* No call is lost or taken twice: the queue holds each waiting call once,
\* and no other.
QueueFaithful ==
  /\ \A c \in Calls :
       stage[c] = "queued" <=> \E i \in 1..Len(queue) : queue[i].call = c
  /\ \A i, j \in 1..Len(queue) : queue[i].call = queue[j].call => i = j

\* When the main thread is idle and calls wait on an open database, a request
\* in flight will call Process, unless an event happened that leaves the
\* queue to itself: a callback threw, a close failed, or a configure ran from
\* the queue exclusively.
StallHasCause ==
  stack = <<>> /\ open /\ queue # <<>> => pending > 0 \/ excused

\* backup.h:84-85 says of databases, statements and backups that their methods
\* can be called safely without callbacks, due to an internal call queue: what
\* an open database with nothing in flight still holds there is never run.
NoStall == stack = <<>> /\ open /\ pending = 0 => queue = <<>>

\* The assertions of Work_BeginExec, Work_BeginClose, Work_BeginPrepare,
\* Work_Wait and the functions of Configure, which a release build drops: a
\* call that begins finds the database open and, if it is exclusive, idle and
\* locked.  Of a closed database nothing is ever requested, only rejected.
BeginAsserts ==
  [][\A c \in Calls :
       stage[c] \in {"new", "queued"} /\ stage'[c] \in {"starting", "begun", "over"} =>
         \/ /\ open /\ handle = "live"
            /\ Exclusive(c) => locked' /\ pending = 0
         \/ ~open /\ locked /\ stage'[c] = "over"]_vars

\* Calls that may not share the database when they begin: the exclusive ones,
\* what was queued under serialize, and what is issued under serialize.
Barred(c) ==
  \/ Exclusive(c)
  \/ stage[c] = "new" /\ serialize
  \/ \E i \in 1..Len(queue) : queue[i].call = c /\ queue[i].exclusive

\* serialize() is a barrier: what is issued under it begins only when every
\* earlier call has ended, and with it every operation of every statement and
\* backup, whichever thread each of them is on.
SerializeBarrier ==
  [][\A c \in Calls :
       stage[c] \in {"new", "queued"} /\ stage'[c] \in {"starting", "begun", "over"}
       /\ open /\ Barred(c) => Working = {} /\ Operating = {}]_vars

OpenFailed == opening = "over" /\ handle = "null" /\ ~locked

\* Every call is answered in the end, unless the database never opened or an
\* event left its queue to itself.
Answered ==
  \A c \in Calls :
    stage[c] # "new" ~> (stage[c] = "over" \/ excused \/ OpenFailed)
=============================================================================
