------------------------------- MODULE Backup -------------------------------
(***************************************************************************)
(* One sqlite3.Backup object (src/src/backup.cc): its initialisation, the  *)
(* queue of its steps and finishes, the flags that tell how it went, and   *)
(* what it holds of SQLite: the sqlite3_backup and the other database.     *)
(*                                                                         *)
(* The main thread is a stack of frames, as in Statement.  The database    *)
(* appears as what begins the initialisation or rejects it, and as what    *)
(* the backup refers to until it is finished (db->Ref, db->Unref).         *)
(***************************************************************************)
EXTENDS Integers, Sequences

CONSTANTS
  Ops,        \* the operations JavaScript may issue, each at most once
  KindOf,     \* the method called
  Silent,     \* the operations without a callback
  NoOp,       \* the operation of a frame that belongs to none
  RetrySets,  \* the values JavaScript may give retryErrors
  MaxDepth,   \* bound on the stack when JavaScript enters the API
  MayThrow    \* whether JavaScript callbacks may throw

Kinds == {"step", "finish"}

\* "busy" stands for SQLITE_BUSY and SQLITE_LOCKED, "error" for any other.
Statuses == {"ok", "busy", "done", "error"}

\* The array that Database#backup gives every backup it makes.
DefaultRetry == {"busy"}

ASSUME OpsAssumption == NoOp \notin Ops /\ Silent \subseteq Ops
ASSUME KindAssumption == KindOf \in [Ops -> Kinds]
ASSUME RetryAssumption == RetrySets \subseteq SUBSET Statuses
ASSUME BoundAssumption == MaxDepth \in Nat /\ MayThrow \in BOOLEAN

VARIABLES
  inited, locked, finished,  \* the fields of Backup
  completed, failed,         \* what its getters tell
  status,     \* Backup::status
  handle,     \* Backup::_handle
  other,      \* whether Backup::_otherDb is open
  queue,      \* Backup::queue
  retry,      \* Backup::retryErrors
  tolerated,  \* StepBaton::retryErrorsSet of each operation
  released,   \* how often the backup has let go of the database (db->Unref)
  creating,   \* progress of the constructor's request
  current,    \* the operation whose work is requested
  working,    \* progress of that work
  collected,  \* whether the object has been garbage collected
  stack,      \* the main thread, innermost frame first
  raised,     \* a JavaScript exception is pending
  issued,     \* history: the operations issued, in order
  answers,    \* history: what the operations answered
  threw,      \* history: whether a callback threw
  manual      \* history: whether automatic finishing was ever disabled

fields == <<inited, locked, finished>>
outcome == <<completed, failed>>
sqlite == <<status, handle, other>>
retries == <<retry, tolerated, manual>>
work == <<current, working>>
object == <<released, creating, collected>>
thread == <<stack, raised, threw>>
history == <<issued, answers>>
vars == <<fields, outcome, sqlite, queue, retries, work, object, thread, history>>

-----------------------------------------------------------------------------
\* Frames of the main thread.

PCs ==
  { "js",        \* JavaScript is running
    "dead",      \* a callback that is not run because an exception is pending
    "end",       \* BACKUP_END of a handler that called a callback itself
    "errorEnd",  \* the same, the callback called by Error()
    "failed",    \* Work_AfterInitialize, after Error()
    "reject",    \* Database::Process, before it destroys the InitializeBaton
    "process",   \* Backup::Process
    "loop",      \* its loop
    "clean",     \* CleanQueue
    "cleaning",  \* its loop
    "release" }  \* FinishAll, after CleanQueue

Frame == [pc : PCs, op : Ops \cup {NoOp}, called : BOOLEAN]

At(p) == [pc |-> p, op |-> NoOp, called |-> FALSE]
Release(o) == [At("release") EXCEPT !.op = o]
Cleaning(b) == [At("cleaning") EXCEPT !.called = b]

\* TRY_CATCH_CALL and EMIT_EVENT: with an exception pending nothing is run.
Callback == IF raised THEN At("dead") ELSE At("js")

\* The handlers that TRY_CATCH_CALL leaves when the callback throws.
Skippable == {"end", "cleaning"}

Unwound ==
  IF Tail(stack) # <<>> /\ Head(Tail(stack)).pc \in Skippable
  THEN Tail(Tail(stack))
  ELSE Tail(stack)

InPc(p) == stack # <<>> /\ Head(stack).pc = p
Js == InPc("js") /\ ~raised
MayEnter == Js /\ Len(stack) < MaxDepth /\ ~collected
EventLoop == stack = <<>> /\ ~raised

\* An operation that has no callback ends without telling anyone.
Call(o) == IF o \in Silent THEN <<>> ELSE <<Callback>>

Says == {"ok", "done", "error", "refused"}

\* A callback that is not run tells nothing.
Tell(o, says) ==
  answers' =
    IF raised /\ o \notin Silent THEN answers ELSE Append(answers, [op |-> o, says |-> says])

Init ==
  /\ inited = FALSE /\ locked = TRUE /\ finished = FALSE
  /\ completed = FALSE /\ failed = FALSE
  /\ status = "ok" /\ handle = "none" /\ other = FALSE
  /\ queue = <<>>
  /\ retry = DefaultRetry /\ tolerated = [o \in Ops |-> {}] /\ manual = FALSE
  /\ current = NoOp /\ working = "idle"
  /\ released = 0 /\ creating = "new" /\ collected = FALSE
  /\ stack = <<At("js")>> /\ raised = FALSE /\ threw = FALSE
  /\ issued = <<>> /\ answers = <<>>

-----------------------------------------------------------------------------
\* FinishAll and FinishSqlite.

\* Mutant: finishing marks every backup as failed.
SettleFailed == failed' = TRUE /\ finished' = TRUE

\* Mutant: FinishAll does not set finished.
SettleOpen == failed' = (failed \/ ~completed) /\ UNCHANGED finished

\* A backup that has not completed by now has failed.
Settle ==
  /\ failed' = (failed \/ ~completed)
  /\ finished' = TRUE

FinishSqlite == handle' = "none" /\ other' = FALSE

\* FinishAll on behalf of Work_AfterInitialize, which ends with BACKUP_END,
\* and of the destructor of the InitializeBaton.
FinishFailed ==
  /\ InPc("failed") \/ InPc("reject")
  /\ Settle
  /\ stack' = <<At("clean"), Release(NoOp)>>
              \o (IF InPc("failed") THEN <<At("errorEnd")>> ELSE <<>>) \o Tail(stack)
  /\ UNCHANGED <<inited, locked, completed, sqlite, queue, retries, work, object, raised,
                 threw, history>>

\* Mutant: the callback is taken from a baton although there is none.
FinishTellAlways(o) ==
  /\ Tell(o, "ok")
  /\ stack' = Call(o) \o <<At("end")>> \o Tail(stack)

\* FinishAll calls nobody; Work_AfterFinish goes on with finish()'s callback.
FinishTell(o) ==
  \/ /\ o = NoOp
     /\ stack' = Tail(stack)
     /\ UNCHANGED answers
  \/ /\ o # NoOp
     /\ Tell(o, "ok")
     /\ stack' = Call(o) \o <<At("end")>> \o Tail(stack)

\* After CleanQueue: FinishSqlite and db->Unref().
FinishRelease ==
  /\ InPc("release")
  /\ FinishSqlite
  /\ released' = released + 1
  /\ FinishTell(Head(stack).op)
  /\ UNCHANGED <<fields, outcome, status, queue, retries, work, creating, collected, raised,
                 threw, issued>>

\* ~Backup: neither JavaScript nor a baton refers to the object any more.
Collect ==
  /\ EventLoop /\ creating = "over" /\ ~collected
  /\ queue = <<>> /\ current = NoOp
  /\ collected' = TRUE
  /\ \/ /\ finished
        /\ UNCHANGED <<finished, failed, handle, other, released>>
     \/ /\ ~finished
        /\ Settle /\ FinishSqlite
        /\ released' = released + 1
  /\ UNCHANGED <<inited, locked, completed, status, queue, retries, work, creating, thread,
                 history>>

-----------------------------------------------------------------------------
\* The constructor, and the database's answer to it.

Construct ==
  /\ MayEnter /\ creating = "new"
  /\ creating' \in {"scheduled", "begun"}
  /\ UNCHANGED <<fields, outcome, sqlite, queue, retries, work, released, collected, thread,
                 history>>

\* A closed database destroys the baton, whose destructor finishes the
\* backup, and then calls back.
ConstructRejected ==
  /\ MayEnter /\ creating = "new"
  /\ creating' = "over"
  /\ Settle
  /\ released' = released + 1
  /\ stack' = <<Callback>> \o stack
  /\ UNCHANGED <<inited, locked, completed, sqlite, queue, retries, work, collected, raised,
                 threw, history>>

\* Database::Process takes the call from its queue.
CreateBegin ==
  /\ creating = "scheduled"
  /\ creating' = "begun"
  /\ UNCHANGED <<fields, outcome, sqlite, queue, retries, work, released, collected, thread,
                 history>>

\* Or, on a closed database, it calls back and then destroys the baton.
CreateRejected ==
  /\ creating = "scheduled"
  /\ EventLoop \/ MayEnter
  /\ creating' = "over"
  /\ stack' = <<Callback, At("reject")>> \o stack
  /\ UNCHANGED <<fields, outcome, sqlite, queue, retries, work, released, collected, raised,
                 threw, history>>

\* sqlite3_open may fail.  So may sqlite3_backup_init, which answers NULL and
\* leaves the status alone.
WorkInitialize ==
  /\ creating = "begun"
  /\ creating' = "ran"
  /\ \/ status' = "error" /\ UNCHANGED <<handle, other>>
     \/ other' = TRUE /\ handle' \in {"none", "live"} /\ UNCHANGED status
  /\ UNCHANGED <<fields, outcome, queue, retries, work, released, collected, thread, history>>

AfterInitialize ==
  /\ EventLoop /\ creating = "ran"
  /\ creating' = "over"
  /\ inited' = (status = "ok")
  /\ stack' = <<At("js"), At(IF status = "ok" THEN "end" ELSE "failed")>>
  /\ UNCHANGED <<locked, finished, outcome, sqlite, queue, retries, work, released, collected,
                 raised, threw, history>>

-----------------------------------------------------------------------------
\* The queue.

\* Mutant: BACKUP_BEGIN does not lock the backup.
RunUnlocked(o) == UNCHANGED locked /\ current' = o /\ working' = "begun"

\* BACKUP_BEGIN.
Run(o) == locked' = TRUE /\ current' = o /\ working' = "begun"

\* Step() copies the array into its baton; SetRetry() may change it later.
Enter(o) ==
  /\ MayEnter /\ creating # "new" /\ \A i \in 1..Len(issued) : issued[i] # o
  /\ issued' = Append(issued, o)
  /\ tolerated' = IF KindOf[o] = "step" THEN [tolerated EXCEPT ![o] = retry] ELSE tolerated
  /\ UNCHANGED <<inited, finished, outcome, sqlite, retry, manual, object, raised, threw,
                 answers>>

\* Mutant: an operation issued from a callback of another is not queued.
MustQueueUnlocked == ~inited \/ queue # <<>>

MustQueue == ~inited \/ locked \/ queue # <<>>

ScheduleRefuse(o) ==
  /\ Enter(o) /\ finished
  /\ queue' = Append(queue, o)
  /\ stack' = <<At("clean")>> \o stack
  /\ UNCHANGED <<locked, work>>

ScheduleQueue(o) ==
  /\ Enter(o) /\ ~finished /\ MustQueue
  /\ queue' = Append(queue, o)
  /\ UNCHANGED <<locked, work, stack>>

ScheduleRun(o) ==
  /\ Enter(o) /\ ~finished /\ ~MustQueue
  /\ Run(o)
  /\ UNCHANGED <<queue, stack>>

SetRetry ==
  /\ MayEnter /\ creating # "new"
  /\ retry' \in RetrySets
  /\ manual' = (manual \/ retry' = {} \/ "done" \in retry')
  /\ UNCHANGED <<fields, outcome, sqlite, queue, tolerated, work, object, thread, history>>

\* Backup::Process looks at finished once, when it is entered.
ProcessClean ==
  /\ InPc("process") /\ finished /\ queue # <<>>
  /\ stack' = <<At("clean")>> \o Tail(stack)
  /\ UNCHANGED <<fields, outcome, sqlite, queue, retries, work, object, raised, threw, history>>

\* Mutant: Process does not look at finished.
InLoopAlways == InPc("loop") \/ InPc("process")

InLoop == InPc("loop") \/ (InPc("process") /\ ~(finished /\ queue # <<>>))

ProcessRun ==
  /\ InLoop /\ inited /\ ~locked /\ queue # <<>>
  /\ queue' = Tail(queue)
  /\ Run(Head(queue))
  /\ stack' = <<At("loop")>> \o Tail(stack)
  /\ UNCHANGED <<inited, finished, outcome, sqlite, retries, object, raised, threw, history>>

ProcessReturn ==
  /\ InLoop /\ ~(inited /\ ~locked /\ queue # <<>>)
  /\ stack' = Tail(stack)
  /\ UNCHANGED <<fields, outcome, sqlite, queue, retries, work, object, raised, threw, history>>

\* CleanQueue of a backup never initialised deletes what is queued.
CleanEnter ==
  /\ InPc("clean")
  /\ \/ /\ inited /\ queue # <<>>
        /\ stack' = <<Cleaning(FALSE)>> \o Tail(stack)
        /\ UNCHANGED queue
     \/ /\ ~(inited /\ queue # <<>>)
        /\ queue' = <<>>
        /\ stack' = Tail(stack)
  /\ UNCHANGED <<fields, outcome, sqlite, retries, work, object, raised, threw, history>>

CleanCall ==
  /\ InPc("cleaning") /\ queue # <<>>
  /\ queue' = Tail(queue)
  /\ Tell(Head(queue), "refused")
  /\ stack' = Call(Head(queue)) \o
              <<Cleaning(Head(stack).called \/ Head(queue) \notin Silent)>> \o Tail(stack)
  /\ UNCHANGED <<fields, outcome, sqlite, retries, work, object, raised, threw, issued>>

\* When no callback could be called the error is emitted as an event.
CleanReturn ==
  /\ InPc("cleaning") /\ queue = <<>>
  /\ stack' = (IF Head(stack).called THEN <<>> ELSE <<Callback>>) \o Tail(stack)
  /\ UNCHANGED <<fields, outcome, sqlite, queue, retries, work, object, raised, threw, history>>

-----------------------------------------------------------------------------
\* The work of an operation, on the thread pool.

Working(o) ==
  /\ current = o /\ working = "begun"
  /\ working' = "ran"
  /\ UNCHANGED <<fields, outcome, queue, retries, current, object, thread, history>>

\* sqlite3_backup_step answers the same for ever once it is done or has met
\* an error other than SQLITE_BUSY and SQLITE_LOCKED.
StepAnswers ==
  IF handle = "live" /\ status \notin {"done", "error"} THEN Statuses ELSE {status}

\* Mutant: a step that completes the backup does not finish it.
FatalNotDone(o, s) == s \notin {"ok", "done"} /\ tolerated[o] # {} /\ s \notin tolerated[o]

\* Mutant: the set of errors to retry is not consulted.
FatalAlways(o, s) == s # "ok" /\ tolerated[o] # {}

\* Whether a step that ends with status s finishes the backup.
Fatal(o, s) == s # "ok" /\ tolerated[o] # {} /\ s \notin tolerated[o]

WorkStep(o) ==
  /\ KindOf[o] = "step" /\ Working(o)
  /\ \E s \in StepAnswers :
       /\ status' = s
       /\ IF Fatal(o, s) THEN FinishSqlite ELSE UNCHANGED <<handle, other>>

WorkFinish(o) ==
  /\ KindOf[o] = "finish" /\ Working(o)
  /\ FinishSqlite
  /\ UNCHANGED status

-----------------------------------------------------------------------------
\* The end of the work, on the main thread.

Ended(o) ==
  /\ EventLoop /\ current = o /\ working = "ran"
  /\ current' = NoOp /\ working' = "idle"
  /\ UNCHANGED <<inited, locked, sqlite, queue, retries, object, raised, threw, issued>>

\* Mutant: only an error that SQLite will not retry counts as a failure.
JudgeError ==
  /\ completed' = (completed \/ status = "done")
  /\ failed' = (failed \/ status = "error")

\* completed and failed, as a step leaves them.
Judge ==
  /\ completed' = (completed \/ status = "done")
  /\ failed' = (failed \/ (status # "done" /\ handle = "none"))

Succeeds == status \in {"ok", "done"}

AfterStep(o) ==
  /\ KindOf[o] = "step" /\ Ended(o)
  /\ Judge
  /\ \/ /\ Succeeds
        /\ Tell(o, IF status = "done" THEN "done" ELSE "ok")
        /\ stack' = Call(o) \o <<At("end")>>
     \/ /\ ~Succeeds
        /\ Tell(o, "error")
        /\ stack' = <<At("js"), At("errorEnd")>>
  /\ UNCHANGED finished

AfterFinish(o) ==
  /\ KindOf[o] = "finish" /\ Ended(o)
  /\ Settle
  /\ stack' = <<At("clean"), Release(o)>>
  /\ UNCHANGED <<completed, answers>>

\* Mutant: BACKUP_END does not look at the queue.
EndIdle ==
  /\ InPc("end") \/ InPc("errorEnd")
  /\ locked' = FALSE
  /\ stack' = Tail(stack)
  /\ UNCHANGED <<inited, finished, outcome, sqlite, queue, retries, work, object, raised,
                 threw, history>>

\* BACKUP_END.
End ==
  /\ InPc("end") \/ InPc("errorEnd")
  /\ locked' = FALSE
  /\ stack' = <<At("process")>> \o Tail(stack)
  /\ UNCHANGED <<inited, finished, outcome, sqlite, queue, retries, work, object, raised,
                 threw, history>>

-----------------------------------------------------------------------------
rest == <<fields, outcome, sqlite, queue, retries, work, object, history>>

JsReturn == Js /\ stack' = Tail(stack) /\ UNCHANGED <<raised, threw, rest>>

JsThrow ==
  /\ MayThrow /\ InPc("js")
  /\ stack' = Unwound /\ raised' = TRUE /\ threw' = TRUE
  /\ UNCHANGED rest

JsCatch == InPc("js") /\ raised /\ raised' = FALSE /\ UNCHANGED <<stack, threw, rest>>

DeadCallback == InPc("dead") /\ stack' = Unwound /\ UNCHANGED <<raised, threw, rest>>

\* An event of another object runs JavaScript.
NewTurn ==
  /\ stack = <<>>
  /\ stack' = <<At("js")>> /\ raised' = FALSE
  /\ UNCHANGED <<threw, rest>>

Schedule(o) == ScheduleRefuse(o) \/ ScheduleQueue(o) \/ ScheduleRun(o)

Handler ==
  \/ ProcessClean \/ ProcessRun \/ ProcessReturn
  \/ CleanEnter \/ CleanCall \/ CleanReturn
  \/ FinishFailed \/ FinishRelease \/ End \/ DeadCallback

Create == CreateBegin \/ CreateRejected
Work(o) == WorkStep(o) \/ WorkFinish(o)
After(o) == AfterStep(o) \/ AfterFinish(o)

Next ==
  \/ Construct \/ ConstructRejected \/ Create \/ WorkInitialize \/ AfterInitialize
  \/ Handler \/ SetRetry \/ Collect \/ NewTurn \/ JsReturn \/ JsThrow \/ JsCatch
  \/ \E o \in Ops : Schedule(o) \/ Work(o) \/ After(o)

Spec == Init /\ [][Next]_vars

-----------------------------------------------------------------------------
\* Properties.

\* Every variable has its type.
TypeOK ==
  /\ {inited, locked, finished, completed, failed, other} \subseteq BOOLEAN
  /\ {collected, raised, threw, manual} \subseteq BOOLEAN
  /\ status \in Statuses /\ handle \in {"none", "live"}
  /\ queue \in Seq(Ops)
  /\ retry \in SUBSET Statuses /\ tolerated \in [Ops -> SUBSET Statuses]
  /\ released \in Nat
  /\ creating \in {"new", "scheduled", "begun", "ran", "over"}
  /\ current \in Ops \cup {NoOp} /\ working \in {"idle", "begun", "ran"}
  /\ stack \in Seq(Frame)
  /\ issued \in Seq(Ops) /\ answers \in Seq([op : Ops, says : Says])

\* The assertions of BACKUP_BEGIN, for as long as the work lasts: whatever
\* callbacks issue meanwhile, nothing finishes the backup or starts a second
\* operation under the one on the thread pool.
WorkFindsBackup == working # "idle" => locked /\ inited /\ ~finished

\* backup.cc:346 asserts that a backup is finished once.  Once the handler that
\* finishes it has returned, or the object is collected, it has let go of the
\* database once and holds nothing of SQLite, whichever callbacks threw.
Finishing == \E i \in 1..Len(stack) : stack[i].pc \in {"failed", "reject", "release"}

ReleasedOnce ==
  /\ released <= 1
  /\ (finished /\ ~Finishing) \/ collected =>
       released = 1 /\ handle = "none" /\ ~other

\* sqlite3_backup_init answered NULL: no sqlite3_backup, and no error.
Void == inited /\ status = "ok" /\ handle = "none"

\* The two flags never contradict each other or what SQLite answered, a backup
\* that is finished has one of them, and one that has neither can go on: it
\* still has its sqlite3_backup (unless it never had one) and other database.
OutcomeAgrees ==
  /\ ~(completed /\ failed)
  /\ working = "idle" => (completed <=> status = "done")
  /\ finished => completed \/ failed
  /\ inited /\ ~completed /\ ~failed /\ working # "ran" /\ ~Finishing =>
       other /\ (handle = "live" \/ Void)

\* backup.h:74 and the test "setting retryErrors enables automatic finishing":
\* with automatic finishing, a backup that has completed or failed holds
\* nothing of SQLite, though nobody has called finish().  A void backup is the
\* exception: it fails at its first step and keeps the other database open.
FinishesItself ==
  ~manual /\ (completed \/ failed) => handle = "none" /\ (other => Void)

\* The getter idle.
Idle == inited /\ ~locked /\ queue = <<>>

\* Nothing is under way that would take a queued operation up.
Quiet == stack = <<>> /\ creating = "over" /\ working = "idle"

\* backup.h:51: an idle backup, even one that is asked from a callback, has no
\* operation in progress or queued, so that everything issued has been answered.
\* So has one with nothing under way: nothing is left in the queue for good.
\* (A callback that throws may keep BACKUP_END from being reached or cost the
\* operations refused after it their answer; the first part holds even then.)
IdleHonest ==
  /\ Idle => current = NoOp
  /\ (Idle \/ Quiet) /\ ~threw =>
       /\ queue = <<>>
       /\ inited => \A i \in 1..Len(issued) : \E j \in 1..Len(answers) : answers[j].op = issued[i]

\* Each operation is answered at most once, those that are carried out in the
\* order in which they were issued, and those after a finish are refused.
Position(o) == CHOOSE i \in 1..Len(issued) : issued[i] = o

AnsweredInOrder ==
  \A i, j \in 1..Len(answers) : i < j =>
    /\ answers[i].op # answers[j].op
    /\ "refused" \notin {answers[i].says, answers[j].says} =>
         Position(answers[i].op) < Position(answers[j].op)
    /\ KindOf[answers[i].op] = "finish" /\ answers[i].says = "ok" =>
         answers[j].says = "refused"

\* backup.h:76: an error that the caller of the step tolerated is not a failure
\* and the sqlite3_backup is still there for another try, even if JavaScript
\* has changed retryErrors since.  (SQLITE_DONE is no error, though JavaScript
\* may put it in the array: a backup that completed earlier may be finished.)
RetryContinues ==
  [][\A o \in Ops :
       AfterStep(o) /\ ~failed /\ status \in tolerated[o] \ {"done"} /\ ~Void =>
         ~failed' /\ handle = "live"]_vars
=============================================================================
