------------------------------- MODULE Events -------------------------------
(***************************************************************************)
(* The trace event of a Database: the listeners that lib/sqlite3.js keeps, *)
(* the configure("trace") calls with which it switches the hook of SQLite, *)
(* the Async object (async.h) that carries the events from the thread pool *)
(* to the main thread, and what close does to them.  The profile event has *)
(* the same code (RegisterProfileCallback).                                *)
(*                                                                         *)
(* The scheduler of Database is abstracted to what a configure meets: it   *)
(* runs at once, waits in the queue, or is rejected.                       *)
(***************************************************************************)
EXTENDS Integers, Sequences

CONSTANTS
  MaxEvents,  \* bound on the statements that SQLite reports
  MaxOps,     \* bound on the calls that change listeners
  MaxCloses,  \* bound on the calls of close()
  MaxDepth,   \* bound on the stack when JavaScript enters the API
  MayThrow    \* whether JavaScript callbacks may throw

ASSUME EventBounds ==
  {MaxEvents, MaxOps, MaxCloses, MaxDepth} \subseteq Nat /\ MayThrow \in BOOLEAN

VARIABLES
  life,       \* Database::open, locked and closing, as configure() meets them
  listeners,  \* the listeners of the event
  waiting,    \* the configure("trace") calls in Database::queue
  hook,       \* whether the hook is registered with SQLite
  trace,      \* Database::debug_trace: the number of the object, 0 for NULL
  data,       \* Async::data of that object
  signal,     \* a wakeup by uv_async_send not yet delivered
  gone,       \* the objects on which uv_close was called
  crashed,    \* the process was aborted
  stack,      \* the main thread, innermost frame first
  raised,     \* a JavaScript exception is pending
  sent,       \* history: how many statements SQLite reported
  heard,      \* history: the events that listeners got
  missed,     \* history: the events that nobody got
  made,       \* history: how many objects were made
  ops, closes,  \* history: the calls counted by MaxOps and MaxCloses
  busyClosed, \* history: a close failed while the hook was registered
  nested,     \* history: finish() was called from inside listener()
  twice,      \* history: and that listener() was one that finish() had called
  paired      \* history: there was never more than one listener, and each was
              \* added and removed by a call of its own that calls configure

async == <<trace, data, signal, gone, made>>
events == <<sent, heard, missed>>
counts == <<ops, closes>>
vars == <<life, listeners, waiting, hook, async, crashed, stack, raised, events, counts,
          busyClosed, nested, twice, paired>>

-----------------------------------------------------------------------------
\* Frames of the main thread.

PCs ==
  { "js",       \* JavaScript is running
    "dead",     \* a callback that is not run because an exception is pending
    "listener", \* Async::listener, with the items it has still to pass on
    "uvclose",  \* Async::finish of an object, after it called listener
    "tail",     \* Work_AfterOpen or Work_AfterClose, of which Process() remains
    "process" } \* Database::Process

Frame == [pc : PCs, items : Seq(1..MaxEvents), of : Nat]

At(p) == [pc |-> p, items |-> <<>>, of |-> 0]
Listener(items) == [At("listener") EXCEPT !.items = items]
UvClose(object) == [At("uvclose") EXCEPT !.of = object]

\* TRY_CATCH_CALL and EMIT_EVENT: with an exception pending nothing is run.
Callback == IF raised THEN At("dead") ELSE At("js")

\* The stack when a callback ends with an exception: TRY_CATCH_CALL leaves the
\* handler that called it.
Unwound ==
  IF Tail(stack) # <<>> /\ Head(Tail(stack)).pc = "tail"
  THEN Tail(Tail(stack))
  ELSE Tail(stack)

InPc(p) == stack # <<>> /\ Head(stack).pc = p
MayEnter == InPc("js") /\ ~raised /\ Len(stack) < MaxDepth

Init ==
  /\ life = "opening"
  /\ listeners = 0 /\ waiting = 0
  /\ hook = FALSE /\ trace = 0 /\ data = <<>> /\ signal = FALSE /\ gone = {} /\ made = 0
  /\ crashed = FALSE
  /\ stack = <<At("js")>> /\ raised = FALSE
  /\ sent = 0 /\ heard = <<>> /\ missed = {}
  /\ ops = 0 /\ closes = 0
  /\ busyClosed = FALSE /\ nested = FALSE /\ twice = FALSE /\ paired = TRUE

-----------------------------------------------------------------------------
\* RegisterTraceCallback, with the frames below it.

HookOn(below) ==
  /\ trace = 0
  /\ trace' = made + 1 /\ made' = made + 1
  /\ hook' = TRUE
  /\ data' = <<>> /\ signal' = FALSE
  /\ stack' = below
  /\ UNCHANGED <<gone, nested, twice>>

\* finish() is called from inside listener(), or from inside another finish().
Overlap ==
  /\ nested' = (nested \/ \E i \in 1..Len(stack) : stack[i].pc \in {"listener", "uvclose"})
  /\ twice' = (twice \/ \E i \in 1..Len(stack) : stack[i].pc = "uvclose")

\* Mutant: finish() closes the watcher without calling listener().
FinishSilent(below) ==
  /\ data' = <<>>
  /\ stack' = <<UvClose(trace)>> \o below
  /\ Overlap
  /\ UNCHANGED <<trace, signal, gone, made>>

\* debug_trace->finish(): listener() passes on what is there, then uv_close.
Finish(below) ==
  /\ data' = <<>>
  /\ stack' = <<Listener(data), UvClose(trace)>> \o below
  /\ Overlap
  /\ UNCHANGED <<trace, signal, gone, made>>

\* Mutant: the hook stays registered.
HookOffKeep(below) == trace # 0 /\ Finish(below) /\ UNCHANGED hook

HookOff(below) == trace # 0 /\ hook' = FALSE /\ Finish(below)

\* Mutant: configure only ever adds the hook.
ToggleAdd(below) ==
  \/ HookOn(below)
  \/ trace # 0 /\ stack' = below /\ UNCHANGED <<hook, async, nested, twice>>

\* What configure was given as its value does not matter.
Toggle(below) == HookOn(below) \/ HookOff(below)

\* uv_close and debug_trace = NULL.  libuv aborts when a handle that is being
\* closed is closed again.
CloseWatcher ==
  /\ InPc("uvclose")
  /\ crashed' = (Head(stack).of \in gone)
  /\ gone' = gone \cup {Head(stack).of}
  /\ trace' = 0
  /\ signal' = FALSE
  /\ stack' = Tail(stack)
  /\ UNCHANGED <<life, listeners, waiting, hook, data, made, raised, events, counts,
                 busyClosed, nested, twice, paired>>

-----------------------------------------------------------------------------
\* lib/sqlite3.js: the methods of EventEmitter that call configure.

\* A closed database rejects configure with an error event.
Configure ==
  \/ /\ life = "closed"
     /\ stack' = <<Callback, At("process")>> \o stack
     /\ UNCHANGED <<waiting, hook, async, nested, twice>>
  \/ /\ life # "closed"
     /\ waiting' = waiting + 1
     /\ stack' = <<At("process")>> \o stack
     /\ UNCHANGED <<hook, async, nested, twice>>
  \/ /\ life = "open"
     /\ Toggle(<<At("process")>> \o stack)
     /\ UNCHANGED waiting

NoConfigure == UNCHANGED <<waiting, hook, async, stack, nested, twice>>

Change(n) ==
  /\ MayEnter /\ ops < MaxOps
  /\ ops' = ops + 1
  /\ listeners' = n
  /\ UNCHANGED <<life, crashed, raised, events, closes, busyClosed>>

\* on(), addListener() and once().
AddListener ==
  /\ Change(listeners + 1)
  /\ paired' = (paired /\ listeners = 0)
  /\ Configure

\* removeListener(), also by a listener of once() when it is called.
RemoveListener ==
  /\ Change(IF listeners = 0 THEN 0 ELSE listeners - 1)
  /\ paired' = (paired /\ listeners # 0)
  /\ IF listeners <= 1 THEN Configure ELSE NoConfigure

RemoveAllListeners ==
  /\ Change(0)
  /\ paired' = (paired /\ listeners # 0)
  /\ Configure

\* removeAllListeners() without a type.
RemoveEverything ==
  /\ Change(0)
  /\ paired' = (paired /\ listeners = 0)
  /\ NoConfigure

\* inherits() copies off() and prependListener() as EventEmitter has them, so
\* that they call neither the methods above nor configure.
Off ==
  /\ Change(IF listeners = 0 THEN 0 ELSE listeners - 1)
  /\ paired' = (paired /\ listeners = 0)
  /\ NoConfigure

PrependListener ==
  /\ Change(listeners + 1)
  /\ paired' = FALSE
  /\ NoConfigure

\* Mutant: Process takes a call from an empty queue.
MayToggleEmpty == life = "open"

MayToggle == life = "open" /\ waiting > 0

\* Database::Process runs a configure that waited, or is busy, or rejects all
\* that waited with an error event.
ProcessToggle ==
  /\ InPc("process") /\ MayToggle
  /\ waiting' = waiting - 1
  /\ Toggle(stack)
  /\ UNCHANGED <<life, listeners, crashed, raised, events, counts, busyClosed, paired>>

ProcessReject ==
  /\ InPc("process") /\ life = "closed" /\ waiting > 0
  /\ waiting' = 0
  /\ stack' = <<Callback>> \o Tail(stack)
  /\ UNCHANGED <<life, listeners, hook, async, crashed, raised, events, counts, busyClosed,
                 nested, twice, paired>>

ProcessReturn ==
  /\ InPc("process") /\ ~(life = "closed" /\ waiting > 0)
  /\ stack' = Tail(stack)
  /\ UNCHANGED <<life, listeners, waiting, hook, async, crashed, raised, events, counts,
                 busyClosed, nested, twice, paired>>

-----------------------------------------------------------------------------
\* The events.

\* Mutant: add() without send().
ReportQuietly ==
  /\ life = "open" /\ hook /\ sent < MaxEvents
  /\ sent' = sent + 1
  /\ crashed' = (trace = 0)
  /\ data' = IF trace = 0 THEN data ELSE Append(data, sent + 1)
  /\ UNCHANGED <<life, listeners, waiting, hook, trace, signal, gone, made, stack, raised,
                 heard, missed, counts, busyClosed, nested, twice, paired>>

\* TraceCallback on the thread pool: debug_trace->send().
Report ==
  /\ life = "open" /\ hook /\ sent < MaxEvents
  /\ sent' = sent + 1
  /\ crashed' = (trace = 0)
  /\ data' = IF trace = 0 THEN data ELSE Append(data, sent + 1)
  /\ signal' = (trace # 0)
  /\ UNCHANGED <<life, listeners, waiting, hook, trace, gone, made, stack, raised, heard,
                 missed, counts, busyClosed, nested, twice, paired>>

\* Mutant: listener() copies the vector instead of swapping it.
SwapCopy == UNCHANGED data

Swap == data' = <<>>

\* libuv calls listener(), whether or not N-API still holds an exception.
Wake ==
  /\ stack = <<>> /\ signal /\ trace # 0
  /\ signal' = FALSE
  /\ Swap
  /\ stack' = <<Listener(data)>>
  /\ UNCHANGED <<life, listeners, waiting, hook, trace, gone, made, crashed, raised, events,
                 counts, busyClosed, nested, twice, paired>>

\* TraceCallback on the main thread emits one event.
Emit ==
  /\ InPc("listener") /\ Head(stack).items # <<>>
  /\ LET item == Head(Head(stack).items)
         below == <<Listener(Tail(Head(stack).items))>> \o Tail(stack)
     IN  \/ /\ listeners > 0 /\ ~raised
            /\ heard' = Append(heard, item)
            /\ stack' = <<At("js")>> \o below
            /\ UNCHANGED missed
         \/ /\ listeners = 0 \/ raised
            /\ missed' = missed \cup {item}
            /\ stack' = below
            /\ UNCHANGED heard
  /\ UNCHANGED <<life, listeners, waiting, hook, async, crashed, raised, sent, counts,
                 busyClosed, nested, twice, paired>>

ListenerReturn ==
  /\ InPc("listener") /\ Head(stack).items = <<>>
  /\ stack' = Tail(stack)
  /\ UNCHANGED <<life, listeners, waiting, hook, async, crashed, raised, events, counts,
                 busyClosed, nested, twice, paired>>

-----------------------------------------------------------------------------
\* The database.

Open ==
  /\ stack = <<>> /\ life = "opening"
  /\ \/ life' = "open" /\ stack' = <<Callback, At("tail")>>
     \/ life' = "failed" /\ stack' = <<Callback>>
  /\ UNCHANGED <<listeners, waiting, hook, async, crashed, raised, events, counts, busyClosed,
                 nested, twice, paired>>

\* The hook itself stays registered with SQLite.
RemoveCallbacks ==
  \/ trace = 0 /\ UNCHANGED <<async, stack, nested, twice>>
  \/ trace # 0 /\ Finish(stack)

\* close(), when nothing is in flight, or Process, when it comes to its turn.
BeginClose ==
  /\ life = "open" /\ closes < MaxCloses
  /\ MayEnter \/ InPc("process") \/ stack = <<>>
  /\ closes' = closes + 1
  /\ life' = "closing"
  /\ RemoveCallbacks
  /\ UNCHANGED <<listeners, waiting, hook, crashed, raised, events, ops, busyClosed, paired>>

\* SQLite closes, which ends the hook, or answers SQLITE_BUSY.
AfterClose ==
  /\ stack = <<>> /\ life = "closing"
  /\ \/ /\ life' = "closed" /\ hook' = FALSE
        /\ stack' = <<Callback, At("tail")>>
        /\ UNCHANGED busyClosed
     \/ /\ life' = "open" /\ busyClosed' = (busyClosed \/ hook)
        /\ stack' = <<Callback>>
        /\ UNCHANGED hook
  /\ UNCHANGED <<listeners, waiting, async, crashed, raised, events, counts, nested, twice, paired>>

\* Work_AfterOpen and Work_AfterClose end with Process.
TailCall ==
  /\ InPc("tail")
  /\ stack' = <<At("process")>> \o Tail(stack)
  /\ UNCHANGED <<life, listeners, waiting, hook, async, crashed, raised, events, counts,
                 busyClosed, nested, twice, paired>>

\* Another handler ends with Process.
ProcessTurn ==
  /\ stack = <<>> /\ waiting > 0 /\ life \in {"open", "closed"}
  /\ stack' = <<At("process")>>
  /\ UNCHANGED <<life, listeners, waiting, hook, async, crashed, raised, events, counts,
                 busyClosed, nested, twice, paired>>

-----------------------------------------------------------------------------
rest == <<life, listeners, waiting, hook, async, crashed, events, counts, busyClosed,
          nested, twice, paired>>

JsReturn == InPc("js") /\ ~raised /\ stack' = Tail(stack) /\ UNCHANGED <<raised, rest>>

\* listener() goes on with the next item although the callback threw.
JsThrow ==
  /\ MayThrow /\ InPc("js")
  /\ stack' = Unwound /\ raised' = TRUE
  /\ UNCHANGED rest

JsCatch == InPc("js") /\ raised /\ raised' = FALSE /\ UNCHANGED <<stack, rest>>

DeadCallback == InPc("dead") /\ stack' = Unwound /\ UNCHANGED <<raised, rest>>

\* An event of another object runs JavaScript, after N-API has reported the
\* exception it held.
NewTurn ==
  /\ stack = <<>>
  /\ stack' = <<At("js")>> /\ raised' = FALSE
  /\ UNCHANGED rest

Handler ==
  \/ CloseWatcher \/ ProcessToggle \/ ProcessReject \/ ProcessReturn
  \/ Emit \/ ListenerReturn \/ DeadCallback \/ TailCall

Step ==
  \/ AddListener \/ RemoveListener \/ RemoveAllListeners \/ RemoveEverything
  \/ Off \/ PrependListener
  \/ Report \/ Wake \/ Handler
  \/ Open \/ BeginClose \/ AfterClose \/ ProcessTurn
  \/ NewTurn \/ JsReturn \/ JsThrow \/ JsCatch

Next == ~crashed /\ Step

\* Handlers go on, JavaScript functions return at whatever depth they were
\* called, and libuv delivers a wakeup when the main thread is idle.
Fairness ==
  /\ WF_vars(Handler) /\ SF_vars(Wake)
  /\ \A d \in 1..(MaxDepth + 2) : SF_vars((JsReturn \/ JsThrow) /\ Len(stack) = d)

Spec == Init /\ [][Next]_vars
FairSpec == Spec /\ Fairness

-----------------------------------------------------------------------------
\* Properties.

\* Every variable has its type.
TypeOK ==
  /\ life \in {"opening", "open", "failed", "closing", "closed"}
  /\ {listeners, waiting, trace, sent, made, ops, closes} \subseteq Nat
  /\ {hook, signal, crashed, raised, busyClosed, nested, twice, paired} \subseteq BOOLEAN
  /\ data \in Seq(1..MaxEvents) /\ heard \in Seq(1..MaxEvents)
  /\ gone \subseteq 1..made /\ missed \subseteq 1..MaxEvents
  /\ stack \in Seq(Frame)

\* The hook never reports into a removed object and no watcher is closed
\* twice, but for two causes: a close that failed leaves the hook registered
\* although it removed the object, and a listener that finish() calls may
\* switch the hook again before debug_trace is NULL.
CrashHasCause == crashed => busyClosed \/ twice

\* test/trace.test.js: a program that has one listener at a time, adds it with
\* on() or once() and removes it with a call of its own that names the event, but
\* not with off(), has the hook registered exactly while it listens, however the
\* configure calls were delayed, once they have run.
Calm == ~crashed /\ life = "open" /\ waiting = 0 /\ stack = <<>>

HookMatchesListener == Calm /\ paired /\ ~busyClosed => (hook <=> listeners = 1)

\* Every event reported is passed on or is still on its way: switching the hook
\* off and closing the database lose none of those already reported.  Listeners
\* get each once, in the order of the statements, unless finish() was called
\* from inside listener(): then it passes on what came later before the rest of
\* what listener() had taken.
OnTheWay ==
  {data[i] : i \in 1..Len(data)} \cup
  UNION {{stack[k].items[i] : i \in 1..Len(stack[k].items)} : k \in 1..Len(stack)}

NothingLost ==
  /\ ~crashed =>
       1..sent = {heard[i] : i \in 1..Len(heard)} \cup missed \cup OnTheWay
  /\ ~nested => \A i, j \in 1..Len(heard) : i < j => heard[i] < heard[j]

\* Every event reported is passed on in the end: again and again none is on its
\* way, and NothingLost says that those were heard, or found no listener.
EventsArrive == []<>(crashed \/ OnTheWay = {})
=============================================================================
