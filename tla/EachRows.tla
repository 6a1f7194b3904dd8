------------------------------ MODULE EachRows ------------------------------
(***************************************************************************)
(* How the rows of one Statement#each call reach JavaScript.               *)
(*                                                                         *)
(* Work_Each steps the statement on a thread of the pool and pushes each   *)
(* row to a vector it shares with the main thread; AsyncEach empties the   *)
(* vector on the main thread whenever libuv delivers the wakeups, which it *)
(* merges.  The vector is guarded by a mutex; the flag completed, which    *)
(* says that no row will follow, is not.                                   *)
(*                                                                         *)
(* Each label of a thread names what it does next; a critical section is   *)
(* one step.  A row is its number in the result.                           *)
(***************************************************************************)
EXTENDS Naturals, Sequences

CONSTANTS
  MaxRows,    \* bound on the rows of the result
  MayThrow    \* whether JavaScript callbacks may throw

ASSUME RowsAssumption == MaxRows \in Nat
ASSUME EachThrowAssumption == MayThrow \in BOOLEAN

VARIABLES
  callbacks,  \* the callbacks the caller gave, "item" and "completed"
  worker,     \* the label of Work_Each
  status,     \* stmt->status
  row,        \* the number of rows stepped to
  data,       \* Async::data
  completed,  \* Async::completed
  signal,     \* a wakeup that uv_async_send left and libuv has not delivered
  watcher,    \* the uv_async_t, and with it the Async: "open", "closing", "freed"
  main,       \* the label of AsyncEach, "idle" outside it
  rows,       \* its local vector
  delivered,  \* the rows passed to item_cb; Async::retrieved is their number
  counts,     \* the numbers passed to completed_cb
  ended,      \* Work_AfterEach: "no", "done", or "error" when it called Error()
  excuse      \* history: "throw" and "closed", which leave a call unfinished

async == <<data, completed, signal, watcher>>
thread == <<worker, status, row>>
loop == <<main, rows, delivered, counts>>
vars == <<callbacks, thread, async, loop, ended, excuse>>

Labels == {"begin", "step", "push", "send", "complete", "last", "over"}

retrieved == Len(delivered)

\* completed_cb is taken only when item_cb stands before it.
Init ==
  /\ callbacks \in {{}, {"item"}, {"item", "completed"}}
  /\ worker = "begin" /\ status = "ok" /\ row = 0
  /\ data = <<>> /\ completed = FALSE /\ signal = FALSE /\ watcher = "open"
  /\ main = "idle" /\ rows = <<>> /\ delivered = <<>> /\ counts = <<>>
  /\ ended = "no"
  /\ excuse = {}

-----------------------------------------------------------------------------
\* Work_Each, on the thread pool.

Goto(from, to) == worker = from /\ worker' = to

\* STATEMENT_MUTEX returns when the database was closed, which an empty
\* statement does not prevent; otherwise the parameters are bound.
Bind ==
  /\ \/ Goto("begin", "step") /\ UNCHANGED <<status, excuse>>
     \/ Goto("begin", "complete") /\ status' = "error" /\ UNCHANGED excuse
     \/ Goto("begin", "over") /\ status' = "misuse" /\ excuse' = excuse \cup {"closed"}
  /\ UNCHANGED <<callbacks, row, async, loop, ended>>

\* Mutant: completed is announced with the last row, before its push.
StepEarly ==
  /\ \/ /\ Goto("step", "push") /\ row < MaxRows
        /\ row' = row + 1 /\ status' = "row"
        /\ completed' \in {completed, TRUE}
     \/ /\ Goto("step", "complete")
        /\ status' \in {"done", "error"} /\ UNCHANGED <<row, completed>>
  /\ UNCHANGED <<callbacks, data, signal, watcher, loop, ended, excuse>>

Step ==
  /\ \/ /\ Goto("step", "push") /\ row < MaxRows
        /\ row' = row + 1 /\ status' = "row"
     \/ /\ Goto("step", "complete")
        /\ status' \in {"done", "error"} /\ row' = row
  /\ UNCHANGED <<callbacks, async, loop, ended, excuse>>

\* Mutant: a push that finds rows waiting replaces them.
PushOver ==
  /\ Goto("push", "send")
  /\ data' = <<row>>
  /\ UNCHANGED <<callbacks, status, row, completed, signal, watcher, loop, ended, excuse>>

Push ==
  /\ Goto("push", "send")
  /\ data' = Append(data, row)
  /\ UNCHANGED <<callbacks, status, row, completed, signal, watcher, loop, ended, excuse>>

Send ==
  /\ Goto("send", "step")
  /\ signal' = TRUE
  /\ UNCHANGED <<callbacks, status, row, data, completed, watcher, loop, ended, excuse>>

Complete ==
  /\ Goto("complete", "last")
  /\ completed' = TRUE
  /\ UNCHANGED <<callbacks, status, row, data, signal, watcher, loop, ended, excuse>>

\* Mutant: the worker leaves the wakeup after the last row to serve.
LastSendNone ==
  /\ Goto("last", "over")
  /\ UNCHANGED <<callbacks, status, row, async, loop, ended, excuse>>

\* The last uv_async_send.  It may find the watcher closed, and freed.
LastSend ==
  /\ Goto("last", "over")
  /\ signal' = (watcher = "open")
  /\ UNCHANGED <<callbacks, status, row, data, completed, watcher, loop, ended, excuse>>

-----------------------------------------------------------------------------
\* The main thread.

\* libuv clears the wakeup, then calls AsyncEach.
Wake ==
  /\ main = "idle" /\ signal /\ watcher = "open"
  /\ signal' = FALSE
  /\ main' = "drain"
  /\ UNCHANGED <<callbacks, thread, data, completed, watcher, rows, delivered, counts,
                 ended, excuse>>

\* Mutant: the rows are copied out of data and stay there.
SwapCopy ==
  /\ main = "drain"
  /\ rows' = data
  /\ main' = IF data = <<>> THEN "check" ELSE "rows"
  /\ UNCHANGED <<callbacks, thread, async, delivered, counts, ended, excuse>>

\* Without an item_cb the rows are dropped.
Swap ==
  /\ main = "drain"
  /\ data' = <<>>
  /\ rows' = IF "item" \in callbacks THEN data ELSE <<>>
  /\ main' = IF data = <<>> THEN "check" ELSE IF rows' = <<>> THEN "drain" ELSE "rows"
  /\ UNCHANGED <<callbacks, thread, completed, signal, watcher, delivered, counts,
                 ended, excuse>>

Item ==
  /\ main = "rows"
  /\ delivered' = Append(delivered, Head(rows))
  /\ rows' = Tail(rows)
  /\ main' = IF rows' = <<>> THEN "drain" ELSE "rows"
  /\ UNCHANGED <<callbacks, thread, async, counts, ended, excuse>>

\* TRY_CATCH_CALL leaves AsyncEach: the rows taken from data are lost.
ItemThrows ==
  /\ MayThrow /\ main = "rows"
  /\ delivered' = Append(delivered, Head(rows))
  /\ rows' = <<>>
  /\ main' = "idle"
  /\ excuse' = excuse \cup {"throw"}
  /\ UNCHANGED <<callbacks, thread, async, counts, ended>>

Check ==
  /\ main = "check"
  /\ main' = IF completed THEN "completed" ELSE "idle"
  /\ UNCHANGED <<callbacks, thread, async, rows, delivered, counts, ended, excuse>>

CallCompleted ==
  counts' = IF "completed" \in callbacks THEN Append(counts, retrieved) ELSE counts

\* Mutant: the watcher stays open for the wakeups still to come.
CompletedOpen ==
  /\ main = "completed"
  /\ CallCompleted
  /\ main' = "idle"
  /\ UNCHANGED <<callbacks, thread, async, rows, delivered, ended, excuse>>

Completed ==
  /\ main = "completed"
  /\ CallCompleted
  /\ watcher' = "closing"
  /\ main' = "idle"
  /\ UNCHANGED <<callbacks, thread, data, completed, signal, rows, delivered, ended, excuse>>

\* The throw skips uv_close.
CompletedThrows ==
  /\ MayThrow /\ main = "completed" /\ "completed" \in callbacks
  /\ CallCompleted
  /\ main' = "idle"
  /\ excuse' = excuse \cup {"throw"}
  /\ UNCHANGED <<callbacks, thread, async, rows, delivered, ended>>

CloseCallback ==
  /\ main = "idle" /\ watcher = "closing"
  /\ watcher' = "freed"
  /\ UNCHANGED <<callbacks, thread, data, completed, signal, loop, ended, excuse>>

AfterEach ==
  /\ main = "idle" /\ worker = "over" /\ ended = "no"
  /\ ended' = IF status = "done" THEN "done" ELSE "error"
  /\ UNCHANGED <<callbacks, thread, async, loop, excuse>>

-----------------------------------------------------------------------------
Work == Bind \/ Step \/ Push \/ Send \/ Complete \/ LastSend

AsyncEach ==
  Swap \/ Item \/ ItemThrows \/ Check \/ Completed \/ CompletedThrows

Next == Work \/ Wake \/ AsyncEach \/ CloseCallback \/ AfterEach

\* The pool runs the request, libuv delivers wakeups and the end of the
\* request, and callbacks return.
Fairness ==
  /\ WF_vars(Work) /\ WF_vars(Wake) /\ WF_vars(AsyncEach)
  /\ WF_vars(CloseCallback) /\ WF_vars(AfterEach)

Spec == Init /\ [][Next]_vars
FairSpec == Spec /\ Fairness

-----------------------------------------------------------------------------
\* Properties.

Counting(n) == [i \in 1..n |-> i]

\* Every variable has its type.
TypeOK ==
  /\ callbacks \in SUBSET {"item", "completed"}
  /\ worker \in Labels
  /\ status \in {"ok", "row", "done", "error", "misuse"}
  /\ row \in 0..MaxRows
  /\ data \in Seq(1..MaxRows)
  /\ completed \in BOOLEAN /\ signal \in BOOLEAN
  /\ watcher \in {"open", "closing", "freed"}
  /\ main \in {"idle", "drain", "rows", "check", "completed"}
  /\ rows \in Seq(1..MaxRows)
  /\ delivered \in Seq(1..MaxRows)
  /\ counts \in Seq(Nat)
  /\ ended \in {"no", "done", "error"}
  /\ excuse \in SUBSET {"throw", "closed"}

\* The rows the worker has handed over.
Pushed == IF worker = "push" THEN row - 1 ELSE row

\* The mutex and the swap lose and repeat no row: what item_cb was given, what
\* AsyncEach holds and what waits in data are together, in order, the rows
\* that were pushed, whenever the two threads run.
RowsConserved ==
  "item" \in callbacks /\ "throw" \notin excuse
    => delivered \o rows \o data = Counting(Pushed)

\* A callback that throws loses rows, but the rows that follow still arrive in
\* order and once.
RowsInOrder ==
  LET all == delivered \o rows \o data
  IN  \A i, j \in 1..Len(all) : i < j => all[i] < all[j]

\* AsyncEach closes the watcher, and libuv frees the Async, only when the
\* worker has nothing left to do with it but the last uv_async_send: its
\* pushes never meet a freed vector.  (That last call may come too late.)
AsyncOutlivesRows == watcher # "open" => worker \in {"last", "over"}

\* The completion is the last the caller hears of an each: no row follows it
\* and it is not repeated, although a second wakeup may be on its way.
NothingAfterCompletion ==
  [][counts # <<>> /\ "throw" \notin excuse
       => UNCHANGED <<delivered, counts>>]_vars

\* test/each.test.js:35 asserts, in the completion callback, that the rows
\* retrieved are all the rows of the result.
AllRetrieved ==
  status = "done" /\ "throw" \notin excuse
    => \A i \in 1..Len(counts) : counts[i] = row

\* An each ends: the statement is unlocked, the completion callback is called
\* once and the watcher, which keeps the process alive, is freed, unless a
\* callback threw or the database was closed under the statement.
EachEnds ==
  <>[](\/ excuse # {}
       \/ /\ ended # "no" /\ watcher = "freed"
          /\ Len(counts) = IF "completed" \in callbacks THEN 1 ELSE 0)
=============================================================================
