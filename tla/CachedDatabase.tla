--------------------------- MODULE CachedDatabase ---------------------------
(***************************************************************************)
(* sqlite3.cached.Database (lib/sqlite3.js): one Database object for a     *)
(* file, whoever asks for it, and the ways in which the callbacks of those *)
(* who ask are called: by the open of the database (Work_AfterOpen), by    *)
(* the open event that it emits, and by process.nextTick.                  *)
(*                                                                         *)
(* Of a Database only what the cache meets is here.  ":memory:" and "" are *)
(* not cached.                                                             *)
(***************************************************************************)
EXTENDS Integers, Sequences, SequencesExt

CONSTANTS
  Files,        \* the paths, as path.resolve returns them
  MaxRequests,  \* bound on the calls of cached.Database
  MayThrow      \* whether JavaScript callbacks may throw

ASSUME CacheAssumption == MaxRequests \in Nat /\ MayThrow \in BOOLEAN

VARIABLES
  life,      \* sqlite3.cached.objects: none, or the state of the Database
  closing,   \* the databases whose close() is queued or in flight
  waiting,   \* their listeners of once('open')
  ticks,     \* the queue of process.nextTick
  late,      \* a tick threw: Node leaves the other ticks to a later turn
  turn,      \* what the main thread is running
  requests,  \* history: the file of each request, in their order
  called,    \* history: the requests whose callbacks were called, in order
  misled,    \* history: those told of no error when the database was not open
  refused,   \* history: those made after the open failed or a close succeeded
  cut,       \* history: the files of which a callback of the open threw
  tickThrew  \* history: some tick threw

history == <<requests, called, misled, refused, cut, tickThrew>>
vars == <<life, closing, waiting, ticks, late, turn, history>>

-----------------------------------------------------------------------------
\* The turns of the main thread.

\* The kind of a turn:
\*   "idle"      the event loop
\*   "program"   JavaScript, of no concern to the cache
\*   "open"      the callback that the constructor was given
\*   "emit"      emit('open'), before the next listener
\*   "listener"  a listener of once('open')
\*   "tick"      a callback of process.nextTick
Of(kind, file) == [kind |-> kind, file |-> file, left |-> <<>>]

Js == turn.kind \in {"program", "open", "listener", "tick"}

Idle == [turn EXCEPT !.kind = "idle", !.left = <<>>]

\* The request that made the object.
constructor(f) == SelectInSeq(requests, LAMBDA r : r.file = f)

Init ==
  /\ life = [f \in Files |-> "none"]
  /\ closing = {}
  /\ waiting = [f \in Files |-> <<>>]
  /\ ticks = <<>> /\ late = FALSE
  /\ turn = Of("program", CHOOSE f \in Files : TRUE)
  /\ requests = <<>> /\ called = <<>> /\ misled = {} /\ refused = {}
  /\ cut = {} /\ tickThrew = FALSE

\* The callback is called, with no error or with one.
Call(r, success, found) ==
  /\ called' = Append(called, r)
  /\ misled' = IF success /\ found # "open" THEN misled \cup {r} ELSE misled

NoCall == UNCHANGED <<called, misled>>

-----------------------------------------------------------------------------
\* cached.Database

\* The first request of a file: new Database(file, a, b).
Construct(r, f) ==
  /\ life[f] = "none"
  /\ life' = [life EXCEPT ![f] = "opening"]
  /\ UNCHANGED <<waiting, ticks, refused>>

\* Mutant: the listener is added in any case.
ReuseBoth(r, f) ==
  /\ life[f] # "none"
  /\ ticks' = IF life[f] = "open" THEN Append(ticks, r) ELSE ticks
  /\ waiting' = [waiting EXCEPT ![f] = Append(@, r)]
  /\ refused' = refused
  /\ UNCHANGED life

\* Mutant: db.open is not asked.
ReuseTick(r, f) ==
  /\ life[f] # "none"
  /\ ticks' = Append(ticks, r)
  /\ UNCHANGED <<life, waiting, refused>>

\* Mutant: the newest listener comes first.
ReusePrepend(r, f) ==
  /\ life[f] # "none"
  /\ ticks' = IF life[f] = "open" THEN Append(ticks, r) ELSE ticks
  /\ waiting' = IF life[f] = "open" THEN waiting
                ELSE [waiting EXCEPT ![f] = <<r>> \o @]
  /\ refused' = refused
  /\ UNCHANGED life

\* A later request: process.nextTick if db.open, db.once('open') if not.  The
\* object stays in the cache when its open fails and when it is closed.
Reuse(r, f) ==
  /\ life[f] # "none"
  /\ \/ /\ life[f] = "open"
        /\ ticks' = Append(ticks, r)
        /\ UNCHANGED <<waiting, refused>>
     \/ /\ life[f] # "open"
        /\ waiting' = [waiting EXCEPT ![f] = Append(@, r)]
        /\ refused' = IF life[f] = "opening" THEN refused ELSE refused \cup {r}
        /\ UNCHANGED ticks
  /\ UNCHANGED life

Request(f, callback) ==
  /\ Js /\ Len(requests) < MaxRequests
  /\ requests' = Append(requests, [file |-> f, callback |-> callback])
  /\ LET r == Len(requests) + 1
     IN  \/ Construct(r, f)
         \/ callback /\ Reuse(r, f)
         \/ ~callback /\ life[f] # "none" /\ UNCHANGED <<life, waiting, ticks, refused>>
  /\ UNCHANGED <<closing, late, turn, called, misled, cut, tickThrew>>

\* close() of a database that is not closed: at once or from its queue.
Close(f) ==
  /\ Js /\ life[f] \in {"opening", "open"}
  /\ closing' = closing \cup {f}
  /\ UNCHANGED <<life, waiting, ticks, late, turn, history>>

-----------------------------------------------------------------------------
\* Database

\* Work_AfterOpen up to the call of the callback; ticks come before other
\* events, unless one of them threw.
AfterOpen(f) ==
  /\ turn.kind = "idle" /\ (ticks = <<>> \/ late)
  /\ life[f] = "opening"
  /\ late' = FALSE
  /\ LET r == constructor(f)
     IN  \E outcome \in {"open", "failed"} :
           /\ life' = [life EXCEPT ![f] = outcome]
           /\ \/ /\ requests[r].callback
                 /\ turn' = Of("open", f)
                 /\ Call(r, outcome = "open", outcome)
              \/ /\ ~requests[r].callback
                 /\ turn' = IF outcome = "open"
                              THEN [Of("emit", f) EXCEPT !.left = waiting[f]]
                              ELSE Of("program", f)
                 /\ NoCall
  /\ UNCHANGED <<closing, waiting, ticks, requests, refused, cut, tickThrew>>

\* Work_AfterClose, with its callback; a close that fails leaves db.open set.
AfterClose(f) ==
  /\ turn.kind = "idle" /\ (ticks = <<>> \/ late)
  /\ f \in closing /\ life[f] = "open"
  /\ closing' = closing \ {f}
  /\ late' = FALSE
  /\ \/ life' = [life EXCEPT ![f] = "closed"]
     \/ UNCHANGED life
  /\ turn' = Of("program", f)
  /\ UNCHANGED <<waiting, ticks, history>>

\* Any other event.
OtherEvent ==
  /\ turn.kind = "idle" /\ (ticks = <<>> \/ late)
  /\ late' = FALSE
  /\ turn' = [turn EXCEPT !.kind = "program"]
  /\ UNCHANGED <<life, closing, waiting, ticks, history>>

-----------------------------------------------------------------------------
\* EventEmitter and process.nextTick

Emit ==
  /\ turn.kind = "emit"
  /\ \/ /\ turn.left = <<>>
        /\ turn' = Idle
        /\ UNCHANGED waiting
        /\ NoCall
     \/ /\ turn.left # <<>>
        /\ LET r == Head(turn.left)
           IN  /\ waiting' = [waiting EXCEPT ![turn.file] = Remove(@, r)]
               /\ Call(r, TRUE, life[turn.file])
        /\ turn' = [turn EXCEPT !.kind = "listener", !.left = Tail(@)]
  /\ UNCHANGED <<life, closing, ticks, late, requests, refused, cut, tickThrew>>

RunTick ==
  /\ turn.kind = "idle" /\ ticks # <<>> /\ ~late
  /\ ticks' = Tail(ticks)
  /\ LET f == requests[Head(ticks)].file
     IN  Call(Head(ticks), TRUE, life[f]) /\ turn' = Of("tick", f)
  /\ UNCHANGED <<life, closing, waiting, late, requests, refused, cut, tickThrew>>

\* The turn in which Node takes up the ticks behind one that threw.
LateTicks ==
  /\ turn.kind = "idle" /\ late
  /\ late' = FALSE
  /\ UNCHANGED <<life, closing, waiting, ticks, turn, history>>

\* Mutant: the open event is emitted only by an open without a callback.
AfterCallbackSilent == Idle

\* What follows the constructor's callback.
AfterCallback ==
  IF life[turn.file] = "open"
    THEN [turn EXCEPT !.kind = "emit", !.left = waiting[turn.file]]
    ELSE Idle

Return ==
  /\ Js
  /\ turn' = CASE turn.kind = "open" -> AfterCallback
               [] turn.kind = "listener" -> [turn EXCEPT !.kind = "emit"]
               [] OTHER -> Idle
  /\ UNCHANGED <<life, closing, waiting, ticks, late, history>>

\* An exception that the program does not catch ends Work_AfterOpen, and what
\* is left of emit() with it.
Throw ==
  /\ MayThrow /\ Js
  /\ turn' = Idle
  /\ late' = (turn.kind = "tick")
  /\ tickThrew' = (tickThrew \/ turn.kind = "tick")
  /\ cut' = IF turn.kind \in {"open", "listener"} THEN cut \cup {turn.file} ELSE cut
  /\ UNCHANGED <<life, closing, waiting, ticks, requests, called, misled, refused>>

Next ==
  \/ \E f \in Files :
       \/ \E callback \in BOOLEAN : Request(f, callback)
       \/ Close(f) \/ AfterOpen(f) \/ AfterClose(f)
  \/ OtherEvent \/ Emit \/ RunTick \/ LateTicks \/ Return \/ Throw

\* JavaScript returns, emit() goes on, ticks are run, and every open ends.
Fairness ==
  /\ WF_vars(Return \/ Throw) /\ WF_vars(Emit)
  /\ SF_vars(RunTick) /\ WF_vars(LateTicks)
  /\ \A f \in Files : SF_vars(AfterOpen(f))

Spec == Init /\ [][Next]_vars /\ Fairness

-----------------------------------------------------------------------------
\* Properties.

\* A callback that is told no error finds the database open, whatever closes
\* were asked for meanwhile.  A tick that throws lets a close come in between.
CalledMeansOpen ==
  ~tickThrew => misled = {}

\* The callbacks for one file are called once, in the order of the requests: the
\* constructor's, then those that waited for the open event, then the ticks.
\* One that waits for the event is not also given to nextTick, between the open
\* and its event either.
InRequestOrder ==
  \A i, j \in DOMAIN called :
    i < j /\ requests[called[i]].file = requests[called[j]].file => called[i] < called[j]

\* sqlite3.js:43, "Make sure the callback is called": it is, unless the
\* database did not open or was closed before the request, in which case the
\* cache still returns it, or another callback of its open threw.
Made(r) == r \in DOMAIN requests

Excused(r) ==
  r \in refused \/ (Made(r) /\ (life[requests[r].file] = "failed" \/ requests[r].file \in cut))

CallbackCalled ==
  \A r \in 1..MaxRequests :
    (Made(r) /\ requests[r].callback) ~> (r \in ToSet(called) \/ Excused(r))
=============================================================================
