-------------------------- MODULE StatementService --------------------------
(***************************************************************************)
(* What a statement promises to its caller when no callback throws: a line *)
(* of operations that are answered one after the other in the order in     *)
(* which they were issued.  finalize is answered after all that stands     *)
(* behind it in the line, and after it everything is refused.  When the    *)
(* statement cannot be prepared, nothing is answered.                      *)
(***************************************************************************)
EXTENDS Naturals, Sequences

CONSTANTS
  Ops,      \* the operations
  KindOf    \* the method called, of which only finalize matters

VARIABLES
  state,    \* "preparing", "prepared" or "failed"
  line,     \* the operations issued and not answered
  said      \* what was answered, with the operation it was answered to

vars == <<state, line, said>>

Finalizes(o) == KindOf[o] = "finalize"
Closed == \E i \in 1..Len(said) : Finalizes(said[i].op) /\ ~said[i].refused

Init == state = "preparing" /\ line = <<>> /\ said = <<>>

Prepared == state = "preparing" /\ state' = "prepared" /\ UNCHANGED <<line, said>>
Failed == state = "preparing" /\ state' = "failed" /\ UNCHANGED <<line, said>>

Issue(o) ==
  /\ ~\E i \in 1..Len(line) : line[i] = o
  /\ ~\E i \in 1..Len(said) : said[i].op = o
  /\ line' = Append(line, o)
  /\ UNCHANGED <<state, said>>

\* A statement that failed forgets what was issued.
Drop == state = "failed" /\ line' = <<>> /\ UNCHANGED <<state, said>>

Answer(o, refused) ==
  /\ state = "prepared"
  /\ said' = Append(said, [op |-> o, refused |-> refused])
  /\ UNCHANGED state

Serve ==
  /\ line # <<>> /\ ~Closed /\ ~Finalizes(Head(line))
  /\ line' = Tail(line)
  /\ Answer(Head(line), FALSE)

\* What stands behind a finalize.
RefuseBehind ==
  /\ Len(line) > 1 /\ ~Closed /\ Finalizes(Head(line))
  /\ line' = <<Head(line)>> \o Tail(Tail(line))
  /\ Answer(line[2], TRUE)

Close ==
  /\ Len(line) = 1 /\ ~Closed /\ Finalizes(Head(line))
  /\ line' = <<>>
  /\ Answer(Head(line), FALSE)

Refuse ==
  /\ line # <<>> /\ Closed
  /\ line' = Tail(line)
  /\ Answer(Head(line), TRUE)

Next ==
  \/ Prepared \/ Failed \/ Drop
  \/ Serve \/ RefuseBehind \/ Close \/ Refuse
  \/ \E o \in Ops : Issue(o)

Spec == Init /\ [][Next]_vars

\* Every operation leaves the line.
Answered ==
  \A o \in Ops :
    (\E i \in 1..Len(line) : line[i] = o) ~> ~(\E i \in 1..Len(line) : line[i] = o)
=============================================================================
