--------------------------- MODULE EachRowsProofs ---------------------------
(***************************************************************************)
(* Proofs about the rows of Statement#each, for every length of the        *)
(* result and callbacks that may throw.                                    *)
(***************************************************************************)
EXTENDS EachRows, SequenceTheorems, TLAPS

Numbers == 1..MaxRows

\* Where the rows of the worker and of AsyncEach are.
InHand ==
  /\ worker = "push" => row \in Numbers
  /\ main = "rows" <=> rows # <<>>

\* completed is set after the last push, and read before the close.
CompletedLast ==
  /\ completed => worker \in {"last", "over"}
  /\ worker = "last" => completed
  /\ main = "completed" => completed
  /\ watcher # "open" => completed

IInv == TypeOK /\ InHand /\ CompletedLast /\ RowsConserved

-----------------------------------------------------------------------------
\* Lemmas about the sequence of all the rows.

LEMMA CountingNext ==
  ASSUME NEW n \in Nat
  PROVE  /\ Counting(n) \in Seq(Nat)
         /\ Append(Counting(n), n + 1) = Counting(n + 1)
<1>1. Counting(n) \in Seq(Nat) /\ Len(Counting(n)) = n
  BY SMT DEF Counting
<1>2. Append(Counting(n), n + 1) = [i \in 1..(n + 1) |-> IF i = n + 1 THEN n + 1 ELSE Counting(n)[i]]
  BY <1>1, SMT
<1>3. \A i \in 1..(n + 1) : (IF i = n + 1 THEN n + 1 ELSE Counting(n)[i]) = i
  BY SMT DEF Counting
<1>4. Append(Counting(n), n + 1) = Counting(n + 1)
  BY <1>2, <1>3 DEF Counting
<1> QED
  BY <1>1, <1>4

\* A push adds its row at the end of all the rows.
LEMMA PushRow ==
  ASSUME NEW s \in Seq(Nat), NEW t \in Seq(Nat), NEW e \in Nat
  PROVE  s \o Append(t, e) = Append(s \o t, e)
<1>1. <<e>> \in Seq(Nat) /\ s \o t \in Seq(Nat)
  BY ConcatProperties
<1>2. s \o Append(t, e) = s \o (t \o <<e>>)
  BY AppendIsConcat
<1>3. s \o (t \o <<e>>) = (s \o t) \o <<e>>
  BY <1>1, ConcatAssociative
<1>4. (s \o t) \o <<e>> = Append(s \o t, e)
  BY <1>1, AppendIsConcat
<1> QED
  BY <1>2, <1>3, <1>4

\* A row that item_cb takes moves from the front of the rows to the back of
\* the rows delivered.
LEMMA TakeRow ==
  ASSUME NEW s \in Seq(Nat), NEW t \in Seq(Nat), t # <<>>
  PROVE  Append(s, Head(t)) \o Tail(t) = s \o t
<1>1. /\ Head(t) \in Nat /\ Tail(t) \in Seq(Nat) /\ Len(Tail(t)) = Len(t) - 1
      /\ \A i \in 1..Len(Tail(t)) : Tail(t)[i] = t[i + 1]
      /\ Head(t) = t[1]
  BY HeadTailProperties
<1>2. /\ Append(s, Head(t)) \in Seq(Nat) /\ Len(Append(s, Head(t))) = Len(s) + 1
      /\ \A i \in 1..Len(s) : Append(s, Head(t))[i] = s[i]
      /\ Append(s, Head(t))[Len(s) + 1] = Head(t)
  BY <1>1, AppendProperties
<1> DEFINE left == Append(s, Head(t)) \o Tail(t)
           right == s \o t
<1>3. /\ left \in Seq(Nat) /\ Len(left) = Len(s) + Len(t)
      /\ \A i \in 1..(Len(s) + Len(t)) :
           left[i] = IF i <= Len(s) + 1 THEN Append(s, Head(t))[i]
                                        ELSE Tail(t)[i - (Len(s) + 1)]
  <2>1. Len(s) \in Nat /\ Len(t) \in Nat /\ Len(t) > 0
    BY LenProperties, EmptySeq
  <2>2. /\ left \in Seq(Nat)
        /\ Len(left) = Len(Append(s, Head(t))) + Len(Tail(t))
        /\ \A i \in 1..(Len(Append(s, Head(t))) + Len(Tail(t))) :
             left[i] = IF i <= Len(Append(s, Head(t))) THEN Append(s, Head(t))[i]
                       ELSE Tail(t)[i - Len(Append(s, Head(t)))]
    BY <1>1, <1>2, ConcatProperties
  <2>3. Len(Append(s, Head(t))) + Len(Tail(t)) = Len(s) + Len(t)
    BY <1>1, <1>2, <2>1
  <2> HIDE DEF left
  <2> QED
    BY <1>2, <2>2, <2>3
<1>4. /\ right \in Seq(Nat) /\ Len(right) = Len(s) + Len(t)
      /\ \A i \in 1..(Len(s) + Len(t)) :
           right[i] = IF i <= Len(s) THEN s[i] ELSE t[i - Len(s)]
  BY ConcatProperties
<1>5. ASSUME NEW i \in 1..(Len(s) + Len(t))
      PROVE  left[i] = right[i]
  <2>1. Len(s) \in Nat /\ Len(t) \in Nat
    BY LenProperties
  <2>2. left[i] = IF i <= Len(s) + 1 THEN Append(s, Head(t))[i]
                                    ELSE Tail(t)[i - (Len(s) + 1)]
    BY <1>3
  <2>3. right[i] = IF i <= Len(s) THEN s[i] ELSE t[i - Len(s)]
    BY <1>4
  <2> HIDE DEF left, right
  <2>4. CASE i <= Len(s)
    BY <1>2, <2>1, <2>2, <2>3, <2>4
  <2>5. CASE i = Len(s) + 1
    BY <1>1, <1>2, <2>1, <2>2, <2>3, <2>5
  <2>6. CASE i > Len(s) + 1
    <3>1. i - (Len(s) + 1) \in 1..Len(Tail(t))
      BY <1>1, <2>1, <2>6
    <3>2. Tail(t)[i - (Len(s) + 1)] = t[i - Len(s)]
      BY <1>1, <2>1, <3>1
    <3> QED
      BY <2>1, <2>2, <2>3, <2>6, <3>2
  <2> QED
    BY <2>1, <2>4, <2>5, <2>6
<1> HIDE DEF left, right
<1>6. left = right
  BY <1>3, <1>4, <1>5, SeqEqual
<1> QED
  BY <1>6 DEF left, right

-----------------------------------------------------------------------------
LEMMA InitEach == Init => IInv
<1> SUFFICES ASSUME Init PROVE IInv
  OBVIOUS
<1>1. /\ <<>> \in Seq(Numbers) /\ <<>> \in Seq(Nat) /\ 0 \in 0..MaxRows
      /\ <<>> \o <<>> \o <<>> = Counting(0)
  BY RowsAssumption, SMT DEF Counting
<1>2. TypeOK
  BY <1>1 DEF Init, TypeOK, Labels, Numbers
<1>3. InHand /\ CompletedLast
  BY DEF Init, InHand, CompletedLast
<1>4. RowsConserved
  <2>1. Pushed = 0
    BY DEF Init, Pushed
  <2> QED
    BY <1>1, <2>1 DEF Init, RowsConserved
<1> QED
  BY <1>2, <1>3, <1>4 DEF IInv

LEMMA NextType ==
  ASSUME IInv, [Next]_vars
  PROVE  TypeOK' /\ InHand' /\ CompletedLast'
<1> USE RowsAssumption DEF TypeOK, InHand, CompletedLast, IInv, Numbers, Labels,
        async, thread, loop
<1>1. CASE Bind
  BY <1>1 DEF Bind, Goto
<1>2. CASE Step
  <2>1. \/ /\ worker = "step" /\ worker' = "push" /\ row < MaxRows
           /\ row' = row + 1 /\ status' = "row"
        \/ /\ worker = "step" /\ worker' = "complete" /\ row' = row
           /\ status' \in {"done", "error"}
    BY <1>2 DEF Step, Goto
  <2>2. UNCHANGED <<callbacks, async, loop, ended, excuse>>
    BY <1>2 DEF Step
  <2>3. row' \in 0..MaxRows /\ (worker' = "push" => row' \in 1..MaxRows)
    BY <2>1
  <2> QED
    BY <2>1, <2>2, <2>3
<1>3. CASE Push
  <2>1. Append(data, row) \in Seq(1..MaxRows)
    BY <1>3, AppendProperties DEF Push, Goto
  <2> QED
    BY <1>3, <2>1 DEF Push, Goto
<1>4. CASE Send
  BY <1>4 DEF Send, Goto
<1>5. CASE Complete
  BY <1>5 DEF Complete, Goto
<1>6. CASE LastSend
  BY <1>6 DEF LastSend, Goto
<1>7. CASE Wake
  BY <1>7 DEF Wake
<1>8. CASE Swap
  <2>1. <<>> \in Seq(1..MaxRows)
    OBVIOUS
  <2> QED
    BY <1>8, <2>1 DEF Swap
<1>9. CASE Item \/ ItemThrows
  <2>1. /\ rows # <<>> /\ Head(rows) \in 1..MaxRows /\ Tail(rows) \in Seq(1..MaxRows)
        /\ Append(delivered, Head(rows)) \in Seq(1..MaxRows)
    BY <1>9, HeadTailProperties, AppendProperties DEF Item, ItemThrows
  <2>2. /\ main = "rows" /\ main' \in {"idle", "drain", "rows"}
        /\ main' = "rows" <=> rows' # <<>>
        /\ rows' \in {<<>>, Tail(rows)} /\ delivered' = Append(delivered, Head(rows))
        /\ excuse' \in SUBSET {"throw", "closed"}
        /\ UNCHANGED <<callbacks, thread, async, counts, ended>>
    BY <1>9 DEF Item, ItemThrows
  <2>3. <<>> \in Seq(1..MaxRows)
    OBVIOUS
  <2>4. rows' \in Seq(1..MaxRows) /\ delivered' \in Seq(1..MaxRows)
    BY <2>1, <2>2, <2>3, Zenon
  <2> QED
    BY <2>2, <2>4
<1>10. CASE Check
  BY <1>10 DEF Check
<1>11. CASE Completed \/ CompletedThrows
  <2>1. retrieved \in Nat
    BY LenProperties DEF retrieved
  <2>2. counts \in Seq(Nat) /\ counts' \in {counts, Append(counts, retrieved)}
    BY <1>11 DEF Completed, CompletedThrows, CallCompleted
  <2>3. Append(counts, retrieved) \in Seq(Nat)
    BY <2>1, <2>2, AppendProperties, Zenon
  <2>4. counts' \in Seq(Nat)
    BY <2>2, <2>3, Zenon
  <2>5. CASE Completed
    BY <2>4, <2>5 DEF Completed
  <2>6. CASE CompletedThrows
    BY <2>4, <2>6 DEF CompletedThrows
  <2> QED
    BY <1>11, <2>5, <2>6
<1>12. CASE CloseCallback
  BY <1>12 DEF CloseCallback
<1>13. CASE AfterEach
  BY <1>13 DEF AfterEach
<1>14. CASE UNCHANGED vars
  BY <1>14 DEF vars
<1> QED
  BY <1>1, <1>2, <1>3, <1>4, <1>5, <1>6, <1>7, <1>8, <1>9, <1>10, <1>11, <1>12,
     <1>13, <1>14 DEF Next, Work, AsyncEach

LEMMA NextRows ==
  ASSUME IInv, [Next]_vars
  PROVE  RowsConserved'
<1> DEFINE all == delivered \o rows \o data
<1>1. /\ delivered \in Seq(Nat) /\ rows \in Seq(Nat) /\ data \in Seq(Nat)
      /\ delivered \o rows \in Seq(Nat)
  BY RowsAssumption, ConcatProperties DEF IInv, TypeOK
<1>2. SUFFICES ASSUME "item" \in callbacks, "throw" \notin excuse, "throw" \notin excuse',
                      callbacks' = callbacks, ~ItemThrows, ~CompletedThrows
               PROVE  all' = Counting(Pushed)'
  <2>1. callbacks' = callbacks /\ excuse \subseteq excuse'
    BY DEF Next, Work, AsyncEach, vars, Bind, Step, Push, Send, Complete, LastSend,
           Wake, Swap, Item, ItemThrows, Check, Completed, CompletedThrows,
           CloseCallback, AfterEach, IInv, TypeOK
  <2>2. ItemThrows \/ CompletedThrows => "throw" \in excuse'
    BY DEF ItemThrows, CompletedThrows
  <2> QED
    BY <2>1, <2>2 DEF RowsConserved
<1>3. all = Counting(Pushed)
  BY <1>2 DEF IInv, RowsConserved
<1>4. CASE UNCHANGED <<delivered, rows, data>> /\ Pushed' = Pushed
  BY <1>3, <1>4 DEF Counting
<1>5. CASE Push
  <2>1. /\ delivered' = delivered /\ rows' = rows /\ data' = Append(data, row)
        /\ row \in Nat /\ Pushed \in Nat /\ row = Pushed + 1 /\ Pushed' = row
    BY <1>5, RowsAssumption DEF Push, Goto, Pushed, IInv, InHand, TypeOK, Numbers,
         loop
  <2>2. all' = Append(all, row)
    BY <1>1, <2>1, PushRow
  <2>3. Append(Counting(Pushed), Pushed + 1) = Counting(Pushed + 1)
    BY <2>1, CountingNext
  <2> HIDE DEF all
  <2> QED
    BY <1>3, <2>1, <2>2, <2>3 DEF Counting
<1>6. CASE Swap
  <2>1. /\ delivered' = delivered /\ rows' = data /\ data' = <<>> /\ rows = <<>>
        /\ Pushed' = Pushed
    BY <1>2, <1>6 DEF Swap, IInv, InHand, Pushed, thread
  <2>2. (delivered \o data) \o <<>> = (delivered \o <<>>) \o data
    BY <1>1, ConcatEmptySeq, ConcatProperties
  <2> QED
    BY <1>3, <2>1, <2>2 DEF Counting
<1>7. CASE Item
  <2>1. /\ delivered' = Append(delivered, Head(rows)) /\ rows' = Tail(rows) /\ rows # <<>>
        /\ data' = data /\ Pushed' = Pushed
    BY <1>7 DEF Item, IInv, InHand, Pushed, thread, async
  <2>2. Append(delivered, Head(rows)) \o Tail(rows) = delivered \o rows
    BY <1>1, <2>1, TakeRow
  <2> QED
    BY <1>3, <2>1, <2>2 DEF Counting
<1>8. CASE Bind \/ Step
  BY <1>4, <1>8, RowsAssumption
     DEF Bind, Step, Goto, Pushed, async, thread, loop, IInv, TypeOK
<1>9. CASE Send \/ Complete \/ LastSend
  BY <1>4, <1>9 DEF Send, Complete, LastSend, Goto, Pushed, async, thread, loop
<1>10. CASE Wake \/ Check \/ Completed \/ CloseCallback \/ AfterEach \/ UNCHANGED vars
  BY <1>4, <1>10
     DEF Wake, Check, Completed, CloseCallback, AfterEach, vars, Pushed, async, thread,
         loop
<1> QED
  BY <1>2, <1>5, <1>6, <1>7, <1>8, <1>9, <1>10 DEF Next, Work, AsyncEach

\* The invariant that carries the theorems below.
THEOREM EachInvariant == Spec => []IInv
<1>1. IInv /\ [Next]_vars => IInv'
  BY NextType, NextRows DEF IInv
<1> QED
  BY InitEach, <1>1, PTL DEF Spec

\* Every reachable state of an each is well typed, for every length of the result.
THEOREM EachTypes == Spec => []TypeOK
<1>1. IInv => TypeOK
  BY DEF IInv
<1> QED
  BY <1>1, EachInvariant, PTL

\* AsyncEach loses and repeats no row that was pushed, for every length of the
\* result, however its steps and those of the worker fall.
THEOREM NoRowLost == Spec => []RowsConserved
<1>1. IInv => RowsConserved
  BY DEF IInv
<1> QED
  BY <1>1, EachInvariant, PTL

\* The vector is not freed before the worker has pushed the last row.
THEOREM VectorOutlivesPushes == Spec => []AsyncOutlivesRows
<1>1. IInv => AsyncOutlivesRows
  BY DEF IInv, CompletedLast, AsyncOutlivesRows
<1> QED
  BY <1>1, EachInvariant, PTL

-----------------------------------------------------------------------------
\* After the completion AsyncEach does not run again: Completed closes the
\* watcher, and a wakeup of a closed watcher is not delivered.
Ended ==
  /\ watcher # "open" => main = "idle"
  /\ counts # <<>> /\ "throw" \notin excuse => watcher # "open"

LEMMA EndedNext ==
  ASSUME IInv, Ended, [Next]_vars
  PROVE  Ended' /\ (counts # <<>> /\ "throw" \notin excuse => UNCHANGED <<delivered, counts>>)
<1> USE DEF Ended, async, thread, loop
<1>1. CASE Work
  BY <1>1 DEF Work, Bind, Step, Push, Send, Complete, LastSend, IInv, TypeOK
<1>2. CASE Wake \/ Swap \/ Item \/ Check
  BY <1>2 DEF Wake, Swap, Item, Check
<1>3. CASE ItemThrows \/ CompletedThrows
  <2>1. "throw" \in excuse' /\ main # "idle" /\ main' = "idle" /\ watcher' = watcher
    BY <1>3 DEF ItemThrows, CompletedThrows
  <2> QED
    BY <2>1
<1>4. CASE Completed
  BY <1>4 DEF Completed
<1>5. CASE CloseCallback \/ AfterEach \/ UNCHANGED vars
  BY <1>5 DEF CloseCallback, AfterEach, vars
<1> QED
  BY <1>1, <1>2, <1>3, <1>4, <1>5 DEF Next, AsyncEach

\* No row follows the completion callback and it is not called again, for every
\* length of the result and wherever the wakeups fall, unless a callback threw.
THEOREM NothingFollowsCompletion == Spec => NothingAfterCompletion
<1>1. Init => Ended
  BY DEF Init, Ended
<1>2. IInv /\ Ended /\ [Next]_vars => Ended'
  BY EndedNext
<1>3. IInv /\ Ended /\ [Next]_vars
        => [counts # <<>> /\ "throw" \notin excuse => UNCHANGED <<delivered, counts>>]_vars
  BY EndedNext
<1> QED
  BY <1>1, <1>2, <1>3, EachInvariant, PTL DEF Spec, NothingAfterCompletion

-----------------------------------------------------------------------------
\* Rows of ascending numbers, none above n.
Ordered(s, n) ==
  /\ \A i \in 1..Len(s) : s[i] <= n
  /\ \A i, j \in 1..Len(s) : i < j => s[i] < s[j]

LEMMA OrderedAppend ==
  ASSUME NEW s \in Seq(Nat), NEW n \in Nat, Ordered(s, n)
  PROVE  Ordered(Append(s, n + 1), n + 1)
<1> DEFINE t == Append(s, n + 1)
<1>1. /\ Len(s) \in Nat /\ Len(t) = Len(s) + 1 /\ t[Len(s) + 1] = n + 1
      /\ \A i \in 1..Len(s) : t[i] = s[i] /\ s[i] \in Nat
  BY AppendProperties, LenProperties, ElementOfSeq
<1> HIDE DEF t
<1>2. \A i \in 1..Len(t) : i \in 1..Len(s) \/ i = Len(s) + 1
  BY <1>1
<1>3. ASSUME NEW i \in 1..Len(t)
      PROVE  t[i] <= n + 1
  BY <1>1, <1>2 DEF Ordered
<1>4. ASSUME NEW i \in 1..Len(t), NEW j \in 1..Len(t), i < j
      PROVE  t[i] < t[j]
  <2>1. i \in 1..Len(s)
    BY <1>1, <1>4
  <2> QED
    BY <1>1, <1>2, <1>4, <2>1 DEF Ordered
<1>5. Ordered(t, n + 1)
  BY <1>3, <1>4 DEF Ordered
<1> QED
  BY <1>5 DEF t

\* AsyncEach keeps the first of its rows and loses the others.
LEMMA OrderedFirst ==
  ASSUME NEW s \in Seq(Nat), NEW t \in Seq(Nat), NEW u \in Seq(Nat), NEW n \in Nat,
         t # <<>>, Ordered(s \o t \o u, n)
  PROVE  Ordered(Append(s, Head(t)) \o <<>> \o u, n)
<1> DEFINE all == s \o t \o u
           part == Append(s, Head(t)) \o u
           At(i) == IF i <= Len(s) + 1 THEN i ELSE i + (Len(t) - 1)
<1>1. /\ Len(s) \in Nat /\ Len(t) \in Nat \ {0} /\ Len(u) \in Nat
      /\ Head(t) = t[1] /\ t[1] \in Nat
  BY LenProperties, EmptySeq, HeadTailProperties
<1>2. /\ Append(s, Head(t)) \in Seq(Nat) /\ Len(Append(s, Head(t))) = Len(s) + 1
      /\ \A i \in 1..Len(s) : Append(s, Head(t))[i] = s[i]
      /\ Append(s, Head(t))[Len(s) + 1] = t[1]
  BY <1>1, AppendProperties
<1>3. Append(s, Head(t)) \o <<>> \o u = part
  BY <1>2, ConcatEmptySeq
<1>4. /\ part \in Seq(Nat) /\ Len(part) = Len(s) + 1 + Len(u)
      /\ \A i \in 1..(Len(s) + 1 + Len(u)) :
           part[i] = IF i <= Len(s) + 1 THEN Append(s, Head(t))[i] ELSE u[i - (Len(s) + 1)]
  BY <1>1, <1>2, ConcatProperties
<1>5. /\ s \o t \in Seq(Nat) /\ Len(s \o t) = Len(s) + Len(t)
      /\ \A i \in 1..(Len(s) + Len(t)) :
           (s \o t)[i] = IF i <= Len(s) THEN s[i] ELSE t[i - Len(s)]
  BY ConcatProperties
<1>6. /\ all \in Seq(Nat) /\ Len(all) = Len(s) + Len(t) + Len(u)
      /\ \A i \in 1..(Len(s) + Len(t) + Len(u)) :
           all[i] = IF i <= Len(s) + Len(t) THEN (s \o t)[i] ELSE u[i - (Len(s) + Len(t))]
  BY <1>1, <1>5, ConcatProperties
<1>7. Ordered(all, n)
  OBVIOUS
<1> HIDE DEF all, part
<1>8. ASSUME NEW i \in 1..Len(part)
      PROVE  At(i) \in 1..Len(all) /\ part[i] = all[At(i)]
  <2>1. i \in 1..(Len(s) + 1 + Len(u)) /\ i \in Nat /\ i >= 1 /\ i <= Len(s) + 1 + Len(u)
    BY <1>1, <1>4
  <2>2. CASE i <= Len(s)
    <3>1. part[i] = s[i]
      BY <1>1, <1>2, <1>4, <2>1, <2>2
    <3>2. i \in 1..(Len(s) + Len(t)) /\ i <= Len(s) + Len(t)
      BY <1>1, <2>1, <2>2
    <3>3. (s \o t)[i] = s[i]
      BY <1>5, <2>2, <3>2
    <3>4. i \in 1..(Len(s) + Len(t) + Len(u))
      BY <1>1, <2>1, <2>2
    <3>5. all[i] = (s \o t)[i]
      BY <1>6, <3>2, <3>4
    <3>6. At(i) = i /\ i \in 1..Len(all)
      BY <1>1, <1>6, <2>1, <2>2, <3>4
    <3> QED
      BY <3>1, <3>3, <3>5, <3>6
  <2>3. CASE i = Len(s) + 1
    <3>1. part[i] = t[1]
      BY <1>1, <1>2, <1>4, <2>1, <2>3
    <3>2. (s \o t)[i] = t[1]
      BY <1>1, <1>5, <2>3
    <3>3. all[i] = (s \o t)[i]
      <4>1. i \in 1..(Len(s) + Len(t) + Len(u)) /\ i <= Len(s) + Len(t)
        BY <1>1, <2>1, <2>3
      <4> QED
        BY <1>6, <4>1
    <3>4. At(i) = i /\ i \in 1..Len(all)
      BY <1>1, <1>6, <2>3
    <3> QED
      BY <3>1, <3>2, <3>3, <3>4
  <2>4. CASE i > Len(s) + 1
    <3> DEFINE k == i + (Len(t) - 1)
    <3>1. At(i) = k
      BY <1>1, <2>1, <2>4
    <3>2. k \in Nat /\ k > Len(s) + Len(t) /\ k <= Len(s) + Len(t) + Len(u)
      BY <1>1, <2>1, <2>4
    <3>3. part[i] = u[i - (Len(s) + 1)]
      <4>1. ~(i <= Len(s) + 1)
        BY <1>1, <2>1, <2>4
      <4> QED
        BY <1>4, <2>1, <4>1
    <3>4. k - (Len(s) + Len(t)) = i - (Len(s) + 1)
      BY <1>1, <2>1
    <3> HIDE DEF k
    <3>5. k \in 1..(Len(s) + Len(t) + Len(u)) /\ ~(k <= Len(s) + Len(t))
      BY <1>1, <3>2
    <3>6. all[k] = u[k - (Len(s) + Len(t))]
      BY <1>6, <3>5
    <3>7. k \in 1..Len(all)
      BY <1>6, <3>5
    <3> QED
      BY <3>1, <3>3, <3>4, <3>6, <3>7
  <2> QED
    BY <1>1, <2>1, <2>2, <2>3, <2>4
<1>9. ASSUME NEW i \in 1..Len(part), NEW j \in 1..Len(part), i < j
      PROVE  At(i) < At(j)
  <2>1. i \in Nat /\ j \in Nat /\ Len(t) >= 1
    BY <1>1, <1>4
  <2> QED
    BY <1>1, <1>9, <2>1
<1>10. Ordered(part, n)
  <2> HIDE DEF At
  <2>1. \A i \in 1..Len(part) : part[i] <= n
    BY <1>7, <1>8 DEF Ordered
  <2>2. \A i, j \in 1..Len(part) : i < j => part[i] < part[j]
    BY <1>7, <1>8, <1>9 DEF Ordered
  <2> QED
    BY <2>1, <2>2 DEF Ordered
<1> QED
  BY <1>3, <1>10

\* The beginning of rows in order is in order.
LEMMA OrderedPrefix ==
  ASSUME NEW s \in Seq(Nat), NEW t \in Seq(Nat), NEW n \in Nat, Ordered(s \o t, n)
  PROVE  Ordered(s, n)
<1>1. /\ Len(s) \in Nat /\ Len(t) \in Nat
      /\ \A i \in 1..(Len(s) + Len(t)) :
           (s \o t)[i] = IF i <= Len(s) THEN s[i] ELSE t[i - Len(s)]
      /\ Len(s \o t) = Len(s) + Len(t)
  BY ConcatProperties, LenProperties
<1>2. \A i \in 1..Len(s) : i \in 1..Len(s \o t) /\ (s \o t)[i] = s[i]
  BY <1>1
<1> QED
  BY <1>2 DEF Ordered

\* Every row on its way, or delivered, is one that was pushed.
OrderedRows == Ordered(delivered \o rows \o data, Pushed)

LEMMA OrderedNext ==
  ASSUME IInv, OrderedRows, [Next]_vars
  PROVE  OrderedRows'
<1>1. /\ delivered \in Seq(Nat) /\ rows \in Seq(Nat) /\ data \in Seq(Nat)
      /\ delivered \o rows \in Seq(Nat) /\ delivered \o rows \o data \in Seq(Nat)
      /\ Pushed \in Nat
  BY RowsAssumption, ConcatProperties DEF IInv, TypeOK, InHand, Numbers, Pushed
<1>2. CASE UNCHANGED <<delivered, rows, data>> /\ Pushed' = Pushed
  BY <1>2 DEF OrderedRows, Ordered
<1>3. CASE Push
  <2>1. /\ delivered' = delivered /\ rows' = rows /\ data' = Append(data, row)
        /\ row \in Nat /\ row = Pushed + 1 /\ Pushed' = row
    BY <1>1, <1>3, RowsAssumption DEF Push, Goto, Pushed, IInv, InHand, TypeOK, Numbers,
       loop
  <2>2. (delivered \o rows) \o Append(data, row) = Append(delivered \o rows \o data, row)
    BY <1>1, <2>1, PushRow
  <2>3. Ordered(Append(delivered \o rows \o data, Pushed + 1), Pushed + 1)
    BY <1>1, OrderedAppend DEF OrderedRows
  <2> QED
    BY <2>1, <2>2, <2>3 DEF OrderedRows
<1>4. CASE Swap
  <2>1. /\ delivered' = delivered /\ rows' \in {data, <<>>} /\ data' = <<>> /\ rows = <<>>
        /\ Pushed' = Pushed
    BY <1>4 DEF Swap, IInv, InHand, Pushed, thread
  <2>2. Ordered(delivered \o data, Pushed)
    BY <1>1, <2>1, ConcatEmptySeq DEF OrderedRows
  <2>3. CASE rows' = data
    <3>1. delivered' \o rows' \o data' = delivered \o data
      BY <1>1, <2>1, <2>3, ConcatEmptySeq, ConcatProperties
    <3> QED
      BY <2>1, <2>2, <3>1 DEF OrderedRows
  <2>4. CASE rows' = <<>>
    <3>1. delivered' \o rows' \o data' = delivered
      BY <1>1, <2>1, <2>4, ConcatEmptySeq
    <3> QED
      BY <1>1, <2>1, <2>2, <3>1, OrderedPrefix DEF OrderedRows
  <2> QED
    BY <2>1, <2>3, <2>4
<1>5. CASE Item
  <2>1. /\ delivered' = Append(delivered, Head(rows)) /\ rows' = Tail(rows) /\ rows # <<>>
        /\ data' = data /\ Pushed' = Pushed
    BY <1>5 DEF Item, IInv, InHand, Pushed, thread, async
  <2>2. Append(delivered, Head(rows)) \o Tail(rows) = delivered \o rows
    BY <1>1, <2>1, TakeRow
  <2> QED
    BY <2>1, <2>2 DEF OrderedRows
<1>6. CASE ItemThrows
  <2>1. /\ delivered' = Append(delivered, Head(rows)) /\ rows' = <<>> /\ rows # <<>>
        /\ data' = data /\ Pushed' = Pushed
    BY <1>6 DEF ItemThrows, IInv, InHand, Pushed, thread, async
  <2> QED
    BY <1>1, <2>1, OrderedFirst DEF OrderedRows
<1>7. CASE Bind \/ Step
  BY <1>2, <1>7, RowsAssumption
     DEF Bind, Step, Goto, Pushed, async, thread, loop, IInv, TypeOK
<1>8. CASE Send \/ Complete \/ LastSend
  BY <1>2, <1>8 DEF Send, Complete, LastSend, Goto, Pushed, async, thread, loop
<1>9. CASE \/ Wake \/ Check \/ Completed \/ CompletedThrows \/ CloseCallback \/ AfterEach
           \/ UNCHANGED vars
  BY <1>2, <1>9
     DEF Wake, Check, Completed, CompletedThrows, CloseCallback, AfterEach, vars, Pushed,
         async, thread, loop
<1> QED
  BY <1>3, <1>4, <1>5, <1>6, <1>7, <1>8, <1>9 DEF Next, Work, AsyncEach

\* Rows arrive in the order of the result and none twice, for every length of
\* the result, whichever callbacks throw and lose the rows AsyncEach holds.
THEOREM RowsArriveInOrder == Spec => []RowsInOrder
<1>1. Init => OrderedRows
  <2>1. <<>> \o <<>> \o <<>> = <<>> /\ Len(<<>>) = 0
    BY ConcatEmptySeq, EmptySeq
  <2> QED
    BY <2>1 DEF Init, OrderedRows, Ordered, Pushed
<1>2. IInv /\ OrderedRows /\ [Next]_vars => OrderedRows'
  BY OrderedNext
<1>3. OrderedRows => RowsInOrder
  BY DEF OrderedRows, Ordered, RowsInOrder
<1> QED
  BY <1>1, <1>2, <1>3, EachInvariant, PTL DEF Spec
=============================================================================
