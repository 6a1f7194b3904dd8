----------------------------- MODULE MCDatabase -----------------------------
\* Instances of Database for TLC: the calls of a run and their kinds.
EXTENDS Database, TLC

CONSTANTS e1, p1, p2, w1, c1, f1, f2

\* Two statements, a close and two configures, of which the second may remove
\* the hook of the first; under serialize() all are exclusive.  The second is
\* issued when the first has run and the statements were asked for.
MixCalls == {p1, p2, c1, f1, f2}
MixKinds ==
  p1 :> "prepare" @@ p2 :> "prepare" @@ c1 :> "close"
  @@ f1 :> "configure" @@ f2 :> "configure"
MixSymmetry == Permutations({p1, p2})
MixBound ==
  stage[f2] # "new" => stage[f1] = "over" /\ "new" \notin {stage[p1], stage[p2]}

\* One call of each kind that cannot leave the queue to itself, and a close.
CoreCalls == {e1, p1, w1, c1}
CoreKinds == e1 :> "exec" @@ p1 :> "prepare" @@ w1 :> "wait" @@ c1 :> "close"

\* Calls queued around a configure.
ConfigureCalls == {e1, f1, p1}
ConfigureKinds == e1 :> "exec" @@ f1 :> "configure" @@ p1 :> "prepare"
=============================================================================
