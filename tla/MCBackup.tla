------------------------------ MODULE MCBackup ------------------------------
(***************************************************************************)
(* Instances of Backup for TLC.                                            *)
(***************************************************************************)
EXTENDS Backup

CONSTANTS step1, step2, finish1, finish2

\* The operations of a run have the kind of their name.
MCKindOf == [o \in Ops |-> IF o \in {step1, step2} THEN "step" ELSE "finish"]

\* The default, the two sets that test/backup.test.js gives, and one that
\* tolerates the end of the backup and so disables automatic finishing.
MCRetrySets == {DefaultRetry, {}, {"ok"}, {"busy", "done"}}
=============================================================================
