---------------------------- MODULE MCStatement ----------------------------
(***************************************************************************)
(* Instances of Statement for TLC.                                         *)
(***************************************************************************)
EXTENDS Statement

CONSTANTS bind, get, get2, run, all, each, reset, finalize, finalize2

\* The operations of a run have the kind of their name.
MCKindOf ==
  [o \in Ops |->
     CASE o = bind -> "bind" [] o \in {get, get2} -> "get" [] o = run -> "run"
       [] o = all -> "all" [] o = each -> "each" [] o = reset -> "reset"
       [] o \in {finalize, finalize2} -> "finalize"]

\* The parameters of the named operations.
MCParams ==
  [o \in Ops |-> CASE o = bind -> "good" [] o = each -> "bad"
                  [] OTHER -> "none"]
=============================================================================
