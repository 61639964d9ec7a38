---------------------------- MODULE MCThreadPool ----------------------------
(***************************************************************************)
(* processMultipleConfigs with two configurations of one chunk each; each  *)
(* configuration's job is a processTrace.                                  *)
(***************************************************************************)
EXTENDS ThreadPool, TLC

CONSTANTS c1, c2, t1, t2, root

NestedTasks == {c1, c2, t1, t2}
NestedChildren == (root :> <<c1, c2>>) @@ (c1 :> <<t1>>) @@ (c2 :> <<t2>>)
                    @@ [t \in {t1, t2} |-> <<>>]
=============================================================================
