------------------------------- MODULE MCMirror -------------------------------
(* Small instances of Mirror for TLC. *)
EXTENDS Mirror, TLC

CONSTANTS e1, l1, l2, s1, s2, s3

MCNeeds == l1 :> {s1, s2} @@ l2 :> {s2, s3}
MCEnvName == e1 :> "cp2k-env"
MCNoHostLock == e1 :> NoLock

(* Command lines of each kind: the whole workflow, its stages in the order *)
(* of the explicit flags, the standalone verbs, and both readers.          *)
MCPlans == {<<"mirror", "verify", "prune">>, <<"mirror", "prune", "verify">>,
            <<"verify">>, <<"reuse">>, <<"build">>, <<"image">>}
MCPrune == {<<"mirror", "prune">>}
MCSymmetry == Permutations(Proc)
===============================================================================
