----------------------------- MODULE MCBuildcache -----------------------------
(* Small instances of Buildcache for TLC.  Two environments share one Spack *)
(* environment name, as the CP2K environments do; their locks overlap in    *)
(* one package.                                                             *)
EXTENDS Buildcache, TLC

CONSTANTS e1, e2, l1, l2, s1, s2

MCSpecsOf == l1 :> {s1} @@ l2 :> {s1, s2}
MCEnvName == e1 :> "cp2k-env" @@ e2 :> "cp2k-env"
MCHostLock == e1 :> l1 @@ e2 :> l2
MCOneHostLock == e1 :> l1
MCSymmetry == Permutations(Proc)
===============================================================================
