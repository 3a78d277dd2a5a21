----------------------------- MODULE MCMirrorPrune -----------------------------
(* Small instances of MirrorPrune for TLC. *)
EXTENDS MirrorPrune, TLC

CONSTANTS c1, c2, c3, g, a1, a2, cp2k, sub, main, dev, k1, k2, k3, archives, sources

MCDirOf == c1 :> cp2k @@ c2 :> cp2k @@ c3 :> cp2k @@ g :> sub @@ a1 :> Archive @@ a2 :> Archive
MCRepoOf == main :> cp2k @@ dev :> cp2k
MCNameBefore == {<<c1, c2>>, <<c1, c3>>, <<c2, c3>>, <<a1, a2>>}
MCTarget == k1 :> a1 @@ k2 :> a2 @@ k3 :> c1
MCPackageOf == k1 :> archives @@ k2 :> archives @@ k3 :> sources
MCDags == {[pins |-> {c3, a1}, floats |-> {main}], [pins |-> {g, a2}, floats |-> {main, dev}]}
===============================================================================
