--------------------------- MODULE MCLockProvenance ---------------------------
(* Small instances of LockProvenance for TLC. *)
EXTENDS LockProvenance, TLC

CONSTANTS cp2k, sub, dev, var, note, one, other

MCUrlOf == cp2k :> one @@ sub :> one @@ dev :> other
MCCopyOf == var :> dev
Symmetry == Permutations(Commit) \cup Permutations(Version) \cup Permutations({cp2k, sub})

(* At first cp2k is pinned and dev floats, all branches are at one commit,  *)
(* and the comment is the variable's.                                      *)
MCInit ==
    /\ Init
    /\ text[cp2k] # None /\ text[dev] = None /\ text[note] = text[var]
    /\ \A r, q \in Repo : tip[r] = tip[q]
MCSpec == MCInit /\ [][Next]_vars
===============================================================================
