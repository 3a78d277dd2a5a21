------------------------------- MODULE Admission -------------------------------
(***************************************************************************)
(* What consumers may rely on, whoever publishes: packages never become    *)
(* unavailable; a coverage record appears only when everything it needs is *)
(* available from the backend it names; and the store is claimed healthy   *)
(* only on the strength of a record that exists.                           *)
(***************************************************************************)
CONSTANTS Backend, Spec, Lock, NoClaim

VARIABLES
    avail,    \* packages available from each backend
    record,   \* the coverage record of each lock: none or one
    claim     \* the lock whose record makes the store healthy

vars == <<avail, record, claim>>

Record == [kind : Backend, needs : SUBSET Spec]

Init ==
    /\ avail = [b \in Backend |-> {}]
    /\ record = [l \in Lock |-> {}]
    /\ claim = NoClaim

(* A producer pushes; another backend's packages stay as they are. *)
Publish(b) ==
    /\ \E new \in SUBSET Spec : avail' = [avail EXCEPT ![b] = @ \cup new]
    /\ UNCHANGED <<record, claim>>

Cover(l) ==
    /\ \E r \in Record : /\ r.needs \subseteq avail[r.kind]
                         /\ record' = [record EXCEPT ![l] = {r}]
    /\ UNCHANGED <<avail, claim>>

Claim(l) ==
    /\ record[l] # {}
    /\ claim' = l
    /\ UNCHANGED <<avail, record>>

Withdraw ==
    /\ claim' = NoClaim
    /\ UNCHANGED <<avail, record>>

Next ==
    \/ \E b \in Backend : Publish(b)
    \/ \E l \in Lock : Cover(l) \/ Claim(l)
    \/ Withdraw

AdmissionSpec == Init /\ [][Next]_vars

(* Every record is served, and a claim rests on a record. *)
Served ==
    /\ \A l \in Lock : \A r \in record[l] : r.needs \subseteq avail[r.kind]
    /\ claim # NoClaim => claim \in Lock /\ record[claim] # {}

===============================================================================
