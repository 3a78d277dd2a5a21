-------------------------- MODULE MirrorPrune_proofs ---------------------------
(***************************************************************************)
(* Proofs about MirrorPrune, for every mirror, every set of fetch specs    *)
(* and every history.                                                      *)
(*                                                                         *)
(* A plan is made once and carried out over many steps, so what holds of   *)
(* its steps must be known of the plan: Planned says that it removes only  *)
(* what its specs identify, spares what the run has downloaded, and takes  *)
(* along every link and only the folders that it may.  Downloaded says why *)
(* a plan spares the downloads: each is pinned, or fresh in a floating     *)
(* repository.  Survived says that a plan leaves every floating repository *)
(* a commit, because a finite set of files has a newest one.               *)
(***************************************************************************)
EXTENDS MirrorPrune, FiniteSetTheorems, TLAPS

(* What identity lets go. *)
Identified(b) ==
    /\ b \notin dag.pins
    /\ \/ \E c \in dag.pins : DirOf[c] = DirOf[b]
       \/ DirOf[b] \in {RepoOf[r] : r \in dag.floats}

Planned ==
    /\ pc # "apply" => plan = NoPlan
    /\ \A b \in plan.blobs : Identified(b) /\ b \notin got
    /\ ~broken => \A k \in links : Target[k] \in tree \/ k \in plan.links
    /\ \A k \in links : Target[k] \in plan.blobs => k \in plan.links

Downloaded ==
    /\ got \subseteq tree
    /\ pc = "reuse" => got = {}
    /\ pc = "started" => fresh <= clock + 1
    /\ pc = "filled" =>
         \A b \in got : b \in dag.pins \/ (DirOf[b] \in Floating /\ mtime[b] >= fresh)

PruneInv == TypeOK /\ Planned /\ Downloaded /\ FoldersRemovable

-------------------------------------------------------------------------------
(* Making a plan.                                                          *)

(* Whatever is doomed is in the mirror, and its identity is known. *)
LEMMA DoomedIdentified ==
  ASSUME TypeOK, NEW b \in Doomed
  PROVE  b \in tree /\ Identified(b)
  <1> USE ConstantsAssumption DEF TypeOK
  <1>1. CASE b \in DoomedArchives
    BY <1>1 DEF DoomedArchives, In, Identified
  <1>2. CASE b \notin DoomedArchives
    <2>1. PICK d \in Allowed \cup Floating : b \in In(d) \ Keep(d)
      BY <1>2 DEF Doomed
    <2>2. b \in tree /\ DirOf[b] = d
      BY <2>1 DEF In
    <2>3. CASE d \in Allowed
      <3>1. b \notin dag.pins
        BY <2>1, <2>3 DEF Keep
      <3>2. \E c \in dag.pins : DirOf[c] = d
        BY <2>3 DEF Allowed
      <3>3. QED
        BY <2>2, <3>1, <3>2 DEF Identified
    <2>4. CASE d \notin Allowed
      <3>1. d \in Floating /\ d \in Git
        BY <2>1, <2>4 DEF Floating, Dag
      <3>2. b \notin dag.pins
        BY <2>2, <2>4, <3>1 DEF Allowed
      <3>3. QED
        BY <2>2, <3>1, <3>2 DEF Floating, Identified
    <2>5. QED
      BY <2>3, <2>4
  <1>3. QED
    BY <1>1, <1>2

(* A run spares what it has downloaded. *)
LEMMA DoomedSparesDownloads ==
  ASSUME TypeOK, Downloaded, pc = "filled", NEW b \in got
  PROVE  b \notin Doomed
  <1>1. b \in tree /\ (b \in dag.pins \/ (DirOf[b] \in Floating /\ mtime[b] >= fresh))
    BY DEF Downloaded
  <1>2. CASE b \in dag.pins
    BY <1>2, DoomedIdentified DEF Identified
  <1>3. CASE b \notin dag.pins
    <2>1. DirOf[b] \in Floating /\ mtime[b] >= fresh /\ DirOf[b] # Archive
      BY <1>1, <1>3, ConstantsAssumption DEF Floating, Git, TypeOK, Dag
    <2>2. b \in Fresh(In(DirOf[b]))
      BY <1>1, <2>1 DEF Fresh, In
    <2>3. b \in Keep(DirOf[b])
      <3>1. b \in KeepFloating(In(DirOf[b]))
        BY <2>2 DEF KeepFloating
      <3>2. b \in In(DirOf[b])
        BY <1>1 DEF In
      <3>3. QED
        BY <2>1, <3>1, <3>2 DEF Keep
    <2>4. b \notin DoomedArchives
      BY <2>1 DEF DoomedArchives, In
    <2>5. \A d : b \in In(d) => d = DirOf[b]
      BY DEF In
    <2>6. QED
      BY <2>3, <2>4, <2>5 DEF Doomed
  <1>4. QED
    BY <1>2, <1>3

(* A new plan is as Planned says. *)
LEMMA MakePlanPlanned ==
  ASSUME PruneInv, pc \in {"filled", "reuse"}, MakePlan, UNCHANGED <<mirrorVars, broken>>
  PROVE  /\ plan' \in [blobs : SUBSET Blob, links : SUBSET Link, folders : SUBSET Package]
         /\ pc' \in {"apply", "idle"} /\ (Ended \/ UNCHANGED localVars)
         /\ Planned' /\ FoldersRemovable'
  <1> USE DEF mirrorVars, localVars
  <1>2. /\ TypeOK /\ Planned /\ Downloaded /\ plan = NoPlan
        /\ ~broken => \A k \in links : Target[k] \in tree
    BY DEF PruneInv, Planned, NoPlan
  <1>3. CASE plan' = NoPlan /\ Ended
    BY <1>2, <1>3 DEF NoPlan, Planned, FoldersRemovable, Ended
  <1>4. CASE /\ plan' = [blobs |-> Doomed, links |-> Orphans(Doomed),
                         folders |-> Emptied(Orphans(Doomed))]
             /\ pc' = "apply" /\ UNCHANGED localVars
    <2>1. /\ plan'.blobs = Doomed /\ plan'.links = Orphans(Doomed)
          /\ plan'.folders = Emptied(Orphans(Doomed)) /\ pc' = "apply"
      BY <1>4
    <2>2. \A b \in Doomed : b \in tree /\ Identified(b) /\ b \notin got
      BY <1>2, DoomedIdentified, DoomedSparesDownloads DEF Downloaded
    <2>3. \A b : Identified(b)' <=> Identified(b)
      BY <1>4 DEF Identified
    <2>4. \A b \in plan'.blobs : Identified(b)' /\ b \notin got'
      BY <1>4, <2>1, <2>2, <2>3
    <2>5. \A k \in links' : Target[k] \in plan'.blobs => k \in plan'.links
      BY <2>1 DEF Orphans
    <2>6. Planned'
      BY <1>2, <2>1, <2>4, <2>5 DEF Planned
    <2>7. FoldersRemovable'
      BY <2>1 DEF FoldersRemovable, Emptied
    <2>8. /\ Doomed \subseteq Blob /\ Orphans(Doomed) \subseteq Link
          /\ Emptied(Orphans(Doomed)) \subseteq Package
      BY <1>2, <2>2, ConstantsAssumption DEF TypeOK, Orphans, Emptied
    <2>9. QED
      BY <1>4, <2>1, <2>6, <2>7, <2>8
  <1>5. QED
    BY <1>3, <1>4 DEF MakePlan

-------------------------------------------------------------------------------
(* The invariant.                                                          *)

(* What a mirror creation leaves: no link without its blob. *)
LEMMA MirrorCreateFacts ==
  ASSUME TypeOK, NEW bs \in SUBSET Blob, MirrorCreate(bs)
  PROVE  /\ tree' \subseteq Blob /\ tree \subseteq tree' /\ bs \subseteq tree'
         /\ mtime' \in [Blob -> Nat] /\ \A b \in tree : mtime'[b] = mtime[b]
         /\ \A b \in bs \ tree : mtime'[b] = clock + 1
         /\ links' \subseteq Link /\ folders' \subseteq Package
         /\ \A k \in links' : k \in links \/ Target[k] \in tree'
         /\ clock' = clock + 1 /\ clock' \in 0 .. MaxClock
  <1> USE ConstantsAssumption DEF TypeOK, MirrorCreate
  <1>1. clock' = clock + 1 /\ clock' \in 0 .. MaxClock
    OBVIOUS
  <1>2. tree' \subseteq Blob /\ tree \subseteq tree' /\ bs \subseteq tree'
    OBVIOUS
  <1>3. mtime' \in [Blob -> Nat] /\ \A b \in tree : mtime'[b] = mtime[b]
    OBVIOUS
  <1>4. \A b \in bs \ tree : mtime'[b] = clock + 1
    OBVIOUS
  <1>5. /\ links' \subseteq Link /\ folders' \subseteq Package
        /\ \A k \in links' : k \in links \/ Target[k] \in tree'
    OBVIOUS
  <1>6. QED
    BY <1>1, <1>2, <1>3, <1>4, <1>5

(* The local variables of no invocation are well typed. *)
LEMMA NoneOf == NoDag \in Dag /\ Never \in 1 .. MaxClock + 1
  BY ConstantsAssumption DEF NoDag, Dag, Never

(* What is wanted are blobs, each of them pinned or the tip of a branch in *)
(* its repository.                                                         *)
LEMMA WantedBlobs ==
  ASSUME NEW d \in Dag, NEW bs \in Wanted(d)
  PROVE  /\ bs \in SUBSET Blob /\ SUBSET bs \subseteq SUBSET Blob
         /\ \A b \in bs : b \in d.pins \/ DirOf[b] \in {RepoOf[r] : r \in d.floats}
  <1>1. PICK t \in Tips : bs = d.pins \cup {t[r] : r \in d.floats}
    BY DEF Wanted
  <1>2. d.pins \subseteq Blob /\ \A r \in d.floats : t[r] \in Blob /\ DirOf[t[r]] = RepoOf[r]
    BY DEF Tips, Dag
  <1>3. QED
    BY <1>1, <1>2

(* The invariant holds of an empty mirror. *)
LEMMA PruneInit == Init => PruneInv
  <1> SUFFICES ASSUME Init PROVE PruneInv
    OBVIOUS
  <1> USE ConstantsAssumption DEF Init
  <1>1. TypeOK
    <2>1. NoDag \in Dag /\ plan \in [blobs : SUBSET Blob, links : SUBSET Link, folders : SUBSET Package]
      BY DEF NoDag, Dag, NoPlan
    <2>2. mtime \in [Blob -> Nat]
      OBVIOUS
    <2>3. clock \in 0 .. MaxClock /\ fresh \in 1 .. MaxClock + 1
      BY DEF Never
    <2>4. QED
      BY <2>1, <2>2, <2>3 DEF TypeOK
  <1>2. Planned /\ Downloaded /\ FoldersRemovable
    BY DEF Planned, Downloaded, FoldersRemovable, NoPlan
  <1>3. QED
    BY <1>1, <1>2 DEF PruneInv

(* The steps outside the application of a plan. *)
LEMMA PrepareNext ==
  ASSUME PruneInv, Start \/ Fill \/ FillPartly \/ PruneRun \/ Reuse \/ PruneAgain \/ Applied \/ Return
  PROVE  PruneInv'
  <1> USE ConstantsAssumption DEF PruneInv, mirrorVars, worldVars, localVars
  <1>1. ASSUME Start PROVE PruneInv'
    <2>1. pc = "idle" /\ pc' = "started" /\ got' = {} /\ plan' = NoPlan /\ plan = NoPlan
      BY <1>1 DEF Start, Planned
    <2>2. TypeOK'
      <3>1. dag' \in Dag /\ fresh' \in 1 .. MaxClock + 1
        BY <1>1 DEF Start, TypeOK, Dag
      <3>2. QED
        BY <1>1, <3>1 DEF Start, TypeOK
    <2>3. Planned' /\ FoldersRemovable' /\ Downloaded'
      BY <1>1, <2>1 DEF Start, Planned, FoldersRemovable, Downloaded, NoPlan
    <2>4. QED
      BY <2>2, <2>3
  <1>2. ASSUME Fill PROVE PruneInv'
    <2>1. pc = "started" /\ pc' = "filled" /\ plan = NoPlan /\ plan' = NoPlan /\ dag \in Dag
      BY <1>2 DEF Fill, Planned, TypeOK
    <2>2. PICK bs \in Wanted(dag) : MirrorCreate(bs) /\ got' = bs \ tree
      BY <1>2 DEF Fill
    <2>0. UNCHANGED <<sidecar, dag, fresh, plan, broken>>
      BY <1>2 DEF Fill
    <2>3. /\ tree' \subseteq Blob /\ tree \subseteq tree' /\ bs \subseteq tree'
          /\ mtime' \in [Blob -> Nat]
          /\ \A b \in bs \ tree : mtime'[b] = clock + 1
          /\ links' \subseteq Link /\ folders' \subseteq Package
          /\ \A k \in links' : k \in links \/ Target[k] \in tree'
          /\ clock' \in 0 .. MaxClock
      BY <2>1, <2>2, WantedBlobs, MirrorCreateFacts
    <2>5. TypeOK'
      BY <2>0, <2>1, <2>2, <2>3 DEF TypeOK
    <2>6. Planned' /\ FoldersRemovable'
      BY <2>0, <2>1, <2>3 DEF Planned, FoldersRemovable, NoPlan
    <2>7. Downloaded'
      <3>1. fresh <= clock + 1
        BY <2>1 DEF Downloaded
      <3>2. ASSUME NEW b \in got'
            PROVE  b \in dag'.pins \/ (DirOf[b] \in Floating' /\ mtime'[b] >= fresh')
        <4>1. b \in bs /\ mtime'[b] = clock + 1
          BY <2>2, <2>3
        <4>2. b \in dag.pins \/ DirOf[b] \in Floating
          BY <2>1, <2>2, <4>1, WantedBlobs DEF Floating
        <4>3. clock \in Nat /\ fresh \in Nat
          BY DEF TypeOK
        <4>4. QED
          BY <2>0, <3>1, <4>1, <4>2, <4>3 DEF Floating
      <3>3. got' \subseteq tree'
        BY <2>2, <2>3
      <3>4. QED
        BY <2>1, <3>2, <3>3 DEF Downloaded
    <2>8. QED
      BY <2>5, <2>6, <2>7
  <1>3. ASSUME PruneRun PROVE PruneInv'
    <2>1. /\ pc = "filled" /\ MakePlan /\ UNCHANGED <<mirrorVars, clock, broken>>
          /\ sidecar' = dag
      BY <1>3 DEF PruneRun
    <2>2. /\ plan' \in [blobs : SUBSET Blob, links : SUBSET Link, folders : SUBSET Package]
          /\ pc' \in {"apply", "idle"} /\ (Ended \/ UNCHANGED localVars)
          /\ Planned' /\ FoldersRemovable'
      BY <2>1, MakePlanPlanned
    <2>3. TypeOK' /\ Downloaded'
      BY <2>1, <2>2, NoneOf DEF TypeOK, Downloaded, Ended
    <2>4. QED
      BY <2>2, <2>3
  <1>4. ASSUME Reuse PROVE PruneInv'
    <2>1. TypeOK'
      BY <1>4 DEF Reuse, TypeOK, Never
    <2>2. Planned' /\ Downloaded' /\ FoldersRemovable'
      BY <1>4 DEF Reuse, Planned, Downloaded, FoldersRemovable, NoPlan
    <2>3. QED
      BY <2>1, <2>2
  <1>5. ASSUME PruneAgain PROVE PruneInv'
    <2>1. pc = "reuse" /\ MakePlan /\ UNCHANGED <<mirrorVars, worldVars, broken>>
      BY <1>5 DEF PruneAgain
    <2>2. /\ plan' \in [blobs : SUBSET Blob, links : SUBSET Link, folders : SUBSET Package]
          /\ pc' \in {"apply", "idle"} /\ (Ended \/ UNCHANGED localVars)
          /\ Planned' /\ FoldersRemovable'
      BY <2>1, MakePlanPlanned
    <2>3. TypeOK' /\ Downloaded'
      BY <2>1, <2>2, NoneOf DEF TypeOK, Downloaded, Ended
    <2>4. QED
      BY <2>2, <2>3
  <1>6. ASSUME Applied PROVE PruneInv'
    <2>1. plan = NoPlan /\ pc' = "pruned" /\ UNCHANGED <<mirrorVars, worldVars, localVars, plan, broken>>
      BY <1>6 DEF Applied
    <2>2. TypeOK' /\ Downloaded'
      BY <2>1 DEF TypeOK, Downloaded
    <2>3. Planned' /\ FoldersRemovable'
      BY <2>1 DEF Planned, FoldersRemovable, NoPlan
    <2>4. QED
      BY <2>2, <2>3
  <1>7. ASSUME Return PROVE PruneInv'
    <2>1. plan = NoPlan /\ Ended /\ UNCHANGED <<mirrorVars, worldVars, plan, broken>>
      BY <1>7 DEF Return, Planned
    <2>2. TypeOK' /\ Downloaded'
      BY <2>1, NoneOf DEF TypeOK, Downloaded, Ended
    <2>3. Planned' /\ FoldersRemovable'
      BY <2>1 DEF Planned, FoldersRemovable, NoPlan, Ended
    <2>4. QED
      BY <2>2, <2>3
  <1>8. ASSUME FillPartly PROVE PruneInv'
    <2>1. /\ plan = NoPlan /\ dag \in Dag
          /\ Ended /\ UNCHANGED <<sidecar, plan, broken>>
      BY <1>8 DEF FillPartly, Planned, TypeOK
    <2>2. PICK bs \in Wanted(dag) : \E part \in SUBSET bs : MirrorCreate(part)
      BY <1>8 DEF FillPartly
    <2>3. /\ tree' \subseteq Blob /\ tree \subseteq tree' /\ mtime' \in [Blob -> Nat]
          /\ links' \subseteq Link /\ folders' \subseteq Package
          /\ \A k \in links' : k \in links \/ Target[k] \in tree'
          /\ clock' \in 0 .. MaxClock
      BY <2>1, <2>2, WantedBlobs, MirrorCreateFacts
    <2>4. TypeOK' /\ Downloaded'
      BY <2>1, <2>3, NoneOf DEF TypeOK, Downloaded, Ended
    <2>5. Planned' /\ FoldersRemovable'
      BY <2>1, <2>3 DEF Planned, FoldersRemovable, NoPlan, Ended
    <2>6. QED
      BY <2>4, <2>5
  <1>9. QED
    BY <1>1, <1>2, <1>3, <1>4, <1>5, <1>6, <1>7, <1>8

(* The steps of an application: what is left of the plan stays as planned, *)
(* wherever it is cut short.                                               *)
LEMMA ApplyNext ==
  ASSUME PruneInv, UnlinkBlob \/ UnlinkLink \/ RemoveFolder \/ Crash
  PROVE  PruneInv'
  <1> USE DEF PruneInv, mirrorVars, worldVars, localVars
  <1>1. ASSUME UnlinkBlob PROVE PruneInv'
    <2>1. PICK b \in plan.blobs : /\ tree' = tree \ {b} /\ mtime' = [mtime EXCEPT ![b] = 0]
                                 /\ plan' = [plan EXCEPT !.blobs = @ \ {b}]
      BY <1>1 DEF UnlinkBlob
    <2>2. /\ UNCHANGED <<links, folders, worldVars, pc, localVars, broken>>
          /\ pc = "apply"
      BY <1>1 DEF UnlinkBlob
    <2>3. /\ plan'.blobs = plan.blobs \ {b} /\ plan'.links = plan.links
          /\ plan'.folders = plan.folders
      BY <2>1 DEF TypeOK
    <2>4. TypeOK'
      BY <2>1, <2>2 DEF TypeOK
    <2>5. Planned'
      <3>1. \A k \in links : Target[k] = b => k \in plan.links
        BY DEF Planned
      <3>2. QED
        BY <2>1, <2>2, <2>3, <3>1 DEF Planned, Identified
    <2>6. Downloaded'
      BY <2>1, <2>2 DEF Downloaded, Planned
    <2>7. FoldersRemovable'
      BY <2>2, <2>3 DEF FoldersRemovable
    <2>8. QED
      BY <2>4, <2>5, <2>6, <2>7
  <1>2. ASSUME UnlinkLink PROVE PruneInv'
    <2>1. PICK k \in plan.links :
            links' = links \ {k} /\ plan' = [plan EXCEPT !.links = @ \ {k}]
      BY <1>2 DEF UnlinkLink
    <2>2. /\ UNCHANGED <<tree, mtime, folders, worldVars, pc, localVars, broken>>
          /\ pc = "apply"
      BY <1>2 DEF UnlinkLink
    <2>3. /\ plan'.links = plan.links \ {k} /\ plan'.blobs = plan.blobs
          /\ plan'.folders = plan.folders
      BY <2>1 DEF TypeOK
    <2>4. TypeOK'
      BY <2>1, <2>2 DEF TypeOK
    <2>5. Planned'
      BY <2>1, <2>2, <2>3 DEF Planned, Identified
    <2>6. Downloaded'
      BY <2>2 DEF Downloaded
    <2>7. FoldersRemovable'
      BY <2>1, <2>3 DEF FoldersRemovable
    <2>8. QED
      BY <2>4, <2>5, <2>6, <2>7
  <1>3. ASSUME RemoveFolder PROVE PruneInv'
    <2>1. PICK p \in plan.folders :
            folders' = folders \ {p} /\ plan' = [plan EXCEPT !.folders = @ \ {p}]
      BY <1>3 DEF RemoveFolder
    <2>2. /\ UNCHANGED <<tree, mtime, links, worldVars, pc, localVars, broken>>
          /\ pc = "apply"
      BY <1>3 DEF RemoveFolder
    <2>3. /\ plan'.links = plan.links /\ plan'.blobs = plan.blobs
          /\ plan'.folders = plan.folders \ {p}
      BY <2>1 DEF TypeOK
    <2>4. TypeOK'
      BY <2>1, <2>2 DEF TypeOK
    <2>5. Planned' /\ Downloaded' /\ FoldersRemovable'
      BY <2>2, <2>3 DEF Planned, Downloaded, FoldersRemovable, Identified
    <2>6. QED
      BY <2>4, <2>5
  <1>4. ASSUME Crash PROVE PruneInv'
    <2>1. /\ pc' = "idle" /\ dag' = NoDag /\ fresh' = Never /\ got' = {}
          /\ plan' = NoPlan /\ UNCHANGED <<mirrorVars, worldVars>>
          /\ broken' = (broken \/ (pc = "apply" /\ plan # NoPlan))
      BY <1>4 DEF Crash, Ended
    <2>2. TypeOK'
      BY <2>1, NoneOf DEF TypeOK, NoPlan
    <2>3. ~broken' => ~broken /\ plan = NoPlan
      BY <2>1 DEF Planned
    <2>4. Planned' /\ FoldersRemovable'
      BY <2>1, <2>3 DEF Planned, FoldersRemovable, NoPlan
    <2>5. Downloaded'
      BY <2>1 DEF Downloaded
    <2>6. QED
      BY <2>2, <2>4, <2>5
  <1>5. QED
    BY <1>1, <1>2, <1>3, <1>4

(* What others do to the mirror while this invocation does not hold it. *)
LEMMA OthersNext ==
  ASSUME PruneInv, OthersFill \/ Restore \/ UNCHANGED vars
  PROVE  PruneInv'
  <1> USE ConstantsAssumption DEF PruneInv, mirrorVars, worldVars, localVars
  <1>1. ASSUME OthersFill PROVE PruneInv'
    <2>1. /\ pc \in {"started", "filled"} /\ plan = NoPlan
          /\ UNCHANGED <<sidecar, pc, localVars, plan, broken>>
      BY <1>1 DEF OthersFill, Planned
    <2>2. PICK d \in Dag : \E bs \in Wanted(d) : \E part \in SUBSET bs : MirrorCreate(part)
      BY <1>1 DEF OthersFill, Dag
    <2>3. /\ tree' \subseteq Blob /\ tree \subseteq tree'
          /\ mtime' \in [Blob -> Nat] /\ \A b \in tree : mtime'[b] = mtime[b]
          /\ links' \subseteq Link /\ folders' \subseteq Package
          /\ \A k \in links' : k \in links \/ Target[k] \in tree'
          /\ clock' = clock + 1 /\ clock' \in 0 .. MaxClock
      BY <2>2, WantedBlobs, MirrorCreateFacts
    <2>4. TypeOK'
      BY <2>1, <2>3 DEF TypeOK
    <2>5. Planned' /\ FoldersRemovable'
      BY <2>1, <2>3 DEF Planned, FoldersRemovable, NoPlan
    <2>6. Downloaded'
      <3>1. clock \in Nat /\ fresh \in Nat
        BY DEF TypeOK
      <3>2. Floating' = Floating
        BY <2>1 DEF Floating
      <3>3. pc' = "started" => fresh' <= clock' + 1
        BY <2>1, <2>3, <3>1 DEF Downloaded
      <3>4. got' \subseteq tree'
        BY <2>1, <2>3 DEF Downloaded
      <3>5. pc' = "filled" =>
              \A b \in got' : b \in dag'.pins \/ (DirOf[b] \in Floating' /\ mtime'[b] >= fresh')
        BY <2>1, <2>3, <3>2 DEF Downloaded
      <3>6. QED
        BY <2>1, <3>3, <3>4, <3>5 DEF Downloaded
    <2>7. QED
      BY <2>4, <2>5, <2>6
  <1>3. ASSUME Restore PROVE PruneInv'
    BY <1>3 DEF Restore, TypeOK, Planned, Downloaded, FoldersRemovable, Identified
  <1>4. ASSUME UNCHANGED vars PROVE PruneInv'
    BY <1>4 DEF vars, TypeOK, Planned, Downloaded, FoldersRemovable, Identified, Floating
  <1>5. QED
    BY <1>1, <1>3, <1>4

(* Every reachable state satisfies the invariant. *)
THEOREM PruneInvariant == PruneSpec => []PruneInv
  <1>1. PruneInv /\ [Next]_vars => PruneInv'
    BY PrepareNext, ApplyNext, OthersNext DEF Next
  <1>2. QED
    BY PruneInit, <1>1, PTL DEF PruneSpec

-------------------------------------------------------------------------------
(* What follows from it.                                                   *)

(* Every variable keeps its type. *)
THEOREM TypeCorrect == PruneSpec => []TypeOK
  <1>1. PruneInv => TypeOK
    BY DEF PruneInv
  <1>2. QED
    BY PruneInvariant, <1>1, PTL

(* What a run has downloaded stays until it ends, also when the mirror is  *)
(* filled by others, or its prune is cut short.                            *)
THEOREM FetchedTheorem == PruneSpec => []FetchedKept
  <1>1. PruneInv => FetchedKept
    BY DEF PruneInv, Downloaded, FetchedKept
  <1>2. QED
    BY PruneInvariant, <1>1, PTL

(* Without a cut-short application every link has its blob. *)
THEOREM LinksTheorem == PruneSpec => []LinksFollow
  <1>1. PruneInv => LinksFollow
    BY DEF PruneInv, Planned, LinksFollow, NoPlan
  <1>2. QED
    BY PruneInvariant, <1>1, PTL

(* rmdir never finds a link or another file. *)
THEOREM FoldersTheorem == PruneSpec => []FoldersRemovable
  <1>1. PruneInv => FoldersRemovable
    BY DEF PruneInv
  <1>2. QED
    BY PruneInvariant, <1>1, PTL

(* Nothing is removed that the fetch specs pin or do not speak of: only    *)
(* UnlinkBlob removes, and it takes what Planned says of its plan.         *)
THEOREM IdentityTheorem == PruneSpec => IdentityDecides
  <1>1. ASSUME PruneInv, [Next]_vars, NEW b \in tree \ tree'
        PROVE  Identified(b)
    <2>1. \A d : MirrorCreate(d) => tree \subseteq tree'
      BY DEF MirrorCreate
    <2>2. ASSUME UnlinkBlob PROVE Identified(b)
      BY <1>1, <2>2 DEF UnlinkBlob, PruneInv, Planned
    <2>3. QED
      BY <1>1, <2>1, <2>2 DEF Next, Start, Fill, FillPartly, PruneRun, Reuse, PruneAgain, UnlinkLink,
         RemoveFolder, Applied, Return, Crash, OthersFill, Restore, Ended, vars, mirrorVars
  <1>2. PruneInv /\ [Next]_vars =>
          [\A b \in tree \ tree' :
             /\ b \notin dag.pins
             /\ \/ \E c \in dag.pins : DirOf[c] = DirOf[b]
                \/ DirOf[b] \in {RepoOf[r] : r \in dag.floats}]_vars
    BY <1>1 DEF Identified
  <1>3. QED
    BY PruneInvariant, <1>2, PTL DEF PruneSpec, IdentityDecides

-------------------------------------------------------------------------------
(* A repository of a floating branch keeps a commit.                       *)

(* The mirror is finite, as what the runs go by. *)
Finite ==
    /\ IsFiniteSet(tree)
    /\ dag \in Dags \cup {NoDag} /\ sidecar \in Dags \cup {NoDag}

(* A plan leaves each repository of a floating branch that is not empty a  *)
(* commit that it does not remove.                                         *)
Survived ==
    \A r \in dag.floats : In(RepoOf[r]) # {} => \E b \in In(RepoOf[r]) : b \notin plan.blobs

SurvivalInv == PruneInv /\ Finite /\ Survived

(* Of the blobs in one directory some blob is the newest, by modification  *)
(* time and name: else each would be beaten by another that fewer beat.    *)
LEMMA SurvivorExists ==
  ASSUME NEW d \in Dir, NEW T, T \subseteq Blob, IsFiniteSet(T), T # {},
         \A b \in T : DirOf[b] = d, mtime \in [Blob -> Nat]
  PROVE  Survivor(T) # {}
  <1> DEFINE Beats(c, b) == mtime[c] > mtime[b] \/ (mtime[c] = mtime[b] /\ <<b, c>> \in NameBefore)
             Above(b) == {c \in T : Beats(c, b)}
             A == {Above(b) : b \in T}
  <1>1. \A b \in T : mtime[b] \in Nat /\ b \in Blob
    OBVIOUS
  <1>2. \A b \in T : ~Beats(b, b)
    <2> TAKE b \in T
    <2>1. <<b, b>> \notin NameBefore
      BY <1>1, NameBeforeAssumption
    <2>2. mtime[b] \in Nat
      BY <1>1
    <2>3. QED
      BY <2>1, <2>2
  <1>3. \A b, c, e \in T : Beats(e, c) /\ Beats(c, b) => Beats(e, b)
    BY <1>1, NameBeforeAssumption
  <1>4. \A b, c \in T : b # c /\ ~Beats(c, b) =>
          mtime[b] > mtime[c] \/ (mtime[b] = mtime[c] /\ <<c, b>> \in NameBefore)
    BY <1>1, NameBeforeAssumption
  <1> HIDE DEF Beats
  <1>5. IsWellFoundedOn(StrictSubsetOrdering(T), FiniteSubsetsOf(T))
    BY FS_StrictSubsetOrderingWellFounded
  <1>6. A \subseteq FiniteSubsetsOf(T) /\ A # {}
    <2>1. \A b \in T : Above(b) \in SUBSET T /\ IsFiniteSet(Above(b))
      BY FS_Subset
    <2>2. \A b \in T : Above(b) \in FiniteSubsetsOf(T)
      BY <2>1 DEF FiniteSubsetsOf
    <2>3. PICK b \in T : TRUE
      OBVIOUS
    <2>4. Above(b) \in A
      OBVIOUS
    <2> HIDE DEF Above
    <2>5. QED
      BY <2>2, <2>4
  <1> HIDE DEF A
  <1>7. PICK a \in A : \A x \in A : <<x, a>> \notin StrictSubsetOrdering(T)
    BY <1>5, <1>6, WFMin
  <1>8. PICK b \in T : a = Above(b)
    BY DEF A
  <1>9. ASSUME NEW c \in T, Beats(c, b)
        PROVE  FALSE
    <2>1. Above(c) \subseteq Above(b)
      BY <1>3, <1>9
    <2>2. c \in Above(b) /\ c \notin Above(c)
      BY <1>2, <1>9
    <2>3. Above(c) \in A
      BY DEF A
    <2>4. <<Above(c), a>> \in StrictSubsetOrdering(T)
      BY <1>8, <2>1, <2>2 DEF StrictSubsetOrdering
    <2>5. QED
      BY <1>7, <2>3, <2>4
  <1>10. b \in Survivor(T)
    BY <1>4, <1>9 DEF Survivor
  <1>11. QED
    BY <1>10

(* A plan dooms no repository of a floating branch entirely. *)
LEMMA DoomedSparesOne ==
  ASSUME TypeOK, IsFiniteSet(tree), NEW r \in dag.floats, In(RepoOf[r]) # {}
  PROVE  \E b \in In(RepoOf[r]) : b \notin Doomed
  <1> DEFINE d == RepoOf[r]
  <1>1. r \in Branch /\ d \in Git /\ d \in Dir /\ d # Archive /\ d \in Floating
    BY ConstantsAssumption DEF TypeOK, Dag, Git, Floating
  <1>2. /\ In(d) \subseteq Blob /\ In(d) \subseteq tree /\ mtime \in [Blob -> Nat]
        /\ \A b \in In(d) : DirOf[b] = d
    BY DEF In, TypeOK
  <1> HIDE DEF d
  <1>3. IsFiniteSet(In(d)) /\ In(d) # {}
    BY <1>2, FS_Subset DEF d
  <1>4. Survivor(In(d)) # {}
    BY <1>1, <1>2, <1>3, SurvivorExists
  <1>5. PICK b \in In(d) : b \in KeepFloating(In(d))
    BY <1>4 DEF KeepFloating, Fresh, Survivor
  <1>6. b \in Keep(d)
    BY <1>1, <1>5 DEF Keep
  <1>7. b \notin DoomedArchives
    BY <1>1, <1>2 DEF DoomedArchives, In
  <1>8. \A e : b \in In(e) => e = d
    BY DEF In
  <1>9. b \notin Doomed
    BY <1>6, <1>7, <1>8 DEF Doomed
  <1>10. QED
    BY <1>9 DEF d

LEMMA FiniteNext ==
  ASSUME PruneInv, Finite, [Next]_vars
  PROVE  Finite'
  <1> USE DEF mirrorVars, worldVars, localVars
  <1>1. ASSUME NEW d \in Dags \cup {NoDag}, NEW all \in Wanted(d), NEW bs \in SUBSET all,
               MirrorCreate(bs)
        PROVE  IsFiniteSet(tree')
    <2>1. IsFiniteSet(d.pins) /\ IsFiniteSet(d.floats)
      BY DagsAssumption, FS_EmptySet DEF NoDag
    <2>0. PICK t \in Tips : all = d.pins \cup {t[r] : r \in d.floats}
      BY DEF Wanted
    <2>2. IsFiniteSet({t[r] : r \in d.floats})
      <3> DEFINE f == [r \in d.floats |-> t[r]]
      <3>1. f \in Surjection(d.floats, {t[r] : r \in d.floats})
        BY DEF Surjection
      <3>2. QED
        BY <2>1, <3>1, FS_Surjection
    <2>3. IsFiniteSet(bs)
      <3>1. IsFiniteSet(all)
        BY <2>0, <2>1, <2>2, FS_Union
      <3>2. QED
        BY <3>1, FS_Subset
    <2>4. tree' = tree \cup bs /\ IsFiniteSet(tree)
      BY <1>1 DEF MirrorCreate, Finite
    <2>5. QED
      BY <2>3, <2>4, FS_Union
  <1>2. ASSUME Start \/ PruneRun \/ Reuse \/ PruneAgain \/ UnlinkLink \/ RemoveFolder \/ Applied
               \/ Return \/ Crash \/ Restore \/ UNCHANGED vars
        PROVE  Finite'
    <2>1. /\ tree' = tree /\ dag' \in Dags \cup {NoDag, dag, sidecar}
          /\ sidecar' \in {sidecar, dag}
      BY <1>2 DEF Start, PruneRun, Reuse, PruneAgain, MakePlan, UnlinkLink, RemoveFolder, Applied,
         Return, Crash, Restore, Ended, vars
    <2>2. QED
      BY <2>1 DEF Finite
  <1>3. ASSUME Fill \/ FillPartly PROVE Finite'
    BY <1>1, <1>3 DEF Fill, FillPartly, Ended, Finite
  <1>4. ASSUME OthersFill PROVE Finite'
    BY <1>1, <1>4 DEF OthersFill, Finite
  <1>5. ASSUME UnlinkBlob PROVE Finite'
    <2>1. tree' \subseteq tree /\ dag' = dag /\ sidecar' = sidecar
      BY <1>5 DEF UnlinkBlob
    <2>2. QED
      BY <2>1, FS_Subset DEF Finite
  <1>6. QED
    BY <1>2, <1>3, <1>4, <1>5 DEF Next

LEMMA SurvivedNext ==
  ASSUME PruneInv, PruneInv', Finite, Survived, [Next]_vars
  PROVE  Survived'
  <1> USE DEF mirrorVars, worldVars, localVars
  <1>1. CASE plan' = NoPlan
    BY <1>1 DEF Survived, NoPlan
  <1>2. ASSUME MakePlan, tree' = tree PROVE Survived'
    <2>1. plan' = NoPlan \/ (plan'.blobs = Doomed /\ dag' = dag)
      BY <1>2 DEF MakePlan
    <2>2. ASSUME plan'.blobs = Doomed, NEW r \in dag.floats, In(RepoOf[r]) # {}
          PROVE  \E b \in In(RepoOf[r]) : b \notin plan'.blobs
      BY <2>2, DoomedSparesOne DEF PruneInv, Finite
    <2>3. \A r : In(r)' = In(r)
      BY <1>2 DEF In
    <2>4. QED
      BY <1>1, <1>2, <2>1, <2>2, <2>3 DEF Survived
  <1>3. ASSUME UnlinkBlob PROVE Survived'
    <2>1. PICK b \in plan.blobs : tree' = tree \ {b} /\ plan' = [plan EXCEPT !.blobs = @ \ {b}]
      BY <1>3 DEF UnlinkBlob
    <2>2. dag' = dag /\ plan'.blobs = plan.blobs \ {b}
      BY <1>3, <2>1 DEF UnlinkBlob, PruneInv, TypeOK
    <2>3. ASSUME NEW r \in dag.floats, In(RepoOf[r])' # {}
          PROVE  \E c \in In(RepoOf[r])' : c \notin plan'.blobs
      <3>1. In(RepoOf[r]) # {}
        BY <2>1, <2>3 DEF In
      <3>2. PICK c \in In(RepoOf[r]) : c \notin plan.blobs
        BY <3>1 DEF Survived
      <3>3. c \in In(RepoOf[r])'
        BY <2>1, <3>2 DEF In
      <3>4. QED
        BY <2>2, <3>2, <3>3
    <2>4. QED
      BY <2>2, <2>3 DEF Survived
  <1>4. ASSUME plan'.blobs = plan.blobs, dag' = dag, tree' = tree PROVE Survived'
    BY <1>4 DEF Survived, In
  <1>5. CASE pc' # "apply"
    BY <1>1, <1>5 DEF PruneInv, Planned
  <1>6. ASSUME UnlinkLink \/ RemoveFolder PROVE Survived'
    BY <1>4, <1>6 DEF UnlinkLink, RemoveFolder, PruneInv, TypeOK
  <1>7. ASSUME PruneRun \/ PruneAgain PROVE Survived'
    BY <1>2, <1>7 DEF PruneRun, PruneAgain
  <1>8. ASSUME Start \/ Fill \/ FillPartly \/ Reuse \/ Applied \/ Return \/ Crash \/ OthersFill \/ Restore
        PROVE  pc' # "apply"
    BY <1>8 DEF Start, Fill, FillPartly, Reuse, Applied, Return, Crash, OthersFill, Restore,
       Ended
  <1>9. ASSUME UNCHANGED vars PROVE Survived'
    BY <1>4, <1>9 DEF vars
  <1>10. QED
    BY <1>3, <1>5, <1>6, <1>7, <1>8, <1>9 DEF Next

(* Every reachable state has a survivor where a plan is being carried out. *)
THEOREM SurvivalInvariant == PruneSpec => []SurvivalInv
  <1>1. Init => SurvivalInv
    BY PruneInit, FS_EmptySet DEF SurvivalInv, Init, Finite, Survived, In, NoDag
  <1>2. SurvivalInv /\ [Next]_vars => SurvivalInv'
    BY PrepareNext, ApplyNext, OthersNext, FiniteNext, SurvivedNext DEF SurvivalInv, Next
  <1>3. QED
    BY <1>1, <1>2, PTL DEF PruneSpec

(* No step empties the repository of a branch that the specs follow, also  *)
(* when a plan was cut short and the next one is made on what is left:     *)
(* only UnlinkBlob removes, and the survivor is not in its plan.           *)
THEOREM FloatingTheorem == PruneSpec => FloatingSurvives
  <1>1. ASSUME SurvivalInv, [Next]_vars, NEW r \in dag.floats, In(RepoOf[r]) # {}
        PROVE  In(RepoOf[r])' # {}
    <2>1. CASE tree \subseteq tree'
      BY <1>1, <2>1 DEF In
    <2>2. ASSUME UnlinkBlob PROVE In(RepoOf[r])' # {}
      <3>1. PICK b \in plan.blobs : tree' = tree \ {b}
        BY <2>2 DEF UnlinkBlob
      <3>2. PICK c \in In(RepoOf[r]) : c \notin plan.blobs
        BY <1>1 DEF SurvivalInv, Survived
      <3>3. QED
        BY <3>1, <3>2 DEF In
    <2>3. \A d : MirrorCreate(d) => tree \subseteq tree'
      BY DEF MirrorCreate
    <2>4. QED
      BY <1>1, <2>1, <2>2, <2>3 DEF Next, Start, Fill, FillPartly, PruneRun, Reuse, PruneAgain, UnlinkLink,
         RemoveFolder, Applied, Return, Crash, OthersFill, Restore, Ended, vars, mirrorVars
  <1>2. SurvivalInv /\ [Next]_vars =>
          [\A r \in dag.floats : In(RepoOf[r]) # {} => In(RepoOf[r])' # {}]_vars
    BY <1>1
  <1>3. QED
    BY SurvivalInvariant, <1>2, PTL DEF PruneSpec, FloatingSurvives

===============================================================================
