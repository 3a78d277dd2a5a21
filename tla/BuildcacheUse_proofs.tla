------------------------- MODULE BuildcacheUse_proofs -------------------------
(***************************************************************************)
(* Proofs about the two uses made of what a publication leaves: what an    *)
(* `only` build is admitted on, when no lock is replaced while the program *)
(* runs, and the image that `resume` needs after a failed publication,     *)
(* when no operator removes temporary tags.                                *)
(*                                                                         *)
(* Exact follows the lock hash from its comparison with the image's lock   *)
(* to the coverage record named by it.  Admitted keeps, while an admitted  *)
(* build runs, the record that admitted it: the shared flock it holds      *)
(* excludes every publisher.  The properties combine the two with Backed.  *)
(*                                                                         *)
(* The danger to `resume` is the cleanup of a successful run, which        *)
(* removes its image after the lock is released: another run may by then   *)
(* have recorded that image as recoverable, or be working on it.  Kept     *)
(* says that no two runs work on one image, and that the image health.json *)
(* names is worked on only inside the exclusive section, which ends by     *)
(* overwriting health.json.                                                *)
(***************************************************************************)
EXTENDS BuildcacheStore_proofs

-------------------------------------------------------------------------------
(* Admission: definitions.                                                 *)

(* The lock compared, the lock hashed and the lock of the image are one.   *)
Exact ==
    /\ \A p \in Proc :
         /\ pc[p] = "cover" => image[img[p]].lock = hostLock[EnvOf(p)]
         /\ pc[p] \in {"rename", "mark"} => target[p] = image[img[p]].lock
    /\ \A l \in Lock : coverage[l].img \in Proc => image[coverage[l].img].lock = l

(* A running `only` build still has the record that admitted it.           *)
Admitted ==
    \A p \in Proc : pc[p] = "consume" /\ policy[p] = "only" =>
        /\ lock[p] \in Lock
        /\ coverage[lock[p]].img \in Proc
        /\ coverage[lock[p]].kind = ModeOf(p)
        /\ ModeOf(p) = "local" => coverage[lock[p]].img = stable[EnvOf(p)]

-------------------------------------------------------------------------------
(* Coverage is exact.                                                      *)

(* Every step keeps records exact, when no lock is replaced.               *)
LEMMA ExactNext ==
  TypeInv /\ Claims /\ Settled /\ Exact /\ [Next]_vars /\ "edit" \notin Faults
    => Exact'
  <1> SUFFICES ASSUME TypeInv /\ Claims /\ Settled /\ Exact, [Next]_vars, "edit" \notin Faults
               PROVE  Exact'
    OBVIOUS
  <1> USE ConstantsAssumption
      DEF TypeInv, TypeOK, Control, Started, Exact, Goto, EnvOf,
          hostVars, lockVars, storeVars, tagVars, stateVars, localVars, vars
  <1>k1. \A p \in Proc : pc[p] \in CompleteAt => image'[img[p]] = image[img[p]]
    BY ImageKept DEF ImagesKept, Claims, Settled
  <1>k2. \A l \in Lock : coverage[l].img \in Proc
            => image'[coverage[l].img] = image[coverage[l].img]
    BY ImageKept DEF ImagesKept, Settled
  <1>1. ASSUME NEW p \in Proc, Start(p) PROVE Exact'
    <2>1. \E s \in {"gate", "waitInspect", "waitShared", "render"} : pc' = [pc EXCEPT ![p] = s]
      BY <1>1 DEF Start, Command, Producing, Consuming
    <2>2. \A q \in Proc : q # p => job'[q] = job[q] /\ pc'[q] = pc[q]
      BY <1>1, <2>1 DEF Start
    <2>3. UNCHANGED <<hostLock, img, target, image, coverage>>
      BY <1>1 DEF Start
    <2>4. QED
      BY <2>1, <2>2, <2>3
  <1>2. ASSUME NEW p \in Proc, GateRefused(p) PROVE Exact'
    BY <1>2 DEF GateRefused
  <1>3. ASSUME NEW p \in Proc, RenderProducer(p) PROVE Exact'
    BY <1>3 DEF RenderProducer
  <1>4. ASSUME NEW p \in Proc, AcquireShared(p) PROVE Exact'
    BY <1>4 DEF AcquireShared
  <1>5. ASSUME NEW p \in Proc, Stage(p) PROVE Exact'
    BY <1>k1, <1>k2, <1>5 DEF Stage, CompleteAt
  <1>6. ASSUME NEW p \in Proc, StageLost(p) PROVE Exact'
    BY <1>6 DEF StageLost
  <1>7. ASSUME NEW p \in Proc, RecordLost(p) PROVE Exact'
    BY <1>7 DEF RecordLost
  <1>8. ASSUME NEW p \in Proc, AcquireExclusive(p) PROVE Exact'
    BY <1>8 DEF AcquireExclusive
  <1>9. ASSUME NEW p \in Proc, InspectBuilt(p) PROVE Exact'
    BY <1>9 DEF InspectBuilt
  <1>10. ASSUME NEW p \in Proc, InspectStable(p) PROVE Exact'
    BY <1>10 DEF InspectStable
  <1>11. ASSUME NEW p \in Proc, InspectRecovery(p) PROVE Exact'
    BY <1>11 DEF InspectRecovery
  <1>12. ASSUME NEW p \in Proc, ResumeRefused(p) PROVE Exact'
    BY <1>12 DEF ResumeRefused
  <1>13. ASSUME NEW p \in Proc, Push(p) PROVE Exact'
    BY <1>13 DEF Push
  <1>14. ASSUME NEW p \in Proc, UpdateIndex(p) PROVE Exact'
    BY <1>14 DEF UpdateIndex
  <1>15. ASSUME NEW p \in Proc, Check(p) PROVE Exact'
    BY <1>15 DEF Check
  <1>16. ASSUME NEW p \in Proc, Promote(p) PROVE Exact'
    BY <1>16 DEF Promote
  <1>17. ASSUME NEW p \in Proc, Recheck(p) PROVE Exact'
    BY <1>17 DEF Recheck
  <1>18. ASSUME NEW p \in Proc, Bind(p) PROVE Exact'
    BY <1>18 DEF Bind, LockMatches, Claims, CompleteAt
  <1>19. ASSUME NEW p \in Proc, StageCoverage(p) PROVE Exact'
    BY <1>19 DEF StageCoverage, Claims, CompleteAt
  <1>20. ASSUME NEW p \in Proc, RenameCoverage(p) PROVE Exact'
    BY <1>20 DEF RenameCoverage, Claims, CompleteAt
  <1>21. ASSUME NEW p \in Proc, MarkHealthy(p) PROVE Exact'
    BY <1>21 DEF MarkHealthy
  <1>22. ASSUME NEW p \in Proc, Cleanup(p) PROVE Exact'
    BY <1>22 DEF Cleanup
  <1>23. ASSUME NEW p \in Proc, StepFails(p) PROVE Exact'
    BY <1>23 DEF StepFails
  <1>24. ASSUME NEW p \in Proc, RecordFailure(p) PROVE Exact'
    BY <1>24 DEF RecordFailure
  <1>25. ASSUME NEW p \in Proc, ResolvePolicy(p) PROVE Exact'
    BY <1>25 DEF ResolvePolicy
  <1>26. ASSUME NEW p \in Proc, RenderConsumer(p) PROVE Exact'
    BY <1>26 DEF RenderConsumer
  <1>27. ASSUME NEW p \in Proc, RenderOnly(p) PROVE Exact'
    BY <1>27 DEF RenderOnly
  <1>28. ASSUME NEW p \in Proc, Admit(p) PROVE Exact'
    BY <1>28 DEF Admit
  <1>29. ASSUME NEW p \in Proc, ConsumerFails(p) PROVE Exact'
    BY <1>29 DEF ConsumerFails
  <1>30. ASSUME NEW p \in Proc, Consume(p) PROVE Exact'
    BY <1>k1, <1>k2, <1>30 DEF Consume, CompleteAt
  <1>31. ASSUME NEW p \in Proc, Crash(p) PROVE Exact'
    BY <1>31 DEF Crash
  <1>32. ASSUME NEW e \in Env, EditLock(e) PROVE Exact'
    BY <1>32 DEF EditLock
  <1>33. ASSUME NEW p \in Proc, RemoveImage(p) PROVE Exact'
    BY <1>33 DEF RemoveImage
  <1>34. CASE WipeStore
    BY <1>34 DEF WipeStore
  <1>35. CASE UNCHANGED vars
    BY <1>35 DEF vars
  <1>36. QED
    BY <1>1, <1>2, <1>3, <1>4, <1>5, <1>6, <1>7, <1>8, <1>9, <1>10, <1>11,
       <1>12, <1>13, <1>14, <1>15, <1>16, <1>17, <1>18, <1>19, <1>20, <1>21,
       <1>22, <1>23, <1>24, <1>25, <1>26, <1>27, <1>28, <1>29, <1>30, <1>31,
       <1>32, <1>33, <1>34, <1>35 DEF Next, Step, Finished

(* Records are exact, when no lock is replaced.                            *)
THEOREM ExactInvariant ==
  ASSUME "edit" \notin Faults PROVE BuildcacheSpec => []Exact
  <1>1. Init => Exact
    BY ConstantsAssumption DEF Init, Exact, NoCoverage
  <1>2. TypeInv /\ Claims /\ Settled /\ Exact /\ [Next]_vars => Exact'
    BY ExactNext
  <1>3. QED
    BY <1>1, <1>2, TypeInvariant, ClaimsInvariant, SettledInvariant, PTL DEF BuildcacheSpec

(* CoverageExactLock in every instance in which no lock is replaced while  *)
(* the program runs, whichever Dockerfile a stage build reads.             *)
THEOREM CoverageExactLockTheorem ==
  ASSUME "edit" \notin Faults PROVE BuildcacheSpec => []CoverageExactLock
  <1>1. TypeInv /\ Exact => CoverageExactLock
    BY DEF TypeInv, TypeOK, Coverage, ProcOrNone, Exact, CoverageExactLock
  <1>2. QED
    BY <1>1, TypeInvariant, ExactInvariant, PTL

-------------------------------------------------------------------------------
(* Admission.                                                              *)

(* Every step keeps the record of an admitted build.                       *)
LEMMA AdmittedNext == TypeInv /\ Mutex /\ Admitted /\ [Next]_vars => Admitted'
  <1> SUFFICES ASSUME TypeInv /\ Mutex /\ Admitted, [Next]_vars PROVE Admitted'
    OBVIOUS
  <1> USE ConstantsAssumption
      DEF TypeInv, TypeOK, Control, Started, Admitted, Coverage, ProcOrNone, Goto, EnvOf, ModeOf,
          hostVars, lockVars, storeVars, tagVars, stateVars, localVars, vars
  <1>k. \A p \in Proc : pc[p] = "consume" => UNCHANGED <<stable, coverage>>
    BY ReaderStep DEF StoreKept, Mutex, SharedAt
  <1>1. ASSUME NEW p \in Proc, Start(p) PROVE Admitted'
    <2>1. \E s \in {"gate", "waitInspect", "waitShared", "render"} : pc' = [pc EXCEPT ![p] = s]
      BY <1>1 DEF Start, Command, Producing, Consuming
    <2>2. \A q \in Proc : q # p => job'[q] = job[q] /\ lock'[q] = lock[q] /\ pc'[q] = pc[q]
      BY <1>1, <2>1 DEF Start
    <2>3. UNCHANGED <<policy, coverage, stable>>
      BY <1>1 DEF Start
    <2>4. QED
      BY <2>1, <2>2, <2>3
  <1>2. ASSUME NEW p \in Proc, GateRefused(p) PROVE Admitted'
    BY <1>2 DEF GateRefused
  <1>3. ASSUME NEW p \in Proc, RenderProducer(p) PROVE Admitted'
    BY <1>3 DEF RenderProducer
  <1>4. ASSUME NEW p \in Proc, AcquireShared(p) PROVE Admitted'
    BY <1>4 DEF AcquireShared
  <1>5. ASSUME NEW p \in Proc, Stage(p) PROVE Admitted'
    BY <1>5 DEF Stage
  <1>6. ASSUME NEW p \in Proc, StageLost(p) PROVE Admitted'
    BY <1>6 DEF StageLost
  <1>7. ASSUME NEW p \in Proc, RecordLost(p) PROVE Admitted'
    BY <1>7 DEF RecordLost
  <1>8. ASSUME NEW p \in Proc, AcquireExclusive(p) PROVE Admitted'
    BY <1>8 DEF AcquireExclusive
  <1>9. ASSUME NEW p \in Proc, InspectBuilt(p) PROVE Admitted'
    BY <1>9 DEF InspectBuilt
  <1>10. ASSUME NEW p \in Proc, InspectStable(p) PROVE Admitted'
    BY <1>10 DEF InspectStable
  <1>11. ASSUME NEW p \in Proc, InspectRecovery(p) PROVE Admitted'
    BY <1>11 DEF InspectRecovery
  <1>12. ASSUME NEW p \in Proc, ResumeRefused(p) PROVE Admitted'
    BY <1>12 DEF ResumeRefused
  <1>13. ASSUME NEW p \in Proc, Push(p) PROVE Admitted'
    BY <1>13 DEF Push
  <1>14. ASSUME NEW p \in Proc, UpdateIndex(p) PROVE Admitted'
    BY <1>14 DEF UpdateIndex
  <1>15. ASSUME NEW p \in Proc, Check(p) PROVE Admitted'
    BY <1>15 DEF Check
  <1>16. ASSUME NEW p \in Proc, Promote(p) PROVE Admitted'
    BY <1>k, <1>16 DEF Promote
  <1>17. ASSUME NEW p \in Proc, Recheck(p) PROVE Admitted'
    BY <1>17 DEF Recheck
  <1>18. ASSUME NEW p \in Proc, Bind(p) PROVE Admitted'
    BY <1>18 DEF Bind
  <1>19. ASSUME NEW p \in Proc, StageCoverage(p) PROVE Admitted'
    BY <1>19 DEF StageCoverage
  <1>20. ASSUME NEW p \in Proc, RenameCoverage(p) PROVE Admitted'
    BY <1>k, <1>20 DEF RenameCoverage
  <1>21. ASSUME NEW p \in Proc, MarkHealthy(p) PROVE Admitted'
    BY <1>21 DEF MarkHealthy
  <1>22. ASSUME NEW p \in Proc, Cleanup(p) PROVE Admitted'
    BY <1>22 DEF Cleanup
  <1>23. ASSUME NEW p \in Proc, StepFails(p) PROVE Admitted'
    BY <1>23 DEF StepFails
  <1>24. ASSUME NEW p \in Proc, RecordFailure(p) PROVE Admitted'
    BY <1>24 DEF RecordFailure
  <1>25. ASSUME NEW p \in Proc, ResolvePolicy(p) PROVE Admitted'
    BY <1>25 DEF ResolvePolicy
  <1>26. ASSUME NEW p \in Proc, RenderConsumer(p) PROVE Admitted'
    BY <1>26 DEF RenderConsumer
  <1>27. ASSUME NEW p \in Proc, RenderOnly(p) PROVE Admitted'
    BY <1>27 DEF RenderOnly
  <1>28. ASSUME NEW p \in Proc, Admit(p) PROVE Admitted'
    BY <1>28 DEF Admit, Admissible, OfKind
  <1>29. ASSUME NEW p \in Proc, ConsumerFails(p) PROVE Admitted'
    BY <1>29 DEF ConsumerFails
  <1>30. ASSUME NEW p \in Proc, Consume(p) PROVE Admitted'
    BY <1>30 DEF Consume
  <1>31. ASSUME NEW p \in Proc, Crash(p) PROVE Admitted'
    BY <1>31 DEF Crash
  <1>32. ASSUME NEW e \in Env, EditLock(e) PROVE Admitted'
    BY <1>32 DEF EditLock
  <1>33. ASSUME NEW p \in Proc, RemoveImage(p) PROVE Admitted'
    BY <1>33 DEF RemoveImage
  <1>34. CASE WipeStore
    BY <1>34 DEF WipeStore
  <1>35. CASE UNCHANGED vars
    BY <1>35 DEF vars
  <1>36. QED
    BY <1>1, <1>2, <1>3, <1>4, <1>5, <1>6, <1>7, <1>8, <1>9, <1>10, <1>11,
       <1>12, <1>13, <1>14, <1>15, <1>16, <1>17, <1>18, <1>19, <1>20, <1>21,
       <1>22, <1>23, <1>24, <1>25, <1>26, <1>27, <1>28, <1>29, <1>30, <1>31,
       <1>32, <1>33, <1>34, <1>35 DEF Next, Step, Finished

(* A running `only` build still has the record that admitted it.           *)
THEOREM AdmittedInvariant == BuildcacheSpec => []Admitted
  <1>1. Init => Admitted
    BY DEF Init, Admitted
  <1>2. QED
    BY <1>1, TypeInvariant, MutexInvariant, AdmittedNext, PTL DEF BuildcacheSpec

(* OnlyConsumerServed in every instance in which no lock is replaced and   *)
(* no operator removes the store.                                          *)
THEOREM OnlyConsumerServedTheorem ==
  ASSUME "edit" \notin Faults, "wipe" \notin Faults
  PROVE  BuildcacheSpec => []OnlyConsumerServed
  <1>1. TypeInv /\ Backed /\ Exact /\ Admitted => OnlyConsumerServed
    <2>1. SUFFICES ASSUME TypeInv, Backed, Exact, Admitted,
                          NEW p \in Proc, pc[p] = "consume", policy[p] = "only"
                   PROVE  /\ coverage[lock[p]].img # NoProc
                          /\ ModeOf(p) = "local" => coverage[lock[p]].img = stable[EnvOf(p)]
                          /\ SpecsOf[lock[p]] \subseteq Available(ModeOf(p))
      BY DEF OnlyConsumerServed
    <2>2. /\ lock[p] \in Lock
          /\ coverage[lock[p]].img \in Proc
          /\ coverage[lock[p]].kind = ModeOf(p)
          /\ ModeOf(p) = "local" => coverage[lock[p]].img = stable[EnvOf(p)]
      BY <2>1 DEF Admitted
    <2>3. SpecsOf[image[coverage[lock[p]].img].lock] \subseteq Available(ModeOf(p))
      BY <2>1, <2>2 DEF Backed, Published
    <2>4. image[coverage[lock[p]].img].lock = lock[p]
      BY <2>1, <2>2 DEF Exact
    <2>5. QED
      BY <2>2, <2>3, <2>4, ConstantsAssumption
  <1>2. QED
    BY <1>1, TypeInvariant, BackedInvariant, ExactInvariant, AdmittedInvariant, PTL

(* BackendsDoNotMix in every instance in which no lock is replaced and no  *)
(* operator removes the store.                                             *)
THEOREM BackendsDoNotMixTheorem ==
  ASSUME "edit" \notin Faults, "wipe" \notin Faults
  PROVE  BuildcacheSpec => []BackendsDoNotMix
  <1>1. TypeInv /\ Backed /\ Exact /\ Admitted => BackendsDoNotMix
    <2>1. SUFFICES ASSUME TypeInv, Backed, Exact, Admitted,
                          NEW p \in Proc, pc[p] = "consume", policy[p] = "only"
                   PROVE  /\ coverage[lock[p]].kind = ModeOf(p)
                          /\ ModeOf(p) = "oci" => SpecsOf[lock[p]] \subseteq store["oci"]
      BY DEF BackendsDoNotMix
    <2>2. /\ lock[p] \in Lock
          /\ coverage[lock[p]].img \in Proc
          /\ coverage[lock[p]].kind = ModeOf(p)
      BY <2>1 DEF Admitted
    <2>3. SpecsOf[image[coverage[lock[p]].img].lock] \subseteq Available(ModeOf(p))
      BY <2>1, <2>2 DEF Backed, Published
    <2>4. image[coverage[lock[p]].img].lock = lock[p]
      BY <2>1, <2>2 DEF Exact
    <2>5. QED
      BY <2>2, <2>3, <2>4 DEF Available
  <1>2. QED
    BY <1>1, TypeInvariant, BackedInvariant, ExactInvariant, AdmittedInvariant, PTL

(* An `only` build passes its gate by Admit alone.                         *)
AdmitsOnly == \A q \in Proc : pc[q] = "admit" /\ pc'[q] = "consume" => Admit(q)

(* No other step admits.                                                   *)
LEMMA AdmitStep == TypeInv /\ [Next]_vars => AdmitsOnly
  <1> SUFFICES ASSUME TypeInv, [Next]_vars PROVE AdmitsOnly
    OBVIOUS
  <1> USE DEF TypeInv, TypeOK, AdmitsOnly, Goto,
          hostVars, lockVars, storeVars, tagVars, stateVars, localVars, vars
  <1>1. ASSUME NEW p \in Proc, Start(p) PROVE AdmitsOnly
    BY <1>1 DEF Start, Command, Producing, Consuming
  <1>2. ASSUME NEW p \in Proc, GateRefused(p) PROVE AdmitsOnly
    BY <1>2 DEF GateRefused
  <1>3. ASSUME NEW p \in Proc, RenderProducer(p) PROVE AdmitsOnly
    BY <1>3 DEF RenderProducer
  <1>4. ASSUME NEW p \in Proc, AcquireShared(p) PROVE AdmitsOnly
    BY <1>4 DEF AcquireShared
  <1>5. ASSUME NEW p \in Proc, Stage(p) PROVE AdmitsOnly
    BY <1>5 DEF Stage
  <1>6. ASSUME NEW p \in Proc, StageLost(p) PROVE AdmitsOnly
    BY <1>6 DEF StageLost
  <1>7. ASSUME NEW p \in Proc, RecordLost(p) PROVE AdmitsOnly
    BY <1>7 DEF RecordLost
  <1>8. ASSUME NEW p \in Proc, AcquireExclusive(p) PROVE AdmitsOnly
    BY <1>8 DEF AcquireExclusive
  <1>9. ASSUME NEW p \in Proc, InspectBuilt(p) PROVE AdmitsOnly
    BY <1>9 DEF InspectBuilt
  <1>10. ASSUME NEW p \in Proc, InspectStable(p) PROVE AdmitsOnly
    BY <1>10 DEF InspectStable
  <1>11. ASSUME NEW p \in Proc, InspectRecovery(p) PROVE AdmitsOnly
    BY <1>11 DEF InspectRecovery
  <1>12. ASSUME NEW p \in Proc, ResumeRefused(p) PROVE AdmitsOnly
    BY <1>12 DEF ResumeRefused
  <1>13. ASSUME NEW p \in Proc, Push(p) PROVE AdmitsOnly
    BY <1>13 DEF Push
  <1>14. ASSUME NEW p \in Proc, UpdateIndex(p) PROVE AdmitsOnly
    BY <1>14 DEF UpdateIndex
  <1>15. ASSUME NEW p \in Proc, Check(p) PROVE AdmitsOnly
    BY <1>15 DEF Check
  <1>16. ASSUME NEW p \in Proc, Promote(p) PROVE AdmitsOnly
    BY <1>16 DEF Promote
  <1>17. ASSUME NEW p \in Proc, Recheck(p) PROVE AdmitsOnly
    BY <1>17 DEF Recheck
  <1>18. ASSUME NEW p \in Proc, Bind(p) PROVE AdmitsOnly
    BY <1>18 DEF Bind
  <1>19. ASSUME NEW p \in Proc, StageCoverage(p) PROVE AdmitsOnly
    BY <1>19 DEF StageCoverage
  <1>20. ASSUME NEW p \in Proc, RenameCoverage(p) PROVE AdmitsOnly
    BY <1>20 DEF RenameCoverage
  <1>21. ASSUME NEW p \in Proc, MarkHealthy(p) PROVE AdmitsOnly
    BY <1>21 DEF MarkHealthy
  <1>22. ASSUME NEW p \in Proc, Cleanup(p) PROVE AdmitsOnly
    BY <1>22 DEF Cleanup
  <1>23. ASSUME NEW p \in Proc, StepFails(p) PROVE AdmitsOnly
    BY <1>23 DEF StepFails
  <1>24. ASSUME NEW p \in Proc, RecordFailure(p) PROVE AdmitsOnly
    BY <1>24 DEF RecordFailure
  <1>25. ASSUME NEW p \in Proc, ResolvePolicy(p) PROVE AdmitsOnly
    BY <1>25 DEF ResolvePolicy
  <1>26. ASSUME NEW p \in Proc, RenderConsumer(p) PROVE AdmitsOnly
    BY <1>26 DEF RenderConsumer
  <1>27. ASSUME NEW p \in Proc, RenderOnly(p) PROVE AdmitsOnly
    BY <1>27 DEF RenderOnly
  <1>28. ASSUME NEW p \in Proc, Admit(p) PROVE AdmitsOnly
    <2>1. \A q \in Proc : q # p => pc'[q] = pc[q]
      BY <1>28 DEF Admit
    <2>2. QED
      BY <1>28, <2>1 DEF AdmitsOnly
  <1>29. ASSUME NEW p \in Proc, ConsumerFails(p) PROVE AdmitsOnly
    BY <1>29 DEF ConsumerFails
  <1>30. ASSUME NEW p \in Proc, Consume(p) PROVE AdmitsOnly
    BY <1>30 DEF Consume
  <1>31. ASSUME NEW p \in Proc, Crash(p) PROVE AdmitsOnly
    BY <1>31 DEF Crash
  <1>32. ASSUME NEW e \in Env, EditLock(e) PROVE AdmitsOnly
    BY <1>32 DEF EditLock
  <1>33. ASSUME NEW p \in Proc, RemoveImage(p) PROVE AdmitsOnly
    BY <1>33 DEF RemoveImage
  <1>34. CASE WipeStore
    BY <1>34 DEF WipeStore
  <1>35. CASE UNCHANGED vars
    BY <1>35 DEF vars
  <1>36. QED
    BY <1>1, <1>2, <1>3, <1>4, <1>5, <1>6, <1>7, <1>8, <1>9, <1>10, <1>11,
       <1>12, <1>13, <1>14, <1>15, <1>16, <1>17, <1>18, <1>19, <1>20, <1>21,
       <1>22, <1>23, <1>24, <1>25, <1>26, <1>27, <1>28, <1>29, <1>30, <1>31,
       <1>32, <1>33, <1>34, <1>35 DEF Next, Step, Finished

(* What a local `only` build is admitted on is in the index at that step.  *)
LEMMA AdmissionStep ==
  ASSUME TypeInv, Exact, [Next]_vars, NEW p \in Proc,
         pc[p] = "admit", pc'[p] = "consume", ModeOf(p) = "local"
  PROVE  SpecsOf[lock'[p]] \subseteq index
  <1>1. Admit(p)
    BY AdmitStep DEF AdmitsOnly
  <1>2. QED
    BY <1>1 DEF Admit, Admissible, OfKind, LockIsIndexed, Exact, TypeInv, TypeOK, Control,
       Started, Coverage, ProcOrNone, Goto

(* AdmissionIsLive in every instance in which no lock is replaced, with the *)
(* store removed at any time: the live check sees it.                      *)
THEOREM AdmissionIsLiveTheorem ==
  ASSUME "edit" \notin Faults PROVE BuildcacheSpec => AdmissionIsLive
  <1>1. TypeInv /\ Exact /\ [Next]_vars
          => [\A p \in Proc :
                pc[p] = "admit" /\ pc'[p] = "consume" /\ ModeOf(p) = "local"
                  => SpecsOf[lock'[p]] \subseteq index]_vars
    BY AdmissionStep
  <1>2. QED
    BY <1>1, TypeInvariant, ExactInvariant, PTL DEF BuildcacheSpec, AdmissionIsLive

-------------------------------------------------------------------------------
(* Recovery: definitions.                                                  *)

(* Where a producer or a `resume` has an image.                            *)
Held == {"waitInspect", "waitPush", "cleanup"} \cup ExclusiveAt

(* Processes that have one and may remove or record it.                    *)
Working(p) == pc[p] \in Held /\ job[p].cmd \in Producing /\ img[p] \in Proc

(* Where a process has not yet chosen an image.                            *)
Unset(p) == \/ pc[p] \in Fresh
            \/ pc[p] \in {"waitInspect", "inspect"} /\ job[p].cmd # "build"

(* Images that are worked on or recoverable carry their temporary tag, and *)
(* nobody who may remove one shares it.                                    *)
Kept ==
    /\ \A p \in Proc : Working(p) => img[p] \in temp
    /\ health.img # NoProc => health.img \in temp
    /\ \A p, q \in Proc : Working(p) /\ Working(q) /\ img[p] = img[q] => p = q
    /\ \A p \in Proc : Working(p) /\ health.img = img[p] => pc[p] \in ExclusiveAt
    /\ \A p \in Proc : Unset(p) => img[p] = NoProc
    /\ \A p \in Proc : pc[p] = "cleanup" => job[p].cmd \in Producing

-------------------------------------------------------------------------------
(* Recovery: preservation.                                                 *)

(* A move from one control point to another that takes up no image.        *)
Flow(a, b) ==
    \/ a = b
    \/ /\ b \in Held => a \in Held
       /\ a \in ExclusiveAt /\ b \in Held => b \in ExclusiveAt
       /\ b \in Fresh => a \in Fresh
       /\ b \in {"waitInspect", "inspect"} => a \in {"waitInspect", "inspect"}
       /\ b # "cleanup"

(* Steps that take up no image keep Kept.                                  *)
LEMMA FrameKept ==
  ASSUME Kept, UNCHANGED <<temp, health>>,
         \A q \in Proc : Working(q)' => Working(q) /\ img'[q] = img[q],
         \A q \in Proc : Working(q)' /\ pc[q] \in ExclusiveAt => pc'[q] \in ExclusiveAt,
         \A q \in Proc : Unset(q)' => img'[q] = NoProc,
         \A q \in Proc : pc'[q] = "cleanup" => pc[q] = "cleanup" /\ job'[q].cmd = job[q].cmd
  PROVE  Kept'
  <1>1. (\A p \in Proc : Working(p) => img[p] \in temp)'
    BY DEF Kept
  <1>2. (\A p, q \in Proc : Working(p) /\ Working(q) /\ img[p] = img[q] => p = q)'
    BY DEF Kept
  <1>3. (\A p \in Proc : Working(p) /\ health.img = img[p] => pc[p] \in ExclusiveAt)'
    BY DEF Kept
  <1>4. QED
    BY <1>1, <1>2, <1>3 DEF Kept

(* In particular those that only move on.                                  *)
LEMMA FlowKept ==
  ASSUME Kept, UNCHANGED <<temp, health, img, job>>,
         \A q \in Proc : Flow(pc[q], pc'[q])
  PROVE  Kept'
  <1>1. \A q \in Proc : /\ Working(q)' => Working(q)
                        /\ Unset(q)' => Unset(q)
    BY DEF Flow, Working, Unset
  <1>2. \A q \in Proc : Working(q)' /\ pc[q] \in ExclusiveAt => pc'[q] \in ExclusiveAt
    BY DEF Flow, Working
  <1>3. \A q \in Proc : pc'[q] = "cleanup" => pc[q] = "cleanup"
    BY DEF Flow
  <1>4. QED
    BY <1>1, <1>2, <1>3, FrameKept DEF Kept

(* Every step keeps Kept, unless it removes a tag by hand.                 *)
LEMMA KeptNext ==
  TypeInv /\ Mutex /\ Claims /\ Settled /\ Kept /\ [Next]_vars /\ "rmi" \notin Faults
    => Kept'
  <1> SUFFICES ASSUME TypeInv /\ Mutex /\ Claims /\ Settled /\ Kept, [Next]_vars, "rmi" \notin Faults
               PROVE  Kept'
    OBVIOUS
  <1> USE ConstantsAssumption
      DEF TypeInv, TypeOK, Control, Roles, Mutex, Claims, ProcOrNone, Producing, Consuming,
          SharedAt, ExclusiveAt, CompleteAt, Held, Fresh, Goto,
          hostVars, lockVars, storeVars, tagVars, stateVars, localVars, vars
  <1>1. ASSUME NEW p \in Proc, Start(p) PROVE Kept'
    <2>1. \E s \in {"gate", "waitInspect", "waitShared", "render"} : pc' = [pc EXCEPT ![p] = s]
      BY <1>1 DEF Start, Command
    <2>2. \A q \in Proc : q # p => job'[q] = job[q] /\ pc'[q] = pc[q]
      BY <1>1, <2>1 DEF Start
    <2>3. UNCHANGED <<img, temp, health>>
      BY <1>1 DEF Start
    <2>4. img[p] = NoProc
      BY <1>1 DEF Start, Kept, Unset, Fresh
    <2>5. pc'[p] # "cleanup"
      BY <2>1
    <2>6. ~Working(p)' /\ img'[p] = NoProc
      BY <2>3, <2>4 DEF Working
    <2>7. \A q \in Proc : q # p => /\ Working(q)' => Working(q)
                                   /\ Unset(q)' => Unset(q)
      BY <2>2, <2>3 DEF Working, Unset
    <2>8. QED
      BY <2>2, <2>3, <2>5, <2>6, <2>7, FrameKept DEF Kept
  <1>2. ASSUME NEW p \in Proc, GateRefused(p) PROVE Kept'
    BY FlowKept, <1>2 DEF GateRefused, Flow
  <1>3. ASSUME NEW p \in Proc, RenderProducer(p) PROVE Kept'
    BY FlowKept, <1>3 DEF RenderProducer, Flow
  <1>4. ASSUME NEW p \in Proc, AcquireShared(p) PROVE Kept'
    BY FlowKept, <1>4 DEF AcquireShared, Flow
  <1>5. ASSUME NEW p \in Proc, Stage(p) PROVE Kept'
    BY <1>5 DEF Stage, Kept, Working, Unset, Settled
  <1>6. ASSUME NEW p \in Proc, StageLost(p) PROVE Kept'
    BY FlowKept, <1>6 DEF StageLost, Flow
  <1>7. ASSUME NEW p \in Proc, RecordLost(p) PROVE Kept'
    BY <1>7 DEF RecordLost, Unhealthy, Settled, Kept, Working, Unset
  <1>8. ASSUME NEW p \in Proc, AcquireExclusive(p) PROVE Kept'
    BY FlowKept, <1>8 DEF AcquireExclusive, Flow
  <1>9. ASSUME NEW p \in Proc, InspectBuilt(p) PROVE Kept'
    <2>1. \A q \in Proc : q # p => pc'[q] = pc[q] /\ img'[q] = img[q]
      BY <1>9 DEF InspectBuilt
    <2>2. UNCHANGED <<temp, health, job>>
      BY <1>9 DEF InspectBuilt
    <2>3. /\ pc[p] = "inspect" /\ job[p].cmd = "build"
          /\ \/ img'[p] = img[p] /\ pc'[p] = "push"
             \/ img'[p] = NoProc /\ pc'[p] = "record"
      BY <1>9 DEF InspectBuilt
    <2>4. /\ Working(p)' => Working(p) /\ img'[p] = img[p]
          /\ pc'[p] \in ExclusiveAt \ {"inspect"}
      BY <2>2, <2>3 DEF Working
    <2>5. \A q \in Proc : q # p => /\ Working(q)' => Working(q)
                                   /\ Unset(q)' => Unset(q)
      BY <2>1, <2>2 DEF Working, Unset
    <2>6. ~Unset(p)' /\ pc'[p] # "cleanup"
      BY <2>4 DEF Unset
    <2>7. \A q \in Proc : Unset(q)' => img'[q] = NoProc
      BY <2>1, <2>5, <2>6 DEF Kept
    <2>8. QED
      BY <2>1, <2>2, <2>4, <2>5, <2>6, <2>7, FrameKept
  <1>10. ASSUME NEW p \in Proc, InspectStable(p) PROVE Kept'
    <2>1. \A q \in Proc : q # p => pc'[q] = pc[q] /\ img'[q] = img[q]
      BY <1>10 DEF InspectStable
    <2>2. UNCHANGED <<temp, health, job>>
      BY <1>10 DEF InspectStable
    <2>3. /\ job[p].cmd = "verify" /\ pc[p] = "inspect"
          /\ pc'[p] \in {"check", "record"}
      BY <1>10 DEF InspectStable
    <2>4. /\ Working(p)' => Working(p) /\ img'[p] = img[p]
          /\ pc'[p] \in ExclusiveAt \ {"inspect"}
      BY <2>2, <2>3 DEF Working
    <2>5. \A q \in Proc : q # p => /\ Working(q)' => Working(q)
                                   /\ Unset(q)' => Unset(q)
      BY <2>1, <2>2 DEF Working, Unset
    <2>6. ~Unset(p)' /\ pc'[p] # "cleanup"
      BY <2>4 DEF Unset
    <2>7. \A q \in Proc : Unset(q)' => img'[q] = NoProc
      BY <2>1, <2>5, <2>6 DEF Kept
    <2>8. QED
      BY <2>1, <2>2, <2>4, <2>5, <2>6, <2>7, FrameKept
  <1>11. ASSUME NEW p \in Proc, InspectRecovery(p) PROVE Kept'
    BY <1>11 DEF InspectRecovery, Resumable, Health, Kept, Working, Unset
  <1>12. ASSUME NEW p \in Proc, ResumeRefused(p) PROVE Kept'
    BY FlowKept, <1>12 DEF ResumeRefused, Flow
  <1>13. ASSUME NEW p \in Proc, Push(p) PROVE Kept'
    BY FlowKept, <1>13 DEF Push, Flow
  <1>14. ASSUME NEW p \in Proc, UpdateIndex(p) PROVE Kept'
    BY FlowKept, <1>14 DEF UpdateIndex, Flow
  <1>15. ASSUME NEW p \in Proc, Check(p) PROVE Kept'
    BY FlowKept, <1>15 DEF Check, Flow
  <1>16. ASSUME NEW p \in Proc, Promote(p) PROVE Kept'
    BY FlowKept, <1>16 DEF Promote, Flow
  <1>17. ASSUME NEW p \in Proc, Recheck(p) PROVE Kept'
    BY FlowKept, <1>17 DEF Recheck, Flow
  <1>18. ASSUME NEW p \in Proc, Bind(p) PROVE Kept'
    BY FlowKept, <1>18 DEF Bind, Flow
  <1>19. ASSUME NEW p \in Proc, StageCoverage(p) PROVE Kept'
    BY FlowKept, <1>19 DEF StageCoverage, Flow
  <1>20. ASSUME NEW p \in Proc, RenameCoverage(p) PROVE Kept'
    BY FlowKept, <1>20 DEF RenameCoverage, Flow
  <1>21. ASSUME NEW p \in Proc, MarkHealthy(p) PROVE Kept'
    BY <1>21 DEF MarkHealthy, Healthy, Kept, Working, Unset
  <1>22. ASSUME NEW p \in Proc, Cleanup(p) PROVE Kept'
    <2>1. \A q \in Proc : q # p => pc'[q] = pc[q]
      BY <1>22 DEF Cleanup
    <2>2. pc[p] = "cleanup" /\ pc'[p] = "done"
      BY <1>22 DEF Cleanup
    <2>3. UNCHANGED <<health, job, img>>
      BY <1>22 DEF Cleanup
    <2>4. job[p].cmd \in Producing
      BY <2>2 DEF Kept
    <2>5. temp' = temp \/ (temp' = temp \ {img[p]} /\ img[p] \in Proc)
      <3>1. temp' = temp \/ temp' = temp \ {img[p]}
        BY <1>22 DEF Cleanup
      <3>2. img[p] \notin Proc => temp \ {img[p]} = temp
        OBVIOUS
      <3>3. QED
        BY <3>1, <3>2
    <2>6. \A q \in Proc : Flow(pc[q], pc'[q])
      BY <2>1, <2>2 DEF Flow, Held, Fresh
    <2>7. CASE temp' = temp
      BY <2>3, <2>6, <2>7, FlowKept
    <2>8. CASE temp' = temp \ {img[p]} /\ img[p] \in Proc
      <3>1. Working(p)
        BY <2>2, <2>4, <2>8 DEF Working, Held
      <3>2. \A q \in Proc : q # p /\ Working(q) => img[q] # img[p]
        BY <3>1 DEF Kept
      <3>3. health.img # img[p]
        BY <3>1, <2>2 DEF Kept
      <3>4. \A q \in Proc : /\ Working(q)' => q # p /\ Working(q)
                            /\ Unset(q)' => Unset(q)
                            /\ pc'[q] # "cleanup" \/ q # p
        BY <2>1, <2>2, <2>3 DEF Working, Unset, Held, Fresh
      <3>5. \A q \in Proc : Working(q)' => img[q] \in temp'
        BY <2>8, <3>2, <3>4 DEF Kept
      <3>6. health.img # NoProc => health.img \in temp'
        BY <2>8, <3>3 DEF Kept
      <3>7. QED
        BY <2>1, <2>3, <3>4, <3>5, <3>6 DEF Kept
    <2>9. QED
      BY <2>5, <2>7, <2>8
  <1>23. ASSUME NEW p \in Proc, StepFails(p) PROVE Kept'
    BY FlowKept, <1>23 DEF StepFails, Flow
  <1>24. ASSUME NEW p \in Proc, RecordFailure(p) PROVE Kept'
    BY <1>24 DEF RecordFailure, Unhealthy, RecoveryImage, Health, Kept, Working, Unset
  <1>25. ASSUME NEW p \in Proc, ResolvePolicy(p) PROVE Kept'
    BY FlowKept, <1>25 DEF ResolvePolicy, Flow
  <1>26. ASSUME NEW p \in Proc, RenderConsumer(p) PROVE Kept'
    BY FlowKept, <1>26 DEF RenderConsumer, Flow
  <1>27. ASSUME NEW p \in Proc, RenderOnly(p) PROVE Kept'
    BY FlowKept, <1>27 DEF RenderOnly, Flow
  <1>28. ASSUME NEW p \in Proc, Admit(p) PROVE Kept'
    BY FlowKept, <1>28 DEF Admit, Flow
  <1>29. ASSUME NEW p \in Proc, ConsumerFails(p) PROVE Kept'
    BY FlowKept, <1>29 DEF ConsumerFails, Flow
  <1>30. ASSUME NEW p \in Proc, Consume(p) PROVE Kept'
    BY FlowKept, <1>30 DEF Consume, Flow
  <1>31. ASSUME NEW p \in Proc, Crash(p) PROVE Kept'
    BY FlowKept, <1>31 DEF Crash, Flow
  <1>32. ASSUME NEW e \in Env, EditLock(e) PROVE Kept'
    BY FlowKept, <1>32 DEF EditLock, Flow
  <1>33. ASSUME NEW p \in Proc, RemoveImage(p) PROVE Kept'
    BY <1>33 DEF RemoveImage
  <1>34. CASE WipeStore
    BY FlowKept, <1>34 DEF WipeStore, Flow
  <1>35. CASE UNCHANGED vars
    BY FlowKept, <1>35 DEF vars, Flow
  <1>36. QED
    BY <1>1, <1>2, <1>3, <1>4, <1>5, <1>6, <1>7, <1>8, <1>9, <1>10, <1>11,
       <1>12, <1>13, <1>14, <1>15, <1>16, <1>17, <1>18, <1>19, <1>20, <1>21,
       <1>22, <1>23, <1>24, <1>25, <1>26, <1>27, <1>28, <1>29, <1>30, <1>31,
       <1>32, <1>33, <1>34, <1>35 DEF Next, Step, Finished

(* No image that is worked on or recoverable loses its tag.                *)
THEOREM KeptInvariant ==
  ASSUME "rmi" \notin Faults PROVE BuildcacheSpec => []Kept
  <1>1. Init => Kept
    BY DEF Init, Kept, Working, Unset, Held, ExclusiveAt, CompleteAt, NoHealth
  <1>2. TypeInv /\ Mutex /\ Claims /\ Settled /\ Kept /\ [Next]_vars => Kept'
    BY KeptNext
  <1>3. QED
    BY <1>1, <1>2, TypeInvariant, MutexInvariant, ClaimsInvariant, SettledInvariant,
       PTL DEF BuildcacheSpec

(* RecoveryImageExists in every instance in which no operator removes      *)
(* temporary tags, whatever runs interleave, fail or crash.                *)
THEOREM RecoveryImageExistsTheorem ==
  ASSUME "rmi" \notin Faults PROVE BuildcacheSpec => []RecoveryImageExists
  <1>1. Kept => RecoveryImageExists
    BY DEF Kept, RecoveryImageExists
  <1>2. QED
    BY <1>1, KeptInvariant, PTL

===============================================================================
