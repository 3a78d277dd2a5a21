------------------------ MODULE BuildcacheStore_proofs ------------------------
(***************************************************************************)
(* Proofs that what Buildcache records is backed by packages, and that it  *)
(* implements Admission, when no operator removes the store.               *)
(*                                                                         *)
(* Settled says that only a process that has had its stage build is named  *)
(* by a tag, a record or health.json; so an image never changes once it is *)
(* named.  Indexed keeps the index within the store, so that neither ever  *)
(* shrinks.  Backed is CoverageIsAvailable and StableIsPublished, and the  *)
(* same for the image of a publisher whose check has passed but which has  *)
(* not yet promoted or recorded it.                                        *)
(***************************************************************************)
EXTENDS Buildcache_proofs

-------------------------------------------------------------------------------
(* Definitions.                                                            *)

(* Where a process has no image yet, or a consumer is.                     *)
Fresh == {"idle", "gate", "waitShared", "stage", "lost", "policy", "write",
          "admit", "consume", "render", "build"}

(* A process that has not built yet is named nowhere.                      *)
Settled ==
    \A q \in Proc : pc[q] \in Fresh =>
        /\ q \notin temp
        /\ \A p \in Proc : img[p] # q
        /\ \A e \in Env : stable[e] # q
        /\ \A l \in Lock : coverage[l].img # q
        /\ health.img # q

(* Images all of whose lock a backend has.                                 *)
Published == {x \in Proc \X Mode : SpecsOf[image[x[1]].lock] \subseteq Available(x[2])}

(* Only the local store has an index; it lists no more than there is.      *)
Indexed ==
    /\ index \subseteq store["local"]
    /\ \A p \in Proc :
         /\ pc[p] \in {"index", "check"} => ModeOf(p) = "local"
         /\ pc[p] # "idle" /\ job[p].cmd = "verify" => ModeOf(p) = "local"

(* Where the check has succeeded.                                          *)
Passed == {"promote", "recheck", "bind", "cover", "rename", "mark"}

(* Whatever is checked, recorded or stable is available.                   *)
Backed ==
    /\ \A p \in Proc : pc[p] \in Passed => <<img[p], ModeOf(p)>> \in Published
    /\ \A l \in Lock : coverage[l].img \in Proc
                          => <<coverage[l].img, coverage[l].kind>> \in Published
    /\ \A e \in Env : stable[e] \in Proc => \E m \in Mode : <<stable[e], m>> \in Published

-------------------------------------------------------------------------------
(* Images and packages stay.                                               *)

(* Every step names only images that are built.                            *)
LEMMA SettledNext == TypeInv /\ Settled /\ [Next]_vars => Settled'
  <1> SUFFICES ASSUME TypeInv /\ Settled, [Next]_vars PROVE Settled'
    OBVIOUS
  <1> USE ConstantsAssumption
      DEF TypeInv, TypeOK, Control, Started, Settled, Fresh, ProcOrNone,
          SharedAt, ExclusiveAt, CompleteAt, Coverage, Health, Goto, EnvOf,
          hostVars, lockVars, storeVars, tagVars, stateVars, localVars, vars
  <1>1. ASSUME NEW p \in Proc, Start(p) PROVE Settled'
    <2>1. \E s \in {"gate", "waitInspect", "waitShared", "render"} : Goto(p, s)
      BY <1>1, ConstantsAssumption DEF Start, Command, Producing, Consuming
    <2>2. QED
      BY <1>1, <2>1 DEF Start, Goto
  <1>2. ASSUME NEW p \in Proc, GateRefused(p) PROVE Settled'
    BY <1>2 DEF GateRefused
  <1>3. ASSUME NEW p \in Proc, RenderProducer(p) PROVE Settled'
    BY <1>3 DEF RenderProducer
  <1>4. ASSUME NEW p \in Proc, AcquireShared(p) PROVE Settled'
    BY <1>4 DEF AcquireShared
  <1>5. ASSUME NEW p \in Proc, Stage(p) PROVE Settled'
    BY <1>5 DEF Stage
  <1>6. ASSUME NEW p \in Proc, StageLost(p) PROVE Settled'
    BY <1>6 DEF StageLost
  <1>7. ASSUME NEW p \in Proc, RecordLost(p) PROVE Settled'
    BY <1>7 DEF RecordLost, Unhealthy
  <1>8. ASSUME NEW p \in Proc, AcquireExclusive(p) PROVE Settled'
    BY <1>8 DEF AcquireExclusive
  <1>9. ASSUME NEW p \in Proc, InspectBuilt(p) PROVE Settled'
    <2>1. \A q \in Proc : pc'[q] \in Fresh => pc[q] \in Fresh
      BY <1>9 DEF InspectBuilt
    <2>2. \A r \in Proc : img'[r] \in {img[r], NoProc}
      BY <1>9 DEF InspectBuilt
    <2>3. UNCHANGED <<temp, stable, coverage, health>>
      BY <1>9 DEF InspectBuilt
    <2>4. \A q \in Proc : pc'[q] \in Fresh => \A r \in Proc : img'[r] # q
      BY <2>1, <2>2
    <2>5. QED
      BY <2>1, <2>3, <2>4
  <1>10. ASSUME NEW p \in Proc, InspectStable(p) PROVE Settled'
    <2>1. \E s \in {"check", "record"} : pc' = [pc EXCEPT ![p] = s]
      BY <1>10 DEF InspectStable
    <2>2. \A q \in Proc : pc[q] \in Fresh => stable[EnvOf(p)] # q
      BY <1>10 DEF InspectStable
    <2>3. \A r \in Proc : img'[r] \in {img[r], stable[EnvOf(p)]}
      BY <1>10 DEF InspectStable
    <2>4. \A q \in Proc : pc'[q] \in Fresh => pc[q] \in Fresh
      BY <2>1
    <2>5. UNCHANGED <<temp, stable, coverage, health>>
      BY <1>10 DEF InspectStable
    <2>6. \A q \in Proc : pc'[q] \in Fresh => \A r \in Proc : img'[r] # q
      BY <2>2, <2>3, <2>4
    <2>7. QED
      BY <2>4, <2>5, <2>6
  <1>11. ASSUME NEW p \in Proc, InspectRecovery(p) PROVE Settled'
    BY <1>11 DEF InspectRecovery, Resumable
  <1>12. ASSUME NEW p \in Proc, ResumeRefused(p) PROVE Settled'
    BY <1>12 DEF ResumeRefused
  <1>13. ASSUME NEW p \in Proc, Push(p) PROVE Settled'
    BY <1>13 DEF Push
  <1>14. ASSUME NEW p \in Proc, UpdateIndex(p) PROVE Settled'
    BY <1>14 DEF UpdateIndex
  <1>15. ASSUME NEW p \in Proc, Check(p) PROVE Settled'
    BY <1>15 DEF Check
  <1>16. ASSUME NEW p \in Proc, Promote(p) PROVE Settled'
    BY <1>16 DEF Promote
  <1>17. ASSUME NEW p \in Proc, Recheck(p) PROVE Settled'
    BY <1>17 DEF Recheck
  <1>18. ASSUME NEW p \in Proc, Bind(p) PROVE Settled'
    BY <1>18 DEF Bind
  <1>19. ASSUME NEW p \in Proc, StageCoverage(p) PROVE Settled'
    BY <1>19 DEF StageCoverage
  <1>20. ASSUME NEW p \in Proc, RenameCoverage(p) PROVE Settled'
    BY <1>20 DEF RenameCoverage
  <1>21. ASSUME NEW p \in Proc, MarkHealthy(p) PROVE Settled'
    BY <1>21 DEF MarkHealthy, Healthy
  <1>22. ASSUME NEW p \in Proc, Cleanup(p) PROVE Settled'
    BY <1>22 DEF Cleanup
  <1>23. ASSUME NEW p \in Proc, StepFails(p) PROVE Settled'
    BY <1>23 DEF StepFails
  <1>24. ASSUME NEW p \in Proc, RecordFailure(p) PROVE Settled'
    BY <1>24 DEF RecordFailure, Unhealthy, RecoveryImage
  <1>25. ASSUME NEW p \in Proc, ResolvePolicy(p) PROVE Settled'
    BY <1>25 DEF ResolvePolicy
  <1>26. ASSUME NEW p \in Proc, RenderConsumer(p) PROVE Settled'
    BY <1>26 DEF RenderConsumer
  <1>27. ASSUME NEW p \in Proc, RenderOnly(p) PROVE Settled'
    BY <1>27 DEF RenderOnly
  <1>28. ASSUME NEW p \in Proc, Admit(p) PROVE Settled'
    BY <1>28 DEF Admit
  <1>29. ASSUME NEW p \in Proc, ConsumerFails(p) PROVE Settled'
    BY <1>29 DEF ConsumerFails
  <1>30. ASSUME NEW p \in Proc, Consume(p) PROVE Settled'
    BY <1>30 DEF Consume
  <1>31. ASSUME NEW p \in Proc, Crash(p) PROVE Settled'
    BY <1>31 DEF Crash
  <1>32. ASSUME NEW e \in Env, EditLock(e) PROVE Settled'
    BY <1>32 DEF EditLock
  <1>33. ASSUME NEW p \in Proc, RemoveImage(p) PROVE Settled'
    BY <1>33 DEF RemoveImage
  <1>34. CASE WipeStore
    BY <1>34 DEF WipeStore
  <1>35. CASE UNCHANGED vars
    BY <1>35 DEF vars
  <1>36. QED
    BY <1>1, <1>2, <1>3, <1>4, <1>5, <1>6, <1>7, <1>8, <1>9, <1>10, <1>11,
       <1>12, <1>13, <1>14, <1>15, <1>16, <1>17, <1>18, <1>19, <1>20, <1>21,
       <1>22, <1>23, <1>24, <1>25, <1>26, <1>27, <1>28, <1>29, <1>30, <1>31,
       <1>32, <1>33, <1>34, <1>35 DEF Next, Step, Finished

(* An image that is built is not built again.                              *)
ImagesKept == \A q \in Proc : pc[q] \notin Fresh => image'[q] = image[q]

(* Every step keeps the images that are built.                             *)
LEMMA ImageKept == TypeInv /\ [Next]_vars => ImagesKept
  <1> SUFFICES ASSUME TypeInv, [Next]_vars PROVE ImagesKept
    OBVIOUS
  <1> USE ConstantsAssumption
      DEF TypeInv, TypeOK, Fresh, ImagesKept,
          hostVars, lockVars, storeVars, tagVars, stateVars, localVars, vars
  <1>1. ASSUME NEW p \in Proc, Start(p) PROVE ImagesKept
    BY <1>1 DEF Start
  <1>2. ASSUME NEW p \in Proc, GateRefused(p) PROVE ImagesKept
    BY <1>2 DEF GateRefused
  <1>3. ASSUME NEW p \in Proc, RenderProducer(p) PROVE ImagesKept
    BY <1>3 DEF RenderProducer
  <1>4. ASSUME NEW p \in Proc, AcquireShared(p) PROVE ImagesKept
    BY <1>4 DEF AcquireShared
  <1>5. ASSUME NEW p \in Proc, Stage(p) PROVE ImagesKept
    BY <1>5 DEF Stage
  <1>6. ASSUME NEW p \in Proc, StageLost(p) PROVE ImagesKept
    BY <1>6 DEF StageLost
  <1>7. ASSUME NEW p \in Proc, RecordLost(p) PROVE ImagesKept
    BY <1>7 DEF RecordLost
  <1>8. ASSUME NEW p \in Proc, AcquireExclusive(p) PROVE ImagesKept
    BY <1>8 DEF AcquireExclusive
  <1>9. ASSUME NEW p \in Proc, InspectBuilt(p) PROVE ImagesKept
    BY <1>9 DEF InspectBuilt
  <1>10. ASSUME NEW p \in Proc, InspectStable(p) PROVE ImagesKept
    BY <1>10 DEF InspectStable
  <1>11. ASSUME NEW p \in Proc, InspectRecovery(p) PROVE ImagesKept
    BY <1>11 DEF InspectRecovery
  <1>12. ASSUME NEW p \in Proc, ResumeRefused(p) PROVE ImagesKept
    BY <1>12 DEF ResumeRefused
  <1>13. ASSUME NEW p \in Proc, Push(p) PROVE ImagesKept
    BY <1>13 DEF Push
  <1>14. ASSUME NEW p \in Proc, UpdateIndex(p) PROVE ImagesKept
    BY <1>14 DEF UpdateIndex
  <1>15. ASSUME NEW p \in Proc, Check(p) PROVE ImagesKept
    BY <1>15 DEF Check
  <1>16. ASSUME NEW p \in Proc, Promote(p) PROVE ImagesKept
    BY <1>16 DEF Promote
  <1>17. ASSUME NEW p \in Proc, Recheck(p) PROVE ImagesKept
    BY <1>17 DEF Recheck
  <1>18. ASSUME NEW p \in Proc, Bind(p) PROVE ImagesKept
    BY <1>18 DEF Bind
  <1>19. ASSUME NEW p \in Proc, StageCoverage(p) PROVE ImagesKept
    BY <1>19 DEF StageCoverage
  <1>20. ASSUME NEW p \in Proc, RenameCoverage(p) PROVE ImagesKept
    BY <1>20 DEF RenameCoverage
  <1>21. ASSUME NEW p \in Proc, MarkHealthy(p) PROVE ImagesKept
    BY <1>21 DEF MarkHealthy
  <1>22. ASSUME NEW p \in Proc, Cleanup(p) PROVE ImagesKept
    BY <1>22 DEF Cleanup
  <1>23. ASSUME NEW p \in Proc, StepFails(p) PROVE ImagesKept
    BY <1>23 DEF StepFails
  <1>24. ASSUME NEW p \in Proc, RecordFailure(p) PROVE ImagesKept
    BY <1>24 DEF RecordFailure
  <1>25. ASSUME NEW p \in Proc, ResolvePolicy(p) PROVE ImagesKept
    BY <1>25 DEF ResolvePolicy
  <1>26. ASSUME NEW p \in Proc, RenderConsumer(p) PROVE ImagesKept
    BY <1>26 DEF RenderConsumer
  <1>27. ASSUME NEW p \in Proc, RenderOnly(p) PROVE ImagesKept
    BY <1>27 DEF RenderOnly
  <1>28. ASSUME NEW p \in Proc, Admit(p) PROVE ImagesKept
    BY <1>28 DEF Admit
  <1>29. ASSUME NEW p \in Proc, ConsumerFails(p) PROVE ImagesKept
    BY <1>29 DEF ConsumerFails
  <1>30. ASSUME NEW p \in Proc, Consume(p) PROVE ImagesKept
    BY <1>30 DEF Consume
  <1>31. ASSUME NEW p \in Proc, Crash(p) PROVE ImagesKept
    BY <1>31 DEF Crash
  <1>32. ASSUME NEW e \in Env, EditLock(e) PROVE ImagesKept
    BY <1>32 DEF EditLock
  <1>33. ASSUME NEW p \in Proc, RemoveImage(p) PROVE ImagesKept
    BY <1>33 DEF RemoveImage
  <1>34. CASE WipeStore
    BY <1>34 DEF WipeStore
  <1>35. CASE UNCHANGED vars
    BY <1>35 DEF vars
  <1>36. QED
    BY <1>1, <1>2, <1>3, <1>4, <1>5, <1>6, <1>7, <1>8, <1>9, <1>10, <1>11,
       <1>12, <1>13, <1>14, <1>15, <1>16, <1>17, <1>18, <1>19, <1>20, <1>21,
       <1>22, <1>23, <1>24, <1>25, <1>26, <1>27, <1>28, <1>29, <1>30, <1>31,
       <1>32, <1>33, <1>34, <1>35 DEF Next, Step, Finished

(* Every step keeps the index within the store.                            *)
LEMMA IndexedNext == TypeInv /\ Indexed /\ [Next]_vars => Indexed'
  <1> SUFFICES ASSUME TypeInv /\ Indexed, [Next]_vars PROVE Indexed'
    OBVIOUS
  <1> USE ConstantsAssumption
      DEF TypeInv, TypeOK, Control, Roles, Indexed, Mode, Producing, Consuming,
          SharedAt, ExclusiveAt, CompleteAt, Goto, ModeOf,
          hostVars, lockVars, storeVars, tagVars, stateVars, localVars, vars
  <1>1. ASSUME NEW p \in Proc, Start(p) PROVE Indexed'
    <2>1. \E s \in {"gate", "waitInspect", "waitShared", "render"} : Goto(p, s)
      BY <1>1, ConstantsAssumption DEF Start, Command, Producing, Consuming
    <2>2. job'[p].cmd = "verify" => job'[p].mode = "local"
      BY <1>1 DEF Start
    <2>3. \A q \in Proc : q # p => job'[q] = job[q] /\ pc'[q] = pc[q]
      BY <1>1 DEF Start, Goto
    <2>4. pc'[p] \notin {"index", "check"}
      BY <2>1
    <2>5. UNCHANGED <<index, store>>
      BY <1>1 DEF Start
    <2>6. QED
      BY <2>2, <2>3, <2>4, <2>5
  <1>2. ASSUME NEW p \in Proc, GateRefused(p) PROVE Indexed'
    BY <1>2 DEF GateRefused
  <1>3. ASSUME NEW p \in Proc, RenderProducer(p) PROVE Indexed'
    BY <1>3 DEF RenderProducer
  <1>4. ASSUME NEW p \in Proc, AcquireShared(p) PROVE Indexed'
    BY <1>4 DEF AcquireShared
  <1>5. ASSUME NEW p \in Proc, Stage(p) PROVE Indexed'
    BY <1>5 DEF Stage, Autopush
  <1>6. ASSUME NEW p \in Proc, StageLost(p) PROVE Indexed'
    BY <1>6 DEF StageLost, Autopush
  <1>7. ASSUME NEW p \in Proc, RecordLost(p) PROVE Indexed'
    BY <1>7 DEF RecordLost
  <1>8. ASSUME NEW p \in Proc, AcquireExclusive(p) PROVE Indexed'
    BY <1>8 DEF AcquireExclusive
  <1>9. ASSUME NEW p \in Proc, InspectBuilt(p) PROVE Indexed'
    BY <1>9 DEF InspectBuilt
  <1>10. ASSUME NEW p \in Proc, InspectStable(p) PROVE Indexed'
    BY <1>10 DEF InspectStable
  <1>11. ASSUME NEW p \in Proc, InspectRecovery(p) PROVE Indexed'
    BY <1>11 DEF InspectRecovery
  <1>12. ASSUME NEW p \in Proc, ResumeRefused(p) PROVE Indexed'
    BY <1>12 DEF ResumeRefused
  <1>13. ASSUME NEW p \in Proc, Push(p) PROVE Indexed'
    BY <1>13 DEF Push
  <1>14. ASSUME NEW p \in Proc, UpdateIndex(p) PROVE Indexed'
    BY <1>14 DEF UpdateIndex
  <1>15. ASSUME NEW p \in Proc, Check(p) PROVE Indexed'
    BY <1>15 DEF Check
  <1>16. ASSUME NEW p \in Proc, Promote(p) PROVE Indexed'
    BY <1>16 DEF Promote
  <1>17. ASSUME NEW p \in Proc, Recheck(p) PROVE Indexed'
    BY <1>17 DEF Recheck
  <1>18. ASSUME NEW p \in Proc, Bind(p) PROVE Indexed'
    BY <1>18 DEF Bind
  <1>19. ASSUME NEW p \in Proc, StageCoverage(p) PROVE Indexed'
    BY <1>19 DEF StageCoverage
  <1>20. ASSUME NEW p \in Proc, RenameCoverage(p) PROVE Indexed'
    BY <1>20 DEF RenameCoverage
  <1>21. ASSUME NEW p \in Proc, MarkHealthy(p) PROVE Indexed'
    BY <1>21 DEF MarkHealthy
  <1>22. ASSUME NEW p \in Proc, Cleanup(p) PROVE Indexed'
    BY <1>22 DEF Cleanup
  <1>23. ASSUME NEW p \in Proc, StepFails(p) PROVE Indexed'
    BY <1>23 DEF StepFails
  <1>24. ASSUME NEW p \in Proc, RecordFailure(p) PROVE Indexed'
    BY <1>24 DEF RecordFailure
  <1>25. ASSUME NEW p \in Proc, ResolvePolicy(p) PROVE Indexed'
    BY <1>25 DEF ResolvePolicy
  <1>26. ASSUME NEW p \in Proc, RenderConsumer(p) PROVE Indexed'
    BY <1>26 DEF RenderConsumer
  <1>27. ASSUME NEW p \in Proc, RenderOnly(p) PROVE Indexed'
    BY <1>27 DEF RenderOnly
  <1>28. ASSUME NEW p \in Proc, Admit(p) PROVE Indexed'
    BY <1>28 DEF Admit
  <1>29. ASSUME NEW p \in Proc, ConsumerFails(p) PROVE Indexed'
    BY <1>29 DEF ConsumerFails
  <1>30. ASSUME NEW p \in Proc, Consume(p) PROVE Indexed'
    BY <1>30 DEF Consume, Autopush
  <1>31. ASSUME NEW p \in Proc, Crash(p) PROVE Indexed'
    BY <1>31 DEF Crash
  <1>32. ASSUME NEW e \in Env, EditLock(e) PROVE Indexed'
    BY <1>32 DEF EditLock
  <1>33. ASSUME NEW p \in Proc, RemoveImage(p) PROVE Indexed'
    BY <1>33 DEF RemoveImage
  <1>34. CASE WipeStore
    BY <1>34 DEF WipeStore
  <1>35. CASE UNCHANGED vars
    BY <1>35 DEF vars
  <1>36. QED
    BY <1>1, <1>2, <1>3, <1>4, <1>5, <1>6, <1>7, <1>8, <1>9, <1>10, <1>11,
       <1>12, <1>13, <1>14, <1>15, <1>16, <1>17, <1>18, <1>19, <1>20, <1>21,
       <1>22, <1>23, <1>24, <1>25, <1>26, <1>27, <1>28, <1>29, <1>30, <1>31,
       <1>32, <1>33, <1>34, <1>35 DEF Next, Step, Finished

(* Packages that are there stay there.                                     *)
StoreKeeps == /\ index \subseteq index'
              /\ \A m \in Mode : store[m] \subseteq store'[m]

(* Every step keeps the packages, unless it removes the store.             *)
LEMMA StoreGrows ==
  TypeInv /\ Indexed /\ [Next]_vars /\ "wipe" \notin Faults
    => StoreKeeps
  <1> SUFFICES ASSUME TypeInv /\ Indexed, [Next]_vars, "wipe" \notin Faults
               PROVE  StoreKeeps
    OBVIOUS
  <1> USE ConstantsAssumption
      DEF TypeInv, TypeOK, Indexed, StoreKeeps, Mode, ModeOf,
          hostVars, lockVars, storeVars, tagVars, stateVars, localVars, vars
  <1>1. ASSUME NEW p \in Proc, Start(p) PROVE StoreKeeps
    BY <1>1 DEF Start
  <1>2. ASSUME NEW p \in Proc, GateRefused(p) PROVE StoreKeeps
    BY <1>2 DEF GateRefused
  <1>3. ASSUME NEW p \in Proc, RenderProducer(p) PROVE StoreKeeps
    BY <1>3 DEF RenderProducer
  <1>4. ASSUME NEW p \in Proc, AcquireShared(p) PROVE StoreKeeps
    BY <1>4 DEF AcquireShared
  <1>5. ASSUME NEW p \in Proc, Stage(p) PROVE StoreKeeps
    BY <1>5 DEF Stage, Autopush
  <1>6. ASSUME NEW p \in Proc, StageLost(p) PROVE StoreKeeps
    BY <1>6 DEF StageLost, Autopush
  <1>7. ASSUME NEW p \in Proc, RecordLost(p) PROVE StoreKeeps
    BY <1>7 DEF RecordLost
  <1>8. ASSUME NEW p \in Proc, AcquireExclusive(p) PROVE StoreKeeps
    BY <1>8 DEF AcquireExclusive
  <1>9. ASSUME NEW p \in Proc, InspectBuilt(p) PROVE StoreKeeps
    BY <1>9 DEF InspectBuilt
  <1>10. ASSUME NEW p \in Proc, InspectStable(p) PROVE StoreKeeps
    BY <1>10 DEF InspectStable
  <1>11. ASSUME NEW p \in Proc, InspectRecovery(p) PROVE StoreKeeps
    BY <1>11 DEF InspectRecovery
  <1>12. ASSUME NEW p \in Proc, ResumeRefused(p) PROVE StoreKeeps
    BY <1>12 DEF ResumeRefused
  <1>13. ASSUME NEW p \in Proc, Push(p) PROVE StoreKeeps
    BY <1>13 DEF Push
  <1>14. ASSUME NEW p \in Proc, UpdateIndex(p) PROVE StoreKeeps
    BY <1>14 DEF UpdateIndex
  <1>15. ASSUME NEW p \in Proc, Check(p) PROVE StoreKeeps
    BY <1>15 DEF Check
  <1>16. ASSUME NEW p \in Proc, Promote(p) PROVE StoreKeeps
    BY <1>16 DEF Promote
  <1>17. ASSUME NEW p \in Proc, Recheck(p) PROVE StoreKeeps
    BY <1>17 DEF Recheck
  <1>18. ASSUME NEW p \in Proc, Bind(p) PROVE StoreKeeps
    BY <1>18 DEF Bind
  <1>19. ASSUME NEW p \in Proc, StageCoverage(p) PROVE StoreKeeps
    BY <1>19 DEF StageCoverage
  <1>20. ASSUME NEW p \in Proc, RenameCoverage(p) PROVE StoreKeeps
    BY <1>20 DEF RenameCoverage
  <1>21. ASSUME NEW p \in Proc, MarkHealthy(p) PROVE StoreKeeps
    BY <1>21 DEF MarkHealthy
  <1>22. ASSUME NEW p \in Proc, Cleanup(p) PROVE StoreKeeps
    BY <1>22 DEF Cleanup
  <1>23. ASSUME NEW p \in Proc, StepFails(p) PROVE StoreKeeps
    BY <1>23 DEF StepFails
  <1>24. ASSUME NEW p \in Proc, RecordFailure(p) PROVE StoreKeeps
    BY <1>24 DEF RecordFailure
  <1>25. ASSUME NEW p \in Proc, ResolvePolicy(p) PROVE StoreKeeps
    BY <1>25 DEF ResolvePolicy
  <1>26. ASSUME NEW p \in Proc, RenderConsumer(p) PROVE StoreKeeps
    BY <1>26 DEF RenderConsumer
  <1>27. ASSUME NEW p \in Proc, RenderOnly(p) PROVE StoreKeeps
    BY <1>27 DEF RenderOnly
  <1>28. ASSUME NEW p \in Proc, Admit(p) PROVE StoreKeeps
    BY <1>28 DEF Admit
  <1>29. ASSUME NEW p \in Proc, ConsumerFails(p) PROVE StoreKeeps
    BY <1>29 DEF ConsumerFails
  <1>30. ASSUME NEW p \in Proc, Consume(p) PROVE StoreKeeps
    BY <1>30 DEF Consume, Autopush
  <1>31. ASSUME NEW p \in Proc, Crash(p) PROVE StoreKeeps
    BY <1>31 DEF Crash
  <1>32. ASSUME NEW e \in Env, EditLock(e) PROVE StoreKeeps
    BY <1>32 DEF EditLock
  <1>33. ASSUME NEW p \in Proc, RemoveImage(p) PROVE StoreKeeps
    BY <1>33 DEF RemoveImage
  <1>34. CASE WipeStore
    BY <1>34 DEF WipeStore
  <1>35. CASE UNCHANGED vars
    BY <1>35 DEF vars
  <1>36. QED
    BY <1>1, <1>2, <1>3, <1>4, <1>5, <1>6, <1>7, <1>8, <1>9, <1>10, <1>11,
       <1>12, <1>13, <1>14, <1>15, <1>16, <1>17, <1>18, <1>19, <1>20, <1>21,
       <1>22, <1>23, <1>24, <1>25, <1>26, <1>27, <1>28, <1>29, <1>30, <1>31,
       <1>32, <1>33, <1>34, <1>35 DEF Next, Step, Finished

(* An image that is published stays published.                             *)
LEMMA PublishedKept ==
  ASSUME TypeInv, Indexed, [Next]_vars, "wipe" \notin Faults,
         NEW i \in Proc, NEW m \in Mode, pc[i] \notin Fresh, <<i, m>> \in Published
  PROVE  <<i, m>> \in Published'
  <1>1. image'[i] = image[i]
    BY ImageKept DEF ImagesKept
  <1>2. Available(m) \subseteq Available(m)'
    BY StoreGrows DEF StoreKeeps, Available, Mode
  <1>3. QED
    BY <1>1, <1>2 DEF Published

(* Every step keeps what is claimed available.                             *)
LEMMA BackedNext ==
  TypeInv /\ Claims /\ Settled /\ Indexed /\ Backed /\ [Next]_vars /\ "wipe" \notin Faults
    => Backed'
  <1> SUFFICES ASSUME TypeInv /\ Claims /\ Settled /\ Indexed /\ Backed, [Next]_vars, "wipe" \notin Faults
               PROVE  Backed'
    OBVIOUS
  <1> USE ConstantsAssumption
      DEF TypeInv, TypeOK, Backed, Passed, Goto, ModeOf, EnvOf,
          hostVars, lockVars, storeVars, tagVars, stateVars, localVars, vars
  <1>k. \A i \in Proc, m \in Mode :
           pc[i] \notin Fresh /\ <<i, m>> \in Published => <<i, m>> \in Published'
    BY PublishedKept
  <1>k1. \A p \in Proc : pc[p] \in Passed => <<img[p], ModeOf(p)>> \in Published'
    BY <1>k DEF Settled, Claims, CompleteAt
  <1>k2. \A l \in Lock : coverage[l].img \in Proc
            => <<coverage[l].img, coverage[l].kind>> \in Published'
    BY <1>k DEF Settled, Coverage
  <1>k3. \A e \in Env : stable[e] \in Proc
            => \E m \in Mode : <<stable[e], m>> \in Published'
    BY <1>k DEF Settled
  <1>1. ASSUME NEW p \in Proc, Start(p) PROVE Backed'
    <2>1. \E s \in {"gate", "waitInspect", "waitShared", "render"} : Goto(p, s)
      BY <1>1, ConstantsAssumption DEF Start, Command, Producing, Consuming
    <2>2. \A q \in Proc : pc'[q] \in Passed => pc[q] = pc'[q] /\ job'[q] = job[q]
      BY <1>1, <2>1 DEF Start, Goto
    <2>3. UNCHANGED <<img, coverage, stable>>
      BY <1>1 DEF Start
    <2>4. QED
      BY <1>k1, <1>k2, <1>k3, <2>2, <2>3
  <1>2. ASSUME NEW p \in Proc, GateRefused(p) PROVE Backed'
    BY <1>k1, <1>k2, <1>k3, <1>2 DEF GateRefused
  <1>3. ASSUME NEW p \in Proc, RenderProducer(p) PROVE Backed'
    BY <1>k1, <1>k2, <1>k3, <1>3 DEF RenderProducer
  <1>4. ASSUME NEW p \in Proc, AcquireShared(p) PROVE Backed'
    BY <1>k1, <1>k2, <1>k3, <1>4 DEF AcquireShared
  <1>5. ASSUME NEW p \in Proc, Stage(p) PROVE Backed'
    BY <1>k1, <1>k2, <1>k3, <1>5 DEF Stage
  <1>6. ASSUME NEW p \in Proc, StageLost(p) PROVE Backed'
    BY <1>k1, <1>k2, <1>k3, <1>6 DEF StageLost
  <1>7. ASSUME NEW p \in Proc, RecordLost(p) PROVE Backed'
    BY <1>k1, <1>k2, <1>k3, <1>7 DEF RecordLost
  <1>8. ASSUME NEW p \in Proc, AcquireExclusive(p) PROVE Backed'
    BY <1>k1, <1>k2, <1>k3, <1>8 DEF AcquireExclusive
  <1>9. ASSUME NEW p \in Proc, InspectBuilt(p) PROVE Backed'
    <2>1. UNCHANGED <<coverage, stable, job>> /\ \A q \in Proc \ {p} : img'[q] = img[q]
      BY <1>9 DEF InspectBuilt
    <2>2. \A q \in Proc : pc'[q] \in Passed => q # p /\ pc[q] \in Passed
      BY <1>9 DEF InspectBuilt
    <2>3. QED
      BY <1>k1, <1>k2, <1>k3, <2>1, <2>2
  <1>10. ASSUME NEW p \in Proc, InspectStable(p) PROVE Backed'
    <2>1. UNCHANGED <<coverage, stable, job>> /\ \A q \in Proc \ {p} : img'[q] = img[q]
      BY <1>10 DEF InspectStable
    <2>2. \A q \in Proc : pc'[q] \in Passed => q # p /\ pc[q] \in Passed
      BY <1>10 DEF InspectStable
    <2>3. QED
      BY <1>k1, <1>k2, <1>k3, <2>1, <2>2
  <1>11. ASSUME NEW p \in Proc, InspectRecovery(p) PROVE Backed'
    BY <1>k1, <1>k2, <1>k3, <1>11 DEF InspectRecovery
  <1>12. ASSUME NEW p \in Proc, ResumeRefused(p) PROVE Backed'
    BY <1>k1, <1>k2, <1>k3, <1>12 DEF ResumeRefused
  <1>13. ASSUME NEW p \in Proc, Push(p) PROVE Backed'
    <2>1. img[p] \in Proc
      BY <1>13 DEF Push, Claims, CompleteAt
    <2>2. pc'[p] \in Passed => <<img[p], ModeOf(p)>> \in Published'
      <3>1. SUFFICES ASSUME pc'[p] \in Passed PROVE <<img[p], ModeOf(p)>> \in Published'
        OBVIOUS
      <3>2. ModeOf(p) = "oci" /\ image[img[p]].specs = SpecsOf[image[img[p]].lock]
        BY <1>13, <3>1 DEF Push, Mode
      <3>3. image[img[p]].specs \subseteq store'["oci"] /\ image' = image
        BY <1>13, <3>2 DEF Push, Mode
      <3>4. QED
        BY <2>1, <3>2, <3>3 DEF Published, Available, Mode
    <2>3. \A q \in Proc : q # p => pc'[q] = pc[q]
      BY <1>13 DEF Push
    <2>4. UNCHANGED <<img, job, coverage, stable>>
      BY <1>13 DEF Push
    <2>5. QED
      BY <1>k1, <1>k2, <1>k3, <2>2, <2>3, <2>4
  <1>14. ASSUME NEW p \in Proc, UpdateIndex(p) PROVE Backed'
    BY <1>k1, <1>k2, <1>k3, <1>14 DEF UpdateIndex
  <1>15. ASSUME NEW p \in Proc, Check(p) PROVE Backed'
    <2>1. ModeOf(p) = "local" /\ img[p] \in Proc
      BY <1>15 DEF Check, Claims, CompleteAt, Indexed
    <2>2. <<img[p], "local">> \in Published'
      BY <1>15, <2>1 DEF Check, LockIsIndexed, Published, Available, Mode
    <2>3. pc'[p] \in Passed /\ \A q \in Proc : q # p => pc'[q] = pc[q]
      BY <1>15 DEF Check
    <2>4. UNCHANGED <<img, job, coverage, stable>>
      BY <1>15 DEF Check
    <2>5. QED
      BY <1>k1, <1>k2, <1>k3, <2>1, <2>2, <2>3, <2>4
  <1>16. ASSUME NEW p \in Proc, Promote(p) PROVE Backed'
    BY <1>k1, <1>k2, <1>k3, <1>16 DEF Promote
  <1>17. ASSUME NEW p \in Proc, Recheck(p) PROVE Backed'
    BY <1>k1, <1>k2, <1>k3, <1>17 DEF Recheck
  <1>18. ASSUME NEW p \in Proc, Bind(p) PROVE Backed'
    BY <1>k1, <1>k2, <1>k3, <1>18 DEF Bind
  <1>19. ASSUME NEW p \in Proc, StageCoverage(p) PROVE Backed'
    BY <1>k1, <1>k2, <1>k3, <1>19 DEF StageCoverage
  <1>20. ASSUME NEW p \in Proc, RenameCoverage(p) PROVE Backed'
    BY <1>k1, <1>k2, <1>k3, <1>20 DEF RenameCoverage
  <1>21. ASSUME NEW p \in Proc, MarkHealthy(p) PROVE Backed'
    BY <1>k1, <1>k2, <1>k3, <1>21 DEF MarkHealthy
  <1>22. ASSUME NEW p \in Proc, Cleanup(p) PROVE Backed'
    BY <1>k1, <1>k2, <1>k3, <1>22 DEF Cleanup
  <1>23. ASSUME NEW p \in Proc, StepFails(p) PROVE Backed'
    BY <1>k1, <1>k2, <1>k3, <1>23 DEF StepFails
  <1>24. ASSUME NEW p \in Proc, RecordFailure(p) PROVE Backed'
    BY <1>k1, <1>k2, <1>k3, <1>24 DEF RecordFailure
  <1>25. ASSUME NEW p \in Proc, ResolvePolicy(p) PROVE Backed'
    <2>1. UNCHANGED <<coverage, stable, img, job>>
      BY <1>25 DEF ResolvePolicy
    <2>2. \A q \in Proc : pc'[q] \in Passed => pc[q] \in Passed
      BY <1>25 DEF ResolvePolicy
    <2>3. QED
      BY <1>k1, <1>k2, <1>k3, <2>1, <2>2
  <1>26. ASSUME NEW p \in Proc, RenderConsumer(p) PROVE Backed'
    <2>1. \A q \in Proc : pc'[q] \in Passed => pc'[q] = pc[q]
      BY <1>26 DEF RenderConsumer
    <2>2. UNCHANGED <<img, job, coverage, stable>>
      BY <1>26 DEF RenderConsumer
    <2>3. QED
      BY <1>k1, <1>k2, <1>k3, <2>1, <2>2
  <1>27. ASSUME NEW p \in Proc, RenderOnly(p) PROVE Backed'
    BY <1>k1, <1>k2, <1>k3, <1>27 DEF RenderOnly
  <1>28. ASSUME NEW p \in Proc, Admit(p) PROVE Backed'
    BY <1>k1, <1>k2, <1>k3, <1>28 DEF Admit
  <1>29. ASSUME NEW p \in Proc, ConsumerFails(p) PROVE Backed'
    BY <1>k1, <1>k2, <1>k3, <1>29 DEF ConsumerFails
  <1>30. ASSUME NEW p \in Proc, Consume(p) PROVE Backed'
    BY <1>k1, <1>k2, <1>k3, <1>30 DEF Consume
  <1>31. ASSUME NEW p \in Proc, Crash(p) PROVE Backed'
    BY <1>k1, <1>k2, <1>k3, <1>31 DEF Crash
  <1>32. ASSUME NEW e \in Env, EditLock(e) PROVE Backed'
    BY <1>k1, <1>k2, <1>k3, <1>32 DEF EditLock
  <1>33. ASSUME NEW p \in Proc, RemoveImage(p) PROVE Backed'
    BY <1>k1, <1>k2, <1>k3, <1>33 DEF RemoveImage
  <1>34. CASE WipeStore
    BY <1>k1, <1>k2, <1>k3, <1>34 DEF WipeStore
  <1>35. CASE UNCHANGED vars
    BY <1>k1, <1>k2, <1>k3, <1>35 DEF vars
  <1>36. QED
    BY <1>1, <1>2, <1>3, <1>4, <1>5, <1>6, <1>7, <1>8, <1>9, <1>10, <1>11,
       <1>12, <1>13, <1>14, <1>15, <1>16, <1>17, <1>18, <1>19, <1>20, <1>21,
       <1>22, <1>23, <1>24, <1>25, <1>26, <1>27, <1>28, <1>29, <1>30, <1>31,
       <1>32, <1>33, <1>34, <1>35 DEF Next, Step, Finished

(* Only images that are built are ever named.                              *)
THEOREM SettledInvariant == BuildcacheSpec => []Settled
  <1>1. Init => Settled
    BY ConstantsAssumption DEF Init, Settled, NoCoverage, NoHealth
  <1>2. QED
    BY <1>1, TypeInvariant, SettledNext, PTL DEF BuildcacheSpec

(* The index never lists what the store has not.                           *)
THEOREM IndexedInvariant == BuildcacheSpec => []Indexed
  <1>1. Init => Indexed
    BY DEF Init, Indexed, Mode
  <1>2. QED
    BY <1>1, TypeInvariant, IndexedNext, PTL DEF BuildcacheSpec

(* Whatever is checked, recorded or stable is available, when no operator  *)
(* removes the store.                                                      *)
THEOREM BackedInvariant ==
  ASSUME "wipe" \notin Faults PROVE BuildcacheSpec => []Backed
  <1>1. Init => Backed
    BY ConstantsAssumption DEF Init, Backed, Passed, NoCoverage
  <1>2. TypeInv /\ Claims /\ Settled /\ Indexed /\ Backed /\ [Next]_vars => Backed'
    BY BackedNext
  <1>3. QED
    BY <1>1, <1>2, TypeInvariant, ClaimsInvariant, SettledInvariant, IndexedInvariant,
       PTL DEF BuildcacheSpec

(* CoverageIsAvailable in every instance in which no operator removes the  *)
(* store: publications of any number of producers never undo each other's. *)
THEOREM CoverageIsAvailableTheorem ==
  ASSUME "wipe" \notin Faults PROVE BuildcacheSpec => []CoverageIsAvailable
  <1>1. TypeInv /\ Backed => CoverageIsAvailable
    BY DEF TypeInv, TypeOK, Coverage, ProcOrNone, Backed, Published, CoverageIsAvailable
  <1>2. QED
    BY <1>1, TypeInvariant, BackedInvariant, PTL

(* StableIsPublished in every instance in which no operator removes the    *)
(* store.                                                                  *)
THEOREM StableIsPublishedTheorem ==
  ASSUME "wipe" \notin Faults PROVE BuildcacheSpec => []StableIsPublished
  <1>1. TypeInv /\ Backed => StableIsPublished
    BY DEF TypeInv, TypeOK, ProcOrNone, Backed, Published, StableIsPublished
  <1>2. QED
    BY <1>1, TypeInvariant, BackedInvariant, PTL

-------------------------------------------------------------------------------
(* The refinement.                                                         *)

(* The variables of Admission, as Buildcache gives them.                   *)
AvailBar == [m \in Mode |-> Available(m)]

(* The needs of each record are those of the lock inside its image.        *)
RecordBar == [l \in Lock |->
                 IF coverage[l].img = NoProc THEN {}
                 ELSE {[kind |-> coverage[l].kind,
                        needs |-> SpecsOf[image[coverage[l].img].lock]]}]

(* The lock that health.json claims.                                       *)
ClaimBar == IF health.state = "healthy" THEN health.cov ELSE NoLock

(* A step that writes no coverage record changes none: images stay.        *)
LEMMA RecordKept ==
  ASSUME TypeInv, Settled, [Next]_vars, UNCHANGED coverage
  PROVE  UNCHANGED RecordBar
  <1>1. \A l \in Lock : coverage[l].img # NoProc
            => image'[coverage[l].img] = image[coverage[l].img]
    BY ImageKept DEF ImagesKept, TypeInv, TypeOK, Coverage, ProcOrNone, Settled
  <1>2. QED
    BY <1>1 DEF RecordBar

(* Packages pushed to the registry are available at once.                  *)
LEMMA RegistryGrows ==
  ASSUME NEW new \in SUBSET Spec, store \in [Mode -> SUBSET Spec],
         store' = [store EXCEPT !["oci"] = @ \cup new], UNCHANGED index
  PROVE  AvailBar' = [AvailBar EXCEPT !["oci"] = @ \cup new]
  BY DEF AvailBar, Available, Mode

(* The first state is one of Admission's.                                  *)
LEMMA PromiseInit == Init => Promise!Init
  BY ConstantsAssumption DEF Init, Promise!Init, NoCoverage, NoHealth, Available, Mode

(* Every step is a step of Admission, or changes nothing it sees.          *)
LEMMA PromiseStep ==
  TypeInv /\ Claims /\ Settled /\ Indexed /\ Backed /\ [Next]_vars /\ "wipe" \notin Faults
    => [Promise!Next]_(Promise!vars)
  <1> SUFFICES ASSUME TypeInv /\ Claims /\ Settled /\ Indexed /\ Backed, [Next]_vars, "wipe" \notin Faults
               PROVE  [Promise!Next]_(Promise!vars)
    OBVIOUS
  <1> USE ConstantsAssumption
      DEF TypeInv, TypeOK, ModeOf, Mode, Image,
          hostVars, lockVars, storeVars, tagVars, stateVars, localVars, vars
  <1>same. ASSUME store'["oci"] = store["oci"], UNCHANGED <<index, coverage, health>>
           PROVE  [Promise!Next]_(Promise!vars)
    <2>1. UNCHANGED <<AvailBar, RecordBar, ClaimBar>>
      BY <1>same, RecordKept DEF AvailBar, Available, ClaimBar
    <2>2. QED
      BY <2>1 DEF Promise!vars, AvailBar, RecordBar, ClaimBar
  <1>oci. ASSUME NEW new \in SUBSET Spec, store' = [store EXCEPT !["oci"] = @ \cup new],
                 UNCHANGED <<index, coverage, health>>
          PROVE  [Promise!Next]_(Promise!vars)
    <2>1. UNCHANGED <<RecordBar, ClaimBar>>
      BY <1>oci, RecordKept DEF ClaimBar
    <2>2. AvailBar' = [AvailBar EXCEPT !["oci"] = @ \cup new]
      BY <1>oci, RegistryGrows
    <2>3. Promise!Publish("oci")
      BY <2>1, <2>2 DEF Promise!Publish, AvailBar, RecordBar, ClaimBar
    <2>4. QED
      BY <2>3 DEF Promise!Next
  <1>1. ASSUME NEW p \in Proc, Start(p) PROVE [Promise!Next]_(Promise!vars)
    BY <1>same, <1>1 DEF Start
  <1>2. ASSUME NEW p \in Proc, GateRefused(p) PROVE [Promise!Next]_(Promise!vars)
    BY <1>same, <1>2 DEF GateRefused
  <1>3. ASSUME NEW p \in Proc, RenderProducer(p) PROVE [Promise!Next]_(Promise!vars)
    BY <1>same, <1>3 DEF RenderProducer
  <1>4. ASSUME NEW p \in Proc, AcquireShared(p) PROVE [Promise!Next]_(Promise!vars)
    BY <1>same, <1>4 DEF AcquireShared
  <1>5. ASSUME NEW p \in Proc, Stage(p) PROVE [Promise!Next]_(Promise!vars)
    <2>1. UNCHANGED <<index, coverage, health>>
      BY <1>5 DEF Stage
    <2>2. dockerfile.env \in Env /\ SpecsOf[hostLock[dockerfile.env]] \subseteq Spec
      BY <1>5 DEF Stage, Control, Rendered
    <2>3. \E new \in SUBSET Spec : store' = Autopush(new)
      BY <1>5, <2>2 DEF Stage
    <2>4. CASE store' = store
      BY <1>same, <2>1, <2>4
    <2>5. CASE \E new \in SUBSET Spec : store' = [store EXCEPT !["oci"] = @ \cup new]
      BY <1>oci, <2>1, <2>5
    <2>6. QED
      BY <2>3, <2>4, <2>5 DEF Autopush
  <1>6. ASSUME NEW p \in Proc, StageLost(p) PROVE [Promise!Next]_(Promise!vars)
    <2>1. UNCHANGED <<index, coverage, health>>
      BY <1>6 DEF StageLost
    <2>2. dockerfile.env \in Env /\ SpecsOf[hostLock[dockerfile.env]] \subseteq Spec
      BY <1>6 DEF StageLost, Control, Rendered
    <2>3. \E new \in SUBSET Spec : store' = Autopush(new)
      BY <1>6, <2>2 DEF StageLost
    <2>4. CASE store' = store
      BY <1>same, <2>1, <2>4
    <2>5. CASE \E new \in SUBSET Spec : store' = [store EXCEPT !["oci"] = @ \cup new]
      BY <1>oci, <2>1, <2>5
    <2>6. QED
      BY <2>3, <2>4, <2>5 DEF Autopush
  <1>7. ASSUME NEW p \in Proc, RecordLost(p) PROVE [Promise!Next]_(Promise!vars)
    <2>1. ClaimBar' = NoLock
      BY <1>7 DEF RecordLost, Unhealthy, ClaimBar
    <2>2. UNCHANGED <<AvailBar, RecordBar>>
      BY <1>7, RecordKept DEF RecordLost, AvailBar, Available
    <2>3. Promise!Withdraw
      BY <2>1, <2>2 DEF Promise!Withdraw, AvailBar, RecordBar, ClaimBar
    <2>4. QED
      BY <2>3 DEF Promise!Next
  <1>8. ASSUME NEW p \in Proc, AcquireExclusive(p) PROVE [Promise!Next]_(Promise!vars)
    BY <1>same, <1>8 DEF AcquireExclusive
  <1>9. ASSUME NEW p \in Proc, InspectBuilt(p) PROVE [Promise!Next]_(Promise!vars)
    BY <1>same, <1>9 DEF InspectBuilt
  <1>10. ASSUME NEW p \in Proc, InspectStable(p) PROVE [Promise!Next]_(Promise!vars)
    BY <1>same, <1>10 DEF InspectStable
  <1>11. ASSUME NEW p \in Proc, InspectRecovery(p) PROVE [Promise!Next]_(Promise!vars)
    BY <1>same, <1>11 DEF InspectRecovery
  <1>12. ASSUME NEW p \in Proc, ResumeRefused(p) PROVE [Promise!Next]_(Promise!vars)
    BY <1>same, <1>12 DEF ResumeRefused
  <1>13. ASSUME NEW p \in Proc, Push(p) PROVE [Promise!Next]_(Promise!vars)
    <2>1. CASE ModeOf(p) = "local"
      <3>1. store'["oci"] = store["oci"] /\ UNCHANGED <<index, coverage, health>>
        BY <1>13, <2>1 DEF Push
      <3>2. QED
        BY <1>same, <3>1
    <2>2. CASE ModeOf(p) = "oci"
      <3>1. image[img[p]].specs \in SUBSET Spec
        BY <1>13 DEF Push
      <3>2. store' = [store EXCEPT !["oci"] = @ \cup image[img[p]].specs]
        BY <1>13, <2>2 DEF Push
      <3>3. UNCHANGED <<index, coverage, health>>
        BY <1>13 DEF Push
      <3>4. QED
        BY <1>oci, <3>1, <3>2, <3>3
    <2>3. QED
      BY <2>1, <2>2
  <1>14. ASSUME NEW p \in Proc, UpdateIndex(p) PROVE [Promise!Next]_(Promise!vars)
    <2>1. store["local"] \in SUBSET Spec /\ index' = index \cup store["local"]
      BY <1>14 DEF UpdateIndex, Indexed
    <2>2. AvailBar' = [AvailBar EXCEPT !["local"] = @ \cup store["local"]]
      BY <1>14, <2>1 DEF UpdateIndex, AvailBar, Available
    <2>3. UNCHANGED <<RecordBar, ClaimBar>>
      BY <1>14, RecordKept DEF UpdateIndex, ClaimBar
    <2>4. Promise!Publish("local")
      BY <2>1, <2>2, <2>3 DEF Promise!Publish, AvailBar, RecordBar, ClaimBar
    <2>5. QED
      BY <2>4 DEF Promise!Next
  <1>15. ASSUME NEW p \in Proc, Check(p) PROVE [Promise!Next]_(Promise!vars)
    BY <1>same, <1>15 DEF Check
  <1>16. ASSUME NEW p \in Proc, Promote(p) PROVE [Promise!Next]_(Promise!vars)
    BY <1>same, <1>16 DEF Promote
  <1>17. ASSUME NEW p \in Proc, Recheck(p) PROVE [Promise!Next]_(Promise!vars)
    BY <1>same, <1>17 DEF Recheck
  <1>18. ASSUME NEW p \in Proc, Bind(p) PROVE [Promise!Next]_(Promise!vars)
    BY <1>same, <1>18 DEF Bind
  <1>19. ASSUME NEW p \in Proc, StageCoverage(p) PROVE [Promise!Next]_(Promise!vars)
    BY <1>same, <1>19 DEF StageCoverage
  <1>20. ASSUME NEW p \in Proc, RenameCoverage(p) PROVE [Promise!Next]_(Promise!vars)
    <2>1. PICK l \in Lock : l = target[p] /\ img[p] \in Proc
      BY <1>20 DEF RenameCoverage, Claims, CompleteAt
    <2>2. SpecsOf[image[img[p]].lock] \subseteq AvailBar[ModeOf(p)]
      BY <1>20 DEF RenameCoverage, Backed, Passed, Published, AvailBar
    <2>3. SpecsOf[image[img[p]].lock] \subseteq Spec
      BY <2>2 DEF AvailBar, Available
    <2> DEFINE r == [kind |-> ModeOf(p), needs |-> SpecsOf[image[img[p]].lock]]
    <2>4. RecordBar' = [RecordBar EXCEPT ![l] = {r}]
      BY <1>20, <2>1 DEF RenameCoverage, RecordBar
    <2>5. UNCHANGED <<AvailBar, ClaimBar>>
      BY <1>20 DEF RenameCoverage, AvailBar, Available, ClaimBar
    <2>6. r \in Promise!Record /\ r.needs \subseteq AvailBar[r.kind]
      BY <2>2, <2>3 DEF Promise!Record
    <2>7. Promise!Cover(l)
      BY <2>4, <2>5, <2>6 DEF Promise!Cover, AvailBar, RecordBar, ClaimBar
    <2>8. QED
      BY <2>7 DEF Promise!Next
  <1>21. ASSUME NEW p \in Proc, MarkHealthy(p) PROVE [Promise!Next]_(Promise!vars)
    <2>0. PICK l \in Lock : l = target[p] /\ coverage[l].img \in Proc
      BY <1>21 DEF MarkHealthy, Claims
    <2>1. RecordBar[l] # {}
      BY <2>0 DEF RecordBar
    <2>2. ClaimBar' = l
      BY <1>21, <2>0 DEF MarkHealthy, Healthy, ClaimBar
    <2>3. UNCHANGED <<AvailBar, RecordBar>>
      BY <1>21, RecordKept DEF MarkHealthy, AvailBar, Available
    <2>4. Promise!Claim(l)
      BY <2>1, <2>2, <2>3 DEF Promise!Claim, AvailBar, RecordBar, ClaimBar
    <2>5. QED
      BY <2>4 DEF Promise!Next
  <1>22. ASSUME NEW p \in Proc, Cleanup(p) PROVE [Promise!Next]_(Promise!vars)
    BY <1>same, <1>22 DEF Cleanup
  <1>23. ASSUME NEW p \in Proc, StepFails(p) PROVE [Promise!Next]_(Promise!vars)
    <2>1. UNCHANGED <<index, coverage, health>>
      BY <1>23 DEF StepFails
    <2>2. CASE store' = store
      BY <1>same, <2>1, <2>2
    <2>3. CASE store' # store
      <3>1. PICK new \in SUBSET image[img[p]].specs :
               store' = [store EXCEPT ![ModeOf(p)] = @ \cup new]
        BY <1>23, <2>3 DEF StepFails
      <3>2. new \in SUBSET Spec
        BY <1>23, <2>3 DEF StepFails
      <3>3. CASE ModeOf(p) = "local"
        <4>1. store'["oci"] = store["oci"]
          BY <3>1, <3>3
        <4>2. QED
          BY <1>same, <2>1, <4>1
      <3>4. CASE ModeOf(p) = "oci"
        BY <1>oci, <2>1, <3>1, <3>2, <3>4
      <3>5. QED
        BY <3>3, <3>4
    <2>4. QED
      BY <2>2, <2>3
  <1>24. ASSUME NEW p \in Proc, RecordFailure(p) PROVE [Promise!Next]_(Promise!vars)
    <2>1. ClaimBar' = NoLock
      BY <1>24 DEF RecordFailure, Unhealthy, ClaimBar
    <2>2. UNCHANGED <<AvailBar, RecordBar>>
      BY <1>24, RecordKept DEF RecordFailure, AvailBar, Available
    <2>3. Promise!Withdraw
      BY <2>1, <2>2 DEF Promise!Withdraw, AvailBar, RecordBar, ClaimBar
    <2>4. QED
      BY <2>3 DEF Promise!Next
  <1>25. ASSUME NEW p \in Proc, ResolvePolicy(p) PROVE [Promise!Next]_(Promise!vars)
    BY <1>same, <1>25 DEF ResolvePolicy
  <1>26. ASSUME NEW p \in Proc, RenderConsumer(p) PROVE [Promise!Next]_(Promise!vars)
    BY <1>same, <1>26 DEF RenderConsumer
  <1>27. ASSUME NEW p \in Proc, RenderOnly(p) PROVE [Promise!Next]_(Promise!vars)
    BY <1>same, <1>27 DEF RenderOnly
  <1>28. ASSUME NEW p \in Proc, Admit(p) PROVE [Promise!Next]_(Promise!vars)
    BY <1>same, <1>28 DEF Admit
  <1>29. ASSUME NEW p \in Proc, ConsumerFails(p) PROVE [Promise!Next]_(Promise!vars)
    BY <1>same, <1>29 DEF ConsumerFails
  <1>30. ASSUME NEW p \in Proc, Consume(p) PROVE [Promise!Next]_(Promise!vars)
    <2>1. UNCHANGED <<index, coverage, health>>
      BY <1>30 DEF Consume
    <2>2. dockerfile.env \in Env /\ SpecsOf[hostLock[dockerfile.env]] \subseteq Spec
      BY <1>30 DEF Consume, Control, Rendered
    <2>3. \E new \in SUBSET Spec : store' = Autopush(new)
      BY <1>30, <2>2 DEF Consume
    <2>4. CASE store' = store
      BY <1>same, <2>1, <2>4
    <2>5. CASE \E new \in SUBSET Spec : store' = [store EXCEPT !["oci"] = @ \cup new]
      BY <1>oci, <2>1, <2>5
    <2>6. QED
      BY <2>3, <2>4, <2>5 DEF Autopush
  <1>31. ASSUME NEW p \in Proc, Crash(p) PROVE [Promise!Next]_(Promise!vars)
    BY <1>same, <1>31 DEF Crash
  <1>32. ASSUME NEW e \in Env, EditLock(e) PROVE [Promise!Next]_(Promise!vars)
    BY <1>same, <1>32 DEF EditLock
  <1>33. ASSUME NEW p \in Proc, RemoveImage(p) PROVE [Promise!Next]_(Promise!vars)
    BY <1>same, <1>33 DEF RemoveImage
  <1>34. CASE WipeStore
    BY <1>same, <1>34 DEF WipeStore
  <1>35. CASE UNCHANGED vars
    BY <1>same, <1>35 DEF vars
  <1>36. QED
    BY <1>1, <1>2, <1>3, <1>4, <1>5, <1>6, <1>7, <1>8, <1>9, <1>10, <1>11,
       <1>12, <1>13, <1>14, <1>15, <1>16, <1>17, <1>18, <1>19, <1>20, <1>21,
       <1>22, <1>23, <1>24, <1>25, <1>26, <1>27, <1>28, <1>29, <1>30, <1>31,
       <1>32, <1>33, <1>34, <1>35 DEF Next, Step, Finished

(* KeepsPromise in every instance in which no operator removes the store:  *)
(* Buildcache implements Admission.                                        *)
THEOREM PromiseTheorem ==
  ASSUME "wipe" \notin Faults PROVE BuildcacheSpec => KeepsPromise
  <1>1. TypeInv /\ Claims /\ Settled /\ Indexed /\ Backed /\ [Next]_vars
          => [Promise!Next]_(Promise!vars)
    BY PromiseStep
  <1>2. QED
    BY <1>1, PromiseInit, TypeInvariant, ClaimsInvariant, SettledInvariant,
       IndexedInvariant, BackedInvariant,
       PTL DEF BuildcacheSpec, KeepsPromise, Promise!AdmissionSpec

===============================================================================
