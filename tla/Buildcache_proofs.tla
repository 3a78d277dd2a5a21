--------------------------- MODULE Buildcache_proofs --------------------------
(***************************************************************************)
(* Proofs about Buildcache, for every set of processes, environments,      *)
(* locks and packages, every mix of commands and backends, and every       *)
(* choice of faults except where a theorem says otherwise.                 *)
(*                                                                         *)
(* The inductive invariant is built in three layers.  TypeInv is the type  *)
(* invariant with what the control flow knows (without it TypeOK is not    *)
(* inductive: the engine reads the environment a Dockerfile names).        *)
(* Mutex ties the flock to the control points.  Claims ties health.json    *)
(* to the coverage records, through the two steps in which a publisher has *)
(* named its record but not yet claimed health.                            *)
(***************************************************************************)
EXTENDS Buildcache, TLAPS

(* A process that has started works for an environment. *)
Started == \A p \in Proc : pc[p] # "idle" => EnvOf(p) \in Env

(* Whoever may start an engine build finds a Dockerfile some command rendered. *)
Rendered ==
    \A p \in Proc :
        \/ pc[p] \in {"stage", "admit", "consume", "build"}
        \/ pc[p] = "waitShared" /\ job[p].cmd = "build"
        => dockerfile.env \in Env

(* The commands that reach each part of the sequence. *)
Roles ==
    \A p \in Proc :
        /\ pc[p] \in {"gate", "stage", "lost"} => job[p].cmd = "build"
        /\ pc[p] \in {"policy", "write", "admit", "consume"} => job[p].cmd \in Consuming
        /\ pc[p] = "waitShared" => job[p].cmd \in Consuming \cup {"build"}
        /\ pc[p] \in ExclusiveAt \cup {"waitInspect", "waitPush", "cleanup"}
             => job[p].cmd \in Producing \cup {"verify"}

Control == Started /\ Rendered /\ Roles
TypeInv == TypeOK /\ Control

(* The flock has either one exclusive holder or shared ones, and a process *)
(* holds it exactly between its acquisition and its release. *)
Mutex ==
    /\ ex # NoProc => sh = {}
    /\ \A p \in Proc : pc[p] \in ExclusiveAt <=> ex = p
    /\ \A p \in Proc : pc[p] \in SharedAt <=> p \in sh

(* A record that health names, or is about to name, exists. *)
Claims ==
    /\ health.state = "healthy" => /\ health.cov \in Lock
                                  /\ coverage[health.cov].img \in Proc
    /\ \A p \in Proc :
         /\ pc[p] = "mark" => /\ target[p] \in Lock
                             /\ coverage[target[p]].img \in Proc
         /\ pc[p] = "rename" => target[p] \in Lock
         /\ pc[p] \in CompleteAt \cup {"waitPush"} => img[p] \in Proc

-------------------------------------------------------------------------------
(* Types and control.                                                      *)

(* The initial state is well typed.                                        *)
LEMMA TypeInit == Init => TypeInv
  <1> SUFFICES ASSUME Init PROVE TypeInv
    OBVIOUS
  <1> USE ConstantsAssumption
      DEF Init, NoImage, NoCoverage, NoHealth, Image, Coverage, Health, ProcOrNone,
          EnvOrNone, LockOrNone, PC, Mode, Command, Producing, Consuming
  <1>1. hostLock \in [Env -> Lock]
    OBVIOUS
  <1>2. dockerfile \in [env : EnvOrNone, producer : BOOLEAN, mode : Mode]
    OBVIOUS
  <1>3. ex \in ProcOrNone /\ sh \subseteq Proc
    OBVIOUS
  <1>4. storeDir \in BOOLEAN
    OBVIOUS
  <1>5. store \in [Mode -> SUBSET Spec] /\ index \subseteq Spec
    OBVIOUS
  <1>6. temp \subseteq Proc
    OBVIOUS
  <1>7. stable \in [Env -> ProcOrNone]
    OBVIOUS
  <1>8. image \in [Proc -> Image]
    OBVIOUS
  <1>9. coverage \in [Lock -> Coverage]
    OBVIOUS
  <1>10. health \in Health
    OBVIOUS
  <1>11. pc \in [Proc -> PC]
    OBVIOUS
  <1>12. job \in [Proc -> [cmd : Command, env : EnvOrNone, mode : Mode]]
    OBVIOUS
  <1>13. lock \in [Proc -> LockOrNone]
    OBVIOUS
  <1>14. img \in [Proc -> ProcOrNone]
    OBVIOUS
  <1>15. target \in [Proc -> LockOrNone]
    OBVIOUS
  <1>16. policy \in [Proc -> {"never", "auto", "only"}]
    OBVIOUS
  <1>17. Control
    BY DEF Control, Started, Rendered, Roles, ExclusiveAt, CompleteAt
  <1>18. QED
    BY <1>1, <1>2, <1>3, <1>4, <1>5, <1>6, <1>7, <1>8, <1>9, <1>10, <1>11,
       <1>12, <1>13, <1>14, <1>15, <1>16, <1>17 DEF TypeInv, TypeOK

(* A step to a control point keeps the type of pc.                         *)
LEMMA PcType ==
  ASSUME NEW p \in Proc, NEW s \in PC, pc \in [Proc -> PC], Goto(p, s)
  PROVE  pc' \in [Proc -> PC]
  BY DEF Goto

(* Every step goes to control points.                                      *)
LEMMA PcNext == pc \in [Proc -> PC] /\ [Next]_vars => pc' \in [Proc -> PC]
  <1> SUFFICES ASSUME pc \in [Proc -> PC], [Next]_vars PROVE pc' \in [Proc -> PC]
    OBVIOUS
  <1> USE PcType DEF PC, SharedAt, ExclusiveAt, CompleteAt, Terminal,
             hostVars, lockVars, storeVars, tagVars, stateVars, localVars, vars
  <1>1. ASSUME NEW p \in Proc, Start(p) PROVE pc' \in [Proc -> PC]
    <2>1. \E s \in {"gate", "waitInspect", "waitShared", "render"} : Goto(p, s)
      BY <1>1, ConstantsAssumption DEF Start, Command, Producing, Consuming
    <2>2. QED
      BY <2>1
  <1>2. ASSUME NEW p \in Proc, GateRefused(p) PROVE pc' \in [Proc -> PC]
    BY <1>2 DEF GateRefused
  <1>3. ASSUME NEW p \in Proc, RenderProducer(p) PROVE pc' \in [Proc -> PC]
    BY <1>3 DEF RenderProducer
  <1>4. ASSUME NEW p \in Proc, AcquireShared(p) PROVE pc' \in [Proc -> PC]
    BY <1>4 DEF AcquireShared
  <1>5. ASSUME NEW p \in Proc, Stage(p) PROVE pc' \in [Proc -> PC]
    BY <1>5 DEF Stage
  <1>6. ASSUME NEW p \in Proc, StageLost(p) PROVE pc' \in [Proc -> PC]
    BY <1>6 DEF StageLost
  <1>7. ASSUME NEW p \in Proc, RecordLost(p) PROVE pc' \in [Proc -> PC]
    BY <1>7 DEF RecordLost
  <1>8. ASSUME NEW p \in Proc, AcquireExclusive(p) PROVE pc' \in [Proc -> PC]
    BY <1>8 DEF AcquireExclusive
  <1>9. ASSUME NEW p \in Proc, InspectBuilt(p) PROVE pc' \in [Proc -> PC]
    BY <1>9 DEF InspectBuilt
  <1>10. ASSUME NEW p \in Proc, InspectStable(p) PROVE pc' \in [Proc -> PC]
    BY <1>10 DEF InspectStable
  <1>11. ASSUME NEW p \in Proc, InspectRecovery(p) PROVE pc' \in [Proc -> PC]
    BY <1>11 DEF InspectRecovery
  <1>12. ASSUME NEW p \in Proc, ResumeRefused(p) PROVE pc' \in [Proc -> PC]
    BY <1>12 DEF ResumeRefused
  <1>13. ASSUME NEW p \in Proc, Push(p) PROVE pc' \in [Proc -> PC]
    BY <1>13 DEF Push
  <1>14. ASSUME NEW p \in Proc, UpdateIndex(p) PROVE pc' \in [Proc -> PC]
    BY <1>14 DEF UpdateIndex
  <1>15. ASSUME NEW p \in Proc, Check(p) PROVE pc' \in [Proc -> PC]
    BY <1>15 DEF Check
  <1>16. ASSUME NEW p \in Proc, Promote(p) PROVE pc' \in [Proc -> PC]
    BY <1>16 DEF Promote
  <1>17. ASSUME NEW p \in Proc, Recheck(p) PROVE pc' \in [Proc -> PC]
    BY <1>17 DEF Recheck
  <1>18. ASSUME NEW p \in Proc, Bind(p) PROVE pc' \in [Proc -> PC]
    BY <1>18 DEF Bind
  <1>19. ASSUME NEW p \in Proc, StageCoverage(p) PROVE pc' \in [Proc -> PC]
    BY <1>19 DEF StageCoverage
  <1>20. ASSUME NEW p \in Proc, RenameCoverage(p) PROVE pc' \in [Proc -> PC]
    BY <1>20 DEF RenameCoverage
  <1>21. ASSUME NEW p \in Proc, MarkHealthy(p) PROVE pc' \in [Proc -> PC]
    BY <1>21 DEF MarkHealthy
  <1>22. ASSUME NEW p \in Proc, Cleanup(p) PROVE pc' \in [Proc -> PC]
    BY <1>22 DEF Cleanup
  <1>23. ASSUME NEW p \in Proc, StepFails(p) PROVE pc' \in [Proc -> PC]
    BY <1>23 DEF StepFails
  <1>24. ASSUME NEW p \in Proc, RecordFailure(p) PROVE pc' \in [Proc -> PC]
    BY <1>24 DEF RecordFailure
  <1>25. ASSUME NEW p \in Proc, ResolvePolicy(p) PROVE pc' \in [Proc -> PC]
    BY <1>25 DEF ResolvePolicy
  <1>26. ASSUME NEW p \in Proc, RenderConsumer(p) PROVE pc' \in [Proc -> PC]
    BY <1>26 DEF RenderConsumer
  <1>27. ASSUME NEW p \in Proc, RenderOnly(p) PROVE pc' \in [Proc -> PC]
    BY <1>27 DEF RenderOnly
  <1>28. ASSUME NEW p \in Proc, Admit(p) PROVE pc' \in [Proc -> PC]
    BY <1>28 DEF Admit
  <1>29. ASSUME NEW p \in Proc, ConsumerFails(p) PROVE pc' \in [Proc -> PC]
    BY <1>29 DEF ConsumerFails
  <1>30. ASSUME NEW p \in Proc, Consume(p) PROVE pc' \in [Proc -> PC]
    BY <1>30 DEF Consume
  <1>31. ASSUME NEW p \in Proc, Crash(p) PROVE pc' \in [Proc -> PC]
    BY <1>31 DEF Crash
  <1>32. ASSUME NEW e \in Env, EditLock(e) PROVE pc' \in [Proc -> PC]
    BY <1>32 DEF EditLock
  <1>33. ASSUME NEW p \in Proc, RemoveImage(p) PROVE pc' \in [Proc -> PC]
    BY <1>33 DEF RemoveImage
  <1>34. CASE WipeStore
    BY <1>34 DEF WipeStore
  <1>35. CASE UNCHANGED vars
    BY <1>35 DEF vars
  <1>36. QED
    BY <1>1, <1>2, <1>3, <1>4, <1>5, <1>6, <1>7, <1>8, <1>9, <1>10, <1>11,
       <1>12, <1>13, <1>14, <1>15, <1>16, <1>17, <1>18, <1>19, <1>20, <1>21,
       <1>22, <1>23, <1>24, <1>25, <1>26, <1>27, <1>28, <1>29, <1>30, <1>31,
       <1>32, <1>33, <1>34, <1>35 DEF Next, Step, Finished

(* Every step keeps the types.                                             *)
LEMMA TypeNext == TypeInv /\ [Next]_vars => TypeOK'
  <1> SUFFICES ASSUME TypeInv, [Next]_vars PROVE TypeOK'
    OBVIOUS
  <1> USE ConstantsAssumption
      DEF TypeInv, TypeOK, Control, Started, Rendered, Roles, Image, Coverage, Health,
          ProcOrNone, EnvOrNone, LockOrNone, SharedAt, ExclusiveAt, CompleteAt,
          Mode, Command, Producing, Consuming, EnvOf, ModeOf,
          hostVars, lockVars, storeVars, tagVars, stateVars, localVars, vars
  <1>pc. pc' \in [Proc -> PC]
    BY PcNext
  <1>1. ASSUME NEW p \in Proc, Start(p) PROVE TypeOK'
    BY <1>pc, <1>1 DEF Start
  <1>2. ASSUME NEW p \in Proc, GateRefused(p) PROVE TypeOK'
    <2>1. storeDir' \in BOOLEAN
      BY <1>2 DEF GateRefused
    <2>2. QED
      BY <1>pc, <1>2, <2>1 DEF GateRefused
  <1>3. ASSUME NEW p \in Proc, RenderProducer(p) PROVE TypeOK'
    BY <1>pc, <1>3 DEF RenderProducer
  <1>4. ASSUME NEW p \in Proc, AcquireShared(p) PROVE TypeOK'
    BY <1>pc, <1>4 DEF AcquireShared
  <1>5. ASSUME NEW p \in Proc, Stage(p) PROVE TypeOK'
    BY <1>pc, <1>5 DEF Stage, Built, Autopush
  <1>6. ASSUME NEW p \in Proc, StageLost(p) PROVE TypeOK'
    BY <1>pc, <1>6 DEF StageLost, Autopush
  <1>7. ASSUME NEW p \in Proc, RecordLost(p) PROVE TypeOK'
    BY <1>pc, <1>7 DEF RecordLost, Unhealthy
  <1>8. ASSUME NEW p \in Proc, AcquireExclusive(p) PROVE TypeOK'
    BY <1>pc, <1>8 DEF AcquireExclusive
  <1>9. ASSUME NEW p \in Proc, InspectBuilt(p) PROVE TypeOK'
    <2>1. img' \in [Proc -> ProcOrNone]
      <3>1. CASE img' = img
        BY <3>1
      <3>2. CASE img' = [img EXCEPT ![p] = NoProc]
        BY <3>2
      <3>3. QED
        BY <1>9, <3>1, <3>2 DEF InspectBuilt
    <2>2. QED
      BY <1>pc, <1>9, <2>1 DEF InspectBuilt
  <1>10. ASSUME NEW p \in Proc, InspectStable(p) PROVE TypeOK'
    <2>1. stable[EnvOf(p)] \in ProcOrNone
      BY <1>10 DEF InspectStable
    <2>2. img' \in [Proc -> ProcOrNone]
      <3>1. CASE img' = img
        BY <3>1
      <3>2. CASE img' = [img EXCEPT ![p] = stable[EnvOf(p)]]
        BY <3>2, <2>1
      <3>3. QED
        BY <1>10, <3>1, <3>2 DEF InspectStable
    <2>3. QED
      BY <1>pc, <1>10, <2>2 DEF InspectStable
  <1>11. ASSUME NEW p \in Proc, InspectRecovery(p) PROVE TypeOK'
    BY <1>pc, <1>11 DEF InspectRecovery, Resumable
  <1>12. ASSUME NEW p \in Proc, ResumeRefused(p) PROVE TypeOK'
    BY <1>pc, <1>12 DEF ResumeRefused
  <1>13. ASSUME NEW p \in Proc, Push(p) PROVE TypeOK'
    <2>1. image[img[p]].specs \subseteq Spec
      BY <1>13 DEF Push
    <2>2. store' \in [Mode -> SUBSET Spec]
      BY <1>13, <2>1 DEF Push
    <2>3. storeDir' \in BOOLEAN
      BY <1>13 DEF Push
    <2>4. QED
      BY <1>pc, <1>13, <2>2, <2>3 DEF Push
  <1>14. ASSUME NEW p \in Proc, UpdateIndex(p) PROVE TypeOK'
    BY <1>pc, <1>14 DEF UpdateIndex
  <1>15. ASSUME NEW p \in Proc, Check(p) PROVE TypeOK'
    BY <1>pc, <1>15 DEF Check
  <1>16. ASSUME NEW p \in Proc, Promote(p) PROVE TypeOK'
    BY <1>pc, <1>16 DEF Promote
  <1>17. ASSUME NEW p \in Proc, Recheck(p) PROVE TypeOK'
    BY <1>pc, <1>17 DEF Recheck
  <1>18. ASSUME NEW p \in Proc, Bind(p) PROVE TypeOK'
    BY <1>pc, <1>18 DEF Bind
  <1>19. ASSUME NEW p \in Proc, StageCoverage(p) PROVE TypeOK'
    BY <1>pc, <1>19 DEF StageCoverage
  <1>20. ASSUME NEW p \in Proc, RenameCoverage(p) PROVE TypeOK'
    <2>1. [img |-> img[p], kind |-> ModeOf(p)] \in Coverage
      OBVIOUS
    <2>2. coverage' \in [Lock -> Coverage]
      BY <1>20, <2>1 DEF RenameCoverage
    <2>3. QED
      BY <1>pc, <1>20, <2>2 DEF RenameCoverage
  <1>21. ASSUME NEW p \in Proc, MarkHealthy(p) PROVE TypeOK'
    BY <1>pc, <1>21 DEF MarkHealthy, Healthy
  <1>22. ASSUME NEW p \in Proc, Cleanup(p) PROVE TypeOK'
    BY <1>pc, <1>22 DEF Cleanup
  <1>23. ASSUME NEW p \in Proc, StepFails(p) PROVE TypeOK'
    BY <1>pc, <1>23 DEF StepFails
  <1>24. ASSUME NEW p \in Proc, RecordFailure(p) PROVE TypeOK'
    BY <1>pc, <1>24 DEF RecordFailure, Unhealthy, RecoveryImage
  <1>25. ASSUME NEW p \in Proc, ResolvePolicy(p) PROVE TypeOK'
    <2>1. job[p].cmd \in {"never", "auto", "only"}
      BY <1>25 DEF ResolvePolicy
    <2>2. PICK c \in {"never", "auto", "only"} :
             policy' = [policy EXCEPT ![p] = c] \/ policy' = policy
      BY <1>25, <2>1 DEF ResolvePolicy
    <2>3. policy' \in [Proc -> {"never", "auto", "only"}]
      <3>1. CASE policy' = policy
        BY <3>1
      <3>2. CASE policy' = [policy EXCEPT ![p] = c]
        BY <3>2
      <3>3. QED
        BY <2>2, <3>1, <3>2
    <2>4. sh' \subseteq Proc
      BY <1>25 DEF ResolvePolicy
    <2>5. QED
      BY <1>pc, <1>25, <2>3, <2>4 DEF ResolvePolicy
  <1>26. ASSUME NEW p \in Proc, RenderConsumer(p) PROVE TypeOK'
    BY <1>pc, <1>26 DEF RenderConsumer
  <1>27. ASSUME NEW p \in Proc, RenderOnly(p) PROVE TypeOK'
    BY <1>pc, <1>27 DEF RenderOnly
  <1>28. ASSUME NEW p \in Proc, Admit(p) PROVE TypeOK'
    BY <1>pc, <1>28 DEF Admit
  <1>29. ASSUME NEW p \in Proc, ConsumerFails(p) PROVE TypeOK'
    BY <1>pc, <1>29 DEF ConsumerFails
  <1>30. ASSUME NEW p \in Proc, Consume(p) PROVE TypeOK'
    BY <1>pc, <1>30 DEF Consume, Built, Autopush
  <1>31. ASSUME NEW p \in Proc, Crash(p) PROVE TypeOK'
    BY <1>pc, <1>31 DEF Crash
  <1>32. ASSUME NEW e \in Env, EditLock(e) PROVE TypeOK'
    BY <1>pc, <1>32 DEF EditLock
  <1>33. ASSUME NEW p \in Proc, RemoveImage(p) PROVE TypeOK'
    BY <1>pc, <1>33 DEF RemoveImage
  <1>34. CASE WipeStore
    <2>1. store' \in [Mode -> SUBSET Spec]
      BY <1>34 DEF WipeStore
    <2>2. index' \subseteq Spec /\ storeDir' \in BOOLEAN
      BY <1>34 DEF WipeStore
    <2>3. QED
      BY <1>pc, <1>34, <2>1, <2>2 DEF WipeStore
  <1>35. CASE UNCHANGED vars
    BY <1>pc, <1>35 DEF vars
  <1>36. QED
    BY <1>1, <1>2, <1>3, <1>4, <1>5, <1>6, <1>7, <1>8, <1>9, <1>10, <1>11,
       <1>12, <1>13, <1>14, <1>15, <1>16, <1>17, <1>18, <1>19, <1>20, <1>21,
       <1>22, <1>23, <1>24, <1>25, <1>26, <1>27, <1>28, <1>29, <1>30, <1>31,
       <1>32, <1>33, <1>34, <1>35 DEF Next, Step, Finished

(* Every step keeps what the control flow knows.                           *)
LEMMA ControlNext == TypeInv /\ [Next]_vars => Control'
  <1> SUFFICES ASSUME TypeInv, [Next]_vars PROVE Control'
    OBVIOUS
  <1> USE ConstantsAssumption
      DEF TypeInv, TypeOK, Control, Started, Rendered, Roles,
          EnvOrNone, PC, SharedAt, ExclusiveAt, CompleteAt,
          Terminal, Mode, Command, Producing, Consuming, Goto, EnvOf, ModeOf,
          hostVars, lockVars, storeVars, tagVars, stateVars, localVars, vars
  <1>1. ASSUME NEW p \in Proc, Start(p) PROVE Control'
    BY <1>1 DEF Start
  <1>2. ASSUME NEW p \in Proc, GateRefused(p) PROVE Control'
    BY <1>2 DEF GateRefused
  <1>3. ASSUME NEW p \in Proc, RenderProducer(p) PROVE Control'
    BY <1>3 DEF RenderProducer
  <1>4. ASSUME NEW p \in Proc, AcquireShared(p) PROVE Control'
    BY <1>4 DEF AcquireShared
  <1>5. ASSUME NEW p \in Proc, Stage(p) PROVE Control'
    BY <1>5 DEF Stage
  <1>6. ASSUME NEW p \in Proc, StageLost(p) PROVE Control'
    BY <1>6 DEF StageLost
  <1>7. ASSUME NEW p \in Proc, RecordLost(p) PROVE Control'
    BY <1>7 DEF RecordLost
  <1>8. ASSUME NEW p \in Proc, AcquireExclusive(p) PROVE Control'
    BY <1>8 DEF AcquireExclusive
  <1>9. ASSUME NEW p \in Proc, InspectBuilt(p) PROVE Control'
    BY <1>9 DEF InspectBuilt
  <1>10. ASSUME NEW p \in Proc, InspectStable(p) PROVE Control'
    BY <1>10 DEF InspectStable
  <1>11. ASSUME NEW p \in Proc, InspectRecovery(p) PROVE Control'
    BY <1>11 DEF InspectRecovery
  <1>12. ASSUME NEW p \in Proc, ResumeRefused(p) PROVE Control'
    BY <1>12 DEF ResumeRefused
  <1>13. ASSUME NEW p \in Proc, Push(p) PROVE Control'
    BY <1>13 DEF Push
  <1>14. ASSUME NEW p \in Proc, UpdateIndex(p) PROVE Control'
    BY <1>14 DEF UpdateIndex
  <1>15. ASSUME NEW p \in Proc, Check(p) PROVE Control'
    BY <1>15 DEF Check
  <1>16. ASSUME NEW p \in Proc, Promote(p) PROVE Control'
    BY <1>16 DEF Promote
  <1>17. ASSUME NEW p \in Proc, Recheck(p) PROVE Control'
    BY <1>17 DEF Recheck
  <1>18. ASSUME NEW p \in Proc, Bind(p) PROVE Control'
    BY <1>18 DEF Bind
  <1>19. ASSUME NEW p \in Proc, StageCoverage(p) PROVE Control'
    BY <1>19 DEF StageCoverage
  <1>20. ASSUME NEW p \in Proc, RenameCoverage(p) PROVE Control'
    BY <1>20 DEF RenameCoverage
  <1>21. ASSUME NEW p \in Proc, MarkHealthy(p) PROVE Control'
    BY <1>21 DEF MarkHealthy
  <1>22. ASSUME NEW p \in Proc, Cleanup(p) PROVE Control'
    BY <1>22 DEF Cleanup
  <1>23. ASSUME NEW p \in Proc, StepFails(p) PROVE Control'
    BY <1>23 DEF StepFails
  <1>24. ASSUME NEW p \in Proc, RecordFailure(p) PROVE Control'
    BY <1>24 DEF RecordFailure
  <1>25. ASSUME NEW p \in Proc, ResolvePolicy(p) PROVE Control'
    BY <1>25 DEF ResolvePolicy
  <1>26. ASSUME NEW p \in Proc, RenderConsumer(p) PROVE Control'
    BY <1>26 DEF RenderConsumer
  <1>27. ASSUME NEW p \in Proc, RenderOnly(p) PROVE Control'
    BY <1>27 DEF RenderOnly
  <1>28. ASSUME NEW p \in Proc, Admit(p) PROVE Control'
    BY <1>28 DEF Admit
  <1>29. ASSUME NEW p \in Proc, ConsumerFails(p) PROVE Control'
    BY <1>29 DEF ConsumerFails
  <1>30. ASSUME NEW p \in Proc, Consume(p) PROVE Control'
    BY <1>30 DEF Consume
  <1>31. ASSUME NEW p \in Proc, Crash(p) PROVE Control'
    BY <1>31 DEF Crash
  <1>32. ASSUME NEW e \in Env, EditLock(e) PROVE Control'
    BY <1>32 DEF EditLock
  <1>33. ASSUME NEW p \in Proc, RemoveImage(p) PROVE Control'
    BY <1>33 DEF RemoveImage
  <1>34. CASE WipeStore
    BY <1>34 DEF WipeStore
  <1>35. CASE UNCHANGED vars
    BY <1>35 DEF vars
  <1>36. QED
    BY <1>1, <1>2, <1>3, <1>4, <1>5, <1>6, <1>7, <1>8, <1>9, <1>10, <1>11,
       <1>12, <1>13, <1>14, <1>15, <1>16, <1>17, <1>18, <1>19, <1>20, <1>21,
       <1>22, <1>23, <1>24, <1>25, <1>26, <1>27, <1>28, <1>29, <1>30, <1>31,
       <1>32, <1>33, <1>34, <1>35 DEF Next, Step, Finished

(* Every reachable state is well typed.                                    *)
THEOREM TypeInvariant == BuildcacheSpec => []TypeInv
  <1>1. TypeInv /\ [Next]_vars => TypeInv'
    BY TypeNext, ControlNext DEF TypeInv
  <1>2. QED
    BY TypeInit, <1>1, PTL DEF BuildcacheSpec

(* TypeOK, which the runs check, in every instance.                        *)
THEOREM TypeCorrect == BuildcacheSpec => []TypeOK
  <1>1. TypeInv => TypeOK
    BY DEF TypeInv
  <1>2. QED
    BY TypeInvariant, <1>1, PTL

-------------------------------------------------------------------------------
(* The flock.                                                              *)

(* Every step keeps the flock and the control points in agreement.         *)
LEMMA MutexNext == TypeInv /\ Mutex /\ [Next]_vars => Mutex'
  <1> SUFFICES ASSUME TypeInv /\ Mutex, [Next]_vars PROVE Mutex'
    OBVIOUS
  <1> USE ConstantsAssumption
      DEF TypeInv, TypeOK, Mutex, ProcOrNone, PC, SharedAt, ExclusiveAt, CompleteAt,
          Terminal, Producing, Consuming, Goto,
          hostVars, lockVars, storeVars, tagVars, stateVars, localVars, vars
  <1>1. ASSUME NEW p \in Proc, Start(p) PROVE Mutex'
    <2>1. \E s \in {"gate", "waitInspect", "waitShared", "render"} : pc' = [pc EXCEPT ![p] = s]
      BY <1>1 DEF Start, Command
    <2>2. QED
      <3>1. PICK s \in {"gate", "waitInspect", "waitShared", "render"} :
               pc' = [pc EXCEPT ![p] = s]
        BY <2>1
      <3>2. pc[p] = "idle" /\ UNCHANGED <<ex, sh>>
        BY <1>1 DEF Start
      <3>3. QED
        BY <3>1, <3>2
  <1>2. ASSUME NEW p \in Proc, GateRefused(p) PROVE Mutex'
    BY <1>2 DEF GateRefused
  <1>3. ASSUME NEW p \in Proc, RenderProducer(p) PROVE Mutex'
    BY <1>3 DEF RenderProducer
  <1>4. ASSUME NEW p \in Proc, AcquireShared(p) PROVE Mutex'
    BY <1>4 DEF AcquireShared
  <1>5. ASSUME NEW p \in Proc, Stage(p) PROVE Mutex'
    BY <1>5 DEF Stage
  <1>6. ASSUME NEW p \in Proc, StageLost(p) PROVE Mutex'
    BY <1>6 DEF StageLost
  <1>7. ASSUME NEW p \in Proc, RecordLost(p) PROVE Mutex'
    BY <1>7 DEF RecordLost
  <1>8. ASSUME NEW p \in Proc, AcquireExclusive(p) PROVE Mutex'
    <2>1. \E s \in {"push", "inspect"} : pc' = [pc EXCEPT ![p] = s]
      BY <1>8 DEF AcquireExclusive
    <2>2. ex = NoProc /\ sh = {} /\ ex' = p /\ sh' = sh
      BY <1>8 DEF AcquireExclusive, NobodyHolds
    <2>3. \A q \in Proc : pc[q] \notin ExclusiveAt /\ pc[q] \notin SharedAt
      BY <2>2
    <2>4. \A q \in Proc : q # p => pc'[q] = pc[q]
      BY <2>1
    <2>5. pc'[p] \in ExclusiveAt /\ pc'[p] \notin SharedAt
      BY <2>1
    <2>6. QED
      BY <2>2, <2>3, <2>4, <2>5
  <1>9. ASSUME NEW p \in Proc, InspectBuilt(p) PROVE Mutex'
    BY <1>9 DEF InspectBuilt
  <1>10. ASSUME NEW p \in Proc, InspectStable(p) PROVE Mutex'
    BY <1>10 DEF InspectStable
  <1>11. ASSUME NEW p \in Proc, InspectRecovery(p) PROVE Mutex'
    BY <1>11 DEF InspectRecovery
  <1>12. ASSUME NEW p \in Proc, ResumeRefused(p) PROVE Mutex'
    BY <1>12 DEF ResumeRefused
  <1>13. ASSUME NEW p \in Proc, Push(p) PROVE Mutex'
    BY <1>13 DEF Push
  <1>14. ASSUME NEW p \in Proc, UpdateIndex(p) PROVE Mutex'
    BY <1>14 DEF UpdateIndex
  <1>15. ASSUME NEW p \in Proc, Check(p) PROVE Mutex'
    BY <1>15 DEF Check
  <1>16. ASSUME NEW p \in Proc, Promote(p) PROVE Mutex'
    BY <1>16 DEF Promote
  <1>17. ASSUME NEW p \in Proc, Recheck(p) PROVE Mutex'
    BY <1>17 DEF Recheck
  <1>18. ASSUME NEW p \in Proc, Bind(p) PROVE Mutex'
    BY <1>18 DEF Bind
  <1>19. ASSUME NEW p \in Proc, StageCoverage(p) PROVE Mutex'
    BY <1>19 DEF StageCoverage
  <1>20. ASSUME NEW p \in Proc, RenameCoverage(p) PROVE Mutex'
    BY <1>20 DEF RenameCoverage
  <1>21. ASSUME NEW p \in Proc, MarkHealthy(p) PROVE Mutex'
    BY <1>21 DEF MarkHealthy
  <1>22. ASSUME NEW p \in Proc, Cleanup(p) PROVE Mutex'
    BY <1>22 DEF Cleanup
  <1>23. ASSUME NEW p \in Proc, StepFails(p) PROVE Mutex'
    BY <1>23 DEF StepFails
  <1>24. ASSUME NEW p \in Proc, RecordFailure(p) PROVE Mutex'
    BY <1>24 DEF RecordFailure
  <1>25. ASSUME NEW p \in Proc, ResolvePolicy(p) PROVE Mutex'
    <2>1. pc[p] = "policy" /\ UNCHANGED ex
      BY <1>25 DEF ResolvePolicy
    <2>2. CASE pc' = [pc EXCEPT ![p] = "write"] /\ UNCHANGED sh
      BY <2>1, <2>2
    <2>3. CASE pc' = [pc EXCEPT ![p] = "failed"] /\ sh' = sh \ {p}
      BY <2>1, <2>3
    <2>4. QED
      BY <1>25, <2>2, <2>3 DEF ResolvePolicy
  <1>26. ASSUME NEW p \in Proc, RenderConsumer(p) PROVE Mutex'
    BY <1>26 DEF RenderConsumer
  <1>27. ASSUME NEW p \in Proc, RenderOnly(p) PROVE Mutex'
    BY <1>27 DEF RenderOnly
  <1>28. ASSUME NEW p \in Proc, Admit(p) PROVE Mutex'
    BY <1>28 DEF Admit
  <1>29. ASSUME NEW p \in Proc, ConsumerFails(p) PROVE Mutex'
    BY <1>29 DEF ConsumerFails
  <1>30. ASSUME NEW p \in Proc, Consume(p) PROVE Mutex'
    BY <1>30 DEF Consume
  <1>31. ASSUME NEW p \in Proc, Crash(p) PROVE Mutex'
    BY <1>31 DEF Crash
  <1>32. ASSUME NEW e \in Env, EditLock(e) PROVE Mutex'
    BY <1>32 DEF EditLock
  <1>33. ASSUME NEW p \in Proc, RemoveImage(p) PROVE Mutex'
    BY <1>33 DEF RemoveImage
  <1>34. CASE WipeStore
    BY <1>34 DEF WipeStore
  <1>35. CASE UNCHANGED vars
    BY <1>35 DEF vars
  <1>36. QED
    BY <1>1, <1>2, <1>3, <1>4, <1>5, <1>6, <1>7, <1>8, <1>9, <1>10, <1>11,
       <1>12, <1>13, <1>14, <1>15, <1>16, <1>17, <1>18, <1>19, <1>20, <1>21,
       <1>22, <1>23, <1>24, <1>25, <1>26, <1>27, <1>28, <1>29, <1>30, <1>31,
       <1>32, <1>33, <1>34, <1>35 DEF Next, Step, Finished

(* One publisher or any number of readers, at every moment.                *)
THEOREM MutexInvariant == BuildcacheSpec => []Mutex
  <1>1. Init => Mutex
    BY ConstantsAssumption DEF Init, Mutex, ExclusiveAt, CompleteAt, SharedAt
  <1>2. QED
    BY <1>1, TypeInvariant, MutexNext, PTL DEF BuildcacheSpec

(* What a reader depends on stays as it is.                                *)
StoreKept == /\ UNCHANGED <<stable, coverage>>
             /\ "wipe" \notin Faults => UNCHANGED <<store["local"], index>>

(* A step taken while somebody reads is not one of the publisher's, and the *)
(* others leave the store alone; only removing the store by hand does not. *)
LEMMA ReaderStep == TypeInv /\ Mutex /\ [Next]_vars /\ sh # {} => StoreKept
  <1> SUFFICES ASSUME TypeInv /\ Mutex, [Next]_vars, sh # {} PROVE StoreKept
    OBVIOUS
  <1> USE ConstantsAssumption
      DEF TypeInv, TypeOK, Control, Started, Roles, Mutex, StoreKept,
          Mode, SharedAt, ExclusiveAt, CompleteAt,
          hostVars, lockVars, storeVars, tagVars, stateVars, localVars, vars
  <1>1. ASSUME NEW p \in Proc, Start(p) PROVE StoreKept
    BY <1>1 DEF Start
  <1>2. ASSUME NEW p \in Proc, GateRefused(p) PROVE StoreKept
    BY <1>2 DEF GateRefused
  <1>3. ASSUME NEW p \in Proc, RenderProducer(p) PROVE StoreKept
    BY <1>3 DEF RenderProducer
  <1>4. ASSUME NEW p \in Proc, AcquireShared(p) PROVE StoreKept
    BY <1>4 DEF AcquireShared
  <1>5. ASSUME NEW p \in Proc, Stage(p) PROVE StoreKept
    BY <1>5 DEF Stage, Autopush
  <1>6. ASSUME NEW p \in Proc, StageLost(p) PROVE StoreKept
    BY <1>6 DEF StageLost, Autopush
  <1>7. ASSUME NEW p \in Proc, RecordLost(p) PROVE StoreKept
    BY <1>7 DEF RecordLost
  <1>8. ASSUME NEW p \in Proc, AcquireExclusive(p) PROVE StoreKept
    BY <1>8 DEF AcquireExclusive
  <1>9. ASSUME NEW p \in Proc, InspectBuilt(p) PROVE StoreKept
    BY <1>9 DEF InspectBuilt
  <1>10. ASSUME NEW p \in Proc, InspectStable(p) PROVE StoreKept
    BY <1>10 DEF InspectStable
  <1>11. ASSUME NEW p \in Proc, InspectRecovery(p) PROVE StoreKept
    BY <1>11 DEF InspectRecovery
  <1>12. ASSUME NEW p \in Proc, ResumeRefused(p) PROVE StoreKept
    BY <1>12 DEF ResumeRefused
  <1>13. ASSUME NEW p \in Proc, Push(p) PROVE StoreKept
    BY <1>13 DEF Push
  <1>14. ASSUME NEW p \in Proc, UpdateIndex(p) PROVE StoreKept
    BY <1>14 DEF UpdateIndex
  <1>15. ASSUME NEW p \in Proc, Check(p) PROVE StoreKept
    BY <1>15 DEF Check
  <1>16. ASSUME NEW p \in Proc, Promote(p) PROVE StoreKept
    BY <1>16 DEF Promote
  <1>17. ASSUME NEW p \in Proc, Recheck(p) PROVE StoreKept
    BY <1>17 DEF Recheck
  <1>18. ASSUME NEW p \in Proc, Bind(p) PROVE StoreKept
    BY <1>18 DEF Bind
  <1>19. ASSUME NEW p \in Proc, StageCoverage(p) PROVE StoreKept
    BY <1>19 DEF StageCoverage
  <1>20. ASSUME NEW p \in Proc, RenameCoverage(p) PROVE StoreKept
    BY <1>20 DEF RenameCoverage
  <1>21. ASSUME NEW p \in Proc, MarkHealthy(p) PROVE StoreKept
    BY <1>21 DEF MarkHealthy
  <1>22. ASSUME NEW p \in Proc, Cleanup(p) PROVE StoreKept
    BY <1>22 DEF Cleanup
  <1>23. ASSUME NEW p \in Proc, StepFails(p) PROVE StoreKept
    BY <1>23 DEF StepFails
  <1>24. ASSUME NEW p \in Proc, RecordFailure(p) PROVE StoreKept
    BY <1>24 DEF RecordFailure
  <1>25. ASSUME NEW p \in Proc, ResolvePolicy(p) PROVE StoreKept
    BY <1>25 DEF ResolvePolicy
  <1>26. ASSUME NEW p \in Proc, RenderConsumer(p) PROVE StoreKept
    BY <1>26 DEF RenderConsumer
  <1>27. ASSUME NEW p \in Proc, RenderOnly(p) PROVE StoreKept
    BY <1>27 DEF RenderOnly
  <1>28. ASSUME NEW p \in Proc, Admit(p) PROVE StoreKept
    BY <1>28 DEF Admit
  <1>29. ASSUME NEW p \in Proc, ConsumerFails(p) PROVE StoreKept
    BY <1>29 DEF ConsumerFails
  <1>30. ASSUME NEW p \in Proc, Consume(p) PROVE StoreKept
    BY <1>30 DEF Consume, Autopush
  <1>31. ASSUME NEW p \in Proc, Crash(p) PROVE StoreKept
    BY <1>31 DEF Crash
  <1>32. ASSUME NEW e \in Env, EditLock(e) PROVE StoreKept
    BY <1>32 DEF EditLock
  <1>33. ASSUME NEW p \in Proc, RemoveImage(p) PROVE StoreKept
    BY <1>33 DEF RemoveImage
  <1>34. CASE WipeStore
    BY <1>34 DEF WipeStore
  <1>35. CASE UNCHANGED vars
    BY <1>35 DEF vars
  <1>36. QED
    BY <1>1, <1>2, <1>3, <1>4, <1>5, <1>6, <1>7, <1>8, <1>9, <1>10, <1>11,
       <1>12, <1>13, <1>14, <1>15, <1>16, <1>17, <1>18, <1>19, <1>20, <1>21,
       <1>22, <1>23, <1>24, <1>25, <1>26, <1>27, <1>28, <1>29, <1>30, <1>31,
       <1>32, <1>33, <1>34, <1>35 DEF Next, Step, Finished

(* ReadersSeeOneStore in every instance in which no operator removes the   *)
(* store while the program runs.                                           *)
THEOREM ReadersTheorem ==
  ASSUME "wipe" \notin Faults PROVE BuildcacheSpec => ReadersSeeOneStore
  <1>1. TypeInv /\ Mutex /\ [Next]_vars
          => [sh # {} => /\ store'["local"] = store["local"]
                         /\ UNCHANGED <<index, stable, coverage>>]_vars
    BY ReaderStep DEF StoreKept
  <1>2. QED
    BY <1>1, TypeInvariant, MutexInvariant, PTL DEF BuildcacheSpec, ReadersSeeOneStore

-------------------------------------------------------------------------------
(* Health and coverage.                                                    *)

(* Every step keeps the records that health depends on.                    *)
LEMMA ClaimsNext == TypeInv /\ Claims /\ [Next]_vars => Claims'
  <1> SUFFICES ASSUME TypeInv /\ Claims, [Next]_vars PROVE Claims'
    OBVIOUS
  <1> USE ConstantsAssumption
      DEF TypeInv, TypeOK, Control, Started, Claims, ProcOrNone,
          PC, SharedAt, ExclusiveAt, CompleteAt,
          Terminal, Coverage, Health, Producing, Consuming, Goto, EnvOf,
          hostVars, lockVars, storeVars, tagVars, stateVars, localVars, vars
  <1>1. ASSUME NEW p \in Proc, Start(p) PROVE Claims'
    <2>1. \E s \in {"gate", "waitInspect", "waitShared", "render"} : pc' = [pc EXCEPT ![p] = s]
      BY <1>1 DEF Start, Command
    <2>2. \A q \in Proc : pc'[q] \in CompleteAt \cup {"waitPush"} => pc'[q] = pc[q]
      BY <2>1
    <2>3. UNCHANGED <<health, coverage, target, img>>
      BY <1>1 DEF Start
    <2>4. QED
      BY <2>2, <2>3
  <1>2. ASSUME NEW p \in Proc, GateRefused(p) PROVE Claims'
    BY <1>2 DEF GateRefused
  <1>3. ASSUME NEW p \in Proc, RenderProducer(p) PROVE Claims'
    BY <1>3 DEF RenderProducer
  <1>4. ASSUME NEW p \in Proc, AcquireShared(p) PROVE Claims'
    BY <1>4 DEF AcquireShared
  <1>5. ASSUME NEW p \in Proc, Stage(p) PROVE Claims'
    BY <1>5 DEF Stage
  <1>6. ASSUME NEW p \in Proc, StageLost(p) PROVE Claims'
    BY <1>6 DEF StageLost
  <1>7. ASSUME NEW p \in Proc, RecordLost(p) PROVE Claims'
    BY <1>7 DEF RecordLost, Unhealthy
  <1>8. ASSUME NEW p \in Proc, AcquireExclusive(p) PROVE Claims'
    BY <1>8 DEF AcquireExclusive
  <1>9. ASSUME NEW p \in Proc, InspectBuilt(p) PROVE Claims'
    BY <1>9 DEF InspectBuilt
  <1>10. ASSUME NEW p \in Proc, InspectStable(p) PROVE Claims'
    BY <1>10 DEF InspectStable
  <1>11. ASSUME NEW p \in Proc, InspectRecovery(p) PROVE Claims'
    BY <1>11 DEF InspectRecovery, Resumable
  <1>12. ASSUME NEW p \in Proc, ResumeRefused(p) PROVE Claims'
    BY <1>12 DEF ResumeRefused
  <1>13. ASSUME NEW p \in Proc, Push(p) PROVE Claims'
    BY <1>13 DEF Push
  <1>14. ASSUME NEW p \in Proc, UpdateIndex(p) PROVE Claims'
    BY <1>14 DEF UpdateIndex
  <1>15. ASSUME NEW p \in Proc, Check(p) PROVE Claims'
    BY <1>15 DEF Check
  <1>16. ASSUME NEW p \in Proc, Promote(p) PROVE Claims'
    BY <1>16 DEF Promote
  <1>17. ASSUME NEW p \in Proc, Recheck(p) PROVE Claims'
    BY <1>17 DEF Recheck
  <1>18. ASSUME NEW p \in Proc, Bind(p) PROVE Claims'
    BY <1>18 DEF Bind
  <1>19. ASSUME NEW p \in Proc, StageCoverage(p) PROVE Claims'
    BY <1>19 DEF StageCoverage
  <1>20. ASSUME NEW p \in Proc, RenameCoverage(p) PROVE Claims'
    BY <1>20 DEF RenameCoverage
  <1>21. ASSUME NEW p \in Proc, MarkHealthy(p) PROVE Claims'
    BY <1>21 DEF MarkHealthy, Healthy
  <1>22. ASSUME NEW p \in Proc, Cleanup(p) PROVE Claims'
    BY <1>22 DEF Cleanup
  <1>23. ASSUME NEW p \in Proc, StepFails(p) PROVE Claims'
    BY <1>23 DEF StepFails
  <1>24. ASSUME NEW p \in Proc, RecordFailure(p) PROVE Claims'
    BY <1>24 DEF RecordFailure, Unhealthy, RecoveryImage
  <1>25. ASSUME NEW p \in Proc, ResolvePolicy(p) PROVE Claims'
    BY <1>25 DEF ResolvePolicy
  <1>26. ASSUME NEW p \in Proc, RenderConsumer(p) PROVE Claims'
    BY <1>26 DEF RenderConsumer
  <1>27. ASSUME NEW p \in Proc, RenderOnly(p) PROVE Claims'
    BY <1>27 DEF RenderOnly
  <1>28. ASSUME NEW p \in Proc, Admit(p) PROVE Claims'
    BY <1>28 DEF Admit
  <1>29. ASSUME NEW p \in Proc, ConsumerFails(p) PROVE Claims'
    BY <1>29 DEF ConsumerFails
  <1>30. ASSUME NEW p \in Proc, Consume(p) PROVE Claims'
    BY <1>30 DEF Consume
  <1>31. ASSUME NEW p \in Proc, Crash(p) PROVE Claims'
    BY <1>31 DEF Crash
  <1>32. ASSUME NEW e \in Env, EditLock(e) PROVE Claims'
    BY <1>32 DEF EditLock
  <1>33. ASSUME NEW p \in Proc, RemoveImage(p) PROVE Claims'
    BY <1>33 DEF RemoveImage
  <1>34. CASE WipeStore
    BY <1>34 DEF WipeStore
  <1>35. CASE UNCHANGED vars
    BY <1>35 DEF vars
  <1>36. QED
    BY <1>1, <1>2, <1>3, <1>4, <1>5, <1>6, <1>7, <1>8, <1>9, <1>10, <1>11,
       <1>12, <1>13, <1>14, <1>15, <1>16, <1>17, <1>18, <1>19, <1>20, <1>21,
       <1>22, <1>23, <1>24, <1>25, <1>26, <1>27, <1>28, <1>29, <1>30, <1>31,
       <1>32, <1>33, <1>34, <1>35 DEF Next, Step, Finished

(* A record that health names, or is about to name, exists.                *)
THEOREM ClaimsInvariant == BuildcacheSpec => []Claims
  <1>1. Init => Claims
    BY DEF Init, Claims, NoHealth, CompleteAt
  <1>2. QED
    BY <1>1, TypeInvariant, ClaimsNext, PTL DEF BuildcacheSpec

(* HealthyHasCoverage in every instance, whatever crashes and failures     *)
(* interrupt publish_success_state.                                        *)
THEOREM HealthyHasCoverageTheorem == BuildcacheSpec => []HealthyHasCoverage
  <1>1. Claims => HealthyHasCoverage
    BY ConstantsAssumption DEF Claims, HealthyHasCoverage
  <1>2. QED
    BY <1>1, ClaimsInvariant, PTL

===============================================================================
