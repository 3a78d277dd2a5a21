----------------------------- MODULE Mirror_proofs ----------------------------
(***************************************************************************)
(* Proofs about Mirror, for every set of processes, environments, locks    *)
(* and sources, every choice of plans and of faults.                       *)
(*                                                                         *)
(* TypeOK is not inductive by itself: a mirror stage looks up the sources  *)
(* of the lock that the worker's session holds, which other invocations    *)
(* write.  MirrorInv is: types; Control, what the control flow knows of    *)
(* plans and runs; Begun, how the run directories are numbered; Mutex,     *)
(* which ties the flock to the control points; and Worked, what the stage  *)
(* that holds the lock has achieved so far.                                *)
(***************************************************************************)
EXTENDS Mirror, TLAPS, FiniteSetTheorems

(* Where the lock is held exclusively, and where a run is open. *)
Running == {"prepare", "writeBack", "create", "record"}
Held == Running \cup {"export", "apply"}

(* What the control flow knows of environments, plans and runs. *)
Control ==
    \A p \in Proc :
        /\ pc[p] # "idle" => env[p] \in Env
        /\ pc[p] \in Held \cup {"worker", "next", "waitExclusive"} => plan[p] \in Seq(Stage)
        /\ pc[p] \in Held \cup {"waitExclusive"} => plan[p] # <<>>
        /\ pc[p] \in Running => /\ StageOf(p) \in {"mirror", "verify"}
                               /\ run[p] \in 1 .. begun
                               /\ runs[run[p]].status = "open"
        /\ pc[p] \in {"export", "apply"} => StageOf(p) \in {"prune", "reuse"}

(* Runs are numbered as they begin, and their names ordered in that range. *)
Begun == \A x \in Run : /\ x > begun => runs[x] = NoRun
                        /\ runs[x].at <= begun

(* The flock has either one exclusive holder or shared ones, and a process *)
(* holds it exactly between its acquisition and its release. *)
Mutex ==
    /\ ex # NoProc => sh = {}
    /\ \A p \in Proc : pc[p] \in Held <=> ex = p
    /\ \A p \in Proc : pc[p] = "read" <=> p \in sh

(* What the stage that holds the lock has achieved. *)
Worked ==
    \A p \in Proc :
        /\ pc[p] = "writeBack" /\ HasSession(p) => session.lock \in Lock
        /\ pc[p] \in {"create", "record"} => HostLockOf(p) \in Lock
        /\ pc[p] = "create" /\ HasSession(p) => session.lock = HostLockOf(p)
        /\ pc[p] = "record" => Needs[HostLockOf(p)] \subseteq tree

MirrorInv == TypeOK /\ Control /\ Begun /\ Mutex /\ Worked

-------------------------------------------------------------------------------
(* What the beginning of a run does to the manifests.                      *)

RunRecord == [env : Env \cup {NoEnv}, lock : Lock \cup {NoLock},
              status : {"absent", "open", "success", "failed"},
              log : BOOLEAN, kept : BOOLEAN, at : 0 .. MaxRuns]

(* A run whose place changes is still a record, with its status.           *)
LEMMA RecordAt ==
  ASSUME NEW r \in RunRecord, NEW a \in 0 .. MaxRuns
  PROVE  /\ [r EXCEPT !.at = a] \in RunRecord
         /\ [r EXCEPT !.at = a].at = a
         /\ [r EXCEPT !.at = a].status = r.status
  BY DEF RunRecord

(* A run whose directory is removed is still a record, with its status.    *)
LEMMA RecordKept ==
  ASSUME NEW r \in RunRecord
  PROVE  /\ [r EXCEPT !.kept = FALSE] \in RunRecord
         /\ [r EXCEPT !.kept = FALSE].at = r.at
         /\ [r EXCEPT !.kept = FALSE].status = r.status
  BY DEF RunRecord

(* Every earlier run keeps what it has recorded; its name and directory    *)
(* may move and go.                                                        *)
LEMMA NamedType ==
  ASSUME NEW p \in Proc, TypeOK, Begun, env[p] \in Env, begun < MaxRuns, NEW k \in Places
  PROVE  /\ Named(p, k) \in [Run -> RunRecord]
         /\ \A x \in Run : x > begun + 1 => Named(p, k)[x] = NoRun
         /\ \A x \in Run : Named(p, k)[x].at <= begun + 1
         /\ \A x \in 1 .. begun : Named(p, k)[x].status = runs[x].status
         /\ Named(p, k)[begun + 1].status = "open"
  <1> USE ConstantsAssumption DEF TypeOK, Begun, Run, RunRecord
  <1>1. k \in 1 .. begun + 1 /\ begun \in Nat /\ begun + 1 \in Run
    BY DEF Places
  <1>2. ASSUME NEW x \in Run
        PROVE  /\ Named(p, k)[x] \in RunRecord
               /\ x > begun + 1 => Named(p, k)[x] = NoRun
               /\ Named(p, k)[x].at <= begun + 1
               /\ x \in 1 .. begun => Named(p, k)[x].status = runs[x].status
    <2>1. CASE x = begun + 1
      BY <1>1, <2>1 DEF Named
    <2>2. CASE x # begun + 1 /\ runs[x].at >= k
      <3>1. Named(p, k)[x] = [runs[x] EXCEPT !.at = @ + 1]
        BY <2>2 DEF Named
      <3>2. x <= begun
        BY <1>1, <2>2 DEF NoRun
      <3>3. runs[x] \in RunRecord /\ runs[x].at + 1 \in 0 .. MaxRuns
        <4>1. runs[x] \in RunRecord /\ runs[x].at <= begun /\ runs[x].at \in Nat
          OBVIOUS
        <4>2. QED
          BY <1>1, <4>1
      <3>4. /\ Named(p, k)[x] \in RunRecord
            /\ Named(p, k)[x].at = runs[x].at + 1
            /\ Named(p, k)[x].status = runs[x].status
        BY <3>1, <3>3, RecordAt
      <3>5. runs[x].at \in Nat /\ runs[x].at + 1 <= begun + 1 /\ ~(x > begun + 1)
        <4>1. runs[x].at <= begun /\ runs[x].at \in Nat
          OBVIOUS
        <4>2. QED
          BY <1>1, <3>2, <4>1
      <3>6. QED
        BY <3>4, <3>5
    <2>3. CASE x # begun + 1 /\ ~(runs[x].at >= k)
      <3>1. Named(p, k)[x] = runs[x]
        BY <2>3 DEF Named
      <3>2. QED
        BY <1>1, <2>3, <3>1
    <2>4. QED
      BY <2>1, <2>2, <2>3
  <1>3. Named(p, k)[begun + 1].status = "open"
    BY <1>1 DEF Named
  <1>4. Named(p, k) = [x \in Run |-> Named(p, k)[x]]
    BY DEF Named
  <1>5. QED
    BY <1>1, <1>2, <1>3, <1>4

(* begin_run: the next number gets an open record; no other run loses its  *)
(* status, whichever directories are removed.                              *)
LEMMA BeginRunFacts ==
  ASSUME NEW p \in Proc, TypeOK, Begun, env[p] \in Env, BeginRun(p)
  PROVE  /\ begun' = begun + 1 /\ begun + 1 \in Run
         /\ run' = [run EXCEPT ![p] = begun + 1]
         /\ runs' \in [Run -> RunRecord]
         /\ \A x \in Run : x > begun + 1 => runs'[x] = NoRun
         /\ \A x \in Run : runs'[x].at <= begun + 1
         /\ \A x \in 1 .. begun : runs'[x].status = runs[x].status
         /\ runs'[begun + 1].status = "open"
  <1>1. begun < MaxRuns /\ begun' = begun + 1 /\ run' = [run EXCEPT ![p] = begun + 1]
    BY DEF BeginRun
  <1>2. begun \in Nat /\ begun + 1 \in Run
    BY <1>1, ConstantsAssumption DEF TypeOK, Run
  <1>3. PICK k \in Places :
          runs' = [x \in Run |-> IF x \in Excess(Named(p, k))
                                THEN [Named(p, k)[x] EXCEPT !.kept = FALSE]
                                ELSE Named(p, k)[x]]
    BY DEF BeginRun
  <1> DEFINE named == Named(p, k)
  <1>4. /\ named \in [Run -> RunRecord]
        /\ \A x \in Run : x > begun + 1 => named[x] = NoRun
        /\ \A x \in Run : named[x].at <= begun + 1
        /\ \A x \in 1 .. begun : named[x].status = runs[x].status
        /\ named[begun + 1].status = "open"
    BY <1>1, NamedType
  <1> HIDE DEF named
  <1>5. ASSUME NEW x \in Run
        PROVE  /\ runs'[x] \in RunRecord
               /\ runs'[x].status = named[x].status
               /\ runs'[x].at = named[x].at
               /\ named[x] = NoRun => runs'[x] = NoRun
    <2>1. CASE x \in Excess(named)
      <3>1. runs'[x] = [named[x] EXCEPT !.kept = FALSE]
        BY <1>3, <2>1 DEF named
      <3>2. named[x] # NoRun
        BY <2>1 DEF Excess, NoRun
      <3>3. QED
        BY <1>4, <3>1, <3>2, RecordKept
    <2>2. CASE x \notin Excess(named)
      BY <1>3, <1>4, <2>2 DEF named
    <2>3. QED
      BY <2>1, <2>2
  <1>6. runs' = [x \in Run |-> runs'[x]]
    BY <1>3
  <1>7. \A x \in 1 .. begun : x \in Run
    BY <1>1, <1>2, ConstantsAssumption DEF Run, TypeOK
  <1>8. QED
    BY <1>1, <1>2, <1>4, <1>5, <1>6, <1>7

(* A manifest changes the record of its own run only. *)
LEMMA ManifestFacts ==
  ASSUME TypeOK, NEW p \in Proc, run[p] \in Run, NEW st \in {"success", "failed"},
         NEW l \in Lock \cup {NoLock}, Manifest(p, st, l)
  PROVE  /\ runs' \in [Run -> RunRecord]
         /\ \A x \in Run : x # run[p] => runs'[x] = runs[x]
         /\ runs'[run[p]].at = runs[run[p]].at
         /\ runs'[run[p]].lock = l /\ runs'[run[p]].env = runs[run[p]].env
         /\ runs'[run[p]].status = st
  <1>1. runs \in [Run -> RunRecord] /\ runs[run[p]] \in RunRecord
    BY DEF TypeOK, RunRecord
  <1>2. /\ \A x \in Run : x # run[p] => runs'[x] = runs[x]
        /\ runs'[run[p]] = [runs[run[p]] EXCEPT !.lock = l, !.status = st,
                                               !.log = StageOf(p) = "verify"]
    BY <1>1 DEF Manifest
  <1>3. (StageOf(p) = "verify") \in BOOLEAN
    OBVIOUS
  <1>4. runs'[run[p]] \in RunRecord
    BY <1>1, <1>2, <1>3 DEF RunRecord
  <1>5. runs' = [x \in Run |-> runs'[x]]
    BY <1>1 DEF Manifest
  <1>6. /\ runs'[run[p]].at = runs[run[p]].at
        /\ runs'[run[p]].lock = l /\ runs'[run[p]].env = runs[run[p]].env
        /\ runs'[run[p]].status = st
    BY <1>1, <1>2 DEF RunRecord
  <1>7. QED
    BY <1>1, <1>2, <1>4, <1>5, <1>6

(* The flock stays with whoever is at a control point that holds it.       *)
LEMMA MutexNext == MirrorInv /\ [Next]_vars => Mutex'
  <1> SUFFICES ASSUME MirrorInv, [Next]_vars PROVE Mutex'
    OBVIOUS
  <1> USE ConstantsAssumption DEF MirrorInv, TypeOK, Mutex, Goto, Held, Running,
         Terminal, lockVars, runVars, localVars, vars
  <1>1. ASSUME NEW p \in Proc, Start(p) PROVE Mutex'
    BY <1>1 DEF Start
  <1>2. ASSUME NEW p \in Proc, CreateWorker(p) PROVE Mutex'
    BY <1>2 DEF CreateWorker
  <1>3. ASSUME NEW p \in Proc, EnterStage(p) PROVE Mutex'
    BY <1>3 DEF EnterStage
  <1>4. ASSUME NEW p \in Proc, Finish(p) PROVE Mutex'
    BY <1>4 DEF Finish
  <1>5. ASSUME NEW p \in Proc, AcquireExclusive(p) PROVE Mutex'
    BY <1>5 DEF AcquireExclusive, BeginRun, NobodyHolds
  <1>6. ASSUME NEW p \in Proc, ImportLock(p) PROVE Mutex'
    BY <1>6 DEF ImportLock
  <1>7. ASSUME NEW p \in Proc, Concretize(p) PROVE Mutex'
    BY <1>7 DEF Concretize
  <1>8. ASSUME NEW p \in Proc, WriteBack(p) PROVE Mutex'
    BY <1>8 DEF WriteBack
  <1>9. ASSUME NEW p \in Proc, MirrorCreate(p) PROVE Mutex'
    BY <1>9 DEF MirrorCreate
  <1>10. ASSUME NEW p \in Proc, RecordSuccess(p) PROVE Mutex'
    BY <1>10 DEF RecordSuccess, LeaveStage, Manifest
  <1>11. ASSUME NEW p \in Proc, ExportFetchSpecs(p) PROVE Mutex'
    BY <1>11 DEF ExportFetchSpecs
  <1>12. ASSUME NEW p \in Proc, Prune(p) PROVE Mutex'
    BY <1>12 DEF Prune, LeaveStage
  <1>13. ASSUME NEW p \in Proc, StageFails(p) PROVE Mutex'
    BY <1>13 DEF StageFails, Part, Manifest
  <1>14. ASSUME NEW p \in Proc, Gate(p) PROVE Mutex'
    BY <1>14 DEF Gate
  <1>15. ASSUME NEW p \in Proc, AcquireShared(p) PROVE Mutex'
    BY <1>15 DEF AcquireShared
  <1>16. ASSUME NEW p \in Proc, Read(p) PROVE Mutex'
    BY <1>16 DEF Read
  <1>17. ASSUME NEW p \in Proc, Crash(p) PROVE Mutex'
    BY <1>17 DEF Crash, Part
  <1>18. ASSUME NEW e \in Env, EditLock(e) PROVE Mutex'
    BY <1>18 DEF EditLock
  <1>19. ASSUME UNCHANGED vars PROVE Mutex'
    BY <1>19
  <1>20. QED
    BY <1>1, <1>2, <1>3, <1>4, <1>5, <1>6, <1>7, <1>8, <1>9, <1>10, <1>11,
       <1>12, <1>13, <1>14, <1>15, <1>16, <1>17, <1>18, <1>19 DEF Next, Step,
       Finished

(* Only a mirror or verify stage that takes the lock begins a run; later   *)
(* its manifest changes what the run recorded, never its number.           *)
LEMMA BegunNext == MirrorInv /\ [Next]_vars => Begun'
  <1> SUFFICES ASSUME MirrorInv, [Next]_vars PROVE Begun'
    OBVIOUS
  <1> USE ConstantsAssumption DEF MirrorInv, TypeOK, Control, Begun, Mutex,
         Goto, Held, Running, HostLockOf, StageOf, lockVars, runVars, localVars, vars
  <1>1. ASSUME NEW p \in Proc, Start(p) PROVE Begun'
    BY <1>1 DEF Start
  <1>2. ASSUME NEW p \in Proc, CreateWorker(p) PROVE Begun'
    BY <1>2 DEF CreateWorker
  <1>3. ASSUME NEW p \in Proc, EnterStage(p) PROVE Begun'
    BY <1>3 DEF EnterStage
  <1>4. ASSUME NEW p \in Proc, Finish(p) PROVE Begun'
    BY <1>4 DEF Finish
  <1>5. ASSUME NEW p \in Proc, AcquireExclusive(p) PROVE Begun'
    <2>1. CASE BeginRun(p)
      <3>1. env[p] \in Env
        BY <1>5 DEF AcquireExclusive
      <3>2. \A x \in Run : x > begun + 1 => runs'[x] = NoRun
        BY <2>1, <3>1, BeginRunFacts
      <3>3. \A x \in Run : runs'[x].at <= begun + 1
        BY <2>1, <3>1, BeginRunFacts
      <3>4. begun' = begun + 1
        BY <2>1 DEF BeginRun
      <3>5. QED
        BY <3>2, <3>3, <3>4
    <2>2. CASE UNCHANGED <<runs, begun>>
      BY <2>2
    <2>3. QED
      BY <1>5, <2>1, <2>2 DEF AcquireExclusive
  <1>6. ASSUME NEW p \in Proc, ImportLock(p) PROVE Begun'
    BY <1>6 DEF ImportLock
  <1>7. ASSUME NEW p \in Proc, Concretize(p) PROVE Begun'
    BY <1>7 DEF Concretize
  <1>8. ASSUME NEW p \in Proc, WriteBack(p) PROVE Begun'
    BY <1>8 DEF WriteBack
  <1>9. ASSUME NEW p \in Proc, MirrorCreate(p) PROVE Begun'
    BY <1>9 DEF MirrorCreate
  <1>10. ASSUME NEW p \in Proc, RecordSuccess(p) PROVE Begun'
    <2>1. run[p] \in Run /\ run[p] <= begun
      BY <1>10 DEF RecordSuccess, Run
    <2>2. HostLockOf(p) \in Lock \cup {NoLock}
      BY <1>10 DEF RecordSuccess
    <2>3. Manifest(p, "success", HostLockOf(p)) /\ begun' = begun
      BY <1>10 DEF RecordSuccess
    <2>4. /\ \A x \in Run : x # run[p] => runs'[x] = runs[x]
          /\ runs'[run[p]].at = runs[run[p]].at
      BY <2>1, <2>2, <2>3, ManifestFacts
    <2>5. QED
      BY <2>1, <2>3, <2>4
  <1>11. ASSUME NEW p \in Proc, ExportFetchSpecs(p) PROVE Begun'
    BY <1>11 DEF ExportFetchSpecs
  <1>12. ASSUME NEW p \in Proc, Prune(p) PROVE Begun'
    BY <1>12 DEF Prune, LeaveStage
  <1>13. ASSUME NEW p \in Proc, StageFails(p) PROVE Begun'
    <2>1. begun' = begun
      BY <1>13 DEF StageFails
    <2>2. CASE UNCHANGED runs
      BY <2>1, <2>2
    <2>3. CASE ~UNCHANGED runs
      <3>1. PICK l \in Lock \cup {NoLock} : Manifest(p, "failed", l)
        BY <1>13, <2>3 DEF StageFails
      <3>2. pc[p] \in Running
        <4>1. StageOf(p) \in {"mirror", "verify"} /\ pc[p] \in Held
          BY <1>13, <2>3 DEF StageFails
        <4>2. QED
          BY <4>1
      <3>5. run[p] \in Run /\ run[p] <= begun
        BY <3>2 DEF Run
      <3>3. /\ \A x \in Run : x # run[p] => runs'[x] = runs[x]
            /\ runs'[run[p]].at = runs[run[p]].at
        BY <3>1, <3>5, ManifestFacts
      <3>4. QED
        BY <2>1, <3>5, <3>3
    <2>4. QED
      BY <2>2, <2>3
  <1>14. ASSUME NEW p \in Proc, Gate(p) PROVE Begun'
    BY <1>14 DEF Gate
  <1>15. ASSUME NEW p \in Proc, AcquireShared(p) PROVE Begun'
    BY <1>15 DEF AcquireShared
  <1>16. ASSUME NEW p \in Proc, Read(p) PROVE Begun'
    BY <1>16 DEF Read
  <1>17. ASSUME NEW p \in Proc, Crash(p) PROVE Begun'
    BY <1>17 DEF Crash, Part
  <1>18. ASSUME NEW e \in Env, EditLock(e) PROVE Begun'
    BY <1>18 DEF EditLock
  <1>19. ASSUME UNCHANGED vars PROVE Begun'
    BY <1>19
  <1>20. QED
    BY <1>1, <1>2, <1>3, <1>4, <1>5, <1>6, <1>7, <1>8, <1>9, <1>10, <1>11,
       <1>12, <1>13, <1>14, <1>15, <1>16, <1>17, <1>18, <1>19 DEF Next, Step,
       Finished

(* Each control point is reached only with the environment, plan and open  *)
(* run that it needs.                                                      *)
LEMMA ControlNext == MirrorInv /\ [Next]_vars => Control'
  <1> SUFFICES ASSUME MirrorInv, [Next]_vars PROVE Control'
    OBVIOUS
  <1> USE ConstantsAssumption DEF MirrorInv, TypeOK, Control, Begun, Mutex,
         Worked, Goto, Held, Running, Terminal, HostLockOf, StageOf, lockVars,
         runVars, localVars, vars
  <1>1. ASSUME NEW p \in Proc, Start(p) PROVE Control'
    <2>1. PICK e \in Env, w \in Plans :
            /\ env' = [env EXCEPT ![p] = e]
            /\ plan' = [plan EXCEPT ![p] = w]
            /\ Goto(p, CASE w = <<"build">> -> "gate"
                          [] w = <<"image">> -> "waitShared"
                          [] Head(w) = "mirror" -> "worker"
                          [] OTHER -> "next")
      BY <1>1 DEF Start
    <2>2. w \in Seq(Stage) \/ w \in Building
      OBVIOUS
    <2>3. /\ pc'[p] \in {"gate", "waitShared", "worker", "next"}
          /\ pc'[p] \in {"worker", "next"} => w \in Seq(Stage)
      BY <2>1, <2>2 DEF Building
    <2>4. ASSUME NEW q \in Proc, q # p
          PROVE  pc'[q] = pc[q] /\ env'[q] = env[q] /\ plan'[q] = plan[q]
      BY <2>1, <2>4
    <2>5. env'[p] = e /\ plan'[p] = w
      BY <2>1
    <2>6. UNCHANGED <<run, runs, begun>>
      BY <1>1 DEF Start
    <2>7. Control /\ \A q \in Proc : StageOf(q)' = Head(plan'[q])
      OBVIOUS
    <2>8. Control'
      <3>1. ASSUME NEW q \in Proc, q # p
            PROVE  /\ pc'[q] = pc[q] /\ env'[q] = env[q] /\ plan'[q] = plan[q]
                   /\ run'[q] = run[q]
        BY <2>4, <2>6, <3>1
      <3>2. /\ pc'[p] \notin Held \cup {"waitExclusive"}
            /\ env'[p] \in Env
            /\ pc'[p] \in {"worker", "next"} => plan'[p] \in Seq(Stage)
        BY <2>3, <2>5
      <3>3. QED
        BY <2>3, <2>6, <2>7, <3>1, <3>2
    <2>9. QED
      BY <2>8
  <1>2. ASSUME NEW p \in Proc, CreateWorker(p) PROVE Control'
    BY <1>2 DEF CreateWorker
  <1>3. ASSUME NEW p \in Proc, EnterStage(p) PROVE Control'
    BY <1>3 DEF EnterStage
  <1>4. ASSUME NEW p \in Proc, Finish(p) PROVE Control'
    BY <1>4 DEF Finish
  <1>5. ASSUME NEW p \in Proc, AcquireExclusive(p) PROVE Control'
    <2>1. /\ env[p] \in Env /\ plan[p] \in Seq(Stage) /\ plan[p] # <<>>
          /\ UNCHANGED <<env, plan>>
          /\ \A q \in Proc : q # p => pc'[q] = pc[q] /\ pc[q] \notin Held
      BY <1>5 DEF AcquireExclusive, NobodyHolds
    <2>2. CASE BeginRun(p)
      <3>1. begun' = begun + 1 /\ run'[p] = begun + 1
        BY <2>2 DEF BeginRun
      <3>2. begun + 1 \in 1 .. begun'
        BY <3>1
      <3>5. runs'[begun + 1].status = "open"
        BY <2>1, <2>2, BeginRunFacts
      <3>3. pc'[p] = "prepare" /\ StageOf(p) \in {"mirror", "verify"}
        BY <1>5, <2>2, <3>1 DEF AcquireExclusive
      <3>4. QED
        BY <2>1, <3>1, <3>2, <3>3, <3>5
    <2>3. CASE StageOf(p) \notin {"mirror", "verify"}
      <3>1. pc'[p] \in {"export", "apply"}
        BY <1>5, <2>3 DEF AcquireExclusive
      <3>2. Head(plan[p]) \in Stage
        BY <2>1
      <3>3. QED
        BY <2>1, <2>3, <3>1, <3>2 DEF Stage
    <2>4. QED
      BY <1>5, <2>2, <2>3 DEF AcquireExclusive
  <1>6. ASSUME NEW p \in Proc, ImportLock(p) PROVE Control'
    BY <1>6 DEF ImportLock
  <1>7. ASSUME NEW p \in Proc, Concretize(p) PROVE Control'
    BY <1>7 DEF Concretize
  <1>8. ASSUME NEW p \in Proc, WriteBack(p) PROVE Control'
    BY <1>8 DEF WriteBack
  <1>9. ASSUME NEW p \in Proc, MirrorCreate(p) PROVE Control'
    BY <1>9 DEF MirrorCreate
  <1>10. ASSUME NEW p \in Proc, RecordSuccess(p) PROVE Control'
    BY <1>10 DEF RecordSuccess, LeaveStage, Manifest
  <1>11. ASSUME NEW p \in Proc, ExportFetchSpecs(p) PROVE Control'
    BY <1>11 DEF ExportFetchSpecs
  <1>12. ASSUME NEW p \in Proc, Prune(p) PROVE Control'
    BY <1>12 DEF Prune, LeaveStage
  <1>13. ASSUME NEW p \in Proc, StageFails(p) PROVE Control'
    BY <1>13 DEF StageFails, Part, Manifest
  <1>14. ASSUME NEW p \in Proc, Gate(p) PROVE Control'
    BY <1>14 DEF Gate
  <1>15. ASSUME NEW p \in Proc, AcquireShared(p) PROVE Control'
    BY <1>15 DEF AcquireShared
  <1>16. ASSUME NEW p \in Proc, Read(p) PROVE Control'
    BY <1>16 DEF Read
  <1>17. ASSUME NEW p \in Proc, Crash(p) PROVE Control'
    BY <1>17 DEF Crash, Part
  <1>18. ASSUME NEW e \in Env, EditLock(e) PROVE Control'
    BY <1>18 DEF EditLock
  <1>19. ASSUME UNCHANGED vars PROVE Control'
    BY <1>19
  <1>20. QED
    BY <1>1, <1>2, <1>3, <1>4, <1>5, <1>6, <1>7, <1>8, <1>9, <1>10, <1>11,
       <1>12, <1>13, <1>14, <1>15, <1>16, <1>17, <1>18, <1>19 DEF Next, Step,
       Finished

(* What a stage has achieved survives the steps of the others: they do not *)
(* hold the lock, and a new worker has no session for a stage to use.      *)
LEMMA WorkedNext == MirrorInv /\ [Next]_vars => Worked'
  <1> SUFFICES ASSUME MirrorInv, [Next]_vars PROVE Worked'
    OBVIOUS
  <1> USE ConstantsAssumption DEF MirrorInv, TypeOK, Control, Mutex, Worked,
         Goto, Held, Running, Terminal, HasSession, HostLockOf, StageOf,
         lockVars, runVars, localVars, vars
  <1>1. ASSUME NEW p \in Proc, Start(p) PROVE Worked'
    BY <1>1 DEF Start
  <1>2. ASSUME NEW p \in Proc, CreateWorker(p) PROVE Worked'
    <2>1. \A q \in Proc : pc[q] # "idle" /\ HasSession(q)' => session' = session
      BY <1>2 DEF CreateWorker, NoSession
    <2>2. QED
      BY <1>2, <2>1 DEF CreateWorker
  <1>3. ASSUME NEW p \in Proc, EnterStage(p) PROVE Worked'
    BY <1>3 DEF EnterStage
  <1>4. ASSUME NEW p \in Proc, Finish(p) PROVE Worked'
    BY <1>4 DEF Finish
  <1>5. ASSUME NEW p \in Proc, AcquireExclusive(p) PROVE Worked'
    BY <1>5 DEF AcquireExclusive, BeginRun, NobodyHolds
  <1>6. ASSUME NEW p \in Proc, ImportLock(p) PROVE Worked'
    BY <1>6 DEF ImportLock
  <1>7. ASSUME NEW p \in Proc, Concretize(p) PROVE Worked'
    BY <1>7 DEF Concretize
  <1>8. ASSUME NEW p \in Proc, WriteBack(p) PROVE Worked'
    BY <1>8 DEF WriteBack
  <1>9. ASSUME NEW p \in Proc, MirrorCreate(p) PROVE Worked'
    BY <1>9 DEF MirrorCreate
  <1>10. ASSUME NEW p \in Proc, RecordSuccess(p) PROVE Worked'
    BY <1>10 DEF RecordSuccess, LeaveStage, Manifest
  <1>11. ASSUME NEW p \in Proc, ExportFetchSpecs(p) PROVE Worked'
    BY <1>11 DEF ExportFetchSpecs
  <1>12. ASSUME NEW p \in Proc, Prune(p) PROVE Worked'
    BY <1>12 DEF Prune, LeaveStage
  <1>13. ASSUME NEW p \in Proc, StageFails(p) PROVE Worked'
    BY <1>13 DEF StageFails, Part, Manifest
  <1>14. ASSUME NEW p \in Proc, Gate(p) PROVE Worked'
    BY <1>14 DEF Gate
  <1>15. ASSUME NEW p \in Proc, AcquireShared(p) PROVE Worked'
    BY <1>15 DEF AcquireShared
  <1>16. ASSUME NEW p \in Proc, Read(p) PROVE Worked'
    BY <1>16 DEF Read
  <1>17. ASSUME NEW p \in Proc, Crash(p) PROVE Worked'
    BY <1>17 DEF Crash, Part
  <1>18. ASSUME NEW e \in Env, EditLock(e) PROVE Worked'
    <2>1. ASSUME NEW q \in Proc, pc[q] \in Held PROVE HostLockOf(q)' = HostLockOf(q)
      <3>1. env[q] # e /\ env'[q] = env[q]
        BY <1>18, <2>1 DEF EditLock
      <3>2. PICK l : hostLock' = [hostLock EXCEPT ![e] = l]
        BY <1>18 DEF EditLock
      <3>3. QED
        BY <2>1, <3>1, <3>2
    <2>2. UNCHANGED <<pc, env, session, tree>>
      BY <1>18 DEF EditLock
    <2>3. \A q \in Proc : HasSession(q)' = HasSession(q)
      BY <2>2
    <2>4. ASSUME NEW q \in Proc
          PROVE  /\ pc'[q] = "writeBack" /\ HasSession(q)' => session'.lock \in Lock
                 /\ pc'[q] \in {"create", "record"} => HostLockOf(q)' \in Lock
                 /\ pc'[q] = "create" /\ HasSession(q)' => session'.lock = HostLockOf(q)'
                 /\ pc'[q] = "record" => Needs[HostLockOf(q)'] \subseteq tree'
      <3>1. CASE pc[q] \in Held
        <4>1. HostLockOf(q)' = HostLockOf(q)
          BY <2>1, <3>1
        <4>2. Worked
          OBVIOUS
        <4>3. QED
          BY <2>2, <2>3, <4>1, <4>2
      <3>2. CASE pc[q] \notin Held
        BY <2>2, <3>2
      <3>3. QED
        BY <3>1, <3>2
    <2>5. QED
      BY <2>4
  <1>19. ASSUME UNCHANGED vars PROVE Worked'
    BY <1>19
  <1>20. QED
    BY <1>1, <1>2, <1>3, <1>4, <1>5, <1>6, <1>7, <1>8, <1>9, <1>10, <1>11,
       <1>12, <1>13, <1>14, <1>15, <1>16, <1>17, <1>18, <1>19 DEF Next, Step,
       Finished

(* Types: a stage that looks up the sources of the session's lock does so  *)
(* after it has put a lock there, by Worked and Control.                   *)
LEMMA TypeOKNext == MirrorInv /\ [Next]_vars => TypeOK'
  <1> SUFFICES ASSUME MirrorInv, [Next]_vars PROVE TypeOK'
    OBVIOUS
  <1> USE ConstantsAssumption DEF MirrorInv, TypeOK, Control, Begun, Mutex,
         Worked, Goto, Held, Running, Terminal, HasSession, HostLockOf, StageOf,
         lockVars, runVars, localVars, vars, PC
  <1>1. ASSUME NEW p \in Proc, Start(p) PROVE TypeOK'
    BY <1>1 DEF Start
  <1>2. ASSUME NEW p \in Proc, CreateWorker(p) PROVE TypeOK'
    <2>1. session' \in [name : {EnvName[e] : e \in Env} \cup {NoName}, lock : Lock \cup {NoLock}]
      BY <1>2 DEF CreateWorker, NoSession
    <2>2. QED
      BY <1>2, <2>1 DEF CreateWorker
  <1>3. ASSUME NEW p \in Proc, EnterStage(p) PROVE TypeOK'
    BY <1>3 DEF EnterStage
  <1>4. ASSUME NEW p \in Proc, Finish(p) PROVE TypeOK'
    BY <1>4 DEF Finish
  <1>5. ASSUME NEW p \in Proc, AcquireExclusive(p) PROVE TypeOK'
    <2>1. ex' \in Proc \cup {NoProc} /\ pc' \in [Proc -> PC]
      <3>1. \E s \in {"prepare", "export", "apply"} : Goto(p, s)
        BY <1>5 DEF AcquireExclusive
      <3>2. ex' = p
        BY <1>5 DEF AcquireExclusive
      <3>3. QED
        BY <3>1, <3>2
    <2>2. /\ runs' \in [Run -> RunRecord]
          /\ begun' \in 0 .. MaxRuns /\ run' \in [Proc -> 0 .. MaxRuns]
      <3>1. CASE BeginRun(p)
        <4>1. env[p] \in Env
          BY <1>5 DEF AcquireExclusive
        <4>2. /\ begun' = begun + 1 /\ begun + 1 \in 1 .. MaxRuns
              /\ run' = [run EXCEPT ![p] = begun + 1]
              /\ runs' \in [Run -> RunRecord]
          BY <3>1, <4>1, BeginRunFacts DEF Run
        <4>3. QED
          BY <4>2
      <3>2. CASE UNCHANGED <<runs, begun, run>>
        BY <3>2 DEF RunRecord
      <3>3. QED
        BY <1>5, <3>1, <3>2 DEF AcquireExclusive
    <2>3. UNCHANGED <<hostLock, sh, session, tree, sidecar, plan, env, hasLock>>
      BY <1>5 DEF AcquireExclusive
    <2>4. QED
      BY <2>1, <2>2, <2>3 DEF RunRecord
  <1>6. ASSUME NEW p \in Proc, ImportLock(p) PROVE TypeOK'
    BY <1>6 DEF ImportLock
  <1>7. ASSUME NEW p \in Proc, Concretize(p) PROVE TypeOK'
    BY <1>7 DEF Concretize
  <1>8. ASSUME NEW p \in Proc, WriteBack(p) PROVE TypeOK'
    BY <1>8 DEF WriteBack
  <1>9. ASSUME NEW p \in Proc, MirrorCreate(p) PROVE TypeOK'
    BY <1>9 DEF MirrorCreate
  <1>10. ASSUME NEW p \in Proc, RecordSuccess(p) PROVE TypeOK'
    <2>1. ex' \in Proc \cup {NoProc} /\ pc' \in [Proc -> PC]
      BY <1>10 DEF RecordSuccess, LeaveStage
    <2>2. runs' \in [Run -> RunRecord]
      <3>1. run[p] \in Run /\ HostLockOf(p) \in Lock \cup {NoLock}
        BY <1>10 DEF RecordSuccess, Run
      <3>2. Manifest(p, "success", HostLockOf(p))
        BY <1>10 DEF RecordSuccess
      <3>3. QED
        BY <3>1, <3>2, ManifestFacts
    <2>3. plan' \in [Proc -> Seq(Stage) \cup Building]
      <3>1. Tail(plan[p]) \in Seq(Stage)
        BY <1>10 DEF RecordSuccess
      <3>2. plan' = [plan EXCEPT ![p] = Tail(plan[p])]
        BY <1>10 DEF RecordSuccess, LeaveStage
      <3>3. QED
        BY <3>1, <3>2
    <2>4. UNCHANGED <<hostLock, sh, session, tree, sidecar, begun, env, hasLock, run>>
      BY <1>10 DEF RecordSuccess
    <2>5. QED
      BY <2>1, <2>2, <2>3, <2>4 DEF RunRecord
  <1>11. ASSUME NEW p \in Proc, ExportFetchSpecs(p) PROVE TypeOK'
    BY <1>11 DEF ExportFetchSpecs
  <1>12. ASSUME NEW p \in Proc, Prune(p) PROVE TypeOK'
    BY <1>12 DEF Prune, LeaveStage
  <1>13. ASSUME NEW p \in Proc, StageFails(p) PROVE TypeOK'
    <2>1. ex' \in Proc \cup {NoProc} /\ pc' \in [Proc -> PC]
      BY <1>13 DEF StageFails
    <2>2. runs' \in [Run -> RunRecord]
      <3>1. CASE UNCHANGED runs
        BY <3>1 DEF RunRecord
      <3>2. CASE ~UNCHANGED runs
        <4>1. PICK l \in Lock \cup {NoLock} : Manifest(p, "failed", l)
          BY <1>13, <3>2 DEF StageFails
        <4>2. StageOf(p) \in {"mirror", "verify"} /\ pc[p] \in Held
          BY <1>13, <3>2 DEF StageFails
        <4>3. pc[p] \in Running
          BY <4>2
        <4>4. run[p] \in Run
          BY <4>3 DEF Run
        <4>5. QED
          BY <4>1, <4>4, ManifestFacts
      <3>3. QED
        BY <3>1, <3>2
    <2>3. tree' \in SUBSET Source
      <3>1. ASSUME pc[p] = "create", HasSession(p) PROVE Needs[session.lock] \subseteq Source
        BY <3>1
      <3>2. QED
        BY <1>13, <3>1 DEF StageFails, Part
    <2>4. session' \in [name : {EnvName[e] : e \in Env} \cup {NoName}, lock : Lock \cup {NoLock}]
      <3>1. pc[p] = "prepare" => env[p] \in Env
        OBVIOUS
      <3>2. QED
        BY <1>13, <3>1 DEF StageFails, Part, NoSession
    <2>5. UNCHANGED <<hostLock, sh, sidecar, begun, plan, env, hasLock, run>>
      BY <1>13 DEF StageFails
    <2>6. QED
      BY <2>1, <2>2, <2>3, <2>4, <2>5 DEF RunRecord
  <1>14. ASSUME NEW p \in Proc, Gate(p) PROVE TypeOK'
    BY <1>14 DEF Gate
  <1>15. ASSUME NEW p \in Proc, AcquireShared(p) PROVE TypeOK'
    BY <1>15 DEF AcquireShared
  <1>16. ASSUME NEW p \in Proc, Read(p) PROVE TypeOK'
    BY <1>16 DEF Read
  <1>17. ASSUME NEW p \in Proc, Crash(p) PROVE TypeOK'
    <2>1. ex' \in Proc \cup {NoProc} /\ pc' \in [Proc -> PC]
      BY <1>17 DEF Crash
    <2>2. sh' \subseteq Proc
      BY <1>17 DEF Crash
    <2>3. tree' \in SUBSET Source
      <3>1. ASSUME pc[p] = "create", HasSession(p) PROVE Needs[session.lock] \subseteq Source
        BY <3>1
      <3>2. QED
        BY <1>17, <3>1 DEF Crash, Part
    <2>4. session' \in [name : {EnvName[e] : e \in Env} \cup {NoName}, lock : Lock \cup {NoLock}]
      <3>1. pc[p] = "prepare" => env[p] \in Env
        OBVIOUS
      <3>2. QED
        BY <1>17, <3>1 DEF Crash, Part, NoSession
    <2>5. UNCHANGED <<hostLock, sidecar, runs, begun, plan, env, hasLock, run>>
      BY <1>17 DEF Crash
    <2>6. QED
      BY <2>1, <2>2, <2>3, <2>4, <2>5
  <1>18. ASSUME NEW e \in Env, EditLock(e) PROVE TypeOK'
    BY <1>18 DEF EditLock
  <1>19. ASSUME UNCHANGED vars PROVE TypeOK'
    BY <1>19
  <1>20. QED
    BY <1>1, <1>2, <1>3, <1>4, <1>5, <1>6, <1>7, <1>8, <1>9, <1>10, <1>11,
       <1>12, <1>13, <1>14, <1>15, <1>16, <1>17, <1>18, <1>19 DEF Next, Step,
       Finished

-------------------------------------------------------------------------------
(* The invariant and what follows from it.                                 *)

(* Nothing is held, begun or recorded at the start.                        *)
LEMMA MirrorInit == Init => MirrorInv
  <1> SUFFICES ASSUME Init PROVE MirrorInv
    OBVIOUS
  <1> USE ConstantsAssumption DEF Init, Held, Running, PC, Terminal
  <1>1. TypeOK
    <2>1. begun \in 0 .. MaxRuns /\ runs \in [Run -> RunRecord]
      BY DEF NoRun, RunRecord
    <2>2. /\ hostLock \in [Env -> Lock \cup {NoLock}]
          /\ ex \in Proc \cup {NoProc} /\ sh \subseteq Proc /\ tree \subseteq Source
          /\ sidecar \in Lock \cup {NoLock}
          /\ pc \in [Proc -> PC] /\ env \in [Proc -> Env \cup {NoEnv}]
          /\ hasLock \in [Proc -> BOOLEAN] /\ run \in [Proc -> 0 .. MaxRuns]
      OBVIOUS
    <2>3. plan \in [Proc -> Seq(Stage) \cup Building]
      OBVIOUS
    <2>4. session \in [name : {EnvName[e] : e \in Env} \cup {NoName}, lock : Lock \cup {NoLock}]
      BY DEF NoSession
    <2>5. QED
      BY <2>1, <2>2, <2>3, <2>4 DEF TypeOK, RunRecord
  <1>2. Control /\ Mutex /\ Worked
    BY DEF Control, Mutex, Worked
  <1>3. Begun
    BY DEF Begun, NoRun
  <1>4. QED
    BY <1>1, <1>2, <1>3 DEF MirrorInv

(* Every reachable state satisfies the invariant. *)
THEOREM MirrorInvariant == MirrorSpec => []MirrorInv
  <1>1. MirrorInv /\ [Next]_vars => MirrorInv'
    BY MutexNext, BegunNext, ControlNext, WorkedNext, TypeOKNext DEF MirrorInv
  <1>2. QED
    BY MirrorInit, <1>1, PTL DEF MirrorSpec

(* Every variable keeps its type. *)
THEOREM TypeCorrect == MirrorSpec => []TypeOK
  <1>1. MirrorInv => TypeOK
    BY DEF MirrorInv
  <1>2. QED
    BY MirrorInvariant, <1>1, PTL

(* While an image build reads the mirror, no stage fills or prunes it: the *)
(* tree changes only at a control point that holds the lock exclusively.   *)
THEOREM ReadersTheorem == MirrorSpec => ReadersSeeOneMirror
  <1>1. ASSUME MirrorInv, [Next]_vars, sh # {} PROVE tree' = tree
    <2> USE DEF lockVars, runVars, localVars, vars
    <2>1. \A p \in Proc : pc[p] \notin Held
      BY <1>1, ConstantsAssumption DEF MirrorInv, Mutex
    <2>2. ASSUME NEW p \in Proc PROVE ~MirrorCreate(p) /\ ~Prune(p) /\ ~StageFails(p)
      BY <2>1 DEF MirrorCreate, Prune, StageFails, Held, Running
    <2>3. ASSUME NEW p \in Proc, Crash(p) PROVE tree' = tree
      BY <2>1, <2>3 DEF Crash, Part, Held, Running
    <2>4. ASSUME NEW p \in Proc, Step(p) PROVE tree' = tree
      BY <2>2, <2>4 DEF Step, CreateWorker, EnterStage, Finish, AcquireExclusive, ImportLock,
         Concretize, WriteBack, RecordSuccess, ExportFetchSpecs, Gate, AcquireShared, Read
    <2>5. QED
      BY <1>1, <2>3, <2>4 DEF Next, Start, EditLock, Finished
  <1>2. MirrorInv /\ [Next]_vars => [sh # {} => tree' = tree]_vars
    BY <1>1
  <1>3. QED
    BY MirrorInvariant, <1>2, PTL DEF MirrorSpec, ReadersSeeOneMirror

-------------------------------------------------------------------------------
(* What the manifests vouch for.                                           *)

(* What a new run does to the records of the others, in two steps: it gets *)
(* its place among the names, then directories are removed.                *)
Effect(k, named) ==
    /\ \A x \in Run \ {begun + 1} :
         /\ named[x].status = runs[x].status /\ named[x].env = runs[x].env
         /\ named[x].lock = runs[x].lock /\ named[x].log = runs[x].log
         /\ named[x].kept = runs[x].kept
         /\ named[x].at = IF runs[x].at >= k THEN runs[x].at + 1 ELSE runs[x].at
    /\ named[begun + 1].status = "open" /\ named[begun + 1].kept
    /\ named[begun + 1].at = k
    /\ \A x \in Run :
         /\ runs'[x].status = named[x].status /\ runs'[x].env = named[x].env
         /\ runs'[x].lock = named[x].lock /\ runs'[x].log = named[x].log
         /\ runs'[x].at = named[x].at
         /\ runs'[x].kept <=> named[x].kept /\ x \notin Excess(named)

(* begin_run, field by field.                                              *)
LEMMA BeginRunEffect ==
  ASSUME TypeOK, Begun, NEW p \in Proc, env[p] \in Env, BeginRun(p)
  PROVE  \E k \in Places, named \in [Run -> RunRecord] :
           Effect(k, named)
  <1> USE ConstantsAssumption
  <1>1. begun + 1 \in Run /\ runs \in [Run -> RunRecord]
    <2>1. begun + 1 \in Run
      BY BeginRunFacts
    <2>2. runs \in [Run -> RunRecord]
      BY DEF TypeOK, RunRecord
    <2>3. QED
      BY <2>1, <2>2
  <1>2. PICK k \in Places :
          runs' = [x \in Run |-> IF x \in Excess(Named(p, k))
                                THEN [Named(p, k)[x] EXCEPT !.kept = FALSE]
                                ELSE Named(p, k)[x]]
    BY DEF BeginRun
  <1> DEFINE named == Named(p, k)
  <1>3. /\ named \in [Run -> RunRecord]
        /\ named[begun + 1].status = "open"
    BY NamedType DEF BeginRun
  <1>4. named[begun + 1].kept /\ named[begun + 1].at = k
    BY <1>1 DEF Named
  <1>5. ASSUME NEW x \in Run, x # begun + 1
        PROVE  /\ named[x].status = runs[x].status /\ named[x].env = runs[x].env
               /\ named[x].lock = runs[x].lock /\ named[x].log = runs[x].log
               /\ named[x].kept = runs[x].kept
               /\ named[x].at = IF runs[x].at >= k THEN runs[x].at + 1 ELSE runs[x].at
    <2>1. runs[x] \in RunRecord
      BY <1>1
    <2>2. named[x] = IF runs[x].at >= k THEN [runs[x] EXCEPT !.at = @ + 1] ELSE runs[x]
      BY <1>5 DEF Named
    <2>3. QED
      BY <2>1, <2>2 DEF RunRecord
  <1> HIDE DEF named
  <1>6. ASSUME NEW x \in Run
        PROVE  /\ runs'[x].status = named[x].status /\ runs'[x].env = named[x].env
               /\ runs'[x].lock = named[x].lock /\ runs'[x].log = named[x].log
               /\ runs'[x].at = named[x].at
               /\ runs'[x].kept <=> named[x].kept /\ x \notin Excess(named)
    <2>1. named[x] \in RunRecord
      BY <1>3
    <2>2. CASE x \in Excess(named)
      <3>1. runs'[x] = [named[x] EXCEPT !.kept = FALSE]
        BY <1>2, <2>2 DEF named
      <3>2. QED
        BY <2>1, <2>2, <3>1 DEF RunRecord
    <2>3. CASE x \notin Excess(named)
      BY <1>2, <2>3 DEF named
    <2>4. QED
      BY <2>2, <2>3
  <1>7. QED
    BY <1>3, <1>4, <1>5, <1>6 DEF Effect

(* Directories go from the front of the order: what comes before a removed *)
(* one, or shares its place, is removed too.                               *)
LEMMA ExcessIsFront ==
  ASSUME NEW named \in [Run -> RunRecord], NEW x \in Run, NEW y \in Run,
         named[y].kept, named[x].at >= named[y].at, x \in Excess(named)
  PROVE  y \in Excess(named)
  <1> DEFINE Above(z) == {w \in Run : named[w].kept /\ named[w].at > named[z].at}
  <1>1. Above(x) \subseteq Above(y)
    <2>1. \A w \in Run : named[w].at \in Int
      BY DEF RunRecord
    <2>2. QED
      BY <2>1
  <1>2. IsFiniteSet(Run)
    <2>1. 1 \in Int /\ MaxRuns \in Int
      BY ConstantsAssumption
    <2>2. QED
      BY <2>1, FS_Interval DEF Run
  <1>3. IsFiniteSet(Above(x)) /\ IsFiniteSet(Above(y))
    BY <1>2, FS_Subset
  <1>4. Cardinality(Above(x)) <= Cardinality(Above(y))
    BY <1>1, <1>3, FS_Subset
  <1>5. Cardinality(Above(x)) >= Keep
    BY DEF Excess
  <1>6. /\ Cardinality(Above(x)) \in Nat /\ Cardinality(Above(y)) \in Nat
        /\ Keep \in Nat
    BY <1>3, FS_CardinalityType, ConstantsAssumption
  <1>7. Cardinality(Above(y)) >= Keep
    BY <1>4, <1>5, <1>6
  <1>8. QED
    BY <1>7 DEF Excess

(* A new run cannot make the manifests vouch for a lock: it is not ended,  *)
(* it leaves the order of the others as it was, and the directories that   *)
(* are removed come before those that stay.                                *)
LEMMA BeginRunVouches ==
  ASSUME TypeOK, Begun, NEW p \in Proc, env[p] \in Env, BeginRun(p),
         NEW e \in Env, NEW l \in Lock, Vouched(e, l)'
  PROVE  Vouched(e, l)
  <1> USE ConstantsAssumption
  <1>1. /\ begun \in Nat /\ begun + 1 \in Run
        /\ runs \in [Run -> RunRecord]
        /\ \A x \in Run : x > begun => runs[x] = NoRun
    <2>1. begun + 1 \in Run
      BY BeginRunFacts
    <2>2. begun \in Nat /\ runs \in [Run -> RunRecord]
      BY DEF TypeOK, RunRecord
    <2>3. \A x \in Run : x > begun => runs[x] = NoRun
      BY DEF Begun
    <2>4. QED
      BY <2>1, <2>2, <2>3
  <1>2. PICK k \in Places, named \in [Run -> RunRecord] :
          Effect(k, named)
    BY BeginRunEffect
  <1>3. k \in Nat
    BY <1>1 DEF Places
  <1>4. PICK r \in Matching(e, l)' :
          /\ \A s \in Matching(e, l)' : runs'[s].at <= runs'[r].at
          /\ runs'[r].status = "success" /\ runs'[r].log
    BY DEF Vouched, Verified
  <1>5. r \in Run /\ r # begun + 1 /\ r \in Matching(e, l) /\ Verified(r)
    <2>1. r \in Run /\ runs'[r].kept /\ runs'[r].env = e /\ runs'[r].lock = l
      BY <1>4 DEF Matching
    <2>2. r # begun + 1
      BY <1>2, <1>4, <2>1 DEF Effect
    <2>3. QED
      BY <1>2, <1>4, <2>1, <2>2 DEF Matching, Verified, Effect
  <1>6. named[r].kept /\ r \notin Excess(named)
    BY <1>2, <1>4, <1>5 DEF Matching, Effect
  <1>7. ASSUME NEW s \in Matching(e, l), ~(runs[s].at <= runs[r].at) PROVE FALSE
    <2>1. s \in Run /\ runs[s].kept /\ runs[s].status \in {"success", "failed"}
          /\ runs[s].env = e /\ runs[s].lock = l
      BY DEF Matching
    <2>2. s # begun + 1
      <3>1. begun + 1 > begun
        BY <1>1
      <3>2. runs[begun + 1].status = "absent"
        BY <1>1, <3>1 DEF NoRun
      <3>3. QED
        BY <2>1, <3>2
    <2>3. named[s].kept /\ named[s].at > named[r].at
      <3>1. runs[s].at \in Nat /\ runs[r].at \in Nat
        BY <1>1, <1>5, <2>1 DEF RunRecord
      <3>2. named[s].at = IF runs[s].at >= k THEN runs[s].at + 1 ELSE runs[s].at
        BY <1>2, <2>1, <2>2 DEF Effect
      <3>3. named[r].at = IF runs[r].at >= k THEN runs[r].at + 1 ELSE runs[r].at
        BY <1>2, <1>5 DEF Effect
      <3>4. named[s].kept
        BY <1>2, <2>1, <2>2 DEF Effect
      <3>5. QED
        BY <1>3, <1>7, <3>1, <3>2, <3>3, <3>4
    <2>4. named[s].at \in Int /\ named[r].at \in Int
      BY <1>5, <2>1 DEF RunRecord
    <2>5. CASE s \in Excess(named)
      BY <1>5, <1>6, <2>1, <2>3, <2>4, <2>5, ExcessIsFront
    <2>6. CASE s \notin Excess(named)
      <3>1. s \in Matching(e, l)'
        BY <1>2, <2>1, <2>2, <2>3, <2>6 DEF Matching, Effect
      <3>2. named[s].at <= named[r].at
        BY <1>2, <1>4, <1>5, <2>1, <3>1 DEF Effect
      <3>3. QED
        BY <2>3, <2>4, <3>2
    <2>7. QED
      BY <2>5, <2>6
  <1>8. QED
    BY <1>5, <1>7 DEF Vouched

(* A manifest makes them vouch for no other lock than its own, and only if *)
(* it records a success.                                                   *)
LEMMA ManifestVouches ==
  ASSUME TypeOK, NEW p \in Proc, run[p] \in Run, runs[run[p]].status = "open",
         NEW st \in {"success", "failed"}, NEW k \in Lock \cup {NoLock}, Manifest(p, st, k),
         NEW e \in Env, NEW l \in Lock, Vouched(e, l)', ~Vouched(e, l)
  PROVE  st = "success" /\ k = l
  <1>1. /\ \A x \in Run : x # run[p] => runs'[x] = runs[x]
        /\ runs'[run[p]].lock = k /\ runs'[run[p]].status = st
    BY ManifestFacts
  <1>2. PICK r \in Matching(e, l)' :
          /\ \A s \in Matching(e, l)' : runs'[s].at <= runs'[r].at
          /\ runs'[r].status = "success" /\ runs'[r].log
    BY DEF Vouched, Verified
  <1>3. r \in Run /\ runs'[r].lock = l
    BY <1>2 DEF Matching
  <1>4. CASE r = run[p]
    BY <1>1, <1>2, <1>3, <1>4
  <1>5. CASE r # run[p]
    <2>1. runs'[r] = runs[r]
      BY <1>1, <1>3, <1>5
    <2>2. r \in Matching(e, l) /\ Verified(r)
      BY <1>2, <1>3, <2>1 DEF Matching, Verified
    <2>3. ASSUME NEW s \in Matching(e, l) PROVE runs[s].at <= runs[r].at
      <3>1. s \in Run /\ s # run[p]
        BY DEF Matching
      <3>2. runs'[s] = runs[s]
        BY <1>1, <3>1
      <3>3. s \in Matching(e, l)'
        BY <3>1, <3>2 DEF Matching
      <3>4. QED
        BY <1>2, <2>1, <3>2, <3>3
    <2>4. Vouched(e, l)
      BY <2>2, <2>3 DEF Vouched
    <2>5. QED
      BY <2>4
  <1>6. QED
    BY <1>4, <1>5

(* Steps that leave the manifests alone. *)
LEMMA SameManifests ==
  ASSUME UNCHANGED runs, NEW e \in Env, NEW l \in Lock
  PROVE  Vouched(e, l)' <=> Vouched(e, l)
  BY DEF Vouched, Verified, Matching

(* The manifests begin to vouch for a lock only when all its sources are   *)
(* in the mirror: only a success recorded by the holder of the lock can    *)
(* begin it, and that stage has just filled in the lock on the host.       *)
THEOREM AdmissionTheorem == MirrorSpec => AdmissionSound
  <1>1. ASSUME MirrorInv, [Next]_vars, NEW e \in Env, NEW l \in Lock,
               ~Vouched(e, l), Vouched(e, l)'
        PROVE  Needs[l] \subseteq tree'
    <2> USE ConstantsAssumption DEF lockVars, runVars, localVars, vars
    <2>1. runs' # runs
      BY <1>1, SameManifests
    <2>2. ASSUME NEW p \in Proc, AcquireExclusive(p) PROVE FALSE
      <3>1. env[p] \in Env
        BY <1>1, <2>2 DEF AcquireExclusive, MirrorInv, Control
      <3>2. BeginRun(p)
        BY <2>1, <2>2 DEF AcquireExclusive
      <3>3. TypeOK /\ Begun
        BY <1>1 DEF MirrorInv
      <3>4. QED
        BY <1>1, <3>1, <3>2, <3>3, BeginRunVouches
    <2>3. ASSUME NEW p \in Proc, RecordSuccess(p) PROVE Needs[l] \subseteq tree'
      <3>1. run[p] \in Run /\ runs[run[p]].status = "open"
        BY <1>1, <2>3 DEF RecordSuccess, MirrorInv, Control, TypeOK, Run, Running
      <3>2. HostLockOf(p) \in Lock /\ Needs[HostLockOf(p)] \subseteq tree /\ tree' = tree
        BY <1>1, <2>3 DEF RecordSuccess, MirrorInv, Worked
      <3>3. Manifest(p, "success", HostLockOf(p)) /\ TypeOK
        BY <1>1, <2>3 DEF RecordSuccess, MirrorInv
      <3>4. HostLockOf(p) = l
        BY <1>1, <3>1, <3>2, <3>3, ManifestVouches
      <3>5. QED
        BY <3>2, <3>4
    <2>4. ASSUME NEW p \in Proc, StageFails(p) PROVE FALSE
      <3>1. StageOf(p) \in {"mirror", "verify"} /\ pc[p] \in Held
        BY <2>1, <2>4 DEF StageFails, Held, Running
      <3>2. pc[p] \in Running
        BY <1>1, <3>1 DEF MirrorInv, Control, Held
      <3>3. run[p] \in Run /\ runs[run[p]].status = "open"
        BY <1>1, <3>2 DEF MirrorInv, Control, TypeOK, Run
      <3>4. HostLockOf(p) \in Lock \cup {NoLock}
        BY <1>1, <3>2 DEF MirrorInv, Control, TypeOK, HostLockOf, Running
      <3>5. PICK k \in Lock \cup {NoLock} : Manifest(p, "failed", k)
        BY <2>1, <2>4, <3>4 DEF StageFails
      <3>6. TypeOK
        BY <1>1 DEF MirrorInv
      <3>7. QED
        BY <1>1, <3>3, <3>5, <3>6, ManifestVouches
    <2>5. ASSUME NEW p \in Proc, Step(p) PROVE Needs[l] \subseteq tree'
      BY <2>1, <2>2, <2>3, <2>4, <2>5 DEF Step, CreateWorker, EnterStage, Finish, ImportLock,
         Concretize, WriteBack, MirrorCreate, ExportFetchSpecs, Prune, Gate, AcquireShared, Read
    <2>6. QED
      BY <1>1, <2>1, <2>5 DEF Next, Start, Crash, EditLock, Finished
  <1>2. MirrorInv /\ [Next]_vars =>
          [\A e \in Env, l \in Lock :
             ~Vouched(e, l) /\ Vouched(e, l)' => Needs[l] \subseteq tree']_vars
    BY <1>1
  <1>3. QED
    BY MirrorInvariant, <1>2, PTL DEF MirrorSpec, AdmissionSound

-------------------------------------------------------------------------------
(* The latest name and the latest run.                                     *)

(* Names follow the order in which runs began, except that a run may sort  *)
(* before one that did not succeed; what has been removed sorts before     *)
(* what has not, and the last name stays.  The open run is the last begun. *)
Sorted ==
    /\ \A p \in Proc : pc[p] \in Running => run[p] = begun
    /\ \A x, y \in 1 .. begun :
         x < y /\ runs[x].at >= runs[y].at => runs[x].status # "success"
    /\ \A x, y \in 1 .. begun : ~runs[x].kept /\ runs[y].kept => runs[x].at < runs[y].at
    /\ \A x \in 1 .. begun : runs[x].at = begun => runs[x].kept

(* A new run sorts last, or just before the last one if that failed; what   *)
(* is removed for it comes from the front.                                 *)
LEMMA SortedBegin ==
  ASSUME MirrorInv, Sorted, NEW p \in Proc, pc[p] = "waitExclusive", NobodyHolds,
         BeginRun(p), Goto(p, "prepare")
  PROVE  Sorted'
  <1> USE ConstantsAssumption
  <1>1. /\ TypeOK /\ Begun /\ env[p] \in Env
        /\ begun \in Nat /\ begun' = begun + 1 /\ run' = [run EXCEPT ![p] = begun + 1]
        /\ run \in [Proc -> 0 .. MaxRuns] /\ pc' = [pc EXCEPT ![p] = "prepare"]
    BY DEF MirrorInv, Control, TypeOK, BeginRun, Goto
  <1>2. begun + 1 \in Run /\ runs \in [Run -> RunRecord]
    <2>1. begun + 1 \in Run
      BY <1>1, BeginRunFacts
    <2>2. runs \in [Run -> RunRecord]
      BY <1>1 DEF TypeOK, RunRecord
    <2>3. QED
      BY <2>1, <2>2
  <1>3. PICK k \in Places, named \in [Run -> RunRecord] : Effect(k, named)
    BY <1>1, BeginRunEffect
  <1>4. /\ k \in {begun, begun + 1}
        /\ \A x \in 1 .. begun : runs[x].at >= k => runs[x].status # "success"
    BY DEF Places
  <1>5. \A x \in 1 .. begun : x \in Run /\ x # begun + 1
    BY <1>1, <1>2 DEF Run
  <1>6. ASSUME NEW x \in 1 .. begun + 1
        PROVE  /\ x \in Run /\ named[x].at \in Nat
               /\ x = begun + 1 => named[x].at = k /\ named[x].kept
               /\ x # begun + 1 => /\ x \in 1 .. begun /\ runs[x].at \in Nat
                                   /\ runs[x].at <= begun
                                   /\ named[x].status = runs[x].status
                                   /\ named[x].kept = runs[x].kept
                                   /\ named[x].at = IF runs[x].at >= k THEN runs[x].at + 1
                                                    ELSE runs[x].at
               /\ runs'[x].status = named[x].status /\ runs'[x].at = named[x].at
               /\ runs'[x].kept <=> named[x].kept /\ x \notin Excess(named)
    <2>1. x \in Run /\ (x # begun + 1 => x \in 1 .. begun)
      BY <1>1, <1>2, <1>5
    <2>2. named[x].at \in Nat /\ runs[x].at \in Nat /\ runs[x].at <= begun
      BY <1>1, <1>2, <2>1 DEF RunRecord, Begun
    <2>3. QED
      BY <1>3, <2>1, <2>2 DEF Effect
  <1>7. ASSUME NEW q \in Proc, pc'[q] \in Running PROVE run'[q] = begun'
    <2>1. pc[q] \in Running => FALSE
      BY DEF MirrorInv, Mutex, NobodyHolds, Held
    <2>2. q = p
      BY <1>1, <1>7, <2>1 DEF MirrorInv, TypeOK
    <2>3. QED
      BY <1>1, <2>2
  <1>8. ASSUME NEW x \in 1 .. begun', NEW y \in 1 .. begun', x < y, runs'[x].at >= runs'[y].at
        PROVE  runs'[x].status # "success"
    <2>1. x \in 1 .. begun /\ x \in 1 .. begun + 1 /\ y \in 1 .. begun + 1
      BY <1>1, <1>8
    <2>2. CASE y = begun + 1
      <3>1. runs[x].at >= k
        BY <1>4, <1>6, <1>8, <1>1, <2>1, <2>2
      <3>2. QED
        BY <1>4, <1>5, <1>6, <2>1, <3>1
    <2>3. CASE y # begun + 1
      <3>1. y \in 1 .. begun /\ runs[x].at >= runs[y].at
        <4>1. y \in 1 .. begun /\ k \in Nat
          BY <1>1, <1>4, <2>1, <2>3
        <4>2. /\ runs[x].at \in Nat
              /\ runs'[x].at = IF runs[x].at >= k THEN runs[x].at + 1 ELSE runs[x].at
          BY <1>5, <1>6, <2>1
        <4>3. /\ runs[y].at \in Nat
              /\ runs'[y].at = IF runs[y].at >= k THEN runs[y].at + 1 ELSE runs[y].at
          BY <1>6, <2>1, <2>3
        <4>4. QED
          BY <1>8, <4>1, <4>2, <4>3
      <3>2. runs[x].status # "success"
        BY <1>8, <2>1, <3>1 DEF Sorted
      <3>3. QED
        BY <1>5, <1>6, <2>1, <3>2
    <2>4. QED
      BY <2>2, <2>3
  <1>9. ASSUME NEW x \in 1 .. begun', NEW y \in 1 .. begun', ~runs'[x].kept, runs'[y].kept
        PROVE  runs'[x].at < runs'[y].at
    <2>1. x \in 1 .. begun + 1 /\ y \in 1 .. begun + 1
      BY <1>1
    <2>2. named[y].kept /\ y \notin Excess(named) /\ y \in Run /\ x \in Run
      BY <1>6, <1>9, <2>1
    <2>3. CASE x \in Excess(named)
      <3>1. ~(named[x].at >= named[y].at)
        BY <2>2, <2>3, ExcessIsFront
      <3>2. QED
        BY <1>6, <2>1, <3>1
    <2>4. CASE x \notin Excess(named)
      <3>1. ~named[x].kept /\ x # begun + 1
        BY <1>6, <1>9, <2>1, <2>4
      <3>2. x \in 1 .. begun /\ ~runs[x].kept /\ runs[x].at # begun
        BY <1>6, <2>1, <3>1 DEF Sorted
      <3>3. runs[x].at < begun /\ runs[x].at \in Nat /\ named[x].at = runs[x].at
        BY <1>1, <1>4, <1>6, <2>1, <3>1, <3>2
      <3>4. CASE y = begun + 1
        BY <1>1, <1>4, <1>6, <2>1, <3>3, <3>4
      <3>5. CASE y # begun + 1
        <4>1. y \in 1 .. begun /\ runs[y].kept
          BY <1>6, <2>1, <2>2, <3>5
        <4>2. runs[x].at < runs[y].at
          BY <3>2, <4>1 DEF Sorted
        <4>3. QED
          BY <1>1, <1>4, <1>6, <2>1, <3>3, <3>5, <4>2
      <3>6. QED
        BY <3>4, <3>5
    <2>5. QED
      BY <2>3, <2>4
  <1>10. ASSUME NEW x \in 1 .. begun', runs'[x].at = begun' PROVE runs'[x].kept
    <2>1. x \in 1 .. begun + 1 /\ named[x].at = begun + 1
      BY <1>1, <1>6, <1>10
    <2>2. named[x].kept
      <3>1. CASE x = begun + 1
        BY <1>6, <2>1, <3>1
      <3>2. CASE x # begun + 1
        <4>1. runs[x].at = begun /\ x \in 1 .. begun
          BY <1>1, <1>4, <1>6, <2>1, <3>2
        <4>2. runs[x].kept
          BY <4>1 DEF Sorted
        <4>3. QED
          BY <1>6, <2>1, <3>2, <4>2
      <3>3. QED
        BY <3>1, <3>2
    <2>3. x \notin Excess(named)
      <3>1. \A y \in Run : named[y].at <= begun + 1
        <4>1. ASSUME NEW y \in Run PROVE named[y].at <= begun + 1
          <5>1. CASE y \in 1 .. begun + 1
            BY <1>1, <1>4, <1>6, <5>1
          <5>2. CASE y \notin 1 .. begun + 1
            <6>1. y > begun /\ y # begun + 1
              BY <1>1, <5>2 DEF Run
            <6>2. runs[y].at = 0
              BY <1>1, <6>1 DEF Begun, NoRun
            <6>3. named[y].at \in {0, 1}
              BY <1>3, <6>1, <6>2 DEF Effect
            <6>4. QED
              BY <1>1, <6>3
          <5>3. QED
            BY <5>1, <5>2
        <4>2. QED
          BY <4>1
      <3>2. \A y \in Run : named[y].at \in Nat
        BY DEF RunRecord
      <3>3. {y \in Run : named[y].kept /\ named[y].at > named[x].at} = {}
        BY <1>1, <2>1, <3>1, <3>2
      <3>4. Cardinality({}) = 0 /\ ~(0 >= Keep)
        BY FS_EmptySet
      <3>5. QED
        BY <3>3, <3>4 DEF Excess
    <2>4. QED
      BY <1>6, <2>1, <2>2, <2>3
  <1>11. QED
    BY <1>7, <1>8, <1>9, <1>10 DEF Sorted

(* A manifest changes what the last run has recorded and no names. *)
LEMMA SortedManifest ==
  ASSUME MirrorInv, Sorted, NEW p \in Proc, pc[p] \in Running,
         NEW st \in {"success", "failed"}, NEW l \in Lock \cup {NoLock}, Manifest(p, st, l),
         UNCHANGED <<begun, run>>, \A q \in Proc : pc'[q] \in Running => pc[q] \in Running
  PROVE  Sorted'
  <1>1. /\ TypeOK /\ run[p] = begun /\ run[p] \in Run /\ begun \in Nat
        /\ \A x \in 1 .. begun : x \in Run
    BY ConstantsAssumption DEF MirrorInv, Control, Sorted, TypeOK, Run
  <1>2. runs \in [Run -> RunRecord]
    BY <1>1 DEF TypeOK, RunRecord
  <1>3. runs'[begun] = [runs[begun] EXCEPT !.lock = l, !.status = st, !.log = StageOf(p) = "verify"]
    BY <1>1, <1>2 DEF Manifest
  <1>4. \A x \in Run : x # begun => runs'[x] = runs[x]
    BY <1>1, <1>2 DEF Manifest
  <1>5. ASSUME NEW x \in 1 .. begun
        PROVE  /\ runs'[x].at = runs[x].at /\ runs'[x].kept = runs[x].kept
               /\ x # begun => runs'[x].status = runs[x].status
    <2>1. x \in Run /\ runs[x] \in RunRecord
      BY <1>1, <1>2
    <2>2. CASE x = begun
      BY <1>3, <2>1, <2>2 DEF RunRecord
    <2>3. CASE x # begun
      BY <1>4, <2>1, <2>3
    <2>4. QED
      BY <2>2, <2>3
  <1>6. \A q \in Proc : pc'[q] \in Running => run'[q] = begun'
    BY DEF Sorted
  <1>7. ASSUME NEW x \in 1 .. begun, NEW y \in 1 .. begun, x < y, runs'[x].at >= runs'[y].at
        PROVE  runs'[x].status # "success"
    <2>1. x # begun /\ runs[x].at >= runs[y].at
      BY <1>1, <1>5, <1>7
    <2>2. QED
      BY <1>5, <1>7, <2>1 DEF Sorted
  <1>8. ASSUME NEW x \in 1 .. begun, NEW y \in 1 .. begun, ~runs'[x].kept, runs'[y].kept
        PROVE  runs'[x].at < runs'[y].at
    BY <1>5, <1>8 DEF Sorted
  <1>9. ASSUME NEW x \in 1 .. begun, runs'[x].at = begun PROVE runs'[x].kept
    BY <1>5, <1>9 DEF Sorted
  <1>10. begun' = begun
    OBVIOUS
  <1>11. QED
    BY <1>6, <1>7, <1>8, <1>9, <1>10 DEF Sorted

(* Every step preserves the order: only BeginRun and Manifest touch it.    *)
LEMMA SortedNext == MirrorInv /\ Sorted /\ [Next]_vars => Sorted'
  <1> SUFFICES ASSUME MirrorInv, Sorted, [Next]_vars PROVE Sorted'
    OBVIOUS
  <1>1. ASSUME UNCHANGED <<runs, begun, run>>,
               \A q \in Proc : pc'[q] \in Running => pc[q] \in Running
        PROVE  Sorted'
    BY <1>1 DEF Sorted
  <1>2. ASSUME NEW p \in Proc, AcquireExclusive(p) PROVE Sorted'
    <2>1. CASE BeginRun(p)
      <3>1. Goto(p, "prepare") /\ pc[p] = "waitExclusive" /\ NobodyHolds
        <4>1. runs' = runs /\ run' = run => FALSE
          <5>1. begun' # begun
            BY <2>1 DEF BeginRun, MirrorInv, TypeOK
          <5>2. begun' = begun + 1 /\ run' = [run EXCEPT ![p] = begun + 1]
            BY <2>1 DEF BeginRun
          <5>3. run[p] = begun + 1 \/ ~(run' = run)
            BY <5>2 DEF MirrorInv, TypeOK
          <5>4. runs'[begun + 1].status = "open" /\ runs[begun + 1].status = "absent"
            <6>1. env[p] \in Env /\ TypeOK /\ Begun
              BY <1>2 DEF AcquireExclusive, MirrorInv, Control
            <6>2. runs'[begun + 1].status = "open" /\ begun + 1 \in Run
              BY <2>1, <6>1, BeginRunFacts
            <6>3. begun + 1 > begun
              BY <6>1 DEF TypeOK
            <6>4. QED
              BY <6>1, <6>2, <6>3 DEF Begun, NoRun
          <5>5. QED
            BY <5>4
        <4>2. QED
          BY <1>2, <4>1 DEF AcquireExclusive, runVars
      <3>2. QED
        BY <2>1, <3>1, SortedBegin
    <2>2. CASE /\ UNCHANGED <<runs, begun, run>>
               /\ Goto(p, IF StageOf(p) = "prune" THEN "export" ELSE "apply")
      <3>1. \A q \in Proc : pc'[q] \in Running => pc[q] \in Running
        BY <2>2 DEF Goto, Running, MirrorInv, TypeOK
      <3>2. QED
        BY <1>1, <2>2, <3>1
    <2>3. QED
      BY <1>2, <2>1, <2>2 DEF AcquireExclusive, runVars
  <1>3. ASSUME NEW p \in Proc, RecordSuccess(p) PROVE Sorted'
    <2>1. pc[p] \in Running /\ Manifest(p, "success", HostLockOf(p)) /\ UNCHANGED <<begun, run>>
      BY <1>3 DEF RecordSuccess, Running, localVars
    <2>2. \A q \in Proc : pc'[q] \in Running => pc[q] \in Running
      BY <1>3 DEF RecordSuccess, LeaveStage, Goto, Running, MirrorInv, TypeOK
    <2>3. HostLockOf(p) \in Lock
      BY <1>3 DEF RecordSuccess, MirrorInv, Worked
    <2>4. QED
      BY <2>1, <2>2, <2>3, SortedManifest
  <1>4. ASSUME NEW p \in Proc, StageFails(p) PROVE Sorted'
    <2>1. /\ UNCHANGED <<begun, run>> /\ pc[p] \in Held
          /\ \A q \in Proc : pc'[q] \in Running => pc[q] \in Running
      BY <1>4 DEF StageFails, Goto, Held, Running, MirrorInv, TypeOK, localVars
    <2>2. CASE UNCHANGED runs
      BY <1>1, <2>1, <2>2
    <2>3. CASE ~UNCHANGED runs
      <3>1. StageOf(p) \in {"mirror", "verify"}
        BY <1>4, <2>3 DEF StageFails
      <3>2. pc[p] \in Running
        BY <2>1, <3>1 DEF MirrorInv, Control, Held
      <3>3. HostLockOf(p) \in Lock \cup {NoLock}
        BY <3>2 DEF MirrorInv, Control, TypeOK, HostLockOf, Running
      <3>4. PICK l \in Lock \cup {NoLock} : Manifest(p, "failed", l)
        BY <1>4, <2>3, <3>3 DEF StageFails
      <3>5. QED
        BY <2>1, <3>2, <3>4, SortedManifest
    <2>4. QED
      BY <2>2, <2>3
  <1>5. ASSUME NEW p \in Proc, ImportLock(p) \/ Concretize(p) \/ WriteBack(p) \/ MirrorCreate(p)
        PROVE  Sorted'
    <2>1. /\ pc[p] \in Running /\ UNCHANGED <<runs, begun, run>>
          /\ \A q \in Proc : q # p => pc'[q] = pc[q]
      BY <1>5 DEF ImportLock, Concretize, WriteBack, MirrorCreate, Goto, Running, MirrorInv,
         TypeOK, runVars, localVars
    <2>2. QED
      BY <1>1, <2>1
  <1>6. ASSUME NEW p \in Proc,
               \/ Start(p) \/ CreateWorker(p) \/ EnterStage(p) \/ Finish(p)
               \/ ExportFetchSpecs(p) \/ Prune(p) \/ Gate(p) \/ AcquireShared(p) \/ Read(p)
               \/ Crash(p)
        PROVE  Sorted'
    <2>1. /\ UNCHANGED <<runs, begun, run>>
          /\ \A q \in Proc : q # p => pc'[q] = pc[q]
      BY <1>6 DEF Start, CreateWorker, EnterStage, Finish, ExportFetchSpecs, Prune, LeaveStage,
         Gate, AcquireShared, Read, Crash, Goto, MirrorInv, TypeOK, runVars, localVars
    <2>2. pc'[p] \notin Running
      BY <1>6 DEF Start, CreateWorker, EnterStage, Finish, ExportFetchSpecs, Prune, LeaveStage,
         Gate, AcquireShared, Read, Crash, Goto, MirrorInv, TypeOK, Running
    <2>3. QED
      BY <1>1, <2>1, <2>2
  <1>7. ASSUME NEW e \in Env, EditLock(e) PROVE Sorted'
    BY <1>1, <1>7 DEF EditLock, runVars, localVars
  <1>8. ASSUME UNCHANGED vars PROVE Sorted'
    BY <1>1, <1>8 DEF vars, runVars, localVars
  <1>9. QED
    BY <1>2, <1>3, <1>4, <1>5, <1>6, <1>7, <1>8 DEF Next, Step, Finished

(* If the manifests vouch for a lock then the run whose manifest does is   *)
(* one after which no run of that lock has ended but in a verification.    *)
LEMMA SortedIsLatest == MirrorInv /\ Sorted => GateLatest
  <1> SUFFICES ASSUME MirrorInv, Sorted, NEW e \in Env, NEW l \in Lock, Vouched(e, l)
               PROVE  \E r \in Run :
                        /\ runs[r].env = e /\ runs[r].lock = l /\ Verified(r)
                        /\ \A s \in r + 1 .. MaxRuns :
                             runs[s].env = e /\ runs[s].lock = l
                               => runs[s].status \notin {"success", "failed"} \/ Verified(s)
    BY DEF GateLatest
  <1> USE ConstantsAssumption
  <1>1. PICK r \in Matching(e, l) :
          /\ \A s \in Matching(e, l) : runs[s].at <= runs[r].at
          /\ Verified(r)
    BY DEF Vouched
  <1>2. runs \in [Run -> RunRecord] /\ begun \in 0 .. MaxRuns
    BY DEF MirrorInv, TypeOK, RunRecord
  <1>3. \A x \in Run : runs[x].status \in {"success", "failed"} => x \in 1 .. begun
    BY <1>2 DEF MirrorInv, Begun, NoRun, Run
  <1>4. /\ r \in Run /\ runs[r].env = e /\ runs[r].lock = l /\ runs[r].kept
        /\ runs[r].status = "success" /\ r \in 1 .. begun
    BY <1>1, <1>3 DEF Matching, Verified
  <1>5. ASSUME NEW s \in r + 1 .. MaxRuns, runs[s].env = e, runs[s].lock = l,
               runs[s].status \in {"success", "failed"}
        PROVE  FALSE
    <2>1. s \in Run /\ s \in 1 .. begun /\ r < s
      BY <1>3, <1>4, <1>5 DEF Run
    <2>2. runs[s].at \in Nat /\ runs[r].at \in Nat
      BY <1>2, <1>4, <2>1 DEF RunRecord
    <2>3. ~(runs[r].at >= runs[s].at)
      BY <1>4, <2>1 DEF Sorted
    <2>4. runs[s].kept
      BY <1>4, <2>1, <2>2, <2>3 DEF Sorted
    <2>5. s \in Matching(e, l)
      BY <1>5, <2>1, <2>4 DEF Matching
    <2>6. QED
      BY <1>1, <2>2, <2>3, <2>5
  <1>6. QED
    BY <1>1, <1>4, <1>5

(* The gate never goes by an older success, although names carry seconds   *)
(* and directories are removed: the vouching run is the last that ended.   *)
THEOREM GateLatestTheorem == MirrorSpec => []GateLatest
  <1>1. Init => Sorted
    BY ConstantsAssumption DEF Init, Sorted, Running
  <1>2. MirrorInv /\ Sorted /\ [Next]_vars => Sorted'
    BY SortedNext
  <1>3. MirrorInv /\ Sorted => GateLatest
    BY SortedIsLatest
  <1>4. QED
    BY MirrorInvariant, <1>1, <1>2, <1>3, PTL DEF MirrorSpec

===============================================================================
