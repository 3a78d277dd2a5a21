----------------------------- MODULE Engine_proofs -----------------------------
(***************************************************************************)
(* Proofs about Engine, for any number of invocations, references,         *)
(* checkouts and images, every mix of commands and all faults.             *)
(*                                                                         *)
(* None of the properties is inductive.  EngineInv is: types and which     *)
(* local variables are set where (TypeInv); what exports know of the       *)
(* archive and of each other (Exports); what garbage collections know of   *)
(* builds (Collections); and what sessions know of the worker (Sessions).  *)
(***************************************************************************)
EXTENDS Engine, TLAPS

(* An export and a build have a reference, a session has a checkout.       *)
TypeInv ==
    /\ TypeOK
    /\ \A p \in Proc :
        /\ proc[p].at \in Exporting => proc[p].ref \in Ref /\ proc[p].id # 0
        /\ proc[p].at \in {"between", "stage"} => proc[p].ref \in Ref
        /\ proc[p].at \in Session => proc[p].root \in Root

(* Two exports at once know that the archive is not theirs alone.          *)
Sole ==
    \A p, q \in Proc :
        p # q /\ proc[p].at \in Exporting /\ proc[q].at \in Exporting
        => disturbed /\ ~proc[p].clean

(* What an export that was alone, and whose reference has not moved, has   *)
(* achieved.                                                               *)
Achieved ==
    \A p \in Proc : proc[p].clean =>
        /\ proc[p].at \in Looking => image[proc[p].ref] = proc[p].id
        /\ At(p, "saving") => proc[p].copy = proc[p].id /\ tar.by = p
        /\ At(p, "writeId") => tar.holds = proc[p].id

(* An undisturbed archive is the one its sidecar says; the sidecar goes    *)
(* after the archive and comes after it.                                   *)
Archived ==
    ~disturbed =>
        /\ sidecar # 0 => tar.holds = sidecar \/ \E p \in Proc : At(p, "unlinkId")
        /\ \A p \in Proc : proc[p].at \in {"save", "saving", "writeId"} => sidecar = 0

Exports == Sole /\ Achieved /\ Archived /\ ExportIsImage

(* Containers are of builds that run; what a collection is about to remove *)
(* is not a running build's, unless it is forced or the build came late.   *)
Collections ==
    /\ \A p \in Proc : <<p, "running">> \in working => At(p, "stage")
    /\ \A g, p \in Proc : ~proc[g].force =>
        /\ At(g, "list") /\ At(p, "stage") => p \in proc[g].late
        /\ At(g, "remove") /\ <<p, "running">> \in proc[g].seen => p \in proc[g].late

(* Sessions know of each other; the worker is the one that was asked for.  *)
Sessions ==
    /\ \A p, q \in Proc :
        p # q /\ proc[p].at \in Session /\ proc[q].at \in Session
        => /\ proc[p].company # "none"
           /\ proc[p].root # proc[q].root => proc[p].company = "other"
    /\ \A p \in Proc : proc[p].at \in {"status", "start", "exec"} =>
        /\ proc[p].company # "other" /\ worker # NoWorker => worker.root = proc[p].root
        /\ proc[p].company = "none" => worker # NoWorker /\ Matches(p)
        /\ proc[p].company = "none" /\ At(p, "exec") => worker.running

EngineInv == TypeInv /\ Exports /\ Collections /\ Sessions

-------------------------------------------------------------------------------
(* The steps, by the part of the system that takes them.                   *)

BuildStep(p) ==
    \/ \E r \in Ref : Build(p, r)
    \/ BeginStage(p) \/ (\E id \in Image : EndStage(p, id)) \/ FailStage(p)
ExportStep(p) ==
    \/ \E r \in Ref : Inspect(p, r)
    \/ Decide(p) \/ UnlinkTar(p) \/ UnlinkId(p) \/ BeginSave(p) \/ EndSave(p)
    \/ WriteId(p) \/ Convert(p)
GcStep(p) == (\E force \in BOOLEAN : Scan(p, force)) \/ List(p) \/ Remove(p)
SessionStep(p) ==
    \/ \E root \in Root : Begin(p, root)
    \/ Ensure(p) \/ Resolve(p) \/ Look(p) \/ Compare(p) \/ IsRunning(p)
    \/ Destroy(p) \/ Create(p) \/ Start(p) \/ Finish(p)
Outside == (\E r \in Ref, id \in Image : Tag(r, id)) \/ RemoveTar \/ Rebuild

LEMMA Steps ==
  ASSUME [Next]_vars
  PROVE  \/ \E p \in Proc :
              BuildStep(p) \/ ExportStep(p) \/ GcStep(p) \/ SessionStep(p) \/ Stop(p)
         \/ Outside
         \/ UNCHANGED vars
  BY DEF Next, BuildStep, ExportStep, GcStep, SessionStep, Outside

-------------------------------------------------------------------------------
(* Types.                                                                  *)

(* Where an invocation may be, and what the record of one may become.      *)
Place == {"idle", "between", "stage", "list", "remove"} \cup Exporting \cup Session

LEMMA RecordUpdates ==
  ASSUME NEW rec \in Record
  PROVE  /\ \A at \in Place : [rec EXCEPT !.at = at] \in Record
         /\ \A at \in Place, n \in 1 .. 3 : [rec EXCEPT !.at = at, !.stage = n] \in Record
         /\ \A at \in Place, id \in Image : [rec EXCEPT !.at = at, !.copy = id] \in Record
         /\ \A at \in Place, id \in Image : [rec EXCEPT !.at = at, !.id = id] \in Record
         /\ \A at \in Place, seen \in SUBSET Container :
               [rec EXCEPT !.at = at, !.seen = seen] \in Record
         /\ \A late \in SUBSET Proc : [rec EXCEPT !.late = late] \in Record
         /\ \A clean \in BOOLEAN : [rec EXCEPT !.clean = clean] \in Record
         /\ \A clean \in BOOLEAN, seen \in SUBSET Container :
               [rec EXCEPT !.clean = clean, !.seen = seen] \in Record
  <1>1. \A at \in Place : [rec EXCEPT !.at = at] \in Record
    BY DEF Record, Place
  <1>2. \A at \in Place, n \in 1 .. 3 : [rec EXCEPT !.at = at, !.stage = n] \in Record
    BY DEF Record, Place
  <1>3. \A at \in Place, id \in Image : [rec EXCEPT !.at = at, !.copy = id] \in Record
    BY DEF Record, Place
  <1>4. \A at \in Place, id \in Image : [rec EXCEPT !.at = at, !.id = id] \in Record
    BY DEF Record, Place
  <1>5. \A at \in Place, seen \in SUBSET Container :
          [rec EXCEPT !.at = at, !.seen = seen] \in Record
    BY DEF Record, Place
  <1>6. \A late \in SUBSET Proc : [rec EXCEPT !.late = late] \in Record
    BY DEF Record
  <1>7. \A clean \in BOOLEAN : [rec EXCEPT !.clean = clean] \in Record
    BY DEF Record
  <1>8. \A clean \in BOOLEAN, seen \in SUBSET Container :
          [rec EXCEPT !.clean = clean, !.seen = seen] \in Record
    BY DEF Record
  <1>9. QED
    BY <1>1, <1>2, <1>3, <1>4, <1>5, <1>6, <1>7, <1>8

(* A reference that moves and a container that goes change of others only  *)
(* their history and what a collection can still remove.                   *)
LEMMA ElsewhereFacts ==
  ASSUME TypeOK, NEW q \in Proc, NEW r, NEW c
  PROVE  /\ Elsewhere(q, r, c) \in Record
         /\ Elsewhere(q, r, c).at = proc[q].at
         /\ Elsewhere(q, r, c).ref = proc[q].ref
         /\ Elsewhere(q, r, c).root = proc[q].root
         /\ Elsewhere(q, r, c).id = proc[q].id
         /\ Elsewhere(q, r, c).copy = proc[q].copy
         /\ Elsewhere(q, r, c).force = proc[q].force
         /\ Elsewhere(q, r, c).seen = proc[q].seen \ {c}
         /\ Elsewhere(q, r, c).late = proc[q].late
         /\ Elsewhere(q, r, c).company = proc[q].company
         /\ Elsewhere(q, r, c).clean =>
              proc[q].clean /\ ~(proc[q].ref = r /\ proc[q].at \in Looking)
  <1> DEFINE clean == proc[q].clean /\ ~(proc[q].ref = r /\ proc[q].at \in Looking)
             seen == proc[q].seen \ {c}
  <1>1. proc[q] \in Record
    BY DEF TypeOK
  <1>2. clean \in BOOLEAN /\ seen \in SUBSET Container
    BY <1>1 DEF Record
  <1>3. Elsewhere(q, r, c) = [proc[q] EXCEPT !.clean = clean, !.seen = seen]
    BY DEF Elsewhere
  <1> HIDE DEF clean, seen
  <1>4. Elsewhere(q, r, c) \in Record
    <2>1. \A b \in BOOLEAN, s \in SUBSET Container :
            [proc[q] EXCEPT !.clean = b, !.seen = s] \in Record
      BY <1>1, RecordUpdates
    <2>2. [proc[q] EXCEPT !.clean = clean, !.seen = seen] \in Record
      BY <1>2, <2>1
    <2>3. QED
      BY <1>3, <2>2
  <1>5. /\ Elsewhere(q, r, c).at = proc[q].at
        /\ Elsewhere(q, r, c).ref = proc[q].ref
        /\ Elsewhere(q, r, c).root = proc[q].root
        /\ Elsewhere(q, r, c).id = proc[q].id
        /\ Elsewhere(q, r, c).copy = proc[q].copy
        /\ Elsewhere(q, r, c).force = proc[q].force
        /\ Elsewhere(q, r, c).late = proc[q].late
        /\ Elsewhere(q, r, c).company = proc[q].company
    BY <1>1, <1>3 DEF Record
  <1>6. Elsewhere(q, r, c).seen = seen
    BY <1>1, <1>3 DEF Record
  <1>7. Elsewhere(q, r, c).clean = clean
    BY <1>1, <1>3 DEF Record
  <1>8. QED
    BY <1>4, <1>5, <1>6, <1>7 DEF clean, seen

LEMMA IdleType == Idle \in Record
  BY EngineAssumption DEF Idle, Record, Image

LEMMA InitType == Init => TypeInv
  <1> SUFFICES ASSUME Init PROVE TypeInv
    OBVIOUS
  <1>1. proc \in [Proc -> Record]
    BY IdleType DEF Init
  <1>2. 0 \in Image
    BY EngineAssumption DEF Image
  <1>3. TypeOK
    BY <1>1, <1>2 DEF Init, TypeOK, NoTar, NoWorker
  <1>4. QED
    BY <1>3 DEF Init, TypeInv, Idle, Exporting, Looking, Session

LEMMA BuildType ==
  ASSUME TypeInv, NEW p \in Proc, BuildStep(p)
  PROVE  TypeInv'
  <1> USE DEF TypeInv, TypeOK
  <1>1. CASE \E r \in Ref : Build(p, r)
    <2>1. PICK r \in Ref : Build(p, r)
      BY <1>1
    <2>2. PICK first \in {1, 2} :
            Set(p, [Idle EXCEPT !.at = "between", !.stage = first, !.ref = r])
      BY <2>1 DEF Build
    <2>3. [Idle EXCEPT !.at = "between", !.stage = first, !.ref = r] \in Record
      <3>1. first \in 1 .. 3
        OBVIOUS
      <3>2. QED
        BY <3>1, IdleType DEF Record
    <2>4. QED
      BY <2>1, <2>2, <2>3 DEF Build, Set, images, archive, Exporting, Looking, Session, Idle
  <1>2. CASE BeginStage(p)
    <2>1. \A q \in Proc : proc[q].late \cup {p} \in SUBSET Proc
      BY DEF Record
    <2>2. proc' \in [Proc -> Record]
      <3>1. "stage" \in Place /\ \A q \in Proc : proc[q] \in Record
        BY DEF Place
      <3>2. \A q \in Proc : (IF At(q, "list") THEN proc[q].late \cup {p} ELSE proc[q].late)
                               \in SUBSET Proc
        BY <2>1 DEF Record
      <3>3. QED
        BY <1>2, <3>1, <3>2, RecordUpdates DEF BeginStage
    <2>3. \A q \in Proc : /\ proc'[q].ref = proc[q].ref /\ proc'[q].id = proc[q].id
                          /\ proc'[q].root = proc[q].root
                          /\ IF q = p THEN proc'[q].at = "stage" /\ At(p, "between")
                                      ELSE proc'[q].at = proc[q].at
      BY <1>2 DEF BeginStage, Record
    <2>4. \A q \in Proc :
            /\ proc'[q].at \in Exporting => proc'[q].ref \in Ref /\ proc'[q].id # 0
            /\ proc'[q].at \in {"between", "stage"} => proc'[q].ref \in Ref
            /\ proc'[q].at \in Session => proc'[q].root \in Root
      BY <2>3 DEF At, Exporting, Looking, Session
    <2>5. working' \subseteq Container
      BY <1>2 DEF BeginStage, Container
    <2>6. QED
      BY <1>2, <2>2, <2>4, <2>5 DEF BeginStage, images, archive
  <1>3. CASE \E id \in Image : EndStage(p, id)
    <2>1. PICK id \in Image : EndStage(p, id)
      BY <1>3
    <2>2. \A q \in Proc : \A r, c : Elsewhere(q, r, c) \in Record
      BY ElsewhereFacts
    <2>3. ~(proc[p].stage = 3) => [proc[p] EXCEPT !.at = "between", !.stage = @ + 1] \in Record
      <3>1. proc[p] \in Record /\ proc[p].stage \in 1 .. 3 /\ "between" \in Place
        BY DEF Record, Place
      <3>2. ~(proc[p].stage = 3) => proc[p].stage + 1 \in 1 .. 3
        BY <3>1
      <3>3. QED
        BY <3>1, <3>2, RecordUpdates
    <2>4. proc' \in [Proc -> Record]
      BY <2>1, <2>2, <2>3, IdleType DEF EndStage
    <2>5. \A q \in Proc :
            IF q = p THEN proc'[p] = Idle \/ (proc'[p].at = "between" /\ proc'[p].ref = proc[p].ref)
            ELSE /\ proc'[q].ref = proc[q].ref /\ proc'[q].id = proc[q].id
                 /\ proc'[q].root = proc[q].root /\ proc'[q].at = proc[q].at
      <3>1. proc[p] \in Record
        OBVIOUS
      <3>2. proc'[p] = Idle \/ proc'[p] = [proc[p] EXCEPT !.at = "between", !.stage = @ + 1]
        BY <2>1 DEF EndStage
      <3>3. proc'[p] = Idle \/ (proc'[p].at = "between" /\ proc'[p].ref = proc[p].ref)
        BY <3>1, <3>2 DEF Record
      <3>4. QED
        BY <2>1, <3>3, ElsewhereFacts DEF EndStage
    <2>6. made' \in Image /\ image' \in [Ref -> Image] /\ working' \subseteq Container
      BY <2>1 DEF EndStage
    <2>7. TypeOK'
      BY <2>1, <2>4, <2>6 DEF EndStage, archive
    <2>8. proc'[p] = Idle => proc'[p].at = "idle"
      BY DEF Idle
    <2>9. At(p, "stage")
      BY <2>1 DEF EndStage
    <2>10. QED
      BY <2>5, <2>7, <2>8, <2>9 DEF At, Exporting, Looking, Session
  <1>4. CASE FailStage(p)
    <2>1. \A q \in Proc : \A r, c : Elsewhere(q, r, c) \in Record
      BY ElsewhereFacts
    <2>2. proc' \in [Proc -> Record]
      BY <1>4, <2>1, IdleType DEF FailStage
    <2>3. \A q \in Proc :
            IF q = p THEN proc'[p] = Idle
            ELSE /\ proc'[q].ref = proc[q].ref /\ proc'[q].id = proc[q].id
                 /\ proc'[q].root = proc[q].root /\ proc'[q].at = proc[q].at
      BY <1>4, ElsewhereFacts DEF FailStage
    <2>4. QED
      BY <1>4, <2>2, <2>3 DEF FailStage, images, archive, Exporting, Looking, Session, Idle
  <1>5. QED
    BY <1>1, <1>2, <1>3, <1>4 DEF BuildStep

LEMMA ExportType ==
  ASSUME TypeInv, NEW p \in Proc, ExportStep(p)
  PROVE  TypeInv'
  <1> USE DEF TypeInv, TypeOK
  <1>a. ASSUME NEW rec \in Record, Set(p, rec),
               rec.at \in Exporting => rec.ref \in Ref /\ rec.id # 0,
               rec.at \notin Session \cup {"between", "stage"},
               UNCHANGED <<images, working, worker>>,
               tar' \in [by : Proc \cup {NoProc}, holds : Image],
               sidecar' \in Image, disturbed' \in BOOLEAN
        PROVE  TypeInv'
    BY <1>a DEF Set, images
  <1>b. 0 \in Image /\ NoTar \in [by : Proc \cup {NoProc}, holds : Image]
    BY EngineAssumption DEF Image, NoTar
  <1>c. ASSUME proc[p].at \in Exporting, NEW at \in Exporting, To(p, at)
        PROVE  \E rec \in Record : /\ Set(p, rec) /\ rec.at = at
                                   /\ rec.ref \in Ref /\ rec.id # 0
                                   /\ rec.at \notin Session \cup {"between", "stage"}
    <2>1. proc[p] \in Record /\ at \in Place
      BY DEF Place
    <2>2. [proc[p] EXCEPT !.at = at] \in Record
      BY <2>1, RecordUpdates
    <2>3. /\ [proc[p] EXCEPT !.at = at].at = at
          /\ [proc[p] EXCEPT !.at = at].ref = proc[p].ref
          /\ [proc[p] EXCEPT !.at = at].id = proc[p].id
      BY <2>1 DEF Record
    <2>4. at \notin Session \cup {"between", "stage"}
      BY DEF Exporting, Looking, Session
    <2>5. QED
      BY <1>c, <2>2, <2>3, <2>4 DEF To
  <1>d. Idle.at = "idle" /\ "idle" \notin Exporting /\ "idle" \notin Session
    BY DEF Idle, Exporting, Looking, Session
  <1>1. CASE \E r \in Ref : Inspect(p, r)
    <2>1. PICK r \in Ref : Inspect(p, r)
      BY <1>1
    <2>2. proc' \in [Proc -> Record]
      <3>1. image[r] \in Image
        OBVIOUS
      <3>2. \A b \in BOOLEAN :
              [Idle EXCEPT !.at = "inspected", !.ref = r, !.id = image[r], !.clean = b] \in Record
        BY <3>1, IdleType DEF Record, Exporting, Looking
      <3>3. \A q \in Proc, b \in BOOLEAN : [proc[q] EXCEPT !.clean = b] \in Record
        BY DEF Record
      <3>4. \A q \in Proc : proc[q].clean \in BOOLEAN
        BY DEF Record
      <3>5. QED
        BY <2>1, <3>2, <3>3, <3>4 DEF Inspect
    <2>3. \A q \in Proc :
            IF q = p THEN proc'[p].at = "inspected" /\ proc'[p].ref = r /\ proc'[p].id = image[r]
            ELSE /\ proc'[q].ref = proc[q].ref /\ proc'[q].id = proc[q].id
                 /\ proc'[q].root = proc[q].root /\ proc'[q].at = proc[q].at
      BY <2>1, IdleType DEF Inspect, Record
    <2>4. QED
      BY <2>1, <2>2, <2>3 DEF Inspect, images, Session
  <1>2. CASE Decide(p)
    BY <1>2, <1>a, <1>b, <1>c DEF Decide, At, Exporting, Looking, archive
  <1>3. CASE UnlinkTar(p)
    BY <1>3, <1>a, <1>b, <1>c DEF UnlinkTar, At, Exporting, Looking
  <1>4. CASE UnlinkId(p)
    BY <1>4, <1>a, <1>b, <1>c DEF UnlinkId, At, Exporting, Looking
  <1>5. CASE BeginSave(p)
    <2>1. proc[p].ref \in Ref /\ image[proc[p].ref] \in Image /\ proc[p].id # 0
      BY <1>5 DEF BeginSave, At, Exporting, Looking
    <2>2. [proc[p] EXCEPT !.at = "saving", !.copy = image[proc[p].ref]] \in Record
      <3>1. proc[p] \in Record /\ "saving" \in Place
        BY DEF Place, Exporting
      <3>2. QED
        BY <2>1, <3>1, RecordUpdates
    <2>3. CASE /\ tar' = [by |-> p, holds |-> 0]
               /\ Set(p, [proc[p] EXCEPT !.at = "saving", !.copy = image[proc[p].ref]])
      BY <1>5, <1>a, <1>b, <2>1, <2>2, <2>3 DEF BeginSave, Record, Exporting, Session
    <2>4. CASE Leave(p) /\ UNCHANGED tar
      BY <1>5, <1>a, <1>d, <2>4, IdleType DEF BeginSave, Leave, Idle
    <2>5. QED
      BY <1>5, <2>3, <2>4 DEF BeginSave
  <1>6. CASE EndSave(p)
    <2>1. tar' \in [by : Proc \cup {NoProc}, holds : Image]
      BY <1>6 DEF EndSave, Record
    <2>2. [proc[p] EXCEPT !.at = "writeId", !.copy = 0] \in Record
      <3>1. proc[p] \in Record /\ "writeId" \in Place /\ 0 \in Image
        BY EngineAssumption DEF Place, Exporting, Image
      <3>2. QED
        BY <3>1, RecordUpdates
    <2>3. proc[p].ref \in Ref /\ proc[p].id # 0
      BY <1>6 DEF EndSave, At, Exporting
    <2>4. QED
      BY <1>6, <1>a, <1>b, <2>1, <2>2, <2>3 DEF EndSave, Record, Exporting, Session
  <1>7. CASE WriteId(p)
    <2>1. proc[p].id \in Image /\ (~proc[p].clean) \in BOOLEAN
      BY DEF Record
    <2>2. QED
      BY <1>7, <1>a, <1>c, <2>1 DEF WriteId, At, Exporting, Looking
  <1>8. CASE Convert(p)
    BY <1>8, <1>a, <1>d, IdleType DEF Convert, Leave, Idle, archive
  <1>9. QED
    BY <1>1, <1>2, <1>3, <1>4, <1>5, <1>6, <1>7, <1>8 DEF ExportStep

LEMMA GcType ==
  ASSUME TypeInv, NEW p \in Proc, GcStep(p)
  PROVE  TypeInv'
  <1> USE DEF TypeInv, TypeOK
  <1>a. ASSUME NEW rec \in Record, Set(p, rec),
               rec.at \in {"idle", "list", "remove"},
               UNCHANGED <<images, archive, worker>>, working' \subseteq working
        PROVE  TypeInv'
    BY <1>a DEF Set, images, archive, Exporting, Looking, Session
  <1>1. CASE \E force \in BOOLEAN : Scan(p, force)
    <2>1. PICK force \in BOOLEAN : Scan(p, force)
      BY <1>1
    <2>2. [Idle EXCEPT !.at = "list", !.force = force] \in Record
      BY IdleType DEF Record
    <2>3. QED
      BY <1>a, <2>1, <2>2 DEF Scan, Idle
  <1>2. CASE List(p)
    <2>1. [proc[p] EXCEPT !.at = "remove", !.seen = working] \in Record
      <3>1. proc[p] \in Record /\ "remove" \in Place
        BY DEF Place
      <3>2. QED
        BY <3>1, RecordUpdates
    <2>2. [proc[p] EXCEPT !.at = "remove", !.seen = working].at = "remove"
      BY DEF Record
    <2>3. QED
      BY <1>2, <1>a, <2>1, <2>2 DEF List
  <1>3. CASE Remove(p)
    BY <1>3, <1>a, IdleType DEF Remove, Leave, Idle
  <1>4. QED
    BY <1>1, <1>2, <1>3 DEF GcStep

LEMMA SessionType ==
  ASSUME TypeInv, NEW p \in Proc, SessionStep(p)
  PROVE  TypeInv'
  <1> USE DEF TypeInv, TypeOK
  <1>a. ASSUME NEW rec \in Record, Set(p, rec),
               rec.at \in Session => rec.root \in Root,
               rec.at \in Session \cup {"idle"},
               UNCHANGED <<image, working, archive>>, made' \in Image, mirror' \in Image,
               worker' \in [root : Root \cup {NoRoot}, label : Image, running : BOOLEAN]
        PROVE  TypeInv'
    <2>1. rec.at \notin Exporting \cup {"between", "stage"}
      BY <1>a DEF Exporting, Looking, Session
    <2>2. QED
      BY <1>a, <2>1 DEF Set, archive
  <1>b. NoWorker \in [root : Root \cup {NoRoot}, label : Image, running : BOOLEAN]
    BY EngineAssumption DEF Image, NoWorker
  <1>c. \A at \in Session : [proc[p] EXCEPT !.at = at] \in Record
    BY DEF Record
  <1>d. \A at \in Session : To(p, at) /\ proc[p].at \in Session =>
            \E rec \in Record : /\ Set(p, rec) /\ rec.at = at
                                /\ rec.root \in Root
    <2>1. \A at \in Session : /\ [proc[p] EXCEPT !.at = at].at = at
                              /\ [proc[p] EXCEPT !.at = at].root = proc[p].root
      BY DEF Record
    <2>2. QED
      BY <1>c, <2>1 DEF To
  <1>e. Leave(p) => \E rec \in Record : Set(p, rec) /\ rec.at = "idle" /\ "idle" \notin Session
    BY IdleType DEF Leave, Idle, Session
  <1>1. CASE \E root \in Root : Begin(p, root)
    <2>1. PICK root \in Root : Begin(p, root)
      BY <1>1
    <2>2. proc' \in [Proc -> Record]
      <3>1. \A c \in {"none", "same", "other"} :
              [Idle EXCEPT !.at = "ensure", !.root = root, !.company = c] \in Record
        BY IdleType DEF Record, Session
      <3>2. \A q \in Proc, c \in {"none", "same", "other"} :
              [proc[q] EXCEPT !.company = c] \in Record
        BY DEF Record
      <3>3. \A q \in Proc : proc[q].company \in {"none", "same", "other"}
        BY DEF Record
      <3>4. QED
        BY <2>1, <3>1, <3>2, <3>3 DEF Begin
    <2>3. \A q \in Proc :
            IF q = p THEN proc'[p].at = "ensure" /\ proc'[p].root = root
            ELSE /\ proc'[q].ref = proc[q].ref /\ proc'[q].id = proc[q].id
                 /\ proc'[q].root = proc[q].root /\ proc'[q].at = proc[q].at
      BY <2>1, IdleType DEF Begin, Record
    <2>4. QED
      BY <2>1, <2>2, <2>3 DEF Begin, images, archive, Exporting, Looking
  <1>2. CASE Ensure(p)
    <2>1. made' \in Image /\ mirror' \in Image
      BY <1>2, EngineAssumption DEF Ensure, Image
    <2>2. QED
      BY <1>2, <1>a, <1>d, <2>1 DEF Ensure, At, Session
  <1>3. CASE Resolve(p)
    <2>1. proc[p] \in Record /\ "look" \in Place
      BY DEF Place, Session
    <2>2. [proc[p] EXCEPT !.at = "look", !.id = mirror] \in Record
      BY <2>1, RecordUpdates
    <2>3. /\ [proc[p] EXCEPT !.at = "look", !.id = mirror].at = "look"
          /\ [proc[p] EXCEPT !.at = "look", !.id = mirror].root = proc[p].root
      BY <2>1 DEF Record
    <2>4. QED
      BY <1>3, <1>a, <2>2, <2>3 DEF Resolve, At, Session, images
  <1>4. CASE Look(p) \/ Compare(p) \/ IsRunning(p)
    BY <1>4, <1>a, <1>d DEF Look, Compare, IsRunning, At, Session, images
  <1>5. CASE Destroy(p)
    BY <1>5, <1>a, <1>b, <1>d DEF Destroy, At, Session, images
  <1>6. CASE Create(p)
    <2>1. Labelled(p) \in [root : Root \cup {NoRoot}, label : Image, running : BOOLEAN]
      BY DEF Labelled, Record
    <2>2. QED
      BY <1>6, <1>a, <1>d, <1>e, <2>1 DEF Create, At, Session, images
  <1>7. CASE Start(p)
    <2>1. worker' \in [root : Root \cup {NoRoot}, label : Image, running : BOOLEAN]
      BY <1>7 DEF Start
    <2>2. QED
      BY <1>7, <1>a, <1>d, <1>e, <2>1 DEF Start, At, Session, images
  <1>8. CASE Finish(p)
    BY <1>8, <1>a, <1>e DEF Finish, images
  <1>9. QED
    BY <1>1, <1>2, <1>3, <1>4, <1>5, <1>6, <1>7, <1>8 DEF SessionStep

LEMMA StopType ==
  ASSUME TypeInv, NEW p \in Proc, Stop(p)
  PROVE  TypeInv'
  <1> USE DEF TypeInv, TypeOK
  <1>1. <<p, "running">> \in Container /\ <<NoProc, "left">> \in Container
    BY DEF Container
  <1>2. \A q \in Proc, s \in SUBSET Container : [proc[q] EXCEPT !.seen = s] \in Record
    BY DEF Record
  <1>3. \A q \in Proc : proc[q].seen \in SUBSET Container
    BY DEF Record
  <1>4. proc' \in [Proc -> Record] /\ working' \subseteq Container
    BY <1>1, <1>2, <1>3, IdleType DEF Stop
  <1>5. \A q \in Proc :
            IF q = p THEN proc'[p] = Idle
            ELSE /\ proc'[q].ref = proc[q].ref /\ proc'[q].id = proc[q].id
                 /\ proc'[q].root = proc[q].root /\ proc'[q].at = proc[q].at
    BY DEF Stop, Record
  <1>6. QED
    BY <1>4, <1>5 DEF Stop, images, Exporting, Looking, Session, Idle

LEMMA OutsideType ==
  ASSUME TypeInv, Outside
  PROVE  TypeInv'
  <1> USE DEF TypeInv, TypeOK
  <1>1. CASE \E r \in Ref, id \in Image : Tag(r, id)
    <2>1. PICK r \in Ref, id \in Image : Tag(r, id)
      BY <1>1
    <2>2. \A q \in Proc : Elsewhere(q, r, <<>>) \in Record
      BY ElsewhereFacts
    <2>3. proc' \in [Proc -> Record]
      BY <2>1, <2>2 DEF Tag
    <2>4. \A q \in Proc : /\ proc'[q].ref = proc[q].ref /\ proc'[q].id = proc[q].id
                          /\ proc'[q].root = proc[q].root /\ proc'[q].at = proc[q].at
      BY <2>1, ElsewhereFacts DEF Tag
    <2>5. QED
      BY <2>1, <2>3, <2>4 DEF Tag, archive
  <1>2. CASE RemoveTar
    <2>1. proc' \in [Proc -> Record]
      <3>1. \A q \in Proc : /\ proc[q] \in Record
                            /\ (proc[q].clean /\ ~(proc[q].at \in Exporting)) \in BOOLEAN
        OBVIOUS
      <3>2. QED
        BY <1>2, <3>1, RecordUpdates DEF RemoveTar
    <2>2. \A q \in Proc : /\ proc'[q].ref = proc[q].ref /\ proc'[q].id = proc[q].id
                          /\ proc'[q].root = proc[q].root /\ proc'[q].at = proc[q].at
      BY <1>2 DEF RemoveTar, Record
    <2>3. NoTar \in [by : Proc \cup {NoProc}, holds : Image]
      BY EngineAssumption DEF Image, NoTar
    <2>4. QED
      BY <1>2, <2>1, <2>2, <2>3 DEF RemoveTar, images
  <1>3. CASE Rebuild
    BY <1>3, EngineAssumption DEF Rebuild, Image, archive
  <1>4. QED
    BY <1>1, <1>2, <1>3 DEF Outside

LEMMA StepType ==
  ASSUME TypeInv, [Next]_vars
  PROVE  TypeInv'
  <1>1. CASE UNCHANGED vars
    BY <1>1 DEF vars, images, archive, TypeInv, TypeOK
  <1>2. QED
    BY <1>1, Steps, BuildType, ExportType, GcType, SessionType, StopType, OutsideType

(* Every reachable state of Engine is well typed. *)
THEOREM TypeCorrect == EngineSpec => []TypeOK
  <1>1. EngineSpec => []TypeInv
    BY InitType, StepType, PTL DEF EngineSpec
  <1>2. TypeInv => TypeOK
    BY DEF TypeInv
  <1>3. QED
    BY <1>1, <1>2, PTL

-------------------------------------------------------------------------------
(* What each part of the system leaves alone.                              *)

Keeps(q) ==
    /\ proc'[q].at = proc[q].at /\ proc'[q].ref = proc[q].ref
    /\ proc'[q].root = proc[q].root /\ proc'[q].id = proc[q].id
    /\ proc'[q].copy = proc[q].copy /\ proc'[q].force = proc[q].force

(* A history that says less, and then of a reference that did not move.    *)
Informed(q) ==
    proc'[q].clean =>
        /\ proc[q].clean
        /\ proc[q].at \in Looking => image'[proc[q].ref] = image[proc[q].ref]

LEMMA BuildFrame ==
  ASSUME TypeInv, NEW p \in Proc, BuildStep(p)
  PROVE  /\ {proc[p].at, proc'[p].at} \subseteq {"idle", "between", "stage"}
         /\ \A q \in Proc \ {p} :
              Keeps(q) /\ Informed(q) /\ proc'[q].company = proc[q].company
         /\ UNCHANGED <<archive, worker>>
  <1> USE DEF TypeInv, TypeOK
  <1>1. CASE \E r \in Ref : Build(p, r)
    <2>1. PICK r \in Ref : Build(p, r)
      BY <1>1
    <2>2. \A q \in Proc \ {p} : proc'[q] = proc[q]
      BY <2>1 DEF Build, Set
    <2>3. proc[p].at = "idle" /\ proc'[p].at = "between"
      BY <2>1 DEF Build, Set, At, Idle
    <2>4. QED
      BY <2>1, <2>2, <2>3 DEF Build, images, Keeps, Informed
  <1>2. CASE BeginStage(p)
    <2>1. proc[p].at = "between" /\ proc'[p].at = "stage"
      BY <1>2 DEF BeginStage, At, Record
    <2>2. \A q \in Proc \ {p} :
            Keeps(q) /\ proc'[q].clean = proc[q].clean /\ proc'[q].company = proc[q].company
      BY <1>2 DEF BeginStage, Keeps, Record
    <2>3. QED
      BY <1>2, <2>1, <2>2 DEF BeginStage, images, Informed
  <1>3. CASE \E id \in Image : EndStage(p, id)
    <2>1. PICK id \in Image : EndStage(p, id)
      BY <1>3
    <2>2. proc[p].at = "stage" /\ proc'[p].at \in {"idle", "between"}
      <3>1. proc[p] \in Record
        OBVIOUS
      <3>2. proc'[p] = Idle \/ proc'[p] = [proc[p] EXCEPT !.at = "between", !.stage = @ + 1]
        BY <2>1 DEF EndStage
      <3>3. proc'[p] = Idle \/ proc'[p].at = "between"
        BY <3>1, <3>2 DEF Record
      <3>4. QED
        BY <2>1, <3>3 DEF EndStage, At, Idle
    <2>3. \A q \in Proc \ {p} : Keeps(q) /\ proc'[q].company = proc[q].company
      BY <2>1, ElsewhereFacts DEF EndStage, Keeps
    <2>4. ASSUME NEW q \in Proc \ {p}, proc'[q].clean
          PROVE  /\ proc[q].clean
                 /\ proc[q].at \in Looking => image'[proc[q].ref] = image[proc[q].ref]
      <3>1. CASE proc[p].stage = 3
        <4>1. proc'[q] = Elsewhere(q, proc[p].ref, <<p, "running">>)
          BY <2>1, <3>1 DEF EndStage
        <4>2. proc[q].clean /\ ~(proc[q].ref = proc[p].ref /\ proc[q].at \in Looking)
          BY <2>4, <4>1, ElsewhereFacts
        <4>3. image' = [image EXCEPT ![proc[p].ref] = id]
          BY <2>1, <3>1 DEF EndStage
        <4>4. proc[q].at \in Looking => proc[q].ref \in Ref
          BY DEF Exporting
        <4>5. QED
          BY <4>2, <4>3, <4>4
      <3>2. CASE proc[p].stage # 3
        <4>1. proc'[q] = Elsewhere(q, NoRef, <<p, "running">>) /\ image' = image
          BY <2>1, <3>2 DEF EndStage
        <4>2. QED
          BY <2>4, <4>1, ElsewhereFacts
      <3>3. QED
        BY <3>1, <3>2
    <2>5. QED
      BY <2>1, <2>2, <2>3, <2>4 DEF EndStage, Informed
  <1>4. CASE FailStage(p)
    <2>1. proc[p].at = "stage" /\ proc'[p].at = "idle"
      BY <1>4 DEF FailStage, At, Idle
    <2>2. \A q \in Proc \ {p} :
            /\ Keeps(q) /\ proc'[q].company = proc[q].company
            /\ proc'[q].clean => proc[q].clean
      BY <1>4, ElsewhereFacts DEF FailStage, Keeps
    <2>3. QED
      BY <1>4, <2>1, <2>2 DEF FailStage, images, Informed
  <1>5. QED
    BY <1>1, <1>2, <1>3, <1>4 DEF BuildStep

LEMMA GcFrame ==
  ASSUME TypeInv, NEW p \in Proc, GcStep(p)
  PROVE  /\ {proc[p].at, proc'[p].at} \subseteq {"idle", "list", "remove"}
         /\ \A q \in Proc \ {p} : proc'[q] = proc[q]
         /\ UNCHANGED <<images, archive, worker>>
  <1> USE DEF TypeInv, TypeOK
  <1>1. CASE \E force \in BOOLEAN : Scan(p, force)
    BY <1>1 DEF Scan, Set, At, Idle
  <1>2. CASE List(p)
    BY <1>2 DEF List, Set, At, Record
  <1>3. CASE Remove(p)
    BY <1>3 DEF Remove, Leave, Set, At, Idle
  <1>4. QED
    BY <1>1, <1>2, <1>3 DEF GcStep

LEMMA SessionFrame ==
  ASSUME TypeInv, NEW p \in Proc, SessionStep(p)
  PROVE  /\ {proc[p].at, proc'[p].at} \subseteq Session \cup {"idle"}
         /\ \A q \in Proc \ {p} :
              /\ Keeps(q) /\ proc'[q].clean = proc[q].clean
              /\ proc'[q].seen = proc[q].seen /\ proc'[q].late = proc[q].late
         /\ UNCHANGED <<image, working, archive>>
  <1> USE DEF TypeInv, TypeOK
  <1>a. ASSUME Leave(p) \/ \E at \in Session : To(p, at),
               proc[p].at \in Session
        PROVE  /\ {proc[p].at, proc'[p].at} \subseteq Session \cup {"idle"}
               /\ \A q \in Proc \ {p} : proc'[q] = proc[q]
    <2>1. CASE Leave(p)
      BY <1>a, <2>1 DEF Leave, Set, Idle
    <2>2. CASE \E at \in Session : To(p, at)
      BY <1>a, <2>2 DEF To, Set, Record
    <2>3. QED
      BY <1>a, <2>1, <2>2
  <1>b. ASSUME \A q \in Proc \ {p} : proc'[q] = proc[q]
        PROVE  \A q \in Proc \ {p} :
                 /\ Keeps(q) /\ proc'[q].clean = proc[q].clean
                 /\ proc'[q].seen = proc[q].seen /\ proc'[q].late = proc[q].late
    BY <1>b DEF Keeps
  <1>1. CASE \E root \in Root : Begin(p, root)
    <2>1. PICK root \in Root : Begin(p, root)
      BY <1>1
    <2>2. proc[p].at = "idle" /\ proc'[p].at = "ensure"
      BY <2>1, IdleType DEF Begin, At, Record
    <2>3. \A q \in Proc \ {p} :
            /\ Keeps(q) /\ proc'[q].clean = proc[q].clean
            /\ proc'[q].seen = proc[q].seen /\ proc'[q].late = proc[q].late
      <3>1. \A q \in Proc \ {p} : \E c : proc'[q] = [proc[q] EXCEPT !.company = c]
        BY <2>1 DEF Begin
      <3>2. ASSUME NEW q \in Proc \ {p}
            PROVE  /\ Keeps(q) /\ proc'[q].clean = proc[q].clean
                   /\ proc'[q].seen = proc[q].seen /\ proc'[q].late = proc[q].late
        <4>1. PICK c : proc'[q] = [proc[q] EXCEPT !.company = c]
          BY <3>1
        <4>2. proc[q] \in Record
          OBVIOUS
        <4>3. QED
          BY <4>1, <4>2 DEF Keeps, Record
      <3>3. QED
        BY <3>2
    <2>4. QED
      BY <2>1, <2>2, <2>3 DEF Begin, images, Session
  <1>2. CASE Ensure(p)
    BY <1>2, <1>a, <1>b DEF Ensure, At, Session
  <1>3. CASE Resolve(p)
    <2>1. /\ {proc[p].at, proc'[p].at} \subseteq Session
          /\ \A q \in Proc \ {p} : proc'[q] = proc[q]
      BY <1>3 DEF Resolve, Set, At, Session, Record
    <2>2. QED
      BY <1>3, <1>b, <2>1 DEF Resolve, images
  <1>4. CASE Look(p) \/ Compare(p) \/ IsRunning(p)
    BY <1>4, <1>a, <1>b DEF Look, Compare, IsRunning, At, Session, images
  <1>5. CASE Destroy(p)
    BY <1>5, <1>a, <1>b DEF Destroy, At, Session, images
  <1>6. CASE Create(p)
    BY <1>6, <1>a, <1>b DEF Create, At, Session, images
  <1>7. CASE Start(p)
    BY <1>7, <1>a, <1>b DEF Start, At, Session, images
  <1>8. CASE Finish(p)
    BY <1>8, <1>a, <1>b DEF Finish, At, Session, images
  <1>9. QED
    BY <1>1, <1>2, <1>3, <1>4, <1>5, <1>6, <1>7, <1>8 DEF SessionStep

LEMMA ExportFrame ==
  ASSUME TypeInv, NEW p \in Proc, ExportStep(p)
  PROVE  /\ {proc[p].at, proc'[p].at} \subseteq Exporting \cup {"idle"}
         /\ \A q \in Proc \ {p} :
              /\ Keeps(q) /\ proc'[q].company = proc[q].company
              /\ proc'[q].seen = proc[q].seen /\ proc'[q].late = proc[q].late
         /\ UNCHANGED <<images, working, worker>>
  <1> USE DEF TypeInv, TypeOK
  <1>a. ASSUME Leave(p) \/ \E at \in Exporting : To(p, at),
               proc[p].at \in Exporting
        PROVE  /\ {proc[p].at, proc'[p].at} \subseteq Exporting \cup {"idle"}
               /\ \A q \in Proc \ {p} : proc'[q] = proc[q]
    <2>1. CASE Leave(p)
      BY <1>a, <2>1 DEF Leave, Set, Idle
    <2>2. CASE \E at \in Exporting : To(p, at)
      BY <1>a, <2>2 DEF To, Set, Record
    <2>3. QED
      BY <1>a, <2>1, <2>2
  <1>b. ASSUME \A q \in Proc \ {p} : proc'[q] = proc[q]
        PROVE  \A q \in Proc \ {p} :
                 /\ Keeps(q) /\ proc'[q].company = proc[q].company
                 /\ proc'[q].seen = proc[q].seen /\ proc'[q].late = proc[q].late
    BY <1>b DEF Keeps
  <1>1. CASE \E r \in Ref : Inspect(p, r)
    <2>1. PICK r \in Ref : Inspect(p, r)
      BY <1>1
    <2>2. proc[p].at = "idle" /\ proc'[p].at = "inspected"
      BY <2>1, IdleType DEF Inspect, At, Record
    <2>3. \A q \in Proc \ {p} :
            /\ Keeps(q) /\ proc'[q].company = proc[q].company
            /\ proc'[q].seen = proc[q].seen /\ proc'[q].late = proc[q].late
      <3>1. \A q \in Proc \ {p} : \E b : proc'[q] = [proc[q] EXCEPT !.clean = b]
        BY <2>1 DEF Inspect
      <3>2. ASSUME NEW q \in Proc \ {p}
            PROVE  /\ Keeps(q) /\ proc'[q].company = proc[q].company
                   /\ proc'[q].seen = proc[q].seen /\ proc'[q].late = proc[q].late
        <4>1. PICK b : proc'[q] = [proc[q] EXCEPT !.clean = b]
          BY <3>1
        <4>2. proc[q] \in Record
          OBVIOUS
        <4>3. QED
          BY <4>1, <4>2 DEF Keeps, Record
      <3>3. QED
        BY <3>2
    <2>4. QED
      BY <2>1, <2>2, <2>3 DEF Inspect, Exporting, Looking
  <1>2. CASE Decide(p)
    BY <1>2, <1>a, <1>b DEF Decide, At, Exporting, Looking
  <1>3. CASE UnlinkTar(p)
    BY <1>3, <1>a, <1>b DEF UnlinkTar, At, Exporting, Looking
  <1>4. CASE UnlinkId(p)
    BY <1>4, <1>a, <1>b DEF UnlinkId, At, Exporting, Looking
  <1>5. CASE BeginSave(p)
    <2>1. CASE Leave(p)
      BY <1>5, <1>a, <1>b, <2>1 DEF BeginSave, At, Exporting, Looking
    <2>2. CASE Set(p, [proc[p] EXCEPT !.at = "saving", !.copy = image[proc[p].ref]])
      <3>1. /\ {proc[p].at, proc'[p].at} \subseteq Exporting
            /\ \A q \in Proc \ {p} : proc'[q] = proc[q]
        BY <1>5, <2>2 DEF BeginSave, Set, At, Exporting, Looking, Record
      <3>2. QED
        BY <1>5, <1>b, <3>1 DEF BeginSave
    <2>3. QED
      BY <1>5, <2>1, <2>2 DEF BeginSave
  <1>6. CASE EndSave(p)
    <2>1. /\ {proc[p].at, proc'[p].at} \subseteq Exporting
          /\ \A q \in Proc \ {p} : proc'[q] = proc[q]
      BY <1>6 DEF EndSave, Set, At, Exporting, Record
    <2>2. QED
      BY <1>6, <1>b, <2>1 DEF EndSave
  <1>7. CASE WriteId(p)
    BY <1>7, <1>a, <1>b DEF WriteId, At, Exporting, Looking
  <1>8. CASE Convert(p)
    BY <1>8, <1>a, <1>b DEF Convert, At, Exporting, Looking
  <1>9. QED
    BY <1>1, <1>2, <1>3, <1>4, <1>5, <1>6, <1>7, <1>8 DEF ExportStep

LEMMA StopFrame ==
  ASSUME TypeInv, NEW p \in Proc, Stop(p)
  PROVE  /\ proc'[p] = Idle
         /\ \A q \in Proc \ {p} :
              /\ Keeps(q) /\ proc'[q].company = proc[q].company
              /\ proc'[q].clean = proc[q].clean /\ proc'[q].late = proc[q].late
         /\ UNCHANGED <<images, tar, sidecar, worker>>
  BY DEF TypeInv, TypeOK, Stop, Keeps, Record

LEMMA OutsideFrame ==
  ASSUME TypeInv, Outside
  PROVE  /\ \A q \in Proc :
              /\ Keeps(q) /\ proc'[q].company = proc[q].company
              /\ proc'[q].seen \subseteq proc[q].seen /\ proc'[q].late = proc[q].late
         /\ \/ RemoveTar
            \/ (\A q \in Proc : Informed(q)) /\ UNCHANGED archive
         /\ UNCHANGED <<working, worker>>
  <1> USE DEF TypeInv, TypeOK
  <1>1. CASE \E r \in Ref, id \in Image : Tag(r, id)
    <2>1. PICK r \in Ref, id \in Image : Tag(r, id)
      BY <1>1
    <2>2. \A q \in Proc : proc'[q] = Elsewhere(q, r, <<>>)
      BY <2>1 DEF Tag
    <2>3. \A q \in Proc :
            /\ Keeps(q) /\ proc'[q].company = proc[q].company
            /\ proc'[q].seen \subseteq proc[q].seen /\ proc'[q].late = proc[q].late
      BY <2>2, ElsewhereFacts DEF Keeps
    <2>4. ASSUME NEW q \in Proc, proc'[q].clean
          PROVE  /\ proc[q].clean
                 /\ proc[q].at \in Looking => image'[proc[q].ref] = image[proc[q].ref]
      <3>1. proc[q].clean /\ ~(proc[q].ref = r /\ proc[q].at \in Looking)
        BY <2>2, <2>4, ElsewhereFacts
      <3>2. proc[q].at \in Looking => proc[q].ref \in Ref
        BY DEF Exporting
      <3>3. QED
        BY <2>1, <3>1, <3>2 DEF Tag
    <2>5. QED
      BY <2>1, <2>3, <2>4 DEF Tag, Informed
  <1>2. CASE RemoveTar
    <2>1. \A q \in Proc :
            /\ Keeps(q) /\ proc'[q].company = proc[q].company
            /\ proc'[q].seen \subseteq proc[q].seen /\ proc'[q].late = proc[q].late
      BY <1>2 DEF RemoveTar, Keeps, Record
    <2>2. QED
      BY <1>2, <2>1 DEF RemoveTar
  <1>3. CASE Rebuild
    BY <1>3 DEF Rebuild, Keeps, Informed
  <1>4. QED
    BY <1>1, <1>2, <1>3 DEF Outside

-------------------------------------------------------------------------------
(* What exports know.                                                      *)

LEMMA ExportsKept ==
  ASSUME TypeInv, Exports, UNCHANGED archive,
         \A q \in Proc : proc[q].at \in Exporting \/ proc'[q].at \in Exporting
                         => Keeps(q) /\ Informed(q)
  PROVE  Exports'
  <1> USE DEF Exporting, At
  <1>1. Sole'
    BY DEF Exports, Sole, Keeps, Informed, archive, TypeInv, TypeOK
  <1>2. Achieved'
    <2>1. ASSUME NEW q \in Proc, proc'[q].clean, proc'[q].at \in Exporting
          PROVE  /\ Keeps(q) /\ proc[q].clean
                 /\ proc[q].at \in Looking => image'[proc[q].ref] = image[proc[q].ref]
      BY <2>1 DEF Informed
    <2>2. QED
      BY <2>1 DEF Exports, Achieved, Keeps, archive
  <1>3. Archived'
    <2>1. \A q \in Proc : /\ At(q, "unlinkId") => At(q, "unlinkId")'
                          /\ proc'[q].at \in {"save", "saving", "writeId"}
                             => proc[q].at \in {"save", "saving", "writeId"}
      BY DEF Keeps, Looking
    <2>2. QED
      BY <2>1 DEF Exports, Archived, archive
  <1>4. ExportIsImage'
    BY DEF Exports, ExportIsImage, Keeps, archive
  <1>5. QED
    BY <1>1, <1>2, <1>3, <1>4 DEF Exports

(* With an archive that nobody disturbed, or a history that nobody spoilt, *)
(* an export is the only one.                                              *)
LEMMA Alone ==
  ASSUME Exports, NEW p \in Proc, proc[p].at \in Exporting,
         NEW q \in Proc \ {p}, proc[q].at \in Exporting
  PROVE  disturbed /\ ~proc[p].clean /\ ~proc[q].clean
  BY DEF Exports, Sole

LEMMA InspectExports ==
  ASSUME TypeInv, Exports, NEW p \in Proc, NEW r \in Ref, Inspect(p, r)
  PROVE  Exports'
  <1> DEFINE others == {q \in Proc \ {p} : proc[q].at \in Exporting}
  <1>1. /\ proc'[p].at = "inspected" /\ proc'[p].ref = r /\ proc'[p].id = image[r]
        /\ proc'[p].clean = (others = {})
    BY IdleType DEF Inspect, TypeInv, TypeOK, Record
  <1>2. ASSUME NEW q \in Proc \ {p}
        PROVE  /\ Keeps(q)
               /\ proc'[q].clean => proc[q].clean /\ q \notin others
    <2>1. PICK b \in BOOLEAN : /\ proc'[q] = [proc[q] EXCEPT !.clean = b]
                               /\ b => proc[q].clean /\ q \notin others
      BY DEF Inspect, TypeInv, TypeOK, Record
    <2>2. proc[q] \in Record
      BY DEF TypeInv, TypeOK
    <2>3. QED
      BY <2>1, <2>2 DEF Keeps, Record
  <1>3. /\ disturbed' = (disturbed \/ others # {})
        /\ UNCHANGED <<image, tar, sidecar>> /\ proc[p].at = "idle"
    BY DEF Inspect, images, At
  <1>4. Sole'
    <2>1. ASSUME NEW a \in Proc, NEW q \in Proc, a # q,
                 proc'[a].at \in Exporting, proc'[q].at \in Exporting
          PROVE  disturbed' /\ ~proc'[a].clean
      <3>1. a # p => proc[a].at \in Exporting /\ a \in others
        BY <1>2, <2>1 DEF Keeps
      <3>2. q # p => proc[q].at \in Exporting /\ q \in others
        BY <1>2, <2>1 DEF Keeps
      <3>3. QED
        BY <1>1, <1>2, <1>3, <2>1, <3>1, <3>2
    <2>2. QED
      BY <2>1 DEF Sole
  <1>5. Achieved'
    <2>1. ASSUME NEW q \in Proc \ {p}, proc'[q].clean
          PROVE  proc'[q].at \notin Exporting
      BY <1>2, <2>1 DEF Keeps
    <2>2. QED
      BY <1>1, <1>3, <2>1 DEF Achieved, Exporting, Looking, At
  <1>6. ASSUME ~disturbed'
        PROVE  ~disturbed /\ \A q \in Proc \ {p} : proc'[q].at \notin Exporting
                                                   /\ proc[q].at \notin Exporting
    BY <1>2, <1>3, <1>6 DEF Keeps
  <1>7. Archived' /\ ExportIsImage'
    BY <1>1, <1>3, <1>6 DEF Exports, Archived, ExportIsImage, Exporting, Looking, At
  <1>8. QED
    BY <1>4, <1>5, <1>7 DEF Exports

(* An export's step, when it is no news to the others.                     *)
LEMMA ExportsOfOne ==
  ASSUME TypeInv, Exports, NEW p \in Proc, proc[p].at \in Exporting,
         proc'[p].at \in Exporting => proc'[p].clean = proc[p].clean,
         \A q \in Proc \ {p} : proc'[q] = proc[q],
         UNCHANGED image, disturbed' \in {disturbed, ~proc[p].clean},
         proc'[p].at \in Exporting => proc'[p].id = proc[p].id /\ proc'[p].ref = proc[p].ref,
         proc'[p].at \in Exporting /\ proc'[p].clean =>
            /\ proc'[p].at \in Looking => proc[p].at \in Looking
            /\ proc'[p].at = "saving" => proc'[p].copy = proc'[p].id /\ tar'.by = p
            /\ proc'[p].at = "writeId" => tar'.holds = proc'[p].id,
         ~disturbed' =>
            /\ sidecar' # 0 => tar'.holds = sidecar' \/ proc'[p].at = "unlinkId"
            /\ proc'[p].at \in {"save", "saving", "writeId"} => sidecar' = 0
            /\ proc'[p].at = "convert" => tar'.holds = proc'[p].id
  PROVE  Exports'
  <1>1. ASSUME NEW q \in Proc \ {p}, proc[q].at \in Exporting
        PROVE  disturbed' /\ disturbed /\ ~proc[p].clean /\ ~proc[q].clean
    BY <1>1, Alone
  <1>2. Sole'
    <2>1. ASSUME NEW a \in Proc, NEW q \in Proc, a # q,
                 proc'[a].at \in Exporting, proc'[q].at \in Exporting
          PROVE  disturbed' /\ ~proc'[a].clean
      <3>1. CASE a = p
        BY <1>1, <2>1, <3>1
      <3>2. CASE a # p
        BY <1>1, <2>1, <3>2
      <3>3. QED
        BY <3>1, <3>2
    <2>2. QED
      BY <2>1 DEF Sole
  <1>3. Achieved'
    <2>1. ASSUME NEW q \in Proc \ {p}, proc'[q].clean
          PROVE  proc'[q].at \notin Exporting
      BY <1>1, <2>1
    <2>2. proc[p].clean /\ proc[p].at \in Looking => image[proc[p].ref] = proc[p].id
      BY DEF Exports, Achieved
    <2>3. QED
      BY <2>1, <2>2 DEF Achieved, Exporting, Looking, At
  <1>4. Archived'
    BY <1>1 DEF Archived, Exporting, Looking, At
  <1>5. ExportIsImage'
    BY <1>1 DEF ExportIsImage, Exporting, At
  <1>6. QED
    BY <1>2, <1>3, <1>4, <1>5 DEF Exports

LEMMA ExportExports ==
  ASSUME TypeInv, Exports, NEW p \in Proc, ExportStep(p)
  PROVE  Exports'
  <1> USE DEF TypeInv, TypeOK
  <1>a. proc[p] \in Record /\ Idle.at = "idle" /\ Idle.at \notin Exporting
    BY DEF Idle, Exporting, Looking
  <1>b. ASSUME NEW at, To(p, at)
        PROVE  /\ proc'[p].at = at /\ proc'[p].id = proc[p].id
               /\ proc'[p].ref = proc[p].ref /\ proc'[p].clean = proc[p].clean
               /\ proc'[p].copy = proc[p].copy
               /\ \A q \in Proc \ {p} : proc'[q] = proc[q]
    BY <1>a, <1>b DEF To, Set, Record
  <1>c. ASSUME Leave(p)
        PROVE  proc'[p] = Idle /\ \A q \in Proc \ {p} : proc'[q] = proc[q]
    BY <1>c DEF Leave, Set
  <1>d. ASSUME ~disturbed, proc[p].at \in Exporting, NEW q \in Proc, At(q, "unlinkId")
        PROVE  q = p
    BY <1>d, Alone DEF At, Exporting, Looking
  <1>1. CASE \E r \in Ref : Inspect(p, r)
    BY <1>1, InspectExports
  <1>2. CASE Decide(p)
    <2> DEFINE next == IF tar = NoTar THEN "save"
                       ELSE IF sidecar = proc[p].id THEN "convert" ELSE "unlinkTar"
    <2>1. /\ proc[p].at = "inspected" /\ To(p, next)
          /\ UNCHANGED <<image, tar, sidecar, disturbed>>
      BY <1>2 DEF Decide, At, images, archive
    <2>2. /\ proc[p].at \in Exporting /\ proc[p].at \in Looking /\ proc[p].id # 0
          /\ next \in {"save", "convert", "unlinkTar"}
      BY <2>1 DEF Exporting, Looking
    <2>3. ~disturbed /\ sidecar # 0 => tar.holds = sidecar
      BY <1>d, <2>1, <2>2 DEF Exports, Archived, At
    <2>4. ~disturbed /\ next = "save" => sidecar = 0
      BY <2>2, <2>3 DEF NoTar
    <2>5. ~disturbed /\ next = "convert" => tar.holds = proc[p].id
      BY <2>2, <2>3
    <2> HIDE DEF next
    <2>6. QED
      BY <1>b, <2>1, <2>2, <2>3, <2>4, <2>5, ExportsOfOne
  <1>3. CASE UnlinkTar(p)
    <2>1. /\ proc[p].at = "unlinkTar" /\ To(p, "unlinkId")
          /\ UNCHANGED <<image, sidecar, disturbed>>
      BY <1>3 DEF UnlinkTar, At, images
    <2>2. proc[p].at \in Looking /\ proc[p].at \in Exporting
      BY <2>1 DEF Looking, Exporting
    <2>3. QED
      BY <1>b, <2>1, <2>2, ExportsOfOne
  <1>4. CASE UnlinkId(p)
    <2>1. /\ proc[p].at = "unlinkId" /\ To(p, "save") /\ sidecar' = 0
          /\ UNCHANGED <<image, tar, disturbed>>
      BY <1>4 DEF UnlinkId, At, images
    <2>2. proc[p].at \in Looking /\ proc[p].at \in Exporting
      BY <2>1 DEF Looking, Exporting
    <2>3. QED
      BY <1>b, <2>1, <2>2, ExportsOfOne
  <1>5. CASE BeginSave(p)
    <2>1. proc[p].at = "save" /\ UNCHANGED <<image, sidecar, disturbed>>
      BY <1>5 DEF BeginSave, At, images
    <2>2. proc[p].at \in Looking /\ proc[p].at \in Exporting
      BY <2>1 DEF Looking, Exporting
    <2>3. ~disturbed => sidecar = 0
      BY <2>1 DEF Exports, Archived
    <2>4. CASE Leave(p) /\ UNCHANGED tar
      BY <1>a, <1>c, <2>1, <2>2, <2>3, <2>4, ExportsOfOne
    <2>5. CASE /\ tar' = [by |-> p, holds |-> 0]
               /\ Set(p, [proc[p] EXCEPT !.at = "saving", !.copy = image[proc[p].ref]])
      <3>1. /\ proc'[p].at = "saving" /\ proc'[p].id = proc[p].id
            /\ proc'[p].ref = proc[p].ref /\ proc'[p].clean = proc[p].clean
            /\ proc'[p].copy = image[proc[p].ref]
            /\ \A q \in Proc \ {p} : proc'[q] = proc[q]
        BY <1>a, <2>5 DEF Set, Record
      <3>2. proc[p].clean => image[proc[p].ref] = proc[p].id
        BY <2>2 DEF Exports, Achieved
      <3>3. tar'.by = p /\ "saving" \notin Looking
        BY <2>5 DEF Looking
      <3>4. QED
        BY <2>1, <2>2, <2>3, <3>1, <3>2, <3>3, ExportsOfOne
    <2>6. QED
      BY <1>5, <2>4, <2>5 DEF BeginSave
  <1>6. CASE EndSave(p)
    <2>1. /\ proc[p].at = "saving"
          /\ tar' = IF tar.by = p THEN [by |-> NoProc, holds |-> proc[p].copy] ELSE tar
          /\ UNCHANGED <<image, sidecar, disturbed>>
      BY <1>6 DEF EndSave, At, images
    <2>2. /\ proc'[p].at = "writeId" /\ proc'[p].id = proc[p].id
          /\ proc'[p].ref = proc[p].ref /\ proc'[p].clean = proc[p].clean
          /\ \A q \in Proc \ {p} : proc'[q] = proc[q]
      BY <1>6, <1>a DEF EndSave, Set, Record
    <2>3. proc[p].at \in Exporting /\ "writeId" \notin Looking
      BY <2>1 DEF Looking, Exporting
    <2>4. ~disturbed => sidecar = 0
      BY <2>1 DEF Exports, Archived
    <2>5. proc[p].clean => tar'.holds = proc[p].id
      BY <2>1 DEF Exports, Achieved, At
    <2>6. QED
      BY <2>1, <2>2, <2>3, <2>4, <2>5, ExportsOfOne
  <1>7. CASE WriteId(p)
    <2>1. /\ proc[p].at = "writeId" /\ To(p, "convert")
          /\ sidecar' = proc[p].id /\ disturbed' = ~proc[p].clean
          /\ UNCHANGED <<image, tar>>
      BY <1>7 DEF WriteId, At, images
    <2>2. proc[p].at \in Exporting /\ "convert" \notin Looking
      BY <2>1 DEF Looking, Exporting
    <2>3. proc[p].clean => tar.holds = proc[p].id
      BY <2>1 DEF Exports, Achieved, At
    <2>4. ~disturbed' => tar'.holds = proc[p].id /\ tar'.holds = sidecar'
      BY <2>1, <2>3
    <2>5. disturbed' \in {disturbed, ~proc[p].clean}
      BY <2>1
    <2>6. /\ proc'[p].at = "convert" /\ proc'[p].id = proc[p].id
          /\ proc'[p].ref = proc[p].ref /\ proc'[p].clean = proc[p].clean
          /\ \A q \in Proc \ {p} : proc'[q] = proc[q]
      BY <1>b, <2>1
    <2>7. QED
      BY <2>1, <2>2, <2>4, <2>5, <2>6, ExportsOfOne
  <1>8. CASE Convert(p)
    <2>1. /\ proc[p].at = "convert" /\ Leave(p)
          /\ UNCHANGED <<image, tar, sidecar, disturbed>>
      BY <1>8 DEF Convert, At, images, archive
    <2>2. proc[p].at \in Exporting
      BY <2>1 DEF Exporting
    <2>3. ~disturbed /\ sidecar # 0 => tar.holds = sidecar
      BY <1>d, <2>1, <2>2 DEF Exports, Archived, At
    <2>4. QED
      BY <1>a, <1>c, <2>1, <2>2, <2>3, ExportsOfOne
  <1>9. QED
    BY <1>1, <1>2, <1>3, <1>4, <1>5, <1>6, <1>7, <1>8 DEF ExportStep

LEMMA StopExports ==
  ASSUME TypeInv, Exports, NEW p \in Proc, Stop(p)
  PROVE  Exports'
  <1>1. /\ proc'[p].at \notin Exporting
        /\ \A q \in Proc \ {p} : Keeps(q) /\ proc'[q].clean = proc[q].clean
        /\ UNCHANGED <<image, tar, sidecar>>
        /\ disturbed' = (disturbed \/ At(p, "unlinkId"))
    BY StopFrame DEF Stop, Idle, Exporting, Looking, images
  <1>2. Sole'
    BY <1>1 DEF Exports, Sole, Keeps
  <1>3. Achieved'
    BY <1>1 DEF Exports, Achieved, Keeps, Exporting, Looking, At
  <1>4. Archived'
    BY <1>1 DEF Exports, Archived, Keeps, Exporting, Looking, At
  <1>5. ExportIsImage'
    BY <1>1 DEF Exports, ExportIsImage, Keeps, Exporting, At
  <1>6. QED
    BY <1>2, <1>3, <1>4, <1>5 DEF Exports

LEMMA RemoveTarExports ==
  ASSUME TypeInv, Exports, RemoveTar
  PROVE  Exports'
  <1>1. disturbed' /\ \A q \in Proc : proc'[q].at = proc[q].at
                                      /\ (proc'[q].clean => proc'[q].at \notin Exporting)
    BY DEF RemoveTar, TypeInv, TypeOK, Record
  <1>2. QED
    BY <1>1 DEF Exports, Sole, Achieved, Archived, ExportIsImage, Exporting, Looking, At

LEMMA ExportsStep ==
  ASSUME TypeInv, Exports, [Next]_vars
  PROVE  Exports'
  <1>1. ASSUME NEW p \in Proc, BuildStep(p) \/ GcStep(p) \/ SessionStep(p)
        PROVE  Exports'
    <2>1. proc[p].at \notin Exporting /\ proc'[p].at \notin Exporting
      BY <1>1, BuildFrame, GcFrame, SessionFrame DEF Exporting, Looking, Session
    <2>2. \A q \in Proc \ {p} : Keeps(q) /\ Informed(q)
      BY <1>1, BuildFrame, GcFrame, SessionFrame DEF Keeps, Informed, images
    <2>3. UNCHANGED archive
      BY <1>1, BuildFrame, GcFrame, SessionFrame
    <2>4. QED
      BY <2>1, <2>2, <2>3, ExportsKept
  <1>2. CASE Outside
    BY <1>2, OutsideFrame, RemoveTarExports, ExportsKept
  <1>3. CASE UNCHANGED vars
    BY <1>3, ExportsKept DEF vars, Keeps, Informed, images, archive
  <1>4. QED
    BY <1>1, <1>2, <1>3, Steps, ExportExports, StopExports

-------------------------------------------------------------------------------
(* What sessions know.                                                     *)

LEMMA SessionsKept ==
  ASSUME TypeInv, Sessions, worker' = worker,
         \A q \in Proc : proc[q].at \in Session \/ proc'[q].at \in Session
                         => Keeps(q) /\ proc'[q].company = proc[q].company
  PROVE  Sessions'
  <1>1. \A q \in Proc : {proc[q].at, proc'[q].at} \cap {"status", "start", "exec"} # {}
                        => proc[q].at \in Session \/ proc'[q].at \in Session
    BY DEF Session
  <1>2. ASSUME NEW q \in Proc, proc'[q].at \in {"status", "start", "exec"}
        PROVE  /\ proc[q].at = proc'[q].at /\ proc[q].root = proc'[q].root
               /\ proc[q].id = proc'[q].id /\ proc[q].company = proc'[q].company
    BY <1>1, <1>2 DEF Keeps
  <1>3. ASSUME NEW a \in Proc, NEW q \in Proc, a # q,
               proc'[a].at \in Session, proc'[q].at \in Session
        PROVE  /\ proc'[a].company # "none"
               /\ proc'[a].root # proc'[q].root => proc'[a].company = "other"
    BY <1>3 DEF Sessions, Keeps
  <1>4. QED
    BY <1>2, <1>3 DEF Sessions, Matches, At

LEMMA BeginSessions ==
  ASSUME TypeInv, Sessions, NEW p \in Proc, NEW root \in Root, Begin(p, root)
  PROVE  Sessions'
  <1> DEFINE others == {q \in Proc \ {p} : proc[q].at \in Session}
             company == IF others = {} THEN "none"
                        ELSE IF \A o \in others : proc[o].root = root THEN "same"
                        ELSE "other"
  <1>1. /\ proc'[p].at = "ensure" /\ proc'[p].root = root /\ proc'[p].company = company
        /\ worker' = worker
    BY IdleType DEF Begin, TypeInv, TypeOK, Record
  <1>2. ASSUME NEW q \in Proc \ {p}
        PROVE  /\ Keeps(q)
               /\ q \notin others => proc'[q].company = proc[q].company
               /\ q \in others => proc'[q].company # "none"
               /\ proc[q].company = "other" => proc'[q].company = "other"
               /\ q \in others /\ proc[q].root # root => proc'[q].company = "other"
    <2> DEFINE c == IF q \notin others THEN proc[q].company
                    ELSE IF proc[q].company = "other" \/ proc[q].root # root
                         THEN "other" ELSE "same"
    <2>1. proc'[q] = [proc[q] EXCEPT !.company = c] /\ proc[q] \in Record
      BY DEF Begin, TypeInv, TypeOK
    <2>2. proc'[q].company = c /\ Keeps(q)
      <3> HIDE DEF c, others
      <3>1. QED
        BY <2>1 DEF Keeps, Record
    <2>3. QED
      BY <2>2
  <1>3. ASSUME NEW a \in Proc, NEW q \in Proc, a # q,
               proc'[a].at \in Session, proc'[q].at \in Session
        PROVE  /\ proc'[a].company # "none"
               /\ proc'[a].root # proc'[q].root => proc'[a].company = "other"
    <2>1. a # p => a \in others /\ proc'[a].root = proc[a].root
      BY <1>2, <1>3 DEF Keeps
    <2>2. q # p => q \in others /\ proc'[q].root = proc[q].root
      BY <1>2, <1>3 DEF Keeps
    <2>3. CASE a = p
      BY <1>1, <1>3, <2>2, <2>3
    <2>4. CASE q = p
      BY <1>1, <1>2, <1>3, <2>1, <2>4
    <2>5. CASE a # p /\ q # p
      <3>1. proc[a].root # proc[q].root => proc[a].company = "other"
        BY <1>3, <2>1, <2>2, <2>5 DEF Sessions
      <3>2. QED
        BY <1>2, <2>1, <2>2, <2>5, <3>1
    <2>6. QED
      BY <2>3, <2>4, <2>5
  <1>4. ASSUME NEW q \in Proc, proc'[q].at \in {"status", "start", "exec"}
        PROVE  /\ q # p /\ Keeps(q) /\ proc'[q].company # "none"
               /\ proc'[q].company # "other" => proc[q].company # "other"
    BY <1>1, <1>2, <1>4 DEF Keeps, Session
  <1>5. ASSUME NEW q \in Proc, proc'[q].at \in {"status", "start", "exec"},
               proc'[q].company # "other", worker' # NoWorker
        PROVE  worker'.root = proc'[q].root
    BY <1>1, <1>4, <1>5 DEF Sessions, Keeps
  <1>6. QED
    BY <1>3, <1>4, <1>5 DEF Sessions

(* A session's step that concerns, of the others, at most the worker.      *)
LEMMA SessionsOfOne ==
  ASSUME TypeInv, Sessions, NEW p \in Proc, proc[p].at \in Session,
         \A q \in Proc \ {p} : proc'[q] = proc[q],
         proc'[p].at \in Session =>
            proc'[p].root = proc[p].root /\ proc'[p].company = proc[p].company,
         \/ worker' = worker
         \/ worker' = NoWorker
         \/ worker'.root = proc[p].root
         \/ worker # NoWorker /\ worker' = [worker EXCEPT !.running = TRUE],
         proc'[p].at \in {"status", "start", "exec"} =>
            /\ proc'[p].company # "other" /\ worker' # NoWorker
               => worker'.root = proc'[p].root
            /\ proc'[p].company = "none" =>
                  /\ worker' # NoWorker /\ Matches(p)'
                  /\ At(p, "exec")' => worker'.running
  PROVE  Sessions'
  <1>1. ASSUME NEW q \in Proc \ {p}, proc[q].at \in Session
        PROVE  /\ proc[q].company # "none" /\ proc[p].company # "none"
               /\ proc[p].root # proc[q].root => proc[q].company = "other"
               /\ proc[p].root # proc[q].root => proc[p].company = "other"
    BY <1>1 DEF Sessions
  <1>2. ASSUME NEW q \in Proc \ {p}, proc[q].at \in {"status", "start", "exec"},
               proc[q].company # "other", worker' # NoWorker
        PROVE  worker'.root = proc[q].root
    <2>1. proc[q].at \in Session
      BY <1>2 DEF Session
    <2>2. worker # NoWorker => worker.root = proc[q].root
      BY <1>2 DEF Sessions
    <2>3. CASE worker # NoWorker /\ worker' = [worker EXCEPT !.running = TRUE]
      BY <2>2, <2>3 DEF TypeInv, TypeOK
    <2>4. QED
      BY <1>1, <1>2, <2>1, <2>2, <2>3
  <1>3. QED
    BY <1>1, <1>2 DEF Sessions, Session, At

LEMMA SessionSessions ==
  ASSUME TypeInv, Sessions, NEW p \in Proc, SessionStep(p)
  PROVE  Sessions'
  <1> USE DEF TypeInv, TypeOK
  <1>a. proc[p] \in Record /\ Idle.at \notin Session
    BY DEF Idle, Session
  <1>b. ASSUME NEW at, To(p, at)
        PROVE  /\ proc'[p].at = at /\ proc'[p].id = proc[p].id
               /\ proc'[p].root = proc[p].root /\ proc'[p].company = proc[p].company
               /\ \A q \in Proc \ {p} : proc'[q] = proc[q]
    BY <1>a, <1>b DEF To, Set, Record
  <1>c. ASSUME Leave(p), worker' = worker, proc[p].at \in Session
        PROVE  Sessions'
    <2>1. proc'[p] = Idle /\ \A q \in Proc \ {p} : proc'[q] = proc[q]
      BY <1>c DEF Leave, Set
    <2>2. proc'[p].at \notin Session /\ proc'[p].at \notin {"status", "start", "exec"}
      BY <1>a, <2>1 DEF Idle
    <2>3. QED
      BY <1>c, <2>1, <2>2, SessionsOfOne
  <1>1. CASE \E root \in Root : Begin(p, root)
    BY <1>1, BeginSessions
  <1>2. CASE Ensure(p)
    <2>1. proc[p].at \in Session /\ To(p, "resolve") /\ worker' = worker
      BY <1>2 DEF Ensure, At, Session
    <2>2. QED
      BY <1>b, <2>1, SessionsOfOne
  <1>3. CASE Resolve(p)
    <2>1. proc[p].at \in Session /\ worker' = worker
      BY <1>3 DEF Resolve, At, Session
    <2>2. /\ proc'[p].at = "look" /\ proc'[p].root = proc[p].root
          /\ proc'[p].company = proc[p].company
          /\ \A q \in Proc \ {p} : proc'[q] = proc[q]
      BY <1>3, <1>a DEF Resolve, Set, Record
    <2>3. QED
      BY <2>1, <2>2, SessionsOfOne
  <1>4. CASE Look(p) \/ Compare(p) \/ IsRunning(p)
    <2>1. CASE Look(p)
      <3>1. PICK next \in {"create", "compare"} : To(p, next)
        BY <2>1 DEF Look
      <3>2. QED
        BY <1>b, <2>1, <3>1, SessionsOfOne DEF Look, At, Session
    <2>2. CASE Compare(p)
      <3>1. PICK next \in {"status", "destroy"} : To(p, next) /\ (next = "status" => Matches(p))
        BY <2>2 DEF Compare
      <3>2. /\ proc[p].at \in Session /\ worker' = worker
            /\ next = "status" => /\ worker.root = proc[p].root /\ worker # NoWorker
                                 /\ worker.label = proc[p].id
        BY <2>2, <3>1, EngineAssumption DEF Compare, Matches, NoWorker, At, Session
      <3>3. QED
        BY <1>b, <3>1, <3>2, SessionsOfOne DEF Matches, At
    <2>3. CASE IsRunning(p)
      <3>1. PICK next \in {"exec", "start"} : To(p, next) /\ (next = "exec" => worker.running)
        BY <2>3 DEF IsRunning
      <3>2. proc[p].at \in Session /\ proc[p].at = "status" /\ worker' = worker
        BY <2>3 DEF IsRunning, At, Session
      <3>3. /\ proc[p].company # "other" /\ worker # NoWorker => worker.root = proc[p].root
            /\ proc[p].company = "none" =>
                  worker # NoWorker /\ worker.label = proc[p].id /\ worker.root = proc[p].root
        BY <3>2 DEF Sessions, Matches
      <3>4. QED
        BY <1>b, <3>1, <3>2, <3>3, SessionsOfOne DEF Matches, At
    <2>4. QED
      BY <1>4, <2>1, <2>2, <2>3
  <1>5. CASE Destroy(p)
    <2>1. proc[p].at \in Session /\ To(p, "create") /\ worker' = NoWorker
      BY <1>5 DEF Destroy, At, Session
    <2>2. QED
      BY <1>b, <2>1, SessionsOfOne
  <1>6. CASE Create(p)
    <2>1. proc[p].at \in Session
      BY <1>6 DEF Create, At, Session
    <2>2. CASE worker' = Labelled(p) /\ To(p, "start")
      <3>1. /\ worker'.root = proc[p].root /\ worker'.label = proc[p].id
            /\ worker' # NoWorker
        BY <2>1, <2>2, EngineAssumption DEF Labelled, NoWorker
      <3>2. QED
        BY <1>b, <2>1, <2>2, <3>1, SessionsOfOne DEF Matches, At
    <2>3. CASE Leave(p) /\ UNCHANGED worker
      BY <1>c, <2>1, <2>3
    <2>4. QED
      BY <1>6, <2>2, <2>3 DEF Create
  <1>7. CASE Start(p)
    <2>1. proc[p].at \in Session /\ proc[p].at = "start"
      BY <1>7 DEF Start, At, Session
    <2>2. CASE worker # NoWorker /\ worker' = [worker EXCEPT !.running = TRUE] /\ To(p, "exec")
      <3>1. /\ worker'.root = worker.root /\ worker'.label = worker.label
            /\ worker'.running /\ worker' # NoWorker
        BY <2>2 DEF NoWorker
      <3>2. /\ proc[p].company # "other" => worker.root = proc[p].root
            /\ proc[p].company = "none" => worker.label = proc[p].id
        BY <2>1, <2>2 DEF Sessions, Matches
      <3>3. proc[p].company = "none" => proc[p].company # "other"
        OBVIOUS
      <3>4. QED
        BY <1>b, <2>1, <2>2, <3>1, <3>2, <3>3, SessionsOfOne DEF Matches, At
    <2>3. CASE Leave(p) /\ UNCHANGED worker
      BY <1>c, <2>1, <2>3
    <2>4. QED
      BY <1>7, <2>2, <2>3 DEF Start
  <1>8. CASE Finish(p)
    <2>1. proc[p].at \in Session /\ Leave(p) /\ worker' = worker
      BY <1>8 DEF Finish, At, Session
    <2>2. QED
      BY <1>c, <2>1
  <1>9. QED
    BY <1>1, <1>2, <1>3, <1>4, <1>5, <1>6, <1>7, <1>8 DEF SessionStep

LEMMA SessionsStep ==
  ASSUME TypeInv, Sessions, [Next]_vars
  PROVE  Sessions'
  <1>1. ASSUME NEW p \in Proc, BuildStep(p) \/ ExportStep(p) \/ GcStep(p) \/ Stop(p)
        PROVE  Sessions'
    <2>1. /\ proc'[p].at \notin Session
          /\ \A q \in Proc \ {p} : Keeps(q) /\ proc'[q].company = proc[q].company
          /\ worker' = worker
      BY <1>1, BuildFrame, ExportFrame, GcFrame, StopFrame
         DEF Exporting, Looking, Session, Idle, Keeps
    <2>2. CASE proc[p].at \notin Session
      BY <2>1, <2>2, SessionsKept
    <2>3. CASE proc[p].at \in Session
      <3>1. ASSUME NEW q \in Proc \ {p}
            PROVE  /\ proc'[q].at = proc[q].at /\ proc'[q].root = proc[q].root
                   /\ proc'[q].id = proc[q].id /\ proc'[q].company = proc[q].company
        BY <2>1 DEF Keeps
      <3>2. proc'[p].at \notin {"status", "start", "exec"}
        BY <2>1 DEF Session
      <3>3. ASSUME NEW q \in Proc, proc'[q].at \in {"status", "start", "exec"}
            PROVE  /\ q # p /\ proc[q].at = proc'[q].at /\ proc[q].root = proc'[q].root
                   /\ proc[q].id = proc'[q].id /\ proc[q].company = proc'[q].company
        BY <3>1, <3>2, <3>3
      <3>4. ASSUME NEW a \in Proc, NEW q \in Proc, a # q,
                   proc'[a].at \in Session, proc'[q].at \in Session
            PROVE  /\ proc'[a].company # "none"
                   /\ proc'[a].root # proc'[q].root => proc'[a].company = "other"
        <4>1. a # p /\ q # p
          BY <2>1, <3>4
        <4>2. QED
          BY <3>1, <3>4, <4>1 DEF Sessions
      <3>5. QED
        BY <2>1, <3>3, <3>4 DEF Sessions, Matches, At
    <2>4. QED
      BY <2>2, <2>3
  <1>2. CASE Outside
    BY <1>2, OutsideFrame, SessionsKept
  <1>3. CASE UNCHANGED vars
    BY <1>3, SessionsKept DEF vars, Keeps
  <1>4. QED
    BY <1>1, <1>2, <1>3, Steps, SessionSessions

-------------------------------------------------------------------------------
(* What garbage collections know.                                          *)

LEMMA CollectionsKept ==
  ASSUME TypeInv, Collections, working' = working,
         \A q \in Proc : {proc[q].at, proc'[q].at} \cap {"stage", "list", "remove"} # {}
                         => /\ Keeps(q)
                            /\ proc'[q].seen \subseteq proc[q].seen
                            /\ proc'[q].late = proc[q].late
  PROVE  Collections'
  <1>1. ASSUME NEW q \in Proc, proc'[q].at \in {"stage", "list", "remove"}
        PROVE  /\ proc[q].at = proc'[q].at /\ proc[q].force = proc'[q].force
               /\ proc'[q].seen \subseteq proc[q].seen /\ proc'[q].late = proc[q].late
    BY <1>1 DEF Keeps
  <1>2. ASSUME NEW q \in Proc, proc[q].at = "stage"
        PROVE  proc'[q].at = "stage"
    BY <1>2 DEF Keeps
  <1>3. QED
    BY <1>1, <1>2 DEF Collections, At

LEMMA BuildCollections ==
  ASSUME TypeInv, Collections, NEW p \in Proc, BuildStep(p)
  PROVE  /\ Collections'
         /\ working' \subseteq working \cup {<<p, "running">>}
         /\ working \ working' \subseteq {<<p, "running">>}
         /\ proc'[p] # proc[p]
  <1> USE DEF TypeInv, TypeOK
  <1>1. CASE \E r \in Ref : Build(p, r)
    <2>1. PICK r \in Ref : Build(p, r)
      BY <1>1
    <2>2. /\ proc[p].at = "idle" /\ proc'[p].at = "between" /\ working' = working
          /\ \A q \in Proc \ {p} : proc'[q] = proc[q]
      BY <2>1 DEF Build, Set, At, Idle
    <2>3. QED
      BY <2>2, CollectionsKept DEF Keeps
  <1>2. CASE BeginStage(p)
    <2>1. /\ proc[p].at = "between" /\ proc'[p].at = "stage"
          /\ working' = working \cup {<<p, "running">>}
      BY <1>2 DEF BeginStage, At, Record
    <2>2. ASSUME NEW q \in Proc \ {p}
          PROVE  /\ Keeps(q) /\ proc'[q].seen = proc[q].seen
                 /\ proc[q].late \subseteq proc'[q].late
                 /\ proc[q].at = "list" => p \in proc'[q].late
      BY <1>2 DEF BeginStage, Keeps, At, Record
    <2>3. \A q \in Proc : <<q, "running">> \in working' => At(q, "stage")'
      BY <2>1, <2>2 DEF Collections, Keeps, At
    <2>4. ASSUME NEW g \in Proc, NEW q \in Proc, ~proc'[g].force
          PROVE  /\ At(g, "list")' /\ At(q, "stage")' => q \in proc'[g].late
                 /\ At(g, "remove")' /\ <<q, "running">> \in proc'[g].seen
                    => q \in proc'[g].late
      <3>1. CASE g = p
        BY <2>1, <3>1 DEF At
      <3>2. CASE g # p
        <4>1. /\ proc[g].at = proc'[g].at /\ ~proc[g].force
              /\ q # p => proc[q].at = proc'[q].at
          BY <2>2, <2>4, <3>2 DEF Keeps
        <4>2. q # p => /\ At(g, "list") /\ At(q, "stage") => q \in proc[g].late
          BY <4>1 DEF Collections
        <4>3. At(g, "remove") /\ <<q, "running">> \in proc[g].seen => q \in proc[g].late
          BY <4>1 DEF Collections
        <4>4. QED
          BY <2>2, <3>2, <4>1, <4>2, <4>3 DEF At
      <3>3. QED
        BY <3>1, <3>2
    <2>5. QED
      BY <2>1, <2>3, <2>4 DEF Collections
  <1>3. CASE (\E id \in Image : EndStage(p, id)) \/ FailStage(p)
    <2>1. /\ proc[p].at = "stage" /\ proc'[p].at \in {"idle", "between"}
          /\ working' = working \ {<<p, "running">>}
      <3>1. proc[p] \in Record
        OBVIOUS
      <3>2. proc'[p] = Idle \/ proc'[p] = [proc[p] EXCEPT !.at = "between", !.stage = @ + 1]
        BY <1>3 DEF EndStage, FailStage
      <3>3. proc'[p] = Idle \/ proc'[p].at = "between"
        BY <3>1, <3>2 DEF Record
      <3>4. QED
        BY <1>3, <3>3 DEF EndStage, FailStage, At, Idle
    <2>2. ASSUME NEW q \in Proc \ {p}
          PROVE  /\ Keeps(q) /\ proc'[q].late = proc[q].late
                 /\ proc'[q].seen \subseteq proc[q].seen
      BY <1>3, ElsewhereFacts DEF EndStage, FailStage, Keeps
    <2>3. \A q \in Proc : <<q, "running">> \in working' => At(q, "stage")'
      BY <2>1, <2>2 DEF Collections, Keeps, At
    <2>4. ASSUME NEW g \in Proc, NEW q \in Proc, ~proc'[g].force
          PROVE  /\ At(g, "list")' /\ At(q, "stage")' => q \in proc'[g].late
                 /\ At(g, "remove")' /\ <<q, "running">> \in proc'[g].seen
                    => q \in proc'[g].late
      <3>1. At(g, "list")' \/ At(g, "remove")' => g # p /\ ~proc[g].force
        BY <2>1, <2>2, <2>4 DEF Keeps, At
      <3>2. At(q, "stage")' => q # p
        BY <2>1 DEF At
      <3>3. QED
        BY <2>2, <3>1, <3>2 DEF Collections, Keeps, At
    <2>5. QED
      BY <2>1, <2>3, <2>4 DEF Collections
  <1>4. QED
    BY <1>1, <1>2, <1>3 DEF BuildStep

LEMMA GcCollections ==
  ASSUME TypeInv, Collections, NEW p \in Proc, GcStep(p)
  PROVE  /\ Collections'
         /\ \A q \in Proc : <<q, "running">> \in working /\ <<q, "running">> \notin working'
               => At(p, "remove") /\ (proc[p].force \/ q \in proc[p].late)
  <1> USE DEF TypeInv, TypeOK
  <1>1. CASE \E force \in BOOLEAN : Scan(p, force)
    <2>1. PICK force \in BOOLEAN : Scan(p, force)
      BY <1>1
    <2>2. /\ proc'[p].at = "list" /\ proc'[p].force = force /\ working' = working
          /\ proc[p].at = "idle"
          /\ \A q \in Proc \ {p} : proc'[q] = proc[q]
      BY <2>1, IdleType DEF Scan, Set, At, Record
    <2>3. ~force => \A q \in Proc : ~At(q, "stage")
      BY <2>1 DEF Scan, ActiveBuilds
    <2>4. QED
      BY <2>2, <2>3 DEF Collections, At
  <1>2. CASE List(p)
    <2>1. /\ proc[p].at = "list" /\ proc'[p].at = "remove"
          /\ proc'[p].force = proc[p].force /\ proc'[p].late = proc[p].late
          /\ proc'[p].seen = working /\ working' = working
          /\ \A q \in Proc \ {p} : proc'[q] = proc[q]
      BY <1>2 DEF List, Set, At, Record
    <2>2. QED
      BY <2>1 DEF Collections, At
  <1>3. CASE Remove(p)
    <2>1. /\ proc[p].at = "remove" /\ proc'[p].at = "idle"
          /\ working' = working \ proc[p].seen
          /\ \A q \in Proc \ {p} : proc'[q] = proc[q]
      BY <1>3 DEF Remove, Leave, Set, At, Idle
    <2>2. QED
      BY <2>1 DEF Collections, At
  <1>4. QED
    BY <1>1, <1>2, <1>3 DEF GcStep

LEMMA StopCollections ==
  ASSUME TypeInv, Collections, NEW p \in Proc, Stop(p)
  PROVE  /\ Collections'
         /\ \A q \in Proc : <<q, "running">> \in working /\ <<q, "running">> \notin working'
               => q = p
         /\ proc'[p] # proc[p]
  <1> USE DEF TypeInv, TypeOK
  <1>1. /\ proc'[p].at = "idle" /\ proc'[p] # proc[p]
        /\ \A q \in Proc : <<q, "running">> \in working'
                           <=> <<q, "running">> \in working /\ q # p
    BY DEF Stop, Idle, At
  <1>2. ASSUME NEW q \in Proc \ {p}
        PROVE  /\ Keeps(q) /\ proc'[q].late = proc[q].late
               /\ \A a \in Proc : <<a, "running">> \in proc'[q].seen
                                  => <<a, "running">> \in proc[q].seen
    <2>1. Keeps(q) /\ proc'[q].late = proc[q].late
      BY StopFrame
    <2>2. proc'[q].seen \subseteq proc[q].seen \cup {<<NoProc, "left">>}
      <3> DEFINE seen == IF <<p, "running">> \in proc[q].seen
                         THEN (proc[q].seen \ {<<p, "running">>}) \cup {<<NoProc, "left">>}
                         ELSE proc[q].seen
      <3>1. proc'[q] = [proc[q] EXCEPT !.seen = seen] /\ proc[q] \in Record
        BY DEF Stop
      <3>2. proc'[q].seen = seen
        <4> HIDE DEF seen
        <4>1. QED
          BY <3>1 DEF Record
      <3>3. QED
        BY <3>2
    <2>3. QED
      BY <2>1, <2>2
  <1>3. QED
    BY <1>1, <1>2 DEF Collections, Keeps, At

LEMMA OtherCollections ==
  ASSUME TypeInv, Collections,
         \/ \E p \in Proc : ExportStep(p) \/ SessionStep(p)
         \/ Outside \/ UNCHANGED vars
  PROVE  Collections' /\ working' = working
  <1>1. ASSUME NEW p \in Proc, ExportStep(p) \/ SessionStep(p)
        PROVE  Collections' /\ working' = working
    <2>1. {proc[p].at, proc'[p].at} \cap {"stage", "list", "remove"} = {}
      BY <1>1, ExportFrame, SessionFrame DEF Exporting, Looking, Session
    <2>2. QED
      BY <1>1, <2>1, ExportFrame, SessionFrame, CollectionsKept
  <1>2. CASE Outside
    BY <1>2, OutsideFrame, CollectionsKept
  <1>3. CASE UNCHANGED vars
    BY <1>3, CollectionsKept DEF vars, Keeps
  <1>4. QED
    BY <1>1, <1>2, <1>3

-------------------------------------------------------------------------------
(* The invariant and the theorems.                                         *)

LEMMA InitInv ==
  ASSUME Init
  PROVE  EngineInv
  <1>1. TypeInv
    BY InitType
  <1>2. Exports
    BY DEF Init, Idle, Exports, Sole, Achieved, Archived, ExportIsImage, Exporting,
           Looking, At
  <1>3. Collections
    BY DEF Init, Idle, Collections, At
  <1>4. Sessions
    BY DEF Init, Idle, Sessions, Session, At
  <1>5. QED
    BY <1>1, <1>2, <1>3, <1>4 DEF EngineInv

LEMMA StepInv ==
  ASSUME EngineInv, [Next]_vars
  PROVE  EngineInv'
  <1>1. TypeInv /\ Exports /\ Collections /\ Sessions
    BY DEF EngineInv
  <1>2. Collections'
    BY <1>1, Steps, BuildCollections, GcCollections, StopCollections, OtherCollections
  <1>3. QED
    BY <1>1, <1>2, StepType, ExportsStep, SessionsStep DEF EngineInv

LEMMA Invariant == EngineSpec => []EngineInv
  BY InitInv, StepInv, PTL DEF EngineSpec

(* What apptainer converts is the image that the reference named when the  *)
(* export began, however exports, builds and kills interleave, as long as  *)
(* the archive is not disturbed (build_sif in sif.py).                     *)
THEOREM ExportTheorem == EngineSpec => []ExportIsImage
  <1>1. EngineInv => ExportIsImage
    BY DEF EngineInv, Exports
  <1>2. QED
    BY <1>1, Invariant, PTL

(* Scripts run in a worker that mounts the invocation's own checkout, for  *)
(* any number of invocations of one checkout; an invocation that had no    *)
(* company finds the worker it asked for (Container in container.py).      *)
THEOREM ExecTheorem == EngineSpec => []ExecInOwn
  <1>1. EngineInv => ExecInOwn
    BY DEF EngineInv, Sessions, ExecInOwn, At
  <1>2. QED
    BY <1>1, Invariant, PTL

(* Garbage collection without --force removes the container of a build     *)
(* only if the build began after the look for builds (storage_gc.py).      *)
THEOREM CollectionTheorem == EngineSpec => RunningBuildKept
  <1> DEFINE Kept(p) ==
        <<p, "running">> \in working /\ <<p, "running">> \notin working'
        => \/ proc'[p] # proc[p]
           \/ \E g \in Proc : At(g, "remove") /\ (proc[g].force \/ p \in proc[g].late)
  <1>1. EngineInv /\ [Next]_vars => [\A p \in Proc : Kept(p)]_vars
    <2> SUFFICES ASSUME EngineInv, Next, NEW p \in Proc
                 PROVE  Kept(p)
      BY DEF vars
    <2>1. TypeInv /\ Collections
      BY DEF EngineInv
    <2>2. ASSUME NEW b \in Proc, BuildStep(b)
          PROVE  Kept(p)
      BY <2>1, <2>2, BuildCollections
    <2>3. ASSUME NEW g \in Proc, GcStep(g)
          PROVE  Kept(p)
      BY <2>1, <2>3, GcCollections
    <2>4. ASSUME NEW s \in Proc, Stop(s)
          PROVE  Kept(p)
      BY <2>1, <2>4, StopCollections
    <2>5. CASE working' = working
      BY <2>5
    <2>6. QED
      BY <2>1, <2>2, <2>3, <2>4, <2>5, Steps, OtherCollections
  <1>2. QED
    BY <1>1, Invariant, PTL DEF EngineSpec, RunningBuildKept
===============================================================================
