------------------------- MODULE BotLifecycle_proofs -------------------------
(***************************************************************************)
(* That the start and stop routes by themselves keep what ticks in reach   *)
(* of a stop and a stopped bot silent, whatever the number of engines and  *)
(* instances; and that no event brings up an instance that was asked to    *)
(* stop.                                                                   *)
(***************************************************************************)
EXTENDS BotLifecycle, TLAPS

----------------------------------------------------------------------------
(* The instance after each step *)

LEMMA Constants == /\ NEngines \in Nat \ {0} /\ MaxRetries \in Nat \ {0} /\ MaxCrashes \in Nat
                   /\ NoInst \notin Instances /\ Fewer \subseteq Instances
BY BotLifecycleAssumption

LEMMA UnusedIs == Unused \subseteq Instances /\ \A i \in Unused : inst[i] = New
BY Constants DEF Unused

LEMMA Boots ==
    /\ 0 \in 0..(NEngines + 1) /\ 1 \in 0..(NEngines + 1)
    /\ \A k \in 0..(NEngines + 1) :
          k <= NEngines /\ k > 0 => k + 1 \in 0..(NEngines + 1) /\ k + 1 > 0 /\ k \in Engines
BY Constants DEF Engines

LEMMA NewIs == New \in Instance
BY Constants DEF New, Instance, Engines

LEMMA HaltedIs ==
    ASSUME NEW r \in Instance
    PROVE  /\ Halted(r) \in Instance
           /\ Halted(r).engines = {} /\ Halted(r).ticking = {} /\ Halted(r).running = FALSE
           /\ Halted(r).boot = r.boot /\ Halted(r).stopRequested = r.stopRequested
           /\ Halted(r).stopping = r.stopping /\ Halted(r).by = r.by
BY DEF Halted, Instance

LEMMA AskedIs ==
    ASSUME NEW i \in Instances, inst \in [Instances -> Instance]
    PROVE  /\ Asked(i) \in Instance
           /\ Asked(i).stopRequested /\ Asked(i).stopping
           /\ Asked(i).boot = inst[i].boot /\ Asked(i).running = inst[i].running
           /\ Asked(i).engines = inst[i].engines /\ Asked(i).ticking = inst[i].ticking
           /\ Asked(i).by = inst[i].by
<1>1. inst[i] \in Instance
  OBVIOUS
<1> QED
  BY <1>1 DEF Asked, Instance

LEMMA BegunIs ==
    ASSUME NEW i \in Instances, NEW who \in {"route", "resume"}, inst \in [Instances -> Instance]
    PROVE  /\ Begun(i, who) \in Instance
           /\ Begun(i, who).boot = 1 /\ ~Begun(i, who).stopRequested
           /\ Begun(i, who).running = inst[i].running /\ Begun(i, who).stopping = inst[i].stopping
           /\ Begun(i, who).engines = inst[i].engines /\ Begun(i, who).ticking = inst[i].ticking
           /\ Begun(i, who).by = who
<1>1. inst[i] \in Instance
  OBVIOUS
<1>2. Begun(i, who) = [inst[i] EXCEPT !.boot = 1, !.stopRequested = FALSE, !.by = who]
  BY DEF Begun
<1> QED
  BY <1>1, <1>2, Boots DEF Instance

\* The three ways on of an answered await.
LEMMA BootedIs ==
    ASSUME NEW i \in Instances, inst \in [Instances -> Instance], Starting(i)
    PROVE  /\ Booted(i) \in Instance
           /\ Booted(i).stopRequested = inst[i].stopRequested
           /\ Booted(i).stopping = inst[i].stopping /\ Booted(i).by = inst[i].by
           /\ inst[i].stopRequested =>
                 /\ Booted(i).boot = 0 /\ ~Booted(i).running
                 /\ Booted(i).engines = {} /\ Booted(i).ticking = {}
           /\ ~inst[i].stopRequested =>
                 /\ inst[i].ticking \subseteq inst[i].engines
                      => Booted(i).ticking \subseteq Booted(i).engines
                 /\ Booted(i).boot > 0 \/ Booted(i).running
<1> DEFINE r == [inst[i] EXCEPT !.ticking = Ticking(i)]
<1>1. inst[i] \in Instance /\ inst[i].boot \in 1..(NEngines + 1)
  BY Constants DEF Starting, Instance
<1>2. Ticking(i) \in SUBSET Engines /\ Ticking(i) \subseteq inst[i].ticking \cup inst[i].engines
  BY <1>1 DEF Ticking, Instance
<1>3. /\ r \in Instance /\ r.ticking = Ticking(i) /\ r.boot = inst[i].boot
      /\ r.stopRequested = inst[i].stopRequested /\ r.running = inst[i].running
      /\ r.engines = inst[i].engines /\ r.stopping = inst[i].stopping /\ r.by = inst[i].by
  BY <1>1, <1>2 DEF Instance
<1>4. Booted(i) = IF r.stopRequested THEN [Halted(r) EXCEPT !.boot = 0]
                  ELSE IF r.boot <= NEngines
                       THEN [r EXCEPT !.boot = @ + 1, !.engines = @ \cup {r.boot}]
                       ELSE [r EXCEPT !.boot = 0, !.running = TRUE]
  BY DEF Booted
<1>5. r.boot \in 0..(NEngines + 1) /\ r.boot > 0
  BY <1>1, <1>3
<1> HIDE DEF r
<1>6. CASE inst[i].stopRequested
  <2>1. Booted(i) = [Halted(r) EXCEPT !.boot = 0]
    BY <1>3, <1>4, <1>6
  <2>2. Halted(r) \in Instance
    BY <1>3, HaltedIs
  <2>3. /\ [Halted(r) EXCEPT !.boot = 0] \in Instance
        /\ [Halted(r) EXCEPT !.boot = 0].boot = 0
        /\ [Halted(r) EXCEPT !.boot = 0].engines = Halted(r).engines
        /\ [Halted(r) EXCEPT !.boot = 0].ticking = Halted(r).ticking
        /\ [Halted(r) EXCEPT !.boot = 0].running = Halted(r).running
        /\ [Halted(r) EXCEPT !.boot = 0].stopRequested = Halted(r).stopRequested
        /\ [Halted(r) EXCEPT !.boot = 0].stopping = Halted(r).stopping
        /\ [Halted(r) EXCEPT !.boot = 0].by = Halted(r).by
    BY <2>2, Boots DEF Instance
  <2> QED
    BY <1>3, <1>6, <2>1, <2>3, HaltedIs
<1>7. CASE ~inst[i].stopRequested /\ r.boot <= NEngines
  <2>1. Booted(i) = [r EXCEPT !.boot = r.boot + 1, !.engines = r.engines \cup {r.boot}]
    BY <1>3, <1>4, <1>7
  <2>2. r.boot + 1 \in 0..(NEngines + 1) /\ r.boot + 1 > 0 /\ r.boot \in Engines
    BY <1>5, <1>7, Boots
  <2>3. r.engines \cup {r.boot} \in SUBSET Engines
    BY <1>3, <2>2 DEF Instance
  <2> DEFINE b == r.boot + 1
             es == r.engines \cup {r.boot}
  <2>4. r.engines \subseteq es
    OBVIOUS
  <2> HIDE DEF b, es
  <2>5. Booted(i) = [r EXCEPT !.boot = b, !.engines = es]
    BY <2>1 DEF b, es
  <2>6. b \in 0..(NEngines + 1) /\ es \in SUBSET Engines
    BY <2>2, <2>3 DEF b, es
  <2>7. /\ Booted(i) \in Instance
        /\ Booted(i).boot = b /\ Booted(i).engines = es /\ Booted(i).ticking = r.ticking
        /\ Booted(i).stopRequested = r.stopRequested /\ Booted(i).running = r.running
        /\ Booted(i).stopping = r.stopping /\ Booted(i).by = r.by
    BY <1>3, <2>5, <2>6 DEF Instance
  <2>8. Booted(i).boot > 0
    BY <2>2, <2>7 DEF b
  <2> QED
    BY <1>2, <1>3, <1>7, <2>4, <2>7, <2>8
<1>8. CASE ~inst[i].stopRequested /\ ~(r.boot <= NEngines)
  <2>1. Booted(i) = [r EXCEPT !.boot = 0, !.running = TRUE]
    BY <1>3, <1>4, <1>8
  <2>2. /\ Booted(i) \in Instance
        /\ Booted(i).boot = 0 /\ Booted(i).engines = r.engines /\ Booted(i).ticking = r.ticking
        /\ Booted(i).stopRequested = r.stopRequested /\ Booted(i).running
        /\ Booted(i).stopping = r.stopping /\ Booted(i).by = r.by
    BY <1>3, <2>1, Boots DEF Instance
  <2> QED
    BY <1>2, <1>3, <1>8, <2>2
<1> QED
  BY <1>6, <1>7, <1>8
----------------------------------------------------------------------------
(* Types *)

\* A start that a resume awaits is the resume's, and a retry is left before it gives up.
Typed ==
    /\ TypeOK
    /\ \A i \in Instances :
          inst[i].boot > 0 /\ inst[i].by = "resume" => resume.at = "start" /\ resume.on = i
    /\ resume.at # "giveup" => resume.try <= MaxRetries

\* Instances but one stay as they are, and that one is no more a resume's than it was.
LEMMA OneInstance ==
    ASSUME Typed, NEW i \in Instances, NEW s \in Instance, Set(i, s),
           s.boot > 0 /\ s.by = "resume" => inst[i].boot > 0 /\ inst[i].by = "resume"
    PROVE  /\ inst' \in [Instances -> Instance]
           /\ \A j \in Instances :
                 inst'[j].boot > 0 /\ inst'[j].by = "resume" => inst[j].boot > 0 /\ inst[j].by = "resume"
<1>1. inst \in [Instances -> Instance] /\ inst' = [inst EXCEPT ![i] = s]
  BY DEF Typed, TypeOK, Set
<1> QED
  BY <1>1

LEMMA RemovedTypes ==
    ASSUME Typed, Removed
    PROVE  /\ inst' \in [Instances -> Instance] /\ registry' = NoInst
           /\ \A j \in Instances :
                 inst'[j].boot > 0 /\ inst'[j].by = "resume" => inst[j].boot > 0 /\ inst[j].by = "resume"
<1>1. CASE registry # NoInst /\ inst[registry].running
  <2>1. registry \in Instances /\ Set(registry, Asked(registry)) /\ inst \in [Instances -> Instance]
    BY <1>1 DEF Removed, Typed, TypeOK
  <2> QED
    BY <2>1, AskedIs, OneInstance DEF Removed
<1>2. CASE ~(registry # NoInst /\ inst[registry].running)
  BY <1>2 DEF Removed, Typed, TypeOK
<1> QED
  BY <1>1, <1>2

Names == {"none", "persist", "lookup", "discard", "create", "stopping", "stopped", "fresh", "start",
          "giveup"}

LEMMA RestTypes == Rest \in Thread /\ Rest.at = "none" /\ Rest.on = NoInst /\ Rest.try = 0
BY Constants DEF Rest, Thread

LEMMA ThreadMoves ==
    ASSUME NEW t \in Thread, NEW at \in Names, NEW on \in Instances \cup {NoInst}
    PROVE  /\ [t EXCEPT !.at = at] \in Thread /\ [t EXCEPT !.at = at].at = at
           /\ [t EXCEPT !.at = at].on = t.on /\ [t EXCEPT !.at = at].try = t.try
           /\ [t EXCEPT !.at = at, !.on = on] \in Thread /\ [t EXCEPT !.at = at, !.on = on].at = at
           /\ [t EXCEPT !.at = at, !.on = on].on = on /\ [t EXCEPT !.at = at, !.on = on].try = t.try
BY DEF Thread, Names

LEMMA BootTypes ==
    ASSUME NEW r \in Rows
    PROVE  /\ Boot(r) \in Thread /\ Boot(r).at # "giveup" /\ Boot(r).try <= MaxRetries
           /\ Boot(r).at \in {"none", "lookup"}
           /\ r # "running" => Boot(r) = Rest
BY Constants, RestTypes DEF Boot, Thread

Resumed(i) == inst[i].boot > 0 /\ inst[i].by = "resume"

LEMMA Retries ==
    ASSUME resume \in Thread, resume.try <= MaxRetries
    PROVE  /\ Retried \in Thread /\ Retried.at \in {"lookup", "giveup"}
           /\ Retried.at # "giveup" => Retried.try <= MaxRetries
BY Constants DEF Retried, Thread

LEMMA RowsTypes ==
    ASSUME Typed,
           \/ RequestStart \/ StartPersists \/ StopAwaited \/ StopPersists \/ Rollback \/ DeleteRow
           \/ PatchChecks \/ AdminFlips \/ OperationThrows \/ EditThrows
    PROVE  Typed'
<1>1. UNCHANGED <<registry, inst, resume, crashes, world>>
  BY DEF RequestStart, StartPersists, StopAwaited, StopPersists, Rollback, DeleteRow, PatchChecks,
         AdminFlips, OperationThrows, EditThrows
<1>2. row' \in Rows /\ rollback' \in BOOLEAN /\ edit' \in {"none", "delete", "patch", "admin"}
  BY DEF Typed, TypeOK, RequestStart, StartPersists, StopAwaited, StopPersists, Rollback, DeleteRow,
         PatchChecks, AdminFlips, OperationThrows, EditThrows, Update, Flagged, Rows
<1>3. op' \in Thread
  <2>1. op' \in {op, Rest, [Rest EXCEPT !.at = "persist"], [op EXCEPT !.at = "lookup"],
                 [Rest EXCEPT !.at = "stopped"]}
    BY DEF RequestStart, StartPersists, StopAwaited, StopPersists, Rollback, DeleteRow, PatchChecks,
           AdminFlips, OperationThrows, EditThrows
  <2>2. op \in Thread
    BY DEF Typed, TypeOK
  <2>3. {"persist", "lookup", "stopped"} \subseteq Names
    BY DEF Names
  <2>4. [Rest EXCEPT !.at = "persist"] \in Thread /\ [Rest EXCEPT !.at = "stopped"] \in Thread
    BY <2>3, RestTypes, ThreadMoves, Constants
  <2>5. [op EXCEPT !.at = "lookup"] \in Thread
    BY <2>2, <2>3, ThreadMoves
  <2> QED
    BY <2>1, <2>2, <2>4, <2>5, RestTypes
<1> QED
  BY <1>1, <1>2, <1>3 DEF Typed, TypeOK

LEMMA OpTypes ==
    ASSUME Typed, StartLooksUp \/ StartDiscards \/ StartCreates \/ RequestStop
    PROVE  Typed'
<1>1. UNCHANGED <<row, resume, edit, rollback, crashes, world>>
  BY DEF StartLooksUp, StartDiscards, StartCreates, RequestStop
<1>2. op \in Thread /\ registry \in Instances \cup {NoInst} /\ inst \in [Instances -> Instance]
  BY DEF Typed, TypeOK
<1>3. registry' \in Instances \cup {NoInst}
  BY <1>2, UnusedIs DEF StartLooksUp, StopsOld, StartDiscards, StartCreates, RequestStop
<1>4. /\ inst' \in [Instances -> Instance]
      /\ \A j \in Instances : Resumed(j)' => Resumed(j)
  <2>1. CASE registry \in Instances /\ Set(registry, Asked(registry))
    BY <1>2, <2>1, AskedIs, OneInstance DEF Resumed
  <2>2. CASE UNCHANGED inst
    BY <1>2, <2>2 DEF Resumed
  <2>3. CASE \E i \in Instances : Set(i, Begun(i, "route"))
    BY <1>2, <2>3, BegunIs, OneInstance DEF Resumed
  <2> QED
    BY <1>2, <2>1, <2>2, <2>3, UnusedIs
       DEF StartLooksUp, StopsOld, StartDiscards, StartCreates, RequestStop
<1>5. op' \in Thread
  <2>1. {"discard", "create", "stopping", "stopped"} \subseteq Names
    BY DEF Names
  <2>2. /\ [op EXCEPT !.at = "create"] \in Thread
        /\ [op EXCEPT !.at = "create", !.on = NoInst] \in Thread
        /\ [Rest EXCEPT !.at = "stopped"] \in Thread
    BY <1>2, <2>1, RestTypes, ThreadMoves, Constants
  <2>3. /\ [op EXCEPT !.at = "discard", !.on = registry] \in Thread
        /\ [Rest EXCEPT !.at = "stopping", !.on = registry] \in Thread
    BY <1>2, <2>1, RestTypes, ThreadMoves
  <2>4. op' \in {Rest, [op EXCEPT !.at = "create"], [op EXCEPT !.at = "create", !.on = NoInst],
                 [Rest EXCEPT !.at = "stopped"], [op EXCEPT !.at = "discard", !.on = registry],
                 [Rest EXCEPT !.at = "stopping", !.on = registry]}
    BY DEF StartLooksUp, StopsOld, StartDiscards, StartCreates, RequestStop
  <2> QED
    BY <2>2, <2>3, <2>4, RestTypes
<1> QED
  BY <1>1, <1>2, <1>3, <1>4, <1>5 DEF Typed, TypeOK, Resumed

LEMMA EditTypes ==
    ASSUME Typed, DeleteRemoves \/ PatchRemoves \/ AdminDrops
    PROVE  Typed'
<1>1. Removed /\ UNCHANGED <<row, op, resume, rollback, crashes, world>>
  BY DEF DeleteRemoves, PatchRemoves, AdminDrops
<1>2. edit' \in {"none", "delete", "admin"}
  BY DEF DeleteRemoves, PatchRemoves, AdminDrops
<1> QED
  BY <1>1, <1>2, RemovedTypes DEF Typed, TypeOK

LEMMA ResumeTypes ==
    ASSUME Typed, WatchdogResumes \/ Resuming
    PROVE  Typed'
<1>1. UNCHANGED <<op, edit, rollback, crashes, world>>
  BY DEF WatchdogResumes, Resuming, ResumeLooksUp, ResumeWithoutKeys, ResumeThrows,
         ResumeDiscards, ResumeCreates,
         ResumeStarts, ResumeGivesUp
<1>2. /\ resume \in Thread /\ registry \in Instances \cup {NoInst}
      /\ inst \in [Instances -> Instance]
      /\ row \in Rows
  BY DEF Typed, TypeOK
<1>3. row' \in Rows
  BY <1>2 DEF WatchdogResumes, Resuming, ResumeLooksUp, ResumeWithoutKeys, ResumeThrows,
         ResumeDiscards,
         ResumeCreates, ResumeStarts, ResumeGivesUp, Update, Flagged, Rows
<1>4. registry' \in Instances \cup {NoInst}
  BY <1>2, UnusedIs
     DEF WatchdogResumes, Resuming, ResumeLooksUp, StopsOld, ResumeWithoutKeys, ResumeThrows,
         ResumeDiscards,
         ResumeCreates, ResumeStarts, ResumeGivesUp
<1>5. \A j \in Instances : ~Resumed(j)
  <2>1. resume.at # "start"
    BY DEF WatchdogResumes, Resuming, ResumeLooksUp, ResumeWithoutKeys, ResumeThrows,
         ResumeDiscards,
         ResumeCreates, ResumeStarts, ResumeGivesUp
  <2> QED
    BY <2>1 DEF Typed, Resumed
<1>6. CASE WatchdogResumes \/ ResumeWithoutKeys \/ ResumeGivesUp
  <2>1. inst' = inst /\ resume' \in {Rest, [at |-> "lookup", on |-> NoInst, try |-> 1]}
    BY <1>6 DEF WatchdogResumes, ResumeWithoutKeys, ResumeGivesUp
  <2>2. resume' \in Thread /\ resume'.try <= MaxRetries
    BY <2>1, RestTypes, Constants DEF Thread
  <2> QED
    BY <1>1, <1>2, <1>3, <1>4, <1>5, <2>1, <2>2 DEF Typed, TypeOK, Resumed
<1>9. CASE ResumeThrows
  <2>1. inst' = inst /\ resume' = Retried /\ resume.at # "giveup"
    BY <1>9 DEF ResumeThrows
  <2>2. resume' \in Thread /\ (resume'.at # "giveup" => resume'.try <= MaxRetries)
        /\ resume'.at # "start"
    BY <1>2, <2>1, Retries DEF Typed
  <2> QED
    BY <1>1, <1>2, <1>3, <1>4, <1>5, <2>1, <2>2 DEF Typed, TypeOK, Resumed
<1>7. CASE ResumeLooksUp \/ ResumeDiscards \/ ResumeCreates
  <2>1. resume.at \in {"lookup", "discard", "create"} /\ resume.try <= MaxRetries
    BY <1>7 DEF ResumeLooksUp, ResumeDiscards, ResumeCreates, Typed
  <2>2. PICK at \in Names, on \in Instances \cup {NoInst} :
           \/ resume' = [resume EXCEPT !.at = at]
           \/ resume' = [resume EXCEPT !.at = at, !.on = on]
    BY <1>2, <1>7, UnusedIs DEF ResumeLooksUp, StopsOld, ResumeDiscards, ResumeCreates, Names
  <2>3. resume' \in Thread /\ resume'.try = resume.try
    <3>1. resume \in Thread
      BY <1>2
    <3> QED
      BY <2>2, <3>1 DEF Thread, Names
  <2>4. inst' \in [Instances -> Instance] /\ \A j \in Instances : ~Resumed(j)'
    <3>1. CASE registry \in Instances /\ Set(registry, Asked(registry))
      BY <1>2, <1>5, <3>1, AskedIs, OneInstance DEF Resumed
    <3>2. CASE UNCHANGED inst
      BY <1>2, <1>5, <3>2 DEF Resumed
    <3> QED
      BY <1>2, <1>7, <3>1, <3>2 DEF ResumeLooksUp, StopsOld, ResumeDiscards, ResumeCreates
  <2> QED
    BY <1>1, <1>2, <1>3, <1>4, <2>1, <2>3, <2>4 DEF Typed, TypeOK, Resumed
<1>8. CASE ResumeStarts
  <2>1. resume.try <= MaxRetries
    BY <1>8 DEF ResumeStarts, Typed
  <2>2. CASE resume' = Rest /\ UNCHANGED inst
    BY <1>1, <1>2, <1>3, <1>4, <1>5, <2>2, RestTypes, Constants DEF Typed, TypeOK, Resumed
  <2>3. CASE Set(resume.on, Begun(resume.on, "resume")) /\ resume' = [resume EXCEPT !.at = "start"]
    <3>1. /\ resume' \in Thread /\ resume'.at = "start" /\ resume'.on = resume.on
          /\ resume'.try = resume.try
      BY <1>2, <2>3 DEF Thread
    <3>2. /\ inst' \in [Instances -> Instance]
          /\ \A j \in Instances : j # resume.on => inst'[j] = inst[j]
      <4>1. CASE resume.on \in Instances
        BY <1>2, <2>3, <4>1, BegunIs DEF Set
      <4>2. CASE resume.on \notin Instances
        BY <1>2, <2>3, <4>2 DEF Set
      <4> QED
        BY <4>1, <4>2
    <3>3. \A j \in Instances : Resumed(j)' => j = resume.on
      BY <1>5, <3>2 DEF Resumed
    <3> QED
      BY <1>1, <1>3, <1>4, <2>1, <3>1, <3>2, <3>3 DEF Typed, TypeOK, Resumed
  <2> QED
    BY <1>8, <2>2, <2>3 DEF ResumeStarts
<1> QED
  BY <1>6, <1>7, <1>8, <1>9 DEF Resuming

LEMMA InstanceTypes ==
    ASSUME Typed, \E i \in Instances : Inside(i) \/ StopEnds(i) \/ Collect(i)
    PROVE  Typed'
<1>1. PICK i \in Instances : Inside(i) \/ StopEnds(i) \/ Collect(i)
  OBVIOUS
<1>2. /\ resume \in Thread /\ registry \in Instances \cup {NoInst}
      /\ inst \in [Instances -> Instance]
      /\ row \in Rows
  BY DEF Typed, TypeOK
<1>3. UNCHANGED <<row, registry, op, edit, crashes, world>>
  BY <1>1 DEF Inside, BootStep, BootFails, StopEnds, Collect
<1>4. CASE StopEnds(i) \/ Collect(i)
  <2>1. PICK s \in Instance : Set(i, s) /\ (s.boot > 0 /\ s.by = "resume" => Resumed(i))
    <3>1. CASE StopEnds(i)
      <4>1. inst[i] \in Instance /\ Halted(inst[i]) \in Instance
        BY <1>2, HaltedIs
      <4>2. /\ [Halted(inst[i]) EXCEPT !.stopping = FALSE] \in Instance
            /\ [Halted(inst[i]) EXCEPT !.stopping = FALSE].boot = inst[i].boot
            /\ [Halted(inst[i]) EXCEPT !.stopping = FALSE].by = inst[i].by
        BY <4>1, HaltedIs DEF Instance
      <4> QED
        BY <3>1, <4>2 DEF StopEnds, Resumed
    <3>2. CASE Collect(i)
      BY <3>2, NewIs DEF Collect, New
    <3> QED
      BY <1>4, <3>1, <3>2
  <2>2. UNCHANGED <<resume, rollback>>
    BY <1>4 DEF StopEnds, Collect
  <2>3. inst' \in [Instances -> Instance] /\ \A j \in Instances : Resumed(j)' => Resumed(j)
    BY <2>1, OneInstance DEF Resumed
  <2> QED
    BY <1>2, <1>3, <2>2, <2>3 DEF Typed, TypeOK, Resumed
<1>5. CASE BootStep(i)
  <2>1. inst' \in [Instances -> Instance] /\ \A j \in Instances : Resumed(j)' => Resumed(j)
    BY <1>2, <1>5, BootedIs, OneInstance DEF BootStep, Resumed, Starting
  <2>2. rollback' = rollback
    BY <1>5 DEF BootStep
  <2>3. CASE resume' = resume
    BY <1>2, <1>3, <2>1, <2>2, <2>3 DEF Typed, TypeOK, Resumed
  <2>4. CASE inst[i].by = "resume" /\ Booted(i).boot = 0 /\ resume' = Rest
    <3>1. Resumed(i)
      BY <1>5, <2>4 DEF BootStep, Starting, Resumed
    <3>2. \A j \in Instances : Resumed(j) => j = i
      BY <3>1 DEF Typed, Resumed
    <3>3. inst'[i].boot = 0
      BY <1>2, <1>5, <2>4 DEF BootStep, Set
    <3>4. \A j \in Instances : ~Resumed(j)'
      BY <2>1, <3>2, <3>3 DEF Resumed
    <3> QED
      BY <1>3, <2>1, <2>2, <2>4, <3>4, RestTypes, Constants DEF Typed, TypeOK, Resumed
  <2> QED
    BY <1>5, <2>3, <2>4 DEF BootStep
<1>6. CASE BootFails(i)
  <2>1. inst[i] \in Instance /\ inst[i].boot > 0 /\ Set(i, [inst[i] EXCEPT !.boot = 0])
    BY <1>2, <1>6 DEF BootFails, Instance
  <2>2. [inst[i] EXCEPT !.boot = 0] \in Instance /\ [inst[i] EXCEPT !.boot = 0].boot = 0
    BY <2>1, Boots DEF Instance
  <2>3. /\ inst' \in [Instances -> Instance] /\ \A j \in Instances : Resumed(j)' => Resumed(j)
        /\ ~Resumed(i)'
    BY <1>2, <2>1, <2>2, OneInstance DEF Resumed, Set
  <2>4. CASE rollback' = TRUE /\ UNCHANGED resume
    BY <1>2, <1>3, <2>3, <2>4 DEF Typed, TypeOK, Resumed
  <2>5. CASE /\ inst[i].by = "resume" /\ UNCHANGED rollback
             /\ resume' = Retried
    <3>1. resume.at = "start" /\ \A j \in Instances : Resumed(j) => j = i
      BY <2>1, <2>5 DEF Typed, Resumed
    <3>2. resume.try <= MaxRetries /\ resume.try \in Nat
      BY <1>2, <3>1 DEF Typed, Thread
    <3>3. resume' \in Thread /\ (resume'.at # "giveup" => resume'.try <= MaxRetries)
      BY <1>2, <2>5, <3>2, Retries
    <3>4. \A j \in Instances : ~Resumed(j)'
      BY <2>3, <3>1
    <3> QED
      BY <1>2, <1>3, <2>3, <2>5, <3>3, <3>4 DEF Typed, TypeOK, Resumed
  <2>6. inst[i].by \in {"route", "resume"}
    BY <2>1 DEF Instance
  <2> QED
    BY <1>6, <2>4, <2>5, <2>6 DEF BootFails
<1> QED
  BY <1>1, <1>4, <1>5, <1>6 DEF Inside

LEMMA CrashTypes == ASSUME Typed, Crash PROVE Typed'
<1>1. row \in Rows /\ crashes \in 0..MaxCrashes /\ world \in Worlds
  BY DEF Typed, TypeOK
<1>2. /\ inst' = [i \in Instances |-> New] /\ row' = row /\ registry' = NoInst /\ op' = Rest
      /\ resume' = Boot(row) /\ edit' = "none" /\ rollback' = FALSE
      /\ world' = world
  BY DEF Crash
<1>3. crashes' \in 0..MaxCrashes
  BY <1>1, Constants DEF Crash
<1>4. New \in Instance /\ ~(New.boot > 0)
  BY NewIs DEF New
<1>5. resume' \in Thread /\ resume'.at # "giveup" /\ resume'.try <= MaxRetries
  BY <1>1, <1>2, BootTypes
<1>6. TypeOK'
  BY <1>1, <1>2, <1>3, <1>4, <1>5, RestTypes DEF TypeOK
<1>7. \A i \in Instances : ~(inst'[i].boot > 0)
  BY <1>2, <1>4
<1> QED
  BY <1>5, <1>6, <1>7 DEF Typed

LEMMA NextTyped == ASSUME Typed, [Next]_vars PROVE Typed'
<1>1. CASE Next
  BY <1>1, RowsTypes, OpTypes, EditTypes, ResumeTypes, InstanceTypes, CrashTypes
     DEF Next, Handlers, Edits
<1>2. CASE UNCHANGED vars
  BY <1>2 DEF vars, memory, Typed, TypeOK
<1> QED
  BY <1>1, <1>2

LEMMA InitTyped == ASSUME Init PROVE Typed
<1>1. New \in Instance /\ ~(New.boot > 0)
  BY NewIs DEF New
<1>2. row \in Rows /\ crashes \in 0..MaxCrashes /\ world \in Worlds
  BY Constants DEF Init
<1>3. resume \in Thread /\ resume.at # "giveup" /\ resume.try <= MaxRetries
  BY <1>2, BootTypes DEF Init
<1>4. TypeOK
  BY <1>1, <1>2, <1>3, RestTypes DEF Init, TypeOK
<1>5. \A i \in Instances : ~(inst[i].boot > 0)
  BY <1>1 DEF Init
<1> QED
  BY <1>3, <1>4, <1>5 DEF Typed

\* Types, whatever happens; a resume has a retry left before it gives up.
THEOREM TypeCorrect == Spec => []TypeOK
<1>1. Init => Typed
  BY InitTyped
<1>2. Typed /\ [Next]_vars => Typed'
  BY NextTyped
<1>3. Typed => TypeOK
  BY DEF Typed
<1> QED
  BY <1>1, <1>2, <1>3, PTL DEF Spec
----------------------------------------------------------------------------
\* An instance that was asked to stop does not come up, however far its start had got: the
\* one step that says an instance runs looks at the flag.
THEOREM StopHolds == Spec => StopTakesHold
<1>1. Init => Typed
  BY InitTyped
<1>2. Typed /\ [Next]_vars => Typed'
  BY NextTyped
<1>3. ASSUME Typed, [Next]_vars
      PROVE  [\A i \in Instances :
                 inst[i].stopRequested /\ inst'[i].stopRequested /\ ~inst[i].running
                    => ~inst'[i].running]_vars
  <2> SUFFICES ASSUME NEW i \in Instances, inst[i].stopRequested, ~inst[i].running, Next
               PROVE  ~inst'[i].running
    BY <1>3
  <2>1. inst \in [Instances -> Instance] /\ registry \in Instances \cup {NoInst}
    BY <1>3 DEF Typed, TypeOK
  <2>2. CASE inst' = inst
    BY <2>2
  <2>3. CASE \E j \in Instances, s \in Instance : Set(j, s) /\ (j = i => ~s.running)
    BY <2>1, <2>3 DEF Set
  <2>4. CASE registry \in Instances /\ Set(registry, Asked(registry))
    <3>1. Asked(registry) \in Instance /\ (registry = i => ~Asked(registry).running)
      BY <2>1, <2>4, AskedIs
    <3> QED
      BY <2>3, <2>4, <3>1
  <2>5. CASE \E j \in Instances, who \in {"route", "resume"} : Set(j, Begun(j, who))
    <3>1. PICK j \in Instances, who \in {"route", "resume"} : Set(j, Begun(j, who))
      BY <2>5
    <3>2. Begun(j, who) \in Instance /\ (j = i => ~Begun(j, who).running)
      BY <2>1, BegunIs
    <3> QED
      BY <2>3, <3>1, <3>2
  <2>6. CASE \E j \in Instances : BootStep(j)
    <3>1. PICK j \in Instances : BootStep(j)
      BY <2>6
    <3>2. Booted(j) \in Instance /\ (j = i => ~Booted(j).running)
      BY <2>1, <3>1, BootedIs DEF BootStep
    <3> QED
      BY <2>3, <3>1, <3>2 DEF BootStep
  <2>7. CASE \E j \in Instances : BootFails(j)
    <3>1. PICK j \in Instances : BootFails(j)
      BY <2>7
    <3>2. inst[j] \in Instance
      BY <2>1
    <3>3. /\ [inst[j] EXCEPT !.boot = 0] \in Instance
          /\ [inst[j] EXCEPT !.boot = 0].running = inst[j].running
      BY <3>2, Boots DEF Instance
    <3> QED
      BY <2>3, <3>1, <3>3 DEF BootFails
  <2>8. CASE \E j \in Instances : StopEnds(j)
    <3>1. PICK j \in Instances : StopEnds(j)
      BY <2>8
    <3>2. Halted(inst[j]) \in Instance /\ ~Halted(inst[j]).running
      BY <2>1, HaltedIs
    <3>3. /\ [Halted(inst[j]) EXCEPT !.stopping = FALSE] \in Instance
          /\ ~[Halted(inst[j]) EXCEPT !.stopping = FALSE].running
      BY <3>2 DEF Instance
    <3> QED
      BY <2>3, <3>1, <3>3 DEF StopEnds
  <2>9. CASE Crash \/ \E j \in Instances : Collect(j)
    <3>1. New \in Instance /\ ~New.running
      BY NewIs DEF New
    <3> QED
      BY <2>3, <2>9, <3>1 DEF Crash, Collect
  <2>10. CASE Resuming
    <3>1. CASE ResumeStarts /\ resume.on \notin Instances
      <4>1. inst' = inst
        BY <2>1, <3>1 DEF ResumeStarts, Set
      <4> QED
        BY <2>2, <4>1
    <3>2. CASE ResumeStarts /\ resume.on \in Instances
      BY <2>2, <2>5, <3>2 DEF ResumeStarts
    <3> QED
      BY <2>1, <2>2, <2>4, <2>10, <3>1, <3>2 DEF Resuming, ResumeLooksUp, StopsOld,
         ResumeWithoutKeys, ResumeThrows, ResumeDiscards, ResumeCreates, ResumeGivesUp
  <2>11. CASE \/ RequestStart \/ RequestStop \/ DeleteRemoves \/ PatchChecks \/ AdminDrops
              \/ Handlers \/ Edits \/ Rollback \/ WatchdogResumes
    BY <2>1, <2>2, <2>4, <2>5, <2>11, UnusedIs DEF RequestStart, RequestStop, DeleteRemoves,
       PatchChecks,
       AdminDrops, Handlers, Edits, Rollback, WatchdogResumes, StartPersists, StartLooksUp,
       StopsOld, StartDiscards, StartCreates, StopAwaited, StopPersists, DeleteRow, PatchRemoves,
       AdminFlips, OperationThrows, EditThrows, Removed
  <2> QED
    BY <2>6, <2>7, <2>8, <2>9, <2>10, <2>11 DEF Next, Inside
<1> QED
  BY <1>1, <1>2, <1>3, PTL DEF Spec, StopTakesHold
----------------------------------------------------------------------------
(* The start and stop routes by themselves *)

\* No engine fails, nothing edits or crashes, and the process boots with the bot at rest.
RoutesOnly == world \subseteq {"start", "stop", "rows"}

Asleep(s) == s.boot = 0 /\ ~s.running /\ s.engines = {} /\ s.ticking = {}

\* An instance has the engines its start and stop left it: none once a stop is through, none
\* unless it starts or runs.
Sound(s) ==
    /\ s.ticking \subseteq s.engines
    /\ s.stopping => s.stopRequested
    /\ s.stopRequested /\ ~s.stopping => s.engines = {} /\ ~s.running
    /\ ~s.stopRequested /\ s.boot = 0 /\ ~s.running => s.engines = {}

ByRoutes ==
    /\ resume = Rest /\ edit = "none" /\ ~rollback
    /\ op.at \in {"none", "persist", "lookup", "discard", "create", "stopping", "stopped"}

\* What is not asleep is in botsMap.
Registered == \A i \in Instances : ~Asleep(inst[i]) => registry = i

\* What the start that is under way relies on; a row that runs has an instance, so that the
\* watchdog finds nothing to do.
StartTracks ==
    /\ op.at = "discard" => /\ op.on = registry /\ registry # NoInst
                            /\ ~Live(registry) /\ inst[registry].stopRequested
    /\ op.at = "create" => registry = NoInst
    /\ op.at \in {"lookup", "discard", "create"} => row = "running"
    /\ op.at \notin {"lookup", "discard", "create"} /\ row = "running" => registry # NoInst

\* Once a stop has looked, and until the next start, no instance comes up.
Ended ==
    \/ op.at \in {"stopping", "stopped"}
    \/ op.at \in {"none", "persist"} /\ row # "running"
EndTracks == Ended => \A i \in Instances : inst[i].stopRequested \/ ~Live(i)

RInv == /\ TypeOK /\ ByRoutes /\ (\A i \in Instances : Sound(inst[i]))
        /\ Registered /\ StartTracks /\ EndTracks

\* Of all steps, those of the routes.
LEMMA RouteSteps ==
    ASSUME RoutesOnly, RInv, Next
    PROVE  \/ RequestStart \/ RequestStop \/ Handlers
           \/ \E i \in Instances : BootStep(i) \/ StopEnds(i) \/ Collect(i)
<1>1. /\ "fail" \notin world /\ "edit" \notin world /\ "admin" \notin world
      /\ "crash" \notin world
  BY DEF RoutesOnly
<1>2. resume.at = "none" /\ edit = "none" /\ ~rollback
  BY RestTypes DEF RInv, ByRoutes
<1>3. ~WatchdogResumes
  BY DEF RInv, StartTracks, WatchdogResumes
<1>4. ~Resuming
  BY <1>2 DEF Resuming, ResumeLooksUp, ResumeWithoutKeys, ResumeThrows, ResumeDiscards,
     ResumeCreates, ResumeStarts, ResumeGivesUp
<1>5. ~DeleteRemoves /\ ~PatchChecks /\ ~AdminDrops /\ ~Edits /\ ~Rollback /\ ~Crash
  BY <1>1, <1>2 DEF DeleteRemoves, PatchChecks, AdminDrops, Edits, DeleteRow, PatchRemoves,
     AdminFlips, EditThrows, Rollback, Crash, Editable
<1>6. \A i \in Instances : ~BootFails(i)
  BY <1>1 DEF BootFails
<1> QED
  BY <1>3, <1>4, <1>5, <1>6 DEF Next, Inside

\* One instance changes, the registry does not.
LEMMA OneSounds ==
    ASSUME RInv, NEW i \in Instances, NEW s \in Instance, Set(i, s), Sound(s),
           registry' = registry, ~Asleep(s) => registry = i
    PROVE  /\ inst' \in [Instances -> Instance]
           /\ inst'[i] = s /\ \A j \in Instances : j # i => inst'[j] = inst[j]
           /\ \A j \in Instances : Sound(inst'[j])
           /\ \A j \in Instances : ~Asleep(inst'[j]) => registry = j
BY DEF RInv, TypeOK, Set, Registered

\* Nothing but the row and the request moves.
LEMMA OnlyRequest ==
    ASSUME RInv, UNCHANGED <<registry, inst, resume, edit, rollback>>
    PROVE  /\ \A i \in Instances : Sound(inst'[i])
           /\ Registered' /\ (\A i \in Instances : Live(i)' = Live(i))
BY DEF RInv, Registered, Live, Starting

\* stop() of what is registered, up to its first await.
LEMMA AskedSounds ==
    ASSUME RInv, registry \in Instances, Set(registry, Asked(registry)), registry' = registry
    PROVE  /\ \A j \in Instances : Sound(inst'[j])
           /\ Registered'
           /\ inst'[registry].stopRequested
           /\ \A j \in Instances : Live(j)' = Live(j)
           /\ \A j \in Instances : j # registry => inst'[j] = inst[j] /\ ~Live(j)
<1>1. inst \in [Instances -> Instance]
  BY DEF RInv, TypeOK
<1>2. Asked(registry) \in Instance /\ Sound(Asked(registry))
  BY <1>1, AskedIs DEF Sound, RInv
<1>3. /\ inst'[registry] = Asked(registry)
      /\ \A j \in Instances : j # registry => inst'[j] = inst[j]
      /\ \A j \in Instances : Sound(inst'[j])
      /\ \A j \in Instances : ~Asleep(inst'[j]) => registry = j
  BY <1>2, OneSounds
<1>4. \A j \in Instances : Live(j)' = Live(j)
  <2>1. inst'[registry].boot = inst[registry].boot
        /\ inst'[registry].running = inst[registry].running
    BY <1>1, <1>3, AskedIs
  <2> QED
    BY <1>3, <2>1 DEF Live, Starting
<1>5. \A j \in Instances : j # registry => ~Live(j)
  BY <1>1 DEF RInv, Registered, Asleep, Live, Starting, Instance
<1> QED
  BY <1>1, <1>3, <1>4, <1>5, AskedIs DEF Registered

LEMMA StartRoute ==
    ASSUME RInv, TypeOK',
           \/ RequestStart \/ StartPersists \/ StartLooksUp \/ StartDiscards \/ StartCreates
    PROVE  RInv'
<1>1. /\ op \in Thread /\ registry \in Instances \cup {NoInst} /\ inst \in [Instances -> Instance]
      /\ row \in Rows /\ NoInst \notin Instances
  BY Constants DEF RInv, TypeOK
<1>2. UNCHANGED <<resume, edit, rollback>>
  BY DEF RequestStart, StartPersists, StartLooksUp, StartDiscards, StartCreates
<1>3. CASE RequestStart
  <2>1. op'.at = "persist" /\ row' # "running" <=> op'.at = "persist" /\ row # "running"
    BY <1>3 DEF RequestStart
  <2>2. op.at = "none" /\ op'.at = "persist"
    BY <1>3 DEF RequestStart, Rest
  <2>3. \A i \in Instances : Sound(inst'[i])
    BY <1>3, OnlyRequest DEF RequestStart
  <2>4. Registered' /\ \A i \in Instances : Live(i)' = Live(i) /\ inst'[i] = inst[i]
    BY <1>3, OnlyRequest DEF RequestStart
  <2>5. EndTracks'
    BY <2>1, <2>2, <2>4 DEF RInv, EndTracks, Ended
  <2>6. ByRoutes' /\ StartTracks'
    BY <1>2, <1>3, <2>2 DEF RequestStart, RInv, ByRoutes, StartTracks
  <2> QED
    BY <2>3, <2>4, <2>5, <2>6 DEF RInv
<1>4. CASE StartPersists
  <2>1. /\ op.at = "persist"
        /\ \/ row = "none" /\ row' = "none" /\ op'.at = "none"
           \/ row' = "running" /\ op'.at = "lookup"
    BY <1>1, <1>4, RestTypes DEF StartPersists, Flagged, Thread
  <2>2. \A i \in Instances : Sound(inst'[i])
    BY <1>4, OnlyRequest DEF StartPersists
  <2>3. Registered' /\ \A i \in Instances : Live(i)' = Live(i) /\ inst'[i] = inst[i]
    BY <1>4, OnlyRequest DEF StartPersists
  <2>4. EndTracks'
    BY <2>1, <2>3 DEF RInv, EndTracks, Ended
  <2>5. ByRoutes' /\ StartTracks'
    BY <1>2, <2>1 DEF RInv, ByRoutes, StartTracks
  <2> QED
    BY <2>2, <2>3, <2>4, <2>5 DEF RInv
<1>5. CASE StartLooksUp
  <2>1. op.at = "lookup" /\ row = "running" /\ row' = "running" /\ registry' = registry
    BY <1>5 DEF StartLooksUp, StopsOld, RInv, StartTracks
  <2>2. CASE StopsOld(op, op')
    <3>1. /\ registry \in Instances /\ ~Live(registry) /\ Set(registry, Asked(registry))
          /\ op' = [op EXCEPT !.at = "discard", !.on = registry]
      BY <1>1, <2>2 DEF StopsOld
    <3>2. op'.at = "discard" /\ op'.on = registry
      BY <1>1, <3>1 DEF Thread
    <3>3. /\ \A j \in Instances : Sound(inst'[j])
          /\ Registered' /\ inst'[registry].stopRequested
          /\ \A j \in Instances : Live(j)' = Live(j)
      BY <2>1, <3>1, AskedSounds
    <3>4. ~Live(registry)'
      <4>1. PICK j \in Instances : j = registry /\ j = registry'
        BY <2>1, <3>1
      <4> QED
        BY <3>1, <3>3, <4>1 DEF Live, Starting
    <3>5. StartTracks'
      BY <1>1, <2>1, <3>1, <3>2, <3>3, <3>4 DEF StartTracks
    <3>6. EndTracks' /\ ByRoutes'
      BY <1>2, <2>1, <3>2 DEF EndTracks, Ended, RInv, ByRoutes
    <3> QED
      BY <3>3, <3>5, <3>6 DEF RInv
  <2>3. CASE inst' = inst /\ \/ registry = NoInst /\ op' = [op EXCEPT !.at = "create"]
                             \/ registry # NoInst /\ op' = Rest
    <3>1. \/ registry = NoInst /\ op'.at = "create"
          \/ registry # NoInst /\ op'.at = "none"
      BY <1>1, <2>3, RestTypes DEF Thread
    <3>2. \A i \in Instances : Sound(inst'[i])
      BY <1>2, <2>1, <2>3, OnlyRequest
    <3>3. Registered'
      BY <1>2, <2>1, <2>3, OnlyRequest
    <3>4. StartTracks' /\ EndTracks' /\ ByRoutes'
      BY <1>2, <2>1, <3>1 DEF StartTracks, EndTracks, Ended, RInv, ByRoutes
    <3> QED
      BY <3>2, <3>3, <3>4 DEF RInv
  <2> QED
    BY <1>5, <2>2, <2>3 DEF StartLooksUp
<1>6. CASE StartDiscards
  <2>1. /\ op.at = "discard" /\ op.on = registry /\ registry \in Instances /\ row = "running"
        /\ ~Live(registry) /\ inst[registry].stopRequested /\ ~inst[registry].stopping
        /\ registry' = NoInst /\ row' = row /\ inst' = inst
        /\ op' = [op EXCEPT !.at = "create", !.on = NoInst]
    BY <1>1, <1>6 DEF StartDiscards, RInv, StartTracks
  <2>2. Asleep(inst[registry])
    BY <1>1, <2>1 DEF RInv, Sound, Asleep, Live, Starting, Instance
  <2>3. \A i \in Instances : Asleep(inst'[i]) /\ Sound(inst'[i])
    BY <2>1, <2>2 DEF RInv, Registered
  <2>4. op'.at = "create"
    BY <1>1, <2>1 DEF Thread
  <2>5. StartTracks' /\ EndTracks' /\ ByRoutes'
    BY <1>2, <2>1, <2>4 DEF StartTracks, EndTracks, Ended, RInv, ByRoutes
  <2> QED
    BY <2>3, <2>5 DEF RInv, Registered
<1>7. CASE StartCreates
  <2>1. PICK i \in Unused : registry' = i /\ Set(i, Begun(i, "route"))
    BY <1>7 DEF StartCreates
  <2>2. op.at = "create" /\ registry = NoInst /\ row = "running" /\ row' = row /\ op' = Rest
    BY <1>7 DEF StartCreates, RInv, StartTracks
  <2>3. i \in Instances /\ inst[i] = New
    BY UnusedIs
  <2>4. Begun(i, "route") \in Instance /\ Sound(Begun(i, "route"))
    <3>1. New.engines = {} /\ New.ticking = {} /\ New.stopping = FALSE
      BY DEF New
    <3> QED
      BY <1>1, <2>3, <3>1, BegunIs DEF Sound
  <2>5. \A j \in Instances : j # i => inst'[j] = inst[j] /\ Asleep(inst[j])
    BY <1>1, <2>1, <2>2, <2>3 DEF Set, RInv, Registered
  <2>6. inst'[i] = Begun(i, "route")
    BY <1>1, <2>1, <2>3 DEF Set
  <2>7. \A j \in Instances : Sound(inst'[j])
    BY <2>4, <2>5, <2>6 DEF RInv
  <2>8. Registered'
    BY <2>1, <2>5 DEF Registered
  <2>9. StartTracks' /\ EndTracks' /\ ByRoutes'
    BY <1>1, <1>2, <2>1, <2>2, <2>3, RestTypes DEF StartTracks, EndTracks, Ended, RInv, ByRoutes
  <2> QED
    BY <2>7, <2>8, <2>9 DEF RInv
<1> QED
  BY <1>3, <1>4, <1>5, <1>6, <1>7

LEMMA StopRoute ==
    ASSUME RInv, TypeOK', RequestStop \/ StopAwaited \/ StopPersists \/ OperationThrows
    PROVE  RInv'
<1>1. /\ op \in Thread /\ registry \in Instances \cup {NoInst} /\ inst \in [Instances -> Instance]
      /\ row \in Rows /\ NoInst \notin Instances
  BY Constants DEF RInv, TypeOK
<1>2. UNCHANGED <<registry, resume, edit, rollback>>
  BY DEF RequestStop, StopAwaited, StopPersists, OperationThrows
<1>3. CASE RequestStop
  <2>1. op.at = "none" /\ row' = row
    BY <1>3 DEF RequestStop
  <2>2. CASE registry # NoInst /\ Set(registry, Asked(registry)) /\ op'.at = "stopping"
    <3>1. /\ registry \in Instances
          /\ \A j \in Instances : Sound(inst'[j])
          /\ Registered' /\ inst'[registry].stopRequested
          /\ \A j \in Instances : Live(j)' = Live(j)
          /\ \A j \in Instances : j # registry => inst'[j] = inst[j] /\ ~Live(j)
      BY <1>1, <1>2, <2>2, AskedSounds
    <3>2. EndTracks'
      BY <3>1 DEF EndTracks
    <3>3. StartTracks' /\ ByRoutes'
      BY <1>2, <2>1, <2>2 DEF RInv, ByRoutes, StartTracks
    <3> QED
      BY <3>1, <3>2, <3>3 DEF RInv
  <2>3. CASE (registry # NoInst => ~Live(registry)) /\ inst' = inst /\ op'.at = "stopped"
    <3>1. \A i \in Instances : Sound(inst'[i])
      BY <1>2, <2>3, OnlyRequest
    <3>2. Registered' /\ \A i \in Instances : Live(i)' = Live(i)
      BY <1>2, <2>3, OnlyRequest
    <3>3. \A i \in Instances : ~Live(i)
      BY <1>1, <2>3 DEF RInv, Registered, Asleep, Live, Starting, Instance
    <3>4. EndTracks'
      BY <3>2, <3>3 DEF EndTracks
    <3>5. StartTracks' /\ ByRoutes'
      BY <1>2, <2>1, <2>3 DEF RInv, ByRoutes, StartTracks
    <3> QED
      BY <3>1, <3>2, <3>4, <3>5 DEF RInv
  <2>4. [Rest EXCEPT !.at = "stopping", !.on = registry].at = "stopping"
    BY DEF Rest
  <2>5. [Rest EXCEPT !.at = "stopped"].at = "stopped"
    BY DEF Rest
  <2> QED
    BY <1>3, <2>2, <2>3, <2>4, <2>5 DEF RequestStop
<1>4. CASE StopAwaited \/ StopPersists \/ OperationThrows
  <2>1. inst' = inst
    BY <1>4 DEF StopAwaited, StopPersists, OperationThrows
  <2>2. \A i \in Instances : Sound(inst'[i])
    BY <1>2, <2>1, OnlyRequest
  <2>3. Registered' /\ \A i \in Instances : Live(i)' = Live(i)
    BY <1>2, <2>1, OnlyRequest
  <2>4. op.at \in {"stopping", "stopped"} \/ (op.at = "persist" /\ row' = row)
    BY <1>4 DEF StopAwaited, StopPersists, OperationThrows
  <2>5. /\ op'.at \in {"none", "stopped"}
        /\ row' = row \/ row' # "running"
        /\ op.at = "persist" => op'.at = "none"
    BY <1>4, RestTypes DEF StopAwaited, StopPersists, OperationThrows, Flagged, Rest
  <2>6. EndTracks'
    BY <2>1, <2>3, <2>4, <2>5 DEF RInv, EndTracks, Ended
  <2>7. StartTracks' /\ ByRoutes'
    BY <1>2, <2>4, <2>5 DEF RInv, ByRoutes, StartTracks
  <2> QED
    BY <2>2, <2>3, <2>6, <2>7 DEF RInv
<1> QED
  BY <1>3, <1>4

LEMMA InsideRoute ==
    ASSUME RInv, TypeOK', \E i \in Instances : BootStep(i) \/ StopEnds(i) \/ Collect(i)
    PROVE  RInv'
<1>1. PICK i \in Instances : BootStep(i) \/ StopEnds(i) \/ Collect(i)
  OBVIOUS
<1>2. /\ registry \in Instances \cup {NoInst} /\ inst \in [Instances -> Instance]
      /\ NoInst \notin Instances /\ inst[i] \in Instance
  BY Constants DEF RInv, TypeOK
<1>3. UNCHANGED <<row, registry, op, edit, rollback>> /\ resume' = Rest
  BY <1>1 DEF BootStep, StopEnds, Collect, RInv, ByRoutes
<1>4. PICK s \in Instance :
          /\ Set(i, s) /\ Sound(s) /\ (~Asleep(s) => registry = i)
          /\ s.boot > 0 \/ s.running => Live(i) /\ s.stopRequested = inst[i].stopRequested
          /\ registry = i => s.stopRequested = inst[i].stopRequested
  <2>1. CASE BootStep(i)
    <3>1. Booted(i) \in Instance /\ Live(i)
      BY <1>2, <2>1, BootedIs DEF BootStep, Live
    <3>2. Sound(Booted(i))
      <4>1. Sound(inst[i])
        BY DEF RInv
      <4>2. CASE inst[i].stopRequested
        BY <1>2, <2>1, <4>2, BootedIs DEF BootStep, Sound
      <4>3. CASE ~inst[i].stopRequested
        <5>1. /\ Booted(i).ticking \subseteq Booted(i).engines
              /\ Booted(i).stopRequested = inst[i].stopRequested
              /\ Booted(i).stopping = inst[i].stopping
              /\ Booted(i).boot > 0 \/ Booted(i).running
          BY <1>2, <2>1, <4>1, <4>3, BootedIs DEF BootStep, Sound
        <5>2. ~inst[i].stopping
          BY <4>1, <4>3 DEF Sound
        <5>3. Booted(i).boot = 0 => Booted(i).running
          BY <5>1
        <5> QED
          BY <4>3, <5>1, <5>2, <5>3 DEF Sound
      <4> QED
        BY <4>2, <4>3
    <3>3. registry = i
      BY <1>2, <2>1 DEF RInv, Registered, Asleep, BootStep, Starting, Instance
    <3> QED
      BY <1>2, <2>1, <3>1, <3>2, <3>3, BootedIs DEF BootStep
  <2>2. CASE StopEnds(i)
    <3> DEFINE s == [Halted(inst[i]) EXCEPT !.stopping = FALSE]
    <3>1. Halted(inst[i]) \in Instance
      BY <1>2, HaltedIs
    <3>2. /\ s \in Instance /\ ~s.stopping
          /\ s.boot = Halted(inst[i]).boot /\ s.running = Halted(inst[i]).running
          /\ s.engines = Halted(inst[i]).engines /\ s.ticking = Halted(inst[i]).ticking
          /\ s.stopRequested = Halted(inst[i]).stopRequested
      BY <3>1 DEF Instance
    <3>3. Set(i, s)
      BY <2>2 DEF StopEnds
    <3> HIDE DEF s
    <3>4. /\ s.boot = inst[i].boot /\ ~s.running /\ s.engines = {} /\ s.ticking = {}
          /\ s.stopRequested = inst[i].stopRequested
      BY <1>2, <3>2, HaltedIs
    <3>5. inst[i].stopRequested
      BY <2>2 DEF StopEnds, RInv, Sound
    <3>6. Sound(s)
      BY <3>2, <3>4, <3>5 DEF Sound
    <3>7. ~Asleep(s) => ~Asleep(inst[i])
      BY <3>4 DEF Asleep
    <3>8. ~Asleep(s) => registry = i
      BY <3>7 DEF RInv, Registered
    <3>9. s.boot > 0 \/ s.running => Live(i)
      BY <3>4 DEF Live, Starting
    <3> QED
      BY <3>2, <3>3, <3>4, <3>6, <3>8, <3>9
  <2>3. CASE Collect(i)
    <3>1. New \in Instance /\ Sound(New) /\ Asleep(New)
      BY NewIs DEF New, Sound, Asleep
    <3>2. New.boot = 0 /\ ~New.running /\ registry # i /\ Set(i, New)
      BY <2>3 DEF New, Collect
    <3> QED
      BY <3>1, <3>2
  <2> QED
    BY <1>1, <2>1, <2>2, <2>3
<1>5. /\ inst' \in [Instances -> Instance]
      /\ inst'[i] = s /\ \A j \in Instances : j # i => inst'[j] = inst[j]
      /\ \A j \in Instances : Sound(inst'[j])
      /\ \A j \in Instances : ~Asleep(inst'[j]) => registry = j
  BY <1>3, <1>4, OneSounds
<1>6. Registered'
  BY <1>3, <1>5 DEF Registered
<1>7. \A j \in Instances : Live(j)' => Live(j) /\ inst'[j].stopRequested = inst[j].stopRequested
  BY <1>4, <1>5 DEF Live, Starting
<1>8. EndTracks'
  BY <1>3, <1>7 DEF RInv, EndTracks, Ended
<1>9. StartTracks'
  <2>1. CASE op.at = "discard"
    <3>1. op.on = registry /\ registry \in Instances /\ ~Live(registry)
          /\ inst[registry].stopRequested
      BY <1>2, <2>1 DEF RInv, StartTracks
    <3>2. PICK j \in Instances : j = registry
      BY <3>1
    <3>3. ~Live(j)'
      BY <1>7, <3>1, <3>2
    <3>4. inst'[j].stopRequested
      BY <1>4, <1>5, <3>1, <3>2
    <3>5. ~Live(registry)' /\ inst'[registry].stopRequested
      BY <1>3, <3>2, <3>3, <3>4 DEF Live, Starting
    <3> QED
      BY <1>3, <2>1, <3>1, <3>5 DEF RInv, StartTracks
  <2>2. CASE op.at # "discard"
    BY <1>3, <2>2 DEF RInv, StartTracks
  <2> QED
    BY <2>1, <2>2
<1>10. ByRoutes'
  BY <1>3 DEF RInv, ByRoutes
<1> QED
  BY <1>5, <1>6, <1>8, <1>9, <1>10 DEF RInv

LEMMA NextRoutes == ASSUME RoutesOnly, RInv, TypeOK', [Next]_vars PROVE RInv'
<1>1. CASE Next
  BY <1>1, RouteSteps, StartRoute, StopRoute, InsideRoute DEF Handlers
<1>2. CASE UNCHANGED vars
  BY <1>2 DEF vars, memory, RInv, TypeOK, ByRoutes, Registered, StartTracks, EndTracks, Ended, Live,
     Starting
<1> QED
  BY <1>1, <1>2

LEMMA InitRoutes == ASSUME RoutesOnly, Init PROVE RInv
<1>1. TypeOK
  BY InitTyped DEF Typed
<1>2. row # "running" /\ row \in Rows
  BY <1>1 DEF Init, RoutesOnly, TypeOK
<1>3. resume = Rest /\ op.at = "none"
  BY <1>2, BootTypes, RestTypes DEF Init
<1>4. Sound(New) /\ Asleep(New) /\ New.boot = 0 /\ ~New.running
  BY DEF New, Sound, Asleep
<1>5. \A i \in Instances : Sound(inst[i]) /\ Asleep(inst[i]) /\ ~Live(i)
  BY <1>4 DEF Init, Live, Starting
<1> QED
  BY <1>1, <1>2, <1>3, <1>5 DEF Init, RInv, ByRoutes, Registered, StartTracks, EndTracks

LEMMA WorldStays == ASSUME [Next]_vars PROVE world' = world
<1>1. CASE Next
  BY <1>1 DEF Next, RequestStart, RequestStop, DeleteRemoves, PatchChecks, AdminDrops, Handlers,
     StartPersists, StartLooksUp, StartDiscards, StartCreates, StopAwaited, StopPersists,
     OperationThrows, Edits, EditThrows, ResumeThrows, DeleteRow, PatchRemoves, AdminFlips,
     Rollback, WatchdogResumes, Resuming, ResumeLooksUp,
     ResumeWithoutKeys, ResumeDiscards, ResumeCreates, ResumeStarts, ResumeGivesUp, Inside,
     BootStep, BootFails, StopEnds, Collect, Crash
<1>2. CASE UNCHANGED vars
  BY <1>2 DEF vars
<1> QED
  BY <1>1, <1>2

RoutesInv == Typed /\ (RoutesOnly => RInv)

LEMMA RoutesStart == Init => RoutesInv
BY InitRoutes, InitTyped DEF RoutesInv

LEMMA RoutesGoOn == RoutesInv /\ [Next]_vars => RoutesInv'
<1> SUFFICES ASSUME RoutesInv, [Next]_vars PROVE RoutesInv'
  OBVIOUS
<1>1. Typed' /\ TypeOK'
  BY NextTyped DEF RoutesInv, Typed
<1>2. RoutesOnly' => RoutesOnly
  BY WorldStays DEF RoutesOnly
<1> QED
  BY <1>1, <1>2, NextRoutes DEF RoutesInv

\* What ticks is in botsMap, so that one group trades at most and a stop finds it, and a bot
\* whose row says stopped is silent once its stop is answered: as long as only the start and
\* stop routes work on it, even where its updates fail.
THEOREM RoutesAreQuiet == Spec => []RoutesQuiet
<1>1. RInv => StoppedIsQuiet /\ NoOrphanTicks
  <2> SUFFICES ASSUME RInv PROVE StoppedIsQuiet /\ NoOrphanTicks
    OBVIOUS
  <2>1. NoOrphanTicks
    BY DEF RInv, Registered, Asleep, NoOrphanTicks
  <2>2. ASSUME AtRest, row # "running", NEW i \in Instances PROVE inst[i].ticking = {}
    <3>1. inst[i].stopRequested \/ ~Live(i)
      BY <2>2 DEF RInv, EndTracks, Ended, AtRest
    <3>2. ~inst[i].stopping /\ ~(inst[i].boot > 0) /\ inst[i] \in Instance
      BY <2>2 DEF AtRest, Starting, RInv, TypeOK
    <3>3. inst[i].boot = 0
      BY <3>2 DEF Instance
    <3>4. inst[i].engines = {}
      BY <3>1, <3>2, <3>3 DEF RInv, Sound, Live
    <3> QED
      BY <3>4 DEF RInv, Sound
  <2> QED
    BY <2>1, <2>2 DEF StoppedIsQuiet
<1>2. RoutesInv => RoutesQuiet
  BY <1>1 DEF RoutesInv, RoutesOnly, RoutesQuiet
<1> QED
  BY <1>2, RoutesStart, RoutesGoOn, PTL DEF Spec

\* One group of engines trades for the coin at most: no duplicate sessions, no double orders.
THEOREM OneGroup == Spec => [](RoutesOnly => OneGroupTicks)
<1>1. RoutesQuiet => (RoutesOnly => OneGroupTicks)
  BY DEF RoutesQuiet, RoutesOnly, NoOrphanTicks, OneGroupTicks
<1> QED
  BY <1>1, RoutesAreQuiet, PTL
=============================================================================
