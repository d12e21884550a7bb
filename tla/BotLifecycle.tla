---------------------------- MODULE BotLifecycle ----------------------------
(***************************************************************************)
(* The life of the bot of one user and coin: its row in the database, the  *)
(* entry of botsMap (server/app.js), the MultiStrategyCoordinator          *)
(* instances that were ever made for it, and the callers that work on them *)
(* at the same time: the start and stop routes (one at a time, botOpLock), *)
(* the routes that edit or delete the bot and the admin's stop-all (no     *)
(* lock), and the resume of the boot and of the watchdog (no lock either). *)
(*                                                                         *)
(* What an engine does while it ticks is TradingGroup's, the reservations  *)
(* of a start are StartGate's.                                             *)
(***************************************************************************)
EXTENDS Naturals, FiniteSets

CONSTANTS NEngines,    \* strategies of the tier, started in order
          Instances,   \* bound: instances alive at one time
          Fewer,       \* bound: the same where edits make more of them
          NoInst,
          MaxRetries,  \* RESUME_MAX_RETRIES
          MaxCrashes,  \* bound
          Worlds       \* bound: sets of events, see world

ASSUME BotLifecycleAssumption ==
    /\ NEngines \in Nat \ {0} /\ MaxRetries \in Nat \ {0} /\ MaxCrashes \in Nat
    /\ NoInst \notin Instances /\ Fewer \subseteq Instances
    /\ Worlds \subseteq SUBSET {"start", "stop", "fail", "edit", "admin", "crash", "resume", "rows"}

VARIABLES row,       \* prisma.bot: absent, or its running flag
          registry,  \* botsMap[key]
          inst,      \* the instances
          op,        \* the start or stop request that holds botOpLock
          resume,    \* resumeOneBot, one at a time (_resumeInFlight)
          edit,      \* a DELETE, PATCH or stop-all request
          rollback,  \* the catch of a start in the background still has to write the row
          crashes,
          world      \* what may happen to the bot; "resume": the process boots with a row
                     \* that says running; "rows": calls of the database about it may fail

memory == <<registry, inst, op, resume, edit, rollback>>
vars == <<row, memory, crashes, world>>

Engines == 1..NEngines
Rows == {"none", "stopped", "running"}

\* boot: 0 when start() is not running, 1 in its pre-flight, k + 1 awaiting the start
\* of engine k; ticking: the engines that run; by: who awaits start().
Instance == [boot : 0..(NEngines + 1), stopRequested : BOOLEAN, running : BOOLEAN,
             engines : SUBSET Engines, ticking : SUBSET Engines, stopping : BOOLEAN,
             by : {"route", "resume"}]
New == [boot |-> 0, stopRequested |-> FALSE, running |-> FALSE, engines |-> {},
        ticking |-> {}, stopping |-> FALSE, by |-> "route"]

Starting(i) == inst[i].boot > 0
Live(i) == inst[i].running \/ Starting(i)

\* The collector may take an instance nothing refers to.
Unused ==
    {i \in IF "edit" \in world THEN Fewer ELSE Instances :
        inst[i] = New /\ i \notin {registry, op.on, resume.on}}

\* Bound: nothing begins that could run out of instances.
Attempts == IF resume.at = "none" THEN 0 ELSE MaxRetries + 1 - resume.try
Room(n) == Cardinality(Unused) >= n

Set(i, r) == inst' = [inst EXCEPT ![i] = r]
----------------------------------------------------------------------------
(* MultiStrategyCoordinator *)

\* start() up to its first await.
Begun(i, who) == [inst[i] EXCEPT !.boot = 1, !.stopRequested = FALSE, !.by = who]

\* stop() up to its first await; StopEnds is the rest.
Asked(i) == [inst[i] EXCEPT !.stopRequested = TRUE, !.stopping = TRUE]

Halted(r) == [r EXCEPT !.engines = {}, !.ticking = {}, !.running = FALSE]

StopEnds(i) ==
    /\ inst[i].stopping
    /\ Set(i, [Halted(inst[i]) EXCEPT !.stopping = FALSE])
    /\ UNCHANGED <<row, registry, op, resume, edit, rollback, crashes, world>>

\* An engine whose start is answered ticks, unless stop() got to it before.
Ticking(i) == inst[i].ticking \cup ({inst[i].boot - 1} \cap inst[i].engines)

\* Mutant: stop() is not looked at between the engines.
BootedDeaf(i) ==
    LET r == [inst[i] EXCEPT !.ticking = Ticking(i)] IN
    IF r.boot <= NEngines
    THEN [r EXCEPT !.boot = @ + 1, !.engines = @ \cup {r.boot}]
    ELSE [r EXCEPT !.boot = 0, !.running = TRUE]

\* Mutant: the loop over the strategies runs one too far.
BootedPast(i) ==
    LET r == [inst[i] EXCEPT !.ticking = Ticking(i)] IN
    IF r.stopRequested THEN [Halted(r) EXCEPT !.boot = 0]
    ELSE IF r.boot <= NEngines + 1
         THEN [r EXCEPT !.boot = @ + 1, !.engines = @ \cup {r.boot}]
         ELSE [r EXCEPT !.boot = 0, !.running = TRUE]

\* What an answered await of start() leaves: the abort, the next engine, or the end.
Booted(i) ==
    LET r == [inst[i] EXCEPT !.ticking = Ticking(i)] IN
    IF r.stopRequested THEN [Halted(r) EXCEPT !.boot = 0]
    ELSE IF r.boot <= NEngines
         THEN [r EXCEPT !.boot = @ + 1, !.engines = @ \cup {r.boot}]
         ELSE [r EXCEPT !.boot = 0, !.running = TRUE]

Rest == [at |-> "none", on |-> NoInst, try |-> 0]

BootStep(i) ==
    /\ Starting(i)
    /\ Set(i, Booted(i))
    /\ resume' = IF inst[i].by = "resume" /\ Booted(i).boot = 0 THEN Rest ELSE resume
    /\ UNCHANGED <<row, registry, op, edit, rollback, crashes, world>>

\* An attempt of resumeOneBot throws: the next one, or none is left.
Retried == [at |-> IF resume.try < MaxRetries THEN "lookup" ELSE "giveup",
            on |-> NoInst, try |-> resume.try + 1]

\* An engine's start throws: start() rejects, the engines before it stay. The route
\* rolls the row back, the resume tries again.
BootFails(i) ==
    /\ inst[i].boot > 1 /\ "fail" \in world
    /\ Set(i, [inst[i] EXCEPT !.boot = 0])
    /\ CASE inst[i].by = "route" -> rollback' = TRUE /\ UNCHANGED resume
         [] inst[i].by = "resume" ->
              /\ resume' = Retried
              /\ UNCHANGED rollback
    /\ UNCHANGED <<row, registry, op, edit, crashes, world>>

\* An update of a row that is gone throws.
Flagged(flag) == IF row = "none" THEN "none" ELSE flag

\* What an update leaves whose failure is swallowed.
Update(flag) ==
    \/ row' = Flagged(flag)
    \/ "rows" \in world /\ UNCHANGED row

Rollback ==
    /\ rollback
    /\ rollback' = FALSE
    /\ Update("stopped")
    /\ UNCHANGED <<registry, inst, op, resume, edit, crashes, world>>
----------------------------------------------------------------------------
(* POST start and POST stop *)

RequestStart ==
    /\ op.at = "none" /\ "start" \in world /\ Room(Attempts + 1)
    /\ op' = [Rest EXCEPT !.at = "persist"]
    /\ row' = IF row = "none" THEN "stopped" ELSE row
    /\ UNCHANGED <<registry, inst, resume, edit, rollback, crashes, world>>

StartPersists ==
    /\ op.at = "persist"
    /\ row' = Flagged("running")
    /\ op' = IF row = "none" THEN Rest ELSE [op EXCEPT !.at = "lookup"]
    /\ UNCHANGED <<registry, inst, resume, edit, rollback, crashes, world>>

\* The update throws: 500, with the start or the stop left as far as it got.
OperationThrows ==
    /\ op.at \in {"persist", "stopped"} /\ "rows" \in world
    /\ op' = Rest
    /\ UNCHANGED <<row, registry, inst, resume, edit, rollback, crashes, world>>

\* createMultiStrategyInstance up to its first await: an instance at rest is stopped
\* first, one that runs or starts is returned at once.
StopsOld(thread, thread2) ==
    /\ registry # NoInst /\ ~Live(registry)
    /\ Set(registry, Asked(registry))
    /\ thread2 = [thread EXCEPT !.at = "discard", !.on = registry]
    /\ UNCHANGED registry

\* Mutant: the answer "already running" leaves the operation in flight.
StartLooksUpKeepsLock ==
    /\ op.at = "lookup"
    /\ \/ StopsOld(op, op')
       \/ /\ registry = NoInst
          /\ op' = [op EXCEPT !.at = "create"]
          /\ UNCHANGED <<registry, inst>>
    /\ UNCHANGED <<row, resume, edit, rollback, crashes, world>>

StartLooksUp ==
    /\ op.at = "lookup"
    /\ \/ StopsOld(op, op')
       \/ /\ registry = NoInst
          /\ op' = [op EXCEPT !.at = "create"]
          /\ UNCHANGED <<registry, inst>>
       \/ /\ registry # NoInst /\ Live(registry)
          /\ op' = Rest
          /\ UNCHANGED <<registry, inst>>
    /\ UNCHANGED <<row, resume, edit, rollback, crashes, world>>

StartDiscards ==
    /\ op.at = "discard" /\ ~inst[op.on].stopping
    /\ registry' = NoInst
    /\ op' = [op EXCEPT !.at = "create", !.on = NoInst]
    /\ UNCHANGED <<row, inst, resume, edit, rollback, crashes, world>>

\* The leverage is answered: register, start in the background, answer 202.
StartCreates ==
    /\ op.at = "create"
    /\ \E i \in Unused : registry' = i /\ Set(i, Begun(i, "route"))
    /\ op' = Rest
    /\ UNCHANGED <<row, resume, edit, rollback, crashes, world>>

RequestStop ==
    /\ op.at = "none" /\ row # "none" /\ "stop" \in world
    /\ \/ /\ registry # NoInst /\ Live(registry)
          /\ Set(registry, Asked(registry))
          /\ op' = [Rest EXCEPT !.at = "stopping", !.on = registry]
       \/ /\ registry # NoInst => ~Live(registry)
          /\ op' = [Rest EXCEPT !.at = "stopped"]
          /\ UNCHANGED inst
    /\ UNCHANGED <<row, registry, resume, edit, rollback, crashes, world>>

StopAwaited ==
    /\ op.at = "stopping" /\ ~inst[op.on].stopping
    /\ op' = [Rest EXCEPT !.at = "stopped"]
    /\ UNCHANGED <<row, registry, inst, resume, edit, rollback, crashes, world>>

StopPersists ==
    /\ op.at = "stopped"
    /\ row' = Flagged("stopped")
    /\ op' = Rest
    /\ UNCHANGED <<registry, inst, resume, edit, rollback, crashes, world>>
----------------------------------------------------------------------------
(* DELETE, PATCH and the admin's stop-all take no lock. *)

\* removeBotInstance: stop() without await if it runs.
Removed ==
    /\ registry' = NoInst
    /\ IF registry # NoInst /\ inst[registry].running
       THEN Set(registry, Asked(registry)) ELSE UNCHANGED inst

\* Both edits are refused while the bot runs.
Editable ==
    /\ "edit" \in world /\ edit = "none" /\ row # "none"
    /\ registry # NoInst => ~inst[registry].running

DeleteRemoves ==
    /\ Editable
    /\ Removed
    /\ edit' = "delete"
    /\ UNCHANGED <<row, op, resume, rollback, crashes, world>>

DeleteRow ==
    /\ edit = "delete"
    /\ row' = "none"
    /\ edit' = "none"
    /\ UNCHANGED <<registry, inst, op, resume, rollback, crashes, world>>

PatchChecks ==
    /\ Editable
    /\ edit' = "patch"
    /\ UNCHANGED <<row, registry, inst, op, resume, rollback, crashes, world>>

PatchRemoves ==
    /\ edit = "patch"
    /\ Removed
    /\ edit' = "none"
    /\ UNCHANGED <<row, op, resume, rollback, crashes, world>>

AdminDrops ==
    /\ "admin" \in world /\ edit = "none"
    /\ Removed
    /\ edit' = "admin"
    /\ UNCHANGED <<row, op, resume, rollback, crashes, world>>

\* The write of any of them throws; only a patch has not dropped the instance by then.
EditThrows ==
    /\ edit # "none" /\ "rows" \in world
    /\ edit' = "none"
    /\ UNCHANGED <<row, registry, inst, op, resume, rollback, crashes, world>>

AdminFlips ==
    /\ edit = "admin"
    /\ row' = IF row = "running" THEN "stopped" ELSE row
    /\ edit' = "none"
    /\ UNCHANGED <<registry, inst, op, resume, rollback, crashes, world>>
----------------------------------------------------------------------------
(* resumeOneBot *)

\* runBotWatchdog: the row runs, nothing is registered, and the start is two minutes
\* old, so no start is on its way to an instance.
WatchdogResumes ==
    /\ resume.at = "none" /\ row = "running" /\ registry = NoInst /\ op.at = "none"
    /\ Room(MaxRetries)
    /\ resume' = [at |-> "lookup", on |-> NoInst, try |-> 1]
    /\ UNCHANGED <<row, registry, inst, op, edit, rollback, crashes, world>>

ResumeLooksUp ==
    /\ resume.at = "lookup"
    /\ \/ StopsOld(resume, resume')
       \/ /\ registry = NoInst
          /\ resume' = [resume EXCEPT !.at = "create"]
          /\ UNCHANGED <<registry, inst>>
       \/ /\ registry # NoInst /\ Live(registry)
          /\ resume' = [resume EXCEPT !.at = "fresh", !.on = registry]
          /\ UNCHANGED <<registry, inst>>
    /\ UNCHANGED <<row, op, edit, rollback, crashes, world>>

\* A live bot without credentials cannot be resumed.
ResumeWithoutKeys ==
    /\ resume.at = "lookup" /\ "fail" \in world /\ row # "none"
    /\ row' = "stopped"
    /\ resume' = Rest
    /\ UNCHANGED <<registry, inst, op, edit, rollback, crashes, world>>

\* The reads of an attempt throw, or the update of a row that is gone or cannot be written.
ResumeThrows ==
    /\ resume.at \in {"lookup", "fresh"}
    /\ "rows" \in world \/ (resume.at = "lookup" /\ "fail" \in world /\ row = "none")
    /\ resume' = Retried
    /\ UNCHANGED <<row, registry, inst, op, edit, rollback, crashes, world>>

ResumeDiscards ==
    /\ resume.at = "discard" /\ ~inst[resume.on].stopping
    /\ registry' = NoInst
    /\ resume' = [resume EXCEPT !.at = "create", !.on = NoInst]
    /\ UNCHANGED <<row, inst, op, edit, rollback, crashes, world>>

ResumeCreates ==
    /\ resume.at = "create"
    /\ \E i \in Unused : registry' = i /\ resume' = [resume EXCEPT !.at = "fresh", !.on = i]
    /\ UNCHANGED <<row, inst, op, edit, rollback, crashes, world>>

\* The row is read again; start() only if it still runs.
ResumeStarts ==
    /\ resume.at = "fresh"
    /\ IF row = "running" /\ ~Live(resume.on)
       THEN /\ Set(resume.on, Begun(resume.on, "resume"))
            /\ resume' = [resume EXCEPT !.at = "start"]
       ELSE resume' = Rest /\ UNCHANGED inst
    /\ UNCHANGED <<row, registry, op, edit, rollback, crashes, world>>

\* Mutant: the last failure is only logged.
ResumeForgets ==
    /\ resume.at = "giveup"
    /\ resume' = Rest
    /\ UNCHANGED <<row, registry, inst, op, edit, rollback, crashes, world>>

\* Every attempt failed.
ResumeGivesUp ==
    /\ resume.at = "giveup"
    /\ Update("stopped")
    /\ resume' = Rest
    /\ UNCHANGED <<registry, inst, op, edit, rollback, crashes, world>>
----------------------------------------------------------------------------
\* A process that boots reads which rows run and resumes them.
Boot(r) == IF r = "running" THEN [at |-> "lookup", on |-> NoInst, try |-> 1] ELSE Rest

Crash ==
    /\ "crash" \in world /\ crashes < MaxCrashes
    /\ crashes' = crashes + 1
    /\ registry' = NoInst
    /\ inst' = [i \in Instances |-> New]
    /\ op' = Rest
    /\ resume' = Boot(row)
    /\ edit' = "none"
    /\ rollback' = FALSE
    /\ UNCHANGED <<row, world>>

\* A stopped instance nobody refers to is collected.
Collect(i) ==
    /\ i \notin {registry, op.on, resume.on}
    /\ ~Live(i) /\ inst[i].ticking = {} /\ ~inst[i].stopping /\ inst[i] # New
    /\ Set(i, New)
    /\ UNCHANGED <<row, registry, op, resume, edit, rollback, crashes, world>>

Init ==
    /\ world \in Worlds /\ row \in Rows /\ (row = "running" => "resume" \in world)
    /\ registry = NoInst
    /\ inst = [i \in Instances |-> New]
    /\ op = Rest
    /\ resume = Boot(row)
    /\ edit = "none" /\ rollback = FALSE /\ crashes = 0

Handlers ==
    \/ StartPersists \/ StartLooksUp \/ StartDiscards \/ StartCreates
    \/ StopAwaited \/ StopPersists \/ OperationThrows
Edits == DeleteRow \/ PatchRemoves \/ AdminFlips \/ EditThrows
Resuming ==
    \/ ResumeLooksUp \/ ResumeWithoutKeys \/ ResumeThrows \/ ResumeDiscards \/ ResumeCreates
    \/ ResumeStarts \/ ResumeGivesUp
Inside(i) == BootStep(i) \/ BootFails(i)

Next ==
    \/ RequestStart \/ RequestStop \/ DeleteRemoves \/ PatchChecks \/ AdminDrops
    \/ Handlers \/ Edits \/ Rollback \/ WatchdogResumes \/ Resuming
    \/ \E i \in Instances : Inside(i) \/ StopEnds(i) \/ Collect(i)
    \/ Crash

\* Node carries every handler on, the watchdog is an interval.
Fairness ==
    /\ WF_vars(Handlers) /\ WF_vars(Edits) /\ WF_vars(Rollback)
    /\ WF_vars(WatchdogResumes) /\ WF_vars(Resuming)
    /\ \A i \in Instances :
          WF_vars(Inside(i)) /\ WF_vars(StopEnds(i)) /\ WF_vars(Collect(i))

Spec == Init /\ [][Next]_vars /\ Fairness
----------------------------------------------------------------------------
(* Properties *)

Thread == [at : {"none", "persist", "lookup", "discard", "create", "stopping", "stopped",
                 "fresh", "start", "giveup"},
           on : Instances \cup {NoInst}, try : 0..(MaxRetries + 1)]

TypeOK ==
    /\ row \in Rows
    /\ registry \in Instances \cup {NoInst}
    /\ inst \in [Instances -> Instance]
    /\ op \in Thread /\ resume \in Thread
    /\ edit \in {"none", "delete", "patch", "admin"}
    /\ rollback \in BOOLEAN /\ crashes \in 0..MaxCrashes /\ world \in Worlds

\* No two instances of the coin trade at the same time: botOpLock and the check of
\* botsMap keep a coin from duplicate sessions and double orders.
OneGroupTicks ==
    \A i, j \in Instances : inst[i].ticking # {} /\ inst[j].ticking # {} => i = j

\* What ticks can be reached from botsMap, so that a stop finds it.
NoOrphanTicks == \A i \in Instances : inst[i].ticking # {} => registry = i

\* Once a stop is answered and nothing is under way, no engine of a bot whose row says
\* stopped ticks.
AtRest ==
    /\ op.at = "none" /\ edit = "none" /\ resume.at = "none" /\ ~rollback
    /\ \A i \in Instances : ~Starting(i) /\ ~inst[i].stopping
StoppedIsQuiet == AtRest /\ row # "running" => \A i \in Instances : inst[i].ticking = {}

\* An instance that was asked to stop does not come up, however far its start had got.
StopTakesHold ==
    [][\A i \in Instances :
          inst[i].stopRequested /\ inst'[i].stopRequested /\ ~inst[i].running
             => ~inst'[i].running]_vars

\* As long as only the start and stop routes work on the bot, what ticks is in botsMap, so
\* that one group does at most, and a row that says stopped is silent, even where its updates
\* fail. Failures of engines, edits and resumes break both, see README.
RoutesQuiet == world \subseteq {"start", "stop", "rows"} => StoppedIsQuiet /\ NoOrphanTicks

\* Every start and stop is answered, so that botOpLock is released.
OperationAnswered == op.at # "none" ~> op.at = "none"

\* Whatever was asked to stop falls silent, unless it is started anew.
StopSettles ==
    \A i \in Instances :
        inst[i].stopRequested ~> ~inst[i].stopRequested \/ inst[i].ticking = {}

\* A row that says running gets engines or is corrected by the resume, its retries or the
\* watchdog ("anti-zombie"). It fails, see README.
Serves == row # "running" \/ \E i \in Instances : inst[i].ticking # {}
RunningIsServed == row = "running" ~> Serves

\* As long as nobody stops or edits the bot, through failing engines and crashes, and its row
\* can be written. A failing update may leave a row that runs with an instance that does not,
\* which the watchdog skips, see README.
ResumedIsServed ==
    world \cap {"stop", "edit", "admin", "rows"} = {} /\ row = "running" ~> Serves

\* Requests are answered, and what they asked to stop falls silent.
StopsAndAnswers == OperationAnswered /\ StopSettles
=============================================================================
