---------------------------- MODULE BacktestJobs ----------------------------
(***************************************************************************)
(* The backtest jobs of BacktestJobService: a queue in front of a bounded  *)
(* number of forked workers, the worker that fetches, computes and leaves  *)
(* its result in a file, the parent that reads the file, and the clients   *)
(* that poll, stream and cancel.                                           *)
(*                                                                         *)
(* A worker and its parent are two processes: what the worker sends, and   *)
(* the notice of its exit, wait in mail and may be served in any order.    *)
(* A fork that throws at once is left out: its errors arrive as events.    *)
(***************************************************************************)
EXTENDS Naturals, FiniteSets, SequencesExt

CONSTANTS Jobs,
          MaxWorkers,      \* MAX_CONCURRENT
          Happenings       \* what may happen, a set of sets of EventKinds

EventKinds == {"cancel",    \* DELETE /cancel
               "silence",   \* a worker may stall, a job outlive its TTL
               "fails",     \* the backtest throws, the worker runs out of memory
               "fetch",     \* GET /job-result as soon as the job is done
               "stream"}    \* GET /stream

BacktestJobsAssumption ==
    /\ MaxWorkers \in Nat \ {0}
    /\ Happenings \subseteq SUBSET EventKinds

VARIABLES allowed,       \* the events of this behaviour
          status,        \* of the job object
          stored,        \* jobs in jobStore
          aborted,       \* jobs that were cancelled once
          waitQueue, activeCount,
          holding,       \* dispatched jobs that have not settled
          worker,        \* the forked process
          killed,        \* workers sent SIGTERM
          mail,          \* what the worker sent, or its exit, and the parent has not served
          ipcSettled,    \* jobs whose done or error was served
          file,          \* result files on disk
          resultFile,    \* jobs that point to theirs
          result,        \* jobs whose result is loaded
          reader,        \* who reads the file: the parent's loader, a client's request
          stream         \* what the stream of a job showed last

queueing == <<waitQueue, activeCount, holding>>
vars == <<allowed, status, stored, aborted, queueing, worker, killed, mail, ipcSettled,
          file, resultFile, result, reader, stream>>

Readers  == {"loader", "client"}
Finished == {"done", "error", "cancelled"}

\* What the listeners of an open stream hear.
Hears(j, event) == stream' = [stream EXCEPT ![j] = IF @ = "open" THEN event ELSE @]

Set(j, s)   == status' = [status EXCEPT ![j] = s]
Fail(j)     == Set(j, "error") /\ Hears(j, "error")
Kill(j)     == killed' = killed \cup {j}
Read(j, r, at) == reader' = [reader EXCEPT ![j][r] = at]
----------------------------------------------------------------------------
(* createJob, _dispatch and release *)

Valid(j) == j \in stored /\ j \notin aborted /\ status[j] = "queued"

\* Mutant: every job starts at once.
CreateUnbounded(j) ==
    /\ status[j] = "none"
    /\ stored' = stored \cup {j}
    /\ Set(j, "running")
    /\ activeCount' = activeCount + 1
    /\ holding' = holding \cup {j}
    /\ worker' = [worker EXCEPT ![j] = "fetch"]
    /\ UNCHANGED <<allowed, waitQueue, aborted, killed, mail, ipcSettled, file, resultFile,
                   result, reader, stream>>

Create(j) ==
    /\ status[j] = "none"
    /\ stored' = stored \cup {j}
    /\ IF activeCount >= MaxWorkers
       THEN /\ Set(j, "queued")
            /\ waitQueue' = Append(waitQueue, j)
            /\ UNCHANGED <<activeCount, holding, worker>>
       ELSE /\ Set(j, "running")
            /\ activeCount' = activeCount + 1
            /\ holding' = holding \cup {j}
            /\ worker' = [worker EXCEPT ![j] = "fetch"]
            /\ UNCHANGED waitQueue
    /\ UNCHANGED <<allowed, aborted, killed, mail, ipcSettled, file, resultFile, result,
                   reader, stream>>

\* Mutant: settling twice frees two slots.
SettledTwice(j, now) ==
    LET next == SelectInSeq(waitQueue, Valid) IN
    IF next > 0
    THEN /\ status' = [now EXCEPT ![waitQueue[next]] = "running"]
         /\ waitQueue' = SubSeq(waitQueue, next + 1, Len(waitQueue))
         /\ holding' = (holding \ {j}) \cup {waitQueue[next]}
         /\ worker' = [worker EXCEPT ![waitQueue[next]] = "fetch"]
         /\ UNCHANGED activeCount
    ELSE /\ status' = now
         /\ waitQueue' = <<>>
         /\ holding' = holding \ {j}
         /\ activeCount' = IF activeCount > 0 THEN activeCount - 1 ELSE 0
         /\ UNCHANGED worker

\* settleOnce and release, given the statuses as of now: the first time, the slot goes
\* to the first job of the queue that still waits, and those before it are dropped.
Settled(j, now) ==
    LET next == SelectInSeq(waitQueue, Valid) IN
    IF j \notin holding
    THEN status' = now /\ UNCHANGED <<queueing, worker>>
    ELSE IF next > 0
    THEN /\ status' = [now EXCEPT ![waitQueue[next]] = "running"]
         /\ waitQueue' = SubSeq(waitQueue, next + 1, Len(waitQueue))
         /\ holding' = (holding \ {j}) \cup {waitQueue[next]}
         /\ worker' = [worker EXCEPT ![waitQueue[next]] = "fetch"]
         /\ UNCHANGED activeCount
    ELSE /\ status' = now
         /\ waitQueue' = <<>>
         /\ holding' = holding \ {j}
         /\ activeCount' = activeCount - 1
         /\ UNCHANGED worker
----------------------------------------------------------------------------
(* The worker: runBacktestJob under backtestJobWorker. *)

Process(j, at) == worker' = [worker EXCEPT ![j] = at]
Send(j, m)     == mail' = [mail EXCEPT ![j] = @ \cup {m}]

\* The candles of every trade type, clamped, under the heap guard.
WorkerFetches(j) ==
    /\ worker[j] = "fetch"
    /\ Process(j, "compute")
    /\ UNCHANGED <<allowed, status, stored, aborted, queueing, killed, mail, ipcSettled, file,
                   resultFile, result, reader, stream>>

WorkerComputes(j) ==
    /\ worker[j] = "compute"
    /\ Process(j, "write")
    /\ UNCHANGED <<allowed, status, stored, aborted, queueing, killed, mail, ipcSettled, file,
                   resultFile, result, reader, stream>>

WorkerWrites(j) ==
    /\ worker[j] = "write"
    /\ Process(j, "written")
    /\ file' = file \cup {j}
    /\ UNCHANGED <<allowed, status, stored, aborted, queueing, killed, mail, ipcSettled,
                   resultFile, result, reader, stream>>

WorkerSends(j) ==
    /\ worker[j] = "written"
    /\ Process(j, "sent") /\ Send(j, "done")
    /\ UNCHANGED <<allowed, status, stored, aborted, queueing, killed, ipcSettled, file,
                   resultFile, result, reader, stream>>

\* A guard or a fetch throws, the cancel was heard, the file cannot be written.
WorkerThrows(j) ==
    /\ worker[j] \in {"fetch", "compute", "write"}
    /\ "fails" \in allowed \/ j \in killed
    /\ Process(j, "sent") /\ Send(j, "error")
    /\ UNCHANGED <<allowed, status, stored, aborted, queueing, killed, ipcSettled, file,
                   resultFile, result, reader, stream>>

\* SIGTERM, or the heap is exhausted.
WorkerExits(j) ==
    /\ worker[j] \notin {"none", "dead"}
    /\ j \in killed \/ ("fails" \in allowed /\ worker[j] = "compute")
    /\ Process(j, "dead") /\ Send(j, "exit")
    /\ UNCHANGED <<allowed, status, stored, aborted, queueing, killed, ipcSettled, file,
                   resultFile, result, reader, stream>>
----------------------------------------------------------------------------
(* The parent serves what it gets. *)

Served(j, m) == m \in mail[j] /\ mail' = [mail EXCEPT ![j] = @ \ {m}]

\* The job is done, a cancelled one too; the file is read in a turn of its own.
ServeDone(j) ==
    /\ Served(j, "done")
    /\ ipcSettled' = ipcSettled \cup {j}
    /\ Settled(j, [status EXCEPT ![j] = "done"])
    /\ resultFile' = resultFile \cup {j}
    /\ Read(j, "loader", "read")
    /\ Kill(j)
    /\ UNCHANGED <<allowed, stored, aborted, file, result, stream>>

ServeError(j) ==
    /\ Served(j, "error")
    /\ ipcSettled' = ipcSettled \cup {j}
    /\ IF status[j] = "cancelled" THEN Settled(j, status) /\ UNCHANGED stream
       ELSE Settled(j, [status EXCEPT ![j] = "error"]) /\ Hears(j, "error")
    /\ Kill(j)
    /\ UNCHANGED <<allowed, stored, aborted, file, resultFile, result, reader>>

\* Mutant: an exit fails the job whatever was settled.
ServeExitAlways(j) ==
    /\ Served(j, "exit")
    /\ Settled(j, [status EXCEPT ![j] = "error"]) /\ Hears(j, "error")
    /\ UNCHANGED <<allowed, stored, aborted, killed, ipcSettled, file, resultFile, result, reader>>

ServeExit(j) ==
    /\ Served(j, "exit")
    /\ IF j \notin ipcSettled /\ status[j] \in {"running", "queued"}
       THEN Settled(j, [status EXCEPT ![j] = "error"]) /\ Hears(j, "error")
       ELSE Settled(j, status) /\ UNCHANGED stream
    /\ UNCHANGED <<allowed, stored, aborted, killed, ipcSettled, file, resultFile, result, reader>>
----------------------------------------------------------------------------
(* Reading the result file: loadResultFromFile, by the loader and by getJobResult. *)

GetResult(j) ==
    /\ j \in stored /\ status[j] = "done" /\ "fetch" \in allowed
    /\ j \notin result /\ j \in resultFile /\ reader[j].client = "none"
    /\ Read(j, "client", "read")
    /\ UNCHANGED <<allowed, status, stored, aborted, queueing, worker, killed, mail, ipcSettled,
                   file, resultFile, result, stream>>

ReadFile(j, r) ==
    /\ reader[j][r] = "read" /\ j \in file
    /\ Read(j, r, "unlink")
    /\ UNCHANGED <<allowed, status, stored, aborted, queueing, worker, killed, mail, ipcSettled,
                   file, resultFile, result, stream>>

\* The file is gone: the loader spares a cancelled job, the request does not.
ReadFails(j, r) ==
    /\ reader[j][r] = "read" /\ j \notin file
    /\ Read(j, r, "none")
    /\ IF r = "loader" /\ status[j] = "cancelled" THEN UNCHANGED <<status, stream>> ELSE Fail(j)
    /\ UNCHANGED <<allowed, stored, aborted, queueing, worker, killed, mail, ipcSettled,
                   file, resultFile, result>>

Unlink(j, r) ==
    /\ reader[j][r] = "unlink"
    /\ file' = file \ {j}
    /\ Read(j, r, "loaded")
    /\ UNCHANGED <<allowed, status, stored, aborted, queueing, worker, killed, mail, ipcSettled,
                   resultFile, result, stream>>

\* Mutant: the streams are not told.
LoadedQuietly(j, r) ==
    /\ reader[j][r] = "loaded"
    /\ Read(j, r, "none")
    /\ result' = result \cup {j} /\ resultFile' = resultFile \ {j}
    /\ UNCHANGED <<allowed, status, stored, aborted, queueing, worker, killed, mail, ipcSettled,
                   file, stream>>

Loaded(j, r) ==
    /\ reader[j][r] = "loaded"
    /\ Read(j, r, "none")
    /\ result' = result \cup {j} /\ resultFile' = resultFile \ {j}
    /\ Hears(j, "result")
    /\ UNCHANGED <<allowed, status, stored, aborted, queueing, worker, killed, mail, ipcSettled, file>>
----------------------------------------------------------------------------
(* Clients and the cleanup timer *)

\* cancelJob: out of the queue, the worker killed, the slot given on; also when the job
\* is finished already.
Cancel(j) ==
    /\ "cancel" \in allowed /\ j \in stored /\ j \notin aborted
    /\ aborted' = aborted \cup {j}
    /\ killed' = IF j \in holding THEN killed \cup {j} ELSE killed
    /\ IF j \in holding
       THEN Settled(j, [status EXCEPT ![j] = "cancelled"])
       ELSE /\ Set(j, "cancelled")
            /\ waitQueue' = RemoveFirst(waitQueue, j)
            /\ UNCHANGED <<activeCount, holding, worker>>
    /\ Hears(j, "cancelled")
    /\ UNCHANGED <<allowed, stored, mail, ipcSettled, file, resultFile, result, reader>>

\* purgeExpiredJobs: a job that never finished fails and its worker is killed, a finished
\* one takes its file along.  Reading a file does not take a TTL.
Purge(j) ==
    /\ "silence" \in allowed /\ j \in stored
    /\ \A r \in Readers : reader[j][r] = "none"
    /\ stored' = stored \ {j}
    /\ IF status[j] \in {"running", "queued"}
       THEN Fail(j) /\ killed' = IF j \in holding THEN killed \cup {j} ELSE killed
       ELSE UNCHANGED <<status, stream, killed>>
    /\ file' = IF j \in resultFile THEN file \ {j} ELSE file
    /\ UNCHANGED <<allowed, aborted, queueing, worker, mail, ipcSettled, resultFile, result, reader>>

\* A stream of a finished job answers at once, with the result as far as it is loaded.
OpenStream(j) ==
    /\ "stream" \in allowed /\ j \in stored /\ stream[j] = "none"
    /\ stream' = [stream EXCEPT ![j] =
                     IF status[j] = "done" THEN IF j \in result THEN "result" ELSE "empty"
                     ELSE IF status[j] \in Finished THEN status[j] ELSE "open"]
    /\ UNCHANGED <<allowed, status, stored, aborted, queueing, worker, killed, mail, ipcSettled,
                   file, resultFile, result, reader>>
----------------------------------------------------------------------------
Init ==
    /\ allowed \in Happenings
    /\ status = [j \in Jobs |-> "none"]
    /\ stored = {} /\ aborted = {} /\ holding = {} /\ killed = {} /\ ipcSettled = {}
    /\ file = {} /\ resultFile = {} /\ result = {}
    /\ waitQueue = <<>> /\ activeCount = 0
    /\ worker = [j \in Jobs |-> "none"]
    /\ mail = [j \in Jobs |-> {}]
    /\ reader = [j \in Jobs |-> [r \in Readers |-> "none"]]
    /\ stream = [j \in Jobs |-> "none"]

Working(j) ==
    WorkerFetches(j) \/ WorkerComputes(j) \/ WorkerWrites(j) \/ WorkerSends(j) \/ WorkerThrows(j)
Serving(j) == ServeDone(j) \/ ServeError(j) \/ ServeExit(j)
Reading(j, r) == ReadFile(j, r) \/ ReadFails(j, r) \/ Unlink(j, r) \/ Loaded(j, r)

Next ==
    \E j \in Jobs :
        \/ Create(j) \/ GetResult(j) \/ Cancel(j) \/ Purge(j) \/ OpenStream(j)
        \/ Working(j) \/ WorkerExits(j) \/ Serving(j)
        \/ \E r \in Readers : Reading(j, r)

\* Workers run on, unless they stall, and die of the signal; the parent serves its events
\* and its timer.
Fairness ==
    \A j \in Jobs :
        /\ WF_vars("silence" \notin allowed /\ Working(j))
        /\ WF_vars(status[j] \in {"queued", "running"} /\ Purge(j))
        /\ WF_vars(j \in killed /\ WorkerExits(j)) /\ WF_vars(Serving(j))
        /\ \A r \in Readers : WF_vars(Reading(j, r))

Spec == Init /\ [][Next]_vars /\ Fairness
----------------------------------------------------------------------------
(* Properties *)

TypeOK ==
    /\ allowed \in Happenings
    /\ status \in [Jobs -> {"none", "queued", "running"} \cup Finished]
    /\ {stored, aborted, holding, killed, ipcSettled, file, resultFile, result} \subseteq SUBSET Jobs
    /\ waitQueue \in Seq(Jobs) /\ activeCount \in 0..MaxWorkers
    /\ worker \in [Jobs -> {"none", "fetch", "compute", "write", "written", "sent", "dead"}]
    /\ mail \in [Jobs -> SUBSET {"done", "error", "exit"}]
    /\ reader \in [Jobs -> [Readers -> {"none", "read", "unlink", "loaded"}]]
    /\ stream \in [Jobs -> {"none", "open", "empty", "result"} \cup Finished]

\* Every way a job can end - result, error, exit, cancel, TTL, and several of them in any
\* order - gives its slot back exactly once, nobody waits while a slot is free, and a job
\* that waits can be called.
SlotsMove ==
    /\ activeCount = Cardinality(holding)
    /\ \A j \in Jobs : Valid(j) => activeCount = MaxWorkers /\ j \in ToSet(waitQueue)

\* A result that arrived is not turned into an error by the exit that follows it, or by
\* whoever reads the file, as long as only the parent reads it.
ResultKept ==
    [][\A j \in Jobs : status[j] = "done" /\ status'[j] = "error" => "fetch" \in allowed]_vars

\* The same with clients that ask for the result once the job says done.
ResultKeptWhenFetched ==
    [][\A j \in Jobs : status[j] = "done" => status'[j] # "error"]_vars

\* Jobs end: done, failed or cancelled, or their TTL passes; then their worker ends, and an
\* open stream is told how they ended.
JobsEnd ==
    \A j \in Jobs :
        /\ status[j] \in {"queued", "running"} ~> status[j] \in Finished
        /\ status[j] \in Finished ~> worker[j] \in {"none", "dead"}
        /\ stream[j] = "open" ~> stream[j] # "open"
=============================================================================
