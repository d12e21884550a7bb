----------------------------- MODULE MCServices -----------------------------
(* The services beside trading, each in behaviours of its own. *)
EXTENDS Payments

CONSTANTS Jobs, MaxWorkers, Happenings, j1, j2

VARIABLES unit,      \* the service that runs; the others stay as they start
          allowed, status, stored, aborted, waitQueue, activeCount, holding, worker,
          killed, mail, ipcSettled, file, resultFile, result, reader, stream

Backtest == INSTANCE BacktestJobs

jobs == <<allowed, status, stored, aborted, waitQueue, activeCount, holding, worker,
          killed, mail, ipcSettled, file, resultFile, result, reader, stream>>
all  == <<unit, vars, jobs>>

ASSUME ServicesAssumption == Backtest!BacktestJobsAssumption

MCInit ==
    /\ unit \in {"payments", "backtest"}
    /\ Init /\ (unit # "payments" => world = (CHOOSE w \in Worlds : TRUE) /\ voucher.limited)
    /\ Backtest!Init /\ (unit # "backtest" => allowed = CHOOSE h \in Happenings : TRUE)

MCNext ==
    /\ unit' = unit
    /\ \/ unit = "payments" /\ Next /\ UNCHANGED jobs
       \/ unit = "backtest" /\ Backtest!Next /\ UNCHANGED vars

\* What is fair is disabled in a service that does not run.
MCSpec == MCInit /\ [][MCNext]_all /\ Fairness /\ Backtest!Fairness

\* The type invariants of the services.
TypesOK == TypeOK /\ Backtest!TypeOK

\* BacktestJobs: slots are given back once and passed on.
SlotsMove == Backtest!SlotsMove

\* BacktestJobs: jobs, workers and streams end, and a result is not turned into an error
\* as long as only the parent reads it.
JobsEnd == Backtest!JobsEnd /\ Backtest!ResultKept
=============================================================================
