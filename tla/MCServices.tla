----------------------------- MODULE MCServices -----------------------------
(***************************************************************************)
(* The services the process runs beside the scheduler, for TLC: scheduled  *)
(* runs, the updater, telemetry and the plan worker.  They share no state, *)
(* so a behaviour is one of one service, chosen at the start.              *)
(***************************************************************************)
EXTENDS Cron, Updater, Telemetry, PlanWorker

VARIABLE service

Service == {"cron", "updater", "telemetry", "worker"}
servicesVars == <<service, cronVars, updaterVars, telVars, workerVars>>

\* A service that is not the chosen one starts in one state only.
ServicesInit ==
    /\ service \in Service /\ CronInit /\ UpdaterInit /\ TelInit /\ WorkerInit
    /\ faulty => service = "cron"
    /\ switchOn => service = "updater"
    /\ listed \cup named # {} => service = "worker"

ServicesNext ==
    /\ UNCHANGED service
    /\ \/ service = "cron" /\ CronNext /\ UNCHANGED <<updaterVars, telVars, workerVars>>
       \/ service = "updater" /\ UpdaterNext /\ UNCHANGED <<cronVars, telVars, workerVars>>
       \/ service = "telemetry" /\ TelNext /\ UNCHANGED <<cronVars, updaterVars, workerVars>>
       \/ service = "worker" /\ WorkerNext /\ UNCHANGED <<cronVars, updaterVars, telVars>>

\* The fairness of CronSpec, TelSpec and FairWorkerSpec, each while its service runs.
InCron(A) == service = "cron" /\ A
InTelemetry(A) == service = "telemetry" /\ A
InWorker(A) == service = "worker" /\ A

ServicesFairness ==
    /\ WF_cronVars(InCron(Tick \/ TickNext))
    /\ \A r \in Runner : SF_cronVars(InCron(Lock(r)))
    /\ \A r \in Runner : WF_cronVars(InCron(BeginRun(r) \/ BeginFails(r) \/ EndRun(r)))
    /\ WF_cronVars(InCron(TimeOut))
    /\ \A s \in Saver : WF_telVars(InTelemetry(SaveGoesOn(s)))
    /\ \A s \in Saver : SF_telVars(InTelemetry(ApplyTelemetry(s)))
    /\ \A a \in TelActor : WF_telVars(InTelemetry(Flush(a) \/ Deliver(a)))
    /\ WF_telVars(InTelemetry(DrainQueue \/ DrainEnds))
    /\ \A g \in Go : WF_workerVars(InWorker(Worker(g))) /\ SF_workerVars(InWorker(Check(g)))
    /\ \A g \in Go : WF_workerVars(InWorker(Owed(g)))

ServicesSpec == ServicesInit /\ [][ServicesNext]_servicesVars /\ ServicesFairness
=============================================================================
