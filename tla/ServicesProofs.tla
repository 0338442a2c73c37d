--------------------------- MODULE ServicesProofs ---------------------------
(***************************************************************************)
(* Proofs about the services the process runs beside the scheduler: the    *)
(* updater, scheduled runs, the plan worker and telemetry.  They share no  *)
(* state; each section names the inductive invariant of one service and    *)
(* shows that every one of its actions keeps it, for every set of          *)
(* goroutines, jobs, installs and items and for every bound.               *)
(***************************************************************************)
EXTENDS Cron, Updater, Telemetry, PlanWorker, WellFoundedInduction,
        SequenceTheorems, TLAPS

-----------------------------------------------------------------------------
(* The updater. *)

\* The stretch of an install in which m.state.Installing keeps every other one out.
Installing == {"download", "verify", "launch"}

\* Whoever downloads, verifies or launches is the only one, and the flag says so.
OneInstall ==
    \A i \in Installer : installPc[i] \in Installing =>
        /\ updateState.installing
        /\ \A j \in Installer : installPc[j] \in Installing => i = j

\* Between the verification and the launch the file is still the one that was vetted.
LaunchReady == \A i \in Installer : installPc[i] = "launch" => setupFile \in vetted

UpdaterInv ==
    UpdaterTypeOK /\ OffMeansOff /\ OneInstall /\ LaunchReady /\ LaunchedWasVetted

\* The fields of the state after refreshEnabled, for any state of the right type.
LEMMA RefreshedFields ==
    ASSUME UpdaterTypeOK
    PROVE  /\ Refreshed(updateState) \in [enabled : BOOLEAN, checking : BOOLEAN,
                    available : BOOLEAN, installing : BOOLEAN, failure : Someone]
           /\ Refreshed(updateState).installing = updateState.installing
           /\ ~ switchOn => ~ Refreshed(updateState).available
           /\ switchOn => Refreshed(updateState).available = updateState.available
  BY DEF Refreshed, UpdaterTypeOK, Someone

\* The start of the process satisfies the invariant of the updater.
LEMMA UpdaterStarts == UpdaterInit => UpdaterInv
<1> SUFFICES ASSUME UpdaterInit PROVE UpdaterInv
  OBVIOUS
<1>0. saves \in 0..MaxSave
  BY UpdaterAssumption DEF UpdaterInit
<1>1. UpdaterTypeOK
  <2>1. updateState \in [enabled : BOOLEAN, checking : BOOLEAN, available : BOOLEAN,
                         installing : BOOLEAN, failure : Someone]
    BY DEF UpdaterInit, Someone
  <2>2. QED BY <1>0, <2>1 DEF UpdaterInit, UpdaterTypeOK, Someone
<1>2. OffMeansOff /\ OneInstall /\ LaunchReady /\ LaunchedWasVetted
  BY DEF UpdaterInit, OffMeansOff, OneInstall, LaunchReady, LaunchedWasVetted, Installing
<1>3. QED BY <1>1, <1>2 DEF UpdaterInv

\* The steps of the switch: a save, the two halves of ConfigChanged and the ticker.
LEMMA SwitchKeeps ==
    UpdaterInv /\ (SaveSwitch \/ ConfigRead \/ ConfigChanged \/ RefreshEnabled) => UpdaterInv'
<1> SUFFICES ASSUME UpdaterInv,
                    SaveSwitch \/ ConfigRead \/ ConfigChanged \/ RefreshEnabled
             PROVE  UpdaterInv'
  OBVIOUS
<1> USE UpdaterAssumption
<1>0. UNCHANGED installVars BY DEF SaveSwitch, ConfigRead, ConfigChanged, RefreshEnabled
<1>1. CASE SaveSwitch
  BY <1>1 DEF SaveSwitch, UpdaterInv, UpdaterTypeOK, OffMeansOff, OneInstall, LaunchReady,
              LaunchedWasVetted, installVars
<1>2. CASE ConfigRead
  BY <1>2 DEF ConfigRead, UpdaterInv, UpdaterTypeOK, OffMeansOff, OneInstall, LaunchReady,
              LaunchedWasVetted, installVars
<1>3. CASE ConfigChanged
  <2>1. checkPc' \in [Checker -> {"idle", "begin", "fetch"}]
    BY <1>3 DEF ConfigChanged, UpdaterInv, UpdaterTypeOK
  <2>2. QED
    BY <1>3, <2>1, RefreshedFields
    DEF ConfigChanged, UpdaterInv, UpdaterTypeOK, OffMeansOff, OneInstall, LaunchReady,
        LaunchedWasVetted, installVars
<1>4. CASE RefreshEnabled
  BY <1>4, RefreshedFields
  DEF RefreshEnabled, UpdaterInv, UpdaterTypeOK, OffMeansOff, OneInstall, LaunchReady,
      LaunchedWasVetted, installVars, checkVars
<1>5. QED BY <1>1, <1>2, <1>3, <1>4

\* The steps of a check: called, begun under the lock, finished.
LEMMA CheckKeeps ==
    ASSUME UpdaterInv, NEW c \in Checker, CheckCalled(c) \/ BeginCheck(c) \/ FinishCheck(c)
    PROVE  UpdaterInv'
<1>1. CASE CheckCalled(c)
  BY <1>1 DEF CheckCalled, UpdaterInv, UpdaterTypeOK, OffMeansOff, OneInstall, LaunchReady,
              LaunchedWasVetted, installVars
<1>2. CASE BeginCheck(c)
  BY <1>2 DEF BeginCheck, UpdaterInv, UpdaterTypeOK, OffMeansOff, OneInstall, LaunchReady,
              LaunchedWasVetted, installVars, Someone
<1>3. CASE FinishCheck(c) /\ ~ switchOn
  BY <1>3, RefreshedFields
  DEF FinishCheck, UpdaterInv, UpdaterTypeOK, OffMeansOff, OneInstall, LaunchReady,
      LaunchedWasVetted, installVars
<1>4. CASE FinishCheck(c) /\ switchOn
  BY <1>4
  DEF FinishCheck, UpdaterInv, UpdaterTypeOK, OffMeansOff, OneInstall, LaunchReady,
      LaunchedWasVetted, installVars, Someone
<1>5. QED BY <1>1, <1>2, <1>3, <1>4

\* The steps of an install, from the request to the end of its watch.
LEMMA InstallKeeps ==
    ASSUME UpdaterInv, NEW i \in Installer,
           Install(i) \/ Download(i) \/ VerifySetup(i) \/ Launch(i) \/ Watch(i)
    PROVE  UpdaterInv'
<1> USE DEF UpdaterInv, UpdaterTypeOK, OffMeansOff, OneInstall, LaunchReady,
            LaunchedWasVetted, Installing, Someone, checkVars
<1>1. CASE Install(i)
  BY <1>1 DEF Install
<1>f. ASSUME InstallFails(i), installPc[i] \in Installing
      PROVE  /\ updateState' \in [enabled : BOOLEAN, checking : BOOLEAN, available : BOOLEAN,
                                  installing : BOOLEAN, failure : Someone]
             /\ updateState'.available = updateState.available
             /\ installPc' \in [Installer -> {"idle", "download", "verify", "launch", "watch", "over"}]
             /\ \A j \in Installer : installPc'[j] \notin Installing
  BY <1>f DEF InstallFails
<1>2. CASE Download(i)
  <2>1. CASE InstallFails(i)
    BY <1>2, <2>1, <1>f DEF Download
  <2>2. CASE ~ InstallFails(i)
    BY <1>2, <2>2 DEF Download
  <2>3. QED BY <2>1, <2>2
<1>3. CASE VerifySetup(i)
  <2>1. CASE InstallFails(i)
    BY <1>3, <2>1, <1>f DEF VerifySetup
  <2>2. CASE ~ InstallFails(i)
    BY <1>3, <2>2 DEF VerifySetup
  <2>3. QED BY <2>1, <2>2
<1>4. CASE Launch(i)
  <2>1. CASE InstallFails(i)
    BY <1>4, <2>1, <1>f DEF Launch
  <2>2. CASE ~ InstallFails(i)
    BY <1>4, <2>2 DEF Launch
  <2>3. QED BY <2>1, <2>2
<1>5. CASE Watch(i)
  BY <1>5 DEF Watch
<1>6. QED BY <1>1, <1>2, <1>3, <1>4, <1>5

\* The setup program, which outlives the request that launched it.
LEMMA SetupKeeps == UpdaterInv /\ (SetupStarts \/ SetupFails) => UpdaterInv'
  BY DEF UpdaterInv, UpdaterTypeOK, OffMeansOff, OneInstall, LaunchReady,
         LaunchedWasVetted, checkVars, SetupStarts, SetupFails, Someone

\* Every behaviour of the updater keeps its invariant.
LEMMA UpdaterInductive == UpdaterSpec => []UpdaterInv
<1>1. UpdaterInv /\ [UpdaterNext]_updaterVars => UpdaterInv'
  <2> SUFFICES ASSUME UpdaterInv, [UpdaterNext]_updaterVars
               PROVE  UpdaterInv'
    OBVIOUS
  <2>1. CASE UNCHANGED updaterVars
    BY <2>1 DEF updaterVars, UpdaterInv, UpdaterTypeOK, OffMeansOff, OneInstall, LaunchReady,
                LaunchedWasVetted
  <2>2. CASE UpdaterNext
    BY <2>2, SwitchKeeps, CheckKeeps, InstallKeeps, SetupKeeps DEF UpdaterNext
  <2>3. QED BY <2>1, <2>2
<1>2. QED BY <1>1, UpdaterStarts, PTL DEF UpdaterSpec

\* For any number of checks in flight and saves of the switch, no answer that comes late
\* leaves a release on offer behind a switch that is off (Manager.finishCheck,
\* refreshEnabled and ConfigChanged).
THEOREM SwitchIsObeyed == UpdaterSpec => []OffMeansOff
  BY UpdaterInductive, PTL DEF UpdaterInv

\* For any number of requests to install, nothing is launched that was not verified and
\* inspected as it is on disk (Manager.Install, download, verify, launch).
THEOREM OnlyVettedSetupsRun == UpdaterSpec => []LaunchedWasVetted
  BY UpdaterInductive, PTL DEF UpdaterInv

-----------------------------------------------------------------------------
(* Scheduled runs. *)

\* A list of jobs: some ids, and for each a job.
JobList(f) == DOMAIN f \subseteq Job /\ f \in [DOMAIN f -> JobState]

\* As long as every save succeeded, jobs.json lists the same jobs as the manager and
\* has the same of them paused; Next may differ, for a restart finds jobs due.
FileCurrent ==
    savedAll => /\ DOMAIN jobsFile = DOMAIN jobs
                /\ \A j \in DOMAIN jobs : jobsFile[j].paused = jobs[j].paused

CronTyped ==
    /\ JobList(jobs) /\ JobList(jobsFile)
    /\ savedAll \in BOOLEAN /\ wants \in [Job -> Wish]

CronInv == CronTyped /\ FileCurrent /\ OperatorDecides

\* The largest Repeat is one, and at least 0.
LEMMA MaxRepeatIsNat == MaxRepeat \in Nat
  BY CronAssumption DEF MaxRepeat

\* Replacing one listed job by another keeps a list of jobs.
LEMMA ReplaceFacts ==
    ASSUME NEW f, JobList(f), NEW j \in DOMAIN f, NEW job \in JobState
    PROVE  /\ JobList([f EXCEPT ![j] = job]) /\ DOMAIN [f EXCEPT ![j] = job] = DOMAIN f
           /\ [f EXCEPT ![j] = job][j] = job /\ f[j] \in JobState
           /\ \A k \in DOMAIN f \ {j} : [f EXCEPT ![j] = job][k] = f[k]
  BY DEF JobList

\* What removing a job does to the list.
LEMMA WithoutFacts ==
    ASSUME JobList(jobs), NEW j
    PROVE  /\ JobList(Without(j)) /\ DOMAIN Without(j) = DOMAIN jobs \ {j}
           /\ \A k \in DOMAIN jobs \ {j} : Without(j)[k] = jobs[k]
  BY DEF JobList, Without

\* Counting a run removes the job or changes only when it runs next and how often it
\* did; a job that was removed while it ran stays removed.
LEMMA CountRunFacts ==
    ASSUME JobList(jobs), NEW j
    PROVE  /\ JobList(CountRun(j)) /\ DOMAIN CountRun(j) \subseteq DOMAIN jobs
           /\ \A k \in DOMAIN CountRun(j) : CountRun(j)[k].paused = jobs[k].paused
           /\ j \notin DOMAIN jobs => CountRun(j) = jobs
<1> DEFINE runs == IF jobs[j].runs < MaxRepeat THEN jobs[j].runs + 1 ELSE MaxRepeat
           d    == j \in Lapsing
           job  == [jobs[j] EXCEPT !.runs = runs, !.due = d]
           new  == [jobs EXCEPT ![j] = job]
<1>1. CASE j \notin DOMAIN jobs
  BY <1>1 DEF CountRun
<1>2. CASE j \in DOMAIN jobs
  <2>1. jobs[j] \in JobState /\ runs \in 0..MaxRepeat /\ d \in BOOLEAN
    BY <1>2, MaxRepeatIsNat DEF JobList, JobState
  <2>2. CountRun(j) = Without(j) \/ CountRun(j) = new
    BY <1>2 DEF CountRun
  <2> HIDE DEF runs, d
  <2>3. job \in JobState /\ job.paused = jobs[j].paused
    BY <2>1 DEF JobState
  <2> HIDE DEF job
  <2>4. /\ JobList(new) /\ DOMAIN new = DOMAIN jobs
        /\ \A k \in DOMAIN jobs : new[k].paused = jobs[k].paused
    BY <1>2, <2>3, ReplaceFacts
  <2> HIDE DEF new
  <2>5. CASE CountRun(j) = new
    BY <1>2, <2>4, <2>5
  <2>6. CASE CountRun(j) = Without(j)
    BY <1>2, <2>6, WithoutFacts
  <2>7. QED BY <2>2, <2>5, <2>6
<1>3. QED BY <1>1, <1>2

\* After a save that follows a change of the list, jobs.json is a list and is current
\* if every save succeeded.
LEMMA SaveFacts ==
    ASSUME JobList(jobs'), JobList(jobsFile), savedAll \in BOOLEAN, Save
    PROVE  /\ JobList(jobsFile') /\ savedAll' \in BOOLEAN /\ FileCurrent'
           /\ savedAll' => savedAll /\ jobsFile' = jobs'
<1>1. CASE jobsFile' = jobs' /\ UNCHANGED savedAll
  BY <1>1 DEF FileCurrent, JobList
<1>2. CASE jobsFile' = jobsFile /\ savedAll' = FALSE
  BY <1>2 DEF FileCurrent, JobList
<1>3. QED BY <1>1, <1>2 DEF Save

\* The manager starts with what it read, here an empty list.
LEMMA CronStarts == CronInit => CronInv
  BY DEF CronInit, CronInv, CronTyped, JobList, FileCurrent, OperatorDecides, Wish

\* The cronjob tool and the operator's page: create, update, pause, resume and remove.
LEMMA ApplyKeeps ==
    ASSUME CronInv, NEW j \in Job, Apply(j)
    PROVE  CronInv'
<1> USE DEF CronInv, CronTyped
<1>1. /\ JobList(jobs') /\ wants' \in [Job -> Wish]
      /\ savedAll => \A k \in Job :
            /\ wants'[k] = "removed" => k \notin DOMAIN jobs'
            /\ wants'[k] = "paused" /\ k \in DOMAIN jobs' => jobs'[k].paused
  <2>1. CASE CreateJob(j)
    <3>1. PICK job \in JobState : jobs' = With(j, job)
      <4>1. PICK repeating \in BOOLEAN, repeat \in CronRepeat :
              jobs' = With(j, [due |-> FALSE, repeating |-> repeating, repeat |-> repeat,
                               runs |-> 0, paused |-> FALSE])
        BY <2>1 DEF CreateJob
      <4>2. [due |-> FALSE, repeating |-> repeating, repeat |-> repeat, runs |-> 0,
             paused |-> FALSE] \in JobState
        BY MaxRepeatIsNat DEF JobState
      <4>3. QED BY <4>1, <4>2
    <3>2. JobList(jobs')
      BY <3>1 DEF JobList, With
    <3>3. DOMAIN jobs' = DOMAIN jobs \cup {j} /\ \A k \in DOMAIN jobs : k # j => jobs'[k] = jobs[k]
      BY <3>1 DEF With
    <3>4. QED BY <2>1, <3>2, <3>3 DEF CreateJob, OperatorDecides, Wish
  <2>2. CASE UpdateJob(j)
    <3>0. j \in DOMAIN jobs /\ jobs[j] \in JobState
      BY <2>2 DEF UpdateJob, JobList
    <3>1. PICK job \in JobState : jobs' = [jobs EXCEPT ![j] = job] /\ job.paused = jobs[j].paused
      <4>1. CASE \E repeating \in BOOLEAN :
                   jobs' = [jobs EXCEPT ![j].due = FALSE, ![j].repeating = repeating]
        <5>1. PICK b \in BOOLEAN : jobs' = [jobs EXCEPT ![j].due = FALSE, ![j].repeating = b]
          BY <4>1
        <5>2. jobs' = [jobs EXCEPT ![j] = [jobs[j] EXCEPT !.due = FALSE, !.repeating = b]]
          BY <3>0, <5>1
        <5>3. /\ [jobs[j] EXCEPT !.due = FALSE, !.repeating = b] \in JobState
              /\ [jobs[j] EXCEPT !.due = FALSE, !.repeating = b].paused = jobs[j].paused
          BY <3>0 DEF JobState
        <5>4. QED BY <5>2, <5>3
      <4>2. CASE \E repeat \in CronRepeat \ {0} : jobs' = [jobs EXCEPT ![j].repeat = repeat]
        <5>1. PICK n \in CronRepeat : jobs' = [jobs EXCEPT ![j].repeat = n]
          BY <4>2
        <5>2. /\ [jobs[j] EXCEPT !.repeat = n] \in JobState
              /\ [jobs[j] EXCEPT !.repeat = n].paused = jobs[j].paused
          BY <3>0 DEF JobState
        <5>3. QED BY <5>1, <5>2
      <4>3. QED BY <2>2, <4>1, <4>2 DEF UpdateJob
    <3>2. QED BY <2>2, <3>0, <3>1, ReplaceFacts DEF UpdateJob, OperatorDecides
  <2>3. CASE PauseJob(j)
    <3>0. j \in DOMAIN jobs /\ jobs[j] \in JobState /\ jobs[j].paused \in BOOLEAN
      BY <2>3 DEF PauseJob, JobList, JobState
    <3> DEFINE b == ~ jobs[j].paused
               job == [jobs[j] EXCEPT !.paused = b]
    <3>1. jobs' = [jobs EXCEPT ![j] = job] /\ b \in BOOLEAN
      BY <2>3 DEF PauseJob
    <3>2. wants' = [wants EXCEPT ![j] = IF jobs[j].paused THEN "active" ELSE "paused"]
          /\ (b <=> ~ jobs[j].paused)
      BY <2>3 DEF PauseJob
    <3> HIDE DEF b
    <3>3. job \in JobState /\ job.paused = b
      BY <3>0, <3>1 DEF JobState
    <3> HIDE DEF job
    <3>4. /\ JobList(jobs') /\ DOMAIN jobs' = DOMAIN jobs
          /\ \A k \in DOMAIN jobs \ {j} : jobs'[k] = jobs[k]
          /\ jobs'[j].paused = b
      BY <3>0, <3>1, <3>3, ReplaceFacts
    <3>5. QED BY <3>0, <3>2, <3>4 DEF OperatorDecides, Wish
  <2>4. CASE RemoveJob(j)
    <3>1. wants' \in [Job -> Wish] BY <2>4 DEF RemoveJob, Wish
    <3>2. QED BY <2>4, <3>1, WithoutFacts DEF RemoveJob, OperatorDecides
  <2>5. QED BY <2>1, <2>2, <2>3, <2>4 DEF Apply
<1>2. Save BY DEF Apply
<1>3. JobList(jobsFile') /\ savedAll' \in BOOLEAN /\ FileCurrent'
      /\ (savedAll' => savedAll /\ jobsFile' = jobs')
  BY <1>1, <1>2, SaveFacts
<1>4. OperatorDecides'
  BY <1>1, <1>3 DEF OperatorDecides
<1>5. QED BY <1>1, <1>3, <1>4

\* The time of a job comes, in the list and in jobs.json.
LEMMA ElapseKeeps ==
    ASSUME CronInv, NEW j \in Job, Elapse(j)
    PROVE  CronInv'
<1> USE DEF CronInv, CronTyped
<1>1. /\ JobList(jobs') /\ DOMAIN jobs' = DOMAIN jobs
      /\ \A k \in DOMAIN jobs : jobs'[k].paused = jobs[k].paused
  <2>1. j \in DOMAIN jobs /\ jobs[j] \in JobState
    BY DEF Elapse, JobList
  <2>2. [jobs[j] EXCEPT !.due = TRUE] \in JobState
        /\ [jobs[j] EXCEPT !.due = TRUE].paused = jobs[j].paused
    BY <2>1 DEF JobState
  <2>3. jobs' = [jobs EXCEPT ![j] = [jobs[j] EXCEPT !.due = TRUE]]
    BY DEF Elapse
  <2>4. QED BY <2>1, <2>2, <2>3, ReplaceFacts
<1>2. /\ JobList(jobsFile') /\ DOMAIN jobsFile' = DOMAIN jobsFile
      /\ \A k \in DOMAIN jobsFile : jobsFile'[k].paused = jobsFile[k].paused
  <2>1. CASE j \in DOMAIN jobsFile
    <3>1. jobsFile[j] \in JobState
      BY <2>1 DEF JobList
    <3>2. [jobsFile[j] EXCEPT !.due = TRUE] \in JobState
          /\ [jobsFile[j] EXCEPT !.due = TRUE].paused = jobsFile[j].paused
      BY <3>1 DEF JobState
    <3>3. jobsFile' = [jobsFile EXCEPT ![j] = [jobsFile[j] EXCEPT !.due = TRUE]]
      BY <2>1 DEF Elapse
    <3>4. QED BY <2>1, <3>1, <3>2, <3>3, ReplaceFacts
  <2>2. CASE j \notin DOMAIN jobsFile
    BY <2>2 DEF Elapse
  <2>3. QED BY <2>1, <2>2
<1>3. UNCHANGED <<wants, savedAll>> BY DEF Elapse
<1>4. QED BY <1>1, <1>2, <1>3 DEF FileCurrent, OperatorDecides

\* The end of a run, whichever copy it ran and whatever was decided meanwhile: the job
\* is counted and saved, or the output could not be written.
LEMMA SettleKeeps ==
    ASSUME CronInv, NEW r \in Runner, Settle(r), UNCHANGED wants
    PROVE  CronInv'
<1> USE DEF CronInv, CronTyped
<1> DEFINE j == copyOf[r]
<1>1. CASE UNCHANGED <<jobs, jobsFile, savedAll>>
  BY <1>1 DEF FileCurrent, OperatorDecides, JobList
<1>2. CASE jobs' = CountRun(j) /\ j \notin DOMAIN jobs /\ UNCHANGED <<jobsFile, savedAll>>
  <2>1. UNCHANGED jobs BY <1>2, CountRunFacts
  <2>2. QED BY <1>1, <1>2, <2>1
<1>3. CASE jobs' = CountRun(j) /\ Save
  <2> HIDE DEF j
  <2>1. /\ JobList(jobs') /\ DOMAIN jobs' \subseteq DOMAIN jobs
        /\ \A k \in DOMAIN jobs' : jobs'[k].paused = jobs[k].paused
    BY <1>3, CountRunFacts
  <2>2. /\ JobList(jobsFile') /\ savedAll' \in BOOLEAN /\ FileCurrent'
        /\ savedAll' => savedAll /\ jobsFile' = jobs'
    BY <1>3, <2>1, SaveFacts
  <2>3. OperatorDecides'
    BY <2>1, <2>2 DEF OperatorDecides
  <2>4. QED BY <2>1, <2>2, <2>3
<1>4. QED BY <1>1, <1>2, <1>3 DEF Settle

\* A restart: the list is what jobs.json says, with more of it due.
LEMMA RestartKeeps == CronInv /\ CronRestart => CronInv'
<1> SUFFICES ASSUME CronInv, CronRestart PROVE CronInv'
  OBVIOUS
<1> USE DEF CronInv, CronTyped
<1>1. PICK late \in SUBSET DOMAIN jobsFile :
         jobs' = [k \in DOMAIN jobsFile |-> [jobsFile[k] EXCEPT !.due = @ \/ k \in late]]
  BY DEF CronRestart
<1>2. ASSUME NEW k \in DOMAIN jobsFile
      PROVE  jobs'[k] \in JobState /\ jobs'[k].paused = jobsFile[k].paused
  <2> DEFINE b == jobsFile[k].due \/ k \in late
  <2>1. jobs'[k] = [jobsFile[k] EXCEPT !.due = b] BY <1>1
  <2>2. jobsFile[k] \in JobState /\ b \in BOOLEAN BY DEF JobList
  <2> HIDE DEF b
  <2>3. QED BY <2>1, <2>2 DEF JobState
<1>3. DOMAIN jobs' = DOMAIN jobsFile /\ JobList(jobs')
  BY <1>1, <1>2 DEF JobList
<1>4. UNCHANGED <<jobsFile, wants, savedAll>> BY DEF CronRestart
<1>5. QED BY <1>2, <1>3, <1>4 DEF FileCurrent, OperatorDecides

\* Every behaviour of the scheduled runs keeps the invariant.
LEMMA CronInductive == CronSpec => []CronInv
<1>1. CronInv /\ [CronNext]_cronVars => CronInv'
  <2> SUFFICES ASSUME CronInv, [CronNext]_cronVars
               PROVE  CronInv'
    OBVIOUS
  <2>1. ASSUME UNCHANGED <<jobs, jobsFile, wants, savedAll>> PROVE CronInv'
    BY <2>1 DEF CronInv, CronTyped, JobList, FileCurrent, OperatorDecides
  <2>2. CASE UNCHANGED cronVars
    BY <2>1, <2>2 DEF cronVars
  <2>3. CASE \E j \in Job : Apply(j) \/ Elapse(j)
    BY <2>3, ApplyKeeps, ElapseKeeps
  <2>4. CASE Tick \/ TickNext
    BY <2>1, <2>4 DEF Tick, TickNext
  <2>5. CASE \E r \in Runner, j \in Job : StartNow(r, j)
    BY <2>1, <2>5 DEF StartNow
  <2>6. ASSUME NEW r \in Runner, Lock(r) \/ BeginRun(r) \/ BeginFails(r) \/ EndRun(r)
        PROVE  CronInv'
    BY <2>1, <2>6, SettleKeeps DEF Lock, BeginRun, BeginFails, EndRun
  <2>7. CASE ChatStep \/ CronEventLost \/ TimeOut
    BY <2>1, <2>7 DEF ChatStep, CronEventLost, TimeOut
  <2>8. QED BY <2>2, <2>3, <2>4, <2>5, <2>6, <2>7, RestartKeeps DEF CronNext
<1>2. QED BY <1>1, CronStarts, PTL DEF CronSpec

\* For any number of jobs, manual starts and restarts: what the operator decided about a
\* job is not undone by a run of it that was under way (Manager.runOne writes only into
\* the job that is in the list when the run ends).
THEOREM OperatorIsObeyed == CronSpec => []OperatorDecides
  BY CronInductive, PTL DEF CronInv

-----------------------------------------------------------------------------
(* The plan worker. *)

\* From the moment it is in d.running until the deferred function takes it out.
InPlan == {"loop", "taken", "submit", "wait", "expired", "verify", "outcome", "leave"}

PlanTyped ==
    /\ marker \in [Item -> Marker] /\ listed \subseteq Item
    /\ running \in Go \cup {NoGo}
    /\ pc \in [Go -> Phase] /\ current \in [Go -> Item]
    /\ outcome \in [Go -> [marker : Marker, noVerifier : BOOLEAN]]

\* Only the worker in d.running is at work on the plan.
OneWorker == \A g \in Go : pc[g] \in InPlan => running = g

\* What a worker is about to write: [x] or [!], and [x] only for an item whose verifier
\* passed; an expired item is stuck before its run has ended.
OutcomeEarned ==
    \A g \in Go : /\ pc[g] = "outcome" => \/ outcome[g].marker = "!"
                                          \/ outcome[g].marker = "x" /\ current[g] \in verified
                  /\ pc[g] = "expired" => outcome[g].marker = "!"

PlanInv == PlanTyped /\ OneWorker /\ OutcomeEarned /\ DoneIsVerified /\ TildeHasWorker

planInvVars == <<marker, listed, running, pc, current, outcome, verified, left>>

\* A set of natural numbers that is not empty has a least element, by the
\* well-foundedness of <.
LEMMA LeastNat ==
    ASSUME NEW T \in SUBSET Nat, T # {}
    PROVE  \E x \in T : \A y \in T : x <= y
<1>1. PICK x \in T : \A y \in T : ~ (<<y, x>> \in OpToRel(<, Nat))
  BY NatLessThanWellFounded, WFMin
<1>2. \A y \in T : <<y, x>> \notin {ss \in Nat \X Nat : ss[1] < ss[2]}
  BY <1>1 DEF OpToRel
<1>3. \A y \in T : ~ (y < x)
  BY <1>2
<1>4. QED BY <1>3

\* NextIn takes an item of the plan.
LEMMA LeastIsIn == ASSUME NEW S \in SUBSET Item, S # {} PROVE Least(S) \in S
<1>1. \E i \in S : \A j \in S : i <= j
  BY LeastNat, ItemAssumption
<1>2. QED BY <1>1 DEF Least

\* The plan before any worker, as it was read.
LEMMA PlanStarts == WorkerInit => PlanInv
<1> SUFFICES ASSUME WorkerInit PROVE PlanInv
  OBVIOUS
<1>1. Least(Item) \in Item BY LeastIsIn, ItemAssumption
<1>2. PlanTyped
  BY <1>1 DEF WorkerInit, PlanTyped, Marker, Phase, NoOutcome
<1>3. OneWorker /\ OutcomeEarned /\ DoneIsVerified /\ TildeHasWorker
  BY DEF WorkerInit, OneWorker, OutcomeEarned, DoneIsVerified, TildeHasWorker, InPlan
<1>4. QED BY <1>2, <1>3 DEF PlanInv

\* Steps that write neither plan.md nor what the worker is about to write.
LEMMA PlanUntouched == PlanInv /\ UNCHANGED planInvVars => PlanInv'
  BY DEF PlanInv, planInvVars, PlanTyped, OneWorker, OutcomeEarned, DoneIsVerified,
         TildeHasWorker

\* 0 is no press of Go.
LEMMA NoGoIsNone == NoGo \notin Go
  BY DEF NoGo, Go

\* A worker that moves on inside the plan, with an outcome it has earned if it is about
\* to write one, and without touching the plan or leaving an item on [~] behind.
LEMMA StepInside ==
    ASSUME PlanInv, NEW g \in Go, pc[g] \in InPlan, NEW p \in InPlan, pc' = [pc EXCEPT ![g] = p],
           UNCHANGED <<marker, listed, running, left>>,
           verified \subseteq verified',
           \A h \in Go \ {g} : current'[h] = current[h] /\ outcome'[h] = outcome[h],
           current' \in [Go -> Item],
           outcome' \in [Go -> [marker : Marker, noVerifier : BOOLEAN]],
           p = "outcome" => \/ outcome'[g].marker = "!"
                            \/ outcome'[g].marker = "x" /\ current'[g] \in verified',
           p = "expired" => outcome'[g].marker = "!",
           pc[g] \in {"submit", "wait", "expired", "verify", "outcome"} =>
              current'[g] = current[g] /\ p \in {"submit", "wait", "expired", "verify", "outcome"}
    PROVE  PlanInv'
<1> USE DEF PlanInv, PlanTyped
<1>1. running = g /\ \A h \in Go \ {g} : pc[h] \notin InPlan /\ pc'[h] = pc[h]
  BY DEF OneWorker
<1>2. pc'[g] = p /\ pc' \in [Go -> Phase]
  BY DEF InPlan, Phase
<1>3. OneWorker'
  BY <1>1, <1>2 DEF OneWorker
<1>4. OutcomeEarned'
  BY <1>1, <1>2 DEF OutcomeEarned, InPlan
<1>5. DoneIsVerified'
  BY DEF DoneIsVerified
<1>6. TildeHasWorker'
  BY <1>1, <1>2, NoGoIsNone DEF TildeHasWorker
<1>7. QED BY <1>2, <1>3, <1>4, <1>5, <1>6

\* An item that is stuck.
LEMMA StuckOutcome ==
    ASSUME PlanTyped, NEW g \in Go, Stuck(g)
    PROVE  /\ outcome' \in [Go -> [marker : Marker, noVerifier : BOOLEAN]]
           /\ outcome'[g].marker = "!" /\ \A h \in Go \ {g} : outcome'[h] = outcome[h]
  BY DEF Stuck, PlanTyped, Marker

\* Go and the entry of the goroutine: the second of two presses finds d.running taken.
LEMMA GoKeeps ==
    ASSUME PlanInv, PressGo \/ \E g \in Go : Enter(g)
    PROVE  PlanInv'
<1> USE DEF PlanInv, PlanTyped, Phase
<1>1. CASE PressGo
  <2>1. UNCHANGED <<marker, listed, running, current, outcome, verified, left>> /\ running = NoGo
    BY <1>1 DEF PressGo, planVars, history
  <2>2. pc' \in [Go -> Phase] /\ \A h \in Go : pc'[h] = pc[h] \/ pc'[h] = "created"
    BY <1>1 DEF PressGo
  <2>3. OneWorker' /\ OutcomeEarned'
    BY <2>1, <2>2 DEF OneWorker, OutcomeEarned, InPlan
  <2>4. DoneIsVerified' /\ TildeHasWorker'
    BY <2>1 DEF DoneIsVerified, TildeHasWorker
  <2>5. QED BY <2>1, <2>2, <2>3, <2>4
<1>2. ASSUME NEW g \in Go, Enter(g) PROVE PlanInv'
  <2>1. UNCHANGED <<marker, listed, current, outcome, verified, left>> /\ pc[g] = "created"
    BY <1>2 DEF Enter, planVars, history
  <2>2. CASE running # NoGo
    <3>1. running' = running /\ pc' = [pc EXCEPT ![g] = "ended"]
      BY <1>2, <2>2 DEF Enter
    <3>2. QED BY <2>1, <2>2, <3>1 DEF OneWorker, OutcomeEarned, InPlan, DoneIsVerified, TildeHasWorker
  <2>3. CASE running = NoGo
    <3>1. running' = g /\ pc' = [pc EXCEPT ![g] = "loop"]
      BY <1>2, <2>3 DEF Enter
    <3>2. \A h \in Go : pc[h] \notin InPlan
      BY <2>3, NoGoIsNone DEF OneWorker
    <3>3. QED
      BY <2>1, <2>3, <3>1, <3>2 DEF OneWorker, OutcomeEarned, InPlan, DoneIsVerified, TildeHasWorker
  <2>4. QED BY <2>2, <2>3
<1>3. QED BY <1>1, <1>2

\* The loop of goPlan up to the submission of an item.
LEMMA TakeKeeps ==
    ASSUME PlanInv, NEW g \in Go, Loop(g) \/ MarkTaken(g) \/ Submit(g)
    PROVE  PlanInv'
<1>1. CASE Loop(g)
  <2>1. /\ UNCHANGED <<marker, listed, running, left, verified, outcome>>
        /\ pc[g] = "loop"
    BY <1>1 DEF Loop, Leave, history
  <2>2. CASE UNCHANGED current /\ pc' = [pc EXCEPT ![g] = "leave"]
    BY <2>1, <2>2, StepInside DEF InPlan, PlanInv, PlanTyped
  <2>3. CASE /\ Takable # {} /\ current' = [current EXCEPT ![g] = Least(Takable)]
             /\ pc' = [pc EXCEPT ![g] = "taken"]
    <3>1. Least(Takable) \in Item
      <4>1. Takable \in SUBSET Item BY DEF Takable, PlanInv, PlanTyped
      <4>2. QED BY <2>3, <4>1, LeastIsIn
    <3>2. QED BY <2>1, <2>3, <3>1, StepInside DEF InPlan, PlanInv, PlanTyped
  <2>4. QED BY <1>1, <2>2, <2>3 DEF Loop, Leave
<1>2. CASE MarkTaken(g)
  <2> DEFINE i == current[g]
  <2>1. /\ UNCHANGED <<listed, running, left, current>>
        /\ pc[g] = "taken" /\ i \in Item
    BY <1>2 DEF MarkTaken, PlanInv, PlanTyped
  <2>2. CASE i \notin listed
    <3>1. UNCHANGED <<marker, verified, outcome>> /\ pc' = [pc EXCEPT ![g] = "leave"]
      BY <1>2, <2>2 DEF MarkTaken, Leave
    <3>2. QED BY <2>1, <3>1, StepInside DEF InPlan, PlanInv, PlanTyped
  <2>3. CASE i \in listed
    <3>1. /\ marker' = [marker EXCEPT ![i] = "~"] /\ verified' = verified \ {i}
          /\ \/ pc' = [pc EXCEPT ![g] = "submit"] /\ UNCHANGED outcome
             \/ /\ pc' = [pc EXCEPT ![g] = "outcome"]
                /\ outcome' = [outcome EXCEPT ![g] = [marker |-> "!", noVerifier |-> TRUE]]
      BY <1>2, <2>3 DEF MarkTaken
    <3>2. running = g /\ \A h \in Go \ {g} : pc[h] \notin InPlan /\ pc'[h] = pc[h]
      BY <2>1, <3>1 DEF PlanInv, PlanTyped, OneWorker, InPlan
    <3>3. /\ pc'[g] \in {"submit", "outcome"} /\ pc' \in [Go -> Phase]
          /\ outcome' \in [Go -> [marker : Marker, noVerifier : BOOLEAN]]
          /\ pc'[g] = "outcome" => outcome'[g].marker = "!"
      <4>1. CASE pc' = [pc EXCEPT ![g] = "submit"] /\ UNCHANGED outcome
        BY <4>1 DEF PlanInv, PlanTyped, Phase
      <4>2. CASE /\ pc' = [pc EXCEPT ![g] = "outcome"]
                 /\ outcome' = [outcome EXCEPT ![g] = [marker |-> "!", noVerifier |-> TRUE]]
        BY <4>2 DEF PlanInv, PlanTyped, Phase, Marker
      <4>3. QED BY <3>1, <4>1, <4>2
    <3>4. marker' \in [Item -> Marker] /\ marker'[i] = "~"
          /\ \A k \in Item \ {i} : marker'[k] = marker[k]
      BY <2>1, <3>1 DEF PlanInv, PlanTyped, Marker
    <3>5. OneWorker'
      BY <2>1, <3>2 DEF OneWorker
    <3>6. OutcomeEarned'
      BY <3>2, <3>3 DEF OutcomeEarned, InPlan
    <3>7. DoneIsVerified'
      BY <3>1, <3>4 DEF DoneIsVerified, PlanInv
    <3>8. TildeHasWorker'
      BY <2>1, <3>2, <3>3, <3>4, NoGoIsNone DEF TildeHasWorker, PlanInv, PlanTyped
    <3>9. QED BY <2>1, <3>3, <3>4, <3>5, <3>6, <3>7, <3>8 DEF PlanInv, PlanTyped
  <2>4. QED BY <2>2, <2>3
<1>3. CASE Submit(g)
  <2>1. /\ UNCHANGED <<marker, listed, running, left, verified, current>>
        /\ pc[g] = "submit"
    BY <1>3 DEF Submit, planVars, driverVars
  <2>2. CASE Stuck(g) /\ pc' = [pc EXCEPT ![g] = "outcome"]
    BY <2>1, <2>2, StuckOutcome, StepInside DEF InPlan, PlanInv, PlanTyped
  <2>3. CASE UNCHANGED outcome /\ pc' = [pc EXCEPT ![g] = "wait"]
    BY <2>1, <2>3, StepInside DEF InPlan, PlanInv, PlanTyped
  <2>4. QED BY <1>3, <2>2, <2>3 DEF Submit
<1>4. QED BY <1>1, <1>2, <1>3

\* Waiting for the run, its verifier and the deadline.
LEMMA WaitKeeps ==
    ASSUME PlanInv, NEW g \in Go,
           Cancelled(g) \/ Expire(g) \/ Expired(g) \/ Receive(g) \/ Verify(g)
    PROVE  PlanInv'
<1> USE DEF planVars, driverVars, history, loopVars
<1>1. CASE Cancelled(g)
  BY <1>1, StuckOutcome, StepInside DEF Cancelled, InPlan, PlanInv, PlanTyped
<1>2. CASE Expire(g)
  BY <1>2, StuckOutcome, StepInside DEF Expire, InPlan, PlanInv, PlanTyped
<1>3. CASE Expired(g)
  <2>1. outcome[g].marker = "!" BY <1>3 DEF Expired, PlanInv, OutcomeEarned
  <2>2. QED BY <1>3, <2>1, StepInside DEF Expired, InPlan, PlanInv, PlanTyped
<1>4. CASE Receive(g)
  <2>1. UNCHANGED <<marker, listed, running, left, verified, current>> /\ pc[g] = "wait"
    BY <1>4 DEF Receive
  <2>2. CASE UNCHANGED <<pc, outcome>>
    BY <2>1, <2>2, PlanUntouched DEF planInvVars
  <2>3. CASE pc' = [pc EXCEPT ![g] = "verify"] /\ UNCHANGED outcome
    BY <2>1, <2>3, StepInside DEF InPlan, PlanInv, PlanTyped
  <2>4. CASE Stuck(g) /\ pc' = [pc EXCEPT ![g] = "outcome"]
    BY <2>1, <2>4, StuckOutcome, StepInside DEF InPlan, PlanInv, PlanTyped
  <2>5. QED BY <1>4, <2>2, <2>3, <2>4 DEF Receive
<1>5. CASE Verify(g)
  <2>1. /\ UNCHANGED <<marker, listed, running, left, current>>
        /\ pc[g] = "verify" /\ pc' = [pc EXCEPT ![g] = "outcome"]
    BY <1>5 DEF Verify
  <2>2. CASE Stuck(g) /\ UNCHANGED verified
    BY <2>1, <2>2, StuckOutcome, StepInside DEF InPlan, PlanInv, PlanTyped
  <2>3. CASE /\ verified' = verified \cup {current[g]}
             /\ outcome' = [outcome EXCEPT ![g] = [marker |-> "x", noVerifier |-> FALSE]]
    <3>1. /\ outcome' \in [Go -> [marker : Marker, noVerifier : BOOLEAN]]
          /\ outcome'[g].marker = "x" /\ \A h \in Go \ {g} : outcome'[h] = outcome[h]
      BY <2>3 DEF PlanInv, PlanTyped, Marker
    <3>2. QED BY <2>1, <2>3, <3>1, StepInside DEF InPlan, PlanInv, PlanTyped
  <2>4. QED BY <1>5, <2>2, <2>3 DEF Verify
<1>6. QED BY <1>1, <1>2, <1>3, <1>4, <1>5

\* The end of an item and of the worker.
LEMMA RecordKeeps ==
    ASSUME PlanInv, NEW g \in Go, PlanFails(g) \/ Record(g) \/ Return(g)
    PROVE  PlanInv'
<1> DEFINE i == current[g]
<1> USE DEF PlanInv, PlanTyped
<1>0. pc[g] \in InPlan /\ i \in Item
  BY DEF PlanFails, Record, Return, InPlan
<1>1. running = g /\ \A h \in Go \ {g} : pc[h] \notin InPlan
  BY <1>0 DEF OneWorker
<1>2. CASE Return(g)
  <2>1. /\ UNCHANGED <<marker, listed, left, verified, current, outcome>>
        /\ pc[g] = "leave" /\ running' = NoGo /\ pc' = [pc EXCEPT ![g] = "ended"]
    BY <1>2 DEF Return, planVars, history
  <2>2. \A h \in Go : pc'[h] \notin InPlan /\ pc' \in [Go -> Phase]
    BY <1>1, <2>1 DEF InPlan, Phase
  <2>3. OneWorker' /\ OutcomeEarned' /\ DoneIsVerified'
    BY <2>1, <2>2 DEF OneWorker, OutcomeEarned, DoneIsVerified, InPlan
  <2>4. TildeHasWorker'
    BY <1>1, <2>1 DEF TildeHasWorker
  <2>5. QED BY <1>0, <2>1, <2>2, <2>3, <2>4
<1>3. ASSUME UNCHANGED <<listed, running, verified, current>>,
             pc' = [pc EXCEPT ![g] = "leave"] \/ pc' = [pc EXCEPT ![g] = "loop"],
             outcome' = [outcome EXCEPT ![g] = NoOutcome]
      PROVE  OneWorker' /\ OutcomeEarned' /\ pc' \in [Go -> Phase]
             /\ outcome' \in [Go -> [marker : Marker, noVerifier : BOOLEAN]]
  BY <1>1, <1>3 DEF OneWorker, OutcomeEarned, InPlan, Phase, NoOutcome, Marker
<1>4. CASE PlanFails(g)
  <2>1. /\ UNCHANGED <<marker, listed, running, verified, current>>
        /\ pc' = [pc EXCEPT ![g] = "leave"] /\ outcome' = [outcome EXCEPT ![g] = NoOutcome]
        /\ left' = IF pc[g] = "outcome" /\ marker[i] = "~" THEN left \cup {i} ELSE left
        /\ pc[g] \in {"loop", "taken", "outcome"}
    BY <1>4 DEF PlanFails, Leave
  <2>2. TildeHasWorker'
    BY <1>1, <2>1 DEF TildeHasWorker
  <2>3. DoneIsVerified'
    BY <2>1 DEF DoneIsVerified
  <2>4. QED BY <1>3, <2>1, <2>2, <2>3
<1>5. CASE Record(g)
  <2>1. /\ UNCHANGED <<listed, running, verified, current, left>>
        /\ pc[g] = "outcome" /\ outcome' = [outcome EXCEPT ![g] = NoOutcome]
        /\ pc' = [pc EXCEPT ![g] = "leave"] \/ pc' = [pc EXCEPT ![g] = "loop"]
        /\ \/ i \notin listed /\ UNCHANGED marker
           \/ i \in listed /\ marker' = [marker EXCEPT ![i] = outcome[g].marker]
    BY <1>5 DEF Record, Leave, history
  <2>2. \/ outcome[g].marker = "!"
        \/ outcome[g].marker = "x" /\ i \in verified
    BY <2>1 DEF OutcomeEarned
  <2>3. marker' \in [Item -> Marker] /\ DoneIsVerified'
    BY <1>0, <2>1, <2>2 DEF DoneIsVerified, Marker
  <2>4. TildeHasWorker'
    BY <1>0, <1>1, <2>1, <2>2 DEF TildeHasWorker
  <2>5. QED BY <1>3, <2>1, <2>3, <2>4
<1>6. QED BY <1>2, <1>4, <1>5

\* Edits of the plan and the end of the process.
LEMMA EditKeeps ==
    ASSUME PlanInv, Restart \/ \E i \in Item : Edit(i)
    PROVE  PlanInv'
<1> USE DEF PlanInv, PlanTyped
<1>1. CASE Restart
  <2>1. /\ UNCHANGED <<marker, listed, verified, current, outcome>> /\ running' = NoGo
        /\ left' = left \cup {i \in Item : marker[i] = "~"}
        /\ pc' = [g \in Go |-> IF pc[g] = "none" THEN "none" ELSE "ended"]
    BY <1>1 DEF Restart, planVars
  <2>2. \A g \in Go : pc'[g] \notin InPlan /\ pc' \in [Go -> Phase]
    BY <2>1 DEF InPlan, Phase
  <2>3. QED
    BY <2>1, <2>2 DEF OneWorker, OutcomeEarned, DoneIsVerified, TildeHasWorker, InPlan, Phase
<1>2. ASSUME NEW i \in Item, Edit(i) PROVE PlanInv'
  <2>1. UNCHANGED <<running, pc, current, outcome>> /\ verified \subseteq verified'
    BY <1>2 DEF Edit, driverVars, loopVars
  <2>2. OneWorker' /\ OutcomeEarned'
    BY <2>1 DEF OneWorker, OutcomeEarned
  <2>3. marker'[i] = "x" => i \in verified'
    BY <1>2 DEF Edit
  <2>4. CASE /\ listed' = listed \cup {i} /\ marker' = [marker EXCEPT ![i] = " "]
             /\ left' = left \ {i}
    BY <2>1, <2>2, <2>4 DEF DoneIsVerified, TildeHasWorker, Marker
  <2>5. CASE listed' \subseteq listed /\ UNCHANGED <<marker, left>>
    BY <2>1, <2>2, <2>5 DEF DoneIsVerified, TildeHasWorker
  <2>6. CASE /\ marker' = [marker EXCEPT ![i] = IF @ = "x" THEN " " ELSE "x"]
             /\ UNCHANGED <<listed, left>>
    <3>1. marker' \in [Item -> Marker] /\ marker'[i] \in {"x", " "}
          /\ \A k \in Item \ {i} : marker'[k] = marker[k]
      BY <2>6 DEF Marker
    <3>2. DoneIsVerified'
      BY <2>1, <2>3, <3>1 DEF DoneIsVerified
    <3>3. TildeHasWorker'
      BY <2>1, <2>6, <3>1 DEF TildeHasWorker
    <3>4. QED BY <2>1, <2>2, <2>6, <3>1, <3>2, <3>3
  <2>7. QED BY <1>2, <2>4, <2>5, <2>6 DEF Edit
<1>3. QED BY <1>1, <1>2

\* Every behaviour of the worker keeps the invariant.
LEMMA PlanInductive == WorkerSpec => []PlanInv
<1>1. PlanInv /\ [WorkerNext]_workerVars => PlanInv'
  <2> SUFFICES ASSUME PlanInv, [WorkerNext]_workerVars
               PROVE  PlanInv'
    OBVIOUS
  <2>1. CASE UNCHANGED workerVars
    BY <2>1, PlanUntouched DEF workerVars, planVars, driverVars, loopVars, history, planInvVars
  <2>2. CASE StopWorker \/ StopItsRun
    BY <2>2, PlanUntouched
    DEF StopWorker, StopItsRun, planVars, driverVars, loopVars, history, planInvVars
  <2>3. ASSUME NEW g \in Go, Chat(g) PROVE PlanInv'
    <3>1. UNCHANGED planInvVars
      BY <2>3 DEF Chat, RunStarts, Card, RunEnds, ModelLost, Release, EventsLost, OperatorStop,
                  planVars, driverVars, loopVars, history, planInvVars
    <3>2. QED BY <3>1, PlanUntouched
  <2>4. ASSUME NEW g \in Go, Worker(g) PROVE PlanInv'
    <3>1. CASE Check(g)
      BY <3>1, PlanUntouched DEF Check, planVars, driverVars, loopVars, history, planInvVars
    <3>2. QED
      BY <2>4, <3>1, GoKeeps, TakeKeeps, WaitKeeps, RecordKeeps DEF Worker
  <2>5. QED BY <2>1, <2>2, <2>3, <2>4, GoKeeps, EditKeeps DEF WorkerNext
<1>2. QED BY <1>1, PlanStarts, PTL DEF WorkerSpec

\* For any plan, any number of presses of Go, edits, stops and restarts: nothing is
\* marked [x] but by its verifier or by the operator (worker.go, verify; driver.go,
\* goPlan).
THEOREM OnlyVerifiedIsDone == WorkerSpec => []DoneIsVerified
  BY PlanInductive, PTL DEF PlanInv

\* For any plan, presses of Go, edits, stops and restarts: no item is left on [~] by a
\* worker that goes on to another one or returns (driver.go, goPlan).
THEOREM TildeIsWorkedOn == WorkerSpec => []TildeHasWorker
  BY PlanInductive, PTL DEF PlanInv

-----------------------------------------------------------------------------
(* Telemetry. *)

\* The save that stops or starts a sender holds the host's lock; the sender it detached
\* is the one whose reader and loop it waits for.
HostOrder ==
    /\ \A s \in Saver : saverPc[s] \in {"reader", "loop", "start"} => hostMu = s /\ sender = 0
    /\ \A s \in Saver : saverPc[s] \in {"reader", "loop"} => alive # 0
    /\ sender # 0 => alive = sender
    /\ alive <= senders

\* A batch is in the hands of an actor only while it posts it.
PostedOnly == \A a \in TelActor : taken[a] # {} => actorPc[a] = "post"

\* Whoever observes or flushes refers to a sender that was created, and a sender that
\* was not created yet has gathered nothing.
RefsKnown ==
    /\ \A a \in TelActor : refTo[a] <= senders
    /\ \A a \in TelActor : actorPc[a] \in {"ref", "full"} => refTo[a] # 0
    /\ \A a \in TelActor : actorPc[a] = "ref" => a \in Recorder
    /\ \A g \in SenderId : g > senders => gathered[g] = {}

TelInv == TelTypeOK /\ HostOrder /\ PostedOnly /\ RefsKnown /\ EventAccounted

\* Where an event can be.
Placed(e) ==
    \/ \E g \in SenderId : e \in gathered[g]
    \/ \E a \in TelActor : e \in taken[a]
    \/ \E b \in SeqSet(backlog) : e \in b
    \/ e \in delivered \/ e \in given

placeVars == <<gathered, taken, backlog, delivered, given>>

\* The members of a union of indexed sets.
LEMMA InUnion ==
    ASSUME NEW I, NEW f, NEW e
    PROVE  e \in UNION {f[x] : x \in I} <=> \E x \in I : e \in f[x]
  OBVIOUS

\* EventAccounted, event by event.
LEMMA AccountedNow == EventAccounted => \A e : e \in 1..observed <=> Placed(e)
<1> DEFINE G == UNION {gathered[g] : g \in SenderId}
           T == UNION {taken[a] : a \in TelActor}
<1>1. EventAccounted <=> 1..observed = G \cup T \cup Backlogged \cup delivered \cup given
  BY DEF EventAccounted
<1>2. ASSUME NEW e
      PROVE  /\ e \in G <=> \E g \in SenderId : e \in gathered[g]
             /\ e \in T <=> \E a \in TelActor : e \in taken[a]
             /\ e \in Backlogged <=> \E b \in SeqSet(backlog) : e \in b
  <2>1. e \in G <=> \E g \in SenderId : e \in gathered[g]
    BY InUnion
  <2>2. e \in T <=> \E a \in TelActor : e \in taken[a]
    BY InUnion
  <2>3. e \in Backlogged <=> \E b \in SeqSet(backlog) : e \in b
    BY DEF Backlogged
  <2> HIDE DEF G, T
  <2>4. QED BY <2>1, <2>2, <2>3
<1> HIDE DEF G, T
<1>3. QED BY <1>1, <1>2 DEF Placed

\* The same for the state after a step.
LEMMA AccountedNext == (\A e : e \in 1..observed' <=> Placed(e)') => EventAccounted'
<1> DEFINE G == UNION {gathered'[g] : g \in SenderId}
           T == UNION {taken'[a] : a \in TelActor}
<1>1. EventAccounted' <=> 1..observed' = G \cup T \cup Backlogged' \cup delivered' \cup given'
  BY DEF EventAccounted
<1>2. ASSUME NEW e
      PROVE  /\ e \in G <=> \E g \in SenderId : e \in gathered'[g]
             /\ e \in T <=> \E a \in TelActor : e \in taken'[a]
             /\ e \in Backlogged' <=> \E b \in SeqSet(backlog)' : e \in b
  <2>1. e \in G <=> \E g \in SenderId : e \in gathered'[g]
    BY InUnion
  <2>2. e \in T <=> \E a \in TelActor : e \in taken'[a]
    BY InUnion
  <2>3. e \in Backlogged' <=> \E b \in SeqSet(backlog)' : e \in b
    BY DEF Backlogged
  <2> HIDE DEF G, T
  <2>4. QED BY <2>1, <2>2, <2>3
<1> HIDE DEF G, T
<1>3. QED BY <1>1, <1>2 DEF Placed

\* A batch that is queued joins the ones that are.
LEMMA QueuedSet ==
    ASSUME NEW S, NEW q \in Seq(S), NEW b \in S
    PROVE  Append(q, b) \in Seq(S) /\ SeqSet(Append(q, b)) = SeqSet(q) \cup {b}
<1>1. /\ Append(q, b) \in Seq(S) /\ Len(Append(q, b)) = Len(q) + 1 /\ Len(q) \in Nat
      /\ \A k \in 1..Len(q) : Append(q, b)[k] = q[k]
      /\ Append(q, b)[Len(q) + 1] = b
  BY AppendProperties, LenProperties
<1>2. 1..(Len(q) + 1) = (1..Len(q)) \cup {Len(q) + 1}
  BY <1>1
<1>3. QED BY <1>1, <1>2 DEF SeqSet

\* Removing the file of one batch leaves the other batches.
LEMMA RemovedSet ==
    ASSUME NEW S, NEW q \in Seq(S), NEW b \in SeqSet(q)
    PROVE  /\ Without1(q, b) \in Seq(S)
           /\ SeqSet(q) = SeqSet(Without1(q, b)) \cup {b}
<1> DEFINE k == CHOOSE k \in 1..Len(q) : q[k] = b
           u == SubSeq(q, 1, k - 1)
           v == SubSeq(q, k + 1, Len(q))
<1>0. Len(q) \in Nat /\ \A i \in 1..Len(q) : q[i] \in S
  BY LenProperties, ElementOfSeq
<1>1. k \in 1..Len(q) /\ q[k] = b
  BY DEF SeqSet
<1> HIDE DEF k
<1>2. /\ u \in Seq(S) /\ Len(u) = k - 1
      /\ \A i \in 1..(k - 1) : u[i] = q[i]
  <2>1. \A i \in 1..(k - 1) : q[i] \in S BY <1>0, <1>1
  <2>2. /\ u \in Seq(S) /\ Len(u) = (IF 1 <= k - 1 THEN k - 1 - 1 + 1 ELSE 0)
        /\ \A i \in 1..(k - 1 - 1 + 1) : u[i] = q[1 + i - 1]
    BY <1>1, <2>1, SubSeqProperties
  <2> HIDE DEF u
  <2>3. QED BY <1>0, <1>1, <2>2
<1>3. /\ v \in Seq(S) /\ Len(v) = Len(q) - k
      /\ \A i \in 1..(Len(q) - k) : v[i] = q[k + i]
  <2>1. \A i \in (k + 1)..Len(q) : q[i] \in S BY <1>0, <1>1
  <2>2. /\ v \in Seq(S) /\ Len(v) = (IF k + 1 <= Len(q) THEN Len(q) - (k + 1) + 1 ELSE 0)
        /\ \A i \in 1..(Len(q) - (k + 1) + 1) : v[i] = q[k + 1 + i - 1]
    BY <1>0, <1>1, <2>1, SubSeqProperties
  <2> HIDE DEF v
  <2>3. QED BY <1>0, <1>1, <2>2
<1>4. Without1(q, b) = u \o v
  BY DEF Without1, k
<1> HIDE DEF u, v
<1>5. /\ u \o v \in Seq(S) /\ Len(u \o v) = Len(q) - 1
      /\ \A i \in 1..(Len(q) - 1) : (u \o v)[i] = IF i < k THEN q[i] ELSE q[i + 1]
  <2>1. /\ u \o v \in Seq(S) /\ Len(u \o v) = Len(u) + Len(v)
        /\ \A i \in 1..(Len(u) + Len(v)) :
              (u \o v)[i] = IF i <= Len(u) THEN u[i] ELSE v[i - Len(u)]
    BY <1>2, <1>3, ConcatProperties
  <2>2. Len(u) + Len(v) = Len(q) - 1
    BY <1>0, <1>1, <1>2, <1>3
  <2>3. ASSUME NEW i \in 1..(Len(q) - 1), i < k PROVE (u \o v)[i] = q[i]
    BY <1>0, <1>1, <1>2, <2>1, <2>2, <2>3
  <2>4. ASSUME NEW i \in 1..(Len(q) - 1), ~ (i < k) PROVE (u \o v)[i] = q[i + 1]
    <3>1. (u \o v)[i] = v[i - (k - 1)] /\ i - (k - 1) \in 1..(Len(q) - k)
      BY <1>0, <1>1, <1>2, <2>1, <2>2, <2>4
    <3>2. v[i - (k - 1)] = q[k + (i - (k - 1))] BY <1>3, <3>1
    <3>3. k + (i - (k - 1)) = i + 1 BY <1>1
    <3>4. QED BY <3>1, <3>2, <3>3
  <2>5. QED BY <2>1, <2>2, <2>3, <2>4
<1>6. ASSUME NEW x PROVE x \in SeqSet(q) <=> x \in SeqSet(u \o v) \cup {b}
  <2>1. ASSUME x \in SeqSet(q), x # b PROVE x \in SeqSet(u \o v)
    <3>1. PICK i \in 1..Len(q) : q[i] = x BY <2>1 DEF SeqSet
    <3>2. CASE i < k
      <4>1. i \in 1..(Len(q) - 1) BY <1>0, <1>1, <3>2
      <4>2. (u \o v)[i] = x BY <1>5, <3>1, <3>2, <4>1
      <4>3. QED BY <1>5, <4>1, <4>2 DEF SeqSet
    <3>3. CASE i > k
      <4>1. i - 1 \in 1..(Len(q) - 1) /\ ~ (i - 1 < k) /\ (i - 1) + 1 = i
        BY <1>0, <1>1, <3>3
      <4>2. (u \o v)[i - 1] = x BY <1>5, <3>1, <4>1
      <4>3. QED BY <1>5, <4>1, <4>2 DEF SeqSet
    <3>4. QED BY <1>0, <1>1, <2>1, <3>1, <3>2, <3>3
  <2>2. ASSUME x \in SeqSet(u \o v) PROVE x \in SeqSet(q)
    <3>1. PICK i \in 1..(Len(q) - 1) : (u \o v)[i] = x BY <1>5, <2>2 DEF SeqSet
    <3>2. QED BY <1>0, <1>1, <1>5, <3>1 DEF SeqSet
  <2>3. QED BY <2>1, <2>2
<1>7. QED BY <1>4, <1>5, <1>6

\* Steps that move no event.
LEMMA NothingMoves ==
    ASSUME EventAccounted, UNCHANGED <<placeVars, observed>>
    PROVE  EventAccounted'
  BY DEF EventAccounted, Backlogged, placeVars

\* The process starts with nothing observed.
LEMMA TelStarts == TelInit => TelInv
<1> SUFFICES ASSUME TelInit PROVE TelInv
  OBVIOUS
<1> USE TelemetryAssumption DEF TelInit
<1>1. TelTypeOK
  <2>1. 0 \in 0..MaxTurn /\ 0 \in 0..MaxSender /\ 0 \in 0..MaxEvent
    OBVIOUS
  <2>2. <<>> \in Seq(SUBSET TelEvent)
    BY EmptySeq
  <2>3. QED BY <2>1, <2>2 DEF TelTypeOK
<1>2. HostOrder /\ PostedOnly /\ RefsKnown
  BY DEF HostOrder, PostedOnly, RefsKnown
<1>3. EventAccounted
  <2>1. SeqSet(backlog) = {} BY DEF SeqSet
  <2>2. Backlogged = {} BY <2>1 DEF Backlogged
  <2>3. QED BY <2>2 DEF EventAccounted
<1>4. QED BY <1>1, <1>2, <1>3 DEF TelInv

\* A save up to the lock: the switch, the snapshot, the detached sender.
LEMMA SaveKeeps ==
    ASSUME TelInv, NEW s \in Saver, SaveSettings(s) \/ TakeSnapshot(s) \/ ApplyTelemetry(s)
    PROVE  TelInv'
<1> USE DEF TelInv
<1>1. UNCHANGED <<placeVars, observed, alive, senders, shut, actorPc, refTo, draining, takenLate>>
  BY DEF SaveSettings, TakeSnapshot, ApplyTelemetry, placeVars
<1>2. EventAccounted' /\ PostedOnly' /\ RefsKnown'
  BY <1>1, NothingMoves DEF PostedOnly, RefsKnown, placeVars
<1>3. CASE SaveSettings(s)
  BY <1>1, <1>2, <1>3, TelemetryAssumption DEF SaveSettings, TelTypeOK, HostOrder, placeVars
<1>4. CASE TakeSnapshot(s)
  BY <1>1, <1>2, <1>4 DEF TakeSnapshot, TelTypeOK, HostOrder, placeVars
<1>5. CASE ApplyTelemetry(s)
  <2>1. \A q \in Saver : saverPc[q] \notin {"reader", "loop", "start"}
    BY <1>5, TelemetryAssumption DEF ApplyTelemetry, HostOrder
  <2>2. HostOrder'
    BY <1>1, <1>5, <2>1 DEF ApplyTelemetry, HostOrder, TelTypeOK
  <2>3. TelTypeOK'
    BY <1>1, <1>5, TelemetryAssumption DEF ApplyTelemetry, TelTypeOK, placeVars
  <2>4. QED BY <1>2, <2>2, <2>3
<1>6. QED BY <1>3, <1>4, <1>5

\* Stopping the sender: what it gathered and what it queued is given up.
LEMMA StopKeeps ==
    ASSUME TelInv, NEW s \in Saver, Close(s) \/ DeleteQueue(s)
    PROVE  TelInv'
<1> USE DEF TelInv
<1>1. CASE Close(s)
  <2>1. /\ alive \in SenderId /\ shut' = shut \cup {alive} /\ given' = given \cup gathered[alive]
        /\ gathered' = [gathered EXCEPT ![alive] = {}]
        /\ saverPc' = [saverPc EXCEPT ![s] = "loop"] /\ saverPc[s] = "reader"
        /\ UNCHANGED <<telSwitch, snapshot, hostMu, telTurns, sender, alive, senders, actorPc, refTo,
                       taken, backlog, draining, observed, delivered, takenLate>>
    BY <1>1, TelemetryAssumption DEF Close, HostOrder, TelTypeOK, SenderId
  <2>2. TelTypeOK'
    BY <2>1 DEF TelTypeOK
  <2>3. HostOrder' /\ PostedOnly' /\ RefsKnown'
    BY <2>1 DEF HostOrder, PostedOnly, RefsKnown, TelTypeOK
  <2>4. \A e : Placed(e)' <=> Placed(e)
    BY <2>1 DEF Placed, TelTypeOK
  <2>5. QED BY <2>1, <2>2, <2>3, <2>4, AccountedNow, AccountedNext
<1>2. CASE DeleteQueue(s)
  <2>1. /\ given' = given \cup Backlogged /\ backlog' = <<>> /\ draining' = <<>> /\ alive' = 0
        /\ saverPc' = [saverPc EXCEPT ![s] = "start"] /\ saverPc[s] = "loop"
        /\ UNCHANGED <<telSwitch, snapshot, hostMu, telTurns, sender, senders, shut, gathered,
                       actorPc, refTo, taken, observed, delivered, takenLate>>
    BY <1>2 DEF DeleteQueue
  <2>2. hostMu = s /\ sender = 0 /\ \A q \in Saver \ {s} : saverPc[q] \notin {"reader", "loop", "start"}
    BY <2>1 DEF HostOrder
  <2>3. Backlogged \subseteq TelEvent
    BY ElementOfSeq DEF Backlogged, SeqSet, TelTypeOK
  <2>4. TelTypeOK'
    BY <2>1, <2>3, EmptySeq, TelemetryAssumption DEF TelTypeOK
  <2>5. HostOrder'
    BY <2>1, <2>2, TelemetryAssumption DEF HostOrder, TelTypeOK
  <2>6. PostedOnly' /\ RefsKnown'
    BY <2>1 DEF PostedOnly, RefsKnown
  <2>7. \A e : Placed(e)' <=> Placed(e)
    <3>1. SeqSet(backlog') = {} BY <2>1 DEF SeqSet
    <3>2. \A e : e \in Backlogged <=> \E b \in SeqSet(backlog) : e \in b BY DEF Backlogged
    <3>3. QED BY <2>1, <3>1, <3>2 DEF Placed
  <2>8. QED BY <2>1, <2>4, <2>5, <2>6, <2>7, AccountedNow, AccountedNext
<1>3. QED BY <1>1, <1>2

\* A sender starts, with the shape of the settings as its first event or without.
LEMMA StartKeeps ==
    ASSUME TelInv, NEW s \in Saver, StartSender(s)
    PROVE  TelInv'
<1> USE TelemetryAssumption DEF TelInv
<1>1. /\ saverPc[s] = "start" /\ saverPc' = [saverPc EXCEPT ![s] = "idle"] /\ hostMu' = "free"
      /\ UNCHANGED <<telSwitch, snapshot, telTurns, shut, actorPc, refTo, taken, backlog, draining,
                     delivered, given, takenLate>>
  BY DEF StartSender
<1>2. hostMu = s /\ sender = 0 /\ \A q \in Saver \ {s} : saverPc[q] \notin {"reader", "loop", "start"}
  BY <1>1 DEF HostOrder
<1>3. \A q \in Saver : saverPc'[q] \notin {"reader", "loop", "start"}
  BY <1>1, <1>2 DEF TelTypeOK
<1>4. CASE UNCHANGED <<senders, sender, alive, observed, gathered>>
  <2>1. TelTypeOK' /\ HostOrder' /\ PostedOnly' /\ RefsKnown'
    BY <1>1, <1>2, <1>3, <1>4 DEF TelTypeOK, HostOrder, PostedOnly, RefsKnown
  <2>2. QED BY <1>1, <1>4, <2>1, NothingMoves DEF placeVars
<1>5. CASE /\ senders < MaxSender /\ senders' = senders + 1 /\ sender' = senders' /\ alive' = senders'
           /\ UNCHANGED <<observed, gathered>>
  <2>1. TelTypeOK' /\ HostOrder'
    BY <1>1, <1>2, <1>3, <1>5 DEF TelTypeOK, HostOrder
  <2>2. PostedOnly' /\ RefsKnown'
    BY <1>1, <1>5 DEF TelTypeOK, PostedOnly, RefsKnown, SenderId
  <2>3. QED BY <1>1, <1>5, <2>1, <2>2, NothingMoves DEF placeVars
<1>6. CASE /\ senders < MaxSender /\ senders' = senders + 1 /\ sender' = senders' /\ alive' = senders'
           /\ observed < MaxEvent /\ observed' = observed + 1
           /\ gathered' = [gathered EXCEPT ![senders'] = {observed'}]
  <2>1. senders' \in SenderId /\ observed' \in TelEvent /\ observed \in Nat /\ gathered[senders'] = {}
    BY <1>6 DEF TelTypeOK, SenderId, TelEvent, RefsKnown
  <2>2. gathered' \in [SenderId -> SUBSET TelEvent]
    BY <1>6, <2>1 DEF TelTypeOK
  <2>3. TelTypeOK' /\ HostOrder'
    BY <1>1, <1>2, <1>3, <1>6, <2>1, <2>2 DEF TelTypeOK, HostOrder
  <2>4. PostedOnly' /\ RefsKnown'
    BY <1>1, <1>6, <2>1 DEF TelTypeOK, PostedOnly, RefsKnown, SenderId
  <2>5. \A e : Placed(e)' <=> Placed(e) \/ e = observed'
    BY <1>1, <1>6, <2>1 DEF Placed, TelTypeOK
  <2>6. \A e : e \in 1..observed' <=> e \in 1..observed \/ e = observed'
    BY <1>6, <2>1
  <2>7. QED BY <2>3, <2>4, <2>5, <2>6, AccountedNow, AccountedNext
<1>7. QED BY <1>4, <1>5, <1>6 DEF StartSender

\* A recorder refers to a sender, and the loop's tick to the one it belongs to.
LEMMA ReferKeeps ==
    ASSUME TelInv, LoopTick \/ \E a \in TelActor : TakeReference(a)
    PROVE  TelInv'
<1> USE TelemetryAssumption DEF TelInv, hostVars
<1>1. ASSUME NEW a \in TelActor, TakeReference(a) PROVE TelInv'
  <2>1. UNCHANGED <<hostVars, placeVars, draining, observed, takenLate>>
    BY <1>1 DEF TakeReference, placeVars
  <2>2. /\ refTo' = [refTo EXCEPT ![a] = sender] /\ actorPc' = [actorPc EXCEPT ![a] = "ref"]
        /\ actorPc[a] = "idle" /\ a \in Recorder /\ sender # 0
    BY <1>1 DEF TakeReference
  <2>3. TelTypeOK' /\ HostOrder'
    BY <2>1, <2>2 DEF TelTypeOK, HostOrder, placeVars
  <2>4. PostedOnly' /\ RefsKnown'
    BY <2>1, <2>2 DEF TelTypeOK, HostOrder, PostedOnly, RefsKnown, placeVars
  <2>5. QED BY <2>1, <2>3, <2>4, NothingMoves
<1>2. CASE LoopTick
  <2>1. UNCHANGED <<hostVars, placeVars, draining, observed, takenLate>>
    BY <1>2 DEF LoopTick, placeVars
  <2>2. /\ refTo' = [refTo EXCEPT !["loop"] = alive] /\ actorPc' = [actorPc EXCEPT !["loop"] = "full"]
        /\ actorPc["loop"] = "idle" /\ alive # 0 /\ "loop" \in TelActor
    BY <1>2 DEF LoopTick, TelActor
  <2>3. TelTypeOK' /\ HostOrder'
    BY <2>1, <2>2 DEF TelTypeOK, HostOrder, placeVars
  <2>4. PostedOnly' /\ RefsKnown'
    BY <2>1, <2>2 DEF TelTypeOK, HostOrder, PostedOnly, RefsKnown, placeVars
  <2>5. QED BY <2>1, <2>3, <2>4, NothingMoves
<1>3. QED BY <1>1, <1>2

\* An event is observed, by the reader or through the reference of a recorder.
LEMMA ObserveKeeps ==
    ASSUME TelInv, NEW a \in TelActor, Observe(a)
    PROVE  TelInv'
<1> USE TelemetryAssumption DEF TelInv, hostVars
<1> DEFINE g == IF a = "reader" THEN alive ELSE refTo[a]
<1>1. /\ UNCHANGED <<hostVars, taken, backlog, draining, delivered, given, takenLate>>
      /\ observed < MaxEvent /\ observed' = observed + 1
      /\ gathered' = [gathered EXCEPT ![g] = gathered[g] \cup {observed'}]
      /\ refTo' = [refTo EXCEPT ![a] = g]
  BY DEF Observe
<1>2. PICK p \in {"full", "idle"} : actorPc' = [actorPc EXCEPT ![a] = p]
  BY DEF Observe
<1>3. g \in SenderId /\ g <= senders
  BY DEF Observe, TelTypeOK, HostOrder, RefsKnown, SenderId
<1>4. taken[a] = {}
  BY DEF Observe, PostedOnly
<1> HIDE DEF g
<1>5. observed' \in TelEvent /\ observed \in Nat
  BY <1>1 DEF TelTypeOK, TelEvent
<1>6. TelTypeOK' /\ HostOrder'
  BY <1>1, <1>2, <1>3, <1>5 DEF TelTypeOK, HostOrder, SenderId
<1>7. PostedOnly' /\ RefsKnown'
  BY <1>1, <1>2, <1>3, <1>4 DEF TelTypeOK, PostedOnly, RefsKnown, SenderId
<1>8. \A e : Placed(e)' <=> Placed(e) \/ e = observed'
  BY <1>1, <1>3 DEF Placed, TelTypeOK
<1>9. \A e : e \in 1..observed' <=> e \in 1..observed \/ e = observed'
  BY <1>1, <1>5
<1>10. QED BY <1>6, <1>7, <1>8, <1>9, AccountedNow, AccountedNext

\* A flush takes what its sender gathered.
LEMMA FlushKeeps ==
    ASSUME TelInv, NEW a \in TelActor, Flush(a)
    PROVE  TelInv'
<1> USE TelemetryAssumption DEF TelInv, hostVars
<1> DEFINE g == refTo[a]
<1>1. /\ UNCHANGED <<hostVars, refTo, backlog, observed, delivered, given>>
      /\ actorPc[a] = "full"
      /\ taken' = [taken EXCEPT ![a] = gathered[g]] /\ gathered' = [gathered EXCEPT ![g] = {}]
      /\ draining' = draining \/ draining' = backlog
      /\ takenLate' \in BOOLEAN
  BY DEF Flush, TelTypeOK
<1>2. taken'[a] = gathered[g] /\ g \in SenderId
  BY <1>1 DEF TelTypeOK, RefsKnown, SenderId
<1>3. PICK p \in {"idle", "drain", "post"} :
         actorPc' = [actorPc EXCEPT ![a] = p] /\ (taken'[a] # {} => p = "post")
  BY DEF Flush, After
<1>4. taken[a] = {}
  BY <1>1 DEF PostedOnly
<1> HIDE DEF g
<1>5. TelTypeOK' /\ HostOrder'
  BY <1>1, <1>2, <1>3 DEF TelTypeOK, HostOrder
<1>6. PostedOnly' /\ RefsKnown'
  BY <1>1, <1>2, <1>3 DEF TelTypeOK, PostedOnly, RefsKnown
<1>7. \A e : Placed(e)' <=> Placed(e)
  BY <1>1, <1>2, <1>4 DEF Placed, TelTypeOK
<1>8. QED BY <1>1, <1>5, <1>6, <1>7, AccountedNow, AccountedNext

\* A batch is accepted, refused or queued on disk.
LEMMA DeliverKeeps ==
    ASSUME TelInv, NEW a \in TelActor, Deliver(a)
    PROVE  TelInv'
<1> USE TelemetryAssumption DEF TelInv, hostVars
<1>1. /\ UNCHANGED <<hostVars, gathered, refTo, observed, takenLate>>
      /\ taken' = [taken EXCEPT ![a] = {}]
      /\ draining' = draining \/ draining' = backlog'
  BY DEF Deliver
<1>2. PICK p \in {"idle", "drain"} : actorPc' = [actorPc EXCEPT ![a] = p]
  BY DEF Deliver, After
<1>3. taken[a] \in SUBSET TelEvent /\ backlog \in Seq(SUBSET TelEvent)
  BY DEF TelTypeOK
<1>4. \/ delivered' = delivered \cup taken[a] /\ UNCHANGED <<given, backlog>>
      \/ given' = given \cup taken[a] /\ UNCHANGED <<delivered, backlog>>
      \/ backlog' = Append(backlog, taken[a]) /\ UNCHANGED <<delivered, given>>
  BY DEF Deliver
<1>5. /\ backlog' \in Seq(SUBSET TelEvent) /\ delivered' \cup given' \subseteq TelEvent
      /\ \A e : Placed(e)' <=> Placed(e)
  <2>1. CASE delivered' = delivered \cup taken[a] /\ UNCHANGED <<given, backlog>>
    BY <1>1, <1>3, <2>1 DEF Placed, TelTypeOK
  <2>2. CASE given' = given \cup taken[a] /\ UNCHANGED <<delivered, backlog>>
    BY <1>1, <1>3, <2>2 DEF Placed, TelTypeOK
  <2>3. CASE backlog' = Append(backlog, taken[a]) /\ UNCHANGED <<delivered, given>>
    <3>1. backlog' \in Seq(SUBSET TelEvent) /\ SeqSet(backlog') = SeqSet(backlog) \cup {taken[a]}
      BY <1>3, <2>3, QueuedSet
    <3>2. QED BY <1>1, <1>3, <2>3, <3>1 DEF Placed, TelTypeOK
  <2>4. QED BY <1>4, <2>1, <2>2, <2>3
<1>6. TelTypeOK' /\ HostOrder'
  BY <1>1, <1>2, <1>5 DEF TelTypeOK, HostOrder
<1>7. PostedOnly' /\ RefsKnown'
  BY <1>1, <1>2 DEF TelTypeOK, PostedOnly, RefsKnown
<1>8. QED BY <1>1, <1>5, <1>6, <1>7, AccountedNow, AccountedNext

\* The queue is drained, one file at a time.
LEMMA DrainKeeps ==
    ASSUME TelInv, DrainQueue \/ DrainEnds
    PROVE  TelInv'
<1> USE DEF TelInv, hostVars
<1>1. UNCHANGED <<hostVars, gathered, refTo, taken, observed, takenLate>>
      /\ actorPc["loop"] = "drain" /\ "loop" \in TelActor
  BY DEF DrainQueue, DrainEnds, TelActor
<1>2. actorPc' = actorPc \/ actorPc' = [actorPc EXCEPT !["loop"] = "idle"]
  BY DEF DrainQueue, DrainEnds
<1>3. draining' \in Seq(SUBSET TelEvent)
  <2>1. draining # <<>> => Tail(draining) \in Seq(SUBSET TelEvent)
    BY HeadTailProperties DEF TelTypeOK
  <2>2. <<>> \in Seq(SUBSET TelEvent)
    BY EmptySeq
  <2>3. QED BY <2>1, <2>2 DEF DrainQueue, DrainEnds, TelTypeOK
<1>4. /\ backlog' \in Seq(SUBSET TelEvent) /\ delivered' \cup given' \subseteq TelEvent
      /\ \A e : Placed(e)' <=> Placed(e)
  <2>1. CASE UNCHANGED <<backlog, delivered, given>>
    BY <1>1, <2>1 DEF Placed, TelTypeOK
  <2>2. CASE \E b \in SeqSet(backlog) :
               /\ \/ delivered' = delivered \cup b /\ UNCHANGED given
                  \/ given' = given \cup b /\ UNCHANGED delivered
               /\ backlog' = Without1(backlog, b)
    <3>1. PICK b \in SeqSet(backlog) :
               /\ \/ delivered' = delivered \cup b /\ UNCHANGED given
                  \/ given' = given \cup b /\ UNCHANGED delivered
               /\ backlog' = Without1(backlog, b)
      BY <2>2
    <3>2. backlog' \in Seq(SUBSET TelEvent) /\ SeqSet(backlog) = SeqSet(backlog') \cup {b}
      BY <3>1, RemovedSet DEF TelTypeOK
    <3>3. b \subseteq TelEvent
      BY ElementOfSeq DEF TelTypeOK, SeqSet
    <3>4. QED BY <1>1, <3>1, <3>2, <3>3 DEF Placed, TelTypeOK
  <2>3. QED BY <2>1, <2>2 DEF DrainQueue, DrainEnds
<1>5. TelTypeOK' /\ HostOrder'
  BY <1>1, <1>2, <1>3, <1>4 DEF TelTypeOK, HostOrder
<1>6. PostedOnly' /\ RefsKnown'
  BY <1>1, <1>2 DEF TelTypeOK, PostedOnly, RefsKnown
<1>7. QED BY <1>1, <1>4, <1>5, <1>6, AccountedNow, AccountedNext

\* Every behaviour of telemetry keeps the invariant.
LEMMA TelInductive == TelSpec => []TelInv
<1>1. TelInv /\ [TelNext]_telVars => TelInv'
  <2> SUFFICES ASSUME TelInv, [TelNext]_telVars
               PROVE  TelInv'
    OBVIOUS
  <2>1. CASE UNCHANGED telVars
    <3>1. TelTypeOK' /\ HostOrder' /\ PostedOnly' /\ RefsKnown'
      BY <2>1 DEF telVars, TelInv, TelTypeOK, HostOrder, PostedOnly, RefsKnown
    <3>2. QED BY <2>1, <3>1, NothingMoves DEF telVars, placeVars, TelInv
  <2>2. ASSUME NEW s \in Saver, SaveSettings(s) \/ ApplyTelemetry(s) \/ SaveGoesOn(s) PROVE TelInv'
    BY <2>2, SaveKeeps, StopKeeps, StartKeeps DEF SaveGoesOn
  <2>3. ASSUME NEW a \in TelActor, TakeReference(a) \/ Observe(a) \/ Flush(a) \/ Deliver(a) PROVE TelInv'
    BY <2>3, ReferKeeps, ObserveKeeps, FlushKeeps, DeliverKeeps
  <2>4. CASE LoopTick \/ DrainQueue \/ DrainEnds
    BY <2>4, ReferKeeps, DrainKeeps
  <2>5. QED BY <2>1, <2>2, <2>3, <2>4 DEF TelNext
<1>2. QED BY <1>1, TelStarts, PTL DEF TelSpec

\* For any number of saves, recorders, senders and events: no overlap of a flush, a
\* failed post, a drain and a stop loses an event without one of the reasons the code
\* gives up on one (sender.go, Observe, Flush, deliver, drainQueue, Close).
THEOREM NoEventIsLost == TelSpec => []EventAccounted
  BY TelInductive, PTL DEF TelInv

=============================================================================
