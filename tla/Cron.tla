-------------------------------- MODULE Cron --------------------------------
(***************************************************************************)
(* Scheduled runs: the jobs of internal/cron/cron.go, the tool that edits  *)
(* them (internal/tools/cronjob.go) and the run of one job in              *)
(* cmd/harness/cron.go.                                                    *)
(*                                                                         *)
(* Tick copies the jobs that are due and runs the copies one by one;       *)
(* StartNow runs a copy in a goroutine of its own.  Manager.runMu admits   *)
(* one run at a time, Manager.mu protects the list, and both the list and  *)
(* jobs.json change while a run is going on.                               *)
(*                                                                         *)
(* Time is abstracted to whether a job's Next has passed.  Runs is only    *)
(* compared with Repeat, so it stops counting at the largest Repeat.       *)
(***************************************************************************)
EXTENDS Naturals, Sequences, FiniteSets

CONSTANTS
    Job,         \* ids the jobs may get
    Lapsing,     \* jobs whose schedule has no occurrence within 366 days after a run
    CronRepeat,  \* values of Repeat; 0 is no limit
    Starter,     \* goroutines of StartNow
    MaxRestart   \* bound: restarts of the process

ASSUME CronAssumption ==
    /\ Lapsing \subseteq Job
    /\ CronRepeat \subseteq Nat /\ 0 \in CronRepeat
    /\ \E n \in CronRepeat : \A k \in CronRepeat : k <= n
    /\ "tick" \notin Starter
    /\ MaxRestart \in Nat

VARIABLES
    jobs,       \* m.jobs: a function on the ids of the listed jobs
    jobsFile,   \* jobs.json
    due,        \* the copies Tick has still to run
    cronPc,     \* where the ticker and each starter is
    copyOf,     \* the id of the copy it runs
    runMu,      \* who holds runMu, or "free"
    chat,       \* the run of the scheduled chat, as its waiter sees it
    cronEvent,  \* run.stopped is queued for the waiter
    timedOut,   \* the run's timer has fired
    (* history *)
    wants,      \* the operator's last word on a job
    savedAll,   \* every save succeeded
    faulty,     \* whether a listener may overflow, or a chat be held for its model
    restarts    \* restarts so far

cronVars == <<jobs, jobsFile, due, cronPc, copyOf, runMu, chat, cronEvent, timedOut,
              wants, savedAll, faulty, restarts>>

Runner    == {"tick"} \cup Starter
MaxRepeat == CHOOSE n \in CronRepeat : \A k \in CronRepeat : k <= n
JobState  == [due : BOOLEAN, repeating : BOOLEAN, repeat : CronRepeat, runs : 0..MaxRepeat,
              paused : BOOLEAN]
Partial(S) == UNION {[D -> S] : D \in SUBSET Job}
Wish      == {"none", "active", "paused", "removed"}

CronTypeOK ==
    /\ jobs \in Partial(JobState) /\ jobsFile \in Partial(JobState)
    /\ \A k \in 1..Len(due) : due[k] \in Job
    /\ cronPc \in [Runner -> {"idle", "lock", "run", "wait"}]
    /\ copyOf \in [Runner -> Job]
    /\ runMu \in Runner \cup {"free"}
    /\ chat \in {"none", "held", "live", "over"}
    /\ cronEvent \in BOOLEAN
    /\ timedOut \in BOOLEAN /\ savedAll \in BOOLEAN /\ faulty \in BOOLEAN
    /\ wants \in [Job -> Wish] /\ restarts \in 0..MaxRestart

CronInit ==
    /\ jobs = [j \in {} |-> {}] /\ jobsFile = jobs
    /\ due = <<>>
    /\ cronPc = [r \in Runner |-> "idle"]
    /\ copyOf = [r \in Runner |-> CHOOSE j \in Job : TRUE]
    /\ runMu = "free"
    /\ chat = "none" /\ cronEvent = FALSE /\ timedOut = FALSE
    /\ wants = [j \in Job |-> "none"]
    /\ savedAll = TRUE /\ faulty \in BOOLEAN /\ restarts = 0

-----------------------------------------------------------------------------
(* The list. *)

Without(j) == [k \in DOMAIN jobs \ {j} |-> jobs[k]]
With(j, job) == [k \in DOMAIN jobs \cup {j} |-> IF k = j THEN job ELSE jobs[k]]

\* saveLocked: jobs.json is replaced, or stays as it was.
Save ==
    \/ jobsFile' = jobs' /\ UNCHANGED savedAll
    \/ jobsFile' = jobsFile /\ savedAll' = FALSE

\* Apply: create, update, pause, resume, remove.
CreateJob(j) ==
    /\ j \notin DOMAIN jobs /\ wants[j] = "none"
    /\ \E repeating \in BOOLEAN, repeat \in CronRepeat :
          jobs' = With(j, [due |-> FALSE, repeating |-> repeating, repeat |-> repeat,
                           runs |-> 0, paused |-> FALSE])
    /\ wants' = [wants EXCEPT ![j] = "active"]

UpdateJob(j) ==
    /\ j \in DOMAIN jobs
    /\ \/ \E repeating \in BOOLEAN :
             jobs' = [jobs EXCEPT ![j].due = FALSE, ![j].repeating = repeating]
       \/ \E repeat \in CronRepeat \ {0} : jobs' = [jobs EXCEPT ![j].repeat = repeat]
    /\ UNCHANGED wants

PauseJob(j) ==
    /\ j \in DOMAIN jobs
    /\ jobs' = [jobs EXCEPT ![j].paused = ~ @]
    /\ wants' = [wants EXCEPT ![j] = IF jobs[j].paused THEN "active" ELSE "paused"]

RemoveJob(j) ==
    /\ j \in DOMAIN jobs
    /\ jobs' = Without(j)
    /\ wants' = [wants EXCEPT ![j] = "removed"]

Apply(j) ==
    /\ CreateJob(j) \/ UpdateJob(j) \/ PauseJob(j) \/ RemoveJob(j)
    /\ Save
    /\ UNCHANGED <<due, cronPc, copyOf, runMu, chat, cronEvent, timedOut,
                   faulty, restarts>>

\* A job's Next has passed, the one in jobs.json too.
Elapse(j) ==
    /\ j \in DOMAIN jobs /\ ~ jobs[j].due
    /\ jobs' = [jobs EXCEPT ![j].due = TRUE]
    /\ jobsFile' = IF j \in DOMAIN jobsFile THEN [jobsFile EXCEPT ![j].due = TRUE] ELSE jobsFile
    /\ UNCHANGED <<due, cronPc, copyOf, runMu, chat, cronEvent, timedOut,
                   wants, savedAll, faulty, restarts>>

-----------------------------------------------------------------------------
(* Starting a run. *)

Seqs(S) == {q \in [1..Cardinality(S) -> S] : \A a, b \in 1..Cardinality(S) : a # b => q[a] # q[b]}

\* Tick: the jobs that are due and not paused, ordered by Next.
Tick ==
    /\ cronPc["tick"] = "idle" /\ due = <<>>
    /\ \E q \in Seqs({j \in DOMAIN jobs : jobs[j].due /\ ~ jobs[j].paused}) :
          q # <<>> /\ due' = q
    /\ UNCHANGED <<jobs, jobsFile, cronPc, copyOf, runMu, chat, cronEvent, timedOut,
                   wants, savedAll, faulty, restarts>>

\* Tick goes on to its next copy, whatever became of the job meanwhile.
TickNext ==
    /\ cronPc["tick"] = "idle" /\ due # <<>>
    /\ copyOf' = [copyOf EXCEPT !["tick"] = Head(due)]
    /\ due' = Tail(due)
    /\ cronPc' = [cronPc EXCEPT !["tick"] = "lock"]
    /\ UNCHANGED <<jobs, jobsFile, runMu, chat, cronEvent, timedOut, wants,
                   savedAll, faulty, restarts>>

\* StartNow takes a copy and starts a goroutine.
StartNow(r, j) ==
    /\ r \in Starter /\ cronPc[r] = "idle"
    /\ j \in DOMAIN jobs
    /\ copyOf' = [copyOf EXCEPT ![r] = j]
    /\ cronPc' = [cronPc EXCEPT ![r] = "lock"]
    /\ UNCHANGED <<jobs, jobsFile, due, runMu, chat, cronEvent, timedOut,
                   wants, savedAll, faulty, restarts>>

\* runOne takes runMu.
Lock(r) ==
    /\ cronPc[r] = "lock" /\ runMu = "free"
    /\ runMu' = r
    /\ cronPc' = [cronPc EXCEPT ![r] = "run"]
    /\ UNCHANGED <<jobs, jobsFile, due, copyOf, chat, cronEvent, timedOut,
                   wants, savedAll, faulty, restarts>>

-----------------------------------------------------------------------------
(* The run and its end. *)

Waiter == {r \in Runner : cronPc[r] = "wait"}

\* The model is there again, or a run ends.
ChatStep ==
    /\ \/ chat = "held" /\ chat' = "live" /\ UNCHANGED cronEvent
       \/ chat = "live" /\ chat' = "over" /\ cronEvent' = TRUE
    /\ UNCHANGED <<jobs, jobsFile, due, cronPc, copyOf, runMu, timedOut,
                   wants, savedAll, faulty, restarts>>

\* The listener overflowed and run.stopped was in its queue.
CronEventLost ==
    /\ faulty /\ cronEvent
    /\ cronEvent' = FALSE
    /\ UNCHANGED <<jobs, jobsFile, due, cronPc, copyOf, runMu, chat, timedOut,
                   wants, savedAll, faulty, restarts>>

\* The timer fires once: StopReason ends a live run as cron_timeout and returns a
\* waiting message to the composer without an event.
TimeOut ==
    /\ Waiter # {} /\ ~ timedOut
    /\ timedOut' = TRUE
    /\ chat' = "over"
    /\ cronEvent' = (chat = "live" \/ cronEvent)
    /\ UNCHANGED <<jobs, jobsFile, due, cronPc, copyOf, runMu, wants, savedAll, faulty, restarts>>

\* Mutant: the copy the run started from is written back.
WriteBackCopy(j) ==
    LET ran == [due |-> j \in Lapsing, repeating |-> TRUE, repeat |-> 0, runs |-> 0,
                paused |-> FALSE]
    IN  IF j \in DOMAIN jobs /\ ~ jobs[j].repeating THEN Without(j) ELSE With(j, ran)

\* The job as it is now has run once more: it is removed when it is not repeating or
\* has run Repeat times, else it gets its next time.  A removed job stays removed.
CountRun(j) ==
    IF j \notin DOMAIN jobs THEN jobs
    ELSE LET runs == IF jobs[j].runs < MaxRepeat THEN jobs[j].runs + 1 ELSE MaxRepeat
             over == ~ jobs[j].repeating \/ (jobs[j].repeat > 0 /\ runs >= jobs[j].repeat)
         IN  IF over THEN Without(j)
             ELSE [jobs EXCEPT ![j].runs = runs, ![j].due = j \in Lapsing]

\* Mutant: an output that cannot be written leaves runMu locked.
SettleKeepsLock(r) ==
    LET j == copyOf[r] IN
    /\ cronPc' = [cronPc EXCEPT ![r] = "idle"]
    /\ \/ /\ runMu' = "free"
          /\ jobs' = CountRun(j)
          /\ IF j \in DOMAIN jobs THEN Save ELSE UNCHANGED <<jobsFile, savedAll>>
          /\ UNCHANGED due
       \/ /\ due' = IF r = "tick" THEN <<>> ELSE due
          /\ UNCHANGED <<jobs, jobsFile, savedAll, runMu>>

\* runOne after the run: the output is written, the job is counted and saved, and the
\* finish hook settles the chat (a silent one is deleted, which nothing here looks at).
\* Writing the output may fail: nothing is counted and Tick gives up on its other copies.
Settle(r) ==
    LET j == copyOf[r] IN
    /\ cronPc' = [cronPc EXCEPT ![r] = "idle"]
    /\ runMu' = "free"
    /\ \/ /\ jobs' = CountRun(j)
          /\ IF j \in DOMAIN jobs THEN Save ELSE UNCHANGED <<jobsFile, savedAll>>
          /\ UNCHANGED due
       \/ /\ due' = IF r = "tick" THEN <<>> ELSE due
          /\ UNCHANGED <<jobs, jobsFile, savedAll>>

\* scheduledRuns.run: the chat is created and moved, the skills are read and the prompt
\* is submitted; it starts, waits in the queue or is held for its model.
BeginRun(r) ==
    /\ cronPc[r] = "run"
    /\ chat' \in IF faulty THEN {"live", "held"} ELSE {"live"}
    /\ cronPc' = [cronPc EXCEPT ![r] = "wait"]
    /\ UNCHANGED <<jobs, jobsFile, due, copyOf, runMu, cronEvent, timedOut, wants, savedAll, faulty,
                   restarts>>

\* One of these fails.
BeginFails(r) ==
    /\ cronPc[r] = "run"
    /\ Settle(r)
    /\ UNCHANGED <<copyOf, chat, cronEvent, timedOut, wants, faulty, restarts>>

\* run.stopped arrives: the answer is kept, silent or failed.
EndRun(r) ==
    /\ cronPc[r] = "wait" /\ cronEvent
    /\ Settle(r)
    /\ cronEvent' = FALSE /\ chat' = "none" /\ timedOut' = FALSE
    /\ UNCHANGED <<copyOf, wants, faulty, restarts>>

\* The process ends and starts again with what jobs.json says; what was due while it
\* was away is due.
CronRestart ==
    /\ restarts < MaxRestart
    /\ restarts' = restarts + 1
    /\ jobs' \in {[k \in DOMAIN jobsFile |->
                     [jobsFile[k] EXCEPT !.due = @ \/ k \in late]] : late \in SUBSET DOMAIN jobsFile}
    /\ due' = <<>>
    /\ cronPc' = [r \in Runner |-> "idle"]
    /\ runMu' = "free"
    /\ chat' = "none" /\ cronEvent' = FALSE /\ timedOut' = FALSE
    /\ UNCHANGED <<jobsFile, copyOf, wants, savedAll, faulty>>

CronNext ==
    \/ \E j \in Job : Apply(j) \/ Elapse(j)
    \/ Tick \/ TickNext
    \/ \E r \in Runner, j \in Job : StartNow(r, j)
    \/ \E r \in Runner : Lock(r) \/ BeginRun(r) \/ BeginFails(r) \/ EndRun(r)
    \/ ChatStep \/ CronEventLost \/ TimeOut \/ CronRestart

\* The ticker comes back every minute, a goroutine that can take a free lock or go on
\* does, runs end and the timer fires.
CronFairness ==
    /\ WF_cronVars(Tick \/ TickNext)
    /\ \A r \in Runner : SF_cronVars(Lock(r))
    /\ \A r \in Runner : WF_cronVars(BeginRun(r) \/ BeginFails(r) \/ EndRun(r))
    /\ WF_cronVars(TimeOut)

CronSpec == CronInit /\ [][CronNext]_cronVars /\ CronFairness

-----------------------------------------------------------------------------
(* Properties. *)

\* Whatever runs of a job were going on or waiting for runMu when the operator decided,
\* and whatever restarts followed, a removed job does not come back and a paused one
\* stays paused, as long as every save succeeded.
OperatorDecides ==
    savedAll => \A j \in Job :
        /\ wants[j] = "removed" => j \notin DOMAIN jobs \cup DOMAIN jobsFile
        /\ wants[j] = "paused" /\ j \in DOMAIN jobs => jobs[j].paused

\* A job that is due runs, or the operator pauses, updates or removes it, however many
\* jobs are due and manual starts wait for runMu, when no listener overflows and no
\* scheduled chat is held: nobody is left waiting for the lock.
DueJobRuns ==
    \A j \in Job :
        (~ faulty /\ j \in DOMAIN jobs /\ jobs[j].due /\ ~ jobs[j].paused)
            ~> \/ j \notin DOMAIN jobs \/ jobs[j].paused \/ ~ jobs[j].due
               \/ \E r \in Runner : copyOf[r] = j /\ cronPc[r] \in {"run", "wait"}
=============================================================================
