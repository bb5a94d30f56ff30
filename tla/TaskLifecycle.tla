--------------------------- MODULE TaskLifecycle ---------------------------
(***************************************************************************)
(* The state machine of AI Task: ai_fr_hg/ai/tasks.py.                     *)
(*                                                                         *)
(* People move a task through its states, the scheduler starts the open    *)
(* tasks that are due, and RQ workers execute them.  An execution is one   *)
(* transaction: it locks the row, executes the body and settles the task,  *)
(* and nothing of it is visible before its commit.  A task may execute a   *)
(* pipeline; the run it started then moves as PipelineLifecycle says.      *)
(*                                                                         *)
(* Jobs and the scheduler open their read view before they lock the row.   *)
(* When the row was written in between, the locked read returns the latest *)
(* row or fails with error 1020, which depends on the server; both are     *)
(* possible here.  Requests of people lock the row right after they read   *)
(* it, and either see the current row or fail without effect.              *)
(*                                                                         *)
(* An operator X_Y just before an operator X is X with a plausible mistake *)
(* in it, to see that the properties notice; the specification uses X.     *)
(***************************************************************************)
EXTENDS Naturals, Sequences, FiniteSets

CONSTANTS
    Tasks,
    Governed,       \* tasks with requires_approval
    PipelineTasks,  \* tasks that have or may get the type Pipeline
    Workers,        \* RQ workers
    MaxRetries,     \* bound: retries of a task
    MaxCrashes,     \* bound: processes that die
    MaxCopies       \* bound: jobs that RQ hands out a second time

ASSUME TasksAssumption ==
    /\ Tasks # {}
    /\ Governed \subseteq Tasks
    /\ PipelineTasks \subseteq Tasks
ASSUME BoundsAssumption ==
    MaxRetries \in Nat /\ MaxCrashes \in Nat /\ MaxCopies \in Nat

VARIABLES
    task,      \* committed status of each AI Task row
    runs,      \* status of the pipeline runs that each task started
    queue,     \* tasks whose job waits in RQ (one job id per task)
    w,         \* the workers
    sched,     \* the job that runs claim_due_tasks
    current,   \* <<reader, task>>: the reader's view shows the task's last version
    disabled,  \* tasks whose requester lost the account
    retries,   \* how often each task was reopened
    settled,   \* history: executions of the body of each task that committed
    cleared,   \* history: governed tasks a manager started or approved since
               \* they were last opened
    stranded,  \* history: tasks whose job got lost, was not queued or failed
    crashes, copies

taskvars == <<task, runs, queue, w, sched, current, disabled, retries, settled,
          cleared, stranded, crashes, copies>>

-----------------------------------------------------------------------------
Status == {"Open", "Pending Approval", "Approved", "Rejected", "In Progress",
           "Completed", "Failed", "Cancelled"}

LEGAL_TRANSITIONS(s) ==
    CASE s = "Open" -> {"Pending Approval", "In Progress", "Cancelled"}
      [] s = "Pending Approval" -> {"Approved", "Rejected", "Cancelled"}
      [] s = "Approved" -> {"In Progress", "Cancelled"}
      [] s = "In Progress" -> {"Completed", "Failed", "Cancelled"}
      [] s = "Failed" -> {"Open", "Cancelled"}
      [] OTHER -> {}

\* What execute_task does not skip.
Executable_NotStarted == {"Approved", "Open"}
Executable == {"In Progress", "Approved", "Open"}

\* Each execution of a Pipeline task starts a run of its own.  Only the states
\* of the runs matter here, not their steps.
TaskRuns == Tasks \X (1 .. MaxRetries + 1)
Lifecycle == INSTANCE PipelineLifecycle WITH
    Runs <- TaskRuns, NSteps <- 0, Required <- {},
    st <- [r \in TaskRuns |->
              IF r[2] <= Len(runs[r[1]]) THEN runs[r[1]][r[2]] ELSE "None"],
    done <- [r \in TaskRuns |-> {}]

Readers == Workers \cup {"sched"}
AnyTask == CHOOSE t \in Tasks : TRUE
IdleWorker == [pc |-> "idle", task |-> AnyTask, valid |-> TRUE]
WorkerState ==
    [pc : {"idle", "taken", "executing", "ended"}, task : Tasks, valid : BOOLEAN]
NoClaims == [pc |-> "idle", due |-> {}, held |-> {}, ask |-> {}, start |-> {}, jobs |-> {}]
SchedState ==
    [pc : {"idle", "claiming"}, due : SUBSET Tasks, held : SUBSET Tasks,
     ask : SUBSET Tasks, start : SUBSET Tasks, jobs : SUBSET Tasks]

TaskTypeOK ==
    /\ task \in [Tasks -> Status]
    /\ runs \in [Tasks -> Seq(Lifecycle!States)]
    /\ queue \subseteq Tasks
    /\ w \in [Workers -> WorkerState]
    /\ sched \in SchedState
    /\ current \subseteq Readers \X Tasks
    /\ disabled \subseteq Tasks
    /\ retries \in [Tasks -> 0 .. MaxRetries]
    /\ settled \in [Tasks -> Nat]
    /\ cleared \subseteq Governed
    /\ stranded \subseteq Tasks
    /\ crashes \in 0 .. MaxCrashes
    /\ copies \in 0 .. MaxCopies

TaskInit ==
    /\ task = [t \in Tasks |-> "Open"]
    /\ runs = [t \in Tasks |-> <<>>]
    /\ queue = {}
    /\ w = [k \in Workers |-> IdleWorker]
    /\ sched = NoClaims
    /\ current = {}
    /\ disabled = {}
    /\ retries = [t \in Tasks |-> 0]
    /\ settled = [t \in Tasks |-> 0]
    /\ cleared = {}
    /\ stranded = {}
    /\ crashes = 0
    /\ copies = 0

-----------------------------------------------------------------------------
(* Rows, locks and jobs.                                                   *)

\* A row is locked from the first locking read of a transaction to its end.
Locked_ByClaims(t) == t \in sched.held
Locked(t) ==
    \/ t \in sched.held
    \/ \E k \in Workers : w[k].pc = "executing" /\ w[k].task = t

\* Committed writes of rows make the open views of these rows old; a view ends
\* with its transaction.
Outdate(ts) == current' = {v \in current : v[2] \notin ts}
CloseView(reader) == current' = {v \in current : v[1] # reader}

Write(t, s) ==
    /\ task' = [task EXCEPT ![t] = s]
    /\ Outdate({t})

\* RQ knows the job id: queued, or started and not yet marked as finished.
HasJob(t) == t \in queue \/ \E k \in Workers : w[k].pc # "idle" /\ w[k].task = t

\* After its commit a transaction that set the rows of ts to In Progress sends
\* the jobs in js (deduplicate=True left out the others), unless it dies first.
Send(ts, js) ==
    \/ /\ queue' = queue \cup js
       /\ stranded' = stranded \cup (ts \ (js \cup queue))
       /\ UNCHANGED crashes
    \/ /\ ts # {}
       /\ crashes < MaxCrashes
       /\ crashes' = crashes + 1
       /\ stranded' = stranded \cup ts
       /\ UNCHANGED queue

-----------------------------------------------------------------------------
(* People.                                                                 *)

\* The common part of the transitions: lock, assert_transition, _set_status.
Move(t, s) ==
    /\ ~Locked(t)
    /\ s \in LEGAL_TRANSITIONS(task[t])
    /\ Write(t, s)

Submit(t) ==
    /\ Move(t, "Pending Approval")
    /\ UNCHANGED <<runs, queue, w, sched, disabled, retries, settled, cleared,
                   stranded, crashes, copies>>

Reject(t) ==
    /\ Move(t, "Rejected")
    /\ UNCHANGED <<runs, queue, w, sched, disabled, retries, settled, cleared,
                   stranded, crashes, copies>>

\* A queued job is not removed: execute_task skips it.
CancelTask(t) ==
    /\ Move(t, "Cancelled")
    /\ UNCHANGED <<runs, queue, w, sched, disabled, retries, settled, cleared,
                   stranded, crashes, copies>>

\* The run of the failed execution stays as it is.
RetryTask(t) ==
    /\ retries[t] < MaxRetries
    /\ Move(t, "Open")
    /\ retries' = [retries EXCEPT ![t] = @ + 1]
    /\ cleared' = cleared \ {t}
    /\ UNCHANGED <<runs, queue, w, sched, disabled, settled, stranded, crashes, copies>>

\* enqueue_task, the end of approve_task and run_now.
Enqueue(t) ==
    /\ Write(t, "In Progress")
    /\ Send({t}, {t} \ {u \in {t} : HasJob(u)})

\* A manager who is not the requester.  The row is never committed as Approved.
Approve(t) ==
    /\ ~Locked(t)
    /\ "Approved" \in LEGAL_TRANSITIONS(task[t])
    /\ cleared' = cleared \cup ({t} \cap Governed)
    /\ Enqueue(t)
    /\ UNCHANGED <<runs, w, sched, disabled, retries, settled, copies>>

MayRun_Anybody(t, manager) == task[t] \in {"Open", "Approved"}
MayRun(t, manager) ==
    \/ task[t] = "Open" /\ (t \in Governed => manager)
    \/ task[t] = "Approved"

RunNow(t, manager) ==
    /\ ~Locked(t)
    /\ MayRun(t, manager)
    /\ cleared' = IF manager THEN cleared \cup ({t} \cap Governed) ELSE cleared
    /\ Enqueue(t)
    /\ UNCHANGED <<runs, w, sched, disabled, retries, settled, copies>>

\* The form saves other fields: the controller refuses a changed status.
Edit(t) ==
    /\ ~Locked(t)
    /\ Outdate({t})
    /\ UNCHANGED <<task, runs, queue, w, sched, disabled, retries, settled,
                   cleared, stranded, crashes, copies>>

DisableRequester(t) ==
    /\ disabled' = disabled \cup {t}
    /\ UNCHANGED <<task, runs, queue, w, sched, current, retries, settled,
                   cleared, stranded, crashes, copies>>

-----------------------------------------------------------------------------
(* The scheduler: claim_due_tasks, one transaction for all tasks it lists. *)

\* Which open tasks are due is up to the clock.
ListDue ==
    /\ sched.pc = "idle"
    /\ \E due \in SUBSET {t \in Tasks : task[t] = "Open"} :
        /\ due # {}
        /\ sched' = [NoClaims EXCEPT !.pc = "claiming", !.due = due]
        /\ current' = current \cup ({"sched"} \X due)
    /\ UNCHANGED <<task, runs, queue, w, disabled, retries, settled, cleared,
                   stranded, crashes, copies>>

\* The status is read again under the lock; governed tasks are submitted.
ToSubmit(t) == t \in Governed

StillOpen_Listed(t) == TRUE
StillOpen(t) == task[t] = "Open"

ClaimNext(t) ==
    /\ t \in sched.due
    /\ ~Locked(t)
    /\ LET ask == StillOpen(t) /\ ToSubmit(t)
           start == StillOpen(t) /\ ~ToSubmit(t)
           Add(c, x) == IF c THEN x \cup {t} ELSE x
       IN  sched' = [sched EXCEPT !.due = @ \ {t}, !.held = @ \cup {t},
                                  !.ask = Add(ask, @), !.start = Add(start, @),
                                  !.jobs = Add(start /\ ~HasJob(t), @)]
    /\ UNCHANGED <<task, runs, queue, w, current, disabled, retries, settled,
                   cleared, stranded, crashes, copies>>

\* Error 1020 ends the job and rolls back all its claims.
ClaimFails(t) ==
    /\ t \in sched.due
    /\ ~Locked(t)
    /\ <<"sched", t>> \notin current
    /\ sched' = NoClaims
    /\ CloseView("sched")
    /\ UNCHANGED <<task, runs, queue, w, disabled, retries, settled,
                   cleared, stranded, crashes, copies>>

CommitClaims ==
    /\ sched.pc = "claiming"
    /\ sched.due = {}
    /\ task' = [t \in Tasks |-> IF t \in sched.ask THEN "Pending Approval"
                                ELSE IF t \in sched.start THEN "In Progress"
                                ELSE task[t]]
    /\ current' = {v \in current : v[1] # "sched" /\ v[2] \notin sched.ask \cup sched.start}
    /\ Send(sched.start, sched.jobs)
    /\ sched' = NoClaims
    /\ UNCHANGED <<runs, w, disabled, retries, settled, cleared, copies>>

SchedulerDies ==
    /\ sched.pc = "claiming"
    /\ crashes < MaxCrashes
    /\ crashes' = crashes + 1
    /\ sched' = NoClaims
    /\ CloseView("sched")
    /\ UNCHANGED <<task, runs, queue, w, disabled, retries, settled,
                   cleared, stranded, copies>>

-----------------------------------------------------------------------------
(* The workers: execute_task.                                              *)

\* The job's first reads open its view: the user's account, then the task.
Take(k) ==
    /\ w[k].pc = "idle"
    /\ \E t \in queue :
        /\ queue' = queue \ {t}
        /\ w' = [w EXCEPT ![k] = [pc |-> "taken", task |-> t, valid |-> t \notin disabled]]
        /\ current' = current \cup {<<k, t>>}
    /\ UNCHANGED <<task, runs, sched, disabled, retries, settled, cleared,
                   stranded, crashes, copies>>

At(k, pc) == w[k].pc = pc
Goto(k, pc) == w' = [w EXCEPT ![k].pc = pc]
Leave(k) == w' = [w EXCEPT ![k] = IdleWorker] /\ CloseView(k)

\* The status is written without a look at what it is.
AuthorityFails(k) ==
    LET t == w[k].task IN
    /\ At(k, "taken") /\ ~w[k].valid
    /\ ~Locked(t)
    /\ Write(t, "Failed")
    /\ Goto(k, "ended")
    /\ stranded' = stranded \ {t}
    /\ UNCHANGED <<runs, queue, sched, disabled, retries, settled, cleared,
                   crashes, copies>>

\* Error 1020 at the lock or at the write above: the job fails.
JobFails(k) ==
    LET t == w[k].task IN
    /\ At(k, "taken")
    /\ ~Locked(t)
    /\ <<k, t>> \notin current
    /\ Goto(k, "ended")
    /\ stranded' = stranded \cup {t}
    /\ UNCHANGED <<task, runs, queue, sched, current, disabled, retries,
                   settled, cleared, crashes, copies>>

Skip(k) ==
    LET t == w[k].task IN
    /\ At(k, "taken") /\ w[k].valid
    /\ ~Locked(t)
    /\ task[t] \notin Executable
    /\ Goto(k, "ended")
    /\ UNCHANGED <<task, runs, queue, sched, current, disabled, retries,
                   settled, cleared, stranded, crashes, copies>>

\* From here the worker holds the row's lock; In Progress is not committed
\* before the result is.
Begin(k) ==
    LET t == w[k].task IN
    /\ At(k, "taken") /\ w[k].valid
    /\ ~Locked(t)
    /\ task[t] \in Executable
    /\ Goto(k, "executing")
    /\ UNCHANGED <<task, runs, queue, sched, current, disabled, retries,
                   settled, cleared, stranded, crashes, copies>>

Settle(k, s) ==
    LET t == w[k].task IN
    /\ At(k, "executing")
    /\ Write(t, s)
    /\ settled' = [settled EXCEPT ![t] = @ + 1]
    /\ Goto(k, "ended")
    /\ stranded' = stranded \ {t}
    /\ UNCHANGED <<queue, sched, disabled, retries, cleared, crashes, copies>>

\* A person may have changed a Pipeline task to another type.
Complete(k) ==
    /\ Settle(k, "Completed")
    /\ UNCHANGED runs

\* Whatever the body raises, the job's timeout included.
Fail(k) ==
    /\ Settle(k, "Failed")
    /\ UNCHANGED runs

\* run_pipeline with enqueue_job=False: the run begins and ends, or pauses, in
\* the transaction of the task.
RunResults == Lifecycle!Successors("None") \ {"Queued"}
Recorded(rs, s) == Append(rs, s)
Result(s) == IF s = "Completed" THEN "Completed" ELSE "Failed"

FinishRun(k) ==
    LET t == w[k].task IN
    /\ t \in PipelineTasks
    /\ \E s \in RunResults :
        /\ Settle(k, Result(s))
        /\ runs' = [runs EXCEPT ![t] = Recorded(@, s)]

\* RQ marks the job as finished.
EndJob(k) ==
    /\ At(k, "ended")
    /\ Leave(k)
    /\ UNCHANGED <<task, runs, queue, sched, disabled, retries, settled,
                   cleared, stranded, crashes, copies>>

\* The transaction is rolled back and the job is gone.
WorkerDies(k) ==
    /\ ~At(k, "idle")
    /\ crashes < MaxCrashes
    /\ crashes' = crashes + 1
    /\ Leave(k)
    /\ stranded' = IF At(k, "ended") THEN stranded ELSE stranded \cup {w[k].task}
    /\ UNCHANGED <<task, runs, queue, sched, disabled, retries, settled,
                   cleared, copies>>

\* RQ hands out the job of a worker that goes on.
Redeliver(k) ==
    /\ ~At(k, "idle")
    /\ copies < MaxCopies
    /\ copies' = copies + 1
    /\ queue' = queue \cup {w[k].task}
    /\ UNCHANGED <<task, runs, w, sched, current, disabled, retries, settled,
                   cleared, stranded, crashes>>

\* A run that paused goes on without its task (PipelineRun).
RunMoves(t) ==
    /\ \E i \in DOMAIN runs[t] : \E s \in Lifecycle!Successors(runs[t][i]) :
        runs' = [runs EXCEPT ![t][i] = s]
    /\ UNCHANGED <<task, queue, w, sched, current, disabled, retries, settled,
                   cleared, stranded, crashes, copies>>

-----------------------------------------------------------------------------
People(t) ==
    \/ Submit(t) \/ Reject(t) \/ CancelTask(t) \/ RetryTask(t) \/ Approve(t)
    \/ \E manager \in BOOLEAN : RunNow(t, manager)
    \/ Edit(t) \/ DisableRequester(t)

Claiming == (\E t \in Tasks : ClaimNext(t) \/ ClaimFails(t)) \/ CommitClaims

Execution(k) ==
    \/ AuthorityFails(k) \/ JobFails(k) \/ Skip(k) \/ Begin(k)
    \/ Complete(k) \/ Fail(k) \/ FinishRun(k) \/ EndJob(k)

TaskNext ==
    \/ \E t \in Tasks : People(t) \/ RunMoves(t)
    \/ ListDue \/ Claiming \/ SchedulerDies
    \/ \E k \in Workers : Take(k) \/ Execution(k) \/ WorkerDies(k) \/ Redeliver(k)

TaskSpec == TaskInit /\ [][TaskNext]_taskvars

\* Workers and the scheduler's job go on with what they began, and some idle
\* worker takes a waiting job.
Fairness ==
    /\ WF_taskvars(Claiming)
    /\ WF_taskvars(\E k \in Workers : Take(k))
    /\ \A k \in Workers : WF_taskvars(Execution(k))
TaskFairSpec == TaskSpec /\ Fairness

-----------------------------------------------------------------------------
(* Safety.                                                                 *)

\* One execution of a task at a time, whatever RQ hands out (the lock of
\* execute_task, held to the end of its transaction).
OneExecution ==
    \A j, k \in Workers :
        At(j, "executing") /\ At(k, "executing") /\ w[j].task = w[k].task => j = k

\* A task is settled at most once for each time it was opened: neither a
\* second job nor a second claim executes a settled task again.
SettledOncePerOpening == \A t \in Tasks : settled[t] <= 1 + retries[t]

\* A task that requires approval executes only after a manager started or
\* approved it since it was opened, as long as RQ hands out every job once.
\* (A second job that RQ hands out after a retry executes the open task.)
ExecutedWhenCleared ==
    copies = 0 =>
        \A k \in Workers : At(k, "executing") /\ w[k].task \in Governed
                               => w[k].task \in cleared

\* A task In Progress has a job, unless its job got lost, was deduplicated
\* against the job of the execution before, or failed with error 1020.
InProgressHasJob ==
    \A t \in Tasks \ stranded : task[t] = "In Progress" => HasJob(t)

(* Action properties.                                                      *)

\* The runs of a task move as PipelineLifecycle says, each from its own start:
\* a retry leaves the run of the execution before alone, also one that waits.
RunsFollowLifecycle == Lifecycle!Spec

\* One transaction may pass through Approved or In Progress.
Legal(s) ==
    LEGAL_TRANSITIONS(s) \cup
    UNION {LEGAL_TRANSITIONS(m) : m \in LEGAL_TRANSITIONS(s) \cap {"Approved", "In Progress"}}

\* Every committed change of a status is legal, for any interleaving of people,
\* claims and jobs; only the job of a requester without an account may fail a
\* task from any state.
LegalChanges ==
    [][\A t \in Tasks :
        task'[t] # task[t] =>
            \/ task'[t] \in Legal(task[t])
            \/ t \in disabled /\ task'[t] = "Failed"]_taskvars

\* Completed, Rejected and Cancelled are final (GAP_REGISTER TASK-02: "proven
\* terminal"), also for the job of a requester without an account.
TerminalIsFinal ==
    [][\A t \in Tasks :
        task[t] \in {"Completed", "Rejected", "Cancelled"} => task'[t] = task[t]]_taskvars

(* Liveness.                                                               *)

\* An execution that was asked for ends, unless its job was lost on the way.
InProgressEnds ==
    \A t \in Tasks :
        task[t] = "In Progress" ~> task[t] # "In Progress" \/ t \in stranded
=============================================================================
