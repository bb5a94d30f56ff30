---------------------------- MODULE PipelineRun ----------------------------
(***************************************************************************)
(* The execution of AI Pipeline runs: ai_fr_hg/ai/pipeline.py, with the    *)
(* cancel and retry methods of the AI Pipeline Run document and the        *)
(* approval calls of ai_fr_hg/ai/tools/__init__.py.                        *)
(*                                                                         *)
(* A run is a database row.  Background workers execute it step by step,   *)
(* saving and committing after every step; people cancel runs and approve  *)
(* or reject the tool invocations a run waits for; workers die.  The       *)
(* database is InnoDB at REPEATABLE READ: the first plain read of a        *)
(* transaction opens a view, every later plain read of the transaction     *)
(* answers from that view, and a locking read (SELECT ... FOR UPDATE, the  *)
(* read inside Document.save) addresses the current row.  What a locking   *)
(* read does when the row changed after the view was opened depends on the *)
(* server, and SnapshotIsolation selects it: TRUE is MariaDB 11.8, the     *)
(* supported platform, where the statement fails with error 1020 and the   *)
(* transaction is rolled back (docs/GAP_REGISTER.md, CHAT-09); FALSE is a  *)
(* server on which the read returns the latest committed row (the case     *)
(* allocate_sequence describes in ai/conversation.py).                     *)
(*                                                                         *)
(* An operator X_Y just before an operator X is X with a plausible mistake *)
(* in it.  The specification does not use it: it is put in the place of X  *)
(* to see that the properties notice.                                      *)
(***************************************************************************)
EXTENDS Naturals, FiniteSets

CONSTANTS
    Roots,              \* runs started by a person, a schedule or a task
    Children,           \* runs started by a Pipeline step of another run
    ChildOf,            \* the run that the nested step of a root creates
    Workers,            \* RQ worker processes
    Users,              \* browser requests that answer tool approvals
    NSteps,             \* number of steps of the pipeline
    Enabled,            \* steps whose "enabled" box is set
    OnError,            \* Stop, Retry or Continue, for each step
    RetryCount,         \* retry_count of each step
    ApprovalSteps,      \* Tool steps whose tool needs approval
    NestedSteps,        \* Pipeline steps whose sub-pipeline may need approval
    SnapshotIsolation,  \* what a locking read does on a changed row
    Redelivery,         \* RQ may hand out the job of a worker it lost sight of
    MaxCrashes          \* bound: workers RQ loses in a behaviour

Steps == 1 .. NSteps
Runs == Roots \cup Children

ASSUME RunsAssumption ==
    /\ Roots # {}
    /\ Roots \cap Children = {}
    /\ ChildOf \in [Roots -> Children]
    /\ \A p, q \in Roots : ChildOf[p] = ChildOf[q] => p = q

ASSUME PipelineAssumption ==
    /\ NSteps \in Nat
    /\ Enabled \subseteq Steps
    /\ OnError \in [Steps -> {"Stop", "Retry", "Continue"}]
    /\ RetryCount \in [Steps -> Nat]
    /\ ApprovalSteps \subseteq Enabled
    /\ NestedSteps \subseteq Enabled

ASSUME PlatformAssumption ==
    /\ SnapshotIsolation \in BOOLEAN
    /\ Redelivery \in BOOLEAN
    /\ MaxCrashes \in Nat

VARIABLES
    run,      \* committed AI Pipeline Run rows
    inv,      \* committed AI Tool Invocation rows, one per run and tool step
    effects,  \* committed executions of each step's body (of a Pipeline step
              \* that paused: its sub-run's output taken over); entry 0 counts
              \* how often the run was added to the pipeline's statistics
    queue,    \* jobs waiting in RQ
    w,        \* the workers: in-memory run_doc, open transaction, position
    req,      \* the approval requests: what they read before they lock
    late,     \* history: steps whose body started after the run was cancelled
    crashes   \* workers lost so far

vars == <<run, inv, effects, queue, w, req, late, crashes>>

-----------------------------------------------------------------------------
Terminal == {"Completed", "Failed", "Cancelled"}
Cancellable == {"Queued", "Running", "Waiting"}
Status == {"None"} \cup Cancellable \cup Terminal
InvStatus == {"None", "Pending", "Success", "Failed", "Rejected"}

Row == [status : Status, at : 0 .. NSteps, kid : BOOLEAN]

Job == [kind : {"exec"}, run : Runs, at : {0}]
       \cup [kind : {"resume"}, run : Runs, at : Steps]
ExecJob(r) == [kind |-> "exec", run |-> r, at |-> 0]
ResumeJob(r, s) == [kind |-> "resume", run |-> r, at |-> s]

(* A worker between two jobs, and the states of one that executes a run.   *)
(* view is the run's status in the open read view; did holds the step      *)
(* executions (and statistics updates) that are not committed yet.         *)
Busy == {"loop", "skip", "begin", "attempt", "body", "wait", "record",
         "abort", "pause", "final", "persist", "finish"}
SubResult == [at : 0 .. NSteps, done : SUBSET Steps]
NoSub == [at |-> 0, done |-> {}]
WorkerState ==
    [pc : Busy \cup {"idle"}, run : Runs, step : 1 .. NSteps + 1,
     att : Nat, mem : Status, view : Status \cup {"NoView"},
     failed : BOOLEAN, cancelled : BOOLEAN, err : BOOLEAN,
     did : SUBSET (Runs \X (0 .. NSteps)),
     wait : {"none", "tool", "child"}, sub : SubResult,
     job : Job]

AnyRun == CHOOSE r \in Runs : TRUE
IdleWorker ==
    [pc |-> "idle", run |-> AnyRun, step |-> 1, att |-> 0, mem |-> "None",
     view |-> "NoView", failed |-> FALSE, cancelled |-> FALSE, err |-> FALSE,
     did |-> {}, wait |-> "none", sub |-> NoSub, job |-> ExecJob(AnyRun)]
NoRequest == [pc |-> "idle", run |-> AnyRun, step |-> 0, view |-> "NoView"]
RequestState ==
    [pc : {"idle", "open"}, run : Runs, step : 0 .. NSteps,
     view : Status \cup {"NoView"}]

TypeOK ==
    /\ run \in [Runs -> Row]
    /\ inv \in [Runs -> [Steps -> InvStatus]]
    /\ effects \in [Runs -> [0 .. NSteps -> Nat]]
    /\ queue \subseteq Job
    /\ w \in [Workers -> WorkerState]
    /\ req \in [Users -> RequestState]
    /\ late \in [Runs -> SUBSET Steps]
    /\ crashes \in 0 .. MaxCrashes

Init ==
    /\ run = [r \in Runs |-> [status |-> "None", at |-> 0, kid |-> FALSE]]
    /\ inv = [r \in Runs |-> [s \in Steps |-> "None"]]
    /\ effects = [r \in Runs |-> [s \in 0 .. NSteps |-> 0]]
    /\ queue = {}
    /\ w = [k \in Workers |-> IdleWorker]
    /\ req = [u \in Users |-> NoRequest]
    /\ late = [r \in Runs |-> {}]
    /\ crashes = 0

-----------------------------------------------------------------------------
(* Transactions.                                                           *)

\* What a plain read of the run's status returns to the worker.
Seen(k) == IF w[k].view = "NoView" THEN run[w[k].run].status ELSE w[k].view

\* _is_cancelled.
SeesCancel_Cached(k) == w[k].view = "Cancelled"
SeesCancel(k) == Seen(k) = "Cancelled"

\* The next locking read or save of the run fails with error 1020.
Conflict(k) ==
    /\ SnapshotIsolation
    /\ w[k].view # "NoView"
    /\ w[k].view # run[w[k].run].status

\* The step counters once the given executions are committed.
Plus(done) ==
    [r \in Runs |-> [s \in 0 .. NSteps |->
        IF <<r, s>> \in done THEN effects[r][s] + 1 ELSE effects[r][s]]]

\* _persist_checkpoint(durable=True), leaving the worker in state next.  When
\* another transaction cancelled the run it saves and commits nothing and only
\* run_doc.status records it; no caller looks at the result.  The second early
\* return of the code needs run_doc.status to be Completed or Queued, which no
\* caller has.
Checkpoint(k, next) ==
    LET r == w[k].run IN
    /\ ~Conflict(k)
    /\ \/ /\ run[r].status = "Cancelled"
          /\ w[k].mem # "Cancelled"
          /\ w' = [w EXCEPT ![k] = [next EXCEPT !.mem = "Cancelled"]]
          /\ UNCHANGED <<run, effects>>
       \/ /\ run[r].status # "Cancelled" \/ w[k].mem = "Cancelled"
          /\ run' = [run EXCEPT ![r].status = w[k].mem]
          /\ effects' = Plus(w[k].did)
          /\ w' = [w EXCEPT ![k] = [next EXCEPT !.did = {},
                                                !.view = "NoView"]]

\* _finish_invalid_run on the row of run r.
Invalidated_Cancelled(r) ==
    IF run[r].status \in {"Completed", "Failed"}
    THEN run
    ELSE [run EXCEPT ![r].status = "Failed"]
Invalidated(r) ==
    IF run[r].status \in Terminal
    THEN run
    ELSE [run EXCEPT ![r].status = "Failed"]

Release(k) == w' = [w EXCEPT ![k] = IdleWorker]

-----------------------------------------------------------------------------
(* Starting a run.                                                         *)

\* The executions of the first n steps that let the pipeline go on: a step
\* that did not succeed must tolerate its failure.
Passed(n) ==
    {d \in SUBSET (Enabled \cap 1 .. n) :
        \A s \in (Enabled \cap 1 .. n) \ d : OnError[s] = "Continue"}

\* What a run executed inside its caller's transaction leaves behind.
Finished == {[at |-> 0, status |-> "Completed", done |-> d] : d \in Passed(NSteps)}
Aborted ==
    UNION {{[at |-> s, status |-> "Failed", done |-> d] : d \in Passed(s - 1)} :
           s \in {e \in Enabled : OnError[e] # "Continue"}}
Paused(steps) ==
    UNION {{[at |-> s, status |-> "Waiting", done |-> d] : d \in Passed(s - 1)} :
           s \in steps}

\* A row that waits at step s, for a sub-run or for a tool invocation.
WaitingRow(s, kid) == [status |-> "Waiting", at |-> s, kid |-> kid]
\* Run r waits at step s for its sub-run, which waits at sub.at.
Suspended(r, s, sub) ==
    [run EXCEPT ![r] = WaitingRow(s, TRUE), ![ChildOf[r]] = WaitingRow(sub.at, FALSE)]

\* run_pipeline(enqueue_job=True): the row and, when the request commits, the job.
Enqueue(r) ==
    /\ run[r].status = "None"
    /\ run' = [run EXCEPT ![r].status = "Queued"]
    /\ queue' = queue \cup {ExecJob(r)}

StartRun(r) ==
    /\ Enqueue(r)
    /\ UNCHANGED <<inv, effects, w, req, late, crashes>>

\* AIPipelineRun.retry: a new run of the pipeline; the old row is only locked.
RetryRun(old, r) ==
    /\ run[old].status \in {"Failed", "Cancelled"}
    /\ Enqueue(r)
    /\ UNCHANGED <<inv, effects, w, req, late, crashes>>

\* run_pipeline(enqueue_job=False) outside a worker job of its own: the whole
\* execution is one transaction, committed by the caller.
RunInline(r) ==
    /\ run[r].status = "None"
    /\ \E o \in Finished \cup Aborted \cup Paused(ApprovalSteps) :
        /\ run' = [run EXCEPT ![r] =
                    IF o.status = "Waiting" THEN WaitingRow(o.at, FALSE)
                    ELSE [@ EXCEPT !.status = o.status]]
        /\ effects' = Plus({<<r, s>> : s \in
                            IF o.status = "Waiting" THEN o.done
                                                    ELSE o.done \cup {0}})
        /\ inv' = IF o.status = "Waiting"
                  THEN [inv EXCEPT ![r][o.at] = "Pending"] ELSE inv
    /\ UNCHANGED <<queue, w, req, late, crashes>>

\* The same, pausing inside a Pipeline step on the step's own sub-run.
RunInlineNested(r) ==
    /\ run[r].status = "None"
    /\ run[ChildOf[r]].status = "None"
    /\ \E o \in Paused(NestedSteps), sub \in Paused(ApprovalSteps) :
        /\ run' = Suspended(r, o.at, sub)
        /\ inv' = [inv EXCEPT ![ChildOf[r]][sub.at] = "Pending"]
        /\ effects' = Plus(({r} \X o.done) \cup ({ChildOf[r]} \X sub.done))
    /\ UNCHANGED <<queue, w, req, late, crashes>>

-----------------------------------------------------------------------------
(* A worker takes a job.  The locked status check, the authority and       *)
(* enabled checks and the first checkpoint are one transaction.            *)

Take(k, j) == w[k].pc = "idle" /\ j \in queue /\ queue' = queue \ {j}

Execute(r, first, j) ==
    [IdleWorker EXCEPT !.pc = "loop", !.run = r, !.step = first,
                       !.mem = "Running", !.job = j]

\* The status under which _execute_run starts a run.
Claimable_Running(r) == run[r].status \in {"Queued", "Running"}
Claimable(r) == run[r].status = "Queued"

\* execute_run, _execute_run up to the step loop.
ClaimExec(k) ==
    /\ \E r \in Roots :
        /\ Take(k, ExecJob(r))
        /\ Claimable(r)
        /\ run' = [run EXCEPT ![r].status = "Running"]
        /\ w' = [w EXCEPT ![k] = Execute(r, 1, ExecJob(r))]
    /\ UNCHANGED <<inv, effects, req, late, crashes>>

\* What run r waits for has ended well.
Answered(r) == IF run[r].kid THEN run[ChildOf[r]].status = "Completed"
                             ELSE inv[r][run[r].at] = "Success"

\* The row when it is claimed again: waiting_child_run is cleared.
Resumed(r) == [run EXCEPT ![r] = [@ EXCEPT !.status = "Running", !.kid = FALSE]]

\* The step a resumed run goes on with: every step up to resume_from_idx is
\* skipped.
ResumeAt_Again(r) == run[r].at
ResumeAt(r) == run[r].at + 1

\* resume_run, queued by an approval, up to the step loop.
ClaimResume(k) ==
    /\ \E r \in Runs, s \in Steps :
        /\ Take(k, ResumeJob(r, s))
        /\ run[r].status = "Waiting"
        /\ Answered(r)
        /\ run' = Resumed(r)
        /\ effects' = Plus(IF run[r].kid THEN {<<r, run[r].at>>} ELSE {})
        /\ w' = [w EXCEPT ![k] = Execute(r, ResumeAt(r), ResumeJob(r, s))]
    /\ UNCHANGED <<inv, req, late, crashes>>

\* The guards of execute_run and resume_run that end in _finish_invalid_run: the
\* requester is gone, the pipeline is disabled (any job), or the invocation the
\* run waits for did not succeed (a resume job).
ClaimInvalid(k) ==
    /\ \E j \in queue :
        /\ Take(k, j)
        /\ run' = Invalidated(j.run)
    /\ UNCHANGED <<inv, effects, w, req, late, crashes>>

\* The status guards: the job finds its run in another state and returns.
ClaimSkip(k) ==
    /\ \E j \in queue :
        /\ Take(k, j)
        /\ run[j.run].status # (IF j.kind = "exec" THEN "Queued" ELSE "Waiting")
           \/ (j.kind = "resume" /\ run[j.run].kid
               /\ run[ChildOf[j.run]].status = "Waiting")
    /\ UNCHANGED <<run, inv, effects, w, req, late, crashes>>

-----------------------------------------------------------------------------
(* The step loop of _execute_run.                                          *)

\* on_error of a step that failed, after its retries.
StopsRun_StopOnly(k) == w[k].err /\ OnError[w[k].step] = "Stop"
StopsRun(k) == w[k].err /\ OnError[w[k].step] # "Continue"
NextAttempt_Same(k) == w[k].att
NextAttempt(k) == w[k].att + 1

Goto(k, pc) == [w[k] EXCEPT !.pc = pc]
NextStep(k, pc) ==
    [w[k] EXCEPT !.pc = pc, !.step = @ + 1, !.att = 0, !.err = FALSE]
Attempts(s) == IF OnError[s] = "Retry" THEN RetryCount[s] + 1 ELSE 1
Cancelled(state) == [state EXCEPT !.cancelled = TRUE]
\* A plain read of the run by the worker in state next opens its view.
Reading(k, next) == [next EXCEPT !.view = Seen(k)]

\* The head of the loop, with its _is_cancelled check.
LoopHead(k) ==
    /\ w[k].pc = "loop"
    /\ \/ /\ w[k].step = NSteps + 1
          /\ w' = [w EXCEPT ![k] = Goto(k, "final")]
       \/ /\ w[k].step # NSteps + 1
          /\ SeesCancel(k)
          /\ w' = [w EXCEPT ![k] = Reading(k, Cancelled(Goto(k, "final")))]
       \/ /\ w[k].step # NSteps + 1
          /\ ~SeesCancel(k)
          /\ w' = [w EXCEPT ![k] =
                    Reading(k, Goto(k, IF w[k].step \in Enabled
                                       THEN "begin" ELSE "skip"))]
    /\ UNCHANGED <<run, inv, effects, queue, req, late, crashes>>

\* A disabled step is logged as Skipped.
SkipStep(k) ==
    /\ w[k].pc = "skip"
    /\ Checkpoint(k, NextStep(k, "loop"))
    /\ UNCHANGED <<inv, queue, req, late, crashes>>

\* The step is logged as Running.
BeginStep(k) ==
    /\ w[k].pc = "begin"
    /\ Checkpoint(k, Goto(k, "attempt"))
    /\ UNCHANGED <<inv, queue, req, late, crashes>>

\* The _is_cancelled check before every attempt.
BeginAttempt(k) ==
    /\ w[k].pc = "attempt"
    /\ \/ /\ SeesCancel(k)
          /\ w' = [w EXCEPT ![k] = Reading(k, Cancelled(Goto(k, "abort")))]
          /\ UNCHANGED late
       \/ /\ ~SeesCancel(k)
          /\ w' = [w EXCEPT ![k] = Reading(k, Goto(k, "body"))]
          /\ late' = IF run[w[k].run].status = "Cancelled"
                     THEN [late EXCEPT ![w[k].run] = @ \cup {w[k].step}]
                     ELSE late
    /\ UNCHANGED <<run, inv, effects, queue, req, crashes>>

\* execute_step inside its savepoint, and what the two handlers around it do.
StepSucceeds(k) ==
    /\ w[k].pc = "body"
    /\ w' = [w EXCEPT ![k] =
              [w[k] EXCEPT !.pc = "record", !.err = FALSE,
                           !.did = @ \cup {<<w[k].run, w[k].step>>}]]
    /\ UNCHANGED <<run, inv, effects, queue, req, late, crashes>>

StepFails(k) ==
    /\ w[k].pc = "body"
    /\ w' = [w EXCEPT ![k] =
              [w[k] EXCEPT !.pc = IF NextAttempt(k) < Attempts(w[k].step)
                                  THEN "wait" ELSE "record",
                           !.err = TRUE]]
    /\ UNCHANGED <<run, inv, effects, queue, req, late, crashes>>

\* A Tool step whose invocation is Pending Approval.
StepNeedsApproval(k) ==
    /\ w[k].pc = "body"
    /\ w[k].step \in ApprovalSteps
    /\ w' = [w EXCEPT ![k] = [w[k] EXCEPT !.pc = "pause", !.wait = "tool"]]
    /\ UNCHANGED <<run, inv, effects, queue, req, late, crashes>>

\* A Pipeline step whose sub-run, executed in this transaction, paused.  A
\* sub-run that finished is the success or the failure of the step.
\* Bound: a root has one sub-run that pauses.
SubRunPauses(k) ==
    /\ w[k].pc = "body"
    /\ w[k].step \in NestedSteps
    /\ w[k].run \in Roots
    /\ run[ChildOf[w[k].run]].status = "None"
    /\ \E o \in Paused(ApprovalSteps) :
        w' = [w EXCEPT ![k] =
               [w[k] EXCEPT !.pc = "pause", !.wait = "child",
                            !.sub = [at |-> o.at, done |-> o.done]]]
    /\ UNCHANGED <<run, inv, effects, queue, req, late, crashes>>

\* _wait_for_retry: its polls are plain reads of the open transaction.
RetryWait(k) ==
    /\ w[k].pc = "wait"
    /\ \/ /\ SeesCancel(k)
          /\ w' = [w EXCEPT ![k] = Reading(k, Cancelled(Goto(k, "abort")))]
       \/ /\ ~SeesCancel(k)
          /\ w' = [w EXCEPT ![k] =
                    Reading(k, [Goto(k, "attempt") EXCEPT !.att = NextAttempt(k)])]
    /\ UNCHANGED <<run, inv, effects, queue, req, late, crashes>>

\* The step of a cancelled run is logged as Failed.
AbortStep(k) ==
    /\ w[k].pc = "abort"
    /\ Checkpoint(k, Goto(k, "final"))
    /\ UNCHANGED <<inv, queue, req, late, crashes>>

\* The outcome of a step is logged; on_error decides whether the run goes on.
RecordStep(k) ==
    /\ w[k].pc = "record"
    /\ Checkpoint(k, IF StopsRun(k) THEN [Goto(k, "final") EXCEPT !.failed = TRUE]
                                    ELSE NextStep(k, "loop"))
    /\ UNCHANGED <<inv, queue, req, late, crashes>>

\* _pause_for_approval saves Waiting Approval whatever the row holds now, and
\* commits the invocation and the sub-run the step created.
Pause(k) ==
    LET r == w[k].run
        s == w[k].step
        sub == w[k].sub
    IN
    /\ w[k].pc = "pause"
    /\ ~Conflict(k)
    /\ \/ /\ w[k].wait = "tool"
          /\ run' = [run EXCEPT ![r] = WaitingRow(s, FALSE)]
          /\ inv' = [inv EXCEPT ![r][s] = "Pending"]
          /\ effects' = Plus(w[k].did)
       \/ /\ w[k].wait = "child"
          /\ run' = Suspended(r, s, sub)
          /\ inv' = [inv EXCEPT ![ChildOf[r]][sub.at] = "Pending"]
          /\ effects' = Plus(w[k].did \cup ({ChildOf[r]} \X sub.done))
    /\ Release(k)
    /\ UNCHANGED <<queue, req, late, crashes>>

-----------------------------------------------------------------------------
(* The end of a run.                                                       *)

\* The last _is_cancelled check and the status it leads to.
DecideOutcome(k) ==
    /\ w[k].pc = "final"
    /\ LET c == w[k].cancelled \/ SeesCancel(k) IN
        w' = [w EXCEPT ![k] =
               Reading(k, [w[k] EXCEPT
                   !.pc = "persist",
                   !.cancelled = c,
                   !.mem = IF c THEN "Cancelled"
                           ELSE IF w[k].failed THEN "Failed" ELSE "Completed"])]
    /\ UNCHANGED <<run, inv, effects, queue, req, late, crashes>>

\* _update_pipeline_stats, called unless the run was cancelled or its row was
\* found terminal.
Tally(k, saved) == IF w[k].cancelled \/ ~saved THEN {} ELSE {<<w[k].run, 0>>}

\* _persist_terminal_state yields to a terminal row; otherwise it saves and
\* commits, and a run that was not cancelled is added to the statistics.
PersistOutcome(k) ==
    LET r == w[k].run IN
    /\ w[k].pc = "persist"
    /\ ~Conflict(k)
    /\ \/ /\ run[r].status \in Terminal
          /\ run[r].status # w[k].mem \/ run[r].status = "Cancelled"
          /\ w' = [w EXCEPT ![k] =
                    [Goto(k, "finish") EXCEPT !.mem = run[r].status,
                                              !.did = @ \cup Tally(k, FALSE)]]
          /\ UNCHANGED <<run, effects>>
       \/ /\ run[r].status \notin Terminal
             \/ (run[r].status = w[k].mem /\ w[k].mem # "Cancelled")
          /\ run' = [run EXCEPT ![r].status = w[k].mem]
          /\ effects' = Plus(w[k].did)
          /\ w' = [w EXCEPT ![k] =
                    [Goto(k, "finish") EXCEPT !.view = "NoView",
                                              !.did = Tally(k, TRUE)]]
    /\ UNCHANGED <<inv, queue, req, late, crashes>>

\* _maybe_resume_parent will find a parent that waits for this sub-run.
ParentWaits(k, p) ==
    /\ w[k].mem = "Completed"
    /\ ChildOf[p] = w[k].run
    /\ run[p].status = "Waiting"
    /\ run[p].kid

\* The job ends and Frappe commits.
EndJob(k) ==
    /\ w[k].pc = "finish"
    /\ \A p \in Roots : ~ParentWaits(k, p)
    /\ effects' = Plus(w[k].did)
    /\ Release(k)
    /\ UNCHANGED <<run, inv, queue, req, late, crashes>>

\* resume_after_approval calls resume_run in the same job: the worker goes on
\* with the parent, whose first checkpoint commits.
ResumeParent(k) ==
    /\ w[k].pc = "finish"
    /\ \E p \in Roots :
        /\ ParentWaits(k, p)
        /\ Answered(p)
        /\ run' = Resumed(p)
        /\ effects' = Plus(w[k].did \cup {<<p, run[p].at>>})
        /\ w' = [w EXCEPT ![k] = Execute(p, ResumeAt(p), w[k].job)]
    /\ UNCHANGED <<inv, queue, req, late, crashes>>

\* The parent's requester is gone, its pipeline is disabled, or the sub-run is
\* not Completed after all.
FailParent(k) ==
    /\ w[k].pc = "finish"
    /\ \E p \in Roots : ParentWaits(k, p) /\ run' = Invalidated(p)
    /\ effects' = Plus(w[k].did)
    /\ Release(k)
    /\ UNCHANGED <<inv, queue, req, late, crashes>>

-----------------------------------------------------------------------------
(* Exceptions and crashes.                                                 *)

\* A save or a locking read raises error 1020: the transaction is gone, and
\* _finish_invalid_run decides on the current row.
ConflictAborts(k) ==
    /\ w[k].pc \in {"skip", "begin", "record", "abort", "pause", "persist"}
    /\ Conflict(k)
    /\ run' = Invalidated(w[k].run)
    /\ Release(k)
    /\ UNCHANGED <<inv, effects, queue, req, late, crashes>>

\* Anything else raises outside a step's own savepoint.  _finish_invalid_run
\* commits what the transaction holds; if its locking read fails, the job does.
UnexpectedError(k) ==
    /\ w[k].pc \in Busy \ {"finish"}
    /\ IF Conflict(k)
       THEN UNCHANGED <<run, inv, effects>>
       ELSE LET r == w[k].run
                sub == w[k].sub
                kept == w[k].pc = "pause" /\ w[k].wait = "child"
            IN
            /\ run' = IF kept
                      THEN [Invalidated(r) EXCEPT
                             ![ChildOf[r]] = WaitingRow(sub.at, FALSE)]
                      ELSE Invalidated(r)
            /\ inv' = IF kept THEN [inv EXCEPT ![ChildOf[r]][sub.at] = "Pending"]
                      ELSE IF w[k].pc = "pause"
                      THEN [inv EXCEPT ![r][w[k].step] = "Pending"]
                      ELSE inv
            /\ effects' = Plus(w[k].did \cup
                               IF kept THEN {ChildOf[r]} \X sub.done ELSE {})
    /\ Release(k)
    /\ UNCHANGED <<queue, req, late, crashes>>

\* A worker process dies: its transaction is rolled back and its job is not
\* queued again.
Crash(k) ==
    /\ w[k].pc # "idle"
    /\ crashes < MaxCrashes
    /\ crashes' = crashes + 1
    /\ Release(k)
    /\ UNCHANGED <<run, inv, effects, queue, req, late>>

\* A worker dies between taking a job and its first commit.
LoseJob ==
    /\ crashes < MaxCrashes
    /\ crashes' = crashes + 1
    /\ \E j \in queue : queue' = queue \ {j}
    /\ UNCHANGED <<run, inv, effects, w, req, late>>

\* RQ declares a worker dead that goes on, and the job is queued again.
Redeliver(k) ==
    /\ Redelivery
    /\ w[k].pc # "idle"
    /\ crashes < MaxCrashes
    /\ crashes' = crashes + 1
    /\ queue' = queue \cup {w[k].job}
    /\ UNCHANGED <<run, inv, effects, w, req, late>>

-----------------------------------------------------------------------------
(* People.                                                                 *)

\* cancel_run commits the state and signals the RQ job ai_pipeline_<run>: the
\* queued job is removed or the worker stopped, unless the signal fails.  A
\* resumed run executes under another job id, which is not signalled.
CancelRun(r) ==
    /\ run[r].status \in Cancellable
    /\ run' = [run EXCEPT ![r].status = "Cancelled"]
    /\ \/ UNCHANGED <<queue, w>>
       \/ /\ ExecJob(r) \in queue
          /\ queue' = queue \ {ExecJob(r)}
          /\ UNCHANGED w
       \/ /\ \E k \in Workers :
              /\ w[k].pc # "idle"
              /\ w[k].job = ExecJob(r)
              /\ Release(k)
          /\ UNCHANGED queue
    /\ UNCHANGED <<inv, effects, req, late, crashes>>

\* A request of approve_invocation or reject_invocation connects to the
\* database: its view shows the invocation pending.
OpenRequest(u) ==
    /\ req[u].pc = "idle"
    /\ \E r \in Runs, s \in Steps :
        /\ inv[r][s] = "Pending"
        /\ req' = [req EXCEPT ![u] =
                    [pc |-> "open", run |-> r, step |-> s, view |-> run[r].status]]
    /\ UNCHANGED <<run, inv, effects, queue, w, late, crashes>>

CloseRequest(u) == req' = [req EXCEPT ![u] = NoRequest]

\* The locking read of the invocation succeeds.  get_doc reads it again from
\* the view, in which it is pending.
InvLocked(u) ==
    /\ req[u].pc = "open"
    /\ SnapshotIsolation => inv[req[u].run][req[u].step] = "Pending"
\* So does the one of the run, in resume_after_approval and fail_waiting_run.
RunLocked(u) == SnapshotIsolation => run[req[u].run].status = req[u].view

\* resume_after_approval queues a resume of a waiting run.
Requeues_Never(r) == FALSE
Requeues(r) == run[r].status = "Waiting"

\* approve_invocation: the tool runs, and a waiting run is queued again.  The
\* invocation_mismatch test reads waiting_invocation from the view, where the
\* run waits for this invocation.
Approve(u) ==
    LET r == req[u].run
        s == req[u].step
    IN
    /\ InvLocked(u)
    /\ RunLocked(u)
    /\ inv' = [inv EXCEPT ![r][s] = "Success"]
    /\ effects' = Plus({<<r, s>>})
    /\ queue' = IF Requeues(r) THEN queue \cup {ResumeJob(r, s)} ELSE queue
    /\ CloseRequest(u)
    /\ UNCHANGED <<run, w, late, crashes>>

\* The approved tool fails: the failure is recorded, the run is left alone.
ApproveFails(u) ==
    /\ InvLocked(u)
    /\ inv' = [inv EXCEPT ![req[u].run][req[u].step] = "Failed"]
    /\ CloseRequest(u)
    /\ UNCHANGED <<run, effects, queue, w, late, crashes>>

\* reject_invocation and fail_waiting_run.
Reject(u) ==
    LET r == req[u].run IN
    /\ InvLocked(u)
    /\ RunLocked(u)
    /\ inv' = [inv EXCEPT ![r][req[u].step] = "Rejected"]
    /\ run' = IF run[r].status = "Waiting" THEN Invalidated(r) ELSE run
    /\ CloseRequest(u)
    /\ UNCHANGED <<effects, queue, w, late, crashes>>

\* The request raises (requester disabled, not pending, 1020) and rolls back.
AbortRequest(u) ==
    /\ req[u].pc = "open"
    /\ CloseRequest(u)
    /\ UNCHANGED <<run, inv, effects, queue, w, late, crashes>>

-----------------------------------------------------------------------------
StepOf(k) ==
    \/ LoopHead(k) \/ SkipStep(k) \/ BeginStep(k) \/ BeginAttempt(k)
    \/ StepSucceeds(k) \/ StepFails(k) \/ StepNeedsApproval(k) \/ SubRunPauses(k)
    \/ RetryWait(k) \/ AbortStep(k) \/ RecordStep(k) \/ Pause(k)
    \/ DecideOutcome(k) \/ PersistOutcome(k)
    \/ EndJob(k) \/ ResumeParent(k) \/ FailParent(k) \/ ConflictAborts(k)
Claim(k) == ClaimExec(k) \/ ClaimResume(k) \/ ClaimInvalid(k) \/ ClaimSkip(k)

Next ==
    \/ \E r \in Roots : StartRun(r) \/ RunInline(r) \/ RunInlineNested(r)
    \/ \E old \in Runs, r \in Roots : RetryRun(old, r)
    \/ \E k \in Workers : Claim(k) \/ StepOf(k) \/ UnexpectedError(k) \/ Crash(k)
                        \/ Redeliver(k)
    \/ LoseJob
    \/ \E r \in Runs : CancelRun(r)
    \/ \E u \in Users :
        \/ OpenRequest(u) \/ Approve(u) \/ ApproveFails(u) \/ Reject(u)
        \/ AbortRequest(u)

Spec == Init /\ [][Next]_vars

\* Workers take jobs and go on with them.
Fairness ==
    /\ \A k \in Workers : WF_vars(StepOf(k))
    /\ WF_vars(\E k \in Workers : Claim(k))
FairSpec == Spec /\ Fairness

-----------------------------------------------------------------------------
(* Safety.                                                                 *)

\* The locked status check of _execute_run and resume_run lets one worker
\* execute a run at a time, across cancellations, resumes and crashes.
OneExecutor ==
    \A j, k \in Workers :
        w[j].pc # "idle" /\ w[k].pc # "idle" /\ w[j].run = w[k].run => j = k

\* The body of a step is committed at most once in the life of a run, and the
\* run is counted at most once: a resumed run repeats nothing, and a tool held
\* for approval is executed once (resume_run, approve_invocation).
EffectsAtMostOnce == \A r \in Runs, s \in 0 .. NSteps : effects[r][s] <= 1

\* A Completed run executed every enabled step whose failure it does not
\* tolerate, the approved ones included: a resumed run skips nothing.
CompletedDidEverything ==
    \A r \in Runs : run[r].status = "Completed" =>
        \A s \in Enabled : effects[r][s] >= 1 \/ OnError[s] = "Continue"

\* A completed run did every step it had to, and no run did one twice.
EffectsExactlyOnce == EffectsAtMostOnce /\ CompletedDidEverything

\* The statistics count runs that completed or failed, never a cancelled one
\* (_persist_terminal_state before _update_pipeline_stats).
OnlyFinishedRunsCounted ==
    \A r \in Runs : effects[r][0] > 0 => run[r].status \in {"Completed", "Failed"}

\* A pending invocation belongs to the step its run stopped at: nobody is asked
\* to approve a tool for a run that went on without it.
PendingBelongsToStoppedRun ==
    \A r \in Runs, s \in Steps : inv[r][s] = "Pending" =>
        \/ run[r].status = "Waiting" /\ run[r].at = s /\ ~run[r].kid
        \/ run[r].status \in {"Cancelled", "Failed"}

\* A run nobody works on is driven by something: a queued run has its job, an
\* approved run its resume job, a running run its worker.  Only a lost worker
\* breaks this (GAP_REGISTER OPS-05).
NoAbandonedRun ==
    crashes = 0 => \A r \in Runs :
        /\ run[r].status = "Queued" => ExecJob(r) \in queue
        /\ run[r].status = "Running" =>
            \E k \in Workers : w[k].pc # "idle" /\ w[k].run = r
        /\ run[r].status = "Waiting" /\ ~run[r].kid
             /\ inv[r][run[r].at] = "Success" =>
            ResumeJob(r, run[r].at) \in queue

\* A cancelled run starts the body of at most one more step, however the
\* cancellation falls between the plain reads and the checkpoints.
AtMostOneLateStep == \A r \in Runs : Cardinality(late[r]) <= 1

\* With snapshot isolation and no retry it starts none: the checkpoint before
\* the body fails (_persist_checkpoint, then _is_cancelled).
NoLateStep ==
    SnapshotIsolation =>
        \A r \in Runs : \A s \in late[r] : OnError[s] = "Retry"

-----------------------------------------------------------------------------
(* Action properties.                                                      *)

\* A Completed or Failed run never changes state again.
FinishedIsFinal ==
    [][\A r \in Runs : run[r].status \in {"Completed", "Failed"} =>
        run'[r].status = run[r].status]_vars

\* A cancelled run stays cancelled (cancel_run: "Authoritatively cancel").
CancelledIsFinal ==
    [][\A r \in Runs : run[r].status = "Cancelled" =>
        run'[r].status = "Cancelled"]_vars

\* No worker commits the body of a step of a run that is already cancelled;
\* only an approver's own tool call may still be recorded.
NoEffectAfterCancel ==
    [][\A r \in Runs, s \in Steps :
        run[r].status = "Cancelled" /\ effects'[r][s] # effects[r][s] =>
            inv'[r][s] # inv[r][s]]_vars

-----------------------------------------------------------------------------
(* Liveness, unless a worker is lost.                                      *)

\* Every queued or running run finishes, waits for an approval or is cancelled.
RunsSettle ==
    \A r \in Runs :
        run[r].status \in {"Queued", "Running"} ~>
            run[r].status \in Terminal \cup {"Waiting"} \/ crashes > 0

\* A run whose invocation was approved and executed does not wait for it any
\* longer.
ApprovedRunGoesOn ==
    \A r \in Runs, s \in Steps :
        inv[r][s] = "Success" /\ run[r].status = "Waiting" /\ run[r].at = s
            /\ ~run[r].kid
        ~> run[r].status # "Waiting" \/ run[r].at # s \/ crashes > 0

\* "Approving a pending tool invocation resumes a Waiting Approval run"
\* (docs/API.md), whether or not the approved tool succeeds.
AnsweredRunGoesOn ==
    \A r \in Runs, s \in Steps :
        inv[r][s] \in {"Success", "Failed"} /\ run[r].status = "Waiting"
            /\ run[r].at = s /\ ~run[r].kid
        ~> run[r].status # "Waiting" \/ run[r].at # s

\* A parent does not wait for a sub-run that has ended (resume_run fails it
\* with "Nested pipeline {0} ended with status {1}").
ParentGoesOn ==
    \A p \in Roots :
        run[p].status = "Waiting" /\ run[p].kid
            /\ run[ChildOf[p]].status \in Terminal
        ~> run[p].status # "Waiting"

-----------------------------------------------------------------------------
(* Refinement: with snapshot isolation the engine keeps the promises of    *)
(* PipelineLifecycle.                                                      *)

Lifecycle == INSTANCE PipelineLifecycle WITH
    st <- [r \in Runs |-> run[r].status],
    done <- [r \in Runs |-> {s \in Steps : effects[r][s] > 0}],
    Required <- {s \in Enabled : OnError[s] # "Continue"}

\* The committed rows and step executions of every run follow the lifecycle:
\* steps in order, one by one, and nothing after a final state but the tool
\* held for an approval.
ImplementsLifecycle == Lifecycle!Spec
=============================================================================
