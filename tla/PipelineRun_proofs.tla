------------------------ MODULE PipelineRun_proofs ------------------------
(* Proofs about PipelineRun, for every pipeline, any number of runs,       *)
(* workers and users, and either isolation behaviour of the database.      *)
EXTENDS PipelineRun, FiniteSetTheorems, TLAPS

(* Typing of the values the actions assign.                                *)

LEMMA RunTyping ==
    /\ AnyRun \in Runs
    /\ \A r \in Roots : r \in Runs /\ ChildOf[r] \in Runs /\ ChildOf[r] \in Children
    /\ \A r \in Roots : ChildOf[r] # r
  BY RunsAssumption DEF AnyRun, Runs

LEMMA NSteps0 == NSteps \in Nat /\ 0 \in 0 .. NSteps /\ Steps \subseteq 0 .. NSteps
  BY PipelineAssumption DEF Steps

LEMMA IdleTyping == IdleWorker \in WorkerState
  BY RunTyping, NSteps0
  DEF IdleWorker, WorkerState, Status, Cancellable, Terminal, NoSub, SubResult, Job, ExecJob

LEMMA ExecuteTyping ==
    ASSUME NEW r \in Runs, NEW s \in 1 .. NSteps + 1, NEW j \in Job
    PROVE  Execute(r, s, j) \in WorkerState
  BY IdleTyping, NSteps0
  DEF Execute, IdleWorker, WorkerState, Busy, Status, Cancellable, Terminal

LEMMA SetWorker ==
    ASSUME w \in [Workers -> WorkerState], NEW k \in Workers, NEW x \in WorkerState
    PROVE  [w EXCEPT ![k] = x] \in [Workers -> WorkerState]
  OBVIOUS

LEMMA PlusTyping ==
    ASSUME effects \in [Runs -> [0 .. NSteps -> Nat]], NEW D
    PROVE  Plus(D) \in [Runs -> [0 .. NSteps -> Nat]]
<1> DEFINE F(r, s) == IF <<r, s>> \in D THEN effects[r][s] + 1 ELSE effects[r][s]
<1>1. \A r \in Runs, s \in 0 .. NSteps : F(r, s) \in Nat
  <2> TAKE r \in Runs, s \in 0 .. NSteps
  <2>1. effects[r][s] \in Nat
    OBVIOUS
  <2> QED  BY <2>1
<1> HIDE DEF F
<1>2. \A r \in Runs : [s \in 0 .. NSteps |-> F(r, s)] \in [0 .. NSteps -> Nat]
  BY <1>1
<1>3. [r \in Runs |-> [s \in 0 .. NSteps |-> F(r, s)]] \in [Runs -> [0 .. NSteps -> Nat]]
  BY <1>2
<1> QED  BY <1>3 DEF Plus, F

LEMMA RowTyping ==
    ASSUME NEW s \in 0 .. NSteps, NEW kid \in BOOLEAN
    PROVE  WaitingRow(s, kid) \in Row
  BY DEF WaitingRow, Row, Status, Cancellable

LEMMA StatusTyping ==
    ASSUME run \in [Runs -> Row], NEW r \in Runs, NEW s \in Status
    PROVE  [run EXCEPT ![r].status = s] \in [Runs -> Row]
  BY DEF Row

LEMMA InvalidatedTyping ==
    ASSUME run \in [Runs -> Row], NEW r \in Runs
    PROVE  Invalidated(r) \in [Runs -> Row]
  BY StatusTyping DEF Invalidated, Status, Terminal

LEMMA SuspendedTyping ==
    ASSUME run \in [Runs -> Row], NEW r \in Roots, NEW s \in 0 .. NSteps,
           NEW sub, sub.at \in 0 .. NSteps
    PROVE  Suspended(r, s, sub) \in [Runs -> Row]
  BY RowTyping, RunTyping DEF Suspended

LEMMA SeenTyping ==
    ASSUME TypeOK, NEW k \in Workers
    PROVE  Seen(k) \in Status
  BY DEF TypeOK, Seen, WorkerState, Row

-----------------------------------------------------------------------------
(* The inductive invariant.                                                *)

InStep == {"skip", "begin", "attempt", "body", "wait", "record", "abort", "pause"}
Working == {"Running"} \cup Terminal
Memory == {"Running", "Completed", "Failed", "Cancelled"}

\* What holds of a worker and the rows it knows: it is inside the pipeline, it
\* runs a body only after a read that did not say Cancelled, its run is claimed,
\* it pauses only at a step that can, and the sub-run it is about to commit does
\* not exist yet.
Consistent(k) ==
    /\ w[k].pc \in InStep => w[k].step \in Steps
    /\ w[k].pc \in {"body", "pause"} => w[k].view \notin {"NoView", "Cancelled"}
    /\ w[k].pc # "idle" =>
        /\ w[k].mem \in Memory
        /\ run[w[k].run].status \in Working
        /\ run[w[k].job.run].status # "None"
    /\ w[k].pc = "pause" => w[k].step \in ApprovalSteps \cup NestedSteps
    /\ w[k].pc = "pause" /\ w[k].wait = "child" =>
        /\ w[k].run \in Roots
        /\ run[ChildOf[w[k].run]].status = "None"

JobsStarted == \A j \in queue : run[j.run].status # "None"

\* An open request names a step of its run.
Named(u) == req[u].pc = "open" => req[u].step \in Steps

IInv ==
    /\ TypeOK
    /\ \A k \in Workers : Consistent(k)
    /\ \A u \in Users : Named(u)
    /\ JobsStarted
    /\ OneExecutor

-----------------------------------------------------------------------------
(* Type correctness.                                                       *)

LEMMA WorkerTyping ==
    ASSUME TypeOK, NEW k \in Workers
    PROVE  /\ w[k] \in WorkerState
           /\ w[k].run \in Runs
           /\ w[k].job \in Job
           /\ w[k].job.run \in Runs
           /\ w[k].sub.at \in 0 .. NSteps
           /\ w[k].mem \in Status
           /\ Release(k) => w' \in [Workers -> WorkerState]
<1>1. w[k] \in WorkerState
  BY DEF TypeOK
<1>2. Release(k) => w' \in [Workers -> WorkerState]
  BY IdleTyping DEF TypeOK, Release
<1> QED  BY <1>1, <1>2 DEF WorkerState, Job, SubResult

\* The states a step of the loop moves a worker to.
LEMMA ControlTyping ==
    ASSUME TypeOK, NEW k \in Workers, Consistent(k), NEW pc \in Busy
    PROVE  /\ Goto(k, pc) \in WorkerState
           /\ Reading(k, Goto(k, pc)) \in WorkerState
           /\ Cancelled(Goto(k, pc)) \in WorkerState
           /\ Reading(k, Cancelled(Goto(k, pc))) \in WorkerState
           /\ [Goto(k, pc) EXCEPT !.failed = TRUE] \in WorkerState
           /\ Reading(k, [Goto(k, pc) EXCEPT !.att = NextAttempt(k)]) \in WorkerState
           /\ w[k].pc \in InStep => NextStep(k, pc) \in WorkerState
<1>1. w[k] \in WorkerState /\ Seen(k) \in Status
  BY WorkerTyping, SeenTyping
<1>2. w[k].att \in Nat /\ NextAttempt(k) \in Nat
  BY <1>1 DEF WorkerState, NextAttempt
<1>3. w[k].pc \in InStep => w[k].step + 1 \in 1 .. NSteps + 1
  BY PipelineAssumption DEF Consistent, Steps
<1> QED
  BY <1>1, <1>2, <1>3 DEF Goto, Reading, Cancelled, NextStep, WorkerState

LEMMA CheckpointTyping ==
    ASSUME TypeOK, NEW k \in Workers, NEW next \in WorkerState, Checkpoint(k, next)
    PROVE  /\ run' \in [Runs -> Row]
           /\ effects' \in [Runs -> [0 .. NSteps -> Nat]]
           /\ w' \in [Workers -> WorkerState]
<1> USE WorkerTyping
<1>1. [next EXCEPT !.mem = "Cancelled"] \in WorkerState
  BY DEF WorkerState, Status, Terminal
<1>2. [next EXCEPT !.did = {}, !.view = "NoView"] \in WorkerState
  BY DEF WorkerState
<1>3. CASE w' = [w EXCEPT ![k] = [next EXCEPT !.mem = "Cancelled"]]
           /\ UNCHANGED <<run, effects>>
  BY <1>1, <1>3 DEF TypeOK
<1>4. CASE /\ run' = [run EXCEPT ![w[k].run].status = w[k].mem]
           /\ effects' = Plus(w[k].did)
           /\ w' = [w EXCEPT ![k] = [next EXCEPT !.did = {}, !.view = "NoView"]]
  BY <1>2, <1>4, StatusTyping, PlusTyping DEF TypeOK
<1> QED  BY <1>3, <1>4 DEF Checkpoint

LEMMA JobTyping ==
    /\ \A r \in Runs : ExecJob(r) \in Job /\ ExecJob(r).run = r
    /\ \A r \in Runs, s \in Steps : ResumeJob(r, s) \in Job /\ ResumeJob(r, s).run = r
    /\ \A j \in Job : j.run \in Runs
  BY DEF ExecJob, ResumeJob, Job

LEMMA ResumedTyping ==
    ASSUME TypeOK, NEW r \in Runs
    PROVE  /\ Resumed(r) \in [Runs -> Row]
           /\ ResumeAt(r) \in 1 .. NSteps + 1
<1>1. run[r] \in Row
  BY DEF TypeOK
<1>2. [run[r] EXCEPT !.status = "Running", !.kid = FALSE] \in Row
  BY <1>1 DEF Row, Status, Cancellable
<1>3. run[r].at \in 0 .. NSteps
  BY <1>1 DEF Row
<1> QED  BY <1>2, <1>3, PipelineAssumption DEF TypeOK, Resumed, ResumeAt

LEMMA InvTyping ==
    ASSUME TypeOK, NEW r \in Runs, NEW s, NEW v \in InvStatus
    PROVE  [inv EXCEPT ![r][s] = v] \in [Runs -> [Steps -> InvStatus]]
  BY DEF TypeOK

LEMMA PausedTyping ==
    /\ \A o \in Finished \cup Aborted \cup Paused(ApprovalSteps) :
        o.at \in 0 .. NSteps /\ o.status \in Status
    /\ \A o \in Paused(NestedSteps) : o.at \in 0 .. NSteps
    /\ \A o \in Paused(ApprovalSteps) : o.done \in SUBSET Steps
<1>1. \A o \in Finished : o.at \in 0 .. NSteps /\ o.status \in Status
  BY NSteps0 DEF Finished, Status, Terminal
<1>2. \A o \in Aborted : o.at \in 0 .. NSteps /\ o.status \in Status
  <2> TAKE o \in Aborted
  <2>1. PICK s \in Enabled : o \in {[at |-> s, status |-> "Failed", done |-> d] : d \in Passed(s - 1)}
    BY DEF Aborted
  <2> QED  BY <2>1, NSteps0, PipelineAssumption DEF Status, Terminal
<1>3. \A S \in SUBSET Steps : \A o \in Paused(S) :
        o.at \in 0 .. NSteps /\ o.status \in Status /\ o.done \in SUBSET Steps
  <2> TAKE S \in SUBSET Steps
  <2> TAKE o \in Paused(S)
  <2>0. PICK s \in S : o \in {[at |-> s, status |-> "Waiting", done |-> d] : d \in Passed(s - 1)}
    BY DEF Paused
  <2>1. PICK d \in Passed(s - 1) : o = [at |-> s, status |-> "Waiting", done |-> d]
    BY <2>0
  <2>2. d \in SUBSET Steps
    BY PipelineAssumption DEF Passed
  <2> QED  BY <2>1, <2>2, NSteps0 DEF Status, Cancellable
<1> QED  BY <1>1, <1>2, <1>3, PipelineAssumption

\* The actions of people and the jobs: the row typing of each.
LEMMA StartTyping ==
    ASSUME TypeOK, NEW r \in Roots
    PROVE  /\ Enqueue(r) => run' \in [Runs -> Row] /\ queue' \subseteq Job
           /\ RunInline(r) => TypeOK'
           /\ RunInlineNested(r) => TypeOK'
<1> USE RunTyping
<1>1. Enqueue(r) => run' \in [Runs -> Row] /\ queue' \subseteq Job
  <2>1. "Queued" \in Status
    BY DEF Status, Cancellable
  <2> QED  BY <2>1, StatusTyping, JobTyping DEF TypeOK, Enqueue
<1>2. ASSUME RunInline(r) PROVE TypeOK'
  <2>1. PICK o \in Finished \cup Aborted \cup Paused(ApprovalSteps) :
          /\ run' = [run EXCEPT ![r] =
                      IF o.status = "Waiting" THEN WaitingRow(o.at, FALSE)
                      ELSE [@ EXCEPT !.status = o.status]]
          /\ effects' = Plus({<<r, s>> : s \in
                              IF o.status = "Waiting" THEN o.done
                                                      ELSE o.done \cup {0}})
          /\ inv' = IF o.status = "Waiting"
                    THEN [inv EXCEPT ![r][o.at] = "Pending"] ELSE inv
    BY <1>2 DEF RunInline
  <2>2. run' \in [Runs -> Row]
    <3>1. WaitingRow(o.at, FALSE) \in Row
      BY PausedTyping, RowTyping
    <3>2. [run[r] EXCEPT !.status = o.status] \in Row
      <4>1. run[r] \in Row /\ o.status \in Status
        BY PausedTyping DEF TypeOK
      <4> QED  BY <4>1 DEF Row
    <3> QED  BY <2>1, <3>1, <3>2 DEF TypeOK
  <2>3. effects' \in [Runs -> [0 .. NSteps -> Nat]]
    BY <2>1, PlusTyping DEF TypeOK
  <2>4. inv' \in [Runs -> [Steps -> InvStatus]]
    BY <2>1, InvTyping DEF TypeOK, InvStatus
  <2> QED  BY <1>2, <2>2, <2>3, <2>4 DEF RunInline, TypeOK
<1>3. ASSUME RunInlineNested(r) PROVE TypeOK'
  <2>1. PICK o \in Paused(NestedSteps), sub \in Paused(ApprovalSteps) :
          /\ run' = Suspended(r, o.at, sub)
          /\ inv' = [inv EXCEPT ![ChildOf[r]][sub.at] = "Pending"]
          /\ effects' = Plus(({r} \X o.done) \cup ({ChildOf[r]} \X sub.done))
    BY <1>3 DEF RunInlineNested
  <2>2. run' \in [Runs -> Row]
    BY <2>1, PausedTyping, SuspendedTyping DEF TypeOK
  <2>3. effects' \in [Runs -> [0 .. NSteps -> Nat]]
    BY <2>1, PlusTyping DEF TypeOK
  <2>4. inv' \in [Runs -> [Steps -> InvStatus]]
    BY <2>1, InvTyping DEF InvStatus
  <2> QED  BY <1>3, <2>2, <2>3, <2>4 DEF RunInlineNested, TypeOK
<1> QED  BY <1>1, <1>2, <1>3

LEMMA ClaimTyping ==
    ASSUME TypeOK, NEW k \in Workers, Claim(k)
    PROVE  TypeOK'
<1> USE RunTyping, JobTyping
<1>1. CASE ClaimExec(k)
  <2>1. PICK r \in Roots : /\ Take(k, ExecJob(r))
                           /\ run' = [run EXCEPT ![r].status = "Running"]
                           /\ w' = [w EXCEPT ![k] = Execute(r, 1, ExecJob(r))]
    BY <1>1 DEF ClaimExec
  <2>2. run' \in [Runs -> Row]
    BY <2>1, StatusTyping DEF TypeOK, Status, Cancellable
  <2>3. Execute(r, 1, ExecJob(r)) \in WorkerState
    BY ExecuteTyping, NSteps0
  <2>4. w' \in [Workers -> WorkerState]
    BY <2>1, <2>3 DEF TypeOK
  <2> QED  BY <1>1, <2>1, <2>2, <2>4 DEF ClaimExec, Take, TypeOK
<1>2. CASE ClaimResume(k)
  <2>1. PICK r \in Runs, s \in Steps :
           /\ Take(k, ResumeJob(r, s))
           /\ run' = Resumed(r)
           /\ effects' = Plus(IF run[r].kid THEN {<<r, run[r].at>>} ELSE {})
           /\ w' = [w EXCEPT ![k] = Execute(r, ResumeAt(r), ResumeJob(r, s))]
    BY <1>2 DEF ClaimResume
  <2>2. run' \in [Runs -> Row] /\ effects' \in [Runs -> [0 .. NSteps -> Nat]]
    BY <2>1, ResumedTyping, PlusTyping DEF TypeOK
  <2>3. Execute(r, ResumeAt(r), ResumeJob(r, s)) \in WorkerState
    BY ExecuteTyping, ResumedTyping
  <2>4. w' \in [Workers -> WorkerState]
    BY <2>1, <2>3 DEF TypeOK
  <2> QED  BY <1>2, <2>1, <2>2, <2>4 DEF ClaimResume, Take, TypeOK
<1>3. CASE ClaimInvalid(k)
  <2>1. run' \in [Runs -> Row] /\ queue' \subseteq Job
    BY <1>3, InvalidatedTyping DEF ClaimInvalid, Take, TypeOK
  <2> QED  BY <1>3, <2>1 DEF ClaimInvalid, TypeOK
<1>4. CASE ClaimSkip(k)
  BY <1>4 DEF ClaimSkip, Take, TypeOK
<1> QED  BY <1>1, <1>2, <1>3, <1>4 DEF Claim

\* The steps that only move the worker.
LEMMA MoveTyping ==
    ASSUME TypeOK, NEW k \in Workers, Consistent(k),
           \/ LoopHead(k) \/ BeginAttempt(k) \/ StepSucceeds(k) \/ StepFails(k)
           \/ StepNeedsApproval(k) \/ SubRunPauses(k) \/ RetryWait(k)
           \/ DecideOutcome(k)
    PROVE  TypeOK'
<1>0. w[k] \in WorkerState /\ Seen(k) \in Status /\ w[k].run \in Runs
  BY WorkerTyping, SeenTyping
<1>1. CASE LoopHead(k)
  <2>1. w' \in [Workers -> WorkerState]
    BY <1>1, ControlTyping DEF LoopHead, TypeOK, Busy
  <2> QED  BY <1>1, <2>1 DEF LoopHead, TypeOK
<1>2. CASE BeginAttempt(k)
  <2>1. w' \in [Workers -> WorkerState]
    BY <1>2, ControlTyping DEF BeginAttempt, TypeOK, Busy
  <2>2. w[k].step \in Steps
    BY <1>2 DEF BeginAttempt, Consistent, InStep
  <2>3. late' = [late EXCEPT ![w[k].run] = @ \cup {w[k].step}] \/ late' = late
    BY <1>2 DEF BeginAttempt
  <2>4. late \in [Runs -> SUBSET Steps]
    BY DEF TypeOK
  <2>5. late' \in [Runs -> SUBSET Steps]
    BY <1>0, <2>2, <2>3, <2>4
  <2> QED  BY <1>2, <2>1, <2>5 DEF BeginAttempt, TypeOK
<1>3. CASE StepSucceeds(k)
  <2>1. w[k].step \in 0 .. NSteps
    BY <1>3, NSteps0 DEF StepSucceeds, Consistent, InStep
  <2> DEFINE D == w[k].did \cup {<<w[k].run, w[k].step>>}
  <2>2. D \in SUBSET (Runs \X (0 .. NSteps))
    BY <1>0, <2>1 DEF WorkerState
  <2> HIDE DEF D
  <2>3. [w[k] EXCEPT !.pc = "record", !.err = FALSE, !.did = D] \in WorkerState
    BY <1>0, <2>2 DEF WorkerState, Busy
  <2>4. w' = [w EXCEPT ![k] =
               [w[k] EXCEPT !.pc = "record", !.err = FALSE, !.did = D]]
    BY <1>3 DEF StepSucceeds, D
  <2> QED  BY <1>3, <2>3, <2>4 DEF StepSucceeds, TypeOK
<1>4. CASE StepFails(k)
  <2>1. [w[k] EXCEPT !.pc = IF NextAttempt(k) < Attempts(w[k].step)
                            THEN "wait" ELSE "record",
                     !.err = TRUE] \in WorkerState
    BY <1>0 DEF WorkerState, Busy
  <2> QED  BY <1>4, <2>1 DEF StepFails, TypeOK
<1>5. CASE StepNeedsApproval(k)
  <2>1. [w[k] EXCEPT !.pc = "pause", !.wait = "tool"] \in WorkerState
    BY <1>0 DEF WorkerState, Busy
  <2> QED  BY <1>5, <2>1 DEF StepNeedsApproval, TypeOK
<1>6. CASE SubRunPauses(k)
  <2>1. PICK o \in Paused(ApprovalSteps) :
          w' = [w EXCEPT ![k] =
                 [w[k] EXCEPT !.pc = "pause", !.wait = "child",
                              !.sub = [at |-> o.at, done |-> o.done]]]
    BY <1>6 DEF SubRunPauses
  <2>2. [at |-> o.at, done |-> o.done] \in SubResult
    BY PausedTyping DEF SubResult
  <2>3. [w[k] EXCEPT !.pc = "pause", !.wait = "child",
                     !.sub = [at |-> o.at, done |-> o.done]] \in WorkerState
    BY <1>0, <2>2 DEF WorkerState, Busy
  <2> QED  BY <1>6, <2>1, <2>3 DEF SubRunPauses, TypeOK
<1>7. CASE RetryWait(k)
  <2>1. w' \in [Workers -> WorkerState]
    BY <1>7, ControlTyping DEF RetryWait, TypeOK, Busy
  <2> QED  BY <1>7, <2>1 DEF RetryWait, TypeOK
<1>8. CASE DecideOutcome(k)
  <2> DEFINE c == w[k].cancelled \/ SeesCancel(k)
             m == IF c THEN "Cancelled" ELSE IF w[k].failed THEN "Failed" ELSE "Completed"
  <2>1. c \in BOOLEAN /\ m \in Status
    BY DEF Status, Terminal
  <2> HIDE DEF c, m
  <2>2. Reading(k, [w[k] EXCEPT !.pc = "persist", !.cancelled = c, !.mem = m])
          \in WorkerState
    BY <1>0, <2>1 DEF Reading, WorkerState, Busy
  <2>3. w' = [w EXCEPT ![k] = Reading(k, [w[k] EXCEPT
                !.pc = "persist", !.cancelled = c, !.mem = m])]
    BY <1>8 DEF DecideOutcome, c, m
  <2> QED  BY <1>8, <2>2, <2>3 DEF DecideOutcome, TypeOK
<1> QED  BY <1>1, <1>2, <1>3, <1>4, <1>5, <1>6, <1>7, <1>8

\* The steps that save the run.
LEMMA SaveTyping ==
    ASSUME TypeOK, NEW k \in Workers, Consistent(k),
           \/ SkipStep(k) \/ BeginStep(k) \/ AbortStep(k) \/ RecordStep(k)
           \/ Pause(k) \/ PersistOutcome(k) \/ EndJob(k) \/ ResumeParent(k)
           \/ FailParent(k) \/ ConflictAborts(k)
    PROVE  TypeOK'
<1>0. /\ w[k] \in WorkerState
      /\ w[k].run \in Runs
      /\ w[k].job \in Job
      /\ w[k].sub.at \in 0 .. NSteps
      /\ w[k].mem \in Status
      /\ Release(k) => w' \in [Workers -> WorkerState]
  BY WorkerTyping
<1>1. CASE SkipStep(k)
  BY <1>1, ControlTyping, CheckpointTyping DEF SkipStep, TypeOK, InStep, Busy
<1>2. CASE BeginStep(k)
  BY <1>2, ControlTyping, CheckpointTyping DEF BeginStep, TypeOK, Busy
<1>3. CASE AbortStep(k)
  BY <1>3, ControlTyping, CheckpointTyping DEF AbortStep, TypeOK, Busy
<1>4. CASE RecordStep(k)
  <2>1. (IF StopsRun(k) THEN [Goto(k, "final") EXCEPT !.failed = TRUE]
                        ELSE NextStep(k, "loop")) \in WorkerState
    BY <1>4, ControlTyping DEF RecordStep, InStep, Busy
  <2> QED  BY <1>4, <2>1, CheckpointTyping DEF RecordStep, TypeOK
<1>5. CASE Pause(k)
  <2>1. w[k].step \in 0 .. NSteps
    BY <1>5, NSteps0 DEF Pause, Consistent, InStep
  <2>2. CASE w[k].wait = "tool"
    <3>1. /\ run' = [run EXCEPT ![w[k].run] = WaitingRow(w[k].step, FALSE)]
          /\ inv' = [inv EXCEPT ![w[k].run][w[k].step] = "Pending"]
          /\ effects' = Plus(w[k].did)
      BY <1>5, <2>2 DEF Pause
    <3>2. run' \in [Runs -> Row]
      BY <1>0, <2>1, <3>1, RowTyping DEF TypeOK
    <3>3. inv' \in [Runs -> [Steps -> InvStatus]]
      BY <1>0, <3>1, InvTyping DEF InvStatus
    <3> QED  BY <1>0, <1>5, <3>1, <3>2, <3>3, PlusTyping DEF Pause, TypeOK
  <2>3. CASE w[k].wait = "child"
    <3>1. /\ run' = Suspended(w[k].run, w[k].step, w[k].sub)
          /\ inv' = [inv EXCEPT ![ChildOf[w[k].run]][w[k].sub.at] = "Pending"]
          /\ effects' = Plus(w[k].did \cup ({ChildOf[w[k].run]} \X w[k].sub.done))
      BY <1>5, <2>3 DEF Pause
    <3>2. w[k].run \in Roots
      BY <1>5, <2>3 DEF Pause, Consistent
    <3>3. run' \in [Runs -> Row]
      BY <1>0, <2>1, <3>1, <3>2, SuspendedTyping DEF TypeOK
    <3>4. inv' \in [Runs -> [Steps -> InvStatus]]
      BY <3>1, <3>2, InvTyping, RunTyping DEF InvStatus
    <3> QED  BY <1>0, <1>5, <3>1, <3>3, <3>4, PlusTyping DEF Pause, TypeOK
  <2> QED  BY <1>5, <2>2, <2>3 DEF Pause
<1>6. CASE PersistOutcome(k)
  <2> DEFINE r == w[k].run
  <2>0. /\ Tally(k, TRUE) \in SUBSET (Runs \X (0 .. NSteps))
        /\ Tally(k, FALSE) \in SUBSET (Runs \X (0 .. NSteps))
        /\ run[r].status \in Status
    BY <1>0, NSteps0 DEF Tally, TypeOK, Row
  <2>1. [Goto(k, "finish") EXCEPT !.mem = run[r].status,
                                  !.did = @ \cup Tally(k, FALSE)] \in WorkerState
    BY <1>0, <2>0 DEF Goto, WorkerState, Busy
  <2>2. [Goto(k, "finish") EXCEPT !.view = "NoView",
                                  !.did = Tally(k, TRUE)] \in WorkerState
    BY <1>0, <2>0 DEF Goto, WorkerState, Busy
  <2>3. w' \in [Workers -> WorkerState]
    BY <1>6, <2>1, <2>2, SetWorker DEF PersistOutcome, TypeOK
  <2>4. \/ UNCHANGED <<run, effects>>
        \/ /\ run' = [run EXCEPT ![w[k].run].status = w[k].mem]
           /\ effects' = Plus(w[k].did)
    BY <1>6 DEF PersistOutcome
  <2>5. run' \in [Runs -> Row] /\ effects' \in [Runs -> [0 .. NSteps -> Nat]]
    <3>1. run \in [Runs -> Row] /\ effects \in [Runs -> [0 .. NSteps -> Nat]]
      BY DEF TypeOK
    <3>2. [run EXCEPT ![w[k].run].status = w[k].mem] \in [Runs -> Row]
      BY <1>0, <3>1, StatusTyping
    <3>3. Plus(w[k].did) \in [Runs -> [0 .. NSteps -> Nat]]
      BY <3>1, PlusTyping
    <3> QED  BY <2>4, <3>1, <3>2, <3>3
  <2> QED  BY <1>6, <2>3, <2>5 DEF PersistOutcome, TypeOK
<1>7. CASE EndJob(k)
  BY <1>0, <1>7, PlusTyping DEF EndJob, TypeOK
<1>8. CASE ResumeParent(k)
  <2>1. PICK p \in Roots :
          /\ run' = Resumed(p)
          /\ effects' = Plus(w[k].did \cup {<<p, run[p].at>>})
          /\ w' = [w EXCEPT ![k] = Execute(p, ResumeAt(p), w[k].job)]
    BY <1>8 DEF ResumeParent
  <2>2. Execute(p, ResumeAt(p), w[k].job) \in WorkerState
    BY <1>0, ExecuteTyping, ResumedTyping, RunTyping
  <2>3. run' \in [Runs -> Row] /\ effects' \in [Runs -> [0 .. NSteps -> Nat]]
    BY <2>1, ResumedTyping, PlusTyping, RunTyping DEF TypeOK
  <2> QED  BY <1>8, <2>1, <2>2, <2>3 DEF ResumeParent, TypeOK
<1>9. CASE FailParent(k)
  BY <1>0, <1>9, PlusTyping, RunTyping, InvalidatedTyping DEF FailParent, TypeOK
<1>10. CASE ConflictAborts(k)
  BY <1>0, <1>10, InvalidatedTyping DEF ConflictAborts, TypeOK
<1> QED  BY <1>1, <1>2, <1>3, <1>4, <1>5, <1>6, <1>7, <1>8, <1>9, <1>10

\* Exceptions, lost workers and jobs.
LEMMA LossTyping ==
    ASSUME TypeOK, NEW k \in Workers, Consistent(k),
           UnexpectedError(k) \/ Crash(k) \/ Redeliver(k)
    PROVE  TypeOK'
<1> USE WorkerTyping, RunTyping
<1>1. CASE UnexpectedError(k)
  <2>1. CASE UNCHANGED <<run, inv, effects>>
    BY <1>1, <2>1 DEF UnexpectedError, TypeOK
  <2>2. CASE ~Conflict(k)
    <3> DEFINE r == w[k].run
               sub == w[k].sub
               kept == w[k].pc = "pause" /\ w[k].wait = "child"
    <3>1. /\ run' = IF kept
                    THEN [Invalidated(r) EXCEPT ![ChildOf[r]] = WaitingRow(sub.at, FALSE)]
                    ELSE Invalidated(r)
          /\ inv' = IF kept THEN [inv EXCEPT ![ChildOf[r]][sub.at] = "Pending"]
                    ELSE IF w[k].pc = "pause"
                    THEN [inv EXCEPT ![r][w[k].step] = "Pending"]
                    ELSE inv
          /\ effects' = Plus(w[k].did \cup
                             IF kept THEN {ChildOf[r]} \X sub.done ELSE {})
      BY <1>1, <2>2 DEF UnexpectedError
    <3>2. Invalidated(r) \in [Runs -> Row]
      BY InvalidatedTyping DEF TypeOK
    <3>3. run' \in [Runs -> Row]
      BY <3>1, <3>2, RowTyping
    <3>4. kept => ChildOf[r] \in Runs
      BY DEF Consistent
    <3>5. inv' \in [Runs -> [Steps -> InvStatus]]
      BY <3>1, <3>4, InvTyping DEF InvStatus, TypeOK
    <3>6. effects' \in [Runs -> [0 .. NSteps -> Nat]]
      BY <3>1, PlusTyping DEF TypeOK
    <3> QED  BY <1>1, <3>3, <3>5, <3>6 DEF UnexpectedError, TypeOK
  <2> QED  BY <1>1, <2>1, <2>2 DEF UnexpectedError
<1>2. CASE Crash(k)
  BY <1>2, PlatformAssumption DEF Crash, TypeOK
<1>3. CASE Redeliver(k)
  BY <1>3, PlatformAssumption DEF Redeliver, TypeOK
<1> QED  BY <1>1, <1>2, <1>3

LEMMA CancelTyping ==
    ASSUME TypeOK, NEW r \in Runs, CancelRun(r)
    PROVE  TypeOK'
<1>1. run' \in [Runs -> Row]
  BY StatusTyping DEF CancelRun, TypeOK, Status, Terminal
<1>2. w' \in [Workers -> WorkerState] /\ queue' \subseteq Job
  BY WorkerTyping DEF CancelRun, TypeOK
<1> QED  BY <1>1, <1>2 DEF CancelRun, TypeOK

LEMMA RequestTyping ==
    ASSUME TypeOK, NEW u \in Users, Named(u),
           \/ OpenRequest(u) \/ Approve(u) \/ ApproveFails(u) \/ Reject(u)
           \/ AbortRequest(u)
    PROVE  TypeOK'
<1>1. req[u] \in RequestState /\ req[u].run \in Runs
  BY DEF TypeOK, RequestState
<1>2. CloseRequest(u) => req' \in [Users -> RequestState]
  BY RunTyping, NSteps0 DEF CloseRequest, NoRequest, RequestState, TypeOK
<1>3. CASE OpenRequest(u)
  <2>1. PICK r \in Runs, s \in Steps :
          req' = [req EXCEPT ![u] =
                   [pc |-> "open", run |-> r, step |-> s, view |-> run[r].status]]
    BY <1>3 DEF OpenRequest
  <2>2. [pc |-> "open", run |-> r, step |-> s, view |-> run[r].status] \in RequestState
    BY NSteps0 DEF RequestState, TypeOK, Row
  <2> QED  BY <1>3, <2>1, <2>2 DEF OpenRequest, TypeOK
<1>4. Approve(u) => ResumeJob(req[u].run, req[u].step) \in Job
  BY <1>1, JobTyping DEF Approve, InvLocked, Named
<1>5. CASE Approve(u)
  <2>1. inv' \in [Runs -> [Steps -> InvStatus]]
    BY <1>1, <1>5, InvTyping DEF Approve, InvStatus
  <2>2. effects' \in [Runs -> [0 .. NSteps -> Nat]]
    BY <1>5, PlusTyping DEF Approve, TypeOK
  <2>3. queue' \subseteq Job
    BY <1>4, <1>5 DEF Approve, TypeOK
  <2> QED  BY <1>2, <1>5, <2>1, <2>2, <2>3 DEF Approve, TypeOK
<1>6. CASE ApproveFails(u)
  BY <1>1, <1>2, <1>6, InvTyping DEF ApproveFails, InvStatus, TypeOK
<1>7. CASE Reject(u)
  <2>1. inv' \in [Runs -> [Steps -> InvStatus]]
    BY <1>1, <1>7, InvTyping DEF Reject, InvStatus
  <2>2. run' \in [Runs -> Row]
    BY <1>1, <1>7, InvalidatedTyping DEF Reject, TypeOK
  <2> QED  BY <1>2, <1>7, <2>1, <2>2 DEF Reject, TypeOK
<1>8. CASE AbortRequest(u)
  BY <1>2, <1>8 DEF AbortRequest, TypeOK
<1> QED  BY <1>3, <1>5, <1>6, <1>7, <1>8

LEMMA TypeStep ==
    ASSUME IInv, [Next]_vars
    PROVE  TypeOK'
<1>0. TypeOK
  BY DEF IInv
<1>1. ASSUME NEW r \in Roots, StartRun(r) \/ RunInline(r) \/ RunInlineNested(r)
      PROVE  TypeOK'
  BY <1>0, <1>1, StartTyping DEF StartRun, TypeOK
<1>2. ASSUME NEW old \in Runs, NEW r \in Roots, RetryRun(old, r)
      PROVE  TypeOK'
  BY <1>0, <1>2, StartTyping DEF RetryRun, TypeOK
<1>3. ASSUME NEW k \in Workers, Claim(k)
      PROVE  TypeOK'
  BY <1>0, <1>3, ClaimTyping
<1>4. ASSUME NEW k \in Workers, StepOf(k)
      PROVE  TypeOK'
  BY <1>0, <1>4, MoveTyping, SaveTyping DEF StepOf, IInv
<1>5. ASSUME NEW k \in Workers, UnexpectedError(k) \/ Crash(k) \/ Redeliver(k)
      PROVE  TypeOK'
  BY <1>0, <1>5, LossTyping DEF IInv
<1>6. CASE LoseJob
  BY <1>0, <1>6, PlatformAssumption DEF LoseJob, TypeOK
<1>7. ASSUME NEW r \in Runs, CancelRun(r)
      PROVE  TypeOK'
  BY <1>0, <1>7, CancelTyping
<1>8. ASSUME NEW u \in Users,
             \/ OpenRequest(u) \/ Approve(u) \/ ApproveFails(u) \/ Reject(u)
             \/ AbortRequest(u)
      PROVE  TypeOK'
  BY <1>0, <1>8, RequestTyping DEF IInv
<1>9. CASE UNCHANGED vars
  BY <1>0, <1>9 DEF vars, TypeOK
<1> QED  BY <1>1, <1>2, <1>3, <1>4, <1>5, <1>6, <1>7, <1>8, <1>9 DEF Next

-----------------------------------------------------------------------------
(* The other parts of the inductive invariant.                             *)

Safe ==
    /\ \A k \in Workers : Consistent(k)
    /\ JobsStarted
    /\ OneExecutor

\* No row disappears, and a row that changes holds a state a worker tolerates.
RowsAdvance ==
    \A r \in Runs :
        \/ run'[r].status = run[r].status
        \/ run[r].status # "None" /\ run'[r].status \in Working

\* What a worker that does nothing needs of a step.
LEMMA Bystander ==
    ASSUME TypeOK, NEW m \in Workers, Consistent(m), w'[m] = w[m],
           w[m].pc # "idle" =>
               /\ run'[w[m].run].status \in Working
               /\ run'[w[m].job.run].status # "None",
           w[m].pc = "pause" /\ w[m].wait = "child" =>
               run'[ChildOf[w[m].run]].status = "None"
    PROVE  Consistent(m)'
  BY DEF Consistent

LEMMA Advancing ==
    ASSUME TypeOK, NEW m \in Workers, Consistent(m), w'[m] = w[m], RowsAdvance
    PROVE  Consistent(m)'
<1>1. /\ w[m].run \in Runs
      /\ w[m].job.run \in Runs
      /\ w[m].run \in Roots => ChildOf[w[m].run] \in Runs
  BY WorkerTyping, RunTyping
<1>2. "None" \notin Working
  BY DEF Working, Terminal
<1>3. w[m].pc # "idle" =>
        /\ run'[w[m].run].status \in Working
        /\ run'[w[m].job.run].status # "None"
  BY <1>1, <1>2 DEF RowsAdvance, Consistent
<1>4. w[m].pc = "pause" /\ w[m].wait = "child" =>
        run'[ChildOf[w[m].run]].status = "None"
  BY <1>1 DEF RowsAdvance, Consistent
<1> QED  BY <1>3, <1>4, Bystander

\* A step after which each worker is where it was, idle, or still on its run.
LEMMA Frame ==
    ASSUME IInv, RowsAdvance,
           \A j \in queue' : run'[j.run].status # "None",
           \A m \in Workers :
               \/ w'[m] = w[m]
               \/ w'[m].pc = "idle"
               \/ w[m].pc # "idle" /\ w'[m].run = w[m].run /\ Consistent(m)'
    PROVE  Safe'
<1>1. ASSUME NEW m \in Workers PROVE Consistent(m)'
  <2>1. CASE w'[m] = w[m]
    BY <2>1, Advancing DEF IInv
  <2>2. CASE w'[m].pc = "idle"
    BY <2>2 DEF Consistent, InStep
  <2> QED  BY <2>1, <2>2
<1>2. JobsStarted'
  BY DEF JobsStarted
<1>3. OneExecutor'
  BY DEF OneExecutor, IInv
<1> QED  BY <1>1, <1>2, <1>3 DEF Safe

LEMMA QueueFrame ==
    ASSUME IInv, RowsAdvance, queue' \subseteq queue
    PROVE  \A j \in queue' : run'[j.run].status # "None"
<1> TAKE j \in queue'
<1>1. j.run \in Runs /\ run[j.run].status # "None"
  BY JobTyping DEF IInv, TypeOK, JobsStarted
<1> QED  BY <1>1 DEF RowsAdvance, Working, Terminal

\* A step in which worker k starts on a run that waited for a worker.
LEMMA Starting ==
    ASSUME IInv, RowsAdvance, queue' \subseteq queue,
           NEW k \in Workers, NEW r \in Runs, NEW x,
           w' = [w EXCEPT ![k] = x], x.run = r, Consistent(k)',
           run[r].status \in {"Queued", "Waiting"}
    PROVE  Safe'
<1>0. w \in [Workers -> WorkerState]
  BY DEF IInv, TypeOK
<1>1. \A m \in Workers \ {k} : w'[m] = w[m]
  BY <1>0
<1>2. \A m \in Workers : Consistent(m)'
  BY <1>1, Advancing DEF IInv
<1>3. \A m \in Workers : w[m].pc # "idle" => w[m].run # r
  BY DEF IInv, Consistent, Working, Terminal
<1>4. w'[k].run = r
  BY <1>0
<1>5. OneExecutor'
  BY <1>1, <1>3, <1>4 DEF OneExecutor, IInv
<1>6. JobsStarted'
  BY QueueFrame DEF JobsStarted
<1> QED  BY <1>2, <1>5, <1>6 DEF Safe

\* A step that creates rows: run r of a request, and possibly its sub-run.
LEMMA Creating ==
    ASSUME IInv, NEW r \in Roots, run[r].status = "None", w' = w,
           \A q \in Runs \ {r, ChildOf[r]} : run'[q] = run[q],
           run'[r].status # "None",
           \/ run'[ChildOf[r]] = run[ChildOf[r]]
           \/ /\ run[ChildOf[r]].status = "None"
              /\ run'[ChildOf[r]].status # "None",
           \A j \in queue' : j \in queue \/ run'[j.run].status # "None"
    PROVE  Safe'
<1> USE RunTyping
<1>1. \A q \in Runs : run[q].status # "None" => run'[q] = run[q]
  OBVIOUS
<1>2. ASSUME NEW m \in Workers PROVE Consistent(m)'
  <2>1. w[m].run \in Runs /\ w[m].job.run \in Runs
    BY WorkerTyping DEF IInv
  <2>2. Consistent(m)
    BY DEF IInv
  <2>3. w[m].pc # "idle" =>
          /\ run[w[m].run].status \in Working /\ run[w[m].run].status # "None"
          /\ run[w[m].job.run].status # "None"
    BY <2>2 DEF Consistent, Working, Terminal
  <2>4. w[m].pc = "pause" /\ w[m].wait = "child" =>
          run'[ChildOf[w[m].run]].status = "None"
    <3> SUFFICES ASSUME w[m].pc = "pause", w[m].wait = "child"
                 PROVE  run'[ChildOf[w[m].run]].status = "None"
      OBVIOUS
    <3>1. w[m].run \in Roots /\ run[ChildOf[w[m].run]].status = "None"
      BY <2>2 DEF Consistent
    <3>2. w[m].run # r
      BY <2>3
    <3>3. ChildOf[w[m].run] \in Runs \ {r, ChildOf[r]}
      BY <3>1, <3>2, RunsAssumption
    <3> QED  BY <3>1, <3>3
  <2> QED  BY <1>1, <2>1, <2>2, <2>3, <2>4, Bystander DEF IInv
<1>3. JobsStarted'
  <2> SUFFICES ASSUME NEW j \in queue' PROVE run'[j.run].status # "None"
    BY DEF JobsStarted
  <2>1. j \in queue => j.run \in Runs /\ run[j.run].status # "None"
    BY JobTyping DEF IInv, TypeOK, JobsStarted
  <2> QED  BY <1>1, <2>1
<1>4. OneExecutor'
  BY DEF OneExecutor, IInv
<1> QED  BY <1>2, <1>3, <1>4 DEF Safe

LEMMA CreateSafe ==
    ASSUME IInv, NEW r \in Roots,
           \/ StartRun(r) \/ RunInline(r) \/ RunInlineNested(r)
           \/ \E old \in Runs : RetryRun(old, r)
    PROVE  Safe'
<1> USE RunTyping, JobTyping
<1>0. run \in [Runs -> Row]
  BY DEF IInv, TypeOK
<1>1. ASSUME Enqueue(r), w' = w PROVE Safe'
  <2>1. run'[r].status # "None" /\ \A q \in Runs \ {r} : run'[q] = run[q]
    BY <1>0, <1>1 DEF Enqueue, Row
  <2>2. \A j \in queue' : j \in queue \/ run'[j.run].status # "None"
    BY <1>1, <2>1 DEF Enqueue
  <2> QED  BY <1>1, <2>1, <2>2, Creating DEF Enqueue
<1>2. CASE RunInline(r)
  <2>1. PICK o \in Finished \cup Aborted \cup Paused(ApprovalSteps) :
          run' = [run EXCEPT ![r] =
                    IF o.status = "Waiting" THEN WaitingRow(o.at, FALSE)
                    ELSE [@ EXCEPT !.status = o.status]]
    BY <1>2 DEF RunInline
  <2>2. o.status # "None"
    BY DEF Finished, Aborted, Paused
  <2>3. run'[r].status # "None"
    BY <1>0, <2>1, <2>2 DEF WaitingRow, Row
  <2>4. \A q \in Runs \ {r} : run'[q] = run[q]
    BY <1>0, <2>1
  <2> QED  BY <1>2, <2>3, <2>4, Creating DEF RunInline
<1>3. CASE RunInlineNested(r)
  <2>1. PICK o \in Paused(NestedSteps), sub \in Paused(ApprovalSteps) :
          run' = Suspended(r, o.at, sub)
    BY <1>3 DEF RunInlineNested
  <2>2. /\ run'[r].status # "None"
        /\ run'[ChildOf[r]].status # "None"
        /\ \A q \in Runs \ {r, ChildOf[r]} : run'[q] = run[q]
    BY <1>0, <2>1 DEF Suspended, WaitingRow
  <2> QED  BY <1>3, <2>2, Creating DEF RunInlineNested
<1> QED  BY <1>1, <1>2, <1>3 DEF StartRun, RetryRun

\* Changes of one row that every worker tolerates.
LEMMA StatusAdvances ==
    ASSUME run \in [Runs -> Row], NEW r \in Runs, run[r].status # "None",
           NEW s \in Working, run' = [run EXCEPT ![r].status = s]
    PROVE  RowsAdvance
  BY DEF RowsAdvance, Row

LEMMA InvalidatedAdvances ==
    ASSUME run \in [Runs -> Row], NEW r \in Runs, run[r].status # "None",
           run' = Invalidated(r)
    PROVE  RowsAdvance
  BY StatusAdvances DEF Invalidated, RowsAdvance, Working, Terminal

LEMMA ResumedAdvances ==
    ASSUME run \in [Runs -> Row], NEW r \in Runs, run[r].status # "None",
           run' = Resumed(r)
    PROVE  RowsAdvance
  BY DEF Resumed, RowsAdvance, Working, Row

\* A worker that takes up run r at the head of the loop is consistent.
LEMMA ExecuteConsistent ==
    ASSUME NEW k \in Workers, w \in [Workers -> WorkerState],
           NEW r, NEW first, NEW j,
           w' = [w EXCEPT ![k] = Execute(r, first, j)],
           run'[r].status \in Working, run'[j.run].status # "None"
    PROVE  Consistent(k)'
<1>1. /\ w'[k].pc = "loop" /\ w'[k].run = r
      /\ w'[k].mem = "Running" /\ w'[k].job = j
  BY DEF Execute, IdleWorker
<1> QED  BY <1>1 DEF Consistent, InStep, Memory

LEMMA ClaimSafe ==
    ASSUME IInv, NEW k \in Workers, Claim(k)
    PROVE  Safe'
<1> USE RunTyping, JobTyping
<1>0. /\ run \in [Runs -> Row]
      /\ w \in [Workers -> WorkerState]
      /\ \A j \in queue : j.run \in Runs /\ run[j.run].status # "None"
  BY DEF IInv, TypeOK, JobsStarted
<1>1. CASE ClaimExec(k)
  <2>1. PICK r \in Roots : /\ Take(k, ExecJob(r))
                           /\ Claimable(r)
                           /\ run' = [run EXCEPT ![r].status = "Running"]
                           /\ w' = [w EXCEPT ![k] = Execute(r, 1, ExecJob(r))]
    BY <1>1 DEF ClaimExec
  <2>2. r \in Runs /\ run[r].status = "Queued" /\ queue' \subseteq queue
    BY <2>1 DEF Claimable, Take
  <2>3. RowsAdvance
    BY <1>0, <2>1, <2>2, StatusAdvances DEF Working
  <2>4. run'[r].status = "Running"
    BY <1>0, <2>1, <2>2 DEF Row
  <2>5. Consistent(k)'
    BY <1>0, <2>1, <2>2, <2>4, ExecuteConsistent DEF Working
  <2>6. Execute(r, 1, ExecJob(r)).run = r
    BY DEF Execute, IdleWorker
  <2> QED  BY <2>1, <2>2, <2>3, <2>5, <2>6, Starting
<1>2. CASE ClaimResume(k)
  <2>1. PICK r \in Runs, s \in Steps :
           /\ Take(k, ResumeJob(r, s))
           /\ run[r].status = "Waiting"
           /\ run' = Resumed(r)
           /\ w' = [w EXCEPT ![k] = Execute(r, ResumeAt(r), ResumeJob(r, s))]
    BY <1>2 DEF ClaimResume
  <2>2. queue' \subseteq queue
    BY <2>1 DEF Take
  <2>3. RowsAdvance
    BY <1>0, <2>1, ResumedAdvances
  <2>4. run'[r].status = "Running"
    BY <1>0, <2>1 DEF Resumed, Row
  <2>5. Consistent(k)'
    BY <1>0, <2>1, <2>4, ExecuteConsistent DEF Working
  <2>6. Execute(r, ResumeAt(r), ResumeJob(r, s)).run = r
    BY DEF Execute, IdleWorker
  <2> QED  BY <2>1, <2>2, <2>3, <2>5, <2>6, Starting
<1>3. CASE ClaimInvalid(k)
  <2>1. PICK j \in queue : Take(k, j) /\ run' = Invalidated(j.run)
    BY <1>3 DEF ClaimInvalid
  <2>2. RowsAdvance /\ queue' \subseteq queue
    BY <1>0, <2>1, InvalidatedAdvances DEF Take
  <2> QED  BY <1>3, <2>2, Frame, QueueFrame DEF ClaimInvalid
<1>4. CASE ClaimSkip(k)
  <2>1. RowsAdvance /\ queue' \subseteq queue
    BY <1>4 DEF ClaimSkip, Take, RowsAdvance
  <2> QED  BY <1>4, <2>1, Frame, QueueFrame DEF ClaimSkip
<1> QED  BY <1>1, <1>2, <1>3, <1>4 DEF Claim

\* A step of worker k that leaves the queue alone and keeps k on its run.
LEMMA Working1 ==
    ASSUME IInv, RowsAdvance, queue' = queue, NEW k \in Workers, NEW x,
           w' = [w EXCEPT ![k] = x],
           \/ x.pc = "idle"
           \/ w[k].pc # "idle" /\ x.run = w[k].run /\ Consistent(k)'
    PROVE  Safe'
<1>1. \A m \in Workers : w'[m] = IF m = k THEN x ELSE w[m]
  BY DEF IInv, TypeOK
<1> QED  BY <1>1, Frame, QueueFrame

\* What the invariant says of a worker that executes a run.
LEMMA BusyWorker ==
    ASSUME IInv, NEW k \in Workers, w[k].pc # "idle"
    PROVE  /\ w[k] \in WorkerState /\ w \in [Workers -> WorkerState]
           /\ run \in [Runs -> Row]
           /\ w[k].run \in Runs /\ w[k].job.run \in Runs
           /\ w[k].mem \in Working
           /\ run[w[k].run].status \in Working /\ run[w[k].run].status # "None"
           /\ run[w[k].job.run].status # "None"
<1>1. TypeOK /\ Consistent(k)
  BY DEF IInv
<1> QED  BY <1>1, WorkerTyping DEF TypeOK, Consistent, Working, Memory, Terminal

\* Worker k goes on in memory: the next state is as consistent as the last.
LEMMA Moving ==
    ASSUME IInv, NEW k \in Workers, w[k].pc # "idle", NEW x,
           w' = [w EXCEPT ![k] = x], run' = run, queue' = queue,
           x.run = w[k].run, x.job = w[k].job, x.mem \in Memory,
           x.pc \in InStep => x.step \in Steps,
           x.pc \in {"body", "pause"} => x.view \notin {"NoView", "Cancelled"},
           x.pc = "pause" => x.step \in ApprovalSteps \cup NestedSteps,
           x.pc = "pause" /\ x.wait = "child" =>
               x.run \in Roots /\ run[ChildOf[x.run]].status = "None"
    PROVE  Safe'
<1>1. w'[k] = x
  BY BusyWorker
<1>2. Consistent(k)'
  BY <1>1, BusyWorker DEF Consistent
<1>3. RowsAdvance
  BY DEF RowsAdvance
<1> QED  BY <1>2, <1>3, Working1

\* Worker k goes on after a checkpoint.
LEMMA Saving ==
    ASSUME IInv, NEW k \in Workers, w[k].pc # "idle", NEW x \in WorkerState,
           Checkpoint(k, x), queue' = queue,
           x.run = w[k].run, x.job = w[k].job, x.mem = w[k].mem,
           x.pc \in InStep => x.step \in Steps,
           x.pc \notin {"body", "pause"}
    PROVE  Safe'
<1> USE BusyWorker
<1>0. w[k].mem \in Memory
  BY DEF IInv, Consistent
<1>1. CASE w' = [w EXCEPT ![k] = [x EXCEPT !.mem = "Cancelled"]]
           /\ UNCHANGED <<run, effects>>
  <2> DEFINE y == [x EXCEPT !.mem = "Cancelled"]
  <2>1. /\ y.run = x.run /\ y.job = x.job /\ y.mem = "Cancelled"
        /\ y.pc = x.pc /\ y.step = x.step
    BY DEF WorkerState
  <2> HIDE DEF y
  <2>2. w' = [w EXCEPT ![k] = y]
    BY <1>1 DEF y
  <2>3. run' = run
    BY <1>1
  <2>4. /\ y.run = w[k].run /\ y.job = w[k].job /\ y.mem \in Memory
        /\ y.pc \in InStep => y.step \in Steps
        /\ y.pc \notin {"body", "pause"}
    BY <2>1 DEF Memory
  <2>5. Consistent(k)'
    <3>1. w'[k] = y
      BY <2>2
    <3> QED  BY <2>3, <2>4, <3>1 DEF Consistent
  <2>6. RowsAdvance
    BY <2>3 DEF RowsAdvance
  <2> QED  BY <2>2, <2>4, <2>5, <2>6, Working1
<1>2. CASE /\ run' = [run EXCEPT ![w[k].run].status = w[k].mem]
           /\ w' = [w EXCEPT ![k] = [x EXCEPT !.did = {}, !.view = "NoView"]]
  <2> DEFINE y == [x EXCEPT !.did = {}, !.view = "NoView"]
  <2>1. /\ y.run = x.run /\ y.job = x.job /\ y.mem = x.mem
        /\ y.pc = x.pc /\ y.step = x.step
    BY DEF WorkerState
  <2> HIDE DEF y
  <2>2. w' = [w EXCEPT ![k] = y] /\ w'[k] = y
    BY <1>2 DEF y
  <2>3. RowsAdvance
    BY <1>2, StatusAdvances
  <2>4. run'[w[k].run].status \in Working
    BY <1>2 DEF Row
  <2>5. run'[w[k].job.run].status # "None"
    BY <2>3 DEF RowsAdvance, Working, Terminal
  <2>6. Consistent(k)'
    BY <1>0, <2>1, <2>2, <2>4, <2>5 DEF Consistent
  <2> QED  BY <2>1, <2>2, <2>3, <2>6, Working1
<1> QED  BY <1>1, <1>2 DEF Checkpoint

LEMMA MoveSafe ==
    ASSUME IInv, NEW k \in Workers,
           \/ LoopHead(k) \/ BeginAttempt(k) \/ StepSucceeds(k) \/ StepFails(k)
           \/ StepNeedsApproval(k) \/ SubRunPauses(k) \/ RetryWait(k)
           \/ DecideOutcome(k)
    PROVE  Safe'
<1>0. /\ TypeOK /\ Consistent(k)
      /\ w[k] \in WorkerState /\ Seen(k) \in Status
  BY WorkerTyping, SeenTyping DEF IInv
<1>1. w[k].pc # "idle"
  BY DEF LoopHead, BeginAttempt, StepSucceeds, StepFails, StepNeedsApproval,
         SubRunPauses, RetryWait, DecideOutcome
<1>2. w[k].mem \in Memory
  BY <1>0, <1>1 DEF Consistent
<1>3. Seen(k) # "NoView"
  BY <1>0 DEF Status, Cancellable, Terminal
<1>4. CASE LoopHead(k)
  <2>1. PICK x : /\ w' = [w EXCEPT ![k] = x]
                 /\ \/ x = Goto(k, "final")
                    \/ x = Reading(k, Cancelled(Goto(k, "final")))
                    \/ /\ w[k].step # NSteps + 1
                       /\ x = Reading(k, Goto(k, IF w[k].step \in Enabled
                                                 THEN "begin" ELSE "skip"))
    BY <1>4 DEF LoopHead
  <2>2. /\ x.run = w[k].run /\ x.job = w[k].job /\ x.mem = w[k].mem
        /\ x.step = w[k].step /\ x.pc \notin {"body", "pause"}
        /\ x.pc \in InStep => w[k].step # NSteps + 1
    BY <1>0, <2>1 DEF Goto, Reading, Cancelled, WorkerState, InStep
  <2>3. x.pc \in InStep => x.step \in Steps
    BY <1>0, <2>1, <2>2, PipelineAssumption DEF WorkerState, Steps
  <2> QED  BY <1>1, <1>2, <1>4, <2>1, <2>2, <2>3, Moving DEF LoopHead
<1>5. CASE BeginAttempt(k)
  <2>1. PICK x : /\ w' = [w EXCEPT ![k] = x]
                 /\ \/ x = Reading(k, Cancelled(Goto(k, "abort")))
                    \/ ~SeesCancel(k) /\ x = Reading(k, Goto(k, "body"))
    BY <1>5 DEF BeginAttempt
  <2>2. /\ x.run = w[k].run /\ x.job = w[k].job /\ x.mem = w[k].mem
        /\ x.step = w[k].step /\ x.pc # "pause" /\ x.view = Seen(k)
        /\ x.pc = "body" => ~SeesCancel(k)
    BY <1>0, <2>1 DEF Goto, Reading, Cancelled, WorkerState
  <2>3. w[k].step \in Steps
    BY <1>0, <1>5 DEF BeginAttempt, Consistent, InStep
  <2> QED  BY <1>1, <1>2, <1>3, <1>5, <2>1, <2>2, <2>3, Moving DEF BeginAttempt, SeesCancel
<1>6. CASE StepSucceeds(k) \/ StepFails(k) \/ RetryWait(k)
  <2>1. PICK x :
          /\ w' = [w EXCEPT ![k] = x]
          /\ \/ x = [w[k] EXCEPT !.pc = "record", !.err = FALSE,
                                 !.did = @ \cup {<<w[k].run, w[k].step>>}]
             \/ x = [w[k] EXCEPT !.pc = IF NextAttempt(k) < Attempts(w[k].step)
                                       THEN "wait" ELSE "record",
                                !.err = TRUE]
             \/ x = Reading(k, Cancelled(Goto(k, "abort")))
             \/ x = Reading(k, [Goto(k, "attempt") EXCEPT !.att = NextAttempt(k)])
    BY <1>6 DEF StepSucceeds, StepFails, RetryWait
  <2>0. /\ x.pc \in {"record", "wait", "abort", "attempt"}
        /\ x.run = w[k].run /\ x.job = w[k].job /\ x.mem = w[k].mem
        /\ x.step = w[k].step
    BY <1>0, <2>1 DEF Goto, Reading, Cancelled, WorkerState
  <2>2. w[k].step \in Steps
    BY <1>0, <1>6 DEF StepSucceeds, StepFails, RetryWait, Consistent, InStep
  <2> QED  BY <1>1, <1>2, <1>6, <2>0, <2>1, <2>2, Moving DEF StepSucceeds, StepFails, RetryWait
<1>7. CASE StepNeedsApproval(k) \/ SubRunPauses(k)
  <2>1. PICK x, sub :
          /\ w' = [w EXCEPT ![k] = x]
          /\ \/ x = [w[k] EXCEPT !.pc = "pause", !.wait = "tool"]
             \/ /\ SubRunPauses(k)
                /\ x = [w[k] EXCEPT !.pc = "pause", !.wait = "child", !.sub = sub]
    BY <1>7 DEF StepNeedsApproval, SubRunPauses
  <2>0. /\ x.run = w[k].run /\ x.job = w[k].job /\ x.mem = w[k].mem
        /\ x.step = w[k].step /\ x.view = w[k].view
        /\ x.wait = "child" => SubRunPauses(k)
    BY <1>0, <2>1 DEF WorkerState
  <2>2. /\ w[k].step \in Steps \cap (ApprovalSteps \cup NestedSteps)
        /\ w[k].view \notin {"NoView", "Cancelled"}
    BY <1>0, <1>7 DEF StepNeedsApproval, SubRunPauses, Consistent, InStep
  <2>3. x.wait = "child" => x.run \in Roots /\ run[ChildOf[x.run]].status = "None"
    BY <2>0 DEF SubRunPauses
  <2> QED  BY <1>1, <1>2, <1>7, <2>0, <2>1, <2>2, <2>3, Moving DEF StepNeedsApproval, SubRunPauses
<1>8. CASE DecideOutcome(k)
  <2>1. PICK x, c, m :
          /\ w' = [w EXCEPT ![k] = x]
          /\ x = Reading(k, [w[k] EXCEPT !.pc = "persist", !.cancelled = c, !.mem = m])
          /\ m \in {"Cancelled", "Failed", "Completed"}
    BY <1>8 DEF DecideOutcome
  <2>2. /\ x.pc = "persist" /\ x.run = w[k].run /\ x.job = w[k].job
        /\ x.mem \in {"Cancelled", "Failed", "Completed"}
    BY <1>0, <2>1 DEF Reading, WorkerState
  <2>3. x.mem \in Memory /\ x.pc \notin InStep /\ x.pc \notin {"body", "pause"}
    BY <2>2 DEF Memory, InStep
  <2>4. run' = run /\ queue' = queue
    BY <1>8 DEF DecideOutcome
  <2> QED  BY <1>1, <2>1, <2>2, <2>3, <2>4, Moving
<1> QED  BY <1>4, <1>5, <1>6, <1>7, <1>8

\* Worker k leaves its run r in any state, and possibly creates its sub-run.
LEMMA Leaving ==
    ASSUME IInv, NEW k \in Workers, w[k].pc = "pause",
           Release(k), queue' = queue,
           run'[w[k].run].status # "None",
           \A q \in Runs \ {w[k].run} :
               \/ run'[q] = run[q]
               \/ /\ w[k].wait = "child"
                  /\ q = ChildOf[w[k].run]
                  /\ run'[q].status # "None"
    PROVE  Safe'
<1> DEFINE r == w[k].run
<1> USE RunTyping
<1>0. /\ r \in Runs
      /\ w[k].wait = "child" => r \in Roots /\ run[ChildOf[r]].status = "None"
      /\ w \in [Workers -> WorkerState]
  BY BusyWorker DEF IInv, Consistent
<1>1. \A q \in Runs : run[q].status # "None" =>
        run'[q].status # "None" /\ (q # r => run'[q] = run[q])
  BY <1>0
<1>2. w'[k] = IdleWorker /\ \A m \in Workers \ {k} : w'[m] = w[m]
  BY <1>0 DEF Release
<1>3. ASSUME NEW m \in Workers \ {k} PROVE Consistent(m)'
  <2>1. /\ w[m].run \in Runs /\ w[m].job.run \in Runs
        /\ TypeOK /\ Consistent(m) /\ w'[m] = w[m]
    BY <1>2, WorkerTyping DEF IInv
  <2>2. w[m].pc # "idle" =>
          /\ w[m].run # r
          /\ run[w[m].run].status \in Working /\ run[w[m].run].status # "None"
          /\ run[w[m].job.run].status # "None"
    BY <2>1 DEF IInv, OneExecutor, Consistent, Working, Terminal
  <2>3. w[m].pc = "pause" /\ w[m].wait = "child" =>
          run'[ChildOf[w[m].run]].status = "None"
    <3> SUFFICES ASSUME w[m].pc = "pause", w[m].wait = "child"
                 PROVE  run'[ChildOf[w[m].run]].status = "None"
      OBVIOUS
    <3>1. w[m].run \in Roots /\ run[ChildOf[w[m].run]].status = "None"
      BY <2>1 DEF Consistent
    <3>2. ChildOf[w[m].run] # r
      BY <1>0, <3>1, BusyWorker
    <3>3. w[k].wait = "child" => ChildOf[w[m].run] # ChildOf[r]
      BY <1>0, <2>2, <3>1, RunsAssumption
    <3> QED  BY <3>1, <3>2, <3>3
  <2> QED  BY <1>1, <2>1, <2>2, <2>3, Bystander
<1>4. Consistent(k)'
  BY <1>2 DEF Consistent, IdleWorker, InStep
<1>5. JobsStarted'
  BY <1>1, JobTyping DEF JobsStarted, IInv, TypeOK
<1>6. OneExecutor'
  BY <1>2 DEF OneExecutor, IInv, IdleWorker
<1> QED  BY <1>3, <1>4, <1>5, <1>6 DEF Safe

LEMMA ReleaseSafe ==
    ASSUME IInv, NEW k \in Workers, Release(k), RowsAdvance, queue' = queue
    PROVE  Safe'
<1>1. IdleWorker.pc = "idle"
  BY DEF IdleWorker
<1> QED  BY <1>1, Working1 DEF Release

LEMMA SaveSafe ==
    ASSUME IInv, NEW k \in Workers,
           \/ SkipStep(k) \/ BeginStep(k) \/ AbortStep(k) \/ RecordStep(k)
           \/ Pause(k) \/ PersistOutcome(k) \/ EndJob(k) \/ ResumeParent(k)
           \/ FailParent(k) \/ ConflictAborts(k)
    PROVE  Safe'
<1> USE RunTyping
<1>0. w[k].pc # "idle"
  BY DEF SkipStep, BeginStep, AbortStep, RecordStep, Pause, PersistOutcome,
         EndJob, ResumeParent, FailParent, ConflictAborts
<1>1. /\ TypeOK /\ Consistent(k)
      /\ w[k] \in WorkerState /\ w \in [Workers -> WorkerState]
      /\ run \in [Runs -> Row]
      /\ w[k].run \in Runs /\ w[k].job.run \in Runs
      /\ w[k].mem \in Working
      /\ run[w[k].run].status \in Working /\ run[w[k].run].status # "None"
      /\ run[w[k].job.run].status # "None"
  BY <1>0, BusyWorker DEF IInv
<1>2. CASE SkipStep(k) \/ BeginStep(k) \/ AbortStep(k) \/ RecordStep(k)
  <2>1. PICK x : /\ Checkpoint(k, x)
                 /\ \/ x = NextStep(k, "loop")
                    \/ BeginStep(k) /\ x = Goto(k, "attempt")
                    \/ x = Goto(k, "final")
                    \/ x = [Goto(k, "final") EXCEPT !.failed = TRUE]
    BY <1>2 DEF SkipStep, BeginStep, AbortStep, RecordStep
  <2>2. w[k].pc \in InStep /\ w[k].step \in Steps
    BY <1>1, <1>2 DEF SkipStep, BeginStep, AbortStep, RecordStep, InStep, Consistent
  <2>3. x \in WorkerState
    BY <1>1, <2>1, <2>2, ControlTyping DEF Busy
  <2>4. /\ x.run = w[k].run /\ x.job = w[k].job /\ x.mem = w[k].mem
        /\ x.pc \in {"loop", "attempt", "final"}
        /\ x.pc = "attempt" => x.step = w[k].step
    BY <1>1, <2>1 DEF Goto, NextStep, WorkerState
  <2>5. x.pc \in InStep => x.step \in Steps
    BY <2>2, <2>4 DEF InStep
  <2>6. queue' = queue
    BY <1>2 DEF SkipStep, BeginStep, AbortStep, RecordStep
  <2> QED  BY <1>0, <2>1, <2>3, <2>4, <2>5, <2>6, Saving
<1>3. CASE Pause(k)
  <2>1. CASE run' = [run EXCEPT ![w[k].run] = WaitingRow(w[k].step, FALSE)]
    <3>1. run'[w[k].run].status # "None" /\ \A q \in Runs \ {w[k].run} : run'[q] = run[q]
      BY <1>1, <2>1 DEF WaitingRow
    <3> QED  BY <1>3, <3>1, Leaving DEF Pause
  <2>2. CASE w[k].wait = "child" /\ run' = Suspended(w[k].run, w[k].step, w[k].sub)
    <3>1. /\ run'[w[k].run].status # "None"
          /\ \A q \in Runs \ {w[k].run} :
                run'[q] = run[q] \/ (q = ChildOf[w[k].run] /\ run'[q].status # "None")
      BY <1>1, <2>2 DEF Suspended, WaitingRow
    <3> QED  BY <1>3, <2>2, <3>1, Leaving DEF Pause
  <2> QED  BY <1>3, <2>1, <2>2 DEF Pause
<1>4. CASE PersistOutcome(k)
  <2>1. PICK x :
          /\ w' = [w EXCEPT ![k] = x]
          /\ x.pc = "finish" /\ x.run = w[k].run /\ x.job = w[k].job
          /\ \/ run' = run /\ run[w[k].run].status \in Terminal /\ x.mem = run[w[k].run].status
             \/ run' = [run EXCEPT ![w[k].run].status = w[k].mem] /\ x.mem = w[k].mem
    <3> DEFINE a == [Goto(k, "finish") EXCEPT !.mem = run[w[k].run].status,
                                              !.did = @ \cup Tally(k, FALSE)]
               b == [Goto(k, "finish") EXCEPT !.view = "NoView", !.did = Tally(k, TRUE)]
    <3>1. /\ a.pc = "finish" /\ a.run = w[k].run /\ a.job = w[k].job
          /\ a.mem = run[w[k].run].status
          /\ b.pc = "finish" /\ b.run = w[k].run /\ b.job = w[k].job
          /\ b.mem = w[k].mem
      BY <1>1 DEF Goto, WorkerState
    <3>2. \/ w' = [w EXCEPT ![k] = a] /\ run' = run /\ run[w[k].run].status \in Terminal
          \/ w' = [w EXCEPT ![k] = b] /\ run' = [run EXCEPT ![w[k].run].status = w[k].mem]
      BY <1>4 DEF PersistOutcome
    <3> HIDE DEF a, b
    <3> QED  BY <3>1, <3>2
  <2>2. RowsAdvance
    BY <1>1, <2>1, StatusAdvances DEF RowsAdvance
  <2>3. /\ x.mem \in Memory
        /\ run'[w[k].run].status \in Working
        /\ run'[w[k].job.run].status # "None"
    BY <1>0, <1>1, <2>1, <2>2
    DEF Consistent, Memory, Working, Terminal, RowsAdvance, Row
  <2>4. w'[k] = x
    BY <1>1, <2>1
  <2>5. Consistent(k)'
    BY <2>1, <2>3, <2>4 DEF Consistent, InStep
  <2> QED  BY <1>0, <1>4, <2>1, <2>2, <2>5, Working1 DEF PersistOutcome
<1>5. CASE EndJob(k)
  <2>1. RowsAdvance
    BY <1>5 DEF EndJob, RowsAdvance
  <2> QED  BY <1>5, <2>1, ReleaseSafe DEF EndJob
<1>6. CASE ResumeParent(k)
  <2>1. PICK p \in Roots :
          /\ ParentWaits(k, p)
          /\ run' = Resumed(p)
          /\ w' = [w EXCEPT ![k] = Execute(p, ResumeAt(p), w[k].job)]
    BY <1>6 DEF ResumeParent
  <2>2. p \in Runs /\ run[p].status = "Waiting" /\ queue' = queue
    BY <1>6, <2>1 DEF ParentWaits, ResumeParent
  <2>3. RowsAdvance
    BY <1>1, <2>1, <2>2, ResumedAdvances
  <2>4. run'[p].status = "Running" /\ run'[w[k].job.run].status # "None"
    BY <1>1, <2>1, <2>2, <2>3 DEF Resumed, Row, RowsAdvance, Working, Terminal
  <2>5. Consistent(k)'
    BY <1>1, <2>1, <2>4, ExecuteConsistent DEF Working
  <2>6. Execute(p, ResumeAt(p), w[k].job).run = p
    BY DEF Execute, IdleWorker
  <2> QED  BY <2>1, <2>2, <2>3, <2>5, <2>6, Starting
<1>7. CASE FailParent(k)
  <2>1. PICK p \in Roots : ParentWaits(k, p) /\ run' = Invalidated(p)
    BY <1>7 DEF FailParent
  <2>2. RowsAdvance
    BY <1>1, <2>1, InvalidatedAdvances DEF ParentWaits
  <2> QED  BY <1>7, <2>2, ReleaseSafe DEF FailParent
<1>8. CASE ConflictAborts(k)
  <2>1. RowsAdvance
    BY <1>1, <1>8, InvalidatedAdvances DEF ConflictAborts
  <2> QED  BY <1>8, <2>1, ReleaseSafe DEF ConflictAborts
<1> QED  BY <1>2, <1>3, <1>4, <1>5, <1>6, <1>7, <1>8

LEMMA LossSafe ==
    ASSUME IInv, NEW k \in Workers, UnexpectedError(k) \/ Crash(k) \/ Redeliver(k)
    PROVE  Safe'
<1> USE RunTyping
<1>0. w[k].pc # "idle"
  BY DEF UnexpectedError, Crash, Redeliver, Busy
<1>1. /\ Consistent(k)
      /\ run \in [Runs -> Row] /\ w[k].run \in Runs
      /\ run[w[k].run].status # "None" /\ run[w[k].job.run].status # "None"
  BY <1>0, BusyWorker DEF IInv
<1>2. CASE UnexpectedError(k) /\ run' = run
  <2>1. RowsAdvance
    BY <1>2 DEF RowsAdvance
  <2> QED  BY <1>2, <2>1, ReleaseSafe DEF UnexpectedError
<1>3. CASE UnexpectedError(k) /\ run' = Invalidated(w[k].run)
  <2>1. RowsAdvance
    BY <1>1, <1>3, InvalidatedAdvances
  <2> QED  BY <1>3, <2>1, ReleaseSafe DEF UnexpectedError
<1>4. CASE /\ UnexpectedError(k)
           /\ w[k].pc = "pause" /\ w[k].wait = "child"
           /\ run' = [Invalidated(w[k].run) EXCEPT
                        ![ChildOf[w[k].run]] = WaitingRow(w[k].sub.at, FALSE)]
  <2>1. w[k].run \in Roots
    BY <1>1, <1>4 DEF Consistent
  <2>2. Invalidated(w[k].run) \in [Runs -> Row]
    BY <1>1, InvalidatedTyping
  <2>3. /\ Invalidated(w[k].run)[w[k].run].status # "None"
        /\ \A q \in Runs \ {w[k].run} : Invalidated(w[k].run)[q] = run[q]
    BY <1>1 DEF Invalidated, Row
  <2>4. /\ run'[w[k].run].status # "None"
        /\ \A q \in Runs \ {w[k].run} :
              run'[q] = run[q] \/ (q = ChildOf[w[k].run] /\ run'[q].status # "None")
    BY <1>1, <1>4, <2>1, <2>2, <2>3 DEF WaitingRow
  <2> QED  BY <1>4, <2>4, Leaving DEF UnexpectedError
<1>5. CASE Crash(k)
  <2>1. RowsAdvance
    BY <1>5 DEF Crash, RowsAdvance
  <2> QED  BY <1>5, <2>1, ReleaseSafe DEF Crash
<1>6. CASE Redeliver(k)
  <2>1. RowsAdvance
    BY <1>6 DEF Redeliver, RowsAdvance
  <2>2. \A j \in queue' : run'[j.run].status # "None"
    BY <1>1, <1>6 DEF Redeliver, IInv, JobsStarted
  <2> QED  BY <1>6, <2>1, <2>2, Frame DEF Redeliver
<1> QED  BY <1>2, <1>3, <1>4, <1>5, <1>6 DEF UnexpectedError

LEMMA CancelSafe ==
    ASSUME IInv, NEW r \in Runs, CancelRun(r)
    PROVE  Safe'
<1>1. RowsAdvance
  BY StatusAdvances DEF CancelRun, Cancellable, Working, Terminal, IInv, TypeOK
<1>2. queue' \subseteq queue
  BY DEF CancelRun
<1>3. \A m \in Workers : w'[m] = w[m] \/ w'[m].pc = "idle"
  BY DEF CancelRun, Release, IdleWorker, IInv, TypeOK
<1> QED  BY <1>1, <1>2, <1>3, Frame, QueueFrame

LEMMA RequestSafe ==
    ASSUME IInv, NEW u \in Users,
           \/ OpenRequest(u) \/ Approve(u) \/ ApproveFails(u) \/ Reject(u)
           \/ AbortRequest(u)
    PROVE  Safe'
<1>0. /\ run \in [Runs -> Row]
      /\ \A r \in Runs, s \in Steps : ResumeJob(r, s).run = r
  BY JobTyping DEF IInv, TypeOK
<1>1. CASE OpenRequest(u) \/ ApproveFails(u) \/ AbortRequest(u)
  <2>1. run' = run /\ queue' = queue /\ w' = w
    BY <1>1 DEF OpenRequest, ApproveFails, AbortRequest
  <2>2. RowsAdvance
    BY <2>1 DEF RowsAdvance
  <2> QED  BY <2>1, <2>2, Frame, QueueFrame
<1>2. CASE Approve(u)
  <2>1. RowsAdvance
    BY <1>2 DEF Approve, RowsAdvance
  <2>2. \A j \in queue' : run'[j.run].status # "None"
    BY <1>0, <1>2
    DEF Approve, Requeues, ResumeJob, IInv, JobsStarted
  <2> QED  BY <1>2, <2>1, <2>2, Frame DEF Approve
<1>3. CASE Reject(u)
  <2>1. req[u].run \in Runs
    BY DEF IInv, TypeOK, RequestState
  <2>2. RowsAdvance
    BY <1>0, <1>3, <2>1, InvalidatedAdvances DEF Reject, RowsAdvance
  <2> QED  BY <1>3, <2>2, Frame, QueueFrame DEF Reject
<1> QED  BY <1>1, <1>2, <1>3

LEMMA NamedStep ==
    ASSUME IInv, [Next]_vars, NEW u \in Users
    PROVE  Named(u)'
<1>0. req \in [Users -> RequestState] /\ Named(u)
  BY DEF IInv, TypeOK
<1>1. CASE req' = req
  BY <1>0, <1>1 DEF Named
<1>2. ASSUME NEW v \in Users, OpenRequest(v) PROVE Named(u)'
  BY <1>0, <1>2 DEF OpenRequest, Named
<1>3. ASSUME NEW v \in Users, CloseRequest(v) PROVE Named(u)'
  BY <1>0, <1>3 DEF CloseRequest, NoRequest, Named
<1> QED
  BY ZenonT(30), <1>1, <1>2, <1>3
  DEF Next, vars, StartRun, RunInline, RunInlineNested, RetryRun, Claim, ClaimExec,
      ClaimResume, ClaimInvalid, ClaimSkip, StepOf, LoopHead, SkipStep, BeginStep,
      BeginAttempt, StepSucceeds, StepFails, StepNeedsApproval, SubRunPauses,
      RetryWait, AbortStep, RecordStep, Pause, DecideOutcome, PersistOutcome, EndJob,
      ResumeParent, FailParent, ConflictAborts, UnexpectedError, Crash, Redeliver,
      LoseJob, CancelRun, Approve, ApproveFails, Reject, AbortRequest

LEMMA InitInvariant == Init => IInv
<1> SUFFICES ASSUME Init PROVE IInv
  OBVIOUS
<1>1. TypeOK
  <2>1. [status |-> "None", at |-> 0, kid |-> FALSE] \in Row
    BY NSteps0 DEF Row, Status
  <2>2. NoRequest \in RequestState
    BY RunTyping, NSteps0 DEF NoRequest, RequestState
  <2>3. [s \in 0 .. NSteps |-> 0] \in [0 .. NSteps -> Nat]
    OBVIOUS
  <2> QED  BY <2>1, <2>2, <2>3, IdleTyping, PlatformAssumption
           DEF Init, TypeOK, InvStatus
<1>2. \A k \in Workers : Consistent(k)
  BY DEF Init, IdleWorker, Consistent, InStep
<1>3. (\A u \in Users : Named(u)) /\ JobsStarted /\ OneExecutor
  BY DEF Init, NoRequest, IdleWorker, Named, JobsStarted, OneExecutor
<1> QED  BY <1>1, <1>2, <1>3 DEF IInv

LEMMA InvariantStep ==
    ASSUME IInv, [Next]_vars
    PROVE  IInv'
<1>1. TypeOK'
  BY TypeStep
<1>2. \A u \in Users : Named(u)'
  BY NamedStep
<1>3. Safe'
  <2>1. ASSUME NEW r \in Roots,
               \/ StartRun(r) \/ RunInline(r) \/ RunInlineNested(r)
               \/ \E old \in Runs : RetryRun(old, r)
        PROVE  Safe'
    BY <2>1, CreateSafe
  <2>2. ASSUME NEW k \in Workers, Claim(k) PROVE Safe'
    BY <2>2, ClaimSafe
  <2>3. ASSUME NEW k \in Workers, StepOf(k) PROVE Safe'
    BY <2>3, MoveSafe, SaveSafe DEF StepOf
  <2>4. ASSUME NEW k \in Workers, UnexpectedError(k) \/ Crash(k) \/ Redeliver(k)
        PROVE  Safe'
    BY <2>4, LossSafe
  <2>5. CASE LoseJob
    <3>1. queue' \subseteq queue /\ w' = w /\ RowsAdvance
      BY <2>5 DEF LoseJob, RowsAdvance
    <3> QED  BY <3>1, Frame, QueueFrame
  <2>6. ASSUME NEW r \in Runs, CancelRun(r) PROVE Safe'
    BY <2>6, CancelSafe
  <2>7. ASSUME NEW u \in Users,
               \/ OpenRequest(u) \/ Approve(u) \/ ApproveFails(u) \/ Reject(u)
               \/ AbortRequest(u)
        PROVE  Safe'
    BY <2>7, RequestSafe
  <2>8. CASE UNCHANGED vars
    <3>1. queue' = queue /\ w' = w /\ RowsAdvance
      BY <2>8 DEF vars, RowsAdvance
    <3> QED  BY <3>1, Frame, QueueFrame
  <2> QED  BY <2>1, <2>2, <2>3, <2>4, <2>5, <2>6, <2>7, <2>8 DEF Next
<1> QED  BY <1>1, <1>2, <1>3 DEF IInv, Safe

\* The inductive invariant holds of every reachable state.
THEOREM Invariant == Spec => []IInv
  BY InitInvariant, InvariantStep, PTL DEF Spec

\* Every variable keeps its type, for every pipeline, in every interleaving of
\* workers, people and crashes.
THEOREM TypeCorrect == Spec => []TypeOK
<1>1. IInv => TypeOK
  BY DEF IInv
<1> QED  BY <1>1, Invariant, PTL

\* Two workers never execute the same run: the locked status check of
\* _execute_run and resume_run is enough, with any number of workers, with jobs
\* delivered again, and on either isolation behaviour.
THEOREM OneExecutorAlways == Spec => []OneExecutor
<1>1. IInv => OneExecutor
  BY DEF IInv
<1> QED  BY <1>1, Invariant, PTL

-----------------------------------------------------------------------------
(* Cancellation is final.  A pause saves the run whatever its row holds, so  *)
(* this needs the isolation that fails such a save when the row was          *)
(* cancelled, or a pipeline that never pauses.                               *)

PauseIsGuarded == SnapshotIsolation \/ ApprovalSteps \cup NestedSteps = {}

LEMMA InvalidatedKeeps ==
    ASSUME run \in [Runs -> Row], NEW q \in Runs, NEW r \in Runs,
           run[r].status = "Cancelled"
    PROVE  Invalidated(q)[r].status = "Cancelled"
  BY DEF Invalidated, Terminal

\* The worker that pauses has read the row, and the row still says what it read.
LEMMA PauseKeeps ==
    ASSUME IInv, PauseIsGuarded, NEW k \in Workers, w[k].pc = "pause", ~Conflict(k)
    PROVE  /\ run[w[k].run].status # "Cancelled"
           /\ w[k].wait = "child" => /\ w[k].run \in Roots
                                     /\ run[ChildOf[w[k].run]].status = "None"
<1>1. Consistent(k)
  BY DEF IInv
<1> QED  BY <1>1 DEF Consistent, Conflict, PauseIsGuarded

LEMMA CheckpointKeeps ==
    ASSUME run \in [Runs -> Row], NEW k \in Workers, NEW x, Checkpoint(k, x),
           NEW r \in Runs, run[r].status = "Cancelled"
    PROVE  run'[r].status = "Cancelled"
  BY DEF Checkpoint, Row

LEMMA CancelledStep ==
    ASSUME IInv, PauseIsGuarded, [Next]_vars,
           NEW r \in Runs, run[r].status = "Cancelled"
    PROVE  run'[r].status = "Cancelled"
<1> USE RunTyping
<1>0. run \in [Runs -> Row] /\ TypeOK
  BY DEF IInv, TypeOK
<1>1. ASSUME NEW q \in Roots,
             \/ StartRun(q) \/ RunInline(q) \/ RunInlineNested(q)
             \/ \E old \in Runs : RetryRun(old, q)
      PROVE  run'[r].status = "Cancelled"
  <2>1. Enqueue(q) => run'[r] = run[r]
    BY <1>0 DEF Enqueue
  <2>2. RunInline(q) => run'[r] = run[r]
    BY <1>0 DEF RunInline
  <2>3. RunInlineNested(q) => run'[r] = run[r]
    BY <1>0 DEF RunInlineNested, Suspended
  <2> QED  BY <1>1, <2>1, <2>2, <2>3 DEF StartRun, RetryRun
<1>2. ASSUME NEW k \in Workers, Claim(k) PROVE run'[r].status = "Cancelled"
  <2>1. ClaimExec(k) => run'[r] = run[r]
    BY <1>0 DEF ClaimExec, Claimable
  <2>2. ClaimResume(k) => run'[r] = run[r]
    BY <1>0 DEF ClaimResume, Resumed
  <2>3. ClaimInvalid(k) => run'[r].status = "Cancelled"
    BY <1>0, InvalidatedKeeps, JobTyping DEF ClaimInvalid, TypeOK
  <2> QED  BY <1>2, <2>1, <2>2, <2>3 DEF Claim, ClaimSkip
<1>3. ASSUME NEW k \in Workers,
             SkipStep(k) \/ BeginStep(k) \/ AbortStep(k) \/ RecordStep(k)
      PROVE  run'[r].status = "Cancelled"
  BY <1>0, <1>3, CheckpointKeeps DEF SkipStep, BeginStep, AbortStep, RecordStep
<1>4. ASSUME NEW k \in Workers, Pause(k) PROVE run'[r].status = "Cancelled"
  <2>1. w[k].run # r /\ (w[k].wait = "child" => ChildOf[w[k].run] # r)
    BY <1>4, PauseKeeps DEF Pause
  <2> QED  BY <1>0, <1>4, <2>1 DEF Pause, Suspended
<1>5. ASSUME NEW k \in Workers, PersistOutcome(k)
      PROVE  run'[r].status = "Cancelled"
  <2>1. CASE w[k].run = r
    BY <1>0, <1>5, <2>1 DEF PersistOutcome, Terminal
  <2>2. CASE w[k].run # r
    BY <1>0, <1>5, <2>2 DEF PersistOutcome
  <2> QED  BY <2>1, <2>2
<1>6. ASSUME NEW k \in Workers, ResumeParent(k) \/ FailParent(k)
      PROVE  run'[r].status = "Cancelled"
  <2>1. PICK p \in Roots : ParentWaits(k, p) /\ run' \in {Resumed(p), Invalidated(p)}
    BY <1>6 DEF ResumeParent, FailParent
  <2>2. run[p].status = "Waiting" /\ p \in Runs
    BY <2>1 DEF ParentWaits
  <2>3. Resumed(p)[r].status = "Cancelled"
    BY <1>0, <2>2 DEF Resumed
  <2>4. Invalidated(p)[r].status = "Cancelled"
    BY <1>0, <2>2, InvalidatedKeeps
  <2> QED  BY <2>1, <2>3, <2>4
<1>7. ASSUME NEW k \in Workers, ConflictAborts(k)
      PROVE  run'[r].status = "Cancelled"
  BY <1>0, <1>7, WorkerTyping, InvalidatedKeeps DEF ConflictAborts
<1>8. ASSUME NEW k \in Workers, UnexpectedError(k)
      PROVE  run'[r].status = "Cancelled"
  <2>1. Invalidated(w[k].run)[r].status = "Cancelled"
    BY <1>0, WorkerTyping, InvalidatedKeeps
  <2>2. Invalidated(w[k].run) \in [Runs -> Row]
    BY <1>0, WorkerTyping, InvalidatedTyping
  <2>3. \/ run' \in {run, Invalidated(w[k].run)}
        \/ /\ ~Conflict(k) /\ w[k].pc = "pause" /\ w[k].wait = "child"
           /\ run' = [Invalidated(w[k].run) EXCEPT
                        ![ChildOf[w[k].run]] = WaitingRow(w[k].sub.at, FALSE)]
    BY <1>8 DEF UnexpectedError
  <2>4. CASE run' \in {run, Invalidated(w[k].run)}
    BY <2>1, <2>4
  <2>5. CASE /\ ~Conflict(k) /\ w[k].pc = "pause" /\ w[k].wait = "child"
             /\ run' = [Invalidated(w[k].run) EXCEPT
                          ![ChildOf[w[k].run]] = WaitingRow(w[k].sub.at, FALSE)]
    <3>1. ChildOf[w[k].run] # r
      BY <2>5, PauseKeeps
    <3> QED  BY <2>1, <2>2, <2>5, <3>1
  <2> QED  BY <2>3, <2>4, <2>5
<1>9. ASSUME NEW q \in Runs, CancelRun(q) PROVE run'[r].status = "Cancelled"
  BY <1>0, <1>9 DEF CancelRun, Row
<1>10. ASSUME NEW u \in Users, Reject(u) PROVE run'[r].status = "Cancelled"
  <2>1. req[u].run \in Runs
    BY DEF IInv, TypeOK, RequestState
  <2> QED  BY <1>0, <1>10, <2>1, InvalidatedKeeps DEF Reject
<1>11. CASE run' = run
  BY <1>11
<1> QED
  BY <1>1, <1>2, <1>3, <1>4, <1>5, <1>6, <1>7, <1>8, <1>9, <1>10, <1>11
  DEF Next, vars, StepOf, LoopHead, BeginAttempt, StepSucceeds, StepFails,
      StepNeedsApproval, SubRunPauses, RetryWait, DecideOutcome, EndJob, Crash,
      Redeliver, LoseJob, OpenRequest, Approve, ApproveFails, AbortRequest

\* A cancelled run stays cancelled, whatever its worker, its parent's worker and
\* the answers to its approvals do after the cancellation.
THEOREM CancellationFinal == PauseIsGuarded => (Spec => CancelledIsFinal)
<1> SUFFICES ASSUME PauseIsGuarded PROVE Spec => CancelledIsFinal
  OBVIOUS
<1>1. IInv /\ [Next]_vars =>
        [\A r \in Runs : run[r].status = "Cancelled" =>
            run'[r].status = "Cancelled"]_vars
  BY CancelledStep
<1> QED  BY <1>1, Invariant, PTL DEF Spec, CancelledIsFinal

-----------------------------------------------------------------------------
(* Every step exactly once.  EInv says where a run stands: what its counters *)
(* and its tool invocations hold before, at and after the step it has reached, *)
(* for a run at rest and for one that a worker executes.  The isolation is  *)
(* needed because a worker that pauses saves the run whatever its row holds. *)

\* The steps that a run may not complete without.
Needed == {s \in Enabled : OnError[s] # "Continue"}

\* Every step before s that the pipeline may not fail took effect, and answers
\* are in for every tool before s.
DoneBefore(r, s) ==
    \A t \in Steps : t < s =>
        /\ t \in Needed => effects[r][t] >= 1
        /\ inv[r][t] \in {"None", "Success"}

\* Nothing happened at the steps from s on, nor was the run counted.
FreshFrom(r, s) ==
    /\ effects[r][0] = 0
    /\ \A t \in Steps : t >= s => effects[r][t] = 0 /\ inv[r][t] = "None"

\* Run r waits at its step, for a sub-run or for the answer about a tool.
AtRest(r) ==
    LET s == run[r].at IN
    /\ s \in Steps
    /\ DoneBefore(r, s)
    /\ FreshFrom(r, s + 1)
    /\ run[r].kid => effects[r][s] = 0 /\ inv[r][s] = "None"
    /\ ~run[r].kid => effects[r][s] = IF inv[r][s] = "Success" THEN 1 ELSE 0

\* A pending tool is the last thing that happened to its run, and nobody works
\* on the run.
Unanswered(r) ==
    \A s \in Steps : inv[r][s] = "Pending" =>
        /\ run[r].status \in {"Waiting", "Cancelled", "Failed"}
        /\ \A t \in Steps : t >= s => effects[r][t] = 0
        /\ \A t \in Steps \ {s} : inv[r][t] # "Pending"
        /\ \A k \in Workers : w[k].pc # "idle" => w[k].run # r

\* Where a run stands, by the status of its row.
RunSound(r) ==
    /\ \A t \in 0 .. NSteps : effects[r][t] <= 1
    /\ run[r].status \in {"None", "Queued"} => FreshFrom(r, 1)
    /\ run[r].status = "Waiting" => AtRest(r)
    /\ run[r].status = "Completed" => DoneBefore(r, NSteps + 1)
    /\ Unanswered(r)

\* What a worker has not committed yet.
Uncommitted(k) ==
    /\ w[k].pc = "record" =>
        w[k].did = IF w[k].err THEN {} ELSE {<<w[k].run, w[k].step>>}
    /\ w[k].pc = "finish" => w[k].did \subseteq {<<w[k].run, 0>>}
    /\ w[k].pc \notin {"record", "finish"} => w[k].did = {}

\* Where the worker is in the loop, and what it has read to get there.
Position(k) ==
    /\ w[k].pc \in InStep \cup {"loop"} => w[k].mem = "Running"
    /\ w[k].pc \in {"skip", "begin", "body", "wait", "record", "pause"} =>
        w[k].view \notin {"NoView", "Cancelled"}
    /\ w[k].pc = "abort" => w[k].cancelled /\ w[k].view = "Cancelled"
    /\ w[k].pc = "skip" => w[k].step \notin Enabled
    /\ w[k].pc = "final" /\ ~w[k].cancelled /\ ~w[k].failed => w[k].step = NSteps + 1
    /\ w[k].pc = "persist" /\ w[k].mem = "Completed" => w[k].step = NSteps + 1
    /\ w[k].pc = "pause" /\ w[k].wait = "child" =>
        \E o \in Paused(ApprovalSteps) : w[k].sub = [at |-> o.at, done |-> o.done]

\* What a worker knows of the run it executes.
WorkerSound(k) ==
    w[k].pc # "idle" =>
        /\ DoneBefore(w[k].run, w[k].step)
        /\ FreshFrom(w[k].run, w[k].step)
        /\ Uncommitted(k)
        /\ Position(k)
        /\ w[k].pc # "finish" => run[w[k].run].status # "Completed"

EInv == (\A r \in Runs : RunSound(r)) /\ (\A k \in Workers : WorkerSound(k))


LEMMA PlusAt ==
    ASSUME NEW D, NEW r \in Runs, NEW s \in 0 .. NSteps
    PROVE  Plus(D)[r][s] = IF <<r, s>> \in D THEN effects[r][s] + 1 ELSE effects[r][s]
  BY DEF Plus

\* Committing executions of other runs leaves the counters of a run alone.
LEMMA PlusElsewhere ==
    ASSUME TypeOK, NEW D, NEW r \in Runs, \A s \in 0 .. NSteps : <<r, s>> \notin D
    PROVE  Plus(D)[r] = effects[r]
<1>1. effects[r] \in [0 .. NSteps -> Nat]
  BY DEF TypeOK
<1>2. Plus(D)[r] = [s \in 0 .. NSteps |-> effects[r][s]]
  BY DEF Plus
<1> QED  BY <1>1, <1>2

LEMMA StepsRange == \A t \in Steps : t \in 0 .. NSteps /\ t # 0 /\ t \in Nat
  BY PipelineAssumption DEF Steps

LEMMA Counters ==
    ASSUME TypeOK, NEW r \in Runs, NEW s \in 0 .. NSteps
    PROVE  effects[r][s] \in Nat
<1>1. effects[r] \in [0 .. NSteps -> Nat]
  BY DEF TypeOK
<1> QED  BY <1>1

\* A run that nothing touched, and that nobody started to work on.
LEMMA RunFrame ==
    ASSUME NEW r \in Runs, RunSound(r),
           run'[r] = run[r], effects'[r] = effects[r], inv'[r] = inv[r],
           \A m \in Workers : w'[m].pc # "idle" /\ w'[m].run = r =>
               w[m].pc # "idle" /\ w[m].run = r
    PROVE  RunSound(r)'
  BY DEF RunSound, AtRest, DoneBefore, FreshFrom, Unanswered

\* A run that was stopped.
LEMMA StoppedFrame ==
    ASSUME NEW r \in Runs, RunSound(r),
           run'[r].status \in {"Cancelled", "Failed"},
           effects'[r] = effects[r], inv'[r] = inv[r],
           \A m \in Workers : w'[m].pc # "idle" /\ w'[m].run = r =>
               w[m].pc # "idle" /\ w[m].run = r
    PROVE  RunSound(r)'
  BY DEF RunSound, Unanswered

\* A worker that did nothing while its run stayed as it was.
LEMMA WorkerFrame ==
    ASSUME NEW m \in Workers, WorkerSound(m), w'[m] = w[m],
           w[m].pc # "idle" =>
               /\ effects'[w[m].run] = effects[w[m].run] /\ inv'[w[m].run] = inv[w[m].run]
               /\ \/ run'[w[m].run] = run[w[m].run]
                  \/ run'[w[m].run].status # "Completed"
    PROVE  WorkerSound(m)'
  BY DEF WorkerSound, DoneBefore, FreshFrom, Uncommitted, Position

\* A step that touches the runs in D.
LEMMA EffectsFrame ==
    ASSUME EInv, NEW D,
           \A q \in Runs \ D : /\ run'[q] = run[q]
                               /\ effects'[q] = effects[q]
                               /\ inv'[q] = inv[q],
           \A q \in Runs \cap D : RunSound(q)',
           \A m \in Workers :
               \/ /\ w'[m] = w[m]
                  /\ w[m].pc # "idle" =>
                        /\ effects'[w[m].run] = effects[w[m].run]
                        /\ inv'[w[m].run] = inv[w[m].run]
                        /\ \/ run'[w[m].run] = run[w[m].run]
                           \/ run'[w[m].run].status # "Completed"
               \/ w'[m].pc = "idle"
               \/ /\ WorkerSound(m)'
                  /\ \/ w'[m].run \in D
                     \/ w[m].pc # "idle" /\ w'[m].run = w[m].run
    PROVE  EInv'
<1>1. \A m \in Workers : w'[m].pc # "idle" =>
        w'[m].run \in D \/ (w[m].pc # "idle" /\ w'[m].run = w[m].run)
  OBVIOUS
<1>2. ASSUME NEW q \in Runs PROVE RunSound(q)'
  <2>1. CASE q \in D
    BY <2>1
  <2>2. CASE q \notin D
    BY <1>1, <2>2, RunFrame DEF EInv
  <2> QED  BY <2>1, <2>2
<1>3. ASSUME NEW m \in Workers PROVE WorkerSound(m)'
  <2>1. CASE w'[m].pc = "idle"
    BY <2>1 DEF WorkerSound
  <2> QED  BY <2>1, WorkerFrame DEF EInv
<1> QED  BY <1>2, <1>3 DEF EInv

\* A run that a worker executes has no answer outstanding.
LEMMA NothingPending ==
    ASSUME IInv, EInv, NEW k \in Workers, w[k].pc # "idle"
    PROVE  /\ \A s \in Steps : inv[w[k].run][s] # "Pending"
           /\ w[k].run \in Runs
           /\ w[k].step \in 1 .. NSteps + 1
<1>1. w[k].run \in Runs /\ w[k].step \in 1 .. NSteps + 1
  BY BusyWorker DEF WorkerState
<1>2. RunSound(w[k].run)
  BY <1>1 DEF EInv
<1> QED  BY <1>1, <1>2 DEF RunSound, Unanswered

LEMMA EffectsInit == Init => EInv
<1> SUFFICES ASSUME Init PROVE EInv
  OBVIOUS
<1>1. ASSUME NEW r \in Runs PROVE RunSound(r)
  <2>1. /\ run[r].status = "None"
        /\ \A t \in 0 .. NSteps : effects[r][t] = 0
        /\ \A t \in Steps : inv[r][t] = "None"
    BY DEF Init
  <2>2. FreshFrom(r, 1)
    BY <2>1, StepsRange, NSteps0 DEF FreshFrom
  <2>3. Unanswered(r)
    BY <2>1 DEF Unanswered
  <2>4. \A t \in 0 .. NSteps : effects[r][t] <= 1
    BY <2>1
  <2> QED  BY <2>1, <2>2, <2>3, <2>4 DEF RunSound
<1>2. \A k \in Workers : w[k].pc = "idle"
  BY DEF Init, IdleWorker
<1> QED  BY <1>1, <1>2 DEF EInv, WorkerSound

LEMMA EffectsMeaning == IInv /\ EInv => EffectsExactlyOnce
<1> SUFFICES ASSUME IInv, EInv PROVE EffectsExactlyOnce
  OBVIOUS
<1>1. EffectsAtMostOnce
  BY DEF EInv, RunSound, EffectsAtMostOnce
<1>2. ASSUME NEW r \in Runs, run[r].status = "Completed", NEW s \in Enabled
      PROVE  effects[r][s] >= 1 \/ OnError[s] = "Continue"
  <2>1. s \in Steps /\ s < NSteps + 1
    BY PipelineAssumption DEF Steps
  <2>2. DoneBefore(r, NSteps + 1)
    BY <1>2 DEF EInv, RunSound
  <2> QED  BY <2>1, <2>2 DEF DoneBefore, Needed
<1> QED  BY <1>1, <1>2 DEF EffectsExactlyOnce, CompletedDidEverything

\* Worker k goes on in memory, at the same step.
LEMMA MovedWorker ==
    ASSUME IInv, EInv, NEW k \in Workers, w[k].pc # "idle", NEW x,
           w' = [w EXCEPT ![k] = x],
           run' = run, inv' = inv, effects' = effects,
           x.pc # "idle", x.run = w[k].run, x.step = w[k].step,
           w[k].pc # "finish" \/ x.pc = "finish",
           Uncommitted(k)', Position(k)'
    PROVE  EInv'
<1>1. w'[k] = x /\ \A m \in Workers \ {k} : w'[m] = w[m]
  BY BusyWorker
<1>2. WorkerSound(k)'
  BY <1>1 DEF EInv, WorkerSound, DoneBefore, FreshFrom
<1>3. \A m \in Workers \ {k} : w[m].pc # "idle" =>
        effects'[w[m].run] = effects[w[m].run] /\ inv'[w[m].run] = inv[w[m].run]
  OBVIOUS
<1>4. /\ \A q \in Runs \ {} : run'[q] = run[q] /\ effects'[q] = effects[q] /\ inv'[q] = inv[q]
      /\ \A q \in Runs \cap {} : RunSound(q)'
  OBVIOUS
<1>5. \A m \in Workers :
        \/ /\ w'[m] = w[m]
           /\ w[m].pc # "idle" =>
                 /\ effects'[w[m].run] = effects[w[m].run] /\ inv'[w[m].run] = inv[w[m].run]
                 /\ run'[w[m].run] = run[w[m].run]
        \/ WorkerSound(m)' /\ w[m].pc # "idle" /\ w'[m].run = w[m].run
  BY <1>1, <1>2, <1>3
<1> QED  BY <1>4, <1>5, EffectsFrame

LEMMA MoveEffects ==
    ASSUME IInv, EInv, NEW k \in Workers,
           \/ LoopHead(k) \/ BeginAttempt(k) \/ StepSucceeds(k) \/ StepFails(k)
           \/ StepNeedsApproval(k) \/ SubRunPauses(k) \/ RetryWait(k)
           \/ DecideOutcome(k)
    PROVE  EInv'
<1>0. /\ w[k] \in WorkerState /\ w \in [Workers -> WorkerState]
      /\ Seen(k) \in Status /\ Consistent(k) /\ WorkerSound(k)
  BY WorkerTyping, SeenTyping DEF IInv, EInv, TypeOK
<1>1. w[k].pc # "idle" /\ w[k].pc # "finish"
  BY DEF LoopHead, BeginAttempt, StepSucceeds, StepFails, StepNeedsApproval,
         SubRunPauses, RetryWait, DecideOutcome
<1>2. Uncommitted(k) /\ Position(k) /\ Seen(k) # "NoView"
  BY <1>0, <1>1 DEF WorkerSound, Status, Cancellable, Terminal
<1>4. CASE LoopHead(k)
  <2>1. w[k].did = {} /\ w[k].mem = "Running"
    BY <1>2, <1>4 DEF LoopHead, Uncommitted, Position
  <2>2. PICK x : /\ w' = [w EXCEPT ![k] = x]
                 /\ \/ w[k].step = NSteps + 1 /\ x = Goto(k, "final")
                    \/ x = Reading(k, Cancelled(Goto(k, "final")))
                    \/ /\ ~SeesCancel(k)
                       /\ x = Reading(k, Goto(k, IF w[k].step \in Enabled
                                                 THEN "begin" ELSE "skip"))
    BY <1>4 DEF LoopHead
  <2>3. /\ x.run = w[k].run /\ x.step = w[k].step /\ x.did = {} /\ x.mem = "Running"
        /\ \/ x.pc = "final" /\ (x.cancelled \/ x.step = NSteps + 1)
           \/ x.pc = "begin" /\ x.view = Seen(k) /\ ~SeesCancel(k)
           \/ x.pc = "skip" /\ x.view = Seen(k) /\ ~SeesCancel(k) /\ x.step \notin Enabled
    BY ZenonT(30), <1>0, <2>1, <2>2 DEF Goto, Reading, Cancelled, WorkerState
  <2>4. w'[k] = x
    BY <1>0, <2>2
  <2>5. Uncommitted(k)' /\ Position(k)'
    BY <1>2, <2>3, <2>4 DEF Uncommitted, Position, InStep, SeesCancel
  <2> QED  BY <1>1, <1>4, <2>2, <2>3, <2>5, MovedWorker DEF LoopHead
<1>5. CASE BeginAttempt(k) \/ RetryWait(k)
  <2>1. w[k].did = {} /\ w[k].mem = "Running"
    BY <1>2, <1>5 DEF BeginAttempt, RetryWait, Uncommitted, Position, InStep
  <2>2. PICK x :
          /\ w' = [w EXCEPT ![k] = x]
          /\ \/ SeesCancel(k) /\ x = Reading(k, Cancelled(Goto(k, "abort")))
             \/ ~SeesCancel(k) /\ x = Reading(k, Goto(k, "body"))
             \/ x = Reading(k, [Goto(k, "attempt") EXCEPT !.att = NextAttempt(k)])
    BY <1>5 DEF BeginAttempt, RetryWait
  <2>3. /\ x.run = w[k].run /\ x.step = w[k].step /\ x.did = {} /\ x.mem = "Running"
        /\ x.view = Seen(k)
        /\ \/ x.pc = "abort" /\ x.cancelled /\ SeesCancel(k)
           \/ x.pc = "body" /\ ~SeesCancel(k)
           \/ x.pc = "attempt"
    BY ZenonT(30), <1>0, <2>1, <2>2 DEF Goto, Reading, Cancelled, WorkerState
  <2>4. w'[k] = x
    BY <1>0, <2>2
  <2>5. Uncommitted(k)' /\ Position(k)'
    BY <1>2, <2>3, <2>4 DEF Uncommitted, Position, InStep, SeesCancel
  <2> QED  BY <1>1, <1>5, <2>2, <2>3, <2>5, MovedWorker DEF BeginAttempt, RetryWait
<1>6. CASE StepSucceeds(k) \/ StepFails(k)
  <2>1. /\ w[k].did = {} /\ w[k].mem = "Running"
        /\ w[k].view \notin {"NoView", "Cancelled"}
    BY <1>2, <1>6 DEF StepSucceeds, StepFails, Uncommitted, Position, InStep
  <2>2. PICK x :
          /\ w' = [w EXCEPT ![k] = x]
          /\ \/ x = [w[k] EXCEPT !.pc = "record", !.err = FALSE,
                                 !.did = @ \cup {<<w[k].run, w[k].step>>}]
             \/ x = [w[k] EXCEPT !.pc = IF NextAttempt(k) < Attempts(w[k].step)
                                       THEN "wait" ELSE "record",
                                !.err = TRUE]
    BY <1>6 DEF StepSucceeds, StepFails
  <2>3. /\ x.run = w[k].run /\ x.step = w[k].step /\ x.mem = "Running"
        /\ x.view = w[k].view
        /\ \/ x.pc = "record" /\ ~x.err /\ x.did = {<<w[k].run, w[k].step>>}
           \/ x.pc \in {"record", "wait"} /\ x.err /\ x.did = {}
    BY <1>0, <2>1, <2>2 DEF WorkerState
  <2>4. w'[k] = x
    BY <1>0, <2>2
  <2>5. Uncommitted(k)' /\ Position(k)'
    BY <2>1, <2>3, <2>4 DEF Uncommitted, Position, InStep
  <2> QED  BY <1>1, <1>6, <2>2, <2>3, <2>5, MovedWorker DEF StepSucceeds, StepFails
<1>7. CASE StepNeedsApproval(k) \/ SubRunPauses(k)
  <2>1. /\ w[k].did = {} /\ w[k].mem = "Running"
        /\ w[k].view \notin {"NoView", "Cancelled"}
    BY <1>2, <1>7 DEF StepNeedsApproval, SubRunPauses, Uncommitted, Position, InStep
  <2>2. PICK x :
          /\ w' = [w EXCEPT ![k] = x]
          /\ \/ x = [w[k] EXCEPT !.pc = "pause", !.wait = "tool"]
             \/ \E o \in Paused(ApprovalSteps) :
                  x = [w[k] EXCEPT !.pc = "pause", !.wait = "child",
                                   !.sub = [at |-> o.at, done |-> o.done]]
    BY <1>7 DEF StepNeedsApproval, SubRunPauses
  <2>3. /\ x.run = w[k].run /\ x.step = w[k].step /\ x.mem = "Running"
        /\ x.view = w[k].view /\ x.pc = "pause" /\ x.did = {}
        /\ x.wait = "child" => \E o \in Paused(ApprovalSteps) :
                                 x.sub = [at |-> o.at, done |-> o.done]
    BY <1>0, <2>1, <2>2 DEF WorkerState
  <2>4. w'[k] = x
    BY <1>0, <2>2
  <2>5. Uncommitted(k)' /\ Position(k)'
    BY <2>1, <2>3, <2>4 DEF Uncommitted, Position, InStep
  <2> QED  BY <1>1, <1>7, <2>2, <2>3, <2>5, MovedWorker DEF StepNeedsApproval, SubRunPauses
<1>8. CASE DecideOutcome(k)
  <2> DEFINE c == w[k].cancelled \/ SeesCancel(k)
  <2>1. w[k].did = {} /\ (~w[k].cancelled /\ ~w[k].failed => w[k].step = NSteps + 1)
    BY <1>2, <1>8 DEF DecideOutcome, Uncommitted, Position
  <2>2. PICK x :
          /\ w' = [w EXCEPT ![k] = x]
          /\ x = Reading(k, [w[k] EXCEPT !.pc = "persist", !.cancelled = c,
                    !.mem = IF c THEN "Cancelled"
                            ELSE IF w[k].failed THEN "Failed" ELSE "Completed"])
    BY <1>8 DEF DecideOutcome
  <2>3. /\ x.run = w[k].run /\ x.step = w[k].step /\ x.pc = "persist" /\ x.did = {}
        /\ x.mem = "Completed" => ~c /\ ~w[k].failed
    <3> HIDE DEF c
    <3> QED  BY <1>0, <2>1, <2>2 DEF Reading, WorkerState
  <2>4. w'[k] = x
    BY <1>0, <2>2
  <2>5. Uncommitted(k)' /\ Position(k)'
    BY <2>1, <2>3, <2>4 DEF Uncommitted, Position, InStep
  <2> QED  BY <1>1, <1>8, <2>2, <2>3, <2>5, MovedWorker DEF DecideOutcome
<1> QED  BY <1>4, <1>5, <1>6, <1>7, <1>8

\* What a save of run k commits when a locking read of a changed row fails: a
\* worker that saves has read that the run is not cancelled, except to abort.
LEMMA Committed ==
    ASSUME SnapshotIsolation, IInv, EInv, NEW k \in Workers, NEW x, Checkpoint(k, x),
           w[k].pc \in {"skip", "begin", "record"}
    PROVE  /\ run' = [run EXCEPT ![w[k].run].status = "Running"]
           /\ effects' = Plus(w[k].did)
           /\ w' = [w EXCEPT ![k] = [x EXCEPT !.did = {}, !.view = "NoView"]]
           /\ run[w[k].run].status = w[k].view
           /\ w[k].view # "Cancelled"
<1>1. w[k].view \notin {"NoView", "Cancelled"} /\ w[k].mem = "Running"
  BY DEF EInv, WorkerSound, Position, InStep
<1>2. run[w[k].run].status = w[k].view
  BY <1>1 DEF Checkpoint, Conflict
<1> QED  BY <1>1, <1>2 DEF Checkpoint

LEMMA Dropped ==
    ASSUME SnapshotIsolation, IInv, EInv, NEW k \in Workers, NEW x, Checkpoint(k, x),
           w[k].pc = "abort"
    PROVE  /\ w' = [w EXCEPT ![k] = [x EXCEPT !.mem = "Cancelled"]]
           /\ run' = run /\ effects' = effects
           /\ w[k].cancelled
<1>1. w[k].view = "Cancelled" /\ w[k].mem = "Running" /\ w[k].cancelled
  BY DEF EInv, WorkerSound, Position, InStep
<1>2. run[w[k].run].status = "Cancelled"
  BY <1>1 DEF Checkpoint, Conflict
<1> QED  BY <1>1, <1>2 DEF Checkpoint

LEMMA PlusNone ==
    ASSUME TypeOK
    PROVE  \A r \in Runs : Plus({})[r] = effects[r]
  BY PlusElsewhere

LEMMA Unattended ==
    ASSUME IInv, NEW q \in Runs, run[q].status \notin Working,
           NEW m \in Workers, w[m].pc # "idle"
    PROVE  w[m].run # q
  BY DEF IInv, Consistent

\* A step of worker k that touches its own run, or runs that nobody works on.
LEMMA WorkerStep ==
    ASSUME IInv, EInv, NEW k \in Workers, NEW D,
           \A q \in Runs \ D : /\ run'[q] = run[q]
                               /\ effects'[q] = effects[q]
                               /\ inv'[q] = inv[q],
           \A q \in Runs \cap D :
               /\ RunSound(q)'
               /\ \/ run[q].status \notin Working
                  \/ w[k].pc # "idle" /\ q = w[k].run,
           \A m \in Workers \ {k} : w'[m] = w[m],
           \/ w'[k].pc = "idle"
           \/ /\ WorkerSound(k)'
              /\ w'[k].run \in D \/ (w[k].pc # "idle" /\ w'[k].run = w[k].run)
    PROVE  EInv'
<1>1. ASSUME NEW m \in Workers \ {k}, w[m].pc # "idle"
      PROVE  /\ effects'[w[m].run] = effects[w[m].run] /\ inv'[w[m].run] = inv[w[m].run]
             /\ run'[w[m].run] = run[w[m].run]
  <2>1. w[m].run \in Runs
    BY <1>1, BusyWorker
  <2>2. w[m].run \notin D
    BY <1>1, <2>1, Unattended DEF IInv, OneExecutor
  <2> QED  BY <2>1, <2>2
<1>2. \A m \in Workers :
        \/ /\ w'[m] = w[m]
           /\ w[m].pc # "idle" =>
                 /\ effects'[w[m].run] = effects[w[m].run] /\ inv'[w[m].run] = inv[w[m].run]
                 /\ run'[w[m].run] = run[w[m].run]
        \/ w'[m].pc = "idle"
        \/ /\ WorkerSound(m)'
           /\ w'[m].run \in D \/ (w[m].pc # "idle" /\ w'[m].run = w[m].run)
  BY <1>1
<1> QED  BY <1>2, EffectsFrame

\* What the executions that a worker has not committed do to the counters.
LEMMA OwnCount ==
    ASSUME IInv, EInv, NEW k \in Workers, w[k].pc # "idle"
    PROVE  /\ \A q \in Runs \ {w[k].run} : Plus(w[k].did)[q] = effects[q]
           /\ w[k].did = {} => Plus(w[k].did)[w[k].run] = effects[w[k].run]
           /\ w[k].pc = "record" /\ ~w[k].err =>
               \A t \in 0 .. NSteps :
                   Plus(w[k].did)[w[k].run][t] =
                       IF t = w[k].step THEN 1 ELSE effects[w[k].run][t]
           /\ \A t \in 0 .. NSteps : Plus(w[k].did)[w[k].run][t] <= 1
           /\ \A t \in Steps : Plus(w[k].did)[w[k].run][t] >= effects[w[k].run][t]
<1> DEFINE r == w[k].run
           s == w[k].step
<1>0. /\ TypeOK /\ r \in Runs /\ Consistent(k) /\ WorkerSound(k) /\ RunSound(r)
      /\ w[k].did \subseteq {<<r, s>>, <<r, 0>>}
  BY BusyWorker DEF IInv, EInv, WorkerSound, Uncommitted
<1>1. \A q \in Runs \ {r} : Plus(w[k].did)[q] = effects[q]
  BY <1>0, PlusElsewhere
<1>2. w[k].did = {} => Plus(w[k].did)[r] = effects[r]
  BY <1>0, PlusNone
<1>3. ASSUME w[k].pc = "record", ~w[k].err, NEW t \in 0 .. NSteps
      PROVE  Plus(w[k].did)[r][t] = IF t = s THEN 1 ELSE effects[r][t]
  <2>1. w[k].did = {<<r, s>>} /\ s \in Steps /\ effects[r][s] = 0
    BY <1>0, <1>3, StepsRange DEF WorkerSound, Uncommitted, Consistent, InStep, FreshFrom
  <2>2. Plus(w[k].did)[r][t] = IF <<r, t>> \in w[k].did THEN effects[r][t] + 1 ELSE effects[r][t]
    BY <1>0, PlusAt
  <2> QED  BY <2>1, <2>2
<1>4. ASSUME NEW t \in 0 .. NSteps
      PROVE  /\ Plus(w[k].did)[r][t] <= 1
             /\ Plus(w[k].did)[r][t] >= effects[r][t]
  <2>0. effects[r][t] \in Nat /\ effects[r][t] <= 1
    BY <1>0, Counters DEF RunSound
  <2>1. CASE w[k].pc = "record" /\ ~w[k].err
    <3>1. s \in Steps /\ effects[r][s] = 0
      BY <1>0, <2>1, StepsRange DEF WorkerSound, Consistent, InStep, FreshFrom
    <3> QED  BY <1>3, <2>0, <2>1, <3>1
  <2>2. CASE w[k].pc = "finish"
    <3>1. Plus(w[k].did)[r][t] = IF <<r, t>> \in w[k].did THEN effects[r][t] + 1 ELSE effects[r][t]
      BY <1>0, PlusAt
    <3>2. <<r, t>> \in w[k].did => effects[r][t] = 0
      BY <1>0, <2>2 DEF WorkerSound, Uncommitted, FreshFrom
    <3> QED  BY <2>0, <3>1, <3>2
  <2>3. CASE w[k].did = {}
    BY <1>2, <2>0, <2>3
  <2> QED  BY <1>0, <2>1, <2>2, <2>3 DEF WorkerSound, Uncommitted
<1> HIDE DEF r, s
<1>5. \A t \in Steps : Plus(w[k].did)[r][t] >= effects[r][t]
  BY <1>4, StepsRange
<1> QED  BY <1>1, <1>2, <1>3, <1>4, <1>5 DEF r, s

\* The run of a worker, while it is saved as Running.
LEMMA RunningSound ==
    ASSUME IInv, EInv, NEW k \in Workers, w[k].pc # "idle", NEW r, r = w[k].run,
           run'[r].status = "Running", inv' = inv,
           \A t \in 0 .. NSteps : effects'[r][t] <= 1
    PROVE  RunSound(r)'
<1>1. \A s \in Steps : inv[r][s] # "Pending"
  BY NothingPending
<1> QED  BY <1>1 DEF RunSound, Unanswered

LEMMA SaveEffects ==
    ASSUME SnapshotIsolation, IInv, EInv, NEW k \in Workers,
           SkipStep(k) \/ BeginStep(k) \/ AbortStep(k) \/ RecordStep(k)
    PROVE  EInv'
<1> PICK r, s : r = w[k].run /\ s = w[k].step
  OBVIOUS
<1>0. w[k].pc \in {"skip", "begin", "abort", "record"} /\ w[k].pc # "idle"
  BY DEF SkipStep, BeginStep, AbortStep, RecordStep
<1>1. /\ TypeOK /\ Consistent(k) /\ WorkerSound(k)
      /\ w[k] \in WorkerState /\ w \in [Workers -> WorkerState]
      /\ run \in [Runs -> Row]
      /\ r \in Runs
  BY <1>0, BusyWorker DEF IInv, EInv
<1>2. /\ s \in Steps /\ s \in Nat /\ s + 1 # 0
      /\ Uncommitted(k) /\ Position(k) /\ DoneBefore(r, s) /\ FreshFrom(r, s)
      /\ \A t \in Steps : t \in Nat
      /\ inv[r][s] = "None"
  BY <1>0, <1>1, StepsRange DEF Consistent, InStep, WorkerSound, FreshFrom
<1>3. CASE AbortStep(k)
  <2>1. /\ w' = [w EXCEPT ![k] = [Goto(k, "final") EXCEPT !.mem = "Cancelled"]]
        /\ run' = run /\ effects' = effects /\ inv' = inv /\ w[k].cancelled
    BY <1>3, Dropped DEF AbortStep
  <2> DEFINE x == [Goto(k, "final") EXCEPT !.mem = "Cancelled"]
  <2>2. /\ x.pc = "final" /\ x.run = r /\ x.step = s /\ x.cancelled /\ x.did = {}
    BY <1>1, <1>2, <1>3, <2>1 DEF Goto, WorkerState, Uncommitted, AbortStep
  <2> HIDE DEF x
  <2>3. w' = [w EXCEPT ![k] = x] /\ w'[k] = x
    BY <1>1, <2>1 DEF x
  <2>4. Uncommitted(k)' /\ Position(k)'
    BY <2>2, <2>3 DEF Uncommitted, Position, InStep
  <2> QED  BY <1>0, <2>1, <2>2, <2>3, <2>4, MovedWorker
<1>4. ASSUME NEW x, Checkpoint(k, x), inv' = inv, w[k].pc # "abort",
             x.run = r, x.mem = w[k].mem,
             x.pc \in {"loop", "attempt", "final"},
             x.pc = "final" => x.failed,
             x \in WorkerState,
             \/ /\ x.step = s
                /\ w[k].pc = "record" => w[k].err
             \/ /\ x.step = s + 1
                /\ s \notin Needed \/ (w[k].pc = "record" /\ ~w[k].err)
      PROVE  EInv'
  <2>1. /\ run' = [run EXCEPT ![r].status = "Running"]
        /\ effects' = Plus(w[k].did)
        /\ w' = [w EXCEPT ![k] = [x EXCEPT !.did = {}, !.view = "NoView"]]
    BY <1>0, <1>4, Committed
  <2> DEFINE y == [x EXCEPT !.did = {}, !.view = "NoView"]
  <2>2. /\ y.run = r /\ y.step = x.step /\ y.did = {} /\ y.mem = x.mem
        /\ y.pc = x.pc /\ y.failed = x.failed
    BY <1>4 DEF WorkerState
  <2> HIDE DEF y
  <2>3. w'[k] = y /\ \A m \in Workers \ {k} : w'[m] = w[m]
    BY <1>1, <2>1 DEF y
  <2>4. /\ run'[r].status = "Running"
        /\ \A q \in Runs \ {r} : run'[q] = run[q] /\ effects'[q] = effects[q] /\ inv'[q] = inv[q]
    BY <1>0, <1>1, <1>4, <2>1, OwnCount DEF Row
  <2>5. RunSound(r)'
    BY <1>0, <1>4, <2>1, <2>4, RunningSound, OwnCount
  <2>6. \A t \in Steps :
          effects'[r][t] = IF w[k].pc = "record" /\ ~w[k].err /\ t = s THEN 1 ELSE effects[r][t]
    <3>1. CASE w[k].pc = "record" /\ ~w[k].err
      BY <1>0, <2>1, <3>1, OwnCount, StepsRange
    <3>2. CASE ~(w[k].pc = "record" /\ ~w[k].err)
      <4>1. w[k].did = {}
        BY <1>0, <1>2, <3>2 DEF Uncommitted
      <4> QED  BY <1>0, <2>1, <3>2, <4>1, OwnCount
    <3> QED  BY <3>1, <3>2
  <2>7. effects'[r][0] = 0
    <3>1. CASE w[k].pc = "record" /\ ~w[k].err
      BY <1>0, <1>2, <2>1, <3>1, OwnCount, NSteps0, StepsRange DEF FreshFrom
    <3>2. CASE ~(w[k].pc = "record" /\ ~w[k].err)
      <4>1. w[k].did = {}
        BY <1>0, <1>2, <3>2 DEF Uncommitted
      <4> QED  BY <1>0, <1>2, <2>1, <4>1, OwnCount DEF FreshFrom
    <3> QED  BY <3>1, <3>2
  <2>8. DoneBefore(r, y.step)' /\ FreshFrom(r, y.step)'
    <3>1. CASE x.step = s /\ (w[k].pc = "record" => w[k].err)
      BY <1>2, <1>4, <2>2, <2>6, <2>7, <3>1 DEF DoneBefore, FreshFrom
    <3>2. CASE /\ x.step = s + 1
               /\ s \notin Needed \/ (w[k].pc = "record" /\ ~w[k].err)
      <4>1. \A t \in Steps : t < s + 1 => t < s \/ t = s
        BY <1>2
      <4>2. \A t \in Steps : t >= s + 1 => t >= s /\ t # s
        BY <1>2
      <4>3. s \in Needed => effects'[r][s] >= 1
        BY <1>2, <2>6, <3>2
      <4>4. \A t \in Steps : t # s => effects'[r][t] = effects[r][t]
        BY <2>6
      <4>5. inv' = inv /\ y.step = s + 1
        BY <1>4, <2>2, <3>2
      <4>6. DoneBefore(r, s + 1)'
        BY <1>2, <4>1, <4>3, <4>4, <4>5 DEF DoneBefore
      <4>7. FreshFrom(r, s + 1)'
        BY <1>2, <2>7, <4>2, <4>4, <4>5 DEF FreshFrom
      <4> QED  BY <4>5, <4>6, <4>7
    <3> QED  BY <1>4, <3>1, <3>2
  <2>9. w[k].mem = "Running"
    BY <1>0, <1>2 DEF Position, InStep
  <2>10. Uncommitted(k)' /\ Position(k)'
    BY <1>4, <2>2, <2>3, <2>9 DEF Uncommitted, Position, InStep
  <2>11. WorkerSound(k)'
    BY <2>2, <2>3, <2>4, <2>8, <2>10 DEF WorkerSound
  <2>12. \A q \in Runs \cap {r} : RunSound(q)' /\ w[k].pc # "idle" /\ q = w[k].run
    BY <1>0, <2>5
  <2>13. w'[k].run = w[k].run
    BY <2>2, <2>3
  <2> QED  BY <1>0, <2>3, <2>4, <2>11, <2>12, <2>13, WorkerStep
<1>5. CASE SkipStep(k)
  <2>1. s \notin Needed /\ NextStep(k, "loop") \in WorkerState
    BY <1>1, <1>2, <1>5, ControlTyping DEF SkipStep, Position, Needed, InStep, Busy
  <2>2. /\ NextStep(k, "loop").run = r /\ NextStep(k, "loop").mem = w[k].mem
        /\ NextStep(k, "loop").pc = "loop" /\ NextStep(k, "loop").step = s + 1
    BY <1>1 DEF NextStep, WorkerState
  <2> QED  BY <1>4, <1>5, <2>1, <2>2 DEF SkipStep
<1>6. CASE BeginStep(k)
  <2>1. Goto(k, "attempt") \in WorkerState
    BY <1>1, ControlTyping DEF Busy
  <2>2. /\ Goto(k, "attempt").run = r /\ Goto(k, "attempt").mem = w[k].mem
        /\ Goto(k, "attempt").pc = "attempt" /\ Goto(k, "attempt").step = s
    BY <1>1 DEF Goto, WorkerState
  <2> QED  BY <1>4, <1>6, <2>1, <2>2 DEF BeginStep
<1>7. CASE RecordStep(k)
  <2>1. /\ [Goto(k, "final") EXCEPT !.failed = TRUE] \in WorkerState
        /\ NextStep(k, "loop") \in WorkerState
    BY <1>1, <1>7, ControlTyping DEF RecordStep, Busy, InStep
  <2>2. CASE StopsRun(k)
    <3> DEFINE x == [Goto(k, "final") EXCEPT !.failed = TRUE]
    <3>1. /\ x.run = r /\ x.mem = w[k].mem /\ x.pc = "final" /\ x.step = s
          /\ x.failed /\ w[k].err
      BY <1>1, <2>2 DEF Goto, WorkerState, StopsRun
    <3>2. Checkpoint(k, x) /\ inv' = inv /\ w[k].pc # "abort"
      BY <1>7, <2>2 DEF RecordStep
    <3> HIDE DEF x
    <3>3. x \in WorkerState
      BY <2>1 DEF x
    <3> QED  BY <1>4, <3>1, <3>2, <3>3
  <2>3. CASE ~StopsRun(k)
    <3> DEFINE x == NextStep(k, "loop")
    <3>1. /\ x.run = r /\ x.mem = w[k].mem /\ x.pc = "loop" /\ x.step = s + 1
      BY <1>1 DEF NextStep, WorkerState
    <3>2. Checkpoint(k, x) /\ inv' = inv /\ w[k].pc = "record"
      BY <1>7, <2>3 DEF RecordStep
    <3>3. w[k].err => s \notin Needed
      BY <2>3 DEF StopsRun, Needed
    <3>4. x \in WorkerState
      BY <2>1
    <3> HIDE DEF x
    <3> QED  BY <1>4, <3>1, <3>2, <3>3, <3>4
  <2> QED  BY <2>2, <2>3
<1> QED  BY <1>3, <1>5, <1>6, <1>7

\* A step that executes nothing: runs are stopped and workers let go.
LEMMA QuietEffects ==
    ASSUME IInv, EInv, effects' = effects, inv' = inv,
           \A q \in Runs : run'[q] = run[q] \/ run'[q].status \in {"Cancelled", "Failed"},
           \A m \in Workers : w'[m] = w[m] \/ w'[m].pc = "idle"
    PROVE  EInv'
<1>1. \A m \in Workers : w'[m].pc # "idle" => w[m].pc # "idle" /\ w'[m].run = w[m].run
  OBVIOUS
<1>2. ASSUME NEW q \in Runs PROVE RunSound(q)'
  BY <1>1, RunFrame, StoppedFrame DEF EInv
<1>3. ASSUME NEW m \in Workers PROVE WorkerSound(m)'
  <2>1. CASE w'[m].pc = "idle"
    BY <2>1 DEF WorkerSound
  <2>2. CASE w'[m].pc # "idle"
    <3>1. w'[m] = w[m] /\ w[m].pc # "idle" /\ WorkerSound(m)
      BY <2>2 DEF EInv
    <3>2. w[m].pc # "finish" => run'[w[m].run].status # "Completed"
      <4>1. w[m].run \in Runs
        BY BusyWorker, <3>1
      <4> QED  BY <3>1, <4>1 DEF WorkerSound
    <3>3. DoneBefore(w[m].run, w[m].step)' /\ FreshFrom(w[m].run, w[m].step)'
      BY <3>1 DEF WorkerSound, DoneBefore, FreshFrom
    <3>4. Uncommitted(m)' /\ Position(m)'
      BY <3>1 DEF WorkerSound, Uncommitted, Position
    <3> QED  BY <3>1, <3>2, <3>3, <3>4 DEF WorkerSound
  <2> QED  BY <2>1, <2>2
<1> QED  BY <1>2, <1>3 DEF EInv

\* The run of a worker, when its row still says that it was claimed.
LEMMA WorkedSound ==
    ASSUME IInv, EInv, NEW k \in Workers, w[k].pc # "idle", NEW r, r = w[k].run,
           run'[r].status \in Working, inv'[r] = inv[r],
           \A t \in 0 .. NSteps : effects'[r][t] <= 1,
           run'[r].status = "Completed" => DoneBefore(r, NSteps + 1)'
    PROVE  RunSound(r)'
<1>1. \A s \in Steps : inv[r][s] # "Pending"
  BY NothingPending
<1> QED  BY <1>1 DEF RunSound, Unanswered, Working, Terminal

LEMMA DoneKept ==
    ASSUME TypeOK, NEW r \in Runs, NEW s, DoneBefore(r, s), inv'[r] = inv[r],
           \A t \in Steps : effects'[r][t] \in Nat /\ effects'[r][t] >= effects[r][t]
    PROVE  DoneBefore(r, s)'
<1>1. \A t \in Steps : effects[r][t] \in Nat
  BY Counters, StepsRange
<1> QED  BY <1>1 DEF DoneBefore

\* A waiting run whose answer is in goes on at the next step.
LEMMA ResumedSound ==
    ASSUME TypeOK, NEW p \in Runs, RunSound(p), run[p].status = "Waiting", Answered(p),
           NEW s, s = run[p].at,
           run'[p].status = "Running", inv'[p] = inv[p],
           \A t \in 0 .. NSteps :
               effects'[p][t] = IF run[p].kid /\ t = run[p].at
                                THEN effects[p][t] + 1 ELSE effects[p][t]
    PROVE  /\ RunSound(p)'
           /\ DoneBefore(p, s + 1)'
           /\ FreshFrom(p, s + 1)'
<1>1. /\ s \in Steps /\ DoneBefore(p, s) /\ FreshFrom(p, s + 1)
      /\ run[p].kid => effects[p][s] = 0 /\ inv[p][s] = "None"
      /\ ~run[p].kid => effects[p][s] = 1 /\ inv[p][s] = "Success"
  BY DEF RunSound, AtRest, Answered
<1>2. s \in 0 .. NSteps /\ s # 0 /\ s \in Nat /\ \A t \in Steps : t \in 0 .. NSteps /\ t \in Nat
  BY <1>1, StepsRange
<1>3. /\ effects'[p][s] = 1
      /\ \A t \in 0 .. NSteps : t # s => effects'[p][t] = effects[p][t]
  BY <1>1, <1>2
<1>4. \A t \in Steps : t < s + 1 => t < s \/ t = s
  BY <1>2
<1>5. \A t \in Steps : t >= s + 1 => t # s
  BY <1>2
<1>6. DoneBefore(p, s + 1)'
  BY <1>1, <1>2, <1>3, <1>4 DEF DoneBefore
<1>7. FreshFrom(p, s + 1)'
  BY <1>1, <1>2, <1>3, <1>5, NSteps0 DEF FreshFrom
<1>8. \A t \in 0 .. NSteps : effects'[p][t] <= 1
  BY <1>3 DEF RunSound
<1>9. \A t \in Steps : inv'[p][t] # "Pending"
  <2>1. \A t \in Steps : t < s + 1 \/ t >= s + 1
    BY <1>2
  <2> QED  BY <1>6, <1>7, <2>1 DEF DoneBefore, FreshFrom
<1> QED  BY <1>6, <1>7, <1>8, <1>9 DEF RunSound, Unanswered

\* A run executed inside a transaction up to a step that made it wait.
LEMMA PausedSound ==
    ASSUME TypeOK, NEW c \in Runs, RunSound(c), run[c].status = "None",
           NEW S \in SUBSET Steps, NEW o \in Paused(S),
           run'[c].status = "Waiting", run'[c].at = o.at,
           inv'[c] = IF run'[c].kid THEN inv[c] ELSE [inv[c] EXCEPT ![o.at] = "Pending"],
           \A t \in 0 .. NSteps :
               effects'[c][t] = IF t \in o.done THEN effects[c][t] + 1 ELSE effects[c][t],
           \A m \in Workers : w'[m].pc # "idle" => w'[m].run # c
    PROVE  RunSound(c)'
<1>0. FreshFrom(c, 1)
  BY DEF RunSound
<1>1. PICK s \in S : o \in {[at |-> s, status |-> "Waiting", done |-> d] : d \in Passed(s - 1)}
  BY DEF Paused
<1>2. PICK d \in Passed(s - 1) : o = [at |-> s, status |-> "Waiting", done |-> d]
  BY <1>1
<1>3. /\ s \in Steps /\ s \in Nat /\ s >= 1
      /\ \A t \in Steps : t \in 0 .. NSteps /\ t # 0 /\ t \in Nat /\ t >= 1
  BY StepsRange
<1>4. o.at = s /\ o.done = d
  BY <1>2
<1>5. /\ effects[c][0] = 0
      /\ \A t \in Steps : effects[c][t] = 0 /\ inv[c][t] = "None"
  BY <1>0, <1>3 DEF FreshFrom
<1>6. d \subseteq 1 .. s - 1 /\ \A t \in (Enabled \cap 1 .. s - 1) \ d : OnError[t] = "Continue"
  BY <1>2 DEF Passed
<1>7. \A t \in Needed : t \in Enabled /\ OnError[t] # "Continue"
  BY DEF Needed
<1>8. \A t \in Steps : t < s => t \in 1 .. s - 1
  BY <1>3
<1>9. \A t \in Steps : t >= s => t \notin d
  BY <1>3, <1>6
<1>10. /\ effects'[c][0] = 0
       /\ \A t \in Steps : effects'[c][t] = IF t \in d THEN 1 ELSE 0
  <2>1. 0 \notin d
    BY <1>6
  <2>2. \A t \in 0 .. NSteps : effects'[c][t] = IF t \in d THEN effects[c][t] + 1 ELSE effects[c][t]
    BY <1>4
  <2> QED  BY <1>3, <1>5, <2>1, <2>2, NSteps0
<1>11. inv[c] \in [Steps -> InvStatus]
  BY DEF TypeOK
<1>12. /\ \A t \in Steps : t # s => inv'[c][t] = "None"
       /\ inv'[c][s] = IF run'[c].kid THEN "None" ELSE "Pending"
  BY <1>3, <1>4, <1>5, <1>11
<1>13. DoneBefore(c, s)'
  <2>1. \A t \in Steps : t < s => t # s
    BY <1>3
  <2>2. ASSUME NEW t \in Steps, t < s, t \in Needed PROVE t \in d
    BY <1>6, <1>7, <1>8, <2>2
  <2>3. ASSUME NEW t \in Steps, t < s
        PROVE  /\ t \in Needed => effects'[c][t] >= 1
               /\ inv'[c][t] \in {"None", "Success"}
    BY <1>10, <1>12, <2>1, <2>2, <2>3
  <2> HIDE DEF Needed
  <2> QED  BY <2>3 DEF DoneBefore
<1>14. FreshFrom(c, s + 1)'
  <2>1. ASSUME NEW t \in Steps, t >= s + 1 PROVE t # s /\ t >= s
    <3>1. t \in Nat /\ s \in Nat
      BY <1>3
    <3> QED  BY <2>1, <3>1
  <2> QED  BY <1>9, <1>10, <1>12, <2>1 DEF FreshFrom
<1>15. s >= s
  BY <1>3
<1>16. effects'[c][s] = 0
  BY <1>3, <1>9, <1>10, <1>15
<1>17. AtRest(c)'
  BY <1>3, <1>4, <1>12, <1>13, <1>14, <1>16 DEF AtRest
<1>18. Unanswered(c)'
  BY <1>9, <1>10, <1>12 DEF Unanswered
<1>19. \A t \in 0 .. NSteps : effects'[c][t] <= 1
  <2>1. \A t \in 0 .. NSteps : t = 0 \/ t \in Steps
    BY PipelineAssumption DEF Steps
  <2> QED  BY <1>10, <2>1
<1> QED  BY <1>17, <1>18, <1>19 DEF RunSound

\* What worker k knows when it leaves the step loop or the run.
LEMMA Owner ==
    ASSUME IInv, EInv, NEW k \in Workers, w[k].pc # "idle", NEW r, r = w[k].run
    PROVE  /\ TypeOK /\ r \in Runs /\ Consistent(k) /\ WorkerSound(k) /\ RunSound(r)
           /\ w[k] \in WorkerState /\ w \in [Workers -> WorkerState]
           /\ run \in [Runs -> Row] /\ run[r].status \in Working
           /\ DoneBefore(r, w[k].step) /\ FreshFrom(r, w[k].step)
           /\ Uncommitted(k) /\ Position(k)
           /\ \A t \in Steps : inv[r][t] # "Pending"
           /\ \A m \in Workers \ {k} : w[m].pc # "idle" => w[m].run # r
  BY BusyWorker, NothingPending DEF IInv, EInv, WorkerSound, OneExecutor

LEMMA Released ==
    ASSUME IInv, NEW k \in Workers, Release(k)
    PROVE  w'[k].pc = "idle" /\ \A m \in Workers \ {k} : w'[m] = w[m]
  BY DEF IInv, TypeOK, Release, IdleWorker

\* The outcome of a run is saved, unless the row is terminal already.
LEMMA PersistEffects ==
    ASSUME IInv, EInv, NEW k \in Workers, PersistOutcome(k)
    PROVE  EInv'
<1> PICK r, s : r = w[k].run /\ s = w[k].step
  OBVIOUS
<1>0. w[k].pc = "persist" /\ w[k].pc # "idle" /\ inv' = inv
  BY DEF PersistOutcome
<1>1. /\ TypeOK /\ r \in Runs /\ WorkerSound(k) /\ RunSound(r) /\ Consistent(k)
      /\ w[k] \in WorkerState /\ w \in [Workers -> WorkerState]
      /\ DoneBefore(r, s) /\ FreshFrom(r, s) /\ w[k].did = {}
      /\ w[k].mem = "Completed" => s = NSteps + 1
      /\ run \in [Runs -> Row]
  BY <1>0, Owner DEF Uncommitted, Position
<1>2. \A b \in BOOLEAN : Tally(k, b) \in SUBSET (Runs \X (0 .. NSteps)) /\ Tally(k, b) \subseteq {<<r, 0>>}
  BY <1>1, NSteps0 DEF Tally
<1>3. CASE /\ w' = [w EXCEPT ![k] =
                     [Goto(k, "finish") EXCEPT !.mem = run[r].status,
                                               !.did = @ \cup Tally(k, FALSE)]]
           /\ UNCHANGED <<run, effects>>
  <2> DEFINE x == [Goto(k, "finish") EXCEPT !.mem = run[r].status,
                                            !.did = @ \cup Tally(k, FALSE)]
  <2>1. x.pc = "finish" /\ x.run = r /\ x.step = s /\ x.did = {}
    BY <1>1 DEF Goto, WorkerState, Tally
  <2>2. w' = [w EXCEPT ![k] = x]
    BY <1>3
  <2> HIDE DEF x
  <2>3. Uncommitted(k)' /\ Position(k)'
    BY <1>1, <2>1, <2>2 DEF Uncommitted, Position, InStep
  <2>4. run' = run /\ effects' = effects /\ x.pc # "idle" /\ x.run = w[k].run /\ x.step = w[k].step
    BY <1>3, <2>1
  <2> QED  BY <1>0, <2>1, <2>2, <2>3, <2>4, MovedWorker
<1>4. CASE /\ run' = [run EXCEPT ![r].status = w[k].mem]
           /\ effects' = Plus(w[k].did)
           /\ w' = [w EXCEPT ![k] =
                     [Goto(k, "finish") EXCEPT !.view = "NoView",
                                               !.did = Tally(k, TRUE)]]
  <2> DEFINE x == [Goto(k, "finish") EXCEPT !.view = "NoView", !.did = Tally(k, TRUE)]
  <2>1. x.pc = "finish" /\ x.run = r /\ x.step = s /\ x.did \subseteq {<<r, 0>>}
    BY <1>1, <1>2 DEF Goto, WorkerState
  <2>2. w'[k] = x /\ \A m \in Workers \ {k} : w'[m] = w[m]
    BY <1>1, <1>4
  <2> HIDE DEF x
  <2>3. \A q \in Runs : effects'[q] = effects[q]
    BY <1>1, <1>4, PlusNone
  <2>4. /\ run'[r].status = w[k].mem /\ w[k].mem \in Working
        /\ \A q \in Runs \ {r} : run'[q] = run[q]
    BY <1>0, <1>1, <1>4, BusyWorker DEF Row
  <2>5. RunSound(r)'
    <3>1. w[k].mem = "Completed" => DoneBefore(r, NSteps + 1)'
      BY <1>0, <1>1, <2>3 DEF DoneBefore
    <3>2. \A t \in 0 .. NSteps : effects'[r][t] <= 1
      BY <1>1, <2>3 DEF RunSound
    <3> QED  BY <1>0, <2>4, <3>1, <3>2, WorkedSound
  <2>6. WorkerSound(k)'
    <3>1. DoneBefore(r, s)' /\ FreshFrom(r, s)'
      BY <1>0, <1>1, <2>3 DEF DoneBefore, FreshFrom
    <3>2. Uncommitted(k)' /\ Position(k)'
      BY <2>1, <2>2 DEF Uncommitted, Position, InStep
    <3> QED  BY <2>1, <2>2, <3>1, <3>2 DEF WorkerSound
  <2>7. \A q \in Runs \cap {r} : RunSound(q)' /\ w[k].pc # "idle" /\ q = w[k].run
    BY <1>0, <2>5
  <2>8. \A q \in Runs \ {r} : /\ run'[q] = run[q]
                              /\ effects'[q] = effects[q]
                              /\ inv'[q] = inv[q]
    BY <1>0, <2>3, <2>4
  <2>9. w'[k].run = w[k].run
    BY <2>1, <2>2
  <2> QED  BY <1>0, <2>2, <2>6, <2>7, <2>8, <2>9, WorkerStep
<1> QED  BY <1>3, <1>4 DEF PersistOutcome

\* A worker ends its job with what it has not committed.
LEMMA FinishedOwn ==
    ASSUME IInv, EInv, NEW k \in Workers, w[k].pc = "finish", NEW r, r = w[k].run,
           run'[r] = run[r], inv'[r] = inv[r], effects'[r] = Plus(w[k].did)[r]
    PROVE  RunSound(r)'
<1>1. w[k].pc # "idle"
  OBVIOUS
<1>2. TypeOK /\ r \in Runs /\ RunSound(r) /\ run[r].status \in Working
  BY <1>1, Owner
<1>3. /\ \A t \in 0 .. NSteps : effects'[r][t] <= 1
      /\ \A t \in Steps : effects'[r][t] >= effects[r][t]
  BY <1>1, OwnCount
<1>4. \A t \in Steps : effects'[r][t] \in Nat
  <2>1. Plus(w[k].did)[r] \in [0 .. NSteps -> Nat]
    BY <1>2, PlusTyping DEF TypeOK
  <2> QED  BY <2>1, StepsRange
<1>5. run'[r].status = "Completed" => DoneBefore(r, NSteps + 1)'
  BY <1>2, <1>3, <1>4, DoneKept DEF RunSound
<1> QED  BY <1>1, <1>2, <1>3, <1>5, WorkedSound

LEMMA EndJobEffects ==
    ASSUME IInv, EInv, NEW k \in Workers, EndJob(k)
    PROVE  EInv'
<1> PICK r : r = w[k].run
  OBVIOUS
<1>0. w[k].pc = "finish" /\ w[k].pc # "idle" /\ run' = run /\ inv' = inv /\ effects' = Plus(w[k].did)
  BY DEF EndJob
<1>1. \A q \in Runs \ {r} : effects'[q] = effects[q]
  BY <1>0, OwnCount
<1>2. \A q \in Runs \cap {r} : RunSound(q)' /\ w[k].pc # "idle" /\ q = w[k].run
  BY <1>0, FinishedOwn
<1>3. \A q \in Runs \ {r} : run'[q] = run[q] /\ effects'[q] = effects[q] /\ inv'[q] = inv[q]
  BY <1>0, <1>1
<1>4. w'[k].pc = "idle" /\ \A m \in Workers \ {k} : w'[m] = w[m]
  BY Released DEF EndJob
<1> QED  BY <1>2, <1>3, <1>4, WorkerStep

LEMMA PlusSame ==
    ASSUME NEW D, NEW E, NEW r \in Runs, \A t \in 0 .. NSteps : <<r, t>> \in D <=> <<r, t>> \in E
    PROVE  Plus(D)[r] = Plus(E)[r]
  BY DEF Plus

\* A worker at the head of the loop of a run that it claimed.
LEMMA ExecuteSound ==
    ASSUME NEW k \in Workers, NEW p, NEW s, NEW j, w'[k] = Execute(p, s, j),
           run'[p].status = "Running", DoneBefore(p, s)', FreshFrom(p, s)'
    PROVE  WorkerSound(k)' /\ w'[k].run = p
<1>1. /\ w'[k].pc = "loop" /\ w'[k].run = p /\ w'[k].step = s /\ w'[k].did = {}
      /\ w'[k].mem = "Running"
  BY DEF Execute, IdleWorker
<1>2. Uncommitted(k)' /\ Position(k)'
  BY <1>1 DEF Uncommitted, Position, InStep
<1> QED  BY <1>1, <1>2 DEF WorkerSound

LEMMA ResumedRow ==
    ASSUME TypeOK, NEW p \in Runs
    PROVE  /\ Resumed(p)[p].status = "Running"
           /\ \A q \in Runs \ {p} : Resumed(p)[q] = run[q]
  BY DEF TypeOK, Resumed, Row

LEMMA InvalidatedRow ==
    ASSUME TypeOK, NEW p \in Runs
    PROVE  /\ run[p].status \in Terminal => Invalidated(p) = run
           /\ run[p].status \notin Terminal => Invalidated(p)[p].status = "Failed"
           /\ \A q \in Runs \ {p} : Invalidated(p)[q] = run[q]
           /\ \A q \in Runs : \/ Invalidated(p)[q] = run[q]
                              \/ Invalidated(p)[q].status \in {"Cancelled", "Failed"}
<1>1. run \in [Runs -> Row]
  BY DEF TypeOK
<1> QED  BY <1>1 DEF Invalidated, Row

LEMMA ParentEffects ==
    ASSUME IInv, EInv, NEW k \in Workers, ResumeParent(k) \/ FailParent(k)
    PROVE  EInv'
<1> PICK r : r = w[k].run
  OBVIOUS
<1>0. w[k].pc = "finish" /\ w[k].pc # "idle" /\ inv' = inv
  BY DEF ResumeParent, FailParent
<1>1. /\ TypeOK /\ r \in Runs /\ run[r].status \in Working
      /\ w[k].did \subseteq {<<r, 0>>} /\ w \in [Workers -> WorkerState]
  BY <1>0, Owner DEF Uncommitted
<1>2. CASE ResumeParent(k)
  <2>1. PICK p \in Roots :
          /\ ParentWaits(k, p) /\ Answered(p)
          /\ run' = Resumed(p)
          /\ effects' = Plus(w[k].did \cup {<<p, run[p].at>>})
          /\ w' = [w EXCEPT ![k] = Execute(p, ResumeAt(p), w[k].job)]
    BY <1>2 DEF ResumeParent
  <2>2. p \in Runs /\ run[p].status = "Waiting" /\ run[p].kid /\ p # r
    BY <1>1, <2>1, RunTyping DEF ParentWaits, Working, Terminal
  <2> PICK s : s = run[p].at
    OBVIOUS
  <2>3. /\ run'[p].status = "Running"
        /\ \A q \in Runs \ {p} : run'[q] = run[q]
    BY <1>1, <2>1, <2>2, ResumedRow
  <2>4. \A t \in 0 .. NSteps :
          effects'[p][t] = IF run[p].kid /\ t = s THEN effects[p][t] + 1 ELSE effects[p][t]
    <3>1. \A t \in 0 .. NSteps : <<p, t>> \in w[k].did \cup {<<p, s>>} <=> t = s
      BY <1>1, <2>2
    <3>2. effects' = Plus(w[k].did \cup {<<p, s>>})
      BY <2>1
    <3>3. \A t \in 0 .. NSteps :
            effects'[p][t] = IF <<p, t>> \in w[k].did \cup {<<p, s>>}
                             THEN effects[p][t] + 1 ELSE effects[p][t]
      BY <2>2, <3>2, PlusAt
    <3> QED  BY <2>2, <3>1, <3>3
  <2>5. effects'[r] = Plus(w[k].did)[r]
    <3>1. \A t \in 0 .. NSteps : <<r, t>> \in w[k].did <=> <<r, t>> \in w[k].did \cup {<<p, s>>}
      BY <2>2
    <3>2. effects' = Plus(w[k].did \cup {<<p, s>>})
      BY <2>1
    <3> QED  BY <1>1, <3>1, <3>2, PlusSame
  <2>6. RunSound(p)' /\ DoneBefore(p, s + 1)' /\ FreshFrom(p, s + 1)'
    BY <1>0, <1>1, <2>1, <2>2, <2>3, <2>4, ResumedSound DEF EInv
  <2>7. RunSound(r)'
    BY <1>0, <1>1, <2>2, <2>3, <2>5, FinishedOwn
  <2>8. w'[k] = Execute(p, s + 1, w[k].job) /\ \A m \in Workers \ {k} : w'[m] = w[m]
    BY <1>1, <2>1 DEF ResumeAt
  <2>9. WorkerSound(k)' /\ w'[k].run = p
    BY <2>3, <2>6, <2>8, ExecuteSound
  <2>10. \A q \in Runs \ {p, r} : run'[q] = run[q] /\ effects'[q] = effects[q] /\ inv'[q] = inv[q]
    BY <1>0, <1>1, <2>1, <2>3, PlusElsewhere
  <2>11. \A q \in Runs \cap {p, r} :
           /\ RunSound(q)'
           /\ run[q].status \notin Working \/ (w[k].pc # "idle" /\ q = w[k].run)
    BY <1>0, <2>2, <2>6, <2>7 DEF Working, Terminal
  <2> PICK D : D = {p, r}
    OBVIOUS
  <2>12. w'[k].run \in D
    BY <2>9
  <2> QED  BY <2>8, <2>9, <2>10, <2>11, <2>12, WorkerStep
<1>3. CASE FailParent(k)
  <2>1. PICK p \in Roots : ParentWaits(k, p) /\ run' = Invalidated(p)
    BY <1>3 DEF FailParent
  <2>2. p \in Runs /\ run[p].status = "Waiting" /\ p # r
    BY <1>1, <2>1, RunTyping DEF ParentWaits, Working, Terminal
  <2>3. /\ run'[p].status = "Failed"
        /\ \A q \in Runs \ {p} : run'[q] = run[q]
    BY <1>1, <2>1, <2>2, InvalidatedRow DEF Terminal
  <2>4. effects' = Plus(w[k].did) /\ \A q \in Runs \ {r} : effects'[q] = effects[q]
    BY <1>0, <1>3, OwnCount DEF FailParent
  <2>5. w'[k].pc = "idle" /\ \A m \in Workers \ {k} : w'[m] = w[m]
    BY <1>3, Released DEF FailParent
  <2>6. RunSound(r)'
    BY <1>0, <1>1, <2>2, <2>3, <2>4, FinishedOwn
  <2>7. RunSound(p)'
    <3>1. \A m \in Workers : w'[m].pc # "idle" => w[m].pc # "idle" /\ w'[m].run = w[m].run
      BY <2>5
    <3> QED  BY <1>0, <2>2, <2>3, <2>4, <3>1, StoppedFrame DEF EInv
  <2>8. \A q \in Runs \ {p, r} : run'[q] = run[q] /\ effects'[q] = effects[q] /\ inv'[q] = inv[q]
    BY <1>0, <2>3, <2>4
  <2>9. \A q \in Runs \cap {p, r} :
           /\ RunSound(q)'
           /\ run[q].status \notin Working \/ (w[k].pc # "idle" /\ q = w[k].run)
    BY <1>0, <2>2, <2>6, <2>7 DEF Working, Terminal
  <2> QED  BY <2>5, <2>8, <2>9, WorkerStep
<1> QED  BY <1>2, <1>3

\* A worker whose transaction is rolled back, or that is lost.
LEMMA LossEffects ==
    ASSUME IInv, EInv, NEW k \in Workers,
           ConflictAborts(k) \/ Crash(k) \/ Redeliver(k) \/ LoseJob
    PROVE  EInv'
<1>1. TypeOK /\ w[k].run \in Runs /\ effects' = effects /\ inv' = inv
  BY WorkerTyping DEF IInv, ConflictAborts, Crash, Redeliver, LoseJob
<1>2. run' = run \/ run' = Invalidated(w[k].run)
  BY DEF ConflictAborts, Crash, Redeliver, LoseJob
<1>3. \A q \in Runs : run'[q] = run[q] \/ run'[q].status \in {"Cancelled", "Failed"}
  BY <1>1, <1>2, InvalidatedRow
<1>4. \A m \in Workers : w'[m] = w[m] \/ w'[m].pc = "idle"
  BY Released DEF ConflictAborts, Crash, Redeliver, LoseJob
<1> QED  BY <1>1, <1>3, <1>4, QuietEffects

\* The run of a worker that pauses, with or without saving it as waiting.
LEMMA HeldSound ==
    ASSUME IInv, EInv, NEW k \in Workers, w[k].pc = "pause",
           NEW r, NEW s, r = w[k].run, s = w[k].step, Release(k),
           NEW kid \in BOOLEAN,
           \/ run'[r] = WaitingRow(s, kid)
           \/ run'[r].status \in {"Cancelled", "Failed"},
           inv'[r] = IF kid THEN inv[r] ELSE [inv[r] EXCEPT ![s] = "Pending"],
           effects'[r] = effects[r]
    PROVE  RunSound(r)'
<1>0. w[k].pc # "idle"
  OBVIOUS
<1>1. /\ TypeOK /\ r \in Runs /\ RunSound(r) /\ s \in Steps /\ s \in Nat
      /\ DoneBefore(r, s) /\ FreshFrom(r, s)
      /\ \A m \in Workers \ {k} : w[m].pc # "idle" => w[m].run # r
      /\ \A t \in Steps : inv[r][t] # "Pending"
  BY <1>0, Owner, StepsRange DEF Consistent, InStep
<1>2. inv[r] \in [Steps -> InvStatus] /\ \A t \in Steps : t \in Nat
  BY <1>1, StepsRange DEF TypeOK
<1>3. /\ \A t \in Steps : t # s => inv'[r][t] = inv[r][t]
      /\ inv'[r][s] = IF kid THEN "None" ELSE "Pending"
      /\ inv[r][s] = "None" /\ effects[r][s] = 0
  BY <1>1, <1>2 DEF FreshFrom
<1>4. \A m \in Workers : w'[m].pc # "idle" => w'[m].run # r
  BY <1>1, Released
<1>5. Unanswered(r)'
  <2>1. run'[r].status \in {"Waiting", "Cancelled", "Failed"}
    BY DEF WaitingRow
  <2>2. \A t \in Steps : t # s => inv'[r][t] # "Pending"
    BY <1>1, <1>3
  <2>3. \A t \in Steps : t >= s => effects'[r][t] = 0
    BY <1>1 DEF FreshFrom
  <2> QED  BY <1>4, <2>1, <2>2, <2>3 DEF Unanswered
<1>6. run'[r] = WaitingRow(s, kid) => AtRest(r)'
  <2>1. DoneBefore(r, s)'
    <3>1. \A t \in Steps : t < s => t # s
      BY <1>1, <1>2
    <3> QED  BY <1>1, <1>3, <3>1 DEF DoneBefore
  <2>2. FreshFrom(r, s + 1)'
    <3>1. ASSUME NEW t \in Steps, t >= s + 1 PROVE t # s /\ t >= s
      <4>1. t \in Nat /\ s \in Nat
        BY <1>1, <1>2
      <4> QED  BY <3>1, <4>1
    <3> QED  BY <1>1, <1>3, <3>1 DEF FreshFrom
  <2> QED  BY <1>1, <1>3, <2>1, <2>2 DEF AtRest, WaitingRow
<1>7. \A t \in 0 .. NSteps : effects'[r][t] <= 1
  BY <1>1 DEF RunSound
<1> QED  BY <1>5, <1>6, <1>7 DEF RunSound, WaitingRow

\* The sub-run that a pausing worker commits.
LEMMA SubRunSound ==
    ASSUME IInv, EInv, NEW k \in Workers, w[k].pc = "pause", w[k].wait = "child",
           NEW c, c = ChildOf[w[k].run], Release(k),
           run'[c] = WaitingRow(w[k].sub.at, FALSE),
           inv'[c] = [inv[c] EXCEPT ![w[k].sub.at] = "Pending"],
           effects'[c] = Plus(w[k].did \cup ({c} \X w[k].sub.done))[c]
    PROVE  /\ RunSound(c)'
           /\ c \in Runs /\ c # w[k].run /\ run[c].status = "None"
<1>0. w[k].pc # "idle"
  OBVIOUS
<1>1. /\ TypeOK /\ Consistent(k) /\ Position(k) /\ w[k].did = {}
  BY <1>0, Owner DEF Uncommitted
<1>2. c \in Runs /\ c # w[k].run /\ run[c].status = "None"
  BY <1>1, RunTyping DEF Consistent
<1>3. PICK o \in Paused(ApprovalSteps) : w[k].sub = [at |-> o.at, done |-> o.done]
  BY <1>1 DEF Position
<1>4. \A t \in 0 .. NSteps :
        effects'[c][t] = IF t \in o.done THEN effects[c][t] + 1 ELSE effects[c][t]
  <2> PICK D : D = w[k].did \cup ({c} \X w[k].sub.done)
    OBVIOUS
  <2>1. \A t \in 0 .. NSteps : <<c, t>> \in D <=> t \in o.done
    BY <1>1, <1>3
  <2>2. effects'[c] = Plus(D)[c]
    OBVIOUS
  <2>3. \A t \in 0 .. NSteps :
          effects'[c][t] = IF <<c, t>> \in D THEN effects[c][t] + 1 ELSE effects[c][t]
    BY <1>2, <2>2 DEF Plus
  <2> QED  BY <2>1, <2>3
<1>5. \A m \in Workers : w'[m].pc # "idle" => w'[m].run # c
  BY <1>2, Released, Unattended DEF Working, Terminal
<1>6. /\ run'[c].status = "Waiting" /\ run'[c].at = o.at
      /\ inv'[c] = IF run'[c].kid THEN inv[c] ELSE [inv[c] EXCEPT ![o.at] = "Pending"]
  BY <1>3 DEF WaitingRow
<1>7. ApprovalSteps \in SUBSET Steps
  BY PipelineAssumption
<1>8. RunSound(c)
  BY <1>2 DEF EInv
<1> QED  BY <1>1, <1>2, <1>4, <1>5, <1>6, <1>7, <1>8, PausedSound

LEMMA PauseEffects ==
    ASSUME IInv, EInv, NEW k \in Workers, Pause(k)
    PROVE  EInv'
<1> PICK r, s : r = w[k].run /\ s = w[k].step
  OBVIOUS
<1>0. w[k].pc = "pause" /\ w[k].pc # "idle" /\ Release(k)
  BY DEF Pause
<1>1. /\ TypeOK /\ r \in Runs /\ w[k].did = {} /\ Consistent(k)
      /\ run \in [Runs -> Row] /\ inv \in [Runs -> [Steps -> InvStatus]]
  BY <1>0, Owner DEF Uncommitted, TypeOK
<1>2. w'[k].pc = "idle" /\ \A m \in Workers \ {k} : w'[m] = w[m]
  BY <1>0, Released
<1>3. CASE w[k].wait = "tool"
  <2>1. /\ run' = [run EXCEPT ![r] = WaitingRow(s, FALSE)]
        /\ inv' = [inv EXCEPT ![r][s] = "Pending"]
        /\ effects' = Plus({})
    BY <1>1, <1>3 DEF Pause
  <2>2. /\ run'[r] = WaitingRow(s, FALSE) /\ inv'[r] = [inv[r] EXCEPT ![s] = "Pending"]
        /\ \A q \in Runs : effects'[q] = effects[q]
        /\ \A q \in Runs \ {r} : run'[q] = run[q] /\ inv'[q] = inv[q]
    BY <1>1, <2>1, PlusNone
  <2>3. RunSound(r)'
    <3>1. FALSE \in BOOLEAN
      OBVIOUS
    <3> QED  BY ZenonT(30), <1>0, <1>1, <2>2, <3>1, HeldSound
  <2>4. \A q \in Runs \ {r} : run'[q] = run[q] /\ effects'[q] = effects[q] /\ inv'[q] = inv[q]
    BY <2>2
  <2>5. \A q \in Runs \cap {r} : RunSound(q)' /\ w[k].pc # "idle" /\ q = w[k].run
    BY <1>0, <2>3
  <2> QED  BY <1>2, <2>4, <2>5, WorkerStep
<1>4. CASE w[k].wait = "child"
  <2> PICK c : c = ChildOf[r]
    OBVIOUS
  <2>0. r \in Roots /\ c \in Runs /\ c # r
    BY <1>0, <1>1, <1>4, RunTyping DEF Consistent
  <2>1. /\ run' = [run EXCEPT ![r] = WaitingRow(s, TRUE), ![c] = WaitingRow(w[k].sub.at, FALSE)]
        /\ inv' = [inv EXCEPT ![c][w[k].sub.at] = "Pending"]
        /\ effects' = Plus(w[k].did \cup ({c} \X w[k].sub.done))
    BY <1>1, <1>4 DEF Pause, Suspended
  <2>2. /\ run'[r] = WaitingRow(s, TRUE) /\ run'[c] = WaitingRow(w[k].sub.at, FALSE)
        /\ inv'[c] = [inv[c] EXCEPT ![w[k].sub.at] = "Pending"]
        /\ inv'[r] = inv[r]
        /\ \A q \in Runs \ {r, c} : run'[q] = run[q] /\ inv'[q] = inv[q]
    BY <1>1, <2>0, <2>1
  <2>3. \A q \in Runs \ {c} : effects'[q] = effects[q]
    BY <1>1, <2>1, PlusElsewhere
  <2>4. RunSound(r)'
    <3>1. effects'[r] = effects[r]
      BY <1>1, <2>0, <2>3
    <3> QED  BY ZenonT(30), <1>0, <1>1, <2>2, <3>1, HeldSound
  <2>5. RunSound(c)' /\ run[c].status = "None"
    <3>1. c = ChildOf[w[k].run]
      OBVIOUS
    <3>2. effects'[c] = Plus(w[k].did \cup ({c} \X w[k].sub.done))[c]
      BY <2>1
    <3> QED  BY <1>0, <1>4, <2>2, <3>1, <3>2, SubRunSound
  <2> PICK D : D = {r, c}
    OBVIOUS
  <2>6. \A q \in Runs \ D : run'[q] = run[q] /\ effects'[q] = effects[q] /\ inv'[q] = inv[q]
    BY <2>2, <2>3
  <2>7. \A q \in Runs \cap D :
          RunSound(q)' /\ (run[q].status \notin Working \/ (w[k].pc # "idle" /\ q = w[k].run))
    BY <1>0, <2>4, <2>5 DEF Working, Terminal
  <2> QED  BY <1>2, <2>6, <2>7, WorkerStep
<1> QED  BY <1>3, <1>4 DEF Pause

LEMMA ErrorEffects ==
    ASSUME IInv, EInv, NEW k \in Workers, UnexpectedError(k)
    PROVE  EInv'
<1> PICK r, s : r = w[k].run /\ s = w[k].step
  OBVIOUS
<1>0. w[k].pc # "idle" /\ w[k].pc # "finish" /\ Release(k)
  BY DEF UnexpectedError, Busy
<1>1. /\ TypeOK /\ r \in Runs /\ Consistent(k) /\ run[r].status \in Working
      /\ run \in [Runs -> Row] /\ inv \in [Runs -> [Steps -> InvStatus]]
      /\ run[r].status # "Completed"
      /\ w[k].pc = "pause" => w[k].did = {}
  BY <1>0, Owner DEF Uncommitted, TypeOK, WorkerSound
<1>2. w'[k].pc = "idle" /\ \A m \in Workers \ {k} : w'[m] = w[m]
  BY <1>0, Released
<1>3. /\ Invalidated(r)[r].status \in {"Cancelled", "Failed"}
      /\ \A q \in Runs \ {r} : Invalidated(r)[q] = run[q]
      /\ Invalidated(r) \in [Runs -> Row]
  BY <1>1, InvalidatedRow, InvalidatedTyping DEF Working, Terminal
<1>4. CASE Conflict(k)
  BY <1>0, <1>2, <1>4, QuietEffects DEF UnexpectedError
<1>5. CASE ~Conflict(k) /\ w[k].pc = "pause" /\ w[k].wait = "child"
  <2> PICK c : c = ChildOf[r]
    OBVIOUS
  <2>0. r \in Roots /\ c \in Runs /\ c # r
    BY <1>0, <1>1, <1>5, RunTyping DEF Consistent
  <2>1. /\ run' = [Invalidated(r) EXCEPT ![c] = WaitingRow(w[k].sub.at, FALSE)]
        /\ inv' = [inv EXCEPT ![c][w[k].sub.at] = "Pending"]
        /\ effects' = Plus(w[k].did \cup ({c} \X w[k].sub.done))
    BY <1>5 DEF UnexpectedError
  <2>2. /\ run'[r] = Invalidated(r)[r] /\ run'[c] = WaitingRow(w[k].sub.at, FALSE)
        /\ inv'[c] = [inv[c] EXCEPT ![w[k].sub.at] = "Pending"]
        /\ inv'[r] = inv[r]
        /\ \A q \in Runs \ {r, c} : run'[q] = run[q] /\ inv'[q] = inv[q]
    BY <1>1, <1>3, <2>0, <2>1
  <2>3. \A q \in Runs \ {c} : effects'[q] = effects[q]
    BY <1>1, <1>5, <2>1, PlusElsewhere
  <2>4. RunSound(r)'
    <3>1. effects'[r] = effects[r] /\ run'[r].status \in {"Cancelled", "Failed"}
      BY <1>1, <1>3, <2>0, <2>2, <2>3
    <3> QED  BY <1>0, <1>1, <1>5, <2>2, <3>1, HeldSound
  <2>5. RunSound(c)' /\ run[c].status = "None"
    <3>1. c = ChildOf[w[k].run]
      OBVIOUS
    <3>2. effects'[c] = Plus(w[k].did \cup ({c} \X w[k].sub.done))[c]
      BY <2>1
    <3> QED  BY <1>0, <1>5, <2>2, <3>1, <3>2, SubRunSound
  <2> PICK D : D = {r, c}
    OBVIOUS
  <2>6. \A q \in Runs \ D : run'[q] = run[q] /\ effects'[q] = effects[q] /\ inv'[q] = inv[q]
    BY <2>2, <2>3
  <2>7. \A q \in Runs \cap D :
          RunSound(q)' /\ (run[q].status \notin Working \/ (w[k].pc # "idle" /\ q = w[k].run))
    BY <1>0, <2>4, <2>5 DEF Working, Terminal
  <2> QED  BY <1>2, <2>6, <2>7, WorkerStep
<1>6. CASE ~Conflict(k) /\ ~(w[k].pc = "pause" /\ w[k].wait = "child")
  <2>1. /\ run' = Invalidated(r)
        /\ inv' = IF w[k].pc = "pause" THEN [inv EXCEPT ![r][s] = "Pending"] ELSE inv
        /\ effects' = Plus(w[k].did)
    <3>1. w[k].did \cup {} = w[k].did
      OBVIOUS
    <3> QED  BY <1>6, <3>1 DEF UnexpectedError
  <2>2. /\ run'[r].status \in {"Cancelled", "Failed"}
        /\ \A q \in Runs \ {r} : run'[q] = run[q] /\ inv'[q] = inv[q] /\ effects'[q] = effects[q]
    BY <1>0, <1>1, <1>3, <2>1, OwnCount
  <2>3. RunSound(r)'
    <3>1. CASE w[k].pc = "pause"
      <4>1. inv'[r] = [inv[r] EXCEPT ![s] = "Pending"]
        BY <1>1, <2>1, <3>1
      <4>2. effects'[r] = effects[r]
        BY <1>1, <2>1, <3>1, PlusNone
      <4>3. FALSE \in BOOLEAN
        OBVIOUS
      <4> QED  BY <1>0, <1>1, <2>2, <3>1, <4>1, <4>2, <4>3, HeldSound
    <3>2. CASE w[k].pc # "pause"
      <4>1. inv'[r] = inv[r] /\ \A t \in 0 .. NSteps : effects'[r][t] <= 1
        BY <1>0, <2>1, <3>2, OwnCount
      <4> QED  BY <1>0, <2>2, <4>1, WorkedSound DEF Working, Terminal
    <3> QED  BY <3>1, <3>2
  <2>4. \A q \in Runs \cap {r} : RunSound(q)' /\ w[k].pc # "idle" /\ q = w[k].run
    BY <1>0, <2>3
  <2>5. \A q \in Runs \ {r} : run'[q] = run[q] /\ effects'[q] = effects[q] /\ inv'[q] = inv[q]
    BY <2>2
  <2> QED  BY <1>2, <2>4, <2>5, WorkerStep
<1> QED  BY <1>4, <1>5, <1>6

LEMMA ClaimEffects ==
    ASSUME IInv, EInv, NEW k \in Workers, Claim(k)
    PROVE  EInv'
<1>0. /\ TypeOK /\ w \in [Workers -> WorkerState] /\ run \in [Runs -> Row]
      /\ w[k].pc = "idle" /\ inv' = inv
  BY DEF IInv, TypeOK, Claim, ClaimExec, ClaimResume, ClaimInvalid, ClaimSkip, Take
<1>1. CASE ClaimExec(k)
  <2>1. PICK r \in Roots :
          /\ run[r].status = "Queued" /\ run' = [run EXCEPT ![r].status = "Running"]
          /\ w' = [w EXCEPT ![k] = Execute(r, 1, ExecJob(r))]
    BY <1>1 DEF ClaimExec, Claimable
  <2>2. /\ r \in Runs /\ RunSound(r) /\ FreshFrom(r, 1)
    BY <2>1, RunTyping DEF EInv, RunSound
  <2>3. /\ run'[r].status = "Running" /\ effects' = effects
        /\ \A q \in Runs \ {r} : run'[q] = run[q]
    BY <1>0, <1>1, <2>1, <2>2 DEF ClaimExec, Row
  <2>4. DoneBefore(r, 1)' /\ FreshFrom(r, 1)'
    <3>1. \A t \in Steps : ~(t < 1)
      BY PipelineAssumption DEF Steps
    <3> QED  BY <1>0, <2>2, <2>3, <3>1 DEF DoneBefore, FreshFrom
  <2>5. RunSound(r)'
    <3>1. \A t \in Steps : t >= 1
      BY PipelineAssumption DEF Steps
    <3> QED  BY <1>0, <2>2, <2>3, <3>1 DEF RunSound, Unanswered, FreshFrom
  <2>6. w'[k] = Execute(r, 1, ExecJob(r)) /\ \A m \in Workers \ {k} : w'[m] = w[m]
    BY <1>0, <2>1
  <2>7. WorkerSound(k)' /\ w'[k].run = r
    BY <2>3, <2>4, <2>6, ExecuteSound
  <2>8. \A q \in Runs \ {r} : run'[q] = run[q] /\ effects'[q] = effects[q] /\ inv'[q] = inv[q]
    BY <1>0, <2>3
  <2>9. \A q \in Runs \cap {r} : RunSound(q)' /\ run[q].status \notin Working
    BY <2>1, <2>5 DEF Working, Terminal
  <2> QED  BY <2>6, <2>7, <2>8, <2>9, WorkerStep
<1>2. CASE ClaimResume(k)
  <2>1. PICK p \in Runs, t \in Steps :
          /\ run[p].status = "Waiting" /\ Answered(p)
          /\ run' = Resumed(p)
          /\ effects' = Plus(IF run[p].kid THEN {<<p, run[p].at>>} ELSE {})
          /\ w' = [w EXCEPT ![k] = Execute(p, ResumeAt(p), ResumeJob(p, t))]
    BY <1>2 DEF ClaimResume
  <2> PICK s, D : s = run[p].at /\ D = IF run[p].kid THEN {<<p, s>>} ELSE {}
    OBVIOUS
  <2>2. /\ run'[p].status = "Running"
        /\ \A q \in Runs \ {p} : run'[q] = run[q]
    BY <1>0, <2>1, ResumedRow
  <2>3. effects' = Plus(D)
    BY <2>1
  <2>4. \A x \in 0 .. NSteps :
          effects'[p][x] = IF run[p].kid /\ x = s THEN effects[p][x] + 1 ELSE effects[p][x]
    <3>1. \A x \in 0 .. NSteps : <<p, x>> \in D <=> run[p].kid /\ x = s
      OBVIOUS
    <3>2. \A x \in 0 .. NSteps :
            effects'[p][x] = IF <<p, x>> \in D THEN effects[p][x] + 1 ELSE effects[p][x]
      BY <2>3 DEF Plus
    <3> QED  BY <3>1, <3>2
  <2>5. RunSound(p)' /\ DoneBefore(p, s + 1)' /\ FreshFrom(p, s + 1)'
    BY <1>0, <2>1, <2>2, <2>4, ResumedSound DEF EInv
  <2>6. w'[k] = Execute(p, s + 1, ResumeJob(p, t)) /\ \A m \in Workers \ {k} : w'[m] = w[m]
    BY <1>0, <2>1 DEF ResumeAt
  <2>7. WorkerSound(k)' /\ w'[k].run = p
    BY <2>2, <2>5, <2>6, ExecuteSound
  <2>8. \A q \in Runs \ {p} : run'[q] = run[q] /\ effects'[q] = effects[q] /\ inv'[q] = inv[q]
    <3>1. \A q \in Runs \ {p}, x \in 0 .. NSteps : <<q, x>> \notin D
      OBVIOUS
    <3>2. \A q \in Runs \ {p} : effects'[q] = effects[q]
      BY <1>0, <2>3, <3>1, PlusElsewhere
    <3> QED  BY <1>0, <2>2, <3>2
  <2>9. \A q \in Runs \cap {p} : RunSound(q)' /\ run[q].status \notin Working
    BY <2>1, <2>5 DEF Working, Terminal
  <2> QED  BY <2>6, <2>7, <2>8, <2>9, WorkerStep
<1>3. CASE ClaimInvalid(k) \/ ClaimSkip(k)
  <2>1. \/ run' = run
        \/ \E j \in queue : run' = Invalidated(j.run)
    BY <1>3 DEF ClaimInvalid, ClaimSkip
  <2>2. \A q \in Runs : run'[q] = run[q] \/ run'[q].status \in {"Cancelled", "Failed"}
    BY <1>0, <2>1, InvalidatedRow, JobTyping DEF TypeOK
  <2> QED  BY <1>3, <2>2, QuietEffects DEF ClaimInvalid, ClaimSkip
<1> QED  BY <1>1, <1>2, <1>3 DEF Claim

LEMMA CancelEffects ==
    ASSUME IInv, EInv, NEW r \in Runs, CancelRun(r)
    PROVE  EInv'
<1>1. \A q \in Runs : run'[q] = run[q] \/ run'[q].status \in {"Cancelled", "Failed"}
  BY DEF IInv, TypeOK, CancelRun, Row
<1>2. \A m \in Workers : w'[m] = w[m] \/ w'[m].pc = "idle"
  BY Released DEF CancelRun
<1> QED  BY <1>1, <1>2, QuietEffects DEF CancelRun

\* A step that touches runs nobody works on, and no worker.
LEMMA OutsideStep ==
    ASSUME IInv, EInv, w' = w, NEW D,
           \A q \in Runs \ D : run'[q] = run[q] /\ effects'[q] = effects[q] /\ inv'[q] = inv[q],
           \A q \in Runs \cap D : RunSound(q)',
           \A m \in Workers : w[m].pc # "idle" => w[m].run \notin D
    PROVE  EInv'
<1>1. \A m \in Workers :
        /\ w'[m] = w[m]
        /\ w[m].pc # "idle" =>
              /\ effects'[w[m].run] = effects[w[m].run] /\ inv'[w[m].run] = inv[w[m].run]
              /\ run'[w[m].run] = run[w[m].run]
  BY BusyWorker
<1> QED  BY <1>1, EffectsFrame

\* An answer to a pending tool of run r.
LEMMA AnswerEffects ==
    ASSUME IInv, EInv, w' = w, NEW r \in Runs, NEW s \in Steps, NEW v \in InvStatus \ {"Pending"},
           inv[r][s] = "Pending",
           inv' = [inv EXCEPT ![r][s] = v],
           effects' = IF v = "Success" THEN Plus({<<r, s>>}) ELSE effects,
           \A q \in Runs \ {r} : run'[q] = run[q],
           \/ run'[r] = run[r] /\ v \in {"Success", "Failed"}
           \/ run'[r].status \in {"Cancelled", "Failed"}
    PROVE  EInv'
<1>1. /\ TypeOK /\ RunSound(r) /\ Unanswered(r) /\ s \in 0 .. NSteps /\ s \in Nat /\ s # 0
      /\ \A t \in Steps : t \in 0 .. NSteps /\ t \in Nat
      /\ s >= s
  BY StepsRange DEF IInv, EInv, RunSound
<1>2. /\ run[r].status \in {"Waiting", "Cancelled", "Failed"}
      /\ \A t \in Steps : t >= s => effects[r][t] = 0
      /\ \A t \in Steps \ {s} : inv[r][t] # "Pending"
      /\ \A m \in Workers : w[m].pc # "idle" => w[m].run # r
  BY <1>1 DEF Unanswered
<1>3. effects[r][s] = 0
  BY <1>1, <1>2
<1>4. inv[r] \in [Steps -> InvStatus] /\ inv \in [Runs -> [Steps -> InvStatus]]
  BY <1>1 DEF TypeOK
<1>5. /\ inv'[r][s] = v
      /\ \A t \in Steps : t # s => inv'[r][t] = inv[r][t]
      /\ \A q \in Runs \ {r} : inv'[q] = inv[q]
  BY <1>4
<1>6. /\ \A t \in 0 .. NSteps :
           effects'[r][t] = IF t = s /\ v = "Success" THEN effects[r][t] + 1 ELSE effects[r][t]
      /\ \A q \in Runs \ {r} : effects'[q] = effects[q]
  <2>1. CASE v = "Success"
    <3> PICK D : D = {<<r, s>>}
      OBVIOUS
    <3>1. effects' = Plus(D)
      BY <2>1
    <3>2. \A t \in 0 .. NSteps : <<r, t>> \in D <=> t = s
      OBVIOUS
    <3>3. \A t \in 0 .. NSteps :
            effects'[r][t] = IF <<r, t>> \in D THEN effects[r][t] + 1 ELSE effects[r][t]
      <4>1. \A t \in 0 .. NSteps :
              Plus(D)[r][t] = IF <<r, t>> \in D THEN effects[r][t] + 1 ELSE effects[r][t]
        BY DEF Plus
      <4> QED  BY <3>1, <4>1
    <3>4. \A q \in Runs \ {r}, t \in 0 .. NSteps : <<q, t>> \notin D
      OBVIOUS
    <3> QED  BY <1>1, <2>1, <3>1, <3>2, <3>3, <3>4, PlusElsewhere
  <2>2. CASE v # "Success"
    BY <2>2
  <2> QED  BY <2>1, <2>2
<1>7. /\ effects'[r][s] = IF v = "Success" THEN 1 ELSE 0
      /\ \A t \in 0 .. NSteps : t # s => effects'[r][t] = effects[r][t]
      /\ \A t \in 0 .. NSteps : effects'[r][t] <= 1
  <2>1. effects'[r][s] = IF v = "Success" THEN effects[r][s] + 1 ELSE effects[r][s]
    BY <1>1, <1>6
  <2>2. effects'[r][s] = IF v = "Success" THEN 1 ELSE 0
    BY <1>3, <2>1
  <2>3. \A t \in 0 .. NSteps : t # s => effects'[r][t] = effects[r][t]
    BY <1>6
  <2>4. \A t \in 0 .. NSteps : effects[r][t] <= 1
    BY <1>1 DEF RunSound
  <2>5. \A t \in 0 .. NSteps : effects'[r][t] <= 1
    <3> TAKE t \in 0 .. NSteps
    <3>1. CASE t = s
      BY <2>2, <3>1
    <3>2. CASE t # s
      BY <2>3, <2>4, <3>2
    <3> QED  BY <3>1, <3>2
  <2> QED  BY <2>2, <2>3, <2>5
<1>8. \A t \in Steps : inv'[r][t] # "Pending"
  BY <1>2, <1>5
<1>9. ASSUME run'[r] = run[r], v \in {"Success", "Failed"}, run[r].status = "Waiting"
      PROVE  AtRest(r)'
  <2>1. AtRest(r)
    BY <1>1, <1>9 DEF RunSound
  <2>2. run[r].at = s /\ ~run[r].kid
    <3>1. \A t \in Steps : t < run[r].at => t # s
      BY <2>1 DEF AtRest, DoneBefore
    <3>2. \A t \in Steps : t >= run[r].at + 1 => t # s
      BY <2>1 DEF AtRest, FreshFrom
    <3>3. run[r].at \in Nat
      BY <1>1, <2>1 DEF AtRest
    <3>4. run[r].at = s
      BY <1>1, <3>1, <3>2, <3>3
    <3> QED  BY <2>1, <3>4 DEF AtRest
  <2>3. DoneBefore(r, s) /\ FreshFrom(r, s + 1)
    BY <2>1, <2>2 DEF AtRest
  <2>4. DoneBefore(r, s)'
    <3>1. \A t \in Steps : t < s => t # s
      BY <1>1
    <3> QED  BY <1>1, <1>5, <1>7, <2>3, <3>1 DEF DoneBefore
  <2>5. FreshFrom(r, s + 1)'
    <3>1. ASSUME NEW t \in Steps, t >= s + 1 PROVE t # s
      <4>1. t \in Nat /\ s \in Nat
        BY <1>1
      <4> QED  BY <3>1, <4>1
    <3> QED  BY <1>1, <1>5, <1>7, <2>3, <3>1, NSteps0 DEF FreshFrom
  <2>6. effects'[r][s] = IF inv'[r][s] = "Success" THEN 1 ELSE 0
    BY <1>5, <1>7
  <2> QED  BY <1>9, <2>2, <2>4, <2>5, <2>6 DEF AtRest
<1>10. RunSound(r)'
  BY <1>2, <1>7, <1>8, <1>9 DEF RunSound, Unanswered
<1>11. \A q \in Runs \ {r} : run'[q] = run[q] /\ effects'[q] = effects[q] /\ inv'[q] = inv[q]
  BY <1>5, <1>6
<1>12. \A q \in Runs \cap {r} : RunSound(q)'
  BY <1>10
<1>13. \A m \in Workers : w[m].pc # "idle" => w[m].run \notin {r}
  BY <1>2
<1> QED  BY <1>11, <1>12, <1>13, OutsideStep

LEMMA RequestEffects ==
    ASSUME SnapshotIsolation, IInv, EInv, NEW u \in Users,
           \/ OpenRequest(u) \/ Approve(u) \/ ApproveFails(u) \/ Reject(u)
           \/ AbortRequest(u)
    PROVE  EInv'
<1> PICK r, s : r = req[u].run /\ s = req[u].step
  OBVIOUS
<1>1. TypeOK /\ r \in Runs /\ (req[u].pc = "open" => s \in Steps)
  BY DEF IInv, TypeOK, RequestState, Named
<1>2. CASE OpenRequest(u) \/ AbortRequest(u)
  BY <1>2, QuietEffects DEF OpenRequest, AbortRequest
<1>3. InvLocked(u) => s \in Steps /\ inv[r][s] = "Pending"
  BY <1>1 DEF InvLocked
<1>4. CASE Approve(u)
  <2>1. /\ s \in Steps /\ inv[r][s] = "Pending" /\ run' = run /\ w' = w
        /\ inv' = [inv EXCEPT ![r][s] = "Success"]
        /\ effects' = Plus({<<r, s>>})
    BY <1>3, <1>4 DEF Approve
  <2>2. "Success" \in InvStatus \ {"Pending"}
    BY DEF InvStatus
  <2> QED  BY <1>1, <2>1, <2>2, AnswerEffects
<1>5. CASE ApproveFails(u)
  <2>1. /\ s \in Steps /\ inv[r][s] = "Pending" /\ run' = run /\ w' = w
        /\ inv' = [inv EXCEPT ![r][s] = "Failed"]
        /\ effects' = effects
    BY <1>3, <1>5 DEF ApproveFails
  <2>2. "Failed" \in InvStatus \ {"Pending"}
    BY DEF InvStatus
  <2> QED  BY <1>1, <2>1, <2>2, AnswerEffects
<1>6. CASE Reject(u)
  <2>1. /\ s \in Steps /\ inv[r][s] = "Pending" /\ w' = w
        /\ inv' = [inv EXCEPT ![r][s] = "Rejected"]
        /\ run' = IF run[r].status = "Waiting" THEN Invalidated(r) ELSE run
        /\ effects' = effects
    BY <1>3, <1>6 DEF Reject
  <2>2. "Rejected" \in InvStatus \ {"Pending"}
    BY DEF InvStatus
  <2>3. /\ run'[r].status \in {"Cancelled", "Failed"}
        /\ \A q \in Runs \ {r} : run'[q] = run[q]
    <3>1. run[r].status \in {"Waiting", "Cancelled", "Failed"}
      BY <1>1, <2>1 DEF EInv, RunSound, Unanswered
    <3> QED  BY <1>1, <2>1, <3>1, InvalidatedRow DEF Terminal
  <2> QED  BY <1>1, <2>1, <2>2, <2>3, AnswerEffects
<1> QED  BY <1>2, <1>4, <1>5, <1>6

LEMMA EnqueueEffects ==
    ASSUME IInv, EInv, NEW r \in Roots, Enqueue(r), effects' = effects, inv' = inv, w' = w
    PROVE  EInv'
<1>1. r \in Runs /\ run[r].status = "None" /\ run \in [Runs -> Row]
  BY RunTyping DEF IInv, TypeOK, Enqueue
<1>2. /\ run'[r].status = "Queued"
      /\ \A q \in Runs \ {r} : run'[q] = run[q] /\ effects'[q] = effects[q] /\ inv'[q] = inv[q]
  BY <1>1 DEF Enqueue, Row
<1>3. RunSound(r)'
  <2>1. RunSound(r) /\ FreshFrom(r, 1)
    BY <1>1 DEF EInv, RunSound
  <2>2. \A t \in Steps : t >= 1
    BY PipelineAssumption DEF Steps
  <2> QED  BY <1>2, <2>1, <2>2 DEF RunSound, FreshFrom, Unanswered
<1>4. \A q \in Runs \cap {r} : RunSound(q)'
  BY <1>3
<1>5. \A m \in Workers : w[m].pc # "idle" => w[m].run \notin {r}
  BY <1>1, Unattended DEF Working, Terminal
<1> QED  BY <1>2, <1>4, <1>5, OutsideStep

\* The steps that a run executed inside a transaction may have left out.
LEMMA PassedAll ==
    ASSUME NEW d \in Passed(NSteps)
    PROVE  d \in SUBSET Steps /\ \A t \in Needed : t \in d
<1>1. d \subseteq Enabled \cap 1 .. NSteps /\ \A t \in (Enabled \cap 1 .. NSteps) \ d : OnError[t] = "Continue"
  BY DEF Passed
<1> QED  BY <1>1, PipelineAssumption DEF Needed, Steps

LEMMA InlineEffects ==
    ASSUME IInv, EInv, NEW r \in Roots, RunInline(r)
    PROVE  EInv'
<1>0. PICK o \in Finished \cup Aborted \cup Paused(ApprovalSteps) :
        /\ run' = [run EXCEPT ![r] =
                    IF o.status = "Waiting" THEN WaitingRow(o.at, FALSE)
                    ELSE [@ EXCEPT !.status = o.status]]
        /\ effects' = Plus({<<r, s>> : s \in
                            IF o.status = "Waiting" THEN o.done
                                                    ELSE o.done \cup {0}})
        /\ inv' = IF o.status = "Waiting"
                  THEN [inv EXCEPT ![r][o.at] = "Pending"] ELSE inv
  BY DEF RunInline
<1>1. /\ r \in Runs /\ run[r].status = "None" /\ run \in [Runs -> Row] /\ TypeOK
      /\ w' = w /\ RunSound(r) /\ FreshFrom(r, 1)
      /\ inv \in [Runs -> [Steps -> InvStatus]]
  BY RunTyping DEF IInv, TypeOK, EInv, RunSound, RunInline
<1>2. \A m \in Workers : w[m].pc # "idle" => w[m].run \notin {r}
  BY <1>1, Unattended DEF Working, Terminal
<1> PICK d, D : /\ d = IF o.status = "Waiting" THEN o.done ELSE o.done \cup {0}
                /\ D = {<<r, s>> : s \in d}
  OBVIOUS
<1>3. effects' = Plus(D)
  BY <1>0
<1>4. \A t \in 0 .. NSteps :
        effects'[r][t] = IF t \in d THEN effects[r][t] + 1 ELSE effects[r][t]
  <2>1. \A t \in 0 .. NSteps : <<r, t>> \in D <=> t \in d
    OBVIOUS
  <2>2. \A t \in 0 .. NSteps :
          Plus(D)[r][t] = IF <<r, t>> \in D THEN effects[r][t] + 1 ELSE effects[r][t]
    BY <1>1 DEF Plus
  <2> QED  BY <1>3, <2>1, <2>2
<1>5. \A q \in Runs \ {r} : run'[q] = run[q] /\ effects'[q] = effects[q] /\ inv'[q] = inv[q]
  <2>1. \A q \in Runs \ {r}, t \in 0 .. NSteps : <<q, t>> \notin D
    OBVIOUS
  <2>2. \A q \in Runs \ {r} : effects'[q] = effects[q]
    BY <1>1, <1>3, <2>1, PlusElsewhere
  <2>3. \A q \in Runs \ {r} : run'[q] = run[q]
    BY <1>0, <1>1
  <2>4. \A q \in Runs \ {r} : inv'[q] = inv[q]
    BY <1>0, <1>1
  <2> QED  BY <2>2, <2>3, <2>4
<1>6. /\ effects[r][0] = 0
      /\ \A t \in Steps : effects[r][t] = 0 /\ inv[r][t] = "None"
      /\ \A t \in 0 .. NSteps : t = 0 \/ t \in Steps
  <2>1. \A t \in Steps : t >= 1
    BY PipelineAssumption DEF Steps
  <2>2. \A t \in 0 .. NSteps : t = 0 \/ t \in Steps
    BY PipelineAssumption DEF Steps
  <2> QED  BY <1>1, <2>1, <2>2 DEF FreshFrom
<1>7. \A t \in 0 .. NSteps : effects'[r][t] = IF t \in d THEN 1 ELSE 0
  BY <1>4, <1>6
<1>8. RunSound(r)'
  <2>1. CASE o \in Finished
    <3>1. PICK e \in Passed(NSteps) : o = [at |-> 0, status |-> "Completed", done |-> e]
      BY <2>1 DEF Finished
    <3>2. /\ run'[r].status = "Completed" /\ inv' = inv /\ d = e \cup {0}
      BY <1>0, <1>1, <3>1 DEF Row
    <3>3. DoneBefore(r, NSteps + 1)'
      <4>1. \A t \in Needed : t \in d
        BY <3>2, PassedAll
      <4>2. \A t \in Steps : t \in 0 .. NSteps
        BY StepsRange
      <4> HIDE DEF Needed
      <4> QED  BY <1>6, <1>7, <3>2, <4>1, <4>2 DEF DoneBefore
    <3> QED  BY <1>6, <1>7, <3>2, <3>3 DEF RunSound, Unanswered
  <2>2. CASE o \in Aborted
    <3>1. PICK s \in Enabled : o \in {[at |-> s, status |-> "Failed", done |-> e] : e \in Passed(s - 1)}
      BY <2>2 DEF Aborted
    <3>2. o.status = "Failed"
      BY <3>1
    <3>3. run'[r].status = "Failed" /\ inv' = inv
      BY <1>0, <1>1, <3>2 DEF Row
    <3> QED  BY <1>6, <1>7, <3>3 DEF RunSound, Unanswered
  <2>3. CASE o \in Paused(ApprovalSteps)
    <3>1. o.status = "Waiting"
      BY <2>3 DEF Paused
    <3>2. /\ run'[r].status = "Waiting" /\ run'[r].at = o.at /\ ~run'[r].kid
          /\ inv'[r] = [inv[r] EXCEPT ![o.at] = "Pending"] /\ d = o.done
      BY <1>0, <1>1, <3>1 DEF WaitingRow
    <3>3. inv'[r] = IF run'[r].kid THEN inv[r] ELSE [inv[r] EXCEPT ![o.at] = "Pending"]
      BY <3>2
    <3>4. \A m \in Workers : w'[m].pc # "idle" => w'[m].run # r
      BY <1>1, <1>2
    <3>5. ApprovalSteps \in SUBSET Steps
      BY PipelineAssumption
    <3>6. \A t \in 0 .. NSteps :
            effects'[r][t] = IF t \in o.done THEN effects[r][t] + 1 ELSE effects[r][t]
      BY <1>4, <3>2
    <3> QED  BY <1>1, <2>3, <3>2, <3>3, <3>4, <3>5, <3>6, PausedSound
  <2> QED  BY <2>1, <2>2, <2>3
<1>9. \A q \in Runs \cap {r} : RunSound(q)'
  BY <1>8
<1> QED  BY <1>1, <1>2, <1>5, <1>9, OutsideStep

LEMMA NestedEffects ==
    ASSUME IInv, EInv, NEW r \in Roots, RunInlineNested(r)
    PROVE  EInv'
<1> PICK c : c = ChildOf[r]
  OBVIOUS
<1>0. PICK o \in Paused(NestedSteps), sub \in Paused(ApprovalSteps) :
        /\ run' = Suspended(r, o.at, sub)
        /\ inv' = [inv EXCEPT ![c][sub.at] = "Pending"]
        /\ effects' = Plus(({r} \X o.done) \cup ({c} \X sub.done))
  BY DEF RunInlineNested
<1>1. /\ r \in Runs /\ c \in Runs /\ c # r
      /\ run[r].status = "None" /\ run[c].status = "None"
      /\ run \in [Runs -> Row] /\ TypeOK /\ w' = w /\ RunSound(r) /\ RunSound(c)
      /\ inv \in [Runs -> [Steps -> InvStatus]]
      /\ ApprovalSteps \in SUBSET Steps /\ NestedSteps \in SUBSET Steps
  BY RunTyping, PipelineAssumption DEF IInv, TypeOK, EInv, RunInlineNested
<1> PICK R, D : R = {r, c} /\ D = ({r} \X o.done) \cup ({c} \X sub.done)
  OBVIOUS
<1>2. \A m \in Workers : w[m].pc # "idle" => w[m].run \notin R
  BY <1>1, Unattended DEF Working, Terminal
<1>3. /\ run'[r] = WaitingRow(o.at, TRUE) /\ run'[c] = WaitingRow(sub.at, FALSE)
      /\ inv'[c] = [inv[c] EXCEPT ![sub.at] = "Pending"]
      /\ inv'[r] = inv[r]
      /\ \A q \in Runs \ R : run'[q] = run[q] /\ inv'[q] = inv[q]
  BY <1>0, <1>1 DEF Suspended
<1>4. effects' = Plus(D)
  BY <1>0
<1>5. /\ \A t \in 0 .. NSteps : <<r, t>> \in D <=> t \in o.done
      /\ \A t \in 0 .. NSteps : <<c, t>> \in D <=> t \in sub.done
      /\ \A q \in Runs \ R, t \in 0 .. NSteps : <<q, t>> \notin D
  BY <1>1
<1>6. \A q \in Runs \ R : effects'[q] = effects[q]
  BY <1>1, <1>4, <1>5, PlusElsewhere
<1>7. \A q \in Runs, t \in 0 .. NSteps :
        effects'[q][t] = IF <<q, t>> \in D THEN effects[q][t] + 1 ELSE effects[q][t]
  BY <1>4 DEF Plus
<1>8. \A m \in Workers : w'[m].pc # "idle" => w'[m].run # r /\ w'[m].run # c
  BY <1>1, <1>2
<1>9. RunSound(r)'
  <2>1. \A t \in 0 .. NSteps :
          effects'[r][t] = IF t \in o.done THEN effects[r][t] + 1 ELSE effects[r][t]
    <3> TAKE t \in 0 .. NSteps
    <3>1. effects'[r][t] = IF <<r, t>> \in D THEN effects[r][t] + 1 ELSE effects[r][t]
      BY <1>1, <1>7
    <3>2. <<r, t>> \in D <=> t \in o.done
      BY <1>5
    <3> QED  BY <3>1, <3>2
  <2>2. /\ run'[r].status = "Waiting" /\ run'[r].at = o.at
        /\ inv'[r] = IF run'[r].kid THEN inv[r] ELSE [inv[r] EXCEPT ![o.at] = "Pending"]
    BY <1>3 DEF WaitingRow
  <2> QED  BY <1>1, <1>8, <2>1, <2>2, PausedSound
<1>10. RunSound(c)'
  <2>1. \A t \in 0 .. NSteps :
          effects'[c][t] = IF t \in sub.done THEN effects[c][t] + 1 ELSE effects[c][t]
    <3> TAKE t \in 0 .. NSteps
    <3>1. effects'[c][t] = IF <<c, t>> \in D THEN effects[c][t] + 1 ELSE effects[c][t]
      BY <1>1, <1>7
    <3>2. <<c, t>> \in D <=> t \in sub.done
      BY <1>5
    <3> QED  BY <3>1, <3>2
  <2>2. /\ run'[c].status = "Waiting" /\ run'[c].at = sub.at
        /\ inv'[c] = IF run'[c].kid THEN inv[c] ELSE [inv[c] EXCEPT ![sub.at] = "Pending"]
    BY <1>3 DEF WaitingRow
  <2> QED  BY <1>1, <1>8, <2>1, <2>2, PausedSound
<1>11. \A q \in Runs \cap R : RunSound(q)'
  BY <1>9, <1>10
<1>12. \A q \in Runs \ R : run'[q] = run[q] /\ effects'[q] = effects[q] /\ inv'[q] = inv[q]
  BY <1>3, <1>6
<1> QED  BY <1>1, <1>2, <1>11, <1>12, OutsideStep

LEMMA EffectsStep ==
    ASSUME SnapshotIsolation, IInv, EInv, [Next]_vars
    PROVE  EInv'
<1>1. ASSUME NEW r \in Roots,
             \/ StartRun(r) \/ RunInline(r) \/ RunInlineNested(r)
             \/ \E old \in Runs : RetryRun(old, r)
      PROVE  EInv'
  BY <1>1, EnqueueEffects, InlineEffects, NestedEffects DEF StartRun, RetryRun
<1>2. ASSUME NEW k \in Workers,
             Claim(k) \/ StepOf(k) \/ UnexpectedError(k) \/ Crash(k) \/ Redeliver(k)
      PROVE  EInv'
  BY <1>2, ClaimEffects, ErrorEffects, LossEffects, MoveEffects, SaveEffects,
     PauseEffects, PersistEffects, EndJobEffects, ParentEffects
  DEF StepOf
<1>3. CASE LoseJob
  BY <1>3, QuietEffects DEF LoseJob
<1>4. ASSUME NEW r \in Runs, CancelRun(r) PROVE EInv'
  BY <1>4, CancelEffects
<1>5. ASSUME NEW u \in Users,
             \/ OpenRequest(u) \/ Approve(u) \/ ApproveFails(u) \/ Reject(u)
             \/ AbortRequest(u)
      PROVE  EInv'
  BY <1>5, RequestEffects
<1>6. CASE UNCHANGED vars
  BY <1>6, QuietEffects DEF vars
<1> QED  BY <1>1, <1>2, <1>3, <1>4, <1>5, <1>6 DEF Next

\* A completed run committed every enabled step whose failure it does not
\* tolerate, and no run committed the body of a step, ran a tool held for
\* approval or was counted in the statistics twice, through pauses, resumes,
\* retries, crashes and redelivered jobs.
THEOREM EffectsExactlyOnceAlways == SnapshotIsolation => (Spec => []EffectsExactlyOnce)
<1> SUFFICES ASSUME SnapshotIsolation PROVE Spec => []EffectsExactlyOnce
  OBVIOUS
<1>1. IInv /\ EInv /\ [Next]_vars => EInv'
  BY EffectsStep
<1> QED  BY <1>1, EffectsInit, EffectsMeaning, Invariant, PTL DEF Spec

-----------------------------------------------------------------------------
(* No run is abandoned.  While no worker was lost, a queued run has its job, a *)
(* running one its worker and an approved one its resume job: whoever lets go of *)
(* a run has ended it, paused it, or found that somebody else ended it.     *)

\* Run r has somebody or something that takes it further.
Driven(r) ==
    /\ run[r].status = "Queued" => ExecJob(r) \in queue
    /\ run[r].status = "Running" => \E k \in Workers : w[k].pc # "idle" /\ w[k].run = r
    /\ run[r].status = "Waiting" =>
        /\ run[r].at \in Steps
        /\ ~run[r].kid /\ inv[r][run[r].at] = "Success" => ResumeJob(r, run[r].at) \in queue

\* A worker lets go of a run only when the run has ended or waits: it finishes
\* with a terminal row, a conflict means that the run was stopped, and the job
\* that a cancellation signals is the job of the run.
Attended(k) ==
    w[k].pc # "idle" =>
        /\ w[k].pc = "finish" => run[w[k].run].status \in Terminal
        /\ w[k].pc = "persist" => w[k].mem \in Terminal
        /\ w[k].view # "NoView" /\ run[w[k].run].status = "Running" => w[k].view = "Running"
        /\ w[k].job.kind = "exec" => w[k].job.run = w[k].run /\ w[k].run \in Roots
        /\ w[k].pc = "pause" /\ w[k].wait = "child" => w[k].sub.at \in Steps

AInv ==
    /\ crashes = 0 => \A r \in Runs : Driven(r)
    /\ \A k \in Workers : Attended(k)

LEMMA DrivenInit == Init => AInv
<1> SUFFICES ASSUME Init PROVE AInv
  OBVIOUS
<1>1. \A r \in Runs : run[r].status = "None"
  BY DEF Init
<1>2. \A k \in Workers : w[k].pc = "idle"
  BY DEF Init, IdleWorker
<1> QED  BY <1>1, <1>2 DEF AInv, Driven, Attended

LEMMA DrivenMeaning == AInv => NoAbandonedRun
  BY DEF AInv, Driven, NoAbandonedRun

\* What happens to the workers in a step that moves at most the ones named here.
LEMMA AttendedFrame ==
    ASSUME AInv,
           \A m \in Workers :
               \/ w'[m].pc = "idle"
               \/ Attended(m)'
               \/ /\ w'[m] = w[m]
                  /\ w[m].pc # "idle" =>
                        \/ run'[w[m].run] = run[w[m].run]
                        \/ run'[w[m].run].status \in Terminal
    PROVE  \A m \in Workers : Attended(m)'
<1> TAKE m \in Workers
<1>1. CASE w'[m].pc = "idle"
  BY <1>1 DEF Attended
<1>2. CASE w'[m] = w[m] /\ w[m].pc # "idle"
           /\ (run'[w[m].run] = run[w[m].run] \/ run'[w[m].run].status \in Terminal)
  <2>1. Attended(m)
    BY DEF AInv
  <2>2. "Running" \notin Terminal
    BY DEF Terminal
  <2> QED  BY <1>2, <2>1, <2>2 DEF Attended
<1> QED  BY <1>1, <1>2

LEMMA StoppedDriven ==
    ASSUME NEW r, run'[r].status \in Terminal
    PROVE  Driven(r)'
  BY DEF Driven, Terminal

\* A step that touches the runs in D.
LEMMA DrivenFrame ==
    ASSUME AInv, crashes' = crashes, NEW D,
           \A q \in Runs \ D :
               /\ run'[q] = run[q] /\ inv'[q] = inv[q]
               /\ ExecJob(q) \in queue => ExecJob(q) \in queue'
               /\ \A s \in Steps : ResumeJob(q, s) \in queue => ResumeJob(q, s) \in queue'
               /\ \A m \in Workers : w[m].pc # "idle" /\ w[m].run = q =>
                      w'[m].pc # "idle" /\ w'[m].run = q,
           crashes = 0 => \A q \in Runs \cap D : Driven(q)',
           \A m \in Workers :
               \/ w'[m].pc = "idle"
               \/ Attended(m)'
               \/ /\ w'[m] = w[m]
                  /\ w[m].pc # "idle" =>
                        \/ run'[w[m].run] = run[w[m].run]
                        \/ run'[w[m].run].status \in Terminal
    PROVE  AInv'
<1>1. ASSUME crashes = 0, NEW q \in Runs PROVE Driven(q)'
  <2>1. CASE q \in D
    BY <1>1, <2>1
  <2>2. CASE q \notin D
    <3>1. Driven(q)
      BY <1>1 DEF AInv
    <3> QED  BY <1>1, <2>2, <3>1 DEF Driven
  <2> QED  BY <2>1, <2>2
<1>2. \A m \in Workers : Attended(m)'
  BY AttendedFrame
<1> QED  BY <1>1, <1>2 DEF AInv

\* Worker k goes on in memory.
LEMMA MovedAttended ==
    ASSUME IInv, AInv, NEW k \in Workers, w[k].pc # "idle", NEW x,
           w' = [w EXCEPT ![k] = x], run' = run, inv' = inv, queue' = queue, crashes' = crashes,
           x.pc # "idle", x.run = w[k].run, Attended(k)'
    PROVE  AInv'
<1>1. w'[k] = x /\ \A m \in Workers \ {k} : w'[m] = w[m]
  BY BusyWorker
<1> PICK D : D = {}
  OBVIOUS
<1>2. \A m \in Workers : \/ Attended(m)'
                         \/ w'[m] = w[m] /\ run'[w[m].run] = run[w[m].run]
  BY <1>1
<1>3. \A q \in Runs \ D :
        /\ run'[q] = run[q] /\ inv'[q] = inv[q]
        /\ ExecJob(q) \in queue => ExecJob(q) \in queue'
        /\ \A s \in Steps : ResumeJob(q, s) \in queue => ResumeJob(q, s) \in queue'
        /\ \A m \in Workers : w[m].pc # "idle" /\ w[m].run = q =>
               w'[m].pc # "idle" /\ w'[m].run = q
  BY <1>1
<1>4. \A q \in Runs \cap D : Driven(q)'
  OBVIOUS
<1> QED  BY <1>2, <1>3, <1>4, DrivenFrame

LEMMA PausedAt ==
    ASSUME NEW S \in SUBSET Steps, NEW o \in Paused(S)
    PROVE  o.at \in Steps /\ o.status = "Waiting"
  BY DEF Paused

LEMMA MoveAttended ==
    ASSUME IInv, AInv, NEW k \in Workers,
           \/ LoopHead(k) \/ BeginAttempt(k) \/ StepSucceeds(k) \/ StepFails(k)
           \/ StepNeedsApproval(k) \/ SubRunPauses(k) \/ RetryWait(k)
           \/ DecideOutcome(k)
    PROVE  AInv'
<1> PICK r : r = w[k].run
  OBVIOUS
<1>0. /\ w[k] \in WorkerState /\ w \in [Workers -> WorkerState] /\ Attended(k)
      /\ w[k].pc # "idle" /\ w[k].pc # "finish"
      /\ run' = run /\ inv' = inv /\ queue' = queue /\ crashes' = crashes
      /\ run[r].status = "Running" => Seen(k) = "Running"
  <2>1. /\ w[k].pc # "idle" /\ w[k].pc # "finish"
        /\ run' = run /\ inv' = inv /\ queue' = queue /\ crashes' = crashes
    BY DEF LoopHead, BeginAttempt, StepSucceeds, StepFails, StepNeedsApproval,
           SubRunPauses, RetryWait, DecideOutcome
  <2>2. w[k] \in WorkerState /\ w \in [Workers -> WorkerState] /\ Attended(k)
    BY WorkerTyping DEF IInv, TypeOK, AInv
  <2>3. run[r].status = "Running" => Seen(k) = "Running"
    BY <2>1, <2>2 DEF Attended, Seen
  <2> QED  BY <2>1, <2>2, <2>3
<1>1. ASSUME NEW x, w' = [w EXCEPT ![k] = x],
             x.pc \notin {"idle", "finish"}, x.run = r, x.job = w[k].job,
             x.pc = "persist" => x.mem \in Terminal,
             x.view \in {w[k].view, Seen(k)},
             x.pc = "pause" /\ x.wait = "child" => x.sub.at \in Steps
      PROVE  AInv'
  <2>1. w'[k] = x
    BY <1>0, <1>1
  <2>2. Attended(k)'
    BY <1>0, <1>1, <2>1 DEF Attended
  <2> QED  BY <1>0, <1>1, <2>2, MovedAttended
<1>2. CASE LoopHead(k)
  <2>1. PICK x : /\ w' = [w EXCEPT ![k] = x]
                 /\ \/ x = Goto(k, "final")
                    \/ x = Reading(k, Cancelled(Goto(k, "final")))
                    \/ x = Reading(k, Goto(k, IF w[k].step \in Enabled THEN "begin" ELSE "skip"))
    BY <1>2 DEF LoopHead
  <2>2. /\ x.run = r /\ x.job = w[k].job /\ x.view \in {w[k].view, Seen(k)}
        /\ x.pc \in {"final", "begin", "skip"}
    BY <1>0, <2>1 DEF Goto, Reading, Cancelled, WorkerState
  <2> QED  BY <1>1, <2>1, <2>2
<1>3. CASE BeginAttempt(k) \/ RetryWait(k)
  <2>1. PICK x :
          /\ w' = [w EXCEPT ![k] = x]
          /\ \/ x = Reading(k, Cancelled(Goto(k, "abort")))
             \/ x = Reading(k, Goto(k, "body"))
             \/ x = Reading(k, [Goto(k, "attempt") EXCEPT !.att = NextAttempt(k)])
    BY <1>3 DEF BeginAttempt, RetryWait
  <2>2. /\ x.run = r /\ x.job = w[k].job /\ x.view \in {w[k].view, Seen(k)}
        /\ x.pc \in {"abort", "body", "attempt"}
    BY <1>0, <2>1 DEF Goto, Reading, Cancelled, WorkerState
  <2> QED  BY <1>1, <2>1, <2>2
<1>4. CASE StepSucceeds(k) \/ StepFails(k)
  <2>1. PICK x :
          /\ w' = [w EXCEPT ![k] = x]
          /\ \/ x = [w[k] EXCEPT !.pc = "record", !.err = FALSE,
                                 !.did = @ \cup {<<w[k].run, w[k].step>>}]
             \/ x = [w[k] EXCEPT !.pc = IF NextAttempt(k) < Attempts(w[k].step)
                                       THEN "wait" ELSE "record",
                                !.err = TRUE]
    BY <1>4 DEF StepSucceeds, StepFails
  <2>2. /\ x.run = r /\ x.job = w[k].job /\ x.view = w[k].view
        /\ x.pc \in {"record", "wait"}
    BY <1>0, <2>1 DEF WorkerState
  <2> QED  BY <1>1, <2>1, <2>2
<1>5. CASE StepNeedsApproval(k) \/ SubRunPauses(k)
  <2>1. PICK x :
          /\ w' = [w EXCEPT ![k] = x]
          /\ \/ x = [w[k] EXCEPT !.pc = "pause", !.wait = "tool"]
             \/ \E o \in Paused(ApprovalSteps) :
                  x = [w[k] EXCEPT !.pc = "pause", !.wait = "child",
                                   !.sub = [at |-> o.at, done |-> o.done]]
    BY <1>5 DEF StepNeedsApproval, SubRunPauses
  <2>2. \A o \in Paused(ApprovalSteps) : o.at \in Steps
    BY PausedAt, PipelineAssumption
  <2>3. /\ x.run = r /\ x.job = w[k].job /\ x.view = w[k].view /\ x.pc = "pause"
        /\ x.wait = "child" =>
              \E o \in Paused(ApprovalSteps) : x.sub = [at |-> o.at, done |-> o.done]
    BY <1>0, <2>1 DEF WorkerState
  <2>4. ASSUME x.wait = "child" PROVE x.sub.at \in Steps
    <3>1. PICK o \in Paused(ApprovalSteps) : x.sub = [at |-> o.at, done |-> o.done]
      BY <2>3, <2>4
    <3>2. x.sub.at = o.at
      BY <3>1
    <3> QED  BY <2>2, <3>2
  <2> QED  BY <1>1, <2>1, <2>3, <2>4
<1>6. CASE DecideOutcome(k)
  <2> DEFINE c == w[k].cancelled \/ SeesCancel(k)
             m == IF c THEN "Cancelled" ELSE IF w[k].failed THEN "Failed" ELSE "Completed"
  <2>1. PICK x :
          /\ w' = [w EXCEPT ![k] = x]
          /\ x = Reading(k, [w[k] EXCEPT !.pc = "persist", !.cancelled = c, !.mem = m])
    BY <1>6 DEF DecideOutcome
  <2>2. m \in Terminal
    BY DEF Terminal
  <2> HIDE DEF c, m
  <2>3. /\ x.run = r /\ x.job = w[k].job /\ x.view = Seen(k) /\ x.pc = "persist" /\ x.mem = m
    BY <1>0, <2>1 DEF Reading, WorkerState
  <2> QED  BY <1>1, <2>1, <2>2, <2>3
<1> QED  BY <1>2, <1>3, <1>4, <1>5, <1>6

\* The jobs that a step leaves in the queue.
KeepsJobs(q) ==
    /\ ExecJob(q) \in queue => ExecJob(q) \in queue'
    /\ \A s \in Steps : ResumeJob(q, s) \in queue => ResumeJob(q, s) \in queue'

\* A step of worker k.
LEMMA OwnDriven ==
    ASSUME IInv, AInv, NEW k \in Workers, crashes' = crashes, NEW D,
           \A q \in Runs \ D : run'[q] = run[q] /\ inv'[q] = inv[q] /\ KeepsJobs(q),
           \A q \in Runs \cap D :
               /\ crashes = 0 => Driven(q)'
               /\ \/ run'[q] = run[q] \/ run'[q].status \in Terminal
                  \/ run[q].status \notin Working
                  \/ w[k].pc # "idle" /\ q = w[k].run,
           \A m \in Workers \ {k} : w'[m] = w[m],
           \/ w[k].pc = "idle"
           \/ w[k].run \in D
           \/ w'[k].pc # "idle" /\ w'[k].run = w[k].run,
           w'[k].pc = "idle" \/ Attended(k)'
    PROVE  AInv'
<1>1. ASSUME NEW m \in Workers \ {k}, w[m].pc # "idle"
      PROVE  run'[w[m].run] = run[w[m].run] \/ run'[w[m].run].status \in Terminal
  <2>1. w[m].run \in Runs
    BY <1>1, BusyWorker
  <2>2. CASE w[m].run \in D
    BY <1>1, <2>1, <2>2, Unattended DEF IInv, OneExecutor
  <2> QED  BY <2>1, <2>2
<1>2. \A m \in Workers :
        \/ w'[m].pc = "idle"
        \/ Attended(m)'
        \/ /\ w'[m] = w[m]
           /\ w[m].pc # "idle" =>
                 \/ run'[w[m].run] = run[w[m].run]
                 \/ run'[w[m].run].status \in Terminal
  BY <1>1
<1>3. ASSUME NEW q \in Runs \ D, NEW m \in Workers, w[m].pc # "idle", w[m].run = q
      PROVE  w'[m].pc # "idle" /\ w'[m].run = q
  BY <1>3
<1>4. \A q \in Runs \ D :
        /\ run'[q] = run[q] /\ inv'[q] = inv[q]
        /\ ExecJob(q) \in queue => ExecJob(q) \in queue'
        /\ \A s \in Steps : ResumeJob(q, s) \in queue => ResumeJob(q, s) \in queue'
        /\ \A m \in Workers : w[m].pc # "idle" /\ w[m].run = q =>
               w'[m].pc # "idle" /\ w'[m].run = q
  BY <1>3 DEF KeepsJobs
<1>5. crashes = 0 => \A q \in Runs \cap D : Driven(q)'
  OBVIOUS
<1> QED  BY <1>2, <1>4, <1>5, DrivenFrame

LEMMA SameQueue ==
    ASSUME queue' = queue
    PROVE  \A q \in Runs : KeepsJobs(q)
  BY DEF KeepsJobs

LEMMA SaveAttended ==
    ASSUME IInv, AInv, NEW k \in Workers,
           SkipStep(k) \/ BeginStep(k) \/ AbortStep(k) \/ RecordStep(k)
    PROVE  AInv'
<1> PICK r : r = w[k].run
  OBVIOUS
<1>1. /\ w[k] \in WorkerState /\ w \in [Workers -> WorkerState] /\ Attended(k)
      /\ run \in [Runs -> Row] /\ r \in Runs /\ w[k].pc # "idle" /\ Consistent(k) /\ TypeOK
      /\ inv' = inv /\ queue' = queue /\ crashes' = crashes
  <2>1. w[k].pc # "idle" /\ inv' = inv /\ queue' = queue /\ crashes' = crashes
    BY DEF SkipStep, BeginStep, AbortStep, RecordStep
  <2> QED  BY <2>1, BusyWorker DEF IInv, AInv
<1>2. ASSUME NEW x \in WorkerState, Checkpoint(k, x),
             x.run = r, x.job = w[k].job, x.view = w[k].view, x.pc \in {"loop", "attempt", "final"}
      PROVE  AInv'
  <2>1. CASE run' = run /\ w' = [w EXCEPT ![k] = [x EXCEPT !.mem = "Cancelled"]]
    <3> DEFINE y == [x EXCEPT !.mem = "Cancelled"]
    <3>1. y.pc = x.pc /\ y.run = x.run /\ y.job = x.job /\ y.view = x.view
      BY DEF WorkerState
    <3>2. w' = [w EXCEPT ![k] = y] /\ w'[k] = y
      BY <1>1, <2>1
    <3> HIDE DEF y
    <3>3. Attended(k)'
      BY <1>1, <1>2, <2>1, <3>1, <3>2 DEF Attended
    <3> QED  BY <1>1, <1>2, <2>1, <3>1, <3>2, <3>3, MovedAttended
  <2>2. CASE /\ run' = [run EXCEPT ![r].status = w[k].mem]
             /\ w' = [w EXCEPT ![k] = [x EXCEPT !.did = {}, !.view = "NoView"]]
    <3> DEFINE y == [x EXCEPT !.did = {}, !.view = "NoView"]
    <3>1. y.pc = x.pc /\ y.run = x.run /\ y.job = x.job /\ y.view = "NoView"
      BY DEF WorkerState
    <3>2. w'[k] = y /\ \A m \in Workers \ {k} : w'[m] = w[m]
      BY <1>1, <2>2
    <3> HIDE DEF y
    <3>3. Attended(k)'
      BY <1>1, <1>2, <3>1, <3>2 DEF Attended
    <3>4. run'[r].status = w[k].mem /\ \A q \in Runs \ {r} : run'[q] = run[q]
      BY <1>1, <2>2 DEF Row
    <3>5. w'[k].pc # "idle" /\ w'[k].run = r
      BY <1>2, <3>1, <3>2
    <3>6. Driven(r)'
      BY <1>1, <3>4, <3>5 DEF Driven, Consistent, Memory
    <3>7. \A q \in Runs \ {r} : run'[q] = run[q] /\ inv'[q] = inv[q] /\ KeepsJobs(q)
      BY <1>1, <3>4, SameQueue
    <3>8. \A q \in Runs \cap {r} : Driven(q)' /\ w[k].pc # "idle" /\ q = w[k].run
      BY <1>1, <3>6
    <3> QED  BY <1>1, <3>2, <3>3, <3>5, <3>7, <3>8, OwnDriven
  <2> QED  BY <1>2, <2>1, <2>2 DEF Checkpoint
<1>3. CASE SkipStep(k)
  <2> PICK x : x = NextStep(k, "loop")
    OBVIOUS
  <2>1. x \in WorkerState
    BY <1>1, <1>3, ControlTyping DEF SkipStep, InStep, Busy
  <2>2. x.run = r /\ x.job = w[k].job /\ x.view = w[k].view /\ x.pc = "loop"
    BY <1>1 DEF NextStep, WorkerState
  <2> QED  BY <1>2, <1>3, <2>1, <2>2 DEF SkipStep
<1>4. CASE BeginStep(k) \/ AbortStep(k)
  <2>1. PICK x : x \in {Goto(k, "attempt"), Goto(k, "final")} /\ Checkpoint(k, x)
    BY <1>4 DEF BeginStep, AbortStep
  <2>2. x \in WorkerState
    BY <1>1, <2>1, ControlTyping DEF Busy
  <2>3. x.run = r /\ x.job = w[k].job /\ x.view = w[k].view /\ x.pc \in {"attempt", "final"}
    BY <1>1, <2>1 DEF Goto, WorkerState
  <2> QED  BY <1>2, <2>1, <2>2, <2>3
<1>5. CASE RecordStep(k)
  <2>1. PICK x : /\ x = [Goto(k, "final") EXCEPT !.failed = TRUE] \/ x = NextStep(k, "loop")
                 /\ Checkpoint(k, x)
    BY <1>5 DEF RecordStep
  <2>2. x \in WorkerState
    BY <1>1, <1>5, <2>1, ControlTyping DEF RecordStep, InStep, Busy
  <2>3. x.run = r /\ x.job = w[k].job /\ x.view = w[k].view /\ x.pc \in {"loop", "final"}
    BY <1>1, <2>1 DEF Goto, NextStep, WorkerState
  <2> QED  BY <1>2, <2>1, <2>2, <2>3
<1> QED  BY <1>3, <1>4, <1>5

LEMMA PauseAttended ==
    ASSUME IInv, AInv, NEW k \in Workers, Pause(k)
    PROVE  AInv'
<1> PICK r, s : r = w[k].run /\ s = w[k].step
  OBVIOUS
<1>0. w[k].pc = "pause" /\ w[k].pc # "idle" /\ queue' = queue /\ crashes' = crashes /\ Release(k)
  BY DEF Pause
<1>1. /\ r \in Runs /\ Consistent(k) /\ Attended(k) /\ s \in Steps /\ w[k].run \in Runs
      /\ run \in [Runs -> Row] /\ inv \in [Runs -> [Steps -> InvStatus]]
  BY <1>0, BusyWorker DEF IInv, AInv, TypeOK, Consistent, InStep
<1>2. w'[k].pc = "idle" /\ \A m \in Workers \ {k} : w'[m] = w[m]
  BY <1>0, Released
<1>3. CASE w[k].wait = "tool"
  <2>1. /\ run' = [run EXCEPT ![r] = WaitingRow(s, FALSE)]
        /\ inv' = [inv EXCEPT ![r][s] = "Pending"]
    BY <1>3 DEF Pause
  <2>2. /\ run'[r] = WaitingRow(s, FALSE) /\ inv'[r][s] = "Pending"
        /\ \A q \in Runs \ {r} : run'[q] = run[q] /\ inv'[q] = inv[q]
    BY <1>1, <2>1
  <2>3. Driven(r)'
    BY <1>1, <2>2 DEF Driven, WaitingRow
  <2>4. \A q \in Runs \ {r} : run'[q] = run[q] /\ inv'[q] = inv[q] /\ KeepsJobs(q)
    BY <1>0, <2>2, SameQueue
  <2>5. \A q \in Runs \cap {r} : Driven(q)' /\ w[k].pc # "idle" /\ q = w[k].run
    BY <1>0, <2>3
  <2>6. w[k].run \in {r}
    OBVIOUS
  <2> QED  BY <1>0, <1>2, <2>4, <2>5, <2>6, OwnDriven
<1>4. CASE w[k].wait = "child"
  <2> PICK c, a : c = ChildOf[r] /\ a = w[k].sub.at
    OBVIOUS
  <2>0. r \in Roots /\ c \in Runs /\ c # r /\ a \in Steps /\ run[c].status = "None"
    BY <1>0, <1>1, <1>4, RunTyping DEF Consistent, Attended
  <2>1. /\ run' = [run EXCEPT ![r] = WaitingRow(s, TRUE), ![c] = WaitingRow(a, FALSE)]
        /\ inv' = [inv EXCEPT ![c][a] = "Pending"]
    BY <1>4 DEF Pause, Suspended
  <2>2. /\ run'[r] = WaitingRow(s, TRUE) /\ run'[c] = WaitingRow(a, FALSE)
        /\ inv'[c][a] = "Pending"
        /\ \A q \in Runs \ {r, c} : run'[q] = run[q] /\ inv'[q] = inv[q]
    BY <1>1, <2>0, <2>1
  <2>3. Driven(r)' /\ Driven(c)'
    BY <1>1, <2>0, <2>2 DEF Driven, WaitingRow
  <2> PICK D : D = {r, c}
    OBVIOUS
  <2>4. \A q \in Runs \ D : run'[q] = run[q] /\ inv'[q] = inv[q] /\ KeepsJobs(q)
    BY <1>0, <2>2, SameQueue
  <2>5. \A q \in Runs \cap D :
          Driven(q)' /\ (run[q].status \notin Working \/ (w[k].pc # "idle" /\ q = w[k].run))
    BY <1>0, <2>0, <2>3 DEF Working, Terminal
  <2>6. w[k].run \in D
    OBVIOUS
  <2> QED  BY <1>0, <1>2, <2>4, <2>5, <2>6, OwnDriven
<1> QED  BY <1>3, <1>4 DEF Pause

LEMMA PersistAttended ==
    ASSUME IInv, AInv, NEW k \in Workers, PersistOutcome(k)
    PROVE  AInv'
<1> PICK r : r = w[k].run
  OBVIOUS
<1>0. /\ w[k].pc = "persist" /\ w[k].pc # "idle" /\ queue' = queue /\ crashes' = crashes
      /\ inv' = inv
  BY DEF PersistOutcome
<1>1. /\ w[k] \in WorkerState /\ w \in [Workers -> WorkerState] /\ Attended(k)
      /\ run \in [Runs -> Row] /\ r \in Runs
  BY <1>0, BusyWorker DEF IInv, AInv
<1>2. PICK x :
        /\ w' = [w EXCEPT ![k] = x]
        /\ \/ /\ run' = run /\ run[r].status \in Terminal
              /\ x = [Goto(k, "finish") EXCEPT !.mem = run[r].status,
                                               !.did = @ \cup Tally(k, FALSE)]
           \/ /\ run' = [run EXCEPT ![r].status = w[k].mem]
              /\ x = [Goto(k, "finish") EXCEPT !.view = "NoView", !.did = Tally(k, TRUE)]
  BY DEF PersistOutcome
<1>3. /\ x.pc = "finish" /\ x.run = r /\ x.job = w[k].job
  BY <1>1, <1>2 DEF Goto, WorkerState
<1>4. /\ run'[r].status \in Terminal
      /\ \A q \in Runs \ {r} : run'[q] = run[q]
  BY <1>0, <1>1, <1>2 DEF Attended, Row
<1>5. w'[k] = x /\ \A m \in Workers \ {k} : w'[m] = w[m]
  BY <1>1, <1>2
<1>6. Attended(k)'
  BY <1>0, <1>1, <1>3, <1>4, <1>5 DEF Attended, Terminal
<1>7. \A q \in Runs \ {r} : run'[q] = run[q] /\ inv'[q] = inv[q] /\ KeepsJobs(q)
  BY <1>0, <1>4, SameQueue
<1>8. \A q \in Runs \cap {r} : Driven(q)' /\ w[k].pc # "idle" /\ q = w[k].run
  BY <1>0, <1>4, StoppedDriven
<1>9. w[k].run \in {r}
  OBVIOUS
<1> QED  BY <1>0, <1>5, <1>6, <1>7, <1>8, <1>9, OwnDriven

\* A step of worker k that ends the runs in D and lets the worker go.
LEMMA EndedDriven ==
    ASSUME IInv, AInv, NEW k \in Workers, w[k].pc # "idle", Release(k),
           queue' = queue, crashes' = crashes, inv' = inv, NEW D, w[k].run \in D,
           \A q \in Runs \ D : run'[q] = run[q],
           \A q \in Runs \cap D : run'[q].status \in Terminal
    PROVE  AInv'
<1>1. w'[k].pc = "idle" /\ \A m \in Workers \ {k} : w'[m] = w[m]
  BY Released
<1>2. \A q \in Runs \ D : run'[q] = run[q] /\ inv'[q] = inv[q] /\ KeepsJobs(q)
  BY SameQueue
<1>3. \A q \in Runs \cap D : Driven(q)' /\ run'[q].status \in Terminal
  BY StoppedDriven
<1> QED  BY <1>1, <1>2, <1>3, OwnDriven

LEMMA FinishAttended ==
    ASSUME IInv, AInv, NEW k \in Workers, EndJob(k) \/ ResumeParent(k) \/ FailParent(k)
    PROVE  AInv'
<1> PICK r : r = w[k].run
  OBVIOUS
<1>0. /\ w[k].pc = "finish" /\ w[k].pc # "idle" /\ queue' = queue /\ crashes' = crashes
      /\ inv' = inv
  BY DEF EndJob, ResumeParent, FailParent
<1>1. /\ w[k] \in WorkerState /\ w \in [Workers -> WorkerState] /\ Attended(k)
      /\ run \in [Runs -> Row] /\ r \in Runs /\ run[r].status \in Terminal /\ TypeOK
  BY <1>0, BusyWorker DEF IInv, AInv, Attended
<1>2. CASE EndJob(k)
  <2>1. Release(k) /\ run' = run /\ w[k].run \in {r} /\ \A q \in Runs \cap {r} : run'[q].status \in Terminal
    BY <1>1, <1>2 DEF EndJob
  <2> QED  BY <1>0, <2>1, EndedDriven
<1>3. CASE FailParent(k)
  <2>1. PICK p \in Roots : ParentWaits(k, p) /\ run' = Invalidated(p)
    BY <1>3 DEF FailParent
  <2>2. p \in Runs /\ run[p].status = "Waiting" /\ p # r
    BY <1>1, <2>1, RunTyping DEF ParentWaits, Terminal
  <2>3. /\ run'[p].status = "Failed"
        /\ \A q \in Runs \ {p} : run'[q] = run[q]
    BY <1>1, <2>1, <2>2, InvalidatedRow DEF Terminal
  <2> PICK D : D = {p, r}
    OBVIOUS
  <2>4. \A q \in Runs \cap D : run'[q].status \in Terminal
    BY <1>1, <2>2, <2>3 DEF Terminal
  <2>5. Release(k) /\ w[k].run \in D /\ \A q \in Runs \ D : run'[q] = run[q]
    BY <1>3, <2>3 DEF FailParent
  <2> QED  BY <1>0, <2>4, <2>5, EndedDriven
<1>4. CASE ResumeParent(k)
  <2>1. PICK p \in Roots :
          /\ ParentWaits(k, p)
          /\ run' = Resumed(p)
          /\ w' = [w EXCEPT ![k] = Execute(p, ResumeAt(p), w[k].job)]
    BY <1>4 DEF ResumeParent
  <2>2. p \in Runs /\ run[p].status = "Waiting" /\ ChildOf[p] = r /\ p # r
    BY <1>1, <2>1, RunTyping DEF ParentWaits, Terminal
  <2>3. /\ run'[p].status = "Running"
        /\ \A q \in Runs \ {p} : run'[q] = run[q]
    BY <1>1, <2>1, <2>2, ResumedRow
  <2>4. r \notin Roots
    BY <2>1, <2>2, RunTyping, RunsAssumption
  <2>5. w[k].job.kind # "exec"
    BY <1>0, <1>1, <2>4 DEF Attended
  <2>6. /\ w'[k].run = p /\ w'[k].pc = "loop" /\ w'[k].view = "NoView" /\ w'[k].job = w[k].job
        /\ \A m \in Workers \ {k} : w'[m] = w[m]
    BY <1>1, <2>1 DEF Execute, IdleWorker
  <2>7. Attended(k)'
    BY <2>5, <2>6 DEF Attended
  <2>8. Driven(p)'
    BY <2>3, <2>6 DEF Driven
  <2>9. Driven(r)'
    BY <1>1, <2>2, <2>3, StoppedDriven
  <2> PICK D : D = {p, r}
    OBVIOUS
  <2>10. \A q \in Runs \ D : run'[q] = run[q] /\ inv'[q] = inv[q] /\ KeepsJobs(q)
    BY <1>0, <2>3, SameQueue
  <2>11. \A q \in Runs \cap D :
           Driven(q)' /\ (run[q].status \notin Working \/ (w[k].pc # "idle" /\ q = w[k].run))
    BY <1>0, <2>2, <2>8, <2>9 DEF Working, Terminal
  <2>12. w[k].run \in D
    OBVIOUS
  <2> QED  BY <1>0, <2>6, <2>7, <2>10, <2>11, <2>12, OwnDriven
<1> QED  BY <1>2, <1>3, <1>4

LEMMA ErrorAttended ==
    ASSUME IInv, AInv, NEW k \in Workers, ConflictAborts(k) \/ UnexpectedError(k)
    PROVE  AInv'
<1> PICK r, s : r = w[k].run /\ s = w[k].step
  OBVIOUS
<1>0. w[k].pc # "idle" /\ queue' = queue /\ crashes' = crashes /\ Release(k)
  BY DEF ConflictAborts, UnexpectedError, Busy
<1>1. /\ w[k] \in WorkerState /\ Attended(k) /\ Consistent(k) /\ TypeOK
      /\ run \in [Runs -> Row] /\ r \in Runs /\ run[r].status \in Working
      /\ inv \in [Runs -> [Steps -> InvStatus]]
  BY <1>0, BusyWorker DEF IInv, AInv, TypeOK
<1>2. /\ Invalidated(r)[r].status \in Terminal
      /\ \A q \in Runs \ {r} : Invalidated(r)[q] = run[q]
      /\ Invalidated(r) \in [Runs -> Row]
  BY <1>1, InvalidatedRow, InvalidatedTyping DEF Terminal
<1>3. w[k].run \in {r}
  OBVIOUS
<1>4. CASE ConflictAborts(k)
  <2>1. /\ inv' = inv /\ run' = Invalidated(r)
        /\ \A q \in Runs \ {r} : run'[q] = run[q]
        /\ \A q \in Runs \cap {r} : run'[q].status \in Terminal
    BY <1>2, <1>4 DEF ConflictAborts
  <2> QED  BY <1>0, <1>3, <2>1, EndedDriven
<1>5. CASE UnexpectedError(k) /\ Conflict(k)
  <2>1. run[r].status \in Terminal
    BY <1>0, <1>1, <1>5 DEF Conflict, Attended, Working
  <2>2. inv' = inv /\ run' = run /\ \A q \in Runs \cap {r} : run'[q].status \in Terminal
    BY <1>5, <2>1 DEF UnexpectedError
  <2> QED  BY <1>0, <1>3, <2>2, EndedDriven
<1>6. CASE UnexpectedError(k) /\ ~Conflict(k) /\ w[k].pc = "pause" /\ w[k].wait = "child"
  <2> PICK c, a : c = ChildOf[r] /\ a = w[k].sub.at
    OBVIOUS
  <2>0. r \in Roots /\ c \in Runs /\ c # r /\ a \in Steps /\ run[c].status = "None"
    BY <1>0, <1>1, <1>6, RunTyping DEF Consistent, Attended
  <2>1. /\ run' = [Invalidated(r) EXCEPT ![c] = WaitingRow(a, FALSE)]
        /\ inv' = [inv EXCEPT ![c][a] = "Pending"]
    BY <1>6 DEF UnexpectedError
  <2>2. /\ run'[r].status \in Terminal /\ run'[c] = WaitingRow(a, FALSE)
        /\ inv'[c][a] = "Pending"
        /\ \A q \in Runs \ {r, c} : run'[q] = run[q] /\ inv'[q] = inv[q]
    BY <1>1, <1>2, <2>0, <2>1
  <2>3. Driven(r)' /\ Driven(c)'
    BY <2>0, <2>2, StoppedDriven DEF Driven, WaitingRow
  <2> PICK D : D = {r, c}
    OBVIOUS
  <2>4. \A q \in Runs \ D : run'[q] = run[q] /\ inv'[q] = inv[q] /\ KeepsJobs(q)
    BY <1>0, <2>2, SameQueue
  <2>5. \A q \in Runs \cap D :
          Driven(q)' /\ (run[q].status \notin Working \/ (w[k].pc # "idle" /\ q = w[k].run))
    BY <1>0, <2>0, <2>3 DEF Working, Terminal
  <2>6. w[k].run \in D /\ w'[k].pc = "idle" /\ \A m \in Workers \ {k} : w'[m] = w[m]
    BY <1>0, Released
  <2> QED  BY <1>0, <2>4, <2>5, <2>6, OwnDriven
<1>7. CASE UnexpectedError(k) /\ ~Conflict(k) /\ ~(w[k].pc = "pause" /\ w[k].wait = "child")
  <2>1. /\ run' = Invalidated(r)
        /\ inv' = IF w[k].pc = "pause" THEN [inv EXCEPT ![r][s] = "Pending"] ELSE inv
    BY <1>7 DEF UnexpectedError
  <2>2. \A q \in Runs \ {r} : run'[q] = run[q] /\ inv'[q] = inv[q] /\ KeepsJobs(q)
    BY <1>0, <1>1, <1>2, <2>1, SameQueue
  <2>3. \A q \in Runs \cap {r} : Driven(q)' /\ w[k].pc # "idle" /\ q = w[k].run
    BY <1>0, <1>2, <2>1, StoppedDriven
  <2>4. w'[k].pc = "idle" /\ \A m \in Workers \ {k} : w'[m] = w[m]
    BY <1>0, Released
  <2> QED  BY <1>0, <1>3, <2>2, <2>3, <2>4, OwnDriven
<1> QED  BY <1>4, <1>5, <1>6, <1>7

\* A lost worker or job: nothing is promised about the runs any more.
LEMMA LossAttended ==
    ASSUME IInv, AInv, LoseJob \/ \E k \in Workers : Crash(k) \/ Redeliver(k)
    PROVE  AInv'
<1>1. run' = run /\ crashes' # 0
  BY DEF IInv, TypeOK, LoseJob, Crash, Redeliver
<1>2. \A m \in Workers : w'[m] = w[m] \/ w'[m].pc = "idle"
  BY Released DEF LoseJob, Crash, Redeliver
<1>3. \A m \in Workers : Attended(m)'
  BY <1>1, <1>2, AttendedFrame
<1> QED  BY <1>1, <1>3 DEF AInv

LEMMA JobKinds ==
    /\ \A r : ExecJob(r).kind = "exec" /\ ExecJob(r).run = r
    /\ \A r, s : ResumeJob(r, s).kind = "resume" /\ ResumeJob(r, s).run = r
  BY DEF ExecJob, ResumeJob

\* A job of run r leaves the queue.
LEMMA TakenJob ==
    ASSUME NEW j, queue' = queue \ {j}, NEW q \in Runs, j.run # q
    PROVE  KeepsJobs(q)
  BY JobKinds DEF KeepsJobs

LEMMA ClaimAttended ==
    ASSUME IInv, AInv, NEW k \in Workers, Claim(k)
    PROVE  AInv'
<1>0. /\ TypeOK /\ w \in [Workers -> WorkerState] /\ run \in [Runs -> Row]
      /\ w[k].pc = "idle" /\ inv' = inv /\ crashes' = crashes
  BY DEF IInv, TypeOK, Claim, ClaimExec, ClaimResume, ClaimInvalid, ClaimSkip, Take
<1>1. CASE ClaimExec(k)
  <2>1. PICK r \in Roots :
          /\ run[r].status = "Queued" /\ run' = [run EXCEPT ![r].status = "Running"]
          /\ w' = [w EXCEPT ![k] = Execute(r, 1, ExecJob(r))]
          /\ queue' = queue \ {ExecJob(r)}
    BY <1>1 DEF ClaimExec, Claimable, Take
  <2>2. /\ r \in Runs /\ run'[r].status = "Running" /\ \A q \in Runs \ {r} : run'[q] = run[q]
    BY <1>0, <2>1, RunTyping DEF Row
  <2>3. /\ w'[k].run = r /\ w'[k].pc = "loop" /\ w'[k].view = "NoView" /\ w'[k].job = ExecJob(r)
        /\ \A m \in Workers \ {k} : w'[m] = w[m]
    BY <1>0, <2>1 DEF Execute, IdleWorker
  <2>4. Attended(k)'
    BY <2>1, <2>3, JobKinds DEF Attended
  <2>5. Driven(r)'
    BY <2>2, <2>3 DEF Driven
  <2>6. \A q \in Runs \ {r} : run'[q] = run[q] /\ inv'[q] = inv[q] /\ KeepsJobs(q)
    BY <1>0, <2>1, <2>2, TakenJob, JobKinds
  <2>7. \A q \in Runs \cap {r} : Driven(q)' /\ run[q].status \notin Working
    BY <2>1, <2>5 DEF Working, Terminal
  <2> QED  BY <1>0, <2>3, <2>4, <2>6, <2>7, OwnDriven
<1>2. CASE ClaimResume(k)
  <2>1. PICK p \in Runs, t \in Steps :
          /\ run[p].status = "Waiting"
          /\ run' = Resumed(p)
          /\ w' = [w EXCEPT ![k] = Execute(p, ResumeAt(p), ResumeJob(p, t))]
          /\ queue' = queue \ {ResumeJob(p, t)}
    BY <1>2 DEF ClaimResume, Take
  <2>2. run'[p].status = "Running" /\ \A q \in Runs \ {p} : run'[q] = run[q]
    BY <1>0, <2>1, ResumedRow
  <2>3. /\ w'[k].run = p /\ w'[k].pc = "loop" /\ w'[k].view = "NoView" /\ w'[k].job = ResumeJob(p, t)
        /\ \A m \in Workers \ {k} : w'[m] = w[m]
    BY <1>0, <2>1 DEF Execute, IdleWorker
  <2>4. Attended(k)'
    BY <2>1, <2>3, JobKinds DEF Attended
  <2>5. Driven(p)'
    BY <2>2, <2>3 DEF Driven
  <2>6. \A q \in Runs \ {p} : run'[q] = run[q] /\ inv'[q] = inv[q] /\ KeepsJobs(q)
    BY <1>0, <2>1, <2>2, TakenJob, JobKinds
  <2>7. \A q \in Runs \cap {p} : Driven(q)' /\ run[q].status \notin Working
    BY <2>1, <2>5 DEF Working, Terminal
  <2> QED  BY <1>0, <2>3, <2>4, <2>6, <2>7, OwnDriven
<1>3. CASE ClaimInvalid(k)
  <2>1. PICK j \in queue : queue' = queue \ {j} /\ run' = Invalidated(j.run) /\ w' = w
    BY <1>3 DEF ClaimInvalid, Take
  <2> PICK r : r = j.run
    OBVIOUS
  <2>2. r \in Runs
    BY <1>0, JobTyping DEF TypeOK
  <2>3. run'[r].status \in Terminal /\ \A q \in Runs \ {r} : run'[q] = run[q]
    BY <1>0, <2>1, <2>2, InvalidatedRow DEF Terminal
  <2>4. \A q \in Runs \ {r} : run'[q] = run[q] /\ inv'[q] = inv[q] /\ KeepsJobs(q)
    BY <1>0, <2>1, <2>3, TakenJob
  <2>5. \A q \in Runs \cap {r} : Driven(q)' /\ run'[q].status \in Terminal
    BY <2>3, StoppedDriven
  <2> QED  BY <1>0, <2>1, <2>4, <2>5, OwnDriven
<1>4. CASE ClaimSkip(k)
  <2>1. PICK j \in queue :
          /\ queue' = queue \ {j} /\ run' = run /\ w' = w
          /\ run[j.run].status # (IF j.kind = "exec" THEN "Queued" ELSE "Waiting")
             \/ (j.kind = "resume" /\ run[j.run].kid)
    BY <1>4 DEF ClaimSkip, Take
  <2> PICK r : r = j.run
    OBVIOUS
  <2>2. \A q \in Runs \ {r} : run'[q] = run[q] /\ inv'[q] = inv[q] /\ KeepsJobs(q)
    BY <1>0, <2>1, TakenJob
  <2>3. ASSUME crashes = 0, r \in Runs PROVE Driven(r)'
    <3>1. Driven(r)
      BY <2>3 DEF AInv
    <3>2. run[r].status = "Queued" => ExecJob(r) \in queue'
      BY <2>1, <3>1, JobKinds DEF Driven
    <3>3. /\ run[r].status = "Waiting" /\ ~run[r].kid /\ inv[r][run[r].at] = "Success"
             => ResumeJob(r, run[r].at) \in queue'
      BY <2>1, <3>1, JobKinds DEF Driven
    <3> QED  BY <1>0, <2>1, <3>1, <3>2, <3>3 DEF Driven
  <2>4. \A q \in Runs \cap {r} : (crashes = 0 => Driven(q)') /\ run'[q] = run[q]
    BY <2>1, <2>3
  <2> QED  BY <1>0, <2>1, <2>2, <2>4, OwnDriven
<1> QED  BY <1>1, <1>2, <1>3, <1>4 DEF Claim

\* A step of a person.
LEMMA OutsideDriven ==
    ASSUME AInv, crashes' = crashes, NEW D,
           \A q \in Runs \ D : run'[q] = run[q] /\ inv'[q] = inv[q] /\ KeepsJobs(q),
           crashes = 0 => \A q \in Runs \cap D : Driven(q)',
           \A m \in Workers :
               \/ w'[m].pc = "idle" /\ w[m].pc # "idle" /\ w[m].run \in D
               \/ /\ w'[m] = w[m]
                  /\ w[m].pc # "idle" =>
                        \/ run'[w[m].run] = run[w[m].run]
                        \/ run'[w[m].run].status \in Terminal
    PROVE  AInv'
<1>1. ASSUME NEW q \in Runs \ D, NEW m \in Workers, w[m].pc # "idle", w[m].run = q
      PROVE  w'[m].pc # "idle" /\ w'[m].run = q
  BY <1>1
<1>2. \A q \in Runs \ D :
        /\ run'[q] = run[q] /\ inv'[q] = inv[q]
        /\ ExecJob(q) \in queue => ExecJob(q) \in queue'
        /\ \A s \in Steps : ResumeJob(q, s) \in queue => ResumeJob(q, s) \in queue'
        /\ \A m \in Workers : w[m].pc # "idle" /\ w[m].run = q =>
               w'[m].pc # "idle" /\ w'[m].run = q
  BY <1>1 DEF KeepsJobs
<1>3. \A m \in Workers :
        \/ w'[m].pc = "idle"
        \/ Attended(m)'
        \/ /\ w'[m] = w[m]
           /\ w[m].pc # "idle" =>
                 \/ run'[w[m].run] = run[w[m].run]
                 \/ run'[w[m].run].status \in Terminal
  OBVIOUS
<1> QED  BY <1>2, <1>3, DrivenFrame

LEMMA CancelDriven ==
    ASSUME IInv, AInv, NEW r \in Runs, CancelRun(r)
    PROVE  AInv'
<1>1. /\ run \in [Runs -> Row] /\ run' = [run EXCEPT ![r].status = "Cancelled"]
      /\ inv' = inv /\ crashes' = crashes
  BY DEF IInv, TypeOK, CancelRun
<1>2. run'[r].status = "Cancelled" /\ \A q \in Runs \ {r} : run'[q] = run[q]
  BY <1>1 DEF Row
<1>3. Driven(r)' /\ run'[r].status \in Terminal
  BY <1>2, StoppedDriven DEF Terminal
<1>4. \A q \in Runs \ {r} : KeepsJobs(q)
  <2>1. CASE queue' = queue
    BY <2>1, SameQueue
  <2>2. CASE queue' = queue \ {ExecJob(r)}
    BY <2>2, TakenJob, JobKinds
  <2> QED  BY <2>1, <2>2 DEF CancelRun
<1>5. \A m \in Workers :
        \/ w'[m].pc = "idle" /\ w[m].pc # "idle" /\ w[m].run \in {r}
        \/ w'[m] = w[m]
  <2>1. CASE w' = w
    BY <2>1
  <2>2. CASE \E k \in Workers : w[k].pc # "idle" /\ w[k].job = ExecJob(r) /\ Release(k)
    <3>1. PICK k \in Workers : w[k].pc # "idle" /\ w[k].job = ExecJob(r) /\ Release(k)
      BY <2>2
    <3>2. w[k].run = r
      BY <3>1, JobKinds DEF AInv, Attended
    <3>3. w'[k].pc = "idle" /\ \A m \in Workers \ {k} : w'[m] = w[m]
      BY <3>1, Released DEF IInv, TypeOK
    <3> QED  BY <3>1, <3>2, <3>3
  <2> QED  BY <2>1, <2>2 DEF CancelRun
<1>6. \A m \in Workers : w[m].pc # "idle" =>
        run'[w[m].run] = run[w[m].run] \/ run'[w[m].run].status \in Terminal
  BY <1>2, <1>3, BusyWorker
<1>7. \A m \in Workers :
        \/ w'[m].pc = "idle" /\ w[m].pc # "idle" /\ w[m].run \in {r}
        \/ /\ w'[m] = w[m]
           /\ w[m].pc # "idle" =>
                 \/ run'[w[m].run] = run[w[m].run]
                 \/ run'[w[m].run].status \in Terminal
  BY <1>5, <1>6
<1>8. \A q \in Runs \ {r} : run'[q] = run[q] /\ inv'[q] = inv[q] /\ KeepsJobs(q)
  BY <1>1, <1>2, <1>4
<1>9. crashes = 0 => \A q \in Runs \cap {r} : Driven(q)'
  BY <1>3
<1> QED  BY <1>1, <1>7, <1>8, <1>9, OutsideDriven

\* Nothing of the runs changes.
LEMMA QuietDriven ==
    ASSUME AInv, run' = run, inv' = inv, queue' = queue, w' = w, crashes' = crashes
    PROVE  AInv'
  BY DEF AInv, Driven, Attended

LEMMA RequestDriven ==
    ASSUME IInv, AInv, NEW u \in Users,
           \/ OpenRequest(u) \/ Approve(u) \/ ApproveFails(u) \/ Reject(u)
           \/ AbortRequest(u)
    PROVE  AInv'
<1>1. CASE OpenRequest(u) \/ AbortRequest(u)
  BY <1>1, QuietDriven DEF OpenRequest, AbortRequest
<1>2. CASE Approve(u) \/ ApproveFails(u) \/ Reject(u)
  <2> PICK r, s : r = req[u].run /\ s = req[u].step
    OBVIOUS
  <2>1. /\ r \in Runs /\ s \in Steps /\ run \in [Runs -> Row] /\ TypeOK
        /\ inv \in [Runs -> [Steps -> InvStatus]]
    BY <1>2 DEF Approve, ApproveFails, Reject, InvLocked, IInv, TypeOK, Named, RequestState
  <2>2. /\ w' = w /\ crashes' = crashes /\ queue \subseteq queue'
        /\ \A q \in Runs \ {r} : inv'[q] = inv[q]
        /\ \A t \in Steps : t # s => inv'[r][t] = inv[r][t]
        /\ \/ run' = run
           \/ run' = Invalidated(r)
        /\ \/ inv'[r][s] # "Success"
           \/ run'= run /\ (run[r].status = "Waiting" => ResumeJob(r, s) \in queue')
    <3>1. CASE Approve(u)
      BY <2>1, <3>1 DEF Approve, Requeues
    <3>2. CASE ApproveFails(u)
      BY <2>1, <3>2 DEF ApproveFails
    <3>3. CASE Reject(u)
      BY <2>1, <3>3 DEF Reject
    <3> QED  BY <1>2, <3>1, <3>2, <3>3
  <2>3. /\ \A q \in Runs \ {r} : run'[q] = run[q]
        /\ run'[r] = run[r] \/ run'[r].status \in Terminal
    BY <2>1, <2>2, InvalidatedRow DEF Terminal
  <2>4. ASSUME crashes = 0 PROVE Driven(r)'
    <3>1. Driven(r)
      BY <2>1, <2>4 DEF AInv
    <3>2. CASE run'[r].status \in Terminal
      BY <3>2, StoppedDriven
    <3>3. CASE run'[r] = run[r]
      <4>1. run[r].status = "Waiting" /\ ~run[r].kid /\ inv'[r][run[r].at] = "Success"
              => ResumeJob(r, run[r].at) \in queue'
        BY <2>1, <2>2, <3>1 DEF Driven
      <4> QED  BY <2>2, <3>1, <3>3, <4>1 DEF Driven
    <3> QED  BY <2>3, <3>2, <3>3
  <2>5. \A q \in Runs \ {r} : run'[q] = run[q] /\ inv'[q] = inv[q] /\ KeepsJobs(q)
    BY <2>2, <2>3 DEF KeepsJobs
  <2>6. crashes = 0 => \A q \in Runs \cap {r} : Driven(q)'
    BY <2>4
  <2>7. \A m \in Workers :
           /\ w'[m] = w[m]
           /\ w[m].pc # "idle" =>
                 \/ run'[w[m].run] = run[w[m].run]
                 \/ run'[w[m].run].status \in Terminal
    BY <2>2, <2>3, BusyWorker
  <2> QED  BY <2>2, <2>5, <2>6, <2>7, OutsideDriven
<1> QED  BY <1>1, <1>2

LEMMA StartDriven ==
    ASSUME IInv, AInv, NEW r \in Roots,
           \/ StartRun(r) \/ RunInline(r) \/ RunInlineNested(r)
           \/ \E old \in Runs : RetryRun(old, r)
    PROVE  AInv'
<1> PICK c : c = ChildOf[r]
  OBVIOUS
<1>0. /\ r \in Runs /\ c \in Runs /\ c # r /\ run \in [Runs -> Row]
      /\ inv \in [Runs -> [Steps -> InvStatus]]
      /\ run[r].status = "None" /\ w' = w /\ crashes' = crashes
      /\ ApprovalSteps \in SUBSET Steps /\ NestedSteps \in SUBSET Steps
  BY RunTyping, PipelineAssumption
  DEF IInv, TypeOK, StartRun, RunInline, RunInlineNested, RetryRun, Enqueue
<1>1. ASSUME NEW D, D \in SUBSET {r, c}, run[c].status = "None" \/ c \notin D,
             \A q \in Runs \ D : run'[q] = run[q] /\ inv'[q] = inv[q],
             queue \subseteq queue',
             \A q \in Runs \cap D : Driven(q)'
      PROVE  AInv'
  <2>1. \A m \in Workers : w[m].pc # "idle" => w[m].run \in Runs \ D
    BY <1>0, <1>1, Unattended, BusyWorker DEF IInv, Working, Terminal
  <2>2. \A m \in Workers :
           /\ w'[m] = w[m]
           /\ w[m].pc # "idle" => run'[w[m].run] = run[w[m].run]
    BY <1>0, <1>1, <2>1
  <2>3. \A q \in Runs \ D : run'[q] = run[q] /\ inv'[q] = inv[q] /\ KeepsJobs(q)
    BY <1>1 DEF KeepsJobs
  <2>4. \A m \in Workers :
           \/ w'[m].pc = "idle" /\ w[m].pc # "idle" /\ w[m].run \in D
           \/ /\ w'[m] = w[m]
              /\ w[m].pc # "idle" =>
                    \/ run'[w[m].run] = run[w[m].run]
                    \/ run'[w[m].run].status \in Terminal
    BY <2>2
  <2>5. crashes = 0 => \A q \in Runs \cap D : Driven(q)'
    BY <1>1
  <2>6. crashes' = crashes
    BY <1>0
  <2> QED  BY <2>3, <2>4, <2>5, <2>6, OutsideDriven
<1>2. CASE StartRun(r) \/ \E old \in Runs : RetryRun(old, r)
  <2>1. /\ run' = [run EXCEPT ![r].status = "Queued"] /\ queue' = queue \cup {ExecJob(r)}
        /\ inv' = inv
    BY <1>2 DEF StartRun, RetryRun, Enqueue
  <2>2. /\ run'[r].status = "Queued"
        /\ \A q \in Runs \ {r} : run'[q] = run[q] /\ inv'[q] = inv[q]
    BY <1>0, <2>1 DEF Row
  <2>3. Driven(r)'
    BY <2>1, <2>2 DEF Driven
  <2>4. /\ {r} \in SUBSET {r, c} /\ c \notin {r} /\ queue \subseteq queue'
        /\ \A q \in Runs \cap {r} : Driven(q)'
    BY <1>0, <2>1, <2>3
  <2> QED  BY <1>1, <2>2, <2>4
<1>3. CASE RunInline(r)
  <2>1. PICK o \in Finished \cup Aborted \cup Paused(ApprovalSteps) :
          /\ run' = [run EXCEPT ![r] =
                      IF o.status = "Waiting" THEN WaitingRow(o.at, FALSE)
                      ELSE [@ EXCEPT !.status = o.status]]
          /\ inv' = IF o.status = "Waiting"
                    THEN [inv EXCEPT ![r][o.at] = "Pending"] ELSE inv
    BY <1>3 DEF RunInline
  <2>2. /\ \A q \in Runs \ {r} : run'[q] = run[q] /\ inv'[q] = inv[q]
        /\ queue' = queue
    BY <1>0, <1>3, <2>1 DEF RunInline
  <2>3. Driven(r)'
    <3>1. CASE o \in Paused(ApprovalSteps)
      <4>1. o.at \in Steps /\ o.status = "Waiting"
        BY <1>0, <3>1, PausedAt
      <4>2. run'[r] = WaitingRow(o.at, FALSE) /\ inv'[r][o.at] = "Pending"
        BY <1>0, <2>1, <4>1
      <4> QED  BY <4>1, <4>2 DEF Driven, WaitingRow
    <3>2. CASE o \in Finished \cup Aborted
      <4>1. o.status \in Terminal
        BY <3>2 DEF Finished, Aborted, Terminal
      <4>2. run'[r].status = o.status
        BY <1>0, <2>1, <4>1 DEF Row, Terminal
      <4> QED  BY <4>1, <4>2, StoppedDriven
    <3> QED  BY <3>1, <3>2
  <2>4. /\ {r} \in SUBSET {r, c} /\ c \notin {r} /\ queue \subseteq queue'
        /\ \A q \in Runs \cap {r} : Driven(q)'
    BY <1>0, <2>2, <2>3
  <2> QED  BY <1>1, <2>2, <2>4
<1>4. CASE RunInlineNested(r)
  <2>1. PICK o \in Paused(NestedSteps), sub \in Paused(ApprovalSteps) :
          /\ run' = Suspended(r, o.at, sub)
          /\ inv' = [inv EXCEPT ![c][sub.at] = "Pending"]
    BY <1>4 DEF RunInlineNested
  <2>2. o.at \in Steps /\ sub.at \in Steps
    BY <1>0, PausedAt
  <2> PICK D : D = {r, c}
    OBVIOUS
  <2>3. /\ run'[r] = WaitingRow(o.at, TRUE) /\ run'[c] = WaitingRow(sub.at, FALSE)
        /\ inv'[c][sub.at] = "Pending"
        /\ \A q \in Runs \ D : run'[q] = run[q] /\ inv'[q] = inv[q]
    BY <1>0, <2>1, <2>2 DEF Suspended
  <2>4. Driven(r)' /\ Driven(c)'
    BY <2>2, <2>3 DEF Driven, WaitingRow
  <2>5. /\ D \in SUBSET {r, c} /\ run[c].status = "None" /\ queue \subseteq queue'
        /\ \A q \in Runs \cap D : Driven(q)'
    BY <1>4, <2>4 DEF RunInlineNested
  <2> QED  BY <1>1, <2>3, <2>5
<1> QED  BY <1>2, <1>3, <1>4

LEMMA DrivenStep ==
    ASSUME IInv, AInv, [Next]_vars
    PROVE  AInv'
<1>1. ASSUME NEW r \in Roots,
             \/ StartRun(r) \/ RunInline(r) \/ RunInlineNested(r)
             \/ \E old \in Runs : RetryRun(old, r)
      PROVE  AInv'
  BY <1>1, StartDriven
<1>2. ASSUME NEW k \in Workers,
             Claim(k) \/ StepOf(k) \/ UnexpectedError(k) \/ Crash(k) \/ Redeliver(k)
      PROVE  AInv'
  BY <1>2, ClaimAttended, ErrorAttended, LossAttended, MoveAttended, SaveAttended,
     PauseAttended, PersistAttended, FinishAttended
  DEF StepOf
<1>3. CASE LoseJob
  BY <1>3, LossAttended
<1>4. ASSUME NEW r \in Runs, CancelRun(r) PROVE AInv'
  BY <1>4, CancelDriven
<1>5. ASSUME NEW u \in Users,
             \/ OpenRequest(u) \/ Approve(u) \/ ApproveFails(u) \/ Reject(u)
             \/ AbortRequest(u)
      PROVE  AInv'
  BY <1>5, RequestDriven
<1>6. CASE UNCHANGED vars
  BY <1>6, QuietDriven DEF vars
<1> QED  BY <1>1, <1>2, <1>3, <1>4, <1>5, <1>6 DEF Next

\* Unless a worker is lost, no interleaving of claims, pauses, cancellations and
\* answers leaves a run that nobody and nothing takes further, on either
\* isolation behaviour of the database.
THEOREM NoAbandonedRunAlways == Spec => []NoAbandonedRun
<1>1. IInv /\ AInv /\ [Next]_vars => AInv'
  BY DrivenStep
<1> QED  BY <1>1, DrivenInit, DrivenMeaning, Invariant, PTL DEF Spec

-----------------------------------------------------------------------------
(* At most one late step.  Once a body has started after the cancellation, the *)
(* worker's memory says Cancelled before the next one.                      *)

\* A worker whose run was cancelled while it was before a step goes on to the
\* check of that step with its memory saying so; one whose view is older than
\* the cancellation starts this step and no other.
LateWorker(k) ==
    w[k].pc # "idle" =>
        LET started == late[w[k].run] IN
        /\ w[k].pc \in {"loop", "skip", "begin"} /\ started # {} => w[k].mem = "Cancelled"
        /\ w[k].pc = "attempt" /\ w[k].view \notin {"NoView", "Cancelled"} =>
               started \subseteq {w[k].step}
        /\ w[k].pc \in {"body", "wait", "record"} => started \subseteq {w[k].step}

LateRun(r) ==
    /\ late[r] # {} => run[r].status = "Cancelled"
    /\ \E s \in 0 .. NSteps : late[r] \subseteq {s}

LateInv ==
    /\ \A r \in Runs : LateRun(r)
    /\ \A k \in Workers : LateWorker(k)

LEMMA LateInit == Init => LateInv
<1> SUFFICES ASSUME Init PROVE LateInv
  OBVIOUS
<1>1. \A r \in Runs : late[r] = {}
  BY DEF Init
<1>2. \A k \in Workers : w[k].pc = "idle"
  BY DEF Init, IdleWorker
<1>3. 0 \in 0 .. NSteps
  BY NSteps0
<1> QED  BY <1>1, <1>2, <1>3 DEF LateInv, LateRun, LateWorker

LEMMA LateMeaning == LateInv => AtMostOneLateStep
<1> SUFFICES ASSUME LateInv, NEW r \in Runs PROVE Cardinality(late[r]) <= 1
  BY DEF AtMostOneLateStep
<1>1. PICK s \in 0 .. NSteps : late[r] \subseteq {s}
  BY DEF LateInv, LateRun
<1>2. late[r] = {} \/ late[r] = {s}
  BY <1>1
<1>3. Cardinality({}) = 0 /\ Cardinality({s}) = 1
  BY FS_EmptySet, FS_Singleton
<1> QED  BY <1>2, <1>3

\* A step in which no body starts.
LEMMA LateFrame ==
    ASSUME IInv, LateInv, PauseIsGuarded, [Next]_vars, late' = late,
           \A m \in Workers : w'[m] = w[m] \/ w'[m].pc = "idle" \/ LateWorker(m)'
    PROVE  LateInv'
<1>1. ASSUME NEW r \in Runs PROVE LateRun(r)'
  BY CancelledStep DEF LateInv, LateRun
<1>2. ASSUME NEW m \in Workers PROVE LateWorker(m)'
  BY DEF LateInv, LateWorker
<1> QED  BY <1>1, <1>2 DEF LateInv

\* Worker k starts to work on a run.
LEMMA LateClaimed ==
    ASSUME IInv, LateInv, PauseIsGuarded, [Next]_vars, late' = late, NEW k \in Workers,
           NEW r \in Runs, run[r].status # "Cancelled", NEW s, NEW j,
           w' = [w EXCEPT ![k] = Execute(r, s, j)]
    PROVE  LateInv'
<1>1. late[r] = {}
  BY DEF LateInv, LateRun
<1>2. /\ w'[k].run = r /\ w'[k].pc = "loop"
      /\ \A m \in Workers \ {k} : w'[m] = w[m]
  BY DEF Execute, IdleWorker, IInv, TypeOK
<1>3. LateWorker(k)'
  BY <1>1, <1>2 DEF LateWorker
<1> QED  BY <1>2, <1>3, LateFrame

\* Worker k moves to state x.
LEMMA LateMoved ==
    ASSUME IInv, LateInv, PauseIsGuarded, [Next]_vars, late' = late, NEW k \in Workers, NEW x,
           w' = [w EXCEPT ![k] = x], x.run = w[k].run,
           x.pc \in {"loop", "skip", "begin"} /\ late[w[k].run] # {} => x.mem = "Cancelled",
           x.pc = "attempt" /\ x.view \notin {"NoView", "Cancelled"} =>
               late[w[k].run] \subseteq {x.step},
           x.pc \in {"body", "wait", "record"} => late[w[k].run] \subseteq {x.step}
    PROVE  LateInv'
<1>1. w'[k] = x /\ \A m \in Workers \ {k} : w'[m] = w[m]
  BY DEF IInv, TypeOK
<1>2. LateWorker(k)'
  BY <1>1 DEF LateWorker
<1> QED  BY <1>1, <1>2, LateFrame

LEMMA LateSaved ==
    ASSUME IInv, LateInv, PauseIsGuarded, [Next]_vars, late' = late, NEW k \in Workers,
           w[k].pc # "idle", NEW x \in WorkerState, Checkpoint(k, x),
           x.run = w[k].run, x.mem = w[k].mem, x.step \in {w[k].step, w[k].step + 1},
           x.pc \in {"loop", "attempt", "final"},
           late[w[k].run] # {} /\ x.pc = "attempt" => w[k].mem = "Cancelled",
           late[w[k].run] # {} /\ x.pc = "loop" =>
               w[k].mem = "Cancelled" \/ run[w[k].run].status = "Cancelled"
    PROVE  LateInv'
<1>1. CASE w' = [w EXCEPT ![k] = [x EXCEPT !.mem = "Cancelled"]] /\ w[k].mem # "Cancelled"
  <2> PICK y : y = [x EXCEPT !.mem = "Cancelled"]
    OBVIOUS
  <2>1. /\ w' = [w EXCEPT ![k] = y] /\ y.run = x.run /\ y.pc = x.pc /\ y.mem = "Cancelled"
    BY <1>1 DEF WorkerState
  <2>2. /\ y.pc \in {"loop", "skip", "begin"} /\ late[w[k].run] # {} => y.mem = "Cancelled"
        /\ y.pc = "attempt" /\ y.view \notin {"NoView", "Cancelled"} =>
               late[w[k].run] \subseteq {y.step}
        /\ y.pc \notin {"body", "wait", "record"}
    BY <1>1, <2>1
  <2> QED  BY <2>1, <2>2, LateMoved
<1>2. CASE /\ w' = [w EXCEPT ![k] = [x EXCEPT !.did = {}, !.view = "NoView"]]
           /\ run[w[k].run].status # "Cancelled" \/ w[k].mem = "Cancelled"
  <2> PICK y : y = [x EXCEPT !.did = {}, !.view = "NoView"]
    OBVIOUS
  <2>1. /\ w' = [w EXCEPT ![k] = y] /\ y.run = x.run /\ y.pc = x.pc /\ y.mem = x.mem
        /\ y.view = "NoView"
    BY <1>2 DEF WorkerState
  <2>2. /\ y.pc \in {"loop", "skip", "begin"} /\ late[w[k].run] # {} => y.mem = "Cancelled"
        /\ y.pc = "attempt" /\ y.view \notin {"NoView", "Cancelled"} =>
               late[w[k].run] \subseteq {y.step}
        /\ y.pc \notin {"body", "wait", "record"}
    BY <1>2, <2>1
  <2> QED  BY <2>1, <2>2, LateMoved
<1> QED  BY <1>1, <1>2 DEF Checkpoint

LEMMA LateLoop ==
    ASSUME IInv, LateInv, PauseIsGuarded, [Next]_vars, NEW k \in Workers,
           \/ LoopHead(k) \/ SkipStep(k) \/ BeginStep(k)
           \/ StepSucceeds(k) \/ StepFails(k) \/ StepNeedsApproval(k) \/ SubRunPauses(k)
           \/ RetryWait(k) \/ AbortStep(k) \/ RecordStep(k) \/ DecideOutcome(k)
           \/ PersistOutcome(k)
    PROVE  LateInv'
<1>0. w[k].pc # "idle" /\ late' = late
  BY DEF LoopHead, SkipStep, BeginStep, StepSucceeds, StepFails, StepNeedsApproval,
         SubRunPauses, RetryWait, AbortStep, RecordStep, DecideOutcome, PersistOutcome
<1>1. /\ w[k] \in WorkerState /\ Consistent(k) /\ LateWorker(k) /\ TypeOK
      /\ w[k].run \in Runs
  BY <1>0, BusyWorker DEF IInv, LateInv
<1>2. late[w[k].run] # {} => run[w[k].run].status = "Cancelled"
  BY <1>1 DEF LateInv, LateRun
<1>3. CASE LoopHead(k)
  <2>1. PICK x : /\ w' = [w EXCEPT ![k] = x]
                 /\ \/ x = Goto(k, "final")
                    \/ x = Reading(k, Cancelled(Goto(k, "final")))
                    \/ x = Reading(k, Goto(k, IF w[k].step \in Enabled THEN "begin" ELSE "skip"))
    BY <1>3 DEF LoopHead
  <2>2. x.run = w[k].run /\ x.pc \in {"final", "begin", "skip"} /\ x.mem = w[k].mem
    BY <1>1, <2>1 DEF Goto, Reading, Cancelled, WorkerState
  <2>3. w[k].pc = "loop"
    BY <1>3 DEF LoopHead
  <2> QED  BY <1>0, <1>1, <2>1, <2>2, <2>3, LateMoved DEF LateWorker
<1>4. CASE SkipStep(k) \/ BeginStep(k) \/ AbortStep(k) \/ RecordStep(k)
  <2>1. PICK x :
          /\ Checkpoint(k, x)
          /\ \/ x = NextStep(k, "loop")
             \/ x = Goto(k, "attempt") /\ w[k].pc = "begin"
             \/ x = Goto(k, "final")
             \/ x = [Goto(k, "final") EXCEPT !.failed = TRUE]
          /\ w[k].pc \in InStep
    BY <1>4 DEF SkipStep, BeginStep, AbortStep, RecordStep, InStep
  <2>2. x \in WorkerState
    BY <1>1, <1>4, <2>1, ControlTyping DEF Busy, InStep
  <2>3. /\ x.run = w[k].run /\ x.mem = w[k].mem /\ x.pc \in {"loop", "attempt", "final"}
        /\ x.step \in {w[k].step, w[k].step + 1}
        /\ x.pc = "attempt" => w[k].pc = "begin"
    BY <1>1, <2>1 DEF Goto, NextStep, WorkerState
  <2>4. late[w[k].run] # {} /\ x.pc = "attempt" => w[k].mem = "Cancelled"
    BY <1>0, <1>1, <2>3 DEF LateWorker
  <2> QED  BY <1>0, <1>2, <2>1, <2>2, <2>3, <2>4, LateSaved
<1>5. CASE StepSucceeds(k) \/ StepFails(k) \/ RetryWait(k)
  <2>1. PICK x :
          /\ w' = [w EXCEPT ![k] = x]
          /\ \/ x = [w[k] EXCEPT !.pc = "record", !.err = FALSE,
                                 !.did = @ \cup {<<w[k].run, w[k].step>>}]
             \/ x = [w[k] EXCEPT !.pc = IF NextAttempt(k) < Attempts(w[k].step)
                                       THEN "wait" ELSE "record",
                                !.err = TRUE]
             \/ x = Reading(k, Cancelled(Goto(k, "abort")))
             \/ x = Reading(k, [Goto(k, "attempt") EXCEPT !.att = NextAttempt(k)])
    BY <1>5 DEF StepSucceeds, StepFails, RetryWait
  <2>2. x.run = w[k].run /\ x.pc \in {"record", "wait", "abort", "attempt"} /\ x.step = w[k].step
    BY <1>1, <2>1 DEF Goto, Reading, Cancelled, WorkerState
  <2>3. w[k].pc \in {"body", "wait"}
    BY <1>5 DEF StepSucceeds, StepFails, RetryWait
  <2> QED  BY <1>0, <1>1, <2>1, <2>2, <2>3, LateMoved DEF LateWorker
<1>6. CASE StepNeedsApproval(k) \/ SubRunPauses(k) \/ DecideOutcome(k) \/ PersistOutcome(k)
  <2>1. PICK x : w' = [w EXCEPT ![k] = x] /\ x.run = w[k].run /\ x.pc \in {"pause", "persist", "finish"}
    <3>1. CASE StepNeedsApproval(k) \/ SubRunPauses(k)
      <4>1. PICK x :
              /\ w' = [w EXCEPT ![k] = x]
              /\ \/ x = [w[k] EXCEPT !.pc = "pause", !.wait = "tool"]
                 \/ \E o \in Paused(ApprovalSteps) :
                      x = [w[k] EXCEPT !.pc = "pause", !.wait = "child",
                                       !.sub = [at |-> o.at, done |-> o.done]]
        BY <3>1 DEF StepNeedsApproval, SubRunPauses
      <4>2. x.run = w[k].run /\ x.pc = "pause"
        BY <1>1, <4>1 DEF WorkerState
      <4> QED  BY <4>1, <4>2
    <3>2. CASE DecideOutcome(k)
      <4> DEFINE c == w[k].cancelled \/ SeesCancel(k)
                 m == IF c THEN "Cancelled" ELSE IF w[k].failed THEN "Failed" ELSE "Completed"
      <4>1. PICK x :
              /\ w' = [w EXCEPT ![k] = x]
              /\ x = Reading(k, [w[k] EXCEPT !.pc = "persist", !.cancelled = c, !.mem = m])
        BY <3>2 DEF DecideOutcome
      <4> HIDE DEF c, m
      <4>2. x.run = w[k].run /\ x.pc = "persist"
        BY <1>1, <4>1 DEF Reading, WorkerState
      <4> QED  BY <4>1, <4>2
    <3>3. CASE PersistOutcome(k)
      <4>1. PICK x :
              /\ w' = [w EXCEPT ![k] = x]
              /\ \/ x = [Goto(k, "finish") EXCEPT !.mem = run[w[k].run].status,
                                                   !.did = @ \cup Tally(k, FALSE)]
                 \/ x = [Goto(k, "finish") EXCEPT !.view = "NoView", !.did = Tally(k, TRUE)]
        BY <3>3 DEF PersistOutcome
      <4>2. x.run = w[k].run /\ x.pc = "finish"
        BY <1>1, <4>1 DEF Goto, WorkerState
      <4> QED  BY <4>1, <4>2
    <3> QED  BY <1>6, <3>1, <3>2, <3>3
  <2> QED  BY <1>0, <2>1, LateMoved
<1> QED  BY <1>3, <1>4, <1>5, <1>6

\* The body of a step starts.
LEMMA LateBegin ==
    ASSUME IInv, LateInv, PauseIsGuarded, [Next]_vars, NEW k \in Workers, BeginAttempt(k)
    PROVE  LateInv'
<1> PICK r, s : r = w[k].run /\ s = w[k].step
  OBVIOUS
<1>0. w[k].pc = "attempt" /\ run' = run
  BY DEF BeginAttempt
<1>1. /\ w[k] \in WorkerState /\ Consistent(k) /\ LateWorker(k) /\ LateRun(r)
      /\ r \in Runs /\ s \in Steps /\ s \in 0 .. NSteps
      /\ w \in [Workers -> WorkerState] /\ late \in [Runs -> SUBSET Steps]
  BY <1>0, BusyWorker, StepsRange DEF IInv, LateInv, Consistent, InStep, TypeOK
<1>2. CASE w' = [w EXCEPT ![k] = Reading(k, Cancelled(Goto(k, "abort")))] /\ late' = late
  <2> PICK x : x = Reading(k, Cancelled(Goto(k, "abort")))
    OBVIOUS
  <2>1. w' = [w EXCEPT ![k] = x] /\ x.run = w[k].run /\ x.pc = "abort"
    BY <1>1, <1>2 DEF Goto, Reading, Cancelled, WorkerState
  <2> QED  BY <1>2, <2>1, LateMoved
<1>3. CASE /\ ~SeesCancel(k)
           /\ w' = [w EXCEPT ![k] = Reading(k, Goto(k, "body"))]
           /\ late' = IF run[r].status = "Cancelled"
                      THEN [late EXCEPT ![r] = @ \cup {s}] ELSE late
  <2>1. late[r] \subseteq {s}
    <3>1. CASE w[k].view \in {"NoView", "Cancelled"}
      BY <1>1, <1>3, <3>1 DEF SeesCancel, Seen, LateRun
    <3>2. CASE w[k].view \notin {"NoView", "Cancelled"}
      BY <1>0, <1>1, <3>2 DEF LateWorker
    <3> QED  BY <3>1, <3>2
  <2>2. /\ late'[r] \subseteq {s}
        /\ late'[r] # {} => run[r].status = "Cancelled"
        /\ \A q \in Runs \ {r} : late'[q] = late[q]
    BY <1>1, <1>3, <2>1 DEF LateRun
  <2>3. /\ w'[k].run = r /\ w'[k].step = s /\ w'[k].pc = "body"
        /\ \A m \in Workers \ {k} : w'[m] = w[m]
    BY <1>1, <1>3 DEF Goto, Reading, WorkerState
  <2>4. LateWorker(k)'
    BY <2>2, <2>3 DEF LateWorker
  <2>5. ASSUME NEW m \in Workers \ {k} PROVE LateWorker(m)'
    <3>1. CASE w[m].pc = "idle"
      BY <2>3, <3>1 DEF LateWorker
    <3>2. CASE w[m].pc # "idle"
      <4>1. w[m].run \in Runs \ {r}
        BY <1>0, <3>2, BusyWorker DEF IInv, OneExecutor
      <4>2. LateWorker(m) /\ w'[m] = w[m] /\ late'[w[m].run] = late[w[m].run]
        BY <2>2, <2>3, <4>1 DEF LateInv
      <4> QED  BY <4>2 DEF LateWorker
    <3> QED  BY <3>1, <3>2
  <2>6. ASSUME NEW q \in Runs PROVE LateRun(q)'
    <3>1. CASE q = r
      BY <1>0, <1>1, <2>2, <3>1 DEF LateRun
    <3>2. CASE q # r
      BY <1>0, <2>2, <3>2 DEF LateInv, LateRun
    <3> QED  BY <3>1, <3>2
  <2> QED  BY <2>4, <2>5, <2>6 DEF LateInv
<1> QED  BY <1>2, <1>3 DEF BeginAttempt

LEMMA LateLeave ==
    ASSUME IInv, LateInv, PauseIsGuarded, [Next]_vars, late' = late,
           w' = w \/ \E k \in Workers : Release(k)
    PROVE  LateInv'
<1>1. w \in [Workers -> WorkerState]
  BY DEF IInv, TypeOK
<1>2. \A m \in Workers : w'[m] = w[m] \/ w'[m].pc = "idle"
  BY <1>1, Released
<1> QED  BY <1>2, LateFrame

LEMMA LateClaims ==
    ASSUME IInv, LateInv, PauseIsGuarded, [Next]_vars, NEW k \in Workers,
           Claim(k) \/ ResumeParent(k)
    PROVE  LateInv'
<1>1. late' = late
  BY DEF Claim, ClaimExec, ClaimResume, ClaimInvalid, ClaimSkip, ResumeParent
<1>2. CASE ClaimExec(k)
  <2>1. PICK r \in Roots : run[r].status = "Queued" /\ w' = [w EXCEPT ![k] = Execute(r, 1, ExecJob(r))]
    BY <1>2 DEF ClaimExec, Claimable
  <2>2. r \in Runs /\ run[r].status # "Cancelled"
    BY <2>1, RunTyping
  <2> QED  BY <1>1, <2>1, <2>2, LateClaimed
<1>3. CASE ClaimResume(k)
  <2>1. PICK r \in Runs, s \in Steps :
          /\ run[r].status = "Waiting"
          /\ w' = [w EXCEPT ![k] = Execute(r, ResumeAt(r), ResumeJob(r, s))]
    BY <1>3 DEF ClaimResume
  <2>2. run[r].status # "Cancelled"
    BY <2>1
  <2> QED  BY <1>1, <2>1, <2>2, LateClaimed
<1>4. CASE ClaimInvalid(k) \/ ClaimSkip(k)
  BY <1>1, <1>4, LateLeave DEF ClaimInvalid, ClaimSkip
<1>5. CASE ResumeParent(k)
  <2>1. PICK p \in Roots :
          /\ run[p].status = "Waiting"
          /\ w' = [w EXCEPT ![k] = Execute(p, ResumeAt(p), w[k].job)]
    BY <1>5 DEF ResumeParent, ParentWaits
  <2>2. p \in Runs /\ run[p].status # "Cancelled"
    BY <2>1, RunTyping
  <2> QED  BY <1>1, <2>1, <2>2, LateClaimed
<1> QED  BY <1>2, <1>3, <1>4, <1>5 DEF Claim

LEMMA LateStep ==
    ASSUME PauseIsGuarded, IInv, LateInv, [Next]_vars
    PROVE  LateInv'
<1>1. ASSUME NEW r \in Roots,
             \/ StartRun(r) \/ RunInline(r) \/ RunInlineNested(r)
             \/ \E old \in Runs : RetryRun(old, r)
      PROVE  LateInv'
  BY <1>1, LateLeave DEF StartRun, RunInline, RunInlineNested, RetryRun
<1>2. ASSUME NEW k \in Workers,
             Claim(k) \/ StepOf(k) \/ UnexpectedError(k) \/ Crash(k) \/ Redeliver(k)
      PROVE  LateInv'
  <2>1. CASE Pause(k) \/ EndJob(k) \/ FailParent(k) \/ ConflictAborts(k)
             \/ UnexpectedError(k) \/ Crash(k) \/ Redeliver(k)
    <3>1. late' = late /\ (Release(k) \/ w' = w)
      BY <2>1 DEF Pause, EndJob, FailParent, ConflictAborts, UnexpectedError, Crash, Redeliver
    <3> QED  BY <3>1, LateLeave
  <2> QED  BY <1>2, <2>1, LateClaims, LateBegin, LateLoop DEF StepOf
<1>3. CASE LoseJob
  BY <1>3, LateLeave DEF LoseJob
<1>4. ASSUME NEW r \in Runs, CancelRun(r) PROVE LateInv'
  BY <1>4, LateLeave DEF CancelRun
<1>5. ASSUME NEW u \in Users,
             \/ OpenRequest(u) \/ Approve(u) \/ ApproveFails(u) \/ Reject(u)
             \/ AbortRequest(u)
      PROVE  LateInv'
  BY <1>5, LateLeave DEF OpenRequest, Approve, ApproveFails, Reject, AbortRequest
<1>6. CASE UNCHANGED vars
  BY <1>6, LateLeave DEF vars
<1> QED  BY <1>1, <1>2, <1>3, <1>4, <1>5, <1>6 DEF Next

\* A cancelled run starts the body of at most one more step, wherever the
\* cancellation falls between the plain reads, the views and the checkpoints of
\* its worker.
THEOREM AtMostOneLateStepAlways == PauseIsGuarded => (Spec => []AtMostOneLateStep)
<1> SUFFICES ASSUME PauseIsGuarded PROVE Spec => []AtMostOneLateStep
  OBVIOUS
<1>1. IInv /\ LateInv /\ [Next]_vars => LateInv'
  BY LateStep
<1> QED  BY <1>1, LateInit, LateMeaning, Invariant, PTL DEF Spec

-----------------------------------------------------------------------------
(* The refinement.  LInv says who may take a run further: its worker while it *)
(* is executed, and one job of the queue while it is not.  Every step then  *)
(* changes the row and the executions of each run as the lifecycle allows.  A *)
(* redelivered job breaks LInv, and with it the order of the steps.         *)

\* How the row of a run changes in a step of its lifecycle.
Changes(r) ==
    \/ run'[r].status = run[r].status
    \/ run[r].status = "None" /\ run'[r].status \in {"Queued", "Waiting", "Completed", "Failed"}
    \/ run[r].status = "Queued" /\ run'[r].status \in {"Running", "Failed", "Cancelled"}
    \/ run[r].status = "Running" /\ run'[r].status \in {"Waiting"} \cup Terminal
    \/ run[r].status = "Waiting" /\ run'[r].status \in {"Running", "Failed", "Cancelled"}

\* How its step executions grow.
Grows(r) ==
    \/ \A t \in Steps : effects'[r][t] = effects[r][t]
    \/ /\ \A t \in Steps : effects'[r][t] >= effects[r][t]
       /\ \/ run[r].status = "None"
          \/ /\ run[r].status # "Queued"
             /\ \E s \in Steps :
                    /\ \A t \in Steps \ {s} : effects'[r][t] = effects[r][t]
                    /\ \A t \in Steps : t >= s => effects[r][t] = 0

\* What the lifecycle says of one step of one run.
Follows(r) == Changes(r) /\ Grows(r)

\* Nobody but its worker changes the row of a run that is executed, unless it is
\* cancelled.
Current(k) ==
    w[k].pc # "idle" =>
        run[w[k].run].status \in
            IF w[k].pc = "finish" THEN Terminal ELSE {"Running", "Cancelled"}

\* A queued job is the only one that may take its run further.
JobFits(j) ==
    /\ \A k \in Workers : w[k].pc # "idle" => w[k].run # j.run
    /\ \/ run[j.run].status \in Terminal
       \/ j.kind = "exec" /\ run[j.run].status = "Queued"
       \/ /\ j.kind = "resume" /\ run[j.run].status = "Waiting"
          /\ ~run[j.run].kid /\ j.at = run[j.run].at

\* The inductive invariant of the refinement.
LInv ==
    /\ \A k \in Workers : Current(k)
    /\ \A j \in queue : JobFits(j)

LEMMA Transitions ==
    /\ Lifecycle!Successors("None") = {"Queued", "Waiting", "Completed", "Failed"}
    /\ Lifecycle!Successors("Queued") = {"Running", "Failed", "Cancelled"}
    /\ Lifecycle!Successors("Running") = {"Waiting", "Completed", "Failed", "Cancelled"}
    /\ Lifecycle!Successors("Waiting") = {"Running", "Failed", "Cancelled"}
<1>1. Lifecycle!Successors("None") = {"Queued", "Waiting", "Completed", "Failed"}
  BY DEF Lifecycle!Successors, Lifecycle!Final
<1>2. Lifecycle!Successors("Queued") = {"Running", "Failed", "Cancelled"}
  BY DEF Lifecycle!Successors, Lifecycle!Final
<1>3. Lifecycle!Successors("Running") = {"Waiting", "Completed", "Failed", "Cancelled"}
  BY DEF Lifecycle!Successors, Lifecycle!Final
<1>4. Lifecycle!Successors("Waiting") = {"Running", "Failed", "Cancelled"}
  BY DEF Lifecycle!Successors, Lifecycle!Final
<1> QED  BY <1>1, <1>2, <1>3, <1>4

LEMMA FollowsMoves ==
    ASSUME IInv, EInv, EInv', TypeOK', NEW r \in Runs, Follows(r)
    PROVE  Lifecycle!Moves(r) /\ Lifecycle!Advances(r)
<1> PICK old, new : /\ old = [t \in Steps |-> effects[r][t]]
                    /\ new = [t \in Steps |-> effects'[r][t]]
  OBVIOUS
<1>1. /\ [q \in Runs |-> run[q].status][r] = run[r].status
      /\ ([q \in Runs |-> run[q].status])'[r] = run'[r].status
      /\ [q \in Runs |-> {s \in Steps : effects[q][s] > 0}][r] = {s \in Steps : old[s] > 0}
      /\ ([q \in Runs |-> {s \in Steps : effects[q][s] > 0}])'[r] = {s \in Steps : new[s] > 0}
  OBVIOUS
<1>2. old \in [Steps -> Nat] /\ new \in [Steps -> Nat]
  <2>1. effects[r] \in [0 .. NSteps -> Nat] /\ effects'[r] \in [0 .. NSteps -> Nat]
    BY DEF IInv, TypeOK
  <2> QED  BY <2>1, StepsRange
<1>3. Lifecycle!Moves(r)
  <2>1. run'[r].status \in Lifecycle!Successors(run[r].status) \cup {run[r].status}
    BY Transitions DEF Follows, Changes, Terminal
  <2>2. ASSUME run'[r].status = "Completed" PROVE Needed \subseteq {s \in Steps : new[s] > 0}
    <3>1. DoneBefore(r, NSteps + 1)'
      BY <2>2 DEF EInv, RunSound
    <3>2. \A t \in Steps : t < NSteps + 1
      BY PipelineAssumption DEF Steps
    <3>3. \A t \in Needed : t \in Steps
      BY PipelineAssumption DEF Needed
    <3>4. \A t \in Needed : effects'[r][t] >= 1
      BY <3>1, <3>2, <3>3 DEF DoneBefore
    <3>5. \A t \in Needed : new[t] \in Nat /\ new[t] >= 1
      BY <1>2, <3>3, <3>4
    <3> QED  BY <3>3, <3>5
  <2> QED  BY <1>1, <2>1, <2>2 DEF Lifecycle!Moves, Needed
<1>4. Lifecycle!Advances(r)
  <2>1. \A t \in Steps : t \in Nat
    BY StepsRange
  <2>2. run[r].status = "None" => \A t \in Steps : old[t] = 0
    <3>1. \A t \in Steps : t >= 1
      BY PipelineAssumption DEF Steps
    <3> QED  BY <3>1 DEF EInv, RunSound, FreshFrom
  <2>3. \/ \A t \in Steps : new[t] = old[t]
        \/ /\ \A t \in Steps : new[t] >= old[t]
           /\ run[r].status = "None"
        \/ /\ \A t \in Steps : new[t] >= old[t]
           /\ run[r].status # "Queued"
           /\ \E s \in Steps :
                  /\ \A t \in Steps \ {s} : new[t] = old[t]
                  /\ \A t \in Steps : t >= s => old[t] = 0
    BY DEF Follows, Grows
  <2> PICK before, after : /\ before = {s \in Steps : old[s] > 0}
                           /\ after = {s \in Steps : new[s] > 0}
    OBVIOUS
  <2>4. /\ before \subseteq after
        /\ \A s \in before, t \in after \ before : s < t
        /\ run[r].status # "None" => \A s, t \in after \ before : s = t
        /\ run[r].status = "Queued" => after = before
    <3>1. CASE \A t \in Steps : new[t] = old[t]
      BY <3>1
    <3>2. CASE (\A t \in Steps : new[t] >= old[t]) /\ run[r].status = "None"
      <4>1. before = {}
        BY <2>2, <3>2
      <4> QED  BY <3>2, <4>1
    <3>3. CASE /\ \A t \in Steps : new[t] >= old[t]
               /\ run[r].status # "Queued"
               /\ \E s \in Steps :
                      /\ \A t \in Steps \ {s} : new[t] = old[t]
                      /\ \A t \in Steps : t >= s => old[t] = 0
      <4>1. PICK s \in Steps : /\ \A t \in Steps \ {s} : new[t] = old[t]
                               /\ \A t \in Steps : t >= s => old[t] = 0
        BY <3>3
      <4>2. after \ before \subseteq {s}
        BY <4>1
      <4>3. \A t \in before : t < s
        BY <1>2, <2>1, <4>1
      <4>4. before \subseteq after
        BY <1>2, <3>3
      <4> QED  BY <3>3, <4>2, <4>3, <4>4
    <3> QED  BY <2>3, <3>1, <3>2, <3>3
  <2> QED  BY <1>1, <2>4 DEF Lifecycle!Advances
<1> QED  BY <1>3, <1>4

\* A step that touches the runs in D; the workers that start work on one of them.
LEMMA TrackFrame ==
    ASSUME IInv, LInv, NEW D,
           \A q \in Runs \ D : run'[q] = run[q] /\ effects'[q] = effects[q],
           \A q \in Runs \cap D : Follows(q),
           \A j \in queue' : (j \in queue /\ j.run \notin D) \/ JobFits(j)',
           \A m \in Workers :
               \/ w'[m].pc = "idle"
               \/ w'[m] = w[m] /\ run'[w[m].run] = run[w[m].run]
               \/ Current(m)' /\ (w'[m].run \in D \/ (w[m].pc # "idle" /\ w'[m].run = w[m].run))
    PROVE  LInv' /\ \A q \in Runs : Follows(q)
<1>1. ASSUME NEW q \in Runs PROVE Follows(q)
  <2>1. CASE q \in D
    BY <2>1
  <2>2. CASE q \notin D
    BY <2>2 DEF Follows, Changes, Grows
  <2> QED  BY <2>1, <2>2
<1>2. ASSUME NEW m \in Workers PROVE Current(m)'
  BY DEF LInv, Current
<1>3. ASSUME NEW j \in queue' PROVE JobFits(j)'
  <2>1. CASE j \in queue /\ j.run \notin D
    <3>1. j.run \in Runs /\ JobFits(j)
      BY <2>1, JobTyping DEF IInv, TypeOK, LInv
    <3>2. run'[j.run] = run[j.run]
      BY <2>1, <3>1
    <3>3. \A m \in Workers : w'[m].pc # "idle" => w'[m].run # j.run
      BY <2>1, <3>1 DEF JobFits
    <3> QED  BY <3>1, <3>2, <3>3 DEF JobFits
  <2> QED  BY <1>3, <2>1
<1> QED  BY <1>1, <1>2, <1>3 DEF LInv

\* A run has no job in the queue while it is executed, before it exists, and
\* while it waits for its sub-run.
LEMMA NoJobs ==
    ASSUME IInv, LInv, NEW q \in Runs, NEW j \in queue,
           \/ run[q].status \in {"None", "Running"}
           \/ run[q].status = "Waiting" /\ run[q].kid
           \/ \E k \in Workers : w[k].pc # "idle" /\ w[k].run = q
    PROVE  j.run # q
<1>1. JobFits(j) /\ run[j.run].status # "None"
  BY DEF LInv, IInv, JobsStarted
<1> QED  BY <1>1 DEF JobFits, Terminal

\* At most one job takes a run further.
LEMMA OneJob ==
    ASSUME IInv, LInv, NEW i \in queue, NEW j \in queue, i.run = j.run,
           run[i.run].status \notin Terminal
    PROVE  i = j
<1>1. JobFits(i) /\ JobFits(j) /\ i \in Job /\ j \in Job
  BY DEF LInv, IInv, TypeOK
<1>2. i.kind = j.kind /\ i.at = j.at
  BY <1>1 DEF JobFits, Job
<1>3. CASE i.kind = "exec"
  <2>1. i \in [kind : {"exec"}, run : Runs, at : {0}] /\ j \in [kind : {"exec"}, run : Runs, at : {0}]
    BY <1>1, <1>2, <1>3 DEF Job
  <2> QED  BY <1>2, <2>1
<1>4. CASE i.kind = "resume"
  <2>1. i \in [kind : {"resume"}, run : Runs, at : Steps] /\ j \in [kind : {"resume"}, run : Runs, at : Steps]
    BY <1>1, <1>2, <1>4 DEF Job
  <2> QED  BY <1>2, <2>1
<1> QED  BY <1>1, <1>3, <1>4 DEF Job

LEMMA GrowsAt ==
    ASSUME TypeOK, NEW r \in Runs, NEW s \in Steps, NEW D, effects' = Plus(D),
           \A t \in Steps \ {s} : <<r, t>> \notin D,
           \A t \in Steps : t >= s => effects[r][t] = 0,
           run[r].status # "Queued"
    PROVE  Grows(r)
<1>1. \A t \in Steps :
        /\ effects'[r][t] = IF <<r, t>> \in D THEN effects[r][t] + 1 ELSE effects[r][t]
        /\ effects[r][t] \in Nat
  BY PlusAt, StepsRange, Counters
<1>2. \A t \in Steps : effects'[r][t] >= effects[r][t]
  <2> TAKE t \in Steps
  <2> PICK old, new : old = effects[r][t] /\ new = effects'[r][t]
    OBVIOUS
  <2>1. old \in Nat /\ (new = old \/ new = old + 1)
    BY <1>1
  <2>2. new >= old
    BY <2>1
  <2> QED  BY <2>2
<1>3. \A t \in Steps \ {s} : effects'[r][t] = effects[r][t]
  BY <1>1
<1>4. \E z \in Steps :
        /\ \A t \in Steps \ {z} : effects'[r][t] = effects[r][t]
        /\ \A t \in Steps : t >= z => effects[r][t] = 0
  BY <1>3
<1> QED  BY <1>2, <1>4 DEF Grows

LEMMA GrowsNot ==
    ASSUME NEW r \in Runs, NEW D, effects' = Plus(D), \A t \in Steps : <<r, t>> \notin D
    PROVE  Grows(r)
<1>1. \A t \in Steps :
        effects'[r][t] = IF <<r, t>> \in D THEN effects[r][t] + 1 ELSE effects[r][t]
  BY PlusAt, StepsRange
<1> QED  BY <1>1 DEF Grows

LEMMA GrowsNew ==
    ASSUME TypeOK, NEW r \in Runs, run[r].status = "None", NEW D, effects' = Plus(D)
    PROVE  Grows(r)
<1>1. \A t \in Steps :
        /\ effects'[r][t] = IF <<r, t>> \in D THEN effects[r][t] + 1 ELSE effects[r][t]
        /\ effects[r][t] \in Nat
  BY PlusAt, StepsRange, Counters
<1>2. \A t \in Steps : effects'[r][t] >= effects[r][t]
  <2> TAKE t \in Steps
  <2> PICK old, new : old = effects[r][t] /\ new = effects'[r][t]
    OBVIOUS
  <2>1. old \in Nat /\ (new = old \/ new = old + 1)
    BY <1>1
  <2>2. new >= old
    BY <2>1
  <2> QED  BY <2>2
<1> QED  BY <1>2 DEF Grows

\* What a worker commits of its run.
LEMMA OwnGrows ==
    ASSUME IInv, EInv, NEW k \in Workers, w[k].pc # "idle", NEW r, r = w[k].run,
           effects' = Plus(w[k].did)
    PROVE  Grows(r) /\ \A q \in Runs \ {r} : effects'[q] = effects[q]
<1> PICK s : s = w[k].step
  OBVIOUS
<1>1. /\ TypeOK /\ r \in Runs /\ Consistent(k) /\ Uncommitted(k) /\ FreshFrom(r, s)
      /\ run[r].status \in Working
  BY Owner
<1>2. Grows(r)
  <2>1. CASE w[k].pc = "record"
    <3>1. s \in Steps
      BY <1>1, <2>1 DEF Consistent, InStep
    <3>2. \A t \in Steps \ {s} : <<r, t>> \notin w[k].did
      BY <1>1, <2>1 DEF Uncommitted
    <3>3. \A t \in Steps : t >= s => effects[r][t] = 0
      BY <1>1 DEF FreshFrom
    <3>4. run[r].status # "Queued"
      BY <1>1 DEF Working, Terminal
    <3> QED  BY <1>1, <3>1, <3>2, <3>3, <3>4, GrowsAt
  <2>2. CASE w[k].pc # "record"
    <3>1. \A t \in Steps : <<r, t>> \notin w[k].did
      BY <1>1, <2>2, StepsRange DEF Uncommitted
    <3> QED  BY <1>1, <3>1, GrowsNot
  <2> QED  BY <2>1, <2>2
<1>3. \A q \in Runs \ {r} : effects'[q] = effects[q]
  BY OwnCount
<1> QED  BY <1>2, <1>3

LEMMA GrowsNone ==
    ASSUME NEW r, effects'[r] = effects[r]
    PROVE  Grows(r)
  BY DEF Grows

\* Nothing is saved.
LEMMA QuietTrack ==
    ASSUME IInv, LInv, run' = run, effects' = effects, queue' \subseteq queue,
           \A m \in Workers :
               \/ w'[m] = w[m]
               \/ w'[m].pc = "idle"
               \/ Current(m)' /\ w[m].pc # "idle" /\ w'[m].run = w[m].run
    PROVE  LInv' /\ \A q \in Runs : Follows(q)
<1> PICK D : D = {}
  OBVIOUS
<1>1. /\ \A q \in Runs \ D : run'[q] = run[q] /\ effects'[q] = effects[q]
      /\ \A q \in Runs \cap D : Follows(q)
      /\ \A j \in queue' : j \in queue /\ j.run \notin D
  OBVIOUS
<1>2. \A m \in Workers :
        \/ w'[m].pc = "idle"
        \/ w'[m] = w[m] /\ run'[w[m].run] = run[w[m].run]
        \/ Current(m)' /\ (w'[m].run \in D \/ (w[m].pc # "idle" /\ w'[m].run = w[m].run))
  OBVIOUS
<1> QED  BY <1>1, <1>2, TrackFrame

\* Worker k saves its run, or leaves it.
LEMMA OwnTrack ==
    ASSUME IInv, LInv, NEW k \in Workers, w[k].pc # "idle", queue' = queue,
           NEW D,
           \A q \in Runs \ D : run'[q] = run[q] /\ effects'[q] = effects[q],
           \A q \in Runs \cap D :
               /\ Follows(q)
               /\ \/ q = w[k].run
                  \/ run[q].status = "None"
                  \/ run[q].status = "Waiting" /\ run[q].kid,
           \A m \in Workers \ {k} : w'[m] = w[m],
           \/ w'[k].pc = "idle"
           \/ Current(k)' /\ (w'[k].run \in D \/ w'[k].run = w[k].run)
    PROVE  LInv' /\ \A q \in Runs : Follows(q)
<1>1. ASSUME NEW j \in queue' PROVE j \in queue /\ j.run \notin D
  <2>1. j \in queue /\ j.run \in Runs
    BY <1>1, JobTyping DEF IInv, TypeOK
  <2> QED  BY <2>1, NoJobs
<1>2. ASSUME NEW m \in Workers \ {k}, w'[m].pc # "idle"
      PROVE  w'[m] = w[m] /\ run'[w[m].run] = run[w[m].run]
  <2>1. w[m].pc # "idle" /\ w'[m] = w[m]
    BY <1>2
  <2>2. w[m].run \in Runs /\ w[m].run # w[k].run /\ run[w[m].run].status \in Working
    BY <2>1, BusyWorker DEF IInv, OneExecutor
  <2>3. w[m].run \notin D
    BY <2>2 DEF Working, Terminal
  <2> QED  BY <2>1, <2>2, <2>3
<1>3. \A m \in Workers :
        \/ w'[m].pc = "idle"
        \/ w'[m] = w[m] /\ run'[w[m].run] = run[w[m].run]
        \/ Current(m)' /\ (w'[m].run \in D \/ (w[m].pc # "idle" /\ w'[m].run = w[m].run))
  BY <1>2
<1> QED  BY <1>1, <1>3, TrackFrame

\* The steps of the loop that only read the database.
LEMMA MovesOn ==
    ASSUME TypeOK, NEW k \in Workers,
           \/ LoopHead(k) \/ BeginAttempt(k) \/ StepSucceeds(k) \/ StepFails(k)
           \/ StepNeedsApproval(k) \/ SubRunPauses(k) \/ RetryWait(k)
           \/ DecideOutcome(k)
    PROVE  /\ w[k].pc # "idle" /\ w[k].pc # "finish"
           /\ w'[k].run = w[k].run /\ w'[k].pc \notin {"idle", "finish"}
           /\ \A m \in Workers \ {k} : w'[m] = w[m]
           /\ run' = run /\ effects' = effects /\ queue' = queue
<1>0. w[k] \in WorkerState /\ w \in [Workers -> WorkerState]
  BY DEF TypeOK
<1>1. ASSUME NEW x, w' = [w EXCEPT ![k] = x]
      PROVE  w'[k] = x /\ \A m \in Workers \ {k} : w'[m] = w[m]
  BY <1>0, <1>1
<1>2. CASE LoopHead(k) \/ BeginAttempt(k) \/ RetryWait(k)
  <2>1. PICK x :
          /\ w' = [w EXCEPT ![k] = x]
          /\ \/ x = Goto(k, "final")
             \/ x = Reading(k, Cancelled(Goto(k, "final")))
             \/ x = Reading(k, Goto(k, IF w[k].step \in Enabled THEN "begin" ELSE "skip"))
             \/ x = Reading(k, Cancelled(Goto(k, "abort")))
             \/ x = Reading(k, Goto(k, "body"))
             \/ x = Reading(k, [Goto(k, "attempt") EXCEPT !.att = NextAttempt(k)])
    BY <1>2 DEF LoopHead, BeginAttempt, RetryWait
  <2>2. x.run = w[k].run /\ x.pc \in {"final", "begin", "skip", "abort", "body", "attempt"}
    BY <1>0, <2>1 DEF Goto, Reading, Cancelled, WorkerState
  <2> QED  BY <1>1, <1>2, <2>1, <2>2 DEF LoopHead, BeginAttempt, RetryWait
<1>3. CASE StepSucceeds(k) \/ StepFails(k)
  <2>1. PICK x :
          /\ w' = [w EXCEPT ![k] = x]
          /\ \/ x = [w[k] EXCEPT !.pc = "record", !.err = FALSE,
                                 !.did = @ \cup {<<w[k].run, w[k].step>>}]
             \/ x = [w[k] EXCEPT !.pc = IF NextAttempt(k) < Attempts(w[k].step)
                                       THEN "wait" ELSE "record",
                                !.err = TRUE]
    BY <1>3 DEF StepSucceeds, StepFails
  <2>2. x.run = w[k].run /\ x.pc \in {"record", "wait"}
    BY <1>0, <2>1 DEF WorkerState
  <2> QED  BY <1>1, <1>3, <2>1, <2>2 DEF StepSucceeds, StepFails
<1>4. CASE StepNeedsApproval(k) \/ SubRunPauses(k)
  <2>1. PICK x :
          /\ w' = [w EXCEPT ![k] = x]
          /\ \/ x = [w[k] EXCEPT !.pc = "pause", !.wait = "tool"]
             \/ \E o \in Paused(ApprovalSteps) :
                  x = [w[k] EXCEPT !.pc = "pause", !.wait = "child",
                                   !.sub = [at |-> o.at, done |-> o.done]]
    BY <1>4 DEF StepNeedsApproval, SubRunPauses
  <2>2. x.run = w[k].run /\ x.pc = "pause"
    BY <1>0, <2>1 DEF WorkerState
  <2> QED  BY <1>1, <1>4, <2>1, <2>2 DEF StepNeedsApproval, SubRunPauses
<1>5. CASE DecideOutcome(k)
  <2> DEFINE c == w[k].cancelled \/ SeesCancel(k)
             m == IF c THEN "Cancelled" ELSE IF w[k].failed THEN "Failed" ELSE "Completed"
  <2>1. PICK x :
          /\ w' = [w EXCEPT ![k] = x]
          /\ x = Reading(k, [w[k] EXCEPT !.pc = "persist", !.cancelled = c, !.mem = m])
    BY <1>5 DEF DecideOutcome
  <2> HIDE DEF c, m
  <2>2. x.run = w[k].run /\ x.pc = "persist"
    BY <1>0, <2>1 DEF Reading, WorkerState
  <2> QED  BY <1>1, <1>5, <2>1, <2>2 DEF DecideOutcome
<1> QED  BY <1>2, <1>3, <1>4, <1>5

LEMMA MoveTrack ==
    ASSUME IInv, LInv, NEW k \in Workers,
           \/ LoopHead(k) \/ BeginAttempt(k) \/ StepSucceeds(k) \/ StepFails(k)
           \/ StepNeedsApproval(k) \/ SubRunPauses(k) \/ RetryWait(k)
           \/ DecideOutcome(k)
    PROVE  LInv' /\ \A q \in Runs : Follows(q)
<1>1. /\ w[k].pc # "idle" /\ w[k].pc # "finish"
      /\ w'[k].run = w[k].run /\ w'[k].pc \notin {"idle", "finish"}
      /\ \A m \in Workers \ {k} : w'[m] = w[m]
      /\ run' = run /\ effects' = effects /\ queue' = queue
  BY MovesOn DEF IInv
<1>2. Current(k)'
  BY <1>1 DEF LInv, Current
<1>3. \A m \in Workers :
        \/ w'[m] = w[m]
        \/ w'[m].pc = "idle"
        \/ Current(m)' /\ w[m].pc # "idle" /\ w'[m].run = w[m].run
  BY <1>1, <1>2
<1>4. run' = run /\ effects' = effects /\ queue' \subseteq queue
  BY <1>1
<1> QED  BY <1>3, <1>4, QuietTrack

\* A step of the loop that saves the run: its row stays as it is.
LEMMA SaveTrack ==
    ASSUME SnapshotIsolation, IInv, EInv, LInv, NEW k \in Workers,
           SkipStep(k) \/ BeginStep(k) \/ AbortStep(k) \/ RecordStep(k)
    PROVE  LInv' /\ \A q \in Runs : Follows(q)
<1> PICK r : r = w[k].run
  OBVIOUS
<1>0. w[k].pc \in {"skip", "begin", "record", "abort"} /\ w[k].pc # "idle" /\ queue' = queue
  BY DEF SkipStep, BeginStep, AbortStep, RecordStep
<1>1. /\ TypeOK /\ r \in Runs /\ Position(k) /\ w[k] \in WorkerState
      /\ w \in [Workers -> WorkerState] /\ run \in [Runs -> Row] /\ Current(k)
  BY <1>0, Owner DEF LInv
<1>2. PICK x : Checkpoint(k, x) /\ x.run = r /\ x.pc \in {"loop", "attempt", "final"}
               /\ DOMAIN x = DOMAIN w[k]
  <2>1. PICK x :
          /\ Checkpoint(k, x)
          /\ \/ x = NextStep(k, "loop") \/ x = Goto(k, "attempt") \/ x = Goto(k, "final")
             \/ x = [Goto(k, "final") EXCEPT !.failed = TRUE]
    BY DEF SkipStep, BeginStep, AbortStep, RecordStep
  <2>2. x.run = r /\ x.pc \in {"loop", "attempt", "final"} /\ DOMAIN x = DOMAIN w[k]
    BY <1>1, <2>1 DEF Goto, NextStep, WorkerState
  <2> QED  BY <2>1, <2>2
<1>3. PICK y : /\ w' = [w EXCEPT ![k] = y]
               /\ \/ y = [x EXCEPT !.mem = "Cancelled"]
                  \/ y = [x EXCEPT !.did = {}, !.view = "NoView"]
  BY <1>2 DEF Checkpoint
<1>4. y.run = r /\ y.pc \in {"loop", "attempt", "final"}
  BY <1>1, <1>2, <1>3 DEF WorkerState
<1>5. w'[k] = y /\ \A m \in Workers \ {k} : w'[m] = w[m]
  BY <1>1, <1>3
<1>6. \/ run' = run /\ effects' = effects
      \/ /\ run' = [run EXCEPT ![r].status = w[k].mem] /\ w[k].mem = "Running"
         /\ run[r].status = "Running" /\ effects' = Plus(w[k].did)
  <2>1. w[k].mem = "Running"
    BY <1>0, <1>1 DEF Position, InStep
  <2>2. w[k].pc \in {"skip", "begin", "record"} => run[r].status = "Running"
    BY <1>1, <1>2 DEF Position, Checkpoint, Conflict, Current
  <2>3. w[k].pc = "abort" => run[r].status = "Cancelled"
    BY <1>1, <1>2 DEF Position, Checkpoint, Conflict
  <2> QED  BY <1>0, <1>2, <2>1, <2>2, <2>3 DEF Checkpoint
<1>7. run'[r].status = run[r].status /\ \A q \in Runs \ {r} : run'[q] = run[q]
  BY <1>1, <1>6 DEF Row
<1>8. Current(k)'
  BY <1>0, <1>1, <1>4, <1>5, <1>7 DEF Current
<1>9. Grows(r) /\ \A q \in Runs \ {r} : effects'[q] = effects[q]
  BY <1>0, <1>6, OwnGrows, GrowsNone
<1>10. \A q \in Runs \cap {r} : Follows(q) /\ q = w[k].run
  BY <1>7, <1>9 DEF Follows, Changes
<1>11. \A q \in Runs \ {r} : run'[q] = run[q] /\ effects'[q] = effects[q]
  BY <1>7, <1>9
<1>12. Current(k)' /\ w'[k].run = w[k].run
  BY <1>4, <1>5, <1>8
<1> QED  BY <1>0, <1>5, <1>10, <1>11, <1>12, OwnTrack

LEMMA PersistTrack ==
    ASSUME IInv, EInv, AInv, LInv, NEW k \in Workers, PersistOutcome(k)
    PROVE  LInv' /\ \A q \in Runs : Follows(q)
<1> PICK r : r = w[k].run
  OBVIOUS
<1>0. w[k].pc = "persist" /\ w[k].pc # "idle" /\ w[k].pc # "finish" /\ queue' = queue
  BY DEF PersistOutcome
<1>1. /\ TypeOK /\ r \in Runs /\ w[k] \in WorkerState /\ Attended(k)
      /\ w \in [Workers -> WorkerState] /\ run \in [Runs -> Row]
      /\ run[r].status \in {"Running", "Cancelled"}
      /\ w[k].mem \in Terminal
  BY <1>0, Owner DEF LInv, Current, AInv, Attended
<1>2. PICK x :
        /\ w' = [w EXCEPT ![k] = x]
        /\ \/ /\ run' = run /\ effects' = effects /\ run[r].status \in Terminal
              /\ x = [Goto(k, "finish") EXCEPT !.mem = run[r].status,
                                               !.did = @ \cup Tally(k, FALSE)]
           \/ /\ run' = [run EXCEPT ![r].status = w[k].mem] /\ effects' = Plus(w[k].did)
              /\ run[r].status \notin Terminal \/ run[r].status = w[k].mem
              /\ x = [Goto(k, "finish") EXCEPT !.view = "NoView", !.did = Tally(k, TRUE)]
  BY DEF PersistOutcome
<1>3. x.pc = "finish" /\ x.run = r
  BY <1>1, <1>2 DEF Goto, WorkerState
<1>4. w'[k] = x /\ \A m \in Workers \ {k} : w'[m] = w[m]
  BY <1>1, <1>2
<1>5. /\ run'[r].status \in Terminal
      /\ run'[r].status = run[r].status \/ run[r].status = "Running"
      /\ \A q \in Runs \ {r} : run'[q] = run[q]
  BY <1>1, <1>2 DEF Row, Terminal
<1>6. Grows(r) /\ \A q \in Runs \ {r} : effects'[q] = effects[q]
  BY <1>0, <1>2, OwnGrows, GrowsNone
<1>7. \A q \in Runs \cap {r} : Follows(q) /\ q = w[k].run
  BY <1>5, <1>6 DEF Follows, Changes
<1>8. \A q \in Runs \ {r} : run'[q] = run[q] /\ effects'[q] = effects[q]
  BY <1>5, <1>6
<1>9. Current(k)' /\ w'[k].run = w[k].run
  BY <1>3, <1>4, <1>5 DEF Current
<1> QED  BY <1>0, <1>4, <1>7, <1>8, <1>9, OwnTrack

LEMMA PauseTrack ==
    ASSUME SnapshotIsolation, IInv, EInv, LInv, NEW k \in Workers, Pause(k)
    PROVE  LInv' /\ \A q \in Runs : Follows(q)
<1> PICK r, s : r = w[k].run /\ s = w[k].step
  OBVIOUS
<1>0. w[k].pc = "pause" /\ w[k].pc # "idle" /\ queue' = queue /\ Release(k)
  BY DEF Pause
<1>1. /\ TypeOK /\ r \in Runs /\ Position(k) /\ Consistent(k) /\ Current(k)
      /\ run \in [Runs -> Row] /\ w[k].did = {}
  BY <1>0, Owner DEF LInv, Uncommitted
<1>2. run[r].status = "Running"
  BY <1>0, <1>1 DEF Pause, Conflict, Current, Position
<1>3. w'[k].pc = "idle" /\ \A m \in Workers \ {k} : w'[m] = w[m]
  BY <1>0, Released
<1>4. CASE w[k].wait = "tool"
  <2>1. /\ run' = [run EXCEPT ![r] = WaitingRow(s, FALSE)] /\ effects' = Plus({})
    BY <1>1, <1>4 DEF Pause
  <2>2. /\ run'[r].status = "Waiting" /\ \A q \in Runs \ {r} : run'[q] = run[q]
        /\ \A q \in Runs : effects'[q] = effects[q]
    BY <1>1, <2>1, PlusNone DEF WaitingRow
  <2>3. Follows(r)
    BY <1>1, <1>2, <2>2 DEF Follows, Changes, Grows
  <2>4. \A q \in Runs \cap {r} : Follows(q) /\ q = w[k].run
    BY <2>3
  <2> QED  BY <1>0, <1>3, <2>2, <2>4, OwnTrack
<1>5. CASE w[k].wait = "child"
  <2> PICK c, a, d : c = ChildOf[r] /\ a = w[k].sub.at /\ d = w[k].sub.done
    OBVIOUS
  <2>0. r \in Roots /\ c \in Runs /\ c # r /\ run[c].status = "None"
    BY <1>0, <1>1, <1>5, RunTyping DEF Consistent
  <2> PICK C : C = {c} \X d
    OBVIOUS
  <2>1. /\ run' = [run EXCEPT ![r] = WaitingRow(s, TRUE), ![c] = WaitingRow(a, FALSE)]
        /\ effects' = Plus(C)
  <3>1. w[k].did \cup C = C
    BY <1>1
  <3> QED  BY <1>5, <3>1 DEF Pause, Suspended
  <2>2. /\ run'[r].status = "Waiting" /\ run'[c].status = "Waiting"
        /\ \A q \in Runs \ {r, c} : run'[q] = run[q]
    BY <1>1, <2>0, <2>1 DEF WaitingRow
  <2>3. \A q \in Runs \ {c} : effects'[q] = effects[q]
    BY <1>1, <2>1, PlusElsewhere
  <2>4. Grows(c)
    BY <1>1, <2>0, <2>1, GrowsNew
  <2>5. Grows(r)
    BY <1>1, <2>0, <2>3, GrowsNone
  <2>6. Follows(r) /\ Follows(c)
    BY <1>2, <2>0, <2>2, <2>4, <2>5 DEF Follows, Changes
  <2> PICK D : D = {r, c}
    OBVIOUS
  <2>7. \A q \in Runs \cap D : Follows(q) /\ (q = w[k].run \/ run[q].status = "None")
    BY <2>0, <2>6
  <2>8. \A q \in Runs \ D : run'[q] = run[q] /\ effects'[q] = effects[q]
    BY <2>2, <2>3
  <2> QED  BY <1>0, <1>3, <2>7, <2>8, OwnTrack
<1> QED  BY <1>4, <1>5 DEF Pause

LEMMA FinishTrack ==
    ASSUME IInv, EInv, LInv, NEW k \in Workers, EndJob(k) \/ ResumeParent(k) \/ FailParent(k)
    PROVE  LInv' /\ \A q \in Runs : Follows(q)
<1> PICK r : r = w[k].run
  OBVIOUS
<1>0. w[k].pc = "finish" /\ w[k].pc # "idle" /\ queue' = queue
  BY DEF EndJob, ResumeParent, FailParent
<1>1. /\ TypeOK /\ r \in Runs /\ run \in [Runs -> Row] /\ w \in [Workers -> WorkerState]
      /\ run[r].status \in Terminal /\ w[k].did \subseteq {<<r, 0>>}
  BY <1>0, Owner DEF LInv, Current, Uncommitted
<1>2. CASE EndJob(k)
  <2>1. /\ run' = run /\ effects' = Plus(w[k].did) /\ w'[k].pc = "idle"
        /\ \A m \in Workers \ {k} : w'[m] = w[m]
    BY <1>2, Released DEF EndJob
  <2>2. Grows(r) /\ \A q \in Runs \ {r} : effects'[q] = effects[q]
    BY <1>0, <2>1, OwnGrows
  <2>3. \A q \in Runs \cap {r} : Follows(q) /\ q = w[k].run
    BY <2>1, <2>2 DEF Follows, Changes
  <2>4. \A q \in Runs \ {r} : run'[q] = run[q] /\ effects'[q] = effects[q]
    BY <2>1, <2>2
  <2> QED  BY <1>0, <2>1, <2>3, <2>4, OwnTrack
<1>3. CASE FailParent(k)
  <2>1. PICK p \in Roots : ParentWaits(k, p) /\ run' = Invalidated(p)
    BY <1>3 DEF FailParent
  <2>2. p \in Runs /\ run[p].status = "Waiting" /\ run[p].kid /\ p # r
    BY <1>1, <2>1, RunTyping DEF ParentWaits, Terminal
  <2>3. /\ run'[p].status = "Failed" /\ \A q \in Runs \ {p} : run'[q] = run[q]
        /\ effects' = Plus(w[k].did) /\ w'[k].pc = "idle"
        /\ \A m \in Workers \ {k} : w'[m] = w[m]
    BY <1>1, <1>3, <2>1, <2>2, InvalidatedRow, Released DEF Terminal, FailParent
  <2>4. Grows(r) /\ \A q \in Runs \ {r} : effects'[q] = effects[q]
    BY <1>0, <2>3, OwnGrows
  <2>5. Grows(p)
    BY <2>2, <2>4, GrowsNone
  <2>6. Follows(r) /\ Follows(p)
    BY <1>1, <2>2, <2>3, <2>4, <2>5 DEF Follows, Changes
  <2> PICK D : D = {p, r}
    OBVIOUS
  <2>7. \A q \in Runs \cap D :
          Follows(q) /\ (q = w[k].run \/ (run[q].status = "Waiting" /\ run[q].kid))
    BY <2>2, <2>6
  <2>8. \A q \in Runs \ D : run'[q] = run[q] /\ effects'[q] = effects[q]
    BY <2>3, <2>4
  <2> QED  BY <1>0, <2>3, <2>7, <2>8, OwnTrack
<1>4. CASE ResumeParent(k)
  <2>1. PICK p \in Roots :
          /\ ParentWaits(k, p)
          /\ run' = Resumed(p)
          /\ effects' = Plus(w[k].did \cup {<<p, run[p].at>>})
          /\ w' = [w EXCEPT ![k] = Execute(p, ResumeAt(p), w[k].job)]
    BY <1>4 DEF ResumeParent
  <2>2. p \in Runs /\ run[p].status = "Waiting" /\ run[p].kid /\ p # r
    BY <1>1, <2>1, RunTyping DEF ParentWaits, Terminal
  <2> PICK a, C : a = run[p].at /\ C = w[k].did \cup {<<p, a>>}
    OBVIOUS
  <2>3. /\ run'[p].status = "Running" /\ \A q \in Runs \ {p} : run'[q] = run[q]
        /\ w'[k].run = p /\ w'[k].pc = "loop" /\ \A m \in Workers \ {k} : w'[m] = w[m]
    BY <1>1, <2>1, <2>2, ResumedRow DEF Execute, IdleWorker
  <2>4. effects' = Plus(C)
    BY <2>1
  <2>5. Grows(p)
    <3>1. a \in Steps /\ FreshFrom(p, a + 1) /\ effects[p][a] = 0
      BY <2>2 DEF EInv, RunSound, AtRest
    <3>2. \A t \in Steps : t >= a => effects[p][t] = 0
      <4>1. \A t \in Steps : t \in Nat /\ a \in Nat
        BY <3>1, StepsRange
      <4> QED  BY <3>1, <4>1 DEF FreshFrom
    <3>3. \A t \in Steps \ {a} : <<p, t>> \notin C
      BY <1>1, <2>2
    <3>4. run[p].status # "Queued"
      BY <2>2
    <3> QED  BY <1>1, <2>2, <2>4, <3>1, <3>2, <3>3, <3>4, GrowsAt
  <2>6. Grows(r)
    <3>1. \A t \in Steps : <<r, t>> \notin C
      BY <1>1, <2>2, StepsRange
    <3> QED  BY <1>1, <2>4, <3>1, GrowsNot
  <2> PICK D : D = {p, r}
    OBVIOUS
  <2>7. \A q \in Runs \ D : run'[q] = run[q] /\ effects'[q] = effects[q]
    <3>1. \A q \in Runs \ D, t \in 0 .. NSteps : <<q, t>> \notin C
      BY <1>1
    <3>2. \A q \in Runs \ D : effects'[q] = effects[q]
      BY <1>1, <2>4, <3>1, PlusElsewhere
    <3> QED  BY <2>3, <3>2
  <2>8. Follows(p) /\ Follows(r)
    BY <1>1, <2>2, <2>3, <2>5, <2>6 DEF Follows, Changes
  <2>9. \A q \in Runs \cap D :
          Follows(q) /\ (q = w[k].run \/ (run[q].status = "Waiting" /\ run[q].kid))
    BY <2>2, <2>8
  <2>10. Current(k)' /\ w'[k].run \in D
    BY <2>3 DEF Current
  <2> QED  BY <1>0, <2>3, <2>7, <2>9, <2>10, OwnTrack
<1> QED  BY <1>2, <1>3, <1>4

LEMMA ErrorTrack ==
    ASSUME IInv, EInv, LInv, NEW k \in Workers, ConflictAborts(k) \/ UnexpectedError(k)
    PROVE  LInv' /\ \A q \in Runs : Follows(q)
<1> PICK r : r = w[k].run
  OBVIOUS
<1>0. w[k].pc # "idle" /\ w[k].pc # "finish" /\ queue' = queue /\ Release(k)
  BY DEF ConflictAborts, UnexpectedError, Busy
<1>1. /\ TypeOK /\ r \in Runs /\ Consistent(k) /\ run \in [Runs -> Row]
      /\ run[r].status \in {"Running", "Cancelled"} /\ (w[k].pc = "pause" => w[k].did = {})
  BY <1>0, Owner DEF LInv, Current, Uncommitted
<1>2. /\ Invalidated(r)[r].status \in {"Failed", "Cancelled"}
      /\ Invalidated(r)[r].status = run[r].status \/ run[r].status = "Running"
      /\ \A q \in Runs \ {r} : Invalidated(r)[q] = run[q]
      /\ Invalidated(r) \in [Runs -> Row]
  BY <1>1, InvalidatedRow, InvalidatedTyping DEF Terminal
<1>3. w'[k].pc = "idle" /\ \A m \in Workers \ {k} : w'[m] = w[m]
  BY <1>0, Released
<1>4. CASE run' = run /\ effects' = effects
  <2>1. \A m \in Workers :
          \/ w'[m] = w[m]
          \/ w'[m].pc = "idle"
          \/ Current(m)' /\ w[m].pc # "idle" /\ w'[m].run = w[m].run
    BY <1>3
  <2>2. queue' \subseteq queue
    BY <1>0
  <2> QED  BY <1>4, <2>1, <2>2, QuietTrack
<1>5. CASE run' = Invalidated(r) /\ (effects' = effects \/ effects' = Plus(w[k].did))
  <2>1. Grows(r) /\ \A q \in Runs \ {r} : effects'[q] = effects[q]
    BY <1>0, <1>5, OwnGrows, GrowsNone
  <2>2. \A q \in Runs \cap {r} : Follows(q) /\ q = w[k].run
    BY <1>2, <1>5, <2>1 DEF Follows, Changes, Terminal
  <2>3. \A q \in Runs \ {r} : run'[q] = run[q] /\ effects'[q] = effects[q]
    BY <1>2, <1>5, <2>1
  <2> QED  BY <1>0, <1>3, <2>2, <2>3, OwnTrack
<1>6. CASE /\ w[k].pc = "pause" /\ w[k].wait = "child"
           /\ run' = [Invalidated(r) EXCEPT ![ChildOf[r]] = WaitingRow(w[k].sub.at, FALSE)]
           /\ effects' = Plus(w[k].did \cup ({ChildOf[r]} \X w[k].sub.done))
  <2> PICK c, d : c = ChildOf[r] /\ d = w[k].sub.done
    OBVIOUS
  <2>0. r \in Roots /\ c \in Runs /\ c # r /\ run[c].status = "None"
    BY <1>0, <1>1, <1>6, RunTyping DEF Consistent
  <2> PICK C : C = {c} \X d
    OBVIOUS
  <2>1. effects' = Plus(C)
    <3>1. w[k].did \cup C = C
      BY <1>1, <1>6
    <3> QED  BY <1>6, <3>1
  <2>2. /\ run'[r] = Invalidated(r)[r] /\ run'[c].status = "Waiting"
        /\ \A q \in Runs \ {r, c} : run'[q] = run[q]
    BY <1>1, <1>2, <1>6, <2>0 DEF WaitingRow
  <2>3. \A q \in Runs \ {c} : effects'[q] = effects[q]
    BY <1>1, <2>1, PlusElsewhere
  <2>4. Grows(c)
    BY <1>1, <2>0, <2>1, GrowsNew
  <2>5. Grows(r)
    BY <1>1, <2>0, <2>3, GrowsNone
  <2>6. Follows(r) /\ Follows(c)
    BY <1>2, <2>0, <2>2, <2>4, <2>5 DEF Follows, Changes, Terminal
  <2> PICK D : D = {r, c}
    OBVIOUS
  <2>7. \A q \in Runs \cap D : Follows(q) /\ (q = w[k].run \/ run[q].status = "None")
    BY <2>0, <2>6
  <2>8. \A q \in Runs \ D : run'[q] = run[q] /\ effects'[q] = effects[q]
    BY <2>2, <2>3
  <2> QED  BY <1>0, <1>3, <2>7, <2>8, OwnTrack
<1>7. CASE ConflictAborts(k)
  BY <1>5, <1>7 DEF ConflictAborts
<1>8. CASE UnexpectedError(k)
  <2>1. CASE Conflict(k)
    BY <1>4, <1>8, <2>1 DEF UnexpectedError
  <2>2. CASE ~Conflict(k) /\ w[k].pc = "pause" /\ w[k].wait = "child"
    BY <1>6, <1>8, <2>2 DEF UnexpectedError
  <2>3. CASE ~Conflict(k) /\ ~(w[k].pc = "pause" /\ w[k].wait = "child")
    <3>1. run' = Invalidated(r) /\ effects' = Plus(w[k].did \cup {})
      BY <1>8, <2>3 DEF UnexpectedError
    <3>2. w[k].did \cup {} = w[k].did
      OBVIOUS
    <3> QED  BY <1>5, <3>1, <3>2
  <2> QED  BY <2>1, <2>2, <2>3
<1> QED  BY <1>7, <1>8 

LEMMA ClaimTrack ==
    ASSUME IInv, EInv, LInv, NEW k \in Workers, Claim(k)
    PROVE  LInv' /\ \A q \in Runs : Follows(q)
<1>0. /\ TypeOK /\ w \in [Workers -> WorkerState] /\ run \in [Runs -> Row]
      /\ w[k].pc = "idle"
  BY DEF IInv, TypeOK, Claim, ClaimExec, ClaimResume, ClaimInvalid, ClaimSkip, Take
<1>1. ASSUME NEW j \in queue, NEW r, r = j.run, queue' = queue \ {j},
             run[r].status \notin Terminal, run'[r].status = "Running",
             run[r].status \in {"Queued", "Waiting"},
             \A q \in Runs \ {r} : run'[q] = run[q],
             \A q \in Runs : effects'[q] = effects[q],
             w'[k].pc = "loop", w'[k].run = r, \A m \in Workers \ {k} : w'[m] = w[m]
      PROVE  LInv' /\ \A q \in Runs : Follows(q)
  <2>1. r \in Runs /\ JobFits(j)
    BY <1>0, <1>1, JobTyping DEF TypeOK, LInv
  <2>2. \A i \in queue' : i \in queue /\ i.run \notin {r}
    BY <1>1, OneJob
  <2>3. \A m \in Workers \ {k} :
          w'[m].pc = "idle" \/ (w'[m] = w[m] /\ run'[w[m].run] = run[w[m].run])
    BY <1>1, <2>1, BusyWorker DEF JobFits
  <2>4. Current(k)' /\ w'[k].run \in {r}
    BY <1>1 DEF Current
  <2>5. \A m \in Workers :
          \/ w'[m].pc = "idle"
          \/ w'[m] = w[m] /\ run'[w[m].run] = run[w[m].run]
          \/ Current(m)' /\ (w'[m].run \in {r} \/ (w[m].pc # "idle" /\ w'[m].run = w[m].run))
    BY <2>3, <2>4
  <2>6. \A q \in Runs \cap {r} : Follows(q)
    BY <1>1, <2>1, GrowsNone DEF Follows, Changes
  <2>7. \A q \in Runs \ {r} : run'[q] = run[q] /\ effects'[q] = effects[q]
    BY <1>1
  <2>8. \A i \in queue' : (i \in queue /\ i.run \notin {r}) \/ JobFits(i)'
    BY <2>2
  <2> QED  BY <2>5, <2>6, <2>7, <2>8, TrackFrame
<1>2. CASE ClaimExec(k)
  <2>1. PICK r \in Roots :
          /\ run[r].status = "Queued" /\ run' = [run EXCEPT ![r].status = "Running"]
          /\ w' = [w EXCEPT ![k] = Execute(r, 1, ExecJob(r))]
          /\ ExecJob(r) \in queue /\ queue' = queue \ {ExecJob(r)} /\ effects' = effects
    BY <1>2 DEF ClaimExec, Claimable, Take
  <2>2. r \in Runs /\ ExecJob(r).run = r
    BY RunTyping, JobTyping
  <2>3. run'[r].status = "Running" /\ \A q \in Runs \ {r} : run'[q] = run[q]
    BY <1>0, <2>1, <2>2 DEF Row
  <2>4. /\ w'[k].pc = "loop" /\ w'[k].run = r /\ \A m \in Workers \ {k} : w'[m] = w[m]
    BY <1>0, <2>1 DEF Execute, IdleWorker
  <2>5. run[r].status \notin Terminal /\ run[r].status \in {"Queued", "Waiting"}
    BY <2>1 DEF Terminal
  <2> QED  BY <1>1, <2>1, <2>2, <2>3, <2>4, <2>5
<1>3. CASE ClaimResume(k)
  <2>1. PICK p \in Runs, s \in Steps :
          /\ run[p].status = "Waiting" /\ run' = Resumed(p)
          /\ w' = [w EXCEPT ![k] = Execute(p, ResumeAt(p), ResumeJob(p, s))]
          /\ ResumeJob(p, s) \in queue /\ queue' = queue \ {ResumeJob(p, s)}
          /\ effects' = Plus(IF run[p].kid THEN {<<p, run[p].at>>} ELSE {})
    BY <1>3 DEF ClaimResume, Take
  <2>2. ResumeJob(p, s).run = p /\ ~run[p].kid
    BY <2>1, JobTyping DEF LInv, JobFits, Terminal
  <2>3. run'[p].status = "Running" /\ \A q \in Runs \ {p} : run'[q] = run[q]
    BY <1>0, <2>1, ResumedRow
  <2>4. /\ w'[k].pc = "loop" /\ w'[k].run = p /\ \A m \in Workers \ {k} : w'[m] = w[m]
    BY <1>0, <2>1 DEF Execute, IdleWorker
  <2>5. run[p].status \notin Terminal /\ run[p].status \in {"Queued", "Waiting"}
    BY <2>1 DEF Terminal
  <2>6. \A q \in Runs : effects'[q] = effects[q]
    BY <1>0, <2>1, <2>2, PlusNone
  <2> QED  BY <1>1, <2>1, <2>2, <2>3, <2>4, <2>5, <2>6
<1>4. CASE ClaimInvalid(k)
  <2>1. PICK j \in queue :
          queue' = queue \ {j} /\ run' = Invalidated(j.run) /\ w' = w /\ effects' = effects
    BY <1>4 DEF ClaimInvalid, Take
  <2> PICK r : r = j.run
    OBVIOUS
  <2>2. r \in Runs /\ JobFits(j)
    BY <1>0, <2>1, JobTyping DEF TypeOK, LInv
  <2>3. /\ run'[r].status \in Terminal
        /\ run'[r].status = run[r].status
           \/ (run'[r].status = "Failed" /\ run[r].status \in {"Queued", "Waiting"})
        /\ \A q \in Runs \ {r} : run'[q] = run[q]
    BY <1>0, <2>1, <2>2, InvalidatedRow DEF Terminal, JobFits
  <2>4. \A i \in queue' : (i \in queue /\ i.run \notin {r}) \/ JobFits(i)'
    BY <2>1, <2>2, <2>3 DEF JobFits
  <2>5. \A m \in Workers :
          \/ w'[m].pc = "idle"
          \/ w'[m] = w[m] /\ run'[w[m].run] = run[w[m].run]
          \/ Current(m)' /\ (w'[m].run \in {r} \/ (w[m].pc # "idle" /\ w'[m].run = w[m].run))
    BY <2>1, <2>2, <2>3, BusyWorker DEF JobFits
  <2>6. \A q \in Runs \cap {r} : Follows(q)
    BY <2>1, <2>3, GrowsNone DEF Follows, Changes
  <2>7. \A q \in Runs \ {r} : run'[q] = run[q] /\ effects'[q] = effects[q]
    BY <2>1, <2>3
  <2> QED  BY <2>4, <2>5, <2>6, <2>7, TrackFrame
<1>5. CASE ClaimSkip(k)
  <2>1. run' = run /\ effects' = effects /\ queue' \subseteq queue /\ w' = w
    BY <1>5 DEF ClaimSkip, Take
  <2>2. \A m \in Workers :
          \/ w'[m] = w[m]
          \/ w'[m].pc = "idle"
          \/ Current(m)' /\ w[m].pc # "idle" /\ w'[m].run = w[m].run
    BY <2>1
  <2> QED  BY <2>1, <2>2, QuietTrack
<1> QED  BY <1>2, <1>3, <1>4, <1>5 DEF Claim

LEMMA CancelTrack ==
    ASSUME IInv, LInv, NEW r \in Runs, CancelRun(r)
    PROVE  LInv' /\ \A q \in Runs : Follows(q)
<1>1. /\ run \in [Runs -> Row] /\ run' = [run EXCEPT ![r].status = "Cancelled"]
      /\ run[r].status \in {"Queued", "Running", "Waiting"}
      /\ effects' = effects /\ queue' \subseteq queue
  BY DEF IInv, TypeOK, CancelRun, Cancellable
<1>2. run'[r].status = "Cancelled" /\ \A q \in Runs \ {r} : run'[q] = run[q]
  BY <1>1 DEF Row
<1>3. \A m \in Workers : w'[m].pc = "idle" \/ w'[m] = w[m]
  BY Released DEF CancelRun
<1>4. \A i \in queue' : (i \in queue /\ i.run \notin {r}) \/ JobFits(i)'
  <2> SUFFICES ASSUME NEW i \in queue', i.run = r PROVE JobFits(i)'
    BY <1>1
  <2>1. JobFits(i)
    BY <1>1 DEF LInv
  <2>2. \A m \in Workers : w'[m].pc # "idle" => w'[m].run # i.run
    BY <1>3, <2>1 DEF JobFits
  <2> QED  BY <1>2, <2>2 DEF JobFits, Terminal
<1>5. \A m \in Workers :
        \/ w'[m].pc = "idle"
        \/ w'[m] = w[m] /\ run'[w[m].run] = run[w[m].run]
        \/ Current(m)' /\ (w'[m].run \in {r} \/ (w[m].pc # "idle" /\ w'[m].run = w[m].run))
  <2> SUFFICES ASSUME NEW m \in Workers, w'[m].pc # "idle", w'[m] = w[m], w[m].pc # "idle",
                      run'[w[m].run] # run[w[m].run]
               PROVE  Current(m)' /\ w'[m].run \in {r}
    BY <1>3
  <2>1. w[m].run = r /\ Current(m)
    BY <1>2, BusyWorker DEF LInv
  <2>2. w[m].pc # "finish"
    BY <1>1, <2>1 DEF Current, Terminal
  <2> QED  BY <1>2, <2>1, <2>2 DEF Current
<1>6. \A q \in Runs \cap {r} : Follows(q)
  BY <1>1, <1>2, GrowsNone DEF Follows, Changes, Terminal
<1>7. \A q \in Runs \ {r} : run'[q] = run[q] /\ effects'[q] = effects[q]
  BY <1>1, <1>2
<1> QED  BY <1>4, <1>5, <1>6, <1>7, TrackFrame

\* A step of a person that touches runs nobody works on.
LEMMA OutsideTrack ==
    ASSUME IInv, LInv, w' = w, NEW D,
           \A q \in Runs \ D : run'[q] = run[q] /\ effects'[q] = effects[q],
           \A q \in Runs \cap D : Follows(q),
           \A j \in queue' : (j \in queue /\ j.run \notin D) \/ JobFits(j)',
           \A m \in Workers : w[m].pc # "idle" => w[m].run \notin D
    PROVE  LInv' /\ \A q \in Runs : Follows(q)
<1>1. \A m \in Workers :
        \/ w'[m].pc = "idle"
        \/ w'[m] = w[m] /\ run'[w[m].run] = run[w[m].run]
        \/ Current(m)' /\ (w'[m].run \in D \/ (w[m].pc # "idle" /\ w'[m].run = w[m].run))
  BY BusyWorker
<1> QED  BY <1>1, TrackFrame

LEMMA RequestTrack ==
    ASSUME IInv, EInv, LInv, SnapshotIsolation, NEW u \in Users,
           \/ OpenRequest(u) \/ Approve(u) \/ ApproveFails(u) \/ Reject(u)
           \/ AbortRequest(u)
    PROVE  LInv' /\ \A q \in Runs : Follows(q)
<1> PICK r, s : r = req[u].run /\ s = req[u].step
  OBVIOUS
<1>1. TypeOK /\ r \in Runs /\ (req[u].pc = "open" => s \in Steps)
  BY DEF IInv, TypeOK, RequestState, Named
<1>2. CASE OpenRequest(u) \/ AbortRequest(u) \/ ApproveFails(u)
  <2>1. run' = run /\ effects' = effects /\ queue' \subseteq queue /\ w' = w
    BY <1>2 DEF OpenRequest, AbortRequest, ApproveFails
  <2>2. \A m \in Workers :
          \/ w'[m] = w[m]
          \/ w'[m].pc = "idle"
          \/ Current(m)' /\ w[m].pc # "idle" /\ w'[m].run = w[m].run
    BY <2>1
  <2> QED  BY <2>1, <2>2, QuietTrack
<1>3. ASSUME InvLocked(u)
      PROVE  /\ s \in Steps /\ run[r].status \in {"Waiting", "Cancelled", "Failed"}
             /\ \A t \in Steps : t >= s => effects[r][t] = 0
             /\ \A m \in Workers : w[m].pc # "idle" => w[m].run # r
             /\ run[r].status = "Waiting" => ~run[r].kid /\ run[r].at = s
  <2>1. s \in Steps /\ inv[r][s] = "Pending" /\ RunSound(r)
    BY <1>1, <1>3 DEF InvLocked, EInv
  <2>2. ASSUME run[r].status = "Waiting" PROVE ~run[r].kid /\ run[r].at = s
    <3> PICK a : a = run[r].at
      OBVIOUS
    <3>1. AtRest(r) /\ a \in Steps /\ a \in Nat /\ s \in Nat
      BY <2>1, <2>2, StepsRange DEF RunSound, AtRest
    <3>2. ~(s < a)
      BY <2>1, <3>1 DEF AtRest, DoneBefore
    <3>3. ~(s >= a + 1)
      BY <2>1, <3>1 DEF AtRest, FreshFrom
    <3>4. s = a
      BY <3>1, <3>2, <3>3
    <3> QED  BY <2>1, <3>1, <3>4 DEF AtRest
  <2> QED  BY <2>1, <2>2 DEF RunSound, Unanswered
<1>4. CASE Approve(u)
  <2> PICK C : C = {<<r, s>>}
    OBVIOUS
  <2>1. /\ InvLocked(u) /\ run' = run /\ w' = w /\ effects' = Plus(C)
        /\ queue' = IF run[r].status = "Waiting" THEN queue \cup {ResumeJob(r, s)} ELSE queue
    BY <1>4 DEF Approve, Requeues
  <2>2. Grows(r)
    <3>1. run[r].status # "Queued" /\ \A t \in Steps \ {s} : <<r, t>> \notin C
      BY <1>3, <2>1
    <3> QED  BY <1>1, <1>3, <2>1, <3>1, GrowsAt
  <2>3. \A q \in Runs \ {r} : effects'[q] = effects[q]
    BY <1>1, <2>1, PlusElsewhere
  <2>4. \A i \in queue' : (i \in queue /\ i.run \notin {r}) \/ JobFits(i)'
    <3>1. ASSUME NEW i \in queue PROVE JobFits(i)'
      BY <2>1, <3>1 DEF LInv, JobFits
    <3>2. ASSUME run[r].status = "Waiting" PROVE JobFits(ResumeJob(r, s))'
      <4>1. ResumeJob(r, s).kind = "resume" /\ ResumeJob(r, s).at = s /\ ResumeJob(r, s).run = r
        BY DEF ResumeJob
      <4> HIDE DEF ResumeJob
      <4> QED  BY <1>3, <2>1, <3>2, <4>1 DEF JobFits
    <3> QED  BY <2>1, <3>1, <3>2
  <2>5. \A q \in Runs \cap {r} : Follows(q)
    BY <2>1, <2>2 DEF Follows, Changes
  <2>6. \A q \in Runs \ {r} : run'[q] = run[q] /\ effects'[q] = effects[q]
    BY <2>1, <2>3
  <2>7. \A m \in Workers : w[m].pc # "idle" => w[m].run \notin {r}
    BY <1>3, <2>1
  <2> QED  BY <2>1, <2>4, <2>5, <2>6, <2>7, OutsideTrack
<1>5. CASE Reject(u)
  <2>1. /\ InvLocked(u) /\ w' = w /\ effects' = effects /\ queue' = queue
        /\ run' = IF run[r].status = "Waiting" THEN Invalidated(r) ELSE run
    BY <1>5 DEF Reject
  <2>2. /\ run'[r].status \in Terminal
        /\ run'[r].status = run[r].status
           \/ (run[r].status = "Waiting" /\ run'[r].status = "Failed")
        /\ \A q \in Runs \ {r} : run'[q] = run[q]
    BY <1>1, <1>3, <2>1, InvalidatedRow DEF Terminal
  <2>3. \A i \in queue' : (i \in queue /\ i.run \notin {r}) \/ JobFits(i)'
    BY <1>3, <2>1, <2>2 DEF JobFits
  <2>4. \A q \in Runs \cap {r} : Follows(q)
    BY <2>1, <2>2, GrowsNone DEF Follows, Changes
  <2>5. \A q \in Runs \ {r} : run'[q] = run[q] /\ effects'[q] = effects[q]
    BY <2>1, <2>2
  <2>6. \A m \in Workers : w[m].pc # "idle" => w[m].run \notin {r}
    BY <1>3, <2>1
  <2> QED  BY <2>1, <2>3, <2>4, <2>5, <2>6, OutsideTrack
<1> QED  BY <1>2, <1>4, <1>5

LEMMA StartTrack ==
    ASSUME IInv, LInv, NEW r \in Roots,
           \/ StartRun(r) \/ RunInline(r) \/ RunInlineNested(r)
           \/ \E old \in Runs : RetryRun(old, r)
    PROVE  LInv' /\ \A q \in Runs : Follows(q)
<1> PICK c : c = ChildOf[r]
  OBVIOUS
<1>0. /\ r \in Runs /\ c \in Runs /\ c # r /\ run \in [Runs -> Row] /\ TypeOK
      /\ run[r].status = "None" /\ w' = w
  BY RunTyping DEF IInv, TypeOK, StartRun, RunInline, RunInlineNested, RetryRun, Enqueue
<1>1. \A q \in Runs : run[q].status = "None" =>
        /\ \A m \in Workers : w[m].pc # "idle" => w[m].run # q
        /\ \A j \in queue : j.run # q
  BY Unattended, NoJobs DEF Working, Terminal
<1>2. CASE StartRun(r) \/ \E old \in Runs : RetryRun(old, r)
  <2>1. /\ run' = [run EXCEPT ![r].status = "Queued"] /\ queue' = queue \cup {ExecJob(r)}
        /\ effects' = effects
    BY <1>2 DEF StartRun, RetryRun, Enqueue
  <2>2. run'[r].status = "Queued" /\ \A q \in Runs \ {r} : run'[q] = run[q]
    BY <1>0, <2>1 DEF Row
  <2>3. JobFits(ExecJob(r))'
    <3>1. ExecJob(r).kind = "exec" /\ ExecJob(r).run = r
      BY DEF ExecJob
    <3>2. \A m \in Workers : w'[m].pc # "idle" => w'[m].run # r
      BY <1>0, <1>1
    <3> HIDE DEF ExecJob
    <3> QED  BY <2>2, <3>1, <3>2 DEF JobFits
  <2>4. \A j \in queue' : (j \in queue /\ j.run \notin {r}) \/ JobFits(j)'
    BY <1>0, <1>1, <2>1, <2>3
  <2>5. \A q \in Runs \cap {r} : Follows(q)
    BY <1>0, <2>1, <2>2, GrowsNone DEF Follows, Changes
  <2>6. \A q \in Runs \ {r} : run'[q] = run[q] /\ effects'[q] = effects[q]
    BY <2>1, <2>2
  <2>7. \A m \in Workers : w[m].pc # "idle" => w[m].run \notin {r}
    BY <1>0, <1>1
  <2> QED  BY <1>0, <2>4, <2>5, <2>6, <2>7, OutsideTrack
<1>3. CASE RunInline(r)
  <2>1. PICK o \in Finished \cup Aborted \cup Paused(ApprovalSteps) :
          /\ run' = [run EXCEPT ![r] =
                      IF o.status = "Waiting" THEN WaitingRow(o.at, FALSE)
                      ELSE [@ EXCEPT !.status = o.status]]
          /\ effects' = Plus({<<r, t>> : t \in
                              IF o.status = "Waiting" THEN o.done ELSE o.done \cup {0}})
    BY <1>3 DEF RunInline
  <2>2. o.status \in {"Waiting", "Completed", "Failed"}
    BY DEF Finished, Aborted, Paused
  <2>3. run'[r].status = o.status /\ \A q \in Runs \ {r} : run'[q] = run[q]
    BY <1>0, <2>1, <2>2 DEF Row, WaitingRow
  <2> PICK d, C : /\ d = IF o.status = "Waiting" THEN o.done ELSE o.done \cup {0}
                  /\ C = {<<r, t>> : t \in d}
    OBVIOUS
  <2>4. effects' = Plus(C)
    BY <2>1
  <2>5. Grows(r)
    BY <1>0, <2>4, GrowsNew
  <2>6. \A q \in Runs \ {r} : effects'[q] = effects[q]
    <3>1. \A q \in Runs \ {r}, t \in 0 .. NSteps : <<q, t>> \notin C
      OBVIOUS
    <3> QED  BY <1>0, <2>4, <3>1, PlusElsewhere
  <2>7. \A j \in queue' : (j \in queue /\ j.run \notin {r}) \/ JobFits(j)'
    BY <1>0, <1>1, <1>3 DEF RunInline
  <2>8. \A q \in Runs \cap {r} : Follows(q)
    BY <1>0, <2>2, <2>3, <2>5 DEF Follows, Changes
  <2>9. \A q \in Runs \ {r} : run'[q] = run[q] /\ effects'[q] = effects[q]
    BY <2>3, <2>6
  <2>10. \A m \in Workers : w[m].pc # "idle" => w[m].run \notin {r}
    BY <1>0, <1>1
  <2> QED  BY <1>0, <2>7, <2>8, <2>9, <2>10, OutsideTrack
<1>4. CASE RunInlineNested(r)
  <2>1. PICK o \in Paused(NestedSteps), sub \in Paused(ApprovalSteps) :
          /\ run' = Suspended(r, o.at, sub)
          /\ effects' = Plus(({r} \X o.done) \cup ({c} \X sub.done))
    BY <1>4 DEF RunInlineNested
  <2> PICK D, C : D = {r, c} /\ C = ({r} \X o.done) \cup ({c} \X sub.done)
    OBVIOUS
  <2>2. run[c].status = "None" /\ queue' = queue
    BY <1>4 DEF RunInlineNested
  <2>3. /\ run'[r].status = "Waiting" /\ run'[c].status = "Waiting"
        /\ \A q \in Runs \ D : run'[q] = run[q]
    BY <1>0, <2>1 DEF Suspended, WaitingRow
  <2>4. effects' = Plus(C)
    BY <2>1
  <2>5. Grows(r) /\ Grows(c)
    BY <1>0, <2>2, <2>4, GrowsNew
  <2>6. \A q \in Runs \ D : effects'[q] = effects[q]
    <3>1. \A q \in Runs \ D, t \in 0 .. NSteps : <<q, t>> \notin C
      OBVIOUS
    <3> QED  BY <1>0, <2>4, <3>1, PlusElsewhere
  <2>7. \A j \in queue' : (j \in queue /\ j.run \notin D) \/ JobFits(j)'
    BY <1>0, <1>1, <2>2
  <2>8. \A q \in Runs \cap D : Follows(q)
    BY <1>0, <2>2, <2>3, <2>5 DEF Follows, Changes
  <2>9. \A q \in Runs \ D : run'[q] = run[q] /\ effects'[q] = effects[q]
    BY <2>3, <2>6
  <2>10. \A m \in Workers : w[m].pc # "idle" => w[m].run \notin D
    BY <1>0, <1>1, <2>2
  <2> QED  BY <1>0, <2>7, <2>8, <2>9, <2>10, OutsideTrack
<1> QED  BY <1>2, <1>3, <1>4

LEMMA LossTrack ==
    ASSUME IInv, LInv, run' = run, effects' = effects, queue' \subseteq queue,
           w' = w \/ \E k \in Workers : Release(k)
    PROVE  LInv' /\ \A q \in Runs : Follows(q)
<1>1. \A m \in Workers :
        \/ w'[m] = w[m]
        \/ w'[m].pc = "idle"
        \/ Current(m)' /\ w[m].pc # "idle" /\ w'[m].run = w[m].run
  BY Released
<1> QED  BY <1>1, QuietTrack

LEMMA TrackStep ==
    ASSUME SnapshotIsolation, ~Redelivery, IInv, EInv, AInv, LInv, [Next]_vars
    PROVE  LInv' /\ \A q \in Runs : Follows(q)
<1>1. ASSUME NEW r \in Roots,
             \/ StartRun(r) \/ RunInline(r) \/ RunInlineNested(r)
             \/ \E old \in Runs : RetryRun(old, r)
      PROVE  LInv' /\ \A q \in Runs : Follows(q)
  BY <1>1, StartTrack
<1>2. ASSUME NEW k \in Workers,
             Claim(k) \/ StepOf(k) \/ UnexpectedError(k) \/ Crash(k) \/ Redeliver(k)
      PROVE  LInv' /\ \A q \in Runs : Follows(q)
  <2>1. CASE Crash(k)
    BY <2>1, LossTrack DEF Crash
  <2>2. ~Redeliver(k)
    BY DEF Redeliver
  <2> QED  BY <1>2, <2>1, <2>2, ClaimTrack, ErrorTrack, MoveTrack, SaveTrack,
           PauseTrack, PersistTrack, FinishTrack DEF StepOf
<1>3. CASE LoseJob
  BY <1>3, LossTrack DEF LoseJob
<1>4. ASSUME NEW r \in Runs, CancelRun(r) PROVE LInv' /\ \A q \in Runs : Follows(q)
  BY <1>4, CancelTrack
<1>5. ASSUME NEW u \in Users,
             \/ OpenRequest(u) \/ Approve(u) \/ ApproveFails(u) \/ Reject(u)
             \/ AbortRequest(u)
      PROVE  LInv' /\ \A q \in Runs : Follows(q)
  BY <1>5, RequestTrack
<1>6. CASE UNCHANGED vars
  BY <1>6, LossTrack DEF vars
<1> QED  BY <1>1, <1>2, <1>3, <1>4, <1>5, <1>6 DEF Next

LEMMA LifecycleInit == Init => LInv /\ Lifecycle!Init
<1> SUFFICES ASSUME Init PROVE LInv /\ Lifecycle!Init
  OBVIOUS
<1>1. LInv
  BY DEF Init, IdleWorker, LInv, Current
<1>2. \A r \in Runs : run[r].status = "None"
  BY DEF Init
<1>3. \A r \in Runs : {s \in Steps : effects[r][s] > 0} = {}
  BY StepsRange DEF Init
<1> QED  BY <1>1, <1>2, <1>3 DEF Lifecycle!Init

LEMMA LifecycleStep ==
    ASSUME SnapshotIsolation, ~Redelivery, IInv, EInv, AInv, LInv, [Next]_vars,
           IInv', EInv'
    PROVE  [Lifecycle!Next]_(Lifecycle!lifecycle)
<1>1. \A r \in Runs : Follows(r)
  BY TrackStep
<1>2. TypeOK' /\ run' \in [Runs -> Row]
  BY DEF IInv, TypeOK
<1>3. \A r \in Runs : Lifecycle!Moves(r) /\ Lifecycle!Advances(r)
  BY <1>1, <1>2, FollowsMoves
<1>4. ([r \in Runs |-> run[r].status])' \in [Runs -> Lifecycle!States]
  BY <1>2 DEF Row, Status, Cancellable, Terminal, Lifecycle!States, Lifecycle!Final
<1>5. ([r \in Runs |-> {s \in Steps : effects[r][s] > 0}])' \in [Runs -> SUBSET Lifecycle!Steps]
  BY DEF Steps, Lifecycle!Steps
<1> QED  BY <1>3, <1>4, <1>5 DEF Lifecycle!Next

\* The engine implements the run lifecycle: on a server with snapshot isolation
\* and while RQ delivers each job once, the rows and step executions that the
\* workers, the approvals, the cancellations and the crashes commit are those of
\* a run that does its steps in order, one by one, is Completed only with all
\* the steps it must do, and never leaves a final state.
THEOREM RefinesLifecycle ==
    SnapshotIsolation /\ ~Redelivery => (Spec => ImplementsLifecycle)
<1> SUFFICES ASSUME SnapshotIsolation, ~Redelivery PROVE Spec => ImplementsLifecycle
  OBVIOUS
<1>1. Spec => []EInv
  <2>1. IInv /\ EInv /\ [Next]_vars => EInv'
    BY EffectsStep
  <2> QED  BY <2>1, EffectsInit, Invariant, PTL DEF Spec
<1>2. Spec => []AInv
  <2>1. IInv /\ AInv /\ [Next]_vars => AInv'
    BY DrivenStep
  <2> QED  BY <2>1, DrivenInit, Invariant, PTL DEF Spec
<1>3. IInv /\ EInv /\ AInv /\ LInv /\ [Next]_vars => LInv'
  BY TrackStep
<1>4. IInv /\ EInv /\ AInv /\ LInv /\ [Next]_vars /\ IInv' /\ EInv'
        => [Lifecycle!Next]_(Lifecycle!lifecycle)
  BY LifecycleStep
<1> QED
  BY <1>1, <1>2, <1>3, <1>4, LifecycleInit, Invariant, PTL
  DEF Spec, ImplementsLifecycle, Lifecycle!Spec
=============================================================================
