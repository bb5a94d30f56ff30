------------------------ MODULE TasksAndTurns_proofs ------------------------
(* Proofs about two components that do not touch each other: AI tasks and     *)
(* conversation turns.                                                        *)
(*                                                                            *)
(* TaskLifecycle: type correctness and safety for any tasks and any workers,  *)
(* and any number of retries, deaths and jobs handed out twice.               *)
(*                                                                            *)
(* ConversationTurns: for any conversations, agents and turns, and any number *)
(* of edits, failures and tool calls, the messages of a conversation are      *)
(* numbered without a gap and without a double, message_count is right, a     *)
(* turn that was committed had seen all that was said before it, and the      *)
(* history the model is shown keeps the results of tools with the answer that *)
(* asked for them.                                                            *)
EXTENDS TaskLifecycle, ConversationTurns, FunctionTheorems, FiniteSetTheorems, SequenceTheorems,
        WellFoundedInduction, TLAPS

(* The inductive invariant.                                                *)

\* The lock of a row has one owner: an execution or the claiming job.
Exclusive ==
    /\ OneExecution
    /\ \A k \in Workers : At(k, "executing") => w[k].task \notin sched.held

\* The row that an execution locked stays as it was found.
Begun == \A k \in Workers : At(k, "executing") => task[w[k].task] \in Executable

\* So do the rows that the scheduler will change.
Claims ==
    /\ sched.ask \cup sched.start \subseteq sched.held
    /\ \A t \in sched.ask \cup sched.start : task[t] = "Open"
    /\ sched.start \cap Governed = {}
    /\ sched.ask \subseteq Governed
    /\ sched.jobs \subseteq sched.start

\* Unsettled tasks have an execution left.
Accounting ==
    \A t \in Tasks :
        /\ settled[t] <= 1 + retries[t]
        /\ task[t] \in {"Open", "Pending Approval", "In Progress"} => settled[t] <= retries[t]

\* Approve goes on to In Progress before it commits.
NeverApproved == \A t \in Tasks : task[t] # "Approved"

StartedWhenCleared ==
    \A t \in Governed : task[t] = "In Progress" => t \in cleared

\* A job that is still to settle its task.
Pending(t) == t \in queue \/ \E k \in Workers : w[k].pc \in {"taken", "executing"} /\ w[k].task = t

Driven == \A t \in Tasks \ stranded : task[t] = "In Progress" => Pending(t)

\* While RQ hands out every job once, a task has one job, made when the task
\* went In Progress.
OneJob ==
    copies = 0 =>
        /\ \A k \in Workers : ~At(k, "idle") =>
            /\ w[k].task \notin queue
            /\ \A j \in Workers : ~At(j, "idle") /\ w[j].task = w[k].task => j = k
        /\ \A t \in sched.jobs : ~HasJob(t)
        /\ \A t \in Tasks : Pending(t) => task[t] \in {"In Progress", "Cancelled"}

TaskInv ==
    /\ TaskTypeOK
    /\ Exclusive
    /\ Begun
    /\ Claims
    /\ Accounting
    /\ NeverApproved
    /\ StartedWhenCleared
    /\ Driven
    /\ OneJob

-----------------------------------------------------------------------------
(* Types.                                                                  *)

LEMMA RunResultTypes ==
    /\ \A s \in RunResults : s \in Lifecycle!States /\ Result(s) \in Status
    /\ \A s \in Lifecycle!States : Lifecycle!Successors(s) \subseteq Lifecycle!States
  BY DEF RunResults, Result, Lifecycle!Successors, Lifecycle!States, Lifecycle!Final, Status

LEMMA LegalTypes == \A s : LEGAL_TRANSITIONS(s) \subseteq Status
  BY DEF LEGAL_TRANSITIONS, Status

LEMMA IdleType == IdleWorker \in WorkerState /\ NoClaims \in SchedState
<1>1. AnyTask \in Tasks
  BY TasksAssumption DEF AnyTask
<1> QED  BY <1>1 DEF IdleWorker, NoClaims, WorkerState, SchedState

LEMMA WriteTypes ==
  ASSUME TaskTypeOK, NEW t \in Tasks, NEW s \in Status, Write(t, s)
  PROVE  task' \in [Tasks -> Status] /\ current' \subseteq Readers \X Tasks
  BY DEF TaskTypeOK, Write, Outdate

LEMMA SendTypes ==
  ASSUME TaskTypeOK, NEW ts \in SUBSET Tasks, NEW js \in SUBSET Tasks, Send(ts, js)
  PROVE  /\ queue' \subseteq Tasks
         /\ stranded' \subseteq Tasks
         /\ crashes' \in 0 .. MaxCrashes
<1>1. CASE UNCHANGED crashes
  BY <1>1 DEF TaskTypeOK, Send
<1>2. CASE crashes < MaxCrashes /\ crashes' = crashes + 1 /\ UNCHANGED queue
            /\ stranded' = stranded \cup ts
  BY <1>2, BoundsAssumption DEF TaskTypeOK
<1> QED  BY <1>1, <1>2 DEF Send

LEMMA EnqueueTypes ==
  ASSUME TaskTypeOK, NEW t \in Tasks, Enqueue(t)
  PROVE  /\ task' \in [Tasks -> Status]
         /\ current' \subseteq Readers \X Tasks
         /\ queue' \subseteq Tasks
         /\ stranded' \subseteq Tasks
         /\ crashes' \in 0 .. MaxCrashes
<1>1. Write(t, "In Progress") /\ \E js \in SUBSET Tasks : Send({t}, js)
  BY DEF Enqueue
<1>2. "In Progress" \in Status /\ {t} \in SUBSET Tasks
  BY DEF Status
<1> QED  BY <1>1, <1>2, WriteTypes, SendTypes

LEMMA SettleTypes ==
  ASSUME TaskTypeOK, NEW k \in Workers, NEW s \in Status, Settle(k, s),
         runs' \in [Tasks -> Seq(Lifecycle!States)]
  PROVE  TaskTypeOK'
<1>1. w[k].task \in Tasks /\ Write(w[k].task, s)
  BY DEF TaskTypeOK, WorkerState, Settle
<1>2. task' \in [Tasks -> Status] /\ current' \subseteq Readers \X Tasks
  BY <1>1, WriteTypes
<1>3. w' \in [Workers -> WorkerState]
  BY DEF TaskTypeOK, Settle, Goto, WorkerState
<1>4. settled' \in [Tasks -> Nat]
  BY <1>1 DEF TaskTypeOK, Settle
<1> QED  BY <1>2, <1>3, <1>4 DEF TaskTypeOK, Settle

LEMMA TypeStep == TaskTypeOK /\ [TaskNext]_taskvars => TaskTypeOK'
<1> SUFFICES ASSUME TaskTypeOK, [TaskNext]_taskvars PROVE TaskTypeOK'
  OBVIOUS
<1> USE TasksAssumption, BoundsAssumption, IdleType, LegalTypes, RunResultTypes
<1>1. ASSUME NEW t \in Tasks, People(t) PROVE TaskTypeOK'
  <2>1. CASE Submit(t)
    BY <2>1 DEF TaskTypeOK, Submit, Move, Write, Outdate
  <2>2. CASE Reject(t)
    BY <2>2 DEF TaskTypeOK, Reject, Move, Write, Outdate
  <2>3. CASE CancelTask(t)
    BY <2>3 DEF TaskTypeOK, CancelTask, Move, Write, Outdate
  <2>4. CASE RetryTask(t)
    BY <2>4 DEF TaskTypeOK, RetryTask, Move, Write, Outdate
  <2>5. CASE Approve(t)
    BY <2>5, EnqueueTypes DEF TaskTypeOK, Approve
  <2>6. CASE Edit(t)
    BY <2>6 DEF TaskTypeOK, Edit, Outdate
  <2>7. CASE DisableRequester(t)
    BY <2>7 DEF TaskTypeOK, DisableRequester
  <2>8. ASSUME NEW manager \in BOOLEAN, RunNow(t, manager) PROVE TaskTypeOK'
    BY <2>8, EnqueueTypes DEF TaskTypeOK, RunNow
  <2> QED  BY <1>1, <2>1, <2>2, <2>3, <2>4, <2>5, <2>6, <2>7, <2>8 DEF People
<1>2. ASSUME NEW t \in Tasks, RunMoves(t) PROVE TaskTypeOK'
  <2>0. PICK i \in DOMAIN runs[t] : \E s \in Lifecycle!Successors(runs[t][i]) :
            runs' = [runs EXCEPT ![t][i] = s]
    BY <1>2 DEF RunMoves
  <2>1. PICK s \in Lifecycle!Successors(runs[t][i]) : runs' = [runs EXCEPT ![t][i] = s]
    BY <2>0
  <2>2. runs[t] \in Seq(Lifecycle!States) /\ runs[t][i] \in Lifecycle!States /\ s \in Lifecycle!States
    BY DEF TaskTypeOK
  <2>3. [runs[t] EXCEPT ![i] = s] \in Seq(Lifecycle!States)
    BY <2>2, ExceptSeq
  <2>4. runs' \in [Tasks -> Seq(Lifecycle!States)]
    BY <2>1, <2>3 DEF TaskTypeOK
  <2> QED  BY <1>2, <2>4 DEF TaskTypeOK, RunMoves
<1>3. CASE ListDue
  <2>1. PICK due \in SUBSET Tasks :
            /\ sched' = [NoClaims EXCEPT !.pc = "claiming", !.due = due]
            /\ current' = current \cup ({"sched"} \X due)
    BY <1>3 DEF ListDue
  <2>2. sched' \in SchedState
    BY <2>1 DEF NoClaims, SchedState
  <2>3. current' \subseteq Readers \X Tasks
    BY <2>1 DEF TaskTypeOK, Readers
  <2> QED  BY <1>3, <2>2, <2>3 DEF TaskTypeOK, ListDue
<1>4. CASE Claiming
  <2>1. ASSUME NEW t \in Tasks, ClaimNext(t) PROVE TaskTypeOK'
    BY <2>1 DEF TaskTypeOK, ClaimNext, SchedState
  <2>2. ASSUME NEW t \in Tasks, ClaimFails(t) PROVE TaskTypeOK'
    BY <2>2 DEF TaskTypeOK, ClaimFails, CloseView
  <2>3. CASE CommitClaims
    <3>1. sched.start \in SUBSET Tasks /\ sched.jobs \in SUBSET Tasks
      BY DEF TaskTypeOK, SchedState
    <3>2. queue' \subseteq Tasks /\ stranded' \subseteq Tasks /\ crashes' \in 0 .. MaxCrashes
      BY <2>3, <3>1, SendTypes DEF CommitClaims
    <3>3. task' \in [Tasks -> Status] /\ current' \subseteq Readers \X Tasks
      BY <2>3 DEF CommitClaims, TaskTypeOK, Status
    <3> QED  BY <2>3, <3>2, <3>3 DEF TaskTypeOK, CommitClaims
  <2> QED  BY <1>4, <2>1, <2>2, <2>3 DEF Claiming
<1>5. CASE SchedulerDies
  BY <1>5 DEF TaskTypeOK, SchedulerDies, CloseView
<1>6. ASSUME NEW k \in Workers, Take(k) PROVE TaskTypeOK'
  <2>1. PICK t \in queue :
            /\ queue' = queue \ {t}
            /\ w' = [w EXCEPT ![k] = [pc |-> "taken", task |-> t, valid |-> t \notin disabled]]
            /\ current' = current \cup {<<k, t>>}
    BY <1>6 DEF Take
  <2>2. t \in Tasks /\ queue' \subseteq Tasks
    BY <2>1 DEF TaskTypeOK
  <2>3. current' \subseteq Readers \X Tasks
    BY <2>1, <2>2 DEF TaskTypeOK, Readers
  <2>4. w' \in [Workers -> WorkerState]
    <3>1. (t \notin disabled) \in BOOLEAN
      OBVIOUS
    <3>2. [pc |-> "taken", task |-> t, valid |-> t \notin disabled] \in WorkerState
      BY <2>2, <3>1 DEF WorkerState
    <3> QED  BY <2>1, <3>2 DEF TaskTypeOK
  <2> QED  BY <1>6, <2>2, <2>3, <2>4 DEF TaskTypeOK, Take
<1>7. ASSUME NEW k \in Workers, Execution(k) PROVE TaskTypeOK'
  <2>1. w[k].task \in Tasks /\ \A pc \in {"idle", "taken", "executing", "ended"} :
            [w EXCEPT ![k].pc = pc] \in [Workers -> WorkerState]
    BY DEF TaskTypeOK, WorkerState
  <2>2. CASE AuthorityFails(k)
    BY <2>1, <2>2 DEF TaskTypeOK, AuthorityFails, Write, Outdate, Goto, Status
  <2>3. CASE JobFails(k)
    BY <2>1, <2>3 DEF TaskTypeOK, JobFails, Goto
  <2>4. CASE Skip(k)
    BY <2>1, <2>4 DEF TaskTypeOK, Skip, Goto
  <2>5. CASE Begin(k)
    BY <2>1, <2>5 DEF TaskTypeOK, Begin, Goto
  <2>6. CASE Complete(k)
    BY <2>6, SettleTypes DEF TaskTypeOK, Complete, Status
  <2>7. CASE Fail(k)
    BY <2>7, SettleTypes DEF TaskTypeOK, Fail, Status
  <2>8. CASE FinishRun(k)
    <3>1. PICK s \in RunResults :
              /\ Settle(k, Result(s))
              /\ runs' = [runs EXCEPT ![w[k].task] = Recorded(@, s)]
      BY <2>8 DEF FinishRun
    <3>2. runs' \in [Tasks -> Seq(Lifecycle!States)]
      <4>1. Append(runs[w[k].task], s) \in Seq(Lifecycle!States)
        BY <2>1, AppendProperties DEF TaskTypeOK
      <4> QED  BY <3>1, <4>1 DEF TaskTypeOK, Recorded
    <3> QED  BY <3>1, <3>2, SettleTypes
  <2>9. CASE EndJob(k)
    BY <2>9 DEF TaskTypeOK, EndJob, Leave, CloseView
  <2> QED  BY <1>7, <2>2, <2>3, <2>4, <2>5, <2>6, <2>7, <2>8, <2>9 DEF Execution
<1>8. ASSUME NEW k \in Workers, WorkerDies(k) PROVE TaskTypeOK'
  <2>1. w[k].task \in Tasks
    BY DEF TaskTypeOK, WorkerState
  <2>2. w' \in [Workers -> WorkerState] /\ current' \subseteq Readers \X Tasks
    BY <1>8 DEF TaskTypeOK, WorkerDies, Leave, CloseView
  <2>3. crashes' \in 0 .. MaxCrashes
    BY <1>8 DEF TaskTypeOK, WorkerDies
  <2>4. stranded' \subseteq Tasks
    BY <1>8, <2>1 DEF TaskTypeOK, WorkerDies
  <2> QED  BY <1>8, <2>2, <2>3, <2>4 DEF TaskTypeOK, WorkerDies
<1>9. ASSUME NEW k \in Workers, Redeliver(k) PROVE TaskTypeOK'
  <2>1. w[k].task \in Tasks
    BY DEF TaskTypeOK, WorkerState
  <2>2. copies' \in 0 .. MaxCopies /\ queue' \subseteq Tasks
    BY <1>9, <2>1 DEF TaskTypeOK, Redeliver
  <2> QED  BY <1>9, <2>2 DEF TaskTypeOK, Redeliver
<1>10. CASE UNCHANGED taskvars
  BY <1>10 DEF TaskTypeOK, taskvars
<1> QED  BY <1>1, <1>2, <1>3, <1>4, <1>5, <1>6, <1>7, <1>8, <1>9, <1>10 DEF TaskNext

-----------------------------------------------------------------------------
(* Frames: what a step leaves as it was.                                   *)

LEMMA OneMore ==
  \A x, r \in Nat : /\ x <= r => x + 1 <= 1 + r
                    /\ x <= 1 + r => x <= r + 1 /\ x <= 1 + (r + 1)
  OBVIOUS

LEMMA Counters ==
  ASSUME TaskTypeOK, NEW t \in Tasks
  PROVE  settled[t] \in Nat /\ retries[t] \in Nat
<1>1. settled \in [Tasks -> Nat] /\ retries \in [Tasks -> 0 .. MaxRetries]
  BY DEF TaskTypeOK
<1>2. retries[t] \in 0 .. MaxRetries
  BY <1>1
<1> QED  BY <1>1, <1>2, BoundsAssumption

\* The lock of a row keeps others from its status.
LEMMA UnlockedRow ==
  ASSUME TaskInv, NEW t \in Tasks, ~Locked(t), UNCHANGED <<w, sched>>,
         \A u \in Tasks \ {t} : task'[u] = task[u]
  PROVE  Exclusive' /\ Begun' /\ Claims'
<1>1. t \notin sched.held /\ \A k \in Workers : At(k, "executing") => w[k].task # t
  BY DEF Locked, At
<1>2. \A k \in Workers : w[k].task \in Tasks
  BY DEF TaskInv, TaskTypeOK, WorkerState
<1>3. sched.held \subseteq Tasks
  BY DEF TaskInv, TaskTypeOK, SchedState
<1>4. Exclusive'
  BY DEF TaskInv, Exclusive, OneExecution, At
<1>5. Begun'
  BY <1>1, <1>2 DEF TaskInv, Begun, At
<1>6. Claims'
  BY <1>1, <1>3 DEF TaskInv, Claims
<1> QED  BY <1>4, <1>5, <1>6

LEMMA QuietStep ==
  ASSUME TaskInv, TaskTypeOK', UNCHANGED <<task, queue, w, sched, retries, settled,
                                    cleared, stranded, copies>>
  PROVE  TaskInv'
<1>1. \A t \in Tasks : (Pending(t)' <=> Pending(t)) /\ (HasJob(t)' <=> HasJob(t))
  BY DEF Pending, HasJob
<1>2. Exclusive' /\ Begun' /\ Claims'
  BY DEF TaskInv, Exclusive, OneExecution, Begun, Claims, At
<1>3. Accounting' /\ NeverApproved' /\ StartedWhenCleared'
  BY DEF TaskInv, Accounting, NeverApproved, StartedWhenCleared
<1>4. Driven'
  BY <1>1 DEF TaskInv, Driven
<1>5. sched.jobs \subseteq Tasks
  BY DEF TaskInv, TaskTypeOK, SchedState
<1>6. OneJob'
  BY <1>1, <1>5 DEF TaskInv, OneJob, At
<1> QED  BY <1>2, <1>3, <1>4, <1>6 DEF TaskInv

\* The claiming job begins or gives up.
LEMMA NoClaimsStep ==
  ASSUME TaskInv, TaskTypeOK',
         sched'.held = {}, sched'.ask = {}, sched'.start = {}, sched'.jobs = {},
         UNCHANGED <<task, queue, w, retries, settled, cleared, stranded, copies>>
  PROVE  TaskInv'
<1>1. \A t \in Tasks : Pending(t)' <=> Pending(t)
  BY DEF Pending
<1>2. Exclusive' /\ Begun' /\ Claims'
  BY DEF TaskInv, Exclusive, OneExecution, Begun, Claims, At
<1>3. Accounting' /\ NeverApproved' /\ StartedWhenCleared'
  BY DEF TaskInv, Accounting, NeverApproved, StartedWhenCleared
<1>4. Driven'
  BY <1>1 DEF TaskInv, Driven
<1>5. OneJob'
  BY <1>1 DEF TaskInv, OneJob, At
<1> QED  BY <1>2, <1>3, <1>4, <1>5 DEF TaskInv

-----------------------------------------------------------------------------
(* People and the scheduler.                                               *)

LEMMA MoveStep ==
  ASSUME TaskInv, TaskTypeOK', NEW t \in Tasks,
         NEW s \in {"Pending Approval", "Rejected", "Cancelled", "Open"}, Move(t, s),
         UNCHANGED <<queue, w, sched, settled, stranded, copies>>,
         IF s = "Open"
         THEN retries' = [retries EXCEPT ![t] = @ + 1] /\ cleared' = cleared \ {t}
         ELSE UNCHANGED <<retries, cleared>>
  PROVE  TaskInv'
<1>1. ~Locked(t) /\ task'[t] = s /\ \A u \in Tasks \ {t} : task'[u] = task[u]
  BY DEF Move, Write, TaskInv, TaskTypeOK
<1>2. /\ s = "Pending Approval" => task[t] = "Open"
      /\ s = "Rejected" => task[t] = "Pending Approval"
      /\ s = "Open" => task[t] = "Failed"
  BY DEF Move, LEGAL_TRANSITIONS
<1>3. \A u \in Tasks : (Pending(u)' <=> Pending(u)) /\ (HasJob(u)' <=> HasJob(u))
  BY DEF Pending, HasJob
<1>4. Exclusive' /\ Begun' /\ Claims'
  BY <1>1, UnlockedRow
<1>5. Accounting'
  <2> SUFFICES ASSUME NEW u \in Tasks
               PROVE  /\ settled[u] <= 1 + retries'[u]
                      /\ task'[u] \in {"Open", "Pending Approval", "In Progress"}
                           => settled[u] <= retries'[u]
    BY DEF Accounting
  <2>1. settled[u] \in Nat /\ retries[u] \in Nat /\ settled[u] <= 1 + retries[u]
    BY Counters DEF TaskInv, Accounting
  <2>0. retries \in [Tasks -> 0 .. MaxRetries]
    BY DEF TaskInv, TaskTypeOK
  <2>2. CASE u # t
    <3>1. retries'[u] = retries[u]
      BY <2>0, <2>2
    <3> QED  BY <1>1, <2>2, <3>1 DEF TaskInv, Accounting
  <2>3. CASE u = t /\ s = "Open"
    <3>0. retries' = [retries EXCEPT ![t] = retries[t] + 1]
      BY <2>3, Zenon
    <3>1. retries'[u] = retries[u] + 1
      BY <2>0, <2>3, <3>0
    <3>2. settled[u] <= 1 + retries'[u] /\ settled[u] <= retries'[u]
      BY <2>1, <3>1, OneMore
    <3> QED  BY <3>2
  <2>4. CASE u = t /\ s # "Open"
    BY <1>1, <1>2, <2>1, <2>4 DEF TaskInv, Accounting
  <2> QED  BY <2>2, <2>3, <2>4
<1>6. NeverApproved'
  BY <1>1 DEF TaskInv, NeverApproved
<1>7. StartedWhenCleared'
  BY <1>1, TasksAssumption DEF TaskInv, StartedWhenCleared
<1>8. Driven'
  BY <1>1, <1>3 DEF TaskInv, Driven
<1>9. OneJob'
  <2>1. sched.jobs \subseteq Tasks
    BY DEF TaskInv, TaskTypeOK, SchedState
  <2> QED  BY <1>1, <1>2, <1>3, <2>1 DEF TaskInv, OneJob, At
<1> QED  BY <1>4, <1>5, <1>6, <1>7, <1>8, <1>9 DEF TaskInv

LEMMA SendFacts ==
  ASSUME TaskTypeOK, NEW ts, NEW js, Send(ts, js)
  PROVE  /\ queue \subseteq queue' /\ queue' \subseteq queue \cup js
         /\ stranded \subseteq stranded'
         /\ \A t \in ts \ stranded' : t \in queue'
  BY DEF Send

\* enqueue_task for one task.
LEMMA StartStep ==
  ASSUME TaskInv, TaskTypeOK', NEW t \in Tasks, ~Locked(t), Enqueue(t),
         task[t] \in {"Open", "Pending Approval"},
         cleared \subseteq cleared', t \in Governed => t \in cleared',
         UNCHANGED <<w, sched, retries, settled, copies>>
  PROVE  TaskInv'
<1>1. task'[t] = "In Progress" /\ \A u \in Tasks \ {t} : task'[u] = task[u]
  BY DEF Enqueue, Write, TaskInv, TaskTypeOK
<1>2. /\ queue \subseteq queue' /\ queue' \subseteq queue \cup {t}
      /\ HasJob(t) => queue' = queue
      /\ stranded \subseteq stranded'
      /\ t \notin stranded' => t \in queue'
  <2>1. PICK js \in SUBSET {t} : Send({t}, js) /\ (HasJob(t) => js = {})
    BY DEF Enqueue
  <2> QED  BY <2>1, SendFacts DEF TaskInv
<1>3. Exclusive' /\ Begun' /\ Claims'
  BY <1>1, UnlockedRow
<1>4. Accounting' /\ NeverApproved'
  BY <1>1 DEF TaskInv, Accounting, NeverApproved
<1>5. StartedWhenCleared'
  BY <1>1, TasksAssumption DEF TaskInv, StartedWhenCleared
<1>6. Driven'
  <2>1. \A u \in Tasks : Pending(u) => Pending(u)'
    BY <1>2 DEF Pending
  <2>2. t \notin stranded' => Pending(t)'
    BY <1>2 DEF Pending
  <2> QED  BY <1>1, <1>2, <2>1, <2>2 DEF TaskInv, Driven
<1>7. OneJob'
  <2> SUFFICES ASSUME copies = 0 PROVE OneJob'
    BY DEF OneJob
  <2>1. t \notin sched.jobs
    BY DEF TaskInv, Claims, Locked
  <2>2. \A u \in Tasks \ {t} : (Pending(u)' <=> Pending(u)) /\ (HasJob(u)' <=> HasJob(u))
    BY <1>2 DEF Pending, HasJob
  <2>3. \A k \in Workers : ~At(k, "idle") =>
            /\ w[k].task \notin queue'
            /\ \A j \in Workers : ~At(j, "idle") /\ w[j].task = w[k].task => j = k
    BY <1>2 DEF TaskInv, OneJob, HasJob, At
  <2>4. sched.jobs \subseteq Tasks
    BY DEF TaskInv, TaskTypeOK, SchedState
  <2> QED  BY <1>1, <2>1, <2>2, <2>3, <2>4 DEF TaskInv, OneJob, At
<1> QED  BY <1>3, <1>4, <1>5, <1>6, <1>7 DEF TaskInv

LEMMA ClaimNextStep ==
  ASSUME TaskInv, TaskTypeOK', NEW t \in Tasks, ClaimNext(t)
  PROVE  TaskInv'
<1>1. /\ sched'.held = sched.held \cup {t}
      /\ sched'.ask \subseteq sched.ask \cup {t} /\ sched'.start \subseteq sched.start \cup {t}
      /\ sched.start \subseteq sched'.start
      /\ sched'.jobs \subseteq sched.jobs \cup {t}
      /\ t \in sched'.ask \cup sched'.start => task[t] = "Open" \/ t \in sched.ask \cup sched.start
      /\ t \in sched'.start => t \notin Governed \/ t \in sched.start
      /\ t \in sched'.ask => t \in Governed \/ t \in sched.ask
      /\ t \in sched'.jobs => t \in sched.jobs \/ (t \in sched'.start /\ ~HasJob(t))
  BY DEF ClaimNext, TaskInv, TaskTypeOK, SchedState, StillOpen, ToSubmit
<1>2. \A k \in Workers : At(k, "executing") => w[k].task # t
  BY DEF ClaimNext, Locked, At
<1>3. \A u \in Tasks : (Pending(u)' <=> Pending(u)) /\ (HasJob(u)' <=> HasJob(u))
  BY DEF ClaimNext, Pending, HasJob
<1>4. Exclusive'
  BY <1>1, <1>2 DEF ClaimNext, TaskInv, Exclusive, OneExecution, At
<1>5. Begun'
  BY DEF ClaimNext, TaskInv, Begun, At
<1>6. Claims'
  BY <1>1 DEF ClaimNext, TaskInv, Claims
<1>7. Accounting' /\ NeverApproved' /\ StartedWhenCleared'
  BY DEF ClaimNext, TaskInv, Accounting, NeverApproved, StartedWhenCleared
<1>8. Driven'
  BY <1>3 DEF ClaimNext, TaskInv, Driven
<1>9. OneJob'
  <2>1. sched'.jobs \subseteq Tasks
    BY DEF TaskTypeOK, SchedState
  <2> QED  BY <1>1, <1>3, <2>1 DEF ClaimNext, TaskInv, OneJob, At
<1> QED  BY <1>4, <1>5, <1>6, <1>7, <1>8, <1>9 DEF TaskInv

LEMMA CommitClaimsStep ==
  ASSUME TaskInv, TaskTypeOK', CommitClaims
  PROVE  TaskInv'
<1> DEFINE A == sched.ask
           S == sched.start
<1>1. /\ A \subseteq sched.held /\ S \subseteq sched.held /\ S \subseteq Tasks
      /\ \A t \in A \cup S : task[t] = "Open"
      /\ S \cap Governed = {} /\ A \subseteq Governed /\ sched.jobs \subseteq S
  BY DEF TaskInv, Claims, TaskTypeOK, SchedState
<1>2. \A t \in Tasks : /\ t \in A => task'[t] = "Pending Approval"
                       /\ t \in S \ A => task'[t] = "In Progress"
                       /\ t \notin A \cup S => task'[t] = task[t]
  BY DEF CommitClaims
<1>3. /\ queue \subseteq queue' /\ queue' \subseteq queue \cup sched.jobs
      /\ stranded \subseteq stranded'
      /\ \A t \in S \ stranded' : t \in queue'
  BY SendFacts DEF CommitClaims, TaskInv
<1>4. \A k \in Workers : At(k, "executing") => w[k].task \notin A \cup S
  BY <1>1 DEF TaskInv, Exclusive
<1>5. \A k \in Workers : w[k].task \in Tasks
  BY DEF TaskInv, TaskTypeOK, WorkerState
<1>6. w' = w /\ sched' = NoClaims
  BY DEF CommitClaims
<1>7. Exclusive'
  BY <1>6 DEF TaskInv, Exclusive, OneExecution, At, NoClaims
<1>8. Begun'
  BY <1>2, <1>4, <1>5, <1>6 DEF TaskInv, Begun, At
<1>9. Claims'
  BY <1>6 DEF Claims, NoClaims
<1>10. Accounting' /\ NeverApproved'
  BY <1>1, <1>2 DEF CommitClaims, TaskInv, Accounting, NeverApproved
<1>11. StartedWhenCleared'
  BY <1>1, <1>2, TasksAssumption DEF CommitClaims, TaskInv, StartedWhenCleared
<1>12. Driven'
  <2>1. \A t \in Tasks : Pending(t) => Pending(t)'
    BY <1>3, <1>6 DEF Pending
  <2>2. \A t \in S \ stranded' : Pending(t)'
    BY <1>3 DEF Pending
  <2> QED  BY <1>2, <1>3, <2>1, <2>2 DEF TaskInv, Driven
<1>13. OneJob'
  <2> SUFFICES ASSUME copies = 0 PROVE OneJob'
    BY DEF OneJob, CommitClaims
  <2>1. \A t \in Tasks \ S : Pending(t)' <=> Pending(t)
    BY <1>1, <1>3, <1>6 DEF Pending
  <2>2. \A t \in A \cup S : ~Pending(t)
    BY <1>1 DEF TaskInv, OneJob, TaskTypeOK, SchedState
  <2>3. \A k \in Workers : ~At(k, "idle") => w[k].task \notin sched.jobs
    BY DEF TaskInv, OneJob, HasJob, At
  <2>4. \A k \in Workers : ~At(k, "idle") =>
            /\ w[k].task \notin queue'
            /\ \A j \in Workers : ~At(j, "idle") /\ w[j].task = w[k].task => j = k
    BY <1>3, <2>3 DEF TaskInv, OneJob
  <2>5. \A t \in Tasks : Pending(t)' => task'[t] \in {"In Progress", "Cancelled"}
    <3>1. A \cap S = {}
      BY <1>1
    <3> QED  BY <1>2, <2>1, <2>2, <3>1 DEF TaskInv, OneJob
  <2> QED  BY <1>6, <2>4, <2>5 DEF OneJob, At, NoClaims
<1> QED  BY <1>7, <1>8, <1>9, <1>10, <1>11, <1>12, <1>13 DEF TaskInv

-----------------------------------------------------------------------------
(* Workers.                                                                *)

LEMMA TakeStep ==
  ASSUME TaskInv, TaskTypeOK', NEW k \in Workers, Take(k)
  PROVE  TaskInv'
<1>1. PICK t \in queue : queue' = queue \ {t} /\ w'[k].pc = "taken" /\ w'[k].task = t
  BY DEF Take, TaskInv, TaskTypeOK
<1>2. t \in Tasks /\ At(k, "idle") /\ \A j \in Workers \ {k} : w'[j] = w[j]
  BY DEF Take, TaskInv, TaskTypeOK, At
<1>3. UNCHANGED <<task, sched, retries, settled, cleared, stranded, copies>>
  BY DEF Take
<1>4. \A u \in Tasks : (Pending(u)' <=> Pending(u)) /\ (HasJob(u)' <=> HasJob(u))
  <2>1. Pending(t)' /\ HasJob(t)' /\ Pending(t) /\ HasJob(t)
    BY <1>1 DEF Pending, HasJob
  <2>2. ASSUME NEW u \in Tasks \ {t}
        PROVE  (Pending(u)' <=> Pending(u)) /\ (HasJob(u)' <=> HasJob(u))
    BY <1>1, <1>2 DEF Pending, HasJob, At
  <2> QED  BY <2>1, <2>2
<1>5. \A j \in Workers : At(j, "executing")' => j # k /\ At(j, "executing")
  BY <1>1, <1>2 DEF At
<1>6. Exclusive' /\ Begun'
  BY <1>2, <1>3, <1>5 DEF TaskInv, Exclusive, OneExecution, Begun
<1>7. Claims' /\ Accounting' /\ NeverApproved' /\ StartedWhenCleared'
  BY <1>3 DEF TaskInv, Claims, Accounting, NeverApproved, StartedWhenCleared
<1>8. Driven'
  BY <1>3, <1>4 DEF TaskInv, Driven
<1>9. OneJob'
  <2> SUFFICES ASSUME copies = 0 PROVE OneJob'
    BY <1>3 DEF OneJob
  <2>1. \A j \in Workers : ~At(j, "idle") => w[j].task # t
    BY DEF TaskInv, OneJob
  <2>2. ASSUME NEW i \in Workers, ~At(i, "idle")'
        PROVE  /\ w'[i].task \notin queue'
               /\ \A j \in Workers : ~At(j, "idle")' /\ w'[j].task = w'[i].task => j = i
    <3>1. CASE i = k
      BY <1>1, <1>2, <2>1, <3>1 DEF At
    <3>2. CASE i # k
      <4>1. w'[i] = w[i] /\ ~At(i, "idle")
        BY <1>2, <2>2, <3>2 DEF At
      <4>2. w[i].task # t /\ w[i].task \notin queue
        BY <2>1, <4>1 DEF TaskInv, OneJob
      <4>3. ASSUME NEW j \in Workers, ~At(j, "idle")', w'[j].task = w'[i].task PROVE j = i
        <5>1. j # k
          BY <1>1, <4>1, <4>2, <4>3
        <5>2. w'[j] = w[j] /\ ~At(j, "idle")
          BY <1>2, <4>3, <5>1 DEF At
        <5> QED  BY <4>1, <4>3, <5>2 DEF TaskInv, OneJob
      <4> QED  BY <1>1, <4>1, <4>2, <4>3
    <3> QED  BY <3>1, <3>2
  <2>3. sched.jobs \subseteq Tasks
    BY DEF TaskInv, TaskTypeOK, SchedState
  <2> QED  BY <1>3, <1>4, <2>2, <2>3 DEF TaskInv, OneJob
<1> QED  BY <1>6, <1>7, <1>8, <1>9 DEF TaskInv

LEMMA BeginStep ==
  ASSUME TaskInv, TaskTypeOK', NEW k \in Workers, Begin(k)
  PROVE  TaskInv'
<1> DEFINE t == w[k].task
<1>1. /\ t \in Tasks /\ w[k].pc = "taken" /\ w'[k].pc = "executing" /\ w'[k].task = t
      /\ \A j \in Workers \ {k} : w'[j] = w[j]
  BY DEF Begin, Goto, At, TaskInv, TaskTypeOK, WorkerState
<1>2. UNCHANGED <<task, queue, sched, retries, settled, cleared, stranded, copies>>
  BY DEF Begin
<1>3. /\ t \notin sched.held /\ task[t] \in Executable
      /\ \A j \in Workers : w[j].pc = "executing" => w[j].task # t
  BY DEF Begin, Locked
<1>4. \A u \in Tasks : (Pending(u)' <=> Pending(u)) /\ (HasJob(u)' <=> HasJob(u))
  BY <1>1, <1>2 DEF Pending, HasJob
<1>5. Exclusive'
  BY <1>1, <1>2, <1>3 DEF TaskInv, Exclusive, OneExecution, At
<1>6. Begun'
  BY <1>1, <1>2, <1>3 DEF TaskInv, Begun, At
<1>7. Claims' /\ Accounting' /\ NeverApproved' /\ StartedWhenCleared'
  BY <1>2 DEF TaskInv, Claims, Accounting, NeverApproved, StartedWhenCleared
<1>8. Driven'
  BY <1>2, <1>4 DEF TaskInv, Driven
<1>9. OneJob'
  <2>1. \A j \in Workers : (~At(j, "idle")' <=> ~At(j, "idle")) /\ w'[j].task = w[j].task
    BY <1>1 DEF At
  <2>2. sched.jobs \subseteq Tasks
    BY DEF TaskInv, TaskTypeOK, SchedState
  <2> QED  BY <1>2, <1>4, <2>1, <2>2 DEF TaskInv, OneJob
<1> QED  BY <1>5, <1>6, <1>7, <1>8, <1>9 DEF TaskInv

\* The end of a job: its task was settled or left alone.
LEMMA EndedStep ==
  ASSUME TaskInv, TaskTypeOK', NEW k \in Workers, NEW t, t = w[k].task,
         (At(k, "taken") /\ ~Locked(t)) \/ At(k, "executing"),
         Goto(k, "ended"),
         \A u \in Tasks \ {t} : task'[u] = task[u],
         (task'[t] = task[t]) \/ (task'[t] \in {"Completed", "Failed"}),
         t \in stranded' \/ task'[t] # "In Progress",
         stranded \subseteq stranded' \cup {t},
         settled' = settled \/ (/\ At(k, "executing")
                                /\ task'[t] \in {"Completed", "Failed"}
                                /\ settled' = [settled EXCEPT ![t] = @ + 1]),
         UNCHANGED <<queue, sched, retries, cleared, copies>>
  PROVE  TaskInv'
<1>0. w \in [Workers -> WorkerState]
  BY DEF TaskInv, TaskTypeOK
<1>1. /\ t \in Tasks /\ w'[k].pc = "ended" /\ w'[k].task = t
      /\ \A j \in Workers \ {k} : w'[j] = w[j]
      /\ \A j \in Workers : w[j].task \in Tasks
  BY <1>0 DEF Goto, WorkerState
<1>2. /\ t \notin sched.held
      /\ \A j \in Workers \ {k} : At(j, "executing") => w[j].task # t
  BY DEF Locked, At, TaskInv, Exclusive, OneExecution
<1>3. \A j \in Workers : At(j, "executing")' => j # k /\ At(j, "executing")
  BY <1>1 DEF At
<1>4. Exclusive'
  BY <1>1, <1>3 DEF TaskInv, Exclusive, OneExecution
<1>5. Begun'
  BY <1>1, <1>2, <1>3 DEF TaskInv, Begun
<1>6. Claims'
  <2>1. sched.held \subseteq Tasks
    BY DEF TaskInv, TaskTypeOK, SchedState
  <2> QED  BY <1>2, <2>1 DEF TaskInv, Claims
<1>7. Accounting'
  <2>0. settled \in [Tasks -> Nat]
    BY DEF TaskInv, TaskTypeOK
  <2>1. \A u \in Tasks \ {t} : settled'[u] = settled[u]
    BY <2>0
  <2>2. /\ settled'[t] <= 1 + retries[t]
        /\ task'[t] \in {"Open", "Pending Approval", "In Progress"} => settled'[t] <= retries[t]
    <3>1. CASE settled' = settled
      BY <1>1, <3>1 DEF TaskInv, Accounting
    <3>2. CASE settled' # settled
      <4>1. task[t] \in {"Open", "In Progress"}
        BY <1>1, <3>2 DEF TaskInv, Begun, Executable, NeverApproved
      <4>2. settled'[t] = settled[t] + 1
        BY <1>1, <2>0, <3>2
      <4>3. settled[t] \in Nat /\ retries[t] \in Nat
        BY <1>1, Counters DEF TaskInv
      <4>4. settled[t] <= retries[t]
        BY <1>1, <4>1 DEF TaskInv, Accounting
      <4>5. settled'[t] <= 1 + retries[t]
        BY <4>2, <4>3, <4>4, OneMore
      <4>6. task'[t] \in {"Completed", "Failed"}
        BY <3>2
      <4> QED  BY <4>5, <4>6
    <3> QED  BY <3>1, <3>2
  <2> QED  BY <2>1, <2>2 DEF TaskInv, Accounting
<1>8. NeverApproved'
  BY <1>1 DEF TaskInv, NeverApproved
<1>9. StartedWhenCleared'
  BY <1>1, TasksAssumption DEF TaskInv, StartedWhenCleared
<1>10. \A u \in Tasks \ {t} : (Pending(u)' <=> Pending(u)) /\ (HasJob(u)' <=> HasJob(u))
  BY <1>1 DEF Pending, HasJob
<1>11. Driven'
  BY <1>10 DEF TaskInv, Driven
<1>12. OneJob'
  <2> SUFFICES ASSUME copies = 0 PROVE OneJob'
    BY DEF OneJob
  <2>1. \A j \in Workers : (~At(j, "idle")' <=> ~At(j, "idle")) /\ w'[j].task = w[j].task
    BY <1>1 DEF At
  <2>2. HasJob(t) /\ HasJob(t)' /\ ~Pending(t)'
    <3>1. ~At(k, "idle") /\ t \notin queue
      BY DEF TaskInv, OneJob, At
    <3>2. \A j \in Workers : ~At(j, "idle") /\ w[j].task = t => j = k
      BY <3>1 DEF TaskInv, OneJob
    <3>3. \A j \in Workers : w'[j].pc \in {"taken", "executing"} => w'[j].task # t
      BY <1>1, <3>2 DEF At
    <3> QED  BY <1>1, <3>1, <3>3 DEF HasJob, Pending, At
  <2>3. sched.jobs \subseteq Tasks
    BY DEF TaskInv, TaskTypeOK, SchedState
  <2>4. \A u \in Tasks : Pending(u)' => task'[u] \in {"In Progress", "Cancelled"}
    BY <1>10, <2>2 DEF TaskInv, OneJob
  <2>5. \A u \in sched.jobs : ~HasJob(u)'
    BY <1>10, <2>2, <2>3 DEF TaskInv, OneJob
  <2> QED  BY <2>1, <2>4, <2>5 DEF TaskInv, OneJob
<1> QED  BY <1>4, <1>5, <1>6, <1>7, <1>8, <1>9, <1>11, <1>12 DEF TaskInv

LEMMA LeaveStep ==
  ASSUME TaskInv, TaskTypeOK', NEW k \in Workers, Leave(k), ~At(k, "idle"),
         At(k, "ended") \/ w[k].task \in stranded', stranded \subseteq stranded',
         UNCHANGED <<task, queue, sched, retries, settled, cleared, copies>>
  PROVE  TaskInv'
<1>1. w'[k].pc = "idle" /\ \A j \in Workers \ {k} : w'[j] = w[j]
  BY DEF Leave, IdleWorker, TaskInv, TaskTypeOK
<1>2. \A j \in Workers : ~At(j, "idle")' => j # k /\ ~At(j, "idle") /\ w'[j] = w[j]
  BY <1>1 DEF At
<1>3. \A j \in Workers : At(j, "executing")' => j # k /\ At(j, "executing") /\ w'[j] = w[j]
  BY <1>1 DEF At
<1>4. Exclusive' /\ Begun'
  BY <1>3 DEF TaskInv, Exclusive, OneExecution, Begun
<1>5. Claims' /\ Accounting' /\ NeverApproved' /\ StartedWhenCleared'
  BY DEF TaskInv, Claims, Accounting, NeverApproved, StartedWhenCleared
<1>6. Driven'
  <2>1. \A u \in Tasks \ stranded' : Pending(u) => Pending(u)'
    BY <1>1 DEF Pending, At
  <2> QED  BY <2>1 DEF TaskInv, Driven
<1>7. OneJob'
  <2>1. \A u \in Tasks : (Pending(u)' => Pending(u)) /\ (HasJob(u)' => HasJob(u))
    BY <1>1 DEF Pending, HasJob
  <2>2. sched.jobs \subseteq Tasks
    BY DEF TaskInv, TaskTypeOK, SchedState
  <2> QED  BY <1>2, <2>1, <2>2 DEF TaskInv, OneJob
<1> QED  BY <1>4, <1>5, <1>6, <1>7 DEF TaskInv

LEMMA RedeliverStep ==
  ASSUME TaskInv, TaskTypeOK', NEW k \in Workers, Redeliver(k)
  PROVE  TaskInv'
<1>1. copies \in Nat /\ copies' = copies + 1
  <2>1. copies \in 0 .. MaxCopies
    BY DEF TaskInv, TaskTypeOK
  <2> QED  BY <2>1, BoundsAssumption DEF Redeliver
<1>2. UNCHANGED <<task, w, sched, retries, settled, cleared, stranded>> /\ queue \subseteq queue'
  BY DEF Redeliver
<1>3. Exclusive' /\ Begun' /\ Claims' /\ Accounting' /\ NeverApproved' /\ StartedWhenCleared'
  BY <1>2 DEF TaskInv, Exclusive, OneExecution, Begun, Claims, Accounting, NeverApproved,
              StartedWhenCleared, At
<1>4. Driven'
  BY <1>2 DEF TaskInv, Driven, Pending
<1>5. copies' # 0
  BY <1>1
<1>6. OneJob'
  BY <1>5 DEF OneJob
<1> QED  BY <1>3, <1>4, <1>6 DEF TaskInv

-----------------------------------------------------------------------------
(* The invariant.                                                          *)

LEMMA TaskInitInv == TaskInit => TaskInv
<1> SUFFICES ASSUME TaskInit PROVE TaskInv
  OBVIOUS
<1>1. TaskTypeOK
  <2>1. <<>> \in Seq(Lifecycle!States)
    OBVIOUS
  <2>2. task \in [Tasks -> Status]
    BY DEF TaskInit, Status
  <2>3. w \in [Workers -> WorkerState] /\ sched \in SchedState
    BY IdleType DEF TaskInit
  <2>4. retries \in [Tasks -> 0 .. MaxRetries] /\ crashes \in 0 .. MaxCrashes
        /\ copies \in 0 .. MaxCopies
    BY BoundsAssumption DEF TaskInit
  <2>5. runs \in [Tasks -> Seq(Lifecycle!States)] /\ settled \in [Tasks -> Nat]
    BY <2>1 DEF TaskInit
  <2> QED  BY <2>2, <2>3, <2>4, <2>5, TasksAssumption DEF TaskInit, TaskTypeOK
<1>2. \A k \in Workers : At(k, "idle") /\ ~At(k, "executing")
  BY DEF TaskInit, IdleWorker, At
<1>3. Exclusive /\ Begun
  BY <1>2 DEF Exclusive, OneExecution, Begun
<1>4. Claims
  BY DEF TaskInit, NoClaims, Claims
<1>5. \A t \in Tasks : task[t] = "Open" /\ settled[t] = 0 /\ retries[t] = 0
  BY DEF TaskInit
<1>6. Accounting /\ NeverApproved
  <2>1. 0 <= 1 + 0 /\ 0 <= 0
    OBVIOUS
  <2> QED  BY <1>5, <2>1 DEF Accounting, NeverApproved
<1>7. StartedWhenCleared /\ Driven
  BY <1>5, TasksAssumption DEF StartedWhenCleared, Driven
<1>8. \A t \in Tasks : ~Pending(t)
  BY <1>2 DEF TaskInit, Pending, At
<1>9. OneJob
  BY <1>2, <1>8 DEF TaskInit, NoClaims, OneJob
<1> QED  BY <1>1, <1>3, <1>4, <1>6, <1>7, <1>9 DEF TaskInv

LEMMA PeopleStep ==
  ASSUME TaskInv, TaskTypeOK', NEW t \in Tasks, People(t)
  PROVE  TaskInv'
<1>1. CASE Submit(t)
  BY <1>1, MoveStep DEF Submit
<1>2. CASE Reject(t)
  BY <1>2, MoveStep DEF Reject
<1>3. CASE CancelTask(t)
  BY <1>3, MoveStep DEF CancelTask
<1>4. CASE RetryTask(t)
  BY <1>4, MoveStep DEF RetryTask
<1>5. CASE Approve(t)
  <2>1. task[t] = "Pending Approval"
    BY <1>5 DEF Approve, LEGAL_TRANSITIONS
  <2>2. cleared \subseteq cleared' /\ (t \in Governed => t \in cleared')
    BY <1>5 DEF Approve
  <2>3. ~Locked(t) /\ Enqueue(t) /\ UNCHANGED <<w, sched, retries, settled, copies>>
    BY <1>5 DEF Approve
  <2> QED  BY <2>1, <2>2, <2>3, StartStep
<1>6. ASSUME NEW manager \in BOOLEAN, RunNow(t, manager) PROVE TaskInv'
  <2>1. task[t] = "Open" /\ (t \in Governed => manager)
    BY <1>6 DEF RunNow, MayRun, TaskInv, NeverApproved
  <2>2. cleared \subseteq cleared' /\ (t \in Governed => t \in cleared')
    BY <1>6, <2>1 DEF RunNow
  <2>3. ~Locked(t) /\ Enqueue(t) /\ UNCHANGED <<w, sched, retries, settled, copies>>
    BY <1>6 DEF RunNow
  <2> QED  BY <2>1, <2>2, <2>3, StartStep
<1>7. CASE Edit(t) \/ DisableRequester(t)
  BY <1>7, QuietStep DEF Edit, DisableRequester
<1> QED  BY <1>1, <1>2, <1>3, <1>4, <1>5, <1>6, <1>7 DEF People

LEMMA WriteRow ==
  ASSUME TaskTypeOK, NEW t \in Tasks, NEW s, Write(t, s)
  PROVE  task'[t] = s /\ \A u \in Tasks \ {t} : task'[u] = task[u]
  BY DEF TaskTypeOK, Write

LEMMA SettleStep ==
  ASSUME TaskInv, TaskTypeOK', NEW k \in Workers, NEW s \in {"Completed", "Failed"}, Settle(k, s)
  PROVE  TaskInv'
<1> DEFINE t == w[k].task
<1>1. t \in Tasks
  BY DEF TaskInv, TaskTypeOK, WorkerState
<1>2. /\ At(k, "executing") /\ Write(t, s) /\ Goto(k, "ended")
      /\ settled' = [settled EXCEPT ![t] = @ + 1]
      /\ stranded' = stranded \ {t}
      /\ UNCHANGED <<queue, sched, retries, cleared, copies>>
  BY DEF Settle
<1>3. task'[t] = s /\ \A u \in Tasks \ {t} : task'[u] = task[u]
  BY <1>1, <1>2, WriteRow DEF TaskInv
<1>4. stranded \subseteq stranded' \cup {t} /\ task'[t] # "In Progress"
      /\ task'[t] \in {"Completed", "Failed"}
  BY <1>2, <1>3
<1> QED  BY <1>2, <1>3, <1>4, EndedStep

LEMMA ExecutionStep ==
  ASSUME TaskInv, TaskTypeOK', NEW k \in Workers, Execution(k)
  PROVE  TaskInv'
<1> DEFINE t == w[k].task
<1>0. t \in Tasks
  BY DEF TaskInv, TaskTypeOK, WorkerState
<1>1. CASE AuthorityFails(k)
  <2>1. task'[t] = "Failed" /\ \A u \in Tasks \ {t} : task'[u] = task[u]
    BY <1>0, <1>1, WriteRow DEF AuthorityFails, TaskInv
  <2>2. stranded \subseteq stranded' \cup {t}
    BY <1>1 DEF AuthorityFails
  <2> QED  BY <1>1, <2>1, <2>2, EndedStep DEF AuthorityFails
<1>2. CASE JobFails(k)
  <2>1. t \in stranded' /\ stranded \subseteq stranded'
    BY <1>2 DEF JobFails
  <2> QED  BY <1>2, <2>1, EndedStep DEF JobFails
<1>3. CASE Skip(k)
  <2>1. task[t] # "In Progress"
    BY <1>3 DEF Skip, Executable
  <2> QED  BY <1>3, <2>1, EndedStep DEF Skip
<1>4. CASE Begin(k)
  BY <1>4, BeginStep
<1>5. CASE Complete(k)
  BY <1>5, SettleStep DEF Complete
<1>6. CASE Fail(k)
  BY <1>6, SettleStep DEF Fail
<1>7. CASE FinishRun(k)
  <2>1. \A s : Result(s) \in {"Completed", "Failed"}
    BY DEF Result
  <2> QED  BY <1>7, <2>1, SettleStep DEF FinishRun
<1>8. CASE EndJob(k)
  <2>1. ~At(k, "idle")
    BY <1>8 DEF EndJob, At
  <2> QED  BY <1>8, <2>1, LeaveStep DEF EndJob
<1> QED  BY <1>1, <1>2, <1>3, <1>4, <1>5, <1>6, <1>7, <1>8 DEF Execution

LEMMA InvStep == TaskInv /\ [TaskNext]_taskvars => TaskInv'
<1> SUFFICES ASSUME TaskInv, [TaskNext]_taskvars PROVE TaskInv'
  OBVIOUS
<1>0. TaskTypeOK'
  BY TypeStep DEF TaskInv
<1>1. ASSUME NEW t \in Tasks, People(t) PROVE TaskInv'
  BY <1>0, <1>1, PeopleStep
<1>2. ASSUME NEW t \in Tasks, RunMoves(t) PROVE TaskInv'
  BY <1>0, <1>2, QuietStep DEF RunMoves
<1>3. CASE ListDue
  <2>1. sched'.held = {} /\ sched'.ask = {} /\ sched'.start = {} /\ sched'.jobs = {}
    BY <1>3 DEF ListDue, NoClaims
  <2> QED  BY <1>0, <1>3, <2>1, NoClaimsStep DEF ListDue
<1>4. ASSUME NEW t \in Tasks, ClaimNext(t) PROVE TaskInv'
  BY <1>0, <1>4, ClaimNextStep
<1>5. CASE SchedulerDies \/ \E t \in Tasks : ClaimFails(t)
  <2>0. sched' = NoClaims
    BY <1>5 DEF SchedulerDies, ClaimFails
  <2>1. sched'.held = {} /\ sched'.ask = {} /\ sched'.start = {} /\ sched'.jobs = {}
    BY <2>0 DEF NoClaims
  <2> QED  BY <1>0, <1>5, <2>1, NoClaimsStep DEF SchedulerDies, ClaimFails
<1>6. CASE CommitClaims
  BY <1>0, <1>6, CommitClaimsStep
<1>7. ASSUME NEW k \in Workers, Take(k) PROVE TaskInv'
  BY <1>0, <1>7, TakeStep
<1>8. ASSUME NEW k \in Workers, Execution(k) PROVE TaskInv'
  BY <1>0, <1>8, ExecutionStep
<1>9. ASSUME NEW k \in Workers, WorkerDies(k) PROVE TaskInv'
  <2>1. At(k, "ended") \/ w[k].task \in stranded'
    BY <1>9 DEF WorkerDies
  <2>2. stranded \subseteq stranded'
    BY <1>9 DEF WorkerDies
  <2> QED  BY <1>0, <1>9, <2>1, <2>2, LeaveStep DEF WorkerDies
<1>10. ASSUME NEW k \in Workers, Redeliver(k) PROVE TaskInv'
  BY <1>0, <1>10, RedeliverStep
<1>11. CASE UNCHANGED taskvars
  BY <1>0, <1>11, QuietStep DEF taskvars
<1> QED  BY <1>1, <1>2, <1>3, <1>4, <1>5, <1>6, <1>7, <1>8, <1>9, <1>10, <1>11 DEF TaskNext, Claiming

\* The inductive invariant holds: the row locks keep claims, executions and
\* people apart, for any number of tasks, workers, retries and deaths.
THEOREM TasksInvariant == TaskSpec => []TaskInv
<1>1. TaskInit => TaskInv
  BY TaskInitInv
<1>2. TaskInv /\ [TaskNext]_taskvars => TaskInv'
  BY InvStep
<1> QED  BY <1>1, <1>2, PTL DEF TaskSpec

\* Every variable keeps its type.
THEOREM TasksTypeCorrect == TaskSpec => []TaskTypeOK
<1>1. TaskInv => TaskTypeOK
  BY DEF TaskInv
<1> QED  BY <1>1, TasksInvariant, PTL

\* No two workers ever execute the same task, whatever RQ hands out
\* (execute_task locks the row before it looks at its status).
THEOREM OneExecutionAlways == TaskSpec => []OneExecution
<1>1. TaskInv => OneExecution
  BY DEF TaskInv, Exclusive
<1> QED  BY <1>1, TasksInvariant, PTL

\* However often a task is claimed, started and handed out, its body commits at
\* most once for each time the task was opened.
THEOREM SettledOnceAlways == TaskSpec => []SettledOncePerOpening
<1>1. TaskInv => SettledOncePerOpening
  BY DEF TaskInv, Accounting, SettledOncePerOpening
<1> QED  BY <1>1, TasksInvariant, PTL

\* While RQ hands out every job once, the body of a task that requires approval
\* executes only after a manager started or approved it.
THEOREM ExecutedWhenClearedAlways == TaskSpec => []ExecutedWhenCleared
<1>1. TaskInv => ExecutedWhenCleared
  <2> SUFFICES ASSUME TaskInv, copies = 0, NEW k \in Workers,
                      At(k, "executing"), w[k].task \in Governed
               PROVE  w[k].task \in cleared
    BY DEF ExecutedWhenCleared
  <2> DEFINE t == w[k].task
  <2>1. t \in Tasks /\ Pending(t)
    BY TasksAssumption DEF Pending, At
  <2>2. task[t] \in {"In Progress", "Cancelled"} /\ task[t] \in Executable
    BY <2>1 DEF TaskInv, OneJob, Begun
  <2> QED  BY <2>2 DEF TaskInv, StartedWhenCleared, Executable
<1> QED  BY <1>1, TasksInvariant, PTL

\* A task In Progress has a job, unless the job got lost, was deduplicated
\* against the job of the execution before, or failed.
THEOREM InProgressHasJobAlways == TaskSpec => []InProgressHasJob
<1>1. TaskInv => InProgressHasJob
  <2>1. \A t : Pending(t) => HasJob(t)
    BY DEF Pending, HasJob
  <2> QED  BY <2>1 DEF TaskInv, Driven, InProgressHasJob
<1> QED  BY <1>1, TasksInvariant, PTL

-----------------------------------------------------------------------------
(* Legal changes.                                                          *)

\* A job that found no valid account belongs to a requester without one.
InvalidIsDisabled == \A k \in Workers : ~w[k].valid => w[k].task \in disabled

LEMMA InvalidStep == TaskTypeOK /\ InvalidIsDisabled /\ [TaskNext]_taskvars => InvalidIsDisabled'
<1> SUFFICES ASSUME TaskTypeOK, InvalidIsDisabled, [TaskNext]_taskvars PROVE InvalidIsDisabled'
  OBVIOUS
<1>0. w \in [Workers -> WorkerState]
  BY DEF TaskTypeOK
<1>1. disabled \subseteq disabled'
  BY DEF TaskNext, People, Submit, Reject, CancelTask, RetryTask, Approve, RunNow, Edit,
         DisableRequester, RunMoves, ListDue, Claiming, ClaimNext, ClaimFails, CommitClaims,
         SchedulerDies, Take, Execution, AuthorityFails, JobFails, Skip, Begin, Complete, Fail,
         FinishRun, Settle, EndJob, WorkerDies, Redeliver, taskvars
<1>2. ASSUME UNCHANGED w PROVE InvalidIsDisabled'
  BY <1>1, <1>2 DEF InvalidIsDisabled
<1>3. ASSUME NEW k \in Workers, NEW pc, Goto(k, pc) PROVE InvalidIsDisabled'
  <2>1. \A j \in Workers : w'[j].valid = w[j].valid /\ w'[j].task = w[j].task
    BY <1>0, <1>3 DEF Goto, WorkerState
  <2> QED  BY <1>1, <2>1 DEF InvalidIsDisabled
<1>4. ASSUME NEW k \in Workers, Leave(k) PROVE InvalidIsDisabled'
  <2>1. w'[k].valid /\ \A j \in Workers \ {k} : w'[j] = w[j]
    BY <1>0, <1>4 DEF Leave, IdleWorker
  <2> QED  BY <1>1, <2>1 DEF InvalidIsDisabled
<1>5. ASSUME NEW k \in Workers, Take(k) PROVE InvalidIsDisabled'
  <2>1. PICK t \in queue :
            w' = [w EXCEPT ![k] = [pc |-> "taken", task |-> t, valid |-> t \notin disabled]]
    BY <1>5 DEF Take
  <2>2. /\ w'[k].task = t /\ w'[k].valid = (t \notin disabled)
        /\ \A j \in Workers \ {k} : w'[j] = w[j]
    BY <1>0, <2>1
  <2> QED  BY <1>1, <2>2 DEF InvalidIsDisabled
<1>6. ASSUME NEW k \in Workers, Execution(k) PROVE InvalidIsDisabled'
  <2>1. Leave(k) \/ \E pc : Goto(k, pc)
    BY <1>6 DEF Execution, AuthorityFails, JobFails, Skip, Begin, Complete, Fail, FinishRun,
                Settle, EndJob
  <2> QED  BY <1>3, <1>4, <2>1
<1>7. ASSUME NEW k \in Workers, WorkerDies(k) PROVE InvalidIsDisabled'
  BY <1>4, <1>7 DEF WorkerDies
<1>8. ASSUME NEW t \in Tasks, People(t) PROVE UNCHANGED w
  BY <1>8 DEF People, Submit, Reject, CancelTask, RetryTask, Approve, RunNow, Edit,
              DisableRequester
<1> QED  BY <1>2, <1>5, <1>6, <1>7, <1>8 DEF TaskNext, RunMoves, ListDue, Claiming, ClaimNext,
            ClaimFails, CommitClaims, SchedulerDies, Redeliver, taskvars

LEMMA LegalFacts ==
  /\ \A s : LEGAL_TRANSITIONS(s) \subseteq Legal(s)
  /\ {"Pending Approval", "In Progress", "Completed", "Failed"} \subseteq Legal("Open")
  /\ "In Progress" \in Legal("Pending Approval")
  /\ {"Completed", "Failed"} \subseteq Legal("In Progress")
<1>1. \A s : LEGAL_TRANSITIONS(s) \subseteq Legal(s)
  BY DEF Legal
<1>2. "In Progress" \in LEGAL_TRANSITIONS("Open") /\ "Approved" \in LEGAL_TRANSITIONS("Pending Approval")
      /\ "In Progress" \in LEGAL_TRANSITIONS("Approved") /\ "Pending Approval" \in LEGAL_TRANSITIONS("Open")
      /\ {"Completed", "Failed"} \subseteq LEGAL_TRANSITIONS("In Progress")
  BY DEF LEGAL_TRANSITIONS
<1>3. {"Completed", "Failed"} \subseteq Legal("Open")
  BY <1>2 DEF Legal
<1>4. "In Progress" \in Legal("Pending Approval")
  BY <1>2 DEF Legal
<1> QED  BY <1>1, <1>2, <1>3, <1>4

\* A change that LegalChanges allows.
Allowed(t) ==
    task'[t] # task[t] =>
        \/ task'[t] \in Legal(task[t])
        \/ t \in disabled /\ task'[t] = "Failed"

LEMMA WriteAllowed ==
  ASSUME TaskTypeOK, NEW t \in Tasks, NEW s, Write(t, s),
         s \in Legal(task[t]) \/ (t \in disabled /\ s = "Failed")
  PROVE  \A u \in Tasks : Allowed(u)
<1>1. task'[t] = s /\ \A u \in Tasks \ {t} : task'[u] = task[u]
  BY WriteRow
<1> QED  BY <1>1 DEF Allowed

LEMMA LegalStep ==
  ASSUME TaskInv, InvalidIsDisabled, [TaskNext]_taskvars
  PROVE  \A t \in Tasks : Allowed(t)
<1>0. TaskTypeOK
  BY DEF TaskInv
<1>1. ASSUME UNCHANGED task PROVE \A t \in Tasks : Allowed(t)
  BY <1>1 DEF Allowed
<1>2. ASSUME NEW t \in Tasks, NEW s, Move(t, s) PROVE \A u \in Tasks : Allowed(u)
  BY <1>0, <1>2, LegalFacts, WriteAllowed DEF Move
<1>3. ASSUME NEW t \in Tasks, Enqueue(t), task[t] \in {"Open", "Pending Approval"}
      PROVE  \A u \in Tasks : Allowed(u)
  <2>1. "In Progress" \in Legal(task[t]) /\ Write(t, "In Progress")
    BY <1>3, LegalFacts DEF Enqueue
  <2> QED  BY <1>0, <2>1, WriteAllowed
<1>4. ASSUME NEW t \in Tasks, People(t) PROVE \A u \in Tasks : Allowed(u)
  <2>1. CASE Submit(t) \/ Reject(t) \/ CancelTask(t) \/ RetryTask(t)
    BY <1>2, <2>1 DEF Submit, Reject, CancelTask, RetryTask
  <2>2. CASE Approve(t)
    <3>1. task[t] = "Pending Approval"
      BY <2>2 DEF Approve, LEGAL_TRANSITIONS
    <3> QED  BY <1>3, <2>2, <3>1 DEF Approve
  <2>3. ASSUME NEW manager \in BOOLEAN, RunNow(t, manager) PROVE \A u \in Tasks : Allowed(u)
    <3>1. task[t] = "Open"
      BY <2>3 DEF RunNow, MayRun, TaskInv, NeverApproved
    <3> QED  BY <1>3, <2>3, <3>1 DEF RunNow
  <2>4. CASE Edit(t) \/ DisableRequester(t)
    BY <1>1, <2>4 DEF Edit, DisableRequester
  <2> QED  BY <1>4, <2>1, <2>2, <2>3, <2>4 DEF People
<1>5. CASE CommitClaims
  <2>1. \A t \in Tasks : task'[t] # task[t] =>
            task[t] = "Open" /\ task'[t] \in {"Pending Approval", "In Progress"}
    BY <1>5 DEF CommitClaims, TaskInv, Claims
  <2> QED  BY <2>1, LegalFacts DEF Allowed
<1>6. ASSUME NEW k \in Workers, NEW s \in {"Completed", "Failed"}, Settle(k, s)
      PROVE  \A u \in Tasks : Allowed(u)
  <2>1. w[k].task \in Tasks
    BY <1>0 DEF TaskTypeOK, WorkerState
  <2>2. task[w[k].task] \in {"Open", "In Progress"} /\ Write(w[k].task, s)
    BY <1>6, <2>1 DEF Settle, TaskInv, Begun, NeverApproved, Executable
  <2> QED  BY <1>0, <2>1, <2>2, LegalFacts, WriteAllowed
<1>7. ASSUME NEW k \in Workers, AuthorityFails(k) PROVE \A u \in Tasks : Allowed(u)
  <2>1. w[k].task \in Tasks
    BY <1>0 DEF TaskTypeOK, WorkerState
  <2>2. w[k].task \in disabled /\ Write(w[k].task, "Failed")
    BY <1>7 DEF AuthorityFails, InvalidIsDisabled
  <2> QED  BY <1>0, <2>1, <2>2, WriteAllowed
<1>8. ASSUME NEW k \in Workers, Execution(k) PROVE \A u \in Tasks : Allowed(u)
  <2>1. CASE Complete(k) \/ Fail(k) \/ FinishRun(k)
    <3>1. \A s : Result(s) \in {"Completed", "Failed"}
      BY DEF Result
    <3> QED  BY <1>6, <2>1, <3>1 DEF Complete, Fail, FinishRun
  <2>2. CASE JobFails(k) \/ Skip(k) \/ Begin(k) \/ EndJob(k)
    BY <1>1, <2>2 DEF JobFails, Skip, Begin, EndJob
  <2> QED  BY <1>7, <1>8, <2>1, <2>2 DEF Execution
<1> QED  BY <1>1, <1>4, <1>5, <1>8 DEF TaskNext, RunMoves, ListDue, Claiming, ClaimNext, ClaimFails,
            SchedulerDies, Take, WorkerDies, Redeliver, taskvars

\* Every committed change of a status is one the table allows, whatever people,
\* claims and jobs do at the same time; only the job of a requester who lost the
\* account may fail a task from any state.
THEOREM LegalChangesAlways == TaskSpec => LegalChanges
<1>1. TaskInit => InvalidIsDisabled
  BY DEF TaskInit, IdleWorker, InvalidIsDisabled
<1>2. TaskSpec => []InvalidIsDisabled
  BY <1>1, InvalidStep, TasksTypeCorrect, PTL DEF TaskSpec
<1>3. TaskInv /\ InvalidIsDisabled /\ [TaskNext]_taskvars => [\A t \in Tasks : Allowed(t)]_taskvars
  BY LegalStep
<1>4. [\A t \in Tasks : Allowed(t)]_taskvars
        <=> [\A t \in Tasks : task'[t] # task[t] =>
                \/ task'[t] \in Legal(task[t])
                \/ t \in disabled /\ task'[t] = "Failed"]_taskvars
  BY DEF Allowed
<1> QED  BY <1>2, <1>3, <1>4, TasksInvariant, PTL DEF TaskSpec, LegalChanges
-----------------------------------------------------------------------------
(* The inductive invariant. *)

Active == {"ready", "asking", "calling", "closing"}

Seqs(c) == {m.seq : m \in msgs[c]}

\* The question is the first message of a turn, and its only one by the user.
Shape(roles) ==
    roles # <<>> => roles[1] = "User" /\ \A i \in 2 .. Len(roles) : roles[i] # "User"

\* What a request has done by its phase.
Phased(q) ==
    /\ q.pc \in Active \cup {"over"} => q.conv \in Convs
    /\ q.wrote => q.pc \in Active
    /\ q.pc \in {"asking", "calling", "closing"} => q.wrote /\ q.mine # <<>>
    /\ q.pc = "ready" => q.mine = <<>>
    /\ Shape(q.mine)

\* The view and the numbers of a turn that can still commit are the current ones.
Current(q) ==
    q.pc \in Active =>
        /\ q.wrote \/ ~ q.stale => conv[q.conv].exists /\ q.saw = Seqs(q.conv)
        /\ q.mine # <<>> => q.base = conv[q.conv].counter

TurnsSound == \A t \in Turns : Phased(turn[t]) /\ Current(turn[t])

\* The row of a conversation is held by one turn.
OneWriter ==
    \A t, u \in Turns :
        turn[t].wrote /\ turn[u].wrote /\ turn[t].conv = turn[u].conv => t = u

Numbered ==
    \A c \in Convs :
        /\ conv[c].exists => Seqs(c) = 1 .. conv[c].counter
        /\ ~ conv[c].exists => msgs[c] = {}
        /\ \A m, n \in msgs[c] : m.seq = n.seq => m = n

\* Questions belong to turns that were committed.
Asked ==
    \A c \in Convs : \A m \in msgs[c] :
        m.role = "User" => m.turn \in Turns /\ turn[m.turn].pc = "over"

CountKept ==
    \A c \in Convs :
        /\ conv[c].count \in {0, conv[c].counter}
        /\ ~ conv[c].exists => conv[c].count = 0

IInv ==
    /\ TypeOK
    /\ TurnsSound
    /\ OneWriter
    /\ Numbered
    /\ Asked
    /\ KnowsHistory
    /\ CountKept

-----------------------------------------------------------------------------
(* Types. *)

LEMMA NewTurnType ==
    /\ NewTurn \in Turn
    /\ NewTurn.pc = "new" /\ ~ NewTurn.wrote /\ NewTurn.mine = <<>>
  BY DEF NewTurn, Turn, Final, None

LEMMA TurnType == ASSUME TypeOK, NEW t \in Turns PROVE turn[t] \in Turn
  BY DEF TypeOK

LEMMA RunningActive == ASSUME NEW t \in Turns PROVE Running(t) <=> turn[t].pc \in Active
  BY DEF Running, Active

\* What a commit that wrote the row of c leaves of a turn q.
Remains(o, q, c) ==
    /\ o.pc = q.pc /\ o.conv = q.conv /\ o.saw = q.saw
    /\ o.wrote = q.wrote /\ o.base = q.base /\ o.mine = q.mine
    /\ o.pc \in Active /\ ~ o.stale => ~ q.stale /\ q.conv # c

LEMMA OutdatedFields ==
    ASSUME NEW q \in [Turns -> Turn], NEW c, NEW as
    PROVE  /\ Outdated(q, c, as) \in [Turns -> Turn]
           /\ \A t \in Turns : Remains(Outdated(q, c, as)[t], q[t], c)
<1> DEFINE p(t) == [q[t] EXCEPT !.stale = @ \/ q[t].conv = c,
                                !.agentStale = @ \/ q[t].agent \in as]
<1>1. ASSUME NEW t \in Turns
      PROVE  /\ p(t) \in Turn
             /\ p(t).pc = q[t].pc /\ p(t).conv = q[t].conv /\ p(t).saw = q[t].saw
             /\ p(t).wrote = q[t].wrote /\ p(t).base = q[t].base /\ p(t).mine = q[t].mine
             /\ p(t).stale <=> q[t].stale \/ q[t].conv = c
  <2>1. q[t] \in Turn
    OBVIOUS
  <2> QED  BY <2>1 DEF Turn
<1>2. Outdated(q, c, as) = [t \in Turns |-> IF q[t].pc \in Active THEN p(t) ELSE q[t]]
  BY DEF Outdated, Active
<1> HIDE DEF p
<1>3. Outdated(q, c, as) \in [Turns -> Turn]
  BY <1>1, <1>2
<1>4. ASSUME NEW t \in Turns
      PROVE  Remains(Outdated(q, c, as)[t], q[t], c)
  <2>1. CASE q[t].pc \in Active
    <3>1. Outdated(q, c, as)[t] = p(t)
      BY <1>2, <2>1
    <3> QED  BY <1>1, <3>1 DEF Remains
  <2>2. CASE q[t].pc \notin Active
    <3>1. Outdated(q, c, as)[t] = q[t]
      BY <1>2, <2>2
    <3> QED  BY <2>2, <3>1 DEF Remains
  <2> QED  BY <2>1, <2>2
<1> QED  BY <1>3, <1>4

-----------------------------------------------------------------------------
LEMMA InitInv == Init => IInv
<1> SUFFICES ASSUME Init PROVE IInv
  OBVIOUS
<1>1. NoRow \in Row /\ ~ NoRow.exists /\ NoRow.count = 0
  BY DEF NoRow, Row
<1>2. TypeOK
  BY <1>1, NewTurnType, LimitsAssumption DEF Init, TypeOK
<1>3. TurnsSound
  BY NewTurnType DEF Init, TurnsSound, Phased, Current, Active, Shape
<1>4. OneWriter
  BY NewTurnType DEF Init, OneWriter
<1>5. Numbered /\ Asked /\ CountKept
  BY <1>1 DEF Init, Numbered, Asked, CountKept
<1>6. KnowsHistory
  BY NewTurnType DEF Init, KnowsHistory
<1> QED  BY <1>2, <1>3, <1>4, <1>5, <1>6 DEF IInv

-----------------------------------------------------------------------------
(* Steps of one turn that commit nothing. *)

LEMMA TurnStep ==
    ASSUME IInv, NEW t \in Turns, turn[t].pc # "over",
           NEW q \in Turn, q.pc # "over", Phased(q), Current(q),
           q.wrote => \/ turn[t].wrote /\ q.conv = turn[t].conv
                      \/ RowFree(q.conv),
           turn' = [turn EXCEPT ![t] = q], UNCHANGED <<conv, msgs, flagged, edits>>,
           failures' \in 0 .. MaxFailures
    PROVE  IInv'
<1>1. TypeOK /\ TurnsSound /\ OneWriter /\ Numbered /\ Asked /\ KnowsHistory /\ CountKept
  BY DEF IInv
<1>2. /\ turn' \in [Turns -> Turn] /\ turn'[t] = q
      /\ \A u \in Turns : u # t => turn'[u] = turn[u]
  BY <1>1 DEF TypeOK
<1>3. TypeOK'
  BY <1>1, <1>2 DEF TypeOK
<1>4. \A p : Current(p) => Current(p)'
  BY DEF Current, Seqs
<1>5. TurnsSound'
  BY <1>1, <1>2, <1>4 DEF TurnsSound, Phased, Current
<1>6. ASSUME NEW u \in Turns, u # t, turn[u].wrote, q.wrote, turn[u].conv = q.conv PROVE FALSE
  <2>1. Running(u)
    BY <1>1, <1>6, RunningActive DEF TurnsSound, Phased
  <2>2. ~ RowFree(q.conv)
    BY <1>6, <2>1 DEF RowFree
  <2> QED  BY <1>1, <1>6, <2>2 DEF OneWriter
<1>7. OneWriter'
  BY <1>1, <1>2, <1>6 DEF OneWriter
<1>8. Numbered' /\ CountKept'
  BY <1>1 DEF Numbered, CountKept, Seqs
<1>9. Asked'
  BY <1>1, <1>2 DEF Asked
<1>10. KnowsHistory'
  BY <1>1, <1>2 DEF KnowsHistory
<1> QED  BY <1>3, <1>5, <1>7, <1>8, <1>9, <1>10 DEF IInv

LEMMA StartTurnInv ==
    ASSUME IInv, NEW t \in Turns, NEW c \in Convs, NEW a \in Agents, NEW b \in BOOLEAN,
           StartTurn(t, c, a, b)
    PROVE  IInv'
<1> DEFINE q == [NewTurn EXCEPT !.pc = "ready", !.conv = c, !.agent = a,
                                !.saw = {m.seq : m \in msgs[c]}, !.wrote = b]
<1>1. /\ turn[t].pc = "new" /\ conv[c].exists /\ (b => RowFree(c))
      /\ turn' = [turn EXCEPT ![t] = q]
      /\ UNCHANGED <<conv, msgs, flagged, edits, failures>>
  BY DEF StartTurn
<1>2. Seqs(c) \in SUBSET Nat
  BY DEF IInv, TypeOK, Seqs, Message
<1>3. /\ q \in Turn /\ q.pc = "ready" /\ q.conv = c /\ q.saw = Seqs(c)
      /\ q.wrote = b /\ q.mine = <<>>
  BY <1>2, NewTurnType DEF Turn, Seqs
<1> HIDE DEF q
<1>4. Phased(q) /\ Current(q)
  BY <1>1, <1>3 DEF Phased, Current, Active, Shape
<1>5. failures' \in 0 .. MaxFailures
  BY <1>1 DEF IInv, TypeOK
<1> QED  BY <1>1, <1>3, <1>4, <1>5, TurnStep

\* The messages of a turn grow by its question, or by what is no question.
LEMMA SavedTurn ==
    ASSUME IInv, NEW t \in Turns, turn[t].conv \in Convs, NEW roles \in Seq(Roles), roles # <<>>,
           Shape(turn[t].mine \o roles)
    PROVE  LET q == Save(t, roles)[t] IN
           /\ Save(t, roles) = [turn EXCEPT ![t] = q]
           /\ q \in Turn /\ q.wrote /\ q.mine = turn[t].mine \o roles
           /\ q.mine # <<>> /\ q.pc = turn[t].pc /\ q.conv = turn[t].conv /\ q.saw = turn[t].saw
           /\ q.stale = turn[t].stale /\ q.iteration = turn[t].iteration
           /\ q.base = IF turn[t].mine = <<>> THEN conv[turn[t].conv].counter ELSE turn[t].base
<1> DEFINE b == IF turn[t].mine = <<>> THEN conv[turn[t].conv].counter ELSE turn[t].base
           s == turn[t].mine \o roles
           q == [turn[t] EXCEPT !.wrote = TRUE, !.base = b, !.mine = s]
<1>1. turn[t] \in Turn /\ turn \in [Turns -> Turn] /\ turn[t].mine \in Seq(Roles)
  BY DEF IInv, TypeOK, Turn
<1>2. s \in Seq(Roles) /\ s # <<>>
  BY <1>1
<1>3. b \in Nat
  <2>1. turn[t].base \in Nat
    BY <1>1 DEF Turn
  <2>2. conv[turn[t].conv].counter \in Nat
    BY DEF IInv, TypeOK, Row
  <2> QED  BY <2>1, <2>2
<1>4. Save(t, roles) = [turn EXCEPT ![t] = q]
  BY <1>1 DEF Save, Turn
<1> HIDE DEF b, s
<1>5. /\ q \in Turn /\ q.wrote /\ q.mine = s /\ q.pc = turn[t].pc /\ q.conv = turn[t].conv
      /\ q.saw = turn[t].saw /\ q.stale = turn[t].stale /\ q.iteration = turn[t].iteration
      /\ q.base = b
  BY <1>1, <1>2, <1>3 DEF Turn
<1> HIDE DEF q
<1>6. Save(t, roles)[t] = q
  BY <1>1, <1>4
<1> QED  BY <1>2, <1>4, <1>5, <1>6 DEF b, s

LEMMA AskModelInv ==
    ASSUME IInv, NEW t \in Turns, AskModel(t) \/ Fallback(t)
    PROVE  IInv'
<1> DEFINE p == Save(t, <<"User", "Assistant">>)[t]
<1>1. /\ turn[t].pc = "ready" /\ CanAllocate(t)
      /\ UNCHANGED <<conv, msgs, flagged, edits, failures>>
  BY DEF AskModel, Fallback
<1>2. /\ turn \in [Turns -> Turn] /\ turn[t] \in Turn
      /\ Phased(turn[t]) /\ Current(turn[t]) /\ turn[t].mine = <<>> /\ turn[t].conv \in Convs
      /\ failures' \in 0 .. MaxFailures
  BY <1>1 DEF IInv, TypeOK, TurnsSound, Phased, Active
<1>3. /\ <<"User", "Assistant">> \in Seq(Roles) /\ <<"User", "Assistant">> # <<>>
      /\ turn[t].mine \o <<"User", "Assistant">> = <<"User", "Assistant">>
      /\ Shape(<<"User", "Assistant">>)
  BY <1>2 DEF Roles, Shape
<1>4. /\ Save(t, <<"User", "Assistant">>) = [turn EXCEPT ![t] = p]
      /\ p \in Turn /\ p.wrote /\ p.mine = <<"User", "Assistant">> /\ p.mine # <<>>
      /\ p.pc = turn[t].pc /\ p.conv = turn[t].conv
      /\ p.saw = turn[t].saw /\ p.base = conv[turn[t].conv].counter
  BY <1>2, <1>3, SavedTurn
<1> HIDE DEF p
<1>5. PICK q \in Turn :
         /\ turn' = [turn EXCEPT ![t] = q] /\ q.pc \in {"asking", "closing"} /\ q.wrote
         /\ q.mine = p.mine /\ q.conv = p.conv /\ q.saw = p.saw /\ q.base = p.base
  <2>1. CASE AskModel(t)
    <3> DEFINE q == [p EXCEPT !.pc = "asking"]
    <3>1. turn' = [turn EXCEPT ![t] = q]
      BY <1>2, <1>4, <2>1 DEF AskModel
    <3>2. /\ q \in Turn /\ q.pc = "asking" /\ q.wrote
          /\ q.mine = p.mine /\ q.conv = p.conv /\ q.saw = p.saw /\ q.base = p.base
      BY <1>4 DEF Turn
    <3> HIDE DEF q
    <3> QED  BY <3>1, <3>2
  <2>2. CASE Fallback(t)
    <3> DEFINE q == [p EXCEPT !.pc = "closing", !.agent = None, !.agentStale = FALSE]
    <3>1. turn' = [turn EXCEPT ![t] = q]
      BY <1>2, <1>4, <2>2 DEF Fallback
    <3>2. /\ q \in Turn /\ q.pc = "closing" /\ q.wrote
          /\ q.mine = p.mine /\ q.conv = p.conv /\ q.saw = p.saw /\ q.base = p.base
      BY <1>4 DEF Turn
    <3> HIDE DEF q
    <3> QED  BY <3>1, <3>2
  <2> QED  BY <2>1, <2>2
<1>6. /\ turn[t].conv \in Convs
      /\ conv[turn[t].conv].exists /\ turn[t].saw = Seqs(turn[t].conv)
  BY <1>1, <1>2 DEF CanAllocate, Phased, Current, Active
<1>7. Phased(q) /\ Current(q)
  BY <1>3, <1>4, <1>5, <1>6 DEF Phased, Current, Active
<1>8. q.wrote => (turn[t].wrote /\ q.conv = turn[t].conv) \/ RowFree(q.conv)
  BY <1>1, <1>4, <1>5 DEF CanAllocate
<1> QED  BY <1>1, <1>2, <1>5, <1>7, <1>8, TurnStep

LEMMA CallsToolsInv ==
    ASSUME IInv, NEW t \in Turns, NEW n \in 1 .. MaxTools, CallsTools(t, n)
    PROVE  IInv'
<1> DEFINE tools == [i \in 1 .. n |-> "Tool"]
           p == Save(t, tools)[t]
           q == [p EXCEPT !.pc = "asking", !.iteration = @ + 1]
<1>1. /\ turn[t].pc = "calling" /\ turn[t].iteration < MaxIterations
      /\ turn' = [Save(t, tools) EXCEPT ![t].pc = "asking", ![t].iteration = @ + 1]
      /\ UNCHANGED <<conv, msgs, flagged, edits, failures>>
  BY DEF CallsTools
<1>2. /\ turn \in [Turns -> Turn] /\ turn[t] \in Turn
      /\ Phased(turn[t]) /\ Current(turn[t]) /\ turn[t].mine # <<>> /\ turn[t].wrote
      /\ failures' \in 0 .. MaxFailures /\ turn[t].mine \in Seq(Roles) /\ turn[t].conv \in Convs
  BY <1>1 DEF IInv, TypeOK, TurnsSound, Phased, Turn, Active
<1>3. tools \in Seq(Roles) /\ Len(tools) = n /\ tools # <<>> /\ n \in Nat \ {0}
  <2>1. n \in Nat \ {0}
    BY LimitsAssumption
  <2>2. tools \in Seq(Roles) /\ Len(tools) = n
    BY <2>1 DEF Roles
  <2> QED  BY <2>1, <2>2
<1>4. Shape(turn[t].mine \o tools)
  <2> DEFINE s == turn[t].mine
  <2>1. /\ s \in Seq(Roles) /\ s # <<>> /\ s[1] = "User"
        /\ \A i \in 2 .. Len(s) : s[i] # "User"
    BY <1>2 DEF Phased, Shape
  <2>2. \A i \in 1 .. n : tools[i] # "User"
    OBVIOUS
  <2> HIDE DEF s, tools
  <2>3. /\ Len(s) \in Nat \ {0} /\ Len(s \o tools) = Len(s) + n
        /\ \A i \in 1 .. Len(s) + n :
              (s \o tools)[i] = IF i <= Len(s) THEN s[i] ELSE tools[i - Len(s)]
    BY <1>3, <2>1
  <2> QED  BY <1>3, <2>1, <2>2, <2>3 DEF Shape, s
<1> HIDE DEF tools
<1>5. /\ Save(t, tools) = [turn EXCEPT ![t] = p]
      /\ p \in Turn /\ p.wrote /\ p.mine = turn[t].mine \o tools /\ p.mine # <<>>
      /\ p.conv = turn[t].conv /\ p.saw = turn[t].saw /\ p.base = turn[t].base
      /\ p.stale = turn[t].stale
  BY <1>2, <1>3, <1>4, SavedTurn
<1> HIDE DEF p
<1>6. turn' = [turn EXCEPT ![t] = q]
  BY <1>1, <1>2, <1>5
<1>7. /\ q \in Turn /\ q.pc = "asking" /\ q.wrote /\ q.mine = p.mine
      /\ q.conv = p.conv /\ q.saw = p.saw /\ q.base = p.base
  <2>1. p.iteration + 1 \in Nat
    BY <1>5 DEF Turn
  <2> DEFINE x == p.iteration + 1
  <2>2. q = [p EXCEPT !.pc = "asking", !.iteration = x] /\ x \in Nat
    BY <1>5, <2>1 DEF Turn
  <2> HIDE DEF q, x
  <2> QED  BY <1>5, <2>2 DEF Turn
<1> HIDE DEF q
<1>8. Phased(q) /\ Current(q)
  BY <1>1, <1>2, <1>4, <1>5, <1>7 DEF Phased, Current, Active
<1> QED  BY <1>1, <1>2, <1>5, <1>6, <1>7, <1>8, TurnStep

\* A turn that fails, or is sent again, starts from nothing.
LEMMA FreshTurn ==
    ASSUME IInv, NEW t \in Turns, turn[t].pc # "over", NEW pc \in {"new", "failed"},
           turn' = [turn EXCEPT ![t] = [NewTurn EXCEPT !.pc = pc]],
           UNCHANGED <<conv, msgs, flagged, edits>>, failures' \in 0 .. MaxFailures
    PROVE  IInv'
<1> DEFINE q == [NewTurn EXCEPT !.pc = pc]
<1>1. q \in Turn /\ q.pc = pc /\ ~ q.wrote /\ q.mine = <<>>
  BY NewTurnType DEF Turn
<1>2. turn' = [turn EXCEPT ![t] = q]
  OBVIOUS
<1> HIDE DEF q
<1>3. Phased(q) /\ Current(q)
  BY <1>1 DEF Phased, Current, Active, Shape
<1> QED  BY <1>1, <1>2, <1>3, TurnStep

LEMMA FailuresInv ==
    ASSUME IInv, NEW t \in Turns, Refused(t) \/ AgentConflict(t) \/ Dies(t) \/ Resend(t)
    PROVE  IInv'
<1>1. turn[t].pc # "over" /\ UNCHANGED <<conv, msgs, flagged, edits>>
  BY DEF Refused, AgentConflict, Dies, Resend, Running
<1>2. failures' \in 0 .. MaxFailures
  BY LimitsAssumption DEF IInv, TypeOK, Refused, AgentConflict, Dies, Resend
<1>3. CASE Refused(t) \/ AgentConflict(t) \/ Dies(t)
  <2>1. turn' = [turn EXCEPT ![t] = [NewTurn EXCEPT !.pc = "failed"]]
    BY <1>3 DEF Refused, AgentConflict, Dies, Undo
  <2> QED  BY <1>1, <1>2, <2>1, FreshTurn
<1>4. CASE Resend(t)
  <2>1. turn' = [turn EXCEPT ![t] = [NewTurn EXCEPT !.pc = "new"]]
    BY <1>4 DEF Resend, NewTurn
  <2> QED  BY <1>1, <1>2, <2>1, FreshTurn
<1> QED  BY <1>3, <1>4

\* A turn goes on without a write.
LEMMA CallsInv ==
    ASSUME IInv, NEW t \in Turns, CallModel(t) \/ Answers(t)
    PROVE  IInv'
<1>1. turn[t].pc \in {"asking", "calling"} /\ UNCHANGED <<conv, msgs, flagged, edits, failures>>
  BY DEF CallModel, Answers
<1>2. \E pc \in {"calling", "closing"}, o \in Final :
         turn' = [turn EXCEPT ![t] = [turn[t] EXCEPT !.pc = pc, !.outcome = o]]
  <2>1. turn[t] \in Turn /\ turn \in [Turns -> Turn]
    BY DEF IInv, TypeOK
  <2>2. CASE CallModel(t) /\ t \in flagged
    <3>1. turn' = [turn EXCEPT ![t] = [turn[t] EXCEPT !.pc = "closing", !.outcome = "Cancelled"]]
      BY <2>1, <2>2 DEF CallModel
    <3> QED  BY <3>1 DEF Final
  <2>3. CASE CallModel(t) /\ t \notin flagged
    <3>1. turn' = [turn EXCEPT ![t] = [turn[t] EXCEPT !.pc = "calling"]]
      BY <2>1, <2>3 DEF CallModel
    <3>2. [turn[t] EXCEPT !.pc = "calling"] = [turn[t] EXCEPT !.pc = "calling", !.outcome = turn[t].outcome]
      BY <2>1 DEF Turn
    <3>3. turn[t].outcome \in Final
      BY <2>1 DEF Turn
    <3> QED  BY <3>1, <3>2, <3>3
  <2>4. CASE Answers(t)
    <3>1. PICK o \in {"Completed", "Failed", "Cancelled"} :
             turn' = [turn EXCEPT ![t].pc = "closing", ![t].outcome = o]
      BY <2>4 DEF Answers
    <3>2. turn' = [turn EXCEPT ![t] = [turn[t] EXCEPT !.pc = "closing", !.outcome = o]]
      BY <2>1, <3>1
    <3> QED  BY <3>2 DEF Final
  <2> QED  BY <2>2, <2>3, <2>4
<1>3. PICK pc \in {"calling", "closing"}, o \in Final :
         turn' = [turn EXCEPT ![t] = [turn[t] EXCEPT !.pc = pc, !.outcome = o]]
  BY <1>2
<1> DEFINE q == [turn[t] EXCEPT !.pc = pc, !.outcome = o]
<1>4. /\ turn[t] \in Turn /\ Phased(turn[t]) /\ Current(turn[t])
      /\ failures' \in 0 .. MaxFailures
  BY <1>1 DEF IInv, TypeOK, TurnsSound
<1>5. /\ q \in Turn /\ q.pc = pc /\ q.conv = turn[t].conv /\ q.saw = turn[t].saw
      /\ q.stale = turn[t].stale /\ q.wrote = turn[t].wrote
      /\ q.base = turn[t].base /\ q.mine = turn[t].mine
  BY <1>4 DEF Turn
<1>6. turn' = [turn EXCEPT ![t] = q]
  BY <1>3
<1> HIDE DEF q
<1>7. Phased(q) /\ Current(q)
  BY <1>1, <1>4, <1>5 DEF Phased, Current, Active
<1> QED  BY <1>1, <1>4, <1>5, <1>6, <1>7, TurnStep

-----------------------------------------------------------------------------
(* Commits that write the row of a conversation. *)

\* The turns, and the rows of the other conversations. A turn of q is as before,
\* and does not hold the row of c, or it is over.
LEMMA CommitStep ==
    ASSUME IInv, NEW c \in Convs, NEW as, NEW q \in [Turns -> Turn],
           turn' = Outdated(q, c, as),
           \A u \in Turns : \/ q[u] = turn[u] /\ (turn[u].wrote => turn[u].conv # c)
                            \/ /\ q[u].pc = "over" /\ q[u].conv \in Convs
                               /\ ~ q[u].wrote /\ q[u].mine = <<>>,
           NEW row \in Row, conv' = [conv EXCEPT ![c] = row],
           NEW ms \in SUBSET Message, msgs' = [msgs EXCEPT ![c] = ms],
           row.exists => {m.seq : m \in ms} = 1 .. row.counter,
           ~ row.exists => ms = {} /\ row.count = 0,
           \A m, n \in ms : m.seq = n.seq => m = n,
           row.count \in {0, row.counter},
           Asked', KnowsHistory',
           flagged' \subseteq Turns, edits' \in 0 .. MaxEdits, failures' \in 0 .. MaxFailures
    PROVE  IInv'
<1>1. TypeOK /\ TurnsSound /\ OneWriter /\ Numbered /\ CountKept
  BY DEF IInv
<1>2. /\ conv' \in [Convs -> Row] /\ conv'[c] = row
      /\ \A d \in Convs : d # c => conv'[d] = conv[d]
  BY <1>1 DEF TypeOK
<1>3. /\ msgs' \in [Convs -> SUBSET Message] /\ msgs'[c] = ms
      /\ \A d \in Convs : d # c => msgs'[d] = msgs[d]
  BY <1>1 DEF TypeOK
<1>4. turn' \in [Turns -> Turn] /\ \A u \in Turns : Remains(turn'[u], q[u], c)
  BY OutdatedFields
<1>5. TypeOK'
  BY <1>2, <1>3, <1>4 DEF TypeOK
<1>6. \A d \in Convs : d # c => Seqs(d)' = Seqs(d)
  BY <1>3 DEF Seqs
<1>7. TurnsSound'
  <2> SUFFICES ASSUME NEW u \in Turns PROVE Phased(turn[u])' /\ Current(turn[u])'
    BY DEF TurnsSound
  <2>1. CASE q[u] = turn[u] /\ (turn[u].wrote => turn[u].conv # c)
    <3>1. Phased(turn[u]) /\ Current(turn[u]) /\ Remains(turn'[u], turn[u], c)
      BY <1>1, <1>4, <2>1 DEF TurnsSound
    <3>2. Phased(turn'[u])
      BY <3>1 DEF Phased, Remains
    <3>3. ASSUME turn'[u].pc \in Active, turn'[u].wrote \/ ~ turn'[u].stale
          PROVE  /\ conv'[turn'[u].conv].exists
                 /\ turn'[u].saw = {m.seq : m \in msgs'[turn'[u].conv]}
                 /\ turn'[u].mine # <<>> => turn'[u].base = conv'[turn'[u].conv].counter
      <4>1. /\ turn[u].conv # c /\ turn[u].conv \in Convs
            /\ turn'[u].conv = turn[u].conv /\ turn'[u].saw = turn[u].saw
            /\ turn'[u].base = turn[u].base /\ turn'[u].mine = turn[u].mine
        BY <2>1, <3>1, <3>3 DEF Phased, Remains
      <4>2. conv'[turn[u].conv] = conv[turn[u].conv] /\ msgs'[turn[u].conv] = msgs[turn[u].conv]
        BY <1>2, <1>3, <4>1
      <4>3. turn[u].wrote \/ ~ turn[u].stale
        BY <3>1, <3>3 DEF Remains
      <4>4. turn[u].pc \in Active
        BY <3>1, <3>3 DEF Remains
      <4>5. /\ conv[turn[u].conv].exists /\ turn[u].saw = {m.seq : m \in msgs[turn[u].conv]}
            /\ turn[u].mine # <<>> => turn[u].base = conv[turn[u].conv].counter
        BY <3>1, <4>3, <4>4 DEF Current, Seqs
      <4> QED  BY <4>1, <4>2, <4>5
    <3>4. turn'[u].pc \in Active /\ turn'[u].mine # <<>> => turn'[u].wrote
      BY <3>2 DEF Phased, Active
    <3>5. Phased(turn[u])'
      BY <3>2 DEF Phased
    <3>6. Current(turn[u])'
      BY <3>3, <3>4 DEF Current, Seqs
    <3> QED  BY <3>5, <3>6
  <2>2. CASE /\ q[u].pc = "over" /\ q[u].conv \in Convs
             /\ ~ q[u].wrote /\ q[u].mine = <<>>
    <3>1. /\ turn'[u].pc = "over" /\ turn'[u].conv \in Convs
          /\ ~ turn'[u].wrote /\ turn'[u].mine = <<>>
      BY <1>4, <2>2 DEF Remains
    <3> QED  BY <3>1 DEF Phased, Current, Active, Shape
  <2> QED  BY <2>1, <2>2
<1>8. OneWriter'
  <2>1. \A u \in Turns : turn'[u].wrote => turn[u].wrote /\ turn'[u].conv = turn[u].conv
    BY <1>4 DEF Remains
  <2> QED  BY <1>1, <2>1 DEF OneWriter
<1>9. Numbered'
  <2> SUFFICES ASSUME NEW d \in Convs
               PROVE  /\ conv'[d].exists => Seqs(d)' = 1 .. conv'[d].counter
                      /\ ~ conv'[d].exists => msgs'[d] = {}
                      /\ \A m, n \in msgs'[d] : m.seq = n.seq => m = n
    BY DEF Numbered
  <2>1. CASE d = c
    <3>1. Seqs(d)' = {m.seq : m \in ms}
      BY <1>3, <2>1 DEF Seqs
    <3> QED  BY <1>2, <1>3, <2>1, <3>1
  <2>2. CASE d # c
    <3>1. conv'[d] = conv[d] /\ msgs'[d] = msgs[d] /\ Seqs(d)' = Seqs(d)
      BY <1>2, <1>3, <2>2 DEF Seqs
    <3> QED  BY <1>1, <3>1 DEF Numbered
  <2> QED  BY <2>1, <2>2
<1>10. CountKept'
  BY <1>1, <1>2 DEF CountKept
<1> QED  BY <1>5, <1>7, <1>8, <1>9, <1>10 DEF IInv

\* A row nobody holds, whose messages gain no question.
LEMMA RowStep ==
    ASSUME IInv, NEW c \in Convs, NEW as, turn' = Outdated(turn, c, as),
           \A u \in Turns : turn[u].wrote => turn[u].conv # c,
           NEW row \in Row, conv' = [conv EXCEPT ![c] = row],
           NEW ms \in SUBSET Message, msgs' = [msgs EXCEPT ![c] = ms],
           row.exists => {m.seq : m \in ms} = 1 .. row.counter,
           ~ row.exists => ms = {} /\ row.count = 0,
           \A m, n \in ms : m.seq = n.seq => m = n,
           row.count \in {0, row.counter},
           \A m \in ms : m.role = "User" => m \in msgs[c],
           flagged' \subseteq Turns, edits' \in 0 .. MaxEdits, failures' \in 0 .. MaxFailures
    PROVE  IInv'
<1>1. TypeOK /\ Asked /\ KnowsHistory
  BY DEF IInv
<1>2. turn \in [Turns -> Turn]
  BY <1>1 DEF TypeOK
<1>3. \A u \in Turns : turn'[u].pc = turn[u].pc /\ turn'[u].conv = turn[u].conv /\ turn'[u].saw = turn[u].saw
  <2>1. \A u \in Turns : Remains(turn'[u], turn[u], c)
    BY <1>2, OutdatedFields
  <2> QED  BY <2>1 DEF Remains
<1>4. \A d \in Convs : \A m \in msgs'[d] : m.role = "User" => m \in msgs[d]
  BY <1>1 DEF TypeOK
<1>5. Asked'
  BY <1>1, <1>3, <1>4 DEF Asked
<1>6. KnowsHistory'
  <2> SUFFICES ASSUME NEW t \in Turns, turn'[t].pc = "over", NEW m \in msgs'[turn'[t].conv],
                      m.turn = t, m.role = "User"
               PROVE  turn'[t].saw = 1 .. m.seq - 1
    BY DEF KnowsHistory
  <2>1. m \in msgs[turn[t].conv]
    <3>1. turn[t].conv \in Convs
      BY <1>3 DEF IInv, TurnsSound, Phased
    <3>2. m \in msgs'[turn[t].conv] /\ m.role = "User"
      <4>1. turn'[t].conv = turn[t].conv
        BY <1>3
      <4> QED  BY <4>1
    <3> QED  BY <1>4, <3>1, <3>2
  <2>2. turn[t].pc = "over" /\ turn'[t].saw = turn[t].saw
    BY <1>3
  <2>3. turn[t].saw = 1 .. m.seq - 1
    <3>1. KnowsHistory
      BY <1>1
    <3> QED  BY <2>1, <2>2, <3>1 DEF KnowsHistory
  <2> QED  BY <2>2, <2>3
<1>7. \A u \in Turns : \/ turn[u] = turn[u] /\ (turn[u].wrote => turn[u].conv # c)
                       \/ /\ turn[u].pc = "over" /\ turn[u].conv \in Convs
                          /\ ~ turn[u].wrote /\ turn[u].mine = <<>>
  OBVIOUS
<1> QED  BY <1>2, <1>5, <1>6, <1>7, CommitStep

LEMMA CreateConversationInv ==
    ASSUME IInv, NEW c \in Convs, NEW a \in Agents, NEW b \in BOOLEAN, CreateConversation(c, a, b)
    PROVE  IInv'
<1> DEFINE n == IF b THEN 1 ELSE 0
           hello == [seq |-> 1, role |-> "Assistant", turn |-> None, status |-> "Completed"]
           ms == IF b THEN {hello} ELSE {}
           row == [conv[c] EXCEPT !.exists = TRUE, !.counter = n]
<1>1. TypeOK /\ TurnsSound /\ CountKept /\ conv[c] \in Row
  BY DEF IInv, TypeOK
<1>2. /\ ~ conv[c].exists /\ turn' = Outdated(turn, c, {a})
      /\ msgs' = [msgs EXCEPT ![c] = ms]
      /\ UNCHANGED <<flagged, edits, failures>>
  BY DEF CreateConversation
<1>3. conv' = [conv EXCEPT ![c] = row]
  BY <1>1 DEF CreateConversation, TypeOK
<1>4. /\ row \in Row /\ row.exists /\ row.counter = n /\ row.count = conv[c].count
      /\ conv[c].count = 0
  BY <1>1, <1>2 DEF Row, CountKept
<1>5. /\ hello \in Message /\ hello.seq = 1 /\ hello.role = "Assistant"
  BY DEF Message, Roles, Final
<1> HIDE DEF row, hello
<1>6. /\ ms \in SUBSET Message /\ {m.seq : m \in ms} = 1 .. n
      /\ \A m, k \in ms : m.seq = k.seq => m = k
      /\ \A m \in ms : m.role # "User"
  <2>1. CASE b
    BY <1>5, <2>1
  <2>2. CASE ~ b
    BY <2>2
  <2> QED  BY <2>1, <2>2
<1>7. \A u \in Turns : turn[u].wrote => turn[u].conv # c
  BY <1>1, <1>2 DEF TurnsSound, Phased, Current
<1>8. flagged' \subseteq Turns /\ edits' \in 0 .. MaxEdits /\ failures' \in 0 .. MaxFailures
  BY <1>1, <1>2 DEF TypeOK
<1> HIDE DEF ms, n
<1> QED  BY <1>2, <1>3, <1>4, <1>6, <1>7, <1>8, RowStep

LEMMA FreeRow ==
    ASSUME IInv, NEW c, RowFree(c)
    PROVE  \A u \in Turns : turn[u].wrote => turn[u].conv # c
  BY RunningActive DEF IInv, TurnsSound, Phased, RowFree

LEMMA EditedType == ASSUME TypeOK, Edited PROVE edits' \in 0 .. MaxEdits
  BY LimitsAssumption DEF TypeOK, Edited

LEMMA EditConversationInv ==
    ASSUME IInv, NEW c \in Convs, EditConversation(c)
    PROVE  IInv'
<1>1. TypeOK /\ Numbered /\ CountKept /\ conv[c] \in Row /\ msgs[c] \in SUBSET Message
  BY DEF IInv, TypeOK
<1>2. /\ RowFree(c) /\ turn' = Outdated(turn, c, {})
      /\ UNCHANGED <<conv, msgs, flagged, failures>> /\ Edited
  BY DEF EditConversation
<1>3. conv' = [conv EXCEPT ![c] = conv[c]] /\ msgs' = [msgs EXCEPT ![c] = msgs[c]]
  BY <1>1, <1>2 DEF TypeOK
<1>4. /\ conv[c].exists => {m.seq : m \in msgs[c]} = 1 .. conv[c].counter
      /\ ~ conv[c].exists => msgs[c] = {} /\ conv[c].count = 0
      /\ \A m, n \in msgs[c] : m.seq = n.seq => m = n
      /\ conv[c].count \in {0, conv[c].counter}
  BY <1>1 DEF Numbered, CountKept, Seqs
<1>5. flagged' \subseteq Turns /\ edits' \in 0 .. MaxEdits /\ failures' \in 0 .. MaxFailures
  BY <1>1, <1>2, EditedType DEF TypeOK
<1>6. \A m \in msgs[c] : m.role = "User" => m \in msgs[c]
  OBVIOUS
<1> QED  BY <1>1, <1>2, <1>3, <1>4, <1>5, <1>6, FreeRow, RowStep

LEMMA DeleteConversationInv ==
    ASSUME IInv, NEW c \in Convs, DeleteConversation(c)
    PROVE  IInv'
<1> DEFINE row == [NoRow EXCEPT !.counter = conv[c].counter]
<1>1. TypeOK /\ conv[c] \in Row
  BY DEF IInv, TypeOK
<1>2. /\ RowFree(c) /\ turn' = Outdated(turn, c, {})
      /\ conv' = [conv EXCEPT ![c] = row] /\ msgs' = [msgs EXCEPT ![c] = {}]
      /\ UNCHANGED <<flagged, failures>> /\ Edited
  BY DEF DeleteConversation
<1>3. row \in Row /\ ~ row.exists /\ row.count = 0
  BY <1>1 DEF NoRow, Row
<1>4. flagged' \subseteq Turns /\ edits' \in 0 .. MaxEdits /\ failures' \in 0 .. MaxFailures
  BY <1>1, <1>2, EditedType DEF TypeOK
<1>5. {} \in SUBSET Message /\ \A m \in {} : m.role = "User" => m \in msgs[c]
  OBVIOUS
<1>6. \A m, n \in {} : m.seq = n.seq => m = n
  OBVIOUS
<1> HIDE DEF row
<1> QED  BY <1>2, <1>3, <1>4, <1>5, <1>6, FreeRow, RowStep

LEMMA CountTo ==
    ASSUME NEW n \in Nat
    PROVE  IsFiniteSet(1 .. n) /\ Cardinality(1 .. n) = n
<1>1. n \in Int /\ 1 \in Int
  OBVIOUS
<1>2. IsFiniteSet(1 .. n) /\ Cardinality(1 .. n) = IF 1 > n THEN 0 ELSE n - 1 + 1
  BY <1>1, FS_Interval
<1> QED  BY <1>2

\* The messages of a turn that ends follow those of its view without a gap.
LEMMA RowsOfTurn ==
    ASSUME IInv, NEW t \in Turns, turn[t].pc = "closing"
    PROVE  LET c == turn[t].conv
               n == Len(turn[t].mine)
           IN
           /\ Rows(t) \in SUBSET Message /\ n \in Nat /\ turn[t].base \in Nat
           /\ {m.seq : m \in Rows(t)} = turn[t].base + 1 .. turn[t].base + n
           /\ \A m, k \in Rows(t) : m.seq = k.seq => m = k
           /\ \A m \in Rows(t) : m.role = "User" => m.turn = t /\ m.seq = turn[t].base + 1
<1> DEFINE n == Len(turn[t].mine)
           b == turn[t].base
           row(i) == [seq |-> b + i, role |-> turn[t].mine[i], turn |-> t,
                      status |-> IF turn[t].mine[i] = "Assistant" THEN turn[t].outcome ELSE "Completed"]
<1>1. /\ turn[t] \in Turn /\ Phased(turn[t]) /\ turn[t].mine # <<>>
      /\ turn[t].mine \in Seq(Roles) /\ turn[t].outcome \in Final
      /\ b \in Nat /\ n \in Nat
  BY DEF IInv, TypeOK, TurnsSound, Phased, Turn
<1>2. \A i \in 1 .. n : turn[t].mine[i] \in Roles
  BY <1>1
<1>3. Rows(t) = {row(i) : i \in 1 .. n}
  BY DEF Rows
<1>4. \A i \in 1 .. n : row(i) \in Message
  <2> SUFFICES ASSUME NEW i \in 1 .. n PROVE row(i) \in Message
    OBVIOUS
  <2>1. b + i \in Nat /\ turn[t].mine[i] \in Roles
    BY <1>1, <1>2
  <2>2. (IF turn[t].mine[i] = "Assistant" THEN turn[t].outcome ELSE "Completed") \in Final
    BY <1>1 DEF Final
  <2> QED  BY <2>1, <2>2 DEF Message
<1>5. \A i \in 1 .. n : row(i).seq = b + i /\ row(i).role = turn[t].mine[i] /\ row(i).turn = t
  OBVIOUS
<1>6. \A i \in 1 .. n : turn[t].mine[i] = "User" => i = 1
  BY <1>1 DEF Phased, Shape
<1> HIDE DEF row, n, b
<1>7. Rows(t) \in SUBSET Message
  BY <1>3, <1>4
<1>8. {m.seq : m \in Rows(t)} = b + 1 .. b + n
  <2>1. ASSUME NEW x \in b + 1 .. b + n PROVE \E m \in Rows(t) : m.seq = x
    <3>1. x - b \in 1 .. n
      BY <1>1, <2>1
    <3>2. row(x - b) \in Rows(t) /\ row(x - b).seq = b + (x - b)
      BY <1>3, <1>5, <3>1
    <3> QED  BY <1>1, <3>2
  <2>2. ASSUME NEW m \in Rows(t) PROVE m.seq \in b + 1 .. b + n
    <3>1. PICK i \in 1 .. n : m = row(i)
      BY <1>3
    <3> QED  BY <1>1, <1>5, <3>1
  <2> QED  BY <2>1, <2>2
<1>9. \A m, k \in Rows(t) : m.seq = k.seq => m = k
  <2> SUFFICES ASSUME NEW m \in Rows(t), NEW k \in Rows(t), m.seq = k.seq PROVE m = k
    OBVIOUS
  <2>1. PICK i \in 1 .. n : m = row(i)
    BY <1>3
  <2>2. PICK j \in 1 .. n : k = row(j)
    BY <1>3
  <2>3. i = j
    BY <1>1, <1>5, <2>1, <2>2
  <2> QED  BY <2>1, <2>2, <2>3
<1>10. \A m \in Rows(t) : m.role = "User" => m.turn = t /\ m.seq = b + 1
  BY <1>3, <1>5, <1>6
<1> QED  BY <1>1, <1>7, <1>8, <1>9, <1>10 DEF n, b

LEMMA FinishTurnInv ==
    ASSUME IInv, NEW t \in Turns, FinishTurn(t)
    PROVE  IInv'
<1> DEFINE c == turn[t].conv
           n == Len(turn[t].mine)
           b == turn[t].base
           ms == msgs[c] \cup Rows(t)
           row == [conv[c] EXCEPT !.counter = b + n, !.count = Counted(t)]
           over == [NewTurn EXCEPT !.pc = "over", !.conv = c, !.saw = turn[t].saw]
           q == [turn EXCEPT ![t] = over]
<1>1. /\ TypeOK /\ TurnsSound /\ OneWriter /\ Numbered /\ Asked /\ KnowsHistory
      /\ turn[t].pc = "closing" /\ UNCHANGED <<flagged, edits, failures>>
      /\ turn' = Outdated(q, c, {turn[t].agent})
      /\ msgs' = [msgs EXCEPT ![c] = ms]
      /\ conv' = [conv EXCEPT ![c].counter = b + n, ![c].count = Counted(t)]
  BY DEF IInv, FinishTurn
<1>2. /\ turn[t] \in Turn /\ Phased(turn[t]) /\ c \in Convs /\ turn[t].wrote
      /\ conv[c].exists /\ turn[t].saw = Seqs(c) /\ b = conv[c].counter
  BY <1>1 DEF TypeOK, TurnsSound, Phased, Current, Active
<1>3. /\ Seqs(c) = 1 .. b /\ \A m, k \in msgs[c] : m.seq = k.seq => m = k
  BY <1>1, <1>2 DEF Numbered
<1>4. conv[c] \in Row /\ msgs[c] \in SUBSET Message
  BY <1>1, <1>2 DEF TypeOK
<1>5. /\ Rows(t) \in SUBSET Message /\ n \in Nat /\ b \in Nat
      /\ {m.seq : m \in Rows(t)} = b + 1 .. b + n
      /\ \A m, k \in Rows(t) : m.seq = k.seq => m = k
      /\ \A m \in Rows(t) : m.role = "User" => m.turn = t /\ m.seq = b + 1
  BY <1>1, RowsOfTurn
<1>6. Counted(t) = b + n
  <2>1. Cardinality(1 .. b) = b
    BY <1>5, CountTo
  <2> QED  BY <1>2, <1>3, <2>1 DEF Counted
<1>7. /\ conv' = [conv EXCEPT ![c] = row] /\ row \in Row /\ row.exists
      /\ row.counter = b + n /\ row.count = b + n
  <2>1. b + n \in Nat
    BY <1>5
  <2>2. row = [conv[c] EXCEPT !.counter = b + n, !.count = b + n]
    BY <1>6
  <2>3. conv' = [conv EXCEPT ![c] = row]
    BY <1>1, <1>2, <1>4 DEF TypeOK, Row
  <2> DEFINE x == b + n
  <2>4. row = [conv[c] EXCEPT !.counter = x, !.count = x] /\ x \in Nat
    BY <2>1, <2>2
  <2> HIDE DEF x, row
  <2>5. row \in Row /\ row.exists /\ row.counter = x /\ row.count = x
    BY <1>2, <1>4, <2>4 DEF Row
  <2> QED  BY <2>3, <2>5 DEF x
<1>8. /\ over \in Turn /\ over.pc = "over" /\ over.conv = c /\ over.saw = turn[t].saw
      /\ ~ over.wrote /\ over.mine = <<>>
  BY <1>2, NewTurnType DEF Turn
<1> HIDE DEF row, over
<1>9. /\ q \in [Turns -> Turn] /\ q[t] = over /\ \A u \in Turns : u # t => q[u] = turn[u]
  BY <1>1, <1>8 DEF TypeOK
<1>10. \A u \in Turns : \/ q[u] = turn[u] /\ (turn[u].wrote => turn[u].conv # c)
                        \/ /\ q[u].pc = "over" /\ q[u].conv \in Convs
                           /\ ~ q[u].wrote /\ q[u].mine = <<>>
  BY <1>1, <1>2, <1>8, <1>9 DEF OneWriter
<1>11. ms \in SUBSET Message
  BY <1>4, <1>5
<1>12. {m.seq : m \in ms} = 1 .. row.counter
  <2>1. {m.seq : m \in ms} = Seqs(c) \cup {m.seq : m \in Rows(t)}
    BY DEF Seqs
  <2> QED  BY <1>3, <1>5, <1>7, <2>1
<1>13. \A m, k \in ms : m.seq = k.seq => m = k
  <2>1. \A m \in msgs[c] : m.seq \in 1 .. b
    BY <1>3 DEF Seqs
  <2>2. \A m \in Rows(t) : m.seq \in b + 1 .. b + n
    BY <1>5
  <2>3. \A m \in msgs[c], k \in Rows(t) : m.seq # k.seq
    BY <1>5, <2>1, <2>2
  <2> QED  BY <1>3, <1>5, <2>3
<1> HIDE DEF ms, q
<1>14. \A u \in Turns : Remains(turn'[u], q[u], c)
  BY <1>1, <1>9, OutdatedFields
<1>15. /\ turn'[t].pc = "over" /\ turn'[t].conv = c /\ turn'[t].saw = turn[t].saw
       /\ \A u \in Turns : u # t =>
             turn'[u].pc = turn[u].pc /\ turn'[u].conv = turn[u].conv /\ turn'[u].saw = turn[u].saw
  BY <1>8, <1>9, <1>14 DEF Remains
<1>16. msgs'[c] = ms /\ \A d \in Convs : d # c => msgs'[d] = msgs[d]
  BY <1>1, <1>2 DEF TypeOK
<1> HIDE DEF c, n, b
<1>17. ASSUME NEW d \in Convs, NEW m \in msgs'[d]
       PROVE  m \in msgs[d] \/ (d = c /\ m \in Rows(t))
  <2>1. CASE d = c
    BY <1>16, <2>1 DEF ms
  <2>2. CASE d # c
    BY <1>16, <2>2
  <2> QED  BY <2>1, <2>2
<1>18. Asked'
  <2> SUFFICES ASSUME NEW d \in Convs, NEW m \in msgs'[d], m.role = "User"
               PROVE  m.turn \in Turns /\ turn'[m.turn].pc = "over"
    BY DEF Asked
  <2>1. CASE m \in msgs[d]
    BY <1>1, <1>15, <2>1 DEF Asked
  <2>2. CASE m \in Rows(t)
    BY <1>5, <1>15, <2>2
  <2> QED  BY <1>17, <2>1, <2>2
<1>19. KnowsHistory'
  <2> SUFFICES ASSUME NEW u \in Turns, turn'[u].pc = "over", NEW m \in msgs'[turn'[u].conv],
                      m.turn = u, m.role = "User"
               PROVE  turn'[u].saw = 1 .. m.seq - 1
    BY DEF KnowsHistory
  <2>1. CASE u = t
    <3>1. m \in msgs[c] \/ m \in Rows(t)
      BY <1>2, <1>15, <1>17, <2>1
    <3>2. m \notin msgs[c]
      BY <1>1, <1>2, <2>1 DEF Asked
    <3>3. m.seq = b + 1
      BY <1>5, <3>1, <3>2
    <3>4. turn'[u].saw = 1 .. b
      BY <1>2, <1>3, <1>15, <2>1
    <3> QED  BY <1>5, <3>3, <3>4
  <2>2. CASE u # t
    <3>1. turn[u].pc = "over" /\ turn'[u].conv = turn[u].conv /\ turn'[u].saw = turn[u].saw
      BY <1>15, <2>2
    <3>2. turn[u].conv \in Convs
      BY <1>1, <3>1 DEF TurnsSound, Phased
    <3>3. m \notin Rows(t)
      BY <1>5, <2>2
    <3>4. m \in msgs[turn[u].conv]
      BY <1>17, <3>1, <3>2, <3>3
    <3> QED  BY <1>1, <3>1, <3>4 DEF KnowsHistory
  <2> QED  BY <2>1, <2>2
<1>20. flagged' \subseteq Turns /\ edits' \in 0 .. MaxEdits /\ failures' \in 0 .. MaxFailures
  BY <1>1 DEF TypeOK
<1>21. /\ turn' = Outdated(q, c, {turn[t].agent}) /\ msgs' = [msgs EXCEPT ![c] = ms]
       /\ conv' = [conv EXCEPT ![c] = row] /\ row.count \in {0, row.counter}
       /\ ~ row.exists => ms = {} /\ row.count = 0
  BY <1>1, <1>7
<1> QED  BY <1>2, <1>7, <1>9, <1>10, <1>11, <1>12, <1>13, <1>18, <1>19, <1>20, <1>21, CommitStep

LEMMA CancelTurnInv ==
    ASSUME IInv, NEW t \in Turns, CancelTurn(t)
    PROVE  IInv'
<1>1. /\ UNCHANGED <<conv, msgs, turn, failures>> /\ flagged' = flagged \cup {t} /\ Edited
  BY DEF CancelTurn
<1>2. TypeOK'
  BY <1>1, EditedType DEF IInv, TypeOK
<1> QED  BY <1>1, <1>2 DEF IInv, TurnsSound, Current, Phased, OneWriter, Numbered, Asked,
                           KnowsHistory, CountKept, Seqs

-----------------------------------------------------------------------------
LEMMA NextInv == IInv /\ [Next]_vars => IInv'
<1> SUFFICES ASSUME IInv, [Next]_vars PROVE IInv'
  OBVIOUS
<1>1. ASSUME NEW c \in Convs, NEW a \in Agents, NEW b \in BOOLEAN, CreateConversation(c, a, b)
      PROVE  IInv'
  BY <1>1, CreateConversationInv
<1>2. ASSUME NEW c \in Convs, DeleteConversation(c) \/ EditConversation(c) PROVE IInv'
  BY <1>2, DeleteConversationInv, EditConversationInv
<1>3. ASSUME NEW t \in Turns, NEW c \in Convs, NEW a \in Agents, NEW b \in BOOLEAN,
             StartTurn(t, c, a, b)
      PROVE  IInv'
  BY <1>3, StartTurnInv
<1>4. ASSUME NEW t \in Turns, CancelTurn(t) PROVE IInv'
  BY <1>4, CancelTurnInv
<1>5. ASSUME NEW t \in Turns, AskModel(t) \/ Fallback(t) PROVE IInv'
  BY <1>5, AskModelInv
<1>6. ASSUME NEW t \in Turns, CallModel(t) \/ Answers(t) PROVE IInv'
  BY <1>6, CallsInv
<1>7. ASSUME NEW t \in Turns, NEW n \in 1 .. MaxTools, CallsTools(t, n) PROVE IInv'
  BY <1>7, CallsToolsInv
<1>8. ASSUME NEW t \in Turns, FinishTurn(t) PROVE IInv'
  BY <1>8, FinishTurnInv
<1>9. ASSUME NEW t \in Turns, Refused(t) \/ AgentConflict(t) \/ Dies(t) \/ Resend(t)
      PROVE  IInv'
  BY <1>9, FailuresInv
<1>10. ASSUME UNCHANGED vars PROVE IInv'
  BY <1>10 DEF vars, IInv, TypeOK, TurnsSound, Current, Phased, OneWriter, Numbered, Asked,
               KnowsHistory, CountKept, Seqs
<1> QED  BY <1>1, <1>2, <1>3, <1>4, <1>5, <1>6, <1>7, <1>8, <1>9, <1>10 DEF Next

-----------------------------------------------------------------------------
(* What holds in every behaviour. *)

\* The invariant of the turns: a row has one writer, and a turn that can still
\* commit has read the current messages and counter.
THEOREM Invariant == Spec => []IInv
  BY InitInv, NextInv, PTL DEF Spec

\* Conversations, messages and turns keep their types.
THEOREM TypeCorrect == Spec => []TypeOK
<1>1. IInv => TypeOK
  BY DEF IInv
<1> QED  BY <1>1, Invariant, PTL

\* A conversation whose numbers run from one to its counter without a double has
\* as many messages as the counter says.
LEMMA MessagesCounted ==
    ASSUME IInv, NEW c \in Convs, conv[c].exists
    PROVE  Cardinality(msgs[c]) = conv[c].counter
<1> DEFINE n == conv[c].counter
           f == [m \in msgs[c] |-> m.seq]
<1>1. n \in Nat /\ Seqs(c) = 1 .. n /\ \A m, k \in msgs[c] : m.seq = k.seq => m = k
  BY DEF IInv, TypeOK, Row, Numbered
<1>2. f \in Injection(msgs[c], 1 .. n) /\ f \in Surjection(msgs[c], 1 .. n)
  BY <1>1 DEF Injection, Surjection, IsInjective, Seqs
<1>3. IsFiniteSet(1 .. n) /\ Cardinality(1 .. n) = n
  BY <1>1, CountTo
<1> QED  BY <1>2, <1>3, FS_Injection

\* However turns overlap, fail and are sent again, the messages of a conversation
\* are numbered 1, 2, 3 and so on (allocate_sequence).
THEOREM SequencesGaplessAlways == Spec => []SequencesGapless
<1>1. IInv => SequencesGapless
  BY MessagesCounted DEF SequencesGapless, IInv, Numbered, Seqs
<1> QED  BY <1>1, Invariant, PTL

\* A turn that was committed had all earlier messages in its view.
THEOREM KnowsHistoryAlways == Spec => []KnowsHistory
<1>1. IInv => KnowsHistory
  BY DEF IInv
<1> QED  BY <1>1, Invariant, PTL

\* message_count is the number of messages once a turn has set it
\* (update_conversation_stats).
THEOREM CountTrueAlways == Spec => []CountTrue
<1>1. IInv => CountTrue
  <2> SUFFICES ASSUME IInv, NEW c \in Convs, conv[c].count # 0
               PROVE  conv[c].count = Cardinality(msgs[c])
    BY DEF CountTrue
  <2>1. conv[c].exists /\ conv[c].count = conv[c].counter
    BY DEF IInv, CountKept
  <2> QED  BY <2>1, MessagesCounted
<1> QED  BY <1>1, Invariant, PTL

-----------------------------------------------------------------------------
(* The window of the history. Three facts make GroupsWhole: the messages of a *)
(* turn are next to each other in the numbering, the query gives them from    *)
(* the newest to the oldest, and the window ends at a row that is no result   *)
(* of a tool unless there are no more rows.                                   *)

\* A turn saves its question, the answer and then results of tools.
Grouped(roles) ==
    roles # <<>> =>
        /\ Len(roles) >= 2 /\ roles[1] = "User" /\ roles[2] = "Assistant"
        /\ \A i \in 3 .. Len(roles) : roles[i] = "Tool"

\* Answer a is the one whose tools gave result m: of the messages ms, only
\* results of tools are between them.
Leads(a, m, ms) ==
    /\ a.role = "Assistant" /\ a.turn = m.turn /\ a.seq < m.seq
    /\ \A b \in ms : a.seq < b.seq /\ b.seq < m.seq => b.role = "Tool"

\* Every result of a tool has its answer among the messages ms.
Led(ms) == \A m \in ms : m.role = "Tool" => \E a \in ms : Leads(a, m, ms)

\* Strengthening of GroupsWhole: about turns that run and messages that are saved.
GroupInv ==
    /\ \A t \in Turns : Grouped(turn[t].mine)
    /\ \A c \in Convs : Led(msgs[c])

\* A step of one turn that commits nothing.
LEMMA GroupTurn ==
    ASSUME GroupInv, NEW t \in Turns, \A u \in Turns \ {t} : turn'[u] = turn[u],
           Grouped(turn'[t].mine), msgs' = msgs
    PROVE  GroupInv'
<1>1. \A u \in Turns : Grouped(turn'[u].mine)
  BY DEF GroupInv
<1>2. \A c \in Convs : Led(msgs'[c])
  BY DEF GroupInv
<1> QED  BY <1>1, <1>2 DEF GroupInv, Grouped, Led, Leads

\* A request that is no turn, or the commit of one: the turns keep what they
\* saved or drop it, and one conversation changes.
LEMMA GroupCommit ==
    ASSUME IInv, GroupInv, NEW c \in Convs, NEW as, NEW q \in [Turns -> Turn],
           turn' = Outdated(q, c, as),
           \A u \in Turns : q[u].mine = turn[u].mine \/ q[u].mine = <<>>,
           NEW ms, msgs' = [msgs EXCEPT ![c] = ms], Led(ms)
    PROVE  GroupInv'
<1>0. \A u \in Turns : Remains(turn'[u], q[u], c)
  BY OutdatedFields
<1>1. \A u \in Turns : turn'[u].mine = turn[u].mine \/ turn'[u].mine = <<>>
  BY <1>0 DEF Remains
<1>2. \A u \in Turns : Grouped(turn'[u].mine)
  <2>1. Grouped(<<>>)
    BY DEF Grouped
  <2> QED  BY <1>1, <2>1 DEF GroupInv
<1>3. \A d \in Convs : Led(msgs'[d])
  BY DEF GroupInv, IInv, TypeOK
<1> QED  BY <1>2, <1>3 DEF GroupInv, Grouped, Led, Leads

\* What a turn saves grows by results of tools.
LEMMA GroupGrows ==
    ASSUME NEW s \in Seq(Roles), s # <<>>, Grouped(s), NEW n \in Nat
    PROVE  Grouped(s \o [i \in 1 .. n |-> "Tool"])
<1> DEFINE tools == [i \in 1 .. n |-> "Tool"]
<1>1. tools \in Seq(Roles) /\ Len(tools) = n /\ \A i \in 1 .. n : tools[i] = "Tool"
  BY DEF Roles
<1> HIDE DEF tools
<1>2. /\ Len(s) \in Nat /\ Len(s) >= 2 /\ s[1] = "User" /\ s[2] = "Assistant"
      /\ \A i \in 3 .. Len(s) : s[i] = "Tool"
  BY DEF Grouped
<1>3. /\ Len(s \o tools) = Len(s) + n
      /\ \A i \in 1 .. Len(s) + n :
            (s \o tools)[i] = IF i <= Len(s) THEN s[i] ELSE tools[i - Len(s)]
  BY <1>1
<1>4. ASSUME NEW i \in 3 .. Len(s) + n PROVE (s \o tools)[i] = "Tool"
  <2>0. i \in Int /\ Len(s) \in Int
    BY <1>2
  <2>1. CASE i <= Len(s)
    BY <1>2, <1>3, <2>1
  <2>2. CASE i > Len(s)
    <3>1. i - Len(s) \in 1 .. n
      BY <1>2, <2>2
    <3> QED  BY <1>1, <1>2, <1>3, <2>2, <3>1
  <2> DEFINE x == (s \o tools)[i]
  <2>3. (i <= Len(s) => x = "Tool") /\ (i > Len(s) => x = "Tool")
    BY <2>1, <2>2
  <2> HIDE DEF x
  <2>4. i <= Len(s) \/ i > Len(s)
    BY <2>0
  <2>5. x = "Tool"
    BY <2>3, <2>4
  <2> QED  BY <2>5 DEF x
<1>5. Grouped(s \o tools)
  BY <1>2, <1>3, <1>4 DEF Grouped
<1> QED  BY <1>5 DEF tools

\* Steps of a turn that save messages.
LEMMA SaveGroups ==
    ASSUME IInv, GroupInv, NEW t \in Turns,
           AskModel(t) \/ Fallback(t) \/ \E n \in 1 .. MaxTools : CallsTools(t, n)
    PROVE  GroupInv'
<1>1. /\ turn \in [Turns -> Turn] /\ turn[t] \in Turn /\ turn[t].mine \in Seq(Roles)
      /\ Phased(turn[t]) /\ Grouped(turn[t].mine)
  BY DEF IInv, TypeOK, Turn, TurnsSound, GroupInv
<1>2. ASSUME NEW roles
      PROVE  /\ DOMAIN Save(t, roles) = Turns /\ Save(t, roles)[t].mine = turn[t].mine \o roles
             /\ \A u \in Turns \ {t} : Save(t, roles)[u] = turn[u]
  <2> DEFINE x == turn[t].mine \o roles
             b == IF turn[t].mine = <<>> THEN conv[turn[t].conv].counter ELSE turn[t].base
             q == [turn[t] EXCEPT !.wrote = TRUE, !.base = b, !.mine = x]
  <2>1. Save(t, roles) = [turn EXCEPT ![t] = q]
    BY <1>1 DEF Save, Turn
  <2> HIDE DEF x, b
  <2>2. q.mine = x
    BY <1>1 DEF Turn
  <2> HIDE DEF q
  <2> QED  BY <1>1, <2>1, <2>2 DEF x
<1>3. CASE AskModel(t) \/ Fallback(t)
  <2>0. turn[t].pc = "ready" /\ msgs' = msgs
    BY <1>3 DEF AskModel, Fallback
  <2>4. turn[t].mine = <<>>
    BY <1>1, <2>0 DEF Phased
  <2>1. turn[t].mine \o <<"User", "Assistant">> = <<"User", "Assistant">>
    BY <2>4
  <2>2. /\ turn'[t].mine = Save(t, <<"User", "Assistant">>)[t].mine
        /\ \A u \in Turns \ {t} : turn'[u] = Save(t, <<"User", "Assistant">>)[u]
    <3> DEFINE save == Save(t, <<"User", "Assistant">>)
    <3>1. CASE AskModel(t)
      <4>1. turn' = [save EXCEPT ![t].pc = "asking"]
        BY <3>1 DEF AskModel
      <4> HIDE DEF save
      <4> QED  BY <1>2, <4>1 DEF save
    <3>2. CASE Fallback(t)
      <4>1. turn' = [save EXCEPT ![t].pc = "closing", ![t].agent = None, ![t].agentStale = FALSE]
        BY <3>2 DEF Fallback
      <4> HIDE DEF save
      <4> QED  BY <1>2, <4>1 DEF save
    <3> QED  BY <1>3, <3>1, <3>2
  <2>3. /\ turn'[t].mine = <<"User", "Assistant">>
        /\ \A u \in Turns \ {t} : turn'[u] = turn[u]
    BY <1>2, <2>1, <2>2
  <2>5. Grouped(turn'[t].mine)
    BY <2>3 DEF Grouped
  <2> QED  BY <2>0, <2>3, <2>5, GroupTurn
<1>4. ASSUME NEW n \in 1 .. MaxTools, CallsTools(t, n) PROVE GroupInv'
  <2> DEFINE tools == [i \in 1 .. n |-> "Tool"]
  <2>1. turn[t].mine # <<>> /\ msgs' = msgs
    BY <1>1, <1>4 DEF CallsTools, Phased
  <2>2. n \in Nat
    BY LimitsAssumption
  <2>3. Grouped(turn[t].mine \o tools)
    BY <1>1, <2>1, <2>2, GroupGrows
  <2>4. turn' = [Save(t, tools) EXCEPT ![t].pc = "asking", ![t].iteration = @ + 1]
    BY <1>4 DEF CallsTools
  <2> HIDE DEF tools
  <2>5. /\ turn'[t].mine = Save(t, tools)[t].mine
        /\ \A u \in Turns \ {t} : turn'[u] = Save(t, tools)[u]
    BY <1>2, <2>4
  <2>6. /\ turn'[t].mine = turn[t].mine \o tools
        /\ \A u \in Turns \ {t} : turn'[u] = turn[u]
    BY <1>2, <2>5
  <2> QED  BY <2>1, <2>3, <2>6, GroupTurn
<1> QED  BY <1>3, <1>4

\* Every other step of a turn but its commit.
LEMMA TurnGroups ==
    ASSUME IInv, GroupInv, NEW t \in Turns,
           \/ \E c \in Convs, a \in Agents, b \in BOOLEAN : StartTurn(t, c, a, b)
           \/ CallModel(t) \/ Answers(t)
           \/ Refused(t) \/ AgentConflict(t) \/ Dies(t) \/ Resend(t)
    PROVE  GroupInv'
<1>1. /\ turn \in [Turns -> Turn] /\ turn[t] \in Turn /\ Grouped(turn[t].mine)
  BY DEF IInv, TypeOK, GroupInv
<1>2. Grouped(<<>>) /\ NewTurn.mine = <<>>
  BY DEF Grouped, NewTurn
<1>3. msgs' = msgs
  BY DEF StartTurn, CallModel, Answers, Refused, AgentConflict, Dies, Resend
<1>4. \A u \in Turns \ {t} : turn'[u] = turn[u]
  BY <1>1 DEF StartTurn, CallModel, Answers, Refused, AgentConflict, Dies, Resend, Undo
<1>5. turn'[t].mine = <<>> \/ turn'[t].mine = turn[t].mine
  <2>1. CASE CallModel(t) \/ Answers(t)
    <3>1. CASE CallModel(t) /\ t \in flagged
      <4>1. turn' = [turn EXCEPT ![t] = [turn[t] EXCEPT !.pc = "closing", !.outcome = "Cancelled"]]
        BY <1>1, <3>1 DEF CallModel
      <4> QED  BY <1>1, <4>1 DEF Turn
    <3>2. CASE CallModel(t) /\ t \notin flagged
      <4>1. turn' = [turn EXCEPT ![t] = [turn[t] EXCEPT !.pc = "calling"]]
        BY <1>1, <3>2 DEF CallModel
      <4> QED  BY <1>1, <4>1 DEF Turn
    <3>3. CASE Answers(t)
      <4>1. PICK o : turn' = [turn EXCEPT ![t].pc = "closing", ![t].outcome = o]
        BY <3>3 DEF Answers
      <4> QED  BY <1>1, <4>1 DEF Turn
    <3> QED  BY <2>1, <3>1, <3>2, <3>3
  <2>2. CASE Refused(t) \/ AgentConflict(t) \/ Dies(t) \/ Resend(t)
    BY <1>1, <2>2 DEF Refused, AgentConflict, Dies, Resend, Undo, NewTurn
  <2>3. CASE \E c \in Convs, a \in Agents, b \in BOOLEAN : StartTurn(t, c, a, b)
    <3>1. PICK c \in Convs, a \in Agents, b \in BOOLEAN : StartTurn(t, c, a, b)
      BY <2>3
    <3> DEFINE saw == {m.seq : m \in msgs[c]}
               q == [NewTurn EXCEPT !.pc = "ready", !.conv = c, !.agent = a, !.saw = saw,
                                    !.wrote = b]
    <3>2. turn' = [turn EXCEPT ![t] = q]
      BY <3>1 DEF StartTurn
    <3> HIDE DEF saw
    <3>3. q.mine = <<>>
      BY DEF NewTurn
    <3> HIDE DEF q
    <3> QED  BY <1>1, <3>2, <3>3
  <2> QED  BY <2>1, <2>2, <2>3
<1> QED  BY <1>1, <1>2, <1>3, <1>4, <1>5, GroupTurn

\* The messages of a turn that ends, after those that are there.
LEMMA FinishGroups ==
    ASSUME IInv, GroupInv, NEW t \in Turns, FinishTurn(t)
    PROVE  GroupInv'
<1> DEFINE c == turn[t].conv
           n == Len(turn[t].mine)
           b == turn[t].base
           s == turn[t].mine
           row(i) == [seq |-> b + i, role |-> s[i], turn |-> t,
                      status |-> IF s[i] = "Assistant" THEN turn[t].outcome ELSE "Completed"]
           ms == msgs[c] \cup Rows(t)
           over == [NewTurn EXCEPT !.pc = "over", !.conv = c, !.saw = turn[t].saw]
           q == [turn EXCEPT ![t] = over]
<1>1. /\ turn[t].pc = "closing"
      /\ turn' = Outdated(q, c, {turn[t].agent})
      /\ msgs' = [msgs EXCEPT ![c] = ms]
  BY DEF FinishTurn
<1>2. /\ turn \in [Turns -> Turn] /\ turn[t] \in Turn /\ s \in Seq(Roles) /\ b \in Nat
      /\ c \in Convs /\ turn[t].saw \in SUBSET Nat
      /\ Phased(turn[t]) /\ Current(turn[t]) /\ s # <<>> /\ Grouped(s)
  BY <1>1 DEF IInv, TypeOK, Turn, TurnsSound, GroupInv, Phased, Active
<1>3. Seqs(c) = 1 .. b
  BY <1>1, <1>2 DEF Current, Phased, Active, IInv, Numbered
<1>4. \A m \in msgs[c] : m.seq \in 1 .. b
  BY <1>3 DEF Seqs
<1>5. Rows(t) = {row(i) : i \in 1 .. n}
  BY DEF Rows
<1>6. /\ \A i \in 1 .. n : row(i).seq = b + i /\ row(i).role = s[i] /\ row(i).turn = t
      /\ n \in Nat /\ n >= 2 /\ s[1] = "User" /\ s[2] = "Assistant"
      /\ \A i \in 3 .. n : s[i] = "Tool"
  BY <1>2 DEF Grouped
<1>7. q \in [Turns -> Turn] /\ \A u \in Turns : q[u].mine = turn[u].mine \/ q[u].mine = <<>>
  <2>1. over \in Turn /\ over.mine = <<>>
    BY <1>2, NewTurnType DEF Turn
  <2> HIDE DEF over
  <2> QED  BY <1>2, <2>1
<1> HIDE DEF row, q, c, b, n, s
<1>8. Led(msgs[c])
  BY <1>2 DEF GroupInv
<1>9. ASSUME NEW m \in msgs[c], m.role = "Tool" PROVE \E a \in ms : Leads(a, m, ms)
  <2>1. PICK a \in msgs[c] : Leads(a, m, msgs[c])
    BY <1>8, <1>9 DEF Led
  <2>2. ASSUME NEW x \in ms, a.seq < x.seq, x.seq < m.seq PROVE x.role = "Tool"
    <3>1. x \notin Rows(t)
      <4> SUFFICES ASSUME NEW i \in 1 .. n, x = row(i) PROVE FALSE
        BY <1>5
      <4> QED  BY <1>2, <1>4, <1>6, <2>2
    <3> QED  BY <2>1, <2>2, <3>1 DEF Leads
  <2> QED  BY <2>1, <2>2 DEF Leads
<1>10. ASSUME NEW m \in Rows(t), m.role = "Tool" PROVE \E a \in ms : Leads(a, m, ms)
  <2>1. PICK i \in 1 .. n : m = row(i)
    BY <1>5
  <2>2. i # 1 /\ i # 2 /\ i \in 3 .. n /\ m.seq = b + i /\ m.turn = t
    BY <1>6, <1>10, <2>1
  <2>3. row(2) \in ms /\ row(2).seq = b + 2 /\ row(2).role = "Assistant" /\ row(2).turn = t
    BY <1>5, <1>6
  <2>4. ASSUME NEW x \in ms, b + 2 < x.seq, x.seq < b + i PROVE x.role = "Tool"
    <3>1. x \notin msgs[c]
      BY <1>2, <1>4, <2>4
    <3>2. PICK k \in 1 .. n : x = row(k)
      BY <1>5, <3>1
    <3>3. k \in 3 .. n
      BY <1>2, <1>6, <2>4, <3>2
    <3> QED  BY <1>6, <3>2, <3>3
  <2>5. row(2).seq < m.seq
    BY <1>2, <2>2, <2>3
  <2>6. Leads(row(2), m, ms)
    BY <2>2, <2>3, <2>4, <2>5 DEF Leads
  <2> QED  BY <2>3, <2>6
<1>11. Led(ms)
  BY <1>9, <1>10 DEF Led
<1> HIDE DEF ms
<1> QED  BY <1>1, <1>2, <1>7, <1>11, GroupCommit

\* Requests that are no turns.
LEMMA RequestGroups ==
    ASSUME IInv, GroupInv, NEW c \in Convs,
           \/ \E a \in Agents, b \in BOOLEAN : CreateConversation(c, a, b)
           \/ EditConversation(c) \/ DeleteConversation(c)
    PROVE  GroupInv'
<1>1. turn \in [Turns -> Turn] /\ msgs \in [Convs -> SUBSET Message] /\ Led(msgs[c])
  BY DEF IInv, TypeOK, GroupInv
<1>2. CASE \E a \in Agents, b \in BOOLEAN : CreateConversation(c, a, b)
  <2>1. PICK a \in Agents, b \in BOOLEAN : CreateConversation(c, a, b)
    BY <1>2
  <2> DEFINE ms == IF b THEN {[seq |-> 1, role |-> "Assistant", turn |-> None,
                               status |-> "Completed"]}
                   ELSE {}
  <2>2. turn' = Outdated(turn, c, {a}) /\ msgs' = [msgs EXCEPT ![c] = ms]
    BY <2>1 DEF CreateConversation
  <2>3. \A m \in ms : m.role # "Tool"
    OBVIOUS
  <2> HIDE DEF ms
  <2>4. Led(ms)
    BY <2>3 DEF Led
  <2> QED  BY <1>1, <2>2, <2>4, GroupCommit
<1>3. CASE EditConversation(c)
  <2>1. turn' = Outdated(turn, c, {}) /\ msgs' = [msgs EXCEPT ![c] = msgs[c]]
    BY <1>1, <1>3 DEF EditConversation
  <2> QED  BY <1>1, <2>1, GroupCommit
<1>4. CASE DeleteConversation(c)
  <2>1. turn' = Outdated(turn, c, {}) /\ msgs' = [msgs EXCEPT ![c] = {}]
    BY <1>4 DEF DeleteConversation
  <2>2. Led({})
    BY DEF Led
  <2> QED  BY <1>1, <2>1, <2>2, GroupCommit
<1> QED  BY <1>2, <1>3, <1>4

\* Every step keeps the groups.
LEMMA GroupStep == IInv /\ GroupInv /\ [Next]_vars => GroupInv'
<1> SUFFICES ASSUME IInv, GroupInv, [Next]_vars PROVE GroupInv'
  OBVIOUS
<1>1. ASSUME NEW c \in Convs, \/ \E a \in Agents, b \in BOOLEAN : CreateConversation(c, a, b)
                              \/ EditConversation(c) \/ DeleteConversation(c)
      PROVE  GroupInv'
  BY <1>1, RequestGroups
<1>2. ASSUME NEW t \in Turns,
             AskModel(t) \/ Fallback(t) \/ \E n \in 1 .. MaxTools : CallsTools(t, n)
      PROVE  GroupInv'
  BY <1>2, SaveGroups
<1>3. ASSUME NEW t \in Turns,
             \/ \E c \in Convs, a \in Agents, b \in BOOLEAN : StartTurn(t, c, a, b)
             \/ CallModel(t) \/ Answers(t)
             \/ Refused(t) \/ AgentConflict(t) \/ Dies(t) \/ Resend(t)
      PROVE  GroupInv'
  BY <1>3, TurnGroups
<1>4. ASSUME NEW t \in Turns, FinishTurn(t) PROVE GroupInv'
  BY <1>4, FinishGroups
<1>5. ASSUME UNCHANGED <<turn, msgs>> PROVE GroupInv'
  BY <1>5 DEF GroupInv, Grouped, Led, Leads
<1>6. CASE (\E t \in Turns : CancelTurn(t)) \/ UNCHANGED vars
  BY <1>5, <1>6 DEF CancelTurn, vars
<1> QED  BY <1>1, <1>2, <1>3, <1>4, <1>6 DEF Next

\* Nothing is said at the start.
LEMMA GroupInit == Init => GroupInv
  BY DEF Init, GroupInv, Grouped, Led, NewTurn

\* Every nonempty set of numbers has a least one.
LEMMA LeastNumber ==
    ASSUME NEW T \in SUBSET Nat, T # {}
    PROVE  \E n \in T : \A m \in T : n <= m
<1> DEFINE R == OpToRel(<, Nat)
<1>1. IsWellFoundedOn(R, Nat)
  BY NatLessThanWellFounded
<1>2. \A m, n \in Nat : m < n => <<m, n>> \in R
  BY DEF OpToRel
<1> HIDE DEF R
<1>3. PICK n \in T : \A m \in T : ~(<<m, n>> \in R)
  BY <1>1, WFMin
<1>4. n \in Nat /\ \A m \in T : m \in Nat
  OBVIOUS
<1>5. \A m \in T : ~(m < n)
  BY <1>2, <1>3, <1>4
<1> QED  BY <1>4, <1>5

\* The messages of ms after m.
Newer(ms, m) == {n \in ms : n.seq > m.seq}

\* The messages ms are finitely many, with numbers of their own.
Distinct(ms) ==
    /\ IsFiniteSet(ms)
    /\ \A m \in ms : m.seq \in Nat
    /\ \A m, n \in ms : m.seq = n.seq => m = n

\* Fewer messages come after a later one.
LEMMA NewerCounts ==
    ASSUME NEW ms, Distinct(ms)
    PROVE  /\ \A m \in ms : Cardinality(Newer(ms, m)) \in 0 .. Cardinality(ms) - 1
           /\ \A m, n \in ms :
                 m.seq > n.seq => Cardinality(Newer(ms, m)) < Cardinality(Newer(ms, n))
<1>1. \A m \in ms : IsFiniteSet(Newer(ms, m)) /\ Cardinality(Newer(ms, m)) \in Nat
  <2> SUFFICES ASSUME NEW m \in ms
               PROVE  IsFiniteSet(Newer(ms, m)) /\ Cardinality(Newer(ms, m)) \in Nat
    OBVIOUS
  <2>1. Newer(ms, m) \in SUBSET ms
    BY DEF Newer
  <2> QED  BY <2>1, FS_Subset, FS_CardinalityType DEF Distinct
<1>2. ASSUME NEW m \in ms, NEW S, IsFiniteSet(S), Newer(ms, m) \cup {m} \subseteq S
      PROVE  Cardinality(Newer(ms, m)) < Cardinality(S)
  <2>1. m \notin Newer(ms, m)
    BY DEF Newer, Distinct
  <2>2. Cardinality(Newer(ms, m) \cup {m}) = Cardinality(Newer(ms, m)) + 1
    BY <1>1, <2>1, FS_AddElement
  <2>3. Cardinality(Newer(ms, m) \cup {m}) <= Cardinality(S) /\ Cardinality(S) \in Nat
    BY <1>2, FS_Subset, FS_CardinalityType
  <2> QED  BY <1>1, <2>2, <2>3
<1>3. ASSUME NEW m \in ms PROVE Cardinality(Newer(ms, m)) \in 0 .. Cardinality(ms) - 1
  <2>1. Newer(ms, m) \cup {m} \subseteq ms
    BY DEF Newer
  <2>2. Cardinality(Newer(ms, m)) < Cardinality(ms) /\ Cardinality(ms) \in Nat
    BY <1>2, <2>1, FS_CardinalityType DEF Distinct
  <2> QED  BY <1>1, <2>2
<1>4. ASSUME NEW m \in ms, NEW n \in ms, m.seq > n.seq
      PROVE  Cardinality(Newer(ms, m)) < Cardinality(Newer(ms, n))
  <2>1. Newer(ms, m) \cup {m} \subseteq Newer(ms, n)
    BY <1>4 DEF Newer, Distinct
  <2> QED  BY <1>1, <1>2, <2>1
<1> QED  BY <1>3, <1>4

\* The rows in the order of the query are exactly the messages, the later ones
\* first.
LEMMA NewestRows ==
    ASSUME NEW ms, Distinct(ms)
    PROVE  LET rows == NewestFirst(ms)
               N == Cardinality(ms)
           IN  /\ N \in Nat /\ rows \in Seq(ms) /\ Len(rows) = N
               /\ \A m \in ms : \E i \in 1 .. N : rows[i] = m
               /\ \A i, j \in 1 .. N : i < j => rows[i].seq > rows[j].seq
<1> DEFINE N == Cardinality(ms)
           rank == [m \in ms |-> Cardinality(Newer(ms, m)) + 1]
           rows == NewestFirst(ms)
<1>1. N \in Nat
  BY FS_CardinalityType DEF Distinct
<1>2. /\ \A m \in ms : Cardinality(Newer(ms, m)) \in 0 .. N - 1
      /\ \A m, n \in ms :
            m.seq > n.seq => Cardinality(Newer(ms, m)) < Cardinality(Newer(ms, n))
  BY NewerCounts
<1> HIDE DEF N
<1>3. /\ \A m \in ms : rank[m] \in 1 .. N
      /\ \A m, n \in ms : m.seq > n.seq => rank[m] < rank[n]
  BY <1>1, <1>2
<1>4. \A m, n \in ms : m # n => m.seq > n.seq \/ n.seq > m.seq
  BY DEF Distinct
<1>5. \A m, n \in ms : rank[m] = rank[n] => m = n
  BY <1>1, <1>3, <1>4
<1>6. rank \in Injection(ms, 1 .. N)
  BY <1>3, <1>5 DEF Injection, IsInjective
<1>7. rank \in Surjection(ms, 1 .. N)
  <2>1. IsFiniteSet(1 .. N) /\ Cardinality(1 .. N) = Cardinality(ms)
    BY <1>1, CountTo DEF N
  <2> HIDE DEF rank
  <2> QED  BY <1>6, <2>1, FS_Injection
<1>8. \A i \in 1 .. N : \E m \in ms : rank[m] = i
  BY <1>7 DEF Surjection
<1>9. rows = [i \in 1 .. N |-> CHOOSE m \in ms : Cardinality(Newer(ms, m)) = i - 1]
  BY DEF NewestFirst, Newer, N
<1>10. ASSUME NEW i \in 1 .. N PROVE rows[i] \in ms /\ rank[rows[i]] = i
  <2>1. PICK m \in ms : rank[m] = i
    BY <1>8
  <2>2. Cardinality(Newer(ms, m)) = i - 1
    BY <1>1, <1>2, <2>1
  <2>3. rows[i] = CHOOSE n \in ms : Cardinality(Newer(ms, n)) = i - 1
    BY <1>9
  <2>4. rows[i] \in ms /\ Cardinality(Newer(ms, rows[i])) = i - 1
    BY <2>2, <2>3
  <2> QED  BY <2>4
<1> HIDE DEF rank
<1>11. rows \in Seq(ms) /\ Len(rows) = N
  <2>1. rows \in [1 .. N -> ms]
    BY <1>9, <1>10
  <2> HIDE DEF rows
  <2> QED  BY <1>1, <2>1
<1> HIDE DEF rows
<1>12. ASSUME NEW m \in ms PROVE \E i \in 1 .. N : rows[i] = m
  <2>1. rank[m] \in 1 .. N
    BY <1>3
  <2>2. rows[rank[m]] \in ms /\ rank[rows[rank[m]]] = rank[m]
    BY <1>10, <2>1
  <2> QED  BY <1>5, <2>1, <2>2
<1>13. ASSUME NEW i \in 1 .. N, NEW j \in 1 .. N, i < j PROVE rows[i].seq > rows[j].seq
  <2>1. rows[i] \in ms /\ rows[j] \in ms /\ rank[rows[i]] = i /\ rank[rows[j]] = j
    BY <1>10
  <2>2. rows[i] # rows[j] /\ ~(rows[j].seq > rows[i].seq)
    <3> DEFINE m == rows[i]
               k == rows[j]
    <3>1. m \in ms /\ k \in ms /\ rank[m] = i /\ rank[k] = j
      BY <2>1
    <3> HIDE DEF m, k
    <3>2. m # k /\ ~(k.seq > m.seq)
      BY <1>1, <1>3, <1>13, <3>1
    <3> QED  BY <3>2 DEF m, k
  <2> QED  BY <1>4, <2>1, <2>2
<1> QED  BY <1>1, <1>11, <1>12, <1>13 DEF N, rows

\* The first rows of a sequence.
LEMMA FirstRows ==
    ASSUME NEW T, NEW rows \in Seq(T), NEW n \in Nat, n <= Len(rows)
    PROVE  /\ SubSeq(rows, 1, n) \in Seq(T) /\ Len(SubSeq(rows, 1, n)) = n
           /\ \A i \in 1 .. n : SubSeq(rows, 1, n)[i] = rows[i]
<1>1. n \in Int /\ 1 \in Int /\ Len(rows) \in Nat
  OBVIOUS
<1>2. \A i \in 1 .. n : rows[i] \in T
  BY <1>1
<1>3. /\ SubSeq(rows, 1, n) \in Seq(T)
      /\ Len(SubSeq(rows, 1, n)) = IF 1 <= n THEN n - 1 + 1 ELSE 0
      /\ \A i \in 1 .. n - 1 + 1 : SubSeq(rows, 1, n)[i] = rows[1 + i - 1]
  BY <1>1, <1>2, SubSeqProperties
<1>4. n - 1 + 1 = n /\ \A i \in 1 .. n : 1 + i - 1 = i
  BY <1>1
<1>5. IF 1 <= n THEN n - 1 + 1 = n ELSE n = 0
  BY <1>1
<1> QED  BY <1>3, <1>4, <1>5

\* A window is the first rows, and it ends with a row that is no result of a
\* tool or with the last one.
LEMMA WindowRows ==
    ASSUME NEW T, NEW rows \in Seq(T), rows # <<>>
    PROVE  \E n \in 1 .. Len(rows) :
              /\ Window(rows) = SubSeq(rows, 1, n)
              /\ n = Len(rows) \/ rows[n].role # "Tool"
<1> DEFINE start == IF Len(rows) < HISTORY_LIMIT THEN Len(rows) ELSE HISTORY_LIMIT
           long(n) == n >= Len(rows) \/ rows[n].role # "Tool"
           S == {n \in start .. Len(rows) : long(n)}
           First(n) == long(n) /\ \A k \in start .. n - 1 : ~ long(k)
           end == CHOOSE n \in start .. Len(rows) : First(n)
<1>1. Len(rows) \in Nat \ {0} /\ start \in 1 .. Len(rows)
  BY LimitsAssumption
<1>2. Window(rows) = SubSeq(rows, 1, end)
  BY DEF Window
<1> HIDE DEF start
<1>3. S \in SUBSET Nat /\ S # {}
  <2>1. Len(rows) \in S
    BY <1>1
  <2>2. \A n \in S : n \in Nat
    BY <1>1
  <2> QED  BY <2>1, <2>2
<1> HIDE DEF long
<1>4. PICK n \in S : \A m \in S : n <= m
  BY <1>3, LeastNumber
<1>5. n \in start .. Len(rows) /\ long(n)
  OBVIOUS
<1>6. \A k \in start .. n - 1 : ~ long(k)
  <2> SUFFICES ASSUME NEW k \in start .. n - 1, long(k) PROVE FALSE
    OBVIOUS
  <2>1. start \in Int /\ Len(rows) \in Int /\ n \in Int /\ k \in Int /\ k < n /\ n <= Len(rows)
        /\ start <= k
    BY <1>1, <1>5
  <2>2. k \in start .. Len(rows)
    BY <2>1
  <2>3. k \in S
    BY <2>2
  <2> QED  BY <1>4, <2>1, <2>3
<1>7. First(n)
  BY <1>5, <1>6
<1> HIDE DEF First
<1>8. end \in start .. Len(rows) /\ First(end)
  BY <1>5, <1>7
<1> HIDE DEF end
<1>9. long(end)
  BY <1>8 DEF First
<1>10. end \in 1 .. Len(rows)
  BY <1>1, <1>8
<1>11. end = Len(rows) \/ rows[end].role # "Tool"
  BY <1>1, <1>9, <1>10 DEF long
<1> QED  BY <1>2, <1>10, <1>11

\* The history of a conversation is the newest messages of its finished kind.
LEMMA HistoryRows ==
    ASSUME NEW ms, Distinct(ms)
    PROVE  LET kept == {m \in ms : m.status \in HISTORY_STATUSES}
               rows == NewestFirst(kept)
               window == History(ms)
           IN  /\ Len(window) \in 0 .. Len(rows)
               /\ \A i \in 1 .. Len(window) : window[i] = rows[i]
               /\ \/ Len(window) = Len(rows)
                  \/ Len(window) = HISTORY_LIMIT + FetchSlack
                  \/ Len(window) > 0 /\ rows[Len(window)].role # "Tool"
               /\ Distinct(kept)
<1> DEFINE kept == {m \in ms : m.status \in HISTORY_STATUSES}
           rows == NewestFirst(kept)
           L == HISTORY_LIMIT + FetchSlack
           fetched == IF Len(rows) <= L THEN rows ELSE SubSeq(rows, 1, L)
<1>1. Distinct(kept)
  <2>1. kept \in SUBSET ms
    OBVIOUS
  <2>2. IsFiniteSet(kept)
    BY <2>1, FS_Subset DEF Distinct
  <2> QED  BY <2>2 DEF Distinct
<1>2. History(ms) = Window(fetched)
  BY DEF History
<1> HIDE DEF kept
<1>3. rows \in Seq(kept)
  BY <1>1, NewestRows
<1> HIDE DEF rows
<1>4. L \in Nat \ {0} /\ Len(rows) \in Nat
  BY <1>3, LimitsAssumption
<1> HIDE DEF L
<1>5. /\ fetched \in Seq(kept) /\ Len(fetched) \in 0 .. Len(rows)
      /\ \A i \in 1 .. Len(fetched) : fetched[i] = rows[i]
      /\ Len(fetched) = Len(rows) \/ Len(fetched) = L
  <2>1. CASE Len(rows) <= L
    BY <1>3, <1>4, <2>1
  <2>2. CASE ~(Len(rows) <= L)
    <3>1. L <= Len(rows) /\ L \in Nat /\ fetched = SubSeq(rows, 1, L)
      BY <1>4, <2>2
    <3>2. /\ SubSeq(rows, 1, L) \in Seq(kept) /\ Len(SubSeq(rows, 1, L)) = L
          /\ \A i \in 1 .. L : SubSeq(rows, 1, L)[i] = rows[i]
      BY <1>3, <3>1, FirstRows
    <3> QED  BY <1>4, <3>1, <3>2
  <2> QED  BY <2>1, <2>2
<1> HIDE DEF fetched
<1>6. /\ Len(History(ms)) \in 0 .. Len(fetched)
      /\ \A i \in 1 .. Len(History(ms)) : History(ms)[i] = fetched[i]
      /\ \/ Len(History(ms)) = Len(fetched)
         \/ Len(History(ms)) > 0 /\ fetched[Len(History(ms))].role # "Tool"
  <2>1. CASE fetched = <<>>
    <3>1. Window(fetched) = <<>>
      BY <2>1 DEF Window
    <3> QED  BY <1>2, <2>1, <3>1
  <2>2. CASE fetched # <<>>
    <3>1. PICK n \in 1 .. Len(fetched) :
             /\ Window(fetched) = SubSeq(fetched, 1, n)
             /\ n = Len(fetched) \/ fetched[n].role # "Tool"
      BY <1>5, <2>2, WindowRows
    <3>2. n \in Nat /\ n <= Len(fetched) /\ n > 0
      BY <1>5
    <3>3. /\ Len(SubSeq(fetched, 1, n)) = n
          /\ \A i \in 1 .. n : SubSeq(fetched, 1, n)[i] = fetched[i]
      BY <1>5, <3>2, FirstRows
    <3>4. Len(History(ms)) = n /\ \A i \in 1 .. n : History(ms)[i] = fetched[i]
      BY <1>2, <3>1, <3>3
    <3> QED  BY <3>1, <3>2, <3>4
  <2> QED  BY <2>1, <2>2
<1>7. PICK z \in Nat : z = Len(History(ms))
  BY <1>5, <1>6
<1>8. /\ z \in 0 .. Len(fetched) /\ z \in 0 .. Len(rows)
      /\ \A i \in 1 .. z : i \in 1 .. Len(fetched)
  BY <1>4, <1>5, <1>6, <1>7
<1>9. \A i \in 1 .. z : History(ms)[i] = rows[i]
  BY <1>5, <1>6, <1>7, <1>8
<1>10. z = Len(rows) \/ z = L \/ (z > 0 /\ rows[z].role # "Tool")
  <2>1. CASE z = Len(fetched)
    BY <1>5, <2>1
  <2>2. CASE z > 0 /\ fetched[z].role # "Tool"
    <3>1. z \in 1 .. z /\ z \in 1 .. Len(fetched)
      BY <1>8, <2>2
    <3> QED  BY <1>5, <2>2, <3>1
  <2> QED  BY <1>6, <1>7, <2>1, <2>2
<1> QED  BY <1>1, <1>7, <1>8, <1>9, <1>10 DEF kept, rows, L

\* The messages of a conversation have numbers of their own and are finitely many.
LEMMA MessagesDistinct ==
    ASSUME IInv, NEW c \in Convs
    PROVE  Distinct(msgs[c])
<1>1. msgs[c] \in SUBSET Message /\ conv[c] \in Row
  BY DEF IInv, TypeOK
<1>2. \A m, k \in msgs[c] : m.seq = k.seq => m = k
  BY DEF IInv, Numbered
<1>3. \A m \in msgs[c] : m.seq \in Nat
  BY <1>1 DEF Message
<1>4. IsFiniteSet(msgs[c])
  <2>1. CASE conv[c].exists
    <3> DEFINE n == conv[c].counter
               f == [m \in msgs[c] |-> m.seq]
    <3>1. n \in Nat /\ \A m \in msgs[c] : m.seq \in 1 .. n
      BY <1>1, <2>1 DEF IInv, Row, Numbered, Seqs
    <3> HIDE DEF n
    <3>2. f \in Injection(msgs[c], 1 .. n)
      BY <1>2, <3>1 DEF Injection, IsInjective
    <3>3. IsFiniteSet(1 .. n)
      BY <3>1, CountTo
    <3> QED  BY <3>2, <3>3, FS_Injection
  <2>2. CASE ~ conv[c].exists
    BY <2>2, FS_EmptySet DEF IInv, Numbered
  <2> QED  BY <2>1, <2>2
<1> QED  BY <1>2, <1>3, <1>4 DEF Distinct

\* The window of a history keeps the results of tools with their answer.
LEMMA WindowWhole ==
    ASSUME IInv, GroupInv, NEW c \in Convs, NEW i \in 1 .. Len(History(msgs[c])),
           History(msgs[c])[i].role = "Tool"
    PROVE  LET rows == History(msgs[c])
           IN  \/ \E j \in 1 .. Len(rows) :
                     rows[j].role = "Assistant" /\ rows[j].turn = rows[i].turn
               \/ \E m \in msgs[c] : m.turn = rows[i].turn /\ m.status = "Cancelled"
               \/ Len(rows) = HISTORY_LIMIT + FetchSlack
<1> DEFINE ms == msgs[c]
           kept == {m \in ms : m.status \in HISTORY_STATUSES}
           rows == NewestFirst(kept)
           shown == Len(History(ms))
<1>1. Distinct(ms) /\ Led(ms) /\ ms \in SUBSET Message
  BY MessagesDistinct DEF GroupInv, IInv, TypeOK
<1>2. /\ shown \in 0 .. Len(rows) /\ \A k \in 1 .. shown : History(ms)[k] = rows[k]
      /\ shown = Len(rows) \/ shown = HISTORY_LIMIT + FetchSlack \/ (shown > 0 /\ rows[shown].role # "Tool")
      /\ Distinct(kept)
  BY <1>1, HistoryRows
<1>3. /\ Cardinality(kept) \in Nat /\ rows \in Seq(kept) /\ Len(rows) = Cardinality(kept)
      /\ \A m \in kept : \E k \in 1 .. Len(rows) : rows[k] = m
      /\ \A k, l \in 1 .. Len(rows) : k < l => rows[k].seq > rows[l].seq
  BY <1>2, NewestRows
<1> SUFFICES \/ \E j \in 1 .. shown : rows[j].role = "Assistant" /\ rows[j].turn = rows[i].turn
             \/ \E m \in ms : m.turn = rows[i].turn /\ m.status = "Cancelled"
             \/ shown = HISTORY_LIMIT + FetchSlack
  BY <1>2
<1>4. kept \in SUBSET ms
  OBVIOUS
<1>5. \A a \in ms : a.status # "Cancelled" => a \in kept
  BY <1>1 DEF Message, Final, HISTORY_STATUSES
<1> HIDE DEF kept, rows, shown, ms
<1>6. i \in 1 .. shown /\ i \in 1 .. Len(rows) /\ shown \in Nat /\ shown <= Len(rows) /\ Len(rows) \in Nat
  BY <1>2, <1>3 DEF shown, ms
<1>7. rows[i] \in kept /\ rows[i].role = "Tool"
  BY <1>2, <1>3, <1>6 DEF shown, ms
<1>8. PICK a \in ms : Leads(a, rows[i], ms)
  BY <1>1, <1>4, <1>7 DEF Led
<1>9. CASE a.status = "Cancelled"
  BY <1>8, <1>9 DEF Leads
<1>10. CASE a.status # "Cancelled"
  <2>1. PICK j \in 1 .. Len(rows) : rows[j] = a
    BY <1>3, <1>5, <1>10
  <2>2. CASE j <= shown
    <3>1. j \in 1 .. shown
      BY <1>6, <2>2
    <3> QED  BY <1>8, <2>1, <3>1 DEF Leads
  <2>3. CASE j > shown
    <3>1. rows[shown].role = "Tool"
      <4>1. CASE i = shown
        BY <1>7, <4>1
      <4>2. CASE i < shown
        <5>1. shown \in 1 .. Len(rows) /\ shown < j
          BY <1>6, <2>3
        <5>2. rows[i].seq > rows[shown].seq /\ rows[shown].seq > rows[j].seq /\ rows[shown] \in ms
          BY <1>3, <1>4, <1>6, <2>1, <4>2, <5>1
        <5>3. rows[i].seq \in Nat /\ rows[shown].seq \in Nat /\ rows[j].seq \in Nat
          BY <1>1, <1>4, <1>7, <2>1, <5>2 DEF Distinct
        <5>4. a.seq < rows[shown].seq /\ rows[shown].seq < rows[i].seq
          BY <2>1, <5>2, <5>3
        <5> QED  BY <1>8, <5>2, <5>4 DEF Leads
      <4> QED  BY <1>6, <4>1, <4>2
    <3>2. shown # Len(rows)
      BY <1>6, <2>3
    <3> QED  BY <1>2, <3>1, <3>2
  <2> QED  BY <1>6, <2>2, <2>3
<1> QED  BY <1>9, <1>10

\* The window of a history never starts with results of tools whose answer was
\* left out, unless all that was read ends among them or the turn was cancelled:
\* however turns overlap, the messages of one are next to each other in the
\* numbering, and window_latest_messages goes on to the answer.
THEOREM GroupsWholeAlways == Spec => []GroupsWhole
<1>1. IInv /\ GroupInv => GroupsWhole
  <2> SUFFICES ASSUME IInv, GroupInv, NEW c \in Convs, NEW i \in 1 .. Len(History(msgs[c])),
                      History(msgs[c])[i].role = "Tool"
               PROVE  LET rows == History(msgs[c])
                      IN  \/ \E j \in 1 .. Len(rows) :
                                rows[j].role = "Assistant" /\ rows[j].turn = rows[i].turn
                          \/ \E m \in msgs[c] :
                                m.turn = rows[i].turn /\ m.status = "Cancelled"
                          \/ Len(rows) = HISTORY_LIMIT + FetchSlack
    BY DEF GroupsWhole
  <2> QED  BY WindowWhole
<1> QED  BY <1>1, GroupInit, GroupStep, Invariant, PTL DEF Spec
=============================================================================
