--------------------------- MODULE AutomationRules ---------------------------
(* Automation rules: ai/automation.py. Saving a document registers an event   *)
(* for every rule on it, one per revision, and queues a job; the job claims   *)
(* its event, reads the document, runs the rule's action and writes the       *)
(* result. A rule may coalesce: a save is then only noted while an event of   *)
(* the document is queued or running. A person may also test a rule, which    *)
(* registers and runs an event within the request.                            *)
(*                                                                            *)
(* Requests and jobs are transactions of MariaDB: they read from the view of  *)
(* their first statement and fail with error 1020 on a row changed after it.  *)
(* A pipeline that a rule runs commits, and its job goes on in a new view.    *)
(* RQ knows a job by its name until the worker reports its end, and may hand  *)
(* out a job again when it lost sight of the worker.                          *)
(* Conditions, source fields and snapshots only say whether and on what an    *)
(* action runs; coalesced rows are read by nobody; both are left out.         *)
(*                                                                            *)
(* An operator X_Y just before an operator X is X with a plausible mistake in *)
(* it, to see that the properties notice.                                     *)
EXTENDS Integers

CONSTANTS
    Rules,          \* rules on the update of the documents
    Coalescing,     \* rules with coalesce_events
    Piping,         \* rules that run a pipeline
    Writing,        \* rules with a target field
    Documents,
    Workers,        \* RQ workers
    Editors,        \* sessions that save documents and test rules
    MaxRevisions,   \* bound: saves of a document
    MaxCopies,      \* bound: jobs handed out again
    MaxTests,       \* bound: tests of a rule
    Nothing

ASSUME RulesAssumption ==
    /\ Coalescing \subseteq Rules /\ Piping \subseteq Rules /\ Writing \subseteq Rules
    /\ MaxRevisions \in Nat /\ MaxCopies \in Nat /\ MaxTests \in Nat
    /\ Workers \cap Editors = {}

VARIABLES
    revision,   \* the revision of each document, its modified time
    target,     \* the revision whose result a document's field holds, by rule
    event,      \* the status of each event's row
    effect,     \* history: how often each event's action took effect
    failed,     \* history: events whose execution failed once
    queue,      \* jobs waiting in RQ
    process,    \* what each worker and editor does
    copies,     \* jobs handed out again so far
    tests       \* tests so far

vars == <<revision, target, event, effect, failed, queue, process, copies, tests>>

-----------------------------------------------------------------------------

Revisions == 1..MaxRevisions

(* The revision key of an event: a rule and a revision of a document. *)
Events == [rule: Rules, doc: Documents, rev: Revisions]

ASSUME NothingAssumption == Nothing \notin Events /\ Nothing \notin Documents

Statuses == {"None", "Queued", "Running", "Success"}
Active == {"Queued", "Running"}

Processes == Workers \cup Editors

(* stale: the document's or the rule's row changed after the process's view.  *)
(* known: rules the view shows an active event of.                            *)
Process ==
    [pc: {"idle", "saving", "running", "committed", "ending"},
     event: Events \cup {Nothing}, doc: Documents \cup {Nothing},
     known: SUBSET Rules, read: 0..MaxRevisions, stale: SUBSET {"doc", "rule"}]

Idle ==
    [pc |-> "idle", event |-> Nothing, doc |-> Nothing, known |-> {}, read |-> 0, stale |-> {}]

Ending(e) == [Idle EXCEPT !.pc = "ending", !.event = e]

At(r, d, n) == [rule |-> r, doc |-> d, rev |-> n]

HasActive(r, d) == \E n \in Revisions : event[At(r, d, n)] \in Active

Executing(p, e) == process[p].event = e /\ process[p].pc \in {"running", "committed"}

(* What a process that changed rows leaves of the others' views. *)
Outdate(p, d, r) ==
    [q \in Processes |->
        LET of == process[q]
        IN  IF q = p \/ of.pc \notin {"saving", "running", "committed"} THEN of
            ELSE [of EXCEPT !.stale = @
                    \cup (IF of.doc = d THEN {"doc"} ELSE {})
                    \cup (IF of.event # Nothing /\ of.event.rule = r THEN {"rule"} ELSE {})]]

-----------------------------------------------------------------------------
(* A document is saved. *)

OpenSave(u, d) ==
    /\ process[u].pc = "idle"
    /\ revision[d] < MaxRevisions
    /\ process' = [process EXCEPT ![u] =
            [Idle EXCEPT !.pc = "saving", !.doc = d,
                         !.known = {r \in Coalescing : HasActive(r, d)}]]
    /\ UNCHANGED <<revision, target, event, effect, failed, queue, copies, tests>>

(* The name of a job: of the document for a coalescing rule, else of its event. *)
SameJob_Document(e, f) == e.rule = f.rule /\ e.doc = f.doc

SameJob(e, f) ==
    IF e.rule \in Coalescing THEN e.rule = f.rule /\ e.doc = f.doc ELSE e = f

JobKnown(e) ==
    \/ \E f \in queue : SameJob(e, f)
    \/ \E w \in Workers : process[w].event # Nothing /\ SameJob(e, process[w].event)

(* The save commits: every rule gets an event unless it coalesces with one    *)
(* that the view shows, and its job is queued unless RQ knows it.             *)
CommitSave(u) ==
    LET d == process[u].doc
        n == revision[d] + 1
        new == {At(r, d, n) : r \in Rules \ process[u].known}
    IN  /\ process[u].pc = "saving"
        /\ "doc" \notin process[u].stale
        /\ revision' = [revision EXCEPT ![d] = n]
        /\ event' = [e \in Events |-> IF e \in new THEN "Queued" ELSE event[e]]
        /\ queue' = queue \cup {e \in new : ~JobKnown(e)}
        /\ process' = [Outdate(u, d, Nothing) EXCEPT ![u] = Idle]
        /\ UNCHANGED <<target, effect, failed, copies, tests>>

FailSave(u) ==
    /\ process[u].pc = "saving"
    /\ process' = [process EXCEPT ![u] = Idle]
    /\ UNCHANGED <<revision, target, event, effect, failed, queue, copies, tests>>

-----------------------------------------------------------------------------
(* An event is executed. *)

Running(e) ==
    [Idle EXCEPT !.pc = "running", !.event = e, !.doc = e.doc, !.read = revision[e.doc]]

(* _claim_event, under the row's lock: only a Queued event is run. *)
Claimed_Always(e) == TRUE

Claimed(e) == event[e] = "Queued"

TakeJob(w, e) ==
    /\ process[w].pc = "idle"
    /\ e \in queue
    /\ ~ \E p \in Processes : Executing(p, e) /\ process[p].pc = "running"
    /\ queue' = queue \ {e}
    /\ process' = [process EXCEPT ![w] = IF Claimed(e) THEN Running(e) ELSE Ending(e)]
    /\ UNCHANGED <<revision, target, event, effect, failed, copies, tests>>

(* test_rule: the current revision, unless its event was registered or the    *)
(* rule coalesces with another. The revision key is unique: whoever registers *)
(* it second waits for the first.                                             *)
TestRule(u, r, d) ==
    LET e == At(r, d, revision[d])
    IN  /\ process[u].pc = "idle"
        /\ tests < MaxTests
        /\ revision[d] > 0
        /\ event[e] = "None"
        /\ r \in Coalescing => ~HasActive(r, d)
        /\ ~ \E p \in Processes : Executing(p, e)
        /\ tests' = tests + 1
        /\ process' = [process EXCEPT ![u] = Running(e)]
        /\ UNCHANGED <<revision, target, event, effect, failed, queue, copies>>

(* A pipeline's run commits what the job did so far: the claim with it. *)
PipelineCommits(p) ==
    LET e == process[p].event
    IN  /\ process[p].pc = "running"
        /\ e.rule \in Piping
        /\ event' = [event EXCEPT ![e] = "Running"]
        /\ effect' = [effect EXCEPT ![e] = @ + 1]
        /\ process' = [process EXCEPT ![p].pc = "committed", ![p].stale = {}]
        /\ UNCHANGED <<revision, target, failed, queue, copies, tests>>

After(p, e) == IF p \in Workers THEN Ending(e) ELSE Idle

(* The rows that an execution writes are as its view shows them: the rule's,  *)
(* for its counters, and the document's, for the result.                      *)
CanFinish_Unchecked(p) == TRUE

CanFinish(p) ==
    LET e == process[p].event
    IN  /\ "rule" \notin process[p].stale
        /\ e.rule \in Writing => "doc" \notin process[p].stale

(* _write_result, _record_success, _finish_event, and the commit. *)
Finish(p) ==
    LET e == process[p].event
        writes == e.rule \in Writing
    IN  /\ process[p].pc = IF e # Nothing /\ e.rule \in Piping THEN "committed" ELSE "running"
        /\ CanFinish(p)
        /\ event' = [event EXCEPT ![e] = "Success"]
        /\ effect' = [effect EXCEPT ![e] = IF e.rule \in Piping THEN @ ELSE @ + 1]
        /\ target' = IF writes THEN [target EXCEPT ![<<e.rule, e.doc>>] = process[p].read] ELSE target
        /\ process' = [Outdate(p, IF writes THEN e.doc ELSE Nothing, e.rule) EXCEPT ![p] = After(p, e)]
        /\ UNCHANGED <<revision, failed, queue, copies, tests>>

(* The action or one of the writes raises, or the worker dies: the status     *)
(* Failed and the failure count are rolled back with everything else that was *)
(* not committed, since execute_rule raises again.                            *)
Fail(p) ==
    LET e == process[p].event
    IN  /\ process[p].pc \in {"running", "committed"}
        /\ failed' = failed \cup {e}
        /\ process' = [process EXCEPT ![p] = After(p, e)]
        /\ UNCHANGED <<revision, target, event, effect, queue, copies, tests>>

EndJob(w) ==
    /\ process[w].pc = "ending"
    /\ process' = [process EXCEPT ![w] = Idle]
    /\ UNCHANGED <<revision, target, event, effect, failed, queue, copies, tests>>

HandOutAgain(w) ==
    /\ process[w].event # Nothing
    /\ copies < MaxCopies
    /\ copies' = copies + 1
    /\ queue' = queue \cup {process[w].event}
    /\ UNCHANGED <<revision, target, event, effect, failed, process, tests>>

-----------------------------------------------------------------------------

Init ==
    /\ revision = [d \in Documents |-> 0]
    /\ target = [rd \in Rules \X Documents |-> 0]
    /\ event = [e \in Events |-> "None"]
    /\ effect = [e \in Events |-> 0]
    /\ failed = {}
    /\ queue = {}
    /\ process = [p \in Processes |-> Idle]
    /\ copies = 0
    /\ tests = 0

Execute(p) == PipelineCommits(p) \/ Finish(p) \/ Fail(p)

Next ==
    \/ \E u \in Editors :
          \/ \E d \in Documents : OpenSave(u, d) \/ \E r \in Rules : TestRule(u, r, d)
          \/ CommitSave(u) \/ FailSave(u)
    \/ \E w \in Workers :
          \/ \E e \in Events : TakeJob(w, e)
          \/ EndJob(w) \/ HandOutAgain(w)
    \/ \E p \in Processes : Execute(p)

Spec == Init /\ [][Next]_vars

(* Workers take what is queued and go on with what they took; nothing is      *)
(* assumed of people.                                                         *)
Fairness ==
    /\ \A p \in Processes : WF_vars(Execute(p))
    /\ \A w \in Workers : WF_vars(EndJob(w))
    /\ WF_vars(\E w \in Workers, e \in Events : TakeJob(w, e))

FairSpec == Spec /\ Fairness

-----------------------------------------------------------------------------
(* Properties *)

TypeOK ==
    /\ revision \in [Documents -> 0..MaxRevisions]
    /\ target \in [Rules \X Documents -> 0..MaxRevisions]
    /\ event \in [Events -> Statuses]
    /\ effect \in [Events -> Nat]
    /\ failed \subseteq Events
    /\ queue \subseteq Events
    /\ process \in [Processes -> Process]
    /\ copies \in 0..MaxCopies
    /\ tests \in 0..MaxTests

(* The action of a rule takes effect at most once for a revision, whatever    *)
(* jobs are handed out again, retried or raced by a test (_claim_event and    *)
(* the unique revision key).                                                  *)
OncePerRevision == \A e \in Events : effect[e] <= 1

(* A result is written into the document whose text it was made from: never   *)
(* into a revision saved meanwhile (execute_rule, _write_result). A pipeline  *)
(* commits between the reading and the writing and is excepted.               *)
WritesCurrent ==
    [][\A r \in Writing \ Piping, d \in Documents :
          target'[<<r, d>>] # target[<<r, d>>] => target'[<<r, d>>] = revision[d]]_vars

(* Without coalescing every revision is run, unless its execution failed      *)
(* (docs/GAP_REGISTER.md AUTO-04: "distinct revisions run when coalesce is    *)
(* off").                                                                     *)
DistinctRevisionsRun ==
    \A e \in Events :
        e.rule \notin Coalescing /\ event[e] = "Queued" ~> effect[e] > 0 \/ e \in failed

(* A save is coalesced only while a job of its document is queued or running  *)
(* (ai_automation_rule.json, coalesce_events).                                *)
CoalescedWhileJob ==
    [][\A u \in Editors : CommitSave(u) =>
          \A r \in process[u].known :
              \E e \in Events : e.rule = r /\ e.doc = process[u].doc /\ JobKnown(e)]_vars
=============================================================================
