----------------------- MODULE AutomationRules_proofs -----------------------
(* Type correctness and the safety of AutomationRules: for any rules,         *)
(* documents, workers and editors, and any number of jobs handed out again    *)
(* and of tests, the action of a rule takes effect at most once for a         *)
(* revision, and a result is written into the text it was made from.          *)
EXTENDS AutomationRules, TLAPS

(* The inductive invariant. *)

Executes(p) == process[p].pc \in {"running", "committed"}

\* What a process does and on what.
Placed ==
    \A p \in Processes :
        /\ Executes(p) => process[p].event \in Events /\ process[p].doc = process[p].event.doc
        /\ process[p].pc = "saving" => process[p].doc \in Documents /\ process[p].event = Nothing

\* A save that can still commit has a number left.
SaveCanCommit ==
    \A p \in Processes :
        process[p].pc = "saving" /\ "doc" \notin process[p].stale =>
            revision[process[p].doc] < MaxRevisions

\* Nothing is known of revisions that are not saved yet.
FutureIsBlank ==
    \A e \in Events : e.rev > revision[e.doc] =>
        /\ event[e] = "None"
        /\ \A p \in Processes : Executes(p) => process[p].event # e

\* An event has one execution, which committed with its claim if at all.
OneExecution ==
    /\ \A p, q \in Processes :
          Executes(p) /\ Executes(q) /\ process[p].event = process[q].event => p = q
    /\ \A p \in Processes :
          /\ process[p].pc = "running" => event[process[p].event] \in {"None", "Queued"}
          /\ process[p].pc = "committed" =>
                event[process[p].event] = "Running" /\ process[p].event.rule \in Piping

\* Only what was claimed and committed took effect.
EffectFollowsClaim ==
    \A e \in Events :
        /\ effect[e] \in {0, 1}
        /\ event[e] \in {"None", "Queued"} => effect[e] = 0
        /\ event[e] = "Running" => e.rule \in Piping

\* A process that could still write has read the current revision.
ReadIsCurrent ==
    \A p \in Processes :
        process[p].pc = "running" /\ "doc" \notin process[p].stale =>
            process[p].read = revision[process[p].doc]

IInv ==
    /\ TypeOK
    /\ Placed
    /\ SaveCanCommit
    /\ FutureIsBlank
    /\ OneExecution
    /\ EffectFollowsClaim
    /\ ReadIsCurrent

-----------------------------------------------------------------------------
(* Types. *)

LEMMA IdleTypes ==
    Idle \in Process /\ \A e \in Events \cup {Nothing} : Ending(e) \in Process
<1>1. Idle \in Process
  BY RulesAssumption DEF Idle, Process
<1>2. \A e \in Events \cup {Nothing} : Ending(e) \in Process
  BY <1>1 DEF Ending, Process
<1> QED  BY <1>1, <1>2

LEMMA EventTypes ==
    ASSUME NEW e \in Events
    PROVE  /\ e.rule \in Rules /\ e.doc \in Documents /\ e.rev \in Revisions
           /\ e = At(e.rule, e.doc, e.rev)
  BY DEF Events, At

LEMMA AtTypes ==
    ASSUME NEW r \in Rules, NEW d \in Documents, NEW n \in Revisions
    PROVE  At(r, d, n) \in Events /\ At(r, d, n).rule = r /\ At(r, d, n).doc = d /\ At(r, d, n).rev = n
  BY DEF Events, At

\* What Outdate leaves of a process: all but the rows it finds stale.
LEMMA OutdateFields ==
    ASSUME process \in [Processes -> Process], NEW p \in Processes,
           NEW d \in Documents \cup {Nothing}, NEW r \in Rules \cup {Nothing},
           NEW q \in Processes
    PROVE  /\ Outdate(p, d, r) \in [Processes -> Process]
           /\ Outdate(p, d, r)[q].pc = process[q].pc
           /\ Outdate(p, d, r)[q].event = process[q].event
           /\ Outdate(p, d, r)[q].doc = process[q].doc
           /\ Outdate(p, d, r)[q].known = process[q].known
           /\ Outdate(p, d, r)[q].read = process[q].read
           /\ process[q].stale \subseteq Outdate(p, d, r)[q].stale
           /\ q # p /\ process[q].pc \in {"saving", "running"} /\ process[q].doc = d
                => "doc" \in Outdate(p, d, r)[q].stale
<1>1. \A x \in Process, s \in SUBSET {"doc", "rule"} :
         [x EXCEPT !.stale = @ \cup s] \in Process
  BY DEF Process
<1> QED  BY <1>1 DEF Outdate, Process

-----------------------------------------------------------------------------
LEMMA InitInv == Init => IInv
<1> SUFFICES ASSUME Init PROVE IInv
  OBVIOUS
<1>1. TypeOK
  BY IdleTypes, RulesAssumption DEF Init, TypeOK, Statuses
<1>2. \A p \in Processes : process[p].pc = "idle"
  BY DEF Init, Idle
<1>3. Placed /\ SaveCanCommit /\ FutureIsBlank /\ OneExecution /\ ReadIsCurrent
  BY <1>2 DEF Placed, SaveCanCommit, FutureIsBlank, OneExecution, ReadIsCurrent, Executes, Init
<1>4. EffectFollowsClaim
  BY DEF Init, EffectFollowsClaim
<1> QED  BY <1>1, <1>3, <1>4 DEF IInv

-----------------------------------------------------------------------------
(* Saves. *)

LEMMA OpenSaveInv ==
    ASSUME IInv, NEW u \in Editors, NEW d \in Documents, OpenSave(u, d)
    PROVE  IInv'
<1> DEFINE known == {r \in Coalescing : HasActive(r, d)}
           new == [Idle EXCEPT !.pc = "saving", !.doc = d, !.known = known]
<1>1. new \in Process /\ new.pc = "saving" /\ new.doc = d /\ new.event = Nothing
  BY IdleTypes, RulesAssumption DEF Idle, Process
<1>2. /\ u \in Processes /\ process \in [Processes -> Process]
      /\ process' = [process EXCEPT ![u] = new] /\ revision[d] < MaxRevisions
  BY DEF IInv, TypeOK, OpenSave, Processes
<1>3. /\ \A p \in Processes : p # u => process'[p] = process[p]
      /\ process'[u] = new /\ process'[u].pc = "saving"
  BY <1>1, <1>2
<1>4. UNCHANGED <<revision, target, event, effect, failed, queue, copies, tests>>
  BY DEF OpenSave
<1> HIDE DEF new, known
<1>5. TypeOK'
  BY <1>1, <1>2, <1>4 DEF IInv, TypeOK
<1>6. Placed' /\ SaveCanCommit' /\ ReadIsCurrent'
  BY <1>1, <1>2, <1>3, <1>4 DEF IInv, Placed, SaveCanCommit, ReadIsCurrent, Executes
<1>7. FutureIsBlank' /\ OneExecution' /\ EffectFollowsClaim'
  BY <1>1, <1>2, <1>3, <1>4 DEF IInv, FutureIsBlank, OneExecution, EffectFollowsClaim, Executes
<1> QED  BY <1>5, <1>6, <1>7 DEF IInv

LEMMA CommitSaveInv ==
    ASSUME IInv, NEW u \in Editors, CommitSave(u)
    PROVE  IInv'
<1> DEFINE d == process[u].doc
           n == revision[d] + 1
           new == {At(r, d, n) : r \in Rules \ process[u].known}
<1>1. /\ u \in Processes /\ process \in [Processes -> Process]
      /\ revision \in [Documents -> 0..MaxRevisions] /\ MaxRevisions \in Nat
      /\ event \in [Events -> Statuses]
      /\ process[u].pc = "saving" /\ "doc" \notin process[u].stale
  BY RulesAssumption DEF IInv, TypeOK, CommitSave, Processes
<1>2. d \in Documents /\ revision[d] < MaxRevisions
  BY <1>1 DEF IInv, Placed, SaveCanCommit
<1>3. n \in Revisions /\ n \in 0..MaxRevisions
  BY <1>1, <1>2 DEF Revisions
<1>4. /\ revision' = [revision EXCEPT ![d] = n]
      /\ event' = [e \in Events |-> IF e \in new THEN "Queued" ELSE event[e]]
      /\ queue' = queue \cup {e \in new : ~JobKnown(e)}
      /\ process' = [Outdate(u, d, Nothing) EXCEPT ![u] = Idle]
      /\ UNCHANGED <<target, effect, failed, copies, tests>>
  BY DEF CommitSave
<1> DEFINE other == Outdate(u, d, Nothing)
<1>5. \A e \in new : e \in Events /\ e.doc = d /\ e.rev = n
  BY <1>2, <1>3, AtTypes
<1>6. other \in [Processes -> Process]
  BY <1>1, <1>2, OutdateFields
<1>7. /\ process'[u].pc = "idle"
      /\ \A p \in Processes : p # u =>
            /\ process'[p] = other[p]
            /\ process'[p].pc = process[p].pc
            /\ process'[p].event = process[p].event
            /\ process'[p].doc = process[p].doc
            /\ process'[p].read = process[p].read
            /\ process[p].stale \subseteq process'[p].stale
            /\ process[p].pc \in {"saving", "running"} /\ process[p].doc = d
                  => "doc" \in process'[p].stale
  <2>1. \A p \in Processes : p # u => process'[p] = other[p]
    BY <1>1, <1>4, <1>6
  <2>2. process'[u] = Idle
    BY <1>1, <1>4, <1>6
  <2> QED  BY <1>1, <1>2, <2>1, <2>2, OutdateFields DEF Idle
<1>8. \A x \in Documents : revision'[x] = IF x = d THEN n ELSE revision[x]
  BY <1>1, <1>2, <1>4
<1>9. \A e \in Events : event'[e] = IF e \in new THEN "Queued" ELSE event[e]
  BY <1>4
<1>10. \A e \in new : event[e] = "None" /\ \A p \in Processes : Executes(p) => process[p].event # e
  <2>1. \A e \in new : e.rev > revision[e.doc]
    BY <1>1, <1>2, <1>5
  <2> QED  BY <1>5, <2>1 DEF IInv, FutureIsBlank
<1> HIDE DEF new, other, d, n
<1>11. TypeOK'
  <2>1. revision' \in [Documents -> 0..MaxRevisions]
    BY <1>1, <1>3, <1>4
  <2>2. event' \in [Events -> Statuses]
    BY <1>1, <1>4 DEF Statuses
  <2>3. queue' \subseteq Events
    BY <1>4, <1>5 DEF IInv, TypeOK
  <2>4. process' \in [Processes -> Process]
    BY <1>6, IdleTypes, <1>4 DEF other, d
  <2> QED  BY <1>4, <2>1, <2>2, <2>3, <2>4 DEF IInv, TypeOK
<1>12. Placed'
  BY <1>7 DEF IInv, Placed, Executes
<1>13. SaveCanCommit' /\ ReadIsCurrent'
  BY <1>7, <1>8 DEF IInv, Placed, SaveCanCommit, ReadIsCurrent, Executes, Events
<1>14. FutureIsBlank'
  <2> SUFFICES ASSUME NEW e \in Events, e.rev > revision'[e.doc]
               PROVE  event'[e] = "None" /\ \A p \in Processes : Executes(p)' => process'[p].event # e
    BY DEF FutureIsBlank
  <2>1. e.doc \in Documents /\ e.rev \in Nat
    BY EventTypes DEF Revisions
  <2>2. e.rev > revision[e.doc] /\ e \notin new
    BY <1>1, <1>5, <1>8, <2>1 DEF n
  <2>3. event[e] = "None" /\ \A p \in Processes : Executes(p) => process[p].event # e
    BY <2>2 DEF IInv, FutureIsBlank
  <2> QED  BY <1>7, <1>9, <2>2, <2>3 DEF Executes
<1>15. OneExecution'
  BY <1>7, <1>9, <1>10 DEF IInv, Placed, OneExecution, Executes
<1>16. EffectFollowsClaim'
  BY <1>4, <1>9, <1>10 DEF IInv, EffectFollowsClaim
<1> QED  BY <1>11, <1>12, <1>13, <1>14, <1>15, <1>16 DEF IInv

-----------------------------------------------------------------------------
(* A process that ends, or that begins an execution. *)

LEMMA Leaves ==
    ASSUME IInv, NEW p \in Processes, NEW x \in Process, x.pc \in {"idle", "ending"},
           process' = [process EXCEPT ![p] = x],
           failed' \subseteq Events, queue' \subseteq Events, copies' \in 0..MaxCopies,
           UNCHANGED <<revision, target, event, effect, tests>>
    PROVE  IInv'
<1>1. process \in [Processes -> Process]
  BY DEF IInv, TypeOK
<1>2. /\ process'[p].pc \in {"idle", "ending"}
      /\ \A q \in Processes : q # p => process'[q] = process[q]
  BY <1>1
<1>3. TypeOK'
  BY <1>1 DEF IInv, TypeOK
<1>4. Placed' /\ SaveCanCommit' /\ ReadIsCurrent'
  BY <1>2 DEF IInv, Placed, SaveCanCommit, ReadIsCurrent, Executes
<1>5. FutureIsBlank' /\ OneExecution' /\ EffectFollowsClaim'
  BY <1>2 DEF IInv, FutureIsBlank, OneExecution, EffectFollowsClaim, Executes
<1> QED  BY <1>3, <1>4, <1>5 DEF IInv

LEMMA AfterTypes ==
    ASSUME NEW p \in Processes, NEW e \in Events
    PROVE  After(p, e) \in Process /\ After(p, e).pc \in {"idle", "ending"}
  BY IdleTypes DEF After, Ending, Idle

LEMMA Begins ==
    ASSUME IInv, NEW p \in Processes, NEW e \in Events,
           process[p].pc = "idle", e.rev <= revision[e.doc], event[e] \in {"None", "Queued"},
           \A q \in Processes : Executes(q) => process[q].event # e,
           process' = [process EXCEPT ![p] = Running(e)],
           queue' \subseteq Events, tests' \in 0..MaxTests,
           UNCHANGED <<revision, target, event, effect, failed, copies>>
    PROVE  IInv'
<1>1. /\ process \in [Processes -> Process] /\ revision \in [Documents -> 0..MaxRevisions]
      /\ MaxRevisions \in Nat
  BY RulesAssumption DEF IInv, TypeOK
<1>2. e.doc \in Documents /\ e.rev \in Nat /\ e # Nothing
  BY EventTypes, NothingAssumption DEF Revisions
<1>3. /\ Running(e) \in Process /\ Running(e).pc = "running" /\ Running(e).event = e
      /\ Running(e).doc = e.doc /\ Running(e).read = revision[e.doc]
  BY <1>1, <1>2, IdleTypes DEF Running, Idle, Process
<1>4. /\ process'[p] = Running(e)
      /\ \A q \in Processes : q # p => process'[q] = process[q]
  BY <1>1
<1>5. TypeOK'
  BY <1>1, <1>3 DEF IInv, TypeOK
<1>6. Placed' /\ SaveCanCommit' /\ ReadIsCurrent'
  BY <1>3, <1>4 DEF IInv, Placed, SaveCanCommit, ReadIsCurrent, Executes
<1>7. FutureIsBlank'
  <2> SUFFICES ASSUME NEW f \in Events, f.rev > revision[f.doc]
               PROVE  event[f] = "None" /\ \A q \in Processes : Executes(q)' => process'[q].event # f
    BY DEF FutureIsBlank
  <2>1. f # e
    BY <1>1, <1>2
  <2> QED  BY <1>3, <1>4, <2>1 DEF IInv, FutureIsBlank, Executes
<1>8. OneExecution'
  BY <1>3, <1>4 DEF IInv, OneExecution, Executes
<1>9. EffectFollowsClaim'
  BY DEF IInv, EffectFollowsClaim
<1> QED  BY <1>5, <1>6, <1>7, <1>8, <1>9 DEF IInv

LEMMA FailSaveInv ==
    ASSUME IInv, NEW u \in Editors, FailSave(u)
    PROVE  IInv'
<1>1. Idle \in Process /\ Idle.pc = "idle" /\ u \in Processes
  BY IdleTypes DEF Idle, Processes
<1> QED  BY <1>1, Leaves DEF FailSave, IInv, TypeOK

LEMMA FailInv ==
    ASSUME IInv, NEW p \in Processes, Fail(p)
    PROVE  IInv'
<1>1. process[p].event \in Events
  BY DEF Fail, IInv, Placed, Executes
<1>2. After(p, process[p].event) \in Process /\ After(p, process[p].event).pc \in {"idle", "ending"}
  BY <1>1, AfterTypes
<1> QED  BY <1>1, <1>2, Leaves DEF Fail, IInv, TypeOK

LEMMA EndJobInv ==
    ASSUME IInv, NEW k \in Workers, EndJob(k)
    PROVE  IInv'
<1>1. Idle \in Process /\ Idle.pc = "idle" /\ k \in Processes
  BY IdleTypes DEF Idle, Processes
<1> QED  BY <1>1, Leaves DEF EndJob, IInv, TypeOK

LEMMA HandOutAgainInv ==
    ASSUME IInv, NEW k \in Workers, HandOutAgain(k)
    PROVE  IInv'
<1>1. process[k] \in Process /\ k \in Processes
  BY DEF IInv, TypeOK, Processes
<1>2. process[k].event \in Events
  BY <1>1 DEF HandOutAgain, Process
<1>3. copies \in 0..MaxCopies /\ copies < MaxCopies /\ copies' = copies + 1
  BY DEF HandOutAgain, IInv, TypeOK
<1>4. copies' \in 0..MaxCopies
  BY <1>3, RulesAssumption
<1>5. TypeOK'
  BY <1>2, <1>4 DEF HandOutAgain, IInv, TypeOK
<1> QED  BY <1>5 DEF HandOutAgain, IInv, Placed, SaveCanCommit, ReadIsCurrent, FutureIsBlank,
                     OneExecution, EffectFollowsClaim, Executes

LEMMA TakeJobInv ==
    ASSUME IInv, NEW k \in Workers, NEW e \in Events, TakeJob(k, e)
    PROVE  IInv'
<1>1. k \in Processes /\ Ending(e) \in Process /\ Ending(e).pc = "ending"
  BY IdleTypes DEF Processes, Ending, Idle
<1>2. CASE ~Claimed(e)
  BY <1>1, <1>2, Leaves DEF TakeJob, IInv, TypeOK
<1>3. CASE Claimed(e)
  <2>1. event[e] = "Queued" /\ e.doc \in Documents /\ e.rev \in Nat /\ revision[e.doc] \in Nat
    BY <1>3, EventTypes DEF Claimed, IInv, TypeOK, Revisions
  <2>2. e.rev <= revision[e.doc]
    BY <2>1 DEF IInv, FutureIsBlank
  <2>3. \A q \in Processes : Executes(q) => process[q].event # e
    BY <2>1 DEF TakeJob, Executing, Executes, IInv, OneExecution
  <2>4. process' = [process EXCEPT ![k] = Running(e)]
    BY <1>3 DEF TakeJob
  <2> QED  BY <1>1, <2>1, <2>2, <2>3, <2>4, Begins DEF TakeJob, IInv, TypeOK
<1> QED  BY <1>2, <1>3

LEMMA TestRuleInv ==
    ASSUME IInv, NEW u \in Editors, NEW r \in Rules, NEW d \in Documents, TestRule(u, r, d)
    PROVE  IInv'
<1> DEFINE e == At(r, d, revision[d])
<1>1. u \in Processes /\ revision[d] \in 0..MaxRevisions /\ revision[d] > 0 /\ MaxRevisions \in Nat
  BY RulesAssumption DEF TestRule, IInv, TypeOK, Processes
<1>2. revision[d] \in Revisions
  BY <1>1 DEF Revisions
<1>3. e \in Events /\ e.doc = d /\ e.rev = revision[d]
  BY <1>2, AtTypes
<1>4. /\ process[u].pc = "idle" /\ event[e] = "None"
      /\ \A q \in Processes : Executes(q) => process[q].event # e
      /\ process' = [process EXCEPT ![u] = Running(e)]
      /\ UNCHANGED <<revision, target, event, effect, failed, queue, copies>>
  BY DEF TestRule, Executing, Executes
<1>5. tests \in 0..MaxTests /\ tests < MaxTests /\ tests' = tests + 1
  BY DEF TestRule, IInv, TypeOK
<1>6. tests' \in 0..MaxTests
  BY <1>5, RulesAssumption
<1>7. queue' \subseteq Events
  BY <1>4 DEF IInv, TypeOK
<1>8. e.rev <= revision[e.doc]
  BY <1>1, <1>3
<1> HIDE DEF e
<1> QED  BY <1>1, <1>3, <1>4, <1>6, <1>7, <1>8, Begins

-----------------------------------------------------------------------------
(* An execution takes effect. *)

LEMMA PipelineCommitsInv ==
    ASSUME IInv, NEW p \in Processes, PipelineCommits(p)
    PROVE  IInv'
<1> DEFINE e == process[p].event
           x == [process[p] EXCEPT !.pc = "committed", !.stale = {}]
<1>1. /\ process \in [Processes -> Process] /\ event \in [Events -> Statuses]
      /\ effect \in [Events -> Nat]
  BY DEF IInv, TypeOK
<1>2. /\ process[p].pc = "running" /\ e.rule \in Piping
      /\ event' = [event EXCEPT ![e] = "Running"] /\ effect' = [effect EXCEPT ![e] = @ + 1]
      /\ process' = [process EXCEPT ![p] = x]
      /\ UNCHANGED <<revision, target, failed, queue, copies, tests>>
  BY <1>1 DEF PipelineCommits
<1>3. /\ e \in Events /\ process[p].doc = e.doc /\ event[e] \in {"None", "Queued"} /\ effect[e] = 0
  BY <1>2 DEF IInv, Placed, Executes, OneExecution, EffectFollowsClaim
<1>4. /\ x \in Process /\ x.pc = "committed" /\ x.event = e /\ x.doc = process[p].doc
  BY <1>1 DEF Process
<1>5. /\ process'[p] = x /\ \A q \in Processes : q # p => process'[q] = process[q]
      /\ \A f \in Events : event'[f] = IF f = e THEN "Running" ELSE event[f]
      /\ \A f \in Events : effect'[f] = IF f = e THEN 1 ELSE effect[f]
  BY <1>1, <1>2, <1>3
<1>6. \A q \in Processes : q # p /\ Executes(q) => process[q].event # e
  BY <1>2 DEF IInv, OneExecution, Executes
<1>7. ~(e.rev > revision[e.doc])
  BY <1>2, <1>3 DEF IInv, FutureIsBlank, Executes
<1> HIDE DEF e, x
<1>8. TypeOK'
  <2>1. event' \in [Events -> Statuses]
    BY <1>1, <1>2 DEF Statuses
  <2>2. effect' \in [Events -> Nat]
    BY <1>1, <1>2, <1>3
  <2>3. process' \in [Processes -> Process]
    BY <1>1, <1>2, <1>4
  <2> QED  BY <1>2, <2>1, <2>2, <2>3 DEF IInv, TypeOK
<1>9. Placed' /\ SaveCanCommit' /\ ReadIsCurrent'
  BY <1>2, <1>3, <1>4, <1>5 DEF IInv, Placed, SaveCanCommit, ReadIsCurrent, Executes
<1>10. FutureIsBlank'
  BY <1>2, <1>3, <1>4, <1>5, <1>7 DEF IInv, FutureIsBlank, Executes
<1>11. OneExecution'
  BY <1>2, <1>3, <1>4, <1>5, <1>6 DEF IInv, Placed, OneExecution, Executes
<1>12. EffectFollowsClaim'
  BY <1>2, <1>5 DEF IInv, EffectFollowsClaim
<1> QED  BY <1>8, <1>9, <1>10, <1>11, <1>12 DEF IInv

LEMMA FinishInv ==
    ASSUME IInv, NEW p \in Processes, Finish(p)
    PROVE  IInv'
<1> DEFINE e == process[p].event
           d == IF e.rule \in Writing THEN e.doc ELSE Nothing
           x == After(p, e)
           other == Outdate(p, d, e.rule)
<1>1. /\ process \in [Processes -> Process] /\ event \in [Events -> Statuses]
      /\ effect \in [Events -> Nat] /\ target \in [Rules \X Documents -> 0..MaxRevisions]
  BY DEF IInv, TypeOK
<1>2. process[p].pc \in {"running", "committed"}
  BY DEF Finish
<1>3. /\ e \in Events /\ e # Nothing /\ e.rule \in Rules /\ e.doc \in Documents
      /\ d \in Documents \cup {Nothing}
  BY <1>2, EventTypes, NothingAssumption DEF IInv, Placed, Executes
<1>4. /\ event' = [event EXCEPT ![e] = "Success"]
      /\ effect' = [effect EXCEPT ![e] = IF e.rule \in Piping THEN @ ELSE @ + 1]
      /\ process' = [other EXCEPT ![p] = x]
      /\ UNCHANGED <<revision, failed, queue, copies, tests>>
  BY DEF Finish
<1>5. /\ target' = IF e.rule \in Writing
                   THEN [target EXCEPT ![<<e.rule, e.doc>>] = process[p].read] ELSE target
      /\ process[p].read \in 0..MaxRevisions
  BY <1>1 DEF Finish, Process
<1>6. process[p].pc = IF e.rule \in Piping THEN "committed" ELSE "running"
  BY <1>3 DEF Finish
<1>7. effect[e] \in {0, 1} /\ (e.rule \notin Piping => effect[e] = 0)
  BY <1>3, <1>6 DEF IInv, EffectFollowsClaim, OneExecution
<1>8. /\ \A f \in Events : event'[f] = IF f = e THEN "Success" ELSE event[f]
      /\ \A f \in Events : f # e => effect'[f] = effect[f]
      /\ effect'[e] \in {0, 1}
  <2>1. /\ \A f \in Events : event'[f] = IF f = e THEN "Success" ELSE event[f]
        /\ \A f \in Events : f # e => effect'[f] = effect[f]
        /\ effect'[e] = IF e.rule \in Piping THEN effect[e] ELSE effect[e] + 1
    BY <1>1, <1>3, <1>4
  <2>2. CASE e.rule \in Piping
    BY <1>7, <2>1, <2>2
  <2>3. CASE e.rule \notin Piping
    BY <1>7, <2>1, <2>3
  <2> QED  BY <2>1, <2>2, <2>3
<1>9. x \in Process /\ x.pc \in {"idle", "ending"} /\ other \in [Processes -> Process]
  BY <1>1, <1>3, AfterTypes, OutdateFields
<1>10. /\ process'[p].pc \in {"idle", "ending"}
       /\ \A q \in Processes : q # p =>
            /\ process'[q].pc = process[q].pc
            /\ process'[q].event = process[q].event
            /\ process'[q].doc = process[q].doc
            /\ process'[q].read = process[q].read
            /\ process[q].stale \subseteq process'[q].stale
  <2>1. process'[p] = x /\ \A q \in Processes : q # p => process'[q] = other[q]
    BY <1>4, <1>9
  <2>2. \A q \in Processes :
            /\ other[q].pc = process[q].pc
            /\ other[q].event = process[q].event
            /\ other[q].doc = process[q].doc
            /\ other[q].read = process[q].read
            /\ process[q].stale \subseteq other[q].stale
    <3>1. e.rule \in Rules \cup {Nothing}
      BY <1>3
    <3> HIDE DEF d
    <3> QED  BY <1>1, <1>3, <3>1, OutdateFields
  <2> HIDE DEF other, x
  <2> QED  BY <1>9, <2>1, <2>2
<1>11. \A q \in Processes : q # p /\ Executes(q) => process[q].event # e
  BY <1>2 DEF IInv, OneExecution, Executes
<1>12. ~(e.rev > revision[e.doc])
  BY <1>2, <1>3 DEF IInv, FutureIsBlank, Executes
<1>13. TypeOK'
  <2>1. event' \in [Events -> Statuses]
    BY <1>1, <1>4 DEF Statuses
  <2>2. effect' \in [Events -> Nat]
    BY <1>1, <1>3, <1>4
  <2>3. process' \in [Processes -> Process]
    BY <1>4, <1>9
  <2>4. target' \in [Rules \X Documents -> 0..MaxRevisions]
    BY <1>1, <1>3, <1>5
  <2> QED  BY <1>4, <2>1, <2>2, <2>3, <2>4 DEF IInv, TypeOK
<1> HIDE DEF e, x, other, d
<1>14. Placed' /\ SaveCanCommit' /\ ReadIsCurrent'
  BY <1>4, <1>10 DEF IInv, Placed, SaveCanCommit, ReadIsCurrent, Executes
<1>15. FutureIsBlank'
  BY <1>3, <1>4, <1>8, <1>10, <1>12 DEF IInv, FutureIsBlank, Executes
<1>16. OneExecution'
  BY <1>3, <1>8, <1>10, <1>11 DEF IInv, Placed, OneExecution, Executes
<1>17. EffectFollowsClaim'
  BY <1>3, <1>8 DEF IInv, EffectFollowsClaim
<1> QED  BY <1>13, <1>14, <1>15, <1>16, <1>17 DEF IInv

-----------------------------------------------------------------------------
(* The theorems. *)

LEMMA NextInv == IInv /\ [Next]_vars => IInv'
<1> SUFFICES ASSUME IInv, [Next]_vars PROVE IInv'
  OBVIOUS
<1>1. CASE UNCHANGED vars
  BY <1>1 DEF vars, IInv, TypeOK, Placed, SaveCanCommit, FutureIsBlank, OneExecution,
              EffectFollowsClaim, ReadIsCurrent, Executes
<1>2. ASSUME NEW u \in Editors,
             \/ \E d \in Documents : OpenSave(u, d) \/ \E r \in Rules : TestRule(u, r, d)
             \/ CommitSave(u) \/ FailSave(u)
      PROVE  IInv'
  BY <1>2, OpenSaveInv, TestRuleInv, CommitSaveInv, FailSaveInv
<1>3. ASSUME NEW k \in Workers,
             (\E e \in Events : TakeJob(k, e)) \/ EndJob(k) \/ HandOutAgain(k)
      PROVE  IInv'
  BY <1>3, TakeJobInv, EndJobInv, HandOutAgainInv
<1>4. ASSUME NEW p \in Processes, Execute(p)
      PROVE  IInv'
  BY <1>4, PipelineCommitsInv, FinishInv, FailInv DEF Execute
<1> QED  BY <1>1, <1>2, <1>3, <1>4 DEF Next

(* The inductive invariant holds in every reachable state. *)
THEOREM Invariant == Spec => []IInv
  BY InitInv, NextInv, PTL DEF Spec

(* Every variable keeps its type (the rows of AI Automation Event and what    *)
(* the processes of ai/automation.py hold).                                   *)
THEOREM TypeCorrect == Spec => []TypeOK
<1>1. IInv => TypeOK
  BY DEF IInv
<1> QED  BY <1>1, Invariant, PTL

(* The claim and the unique revision key: the action of a rule takes effect   *)
(* at most once for a revision, for any number of jobs handed out again,      *)
(* failures, tests and overlapping saves.                                     *)
THEOREM OncePerRevisionAlways == Spec => []OncePerRevision
<1>1. IInv => OncePerRevision
  BY DEF IInv, EffectFollowsClaim, OncePerRevision
<1> QED  BY <1>1, Invariant, PTL

(* _write_result writes a result into the revision it was made from, unless   *)
(* the rule runs a pipeline.                                                  *)
THEOREM WritesCurrentAlways == Spec => WritesCurrent
<1> DEFINE Current ==
        \A r \in Writing \ Piping, d \in Documents :
            target'[<<r, d>>] # target[<<r, d>>] => target'[<<r, d>>] = revision[d]
<1>1. IInv /\ [Next]_vars => [Current]_vars
  <2> SUFFICES ASSUME IInv, Next, NEW r \in Writing \ Piping, NEW d \in Documents,
                      target'[<<r, d>>] # target[<<r, d>>]
               PROVE  target'[<<r, d>>] = revision[d]
    BY DEF vars
  <2>1. PICK p \in Processes : Finish(p)
    BY DEF Next, OpenSave, TestRule, CommitSave, FailSave, TakeJob, EndJob, HandOutAgain,
           Execute, PipelineCommits, Fail
  <2> DEFINE e == process[p].event
  <2>2. process[p].pc \in {"running", "committed"} /\ e \in Events /\ e # Nothing
    BY <2>1, NothingAssumption DEF Finish, IInv, Placed, Executes
  <2>3. /\ target \in [Rules \X Documents -> 0..MaxRevisions]
        /\ r \in Rules /\ e.rule \in Rules /\ e.doc \in Documents
    BY <2>2, EventTypes, RulesAssumption DEF IInv, TypeOK
  <2>4. /\ e.rule \in Writing
        /\ target' = [target EXCEPT ![<<e.rule, e.doc>>] = process[p].read]
    BY <2>1 DEF Finish
  <2>5. e.rule = r /\ e.doc = d /\ target'[<<r, d>>] = process[p].read
    BY <2>3, <2>4
  <2>6. process[p].pc = "running" /\ "doc" \notin process[p].stale
    BY <2>1, <2>2, <2>4, <2>5 DEF Finish, CanFinish
  <2>7. process[p].read = revision[process[p].doc] /\ process[p].doc = d
    BY <2>2, <2>5, <2>6 DEF IInv, ReadIsCurrent, Placed, Executes
  <2> QED  BY <2>5, <2>7
<1> QED  BY <1>1, Invariant, PTL DEF Spec, WritesCurrent
=============================================================================
