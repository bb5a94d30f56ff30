--------------------------- MODULE TranslationRun ---------------------------
(***************************************************************************)
(* AI Translation: the runs, the retranslation of segments, the review, the *)
(* cancellation, the translation memory and the indexing of                 *)
(* ai_fr_hg/ai/translation.py and its controller.                           *)
(*                                                                         *)
(* Translations t of the same text, languages, knowledge base and policy:   *)
(* segment i of each has the same fingerprint.  Only translatable segments  *)
(* are modelled; quality checks and memory are on, as they are by default.  *)
(* A text is what the quality gate makes of it: no text, one below the      *)
(* threshold, one above it.                                                 *)
(*                                                                         *)
(* A run is one transaction: it holds the row of its translation from its   *)
(* first write to its commit.  Writes to a row that changed since the view  *)
(* fail with error 1020.                                                    *)
(*                                                                         *)
(* An operator X_Y just before an operator X is X with a plausible mistake  *)
(* in it, to see that the properties notice; the specification uses X.      *)
(***************************************************************************)
EXTENDS Naturals, FiniteSets

CONSTANTS
    Translations, Workers, Clients, Segments,
    MaxRequests,    \* bound: requests of people
    MaxFailures     \* bound: workers that die, jobs that never reach the queue

ASSUME SetsAssumption ==
    /\ Translations # {} /\ Segments # {}
    /\ Workers \cap Clients = {}
ASSUME BoundsAssumption == MaxRequests \in Nat /\ MaxFailures \in Nat

VARIABLES
    tr,         \* committed AI Translation rows, without their segments
    seg,        \* and their segments
    queue,      \* translations whose job waits in RQ
    proc,       \* workers and requests that run or edit a translation
    accepted,   \* history: what a reviewer has accepted, <<segment, text>>
    requests, failures

vars == <<tr, seg, queue, proc, accepted, requests, failures>>

-----------------------------------------------------------------------------
Status == {"None", "Draft", "Queued", "Completed", "Needs Review", "Failed", "Cancelled"}
Final == {"Completed", "Needs Review", "Failed", "Cancelled"}
Texts == {"none", "poor", "fine"}
SegStatus == {"Absent", "Translated", "Reused", "Flagged", "Failed", "Reviewed"}

Row == [status : Status, cancel : BOOLEAN, index_output : BOOLEAN, docs : Nat]
Segment == [text : Texts, status : SegStatus, reviewed : BOOLEAN]

NoSegment == [text |-> "none", status |-> "Absent", reviewed |-> FALSE]
Procs == Workers \cup Clients

\* memory[i] is what the translation memory offers for segment i in the view.
Proc == [pc : {"idle", "open", "running", "failing", "ending", "calling", "indexing"},
         t : Translations \cup {"none"},
         stale : BOOLEAN, cancel : BOOLEAN,
         memory : [Segments -> SUBSET Texts],
         copy : [Segments -> Segment],
         target : Segments \cup {"none"}]

Idle == [pc |-> "idle", t |-> "none", stale |-> FALSE, cancel |-> FALSE,
         memory |-> [i \in Segments |-> {}], copy |-> [i \in Segments |-> NoSegment],
         target |-> "none"]

TypeOK ==
    /\ tr \in [Translations -> Row]
    /\ seg \in [Translations -> [Segments -> Segment]]
    /\ queue \subseteq Translations
    /\ proc \in [Procs -> Proc]
    /\ accepted \subseteq Segments \X Texts
    /\ requests \in 0 .. MaxRequests /\ failures \in 0 .. MaxFailures

Init ==
    /\ tr = [t \in Translations |->
               [status |-> "None", cancel |-> FALSE, index_output |-> FALSE, docs |-> 0]]
    /\ seg = [t \in Translations |-> [i \in Segments |-> NoSegment]]
    /\ queue = {}
    /\ proc = [p \in Procs |-> Idle]
    /\ accepted = {}
    /\ requests = 0 /\ failures = 0

-----------------------------------------------------------------------------
(* Rows, views, jobs.                                                      *)

Exists(t) == tr[t].status # "None"
Stored(t) == \A i \in Segments : seg[t][i].status # "Absent"

RowFree(t) == ~ \E p \in Procs : proc[p].t = t /\ proc[p].pc = "running"

\* Views that a commit on the row of t leaves behind.
Outdated(q, t) ==
    [p \in Procs |-> IF q[p].t = t /\ q[p].pc \in {"open", "calling", "indexing"}
                     THEN [q[p] EXCEPT !.stale = TRUE] ELSE q[p]]

\* RQ knows the job until its worker has reported the end.
JobKnown(t) == t \in queue \/ \E w \in Workers : proc[w].t = t

Requested == requests < MaxRequests /\ requests' = requests + 1

-----------------------------------------------------------------------------
(* Short requests.                                                         *)

CreateTranslation(t, index) ==
    /\ Requested
    /\ ~ Exists(t)
    /\ tr' = [tr EXCEPT ![t].status = "Draft", ![t].index_output = index]
    /\ UNCHANGED <<seg, queue, proc, accepted, failures>>

\* deduplicate=True and enqueue_after_commit=True: the job is handed to RQ after
\* the commit, which drops it when it knows one of that name or is unreachable.
EnqueueTranslation(t) ==
    /\ Requested
    /\ Exists(t) /\ tr[t].status # "Queued" /\ RowFree(t)
    /\ tr' = [tr EXCEPT ![t].status = "Queued"]
    /\ \/ queue' = queue \cup (IF JobKnown(t) THEN {} ELSE {t}) /\ UNCHANGED failures
       \/ failures < MaxFailures /\ failures' = failures + 1 /\ UNCHANGED queue
    /\ proc' = Outdated(proc, t)
    /\ UNCHANGED <<seg, accepted>>

\* A run in flight holds the row: its cancellation waits for the run and then
\* fails on the row that the run has changed.
CancelTranslation(t) ==
    /\ Requested
    /\ Exists(t) /\ tr[t].status \notin Final /\ RowFree(t)
    /\ tr' = [tr EXCEPT ![t].status = "Cancelled", ![t].cancel = TRUE]
    /\ proc' = Outdated(proc, t)
    /\ UNCHANGED <<seg, queue, accepted, failures>>

Accept(s) ==
    IF s.status = "Absent" THEN s
    ELSE [s EXCEPT !.reviewed = TRUE,
                   !.status = IF s.status = "Flagged" THEN "Reviewed" ELSE s.status]

\* AITranslation.mark_reviewed looks at no status.
MarkReviewed(t) ==
    /\ Requested
    /\ Exists(t) /\ RowFree(t)
    /\ seg' = [seg EXCEPT ![t] = [i \in Segments |-> Accept(seg[t][i])]]
    /\ accepted' = accepted \cup {<<i, seg[t][i].text>> : i \in Segments}
    /\ tr' = [tr EXCEPT ![t].status = "Completed"]
    /\ proc' = Outdated(proc, t)
    /\ UNCHANGED <<queue, failures>>

-----------------------------------------------------------------------------
(* The translation memory.                                                 *)

\* 100 for a reused segment, whatever it was where it came from.
Score(s) == IF s.status = "Reused" THEN 3
            ELSE IF s.text = "fine" THEN 2 ELSE IF s.text = "poor" THEN 1 ELSE 0

MemoryStatuses_Flagged == {"Translated", "Reviewed", "Reused", "Flagged"}
MemoryStatuses == {"Translated", "Reviewed", "Reused"}

\* _memory_lookup: the best stored segment with the fingerprint of segment i;
\* which of several it is depends on the times of their rows.
Memory(i) ==
    LET rows == {seg[t][i] : t \in {u \in Translations :
                    tr[u].status \in {"Completed", "Needs Review"}}}
        usable == {s \in rows : s.status \in MemoryStatuses}
    IN  {s.text : s \in {u \in usable : \A v \in usable : Score(u) >= Score(v)}}

-----------------------------------------------------------------------------
(* A run.                                                                  *)

\* A worker takes the job, or a request runs the translation itself; the view
\* is opened here.
OpenRun(p, t) ==
    /\ proc[p] = Idle
    /\ Exists(t)
    /\ IF p \in Workers
       THEN t \in queue /\ queue' = queue \ {t} /\ UNCHANGED requests
       ELSE Requested /\ tr[t].status # "Queued" /\ UNCHANGED queue
    /\ proc' = [proc EXCEPT ![p] = [Idle EXCEPT !.pc = "open", !.t = t,
                                                !.cancel = tr[t].cancel,
                                                !.memory = [i \in Segments |-> Memory(i)]]]
    /\ UNCHANGED <<tr, seg, accepted, failures>>

Over(p) == IF p \in Workers THEN [proc EXCEPT ![p] = [Idle EXCEPT !.pc = "ending", !.t = proc[p].t]]
           ELSE [proc EXCEPT ![p] = Idle]

\* _assert_not_cancelled and the first write, which may fail on the row or on the
\* wait for it, are outside the try statement: the error ends the job and leaves
\* the row as it is.
RunRefused(p) ==
    /\ proc[p].pc = "open"
    /\ proc[p].cancel \/ proc[p].stale \/ ~ RowFree(proc[p].t)
    /\ proc' = Over(p)
    /\ UNCHANGED <<tr, seg, queue, accepted, requests, failures>>

CanBegin_Blind(p) == RowFree(proc[p].t)
CanBegin(p) == RowFree(proc[p].t) /\ ~ proc[p].cancel /\ ~ proc[p].stale

BeginRun(p) ==
    /\ proc[p].pc = "open"
    /\ CanBegin(p)
    /\ proc' = [proc EXCEPT ![p].pc = "running"]
    /\ UNCHANGED <<tr, seg, queue, accepted, requests, failures>>

\* _score: what the gate makes of an answer; back-translation may flag a good one.
Scored(x) ==
    {[text |-> x, reviewed |-> FALSE,
      status |-> IF x = "none" THEN "Failed" ELSE IF x = "poor" THEN "Flagged" ELSE s]
        : s \in {"Translated", "Flagged"}}

\* _repair: a second answer replaces one that failed if it scores higher.
Kept(first, second) ==
    IF first = "fine" \/ first = second \/ second = "none" THEN first
    ELSE IF first = "none" \/ second = "fine" THEN second ELSE first

\* translate_text: memory first, a batch or a call of its own for the rest; what
\* the time budget leaves out has no text.
Translated(p, i) ==
    IF proc[p].memory[i] # {}
    THEN {[text |-> x, status |-> "Reused", reviewed |-> FALSE] : x \in proc[p].memory[i]}
    ELSE UNION {Scored(Kept(a, b)) : a, b \in Texts}

Doubtful(segments) == \E i \in Segments : segments[i].status \in {"Flagged", "Failed"}

\* _persist_outcome and, when asked for, index_translation, whose errors are only
\* logged; the commit.
FinishRun(p) ==
    /\ proc[p].pc = "running"
    /\ LET t == proc[p].t IN
       \E new \in [Segments -> UNION {Translated(p, i) : i \in Segments}],
          document \in IF tr[t].index_output /\ tr[t].docs = 0 THEN 0 .. 1 ELSE {0} :
          /\ \A i \in Segments : new[i] \in Translated(p, i)
          /\ seg' = [seg EXCEPT ![t] = new]
          /\ tr' = [tr EXCEPT ![t].status = IF Doubtful(new) THEN "Needs Review" ELSE "Completed",
                              ![t].cancel = FALSE,
                              ![t].docs = @ + document]
          /\ proc' = Outdated(Over(p), t)
    /\ UNCHANGED <<queue, accepted, requests, failures>>

\* The model fails, or the language cannot be detected.  A job rolls back and
\* judges the row anew; a request writes Failed in its own transaction.
RunFails(p) ==
    /\ proc[p].pc = "running"
    /\ IF p \in Workers
       THEN proc' = [proc EXCEPT ![p].pc = "failing"] /\ UNCHANGED tr
       ELSE /\ tr' = [tr EXCEPT ![proc[p].t].status = "Failed"]
            /\ proc' = Outdated(Over(p), proc[p].t)
    /\ UNCHANGED <<seg, queue, accepted, requests, failures>>

WriteFailure(p) ==
    /\ proc[p].pc = "failing" /\ RowFree(proc[p].t)
    /\ LET t == proc[p].t IN
       /\ tr' = [tr EXCEPT ![t].status = IF tr[t].cancel THEN "Cancelled" ELSE "Failed"]
       /\ proc' = Outdated(Over(p), t)
    /\ UNCHANGED <<seg, queue, accepted, requests, failures>>

EndJob(w) ==
    /\ proc[w].pc = "ending"
    /\ proc' = [proc EXCEPT ![w] = Idle]
    /\ UNCHANGED <<tr, seg, queue, accepted, requests, failures>>

Crash(w) ==
    /\ failures < MaxFailures /\ failures' = failures + 1
    /\ proc[w].pc \in {"open", "running", "failing", "ending"}
    /\ proc' = [proc EXCEPT ![w] = Idle]
    /\ UNCHANGED <<tr, seg, queue, accepted, requests>>

-----------------------------------------------------------------------------
(* Requests that read the row, take their time, and write it.              *)

\* retranslate_segment loads the translation and calls the model ...
LoadSegment(c, t, i) ==
    /\ Requested
    /\ proc[c] = Idle /\ Exists(t) /\ Stored(t)
    /\ proc' = [proc EXCEPT ![c] = [Idle EXCEPT !.pc = "calling", !.t = t, !.target = i,
                                                !.copy = seg[t]]]
    /\ UNCHANGED <<tr, seg, queue, accepted, failures>>

CanSave_Unchecked(c) == RowFree(proc[c].t)
CanSave(c) == RowFree(proc[c].t) /\ ~ proc[c].stale

\* ... and saves all segments, with the new one among them.  Only "Needs Review"
\* is judged again.
SaveSegment(c) ==
    /\ proc[c].pc = "calling"
    /\ CanSave(c)
    /\ LET t == proc[c].t IN
       \E s \in UNION {Scored(x) : x \in Texts} :
          LET new == [proc[c].copy EXCEPT ![proc[c].target] = s]
          IN  /\ ~ (s.status = "Flagged" /\ s.text = "fine")
              /\ seg' = [seg EXCEPT ![t] = new]
              /\ tr' = [tr EXCEPT ![t].status =
                          IF @ = "Needs Review" /\ ~ Doubtful(new) THEN "Completed" ELSE @]
              /\ proc' = Outdated([proc EXCEPT ![c] = Idle], t)
    /\ UNCHANGED <<queue, accepted, requests, failures>>

\* index_translation on demand: the text and the missing document are read ...
LoadIndex(c, t) ==
    /\ Requested
    /\ proc[c] = Idle /\ Exists(t) /\ Stored(t) /\ tr[t].docs = 0
    /\ proc' = [proc EXCEPT ![c] = [Idle EXCEPT !.pc = "indexing", !.t = t]]
    /\ UNCHANGED <<tr, seg, queue, accepted, failures>>

\* ... and the document is inserted and noted on the row.
SaveIndex(c) ==
    /\ proc[c].pc = "indexing"
    /\ CanSave(c)
    /\ tr' = [tr EXCEPT ![proc[c].t].docs = @ + 1]
    /\ proc' = Outdated([proc EXCEPT ![c] = Idle], proc[c].t)
    /\ UNCHANGED <<seg, queue, accepted, requests, failures>>

\* Error 1020 or the lock wait timeout, or the model fails.
RequestFails(c) ==
    /\ proc[c].pc \in {"calling", "indexing"}
    /\ proc' = [proc EXCEPT ![c] = Idle]
    /\ UNCHANGED <<tr, seg, queue, accepted, requests, failures>>

-----------------------------------------------------------------------------
Next ==
    \/ \E t \in Translations :
          \/ \E b \in BOOLEAN : CreateTranslation(t, b)
          \/ EnqueueTranslation(t) \/ CancelTranslation(t) \/ MarkReviewed(t)
          \/ \E p \in Procs : OpenRun(p, t)
          \/ \E c \in Clients : LoadIndex(c, t) \/ \E i \in Segments : LoadSegment(c, t, i)
    \/ \E p \in Procs : RunRefused(p) \/ BeginRun(p) \/ FinishRun(p) \/ RunFails(p)
    \/ \E w \in Workers : WriteFailure(w) \/ EndJob(w) \/ Crash(w)
    \/ \E c \in Clients : SaveSegment(c) \/ SaveIndex(c) \/ RequestFails(c)

Spec == Init /\ [][Next]_vars

-----------------------------------------------------------------------------
(* Properties.                                                             *)

\* A run replaces all segments at once and a retranslation exactly one: the
\* request that loaded the segments, called the model and saves them later puts
\* back none that a run, a review or another request has changed meanwhile.
OneAtATime ==
    [][\A t \in Translations :
          \/ \E p \in Procs : proc[p].pc = "running" /\ proc[p].t = t /\ proc'[p].pc # "running"
          \/ Cardinality({i \in Segments : seg'[t][i] # seg[t][i]}) <= 1
          \/ \A i \in Segments : seg'[t][i].reviewed]_vars

\* TRN-04: no job takes a translation out of Cancelled, also not one that was
\* queued or had begun before: it must be queued again or reviewed.
CancelSticks ==
    [][\A t \in Translations :
          tr[t].status = "Cancelled" /\ tr'[t].status # "Cancelled" =>
              \/ tr'[t].status = "Queued"
              \/ tr'[t].status = "Completed" /\ requests' = requests + 1]_vars

\* What others decided about a translation stands: their segments and their
\* cancellation are not put back by a run or a request that began before.
DecisionsStand == OneAtATime /\ CancelSticks

\* The memory gives back a text that failed the quality gate only if a reviewer
\* accepted it, however often it was copied from one translation to another.
MemoryTrusted ==
    \A t \in Translations, i \in Segments :
        seg[t][i].status = "Reused" /\ seg[t][i].text # "fine" =>
            <<i, seg[t][i].text>> \in accepted

\* A translation has at most one document of its own in the index, whoever asks
\* for it: the run, or people who press the button at the same time.
IndexedOnce == \A t \in Translations : tr[t].docs <= 1

\* docs/TRANSLATION.md: below the threshold a segment is flagged and "the
\* document's status becomes Needs Review".
FlaggedNeedsReview ==
    \A t \in Translations :
        tr[t].status = "Completed" =>
            \A i \in Segments :
                seg[t][i].status \in {"Flagged", "Failed"} => seg[t][i].reviewed
=============================================================================
