------------------------- MODULE DocumentIngestion -------------------------
(***************************************************************************)
(* Extraction and indexing of AI Document: ai_fr_hg/ai/ingestion.py and    *)
(* the index writer of ai_fr_hg/ai/knowledge.py.                           *)
(*                                                                         *)
(* Three callers run process_document: an RQ worker for the job of a       *)
(* document, a request or pipeline step that processes it inline, and a    *)
(* chat turn that needs the text at once.  Each runs in one transaction    *)
(* with its own read view, serialized by a Redis lock that is released     *)
(* before the transaction commits.  A write to a row that was changed      *)
(* since the view fails with error 1020 and rolls back the transaction;    *)
(* the handler of process_document then starts from a new view.            *)
(*                                                                         *)
(* Short requests read and write the document row at once: they see the    *)
(* current row or fail without effect, so each is one step.  All documents *)
(* here share one knowledge base, whose counters every indexing rewrites.  *)
(*                                                                         *)
(* An operator X_Y just before an operator X is X with a plausible mistake *)
(* in it, to see that the properties notice; the specification uses X.     *)
(***************************************************************************)
EXTENDS Naturals, FiniteSets

CONSTANTS
    Docs, Users, Workers, Sessions,
    Versions,       \* contents that a source may have
    Keys,           \* chunk identities: (checksum, chunk_index)
    ChunkKeys,      \* the chunks chunk_text makes of each content
    Uploaded,       \* documents inserted with auto_process_documents
    None,           \* no job, no content, lock free
    Dead,           \* the holder of a lock died
    MaxRetries,     \* AI Platform Settings.max_retries
    MaxRequests,    \* bound: what people do
    MaxFailures,    \* bound: errors of readers, sources and providers
    MaxCrashes      \* bound: processes that die

ASSUME SetsAssumption ==
    /\ Workers \cap Sessions = {}
    /\ None \notin Users \cup Versions \cup Workers \cup Sessions
    /\ Dead \notin Workers \cup Sessions \cup {None}
    /\ Uploaded \subseteq Docs
    /\ Docs # {} /\ Users # {} /\ Versions # {}
ASSUME ChunksAssumption == ChunkKeys \in [Versions -> SUBSET Keys]
ASSUME LimitsAssumption ==
    /\ MaxRetries \in Nat /\ MaxRequests \in Nat
    /\ MaxFailures \in Nat /\ MaxCrashes \in Nat

VARIABLES
    doc,       \* committed AI Document rows with their chunks
    source,    \* what the source of each document holds now
    job,       \* the user whose job waits in RQ for each document, or None
    lock,      \* holder of document-process:<document>
    p,         \* workers and sessions, with their open transactions
    requests, failures, crashes

vars == <<doc, source, job, lock, p, requests, failures, crashes>>

-----------------------------------------------------------------------------
Status == {"Draft", "Queued", "Indexed", "Failed", "Cancelled"}

Procs == Workers \cup Sessions

\* Extracting, Chunking and Embedding are written and replaced within one
\* transaction: no committed row shows them.
Row == [status : Status,
        cancel : BOOLEAN,                   \* cancel_requested
        retry : Nat,                        \* retry_count
        queued : {"none", "rq", "inline"},  \* processing_job_id
        by : Users,                         \* processing_requested_by
        content : Versions \cup {None},
        chunks : SUBSET Keys,
        embedded : SUBSET Keys]

NewRow(u) ==
    [status |-> "Draft", cancel |-> FALSE, retry |-> 0, queued |-> "none",
     by |-> u, content |-> None, chunks |-> {}, embedded |-> {}]

Proc == [pc : {"idle", "taken", "locked", "done", "ended"},
         kind : {"job", "index", "extract", "turn"},
         doc : Docs,
         by : Users,
         row : Row,         \* the row in the transaction's view
         wrote : BOOLEAN,   \* the transaction has written the row
         stale : BOOLEAN,   \* the row was changed since the view
         kb : BOOLEAN,      \* the transaction has written the knowledge base
         kbStale : BOOLEAN]

Transaction(kind, d, u, row, wrote) ==
    [pc |-> "taken", kind |-> kind, doc |-> d, by |-> u, row |-> row,
     wrote |-> wrote, stale |-> FALSE, kb |-> FALSE, kbStale |-> FALSE]

AnyUser == CHOOSE u \in Users : TRUE
Idle == [Transaction("job", CHOOSE d \in Docs : TRUE, AnyUser, NewRow(AnyUser), FALSE)
            EXCEPT !.pc = "idle"]

TypeOK ==
    /\ doc \in [Docs -> Row]
    /\ source \in [Docs -> Versions]
    /\ job \in [Docs -> Users \cup {None}]
    /\ lock \in [Docs -> Procs \cup {None, Dead}]
    /\ p \in [Procs -> Proc]
    /\ \A d \in Docs : lock[d] \in Procs => p[lock[d]].pc = "locked" /\ p[lock[d]].doc = d
    /\ requests \in 0 .. MaxRequests
    /\ failures \in 0 .. MaxFailures
    /\ crashes \in 0 .. MaxCrashes

\* The controller queues an uploaded document for its owner.
Inserted(d) ==
    IF d \in Uploaded THEN [NewRow(AnyUser) EXCEPT !.status = "Queued", !.queued = "rq"]
                      ELSE NewRow(AnyUser)

Init ==
    /\ doc = [d \in Docs |-> Inserted(d)]
    /\ source = [d \in Docs |-> CHOOSE v \in Versions : TRUE]
    /\ job = [d \in Docs |-> IF d \in Uploaded THEN AnyUser ELSE None]
    /\ lock = [d \in Docs |-> None]
    /\ p = [x \in Procs |-> Idle]
    /\ requests = 0 /\ failures = 0 /\ crashes = 0

-----------------------------------------------------------------------------
(* Rows, views and jobs.                                                   *)

Open == {"taken", "locked", "done"}
InFlight(x) == p[x].pc \in Open

\* Uncommitted writes keep others from writing the same row.
RowFree(d) == ~ \E x \in Procs : InFlight(x) /\ p[x].wrote /\ p[x].doc = d
KbFree == ~ \E x \in Procs : InFlight(x) /\ p[x].kb

\* The processes after a commit of the rows of ds, and of the knowledge base
\* when touched: the views that are open become old.
Outdated(q, ds, touched) ==
    [x \in Procs |->
        IF q[x].pc \in Open
        THEN [q[x] EXCEPT !.stale = @ \/ (q[x].doc \in ds /\ ~ q[x].wrote),
                          !.kbStale = @ \/ touched]
        ELSE q[x]]

\* RQ keeps a job's id until the worker has reported its end.
JobKnown(d) ==
    \/ job[d] # None
    \/ \E x \in Workers : p[x].pc # "idle" /\ p[x].doc = d

-----------------------------------------------------------------------------
(* What people and the scheduler ask for.                                  *)

Requested == requests < MaxRequests /\ requests' = requests + 1

\* enqueue_processing: the row and, after the commit, the job.  A job whose id
\* RQ still knows is not queued again.
Enqueue(d, u, row) ==
    /\ RowFree(d)
    /\ doc' = [doc EXCEPT ![d] = [row EXCEPT !.status = "Queued",
                                             !.cancel = FALSE,
                                             !.queued = "rq",
                                             !.by = u]]
    /\ p' = Outdated(p, {d}, FALSE)
    /\ job' = IF JobKnown(d) THEN job ELSE [job EXCEPT ![d] = u]

AlreadyQueued_Trusting(d) == doc[d].status = "Queued" /\ doc[d].queued = "rq"
AlreadyQueued(d) == doc[d].status = "Queued" /\ doc[d].queued = "rq" /\ JobKnown(d)

Process(d, u) ==
    /\ Requested
    /\ doc[d].status \in {"Draft", "Failed", "Queued", "Cancelled"}
    /\ ~ AlreadyQueued(d)
    /\ Enqueue(d, u, doc[d])
    /\ UNCHANGED <<source, lock, failures, crashes>>

Reprocess(d, u) ==
    /\ Requested
    /\ doc[d].status \in {"Draft", "Failed", "Indexed", "Cancelled"}
    /\ Enqueue(d, u, [doc[d] EXCEPT !.chunks = {}, !.embedded = {}, !.retry = 0])
    /\ UNCHANGED <<source, lock, failures, crashes>>

Cancel(d) ==
    /\ Requested
    /\ doc[d].status \notin {"Indexed", "Failed", "Cancelled"}
    /\ RowFree(d)
    /\ doc' = [doc EXCEPT ![d].status = "Cancelled", ![d].cancel = TRUE]
    /\ p' = Outdated(p, {d}, FALSE)
    /\ UNCHANGED <<source, job, lock, failures, crashes>>

\* The file, page or record behind the document changes.
ChangeSource(d) ==
    /\ Requested
    /\ \E v \in Versions \ {source[d]} : source' = [source EXCEPT ![d] = v]
    /\ UNCHANGED <<doc, job, lock, p, failures, crashes>>

\* process_pending_documents.  Both of its filters compare `modified`, which no
\* write of the ingestion moves, so age never holds a document back for long.
Due(d) ==
    \/ doc[d].status = "Failed" /\ doc[d].retry <= MaxRetries
    \/ doc[d].status = "Queued"

Reconcile(d) ==
    /\ Due(d)
    /\ ~ AlreadyQueued(d)
    /\ Enqueue(d, doc[d].by, doc[d])
    /\ UNCHANGED <<source, lock, requests, failures, crashes>>

\* RQ is not reachable: the row says so, and the sweep goes on with the next.
ReconcileWithoutQueue(d) ==
    /\ failures < MaxFailures
    /\ doc[d].status = "Failed" /\ Due(d)
    /\ RowFree(d)
    /\ doc' = [doc EXCEPT ![d].queued = "rq", ![d].cancel = FALSE]
    /\ p' = Outdated(p, {d}, FALSE)
    /\ failures' = failures + 1
    /\ UNCHANGED <<source, job, lock, requests, crashes>>

\* Chunks without a vector are embedded by a job of their own, and those of an
\* indexed document also by process_document_now(embed=True).
Missing(d) == doc[d].chunks \ doc[d].embedded

Embed(ds) ==
    /\ ds # {} /\ KbFree
    /\ \A d \in ds : RowFree(d)
    /\ doc' = [d \in Docs |-> IF d \in ds
                              THEN [doc[d] EXCEPT !.embedded = doc[d].chunks]
                              ELSE doc[d]]
    /\ p' = Outdated(p, ds, TRUE)
    /\ UNCHANGED <<source, job, lock, requests, failures, crashes>>

EmbedMissing == Embed({d \in Docs : Missing(d) # {}})

-----------------------------------------------------------------------------
(* A run of process_document.                                              *)

TakeJob(x, d) ==
    /\ x \in Workers /\ p[x].pc = "idle"
    /\ job[d] # None
    /\ job' = [job EXCEPT ![d] = None]
    /\ p' = [p EXCEPT ![x] = Transaction("job", d, job[d], doc[d], FALSE)]
    /\ UNCHANGED <<doc, source, lock, requests, failures, crashes>>

\* process_document_now queues the document for itself before it runs; with
\* embed=False, as the pipeline step Extract Text has it, it only extracts.
ProcessNow(x, d, u, kind) ==
    /\ Requested
    /\ x \in Sessions /\ p[x].pc = "idle"
    /\ kind \in {"index", "extract"}
    /\ doc[d].status # "Indexed"
    /\ doc[d].status = "Queued" => doc[d].by = u
    /\ RowFree(d)
    /\ p' = [p EXCEPT ![x] = Transaction(kind, d, u,
                [doc[d] EXCEPT !.status = "Queued", !.queued = "inline", !.by = u],
                TRUE)]
    /\ UNCHANGED <<doc, source, job, lock, failures, crashes>>

\* prepare_documents_for_turn wants the text of a document that has none.
PrepareTurn(x, d, u) ==
    /\ Requested
    /\ x \in Sessions /\ p[x].pc = "idle"
    /\ doc[d].content = None
    /\ doc[d].status \in {"Draft", "Failed", "Queued"}
    /\ p' = [p EXCEPT ![x] = Transaction("turn", d, u, doc[d], FALSE)]
    /\ UNCHANGED <<doc, source, job, lock, failures, crashes>>

Interactive(x) == p[x].kind \in {"extract", "turn"}

Acquire(x) ==
    /\ p[x].pc = "taken"
    /\ p[x].kind = "job" => p[x].by = p[x].row.by
    /\ lock[p[x].doc] = None
    /\ lock' = [lock EXCEPT ![p[x].doc] = x]
    /\ p' = [p EXCEPT ![x].pc = "locked"]
    /\ UNCHANGED <<doc, source, job, requests, failures, crashes>>

\* The transaction ends as it is; without writes there is nothing to remember.
Leave(x) ==
    IF p[x].wrote THEN [p[x] EXCEPT !.pc = "done"]
    ELSE [Idle EXCEPT !.pc = "done", !.kind = p[x].kind, !.doc = p[x].doc]

\* blocking_timeout: the run is skipped; what the caller wrote is committed.
SkipLocked(x) ==
    /\ p[x].pc = "taken"
    /\ p[x].kind = "job" => p[x].by = p[x].row.by
    /\ lock[p[x].doc] # None
    /\ p' = [p EXCEPT ![x] = Leave(x)]
    /\ UNCHANGED <<doc, source, job, lock, requests, failures, crashes>>

Released(x) ==
    [d \in Docs |-> IF lock[d] = x THEN None ELSE lock[d]]

\* The except clause of process_document.
Handled_Failed(row) ==
    [row EXCEPT !.status = "Failed", !.retry = @ + 1]
Handled(row) ==
    IF row.cancel THEN [row EXCEPT !.status = "Cancelled"]
                  ELSE [row EXCEPT !.status = "Failed", !.retry = @ + 1]

\* The run ends with a row in its transaction, still to be committed.
Ends(x, row) ==
    /\ p' = [p EXCEPT ![x].pc = "done", ![x].row = row, ![x].wrote = TRUE]
    /\ lock' = Released(x)

\* An error of the database: the transaction is rolled back.  The handler
\* writes the row as it is now, unless another transaction keeps it from that.
RolledBack(x) ==
    LET d == p[x].doc
        escapes == [Idle EXCEPT !.pc = "done", !.kind = p[x].kind, !.doc = d]
        handled == [p[x] EXCEPT !.pc = "done", !.row = Handled(doc[d]), !.wrote = TRUE,
                                !.stale = FALSE, !.kb = FALSE, !.kbStale = FALSE]
        others == \E y \in Procs \ {x} : InFlight(y) /\ p[y].wrote /\ p[y].doc = d
    IN  /\ p' = [p EXCEPT ![x] = IF others THEN escapes ELSE handled]
        /\ lock' = Released(x)

\* A job that waited while someone else asked for the document: its user is not
\* the one the row names.
WrongAuthority(x) ==
    /\ p[x].pc = "taken" /\ p[x].kind = "job" /\ p[x].by # p[x].row.by
    /\ IF p[x].stale THEN p' = [p EXCEPT ![x] = Leave(x)] /\ UNCHANGED lock
                     ELSE RowFree(p[x].doc) /\ Ends(x, Handled(p[x].row))
    /\ UNCHANGED <<doc, source, job, requests, failures, crashes>>

Startable(x) ==
    p[x].row.status \in IF Interactive(x) THEN {"Draft", "Failed", "Queued"} ELSE {"Queued"}

SkipStatus(x) ==
    /\ p[x].pc = "locked"
    /\ ~ Startable(x)
    /\ p' = [p EXCEPT ![x] = Leave(x)]
    /\ lock' = Released(x)
    /\ UNCHANGED <<doc, source, job, requests, failures, crashes>>

\* The first write of the run.
Starts(x) ==
    /\ p[x].pc = "locked"
    /\ Startable(x)
    /\ UNCHANGED <<doc, source, job, requests, crashes>>

Writable(x) == p[x].wrote \/ (~ p[x].stale /\ RowFree(p[x].doc))

\* The row changed after the view was opened.
RunConflict(x) ==
    /\ Starts(x)
    /\ ~ p[x].wrote /\ p[x].stale
    /\ RolledBack(x)
    /\ UNCHANGED failures

\* Another transaction has the row and waits for the lock of this one: the
\* write runs into the lock wait timeout, and so does the one of the handler.
RunBlocked(x) ==
    /\ Starts(x)
    /\ ~ p[x].wrote /\ ~ p[x].stale /\ ~ RowFree(p[x].doc)
    /\ p' = [p EXCEPT ![x] = Leave(x)]
    /\ lock' = Released(x)
    /\ UNCHANGED failures

RunCancelled(x) ==
    /\ Starts(x)
    /\ Writable(x) /\ p[x].row.cancel
    /\ Ends(x, Handled(p[x].row))
    /\ UNCHANGED failures

Readable(x) == ChunkKeys[source[p[x].doc]] # {}
Failing == failures < MaxFailures /\ failures' = failures + 1

\* No source, reader or readable text.
ExtractFails(x) ==
    /\ Starts(x)
    /\ Writable(x) /\ ~ p[x].row.cancel
    /\ IF Readable(x) THEN Failing ELSE UNCHANGED failures
    /\ Ends(x, Handled(p[x].row))

ExtractOnly(x) ==
    /\ Starts(x)
    /\ Interactive(x)
    /\ Writable(x) /\ ~ p[x].row.cancel /\ Readable(x)
    /\ Ends(x, [p[x].row EXCEPT
                   !.content = source[p[x].doc],
                   !.status = IF @ = "Queued" THEN "Queued" ELSE "Draft"])
    /\ UNCHANGED failures

\* index_document: chunks of an earlier content go, new ones come, those that
\* stay keep their vector.
Chunked_Kept(row, v) ==
    [row EXCEPT !.content = v, !.chunks = @ \cup ChunkKeys[v]]
Chunked(row, v) ==
    [row EXCEPT !.content = v, !.chunks = ChunkKeys[v],
                !.embedded = @ \cap ChunkKeys[v]]

Indexes(x) ==
    /\ Starts(x)
    /\ ~ Interactive(x)
    /\ Writable(x) /\ ~ p[x].row.cancel /\ Readable(x)

\* The provider fails; the chunks written so far stay.
EmbeddingFails(x) ==
    /\ Indexes(x)
    /\ Failing
    /\ Ends(x, Handled(Chunked(p[x].row, source[p[x].doc])))

\* Another document of the knowledge base was indexed since the view.
KbConflict(x) ==
    /\ Indexes(x)
    /\ p[x].kbStale
    /\ RolledBack(x)
    /\ UNCHANGED failures

IndexDone(x) ==
    /\ Indexes(x)
    /\ ~ p[x].kbStale /\ KbFree
    /\ LET row == Chunked(p[x].row, source[p[x].doc])
       IN \E vectors \in {row.embedded, row.chunks} :
             p' = [p EXCEPT ![x].pc = "done", ![x].wrote = TRUE, ![x].kb = TRUE,
                            ![x].row = [row EXCEPT !.status = "Indexed",
                                                   !.embedded = vectors]]
    /\ lock' = Released(x)
    /\ UNCHANGED failures

Commit(x) ==
    /\ p[x].pc = "done"
    /\ LET d == p[x].doc
           over == IF x \in Workers THEN [p EXCEPT ![x] = [Idle EXCEPT !.pc = "ended", !.doc = d]]
                                    ELSE [p EXCEPT ![x] = Idle]
       IN  IF p[x].wrote
           THEN /\ doc' = [doc EXCEPT ![d] = p[x].row]
                /\ p' = Outdated(over, {d}, p[x].kb)
           ELSE doc' = doc /\ p' = over
    /\ UNCHANGED <<source, job, lock, requests, failures, crashes>>

ReportEnd(x) ==
    /\ p[x].pc = "ended"
    /\ p' = [p EXCEPT ![x] = Idle]
    /\ UNCHANGED <<doc, source, job, lock, requests, failures, crashes>>

\* A process dies: its transaction is rolled back, its Redis lock stays until
\* the timeout of the lock.
Crash(x) ==
    /\ crashes < MaxCrashes
    /\ InFlight(x)
    /\ crashes' = crashes + 1
    /\ p' = [p EXCEPT ![x] = Idle]
    /\ lock' = [d \in Docs |-> IF lock[d] = x THEN Dead ELSE lock[d]]
    /\ UNCHANGED <<doc, source, job, requests, failures>>

LockExpires(d) ==
    /\ lock[d] = Dead
    /\ lock' = [lock EXCEPT ![d] = None]
    /\ UNCHANGED <<doc, source, job, p, requests, failures, crashes>>

-----------------------------------------------------------------------------
Step(x) ==
    \/ Acquire(x) \/ SkipLocked(x) \/ WrongAuthority(x) \/ SkipStatus(x)
    \/ RunConflict(x) \/ RunBlocked(x) \/ RunCancelled(x)
    \/ ExtractFails(x) \/ ExtractOnly(x)
    \/ EmbeddingFails(x) \/ KbConflict(x) \/ IndexDone(x)
    \/ Commit(x) \/ ReportEnd(x)

Asked(d) ==
    \/ \E u \in Users :
          \/ Process(d, u) \/ Reprocess(d, u)
          \/ \E x \in Sessions :
                PrepareTurn(x, d, u) \/ \E k \in {"index", "extract"} : ProcessNow(x, d, u, k)
    \/ Cancel(d)
    \/ ChangeSource(d)

Next ==
    \/ \E d \in Docs : Asked(d) \/ Reconcile(d) \/ ReconcileWithoutQueue(d) \/ LockExpires(d)
    \/ \E x \in Workers, d \in Docs : TakeJob(x, d)
    \/ EmbedMissing
    \/ \E x \in Procs : Step(x) \/ Crash(x)

\* Workers and requests go on with what they have begun, RQ hands out its jobs,
\* the hourly sweep comes back and Redis forgets the locks of the dead.
Fairness ==
    /\ \A x \in Procs : WF_vars(Step(x))
    /\ \A d \in Docs :
          /\ WF_vars(\E x \in Workers : TakeJob(x, d))
          /\ WF_vars(Reconcile(d))
          /\ WF_vars(LockExpires(d))

Spec == Init /\ [][Next]_vars /\ Fairness

-----------------------------------------------------------------------------
(* Properties.                                                             *)

\* Retrieval reads the chunks of indexed documents: they are those of the text
\* the row holds, whatever attempts failed, were cancelled or ran side by side
\* before (index_document reuses the rows of earlier attempts).
IndexMatchesContent ==
    \A d \in Docs :
        doc[d].status = "Indexed" =>
            /\ doc[d].content # None
            /\ doc[d].chunks = ChunkKeys[doc[d].content]
            /\ doc[d].embedded \subseteq doc[d].chunks

\* A cancelled document stays cancelled until a person asks for it again: no
\* run in flight, no sweep and no turn takes it out of Cancelled.
CancelSticks ==
    [][\A d \in Docs :
          doc[d].status = "Cancelled" /\ doc'[d].status # "Cancelled" =>
              \/ requests' = requests + 1
              \/ \E x \in Sessions : p[x].pc = "done" /\ p[x].kind \in {"index", "extract"}]_vars

\* A chat turn that only wants the text "never consumes or replaces an already
\* queued indexing job" (process_document).
TurnKeepsQueue ==
    [][\A d \in Docs, x \in Sessions :
          p[x].pc = "done" /\ p[x].kind = "turn" /\ p[x].doc = d
          /\ p'[x].pc = "idle" /\ doc[d].status = "Queued" =>
              doc'[d].status = "Queued"]_vars

\* A queued document does not stay queued: its job runs, or the sweep finds
\* that RQ has none and queues it again.
QueuedEnds == \A d \in Docs : doc[d].status = "Queued" ~> doc[d].status # "Queued"
=============================================================================
