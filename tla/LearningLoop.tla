---------------------------- MODULE LearningLoop ----------------------------
(* The learning loop of ai/learning.py: what users teach becomes a candidate; *)
(* a candidate is validated, compared with what is already learned, and       *)
(* approved or rejected; an approved candidate becomes a memory or a skill    *)
(* that shapes later answers; and the ratings of those answers are counted on *)
(* the memories behind them, a bad rating being a candidate itself.           *)
(*                                                                            *)
(* Every request is one transaction of MariaDB: it reads from the view of its *)
(* first statement, waits for rows others have locked, fails with error 1020  *)
(* on a row changed after its view, and keeps its locks while the text of a   *)
(* new memory is embedded, which may take as long as a model call.            *)
(* Contents are classes: two texts conflict when the code would call them     *)
(* duplicates or overlaps in scopes that can conflict.                        *)
EXTENDS FiniteSets, Integers

CONSTANTS
    Candidates,     \* rows of AI Knowledge Candidate
    Learned,        \* rows of AI Memory and AI Skill
    Messages,       \* answers of an assistant
    Requests,       \* sessions that send a request at a time
    Contents,       \* what can be taught, up to conflict
    SkillContents,  \* those of them that are instructions, kept as skills
    MaxRequests,    \* bound: requests that are sent
    MaxChanges,     \* bound: answers, forms, and switches of a learned row
    NoRow

ASSUME LearningAssumption ==
    /\ SkillContents \subseteq Contents
    /\ MaxRequests \in Nat /\ MaxChanges \in Nat
    /\ NoRow \notin Candidates \cup Learned \cup Messages

VARIABLES
    candidate,  \* the row of each candidate, or NoRow
    learned,    \* the row of each memory or skill, or NoRow
    message,    \* an answer's rating and the memories behind it, or NoRow
    request,    \* the request each session has in flight
    form,       \* a memory's row as an open Desk form shows it, or NoRow
    sent,       \* requests sent so far
    changed     \* other changes made so far

vars == <<candidate, learned, message, request, form, sent, changed>>

-----------------------------------------------------------------------------
(* Rows and requests *)

Undecided == {"Draft", "Validated", "Conflict"}
Decided == {"Approved", "Rejected"}

Ratings == {"None", "Positive", "Negative"}

CandidateRow == [status: Undecided \cup Decided, content: Contents, about: Messages \cup {NoRow}]

LearnedRow ==
    [from: Candidates, content: Contents, active: BOOLEAN,
     helpful: Int, unhelpful: Int, edited: BOOLEAN]

MessageRow == [rating: Ratings, behind: SUBSET Learned]

Rows == Candidates \cup Learned \cup Messages

ASSUME RowsAssumption ==
    /\ NoRow \notin CandidateRow \cup LearnedRow \cup MessageRow
    /\ NoRow \notin Contents
    /\ Candidates \cap Messages = {}

(* Who decides when nothing conflicts: nobody, the policy of the settings     *)
(* that needs no approval, a manager, or a manager who wrote notes. "denied"  *)
(* is a rating by somebody who may not teach, or while learning is off.       *)
Grants == {"nobody", "policy", "manager", "notes", "denied"}

Request ==
    [pc: {"idle", "open", "locked"}, op: {"none", "teach", "process", "approve", "reject", "rate"},
     row: Rows \cup {NoRow}, content: Contents \cup {NoRow}, grant: Grants, rating: Ratings,
     known: SUBSET Contents, taught: BOOLEAN, stale: SUBSET Rows]

Idle ==
    [pc |-> "idle", op |-> "none", row |-> NoRow, content |-> NoRow, grant |-> "nobody",
     rating |-> "None", known |-> {}, taught |-> FALSE, stale |-> {}]

Free(rows, row) == {r \in DOMAIN row \cap rows : row[r] = NoRow}
Present(row) == {r \in DOMAIN row : row[r] # NoRow}

ActiveRows == {l \in Present(learned) : learned[l].active}
ActiveContents == {learned[l].content : l \in ActiveRows}

IsMemory(l) == learned[l].content \notin SkillContents

(* The memories whose counters a new rating moves. *)
Counted(m, rating) == IF message[m].rating = rating THEN {} ELSE message[m].behind

RowsOf(q) ==
    (IF q.row = NoRow THEN {} ELSE {q.row})
        \cup (IF q.op = "rate" THEN Counted(q.row, q.rating) ELSE {})

LockedBy(r) == IF request[r].pc = "locked" THEN RowsOf(request[r]) ELSE {}

RowFree(row) == \A r \in Requests : row \notin LockedBy(r)

(* The requests after r committed a change of some rows: r is over, and the   *)
(* rows are newer than every view that is open.                               *)
AfterChange(rows) ==
    [r \in Requests |->
        IF request[r].pc = "idle" THEN Idle
        ELSE [request[r] EXCEPT !.stale = @ \cup rows]]

AfterCommit(r, rows) == [AfterChange(rows) EXCEPT ![r] = Idle]

-----------------------------------------------------------------------------
(* A request opens its view. *)

Opens(r, q) ==
    /\ request[r].pc = "idle"
    /\ sent < MaxRequests
    /\ sent' = sent + 1
    /\ request' = [request EXCEPT ![r] =
                      [q EXCEPT !.pc = "open", !.known = ActiveContents]]
    /\ UNCHANGED <<candidate, learned, message, form, changed>>

(* teach: the candidate does not exist yet. *)
Teach(r) ==
    \E k \in Contents, g \in {"nobody", "policy", "manager"} :
        Opens(r, [Idle EXCEPT !.op = "teach", !.content = k, !.grant = g])

ProcessCandidate(r) ==
    \E c \in Present(candidate), g \in {"nobody", "policy"} :
        Opens(r, [Idle EXCEPT !.op = "process", !.row = c, !.grant = g])

ApproveCandidate(r) ==
    \E c \in Present(candidate), g \in {"manager", "notes"} :
        Opens(r, [Idle EXCEPT !.op = "approve", !.row = c, !.grant = g])

RejectCandidate(r) ==
    \E c \in Present(candidate) :
        Opens(r, [Idle EXCEPT !.op = "reject", !.row = c])

(* record_feedback: whether a badly rated answer has a candidate is read in   *)
(* the view; the correction, or the answer itself, would be its content.      *)
RecordFeedback(r) ==
    \E m \in Present(message) :
        \/ \E f \in Ratings \ {"Negative"} :
              Opens(r, [Idle EXCEPT !.op = "rate", !.row = m, !.rating = f])
        \/ \E k \in Contents, g \in {"nobody", "policy", "denied"} :
              Opens(r, [Idle EXCEPT !.op = "rate", !.row = m, !.rating = "Negative",
                                    !.content = k, !.grant = g,
                                    !.taught = \E c \in Present(candidate) : candidate[c].about = m])

-----------------------------------------------------------------------------
(* Its first write locks its rows: they are free, and as the view shows them. *)

(* A missing check: the lock is waited for and the row taken as it is.        *)
CanLock_Unchecked(r) ==
    LET q == request[r]
    IN  /\ \A row \in RowsOf(q) : RowFree(row)

CanLock(r) ==
    LET q == request[r]
    IN  /\ \A row \in RowsOf(q) : RowFree(row)
        /\ RowsOf(q) \cap q.stale = {}
        /\ q.row \in Candidates => candidate[q.row].status \in Undecided

LockRows(r) ==
    /\ request[r].pc = "open"
    /\ CanLock(r)
    /\ request' = [request EXCEPT ![r].pc = "locked"]
    /\ UNCHANGED <<candidate, learned, message, form, sent, changed>>

(* An exception: the decision was already made, error 1020, a lock that was   *)
(* not granted, a validation that throws. Nothing is kept.                    *)
RequestFails(r) ==
    /\ request[r].pc # "idle"
    /\ request' = [request EXCEPT ![r] = Idle]
    /\ UNCHANGED <<candidate, learned, message, form, sent, changed>>

(* The status that processing gives to a content, from the conflicts the view *)
(* shows: without one the policy or the teaching manager approves at once.    *)
Processed(q, k) ==
    IF k \in q.known THEN "Conflict"
    ELSE IF q.grant \in {"policy", "manager"} THEN "Approved" ELSE "Validated"

(* _promote_to_memory, _promote_to_skill: a new row for an approved candidate. *)
Promote(c, k, status) ==
    IF status = "Approved"
    THEN \E l \in Free(Learned, learned) :
            learned' = [learned EXCEPT ![l] =
                [from |-> c, content |-> k, active |-> TRUE,
                 helpful |-> 0, unhelpful |-> 0, edited |-> FALSE]]
    ELSE UNCHANGED learned

(* process_candidate: a candidate that is not valid goes back to Draft. *)
FinishProcess(r) ==
    LET q == request[r]
        k == candidate[q.row].content
    IN  /\ q.pc = "locked" /\ q.op = "process"
        /\ \E status \in {"Draft", Processed(q, k)} :
              /\ candidate' = [candidate EXCEPT ![q.row].status = status]
              /\ Promote(q.row, k, status)
        /\ request' = AfterCommit(r, {q.row})
        /\ UNCHANGED <<message, form, sent, changed>>

(* approve_candidate: a conflict the view shows needs notes. *)
FinishApprove(r) ==
    LET q == request[r]
        k == candidate[q.row].content
    IN  /\ q.pc = "locked" /\ q.op = "approve"
        /\ k \in q.known => q.grant = "notes"
        /\ candidate' = [candidate EXCEPT ![q.row].status = "Approved"]
        /\ Promote(q.row, k, "Approved")
        /\ request' = AfterCommit(r, {q.row})
        /\ UNCHANGED <<message, form, sent, changed>>

FinishReject(r) ==
    LET q == request[r]
    IN  /\ q.pc = "locked" /\ q.op = "reject"
        /\ candidate' = [candidate EXCEPT ![q.row].status = "Rejected"]
        /\ request' = AfterCommit(r, {q.row})
        /\ UNCHANGED <<learned, message, form, sent, changed>>

(* create_candidate and process_candidate, in one transaction. *)
Creates(q, about) ==
    \E c \in Free(Candidates, candidate), status \in {"Draft", Processed(q, q.content)} :
        /\ candidate' = [candidate EXCEPT ![c] =
                            [status |-> status, content |-> q.content, about |-> about]]
        /\ Promote(c, q.content, status)

FinishTeach(r) ==
    LET q == request[r]
    IN  /\ q.pc = "locked" /\ q.op = "teach"
        /\ Creates(q, NoRow)
        /\ request' = AfterCommit(r, {})
        /\ UNCHANGED <<message, form, sent, changed>>

(* _adjust_memory_feedback: the old rating is taken back, the new one counted. *)
One(old, new, rating) ==
    (IF new = rating THEN 1 ELSE 0) - (IF old = rating THEN 1 ELSE 0)

(* A missing decrement: the old rating stays counted. *)
Adjusted_Kept(row, old, new) ==
    LET floor(n) == IF n < 0 THEN 0 ELSE n
    IN  [row EXCEPT !.helpful = floor(@ + One("None", new, "Positive")),
                    !.unhelpful = floor(@ + One("None", new, "Negative"))]

Adjusted(row, old, new) ==
    LET floor(n) == IF n < 0 THEN 0 ELSE n
    IN  [row EXCEPT !.helpful = floor(@ + One(old, new, "Positive")),
                    !.unhelpful = floor(@ + One(old, new, "Negative"))]

Recounted(m, rating) ==
    [l \in Learned |-> IF l \in Counted(m, rating)
                       THEN Adjusted(learned[l], message[m].rating, rating) ELSE learned[l]]

(* A bad rating by somebody who may teach, of an answer without a candidate. *)
Teaches(q) == q.rating = "Negative" /\ q.grant # "denied" /\ ~q.taught

(* record_feedback, observe_feedback: a rating is kept and counted; a bad one *)
(* becomes a candidate. A rating that changes nothing writes no new version   *)
(* of the message's row.                                                      *)
FinishFeedback(r) ==
    LET q == request[r]
        counts == Recounted(q.row, q.rating)
    IN  /\ q.pc = "locked" /\ q.op = "rate"
        /\ message' = [message EXCEPT ![q.row].rating = q.rating]
        /\ IF Teaches(q)
           THEN \E c \in Free(Candidates, candidate), status \in {"Draft", Processed(q, q.content)} :
                   /\ candidate' = [candidate EXCEPT ![c] =
                            [status |-> status, content |-> q.content, about |-> q.row]]
                   /\ IF status = "Approved"
                      THEN \E l \in Free(Learned, learned) :
                              learned' = [counts EXCEPT ![l] =
                                [from |-> c, content |-> q.content, active |-> TRUE,
                                 helpful |-> 0, unhelpful |-> 0, edited |-> FALSE]]
                      ELSE learned' = counts
           ELSE learned' = counts /\ UNCHANGED candidate
        /\ request' = AfterCommit(r, IF message[q.row].rating = q.rating THEN {} ELSE RowsOf(q))
        /\ UNCHANGED <<form, sent, changed>>

-----------------------------------------------------------------------------
(* Short changes by others *)

Changes ==
    /\ changed < MaxChanges
    /\ changed' = changed + 1

(* A turn recalls active memories, counts their use and stores its answer. *)
Answer(m) ==
    /\ message[m] = NoRow
    /\ Changes
    /\ \E behind \in SUBSET {l \in ActiveRows : IsMemory(l)} :
          /\ \A l \in behind : RowFree(l)
          /\ message' = [message EXCEPT ![m] = [rating |-> "None", behind |-> behind]]
          /\ request' = AfterChange(behind)
    /\ UNCHANGED <<candidate, learned, form, sent>>

(* archive; disable and enable of a skill. An open form shows the old row. *)
Switch(l) ==
    /\ learned[l] # NoRow
    /\ learned[l].active \/ ~IsMemory(l)
    /\ RowFree(l)
    /\ Changes
    /\ learned' = [learned EXCEPT ![l].active = ~@]
    /\ request' = AfterChange({l})
    /\ form' = IF form # NoRow /\ form.row = l THEN NoRow ELSE form
    /\ UNCHANGED <<candidate, message, sent>>

(* A person edits a candidate's content on its form: the form is refused      *)
(* when the status is no longer the one it shows.                             *)
EditCandidate(c) ==
    /\ candidate[c] # NoRow
    /\ RowFree(c)
    /\ Changes
    /\ \E k \in Contents : candidate' = [candidate EXCEPT ![c].content = k]
    /\ request' = AfterChange({c})
    /\ UNCHANGED <<learned, message, form, sent>>

(* A memory's form is opened, and saved later: the counters it shows are      *)
(* written with the rest, for they were changed without a new modified time.  *)
OpenForm(l) ==
    /\ form = NoRow
    /\ learned[l] # NoRow /\ IsMemory(l)
    /\ Changes
    /\ form' = [row |-> l, helpful |-> learned[l].helpful, unhelpful |-> learned[l].unhelpful]
    /\ UNCHANGED <<candidate, learned, message, request, sent>>

SaveForm ==
    /\ form # NoRow
    /\ RowFree(form.row)
    /\ learned' = [learned EXCEPT ![form.row].helpful = form.helpful,
                                  ![form.row].unhelpful = form.unhelpful,
                                  ![form.row].edited = TRUE]
    /\ request' = AfterChange({form.row})
    /\ form' = NoRow
    /\ UNCHANGED <<candidate, message, sent, changed>>

-----------------------------------------------------------------------------

Init ==
    /\ candidate = [c \in Candidates |-> NoRow]
    /\ learned = [l \in Learned |-> NoRow]
    /\ message = [m \in Messages |-> NoRow]
    /\ request = [r \in Requests |-> Idle]
    /\ form = NoRow
    /\ sent = 0
    /\ changed = 0

Next ==
    \/ \E r \in Requests :
          \/ Teach(r) \/ ProcessCandidate(r) \/ ApproveCandidate(r)
          \/ RejectCandidate(r) \/ RecordFeedback(r)
          \/ LockRows(r) \/ RequestFails(r)
          \/ FinishTeach(r) \/ FinishProcess(r) \/ FinishApprove(r)
          \/ FinishReject(r) \/ FinishFeedback(r)
    \/ \E m \in Messages : Answer(m)
    \/ \E l \in Learned : Switch(l) \/ OpenForm(l)
    \/ \E c \in Candidates : EditCandidate(c)
    \/ SaveForm

Spec == Init /\ [][Next]_vars

-----------------------------------------------------------------------------
(* Properties *)

TypeOK ==
    /\ candidate \in [Candidates -> CandidateRow \cup {NoRow}]
    /\ learned \in [Learned -> LearnedRow \cup {NoRow}]
    /\ message \in [Messages -> MessageRow \cup {NoRow}]
    /\ request \in [Requests -> Request]
    /\ form \in [row: Learned, helpful: Int, unhelpful: Int] \cup {NoRow}
    /\ sent \in 0..MaxRequests
    /\ changed \in 0..MaxChanges

(* A candidate is learned exactly once when it is approved, and not at all    *)
(* otherwise, whatever clicks, retries and automatic approvals overlap        *)
(* (_approve_candidate, _find_promoted).                                      *)
LearnedOnce ==
    \A c \in Present(candidate) :
        Cardinality({l \in Present(learned) : learned[l].from = c})
            = IF candidate[c].status = "Approved" THEN 1 ELSE 0

(* The counters of a memory are the ratings of the answers behind which it    *)
(* was, however often and by whomever they were changed, as long as nobody    *)
(* saved the memory's form (_adjust_memory_feedback).                         *)
FeedbackCounted ==
    \A l \in Present(learned) : ~learned[l].edited =>
        LET rated(f) == {m \in Present(message) : l \in message[m].behind /\ message[m].rating = f}
        IN  /\ learned[l].helpful = Cardinality(rated("Positive"))
            /\ learned[l].unhelpful = Cardinality(rated("Negative"))

(* The same for every memory. A form that was open while answers were rated   *)
(* writes the old counters back.                                              *)
EveryRatingCounted ==
    \A l \in Present(learned) :
        LET rated(f) == {m \in Present(message) : l \in message[m].behind /\ message[m].rating = f}
        IN  /\ learned[l].helpful = Cardinality(rated("Positive"))
            /\ learned[l].unhelpful = Cardinality(rated("Negative"))

(* A decision is never changed: no processing that read the candidate before  *)
(* it was approved or rejected brings it back (process_candidate).            *)
DecisionFinal ==
    [][\A c \in Candidates :
          candidate[c] # NoRow /\ candidate[c].status \in Decided
              => candidate'[c].status = candidate[c].status]_vars

(* An answer that is rated badly again and again has one candidate            *)
(* (observe_feedback).                                                        *)
OneCandidatePerAnswer ==
    \A c, d \in Present(candidate) :
        candidate[c].about # NoRow /\ candidate[c].about = candidate[d].about => c = d
=============================================================================
