-------------------- MODULE LearningAndDownloads_proofs --------------------
(* Two components of the service that share nothing.  The learning loop: for  *)
(* any candidates, memories, answers and sessions, and any number of          *)
(* requests, a candidate is learned once and only when it was approved, a     *)
(* decision stays, and the counters of a memory are the ratings of its        *)
(* answers.  Downloads: for any catalog, dependencies, workers, requests and  *)
(* crashes, what is in use has its package on disk and is in use once, stays  *)
(* in use while jobs fail, and comes after what it depends on.                *)
EXTENDS LearningLoop, ResourceDownload, FiniteSetTheorems, TLAPS

-----------------------------------------------------------------------------
(* LearningLoop: the inductive invariant. *)
UnderWay(r) == request[r].pc \in {"open", "locked"}
Deciding == {"process", "approve", "reject"}

\* A request is about a row that exists.
Addressed ==
    \A r \in Requests : UnderWay(r) =>
        /\ request[r].op \in Deciding \cup {"teach", "rate"}
        /\ request[r].op \in Deciding =>
              request[r].row \in Candidates /\ candidate[request[r].row] # NoRow
        /\ request[r].op = "teach" => request[r].content \in Contents /\ request[r].row = NoRow
        /\ request[r].op = "rate" =>
              /\ request[r].row \in Messages /\ message[request[r].row] # NoRow
              /\ request[r].rating = "Negative" => request[r].content \in Contents

\* The lock of a row has one owner.
OneOwner ==
    \A r, s \in Requests :
        /\ request[r].pc = "locked" /\ request[s].pc = "locked"
        /\ request[r].row = request[s].row /\ request[r].row # NoRow
        => r = s

\* A decision that is about to be made is still open.
StillOpen ==
    \A r \in Requests :
        request[r].pc = "locked" /\ request[r].op \in Deciding =>
            candidate[request[r].row].status \in Undecided

\* Memories behind an answer, and of an open form, exist.
References ==
    /\ \A m \in Messages : message[m] # NoRow => \A l \in message[m].behind : learned[l] # NoRow
    /\ form # NoRow => learned[form.row] # NoRow

\* Where each learned row comes from, and how far each candidate is.
OriginOf(rows) == [l \in Learned |-> IF rows[l] = NoRow THEN NoRow ELSE rows[l].from]
Origin == OriginOf(learned)
Standing == [c \in Candidates |-> IF candidate[c] = NoRow THEN "None" ELSE candidate[c].status]

Standings == Undecided \cup Decided \cup {"None"}

\* Learned rows come from approved candidates, one from each.
OneOrigin(o, s) ==
    /\ \A l \in Learned : o[l] # NoRow => o[l] \in Candidates /\ s[o[l]] = "Approved"
    /\ \A k, l \in Learned : o[k] = o[l] /\ o[k] # NoRow => k = l
    /\ \A c \in Candidates : s[c] = "Approved" => \E l \in Learned : o[l] = c

IInv ==
    /\ TypeOK
    /\ Addressed
    /\ OneOwner
    /\ StillOpen
    /\ References
    /\ OneOrigin(Origin, Standing)

-----------------------------------------------------------------------------
(* Types. *)

LEMMA IdleType == Idle \in Request
  BY DEF Idle, Request, Grants, Ratings

LEMMA RowType ==
    ASSUME TypeOK
    PROVE  /\ \A c \in Candidates : candidate[c] # NoRow => candidate[c] \in CandidateRow
           /\ \A l \in Learned : learned[l] # NoRow => learned[l] \in LearnedRow
           /\ \A m \in Messages : message[m] # NoRow => message[m] \in MessageRow
           /\ \A r \in Requests : request[r] \in Request
           /\ form # NoRow => form \in [row: Learned, helpful: Int, unhelpful: Int]
  BY DEF TypeOK

LEMMA RowsOfType ==
    ASSUME TypeOK, Addressed, NEW r \in Requests, UnderWay(r)
    PROVE  RowsOf(request[r]) \subseteq Rows
<1> DEFINE q == request[r]
<1>1. q \in Request
  BY RowType
<1>2. q.row \in Rows \cup {NoRow}
  BY <1>1 DEF Request
<1>3. q.op = "rate" => Counted(q.row, q.rating) \subseteq Learned
  BY RowType DEF Addressed, Counted, MessageRow
<1> QED  BY <1>2, <1>3 DEF RowsOf, Rows

\* What the commit of another request leaves of a request.
LEMMA AfterFields ==
    ASSUME TypeOK, NEW rows \in SUBSET Rows
    PROVE  /\ AfterChange(rows) \in [Requests -> Request]
           /\ \A r \in Requests :
                /\ AfterChange(rows)[r].pc = request[r].pc
                /\ UnderWay(r) =>
                    /\ AfterChange(rows)[r].op = request[r].op
                    /\ AfterChange(rows)[r].row = request[r].row
                    /\ AfterChange(rows)[r].content = request[r].content
                    /\ AfterChange(rows)[r].rating = request[r].rating
<1>1. \A q \in Request : [q EXCEPT !.stale = @ \cup rows] \in Request
  BY DEF Request
<1>2. \A r \in Requests : request[r] \in Request
  BY RowType
<1>3. \A r \in Requests : AfterChange(rows)[r] =
          IF request[r].pc = "idle" THEN Idle ELSE [request[r] EXCEPT !.stale = @ \cup rows]
  BY DEF AfterChange
<1>4. AfterChange(rows) \in [Requests -> Request]
  BY <1>1, <1>2, IdleType DEF AfterChange
<1>5. ASSUME NEW r \in Requests
      PROVE  /\ AfterChange(rows)[r].pc = request[r].pc
             /\ UnderWay(r) =>
                    /\ AfterChange(rows)[r].op = request[r].op
                    /\ AfterChange(rows)[r].row = request[r].row
                    /\ AfterChange(rows)[r].content = request[r].content
                    /\ AfterChange(rows)[r].rating = request[r].rating
  <2>1. CASE request[r].pc = "idle"
    <3>1. AfterChange(rows)[r] = Idle /\ Idle.pc = "idle"
      BY <1>3, <2>1 DEF Idle
    <3> QED  BY <2>1, <3>1 DEF UnderWay
  <2>2. CASE request[r].pc # "idle"
    <3>1. request[r] \in Request /\ AfterChange(rows)[r] = [request[r] EXCEPT !.stale = @ \cup rows]
      BY <1>2, <1>3, <2>2
    <3> QED  BY <3>1 DEF Request
  <2> QED  BY <2>1, <2>2
<1> QED  BY <1>4, <1>5

-----------------------------------------------------------------------------
(* The requests, when rows change and one of them may end. *)

\* Candidates keep their row, and the status of those that are being decided.
LEMMA RequestsKept ==
    ASSUME IInv, NEW rows \in SUBSET Rows, NEW done \in SUBSET Requests,
           request' \in [Requests -> Request],
           \A r \in Requests \ done : request'[r] = AfterChange(rows)[r],
           \A r \in done : request'[r].pc = "idle",
           \A c \in Candidates : candidate[c] # NoRow => candidate'[c] # NoRow,
           \A m \in Messages : message[m] # NoRow => message'[m] # NoRow,
           \A r \in Requests \ done :
              request[r].pc = "locked" /\ request[r].op \in Deciding =>
                 candidate'[request[r].row].status = candidate[request[r].row].status
    PROVE  Addressed' /\ OneOwner' /\ StillOpen'
<1>1. TypeOK /\ Addressed /\ OneOwner /\ StillOpen
  BY DEF IInv
<1>2. \A r \in Requests \ done :
         /\ request'[r].pc = request[r].pc
         /\ UnderWay(r) =>
              /\ request'[r].op = request[r].op /\ request'[r].row = request[r].row
              /\ request'[r].content = request[r].content /\ request'[r].rating = request[r].rating
  BY <1>1, AfterFields
<1>3. Addressed'
  BY <1>1, <1>2 DEF Addressed, UnderWay
<1>4. OneOwner'
  BY <1>1, <1>2 DEF OneOwner, UnderWay
<1>5. StillOpen'
  BY <1>1, <1>2 DEF StillOpen, UnderWay
<1> QED  BY <1>3, <1>4, <1>5

\* No learned row comes or goes, and no candidate becomes approved or was.
LEMMA OriginKept ==
    ASSUME NEW o, NEW s, NEW t, OneOrigin(o, s),
           \A c \in Candidates : s[c] = "Approved" <=> t[c] = "Approved"
    PROVE  OneOrigin(o, t)
  BY DEF OneOrigin

\* An approved candidate gets its row.
LEMMA OriginNew ==
    ASSUME NEW o \in [Learned -> Candidates \cup {NoRow}], NEW s \in [Candidates -> Standings],
           OneOrigin(o, s),
           NEW c \in Candidates, s[c] # "Approved", NEW l \in Learned, o[l] = NoRow
    PROVE  OneOrigin([o EXCEPT ![l] = c], [s EXCEPT ![c] = "Approved"])
<1> DEFINE p == [o EXCEPT ![l] = c]
           t == [s EXCEPT ![c] = "Approved"]
<1>1. /\ p[l] = c /\ \A k \in Learned : k # l => p[k] = o[k]
      /\ t[c] = "Approved" /\ \A d \in Candidates : d # c => t[d] = s[d]
  OBVIOUS
<1>2. \A k \in Learned : o[k] # c
  BY LearningAssumption DEF OneOrigin
<1>3. c # NoRow
  BY LearningAssumption
<1> HIDE DEF p, t
<1>4. OneOrigin(p, t)
  <2>1. ASSUME NEW k \in Learned, p[k] # NoRow PROVE p[k] \in Candidates /\ t[p[k]] = "Approved"
    BY <1>1, <2>1 DEF OneOrigin
  <2>2. ASSUME NEW j \in Learned, NEW k \in Learned, p[j] = p[k], p[j] # NoRow PROVE j = k
    BY <1>1, <1>2, <2>2 DEF OneOrigin
  <2>3. ASSUME NEW d \in Candidates, t[d] = "Approved" PROVE \E k \in Learned : p[k] = d
    <3>1. CASE d = c
      BY <1>1, <3>1
    <3>2. CASE d # c
      <4>1. PICK k \in Learned : o[k] = d
        BY <1>1, <2>3, <3>2 DEF OneOrigin
      <4>2. k # l
        BY <4>1, LearningAssumption
      <4> QED  BY <1>1, <4>1, <4>2
    <3> QED  BY <3>1, <3>2
  <2> QED  BY <2>1, <2>2, <2>3 DEF OneOrigin
<1> QED  BY <1>4 DEF p, t

-----------------------------------------------------------------------------
LEMMA InitInv == Init => IInv
<1> SUFFICES ASSUME Init PROVE IInv
  OBVIOUS
<1>1. TypeOK
  BY IdleType, LearningAssumption DEF Init, TypeOK
<1>2. \A r \in Requests : request[r].pc = "idle"
  BY DEF Init, Idle
<1>3. Addressed /\ OneOwner /\ StillOpen
  BY <1>2 DEF Addressed, OneOwner, StillOpen, UnderWay
<1>4. References
  BY DEF Init, References
<1>5. /\ \A l \in Learned : Origin[l] = NoRow
      /\ \A c \in Candidates : Standing[c] = "None"
  BY DEF Init, Origin, OriginOf, Standing
<1>6. OneOrigin(Origin, Standing)
  BY <1>5 DEF OneOrigin
<1> QED  BY <1>1, <1>3, <1>4, <1>6 DEF IInv

-----------------------------------------------------------------------------
(* Requests open, lock their rows, and fail. *)

\* The rows stay; only one request changes.
LEMMA RowsKept ==
    ASSUME IInv, UNCHANGED <<candidate, learned, message, form>>
    PROVE  References' /\ OneOrigin(Origin, Standing)'
  BY DEF IInv, References, OneOrigin, Origin, Standing

LEMMA OpensInv ==
    ASSUME IInv, NEW r \in Requests, NEW q \in Request, Opens(r, q),
           q.op \in Deciding \cup {"teach", "rate"},
           q.op \in Deciding => q.row \in Candidates /\ candidate[q.row] # NoRow,
           q.op = "teach" => q.content \in Contents /\ q.row = NoRow,
           q.op = "rate" => /\ q.row \in Messages /\ message[q.row] # NoRow
                            /\ q.rating = "Negative" => q.content \in Contents
    PROVE  IInv'
<1> DEFINE x == [q EXCEPT !.pc = "open", !.known = ActiveContents]
<1>1. TypeOK /\ Addressed /\ OneOwner /\ StillOpen
  BY DEF IInv
<1>2. ActiveContents \subseteq Contents
  BY <1>1, RowType DEF ActiveContents, ActiveRows, Present, LearnedRow, TypeOK
<1>3. /\ x \in Request /\ x.pc = "open" /\ x.op = q.op /\ x.row = q.row
      /\ x.content = q.content /\ x.rating = q.rating
  BY <1>2 DEF Request
<1>4. /\ request' = [request EXCEPT ![r] = x] /\ sent < MaxRequests /\ sent' = sent + 1
      /\ UNCHANGED <<candidate, learned, message, form, changed>>
  BY DEF Opens
<1>5. request' \in [Requests -> Request]
  BY <1>1, <1>3, <1>4 DEF TypeOK
<1>6. request'[r] = x /\ \A s \in Requests : s # r => request'[s] = request[s]
  BY <1>1, <1>4 DEF TypeOK
<1> HIDE DEF x
<1>7. sent' \in 0..MaxRequests
  BY <1>1, <1>4, LearningAssumption DEF TypeOK
<1>8. TypeOK'
  BY <1>1, <1>4, <1>5, <1>7 DEF TypeOK
<1>9. Addressed'
  BY <1>1, <1>3, <1>4, <1>6 DEF Addressed, UnderWay
<1>10. OneOwner' /\ StillOpen'
  BY <1>1, <1>3, <1>4, <1>6 DEF OneOwner, StillOpen
<1> QED  BY <1>4, <1>8, <1>9, <1>10, RowsKept DEF IInv

LEMMA LockRowsInv ==
    ASSUME IInv, NEW r \in Requests, LockRows(r)
    PROVE  IInv'
<1> DEFINE q == request[r]
           x == [q EXCEPT !.pc = "locked"]
<1>1. TypeOK /\ Addressed /\ OneOwner /\ StillOpen /\ q \in Request
  BY RowType DEF IInv
<1>2. /\ x \in Request /\ x.pc = "locked" /\ x.op = q.op /\ x.row = q.row
      /\ x.content = q.content /\ x.rating = q.rating
  BY <1>1 DEF Request
<1>3. /\ q.pc = "open" /\ request' = [request EXCEPT ![r] = x]
      /\ UNCHANGED <<candidate, learned, message, form, sent, changed>>
  BY DEF LockRows
<1>4. request' \in [Requests -> Request]
  BY <1>1, <1>2, <1>3 DEF TypeOK
<1>5. request'[r] = x /\ \A s \in Requests : s # r => request'[s] = request[s]
  BY <1>1, <1>3 DEF TypeOK
<1>6. ASSUME NEW s \in Requests, request[s].pc = "locked", request[s].row = q.row, q.row # NoRow
      PROVE  FALSE
  <2>1. q.row \in RowsOf(q) /\ q.row \in RowsOf(request[s])
    BY <1>6 DEF RowsOf
  <2>2. RowFree(q.row)
    BY <2>1 DEF LockRows, CanLock
  <2> QED  BY <1>6, <2>1, <2>2 DEF RowFree, LockedBy
<1>7. q.op \in Deciding => candidate[q.row].status \in Undecided
  BY <1>1, <1>3 DEF LockRows, CanLock, Addressed, UnderWay
<1> HIDE DEF x, q
<1>8. TypeOK'
  BY <1>1, <1>3, <1>4 DEF TypeOK
<1>9. Addressed'
  BY <1>1, <1>2, <1>3, <1>5 DEF Addressed, UnderWay, q
<1>10. OneOwner'
  BY <1>1, <1>2, <1>5, <1>6 DEF OneOwner
<1>11. StillOpen'
  BY <1>1, <1>2, <1>3, <1>5, <1>7 DEF StillOpen
<1> QED  BY <1>3, <1>8, <1>9, <1>10, <1>11, RowsKept DEF IInv

LEMMA RequestFailsInv ==
    ASSUME IInv, NEW r \in Requests, RequestFails(r)
    PROVE  IInv'
<1>1. TypeOK /\ Addressed /\ OneOwner /\ StillOpen
  BY DEF IInv
<1>2. /\ request' = [request EXCEPT ![r] = Idle]
      /\ UNCHANGED <<candidate, learned, message, form, sent, changed>>
  BY DEF RequestFails
<1>3. /\ request' \in [Requests -> Request] /\ request'[r].pc = "idle"
      /\ \A s \in Requests : s # r => request'[s] = request[s]
  BY <1>1, <1>2, IdleType DEF TypeOK, Idle
<1>4. TypeOK'
  BY <1>1, <1>2, <1>3 DEF TypeOK
<1>5. Addressed' /\ OneOwner' /\ StillOpen'
  BY <1>1, <1>2, <1>3 DEF Addressed, OneOwner, StillOpen, UnderWay
<1> QED  BY <1>2, <1>4, <1>5, RowsKept DEF IInv

-----------------------------------------------------------------------------
(* Requests are sent. *)

LEMMA IdleFields ==
    /\ Idle.op = "none" /\ Idle.row = NoRow /\ Idle.content = NoRow
    /\ Idle.grant = "nobody" /\ Idle.rating = "None"
  BY DEF Idle

LEMMA TeachInv ==
    ASSUME IInv, NEW r \in Requests, Teach(r)
    PROVE  IInv'
<1>1. PICK k \in Contents, g \in {"nobody", "policy", "manager"} :
         Opens(r, [Idle EXCEPT !.op = "teach", !.content = k, !.grant = g])
  BY DEF Teach
<1> DEFINE q == [Idle EXCEPT !.op = "teach", !.content = k, !.grant = g]
<1>2. q \in Request /\ q.op = "teach" /\ q.content = k /\ q.row = NoRow
  BY IdleType, IdleFields DEF Request, Grants
<1>3. Opens(r, q)
  BY <1>1
<1> HIDE DEF q
<1> QED  BY <1>2, <1>3, OpensInv DEF Deciding

LEMMA SendInv ==
    ASSUME IInv, NEW r \in Requests, NEW op \in Deciding, NEW c \in Present(candidate),
           NEW g \in Grants,
           Opens(r, [Idle EXCEPT !.op = op, !.row = c, !.grant = g])
    PROVE  IInv'
<1> DEFINE q == [Idle EXCEPT !.op = op, !.row = c, !.grant = g]
<1>1. c \in Candidates /\ candidate[c] # NoRow
  BY DEF Present, IInv, TypeOK
<1>2. q \in Request /\ q.op = op /\ q.row = c
  BY <1>1, IdleType, IdleFields DEF Request, Rows, Deciding
<1>3. Opens(r, q)
  OBVIOUS
<1> HIDE DEF q
<1> QED  BY <1>1, <1>2, <1>3, OpensInv DEF Deciding

LEMMA DecideInv ==
    ASSUME IInv, NEW r \in Requests,
           ProcessCandidate(r) \/ ApproveCandidate(r) \/ RejectCandidate(r)
    PROVE  IInv'
<1>1. CASE ProcessCandidate(r)
  <2>1. PICK c \in Present(candidate), g \in {"nobody", "policy"} :
           Opens(r, [Idle EXCEPT !.op = "process", !.row = c, !.grant = g])
    BY <1>1 DEF ProcessCandidate
  <2>2. "process" \in Deciding /\ g \in Grants
    BY DEF Deciding, Grants
  <2> QED  BY <2>1, <2>2, SendInv
<1>2. CASE ApproveCandidate(r)
  <2>1. PICK c \in Present(candidate), g \in {"manager", "notes"} :
           Opens(r, [Idle EXCEPT !.op = "approve", !.row = c, !.grant = g])
    BY <1>2 DEF ApproveCandidate
  <2>2. "approve" \in Deciding /\ g \in Grants
    BY DEF Deciding, Grants
  <2> QED  BY <2>1, <2>2, SendInv
<1>3. CASE RejectCandidate(r)
  <2>1. PICK c \in Present(candidate) :
           Opens(r, [Idle EXCEPT !.op = "reject", !.row = c])
    BY <1>3 DEF RejectCandidate
  <2> DEFINE q == [Idle EXCEPT !.op = "reject", !.row = c]
  <2>2. c \in Candidates /\ candidate[c] # NoRow
    BY DEF Present, IInv, TypeOK
  <2>3. q \in Request /\ q.op = "reject" /\ q.row = c
    BY <2>2, IdleType, IdleFields DEF Request, Rows
  <2>4. Opens(r, q)
    BY <2>1
  <2> HIDE DEF q
  <2> QED  BY <2>2, <2>3, <2>4, OpensInv DEF Deciding
<1> QED  BY <1>1, <1>2, <1>3

LEMMA RateInv ==
    ASSUME IInv, NEW r \in Requests, RecordFeedback(r)
    PROVE  IInv'
<1>1. PICK m \in Present(message) :
         \/ \E f \in Ratings \ {"Negative"} :
               Opens(r, [Idle EXCEPT !.op = "rate", !.row = m, !.rating = f])
         \/ \E k \in Contents, g \in {"nobody", "policy", "denied"} :
               Opens(r, [Idle EXCEPT !.op = "rate", !.row = m, !.rating = "Negative",
                                     !.content = k, !.grant = g,
                                     !.taught = \E c \in Present(candidate) : candidate[c].about = m])
  BY DEF RecordFeedback
<1>2. m \in Messages /\ message[m] # NoRow /\ m \in Rows
  BY DEF Present, IInv, TypeOK, Rows
<1>3. ASSUME NEW f \in Ratings \ {"Negative"},
             Opens(r, [Idle EXCEPT !.op = "rate", !.row = m, !.rating = f])
      PROVE  IInv'
  <2> DEFINE q == [Idle EXCEPT !.op = "rate", !.row = m, !.rating = f]
  <2>1. q \in Request /\ q.op = "rate" /\ q.row = m /\ q.rating # "Negative"
    BY <1>2, <1>3, IdleType, IdleFields DEF Request, Ratings
  <2>2. Opens(r, q)
    BY <1>3
  <2> HIDE DEF q
  <2> QED  BY <1>2, <2>1, <2>2, OpensInv DEF Deciding
<1>4. ASSUME NEW k \in Contents, NEW g \in {"nobody", "policy", "denied"}, NEW b \in BOOLEAN,
             Opens(r, [Idle EXCEPT !.op = "rate", !.row = m, !.rating = "Negative",
                                   !.content = k, !.grant = g, !.taught = b])
      PROVE  IInv'
  <2> DEFINE q == [Idle EXCEPT !.op = "rate", !.row = m, !.rating = "Negative",
                               !.content = k, !.grant = g, !.taught = b]
  <2>1. q \in Request /\ q.op = "rate" /\ q.row = m /\ q.content = k
    BY <1>2, IdleType, IdleFields DEF Request, Ratings, Grants
  <2>2. Opens(r, q)
    BY <1>4
  <2> HIDE DEF q
  <2> QED  BY <1>2, <2>1, <2>2, OpensInv DEF Deciding
<1>5. (\E c \in Present(candidate) : candidate[c].about = m) \in BOOLEAN
  OBVIOUS
<1> QED  BY <1>1, <1>3, <1>4, <1>5

-----------------------------------------------------------------------------
(* Candidates are created and decided. *)

NewMemory(c, k) ==
    [from |-> c, content |-> k, active |-> TRUE, helpful |-> 0, unhelpful |-> 0, edited |-> FALSE]

\* The learned rows after candidate c got a status, when its memory is added to base.
Grown(base, c, k, status) ==
    IF status = "Approved"
    THEN \E l \in Learned : base[l] = NoRow /\ learned' = [base EXCEPT ![l] = NewMemory(c, k)]
    ELSE learned' = base

\* An approved candidate gets its learned row, another leaves the rows to base.
LEMMA Learns ==
    ASSUME IInv, NEW base \in [Learned -> LearnedRow \cup {NoRow}], OriginOf(base) = Origin,
           NEW c \in Candidates, NEW k \in Contents, NEW status \in Undecided \cup Decided,
           Standing[c] # "Approved", Standing' = [Standing EXCEPT ![c] = status],
           Grown(base, c, k, status)
    PROVE  /\ learned' \in [Learned -> LearnedRow \cup {NoRow}]
           /\ OneOrigin(Origin, Standing)'
           /\ \A l \in Learned : learned[l] # NoRow => learned'[l] # NoRow
<1>1. NewMemory(c, k) \in LearnedRow /\ NewMemory(c, k).from = c
  BY DEF NewMemory, LearnedRow
<1>2. TypeOK /\ OneOrigin(Origin, Standing)
  BY DEF IInv
<1>3. \A l \in Learned : base[l] = NoRow <=> learned[l] = NoRow
  <2> SUFFICES ASSUME NEW l \in Learned PROVE base[l] = NoRow <=> learned[l] = NoRow
    OBVIOUS
  <2>1. OriginOf(base)[l] = OriginOf(learned)[l]
    BY DEF Origin
  <2>2. base[l] # NoRow => base[l].from # NoRow
    BY LearningAssumption DEF LearnedRow
  <2>3. learned[l] # NoRow => learned[l].from # NoRow
    BY <1>2, RowType, LearningAssumption DEF LearnedRow
  <2> QED  BY <2>1, <2>2, <2>3 DEF OriginOf
<1>4. Origin \in [Learned -> Candidates \cup {NoRow}]
  BY <1>2, RowType DEF Origin, OriginOf, LearnedRow
<1>5. Standing \in [Candidates -> Standings]
  <2> SUFFICES ASSUME NEW d \in Candidates
               PROVE  (IF candidate[d] = NoRow THEN "None" ELSE candidate[d].status) \in Standings
    BY DEF Standing
  <2>1. candidate[d] # NoRow => candidate[d].status \in Undecided \cup Decided
    BY <1>2, RowType DEF CandidateRow
  <2> QED  BY <2>1 DEF Standings
<1>6. CASE status = "Approved"
  <2>1. PICK l \in Learned : base[l] = NoRow /\ learned' = [base EXCEPT ![l] = NewMemory(c, k)]
    BY <1>6 DEF Grown
  <2>2. learned' \in [Learned -> LearnedRow \cup {NoRow}]
    BY <1>1, <2>1
  <2>3. NewMemory(c, k) # NoRow
    BY <1>1, RowsAssumption
  <2>4. \A j \in Learned : learned[j] # NoRow => learned'[j] # NoRow
    BY <1>3, <2>1, <2>3
  <2>5. Origin[l] = NoRow
    BY <1>3, <2>1 DEF Origin, OriginOf
  <2>6. Origin' = [Origin EXCEPT ![l] = c]
    <3>1. Origin' = OriginOf(learned')
      BY DEF Origin
    <3>2. OriginOf(learned') = [OriginOf(base) EXCEPT ![l] = c]
      BY <1>1, <2>1, <2>3 DEF OriginOf
    <3> QED  BY <3>1, <3>2
  <2>7. OneOrigin([Origin EXCEPT ![l] = c], [Standing EXCEPT ![c] = "Approved"])
    BY <1>2, <1>4, <1>5, <2>5, OriginNew
  <2>8. OneOrigin(Origin', Standing')
    BY <1>6, <2>6, <2>7
  <2> QED  BY <2>2, <2>4, <2>8 DEF OneOrigin
<1>7. CASE status # "Approved"
  <2>1. learned' = base
    BY <1>7 DEF Grown
  <2>2. Origin' = Origin
    BY <2>1 DEF Origin
  <2>3. \A d \in Candidates : Standing[d] = "Approved" <=> Standing'[d] = "Approved"
    BY <1>5, <1>7
  <2>4. OneOrigin(Origin, Standing')
    <3> HIDE DEF Standing
    <3> QED  BY <1>2, <2>3 DEF OneOrigin
  <2> QED  BY <1>3, <2>1, <2>2, <2>4 DEF OneOrigin
<1> QED  BY <1>6, <1>7

\* A request ends with a decision on the candidate it has locked.
LEMMA DecisionInv ==
    ASSUME IInv, NEW r \in Requests, NEW c \in Candidates, NEW status \in Undecided \cup Decided,
           request[r].pc = "locked", request[r].op \in Deciding, request[r].row = c,
           candidate' = [candidate EXCEPT ![c].status = status],
           Promote(c, candidate[c].content, status),
           request' = AfterCommit(r, {c}),
           UNCHANGED <<message, form, sent, changed>>
    PROVE  IInv'
<1>1. TypeOK /\ Addressed /\ OneOwner /\ StillOpen /\ References
  BY DEF IInv
<1>2. candidate[c] # NoRow /\ candidate[c].status \in Undecided
  BY <1>1 DEF Addressed, StillOpen, UnderWay
<1> DEFINE row == [candidate[c] EXCEPT !.status = status]
<1>3. candidate[c] \in CandidateRow
  BY <1>1, <1>2, RowType
<1>4. row \in CandidateRow /\ row.status = status /\ row # NoRow
  BY <1>3, RowsAssumption DEF CandidateRow
<1>5. /\ candidate' = [candidate EXCEPT ![c] = row]
      /\ candidate \in [Candidates -> CandidateRow \cup {NoRow}]
  BY <1>1 DEF TypeOK
<1>6. /\ candidate' \in [Candidates -> CandidateRow \cup {NoRow}]
      /\ candidate'[c] = row /\ \A d \in Candidates : d # c => candidate'[d] = candidate[d]
  BY <1>4, <1>5
<1>7. Standing' = [Standing EXCEPT ![c] = status] /\ Standing[c] # "Approved"
  BY <1>2, <1>4, <1>6 DEF Standing, Undecided
<1>8. candidate[c].content \in Contents
  BY <1>3 DEF CandidateRow
<1>9. OriginOf(learned) = Origin /\ learned \in [Learned -> LearnedRow \cup {NoRow}]
  BY <1>1 DEF Origin, TypeOK
<1>10. Grown(learned, c, candidate[c].content, status)
  BY DEF Grown, Promote, Free, NewMemory
<1>12. /\ learned' \in [Learned -> LearnedRow \cup {NoRow}]
       /\ OneOrigin(Origin, Standing)'
       /\ \A l \in Learned : learned[l] # NoRow => learned'[l] # NoRow
  BY <1>7, <1>8, <1>9, <1>10, Learns
<1>13. {c} \in SUBSET Rows
  BY DEF Rows
<1>14. /\ request' \in [Requests -> Request] /\ request'[r].pc = "idle"
       /\ \A s \in Requests : s # r => request'[s] = AfterChange({c})[s]
  BY <1>1, <1>13, IdleType, AfterFields DEF AfterCommit, Idle
<1>15. \A s \in Requests \ {r} : request[s].pc = "locked" => request[s].row # c
  BY <1>1, LearningAssumption DEF OneOwner
<1> HIDE DEF row
<1>16. Addressed' /\ OneOwner' /\ StillOpen'
  <2>1. \A s \in Requests \ {r} :
            request[s].pc = "locked" /\ request[s].op \in Deciding =>
                 candidate'[request[s].row].status = candidate[request[s].row].status
    BY <1>1, <1>6, <1>15 DEF Addressed, UnderWay
  <2>2. \A d \in Candidates : candidate[d] # NoRow => candidate'[d] # NoRow
    BY <1>4, <1>6
  <2>3. /\ {r} \in SUBSET Requests
        /\ \A s \in Requests \ {r} : request'[s] = AfterChange({c})[s]
        /\ \A s \in {r} : request'[s].pc = "idle"
    BY <1>14
  <2>4. \A m \in Messages : message[m] # NoRow => message'[m] # NoRow
    OBVIOUS
  <2> QED  BY <1>13, <1>14, <2>1, <2>2, <2>3, <2>4, RequestsKept
<1>17. TypeOK'
  BY <1>1, <1>6, <1>12, <1>14 DEF TypeOK
<1>18. References'
  <2>1. form # NoRow => form.row \in Learned
    BY <1>1, RowType
  <2>2. \A m \in Messages : message[m] # NoRow => message[m].behind \subseteq Learned
    BY <1>1, RowType DEF MessageRow
  <2> QED  BY <1>1, <1>12, <2>1, <2>2 DEF References
<1> QED  BY <1>12, <1>16, <1>17, <1>18 DEF IInv

\* The invariant after a step that keeps what the requests in flight rely on.
LEMMA StepInv ==
    ASSUME IInv, NEW rows \in SUBSET Rows, NEW done \in SUBSET Requests,
           request' \in [Requests -> Request],
           \A r \in Requests \ done : request'[r] = AfterChange(rows)[r],
           \A r \in done : request'[r].pc = "idle",
           candidate' \in [Candidates -> CandidateRow \cup {NoRow}],
           \A c \in Candidates : candidate[c] # NoRow =>
              candidate'[c] # NoRow /\ candidate'[c].status = candidate[c].status,
           learned' \in [Learned -> LearnedRow \cup {NoRow}],
           \A l \in Learned : learned[l] # NoRow => learned'[l] # NoRow,
           OneOrigin(Origin', Standing'),
           message' \in [Messages -> MessageRow \cup {NoRow}],
           \A m \in Messages : message[m] # NoRow => message'[m] # NoRow,
           \A m \in Messages : message'[m] # NoRow =>
              \A l \in message'[m].behind : learned'[l] # NoRow,
           form' \in [row: Learned, helpful: Int, unhelpful: Int] \cup {NoRow},
           form' # NoRow => learned'[form'.row] # NoRow,
           sent' = sent, changed' \in 0..MaxChanges
    PROVE  IInv'
<1>1. TypeOK'
  BY DEF IInv, TypeOK
<1>2. References'
  BY DEF References
<1>3. OneOrigin(Origin, Standing)'
  BY DEF OneOrigin
<1>4. \A r \in Requests \ done :
          request[r].pc = "locked" /\ request[r].op \in Deciding =>
             candidate'[request[r].row].status = candidate[request[r].row].status
  BY DEF IInv, Addressed, UnderWay
<1>5. Addressed' /\ OneOwner' /\ StillOpen'
  BY <1>4, RequestsKept
<1> QED  BY <1>1, <1>2, <1>3, <1>5 DEF IInv

\* The same for the end of a request.
LEMMA CommitFields ==
    ASSUME TypeOK, NEW r \in Requests, NEW rows \in SUBSET Rows, request' = AfterCommit(r, rows)
    PROVE  /\ request' \in [Requests -> Request]
           /\ \A s \in Requests \ {r} : request'[s] = AfterChange(rows)[s]
           /\ \A s \in {r} : request'[s].pc = "idle"
  BY IdleType, AfterFields DEF AfterCommit, Idle

\* What References says of the rows that a step leaves alone.
LEMMA Referred ==
    ASSUME IInv, \A l \in Learned : learned[l] # NoRow => learned'[l] # NoRow
    PROVE  /\ \A m \in Messages : message[m] # NoRow =>
                  \A l \in message[m].behind : learned'[l] # NoRow
           /\ form \in [row: Learned, helpful: Int, unhelpful: Int] \cup {NoRow}
           /\ form # NoRow => learned'[form.row] # NoRow
<1>1. TypeOK /\ References
  BY DEF IInv
<1>2. \A m \in Messages : message[m] # NoRow => message[m].behind \subseteq Learned
  BY <1>1, RowType DEF MessageRow
<1>3. form # NoRow => form.row \in Learned
  BY <1>1, RowType
<1> QED  BY <1>1, <1>2, <1>3 DEF References, TypeOK

-----------------------------------------------------------------------------
(* Requests end. *)

LEMMA ProcessedType ==
    ASSUME NEW q, NEW k
    PROVE  Processed(q, k) \in Undecided \cup Decided
  BY DEF Processed, Undecided, Decided

LEMMA FinishProcessInv ==
    ASSUME IInv, NEW r \in Requests, FinishProcess(r)
    PROVE  IInv'
<1> DEFINE c == request[r].row
           k == candidate[c].content
<1>1. PICK status \in {"Draft", Processed(request[r], k)} :
         candidate' = [candidate EXCEPT ![c].status = status] /\ Promote(c, k, status)
  BY DEF FinishProcess
<1>2. status \in Undecided \cup Decided
  BY ProcessedType DEF Undecided
<1>3. /\ request[r].pc = "locked" /\ request[r].op \in Deciding
      /\ request' = AfterCommit(r, {c}) /\ UNCHANGED <<message, form, sent, changed>>
  BY DEF FinishProcess, Deciding
<1>4. c \in Candidates
  BY <1>3 DEF IInv, Addressed, UnderWay
<1> HIDE DEF c
<1> QED  BY <1>1, <1>2, <1>3, <1>4, DecisionInv DEF c

LEMMA FinishApproveInv ==
    ASSUME IInv, NEW r \in Requests, FinishApprove(r)
    PROVE  IInv'
<1> DEFINE c == request[r].row
<1>1. /\ candidate' = [candidate EXCEPT ![c].status = "Approved"]
      /\ Promote(c, candidate[c].content, "Approved")
      /\ request[r].pc = "locked" /\ request[r].op \in Deciding
      /\ request' = AfterCommit(r, {c}) /\ UNCHANGED <<message, form, sent, changed>>
  BY DEF FinishApprove, Deciding
<1>2. "Approved" \in Undecided \cup Decided
  BY DEF Decided
<1>3. c \in Candidates
  BY <1>1 DEF IInv, Addressed, UnderWay
<1> HIDE DEF c
<1> QED  BY <1>1, <1>2, <1>3, DecisionInv DEF c

LEMMA FinishRejectInv ==
    ASSUME IInv, NEW r \in Requests, FinishReject(r)
    PROVE  IInv'
<1> DEFINE c == request[r].row
<1>1. /\ candidate' = [candidate EXCEPT ![c].status = "Rejected"]
      /\ Promote(c, candidate[c].content, "Rejected")
      /\ request[r].pc = "locked" /\ request[r].op \in Deciding
      /\ request' = AfterCommit(r, {c}) /\ UNCHANGED <<message, form, sent, changed>>
  BY DEF FinishReject, Deciding, Promote
<1>2. "Rejected" \in Undecided \cup Decided
  BY DEF Decided
<1>3. c \in Candidates
  BY <1>1 DEF IInv, Addressed, UnderWay
<1> HIDE DEF c
<1> QED  BY <1>1, <1>2, <1>3, DecisionInv DEF c

\* A new candidate, and the memory that its approval adds to base.
LEMMA CreationInv ==
    ASSUME IInv, NEW base \in [Learned -> LearnedRow \cup {NoRow}], OriginOf(base) = Origin,
           NEW r \in Requests, NEW rows \in SUBSET Rows,
           NEW c \in Candidates, candidate[c] = NoRow,
           NEW k \in Contents, NEW about \in Messages \cup {NoRow},
           NEW status \in Undecided \cup Decided,
           candidate' = [candidate EXCEPT ![c] = [status |-> status, content |-> k, about |-> about]],
           Grown(base, c, k, status),
           message' \in [Messages -> MessageRow \cup {NoRow}],
           \A m \in Messages : message[m] # NoRow <=> message'[m] # NoRow,
           \A m \in Messages : message[m] # NoRow => message'[m].behind = message[m].behind,
           request' = AfterCommit(r, rows),
           UNCHANGED <<form, sent, changed>>
    PROVE  IInv'
<1> DEFINE row == [status |-> status, content |-> k, about |-> about]
<1>1. row \in CandidateRow /\ row.status = status
  BY DEF CandidateRow
<1>2. row # NoRow
  BY <1>1, RowsAssumption
<1>3. candidate' = [candidate EXCEPT ![c] = row] /\ TypeOK
  BY DEF IInv
<1> HIDE DEF row
<1>4. /\ candidate' \in [Candidates -> CandidateRow \cup {NoRow}]
      /\ candidate'[c] = row /\ \A d \in Candidates : d # c => candidate'[d] = candidate[d]
  BY <1>1, <1>3 DEF TypeOK
<1>5. Standing' = [Standing EXCEPT ![c] = status] /\ Standing[c] # "Approved"
  BY <1>1, <1>2, <1>4 DEF Standing
<1>6. /\ learned' \in [Learned -> LearnedRow \cup {NoRow}]
      /\ OneOrigin(Origin, Standing)'
      /\ \A l \in Learned : learned[l] # NoRow => learned'[l] # NoRow
  BY <1>5, Learns
<1>7. OneOrigin(Origin', Standing')
  BY <1>6 DEF OneOrigin
<1>8. \A d \in Candidates : candidate[d] # NoRow =>
          candidate'[d] # NoRow /\ candidate'[d].status = candidate[d].status
  BY <1>4
<1>9. /\ \A m \in Messages : message'[m] # NoRow =>
            \A l \in message'[m].behind : learned'[l] # NoRow
      /\ form' \in [row: Learned, helpful: Int, unhelpful: Int] \cup {NoRow}
      /\ form' # NoRow => learned'[form'.row] # NoRow
  BY <1>6, Referred
<1>10. /\ {r} \in SUBSET Requests
       /\ sent' = sent /\ changed' \in 0..MaxChanges
       /\ \A m \in Messages : message[m] # NoRow => message'[m] # NoRow
  BY <1>3 DEF TypeOK
<1> QED  BY <1>3, <1>4, <1>6, <1>7, <1>8, <1>9, <1>10, CommitFields, StepInv, ZenonT(30)

LEMMA FinishTeachInv ==
    ASSUME IInv, NEW r \in Requests, FinishTeach(r)
    PROVE  IInv'
<1> DEFINE k == request[r].content
<1>1. /\ request[r].pc = "locked" /\ request[r].op = "teach" /\ Creates(request[r], NoRow)
      /\ request' = AfterCommit(r, {}) /\ UNCHANGED <<message, form, sent, changed>>
  BY DEF FinishTeach
<1>2. PICK c \in Free(Candidates, candidate), status \in {"Draft", Processed(request[r], k)} :
         /\ candidate' = [candidate EXCEPT ![c] = [status |-> status, content |-> k, about |-> NoRow]]
         /\ Promote(c, k, status)
  BY <1>1 DEF Creates
<1>3. c \in Candidates /\ candidate[c] = NoRow
  BY DEF Free
<1>4. status \in Undecided \cup Decided
  BY ProcessedType DEF Undecided
<1>5. Grown(learned, c, k, status)
  BY <1>2 DEF Grown, Promote, Free, NewMemory
<1>6. k \in Contents
  BY <1>1 DEF IInv, Addressed, UnderWay
<1>7. /\ learned \in [Learned -> LearnedRow \cup {NoRow}] /\ OriginOf(learned) = Origin
      /\ message' \in [Messages -> MessageRow \cup {NoRow}] /\ message' = message
  BY <1>1 DEF IInv, TypeOK, Origin
<1>8. {} \in SUBSET Rows /\ NoRow \in Messages \cup {NoRow}
  OBVIOUS
<1> HIDE DEF k
<1> QED  BY <1>1, <1>2, <1>3, <1>4, <1>5, <1>6, <1>7, <1>8, CreationInv

\* The counters move; where a row comes from does not.
LEMMA RecountedRows ==
    ASSUME IInv, NEW m \in Messages, message[m] # NoRow, NEW rating \in Ratings
    PROVE  /\ Recounted(m, rating) \in [Learned -> LearnedRow \cup {NoRow}]
           /\ OriginOf(Recounted(m, rating)) = Origin
           /\ \A l \in Learned : learned[l] # NoRow <=> Recounted(m, rating)[l] # NoRow
<1> DEFINE counts == Recounted(m, rating)
<1>0. TypeOK /\ References
  BY DEF IInv
<1>1. ASSUME NEW l \in Learned
      PROVE  /\ l \in Counted(m, rating) => learned[l] # NoRow
             /\ counts[l] = IF l \in Counted(m, rating)
                            THEN Adjusted(learned[l], message[m].rating, rating) ELSE learned[l]
  <2>1. l \in Counted(m, rating) => l \in message[m].behind
    BY DEF Counted
  <2> QED  BY <1>0, <2>1 DEF Recounted, References
<1>2. ASSUME NEW l \in Learned, learned[l] # NoRow, NEW old
      PROVE  /\ Adjusted(learned[l], old, rating) \in LearnedRow
             /\ Adjusted(learned[l], old, rating).from = learned[l].from
  <2>1. learned[l] \in LearnedRow
    BY <1>2, RowType DEF IInv
  <2>2. \A f \in {"Positive", "Negative"} : One(old, rating, f) \in Int
    BY DEF One
  <2> DEFINE floor(n) == IF n < 0 THEN 0 ELSE n
             h == floor(learned[l].helpful + One(old, rating, "Positive"))
             u == floor(learned[l].unhelpful + One(old, rating, "Negative"))
  <2>3. h \in Int /\ u \in Int
    BY <2>1, <2>2 DEF LearnedRow
  <2>4. Adjusted(learned[l], old, rating) = [learned[l] EXCEPT !.helpful = h, !.unhelpful = u]
    BY <2>1 DEF Adjusted, LearnedRow
  <2> HIDE DEF h, u
  <2> QED  BY <2>1, <2>3, <2>4 DEF LearnedRow
<1>3. ASSUME NEW l \in Learned
      PROVE  /\ learned[l] = NoRow => counts[l] = NoRow
             /\ learned[l] # NoRow => counts[l] \in LearnedRow /\ counts[l].from = learned[l].from
  <2>1. learned[l] # NoRow => learned[l] \in LearnedRow
    BY RowType DEF IInv
  <2> QED  BY <1>1, <1>2, <2>1
<1>4. counts \in [Learned -> LearnedRow \cup {NoRow}]
  <2>1. counts = [l \in Learned |-> counts[l]]
    BY DEF Recounted
  <2> HIDE DEF counts
  <2> QED  BY <1>3, <2>1
<1>5. \A l \in Learned : learned[l] # NoRow <=> counts[l] # NoRow
  BY <1>3, RowsAssumption
<1>6. OriginOf(counts) = Origin
  <2> HIDE DEF counts
  <2> QED  BY <1>3, <1>5 DEF OriginOf, Origin
<1> QED  BY <1>4, <1>5, <1>6

LEMMA FinishFeedbackInv ==
    ASSUME IInv, NEW r \in Requests, FinishFeedback(r)
    PROVE  IInv'
<1> DEFINE m == request[r].row
           k == request[r].content
           counts == Recounted(m, request[r].rating)
           rows == IF message[m].rating = request[r].rating THEN {} ELSE RowsOf(request[r])
<1>1. /\ request[r].pc = "locked" /\ request[r].op = "rate"
      /\ message' = [message EXCEPT ![m].rating = request[r].rating]
      /\ request' = AfterCommit(r, rows) /\ UNCHANGED <<form, sent, changed>>
  BY DEF FinishFeedback
<1>2. TypeOK /\ Addressed /\ request[r] \in Request
  BY RowType DEF IInv
<1>3. /\ m \in Messages /\ message[m] # NoRow
      /\ request[r].rating = "Negative" => k \in Contents
      /\ request[r].rating \in Ratings
  BY <1>1, <1>2 DEF Addressed, UnderWay, Request
<1>4. rows \in SUBSET Rows
  BY <1>1, <1>2, RowsOfType DEF UnderWay
<1>5. /\ counts \in [Learned -> LearnedRow \cup {NoRow}] /\ OriginOf(counts) = Origin
      /\ \A l \in Learned : learned[l] # NoRow <=> counts[l] # NoRow
  BY <1>3, RecountedRows
<1>6. /\ message' \in [Messages -> MessageRow \cup {NoRow}]
      /\ \A n \in Messages : message[n] # NoRow <=> message'[n] # NoRow
      /\ \A n \in Messages : message[n] # NoRow => message'[n].behind = message[n].behind
  <2> DEFINE new == [message[m] EXCEPT !.rating = request[r].rating]
  <2>1. message[m] \in MessageRow
    BY <1>2, <1>3, RowType
  <2>2. new \in MessageRow /\ new.behind = message[m].behind
    BY <1>3, <2>1 DEF MessageRow
  <2>3. new # NoRow
    BY <2>2, RowsAssumption
  <2>4. message' = [message EXCEPT ![m] = new] /\ message \in [Messages -> MessageRow \cup {NoRow}]
    BY <1>1, <1>2 DEF TypeOK
  <2> HIDE DEF new
  <2>5. message'[m] = new /\ \A n \in Messages : n # m => message'[n] = message[n]
    BY <1>3, <2>4
  <2> QED  BY <1>3, <2>2, <2>3, <2>4, <2>5
<1>7. CASE Teaches(request[r])
  <2>1. PICK c \in Free(Candidates, candidate), status \in {"Draft", Processed(request[r], k)} :
           /\ candidate' = [candidate EXCEPT ![c] = [status |-> status, content |-> k, about |-> m]]
           /\ IF status = "Approved"
              THEN \E l \in Free(Learned, learned) : learned' = [counts EXCEPT ![l] = NewMemory(c, k)]
              ELSE learned' = counts
    BY <1>7 DEF FinishFeedback, NewMemory
  <2>2. c \in Candidates /\ candidate[c] = NoRow
    BY DEF Free
  <2>3. status \in Undecided \cup Decided
    BY ProcessedType DEF Undecided
  <2>4. k \in Contents
    BY <1>3, <1>7 DEF Teaches
  <2>5. \A l \in Free(Learned, learned) : counts[l] = NoRow
    BY <1>5 DEF Free
  <2>6. Grown(counts, c, k, status)
    BY <2>1, <2>5 DEF Grown, Free
  <2>7. m \in Messages \cup {NoRow}
    BY <1>3
  <2> HIDE DEF m, k, counts, rows
  <2> QED  BY <1>1, <1>4, <1>5, <1>6, <2>1, <2>2, <2>3, <2>4, <2>6, <2>7, CreationInv
<1>8. CASE ~Teaches(request[r])
  <2>1. learned' = counts /\ candidate' = candidate
    BY <1>8 DEF FinishFeedback
  <2>2. Origin' = Origin /\ Standing' = Standing
    BY <1>5, <2>1 DEF Origin, Standing
  <2>3. OneOrigin(Origin', Standing')
    BY <2>2 DEF IInv
  <2> HIDE DEF m, k, counts, rows
  <2>4. /\ \A n \in Messages : message'[n] # NoRow =>
              \A l \in message'[n].behind : learned'[l] # NoRow
        /\ form' \in [row: Learned, helpful: Int, unhelpful: Int] \cup {NoRow}
        /\ form' # NoRow => learned'[form'.row] # NoRow
    BY <1>1, <1>5, <1>6, <2>1, Referred
  <2>5. /\ {r} \in SUBSET Requests /\ sent' = sent /\ changed' \in 0..MaxChanges
        /\ candidate' \in [Candidates -> CandidateRow \cup {NoRow}]
        /\ learned' \in [Learned -> LearnedRow \cup {NoRow}]
        /\ \A l \in Learned : learned[l] # NoRow => learned'[l] # NoRow
        /\ \A c \in Candidates : candidate[c] # NoRow =>
              candidate'[c] # NoRow /\ candidate'[c].status = candidate[c].status
    BY <1>1, <1>2, <1>5, <2>1 DEF TypeOK
  <2> QED  BY <1>1, <1>2, <1>4, <1>6, <2>3, <2>4, <2>5, CommitFields, StepInv, ZenonT(30)
<1> QED  BY <1>7, <1>8

-----------------------------------------------------------------------------
(* Changes by others. *)

LEMMA ChangesType ==
    ASSUME TypeOK, Changes
    PROVE  changed' \in 0..MaxChanges
  BY LearningAssumption DEF TypeOK, Changes

\* No request ends.
LEMMA ChangeFields ==
    ASSUME TypeOK, NEW rows \in SUBSET Rows, request' = AfterChange(rows)
    PROVE  /\ request' \in [Requests -> Request]
           /\ {} \in SUBSET Requests
           /\ \A r \in Requests \ {} : request'[r] = AfterChange(rows)[r]
           /\ \A r \in {} : request'[r].pc = "idle"
  BY AfterFields

LEMMA AnswerInv ==
    ASSUME IInv, NEW m \in Messages, Answer(m)
    PROVE  IInv'
<1>1. PICK behind \in SUBSET {l \in ActiveRows : IsMemory(l)} :
         /\ message' = [message EXCEPT ![m] = [rating |-> "None", behind |-> behind]]
         /\ request' = AfterChange(behind)
  BY DEF Answer
<1>2. TypeOK /\ UNCHANGED <<candidate, learned, form, sent>> /\ Changes /\ message[m] = NoRow
  BY DEF IInv, Answer
<1>3. behind \subseteq Learned /\ \A l \in behind : learned[l] # NoRow
  BY <1>2 DEF ActiveRows, Present, TypeOK
<1> DEFINE row == [rating |-> "None", behind |-> behind]
<1>4. row \in MessageRow /\ row.behind = behind
  BY <1>3 DEF MessageRow, Ratings
<1>5. row # NoRow
  BY <1>4, RowsAssumption
<1>6. message' = [message EXCEPT ![m] = row]
  BY <1>1
<1> HIDE DEF row
<1>7. /\ message' \in [Messages -> MessageRow \cup {NoRow}] /\ message'[m] = row
      /\ \A n \in Messages : n # m => message'[n] = message[n]
  BY <1>2, <1>4, <1>6 DEF TypeOK
<1>8. /\ \A n \in Messages : message[n] # NoRow => message'[n] # NoRow
      /\ \A n \in Messages : message'[n] # NoRow =>
             \A l \in message'[n].behind : learned'[l] # NoRow
      /\ form' \in [row: Learned, helpful: Int, unhelpful: Int] \cup {NoRow}
      /\ form' # NoRow => learned'[form'.row] # NoRow
  BY <1>2, <1>3, <1>4, <1>5, <1>7, Referred
<1>9. /\ candidate' \in [Candidates -> CandidateRow \cup {NoRow}]
      /\ learned' \in [Learned -> LearnedRow \cup {NoRow}]
      /\ \A l \in Learned : learned[l] # NoRow => learned'[l] # NoRow
      /\ \A c \in Candidates : candidate[c] # NoRow =>
            candidate'[c] # NoRow /\ candidate'[c].status = candidate[c].status
      /\ sent' = sent /\ changed' \in 0..MaxChanges
  BY <1>2, ChangesType DEF TypeOK
<1>10. OneOrigin(Origin', Standing')
  BY <1>2 DEF IInv, Origin, Standing
<1>11. behind \in SUBSET Rows
  BY <1>3 DEF Rows
<1> QED  BY <1>1, <1>2, <1>7, <1>8, <1>9, <1>10, <1>11, ChangeFields, StepInv

\* A learned row changes, but not where it comes from.
LEMMA RowChangeInv ==
    ASSUME IInv, NEW l \in Learned, learned[l] # NoRow,
           NEW row \in LearnedRow, row.from = learned[l].from,
           learned' = [learned EXCEPT ![l] = row], request' = AfterChange({l}),
           form' = NoRow \/ form' = form, UNCHANGED <<candidate, message, sent>>,
           changed' \in 0..MaxChanges
    PROVE  IInv'
<1>1. TypeOK /\ row # NoRow
  BY RowsAssumption DEF IInv
<1>2. /\ learned' \in [Learned -> LearnedRow \cup {NoRow}] /\ learned'[l] = row
      /\ \A k \in Learned : k # l => learned'[k] = learned[k]
  BY <1>1 DEF TypeOK
<1>3. \A k \in Learned : learned[k] # NoRow => learned'[k] # NoRow
  BY <1>1, <1>2
<1>4. Origin' = Origin
  BY <1>1, <1>2 DEF Origin, OriginOf
<1>5. OneOrigin(Origin', Standing')
  BY <1>4 DEF IInv, Standing
<1>6. /\ \A m \in Messages : message[m] # NoRow => message'[m] # NoRow
      /\ \A m \in Messages : message'[m] # NoRow =>
             \A k \in message'[m].behind : learned'[k] # NoRow
      /\ form' \in [row: Learned, helpful: Int, unhelpful: Int] \cup {NoRow}
      /\ form' # NoRow => learned'[form'.row] # NoRow
  BY <1>3, Referred
<1>7. /\ candidate' \in [Candidates -> CandidateRow \cup {NoRow}]
      /\ message' \in [Messages -> MessageRow \cup {NoRow}]
      /\ \A c \in Candidates : candidate[c] # NoRow =>
            candidate'[c] # NoRow /\ candidate'[c].status = candidate[c].status
      /\ sent' = sent /\ {l} \in SUBSET Rows
  BY <1>1 DEF TypeOK, Rows
<1> QED  BY <1>1, <1>2, <1>3, <1>5, <1>6, <1>7, ChangeFields, StepInv

LEMMA SwitchInv ==
    ASSUME IInv, NEW l \in Learned, Switch(l)
    PROVE  IInv'
<1> DEFINE row == [learned[l] EXCEPT !.active = ~@]
<1>1. TypeOK /\ learned[l] # NoRow /\ learned[l] \in LearnedRow
  BY RowType DEF IInv, Switch
<1>2. row \in LearnedRow /\ row.from = learned[l].from
  BY <1>1 DEF LearnedRow
<1>3. learned' = [learned EXCEPT ![l] = row]
  BY <1>1 DEF Switch, TypeOK
<1>4. /\ request' = AfterChange({l}) /\ (form' = NoRow \/ form' = form)
      /\ UNCHANGED <<candidate, message, sent>>
  BY DEF Switch
<1>5. changed' \in 0..MaxChanges
  BY <1>1, ChangesType DEF Switch
<1> HIDE DEF row
<1> QED  BY <1>1, <1>2, <1>3, <1>4, <1>5, RowChangeInv

LEMMA SaveFormInv ==
    ASSUME IInv, SaveForm
    PROVE  IInv'
<1> DEFINE l == form.row
           row == [learned[l] EXCEPT !.helpful = form.helpful, !.unhelpful = form.unhelpful,
                                     !.edited = TRUE]
<1>1. TypeOK /\ References /\ form # NoRow
  BY DEF IInv, SaveForm
<1>2. form \in [row: Learned, helpful: Int, unhelpful: Int]
  BY <1>1, RowType
<1>3. l \in Learned /\ learned[l] # NoRow /\ learned[l] \in LearnedRow
  BY <1>1, <1>2, RowType DEF References
<1>4. row \in LearnedRow /\ row.from = learned[l].from
  BY <1>2, <1>3 DEF LearnedRow
<1>5. learned' = [learned EXCEPT ![l] = row]
  BY <1>1 DEF SaveForm, TypeOK
<1>6. /\ request' = AfterChange({l}) /\ form' = NoRow
      /\ UNCHANGED <<candidate, message, sent>> /\ changed' \in 0..MaxChanges
  BY <1>1 DEF SaveForm, TypeOK
<1> HIDE DEF row, l
<1> QED  BY <1>3, <1>4, <1>5, <1>6, RowChangeInv

LEMMA OpenFormInv ==
    ASSUME IInv, NEW l \in Learned, OpenForm(l)
    PROVE  IInv'
<1>1. /\ TypeOK /\ learned[l] # NoRow /\ learned[l] \in LearnedRow /\ Changes
      /\ form' = [row |-> l, helpful |-> learned[l].helpful, unhelpful |-> learned[l].unhelpful]
      /\ UNCHANGED <<candidate, learned, message, request, sent>>
  BY RowType DEF IInv, OpenForm
<1>2. form' \in [row: Learned, helpful: Int, unhelpful: Int] /\ form'.row = l
  BY <1>1 DEF LearnedRow
<1>3. TypeOK'
  BY <1>1, <1>2, ChangesType DEF TypeOK
<1>4. Addressed' /\ OneOwner' /\ StillOpen'
  BY <1>1 DEF IInv, Addressed, OneOwner, StillOpen, UnderWay
<1>5. References'
  BY <1>1, <1>2 DEF IInv, References
<1>6. OneOrigin(Origin, Standing)'
  BY <1>1 DEF IInv, OneOrigin, Origin, Standing
<1> QED  BY <1>3, <1>4, <1>5, <1>6 DEF IInv

LEMMA EditCandidateInv ==
    ASSUME IInv, NEW c \in Candidates, EditCandidate(c)
    PROVE  IInv'
<1>1. PICK k \in Contents : candidate' = [candidate EXCEPT ![c].content = k]
  BY DEF EditCandidate
<1>2. /\ TypeOK /\ candidate[c] # NoRow /\ candidate[c] \in CandidateRow
      /\ UNCHANGED <<learned, message, form, sent>>
      /\ request' = AfterChange({c})
  BY RowType DEF IInv, EditCandidate
<1> DEFINE row == [candidate[c] EXCEPT !.content = k]
<1>3. row \in CandidateRow /\ row.status = candidate[c].status
  BY <1>2 DEF CandidateRow
<1>4. row # NoRow
  BY <1>3, RowsAssumption
<1>5. candidate' = [candidate EXCEPT ![c] = row]
  BY <1>1, <1>2 DEF TypeOK
<1> HIDE DEF row
<1>6. /\ candidate' \in [Candidates -> CandidateRow \cup {NoRow}] /\ candidate'[c] = row
      /\ \A d \in Candidates : d # c => candidate'[d] = candidate[d]
  BY <1>2, <1>3, <1>5 DEF TypeOK
<1>7. \A d \in Candidates : candidate[d] # NoRow =>
          candidate'[d] # NoRow /\ candidate'[d].status = candidate[d].status
  BY <1>3, <1>4, <1>6
<1>8. Standing' = Standing /\ Origin' = Origin
  BY <1>2, <1>3, <1>4, <1>6 DEF Standing, Origin
<1>9. OneOrigin(Origin', Standing')
  BY <1>8 DEF IInv
<1>10. /\ \A m \in Messages : message[m] # NoRow => message'[m] # NoRow
       /\ \A m \in Messages : message'[m] # NoRow =>
             \A l \in message'[m].behind : learned'[l] # NoRow
       /\ form' \in [row: Learned, helpful: Int, unhelpful: Int] \cup {NoRow}
       /\ form' # NoRow => learned'[form'.row] # NoRow
  BY <1>2, Referred
<1>11. /\ learned' \in [Learned -> LearnedRow \cup {NoRow}]
       /\ message' \in [Messages -> MessageRow \cup {NoRow}]
       /\ \A l \in Learned : learned[l] # NoRow => learned'[l] # NoRow
       /\ sent' = sent /\ {c} \in SUBSET Rows
  BY <1>2 DEF TypeOK, Rows
<1>12. changed' \in 0..MaxChanges
  BY <1>2, ChangesType DEF EditCandidate
<1> QED  BY <1>2, <1>6, <1>7, <1>9, <1>10, <1>11, <1>12, ChangeFields, StepInv

-----------------------------------------------------------------------------
LEMMA NextInv == IInv /\ [Next]_vars => IInv'
<1> SUFFICES ASSUME IInv, [Next]_vars PROVE IInv'
  OBVIOUS
<1>1. ASSUME NEW r \in Requests, Teach(r) PROVE IInv'
  BY <1>1, TeachInv
<1>2. ASSUME NEW r \in Requests, ProcessCandidate(r) \/ ApproveCandidate(r) \/ RejectCandidate(r)
      PROVE IInv'
  BY <1>2, DecideInv
<1>3. ASSUME NEW r \in Requests, RecordFeedback(r) PROVE IInv'
  BY <1>3, RateInv
<1>4. ASSUME NEW r \in Requests, LockRows(r) PROVE IInv'
  BY <1>4, LockRowsInv
<1>5. ASSUME NEW r \in Requests, RequestFails(r) PROVE IInv'
  BY <1>5, RequestFailsInv
<1>6. ASSUME NEW r \in Requests, FinishTeach(r) PROVE IInv'
  BY <1>6, FinishTeachInv
<1>7. ASSUME NEW r \in Requests, FinishProcess(r) PROVE IInv'
  BY <1>7, FinishProcessInv
<1>8. ASSUME NEW r \in Requests, FinishApprove(r) PROVE IInv'
  BY <1>8, FinishApproveInv
<1>9. ASSUME NEW r \in Requests, FinishReject(r) PROVE IInv'
  BY <1>9, FinishRejectInv
<1>10. ASSUME NEW r \in Requests, FinishFeedback(r) PROVE IInv'
  BY <1>10, FinishFeedbackInv
<1>11. ASSUME NEW m \in Messages, Answer(m) PROVE IInv'
  BY <1>11, AnswerInv
<1>12. ASSUME NEW l \in Learned, Switch(l) PROVE IInv'
  BY <1>12, SwitchInv
<1>13. ASSUME NEW l \in Learned, OpenForm(l) PROVE IInv'
  BY <1>13, OpenFormInv
<1>14. ASSUME NEW c \in Candidates, EditCandidate(c) PROVE IInv'
  BY <1>14, EditCandidateInv
<1>15. ASSUME SaveForm PROVE IInv'
  BY <1>15, SaveFormInv
<1>16. ASSUME UNCHANGED vars PROVE IInv'
  <2>1. UNCHANGED <<candidate, learned, message, form>>
    BY <1>16 DEF vars
  <2>2. TypeOK' /\ Addressed' /\ OneOwner' /\ StillOpen'
    BY <1>16 DEF vars, IInv, TypeOK, Addressed, OneOwner, StillOpen, UnderWay
  <2> QED  BY <2>1, <2>2, RowsKept DEF IInv
<1> QED  BY <1>1, <1>2, <1>3, <1>4, <1>5, <1>6, <1>7, <1>8, <1>9, <1>10, <1>11, <1>12,
            <1>13, <1>14, <1>15, <1>16 DEF Next

-----------------------------------------------------------------------------
(* What holds in every behaviour.                                           *)

\* The invariant of the learning loop: requests hold the rows they have locked,
\* and every learned row comes from an approved candidate of its own.
THEOREM Invariant == Spec => []IInv
  BY InitInv, NextInv, PTL DEF Spec

\* The rows, the requests and the form keep their types.
THEOREM TypeCorrect == Spec => []TypeOK
<1>1. IInv => TypeOK
  BY DEF IInv
<1> QED  BY <1>1, Invariant, PTL

\* However clicks, retries, ratings and automatic approvals overlap, an approved
\* candidate has one memory, and a candidate that is not approved has none.
THEOREM LearnedOnceAlways == Spec => []LearnedOnce
<1>1. IInv => LearnedOnce
  <2> SUFFICES ASSUME IInv, NEW c \in Present(candidate)
               PROVE  Cardinality({l \in Present(learned) : learned[l].from = c})
                        = IF candidate[c].status = "Approved" THEN 1 ELSE 0
    BY DEF LearnedOnce
  <2> DEFINE S == {l \in Present(learned) : learned[l].from = c}
  <2>1. TypeOK /\ OneOrigin(Origin, Standing)
    BY DEF IInv
  <2>2. c \in Candidates /\ candidate[c] # NoRow /\ c # NoRow
    BY <2>1, LearningAssumption DEF Present, TypeOK
  <2>3. Standing[c] = candidate[c].status
    BY <2>2 DEF Standing
  <2>4. \A l \in Learned : l \in S <=> Origin[l] = c
    BY <2>1, <2>2 DEF Present, TypeOK, Origin, OriginOf
  <2>5. S \subseteq Learned
    BY <2>1 DEF Present, TypeOK
  <2> HIDE DEF S
  <2>6. CASE candidate[c].status = "Approved"
    <3>1. PICK l \in Learned : Origin[l] = c
      BY <2>1, <2>2, <2>3, <2>6 DEF OneOrigin
    <3>2. S = {l}
      BY <2>1, <2>2, <2>4, <2>5, <3>1 DEF OneOrigin
    <3>3. Cardinality(S) = 1
      BY <3>2, FS_Singleton
    <3> QED  BY <2>6, <3>3 DEF S
  <2>7. CASE candidate[c].status # "Approved"
    <3>1. S = {}
      BY <2>1, <2>2, <2>3, <2>4, <2>5, <2>7 DEF OneOrigin
    <3>2. Cardinality(S) = 0
      BY <3>1, FS_EmptySet
    <3> QED  BY <2>7, <3>2 DEF S
  <2> QED  BY <2>6, <2>7
<1> QED  BY <1>1, Invariant, PTL

DecisionKept ==
    \A c \in Candidates :
        candidate[c] # NoRow /\ candidate[c].status \in Decided
            => candidate'[c].status = candidate[c].status

\* The candidate a request decides was still open when the request locked it.
LEMMA DecidedRow ==
    ASSUME IInv, NEW r \in Requests, request[r].pc = "locked", request[r].op \in Deciding,
           NEW status, candidate' = [candidate EXCEPT ![request[r].row].status = status]
    PROVE  DecisionKept
<1>1. candidate[request[r].row].status \notin Decided
  BY DEF IInv, StillOpen, Undecided, Decided
<1>2. \A c \in Candidates : c # request[r].row => candidate'[c] = candidate[c]
  BY DEF IInv, TypeOK
<1> QED  BY <1>1, <1>2 DEF DecisionKept

LEMMA DecisionStep == IInv /\ [Next]_vars => DecisionKept
<1> SUFFICES ASSUME IInv, [Next]_vars PROVE DecisionKept
  OBVIOUS
<1>1. candidate \in [Candidates -> CandidateRow \cup {NoRow}]
  BY DEF IInv, TypeOK
<1>2. ASSUME UNCHANGED candidate PROVE DecisionKept
  BY <1>2 DEF DecisionKept
<1>3. ASSUME NEW r \in Requests, FinishProcess(r) \/ FinishApprove(r) \/ FinishReject(r)
      PROVE  DecisionKept
  <2>1. request[r].pc = "locked" /\ request[r].op \in Deciding
    BY <1>3 DEF FinishProcess, FinishApprove, FinishReject, Deciding
  <2>2. \E status : candidate' = [candidate EXCEPT ![request[r].row].status = status]
    BY <1>3 DEF FinishProcess, FinishApprove, FinishReject
  <2> QED  BY <2>1, <2>2, DecidedRow
<1>4. ASSUME NEW r \in Requests, FinishTeach(r) \/ FinishFeedback(r) PROVE DecisionKept
  <2>1. \/ UNCHANGED candidate
        \/ \E c \in Free(Candidates, candidate) : \E row : candidate' = [candidate EXCEPT ![c] = row]
    BY <1>4 DEF FinishTeach, Creates, FinishFeedback
  <2>2. ASSUME NEW c \in Free(Candidates, candidate), NEW row, candidate' = [candidate EXCEPT ![c] = row]
        PROVE  DecisionKept
    <3>1. candidate[c] = NoRow
      BY DEF Free
    <3>2. \A d \in Candidates : d # c => candidate'[d] = candidate[d]
      BY <1>1, <2>2
    <3> QED  BY <3>1, <3>2 DEF DecisionKept
  <2> QED  BY <1>2, <2>1, <2>2
<1>5. ASSUME NEW c \in Candidates, EditCandidate(c) PROVE DecisionKept
  <2>1. PICK k \in Contents : candidate' = [candidate EXCEPT ![c].content = k]
    BY <1>5 DEF EditCandidate
  <2>2. candidate[c] \in CandidateRow
    BY <1>1, <1>5 DEF EditCandidate
  <2>3. /\ candidate'[c] = [candidate[c] EXCEPT !.content = k]
        /\ \A d \in Candidates : d # c => candidate'[d] = candidate[d]
    BY <1>1, <2>1
  <2>4. candidate'[c].status = candidate[c].status
    BY <2>2, <2>3 DEF CandidateRow
  <2> QED  BY <2>3, <2>4 DEF DecisionKept
<1>6. ASSUME NEW r \in Requests,
             \/ Teach(r) \/ ProcessCandidate(r) \/ ApproveCandidate(r) \/ RejectCandidate(r)
             \/ RecordFeedback(r) \/ LockRows(r) \/ RequestFails(r)
      PROVE  DecisionKept
  BY <1>2, <1>6 DEF Teach, ProcessCandidate, ApproveCandidate, RejectCandidate, RecordFeedback,
                    Opens, LockRows, RequestFails
<1>7. ASSUME \/ \E m \in Messages : Answer(m)
             \/ \E l \in Learned : Switch(l) \/ OpenForm(l)
             \/ SaveForm
             \/ UNCHANGED vars
      PROVE  DecisionKept
  BY <1>2, <1>7 DEF Answer, Switch, OpenForm, SaveForm, vars
<1> QED  BY <1>3, <1>4, <1>5, <1>6, <1>7 DEF Next

\* No request brings back a candidate that was approved or rejected meanwhile.
THEOREM DecisionFinalAlways == Spec => DecisionFinal
<1>1. IInv /\ [Next]_vars => [DecisionKept]_vars
  BY DecisionStep
<1>2. [DecisionKept]_vars
        <=> [\A c \in Candidates :
                candidate[c] # NoRow /\ candidate[c].status \in Decided
                    => candidate'[c].status = candidate[c].status]_vars
  BY DEF DecisionKept
<1> QED  BY <1>1, <1>2, Invariant, PTL DEF Spec, DecisionFinal

(* The counters of a memory.  _adjust_memory_feedback moves one answer from   *)
(* one counter to another; that the counters are the ratings of today needs   *)
(* every answer behind a memory counted once, whoever rated it in between.    *)

\* The answers with memory l behind them that are rated f.
Rated(l, f) == {m \in Present(message) : l \in message[m].behind /\ message[m].rating = f}

\* A row of l has the counters of the answers that are rated now.
Counting(row, l) ==
    /\ row.helpful = Cardinality(Rated(l, "Positive"))
    /\ row.unhelpful = Cardinality(Rated(l, "Negative"))

\* Strengthening of FeedbackCounted: the answers rated are finitely many.
CountInv ==
    /\ IsFiniteSet(Present(message))
    /\ \A l \in Present(learned) : ~learned[l].edited => Counting(learned[l], l)

\* The counted sets are finite, so one answer more or less is one in the count.
LEMMA RatedFinite ==
    ASSUME CountInv, NEW l, NEW f
    PROVE  /\ IsFiniteSet(Rated(l, f)) /\ Cardinality(Rated(l, f)) \in Nat
           /\ \A m : m \notin Rated(l, f) =>
                 Cardinality(Rated(l, f) \cup {m}) = Cardinality(Rated(l, f)) + 1
           /\ \A m \in Rated(l, f) :
                 Cardinality(Rated(l, f) \ {m}) = Cardinality(Rated(l, f)) - 1
<1>1. IsFiniteSet(Rated(l, f))
  BY FS_Subset DEF Rated, CountInv
<1> QED  BY <1>1, FS_CardinalityType, FS_AddElement, FS_RemoveElement

\* A new row has no answer it is behind of.
LEMMA NewCounts ==
    ASSUME IInv, NEW l \in Learned, learned[l] = NoRow, NEW f
    PROVE  Rated(l, f) = {}
  BY DEF IInv, References, Rated, Present, TypeOK

\* A step that rates nothing: learned rows are new, saved from a form, or keep
\* their counters.
LEMMA CountKeeps ==
    ASSUME IInv, CountInv, message' = message, learned' \in [Learned -> LearnedRow \cup {NoRow}],
           \A l \in Learned : learned'[l] # NoRow =>
              \/ learned'[l].edited
              \/ learned[l] = NoRow /\ learned'[l].helpful = 0 /\ learned'[l].unhelpful = 0
              \/ /\ learned[l] # NoRow
                 /\ learned'[l].edited = learned[l].edited
                 /\ learned'[l].helpful = learned[l].helpful
                 /\ learned'[l].unhelpful = learned[l].unhelpful
    PROVE  CountInv'
<1>1. \A l, f : Rated(l, f)' = Rated(l, f)
  BY DEF Rated, Present
<1>2. IsFiniteSet(Present(message)')
  BY DEF CountInv, Present
<1>3. ASSUME NEW l \in Present(learned)', ~learned'[l].edited
      PROVE  Counting(learned'[l], l)
  <2>1. l \in Learned /\ learned'[l] # NoRow
    BY DEF Present
  <2>2. CASE learned[l] = NoRow /\ learned'[l].helpful = 0 /\ learned'[l].unhelpful = 0
    <3>1. Rated(l, "Positive") = {} /\ Rated(l, "Negative") = {}
      BY <2>1, <2>2, NewCounts
    <3>2. Cardinality({}) = 0
      BY FS_EmptySet
    <3> QED  BY <2>2, <3>1, <3>2 DEF Counting
  <2>3. CASE learned[l] # NoRow /\ learned'[l].edited = learned[l].edited
             /\ learned'[l].helpful = learned[l].helpful
             /\ learned'[l].unhelpful = learned[l].unhelpful
    <3>1. l \in Present(learned)
      BY <2>1, <2>3 DEF Present, IInv, TypeOK
    <3>2. Counting(learned[l], l)
      BY <1>3, <2>3, <3>1 DEF CountInv
    <3> QED  BY <2>3, <3>2 DEF Counting
  <2> QED  BY <1>3, <2>1, <2>2, <2>3
<1>4. \A l \in Present(learned)' : ~learned'[l].edited =>
          /\ learned'[l].helpful = Cardinality(Rated(l, "Positive")')
          /\ learned'[l].unhelpful = Cardinality(Rated(l, "Negative")')
  BY <1>1, <1>3 DEF Counting
<1> QED  BY <1>2, <1>4 DEF CountInv, Counting

\* A new answer has no rating and is counted nowhere.
LEMMA AnswerCounts ==
    ASSUME IInv, CountInv, NEW m \in Messages, Answer(m) PROVE CountInv'
<1>1. PICK behind : /\ message' = [message EXCEPT ![m] = [rating |-> "None", behind |-> behind]]
                    /\ message[m] = NoRow /\ learned' = learned
  BY DEF Answer
<1>2. message \in [Messages -> MessageRow \cup {NoRow}]
  BY DEF IInv, TypeOK
<1>3. /\ message'[m] = [rating |-> "None", behind |-> behind]
      /\ \A n \in Messages \ {m} : message'[n] = message[n]
      /\ DOMAIN message' = Messages /\ DOMAIN message = Messages
  BY <1>1, <1>2
<1>4. message'[m].rating = "None"
  BY <1>3
<1>5. \A l : \A f \in {"Positive", "Negative"} : Rated(l, f)' = Rated(l, f)
  BY <1>1, <1>3, <1>4 DEF Rated, Present
<1>6. IsFiniteSet(Present(message)')
  <2>1. Present(message)' \subseteq Present(message) \cup {m}
    BY <1>3 DEF Present
  <2>2. IsFiniteSet(Present(message) \cup {m})
    BY FS_AddElement DEF CountInv
  <2> QED  BY <2>1, <2>2, FS_Subset
<1>7. Present(learned)' = Present(learned)
  BY <1>1 DEF Present
<1>8. \A l \in Present(learned) : ~learned[l].edited =>
          /\ learned[l].helpful = Cardinality(Rated(l, "Positive"))
          /\ learned[l].unhelpful = Cardinality(Rated(l, "Negative"))
  BY DEF CountInv, Counting
<1>9. \A l \in Present(learned)' : ~learned'[l].edited =>
          /\ learned'[l].helpful = Cardinality(Rated(l, "Positive")')
          /\ learned'[l].unhelpful = Cardinality(Rated(l, "Negative")')
  BY <1>1, <1>5, <1>7, <1>8
<1> QED  BY <1>6, <1>9 DEF CountInv, Counting

\* One rating is taken back and another one counted.
LEMMA RatingMoves ==
    ASSUME CountInv, NEW m, NEW l, NEW f, NEW old, NEW new, NEW S,
           m \in Rated(l, f) <=> old = f,
           new = f => S = Rated(l, f) \cup {m}, new # f => S = Rated(l, f) \ {m}
    PROVE  Cardinality(S) = Cardinality(Rated(l, f)) + One(old, new, f) /\ Cardinality(S) \in Nat
<1> DEFINE R == Rated(l, f)
<1>1. /\ Cardinality(R) \in Nat /\ IsFiniteSet(R)
      /\ m \notin R => Cardinality(R \cup {m}) = Cardinality(R) + 1
      /\ m \in R => Cardinality(R \ {m}) = Cardinality(R) - 1
  BY RatedFinite
<1>0. PICK n \in Nat : n = Cardinality(R)
  BY <1>1
<1> SUFFICES Cardinality(S) = n + One(old, new, f) /\ Cardinality(S) \in Nat
  BY <1>0
<1> HIDE DEF R
<1>2. CASE old = f /\ new = f
  <2>1. Cardinality(S) = n /\ One(old, new, f) = 0
    BY <1>2, <1>0 DEF R, One
  <2> QED  BY <2>1
<1>3. CASE old = f /\ new # f
  <2>1. S = R \ {m} /\ One(old, new, f) = -1 /\ m \in R
    BY <1>3 DEF R, One
  <2>2. IsFiniteSet(S)
    BY <1>1, <2>1, FS_Subset
  <2> QED  BY <1>1, <1>0, <2>1, <2>2, FS_CardinalityType
<1>4. CASE old # f /\ new = f
  <2>1. S = R \cup {m} /\ One(old, new, f) = 1 /\ m \notin R
    BY <1>4 DEF R, One
  <2> QED  BY <1>1, <1>0, <2>1
<1>5. CASE old # f /\ new # f
  <2>1. Cardinality(S) = n /\ One(old, new, f) = 0
    BY <1>5, <1>0 DEF R, One
  <2> QED  BY <2>1
<1> QED  BY <1>2, <1>3, <1>4, <1>5

\* Recording feedback moves the answer in every memory behind it, and only there.
LEMMA FeedbackCounts ==
    ASSUME IInv, CountInv, NEW r \in Requests, FinishFeedback(r) PROVE CountInv'
<1> DEFINE m == request[r].row
           new == request[r].rating
           old == message[m].rating
           counts == Recounted(m, new)
           S(l, f) == {n \in Present(message)' : l \in message'[n].behind /\ message'[n].rating = f}
<1>1. /\ request[r].pc = "locked" /\ request[r].op = "rate"
      /\ message' = [message EXCEPT ![m].rating = new]
  BY DEF FinishFeedback
<1>2. TypeOK /\ Addressed /\ request[r] \in Request /\ References
  BY RowType DEF IInv
<1>3. /\ m \in Messages /\ message[m] # NoRow /\ new \in Ratings
      /\ message[m] \in MessageRow
  BY <1>1, <1>2, RowType DEF Addressed, UnderWay, Request
<1>4. /\ message'[m].rating = new /\ message'[m].behind = message[m].behind
      /\ message'[m] # NoRow
      /\ \A n \in Messages \ {m} : message'[n] = message[n]
      /\ DOMAIN message' = Messages /\ DOMAIN message = Messages
  <2> DEFINE row == [message[m] EXCEPT !.rating = new]
  <2>1. row \in MessageRow /\ row.behind = message[m].behind /\ row.rating = new
    BY <1>3 DEF MessageRow
  <2>2. row # NoRow
    BY <2>1, RowsAssumption
  <2>3. message' = [message EXCEPT ![m] = row] /\ message \in [Messages -> MessageRow \cup {NoRow}]
    BY <1>1, <1>2 DEF TypeOK
  <2> HIDE DEF row
  <2> QED  BY <1>3, <2>1, <2>2, <2>3
<1> HIDE DEF m, new
<1>5. Present(message)' = Present(message) /\ m \in Present(message)
  BY <1>3, <1>4 DEF Present
\* What becomes of the answers a memory is behind of.
<1>6. ASSUME NEW l, NEW f
      PROVE  /\ l \notin Counted(m, new) => S(l, f) = Rated(l, f)
             /\ l \in Counted(m, new) =>
                   /\ Cardinality(S(l, f)) = Cardinality(Rated(l, f)) + One(old, new, f)
                   /\ Cardinality(S(l, f)) \in Nat
  <2>1. CASE l \notin Counted(m, new)
    <3>1. l \notin message[m].behind \/ old = new
      BY <2>1 DEF Counted
    <3>2. \A n \in Present(message) :
             /\ (l \in message'[n].behind /\ message'[n].rating = f)
             <=> (l \in message[n].behind /\ message[n].rating = f)
      BY <1>4, <3>1 DEF Present
    <3> QED  BY <1>5, <2>1, <3>2 DEF Rated
  <2>2. CASE l \in Counted(m, new)
    <3>1. l \in message[m].behind /\ old # new
      BY <2>2 DEF Counted
    <3>2. m \in Rated(l, f) <=> old = f
      BY <1>5, <3>1 DEF Rated
    <3>3. /\ new = f => S(l, f) = Rated(l, f) \cup {m}
          /\ new # f => S(l, f) = Rated(l, f) \ {m}
      BY <1>4, <1>5, <3>1 DEF Rated, Present
    <3> HIDE DEF S, old
    <3> QED  BY <2>2, <3>2, <3>3, RatingMoves
  <2> QED  BY <2>1, <2>2
<1> HIDE DEF S, old
<1>7. ASSUME NEW l \in Present(learned), ~counts[l].edited
      PROVE  /\ counts[l].helpful = Cardinality(S(l, "Positive"))
             /\ counts[l].unhelpful = Cardinality(S(l, "Negative"))
  <2>1. /\ l \in Learned /\ learned[l] # NoRow /\ learned[l] \in LearnedRow
    BY <1>2, RowType DEF Present, TypeOK
  <2>2. counts[l] = IF l \in Counted(m, new) THEN Adjusted(learned[l], old, new) ELSE learned[l]
    BY <2>1 DEF Recounted, old
  <2> HIDE DEF counts
  <2>3. CASE l \notin Counted(m, new)
    <3>1. counts[l] = learned[l] /\ Counting(learned[l], l)
      BY <1>7, <2>2, <2>3 DEF CountInv
    <3> QED  BY <1>6, <2>3, <3>1 DEF Counting
  <2>4. CASE l \in Counted(m, new)
    <3> DEFINE floor(n) == IF n < 0 THEN 0 ELSE n
               h == floor(learned[l].helpful + One(old, new, "Positive"))
               u == floor(learned[l].unhelpful + One(old, new, "Negative"))
    <3>1. counts[l] = [learned[l] EXCEPT !.helpful = h, !.unhelpful = u]
      BY <2>1, <2>2, <2>4 DEF Adjusted, LearnedRow
    <3>2. counts[l].helpful = h /\ counts[l].unhelpful = u /\ ~learned[l].edited
      <4> HIDE DEF h, u
      <4> QED  BY <1>7, <2>1, <3>1 DEF LearnedRow
    <3>3. Counting(learned[l], l)
      BY <3>2 DEF CountInv
    <3>4. h = Cardinality(S(l, "Positive"))
      <4>1. /\ Cardinality(S(l, "Positive")) = learned[l].helpful + One(old, new, "Positive")
            /\ Cardinality(S(l, "Positive")) \in Nat
        BY <1>6, <2>4, <3>3 DEF Counting
      <4> QED  BY <4>1
    <3>5. u = Cardinality(S(l, "Negative"))
      <4>1. /\ Cardinality(S(l, "Negative")) = learned[l].unhelpful + One(old, new, "Negative")
            /\ Cardinality(S(l, "Negative")) \in Nat
        BY <1>6, <2>4, <3>3 DEF Counting
      <4> QED  BY <4>1
    <3> QED  BY <3>2, <3>4, <3>5
  <2> QED  BY <2>3, <2>4
<1>8. /\ counts \in [Learned -> LearnedRow \cup {NoRow}]
      /\ \A l \in Learned : learned[l] # NoRow <=> counts[l] # NoRow
  BY <1>3, RecountedRows
<1>9. \/ learned' = counts
      \/ \E l \in Learned : \E c :
            /\ learned[l] = NoRow
            /\ learned' = [counts EXCEPT ![l] = NewMemory(c, request[r].content)]
  BY DEF FinishFeedback, NewMemory, Free, counts, m, new
<1> HIDE DEF counts
<1>10. ASSUME NEW l \in Present(learned)', ~learned'[l].edited
       PROVE  /\ learned'[l].helpful = Cardinality(S(l, "Positive"))
              /\ learned'[l].unhelpful = Cardinality(S(l, "Negative"))
  <2>1. CASE learned' = counts
    <3>1. l \in Present(learned)
      BY <1>2, <1>8, <2>1 DEF Present, TypeOK
    <3> QED  BY <1>7, <1>10, <2>1, <3>1
  <2>2. ASSUME NEW j \in Learned, NEW c, learned[j] = NoRow,
               learned' = [counts EXCEPT ![j] = NewMemory(c, request[r].content)]
        PROVE  /\ learned'[l].helpful = Cardinality(S(l, "Positive"))
               /\ learned'[l].unhelpful = Cardinality(S(l, "Negative"))
    <3>1. l \in Learned /\ learned'[l] # NoRow
      BY <1>8, <2>2 DEF Present
    <3>2. CASE l = j
      <4>1. learned'[l].helpful = 0 /\ learned'[l].unhelpful = 0
        BY <1>8, <2>2, <3>2 DEF NewMemory
      <4>2. Rated(l, "Positive") = {} /\ Rated(l, "Negative") = {}
        BY <2>2, <3>2, NewCounts
      <4>3. l \notin Counted(m, new)
        BY <1>2, <1>3, <2>2, <3>2 DEF Counted, References
      <4>4. Cardinality({}) = 0
        BY FS_EmptySet
      <4> QED  BY <1>6, <4>1, <4>2, <4>3, <4>4
    <3>3. CASE l # j
      <4>1. learned'[l] = counts[l]
        BY <1>8, <2>2, <3>1, <3>3
      <4>2. l \in Present(learned)
        BY <1>2, <1>8, <3>1, <4>1 DEF Present, TypeOK
      <4> QED  BY <1>7, <1>10, <4>1, <4>2
    <3> QED  BY <3>2, <3>3
  <2> QED  BY <1>9, <2>1, <2>2
<1>11. IsFiniteSet(Present(message)')
  BY <1>5 DEF CountInv
<1> QED  BY <1>10, <1>11 DEF CountInv, Counting, Rated, S

\* A promoted candidate finds its row or makes one that no answer used.
LEMMA PromoteCounts ==
    ASSUME IInv, IInv', CountInv, message' = message, NEW c, NEW k, NEW status,
           Promote(c, k, status)
    PROVE  CountInv'
<1>1. /\ learned \in [Learned -> LearnedRow \cup {NoRow}]
      /\ learned' \in [Learned -> LearnedRow \cup {NoRow}]
  BY DEF IInv, TypeOK
<1>2. CASE learned' = learned
  BY <1>1, <1>2, CountKeeps
<1>3. ASSUME NEW j \in Learned, learned[j] = NoRow,
             learned' = [learned EXCEPT ![j] = NewMemory(c, k)]
      PROVE  CountInv'
  <2>1. /\ learned'[j].helpful = 0 /\ learned'[j].unhelpful = 0
        /\ \A l \in Learned \ {j} : learned'[l] = learned[l]
    BY <1>1, <1>3 DEF NewMemory
  <2>2. \A l \in Learned : learned'[l] # NoRow =>
              \/ learned'[l].edited
              \/ learned[l] = NoRow /\ learned'[l].helpful = 0 /\ learned'[l].unhelpful = 0
              \/ /\ learned[l] # NoRow
                 /\ learned'[l].edited = learned[l].edited
                 /\ learned'[l].helpful = learned[l].helpful
                 /\ learned'[l].unhelpful = learned[l].unhelpful
    BY <1>3, <2>1
  <2> QED  BY <1>1, <2>2, CountKeeps
<1>4. \/ learned' = learned
      \/ \E j \in Learned : learned[j] = NoRow /\ learned' = [learned EXCEPT ![j] = NewMemory(c, k)]
  BY DEF Promote, NewMemory, Free
<1> QED  BY <1>2, <1>3, <1>4

\* Switching a row on or off keeps its counters, saving its form marks it.
LEMMA ChangeCounts ==
    ASSUME IInv, IInv', CountInv, message' = message,
           (\E l \in Learned : Switch(l)) \/ SaveForm
    PROVE  CountInv'
<1>1. /\ learned \in [Learned -> LearnedRow \cup {NoRow}]
      /\ learned' \in [Learned -> LearnedRow \cup {NoRow}]
  BY DEF IInv, TypeOK
<1>2. \A l \in Learned : learned[l] # NoRow => learned[l] \in LearnedRow
  BY RowType DEF IInv
<1> DEFINE Kept(l) == \/ learned'[l].edited
                      \/ /\ learned[l] # NoRow
                         /\ learned'[l].edited = learned[l].edited
                         /\ learned'[l].helpful = learned[l].helpful
                         /\ learned'[l].unhelpful = learned[l].unhelpful
<1>3. ASSUME NEW j \in Learned, Switch(j), NEW l \in Learned, learned'[l] # NoRow PROVE Kept(l)
  <2>1. learned[j] # NoRow /\ learned' = [learned EXCEPT ![j].active = ~@]
    BY <1>3 DEF Switch
  <2>2. CASE l = j
    <3>1. learned'[l] = [learned[l] EXCEPT !.active = ~@] /\ learned[l] \in LearnedRow
      BY <1>1, <1>2, <2>1, <2>2
    <3> QED  BY <2>1, <2>2, <3>1 DEF LearnedRow
  <2>3. CASE l # j
    BY <1>1, <1>3, <2>1, <2>3
  <2> QED  BY <2>2, <2>3
<1>4. ASSUME SaveForm, NEW l \in Learned, learned'[l] # NoRow PROVE Kept(l)
  <2> DEFINE j == form.row
  <2>1. /\ form # NoRow /\ j \in Learned /\ learned[j] # NoRow
        /\ form \in [row: Learned, helpful: Int, unhelpful: Int]
    BY <1>4, RowType DEF SaveForm, IInv, References
  <2>2. learned' = [learned EXCEPT ![j] =
                       [@ EXCEPT !.helpful = form.helpful, !.unhelpful = form.unhelpful,
                                 !.edited = TRUE]]
    <3>1. learned' = [learned EXCEPT ![j].helpful = form.helpful,
                                     ![j].unhelpful = form.unhelpful,
                                     ![j].edited = TRUE]
      BY <1>4 DEF SaveForm
    <3> HIDE DEF j
    <3> QED  BY <1>1, <2>1, <3>1
  <2> HIDE DEF j
  <2>3. CASE l = j
    <3>1. learned[j] \in LearnedRow
      BY <1>2, <2>1
    <3>2. learned'[l] = [learned[j] EXCEPT !.helpful = form.helpful,
                                           !.unhelpful = form.unhelpful, !.edited = TRUE]
      BY <1>1, <2>1, <2>2, <2>3
    <3>3. learned'[l].edited
      BY <3>1, <3>2 DEF LearnedRow
    <3> QED  BY <3>3
  <2>4. CASE l # j
    BY <1>1, <1>4, <2>2, <2>4
  <2> QED  BY <2>3, <2>4
<1>5. \A l \in Learned : learned'[l] # NoRow => Kept(l)
  BY <1>3, <1>4
<1> QED  BY <1>1, <1>5, CountKeeps

\* Every step keeps the counters.
LEMMA CountStep == IInv /\ IInv' /\ CountInv /\ [Next]_vars => CountInv'
<1> SUFFICES ASSUME IInv, IInv', CountInv, [Next]_vars PROVE CountInv'
  OBVIOUS
<1>1. ASSUME NEW r \in Requests, FinishProcess(r) \/ FinishApprove(r) \/ FinishTeach(r)
      PROVE  CountInv'
  <2>1. message' = message /\ \E c, k, status : Promote(c, k, status)
    BY <1>1 DEF FinishProcess, FinishApprove, FinishTeach, Creates
  <2> QED  BY <2>1, PromoteCounts
<1>2. ASSUME NEW r \in Requests, FinishFeedback(r) PROVE CountInv'
  BY <1>2, FeedbackCounts
<1>3. ASSUME NEW m \in Messages, Answer(m) PROVE CountInv'
  BY <1>3, AnswerCounts
<1>4. ASSUME (\E l \in Learned : Switch(l)) \/ SaveForm PROVE CountInv'
  <2>1. message' = message
    BY <1>4 DEF Switch, SaveForm
  <2> QED  BY <1>4, <2>1, ChangeCounts
<1>5. ASSUME UNCHANGED <<learned, message>> PROVE CountInv'
  BY <1>5 DEF CountInv, Counting, Rated, Present
<1>6. ASSUME NEW r \in Requests,
             \/ Teach(r) \/ ProcessCandidate(r) \/ ApproveCandidate(r) \/ RejectCandidate(r)
             \/ RecordFeedback(r) \/ LockRows(r) \/ RequestFails(r) \/ FinishReject(r)
      PROVE  CountInv'
  BY <1>5, <1>6 DEF Teach, ProcessCandidate, ApproveCandidate, RejectCandidate, RecordFeedback,
                    Opens, LockRows, RequestFails, FinishReject
<1>7. ASSUME \/ \E l \in Learned : OpenForm(l)
             \/ \E c \in Candidates : EditCandidate(c)
             \/ UNCHANGED vars
      PROVE  CountInv'
  BY <1>5, <1>7 DEF OpenForm, EditCandidate, vars
<1> QED  BY <1>1, <1>2, <1>3, <1>4, <1>6, <1>7 DEF Next

\* Nothing is rated at the start.
LEMMA CountInit == Init => CountInv
<1> SUFFICES ASSUME Init PROVE CountInv
  OBVIOUS
<1>1. Present(message) = {} /\ Present(learned) = {}
  BY DEF Init, Present
<1> QED  BY <1>1, FS_EmptySet DEF CountInv

\* The counters of a learned memory are always the numbers of the answers it was
\* behind that are rated helpful and unhelpful now, unless its form was saved
\* over them: a rating that is changed, repeated or recorded by two requests is
\* moved once (_adjust_memory_feedback under the lock of the message).
THEOREM FeedbackCountedAlways == Spec => []FeedbackCounted
<1>1. CountInv => FeedbackCounted
  BY DEF CountInv, Counting, Rated, FeedbackCounted
<1> QED  BY <1>1, CountInit, CountStep, Invariant, PTL DEF Spec

-----------------------------------------------------------------------------
(* ResourceDownload: the inductive invariant.  Rows of downloads and of      *)
(* installations: in use, existing, and past the job that created them.      *)
InUse(row) == row.active /\ row.status \in {"Active", "Update Available"}
Known(row) == row.status # "None"
Settled(row) == row.status \notin {"None", "Installing"}
(* A resource was activated at some time: what a dependency asks for.       *)
Served(c) == \E i \in Installs : inst[i].res = c /\ Settled(inst[i])
(* A row in use has its package in the committed tree of files.             *)
OnDisk(row) == row.active => <<row.res, row.ver>> \in snaps

(* Rows are numbered as they are created; a row of a dependency comes before *)
(* the row of the download it belongs to.                                    *)
Numbered ==
    /\ \A d \in Downloads : Known(dl[d]) => d <= used.dl /\ dl[d].parent < d
    /\ \A i \in Installs : Known(inst[i]) \/ inst[i].active => i <= used.inst

(* Jobs in the queues name rows that exist.                                 *)
JobsNamed ==
    /\ \A d \in Downloads : jobs[d] # "none" => Known(dl[d])
    /\ \A p \in rollbacks : /\ Known(inst[p[1]]) /\ Known(inst[p[2]])
                            /\ inst[p[1]].res = inst[p[2]].res

(* A row that an open transaction wrote is locked: no other one wrote it.   *)
Exclusive ==
    \A j, k \in Workers : j # k => w[j].myDl \cap w[k].myDl = {} /\ w[j].myInst \cap w[k].myInst = {}

(* The position in the job tells whether a transaction is open and what it  *)
(* has written.                                                              *)
Phase(ws) ==
    /\ ws.pc \in {"idle", "begin", "installed", "finish"} => ~ws.open
    /\ ws.pc \in {"resolve", "fetch", "activate"} => ws.open
    /\ ~ws.open => ws.myDl = {} /\ ws.myInst = {}
    /\ ws.pc \in {"resolve", "fetch"} => ws.myInst = {}
    /\ ws.pc = "activate" => ws.myInst = {ws.ins} /\ ws.cur \in ws.myDl
    /\ ws.pc # "idle" => Known(dl[ws.d])

(* DlSeen for any worker record. *)
Shown(ws, e) == IF e \in ws.myDl THEN ws.mine.dl[e] ELSE ws.view.dl[e]

(* What a transaction sees exists, and its rows keep their resources.        *)
Viewed(ws) ==
    /\ ws.open => Known(Shown(ws, ws.d))
    /\ ws.pc = "fetch" => Known(Shown(ws, ws.cur))
    /\ ws.open => \A e \in Downloads : Known(ws.view.dl[e]) =>
          /\ Known(dl[e]) /\ dl[e].res = ws.view.dl[e].res /\ ws.view.dl[e].parent < e

(* The downloads a transaction wrote may be committed ...                   *)
KeepsDl(ws) ==
    \A e \in ws.myDl :
        /\ Known(ws.mine.dl[e]) /\ ws.mine.dl[e].parent < e /\ e <= used.dl
        /\ Known(dl[e]) => dl[e].res = ws.mine.dl[e].res

(* ... and its installations: with their packages on disk, and a resource   *)
(* that was in use stays so.                                                 *)
KeepsInst(ws) ==
    \A i \in ws.myInst :
        /\ i <= used.inst
        /\ OnDisk(ws.mine.inst[i])
        /\ Known(ws.mine.inst[i])
        /\ Known(inst[i]) => /\ inst[i].res = ws.mine.inst[i].res
                             /\ Settled(ws.mine.inst[i])
        /\ InUse(inst[i]) => \E j \in ws.myInst :
                /\ InUse(ws.mine.inst[j]) /\ ws.mine.inst[j].res = inst[i].res

(* Before activation the package of the new installation is on disk.        *)
Prepared(ws) ==
    ws.pc = "activate" =>
        LET row == ws.mine.inst[ws.ins]
        IN /\ ~Known(inst[ws.ins]) /\ ~inst[ws.ins].active
           /\ <<row.res, row.ver>> \in snaps
           /\ row.res = ws.mine.dl[ws.cur].res

(* Dependencies come first: whatever is not left to do has been activated.   *)
Ordered(ws) ==
    /\ ws.pc \in {"fetch", "activate", "installed"} /\ ws.cur = ws.d => ws.todo = {}
    /\ ws.pc = "installed" => Known(dl[ws.cur]) /\ Served(dl[ws.cur].res)
    /\ ws.pc \in {"resolve", "fetch", "activate", "installed"} /\ ~ws.skipped =>
          \A c \in Deps[dl[ws.d].res] \ ws.todo : Served(c)

(* A transaction leaves one row of a resource in use among all that it sees. *)
Single(ws) ==
    /\ \A i, j \in ws.myInst :
          /\ ws.mine.inst[i].active /\ ws.mine.inst[j].active
          /\ ws.mine.inst[i].res = ws.mine.inst[j].res
          => i = j
    /\ \A i \in ws.myInst : \A j \in Installs \ ws.myInst :
          ws.mine.inst[i].active /\ ws.view.inst[j].active => ws.view.inst[j].res # ws.mine.inst[i].res
    /\ ws.open => \A j \in Installs : ws.view.inst[j].active =>
          Known(inst[j]) /\ inst[j].res = ws.view.inst[j].res

WorkerInv(ws) ==
    /\ Phase(ws) /\ Viewed(ws) /\ KeepsDl(ws) /\ KeepsInst(ws) /\ Prepared(ws) /\ Ordered(ws)
    /\ Single(ws)

(* The committed rows.                                                       *)
ActiveKnown == \A i \in Installs : inst[i].active => Known(inst[i])
InUseOnce == OneActive /\ ActiveKnown
RowsHold == ActiveHasFiles /\ InUseOnce /\ Numbered /\ JobsNamed

RDInv == RDTypeOK /\ RowsHold /\ Exclusive /\ \A k \in Workers : WorkerInv(w[k])

-----------------------------------------------------------------------------

(* What other steps never undo: rows stay, keep their resource, and do not   *)
(* return to the state before activation.                                    *)
DlKept == \A d \in Downloads : Known(dl[d]) => Known(dl'[d]) /\ dl'[d].res = dl[d].res

InstKept ==
    \A i \in Installs :
        /\ Known(inst[i]) => Known(inst'[i]) /\ inst'[i].res = inst[i].res
        /\ Settled(inst[i]) => Settled(inst'[i])

Grows ==
    /\ DlKept /\ InstKept
    /\ snaps \subseteq snaps' /\ used.dl <= used'.dl /\ used.inst <= used'.inst

Untouched(ws) ==
    /\ \A e \in ws.myDl : dl'[e] = dl[e]
    /\ \A i \in ws.myInst : inst'[i] = inst[i]

LEMMA RowFields ==
    /\ \A row \in DlRow : /\ row.res \in Resources /\ row.parent \in 0 .. MaxDownloads
                          /\ row.status \in Status
    /\ \A row \in InstRow : /\ row.res \in Resources /\ row.ver \in Versions
                            /\ row.status \in InstStatus /\ row.active \in BOOLEAN
  BY DEF DlRow, InstRow

LEMMA NumbersAreNat ==
    /\ Downloads \subseteq Nat \ {0} /\ Installs \subseteq Nat \ {0}
    /\ RDTypeOK => used.dl \in Nat /\ used.inst \in Nat
  BY ResourceAssumption DEF Downloads, Installs, RDTypeOK

(* The record of a worker field by field.                                  *)
LEMMA WorkerFields ==
    ASSUME NEW ws \in WorkerState
    PROVE  /\ ws.pc \in Positions /\ ws.d \in Downloads /\ ws.cur \in Downloads /\ ws.ins \in Installs
           /\ ws.todo \subseteq Resources /\ ws.skipped \in BOOLEAN /\ ws.open \in BOOLEAN
           /\ ws.view.dl \in [Downloads -> DlRow] /\ ws.view.inst \in [Installs -> InstRow]
           /\ ws.mine.dl \in [Downloads -> DlRow] /\ ws.mine.inst \in [Installs -> InstRow]
           /\ ws.myDl \subseteq Downloads /\ ws.myInst \subseteq Installs
  BY DEF WorkerState, Tables

(* What a worker knows stays true while others let its rows alone.         *)
LEMMA Undisturbed ==
    ASSUME RDTypeOK, RDTypeOK', Grows, NEW ws \in WorkerState, Untouched(ws), WorkerInv(ws)
    PROVE  WorkerInv(ws)'
<1> USE WorkerFields
<1>1. /\ used.dl \in Nat /\ used'.dl \in Nat /\ used.dl <= used'.dl
      /\ used.inst \in Nat /\ used'.inst \in Nat /\ used.inst <= used'.inst
  BY ResourceAssumption DEF RDTypeOK, Grows
<1>2. Phase(ws)'
  BY DEF WorkerInv, Phase, Grows, DlKept
<1>3. Viewed(ws)'
  BY DEF WorkerInv, Viewed, Shown, Grows, DlKept
<1>4. KeepsDl(ws)'
  <2>1. SUFFICES ASSUME NEW e \in ws.myDl
                 PROVE  /\ e <= used'.dl
                        /\ Known(dl'[e]) => dl'[e].res = ws.mine.dl[e].res
    BY DEF WorkerInv, KeepsDl, Known
  <2>2. e \in Nat /\ e <= used.dl /\ (Known(dl[e]) => dl[e].res = ws.mine.dl[e].res)
    BY NumbersAreNat DEF WorkerInv, KeepsDl
  <2> QED  BY <1>1, <2>2 DEF Untouched
<1>5. KeepsInst(ws)'
  <2>1. SUFFICES ASSUME NEW i \in ws.myInst
                 PROVE  /\ i <= used'.inst
                        /\ OnDisk(ws.mine.inst[i])'
    BY DEF WorkerInv, KeepsInst, Untouched
  <2>2. i \in Nat /\ i <= used.inst /\ OnDisk(ws.mine.inst[i])
    BY NumbersAreNat DEF WorkerInv, KeepsInst
  <2> QED  BY <1>1, <2>2 DEF OnDisk, Grows
<1>6. Prepared(ws)'
  BY DEF WorkerInv, Prepared, Phase, Untouched, Grows
<1>7. ASSUME NEW c, Served(c)
      PROVE  Served(c)'
  BY <1>7 DEF Served, Grows, InstKept, Settled, Known
<1>8. Ordered(ws)'
  <2>1. ws.pc # "idle" => dl'[ws.d].res = dl[ws.d].res
    BY DEF WorkerInv, Phase, Grows, DlKept
  <2>2. ws.pc = "installed" => Known(dl'[ws.cur]) /\ dl'[ws.cur].res = dl[ws.cur].res
    BY DEF WorkerInv, Ordered, Grows, DlKept
  <2>3. ws.pc = "installed" => Known(dl[ws.cur])' /\ Served(dl[ws.cur].res)'
    <3>1. SUFFICES ASSUME ws.pc = "installed"
                   PROVE  Known(dl'[ws.cur]) /\ Served(dl[ws.cur].res)'
      BY DEF Known
    <3>2. Served(dl[ws.cur].res)
      BY <3>1 DEF WorkerInv, Ordered
    <3>3. \E i \in Installs : inst'[i].res = dl[ws.cur].res /\ inst'[i].status \notin {"None", "Installing"}
      BY <3>2 DEF Served, Grows, InstKept, Settled, Known
    <3> QED  BY <3>1, <3>3, <2>2 DEF Served, Settled
  <2>4. ASSUME ws.pc \in {"resolve", "fetch", "activate", "installed"}, ~ws.skipped,
               NEW c \in Deps[dl'[ws.d].res] \ ws.todo
        PROVE  Served(c)'
    <3>1. c \in Deps[dl[ws.d].res] \ ws.todo
      BY <2>1, <2>4
    <3> QED  BY <1>7, <2>4, <3>1 DEF WorkerInv, Ordered
  <2> QED  BY <2>3, <2>4 DEF WorkerInv, Ordered
<1>9. Single(ws)'
  BY DEF WorkerInv, Single, Grows, InstKept, Known
<1> QED  BY <1>2, <1>3, <1>4, <1>5, <1>6, <1>8, <1>9 DEF WorkerInv

(* An action of others: the rows change and the workers do not.            *)
LEMMA OthersKeep ==
    ASSUME RDInv, RDTypeOK', UNCHANGED w, Grows, RowsHold',
           \A k \in Workers : Untouched(w[k])
    PROVE  RDInv'
<1>1. Exclusive'
  BY DEF RDInv, Exclusive
<1>2. ASSUME NEW k \in Workers
      PROVE  WorkerInv(w[k])'
  <2> DEFINE ws == w[k]
  <2>1. ws \in WorkerState /\ WorkerInv(ws) /\ Untouched(ws) /\ w'[k] = ws
    BY DEF RDInv, RDTypeOK
  <2> HIDE DEF ws
  <2>2. PICK v : v = ws
    OBVIOUS
  <2>3. /\ Phase(v)' /\ Viewed(v)' /\ KeepsDl(v)' /\ KeepsInst(v)' /\ Prepared(v)' /\ Ordered(v)' /\ Single(v)'
    BY <2>1, <2>2, Undisturbed DEF RDInv, WorkerInv
  <2> QED
    BY <2>1, <2>2, <2>3 DEF ws, WorkerInv, Phase, Viewed, KeepsDl, KeepsInst, Prepared, Ordered, Single
<1> QED  BY <1>1, <1>2 DEF RDInv

LEMMA StatusSets ==
    /\ InFlight \subseteq Active /\ Active \subseteq Status /\ "None" \notin Active
    /\ {"None", "Completed", "Failed", "Cancelled"} \subseteq Status
    /\ {"Paused", "Retrying", "Downloading", "Preparing"} \subseteq Active
    /\ {"Installing", "Waiting Dependencies", "Ready"} \subseteq Active
  BY DEF InFlight, Active, Status

LEMMA NoRowTypes == NoDl \in DlRow /\ NoInst \in InstRow /\ ~Known(NoDl) /\ ~Known(NoInst) /\ ~NoInst.active
<1>1. AnyResource \in Resources
  BY ResourceAssumption DEF AnyResource
<1>2. 1 \in Versions
  BY ResourceAssumption DEF Versions
<1> QED
  BY <1>1, <1>2, ResourceAssumption
  DEF NoDl, NoInst, DlRow, InstRow, NoDownload, InstStatus, Known, Status

RequestsType == [starts : 0 .. MaxStarts, stops : 0 .. MaxStops]
JobsType == [Downloads -> {"none", "queued", "started"}]

LEMMA BoundsAreNat ==
    /\ MaxStarts \in Nat /\ MaxStops \in Nat /\ MaxCrashes \in Nat
    /\ MaxDownloads \in Nat \ {0} /\ MaxInstalls \in Nat \ {0}
  BY ResourceAssumption

LEMMA CountersType ==
    ASSUME RDTypeOK
    PROVE  /\ requests \in RequestsType
           /\ Starting \/ Stopping \/ UNCHANGED requests => requests' \in RequestsType
  BY BoundsAreNat DEF RDTypeOK, RequestsType, Starting, Stopping

(* Nothing comes into use.                                                 *)
LEMMA OnceKept ==
    ASSUME InUseOnce, InstKept, raced \subseteq raced',
           \A i \in Installs : inst'[i].active => inst[i].active
    PROVE  InUseOnce'
<1>1. \A i \in Installs : inst'[i].active => /\ inst[i].active /\ Known(inst'[i])
                                            /\ inst'[i].res = inst[i].res
  BY DEF InUseOnce, ActiveKnown, InstKept
<1>2. ActiveKnown'
  BY <1>1 DEF ActiveKnown, Known
<1>3. OneActive'
  BY <1>1 DEF InUseOnce, OneActive
<1> QED  BY <1>2, <1>3 DEF InUseOnce

LEMMA OnceSame == InUseOnce /\ UNCHANGED <<inst, raced>> => InUseOnce'
  BY DEF InUseOnce, OneActive, ActiveKnown, Known

LEMMA Sent ==
    ASSUME RDTypeOK, NEW d \in Downloads, Send(d)
    PROVE  /\ jobs' \in JobsType /\ crashes' \in 0 .. MaxCrashes
           /\ \A e \in Downloads : jobs'[e] # "none" => jobs[e] # "none" \/ e = d
  BY ResourceAssumption DEF RDTypeOK, Send, JobsType

(* One row of a download is written, by who holds no lock on it.           *)
LEMMA DlWritten ==
    ASSUME RDInv, NEW d \in Downloads, NEW row \in DlRow, Known(dl[d]), Known(row),
           row.res = dl[d].res, row.parent = dl[d].parent,
           dl' = [dl EXCEPT ![d] = row], Unlocked(d),
           UNCHANGED <<inst, files, snaps, rollbacks, w, used, raced>>,
           jobs' \in JobsType, crashes' \in 0 .. MaxCrashes, requests' \in RequestsType,
           \A e \in Downloads : jobs'[e] # "none" => jobs[e] # "none" \/ e = d
    PROVE  RDInv'
<1>1. RDTypeOK'
  BY DEF RDInv, RDTypeOK, JobsType, RequestsType
<1>2. Grows
  BY NumbersAreNat DEF RDInv, RDTypeOK, Grows, DlKept, InstKept
<1>3. RowsHold'
  <2>1. ActiveHasFiles'
    BY DEF RDInv, RowsHold, ActiveHasFiles
  <2>2. Numbered'
    BY DEF RDInv, RDTypeOK, RowsHold, Numbered, Known
  <2>3. JobsNamed'
    BY DEF RDInv, RDTypeOK, RowsHold, JobsNamed, Known
  <2> QED  BY <2>1, <2>2, <2>3, OnceSame DEF RDInv, RowsHold
<1>4. \A k \in Workers : Untouched(w[k])
  BY DEF RDInv, RDTypeOK, Untouched, Unlocked
<1> QED  BY <1>1, <1>2, <1>3, <1>4, OthersKeep

LEMMA DlSteps ==
    ASSUME RDInv, NEW d \in Downloads,
           PauseDownload(d) \/ CancelDownload(d) \/ ResumeDownload(d) \/ RetryDownload(d) \/ Recover(d)
    PROVE  RDInv'
<1>1. RDTypeOK /\ dl[d] \in DlRow
  BY DEF RDInv, RDTypeOK
<1>2. /\ UNCHANGED jobs => /\ jobs' \in JobsType
                           /\ \A e \in Downloads : jobs'[e] # "none" => jobs[e] # "none" \/ e = d
      /\ UNCHANGED crashes => crashes' \in 0 .. MaxCrashes
  BY <1>1 DEF RDTypeOK, JobsType
<1>3. CASE PauseDownload(d)
  <2> DEFINE row == [dl[d] EXCEPT !.pause = TRUE]
  <2>1. dl' = [dl EXCEPT ![d] = row]
    BY <1>3, <1>1 DEF PauseDownload, RDTypeOK, DlRow
  <2>2. /\ row \in DlRow /\ Known(dl[d]) /\ Known(row)
        /\ row.res = dl[d].res /\ row.parent = dl[d].parent
    BY <1>1, <1>3 DEF PauseDownload, DlRow, Known, Active, InFlight
  <2> HIDE DEF row
  <2> QED  BY <1>1, <1>2, <1>3, <2>1, <2>2, DlWritten, CountersType DEF PauseDownload
<1>4. CASE CancelDownload(d)
  <2> DEFINE row == [dl[d] EXCEPT !.status = "Cancelled", !.cancelled = TRUE, !.pause = FALSE]
  <2>1. dl' = [dl EXCEPT ![d] = row]
    BY <1>4, <1>1 DEF CancelDownload, RDTypeOK, DlRow
  <2>2. /\ row \in DlRow /\ Known(dl[d]) /\ Known(row)
        /\ row.res = dl[d].res /\ row.parent = dl[d].parent
    BY <1>1, <1>4 DEF CancelDownload, DlRow, Known, Status
  <2> HIDE DEF row
  <2> QED  BY <1>1, <1>2, <1>4, <2>1, <2>2, DlWritten, CountersType DEF CancelDownload
<1>5. CASE ResumeDownload(d) \/ RetryDownload(d)
  <2> DEFINE row == [dl[d] EXCEPT !.status = "Downloading"]
  <2>1. dl' = [dl EXCEPT ![d] = row]
    BY <1>5, <1>1 DEF ResumeDownload, RetryDownload, GoOn, RDTypeOK, DlRow
  <2>2. /\ row \in DlRow /\ Known(dl[d]) /\ Known(row)
        /\ row.res = dl[d].res /\ row.parent = dl[d].parent
    BY <1>1, <1>5 DEF ResumeDownload, RetryDownload, Resumable, DlRow, Known, Status, Active, InFlight
  <2> HIDE DEF row
  <2> QED  BY <1>1, <1>5, <2>1, <2>2, DlWritten, CountersType, Sent DEF ResumeDownload, RetryDownload, GoOn
<1>6. CASE Recover(d)
  <2> DEFINE row == [dl[d] EXCEPT !.status = "Retrying", !.pause = FALSE]
  <2>1. dl' = [dl EXCEPT ![d] = row]
    BY <1>6, <1>1 DEF Recover, RDTypeOK, DlRow
  <2>2. /\ row \in DlRow /\ Known(dl[d]) /\ Known(row)
        /\ row.res = dl[d].res /\ row.parent = dl[d].parent
    BY <1>1, <1>6 DEF Recover, DlRow, Known, Status, Active, InFlight
  <2> HIDE DEF row
  <2> QED  BY <1>1, <1>2, <1>6, <2>1, <2>2, DlWritten, CountersType DEF Recover
<1> QED  BY <1>3, <1>4, <1>5, <1>6

(* A download is created: its row is new to everybody.                     *)
LEMMA Created ==
    ASSUME RDInv, NEW r \in Resources, CreateDownload(r)
    PROVE  /\ DlKept /\ dl' \in [Downloads -> DlRow]
           /\ used' \in [dl : 0 .. MaxDownloads, inst : 0 .. MaxInstalls]
           /\ used.dl <= used'.dl /\ used'.inst = used.inst
           /\ jobs' \in JobsType /\ crashes' \in 0 .. MaxCrashes
           /\ \A d \in Downloads : Known(dl'[d]) => d <= used'.dl /\ dl'[d].parent < d
           /\ \A d \in Downloads : jobs'[d] # "none" => Known(dl'[d])
           /\ \A k \in Workers : \A e \in w[k].myDl : dl'[e] = dl[e]
<1> DEFINE d == used.dl + 1
<1>0. RDTypeOK /\ used.dl \in 0 .. MaxDownloads /\ used.inst \in 0 .. MaxInstalls
  BY DEF RDInv, RDTypeOK
<1>1. /\ d \in Downloads /\ ~Known(dl[d])
      /\ used' = [used EXCEPT !.dl = d] /\ dl' = [dl EXCEPT ![d] = NewDl(r, NoDownload)] /\ Send(d)
  BY <1>0, NumbersAreNat DEF CreateDownload, RDInv, RowsHold, Numbered
<1>2. /\ NewDl(r, NoDownload) \in DlRow /\ Known(NewDl(r, NoDownload))
      /\ NewDl(r, NoDownload).parent = 0
  BY NoRowTypes, ResourceAssumption DEF NewDl, DlRow, NoDl, NoDownload, Known, Status, Active, InFlight
<1>3. d > used.dl /\ d > 0
  BY <1>0
<1> HIDE DEF d
<1>4. /\ dl' \in [Downloads -> DlRow] /\ dl'[d] = NewDl(r, NoDownload)
      /\ \A e \in Downloads \ {d} : dl'[e] = dl[e]
  BY <1>0, <1>1, <1>2 DEF RDTypeOK
<1>5. /\ used'.dl = d /\ used'.inst = used.inst
      /\ used' \in [dl : 0 .. MaxDownloads, inst : 0 .. MaxInstalls]
  BY <1>0, <1>1 DEF RDTypeOK, Downloads
<1>6. DlKept
  BY <1>1, <1>4 DEF DlKept
<1>7. /\ jobs' \in JobsType /\ crashes' \in 0 .. MaxCrashes
      /\ \A e \in Downloads : jobs'[e] # "none" => jobs[e] # "none" \/ e = d
  BY <1>0, <1>1, Sent
<1>8. \A e \in Downloads : Known(dl'[e]) => e <= used'.dl /\ dl'[e].parent < e
  BY <1>0, <1>2, <1>3, <1>4, <1>5, NumbersAreNat DEF RDInv, RowsHold, Numbered
<1>9. \A e \in Downloads : jobs'[e] # "none" => Known(dl'[e])
  BY <1>2, <1>4, <1>7 DEF RDInv, RowsHold, JobsNamed
<1>10. ASSUME NEW k \in Workers, NEW e \in w[k].myDl
       PROVE  dl'[e] = dl[e]
  <2>1. e \in Downloads /\ e <= used.dl
    BY WorkerFields DEF RDInv, RDTypeOK, WorkerInv, KeepsDl
  <2> QED  BY <1>0, <1>3, <1>4, <2>1, NumbersAreNat
<1>11. used.dl <= used'.dl
  BY <1>0, <1>3, <1>5, NumbersAreNat DEF d
<1> QED  BY <1>4, <1>5, <1>6, <1>7, <1>8, <1>9, <1>10, <1>11

LEMMA StartStep == ASSUME RDInv, NEW r \in Resources, StartDownload(r) PROVE RDInv'
<1> USE DEF StartDownload
<1>1. RDTypeOK'
  BY Created, CountersType DEF RDInv, RDTypeOK, JobsType, RequestsType
<1>2. Grows
  BY Created, NumbersAreNat DEF RDInv, Grows, InstKept
<1>3. RowsHold'
  BY Created, OnceSame DEF RDInv, RowsHold, ActiveHasFiles, Numbered, JobsNamed, Known
<1>4. \A k \in Workers : Untouched(w[k])
  BY Created DEF Untouched
<1> QED  BY <1>1, <1>2, <1>3, <1>4, OthersKeep

(* The installation i is written, by who holds no lock on it.              *)
LEMMA InstWritten ==
    ASSUME RDInv, NEW i \in Installs, NEW row \in InstRow, Known(inst[i]), Settled(row),
           row.res = inst[i].res, row.ver = inst[i].ver, row.active => inst[i].active,
           inst' = [inst EXCEPT ![i] = row], UnlockedInst(i), UNCHANGED <<snaps, w, raced>>
    PROVE  /\ InstKept /\ inst' \in [Installs -> InstRow] /\ ActiveHasFiles' /\ InUseOnce'
           /\ \A j \in Installs : Known(inst'[j]) \/ inst'[j].active => j <= used.inst
           /\ \A k \in Workers : \A j \in w[k].myInst : inst'[j] = inst[j]
<1>1. inst \in [Installs -> InstRow] /\ inst'[i] = row /\ \A j \in Installs \ {i} : inst'[j] = inst[j]
  BY DEF RDInv, RDTypeOK
<1>2. InstKept /\ inst' \in [Installs -> InstRow]
  BY <1>1 DEF InstKept, Known, Settled
<1>3. ActiveHasFiles'
  BY <1>1 DEF RDInv, RowsHold, ActiveHasFiles
<1>4. \A j \in Installs : Known(inst'[j]) \/ inst'[j].active => j <= used.inst
  BY <1>1 DEF RDInv, RowsHold, Numbered
<1>5. \A k \in Workers : \A j \in w[k].myInst : inst'[j] = inst[j]
  BY <1>1, WorkerFields DEF UnlockedInst, RDInv, RDTypeOK
<1>6. InUseOnce'
  BY <1>1, <1>2, OnceKept DEF RDInv, RowsHold
<1> QED  BY <1>2, <1>3, <1>4, <1>5, <1>6

LEMMA UpdateStep == ASSUME RDInv, NEW i \in Installs, UpdateResource(i) PROVE RDInv'
<1> USE DEF UpdateResource
<1> DEFINE row == Outdated(inst[i])
<1>1. RDTypeOK /\ inst[i] \in InstRow
  BY DEF RDInv, RDTypeOK
<1>2. /\ row \in InstRow /\ Known(inst[i]) /\ Settled(row)
      /\ row.res = inst[i].res /\ row.ver = inst[i].ver /\ (row.active => inst[i].active)
      /\ inst' = [inst EXCEPT ![i] = row]
  BY <1>1 DEF Outdated, InstRow, InstStatus, Known, Settled, Installed
<1>3. UnlockedInst(i) /\ UNCHANGED <<files, snaps, rollbacks, w, raced>> /\ Starting
  OBVIOUS
<1>4. inst[i].res \in Resources
  BY <1>1, RowFields
<1> HIDE DEF row
<1>5. /\ InstKept /\ inst' \in [Installs -> InstRow] /\ ActiveHasFiles' /\ InUseOnce'
      /\ \A j \in Installs : Known(inst'[j]) \/ inst'[j].active => j <= used.inst
      /\ \A k \in Workers : \A j \in w[k].myInst : inst'[j] = inst[j]
  BY <1>2, <1>3, InstWritten
<1>6. /\ DlKept /\ dl' \in [Downloads -> DlRow]
      /\ used' \in [dl : 0 .. MaxDownloads, inst : 0 .. MaxInstalls]
      /\ used.dl <= used'.dl /\ used'.inst = used.inst
      /\ jobs' \in JobsType /\ crashes' \in 0 .. MaxCrashes
      /\ \A d \in Downloads : Known(dl'[d]) => d <= used'.dl /\ dl'[d].parent < d
      /\ \A d \in Downloads : jobs'[d] # "none" => Known(dl'[d])
      /\ \A k \in Workers : \A e \in w[k].myDl : dl'[e] = dl[e]
  <2>1. CASE CreateDownload(inst[i].res)
    BY <1>4, <2>1, Created
  <2>2. CASE UNCHANGED <<dl, used, jobs, crashes>>
    BY <1>1, <2>2, NumbersAreNat DEF DlKept, RDInv, RDTypeOK, RowsHold, Numbered, JobsNamed, JobsType
  <2> QED  BY <2>1, <2>2
<1>7. RDTypeOK'
  BY <1>1, <1>3, <1>5, <1>6, CountersType DEF RDTypeOK, JobsType, RequestsType
<1>8. Grows
  BY <1>1, <1>3, <1>5, <1>6, NumbersAreNat DEF Grows
<1>9. RowsHold'
  BY <1>3, <1>5, <1>6 DEF RDInv, RDTypeOK, RowsHold, Numbered, JobsNamed, Known, InstKept
<1>10. \A k \in Workers : Untouched(w[k])
  BY <1>5, <1>6 DEF Untouched
<1> QED  BY <1>3, <1>7, <1>8, <1>9, <1>10, OthersKeep

LEMMA UninstallStep == ASSUME RDInv, NEW i \in Installs, UninstallResource(i) PROVE RDInv'
<1> USE DEF UninstallResource
<1> DEFINE row == [inst[i] EXCEPT !.status = "Removed", !.active = FALSE]
<1>1. RDTypeOK /\ inst[i] \in InstRow
  BY DEF RDInv, RDTypeOK
<1>2. /\ row \in InstRow /\ Known(inst[i]) /\ Settled(row)
      /\ row.res = inst[i].res /\ row.ver = inst[i].ver /\ (row.active => inst[i].active)
  BY <1>1 DEF InstRow, InstStatus, Known, Settled
<1>3. inst' = [inst EXCEPT ![i] = row]
  BY <1>1 DEF InstRow, RDTypeOK
<1> HIDE DEF row
<1>4. UnlockedInst(i) /\ UNCHANGED <<dl, files, snaps, jobs, rollbacks, w, used, raced, crashes>> /\ Stopping
  OBVIOUS
<1>5. /\ InstKept /\ inst' \in [Installs -> InstRow] /\ ActiveHasFiles' /\ InUseOnce'
      /\ \A j \in Installs : Known(inst'[j]) \/ inst'[j].active => j <= used.inst
      /\ \A k \in Workers : \A j \in w[k].myInst : inst'[j] = inst[j]
  BY <1>2, <1>3, <1>4, InstWritten
<1>6. RDTypeOK'
  BY <1>1, <1>4, <1>5, CountersType DEF RDTypeOK, RequestsType
<1>7. Grows
  BY <1>1, <1>4, <1>5, NumbersAreNat DEF Grows, DlKept
<1>8. RowsHold'
  BY <1>4, <1>5 DEF RDInv, RDTypeOK, RowsHold, Numbered, JobsNamed, Known, InstKept
<1>9. \A k \in Workers : Untouched(w[k])
  BY <1>4, <1>5 DEF Untouched
<1> QED  BY <1>4, <1>6, <1>7, <1>8, <1>9, OthersKeep

LEMMA RollbackStep == ASSUME RDInv, NEW i \in Installs, RollbackInstall(i) PROVE RDInv'
<1> DEFINE row == [inst[i] EXCEPT !.status = "Rollback Pending"]
<1>1. RDTypeOK /\ inst[i] \in InstRow
  BY DEF RDInv, RDTypeOK
<1>2. /\ row \in InstRow /\ Known(inst[i]) /\ Settled(row)
      /\ row.res = inst[i].res /\ row.ver = inst[i].ver /\ (row.active => inst[i].active)
  BY <1>1 DEF InstRow, InstStatus, Known, Settled, RollbackInstall
<1>3. /\ inst' = [inst EXCEPT ![i] = row]
      /\ \E j \in Installs : /\ Known(inst[j]) /\ inst[j].res = inst[i].res
                             /\ rollbacks' = rollbacks \cup {<<i, j>>}
  BY <1>1 DEF InstRow, RDTypeOK, Previous, Known, RollbackInstall
<1> HIDE DEF row
<1>4. UnlockedInst(i) /\ UNCHANGED <<dl, files, snaps, jobs, w, used, raced, crashes>> /\ Stopping
  BY DEF RollbackInstall
<1>5. /\ InstKept /\ inst' \in [Installs -> InstRow] /\ ActiveHasFiles' /\ InUseOnce'
      /\ \A j \in Installs : Known(inst'[j]) \/ inst'[j].active => j <= used.inst
      /\ \A k \in Workers : \A j \in w[k].myInst : inst'[j] = inst[j]
  BY <1>2, <1>3, <1>4, InstWritten
<1>6. RDTypeOK'
  BY <1>1, <1>3, <1>4, <1>5, CountersType DEF RDTypeOK, RequestsType
<1>7. Grows
  BY <1>1, <1>4, <1>5, NumbersAreNat DEF Grows, DlKept
<1>8. RowsHold'
  BY <1>1, <1>2, <1>3, <1>4, <1>5 DEF RDInv, RDTypeOK, RowsHold, Numbered, JobsNamed, Known, InstKept
<1>9. \A k \in Workers : Untouched(w[k])
  BY <1>4, <1>5 DEF Untouched
<1> QED  BY <1>4, <1>6, <1>7, <1>8, <1>9, OthersKeep

(* The rollback gives the old version a row of its own.                    *)
LEMMA RollbackJobStep ==
    ASSUME RDInv, NEW p \in Installs \X Installs, RollbackJob(p)
    PROVE  RDInv' /\ \A r \in InstalledIn(inst) : r \in InstalledIn(inst')
<1> DEFINE i == p[1]
           j == p[2]
           n == used.inst + 1
           old == [inst[i] EXCEPT !.status = "Superseded", !.active = FALSE]
           new == [res |-> inst[j].res, ver |-> inst[j].ver, by |-> NoDownload,
                   status |-> "Active", active |-> TRUE]
<1>0. RDTypeOK /\ i \in Installs /\ j \in Installs /\ inst[i] \in InstRow /\ inst[j] \in InstRow
  BY DEF RDInv, RDTypeOK
<1>1. /\ n \in Installs /\ UnlockedInst(i) /\ p \in rollbacks
      /\ snaps' = snaps \cup {<<inst[j].res, inst[j].ver>>}
      /\ used' = [used EXCEPT !.inst = n]
      /\ rollbacks' = rollbacks \ {p}
      /\ raced' = raced \/ raced' = raced \cup {inst[j].res}
      /\ UNCHANGED <<dl, files, jobs, w, requests, crashes>>
  BY DEF RollbackJob
<1>2. inst' = [[inst EXCEPT ![i] = old] EXCEPT ![n] = new]
  BY <1>0 DEF RollbackJob, RDTypeOK, InstRow
<1>3. Known(inst[i]) /\ Known(inst[j]) /\ inst[i].res = inst[j].res
  BY <1>1 DEF RDInv, RowsHold, JobsNamed
<1>4. /\ old \in InstRow /\ old.res = inst[i].res /\ ~old.active /\ Settled(old)
      /\ new \in InstRow /\ new.res = inst[j].res /\ new.ver = inst[j].ver /\ Settled(new) /\ InUse(new)
  <2>1. /\ inst[j].res \in Resources /\ inst[j].ver \in Versions /\ 0 \in 0 .. MaxDownloads
    BY <1>0, RowFields, ResourceAssumption
  <2>2. new \in InstRow /\ new.res = inst[j].res /\ new.ver = inst[j].ver /\ Settled(new) /\ InUse(new)
    BY <2>1 DEF InstRow, InstStatus, Settled, InUse, NoDownload
  <2>3. old \in InstRow /\ old.res = inst[i].res /\ ~old.active /\ Settled(old)
    BY <1>0 DEF InstRow, InstStatus, Settled
  <2> QED  BY <2>2, <2>3
<1>5. n > used.inst /\ used.inst \in 0 .. MaxInstalls /\ n \in Nat /\ used.dl \in Nat
  BY <1>0, NumbersAreNat DEF RDTypeOK
<1> HIDE DEF old, new, n, i, j
<1>6. ~Known(inst[n]) /\ ~inst[n].active /\ n # i
  BY <1>1, <1>3, <1>5, NumbersAreNat DEF RDInv, RowsHold, Numbered
<1>7. /\ inst' \in [Installs -> InstRow] /\ inst'[i] = old /\ inst'[n] = new
      /\ \A l \in Installs \ {i, n} : inst'[l] = inst[l]
  BY <1>0, <1>1, <1>2, <1>4, <1>6 DEF RDTypeOK
<1>8. InstKept
  BY <1>3, <1>4, <1>6, <1>7 DEF InstKept, Known, Settled
<1>9. /\ used'.inst = n /\ used'.dl = used.dl
      /\ used' \in [dl : 0 .. MaxDownloads, inst : 0 .. MaxInstalls]
  BY <1>0, <1>1 DEF RDTypeOK, Installs
<1>10. RDTypeOK'
  <2>1. snaps' \subseteq Resources \X Versions
    BY <1>0, <1>1, RowFields DEF RDTypeOK
  <2>2. raced' \subseteq Resources
    BY <1>0, <1>1, RowFields DEF RDTypeOK
  <2> QED  BY <1>0, <1>1, <1>7, <1>9, <2>1, <2>2 DEF RDTypeOK
<1>11. Grows
  BY <1>1, <1>5, <1>8, <1>9, NumbersAreNat DEF Grows, DlKept
<1>12. RowsHold'
  <2>1. ActiveHasFiles'
    BY <1>1, <1>4, <1>7 DEF RDInv, RowsHold, ActiveHasFiles
  <2>2. \A l \in Installs : Known(inst'[l]) \/ inst'[l].active => l <= used'.inst
    BY <1>4, <1>5, <1>7, <1>9, <1>3, NumbersAreNat DEF RDInv, RowsHold, Numbered
  <2>3. Numbered'
    BY <1>1, <1>9, <2>2 DEF RDInv, RowsHold, Numbered, Known
  <2>4. JobsNamed'
    BY <1>0, <1>1, <1>8 DEF RDInv, RDTypeOK, RowsHold, JobsNamed, Known, InstKept
  <2>5. ActiveKnown'
    BY <1>4, <1>7 DEF RDInv, RowsHold, InUseOnce, ActiveKnown, Known, Settled
  <2>6. OneActive'
    <3>1. \A l \in Installs \ {i} : inst[l].res = inst[j].res /\ inst[l].active => inst[j].res \in raced'
      BY <1>2 DEF RollbackJob, i, j
    <3>2. \A l, m \in Installs :
            inst[l].active /\ inst[m].active /\ inst[l].res = inst[m].res /\ inst[l].res \notin raced => l = m
      BY DEF RDInv, RowsHold, InUseOnce, OneActive
    <3>3. raced \subseteq raced'
      BY <1>1
    <3>4. \A l \in Installs : inst'[l].active => l = n \/ (l # i /\ inst'[l] = inst[l])
      BY <1>4, <1>7
    <3>5. ASSUME NEW l \in Installs, NEW m \in Installs, inst'[l].active, inst'[m].active,
                 inst'[l].res = inst'[m].res, inst'[l].res \notin raced'
          PROVE  l = m
      <4>1. CASE l = n \/ m = n
        BY <1>4, <1>7, <3>1, <3>4, <3>5, <4>1
      <4>2. CASE l # n /\ m # n
        BY <3>2, <3>3, <3>4, <3>5, <4>2
      <4> QED  BY <4>1, <4>2
    <3> QED  BY <3>5 DEF OneActive
  <2> QED  BY <2>1, <2>3, <2>4, <2>5, <2>6 DEF RowsHold, InUseOnce
<1>13. \A k \in Workers : Untouched(w[k])
  <2>1. SUFFICES ASSUME NEW k \in Workers, NEW l \in w[k].myInst
                 PROVE  inst'[l] = inst[l]
    BY <1>1 DEF Untouched
  <2>2. l \in Installs /\ l <= used.inst /\ l # i
    BY <1>1, WorkerFields DEF RDInv, RDTypeOK, WorkerInv, KeepsInst, UnlockedInst
  <2> QED  BY <1>5, <1>7, <2>2, NumbersAreNat
<1>14. \A r \in InstalledIn(inst) : r \in InstalledIn(inst')
  BY <1>1, <1>3, <1>4, <1>6, <1>7 DEF InstalledIn, InUse
<1> QED  BY <1>1, <1>10, <1>11, <1>12, <1>13, <1>14, OthersKeep

LEMMA QueueSteps ==
    ASSUME RDInv, (\E p \in Installs \X Installs : RollbackLost(p)) \/ (\E d \in Downloads : Forget(d))
    PROVE  RDInv'
<1> USE DEF RollbackLost, Forget, Others
<1>1. RDTypeOK'
  BY BoundsAreNat DEF RDInv, RDTypeOK
<1>2. Grows
  BY NumbersAreNat DEF RDInv, Grows, DlKept, InstKept
<1>3. RowsHold'
  BY OnceSame DEF RDInv, RDTypeOK, RowsHold, ActiveHasFiles, Numbered, JobsNamed, Known
<1>4. \A k \in Workers : Untouched(w[k])
  BY DEF Untouched
<1> QED  BY <1>1, <1>2, <1>3, <1>4, OthersKeep

(* The parts of a worker that a write or a commit leaves alone.            *)
SameJob(v, ws) ==
    v.d = ws.d /\ v.cur = ws.cur /\ v.ins = ws.ins /\ v.todo = ws.todo /\ v.skipped = ws.skipped

LEMMA PutDlFields ==
    ASSUME NEW ws \in WorkerState, NEW d \in Downloads, NEW row \in DlRow
    PROVE  LET v == PutDl(ws, d, row)
           IN /\ v \in WorkerState /\ SameJob(v, ws) /\ v.pc = ws.pc
              /\ v.open = ws.open /\ v.view = ws.view
              /\ v.myDl = ws.myDl \cup {d} /\ v.mine.dl[d] = row
              /\ \A e \in Downloads \ {d} : v.mine.dl[e] = ws.mine.dl[e]
              /\ v.myInst = ws.myInst /\ v.mine.inst = ws.mine.inst
  BY DEF PutDl, WorkerState, Tables, SameJob

LEMMA ClosedFields ==
    ASSUME NEW ws \in WorkerState
    PROVE  LET v == Closed(ws)
           IN /\ v \in WorkerState /\ SameJob(v, ws) /\ v.pc = ws.pc
              /\ ~v.open /\ v.myDl = {} /\ v.myInst = {}
<1>1. NoView \in Tables
  BY NoRowTypes DEF NoView, Tables
<1> QED  BY <1>1 DEF Closed, WorkerState, SameJob

LEMMA OpenedFields ==
    ASSUME RDTypeOK, NEW ws \in WorkerState, ~ws.open
    PROVE  LET v == Opened(ws)
           IN /\ v \in WorkerState /\ SameJob(v, ws) /\ v.pc = ws.pc
              /\ v.open /\ v.view = Now /\ v.myDl = ws.myDl /\ v.myInst = ws.myInst
              /\ v.mine = ws.mine
<1>1. Now \in Tables
  BY DEF RDTypeOK, Now, Tables
<1> QED  BY <1>1 DEF Opened, WorkerState, SameJob

LEMMA IdleWorkerFields ==
    /\ IdleWorker \in WorkerState /\ IdleWorker.pc = "idle" /\ ~IdleWorker.open
    /\ IdleWorker.myDl = {} /\ IdleWorker.myInst = {} /\ ~IdleWorker.skipped
<1>1. NoView \in Tables
  BY NoRowTypes DEF NoView, Tables
<1>2. 1 \in Downloads /\ 1 \in Installs
  BY ResourceAssumption DEF Downloads, Installs
<1> QED  BY <1>1, <1>2 DEF IdleWorker, WorkerState, Positions

FilesType == [Resources -> {"none", "part", "whole", "bad"}]

(* The fields of a worker that comes to another position.                  *)
LEMMA PositionFields ==
    ASSUME NEW ws \in WorkerState, NEW pc \in Positions, NEW v, v = [ws EXCEPT !.pc = pc]
    PROVE  /\ v \in WorkerState /\ SameJob(v, ws) /\ v.pc = pc /\ v.open = ws.open
           /\ v.myDl = ws.myDl /\ v.myInst = ws.myInst /\ v.view = ws.view /\ v.mine = ws.mine
  BY DEF WorkerState, SameJob

(* A step of a worker.                                                     *)
LEMMA WorkerStep ==
    ASSUME RDInv, NEW k \in Workers, NEW v \in WorkerState, w' = [w EXCEPT ![k] = v],
           RDTypeOK', RowsHold', Grows, WorkerInv(v)',
           \A j \in Workers \ {k} : /\ Untouched(w[j])
                                    /\ v.myDl \cap w[j].myDl = {}
                                    /\ v.myInst \cap w[j].myInst = {}
    PROVE  RDInv'
<1>0. w' \in [Workers -> WorkerState] /\ w'[k] = v /\ \A j \in Workers \ {k} : w'[j] = w[j]
  BY DEF RDInv, RDTypeOK
<1>1. Exclusive'
  BY <1>0 DEF RDInv, Exclusive
<1>2. ASSUME NEW j \in Workers
      PROVE  WorkerInv(w[j])'
  <2>1. PICK z : z = w'[j]
    OBVIOUS
  <2>2. WorkerInv(z)'
    <3>1. CASE j = k
      BY <1>0, <2>1, <3>1
    <3>2. CASE j # k
      <4>1. z = w[j] /\ z \in WorkerState
        BY <1>0, <2>1, <3>2 
      <4>2. Untouched(z) /\ WorkerInv(z)
        <5>1. Untouched(w[j]) /\ WorkerInv(w[j])
          BY <3>2 DEF RDInv
        <5> QED  BY <4>1, <5>1
      <4> QED  BY <4>1, <4>2, Undisturbed DEF RDInv
    <3> QED  BY <3>1, <3>2
  <2>3. /\ Phase(z)' /\ Viewed(z)' /\ KeepsDl(z)' /\ KeepsInst(z)' /\ Prepared(z)' /\ Ordered(z)' /\ Single(z)'
    BY <2>2 DEF WorkerInv
  <2>4. Phase(w[j])' /\ Prepared(w[j])' /\ Ordered(w[j])'
    BY <2>1, <2>3 DEF Phase, Prepared, Ordered
  <2>5. Viewed(w[j])'
    BY <2>1, <2>3 DEF Viewed, Shown
  <2>6. KeepsDl(w[j])' /\ KeepsInst(w[j])'
    BY <2>1, <2>3 DEF KeepsDl, KeepsInst
  <2>7. Single(w[j])'
    BY <2>1, <2>3 DEF Single
  <2> QED  BY <2>4, <2>5, <2>6, <2>7 DEF WorkerInv
<1> QED  BY <1>1, <1>2 DEF RDInv

(* A step of a worker that commits nothing.                                *)
LEMMA QuietStep ==
    ASSUME RDInv, NEW k \in Workers, NEW u, u = w[k], NEW v \in WorkerState,
           w' = [w EXCEPT ![k] = v], UNCHANGED <<dl, inst, rollbacks, raced, requests>>,
           files' \in FilesType, snaps \subseteq snaps', snaps' \subseteq Resources \X Versions,
           jobs' \in JobsType, \A d \in Downloads : jobs'[d] # "none" => jobs[d] # "none",
           used' \in [dl : 0 .. MaxDownloads, inst : 0 .. MaxInstalls],
           used.dl <= used'.dl, used.inst <= used'.inst, crashes' \in 0 .. MaxCrashes,
           \A j \in Workers \ {k} : /\ \A e \in w[j].myDl : e \in v.myDl => e \in u.myDl
                                    /\ \A i \in w[j].myInst : i \in v.myInst => i \in u.myInst,
           WorkerInv(u)' => WorkerInv(v)'
    PROVE  RDInv'
<1>1. RDTypeOK'
  BY DEF RDInv, RDTypeOK, JobsType, FilesType
<1>2. Grows
  BY DEF Grows, DlKept, InstKept
<1>3. RowsHold'
  <2>1. ActiveHasFiles'
    BY DEF RDInv, RowsHold, ActiveHasFiles
  <2>2. Numbered'
    <3>1. /\ used.dl \in Nat /\ used'.dl \in Nat /\ used.inst \in Nat /\ used'.inst \in Nat
      BY <1>1, NumbersAreNat DEF RDInv, RDTypeOK
    <3> QED  BY <3>1, NumbersAreNat DEF RDInv, RowsHold, Numbered, Known
  <2>3. JobsNamed'
    BY DEF RDInv, RowsHold, JobsNamed, Known
  <2> QED  BY <2>1, <2>2, <2>3, OnceSame DEF RDInv, RowsHold
<1>4. \A j \in Workers : Untouched(w[j])
  BY DEF Untouched
<1>5. WorkerInv(v)'
  <2>1. u \in WorkerState /\ WorkerInv(u) /\ Untouched(u)
    BY <1>4 DEF RDInv, RDTypeOK
  <2> QED  BY <1>1, <1>2, <2>1, Undisturbed DEF RDInv
<1>6. \A j \in Workers \ {k} : v.myDl \cap w[j].myDl = {} /\ v.myInst \cap w[j].myInst = {}
  BY DEF RDInv, Exclusive
<1> QED  BY <1>1, <1>2, <1>3, <1>4, <1>5, <1>6, WorkerStep

(* A worker without a transaction: only the position in the job matters.   *)
LEMMA ClosedInv ==
    ASSUME NEW v \in WorkerState, ~v.open, v.myDl = {}, v.myInst = {},
           v.pc \in {"idle", "begin", "failing", "finish"},
           v.pc # "idle" => Known(dl'[v.d])
    PROVE  WorkerInv(v)'
  BY DEF WorkerInv, Phase, Viewed, KeepsDl, KeepsInst, Prepared, Ordered, Single

LEMMA ClosedWorker ==
    ASSUME NEW v \in WorkerState, ~v.open, v.myDl = {}, v.myInst = {},
           v.pc \in {"idle", "begin", "failing", "finish"},
           v.pc # "idle" => Known(dl[v.d])
    PROVE  WorkerInv(v)
  BY DEF WorkerInv, Phase, Viewed, KeepsDl, KeepsInst, Prepared, Ordered, Single

(* A step of a worker that writes no row and creates none.                 *)
LEMMA StillStep ==
    ASSUME RDInv, NEW k \in Workers, NEW u, u = w[k], NEW v \in WorkerState,
           w' = [w EXCEPT ![k] = v],
           UNCHANGED <<dl, inst, snaps, used, rollbacks, raced, requests>>,
           files' \in FilesType, crashes' \in 0 .. MaxCrashes,
           jobs' \in JobsType, \A d \in Downloads : jobs'[d] # "none" => jobs[d] # "none",
           \A j \in Workers \ {k} : /\ \A e \in w[j].myDl : e \in v.myDl => e \in u.myDl
                                    /\ \A i \in w[j].myInst : i \in v.myInst => i \in u.myInst,
           WorkerInv(v)
    PROVE  RDInv'
<1>1. /\ RDTypeOK /\ used.dl <= used.dl /\ used.inst <= used.inst
      /\ used \in [dl : 0 .. MaxDownloads, inst : 0 .. MaxInstalls] /\ snaps \subseteq Resources \X Versions
  BY NumbersAreNat DEF RDInv, RDTypeOK
<1>2. RDTypeOK'
  BY <1>1 DEF RDTypeOK, JobsType, FilesType
<1>3. Grows /\ Untouched(v)
  BY <1>1 DEF Grows, DlKept, InstKept, Untouched
<1>4. WorkerInv(v)'
  BY <1>1, <1>2, <1>3, Undisturbed
<1> QED  BY <1>1, <1>4, QuietStep

LEMMA Steady ==
    ASSUME RDTypeOK
    PROVE  /\ UNCHANGED files => files' \in FilesType
           /\ UNCHANGED crashes => crashes' \in 0 .. MaxCrashes
           /\ UNCHANGED jobs => /\ jobs' \in JobsType
                               /\ \A d \in Downloads : jobs'[d] # "none" => jobs[d] # "none"
  BY DEF RDTypeOK, FilesType, JobsType

LEMMA TakeJobStep ==
    ASSUME RDInv, NEW k \in Workers, NEW d \in Downloads, TakeJob(k, d)
    PROVE  RDInv'
<1>1. PICK v : v = [IdleWorker EXCEPT !.pc = "begin", !.d = d]
  OBVIOUS
<1>2. v \in WorkerState /\ v.pc = "begin" /\ v.d = d /\ ~v.open /\ v.myDl = {} /\ v.myInst = {}
  BY <1>1, IdleWorkerFields DEF WorkerState, Positions
<1>3. PICK u : u = w[k]
  OBVIOUS
<1>4. RDTypeOK /\ Known(dl[d])
  BY DEF RDInv, RowsHold, JobsNamed, TakeJob
<1>6. WorkerInv(v)
  BY <1>2, <1>4, ClosedWorker
<1>7. jobs' \in JobsType /\ \A e \in Downloads : jobs'[e] # "none" => jobs[e] # "none"
  BY <1>4 DEF TakeJob, RDTypeOK, JobsType
<1> QED
  BY <1>1, <1>2, <1>3, <1>4, <1>6, <1>7, Steady, StillStep DEF TakeJob, Others

LEMMA FinishStep ==
    ASSUME RDInv, NEW k \in Workers, Finish(k) \/ Die(k)
    PROVE  RDInv'
<1>1. PICK v : v = IdleWorker
  OBVIOUS
<1>2. v \in WorkerState /\ v.pc = "idle" /\ ~v.open /\ v.myDl = {} /\ v.myInst = {}
  BY <1>1, IdleWorkerFields
<1>3. PICK u : u = w[k]
  OBVIOUS
<1>4. RDTypeOK
  BY DEF RDInv
<1>6. WorkerInv(v)
  BY <1>2, ClosedWorker
<1>7. jobs' \in JobsType /\ \A e \in Downloads : jobs'[e] # "none" => jobs[e] # "none"
  BY <1>4 DEF Finish, Die, RDTypeOK, JobsType
<1>8. files' \in FilesType /\ crashes' \in 0 .. MaxCrashes
  BY <1>4, ResourceAssumption DEF Finish, Die, RDTypeOK, FilesType
<1> QED
  BY <1>1, <1>2, <1>3, <1>6, <1>7, <1>8, StillStep DEF Finish, Die, Others

LEMMA BeginStep == ASSUME RDInv, NEW k \in Workers, Begin(k) PROVE RDInv'
<1>1. PICK u : u = w[k]
  OBVIOUS
<1> DEFINE d == u.d
           row == [dl[d] EXCEPT !.status = "Waiting Dependencies"]
           todo == Deps[dl[d].res] \ InstalledIn(inst)
<1>2. RDTypeOK /\ WorkerInv(u) /\ u \in WorkerState
  BY <1>1 DEF RDInv, RDTypeOK
<1>3. /\ u.pc = "begin" /\ ~u.open /\ u.myDl = {} /\ u.myInst = {} /\ d \in Downloads /\ Known(dl[d])
      /\ dl[d] \in DlRow
  BY <1>1, <1>2, WorkerFields DEF Begin, WorkerInv, Phase, RDTypeOK
<1>4. row \in DlRow /\ Known(row) /\ row.res = dl[d].res /\ row.parent = dl[d].parent
  BY <1>3 DEF DlRow, Known, Status, Active, InFlight
<1>5. dl[d].res \in Resources /\ todo \subseteq Resources
  BY <1>3, RowFields, ResourceAssumption
<1>6. PICK o : o = Opened(u)
  OBVIOUS
<1>7. PICK p : p = PutDl(o, d, row)
  OBVIOUS
<1>8. PICK v : v = [p EXCEPT !.todo = todo, !.pc = "resolve"]
  OBVIOUS
<1>9. w' = [w EXCEPT ![k] = v]
  BY <1>1, <1>6, <1>7, <1>8 DEF Begin
<1> HIDE DEF row
<1>10. /\ o \in WorkerState /\ o.open /\ o.view = Now /\ o.myDl = {} /\ o.myInst = {} /\ SameJob(o, u)
  BY <1>2, <1>3, <1>6, OpenedFields
<1>11. /\ p \in WorkerState /\ p.open /\ p.view = Now /\ p.myDl = {d} /\ p.myInst = {} /\ SameJob(p, u)
       /\ p.mine.dl[d] = row
  BY <1>3, <1>4, <1>7, <1>10, PutDlFields DEF SameJob
<1> HIDE DEF d, todo
<1>12. /\ v \in WorkerState /\ v.open /\ v.view = Now /\ v.myDl = {d} /\ v.myInst = {}
       /\ v.mine.dl[d] = row /\ v.d = d /\ v.todo = todo /\ v.pc = "resolve"
  BY <1>5, <1>8, <1>11 DEF WorkerState, SameJob, Positions, d
<1>13. Phase(v) /\ Prepared(v) /\ KeepsInst(v)
  BY <1>3, <1>12 DEF Phase, Prepared, KeepsInst
<1>14. Viewed(v)
  BY <1>2, <1>4, <1>12 DEF Viewed, Shown, Now, RDInv, RowsHold, Numbered
<1>15. KeepsDl(v)
  BY <1>3, <1>4, <1>12 DEF KeepsDl, RDInv, RowsHold, Numbered
<1>16. Ordered(v)
  BY <1>12 DEF Ordered, Served, InstalledIn, Settled, todo
<1>17. WorkerInv(v)
  <2>1. Single(v)
    BY <1>12 DEF Single, Now, RDInv, RowsHold, InUseOnce, ActiveKnown
  <2> QED  BY <1>13, <1>14, <1>15, <1>16, <2>1 DEF WorkerInv
<1>18. \A j \in Workers \ {k} : d \notin w[j].myDl
  BY <1>1 DEF Begin, DlFree, d
<1>19. \A j \in Workers \ {k} : /\ \A e \in w[j].myDl : e \in v.myDl => e \in u.myDl
                                /\ \A i \in w[j].myInst : i \in v.myInst => i \in u.myInst
  BY <1>12, <1>18
<1>20. UNCHANGED <<dl, inst, files, snaps, jobs, used, crashes, rollbacks, raced, requests>>
  BY DEF Begin, Others
<1>21. /\ files' \in FilesType /\ crashes' \in 0 .. MaxCrashes
       /\ jobs' \in JobsType /\ \A e \in Downloads : jobs'[e] # "none" => jobs[e] # "none"
  BY <1>2, <1>20, Steady
<1> QED
  BY <1>1, <1>9, <1>12, <1>17, <1>19, <1>20, <1>21, StillStep

(* What a commit leaves of the rows.                                       *)
LEMMA CommitKeeps ==
    ASSUME RDInv, NEW u \in WorkerState, Commit(u), KeepsDl(u), KeepsInst(u)
    PROVE  /\ dl' \in [Downloads -> DlRow] /\ inst' \in [Installs -> InstRow]
           /\ \A d \in Downloads : dl'[d] = IF d \in u.myDl THEN u.mine.dl[d] ELSE dl[d]
           /\ \A i \in Installs : inst'[i] = IF i \in u.myInst THEN u.mine.inst[i] ELSE inst[i]
           /\ DlKept /\ InstKept
<1>1. RDTypeOK
  BY DEF RDInv
<1>2. /\ dl' \in [Downloads -> DlRow] /\ inst' \in [Installs -> InstRow]
      /\ \A d \in Downloads : dl'[d] = IF d \in u.myDl THEN u.mine.dl[d] ELSE dl[d]
      /\ \A i \in Installs : inst'[i] = IF i \in u.myInst THEN u.mine.inst[i] ELSE inst[i]
  BY <1>1, WorkerFields DEF Commit, CommitDl, CommitInst, RDTypeOK
<1>3. DlKept
  BY <1>2 DEF DlKept, KeepsDl
<1>4. InstKept
  BY <1>2 DEF InstKept, KeepsInst, Known, Settled
<1> QED  BY <1>2, <1>3, <1>4

(* A transaction that keeps the rows it must keep may commit.              *)
LEMMA CommitStep ==
    ASSUME RDInv, NEW k \in Workers, NEW u \in WorkerState, Commit(u), KeepsDl(u), KeepsInst(u),
           Single(u), u.open \/ u.myInst = {},
           \A j \in Workers \ {k} : u.myDl \cap w[j].myDl = {} /\ u.myInst \cap w[j].myInst = {},
           NEW v \in WorkerState, w' = [w EXCEPT ![k] = v], ~v.open, v.myDl = {}, v.myInst = {},
           v.pc \in {"finish", "installed"}, v.pc = "installed" => Ordered(v)', Known(dl[v.d]),
           UNCHANGED <<files, snaps, jobs, used, crashes, rollbacks, requests>>
    PROVE  RDInv' /\ InstalledIn(inst) \subseteq InstalledIn(inst')
<1>1. RDTypeOK /\ RowsHold
  BY DEF RDInv
<1>2. /\ dl' \in [Downloads -> DlRow] /\ inst' \in [Installs -> InstRow]
      /\ \A d \in Downloads : dl'[d] = IF d \in u.myDl THEN u.mine.dl[d] ELSE dl[d]
      /\ \A i \in Installs : inst'[i] = IF i \in u.myInst THEN u.mine.inst[i] ELSE inst[i]
  BY CommitKeeps
<1>3. raced' \subseteq Resources
  BY <1>1 DEF Commit, UnseenBy, RDTypeOK
<1>4. DlKept
  BY CommitKeeps
<1>5. InstKept
  BY CommitKeeps
<1>6. RDTypeOK'
  BY <1>1, <1>2, <1>3 DEF RDTypeOK
<1>7. Grows
  BY <1>1, <1>4, <1>5, NumbersAreNat DEF Grows
<1>8. RowsHold'
  <2>1. ActiveHasFiles'
    BY <1>1, <1>2 DEF RowsHold, ActiveHasFiles, KeepsInst, OnDisk
  <2>2. Numbered'
    <3>1. \A d \in Downloads : Known(dl'[d]) => d <= used.dl /\ dl'[d].parent < d
      BY <1>1, <1>2 DEF RowsHold, Numbered, KeepsDl
    <3>2. \A i \in Installs : Known(inst'[i]) \/ inst'[i].active => i <= used.inst
      BY <1>1, <1>2 DEF RowsHold, Numbered, KeepsInst
    <3> QED  BY <3>1, <3>2 DEF Numbered, Known
  <2>3. JobsNamed'
    BY <1>1, <1>4, <1>5 DEF RDTypeOK, RowsHold, JobsNamed, DlKept, InstKept, Known
  <2>4. ActiveKnown'
    BY <1>1, <1>2 DEF RowsHold, InUseOnce, ActiveKnown, KeepsInst, Known
  <2>5. OneActive'
    <3>1. ASSUME NEW i \in u.myInst, NEW j \in Installs \ u.myInst,
                 u.mine.inst[i].active, inst[j].active, u.mine.inst[i].res = inst[j].res
          PROVE  inst[j].res \in raced'
      <4>1. ~u.view.inst[j].active
        BY <3>1 DEF Single
      <4>2. inst[j].res \in Resources
        BY <1>1, RowFields DEF RDTypeOK
      <4> QED  BY <3>1, <4>1, <4>2 DEF Commit, UnseenBy
    <3>2. raced \subseteq raced'
      BY DEF Commit
    <3>3. ASSUME NEW i \in Installs, NEW j \in Installs, inst'[i].active, inst'[j].active,
                 inst'[i].res = inst'[j].res, inst'[i].res \notin raced'
          PROVE  i = j
      <4>1. CASE i \in u.myInst /\ j \in u.myInst
        BY <1>2, <3>3, <4>1 DEF Single
      <4>2. CASE i \notin u.myInst /\ j \notin u.myInst
        BY <1>1, <1>2, <3>2, <3>3, <4>2 DEF RowsHold, InUseOnce, OneActive
      <4>3. CASE i \in u.myInst /\ j \notin u.myInst
        BY <1>2, <3>1, <3>3, <4>3
      <4>4. CASE i \notin u.myInst /\ j \in u.myInst
        BY <1>2, <3>1, <3>3, <4>4
      <4> QED  BY <4>1, <4>2, <4>3, <4>4
    <3> QED  BY <3>3 DEF OneActive
  <2> QED  BY <2>1, <2>2, <2>3, <2>4, <2>5 DEF RowsHold, InUseOnce
<1>9. \A j \in Workers \ {k} : /\ Untouched(w[j])
                               /\ v.myDl \cap w[j].myDl = {} /\ v.myInst \cap w[j].myInst = {}
  <2>1. SUFFICES ASSUME NEW j \in Workers \ {k}
                 PROVE  Untouched(w[j])
    OBVIOUS
  <2>2. w[j].myDl \subseteq Downloads /\ w[j].myInst \subseteq Installs
    BY <1>1, WorkerFields DEF RDTypeOK
  <2>3. u.myDl \cap w[j].myDl = {} /\ u.myInst \cap w[j].myInst = {}
    OBVIOUS
  <2> QED  BY <1>2, <2>2, <2>3 DEF Untouched
<1>10. v.d \in Downloads /\ Known(dl'[v.d])
  BY <1>4, WorkerFields DEF DlKept
<1>11. WorkerInv(v)'
  <2>1. CASE v.pc = "finish"
    BY <1>10, <2>1, ClosedInv
  <2>2. CASE v.pc = "installed"
    BY <1>10, <2>2 DEF WorkerInv, Phase, Viewed, KeepsDl, KeepsInst, Prepared, Single
  <2> QED  BY <2>1, <2>2
<1>12. InstalledIn(inst) \subseteq InstalledIn(inst')
  <2>1. SUFFICES ASSUME NEW i \in Installs, InUse(inst[i])
                 PROVE  \E j \in Installs : InUse(inst'[j]) /\ inst'[j].res = inst[i].res
    BY DEF InstalledIn, InUse
  <2>2. CASE i \in u.myInst
    <3>1. PICK j \in u.myInst : InUse(u.mine.inst[j]) /\ u.mine.inst[j].res = inst[i].res
      BY <2>1, <2>2 DEF KeepsInst
    <3>2. j \in Installs
      BY WorkerFields
    <3> QED  BY <1>2, <3>1, <3>2
  <2>3. CASE i \notin u.myInst
    BY <1>2, <2>1, <2>3
  <2> QED  BY <2>2, <2>3
<1> QED  BY <1>6, <1>7, <1>8, <1>9, <1>11, <1>12, WorkerStep

(* A transaction that an error rolled back.                                *)
LEMMA ClosedStep ==
    ASSUME RDInv, NEW k \in Workers, w[k].pc # "idle", NEW pc \in {"failing", "finish"},
           w' = [w EXCEPT ![k] = [Closed(w[k]) EXCEPT !.pc = pc]],
           UNCHANGED <<dl, inst, files, snaps, jobs, used, crashes, rollbacks, raced, requests>>
    PROVE  RDInv' /\ w'[k].pc = pc
<1>1. PICK u : u = w[k]
  OBVIOUS
<1>2. RDTypeOK /\ u \in WorkerState /\ WorkerInv(u) /\ u.pc # "idle"
  BY <1>1 DEF RDInv, RDTypeOK
<1>3. PICK c : c = Closed(u)
  OBVIOUS
<1>4. PICK v : v = [c EXCEPT !.pc = pc]
  OBVIOUS
<1>5. w' = [w EXCEPT ![k] = v]
  BY <1>1, <1>3, <1>4
<1>6. c \in WorkerState /\ SameJob(c, u) /\ ~c.open /\ c.myDl = {} /\ c.myInst = {}
  BY <1>2, <1>3, ClosedFields
<1>7. /\ v \in WorkerState /\ v.pc = pc /\ v.d = u.d /\ ~v.open /\ v.myDl = {} /\ v.myInst = {}
  BY <1>4, <1>6 DEF WorkerState, Positions, SameJob
<1>8. Known(dl[v.d])
  BY <1>2, <1>7 DEF WorkerInv, Phase
<1>9. WorkerInv(v)
  BY <1>7, <1>8, ClosedWorker
<1>10. RDInv'
  BY <1>1, <1>2, <1>5, <1>7, <1>9, Steady, StillStep
<1> QED  BY <1>2, <1>5, <1>7, <1>10 DEF RDTypeOK

(* What a transaction sees of a download that exists.                      *)
LEMMA ShownRow ==
    ASSUME RDTypeOK, RowsHold, NEW u \in WorkerState, WorkerInv(u), u.open,
           NEW e \in Downloads, Known(Shown(u, e))
    PROVE  /\ Shown(u, e) \in DlRow /\ Shown(u, e).parent < e /\ e <= used.dl
           /\ Known(dl[e]) => dl[e].res = Shown(u, e).res
           /\ e \notin u.myDl => Known(dl[e])
<1> USE WorkerFields
<1>1. CASE e \in u.myDl
  BY <1>1 DEF WorkerInv, KeepsDl, Shown
<1>2. CASE e \notin u.myDl
  BY <1>2 DEF WorkerInv, Viewed, Shown, RowsHold, Numbered
<1> QED  BY <1>1, <1>2

(* A transaction writes the row of a download.                             *)
LEMMA DlPut ==
    ASSUME NEW u \in WorkerState, KeepsDl(u), KeepsInst(u), Single(u), NEW d \in Downloads, NEW row \in DlRow,
           Known(row), row.parent < d, d <= used.dl, Known(dl[d]) => dl[d].res = row.res,
           NEW p, p = PutDl(u, d, row)
    PROVE  /\ p \in WorkerState /\ SameJob(p, u) /\ p.pc = u.pc /\ p.open = u.open
           /\ p.myDl = u.myDl \cup {d} /\ p.mine.dl[d] = row
           /\ p.myInst = u.myInst /\ p.mine.inst = u.mine.inst
           /\ KeepsDl(p) /\ KeepsInst(p) /\ Single(p) /\ p.view = u.view
           /\ \A e \in Downloads : Known(Shown(u, e)) => Known(Shown(p, e))
           /\ \A e \in u.myDl : p.mine.dl[e].res = u.mine.dl[e].res \/ e = d
<1>1. /\ p \in WorkerState /\ SameJob(p, u) /\ p.pc = u.pc /\ p.open = u.open /\ p.view = u.view
      /\ p.myDl = u.myDl \cup {d} /\ p.mine.dl[d] = row
      /\ \A e \in Downloads \ {d} : p.mine.dl[e] = u.mine.dl[e]
      /\ p.myInst = u.myInst /\ p.mine.inst = u.mine.inst
  BY PutDlFields
<1>2. KeepsDl(p)
  BY <1>1, WorkerFields DEF KeepsDl
<1>3. KeepsInst(p)
  BY <1>1 DEF KeepsInst
<1>4. \A e \in Downloads : Known(Shown(u, e)) => Known(Shown(p, e))
  BY <1>1, WorkerFields DEF Shown
<1>5. \A e \in u.myDl : p.mine.dl[e].res = u.mine.dl[e].res \/ e = d
  BY <1>1, WorkerFields
<1>6. Single(p)
  BY <1>1 DEF Single
<1> QED  BY <1>1, <1>2, <1>3, <1>4, <1>5, <1>6

LEMMA PausedFields ==
    ASSUME NEW row \in DlRow
    PROVE  /\ PausedRow(row) \in DlRow /\ Known(PausedRow(row))
           /\ PausedRow(row).res = row.res /\ PausedRow(row).parent = row.parent
  BY DEF PausedRow, DlRow, Known, Status, Active

LEMMA NextDependencyStep ==
    ASSUME RDInv, NEW k \in Workers, NEW c \in Resources, NextDependency(k, c)
    PROVE  RDInv' /\ w'[k].pc # "installed"
<1>1. PICK u : u = w[k]
  OBVIOUS
<1>3. RDTypeOK /\ RowsHold /\ u \in WorkerState /\ WorkerInv(u) /\ u.pc = "resolve" /\ u.open /\ u.myInst = {}
  BY <1>1 DEF RDInv, RDTypeOK, NextDependency, WorkerInv, Phase
<1>4. /\ UNCHANGED <<dl, inst, files, snaps, jobs, crashes, rollbacks, raced, requests>>
      /\ \A e : DlSeen(k, e) = Shown(u, e)
  BY <1>1 DEF NextDependency, Others, DlSeen, Shown
<1>5. /\ files' \in FilesType /\ crashes' \in 0 .. MaxCrashes
      /\ jobs' \in JobsType /\ \A e \in Downloads : jobs'[e] # "none" => jobs[e] # "none"
  BY <1>3, <1>4, Steady
<1>6. \A v : w' = [w EXCEPT ![k] = v] => w'[k] = v
  BY <1>3 DEF RDTypeOK
<1>7. Known(Shown(u, u.d)) /\ Known(dl[u.d]) /\ u.d \in Downloads
  BY <1>3, WorkerFields DEF WorkerInv, Viewed, Phase
<1>10. ASSUME NEW e \in Children(k, c), ~PauseDue(DlSeen(k, e)),
              w' = [w EXCEPT ![k].cur = e, ![k].pc = "fetch"], UNCHANGED used
       PROVE  RDInv' /\ w'[k].pc # "installed"
  <2>1. PICK v : v = [u EXCEPT !.cur = e, !.pc = "fetch"]
    OBVIOUS
  <2>2. e \in Downloads /\ Known(Shown(u, e)) /\ Shown(u, e).parent = u.d
    BY <1>1, <1>4, <1>10, StatusSets DEF Children, Known
  <2>3. e # u.d
    BY <1>3, <1>7, <2>2, ShownRow, NumbersAreNat
  <2>4. /\ v \in WorkerState /\ v.pc = "fetch" /\ v.cur = e /\ v.d = u.d /\ v.todo = u.todo
        /\ v.skipped = u.skipped /\ v.open /\ v.myDl = u.myDl /\ v.myInst = {}
        /\ v.view = u.view /\ v.mine = u.mine
    BY <1>3, <2>1, <2>2 DEF WorkerState, Positions
  <2>5. w' = [w EXCEPT ![k] = v]
    BY <1>1, <1>3, <1>10, <2>1 DEF RDTypeOK, WorkerState
  <2>6. Phase(v) /\ Prepared(v) /\ KeepsDl(v) /\ KeepsInst(v) /\ Viewed(v) /\ Single(v)
    BY <1>3, <2>2, <2>4 DEF WorkerInv, Phase, Prepared, KeepsDl, KeepsInst, Viewed, Shown, Single
  <2>7. Ordered(v)
    BY <1>3, <2>3, <2>4 DEF WorkerInv, Ordered
  <2>8. RDInv'
    BY <1>1, <1>4, <1>5, <1>10, <2>4, <2>5, <2>6, <2>7, StillStep DEF WorkerInv
  <2> QED  BY <1>6, <2>4, <2>5, <2>8
<1>11. ASSUME NEW e \in Children(k, c), PauseDue(DlSeen(k, e)), MayWriteDl(k, e), UNCHANGED used,
              w' = [w EXCEPT ![k] = [PutDl(w[k], e, PausedRow(DlSeen(k, e)))
                                       EXCEPT !.todo = {}, !.skipped = TRUE]]
       PROVE  RDInv' /\ w'[k].pc # "installed"
  <2>1. PICK row : row = PausedRow(Shown(u, e))
    OBVIOUS
  <2>2. e \in Downloads /\ Known(Shown(u, e))
    BY <1>4, <1>11, StatusSets DEF Children, Known
  <2>3. /\ row \in DlRow /\ Known(row) /\ row.parent < e /\ e <= used.dl
        /\ Known(dl[e]) => dl[e].res = row.res
    BY <1>3, <2>1, <2>2, ShownRow, PausedFields
  <2>4. PICK p : p = PutDl(u, e, row)
    OBVIOUS
  <2>5. PICK v : v = [p EXCEPT !.todo = {}, !.skipped = TRUE]
    OBVIOUS
  <2>6. w' = [w EXCEPT ![k] = v]
    BY <1>1, <1>4, <1>11, <2>1, <2>4, <2>5
  <2>7. /\ p \in WorkerState /\ SameJob(p, u) /\ p.pc = u.pc /\ p.open
        /\ p.myDl = u.myDl \cup {e} /\ p.mine.dl[e] = row
        /\ p.myInst = u.myInst /\ p.mine.inst = u.mine.inst
        /\ KeepsDl(p) /\ KeepsInst(p) /\ p.view = u.view
        /\ \A x \in Downloads : Known(Shown(u, x)) => Known(Shown(p, x))
    BY <1>3, <2>2, <2>3, <2>4, DlPut DEF WorkerInv
  <2>8. /\ v \in WorkerState /\ v.d = u.d /\ v.pc = "resolve" /\ v.open /\ v.myDl = u.myDl \cup {e}
        /\ v.myInst = {} /\ v.view = u.view /\ v.mine = p.mine /\ v.skipped /\ v.cur = u.cur
    BY <1>3, <2>5, <2>7 DEF WorkerState, SameJob
  <2>9. Phase(v) /\ Prepared(v) /\ KeepsDl(v) /\ KeepsInst(v) /\ Ordered(v) /\ Single(v)
    BY <1>3, <2>7, <2>8 DEF WorkerInv, Phase, Prepared, KeepsDl, KeepsInst, Ordered, Single
  <2>10. Viewed(v)
    <3>1. \A x : Shown(v, x) = Shown(p, x)
      BY <2>7, <2>8 DEF Shown
    <3> QED  BY <1>3, <1>7, <2>7, <2>8, <3>1 DEF WorkerInv, Viewed
  <2>11. \A j \in Workers \ {k} : /\ \A x \in w[j].myDl : x \in v.myDl => x \in u.myDl
                                  /\ \A i \in w[j].myInst : i \in v.myInst => i \in u.myInst
    BY <1>1, <1>11, <2>8 DEF MayWriteDl, DlFree
  <2>12. RDInv'
    BY <1>1, <1>4, <1>5, <1>11, <2>6, <2>8, <2>9, <2>10, <2>11, StillStep DEF WorkerInv
  <2> QED  BY <1>6, <2>6, <2>8, <2>12
<1>12. ASSUME UNCHANGED used, Raise(k)
       PROVE  RDInv' /\ w'[k].pc # "installed"
  <2>1. PICK v : v = [u EXCEPT !.pc = "failing"]
    OBVIOUS
  <2>2. /\ v \in WorkerState /\ v.pc = "failing" /\ v.d = u.d /\ v.open /\ v.myDl = u.myDl /\ v.myInst = {}
        /\ v.view = u.view /\ v.mine = u.mine
    BY <1>3, <2>1 DEF WorkerState, Positions
  <2>3. w' = [w EXCEPT ![k] = v]
    BY <1>1, <1>3, <1>12, <2>1 DEF RDTypeOK, Raise, Goto
  <2>4. WorkerInv(v)
    <3>1. Phase(v) /\ Prepared(v) /\ Ordered(v) /\ KeepsInst(v) /\ Single(v)
      BY <1>3, <2>2 DEF WorkerInv, Phase, Prepared, KeepsInst, Ordered, Single
    <3>2. KeepsDl(v) /\ Viewed(v)
      BY <1>3, <2>2 DEF WorkerInv, KeepsDl, Viewed, Shown
    <3> QED  BY <3>1, <3>2 DEF WorkerInv
  <2>5. RDInv'
    BY <1>1, <1>4, <1>5, <1>12, <2>2, <2>3, <2>4, StillStep
  <2> QED  BY <1>6, <2>2, <2>3, <2>5
<1>13. ASSUME used.dl + 1 \in Downloads, used' = [used EXCEPT !.dl = used.dl + 1],
              w' = [w EXCEPT ![k] = [PutDl(w[k], used.dl + 1, NewDl(c, w[k].d))
                                       EXCEPT !.cur = used.dl + 1, !.pc = "fetch"]]
       PROVE  RDInv' /\ w'[k].pc # "installed"
  <2>1. PICK e : e = used.dl + 1
    OBVIOUS
  <2>2. PICK row : row = NewDl(c, u.d)
    OBVIOUS
  <2>3. e \in Downloads /\ used.dl \in Nat /\ used.inst \in Nat /\ e > used.dl /\ u.d \in Nat /\ u.d <= used.dl
    BY <1>3, <1>7, <1>13, <2>1, NumbersAreNat DEF RowsHold, Numbered
  <2>4. ~Known(dl[e])
    <3>1. e \in Nat /\ ~(e <= used.dl)
      BY <2>3, NumbersAreNat
    <3> QED  BY <1>3, <2>3, <3>1 DEF RowsHold, Numbered
  <2>5. row \in DlRow /\ Known(row) /\ row.parent = u.d
    <3>1. u.d \in 0 .. MaxDownloads
      BY <1>7, ResourceAssumption DEF Downloads
    <3> QED  BY <2>2, <3>1, NoRowTypes, StatusSets DEF NewDl, DlRow, NoDl, Known, Status, Active, InFlight
  <2>6. PICK p : p = PutDl(u, e, row)
    OBVIOUS
  <2>7. PICK v : v = [p EXCEPT !.cur = e, !.pc = "fetch"]
    OBVIOUS
  <2>8. w' = [w EXCEPT ![k] = v]
    BY <1>1, <1>13, <2>1, <2>2, <2>6, <2>7
  <2>9. /\ used'.dl = e /\ used'.inst = used.inst
        /\ used' \in [dl : 0 .. MaxDownloads, inst : 0 .. MaxInstalls]
    BY <1>3, <1>13, <2>1, <2>3 DEF RDTypeOK, Downloads
  <2>10. /\ p \in WorkerState /\ SameJob(p, u) /\ p.open /\ p.view = u.view
         /\ p.myDl = u.myDl \cup {e} /\ p.mine.dl[e] = row
         /\ \A x \in Downloads \ {e} : p.mine.dl[x] = u.mine.dl[x]
         /\ p.myInst = u.myInst /\ p.mine.inst = u.mine.inst
    BY <1>3, <2>3, <2>5, <2>6, PutDlFields
  <2>11. /\ v \in WorkerState /\ v.d = u.d /\ v.pc = "fetch" /\ v.open /\ v.myDl = u.myDl \cup {e}
         /\ v.myInst = {} /\ v.view = u.view /\ v.mine = p.mine /\ v.skipped = u.skipped
         /\ v.cur = e /\ v.todo = u.todo
    BY <1>3, <2>3, <2>7, <2>10 DEF WorkerState, SameJob, Positions
  <2>12. ASSUME WorkerInv(u)'
         PROVE  WorkerInv(v)'
    <3>1. Phase(v)' /\ Prepared(v)' /\ KeepsInst(v)' /\ Single(v)'
      BY <1>3, <2>11, <2>12 DEF WorkerInv, Phase, Prepared, KeepsInst, Single
    <3>2. KeepsDl(v)'
      <4>1. SUFFICES ASSUME NEW x \in v.myDl
                     PROVE  /\ Known(v.mine.dl[x]) /\ v.mine.dl[x].parent < x /\ x <= used'.dl
                            /\ Known(dl'[x]) => dl'[x].res = v.mine.dl[x].res
        BY DEF KeepsDl, Known
      <4>2. CASE x = e
        BY <1>4, <2>3, <2>4, <2>5, <2>9, <2>10, <2>11, <4>2
      <4>3. CASE x # e
        <5>1. x \in u.myDl /\ v.mine.dl[x] = u.mine.dl[x]
          BY <1>3, <2>10, <2>11, <4>1, <4>3, WorkerFields
        <5> QED  BY <2>12, <5>1 DEF WorkerInv, KeepsDl, Known
      <4> QED  BY <4>2, <4>3
    <3>3. Viewed(v)'
      <4>1. Known(Shown(v, e)) /\ Shown(v, u.d) = Shown(u, u.d)
        BY <1>7, <2>3, <2>5, <2>10, <2>11 DEF Shown
      <4>2. Known(Shown(v, v.d)) /\ Known(Shown(v, v.cur))
        BY <1>7, <2>11, <4>1
      <4> QED  BY <1>3, <2>11, <2>12, <4>2 DEF WorkerInv, Viewed, Known, Shown
    <3>4. Ordered(v)'
      BY <1>3, <2>3, <2>11, <2>12 DEF WorkerInv, Ordered
    <3> QED  BY <3>1, <3>2, <3>3, <3>4 DEF WorkerInv
  <2>13. \A j \in Workers \ {k} : /\ \A x \in w[j].myDl : x \in v.myDl => x \in u.myDl
                                  /\ \A i \in w[j].myInst : i \in v.myInst => i \in u.myInst
    <3>1. \A j \in Workers : e \notin w[j].myDl
      BY <2>3, NumbersAreNat, WorkerFields DEF RDInv, RDTypeOK, WorkerInv, KeepsDl
    <3> QED  BY <2>11, <3>1
  <2>14. used.dl <= used'.dl /\ used.inst <= used'.inst /\ snaps \subseteq snaps' /\ snaps' \subseteq Resources \X Versions
    BY <1>3, <1>4, <2>3, <2>9, NumbersAreNat DEF RDTypeOK
  <2>15. RDInv'
    BY <1>1, <1>4, <1>5, <2>8, <2>9, <2>11, <2>12, <2>13, <2>14, QuietStep
  <2> QED  BY <1>6, <2>8, <2>11, <2>15
<1> QED
  <2>1. CASE \E e \in Children(k, c) : /\ PauseDue(DlSeen(k, e)) /\ RaiseDb(k) /\ UNCHANGED used
    <3>1. w[k].pc # "idle"
      BY <1>1, <1>3
    <3> QED  BY <1>4, <2>1, <3>1, ClosedStep DEF RaiseDb
  <2>2. CASE \/ Raise(k) /\ UNCHANGED used
             \/ /\ used.dl + 1 \in Downloads /\ used' = [used EXCEPT !.dl = used.dl + 1]
                /\ w' = [w EXCEPT ![k] = [PutDl(w[k], used.dl + 1, NewDl(c, w[k].d))
                                       EXCEPT !.cur = used.dl + 1, !.pc = "fetch"]]
    BY <1>12, <1>13, <2>2
  <2>3. CASE \E e \in Children(k, c) : /\ PauseDue(DlSeen(k, e)) /\ MayWriteDl(k, e) /\ UNCHANGED used
                 /\ w' = [w EXCEPT ![k] = [PutDl(w[k], e, PausedRow(DlSeen(k, e)))
                                       EXCEPT !.todo = {}, !.skipped = TRUE]]
    BY <1>11, <2>3
  <2>4. CASE \E e \in Children(k, c) : /\ ~PauseDue(DlSeen(k, e)) /\ UNCHANGED used
                 /\ w' = [w EXCEPT ![k].cur = e, ![k].pc = "fetch"]
    BY <1>10, <2>4
  <2> QED  BY <2>1, <2>2, <2>3, <2>4 DEF NextDependency

(* A worker writes the row of its own download and ends its transaction.   *)
LEMMA EndStep ==
    ASSUME RDInv, NEW k \in Workers, w[k].pc # "idle", NEW x \in WorkerState, Commit(x),
           KeepsDl(x), KeepsInst(x), Single(x), x.open \/ x.myInst = {}, NEW y \in WorkerState, y.d = w[k].d,
           \A j \in Workers \ {k} : x.myDl \cap w[j].myDl = {} /\ x.myInst \cap w[j].myInst = {},
           w' = [w EXCEPT ![k] = [Closed(y) EXCEPT !.pc = "finish"]],
           UNCHANGED <<files, snaps, jobs, used, crashes, rollbacks, requests>>
    PROVE  RDInv' /\ w'[k].pc = "finish" /\ InstalledIn(inst) \subseteq InstalledIn(inst')
<1>1. PICK u : u = w[k]
  OBVIOUS
<1>2. RDTypeOK /\ u \in WorkerState /\ WorkerInv(u) /\ u.pc # "idle" /\ Known(dl[u.d])
  BY <1>1 DEF RDInv, RDTypeOK, WorkerInv, Phase
<1>3. PICK c : c = Closed(y)
  OBVIOUS
<1>4. PICK v : v = [c EXCEPT !.pc = "finish"]
  OBVIOUS
<1>5. w' = [w EXCEPT ![k] = v]
  BY <1>3, <1>4
<1>6. c \in WorkerState /\ SameJob(c, y) /\ ~c.open /\ c.myDl = {} /\ c.myInst = {}
  BY <1>3, ClosedFields
<1>7. /\ v \in WorkerState /\ v.pc = "finish" /\ v.d = u.d /\ ~v.open /\ v.myDl = {} /\ v.myInst = {}
  BY <1>1, <1>4, <1>6 DEF WorkerState, Positions, SameJob
<1>8. RDInv' /\ InstalledIn(inst) \subseteq InstalledIn(inst')
  BY <1>2, <1>5, <1>7, CommitStep
<1> QED  BY <1>2, <1>5, <1>7, <1>8 DEF RDTypeOK

LEMMA Apart ==
    ASSUME RDInv, NEW k \in Workers, NEW d \in Downloads, d \in w[k].myDl \/ DlFree(k, d)
    PROVE  \A j \in Workers \ {k} : /\ (w[k].myDl \cup {d}) \cap w[j].myDl = {}
                                    /\ w[k].myInst \cap w[j].myInst = {}
  BY DEF RDInv, Exclusive, DlFree

LEMMA DependenciesDoneStep ==
    ASSUME RDInv, NEW k \in Workers, DependenciesDone(k)
    PROVE  RDInv' /\ w'[k].pc # "installed" /\ InstalledIn(inst) \subseteq InstalledIn(inst')
<1>1. PICK u : u = w[k]
  OBVIOUS
<1>3. /\ RDTypeOK /\ RowsHold /\ u \in WorkerState /\ WorkerInv(u) /\ u.pc = "resolve" /\ u.open
      /\ u.myInst = {} /\ u.todo = {}
  BY <1>1 DEF RDInv, RDTypeOK, DependenciesDone, WorkerInv, Phase
<1>4. /\ UNCHANGED <<files, snaps, jobs, used, crashes, rollbacks, requests>>
      /\ \A e : DlSeen(k, e) = Shown(u, e)
  BY <1>1 DEF DependenciesDone, DlSeen, Shown
<1>5. Known(Shown(u, u.d)) /\ u.d \in Downloads
  BY <1>3, WorkerFields DEF WorkerInv, Viewed
<1>6. w[k].pc # "idle"
  BY <1>1, <1>3
<1>7. CASE /\ w' = [w EXCEPT ![k].cur = u.d, ![k].pc = "fetch"]
           /\ UNCHANGED <<dl, inst, raced>>
  <2>1. PICK v : v = [u EXCEPT !.cur = u.d, !.pc = "fetch"]
    OBVIOUS
  <2>2. /\ v \in WorkerState /\ v.pc = "fetch" /\ v.cur = u.d /\ v.d = u.d /\ v.todo = {}
        /\ v.skipped = u.skipped /\ v.open /\ v.myDl = u.myDl /\ v.myInst = {}
        /\ v.view = u.view /\ v.mine = u.mine
    BY <1>3, <1>5, <2>1 DEF WorkerState, Positions
  <2>3. w' = [w EXCEPT ![k] = v]
    BY <1>1, <1>3, <1>7, <2>1 DEF RDTypeOK, WorkerState
  <2>4. Phase(v) /\ Prepared(v) /\ KeepsInst(v) /\ Ordered(v) /\ Single(v)
    BY <1>3, <2>2 DEF WorkerInv, Phase, Prepared, KeepsInst, Ordered, Single
  <2>5. KeepsDl(v) /\ Viewed(v)
    BY <1>3, <1>5, <2>2 DEF WorkerInv, KeepsDl, Viewed, Shown
  <2>6. RDInv'
    BY <1>1, <1>3, <1>4, <1>7, <2>2, <2>3, <2>4, <2>5, Steady, StillStep DEF WorkerInv
  <2> QED  BY <1>3, <1>7, <2>2, <2>3, <2>6 DEF RDTypeOK
<1>8. CASE RaiseDb(k) /\ UNCHANGED <<dl, inst, raced>>
  BY <1>4, <1>6, <1>8, ClosedStep DEF RaiseDb
<1>9. CASE /\ ~PauseDue(Shown(u, u.d)) /\ Commit(u)
           /\ w' = [w EXCEPT ![k] = [Closed(u) EXCEPT !.pc = "finish"]]
  <2>1. \A j \in Workers \ {k} : u.myDl \cap w[j].myDl = {} /\ u.myInst \cap w[j].myInst = {}
    BY <1>1 DEF RDInv, Exclusive
  <2> QED  BY <1>1, <1>3, <1>4, <1>6, <1>9, <2>1, EndStep DEF WorkerInv
<1>10. ASSUME MayWriteDl(k, u.d), NEW p, p = PutDl(u, u.d, PausedRow(Shown(u, u.d))), Commit(p),
              w' = [w EXCEPT ![k] = [Closed(p) EXCEPT !.pc = "finish"]]
       PROVE  RDInv' /\ w'[k].pc # "installed" /\ InstalledIn(inst) \subseteq InstalledIn(inst')
  <2>1. PICK row : row = PausedRow(Shown(u, u.d))
    OBVIOUS
  <2>2. /\ row \in DlRow /\ Known(row) /\ row.parent < u.d /\ u.d <= used.dl
        /\ Known(dl[u.d]) => dl[u.d].res = row.res
    BY <1>3, <1>5, <2>1, ShownRow, PausedFields
  <2>3. /\ p \in WorkerState /\ SameJob(p, u) /\ p.myDl = u.myDl \cup {u.d} /\ p.myInst = u.myInst
        /\ KeepsDl(p) /\ KeepsInst(p) /\ Single(p) /\ p.open
    BY <1>3, <1>5, <1>10, <2>1, <2>2, DlPut DEF WorkerInv
  <2>4. \A j \in Workers \ {k} : p.myDl \cap w[j].myDl = {} /\ p.myInst \cap w[j].myInst = {}
    BY <1>1, <1>5, <1>10, <2>3, Apart DEF MayWriteDl
  <2>5. /\ w' = [w EXCEPT ![k] = [Closed(p) EXCEPT !.pc = "finish"]] /\ p.d = w[k].d
        /\ Commit(p) /\ KeepsDl(p) /\ KeepsInst(p) /\ Single(p) /\ p.open /\ p \in WorkerState
    BY <1>1, <1>10, <2>3 DEF SameJob
  <2> QED  BY <1>4, <1>6, <2>4, <2>5, EndStep
<1> QED
  <2>1. PICK row : row = Shown(u, u.d)
    OBVIOUS
  <2>2. CASE PauseDue(row)
    <3>1. PICK p : p = PutDl(u, u.d, PausedRow(row))
      OBVIOUS
    <3>2. \/ RaiseDb(k) /\ UNCHANGED <<dl, inst, raced>>
          \/ MayWriteDl(k, u.d) /\ Commit(p) /\ w' = [w EXCEPT ![k] = [Closed(p) EXCEPT !.pc = "finish"]]
      BY <1>1, <1>4, <2>1, <2>2, <3>1 DEF DependenciesDone, PauseDue
    <3> QED  BY <1>8, <1>10, <2>1, <3>1, <3>2
  <2>3. CASE ~PauseDue(row)
    <3>1. \/ w' = [w EXCEPT ![k].cur = u.d, ![k].pc = "fetch"] /\ UNCHANGED <<dl, inst, raced>>
          \/ Commit(u) /\ w' = [w EXCEPT ![k] = [Closed(u) EXCEPT !.pc = "finish"]]
      BY <1>1, <1>4, <2>1, <2>3 DEF DependenciesDone
    <3> QED  BY <1>7, <1>9, <2>1, <2>3, <3>1
  <2> QED  BY <2>2, <2>3

LEMMA MarkFailedStep ==
    ASSUME RDInv, NEW k \in Workers, MarkFailed(k)
    PROVE  RDInv' /\ w'[k].pc # "installed" /\ InstalledIn(inst) \subseteq InstalledIn(inst')
<1>1. PICK u : u = w[k]
  OBVIOUS
<1>2. /\ RDTypeOK /\ RowsHold /\ u \in WorkerState /\ WorkerInv(u) /\ u.pc = "failing"
      /\ w[k].pc # "idle" /\ Known(dl[u.d]) /\ u.d \in Downloads
  BY <1>1, WorkerFields DEF RDInv, RDTypeOK, MarkFailed, WorkerInv, Phase
<1>3. PICK old : old = IF u.open THEN Shown(u, u.d) ELSE dl[u.d]
  OBVIOUS
<1>4. PICK row : row = [old EXCEPT !.status = "Failed"]
  OBVIOUS
<1>5. PICK p : p = PutDl(u, u.d, row)
  OBVIOUS
<1>6. /\ w' = [w EXCEPT ![k] = [Closed(u) EXCEPT !.pc = "finish"]]
      /\ UNCHANGED <<files, snaps, jobs, used, crashes, rollbacks, requests>>
      /\ \/ UNCHANGED <<dl, inst, raced>>
         \/ MayWriteDl(k, u.d) /\ Commit(p)
  BY <1>1, <1>3, <1>4, <1>5 DEF MarkFailed, DlSeen, Shown
<1>7. CASE UNCHANGED <<dl, inst, raced>>
  BY <1>1, <1>2, <1>6, <1>7, ClosedStep
<1>8. CASE MayWriteDl(k, u.d) /\ Commit(p)
  <2>1. /\ old \in DlRow /\ old.parent < u.d /\ u.d <= used.dl /\ dl[u.d].res = old.res
    <3>1. CASE u.open
      <4>1. Known(Shown(u, u.d))
        BY <1>2, <3>1 DEF WorkerInv, Viewed
      <4> QED  BY <1>2, <1>3, <3>1, <4>1, ShownRow
    <3>2. CASE ~u.open
      BY <1>2, <1>3, <3>2 DEF RDTypeOK, RowsHold, Numbered
    <3> QED  BY <3>1, <3>2
  <2>2. row \in DlRow /\ Known(row) /\ row.parent = old.parent /\ row.res = old.res
    BY <1>4, <2>1 DEF DlRow, Status, Known
  <2>3. /\ p \in WorkerState /\ p.myDl = u.myDl \cup {u.d} /\ p.myInst = u.myInst
        /\ KeepsDl(p) /\ KeepsInst(p) /\ Single(p) /\ (p.open \/ p.myInst = {})
    BY <1>2, <1>5, <2>1, <2>2, DlPut DEF WorkerInv, Phase
  <2>4. \A j \in Workers \ {k} : p.myDl \cap w[j].myDl = {} /\ p.myInst \cap w[j].myInst = {}
    BY <1>1, <1>2, <1>8, <2>3, Apart DEF MayWriteDl
  <2> QED  BY <1>1, <1>2, <1>6, <1>8, <2>3, <2>4, EndStep
<1> QED  BY <1>6, <1>7, <1>8

LEMMA AfterInstallStep ==
    ASSUME RDInv, NEW k \in Workers, AfterInstall(k)
    PROVE  RDInv' /\ w'[k].pc # "installed"
<1>1. PICK u : u = w[k]
  OBVIOUS
<1>2. /\ RDTypeOK /\ RowsHold /\ u \in WorkerState /\ WorkerInv(u) /\ u.pc = "installed" /\ ~u.open
      /\ u.myDl = {} /\ u.myInst = {} /\ u.d \in Downloads /\ u.cur \in Downloads
      /\ Known(dl[u.d]) /\ Known(dl[u.cur]) /\ Served(dl[u.cur].res) /\ dl[u.cur] \in DlRow
  BY <1>1, WorkerFields DEF RDInv, RDTypeOK, AfterInstall, WorkerInv, Phase, Ordered
<1>3. UNCHANGED <<dl, inst, files, snaps, jobs, used, crashes, rollbacks, raced, requests>>
  BY DEF AfterInstall, Others
<1>4. /\ files' \in FilesType /\ crashes' \in 0 .. MaxCrashes
      /\ jobs' \in JobsType /\ \A e \in Downloads : jobs'[e] # "none" => jobs[e] # "none"
  BY <1>2, <1>3, Steady
<1>5. \A v : w' = [w EXCEPT ![k] = v] => w'[k] = v
  BY <1>2 DEF RDTypeOK
<1>6. CASE u.cur = u.d
  <2>1. PICK v : v = [u EXCEPT !.pc = "finish"]
    OBVIOUS
  <2>2. v \in WorkerState /\ v.pc = "finish" /\ v.d = u.d /\ ~v.open /\ v.myDl = {} /\ v.myInst = {}
    BY <1>2, <2>1 DEF WorkerState, Positions
  <2>3. w' = [w EXCEPT ![k] = v]
    BY <1>1, <1>2, <1>6, <2>1 DEF AfterInstall, Goto, RDTypeOK
  <2>4. WorkerInv(v)
    BY <1>2, <2>2, ClosedWorker
  <2>5. RDInv'
    BY <1>1, <1>3, <1>4, <2>2, <2>3, <2>4, StillStep
  <2> QED  BY <1>5, <2>2, <2>3, <2>5
<1>7. CASE u.cur # u.d
  <2> DEFINE row == dl[u.cur]
             stop == Halted(row) \/ PauseDue(row)
             todo == IF stop THEN {} ELSE u.todo \ {row.res}
             skipped == u.skipped \/ (stop /\ u.todo # {row.res})
  <2>1. PICK o : o = Opened(u)
    OBVIOUS
  <2>2. /\ o \in WorkerState /\ SameJob(o, u) /\ o.open /\ o.view = Now /\ o.myDl = {} /\ o.myInst = {}
    BY <1>2, <2>1, OpenedFields
  <2>3. todo \subseteq Resources /\ skipped \in BOOLEAN
    BY <1>2, WorkerFields
  <2>4. \A x : u.skipped \/ x \notin Deps[dl[u.d].res] \ u.todo \/ Served(x)
    BY <1>2 DEF WorkerInv, Ordered
  <2>5. \A x \in Deps[dl[u.d].res] \ todo : skipped \/ Served(x)
    BY <1>2, <2>4
  <2>6. PICK n : n = [o EXCEPT !.todo = todo, !.skipped = skipped, !.pc = "resolve"]
    OBVIOUS
  <2>7. /\ n \in WorkerState /\ n.d = u.d /\ n.open /\ n.view = Now /\ n.myDl = {} /\ n.myInst = {}
        /\ n.todo = todo /\ n.skipped = skipped /\ n.pc = "resolve"
    <3> HIDE DEF todo, skipped
    <3> QED  BY <2>2, <2>3, <2>6 DEF WorkerState, Positions, SameJob
  <2>8. /\ PauseDue(row) => DlFree(k, u.cur)
        /\ w' = [w EXCEPT ![k] = IF PauseDue(row) THEN PutDl(n, u.cur, PausedRow(row)) ELSE n]
    BY <1>1, <1>2, <1>7, <2>1, <2>2, <2>6 DEF AfterInstall, SameJob
  <2>9. WorkerInv(n)
    <3>1. Phase(n) /\ Prepared(n) /\ KeepsDl(n) /\ KeepsInst(n)
      BY <1>2, <2>7 DEF Phase, Prepared, KeepsDl, KeepsInst
    <3>4. Single(n)
      BY <1>2, <2>7 DEF Single, Now, RowsHold, InUseOnce, ActiveKnown
    <3>2. Viewed(n)
      BY <1>2, <2>7 DEF Viewed, Shown, Now, RowsHold, Numbered
    <3>3. Ordered(n)
      <4> HIDE DEF todo, skipped
      <4> QED  BY <2>5, <2>7 DEF Ordered
    <3> QED  BY <3>1, <3>2, <3>3, <3>4 DEF WorkerInv
  <2> HIDE DEF todo, skipped, stop
  <2>10. CASE ~PauseDue(row)
    <3>1. w' = [w EXCEPT ![k] = n]
      BY <2>8, <2>10
    <3>2. RDInv'
      BY <1>1, <1>3, <1>4, <2>7, <2>9, <3>1, StillStep
    <3> QED  BY <1>5, <2>7, <3>1, <3>2
  <2>11. CASE PauseDue(row)
    <3>1. PICK pause : pause = PausedRow(row)
      OBVIOUS
    <3>2. PICK v : v = PutDl(n, u.cur, pause)
      OBVIOUS
    <3>3. w' = [w EXCEPT ![k] = v] /\ DlFree(k, u.cur)
      BY <2>8, <2>11, <3>1, <3>2
    <3>4. /\ pause \in DlRow /\ Known(pause) /\ pause.res = dl[u.cur].res
          /\ pause.parent < u.cur /\ u.cur <= used.dl
      BY <1>2, <3>1, PausedFields DEF RowsHold, Numbered
    <3>5. /\ v \in WorkerState /\ SameJob(v, n) /\ v.pc = "resolve" /\ v.open /\ v.view = Now
          /\ v.myDl = {u.cur} /\ v.myInst = {} /\ KeepsDl(v) /\ KeepsInst(v) /\ Single(v)
          /\ \A e \in Downloads : Known(Shown(n, e)) => Known(Shown(v, e))
      BY <1>2, <2>7, <2>9, <3>2, <3>4, DlPut DEF WorkerInv
    <3>6. Phase(v) /\ Prepared(v)
      BY <1>2, <2>7, <3>5 DEF Phase, Prepared, SameJob
    <3>7. Viewed(v)
      BY <1>2, <2>7, <2>9, <3>5 DEF WorkerInv, Viewed, SameJob
    <3>8. Ordered(v)
      BY <2>7, <2>9, <3>5 DEF WorkerInv, Ordered, SameJob
    <3>9. \A j \in Workers \ {k} : /\ \A e \in w[j].myDl : e \in v.myDl => e \in u.myDl
                                   /\ \A i \in w[j].myInst : i \in v.myInst => i \in u.myInst
      BY <3>3, <3>5 DEF DlFree
    <3>10. RDInv'
      BY <1>1, <1>3, <1>4, <3>3, <3>5, <3>6, <3>7, <3>8, <3>9, StillStep DEF WorkerInv
    <3> QED  BY <1>5, <3>3, <3>5, <3>10
  <2> QED  BY <2>10, <2>11
<1> QED  BY <1>6, <1>7

(* PutInst with a table of new rows.                                       *)
WithInst(ws, I, f) ==
    [ws EXCEPT !.mine.inst = [j \in Installs |-> IF j \in I THEN f[j] ELSE ws.mine.inst[j]],
               !.myInst = ws.myInst \cup I]

IsWithInst(v, ws, I, f) ==
    /\ v \in WorkerState /\ SameJob(v, ws) /\ v.pc = ws.pc /\ v.open = ws.open
    /\ v.view = ws.view /\ v.myDl = ws.myDl /\ v.mine.dl = ws.mine.dl
    /\ v.myInst = ws.myInst \cup I
    /\ \A j \in I : v.mine.inst[j] = f[j]

LEMMA InstPut ==
    ASSUME NEW ws \in WorkerState, NEW I, I \subseteq Installs, NEW f \in [Installs -> InstRow]
    PROVE  IsWithInst(WithInst(ws, I, f), ws, I, f)
<1>1. [j \in Installs |-> IF j \in I THEN f[j] ELSE ws.mine.inst[j]] \in [Installs -> InstRow]
  BY WorkerFields
<1> QED  BY <1>1 DEF IsWithInst, WithInst, WorkerState, Tables, SameJob

LEMMA FetchAndInstallStep ==
    ASSUME RDInv, NEW k \in Workers, FetchAndInstall(k)
    PROVE  RDInv' /\ w'[k].pc # "installed"
<1>1. PICK u : u = w[k]
  OBVIOUS
<1>2. /\ RDTypeOK /\ RowsHold /\ u \in WorkerState /\ WorkerInv(u) /\ u.pc = "fetch" /\ u.open
      /\ u.myInst = {} /\ u.cur \in Downloads /\ Known(Shown(u, u.cur)) /\ w[k].pc # "idle"
  BY <1>1, WorkerFields DEF RDInv, RDTypeOK, FetchAndInstall, WorkerInv, Phase, Viewed
<1>3. /\ UNCHANGED <<dl, inst, jobs, crashes, rollbacks, raced, requests>>
      /\ \A e : DlSeen(k, e) = Shown(u, e)
  BY <1>1 DEF FetchAndInstall, Others, DlSeen, Shown
<1>4. /\ files' \in FilesType /\ crashes' \in 0 .. MaxCrashes
      /\ jobs' \in JobsType /\ \A e \in Downloads : jobs'[e] # "none" => jobs[e] # "none"
  <2>1. files' \in FilesType
    BY <1>2 DEF FetchAndInstall, RDTypeOK, FilesType, Received
  <2> QED  BY <1>2, <1>3, <2>1, Steady
<1>5. \A v : w' = [w EXCEPT ![k] = v] => w'[k] = v
  BY <1>2 DEF RDTypeOK
<1>6. PICK c : c = u.cur
  OBVIOUS
<1>7. PICK old : old = Shown(u, c)
  OBVIOUS
<1>8. /\ c \in Downloads /\ old \in DlRow /\ old.parent < c /\ c <= used.dl /\ Known(old)
      /\ Known(dl[c]) => dl[c].res = old.res
  BY <1>2, <1>6, <1>7, ShownRow
<1>9. \A s \in {"Downloading", "Installing"} :
        LET row == [old EXCEPT !.status = s]
        IN row \in DlRow /\ Known(row) /\ row.parent = old.parent /\ row.res = old.res
  BY <1>8 DEF DlRow, Status, Active, InFlight, Known
<1>10. ASSUME MayWriteDl(k, c), NEW p, p = PutDl(u, c, [old EXCEPT !.status = "Downloading"]),
              w' = [w EXCEPT ![k] = [p EXCEPT !.pc = "failing"]], UNCHANGED <<snaps, used>>
       PROVE  RDInv' /\ w'[k].pc # "installed"
  <2>1. PICK row : row = [old EXCEPT !.status = "Downloading"]
    OBVIOUS
  <2>2. row \in DlRow /\ Known(row) /\ row.parent = old.parent /\ row.res = old.res
    BY <1>9, <2>1
  <2>3. p = PutDl(u, c, row)
    BY <1>10, <2>1
  <2>4. /\ p \in WorkerState /\ SameJob(p, u) /\ p.open /\ p.myDl = u.myDl \cup {c} /\ p.myInst = {}
        /\ KeepsDl(p) /\ KeepsInst(p) /\ Single(p) /\ p.view = u.view
        /\ \A e \in Downloads : Known(Shown(u, e)) => Known(Shown(p, e))
    <3>1. /\ u \in WorkerState /\ KeepsDl(u) /\ KeepsInst(u) /\ Single(u) /\ u.open /\ u.myInst = {}
          /\ row \in DlRow /\ Known(row) /\ row.parent < c /\ c <= used.dl /\ c \in Downloads
          /\ Known(dl[c]) => dl[c].res = row.res
      BY <1>2, <1>8, <2>2 DEF WorkerInv
    <3> QED  BY ONLY <2>3, <3>1, DlPut
  <2>5. PICK v : v = [p EXCEPT !.pc = "failing"]
    OBVIOUS
  <2>6. /\ v \in WorkerState /\ v.d = u.d /\ v.pc = "failing" /\ v.open /\ v.myDl = u.myDl \cup {c}
        /\ v.myInst = {} /\ v.view = u.view /\ v.mine = p.mine
    <3>1. "failing" \in Positions
      BY DEF Positions
    <3> QED  BY <2>4, <2>5, <3>1, PositionFields DEF SameJob
  <2>7. Phase(v) /\ Prepared(v) /\ KeepsDl(v) /\ KeepsInst(v) /\ Ordered(v) /\ Single(v)
    <3>1. Phase(v) /\ Prepared(v) /\ Ordered(v)
      BY <1>2, <2>4, <2>6 DEF WorkerInv, Phase, Prepared, Ordered
    <3>2. KeepsDl(v) /\ KeepsInst(v) /\ Single(v)
      BY <2>4, <2>6 DEF KeepsDl, KeepsInst, Single
    <3> QED  BY <3>1, <3>2
  <2>8. Viewed(v)
    <3>1. \A e : Shown(v, e) = Shown(p, e)
      BY <2>4, <2>6 DEF Shown
    <3>2. u.d \in Downloads /\ Known(Shown(u, u.d))
      BY <1>2, WorkerFields DEF WorkerInv, Viewed
    <3> QED  BY <1>2, <2>4, <2>6, <3>1, <3>2 DEF WorkerInv, Viewed
  <2>9. \A j \in Workers \ {k} : /\ \A e \in w[j].myDl : e \in v.myDl => e \in u.myDl
                                 /\ \A i \in w[j].myInst : i \in v.myInst => i \in u.myInst
    BY <1>1, <1>10, <2>6 DEF MayWriteDl, DlFree
  <2>10. w' = [w EXCEPT ![k] = v]
    BY <1>10, <2>5
  <2>11. RDInv'
    BY <1>1, <1>3, <1>4, <1>10, <2>6, <2>7, <2>8, <2>9, <2>10, StillStep DEF WorkerInv
  <2> QED  BY <1>5, <2>6, <2>10, <2>11
<1>11. PICK i : i = used.inst + 1
  OBVIOUS
<1>12. PICK new : new = NewInst(old.res, c)
  OBVIOUS
<1>13. ASSUME MayWriteDl(k, c), i \in Installs, used' = [used EXCEPT !.inst = i],
              NEW p, p = PutDl(u, c, [old EXCEPT !.status = "Installing"]),
              NEW q, q = WithInst(p, {i}, [j \in Installs |-> new]),
              \/ w' = [w EXCEPT ![k] = [q EXCEPT !.pc = "failing"]] /\ UNCHANGED snaps
              \/ /\ w' = [w EXCEPT ![k] = [q EXCEPT !.ins = i, !.pc = "activate"]]
                 /\ snaps' = snaps \cup {<<old.res, new.ver>>}
       PROVE  RDInv' /\ w'[k].pc # "installed"
  <2>1. PICK row : row = [old EXCEPT !.status = "Installing"]
    OBVIOUS
  <2>2. row \in DlRow /\ Known(row) /\ row.parent = old.parent /\ row.res = old.res
    BY <1>9, <2>1
  <2>3. p = PutDl(u, c, row)
    BY <1>13, <2>1
  <2>4. /\ p \in WorkerState /\ SameJob(p, u) /\ p.open /\ p.myDl = u.myDl \cup {c} /\ p.myInst = {}
        /\ p.mine.dl[c] = row /\ KeepsDl(p) /\ p.view = u.view
        /\ \A e \in Downloads : Known(Shown(u, e)) => Known(Shown(p, e))
    <3>1. /\ u \in WorkerState /\ KeepsDl(u) /\ KeepsInst(u) /\ Single(u) /\ u.open /\ u.myInst = {}
          /\ row \in DlRow /\ Known(row) /\ row.parent < c /\ c <= used.dl /\ c \in Downloads
          /\ Known(dl[c]) => dl[c].res = row.res
      BY <1>2, <1>8, <2>2 DEF WorkerInv
    <3> QED  BY ONLY <2>3, <3>1, DlPut
  <2>5. /\ new \in InstRow /\ new.status = "Installing" /\ ~new.active /\ new.res = old.res
        /\ old.res \in Resources /\ new.ver \in Versions
    <3>1. old.res \in Resources /\ Catalog[old.res] \in Versions /\ c \in 0 .. MaxDownloads
      BY <1>8, RowFields, ResourceAssumption DEF Downloads
    <3> QED  BY <1>12, <3>1 DEF NewInst, InstRow, InstStatus
  <2>6. /\ q \in WorkerState /\ SameJob(q, p) /\ q.open /\ q.myDl = p.myDl /\ q.mine.dl = p.mine.dl
        /\ q.view = p.view /\ q.myInst = {i} /\ q.mine.inst[i] = new
    <3>1. {i} \subseteq Installs /\ [j \in Installs |-> new] \in [Installs -> InstRow] /\ i \in Installs
      BY <1>13, <2>5
    <3>2. PICK f : f = [j \in Installs |-> new]
      OBVIOUS
    <3>3. f \in [Installs -> InstRow] /\ f[i] = new
      BY <3>1, <3>2
    <3>4. PICK I : I = {i}
      OBVIOUS
    <3>5. I \subseteq Installs /\ q = WithInst(p, I, f)
      BY <1>13, <3>1, <3>2, <3>4
    <3>6. /\ q \in WorkerState /\ SameJob(q, p) /\ q.open = p.open
          /\ q.view = p.view /\ q.myDl = p.myDl /\ q.mine.dl = p.mine.dl
          /\ q.myInst = p.myInst \cup I /\ \A j \in I : q.mine.inst[j] = f[j]
      <4>1. p \in WorkerState /\ f \in [Installs -> InstRow]
        BY <2>4, <3>3
      <4>2. IsWithInst(q, p, I, f)
        BY <3>5, <4>1, InstPut
      <4> QED  BY <4>2 DEF IsWithInst
    <3>7. p.myInst \cup I = {i} /\ i \in I
      BY <2>4, <3>4
    <3> QED  BY <2>4, <3>3, <3>6, <3>7
  <2>7. PICK v : /\ w' = [w EXCEPT ![k] = v]
                 /\ \/ v = [q EXCEPT !.pc = "failing"]
                    \/ v = [q EXCEPT !.ins = i, !.pc = "activate"] /\ <<old.res, new.ver>> \in snaps'
    BY <1>13
  <2>8. /\ v \in WorkerState /\ v.d = u.d /\ v.cur = c /\ v.todo = u.todo /\ v.skipped = u.skipped
        /\ v.open /\ v.myDl = u.myDl \cup {c} /\ v.view = u.view /\ v.mine = q.mine /\ v.myInst = {i}
        /\ \/ v.pc = "failing"
           \/ v.pc = "activate" /\ v.ins = i /\ <<old.res, new.ver>> \in snaps'
    <3>1. i \in Installs /\ "failing" \in Positions
      BY <1>13 DEF Positions
    <3>2. q \in WorkerState
      BY <2>6
    <3>3. /\ v \in WorkerState /\ v.open = q.open /\ v.myDl = q.myDl
          /\ v.myInst = q.myInst /\ v.view = q.view /\ v.mine = q.mine
          /\ v.d = q.d /\ v.cur = q.cur /\ v.todo = q.todo /\ v.skipped = q.skipped
          /\ \/ v.pc = "failing"
             \/ v.pc = "activate" /\ v.ins = i /\ <<old.res, new.ver>> \in snaps'
      <4>1. CASE v = [q EXCEPT !.pc = "failing"]
        BY <3>1, <3>2, <4>1, PositionFields DEF SameJob
      <4>2. CASE v = [q EXCEPT !.ins = i, !.pc = "activate"] /\ <<old.res, new.ver>> \in snaps'
        BY <3>1, <3>2, <4>2 DEF WorkerState, Positions
      <4> QED  BY <2>7, <4>1, <4>2
    <3>4. /\ q.d = u.d /\ q.cur = c /\ q.todo = u.todo /\ q.skipped = u.skipped
          /\ q.open /\ q.myDl = u.myDl \cup {c} /\ q.view = u.view /\ q.myInst = {i}
      BY <1>6, <2>4, <2>6 DEF SameJob
    <3> QED  BY <3>3, <3>4
  <2>9. /\ used'.inst = i /\ used'.dl = used.dl /\ used.dl <= used'.dl /\ used.inst <= used'.inst
        /\ used' \in [dl : 0 .. MaxDownloads, inst : 0 .. MaxInstalls] /\ i > used.inst /\ i \in Nat
    <3>1. /\ used \in [dl : 0 .. MaxDownloads, inst : 0 .. MaxInstalls]
          /\ i = used.inst + 1 /\ i \in 1 .. MaxInstalls /\ used' = [used EXCEPT !.inst = i]
      BY <1>2, <1>11, <1>13 DEF RDTypeOK, Installs
    <3>2. MaxDownloads \in Nat /\ MaxInstalls \in Nat
      BY ResourceAssumption
    <3> QED  BY <3>1, <3>2
  <2>10. ~Known(inst[i]) /\ ~inst[i].active
    <3>1. ~(i <= used.inst)
      BY <1>2, <2>9, NumbersAreNat
    <3> QED  BY <1>2, <1>13, <3>1 DEF RowsHold, Numbered
  <2>11. snaps \subseteq snaps' /\ snaps' \subseteq Resources \X Versions
    BY <1>2, <1>13, <2>5 DEF RDTypeOK
  <2>12. ASSUME WorkerInv(u)'
         PROVE  WorkerInv(v)'
    <3>1. Known(Shown(v, u.d)) /\ u.d \in Downloads
      <4>1. \A e : Shown(v, e) = Shown(p, e)
        BY <2>4, <2>6, <2>8 DEF Shown
      <4> QED  BY <1>2, <2>4, <4>1, WorkerFields DEF WorkerInv, Viewed
    <3>2. Viewed(v)'
      BY <1>2, <2>8, <2>12, <3>1 DEF WorkerInv, Viewed, Shown, Known
    <3>3. Phase(v)'
      BY <1>2, <2>8, <2>12 DEF WorkerInv, Phase
    <3>4. KeepsDl(v)'
      BY <1>3, <2>4, <2>6, <2>8, <2>9 DEF KeepsDl, Known
    <3>5. KeepsInst(v)'
      <4>1. v.mine.inst[i] = new /\ \A l \in v.myInst : l = i
        BY <2>6, <2>8
      <4>2. i <= used'.inst /\ ~Known(inst'[i]) /\ ~InUse(inst'[i])
        <5>1. i <= used'.inst
          BY <2>9
        <5> QED  BY <1>3, <2>10, <5>1 DEF Known, InUse
      <4>3. Known(new) /\ ~new.active
        BY <2>5 DEF Known
      <4> QED  BY <4>1, <4>2, <4>3 DEF KeepsInst, Known, OnDisk, InUse
    <3>6. Prepared(v)'
      BY <1>3, <2>2, <2>4, <2>5, <2>6, <2>8, <2>10 DEF Prepared, Known
    <3>7. Ordered(v)'
      BY <1>2, <1>6, <2>8, <2>12 DEF WorkerInv, Ordered
    <3>8. Single(v)'
      <4>1. \A l \in v.myInst : l = i /\ ~v.mine.inst[l].active
        BY <2>5, <2>6, <2>8
      <4>2. \A j \in Installs : v.view.inst[j].active =>
              Known(inst[j])' /\ inst'[j].res = v.view.inst[j].res
        BY <1>2, <2>8, <2>12 DEF WorkerInv, Single, Known
      <4> QED  BY <4>1, <4>2 DEF Single, Known
    <3> QED  BY <3>2, <3>3, <3>4, <3>5, <3>6, <3>7, <3>8 DEF WorkerInv
  <2>13. \A j \in Workers \ {k} : /\ \A e \in w[j].myDl : e \in v.myDl => e \in u.myDl
                                  /\ \A l \in w[j].myInst : l \in v.myInst => l \in u.myInst
    <3>1. \A j \in Workers : i \notin w[j].myInst
      BY <1>2, <2>9, NumbersAreNat, WorkerFields DEF RDInv, RDTypeOK, WorkerInv, KeepsInst
    <3> QED  BY <1>1, <1>13, <2>8, <3>1 DEF MayWriteDl, DlFree
  <2>14. RDInv'
    BY <1>1, <1>3, <1>4, <2>7, <2>8, <2>9, <2>11, <2>12, <2>13, QuietStep
  <2> QED  BY <1>5, <2>7, <2>8, <2>14
<1>14. CASE RaiseDb(k) /\ UNCHANGED <<files, snaps, used>>
  BY <1>2, <1>3, <1>14, ClosedStep DEF RaiseDb
<1> QED
  <2>1. PICK p : p = PutDl(u, c, [old EXCEPT !.status = "Downloading"])
    OBVIOUS
  <2>2. PICK pp : pp = PutDl(u, c, [old EXCEPT !.status = "Installing"])
    OBVIOUS
  <2>3. PICK q : q = [pp EXCEPT !.mine.inst = [j \in Installs |-> IF j \in {i} THEN new ELSE @[j]],
                               !.myInst = @ \cup {i}]
    OBVIOUS
  <2>4. /\ w[k].cur = c /\ DlSeen(k, c) = old /\ SetStatus(k, c, "Downloading") = [old EXCEPT !.status = "Downloading"]
        /\ SetStatus(k, c, "Installing") = [old EXCEPT !.status = "Installing"]
    BY <1>1, <1>3, <1>6, <1>7 DEF SetStatus
  <2>5. new.ver = NewInst(old.res, c).ver /\ Stored(old.res, new.ver) = {<<old.res, new.ver>>}
    BY <1>12 DEF Stored
  <2>6. \/ RaiseDb(k) /\ UNCHANGED <<files, snaps, used>>
        \/ /\ MayWriteDl(k, c)
           /\ w' = [w EXCEPT ![k] = [p EXCEPT !.pc = "failing"]] /\ UNCHANGED <<snaps, used>>
        \/ /\ MayWriteDl(k, c) /\ i \in Installs /\ used' = [used EXCEPT !.inst = i]
           /\ \/ w' = [w EXCEPT ![k] = [q EXCEPT !.pc = "failing"]] /\ UNCHANGED snaps
              \/ /\ w' = [w EXCEPT ![k] = [q EXCEPT !.ins = i, !.pc = "activate"]]
                 /\ snaps' = snaps \cup {<<old.res, new.ver>>}
    <3> DEFINE cc == w[k].cur
               rr == DlSeen(k, cc).res
               row == NewInst(rr, cc)
               fetched == PutDl(w[k], cc, SetStatus(k, cc, "Downloading"))
               writing == PutDl(w[k], cc, SetStatus(k, cc, "Installing"))
               ii == used.inst + 1
               installed == [writing EXCEPT
                               !.mine.inst = [j \in Installs |-> IF j \in {ii} THEN row ELSE @[j]],
                               !.myInst = @ \cup {ii}]
    <3>1. \/ RaiseDb(k) /\ UNCHANGED <<files, snaps, used>>
          \/ /\ MayWriteDl(k, cc)
             /\ w' = [w EXCEPT ![k] = [fetched EXCEPT !.pc = "failing"]] /\ UNCHANGED <<snaps, used>>
          \/ /\ MayWriteDl(k, cc) /\ ii \in Installs /\ used' = [used EXCEPT !.inst = ii]
             /\ \/ w' = [w EXCEPT ![k] = [installed EXCEPT !.pc = "failing"]] /\ UNCHANGED snaps
                \/ /\ w' = [w EXCEPT ![k] = [installed EXCEPT !.ins = ii, !.pc = "activate"]]
                   /\ snaps' = snaps \cup Stored(rr, row.ver)
      BY Zenon DEF FetchAndInstall, PutInst
    <3>2. cc = c /\ rr = old.res /\ row = new /\ fetched = p /\ writing = pp /\ ii = i
      BY <1>1, <1>11, <1>12, <2>1, <2>2, <2>4
    <3>3. installed = q
      <4> HIDE DEF writing, ii, row
      <4> QED  BY <2>3, <3>2
    <3> HIDE DEF cc, rr, row, fetched, writing, ii, installed
    <3> QED  BY <2>5, <3>1, <3>2, <3>3
  <2>7. q = WithInst(pp, {i}, [j \in Installs |-> new])
    BY <2>3 DEF WithInst
  <2> QED  BY <1>10, <1>13, <1>14, <2>1, <2>2, <2>6, <2>7

LEMMA ActivateStep ==
    ASSUME RDInv, NEW k \in Workers, Activate(k)
    PROVE  RDInv' /\ InstKept /\ InstalledIn(inst) \subseteq InstalledIn(inst')
<1>1. PICK u : u = w[k]
  OBVIOUS
<1>2. /\ RDTypeOK /\ RowsHold /\ u \in WorkerState /\ WorkerInv(u) /\ u.pc = "activate" /\ u.open
      /\ u.myInst = {u.ins} /\ u.cur \in u.myDl /\ w[k].pc # "idle" /\ u.ins \in Installs
  BY <1>1, WorkerFields DEF RDInv, RDTypeOK, Activate, WorkerInv, Phase
<1>3. PICK c : c = u.cur
  OBVIOUS
<1>4. PICK i : i = u.ins
  OBVIOUS
<1>5. PICK row : row = u.mine.inst[i]
  OBVIOUS
<1>6. PICK old : old = u.mine.dl[c]
  OBVIOUS
<1>7. /\ c \in Downloads /\ c \in u.myDl /\ old \in DlRow /\ Known(old) /\ old.parent < c /\ c <= used.dl
      /\ Known(dl[c]) => dl[c].res = old.res
  BY <1>2, <1>3, <1>6, WorkerFields DEF WorkerInv, KeepsDl
<1>8. /\ i \in Installs /\ row \in InstRow /\ i <= used.inst /\ ~Known(inst[i]) /\ ~inst[i].active
      /\ <<row.res, row.ver>> \in snaps /\ row.res = old.res /\ u.myInst = {i}
  BY <1>2, <1>3, <1>4, <1>5, <1>6, WorkerFields DEF WorkerInv, KeepsInst, Prepared
<1>9. PICK P : P = Predecessors(k)
  OBVIOUS
<1>10. P = {j \in Installs : j # i /\ u.view.inst[j].res = row.res /\ u.view.inst[j].active}
  BY <1>1, <1>2, <1>4, <1>5, <1>8, <1>9 DEF Predecessors, InstSeen
<1>11. PICK f : f = [j \in Installs |-> IF j = i THEN Activated(row) ELSE Replaced(u.view.inst[j])]
  OBVIOUS
<1>12. /\ f \in [Installs -> InstRow] /\ f[i] = Activated(row)
       /\ \A j \in Installs \ {i} : f[j] = Replaced(u.view.inst[j])
  <2>1. Activated(row) \in InstRow
    BY <1>8 DEF Activated, InstRow, InstStatus
  <2>2. \A j \in Installs : Replaced(u.view.inst[j]) \in InstRow
    <3>1. \A r \in InstRow : Replaced(r) \in InstRow
      BY DEF Replaced, InstRow, InstStatus
    <3> QED  BY <1>2, <3>1, WorkerFields
  <2> QED  BY <1>8, <1>11, <2>1, <2>2
<1>13. /\ Known(f[i]) /\ InUse(f[i]) /\ Settled(f[i]) /\ f[i].res = row.res /\ f[i].ver = row.ver
       /\ \A j \in P : Known(f[j]) /\ Settled(f[j]) /\ ~f[j].active /\ f[j].res = row.res
  <2>1. Known(f[i]) /\ InUse(f[i]) /\ Settled(f[i]) /\ f[i].res = row.res /\ f[i].ver = row.ver
    BY <1>8, <1>12 DEF Activated, InstRow, Known, InUse, Settled
  <2>2. ASSUME NEW j \in P
        PROVE  Known(f[j]) /\ Settled(f[j]) /\ ~f[j].active /\ f[j].res = row.res
    <3>1. j \in Installs /\ u.view.inst[j] \in InstRow /\ f[j] = Replaced(u.view.inst[j])
          /\ u.view.inst[j].res = row.res
      BY <1>2, <1>10, <1>12, <2>2, WorkerFields
    <3> QED  BY <3>1 DEF Replaced, InstRow, Known, Settled
  <2> QED  BY <2>1, <2>2
<1>14. PICK I : I = P \cup {i}
  OBVIOUS
<1>15. I \subseteq Installs
  BY <1>8, <1>10, <1>14
<1>16. PICK ws : ws = WithInst(u, I, f)
  OBVIOUS
<1>17. /\ ws \in WorkerState /\ SameJob(ws, u) /\ ws.open
       /\ ws.view = u.view /\ ws.myDl = u.myDl /\ ws.mine.dl = u.mine.dl
       /\ ws.myInst = I /\ \A j \in I : ws.mine.inst[j] = f[j]
  <2>1. /\ ws \in WorkerState /\ SameJob(ws, u) /\ ws.open = u.open
        /\ ws.view = u.view /\ ws.myDl = u.myDl /\ ws.mine.dl = u.mine.dl
        /\ ws.myInst = u.myInst \cup I /\ \A j \in I : ws.mine.inst[j] = f[j]
    <3>1. u \in WorkerState /\ f \in [Installs -> InstRow]
      BY <1>2, <1>12
    <3>2. IsWithInst(ws, u, I, f)
      BY <1>15, <1>16, <3>1, InstPut
    <3> QED  BY <3>2 DEF IsWithInst
  <2>2. u.myInst \cup I = I
    BY <1>8, <1>14
  <2> QED  BY <1>2, <2>1, <2>2
<1>18. KeepsDl(ws)
  BY <1>2, <1>17 DEF WorkerInv, KeepsDl
<1>19. ASSUME \A j \in P : MayWriteInst(k, j)
       PROVE  /\ KeepsInst(ws) /\ Single(ws)
              /\ \A j \in Workers \ {k} : u.myDl \cap w[j].myDl = {} /\ I \cap w[j].myInst = {}
  <2>1. \A j \in P : InstFree(k, j) /\ inst[j] = u.view.inst[j]
    BY <1>1, <1>8, <1>10, <1>19 DEF MayWriteInst
  <2>2. \A j \in P : inst[j].active /\ inst[j].res = row.res /\ j <= used.inst
    BY <1>2, <1>10, <2>1 DEF RowsHold, Numbered
  <2>3. KeepsInst(ws)
    <3>1. SUFFICES ASSUME NEW j \in I
                   PROVE  /\ j <= used.inst
                          /\ OnDisk(f[j])
                          /\ Known(f[j])
                          /\ Known(inst[j]) => inst[j].res = f[j].res /\ Settled(f[j])
                          /\ InUse(inst[j]) => inst[j].res = f[i].res
      BY <1>13, <1>14, <1>17 DEF KeepsInst
    <3>2. CASE j = i
      BY <1>8, <1>13, <3>2 DEF OnDisk, InUse
    <3>3. CASE j \in P
      BY <1>13, <2>2, <3>3 DEF OnDisk
    <3> QED  BY <1>14, <3>1, <3>2, <3>3
  <2>4. \A j \in Workers \ {k} : u.myDl \cap w[j].myDl = {} /\ u.myInst \cap w[j].myInst = {}
    BY <1>1 DEF RDInv, Exclusive
  <2>5. \A j \in Workers \ {k} : I \cap w[j].myInst = {}
    BY <1>8, <1>14, <2>1, <2>4 DEF InstFree
  <2>6. Single(ws)
    <3>1. \A j \in I : ws.mine.inst[j].active => j = i
      BY <1>13, <1>14, <1>17
    <3>2. \A j \in Installs \ I : u.view.inst[j].active => u.view.inst[j].res # row.res
      BY <1>10, <1>14
    <3>3. ws.mine.inst[i].res = row.res /\ i \in I
      BY <1>13, <1>14, <1>17
    <3>4. \A j \in Installs : u.view.inst[j].active =>
            Known(inst[j]) /\ inst[j].res = u.view.inst[j].res
      BY <1>2 DEF WorkerInv, Single
    <3> QED  BY <1>17, <3>1, <3>2, <3>3, <3>4 DEF Single
  <2> QED  BY <2>3, <2>4, <2>5, <2>6
<1>20. \A s \in {"Completed", "Ready"} :
        LET new == [old EXCEPT !.status = s]
        IN new \in DlRow /\ Known(new) /\ new.parent = old.parent /\ new.res = old.res
  BY <1>7 DEF DlRow, Status, Active, InFlight, Known
<1>21. PICK done : done = PutDl(ws, c, [old EXCEPT !.status = "Completed"])
  OBVIOUS
<1>22. PICK notReady : notReady = PutDl(ws, c, [old EXCEPT !.status = "Ready"])
  OBVIOUS
<1>23. ASSUME KeepsInst(ws), Single(ws), NEW s \in {"Completed", "Ready"}, NEW p, p = PutDl(ws, c, [old EXCEPT !.status = s])
       PROVE  /\ p \in WorkerState /\ SameJob(p, u) /\ p.open /\ p.myDl = u.myDl /\ p.myInst = I
              /\ KeepsDl(p) /\ KeepsInst(p) /\ Single(p) /\ p.view = u.view /\ p.mine.inst = ws.mine.inst
              /\ Known(p.mine.dl[c]) /\ p.mine.dl[c].res = old.res
              /\ \A e \in Downloads : Known(Shown(u, e)) => Known(Shown(p, e))
  <2>1. PICK new : new = [old EXCEPT !.status = s]
    OBVIOUS
  <2>2. new \in DlRow /\ Known(new) /\ new.parent = old.parent /\ new.res = old.res
    BY <1>20, <1>23, <2>1
  <2>3. p = PutDl(ws, c, new)
    BY <1>23, <2>1
  <2>4. /\ p \in WorkerState /\ SameJob(p, ws) /\ p.open = ws.open
        /\ p.myDl = ws.myDl \cup {c} /\ p.mine.dl[c] = new
        /\ p.myInst = ws.myInst /\ p.mine.inst = ws.mine.inst
        /\ KeepsDl(p) /\ KeepsInst(p) /\ Single(p) /\ p.view = ws.view
        /\ \A e \in Downloads : Known(Shown(ws, e)) => Known(Shown(p, e))
    <3>1. /\ ws \in WorkerState /\ KeepsDl(ws) /\ KeepsInst(ws) /\ Single(ws)
          /\ new \in DlRow /\ Known(new) /\ new.parent < c /\ c <= used.dl /\ c \in Downloads
          /\ Known(dl[c]) => dl[c].res = new.res
      BY <1>7, <1>17, <1>18, <1>23, <2>2
    <3> QED  BY ONLY <2>3, <3>1, DlPut
  <2>5. \A e : Shown(ws, e) = Shown(u, e)
    BY <1>17 DEF Shown
  <2>6. p.myDl = u.myDl
    BY <1>7, <1>17, <2>4
  <2> QED  BY <1>17, <2>2, <2>4, <2>5, <2>6 DEF SameJob
<1>24. UNCHANGED <<files, snaps, jobs, used, crashes, rollbacks, requests>>
  BY DEF Activate
<1>25. CASE RaiseDb(k) /\ UNCHANGED <<dl, inst, raced>>
  BY <1>2, <1>24, <1>25, ClosedStep DEF RaiseDb, InstKept
<1>26. CASE /\ \A j \in P : MayWriteInst(k, j)
            /\ w' = [w EXCEPT ![k] = [notReady EXCEPT !.pc = "failing"]]
            /\ UNCHANGED <<dl, inst, raced>>
  <2>1. /\ KeepsInst(ws) /\ Single(ws)
        /\ \A j \in Workers \ {k} : u.myDl \cap w[j].myDl = {} /\ I \cap w[j].myInst = {}
    BY <1>19, <1>26
  <2>2. /\ notReady \in WorkerState /\ SameJob(notReady, u) /\ notReady.open
        /\ notReady.myDl = u.myDl /\ notReady.myInst = I
        /\ KeepsDl(notReady) /\ KeepsInst(notReady) /\ Single(notReady) /\ notReady.view = u.view
        /\ \A e \in Downloads : Known(Shown(u, e)) => Known(Shown(notReady, e))
    BY <1>22, <1>23, <2>1
  <2>3. PICK v : v = [notReady EXCEPT !.pc = "failing"]
    OBVIOUS
  <2>4. /\ v \in WorkerState /\ v.d = u.d /\ v.pc = "failing" /\ v.open /\ v.myDl = u.myDl /\ v.myInst = I
        /\ v.view = u.view /\ v.mine = notReady.mine
    <3>1. "failing" \in Positions
      BY DEF Positions
    <3> QED  BY <2>2, <2>3, <3>1, PositionFields DEF SameJob
  <2>5. Phase(v) /\ Prepared(v) /\ KeepsDl(v) /\ KeepsInst(v) /\ Ordered(v) /\ Single(v)
    <3>1. Phase(v) /\ Prepared(v) /\ Ordered(v)
      BY <1>2, <2>2, <2>4 DEF WorkerInv, Phase, Prepared, Ordered
    <3>2. KeepsDl(v) /\ KeepsInst(v) /\ Single(v)
      BY <2>2, <2>4 DEF KeepsDl, KeepsInst, Single
    <3> QED  BY <3>1, <3>2
  <2>6. Viewed(v)
    <3>1. \A e : Shown(v, e) = Shown(notReady, e)
      BY <2>2, <2>4 DEF Shown
    <3>2. u.d \in Downloads /\ Known(Shown(u, u.d))
      BY <1>2, WorkerFields DEF WorkerInv, Viewed
    <3> QED  BY <1>2, <2>2, <2>4, <3>1, <3>2 DEF WorkerInv, Viewed
  <2>7. \A j \in Workers \ {k} : /\ \A e \in w[j].myDl : e \in v.myDl => e \in u.myDl
                                 /\ \A l \in w[j].myInst : l \in v.myInst => l \in u.myInst
    BY <2>1, <2>4
  <2>8. WorkerInv(v) /\ w' = [w EXCEPT ![k] = v]
    BY <1>26, <2>3, <2>5, <2>6 DEF WorkerInv
  <2>9. RDInv'
    BY <1>1, <1>2, <1>24, <1>26, <2>4, <2>7, <2>8, Steady, StillStep
  <2> QED  BY <1>26, <2>9 DEF InstKept
<1>27. CASE /\ \A j \in P : MayWriteInst(k, j)
            /\ Commit(done)
            /\ w' = [w EXCEPT ![k] = [Closed(done) EXCEPT !.pc = "installed"]]
  <2>1. /\ KeepsInst(ws) /\ Single(ws)
        /\ \A j \in Workers \ {k} : u.myDl \cap w[j].myDl = {} /\ I \cap w[j].myInst = {}
    BY <1>19, <1>27
  <2>2. /\ done \in WorkerState /\ SameJob(done, u) /\ done.open
        /\ done.myDl = u.myDl /\ done.myInst = I
        /\ KeepsDl(done) /\ KeepsInst(done) /\ Single(done) /\ done.mine.inst = ws.mine.inst
        /\ Known(done.mine.dl[c]) /\ done.mine.dl[c].res = old.res
    BY <1>21, <1>23, <2>1
  <2>3. PICK z : z = Closed(done)
    OBVIOUS
  <2>4. PICK v : v = [z EXCEPT !.pc = "installed"]
    OBVIOUS
  <2>5. z \in WorkerState /\ SameJob(z, done) /\ ~z.open /\ z.myDl = {} /\ z.myInst = {}
    BY <2>2, <2>3, ClosedFields
  <2>6. /\ v \in WorkerState /\ v.pc = "installed" /\ v.d = u.d /\ v.cur = c /\ v.todo = u.todo
        /\ v.skipped = u.skipped /\ ~v.open /\ v.myDl = {} /\ v.myInst = {}
    BY <1>3, <2>2, <2>4, <2>5 DEF WorkerState, Positions, SameJob
  <2>7. w' = [w EXCEPT ![k] = v]
    BY <1>27, <2>3, <2>4
  <2>8. /\ \A d \in Downloads : dl'[d] = IF d \in done.myDl THEN done.mine.dl[d] ELSE dl[d]
        /\ \A j \in Installs : inst'[j] = IF j \in done.myInst THEN done.mine.inst[j] ELSE inst[j]
        /\ DlKept /\ InstKept
    BY <1>27, <2>2, CommitKeeps
  <2>9. dl'[c] = done.mine.dl[c] /\ inst'[i] = f[i]
    BY <1>7, <1>8, <1>14, <1>17, <2>2, <2>8
  <2>10. Known(dl'[c]) /\ dl'[c].res = row.res /\ inst'[i].res = row.res /\ Settled(inst'[i])
    BY <1>8, <1>13, <2>2, <2>9
  <2>11. Known(dl[u.d]) /\ u.d \in Downloads
    BY <1>2, WorkerFields DEF WorkerInv, Phase
  <2>12. dl'[u.d].res = dl[u.d].res
    BY <2>8, <2>11 DEF DlKept
  <2>13. Ordered(v)'
    <3>1. Known(dl[v.cur])'
      BY <2>6, <2>10 DEF Known
    <3>2. Served(dl[v.cur].res)'
      BY <1>8, <2>6, <2>10 DEF Served, Settled
    <3>3. ASSUME ~v.skipped, NEW x \in Deps[dl'[v.d].res] \ v.todo
          PROVE  Served(x)'
      <4>1. Served(x)
        BY <1>2, <2>6, <2>12, <3>3 DEF WorkerInv, Ordered
      <4> QED  BY <2>8, <4>1 DEF Served, InstKept, Settled, Known
    <3>4. v.cur = v.d => v.todo = {}
      BY <1>2, <1>3, <2>6 DEF WorkerInv, Ordered
    <3> QED  BY <2>6, <3>1, <3>2, <3>3, <3>4 DEF Ordered
  <2>14. \A j \in Workers \ {k} : done.myDl \cap w[j].myDl = {} /\ done.myInst \cap w[j].myInst = {}
    BY <2>1, <2>2
  <2>15. RDInv' /\ InstalledIn(inst) \subseteq InstalledIn(inst')
    BY <1>24, <1>27, <2>2, <2>6, <2>7, <2>11, <2>13, <2>14, CommitStep
  <2> QED  BY <2>8, <2>15
<1> QED
  <2> DEFINE cc == w[k].cur
             ii == w[k].ins
             II == Predecessors(k)
             act == [w[k] EXCEPT
                       !.mine.inst = [j \in Installs |-> IF j \in II \cup {ii}
                                        THEN IF j = ii THEN Activated(InstSeen(k, j)) ELSE Replaced(InstSeen(k, j))
                                        ELSE @[j]],
                       !.myInst = @ \cup (II \cup {ii})]
             ready == PutDl(act, cc, SetStatus(k, cc, "Ready"))
             complete == PutDl(act, cc, SetStatus(k, cc, "Completed"))
  <2>1. \/ RaiseDb(k) /\ UNCHANGED <<dl, inst, raced>>
        \/ /\ \A j \in II : MayWriteInst(k, j)
           /\ w' = [w EXCEPT ![k] = [ready EXCEPT !.pc = "failing"]]
           /\ UNCHANGED <<dl, inst, raced>>
        \/ /\ \A j \in II : MayWriteInst(k, j)
           /\ Commit(complete)
           /\ w' = [w EXCEPT ![k] = [Closed(complete) EXCEPT !.pc = "installed"]]
    BY Zenon DEF Activate, PutInst
  <2>2. cc = c /\ ii = i /\ II = P /\ II \cup {ii} = I
    BY <1>1, <1>3, <1>4, <1>9, <1>14
  <2>3. /\ SetStatus(k, cc, "Ready") = [old EXCEPT !.status = "Ready"]
        /\ SetStatus(k, cc, "Completed") = [old EXCEPT !.status = "Completed"]
    BY <1>1, <1>3, <1>6, <1>7 DEF SetStatus, DlSeen
  <2>4. act = ws
    <3>1. ws = [u EXCEPT !.mine.inst = [j \in Installs |-> IF j \in I THEN f[j] ELSE u.mine.inst[j]],
                         !.myInst = u.myInst \cup I]
      BY <1>16 DEF WithInst
    <3>2. [j \in Installs |-> IF j \in I THEN f[j] ELSE u.mine.inst[j]] =
          [j \in Installs |-> IF j \in II \cup {ii}
                              THEN IF j = ii THEN Activated(InstSeen(k, j)) ELSE Replaced(InstSeen(k, j))
                              ELSE w[k].mine.inst[j]]
      <4>1. \A j \in I : f[j] = IF j = ii THEN Activated(InstSeen(k, j)) ELSE Replaced(InstSeen(k, j))
        <5>1. i \in Installs /\ \A j \in Installs \ {i} : InstSeen(k, j) = u.view.inst[j]
          BY <1>1, <1>8 DEF InstSeen
        <5>2. InstSeen(k, i) = row
          BY <1>1, <1>5, <1>8 DEF InstSeen
        <5> QED  BY <1>12, <1>15, <2>2, <5>1, <5>2
      <4> QED  BY <1>1, <2>2, <4>1
    <3> QED  BY <1>1, <2>2, <3>1, <3>2
  <2>5. ready = notReady /\ complete = done
    <3> HIDE DEF act
    <3> QED  BY <1>21, <1>22, <2>2, <2>3, <2>4
  <2> HIDE DEF cc, ii, II, act, ready, complete
  <2> QED  BY <1>25, <1>26, <1>27, <2>1, <2>2, <2>5

LEMMA InitRDInv == RDInit => RDInv
<1> SUFFICES ASSUME RDInit
             PROVE  RDInv
  OBVIOUS
<1>0. MaxStarts \in Nat /\ MaxStops \in Nat /\ MaxCrashes \in Nat /\ MaxDownloads \in Nat /\ MaxInstalls \in Nat
  BY ResourceAssumption
<1>1. Len(Before) \in Nat /\ Before \in [1 .. Len(Before) -> Resources] /\ 1 \in Versions
      /\ Len(Before) <= MaxInstalls
  BY ResourceAssumption DEF Versions
<1>2. RDTypeOK
  <2>1. \A r \in Resources : [NoInst EXCEPT !.res = r, !.status = "Active", !.active = TRUE] \in InstRow
    BY NoRowTypes DEF InstRow, InstStatus
  <2>2. inst \in [Installs -> InstRow]
    <3>1. \A i \in Installs : ~(i > Len(Before)) => Before[i] \in Resources
      BY <1>1, NumbersAreNat
    <3> QED  BY <2>1, <3>1, NoRowTypes DEF RDInit
  <2>3. snaps \subseteq Resources \X Versions
    <3>1. \A i \in 1 .. Len(Before) : <<Before[i], 1>> \in Resources \X Versions
      BY <1>1
    <3> QED  BY <3>1 DEF RDInit
  <2>4. w \in [Workers -> WorkerState]
    BY IdleWorkerFields DEF RDInit
  <2>5. used \in [dl : 0 .. MaxDownloads, inst : 0 .. MaxInstalls]
    <3>1. 0 \in 0 .. MaxDownloads /\ Len(Before) \in 0 .. MaxInstalls
      BY <1>0, <1>1
    <3>2. used = [dl |-> 0, inst |-> Len(Before)]
      BY DEF RDInit
    <3> QED  BY <3>1, <3>2
  <2>6. /\ requests \in [starts : 0 .. MaxStarts, stops : 0 .. MaxStops]
        /\ crashes \in 0 .. MaxCrashes
    <3>1. 0 \in 0 .. MaxStarts /\ 0 \in 0 .. MaxStops /\ 0 \in 0 .. MaxCrashes
      BY <1>0
    <3>2. requests = [starts |-> 0, stops |-> 0] /\ crashes = 0
      BY DEF RDInit
    <3> QED  BY <3>1, <3>2
  <2> QED  BY <2>2, <2>3, <2>4, <2>5, <2>6, NoRowTypes DEF RDInit, RDTypeOK
<1>3. RowsHold
  <2>1. \A d \in Downloads : ~Known(dl[d]) /\ jobs[d] = "none"
    BY NoRowTypes DEF RDInit
  <2>2. ASSUME NEW i \in Installs, Known(inst[i]) \/ inst[i].active
        PROVE  i \in 1 .. Len(Before) /\ inst[i].res = Before[i] /\ inst[i].ver = 1
    <3>1. ~(i > Len(Before))
      BY <2>2, NoRowTypes DEF RDInit
    <3>2. inst[i] = [NoInst EXCEPT !.res = Before[i], !.status = "Active", !.active = TRUE]
      BY <3>1 DEF RDInit
    <3> QED  BY <1>1, <3>1, <3>2, NumbersAreNat DEF NoInst
  <2>3. ActiveHasFiles
    <3>1. \A i \in 1 .. Len(Before) : <<Before[i], 1>> \in snaps
      BY DEF RDInit
    <3> QED  BY <2>2, <3>1 DEF ActiveHasFiles
  <2>4. Numbered
    <3>1. used.inst = Len(Before)
      BY DEF RDInit
    <3> QED  BY <1>1, <2>1, <2>2, <3>1 DEF Numbered
  <2>5. JobsNamed
    BY <2>1 DEF JobsNamed, RDInit
  <2>6. ActiveKnown
    <3>1. \A i \in Installs : inst[i] = NoInst \/ inst[i].status = "Active"
      BY NoRowTypes DEF RDInit, NoInst
    <3> QED  BY <3>1, NoRowTypes DEF ActiveKnown, Known
  <2>7. OneActive
    <3>1. \A i, j \in 1 .. Len(Before) : Before[i] = Before[j] => i = j
      BY ResourceAssumption
    <3> QED  BY <2>2, <3>1 DEF OneActive
  <2> QED  BY <2>3, <2>4, <2>5, <2>6, <2>7 DEF RowsHold, InUseOnce
<1>4. ASSUME NEW k \in Workers
      PROVE  WorkerInv(w[k])
  BY IdleWorkerFields, ClosedWorker DEF RDInit
<1>5. Exclusive
  BY IdleWorkerFields DEF RDInit, Exclusive
<1> QED  BY <1>2, <1>3, <1>4, <1>5 DEF RDInv

LEMMA NextRDInv == RDInv /\ [RDNext]_rdvars => RDInv'
<1> SUFFICES ASSUME RDInv, [RDNext]_rdvars
             PROVE  RDInv'
  OBVIOUS
<1>1. CASE People
  BY <1>1, StartStep, DlSteps, UpdateStep, UninstallStep, RollbackStep DEF People
<1>2. ASSUME NEW d \in Downloads, Recover(d) \/ Forget(d)
      PROVE  RDInv'
  BY <1>2, DlSteps, QueueSteps
<1>3. ASSUME NEW p \in Installs \X Installs, RollbackJob(p) \/ RollbackLost(p)
      PROVE  RDInv'
  BY <1>3, RollbackJobStep, QueueSteps
<1>4. ASSUME NEW k \in Workers, Work(k) \/ Die(k)
      PROVE  RDInv'
  BY <1>4, TakeJobStep, BeginStep, NextDependencyStep, DependenciesDoneStep, FetchAndInstallStep,
     ActivateStep, AfterInstallStep, MarkFailedStep, FinishStep DEF Work
<1>5. CASE UNCHANGED rdvars
  <2> USE <1>5 DEF rdvars
  <2>1. RDTypeOK'
    BY DEF RDInv, RDTypeOK
  <2>2. Grows
    BY NumbersAreNat DEF RDInv, Grows, DlKept, InstKept
  <2>3. RowsHold'
    BY OnceSame DEF RDInv, RowsHold, ActiveHasFiles, Numbered, JobsNamed, Known
  <2>4. \A k \in Workers : Untouched(w[k])
    BY DEF Untouched
  <2> QED  BY <2>1, <2>2, <2>3, <2>4, OthersKeep
<1> QED  BY <1>1, <1>2, <1>3, <1>4, <1>5 DEF RDNext

(* The inductive invariant of downloads and installations holds always.     *)
THEOREM RDInvariant == RDSpec => []RDInv
  BY InitRDInv, NextRDInv, PTL DEF RDSpec

(* Rows, jobs, workers and counters keep their types.                       *)
THEOREM RDTypeCorrect == RDSpec => []RDTypeOK
<1>1. RDInv => RDTypeOK
  BY DEF RDInv
<1> QED  BY <1>1, RDInvariant, PTL

(* What is in use has its package on disk, and one installation of a         *)
(* resource is in use unless two jobs installed it under views that did not  *)
(* show each other (activate_install, rollback).                             *)
THEOREM InUseSoundAlways == RDSpec => []InUseSound
<1>1. RDInv => InUseSound
  BY DEF RDInv, RowsHold, InUseOnce, InUseSound
<1> QED  BY <1>1, RDInvariant, PTL

(* One step keeps every resource in use, or removes it or rolls it back.   *)
KeepsService ==
    \A r \in InstalledIn(inst) :
        \/ r \in InstalledIn(inst')
        \/ \E i \in Installs :
             /\ inst[i].res = r
             /\ inst'[i].status \in {"Removed", "Rollback Pending"}
             /\ inst'[i].status # inst[i].status

LEMMA ServiceStep == RDInv /\ [RDNext]_rdvars => KeepsService
<1> SUFFICES ASSUME RDInv, [RDNext]_rdvars
             PROVE  KeepsService
  OBVIOUS
<1>1. CASE UNCHANGED inst \/ InstalledIn(inst) \subseteq InstalledIn(inst')
  BY <1>1 DEF KeepsService, InstalledIn
<1>2. inst \in [Installs -> InstRow]
  BY DEF RDInv, RDTypeOK
<1>3. ASSUME NEW i \in Installs, UpdateResource(i)
      PROVE  KeepsService
  <2>1. /\ inst'[i] = Outdated(inst[i]) /\ inst[i] \in InstRow /\ inst[i].active
        /\ \A j \in Installs \ {i} : inst'[j] = inst[j]
    BY <1>2, <1>3 DEF UpdateResource, Installed
  <2>2. inst'[i].res = inst[i].res /\ inst'[i].active /\ inst'[i].status = "Update Available"
    BY <2>1 DEF Outdated, InstRow
  <2>3. InstalledIn(inst) \subseteq InstalledIn(inst')
    BY <2>1, <2>2 DEF InstalledIn
  <2> QED  BY <1>1, <2>3
<1>4. ASSUME NEW i \in Installs, NEW s \in {"Removed", "Rollback Pending"}, inst[i].status # s,
             inst'[i].status = s, \A j \in Installs \ {i} : inst'[j] = inst[j]
      PROVE  KeepsService
  BY <1>4 DEF KeepsService, InstalledIn
<1>5. ASSUME NEW i \in Installs, UninstallResource(i)
      PROVE  KeepsService
  <2>1. inst[i].status # "Removed" /\ inst'[i].status = "Removed" /\ \A j \in Installs \ {i} : inst'[j] = inst[j]
    BY <1>2, <1>5 DEF UninstallResource, InstRow
  <2> QED  BY <1>4, <2>1
<1>6. ASSUME NEW i \in Installs, RollbackInstall(i)
      PROVE  KeepsService
  <2>1. inst'[i].status = "Rollback Pending" /\ \A j \in Installs \ {i} : inst'[j] = inst[j]
    BY <1>2, <1>6 DEF RollbackInstall, InstRow
  <2>2. inst'[i].res = inst[i].res /\ inst'[i].active = inst[i].active
    BY <1>2, <1>6 DEF RollbackInstall, InstRow
  <2>3. CASE inst[i].status = "Rollback Pending"
    BY <2>1, <2>2, <2>3 DEF KeepsService, InstalledIn
  <2> QED  BY <1>4, <2>1, <2>3
<1>7. CASE People
  BY <1>1, <1>3, <1>5, <1>6, <1>7
  DEF People, StartDownload, PauseDownload, CancelDownload, ResumeDownload, RetryDownload, GoOn
<1>8. ASSUME NEW d \in Downloads, Recover(d) \/ Forget(d)
      PROVE  KeepsService
  BY <1>1, <1>8 DEF Recover, Forget
<1>9. ASSUME NEW p \in Installs \X Installs, RollbackJob(p) \/ RollbackLost(p)
      PROVE  KeepsService
  BY <1>1, <1>9, RollbackJobStep DEF RollbackLost
<1>10. ASSUME NEW k \in Workers, Work(k) \/ Die(k)
       PROVE  KeepsService
  BY <1>1, <1>10, DependenciesDoneStep, ActivateStep, MarkFailedStep
  DEF Work, TakeJob, Begin, NextDependency, FetchAndInstall, AfterInstall, Finish, Die
<1>11. CASE UNCHANGED rdvars
  BY <1>1, <1>11 DEF rdvars
<1> QED  BY <1>7, <1>8, <1>9, <1>10, <1>11 DEF RDNext

(* One step completes a download only with its dependencies in place.      *)
CompletesInOrder ==
    \A k \in Workers :
        /\ w[k].pc = "activate" /\ w'[k].pc = "installed"
        /\ w[k].cur = w[k].d /\ ~w[k].skipped
        => \A c \in Deps[dl[w[k].d].res] :
              \E i \in Installs : /\ inst'[i].res = c
                                  /\ inst'[i].status \notin {"None", "Installing"}

LEMMA OrderStep == RDInv /\ [RDNext]_rdvars => CompletesInOrder
<1> SUFFICES ASSUME RDInv, [RDNext]_rdvars, NEW k \in Workers,
                    w[k].pc = "activate", w'[k].pc = "installed",
                    w[k].cur = w[k].d, ~w[k].skipped,
                    NEW c \in Deps[dl[w[k].d].res]
             PROVE  \E i \in Installs : inst'[i].res = c /\ Settled(inst'[i])
  BY DEF CompletesInOrder, Settled
<1>1. w \in [Workers -> WorkerState]
  BY DEF RDInv, RDTypeOK
<1>2. ~UNCHANGED w
  OBVIOUS
<1>3. ASSUME NEW j \in Workers, NEW v, w' = [w EXCEPT ![j] = v]
      PROVE  j = k /\ w'[j] = v
  BY <1>1, <1>3
<1>4. \A j \in Workers : Activate(j) => j = k
  BY <1>3 DEF Activate, RaiseDb
<1>5. ~People
  BY <1>2 DEF People, StartDownload, PauseDownload, CancelDownload, ResumeDownload, RetryDownload, GoOn,
     UpdateResource, UninstallResource, RollbackInstall
<1>6. \A d \in Downloads : ~Recover(d) /\ ~Forget(d)
  BY <1>2 DEF Recover, Forget
<1>7. \A p \in Installs \X Installs : ~RollbackJob(p) /\ ~RollbackLost(p)
  BY <1>2 DEF RollbackJob, RollbackLost
<1>8. PICK j \in Workers : Work(j) \/ Die(j)
  BY <1>2, <1>5, <1>6, <1>7 DEF RDNext, rdvars
<1>9. j = k
  <2>1. \E v : w' = [w EXCEPT ![j] = v]
    <3>1. CASE \E d \in Downloads : TakeJob(j, d)
      BY <3>1 DEF TakeJob
    <3>2. CASE Begin(j)
      BY <3>2 DEF Begin
    <3>3. CASE \E x \in Resources : NextDependency(j, x)
      BY <3>3 DEF NextDependency, Raise, RaiseDb, Goto
    <3>4. CASE DependenciesDone(j)
      BY <3>4 DEF DependenciesDone, RaiseDb
    <3>5. CASE FetchAndInstall(j)
      BY <3>5 DEF FetchAndInstall, RaiseDb
    <3>6. CASE Activate(j)
      BY <3>6 DEF Activate, RaiseDb
    <3>7. CASE AfterInstall(j)
      BY <3>7 DEF AfterInstall, Goto
    <3>8. CASE MarkFailed(j)
      BY <3>8 DEF MarkFailed
    <3>9. CASE Finish(j) \/ Die(j)
      BY <3>9 DEF Finish, Die
    <3> QED  BY <1>8, <3>1, <3>2, <3>3, <3>4, <3>5, <3>6, <3>7, <3>8, <3>9 DEF Work
  <2> QED  BY <1>3, <2>1
<1>10. Activate(k)
  <2>1. ~Finish(k) /\ ~(\E d \in Downloads : TakeJob(k, d)) /\ ~Begin(k) /\ ~FetchAndInstall(k)
        /\ ~(\E x \in Resources : NextDependency(k, x)) /\ ~DependenciesDone(k)
        /\ ~AfterInstall(k) /\ ~MarkFailed(k)
    BY DEF Finish, TakeJob, Begin, FetchAndInstall, NextDependency, DependenciesDone, AfterInstall, MarkFailed
  <2>2. ~Die(k)
    BY <1>1, IdleWorkerFields DEF Die
  <2> QED  BY <1>8, <1>9, <2>1, <2>2 DEF Work
<1>11. Served(c)
  BY DEF RDInv, WorkerInv, Ordered
<1>12. InstKept
  BY <1>10, ActivateStep
<1> QED  BY <1>11, <1>12 DEF Served, InstKept, Settled, Known

(* A resource in use stays in use, but for removal and rollback, and comes   *)
(* into use after what it depends on (activate_install, _mark_failed and     *)
(* _resolve_dependencies), whatever jobs fail or die.                        *)
THEOREM ServiceKeptAlways == RDSpec => ServiceKept
<1>1. RDInv /\ [RDNext]_rdvars => [KeepsService]_rdvars /\ [CompletesInOrder]_rdvars
  BY ServiceStep, OrderStep
<1>2. RDSpec => [][KeepsService]_rdvars /\ [][CompletesInOrder]_rdvars
  BY <1>1, RDInvariant, PTL DEF RDSpec
<1> QED
  BY <1>2, PTL DEF ServiceKept, JobsKeepService, DependenciesFirst, KeepsService, CompletesInOrder

=============================================================================
