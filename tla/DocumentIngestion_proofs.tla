---------------------- MODULE DocumentIngestion_proofs ----------------------
(* Type correctness and the safety of DocumentIngestion: for any documents,  *)
(* users, workers and sessions, and any number of requests, errors and       *)
(* crashes, an indexed document has the chunks of the text its row holds,    *)
(* and a cancelled one stays cancelled until a person asks for it again.     *)
EXTENDS DocumentIngestion, TLAPS

(* The inductive invariant. *)

Matching(row) ==
    row.status = "Indexed" =>
        /\ row.content # None
        /\ row.chunks = ChunkKeys[row.content]
        /\ row.embedded \subseteq row.chunks

RowSound(row) == Matching(row) /\ (row.status = "Cancelled" => row.cancel)

\* Runs that somebody waits for, who thereby asks for the document.
OnDemand == {"index", "extract"}

\* A run that has written nothing and whose view is current has the row of its
\* document; one that has written keeps a cancellation.
Sound(x, n) ==
    /\ RowSound(n.row)
    /\ n.pc \in Open =>
          /\ n.kind \in OnDemand => x \in Sessions
          /\ n.pc # "done" /\ ~ n.wrote /\ ~ n.stale => n.row = doc[n.doc]
          /\ n.wrote /\ n.kind \notin OnDemand /\ doc[n.doc].status = "Cancelled"
                => n.row.status = "Cancelled"

Writes(n, d) == n.pc \in Open /\ n.wrote /\ n.doc = d

\* One transaction at a time has written the row of a document.
OneWriter ==
    \A x, y \in Procs, d \in Docs : Writes(p[x], d) /\ Writes(p[y], d) => x = y

IInv ==
    /\ TypeOK
    /\ \A d \in Docs : RowSound(doc[d])
    /\ \A x \in Procs : Sound(x, p[x])
    /\ OneWriter

-----------------------------------------------------------------------------
(* Types. *)

LEMMA AnyUserType == AnyUser \in Users
  BY SetsAssumption DEF AnyUser

LEMMA NewRowType ==
    ASSUME NEW u \in Users
    PROVE  NewRow(u) \in Row /\ NewRow(u).status = "Draft" /\ RowSound(NewRow(u))
  BY DEF NewRow, Row, Status, RowSound, Matching

LEMMA TransactionType ==
    ASSUME NEW k \in {"job", "index", "extract", "turn"}, NEW d \in Docs, NEW u \in Users,
           NEW row \in Row, NEW b \in BOOLEAN
    PROVE  LET n == Transaction(k, d, u, row, b)
           IN  /\ n \in Proc /\ n.pc = "taken" /\ n.kind = k /\ n.doc = d /\ n.row = row
               /\ n.wrote = b /\ ~ n.stale
  BY DEF Transaction, Proc

LEMMA IdleType ==
    /\ Idle \in Proc /\ Idle.pc = "idle" /\ RowSound(Idle.row) /\ ~ Idle.wrote
<1> DEFINE d0 == CHOOSE e \in Docs : TRUE
           t == Transaction("job", d0, AnyUser, NewRow(AnyUser), FALSE)
<1>1. /\ t \in Proc /\ t.row = NewRow(AnyUser) /\ ~ t.wrote
  <2>1. d0 \in Docs
    BY SetsAssumption
  <2>2. NewRow(AnyUser) \in Row /\ AnyUser \in Users
    BY AnyUserType, NewRowType
  <2> HIDE DEF d0
  <2> QED  BY <2>1, <2>2 DEF Transaction, Proc
<1>2. Idle = [t EXCEPT !.pc = "idle"]
  BY DEF Idle
<1> HIDE DEF t
<1>3. Idle \in Proc /\ Idle.pc = "idle" /\ Idle.row = NewRow(AnyUser) /\ ~ Idle.wrote
  BY <1>1, <1>2 DEF Proc
<1>4. RowSound(Idle.row)
  BY <1>3, AnyUserType, NewRowType
<1> QED  BY <1>3, <1>4

\* A process whose transaction ends without a write, and a worker after its end.
Rest(k, d) == [Idle EXCEPT !.pc = "done", !.kind = k, !.doc = d]
Ended(d) == [Idle EXCEPT !.pc = "ended", !.doc = d]

LEMMA RestType ==
    ASSUME NEW k \in {"job", "index", "extract", "turn"}, NEW d \in Docs
    PROVE  /\ Rest(k, d) \in Proc /\ Rest(k, d).pc = "done" /\ Rest(k, d).kind = k
           /\ Rest(k, d).doc = d /\ RowSound(Rest(k, d).row) /\ ~ Rest(k, d).wrote
           /\ Ended(d) \in Proc /\ Ended(d).pc = "ended" /\ RowSound(Ended(d).row)
<1>1. /\ Rest(k, d) \in Proc /\ Rest(k, d).pc = "done" /\ Rest(k, d).kind = k
      /\ Rest(k, d).doc = d /\ Rest(k, d).row = Idle.row /\ ~ Rest(k, d).wrote
  BY IdleType DEF Rest, Proc
<1>2. Ended(d) \in Proc /\ Ended(d).pc = "ended" /\ Ended(d).row = Idle.row
  BY IdleType DEF Ended, Proc
<1> QED  BY <1>1, <1>2, IdleType

LEMMA InvFacts ==
    ASSUME IInv
    PROVE  /\ doc \in [Docs -> Row] /\ source \in [Docs -> Versions]
           /\ job \in [Docs -> Users \cup {None}]
           /\ lock \in [Docs -> Procs \cup {None, Dead}] /\ p \in [Procs -> Proc]
           /\ \A d \in Docs : lock[d] \in Procs => p[lock[d]].pc = "locked" /\ p[lock[d]].doc = d
           /\ requests \in 0 .. MaxRequests /\ failures \in 0 .. MaxFailures
           /\ crashes \in 0 .. MaxCrashes
           /\ \A d \in Docs : RowSound(doc[d])
           /\ \A x \in Procs : Sound(x, p[x])
           /\ OneWriter
  BY DEF IInv, TypeOK

LEMMA BoundsKept ==
    ASSUME IInv
    PROVE  /\ Requested => requests' \in 0 .. MaxRequests
           /\ Failing => failures' \in 0 .. MaxFailures
           /\ failures < MaxFailures /\ failures' = failures + 1 => failures' \in 0 .. MaxFailures
           /\ crashes < MaxCrashes /\ crashes' = crashes + 1 => crashes' \in 0 .. MaxCrashes
  BY InvFacts, LimitsAssumption DEF Requested, Failing

\* What a commit leaves of a process.
Remains(o, n, ds) ==
    /\ o.pc = n.pc /\ o.kind = n.kind /\ o.doc = n.doc /\ o.row = n.row /\ o.wrote = n.wrote
    /\ o.pc \in Open /\ ~ o.wrote /\ ~ o.stale => ~ n.stale /\ n.doc \notin ds

LEMMA OutdatedFields ==
    ASSUME NEW q \in [Procs -> Proc], NEW ds, NEW b \in BOOLEAN
    PROVE  /\ Outdated(q, ds, b) \in [Procs -> Proc]
           /\ \A x \in Procs : Remains(Outdated(q, ds, b)[x], q[x], ds)
<1> DEFINE s(x) == q[x].stale \/ (q[x].doc \in ds /\ ~ q[x].wrote)
           k(x) == q[x].kbStale \/ b
           new(x) == [q[x] EXCEPT !.stale = s(x), !.kbStale = k(x)]
<1>1. Outdated(q, ds, b) = [x \in Procs |-> IF q[x].pc \in Open THEN new(x) ELSE q[x]]
  BY DEF Outdated
<1>2. ASSUME NEW x \in Procs
      PROVE  /\ new(x) \in Proc /\ new(x).stale = s(x)
             /\ new(x).pc = q[x].pc /\ new(x).kind = q[x].kind /\ new(x).doc = q[x].doc
             /\ new(x).row = q[x].row /\ new(x).wrote = q[x].wrote
  <2>1. q[x] \in Proc /\ s(x) \in BOOLEAN /\ k(x) \in BOOLEAN
    BY DEF Proc
  <2> HIDE DEF s, k
  <2> QED  BY <2>1 DEF Proc
<1> HIDE DEF new
<1>3. Outdated(q, ds, b) \in [Procs -> Proc]
  BY <1>1, <1>2
<1>4. ASSUME NEW x \in Procs PROVE Remains(Outdated(q, ds, b)[x], q[x], ds)
  <2>1. CASE q[x].pc \in Open
    <3>1. Outdated(q, ds, b)[x] = new(x)
      BY <1>1, <2>1
    <3> QED  BY <1>2, <3>1 DEF Remains
  <2>2. CASE q[x].pc \notin Open
    <3>1. Outdated(q, ds, b)[x] = q[x]
      BY <1>1, <2>2
    <3> QED  BY <2>2, <3>1 DEF Remains
  <2> QED  BY <2>1, <2>2
<1> QED  BY <1>3, <1>4

-----------------------------------------------------------------------------
LEMMA InitInv == Init => IInv
<1> SUFFICES ASSUME Init PROVE IInv
  OBVIOUS
<1>1. \A d \in Docs : Inserted(d) \in Row /\ RowSound(Inserted(d))
  BY AnyUserType DEF Inserted, NewRow, Row, Status, RowSound, Matching
<1>2. (CHOOSE v \in Versions : TRUE) \in Versions
  BY SetsAssumption
<1>3. doc \in [Docs -> Row] /\ \A d \in Docs : RowSound(doc[d])
  BY <1>1 DEF Init
<1>4. source \in [Docs -> Versions] /\ job \in [Docs -> Users \cup {None}]
  BY <1>2, AnyUserType DEF Init
<1>5. p \in [Procs -> Proc] /\ \A x \in Procs : p[x] = Idle
  BY IdleType DEF Init
<1>6. lock \in [Docs -> Procs \cup {None, Dead}] /\ \A d \in Docs : lock[d] \notin Procs
  BY SetsAssumption DEF Init, Procs
<1>7. requests \in 0 .. MaxRequests /\ failures \in 0 .. MaxFailures /\ crashes \in 0 .. MaxCrashes
  BY LimitsAssumption DEF Init
<1>8. TypeOK
  BY <1>3, <1>4, <1>5, <1>6, <1>7 DEF TypeOK
<1>9. (\A x \in Procs : Sound(x, p[x])) /\ OneWriter
  <2>1. \A x \in Procs : p[x].pc \notin Open /\ RowSound(p[x].row)
    BY <1>5, IdleType DEF Open
  <2> QED  BY <2>1 DEF Sound, OneWriter, Writes
<1> QED  BY <1>3, <1>8, <1>9 DEF IInv

-----------------------------------------------------------------------------
(* Steps of one process that commit nothing. *)

LEMMA ProcStep ==
    ASSUME IInv, NEW x \in Procs, NEW n \in Proc, Sound(x, n),
           p' = [p EXCEPT ![x] = n], UNCHANGED <<doc, source>>,
           \A d \in Docs : Writes(n, d) => Writes(p[x], d) \/ RowFree(d)
                              \/ \A y \in Procs \ {x} : ~ Writes(p[y], d),
           lock' \in [Docs -> Procs \cup {None, Dead}],
           \A d \in Docs : lock'[d] \in Procs =>
              \/ lock'[d] = x /\ n.pc = "locked" /\ n.doc = d
              \/ lock'[d] # x /\ lock[d] = lock'[d],
           job' \in [Docs -> Users \cup {None}],
           requests' \in 0 .. MaxRequests, failures' \in 0 .. MaxFailures,
           crashes' \in 0 .. MaxCrashes
    PROVE  IInv'
<1>1. /\ p' \in [Procs -> Proc] /\ p'[x] = n
      /\ \A y \in Procs : y # x => p'[y] = p[y]
  BY InvFacts
<1>2. TypeOK'
  <2>1. \A d \in Docs : lock'[d] \in Procs => p'[lock'[d]].pc = "locked" /\ p'[lock'[d]].doc = d
    BY <1>1, InvFacts
  <2>2. doc' \in [Docs -> Row] /\ source' \in [Docs -> Versions]
    BY InvFacts
  <2> QED  BY <1>1, <2>1, <2>2 DEF TypeOK
<1>3. \A d \in Docs : RowSound(doc[d])'
  BY InvFacts DEF RowSound, Matching
<1>4. \A y \in Procs : Sound(y, p[y])'
  <2>1. \A y \in Procs : Sound(y, p'[y])
    BY <1>1, InvFacts
  <2> QED  BY <2>1 DEF Sound, RowSound, Matching
<1>5. OneWriter'
  <2> SUFFICES ASSUME NEW y \in Procs, NEW z \in Procs, NEW d \in Docs,
                      Writes(p'[y], d), Writes(p'[z], d)
               PROVE  y = z
    BY DEF OneWriter, Writes
  <2>1. \A r \in Procs : r # x /\ Writes(p'[r], d) => Writes(p[r], d) /\ ~ RowFree(d)
    BY <1>1 DEF Writes, RowFree, InFlight
  <2>2. Writes(p'[x], d) => \A r \in Procs \ {x} : ~ Writes(p'[r], d)
    BY <1>1, <2>1, InvFacts DEF OneWriter
  <2> QED  BY <2>1, <2>2, InvFacts DEF OneWriter
<1> QED  BY <1>2, <1>3, <1>4, <1>5 DEF IInv

\* A commit of the rows of ds. A process of q is as before, and has not written
\* one of them, or it is over.
LEMMA RowsStep ==
    ASSUME IInv, NEW ds \in SUBSET Docs, NEW b \in BOOLEAN, NEW q \in [Procs -> Proc],
           p' = Outdated(q, ds, b),
           \A x \in Procs :
              \/ q[x] = p[x] /\ \A d \in ds : ~ Writes(p[x], d)
              \/ q[x].pc \notin Open /\ q[x].pc # "locked" /\ RowSound(q[x].row)
                 /\ p[x].pc # "locked",
           doc' \in [Docs -> Row], \A d \in ds : RowSound(doc'[d]),
           \A d \in Docs \ ds : doc'[d] = doc[d],
           job' \in [Docs -> Users \cup {None}],
           UNCHANGED <<source, lock>>,
           requests' \in 0 .. MaxRequests, failures' \in 0 .. MaxFailures,
           crashes' \in 0 .. MaxCrashes
    PROVE  IInv'
<1>1. p' \in [Procs -> Proc] /\ \A x \in Procs : Remains(p'[x], q[x], ds)
  BY OutdatedFields
<1>2. TypeOK'
  <2>1. ASSUME NEW d \in Docs, lock'[d] \in Procs
        PROVE  p'[lock'[d]].pc = "locked" /\ p'[lock'[d]].doc = d
    <3>1. lock'[d] = lock[d] /\ p[lock[d]].pc = "locked" /\ p[lock[d]].doc = d
      BY <2>1, InvFacts
    <3>2. q[lock[d]] = p[lock[d]]
      BY <2>1, <3>1
    <3> QED  BY <1>1, <2>1, <3>1, <3>2 DEF Remains
  <2>2. source' \in [Docs -> Versions] /\ lock' \in [Docs -> Procs \cup {None, Dead}]
    BY InvFacts
  <2> QED  BY <1>1, <2>1, <2>2 DEF TypeOK
<1>3. \A d \in Docs : RowSound(doc[d])'
  <2>1. \A d \in Docs : RowSound(doc'[d])
    BY InvFacts
  <2> QED  BY <2>1 DEF RowSound, Matching
<1>4. ASSUME NEW x \in Procs PROVE Sound(x, p[x])'
  <2> DEFINE o == p'[x]
  <2>1. CASE q[x] = p[x] /\ \A d \in ds : ~ Writes(p[x], d)
    <3>1. Sound(x, p[x]) /\ Remains(o, p[x], ds) /\ p[x].doc \in Docs
      BY <1>1, <2>1, InvFacts DEF Proc
    <3>2. RowSound(o.row)
      BY <3>1 DEF Sound, Remains
    <3>3. o.pc \in Open /\ o.kind \in OnDemand => x \in Sessions
      BY <3>1 DEF Sound, Remains
    <3>4. ASSUME o.pc \in Open, o.pc # "done", ~ o.wrote, ~ o.stale
          PROVE  o.row = doc'[o.doc]
      <4>1. p[x].doc \notin ds /\ doc'[p[x].doc] = doc[p[x].doc] /\ ~ p[x].stale
        BY <3>1, <3>4 DEF Remains
      <4> QED  BY <3>1, <3>4, <4>1 DEF Sound, Remains
    <3>5. ASSUME o.pc \in Open, o.wrote, o.kind \notin OnDemand, doc'[o.doc].status = "Cancelled"
          PROVE  o.row.status = "Cancelled"
      <4>1. Writes(p[x], p[x].doc) /\ p[x].doc = o.doc
        BY <3>1, <3>5 DEF Remains, Writes
      <4>2. doc'[p[x].doc] = doc[p[x].doc]
        BY <2>1, <3>1, <4>1
      <4> QED  BY <3>1, <3>5, <4>1, <4>2 DEF Sound, Remains
    <3> HIDE DEF o
    <3>6. o = p'[x]
      BY DEF o
    <3> QED  BY <3>2, <3>3, <3>4, <3>5, <3>6 DEF Sound, RowSound, Matching
  <2>2. CASE q[x].pc \notin Open /\ RowSound(q[x].row)
    <3>1. o.pc \notin Open /\ RowSound(o.row)
      BY <1>1, <2>2 DEF Remains
    <3> QED  BY <3>1 DEF Sound, RowSound, Matching
  <2> QED  BY <2>1, <2>2
<1>5. OneWriter'
  <2>1. \A x \in Procs, d \in Docs : Writes(p'[x], d) => Writes(p[x], d)
    BY <1>1 DEF Remains, Writes
  <2>2. \A x, y \in Procs, d \in Docs : Writes(p'[x], d) /\ Writes(p'[y], d) => x = y
    BY <2>1, InvFacts DEF OneWriter
  <2> QED  BY <2>2 DEF OneWriter, Writes
<1> QED  BY <1>2, <1>3, <1>4, <1>5 DEF IInv

-----------------------------------------------------------------------------
(* The ends of a run. *)

LEMMA ReleasedLocks ==
    ASSUME IInv, NEW x \in Procs
    PROVE  /\ Released(x) \in [Docs -> Procs \cup {None, Dead}]
           /\ \A d \in Docs : Released(x)[d] \in Procs => Released(x)[d] # x /\ lock[d] = Released(x)[d]
<1>1. None \notin Procs
  BY SetsAssumption DEF Procs
<1> QED  BY <1>1, InvFacts DEF Released

LEMMA DoneStep ==
    ASSUME IInv, NEW x \in Procs, p[x].pc \in {"taken", "locked"},
           NEW n \in Proc, n.pc = "done", n.doc = p[x].doc, n.kind = p[x].kind, RowSound(n.row),
           n.wrote => \/ p[x].wrote \/ RowFree(p[x].doc)
                      \/ \A y \in Procs \ {x} : ~ Writes(p[y], p[x].doc),
           n.wrote /\ n.kind \notin OnDemand /\ doc[n.doc].status = "Cancelled"
                => n.row.status = "Cancelled",
           p' = [p EXCEPT ![x] = n],
           lock' = Released(x) \/ (lock' = lock /\ p[x].pc = "taken"),
           UNCHANGED <<doc, source, job, requests, crashes>>,
           failures' \in 0 .. MaxFailures
    PROVE  IInv'
<1>1. Sound(x, p[x]) /\ p[x].pc \in Open /\ p[x].doc \in Docs
  BY InvFacts DEF Open, Proc
<1>2. Sound(x, n)
  BY <1>1 DEF Sound
<1>3. \A d \in Docs : Writes(n, d) => Writes(p[x], d) \/ RowFree(d)
                                       \/ \A y \in Procs \ {x} : ~ Writes(p[y], d)
  BY <1>1 DEF Writes
<1>4. /\ lock' \in [Docs -> Procs \cup {None, Dead}]
      /\ \A d \in Docs : lock'[d] \in Procs => lock'[d] # x /\ lock[d] = lock'[d]
  BY ReleasedLocks, InvFacts
<1>5. /\ job' \in [Docs -> Users \cup {None}]
      /\ requests' \in 0 .. MaxRequests /\ crashes' \in 0 .. MaxCrashes
  BY InvFacts
<1>6. UNCHANGED <<doc, source>>
  OBVIOUS
<1> QED  BY <1>2, <1>3, <1>4, <1>5, <1>6, ProcStep

LEMMA EndsStep ==
    ASSUME IInv, NEW x \in Procs, p[x].pc \in {"taken", "locked"},
           NEW row \in Row, RowSound(row), p[x].wrote \/ RowFree(p[x].doc),
           p[x].kind \notin OnDemand /\ doc[p[x].doc].status = "Cancelled"
                => row.status = "Cancelled",
           Ends(x, row),
           UNCHANGED <<doc, source, job, requests, crashes>>,
           failures' \in 0 .. MaxFailures
    PROVE  IInv'
<1> DEFINE n == [p[x] EXCEPT !.pc = "done", !.row = row, !.wrote = TRUE]
<1>1. p[x] \in Proc
  BY InvFacts
<1>2. /\ n \in Proc /\ n.pc = "done" /\ n.doc = p[x].doc /\ n.kind = p[x].kind /\ n.row = row
      /\ n.wrote
  BY <1>1 DEF Proc
<1>3. p' = [p EXCEPT ![x] = n] /\ lock' = Released(x)
  BY <1>1, InvFacts DEF Ends
<1> HIDE DEF n
<1>4. UNCHANGED <<doc, source, job, requests, crashes>>
  OBVIOUS
<1> QED  BY <1>2, <1>3, <1>4, DoneStep

LEMMA LeaveStep ==
    ASSUME IInv, NEW x \in Procs, p[x].pc \in {"taken", "locked"},
           p' = [p EXCEPT ![x] = Leave(x)],
           lock' = Released(x) \/ (lock' = lock /\ p[x].pc = "taken"),
           UNCHANGED <<doc, source, job, requests, failures, crashes>>
    PROVE  IInv'
<1>1. p[x] \in Proc /\ Sound(x, p[x]) /\ failures' \in 0 .. MaxFailures
  BY InvFacts
<1>2. UNCHANGED <<doc, source, job, requests, crashes>>
  OBVIOUS
<1>3. CASE p[x].wrote
  <2> DEFINE n == [p[x] EXCEPT !.pc = "done"]
  <2>1. n \in Proc /\ n.pc = "done" /\ n.doc = p[x].doc /\ n.kind = p[x].kind /\ n.row = p[x].row
        /\ n.wrote
    BY <1>1, <1>3 DEF Proc
  <2>2. p' = [p EXCEPT ![x] = n]
    BY <1>3 DEF Leave
  <2> HIDE DEF n
  <2>3. RowSound(n.row) /\ (n.kind \notin OnDemand /\ doc[n.doc].status = "Cancelled"
                              => n.row.status = "Cancelled")
    BY <1>1, <1>3, <2>1 DEF Sound, Open
  <2> QED  BY <1>1, <1>2, <1>3, <2>1, <2>2, <2>3, DoneStep
<1>4. CASE ~ p[x].wrote
  <2> DEFINE n == Rest(p[x].kind, p[x].doc)
  <2>1. p[x].kind \in {"job", "index", "extract", "turn"} /\ p[x].doc \in Docs
    BY <1>1 DEF Proc
  <2>2. p' = [p EXCEPT ![x] = n]
    BY <1>4 DEF Leave, Rest
  <2>3. n \in Proc /\ n.pc = "done" /\ n.kind = p[x].kind /\ n.doc = p[x].doc /\ RowSound(n.row)
        /\ ~ n.wrote
    BY <2>1, RestType
  <2> HIDE DEF n
  <2> QED  BY <1>1, <1>2, <2>2, <2>3, DoneStep
<1> QED  BY <1>3, <1>4

LEMMA HandledSound ==
    ASSUME NEW row \in Row, RowSound(row)
    PROVE  /\ Handled(row) \in Row /\ RowSound(Handled(row))
           /\ row.status = "Cancelled" => Handled(row).status = "Cancelled"
<1>1. CASE row.cancel
  BY <1>1 DEF Handled, Row, Status, RowSound, Matching
<1>2. CASE ~ row.cancel
  <2> DEFINE r == row.retry + 1
             f == [row EXCEPT !.status = "Failed", !.retry = r]
  <2>1. r \in Nat
    BY DEF Row
  <2>2. Handled(row) = f
    BY <1>2 DEF Handled
  <2> HIDE DEF r
  <2>3. f \in Row /\ f.status = "Failed"
    BY <2>1 DEF Row, Status
  <2> HIDE DEF f
  <2> QED  BY <1>2, <2>2, <2>3 DEF RowSound, Matching
<1> QED  BY <1>1, <1>2

\* A run that may write does not meet a cancelled document.
LEMMA NotCancelled ==
    ASSUME IInv, NEW x \in Procs, Starts(x), Writable(x)
    PROVE  /\ p[x].kind \notin OnDemand => doc[p[x].doc].status # "Cancelled"
           /\ p[x].wrote \/ RowFree(p[x].doc)
           /\ p[x].row \in Row /\ RowSound(p[x].row) /\ p[x].row.status # "Cancelled"
           /\ p[x].pc \in {"taken", "locked"}
<1>1. p[x] \in Proc /\ Sound(x, p[x]) /\ p[x].pc = "locked"
  BY InvFacts DEF Starts
<1>2. p[x].row.status # "Cancelled"
  BY DEF Starts, Startable
<1> QED  BY <1>1, <1>2 DEF Writable, Sound, Open, Proc

LEMMA RolledBackStep ==
    ASSUME IInv, NEW x \in Procs, p[x].pc = "locked", RolledBack(x),
           UNCHANGED <<doc, source, job, requests, failures, crashes>>
    PROVE  IInv'
<1>1. p[x] \in Proc /\ p[x].doc \in Docs /\ p[x].kind \in {"job", "index", "extract", "turn"}
      /\ failures' \in 0 .. MaxFailures
  BY InvFacts DEF Proc
<1>2. UNCHANGED <<doc, source, job, requests, crashes>>
  OBVIOUS
<1> DEFINE d == p[x].doc
           others == \E y \in Procs \ {x} : InFlight(y) /\ p[y].wrote /\ p[y].doc = d
<1>3. CASE others
  <2> DEFINE n == Rest(p[x].kind, d)
  <2>1. p' = [p EXCEPT ![x] = n] /\ lock' = Released(x)
    BY <1>3 DEF RolledBack, Rest
  <2>2. n \in Proc /\ n.pc = "done" /\ n.kind = p[x].kind /\ n.doc = d /\ RowSound(n.row)
        /\ ~ n.wrote
    BY <1>1, RestType
  <2> HIDE DEF n
  <2> QED  BY <1>1, <1>2, <2>1, <2>2, DoneStep
<1>4. CASE ~ others
  <2> DEFINE row == Handled(doc[d])
             n == [p[x] EXCEPT !.pc = "done", !.row = row, !.wrote = TRUE,
                               !.stale = FALSE, !.kb = FALSE, !.kbStale = FALSE]
  <2>1. row \in Row /\ RowSound(row) /\ (doc[d].status = "Cancelled" => row.status = "Cancelled")
    BY <1>1, HandledSound, InvFacts
  <2>2. p' = [p EXCEPT ![x] = n] /\ lock' = Released(x)
    BY <1>4 DEF RolledBack
  <2> HIDE DEF row
  <2>3. n \in Proc /\ n.pc = "done" /\ n.doc = d /\ n.kind = p[x].kind /\ n.row = row /\ n.wrote
    BY <1>1, <2>1 DEF Proc
  <2>4. \A y \in Procs \ {x} : ~ Writes(p[y], d)
    BY <1>4 DEF Writes, InFlight
  <2> HIDE DEF n
  <2> QED  BY <1>1, <1>2, <2>1, <2>2, <2>3, <2>4, DoneStep
<1> QED  BY <1>3, <1>4

-----------------------------------------------------------------------------
(* The steps of a run. *)

\* A process that holds no lock begins a transaction.
LEMMA BeginStep ==
    ASSUME IInv, NEW x \in Procs, p[x].pc = "idle", NEW n \in Proc, n.pc = "taken", Sound(x, n),
           n.wrote => RowFree(n.doc), p' = [p EXCEPT ![x] = n],
           UNCHANGED <<doc, source, lock, failures, crashes>>,
           job' \in [Docs -> Users \cup {None}], requests' \in 0 .. MaxRequests
    PROVE  IInv'
<1>1. \A d \in Docs : Writes(n, d) => RowFree(d)
  BY DEF Writes
<1>2. /\ lock' \in [Docs -> Procs \cup {None, Dead}]
      /\ \A d \in Docs : lock'[d] \in Procs => lock'[d] # x /\ lock[d] = lock'[d]
      /\ failures' \in 0 .. MaxFailures /\ crashes' \in 0 .. MaxCrashes
  BY InvFacts
<1>3. UNCHANGED <<doc, source>>
  OBVIOUS
<1> QED  BY <1>1, <1>2, <1>3, ProcStep

LEMMA TakeJobInv ==
    ASSUME IInv, NEW x \in Procs, NEW d \in Docs, TakeJob(x, d)
    PROVE  IInv'
<1> DEFINE n == Transaction("job", d, job[d], doc[d], FALSE)
<1>1. job[d] \in Users /\ doc[d] \in Row /\ RowSound(doc[d])
  BY InvFacts DEF TakeJob
<1>2. n \in Proc /\ n.pc = "taken" /\ n.kind = "job" /\ n.doc = d /\ n.row = doc[d] /\ ~ n.wrote
  BY <1>1 DEF Transaction, Proc
<1>3. p' = [p EXCEPT ![x] = n] /\ p[x].pc = "idle"
      /\ UNCHANGED <<doc, source, lock, failures, crashes>>
      /\ job' \in [Docs -> Users \cup {None}] /\ requests' \in 0 .. MaxRequests
  BY InvFacts DEF TakeJob
<1> HIDE DEF n
<1>4. Sound(x, n)
  BY <1>1, <1>2 DEF Sound, OnDemand
<1> QED  BY <1>2, <1>3, <1>4, BeginStep

LEMMA ProcessNowInv ==
    ASSUME IInv, NEW x \in Procs, NEW d \in Docs, NEW u \in Users, NEW k, ProcessNow(x, d, u, k)
    PROVE  IInv'
<1> DEFINE row == [doc[d] EXCEPT !.status = "Queued", !.queued = "inline", !.by = u]
           n == Transaction(k, d, u, row, TRUE)
<1>1. doc[d] \in Row /\ k \in {"index", "extract"} /\ x \in Sessions /\ RowFree(d)
  BY InvFacts DEF ProcessNow
<1>2. row \in Row /\ row.status = "Queued"
  BY <1>1 DEF Row, Status
<1>3. p' = [p EXCEPT ![x] = n] /\ p[x].pc = "idle"
      /\ UNCHANGED <<doc, source, lock, failures, crashes>>
      /\ job' \in [Docs -> Users \cup {None}] /\ requests' \in 0 .. MaxRequests
  BY InvFacts, BoundsKept DEF ProcessNow
<1> HIDE DEF row
<1>4. n \in Proc /\ n.pc = "taken" /\ n.kind = k /\ n.doc = d /\ n.row = row /\ n.wrote
  BY <1>1, <1>2 DEF Transaction, Proc
<1> HIDE DEF n
<1>5. Sound(x, n)
  BY <1>1, <1>2, <1>4 DEF Sound, OnDemand, RowSound, Matching
<1> QED  BY <1>1, <1>3, <1>4, <1>5, BeginStep

LEMMA PrepareTurnInv ==
    ASSUME IInv, NEW x \in Procs, NEW d \in Docs, NEW u \in Users, PrepareTurn(x, d, u)
    PROVE  IInv'
<1> DEFINE n == Transaction("turn", d, u, doc[d], FALSE)
<1>1. doc[d] \in Row /\ RowSound(doc[d])
  BY InvFacts
<1>2. n \in Proc /\ n.pc = "taken" /\ n.kind = "turn" /\ n.doc = d /\ n.row = doc[d] /\ ~ n.wrote
  BY <1>1 DEF Transaction, Proc
<1>3. p' = [p EXCEPT ![x] = n] /\ p[x].pc = "idle"
      /\ UNCHANGED <<doc, source, lock, failures, crashes>>
      /\ job' \in [Docs -> Users \cup {None}] /\ requests' \in 0 .. MaxRequests
  BY InvFacts, BoundsKept DEF PrepareTurn
<1> HIDE DEF n
<1>4. Sound(x, n)
  BY <1>1, <1>2 DEF Sound, OnDemand
<1> QED  BY <1>2, <1>3, <1>4, BeginStep

LEMMA AcquireInv ==
    ASSUME IInv, NEW x \in Procs, Acquire(x)
    PROVE  IInv'
<1> DEFINE n == [p[x] EXCEPT !.pc = "locked"]
<1>1. p[x] \in Proc /\ p[x].doc \in Docs /\ Sound(x, p[x]) /\ p[x].pc = "taken"
  BY InvFacts DEF Acquire, Proc
<1>2. /\ n \in Proc /\ n.pc = "locked" /\ n.doc = p[x].doc /\ n.kind = p[x].kind
      /\ n.row = p[x].row /\ n.wrote = p[x].wrote /\ n.stale = p[x].stale
  BY <1>1 DEF Proc
<1>3. p' = [p EXCEPT ![x] = n]
  BY <1>1, InvFacts DEF Acquire
<1> HIDE DEF n
<1>4. Sound(x, n)
  BY <1>1, <1>2 DEF Sound, Open
<1>5. \A d \in Docs : Writes(n, d) => Writes(p[x], d)
  BY <1>1, <1>2 DEF Writes, Open
<1>6. /\ lock' \in [Docs -> Procs \cup {None, Dead}]
      /\ \A d \in Docs : lock'[d] \in Procs =>
            \/ lock'[d] = x /\ n.pc = "locked" /\ n.doc = d
            \/ lock'[d] # x /\ lock[d] = lock'[d]
  BY <1>1, <1>2, InvFacts DEF Acquire
<1>7. /\ UNCHANGED <<doc, source>>
      /\ job' \in [Docs -> Users \cup {None}]
      /\ requests' \in 0 .. MaxRequests /\ failures' \in 0 .. MaxFailures
      /\ crashes' \in 0 .. MaxCrashes
  BY InvFacts DEF Acquire
<1> QED  BY <1>2, <1>3, <1>4, <1>5, <1>6, <1>7, ProcStep

LEMMA SkipInv ==
    ASSUME IInv, NEW x \in Procs, SkipLocked(x) \/ SkipStatus(x) \/ RunBlocked(x)
    PROVE  IInv'
<1>1. /\ p[x].pc \in {"taken", "locked"} /\ p' = [p EXCEPT ![x] = Leave(x)]
      /\ lock' = Released(x) \/ (lock' = lock /\ p[x].pc = "taken")
      /\ UNCHANGED <<doc, source, job, requests, failures, crashes>>
  BY DEF SkipLocked, SkipStatus, RunBlocked, Starts
<1> QED  BY <1>1, LeaveStep

LEMMA WrongAuthorityInv ==
    ASSUME IInv, NEW x \in Procs, WrongAuthority(x)
    PROVE  IInv'
<1>1. p[x].pc = "taken" /\ UNCHANGED <<doc, source, job, requests, failures, crashes>>
      /\ p[x] \in Proc /\ Sound(x, p[x])
  BY InvFacts DEF WrongAuthority
<1>2. CASE p[x].stale
  <2>1. p' = [p EXCEPT ![x] = Leave(x)] /\ lock' = lock
    BY <1>2 DEF WrongAuthority
  <2> QED  BY <1>1, <2>1, LeaveStep
<1>3. CASE ~ p[x].stale
  <2>1. RowFree(p[x].doc) /\ Ends(x, Handled(p[x].row)) /\ p[x].row \in Row /\ RowSound(p[x].row)
    BY <1>1, <1>3 DEF WrongAuthority, Proc, Sound
  <2>2. p[x].kind \notin OnDemand /\ doc[p[x].doc].status = "Cancelled" => p[x].row.status = "Cancelled"
    BY <1>1, <1>3 DEF Sound, Open
  <2>3. PICK row \in Row : row = Handled(p[x].row)
    BY <2>1, HandledSound
  <2>4. /\ RowSound(row) /\ Ends(x, row)
        /\ p[x].kind \notin OnDemand /\ doc[p[x].doc].status = "Cancelled" => row.status = "Cancelled"
    BY <2>1, <2>2, <2>3, HandledSound
  <2>5. /\ UNCHANGED <<doc, source, job, requests, crashes>> /\ failures' \in 0 .. MaxFailures
        /\ p[x].pc \in {"taken", "locked"}
    BY <1>1, InvFacts
  <2> QED  BY <2>1, <2>4, <2>5, EndsStep
<1> QED  BY <1>2, <1>3

LEMMA ConflictInv ==
    ASSUME IInv, NEW x \in Procs, RunConflict(x) \/ KbConflict(x)
    PROVE  IInv'
<1>1. p[x].pc = "locked" /\ RolledBack(x)
      /\ UNCHANGED <<doc, source, job, requests, failures, crashes>>
  BY DEF RunConflict, KbConflict, Indexes, Starts
<1> QED  BY <1>1, RolledBackStep

\* The ends of a run that may write, each with its row.
LEMMA WritableStep ==
    ASSUME IInv, NEW x \in Procs, Starts(x), Writable(x),
           NEW row \in Row, RowSound(row), Ends(x, row),
           failures' \in 0 .. MaxFailures
    PROVE  IInv'
<1>1. /\ p[x].kind \notin OnDemand => doc[p[x].doc].status # "Cancelled"
      /\ p[x].wrote \/ RowFree(p[x].doc)
      /\ p[x].pc \in {"taken", "locked"}
  BY NotCancelled
<1>2. UNCHANGED <<doc, source, job, requests, crashes>>
  BY DEF Starts
<1> QED  BY <1>1, <1>2, EndsStep

LEMMA ChunkedSound ==
    ASSUME NEW row \in Row, NEW v \in Versions
    PROVE  /\ Chunked(row, v) \in Row /\ Chunked(row, v).status = row.status
           /\ Chunked(row, v).content = v /\ Chunked(row, v).chunks = ChunkKeys[v]
           /\ Chunked(row, v).embedded \subseteq ChunkKeys[v]
<1>1. ChunkKeys[v] \in SUBSET Keys
  BY ChunksAssumption
<1> DEFINE e == row.embedded \cap ChunkKeys[v]
           r == [row EXCEPT !.content = v, !.chunks = ChunkKeys[v], !.embedded = e]
<1>2. e \in SUBSET Keys /\ e \subseteq ChunkKeys[v]
  BY <1>1
<1>3. Chunked(row, v) = r
  BY DEF Chunked
<1> HIDE DEF e
<1>4. r \in Row /\ r.status = row.status /\ r.content = v /\ r.chunks = ChunkKeys[v] /\ r.embedded = e
  BY <1>1, <1>2 DEF Row
<1> HIDE DEF r
<1> QED  BY <1>2, <1>3, <1>4

LEMMA RunFailsInv ==
    ASSUME IInv, NEW x \in Procs, RunCancelled(x) \/ ExtractFails(x) \/ EmbeddingFails(x)
    PROVE  IInv'
<1>1. Starts(x) /\ Writable(x)
  BY DEF RunCancelled, ExtractFails, EmbeddingFails, Indexes
<1>2. failures' \in 0 .. MaxFailures
  BY InvFacts, BoundsKept DEF RunCancelled, ExtractFails, EmbeddingFails
<1>3. p[x].row \in Row /\ RowSound(p[x].row) /\ p[x].doc \in Docs
  BY <1>1, NotCancelled, InvFacts DEF Proc
<1>4. CASE RunCancelled(x) \/ ExtractFails(x)
  <2>1. PICK row \in Row : row = Handled(p[x].row)
    BY <1>3, HandledSound
  <2>2. RowSound(row) /\ Ends(x, row)
    BY <1>3, <1>4, <2>1, HandledSound DEF RunCancelled, ExtractFails
  <2> QED  BY <1>1, <1>2, <2>2, WritableStep
<1>5. CASE EmbeddingFails(x)
  <2> DEFINE c == Chunked(p[x].row, source[p[x].doc])
  <2>1. source[p[x].doc] \in Versions /\ p[x].row.status = "Queued"
    BY <1>3, <1>5, InvFacts DEF EmbeddingFails, Indexes, Starts, Startable
  <2>2. c \in Row /\ RowSound(c)
    BY <1>3, <2>1, ChunkedSound DEF RowSound, Matching
  <2>3. Ends(x, Handled(c))
    BY <1>5 DEF EmbeddingFails
  <2> HIDE DEF c
  <2>4. PICK row \in Row : row = Handled(c)
    BY <2>2, HandledSound
  <2>5. RowSound(row) /\ Ends(x, row)
    BY <2>2, <2>3, <2>4, HandledSound
  <2> QED  BY <1>1, <1>2, <2>5, WritableStep
<1> QED  BY <1>4, <1>5

LEMMA ExtractOnlyInv ==
    ASSUME IInv, NEW x \in Procs, ExtractOnly(x)
    PROVE  IInv'
<1>1. Starts(x) /\ Writable(x) /\ failures' \in 0 .. MaxFailures
  BY InvFacts DEF ExtractOnly
<1>2. p[x].row \in Row /\ p[x].doc \in Docs /\ source[p[x].doc] \in Versions
  BY <1>1, NotCancelled, InvFacts DEF Proc
<1> DEFINE st == IF p[x].row.status = "Queued" THEN "Queued" ELSE "Draft"
           row == [p[x].row EXCEPT !.content = source[p[x].doc], !.status = st]
<1>3. st \in {"Queued", "Draft"}
  OBVIOUS
<1>4. Ends(x, row)
  BY DEF ExtractOnly
<1> HIDE DEF st
<1>5. row \in Row /\ row.status = st
  BY <1>2, <1>3 DEF Row, Status
<1> HIDE DEF row
<1>6. RowSound(row)
  BY <1>3, <1>5 DEF RowSound, Matching
<1> QED  BY <1>1, <1>4, <1>5, <1>6, WritableStep

LEMMA IndexDoneInv ==
    ASSUME IInv, NEW x \in Procs, IndexDone(x)
    PROVE  IInv'
<1>1. Starts(x) /\ Writable(x) /\ failures' \in 0 .. MaxFailures
      /\ UNCHANGED <<doc, source, job, requests, crashes>>
  BY InvFacts DEF IndexDone, Indexes, Starts
<1>2. p[x] \in Proc /\ p[x].row \in Row /\ p[x].doc \in Docs /\ source[p[x].doc] \in Versions
  BY InvFacts DEF Proc
<1> DEFINE v == source[p[x].doc]
           c == Chunked(p[x].row, v)
<1>3. c \in Row /\ c.content = v /\ c.chunks = ChunkKeys[v] /\ c.embedded \subseteq ChunkKeys[v]
  BY <1>2, ChunkedSound
<1>4. PICK vectors \in {c.embedded, c.chunks} :
         p' = [p EXCEPT ![x].pc = "done", ![x].wrote = TRUE, ![x].kb = TRUE,
                        ![x].row = [c EXCEPT !.status = "Indexed", !.embedded = vectors]]
  BY DEF IndexDone
<1> HIDE DEF c
<1> DEFINE row == [c EXCEPT !.status = "Indexed", !.embedded = vectors]
           n == [p[x] EXCEPT !.pc = "done", !.wrote = TRUE, !.kb = TRUE, !.row = row]
<1>5. row \in Row /\ row.status = "Indexed" /\ row.content = v /\ row.chunks = ChunkKeys[v]
      /\ row.embedded \subseteq ChunkKeys[v]
  <2>1. vectors \in SUBSET Keys /\ vectors \subseteq ChunkKeys[v]
    BY <1>3, <1>4 DEF Row
  <2> QED  BY <1>3, <2>1 DEF Row, Status
<1>6. p' = [p EXCEPT ![x] = n] /\ lock' = Released(x)
  BY <1>2, <1>4, InvFacts DEF IndexDone
<1> HIDE DEF row
<1>7. n \in Proc /\ n.pc = "done" /\ n.doc = p[x].doc /\ n.kind = p[x].kind /\ n.row = row /\ n.wrote
  BY <1>2, <1>5 DEF Proc
<1> HIDE DEF n
<1>8. RowSound(row)
  BY <1>2, <1>5, SetsAssumption DEF RowSound, Matching
<1>9. /\ n.wrote => p[x].wrote \/ RowFree(p[x].doc)
      /\ n.kind \notin OnDemand => doc[n.doc].status # "Cancelled"
      /\ p[x].pc \in {"taken", "locked"}
  BY <1>1, <1>7, NotCancelled
<1> QED  BY <1>1, <1>6, <1>7, <1>8, <1>9, DoneStep

LEMMA EndedInv ==
    ASSUME IInv, NEW x \in Procs, ReportEnd(x) \/ Crash(x)
    PROVE  IInv'
<1>1. p' = [p EXCEPT ![x] = Idle] /\ UNCHANGED <<doc, source, job, requests, failures>>
  BY DEF ReportEnd, Crash
<1>2. /\ lock' \in [Docs -> Procs \cup {None, Dead}]
      /\ \A d \in Docs : lock'[d] \in Procs => lock'[d] # x /\ lock[d] = lock'[d]
  <2>1. Dead \notin Procs
    BY SetsAssumption DEF Procs
  <2> QED  BY <2>1, InvFacts DEF ReportEnd, Crash
<1>3. crashes' \in 0 .. MaxCrashes
  BY InvFacts, BoundsKept DEF ReportEnd, Crash
<1>4. Idle \in Proc /\ Sound(x, Idle) /\ \A d \in Docs : ~ Writes(Idle, d)
  BY IdleType DEF Sound, Writes, Open
<1>5. /\ UNCHANGED <<doc, source>> /\ job' \in [Docs -> Users \cup {None}]
      /\ requests' \in 0 .. MaxRequests /\ failures' \in 0 .. MaxFailures
  BY <1>1, InvFacts
<1> QED  BY <1>1, <1>2, <1>3, <1>4, <1>5, ProcStep

-----------------------------------------------------------------------------
(* Commits. *)

\* A short request writes the row of one document.
LEMMA RequestStep ==
    ASSUME IInv, NEW d \in Docs, RowFree(d), NEW row \in Row, RowSound(row),
           doc' = [doc EXCEPT ![d] = row], p' = Outdated(p, {d}, FALSE),
           job' \in [Docs -> Users \cup {None}], UNCHANGED <<source, lock>>,
           requests' \in 0 .. MaxRequests, failures' \in 0 .. MaxFailures,
           crashes' \in 0 .. MaxCrashes
    PROVE  IInv'
<1>1. /\ {d} \in SUBSET Docs /\ FALSE \in BOOLEAN /\ p \in [Procs -> Proc]
      /\ doc' \in [Docs -> Row] /\ doc'[d] = row /\ \A e \in Docs \ {d} : doc'[e] = doc[e]
  BY InvFacts
<1>2. \A x \in Procs : \A e \in {d} : ~ Writes(p[x], e)
  BY DEF RowFree, Writes, InFlight
<1>3. PICK ds \in SUBSET Docs : ds = {d}
  BY <1>1
<1>4. PICK q \in [Procs -> Proc] : q = p
  BY <1>1
<1>5. /\ p' = Outdated(q, ds, FALSE)
      /\ \A x \in Procs : q[x] = p[x] /\ \A e \in ds : ~ Writes(p[x], e)
      /\ \A e \in ds : RowSound(doc'[e])
      /\ \A e \in Docs \ ds : doc'[e] = doc[e]
  BY <1>1, <1>2, <1>3, <1>4
<1> HIDE <1>4
<1> QED  BY <1>1, <1>5, RowsStep

LEMMA EnqueueStep ==
    ASSUME IInv, NEW d \in Docs, NEW u \in Users, NEW row \in Row, Enqueue(d, u, row),
           UNCHANGED <<source, lock>>, requests' \in 0 .. MaxRequests,
           failures' \in 0 .. MaxFailures, crashes' \in 0 .. MaxCrashes
    PROVE  IInv'
<1> DEFINE r == [row EXCEPT !.status = "Queued", !.cancel = FALSE, !.queued = "rq", !.by = u]
<1>1. r \in Row /\ r.status = "Queued"
  BY DEF Row, Status
<1>2. RowFree(d) /\ doc' = [doc EXCEPT ![d] = r] /\ p' = Outdated(p, {d}, FALSE)
  BY DEF Enqueue
<1> HIDE DEF r
<1>3. RowSound(r)
  BY <1>1 DEF RowSound, Matching
<1>4. job' \in [Docs -> Users \cup {None}]
  BY InvFacts DEF Enqueue
<1> QED  BY <1>1, <1>2, <1>3, <1>4, RequestStep

LEMMA EnqueuesInv ==
    ASSUME IInv, NEW d \in Docs,
           \/ \E u \in Users : Process(d, u) \/ Reprocess(d, u)
           \/ Reconcile(d)
    PROVE  IInv'
<1>1. doc[d] \in Row /\ doc[d].by \in Users
  BY InvFacts DEF Row
<1>2. ASSUME NEW u \in Users, Process(d, u) PROVE IInv'
  <2>1. /\ Enqueue(d, u, doc[d]) /\ UNCHANGED <<source, lock>> /\ requests' \in 0 .. MaxRequests
        /\ failures' \in 0 .. MaxFailures /\ crashes' \in 0 .. MaxCrashes
    BY <1>2, BoundsKept, InvFacts DEF Process
  <2> QED  BY <1>1, <2>1, EnqueueStep
<1>3. ASSUME NEW u \in Users, Reprocess(d, u) PROVE IInv'
  <2>1. PICK row \in Row : row = [doc[d] EXCEPT !.chunks = {}, !.embedded = {}, !.retry = 0]
    BY <1>1 DEF Row
  <2>2. /\ Enqueue(d, u, row) /\ UNCHANGED <<source, lock>> /\ requests' \in 0 .. MaxRequests
        /\ failures' \in 0 .. MaxFailures /\ crashes' \in 0 .. MaxCrashes
    BY <1>3, <2>1, BoundsKept, InvFacts DEF Reprocess
  <2> QED  BY <2>2, EnqueueStep
<1>4. CASE Reconcile(d)
  <2>1. /\ Enqueue(d, doc[d].by, doc[d]) /\ UNCHANGED <<source, lock>>
        /\ requests' \in 0 .. MaxRequests
        /\ failures' \in 0 .. MaxFailures /\ crashes' \in 0 .. MaxCrashes
    BY <1>4, InvFacts DEF Reconcile
  <2> QED  BY <1>1, <2>1, EnqueueStep
<1> QED  BY <1>2, <1>3, <1>4

LEMMA CancelInv ==
    ASSUME IInv, NEW d \in Docs, Cancel(d)
    PROVE  IInv'
<1> DEFINE r == [doc[d] EXCEPT !.status = "Cancelled", !.cancel = TRUE]
<1>1. doc[d] \in Row
  BY InvFacts
<1>2. r \in Row /\ r.status = "Cancelled" /\ r.cancel
  BY <1>1 DEF Row, Status
<1>3. RowFree(d) /\ doc' = [doc EXCEPT ![d] = r] /\ p' = Outdated(p, {d}, FALSE)
      /\ UNCHANGED <<source, lock>> /\ job' \in [Docs -> Users \cup {None}]
      /\ requests' \in 0 .. MaxRequests /\ failures' \in 0 .. MaxFailures
      /\ crashes' \in 0 .. MaxCrashes
  BY <1>1, BoundsKept, InvFacts DEF Cancel
<1> HIDE DEF r
<1>4. RowSound(r)
  BY <1>2 DEF RowSound, Matching
<1> QED  BY <1>2, <1>3, <1>4, RequestStep

LEMMA WithoutQueueInv ==
    ASSUME IInv, NEW d \in Docs, ReconcileWithoutQueue(d)
    PROVE  IInv'
<1> DEFINE r == [doc[d] EXCEPT !.queued = "rq", !.cancel = FALSE]
<1>1. doc[d] \in Row /\ doc[d].status = "Failed"
  BY InvFacts DEF ReconcileWithoutQueue
<1>2. r \in Row /\ r.status = "Failed"
  BY <1>1 DEF Row, Status
<1>3. RowFree(d) /\ doc' = [doc EXCEPT ![d] = r] /\ p' = Outdated(p, {d}, FALSE)
      /\ UNCHANGED <<source, lock>> /\ job' \in [Docs -> Users \cup {None}]
      /\ requests' \in 0 .. MaxRequests /\ failures' \in 0 .. MaxFailures
      /\ crashes' \in 0 .. MaxCrashes
  BY <1>1, BoundsKept, InvFacts DEF ReconcileWithoutQueue
<1> HIDE DEF r
<1>4. RowSound(r)
  BY <1>2 DEF RowSound, Matching
<1> QED  BY <1>2, <1>3, <1>4, RequestStep

LEMMA EmbedInv ==
    ASSUME IInv, EmbedMissing
    PROVE  IInv'
<1>1. PICK ds \in SUBSET Docs : Embed(ds)
  BY DEF EmbedMissing
<1> DEFINE r(d) == [doc[d] EXCEPT !.embedded = doc[d].chunks]
<1>2. \A d \in Docs : /\ r(d) \in Row /\ r(d).status = doc[d].status /\ r(d).cancel = doc[d].cancel
                      /\ r(d).content = doc[d].content /\ r(d).chunks = doc[d].chunks
                      /\ r(d).embedded = doc[d].chunks
  BY InvFacts DEF Row
<1>3. doc' = [d \in Docs |-> IF d \in ds THEN r(d) ELSE doc[d]]
  BY <1>1 DEF Embed
<1> HIDE DEF r
<1>4. \A d \in Docs : RowSound(r(d))
  BY <1>2, InvFacts DEF RowSound, Matching
<1>5. /\ doc' \in [Docs -> Row] /\ \A d \in ds : RowSound(doc'[d])
      /\ \A d \in Docs \ ds : doc'[d] = doc[d]
  BY <1>2, <1>3, <1>4, InvFacts
<1>6. PICK q \in [Procs -> Proc] : q = p
  BY InvFacts
<1>7. /\ p' = Outdated(q, ds, TRUE)
      /\ \A x \in Procs : q[x] = p[x] /\ \A d \in ds : ~ Writes(p[x], d)
  BY <1>1, <1>6 DEF Embed, RowFree, Writes, InFlight
<1>8. /\ UNCHANGED <<source, lock>> /\ job' \in [Docs -> Users \cup {None}]
      /\ requests' \in 0 .. MaxRequests /\ failures' \in 0 .. MaxFailures
      /\ crashes' \in 0 .. MaxCrashes /\ TRUE \in BOOLEAN
  BY <1>1, InvFacts DEF Embed
<1> QED  BY <1>5, <1>7, <1>8, RowsStep

LEMMA CommitInv ==
    ASSUME IInv, NEW x \in Procs, Commit(x)
    PROVE  IInv'
<1> DEFINE d == p[x].doc
           rest == IF x \in Workers THEN Ended(d) ELSE Idle
           over == [p EXCEPT ![x] = rest]
<1>1. p[x] \in Proc /\ d \in Docs /\ p[x].pc = "done" /\ Sound(x, p[x]) /\ p[x].row \in Row
      /\ p[x].kb \in BOOLEAN
  BY InvFacts DEF Commit, Proc
<1>2. rest \in Proc /\ rest.pc \notin Open /\ rest.pc # "locked" /\ RowSound(rest.row)
  BY <1>1, IdleType, RestType DEF Open
<1>3. /\ UNCHANGED <<source, job, lock, requests, failures, crashes>>
      /\ IF p[x].wrote THEN doc' = [doc EXCEPT ![d] = p[x].row] /\ p' = Outdated(over, {d}, p[x].kb)
                       ELSE doc' = doc /\ p' = over
  BY DEF Commit, Ended
<1> HIDE DEF rest
<1>4. over \in [Procs -> Proc] /\ over[x] = rest /\ \A y \in Procs : y # x => over[y] = p[y]
  BY <1>2, InvFacts
<1>5. /\ job' \in [Docs -> Users \cup {None}]
      /\ lock' \in [Docs -> Procs \cup {None, Dead}]
      /\ requests' \in 0 .. MaxRequests /\ failures' \in 0 .. MaxFailures
      /\ crashes' \in 0 .. MaxCrashes
  BY <1>3, InvFacts
<1>6. CASE p[x].wrote
  <2>1. \A y \in Procs : y # x => ~ Writes(p[y], d)
    <3>1. Writes(p[x], d)
      BY <1>1, <1>6 DEF Writes, Open
    <3> QED  BY <1>1, <3>1, InvFacts DEF OneWriter
  <2>2. PICK q \in [Procs -> Proc] : q = over
    BY <1>4
  <2>3. PICK ds \in SUBSET Docs : ds = {d}
    BY <1>1
  <2>4. /\ doc' \in [Docs -> Row] /\ \A e \in ds : RowSound(doc'[e])
        /\ \A e \in Docs \ ds : doc'[e] = doc[e]
    BY <1>1, <1>3, <1>6, <2>3, InvFacts DEF Sound
  <2>5. \A y \in Procs :
            \/ q[y] = p[y] /\ \A e \in ds : ~ Writes(p[y], e)
            \/ q[y].pc \notin Open /\ q[y].pc # "locked" /\ RowSound(q[y].row) /\ p[y].pc # "locked"
    BY <1>1, <1>2, <1>4, <2>1, <2>2, <2>3
  <2>6. p' = Outdated(q, ds, p[x].kb) /\ UNCHANGED <<source, lock>>
    BY <1>3, <1>6, <2>2, <2>3
  <2> HIDE <2>2, <2>3
  <2>7. PICK b \in BOOLEAN : b = p[x].kb
    BY <1>1
  <2>8. p' = Outdated(q, ds, b)
    BY <2>6, <2>7
  <2> QED  BY <1>5, <2>4, <2>5, <2>6, <2>8, RowsStep
<1>7. CASE ~ p[x].wrote
  <2>1. p' = [p EXCEPT ![x] = rest] /\ UNCHANGED <<doc, source>>
    BY <1>3, <1>7
  <2>2. Sound(x, rest) /\ \A e \in Docs : ~ Writes(rest, e)
    BY <1>2 DEF Sound, Writes
  <2>3. \A e \in Docs : lock'[e] \in Procs => lock'[e] # x /\ lock[e] = lock'[e]
    BY <1>1, <1>3, InvFacts
  <2> QED  BY <1>2, <1>5, <2>1, <2>2, <2>3, ProcStep
<1> QED  BY <1>6, <1>7

\* The source of a document or a lock that nobody holds any more.
LEMMA OutsideInv ==
    ASSUME IInv, NEW d \in Docs, ChangeSource(d) \/ LockExpires(d)
    PROVE  IInv'
<1>1. UNCHANGED <<doc, job, p, failures, crashes>> /\ requests' \in 0 .. MaxRequests
  BY BoundsKept, InvFacts DEF ChangeSource, LockExpires
<1>2. source' \in [Docs -> Versions]
  BY InvFacts DEF ChangeSource, LockExpires
<1>3. /\ lock' \in [Docs -> Procs \cup {None, Dead}]
      /\ \A e \in Docs : lock'[e] \in Procs => lock'[e] = lock[e]
  <2>1. None \notin Procs
    BY SetsAssumption DEF Procs
  <2> QED  BY <2>1, InvFacts DEF ChangeSource, LockExpires
<1>4. TypeOK'
  BY <1>1, <1>2, <1>3, InvFacts DEF TypeOK
<1>5. (\A e \in Docs : RowSound(doc[e]))' /\ (\A x \in Procs : Sound(x, p[x]))' /\ OneWriter'
  BY <1>1, InvFacts DEF RowSound, Matching, Sound, OneWriter, Writes
<1> QED  BY <1>4, <1>5 DEF IInv

-----------------------------------------------------------------------------
LEMMA StepInv ==
    ASSUME IInv, NEW x \in Procs, Step(x)
    PROVE  IInv'
  BY AcquireInv, SkipInv, WrongAuthorityInv, ConflictInv, RunFailsInv, ExtractOnlyInv,
     IndexDoneInv, CommitInv, EndedInv DEF Step

LEMMA AskedInv ==
    ASSUME IInv, NEW d \in Docs, Asked(d)
    PROVE  IInv'
<1>1. Sessions \subseteq Procs
  BY DEF Procs
<1> QED  BY <1>1, EnqueuesInv, PrepareTurnInv, ProcessNowInv, CancelInv, OutsideInv DEF Asked

LEMMA NextInv == IInv /\ [Next]_vars => IInv'
<1> SUFFICES ASSUME IInv, [Next]_vars PROVE IInv'
  OBVIOUS
<1>1. Workers \subseteq Procs
  BY DEF Procs
<1>2. CASE Next
  BY <1>1, <1>2, AskedInv, EnqueuesInv, WithoutQueueInv, OutsideInv, TakeJobInv, EmbedInv, StepInv,
     EndedInv DEF Next
<1>3. CASE UNCHANGED vars
  BY <1>3 DEF vars, IInv, TypeOK, RowSound, Matching, Sound, OneWriter, Writes
<1> QED  BY <1>2, <1>3

(* In every reachable state the rows agree with what each transaction has     *)
(* read, and one transaction at most has written the row of a document.       *)
THEOREM Invariant == Spec => []IInv
<1>1. IInv /\ [Next]_vars => IInv'
  BY NextInv
<1> QED  BY InitInv, <1>1, PTL DEF Spec

(* Rows, jobs, locks and transactions stay in their domains; the holder of a  *)
(* processing lock is a run of that document between Acquire and its end.     *)
THEOREM TypeCorrect == Spec => []TypeOK
<1>1. IInv => TypeOK
  BY DEF IInv
<1> QED  BY Invariant, <1>1, PTL

(* Whatever was retried, cancelled, rolled back or run twice before, an       *)
(* indexed document has the chunks of the text in its row and no other.       *)
THEOREM IndexMatchesAlways == Spec => []IndexMatchesContent
<1>1. IInv => IndexMatchesContent
  BY DEF IInv, RowSound, Matching, IndexMatchesContent
<1> QED  BY Invariant, <1>1, PTL

-----------------------------------------------------------------------------
(* What a step may not do. *)

CancelKept(d) ==
    doc[d].status = "Cancelled" /\ doc'[d].status # "Cancelled" =>
        \/ requests' = requests + 1
        \/ \E x \in Sessions : p[x].pc = "done" /\ p[x].kind \in {"index", "extract"}

LEMMA CancelStep ==
    ASSUME IInv, [Next]_vars, NEW d \in Docs
    PROVE  CancelKept(d)
<1>1. doc \in [Docs -> Row]
  BY InvFacts
<1>2. ASSUME doc'[d] = doc[d] PROVE CancelKept(d)
  BY <1>2 DEF CancelKept
<1>3. ASSUME NEW e \in Docs, Asked(e) PROVE CancelKept(d)
  <2>1. requests' = requests + 1
    BY <1>3 DEF Asked, Process, Reprocess, PrepareTurn, ProcessNow, Cancel, ChangeSource, Requested
  <2> QED  BY <2>1 DEF CancelKept
<1>4. ASSUME NEW e \in Docs, Reconcile(e) \/ ReconcileWithoutQueue(e) PROVE CancelKept(d)
  <2>1. doc[e].status # "Cancelled"
    BY <1>4 DEF Reconcile, ReconcileWithoutQueue, Due
  <2>2. e # d => doc'[d] = doc[d]
    BY <1>1, <1>4 DEF Reconcile, ReconcileWithoutQueue, Enqueue
  <2> QED  BY <1>2, <2>1, <2>2 DEF CancelKept
<1>5. CASE EmbedMissing
  <2>1. PICK ds \in SUBSET Docs : Embed(ds)
    BY <1>5 DEF EmbedMissing
  <2>2. doc'[d].status = doc[d].status
    BY <1>1, <2>1 DEF Embed, Row
  <2> QED  BY <2>2 DEF CancelKept
<1>6. ASSUME NEW x \in Procs, Commit(x) PROVE CancelKept(d)
  <2>1. /\ p[x].pc = "done" /\ Sound(x, p[x]) /\ p[x].doc \in Docs
        /\ IF p[x].wrote THEN doc' = [doc EXCEPT ![p[x].doc] = p[x].row] ELSE doc' = doc
    BY <1>6, InvFacts DEF Commit, Proc
  <2>2. CASE p[x].wrote /\ p[x].doc = d
    <3>1. doc'[d] = p[x].row
      BY <1>1, <2>1, <2>2
    <3>2. CASE p[x].kind \in OnDemand
      BY <2>1, <3>2 DEF Sound, Open, OnDemand, CancelKept
    <3>3. CASE p[x].kind \notin OnDemand
      BY <2>1, <2>2, <3>1, <3>3 DEF Sound, Open, CancelKept
    <3> QED  BY <3>2, <3>3
  <2>3. CASE ~ (p[x].wrote /\ p[x].doc = d)
    BY <1>1, <1>2, <2>1, <2>3
  <2> QED  BY <2>2, <2>3
<1>7. ASSUME NEW x \in Procs, Step(x) \/ Crash(x) PROVE CancelKept(d)
  <2>1. Commit(x) \/ doc' = doc
    BY <1>7 DEF Step, Acquire, SkipLocked, WrongAuthority, SkipStatus, RunConflict, RunBlocked,
       RunCancelled, ExtractFails, ExtractOnly, EmbeddingFails, KbConflict, IndexDone, Indexes,
       Starts, ReportEnd, Crash
  <2> QED  BY <1>2, <1>6, <2>1
<1>8. ASSUME NEW e \in Docs, LockExpires(e) \/ \E x \in Workers : TakeJob(x, e)
      PROVE  CancelKept(d)
  BY <1>2, <1>8 DEF LockExpires, TakeJob
<1>9. CASE UNCHANGED vars
  BY <1>2, <1>9 DEF vars
<1> QED  BY <1>3, <1>4, <1>5, <1>7, <1>8, <1>9 DEF Next

(* A cancelled document stays so unless a person asks for it: no job that was *)
(* queued or running, no sweep and no chat turn takes it out of Cancelled.    *)
THEOREM CancelSticksAlways == Spec => CancelSticks
<1> DEFINE EachKept == \A d \in Docs : CancelKept(d)
<1>1. IInv /\ [Next]_vars => [EachKept]_vars
  BY CancelStep
<1>2. [EachKept]_vars
        <=> [\A d \in Docs :
                doc[d].status = "Cancelled" /\ doc'[d].status # "Cancelled" =>
                    \/ requests' = requests + 1
                    \/ \E x \in Sessions :
                          p[x].pc = "done" /\ p[x].kind \in {"index", "extract"}]_vars
  BY DEF CancelKept
<1> HIDE DEF EachKept
<1> QED  BY <1>1, <1>2, Invariant, PTL DEF Spec, CancelSticks
=============================================================================
