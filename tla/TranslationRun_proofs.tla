------------------------ MODULE TranslationRun_proofs ------------------------
(* Type correctness and the safety of TranslationRun: for any translations,   *)
(* segments, workers and people, and any number of requests and failures, the *)
(* memory gives back only what passed the gate or was accepted, a translation *)
(* has one document, a cancelled one stays cancelled, and no request puts     *)
(* back segments that were changed after it read them.                        *)
EXTENDS TranslationRun, FiniteSetTheorems, TLAPS

(* The inductive invariant. *)

Accepted(i, x) == x = "fine" \/ <<i, x>> \in accepted

\* A segment that counts as translated passed the gate or was accepted.
Trusted(i, s) == s.status \in {"Translated", "Reused", "Reviewed"} => Accepted(i, s.text)

\* What a process has read: as long as its view is current, the rows are so still.
Sound(n) ==
    /\ n.pc # "idle" => n.t \in Translations
    /\ n.pc = "running" => ~ tr[n.t].cancel
    /\ n.pc = "calling" => n.target \in Segments /\ \A i \in Segments : n.copy[i].status # "Absent"
    /\ ~ n.stale =>
          /\ n.pc = "open" /\ ~ n.cancel => ~ tr[n.t].cancel
          /\ n.pc = "calling" => n.copy = seg[n.t]
          /\ n.pc = "indexing" => tr[n.t].docs = 0
    /\ \A i \in Segments :
          /\ Trusted(i, n.copy[i])
          /\ \A x \in n.memory[i] : Accepted(i, x)

ProcsSound == \A p \in Procs : Sound(proc[p])

\* One run holds the row of a translation.
OneRun ==
    \A p, q \in Procs :
        proc[p].pc = "running" /\ proc[q].pc = "running" /\ proc[p].t = proc[q].t => p = q

\* The segments of a translation appear together.
AllOrNone(segments) ==
    \/ \A i \in Segments : segments[i].status = "Absent"
    \/ \A i \in Segments : segments[i].status # "Absent"

RowsSound ==
    \A t \in Translations :
        /\ tr[t].docs \in {0, 1}
        /\ tr[t].status = "Cancelled" => tr[t].cancel
        /\ AllOrNone(seg[t])
        /\ \A i \in Segments : Trusted(i, seg[t][i])

IInv ==
    /\ TypeOK
    /\ ProcsSound
    /\ OneRun
    /\ RowsSound

-----------------------------------------------------------------------------
(* Types. *)

LEMMA IdleType ==
    /\ Idle \in Proc /\ Idle.pc = "idle" /\ Idle.t = "none" /\ ~ Idle.stale
    /\ Idle.copy = [i \in Segments |-> NoSegment] /\ Idle.memory = [i \in Segments |-> {}]
    /\ NoSegment \in Segment /\ NoSegment.status = "Absent"
  BY DEF Idle, Proc, NoSegment, Segment, SegStatus, Texts

\* A process without texts is sound whatever the rows are.
LEMMA IdleSound ==
    ASSUME NEW n, n.pc = "idle" \/ (n.pc = "ending" /\ n.t \in Translations),
           n.copy = Idle.copy, n.memory = Idle.memory
    PROVE  Sound(n)
  BY IdleType DEF Sound, Trusted

\* What a commit on the row of u leaves of a process q.
Remains(o, q, u) ==
    /\ o.pc = q.pc /\ o.t = q.t /\ o.cancel = q.cancel /\ o.copy = q.copy
    /\ o.memory = q.memory /\ o.target = q.target
    /\ o.pc \in {"open", "calling", "indexing"} /\ ~ o.stale => ~ q.stale /\ q.t # u

LEMMA OutdatedFields ==
    ASSUME NEW q \in [Procs -> Proc], NEW u
    PROVE  /\ Outdated(q, u) \in [Procs -> Proc]
           /\ \A p \in Procs : Remains(Outdated(q, u)[p], q[p], u)
<1> DEFINE old(p) == q[p].t = u /\ q[p].pc \in {"open", "calling", "indexing"}
           new(p) == [q[p] EXCEPT !.stale = TRUE]
<1>1. ASSUME NEW p \in Procs
      PROVE  /\ new(p) \in Proc /\ new(p).stale
             /\ new(p).pc = q[p].pc /\ new(p).t = q[p].t /\ new(p).cancel = q[p].cancel
             /\ new(p).copy = q[p].copy /\ new(p).memory = q[p].memory /\ new(p).target = q[p].target
  <2>1. q[p] \in Proc
    OBVIOUS
  <2> QED  BY <2>1 DEF Proc
<1>2. Outdated(q, u) = [p \in Procs |-> IF old(p) THEN new(p) ELSE q[p]]
  BY DEF Outdated
<1> HIDE DEF new
<1>3. Outdated(q, u) \in [Procs -> Proc]
  BY <1>1, <1>2
<1>4. ASSUME NEW p \in Procs PROVE Remains(Outdated(q, u)[p], q[p], u)
  <2>1. CASE old(p)
    <3>1. Outdated(q, u)[p] = new(p)
      BY <1>2, <2>1
    <3> QED  BY <1>1, <3>1 DEF Remains
  <2>2. CASE ~ old(p)
    <3>1. Outdated(q, u)[p] = q[p]
      BY <1>2, <2>2
    <3> QED  BY <2>2, <3>1 DEF Remains
  <2> QED  BY <2>1, <2>2
<1> QED  BY <1>3, <1>4

-----------------------------------------------------------------------------
LEMMA InitInv == Init => IInv
<1> SUFFICES ASSUME Init PROVE IInv
  OBVIOUS
<1>1. TypeOK
  BY IdleType, BoundsAssumption DEF Init, TypeOK, Row, Status
<1>2. ProcsSound
  BY IdleSound, IdleType DEF Init, ProcsSound
<1>3. OneRun
  BY IdleType DEF Init, OneRun
<1>4. RowsSound
  BY IdleType DEF Init, RowsSound, AllOrNone, Trusted
<1> QED  BY <1>1, <1>2, <1>3, <1>4 DEF IInv

-----------------------------------------------------------------------------
(* Steps of one process that write no row. *)

LEMMA ProcStep ==
    ASSUME IInv, NEW p \in Procs, NEW n \in Proc, Sound(n),
           n.pc = "running" => RowFree(n.t),
           proc' = [proc EXCEPT ![p] = n], UNCHANGED <<tr, seg, accepted>>,
           queue' \subseteq Translations, requests' \in 0 .. MaxRequests,
           failures' \in 0 .. MaxFailures
    PROVE  IInv'
<1>1. TypeOK /\ ProcsSound /\ OneRun /\ RowsSound
  BY DEF IInv
<1>2. /\ proc' \in [Procs -> Proc] /\ proc'[p] = n
      /\ \A q \in Procs : q # p => proc'[q] = proc[q]
  BY <1>1 DEF TypeOK
<1>3. TypeOK'
  BY <1>1, <1>2 DEF TypeOK
<1>4. ProcsSound'
  <2>1. \A m : Sound(m) => Sound(m)'
    BY DEF Sound, Trusted, Accepted
  <2>2. \A q \in Procs : Sound(proc'[q])
    BY <1>1, <1>2 DEF ProcsSound
  <2> SUFFICES ASSUME NEW q \in Procs PROVE Sound(proc[q])'
    BY DEF ProcsSound
  <2> QED  BY <2>2 DEF Sound, Trusted, Accepted
<1>5. OneRun'
  BY <1>1, <1>2 DEF OneRun, RowFree
<1>6. RowsSound'
  BY <1>1 DEF RowsSound, AllOrNone, Trusted, Accepted
<1> QED  BY <1>3, <1>4, <1>5, <1>6 DEF IInv

\* A commit on the row of t. A process of q is as before, and does not run t, or
\* it is over.
LEMMA RowStep ==
    ASSUME IInv, NEW t \in Translations, NEW q \in [Procs -> Proc],
           proc' = Outdated(q, t),
           \A p \in Procs :
              \/ q[p] = proc[p] /\ ~ (proc[p].pc = "running" /\ proc[p].t = t)
              \/ /\ q[p].pc = "idle" \/ (q[p].pc = "ending" /\ q[p].t \in Translations)
                 /\ q[p].copy = Idle.copy /\ q[p].memory = Idle.memory,
           NEW row \in Row, tr' = [tr EXCEPT ![t] = row],
           NEW ss \in [Segments -> Segment], seg' = [seg EXCEPT ![t] = ss],
           row.docs \in {0, 1}, row.status = "Cancelled" => row.cancel, AllOrNone(ss),
           accepted \subseteq accepted', accepted' \subseteq Segments \X Texts,
           \A i \in Segments : Trusted(i, ss[i])',
           queue' \subseteq Translations, requests' \in 0 .. MaxRequests,
           failures' \in 0 .. MaxFailures
    PROVE  IInv'
<1>1. TypeOK /\ ProcsSound /\ OneRun /\ RowsSound
  BY DEF IInv
<1>2. /\ tr' \in [Translations -> Row] /\ tr'[t] = row
      /\ seg' \in [Translations -> [Segments -> Segment]] /\ seg'[t] = ss
      /\ \A u \in Translations : u # t => tr'[u] = tr[u] /\ seg'[u] = seg[u]
  BY <1>1 DEF TypeOK
<1>3. proc' \in [Procs -> Proc] /\ \A p \in Procs : Remains(proc'[p], q[p], t)
  BY OutdatedFields
<1>4. TypeOK'
  BY <1>1, <1>2, <1>3 DEF TypeOK
<1>5. \A i, x : Accepted(i, x) => Accepted(i, x)'
  BY DEF Accepted
<1>6. \A i, s : Trusted(i, s) => Trusted(i, s)'
  BY <1>5 DEF Trusted
<1>7. ProcsSound'
  <2> SUFFICES ASSUME NEW p \in Procs PROVE Sound(proc[p])'
    BY DEF ProcsSound
  <2> DEFINE o == proc'[p]
  <2>1. CASE q[p] = proc[p] /\ ~ (proc[p].pc = "running" /\ proc[p].t = t)
    <3>1. Sound(proc[p]) /\ Remains(o, proc[p], t)
      BY <1>1, <1>3, <2>1 DEF ProcsSound
    <3>2. o.pc # "idle" => o.t \in Translations
      BY <3>1 DEF Sound, Remains
    <3>3. o.pc = "running" => ~ tr'[o.t].cancel
      BY <1>2, <2>1, <3>1 DEF Sound, Remains
    <3>4. o.pc = "calling" => o.target \in Segments /\ \A i \in Segments : o.copy[i].status # "Absent"
      BY <3>1 DEF Sound, Remains
    <3>5. ASSUME ~ o.stale, o.pc \in {"open", "calling", "indexing"}
          PROVE  /\ o.pc = "open" /\ ~ o.cancel => ~ tr'[o.t].cancel
                 /\ o.pc = "calling" => o.copy = seg'[o.t]
                 /\ o.pc = "indexing" => tr'[o.t].docs = 0
      <4>1. o.t = proc[p].t /\ o.t \in Translations /\ o.t # t /\ ~ proc[p].stale
        BY <3>1, <3>5 DEF Sound, Remains
      <4>2. tr'[o.t] = tr[proc[p].t] /\ seg'[o.t] = seg[proc[p].t]
        BY <1>2, <4>1
      <4> QED  BY <3>1, <4>1, <4>2 DEF Sound, Remains
    <3>6. \A i \in Segments : Trusted(i, proc[p].copy[i])' /\ \A x \in proc[p].memory[i] : Accepted(i, x)
      <4>1. \A i \in Segments : Trusted(i, proc[p].copy[i]) /\ \A x \in proc[p].memory[i] : Accepted(i, x)
        BY <3>1 DEF Sound
      <4>2. o.copy = proc[p].copy
        BY <3>1 DEF Remains
      <4> QED  BY <1>5, <1>6, <4>1, <4>2 DEF Trusted, Accepted
    <3>7. \A i \in Segments : \A x \in o.memory[i] : Accepted(i, x)'
      BY <1>5, <3>1 DEF Sound, Remains
    <3> HIDE DEF o
    <3>8. o = proc'[p]
      BY DEF o
    <3> QED  BY <3>2, <3>3, <3>4, <3>5, <3>6, <3>7, <3>8 DEF Sound, Trusted, Accepted
  <2>2. CASE /\ q[p].pc = "idle" \/ (q[p].pc = "ending" /\ q[p].t \in Translations)
             /\ q[p].copy = Idle.copy /\ q[p].memory = Idle.memory
    <3>1. /\ o.pc = "idle" \/ (o.pc = "ending" /\ o.t \in Translations)
          /\ o.copy = Idle.copy /\ o.memory = Idle.memory
      BY <1>3, <2>2 DEF Remains
    <3> QED  BY <3>1, IdleType DEF Sound, Trusted
  <2> QED  BY <2>1, <2>2
<1>8. OneRun'
  <2>1. \A p \in Procs : proc'[p].pc = "running" => proc[p].pc = "running" /\ proc'[p].t = proc[p].t
    BY <1>3 DEF Remains
  <2> QED  BY <1>1, <2>1 DEF OneRun
<1>9. RowsSound'
  <2> SUFFICES ASSUME NEW u \in Translations
               PROVE  /\ tr'[u].docs \in {0, 1}
                      /\ tr'[u].status = "Cancelled" => tr'[u].cancel
                      /\ AllOrNone(seg'[u])
                      /\ \A i \in Segments : Trusted(i, seg[u][i])'
    BY DEF RowsSound, AllOrNone
  <2>1. CASE u = t
    BY <1>2, <2>1 DEF Trusted, Accepted
  <2>2. CASE u # t
    BY <1>1, <1>2, <1>5, <2>2 DEF RowsSound, Trusted
  <2> QED  BY <2>1, <2>2
<1> QED  BY <1>4, <1>7, <1>8, <1>9 DEF IInv

-----------------------------------------------------------------------------
(* The steps of Next. *)

LEMMA InvFacts ==
    ASSUME IInv
    PROVE  /\ tr \in [Translations -> Row] /\ seg \in [Translations -> [Segments -> Segment]]
           /\ queue \subseteq Translations /\ proc \in [Procs -> Proc]
           /\ accepted \subseteq Segments \X Texts
           /\ requests \in 0 .. MaxRequests /\ failures \in 0 .. MaxFailures
           /\ \A p \in Procs : Sound(proc[p])
           /\ \A t \in Translations :
                 /\ tr[t].docs \in {0, 1} /\ (tr[t].status = "Cancelled" => tr[t].cancel)
                 /\ AllOrNone(seg[t]) /\ \A i \in Segments : Trusted(i, seg[t][i])
  BY DEF IInv, TypeOK, ProcsSound, RowsSound

LEMMA RequestedType ==
    ASSUME IInv, Requested
    PROVE  requests' \in 0 .. MaxRequests
  BY InvFacts, BoundsAssumption DEF Requested

LEMMA FailureType ==
    ASSUME IInv, failures < MaxFailures, failures' = failures + 1
    PROVE  failures' \in 0 .. MaxFailures
  BY InvFacts, BoundsAssumption

\* What the memory offers passed the gate or was accepted.
LEMMA MemoryAccepted ==
    ASSUME IInv, NEW i \in Segments
    PROVE  Memory(i) \subseteq Texts /\ \A x \in Memory(i) : Accepted(i, x)
<1> SUFFICES ASSUME NEW x \in Memory(i) PROVE x \in Texts /\ Accepted(i, x)
  OBVIOUS
<1>1. PICK t \in Translations : seg[t][i].status \in MemoryStatuses /\ x = seg[t][i].text
  BY DEF Memory
<1>2. Trusted(i, seg[t][i]) /\ seg[t][i] \in Segment
  BY InvFacts
<1> QED  BY <1>1, <1>2 DEF Trusted, MemoryStatuses, Segment

LEMMA OverFields ==
    ASSUME IInv, NEW p \in Procs, proc[p].t \in Translations
    PROVE  /\ \E n \in Proc : /\ Over(p) = [proc EXCEPT ![p] = n]
                              /\ n.pc = "idle" \/ (n.pc = "ending" /\ n.t \in Translations)
                              /\ n.copy = Idle.copy /\ n.memory = Idle.memory
           /\ Over(p) \in [Procs -> Proc]
           /\ \A q \in Procs : q # p => Over(p)[q] = proc[q]
           /\ Over(p)[p].pc = "idle" \/ (Over(p)[p].pc = "ending" /\ Over(p)[p].t \in Translations)
           /\ Over(p)[p].copy = Idle.copy /\ Over(p)[p].memory = Idle.memory
<1> DEFINE e == [Idle EXCEPT !.pc = "ending", !.t = proc[p].t]
<1>1. e \in Proc /\ e.pc = "ending" /\ e.t \in Translations
      /\ e.copy = Idle.copy /\ e.memory = Idle.memory
  BY DEF Idle, Proc, NoSegment, Segment, SegStatus, Texts
<1>2. Over(p) = IF p \in Workers THEN [proc EXCEPT ![p] = e] ELSE [proc EXCEPT ![p] = Idle]
  BY DEF Over
<1> HIDE DEF e
<1>3. PICK n \in Proc : /\ Over(p) = [proc EXCEPT ![p] = n]
                        /\ n.pc = "idle" \/ (n.pc = "ending" /\ n.t \in Translations)
                        /\ n.copy = Idle.copy /\ n.memory = Idle.memory
  BY <1>1, <1>2, IdleType
<1>4. Over(p)[p] = n /\ (\A q \in Procs : q # p => Over(p)[q] = proc[q])
      /\ Over(p) \in [Procs -> Proc]
  BY <1>3, InvFacts
<1> QED  BY <1>3, <1>4

LEMMA OpenRunInv ==
    ASSUME IInv, NEW p \in Procs, NEW t \in Translations, OpenRun(p, t)
    PROVE  IInv'
<1> DEFINE n == [Idle EXCEPT !.pc = "open", !.t = t, !.cancel = tr[t].cancel,
                             !.memory = [i \in Segments |-> Memory(i)]]
<1>1. [i \in Segments |-> Memory(i)] \in [Segments -> SUBSET Texts]
  BY MemoryAccepted
<1>2. tr[t].cancel \in BOOLEAN
  BY InvFacts DEF Row
<1>3. /\ n \in Proc /\ n.pc = "open" /\ n.t = t /\ n.cancel = tr[t].cancel
      /\ n.memory = [i \in Segments |-> Memory(i)] /\ n.copy = [i \in Segments |-> NoSegment]
  BY <1>1, <1>2 DEF Idle, Proc, NoSegment, Segment, SegStatus, Texts
<1>4. Sound(n)
  BY <1>3, MemoryAccepted, IdleType DEF Sound, Trusted
<1>5. /\ proc' = [proc EXCEPT ![p] = n] /\ UNCHANGED <<tr, seg, accepted>>
      /\ queue' \subseteq Translations
      /\ requests' \in 0 .. MaxRequests /\ failures' \in 0 .. MaxFailures
  BY RequestedType, InvFacts DEF OpenRun
<1> HIDE DEF n
<1> QED  BY <1>3, <1>4, <1>5, ProcStep

LEMMA RunRefusedInv ==
    ASSUME IInv, NEW p \in Procs, RunRefused(p)
    PROVE  IInv'
<1>1. proc[p].t \in Translations
  BY InvFacts DEF Sound, RunRefused
<1>2. PICK n \in Proc : /\ Over(p) = [proc EXCEPT ![p] = n]
                        /\ n.pc = "idle" \/ (n.pc = "ending" /\ n.t \in Translations)
                        /\ n.copy = Idle.copy /\ n.memory = Idle.memory
  BY <1>1, OverFields
<1>3. Sound(n) /\ n.pc # "running"
  BY <1>2, IdleSound
<1>4. /\ proc' = [proc EXCEPT ![p] = n] /\ UNCHANGED <<tr, seg, accepted>>
      /\ queue' \subseteq Translations
      /\ requests' \in 0 .. MaxRequests /\ failures' \in 0 .. MaxFailures
  BY <1>2, InvFacts DEF RunRefused
<1> QED  BY <1>3, <1>4, ProcStep

\* Only the place of a process changes.
LEMMA MoveFields ==
    ASSUME IInv, NEW p \in Procs,
           NEW pc \in {"idle", "open", "running", "failing", "ending", "calling", "indexing"}
    PROVE  LET n == [proc[p] EXCEPT !.pc = pc]
           IN  /\ n \in Proc /\ n.pc = pc /\ n.t = proc[p].t /\ n.copy = proc[p].copy
               /\ n.memory = proc[p].memory
               /\ [proc EXCEPT ![p].pc = pc] = [proc EXCEPT ![p] = n]
<1>1. proc[p] \in Proc
  BY InvFacts
<1> QED  BY <1>1, InvFacts DEF Proc

LEMMA BeginRunInv ==
    ASSUME IInv, NEW p \in Procs, BeginRun(p)
    PROVE  IInv'
<1> DEFINE n == [proc[p] EXCEPT !.pc = "running"]
<1>1. /\ n \in Proc /\ n.pc = "running" /\ n.t = proc[p].t /\ n.copy = proc[p].copy
      /\ n.memory = proc[p].memory
      /\ [proc EXCEPT ![p].pc = "running"] = [proc EXCEPT ![p] = n]
  BY MoveFields
<1> HIDE DEF n
<1>2. Sound(proc[p]) /\ proc[p].pc = "open" /\ ~ proc[p].cancel /\ ~ proc[p].stale
      /\ RowFree(proc[p].t)
  BY InvFacts DEF BeginRun, CanBegin
<1>3. Sound(n)
  BY <1>1, <1>2 DEF Sound
<1>4. /\ proc' = [proc EXCEPT ![p] = n] /\ UNCHANGED <<tr, seg, accepted>>
      /\ queue' \subseteq Translations
      /\ requests' \in 0 .. MaxRequests /\ failures' \in 0 .. MaxFailures
  BY <1>1, InvFacts DEF BeginRun
<1> QED  BY <1>1, <1>2, <1>3, <1>4, ProcStep

\* The ends that write nothing.
LEMMA IdleStep ==
    ASSUME IInv, NEW p \in Procs, proc' = [proc EXCEPT ![p] = Idle],
           UNCHANGED <<tr, seg, queue, accepted, requests>>, failures' \in 0 .. MaxFailures
    PROVE  IInv'
<1>1. Sound(Idle) /\ Idle \in Proc /\ Idle.pc # "running"
  BY IdleSound, IdleType
<1> QED  BY <1>1, InvFacts, ProcStep

LEMMA EndsInv ==
    ASSUME IInv, NEW p \in Procs, EndJob(p) \/ Crash(p) \/ RequestFails(p)
    PROVE  IInv'
<1>1. proc' = [proc EXCEPT ![p] = Idle] /\ UNCHANGED <<tr, seg, queue, accepted, requests>>
  BY DEF EndJob, Crash, RequestFails
<1>2. failures' \in 0 .. MaxFailures
  BY InvFacts, FailureType DEF EndJob, Crash, RequestFails
<1> QED  BY <1>1, <1>2, IdleStep

LEMMA LoadSegmentInv ==
    ASSUME IInv, NEW c \in Procs, NEW t \in Translations, NEW i \in Segments,
           LoadSegment(c, t, i)
    PROVE  IInv'
<1> DEFINE n == [Idle EXCEPT !.pc = "calling", !.t = t, !.target = i, !.copy = seg[t]]
<1>1. seg[t] \in [Segments -> Segment] /\ \A j \in Segments : Trusted(j, seg[t][j])
  BY InvFacts
<1>2. /\ n \in Proc /\ n.pc = "calling" /\ n.t = t /\ n.target = i /\ n.copy = seg[t]
      /\ n.memory = [j \in Segments |-> {}]
  BY <1>1 DEF Idle, Proc
<1> HIDE DEF n
<1>3. Sound(n)
  BY <1>1, <1>2 DEF Sound, LoadSegment, Stored
<1>4. /\ proc' = [proc EXCEPT ![c] = n] /\ UNCHANGED <<tr, seg, accepted>>
      /\ queue' \subseteq Translations
      /\ requests' \in 0 .. MaxRequests /\ failures' \in 0 .. MaxFailures
  BY RequestedType, InvFacts DEF LoadSegment, n
<1> QED  BY <1>2, <1>3, <1>4, ProcStep

LEMMA LoadIndexInv ==
    ASSUME IInv, NEW c \in Procs, NEW t \in Translations, LoadIndex(c, t)
    PROVE  IInv'
<1> DEFINE n == [Idle EXCEPT !.pc = "indexing", !.t = t]
<1>1. /\ n \in Proc /\ n.pc = "indexing" /\ n.t = t
      /\ n.copy = [j \in Segments |-> NoSegment] /\ n.memory = [j \in Segments |-> {}]
  BY DEF Idle, Proc, NoSegment, Segment, SegStatus, Texts
<1> HIDE DEF n
<1>2. Sound(n)
  BY <1>1, IdleType DEF Sound, LoadIndex, Trusted
<1>3. /\ proc' = [proc EXCEPT ![c] = n] /\ UNCHANGED <<tr, seg, accepted>>
      /\ queue' \subseteq Translations
      /\ requests' \in 0 .. MaxRequests /\ failures' \in 0 .. MaxFailures
  BY RequestedType, InvFacts DEF LoadIndex, n
<1> QED  BY <1>1, <1>2, <1>3, ProcStep

LEMMA CreateInv ==
    ASSUME IInv, NEW t \in Translations, NEW b \in BOOLEAN, CreateTranslation(t, b)
    PROVE  IInv'
<1>1. /\ tr' \in [Translations -> Row]
      /\ \A u \in Translations :
            /\ tr'[u].cancel = tr[u].cancel /\ tr'[u].docs = tr[u].docs
            /\ tr'[u].status = "Cancelled" => tr[u].status = "Cancelled"
  <2>1. tr[t] \in Row
    BY InvFacts
  <2> DEFINE row == [tr[t] EXCEPT !.status = "Draft", !.index_output = b]
  <2>2. row \in Row /\ row.cancel = tr[t].cancel /\ row.docs = tr[t].docs /\ row.status = "Draft"
    BY <2>1 DEF Row, Status
  <2>3. tr' = [tr EXCEPT ![t] = row]
    BY InvFacts DEF CreateTranslation
  <2> HIDE DEF row
  <2> QED  BY <2>2, <2>3, InvFacts
<1>2. UNCHANGED <<seg, queue, proc, accepted>>
      /\ requests' \in 0 .. MaxRequests /\ failures' \in 0 .. MaxFailures
  BY RequestedType, InvFacts DEF CreateTranslation
<1>3. TypeOK'
  BY <1>1, <1>2, InvFacts DEF TypeOK
<1>4. ProcsSound'
  <2> SUFFICES ASSUME NEW p \in Procs PROVE Sound(proc[p])'
    BY DEF ProcsSound
  <2>1. Sound(proc[p]) /\ proc' = proc
    BY <1>2, InvFacts
  <2> DEFINE n == proc[p]
  <2>2. n.pc # "idle" => tr'[n.t].cancel = tr[n.t].cancel /\ tr'[n.t].docs = tr[n.t].docs
    BY <1>1, <2>1 DEF Sound
  <2> QED  BY <1>2, <2>1, <2>2 DEF Sound, Trusted, Accepted
<1>5. OneRun'
  BY <1>2 DEF IInv, OneRun
<1>6. RowsSound'
  BY <1>1, <1>2, InvFacts DEF RowsSound, AllOrNone, Trusted, Accepted
<1> QED  BY <1>3, <1>4, <1>5, <1>6 DEF IInv

\* A commit by a request that runs nothing.
LEMMA FreeRowStep ==
    ASSUME IInv, NEW t \in Translations, RowFree(t), proc' = Outdated(proc, t),
           NEW row \in Row, tr' = [tr EXCEPT ![t] = row],
           row.docs \in {0, 1}, row.status = "Cancelled" => row.cancel,
           NEW ss \in [Segments -> Segment], seg' = [seg EXCEPT ![t] = ss], AllOrNone(ss),
           accepted \subseteq accepted', accepted' \subseteq Segments \X Texts,
           \A i \in Segments : Trusted(i, ss[i])',
           queue' \subseteq Translations, requests' \in 0 .. MaxRequests,
           failures' \in 0 .. MaxFailures
    PROVE  IInv'
<1>1. proc \in [Procs -> Proc]
  BY InvFacts
<1>2. \A p \in Procs : proc[p] = proc[p] /\ ~ (proc[p].pc = "running" /\ proc[p].t = t)
  BY DEF RowFree
<1> QED  BY <1>1, <1>2, RowStep

LEMMA EnqueueInv ==
    ASSUME IInv, NEW t \in Translations, EnqueueTranslation(t)
    PROVE  IInv'
<1> DEFINE row == [tr[t] EXCEPT !.status = "Queued"]
<1>1. tr[t] \in Row /\ tr[t].docs \in {0, 1}
  BY InvFacts
<1>2. row \in Row /\ row.docs = tr[t].docs /\ row.status = "Queued"
      /\ tr' = [tr EXCEPT ![t] = row]
  BY <1>1, InvFacts DEF Row, Status, EnqueueTranslation
<1> HIDE DEF row
<1>3. /\ RowFree(t) /\ proc' = Outdated(proc, t) /\ UNCHANGED <<seg, accepted>>
      /\ queue' \subseteq Translations
      /\ requests' \in 0 .. MaxRequests /\ failures' \in 0 .. MaxFailures
  BY RequestedType, FailureType, InvFacts DEF EnqueueTranslation
<1>4. /\ seg[t] \in [Segments -> Segment] /\ seg' = [seg EXCEPT ![t] = seg[t]]
      /\ AllOrNone(seg[t]) /\ \A i \in Segments : Trusted(i, seg[t][i])
      /\ accepted' \subseteq Segments \X Texts
  BY <1>3, InvFacts
<1>5. PICK ss \in [Segments -> Segment] : ss = seg[t]
  BY <1>4
<1>6. \A i \in Segments : Trusted(i, ss[i])'
  BY <1>3, <1>4, <1>5 DEF Trusted, Accepted
<1> QED  BY <1>1, <1>2, <1>3, <1>4, <1>5, <1>6, FreeRowStep

LEMMA CancelInv ==
    ASSUME IInv, NEW t \in Translations, CancelTranslation(t)
    PROVE  IInv'
<1> DEFINE row == [tr[t] EXCEPT !.status = "Cancelled", !.cancel = TRUE]
<1>1. tr[t] \in Row /\ tr[t].docs \in {0, 1}
  BY InvFacts
<1>2. row \in Row /\ row.docs = tr[t].docs /\ row.cancel
      /\ tr' = [tr EXCEPT ![t] = row]
  BY <1>1, InvFacts DEF Row, Status, CancelTranslation
<1> HIDE DEF row
<1>3. /\ RowFree(t) /\ proc' = Outdated(proc, t) /\ UNCHANGED <<seg, accepted>>
      /\ queue' \subseteq Translations
      /\ requests' \in 0 .. MaxRequests /\ failures' \in 0 .. MaxFailures
  BY RequestedType, InvFacts DEF CancelTranslation
<1>4. /\ seg[t] \in [Segments -> Segment] /\ seg' = [seg EXCEPT ![t] = seg[t]]
      /\ AllOrNone(seg[t]) /\ \A i \in Segments : Trusted(i, seg[t][i])
      /\ accepted' \subseteq Segments \X Texts
  BY <1>3, InvFacts
<1>5. PICK ss \in [Segments -> Segment] : ss = seg[t]
  BY <1>4
<1>6. \A i \in Segments : Trusted(i, ss[i])'
  BY <1>3, <1>4, <1>5 DEF Trusted, Accepted
<1> QED  BY <1>1, <1>2, <1>3, <1>4, <1>5, <1>6, FreeRowStep

LEMMA ReviewInv ==
    ASSUME IInv, NEW t \in Translations, MarkReviewed(t)
    PROVE  IInv'
<1> DEFINE row == [tr[t] EXCEPT !.status = "Completed"]
           ss == [i \in Segments |-> Accept(seg[t][i])]
<1>1. tr[t] \in Row /\ tr[t].docs \in {0, 1} /\ seg[t] \in [Segments -> Segment]
      /\ AllOrNone(seg[t]) /\ \A i \in Segments : Trusted(i, seg[t][i])
  BY InvFacts
<1>2. row \in Row /\ row.docs = tr[t].docs /\ row.status = "Completed"
      /\ tr' = [tr EXCEPT ![t] = row]
  BY <1>1, InvFacts DEF Row, Status, MarkReviewed
<1>3. \A s \in Segment : /\ Accept(s) \in Segment /\ Accept(s).text = s.text
                         /\ Accept(s).status = "Absent" <=> s.status = "Absent"
  BY DEF Accept, Segment, SegStatus
<1>4. seg' = [seg EXCEPT ![t] = ss]
  BY DEF MarkReviewed
<1>5. /\ RowFree(t) /\ proc' = Outdated(proc, t)
      /\ accepted' = accepted \cup {<<i, seg[t][i].text>> : i \in Segments}
      /\ queue' \subseteq Translations
      /\ requests' \in 0 .. MaxRequests /\ failures' \in 0 .. MaxFailures
  BY RequestedType, InvFacts DEF MarkReviewed
<1> HIDE DEF row
<1>6. ss \in [Segments -> Segment] /\ \A i \in Segments : ss[i] = Accept(seg[t][i])
  BY <1>1, <1>3
<1> HIDE DEF ss
<1>7. AllOrNone(ss)
  BY <1>1, <1>3, <1>6 DEF AllOrNone
<1>8. \A i \in Segments : ss[i].text = seg[t][i].text /\ seg[t][i].text \in Texts
  BY <1>1, <1>3, <1>6 DEF Segment
<1>9. accepted \subseteq accepted' /\ accepted' \subseteq Segments \X Texts
  BY <1>5, <1>8, InvFacts
<1>10. PICK s2 \in [Segments -> Segment] : s2 = ss
  BY <1>6
<1>11. \A i \in Segments : <<i, s2[i].text>> \in accepted'
  BY <1>5, <1>8, <1>10
<1>12. \A i \in Segments : Trusted(i, s2[i])'
  BY <1>11 DEF Trusted, Accepted
<1> QED  BY <1>1, <1>2, <1>4, <1>5, <1>7, <1>9, <1>10, <1>12, FreeRowStep

\* What the gate makes of an answer is a segment that counts as translated only
\* when it passed.
LEMMA ScoredSound ==
    ASSUME NEW x \in Texts, NEW s \in Scored(x), NEW i
    PROVE  s \in Segment /\ s.status # "Absent" /\ Trusted(i, s)
<1>1. PICK u \in {"Translated", "Flagged"} :
          s = [text |-> x, reviewed |-> FALSE,
               status |-> IF x = "none" THEN "Failed" ELSE IF x = "poor" THEN "Flagged" ELSE u]
  BY DEF Scored
<1>2. CASE x = "fine"
  BY <1>1, <1>2 DEF Segment, SegStatus, Texts, Trusted, Accepted
<1>3. CASE x # "fine"
  BY <1>1, <1>3 DEF Segment, SegStatus, Texts, Trusted, Accepted
<1> QED  BY <1>2, <1>3

LEMMA TranslatedSound ==
    ASSUME IInv, NEW p \in Procs, NEW i \in Segments, NEW s \in Translated(p, i)
    PROVE  s \in Segment /\ s.status # "Absent" /\ Trusted(i, s)
<1>1. CASE proc[p].memory[i] # {}
  <2>1. PICK x \in proc[p].memory[i] : s = [text |-> x, status |-> "Reused", reviewed |-> FALSE]
    BY <1>1 DEF Translated
  <2>2. proc[p] \in Proc /\ Sound(proc[p])
    BY InvFacts
  <2>3. x \in Texts /\ Accepted(i, x)
    BY <2>2 DEF Proc, Sound
  <2> QED  BY <2>1, <2>3 DEF Segment, SegStatus, Trusted
<1>2. CASE proc[p].memory[i] = {}
  <2>1. \A a, b \in Texts : Kept(a, b) \in Texts
    BY DEF Kept
  <2>2. PICK a \in Texts, b \in Texts : s \in Scored(Kept(a, b))
    BY <1>2 DEF Translated
  <2> QED  BY <2>1, <2>2, ScoredSound
<1> QED  BY <1>1, <1>2

\* A commit by a process that ends with it.
LEMMA OverRowStep ==
    ASSUME IInv, NEW p \in Procs, NEW t \in Translations, proc[p].t = t,
           RowFree(t) \/ proc[p].pc = "running",
           proc' = Outdated(Over(p), t),
           NEW row \in Row, tr' = [tr EXCEPT ![t] = row],
           row.docs \in {0, 1}, row.status = "Cancelled" => row.cancel,
           NEW ss \in [Segments -> Segment], seg' = [seg EXCEPT ![t] = ss], AllOrNone(ss),
           \A i \in Segments : Trusted(i, ss[i]),
           UNCHANGED <<queue, accepted, requests, failures>>
    PROVE  IInv'
<1>1. /\ Over(p) \in [Procs -> Proc]
      /\ \A r \in Procs : r # p => Over(p)[r] = proc[r]
      /\ Over(p)[p].pc = "idle" \/ (Over(p)[p].pc = "ending" /\ Over(p)[p].t \in Translations)
      /\ Over(p)[p].copy = Idle.copy /\ Over(p)[p].memory = Idle.memory
  BY OverFields
<1>2. \A r \in Procs : r # p => ~ (proc[r].pc = "running" /\ proc[r].t = t)
  BY DEF IInv, OneRun, RowFree
<1>3. \A i \in Segments : Trusted(i, ss[i])'
  BY DEF Trusted, Accepted
<1>4. /\ accepted \subseteq accepted' /\ accepted' \subseteq Segments \X Texts
      /\ queue' \subseteq Translations
      /\ requests' \in 0 .. MaxRequests /\ failures' \in 0 .. MaxFailures
  BY InvFacts
<1>5. PICK q \in [Procs -> Proc] : q = Over(p)
  BY <1>1
<1>6. \A r \in Procs :
          \/ q[r] = proc[r] /\ ~ (proc[r].pc = "running" /\ proc[r].t = t)
          \/ /\ q[r].pc = "idle" \/ (q[r].pc = "ending" /\ q[r].t \in Translations)
             /\ q[r].copy = Idle.copy /\ q[r].memory = Idle.memory
  BY <1>1, <1>2, <1>5
<1>7. proc' = Outdated(q, t)
  BY <1>5
<1> QED  BY <1>3, <1>4, <1>6, <1>7, RowStep

LEMMA FinishRunInv ==
    ASSUME IInv, NEW p \in Procs, FinishRun(p)
    PROVE  IInv'
<1> DEFINE t == proc[p].t
<1>1. proc[p].pc = "running" /\ t \in Translations
  BY InvFacts DEF FinishRun, Sound
<1>2. PICK new \in [Segments -> UNION {Translated(p, i) : i \in Segments}],
           document \in IF tr[t].index_output /\ tr[t].docs = 0 THEN 0 .. 1 ELSE {0} :
          /\ \A i \in Segments : new[i] \in Translated(p, i)
          /\ seg' = [seg EXCEPT ![t] = new]
          /\ tr' = [tr EXCEPT ![t].status = IF Doubtful(new) THEN "Needs Review" ELSE "Completed",
                              ![t].cancel = FALSE,
                              ![t].docs = @ + document]
          /\ proc' = Outdated(Over(p), t)
  BY DEF FinishRun
<1>3. \A i \in Segments : new[i] \in Segment /\ new[i].status # "Absent" /\ Trusted(i, new[i])
  BY <1>2, TranslatedSound
<1>4. new \in [Segments -> Segment] /\ AllOrNone(new)
  BY <1>3 DEF AllOrNone
<1>5. tr[t] \in Row /\ tr[t].docs \in {0, 1} /\ tr[t].docs + document \in {0, 1}
  <2>1. tr[t] \in Row /\ tr[t].docs \in {0, 1}
    BY <1>1, InvFacts
  <2>2. CASE tr[t].index_output /\ tr[t].docs = 0
    <3>1. document \in 0 .. 1
      BY <2>2
    <3> QED  BY <2>1, <2>2, <3>1
  <2>3. CASE ~ (tr[t].index_output /\ tr[t].docs = 0)
    <3>1. document = 0
      BY <2>3
    <3> QED  BY <2>1, <3>1
  <2> QED  BY <2>1, <2>2, <2>3
<1> DEFINE st == IF Doubtful(new) THEN "Needs Review" ELSE "Completed"
           n == tr[t].docs + document
           row == [tr[t] EXCEPT !.status = st, !.cancel = FALSE, !.docs = n]
<1>6. st \in {"Needs Review", "Completed"}
  OBVIOUS
<1>7. tr' = [tr EXCEPT ![t] = row]
  BY <1>1, <1>2, InvFacts
<1>13. n \in {0, 1} /\ tr[t] \in Row
  BY <1>5
<1> HIDE DEF st, n
<1>14. n \in Nat /\ st \in Status /\ st # "Cancelled"
  <2>1. n \in Nat
    BY <1>13
  <2>2. st \in Status
    BY <1>6 DEF Status
  <2>3. st # "Cancelled"
    BY <1>6
  <2> QED  BY <2>1, <2>2, <2>3
<1>15. row \in Row /\ row.docs = n /\ row.status = st
  BY <1>13, <1>14 DEF Row
<1>8. row \in Row /\ row.docs \in {0, 1} /\ row.status # "Cancelled"
  BY <1>13, <1>14, <1>15
<1> HIDE DEF row
<1>9. UNCHANGED <<queue, accepted, requests, failures>>
  BY DEF FinishRun
<1>10. PICK ss \in [Segments -> Segment] : ss = new
  BY <1>4
<1>11. PICK u \in Translations : u = t
  BY <1>1
<1>12. /\ proc[p].t = u /\ (RowFree(u) \/ proc[p].pc = "running")
       /\ proc' = Outdated(Over(p), u) /\ tr' = [tr EXCEPT ![u] = row]
       /\ seg' = [seg EXCEPT ![u] = ss] /\ AllOrNone(ss) /\ \A i \in Segments : Trusted(i, ss[i])
  BY <1>1, <1>2, <1>3, <1>4, <1>7, <1>10, <1>11
<1> QED  BY <1>8, <1>9, <1>12, OverRowStep

\* A commit that only gives the row of a process that ends another state.
LEMMA OverStatusStep ==
    ASSUME IInv, NEW p \in Procs, NEW t \in Translations, proc[p].t = t,
           RowFree(t) \/ proc[p].pc = "running",
           NEW st \in Status, st = "Cancelled" => tr[t].cancel,
           tr' = [tr EXCEPT ![t].status = st], proc' = Outdated(Over(p), t),
           UNCHANGED <<seg, queue, accepted, requests, failures>>
    PROVE  IInv'
<1> DEFINE row == [tr[t] EXCEPT !.status = st]
<1>1. /\ tr[t] \in Row /\ tr[t].docs \in {0, 1} /\ seg[t] \in [Segments -> Segment]
      /\ AllOrNone(seg[t]) /\ \A i \in Segments : Trusted(i, seg[t][i])
  BY InvFacts
<1>2. row \in Row /\ row.docs = tr[t].docs /\ row.status = st /\ row.cancel = tr[t].cancel
      /\ tr' = [tr EXCEPT ![t] = row]
  BY <1>1, InvFacts DEF Row
<1> HIDE DEF row
<1>3. seg' = [seg EXCEPT ![t] = seg[t]]
  BY InvFacts
<1>4. PICK ss \in [Segments -> Segment] : ss = seg[t]
  BY <1>1
<1>5. /\ row \in Row /\ row.docs \in {0, 1} /\ (row.status = "Cancelled" => row.cancel)
      /\ tr' = [tr EXCEPT ![t] = row]
      /\ seg' = [seg EXCEPT ![t] = ss] /\ AllOrNone(ss) /\ \A i \in Segments : Trusted(i, ss[i])
  BY <1>1, <1>2, <1>3, <1>4
<1>6. UNCHANGED <<queue, accepted, requests, failures>>
  OBVIOUS
<1> QED  BY <1>5, <1>6, OverRowStep

LEMMA FailureInv ==
    ASSUME IInv, NEW p \in Procs, RunFails(p) \/ WriteFailure(p)
    PROVE  IInv'
<1>1. proc[p].t \in Translations /\ Sound(proc[p])
  BY InvFacts DEF Sound, RunFails, WriteFailure
<1>2. CASE RunFails(p) /\ p \in Workers
  <2> DEFINE n == [proc[p] EXCEPT !.pc = "failing"]
  <2>1. /\ n \in Proc /\ n.pc = "failing" /\ n.t = proc[p].t /\ n.copy = proc[p].copy
        /\ n.memory = proc[p].memory
        /\ [proc EXCEPT ![p].pc = "failing"] = [proc EXCEPT ![p] = n]
    BY MoveFields
  <2> HIDE DEF n
  <2>2. Sound(n)
    BY <1>1, <2>1 DEF Sound
  <2>3. /\ proc' = [proc EXCEPT ![p] = n] /\ UNCHANGED <<tr, seg, accepted>>
        /\ queue' \subseteq Translations
        /\ requests' \in 0 .. MaxRequests /\ failures' \in 0 .. MaxFailures
    BY <1>2, <2>1, InvFacts DEF RunFails
  <2> QED  BY <2>1, <2>2, <2>3, ProcStep
<1>3. CASE RunFails(p) /\ p \notin Workers
  <2>1. PICK t \in Translations : t = proc[p].t
    BY <1>1
  <2>2. PICK st \in Status : st = "Failed"
    BY DEF Status
  <2>3. /\ proc[p].t = t /\ (RowFree(t) \/ proc[p].pc = "running")
        /\ st = "Cancelled" => tr[t].cancel
        /\ tr' = [tr EXCEPT ![t].status = st] /\ proc' = Outdated(Over(p), t)
        /\ UNCHANGED <<seg, queue, accepted, requests, failures>>
    BY <1>3, <2>1, <2>2 DEF RunFails
  <2> QED  BY <2>3, OverStatusStep
<1>4. CASE WriteFailure(p)
  <2>1. PICK t \in Translations : t = proc[p].t
    BY <1>1
  <2>2. PICK st \in Status : st = IF tr[t].cancel THEN "Cancelled" ELSE "Failed"
    BY DEF Status
  <2>3. /\ proc[p].t = t /\ (RowFree(t) \/ proc[p].pc = "running")
        /\ st = "Cancelled" => tr[t].cancel
        /\ tr' = [tr EXCEPT ![t].status = st] /\ proc' = Outdated(Over(p), t)
        /\ UNCHANGED <<seg, queue, accepted, requests, failures>>
    BY <1>4, <2>1, <2>2 DEF WriteFailure
  <2> QED  BY <2>3, OverStatusStep
<1> QED  BY <1>2, <1>3, <1>4

\* A request that saves what it has read.
LEMMA SaveStep ==
    ASSUME IInv, NEW c \in Procs, NEW t \in Translations, RowFree(t),
           proc' = Outdated([proc EXCEPT ![c] = Idle], t),
           NEW row \in Row, tr' = [tr EXCEPT ![t] = row],
           row.docs \in {0, 1}, row.status = "Cancelled" => row.cancel,
           NEW ss \in [Segments -> Segment], seg' = [seg EXCEPT ![t] = ss], AllOrNone(ss),
           \A i \in Segments : Trusted(i, ss[i]),
           UNCHANGED <<queue, accepted, requests, failures>>
    PROVE  IInv'
<1>1. PICK q \in [Procs -> Proc] : q = [proc EXCEPT ![c] = Idle]
  BY IdleType, InvFacts
<1>2. \A r \in Procs :
          \/ q[r] = proc[r] /\ ~ (proc[r].pc = "running" /\ proc[r].t = t)
          \/ /\ q[r].pc = "idle" \/ (q[r].pc = "ending" /\ q[r].t \in Translations)
             /\ q[r].copy = Idle.copy /\ q[r].memory = Idle.memory
  BY <1>1, IdleType, InvFacts DEF RowFree
<1>3. \A i \in Segments : Trusted(i, ss[i])'
  BY DEF Trusted, Accepted
<1>4. /\ accepted \subseteq accepted' /\ accepted' \subseteq Segments \X Texts
      /\ queue' \subseteq Translations
      /\ requests' \in 0 .. MaxRequests /\ failures' \in 0 .. MaxFailures
  BY InvFacts
<1>5. proc' = Outdated(q, t)
  BY <1>1
<1> QED  BY <1>2, <1>3, <1>4, <1>5, RowStep

LEMMA SaveSegmentInv ==
    ASSUME IInv, NEW c \in Procs, SaveSegment(c)
    PROVE  IInv'
<1>1. PICK t \in Translations : t = proc[c].t
  BY InvFacts DEF SaveSegment, Sound
<1>2. PICK s \in UNION {Scored(x) : x \in Texts} :
        LET new == [proc[c].copy EXCEPT ![proc[c].target] = s]
        IN  /\ seg' = [seg EXCEPT ![t] = new]
            /\ tr' = [tr EXCEPT ![t].status =
                        IF @ = "Needs Review" /\ ~ Doubtful(new) THEN "Completed" ELSE @]
            /\ proc' = Outdated([proc EXCEPT ![c] = Idle], t)
  BY <1>1 DEF SaveSegment
<1> DEFINE new == [proc[c].copy EXCEPT ![proc[c].target] = s]
           st == IF tr[t].status = "Needs Review" /\ ~ Doubtful(new) THEN "Completed" ELSE tr[t].status
           row == [tr[t] EXCEPT !.status = st]
<1>3. /\ proc[c] \in Proc /\ proc[c].target \in Segments
      /\ \A i \in Segments : proc[c].copy[i].status # "Absent" /\ Trusted(i, proc[c].copy[i])
  BY InvFacts DEF SaveSegment, Sound
<1>4. s \in Segment /\ s.status # "Absent" /\ \A i \in Segments : Trusted(i, s)
  BY ScoredSound
<1>5. proc[c].copy \in [Segments -> Segment]
  BY <1>3 DEF Proc
<1>6. /\ new \in [Segments -> Segment]
      /\ \A i \in Segments : new[i] = s \/ new[i] = proc[c].copy[i]
  BY <1>3, <1>4, <1>5
<1>7. /\ tr[t] \in Row /\ tr[t].docs \in {0, 1} /\ (tr[t].status = "Cancelled" => tr[t].cancel)
  BY InvFacts
<1>8. seg' = [seg EXCEPT ![t] = new] /\ proc' = Outdated([proc EXCEPT ![c] = Idle], t)
  BY <1>2
<1>9. tr' = [tr EXCEPT ![t] = row]
  BY <1>2, <1>7, InvFacts
<1> HIDE DEF new
<1>10. AllOrNone(new) /\ \A i \in Segments : Trusted(i, new[i])
  BY <1>3, <1>4, <1>6 DEF AllOrNone, Trusted
<1>11. st \in Status /\ (st = "Cancelled" => tr[t].cancel)
  BY <1>7 DEF Row, Status
<1> HIDE DEF st
<1>12. row \in Row /\ row.docs \in {0, 1} /\ (row.status = "Cancelled" => row.cancel)
  BY <1>7, <1>11 DEF Row
<1> HIDE DEF row
<1>13. PICK ss \in [Segments -> Segment] : ss = new
  BY <1>6
<1>14. /\ seg' = [seg EXCEPT ![t] = ss] /\ AllOrNone(ss) /\ \A i \in Segments : Trusted(i, ss[i])
  BY <1>8, <1>10, <1>13
<1>15. RowFree(t) /\ UNCHANGED <<queue, accepted, requests, failures>>
  BY <1>1 DEF SaveSegment, CanSave
<1> QED  BY <1>8, <1>9, <1>12, <1>14, <1>15, SaveStep

LEMMA SaveIndexInv ==
    ASSUME IInv, NEW c \in Procs, SaveIndex(c)
    PROVE  IInv'
<1>1. PICK t \in Translations : t = proc[c].t
  BY InvFacts DEF SaveIndex, Sound
<1>2. tr[t].docs = 0
  BY <1>1, InvFacts DEF SaveIndex, CanSave, Sound
<1>3. /\ tr[t] \in Row /\ (tr[t].status = "Cancelled" => tr[t].cancel)
      /\ seg[t] \in [Segments -> Segment]
      /\ AllOrNone(seg[t]) /\ \A i \in Segments : Trusted(i, seg[t][i])
  BY InvFacts
<1> DEFINE row == [tr[t] EXCEPT !.docs = 1]
<1>4. row \in Row /\ row.docs = 1 /\ row.status = tr[t].status /\ row.cancel = tr[t].cancel
  BY <1>3 DEF Row
<1>5. tr' = [tr EXCEPT ![t] = row]
  BY <1>1, <1>2, <1>3, InvFacts DEF SaveIndex
<1> HIDE DEF row
<1>6. PICK ss \in [Segments -> Segment] : ss = seg[t]
  BY <1>3
<1>7. /\ seg' = [seg EXCEPT ![t] = ss] /\ AllOrNone(ss) /\ \A i \in Segments : Trusted(i, ss[i])
      /\ row.docs \in {0, 1} /\ (row.status = "Cancelled" => row.cancel)
  BY <1>3, <1>4, <1>6, InvFacts DEF SaveIndex
<1>8. RowFree(t) /\ proc' = Outdated([proc EXCEPT ![c] = Idle], t)
      /\ UNCHANGED <<queue, accepted, requests, failures>>
  BY <1>1 DEF SaveIndex, CanSave
<1> QED  BY <1>4, <1>5, <1>7, <1>8, SaveStep

-----------------------------------------------------------------------------
LEMMA NextInv == IInv /\ [Next]_vars => IInv'
<1> SUFFICES ASSUME IInv, [Next]_vars PROVE IInv'
  OBVIOUS
<1>1. Workers \subseteq Procs /\ Clients \subseteq Procs
  BY DEF Procs
<1>2. CASE \E t \in Translations :
              \/ \E b \in BOOLEAN : CreateTranslation(t, b)
              \/ EnqueueTranslation(t) \/ CancelTranslation(t) \/ MarkReviewed(t)
              \/ \E p \in Procs : OpenRun(p, t)
              \/ \E c \in Clients : LoadIndex(c, t) \/ \E i \in Segments : LoadSegment(c, t, i)
  BY <1>1, <1>2, CreateInv, EnqueueInv, CancelInv, ReviewInv, OpenRunInv, LoadIndexInv,
     LoadSegmentInv
<1>3. CASE \E p \in Procs : RunRefused(p) \/ BeginRun(p) \/ FinishRun(p) \/ RunFails(p)
  BY <1>3, RunRefusedInv, BeginRunInv, FinishRunInv, FailureInv
<1>4. CASE \E w \in Workers : WriteFailure(w) \/ EndJob(w) \/ Crash(w)
  BY <1>1, <1>4, FailureInv, EndsInv
<1>5. CASE \E c \in Clients : SaveSegment(c) \/ SaveIndex(c) \/ RequestFails(c)
  BY <1>1, <1>5, SaveSegmentInv, SaveIndexInv, EndsInv
<1>6. CASE UNCHANGED vars
  BY <1>6 DEF vars, IInv, TypeOK, ProcsSound, OneRun, RowsSound, Sound, Trusted, Accepted, AllOrNone
<1> QED  BY <1>2, <1>3, <1>4, <1>5, <1>6 DEF Next

(* In every reachable state the rows agree with what each process has read.   *)
THEOREM Invariant == Spec => []IInv
<1>1. IInv /\ [Next]_vars => IInv'
  BY NextInv
<1> QED  BY InitInv, <1>1, PTL DEF Spec

(* Rows, segments, jobs and processes stay in their domains, whatever people  *)
(* ask for and whatever fails.                                                *)
THEOREM TypeCorrect == Spec => []TypeOK
<1>1. IInv => TypeOK
  BY DEF IInv
<1> QED  BY Invariant, <1>1, PTL

(* A text below the threshold comes out of the memory only after a review has *)
(* accepted it for that segment, however many copies lie between.             *)
THEOREM MemoryTrustedAlways == Spec => []MemoryTrusted
<1>1. IInv => MemoryTrusted
  BY DEF IInv, RowsSound, MemoryTrusted, Trusted, Accepted
<1> QED  BY Invariant, <1>1, PTL

(* No two requests, nor a request and a run, index the same translation twice.*)
THEOREM IndexedOnceAlways == Spec => []IndexedOnce
<1>1. IInv => IndexedOnce
  BY InvFacts DEF IndexedOnce
<1> QED  BY Invariant, <1>1, PTL

-----------------------------------------------------------------------------
(* What a step may not do. *)

CancelKept(t) ==
    tr[t].status = "Cancelled" /\ tr'[t].status # "Cancelled" =>
        \/ tr'[t].status = "Queued"
        \/ tr'[t].status = "Completed" /\ requests' = requests + 1

LEMMA CancelStep ==
    ASSUME IInv, [Next]_vars, NEW t \in Translations
    PROVE  CancelKept(t)
<1>1. tr[t] \in Row /\ (tr[t].status = "Cancelled" => tr[t].cancel) /\ tr \in [Translations -> Row]
  BY InvFacts
<1>2. \A p \in Procs : proc[p].pc = "running" => ~ tr[proc[p].t].cancel
  BY InvFacts DEF Sound
<1>3. Workers \subseteq Procs /\ Clients \subseteq Procs
  BY DEF Procs
<1>4. ASSUME NEW u \in Translations, NEW b \in BOOLEAN, CreateTranslation(u, b)
      PROVE  CancelKept(t)
  <2>1. tr[u].status = "None"
    BY <1>4 DEF CreateTranslation, Exists
  <2>2. tr'[t].status = IF u = t THEN "Draft" ELSE tr[t].status
    BY <1>1, <1>4 DEF CreateTranslation, Row
  <2> QED  BY <2>1, <2>2 DEF CancelKept
<1>5. ASSUME NEW u \in Translations, EnqueueTranslation(u)
      PROVE  CancelKept(t)
  BY <1>1, <1>5 DEF EnqueueTranslation, CancelKept, Row
<1>6. ASSUME NEW u \in Translations, CancelTranslation(u)
      PROVE  CancelKept(t)
  BY <1>1, <1>6 DEF CancelTranslation, CancelKept, Row
<1>7. ASSUME NEW u \in Translations, MarkReviewed(u)
      PROVE  CancelKept(t)
  BY <1>1, <1>7 DEF MarkReviewed, Requested, CancelKept, Row
<1>8. ASSUME NEW p \in Procs, FinishRun(p) \/ RunFails(p)
      PROVE  CancelKept(t)
  <2>1. CASE proc[p].t = t
    BY <1>1, <1>2, <1>8, <2>1 DEF FinishRun, RunFails, CancelKept
  <2>2. CASE proc[p].t # t
    <3>1. proc[p].t \in Translations
      BY <1>8, InvFacts DEF Sound, FinishRun, RunFails
    <3>2. tr'[t] = tr[t]
      BY <1>1, <1>8, <2>2, <3>1 DEF FinishRun, RunFails
    <3> QED  BY <3>2 DEF CancelKept
  <2> QED  BY <2>1, <2>2
<1>9. ASSUME NEW w \in Procs, WriteFailure(w)
      PROVE  CancelKept(t)
  BY <1>1, <1>9 DEF WriteFailure, CancelKept, Row
<1>10. ASSUME NEW c \in Procs, SaveSegment(c)
       PROVE  CancelKept(t)
  <2>1. proc[c].t \in Translations
    BY <1>10, InvFacts DEF Sound, SaveSegment
  <2>2. tr'[t].status = tr[t].status \/ tr[t].status = "Needs Review"
    <3>1. PICK st : tr' = [tr EXCEPT ![proc[c].t].status =
                             IF @ = "Needs Review" /\ st THEN "Completed" ELSE @]
      BY <1>10 DEF SaveSegment
    <3> QED  BY <1>1, <2>1, <3>1, InvFacts DEF Row
  <2> QED  BY <2>2 DEF CancelKept
<1>11. ASSUME NEW c \in Procs, SaveIndex(c)
       PROVE  CancelKept(t)
  <2>1. tr'[t].status = tr[t].status
    BY <1>1, <1>11 DEF SaveIndex, Row
  <2> QED  BY <2>1 DEF CancelKept
<1>12. ASSUME \/ \E u \in Translations :
                    \/ \E p \in Procs : OpenRun(p, u)
                    \/ \E c \in Clients : LoadIndex(c, u) \/ \E i \in Segments : LoadSegment(c, u, i)
              \/ \E p \in Procs : RunRefused(p) \/ BeginRun(p)
              \/ \E w \in Workers : EndJob(w) \/ Crash(w)
              \/ \E c \in Clients : RequestFails(c)
              \/ UNCHANGED vars
       PROVE  CancelKept(t)
  <2>1. tr' = tr
    BY <1>12 DEF OpenRun, LoadIndex, LoadSegment, RunRefused, BeginRun, EndJob, Crash, RequestFails, vars
  <2> QED  BY <2>1 DEF CancelKept
<1>13. CASE \E u \in Translations :
              \/ \E b \in BOOLEAN : CreateTranslation(u, b)
              \/ EnqueueTranslation(u) \/ CancelTranslation(u) \/ MarkReviewed(u)
              \/ \E p \in Procs : OpenRun(p, u)
              \/ \E c \in Clients : LoadIndex(c, u) \/ \E i \in Segments : LoadSegment(c, u, i)
  BY <1>13, <1>4, <1>5, <1>6, <1>7, <1>12
<1>14. CASE \E p \in Procs : RunRefused(p) \/ BeginRun(p) \/ FinishRun(p) \/ RunFails(p)
  BY <1>14, <1>8, <1>12
<1>15. CASE \E w \in Workers : WriteFailure(w) \/ EndJob(w) \/ Crash(w)
  BY <1>3, <1>15, <1>9, <1>12
<1>16. CASE \E c \in Clients : SaveSegment(c) \/ SaveIndex(c) \/ RequestFails(c)
  BY <1>3, <1>16, <1>10, <1>11, <1>12
<1> QED  BY <1>13, <1>14, <1>15, <1>16, <1>12 DEF Next

(* TRN-04: a cancelled translation stays so until it is queued again or       *)
(* reviewed; no job that was queued or had begun before takes it back.        *)
THEOREM CancelSticksAlways == Spec => CancelSticks
<1> DEFINE EachKept == \A t \in Translations : CancelKept(t)
<1>1. IInv /\ [Next]_vars => [EachKept]_vars
  BY CancelStep
<1>2. [EachKept]_vars
        <=> [\A t \in Translations :
                tr[t].status = "Cancelled" /\ tr'[t].status # "Cancelled" =>
                    \/ tr'[t].status = "Queued"
                    \/ tr'[t].status = "Completed" /\ requests' = requests + 1]_vars
  BY DEF CancelKept
<1> HIDE DEF EachKept
<1> QED  BY <1>1, <1>2, Invariant, PTL DEF Spec, CancelSticks

Changed(t) == {i \in Segments : seg'[t][i] # seg[t][i]}

SegmentsKept(t) ==
    \/ \E p \in Procs : proc[p].pc = "running" /\ proc[p].t = t /\ proc'[p].pc # "running"
    \/ Cardinality(Changed(t)) <= 1
    \/ \A i \in Segments : seg'[t][i].reviewed

LEMMA AtMostOne ==
    ASSUME NEW t, NEW i, Changed(t) \subseteq {i}
    PROVE  Cardinality(Changed(t)) <= 1
<1>1. Changed(t) = {} \/ Changed(t) = {i}
  OBVIOUS
<1>2. Cardinality({}) = 0 /\ Cardinality({i}) = 1
  BY FS_EmptySet, FS_Singleton
<1> QED  BY <1>1, <1>2

LEMMA SegmentsStep ==
    ASSUME IInv, [Next]_vars, NEW t \in Translations
    PROVE  SegmentsKept(t)
<1>1. seg \in [Translations -> [Segments -> Segment]] /\ AllOrNone(seg[t])
  BY InvFacts
<1>2. Workers \subseteq Procs /\ Clients \subseteq Procs
  BY DEF Procs
<1>3. ASSUME seg'[t] = seg[t] PROVE SegmentsKept(t)
  BY <1>3, AtMostOne DEF SegmentsKept, Changed
<1>4. ASSUME NEW u \in Translations, MarkReviewed(u)
      PROVE  SegmentsKept(t)
  <2>1. CASE u = t /\ \A i \in Segments : seg[t][i].status # "Absent"
    <3>1. \A i \in Segments : seg'[t][i] = Accept(seg[t][i])
      BY <1>1, <1>4, <2>1 DEF MarkReviewed
    <3>2. \A s \in Segment : s.status # "Absent" => Accept(s).reviewed
      BY DEF Accept, Segment
    <3> QED  BY <1>1, <2>1, <3>1, <3>2 DEF SegmentsKept
  <2>2. CASE u = t /\ \A i \in Segments : seg[t][i].status = "Absent"
    <3>1. \A i \in Segments : seg'[t][i] = seg[t][i]
      BY <1>1, <1>4, <2>2 DEF MarkReviewed, Accept
    <3> QED  BY <3>1, AtMostOne DEF SegmentsKept, Changed
  <2>3. CASE u # t
    BY <1>1, <1>3, <1>4, <2>3 DEF MarkReviewed
  <2> QED  BY <1>1, <2>1, <2>2, <2>3 DEF AllOrNone
<1>5. ASSUME NEW p \in Procs, FinishRun(p)
      PROVE  SegmentsKept(t)
  <2>1. proc[p].pc = "running" /\ proc[p].t \in Translations
    BY <1>5, InvFacts DEF FinishRun, Sound
  <2>2. CASE proc[p].t = t
    <3>1. Over(p) \in [Procs -> Proc] /\ Over(p)[p].pc # "running"
      BY <2>1, OverFields
    <3>2. proc' = Outdated(Over(p), t)
      BY <1>5, <2>2 DEF FinishRun
    <3>3. proc'[p].pc # "running"
      BY <3>1, <3>2, OutdatedFields DEF Remains
    <3> QED  BY <2>1, <2>2, <3>3 DEF SegmentsKept
  <2>3. CASE proc[p].t # t
    <3>1. seg'[t] = seg[t]
      BY <1>1, <1>5, <2>1, <2>3 DEF FinishRun
    <3> QED  BY <1>3, <3>1
  <2> QED  BY <2>2, <2>3
<1>6. ASSUME NEW c \in Procs, SaveSegment(c)
      PROVE  SegmentsKept(t)
  <2>1. /\ proc[c].pc = "calling" /\ proc[c].t \in Translations
        /\ proc[c].target \in Segments /\ proc[c].copy = seg[proc[c].t]
    BY <1>6, InvFacts DEF SaveSegment, CanSave, Sound
  <2>2. PICK s : seg' = [seg EXCEPT ![proc[c].t] = [proc[c].copy EXCEPT ![proc[c].target] = s]]
    BY <1>6 DEF SaveSegment
  <2>3. CASE proc[c].t = t
    <3>1. seg'[t] = [seg[t] EXCEPT ![proc[c].target] = s]
      BY <1>1, <2>1, <2>2, <2>3
    <3>2. \A i \in Segments : i # proc[c].target => seg'[t][i] = seg[t][i]
      BY <1>1, <3>1
    <3> QED  BY <3>2, AtMostOne DEF SegmentsKept, Changed
  <2>4. CASE proc[c].t # t
    <3>1. seg'[t] = seg[t]
      BY <1>1, <2>1, <2>2, <2>4
    <3> QED  BY <1>3, <3>1
  <2> QED  BY <2>3, <2>4
<1>7. ASSUME \/ \E u \in Translations :
                    \/ \E b \in BOOLEAN : CreateTranslation(u, b)
                    \/ EnqueueTranslation(u) \/ CancelTranslation(u)
                    \/ \E p \in Procs : OpenRun(p, u)
                    \/ \E c \in Clients : LoadIndex(c, u) \/ \E i \in Segments : LoadSegment(c, u, i)
              \/ \E p \in Procs : RunRefused(p) \/ BeginRun(p) \/ RunFails(p)
      PROVE  SegmentsKept(t)
  <2>1. seg' = seg
    BY <1>7 DEF CreateTranslation, EnqueueTranslation, CancelTranslation, OpenRun, LoadIndex,
       LoadSegment, RunRefused, BeginRun, RunFails
  <2> QED  BY <1>3, <2>1
<1>8. CASE \E u \in Translations :
              \/ \E b \in BOOLEAN : CreateTranslation(u, b)
              \/ EnqueueTranslation(u) \/ CancelTranslation(u) \/ MarkReviewed(u)
              \/ \E p \in Procs : OpenRun(p, u)
              \/ \E c \in Clients : LoadIndex(c, u) \/ \E i \in Segments : LoadSegment(c, u, i)
  BY <1>4, <1>7, <1>8
<1>9. CASE \E p \in Procs : RunRefused(p) \/ BeginRun(p) \/ FinishRun(p) \/ RunFails(p)
  BY <1>5, <1>7, <1>9
<1>10. CASE \E w \in Workers : WriteFailure(w) \/ EndJob(w) \/ Crash(w)
  <2>1. seg' = seg
    BY <1>10 DEF WriteFailure, EndJob, Crash
  <2> QED  BY <1>3, <2>1
<1>11. CASE \E c \in Clients : SaveSegment(c) \/ SaveIndex(c) \/ RequestFails(c)
  <2>1. seg' = seg \/ \E c \in Clients : SaveSegment(c)
    BY <1>11 DEF SaveIndex, RequestFails
  <2> QED  BY <1>2, <1>3, <1>6, <2>1
<1>12. CASE UNCHANGED vars
  BY <1>3, <1>12 DEF vars
<1> QED  BY <1>8, <1>9, <1>10, <1>11, <1>12 DEF Next

(* A request that calls the model between reading the segments and saving     *)
(* them overwrites none that a run, a review or a request changed meanwhile.  *)
THEOREM OneAtATimeAlways == Spec => OneAtATime
<1> DEFINE EachKept == \A t \in Translations : SegmentsKept(t)
<1>1. IInv /\ [Next]_vars => [EachKept]_vars
  BY SegmentsStep
<1>2. [EachKept]_vars
        <=> [\A t \in Translations :
                \/ \E p \in Procs :
                      proc[p].pc = "running" /\ proc[p].t = t /\ proc'[p].pc # "running"
                \/ Cardinality({i \in Segments : seg'[t][i] # seg[t][i]}) <= 1
                \/ \A i \in Segments : seg'[t][i].reviewed]_vars
  BY DEF SegmentsKept, Changed
<1> HIDE DEF EachKept
<1> QED  BY <1>1, <1>2, Invariant, PTL DEF Spec, OneAtATime

(* Neither a segment that somebody changed nor a cancellation is put back by  *)
(* a run or a request that read the rows before.                              *)
THEOREM DecisionsStandAlways == Spec => DecisionsStand
<1> QED  BY OneAtATimeAlways, CancelSticksAlways, PTL DEF DecisionsStand
=============================================================================
