-------------------------- MODULE Services_proofs --------------------------
(* Proofs about Services: the scans of entities, for any documents, texts,    *)
(* sessions and bounds; the checks of providers with the discovery of models, *)
(* for any providers, models and jobs; the tree of folders, files and         *)
(* documents, for any tree to start from, any requests and any sessions;      *)
(* search and routing, for any corpus, platform, requests and calls; and      *)
(* permissions and lists, for any grants, rows, folders and files.            *)
EXTENDS Services, FiniteSetTheorems, SequenceTheorems, WellFoundedInduction, TLAPS

(* EntityScan. *)

(* The inductive invariant.                                                   *)

PatternRows(S, d) == {r \in RowsOf(S, d) : r.key \in Patterns}

\* Rows name something in the text whose checksum they carry.
Quoted(S) == \A r \in S : r.source <= version[r.doc] /\ Grounded(r.key, TextOf(r.doc, r.source))

\* A row for each value of the current text, one each.
Complete(S, d) ==
    /\ {r.key : r \in PatternRows(S, d)} = Extracted(TextOf(d, version[d]))
    /\ \A r, q \in PatternRows(S, d) : r.key = q.key => r = q
    /\ \A r \in PatternRows(S, d) : r.source = version[d]

\* A document that a transaction has scanned for patterns: what it will commit
\* is complete and replaces all that is committed.
Scanned(my, d) ==
    /\ 0 < version[d]
    /\ Complete(my.rows, d)
    /\ \A r \in PatternRows(my.rows, d) \cup PatternRows(rows, d) : Id(r) \in my.wrote
    /\ marker[d] = version[d] => PatternRows(my.rows, d) = PatternRows(rows, d)

\* The locks of a transaction: nobody changes what it has locked, and it locks
\* the document of every pattern row.
Locking(my) ==
    /\ my.wrote \cap (my.stale \cup my.todo) = {}
    /\ my.kind = "idle" => my.wrote = {} /\ my.todo = {}
    /\ \A i \in my.wrote \cap Ids : i.key \in Patterns => i.doc \in my.wrote

\* Its view is the database, for every document that did not change since.
Viewing(my) ==
    /\ Quoted(my.rows)
    /\ \A d \in Documents : my.version[d] <= version[d]
    /\ my.kind # "idle" => \A d \in Documents \ my.stale :
          /\ my.version[d] = version[d]
          /\ d \notin my.wrote => PatternRows(my.rows, d) = PatternRows(rows, d)
    /\ \A d \in my.todo : my.version[d] # 0
    /\ \A d \in my.todo \ my.stale : state[d] # "Deleted"

SessionInv(my) ==
    /\ Locking(my) /\ Viewing(my)
    /\ \A d \in Documents \cap my.wrote : Scanned(my, d)

LocksApart == \A s, t \in Sessions : s # t => session[s].wrote \cap session[t].wrote = {}

Unique(S) == \A d \in Documents : \A r, q \in PatternRows(S, d) : r.key = q.key => r = q

ScanInv ==
    /\ TypeOK
    /\ Quoted(rows) /\ MarkedIsComplete /\ Unique(rows)
    /\ \A d \in Documents : marker[d] <= version[d]
    /\ LocksApart
    /\ \A s \in Sessions : SessionInv(session[s])

-----------------------------------------------------------------------------
LEMMA BoundsAreInt ==
    /\ MaxVersions \in Nat /\ MaxRequests \in Nat /\ Versions \subseteq Nat /\ 0 \in Versions
    /\ Patterns \subseteq Int
  BY EntityScanAssumption DEF Versions

LEMMA SessionFields ==
    ASSUME NEW my \in Session
    PROVE  /\ my.kind \in Kinds \cup {"idle"} /\ my.todo \subseteq Documents
           /\ my.version \in [Documents -> Versions] /\ my.rows \subseteq Row
           /\ my.wrote \subseteq Ids \cup Documents /\ my.done \subseteq Documents
           /\ my.stale \subseteq Ids \cup Documents
  BY DEF Session

LEMMA ClosedFields ==
    /\ Closed \in Session
    /\ Closed.kind = "idle" /\ Closed.todo = {} /\ Closed.rows = {} /\ Closed.wrote = {} /\ Closed.stale = {}
    /\ \A d \in Documents : Closed.version[d] = 0
  BY BoundsAreInt DEF Closed, Session

LEMMA ClosedInv == TypeOK => SessionInv(Closed)
<1> SUFFICES ASSUME TypeOK PROVE SessionInv(Closed)
  OBVIOUS
<1>1. \A d \in Documents : version[d] \in Nat
  BY BoundsAreInt DEF TypeOK
<1>2. Locking(Closed)
  BY ClosedFields DEF Locking
<1>3. Viewing(Closed)
  BY <1>1, ClosedFields DEF Viewing, Quoted
<1> QED  BY <1>2, <1>3, ClosedFields DEF SessionInv

(* A new view of what is committed.                                           *)
LEMMA ViewInv ==
    ASSUME ScanInv, NEW kind \in Kinds, NEW todo \in SUBSET Documents,
           \A d \in todo : version[d] # 0,
           NEW my, my = View(kind, todo)
    PROVE  my \in Session /\ SessionInv(my) /\ my.wrote = {}
<1>1. /\ my.kind = kind /\ my.todo = todo \cap Present /\ my.version = version /\ my.rows = rows
      /\ my.wrote = {} /\ my.stale = {} /\ my \in Session /\ my.kind # "idle"
  BY DEF View, Session, ScanInv, TypeOK, Kinds
<1>2. \A d \in Documents : version[d] \in Nat
  BY BoundsAreInt DEF ScanInv, TypeOK
<1>3. Locking(my)
  BY <1>1 DEF Locking
<1>4. Viewing(my)
  BY <1>1, <1>2 DEF Viewing, ScanInv, Present
<1> QED  BY <1>1, <1>3, <1>4 DEF SessionInv

(* A step of one transaction that commits nothing.                            *)
LEMMA OwnStep ==
    ASSUME ScanInv, NEW s \in Sessions, NEW my \in Session, SessionInv(my),
           \A t \in Sessions \ {s} : my.wrote \cap session[t].wrote = {},
           session' = [session EXCEPT ![s] = my],
           cached' \in [Documents -> Versions], requests' \in 0 .. MaxRequests,
           UNCHANGED <<texts, version, state, marker, rows>>
    PROVE  ScanInv'
<1>1. \A t \in Sessions : session'[t] = IF t = s THEN my ELSE session[t]
  BY DEF ScanInv, TypeOK
<1>2. \A t \in Sessions : session'[t] \in Session
  BY <1>1 DEF ScanInv, TypeOK
<1>3. TypeOK'
  BY <1>2 DEF ScanInv, TypeOK
<1>4. \A v : SessionInv(v) = SessionInv(v)'
  BY DEF SessionInv, Locking, Viewing, Scanned, Quoted, Complete, Grounded, TextOf, PatternRows, RowsOf, Extracted, Id
<1>5. \A t \in Sessions : SessionInv(session[t])'
  <2> SUFFICES ASSUME NEW t \in Sessions PROVE SessionInv(session[t])'
    OBVIOUS
  <2>1. PICK v : v = IF t = s THEN my ELSE session[t]
    OBVIOUS
  <2>2. SessionInv(v) /\ session'[t] = v
    BY <2>1, <1>1 DEF ScanInv
  <2>3. SessionInv(v)'
    BY <2>2, <1>4
  <2> QED  BY <2>2, <2>3 DEF SessionInv, Locking, Viewing, Scanned
<1>6. LocksApart'
  BY <1>1 DEF LocksApart, ScanInv
<1>7. (Quoted(rows) /\ MarkedIsComplete /\ Unique(rows) /\ \A d \in Documents : marker[d] <= version[d])'
  BY DEF ScanInv, Quoted, MarkedIsComplete, Unique, Present, Grounded, TextOf, PatternRows, RowsOf, Extracted
<1> QED  BY <1>3, <1>5, <1>6, <1>7 DEF ScanInv

LEMMA AbortStep == ASSUME ScanInv, NEW s \in Sessions, Abort(s) PROVE ScanInv'
<1>1. SessionInv(Closed)
  BY ClosedInv DEF ScanInv
<1>2. PICK my : my = Closed
  OBVIOUS
<1> QED  BY <1>1, <1>2, ClosedFields, OwnStep DEF Abort, ScanInv, TypeOK

LEMMA TextNotFirst == \A d \in Documents : TextOf(d, version[d]) # {} => version[d] # 0
  BY DEF TextOf

LEMMA OpenSteps ==
    ASSUME ScanInv,
           OpenPatternTick \/ OpenSemanticTick
              \/ \E u \in Users, kind \in Kinds, d \in Documents : OpenRequest(u, kind, d)
    PROVE  ScanInv'
<1> DEFINE Opens(s, kind, todo) ==
        /\ \A d \in todo : TextOf(d, version[d]) # {}
        /\ session' = [session EXCEPT ![s] = View(kind, todo)]
        /\ cached' = cached /\ requests' \in 0 .. MaxRequests
        /\ UNCHANGED <<texts, version, state, marker, rows>>
<1>1. PICK s \in Sessions, kind \in Kinds, todo \in SUBSET Documents : Opens(s, kind, todo)
  <2>1. CASE OpenPatternTick
    <3>1. PICK todo : todo = {d \in Documents : PatternPending(d) /\ ~WasScanned(d)}
      OBVIOUS
    <3>2. todo \in SUBSET Documents /\ PatternTick \in Sessions /\ "pattern" \in Kinds
      BY <3>1 DEF Sessions, Kinds
    <3>3. Opens(PatternTick, "pattern", todo)
      BY <2>1, <3>1 DEF OpenPatternTick, PatternPending, ScanInv, TypeOK
    <3> QED  BY <3>2, <3>3
  <2>2. CASE OpenSemanticTick
    <3>1. PICK todo : todo = {d \in Documents : SemanticPending(d)}
      OBVIOUS
    <3>2. todo \in SUBSET Documents /\ SemanticTick \in Sessions /\ "semantic" \in Kinds
      BY <3>1 DEF Sessions, Kinds
    <3>3. Opens(SemanticTick, "semantic", todo)
      BY <2>2, <3>1 DEF OpenSemanticTick, SemanticPending, ScanInv, TypeOK
    <3> QED  BY <3>2, <3>3
  <2>3. CASE \E u \in Users, kind \in Kinds, d \in Documents : OpenRequest(u, kind, d)
    <3>1. PICK u \in Users, kind \in Kinds, d \in Documents : OpenRequest(u, kind, d)
      BY <2>3
    <3>2. requests' \in 0 .. MaxRequests
      BY <3>1, BoundsAreInt DEF OpenRequest, ScanInv, TypeOK
    <3>3. Opens(u, kind, {d}) /\ u \in Sessions /\ {d} \in SUBSET Documents
      BY <3>1, <3>2 DEF OpenRequest, Sessions
    <3> QED  BY <3>3
  <2> HIDE DEF Opens
  <2> QED  BY <2>1, <2>2, <2>3
<1>2. PICK my : my = View(kind, todo)
  OBVIOUS
<1>3. my \in Session /\ SessionInv(my) /\ my.wrote = {}
  BY <1>1, <1>2, ViewInv, TextNotFirst
<1> QED  BY <1>1, <1>2, <1>3, OwnStep, ZenonT(30) DEF ScanInv, TypeOK

(* A batch that goes on in a new view.                                        *)
LEMMA ReopenStep ==
    ASSUME ScanInv, NEW s \in Sessions, NEW d \in Documents, d \in session[s].todo,
           session' = [session EXCEPT ![s] = View(session[s].kind, session[s].todo \ {d})],
           cached' \in [Documents -> Versions],
           UNCHANGED <<texts, version, state, marker, rows, requests>>
    PROVE  ScanInv'
<1>1. PICK kind : kind = session[s].kind
  OBVIOUS
<1>2. PICK todo : todo = session[s].todo \ {d}
  OBVIOUS
<1>3. session[s] \in Session /\ SessionInv(session[s])
  BY DEF ScanInv, TypeOK
<1>4. kind \in Kinds /\ todo \in SUBSET Documents
  BY <1>1, <1>2, <1>3, SessionFields DEF SessionInv, Locking
<1>5. \A e \in todo : version[e] # 0
  <2> SUFFICES ASSUME NEW e \in todo PROVE version[e] # 0
    OBVIOUS
  <2>1. e \in Documents /\ session[s].version[e] # 0 /\ session[s].version[e] <= version[e]
    BY <1>2, <1>3, <1>4 DEF SessionInv, Viewing
  <2>2. version[e] \in Nat /\ session[s].version[e] \in Nat
    BY <2>1, <1>3, SessionFields, BoundsAreInt DEF ScanInv, TypeOK
  <2> QED  BY <2>1, <2>2
<1>6. PICK my : my = View(kind, todo)
  OBVIOUS
<1>7. my \in Session /\ SessionInv(my) /\ my.wrote = {}
  BY <1>4, <1>5, <1>6, ViewInv
<1> QED  BY <1>1, <1>2, <1>6, <1>7, OwnStep, ZenonT(30) DEF ScanInv, TypeOK

(* What a scan writes: one row for each value found, of the checksum v.       *)
LEMMA SyncedRows ==
    ASSUME NEW s \in Sessions, NEW d \in Documents, NEW S \in SUBSET Row, \A r \in S : r.doc = d,
           NEW existing \in OnePerKey(S), NEW found \in SUBSET Keys, NEW v \in Versions,
           NEW synced, synced = Synced(s, d, existing, found, v)
    PROVE  /\ existing \subseteq S /\ \A r \in S : \E q \in existing : q.key = r.key
           /\ synced \subseteq Row
           /\ \A r \in synced : r.doc = d /\ r.key \in found /\ r.source = v
           /\ \A k \in found : \E r \in synced : r.key = k
           /\ \A r, q \in synced : r.key = q.key => r = q
<1> DEFINE Fresh(k) == [doc |-> d, key |-> k, by |-> s, source |-> v]
           Kept(r) == [r EXCEPT !.source = v]
<1>1. /\ existing \subseteq S /\ {r.key : r \in existing} = {r.key : r \in S}
      /\ \A r, q \in existing : r.key = q.key => r = q
  BY DEF OnePerKey
<1>2. \A r \in S : r.key \in {q.key : q \in existing}
  BY <1>1
<1>3. synced = {Kept(r) : r \in {q \in existing : q.key \in found}}
                 \cup {Fresh(k) : k \in found \ {r.key : r \in existing}}
  BY DEF Synced
<1>4. \A r \in existing : Kept(r) \in Row /\ Kept(r).doc = d /\ Kept(r).key = r.key /\ Kept(r).source = v
  BY <1>1 DEF Row
<1>5. \A k \in found : Fresh(k) \in Row /\ Fresh(k).doc = d /\ Fresh(k).key = k /\ Fresh(k).source = v
  BY DEF Row
<1> HIDE DEF Fresh, Kept
<1>6. \A r \in synced : \/ \E q \in existing : q.key \in found /\ r = Kept(q)
                        \/ \E k \in found \ {q.key : q \in existing} : r = Fresh(k)
  BY <1>3
<1>7. synced \subseteq Row /\ \A r \in synced : r.doc = d /\ r.key \in found /\ r.source = v
  BY <1>4, <1>5, <1>6
<1>8. \A k \in found : \E r \in synced : r.key = k
  <2> TAKE k \in found
  <2>1. CASE k \in {r.key : r \in existing}
    BY <2>1, <1>3, <1>4
  <2>2. CASE k \notin {r.key : r \in existing}
    BY <2>2, <1>3, <1>5
  <2> QED  BY <2>1, <2>2
<1>9. \A r, q \in synced : r.key = q.key => r = q
  <2> SUFFICES ASSUME NEW r \in synced, NEW q \in synced, r.key = q.key PROVE r = q
    OBVIOUS
  <2>1. CASE \E x \in existing : x.key \in found /\ r = Kept(x)
    BY <2>1, <1>1, <1>4, <1>5, <1>6
  <2>2. CASE \E k \in found \ {x.key : x \in existing} : r = Fresh(k)
    BY <2>2, <1>1, <1>4, <1>5, <1>6
  <2> QED  BY <1>6, <2>1, <2>2
<1> QED  BY <1>1, <1>2, <1>7, <1>8, <1>9

(* A scan of document d by session s, as a transaction leaves it.             *)
Rescanned(s, d, kind, existing, found, synced, locks, my) ==
    LET v == session[s].version[d]
    IN  /\ d \in session[s].todo /\ kind \in Kinds
        /\ existing \in OnePerKey(OwnRows(kind, session[s].rows, d))
        /\ found \subseteq Keys /\ \A k \in found : Grounded(k, TextOf(d, v))
        /\ synced = Synced(s, d, existing, found, v)
        /\ locks \subseteq Ids \cup {d} /\ \A r \in existing \cup synced : Id(r) \in locks
        /\ \A i \in locks \cap Ids : i.key \in Patterns => i.doc \in locks
        /\ ~Locked(s, locks) /\ locks \cap session[s].stale = {}
        /\ my = [session[s] EXCEPT !.todo = @ \ {d}, !.rows = (@ \ existing) \cup synced,
                                   !.wrote = @ \cup locks, !.done = @ \cup {d}]

(* What both scans leave of a transaction.                                    *)
LEMMA AfterScan ==
    ASSUME ScanInv, NEW s \in Sessions, NEW d, NEW kind, NEW existing, NEW found, NEW synced, NEW locks, NEW my,
           Rescanned(s, d, kind, existing, found, synced, locks, my)
    PROVE  /\ my \in Session /\ Locking(my) /\ Quoted(my.rows)
           /\ \A t \in Sessions \ {s} : my.wrote \cap session[t].wrote = {}
           /\ my.kind = session[s].kind /\ my.version = session[s].version
           /\ my.stale = session[s].stale /\ my.todo = session[s].todo \ {d}
           /\ my.rows = (session[s].rows \ existing) \cup synced
           /\ my.wrote = session[s].wrote \cup locks
<1> DEFINE v == session[s].version[d]
<1>1. session[s] \in Session /\ SessionInv(session[s]) /\ d \in Documents /\ d \in session[s].todo
  BY SessionFields DEF ScanInv, TypeOK, Rescanned
<1>2. /\ my.kind = session[s].kind /\ my.version = session[s].version
      /\ my.stale = session[s].stale /\ my.todo = session[s].todo \ {d}
      /\ my.rows = (session[s].rows \ existing) \cup synced
      /\ my.wrote = session[s].wrote \cup locks /\ my.done = session[s].done \cup {d}
  BY <1>1 DEF Session, Rescanned
<1>3. v \in Versions
  BY <1>1, SessionFields
<1>20. /\ found \in SUBSET Keys /\ \A k \in found : Grounded(k, TextOf(d, v))
       /\ existing \in OnePerKey(OwnRows(kind, session[s].rows, d))
       /\ synced = Synced(s, d, existing, found, v)
       /\ locks \subseteq Ids \cup {d} /\ \A r \in existing \cup synced : Id(r) \in locks
       /\ \A i \in locks \cap Ids : i.key \in Patterns => i.doc \in locks
       /\ ~Locked(s, locks) /\ locks \cap session[s].stale = {}
  BY DEF Rescanned
<1> HIDE DEF v
<1>4. PICK S : S = OwnRows(kind, session[s].rows, d)
  OBVIOUS
<1>5. S \in SUBSET Row /\ \A r \in S : r.doc = d
  BY <1>1, <1>4, SessionFields DEF OwnRows, Entities, SemanticRows, RowsOf
<1>6. /\ synced \subseteq Row
      /\ \A r \in synced : r.doc = d /\ r.key \in found /\ r.source = v
  BY <1>1, <1>3, <1>4, <1>5, <1>20, SyncedRows
<1>7. my \in Session
  BY <1>1, <1>6, <1>20, SessionFields DEF Session, Rescanned
<1>8. locks \cap (my.stale \cup my.todo) = {}
  BY <1>1, <1>2, <1>20, EntityScanAssumption, SessionFields
<1>9. Locking(my)
  BY <1>1, <1>2, <1>8, <1>20 DEF SessionInv, Locking
<1>10. Quoted(my.rows)
  BY <1>1, <1>2, <1>6, <1>20 DEF SessionInv, Viewing, v, Quoted
<1>11. \A t \in Sessions \ {s} : my.wrote \cap session[t].wrote = {}
  BY <1>2, <1>20 DEF Locked, ScanInv, LocksApart
<1> QED  BY <1>2, <1>7, <1>9, <1>10, <1>11

(* What a scan made of a document stays so.                                   *)
LEMMA ScannedKept ==
    ASSUME NEW my, NEW old, NEW d \in Documents, Scanned(old, d), old.wrote \subseteq my.wrote,
           PatternRows(my.rows, d) = PatternRows(old.rows, d)
    PROVE  Scanned(my, d)
  BY SMTT(30) DEF Scanned, Complete

LEMMA ScanSemanticStep ==
    ASSUME ScanInv, NEW s \in Sessions, NEW d \in Documents, ScanSemantic(s, d)
    PROVE  ScanInv'
<1>1. PICK v : v = session[s].version[d]
  BY SMTT(30)
<1>2. PICK reported \in SUBSET (Names \cup Links), existing \in OnePerKey(OwnRows("semantic", session[s].rows, d)) :
        LET found == Accepted(reported, TextOf(d, v))
            synced == Synced(s, d, existing, found, v)
            locks == {Id(r) : r \in existing \cup synced}
        IN  /\ ~Locked(s, locks)
            /\ locks \cap session[s].stale = {}
            /\ session' = [session EXCEPT ![s] =
                  [session[s] EXCEPT !.todo = @ \ {d}, !.rows = (@ \ existing) \cup synced,
                                     !.wrote = @ \cup locks, !.done = @ \cup {d}]]
  BY <1>1, Zenon DEF ScanSemantic, SourceOf
<1>30. existing \in OnePerKey(OwnRows("semantic", session[s].rows, d))
  BY <1>2
<1>3. PICK found : found = Accepted(reported, TextOf(d, v))
  OBVIOUS
<1>4. PICK synced : synced = Synced(s, d, existing, found, v)
  OBVIOUS
<1>5. PICK locks : locks = {Id(r) : r \in existing \cup synced}
  OBVIOUS
<1>6. PICK my : my = [session[s] EXCEPT !.todo = @ \ {d}, !.rows = (@ \ existing) \cup synced,
                                        !.wrote = @ \cup locks, !.done = @ \cup {d}]
  OBVIOUS
<1>7. ~Locked(s, locks) /\ locks \cap session[s].stale = {} /\ session' = [session EXCEPT ![s] = my]
  BY <1>2, <1>3, <1>4, <1>5, <1>6
<1>8. session[s] \in Session /\ SessionInv(session[s]) /\ d \in session[s].todo
  BY DEF ScanInv, TypeOK, ScanSemantic
<1>9. found \in SUBSET Keys /\ found \subseteq Names \cup Links /\ \A k \in found : Grounded(k, TextOf(d, v))
  BY <1>3 DEF Accepted, Keys
<1>10. PICK S : S = OwnRows("semantic", session[s].rows, d)
  OBVIOUS
<1>11. S \in SUBSET Row /\ \A r \in S : r.doc = d /\ r.key \in Names \cup Links
  BY <1>8, <1>10, SessionFields DEF OwnRows, SemanticRows, RowsOf
<1>12. v \in Versions
  BY <1>1, <1>8, SessionFields
<1>13. /\ existing \subseteq S /\ synced \subseteq Row
       /\ \A r \in synced : r.doc = d /\ r.key \in found
  BY <1>30, <1>4, <1>9, <1>10, <1>11, <1>12, SyncedRows
<1>14. \A r \in existing \cup synced : Id(r) \in Ids /\ Id(r).key \in Names \cup Links
  BY <1>9, <1>11, <1>13 DEF Id, Ids, Row
<1>15. locks \in SUBSET (Ids \cup {d}) /\ \A i \in locks \cap Ids : i.key \notin Patterns
  BY <1>5, <1>14, EntityScanAssumption
<1>16. /\ my \in Session /\ Locking(my) /\ Quoted(my.rows)
       /\ \A t \in Sessions \ {s} : my.wrote \cap session[t].wrote = {}
       /\ my.kind = session[s].kind /\ my.version = session[s].version
       /\ my.stale = session[s].stale /\ my.todo = session[s].todo \ {d}
       /\ my.rows = (session[s].rows \ existing) \cup synced
       /\ my.wrote = session[s].wrote \cup locks
  <2>1. \A r \in existing \cup synced : Id(r) \in locks
    BY <1>5
  <2>2. \A i \in locks \cap Ids : i.key \in Patterns => i.doc \in locks
    BY <1>15
  <2>3. Rescanned(s, d, "semantic", existing, found, synced, locks, my)
    BY <1>1, <1>30, <1>4, <1>6, <1>7, <1>8, <1>9, <1>15, <2>1, <2>2 DEF Rescanned, Kinds
  <2> QED  BY <2>3, AfterScan
<1>17. \A e \in Documents : PatternRows(my.rows, e) = PatternRows(session[s].rows, e)
  BY <1>9, <1>11, <1>13, <1>16, EntityScanAssumption DEF PatternRows, RowsOf
<1>18. Documents \cap my.wrote = Documents \cap session[s].wrote
  BY <1>5, <1>14, <1>16, EntityScanAssumption
<1>19. Viewing(my)
  BY <1>8, <1>16, <1>17, <1>18 DEF SessionInv, Viewing
<1>20. \A e \in Documents \cap my.wrote : Scanned(my, e)
  BY <1>8, <1>16, <1>17, <1>18, ScannedKept DEF SessionInv
<1>21. SessionInv(my)
  BY <1>16, <1>19, <1>20, SMTT(30) DEF SessionInv
<1> QED  BY <1>7, <1>16, <1>21, OwnStep DEF ScanSemantic, ScanInv, TypeOK

LEMMA ScanPatternsStep ==
    ASSUME ScanInv, NEW s \in Sessions, NEW d \in Documents, ScanPatterns(s, d)
    PROVE  ScanInv'
<1>1. PICK v : v = session[s].version[d]
  OBVIOUS
<1>2. PICK found : found = Extracted(TextOf(d, v))
  BY SMTT(30)
<1>3. PICK existing \in OnePerKey(OwnRows("pattern", session[s].rows, d)) :
        LET synced == Synced(s, d, existing, found, v)
            locks == {Id(r) : r \in existing \cup synced} \cup {d}
        IN  /\ ~Locked(s, locks)
            /\ locks \cap session[s].stale = {}
            /\ session' = [session EXCEPT ![s] =
                  [session[s] EXCEPT !.todo = @ \ {d}, !.rows = (@ \ existing) \cup synced,
                                     !.wrote = @ \cup locks, !.done = @ \cup {d}]]
  BY <1>1, <1>2, Zenon DEF ScanPatterns, SourceOf
<1>30. existing \in OnePerKey(OwnRows("pattern", session[s].rows, d))
  BY <1>3
<1>4. PICK synced : synced = Synced(s, d, existing, found, v)
  OBVIOUS
<1>5. PICK locks : locks = {Id(r) : r \in existing \cup synced} \cup {d}
  OBVIOUS
<1>6. PICK my : my = [session[s] EXCEPT !.todo = @ \ {d}, !.rows = (@ \ existing) \cup synced,
                                        !.wrote = @ \cup locks, !.done = @ \cup {d}]
  OBVIOUS
<1>7. ~Locked(s, locks) /\ locks \cap session[s].stale = {} /\ session' = [session EXCEPT ![s] = my]
  BY <1>3, <1>4, <1>5, <1>6
<1>8. session[s] \in Session /\ SessionInv(session[s]) /\ d \in session[s].todo
  BY DEF ScanInv, TypeOK, ScanPatterns
<1>9. found \subseteq Patterns /\ found \in SUBSET Keys /\ \A k \in found : Grounded(k, TextOf(d, v))
  BY <1>2, EntityScanAssumption DEF Extracted, Keys, Grounded
<1>10. v \in Versions
  BY <1>1, <1>8, SessionFields
<1>11. /\ d \notin session[s].stale /\ d \notin session[s].wrote /\ session[s].kind # "idle"
       /\ v = version[d] /\ v # 0 /\ d \in Present
       /\ PatternRows(session[s].rows, d) = PatternRows(rows, d)
  BY <1>5, <1>7, <1>8, <1>1 DEF SessionInv, Locking, Viewing, Present
<1>12. PICK S : S = OwnRows("pattern", session[s].rows, d)
  OBVIOUS
<1>13. S \in SUBSET Row /\ \A r \in S : r.doc = d
  BY <1>8, <1>12, SessionFields DEF OwnRows, Entities, RowsOf
<1>14. /\ existing \subseteq S /\ \A r \in S : \E q \in existing : q.key = r.key
       /\ synced \subseteq Row
       /\ \A r \in synced : r.doc = d /\ r.key \in found /\ r.source = v
       /\ \A k \in found : \E r \in synced : r.key = k
       /\ \A r, q \in synced : r.key = q.key => r = q
  <2>1. existing \in OnePerKey(S)
    BY <1>30, <1>12
  <2>2. found \in SUBSET Keys
    BY <1>9
  <2> QED  BY <2>1, <2>2, <1>4, <1>10, <1>13, SyncedRows
<1>15. \A r \in existing \cup synced : Id(r) \in Ids /\ Id(r).doc = d
  BY <1>13, <1>14 DEF Id, Ids, Row
<1>16. locks \in SUBSET (Ids \cup {d}) /\ d \in locks /\ \A i \in locks \cap Ids : i.doc = d
  BY <1>5, <1>15, EntityScanAssumption
<1>17. /\ my \in Session /\ Locking(my) /\ Quoted(my.rows)
       /\ \A t \in Sessions \ {s} : my.wrote \cap session[t].wrote = {}
       /\ my.kind = session[s].kind /\ my.version = session[s].version
       /\ my.stale = session[s].stale /\ my.todo = session[s].todo \ {d}
       /\ my.rows = (session[s].rows \ existing) \cup synced
       /\ my.wrote = session[s].wrote \cup locks
  <2>1. \A r \in existing \cup synced : Id(r) \in locks
    BY <1>5
  <2>2. \A i \in locks \cap Ids : i.key \in Patterns => i.doc \in locks
    BY <1>16
  <2>3. Rescanned(s, d, "pattern", existing, found, synced, locks, my)
    BY <1>1, <1>30, <1>4, <1>6, <1>7, <1>8, <1>9, <1>16, <2>1, <2>2 DEF Rescanned, Kinds
  <2> QED  BY <2>3, AfterScan
<1>18. \A e \in Documents \ {d} : PatternRows(my.rows, e) = PatternRows(session[s].rows, e)
  BY <1>13, <1>14, <1>17 DEF PatternRows, RowsOf
<1>19. Documents \cap my.wrote = (Documents \cap session[s].wrote) \cup {d}
  BY <1>5, <1>15, <1>17, EntityScanAssumption
<1>20. Viewing(my)
  BY <1>8, <1>17, <1>18, <1>19 DEF SessionInv, Viewing
(* The scan goes by all pattern rows of the document.                         *)
<1>21. PatternRows(rows, d) \subseteq existing
  <2> SUFFICES ASSUME NEW r \in PatternRows(rows, d) PROVE r \in existing
    OBVIOUS
  <2>1. r \in PatternRows(session[s].rows, d)
    BY <1>11
  <2>2. r \in S
    BY <2>1, <1>12, EntityScanAssumption DEF OwnRows, Entities, PatternRows, RowsOf
  <2>3. PICK q \in existing : q.key = r.key
    BY <2>2, <1>14
  <2>4. q \in PatternRows(rows, d)
    BY <2>1, <2>3, <1>11, <1>12, <1>13, <1>14 DEF PatternRows, RowsOf, OwnRows, Entities
  <2> QED  BY <2>3, <2>4 DEF ScanInv, Unique
<1>22. PatternRows(my.rows, d) = synced
  BY <1>9, <1>14, <1>11, <1>21, <1>17 DEF PatternRows, RowsOf
<1>23. Complete(my.rows, d)
  BY <1>2, <1>11, <1>14, <1>22 DEF Complete
<1>24. marker[d] = version[d] => synced = PatternRows(rows, d)
  <2> SUFFICES ASSUME marker[d] = version[d] PROVE synced = PatternRows(rows, d)
    OBVIOUS
  <2>1. /\ {r.key : r \in PatternRows(rows, d)} = found
        /\ \A r \in PatternRows(rows, d) : r.source = v
    BY <1>2, <1>11 DEF ScanInv, MarkedIsComplete, PatternRows
  <2>2. \A r \in existing : r.key \in found => r \in PatternRows(rows, d)
    BY <1>9, <1>11, <1>12, <1>13, <1>14 DEF PatternRows, RowsOf, OwnRows, Entities
  <2>3. {q \in existing : q.key \in found} = PatternRows(rows, d)
    BY <1>21, <2>1, <2>2
  <2>4. found \ {r.key : r \in existing} = {}
    BY <1>21, <2>1
  <2>5. \A r \in PatternRows(rows, d) : [r EXCEPT !.source = v] = r
    BY <2>1, <1>13, <1>14, <1>21 DEF Row
  <2>6. synced = {[r EXCEPT !.source = v] : r \in PatternRows(rows, d)}
    BY <1>4, <2>3, <2>4 DEF Synced
  <2> QED  BY <2>5, <2>6
<1>25. Scanned(my, d)
  <2>1. 0 < version[d]
    BY <1>10, <1>11, BoundsAreInt
  <2>2. \A r \in PatternRows(my.rows, d) \cup PatternRows(rows, d) : Id(r) \in my.wrote
    BY <1>5, <1>17, <1>21, <1>22
  <2> QED  BY <1>22, <1>23, <1>24, <2>1, <2>2 DEF Scanned
<1>26. \A e \in Documents \cap my.wrote : Scanned(my, e)
  BY <1>8, <1>17, <1>18, <1>19, <1>25, ScannedKept DEF SessionInv
<1>27. SessionInv(my)
  BY <1>17, <1>20, <1>26 DEF SessionInv
<1>28. cached' \in [Documents -> Versions]
  BY <1>1, <1>10 DEF ScanPatterns, SourceOf, ScanInv, TypeOK
<1> QED  BY <1>7, <1>17, <1>27, <1>28, OwnStep DEF ScanPatterns, ScanInv, TypeOK

LEMMA SkipStep == ASSUME ScanInv, NEW s \in Sessions, NEW d \in Documents, SkipSemantic(s, d) PROVE ScanInv'
<1>1. PICK my : my = [session[s] EXCEPT !.todo = @ \ {d}]
  OBVIOUS
<1>2. session[s] \in Session /\ SessionInv(session[s])
  BY DEF ScanInv, TypeOK
<1>3. /\ my \in Session /\ my.kind = session[s].kind /\ my.version = session[s].version
      /\ my.stale = session[s].stale /\ my.todo = session[s].todo \ {d}
      /\ my.rows = session[s].rows /\ my.wrote = session[s].wrote
  BY <1>1, <1>2 DEF Session
<1>4. Locking(my)
  BY <1>2, <1>3 DEF SessionInv, Locking
<1>5. Viewing(my)
  BY <1>2, <1>3 DEF SessionInv, Viewing
<1>6. SessionInv(my)
  BY <1>2, <1>3, <1>4, <1>5, ScannedKept DEF SessionInv
<1>7. \A t \in Sessions \ {s} : my.wrote \cap session[t].wrote = {}
  BY <1>3 DEF ScanInv, LocksApart
<1>8. session' = [session EXCEPT ![s] = my]
  BY <1>1 DEF SkipSemantic
<1> QED  BY <1>3, <1>6, <1>7, <1>8, OwnStep DEF SkipSemantic, ScanInv, TypeOK

LEMMA LoseSteps ==
    ASSUME ScanInv, NEW s \in Sessions, NEW d \in Documents, LosePatterns(s, d) \/ Conflict(s, d)
    PROVE  ScanInv'
<1>1. session[s] \in Session
  BY DEF ScanInv, TypeOK
<1>2. cached' \in [Documents -> Versions]
  BY <1>1, SessionFields DEF LosePatterns, Conflict, ScanInv, TypeOK
<1>3. CASE LosePatterns(s, d)
  BY <1>2, <1>3, ReopenStep DEF LosePatterns
<1>4. CASE Conflict(s, d)
  BY <1>2, <1>4, ReopenStep DEF Conflict
<1> QED  BY <1>3, <1>4

(* Texts that rows quote stay.                                                *)
TextsStay == \A d \in Documents : /\ version[d] <= version'[d]
                                  /\ \A v \in 1 .. version[d] : texts'[d][v] = texts[d][v]

LEMMA QuotedStays ==
    ASSUME TypeOK, TypeOK', TextsStay, NEW S \in SUBSET Row, Quoted(S)
    PROVE  Quoted(S)'
<1> SUFFICES ASSUME NEW r \in S PROVE (r.source <= version[r.doc] /\ Grounded(r.key, TextOf(r.doc, r.source)))'
  BY DEF Quoted
<1>1. r.doc \in Documents /\ r.source \in Nat /\ version[r.doc] \in Nat /\ version'[r.doc] \in Nat
  BY BoundsAreInt DEF Row, TypeOK
<1>2. r.source <= version[r.doc] /\ Grounded(r.key, TextOf(r.doc, r.source))
  BY DEF Quoted
<1>3. r.source <= version'[r.doc]
  BY <1>1, <1>2 DEF TextsStay
<1>4. TextOf(r.doc, r.source)' = TextOf(r.doc, r.source)
  BY <1>1, <1>2 DEF TextOf, TextsStay
<1> QED  BY <1>2, <1>3, <1>4 DEF Grounded

LEMMA CompleteStays ==
    ASSUME TypeOK, TextsStay, NEW S, NEW d \in Documents, version'[d] = version[d], Complete(S, d)
    PROVE  Complete(S, d)'
<1>1. version[d] \in Nat
  BY BoundsAreInt DEF TypeOK
<1>2. TextOf(d, version[d])' = TextOf(d, version[d])
  BY <1>1 DEF TextOf, TextsStay
<1> QED  BY <1>2 DEF Complete, Extracted, PatternRows, RowsOf

(* What a commit does to the documents it does not change.                    *)
Spares(changed) ==
    \A d \in Documents \ changed :
        /\ version'[d] = version[d] /\ state'[d] = state[d]
        /\ PatternRows(rows', d) = PatternRows(rows, d)

(* A transaction that another one commits beside.                             *)
LEMMA OutdatedInv ==
    ASSUME TypeOK, TypeOK', TextsStay, NEW changed \in SUBSET (Ids \cup Documents), Spares(changed),
           NEW old \in Session, SessionInv(old), old.wrote \cap changed = {},
           \A d \in Documents \cap old.wrote : marker'[d] = marker[d],
           NEW new, new = IF old.kind = "idle" THEN old ELSE [old EXCEPT !.stale = @ \cup changed]
    PROVE  SessionInv(new)' /\ new \in Session /\ new.wrote = old.wrote
<1>1. /\ new \in Session /\ new.kind = old.kind /\ new.todo = old.todo /\ new.version = old.version
      /\ new.rows = old.rows /\ new.wrote = old.wrote
      /\ new.stale = IF old.kind = "idle" THEN old.stale ELSE old.stale \cup changed
  BY DEF Session
<1>2. Locking(new)'
  BY <1>1 DEF Locking, SessionInv
<1>3. Viewing(new)'
  <2>1. Quoted(new.rows)'
    BY <1>1, QuotedStays, SessionFields DEF SessionInv, Viewing
  <2>2. \A d \in Documents : new.version[d] <= version'[d]
    <3> TAKE d \in Documents
    <3>1. new.version[d] \in Nat /\ version[d] \in Nat /\ version'[d] \in Nat
      BY <1>1, SessionFields, BoundsAreInt DEF TypeOK
    <3>2. new.version[d] <= version[d] /\ version[d] <= version'[d]
      BY <1>1 DEF SessionInv, Viewing, TextsStay
    <3> QED  BY <3>1, <3>2
  <2>3. new.kind # "idle" => \A d \in Documents \ new.stale :
          /\ new.version[d] = version'[d]
          /\ d \notin new.wrote => PatternRows(new.rows, d) = PatternRows(rows', d)
    BY <1>1 DEF SessionInv, Viewing, Spares
  <2>4. \A d \in new.todo : new.version[d] # 0
    BY <1>1 DEF SessionInv, Viewing
  <2>5. \A d \in new.todo \ new.stale : state'[d] # "Deleted"
    <3> SUFFICES ASSUME NEW d \in new.todo \ new.stale PROVE state'[d] # "Deleted"
      OBVIOUS
    <3>1. new.kind # "idle" /\ d \in Documents \ changed /\ state[d] # "Deleted"
      BY <1>1, SessionFields DEF SessionInv, Locking, Viewing
    <3> QED  BY <3>1 DEF Spares
  <2> QED  BY <2>1, <2>2, <2>3, <2>4, <2>5 DEF Viewing, PatternRows, RowsOf
<1>4. \A d \in Documents \cap new.wrote : Scanned(new, d)'
  <2> SUFFICES ASSUME NEW d \in Documents \cap new.wrote PROVE Scanned(new, d)'
    OBVIOUS
  <2>1. Scanned(old, d)
    BY <1>1 DEF SessionInv
  <2>2. version'[d] = version[d] /\ PatternRows(rows', d) = PatternRows(rows, d) /\ marker'[d] = marker[d]
    BY <1>1 DEF Spares
  <2>3. Complete(new.rows, d)'
    BY <1>1, <2>1, <2>2, CompleteStays DEF Scanned
  <2>4. PatternRows(new.rows, d)' = PatternRows(new.rows, d) /\ PatternRows(rows, d)' = PatternRows(rows', d)
    BY DEF PatternRows, RowsOf
  <2> QED  BY <1>1, <2>1, <2>2, <2>3, <2>4 DEF Scanned
<1> QED  BY <1>1, <1>2, <1>3, <1>4 DEF SessionInv

(* A commit: what it leaves of the database, and of the transactions.         *)
LEMMA CommitStep ==
    ASSUME ScanInv, NEW but \in SUBSET Sessions, NEW changed \in SUBSET (Ids \cup Documents),
           TextsStay, Spares(changed),
           session' = [t \in Sessions |-> IF t \in but THEN Closed ELSE Outdate(but, changed)[t]],
           \A t \in Sessions \ but : /\ session[t].wrote \cap changed = {}
                                     /\ \A d \in Documents \cap session[t].wrote : marker'[d] = marker[d],
           texts' \in [Documents -> [1..MaxVersions -> SUBSET Keys]],
           version' \in [Documents -> Versions], state' \in [Documents -> States],
           marker' \in [Documents -> Versions], cached' = cached, rows' \subseteq Row,
           requests' \in 0..MaxRequests,
           Quoted(rows)', MarkedIsComplete', Unique(rows)', \A d \in Documents : marker'[d] <= version'[d]
    PROVE  ScanInv'
<1> DEFINE New(t) == IF session[t].kind = "idle" THEN session[t] ELSE [session[t] EXCEPT !.stale = @ \cup changed]
<1>1. \A t \in Sessions : session'[t] = IF t \in but THEN Closed ELSE New(t)
  BY DEF Outdate
<1>2. \A t \in Sessions : session[t] \in Session /\ SessionInv(session[t])
  BY DEF ScanInv, TypeOK
<1>3. \A t \in Sessions : New(t) \in Session
  <2> TAKE t \in Sessions
  <2> QED  BY <1>2, ZenonT(30) DEF Session
<1>4. TypeOK'
  BY <1>1, <1>3, ClosedFields, ZenonT(30) DEF ScanInv, TypeOK
<1>5. \A t \in Sessions : SessionInv(session[t])' /\ session'[t].wrote = IF t \in but THEN {} ELSE session[t].wrote
  <2> SUFFICES ASSUME NEW t \in Sessions
               PROVE  SessionInv(session[t])' /\ session'[t].wrote = IF t \in but THEN {} ELSE session[t].wrote
    OBVIOUS
  <2>1. PICK new : new = session'[t]
    OBVIOUS
  <2>2. CASE t \in but
    <3>1. new = Closed /\ Closed.wrote = {}
      BY <1>1, <2>1, <2>2, ClosedFields
    <3>2. SessionInv(Closed)'
      <4>1. \A d \in Documents : version'[d] \in Nat
        BY BoundsAreInt DEF ScanInv, TypeOK
      <4>2. Locking(Closed)'
        BY ClosedFields DEF Locking, Closed
      <4>3. Viewing(Closed)'
        BY <4>1, ClosedFields DEF Viewing, Quoted, Closed
      <4> QED  BY <4>2, <4>3, ClosedFields DEF SessionInv, Closed
    <3> QED  BY <2>1, <2>2, <3>1, <3>2 DEF SessionInv, Locking, Viewing, Scanned, Closed
  <2>3. CASE t \notin but
    <3>1. PICK old : old = session[t]
      OBVIOUS
    <3>2. new = IF old.kind = "idle" THEN old ELSE [old EXCEPT !.stale = @ \cup changed]
      BY <1>1, <2>1, <2>3, <3>1
    <3>3. old \in Session /\ SessionInv(old) /\ old.wrote \cap changed = {}
          /\ \A d \in Documents \cap old.wrote : marker'[d] = marker[d]
      BY <1>2, <2>3, <3>1
    <3>4. SessionInv(new)' /\ new.wrote = old.wrote
      BY <1>4, <3>2, <3>3, OutdatedInv, SMTT(30) DEF ScanInv
    <3> QED  BY <2>1, <2>3, <3>1, <3>4 DEF SessionInv, Locking, Viewing, Scanned
  <2> QED  BY <2>2, <2>3
<1>6. LocksApart'
  BY <1>5 DEF ScanInv, LocksApart
<1> QED  BY <1>4, <1>5, <1>6 DEF ScanInv

LEMMA CommitSessionStep == ASSUME ScanInv, NEW s \in Sessions, Commit(s) PROVE ScanInv'
<1>1. PICK my : my = session[s]
  OBVIOUS
<1>2. PICK mine : mine = {i \in my.wrote : i \notin Documents}
  OBVIOUS
<1>3. PICK marked : marked = my.wrote \cap Documents
  OBVIOUS
<1>4. PICK changed : changed = mine \cup {d \in marked : marker[d] # my.version[d]}
  OBVIOUS
<1>5. /\ my.kind # "idle"
      /\ rows' = {r \in rows : Id(r) \notin mine} \cup {r \in my.rows : Id(r) \in mine}
      /\ marker' = [d \in Documents |-> IF d \in marked THEN my.version[d] ELSE marker[d]]
      /\ session' = [Outdate({s}, changed) EXCEPT ![s] = Closed]
      /\ UNCHANGED <<texts, version, state, cached, requests>>
  BY <1>1, <1>2, <1>3, <1>4 DEF Commit
<1>6. my \in Session /\ SessionInv(my)
  BY <1>1 DEF ScanInv, TypeOK
<1>7. mine \subseteq Ids /\ mine = my.wrote \cap Ids /\ marked \subseteq Documents
  BY <1>2, <1>3, <1>6, EntityScanAssumption, SessionFields
<1>8. \A d \in marked : /\ Scanned(my, d) /\ my.version[d] = version[d]
  BY <1>3, <1>5, <1>6 DEF SessionInv, Locking, Viewing
<1>9. \A d \in marked : PatternRows(rows', d) = PatternRows(my.rows, d)
  <2> TAKE d \in marked
  <2>1. \A r \in PatternRows(my.rows, d) \cup PatternRows(rows, d) : Id(r) \in mine
    <3>1. \A r \in Row : Id(r) \in Ids
      BY DEF Id, Ids, Row
    <3>2. \A r \in PatternRows(my.rows, d) \cup PatternRows(rows, d) : r \in Row
      BY <1>6, SessionFields DEF ScanInv, TypeOK, PatternRows, RowsOf
    <3> QED  BY <1>7, <1>8, <3>1, <3>2 DEF Scanned
  <2> QED  BY <1>5, <2>1 DEF PatternRows, RowsOf
<1>10. \A d \in Documents \ marked : PatternRows(rows', d) = PatternRows(rows, d)
  <2> TAKE d \in Documents \ marked
  <2>1. \A i \in mine : i.key \in Patterns => i.doc \in marked
    BY <1>3, <1>6, <1>7 DEF SessionInv, Locking, Ids
  <2>2. \A r \in rows \cup my.rows : r.doc = d /\ r.key \in Patterns => Id(r) \notin mine
    <3> SUFFICES ASSUME NEW r \in rows \cup my.rows, r.doc = d, r.key \in Patterns, Id(r) \in mine PROVE FALSE
      OBVIOUS
    <3>1. Id(r).doc = d /\ Id(r).key \in Patterns
      BY DEF Id
    <3> QED  BY <2>1, <3>1
  <2> QED  BY <1>5, <2>2 DEF PatternRows, RowsOf
<1>11. TextsStay
  <2>1. \A d \in Documents : version[d] \in Nat
    BY BoundsAreInt DEF ScanInv, TypeOK
  <2> QED  BY <1>5, <2>1 DEF TextsStay
<1>12. changed \in SUBSET (Ids \cup Documents)
  BY <1>4, <1>7
<1>13. Spares(changed)
  <2> SUFFICES ASSUME NEW d \in Documents \ changed PROVE PatternRows(rows', d) = PatternRows(rows, d)
    BY <1>5 DEF Spares
  <2>1. CASE d \in marked
    BY <1>4, <1>8, <1>9, <2>1 DEF Scanned
  <2> QED  BY <1>10, <2>1
<1>14. session' = [t \in Sessions |-> IF t \in {s} THEN Closed ELSE Outdate({s}, changed)[t]]
  BY <1>5 DEF Outdate
<1>15. \A t \in Sessions \ {s} : /\ session[t].wrote \cap changed = {}
                                 /\ \A d \in Documents \cap session[t].wrote : marker'[d] = marker[d]
  <2> TAKE t \in Sessions \ {s}
  <2>1. session[t].wrote \cap my.wrote = {}
    BY <1>1 DEF ScanInv, LocksApart
  <2>2. changed \subseteq my.wrote
    BY <1>2, <1>3, <1>4
  <2> QED  BY <1>3, <1>5, <2>1, <2>2
<1>16. \A d \in Documents : marker'[d] = IF d \in marked THEN version[d] ELSE marker[d]
  BY <1>5, <1>8
<1>17. marker' \in [Documents -> Versions] /\ \A d \in Documents : marker'[d] <= version'[d]
  <2>1. \A d \in Documents : version[d] \in Nat
    BY BoundsAreInt DEF ScanInv, TypeOK
  <2>2. \A d \in Documents : marker'[d] <= version[d]
    BY <1>16, <2>1 DEF ScanInv
  <2>3. \A d \in Documents : marker'[d] \in Versions
    BY <1>16 DEF ScanInv, TypeOK
  <2> QED  BY <1>5, <2>2, <2>3
<1>18. rows' \subseteq Row
  BY <1>5, <1>6, SessionFields DEF ScanInv, TypeOK
<1>19. Quoted(rows)'
  BY <1>6, <1>5 DEF ScanInv, SessionInv, Viewing, Quoted, Grounded, TextOf
<1>20. \A d \in marked : Complete(rows', d)
  BY <1>8, <1>9 DEF Scanned, Complete
<1>21. MarkedIsComplete'
  <2> SUFFICES ASSUME NEW d \in Present, marker'[d] # 0, marker'[d] = version[d] PROVE Complete(rows', d)
    BY <1>5 DEF MarkedIsComplete, Complete, PatternRows, Present, TextOf, RowsOf, Extracted
  <2>1. CASE d \in marked
    BY <2>1, <1>20
  <2>2. CASE d \notin marked
    BY <2>2, <1>16, <1>10 DEF ScanInv, MarkedIsComplete, Complete, PatternRows, Present
  <2> QED  BY <2>1, <2>2
<1>22. Unique(rows)'
  <2> SUFFICES ASSUME NEW d \in Documents PROVE \A r, q \in PatternRows(rows', d) : r.key = q.key => r = q
    BY DEF Unique, PatternRows, RowsOf
  <2>1. CASE d \in marked
    BY <2>1, <1>20 DEF Complete
  <2>2. CASE d \notin marked
    BY <2>2, <1>10 DEF ScanInv, Unique
  <2> QED  BY <2>1, <2>2
<1>23. /\ texts' \in [Documents -> [1..MaxVersions -> SUBSET Keys]]
       /\ version' \in [Documents -> Versions] /\ state' \in [Documents -> States]
       /\ requests' \in 0..MaxRequests /\ cached' = cached
  BY <1>5 DEF ScanInv, TypeOK
<1>24. {s} \in SUBSET Sessions
  OBVIOUS
<1> QED  BY <1>11, <1>12, <1>13, <1>14, <1>15, <1>17, <1>18, <1>19, <1>21, <1>22, <1>23, <1>24, CommitStep

LEMMA ProcessStep == ASSUME ScanInv, NEW d \in Documents, Process(d) PROVE ScanInv'
<1>1. /\ version' = [version EXCEPT ![d] = @ + 1] /\ version[d] < MaxVersions
      /\ \A t \in Sessions : d \notin session[t].wrote
      /\ session' = Outdate({}, {d})
      /\ UNCHANGED <<marker, cached, rows, requests>>
  BY DEF Process
<1>2. PICK text \in Texts : texts' = [texts EXCEPT ![d][version[d] + 1] = text]
  BY DEF Process
<1>3. \A e \in Documents : version[e] \in Nat /\ version[e] <= MaxVersions
  BY BoundsAreInt DEF ScanInv, TypeOK, Versions
<1>4. TextsStay
  BY <1>1, <1>2, <1>3, BoundsAreInt DEF ScanInv, TypeOK, TextsStay
<1>5. Spares({d})
  BY <1>1 DEF Spares, Process, ScanInv, TypeOK
<1>6. session' = [t \in Sessions |-> IF t \in {} THEN Closed ELSE Outdate({}, {d})[t]]
  BY <1>1 DEF Outdate
<1>7. \A t \in Sessions \ {} : /\ session[t].wrote \cap {d} = {}
                               /\ \A e \in Documents \cap session[t].wrote : marker'[e] = marker[e]
  BY <1>1
<1>8. texts' \in [Documents -> [1..MaxVersions -> SUBSET Keys]]
  BY <1>1, <1>3, EntityScanAssumption, <1>2 DEF ScanInv, TypeOK
<1>9. version' \in [Documents -> Versions]
  BY <1>1, <1>3, BoundsAreInt DEF Versions, ScanInv, TypeOK
<1>10. state' \in [Documents -> States]
  BY DEF Process, States, ScanInv, TypeOK
<1>11. Quoted(rows)'
  <2>1. \A e \in Documents : version'[e] \in Nat /\ version[e] <= version'[e]
    BY <1>4, <1>9, BoundsAreInt DEF TextsStay
  <2>2. \A r \in rows : r.source <= version'[r.doc] /\ TextOf(r.doc, r.source)' = TextOf(r.doc, r.source)
    <3> TAKE r \in rows
    <3>1. r.doc \in Documents /\ r.source \in Nat /\ r.source <= version[r.doc]
      BY BoundsAreInt DEF ScanInv, TypeOK, Row, Quoted
    <3> QED  BY <3>1, <2>1, <1>3, <1>4 DEF TextsStay, TextOf
  <2> QED  BY <2>2, <1>1 DEF ScanInv, Quoted, Grounded
<1>12. \A e \in Documents : marker'[e] <= version'[e] /\ (e = d => marker'[e] # version'[e])
  <2> TAKE e \in Documents
  <2>1. marker[e] \in Nat /\ version[e] \in Nat /\ marker[e] <= version[e] /\ marker' = marker
    BY <1>1, <1>3, BoundsAreInt DEF ScanInv, TypeOK
  <2>2. version'[e] = IF e = d THEN version[e] + 1 ELSE version[e]
    BY <1>1 DEF ScanInv, TypeOK
  <2> QED  BY <2>1, <2>2
<1>13. MarkedIsComplete'
  <2> SUFFICES ASSUME NEW e \in Present', marker'[e] # 0, marker'[e] = version'[e] PROVE Complete(rows, e)'
    BY DEF MarkedIsComplete, Complete, PatternRows
  <2>1. e # d /\ e \in Documents
    BY <1>12 DEF Present
  <2>2. version'[e] = version[e] /\ marker'[e] = marker[e] /\ e \in Present
    BY <1>1, <2>1 DEF Process, Present, ScanInv, TypeOK
  <2>3. Complete(rows, e)
    BY <2>2 DEF ScanInv, MarkedIsComplete, Complete, PatternRows
  <2>4. PICK S : S = rows
    OBVIOUS
  <2>5. Complete(S, e)'
    BY <1>4, <2>1, <2>2, <2>3, <2>4, CompleteStays DEF ScanInv
  <2> QED  BY <1>1, <2>4, <2>5 DEF Complete
<1>14. Unique(rows)'
  BY <1>1 DEF ScanInv, Unique, PatternRows, RowsOf
<1>15. /\ marker' \in [Documents -> Versions] /\ rows' \subseteq Row
       /\ requests' \in 0..MaxRequests /\ cached' = cached
  BY <1>1 DEF ScanInv, TypeOK
<1>16. {} \in SUBSET Sessions /\ {d} \in SUBSET (Ids \cup Documents)
  OBVIOUS
<1> QED  BY <1>4, <1>5, <1>6, <1>7, <1>8, <1>9, <1>10, <1>11, <1>12, <1>13, <1>14, <1>15, <1>16, CommitStep

LEMMA TouchStep == ASSUME ScanInv, NEW d \in Documents, Touch(d) PROVE ScanInv'
<1>1. /\ \A t \in Sessions : d \notin session[t].wrote
      /\ session' = Outdate({}, {d}) /\ requests' = requests + 1 /\ requests < MaxRequests
      /\ UNCHANGED <<texts, version, state, marker, cached, rows>>
  BY DEF Touch
<1>2. TextsStay
  <2>1. \A e \in Documents : version[e] \in Nat
    BY BoundsAreInt DEF ScanInv, TypeOK
  <2> QED  BY <1>1, <2>1 DEF TextsStay
<1>3. Spares({d})
  BY <1>1 DEF Spares
<1>4. session' = [t \in Sessions |-> IF t \in {} THEN Closed ELSE Outdate({}, {d})[t]]
  BY <1>1 DEF Outdate
<1>5. \A t \in Sessions \ {} : /\ session[t].wrote \cap {d} = {}
                               /\ \A e \in Documents \cap session[t].wrote : marker'[e] = marker[e]
  BY <1>1
<1>6. Quoted(rows)' /\ MarkedIsComplete' /\ Unique(rows)' /\ \A e \in Documents : marker'[e] <= version'[e]
  BY <1>1 DEF ScanInv, Quoted, MarkedIsComplete, Unique, Present, Grounded, TextOf, PatternRows, RowsOf, Extracted
<1>7. requests' \in 0..MaxRequests
  BY <1>1, BoundsAreInt DEF ScanInv, TypeOK
<1>8. /\ texts' \in [Documents -> [1..MaxVersions -> SUBSET Keys]] /\ version' \in [Documents -> Versions]
      /\ state' \in [Documents -> States] /\ marker' \in [Documents -> Versions] /\ rows' \subseteq Row
      /\ cached' = cached
  BY <1>1 DEF ScanInv, TypeOK
<1>9. {} \in SUBSET Sessions /\ {d} \in SUBSET (Ids \cup Documents)
  OBVIOUS
<1> QED  BY <1>2, <1>3, <1>4, <1>5, <1>6, <1>7, <1>8, <1>9, CommitStep

LEMMA TrashStep == ASSUME ScanInv, NEW d \in Documents, Trash(d) PROVE ScanInv'
<1>1. PICK own : own = {Id(r) : r \in RowsOf(rows, d)}
  OBVIOUS
<1>2. /\ \A t \in Sessions : \A x \in session[t].wrote : x # d /\ ~(x \in Ids /\ x.doc = d)
      /\ state' = [state EXCEPT ![d] = "Deleted"] /\ rows' = rows \ RowsOf(rows, d)
      /\ session' = Outdate({}, own \cup {d})
      /\ UNCHANGED <<texts, version, marker, cached, requests>>
  BY <1>1 DEF Trash
<1>3. PICK changed : changed = own \cup {d}
  OBVIOUS
<1>4. own \subseteq Ids /\ \A i \in own : i.doc = d
  BY <1>1 DEF RowsOf, ScanInv, TypeOK, Id, Ids, Row
<1>5. TextsStay
  BY BoundsAreInt, <1>2 DEF ScanInv, TypeOK, TextsStay
<1>6. \A e \in Documents \ {d} : PatternRows(rows', e) = PatternRows(rows, e) /\ state'[e] = state[e]
  BY <1>2 DEF PatternRows, RowsOf, ScanInv, TypeOK
<1>7. Spares(changed)
  BY <1>2, <1>3, <1>6 DEF Spares
<1>8. session' = [t \in Sessions |-> IF t \in {} THEN Closed ELSE Outdate({}, changed)[t]]
  BY <1>2, <1>3 DEF Outdate
<1>9. \A t \in Sessions \ {} : /\ session[t].wrote \cap changed = {}
                               /\ \A e \in Documents \cap session[t].wrote : marker'[e] = marker[e]
  BY <1>2, <1>3, <1>4
<1>10. Quoted(rows)' /\ \A e \in Documents : marker'[e] <= version'[e]
  BY <1>2 DEF ScanInv, Quoted, Grounded, TextOf
<1>11. Present' = Present \ {d}
  BY <1>2 DEF Present, ScanInv, TypeOK
<1>12. MarkedIsComplete'
  <2> SUFFICES ASSUME NEW e \in Present', marker'[e] # 0, marker'[e] = version'[e] PROVE Complete(rows, e)'
    BY DEF MarkedIsComplete, Complete, PatternRows
  <2>1. e \in Present /\ e # d /\ e \in Documents
    BY <1>11 DEF Present
  <2>2. Complete(rows, e)
    BY <1>2, <2>1 DEF ScanInv, MarkedIsComplete, Complete, PatternRows
  <2>3. PatternRows(rows', e) = PatternRows(rows, e) /\ PatternRows(rows, e)' = PatternRows(rows', e)
    BY <1>6, <2>1 DEF PatternRows, RowsOf
  <2> QED  BY <1>2, <2>2, <2>3 DEF Complete, TextOf, Extracted
<1>13. Unique(rows)'
  BY <1>2 DEF ScanInv, Unique, PatternRows, RowsOf
<1>14. /\ texts' \in [Documents -> [1..MaxVersions -> SUBSET Keys]] /\ version' \in [Documents -> Versions]
       /\ state' \in [Documents -> States] /\ marker' \in [Documents -> Versions] /\ rows' \subseteq Row
       /\ cached' = cached /\ requests' \in 0..MaxRequests
  BY <1>2 DEF ScanInv, TypeOK, States
<1>15. {} \in SUBSET Sessions /\ changed \in SUBSET (Ids \cup Documents)
  BY <1>3, <1>4
<1> QED  BY <1>5, <1>7, <1>8, <1>9, <1>10, <1>12, <1>13, <1>14, <1>15, CommitStep

LEMMA UnchangedStep ==
    ASSUME ScanInv, UNCHANGED <<texts, version, state, marker, rows, session, requests>>,
           cached' \in [Documents -> Versions]
    PROVE  ScanInv'
<1>1. TypeOK' /\ LocksApart'
  BY DEF ScanInv, TypeOK, LocksApart
<1>2. Quoted(rows)' /\ MarkedIsComplete' /\ Unique(rows)' /\ \A e \in Documents : marker'[e] <= version'[e]
  BY DEF ScanInv, Quoted, MarkedIsComplete, Unique, Present, Grounded, TextOf, PatternRows, RowsOf, Extracted
<1>3. \A t \in Sessions : SessionInv(session[t])'
  BY DEF ScanInv, SessionInv, Locking, Viewing, Scanned, Quoted, Complete, Grounded, TextOf, PatternRows, RowsOf,
     Extracted, Id
<1> QED  BY <1>1, <1>2, <1>3 DEF ScanInv

LEMMA ExpireStep == ASSUME ScanInv, NEW d \in Documents, Expire(d) PROVE ScanInv'
<1>1. cached' \in [Documents -> Versions]
  BY BoundsAreInt DEF Expire, ScanInv, TypeOK
<1> QED  BY <1>1, UnchangedStep DEF Expire

LEMMA ScanInit == Init => ScanInv
<1> SUFFICES ASSUME Init PROVE ScanInv
  OBVIOUS
<1>1. TypeOK
  BY BoundsAreInt, ClosedFields DEF Init, TypeOK, States
<1>2. \A s \in Sessions : session[s] = Closed
  BY DEF Init
<1>3. \A s \in Sessions : SessionInv(session[s])
  BY <1>1, <1>2, ClosedInv
<1>4. LocksApart
  BY <1>2, ClosedFields DEF LocksApart
<1>5. Quoted(rows) /\ Unique(rows)
  BY DEF Init, Quoted, Unique, PatternRows, RowsOf
<1>6. \A d \in Documents : marker[d] = 0 /\ version[d] = 0
  BY DEF Init
<1>7. MarkedIsComplete /\ \A d \in Documents : marker[d] <= version[d]
  BY <1>6 DEF MarkedIsComplete, Present
<1> QED  BY <1>1, <1>3, <1>4, <1>5, <1>7 DEF ScanInv

LEMMA ScanNext == ScanInv /\ [Next]_vars => ScanInv'
<1> SUFFICES ASSUME ScanInv, [Next]_vars PROVE ScanInv'
  OBVIOUS
<1>1. CASE OpenPatternTick \/ OpenSemanticTick
              \/ \E u \in Users, kind \in Kinds, d \in Documents : OpenRequest(u, kind, d)
  BY <1>1, OpenSteps
<1>2. ASSUME NEW s \in Sessions, Scan(s) \/ Commit(s) \/ Abort(s)
      PROVE  ScanInv'
  BY <1>2, ScanPatternsStep, ScanSemanticStep, SkipStep, LoseSteps, CommitSessionStep, AbortStep DEF Scan
<1>3. ASSUME NEW d \in Documents, Process(d) \/ Touch(d) \/ Trash(d) \/ Expire(d)
      PROVE  ScanInv'
  BY <1>3, ProcessStep, TouchStep, TrashStep, ExpireStep
<1>4. CASE UNCHANGED vars
  BY <1>4, UnchangedStep DEF vars, ScanInv, TypeOK
<1> QED  BY <1>1, <1>2, <1>3, <1>4 DEF Next

-----------------------------------------------------------------------------
(* ProviderHealth: the inductive invariant.  A count of failed checks is the  *)
(* number of checks that failed, and tells the status.                        *)
Counted(row) == row.failures = row.failed /\ (row.failed >= Threshold => row.status = "Offline")

\* A job that runs has a view and locks only rows that nobody changed since.
Opened(x) ==
    /\ x.pc = "idle" => x.wrote = {} /\ x.todo = {}
    /\ x.pc # "idle" => x.view \in H!View
    /\ x.pc = "write" => x.on \in Providers
    /\ x.wrote \subseteq x.fresh

\* Providers as a job sees them: counted, and as committed until it checks them.
Seen(x) ==
    x.pc # "idle" => \A p \in Providers \cap x.fresh :
        /\ Counted(x.view.provider[p])
        /\ p \notin x.wrote \/ p \in x.todo => x.view.provider[p].failed = provider[p].failed

\* Models as a job sees them: as committed, or by a list of its own that is
\* later than the one that the committed record goes back to.
Listed(x) ==
    /\ x.list <= lists
    /\ x.pc # "idle" => \A r \in H!Records :
        /\ r \in x.fresh \ x.wrote => x.view.model[r] = model[r]
        /\ r \in x.wrote /\ model[r] # None => x.view.model[r] # None /\ model[r].by <= x.view.model[r].by
        /\ x.view.model[r] # None => /\ x.view.model[r].by <= lists
                                     /\ x.pc = "write" => x.view.model[r].by <= x.list

\* What a tick is about to check was due when it began.
Owed(x) ==
    /\ x.wrote \subseteq Providers
    /\ \A p \in (x.todo \cup x.wrote) \cap x.fresh : x.at - provider[p].checked >= Interval

JobInv(j) == Opened(job[j]) /\ Seen(job[j]) /\ Listed(job[j]) /\ (j \in Ticks => Owed(job[j]))

Apart == \A j, k \in H!Jobs : j # k => job[j].wrote \cap job[k].wrote = {}

HealthInv ==
    /\ H!TypeOK
    /\ H!FailuresCounted
    /\ \A r \in H!Records : model[r] # None => model[r].by <= lists
    /\ Apart
    /\ \A j \in H!Jobs : JobInv(j)

-----------------------------------------------------------------------------
JobRow ==
    [pc : {"idle", "claim", "check", "sync", "write"}, view : H!View \cup {None},
     fresh : SUBSET H!Rows, wrote : SUBSET H!Rows, todo : SUBSET Providers,
     at : Nat, on : Providers \cup {None}, listed : SUBSET Models, list : Nat]

LEMMA JobBounds ==
    /\ Ticks \cap Checkers = {} /\ Syncers \cap (Ticks \cup Checkers) = {}
    /\ Interval \in Nat \ {0} /\ Threshold \in Nat \ {0} /\ MaxTime \in Nat /\ MaxJobs \in Nat /\ MaxChanges \in Nat
    /\ None \notin H!ModelRow
  BY ServicesAssumption DEF H!JobsAssumption

LEMMA JobTypes ==
    H!TypeOK =>
        /\ provider \in [Providers -> H!ProviderRow] /\ model \in [H!Records -> H!ModelRow \cup {None}]
        /\ default \in H!Records \cup {None} /\ job \in [H!Jobs -> JobRow]
        /\ runtime \in [Providers -> SUBSET Models] /\ now \in Nat /\ begun \in Nat /\ changes \in Nat /\ lists \in Nat
  BY DEF H!TypeOK, JobRow

LEMMA JobFields ==
    ASSUME NEW x \in JobRow
    PROVE  /\ x.pc \in {"idle", "claim", "check", "sync", "write"} /\ x.view \in H!View \cup {None}
           /\ x.fresh \subseteq H!Rows /\ x.wrote \subseteq H!Rows /\ x.todo \subseteq Providers /\ x.at \in Nat
           /\ x.on \in Providers \cup {None} /\ x.listed \subseteq Models /\ x.list \in Nat
  BY DEF JobRow

LEMMA ViewFields ==
    ASSUME NEW v \in H!View
    PROVE  /\ v.provider \in [Providers -> H!ProviderRow]
           /\ v.model \in [H!Records -> H!ModelRow \cup {None}] /\ v.default \in H!Records \cup {None}
  BY DEF H!View

LEMMA RowFields ==
    /\ \A row \in H!ProviderRow : /\ row.failures \in Nat /\ row.failed \in Nat /\ row.checked \in Int
                                  /\ row.enabled \in BOOLEAN
    /\ \A row \in H!ModelRow : row.by \in Nat
  BY DEF H!ProviderRow, H!ModelRow

LEMMA IdleFields ==
    /\ H!Idle \in JobRow /\ H!Idle.pc = "idle" /\ H!Idle.wrote = {} /\ H!Idle.todo = {} /\ H!Idle.fresh = {}
    /\ H!Idle.list = 0
  BY DEF H!Idle, JobRow

(* What a step commits to rows that a job still relies on, and to the count   *)
(* of lists: nothing.                                                         *)
Leaves(gone) ==
    /\ lists' \in Nat /\ lists <= lists'
    /\ \A p \in Providers \ gone : provider'[p] = provider[p]
    /\ \A r \in H!Records \ gone : model'[r] = model[r]

(* A job beside which others commit what it has not locked.                   *)
LEMMA JobKept ==
    ASSUME H!TypeOK, NEW gone, Leaves(gone), NEW old \in JobRow, NEW new \in JobRow,
           Opened(old), Seen(old), Listed(old), old.wrote \cap gone = {},
           new.fresh = old.fresh \ gone,
           new.pc = old.pc, new.view = old.view, new.wrote = old.wrote, new.todo = old.todo, new.at = old.at,
           new.on = old.on, new.list = old.list
    PROVE  /\ Opened(new) /\ Seen(new)' /\ Listed(new)'
           /\ Owed(old) => Owed(new)'
<1>1. Opened(new)
  BY DEF Opened
<1>2. Seen(new)'
  <2> SUFFICES ASSUME new.pc # "idle", NEW p \in Providers \cap new.fresh
               PROVE  /\ Counted(new.view.provider[p])
                      /\ p \notin new.wrote \/ p \in new.todo => new.view.provider[p].failed = provider'[p].failed
    BY DEF Seen, Counted
  <2>1. p \in old.fresh /\ p \notin gone
    OBVIOUS
  <2> QED  BY <2>1 DEF Seen, Leaves
<1>3. Listed(new)'
  <2>1. new.list \in Nat /\ lists \in Nat /\ lists' \in Nat /\ lists <= lists'
    BY JobTypes, JobFields DEF Leaves
  <2>2. new.list <= lists'
    BY <2>1 DEF Listed
  <2> SUFFICES ASSUME new.pc # "idle", NEW r \in H!Records
               PROVE  /\ r \in new.fresh \ new.wrote => new.view.model[r] = model'[r]
                      /\ r \in new.wrote /\ model'[r] # None =>
                            new.view.model[r] # None /\ model'[r].by <= new.view.model[r].by
                      /\ new.view.model[r] # None => /\ new.view.model[r].by <= lists'
                                                     /\ new.pc = "write" => new.view.model[r].by <= new.list
    BY <2>2 DEF Listed
  <2>3. r \in new.fresh \cup new.wrote => r \notin gone
    BY DEF Opened
  <2>4. new.view.model[r] # None => new.view.model[r].by \in Nat
    BY ViewFields, RowFields DEF Opened
  <2> QED  BY <2>1, <2>3, <2>4 DEF Listed, Leaves
<1>4. Owed(old) => Owed(new)'
  BY JobFields DEF Owed, Leaves
<1> QED  BY <1>1, <1>2, <1>3, <1>4

LEMMA IdleInv == H!TypeOK' => Opened(H!Idle) /\ Seen(H!Idle)' /\ Listed(H!Idle)' /\ Owed(H!Idle)'
<1> SUFFICES ASSUME H!TypeOK' PROVE Opened(H!Idle) /\ Seen(H!Idle)' /\ Listed(H!Idle)' /\ Owed(H!Idle)'
  OBVIOUS
<1>1. lists' \in Nat
  BY DEF H!TypeOK
<1>2. Listed(H!Idle)'
  BY <1>1, IdleFields DEF Listed, H!Idle
<1>3. Seen(H!Idle)' /\ Owed(H!Idle)'
  BY IdleFields DEF Seen, Owed, H!Idle
<1> QED  BY <1>2, <1>3, IdleFields DEF Opened

(* A step of one job that commits nothing.                                    *)
LEMMA OneJobStep ==
    ASSUME HealthInv, NEW j \in H!Jobs, NEW new \in JobRow,
           job' = [job EXCEPT ![j] = new],
           UNCHANGED <<provider, model, default>>, runtime' \in [Providers -> SUBSET Models],
           now' \in Nat, begun' \in Nat, changes' \in Nat, lists' \in Nat, lists <= lists',
           \A k \in H!Jobs \ {j} : new.wrote \cap job[k].wrote = {},
           Opened(new), Seen(new), Listed(new)', j \in Ticks => Owed(new)
    PROVE  HealthInv'
<1>1. \A k \in H!Jobs : job'[k] = IF k = j THEN new ELSE job[k]
  BY JobTypes DEF HealthInv
<1>2. H!TypeOK'
  BY JobTypes DEF HealthInv, H!TypeOK, JobRow
<1>3. H!FailuresCounted'
  BY DEF HealthInv, H!FailuresCounted
<1>4. \A r \in H!Records : model'[r] # None => model'[r].by <= lists'
  <2> TAKE r \in H!Records
  <2>1. model[r] # None => model[r].by \in Nat
    BY JobTypes, RowFields DEF HealthInv
  <2> QED  BY <2>1, JobTypes DEF HealthInv
<1>5. Apart'
  BY <1>1 DEF HealthInv, Apart
<1>6. Leaves({})
  BY DEF Leaves
<1>7. \A k \in H!Jobs : JobInv(k)'
  <2> SUFFICES ASSUME NEW k \in H!Jobs PROVE JobInv(k)'
    OBVIOUS
  <2>1. CASE k = j
    BY <1>1, <2>1 DEF Opened, Seen, Counted, Owed, JobInv, Listed
  <2>2. CASE k # j
    <3>1. PICK x : x = job[k]
      OBVIOUS
    <3>2. x \in JobRow /\ Opened(x) /\ Seen(x) /\ Listed(x) /\ (k \in Ticks => Owed(x))
      BY <3>1, JobTypes DEF HealthInv, JobInv
    <3>3. Opened(x) /\ Seen(x)' /\ Listed(x)' /\ (Owed(x) => Owed(x)')
      BY <1>6, <3>2, JobKept DEF HealthInv
    <3>4. job'[k] = x
      BY <1>1, <2>2, <3>1
    <3> QED  BY <3>2, <3>3, <3>4 DEF JobInv, Opened, Seen, Listed, Owed
  <2> QED  BY <2>1, <2>2
<1> QED  BY <1>2, <1>3, <1>4, <1>5, <1>7 DEF HealthInv

(* A commit, by a job that ends or by a statement of its own.                 *)
LEMMA WritesStep ==
    ASSUME HealthInv, NEW gone, Leaves(gone), NEW ended \in SUBSET H!Jobs,
           \A k \in H!Jobs \ ended : job[k].wrote \cap gone = {},
           job' = [k \in H!Jobs |-> IF k \in ended THEN H!Idle ELSE [job[k] EXCEPT !.fresh = @ \ gone]],
           provider' \in [Providers -> H!ProviderRow], model' \in [H!Records -> H!ModelRow \cup {None}],
           default' \in H!Records \cup {None}, runtime' \in [Providers -> SUBSET Models],
           now' \in Nat, begun' \in Nat, changes' \in Nat,
           H!FailuresCounted', \A r \in H!Records : model'[r] # None => model'[r].by <= lists'
    PROVE  HealthInv'
<1>1. \A k \in H!Jobs : job'[k] = IF k \in ended THEN H!Idle ELSE [job[k] EXCEPT !.fresh = @ \ gone]
  OBVIOUS
<1>2. \A k \in H!Jobs \ ended :
        /\ job[k] \in JobRow /\ job'[k] \in JobRow /\ job'[k].fresh = job[k].fresh \ gone
        /\ job'[k].pc = job[k].pc /\ job'[k].view = job[k].view /\ job'[k].wrote = job[k].wrote
        /\ job'[k].todo = job[k].todo /\ job'[k].at = job[k].at /\ job'[k].on = job[k].on
        /\ job'[k].list = job[k].list
  <2> TAKE k \in H!Jobs \ ended
  <2>1. job[k] \in JobRow
    BY JobTypes DEF HealthInv
  <2> QED  BY <1>1, <2>1 DEF JobRow
<1>3. job' \in [H!Jobs -> JobRow]
  BY <1>1, <1>2, IdleFields
<1>4. H!TypeOK'
  BY <1>3 DEF H!TypeOK, JobRow, Leaves
<1>5. Apart'
  BY <1>1, <1>2, IdleFields DEF HealthInv, Apart
<1>6. \A k \in H!Jobs : JobInv(k)'
  <2> SUFFICES ASSUME NEW k \in H!Jobs PROVE JobInv(k)'
    OBVIOUS
  <2>1. PICK new : new = job'[k]
    OBVIOUS
  <2>2. Opened(new) /\ Seen(new)' /\ Listed(new)' /\ (k \in Ticks => Owed(new)')
    <3>1. CASE k \in ended
      BY <1>1, <1>4, <2>1, <3>1, IdleInv
    <3>2. CASE k \notin ended
      <4>1. PICK old : old = job[k]
        OBVIOUS
      <4>2. Opened(old) /\ Seen(old) /\ Listed(old) /\ (k \in Ticks => Owed(old))
        BY <4>1 DEF HealthInv, JobInv
      <4>3. /\ old \in JobRow /\ new \in JobRow /\ new.fresh = old.fresh \ gone /\ old.wrote \cap gone = {}
            /\ new.pc = old.pc /\ new.view = old.view /\ new.wrote = old.wrote /\ new.todo = old.todo
            /\ new.at = old.at /\ new.on = old.on /\ new.list = old.list
        BY <1>2, <2>1, <3>2, <4>1
      <4>4. H!TypeOK
        BY DEF HealthInv
      <4> HIDE DEF HealthInv
      <4> QED  BY <4>2, <4>3, <4>4, JobKept
    <3> QED  BY <3>1, <3>2
  <2> QED  BY <2>1, <2>2 DEF JobInv, Opened, Seen, Listed, Owed
<1> QED  BY <1>4, <1>5, <1>6 DEF HealthInv

LEMMA JobKnown ==
    ASSUME HealthInv, NEW j \in H!Jobs, NEW x, x = job[j]
    PROVE  /\ x \in JobRow /\ Opened(x) /\ Seen(x) /\ Listed(x) /\ (j \in Ticks => Owed(x))
           /\ \A k \in H!Jobs \ {j} : x.wrote \cap job[k].wrote = {}
           /\ x.pc # "idle" => x.view \in H!View
  BY JobTypes DEF HealthInv, JobInv, Apart, Opened

(* The committed rows as a view.                                              *)
LEMMA CommittedView ==
    ASSUME HealthInv
    PROVE  /\ H!Committed \in H!View
           /\ \A p \in Providers : Counted(H!Committed.provider[p]) /\ H!Committed.provider[p] = provider[p]
           /\ \A r \in H!Records : H!Committed.model[r] = model[r]
  BY JobTypes DEF HealthInv, H!Committed, H!View, H!FailuresCounted, Counted

LEMMA BeginStep ==
    ASSUME HealthInv, NEW j \in H!Jobs, NEW pc \in {"claim", "check", "sync"}, NEW todo \in SUBSET Providers,
           H!Begin(j, pc, todo),
           j \in Ticks => \A p \in todo : now - provider[p].checked >= Interval
    PROVE  HealthInv'
<1>1. PICK new : new = [H!Idle EXCEPT !.pc = pc, !.view = H!Committed, !.fresh = H!Rows, !.todo = todo, !.at = now]
  OBVIOUS
<1>2. /\ new.pc = pc /\ new.view = H!Committed /\ new.fresh = H!Rows /\ new.wrote = {} /\ new.todo = todo
      /\ new.at = now /\ new.on = None /\ new.listed = {} /\ new.list = 0 /\ new \in JobRow
  BY <1>1, JobTypes, CommittedView DEF H!Idle, JobRow, HealthInv
<1>3. Opened(new)
  BY <1>2, CommittedView DEF Opened
<1>4. Seen(new)
  BY <1>2, CommittedView DEF Seen
<1>5. Listed(new)'
  BY <1>2, CommittedView, JobTypes DEF H!Begin, Listed, HealthInv
<1>6. j \in Ticks => Owed(new)
  BY <1>2 DEF Owed
<1>7. job' = [job EXCEPT ![j] = new] /\ begun' \in Nat /\ lists <= lists'
  BY <1>1, JobTypes DEF H!Begin, HealthInv
<1> QED  BY <1>2, <1>3, <1>4, <1>5, <1>6, <1>7, OneJobStep, JobTypes, ZenonT(30) DEF H!Begin, HealthInv

LEMMA StartSteps ==
    ASSUME HealthInv, NEW j \in H!Jobs,
           \/ j \in Ticks /\ H!StartTick(j)
           \/ j \in Checkers /\ H!StartCheck(j)
           \/ j \in Syncers /\ H!StartSync(j)
    PROVE  HealthInv'
<1>1. CASE j \in Ticks /\ H!StartTick(j)
  <2>1. PICK todo : todo = {p \in Providers : H!Due(provider[p], now)}
    OBVIOUS
  <2>2. H!Begin(j, "claim", todo)
    BY <1>1, <2>1 DEF H!StartTick
  <2> QED  BY <2>1, <2>2, BeginStep DEF H!Due
<1>2. CASE j \in Checkers /\ H!StartCheck(j)
  <2>1. PICK todo : todo = {p \in Providers : provider[p].enabled}
    OBVIOUS
  <2>2. H!Begin(j, "check", todo)
    BY <1>2, <2>1 DEF H!StartCheck
  <2> QED  BY <1>2, <2>1, <2>2, JobBounds, BeginStep
<1>3. CASE j \in Syncers /\ H!StartSync(j)
  <2>1. PICK todo : todo = {p \in Providers : H!Reachable(provider[p])}
    OBVIOUS
  <2>2. H!Begin(j, "sync", todo)
    BY <1>3, <2>1 DEF H!StartSync
  <2> QED  BY <1>3, <2>1, <2>2, JobBounds, BeginStep
<1> QED  BY <1>1, <1>2, <1>3

LEMMA FailsStep == ASSUME HealthInv, NEW j \in H!Jobs, H!Fails(j) PROVE HealthInv'
<1>1. job' = [job EXCEPT ![j] = H!Idle] /\ UNCHANGED <<provider, model, default, runtime, now, begun, changes, lists>>
  BY DEF H!Fails, H!Abort
<1>2. Opened(H!Idle) /\ Seen(H!Idle) /\ Owed(H!Idle)
  BY IdleFields DEF Opened, Seen, Owed
<1>3. Listed(H!Idle)'
  BY <1>1, IdleFields, JobTypes DEF Listed, HealthInv, H!Idle
<1>4. lists <= lists' /\ lists' \in Nat
  BY <1>1, JobTypes DEF HealthInv
<1>5. PICK new : new = H!Idle
  OBVIOUS
<1>6. Listed(new)'
  BY <1>3, <1>5 DEF Listed, H!Idle
<1> QED  BY <1>1, <1>2, <1>4, <1>5, <1>6, IdleFields, OneJobStep, JobTypes DEF HealthInv

(* A step of a job on its own record.                                         *)
LEMMA GoStep ==
    ASSUME HealthInv, NEW j \in H!Jobs, NEW new \in JobRow, H!Go(j, new),
           \A k \in H!Jobs \ {j} : new.wrote \cap job[k].wrote = {},
           Opened(new), Seen(new), Listed(new), j \in Ticks => Owed(new)
    PROVE  HealthInv'
<1>1. job' = [job EXCEPT ![j] = new] /\ UNCHANGED <<provider, model, default, runtime, now, begun, changes, lists>>
  BY DEF H!Go
<1>2. Listed(new)'
  BY <1>1 DEF Listed
<1>3. lists <= lists'
  BY <1>1, JobTypes DEF HealthInv
<1> QED  BY <1>1, <1>2, <1>3, OneJobStep, JobTypes DEF HealthInv

LEMMA ClaimStep ==
    ASSUME HealthInv, NEW j \in Ticks, NEW p \in Providers, H!Claim(j, p) PROVE HealthInv'
<1>1. j \in H!Jobs
  BY DEF H!Jobs
<1>2. PICK x : x = job[j]
  OBVIOUS
<1>3. CASE H!Conflict(j, {p})
  BY <1>1, <1>3, FailsStep DEF H!Claim
<1>4. CASE ~H!Conflict(j, {p})
  <2>1. PICK new : new = [x EXCEPT !.view.provider[p].checked = x.at, !.wrote = @ \cup {p}]
    OBVIOUS
  <2>2. H!Go(j, new) /\ x.pc = "claim" /\ p \in x.todo \ x.wrote /\ p \in x.fresh /\ ~H!Locked(j, {p})
    BY <1>2, <1>4, <2>1 DEF H!Claim, H!Conflict, H!Claims
  <2>3. /\ x \in JobRow /\ Opened(x) /\ Seen(x) /\ Listed(x) /\ Owed(x)
        /\ \A k \in H!Jobs \ {j} : x.wrote \cap job[k].wrote = {}
        /\ x.view \in H!View
    BY <1>1, <1>2, <2>2, JobKnown
  <2>4. PICK v : v = [x.view EXCEPT !.provider[p].checked = x.at]
    OBVIOUS
  <2>5. /\ v \in H!View /\ v.model = x.view.model
        /\ \A q \in Providers : Counted(v.provider[q]) = Counted(x.view.provider[q])
                                /\ v.provider[q].failed = x.view.provider[q].failed
    BY <2>3, <2>4, SMTT(30) DEF H!View, H!ProviderRow, JobRow, Counted
  <2>6. /\ new.pc = x.pc /\ new.view = v /\ new.fresh = x.fresh /\ new.wrote = x.wrote \cup {p} /\ new.todo = x.todo
        /\ new.at = x.at /\ new.on = x.on /\ new.listed = x.listed /\ new.list = x.list
    BY <2>1, <2>3, <2>4 DEF JobRow
  <2>7. new \in JobRow
    BY <2>1, <2>3, <2>4, <2>5 DEF JobRow, H!Rows
  <2>8. Opened(new)
    BY <2>2, <2>3, <2>5, <2>6 DEF Opened
  <2>9. Seen(new)
    BY <2>2, <2>3, <2>5, <2>6 DEF Seen
  <2>10. Listed(new)
    BY <2>2, <2>3, JobTypes, RowFields, <2>5, <2>6 DEF Listed, HealthInv
  <2>11. Owed(new)
    BY <2>2, <2>3, <2>6 DEF Owed
  <2>12. \A k \in H!Jobs \ {j} : new.wrote \cap job[k].wrote = {}
    BY <2>2, <2>3, <2>6 DEF H!Locked
  <2> QED  BY <1>1, <2>2, <2>7, <2>8, <2>9, <2>10, <2>11, <2>12, GoStep
<1> QED  BY <1>3, <1>4

LEMMA ClaimedStep == ASSUME HealthInv, NEW j \in Ticks, H!Claimed(j) PROVE HealthInv'
<1>1. j \in H!Jobs
  BY DEF H!Jobs
<1>2. PICK x : x = job[j]
  OBVIOUS
<1>3. PICK new : new = [x EXCEPT !.pc = "check"]
  OBVIOUS
<1>4. H!Go(j, new) /\ x.pc = "claim"
  BY <1>2, <1>3 DEF H!Claimed
<1>5. /\ x \in JobRow /\ Opened(x) /\ Seen(x) /\ Listed(x) /\ Owed(x)
      /\ \A k \in H!Jobs \ {j} : x.wrote \cap job[k].wrote = {}
  BY <1>1, <1>2, JobKnown
<1>6. /\ new.pc = "check" /\ new.view = x.view /\ new.fresh = x.fresh /\ new.wrote = x.wrote /\ new.todo = x.todo
      /\ new.at = x.at /\ new.on = x.on /\ new.listed = x.listed /\ new.list = x.list /\ new \in JobRow
  BY <1>3, <1>5 DEF JobRow
<1>7. Opened(new) /\ Seen(new) /\ Listed(new) /\ Owed(new)
  BY <1>4, <1>5, <1>6 DEF Opened, Seen, Listed, Owed
<1> QED  BY <1>1, <1>4, <1>5, <1>6, <1>7, GoStep

(* What a check makes of the row it read: a count and a status that agree.    *)
LEMMA ObservedRow ==
    ASSUME HealthInv, NEW p \in Providers, NEW row \in H!ProviderRow, Counted(row),
           row.failed = provider[p].failed,
           NEW status \in {"Online", "Degraded", "Offline"}
    PROVE  H!Observed(p, row, status) \in H!ProviderRow /\ Counted(H!Observed(p, row, status))
<1>1. PICK failures : failures = IF status = "Online" THEN 0 ELSE row.failures + 1
  OBVIOUS
<1>2. PICK new : new = H!Observed(p, row, status)
  OBVIOUS
<1>3. /\ new = [row EXCEPT !.failures = failures, !.checked = now,
                           !.status = IF failures >= Threshold THEN "Offline" ELSE status,
                           !.failed = IF status = "Online" THEN 0 ELSE provider[p].failed + 1]
  BY <1>1, <1>2 DEF H!Observed, H!Checked, H!ProviderRow
<1>4. row.failures \in Nat /\ row.failed \in Nat /\ now \in Nat
  BY RowFields, JobTypes DEF HealthInv
<1>5. failures \in Nat /\ (IF status = "Online" THEN 0 ELSE provider[p].failed + 1) = failures
  BY <1>1, <1>4 DEF Counted
<1>8. PICK shown : shown = IF failures >= Threshold THEN "Offline" ELSE status
  OBVIOUS
<1>6. new = [row EXCEPT !.failures = failures, !.checked = now, !.failed = failures, !.status = shown]
  BY <1>3, <1>5, <1>8
<1>9. shown \in {"Unknown", "Online", "Degraded", "Offline"}
  BY <1>8
<1>10. new = [enabled |-> row.enabled, status |-> shown, failures |-> failures, checked |-> now, failed |-> failures]
  BY <1>6 DEF H!ProviderRow
<1>7. new \in H!ProviderRow /\ new.failures = failures /\ new.failed = failures /\ new.status = shown
  BY <1>4, <1>5, <1>9, <1>10, RowFields DEF H!ProviderRow
<1> QED  BY <1>2, <1>7, <1>8 DEF Counted

LEMMA CheckStep ==
    ASSUME HealthInv, NEW j \in Ticks \cup Checkers, NEW p \in Providers, H!Check(j, p) PROVE HealthInv'
<1>1. j \in H!Jobs
  BY DEF H!Jobs
<1>2. PICK x : x = job[j]
  OBVIOUS
<1>3. CASE H!Conflict(j, {p})
  BY <1>1, <1>3, FailsStep DEF H!Check
<1>4. CASE ~H!Conflict(j, {p})
  <2>1. x.pc = "check" /\ p \in x.todo /\ p \in x.fresh /\ ~H!Locked(j, {p})
    BY <1>2, <1>4 DEF H!Check, H!Conflict
  <2>2. PICK status \in {"Online", "Degraded", "Offline"} :
           H!Go(j, [x EXCEPT !.view.provider[p] = H!Observed(p, @, status),
                             !.wrote = @ \cup {p}, !.todo = @ \ {p}])
    BY <1>2, <1>4 DEF H!Check
  <2>3. /\ x \in JobRow /\ Opened(x) /\ Seen(x) /\ Listed(x) /\ (j \in Ticks => Owed(x))
        /\ \A k \in H!Jobs \ {j} : x.wrote \cap job[k].wrote = {}
        /\ x.view \in H!View
    BY <1>1, <1>2, <2>1, JobKnown
  <2>4. PICK row : row = H!Observed(p, x.view.provider[p], status)
    OBVIOUS
  <2>5. row \in H!ProviderRow /\ Counted(row)
    BY <2>3, ViewFields, <2>1, <2>4, ObservedRow DEF Seen
  <2>6. PICK v : v = [x.view EXCEPT !.provider[p] = row]
    OBVIOUS
  <2>7. v \in H!View /\ v.model = x.view.model /\ v.provider = [x.view.provider EXCEPT ![p] = row]
    BY <2>3, <2>5, <2>6 DEF H!View
  <2>8. \A q \in Providers : v.provider[q] = IF q = p THEN row ELSE x.view.provider[q]
    BY <2>3, <2>7, ViewFields
  <2>9. PICK new : new = [x EXCEPT !.view = v, !.wrote = @ \cup {p}, !.todo = @ \ {p}]
    OBVIOUS
  <2>10. H!Go(j, new)
    BY <2>3, <2>4, <2>6, <2>9, <2>2 DEF JobRow, H!View
  <2>11. /\ new.pc = "check" /\ new.view = v /\ new.fresh = x.fresh /\ new.wrote = x.wrote \cup {p}
         /\ new.todo = x.todo \ {p} /\ new.at = x.at /\ new.on = x.on /\ new.list = x.list
         /\ new \in JobRow
    BY <2>1, <2>3, <2>7, <2>9 DEF JobRow, H!Rows
  <2>12. Opened(new)
    BY <2>1, <2>3, <2>7, <2>11 DEF Opened
  <2>13. Seen(new)
    BY <2>1, <2>3, <2>5, <2>8, <2>11 DEF Seen
  <2>14. Listed(new)
    BY <2>1, <2>3, JobTypes, RowFields, <2>7, <2>11 DEF Listed, HealthInv
  <2>15. j \in Ticks => Owed(new)
    BY <2>1, <2>3, <2>11 DEF Owed
  <2>16. \A k \in H!Jobs \ {j} : new.wrote \cap job[k].wrote = {}
    BY <2>1, <2>3, <2>11 DEF H!Locked
  <2> QED  BY <1>1, <2>10, <2>11, <2>12, <2>13, <2>14, <2>15, <2>16, GoStep
<1> QED  BY <1>3, <1>4

LEMMA SyncerNoTick == \A j \in Syncers : j \in H!Jobs /\ j \notin Ticks
  BY JobBounds DEF H!Jobs

LEMMA ListFailsStep ==
    ASSUME HealthInv, NEW j \in Syncers, NEW p \in Providers, H!ListFails(j, p) PROVE HealthInv'
<1>1. PICK x : x = job[j]
  OBVIOUS
<1>2. PICK new : new = [x EXCEPT !.todo = @ \ {p}]
  OBVIOUS
<1>3. H!Go(j, new) /\ x.pc = "sync"
  BY <1>1, <1>2 DEF H!ListFails
<1>4. /\ x \in JobRow /\ Opened(x) /\ Seen(x) /\ Listed(x)
      /\ \A k \in H!Jobs \ {j} : x.wrote \cap job[k].wrote = {}
  BY <1>1, SyncerNoTick, JobKnown
<1>5. /\ new.pc = x.pc /\ new.view = x.view /\ new.fresh = x.fresh /\ new.wrote = x.wrote /\ new.todo = x.todo \ {p}
      /\ new.at = x.at /\ new.on = x.on /\ new.listed = x.listed /\ new.list = x.list /\ new \in JobRow
  BY <1>2, <1>4 DEF JobRow
<1>6. Opened(new) /\ Seen(new) /\ Listed(new)
  BY <1>3, <1>4, <1>5 DEF Opened, Seen, Listed
<1> QED  BY <1>3, <1>4, <1>5, <1>6, SyncerNoTick, GoStep

LEMMA ListStep ==
    ASSUME HealthInv, NEW j \in Syncers, NEW p \in Providers, H!List(j, p) PROVE HealthInv'
<1>1. PICK x : x = job[j]
  OBVIOUS
<1>2. PICK new : new = [x EXCEPT !.pc = "write", !.listed = runtime[p], !.list = lists + 1, !.todo = @ \ {p}, !.on = p]
  OBVIOUS
<1>3. /\ x \in JobRow /\ Opened(x) /\ Seen(x) /\ Listed(x)
      /\ \A k \in H!Jobs \ {j} : x.wrote \cap job[k].wrote = {}
  BY <1>1, SyncerNoTick, JobKnown
<1>4. /\ x.pc = "sync" /\ lists' = lists + 1
      /\ UNCHANGED <<provider, model, default, runtime, now, begun, changes>>
  BY <1>1 DEF H!List
<1>5. job' = [job EXCEPT ![j] = new]
  BY <1>1, <1>2, <1>3, JobTypes, SyncerNoTick DEF H!List, HealthInv, JobRow
<1>6. lists \in Nat /\ lists' \in Nat /\ lists <= lists' /\ runtime[p] \subseteq Models
  BY <1>4, JobTypes DEF HealthInv
<1>7. /\ new.pc = "write" /\ new.view = x.view /\ new.fresh = x.fresh /\ new.wrote = x.wrote /\ new.todo = x.todo \ {p}
      /\ new.at = x.at /\ new.on = p /\ new.listed = runtime[p] /\ new.list = lists' /\ new \in JobRow
  BY <1>2, <1>3, <1>4, <1>6 DEF JobRow
<1>8. Opened(new) /\ Seen(new)
  BY <1>3, <1>4, <1>7 DEF Opened, Seen
<1>9. Listed(new)'
  <2> SUFFICES ASSUME NEW r \in H!Records
               PROVE  /\ r \in new.fresh \ new.wrote => new.view.model[r] = model[r]
                      /\ r \in new.wrote /\ model[r] # None =>
                            new.view.model[r] # None /\ model[r].by <= new.view.model[r].by
                      /\ new.view.model[r] # None => new.view.model[r].by <= lists'
    BY <1>4, <1>6, <1>7 DEF Listed
  <2>1. new.view.model[r] # None => new.view.model[r].by \in Nat
    BY <1>7, <1>8, ViewFields, RowFields DEF Opened
  <2> QED  BY <1>3, <1>4, <1>6, <1>7, <2>1 DEF Listed
<1> QED  BY <1>3, <1>4, <1>5, <1>6, <1>7, <1>8, <1>9, SyncerNoTick, OneJobStep, JobTypes DEF HealthInv

(* sync_provider_models: what it writes is new or goes back to an older list. *)
LEMMA WriteStep == ASSUME HealthInv, NEW j \in Syncers, H!Write(j) PROVE HealthInv'
<1>1. PICK x : x = job[j]
  OBVIOUS
<1>2. /\ x \in JobRow /\ Opened(x) /\ Seen(x) /\ Listed(x)
      /\ \A k \in H!Jobs \ {j} : x.wrote \cap job[k].wrote = {}
      /\ x.pc = "write" /\ x.view \in H!View /\ x.on \in Providers /\ j \in H!Jobs
  BY <1>1, SyncerNoTick, JobKnown DEF H!Write, Opened
<1>3. PICK touched : touched = ({x.on} \X H!Registered(j)) \cup
                       (IF x.view.default \notin H!NewDefault(j) THEN {Settings} ELSE {})
  OBVIOUS
<1>4. PICK written : written = touched \cup ({x.on} \X H!Fresh(j))
  OBVIOUS
<1>5. ~H!Locked(j, touched \cup ({x.on} \X H!Created(j)))
  BY <1>1, <1>3 DEF H!Write
<1>6. H!Registered(j) \subseteq Models /\ H!Created(j) \subseteq Models /\ H!Fresh(j) \subseteq H!Created(j)
  BY <1>1, <1>2, JobFields DEF H!Registered, H!Created, H!Fresh
<1>7. written \subseteq H!Rows
  BY <1>2, <1>3, <1>4, <1>6 DEF H!Rows, H!Records
<1>8. CASE H!Conflict(j, touched)
  <2>1. PICK new : new = [x EXCEPT !.pc = "sync", !.view = H!Committed, !.fresh = H!Rows, !.wrote = {}]
    OBVIOUS
  <2>2. H!Go(j, new)
    BY <1>1, <1>3, <1>8, <2>1 DEF H!Write
  <2>3. /\ new.pc = "sync" /\ new.view = H!Committed /\ new.fresh = H!Rows /\ new.wrote = {} /\ new.todo = x.todo
        /\ new.list = x.list /\ new \in JobRow
    BY <1>2, <2>1, CommittedView DEF JobRow
  <2>4. Opened(new) /\ Seen(new)
    BY <2>3, CommittedView DEF Opened, Seen
  <2>5. Listed(new)
    BY <1>2, <2>3, CommittedView DEF Listed, HealthInv
  <2> QED  BY <1>2, <2>2, <2>3, <2>4, <2>5, SyncerNoTick, GoStep
<1>9. CASE ~H!Conflict(j, touched)
  <2>1. PICK d \in H!NewDefault(j) :
           H!Go(j, [x EXCEPT !.pc = "sync", !.view.model = H!Reconciled(j), !.view.default = d,
                             !.wrote = @ \cup written])
    BY <1>1, <1>3, <1>4, <1>9 DEF H!Write
  <2>2. d \in H!Records \cup {None}
    BY <1>1, <1>2, <1>6, ViewFields DEF H!NewDefault, H!Records
  <2>3. PICK kept : kept = H!Fresh(j) \cup H!Registered(j)
    OBVIOUS
  <2>4. PICK models : models = H!Reconciled(j)
    OBVIOUS
  <2>5. \A r \in H!Records : models[r] = IF r[1] = x.on /\ r[2] \in kept
             THEN [status |-> IF r[2] \in x.listed THEN "Available" ELSE "Missing", by |-> x.list]
             ELSE x.view.model[r]
    BY <1>1, <2>3, <2>4 DEF H!Reconciled
  <2>20. \A r \in H!Records : r[1] = x.on /\ r[2] \in kept => models[r] \in H!ModelRow /\ models[r].by = x.list
    <3> SUFFICES ASSUME NEW r \in H!Records, r[1] = x.on /\ r[2] \in kept
                 PROVE  models[r] \in H!ModelRow /\ models[r].by = x.list
      OBVIOUS
    <3>1. PICK status : status = IF r[2] \in x.listed THEN "Available" ELSE "Missing"
      OBVIOUS
    <3>2. models[r] = [status |-> status, by |-> x.list] /\ status \in {"Available", "Missing"}
      BY <2>5, <3>1
    <3>3. x.list \in Nat
      BY <1>2, JobFields
    <3> QED  BY <3>2, <3>3 DEF H!ModelRow
  <2>6. models \in [H!Records -> H!ModelRow \cup {None}]
    <3>1. \A r \in H!Records : x.view.model[r] \in H!ModelRow \cup {None}
      BY <1>2, ViewFields
    <3>2. \A r \in H!Records : models[r] \in H!ModelRow \cup {None}
      BY <2>5, <2>20, <3>1
    <3>3. models = [r \in H!Records |-> models[r]]
      BY <2>4 DEF H!Reconciled
    <3> QED  BY <3>2, <3>3
  <2>7. PICK v : v = [x.view EXCEPT !.model = models, !.default = d]
    OBVIOUS
  <2>8. v \in H!View /\ v.provider = x.view.provider /\ v.model = models
    BY <1>2, <2>2, <2>6, <2>7 DEF H!View
  <2>9. PICK new : new = [x EXCEPT !.pc = "sync", !.view = v, !.wrote = @ \cup written]
    OBVIOUS
  <2>10. H!Go(j, new)
    BY <1>2, <2>4, <2>7, <2>9, <2>1 DEF JobRow, H!View
  <2>11. /\ new.pc = "sync" /\ new.view = v /\ new.fresh = x.fresh /\ new.wrote = x.wrote \cup written
         /\ new.todo = x.todo /\ new.list = x.list /\ new \in JobRow
    BY <1>2, <1>7, <2>8, <2>9 DEF JobRow
  <2>12. written \subseteq x.fresh
    BY <1>1, <1>9, <1>4 DEF H!Conflict, H!Fresh
  <2>13. Opened(new)
    BY <1>2, <2>8, <2>11, <2>12 DEF Opened
  <2>14. Seen(new)
    BY <1>2, <2>8, <2>11 DEF Seen
  <2>15. \A r \in H!Records : /\ r[1] = x.on /\ r[2] \in kept => r \in written
                              /\ r = <<r[1], r[2]>> /\ r[1] \in Providers /\ r[2] \in Models
    BY <1>3, <1>4, <2>3 DEF H!Records
  <2>16. Listed(new)
    <3>1. x.list \in Nat /\ lists \in Nat /\ x.list <= lists
      BY <1>2, JobFields, JobTypes DEF HealthInv, Listed
    <3> SUFFICES ASSUME NEW r \in H!Records
                 PROVE  /\ r \in new.fresh \ new.wrote => models[r] = model[r]
                        /\ r \in new.wrote /\ model[r] # None =>
                              models[r] # None /\ model[r].by <= models[r].by
                        /\ models[r] # None => models[r].by <= lists
      BY <2>8, <2>11, <3>1 DEF Listed
    <3>2. CASE r[1] = x.on /\ r[2] \in kept
      <4>1. PICK row : row = models[r]
        OBVIOUS
      <4>2. row.by = x.list /\ row # None
        BY <2>20, <3>2, <4>1, JobBounds
      <4>3. r \in written /\ r \in x.fresh
        BY <2>12, <2>15, <3>2
      <4>4. model[r] # None => model[r].by <= x.list
        <5> SUFFICES ASSUME model[r] # None PROVE model[r].by <= x.list
          OBVIOUS
        <5>1. x.view.model[r] # None /\ model[r].by <= x.view.model[r].by /\ x.view.model[r].by <= x.list
          BY JobTypes, RowFields, <1>2, <4>3 DEF HealthInv, Listed
        <5>2. model[r].by \in Nat /\ x.view.model[r].by \in Nat
          BY <1>2, <5>1, JobTypes, ViewFields, RowFields DEF HealthInv
        <5> QED  BY <3>1, <5>1, <5>2
      <4> QED  BY <2>11, <3>1, <4>1, <4>2, <4>3, <4>4
    <3>3. CASE ~(r[1] = x.on /\ r[2] \in kept)
      <4>1. models[r] = x.view.model[r]
        BY <2>5, <3>3
      <4>2. r \in x.fresh /\ model[r] # None => x.view.model[r] # None /\ model[r].by <= x.view.model[r].by
        BY <1>2, JobTypes, RowFields DEF Listed, HealthInv
      <4>3. r \in new.wrote => r \in x.fresh
        BY <1>2, <2>11, <2>12 DEF Opened
      <4> QED  BY <1>2, <2>11, <4>1, <4>2, <4>3 DEF Listed
    <3> QED  BY <3>2, <3>3
  <2>17. \A k \in H!Jobs \ {j} : new.wrote \cap job[k].wrote = {}
    BY <1>2, <1>4, <1>5, <1>6, <2>11 DEF H!Locked
  <2> QED  BY <1>2, <2>10, <2>11, <2>13, <2>14, <2>16, <2>17, SyncerNoTick, GoStep
<1> QED  BY <1>8, <1>9

(* What a job has locked is as committed, or better.                          *)
LEMMA ConcludesStep == ASSUME HealthInv, NEW j \in H!Jobs, H!Concludes(j), job[j].pc # "idle" PROVE HealthInv'
<1>1. PICK x : x = job[j]
  OBVIOUS
<1>2. PICK v : v = x.view
  OBVIOUS
<1>3. /\ x \in JobRow /\ Opened(x) /\ Seen(x) /\ Listed(x) /\ x.pc # "idle" /\ v \in H!View
      /\ \A k \in H!Jobs \ {j} : x.wrote \cap job[k].wrote = {}
  BY <1>1, <1>2, JobKnown
<1>4. /\ provider' = [p \in Providers |-> IF p \in x.wrote THEN v.provider[p] ELSE provider[p]]
      /\ model' = [r \in H!Records |-> IF r \in x.wrote THEN v.model[r] ELSE model[r]]
      /\ default' = IF Settings \in x.wrote THEN v.default ELSE default
      /\ job' = [k \in H!Jobs |-> IF k \in {j} THEN H!Idle ELSE [job[k] EXCEPT !.fresh = @ \ x.wrote]]
      /\ UNCHANGED <<runtime, now, begun, changes, lists>>
  BY <1>1, <1>2 DEF H!Concludes, H!Commit
<1>5. /\ provider' \in [Providers -> H!ProviderRow] /\ model' \in [H!Records -> H!ModelRow \cup {None}]
      /\ default' \in H!Records \cup {None}
  BY <1>3, <1>4, JobTypes, ViewFields DEF HealthInv
<1>6. Leaves(x.wrote)
  BY <1>4, JobTypes DEF Leaves, HealthInv
<1>7. H!FailuresCounted'
  <2>1. \A p \in Providers : Counted(provider'[p])
    <3> TAKE p \in Providers
    <3>1. CASE p \in x.wrote
      BY <1>2, <1>3, <1>4, <3>1 DEF Seen, Opened
    <3>2. CASE p \notin x.wrote
      BY <1>4, <3>2 DEF HealthInv, H!FailuresCounted, Counted
    <3> QED  BY <3>1, <3>2
  <2> QED  BY <2>1 DEF H!FailuresCounted, Counted
<1>8. \A r \in H!Records : model'[r] # None => model'[r].by <= lists'
  BY <1>2, <1>3, <1>4 DEF HealthInv, Listed
<1>9. \A k \in H!Jobs \ {j} : job[k].wrote \cap x.wrote = {}
  BY <1>3
<1>10. {j} \in SUBSET H!Jobs
  OBVIOUS
<1> QED  BY <1>4, <1>5, <1>6, <1>7, <1>8, <1>9, <1>10, WritesStep, JobTypes DEF HealthInv

LEMMA NobodyEnds ==
    ASSUME NEW gone, job' = [k \in H!Jobs |-> [job[k] EXCEPT !.fresh = @ \ gone]]
    PROVE  job' = [k \in H!Jobs |-> IF k \in {} THEN H!Idle ELSE [job[k] EXCEPT !.fresh = @ \ gone]]
  OBVIOUS

LEMMA AnsweredStep == ASSUME HealthInv, NEW r \in H!Records, H!Answered(r) PROVE HealthInv'
<1>1. /\ model[r] # None /\ \A k \in H!Jobs : job[k].wrote \cap {r} = {}
      /\ model' = [model EXCEPT ![r].status = "Available"]
      /\ job' = [k \in H!Jobs |-> [job[k] EXCEPT !.fresh = @ \ {r}]]
      /\ UNCHANGED <<provider, default, runtime, now, begun, changes, lists>>
  BY DEF H!Answered
<1>2. model[r] \in H!ModelRow
  BY <1>1, JobTypes DEF HealthInv
<1>3. PICK row : row = [model[r] EXCEPT !.status = "Available"]
  OBVIOUS
<1>4. row \in H!ModelRow /\ row.by = model[r].by
  BY <1>2, <1>3 DEF H!ModelRow
<1>5. \A s \in H!Records : model'[s] = IF s = r THEN row ELSE model[s]
  BY <1>1, <1>3, JobTypes DEF HealthInv
<1>6. model' \in [H!Records -> H!ModelRow \cup {None}]
  BY <1>1, <1>3, <1>4, JobTypes DEF HealthInv
<1>7. Leaves({r})
  BY <1>1, <1>5, JobTypes DEF Leaves, HealthInv
<1>8. \A s \in H!Records : model'[s] # None => model'[s].by <= lists'
  BY <1>1, <1>4, <1>5 DEF HealthInv
<1>9. H!FailuresCounted'
  BY <1>1 DEF HealthInv, H!FailuresCounted
<1> QED  BY <1>1, <1>6, <1>7, <1>8, <1>9, NobodyEnds, WritesStep, JobTypes DEF HealthInv

LEMMA SwitchStep == ASSUME HealthInv, NEW p \in Providers, H!Switch(p) PROVE HealthInv'
<1>1. /\ changes' = changes + 1 /\ \A k \in H!Jobs : job[k].wrote \cap {p} = {}
      /\ provider' = [provider EXCEPT ![p].enabled = ~@]
      /\ job' = [k \in H!Jobs |-> [job[k] EXCEPT !.fresh = @ \ {p}]]
      /\ UNCHANGED <<model, default, runtime, now, begun, lists>>
  BY DEF H!Switch
<1>2. provider[p] \in H!ProviderRow
  BY JobTypes DEF HealthInv
<1>3. PICK row : row = [provider[p] EXCEPT !.enabled = ~@]
  OBVIOUS
<1>4. row \in H!ProviderRow /\ row.failures = provider[p].failures /\ row.failed = provider[p].failed
      /\ row.status = provider[p].status
  BY <1>2, <1>3 DEF H!ProviderRow
<1>5. \A q \in Providers : provider'[q] = IF q = p THEN row ELSE provider[q]
  BY <1>1, <1>3, JobTypes DEF HealthInv
<1>6. provider' \in [Providers -> H!ProviderRow]
  BY <1>1, <1>3, <1>4, JobTypes DEF HealthInv
<1>7. Leaves({p})
  BY <1>1, <1>5, JobTypes DEF Leaves, HealthInv
<1>8. H!FailuresCounted'
  BY <1>4, <1>5 DEF HealthInv, H!FailuresCounted, Counted
<1>9. \A s \in H!Records : model'[s] # None => model'[s].by <= lists'
  BY <1>1 DEF HealthInv
<1>10. changes' \in Nat
  BY <1>1, JobTypes DEF HealthInv
<1> QED  BY <1>1, <1>6, <1>7, <1>8, <1>9, <1>10, NobodyEnds, WritesStep, JobTypes DEF HealthInv

LEMMA OutsideStep ==
    ASSUME HealthInv, UNCHANGED <<provider, model, default, job, lists>>,
           runtime' \in [Providers -> SUBSET Models], now' \in Nat, begun' \in Nat, changes' \in Nat
    PROVE  HealthInv'
<1>1. H!TypeOK'
  BY DEF HealthInv, H!TypeOK
<1>2. H!FailuresCounted' /\ Apart' /\ \A r \in H!Records : model'[r] # None => model'[r].by <= lists'
  BY DEF HealthInv, H!FailuresCounted, Apart
<1>3. \A k \in H!Jobs : JobInv(k)'
  BY DEF HealthInv, JobInv, Opened, Seen, Counted, Listed, Owed
<1> QED  BY <1>1, <1>2, <1>3 DEF HealthInv

LEMMA RuntimeStep ==
    ASSUME HealthInv, NEW p \in Providers, NEW m \in Models, H!RuntimeChanges(p, m) PROVE HealthInv'
<1>1. runtime' \in [Providers -> SUBSET Models] /\ changes' \in Nat
  BY JobTypes DEF HealthInv, H!RuntimeChanges
<1> QED  BY <1>1, OutsideStep, JobTypes DEF HealthInv, H!RuntimeChanges

LEMMA ClockStep == ASSUME HealthInv, H!Tick PROVE HealthInv'
<1>1. now' \in Nat
  BY JobTypes DEF HealthInv, H!Tick
<1> QED  BY <1>1, OutsideStep, JobTypes DEF HealthInv, H!Tick

LEMMA HealthInit == H!Init => HealthInv
<1> SUFFICES ASSUME H!Init PROVE HealthInv
  OBVIOUS
<1>1. PICK row : row = [enabled |-> TRUE, status |-> "Unknown", failures |-> 0, checked |-> -Interval, failed |-> 0]
  OBVIOUS
<1>2. row \in H!ProviderRow /\ row.failures = 0 /\ row.failed = 0
  BY <1>1, JobBounds DEF H!ProviderRow
<1>3. \A p \in Providers : provider[p] = row
  BY <1>1 DEF H!Init
<1>4. H!TypeOK
  BY <1>1, <1>2, IdleFields DEF H!Init, H!TypeOK, JobRow
<1>5. H!FailuresCounted
  BY <1>2, <1>3, JobBounds DEF H!FailuresCounted
<1>6. \A j \in H!Jobs : job[j] = H!Idle
  BY DEF H!Init
<1>7. Apart /\ \A r \in H!Records : model[r] # None => model[r].by <= lists
  BY <1>6, IdleFields DEF H!Init, Apart
<1>8. \A j \in H!Jobs : JobInv(j)
  BY IdleFields, <1>6 DEF Opened, Seen, Owed, Listed, H!Init, JobInv
<1> QED  BY <1>4, <1>5, <1>7, <1>8 DEF HealthInv

LEMMA HealthNext == HealthInv /\ [H!Next]_checks => HealthInv'
<1> SUFFICES ASSUME HealthInv, [H!Next]_checks PROVE HealthInv'
  OBVIOUS
<1>1. ASSUME NEW j \in Ticks, H!StartTick(j) \/ H!Claimed(j) \/ \E p \in Providers : H!Claim(j, p)
      PROVE  HealthInv'
  BY <1>1, StartSteps, ClaimedStep, ClaimStep DEF H!Jobs
<1>2. ASSUME NEW j \in Checkers, H!StartCheck(j) PROVE HealthInv'
  BY <1>2, StartSteps DEF H!Jobs
<1>3. ASSUME NEW j \in Ticks \cup Checkers, H!CheckEnds(j) \/ \E p \in Providers : H!Check(j, p)
      PROVE  HealthInv'
  BY <1>3, CheckStep, ConcludesStep DEF H!Jobs, H!CheckEnds
<1>4. ASSUME NEW j \in Syncers,
             \/ H!StartSync(j) \/ H!Write(j) \/ H!SyncEnds(j)
             \/ \E p \in Providers : H!List(j, p) \/ H!ListFails(j, p)
      PROVE  HealthInv'
  BY <1>4, SyncerNoTick, StartSteps, WriteStep, ConcludesStep, ListStep, ListFailsStep DEF H!SyncEnds
<1>5. CASE (\E r \in H!Records : H!Answered(r)) \/ (\E p \in Providers : H!Switch(p))
           \/ (\E p \in Providers, m \in Models : H!RuntimeChanges(p, m)) \/ H!Tick
  BY <1>5, AnsweredStep, SwitchStep, RuntimeStep, ClockStep
<1>6. ASSUME NEW j \in H!Jobs, H!Dies(j) PROVE HealthInv'
  BY <1>6, FailsStep DEF H!Dies
<1>7. CASE UNCHANGED checks
  BY <1>7, OutsideStep, JobTypes DEF checks, HealthInv
<1> QED  BY <1>1, <1>2, <1>3, <1>4, <1>5, <1>6, <1>7 DEF H!Next

(* The two action properties of ProviderHealth.                               *)
LEMMA LaterListStep == HealthInv /\ [H!Next]_checks => H!LaterListWins
<1> SUFFICES ASSUME HealthInv, [H!Next]_checks, NEW r \in H!Records, model[r] # None
             PROVE  model'[r] # None /\ model'[r].by >= model[r].by
  BY DEF H!LaterListWins
<1>1. model[r] \in H!ModelRow /\ model[r].by \in Nat
  BY JobTypes, RowFields DEF HealthInv
<1>2. CASE model' = model
  BY <1>1, <1>2
<1>3. ASSUME NEW j \in H!Jobs, H!Concludes(j), job[j].pc # "idle"
      PROVE  model'[r] # None /\ model'[r].by >= model[r].by
  <2>1. model'[r] = IF r \in job[j].wrote THEN job[j].view.model[r] ELSE model[r]
    BY <1>3 DEF H!Concludes, H!Commit
  <2>2. PICK x : x = job[j]
    OBVIOUS
  <2>3. Listed(x) /\ x.view \in H!View
    BY <1>3, <2>2, JobKnown
  <2>4. r \in x.wrote => x.view.model[r] # None /\ model[r].by <= x.view.model[r].by /\ x.view.model[r].by \in Nat
    BY <1>3, <2>2, <2>3, ViewFields, RowFields DEF Listed
  <2> QED  BY <1>1, <2>1, <2>2, <2>4
<1>4. ASSUME NEW s \in H!Records, H!Answered(s)
      PROVE  model'[r] # None /\ model'[r].by >= model[r].by
  <2>1. model' = [model EXCEPT ![s].status = "Available"]
    BY <1>4 DEF H!Answered
  <2>2. CASE s = r
    <3>1. PICK row : row = [model[r] EXCEPT !.status = "Available"]
      OBVIOUS
    <3>2. row \in H!ModelRow /\ row.by = model[r].by
      BY <1>1, <3>1 DEF H!ModelRow
    <3>3. model'[r] = row
      BY <2>1, <2>2, <3>1, JobTypes DEF HealthInv
    <3> QED  BY <1>1, <3>2, <3>3, JobBounds
  <2>3. CASE s # r
    BY <1>1, <2>1, <2>3, JobTypes DEF HealthInv
  <2> QED  BY <2>2, <2>3
<1>5. ASSUME NEW j \in Ticks \cup Checkers, H!CheckEnds(j)
      PROVE  model'[r] # None /\ model'[r].by >= model[r].by
  BY <1>3, <1>5 DEF H!CheckEnds, H!Jobs
<1>6. ASSUME NEW j \in Syncers, H!SyncEnds(j)
      PROVE  model'[r] # None /\ model'[r].by >= model[r].by
  BY <1>3, <1>6, SyncerNoTick, SMTT(30) DEF H!SyncEnds
<1>7. ASSUME NEW j \in H!Jobs, H!Begin(j, "claim", {p \in Providers : H!Due(provider[p], now)})
                \/ H!Begin(j, "check", {p \in Providers : provider[p].enabled})
                \/ H!Begin(j, "sync", {p \in Providers : H!Reachable(provider[p])})
                \/ H!Claimed(j) \/ H!Dies(j) \/ H!Write(j)
                \/ \E p \in Providers : H!Claim(j, p) \/ H!Check(j, p) \/ H!List(j, p) \/ H!ListFails(j, p)
      PROVE  model' = model
  BY <1>7, Zenon DEF H!Begin, H!Claimed, H!Dies, H!Write, H!Claim, H!Check, H!List, H!ListFails, H!Go, H!Fails, H!Abort
<1>8. CASE (\E p \in Providers : H!Switch(p)) \/ (\E p \in Providers, m \in Models : H!RuntimeChanges(p, m)) \/ H!Tick
           \/ UNCHANGED checks
  BY <1>2, <1>8 DEF H!Switch, H!RuntimeChanges, H!Tick, checks
<1> QED  BY <1>2, <1>4, <1>5, <1>6, <1>7, <1>8 DEF H!Next, H!StartTick, H!StartCheck, H!StartSync, H!Jobs

LEMMA OnceStep == HealthInv => H!OncePerInterval
<1> SUFFICES ASSUME HealthInv, NEW j \in Ticks, NEW p \in job[j].wrote
             PROVE  job[j].at - provider[p].checked >= Interval
  BY DEF H!OncePerInterval
<1>1. JobInv(j)
  BY DEF HealthInv, H!Jobs
<1> QED  BY <1>1 DEF JobInv, Opened, Owed

-----------------------------------------------------------------------------
(* DocumentTree.                                                              *)

LEMMA TreeAxiom == D!TreeAssumption
  BY ServicesAssumption

(* Paths.                                                                     *)

LEMMA PathSeq == D!Paths \subseteq Seq(D!NodeNames) /\ D!Home \in Seq(D!NodeNames)
  BY DEF D!Paths, D!Home

\* A path that is not Home has a parent.
LEMMA ParentOf ==
    ASSUME NEW r \in Seq(D!NodeNames), r # D!Home
    PROVE  /\ Len(r) \in Nat \ {0}
           /\ D!Parent(r) \in Seq(D!NodeNames)
           /\ Len(D!Parent(r)) = Len(r) - 1
           /\ \A i \in 1 .. Len(r) - 1 : D!Parent(r)[i] = r[i]
<1>1. Len(r) \in Nat \ {0}
  BY EmptySeq DEF D!Home
<1>2. \A i \in 1 .. Len(r) - 1 : r[i] \in D!NodeNames
  BY <1>1, ElementOfSeq
<1>3. PICK m : m = Len(r) - 1
  OBVIOUS
<1>4. /\ SubSeq(r, 1, m) \in Seq(D!NodeNames)
      /\ Len(SubSeq(r, 1, m)) = m
      /\ \A i \in 1 .. m : SubSeq(r, 1, m)[i] = r[i]
  BY <1>1, <1>2, <1>3, SubSeqProperties
<1> QED  BY <1>1, <1>3, <1>4 DEF D!Parent

\* One path is below another one if it begins with it.
LEMMA BelowMeans ==
    ASSUME NEW r \in Seq(D!NodeNames), NEW p \in Seq(D!NodeNames)
    PROVE  D!Below(r, p) <=> Len(p) <= Len(r) /\ \A i \in 1 .. Len(p) : r[i] = p[i]
<1>1. Len(p) \in Nat /\ Len(r) \in Nat
  BY LenProperties
<1>2. CASE Len(p) <= Len(r)
  BY <1>1, <1>2, ElementOfSeq, SubSeqProperties, SeqEqual DEF D!Below
<1> QED  BY <1>1, <1>2 DEF D!Below

\* A path below p that is not p has its parent below p.
LEMMA BelowParent ==
    ASSUME NEW r \in Seq(D!NodeNames), NEW p \in Seq(D!NodeNames), r # D!Home
    PROVE  /\ D!Below(r, p) /\ r # p => D!Below(D!Parent(r), p)
           /\ D!Below(D!Parent(r), p) => D!Below(r, p) /\ r # p
<1>1. Len(p) \in Nat
  BY LenProperties
<1>2. D!Below(r, p) /\ r # p => Len(p) < Len(r)
  BY <1>1, ParentOf, BelowMeans, SeqEqual
<1> QED  BY <1>1, <1>2, ParentOf, BelowMeans

LEMMA BelowSelf == ASSUME NEW p \in Seq(D!NodeNames) PROVE D!Below(p, p)
  BY LenProperties, BelowMeans

\* What is moved with p to q.
MovedTo(x, r, p, q) ==
    /\ x \in Seq(D!NodeNames)
    /\ Len(x) = Len(q) + Len(r) - Len(p)
    /\ \A i \in 1 .. Len(q) + Len(r) - Len(p) :
           x[i] = IF i <= Len(q) THEN q[i] ELSE r[i - Len(q) + Len(p)]

LEMMA RebasedMeans ==
    ASSUME NEW r \in Seq(D!NodeNames), NEW p \in Seq(D!NodeNames), NEW q \in Seq(D!NodeNames), D!Below(r, p),
           NEW x, x = D!Rebased(r, p, q)
    PROVE  MovedTo(x, r, p, q)
<1>1. Len(p) \in Nat /\ Len(q) \in Nat /\ Len(r) \in Nat /\ Len(p) <= Len(r)
  BY LenProperties, BelowMeans
<1>2. \A i \in Len(p) + 1 .. Len(r) : r[i] \in D!NodeNames
  BY <1>1, ElementOfSeq
<1>3. PICK rest : rest = SubSeq(r, Len(p) + 1, Len(r))
  OBVIOUS
<1>4. /\ rest \in Seq(D!NodeNames)
      /\ Len(rest) = Len(r) - Len(p)
      /\ \A i \in 1 .. Len(r) - Len(p) : rest[i] = r[i + Len(p)]
  BY <1>1, <1>2, <1>3, SubSeqProperties
<1>5. x = q \o rest
  BY <1>3 DEF D!Rebased
<1>6. /\ x \in Seq(D!NodeNames)
      /\ Len(x) = Len(q) + Len(rest)
      /\ \A i \in 1 .. Len(q) + Len(rest) : x[i] = IF i <= Len(q) THEN q[i] ELSE rest[i - Len(q)]
  <2>1. /\ q \o rest \in Seq(D!NodeNames)
        /\ Len(q \o rest) = Len(q) + Len(rest)
    BY <1>4, ConcatProperties
  <2>2. ASSUME NEW i \in 1 .. Len(q) + Len(rest)
        PROVE  (q \o rest)[i] = IF i <= Len(q) THEN q[i] ELSE rest[i - Len(q)]
    BY <1>1, <1>4
  <2> QED  BY <1>5, <2>1, <2>2
<1>7. ASSUME NEW i \in 1 .. Len(q) + Len(r) - Len(p)
      PROVE  x[i] = IF i <= Len(q) THEN q[i] ELSE r[i - Len(q) + Len(p)]
  <2>1. i \in 1 .. Len(q) + Len(rest)
    BY <1>1, <1>4
  <2>2. CASE ~(i <= Len(q))
    <3>1. i - Len(q) \in 1 .. Len(r) - Len(p)
      BY <1>1, <2>2
    <3> QED  BY <1>4, <1>6, <2>1, <2>2, <3>1
  <2> QED  BY <1>6, <2>1, <2>2
<1> QED  BY <1>1, <1>4, <1>6, <1>7 DEF MovedTo

LEMMA RebasedOther == ASSUME NEW r, NEW p, NEW q, ~D!Below(r, p) PROVE D!Rebased(r, p, q) = r
  BY DEF D!Rebased

\* The folder itself takes its new place.
LEMMA RebasedRoot ==
    ASSUME NEW p \in Seq(D!NodeNames), NEW q \in Seq(D!NodeNames) PROVE D!Rebased(p, p, q) = q
<1>1. Len(p) \in Nat /\ Len(q) \in Nat /\ D!Below(p, p)
  BY LenProperties, BelowSelf
<1>2. PICK x : x = D!Rebased(p, p, q)
  OBVIOUS
<1>3. /\ x \in Seq(D!NodeNames) /\ Len(x) = Len(q) + Len(p) - Len(p)
      /\ \A i \in 1 .. Len(q) + Len(p) - Len(p) : x[i] = IF i <= Len(q) THEN q[i] ELSE p[i - Len(q) + Len(p)]
  <2>1. MovedTo(x, p, p, q)
    BY <1>1, <1>2, RebasedMeans
  <2> QED  BY <2>1 DEF MovedTo
<1>4. Len(x) = Len(q) /\ \A i \in 1 .. Len(x) : x[i] = q[i]
  BY <1>1, <1>3
<1>5. x = q
  BY <1>3, <1>4, SeqEqual
<1> QED  BY <1>2, <1>5

\* Nothing moves that is moved to where it is.
LEMMA RebasedSame ==
    ASSUME NEW r \in Seq(D!NodeNames), NEW p \in Seq(D!NodeNames) PROVE D!Rebased(r, p, p) = r
<1>1. CASE D!Below(r, p)
  <2>1. Len(p) \in Nat /\ Len(r) \in Nat /\ \A i \in 1 .. Len(p) : r[i] = p[i]
    BY <1>1, LenProperties, BelowMeans
  <2>2. PICK x : x = D!Rebased(r, p, p)
    OBVIOUS
  <2>3. /\ x \in Seq(D!NodeNames) /\ Len(x) = Len(p) + Len(r) - Len(p)
        /\ \A i \in 1 .. Len(p) + Len(r) - Len(p) : x[i] = IF i <= Len(p) THEN p[i] ELSE r[i - Len(p) + Len(p)]
    <3>1. MovedTo(x, r, p, p)
      BY <1>1, <2>2, RebasedMeans
    <3> QED  BY <3>1 DEF MovedTo
  <2>4. Len(x) = Len(r)
    BY <2>1, <2>3
  <2>5. ASSUME NEW i \in 1 .. Len(x) PROVE x[i] = r[i]
    BY <2>1, <2>4, <2>3
  <2>6. x = r
    BY <2>3, <2>4, <2>5, SeqEqual
  <2> QED  BY <2>2, <2>6
<1> QED  BY <1>1, RebasedOther

\* What is below the folder keeps its name and follows its parent.
LEMMA RebasedChild ==
    ASSUME NEW r \in Seq(D!NodeNames), NEW p \in Seq(D!NodeNames), NEW q \in Seq(D!NodeNames),
           D!Below(r, p), r # p, r # D!Home
    PROVE  /\ D!Rebased(r, p, q) # D!Home
           /\ D!Parent(D!Rebased(r, p, q)) = D!Rebased(D!Parent(r), p, q)
           /\ D!Rebased(r, p, q)[Len(D!Rebased(r, p, q))] = r[Len(r)]
<1>1. Len(p) \in Nat /\ Len(q) \in Nat /\ Len(r) \in Nat
  BY LenProperties
<1>2. PICK t : t = D!Parent(r)
  OBVIOUS
<1>3. /\ t \in Seq(D!NodeNames) /\ D!Below(t, p) /\ Len(t) = Len(r) - 1
      /\ \A i \in 1 .. Len(r) - 1 : t[i] = r[i]
  BY <1>2, ParentOf, BelowParent
<1>4. Len(p) <= Len(r) - 1
  BY <1>3, BelowMeans
<1>5. PICK x : x = D!Rebased(r, p, q)
  OBVIOUS
<1>6. /\ x \in Seq(D!NodeNames) /\ Len(x) = Len(q) + Len(r) - Len(p)
      /\ \A i \in 1 .. Len(q) + Len(r) - Len(p) : x[i] = IF i <= Len(q) THEN q[i] ELSE r[i - Len(q) + Len(p)]
  <2>1. MovedTo(x, r, p, q)
    BY <1>5, RebasedMeans
  <2> QED  BY <2>1 DEF MovedTo
<1>7. PICK y : y = D!Rebased(t, p, q)
  OBVIOUS
<1>8. /\ y \in Seq(D!NodeNames) /\ Len(y) = Len(q) + Len(t) - Len(p)
      /\ \A i \in 1 .. Len(q) + Len(t) - Len(p) : y[i] = IF i <= Len(q) THEN q[i] ELSE t[i - Len(q) + Len(p)]
  <2>1. MovedTo(y, t, p, q)
    BY <1>3, <1>7, RebasedMeans
  <2> QED  BY <2>1 DEF MovedTo
<1>9. x # D!Home
  BY <1>1, <1>4, <1>6, EmptySeq DEF D!Home
<1>10. x[Len(x)] = r[Len(r)]
  BY <1>1, <1>4, <1>6
<1>11. Len(y) = Len(x) - 1
  BY <1>1, <1>3, <1>6, <1>8
<1>12. ASSUME NEW i \in 1 .. Len(y) PROVE x[i] = y[i]
  <2>1. i \in 1 .. Len(q) + Len(r) - Len(p) /\ i \in 1 .. Len(q) + Len(t) - Len(p)
    BY <1>1, <1>3, <1>6, <1>8
  <2>2. CASE i <= Len(q)
    BY <1>6, <1>8, <2>1, <2>2
  <2>3. CASE ~(i <= Len(q))
    <3>1. i - Len(q) + Len(p) \in 1 .. Len(r) - 1
      BY <1>1, <1>3, <2>1, <2>3
    <3> QED  BY <1>3, <1>6, <1>8, <2>1, <2>3, <3>1
  <2> QED  BY <2>2, <2>3
<1>13. D!Parent(x) = y
  <2>1. /\ D!Parent(x) \in Seq(D!NodeNames) /\ Len(D!Parent(x)) = Len(x) - 1
        /\ \A i \in 1 .. Len(x) - 1 : D!Parent(x)[i] = x[i]
    BY <1>6, <1>9, ParentOf
  <2>2. Len(D!Parent(x)) = Len(y) /\ \A i \in 1 .. Len(D!Parent(x)) : D!Parent(x)[i] = y[i]
    BY <1>11, <1>12, <2>1
  <2> QED  BY <1>8, <2>1, <2>2, SeqEqual
<1> QED  BY <1>2, <1>5, <1>7, <1>9, <1>10, <1>13

\* Two paths are not moved to the same one.
LEMMA RebasedApart ==
    ASSUME NEW r \in Seq(D!NodeNames), NEW t \in Seq(D!NodeNames), NEW p \in Seq(D!NodeNames),
           NEW q \in Seq(D!NodeNames), D!Below(r, p), D!Below(t, p), D!Rebased(r, p, q) = D!Rebased(t, p, q)
    PROVE  r = t
<1>1. Len(p) \in Nat /\ Len(q) \in Nat /\ Len(r) \in Nat /\ Len(t) \in Nat
  BY LenProperties
<1>2. PICK x : x = D!Rebased(r, p, q)
  OBVIOUS
<1>3. /\ Len(x) = Len(q) + Len(r) - Len(p)
      /\ \A i \in 1 .. Len(q) + Len(r) - Len(p) : x[i] = IF i <= Len(q) THEN q[i] ELSE r[i - Len(q) + Len(p)]
  <2>1. MovedTo(x, r, p, q)
    BY <1>2, RebasedMeans
  <2> QED  BY <2>1 DEF MovedTo
<1>4. /\ Len(x) = Len(q) + Len(t) - Len(p)
      /\ \A i \in 1 .. Len(q) + Len(t) - Len(p) : x[i] = IF i <= Len(q) THEN q[i] ELSE t[i - Len(q) + Len(p)]
  <2>1. MovedTo(x, t, p, q)
    BY <1>2, RebasedMeans
  <2> QED  BY <2>1 DEF MovedTo
<1>5. Len(r) = Len(t) /\ Len(p) <= Len(r)
  BY <1>1, <1>3, <1>4, BelowMeans
<1>6. ASSUME NEW i \in 1 .. Len(r) PROVE r[i] = t[i]
  <2>1. CASE i <= Len(p)
    BY <1>1, <2>1, BelowMeans
  <2>2. CASE ~(i <= Len(p))
    <3>1. /\ i - Len(p) + Len(q) \in 1 .. Len(q) + Len(r) - Len(p)
          /\ ~(i - Len(p) + Len(q) <= Len(q))
          /\ (i - Len(p) + Len(q)) - Len(q) + Len(p) = i
      BY <1>1, <2>2
    <3> QED  BY <1>3, <1>4, <1>5, <3>1
  <2> QED  BY <2>1, <2>2
<1> QED  BY <1>5, <1>6, SeqEqual

\* A new place below a folder has that folder as its parent.
LEMMA ParentAppend ==
    ASSUME NEW t \in Seq(D!NodeNames), NEW x, Append(t, x) \in Seq(D!NodeNames)
    PROVE  D!Parent(Append(t, x)) = t /\ Append(t, x) # D!Home /\ ~D!Below(t, Append(t, x))
<1> DEFINE y == Append(t, x)
           E == D!NodeNames \cup {x}
<1>1. t \in Seq(E) /\ Len(t) \in Nat
  BY SeqMonotonic, LenProperties
<1>2. Len(y) = Len(t) + 1 /\ \A i \in 1 .. Len(t) : y[i] = t[i]
  BY <1>1
<1>3. y # D!Home
  BY <1>1, <1>2, EmptySeq DEF D!Home
<1> HIDE DEF y, E
<1>4. y \in Seq(D!NodeNames)
  BY DEF y
<1>5. D!Parent(y) = t
  BY <1>1, <1>2, <1>3, <1>4, ParentOf, SeqEqual
<1>6. ~D!Below(t, y)
  BY <1>1, <1>2, <1>4, BelowMeans
<1> QED  BY <1>3, <1>5, <1>6 DEF y

(* Rows.                                                                      *)

LEMMA TreeRows ==
    ASSUME NEW v \in D!Tree
    PROVE  /\ v.folders \subseteq D!Paths /\ v.folders \subseteq Seq(D!NodeNames)
           /\ \A f \in D!AllFiles(v) : f \in Files /\ v.files[f] \in D!FileRow /\ v.files[f].folder \in Seq(D!NodeNames)
           /\ \A d \in D!AllDocs(v) : /\ d \in Docs /\ v.docs[d] \in D!DocRow
                                      /\ v.docs[d].folder \in Seq(D!NodeNames) /\ v.docs[d].name \in D!NodeNames
                                      /\ v.docs[d].src \in Files \cup {None}
           /\ v.files \in [Files -> D!FileRow \cup {None}] /\ v.docs \in [Docs -> D!DocRow \cup {None}]
  BY PathSeq DEF D!Tree, D!AllFiles, D!AllDocs, D!FileRow, D!DocRow

\* A tree is made of its three tables.
LEMMA TreeMade ==
    ASSUME NEW x, x = [folders |-> x.folders, files |-> x.files, docs |-> x.docs],
           x.folders \subseteq D!Paths, x.files \in [Files -> D!FileRow \cup {None}],
           x.docs \in [Docs -> D!DocRow \cup {None}]
    PROVE  x \in D!Tree
  BY DEF D!Tree

LEMMA Constants == None \notin Files /\ None \notin Docs /\ \A x \in D!FileRow \cup D!DocRow : x # None
  BY TreeAxiom DEF D!TreeAssumption

LEMMA PlacedRow ==
    ASSUME NEW x \in D!DocRow, NEW p \in Seq(D!NodeNames)
    PROVE  /\ D!Placed(x, p) \in D!DocRow /\ D!Placed(x, p) # None
           /\ D!Placed(x, p).folder = p /\ D!Placed(x, p).recorded = p
           /\ D!Placed(x, p).src = x.src /\ D!Placed(x, p).name = x.name
<1>1. D!Placed(x, p) = [folder |-> p, recorded |-> p, src |-> x.src, name |-> x.name, rev |-> x.rev + 1]
  <2>1. x = [folder |-> x.folder, recorded |-> x.recorded, src |-> x.src, name |-> x.name, rev |-> x.rev]
    BY DEF D!DocRow
  <2>2. PICK y : y = [x EXCEPT !.folder = p, !.recorded = p, !.rev = @ + 1]
    OBVIOUS
  <2>3. DOMAIN y = {"folder", "recorded", "src", "name", "rev"}
    BY <2>1, <2>2
  <2>4. y.folder = p /\ y.recorded = p /\ y.src = x.src /\ y.name = x.name /\ y.rev = x.rev + 1
    BY <2>1, <2>2
  <2>5. y = [z \in {"folder", "recorded", "src", "name", "rev"} |-> y[z]]
    BY <2>2, <2>3
  <2>6. y = [folder |-> y.folder, recorded |-> y.recorded, src |-> y.src, name |-> y.name, rev |-> y.rev]
    BY <2>5
  <2> QED  BY <2>2, <2>4, <2>6 DEF D!Placed
<1>2. x.src \in Files \cup {None} /\ x.name \in D!NodeNames /\ x.rev + 1 \in Nat
  BY DEF D!DocRow
<1>3. D!Placed(x, p) \in D!DocRow
  BY <1>1, <1>2 DEF D!DocRow
<1> QED  BY <1>1, <1>3, Constants

LEMMA FileRows ==
    ASSUME NEW x \in D!FileRow, NEW p \in Seq(D!NodeNames)
    PROVE  /\ x # None
           /\ [x EXCEPT !.folder = p] \in D!FileRow /\ [x EXCEPT !.folder = p].folder = p
           /\ [x EXCEPT !.folder = p] # None
           /\ [x EXCEPT !.folder = p].owner = x.owner
<1>1. [x EXCEPT !.folder = p] \in D!FileRow
  BY DEF D!FileRow
<1> QED  BY <1>1, Constants DEF D!FileRow

LEMMA KeysApart ==
    ASSUME NEW ps, NEW fs, NEW ds
    PROVE  /\ \A p : D!FolderRow(p) \in D!Keys(ps, fs, ds) <=> p \in ps
           /\ \A f : D!FileKey(f) \in D!Keys(ps, fs, ds) <=> f \in fs
           /\ \A d : D!DocKey(d) \in D!Keys(ps, fs, ds) <=> d \in ds
  BY DEF D!Keys, D!FolderRow, D!FileKey, D!DocKey

(* The first free copy of a name.                                             *)

LEMMA LeastNumber ==
    ASSUME NEW Z \in SUBSET Nat, Z # {}
    PROVE  \E m \in Z : \A k \in Z : m <= k
<1> DEFINE O == OpToRel(<, Nat)
<1>1. IsWellFoundedOn(O, Nat)
  BY NatLessThanWellFounded
<1>2. \A k, m \in Nat : k < m => <<k, m>> \in O
  BY DEF OpToRel
<1> HIDE DEF O
<1>3. PICK m \in Z : \A k \in Z : ~(<<k, m>> \in O)
  BY <1>1, WFMin
<1>4. m \in Nat /\ \A k \in Z : k \in Nat
  OBVIOUS
<1>5. \A k \in Z : ~(k < m)
  BY <1>2, <1>3, <1>4
<1> QED  BY <1>4, <1>5

LEMMA Induction ==
    ASSUME NEW S, 0 \in S, \A m \in Nat : m \in S => m + 1 \in S
    PROVE  Nat \subseteq S
<1> DEFINE Z == Nat \ S
<1> SUFFICES ASSUME Z # {} PROVE FALSE
  OBVIOUS
<1>1. PICK m \in Z : \A k \in Z : m <= k
  BY LeastNumber
<1>2. m # 0 /\ m - 1 \in Nat /\ m - 1 < m /\ m = (m - 1) + 1
  BY <1>1
<1>3. m - 1 \in S
  BY <1>1, <1>2
<1> QED  BY <1>1, <1>2, <1>3

LEMMA CopiesAre == \E m \in Nat : D!Copies = 0 .. m
<1>1. IsFiniteSet(Docs)
  BY TreeAxiom DEF D!TreeAssumption, D!IsFiniteSet, IsFiniteSet
<1>2. D!Cardinality(Docs) = Cardinality(Docs)
  BY DEF D!Cardinality, Cardinality
<1> QED  BY <1>1, <1>2, FS_CardinalityType DEF D!Copies

LEMMA CopiesNat == D!Copies \subseteq Nat
  BY CopiesAre

LEMMA NamePair ==
    ASSUME NEW x \in D!NodeNames
    PROVE  x[1] \in Titles /\ \A k \in D!Copies : <<x[1], k>> \in D!NodeNames
  BY DEF D!NodeNames

\* A free name is a name.
LEMMA FirstFreeName ==
    ASSUME NEW x \in D!NodeNames, NEW taken
    PROVE  D!FirstFree(x, taken) \in D!NodeNames
<1> DEFINE free == ({x[1]} \X (D!Copies \ {0})) \ taken
           Z == {k \in D!Copies \ {0} : <<x[1], k>> \notin taken}
<1>1. CASE x \notin taken \/ free = {}
  BY <1>1 DEF D!FirstFree
<1>2. CASE ~(x \notin taken \/ free = {})
  <2>1. Z \in SUBSET Nat /\ Z # {}
    <3>1. PICK y : y \in free
      BY <1>2
    <3>2. y[2] \in Z /\ y = <<x[1], y[2]>>
      BY <3>1
    <3> QED  BY <3>2, CopiesNat
  <2>2. PICK m \in Z : \A k \in Z : m <= k
    BY <2>1, LeastNumber
  <2>3. m \in Nat /\ m # 0 /\ m \in D!Copies
    BY <2>1, <2>2
  <2>4. ASSUME NEW k \in 1 .. m - 1 PROVE <<x[1], k>> \in taken
    BY <2>3, CopiesAre, <2>2
  <2>5. <<x[1], m>> \in free /\ \A k \in 1 .. <<x[1], m>>[2] - 1 : <<x[1], k>> \in taken
    BY <2>2, <2>3, <2>4
  <2>6. PICK z : z = CHOOSE c \in free : \A k \in 1 .. c[2] - 1 : <<x[1], k>> \in taken
    OBVIOUS
  <2>7. z \in free
    BY <2>5, <2>6
  <2>8. D!FirstFree(x, taken) = z
    BY <1>2, <2>6 DEF D!FirstFree
  <2> QED  BY <2>7, <2>8, NamePair
<1> QED  BY <1>1, <1>2

(* What a transaction with the view v leaves at each of its steps, when it    *)
(* has locked the folders ps, the files fs and the documents ds and the rows  *)
(* M are excused: a tree u whose new rows lie in folders that are new or      *)
(* locked.                                                                    *)

KnownFolder(p, M) == \E r \in D!Paths \ {D!Home} : D!FolderRow(r) \in M /\ r[Len(r)] = p[Len(p)]

FoldersKept(v, u, ps, M) ==
    \A p \in u.folders \ {D!Home} :
        \/ KnownFolder(p, M)
        \/ /\ D!Parent(p) \in u.folders
           /\ p \notin v.folders /\ D!Parent(p) \in v.folders => D!Parent(p) \in ps

FilesKept(v, u, ps, M) ==
    \A f \in D!AllFiles(u) :
        \/ D!FileKey(f) \in M
        \/ /\ u.files[f].folder \in u.folders
           /\ u.files[f] # v.files[f] /\ u.files[f].folder \in v.folders => u.files[f].folder \in ps

DocsKept(v, u, ps, M) ==
    \A d \in D!AllDocs(u) :
        \/ D!DocKey(d) \in M
        \/ /\ u.docs[d].folder \in u.folders
           /\ u.docs[d] # v.docs[d] /\ u.docs[d].folder \in v.folders => u.docs[d].folder \in ps

SourcesLocked(v, u, fs, M) ==
    \A d \in D!AllDocs(u) :
        u.docs[d] # v.docs[d] /\ D!DocKey(d) \notin M /\ u.docs[d].src \in D!AllFiles(v) => u.docs[d].src \in fs

RemovedLocked(v, u, ps) == \A p \in v.folders \ u.folders : p \in ps

Kept(v, u, ps, fs, M) ==
    /\ u \in D!Tree
    /\ FoldersKept(v, u, ps, M)
    /\ FilesKept(v, u, ps, M)
    /\ DocsKept(v, u, ps, M)
    /\ SourcesLocked(v, u, fs, M)
    /\ D!WithSources(u, M)
    /\ RemovedLocked(v, u, ps)

\* Documents that change are locked or excused, and none is new; a source
\* that changes is a new file.
DocsOwned(v, u, ds, M) ==
    \A d \in D!AllDocs(v) : v.docs[d] # u.docs[d] => d \in ds \/ D!DocKey(d) \in M
NoneNew(v, u) ==
    \A d \in D!AllDocs(u) :
        d \in D!AllDocs(v) /\ (u.docs[d].src = v.docs[d].src \/ u.docs[d].src \notin D!AllFiles(v))

Steady(v, u, ps, fs, ds, M) == Kept(v, u, ps, fs, M) /\ DocsOwned(v, u, ds, M) /\ NoneNew(v, u)

Sound(v, M) == v \in D!Tree /\ D!InFolders(v, M) /\ D!WithSources(v, M)

LEMMA PathHasName == \A p \in D!Paths \ {D!Home} : Len(p) \in Nat \ {0}
  BY PathSeq, ParentOf

\* A transaction starts with its view.
LEMMA SteadyAtFirst ==
    ASSUME NEW v, NEW M, Sound(v, M), NEW ps, NEW fs, NEW ds
    PROVE  Steady(v, v, ps, fs, ds, M)
<1>1. FoldersKept(v, v, ps, M)
  BY TreeRows DEF Sound, D!InFolders, FoldersKept, KnownFolder
<1>2. FilesKept(v, v, ps, M) /\ DocsKept(v, v, ps, M)
  BY DEF Sound, D!InFolders, FilesKept, DocsKept
<1>3. SourcesLocked(v, v, fs, M) /\ RemovedLocked(v, v, ps) /\ DocsOwned(v, v, ds, M) /\ NoneNew(v, v)
  BY DEF SourcesLocked, RemovedLocked, DocsOwned, NoneNew
<1> QED  BY <1>1, <1>2, <1>3 DEF Steady, Kept, Sound

LEMMA RebasedIn ==
    ASSUME NEW r \in Seq(D!NodeNames), NEW p \in Seq(D!NodeNames), NEW q \in Seq(D!NodeNames)
    PROVE  D!Rebased(r, p, q) \in Seq(D!NodeNames)
<1>1. CASE D!Below(r, p)
  BY <1>1, RebasedMeans DEF MovedTo
<1> QED  BY <1>1, RebasedOther

\* What is left when the folder p has gone to q.
RelocatedTo(w, u, p, q) ==
    /\ w \in D!Tree
    /\ w.folders = {D!Rebased(r, p, q) : r \in u.folders}
    /\ D!AllFiles(w) = D!AllFiles(u) /\ D!AllDocs(w) = D!AllDocs(u)
    /\ \A f \in D!AllFiles(u) : /\ w.files[f].folder = D!Rebased(u.files[f].folder, p, q)
                                /\ w.files[f].folder = u.files[f].folder => w.files[f] = u.files[f]
    /\ \A d \in D!AllDocs(u) :
           IF u.docs[d].folder \in D!Subtree(u, p)
           THEN /\ w.docs[d].folder = D!Rebased(u.docs[d].folder, p, q)
                /\ w.docs[d].recorded = w.docs[d].folder
                /\ w.docs[d].src = u.docs[d].src
           ELSE w.docs[d] = u.docs[d]

LEMMA RelocatedMeans ==
    ASSUME NEW u \in D!Tree, NEW p \in Seq(D!NodeNames), NEW q \in Seq(D!NodeNames),
           \A r \in u.folders : D!Rebased(r, p, q) \in D!Paths,
           NEW w, w = D!Relocated(u, p, q)
    PROVE  RelocatedTo(w, u, p, q)
<1> DEFINE NewFile(f) == IF u.files[f] = None THEN None
                         ELSE [u.files[f] EXCEPT !.folder = D!Rebased(@, p, q)]
           NewDoc(d) == IF d \in D!DocsIn(u, D!Subtree(u, p))
                        THEN D!Placed(u.docs[d], D!Rebased(u.docs[d].folder, p, q)) ELSE u.docs[d]
<1>1. w = [folders |-> {D!Rebased(r, p, q) : r \in u.folders}, files |-> [f \in Files |-> NewFile(f)],
           docs |-> [d \in Docs |-> NewDoc(d)]]
  BY DEF D!Relocated
<1>2. ASSUME NEW f \in D!AllFiles(u)
      PROVE  /\ NewFile(f) \in D!FileRow /\ NewFile(f) # None
             /\ NewFile(f).folder = D!Rebased(u.files[f].folder, p, q)
             /\ NewFile(f).folder = u.files[f].folder => NewFile(f) = u.files[f]
  <2>1. u.files[f] # None /\ u.files[f] \in D!FileRow /\ u.files[f].folder \in Seq(D!NodeNames)
    BY TreeRows DEF D!AllFiles
  <2>2. PICK y : y = D!Rebased(u.files[f].folder, p, q)
    OBVIOUS
  <2>3. y \in Seq(D!NodeNames)
    BY <2>1, <2>2, RebasedIn
  <2>4. NewFile(f) = [u.files[f] EXCEPT !.folder = y]
    BY <2>1, <2>2
  <2>5. y = u.files[f].folder => [u.files[f] EXCEPT !.folder = y] = u.files[f]
    BY <2>1 DEF D!FileRow
  <2>6. PICK x : x = u.files[f]
    OBVIOUS
  <2>7. [x EXCEPT !.folder = y] \in D!FileRow /\ [x EXCEPT !.folder = y].folder = y /\ [x EXCEPT !.folder = y] # None
    BY <2>1, <2>3, <2>6, FileRows
  <2> HIDE DEF NewFile
  <2> QED  BY <2>2, <2>4, <2>5, <2>6, <2>7
<1>3. ASSUME NEW d \in D!AllDocs(u)
      PROVE  /\ NewDoc(d) \in D!DocRow /\ NewDoc(d) # None
             /\ IF u.docs[d].folder \in D!Subtree(u, p)
                THEN /\ NewDoc(d).folder = D!Rebased(u.docs[d].folder, p, q)
                     /\ NewDoc(d).recorded = NewDoc(d).folder
                     /\ NewDoc(d).src = u.docs[d].src
                ELSE NewDoc(d) = u.docs[d]
  <2>1. u.docs[d] # None /\ u.docs[d] \in D!DocRow /\ u.docs[d].folder \in Seq(D!NodeNames)
    BY TreeRows DEF D!AllDocs
  <2>2. PICK y : y = D!Rebased(u.docs[d].folder, p, q)
    OBVIOUS
  <2>3. y \in Seq(D!NodeNames)
    BY <2>1, <2>2, RebasedIn
  <2>4. d \in D!DocsIn(u, D!Subtree(u, p)) <=> u.docs[d].folder \in D!Subtree(u, p)
    BY DEF D!DocsIn
  <2>5. NewDoc(d) = IF u.docs[d].folder \in D!Subtree(u, p) THEN D!Placed(u.docs[d], y) ELSE u.docs[d]
    BY <2>2, <2>4
  <2> HIDE DEF NewDoc
  <2>6. PICK x : x = u.docs[d]
    OBVIOUS
  <2>7. /\ D!Placed(x, y) \in D!DocRow /\ D!Placed(x, y) # None
        /\ D!Placed(x, y).folder = y /\ D!Placed(x, y).recorded = y /\ D!Placed(x, y).src = x.src
    BY <2>1, <2>3, <2>6, PlacedRow
  <2> QED  BY <2>1, <2>2, <2>5, <2>6, <2>7
<1>4. /\ \A f \in Files : f \notin D!AllFiles(u) => NewFile(f) = None
      /\ \A d \in Docs : d \notin D!AllDocs(u) => NewDoc(d) = None
  BY DEF D!AllFiles, D!AllDocs, D!DocsIn
<1> HIDE DEF NewFile, NewDoc
<1>5. /\ w.folders = {D!Rebased(r, p, q) : r \in u.folders} /\ w.files = [f \in Files |-> NewFile(f)]
      /\ w.docs = [d \in Docs |-> NewDoc(d)] /\ w = [folders |-> w.folders, files |-> w.files, docs |-> w.docs]
  BY <1>1
<1>6. D!AllFiles(u) \subseteq Files /\ D!AllDocs(u) \subseteq Docs
  BY DEF D!AllFiles, D!AllDocs
<1>7. w.folders \subseteq D!Paths
  BY <1>5
<1>8. /\ \A f \in Files : NewFile(f) \in D!FileRow \cup {None}
      /\ \A d \in Docs : NewDoc(d) \in D!DocRow \cup {None}
  BY <1>2, <1>3, <1>4
<1>9. w.files \in [Files -> D!FileRow \cup {None}] /\ w.docs \in [Docs -> D!DocRow \cup {None}]
  BY <1>5, <1>8
<1>10. w \in D!Tree
  BY <1>5, <1>7, <1>9, TreeMade
<1>11. D!AllFiles(w) = D!AllFiles(u) /\ D!AllDocs(w) = D!AllDocs(u)
  BY <1>2, <1>3, <1>4, <1>5, <1>6 DEF D!AllFiles, D!AllDocs
<1>12. ASSUME NEW f \in D!AllFiles(u)
       PROVE  /\ w.files[f].folder = D!Rebased(u.files[f].folder, p, q)
              /\ w.files[f].folder = u.files[f].folder => w.files[f] = u.files[f]
  BY <1>2, <1>5, <1>6
<1>13. ASSUME NEW d \in D!AllDocs(u)
       PROVE  IF u.docs[d].folder \in D!Subtree(u, p)
              THEN /\ w.docs[d].folder = D!Rebased(u.docs[d].folder, p, q)
                   /\ w.docs[d].recorded = w.docs[d].folder
                   /\ w.docs[d].src = u.docs[d].src
              ELSE w.docs[d] = u.docs[d]
  BY <1>3, <1>5, <1>6
<1> QED  BY <1>5, <1>10, <1>11, <1>12, <1>13 DEF RelocatedTo

\* The folder p and all below it go to a place where there was nothing.
LEMMA RelocatedSteady ==
    ASSUME NEW v, NEW u, NEW ps, NEW fs, NEW ds, NEW M, Sound(v, M), Steady(v, u, ps, fs, ds, M),
           NEW p \in D!Paths \ {D!Home}, NEW q \in Seq(D!NodeNames), D!Movable(u, p, q),
           q # D!Home, D!Parent(q) \in u.folders, ~D!Below(D!Parent(q), p), D!Parent(q) \in ps,
           \A r \in D!Subtree(v, p) : r \in ps,
           D!FilesIn(v, D!Subtree(v, p)) \subseteq fs, D!DocsIn(v, D!Subtree(v, p)) \subseteq ds
    PROVE  Steady(v, D!Relocated(u, p, q), ps, fs, ds, M)
<1>1. v \in D!Tree /\ u \in D!Tree /\ p \in Seq(D!NodeNames) /\ u.folders \subseteq Seq(D!NodeNames)
  BY PathSeq, TreeRows DEF Sound, Steady, Kept
<1>2. PICK w : w = D!Relocated(u, p, q)
  OBVIOUS
<1>3. \A r \in u.folders : IF D!Below(r, p) THEN D!Rebased(r, p, q) \in D!Paths \ u.folders ELSE D!Rebased(r, p, q) = r
  BY RebasedOther DEF D!Movable, D!Subtree
<1>4. RelocatedTo(w, u, p, q)
  BY <1>1, <1>3, TreeRows, <1>2, RelocatedMeans
<1>5. w \in D!Tree /\ D!AllFiles(w) = D!AllFiles(u) /\ D!AllDocs(w) = D!AllDocs(u)
      /\ w.folders = {D!Rebased(r, p, q) : r \in u.folders}
  BY <1>4 DEF RelocatedTo
<1>6. \A f \in D!AllFiles(u) : /\ w.files[f].folder = D!Rebased(u.files[f].folder, p, q)
                               /\ w.files[f].folder = u.files[f].folder => w.files[f] = u.files[f]
  BY <1>4 DEF RelocatedTo
<1>7. ASSUME NEW d \in D!AllDocs(u), u.docs[d].folder \in u.folders
      PROVE  IF D!Below(u.docs[d].folder, p)
             THEN /\ w.docs[d].folder = D!Rebased(u.docs[d].folder, p, q)
                  /\ w.docs[d].recorded = w.docs[d].folder
                  /\ w.docs[d].src = u.docs[d].src
             ELSE w.docs[d] = u.docs[d]
  BY <1>4, <1>7 DEF RelocatedTo, D!Subtree
<1>8. \A d \in D!AllDocs(u) : /\ w.docs[d].src = u.docs[d].src
                              /\ u.docs[d].folder \notin D!Subtree(u, p) => w.docs[d] = u.docs[d]
  BY <1>4 DEF RelocatedTo
<1>9. \A r \in u.folders : D!Rebased(r, p, q) \in w.folders
  BY <1>5
<1>10. \A r \in u.folders : ~D!Below(r, p) => r \in w.folders
  BY <1>3, <1>9
\* Where nothing was in u, only what is locked was in the view.
<1>11. \A r \in u.folders : D!Below(r, p) /\ D!Rebased(r, p, q) \in v.folders => D!Rebased(r, p, q) \in ps
  BY <1>3 DEF Steady, Kept, RemovedLocked
<1>12. FoldersKept(v, w, ps, M)
  <2> SUFFICES ASSUME NEW t \in w.folders \ {D!Home}, ~KnownFolder(t, M)
               PROVE  D!Parent(t) \in w.folders /\ (t \notin v.folders /\ D!Parent(t) \in v.folders => D!Parent(t) \in ps)
    BY DEF FoldersKept
  <2>1. PICK r \in u.folders : t = D!Rebased(r, p, q)
    BY <1>5
  <2>2. CASE ~D!Below(r, p)
    BY <1>3, <2>1, <2>2, <1>1, BelowParent, <1>10 DEF Steady, Kept, FoldersKept
  <2>3. CASE r = p
    <3>1. t = q
      BY <1>1, <2>1, <2>3, RebasedRoot
    <3> QED  BY <1>10, <3>1
  <2>4. CASE D!Below(r, p) /\ r # p
    <3>1. r # D!Home /\ r \in Seq(D!NodeNames) /\ D!Below(D!Parent(r), p)
      BY <1>1, <2>4, BelowMeans, LenProperties, EmptySeq, BelowParent DEF D!Home
    <3>2. D!Parent(t) = D!Rebased(D!Parent(r), p, q) /\ t[Len(t)] = r[Len(r)]
      BY <1>1, <2>1, <2>4, <3>1, RebasedChild
    <3>3. ~KnownFolder(r, M)
      BY <3>2 DEF KnownFolder
    <3>4. D!Parent(r) \in u.folders
      BY <3>1, <3>3 DEF Steady, Kept, FoldersKept
    <3> QED  BY <1>9, <1>11, <3>1, <3>2, <3>4
  <2> QED  BY <1>1, <2>2, <2>3, <2>4, BelowSelf
<1>13. FilesKept(v, w, ps, M)
  <2> SUFFICES ASSUME NEW f \in D!AllFiles(w), D!FileKey(f) \notin M
               PROVE  /\ w.files[f].folder \in w.folders
                      /\ w.files[f] # v.files[f] /\ w.files[f].folder \in v.folders => w.files[f].folder \in ps
    BY DEF FilesKept
  <2>1. /\ f \in D!AllFiles(u) /\ u.files[f].folder \in u.folders
        /\ u.files[f] # v.files[f] /\ u.files[f].folder \in v.folders => u.files[f].folder \in ps
    BY <1>5 DEF Steady, Kept, FilesKept
  <2> QED  BY <1>3, <1>9, <1>11, <1>6, <2>1
<1>14. DocsKept(v, w, ps, M)
  <2> SUFFICES ASSUME NEW d \in D!AllDocs(w), D!DocKey(d) \notin M
               PROVE  /\ w.docs[d].folder \in w.folders
                      /\ w.docs[d] # v.docs[d] /\ w.docs[d].folder \in v.folders => w.docs[d].folder \in ps
    BY DEF DocsKept
  <2>1. /\ d \in D!AllDocs(u) /\ u.docs[d].folder \in u.folders
        /\ u.docs[d] # v.docs[d] /\ u.docs[d].folder \in v.folders => u.docs[d].folder \in ps
    BY <1>5 DEF Steady, Kept, DocsKept
  <2> QED  BY <1>3, <1>9, <1>11, <1>7, <2>1
\* A document that moves lies in the folder of its source.
<1>15. ASSUME NEW d \in D!AllDocs(u), D!DocKey(d) \notin M
       PROVE  /\ u.docs[d].folder \in u.folders /\ u.docs[d].recorded = u.docs[d].folder
              /\ u.docs[d].src # None =>
                    u.docs[d].src \in D!AllFiles(u) /\ u.files[u.docs[d].src].folder = u.docs[d].folder
  BY <1>15 DEF Steady, Kept, DocsKept, D!WithSources
<1>16. D!WithSources(w, M)
  <2> SUFFICES ASSUME NEW d \in D!AllDocs(w), D!DocKey(d) \notin M
               PROVE  /\ w.docs[d].recorded = w.docs[d].folder
                      /\ w.docs[d].src # None =>
                            w.docs[d].src \in D!AllFiles(w) /\ w.files[w.docs[d].src].folder = w.docs[d].folder
    BY DEF D!WithSources
  <2>1. d \in D!AllDocs(u) /\ w.docs[d].src = u.docs[d].src
    BY <1>5, <1>8
  <2>2. w.docs[d].folder = D!Rebased(u.docs[d].folder, p, q) /\ w.docs[d].recorded = w.docs[d].folder
    BY <1>3, <1>15, <1>7, <2>1
  <2>3. ASSUME w.docs[d].src # None
        PROVE  w.docs[d].src \in D!AllFiles(w) /\ w.files[w.docs[d].src].folder = w.docs[d].folder
    BY <1>15, <1>5, <1>6, <2>1, <2>2, <2>3
  <2> QED  BY <2>2, <2>3
\* A document that moves is one of the view's in the folder p, or has moved.
<1>17. ASSUME NEW d \in D!AllDocs(u), D!DocKey(d) \notin M, u.docs[d].folder \in D!Subtree(u, p), u.docs[d] = v.docs[d]
       PROVE  d \in D!DocsIn(v, D!Subtree(v, p)) /\ (u.docs[d].src \in D!AllFiles(v) => u.docs[d].src \in fs)
  <2>1. d \in D!AllDocs(v) /\ v.docs[d].folder \in v.folders
    BY <1>17 DEF Sound, D!InFolders, D!AllDocs
  <2>2. v.docs[d].folder \in D!Subtree(v, p)
    BY <1>17, <2>1 DEF D!Subtree
  <2>3. v.docs[d].src # None => v.files[v.docs[d].src].folder = v.docs[d].folder
    BY <1>17, <2>1 DEF Sound, D!WithSources
  <2>4. v.docs[d].src \in D!AllFiles(v) => v.docs[d].src # None
    BY Constants DEF D!AllFiles
  <2> QED  BY <1>17, <2>1, <2>2, <2>3, <2>4 DEF D!DocsIn, D!FilesIn
<1>18. SourcesLocked(v, w, fs, M)
  <2> SUFFICES ASSUME NEW d \in D!AllDocs(w), w.docs[d] # v.docs[d], D!DocKey(d) \notin M, w.docs[d].src \in D!AllFiles(v)
               PROVE  w.docs[d].src \in fs
    BY DEF SourcesLocked
  <2>1. d \in D!AllDocs(u) /\ w.docs[d].src = u.docs[d].src
    BY <1>5, <1>8
  <2>2. CASE u.docs[d] # v.docs[d]
    BY <2>1, <2>2 DEF Steady, Kept, SourcesLocked
  <2>3. CASE u.docs[d] = v.docs[d]
    BY <1>17, <1>8, <2>1, <2>3
  <2> QED  BY <2>2, <2>3
<1>19. RemovedLocked(v, w, ps)
  <2> SUFFICES ASSUME NEW r \in v.folders \ w.folders PROVE r \in ps
    BY DEF RemovedLocked
  <2>1. CASE r \in u.folders
    BY <1>10, <2>1 DEF D!Subtree
  <2> QED  BY <2>1 DEF Steady, Kept, RemovedLocked
<1>20. DocsOwned(v, w, ds, M)
  <2> SUFFICES ASSUME NEW d \in D!AllDocs(v), v.docs[d] # w.docs[d], D!DocKey(d) \notin M PROVE d \in ds
    BY DEF DocsOwned
  <2>1. CASE v.docs[d] # u.docs[d]
    BY <2>1 DEF Steady, DocsOwned
  <2>2. CASE v.docs[d] = u.docs[d]
    BY <2>2, <1>17, <1>8 DEF D!AllDocs
  <2> QED  BY <2>1, <2>2
<1>21. NoneNew(v, w)
  <2> SUFFICES ASSUME NEW d \in D!AllDocs(w)
               PROVE  d \in D!AllDocs(v) /\ (w.docs[d].src = v.docs[d].src \/ w.docs[d].src \notin D!AllFiles(v))
    BY DEF NoneNew
  <2>1. d \in D!AllDocs(u) /\ w.docs[d].src = u.docs[d].src
    BY <1>5, <1>8
  <2> QED  BY <2>1 DEF Steady, NoneNew
<1> QED  BY <1>2, <1>5, <1>12, <1>13, <1>14, <1>16, <1>18, <1>19, <1>20, <1>21 DEF Steady, Kept

\* A folder is moved to where it is.
LEMMA InPlaceSteady ==
    ASSUME NEW v, NEW u, NEW ps, NEW fs, NEW ds, NEW M, Sound(v, M), Steady(v, u, ps, fs, ds, M),
           NEW p \in D!Paths, \A r \in D!Subtree(v, p) : r \in ps,
           D!FilesIn(v, D!Subtree(v, p)) \subseteq fs, D!DocsIn(v, D!Subtree(v, p)) \subseteq ds
    PROVE  Steady(v, D!Relocated(u, p, p), ps, fs, ds, M)
<1>1. v \in D!Tree /\ u \in D!Tree /\ p \in Seq(D!NodeNames) /\ u.folders \subseteq Seq(D!NodeNames)
  BY PathSeq, TreeRows DEF Sound, Steady, Kept
<1>2. PICK w : w = D!Relocated(u, p, p)
  OBVIOUS
<1>3. \A r \in Seq(D!NodeNames) : D!Rebased(r, p, p) = r
  BY <1>1, RebasedSame
<1>4. /\ w \in D!Tree /\ w.folders = u.folders /\ D!AllFiles(w) = D!AllFiles(u) /\ D!AllDocs(w) = D!AllDocs(u)
      /\ \A f \in D!AllFiles(u) : w.files[f] = u.files[f]
      /\ \A d \in D!AllDocs(u) :
             IF u.docs[d].folder \in D!Subtree(u, p)
             THEN /\ w.docs[d].folder = u.docs[d].folder
                  /\ w.docs[d].recorded = w.docs[d].folder
                  /\ w.docs[d].src = u.docs[d].src
             ELSE w.docs[d] = u.docs[d]
  <2>1. \A r \in u.folders : D!Rebased(r, p, p) \in D!Paths
    BY <1>1, <1>3, TreeRows
  <2>2. RelocatedTo(w, u, p, p)
    BY <1>1, <1>2, <2>1, RelocatedMeans
  <2>3. w \in D!Tree /\ w.folders = u.folders /\ D!AllFiles(w) = D!AllFiles(u) /\ D!AllDocs(w) = D!AllDocs(u)
    BY <1>1, <1>3, <2>2 DEF RelocatedTo
  <2>4. ASSUME NEW f \in D!AllFiles(u) PROVE w.files[f] = u.files[f]
    BY <1>1, <1>3, TreeRows, <2>2 DEF RelocatedTo
  <2>5. ASSUME NEW d \in D!AllDocs(u)
        PROVE  IF u.docs[d].folder \in D!Subtree(u, p)
               THEN /\ w.docs[d].folder = u.docs[d].folder
                    /\ w.docs[d].recorded = w.docs[d].folder
                    /\ w.docs[d].src = u.docs[d].src
               ELSE w.docs[d] = u.docs[d]
    BY <1>1, <1>3, TreeRows, <2>2 DEF RelocatedTo
  <2> QED  BY <2>3, <2>4, <2>5
<1>5. FoldersKept(v, w, ps, M) /\ FilesKept(v, w, ps, M) /\ RemovedLocked(v, w, ps)
  BY <1>4 DEF Steady, Kept, FoldersKept, FilesKept, RemovedLocked
<1>6. \A d \in D!AllDocs(u) : w.docs[d].folder = u.docs[d].folder /\ w.docs[d].src = u.docs[d].src
  BY <1>4
<1>7. ASSUME NEW d \in D!AllDocs(u), u.docs[d] = v.docs[d], w.docs[d] # u.docs[d], D!DocKey(d) \notin M
      PROVE  /\ d \in D!DocsIn(v, D!Subtree(v, p)) /\ u.docs[d].folder \in ps
             /\ u.docs[d].src \in D!AllFiles(v) => u.docs[d].src \in fs
  <2>1. d \in D!AllDocs(v) /\ v.docs[d].folder \in v.folders /\ v.docs[d].folder \in D!Subtree(u, p)
    BY <1>4, <1>7 DEF Sound, D!InFolders, D!AllDocs
  <2>2. v.docs[d].folder \in D!Subtree(v, p)
    BY <2>1 DEF D!Subtree
  <2>3. v.docs[d].src # None => v.files[v.docs[d].src].folder = v.docs[d].folder
    BY <1>7, <2>1 DEF Sound, D!WithSources
  <2>4. v.docs[d].src \in D!AllFiles(v) => v.docs[d].src # None
    BY Constants DEF D!AllFiles
  <2> QED  BY <1>7, <2>1, <2>2, <2>3, <2>4 DEF D!DocsIn, D!FilesIn
<1>8. DocsKept(v, w, ps, M)
  <2> SUFFICES ASSUME NEW d \in D!AllDocs(w), D!DocKey(d) \notin M
               PROVE  /\ w.docs[d].folder \in w.folders
                      /\ w.docs[d] # v.docs[d] /\ w.docs[d].folder \in v.folders => w.docs[d].folder \in ps
    BY DEF DocsKept
  <2>1. /\ d \in D!AllDocs(u) /\ u.docs[d].folder \in u.folders
        /\ u.docs[d] # v.docs[d] /\ u.docs[d].folder \in v.folders => u.docs[d].folder \in ps
    BY <1>4 DEF Steady, Kept, DocsKept
  <2> QED  BY <1>4, <1>6, <1>7, <2>1
<1>9. D!WithSources(w, M)
  <2> SUFFICES ASSUME NEW d \in D!AllDocs(w), D!DocKey(d) \notin M
               PROVE  /\ w.docs[d].recorded = w.docs[d].folder
                      /\ w.docs[d].src # None =>
                            w.docs[d].src \in D!AllFiles(w) /\ w.files[w.docs[d].src].folder = w.docs[d].folder
    BY DEF D!WithSources
  <2>1. /\ d \in D!AllDocs(u) /\ u.docs[d].recorded = u.docs[d].folder
        /\ u.docs[d].src # None =>
              u.docs[d].src \in D!AllFiles(u) /\ u.files[u.docs[d].src].folder = u.docs[d].folder
    BY <1>4 DEF Steady, Kept, D!WithSources
  <2> QED  BY <1>4, <2>1
<1>10. SourcesLocked(v, w, fs, M)
  <2> SUFFICES ASSUME NEW d \in D!AllDocs(w), w.docs[d] # v.docs[d], D!DocKey(d) \notin M, w.docs[d].src \in D!AllFiles(v)
               PROVE  w.docs[d].src \in fs
    BY DEF SourcesLocked
  <2>1. u.docs[d] # v.docs[d] => u.docs[d].src \in fs
    BY <1>4, <1>6 DEF Steady, Kept, SourcesLocked
  <2> QED  BY <1>4, <1>6, <1>7, <2>1
<1>11. DocsOwned(v, w, ds, M)
  <2> SUFFICES ASSUME NEW d \in D!AllDocs(v), v.docs[d] # w.docs[d], D!DocKey(d) \notin M PROVE d \in ds
    BY DEF DocsOwned
  <2>1. v.docs[d] # u.docs[d] => d \in ds
    BY DEF Steady, DocsOwned
  <2>2. v.docs[d] = u.docs[d] => d \in D!AllDocs(u)
    BY DEF D!AllDocs
  <2> QED  BY <1>7, <2>1, <2>2
<1>12. NoneNew(v, w)
  BY <1>4, <1>6 DEF Steady, NoneNew
<1> QED  BY <1>2, <1>4, <1>5, <1>8, <1>9, <1>10, <1>11, <1>12 DEF Steady, Kept

\* A folder goes with all that is in it.
LEMMA DeleteFolderSteady ==
    ASSUME NEW v, NEW u, NEW ps, NEW fs, NEW ds, NEW M, Sound(v, M), Steady(v, u, ps, fs, ds, M),
           NEW op, op.path \in D!Paths, NEW w \in D!DeleteFolder(u, op),
           \A r \in D!Subtree(v, op.path) : r \in ps,
           D!DocsIn(v, D!Subtree(v, op.path)) \subseteq ds
    PROVE  Steady(v, w, ps, fs, ds, M)
<1> DEFINE out == D!Subtree(u, op.path)
           gone == D!DocsIn(u, out)
           files == D!FilesIn(u, out) \cup (UNION {D!AttachedTo(u, d) : d \in gone} \ D!FilesIn(u, out))
<1>1. v \in D!Tree /\ u \in D!Tree /\ op.path \in Seq(D!NodeNames) /\ u.folders \subseteq Seq(D!NodeNames)
  BY PathSeq, TreeRows DEF Sound, Steady, Kept
<1>2. /\ \A f \in files : D!SourceOf(u, f) \subseteq gone
      /\ w = [folders |-> u.folders \ out,
              files |-> [f \in Files |-> IF f \in files THEN None ELSE u.files[f]],
              docs |-> [d \in Docs |-> IF d \in gone THEN None ELSE u.docs[d]]]
  BY DEF D!DeleteFolder, D!When
<1>3. /\ \A f \in D!FilesIn(u, out) : f \in files
      /\ \A d : d \in gone <=> d \in D!AllDocs(u) /\ u.docs[d].folder \in out
  BY DEF D!DocsIn
<1> HIDE DEF files, gone
<1>4. /\ w.folders = u.folders \ out
      /\ \A f : f \in D!AllFiles(w) <=> f \in D!AllFiles(u) /\ f \notin files
      /\ \A f \in D!AllFiles(w) : w.files[f] = u.files[f]
      /\ \A d : d \in D!AllDocs(w) <=> d \in D!AllDocs(u) /\ d \notin gone
      /\ \A d \in D!AllDocs(w) : w.docs[d] = u.docs[d]
  BY <1>2 DEF D!AllFiles, D!AllDocs
<1>5. w \in D!Tree
  BY <1>1, <1>2, TreeRows, TreeMade
<1>6. FoldersKept(v, w, ps, M)
  <2> SUFFICES ASSUME NEW t \in w.folders \ {D!Home}, ~KnownFolder(t, M)
               PROVE  D!Parent(t) \in w.folders /\ (t \notin v.folders /\ D!Parent(t) \in v.folders => D!Parent(t) \in ps)
    BY DEF FoldersKept
  <2>1. D!Parent(t) \in u.folders /\ (t \notin v.folders /\ D!Parent(t) \in v.folders => D!Parent(t) \in ps)
    BY <1>4 DEF Steady, Kept, FoldersKept
  <2>2. ~D!Below(t, op.path)
    BY <1>4 DEF D!Subtree
  <2>3. ~D!Below(D!Parent(t), op.path)
    BY <1>1, <1>4, <2>2, BelowParent
  <2> QED  BY <1>4, <2>1, <2>3 DEF D!Subtree
<1>7. FilesKept(v, w, ps, M)
  <2> SUFFICES ASSUME NEW f \in D!AllFiles(w), D!FileKey(f) \notin M
               PROVE  /\ w.files[f].folder \in w.folders
                      /\ w.files[f] # v.files[f] /\ w.files[f].folder \in v.folders => w.files[f].folder \in ps
    BY DEF FilesKept
  <2>1. /\ f \in D!AllFiles(u) /\ f \notin D!FilesIn(u, out) /\ u.files[f].folder \in u.folders
        /\ u.files[f] # v.files[f] /\ u.files[f].folder \in v.folders => u.files[f].folder \in ps
    BY <1>3, <1>4 DEF Steady, Kept, FilesKept
  <2> QED  BY <1>4, <2>1 DEF D!FilesIn
<1>8. DocsKept(v, w, ps, M)
  <2> SUFFICES ASSUME NEW d \in D!AllDocs(w), D!DocKey(d) \notin M
               PROVE  /\ w.docs[d].folder \in w.folders
                      /\ w.docs[d] # v.docs[d] /\ w.docs[d].folder \in v.folders => w.docs[d].folder \in ps
    BY DEF DocsKept
  <2>1. /\ d \in D!AllDocs(u) /\ d \notin gone /\ u.docs[d].folder \in u.folders
        /\ u.docs[d] # v.docs[d] /\ u.docs[d].folder \in v.folders => u.docs[d].folder \in ps
    BY <1>4 DEF Steady, Kept, DocsKept
  <2> QED  BY <1>3, <1>4, <2>1
<1>9. D!WithSources(w, M)
  <2> SUFFICES ASSUME NEW d \in D!AllDocs(w), D!DocKey(d) \notin M
               PROVE  /\ w.docs[d].recorded = w.docs[d].folder
                      /\ w.docs[d].src # None =>
                            w.docs[d].src \in D!AllFiles(w) /\ w.files[w.docs[d].src].folder = w.docs[d].folder
    BY DEF D!WithSources
  <2>1. /\ d \in D!AllDocs(u) /\ d \notin gone /\ u.docs[d].recorded = u.docs[d].folder
        /\ u.docs[d].src # None =>
              u.docs[d].src \in D!AllFiles(u) /\ u.files[u.docs[d].src].folder = u.docs[d].folder
    BY <1>4 DEF Steady, Kept, D!WithSources
  <2>2. u.docs[d].src \notin files
    BY <1>2, <2>1 DEF D!SourceOf
  <2> QED  BY <1>4, <2>1, <2>2
<1>10. SourcesLocked(v, w, fs, M) /\ NoneNew(v, w)
  BY <1>4 DEF Steady, Kept, SourcesLocked, NoneNew
<1>11. RemovedLocked(v, w, ps)
  BY <1>4 DEF Steady, Kept, RemovedLocked, D!Subtree
<1>12. DocsOwned(v, w, ds, M)
  <2> SUFFICES ASSUME NEW d \in D!AllDocs(v), v.docs[d] # w.docs[d], D!DocKey(d) \notin M PROVE d \in ds
    BY DEF DocsOwned
  <2>1. CASE v.docs[d] # u.docs[d]
    BY <2>1 DEF Steady, DocsOwned
  <2>2. CASE v.docs[d] = u.docs[d]
    BY <1>4, <2>2, <1>3 DEF D!AllDocs, Sound, D!InFolders, D!Subtree, D!DocsIn
  <2> QED  BY <2>1, <2>2
<1> QED  BY <1>5, <1>6, <1>7, <1>8, <1>9, <1>10, <1>11, <1>12 DEF Steady, Kept

\* A document goes with the files that are attached to it.
LEMMA DeleteDocumentSteady ==
    ASSUME NEW v, NEW u, NEW ps, NEW fs, NEW ds, NEW M, Sound(v, M), Steady(v, u, ps, fs, ds, M),
           NEW op, op.doc \in ds, NEW w \in D!DeleteDocument(u, op)
    PROVE  Steady(v, w, ps, fs, ds, M)
<1> DEFINE files == D!AttachedTo(u, op.doc)
<1>1. v \in D!Tree /\ u \in D!Tree
  BY DEF Sound, Steady, Kept
<1>2. /\ op.doc \in D!AllDocs(u) /\ \A f \in files : D!SourceOf(u, f) \subseteq {op.doc}
      /\ w = [u EXCEPT !.docs[op.doc] = None,
                       !.files = [f \in Files |-> IF f \in files THEN None ELSE u.files[f]]]
  BY DEF D!DeleteDocument, D!When
<1> HIDE DEF files
<1>3. /\ w.folders = u.folders /\ w.files = [f \in Files |-> IF f \in files THEN None ELSE u.files[f]]
      /\ w.docs = [u.docs EXCEPT ![op.doc] = None]
      /\ w = [folders |-> w.folders, files |-> w.files, docs |-> w.docs]
  BY <1>1, <1>2 DEF D!Tree
<1>4. /\ \A f : f \in D!AllFiles(w) <=> f \in D!AllFiles(u) /\ f \notin files
      /\ \A f \in D!AllFiles(w) : w.files[f] = u.files[f]
      /\ \A d : d \in D!AllDocs(w) <=> d \in D!AllDocs(u) /\ d # op.doc
      /\ \A d \in D!AllDocs(w) : w.docs[d] = u.docs[d]
      /\ \A d \in D!AllDocs(v) : d # op.doc => w.docs[d] = u.docs[d]
  BY <1>1, <1>3 DEF D!AllFiles, D!AllDocs, D!Tree
<1>5. w \in D!Tree
  BY <1>1, TreeRows, <1>3, TreeMade
<1>6. FoldersKept(v, w, ps, M) /\ FilesKept(v, w, ps, M) /\ DocsKept(v, w, ps, M)
  BY <1>3, <1>4 DEF Steady, Kept, FoldersKept, FilesKept, DocsKept
<1>7. D!WithSources(w, M)
  <2> SUFFICES ASSUME NEW d \in D!AllDocs(w), D!DocKey(d) \notin M
               PROVE  /\ w.docs[d].recorded = w.docs[d].folder
                      /\ w.docs[d].src # None =>
                            w.docs[d].src \in D!AllFiles(w) /\ w.files[w.docs[d].src].folder = w.docs[d].folder
    BY DEF D!WithSources
  <2>1. /\ d \in D!AllDocs(u) /\ d # op.doc /\ u.docs[d].recorded = u.docs[d].folder
        /\ u.docs[d].src # None =>
              u.docs[d].src \in D!AllFiles(u) /\ u.files[u.docs[d].src].folder = u.docs[d].folder
    BY <1>4 DEF Steady, Kept, D!WithSources
  <2>2. u.docs[d].src \notin files
    BY <1>2, <2>1 DEF D!SourceOf
  <2> QED  BY <1>4, <2>1, <2>2
<1>8. SourcesLocked(v, w, fs, M) /\ NoneNew(v, w) /\ RemovedLocked(v, w, ps)
  BY <1>3, <1>4 DEF Steady, Kept, SourcesLocked, NoneNew, RemovedLocked
<1>9. DocsOwned(v, w, ds, M)
  BY <1>4 DEF Steady, DocsOwned
<1> QED  BY <1>5, <1>6, <1>7, <1>8, <1>9 DEF Steady, Kept

(* Steps that leave the folders alone.                                        *)

Fits(v, u, ps, p) == p \in u.folders /\ (p \in v.folders => p \in ps)

\* A row is as it was, is excused or fits in.
RowsFit(v, u, w, ps, fs, M) ==
    /\ \A f \in D!AllFiles(w) :
           \/ f \in D!AllFiles(u) /\ w.files[f] = u.files[f]
           \/ D!FileKey(f) \in M
           \/ Fits(v, u, ps, w.files[f].folder)
    /\ \A d \in D!AllDocs(w) :
           \/ D!DocKey(d) \in M
           \/ /\ d \in D!AllDocs(u) /\ w.docs[d] = u.docs[d]
              /\ w.docs[d].src \in D!AllFiles(u) =>
                    /\ w.docs[d].src \in D!AllFiles(w)
                    /\ w.files[w.docs[d].src].folder = u.files[w.docs[d].src].folder
           \/ /\ Fits(v, u, ps, w.docs[d].folder)
              /\ w.docs[d].recorded = w.docs[d].folder
              /\ w.docs[d].src # None =>
                    w.docs[d].src \in D!AllFiles(w) /\ w.files[w.docs[d].src].folder = w.docs[d].folder
              /\ w.docs[d].src \in D!AllFiles(v) => w.docs[d].src \in fs

LEMMA RowsKept ==
    ASSUME NEW v, NEW u, NEW ps, NEW fs, NEW M, Kept(v, u, ps, fs, M),
           NEW w \in D!Tree, w.folders = u.folders, RowsFit(v, u, w, ps, fs, M)
    PROVE  Kept(v, w, ps, fs, M)
<1>1. FoldersKept(v, w, ps, M) /\ RemovedLocked(v, w, ps)
  BY DEF Kept, FoldersKept, RemovedLocked
<1>2. FilesKept(v, w, ps, M)
  BY DEF Kept, FilesKept, RowsFit, Fits
<1>3. DocsKept(v, w, ps, M)
  BY DEF Kept, DocsKept, RowsFit, Fits
<1>4. SourcesLocked(v, w, fs, M)
  BY DEF Kept, SourcesLocked, RowsFit
<1>5. D!WithSources(w, M)
  BY DEF Kept, D!WithSources, RowsFit
<1> QED  BY <1>1, <1>2, <1>3, <1>4, <1>5 DEF Kept

\* A table with one more or another row.
LEMMA FileSet ==
    ASSUME NEW t \in [Files -> D!FileRow \cup {None}], NEW f \in Files, NEW x \in D!FileRow \cup {None}
    PROVE  /\ [t EXCEPT ![f] = x] \in [Files -> D!FileRow \cup {None}]
           /\ [t EXCEPT ![f] = x][f] = x
           /\ \A k \in Files \ {f} : [t EXCEPT ![f] = x][k] = t[k]
  OBVIOUS

LEMMA DocSet ==
    ASSUME NEW t \in [Docs -> D!DocRow \cup {None}], NEW d \in Docs, NEW x \in D!DocRow \cup {None}
    PROVE  /\ [t EXCEPT ![d] = x] \in [Docs -> D!DocRow \cup {None}]
           /\ [t EXCEPT ![d] = x][d] = x
           /\ \A k \in Docs \ {d} : [t EXCEPT ![d] = x][k] = t[k]
  OBVIOUS

\* The rows of a tree are not taken for new ones.
FilesKnown(v) == \A f \in D!AllFiles(v) : D!FileKey(f) \in used
DocsKnown(v) == \A d \in D!AllDocs(v) : D!DocKey(d) \in used

LEMMA NewFile ==
    ASSUME NEW v, NEW u, FilesKnown(v), D!NewFiles(u) # {},
           NEW g, g = CHOOSE f \in D!NewFiles(u) : TRUE
    PROVE  g \in Files /\ g # None /\ g \notin D!AllFiles(u) /\ g \notin D!AllFiles(v) /\ g \in D!NewFiles(u)
<1>1. g \in D!NewFiles(u)
  OBVIOUS
<1> QED  BY <1>1, Constants DEF D!NewFiles, D!AllFiles, FilesKnown

LEMMA NewDoc ==
    ASSUME NEW v, NEW u, DocsKnown(v), D!NewDocs(u) # {},
           NEW e, e = CHOOSE d \in D!NewDocs(u) : TRUE
    PROVE  e \in Docs /\ e \notin D!AllDocs(u) /\ e \notin D!AllDocs(v)
<1>1. e \in D!NewDocs(u)
  OBVIOUS
<1> QED  BY <1>1 DEF D!NewDocs, D!AllDocs, DocsKnown

\* A file moves and its documents follow.
LEMMA FileMovedMeans ==
    ASSUME NEW u, u = [folders |-> u.folders, files |-> u.files, docs |-> u.docs], NEW f, NEW p
    PROVE  D!FileMoved(u, f, p) =
               [folders |-> u.folders, files |-> [u.files EXCEPT ![f] = [u.files[f] EXCEPT !.folder = p]],
                docs |-> [d \in Docs |-> IF d \in D!SourceOf(u, f) THEN D!Placed(u.docs[d], p) ELSE u.docs[d]]]
<1> DEFINE files == [u.files EXCEPT ![f] = [u.files[f] EXCEPT !.folder = p]]
           docs == [d \in Docs |-> IF d \in D!SourceOf(u, f) THEN D!Placed(u.docs[d], p) ELSE u.docs[d]]
<1>1. D!FileMoved(u, f, p) = [u EXCEPT !.files = files, !.docs = docs]
  BY DEF D!FileMoved
<1> HIDE DEF files, docs
<1>2. D!FileMoved(u, f, p) = [folders |-> u.folders, files |-> files, docs |-> docs]
  BY <1>1, Zenon
<1> QED  BY <1>2 DEF files, docs

\* One document moves with its source, or with a copy of it.
LEMMA MoveDocumentSteady ==
    ASSUME NEW v, NEW u, NEW ps, NEW fs, NEW ds, NEW M, Sound(v, M), Steady(v, u, ps, fs, ds, M),
           FilesKnown(v),
           NEW op, op.doc \in ds, op.to \in ps, D!SourceFiles(v, op.doc) \subseteq fs,
           \A f \in D!SourceFiles(v, op.doc) : v.files[f].folder \in ps,
           NEW w \in D!MoveDocument(u, op)
    PROVE  Steady(v, w, ps, fs, ds, M)
<1> DEFINE d == op.doc
           p == op.to
           src == u.docs[d].src
<1>1. /\ d \in D!AllDocs(u) /\ p \in u.folders /\ src \in D!AllFiles(u) \cup {None}
      /\ \/ u.docs[d].folder = p /\ w = u
         \/ /\ u.docs[d].folder # p /\ src = None /\ w = [u EXCEPT !.docs[d] = D!Placed(@, p)]
         \/ u.docs[d].folder # p /\ src # None /\ D!SourceOf(u, src) # {d} /\ w \in D!MoveApart(u, d, p)
         \/ /\ u.docs[d].folder # p /\ src # None /\ D!SourceOf(u, src) = {d}
            /\ w = [D!FileMoved(u, src, p) EXCEPT !.docs[d] = D!Placed(@, p)]
  BY DEF D!MoveDocument
<1>2. v \in D!Tree /\ u \in D!Tree /\ p \in Seq(D!NodeNames) /\ Fits(v, u, ps, p) /\ Kept(v, u, ps, fs, M)
      /\ DocsOwned(v, u, ds, M) /\ NoneNew(v, u)
  BY <1>1, TreeRows DEF Sound, Steady, Kept, Fits
<1>3. d \in Docs /\ u.docs[d] \in D!DocRow /\ u.docs[d] # None /\ src \in Files \cup {None}
      /\ u.files \in [Files -> D!FileRow \cup {None}] /\ u.docs \in [Docs -> D!DocRow \cup {None}]
      /\ u = [folders |-> u.folders, files |-> u.files, docs |-> u.docs]
  BY <1>1, <1>2, TreeRows DEF D!AllDocs, D!Tree
\* A source that is a file of the view is the one the view shows.
<1>4. src \in D!AllFiles(v) => src \in D!SourceFiles(v, d) /\ src \in fs /\ v.files[src].folder \in ps
  BY <1>1 DEF Steady, NoneNew, D!SourceFiles
<1>5. src \in D!AllFiles(u) => src \in Files /\ src # None /\ u.files[src] \in D!FileRow /\ u.files[src] # None
  BY <1>2, TreeRows, Constants DEF D!AllFiles
<1>6. PICK x : x = u.docs[d]
  OBVIOUS
<1>7. PICK y : y = D!Placed(x, p)
  OBVIOUS
<1>8. x \in D!DocRow /\ x.src = src /\ y \in D!DocRow /\ y # None /\ y.folder = p /\ y.recorded = p /\ y.src = src
  BY <1>2, <1>3, <1>6, <1>7, PlacedRow
\* What is to be shown of what is left.
<1>9. ASSUME w \in D!Tree, w.folders = u.folders, D!AllDocs(w) = D!AllDocs(u),
             \A e \in D!AllDocs(u) \ {d} : w.docs[e] = u.docs[e], RowsFit(v, u, w, ps, fs, M),
             w.docs[d].src = src \/ w.docs[d].src \notin D!AllFiles(v)
      PROVE  Steady(v, w, ps, fs, ds, M)
  <2>1. Kept(v, w, ps, fs, M)
    BY <1>2, <1>9, RowsKept
  <2>2. DocsOwned(v, w, ds, M)
    <3> SUFFICES ASSUME NEW e \in D!AllDocs(v), v.docs[e] # w.docs[e], e # d PROVE e \in ds \/ D!DocKey(e) \in M
      BY DEF DocsOwned
    <3>1. CASE e \in D!AllDocs(u)
      BY <1>2, <1>9, <3>1 DEF DocsOwned
    <3>2. CASE e \notin D!AllDocs(u)
      BY <1>2, <3>2 DEF DocsOwned, D!AllDocs
    <3> QED  BY <3>1, <3>2
  <2>3. NoneNew(v, w)
    BY <1>1, <1>2, <1>9 DEF NoneNew
  <2> QED  BY <2>1, <2>2, <2>3 DEF Steady
<1>10. CASE u.docs[d].folder # p /\ src = None /\ w = [u EXCEPT !.docs[d] = D!Placed(@, p)]
  <2>1. w.folders = u.folders /\ w.files = u.files /\ w.docs = [u.docs EXCEPT ![d] = y]
        /\ w = [folders |-> w.folders, files |-> w.files, docs |-> w.docs]
    BY <1>3, <1>6, <1>7, <1>10
  <2>2. w \in D!Tree
    BY <1>2, <1>3, <1>8, <2>1, TreeRows, TreeMade, DocSet
  <2>3. D!AllFiles(w) = D!AllFiles(u) /\ D!AllDocs(w) = D!AllDocs(u) /\ w.docs[d] = y
        /\ \A e \in D!AllDocs(u) \ {d} : w.docs[e] = u.docs[e]
    BY <1>1, <1>3, <1>8, <2>1 DEF D!AllFiles, D!AllDocs
  <2>4. y.src \notin D!AllFiles(v)
    BY <1>8, <1>10, Constants, SMTT(30) DEF D!AllFiles
  <2>5. RowsFit(v, u, w, ps, fs, M)
    BY <1>2, <1>8, <1>10, <2>1, <2>3, <2>4 DEF RowsFit
  <2> QED  BY <1>8, <1>9, <2>1, <2>2, <2>3, <2>5
<1>11. CASE u.docs[d].folder # p /\ src # None /\ D!SourceOf(u, src) # {d} /\ w \in D!MoveApart(u, d, p)
  <2>1. PICK g : g = CHOOSE f \in D!NewFiles(u) : TRUE
    OBVIOUS
  <2>2. PICK other : other = CHOOSE e \in D!SourceOf(u, src) \ {d} : TRUE
    OBVIOUS
  <2>3. /\ D!NewFiles(u) # {}
        /\ w = [u EXCEPT !.files[src].owner = IF @ = d THEN other ELSE @,
                         !.files[g] = [folder |-> p, owner |-> d],
                         !.docs[d] = [D!Placed(@, p) EXCEPT !.src = g]]
    BY <1>11, <2>1, <2>2, SMTT(30) DEF D!MoveApart, D!When
  <2>4. /\ g \in Files /\ g # None /\ g \notin D!AllFiles(u) /\ g \notin D!AllFiles(v)
        /\ src \in D!AllFiles(u) /\ src # g /\ u.files[g] = None
    <3>1. g \in Files /\ g # None /\ g \notin D!AllFiles(u) /\ g \notin D!AllFiles(v)
      BY <2>1, <2>3, NewFile, Zenon
    <3> QED  BY <1>1, <1>11, <3>1, SMTT(30) DEF D!AllFiles
  <2>5. D!SourceOf(u, src) \ {d} # {} /\ other \in D!SourceOf(u, src) /\ other \in Docs
    <3>1. d \in D!SourceOf(u, src)
      BY <1>1 DEF D!SourceOf
    <3> QED  BY <1>11, <2>2, <3>1, SMTT(30) DEF D!SourceOf, D!AllDocs
  <2>6. PICK file : file = [u.files[src] EXCEPT !.owner = IF @ = d THEN other ELSE @]
    OBVIOUS
  <2>7. file \in D!FileRow /\ file # None /\ file.folder = u.files[src].folder
    <3>1. PICK z : z = u.files[src]
      OBVIOUS
    <3>2. z \in D!FileRow /\ file = [z EXCEPT !.owner = IF @ = d THEN other ELSE @]
      BY <1>5, <2>4, <2>6, <3>1
    <3>3. file \in D!FileRow /\ file.folder = z.folder
      BY <2>5, <3>2 DEF D!FileRow
    <3> QED  BY <3>1, <3>3, Constants
  <2>8. PICK twin : twin = [folder |-> p, owner |-> d]
    OBVIOUS
  <2>9. twin \in D!FileRow /\ twin # None /\ twin.folder = p
    BY <1>2, <1>3, <2>8, Constants DEF D!FileRow
  <2>10. PICK z : z = [y EXCEPT !.src = g]
    OBVIOUS
  <2>11. z \in D!DocRow /\ z # None /\ z.folder = p /\ z.recorded = p /\ z.src = g
    BY <1>8, <2>4, <2>10, Constants, SMTT(30) DEF D!DocRow
  <2>12. /\ w.folders = u.folders
         /\ w.files = [[u.files EXCEPT ![src] = file] EXCEPT ![g] = twin]
         /\ w.docs = [u.docs EXCEPT ![d] = z]
         /\ w = [folders |-> w.folders, files |-> w.files, docs |-> w.docs]
    BY <1>3, <1>6, <1>7, <2>3, <2>6, <2>8, <2>10, Zenon
  <2>13. /\ w.files \in [Files -> D!FileRow \cup {None}] /\ w.files[g] = twin /\ w.files[src] = file
         /\ \A f \in Files \ {src, g} : w.files[f] = u.files[f]
    BY <1>3, <1>5, <2>4, <2>7, <2>9, <2>12, FileSet
  <2>14. w.docs \in [Docs -> D!DocRow \cup {None}] /\ w.docs[d] = z /\ \A e \in Docs \ {d} : w.docs[e] = u.docs[e]
    BY <1>3, <2>11, <2>12, DocSet
  <2>15. w \in D!Tree
    BY <1>2, <2>12, <2>13, <2>14, TreeRows, TreeMade
  <2>16. D!AllDocs(w) = D!AllDocs(u) /\ \A e \in D!AllDocs(u) \ {d} : w.docs[e] = u.docs[e]
    BY <1>1, <2>11, <2>14 DEF D!AllDocs
  <2>17. \A f : f \in D!AllFiles(w) <=> f \in D!AllFiles(u) \cup {g}
    BY <1>5, <2>4, <2>7, <2>9, <2>13 DEF D!AllFiles
  \* The source stays where it is: in a folder that is locked.
  <2>18. D!FileKey(src) \in M \/ Fits(v, u, ps, file.folder)
    <3>1. CASE u.files[src] # v.files[src]
      BY <1>2, <2>4, <2>7, <3>1 DEF Kept, FilesKept, Fits
    <3>2. CASE u.files[src] = v.files[src]
      <4>1. src \in D!AllFiles(v)
        BY <1>5, <2>4, <3>2, SMTT(30) DEF D!AllFiles
      <4> QED  BY <1>2, <1>4, <2>4, <2>7, <3>2, <4>1 DEF Kept, FilesKept, Fits
    <3> QED  BY <3>1, <3>2
  <2>19. RowsFit(v, u, w, ps, fs, M)
    <3>1. ASSUME NEW f \in D!AllFiles(w)
          PROVE  \/ f \in D!AllFiles(u) /\ w.files[f] = u.files[f]
                 \/ D!FileKey(f) \in M
                 \/ Fits(v, u, ps, w.files[f].folder)
      BY <1>2, <2>9, <2>13, <2>17, <2>18 DEF D!AllFiles
    <3>2. ASSUME NEW f \in D!AllFiles(u) PROVE f \in D!AllFiles(w) /\ w.files[f].folder = u.files[f].folder
      BY <2>4, <2>7, <2>13, <2>17 DEF D!AllFiles
    <3>3. ASSUME NEW e \in D!AllDocs(w), e # d
          PROVE  /\ e \in D!AllDocs(u) /\ w.docs[e] = u.docs[e]
                 /\ w.docs[e].src \in D!AllFiles(u) =>
                       /\ w.docs[e].src \in D!AllFiles(w)
                       /\ w.files[w.docs[e].src].folder = u.files[w.docs[e].src].folder
      BY <2>16, <3>2, <3>3
    <3>4. /\ Fits(v, u, ps, w.docs[d].folder) /\ w.docs[d].recorded = w.docs[d].folder
          /\ w.docs[d].src \in D!AllFiles(w) /\ w.files[w.docs[d].src].folder = w.docs[d].folder
          /\ w.docs[d].src \notin D!AllFiles(v)
      BY <1>2, <2>4, <2>9, <2>11, <2>13, <2>14, <2>17
    <3> QED  BY <3>1, <3>3, <3>4 DEF RowsFit
  <2> QED  BY <1>9, <2>4, <2>11, <2>12, <2>14, <2>15, <2>16, <2>19
<1>12. CASE /\ u.docs[d].folder # p /\ src # None /\ D!SourceOf(u, src) = {d}
            /\ w = [D!FileMoved(u, src, p) EXCEPT !.docs[d] = D!Placed(@, p)]
  <2>1. PICK file : file = [u.files[src] EXCEPT !.folder = p]
    BY Zenon
  <2>2. src \in D!AllFiles(u) /\ file \in D!FileRow /\ file # None /\ file.folder = p
    <3>1. PICK z : z = u.files[src]
      OBVIOUS
    <3>2. z \in D!FileRow /\ file = [z EXCEPT !.folder = p] /\ src \in D!AllFiles(u)
      BY <1>1, <1>5, <1>12, <2>1, <3>1, Zenon
    <3> QED  BY <1>2, <3>2, FileRows
  <2>3. PICK z : z = D!Placed(y, p)
    OBVIOUS
  <2>4. z \in D!DocRow /\ z # None /\ z.folder = p /\ z.recorded = p /\ z.src = src
    BY <1>2, <1>8, <2>3, PlacedRow
  <2>5. /\ w.folders = u.folders
        /\ w.files = [u.files EXCEPT ![src] = file]
        /\ w.docs = [u.docs EXCEPT ![d] = z]
        /\ w = [folders |-> w.folders, files |-> w.files, docs |-> w.docs]
    <3>1. PICK moved : moved = [e \in Docs |-> IF e \in {d} THEN D!Placed(u.docs[e], p) ELSE u.docs[e]]
      OBVIOUS
    <3>2. moved = [u.docs EXCEPT ![d] = y] /\ moved[d] = y
      BY <1>3, <1>6, <1>7, <3>1
    <3>3. D!FileMoved(u, src, p) = [folders |-> u.folders, files |-> [u.files EXCEPT ![src] = file], docs |-> moved]
      BY <1>3, <1>12, <2>1, <3>1, FileMovedMeans
    <3>4. w = [folders |-> u.folders, files |-> [u.files EXCEPT ![src] = file], docs |-> [moved EXCEPT ![d] = z]]
      <4>1. PICK g : g = D!FileMoved(u, src, p)
        OBVIOUS
      <4>2. w = [g EXCEPT !.docs[d] = D!Placed(@, p)]
        BY <1>12, <4>1
      <4> QED  BY <2>3, <3>2, <3>3, <4>1, <4>2
    <3>5. [moved EXCEPT ![d] = z] = [u.docs EXCEPT ![d] = z]
      BY <1>3, <3>2
    <3> QED  BY <3>4, <3>5
  <2>6. /\ w.files \in [Files -> D!FileRow \cup {None}] /\ w.files[src] = file
        /\ \A f \in Files \ {src} : w.files[f] = u.files[f]
    BY <1>3, <1>5, <2>2, <2>5, FileSet
  <2>7. w.docs \in [Docs -> D!DocRow \cup {None}] /\ w.docs[d] = z /\ \A e \in Docs \ {d} : w.docs[e] = u.docs[e]
    BY <1>3, <2>4, <2>5, DocSet
  <2>8. w \in D!Tree
    BY <1>2, <2>5, <2>6, <2>7, TreeRows, TreeMade, SMTT(30)
  <2>9. D!AllDocs(w) = D!AllDocs(u) /\ \A e \in D!AllDocs(u) \ {d} : w.docs[e] = u.docs[e]
    BY <1>1, <2>4, <2>7 DEF D!AllDocs
  <2>10. \A f : f \in D!AllFiles(w) <=> f \in D!AllFiles(u)
    BY <1>5, <2>2, <2>6, SMTT(30) DEF D!AllFiles
  <2>11. RowsFit(v, u, w, ps, fs, M)
    <3>1. ASSUME NEW f \in D!AllFiles(w)
          PROVE  \/ f \in D!AllFiles(u) /\ w.files[f] = u.files[f]
                 \/ Fits(v, u, ps, w.files[f].folder)
      BY <1>2, <2>2, <2>6, <2>10 DEF D!AllFiles
    <3>2. ASSUME NEW e \in D!AllDocs(w), e # d
          PROVE  /\ e \in D!AllDocs(u) /\ w.docs[e] = u.docs[e]
                 /\ w.docs[e].src \in D!AllFiles(u) =>
                       /\ w.docs[e].src \in D!AllFiles(w)
                       /\ w.files[w.docs[e].src].folder = u.files[w.docs[e].src].folder
      <4>1. e \in D!AllDocs(u) /\ w.docs[e] = u.docs[e] /\ u.docs[e].src # src
        BY <1>12, <2>9, <3>2, Zenon DEF D!SourceOf
      <4> QED  BY <2>6, <2>10, <4>1, SMTT(30) DEF D!AllFiles
    <3>3. /\ Fits(v, u, ps, w.docs[d].folder) /\ w.docs[d].recorded = w.docs[d].folder
          /\ w.docs[d].src \in D!AllFiles(w) /\ w.files[w.docs[d].src].folder = w.docs[d].folder
          /\ w.docs[d].src \in D!AllFiles(v) => w.docs[d].src \in fs
      BY <1>2, <1>4, <2>2, <2>4, <2>6, <2>7, <2>10
    <3> QED  BY <3>1, <3>2, <3>3 DEF RowsFit
  <2> QED  BY <1>9, <2>4, <2>5, <2>7, <2>8, <2>9, <2>11
<1> QED  BY <1>1, <1>10, <1>11, <1>12, Zenon

(* Operations.                                                                *)

LEMMA OperationFields ==
    ASSUME NEW op \in D!Operation
    PROVE  /\ op.kind \in {"MoveDocument", "CopyDocument"} => op.doc \in Docs /\ op.to \in D!Paths
           /\ op.kind \in {"DeleteDocument", "RenameDocument"} => op.doc \in Docs
           /\ op.kind \in {"MoveFolder", "CopyFolder"} => op.path \in D!Paths /\ op.to \in D!Paths
           /\ op.kind \in {"DeleteFolder", "DeleteFiles", "RenameFolder"} => op.path \in D!Paths
           /\ op.kind \in {"CreateFolder", "NewDocument", "Upload"} => op.to \in D!Paths
           /\ op.kind \in {"MoveFile", "CopyFile"} => op.to \in D!Paths /\ op.file \in Files
           /\ op.kind = "DeleteFile" => op.file \in Files
           /\ op.kind = "NewDocument" => op.file \in Files \cup {None}
           /\ op.kind = "Upload" => op.doc \in Docs \cup {None}
           /\ op.kind \in {"CreateFolder", "NewDocument", "Upload", "RenameDocument", "RenameFolder"} =>
                 op.name \in D!NodeNames
           /\ op.kind = "Bulk" => op.nodes \in Seq(D!Part)
           /\ op.kind # "Bulk" =>
                 op.kind \in {"CreateFolder", "Upload", "MoveFile", "CopyFile", "DeleteFile", "NewDocument",
                              "RenameDocument", "MoveDocument", "CopyDocument", "DeleteDocument",
                              "RenameFolder", "MoveFolder", "CopyFolder", "DeleteFolder", "DeleteFiles"}
  BY DEF D!Operation, D!Part

LEMMA PartFields ==
    ASSUME NEW op \in D!Part
    PROVE  /\ op.kind \in {"MoveDocument", "DeleteDocument", "MoveFolder", "DeleteFolder"}
           /\ op.kind \in {"MoveFolder", "DeleteFolder"} => op.path \in D!Paths
  BY DEF D!Part

\* What an operation on its own has locked.
LEMMA OwnLocked ==
    ASSUME NEW v, NEW op
    PROVE  /\ op.kind \in D!WithTarget => op.to \in D!OwnFolders(v, op)
           /\ op.kind = "NewDocument" /\ op.file = None => op.to \in D!OwnFolders(v, op)
           /\ op.kind \in D!OnSubtree => /\ \A r \in D!Subtree(v, op.path) : r \in D!OwnFolders(v, op)
                                         /\ D!Parent(op.path) \in D!OwnFolders(v, op)
           /\ op.kind \in D!OnDocument => v.docs[op.doc].folder \in D!OwnFolders(v, op)
           /\ op.kind \notin {"CopyFile", "CopyDocument", "CopyFolder"} =>
                 \A f \in D!OwnFiles(v, op) : v.files[f].folder \in D!OwnFolders(v, op)
  BY DEF D!OwnFolders

\* Each operation is of one sort, and owns what that sort owns.
LEMMA OwnedRows ==
    ASSUME NEW v, NEW op
    PROVE  /\ op.kind \in D!OnDocument => D!OwnDocs(v, op) = {op.doc}
           /\ op.kind = "Upload" => D!OwnDocs(v, op) = {op.doc} \ {None}
           /\ op.kind = "MoveFile" => D!OwnDocs(v, op) = D!SourceOf(v, op.file)
           /\ op.kind \in D!OnSubtree \ {"DeleteFiles"} => D!OwnDocs(v, op) = D!DocsIn(v, D!Subtree(v, op.path))
           /\ op.kind \in D!OnFile \cup {"NewDocument"} => D!OwnFiles(v, op) = {op.file} \cap D!AllFiles(v)
           /\ op.kind = "DeleteDocument" => D!OwnFiles(v, op) = D!SourceFiles(v, op.doc) \cup D!AttachedTo(v, op.doc)
           /\ op.kind \in D!OnDocument \ {"DeleteDocument"} => D!OwnFiles(v, op) = D!SourceFiles(v, op.doc)
           /\ op.kind = "CopyFolder" =>
                 D!OwnFiles(v, op) = UNION {D!SourceFiles(v, d) : d \in D!DocsIn(v, D!Subtree(v, op.path))}
           /\ op.kind \in D!OnSubtree \ {"CopyFolder"} => D!OwnFiles(v, op) = D!FilesIn(v, D!Subtree(v, op.path))
<1>1. /\ op.kind \in D!OnDocument => /\ op.kind \notin D!OnFile /\ op.kind \notin D!OnSubtree
                                     /\ op.kind \notin {"Upload", "MoveFile", "NewDocument", "CopyFolder"}
      /\ op.kind \in D!OnFile => op.kind \notin D!OnSubtree /\ op.kind \notin {"Upload", "NewDocument", "CopyFolder", "DeleteDocument"}
      /\ op.kind \in D!OnSubtree => op.kind \notin {"Upload", "MoveFile", "NewDocument", "DeleteDocument"}
      /\ "Upload" \notin D!OnDocument \cup D!OnSubtree \cup D!OnFile /\ "NewDocument" \notin D!OnDocument \cup D!OnSubtree \cup D!OnFile
      /\ "MoveFile" \in D!OnFile /\ "DeleteDocument" \in D!OnDocument /\ "CopyFolder" \in D!OnSubtree
      /\ "DeleteFiles" # "CopyFolder" /\ "Upload" # "MoveFile"
  BY DEF D!OnDocument, D!OnFile, D!OnSubtree
<1>2. op.kind \in D!OnDocument => D!OwnDocs(v, op) = {op.doc}
  BY <1>1 DEF D!OwnDocs
<1>3. op.kind = "Upload" => D!OwnDocs(v, op) = {op.doc} \ {None}
  BY <1>1 DEF D!OwnDocs
<1>4. op.kind = "MoveFile" => D!OwnDocs(v, op) = D!SourceOf(v, op.file)
  BY <1>1 DEF D!OwnDocs
<1>5. op.kind \in D!OnSubtree \ {"DeleteFiles"} => D!OwnDocs(v, op) = D!DocsIn(v, D!Subtree(v, op.path))
  BY <1>1 DEF D!OwnDocs
<1>6. op.kind \in D!OnFile \cup {"NewDocument"} => D!OwnFiles(v, op) = {op.file} \cap D!AllFiles(v)
  BY <1>1 DEF D!OwnFiles
<1>7. op.kind = "DeleteDocument" => D!OwnFiles(v, op) = D!SourceFiles(v, op.doc) \cup D!AttachedTo(v, op.doc)
  BY <1>1 DEF D!OwnFiles
<1>8. op.kind \in D!OnDocument \ {"DeleteDocument"} => D!OwnFiles(v, op) = D!SourceFiles(v, op.doc)
  BY <1>1 DEF D!OwnFiles
<1>9. op.kind = "CopyFolder" =>
          D!OwnFiles(v, op) = UNION {D!SourceFiles(v, d) : d \in D!DocsIn(v, D!Subtree(v, op.path))}
  BY <1>1 DEF D!OwnFiles
<1>10. op.kind \in D!OnSubtree \ {"CopyFolder"} => D!OwnFiles(v, op) = D!FilesIn(v, D!Subtree(v, op.path))
  BY <1>1 DEF D!OwnFiles
<1> QED  BY <1>2, <1>3, <1>4, <1>5, <1>6, <1>7, <1>8, <1>9, <1>10

\* Each part of a bulk operation, at its turn.
LEMMA PartSteady ==
    ASSUME NEW v, NEW u, NEW ps, NEW fs, NEW ds, NEW M, Sound(v, M), Steady(v, u, ps, fs, ds, M),
           FilesKnown(v),
           NEW op \in D!Part, D!OwnFolders(v, op) \subseteq ps, D!OwnFiles(v, op) \subseteq fs, D!OwnDocs(v, op) \subseteq ds,
           NEW w \in D!Effect(u, op)
    PROVE  Steady(v, w, ps, fs, ds, M)
<1>1. CASE op.kind = "MoveDocument"
  BY <1>1, OwnedRows, OwnLocked, MoveDocumentSteady DEF D!Effect, D!OnDocument, D!WithTarget
<1>2. CASE op.kind = "DeleteDocument"
  BY <1>2, OwnedRows, DeleteDocumentSteady DEF D!Effect, D!OnDocument
<1>3. CASE op.kind \in {"MoveFolder", "DeleteFolder"}
  <2>1. /\ \A r \in D!Subtree(v, op.path) : r \in ps
        /\ D!DocsIn(v, D!Subtree(v, op.path)) \subseteq ds /\ D!FilesIn(v, D!Subtree(v, op.path)) \subseteq fs
    BY <1>3, OwnedRows, OwnLocked DEF D!OnSubtree
  <2>2. op.path \in D!Paths
    BY <1>3, PartFields
  <2>3. CASE op.kind = "DeleteFolder"
    BY <2>3, <2>1, <2>2, DeleteFolderSteady DEF D!Effect
  <2>4. CASE op.kind = "MoveFolder"
    <3> DEFINE p == op.path
               q == Append(op.to, p[Len(p)])
    <3>1. /\ p \in u.folders \ {D!Home} /\ op.to \in u.folders /\ ~D!Below(op.to, p)
          /\ \/ w = D!Relocated(u, p, p)
             \/ D!Movable(u, p, q) /\ w = D!Relocated(u, p, q)
      BY <2>4 DEF D!Effect, D!MoveFolder, D!When
    <3>2. p \in D!Paths \ {D!Home} /\ p \in Seq(D!NodeNames) /\ op.to \in Seq(D!NodeNames) /\ op.to \in ps
      BY <2>4, OwnLocked, <2>2, <3>1, PathSeq, TreeRows DEF D!WithTarget, Steady, Kept
    <3>3. CASE w = D!Relocated(u, p, p)
      BY <2>1, <3>2, <3>3, InPlaceSteady
    <3>4. CASE D!Movable(u, p, q) /\ w = D!Relocated(u, p, q)
      <4>1. p[Len(p)] \in D!NodeNames
        BY <3>2, ParentOf, ElementOfSeq
      <4>2. q \in Seq(D!NodeNames)
        BY <3>2, <4>1, AppendProperties
      <4>3. D!Parent(q) = op.to /\ q # D!Home
        BY <3>2, <4>2, ParentAppend
      <4> HIDE DEF p, q
      <4> QED  BY <2>1, <3>1, <3>2, <3>4, <4>2, <4>3, RelocatedSteady DEF p
    <3> QED  BY <3>1, <3>3, <3>4
  <2> QED  BY <1>3, <2>3, <2>4
<1> QED  BY <1>1, <1>2, <1>3, PartFields

\* The parts of a bulk operation, one after the other.
LEMMA BulkSteady ==
    ASSUME NEW v, NEW ps, NEW fs, NEW ds, NEW M, Sound(v, M), FilesKnown(v),
           NEW op, op.kind = "Bulk", op.nodes \in Seq(D!Part),
           D!LockedFolders(v, op) \subseteq ps, D!LockedFiles(v, op) \subseteq fs, D!LockedDocs(v, op) \subseteq ds,
           NEW w \in D!Bulk(v, op)
    PROVE  Steady(v, w, ps, fs, ds, M)
<1> DEFINE N == Len(op.nodes)
           Step(i, before) == IF op.nodes[i] \notin D!Parts(v, op) THEN before
                              ELSE UNION {D!Effect(u, op.nodes[i]) : u \in before}
           Def(g) == g = [i \in 0 .. N |-> IF i = 0 THEN {v} ELSE Step(i, g[i - 1])]
           after == CHOOSE g : Def(g)
           Runs(g, k) == g[0] = {v} /\ \A i \in 1 .. k : g[i] = Step(i, g[i - 1])
           K == {k \in Nat : \E g : Runs(g, k)}
<1>1. N \in Nat
  BY LenProperties
<1>2. 0 \in K
  <2> HIDE DEF Step
  <2>1. Runs([i \in {0} |-> {v}], 0)
    OBVIOUS
  <2> HIDE DEF Runs
  <2> QED  BY <2>1
<1>3. ASSUME NEW k \in Nat, k \in K PROVE k + 1 \in K
  <2> HIDE DEF Step
  <2>1. PICK g : Runs(g, k)
    BY <1>3
  <2> DEFINE h == [i \in 0 .. k + 1 |-> IF i <= k THEN g[i] ELSE Step(i, g[i - 1])]
  <2>2. \A i \in 0 .. k : h[i] = g[i]
    OBVIOUS
  <2>3. h[k + 1] = Step(k + 1, g[k])
    OBVIOUS
  <2> HIDE DEF h
  <2>4. h[0] = {v}
    BY <2>1, <2>2
  <2>5. ASSUME NEW i \in 1 .. k + 1 PROVE h[i] = Step(i, h[i - 1])
    <3>1. i - 1 \in 0 .. k /\ h[i - 1] = g[i - 1]
      BY <2>2
    <3>2. CASE i <= k
      BY <2>1, <2>2, <3>1, <3>2
    <3>3. CASE i = k + 1
      BY <2>3, <3>1, <3>3
    <3> QED  BY <3>2, <3>3
  <2>6. Runs(h, k + 1)
    BY <2>4, <2>5
  <2> HIDE DEF Runs
  <2> QED  BY <2>6
<1> HIDE DEF K
<1>4. Nat \subseteq K
  BY <1>2, <1>3, Induction
<1>5. \E g : Def(g)
  <2> HIDE DEF Step
  <2>1. PICK g : Runs(g, N)
    BY <1>1, <1>4 DEF K
  <2> DEFINE h == [i \in 0 .. N |-> g[i]]
  <2>2. ASSUME NEW i \in 0 .. N PROVE h[i] = IF i = 0 THEN {v} ELSE Step(i, h[i - 1])
    <3>1. i # 0 => i - 1 \in 0 .. N /\ i \in 1 .. N
      BY <1>1
    <3> QED  BY <2>1, <3>1
  <2>3. Def(h)
    <3>1. h = [i \in 0 .. N |-> h[i]]
      OBVIOUS
    <3> HIDE DEF h
    <3> QED  BY <2>2, <3>1
  <2> HIDE DEF Def
  <2> QED  BY <2>3
<1>6. Def(after)
  <2> HIDE DEF Def
  <2> QED  BY <1>5
<1>7. w \in after[N]
  BY DEF D!Bulk
<1> HIDE DEF after, Runs
<1>8. /\ after[0] = {v}
      /\ \A i \in 1 .. N : after[i] = IF op.nodes[i] \notin D!Parts(v, op) THEN after[i - 1]
                                      ELSE UNION {D!Effect(u, op.nodes[i]) : u \in after[i - 1]}
  <2>1. \A i \in 1 .. N : i \in 0 .. N /\ i # 0
    BY <1>1
  <2>2. after[0] = {v} /\ \A i \in 1 .. N : after[i] = Step(i, after[i - 1])
    <3> HIDE DEF Step
    <3>1. \A i \in 0 .. N : after[i] = IF i = 0 THEN {v} ELSE Step(i, after[i - 1])
      BY <1>6
    <3>2. 0 \in 0 .. N
      BY <1>1
    <3> HIDE DEF Def
    <3> QED  BY <2>1, <3>1, <3>2
  <2> QED  BY <2>2
<1>9. ASSUME NEW part \in D!Part, part \in D!Parts(v, op)
      PROVE  D!OwnFolders(v, part) \subseteq ps /\ D!OwnFiles(v, part) \subseteq fs /\ D!OwnDocs(v, part) \subseteq ds
  BY <1>9 DEF D!LockedFolders, D!LockedFiles, D!LockedDocs
<1> DEFINE L == {k \in Nat : k <= N => \A u \in after[k] : Steady(v, u, ps, fs, ds, M)}
<1> HIDE DEF Def
<1>10. 0 \in L
  BY <1>8, SteadyAtFirst
<1>11. ASSUME NEW k \in Nat, k \in L PROVE k + 1 \in L
  <2> SUFFICES ASSUME k + 1 <= N, NEW u \in after[k + 1] PROVE Steady(v, u, ps, fs, ds, M)
    OBVIOUS
  <2>1. k + 1 \in 1 .. N /\ (k + 1) - 1 = k /\ k <= N
    BY <1>1
  <2>2. PICK part : part = op.nodes[k + 1]
    OBVIOUS
  <2>3. part \in D!Part
    BY <2>1, <2>2, ElementOfSeq
  <2>4. after[k + 1] = IF part \notin D!Parts(v, op) THEN after[k] ELSE UNION {D!Effect(t, part) : t \in after[k]}
    BY <1>8, <2>1, <2>2, ZenonT(30)
  <2>5. \A t \in after[k] : Steady(v, t, ps, fs, ds, M)
    BY <1>11, <2>1
  <2>6. CASE part \notin D!Parts(v, op)
    BY <2>4, <2>5, <2>6
  <2>7. CASE part \in D!Parts(v, op)
    <3>1. PICK t \in after[k] : u \in D!Effect(t, part)
      BY <2>4, <2>7
    <3> QED  BY <1>9, <2>3, <2>5, <2>7, <3>1, PartSteady
  <2> QED  BY <2>6, <2>7
<1> HIDE DEF L
<1>12. Nat \subseteq L
  BY <1>10, <1>11, Induction
<1>13. \A u \in after[N] : Steady(v, u, ps, fs, ds, M)
  BY <1>1, <1>12 DEF L
<1> QED  BY <1>7, <1>13

(* Operations that are no parts of a bulk operation.                          *)

\* New folders lie in new or locked folders.
LEMMA GrownKept ==
    ASSUME NEW v, NEW ps, NEW fs, NEW M, Sound(v, M), NEW Xs \in SUBSET (D!Paths \ v.folders),
           \A t \in Xs \ {D!Home} : D!Parent(t) \in v.folders \cup Xs /\ (D!Parent(t) \in v.folders => D!Parent(t) \in ps),
           NEW w, w = [v EXCEPT !.folders = @ \cup Xs]
    PROVE  /\ Kept(v, w, ps, fs, M)
           /\ w.folders = v.folders \cup Xs /\ w.files = v.files /\ w.docs = v.docs
<1>1. v = [folders |-> v.folders, files |-> v.files, docs |-> v.docs]
      /\ v.folders \subseteq D!Paths /\ v.files \in [Files -> D!FileRow \cup {None}] /\ v.docs \in [Docs -> D!DocRow \cup {None}]
  BY DEF Sound, D!Tree
<1>2. w = [folders |-> v.folders \cup Xs, files |-> v.files, docs |-> v.docs]
  BY <1>1
<1>3. w \in D!Tree /\ w.folders = v.folders \cup Xs /\ w.files = v.files /\ w.docs = v.docs
  BY <1>1, <1>2 DEF D!Tree
<1>4. D!AllFiles(w) = D!AllFiles(v) /\ D!AllDocs(w) = D!AllDocs(v)
  BY <1>3 DEF D!AllFiles, D!AllDocs
<1>5. Kept(v, v, ps, fs, M)
  BY SteadyAtFirst DEF Steady
<1>6. FoldersKept(v, w, ps, M)
  BY <1>3, <1>5 DEF Kept, FoldersKept
<1>7. FilesKept(v, w, ps, M) /\ DocsKept(v, w, ps, M)
  BY <1>3, <1>4, <1>5 DEF Kept, FilesKept, DocsKept
<1>8. D!WithSources(w, M)
  BY <1>3, <1>4, <1>5 DEF Kept, D!WithSources
<1>9. SourcesLocked(v, w, fs, M) /\ RemovedLocked(v, w, ps)
  BY <1>3 DEF SourcesLocked, RemovedLocked
<1> QED  BY <1>3, <1>6, <1>7, <1>8, <1>9 DEF Kept

LEMMA CreateFolderKept ==
    ASSUME NEW v, NEW ps, NEW fs, NEW M, Sound(v, M), NEW op \in D!Operation, op.kind = "CreateFolder",
           op.to \in ps, NEW w \in D!CreateFolder(v, op)
    PROVE  Kept(v, w, ps, fs, M)
<1> DEFINE p == Append(op.to, op.name)
<1>1. op.to \in v.folders /\ p \in D!Paths \ v.folders /\ w = [v EXCEPT !.folders = @ \cup {p}]
  BY DEF D!CreateFolder, D!When
<1>2. op.to \in Seq(D!NodeNames) /\ p \in Seq(D!NodeNames)
  BY <1>1, PathSeq, TreeRows DEF Sound
<1>3. D!Parent(p) = op.to
  BY <1>2, ParentAppend
<1> HIDE DEF p
<1>4. {p} \in SUBSET (D!Paths \ v.folders) /\ w = [v EXCEPT !.folders = @ \cup {p}]
  BY <1>1
<1>5. \A t \in {p} \ {D!Home} : D!Parent(t) \in v.folders \cup {p} /\ (D!Parent(t) \in v.folders => D!Parent(t) \in ps)
  BY <1>1, <1>3
<1> QED  BY <1>4, <1>5, GrownKept

LEMMA TreeOfThree ==
    ASSUME NEW v \in D!Tree
    PROVE  v = [folders |-> v.folders, files |-> v.files, docs |-> v.docs]
  BY DEF D!Tree

LEMMA CopyName ==
    ASSUME NEW v, NEW p, NEW x \in D!NodeNames
    PROVE  D!Available(v, p, x) \in D!NodeNames
<1> DEFINE taken == {v.docs[d].name : d \in D!DocsIn(v, {p})}
<1>1. D!Available(v, p, x) = D!FirstFree(x, taken)
  BY DEF D!Available
<1> HIDE DEF taken
<1> QED  BY <1>1, FirstFreeName

\* The tree w is u with a file g that no row of v had.
FileIn(v, u, w, g, x) ==
    /\ w \in D!Tree /\ w.folders = u.folders /\ w.docs = u.docs
    /\ g \in Files /\ g # None /\ g \in D!AllFiles(w) /\ g \notin D!AllFiles(u) /\ g \notin D!AllFiles(v)
    /\ w.files[g] = x
    /\ \A f \in D!AllFiles(u) : f \in D!AllFiles(w) /\ w.files[f] = u.files[f]
    /\ \A f \in D!AllFiles(w) : f = g \/ f \in D!AllFiles(u)

\* A new file in a locked folder.
LEMMA FileAdded ==
    ASSUME NEW v, NEW u, NEW ps, NEW fs, NEW M, Kept(v, u, ps, fs, M), FilesKnown(v),
           NEW g, D!NewFiles(u) # {}, g = CHOOSE f \in D!NewFiles(u) : TRUE,
           NEW x \in D!FileRow, Fits(v, u, ps, x.folder), NEW w, w = [u EXCEPT !.files[g] = x]
    PROVE  FileIn(v, u, w, g, x) /\ Kept(v, w, ps, fs, M)
<1>1. g \in Files /\ g # None /\ g \notin D!AllFiles(u) /\ g \notin D!AllFiles(v)
  BY NewFile
<1>2. /\ u \in D!Tree /\ x # None /\ x \in D!FileRow \cup {None}
      /\ u.folders \subseteq D!Paths /\ u.files \in [Files -> D!FileRow \cup {None}] /\ u.docs \in [Docs -> D!DocRow \cup {None}]
      /\ u = [folders |-> u.folders, files |-> u.files, docs |-> u.docs]
  BY Constants, TreeRows, TreeOfThree DEF Kept
<1>3. w.folders = u.folders /\ w.files = [u.files EXCEPT ![g] = x] /\ w.docs = u.docs
      /\ w = [folders |-> w.folders, files |-> w.files, docs |-> w.docs]
  <2> DEFINE files == [u.files EXCEPT ![g] = x]
  <2>1. w = [u EXCEPT !.files = files]
    OBVIOUS
  <2> HIDE DEF files
  <2>2. w = [folders |-> u.folders, files |-> files, docs |-> u.docs]
    BY <1>2, <2>1
  <2> QED  BY <2>2 DEF files
<1>4. /\ w.files \in [Files -> D!FileRow \cup {None}] /\ w.files[g] = x
      /\ \A f \in Files \ {g} : w.files[f] = u.files[f]
  BY <1>1, <1>2, <1>3, FileSet
<1>5. w \in D!Tree
  BY <1>2, <1>3, <1>4, TreeMade
<1>6. /\ g \in D!AllFiles(w)
      /\ \A f \in D!AllFiles(u) : f \in D!AllFiles(w) /\ w.files[f] = u.files[f]
      /\ \A f \in D!AllFiles(w) : f = g \/ f \in D!AllFiles(u)
  BY <1>1, <1>2, <1>4 DEF D!AllFiles
<1>7. RowsFit(v, u, w, ps, fs, M)
  <2>1. ASSUME NEW f \in D!AllFiles(w)
        PROVE  (f \in D!AllFiles(u) /\ w.files[f] = u.files[f]) \/ Fits(v, u, ps, w.files[f].folder)
    BY <1>4, <1>6
  <2>2. ASSUME NEW d \in D!AllDocs(w)
        PROVE  /\ d \in D!AllDocs(u) /\ w.docs[d] = u.docs[d]
               /\ w.docs[d].src \in D!AllFiles(u) =>
                     /\ w.docs[d].src \in D!AllFiles(w)
                     /\ w.files[w.docs[d].src].folder = u.files[w.docs[d].src].folder
    BY <1>3, <1>6 DEF D!AllDocs
  <2> QED  BY <2>1, <2>2 DEF RowsFit
<1>8. Kept(v, w, ps, fs, M)
  BY <1>3, <1>5, <1>7, RowsKept
<1> QED  BY <1>1, <1>3, <1>4, <1>5, <1>6, <1>8 DEF FileIn

\* A document that is new, or written anew, in a locked folder.
LEMMA DocWritten ==
    ASSUME NEW v, NEW u, NEW ps, NEW fs, NEW M, Kept(v, u, ps, fs, M), NEW d \in Docs, NEW x \in D!DocRow,
           \/ D!DocKey(d) \in M
           \/ /\ Fits(v, u, ps, x.folder) /\ x.recorded = x.folder
              /\ x.src # None => x.src \in D!AllFiles(u) /\ u.files[x.src].folder = x.folder
              /\ x.src \in D!AllFiles(v) => x.src \in fs,
           NEW w, w = [u EXCEPT !.docs[d] = x]
    PROVE  /\ Kept(v, w, ps, fs, M)
           /\ w.folders = u.folders /\ w.files = u.files /\ \A k \in Docs \ {d} : w.docs[k] = u.docs[k]
<1>1. /\ u \in D!Tree /\ x # None /\ x \in D!DocRow \cup {None}
      /\ u.folders \subseteq D!Paths /\ u.files \in [Files -> D!FileRow \cup {None}] /\ u.docs \in [Docs -> D!DocRow \cup {None}]
      /\ u = [folders |-> u.folders, files |-> u.files, docs |-> u.docs]
  BY Constants, TreeRows, TreeOfThree DEF Kept
<1>2. w.folders = u.folders /\ w.files = u.files /\ w.docs = [u.docs EXCEPT ![d] = x]
      /\ w = [folders |-> w.folders, files |-> w.files, docs |-> w.docs]
  <2> DEFINE docs == [u.docs EXCEPT ![d] = x]
  <2>1. w = [u EXCEPT !.docs = docs]
    OBVIOUS
  <2> HIDE DEF docs
  <2>2. w = [folders |-> u.folders, files |-> u.files, docs |-> docs]
    BY <1>1, <2>1
  <2> QED  BY <2>2 DEF docs
<1>3. /\ w.docs \in [Docs -> D!DocRow \cup {None}] /\ w.docs[d] = x
      /\ \A k \in Docs \ {d} : w.docs[k] = u.docs[k]
  BY <1>1, <1>2, DocSet
<1>4. w \in D!Tree
  BY <1>1, <1>2, <1>3, TreeMade
<1>5. /\ D!AllFiles(w) = D!AllFiles(u)
      /\ \A k \in D!AllDocs(w) : k = d \/ (k \in D!AllDocs(u) /\ w.docs[k] = u.docs[k])
  BY <1>2, <1>3 DEF D!AllFiles, D!AllDocs
<1>6. RowsFit(v, u, w, ps, fs, M)
  BY <1>2, <1>3, <1>5 DEF RowsFit
<1>7. Kept(v, w, ps, fs, M)
  BY <1>2, <1>4, <1>6, RowsKept
<1> QED  BY <1>2, <1>3, <1>7

LEMMA UploadKept ==
    ASSUME NEW v, NEW ps, NEW fs, NEW M, Sound(v, M), FilesKnown(v),
           NEW op \in D!Operation, op.kind = "Upload", op.to \in ps, NEW w \in D!Upload(v, op)
    PROVE  Kept(v, w, ps, fs, M)
<1> DEFINE d == op.doc
<1>1. PICK g : g = CHOOSE f \in D!NewFiles(v) : TRUE
  OBVIOUS
<1>2. PICK stored : stored = [v EXCEPT !.files[g] = [folder |-> op.to, owner |-> d]]
  OBVIOUS
<1>4. PICK other : other = D!Available([v EXCEPT !.docs[d] = None], op.to, op.name)
  OBVIOUS
<1>5. /\ op.to \in v.folders /\ D!NewFiles(v) # {}
      /\ \/ w = stored
         \/ /\ d # None /\ v.docs[d] # None
            /\ w = [stored EXCEPT !.docs[d] = [D!Placed(@, op.to) EXCEPT !.src = g, !.name = other]]
  BY <1>1, <1>2, <1>4 DEF D!Upload, D!When
<1>6. op.to \in D!Paths /\ op.to \in Seq(D!NodeNames) /\ d \in Docs \cup {None} /\ op.name \in D!NodeNames
  BY OperationFields, PathSeq
<1>7. Kept(v, v, ps, fs, M) /\ v \in D!Tree /\ Fits(v, v, ps, op.to)
  BY <1>5, SteadyAtFirst DEF Steady, Kept, Fits
<1>8. PICK x : x = [folder |-> op.to, owner |-> d]
  OBVIOUS
<1>9. x \in D!FileRow /\ x.folder = op.to
  BY <1>6, <1>8 DEF D!FileRow
<1>13. stored = [v EXCEPT !.files[g] = x] /\ Fits(v, v, ps, x.folder) /\ D!NewFiles(v) # {}
  BY <1>2, <1>5, <1>7, <1>8, <1>9
<1>14. FileIn(v, v, stored, g, x) /\ Kept(v, stored, ps, fs, M)
  BY <1>1, <1>7, <1>9, <1>13, FileAdded
<1>10. /\ stored.folders = v.folders /\ stored.docs = v.docs /\ stored.files[g] = x
       /\ g \in Files /\ g # None /\ g \in D!AllFiles(stored) /\ g \notin D!AllFiles(v)
       /\ Kept(v, stored, ps, fs, M)
  BY <1>14 DEF FileIn
<1>11. CASE w = stored
  BY <1>10, <1>11
<1>12. CASE /\ d # None /\ v.docs[d] # None
            /\ w = [stored EXCEPT !.docs[d] = [D!Placed(@, op.to) EXCEPT !.src = g, !.name = other]]
  <2>1. d \in Docs /\ v.docs[d] \in D!DocRow
    BY <1>6, <1>7, <1>12, TreeRows
  <2>2. PICK y : y = D!Placed(v.docs[d], op.to)
    OBVIOUS
  <2>3. y \in D!DocRow /\ y.folder = op.to /\ y.recorded = op.to
    BY <1>6, <2>1, <2>2, PlacedRow
  <2>4. other \in D!NodeNames
    BY <1>4, <1>6, CopyName
  <2>5. PICK z : z = [y EXCEPT !.src = g, !.name = other]
    OBVIOUS
  <2>6. z \in D!DocRow /\ z.folder = op.to /\ z.recorded = op.to /\ z.src = g
    BY <1>10, <2>3, <2>4, <2>5 DEF D!DocRow
  <2>7. w = [stored EXCEPT !.docs[d] = z]
    BY <1>10, <1>12, <2>2, <2>5
  <2>8. Fits(v, stored, ps, z.folder)
    BY <1>7, <1>10, <2>6 DEF Fits
  <2>9. z.src \in D!AllFiles(stored) /\ stored.files[z.src].folder = z.folder /\ z.src \notin D!AllFiles(v)
    BY <1>9, <1>10, <2>6
  <2> QED  BY <1>10, <2>1, <2>6, <2>7, <2>8, <2>9, DocWritten
<1> QED  BY <1>5, <1>11, <1>12

LEMMA MoveFileKept ==
    ASSUME NEW v, NEW ps, NEW fs, NEW M, Sound(v, M), NEW op \in D!Operation, op.kind = "MoveFile",
           op.to \in ps, {op.file} \cap D!AllFiles(v) \subseteq fs, NEW w \in D!MoveFile(v, op)
    PROVE  Kept(v, w, ps, fs, M)
<1> DEFINE f == op.file
           p == op.to
<1>1. p \in v.folders /\ f \in D!AllFiles(v) /\ w = D!FileMoved(v, f, p)
  BY DEF D!MoveFile, D!When
<1>2. /\ v \in D!Tree /\ Kept(v, v, ps, fs, M) /\ Fits(v, v, ps, p) /\ p \in Seq(D!NodeNames) /\ f \in fs
      /\ v.folders \subseteq D!Paths /\ v.files \in [Files -> D!FileRow \cup {None}] /\ v.docs \in [Docs -> D!DocRow \cup {None}]
      /\ v = [folders |-> v.folders, files |-> v.files, docs |-> v.docs]
      /\ f \in Files /\ v.files[f] \in D!FileRow
  BY <1>1, SteadyAtFirst, TreeRows, TreeOfThree DEF Steady, Kept, Fits
<1>3. PICK x : x = [v.files[f] EXCEPT !.folder = p]
  OBVIOUS
<1>4. x \in D!FileRow /\ x # None /\ x.folder = p
  <2>1. PICK y : y = v.files[f]
    OBVIOUS
  <2>2. y \in D!FileRow /\ x = [y EXCEPT !.folder = p]
    BY <1>2, <1>3, <2>1
  <2> QED  BY <1>2, <2>2, FileRows
<1>5. PICK docs : docs = [d \in Docs |-> IF d \in D!SourceOf(v, f) THEN D!Placed(v.docs[d], p) ELSE v.docs[d]]
  OBVIOUS
<1>6. w = [folders |-> v.folders, files |-> [v.files EXCEPT ![f] = x], docs |-> docs]
  BY <1>1, <1>2, <1>3, <1>5, FileMovedMeans
<1>7. w.folders = v.folders /\ w.files = [v.files EXCEPT ![f] = x] /\ w.docs = docs
      /\ w = [folders |-> w.folders, files |-> w.files, docs |-> w.docs]
  BY <1>6
<1>8. /\ w.files \in [Files -> D!FileRow \cup {None}] /\ w.files[f] = x
      /\ \A k \in Files \ {f} : w.files[k] = v.files[k]
  BY <1>2, <1>4, <1>7, FileSet
<1>9. ASSUME NEW d \in Docs
      PROVE  IF d \in D!SourceOf(v, f)
             THEN /\ d \in D!AllDocs(v) /\ docs[d] \in D!DocRow /\ docs[d] # None
                  /\ docs[d].folder = p /\ docs[d].recorded = p /\ docs[d].src = f
             ELSE docs[d] = v.docs[d] /\ (d \in D!AllDocs(v) => v.docs[d].src # f)
  <2>1. CASE d \in D!SourceOf(v, f)
    <3>1. d \in D!AllDocs(v) /\ v.docs[d].src = f /\ v.docs[d] \in D!DocRow
      BY <1>2, <2>1, TreeRows DEF D!SourceOf
    <3>2. PICK y : y = v.docs[d]
      OBVIOUS
    <3>3. docs[d] = D!Placed(y, p) /\ y \in D!DocRow /\ y.src = f
      BY <1>5, <2>1, <3>1, <3>2
    <3> QED  BY <1>2, <2>1, <3>1, <3>3, PlacedRow
  <2>2. CASE d \notin D!SourceOf(v, f)
    BY <1>5, <2>2 DEF D!SourceOf
  <2> QED  BY <2>1, <2>2
<1>10. docs = [d \in Docs |-> docs[d]] /\ \A d \in Docs : docs[d] \in D!DocRow \cup {None}
  BY <1>2, <1>5, <1>9
<1>11. w.docs \in [Docs -> D!DocRow \cup {None}]
  BY <1>7, <1>10
<1>12. w \in D!Tree
  BY <1>2, <1>7, <1>8, <1>11, TreeMade
<1>13. D!AllFiles(w) = D!AllFiles(v)
  BY <1>1, <1>4, <1>8 DEF D!AllFiles
<1>14. RowsFit(v, v, w, ps, fs, M)
  <2>1. ASSUME NEW k \in D!AllFiles(w)
        PROVE  (k \in D!AllFiles(v) /\ w.files[k] = v.files[k]) \/ Fits(v, v, ps, w.files[k].folder)
    BY <1>2, <1>4, <1>8, <1>13 DEF D!AllFiles
  <2>2. ASSUME NEW d \in D!AllDocs(w)
        PROVE  \/ /\ d \in D!AllDocs(v) /\ w.docs[d] = v.docs[d]
                  /\ w.docs[d].src \in D!AllFiles(v) =>
                        /\ w.docs[d].src \in D!AllFiles(w)
                        /\ w.files[w.docs[d].src].folder = v.files[w.docs[d].src].folder
               \/ /\ Fits(v, v, ps, w.docs[d].folder)
                  /\ w.docs[d].recorded = w.docs[d].folder
                  /\ w.docs[d].src \in D!AllFiles(w) /\ w.files[w.docs[d].src].folder = w.docs[d].folder
                  /\ w.docs[d].src \in fs
    <3>1. d \in Docs /\ w.docs[d] # None
      BY DEF D!AllDocs
    <3>2. CASE d \in D!SourceOf(v, f)
      BY <1>1, <1>2, <1>4, <1>7, <1>8, <1>9, <1>13, <3>1, <3>2
    <3>3. CASE d \notin D!SourceOf(v, f)
      BY <1>7, <1>9, <3>1, <3>3, <1>8, <1>13 DEF D!AllDocs, D!AllFiles
    <3> QED  BY <3>2, <3>3
  <2> QED  BY <2>1, <2>2 DEF RowsFit
<1> QED  BY <1>2, <1>7, <1>12, <1>14, RowsKept

LEMMA CopyFileKept ==
    ASSUME NEW v, NEW ps, NEW fs, NEW M, Sound(v, M), FilesKnown(v),
           NEW op \in D!Operation, op.kind = "CopyFile", op.to \in ps, NEW w \in D!CopyFile(v, op)
    PROVE  Kept(v, w, ps, fs, M)
<1>1. PICK g : g = CHOOSE f \in D!NewFiles(v) : TRUE
  OBVIOUS
<1>2. PICK x : x = [v.files[op.file] EXCEPT !.folder = op.to]
  OBVIOUS
<1>3. op.to \in v.folders /\ op.file \in D!AllFiles(v) /\ D!NewFiles(v) # {} /\ w = [v EXCEPT !.files[g] = x]
  BY <1>1, <1>2 DEF D!CopyFile, D!When
<1>4. v \in D!Tree /\ Kept(v, v, ps, fs, M) /\ Fits(v, v, ps, op.to) /\ op.to \in Seq(D!NodeNames)
  BY <1>3, SteadyAtFirst, TreeRows DEF Steady, Kept, Fits
<1>5. x \in D!FileRow /\ x.folder = op.to
  <2>1. PICK y : y = v.files[op.file]
    OBVIOUS
  <2>2. y \in D!FileRow /\ x = [y EXCEPT !.folder = op.to]
    BY <1>2, <1>3, <1>4, <2>1, TreeRows
  <2> QED  BY <1>4, <2>2, FileRows
<1>6. Fits(v, v, ps, x.folder)
  BY <1>4, <1>5
<1> QED  BY <1>1, <1>3, <1>4, <1>5, <1>6, FileAdded

LEMMA DeleteFileKept ==
    ASSUME NEW v, NEW ps, NEW fs, NEW M, Sound(v, M), NEW op \in D!Operation, NEW w \in D!DeleteFile(v, op)
    PROVE  Kept(v, w, ps, fs, M)
<1>1. op.file \in D!AllFiles(v) /\ D!SourceOf(v, op.file) = {} /\ w = [v EXCEPT !.files[op.file] = None]
  BY DEF D!DeleteFile, D!When
<1>2. /\ v \in D!Tree /\ Kept(v, v, ps, fs, M) /\ op.file \in Files
      /\ v.folders \subseteq D!Paths /\ v.files \in [Files -> D!FileRow \cup {None}] /\ v.docs \in [Docs -> D!DocRow \cup {None}]
      /\ v = [folders |-> v.folders, files |-> v.files, docs |-> v.docs]
  BY <1>1, SteadyAtFirst, TreeRows, TreeOfThree DEF Steady, Kept
<1>3. w.folders = v.folders /\ w.files = [v.files EXCEPT ![op.file] = None] /\ w.docs = v.docs
      /\ w = [folders |-> w.folders, files |-> w.files, docs |-> w.docs]
  <2> DEFINE files == [v.files EXCEPT ![op.file] = None]
  <2>1. w = [v EXCEPT !.files = files]
    BY <1>1
  <2> HIDE DEF files
  <2>2. w = [folders |-> v.folders, files |-> files, docs |-> v.docs]
    BY <1>2, <2>1
  <2> QED  BY <2>2 DEF files
<1>4. /\ w.files \in [Files -> D!FileRow \cup {None}] /\ w.files[op.file] = None
      /\ \A f \in Files \ {op.file} : w.files[f] = v.files[f]
  BY <1>2, <1>3, FileSet
<1>5. w \in D!Tree
  BY <1>2, <1>3, <1>4, TreeMade
<1>6. RowsFit(v, v, w, ps, fs, M)
  <2>1. ASSUME NEW f \in D!AllFiles(w) PROVE f \in D!AllFiles(v) /\ w.files[f] = v.files[f]
    BY <1>4 DEF D!AllFiles
  <2>2. ASSUME NEW d \in D!AllDocs(w)
        PROVE  /\ d \in D!AllDocs(v) /\ w.docs[d] = v.docs[d]
               /\ w.docs[d].src \in D!AllFiles(v) =>
                     /\ w.docs[d].src \in D!AllFiles(w)
                     /\ w.files[w.docs[d].src].folder = v.files[w.docs[d].src].folder
    BY <1>1, <1>3, <1>4 DEF D!AllDocs, D!SourceOf, D!AllFiles
  <2> QED  BY <2>1, <2>2 DEF RowsFit
<1> QED  BY <1>2, <1>3, <1>5, <1>6, RowsKept

LEMMA NewDocumentKept ==
    ASSUME NEW v, NEW ps, ps \subseteq v.folders, NEW fs, NEW M, Sound(v, M), NEW op \in D!Operation, op.kind = "NewDocument",
           op.file = None => op.to \in ps, {op.file} \cap D!AllFiles(v) \subseteq fs,
           \A f \in {op.file} \cap D!AllFiles(v) : v.files[f].folder \in ps,
           NEW w \in D!NewDocument(v, op)
    PROVE  Kept(v, w, ps, fs, M)
<1> DEFINE p == IF op.file = None THEN op.to ELSE v.files[op.file].folder
<1>1. PICK x : x = [folder |-> p, recorded |-> p, src |-> op.file, name |-> op.name, rev |-> 0]
  OBVIOUS
<1>2. PICK e : e = CHOOSE z \in D!NewDocs(v) : TRUE
  OBVIOUS
<1>3. /\ op.file = None \/ op.file \in D!AllFiles(v)
      /\ D!NewDocs(v) # {} /\ w = [v EXCEPT !.docs[e] = x]
  BY <1>1, <1>2 DEF D!NewDocument, D!When
<1>4. v \in D!Tree /\ Kept(v, v, ps, fs, M)
  BY SteadyAtFirst DEF Steady, Kept
<1>5. Fits(v, v, ps, p) /\ p \in Seq(D!NodeNames)
  BY <1>3, <1>4, TreeRows DEF Fits
<1>6. op.file \in Files \cup {None} /\ op.name \in D!NodeNames
  BY OperationFields
<1> HIDE DEF p
<1>7. x \in D!DocRow /\ x.folder = p /\ x.recorded = p /\ x.src = op.file
  BY <1>1, <1>5, <1>6 DEF D!DocRow
<1>8. e \in Docs
  BY <1>2, <1>3 DEF D!NewDocs
<1>9. Fits(v, v, ps, x.folder) /\ x.recorded = x.folder
  BY <1>5, <1>7
<1>10. x.src # None => x.src \in D!AllFiles(v) /\ v.files[x.src].folder = x.folder
  BY <1>3, <1>7 DEF p
<1>11. x.src \in D!AllFiles(v) => x.src \in fs
  BY <1>7
<1> QED  BY <1>3, <1>4, <1>7, <1>8, <1>9, <1>10, <1>11, DocWritten

LEMMA NamedRow ==
    ASSUME NEW x \in D!DocRow, NEW nm \in D!NodeNames
    PROVE  /\ D!Renamed(x, nm) \in D!DocRow
           /\ D!Renamed(x, nm).folder = x.folder /\ D!Renamed(x, nm).recorded = x.recorded
           /\ D!Renamed(x, nm).src = x.src
<1>1. x = [folder |-> x.folder, recorded |-> x.recorded, src |-> x.src, name |-> x.name, rev |-> x.rev]
  BY DEF D!DocRow
<1>2. PICK y : y = [x EXCEPT !.name = nm, !.rev = @ + 1]
  OBVIOUS
<1>3. DOMAIN y = {"folder", "recorded", "src", "name", "rev"}
  BY <1>1, <1>2
<1>4. /\ y.folder = x.folder /\ y.recorded = x.recorded /\ y.src = x.src /\ y.name = nm
      /\ y.rev = x.rev + 1
  BY <1>1, <1>2
<1>5. y = [z \in {"folder", "recorded", "src", "name", "rev"} |-> y[z]]
  BY <1>2, <1>3
<1>6. y = [folder |-> y.folder, recorded |-> y.recorded, src |-> y.src, name |-> y.name, rev |-> y.rev]
  BY <1>5
<1>7. x.folder \in Seq(D!NodeNames) /\ x.recorded \in Seq(D!NodeNames) /\ x.src \in Files \cup {None} /\ x.rev + 1 \in Nat
  BY DEF D!DocRow
<1>8. y \in D!DocRow
  BY <1>4, <1>6, <1>7 DEF D!DocRow
<1> QED  BY <1>2, <1>4, <1>8 DEF D!Renamed

LEMMA RenameDocumentKept ==
    ASSUME NEW v, NEW ps, ps \subseteq v.folders, NEW fs, NEW M, Sound(v, M), NEW op \in D!Operation, op.kind = "RenameDocument",
           v.docs[op.doc].folder \in ps, D!SourceFiles(v, op.doc) \subseteq fs,
           NEW w \in D!RenameDocument(v, op)
    PROVE  Kept(v, w, ps, fs, M)
<1> DEFINE d == op.doc
<1>1. d \in D!AllDocs(v) /\ w = [v EXCEPT !.docs[d] = D!Renamed(@, op.name)]
  BY DEF D!RenameDocument, D!When
<1>2. v \in D!Tree /\ Kept(v, v, ps, fs, M) /\ D!WithSources(v, M)
  BY SteadyAtFirst DEF Steady, Kept
<1>3. d \in Docs /\ v.docs[d] \in D!DocRow /\ op.name \in D!NodeNames
  BY <1>1, <1>2, OperationFields, TreeRows
<1>4. PICK x : x = D!Renamed(v.docs[d], op.name)
  OBVIOUS
<1>5. w = [v EXCEPT !.docs[d] = x]
  BY <1>1, <1>4
<1>6. PICK y : y = v.docs[d]
  OBVIOUS
<1>7. x \in D!DocRow /\ x.folder = y.folder /\ x.recorded = y.recorded /\ x.src = y.src
  BY <1>3, <1>4, <1>6, NamedRow
<1>8. \/ D!DocKey(d) \in M
      \/ /\ x.recorded = x.folder
         /\ x.src # None => x.src \in D!AllFiles(v) /\ v.files[x.src].folder = x.folder
  BY <1>1, <1>2, <1>6, <1>7 DEF D!WithSources
<1>9. Fits(v, v, ps, x.folder) /\ (x.src \in D!AllFiles(v) => x.src \in fs)
  BY <1>6, <1>7 DEF Fits, D!SourceFiles
<1> QED  BY <1>2, <1>3, <1>5, <1>7, <1>8, <1>9, DocWritten

\* A copy of a document, with a file of its own.
LEMMA CopiedKept ==
    ASSUME NEW v, NEW u, NEW ps, NEW fs, NEW M, Kept(v, u, ps, fs, M), FilesKnown(v), DocsKnown(v),
           NEW d \in D!AllDocs(u), NEW p \in Seq(D!NodeNames), Fits(v, u, ps, p), NEW w \in D!Copied(u, d, p)
    PROVE  Kept(v, w, ps, fs, M) /\ w.folders = u.folders /\ \A k \in D!AllDocs(v) : w.docs[k] = u.docs[k]
<1> DEFINE file == u.docs[d].src # None
           other == D!Available(u, p, u.docs[d].name)
<1>1. PICK e : e = CHOOSE z \in D!NewDocs(u) : TRUE
  OBVIOUS
<1>2. PICK g : g = CHOOSE z \in D!NewFiles(u) : TRUE
  OBVIOUS
<1>3. D!NewDocs(u) # {} /\ (file => D!NewFiles(u) # {}) /\ w = D!CopiedTo(u, d, p, e, g)
  BY <1>1, <1>2 DEF D!Copied, D!When
<1>4. /\ u \in D!Tree /\ e \in Docs /\ e \notin D!AllDocs(u) /\ e \notin D!AllDocs(v)
      /\ u = [folders |-> u.folders, files |-> u.files, docs |-> u.docs]
  BY <1>1, <1>3, NewDoc, TreeOfThree DEF Kept
<1>5. other \in D!NodeNames
  BY <1>4, TreeRows, CopyName
<1> HIDE DEF other
<1>6. CASE file
  <2>1. PICK x : x = [folder |-> p, owner |-> e]
    OBVIOUS
  <2>2. PICK y : y = [folder |-> p, recorded |-> p, src |-> g, name |-> other, rev |-> 0]
    OBVIOUS
  <2>3. PICK stored : stored = [u EXCEPT !.files[g] = x]
    OBVIOUS
  <2>4. x \in D!FileRow /\ x.folder = p
    BY <1>4, <2>1 DEF D!FileRow
  <2>5. Fits(v, u, ps, x.folder)
    BY <2>4
  <2>6. FileIn(v, u, stored, g, x) /\ Kept(v, stored, ps, fs, M)
    BY <1>2, <1>3, <1>6, <2>3, <2>4, <2>5, FileAdded
  <2>7. /\ stored.folders = u.folders /\ stored.docs = u.docs
        /\ g \in Files /\ g \notin D!AllFiles(v) /\ g \in D!AllFiles(stored) /\ stored.files[g].folder = p
    BY <2>4, <2>6 DEF FileIn
  <2>8. y \in D!DocRow /\ y.folder = p /\ y.recorded = p /\ y.src = g
    BY <1>5, <2>2, <2>7 DEF D!DocRow
  <2>9. w = [stored EXCEPT !.docs[e] = y]
    <3> DEFINE files == [u.files EXCEPT ![g] = x]
               docs == [u.docs EXCEPT ![e] = y]
    <3>1. w = [u EXCEPT !.docs = docs, !.files = files]
      BY <1>3, <1>6, <2>1, <2>2 DEF D!CopiedTo, other
    <3>2. stored = [u EXCEPT !.files = files]
      BY <2>3
    <3>3. [stored EXCEPT !.docs[e] = y] = [stored EXCEPT !.docs = docs]
      BY <2>7
    <3> HIDE DEF files, docs
    <3>4. stored = [folders |-> u.folders, files |-> files, docs |-> u.docs]
      BY <1>4, <3>2
    <3>5. w = [folders |-> u.folders, files |-> files, docs |-> docs]
      BY <1>4, <3>1
    <3> QED  BY <3>3, <3>4, <3>5
  <2>10. Fits(v, stored, ps, y.folder) /\ y.recorded = y.folder
    BY <2>7, <2>8 DEF Fits
  <2>11. y.src \in D!AllFiles(stored) /\ stored.files[y.src].folder = y.folder /\ y.src \notin D!AllFiles(v)
    BY <2>7, <2>8
  <2>12. Kept(v, w, ps, fs, M) /\ w.folders = stored.folders /\ \A k \in Docs \ {e} : w.docs[k] = stored.docs[k]
    BY <1>4, <2>6, <2>8, <2>9, <2>10, <2>11, DocWritten
  <2> QED  BY <1>4, <2>7, <2>12 DEF D!AllDocs
<1>7. CASE ~file
  <2>1. PICK y : y = [folder |-> p, recorded |-> p, src |-> None, name |-> other, rev |-> 0]
    OBVIOUS
  <2>2. y \in D!DocRow /\ y.folder = p /\ y.recorded = p /\ y.src = None
    BY <1>5, <2>1 DEF D!DocRow
  <2>3. w = [u EXCEPT !.docs[e] = y]
    <3> DEFINE docs == [u.docs EXCEPT ![e] = y]
    <3>1. w = [u EXCEPT !.docs = docs, !.files = u.files]
      BY <1>3, <1>7, <2>1 DEF D!CopiedTo, other
    <3>2. [u EXCEPT !.docs[e] = y] = [u EXCEPT !.docs = docs]
      OBVIOUS
    <3> HIDE DEF docs
    <3> QED  BY <1>4, <3>1, <3>2
  <2>4. Fits(v, u, ps, y.folder) /\ y.recorded = y.folder /\ y.src = None /\ y.src \notin D!AllFiles(v)
    BY <2>2, Constants DEF D!AllFiles
  <2>5. Kept(v, w, ps, fs, M) /\ w.folders = u.folders /\ \A k \in Docs \ {e} : w.docs[k] = u.docs[k]
    BY <1>4, <2>2, <2>3, <2>4, DocWritten
  <2> QED  BY <1>4, <2>5 DEF D!AllDocs
<1> QED  BY <1>6, <1>7

LEMMA CopyDocumentKept ==
    ASSUME NEW v, NEW ps, NEW fs, NEW M, Sound(v, M), FilesKnown(v), DocsKnown(v), NEW op,
           op.to \in ps, NEW w \in D!CopyDocument(v, op)
    PROVE  Kept(v, w, ps, fs, M)
<1>1. op.doc \in D!AllDocs(v) /\ op.to \in v.folders /\ w \in D!Copied(v, op.doc, op.to)
  BY DEF D!CopyDocument
<1>2. Kept(v, v, ps, fs, M) /\ op.to \in Seq(D!NodeNames) /\ Fits(v, v, ps, op.to)
  BY <1>1, SteadyAtFirst, TreeRows DEF Steady, Sound, Fits
<1> QED  BY <1>1, <1>2, CopiedKept


\* The folder takes another name.
LEMMA RenameFolderKept ==
    ASSUME NEW v, NEW ps, NEW fs, NEW ds, NEW M, Sound(v, M), NEW op \in D!Operation, op.kind = "RenameFolder",
           \A r \in D!Subtree(v, op.path) : r \in ps, D!Parent(op.path) \in ps,
           D!FilesIn(v, D!Subtree(v, op.path)) \subseteq fs, D!DocsIn(v, D!Subtree(v, op.path)) \subseteq ds,
           NEW w \in D!RenameFolder(v, op)
    PROVE  Steady(v, w, ps, fs, ds, M)
<1> DEFINE p == op.path
           q == Append(D!Parent(p), op.name)
<1>1. D!Movable(v, p, q) /\ w = D!Relocated(v, p, q)
  BY DEF D!RenameFolder, D!When
<1>2. p \in D!Paths \ {D!Home} /\ p \in Seq(D!NodeNames) /\ D!Parent(p) \in v.folders /\ op.name \in D!NodeNames
  BY <1>1, PathSeq, OperationFields DEF D!Movable
<1>3. D!Parent(p) \in Seq(D!NodeNames) /\ ~D!Below(D!Parent(p), p)
  BY <1>2, ParentOf, BelowParent
<1>4. q \in Seq(D!NodeNames)
  BY <1>2, <1>3, AppendProperties
<1>5. D!Parent(q) = D!Parent(p) /\ q # D!Home
  BY <1>3, <1>4, ParentAppend
<1> HIDE DEF q
<1>6. Steady(v, v, ps, fs, ds, M)
  BY SteadyAtFirst
<1>7. D!Parent(q) \in v.folders /\ ~D!Below(D!Parent(q), p) /\ D!Parent(q) \in ps
  BY <1>2, <1>3, <1>5
<1> QED  BY <1>1, <1>2, <1>4, <1>5, <1>6, <1>7, RelocatedSteady

\* The folder service removes a folder with its files.
LEMMA DeleteFilesKept ==
    ASSUME NEW v, NEW ps, NEW fs, NEW M, Sound(v, M), NEW op, op.path \in D!Paths,
           \A r \in D!Subtree(v, op.path) : r \in ps, NEW w \in D!DeleteFiles(v, op)
    PROVE  Kept(v, w, ps, fs, M)
<1> DEFINE out == D!Subtree(v, op.path)
           files == D!FilesIn(v, out)
<1>1. v \in D!Tree /\ Kept(v, v, ps, fs, M) /\ op.path \in Seq(D!NodeNames) /\ v.folders \subseteq Seq(D!NodeNames)
      /\ v = [folders |-> v.folders, files |-> v.files, docs |-> v.docs]
  BY PathSeq, TreeRows, TreeOfThree, SteadyAtFirst DEF Sound, Steady
<1>2. /\ D!DocsIn(v, out) = {} /\ \A f \in files : D!SourceOf(v, f) = {}
      /\ w = [v EXCEPT !.folders = @ \ out, !.files = [f \in Files |-> IF f \in files THEN None ELSE v.files[f]]]
  BY DEF D!DeleteFiles, D!When
<1>3. \A f : f \in files <=> f \in D!AllFiles(v) /\ v.files[f].folder \in out
  BY DEF D!FilesIn
<1> HIDE DEF files
<1>4. /\ w.folders = v.folders \ out /\ w.files = [f \in Files |-> IF f \in files THEN None ELSE v.files[f]]
      /\ w.docs = v.docs /\ w = [folders |-> w.folders, files |-> w.files, docs |-> w.docs]
  BY <1>1, <1>2
<1>5. /\ \A f : f \in D!AllFiles(w) <=> f \in D!AllFiles(v) /\ f \notin files
      /\ \A f \in D!AllFiles(w) : w.files[f] = v.files[f]
      /\ D!AllDocs(w) = D!AllDocs(v)
  BY <1>4 DEF D!AllFiles, D!AllDocs
<1>6. w \in D!Tree
  BY <1>1, <1>4, TreeRows, TreeMade
<1>7. FoldersKept(v, w, ps, M)
  <2> SUFFICES ASSUME NEW t \in w.folders \ {D!Home}, ~KnownFolder(t, M)
               PROVE  D!Parent(t) \in w.folders
    BY <1>4 DEF FoldersKept
  <2>1. D!Parent(t) \in v.folders
    BY <1>1, <1>4 DEF Kept, FoldersKept
  <2>2. ~D!Below(t, op.path)
    BY <1>4 DEF D!Subtree
  <2>3. ~D!Below(D!Parent(t), op.path)
    BY <1>1, <1>4, <2>2, BelowParent
  <2> QED  BY <1>4, <2>1, <2>3 DEF D!Subtree
<1>8. FilesKept(v, w, ps, M)
  BY <1>1, <1>3, <1>4, <1>5 DEF Kept, FilesKept
<1>9. \A d \in D!AllDocs(v) : D!DocKey(d) \notin M => v.docs[d].folder \in w.folders
  BY <1>1, <1>2, <1>4 DEF Kept, DocsKept, D!DocsIn
<1>10. DocsKept(v, w, ps, M)
  BY <1>4, <1>5, <1>9 DEF DocsKept
<1>11. D!WithSources(w, M)
  <2> SUFFICES ASSUME NEW d \in D!AllDocs(v), D!DocKey(d) \notin M
               PROVE  /\ v.docs[d].recorded = v.docs[d].folder
                      /\ v.docs[d].src # None =>
                            v.docs[d].src \in D!AllFiles(w) /\ w.files[v.docs[d].src].folder = v.docs[d].folder
    BY <1>4, <1>5 DEF D!WithSources
  <2>1. /\ v.docs[d].recorded = v.docs[d].folder
        /\ v.docs[d].src # None =>
              v.docs[d].src \in D!AllFiles(v) /\ v.files[v.docs[d].src].folder = v.docs[d].folder
    BY <1>1 DEF Kept, D!WithSources
  <2>2. v.docs[d].src \notin files
    BY <1>2 DEF D!SourceOf
  <2> QED  BY <1>5, <2>1, <2>2
<1>12. SourcesLocked(v, w, fs, M)
  BY <1>4, <1>5 DEF SourcesLocked
<1>13. RemovedLocked(v, w, ps)
  BY <1>4 DEF RemovedLocked
<1> QED  BY <1>6, <1>7, <1>8, <1>10, <1>11, <1>12, <1>13 DEF Kept

\* A finite set as a sequence.
LEMMA InSequence ==
    ASSUME NEW S, IsFiniteSet(S), NEW x, x = D!SetToSeq(S)
    PROVE  Len(x) \in Nat /\ \A i \in 1 .. Len(x) : x[i] \in S
<1>1. Cardinality(S) \in Nat /\ ExistsBijection(1 .. Cardinality(S), S)
  BY FS_CardinalityType
<1>2. D!Cardinality(S) = Cardinality(S)
  BY DEF D!Cardinality, Cardinality
<1>3. \E f \in [1 .. D!Cardinality(S) -> S] : D!IsInjective(f)
  BY <1>1, <1>2 DEF ExistsBijection, Bijection, Injection, D!IsInjective, IsInjective
<1>5. x \in [1 .. Cardinality(S) -> S]
  BY <1>2, <1>3 DEF D!SetToSeq
<1>4. x \in Seq(S) /\ Len(x) = Cardinality(S)
  BY <1>1, <1>5
<1> QED  BY <1>1, <1>4, <1>5


\* The documents are copied one after the other into the new folders.
LEMMA CopiedDocsKept ==
    ASSUME NEW v, NEW made, NEW ps, NEW fs, NEW M, Kept(v, made, ps, fs, M), FilesKnown(v), DocsKnown(v),
           made.docs = v.docs, NEW ds, Len(ds) \in Nat, \A i \in 1 .. Len(ds) : ds[i] \in D!AllDocs(v), NEW p, NEW q,
           \A i \in 1 .. Len(ds) : /\ D!Rebased(v.docs[ds[i]].folder, p, q) \in Seq(D!NodeNames)
                                   /\ Fits(v, made, ps, D!Rebased(v.docs[ds[i]].folder, p, q)),
           NEW w \in D!CopiedDocs(v, made, ds, p, q)
    PROVE  Kept(v, w, ps, fs, M) /\ \A k \in D!AllDocs(v) : w.docs[k] = v.docs[k]
<1> DEFINE N == Len(ds)
           Place(i) == D!Rebased(v.docs[ds[i]].folder, p, q)
           Step(i, before) == UNION {D!Copied(u, ds[i], Place(i)) : u \in before}
           Def(g) == g = [i \in 0 .. N |-> IF i = 0 THEN {made} ELSE Step(i, g[i - 1])]
           after == CHOOSE g : Def(g)
           Runs(g, k) == g[0] = {made} /\ \A i \in 1 .. k : g[i] = Step(i, g[i - 1])
           K == {k \in Nat : \E g : Runs(g, k)}
<1>1. N \in Nat
  OBVIOUS
<1>2. 0 \in K
  <2> HIDE DEF Step
  <2>1. Runs([i \in {0} |-> {made}], 0)
    OBVIOUS
  <2> HIDE DEF Runs
  <2> QED  BY <2>1
<1>3. ASSUME NEW k \in Nat, k \in K PROVE k + 1 \in K
  <2> HIDE DEF Step
  <2>1. PICK g : Runs(g, k)
    BY <1>3
  <2> DEFINE h == [i \in 0 .. k + 1 |-> IF i <= k THEN g[i] ELSE Step(i, g[i - 1])]
  <2>2. \A i \in 0 .. k : h[i] = g[i]
    OBVIOUS
  <2>3. h[k + 1] = Step(k + 1, g[k])
    OBVIOUS
  <2> HIDE DEF h
  <2>4. h[0] = {made}
    BY <2>1, <2>2
  <2>5. ASSUME NEW i \in 1 .. k + 1 PROVE h[i] = Step(i, h[i - 1])
    <3>1. i - 1 \in 0 .. k /\ h[i - 1] = g[i - 1]
      BY <2>2
    <3>2. CASE i <= k
      BY <2>1, <2>2, <3>1, <3>2
    <3>3. CASE i = k + 1
      BY <2>3, <3>1, <3>3
    <3> QED  BY <3>2, <3>3
  <2>6. Runs(h, k + 1)
    BY <2>4, <2>5
  <2> HIDE DEF Runs
  <2> QED  BY <2>6
<1> HIDE DEF K
<1>4. Nat \subseteq K
  BY <1>2, <1>3, Induction
<1>5. \E g : Def(g)
  <2> HIDE DEF Step
  <2>1. PICK g : Runs(g, N)
    BY <1>1, <1>4 DEF K
  <2> DEFINE h == [i \in 0 .. N |-> g[i]]
  <2>2. ASSUME NEW i \in 0 .. N PROVE h[i] = IF i = 0 THEN {made} ELSE Step(i, h[i - 1])
    <3>1. i # 0 => i - 1 \in 0 .. N /\ i \in 1 .. N
      BY <1>1
    <3> QED  BY <2>1, <3>1
  <2>3. Def(h)
    <3>1. h = [i \in 0 .. N |-> h[i]]
      OBVIOUS
    <3> HIDE DEF h
    <3> QED  BY <2>2, <3>1
  <2> HIDE DEF Def
  <2> QED  BY <2>3
<1>6. Def(after)
  <2> HIDE DEF Def
  <2> QED  BY <1>5
<1>7. w \in after[N]
  BY DEF D!CopiedDocs
<1> HIDE DEF after, Runs
<1>8. after[0] = {made} /\ \A i \in 1 .. N : after[i] = Step(i, after[i - 1])
  <2>1. \A i \in 1 .. N : i \in 0 .. N /\ i # 0
    BY <1>1
  <2> HIDE DEF Step
  <2>2. \A i \in 0 .. N : after[i] = IF i = 0 THEN {made} ELSE Step(i, after[i - 1])
    BY <1>6
  <2>3. 0 \in 0 .. N
    BY <1>1
  <2> HIDE DEF Def
  <2> QED  BY <2>1, <2>2, <2>3
<1> HIDE DEF Def
<1> DEFINE Fine(u) == /\ Kept(v, u, ps, fs, M) /\ u.folders = made.folders
                      /\ \A k \in D!AllDocs(v) : u.docs[k] = v.docs[k]
           L == {k \in Nat : k <= N => \A u \in after[k] : Fine(u)}
<1>9. 0 \in L
  BY <1>8
<1>10. ASSUME NEW k \in Nat, k \in L PROVE k + 1 \in L
  <2> SUFFICES ASSUME k + 1 <= N, NEW u \in after[k + 1] PROVE Fine(u)
    OBVIOUS
  <2>1. k + 1 \in 1 .. N /\ (k + 1) - 1 = k /\ k <= N
    BY <1>1
  <2>2. PICK d : d = ds[k + 1]
    OBVIOUS
  <2>3. PICK t : t = Place(k + 1)
    OBVIOUS
  <2>4. d \in D!AllDocs(v) /\ t \in Seq(D!NodeNames) /\ Fits(v, made, ps, t)
    BY <2>1, <2>2, <2>3
  <2>5. after[k + 1] = UNION {D!Copied(x, d, t) : x \in after[k]}
    BY <1>8, <2>1, <2>2, <2>3
  <2>6. PICK x \in after[k] : u \in D!Copied(x, d, t)
    BY <2>5
  <2>7. Kept(v, x, ps, fs, M) /\ x.folders = made.folders /\ \A j \in D!AllDocs(v) : x.docs[j] = v.docs[j]
    BY <1>10, <2>1
  <2> HIDE DEF Place, Step, L
  <2>8. d \in D!AllDocs(x) /\ Fits(v, x, ps, t)
    BY <2>4, <2>7 DEF D!AllDocs, Fits
  <2>9. Kept(v, u, ps, fs, M) /\ u.folders = x.folders /\ \A j \in D!AllDocs(v) : u.docs[j] = x.docs[j]
    BY <2>4, <2>6, <2>7, <2>8, CopiedKept
  <2> QED  BY <2>7, <2>9
<1> HIDE DEF L
<1>11. Nat \subseteq L
  BY <1>9, <1>10, Induction
<1>12. \A u \in after[N] : Fine(u)
  BY <1>1, <1>11 DEF L
<1> QED  BY <1>7, <1>12

LEMMA CopyFolderKept ==
    ASSUME NEW v, NEW ps, NEW fs, NEW M, Sound(v, M), FilesKnown(v), DocsKnown(v),
           NEW op \in D!Operation, op.kind = "CopyFolder", op.to \in ps, NEW w \in D!CopyFolder(v, op)
    PROVE  Kept(v, w, ps, fs, M) /\ \A k \in D!AllDocs(v) : w.docs[k] = v.docs[k]
<1> DEFINE p == op.path
           free == D!AvailableFolder(v, op.to, p[Len(p)])
           q == Append(op.to, free)
           source == D!Subtree(v, p)
           Xs == {D!Rebased(r, p, q) : r \in source}
<1>1. PICK made : made = [v EXCEPT !.folders = @ \cup Xs]
  OBVIOUS
<1>2. PICK ds : ds = D!SetToSeq(D!DocsIn(v, source))
  OBVIOUS
<1>3. /\ p # D!Home /\ D!Movable(v, p, q) /\ op.to \in v.folders
      /\ \A r \in source \ {p} : D!Parent(r) \in source
      /\ w \in D!CopiedDocs(v, made, ds, p, q)
  BY <1>1, <1>2 DEF D!CopyFolder
<1>4. v \in D!Tree /\ v.folders \subseteq Seq(D!NodeNames) /\ p \in v.folders /\ p \in Seq(D!NodeNames) /\ op.to \in Seq(D!NodeNames)
  BY <1>3, TreeRows DEF D!Movable, Sound
<1>5. free \in D!NodeNames
  <2> DEFINE taken == {y[Len(y)] : y \in {r \in v.folders \ {D!Home} : D!Parent(r) = op.to}}
  <2>1. p[Len(p)] \in D!NodeNames
    BY <1>3, <1>4, ParentOf, ElementOfSeq
  <2>2. free = D!FirstFree(p[Len(p)], taken)
    BY DEF D!AvailableFolder
  <2> HIDE DEF taken
  <2> QED  BY <2>1, <2>2, FirstFreeName
<1> HIDE DEF free
<1>6. q \in Seq(D!NodeNames)
  BY <1>4, <1>5, AppendProperties
<1>7. D!Parent(q) = op.to /\ q # D!Home
  BY <1>4, <1>6, ParentAppend
<1> HIDE DEF q
<1>8. \A r \in source : r \in Seq(D!NodeNames) /\ D!Below(r, p) /\ D!Rebased(r, p, q) \in D!Paths \ v.folders
  BY <1>3, <1>4 DEF D!Movable, D!Subtree
<1> HIDE DEF source
<1>9. Xs \in SUBSET (D!Paths \ v.folders)
  BY <1>8
<1>10. ASSUME NEW t \in Xs
       PROVE  D!Parent(t) \in v.folders \cup Xs /\ (D!Parent(t) \in v.folders => D!Parent(t) \in ps)
  <2>1. PICK r \in source : t = D!Rebased(r, p, q)
    OBVIOUS
  <2>2. CASE r = p
    BY <1>3, <1>4, <1>6, <1>7, <2>1, <2>2, RebasedRoot
  <2>3. CASE r # p
    <3>1. r # D!Home
      BY <1>4, PathSeq, BelowMeans, <1>3, ParentOf, <1>8 DEF D!Home
    <3>2. D!Parent(t) = D!Rebased(D!Parent(r), p, q)
      BY <1>4, <1>6, <1>8, <2>1, <2>3, <3>1, RebasedChild
    <3>3. D!Parent(r) \in source
      BY <1>3, <2>3
    <3>4. D!Parent(t) \in Xs
      BY <3>2, <3>3
    <3> QED  BY <1>9, <3>4
  <2> QED  BY <2>2, <2>3
<1>11. PICK Y : Y = Xs
  OBVIOUS
<1>12. /\ Kept(v, made, ps, fs, M)
       /\ made.folders = v.folders \cup Y /\ made.files = v.files /\ made.docs = v.docs
  BY <1>1, <1>9, <1>11, <1>10, GrownKept
<1>13. Len(ds) \in Nat /\ \A i \in 1 .. Len(ds) : ds[i] \in D!DocsIn(v, source)
  <2>1. IsFiniteSet(Docs)
    BY TreeAxiom DEF D!TreeAssumption, D!IsFiniteSet, IsFiniteSet
  <2>2. PICK S : S = D!DocsIn(v, source)
    OBVIOUS
  <2>3. IsFiniteSet(S)
    BY <2>1, <2>2, FS_Subset DEF D!DocsIn, D!AllDocs
  <2> QED  BY <1>2, <2>2, <2>3, InSequence
<1>14. ASSUME NEW i \in 1 .. Len(ds)
       PROVE  /\ ds[i] \in D!AllDocs(v) /\ D!Rebased(v.docs[ds[i]].folder, p, q) \in Seq(D!NodeNames)
              /\ Fits(v, made, ps, D!Rebased(v.docs[ds[i]].folder, p, q))
  BY <1>13, <1>8, <1>11, <1>12, PathSeq DEF D!DocsIn, Fits
<1> HIDE DEF p
<1> QED  BY <1>3, <1>12, <1>13, <1>14, CopiedDocsKept


(* Any operation.                                                             *)

\* What an operation leaves when it has locked what it owns.
LeftBy(v, w, ps, fs, ds, M, op) ==
    Kept(v, w, ps, fs, M) /\ (op.kind \in D!Recursive => DocsOwned(v, w, ds, M))

LEMMA PartOf ==
    ASSUME NEW op \in D!Operation, op.kind \in {"MoveDocument", "DeleteDocument", "MoveFolder", "DeleteFolder"}
    PROVE  op \in D!Part
  BY DEF D!Operation

LEMMA EffectLeft ==
    ASSUME NEW v, NEW M, Sound(v, M), FilesKnown(v), DocsKnown(v), NEW op \in D!Operation, op.kind # "Bulk",
           NEW ps, ps = D!OwnFolders(v, op), ps \subseteq v.folders, NEW fs, fs = D!OwnFiles(v, op),
           NEW ds, ds = D!OwnDocs(v, op), NEW w \in D!Effect(v, op)
    PROVE  LeftBy(v, w, ps, fs, ds, M, op)
<1>1. /\ op.kind \in D!WithTarget => op.to \in ps
      /\ op.kind = "NewDocument" /\ op.file = None => op.to \in ps
      /\ op.kind \in D!OnSubtree => (\A r \in D!Subtree(v, op.path) : r \in ps) /\ D!Parent(op.path) \in ps
      /\ op.kind \in D!OnDocument => v.docs[op.doc].folder \in ps
      /\ op.kind \notin {"CopyFile", "CopyDocument", "CopyFolder"} => \A f \in fs : v.files[f].folder \in ps
  BY OwnLocked
<1>2. CASE op.kind = "CreateFolder"
  BY <1>1, <1>2, CreateFolderKept DEF D!WithTarget, D!Effect, D!Recursive, LeftBy
<1>3. CASE op.kind = "Upload"
  BY <1>1, <1>3, UploadKept DEF D!WithTarget, D!Effect, D!Recursive, LeftBy
<1>4. CASE op.kind = "MoveFile"
  BY <1>1, <1>4, OwnedRows, MoveFileKept DEF D!WithTarget, D!Effect, D!Recursive, D!OnFile, LeftBy
<1>5. CASE op.kind = "CopyFile"
  BY <1>1, <1>5, CopyFileKept DEF D!WithTarget, D!Effect, D!Recursive, LeftBy
<1>6. CASE op.kind = "DeleteFile"
  BY <1>6, DeleteFileKept DEF D!Effect, D!Recursive, LeftBy
<1>7. CASE op.kind = "NewDocument"
  BY <1>7, OwnedRows, <1>1, NewDocumentKept DEF D!Effect, D!Recursive, LeftBy
<1>8. CASE op.kind = "RenameDocument"
  BY <1>8, OwnedRows, <1>1, RenameDocumentKept DEF D!Effect, D!Recursive, D!OnDocument, LeftBy
<1>9. CASE op.kind = "CopyDocument"
  BY <1>1, <1>9, CopyDocumentKept DEF D!WithTarget, D!Effect, D!Recursive, LeftBy
<1>10. CASE op.kind \in {"MoveDocument", "DeleteDocument", "MoveFolder", "DeleteFolder"}
  BY <1>10, PartOf, SteadyAtFirst, PartSteady DEF LeftBy, Steady
<1>11. CASE op.kind = "RenameFolder"
  BY <1>11, OwnedRows, <1>1, RenameFolderKept DEF D!Effect, D!OnSubtree, LeftBy, Steady
<1>12. CASE op.kind = "CopyFolder"
  BY <1>1, <1>12, CopyFolderKept DEF D!WithTarget, D!Effect, LeftBy, DocsOwned
<1>13. CASE op.kind = "DeleteFiles"
  BY <1>13, <1>1, OperationFields, DeleteFilesKept DEF D!Effect, D!Recursive, D!OnSubtree, LeftBy
<1> QED  BY <1>2, <1>3, <1>4, <1>5, <1>6, <1>7, <1>8, <1>9, <1>10, <1>11, <1>12, <1>13, OperationFields

LEMMA EffectsLeft ==
    ASSUME NEW v, NEW M, Sound(v, M), FilesKnown(v), DocsKnown(v), NEW op \in D!Operation,
           D!LockedFolders(v, op) \subseteq v.folders, NEW w \in D!Effects(v, op)
    PROVE  LeftBy(v, w, D!LockedFolders(v, op), D!LockedFiles(v, op), D!LockedDocs(v, op), M, op)
<1>1. CASE op.kind = "Bulk"
  BY <1>1, OperationFields, BulkSteady DEF D!Effects, LeftBy, Steady
<1>2. CASE op.kind # "Bulk"
  BY <1>2, EffectLeft DEF D!Effects, D!Parts, D!LockedFolders, D!LockedFiles, D!LockedDocs
<1> QED  BY <1>1, <1>2


(* Two transactions.                                                          *)

LEMMA WrittenRows ==
    ASSUME NEW v, NEW w
    PROVE  /\ \A p : D!FolderRow(p) \in D!Written(v, w) <=> p \in (v.folders \ w.folders) \cup (w.folders \ v.folders)
           /\ \A f : D!FileKey(f) \in D!Written(v, w) <=> f \in Files /\ v.files[f] # w.files[f]
           /\ \A d : D!DocKey(d) \in D!Written(v, w) <=> d \in Docs /\ v.docs[d] # w.docs[d]
  BY KeysApart DEF D!Written

\* What a transaction locks and writes is in the tree cur as in its view.
Untouched(v, w, cur, ps, fs) ==
    /\ \A p : p \in ps \/ p \in (v.folders \ w.folders) \cup (w.folders \ v.folders) =>
                  (p \in v.folders <=> p \in cur.folders)
    /\ \A f \in Files : f \in fs \/ v.files[f] # w.files[f] => v.files[f] = cur.files[f]
    /\ \A d \in Docs : v.docs[d] # w.docs[d] => v.docs[d] = cur.docs[d]

LEMMA NothingTouched ==
    ASSUME NEW v, NEW w, NEW cur, NEW ps, NEW fs, NEW ds, NEW ch, D!Written(v, cur) \subseteq ch,
           ch \cap D!Keys(ps, fs, ds) = {}, ch \cap D!Written(v, w) = {}
    PROVE  Untouched(v, w, cur, ps, fs)
<1>1. ASSUME NEW p, p \in ps \/ p \in (v.folders \ w.folders) \cup (w.folders \ v.folders)
      PROVE  p \in v.folders <=> p \in cur.folders
  BY <1>1, KeysApart, WrittenRows
<1>2. ASSUME NEW f \in Files, f \in fs \/ v.files[f] # w.files[f]
      PROVE  v.files[f] = cur.files[f]
  BY <1>2, KeysApart, WrittenRows
<1>3. ASSUME NEW d \in Docs, v.docs[d] # w.docs[d]
      PROVE  v.docs[d] = cur.docs[d]
  BY <1>3, WrittenRows
<1> QED  BY <1>1, <1>2, <1>3 DEF Untouched

FileChanged(v, w, f) == f \in Files /\ v.files[f] # w.files[f]

\* The rows E that the merge of two sound trees may leave unsound.
Excuses(v, w, cur, ps, M, E) ==
    /\ M \subseteq E
    /\ \A p \in cur.folders \ {D!Home} : p \notin v.folders /\ D!Parent(p) \in ps => D!FolderRow(p) \in E
    /\ \A p \in w.folders \ {D!Home} :
           KnownFolder(p, M) /\ (p \notin v.folders \/ D!Parent(p) \notin w.folders) => D!FolderRow(p) \in E
    /\ \A f \in D!AllFiles(cur) : cur.files[f] # v.files[f] /\ cur.files[f].folder \in ps => D!FileKey(f) \in E
    /\ \A d \in D!AllDocs(cur) : cur.docs[d] # v.docs[d] /\ cur.docs[d].folder \in ps => D!DocKey(d) \in E
    /\ \A d \in D!AllDocs(cur) :
           cur.docs[d] # v.docs[d] /\ FileChanged(v, w, cur.docs[d].src) => D!DocKey(d) \in E

LEMMA MergedRows ==
    ASSUME NEW cur \in D!Tree, NEW v \in D!Tree, NEW w \in D!Tree, NEW left, left = D!Merged(cur, v, w)
    PROVE  /\ left \in D!Tree
           /\ \A p : p \in left.folders <=> (p \in cur.folders /\ ~(p \in v.folders /\ p \notin w.folders))
                                         \/ (p \in w.folders /\ p \notin v.folders)
           /\ \A f \in Files : left.files[f] = IF v.files[f] # w.files[f] THEN w.files[f] ELSE cur.files[f]
           /\ \A d \in Docs : left.docs[d] = IF v.docs[d] # w.docs[d] THEN w.docs[d] ELSE cur.docs[d]
<1>1. /\ left.folders = (cur.folders \ (v.folders \ w.folders)) \cup (w.folders \ v.folders)
      /\ left.files = [f \in Files |-> IF v.files[f] # w.files[f] THEN w.files[f] ELSE cur.files[f]]
      /\ left.docs = [d \in Docs |-> IF v.docs[d] # w.docs[d] THEN w.docs[d] ELSE cur.docs[d]]
      /\ left = [folders |-> left.folders, files |-> left.files, docs |-> left.docs]
  BY DEF D!Merged
<1>2. /\ left.folders \subseteq D!Paths
      /\ left.files \in [Files -> D!FileRow \cup {None}] /\ left.docs \in [Docs -> D!DocRow \cup {None}]
  BY <1>1 DEF D!Tree
<1>3. left \in D!Tree
  BY <1>1, <1>2, TreeMade
<1> QED  BY <1>1, <1>3

LEMMA MergedSound ==
    ASSUME NEW cur, NEW v, NEW w, NEW ps, NEW fs, NEW M, NEW E, Sound(cur, M), Sound(v, M), Kept(v, w, ps, fs, M),
           Untouched(v, w, cur, ps, fs), Excuses(v, w, cur, ps, M, E), NEW left, left = D!Merged(cur, v, w)
    PROVE  Sound(left, E)
<1>1. v \in D!Tree /\ w \in D!Tree /\ cur \in D!Tree
  BY DEF Sound, Kept
<1>2. /\ left \in D!Tree
      /\ \A p : p \in left.folders <=> (p \in cur.folders /\ ~(p \in v.folders /\ p \notin w.folders))
                                    \/ (p \in w.folders /\ p \notin v.folders)
      /\ \A f \in Files : left.files[f] = IF v.files[f] # w.files[f] THEN w.files[f] ELSE cur.files[f]
      /\ \A d \in Docs : left.docs[d] = IF v.docs[d] # w.docs[d] THEN w.docs[d] ELSE cur.docs[d]
  BY <1>1, MergedRows
\* A folder that the transaction leaves, new or locked, stays.
<1>3. ASSUME NEW p \in w.folders, p \in v.folders => p \in ps PROVE p \in left.folders
  BY <1>2, <1>3 DEF Untouched
\* A folder stays unless the transaction, which has locked it, removes it.
<1>4. ASSUME NEW p \in cur.folders, p \notin left.folders PROVE p \in ps /\ p \in v.folders /\ p \notin w.folders
  BY <1>2, <1>4 DEF Kept, RemovedLocked
<1>5. ASSUME NEW p \in left.folders \ {D!Home} PROVE D!Parent(p) \in left.folders \/ D!FolderRow(p) \in E
  <2>1. CASE p \in w.folders /\ p \notin v.folders
    BY <2>1, <1>3 DEF Kept, FoldersKept, Excuses
  <2>2. CASE p \in cur.folders /\ p \in v.folders /\ p \in w.folders
    BY <2>2, <1>4 DEF Sound, D!InFolders, Kept, FoldersKept, Excuses
  <2>3. CASE p \in cur.folders /\ p \notin v.folders
    BY <2>3, <1>4 DEF Sound, D!InFolders, Excuses
  <2> QED  BY <1>2, <2>1, <2>2, <2>3
<1>6. ASSUME NEW f \in D!AllFiles(left) PROVE left.files[f].folder \in left.folders \/ D!FileKey(f) \in E
  <2>1. f \in Files /\ left.files[f] # None
    BY DEF D!AllFiles
  <2>2. CASE v.files[f] # w.files[f]
    BY <1>2, <2>1, <2>2, <1>3 DEF D!AllFiles, Kept, FilesKept, Excuses
  <2>3. CASE v.files[f] = w.files[f]
    <3>1. f \in D!AllFiles(cur) /\ left.files[f] = cur.files[f]
      BY <1>2, <2>1, <2>3 DEF D!AllFiles
    <3>2. D!FileKey(f) \in M \/ cur.files[f].folder \in cur.folders
      BY <3>1 DEF Sound, D!InFolders
    <3>3. CASE cur.files[f] # v.files[f]
      BY <1>4, <3>1, <3>2, <3>3 DEF Excuses
    <3>4. CASE cur.files[f] = v.files[f]
      BY <2>1, <2>3, <3>1, <3>4, <1>4, <3>2 DEF D!AllFiles, Kept, FilesKept, Excuses
    <3> QED  BY <3>3, <3>4
  <2> QED  BY <2>2, <2>3
<1>7. ASSUME NEW d \in D!AllDocs(left) PROVE left.docs[d].folder \in left.folders \/ D!DocKey(d) \in E
  <2>1. d \in Docs /\ left.docs[d] # None
    BY DEF D!AllDocs
  <2>2. CASE v.docs[d] # w.docs[d]
    BY <1>2, <2>1, <2>2, <1>3 DEF D!AllDocs, Kept, DocsKept, Excuses
  <2>3. CASE v.docs[d] = w.docs[d]
    <3>1. d \in D!AllDocs(cur) /\ left.docs[d] = cur.docs[d]
      BY <1>2, <2>1, <2>3 DEF D!AllDocs
    <3>2. D!DocKey(d) \in M \/ cur.docs[d].folder \in cur.folders
      BY <3>1 DEF Sound, D!InFolders
    <3>3. CASE cur.docs[d] # v.docs[d]
      BY <1>4, <3>1, <3>2, <3>3 DEF Excuses
    <3>4. CASE cur.docs[d] = v.docs[d]
      BY <2>1, <2>3, <3>1, <3>4, <1>4, <3>2 DEF D!AllDocs, Kept, DocsKept, Excuses
    <3> QED  BY <3>3, <3>4
  <2> QED  BY <2>2, <2>3
<1>8. ASSUME NEW d \in D!AllDocs(left), D!DocKey(d) \notin E
      PROVE  /\ left.docs[d].recorded = left.docs[d].folder
             /\ left.docs[d].src # None => left.docs[d].src \in D!AllFiles(left) /\ left.files[left.docs[d].src].folder = left.docs[d].folder
  <2>1. d \in Docs /\ left.docs[d] # None /\ D!DocKey(d) \notin M
    BY <1>8 DEF D!AllDocs, Excuses
  <2>2. PICK src : src = left.docs[d].src
    OBVIOUS
  <2>3. CASE v.docs[d] # w.docs[d]
    <3>1. d \in D!AllDocs(w) /\ left.docs[d] = w.docs[d]
      BY <1>2, <2>1, <2>3 DEF D!AllDocs
    <3>2. /\ w.docs[d].recorded = w.docs[d].folder
          /\ src # None => src \in D!AllFiles(w) /\ w.files[src].folder = w.docs[d].folder
      BY <2>1, <2>2, <3>1 DEF Kept, D!WithSources
    <3>3. src \in D!AllFiles(v) => src \in fs
      BY <2>1, <2>2, <2>3, <3>1 DEF Kept, SourcesLocked
    <3>4. ASSUME src \in D!AllFiles(w) PROVE left.files[src] = w.files[src] /\ src \in D!AllFiles(left)
      BY <3>4, <3>3, <1>2 DEF D!AllFiles, Untouched
    <3> QED  BY <2>2, <3>1, <3>2, <3>4
  <2>4. CASE v.docs[d] = w.docs[d]
    <3>1. d \in D!AllDocs(cur) /\ left.docs[d] = cur.docs[d]
      BY <1>2, <2>1, <2>4 DEF D!AllDocs
    <3>2. /\ cur.docs[d].recorded = cur.docs[d].folder
          /\ src # None => src \in D!AllFiles(cur) /\ cur.files[src].folder = cur.docs[d].folder
      BY <2>1, <2>2, <3>1 DEF Sound, D!WithSources
    <3>3. ASSUME src # None PROVE src \in D!AllFiles(left) /\ left.files[src].folder = left.docs[d].folder
      <4>1. src \in Files /\ cur.files[src] # None
        BY <3>2, <3>3 DEF D!AllFiles
      <4>2. CASE v.files[src] = w.files[src]
        BY <1>2, <3>1, <3>2, <3>3, <4>1, <4>2 DEF D!AllFiles
      <4>3. CASE v.files[src] # w.files[src]
        <5>1. cur.docs[d] = v.docs[d]
          BY <1>8, <2>2, <3>1, <4>1, <4>3 DEF Excuses, FileChanged
        <5>2. d \in D!AllDocs(w) /\ w.docs[d] = left.docs[d]
          BY <2>1, <2>4, <3>1, <5>1 DEF D!AllDocs
        <5>3. src \in D!AllFiles(w) /\ w.files[src].folder = w.docs[d].folder
          BY <2>1, <2>2, <3>3, <5>2 DEF Kept, D!WithSources
        <5> QED  BY <1>2, <4>1, <4>3, <5>2, <5>3 DEF D!AllFiles
      <4> QED  BY <4>2, <4>3
    <3> QED  BY <2>2, <3>1, <3>2, <3>3
  <2> QED  BY <2>3, <2>4
<1>9. D!InFolders(left, E)
  BY <1>5, <1>6, <1>7 DEF D!InFolders
<1>10. D!WithSources(left, E)
  BY <1>8 DEF D!WithSources
<1> QED  BY <1>2, <1>9, <1>10 DEF Sound


(* The inductive invariant.                                                   *)

\* A transaction has its view, and hears of the rows that changed since.
TransactionInv(t) ==
    t # D!Idle =>
        /\ t = [op |-> t.op, queue |-> t.queue, checked |-> t.checked, view |-> t.view, changed |-> t.changed]
        /\ t.op \in D!Operation
        /\ Sound(t.view, missed) /\ FilesKnown(t.view) /\ DocsKnown(t.view)
        /\ D!Written(t.view, db) \subseteq t.changed
        /\ t.queue = TRUE \/ t.checked # D!Direct => t.op.kind \in D!Recursive

TreeInv ==
    /\ Sound(db, missed) /\ FilesKnown(db) /\ DocsKnown(db)
    /\ open = [s \in People |-> open[s]]
    /\ \A s \in People : TransactionInv(open[s])
    /\ \A x \in jobs : x.op \in D!Operation /\ x.op.kind \in D!Recursive

LEMMA SoundMore == ASSUME NEW v, NEW M, NEW E, M \subseteq E, Sound(v, M) PROVE Sound(v, E)
  BY DEF Sound, D!InFolders, D!WithSources

LEMMA TreeInit == D!Init => TreeInv
<1> SUFFICES ASSUME D!Init PROVE TreeInv
  OBVIOUS
<1>1. Sound(db, missed)
  BY TreeAxiom DEF D!Init, D!TreeAssumption, Sound
<1>2. FilesKnown(db) /\ DocsKnown(db)
  BY KeysApart DEF D!Init, FilesKnown, DocsKnown
<1>3. open = [s \in People |-> open[s]] /\ \A s \in People : TransactionInv(open[s])
  BY DEF D!Init, TransactionInv
<1>4. jobs = {}
  BY DEF D!Init
<1> QED  BY <1>1, <1>2, <1>3, <1>4 DEF TreeInv

\* A transaction that begins sees the rows as they are.
LEMMA BeginInv ==
    ASSUME TreeInv, NEW s \in People, NEW op \in D!Operation, NEW queue \in BOOLEAN, NEW checked,
           queue \/ checked # D!Direct => op.kind \in D!Recursive, D!Begin(s, op, queue, checked), jobs' \subseteq jobs
    PROVE  TreeInv'
<1>1. /\ db' = db /\ used' = used /\ missed' = missed
      /\ open' = [open EXCEPT ![s] = [op |-> op, queue |-> queue, checked |-> checked, view |-> db, changed |-> {}]]
  BY DEF D!Begin
<1>2. Sound(db, missed)' /\ FilesKnown(db)' /\ DocsKnown(db)' /\ (\A x \in jobs' : x.op \in D!Operation /\ x.op.kind \in D!Recursive)
  BY <1>1 DEF TreeInv, FilesKnown, DocsKnown
<1>3. PICK t : t = [op |-> op, queue |-> queue, checked |-> checked, view |-> db, changed |-> {}]
  OBVIOUS
<1>4. open' = [r \in People |-> open'[r]] /\ open'[s] = t /\ \A r \in People \ {s} : open'[r] = open[r]
  BY <1>1, <1>3 DEF TreeInv
<1>5. D!Written(db, db) = {}
  BY DEF D!Written, D!Keys
<1>6. TransactionInv(t)'
  BY <1>1, <1>2, <1>3, <1>5 DEF TransactionInv
<1>7. ASSUME NEW r \in People \ {s} PROVE TransactionInv(open[r])'
  BY <1>1, <1>4 DEF TreeInv, TransactionInv, FilesKnown, DocsKnown
<1> QED  BY <1>2, <1>4, <1>6, <1>7 DEF TreeInv

\* A transaction that ends without a trace.
LEMMA EndInv ==
    ASSUME TreeInv, NEW s \in People, open' = [open EXCEPT ![s] = D!Idle], UNCHANGED <<db, used, missed>>,
           \A x \in jobs' : x.op \in D!Operation /\ x.op.kind \in D!Recursive
    PROVE  TreeInv'
<1>1. Sound(db, missed)' /\ FilesKnown(db)' /\ DocsKnown(db)'
  BY DEF TreeInv, FilesKnown, DocsKnown
<1>2. open' = [r \in People |-> open'[r]] /\ open'[s] = D!Idle /\ \A r \in People \ {s} : open'[r] = open[r]
  BY DEF TreeInv
<1>3. TransactionInv(open[s])'
  BY <1>2 DEF TransactionInv
<1>4. ASSUME NEW r \in People \ {s} PROVE TransactionInv(open[r])'
  BY <1>2 DEF TreeInv, TransactionInv, FilesKnown, DocsKnown
<1> QED  BY <1>1, <1>2, <1>3, <1>4 DEF TreeInv

LEMMA BusyFields ==
    ASSUME TreeInv, NEW s \in People, D!Busy(s)
    PROVE  /\ open[s] = [op |-> open[s].op, queue |-> open[s].queue, checked |-> open[s].checked,
                         view |-> open[s].view, changed |-> open[s].changed]
           /\ open[s].op \in D!Operation
           /\ Sound(open[s].view, missed) /\ FilesKnown(open[s].view) /\ DocsKnown(open[s].view)
           /\ D!Written(open[s].view, db) \subseteq open[s].changed
           /\ open[s].queue = TRUE \/ open[s].checked # D!Direct => open[s].op.kind \in D!Recursive
  BY DEF TreeInv, TransactionInv, D!Busy

\* What a transaction that may commit leaves.
LEMMA Finishing ==
    ASSUME TreeInv, NEW s \in People, D!Busy(s), NEW v, v = open[s].view, NEW op, op = open[s].op,
           NEW w \in D!Effects(v, op), D!LockedFolders(v, op) \subseteq v.folders, ~D!Conflict(s, w)
    PROVE  /\ LeftBy(v, w, D!LockedFolders(v, op), D!LockedFiles(v, op), D!LockedDocs(v, op), missed, op)
           /\ Untouched(v, w, db, D!LockedFolders(v, op), D!LockedFiles(v, op))
<1>1. op \in D!Operation /\ Sound(v, missed) /\ FilesKnown(v) /\ DocsKnown(v) /\ D!Written(v, db) \subseteq open[s].changed
  BY BusyFields
<1>2. LeftBy(v, w, D!LockedFolders(v, op), D!LockedFiles(v, op), D!LockedDocs(v, op), missed, op)
  BY <1>1, EffectsLeft
<1>3. /\ open[s].changed \cap D!Keys(D!LockedFolders(v, op), D!LockedFiles(v, op), D!LockedDocs(v, op)) = {}
      /\ open[s].changed \cap D!Written(v, w) = {}
  BY DEF D!Conflict, D!Locks
<1>4. PICK ch : ch = open[s].changed
  OBVIOUS
<1>5. PICK cur : cur = db
  OBVIOUS
<1>6. PICK ps, fs, ds : ps = D!LockedFolders(v, op) /\ fs = D!LockedFiles(v, op) /\ ds = D!LockedDocs(v, op)
  OBVIOUS
<1>7. D!Written(v, cur) \subseteq ch /\ ch \cap D!Keys(ps, fs, ds) = {} /\ ch \cap D!Written(v, w) = {}
  BY <1>1, <1>3, <1>4, <1>5, <1>6
<1>8. Untouched(v, w, cur, ps, fs)
  BY <1>7, NothingTouched
<1> QED  BY <1>2, <1>5, <1>6, <1>8

LEMMA FinishExcuses ==
    ASSUME TreeInv, NEW s \in People, D!Busy(s), NEW v, v = open[s].view, NEW w
    PROVE  Excuses(v, w, db, D!LockedFolders(v, open[s].op), missed, missed \cup D!Overlooked(s, w) \cup D!Carried(v, w))
<1> DEFINE ps == D!LockedFolders(v, open[s].op)
           E == missed \cup D!Overlooked(s, w) \cup D!Carried(v, w)
           Ps == {p \in db.folders \ {D!Home} : D!Parent(p) \in ps}
           Ds == D!DocsIn(db, ps) \cup {d \in D!AllDocs(db) : D!FileKey(db.docs[d].src) \in D!Written(v, w)}
<1>1. D!Overlooked(s, w) = open[s].changed \cap D!Keys(Ps, D!FilesIn(db, ps), Ds)
  BY DEF D!Overlooked
<1>2. D!Written(v, db) \subseteq open[s].changed
  BY BusyFields
<1>3. ASSUME NEW p \in db.folders \ {D!Home}, p \notin v.folders, D!Parent(p) \in ps PROVE D!FolderRow(p) \in E
  BY <1>3, WrittenRows, KeysApart, <1>1, <1>2
<1>4. ASSUME NEW p \in w.folders \ {D!Home}, KnownFolder(p, missed), p \notin v.folders \/ D!Parent(p) \notin w.folders
      PROVE  D!FolderRow(p) \in E
  BY <1>4 DEF D!Carried, KnownFolder
<1>5. ASSUME NEW f \in D!AllFiles(db), db.files[f] # v.files[f], db.files[f].folder \in ps PROVE D!FileKey(f) \in E
  BY <1>5, WrittenRows, KeysApart, <1>1, <1>2 DEF D!AllFiles, D!FilesIn
<1>6. ASSUME NEW d \in D!AllDocs(db), db.docs[d] # v.docs[d], d \in Ds PROVE D!DocKey(d) \in E
  BY <1>6, WrittenRows, KeysApart, <1>1, <1>2 DEF D!AllDocs
<1>7. ASSUME NEW d \in D!AllDocs(db), db.docs[d].folder \in ps PROVE d \in Ds
  BY <1>7 DEF D!DocsIn
<1>8. ASSUME NEW d \in D!AllDocs(db), FileChanged(v, w, db.docs[d].src)
      PROVE  d \in Ds
  BY <1>8, WrittenRows DEF FileChanged
<1> HIDE DEF Ds
<1>9. PICK F : F = E
  OBVIOUS
<1>10. PICK qs : qs = ps
  OBVIOUS
<1>11. missed \subseteq F
  BY <1>9
<1> HIDE DEF E, ps
<1>12. \A p \in db.folders \ {D!Home} : p \notin v.folders /\ D!Parent(p) \in qs => D!FolderRow(p) \in F
  BY <1>3, <1>9, <1>10
<1>13. \A p \in w.folders \ {D!Home} :
           KnownFolder(p, missed) /\ (p \notin v.folders \/ D!Parent(p) \notin w.folders) => D!FolderRow(p) \in F
  BY <1>4, <1>9
<1>14. \A f \in D!AllFiles(db) : db.files[f] # v.files[f] /\ db.files[f].folder \in qs => D!FileKey(f) \in F
  BY <1>5, <1>9, <1>10
<1>15. \A d \in D!AllDocs(db) : db.docs[d] # v.docs[d] /\ db.docs[d].folder \in qs => D!DocKey(d) \in F
  BY <1>6, <1>7, <1>9, <1>10
<1>16. \A d \in D!AllDocs(db) :
           db.docs[d] # v.docs[d] /\ FileChanged(v, w, db.docs[d].src) => D!DocKey(d) \in F
  BY <1>6, <1>8, <1>9
<1>17. Excuses(v, w, db, qs, missed, F)
  BY <1>11, <1>12, <1>13, <1>14, <1>15, <1>16 DEF Excuses
<1> QED  BY <1>9, <1>10, <1>17 DEF E, ps


\* The rows that a commit changes are those that it writes.
LEMMA MergedWritten ==
    ASSUME NEW cur \in D!Tree, NEW v \in D!Tree, NEW w \in D!Tree, NEW x
    PROVE  D!Written(x, D!Merged(cur, v, w)) \subseteq D!Written(x, cur) \cup D!Written(v, w)
<1>1. PICK left : left = D!Merged(cur, v, w)
  OBVIOUS
<1>2. /\ \A p : p \in left.folders <=> (p \in cur.folders /\ ~(p \in v.folders /\ p \notin w.folders))
                                    \/ (p \in w.folders /\ p \notin v.folders)
      /\ \A f \in Files : left.files[f] = IF v.files[f] # w.files[f] THEN w.files[f] ELSE cur.files[f]
      /\ \A d \in Docs : left.docs[d] = IF v.docs[d] # w.docs[d] THEN w.docs[d] ELSE cur.docs[d]
  BY <1>1, MergedRows
<1> DEFINE Fo(y, z) == (y.folders \ z.folders) \cup (z.folders \ y.folders)
           Fi(y, z) == {f \in Files : y.files[f] # z.files[f]}
           Do(y, z) == {d \in Docs : y.docs[d] # z.docs[d]}
<1>3. Fo(x, left) \subseteq Fo(x, cur) \cup Fo(v, w)
  BY <1>2
<1>4. Fi(x, left) \subseteq Fi(x, cur) \cup Fi(v, w)
  BY <1>2
<1>5. Do(x, left) \subseteq Do(x, cur) \cup Do(v, w)
  BY <1>2
<1>6. \A y, z : D!Written(y, z) = D!Keys(Fo(y, z), Fi(y, z), Do(y, z))
  BY DEF D!Written
<1> HIDE DEF Fo, Fi, Do
<1>7. D!Keys(Fo(x, left), Fi(x, left), Do(x, left)) \subseteq D!Keys(Fo(x, cur), Fi(x, cur), Do(x, cur)) \cup D!Keys(Fo(v, w), Fi(v, w), Do(v, w))
  BY <1>3, <1>4, <1>5 DEF D!Keys
<1> QED  BY <1>1, <1>6, <1>7

LEMMA FinishInv == ASSUME TreeInv, NEW s \in People, D!Finish(s) PROVE TreeInv'
<1>1. PICK v : v = open[s].view
  OBVIOUS
<1>2. PICK op : op = open[s].op
  OBVIOUS
<1>3. D!Busy(s) /\ jobs' = jobs
  BY DEF D!Finish
<1>4. PICK w \in D!Effects(v, op) :
          /\ D!LockedFolders(v, op) \subseteq v.folders
          /\ ~D!Conflict(s, w)
          /\ db' = D!Merged(db, v, w)
          /\ open' = [D!Seen(D!Written(v, w)) EXCEPT ![s] = D!Idle]
          /\ used' = used \cup D!Keys({}, D!AllFiles(w), D!AllDocs(w))
          /\ missed' = missed \cup D!Overlooked(s, w) \cup D!Carried(v, w)
  BY <1>1, <1>2 DEF D!Finish
<1>5. /\ Kept(v, w, D!LockedFolders(v, op), D!LockedFiles(v, op), missed)
      /\ Untouched(v, w, db, D!LockedFolders(v, op), D!LockedFiles(v, op))
  BY <1>1, <1>2, <1>3, <1>4, Finishing DEF LeftBy
<1>6. Excuses(v, w, db, D!LockedFolders(v, op), missed, missed')
  BY <1>1, <1>2, <1>3, <1>4, FinishExcuses
<1>7. Sound(db, missed) /\ Sound(v, missed)
  BY <1>1, <1>3, BusyFields DEF TreeInv
<1>8. Sound(D!Merged(db, v, w), missed')
  <2>1. PICK ps, fs : ps = D!LockedFolders(v, op) /\ fs = D!LockedFiles(v, op)
    OBVIOUS
  <2>2. PICK E : E = missed'
    OBVIOUS
  <2>3. PICK M : M = missed
    OBVIOUS
  <2>4. PICK cur : cur = db
    OBVIOUS
  <2>5. Sound(D!Merged(cur, v, w), E)
    BY <1>5, <1>7, <2>1, <2>3, <2>4, <1>6, <2>2, MergedSound
  <2> QED  BY <2>2, <2>4, <2>5
<1>9. db \in D!Tree /\ v \in D!Tree /\ w \in D!Tree
  BY <1>5, <1>7 DEF Sound, Kept
<1>10. FilesKnown(db)' /\ DocsKnown(db)'
  <2>1. /\ \A f \in Files : db'.files[f] = IF v.files[f] # w.files[f] THEN w.files[f] ELSE db.files[f]
        /\ \A d \in Docs : db'.docs[d] = IF v.docs[d] # w.docs[d] THEN w.docs[d] ELSE db.docs[d]
    BY <1>4, <1>9, MergedRows
  <2>2. ASSUME NEW f \in D!AllFiles(db)' PROVE D!FileKey(f) \in used'
    BY <2>1, <1>4, KeysApart DEF D!AllFiles, TreeInv, FilesKnown
  <2>3. ASSUME NEW d \in D!AllDocs(db)' PROVE D!DocKey(d) \in used'
    BY <2>1, <1>4, KeysApart DEF D!AllDocs, TreeInv, DocsKnown
  <2> QED  BY <2>2, <2>3 DEF FilesKnown, DocsKnown
<1>11. /\ open' = [r \in People |-> open'[r]] /\ open'[s] = D!Idle
       /\ \A r \in People \ {s} :
              open'[r] = IF D!Busy(r) THEN [open[r] EXCEPT !.changed = @ \cup D!Written(v, w)] ELSE D!Idle
  BY <1>4 DEF D!Seen
<1>12. ASSUME NEW r \in People \ {s}, D!Busy(r) PROVE TransactionInv(open[r])'
  <2>1. PICK t : t = open[r]
    OBVIOUS
  <2>2. /\ t = [op |-> t.op, queue |-> t.queue, checked |-> t.checked, view |-> t.view, changed |-> t.changed]
        /\ t.op \in D!Operation
        /\ Sound(t.view, missed) /\ FilesKnown(t.view) /\ DocsKnown(t.view)
        /\ D!Written(t.view, db) \subseteq t.changed
        /\ t.queue = TRUE \/ t.checked # D!Direct => t.op.kind \in D!Recursive
    BY <1>12, <2>1, BusyFields
  <2>3. PICK ch : ch = t.changed \cup D!Written(v, w)
    OBVIOUS
  <2>4. PICK u : u = [t EXCEPT !.changed = ch]
    OBVIOUS
  <2>5. u = [op |-> t.op, queue |-> t.queue, checked |-> t.checked, view |-> t.view, changed |-> ch]
    BY <2>2, <2>4
  <2>6. u = open'[r]
    BY <1>11, <1>12, <2>1, <2>3, <2>4
  <2>7. /\ u = [op |-> u.op, queue |-> u.queue, checked |-> u.checked, view |-> u.view, changed |-> u.changed]
        /\ u.op = t.op /\ u.queue = t.queue /\ u.checked = t.checked /\ u.view = t.view /\ u.changed = ch
    BY <2>5
  <2>8. Sound(t.view, missed')
    BY <1>4, <2>2, SoundMore
  <2>9. FilesKnown(t.view)' /\ DocsKnown(t.view)'
    BY <1>4, <2>2 DEF FilesKnown, DocsKnown
  <2>10. D!Written(t.view, db') \subseteq ch
    BY <1>4, <1>9, <2>2, <2>3, MergedWritten
  <2>11. TransactionInv(u)'
    BY <2>2, <2>7, <2>8, <2>9, <2>10 DEF TransactionInv
  <2> QED  BY <2>6, <2>11
<1>13. \A r \in People : TransactionInv(open[r])'
  BY <1>11, <1>12 DEF TransactionInv
<1>14. \A x \in jobs' : x.op \in D!Operation /\ x.op.kind \in D!Recursive
  BY <1>3 DEF TreeInv
<1> QED  BY <1>4, <1>8, <1>10, <1>11, <1>13, <1>14 DEF TreeInv

LEMMA TreeNext == TreeInv /\ [D!Next]_tree => TreeInv'
<1> SUFFICES ASSUME TreeInv, [D!Next]_tree PROVE TreeInv'
  OBVIOUS
<1>1. CASE UNCHANGED tree
  BY <1>1 DEF tree, TreeInv, TransactionInv, FilesKnown, DocsKnown
<1>2. ASSUME NEW s \in People, D!Request(s) PROVE TreeInv'
  <2>1. PICK op \in Requests, queue \in BOOLEAN : (queue => op.kind \in D!Recursive) /\ D!Begin(s, op, queue, D!Direct)
    BY <1>2 DEF D!Request
  <2>2. op \in D!Operation /\ jobs' = jobs
    BY <1>2, TreeAxiom DEF D!Request, D!TreeAssumption
  <2>3. queue \/ D!Direct # D!Direct => op.kind \in D!Recursive
    BY <2>1
  <2>4. jobs' \subseteq jobs
    BY <2>2
  <2> QED  BY <2>1, <2>2, <2>3, <2>4, BeginInv
<1>3. ASSUME NEW s \in People, D!TakeJob(s) PROVE TreeInv'
  <2>1. PICK x \in jobs : D!Begin(s, x.op, FALSE, x.checked) /\ jobs' = jobs \ {x}
    BY <1>3 DEF D!TakeJob
  <2>2. x.op \in D!Operation /\ x.op.kind \in D!Recursive
    BY DEF TreeInv
  <2>3. jobs' \subseteq jobs
    BY <2>1
  <2>4. FALSE \/ x.checked # D!Direct => x.op.kind \in D!Recursive
    BY <2>2
  <2>5. PICK op : op = x.op
    OBVIOUS
  <2>6. PICK checked : checked = x.checked
    OBVIOUS
  <2> QED  BY <2>1, <2>2, <2>3, <2>4, <2>5, <2>6, BeginInv
<1>4. ASSUME NEW s \in People, D!Enqueue(s) PROVE TreeInv'
  <2>1. /\ D!Busy(s) /\ open[s].queue
        /\ jobs' = jobs \cup {[op |-> open[s].op, checked |-> D!Fingerprint(open[s].view, open[s].op)]}
        /\ open' = [open EXCEPT ![s] = D!Idle] /\ UNCHANGED <<db, used, missed>>
    BY <1>4 DEF D!Enqueue
  <2>2. open[s].op \in D!Operation /\ open[s].op.kind \in D!Recursive
    BY <2>1, BusyFields
  <2>3. \A x \in jobs' : x.op \in D!Operation /\ x.op.kind \in D!Recursive
    BY <2>1, <2>2 DEF TreeInv
  <2> QED  BY <2>1, <2>3, EndInv
<1>5. ASSUME NEW s \in People, D!Abort(s) PROVE TreeInv'
  BY <1>5, EndInv DEF D!Abort, TreeInv
<1> QED  BY <1>1, <1>2, <1>3, <1>4, <1>5, FinishInv DEF D!Next


\* What a job writes is what was confirmed.
LEMMA ConfirmedStep == TreeInv /\ [D!Next]_tree => D!OnlyConfirmed
<1> SUFFICES ASSUME TreeInv, [D!Next]_tree, NEW s \in People, D!Busy(s), open'[s] = D!Idle, open[s].checked # D!Direct,
                    NEW d \in D!AllDocs(db), db'.docs[d] # db.docs[d]
             PROVE  \/ D!DocKey(d) \in missed
                    \/ d \in DOMAIN open[s].checked.docs /\ open[s].checked.docs[d] = db.docs[d]
  BY DEF D!OnlyConfirmed
<1>1. open[s] # D!Idle /\ open = [r \in People |-> open[r]]
  BY DEF D!Busy, TreeInv
\* Only a transaction that commits changes rows, and only its own ends.
<1>2. PICK r \in People : D!Finish(r)
  <2>1. ASSUME NEW r \in People, D!Request(r) \/ D!TakeJob(r) PROVE FALSE
    BY <2>1 DEF D!Request, D!TakeJob, D!Begin
  <2>2. ASSUME NEW r \in People, D!Enqueue(r) \/ D!Abort(r) PROVE FALSE
    BY <2>2 DEF D!Enqueue, D!Abort
  <2>3. ~UNCHANGED tree
    BY DEF tree
  <2> QED  BY <2>1, <2>2, <2>3 DEF D!Next
<1>3. r = s
  <2> SUFFICES ASSUME r # s PROVE FALSE
    OBVIOUS
  <2>1. PICK W : open' = [D!Seen(W) EXCEPT ![r] = D!Idle]
    BY <1>2 DEF D!Finish
  <2>2. open'[s] = [open[s] EXCEPT !.changed = @ \cup W]
    BY <2>1 DEF D!Seen
  <2>3. PICK t : t = open[s]
    OBVIOUS
  <2>4. PICK ch : ch = t.changed \cup W
    OBVIOUS
  <2>5. t = [op |-> t.op, queue |-> t.queue, checked |-> t.checked, view |-> t.view, changed |-> t.changed]
    BY <2>3, BusyFields
  <2>6. D!Idle = [t EXCEPT !.changed = ch]
    BY <2>2, <2>3, <2>4
  <2>7. [t EXCEPT !.changed = ch] = [op |-> t.op, queue |-> t.queue, checked |-> t.checked, view |-> t.view, changed |-> ch]
    BY <2>5
  <2>8. "view" \in DOMAIN D!Idle
    BY <2>6, <2>7
  <2> QED  BY <2>8 DEF D!Idle
<1>4. PICK v : v = open[s].view
  OBVIOUS
<1>5. PICK op : op = open[s].op
  OBVIOUS
<1>6. PICK w \in D!Effects(v, op) :
          /\ D!LockedFolders(v, op) \subseteq v.folders
          /\ ~D!Conflict(s, w)
          /\ db' = D!Merged(db, v, w)
  BY <1>2, <1>3, <1>4, <1>5 DEF D!Finish
<1>7. open[s].checked = D!Fingerprint(v, op)
  BY <1>2, <1>3, <1>4, <1>5 DEF D!Finish, D!Unchanged
<1>8. /\ Kept(v, w, D!LockedFolders(v, op), D!LockedFiles(v, op), missed)
      /\ DocsOwned(v, w, D!LockedDocs(v, op), missed)
      /\ Untouched(v, w, db, D!LockedFolders(v, op), D!LockedFiles(v, op))
  BY <1>5, BusyFields, <1>4, <1>6, Finishing DEF LeftBy
<1>9. db \in D!Tree /\ v \in D!Tree /\ w \in D!Tree
  BY <1>4, <1>8, BusyFields DEF TreeInv, Sound, Kept
<1>10. d \in Docs /\ v.docs[d] # w.docs[d]
  BY <1>6, <1>9, MergedRows DEF D!AllDocs
<1>11. v.docs[d] = db.docs[d] /\ d \in D!AllDocs(v)
  BY <1>8, <1>10 DEF Untouched, D!AllDocs
<1>12. d \in D!LockedDocs(v, op) \/ D!DocKey(d) \in missed
  BY <1>8, <1>10, <1>11 DEF DocsOwned
<1>13. open[s].checked.docs = [e \in D!LockedDocs(v, op) |-> v.docs[e]]
  BY <1>7 DEF D!Fingerprint
<1> QED  BY <1>11, <1>12, <1>13

\* Rows lie in folders, and documents with their files.
LEMMA SoundTree == TreeInv => D!NothingOrphaned /\ D!SourcesFollow
  BY DEF TreeInv, Sound, D!NothingOrphaned, D!SourcesFollow

-----------------------------------------------------------------------------
(* Ranks: how many of a set come before a member, from 1. *)

\* O puts the members of S in an order.
Orders(O, S) ==
    /\ \A x \in S : <<x, x>> \notin O
    /\ \A x, y \in S : x # y => <<x, y>> \in O \/ <<y, x>> \in O
    /\ \A x, y, z \in S : <<x, y>> \in O /\ <<y, z>> \in O => <<x, z>> \in O

RankedBy(O, S, rank) == \A y \in S : rank[y] = 1 + Cardinality({x \in S : <<x, y>> \in O})

\* Every place is taken by one member.
LEMMA Ranks ==
    ASSUME NEW S, IsFiniteSet(S), NEW O, Orders(O, S), NEW rank, RankedBy(O, S, rank)
    PROVE  /\ Cardinality(S) \in Nat
           /\ \A y \in S : rank[y] \in 1..Cardinality(S)
           /\ \A x, y \in S : rank[x] = rank[y] => x = y
           /\ \A i \in 1..Cardinality(S) : \E y \in S : rank[y] = i
<1> DEFINE Less(y) == {x \in S : <<x, y>> \in O}
<1>1. ASSUME NEW y \in S
      PROVE  /\ IsFiniteSet(Less(y)) /\ Cardinality(Less(y)) \in Nat
             /\ Cardinality(Less(y)) < Cardinality(S)
             /\ rank[y] = 1 + Cardinality(Less(y))
  <2>1. IsFiniteSet(S \ {y}) /\ Cardinality(S \ {y}) = Cardinality(S) - 1
    BY FS_RemoveElement
  <2>2. Less(y) \in SUBSET (S \ {y})
    BY DEF Orders
  <2>3. IsFiniteSet(Less(y)) /\ Cardinality(Less(y)) <= Cardinality(S \ {y})
    BY <2>1, <2>2, FS_Subset
  <2>4. Cardinality(Less(y)) \in Nat /\ Cardinality(S) \in Nat
    BY <2>3, FS_CardinalityType
  <2> QED  BY <2>1, <2>3, <2>4 DEF RankedBy
<1>2. Cardinality(S) \in Nat
  BY FS_CardinalityType
<1>3. \A y \in S : rank[y] \in 1..Cardinality(S)
  <2> SUFFICES ASSUME NEW y \in S PROVE rank[y] \in 1..Cardinality(S)
    OBVIOUS
  <2> HIDE DEF Less
  <2>1. Cardinality(Less(y)) \in Nat /\ Cardinality(Less(y)) < Cardinality(S) /\ rank[y] = 1 + Cardinality(Less(y))
    BY <1>1
  <2> QED  BY <1>2, <2>1
<1>4. ASSUME NEW x \in S, NEW y \in S, <<x, y>> \in O PROVE rank[x] < rank[y]
  <2>1. Less(x) \in SUBSET Less(y) /\ x \in Less(y) /\ x \notin Less(x)
    BY <1>4 DEF Orders
  <2>2. Cardinality(Less(x)) <= Cardinality(Less(y)) /\ Cardinality(Less(x)) # Cardinality(Less(y))
    BY <1>1, <2>1, FS_Subset
  <2> HIDE DEF Less
  <2>3. /\ Cardinality(Less(x)) \in Nat /\ rank[x] = 1 + Cardinality(Less(x))
        /\ Cardinality(Less(y)) \in Nat /\ rank[y] = 1 + Cardinality(Less(y))
    BY <1>1
  <2> QED  BY <2>2, <2>3
<1>5. \A x, y \in S : rank[x] = rank[y] => x = y
  <2> SUFFICES ASSUME NEW x \in S, NEW y \in S, rank[x] = rank[y], x # y PROVE FALSE
    OBVIOUS
  <2>1. rank[x] < rank[y] \/ rank[y] < rank[x]
    BY <1>4 DEF Orders
  <2>2. rank[x] \in Int /\ rank[y] \in Int
    BY <1>2, <1>3
  <2> QED  BY <2>1, <2>2
<1>6. \A i \in 1..Cardinality(S) : \E y \in S : rank[y] = i
  <2> DEFINE T == 1..Cardinality(S)
             f == [y \in S |-> rank[y]]
  <2>1. f \in Injection(S, T)
    BY <1>3, <1>5 DEF Injection, IsInjective
  <2>2. IsFiniteSet(T) /\ Cardinality(T) = Cardinality(S)
    BY <1>2, FS_Interval
  <2> HIDE DEF T
  <2>3. f \in Surjection(S, T)
    BY <2>1, <2>2, FS_Injection
  <2>4. \A i \in T : \E y \in S : f[y] = i
    BY <2>3 DEF Surjection
  <2> QED  BY <2>4 DEF T
<1> QED  BY <1>2, <1>3, <1>5, <1>6

\* A member that no other one comes before.
LEMMA Foremost ==
    ASSUME NEW S, IsFiniteSet(S), S # {}, NEW O, Orders(O, S)
    PROVE  \E x \in S : \A y \in S \ {x} : <<x, y>> \in O
<1> DEFINE Less(y) == {x \in S : <<x, y>> \in O}
           rank == [y \in S |-> 1 + Cardinality(Less(y))]
<1>1. RankedBy(O, S, rank)
  BY DEF RankedBy
<1>2. 1 \in 1..Cardinality(S)
  BY FS_CardinalityType, FS_EmptySet
<1>3. PICK x \in S : rank[x] = 1
  <2> HIDE DEF rank
  <2> QED  BY <1>1, <1>2, Ranks
<1>4. IsFiniteSet(Less(x)) /\ Cardinality(Less(x)) = 0
  <2>1. Less(x) \in SUBSET S
    OBVIOUS
  <2>2. IsFiniteSet(Less(x)) /\ Cardinality(Less(x)) \in Nat
    BY <2>1, FS_Subset, FS_CardinalityType
  <2>3. 1 + Cardinality(Less(x)) = 1
    BY <1>3
  <2> QED  BY <2>2, <2>3
<1>5. Less(x) = {}
  BY <1>4, FS_EmptySet
<1> QED  BY <1>5 DEF Orders

(* Routing.                                                                   *)

LEMMA RoCardinality == ASSUME NEW S PROVE Ro!Cardinality(S) = Cardinality(S)
  BY DEF Ro!Cardinality, Cardinality

LEMMA RoFinite == ASSUME NEW S PROVE Ro!IsFiniteSet(S) <=> IsFiniteSet(S)
  BY DEF Ro!IsFiniteSet, IsFiniteSet

LEMMA ScoreInt ==
    ASSUME NEW pf, Ro!IsPlatform(pf), NEW source, NEW x \in DOMAIN pf.models
    PROVE  Ro!ScoreFailoverCandidate(pf, source, pf.models[x]) \in Int
<1> DEFINE m == pf.models[x]
           priority == pf.providers[m.provider].priority
           less == (IF priority > 100 THEN 100 ELSE priority) \div 10
           Points(points, same) == IF same THEN points ELSE 0
           Alike(y, z) == y # None /\ y = z
           gain == 1 + Points(100, m.runtime = source.runtime) + Points(50, Alike(m.family, source.family))
                     + Points(10, Alike(m.size, source.size)) + Points(5, m.window >= source.window)
           last == Points(3, m.default)
<1>1. priority \in Int
  BY DEF Ro!IsPlatform
<1>2. less \in Int
  <2> HIDE DEF priority
  <2> QED  BY <1>1
<1>3. gain \in Int /\ last \in Int
  OBVIOUS
<1>4. Ro!ScoreFailoverCandidate(pf, source, m) = gain + (last - less)
  BY DEF Ro!ScoreFailoverCandidate
<1> HIDE DEF gain, last, less
<1> QED  BY <1>2, <1>3, <1>4

\* A ranking lists the candidates, once each.
LEMMA RankingLists ==
    ASSUME NEW pf, Ro!IsPlatform(pf), NEW source, NEW C \in SUBSET DOMAIN pf.models,
           NEW L, L = Ro!RankFailoverCandidates(pf, source, C)
    PROVE  /\ Cardinality(C) \in Nat
           /\ L \in [1..Cardinality(C) -> C]
           /\ \A y \in C : \E i \in 1..Cardinality(C) : L[i] = y
<1> DEFINE Score(x) == Ro!ScoreFailoverCandidate(pf, source, pf.models[x])
           Before(x, y) == Score(x) > Score(y) \/ (Score(x) = Score(y) /\ x < y)
           O == {p \in C \X C : Before(p[1], p[2])}
           Rank(y) == 1 + Ro!Cardinality({x \in C : Before(x, y)})
           rank == [y \in C |-> Rank(y)]
<1>1. IsFiniteSet(C)
  BY RoFinite, FS_Subset DEF Ro!IsPlatform
<1>2. \A x \in C : Score(x) \in Int /\ x \in Int
  BY ScoreInt DEF Ro!IsPlatform
<1>3. Orders(O, C)
  <2> HIDE DEF Score
  <2> QED  BY <1>2 DEF Orders
<1>4. RankedBy(O, C, rank)
  <2> SUFFICES ASSUME NEW y \in C PROVE rank[y] = 1 + Cardinality({x \in C : <<x, y>> \in O})
    BY DEF RankedBy
  <2> HIDE DEF Before
  <2>1. {x \in C : <<x, y>> \in O} = {x \in C : Before(x, y)}
    OBVIOUS
  <2> QED  BY <2>1, RoCardinality
<1>5. L = [i \in 1..Ro!Cardinality(C) |-> CHOOSE y \in C : Rank(y) = i]
  BY DEF Ro!RankFailoverCandidates
<1>6. L = [i \in 1..Cardinality(C) |-> CHOOSE y \in C : Rank(y) = i]
  BY <1>5, RoCardinality
<1> HIDE DEF O, Rank
<1>7. /\ Cardinality(C) \in Nat
      /\ \A y \in C : rank[y] \in 1..Cardinality(C)
      /\ \A x, y \in C : rank[x] = rank[y] => x = y
      /\ \A i \in 1..Cardinality(C) : \E y \in C : rank[y] = i
  <2> HIDE DEF rank
  <2> QED  BY <1>1, <1>3, <1>4, Ranks
<1>8. \A i \in 1..Cardinality(C) : L[i] \in C /\ Rank(L[i]) = i
  BY <1>6, <1>7
<1>9. \A y \in C : \E i \in 1..Cardinality(C) : L[i] = y
  <2> SUFFICES ASSUME NEW y \in C PROVE L[Rank(y)] = y /\ Rank(y) \in 1..Cardinality(C)
    OBVIOUS
  <2>1. Rank(y) \in 1..Cardinality(C)
    BY <1>7
  <2>2. rank[L[Rank(y)]] = rank[y] /\ L[Rank(y)] \in C
    BY <1>8, <2>1
  <2> QED  BY <1>7, <2>1, <2>2
<1> QED  BY <1>6, <1>7, <1>8, <1>9

\* A type's first model, if there is one.
LEMMA FirstFinds ==
    ASSUME NEW pf, Ro!IsPlatform(pf), NEW allowed
    PROVE  LET found == {x \in DOMAIN pf.models : pf.models[x].enabled /\ pf.models[x].type \in allowed}
           IN  Ro!First(pf, allowed) = None => found = {}
<1> DEFINE found == {x \in DOMAIN pf.models : pf.models[x].enabled /\ pf.models[x].type \in allowed}
           Before(x, y) == \/ pf.models[x].default /\ ~pf.models[y].default
                           \/ pf.models[x].default = pf.models[y].default /\ x < y
           O == {p \in found \X found : Before(p[1], p[2])}
<1> SUFFICES ASSUME found # {} PROVE Ro!First(pf, allowed) # None
  OBVIOUS
<1>1. IsFiniteSet(found)
  BY RoFinite, FS_Subset DEF Ro!IsPlatform
<1>2. \A x \in found : pf.models[x].default \in BOOLEAN /\ x \in Int /\ x # None
  BY DEF Ro!IsPlatform
<1>3. Ro!First(pf, allowed) = CHOOSE x \in found : \A y \in found \ {x} : Before(x, y)
  BY DEF Ro!First, Ro!ModelNames
<1> HIDE DEF found
<1>4. Orders(O, found)
  BY <1>2 DEF Orders
<1>5. \E x \in found : \A y \in found \ {x} : <<x, y>> \in O
  <2> HIDE DEF O
  <2> QED  BY <1>1, <1>4, Foremost
<1>6. \E x \in found : \A y \in found \ {x} : Before(x, y)
  BY <1>5
<1> HIDE DEF Before
<1> QED  BY <1>2, <1>3, <1>6

\* A chat goes to whoever can serve it, and to nobody else.
LEMMA ChatAsks ==
    ASSUME NEW pf, Ro!IsPlatform(pf), NEW call, Ro!IsCall(call)
    PROVE  Ro!AsksWhoeverCan(pf, call)
<1> DEFINE attempts == Ro!Attempts(pf, call)
           primary == Ro!ResolveModel(pf, call.model, "Chat")
           able == {m \in Ro!FailoverCandidates(pf, primary, call.needs) : Ro!Able(pf, m, call.needs)}
           L == Ro!RankFailoverCandidates(pf, pf.models[primary], able)
           Can(x) == /\ pf.models[x].enabled
                     /\ pf.models[x].type \in {"Chat", "Completion", "Vision"}
                     /\ \A cap \in call.needs :
                           /\ cap \in pf.models[x].supports
                           /\ cap \in pf.providers[pf.models[x].provider].transports
                           /\ <<x, cap>> \notin pf.refused
           Others(source) ==
               {x \in DOMAIN pf.models : /\ Can(x) /\ Ro!Usable(pf, x)
                                         /\ pf.models[x].provider # pf.models[source].provider}
<1>1. attempts = IF primary = None \/ ~Ro!Able(pf, primary, call.needs) THEN <<>>
                 ELSE <<primary>> \o (IF call.failover THEN L ELSE <<>>)
  BY DEF Ro!Attempts
<1>2. ASSUME primary = None \/ ~Ro!Able(pf, primary, call.needs), call.model = None, call.needs = {}
      PROVE  ~\E x \in DOMAIN pf.models : Can(x)
  <2>1. Ro!Able(pf, primary, call.needs)
    BY <1>2 DEF Ro!Able
  <2>2. Ro!First(pf, Ro!Compatible("Chat")) = None
    BY <1>2, <2>1 DEF Ro!ResolveModel
  <2>3. {x \in DOMAIN pf.models : pf.models[x].enabled /\ pf.models[x].type \in Ro!Compatible("Chat")} = {}
    BY <2>2, FirstFinds
  <2>4. Ro!Compatible("Chat") = {"Chat", "Completion", "Vision"}
    BY DEF Ro!Compatible
  <2> QED  BY <2>3, <2>4
<1>3. able \in SUBSET DOMAIN pf.models
  BY DEF Ro!FailoverCandidates, Ro!ModelNames
<1>4. /\ Cardinality(able) \in Nat
      /\ L \in [1..Cardinality(able) -> able]
      /\ \A y \in able : \E i \in 1..Cardinality(able) : L[i] = y
  <2> HIDE DEF able
  <2> QED  BY <1>3, RankingLists
<1>5. ASSUME primary # None, Ro!Able(pf, primary, call.needs)
      PROVE  /\ attempts # <<>> /\ attempts[1] = primary
             /\ call.failover => /\ Len(attempts) = 1 + Cardinality(able)
                                 /\ \A i \in 2..Len(attempts) : attempts[i] = L[i - 1]
  <2> HIDE DEF able, L, primary, attempts
  <2>1. L \in Seq(able \cup {primary}) /\ Len(L) = Cardinality(able)
    BY <1>4
  <2>2. CASE call.failover
    BY <1>1, <1>5, <2>2, <1>4, <2>1
  <2>3. CASE ~call.failover
    BY <1>1, <1>5, <2>3
  <2> QED  BY <2>2, <2>3
<1>6. ASSUME pf.models[primary].type = "Chat" PROVE able = Others(primary)
  <2> HIDE DEF primary
  <2>1. ASSUME NEW x \in DOMAIN pf.models, x \in able PROVE x \in Others(primary)
    BY <1>6, <2>1 DEF Ro!FailoverCandidates, Ro!FailoverProviders, Ro!Substitute, Ro!Serves, Ro!Compatible,
               Ro!Able, Ro!Effective, Ro!Usable, Ro!IsCall
  <2>2. ASSUME NEW x \in DOMAIN pf.models, x \in Others(primary) PROVE x \in able
    <3>1. pf.models[x].provider \in Ro!FailoverProviders(pf, pf.models[primary].provider)
      BY <2>2 DEF Ro!FailoverProviders, Ro!Usable, Ro!IsPlatform
    <3>2. Ro!Substitute(pf.models[primary], pf.models[x], call.needs)
      BY <1>6, <2>2 DEF Ro!Substitute, Ro!Serves, Ro!Compatible, Ro!IsCall
    <3>3. Ro!Able(pf, x, call.needs)
      BY <2>2 DEF Ro!Able, Ro!Effective, Ro!IsCall
    <3> QED  BY <3>1, <3>2, <3>3 DEF Ro!FailoverCandidates, Ro!ModelNames
  <2> QED  BY <1>3, <2>1, <2>2
<1>7. ASSUME attempts # <<>>, call.failover, pf.models[attempts[1]].type = "Chat"
      PROVE  /\ {attempts[i] : i \in 2..Len(attempts)} = Others(attempts[1])
             /\ Len(attempts) = 1 + Ro!Cardinality(Others(attempts[1]))
  <2>1. primary # None /\ Ro!Able(pf, primary, call.needs)
    BY <1>1, <1>7
  <2> HIDE DEF attempts, primary, able, L
  <2>2. /\ attempts[1] = primary
        /\ Len(attempts) = 1 + Cardinality(able)
        /\ \A i \in 2..Len(attempts) : attempts[i] = L[i - 1]
    BY <1>5, <1>7, <2>1
  <2>3. {attempts[i] : i \in 2..Len(attempts)} = able
    <3>1. \A i \in 2..Len(attempts) : attempts[i] \in able
      BY <1>4, <2>2
    <3>2. ASSUME NEW y \in able PROVE \E i \in 2..Len(attempts) : attempts[i] = y
      <4>1. PICK i \in 1..Cardinality(able) : L[i] = y
        BY <1>4
      <4>2. i + 1 \in 2..Len(attempts) /\ attempts[i + 1] = y
        BY <1>4, <2>2, <4>1
      <4> QED  BY <4>2
    <3> QED  BY <3>1, <3>2
  <2> QED  BY <1>6, <1>7, <2>2, <2>3, RoCardinality
<1>8. attempts = <<>> => (call.model = None /\ call.needs = {} => ~\E x \in DOMAIN pf.models : Can(x))
  BY <1>2, <1>5
<1> HIDE DEF attempts
<1> QED  BY <1>7, <1>8 DEF Ro!AsksWhoeverCan, Ro!ModelNames, attempts

\* Vectors that were accepted have one width.
LEMMA VectorsAgree ==
    ASSUME NEW d \in Nat, NEW first \in Seq(Nat), NEW second \in Seq(Nat)
    PROVE  Ro!OneWidth([models |-> <<[dimensions |-> d]>>], 1, first, second)
<1> DEFINE pf == [models |-> <<[dimensions |-> d]>>]
<1>1. pf.models[1].dimensions = d
  OBVIOUS
<1> HIDE DEF pf
<1> SUFFICES ASSUME first # <<>>, second # <<>>,
                    Ro!ValidEmbeddings(first, Len(first), d),
                    Ro!ValidEmbeddings(second, Len(second), Ro!EmbeddingDimensions(pf, 1, first)),
                    NEW i \in 1..Len(first), NEW j \in 1..Len(second)
             PROVE  first[i] = second[j]
  BY <1>1 DEF Ro!OneWidth, pf
<1>2. first[i] = first[1] /\ first[1] # 0 /\ (d # 0 => first[1] = d)
  BY LenProperties DEF Ro!ValidEmbeddings
<1>3. Ro!EmbeddingDimensions(pf, 1, first) = first[1]
  BY <1>1, <1>2 DEF Ro!EmbeddingDimensions
<1> QED  BY <1>2, <1>3 DEF Ro!ValidEmbeddings

(* Retrieval.                                                                 *)

LEMMA RCardinality == ASSUME NEW S PROVE R!Cardinality(S) = Cardinality(S)
  BY DEF R!Cardinality, Cardinality

LEMMA RFinite == ASSUME NEW S PROVE R!IsFiniteSet(S) <=> IsFiniteSet(S)
  BY DEF R!IsFiniteSet, IsFiniteSet

\* Less than a finite set, by one.
LEMMA LessOne ==
    ASSUME NEW S, IsFiniteSet(S)
    PROVE  \A s \in SUBSET S :
              /\ IsFiniteSet(s) /\ Cardinality(s) \in Nat
              /\ Cardinality(s) = 0 <=> s = {}
              /\ \A x \in s : s \ {x} \in SUBSET S /\ Cardinality(s \ {x}) = Cardinality(s) - 1
<1> SUFFICES ASSUME NEW s \in SUBSET S
             PROVE  /\ IsFiniteSet(s) /\ Cardinality(s) \in Nat
                    /\ Cardinality(s) = 0 <=> s = {}
                    /\ \A x \in s : s \ {x} \in SUBSET S /\ Cardinality(s \ {x}) = Cardinality(s) - 1
  OBVIOUS
<1>1. IsFiniteSet(s) /\ Cardinality(s) \in Nat
  BY FS_Subset, FS_CardinalityType
<1>2. Cardinality(s) = 0 <=> s = {}
  BY <1>1, FS_EmptySet
<1>3. \A x \in s : Cardinality(s \ {x}) = Cardinality(s) - 1
  BY <1>1, FS_RemoveElement
<1> QED  BY <1>1, <1>2, <1>3

\* The sum of what F gives for the members of a set, those chosen by C first.
SumRule(g, F, C, s) == IF s = {} THEN 0 ELSE F[C[s]] + g[s \ {C[s]}]

IsSum(g, F, C, S) == g = [s \in SUBSET S |-> SumRule(g, F, C, s)]

\* Every such sum is a number, and there is one.
LEMMA SumIsNat ==
    ASSUME NEW S, IsFiniteSet(S), NEW F, \A x \in S : F[x] \in Nat,
           NEW C, \A s \in SUBSET S : s # {} => C[s] \in s,
           NEW g, \A s \in SUBSET S : g[s] = SumRule(g, F, C, s)
    PROVE  \A s \in SUBSET S : g[s] \in Nat
<1> DEFINE K == {k \in Nat : \A s \in SUBSET S : Cardinality(s) <= k => g[s] \in Nat}
<1>1. 0 \in K
  <2>1. ASSUME NEW s \in SUBSET S, Cardinality(s) <= 0 PROVE s = {}
    BY <2>1, LessOne
  <2>2. {} \in SUBSET S /\ SumRule(g, F, C, {}) = 0
    BY DEF SumRule
  <2>3. g[{}] \in Nat
    BY <2>2
  <2> QED  BY <2>1, <2>3
<1>2. ASSUME NEW k \in Nat, k \in K PROVE k + 1 \in K
  <2> SUFFICES ASSUME NEW s \in SUBSET S, Cardinality(s) <= k + 1 PROVE g[s] \in Nat
    OBVIOUS
  <2>0. CASE s = {}
    BY <2>0 DEF SumRule
  <2> SUFFICES ASSUME s # {} PROVE g[s] \in Nat
    BY <2>0
  <2>1. C[s] \in s /\ s \ {C[s]} \in SUBSET S /\ Cardinality(s \ {C[s]}) <= k
    BY LessOne
  <2>2. g[s \ {C[s]}] \in Nat /\ F[C[s]] \in Nat
    BY <1>2, <2>1
  <2> QED  BY <2>2 DEF SumRule
<1> HIDE DEF K
<1>3. Nat \subseteq K
  BY <1>1, <1>2, Induction
<1>4. ASSUME NEW s \in SUBSET S PROVE g[s] \in Nat
  BY <1>3, LessOne DEF K
<1> QED  BY <1>4

LEMMA SumExists ==
    ASSUME NEW S, IsFiniteSet(S), NEW F,
           NEW C, \A s \in SUBSET S : s # {} => C[s] \in s
    PROVE  \E g : IsSum(g, F, C, S)
<1> DEFINE Upto(g, k) == \A s \in SUBSET S : Cardinality(s) <= k => g[s] = SumRule(g, F, C, s)
           K == {k \in Nat : \E g : Upto(g, k)}
<1>1. 0 \in K
  <2> DEFINE g == [s \in SUBSET S |-> 0]
  <2>1. \A s \in SUBSET S : Cardinality(s) <= 0 => s = {}
    BY LessOne
  <2>2. Upto(g, 0)
    BY <2>1 DEF SumRule
  <2> QED  BY <2>2
<1>2. ASSUME NEW k \in Nat, k \in K PROVE k + 1 \in K
  <2>1. PICK g : Upto(g, k)
    BY <1>2
  <2> DEFINE h == [s \in SUBSET S |-> SumRule(g, F, C, s)]
  <2>2. ASSUME NEW s \in SUBSET S, Cardinality(s) <= k + 1 PROVE h[s] = SumRule(h, F, C, s)
    <3>1. CASE s = {}
      BY <3>1 DEF SumRule
    <3>2. CASE s # {}
      <4>1. C[s] \in s /\ s \ {C[s]} \in SUBSET S /\ Cardinality(s \ {C[s]}) <= k
        BY <2>2, <3>2, LessOne
      <4>2. g[s \ {C[s]}] = h[s \ {C[s]}]
        BY <2>1, <4>1
      <4>3. h[s] = SumRule(g, F, C, s)
        OBVIOUS
      <4> HIDE DEF h
      <4> QED  BY <3>2, <4>2, <4>3 DEF SumRule
    <3> QED  BY <3>1, <3>2
  <2> HIDE DEF h
  <2>3. Upto(h, k + 1)
    BY <2>2
  <2> HIDE DEF Upto
  <2> QED  BY <2>3
<1> HIDE DEF K
<1>3. Nat \subseteq K
  BY <1>1, <1>2, Induction
<1>4. Cardinality(S) \in Nat /\ \A s \in SUBSET S : Cardinality(s) <= Cardinality(S)
  BY FS_Subset, FS_CardinalityType
<1>5. PICK g : Upto(g, Cardinality(S))
  BY <1>3, <1>4 DEF K
<1> DEFINE h == [s \in SUBSET S |-> g[s]]
<1>6. ASSUME NEW s \in SUBSET S PROVE g[s] = SumRule(h, F, C, s)
  BY <1>4, <1>5 DEF SumRule
<1>7. h = [s \in SUBSET S |-> SumRule(h, F, C, s)]
  <2> HIDE DEF h
  <2>1. h = [s \in SUBSET S |-> g[s]]
    BY DEF h
  <2> QED  BY <1>6, <2>1
<1> QED  BY <1>7 DEF IsSum

LEMMA HitsNat ==
    ASSUME NEW c, NEW terms, IsFiniteSet(terms), \A t \in terms : TermsOf(c)[t] \in Nat
    PROVE  R!Hits(c, terms) \in Nat
<1> DEFINE F == TermsOf(c)
           C == [s \in SUBSET terms |-> CHOOSE x \in s : TRUE]
           Def(g) == g = [s \in SUBSET terms |->
                          IF s = {} THEN 0
                          ELSE TermsOf(c)[CHOOSE x \in s : TRUE] + g[s \ {CHOOSE x \in s : TRUE}]]
           sum == CHOOSE g : Def(g)
<1>1. \A s \in SUBSET terms : C[s] = (CHOOSE x \in s : TRUE) /\ (s # {} => C[s] \in s)
  OBVIOUS
<1> HIDE DEF C
<1>2. ASSUME NEW g PROVE Def(g) <=> IsSum(g, F, C, terms)
  BY <1>1 DEF SumRule, IsSum
<1>3. \E g : IsSum(g, F, C, terms)
  <2> HIDE DEF F, Def, sum
  <2>1. \A s \in SUBSET terms : s # {} => C[s] \in s
    BY <1>1
  <2> QED  BY <2>1, SumExists
<1>4. Def(sum)
  <2>1. \E g : Def(g)
    <3>1. PICK g : IsSum(g, F, C, terms)
      BY <1>3
    <3> HIDE DEF Def
    <3> QED  BY <1>2, <3>1
  <2> HIDE DEF Def
  <2> QED  BY <2>1
<1>5. R!Hits(c, terms) = sum[terms]
  BY DEF R!Hits, R!MapThenSumSet, R!MapThenFoldSet
<1> HIDE DEF sum, Def
<1>6. \A s \in SUBSET terms : sum[s] = SumRule(sum, F, C, s)
  <2>1. sum = [s \in SUBSET terms |-> SumRule(sum, F, C, s)]
    BY <1>2, <1>4 DEF IsSum
  <2>2. ASSUME NEW h, h = [s \in SUBSET terms |-> SumRule(sum, F, C, s)]
        PROVE  \A s \in SUBSET terms : h[s] = SumRule(sum, F, C, s)
    BY <2>2
  <2> QED  BY <2>1, <2>2
<1>7. sum[terms] \in Nat
  BY <1>1, <1>6, SumIsNat
<1> QED  BY <1>5, <1>7

\* Scores of chunks of E.
IsScores(f, E) == DOMAIN f \subseteq E /\ \A c \in DOMAIN f : f[c] \in Int

LEMMA CorpusOfChunks == ASSUME NEW rq PROVE R!Corpus(rq) \subseteq Chunks
  BY DEF R!Corpus

LEMMA ChunksFinite == ASSUME NEW E \in SUBSET Chunks PROVE IsFiniteSet(E)
  BY RequestsAssumption, RFinite, FS_Subset DEF R!RetrievalAssumption

LEMMA CutScores ==
    ASSUME NEW f, NEW E, IsScores(f, E), NEW limit, NEW rq
    PROVE  IsScores(R!TakeTopPerGroup(f, limit), E) /\ IsScores(R!AboveThreshold(rq, f), E)
<1>1. IsScores(R!TakeTopPerGroup(f, limit), E)
  BY DEF IsScores, R!TakeTopPerGroup, R!Only
<1>2. IsScores(R!ApplyThreshold(f, rq.threshold), E)
  BY DEF IsScores, R!ApplyThreshold, R!Only
<1>3. IsScores(R!ApplyGroupThresholds(f), E)
  BY DEF IsScores, R!ApplyGroupThresholds, R!Only
<1> QED  BY <1>1, <1>2, <1>3 DEF R!AboveThreshold

LEMMA RankNat ==
    ASSUME NEW S \in SUBSET Chunks, NEW f, NEW c
    PROVE  R!RankIn(f, S, c) \in Nat \ {0}
<1> DEFINE T == {x \in S : R!Better(f, x, c)}
<1>1. T \in SUBSET Chunks
  OBVIOUS
<1> HIDE DEF T
<1>2. Cardinality(T) \in Nat
  BY <1>1, ChunksFinite, FS_CardinalityType
<1> QED  BY <1>2, RCardinality DEF R!RankIn, T

LEMMA ShareInt ==
    ASSUME NEW f, IsScores(f, Chunks), NEW c
    PROVE  R!Share(f, c) \in Int
<1> DEFINE rank == R!RankIn(f, DOMAIN f, c)
<1>1. rank \in Nat \ {0}
  BY RankNat DEF IsScores
<1>2. Depth \in Nat /\ Unit \in Nat
  BY RequestsAssumption DEF R!RetrievalAssumption
<1> HIDE DEF rank
<1>3. Depth + rank \in Nat \ {0}
  BY <1>1, <1>2
<1>4. Unit \div (Depth + rank) \in Int
  BY <1>2, <1>3
<1> QED  BY <1>4 DEF R!Share, rank

LEMMA FuseScores ==
    ASSUME NEW E \in SUBSET Chunks, NEW f, IsScores(f, E), NEW g, IsScores(g, E)
    PROVE  IsScores(R!FuseRRF(f, g), E)
<1>1. IsScores(f, Chunks) /\ IsScores(g, Chunks)
  BY DEF IsScores
<1>2. ASSUME NEW c PROVE R!Share(f, c) + R!Share(g, c) \in Int
  BY <1>1, ShareInt
<1> QED  BY <1>2 DEF IsScores, R!FuseRRF

LEMMA WeightScores ==
    ASSUME NEW E \in SUBSET Chunks, NEW f, IsScores(f, E), NEW weights,
           weights # None => \A c \in Chunks : weights[R!Base(c)] \in Nat
    PROVE  IsScores(R!ApplyIdentityWeights(f, weights), E)
<1>1. CASE weights = None
  BY <1>1 DEF R!ApplyIdentityWeights
<1>2. CASE weights # None
  <2>1. R!ApplyIdentityWeights(f, weights) =
           [c \in {x \in DOMAIN f : weights[R!Base(x)] > 0} |-> f[c] * weights[R!Base(c)]]
    BY <1>2 DEF R!ApplyIdentityWeights
  <2>2. ASSUME NEW c \in DOMAIN f PROVE f[c] * weights[R!Base(c)] \in Int
    <3>1. f[c] \in Int /\ weights[R!Base(c)] \in Int
      BY <1>2 DEF IsScores
    <3> HIDE DEF IsScores
    <3> QED  BY <3>1
  <2> QED  BY <2>1, <2>2 DEF IsScores
<1> QED  BY <1>1, <1>2

LEMMA NoScores == ASSUME NEW E PROVE IsScores(<<>>, E)
  BY DEF IsScores

LEMMA SemanticScores ==
    ASSUME NEW rq PROVE IsScores(R!SemanticOf(rq), R!Corpus(rq))
<1>1. IsScores(R!SemanticSearch(rq), R!Corpus(rq))
  BY CorpusOfChunks, RequestsAssumption DEF IsScores, R!SemanticSearch, R!RetrievalAssumption
<1> QED  BY <1>1, CutScores, NoScores DEF R!SemanticOf

LEMMA KeywordInt ==
    ASSUME NEW rq, R!IsRequest(rq), NEW c \in Chunks
    PROVE  R!Hits(c, rq.terms) \in Int /\ R!KeywordScore(c, rq.terms) \in Int
<1>1. IsFiniteSet(rq.terms) /\ \A t \in rq.terms : TermsOf(c)[t] \in Nat
  BY RFinite DEF R!IsRequest
<1>2. R!Hits(c, rq.terms) \in Nat
  BY <1>1, HitsNat
<1>3. Cardinality(rq.terms) \in Nat
  BY <1>1, FS_CardinalityType
<1>4. R!Distinct(c, rq.terms) \in Nat
  <2> DEFINE T == {t \in rq.terms : TermsOf(c)[t] > 0}
  <2>1. T \in SUBSET rq.terms
    OBVIOUS
  <2> HIDE DEF T
  <2>2. Cardinality(T) \in Nat
    BY <1>1, <2>1, FS_Subset, FS_CardinalityType
  <2> QED  BY <2>2, RCardinality DEF R!Distinct, T
<1> DEFINE p == R!Distinct(c, rq.terms)
           q == R!AtMost(R!Hits(c, rq.terms), 20)
           r == Cardinality(rq.terms)
<1>5. q \in Nat
  BY <1>2 DEF R!AtMost
<1>6. R!KeywordScore(c, rq.terms) = p * 140 + q * 3 * r
  BY RCardinality DEF R!KeywordScore
<1>7. p \in Int /\ q \in Int /\ r \in Int
  BY <1>3, <1>4, <1>5
<1> HIDE DEF p, q, r
<1>8. p * 140 + q * 3 * r \in Int
  BY <1>7
<1> QED  BY <1>2, <1>6, <1>8

LEMMA KeywordScores ==
    ASSUME NEW rq, R!IsRequest(rq) PROVE IsScores(R!KeywordOf(rq), R!Corpus(rq))
<1>1. IsScores(R!KeywordFulltext(rq), R!Corpus(rq)) /\ IsScores(R!KeywordLikeScan(rq), R!Corpus(rq))
  BY CorpusOfChunks, KeywordInt DEF IsScores, R!KeywordFulltext, R!KeywordLikeScan
<1>2. IsScores(R!KeywordSearch(rq), R!Corpus(rq))
  BY <1>1, NoScores DEF R!KeywordSearch
<1> QED  BY <1>2, CutScores, NoScores DEF R!KeywordOf

LEMMA FusedScores ==
    ASSUME NEW rq, R!IsRequest(rq) PROVE IsScores(R!Fused(rq), R!Corpus(rq))
<1> DEFINE scores == CASE rq.type = "Semantic" -> R!SemanticOf(rq)
                       [] rq.type = "Keyword" -> R!KeywordOf(rq)
                       [] OTHER -> R!FuseRRF(R!SemanticOf(rq), R!KeywordOf(rq))
<1>1. R!Corpus(rq) \in SUBSET Chunks
  BY CorpusOfChunks
<1>2. IsScores(R!SemanticOf(rq), R!Corpus(rq)) /\ IsScores(R!KeywordOf(rq), R!Corpus(rq))
  BY SemanticScores, KeywordScores
<1>3. IsScores(R!FuseRRF(R!SemanticOf(rq), R!KeywordOf(rq)), R!Corpus(rq))
  BY <1>1, <1>2, FuseScores
<1>4. IsScores(scores, R!Corpus(rq))
  BY <1>2, <1>3
<1>5. R!Fused(rq) = R!ApplyIdentityWeights(scores, rq.weights)
  BY DEF R!Fused
<1> HIDE DEF scores
<1> QED  BY <1>1, <1>4, <1>5, WeightScores DEF R!IsRequest

LEMMA ExcerptScores == ASSUME NEW rq PROVE IsScores(R!Excerpt(rq), R!Corpus(rq))
  BY DEF IsScores, R!Excerpt

\* Chunks in order are those that have a score.
LEMMA OrderedList ==
    ASSUME NEW f, IsScores(f, Chunks)
    PROVE  Cardinality(DOMAIN f) \in Nat /\ R!OrderedNames(f) \in [1..Cardinality(DOMAIN f) -> DOMAIN f]
<1> DEFINE S == DOMAIN f
           O == {p \in S \X S : R!Better(f, p[1], p[2])}
           rank == [c \in S |-> R!RankIn(f, S, c)]
<1>1. IsFiniteSet(S)
  BY ChunksFinite DEF IsScores
<1>2. \A c \in S : c \in Int /\ f[c] \in Int
  BY RequestsAssumption DEF IsScores, R!RetrievalAssumption
<1>3. Orders(O, S)
  BY <1>2 DEF Orders, R!Better
<1>4. RankedBy(O, S, rank)
  <2> SUFFICES ASSUME NEW y \in S PROVE rank[y] = 1 + Cardinality({x \in S : <<x, y>> \in O})
    BY DEF RankedBy
  <2>1. {x \in S : <<x, y>> \in O} = {x \in S : R!Better(f, x, y)}
    OBVIOUS
  <2> QED  BY <2>1, RCardinality DEF R!RankIn
<1>5. R!OrderedNames(f) = [i \in 1..Cardinality(S) |-> CHOOSE c \in S : R!RankIn(f, S, c) = i]
  BY RCardinality DEF R!OrderedNames
<1> HIDE DEF O
<1>6. Cardinality(S) \in Nat /\ \A i \in 1..Cardinality(S) : \E y \in S : rank[y] = i
  <2> HIDE DEF rank, S
  <2> QED  BY <1>1, <1>3, <1>4, Ranks
<1>7. \A i \in 1..Cardinality(S) : (CHOOSE c \in S : R!RankIn(f, S, c) = i) \in S
  BY <1>6
<1> QED  BY <1>5, <1>6, <1>7

\* What is found lies in the corpus.
LEMMA FoundList ==
    ASSUME NEW rq, R!IsRequest(rq)
    PROVE  \E k \in Nat : R!Found(rq) \in [1..k -> R!Corpus(rq)]
<1> DEFINE f == IF DOMAIN R!Fused(rq) = {} /\ R!ScopeOf(rq) # {} THEN R!Excerpt(rq) ELSE R!Fused(rq)
<1>1. IsScores(f, R!Corpus(rq))
  BY FusedScores, ExcerptScores
<1>2. R!Found(rq) = R!OrderedNames(f)
  BY DEF R!Found
<1> HIDE DEF f
<1>3. IsScores(f, Chunks) /\ DOMAIN f \subseteq R!Corpus(rq)
  BY <1>1, CorpusOfChunks DEF IsScores
<1>4. Cardinality(DOMAIN f) \in Nat /\ R!Found(rq) \in [1..Cardinality(DOMAIN f) -> DOMAIN f]
  BY <1>2, <1>3, OrderedList
<1>5. R!Found(rq) \in [1..Cardinality(DOMAIN f) -> R!Corpus(rq)]
  BY <1>3, <1>4
<1> QED  BY <1>4, <1>5

\* A page of a list: its length and what is at each place.
IsPage(page, E, k, L, offset, limit) ==
    LET last == IF offset + limit < k THEN offset + limit ELSE k
    IN  /\ page \in Seq(E)
        /\ Len(page) = IF offset < last THEN last - offset ELSE 0
        /\ \A i \in 1..Len(page) : page[i] = L[offset + i] /\ page[i] \in E

LEMMA PageOf ==
    ASSUME NEW E, NEW k \in Nat, NEW L \in [1..k -> E], NEW offset \in Nat, NEW limit \in Nat
    PROVE  IsPage(R!SlicePage(L, offset, limit), E, k, L, offset, limit)
<1> DEFINE page == R!SlicePage(L, offset, limit)
           last == IF offset + limit < k THEN offset + limit ELSE k
<1>1. L \in Seq(E) /\ Len(L) = k
  OBVIOUS
<1>2. last \in Nat /\ last <= k
  OBVIOUS
<1>3. page = SubSeq(L, offset + 1, last)
  BY <1>1 DEF R!SlicePage, R!AtMost
<1> HIDE DEF page, last
<1>4. \A i \in (offset + 1)..last : L[i] \in E
  BY <1>2
<1>5. page = [i \in 1..(IF offset < last THEN last - offset ELSE 0) |-> L[offset + i]]
  BY <1>1, <1>2, <1>3, <1>4
<1>6. /\ page \in Seq(E)
      /\ Len(page) = IF offset < last THEN last - offset ELSE 0
  BY <1>2, <1>4, <1>5
<1>7. \A i \in 1..Len(page) : page[i] = L[offset + i] /\ page[i] \in E
  BY <1>2, <1>4, <1>5, <1>6
<1> QED  BY <1>6, <1>7 DEF IsPage, page, last

\* What a request narrows down to.
LEMMA ScopeIsAsked ==
    ASSUME NEW rq, ~R!EmptyScope(rq), NEW d, R!ScopeOf(rq) # {} => d \in R!ScopeOf(rq)
    PROVE  /\ rq.documents # {} => d \in rq.documents
           /\ rq.entity # None => d \in rq.entity
           /\ rq.folder # None => d \in rq.folder
  BY DEF R!EmptyScope, R!ScopeOf, R!LeavesNothing, R!Narrowed

LEMMA AnswersInScope == ASSUME NEW rq, R!IsRequest(rq) PROVE R!StaysInScope(rq)
<1> DEFINE answer == R!RunRetrieval(rq)
<1> SUFFICES ASSUME answer # "error", NEW i \in 1..Len(answer)
             PROVE  LET c == answer[i]
                    IN  /\ R!Base(c) \in rq.accessible
                        /\ rq.bases # {} => R!Base(c) \in rq.bases
                        /\ rq.documents # {} => DocOf(c) \in rq.documents
                        /\ rq.entity # None => DocOf(c) \in rq.entity
                        /\ rq.folder # None => DocOf(c) \in rq.folder
  BY DEF R!StaysInScope
<1>1. answer # <<>>
  <2> SUFFICES ASSUME answer = <<>> PROVE FALSE
    OBVIOUS
  <2> HIDE DEF answer
  <2> QED  OBVIOUS
<1>2. ~R!EmptyScope(rq) /\ answer = R!SlicePage(R!Found(rq), rq.offset, rq.topK)
  BY <1>1 DEF R!RunRetrieval
<1> HIDE DEF answer
<1>3. PICK k \in Nat : R!Found(rq) \in [1..k -> R!Corpus(rq)]
  BY FoundList
<1>4. answer[i] \in R!Corpus(rq)
  BY <1>2, <1>3, PageOf DEF R!IsRequest, IsPage
<1>5. /\ R!Base(answer[i]) \in R!Allowed(rq)
      /\ R!ScopeOf(rq) # {} => DocOf(answer[i]) \in R!ScopeOf(rq)
  BY <1>4 DEF R!Corpus
<1> QED  BY <1>2, <1>5, ScopeIsAsked DEF R!Allowed

\* The page makes no difference to what is found, save for excerpts.
SameQuestion(rq, q) ==
    /\ q.accessible = rq.accessible /\ q.bases = rq.bases /\ q.documents = rq.documents
    /\ q.entity = rq.entity /\ q.folder = rq.folder /\ q.type = rq.type
    /\ q.threshold = rq.threshold /\ q.model = rq.model /\ q.weights = rq.weights
    /\ q.terms = rq.terms /\ q.indexed = rq.indexed /\ q.down = rq.down

LEMMA SameScope ==
    ASSUME NEW rq, NEW q, SameQuestion(rq, q)
    PROVE  /\ R!Allowed(q) = R!Allowed(rq) /\ R!EmptyScope(q) = R!EmptyScope(rq)
           /\ R!ScopeOf(q) = R!ScopeOf(rq) /\ R!Corpus(q) = R!Corpus(rq)
           /\ R!Targets(q) = R!Targets(rq)
<1>1. R!Allowed(q) = R!Allowed(rq) /\ R!EmptyScope(q) = R!EmptyScope(rq) /\ R!ScopeOf(q) = R!ScopeOf(rq)
  BY DEF SameQuestion, R!Allowed, R!EmptyScope, R!ScopeOf
<1>2. R!Corpus(q) = R!Corpus(rq)
  BY <1>1 DEF R!Corpus
<1>3. R!Targets(q) = R!Targets(rq)
  BY <1>2 DEF R!Targets
<1> QED  BY <1>1, <1>2, <1>3

LEMMA SameSemantic ==
    ASSUME NEW rq, NEW q, SameQuestion(rq, q)
    PROVE  R!SemanticFails(q) = R!SemanticFails(rq) /\ R!SemanticOf(q) = R!SemanticOf(rq)
<1>1. \A b : R!GroupModel(q, b) = R!GroupModel(rq, b)
  BY SameScope DEF SameQuestion, R!GroupModel
<1>2. R!ModelsAsked(q) = R!ModelsAsked(rq)
  BY <1>1, SameScope DEF R!ModelsAsked
<1>3. R!SemanticFails(q) = R!SemanticFails(rq)
  BY <1>2 DEF SameQuestion, R!SemanticFails
<1>4. R!SemanticSearch(q) = R!SemanticSearch(rq)
  BY <1>1, SameScope DEF SameQuestion, R!SemanticSearch
<1>5. \A f : R!AboveThreshold(q, f) = R!AboveThreshold(rq, f)
  BY SameScope DEF SameQuestion, R!AboveThreshold
<1> QED  BY <1>3, <1>4, <1>5 DEF SameQuestion, R!SemanticOf

LEMMA SameKeyword ==
    ASSUME NEW rq, NEW q, SameQuestion(rq, q)
    PROVE  R!KeywordOf(q) = R!KeywordOf(rq)
<1>1. R!KeywordFulltext(q) = R!KeywordFulltext(rq) /\ R!KeywordLikeScan(q) = R!KeywordLikeScan(rq)
  BY SameScope DEF SameQuestion, R!KeywordFulltext, R!KeywordLikeScan
<1>2. R!KeywordSearch(q) = R!KeywordSearch(rq)
  BY <1>1 DEF SameQuestion, R!KeywordSearch, R!UsesFulltext
<1> QED  BY <1>2 DEF SameQuestion, R!KeywordOf

LEMMA SameFused ==
    ASSUME NEW rq, NEW q, SameQuestion(rq, q)
    PROVE  R!Fused(q) = R!Fused(rq)
  BY SameSemantic, SameKeyword DEF SameQuestion, R!Fused

\* Two pages of one make one of two.
LEMMA PagesOfOne ==
    ASSUME NEW E, NEW k \in Nat, NEW L \in [1..k -> E]
    PROVE  R!SlicePage(L, 0, 2) = R!SlicePage(L, 0, 1) \o R!SlicePage(L, 1, 1)
<1> DEFINE both == R!SlicePage(L, 0, 2)
           first == R!SlicePage(L, 0, 1)
           second == R!SlicePage(L, 1, 1)
<1>0. IsPage(both, E, k, L, 0, 2) /\ IsPage(first, E, k, L, 0, 1) /\ IsPage(second, E, k, L, 1, 1)
  BY PageOf
<1> HIDE DEF both, first, second
<1>1. /\ both \in Seq(E) /\ Len(both) = (IF k < 2 THEN k ELSE 2)
      /\ \A i \in 1..Len(both) : both[i] = L[i]
  BY <1>0 DEF IsPage
<1>2. /\ first \in Seq(E) /\ Len(first) = (IF k < 1 THEN k ELSE 1)
      /\ \A i \in 1..Len(first) : first[i] = L[i]
  BY <1>0 DEF IsPage
<1>3. /\ second \in Seq(E) /\ Len(second) = (IF k < 2 THEN 0 ELSE 1)
      /\ \A i \in 1..Len(second) : second[i] = L[1 + i]
  BY <1>0 DEF IsPage
<1>4. /\ first \o second \in Seq(E) /\ Len(first \o second) = Len(first) + Len(second)
      /\ \A i \in 1..Len(first) + Len(second) :
            (first \o second)[i] = IF i <= Len(first) THEN first[i] ELSE second[i - Len(first)]
  BY <1>2, <1>3, ConcatProperties
<1>5. Len(both) = Len(first \o second)
  BY <1>1, <1>2, <1>3, <1>4
<1>6. \A i \in 1..Len(both) : both[i] = (first \o second)[i]
  <2> SUFFICES ASSUME NEW i \in 1..Len(both) PROVE both[i] = (first \o second)[i]
    OBVIOUS
  <2>1. CASE i = 1
    BY <1>1, <1>2, <2>1, <1>3, <1>4
  <2>2. CASE i # 1
    BY <1>1, <1>2, <1>3, <2>2, <1>4
  <2> QED  BY <2>1, <2>2
<1> QED  BY <1>1, <1>4, <1>5, <1>6, SeqEqual DEF both, first, second

LEMMA PagesDoJoin == ASSUME NEW rq, R!IsRequest(rq) PROVE R!PagesJoin(rq)
<1> DEFINE Page(offset, k) == [rq EXCEPT !.offset = offset, !.topK = k]
           PageAt(offset, k) == R!RunRetrieval(Page(offset, k))
<1> SUFFICES ASSUME DOMAIN R!Fused(rq) # {} \/ R!ScopeOf(rq) = {}, PageAt(0, 2) # "error"
             PROVE  PageAt(0, 2) = PageAt(0, 1) \o PageAt(1, 1)
  BY DEF R!PagesJoin
<1>1. ASSUME NEW offset \in Nat, NEW k \in Nat
      PROVE  /\ SameQuestion(rq, Page(offset, k))
             /\ Page(offset, k).offset = offset /\ Page(offset, k).topK = k
  BY DEF SameQuestion, R!IsRequest
<1> HIDE DEF Page
<1> DEFINE Nothing == R!Allowed(rq) = {} \/ R!EmptyScope(rq) \/ R!Targets(rq) = {}
           Fails == rq.type = "Semantic" /\ R!SemanticFails(rq)
<1>2. ASSUME NEW offset \in Nat, NEW k \in Nat
      PROVE  PageAt(offset, k) =
                IF Nothing THEN <<>> ELSE IF Fails THEN "error"
                ELSE R!SlicePage(R!Found(rq), offset, k)
  BY <1>1, SameScope, SameFused, SameSemantic DEF R!Found, SameQuestion, R!RunRetrieval
<1> HIDE DEF PageAt
<1>3. CASE Nothing
  <2>1. PageAt(0, 2) = <<>> /\ PageAt(0, 1) = <<>> /\ PageAt(1, 1) = <<>>
    BY <1>2, <1>3
  <2>2. <<>> = <<>> \o <<>>
    OBVIOUS
  <2> QED  BY <2>1, <2>2
<1>4. CASE ~Nothing
  <2>1. ~Fails
    BY <1>2, <1>4
  <2>2. \A offset, k \in Nat : PageAt(offset, k) = R!SlicePage(R!Found(rq), offset, k)
    BY <1>2, <1>4, <2>1
  <2>3. PICK k \in Nat : R!Found(rq) \in [1..k -> R!Corpus(rq)]
    BY FoundList
  <2>4. R!SlicePage(R!Found(rq), 0, 2) = R!SlicePage(R!Found(rq), 0, 1) \o R!SlicePage(R!Found(rq), 1, 1)
    BY <2>3, PagesOfOne
  <2> QED  BY <2>2, <2>4
<1> QED  BY <1>3, <1>4

\* What is kept are some of the first k blocks, in their order.
Quotes(kept, blocks, k) ==
    \E place \in [1..Len(kept) -> 1..k] :
        /\ \A i, j \in 1..Len(kept) : i < j => place[i] < place[j]
        /\ \A i \in 1..Len(kept) : kept[i] = blocks[place[i]]

\* What is packed of the first k blocks.
Packed(p, blocks, limit, k) ==
    /\ p = [kept |-> p.kept, used |-> p.used, full |-> p.full]
    /\ p.kept \in Seq({blocks[i] : i \in 1..Len(blocks)})
    /\ p.used \in Nat /\ p.used <= limit
    /\ \A i, j \in 1..Len(p.kept) : R!ChunksOverlap(p.kept[i], p.kept[j]) => i = j
    /\ Quotes(p.kept, blocks, k)
    /\ p.kept = <<>> => /\ p.used = 0 /\ (p.full <=> limit <= 0)
                        /\ \A i \in 1..k : limit < blocks[i].header \/ limit <= 0

LEMMA FitsRemaining ==
    ASSUME NEW block, block.header \in Nat \ {0}, block.content \in Nat, NEW remaining \in Int, NEW force
    PROVE  LET taken == R!FitBlock(block, remaining, force)
           IN  /\ taken \in Nat /\ (taken # 0 => taken <= remaining)
               /\ force /\ taken = 0 => remaining < block.header
<1>1. MinExcerpt \in Nat
  BY RequestsAssumption DEF R!RetrievalAssumption
<1> QED  BY <1>1 DEF R!FitBlock

LEMMA PackStep ==
    ASSUME NEW blocks, NEW limit, R!IsContext(blocks, limit), NEW k \in 1..Len(blocks),
           NEW p, Packed(p, blocks, limit, k - 1)
    PROVE  Packed(R!PackNext(limit, p, blocks[k]), blocks, limit, k)
<1> DEFINE block == blocks[k]
           first == p.kept = <<>>
           cost == IF first THEN 0 ELSE Separator
           taken == R!FitBlock(block, limit - p.used - cost, first)
           repeats == \E i \in 1..Len(p.kept) : R!ChunksOverlap(p.kept[i], block)
           all == {blocks[i] : i \in 1..Len(blocks)}
           q == R!PackNext(limit, p, block)
<1>1. /\ Len(blocks) \in Nat /\ limit \in Nat /\ k \in Nat
      /\ block.header \in Nat \ {0} /\ block.content \in Nat /\ block \in all
  BY DEF R!IsContext
<1>2. /\ p = [kept |-> p.kept, used |-> p.used, full |-> p.full]
      /\ p.kept \in Seq(all) /\ Len(p.kept) \in Nat /\ DOMAIN p.kept = 1..Len(p.kept)
      /\ p.used \in Nat /\ p.used <= limit
      /\ \A i, j \in 1..Len(p.kept) : R!ChunksOverlap(p.kept[i], p.kept[j]) => i = j
      /\ p.kept = <<>> => /\ p.used = 0 /\ (p.full <=> limit <= 0)
                          /\ \A i \in 1..(k - 1) : limit < blocks[i].header \/ limit <= 0
  BY DEF Packed
<1>3. PICK place \in [1..Len(p.kept) -> 1..(k - 1)] :
         /\ \A i, j \in 1..Len(p.kept) : i < j => place[i] < place[j]
         /\ \A i \in 1..Len(p.kept) : p.kept[i] = blocks[place[i]]
  BY DEF Packed, Quotes
<1>4. cost \in Nat /\ Separator \in Nat
  BY RequestsAssumption DEF R!RetrievalAssumption
<1>5. /\ taken \in Nat /\ (taken # 0 => taken <= limit - p.used - cost)
      /\ first /\ taken = 0 => limit < block.header
  <2> HIDE DEF cost, first, block
  <2>1. limit - p.used - cost \in Int
    BY <1>1, <1>2, <1>4
  <2>2. /\ taken \in Nat /\ (taken # 0 => taken <= limit - p.used - cost)
        /\ first /\ taken = 0 => limit - p.used - cost < block.header
    BY <1>1, <2>1, FitsRemaining
  <2>3. first => p.used = 0 /\ cost = 0
    BY <1>2 DEF first, cost
  <2> HIDE DEF taken
  <2> QED  BY <1>1, <2>2, <2>3
<1>6. q = IF p.full \/ repeats THEN p
          ELSE IF taken = 0 THEN [p EXCEPT !.full = ~first]
          ELSE [kept |-> Append(p.kept, block), used |-> p.used + cost + taken,
                full |-> p.used + cost + taken >= limit]
  BY DEF R!PackNext
<1>7. ASSUME NEW r, r = [kept |-> p.kept, used |-> p.used, full |-> r.full],
             p.kept = <<>> => (r.full <=> limit <= 0) /\ (limit < block.header \/ limit <= 0)
      PROVE  Packed(r, blocks, limit, k)
  <2>1. r.kept = p.kept /\ r.used = p.used
    BY <1>7
  <2>2. place \in [1..Len(p.kept) -> 1..k]
    BY <1>1, <1>3
  <2>3. p.kept = <<>> => \A i \in 1..k : limit < blocks[i].header \/ limit <= 0
    <3> SUFFICES ASSUME p.kept = <<>>, NEW i \in 1..k PROVE limit < blocks[i].header \/ limit <= 0
      OBVIOUS
    <3>1. i = k \/ i \in 1..(k - 1)
      BY <1>1
    <3> QED  BY <1>2, <1>7, <3>1
  <2>4. Quotes(p.kept, blocks, k)
    BY <1>3, <2>2 DEF Quotes
  <2>5. r = [kept |-> r.kept, used |-> r.used, full |-> r.full]
    BY <1>7, <2>1
  <2> QED  BY <1>2, <1>7, <2>1, <2>3, <2>4, <2>5 DEF Packed
<1> HIDE DEF block, first, cost, taken, repeats, q
<1>8. CASE p.full \/ repeats
  BY <1>6, <1>8, <1>2, <1>7 DEF repeats, q, block
<1>9. CASE ~p.full /\ ~repeats /\ taken = 0
  BY <1>6, <1>9, <1>2, <1>5, <1>7 DEF first, q, block
<1>10. CASE ~p.full /\ ~repeats /\ taken # 0
  <2> DEFINE m == Len(p.kept) + 1
             kept == Append(p.kept, block)
             there == [i \in 1..m |-> IF i = m THEN k ELSE place[i]]
  <2>1. /\ q.kept = kept /\ q.used = p.used + cost + taken
        /\ q = [kept |-> q.kept, used |-> q.used, full |-> q.full]
    BY <1>6, <1>10
  <2>2. /\ kept \in Seq(all) /\ Len(kept) = m /\ kept # <<>>
        /\ \A i \in 1..Len(p.kept) : kept[i] = p.kept[i]
        /\ kept[m] = block
    <3> HIDE DEF all
    <3>1. p.kept \in Seq(all) /\ block \in all
      BY <1>1, <1>2
    <3>2. /\ kept \in Seq(all) /\ Len(kept) = m
          /\ \A i \in 1..Len(p.kept) : kept[i] = p.kept[i]
          /\ kept[m] = block
      BY <3>1, AppendProperties
    <3> QED  BY <1>2, <3>2
  <2>3. q.used \in Nat /\ q.used <= limit
    <3>1. taken \in Nat /\ taken <= limit - p.used - cost
      BY <1>5, <1>10
    <3>2. q.used = p.used + cost + taken
      BY <2>1
    <3> HIDE DEF kept
    <3> QED  BY <1>1, <1>2, <1>4, <3>1, <3>2, SMTT(30)
  <2>4. \A i \in 1..m : i = m \/ i \in 1..Len(p.kept)
    BY <1>2
  <2> HIDE DEF kept
  <2>5. \A i, j \in 1..m : R!ChunksOverlap(kept[i], kept[j]) => i = j
    <3> SUFFICES ASSUME NEW i \in 1..m, NEW j \in 1..m, R!ChunksOverlap(kept[i], kept[j]) PROVE i = j
      OBVIOUS
    <3>1. \A x \in 1..Len(p.kept) : ~R!ChunksOverlap(p.kept[x], block) /\ ~R!ChunksOverlap(block, p.kept[x])
      BY <1>10 DEF repeats, R!ChunksOverlap
    <3> QED  BY <1>2, <2>2, <2>4, <3>1
  <2>6. there \in [1..m -> 1..k]
    BY <1>1, <1>2, <1>3, <2>4
  <2>7. \A i, j \in 1..m : i < j => there[i] < there[j]
    <3> SUFFICES ASSUME NEW i \in 1..m, NEW j \in 1..m, i < j PROVE there[i] < there[j]
      OBVIOUS
    <3>1. i \in 1..Len(p.kept) /\ place[i] \in 1..(k - 1) /\ there[i] = place[i]
      BY <1>2, <1>3
    <3>2. CASE j = m
      BY <1>1, <3>1, <3>2
    <3>3. CASE j # m
      <4>1. j \in 1..Len(p.kept) /\ there[j] = place[j]
        BY <2>4, <3>3
      <4> HIDE DEF there
      <4> QED  BY <1>3, <3>1, <4>1
    <3> QED  BY <3>2, <3>3
  <2>8. \A i \in 1..m : kept[i] = blocks[there[i]]
    BY <1>2, <1>3, <2>2, <2>4 DEF block
  <2> HIDE DEF there
  <2>9. Quotes(kept, blocks, k)
    BY <2>2, <2>6, <2>7, <2>8 DEF Quotes
  <2> QED  BY <2>1, <2>2, <2>3, <2>5, <2>9 DEF Packed, q, block
<1> QED  BY <1>8, <1>9, <1>10 DEF q, block

\* The packing of k blocks, one after the other.
Packing(packed, blocks, limit, k) ==
    /\ DOMAIN packed = 0..k
    /\ packed[0] = [kept |-> <<>>, used |-> 0, full |-> limit <= 0]
    /\ \A i \in 1..k : packed[i] = R!PackNext(limit, packed[i - 1], blocks[i])

LEMMA PackingExists ==
    ASSUME NEW blocks, NEW limit, NEW k \in Nat
    PROVE  \E packed : Packing(packed, blocks, limit, k)
<1> DEFINE empty == [kept |-> <<>>, used |-> 0, full |-> limit <= 0]
           Packs(packed, m) == /\ DOMAIN packed = 0..m
                               /\ packed[0] = empty
                               /\ \A i \in 1..m : packed[i] = R!PackNext(limit, packed[i - 1], blocks[i])
           K == {m \in Nat : \E packed : Packs(packed, m)}
<1> HIDE DEF empty
<1>1. 0 \in K
  <2> DEFINE packed == [i \in 0..0 |-> empty]
  <2>1. Packs(packed, 0)
    OBVIOUS
  <2> QED  BY <2>1
<1>2. ASSUME NEW m \in Nat, m \in K PROVE m + 1 \in K
  <2>1. PICK before : Packs(before, m)
    BY <1>2
  <2> DEFINE last == R!PackNext(limit, before[m], blocks[m + 1])
             packed == [i \in 0..(m + 1) |-> IF i = m + 1 THEN last ELSE before[i]]
  <2>2. DOMAIN packed = 0..(m + 1) /\ packed[0] = empty
    BY <2>1
  <2>3. ASSUME NEW i \in 1..(m + 1) PROVE packed[i] = R!PackNext(limit, packed[i - 1], blocks[i])
    <3>1. packed[i - 1] = before[i - 1]
      OBVIOUS
    <3>2. CASE i = m + 1
      BY <3>2, <3>1
    <3>3. CASE i # m + 1
      BY <3>3, <2>1, <3>1
    <3> QED  BY <3>2, <3>3
  <2> HIDE DEF packed
  <2>4. Packs(packed, m + 1)
    BY <2>2, <2>3
  <2> HIDE DEF Packs
  <2> QED  BY <2>4
<1> HIDE DEF K
<1>3. k \in K
  BY <1>1, <1>2, Induction
<1>4. PICK packed : Packs(packed, k)
  BY <1>3 DEF K
<1>5. Packing(packed, blocks, limit, k)
  BY <1>4 DEF Packing, empty
<1> QED  BY <1>5

LEMMA ContextFits ==
    ASSUME NEW blocks, NEW limit, R!IsContext(blocks, limit)
    PROVE  R!ContextSound(blocks, limit)
<1> DEFINE empty == [kept |-> <<>>, used |-> 0, full |-> limit <= 0]
           Def(packed) == packed = [i \in 0..Len(blocks) |->
                                     IF i = 0 THEN [kept |-> <<>>, used |-> 0, full |-> limit <= 0]
                                     ELSE R!PackNext(limit, packed[i - 1], blocks[i])]
           packed == CHOOSE packed : Def(packed)
           result == R!PackContextBlocks(blocks, limit)
<1>1. result = packed[Len(blocks)]
  BY DEF R!PackContextBlocks
<1>2. Len(blocks) \in Nat /\ limit \in Nat
  BY DEF R!IsContext
<1>3. Def(packed)
  <2>0. PICK p : Packing(p, blocks, limit, Len(blocks))
    BY <1>2, PackingExists
  <2>1. /\ DOMAIN p = 0..Len(blocks)
        /\ p[0] = empty
        /\ \A i \in 1..Len(blocks) : p[i] = R!PackNext(limit, p[i - 1], blocks[i])
    BY <2>0 DEF Packing
  <2> DEFINE other == [i \in 0..Len(blocks) |-> p[i]]
  <2>2. Def(other)
    BY <1>2, <2>1
  <2>3. \E f : Def(f)
    BY <2>2
  <2> HIDE DEF Def
  <2> QED  BY <2>3
<1> HIDE DEF packed
<1>4. /\ packed[0] = empty
      /\ \A i \in 1..Len(blocks) : packed[i] = R!PackNext(limit, packed[i - 1], blocks[i])
  BY <1>2, <1>3
<1> HIDE DEF Def
<1> DEFINE K == {i \in Nat : i <= Len(blocks) => Packed(packed[i], blocks, limit, i)}
<1>5. 0 \in K
  <2>1. Packed(empty, blocks, limit, 0)
    <3>1. /\ empty.kept = <<>> /\ empty.used = 0 /\ (empty.full <=> limit <= 0)
          /\ empty = [kept |-> empty.kept, used |-> empty.used, full |-> empty.full]
      OBVIOUS
    <3> HIDE DEF empty
    <3>2. empty.kept \in Seq({blocks[i] : i \in 1..Len(blocks)}) /\ 1..Len(empty.kept) = {}
      BY <3>1
    <3>3. Quotes(empty.kept, blocks, 0)
      <4>1. [i \in 1..Len(empty.kept) |-> i] \in [1..Len(empty.kept) -> 1..0]
        BY <3>2
      <4> QED  BY <3>2, <4>1 DEF Quotes
    <3> QED  BY <1>2, <3>1, <3>2, <3>3 DEF Packed
  <2> QED  BY <1>4, <2>1
<1>6. ASSUME NEW i \in Nat, i \in K PROVE i + 1 \in K
  <2> SUFFICES ASSUME i + 1 <= Len(blocks) PROVE Packed(packed[i + 1], blocks, limit, i + 1)
    OBVIOUS
  <2>1. /\ i + 1 \in 1..Len(blocks) /\ (i + 1) - 1 = i
        /\ Packed(packed[i], blocks, limit, i)
    BY <1>2, <1>6
  <2>2. packed[i + 1] = R!PackNext(limit, packed[i], blocks[i + 1])
    BY <1>4, <2>1
  <2>3. Packed(R!PackNext(limit, packed[i], blocks[i + 1]), blocks, limit, i + 1)
    BY <2>1, PackStep
  <2> QED  BY <2>2, <2>3
<1> HIDE DEF K
<1>7. Len(blocks) \in K
  BY <1>2, <1>5, <1>6, Induction
<1>8. Packed(result, blocks, limit, Len(blocks))
  BY <1>1, <1>2, <1>7 DEF K
<1> HIDE DEF result
<1> QED  BY <1>8 DEF R!ContextSound, Packed, Quotes, result

-----------------------------------------------------------------------------
(* Permissions.                                                               *)

LEMMA OpensWhatIsListed ==
    ASSUME NEW row \in Guarded, NEW o \in Openings
    PROVE  A!ListedOpens(o.dt, row, o.user)
<1> DEFINE dt == o.dt
           user == o.user
<1>1. row.scope # "Global" => row.value # None
  BY ListsAssumption DEF A!IsRow
<1>2. ListsFile(row.tied, user) => PermitsFile(row.tied, user, "read")
  BY ListsAssumption DEF A!FrappeAssumption
<1>3. A!IsRead("read")
  BY DEF A!IsRead
<1>4. A!ListsBase(row.base, user) => A!BaseAccess(row.base, user, FALSE)
  BY DEF A!ListsBase, A!BaseAccess
<1>5. A!ListsScope(row, user) => A!ScopeApplies(row, user)
  BY <1>1 DEF A!ListsScope, A!ScopeApplies, A!ListsAgent
<1>6. ASSUME NEW field, A!IsAuditor(user) \/ field = user.name PROVE A!OwnedAccess(field, user, "read")
  BY <1>3, <1>6 DEF A!OwnedAccess
<1>7. SUFFICES ASSUME dt # "Glossary", A!Listed(dt, row, user) PROVE A!Permitted(dt, row, user, "read")
  BY DEF A!ListedOpens
<1> HIDE DEF dt, user
<1>8. CASE A!IsManager(user)
  BY <1>8 DEF A!Permitted
<1>9. CASE dt \in DOMAIN A!Audited /\ (A!IsAuditor(user) \/ row[A!Audited[dt]] = user.name)
  <2>1. CASE dt = "ResourceDownload"
    BY <2>1, <1>3, <1>9 DEF A!Audited, A!OwnOrAudited, A!Permitted
  <2>2. CASE dt # "ResourceDownload"
    BY <1>6, <1>9, <2>2 DEF A!Permitted
  <2> QED  BY <2>1, <2>2
<1>10. CASE dt = "Task" /\ (A!IsAuditor(user) \/ user.name \in {row.owner, row.by})
  BY <1>6, <1>10 DEF A!TaskAccess, A!Permitted
<1>11. CASE dt \in {"Conversation", "FolderFavorite"} /\ row.user = user.name
  BY <1>11 DEF A!OwnOrAudited, A!Permitted
<1>12. CASE dt = "Message" /\ row.tied # None /\ OwnerOf(row.tied).user = user.name
  BY <1>12 DEF A!Permitted
<1>13. CASE dt \in A!Analysis \cup {"Document", "KnowledgeBase"} /\ A!ListsBase(row.base, user)
  BY <1>3, <1>4, <1>13 DEF A!Permitted
<1>14. CASE dt = "Translation" /\ (user.name \in {row.owner, row.by} \/ A!ListsBase(row.base, user))
  BY <1>3, <1>4, <1>14 DEF A!Permitted
<1>15. CASE dt = "Agent" /\ A!ListsAgent(row.tied, user)
  BY <1>3, <1>15 DEF A!Permitted, A!ListsAgent
<1>16. CASE dt \in {"Memory", "Skill"} /\ A!ListsScope(row, user)
  BY <1>3, <1>5, <1>16 DEF A!Permitted
<1>17. CASE dt = "FolderSettings" /\ ListsFile(row.tied, user)
  BY <1>2, <1>3, <1>17 DEF A!Permitted
<1> QED  BY <1>7, <1>8, <1>9, <1>10, <1>11, <1>12, <1>13, <1>14, <1>15, <1>16, <1>17 DEF A!Listed

(* Lists.                                                                     *)

LEMMA VCardinality == ASSUME NEW S PROVE V!Cardinality(S) = Cardinality(S)
  BY DEF V!Cardinality, Cardinality

LEMMA VFinite == ASSUME NEW S PROVE V!IsFiniteSet(S) <=> IsFiniteSet(S)
  BY DEF V!IsFiniteSet, IsFiniteSet

\* How many numbers of a set come before one.
Below(S, x) == Cardinality({y \in S : y < x})

\* A list of numbers in their order: each is at the place that follows the
\* places of those before it.
InTheirOrder(s, S) ==
    /\ Cardinality(S) \in Nat
    /\ s \in [1..Cardinality(S) -> S]
    /\ \A i \in 1..Cardinality(S) : Below(S, s[i]) = i - 1
    /\ \A x \in S : Below(S, x) + 1 \in 1..Cardinality(S) /\ s[Below(S, x) + 1] = x

LEMMA PlacesTaken ==
    ASSUME NEW S, IsFiniteSet(S), NEW O, Orders(O, S), NEW rank, RankedBy(O, S, rank)
    PROVE  \E at : \A i \in 1..Cardinality(S) : at[i] \in S /\ rank[at[i]] = i
<1>1. \A i \in 1..Cardinality(S) : \E x \in S : rank[x] = i
  BY Ranks
<1> DEFINE at == [i \in 1..Cardinality(S) |-> CHOOSE x \in S : rank[x] = i]
<1>2. \A i \in 1..Cardinality(S) : at[i] \in S /\ rank[at[i]] = i
  BY <1>1
<1> HIDE DEF at
<1> QED  BY <1>2

LEMMA NumbersInOrder ==
    ASSUME NEW S \in SUBSET Int, IsFiniteSet(S)
    PROVE  InTheirOrder(V!InOrder(S), S)
<1> DEFINE s == V!InOrder(S)
           O == {p \in S \X S : p[1] < p[2]}
<1>1. Orders(O, S)
  BY DEF Orders
<1>2. \E rank : RankedBy(O, S, rank) /\ \A x \in S : rank[x] = 1 + Below(S, x)
  <2> DEFINE rank == [x \in S |-> 1 + Below(S, x)]
  <2>1. ASSUME NEW y \in S PROVE rank[y] = 1 + Cardinality({x \in S : <<x, y>> \in O})
    BY DEF Below
  <2>2. \A x \in S : rank[x] = 1 + Below(S, x)
    OBVIOUS
  <2> HIDE DEF rank, O
  <2> QED  BY <2>1, <2>2 DEF RankedBy
<1> HIDE DEF O, s
<1>0. PICK rank : RankedBy(O, S, rank) /\ \A x \in S : rank[x] = 1 + Below(S, x)
  BY <1>2
<1>3. /\ Cardinality(S) \in Nat
      /\ \A x \in S : rank[x] \in 1..Cardinality(S)
      /\ \A x, y \in S : rank[x] = rank[y] => x = y
      /\ \A i \in 1..Cardinality(S) : \E x \in S : rank[x] = i
  <2>1. Cardinality(S) \in Nat /\ \A x \in S : rank[x] \in 1..Cardinality(S)
    BY <1>0, <1>1, Ranks
  <2>2. \A x, y \in S : rank[x] = rank[y] => x = y
    BY <1>0, <1>1, Ranks
  <2>3. \A i \in 1..Cardinality(S) : \E x \in S : rank[x] = i
    <3>1. IsFiniteSet(S) /\ Orders(O, S) /\ RankedBy(O, S, rank)
      BY <1>0, <1>1
    <3>2. PICK at : \A i \in 1..Cardinality(S) : at[i] \in S /\ rank[at[i]] = i
      BY <3>1, PlacesTaken
    <3> QED  BY <3>2
  <2> QED  BY <2>1, <2>2, <2>3
<1>4. s = [i \in 1..Cardinality(S) |-> CHOOSE x \in S : Below(S, x) = i - 1]
  <2> USE DEF s
  <2>1. s = [i \in 1..V!Cardinality(S) |-> CHOOSE x \in S : V!Cardinality({y \in S : y < x}) = i - 1]
    BY DEF V!InOrder
  <2>2. V!Cardinality(S) = Cardinality(S) /\ \A x : V!Cardinality({y \in S : y < x}) = Below(S, x)
    BY VCardinality DEF Below
  <2> HIDE DEF s
  <2> QED  BY <2>1, <2>2
<1>5. \A x \in S : Below(S, x) \in Nat
  <2> SUFFICES ASSUME NEW x \in S PROVE Below(S, x) \in Nat
    OBVIOUS
  <2>1. {y \in S : y < x} \in SUBSET S
    OBVIOUS
  <2> QED  BY <2>1, FS_Subset, FS_CardinalityType DEF Below
<1>6. \A i \in 1..Cardinality(S) : s[i] \in S /\ Below(S, s[i]) = i - 1
  <2> SUFFICES ASSUME NEW i \in 1..Cardinality(S) PROVE s[i] \in S /\ Below(S, s[i]) = i - 1
    OBVIOUS
  <2>1. PICK x \in S : rank[x] = i
    BY <1>3
  <2>2. Below(S, x) = i - 1
    BY <1>0, <1>5, <2>1
  <2>3. s[i] = CHOOSE y \in S : Below(S, y) = i - 1
    BY <1>4
  <2> HIDE DEF s
  <2> QED  BY <2>2, <2>3
<1>7. s \in [1..Cardinality(S) -> S]
  <2>1. DOMAIN s = 1..Cardinality(S) /\ s = [i \in DOMAIN s |-> s[i]]
    BY <1>4
  <2> HIDE DEF s
  <2> QED  BY <1>6, <2>1
<1>8. ASSUME NEW x \in S PROVE Below(S, x) + 1 \in 1..Cardinality(S) /\ s[Below(S, x) + 1] = x
  <2>1. Below(S, x) \in Nat /\ rank[x] = 1 + Below(S, x) /\ rank[x] \in 1..Cardinality(S)
    BY <1>0, <1>3, <1>5
  <2> DEFINE i == Below(S, x) + 1
  <2>2. i \in 1..Cardinality(S) /\ Below(S, x) = i - 1
    BY <2>1
  <2> HIDE DEF i
  <2>3. s[i] \in S /\ Below(S, s[i]) = Below(S, x)
    BY <1>6, <2>2
  <2>4. rank[s[i]] = rank[x]
    BY <1>0, <2>3
  <2>5. s[i] = x
    BY <1>3, <2>3, <2>4
  <2> QED  BY <2>2, <2>5 DEF i
<1> QED  BY <1>3, <1>6, <1>7, <1>8 DEF InTheirOrder, s

\* f gives what G leads to from init, step by step.
Iterated(f, X, init, G, K) ==
    f \in [0..K -> X] /\ f[0] = init /\ \A n \in 1..K : f[n] = G[f[n - 1]]

\* A function that leads from a set into it can be applied again and again.
LEMMA Iterates ==
    ASSUME NEW X, NEW init \in X, NEW G \in [X -> X], NEW K \in Nat
    PROVE  \E f : Iterated(f, X, init, G, K)
<1> DEFINE Upto(f, k) == Iterated(f, X, init, G, k)
           N == {k \in Nat : \E f : Upto(f, k)}
<1>1. 0 \in N
  <2>1. Upto([n \in 0..0 |-> init], 0)
    BY DEF Iterated
  <2> QED  BY <2>1
<1>2. ASSUME NEW k \in Nat, k \in N PROVE k + 1 \in N
  <2>1. PICK f : f \in [0..k -> X] /\ f[0] = init /\ \A n \in 1..k : f[n] = G[f[n - 1]]
    BY <1>2 DEF Iterated
  <2> DEFINE g == [n \in 0..(k + 1) |-> IF n = k + 1 THEN G[f[k]] ELSE f[n]]
  <2>2. G[f[k]] \in X /\ \A n \in 0..k : f[n] \in X
    BY <2>1
  <2>3. g \in [0..(k + 1) -> X]
    BY <2>2
  <2>4. g[k + 1] = G[f[k]] /\ \A n \in 0..k : g[n] = f[n]
    OBVIOUS
  <2> HIDE DEF g
  <2>5. ASSUME NEW n \in 1..(k + 1) PROVE g[n] = G[g[n - 1]]
    <3>1. CASE n = k + 1
      BY <2>4, <3>1
    <3>2. CASE n # k + 1
      BY <3>2, <2>1, <2>4
    <3> QED  BY <3>1, <3>2
  <2>6. Upto(g, k + 1)
    BY <2>1, <2>3, <2>4, <2>5 DEF Iterated
  <2> HIDE DEF Upto
  <2> QED  BY <2>6
<1> HIDE DEF N
<1>3. K \in N
  BY <1>1, <1>2, Induction
<1> QED  BY <1>3 DEF N

(* The pages of the tree.                                                     *)

LEMMA ViewsAxiom ==
    /\ MinPage \in Nat \ {0} /\ MaxPage \in Nat \ {0} /\ ScanLimit \in Nat
    /\ MinPage <= MaxPage /\ MaxPage < ScanLimit
    /\ None \notin {"folder", "document", "document_after"} \X Nat
  BY ListsAssumption DEF V!TreeViewsAssumption

\* The numbers up to d are the first c of S.
Splits(S, s, c, d) ==
    /\ c \in 0..Cardinality(S)
    /\ c = 0 => \A x \in S : d < x
    /\ c # 0 => d = s[c]

LEMMA FiniteCounts ==
    ASSUME NEW S, IsFiniteSet(S)
    PROVE  /\ Cardinality(S) \in Nat
           /\ \A U \in SUBSET S : /\ IsFiniteSet(U) /\ Cardinality(U) \in Nat
                                  /\ Cardinality(U) <= Cardinality(S)
  BY FS_Subset, FS_CardinalityType

\* As many numbers come before one of the rest as the first and those of the rest.
LEMMA SplitCounts ==
    ASSUME NEW S \in SUBSET Int, IsFiniteSet(S), NEW s, InTheirOrder(s, S),
           NEW c, NEW d \in Int, Splits(S, s, c, d), NEW e \in Int,
           NEW x \in {y \in S : d < y /\ y <= e}
    PROVE  /\ Below({y \in S : d < y /\ y <= e}, x) \in Nat
           /\ Below(S, x) = c + Below({y \in S : d < y /\ y <= e}, x)
<1> DEFINE W == {y \in S : d < y /\ y <= e}
           low == {y \in S : y <= d}
           here == {y \in W : y < x}
<1>1. IsFiniteSet(low) /\ Cardinality(low) = c
  <2>1. CASE c = 0
    <3>1. low = {}
      <4>1. \A y \in S : ~(y <= d)
        BY <2>1 DEF Splits
      <4> QED  BY <4>1
    <3> QED  BY <2>1, <3>1, FS_EmptySet
  <2>2. CASE c # 0
    <3>1. c \in 1..Cardinality(S) /\ d = s[c] /\ d \in S
      BY <2>2 DEF Splits, InTheirOrder
    <3> DEFINE less == {y \in S : y < d}
    <3>2. Cardinality(less) = c - 1
      BY <3>1 DEF InTheirOrder, Below
    <3>3. IsFiniteSet(less)
      BY FS_Subset
    <3>4. low = less \cup {d} /\ d \notin less
      <4>1. \A y \in S : y <= d <=> y < d \/ y = d
        OBVIOUS
      <4>2. ~(d < d)
        OBVIOUS
      <4> QED  BY <3>1, <4>1, <4>2
    <3> HIDE DEF less, low
    <3>5. IsFiniteSet(low) /\ Cardinality(low) = Cardinality(less) + 1
      BY <3>3, <3>4, FS_AddElement
    <3> QED  BY <3>1, <3>2, <3>5
  <2> QED  BY <2>1, <2>2
<1>2. IsFiniteSet(here) /\ Cardinality(here) \in Nat
  BY FiniteCounts
<1>3. {y \in S : y < x} = low \cup here /\ low \cap here = {}
  <2>1. \A y \in S : y < x <=> y <= d \/ (d < y /\ y <= e /\ y < x)
    OBVIOUS
  <2>2. \A y \in S : ~(y <= d /\ d < y)
    OBVIOUS
  <2> QED  BY <2>1, <2>2
<1>4. c \in Nat
  BY DEF Splits, InTheirOrder
<1> HIDE DEF low, here
<1>5. Cardinality(low \cup here) = c + Cardinality(here)
  <2>1. Cardinality(low \cup here) = Cardinality(low) + Cardinality(here) - Cardinality(low \cap here)
    BY <1>1, <1>2, FS_Union
  <2>2. Cardinality(low \cap here) = 0
    BY <1>3, FS_EmptySet
  <2> QED  BY <1>1, <1>2, <1>4, <2>1, <2>2
<1>6. Below(W, x) = Cardinality(here)
  BY DEF Below, here
<1>7. Below(S, x) = Cardinality(low \cup here)
  BY <1>3 DEF Below
<1> QED  BY <1>2, <1>5, <1>6, <1>7

\* The numbers after one, up to another.
Between(S, d, e) == {y \in S : d < y /\ y <= e}

\* What is listed after a number is what the list of all goes on with.
LEMMA SplitList ==
    ASSUME NEW S \in SUBSET Int, IsFiniteSet(S), NEW s, InTheirOrder(s, S),
           NEW c, NEW d \in Int, Splits(S, s, c, d), NEW e \in Int,
           NEW w, InTheirOrder(w, Between(S, d, e))
    PROVE  LET W == Between(S, d, e)
           IN
           /\ Cardinality(W) \in Nat /\ c + Cardinality(W) <= Cardinality(S)
           /\ \A i \in 1..Cardinality(W) : w[i] = s[c + i]
           /\ (\A x \in S : x <= e) => c + Cardinality(W) = Cardinality(S)
<1> DEFINE W == Between(S, d, e)
           m == Cardinality(W)
           n == Cardinality(S)
<1>0. W = {y \in S : d < y /\ y <= e} /\ InTheirOrder(w, W)
  BY DEF Between
<1> HIDE DEF W
<1>1. m \in Nat /\ n \in Nat /\ c \in 0..n
  BY <1>0 DEF InTheirOrder, Splits
<1>2. ASSUME NEW i \in 1..m PROVE c + i \in 1..n /\ w[i] = s[c + i]
  <2>1. w[i] \in W /\ Below(W, w[i]) = i - 1
    BY <1>0 DEF InTheirOrder
  <2>2. w[i] \in S /\ Below(S, w[i]) = c + (i - 1)
    <3> DEFINE x == w[i]
    <3>1. x \in {y \in S : d < y /\ y <= e}
      BY <1>0, <2>1
    <3> HIDE DEF x
    <3>2. Below(S, x) = c + Below(W, x)
      BY <1>0, <3>1, SplitCounts
    <3> QED  BY <2>1, <3>1, <3>2 DEF x
  <2>3. Below(S, w[i]) + 1 \in 1..n /\ s[Below(S, w[i]) + 1] = w[i]
    BY <2>2 DEF InTheirOrder
  <2>4. Below(S, w[i]) + 1 = c + i
    BY <1>1, <2>2
  <2> QED  BY <2>3, <2>4
<1>3. c + m <= n
  <2>1. CASE m = 0
    BY <1>1, <2>1
  <2>2. CASE m # 0
    BY <1>1, <2>2, <1>2
  <2> QED  BY <2>1, <2>2
<1>4. ASSUME \A x \in S : x <= e PROVE c + m = n
  <2>1. CASE c = n
    BY <1>1, <1>3, <2>1
  <2>2. CASE c # n
    <3>1. n \in 1..n /\ c < n
      BY <1>1, <2>2
    <3>2. PICK x \in S : x = s[n] /\ Below(S, x) = n - 1
      BY <3>1 DEF InTheirOrder
    <3>3. d < x
      <4>1. CASE c = 0
        BY <4>1 DEF Splits
      <4>2. CASE c # 0
        <5>1. c \in 1..n /\ d \in S /\ Below(S, d) = c - 1
          <6>1. c \in 1..n /\ d = s[c]
            BY <1>1, <4>2 DEF Splits
          <6>2. s[c] \in S /\ Below(S, s[c]) = c - 1
            BY <6>1 DEF InTheirOrder
          <6> QED  BY <6>1, <6>2
        <5> SUFFICES ASSUME x <= d PROVE FALSE
          OBVIOUS
        <5> DEFINE before == {y \in S : y < x}
                   less == {y \in S : y < d}
        <5>2. before \in SUBSET less /\ less \in SUBSET S
          <6>1. \A y \in S : y < x => y < d
            OBVIOUS
          <6> QED  BY <6>1
        <5>3. Below(S, x) = Cardinality(before) /\ Below(S, d) = Cardinality(less)
          BY DEF Below
        <5> HIDE DEF before, less
        <5>4. IsFiniteSet(less)
          BY <5>2, FS_Subset
        <5>5. Cardinality(before) <= Cardinality(less)
          BY <5>2, <5>4, FS_Subset
        <5> QED  BY <1>1, <3>1, <3>2, <5>1, <5>3, <5>5
      <4> QED  BY <4>1, <4>2
    <3>4. x \in {y \in S : d < y /\ y <= e}
      BY <1>4, <3>3
    <3>5. Below(W, x) \in Nat /\ Below(S, x) = c + Below(W, x)
      BY <1>0, <3>4, SplitCounts
    <3>6. Below(W, x) + 1 \in 1..m
      BY <1>0, <3>4 DEF InTheirOrder
    <3> QED  BY <1>1, <1>3, <3>2, <3>5, <3>6
  <2> QED  BY <2>1, <2>2
<1> QED  BY <1>1, <1>2, <1>3, <1>4 DEF W

ShownDocs(v) == {i \in 1..Len(v.docs) : v.search => v.docs[i]}

HiddenDocs(v) == {i \in 1..Len(v.docs) : ~v.docs[i]}

\* How many nodes there are to show, and how many of a page are shown whole.
AllNodes(v) == v.folders + Cardinality(ShownDocs(v))

Uncut(v, length) == ~v.search \/ Cardinality(HiddenDocs(v)) + length < ScanLimit

LEMMA ShownInOrder ==
    ASSUME NEW v, V!IsView(v)
    PROVE  /\ Len(v.docs) \in Nat /\ DOMAIN v.docs = 1..Len(v.docs)
           /\ ShownDocs(v) \in SUBSET Int /\ IsFiniteSet(ShownDocs(v))
           /\ Cardinality(ShownDocs(v)) \in Nat /\ Cardinality(ShownDocs(v)) <= Len(v.docs)
           /\ IsFiniteSet(HiddenDocs(v)) /\ Cardinality(HiddenDocs(v)) \in Nat
           /\ InTheirOrder(V!Shown(v), ShownDocs(v))
           /\ AllNodes(v) \in Nat /\ v.folders \in Nat /\ v.search \in BOOLEAN
<1>1. v.docs \in Seq(BOOLEAN) /\ v.folders \in Nat /\ v.search \in BOOLEAN
  BY DEF V!IsView
<1>2. Len(v.docs) \in Nat /\ DOMAIN v.docs = 1..Len(v.docs)
  BY <1>1
<1>3. IsFiniteSet(1..Len(v.docs)) /\ Cardinality(1..Len(v.docs)) = Len(v.docs)
  BY <1>2, FS_Interval
<1>4. /\ ShownDocs(v) \in SUBSET (1..Len(v.docs)) /\ HiddenDocs(v) \in SUBSET (1..Len(v.docs))
      /\ ShownDocs(v) \in SUBSET Int
  BY <1>2 DEF ShownDocs, HiddenDocs
<1>5. /\ IsFiniteSet(ShownDocs(v)) /\ Cardinality(ShownDocs(v)) \in Nat
      /\ Cardinality(ShownDocs(v)) <= Len(v.docs)
      /\ IsFiniteSet(HiddenDocs(v)) /\ Cardinality(HiddenDocs(v)) \in Nat
  BY <1>3, <1>4, FiniteCounts
<1>6. InTheirOrder(V!InOrder(ShownDocs(v)), ShownDocs(v))
  BY <1>4, <1>5, NumbersInOrder
<1>7. V!Shown(v) = V!InOrder(ShownDocs(v))
  BY DEF V!Shown, ShownDocs
<1> QED  BY <1>1, <1>2, <1>4, <1>5, <1>6, <1>7 DEF AllNodes

\* A cursor at which k nodes have been shown.
At(v, cursor, k) ==
    \/ k \in 0..v.folders /\ cursor = <<"folder", k>>
    \/ /\ ~v.search /\ k - v.folders \in 0..Len(v.docs) /\ k \in Nat
       /\ cursor = <<"document", k - v.folders>>
    \/ \E d \in Nat :
          /\ v.search /\ k \in Nat /\ Splits(ShownDocs(v), V!Shown(v), k - v.folders, d)
          /\ k = v.folders => d = 0
          /\ cursor = <<"document_after", d>>

\* A page that goes on with the node after the first k.
PageFrom(v, k, page, length) ==
    /\ Len(page.nodes) \in 0..length /\ page.nodes \in Seq({"folder", "document"} \X Nat)
    /\ k + Len(page.nodes) <= AllNodes(v)
    /\ \A i \in 1..Len(page.nodes) : page.nodes[i] = V!Visible(v)[k + i]
    /\ \/ /\ page.next # None /\ Len(page.nodes) = length
          /\ At(v, page.next, k + length)
       \/ /\ page.next = None
          /\ Uncut(v, length) => k + Len(page.nodes) = AllNodes(v)

LEMMA PageIs ==
    ASSUME NEW v, NEW k, NEW page, NEW length, NEW m \in 0..length,
           page.nodes \in Seq({"folder", "document"} \X Nat), Len(page.nodes) = m, k + m <= AllNodes(v),
           \A i \in 1..m : page.nodes[i] = V!Visible(v)[k + i],
           \/ page.next # None /\ m = length /\ At(v, page.next, k + length)
           \/ page.next = None /\ (Uncut(v, length) => k + m = AllNodes(v))
    PROVE  PageFrom(v, k, page, length)
  BY DEF PageFrom

LEMMA VisibleNodes ==
    ASSUME NEW v, V!IsView(v), v.readable
    PROVE  /\ DOMAIN V!Visible(v) = 1..AllNodes(v) /\ Len(V!Visible(v)) = AllNodes(v)
           /\ \A k \in 1..AllNodes(v) :
                 V!Visible(v)[k] = IF k <= v.folders THEN <<"folder", k>>
                                   ELSE <<"document", V!Shown(v)[k - v.folders]>>
<1> DEFINE all == [k \in 1..v.folders + Len(V!Shown(v)) |->
                      IF k <= v.folders THEN <<"folder", k>> ELSE <<"document", V!Shown(v)[k - v.folders]>>]
<1>1. V!Visible(v) = all
  BY DEF V!Visible
<1>2. Len(V!Shown(v)) = Cardinality(ShownDocs(v)) /\ AllNodes(v) \in Nat
  BY ShownInOrder DEF InTheirOrder
<1>3. v.folders + Len(V!Shown(v)) = AllNodes(v)
  BY <1>2 DEF AllNodes
<1>4. DOMAIN all = 1..AllNodes(v) /\ Len(all) = AllNodes(v)
  BY <1>2, <1>3
<1>5. \A k \in 1..AllNodes(v) : all[k] = IF k <= v.folders THEN <<"folder", k>>
                                         ELSE <<"document", V!Shown(v)[k - v.folders]>>
  BY <1>3
<1> QED  BY <1>1, <1>4, <1>5

\* The first numbers are listed as they are.
LEMMA ListedByNumber ==
    ASSUME NEW n \in Nat, NEW s, InTheirOrder(s, 1..n)
    PROVE  Cardinality(1..n) = n /\ \A i \in 1..n : s[i] = i
<1>1. Cardinality(1..n) = n
  BY FS_Interval
<1>2. ASSUME NEW i \in 1..n PROVE s[i] = i
  <2>1. {y \in 1..n : y < i} = 1..(i - 1)
    OBVIOUS
  <2>2. Below(1..n, i) = i - 1
    <3>1. Cardinality(1..(i - 1)) = i - 1
      BY FS_Interval
    <3> QED  BY <2>1, <3>1 DEF Below
  <2>3. s[Below(1..n, i) + 1] = i
    BY DEF InTheirOrder
  <2>4. (i - 1) + 1 = i
    OBVIOUS
  <2> QED  BY <2>2, <2>3, <2>4
<1> QED  BY <1>1, <1>2

\* Without a search, documents are shown by their numbers.
LEMMA AllShown ==
    ASSUME NEW v, V!IsView(v), ~v.search
    PROVE  /\ Cardinality(ShownDocs(v)) = Len(v.docs)
           /\ \A i \in 1..Len(v.docs) : V!Shown(v)[i] = i
<1> DEFINE n == Len(v.docs)
<1>1. n \in Nat /\ ShownDocs(v) = 1..n /\ InTheirOrder(V!Shown(v), ShownDocs(v))
  BY ShownInOrder DEF ShownDocs
<1> HIDE DEF n
<1>2. Cardinality(1..n) = n /\ \A i \in 1..n : V!Shown(v)[i] = i
  BY <1>1, ListedByNumber
<1> QED  BY <1>1, <1>2 DEF n

LEMMA NumberedNodes ==
    ASSUME NEW kind, NEW from \in Nat, NEW to \in Nat, from <= to + 1
    PROVE  LET listed == V!Numbered(kind, from, to)
           IN  /\ listed \in Seq({kind} \X Nat) /\ Len(listed) = to - from + 1
               /\ \A i \in 1..Len(listed) : listed[i] = <<kind, from + i - 1>>
<1> DEFINE listed == V!Numbered(kind, from, to)
           n == to - from + 1
<1>1. n \in Nat /\ n = IF to < from THEN 0 ELSE to - from + 1
  OBVIOUS
<1>2. listed = [i \in 1..n |-> <<kind, from + i - 1>>]
  BY <1>1 DEF V!Numbered
<1> HIDE DEF n, listed
<1>3. \A i \in 1..n : <<kind, from + i - 1>> \in {kind} \X Nat
  BY <1>1
<1>4. listed \in Seq({kind} \X Nat) /\ Len(listed) = n
  BY <1>1, <1>2, <1>3
<1>5. \A i \in 1..n : listed[i] = <<kind, from + i - 1>>
  BY <1>2
<1> QED  BY <1>4, <1>5 DEF n, listed

LEMMA TakeSome ==
    ASSUME NEW E, NEW seq \in Seq(E), NEW n \in Nat
    PROVE  LET m == IF n < Len(seq) THEN n ELSE Len(seq)
           IN  /\ V!Take(seq, n) \in Seq(E) /\ Len(V!Take(seq, n)) = m
               /\ \A i \in 1..m : V!Take(seq, n)[i] = seq[i]
  BY DEF V!Take, V!AtMost

\* Pages of documents without a search, and with one.
LEMMA ChildPage ==
    ASSUME NEW v, V!IsView(v), v.readable, ~v.search, NEW a \in 0..Len(v.docs), NEW length \in Nat
    PROVE  PageFrom(v, v.folders + a, V!ChildDocuments(v, a, length), length)
<1> DEFINE n == Len(v.docs)
           last == V!AtMost(n, a + length + 1)
           listed == V!Numbered("document", a + 1, last)
           page == V!ChildDocuments(v, a, length)
           f == v.folders
<1>1. n \in Nat /\ f \in Nat /\ Cardinality(ShownDocs(v)) = n /\ \A i \in 1..n : V!Shown(v)[i] = i
  BY ShownInOrder, AllShown
<1>2. last \in Nat /\ a <= last /\ last <= n /\ last <= a + length + 1 /\ (last = n \/ last = a + length + 1)
  BY <1>1 DEF V!AtMost
<1>3. /\ page = [nodes |-> V!Take(listed, length),
                 next |-> IF Len(listed) > length THEN <<"document", a + length>> ELSE None]
  BY DEF V!ChildDocuments
<1> HIDE DEF last
<1>4. /\ listed \in Seq({"document"} \X Nat) /\ Len(listed) = last - a
      /\ \A i \in 1..Len(listed) : listed[i] = <<"document", a + i>>
  <2>1. a + 1 \in Nat /\ a + 1 <= last + 1 /\ last - (a + 1) + 1 = last - a
        /\ \A i \in Nat : (a + 1) + i - 1 = a + i
    BY <1>2
  <2>2. /\ listed \in Seq({"document"} \X Nat) /\ Len(listed) = last - (a + 1) + 1
        /\ \A i \in 1..Len(listed) : listed[i] = <<"document", (a + 1) + i - 1>>
    BY <1>2, <2>1, NumberedNodes, ZenonT(30)
  <2> HIDE DEF listed
  <2>3. Len(listed) = last - a
    BY <2>1, <2>2
  <2>4. Len(listed) \in Nat
    BY <1>2, <2>3
  <2>5. ASSUME NEW i \in 1..Len(listed) PROVE listed[i] = <<"document", a + i>>
    <3>1. (a + 1) + i - 1 = a + i
      BY <1>2, <2>4
    <3> QED  BY <2>2, <3>1
  <2> QED  BY <2>2, <2>3, <2>5
<1> DEFINE m == IF length < last - a THEN length ELSE last - a
<1>5. /\ page.nodes \in Seq({"folder", "document"} \X Nat) /\ Len(page.nodes) = m
      /\ \A i \in 1..m : page.nodes[i] = <<"document", a + i>>
  <2> HIDE DEF listed, page
  <2>1. /\ V!Take(listed, length) \in Seq({"document"} \X Nat) /\ Len(V!Take(listed, length)) = m
        /\ \A i \in 1..m : V!Take(listed, length)[i] = listed[i]
    BY <1>2, <1>4, TakeSome
  <2>2. page.nodes = V!Take(listed, length)
    BY <1>3
  <2>3. m \in Nat /\ m <= Len(listed) /\ Len(listed) \in Nat
    BY <1>2, <1>4
  <2>4. page.nodes \in Seq({"folder", "document"} \X Nat)
    BY <2>1, <2>2
  <2> HIDE DEF m
  <2> QED  BY <1>4, <2>1, <2>2, <2>3, <2>4
<1>6. m \in 0..length /\ a + m <= n /\ AllNodes(v) = f + n /\ (f + a) + m <= AllNodes(v)
  BY <1>1, <1>2 DEF AllNodes
<1>7. \A i \in 1..m : page.nodes[i] = V!Visible(v)[(f + a) + i]
  <2> SUFFICES ASSUME NEW i \in 1..m PROVE page.nodes[i] = V!Visible(v)[(f + a) + i]
    OBVIOUS
  <2> DEFINE j == (f + a) + i
  <2>1. j \in 1..AllNodes(v) /\ ~(j <= f) /\ j - f = a + i /\ a + i \in 1..n
    BY <1>1, <1>2, <1>6, SMTT(30)
  <2> HIDE DEF j, page
  <2>2. V!Visible(v)[j] = <<"document", V!Shown(v)[j - f]>>
    BY <2>1, VisibleNodes
  <2>3. V!Shown(v)[a + i] = a + i
    BY <1>1, <2>1
  <2> QED  BY <1>5, <2>1, <2>2, <2>3 DEF j
<1>8. CASE last - a > length
  <2>1. page.next = <<"document", a + length>> /\ m = length
    BY <1>2, <1>3, <1>4, <1>8
  <2>2. <<"document", a + length>> \in {"folder", "document", "document_after"} \X Nat
    BY <1>2
  <2>3. page.next # None
    BY <2>1, <2>2, ViewsAxiom
  <2>4. At(v, page.next, (f + a) + length)
    <3>1. ((f + a) + length) - f = a + length /\ a + length \in 0..n /\ (f + a) + length \in Nat
      BY <1>1, <1>2, <1>8
    <3> QED  BY <2>1, <3>1 DEF At
  <2>5. m = length
    BY <2>1
  <2> HIDE DEF page, m, f
  <2>6. PageFrom(v, f + a, page, length)
    BY <1>5, <1>6, <1>7, <2>3, <2>4, <2>5, PageIs
  <2> QED  BY <2>6 DEF page, f
<1>9. CASE ~(last - a > length)
  <2>1. page.next = None
    BY <1>2, <1>3, <1>4, <1>9
  <2>2. m = n - a
    BY <1>1, <1>2, <1>9
  <2>3. (f + a) + m = AllNodes(v)
    BY <1>1, <1>2, <1>6, <2>2
  <2> HIDE DEF page, m, f
  <2>4. PageFrom(v, f + a, page, length)
    BY <1>5, <1>6, <1>7, <2>1, <2>3, PageIs
  <2> QED  BY <2>4 DEF page, f
<1> QED  BY <1>8, <1>9

\* A scan that does not come to the last document sees so many that those
\* shown fill a page, unless too many are hidden.
LEMMA ScannedEnough ==
    ASSUME NEW v, V!IsView(v), NEW d \in Nat, NEW e \in Nat, d <= e, e <= Len(v.docs)
    PROVE  LET W == {i \in (d + 1)..e : v.docs[i]}
           IN  IsFiniteSet(W) /\ Cardinality(W) \in Nat /\ e - d <= Cardinality(W) + Cardinality(HiddenDocs(v))
<1> DEFINE window == (d + 1)..e
           W == {i \in window : v.docs[i]}
           H1 == {i \in window : ~v.docs[i]}
<1>1. IsFiniteSet(window) /\ Cardinality(window) = e - d
  <2>1. d + 1 <= e + 1 /\ e - (d + 1) + 1 = e - d /\ d + 1 \in Int /\ e \in Int
    OBVIOUS
  <2>2. CASE d + 1 <= e
    BY <2>1, <2>2, FS_Interval
  <2>3. CASE ~(d + 1 <= e)
    BY <2>3, FS_EmptySet
  <2> QED  BY <2>2, <2>3
<1>2. Len(v.docs) \in Nat /\ IsFiniteSet(HiddenDocs(v)) /\ Cardinality(HiddenDocs(v)) \in Nat
  BY ShownInOrder
<1>3. H1 \in SUBSET HiddenDocs(v)
  BY <1>2 DEF HiddenDocs
<1>4. window = W \cup H1 /\ W \cap H1 = {} /\ W \in SUBSET window
  OBVIOUS
<1> HIDE DEF W, H1, window
<1>5. /\ IsFiniteSet(W) /\ Cardinality(W) \in Nat /\ IsFiniteSet(H1) /\ Cardinality(H1) \in Nat
      /\ Cardinality(H1) <= Cardinality(HiddenDocs(v))
  BY <1>1, <1>2, <1>3, <1>4, FiniteCounts
<1>6. Cardinality(W \cup H1) = Cardinality(W) + Cardinality(H1) - Cardinality(W \cap H1)
  BY <1>5, FS_Union
<1>7. Cardinality(W \cap H1) = 0
  BY <1>4, FS_EmptySet
<1>8. e - d = Cardinality(W) + Cardinality(H1)
  BY <1>1, <1>4, <1>5, <1>6, <1>7
<1>9. IsFiniteSet(W) /\ Cardinality(W) \in Nat /\ e - d <= Cardinality(W) + Cardinality(HiddenDocs(v))
  BY <1>2, <1>5, <1>8
<1> QED  BY <1>9 DEF W, window

LEMMA FoundPage ==
    ASSUME NEW v, V!IsView(v), v.readable, v.search, NEW c, NEW d \in Nat,
           Splits(ShownDocs(v), V!Shown(v), c, d), c = 0 => d = 0,
           NEW length \in Nat, length = 0 => c = 0
    PROVE  PageFrom(v, v.folders + c, V!FoundDocuments(v, d, length), length)
<1> DEFINE n == Len(v.docs)
           e == V!AtMost(n, d + ScanLimit)
           W == {i \in (d + 1)..e : v.docs[i]}
           w == V!InOrder(W)
           S == ShownDocs(v)
           s == V!Shown(v)
           f == v.folders
           page == V!FoundDocuments(v, d, length)
<1>1. /\ n \in Nat /\ f \in Nat /\ S \in SUBSET Int /\ IsFiniteSet(S) /\ Cardinality(S) \in Nat
      /\ InTheirOrder(s, S) /\ S = {i \in 1..n : v.docs[i]} /\ AllNodes(v) = f + Cardinality(S)
  BY ShownInOrder DEF ShownDocs, AllNodes
<1>2. c \in Nat /\ c <= Cardinality(S) /\ d \in Int
  BY <1>1 DEF Splits
<1>3. d <= n
  <2>1. CASE c = 0
    BY <1>1, <2>1
  <2>2. CASE c # 0
    BY <1>1, <1>2, <2>2 DEF Splits, InTheirOrder
  <2> QED  BY <2>1, <2>2
<1>4. e \in Nat /\ d <= e /\ e <= n /\ (e = n \/ e = d + ScanLimit)
  BY <1>1, <1>3, ViewsAxiom DEF V!AtMost
<1>5. /\ page = [nodes |-> [i \in 1..V!AtMost(length, Len(w)) |-> <<"document", w[i]>>],
                 next |-> IF Len(w) <= length THEN None
                          ELSE <<"document_after", IF length = 0 THEN 0 ELSE w[length]>>]
  BY DEF V!FoundDocuments
<1> HIDE DEF e
<1>6. IsFiniteSet(W) /\ Cardinality(W) \in Nat /\ e - d <= Cardinality(W) + Cardinality(HiddenDocs(v))
  BY <1>3, <1>4, ScannedEnough
<1>7. W = {y \in S : d < y /\ y <= e}
  <2>1. \A y \in 1..n : y \in (d + 1)..e <=> d < y /\ y <= e
    BY <1>1, <1>4
  <2>2. \A y \in (d + 1)..e : y \in 1..n
    BY <1>1, <1>4
  <2>3. \A y \in W : y \in S /\ d < y /\ y <= e
    BY <1>1, <2>1, <2>2
  <2>4. \A y \in S : d < y /\ y <= e => y \in W
    BY <1>1, <2>1
  <2> HIDE DEF W, S
  <2> QED  BY <2>3, <2>4
<1> HIDE DEF W, S, s
<1>8. InTheirOrder(w, W)
  BY <1>1, <1>7, <1>6, NumbersInOrder
<1> HIDE DEF w
<1> DEFINE k == Cardinality(W)
           m == V!AtMost(length, k)
<1>9. /\ k \in Nat /\ c + k <= Cardinality(S)
      /\ \A i \in 1..k : w[i] = s[c + i]
      /\ (\A x \in S : x <= e) => c + k = Cardinality(S)
  <2>1. Splits(S, s, c, d)
    BY DEF S, s
  <2>2. e \in Int
    BY <1>4
  <2>a. W = Between(S, d, e)
    BY <1>7 DEF Between
  <2>b. S \in SUBSET Int /\ IsFiniteSet(S) /\ InTheirOrder(s, S) /\ d \in Int
    BY <1>1, <1>2
  <2>c. InTheirOrder(w, Between(S, d, e))
    BY <1>8, <2>a
  <2>3. /\ Cardinality(W) \in Nat /\ c + Cardinality(W) <= Cardinality(S)
        /\ \A i \in 1..Cardinality(W) : w[i] = s[c + i]
        /\ (\A x \in S : x <= e) => c + Cardinality(W) = Cardinality(S)
    BY <2>1, <2>2, <2>a, <2>b, <2>c, SplitList
  <2> QED  BY <2>3
<1>10. Len(w) = k
  BY <1>6, <1>8 DEF InTheirOrder
<1> HIDE DEF k
<1>11. m \in 0..length /\ m <= k /\ (f + c) + m <= AllNodes(v)
  BY <1>1, <1>2, <1>9 DEF V!AtMost
<1> HIDE DEF m
<1>12. page.nodes = [i \in 1..m |-> <<"document", w[i]>>]
  BY <1>5, <1>10 DEF m
<1> HIDE DEF page
<1>13. page.nodes \in Seq({"folder", "document"} \X Nat) /\ Len(page.nodes) = m
  <2>1. \A i \in 1..m : w[i] \in Nat
    <3> SUFFICES ASSUME NEW i \in 1..m PROVE w[i] \in Nat
      OBVIOUS
    <3>1. i \in 1..k
      BY <1>9, <1>11
    <3>2. w[i] \in W
      BY <1>8, <3>1 DEF InTheirOrder, k
    <3> QED  BY <1>1, <1>7, <3>2
  <2>2. \A i \in 1..m : <<"document", w[i]>> \in {"folder", "document"} \X Nat
    BY <2>1
  <2>3. m \in Nat
    BY <1>11
  <2> QED  BY <1>12, <2>2, <2>3
<1>14. \A i \in 1..m : page.nodes[i] = V!Visible(v)[(f + c) + i]
  <2> SUFFICES ASSUME NEW i \in 1..m PROVE page.nodes[i] = V!Visible(v)[(f + c) + i]
    OBVIOUS
  <2> DEFINE j == (f + c) + i
  <2>1. i \in 1..k /\ j \in 1..AllNodes(v) /\ ~(j <= f) /\ j - f = c + i
    <3> HIDE DEF f
    <3>1. i \in Int /\ 1 <= i /\ i <= m /\ m \in Int
      BY <1>11
    <3>2. i <= k
      BY <1>9, <1>11, <3>1
    <3>3. (f + c) + i \in Int /\ 1 <= (f + c) + i /\ (f + c) + i <= f + Cardinality(S)
      BY <1>1, <1>2, <1>9, <3>1, <3>2
    <3> QED  BY <1>1, <1>2, <1>9, <3>1, <3>2, <3>3
  <2>2. page.nodes[i] = <<"document", w[i]>> /\ w[i] = s[c + i]
    BY <1>9, <1>12, <2>1
  <2> HIDE DEF j
  <2>3. V!Visible(v)[j] = <<"document", s[j - f]>>
    BY <2>1, VisibleNodes DEF s
  <2> QED  BY <2>1, <2>2, <2>3 DEF j
<1>15. CASE k <= length
  <2>1. page.next = None
    BY <1>5, <1>10, <1>15 DEF page
  <2>2. m = k
    BY <1>9, <1>15 DEF m, V!AtMost
  <2>3. Uncut(v, length) => (f + c) + m = AllNodes(v)
    <3> SUFFICES ASSUME Uncut(v, length) PROVE (f + c) + m = AllNodes(v)
      OBVIOUS
    <3>1. Cardinality(HiddenDocs(v)) + length < ScanLimit
      BY DEF Uncut
    <3>2. e = n
      BY ShownInOrder, <1>1, <1>3, <1>4, <1>6, <1>9, <1>15, <3>1, ViewsAxiom DEF k
    <3>3. \A x \in S : x <= e
      BY <1>1, <3>2
    <3> QED  BY <1>1, <1>2, <1>9, <2>2, <3>3
  <2> HIDE DEF f
  <2>4. PageFrom(v, f + c, page, length)
    BY <1>11, <1>13, <1>14, <2>1, <2>3, PageIs
  <2> QED  BY <2>4 DEF page, f
<1>16. CASE ~(k <= length)
  <2> DEFINE last == IF length = 0 THEN 0 ELSE w[length]
  <2>1. page.next = <<"document_after", last>>
    BY <1>5, <1>10, <1>16 DEF page
  <2>2. m = length
    BY <1>9, <1>16 DEF m, V!AtMost
  <2>3. last \in Nat /\ Splits(S, s, c + length, last) /\ (c + length = 0 => last = 0)
    <3>1. CASE length = 0
      BY <3>1 DEF S, s
    <3>2. CASE length # 0
      <4>1. length \in 1..k /\ last = w[length]
        BY <1>9, <1>16, <3>2
      <4>2. last \in W
        BY <1>8, <4>1 DEF InTheirOrder, k
      <4>3. last \in Nat
        BY <1>1, <1>7, <4>2
      <4>4. last = s[c + length]
        BY <1>9, <4>1
      <4>5. c + length \in 0..Cardinality(S) /\ c + length # 0
        BY <1>1, <1>2, <1>9, <3>2, <4>1
      <4> HIDE DEF last
      <4> QED  BY <4>3, <4>4, <4>5 DEF Splits
    <3> QED  BY <3>1, <3>2
  <2> HIDE DEF last
  <2>4. page.next # None
    BY <2>3, <2>1, ViewsAxiom
  <2>5. At(v, page.next, (f + c) + length)
    <3> DEFINE j == (f + c) + length
    <3>1. j - f = c + length /\ j \in Nat /\ (j = f => c + length = 0)
      BY <1>1, <1>2
    <3> HIDE DEF j
    <3>2. Splits(ShownDocs(v), V!Shown(v), j - f, last) /\ (j = f => last = 0)
      BY <2>3, <3>1 DEF S, s
    <3> QED  BY <2>1, <2>3, <3>1, <3>2 DEF At, j
  <2> HIDE DEF f
  <2>6. PageFrom(v, f + c, page, length)
    BY <1>11, <1>13, <1>14, <2>2, <2>4, <2>5, PageIs
  <2> QED  BY <2>6 DEF page, f
<1> QED  BY <1>15, <1>16

\* What comes after the last folder.
DocumentPage(v, length) ==
    IF v.search THEN V!FoundDocuments(v, 0, length) ELSE V!ChildDocuments(v, 0, length)

LEMMA DocumentsPage ==
    ASSUME NEW v, V!IsView(v), v.readable, NEW length \in Nat
    PROVE  PageFrom(v, v.folders, DocumentPage(v, length), length)
<1>1. v.folders \in Nat /\ v.folders + 0 = v.folders
  BY ShownInOrder
<1>2. CASE v.search
  <2>1. Splits(ShownDocs(v), V!Shown(v), 0, 0)
    <3>1. Cardinality(ShownDocs(v)) \in Nat
      BY ShownInOrder
    <3>2. \A x \in ShownDocs(v) : 0 < x
      BY ShownInOrder DEF ShownDocs
    <3> QED  BY <3>1, <3>2 DEF Splits
  <2>2. PageFrom(v, v.folders + 0, V!FoundDocuments(v, 0, length), length)
    BY <1>2, <2>1, FoundPage
  <2> QED  BY <1>1, <1>2, <2>2 DEF DocumentPage
<1>3. CASE ~v.search
  BY ShownInOrder, <1>3, ChildPage, <1>1 DEF DocumentPage
<1> QED  BY <1>2, <1>3

LEMMA FolderNodes ==
    ASSUME NEW v, V!IsView(v), v.readable, NEW k \in 0..v.folders, NEW length \in Nat
    PROVE  LET listed == V!FolderRows(v, k, length + 1)
               last == V!AtMost(v.folders, k + (length + 1))
           IN  /\ listed \in Seq({"folder", "document"} \X Nat) /\ Len(listed) = last - k
               /\ \A i \in 1..(last - k) : listed[i] = V!Visible(v)[k + i]
<1> DEFINE f == v.folders
           last == V!AtMost(f, k + (length + 1))
           listed == V!FolderRows(v, k, length + 1)
<1>1. f \in Nat /\ k \in Nat /\ k <= f /\ f <= AllNodes(v) /\ AllNodes(v) \in Nat
  BY ShownInOrder DEF AllNodes
<1>2. last \in Nat /\ k <= last /\ last <= f
  BY <1>1 DEF V!AtMost
<1>3. listed = V!Numbered("folder", k + 1, last)
  BY DEF V!FolderRows
<1> HIDE DEF last, listed
<1>4. k + 1 \in Nat /\ k + 1 <= last + 1 /\ last - (k + 1) + 1 = last - k
  BY <1>1, <1>2
<1>5. /\ listed \in Seq({"folder"} \X Nat) /\ Len(listed) = last - (k + 1) + 1
      /\ \A i \in 1..Len(listed) : listed[i] = <<"folder", (k + 1) + i - 1>>
  BY <1>2, <1>3, <1>4, NumberedNodes
<1>6. Len(listed) = last - k
  BY <1>4, <1>5
<1>7. listed \in Seq({"folder", "document"} \X Nat)
  BY <1>5
<1>8. ASSUME NEW i \in 1..(last - k) PROVE listed[i] = V!Visible(v)[k + i]
  <2>1. (k + 1) + i - 1 = k + i /\ k + i \in 1..f /\ k + i \in 1..AllNodes(v) /\ k + i <= v.folders
    <3>1. i \in Int /\ 1 <= i /\ i <= last - k
      BY <1>1, <1>2
    <3> HIDE DEF f
    <3>2. (k + 1) + i - 1 = k + i /\ k + i \in 1..f /\ k + i \in 1..AllNodes(v) /\ k + i <= f
      BY <1>1, <1>2, <3>1
    <3> QED  BY <3>2 DEF f
  <2>2. listed[i] = <<"folder", k + i>>
    BY <1>5, <1>6, <2>1
  <2>3. V!Visible(v)[k + i] = <<"folder", k + i>>
    BY <2>1, VisibleNodes
  <2> QED  BY <2>2, <2>3
<1> QED  BY <1>6, <1>7, <1>8 DEF last, listed

\* Sequences one after the other.
LEMMA Joined ==
    ASSUME NEW E, NEW a \in Seq(E), NEW b \in Seq(E)
    PROVE  /\ a \o b \in Seq(E) /\ Len(a \o b) = Len(a) + Len(b)
           /\ \A i \in 1..Len(a) : (a \o b)[i] = a[i]
           /\ \A i \in 1..Len(b) : (a \o b)[Len(a) + i] = b[i]
  OBVIOUS

LEMMA FolderPage ==
    ASSUME NEW v, V!IsView(v), v.readable, NEW k \in 0..v.folders, NEW length \in Nat
    PROVE  PageFrom(v, k, V!TreeRows(v, <<"folder", k>>, length), length)
<1> DEFINE f == v.folders
           last == V!AtMost(f, k + (length + 1))
           listed == V!FolderRows(v, k, length + 1)
           remaining == length - Len(V!Take(listed, length))
           rest == DocumentPage(v, remaining)
           page == V!TreeRows(v, <<"folder", k>>, length)
           E == {"folder", "document"} \X Nat
<1>1. f \in Nat /\ k \in Nat /\ k <= f /\ f <= AllNodes(v) /\ AllNodes(v) \in Nat
  BY ShownInOrder DEF AllNodes
<1>2. last \in Nat /\ k <= last /\ last <= f /\ (last = f \/ last = k + (length + 1))
  BY <1>1 DEF V!AtMost
<1>3. /\ listed \in Seq(E) /\ Len(listed) = last - k
      /\ \A i \in 1..(last - k) : listed[i] = V!Visible(v)[k + i]
  BY FolderNodes
<1>4. page = IF Len(listed) > length
             THEN [nodes |-> V!Take(listed, length), next |-> <<"folder", k + length>>]
             ELSE [nodes |-> listed \o rest.nodes, next |-> rest.next]
  BY DEF V!TreeRows, DocumentPage
<1> HIDE DEF last, listed, page
<1> DEFINE m == IF length < last - k THEN length ELSE last - k
<1>5. /\ V!Take(listed, length) \in Seq(E) /\ Len(V!Take(listed, length)) = m
      /\ \A i \in 1..m : V!Take(listed, length)[i] = listed[i]
  <2> HIDE DEF E
  <2> QED  BY <1>3, TakeSome
<1>6. CASE last - k > length
  <2>1. page.nodes = V!Take(listed, length) /\ page.next = <<"folder", k + length>>
    BY <1>2, <1>3, <1>4, <1>6
  <2>2. m = length /\ k + length <= f /\ k + length \in 0..f /\ m \in 0..length /\ k + m <= AllNodes(v)
    BY <1>1, <1>2, <1>6
  <2>3. page.nodes \in Seq(E) /\ Len(page.nodes) = m
    BY <1>5, <2>1
  <2>4. \A i \in 1..m : page.nodes[i] = V!Visible(v)[k + i]
    <3> SUFFICES ASSUME NEW i \in 1..m PROVE page.nodes[i] = V!Visible(v)[k + i]
      OBVIOUS
    <3>1. i \in 1..(last - k)
      BY <1>2, <1>6, <2>2
    <3> HIDE DEF m
    <3> QED  BY <1>3, <1>5, <2>1, <3>1
  <2>5. page.next # None
    BY <2>2, <2>1, ViewsAxiom
  <2>6. At(v, page.next, k + length)
    BY <2>1, <2>2 DEF At
  <2> HIDE DEF m
  <2>7. PageFrom(v, k, page, length)
    BY <2>2, <2>3, <2>4, <2>5, <2>6, PageIs
  <2> QED  BY <2>7 DEF page
<1>7. CASE ~(last - k > length)
  <2>1. last = f /\ m = f - k /\ Len(listed) = f - k /\ remaining = length - (f - k) /\ remaining \in Nat
    BY <1>1, <1>2, <1>3, <1>5, <1>7
  <2>2. page.nodes = listed \o rest.nodes /\ page.next = rest.next
    BY <1>2, <1>3, <1>4, <1>7
  <2>3. PageFrom(v, f, rest, remaining)
    BY <2>1, DocumentsPage
  <2> HIDE DEF remaining, rest, m
  <2> DEFINE r == Len(rest.nodes)
  <2>4. /\ r \in 0..remaining /\ rest.nodes \in Seq(E) /\ f + r <= AllNodes(v)
        /\ \A i \in 1..r : rest.nodes[i] = V!Visible(v)[f + i]
        /\ \/ rest.next # None /\ r = remaining /\ At(v, rest.next, f + remaining)
           \/ rest.next = None /\ (Uncut(v, remaining) => f + r = AllNodes(v))
    BY <2>3 DEF PageFrom
  <2> DEFINE all == listed \o rest.nodes
             n == (f - k) + r
  <2>5. /\ all \in Seq(E) /\ Len(all) = n
        /\ \A i \in 1..(f - k) : all[i] = listed[i]
        /\ \A i \in 1..r : all[(f - k) + i] = rest.nodes[i]
    <3>1. listed \in Seq(E) /\ rest.nodes \in Seq(E)
      BY <1>3, <2>4
    <3> HIDE DEF E, f
    <3> DEFINE a == listed
               b == rest.nodes
    <3>2. a \in Seq(E) /\ b \in Seq(E)
      BY <3>1
    <3>3. /\ all = a \o b /\ Len(a) = f - k /\ Len(b) = r
      BY <2>1
    <3> HIDE DEF a, b, all, r
    <3>4. /\ a \o b \in Seq(E) /\ Len(a \o b) = Len(a) + Len(b)
          /\ \A i \in 1..Len(a) : (a \o b)[i] = a[i]
          /\ \A i \in 1..Len(b) : (a \o b)[Len(a) + i] = b[i]
      BY <3>2, Joined
    <3>5. /\ all \in Seq(E) /\ Len(all) = (f - k) + r
          /\ \A i \in 1..(f - k) : all[i] = a[i]
          /\ \A i \in 1..r : all[(f - k) + i] = b[i]
      BY <3>3, <3>4
    <3> QED  BY <3>5 DEF a, b
  <2>6. n \in 0..length /\ k + n = f + r /\ k + n <= AllNodes(v)
    <3>1. r \in Int /\ 0 <= r /\ r <= length - (f - k) /\ f + r <= AllNodes(v)
      BY <2>1, <2>4
    <3> HIDE DEF r, f
    <3> QED  BY <1>1, <3>1
  <2> HIDE DEF r, all
  <2>7. ASSUME NEW i \in 1..n PROVE all[i] = V!Visible(v)[k + i]
    <3>1. CASE i <= f - k
      BY <1>1, <2>1, <3>1, <1>3, <2>5
    <3>2. CASE ~(i <= f - k)
      <4> DEFINE j == i - (f - k)
      <4>1. j \in 1..r /\ (f - k) + j = i /\ f + j = k + i
        BY <1>1, <2>4, <3>2
      <4> HIDE DEF j
      <4> QED  BY <2>4, <2>5, <4>1
    <3> QED  BY <3>1, <3>2
  <2> HIDE DEF n
  <2>8. page.nodes \in Seq(E) /\ Len(page.nodes) = n
    BY <2>2, <2>5 DEF all
  <2>9. \A i \in 1..n : page.nodes[i] = V!Visible(v)[k + i]
    BY <2>2, <2>7 DEF all
  <2>10. \/ page.next # None /\ n = length /\ At(v, page.next, k + length)
         \/ page.next = None /\ (Uncut(v, length) => k + n = AllNodes(v))
    <3>1. CASE rest.next # None
      <4>1. r = remaining /\ At(v, rest.next, f + remaining)
        BY <2>4, <3>1
      <4>2. n = length /\ k + length = f + remaining
        BY <1>1, <2>1, <4>1, SMTT(30) DEF n
      <4> QED  BY <2>2, <3>1, <4>1, <4>2
    <3>2. CASE rest.next = None
      <4>1. Uncut(v, length) => Uncut(v, remaining)
        <5>1. remaining <= length
          BY <1>1, <2>1
        <5>2. Cardinality(HiddenDocs(v)) \in Nat
          BY ShownInOrder
        <5> QED  BY <2>1, <5>1, <5>2, ViewsAxiom DEF Uncut
      <4> QED  BY <2>2, <2>4, <2>6, <3>2, <4>1
    <3> QED  BY <3>1, <3>2
  <2>11. PageFrom(v, k, page, length)
    BY <2>6, <2>8, <2>9, <2>10, PageIs
  <2> QED  BY <2>11 DEF page
<1> QED  BY <1>6, <1>7

\* A page that is asked for by the continuation of the one before it.
LEMMA PageOfView ==
    ASSUME NEW v, V!IsView(v), v.readable, NEW cursor, NEW k, At(v, cursor, k), NEW limit \in Nat
    PROVE  /\ V!PageLength(limit) \in Nat \ {0}
           /\ PageFrom(v, k, V!GetChildren(v, cursor, limit), V!PageLength(limit))
<1> DEFINE length == V!PageLength(limit)
           f == v.folders
<1>1. length \in Nat \ {0}
  BY ViewsAxiom DEF V!PageLength, V!AtMost
<1>2. f \in Nat /\ v.search \in BOOLEAN
  BY ShownInOrder
<1>3. V!Continues(v, cursor) => V!GetChildren(v, cursor, limit) = V!TreeRows(v, cursor, length)
  BY DEF V!GetChildren
<1> HIDE DEF length
<1>4. CASE k \in 0..f /\ cursor = <<"folder", k>>
  BY <1>4, <1>1, FolderPage, <1>3 DEF V!Continues, length
<1>5. CASE ~v.search /\ k - f \in 0..Len(v.docs) /\ k \in Nat /\ cursor = <<"document", k - f>>
  <2>1. V!Continues(v, cursor)
    BY <1>5 DEF V!Continues
  <2>2. V!TreeRows(v, cursor, length) = V!ChildDocuments(v, k - f, length)
    BY <1>5 DEF V!TreeRows
  <2>3. PageFrom(v, f + (k - f), V!ChildDocuments(v, k - f, length), length)
    BY <1>1, <1>5, ChildPage
  <2>4. f + (k - f) = k
    BY <1>2, <1>5
  <2> QED  BY <1>1, <1>3, <2>1, <2>2, <2>3, <2>4 DEF length
<1>6. ASSUME NEW d \in Nat, v.search, k \in Nat, Splits(ShownDocs(v), V!Shown(v), k - f, d),
             k = f => d = 0, cursor = <<"document_after", d>>
      PROVE  V!PageLength(limit) \in Nat \ {0} /\ PageFrom(v, k, V!GetChildren(v, cursor, limit), V!PageLength(limit))
  <2>1. V!Continues(v, cursor)
    BY <1>6 DEF V!Continues
  <2>2. V!TreeRows(v, cursor, length) = V!FoundDocuments(v, d, length)
    BY <1>6 DEF V!TreeRows
  <2> DEFINE c == k - f
  <2>3. f + c = k /\ (c = 0 => d = 0) /\ (length = 0 => c = 0)
    BY <1>1, <1>2, <1>6
  <2>4. Splits(ShownDocs(v), V!Shown(v), c, d)
    BY <1>6
  <2> HIDE DEF c
  <2>5. PageFrom(v, f + c, V!FoundDocuments(v, d, length), length)
    BY <1>1, <1>6, <2>3, <2>4, FoundPage
  <2> QED  BY <1>1, <1>3, <2>1, <2>2, <2>3, <2>5 DEF length
<1> QED  BY <1>4, <1>5, <1>6 DEF At

Nodes == {"folder", "document"} \X Nat

\* What there is to show.
Total(v) == IF v.readable THEN AllNodes(v) ELSE 0

LEMMA VisibleIs ==
    ASSUME NEW v, V!IsView(v)
    PROVE  /\ Total(v) \in Nat /\ Total(v) < v.folders + Len(v.docs) + 1
           /\ v.folders + Len(v.docs) + 1 \in Nat
           /\ V!Visible(v) \in Seq(Nodes) /\ Len(V!Visible(v)) = Total(v)
<1> DEFINE all == V!Visible(v)
<1>1. /\ v.folders \in Nat /\ Len(v.docs) \in Nat /\ AllNodes(v) \in Nat
      /\ AllNodes(v) <= v.folders + Len(v.docs)
  BY ShownInOrder DEF AllNodes
<1>2. Total(v) \in Nat /\ Total(v) < v.folders + Len(v.docs) + 1 /\ v.folders + Len(v.docs) + 1 \in Nat
  BY <1>1 DEF Total
<1>3. CASE v.readable
  <2>1. /\ DOMAIN all = 1..AllNodes(v) /\ Len(all) = AllNodes(v)
        /\ \A k \in 1..AllNodes(v) :
              all[k] = IF k <= v.folders THEN <<"folder", k>> ELSE <<"document", V!Shown(v)[k - v.folders]>>
    BY <1>3, VisibleNodes
  <2>2. ASSUME NEW k \in 1..AllNodes(v) PROVE all[k] \in Nodes
    <3> HIDE DEF all
    <3>1. CASE k <= v.folders
      BY <1>1, <2>1, <3>1 DEF Nodes
    <3>2. CASE ~(k <= v.folders)
      <4> DEFINE j == k - v.folders
      <4>1. j \in 1..Cardinality(ShownDocs(v))
        BY <1>1, <3>2, ShownInOrder DEF AllNodes
      <4>2. V!Shown(v)[j] \in ShownDocs(v)
        <5> HIDE DEF j
        <5> QED  BY <4>1, ShownInOrder DEF InTheirOrder
      <4>3. V!Shown(v)[j] \in Nat
        BY <1>1, <4>2 DEF ShownDocs
      <4>4. all[k] = <<"document", V!Shown(v)[j]>>
        BY <2>1, <3>2
      <4> HIDE DEF j
      <4> QED  BY <4>3, <4>4 DEF Nodes
    <3> QED  BY <3>1, <3>2
  <2>3. all = [k \in 1..AllNodes(v) |-> all[k]]
    <3>1. all = [k \in 1..v.folders + Len(V!Shown(v)) |->
                     IF k <= v.folders THEN <<"folder", k>> ELSE <<"document", V!Shown(v)[k - v.folders]>>]
      BY <1>3 DEF V!Visible
    <3>2. \E x : \E F : x = v.folders + Len(V!Shown(v)) /\ all = [k \in 1..x |-> F[k]]
      <4> DEFINE F == [k \in 1..v.folders + Len(V!Shown(v)) |->
                     IF k <= v.folders THEN <<"folder", k>> ELSE <<"document", V!Shown(v)[k - v.folders]>>]
      <4> QED  BY <3>1
    <3>3. PICK F : all = [k \in DOMAIN all |-> F[k]]
      <4>1. PICK x, F : all = [k \in 1..x |-> F[k]]
        BY <3>2
      <4>2. DOMAIN all = 1..x
        <5> HIDE DEF all
        <5> QED  BY <4>1
      <4> HIDE DEF all
      <4> QED  BY <4>1, <4>2
    <3> HIDE DEF all
    <3> QED  BY <2>1, <3>3
  <2> HIDE DEF all
  <2>4. all \in Seq(Nodes)
    BY <1>1, <2>2, <2>3
  <2> QED  BY <1>2, <1>3, <2>1, <2>4 DEF all, Total
<1>4. CASE ~v.readable
  BY <1>4, <1>2 DEF V!Visible, Total
<1> QED  BY <1>3, <1>4

(* Turning the pages.                                                         *)
Turn(v, limit, before) ==
    LET page == V!GetChildren(v, before.next, limit)
    IN  IF before.next = None THEN before
        ELSE [nodes |-> before.nodes \o page.nodes, next |-> page.next,
              full |-> before.full /\ (page.next # None => Len(page.nodes) = V!PageLength(limit))]

Shelf == [nodes : Seq(Nodes), next : {None} \cup ({"folder", "document", "document_after"} \X Nat), full : BOOLEAN]

JoinedTo(v, limit, t) ==
    /\ t.full
    /\ Len(t.nodes) <= Total(v)
    /\ \A i \in 1..Len(t.nodes) : t.nodes[i] = V!Visible(v)[i]
    /\ t.next # None => IF v.readable THEN At(v, t.next, Len(t.nodes)) ELSE TRUE
    /\ t.next = None /\ Uncut(v, V!PageLength(limit)) => Len(t.nodes) = Total(v)

LEMMA Cursors ==
    ASSUME NEW v, V!IsView(v), NEW cursor, NEW k, At(v, cursor, k)
    PROVE  cursor \in {"folder", "document", "document_after"} \X Nat
<1>1. v.folders \in Nat /\ Len(v.docs) \in Nat
  BY ShownInOrder
<1> QED  BY <1>1 DEF At

LEMMA TurnJoins ==
    ASSUME NEW v, V!IsView(v), NEW limit \in Nat, NEW t \in Shelf, JoinedTo(v, limit, t)
    PROVE  LET u == Turn(v, limit, t)
           IN  /\ u \in Shelf /\ JoinedTo(v, limit, u)
               /\ u.next # None => t.next # None /\ Len(u.nodes) >= Len(t.nodes) + 1
<1> DEFINE u == Turn(v, limit, t)
           page == V!GetChildren(v, t.next, limit)
           length == V!PageLength(limit)
           k == Len(t.nodes)
<1>0. t.nodes \in Seq(Nodes) /\ k \in Nat /\ t.full = TRUE /\ k <= Total(v) /\ Total(v) \in Nat
  BY VisibleIs DEF Shelf, JoinedTo
<1>1. CASE t.next = None
  BY <1>1 DEF Turn
<1>2. CASE t.next # None /\ v.readable
  <2>1. At(v, t.next, k) /\ Total(v) = AllNodes(v)
    BY <1>2 DEF JoinedTo, Total
  <2>2. length \in Nat \ {0} /\ PageFrom(v, k, page, length)
    BY <1>2, <2>1, PageOfView
  <2> HIDE DEF page, length
  <2>3. u = [nodes |-> t.nodes \o page.nodes, next |-> page.next,
             full |-> t.full /\ (page.next # None => Len(page.nodes) = length)]
    BY <1>2 DEF Turn, page, length
  <2> HIDE DEF u
  <2> DEFINE r == Len(page.nodes)
  <2>4. /\ r \in 0..length /\ page.nodes \in Seq(Nodes) /\ k + r <= AllNodes(v)
        /\ \A i \in 1..r : page.nodes[i] = V!Visible(v)[k + i]
        /\ \/ page.next # None /\ r = length /\ At(v, page.next, k + length)
           \/ page.next = None /\ (Uncut(v, length) => k + r = AllNodes(v))
    BY <2>2 DEF PageFrom, Nodes
  <2> DEFINE a == t.nodes
             b == page.nodes
  <2>5. a \in Seq(Nodes) /\ b \in Seq(Nodes) /\ u.nodes = a \o b /\ Len(a) = k /\ Len(b) = r
    BY <1>0, <2>3, <2>4
  <2>6. \A i \in 1..k : a[i] = V!Visible(v)[i]
    BY DEF JoinedTo
  <2>7. \A i \in 1..r : b[i] = V!Visible(v)[k + i]
    BY <2>4
  <2> HIDE DEF a, b, k, r
  <2>8. /\ u.nodes \in Seq(Nodes) /\ Len(u.nodes) = k + r
        /\ \A i \in 1..k : u.nodes[i] = a[i]
        /\ \A i \in 1..r : u.nodes[k + i] = b[i]
    <3>1. /\ a \o b \in Seq(Nodes) /\ Len(a \o b) = Len(a) + Len(b)
          /\ \A i \in 1..Len(a) : (a \o b)[i] = a[i]
          /\ \A i \in 1..Len(b) : (a \o b)[Len(a) + i] = b[i]
      <4>1. a \in Seq(Nodes) /\ b \in Seq(Nodes)
        BY <2>5
      <4> QED  BY <4>1, Joined
    <3> QED  BY <2>5, <3>1
  <2>9. \A i \in 1..(k + r) : u.nodes[i] = V!Visible(v)[i]
    <3> SUFFICES ASSUME NEW i \in 1..(k + r) PROVE u.nodes[i] = V!Visible(v)[i]
      OBVIOUS
    <3>0. r \in Nat
      BY <2>2, <2>4
    <3>1. CASE i <= k
      BY <1>0, <2>6, <2>8, <3>0, <3>1
    <3>2. CASE ~(i <= k)
      <4> DEFINE j == i - k
      <4>1. j \in 1..r /\ k + j = i
        BY <1>0, <3>0, <3>2
      <4> HIDE DEF j
      <4> QED  BY <2>7, <2>8, <4>1
    <3> QED  BY <3>1, <3>2
  <2>10. u.full = TRUE /\ u.next = page.next
    BY <2>4, <1>0, <2>3 DEF r
  <2>11. u.next \in {None} \cup ({"folder", "document", "document_after"} \X Nat)
    BY <2>4, <2>10, Cursors
  <2>12. u \in Shelf
    BY <2>3, <2>8, <2>10, <2>11 DEF Shelf
  <2>13. u.next # None => At(v, u.next, k + r) /\ k + r >= k + 1
    <3> SUFFICES ASSUME u.next # None PROVE At(v, u.next, k + r) /\ k + r >= k + 1
      OBVIOUS
    <3>1. r = length /\ At(v, page.next, k + length)
      BY <2>4, <2>10
    <3>2. k + r >= k + 1
      BY <1>0, <2>2, <3>1
    <3> QED  BY <2>10, <3>1, <3>2
  <2>14. u.next = None /\ Uncut(v, length) => k + r = AllNodes(v)
    BY <2>4, <2>10
  <2>15. JoinedTo(v, limit, u)
    BY <2>1, <2>4, <2>8, <2>10, <2>9, <2>13, <2>14, <1>2 DEF JoinedTo, length
  <2>16. u.next # None => Len(u.nodes) >= k + 1
    BY <2>8, <2>13
  <2> QED  BY <1>2, <2>12, <2>15, <2>16 DEF u, k
<1>3. CASE t.next # None /\ ~v.readable
  <2>1. Total(v) = 0 /\ k = 0
    BY <1>0, <1>3 DEF Total
  <2>2. t.nodes = <<>>
    BY <1>0, <2>1
  <2>3. page = [nodes |-> <<>>, next |-> None]
    BY <1>3 DEF V!GetChildren
  <2>4. u = [nodes |-> t.nodes \o page.nodes, next |-> page.next,
             full |-> t.full /\ (page.next # None => Len(page.nodes) = length)]
    BY <1>3 DEF Turn
  <2>5. u = [nodes |-> <<>>, next |-> None, full |-> TRUE]
    <3> HIDE DEF page, u, k, length
    <3>1. page.nodes = <<>> /\ page.next = None /\ <<>> \o <<>> = <<>>
      BY <2>3
    <3>2. (page.next # None => Len(page.nodes) = length) = TRUE
      BY <3>1
    <3>3. t.nodes \o page.nodes = <<>>
      BY <2>2, <3>1
    <3> QED  BY <1>0, <2>4, <3>1, <3>2, <3>3
  <2> HIDE DEF u
  <2>6. u \in Shelf /\ u.next = None /\ u.full /\ Len(u.nodes) = 0
    BY <2>5 DEF Shelf
  <2>7. JoinedTo(v, limit, u)
    BY <2>1, <2>6 DEF JoinedTo
  <2> QED  BY <2>6, <2>7 DEF u
<1> QED  BY <1>1, <1>2, <1>3

\* The turned pages are the ones reached by turning from the first.
LEMMA TurnedJoins ==
    ASSUME NEW v, V!IsView(v), NEW limit \in Nat
    PROVE  LET t == V!Turned(v, limit)
           IN  t \in Shelf /\ JoinedTo(v, limit, t) /\ t.next = None
<1> DEFINE K == v.folders + Len(v.docs) + 1
           init == [nodes |-> <<>>, next |-> V!First, full |-> TRUE]
           X == {t \in Shelf : JoinedTo(v, limit, t)}
           G == [t \in X |-> Turn(v, limit, t)]
           Def(g) == g = [n \in 0..K |-> IF n = 0 THEN init
                                         ELSE LET before == g[n - 1]
                                                  page == V!GetChildren(v, before.next, limit)
                                              IN  IF before.next = None THEN before
                                                  ELSE [nodes |-> before.nodes \o page.nodes, next |-> page.next,
                                                        full |-> before.full /\ (page.next # None => Len(page.nodes) = V!PageLength(limit))]]
           turned == CHOOSE g : Def(g)
<1>1. K \in Nat /\ Total(v) < K /\ Total(v) \in Nat /\ 0 \in 0..v.folders /\ v.search \in BOOLEAN
  BY VisibleIs, ShownInOrder
<1>2. V!Turned(v, limit) = turned[K]
  BY DEF V!Turned
<1>3. init \in X
  <2>1. init \in Shelf
    BY DEF V!First, Shelf
  <2>2. init.next = <<"folder", 0>> /\ init.next # None /\ init.full /\ Len(init.nodes) = 0
    BY ViewsAxiom DEF V!First
  <2> HIDE DEF init
  <2>3. At(v, init.next, 0)
    BY <1>1, <2>2 DEF At
  <2>4. JoinedTo(v, limit, init)
    BY <1>1, <2>2, <2>3 DEF JoinedTo
  <2> QED  BY <2>1, <2>4
<1> HIDE DEF init, K
<1>4. \A t \in X : Turn(v, limit, t) \in X
  BY TurnJoins
<1>5. G \in [X -> X]
  BY <1>4
<1>6. PICK f \in [0..K -> X] : f[0] = init /\ \A n \in 1..K : f[n] = G[f[n - 1]]
  <2> HIDE DEF X, G, Def, turned
  <2>1. K \in Nat
    BY <1>1
  <2>2. \E f : Iterated(f, X, init, G, K)
    BY <1>3, <1>5, <2>1, Iterates
  <2> QED  BY <2>2 DEF Iterated
<1>7. \A n \in 1..K : f[n] = Turn(v, limit, f[n - 1])
  <2>1. \A n \in 1..K : f[n - 1] \in X
    BY <1>1, <1>6
  <2> HIDE DEF X
  <2> QED  BY <1>6, <2>1, Zenon
<1> HIDE DEF G, X
<1>8. Def(f)
  <2>1. \A n \in 0..K : n # 0 => n \in 1..K
    BY <1>1
  <2>2. \A n \in 0..K : f[n] = IF n = 0 THEN init ELSE Turn(v, limit, f[n - 1])
    BY <1>6, <1>7, <2>1
  <2>3. f = [n \in 0..K |-> IF n = 0 THEN init ELSE Turn(v, limit, f[n - 1])]
    BY <1>6, <2>2
  <2> QED  BY <2>3, Zenon DEF Turn
<1>9. Def(turned)
  <2> HIDE DEF Def
  <2> QED  BY <1>8, SMTT(30)
<1> HIDE DEF turned
<1>10. turned[0] = init /\ \A n \in 1..K : turned[n] = Turn(v, limit, turned[n - 1])
  <2>1. 0 \in 0..K /\ \A n \in 1..K : n \in 0..K /\ n # 0
    BY <1>1
  <2> QED  BY <1>9, <2>1, Zenon DEF Turn
<1> HIDE DEF Def
<1> DEFINE I == {n \in Nat : n <= K => turned[n] \in X /\ (turned[n].next # None => n <= Len(turned[n].nodes))}
<1>11. 0 \in I
  BY <1>3, <1>10 DEF X, Shelf
<1>12. ASSUME NEW n \in Nat, n \in I PROVE n + 1 \in I
  <2> SUFFICES ASSUME n + 1 <= K
               PROVE  turned[n + 1] \in X /\ (turned[n + 1].next # None => n + 1 <= Len(turned[n + 1].nodes))
    OBVIOUS
  <2> DEFINE t == turned[n]
             u == turned[n + 1]
  <2>1. t \in Shelf /\ JoinedTo(v, limit, t) /\ (t.next # None => n <= Len(t.nodes))
    BY <1>1, <1>12 DEF X
  <2>2. u = Turn(v, limit, t)
    BY <1>1, <1>10
  <2> HIDE DEF t, u
  <2>3. /\ u \in Shelf /\ JoinedTo(v, limit, u)
        /\ u.next # None => t.next # None /\ Len(u.nodes) >= Len(t.nodes) + 1
    BY <2>1, <2>2, TurnJoins
  <2>4. Len(t.nodes) \in Nat /\ Len(u.nodes) \in Nat
    BY <2>1, <2>3 DEF Shelf
  <2>5. u \in X /\ (u.next # None => n + 1 <= Len(u.nodes))
    BY <2>1, <2>3, <2>4 DEF X
  <2> QED  BY <2>5 DEF u
<1> HIDE DEF I
<1>13. K \in I
  BY <1>1, <1>11, <1>12, Induction
<1> DEFINE t == turned[K]
<1>14. t \in Shelf /\ JoinedTo(v, limit, t) /\ (t.next # None => K <= Len(t.nodes))
  BY <1>1, <1>13 DEF I, X
<1> HIDE DEF t
<1>15. t.next = None
  BY <1>14, <1>1 DEF JoinedTo, Shelf
<1> QED  BY <1>2, <1>14, <1>15 DEF t

LEMMA TreePagesJoinSound ==
    ASSUME NEW v \in Views, NEW limit \in Nat
    PROVE  V!TreePagesJoin(v, limit)
<1>0. V!IsView(v)
  BY ListsAssumption
<1> DEFINE t == V!Turned(v, limit)
           visible == V!Visible(v)
           k == Len(t.nodes)
<1>1. t \in Shelf /\ JoinedTo(v, limit, t) /\ t.next = None
  BY <1>0, TurnedJoins
<1>2. visible \in Seq(Nodes) /\ Len(visible) = Total(v) /\ Total(v) \in Nat
  BY <1>0, VisibleIs
<1> HIDE DEF t, visible
<1>3. /\ t.full /\ t.nodes \in Seq(Nodes) /\ k \in Nat /\ k <= Total(v)
      /\ \A i \in 1..k : t.nodes[i] = visible[i]
      /\ Uncut(v, V!PageLength(limit)) => k = Total(v)
  BY <1>1 DEF JoinedTo, Shelf, visible
<1>4. t.nodes = V!Take(visible, k)
  <2> DEFINE a == t.nodes
             b == V!Take(visible, k)
  <2>1. b \in Seq(Nodes) /\ Len(b) = k /\ \A i \in 1..k : b[i] = visible[i]
    BY <1>2, <1>3, TakeSome
  <2>2. a \in Seq(Nodes) /\ Len(a) = Len(b) /\ \A i \in 1..Len(a) : a[i] = b[i]
    BY <1>3, <2>1
  <2> HIDE DEF a, b
  <2>3. a = b
    BY <2>1, <2>2
  <2> QED  BY <2>3 DEF a, b
<1>5. ASSUME Uncut(v, V!PageLength(limit)) PROVE t.nodes = visible
  <2> DEFINE a == t.nodes
  <2>1. a \in Seq(Nodes) /\ Len(a) = Len(visible) /\ \A i \in 1..Len(a) : a[i] = visible[i]
    BY <1>2, <1>3, <1>5
  <2> HIDE DEF a
  <2>2. a = visible
    BY <1>2, <2>1
  <2> QED  BY <2>2 DEF a
<1>6. ~v.search \/ V!Cardinality({i \in DOMAIN v.docs : ~v.docs[i]}) + V!PageLength(limit) < ScanLimit
      => Uncut(v, V!PageLength(limit))
  BY <1>0, ShownInOrder, VCardinality DEF HiddenDocs, Uncut
<1>7. /\ t.next = None /\ t.full /\ t.nodes = V!Take(visible, Len(t.nodes))
      /\ ~v.search \/ V!Cardinality({i \in DOMAIN v.docs : ~v.docs[i]}) + V!PageLength(limit) < ScanLimit
         => t.nodes = visible
  BY <1>1, <1>3, <1>4, <1>5, <1>6
<1> QED  BY <1>7 DEF V!TreePagesJoin, t, visible

(* Panels.                                                                    *)

\* The beginning of a sequence.
Upto(q, n) == SubSeq(q, 1, n)

LEMMA Beginnings ==
    ASSUME NEW q \in Seq(Nat)
    PROVE  /\ Len(q) \in Nat /\ Upto(q, Len(q)) = q
           /\ \A n \in 0..Len(q) : Upto(q, n) \in Seq(Nat) /\ Len(Upto(q, n)) = n
           /\ \A n \in 0..Len(q) : \A k \in 0..n : Upto(Upto(q, n), k) = Upto(q, k)
<1>1. Len(q) \in Nat
  OBVIOUS
<1>2. ASSUME NEW n \in 0..Len(q)
      PROVE  Upto(q, n) \in Seq(Nat) /\ Len(Upto(q, n)) = n /\ \A i \in 1..n : Upto(q, n)[i] = q[i]
  BY DEF Upto
<1>3. Upto(q, Len(q)) = q
  BY DEF Upto
<1>4. ASSUME NEW n \in 0..Len(q), NEW k \in 0..n PROVE Upto(Upto(q, n), k) = Upto(q, k)
  <2> DEFINE r == Upto(q, n)
             a == Upto(r, k)
             b == Upto(q, k)
  <2>0. k \in 0..Len(q) /\ k \in Nat /\ n \in Nat
    OBVIOUS
  <2>1. r \in Seq(Nat) /\ Len(r) = n /\ \A i \in 1..n : r[i] = q[i]
    BY <1>2
  <2>2. b \in Seq(Nat) /\ Len(b) = k /\ \A i \in 1..k : b[i] = q[i]
    BY <1>2, <2>0
  <2> HIDE DEF r, b
  <2>3. a \in Seq(Nat) /\ Len(a) = k /\ \A i \in 1..k : a[i] = r[i]
    BY <2>1 DEF Upto
  <2> HIDE DEF a
  <2>4. \A i \in 1..k : a[i] = b[i]
    <3> SUFFICES ASSUME NEW i \in 1..k PROVE a[i] = b[i]
      OBVIOUS
    <3>1. i \in 1..n
      BY <2>0
    <3> QED  BY <2>1, <2>2, <2>3, <3>1
  <2>5. a = b
    BY <2>2, <2>3, <2>4
  <2> QED  BY <2>5 DEF a, b, r
<1> QED  BY <1>1, <1>2, <1>3, <1>4

LEMMA PrefixIs == ASSUME NEW p, NEW q PROVE V!Prefix(p, q) <=> Len(p) <= Len(q) /\ Upto(q, Len(p)) = p
  BY DEF V!Prefix, Upto

LEMMA PanelFolders ==
    ASSUME NEW fs, V!IsPanel(fs)
    PROVE  /\ fs.folders \subseteq Seq(Nat) /\ fs.readable \subseteq fs.folders /\ IsFiniteSet(fs.folders)
           /\ \A p \in fs.folders : \A n \in 0..Len(p) : Upto(p, n) \in fs.folders
<1>1. /\ fs.folders \subseteq Seq(Nat) /\ fs.readable \subseteq fs.folders /\ IsFiniteSet(fs.folders)
      /\ \A p \in fs.folders : p # <<>> => Upto(p, Len(p) - 1) \in fs.folders
  BY VFinite DEF V!IsPanel, Upto
<1>2. ASSUME NEW p \in fs.folders, NEW n \in 0..Len(p) PROVE Upto(p, n) \in fs.folders
  <2>1. p \in Seq(Nat) /\ Len(p) \in Nat
    BY <1>1
  <2> DEFINE T == {k \in Nat : k <= Len(p) => Upto(p, Len(p) - k) \in fs.folders}
  <2>2. 0 \in T
    BY <2>1, Beginnings
  <2>3. ASSUME NEW k \in Nat, k \in T PROVE k + 1 \in T
    <3> SUFFICES ASSUME k + 1 <= Len(p) PROVE Upto(p, Len(p) - (k + 1)) \in fs.folders
      OBVIOUS
    <3> DEFINE m == Len(p) - k
               q == Upto(p, m)
    <3>1. m \in 0..Len(p) /\ m # 0 /\ m - 1 \in 0..m /\ Len(p) - (k + 1) = m - 1
      BY <2>1
    <3>2. q \in fs.folders
      BY <2>1, <2>3
    <3> HIDE DEF m
    <3>3. Len(q) = m /\ Upto(q, m - 1) = Upto(p, m - 1)
      BY <2>1, <3>1, Beginnings
    <3> HIDE DEF q
    <3>4. q # <<>>
      BY <3>1, <3>3
    <3>5. Upto(q, m - 1) \in fs.folders
      BY <1>1, <3>2, <3>3, <3>4
    <3> QED  BY <3>1, <3>3, <3>5
  <2> HIDE DEF T
  <2>4. Len(p) - n \in T /\ Len(p) - n <= Len(p) /\ Len(p) - (Len(p) - n) = n
    <3>1. Nat \subseteq T
      BY <2>2, <2>3, Induction
    <3>2. Len(p) - n \in Nat /\ Len(p) - n <= Len(p) /\ Len(p) - (Len(p) - n) = n
      BY <2>1
    <3> QED  BY <3>1, <3>2
  <2> QED  BY <2>4 DEF T
<1> QED  BY <1>1, <1>2

LEMMA BreadcrumbsLead ==
    ASSUME NEW fs, V!IsPanel(fs), NEW p \in fs.folders, NEW q \in fs.folders
    PROVE  p \in V!Breadcrumbs(fs, q) <=> V!Prefix(p, q)
<1>1. p \in Seq(Nat) /\ q \in Seq(Nat)
  BY PanelFolders
<1>2. Len(p) \in Nat /\ Len(q) \in Nat /\ \A n \in 0..Len(q) : Len(Upto(q, n)) = n
  BY <1>1, Beginnings
<1>3. p \in V!Breadcrumbs(fs, q) <=> \E n \in 0..Len(q) : p = Upto(q, n)
  BY DEF V!Breadcrumbs, Upto
<1>4. ASSUME NEW n \in 0..Len(q), p = Upto(q, n) PROVE Len(p) <= Len(q) /\ Upto(q, Len(p)) = p
  BY <1>2, <1>4
<1>5. ASSUME Len(p) <= Len(q), Upto(q, Len(p)) = p PROVE \E n \in 0..Len(q) : p = Upto(q, n)
  BY <1>2, <1>5
<1> QED  BY <1>3, <1>4, <1>5, PrefixIs

\* What the tree shows on the n-th level below root.
OnLevel(fs, root, n) ==
    {p \in fs.folders : /\ V!Prefix(root, p) /\ Len(p) = Len(root) + n
                        /\ \A k \in Len(root)..Len(p) : Upto(p, k) \in fs.readable}

LEMMA RootLevel ==
    ASSUME NEW fs, V!IsPanel(fs), NEW root \in fs.folders
    PROVE  {root} \cap fs.readable = OnLevel(fs, root, 0)
<1>1. root \in Seq(Nat) /\ Len(root) \in Nat /\ Upto(root, Len(root)) = root
  BY PanelFolders, Beginnings
<1>2. root \in fs.readable => root \in OnLevel(fs, root, 0)
  <2>1. \A k \in Len(root)..Len(root) : k = Len(root)
    BY <1>1
  <2> QED  BY <1>1, <2>1, PrefixIs DEF OnLevel
<1>3. ASSUME NEW p \in OnLevel(fs, root, 0) PROVE p = root /\ p \in fs.readable
  <2>1. /\ p \in fs.folders /\ Upto(p, Len(root)) = root /\ Len(p) = Len(root) + 0
        /\ \A k \in Len(root)..Len(p) : Upto(p, k) \in fs.readable
    BY PrefixIs DEF OnLevel
  <2>2. Len(p) = Len(root) /\ Upto(p, Len(p)) = p
    BY <2>1, PanelFolders, <1>1, Beginnings
  <2>3. p = root /\ Len(root) \in Len(root)..Len(p)
    <3> HIDE DEF OnLevel
    <3>1. p = root
      BY <2>1, <2>2
    <3> QED  BY <1>1, <3>1
  <2> QED  BY <2>1, <2>3
<1> QED  BY <1>2, <1>3

LEMMA NextLevel ==
    ASSUME NEW fs, V!IsPanel(fs), NEW root \in fs.folders, NEW n \in Nat
    PROVE  V!Descend(fs, OnLevel(fs, root, n)) = OnLevel(fs, root, n + 1)
<1> DEFINE L == OnLevel(fs, root, n)
           M == OnLevel(fs, root, n + 1)
           r == Len(root)
<1>1. root \in Seq(Nat) /\ r \in Nat /\ fs.folders \subseteq Seq(Nat) /\ fs.readable \subseteq fs.folders
  BY PanelFolders
<1>2. ASSUME NEW q \in V!Descend(fs, L) PROVE q \in M
  <2>1. PICK p \in L : q \in V!ChildrenOf(fs, p) \cap fs.readable
    BY DEF V!Descend
  <2>2. /\ q \in fs.folders /\ q \in fs.readable /\ Len(q) = Len(p) + 1 /\ Upto(q, Len(p)) = p
    BY <2>1, PrefixIs DEF V!ChildrenOf
  <2>3. /\ p \in fs.folders /\ Upto(p, r) = root /\ Len(p) = r + n
        /\ \A k \in r..Len(p) : Upto(p, k) \in fs.readable
    BY PrefixIs DEF OnLevel
  <2> DEFINE m == Len(p)
  <2>4. m \in Nat /\ m = r + n /\ Len(q) = m + 1 /\ q \in Seq(Nat) /\ m \in 0..Len(q)
    BY <1>1, <2>2, <2>3
  <2>5. \A k \in 0..m : Upto(p, k) = Upto(q, k)
    BY <2>2, <2>4, Beginnings
  <2>6. Upto(q, r) = root /\ Upto(q, Len(q)) = q
    <3>1. r \in 0..m
      BY <1>1, <2>4
    <3> QED  BY <2>3, <2>4, <2>5, <3>1, Beginnings
  <2>7. ASSUME NEW k \in r..Len(q) PROVE Upto(q, k) \in fs.readable
    <3>1. CASE k = Len(q)
      BY <2>2, <2>6, <3>1
    <3>2. CASE k # Len(q)
      <4>1. k \in r..m /\ k \in 0..m
        BY <1>1, <2>4, <3>2
      <4> QED  BY <2>3, <2>5, <4>1
    <3> QED  BY <3>1, <3>2
  <2>8. r <= Len(q) /\ Len(q) = r + (n + 1)
    BY <1>1, <2>4
  <2> QED  BY <2>2, <2>6, <2>7, <2>8, PrefixIs DEF OnLevel
<1>3. ASSUME NEW q \in M PROVE q \in V!Descend(fs, L)
  <2>1. /\ q \in fs.folders /\ Upto(q, r) = root /\ Len(q) = r + (n + 1)
        /\ \A k \in r..Len(q) : Upto(q, k) \in fs.readable
    BY PrefixIs DEF OnLevel
  <2> DEFINE m == r + n
             p == Upto(q, m)
  <2>2. m \in Nat /\ r <= m /\ Len(q) = m + 1 /\ q \in Seq(Nat) /\ m \in 0..Len(q) /\ m \in r..Len(q) /\ Len(q) \in r..Len(q)
        /\ r \in 0..m
    BY <1>1, <2>1
  <2> HIDE DEF m
  <2>3. p \in fs.readable /\ p \in fs.folders /\ Len(p) = m /\ q \in fs.readable
    BY <1>1, <2>1, <2>2, Beginnings
  <2>4. \A k \in 0..m : Upto(p, k) = Upto(q, k)
    BY <2>2, Beginnings
  <2>5. Upto(p, r) = root
    BY <2>1, <2>2, <2>4
  <2>6. \A k \in r..Len(p) : Upto(p, k) \in fs.readable
    <3> SUFFICES ASSUME NEW k \in r..m PROVE Upto(p, k) \in fs.readable
      BY <2>3
    <3>1. k \in 0..m /\ k \in r..Len(q)
      BY <1>1, <2>2
    <3> QED  BY <2>1, <2>4, <3>1
  <2>7. p \in L
    <3>1. V!Prefix(root, p) /\ Len(p) = r + n
      BY <2>2, <2>3, <2>5, PrefixIs DEF m
    <3> HIDE DEF p
    <3> QED  BY <2>3, <2>6, <3>1 DEF OnLevel
  <2>8. q \in V!ChildrenOf(fs, p)
    <3>1. V!Prefix(p, q)
      BY <2>2, <2>3, PrefixIs
    <3> QED  BY <2>1, <2>2, <2>3, <3>1 DEF V!ChildrenOf
  <2> HIDE DEF p, L
  <2> QED  BY <2>3, <2>7, <2>8 DEF V!Descend
<1> QED  BY <1>2, <1>3

LEMMA TreeShowsReadable ==
    ASSUME NEW fs, V!IsPanel(fs), NEW root \in fs.folders, NEW depth \in Nat
    PROVE  V!TreeOf(fs, root, depth) =
               {p \in fs.folders :
                   /\ V!Prefix(root, p) /\ Len(p) - Len(root) <= depth
                   /\ \A n \in Len(root)..Len(p) : SubSeq(p, 1, n) \in fs.readable}
<1> DEFINE f == [n \in 0..depth |-> OnLevel(fs, root, n)]
           Def(g) == g = [n \in 0..depth |-> IF n = 0 THEN {root} \cap fs.readable ELSE V!Descend(fs, g[n - 1])]
           level == CHOOSE g : Def(g)
<1>1. V!TreeOf(fs, root, depth) = UNION {level[n] : n \in 0..depth}
  BY DEF V!TreeOf
<1>2. Def(f)
  <2>1. \A n \in 0..depth : f[n] = IF n = 0 THEN {root} \cap fs.readable ELSE V!Descend(fs, f[n - 1])
    <3> SUFFICES ASSUME NEW n \in 0..depth
                 PROVE  f[n] = IF n = 0 THEN {root} \cap fs.readable ELSE V!Descend(fs, f[n - 1])
      OBVIOUS
    <3>1. CASE n = 0
      BY <3>1, RootLevel
    <3>2. CASE n # 0
      <4> DEFINE m == n - 1
      <4>1. m \in Nat /\ m \in 0..depth /\ n = m + 1
        BY <3>2
      <4> HIDE DEF m
      <4>2. f[m] = OnLevel(fs, root, m) /\ f[n] = OnLevel(fs, root, m + 1)
        BY <4>1
      <4>3. V!Descend(fs, f[m]) = f[n]
        BY <4>1, <4>2, NextLevel
      <4> QED  BY <3>2, <4>3 DEF m
    <3> QED  BY <3>1, <3>2
  <2>2. f = [n \in 0..depth |-> f[n]]
    OBVIOUS
  <2> HIDE DEF f
  <2> QED  BY <2>1, <2>2
<1>3. Def(level)
  <2> HIDE DEF Def, f
  <2> QED  BY <1>2
<1> HIDE DEF level
<1>4. /\ level[0] = {root} \cap fs.readable
      /\ \A n \in 1..depth : level[n] = V!Descend(fs, level[n - 1])
  <2>1. 0 \in 0..depth /\ \A n \in 1..depth : n \in 0..depth /\ n # 0
    OBVIOUS
  <2> QED  BY <1>3, <2>1
<1> HIDE DEF Def, f
<1> DEFINE T == {n \in Nat : n <= depth => level[n] = OnLevel(fs, root, n)}
<1>5. 0 \in T
  BY <1>4, RootLevel
<1>6. ASSUME NEW n \in Nat, n \in T PROVE n + 1 \in T
  <2> SUFFICES ASSUME n + 1 <= depth PROVE level[n + 1] = OnLevel(fs, root, n + 1)
    OBVIOUS
  <2>1. n + 1 \in 1..depth /\ (n + 1) - 1 = n /\ level[n] = OnLevel(fs, root, n)
    BY <1>6
  <2> QED  BY <1>4, <2>1, NextLevel
<1> HIDE DEF T
<1>7. \A n \in 0..depth : level[n] = OnLevel(fs, root, n)
  <2>1. \A n \in 0..depth : n \in T
    BY <1>5, <1>6, Induction
  <2> QED  BY <2>1 DEF T
<1> DEFINE all == {p \in fs.folders :
                   /\ V!Prefix(root, p) /\ Len(p) - Len(root) <= depth
                   /\ \A n \in Len(root)..Len(p) : Upto(p, n) \in fs.readable}
<1>8. Len(root) \in Nat /\ \A p \in fs.folders : Len(p) \in Nat
  BY PanelFolders, Beginnings
<1>9. ASSUME NEW p, NEW n \in 0..depth, p \in OnLevel(fs, root, n) PROVE p \in all
  BY <1>8, <1>9 DEF OnLevel
<1>10. ASSUME NEW p \in all PROVE \E n \in 0..depth : p \in OnLevel(fs, root, n)
  <2> DEFINE n == Len(p) - Len(root)
  <2>1. Len(root) <= Len(p) /\ Len(p) \in Nat
    BY <1>8, PrefixIs
  <2>2. n \in 0..depth /\ Len(p) = Len(root) + n
    BY <1>8, <2>1
  <2>3. p \in OnLevel(fs, root, n)
    BY <2>2 DEF OnLevel
  <2> HIDE DEF n
  <2> QED  BY <2>2, <2>3
<1>11. UNION {level[n] : n \in 0..depth} = all
  BY <1>7, <1>9, <1>10
<1> QED  BY <1>1, <1>11 DEF Upto

\* The sum of the sizes of sets that share nothing is the size of their union.
AllOf(B, s) == UNION {B[x] : x \in s}

SizesApart(S, B, F) ==
    /\ \A x \in S : IsFiniteSet(B[x]) /\ F[x] = Cardinality(B[x])
    /\ \A x, y \in S : x # y => B[x] \cap B[y] = {}

SumsUp(S, F, C, g) ==
    /\ \A s \in SUBSET S : s # {} => C[s] \in s
    /\ \A s \in SUBSET S : g[s] = SumRule(g, F, C, s)

LEMMA SumOfSizes ==
    ASSUME NEW S, IsFiniteSet(S), NEW B, NEW F, SizesApart(S, B, F), NEW C, NEW g, SumsUp(S, F, C, g)
    PROVE  \A s \in SUBSET S : IsFiniteSet(AllOf(B, s)) /\ g[s] = Cardinality(AllOf(B, s))
<1> DEFINE All(s) == AllOf(B, s)
           K == {k \in Nat : \A s \in SUBSET S : Cardinality(s) <= k =>
                                IsFiniteSet(All(s)) /\ g[s] = Cardinality(All(s))}
<1>0. /\ \A x \in S : IsFiniteSet(B[x]) /\ F[x] = Cardinality(B[x])
      /\ \A x, y \in S : x # y => B[x] \cap B[y] = {}
      /\ \A s \in SUBSET S : s # {} => C[s] \in s
      /\ \A s \in SUBSET S : g[s] = SumRule(g, F, C, s)
  BY DEF SizesApart, SumsUp
<1>1. ASSUME NEW s, s = {} PROVE IsFiniteSet(All(s)) /\ g[s] = Cardinality(All(s))
  <2>1. All(s) = {} /\ s \in SUBSET S
    BY <1>1 DEF AllOf
  <2>2. g[s] = 0
    BY <1>0, <1>1, <2>1 DEF SumRule
  <2> QED  BY <2>1, <2>2, FS_EmptySet
<1>2. 0 \in K
  <2>1. ASSUME NEW s \in SUBSET S, Cardinality(s) <= 0 PROVE s = {}
    BY <2>1, LessOne
  <2> HIDE DEF All
  <2> QED  BY <1>1, <2>1
<1>3. ASSUME NEW k \in Nat, k \in K PROVE k + 1 \in K
  <2> SUFFICES ASSUME NEW s \in SUBSET S, Cardinality(s) <= k + 1
               PROVE  IsFiniteSet(All(s)) /\ g[s] = Cardinality(All(s))
    OBVIOUS
  <2> SUFFICES ASSUME s # {} PROVE IsFiniteSet(All(s)) /\ g[s] = Cardinality(All(s))
    BY <1>1
  <2> DEFINE x == C[s]
             rest == s \ {x}
  <2>1. x \in s /\ x \in S /\ rest \in SUBSET S /\ Cardinality(rest) <= k
    <3>1. x \in s
      BY <1>0
    <3>2. rest \in SUBSET S /\ Cardinality(rest) = Cardinality(s) - 1 /\ Cardinality(s) \in Nat
      <4> HIDE DEF x
      <4> QED  BY <3>1, LessOne
    <3> HIDE DEF x, rest
    <3> QED  BY <3>1, <3>2
  <2>2. IsFiniteSet(All(rest)) /\ g[rest] = Cardinality(All(rest))
    <3> HIDE DEF All, rest
    <3> QED  BY <1>3, <2>1
  <2>3. g[s] = Cardinality(B[x]) + g[rest]
    BY <1>0, <2>1 DEF SumRule
  <2>4. All(s) = B[x] \cup All(rest) /\ B[x] \cap All(rest) = {} /\ IsFiniteSet(B[x])
    BY <2>1, <1>0 DEF AllOf
  <2> HIDE DEF x, rest, All
  <2>5. IsFiniteSet(All(s)) /\ Cardinality(All(s)) = Cardinality(B[x]) + Cardinality(All(rest)) - Cardinality(B[x] \cap All(rest))
    BY <2>2, <2>4, FS_Union
  <2>6. Cardinality(B[x] \cap All(rest)) = 0
    BY <2>4, FS_EmptySet
  <2>7. Cardinality(B[x]) \in Nat /\ Cardinality(All(rest)) \in Nat
    BY <2>2, <2>4, FS_CardinalityType
  <2> QED  BY <2>2, <2>3, <2>5, <2>6, <2>7
<1> HIDE DEF K, All
<1>4. Nat \subseteq K
  BY <1>2, <1>3, Induction
<1>5. ASSUME NEW s \in SUBSET S PROVE IsFiniteSet(All(s)) /\ g[s] = Cardinality(All(s))
  BY <1>4, LessOne DEF K
<1> QED  BY <1>5 DEF All

\* What lies below a folder, and which of it the user can read.
Beneath(fs, p) == {q \in fs.folders \cap fs.readable : q # <<>> /\ V!Prefix(p, SubSeq(q, 1, Len(q) - 1))}

LEMMA BeneathIs ==
    ASSUME NEW fs, V!IsPanel(fs), NEW p \in fs.folders
    PROVE  /\ Beneath(fs, p) \subseteq fs.readable /\ IsFiniteSet(Beneath(fs, p))
           /\ \A q \in fs.readable : q \in Beneath(fs, p) <=> Len(p) < Len(q) /\ Upto(q, Len(p)) = p
<1>1. /\ fs.folders \subseteq Seq(Nat) /\ fs.readable \subseteq fs.folders /\ IsFiniteSet(fs.folders)
      /\ p \in Seq(Nat) /\ Len(p) \in Nat
  BY PanelFolders, Beginnings
<1>2. Beneath(fs, p) \subseteq fs.readable /\ IsFiniteSet(Beneath(fs, p))
  BY <1>1, FS_Subset DEF Beneath
<1>3. ASSUME NEW q \in fs.readable
      PROVE  q \in Beneath(fs, p) <=> Len(p) < Len(q) /\ Upto(q, Len(p)) = p
  <2>1. q \in fs.folders /\ q \in Seq(Nat) /\ Len(q) \in Nat /\ (q = <<>> <=> Len(q) = 0)
    BY <1>1
  <2>2. CASE q = <<>>
    BY <1>1, <2>1, <2>2 DEF Beneath
  <2>3. CASE q # <<>>
    <3> DEFINE m == Len(q) - 1
               front == Upto(q, m)
    <3>1. m \in 0..Len(q) /\ m \in Nat /\ Len(q) = m + 1
      BY <2>1, <2>3
    <3>2. q \in Beneath(fs, p) <=> Len(p) <= Len(front) /\ Upto(front, Len(p)) = p
      BY <2>1, <2>3, PrefixIs DEF Beneath, Upto
    <3> HIDE DEF m
    <3>3. Len(front) = m /\ \A k \in 0..m : Upto(front, k) = Upto(q, k)
      BY <2>1, <3>1, Beginnings
    <3> HIDE DEF front
    <3>4. Len(p) <= m <=> Len(p) < Len(q)
      BY <1>1, <3>1
    <3>5. Len(p) <= m => Len(p) \in 0..m
      BY <1>1, <3>1
    <3> QED  BY <3>2, <3>3, <3>4, <3>5
  <2> QED  BY <2>2, <2>3
<1> QED  BY <1>2, <1>3

LEMMA ChildIs ==
    ASSUME NEW fs, V!IsPanel(fs), NEW p \in fs.folders
    PROVE  /\ V!ChildrenOf(fs, p) \subseteq fs.folders /\ IsFiniteSet(V!ChildrenOf(fs, p))
           /\ \A q \in fs.folders : q \in V!ChildrenOf(fs, p) <=> Len(q) = Len(p) + 1 /\ Upto(q, Len(p)) = p
<1>1. IsFiniteSet(fs.folders) /\ Len(p) \in Nat
  BY PanelFolders, Beginnings
<1>2. V!ChildrenOf(fs, p) \subseteq fs.folders
  BY DEF V!ChildrenOf
<1>3. IsFiniteSet(V!ChildrenOf(fs, p))
  BY <1>1, <1>2, FS_Subset
<1>4. \A q \in fs.folders : Len(q) = Len(p) + 1 => Len(p) <= Len(q)
  BY <1>1
<1> QED  BY <1>2, <1>3, <1>4, PrefixIs DEF V!ChildrenOf

\* What is below a folder are its children and what is below them.
LEMMA BelowByChild ==
    ASSUME NEW fs, V!IsPanel(fs), NEW p \in fs.folders
    PROVE  LET children == V!ChildrenOf(fs, p)
               below == UNION {Beneath(fs, c) : c \in children}
           IN  /\ Beneath(fs, p) = (children \cap fs.readable) \cup below
               /\ (children \cap fs.readable) \cap below = {}
               /\ \A c, e \in children : c # e => Beneath(fs, c) \cap Beneath(fs, e) = {}
<1> DEFINE children == V!ChildrenOf(fs, p)
           below == UNION {Beneath(fs, c) : c \in children}
           m == Len(p)
<1>1. /\ fs.folders \subseteq Seq(Nat) /\ fs.readable \subseteq fs.folders
      /\ p \in Seq(Nat) /\ m \in Nat
      /\ \A q \in fs.folders : \A n \in 0..Len(q) : Upto(q, n) \in fs.folders
  BY PanelFolders, Beginnings
<1>2. /\ children \subseteq fs.folders
      /\ \A q \in fs.folders : q \in children <=> Len(q) = m + 1 /\ Upto(q, m) = p
  BY ChildIs
<1>3. /\ Beneath(fs, p) \subseteq fs.readable
      /\ \A q \in fs.readable : q \in Beneath(fs, p) <=> m < Len(q) /\ Upto(q, m) = p
  BY BeneathIs
<1> HIDE DEF children
<1>4. /\ \A c \in children : Beneath(fs, c) \subseteq fs.readable
      /\ \A c \in children, q \in fs.readable : q \in Beneath(fs, c) <=> m + 1 < Len(q) /\ Upto(q, m + 1) = c
  <2> SUFFICES ASSUME NEW c \in children
               PROVE  /\ Beneath(fs, c) \subseteq fs.readable
                      /\ \A q \in fs.readable : q \in Beneath(fs, c) <=> m + 1 < Len(q) /\ Upto(q, m + 1) = c
    OBVIOUS
  <2>1. c \in fs.folders /\ Len(c) = m + 1
    BY <1>2
  <2> HIDE DEF m
  <2>2. /\ Beneath(fs, c) \subseteq fs.readable
        /\ \A q \in fs.readable : q \in Beneath(fs, c) <=> Len(c) < Len(q) /\ Upto(q, Len(c)) = c
    BY <2>1, BeneathIs
  <2> QED  BY <2>1, <2>2
<1> HIDE DEF m
<1>5. ASSUME NEW q \in fs.readable PROVE q \in Beneath(fs, p) <=> q \in children \/ q \in below
  <2>1. q \in fs.folders /\ q \in Seq(Nat) /\ Len(q) \in Nat /\ \A n \in 0..Len(q) : Upto(q, n) \in fs.folders
    BY <1>1
  <2>2. q \in children => q \in Beneath(fs, p)
    BY <1>1, <1>2, <1>3, <2>1
  <2>3. ASSUME NEW c \in children, q \in Beneath(fs, c) PROVE q \in Beneath(fs, p)
    <3>1. m + 1 < Len(q) /\ Upto(q, m + 1) = c /\ Upto(c, m) = p
      BY <1>2, <1>4, <2>3
    <3>2. m + 1 \in 0..Len(q) /\ m \in 0..(m + 1) /\ m < Len(q)
      BY <1>1, <2>1, <3>1
    <3>3. Upto(q, m) = Upto(c, m)
      BY <2>1, <3>1, <3>2, Beginnings
    <3> QED  BY <1>3, <3>1, <3>2, <3>3
  <2>4. ASSUME q \in Beneath(fs, p), q \notin children PROVE q \in below
    <3>1. m < Len(q) /\ Upto(q, m) = p /\ Len(q) # m + 1
      BY <1>2, <1>3, <2>1, <2>4
    <3>2. m + 1 < Len(q) /\ m + 1 \in 0..Len(q) /\ m \in 0..(m + 1)
      BY <1>1, <2>1, <3>1
    <3> DEFINE c == Upto(q, m + 1)
    <3>3. c \in fs.folders /\ Len(c) = m + 1 /\ Upto(c, m) = Upto(q, m)
      BY <2>1, <3>2, Beginnings
    <3> HIDE DEF c
    <3>4. c \in children
      BY <1>2, <3>1, <3>3
    <3>5. q \in Beneath(fs, c)
      BY <1>4, <3>2, <3>4 DEF c
    <3> QED  BY <3>4, <3>5
  <2> QED  BY <2>2, <2>3, <2>4
<1>6. Beneath(fs, p) = (children \cap fs.readable) \cup below
  <2>1. below \subseteq fs.readable
    BY <1>4
  <2> HIDE DEF below
  <2> QED  BY <1>3, <1>5, <2>1
<1>7. (children \cap fs.readable) \cap below = {}
  <2> SUFFICES ASSUME NEW q \in children, q \in fs.readable, NEW c \in children, q \in Beneath(fs, c) PROVE FALSE
    OBVIOUS
  <2>1. Len(q) = m + 1 /\ m + 1 < Len(q)
    BY <1>1, <1>2, <1>4
  <2> QED  BY <1>1, <2>1
<1>8. \A c, e \in children : c # e => Beneath(fs, c) \cap Beneath(fs, e) = {}
  BY <1>4
<1> QED  BY <1>6, <1>7, <1>8 DEF children

\* The statistics of a folder.
LEMMA FolderInfoSizes ==
    ASSUME NEW fs, NEW p
    PROVE  /\ V!FolderInfo(fs, p).folders = Cardinality(V!ChildrenOf(fs, p) \cap fs.readable)
           /\ V!FolderInfo(fs, p).descendants = Cardinality(Beneath(fs, p))
<1>1. /\ V!FolderInfo(fs, p).folders = V!Cardinality(V!ChildrenOf(fs, p) \cap fs.readable)
      /\ V!FolderInfo(fs, p).descendants = V!Cardinality(Beneath(fs, p))
  BY DEF V!FolderInfo, Beneath
<1> QED  BY <1>1, VCardinality

LEMMA InfoAddsUp ==
    ASSUME NEW fs, V!IsPanel(fs), NEW p \in fs.folders
    PROVE  V!FolderInfo(fs, p).descendants =
               V!FolderInfo(fs, p).folders
               + V!MapThenSumSet(LAMBDA q : V!FolderInfo(fs, q).descendants, V!ChildrenOf(fs, p))
<1> DEFINE children == V!ChildrenOf(fs, p)
           B == [c \in children |-> Beneath(fs, c)]
           F == [c \in children |-> V!FolderInfo(fs, c).descendants]
           C == [s \in SUBSET children |-> CHOOSE x \in s : TRUE]
           Def(g) == g = [s \in SUBSET children |->
                          IF s = {} THEN 0
                          ELSE V!FolderInfo(fs, CHOOSE x \in s : TRUE).descendants + g[s \ {CHOOSE x \in s : TRUE}]]
           sum == CHOOSE g : Def(g)
           total == V!MapThenSumSet(LAMBDA q : V!FolderInfo(fs, q).descendants, children)
           below == UNION {Beneath(fs, c) : c \in children}
<1>1. \A s \in SUBSET children :
         C[s] = (CHOOSE x \in s : TRUE) /\ (s # {} => C[s] \in s /\ F[C[s]] = V!FolderInfo(fs, C[s]).descendants)
  OBVIOUS
<1>2. total = sum[children]
  BY DEF V!MapThenSumSet, V!MapThenFoldSet
<1>3. /\ children \subseteq fs.folders /\ IsFiniteSet(children)
      /\ Beneath(fs, p) = (children \cap fs.readable) \cup below
      /\ (children \cap fs.readable) \cap below = {}
      /\ \A c, e \in children : c # e => Beneath(fs, c) \cap Beneath(fs, e) = {}
  BY ChildIs, BelowByChild
<1> HIDE DEF C, F, children
<1>4. ASSUME NEW g PROVE Def(g) <=> IsSum(g, F, C, children)
  <2>1. \A s \in SUBSET children :
           SumRule(g, F, C, s) =
               IF s = {} THEN 0
               ELSE V!FolderInfo(fs, CHOOSE x \in s : TRUE).descendants + g[s \ {CHOOSE x \in s : TRUE}]
    BY <1>1 DEF SumRule
  <2> QED  BY <2>1 DEF IsSum
<1> HIDE DEF Def
<1>5. Def(sum)
  BY <1>1, <1>3, SumExists, <1>4
<1> HIDE DEF sum
<1>6. \A s \in SUBSET children : sum[s] = SumRule(sum, F, C, s)
  <2>1. sum = [s \in SUBSET children |-> SumRule(sum, F, C, s)]
    BY <1>4, <1>5 DEF IsSum
  <2>2. ASSUME NEW h, h = [s \in SUBSET children |-> SumRule(sum, F, C, s)]
        PROVE  \A s \in SUBSET children : h[s] = SumRule(sum, F, C, s)
    BY <2>2
  <2> QED  BY <2>1, <2>2
<1>7. /\ \A c \in children : B[c] = Beneath(fs, c) /\ IsFiniteSet(B[c])
      /\ \A c \in children : F[c] = Cardinality(B[c])
  BY <1>3, BeneathIs, FolderInfoSizes DEF F
<1>8. \A c, e \in children : c # e => B[c] \cap B[e] = {}
  BY <1>3, <1>7
<1>9. below = UNION {B[c] : c \in children}
  BY <1>7
<1> HIDE DEF B, below
<1>10. IsFiniteSet(below) /\ sum[children] = Cardinality(below)
  <2>1. \A s \in SUBSET children : s # {} => C[s] \in s
    BY <1>1
  <2>2. \A s \in SUBSET children : IsFiniteSet(AllOf(B, s)) /\ sum[s] = Cardinality(AllOf(B, s))
    <3>1. IsFiniteSet(children)
      BY <1>3
    <3>2. \A c \in children : IsFiniteSet(B[c])
      BY <1>7
    <3>3. \A c \in children : F[c] = Cardinality(B[c])
      BY <1>7
    <3> HIDE DEF total
    <3>4. SizesApart(children, B, F)
      BY <1>8, <3>2, <3>3 DEF SizesApart
    <3>5. SumsUp(children, F, C, sum)
      BY <1>6, <2>1 DEF SumsUp
    <3> QED  BY <3>1, <3>4, <3>5, SumOfSizes
  <2> QED  BY <1>9, <2>2 DEF AllOf
<1> DEFINE own == children \cap fs.readable
<1>11. IsFiniteSet(own)
  BY <1>3, FS_Subset
<1> HIDE DEF own
<1>12. Cardinality(own \cup below) = Cardinality(own) + Cardinality(below) - Cardinality(own \cap below)
  BY <1>10, <1>11, FS_Union
<1>13. Cardinality(own \cap below) = 0
  BY <1>3, FS_EmptySet DEF own
<1>14. Cardinality(own) \in Nat /\ Cardinality(below) \in Nat
  BY <1>10, <1>11, FS_CardinalityType
<1>15. Cardinality(Beneath(fs, p)) = Cardinality(own) + total
  BY <1>2, <1>3, <1>10, <1>12, <1>13, <1>14 DEF own
<1>16. /\ V!FolderInfo(fs, p).folders = Cardinality(own)
       /\ V!FolderInfo(fs, p).descendants = Cardinality(Beneath(fs, p))
  BY FolderInfoSizes DEF own, children
<1> HIDE DEF total
<1>17. V!FolderInfo(fs, p).descendants = V!FolderInfo(fs, p).folders + total
  BY <1>15, <1>16
<1> QED  BY <1>17 DEF total, children

LEMMA PanelSound ==
    ASSUME NEW fs \in Panels, NEW root \in fs.folders, NEW depth \in Nat, NEW limit
    PROVE  V!PanelShowsReadable(fs, root, depth, limit)
<1>0. V!IsPanel(fs)
  BY ListsAssumption
<1>1. V!Favorites(fs) \cup V!Recents(fs, limit) \cup V!Tabs(fs) \subseteq fs.readable
  BY DEF V!Favorites, V!Recents, V!Tabs
<1>2. \A p \in fs.folders :
         LET info == V!FolderInfo(fs, p)
         IN  /\ info.descendants =
                    info.folders + V!MapThenSumSet(LAMBDA q : V!FolderInfo(fs, q).descendants, V!ChildrenOf(fs, p))
             /\ \A q \in fs.folders : p \in V!Breadcrumbs(fs, q) <=> V!Prefix(p, q)
  BY <1>0, InfoAddsUp, BreadcrumbsLead
<1>3. V!TreeOf(fs, root, depth) =
          {p \in fs.folders :
              /\ V!Prefix(root, p) /\ Len(p) - Len(root) <= depth
              /\ \A n \in Len(root)..Len(p) : SubSeq(p, 1, n) \in fs.readable}
  BY <1>0, TreeShowsReadable
<1> QED  BY <1>1, <1>2, <1>3 DEF V!PanelShowsReadable

LEMMA UploadFindsFolder ==
    ASSUME NEW u \in Uploads
    PROVE  V!UploadHasFolder(u.fs, u.up)
<1>1. <<>> \in u.fs.folders
  BY ListsAssumption DEF V!IsUpload
<1> QED  BY <1>1 DEF V!UploadHasFolder, V!DefaultFolder

(* Files and their documents.                                                 *)

LEMMA LibraryIs ==
    ASSUME NEW lb, V!IsLibrary(lb)
    PROVE  /\ Len(lb.files) \in Nat /\ DOMAIN lb.files = 1..Len(lb.files) /\ None \notin DOMAIN lb.files
           /\ Len(lb.docs) \in Nat /\ DOMAIN lb.docs = 1..Len(lb.docs) /\ None \notin DOMAIN lb.docs
           /\ DOMAIN lb.recent = DOMAIN lb.docs /\ {lb.recent[i] : i \in DOMAIN lb.recent} = DOMAIN lb.docs
  BY DEF V!IsLibrary

LEMMA FirstIsOne ==
    ASSUME NEW S \in SUBSET Nat, S # {}
    PROVE  V!FirstOf(S) \in S
<1>1. \E m \in S : \A k \in S : m <= k
  BY LeastNumber
<1>2. V!FirstOf(S) = CHOOSE i \in S : \A j \in S : i <= j
  BY DEF V!FirstOf
<1> QED  BY <1>1, <1>2

\* Where the document of a file comes from.
Records(lb, f, d) == lb.docs[d].record = f

Borrows(lb, f, d) ==
    /\ lb.docs[d].record = None /\ lb.files[f].url # None /\ lb.docs[d].source = lb.files[f].url
    /\ lb.files[f].attached = d \/ V!OnlyFile(lb, f)

LEMMA DocumentComesFrom ==
    ASSUME NEW lb, V!IsLibrary(lb), NEW f \in DOMAIN lb.files, V!DocumentOf(lb, f) # None
    PROVE  LET d == V!DocumentOf(lb, f)
           IN  d \in DOMAIN lb.docs /\ lb.docs[d].visible /\ (Records(lb, f, d) \/ Borrows(lb, f, d))
<1> DEFINE d == V!DocumentOf(lb, f)
           first == V!Recording(lb, f)
           old == V!Legacy(lb, f)
<1>1. DOMAIN lb.docs \subseteq Nat
  BY LibraryIs
<1>2. first \in SUBSET DOMAIN lb.docs /\ \A e \in first : lb.docs[e].visible /\ lb.docs[e].record = f
  BY DEF V!Recording
<1>3. /\ old \in SUBSET DOMAIN lb.docs
      /\ \A e \in old : /\ lb.docs[e].visible /\ lb.docs[e].record = None
                        /\ lb.files[f].url # None /\ lb.docs[e].source = lb.files[f].url
  BY DEF V!Legacy
<1>4. d = IF first # {} THEN V!FirstOf(first)
          ELSE IF lb.files[f].attached \in old THEN lb.files[f].attached
          ELSE IF V!OnlyFile(lb, f) /\ V!Cardinality(old) = 1 THEN V!FirstOf(old)
          ELSE None
  BY DEF V!DocumentOf
<1> HIDE DEF first, old, d
<1>5. CASE first # {}
  BY <1>1, <1>2, <1>4, <1>5, FirstIsOne DEF Records, d
<1>6. CASE first = {} /\ lb.files[f].attached \in old
  BY <1>4, <1>6, <1>3 DEF Borrows, d
<1>7. CASE first = {} /\ lb.files[f].attached \notin old
  BY <1>4, <1>7, VCardinality, FS_EmptySet, <1>1, <1>3, FirstIsOne DEF d, Borrows
<1> QED  BY <1>5, <1>6, <1>7

\* A row of a list of files.
ItemOf(lb, f) == [file |-> f, document |-> V!DocumentOf(lb, f)]

Items(page) == {page.items[i] : i \in DOMAIN page.items}

ItemsFrom(lb, listed, from, to) == {ItemOf(lb, listed[j]) : j \in from..to}

LEMMA PageShows ==
    ASSUME NEW lb, NEW S \in SUBSET Int, IsFiniteSet(S), NEW offset \in Nat, NEW limit \in Nat
    PROVE  LET page == V!PageOf(lb, S, offset, limit)
               listed == V!InOrder(S)
               last == V!AtMost(Cardinality(S), offset + limit)
           IN  /\ page.total = Cardinality(S) /\ Cardinality(S) \in Nat
               /\ Items(page) = ItemsFrom(lb, listed, offset + 1, last)
<1> DEFINE listed == V!InOrder(S)
           n == Cardinality(S)
           last == V!AtMost(n, offset + limit)
           cut == SubSeq(listed, offset + 1, V!AtMost(Len(listed), offset + limit))
           page == V!PageOf(lb, S, offset, limit)
<1>1. InTheirOrder(listed, S)
  BY NumbersInOrder
<1>2. page = [items |-> [i \in DOMAIN cut |-> [file |-> cut[i], document |-> V!DocumentOf(lb, cut[i])]],
              total |-> Len(listed)]
  BY DEF V!PageOf
<1> HIDE DEF listed, page
<1>3. n \in Nat /\ listed \in Seq(S) /\ Len(listed) = n
  BY <1>1 DEF InTheirOrder
<1> HIDE DEF n
<1>4. last \in Nat /\ last <= n /\ last <= offset + limit
  BY <1>3 DEF V!AtMost
<1>5. cut = SubSeq(listed, offset + 1, last)
  BY <1>3
<1> HIDE DEF last, cut
<1>6. /\ DOMAIN cut = 1..(IF last < offset + 1 THEN 0 ELSE last - offset)
      /\ \A i \in DOMAIN cut : cut[i] = listed[offset + i]
  <2>1. offset + 1 \in Nat /\ last - (offset + 1) + 1 = last - offset
    BY <1>4
  <2>2. CASE last < offset + 1
    BY <1>3, <1>4, <1>5, <2>2
  <2>3. CASE ~(last < offset + 1)
    <3>1. Len(cut) = last - offset /\ cut \in Seq(S)
      BY <1>3, <1>4, <1>5, <2>1, <2>3
    <3>2. DOMAIN cut = 1..(last - offset)
      BY <1>4, <3>1
    <3>3. ASSUME NEW i \in 1..(last - offset) PROVE cut[i] = listed[offset + i]
      <4>1. (offset + 1) + i - 1 = offset + i
        BY <1>4
      <4>2. cut[i] = listed[(offset + 1) + i - 1]
        <5> DEFINE from == offset + 1
        <5>1. from \in 1..(n + 1) /\ from <= last /\ i \in 1..(last - from + 1) /\ cut = SubSeq(listed, from, last)
          BY <1>3, <1>4, <1>5, <2>1, <2>3
        <5> HIDE DEF from
        <5>2. cut[i] = listed[from + i - 1]
          BY <1>3, <1>4, <5>1
        <5> QED  BY <5>2 DEF from
      <4> QED  BY <4>1, <4>2
    <3> QED  BY <2>3, <3>2, <3>3
  <2> QED  BY <2>2, <2>3
<1>7. /\ DOMAIN page.items = DOMAIN cut /\ page.total = n
      /\ \A i \in DOMAIN cut : page.items[i] = ItemOf(lb, cut[i])
  BY <1>2, <1>3 DEF ItemOf
<1>8. ASSUME NEW i \in DOMAIN cut PROVE offset + i \in (offset + 1)..last /\ page.items[i] = ItemOf(lb, listed[offset + i])
  BY <1>6, <1>7, <1>4
<1>9. ASSUME NEW j \in (offset + 1)..last PROVE \E i \in DOMAIN cut : page.items[i] = ItemOf(lb, listed[j])
  <2> DEFINE i == j - offset
  <2>1. i \in DOMAIN cut /\ offset + i = j
    BY <1>4, <1>6
  <2> HIDE DEF i
  <2>2. page.items[i] = ItemOf(lb, listed[j])
    BY <1>8, <2>1
  <2> QED  BY <2>1, <2>2
<1>10. Items(page) = ItemsFrom(lb, listed, offset + 1, last)
  BY <1>7, <1>8, <1>9 DEF Items, ItemsFrom
<1> QED  BY <1>3, <1>7, <1>10 DEF listed, n, last, page

\* Every row is on some page.
LEMMA PagesReach ==
    ASSUME NEW limit \in Nat \ {0}, NEW i \in Nat \ {0}
    PROVE  \E n \in 0..(i - 1) : n * limit < i /\ i <= n * limit + limit
<1> DEFINE Reached(k) == \E n \in 0..k : n * limit < k + 1 /\ k + 1 <= n * limit + limit
           T == {k \in Nat : Reached(k)}
<1>1. 0 \in T
  OBVIOUS
<1>2. ASSUME NEW k \in Nat, k \in T PROVE k + 1 \in T
  <2>1. PICK n \in 0..k : n * limit < k + 1 /\ k + 1 <= n * limit + limit
    BY <1>2
  <2> DEFINE a == n * limit
  <2>2. a \in Int /\ a < k + 1 /\ k + 1 <= a + limit /\ (n + 1) * limit = a + limit
    BY <2>1
  <2>3. Reached(k + 1)
    <3>1. CASE (k + 1) + 1 <= a + limit
      BY <2>2, <3>1
    <3>2. CASE ~((k + 1) + 1 <= a + limit)
      <4> DEFINE m == n + 1
                 b == m * limit
      <4>1. m \in 0..(k + 1) /\ b = a + limit
        BY <2>2
      <4>2. b < (k + 1) + 1 /\ (k + 1) + 1 <= b + limit
        <5> HIDE DEF a, b
        <5> QED  BY <2>2, <3>2, <4>1
      <4> HIDE DEF m
      <4> QED  BY <4>1, <4>2
    <3> QED  BY <3>1, <3>2
  <2> HIDE DEF Reached
  <2> QED  BY <2>3
<1> HIDE DEF T
<1>3. i - 1 \in T
  BY <1>1, <1>2, Induction
<1>4. (i - 1) + 1 = i
  OBVIOUS
<1> QED  BY <1>3, <1>4 DEF T

LEMMA ContentsShow ==
    ASSUME NEW lb, V!IsLibrary(lb), NEW offset \in Nat, NEW limit \in Nat
    PROVE  LET page == V!Contents(lb, offset, limit)
               N == Len(lb.files)
           IN  /\ page.total = N
               /\ Items(page) = {ItemOf(lb, j) : j \in (offset + 1)..V!AtMost(N, offset + limit)}
<1> DEFINE N == Len(lb.files)
           S == 1..N
           page == V!Contents(lb, offset, limit)
           listed == V!InOrder(S)
           last == V!AtMost(N, offset + limit)
<1>1. N \in Nat /\ DOMAIN lb.files = S
  BY LibraryIs
<1> HIDE DEF N
<1>2. S \in SUBSET Int /\ IsFiniteSet(S) /\ Cardinality(S) = N
  BY <1>1, FS_Interval
<1>3. InTheirOrder(listed, S)
  <2> HIDE DEF S
  <2> QED  BY <1>2, NumbersInOrder
<1>4. \A i \in S : listed[i] = i
  <2>1. InTheirOrder(listed, 1..N)
    BY <1>3
  <2> HIDE DEF listed
  <2> QED  BY <1>1, <2>1, ListedByNumber
<1>5. page = V!PageOf(lb, S, offset, limit)
  BY <1>1 DEF V!Contents
<1> HIDE DEF page, S
<1>6. /\ page.total = N
      /\ Items(page) = {ItemOf(lb, listed[j]) : j \in (offset + 1)..last}
  <2> HIDE DEF listed, last
  <2>1. /\ V!PageOf(lb, S, offset, limit).total = Cardinality(S)
        /\ Items(V!PageOf(lb, S, offset, limit)) =
               ItemsFrom(lb, V!InOrder(S), offset + 1, V!AtMost(Cardinality(S), offset + limit))
    BY <1>2, PageShows
  <2> QED  BY <1>2, <1>5, <2>1 DEF listed, last, ItemsFrom
<1> HIDE DEF listed
<1>7. \A j \in (offset + 1)..last : j \in S /\ listed[j] = j
  BY <1>1, <1>4 DEF V!AtMost, S
<1> HIDE DEF last
<1>8. {ItemOf(lb, listed[j]) : j \in (offset + 1)..last} = {ItemOf(lb, j) : j \in (offset + 1)..last}
  BY <1>7
<1> QED  BY <1>6, <1>8 DEF N, page, last

\* The pages one after another show every file.
LEMMA AllContents ==
    ASSUME NEW lb, V!IsLibrary(lb), NEW limit \in Nat \ {0}
    PROVE  /\ UNION {Items(V!Contents(lb, n * limit, limit)) : n \in 0..Len(lb.files)}
                  = {ItemOf(lb, j) : j \in 1..Len(lb.files)}
           /\ Cardinality({ItemOf(lb, j) : j \in 1..Len(lb.files)}) = Len(lb.files)
<1> DEFINE N == Len(lb.files)
           all == {ItemOf(lb, j) : j \in 1..N}
           shown(n) == Items(V!Contents(lb, n * limit, limit))
<1>1. N \in Nat
  BY LibraryIs
<1> HIDE DEF N
<1>2. \A n \in 0..N : n * limit \in Nat
  OBVIOUS
<1>3. \A n \in 0..N : shown(n) = {ItemOf(lb, j) : j \in (n * limit + 1)..V!AtMost(N, n * limit + limit)}
  BY <1>2, ContentsShow DEF N
<1> HIDE DEF shown
<1>4. ASSUME NEW n \in 0..N PROVE shown(n) \subseteq all
  <2> DEFINE a == n * limit
  <2>1. a \in Nat
    BY <1>2
  <2> HIDE DEF a
  <2>2. \A j \in (a + 1)..V!AtMost(N, a + limit) : j \in 1..N
    BY <1>1, <2>1 DEF V!AtMost
  <2>3. shown(n) = {ItemOf(lb, j) : j \in (a + 1)..V!AtMost(N, a + limit)}
    BY <1>3 DEF a
  <2> QED  BY <2>2, <2>3
<1>5. ASSUME NEW j \in 1..N PROVE \E n \in 0..N : ItemOf(lb, j) \in shown(n)
  <2>1. j \in Nat \ {0}
    BY <1>1
  <2>2. PICK n \in 0..(j - 1) : n * limit < j /\ j <= n * limit + limit
    BY <2>1, PagesReach
  <2> DEFINE a == n * limit
  <2>3. n \in 0..N /\ a \in Nat /\ a < j /\ j <= a + limit
    BY <1>1, <1>2, <2>1, <2>2
  <2>4. shown(n) = {ItemOf(lb, i) : i \in (a + 1)..V!AtMost(N, a + limit)}
    BY <1>3, <2>3
  <2> HIDE DEF a
  <2>5. j \in (a + 1)..V!AtMost(N, a + limit)
    BY <1>1, <2>3 DEF V!AtMost
  <2> QED  BY <2>3, <2>4, <2>5
<1>6. UNION {shown(n) : n \in 0..N} = all
  BY <1>4, <1>5
<1>7. Cardinality(all) = N
  <2> DEFINE S == 1..N
             f == [j \in S |-> ItemOf(lb, j)]
  <2>1. f \in Surjection(S, all) /\ f \in Injection(S, all)
    <3>1. f \in [S -> all]
      OBVIOUS
    <3>2. \A j, k \in S : f[j] = f[k] => j = k
      BY DEF ItemOf
    <3>3. \A x \in all : \E j \in S : f[j] = x
      OBVIOUS
    <3> HIDE DEF f, all, S
    <3> QED  BY <3>1, <3>2, <3>3 DEF Surjection, Injection, IsInjective
  <2>2. IsFiniteSet(S) /\ Cardinality(S) = N
    BY <1>1, FS_Interval
  <2> HIDE DEF f, all, S
  <2>3. Cardinality(all) = Cardinality(S)
    BY <2>1, <2>2, FS_Surjection
  <2> QED  BY <2>2, <2>3
<1> QED  BY <1>6, <1>7 DEF N, shown

\* The documents of a base that can be found.
InBase(lb, base, d) == lb.docs[d].visible /\ lb.docs[d].base = base /\ lb.docs[d].record # None

Sources(lb, base) == {lb.docs[d].record : d \in {e \in DOMAIN lb.docs : InBase(lb, base, e)}}

LEMMA LatestAreOf ==
    ASSUME NEW lb, V!IsLibrary(lb), NEW base
    PROVE  /\ \A d \in V!Latest(lb, base) : d \in DOMAIN lb.docs /\ InBase(lb, base, d)
           /\ Len(lb.docs) <= BaseScan =>
                 \A d \in DOMAIN lb.docs : InBase(lb, base, d) => d \in V!Latest(lb, base)
<1> DEFINE recent == lb.recent
           kept(i) == {j \in 1..i : InBase(lb, base, recent[j])}
           places == {i \in DOMAIN recent : InBase(lb, base, recent[i]) /\ Cardinality(kept(i)) <= BaseScan}
           n == Len(lb.docs)
<1>1. V!Latest(lb, base) = {recent[i] : i \in places}
  <2>1. V!Latest(lb, base) =
            {recent[i] : i \in {i \in DOMAIN recent : InBase(lb, base, recent[i]) /\ V!Cardinality(kept(i)) <= BaseScan}}
    BY DEF V!Latest, V!FirstPlaces, InBase
  <2>2. \A i : V!Cardinality(kept(i)) = Cardinality(kept(i))
    BY VCardinality
  <2> HIDE DEF kept
  <2> QED  BY <2>1, <2>2
<1>2. n \in Nat /\ DOMAIN lb.docs = 1..n /\ DOMAIN recent = DOMAIN lb.docs /\ {recent[i] : i \in DOMAIN recent} = DOMAIN lb.docs
  BY LibraryIs
<1> HIDE DEF recent
<1>3. \A d \in V!Latest(lb, base) : d \in DOMAIN lb.docs /\ InBase(lb, base, d)
  BY <1>1, <1>2
<1>4. ASSUME n <= BaseScan, NEW d \in DOMAIN lb.docs, InBase(lb, base, d) PROVE d \in V!Latest(lb, base)
  <2>1. PICK i \in DOMAIN recent : recent[i] = d
    BY <1>2
  <2>2. Cardinality(kept(i)) <= BaseScan
    <3>1. i \in 1..n /\ i \in Nat
      BY <1>2
    <3>2. IsFiniteSet(1..i) /\ Cardinality(1..i) = i
      BY <3>1, FS_Interval
    <3>3. kept(i) \in SUBSET (1..i)
      OBVIOUS
    <3> HIDE DEF kept
    <3>4. Cardinality(kept(i)) \in Nat /\ Cardinality(kept(i)) <= i
      BY <3>2, <3>3, FiniteCounts
    <3>5. BaseScan \in Nat
      BY ListsAssumption DEF V!TreeViewsAssumption
    <3> HIDE DEF n
    <3> QED  BY <1>2, <1>4, <3>1, <3>4, <3>5
  <2>3. i \in places
    BY <1>4, <2>1, <2>2
  <2> HIDE DEF places
  <2> QED  BY <1>1, <2>1, <2>3
<1> QED  BY <1>3, <1>4 DEF n

\* The files a search in a base finds.
LEMMA BaseFinds ==
    ASSUME NEW lb, V!IsLibrary(lb), NEW base
    PROVE  LET found == {item.file : item \in Items(V!SearchBase(lb, base, 0, Len(lb.files)))}
           IN  /\ found \subseteq Sources(lb, base)
               /\ Len(lb.docs) <= BaseScan => found = Sources(lb, base) \cap DOMAIN lb.files
<1> DEFINE N == Len(lb.files)
           S == {f \in DOMAIN lb.files : \E d \in V!Latest(lb, base) : f = lb.docs[d].record}
           page == V!SearchBase(lb, base, 0, N)
           listed == V!InOrder(S)
           found == {item.file : item \in Items(page)}
           n == Cardinality(S)
<1>1. N \in Nat /\ DOMAIN lb.files = 1..N
  BY LibraryIs
<1>2. page = V!PageOf(lb, S, 0, N)
  BY DEF V!SearchBase
<1>3. \A f : f \in S <=> f \in DOMAIN lb.files /\ \E d \in V!Latest(lb, base) : f = lb.docs[d].record
  OBVIOUS
<1> HIDE DEF N, S, page
<1>4. S \in SUBSET (1..N) /\ S \in SUBSET Int /\ IsFiniteSet(S) /\ n \in Nat /\ n <= N
  <2>1. S \in SUBSET (1..N)
    BY <1>1, <1>3
  <2>2. IsFiniteSet(1..N) /\ Cardinality(1..N) = N
    BY <1>1, FS_Interval
  <2>3. IsFiniteSet(S) /\ Cardinality(S) \in Nat /\ Cardinality(S) <= Cardinality(1..N)
    BY <2>1, <2>2, FiniteCounts
  <2>4. S \in SUBSET Int
    BY <1>1, <2>1
  <2> QED  BY <2>1, <2>2, <2>3, <2>4
<1>5. InTheirOrder(listed, S)
  BY <1>4, NumbersInOrder
<1>6. Items(page) = ItemsFrom(lb, listed, 1, n)
  BY <1>1, <1>4, PageShows, <1>2 DEF V!AtMost
<1> HIDE DEF listed
<1>7. found = S
  <2>1. \A i \in 1..n : listed[i] \in S
    BY <1>5 DEF InTheirOrder
  <2>2. \A x \in S : \E i \in 1..n : listed[i] = x
    BY <1>5 DEF InTheirOrder
  <2>3. \A f : ItemOf(lb, f).file = f
    BY DEF ItemOf
  <2>4. \A x \in found : x \in S
    BY <1>6, <2>1, <2>3 DEF ItemsFrom
  <2>5. \A x \in S : x \in found
    <3> SUFFICES ASSUME NEW x \in S PROVE x \in found
      OBVIOUS
    <3>1. PICK i \in 1..n : listed[i] = x
      BY <2>2
    <3>2. ItemOf(lb, listed[i]) \in Items(page)
      BY <1>6 DEF ItemsFrom
    <3> QED  BY <2>3, <3>1, <3>2
  <2> HIDE DEF found
  <2> QED  BY <2>4, <2>5
<1>8. S \subseteq Sources(lb, base)
  BY <1>3, LatestAreOf DEF Sources
<1>9. ASSUME Len(lb.docs) <= BaseScan PROVE S = Sources(lb, base) \cap DOMAIN lb.files
  <2>1. \A d \in DOMAIN lb.docs : InBase(lb, base, d) => d \in V!Latest(lb, base)
    BY <1>9, LatestAreOf
  <2>2. ASSUME NEW f \in DOMAIN lb.files, f \in Sources(lb, base) PROVE f \in S
    <3>1. PICK d \in DOMAIN lb.docs : InBase(lb, base, d) /\ f = lb.docs[d].record
      BY <2>2 DEF Sources
    <3> QED  BY <1>3, <2>1, <3>1
  <2> QED  BY <1>3, <1>8, <2>2
<1> HIDE DEF found
<1> QED  BY <1>7, <1>8, <1>9 DEF found, page, N

LEMMA LibrarySound ==
    ASSUME NEW lb \in Libraries, NEW limit \in Limits
    PROVE  V!NoBorrowedDocument(lb, limit)
<1>0. V!IsLibrary(lb) /\ limit \in Nat \ {0}
  BY ListsAssumption
<1> DEFINE N == Len(lb.files)
           pages == [n \in 0..N |-> V!Contents(lb, n * limit, limit)]
           items == UNION {Items(pages[n]) : n \in DOMAIN pages}
<1>1. N \in Nat /\ DOMAIN lb.files = 1..N /\ None \notin DOMAIN lb.files
  BY <1>0, LibraryIs
<1>2. items = {ItemOf(lb, j) : j \in 1..N} /\ Cardinality(items) = N
  <2>1. items = UNION {Items(V!Contents(lb, n * limit, limit)) : n \in 0..N}
    OBVIOUS
  <2> QED  BY <1>0, <2>1, AllContents, ZenonT(30)
<1>3. pages[0].total = N
  <2>1. 0 * limit = 0 /\ 0 \in 0..N /\ limit \in Nat
    BY <1>0, <1>1
  <2>2. pages[0] = V!Contents(lb, 0, limit)
    BY <2>1
  <2>3. V!Contents(lb, 0, limit).total = N
    <3> HIDE DEF items, pages
    <3> QED  BY <1>0, <2>1, ContentsShow
  <2> HIDE DEF pages, N
  <2> QED  BY <2>2, <2>3
<1> HIDE DEF items, pages
<1>4. ASSUME NEW item \in items
      PROVE  /\ item.file \in DOMAIN lb.files /\ item.document = V!DocumentOf(lb, item.file)
  BY <1>1, <1>2 DEF ItemOf
<1>5. ASSUME NEW item \in items, item.document # None
      PROVE  /\ item.document \in DOMAIN lb.docs /\ lb.docs[item.document].visible
             /\ Records(lb, item.file, item.document) \/ Borrows(lb, item.file, item.document)
  BY <1>0, <1>4, <1>5, DocumentComesFrom
<1>6. ASSUME NEW a \in items, NEW b \in items,
             a.file # b.file, a.document # None, a.document = b.document
      PROVE  lb.files[a.file].attached = a.document /\ lb.files[b.file].attached = a.document
  <2> DEFINE d == a.document
  <2>1. a.file \in DOMAIN lb.files /\ b.file \in DOMAIN lb.files /\ a.file # None /\ b.file # None
    BY <1>1, <1>4
  <2>2. /\ Records(lb, a.file, d) \/ Borrows(lb, a.file, d)
        /\ Records(lb, b.file, d) \/ Borrows(lb, b.file, d)
    BY <1>5, <1>6
  <2>3. Borrows(lb, a.file, d) /\ Borrows(lb, b.file, d)
    BY <1>6, <2>1, <2>2 DEF Records, Borrows
  <2>4. lb.files[a.file].url = lb.files[b.file].url
    BY <2>3 DEF Borrows
  <2>5. ~V!OnlyFile(lb, a.file) /\ ~V!OnlyFile(lb, b.file)
    BY <1>6, <2>1, <2>4 DEF V!OnlyFile
  <2> QED  BY <2>3, <2>5 DEF Borrows
<1>7. ASSUME NEW base
      PROVE  LET found == {item.file : item \in Items(V!SearchBase(lb, base, 0, Len(lb.files)))}
             IN  /\ found \subseteq Sources(lb, base)
                 /\ Len(lb.docs) <= BaseScan => found = Sources(lb, base) \cap DOMAIN lb.files
  BY <1>0, BaseFinds
<1>8. V!Cardinality(items) = pages[0].total
  BY <1>2, <1>3, VCardinality
<1>9. /\ \A item \in items : item.document # None => lb.docs[item.document].visible
      /\ \A a, b \in items :
             a.file # b.file /\ a.document # None /\ a.document = b.document =>
                 lb.files[a.file].attached = a.document /\ lb.files[b.file].attached = a.document
  BY <1>5, <1>6
<1> QED  BY <1>7, <1>8, <1>9 DEF V!NoBorrowedDocument, items, pages, Items, Sources, InBase

\* What is asked of the lists is answered.
LEMMA ListsAnswered ==
    ASSUME NEW q
    PROVE  /\ q \in Openings => \A row \in Guarded : A!ListedOpens(q.dt, row, q.user)
           /\ q \in Views => \A limit \in Limits : V!TreePagesJoin(q, limit)
           /\ q \in Libraries => \A limit \in Limits : V!NoBorrowedDocument(q, limit)
           /\ q \in Panels => \A root \in q.folders, depth \in {0} \cup Limits, limit \in Limits :
                                  V!PanelShowsReadable(q, root, depth, limit)
           /\ q \in Uploads => V!UploadHasFolder(q.fs, q.up)
<1>1. Limits \subseteq Nat \ {0} /\ Limits \subseteq Nat /\ {0} \cup Limits \subseteq Nat
  BY ListsAssumption
<1>2. q \in Openings => \A row \in Guarded : A!ListedOpens(q.dt, row, q.user)
  BY OpensWhatIsListed
<1>3. q \in Views => \A limit \in Limits : V!TreePagesJoin(q, limit)
  BY <1>1, TreePagesJoinSound
<1>4. q \in Libraries => \A limit \in Limits : V!NoBorrowedDocument(q, limit)
  BY LibrarySound
<1>5. q \in Panels => \A root \in q.folders, depth \in {0} \cup Limits, limit \in Limits :
                          V!PanelShowsReadable(q, root, depth, limit)
  BY <1>1, PanelSound
<1>6. q \in Uploads => V!UploadHasFolder(q.fs, q.up)
  BY UploadFindsFolder
<1> QED  BY <1>2, <1>3, <1>4, <1>5, <1>6

-----------------------------------------------------------------------------
(* The services together: a case is about one of them.                        *)
Questions ==
    /\ case.kind = "search" => case.in \in Searches
    /\ case.kind = "context" => case.in \in Contexts
    /\ case.kind = "call" => case.in \in Calls
    /\ case.kind = "vectors" => case.in \in Vectors
    /\ case.kind = "opening" => case.in \in Openings
    /\ case.kind = "view" => case.in \in Views
    /\ case.kind = "library" => case.in \in Libraries
    /\ case.kind = "panel" => case.in \in Panels
    /\ case.kind = "upload" => case.in \in Uploads

ServicesInv ==
    /\ ScanInv /\ Questions
    /\ case.kind = "health" => HealthInv
    /\ case.kind = "tree" => TreeInv

LEMMA ServicesInitInv == ServicesInit => ServicesInv
<1> SUFFICES ASSUME ServicesInit PROVE ServicesInv
  OBVIOUS
<1>1. ScanInv
  BY ScanInit DEF ServicesInit
<1>2. (case.kind = "health" => H!Init) /\ (case.kind = "tree" => D!Init)
  BY DEF ServicesInit, Asked
<1>3. Questions
  BY DEF ServicesInit, Asked, Questions
<1> QED  BY <1>1, <1>2, <1>3, HealthInit, TreeInit DEF ServicesInv

LEMMA ServicesStep ==
    ServicesInv /\ [ServicesNext]_allvars =>
        /\ ScanInv /\ [Next]_vars
        /\ case' = case
        /\ case.kind = "health" => HealthInv /\ [H!Next]_checks
        /\ case.kind = "tree" => TreeInv /\ [D!Next]_tree
  BY DEF ServicesInv, ServicesNext, allvars

LEMMA ServicesNextInv == ServicesInv /\ [ServicesNext]_allvars => ServicesInv'
<1> SUFFICES ASSUME ServicesInv, [ServicesNext]_allvars PROVE ServicesInv'
  OBVIOUS
<1>1. ScanInv'
  BY ServicesStep, ScanNext
<1>2. case' = case /\ (case.kind = "health" => HealthInv')
  BY ServicesStep, HealthNext
<1>3. case.kind = "tree" => TreeInv'
  BY ServicesStep, TreeNext
<1>4. Questions'
  BY ServicesStep DEF ServicesInv, Questions
<1> QED  BY <1>1, <1>2, <1>3, <1>4 DEF ServicesInv

(* The inductive invariant of scans, of checks and of the tree holds in every *)
(* behaviour of the services.                                                 *)
THEOREM ServicesInvariant == ServicesSpec => []ServicesInv
  BY ServicesInitInv, ServicesNextInv, PTL DEF ServicesSpec

(* Scans at the same time, a document that is processed meanwhile and scans   *)
(* whose transaction is lost leave no row that quotes another text than its   *)
(* own, and no mark without its rows, one each (scan_document,                *)
(* scan_document_semantic, _mark_scanned).                                    *)
THEOREM RowsSoundAlways == ServicesSpec => []RowsSound
<1>1. ServicesInv => RowsSound
  BY DEF ServicesInv, ScanInv, Quoted, RowsSound, RowsQuoteTheirText
<1> QED  BY <1>1, ServicesInvariant, PTL

(* However schedulers, people and discoveries overlap, die and lose           *)
(* transactions, failed checks are counted one by one, and the threshold      *)
(* takes a provider offline (check_provider_health).                          *)
THEOREM FailuresCountedAlways == ServicesSpec => []FailuresCounted
<1>1. ServicesInv => FailuresCounted
  BY DEF ServicesInv, HealthInv, FailuresCounted
<1> QED  BY <1>1, ServicesInvariant, PTL

ChecksInOrder == case.kind = "health" => H!LaterListWins /\ H!OncePerInterval

(* A list of models replaces no later one, and no tick commits a check of a   *)
(* provider that was checked within an interval (sync_provider_models,        *)
(* claim_due_providers).                                                      *)
THEOREM ChecksInOrderAlways == ServicesSpec => [][ChecksInOrder]_allvars
<1>1. ServicesInv /\ [ServicesNext]_allvars => [ChecksInOrder]_allvars
  BY ServicesStep, LaterListStep, OnceStep DEF ChecksInOrder
<1> QED  BY <1>1, ServicesInvariant, PTL DEF ServicesSpec

(* Whatever people and background jobs rename, move, copy and delete at the   *)
(* same time, committed, aborted or lost, a folder, a file or a document lies *)
(* in a folder that exists, and a document lies with its file, save for what  *)
(* the renames, moves and deletions could not see (document_tree.py).         *)
THEOREM TreeSoundAlways == ServicesSpec => []TreeSound
<1>1. ServicesInv => TreeSound
  BY SoundTree DEF ServicesInv, TreeSound
<1> QED  BY <1>1, ServicesInvariant, PTL

(* Nothing is written on the strength of what was read long before: by lists  *)
(* of models and ticks (sync_provider_models, claim_due_providers) as above,  *)
(* and by the background jobs of the tree, which touch only documents that    *)
(* are as they were when the job was asked for (_check_subtree_state).        *)
THEOREM NoStaleWriteAlways == ServicesSpec => NoStaleWrite
<1> DEFINE Written == /\ case.kind = "health" => H!LaterListWins /\ H!OncePerInterval
                      /\ case.kind = "tree" => D!OnlyConfirmed
<1>1. ServicesInv /\ [ServicesNext]_allvars => [Written]_allvars
  BY ServicesStep, LaterListStep, OnceStep, ConfirmedStep
<1> QED  BY <1>1, ServicesInvariant, PTL DEF ServicesSpec, NoStaleWrite

(* Whatever a request combines, and whatever its searches find, degrade to or *)
(* fall back on, it is answered in the scope that was asked for and may be    *)
(* read, its pages join, and the context packed from any blocks fits, keeps   *)
(* the order and repeats nothing (run_retrieval, pack_context_blocks).        *)
THEOREM SearchesSoundAlways == ServicesSpec => []SearchesSound
<1>1. ServicesInv => SearchesSound
  <2>1. \A rq \in Searches : R!StaysInScope(rq) /\ R!PagesJoin(rq)
    BY RequestsAssumption, AnswersInScope, PagesDoJoin
  <2>2. \A c \in Contexts : R!ContextSound(c.blocks, c.limit)
    BY RequestsAssumption, ContextFits
  <2> QED  BY <2>1, <2>2 DEF ServicesInv, Questions, SearchesSound
<1> QED  BY <1>1, ServicesInvariant, PTL

(* On any platform, a chat whose model fails goes to every model of another   *)
(* provider that is usable and able, and to no other; one that names no model *)
(* and needs nothing is refused only if nobody could serve it; and the        *)
(* vectors of a model have one width (resolve_model,                          *)
(* resolve_failover_attempts, run_embedding).                                 *)
THEOREM AsksWhoeverCanAlways == ServicesSpec => []AsksWhoeverCan
<1>1. ServicesInv => AsksWhoeverCan
  <2>1. \A c \in Calls : Ro!AsksWhoeverCan(c.pf, c.call)
    BY RequestsAssumption, ChatAsks
  <2>2. \A v \in Vectors :
           Ro!OneWidth([models |-> <<[dimensions |-> v.dimensions]>>], 1, v.first, v.second)
    <3> SUFFICES ASSUME NEW v \in Vectors
                 PROVE  Ro!OneWidth([models |-> <<[dimensions |-> v.dimensions]>>], 1, v.first, v.second)
      OBVIOUS
    <3>1. v.dimensions \in Nat /\ v.first \in Seq(Nat) /\ v.second \in Seq(Nat)
      BY RequestsAssumption
    <3> QED  BY <3>1, VectorsAgree
  <2> QED  BY <2>1, <2>2 DEF ServicesInv, Questions, AsksWhoeverCan
<1> QED  BY <1>1, ServicesInvariant, PTL

(* For any grants, rows and users, what a list shows to a user the user can   *)
(* open (utils/permissions.py). For any folders, documents and files, and     *)
(* pages of any length: the pages of the tree come to an end and show each    *)
(* visible node once, in order, and all of them unless a search is cut        *)
(* (get_children); files borrow no document of another and are all counted    *)
(* (list_folder_contents, search); panels show exactly what readable folders  *)
(* lead to, and their statistics add up (get_tree, get_folder_info); and an   *)
(* upload finds a folder (get_default_folder).                                *)
THEOREM ListsSoundAlways == ServicesSpec => []ListsSound
<1>1. ServicesInv => ListsSound
  BY ListsAnswered DEF ServicesInv, Questions, ListsSound
<1> QED  BY <1>1, ServicesInvariant, PTL
=============================================================================
