----------------------------- MODULE EntityScan -----------------------------
(* Entities found in documents: ai/patterns.py and ai/semantic.py. A pattern  *)
(* scan keeps a row for every value its expressions match in the text of a    *)
(* document; a semantic scan asks a model for names and relationships and     *)
(* keeps those the text contains. Both are run by the scheduler for documents *)
(* without current rows, and by users, while documents are processed again,   *)
(* edited and deleted.                                                        *)
(*                                                                            *)
(* A scheduled batch and a request are a transaction of MariaDB each: it      *)
(* reads from the view of its first statement, and a statement that locks a   *)
(* row changed after it fails with error 1020 and rolls everything back. The  *)
(* loop of a batch logs the error and goes on in a new view. The Redis cache  *)
(* takes no part in transactions.                                             *)
(*                                                                            *)
(* The kind of a key tells the table and the method of its rows. An operator  *)
(* X_Y just before an operator X is X with a plausible mistake in it, to see  *)
(* that the properties notice.                                                *)
EXTENDS Integers, FiniteSets

CONSTANTS
    Documents,
    Patterns,       \* values the expressions match, in the order they are found
    Names,          \* people, organizations, places and concepts
    Links,          \* relationships, present where their evidence is
    Ends(_),        \* the names a relationship is about
    Texts,          \* texts of documents, as the sets of what they contain
    PatternTick,    \* the scheduled pattern scan
    SemanticTick,   \* the scheduled semantic scan
    Users,          \* sessions that ask for a scan
    MaxEntities,    \* max_pattern_entities of AI Platform Settings
    MaxVersions,    \* bound: times a document is processed
    MaxRequests     \* bound: scans that users ask for and changes of a row

Sessions == {PatternTick, SemanticTick} \cup Users
Keys == Patterns \cup Names \cup Links

(* A row's name is as good as who inserted it for which key of what. *)

Ids == [doc: Documents, key: Keys, by: Sessions]

ASSUME EntityScanAssumption ==
    /\ Patterns \subseteq Int
    /\ Patterns \cap (Names \cup Links) = {}
    /\ Documents \cap Ids = {}
    /\ Texts \subseteq SUBSET Keys
    /\ MaxEntities \in Nat \ {0} /\ MaxVersions \in Nat \ {0}
    /\ MaxRequests \in Nat

VARIABLES
    texts,      \* what each version of a document contains
    version,    \* the version, and so the checksum, each document is at; 0: none
    state,      \* the state of each document
    marker,     \* pattern_scan_checksum of each document
    cached,     \* the checksum Redis remembers as scanned
    rows,       \* AI Pattern Entity and AI Entity Relationship
    session,    \* the transaction of each session
    requests    \* scans asked for and rows changed so far

vars == <<texts, version, state, marker, cached, rows, session, requests>>

-----------------------------------------------------------------------------

Versions == 0..MaxVersions
States == {"Draft", "Indexed", "Failed", "Deleted"}
Kinds == {"pattern", "semantic"}

Row == [doc: Documents, key: Keys, by: Sessions, source: Versions]

Id(r) == [doc |-> r.doc, key |-> r.key, by |-> r.by]

(* todo: what is left of the batch; version, rows: what the view shows, with  *)
(* the session's own rows; wrote: what it has locked; done: what it has       *)
(* scanned; stale: what others changed after its view.                        *)
Session ==
    [kind: Kinds \cup {"idle"}, todo: SUBSET Documents, version: [Documents -> Versions],
     rows: SUBSET Row, wrote: SUBSET (Ids \cup Documents), done: SUBSET Documents,
     stale: SUBSET (Ids \cup Documents)]

Present == {d \in Documents : state[d] # "Deleted"}

TextOf(d, v) == IF v = 0 THEN {} ELSE texts[d][v]

RowsOf(R, d) == {r \in R : r.doc = d}

Closed ==
    [kind |-> "idle", todo |-> {}, version |-> [d \in Documents |-> 0],
     rows |-> {}, wrote |-> {}, done |-> {}, stale |-> {}]

(* A transaction begins. *)
View(kind, todo) ==
    [kind |-> kind, todo |-> todo \cap Present, version |-> version, rows |-> rows,
     wrote |-> {}, done |-> {}, stale |-> {}]

(* What a commit that changed rows leaves of the other views. *)
Outdate(but, changed) ==
    [t \in Sessions |->
        IF t \in but \/ session[t].kind = "idle" THEN session[t]
        ELSE [session[t] EXCEPT !.stale = @ \cup changed]]

Locked(s, things) ==
    \E t \in Sessions \ {s} : session[t].wrote \cap things # {}

-----------------------------------------------------------------------------
(* What a scan finds. *)

(* extract_pattern_entities: the first max_entities values. *)
Extracted(text) ==
    LET found == text \cap Patterns
    IN  {p \in found : Cardinality({q \in found : q < p}) < MaxEntities}

(* find_grounded_offset, for every part of a claim. *)
Grounded(k, text) == k \in text /\ (k \in Links => Ends(k) \subseteq text)

(* parse_semantic_payload: what the model reports with enough confidence. *)
Accepted_Trusting(reported, text) == reported

Accepted(reported, text) == {k \in reported : Grounded(k, text)}

(* The row a scan goes by for each key: with two of a key, either. *)
OnePerKey(R) ==
    {chosen \in SUBSET R :
        /\ {r.key : r \in chosen} = {r.key : r \in R}
        /\ \A r, q \in chosen : r.key = q.key => r = q}

Synced_Kept(s, d, existing, found, v) ==
    {q \in existing : q.key \in found}
    \cup {[doc |-> d, key |-> k, by |-> s, source |-> v] :
             k \in found \ {r.key : r \in existing}}

(* Rows updated, inserted and pruned, from the rows the scan goes by. *)
Synced(s, d, existing, found, v) ==
    {[r EXCEPT !.source = v] : r \in {q \in existing : q.key \in found}}
    \cup {[doc |-> d, key |-> k, by |-> s, source |-> v] :
             k \in found \ {r.key : r \in existing}}

(* AI Pattern Entity: a pattern scan takes all of it for its own, whoever     *)
(* found the row.                                                             *)
Entities(R, d) == {r \in RowsOf(R, d) : r.key \notin Links}

(* What a semantic scan takes for its own, of both tables. *)
SemanticRows(R, d) == {r \in RowsOf(R, d) : r.key \in Names \cup Links}

OwnRows(kind, R, d) == IF kind = "pattern" THEN Entities(R, d) ELSE SemanticRows(R, d)

-----------------------------------------------------------------------------
(* Batches and requests. *)

(* scan_pending_documents: the query, and the look into the cache. Any row of *)
(* the current checksum counts, a semantic one too.                           *)
PatternPending(d) ==
    /\ state[d] = "Indexed"
    /\ TextOf(d, version[d]) # {}
    /\ marker[d] # version[d]
    /\ ~ \E r \in Entities(rows, d) : r.source = version[d]

WasScanned(d) == marker[d] = version[d] \/ cached[d] = version[d]

(* scan_pending_documents_semantic: only semantic rows count, and nothing is  *)
(* kept of a scan that found none.                                            *)
SemanticPending(d) ==
    /\ state[d] = "Indexed"
    /\ TextOf(d, version[d]) # {}
    /\ ~ \E r \in Entities(rows, d) : r.key \in Names /\ r.source = version[d]

OpenPatternTick ==
    LET todo == {d \in Documents : PatternPending(d) /\ ~WasScanned(d)}
    IN  /\ session[PatternTick].kind = "idle"
        /\ todo # {}
        /\ session' = [session EXCEPT ![PatternTick] = View("pattern", todo)]
        /\ UNCHANGED <<texts, version, state, marker, cached, rows, requests>>

OpenSemanticTick ==
    LET todo == {d \in Documents : SemanticPending(d)}
    IN  /\ session[SemanticTick].kind = "idle"
        /\ todo # {}
        /\ session' = [session EXCEPT ![SemanticTick] = View("semantic", todo)]
        /\ UNCHANGED <<texts, version, state, marker, cached, rows, requests>>

(* scan_pattern_entities and scan_semantic_entities of the API. *)
OpenRequest(u, kind, d) ==
    /\ session[u].kind = "idle"
    /\ requests < MaxRequests
    /\ state[d] # "Deleted"
    /\ TextOf(d, version[d]) # {}
    /\ requests' = requests + 1
    /\ session' = [session EXCEPT ![u] = View(kind, {d})]
    /\ UNCHANGED <<texts, version, state, marker, cached, rows>>

(* The checksum that goes with what was found: that of the text it is from. *)
SourceOf_Current(s, d) == version[d]

SourceOf(s, d) == session[s].version[d]

(* scan_document, up to _mark_scanned, which remembers the scan in Redis too. *)
ScanPatterns(s, d) ==
    LET my == session[s]
        v == SourceOf(s, d)
        found == Extracted(TextOf(d, my.version[d]))
    IN  /\ my.kind = "pattern"
        /\ d \in my.todo
        /\ \E existing \in OnePerKey(OwnRows("pattern", my.rows, d)) :
              LET synced == Synced(s, d, existing, found, v)
                  locks == {Id(r) : r \in existing \cup synced} \cup {d}
              IN  /\ ~Locked(s, locks)
                  /\ locks \cap my.stale = {}
                  /\ session' = [session EXCEPT ![s] =
                        [my EXCEPT !.todo = @ \ {d}, !.rows = (@ \ existing) \cup synced,
                                   !.wrote = @ \cup locks, !.done = @ \cup {d}]]
        /\ cached' = [cached EXCEPT ![d] = v]
        /\ UNCHANGED <<texts, version, state, marker, rows, requests>>

(* The row of the document has changed: the statement of _mark_scanned fails, *)
(* which takes the scan and what the batch did before with it, but its error  *)
(* is swallowed and Redis is told all the same.                               *)
LosePatterns(s, d) ==
    LET my == session[s]
    IN  /\ my.kind = "pattern"
        /\ d \in my.todo
        /\ d \in my.stale
        /\ session' = [session EXCEPT ![s] = View("pattern", my.todo \ {d})]
        /\ cached' = [cached EXCEPT ![d] = my.version[d]]
        /\ UNCHANGED <<texts, version, state, marker, rows, requests>>

(* scan_document_semantic: the model's answer, entities and relationships. *)
ScanSemantic(s, d) ==
    LET my == session[s]
        v == SourceOf(s, d)
    IN  /\ my.kind = "semantic"
        /\ d \in my.todo
        /\ \E reported \in SUBSET (Names \cup Links),
              existing \in OnePerKey(OwnRows("semantic", my.rows, d)) :
              LET found == Accepted(reported, TextOf(d, my.version[d]))
                  synced == Synced(s, d, existing, found, v)
                  locks == {Id(r) : r \in existing \cup synced}
              IN  /\ ~Locked(s, locks)
                  /\ locks \cap my.stale = {}
                  /\ session' = [session EXCEPT ![s] =
                        [my EXCEPT !.todo = @ \ {d}, !.rows = (@ \ existing) \cup synced,
                                   !.wrote = @ \cup locks, !.done = @ \cup {d}]]
        /\ UNCHANGED <<texts, version, state, marker, cached, rows, requests>>

(* A row of the scan has changed or stays locked for too long: the scan       *)
(* raises, and the batch goes on without what it had done.                    *)
Conflict(s, d) ==
    LET my == session[s]
        own == {Id(r) : r \in OwnRows(my.kind, my.rows, d)}
    IN  /\ d \in my.todo
        /\ own \cap my.stale # {} \/ Locked(s, IF my.kind = "pattern" THEN own \cup {d} ELSE own)
        /\ session' = [session EXCEPT ![s] = View(my.kind, my.todo \ {d})]
        /\ UNCHANGED <<texts, version, state, marker, cached, rows, requests>>

(* The model is not available, or its answer cannot be parsed: the error is   *)
(* logged and the batch keeps its transaction.                                *)
SkipSemantic(s, d) ==
    /\ session[s].kind = "semantic"
    /\ d \in session[s].todo
    /\ session' = [session EXCEPT ![s].todo = @ \ {d}]
    /\ UNCHANGED <<texts, version, state, marker, cached, rows, requests>>

(* The batch or the request is over. *)
Commit(s) ==
    LET my == session[s]
        mine == {i \in my.wrote : i \notin Documents}
        marked == my.wrote \cap Documents
        changed == mine \cup {d \in marked : marker[d] # my.version[d]}
    IN  /\ my.kind # "idle"
        /\ my.todo = {}
        /\ rows' = {r \in rows : Id(r) \notin mine} \cup {r \in my.rows : Id(r) \in mine}
        /\ marker' = [d \in Documents |-> IF d \in marked THEN my.version[d] ELSE marker[d]]
        /\ session' = [Outdate({s}, changed) EXCEPT ![s] = Closed]
        /\ UNCHANGED <<texts, version, state, cached, requests>>

(* The worker dies or the request is cut off. *)
Abort(s) ==
    /\ session[s].kind # "idle"
    /\ session' = [session EXCEPT ![s] = Closed]
    /\ UNCHANGED <<texts, version, state, marker, cached, rows, requests>>

-----------------------------------------------------------------------------
(* The documents. *)

(* process_document commits content, checksum and status together. *)
Process(d) ==
    /\ state[d] # "Deleted"
    /\ version[d] < MaxVersions
    /\ ~ \E s \in Sessions : d \in session[s].wrote
    /\ version' = [version EXCEPT ![d] = @ + 1]
    /\ \E text \in Texts : texts' = [texts EXCEPT ![d][version[d] + 1] = text]
    /\ \E outcome \in {"Indexed", "Failed"} : state' = [state EXCEPT ![d] = outcome]
    /\ session' = Outdate({}, {d})
    /\ UNCHANGED <<marker, cached, rows, requests>>

(* A save, a move or a heartbeat changes the row and not the text. *)
Touch(d) ==
    /\ state[d] # "Deleted"
    /\ requests < MaxRequests
    /\ ~ \E s \in Sessions : d \in session[s].wrote
    /\ requests' = requests + 1
    /\ session' = Outdate({}, {d})
    /\ UNCHANGED <<texts, version, state, marker, cached, rows>>

(* on_trash: both cascades, which wait for rows not committed yet. *)
Trash(d) ==
    LET own == {Id(r) : r \in RowsOf(rows, d)}
    IN  /\ state[d] # "Deleted"
        /\ ~ \E s \in Sessions : \E w \in session[s].wrote : w = d \/ (w \in Ids /\ w.doc = d)
        /\ state' = [state EXCEPT ![d] = "Deleted"]
        /\ rows' = rows \ RowsOf(rows, d)
        /\ session' = Outdate({}, own \cup {d})
        /\ UNCHANGED <<texts, version, marker, cached, requests>>

(* Redis forgets after _SCAN_CACHE_TTL. *)
Expire(d) ==
    /\ cached[d] # 0
    /\ cached' = [cached EXCEPT ![d] = 0]
    /\ UNCHANGED <<texts, version, state, marker, rows, session, requests>>

-----------------------------------------------------------------------------

Init ==
    /\ texts = [d \in Documents |-> [v \in 1..MaxVersions |-> {}]]
    /\ version = [d \in Documents |-> 0]
    /\ state = [d \in Documents |-> "Draft"]
    /\ marker = [d \in Documents |-> 0]
    /\ cached = [d \in Documents |-> 0]
    /\ rows = {}
    /\ session = [s \in Sessions |-> Closed]
    /\ requests = 0

Scan(s) ==
    \E d \in Documents :
        ScanPatterns(s, d) \/ LosePatterns(s, d) \/ ScanSemantic(s, d)
            \/ SkipSemantic(s, d) \/ Conflict(s, d)

Next ==
    \/ OpenPatternTick \/ OpenSemanticTick
    \/ \E u \in Users, kind \in Kinds, d \in Documents : OpenRequest(u, kind, d)
    \/ \E s \in Sessions : Scan(s) \/ Commit(s) \/ Abort(s)
    \/ \E d \in Documents : Process(d) \/ Touch(d) \/ Trash(d) \/ Expire(d)

Spec == Init /\ [][Next]_vars

-----------------------------------------------------------------------------
(* Properties *)

TypeOK ==
    /\ texts \in [Documents -> [1..MaxVersions -> SUBSET Keys]]
    /\ version \in [Documents -> Versions]
    /\ state \in [Documents -> States]
    /\ marker \in [Documents -> Versions]
    /\ cached \in [Documents -> Versions]
    /\ rows \subseteq Row
    /\ session \in [Sessions -> Session]
    /\ requests \in 0..MaxRequests

(* Every row names something that the version of the document it carries the  *)
(* checksum of contains, however long a model took to answer and whatever     *)
(* happened to the document meanwhile (scan_document_semantic, scan_document).*)
RowsQuoteTheirText ==
    \A r \in rows : Grounded(r.key, TextOf(r.doc, r.source))

(* A document marked as scanned at its checksum has a row for each of the     *)
(* first max_entities values of its text, one each, and no pattern row        *)
(* besides: scans at the same time neither lose, double nor mix rows          *)
(* (scan_document, _mark_scanned).                                            *)
MarkedIsComplete ==
    \A d \in Present : marker[d] # 0 /\ marker[d] = version[d] =>
        LET found == {r \in RowsOf(rows, d) : r.key \in Patterns}
        IN  /\ {r.key : r \in found} = Extracted(TextOf(d, version[d]))
            /\ \A r, q \in found : r.key = q.key => r = q
            /\ \A r \in found : r.source = version[d]
=============================================================================
