----------------------------- MODULE Retrieval ------------------------------
(* Retrieval of the chunks of documents for a question, and the context that  *)
(* is packed from them: ai/retrieval.py and ai/retrieval_utils.py, as         *)
(* operators on a request and a corpus.                                       *)
(*                                                                            *)
(* Chunks are integers in the order of their names, which is the order of     *)
(* pages and breaks ties. Similarity and term counts are integers; a share of *)
(* reciprocal rank fusion is a whole number of units. Ties between knowledge  *)
(* bases are broken by name too, where the code goes by the first chunk of a  *)
(* knowledge base. Lengths stand for texts in the packing.                    *)
(*                                                                            *)
(* An operator X_Y just before an operator X is X with a plausible mistake in *)
(* it, to see that the properties notice.                                     *)
EXTENDS Integers, Sequences, FiniteSets, FiniteSetsExt

CONSTANTS
    Chunks,         \* a set of integers
    DocOf(_),       \* the document of a chunk
    BaseOf(_),      \* the knowledge base of a document
    PlaceOf(_),     \* chunk_index
    TermsOf(_),     \* how often a chunk contains each term
    EmbeddedBy(_),  \* embedding_model of a chunk
    Similarity(_),  \* of a chunk to the question
    Policy(_),      \* embedding_model, top_k and similarity_threshold of a base
    Latin,          \* terms the full-text index knows
    Depth,          \* RRF_K
    Unit,           \* bound: a multiple of Depth + 1, .. , Depth + |Chunks|
    MinExcerpt,     \* MIN_CONTEXT_EXCERPT
    Separator,      \* length of the separator of two blocks
    None

-----------------------------------------------------------------------------
(* Scores: functions on the chunks they are for. *)

Only(scores, keep(_)) == [c \in {x \in DOMAIN scores : keep(x)} |-> scores[c]]

Base(c) == BaseOf(DocOf(c))

RetrievalAssumption ==
    /\ Chunks \subseteq Int /\ IsFiniteSet(Chunks)
    /\ \A c \in Chunks : Similarity(c) \in Int
    /\ Depth \in Nat /\ Unit \in Nat /\ MinExcerpt \in Nat /\ Separator \in Nat

(* What a request is: weights are of knowledge bases, and terms are counted. *)
IsRequest(rq) ==
    /\ DOMAIN rq = {"accessible", "bases", "documents", "entity", "folder", "type", "threshold",
                    "model", "weights", "terms", "indexed", "down", "topK", "offset"}
    /\ IsFiniteSet(rq.terms) /\ \A c \in Chunks, t \in rq.terms : TermsOf(c)[t] \in Nat
    /\ rq.weights # None => \A c \in Chunks : rq.weights[Base(c)] \in Nat
    /\ rq.topK \in Nat /\ rq.offset \in Nat

(* Blocks of a context, and the characters it may have. *)
IsContext(blocks, limit) ==
    /\ DOMAIN blocks = 1..Len(blocks) /\ Len(blocks) \in Nat /\ limit \in Nat
    /\ \A i \in 1..Len(blocks) : blocks[i].header \in Nat \ {0} /\ blocks[i].content \in Nat

Better(scores, x, y) == scores[x] > scores[y] \/ (scores[x] = scores[y] /\ x < y)

(* The place of a chunk among those of a set, from 1. *)
RankIn(scores, S, c) == 1 + Cardinality({x \in S : Better(scores, x, c)})

(* A limit of zero means that of the platform, one at least. *)
TakeTopPerGroup(scores, limit) ==
    LET Group(c) == {x \in DOMAIN scores : Base(x) = Base(c)}
        Best(c) == RankIn(scores, Group(c), c) <= limit[Base(c)]
    IN  Only(scores, Best)

ApplyThreshold(scores, threshold) ==
    LET Reaches(c) == threshold <= 0 \/ scores[c] >= threshold IN Only(scores, Reaches)

ApplyGroupThresholds(scores) ==
    LET Reaches(c) == Policy(Base(c)).threshold <= 0 \/ scores[c] >= Policy(Base(c)).threshold
    IN  Only(scores, Reaches)

(* Reciprocal rank fusion. *)
Share(scores, c) ==
    IF c \in DOMAIN scores THEN Unit \div (Depth + RankIn(scores, DOMAIN scores, c)) ELSE 0

FuseRRF(first, second) ==
    [c \in DOMAIN first \cup DOMAIN second |-> Share(first, c) + Share(second, c)]

(* Weights of knowledge bases in percent; none at all weigh nothing. *)
ApplyIdentityWeights(scores, weights) ==
    IF weights = None THEN scores
    ELSE [c \in {x \in DOMAIN scores : weights[Base(x)] > 0} |-> scores[c] * weights[Base(c)]]

(* Chunks by score, best first, and a page of them. *)
OrderedNames(scores) ==
    [i \in 1..Cardinality(DOMAIN scores) |->
        CHOOSE c \in DOMAIN scores : RankIn(scores, DOMAIN scores, c) = i]

AtMost(n, most) == IF n < most THEN n ELSE most

SlicePage(ordered, offset, limit) ==
    SubSeq(ordered, offset + 1, AtMost(offset + limit, Len(ordered)))

-----------------------------------------------------------------------------
(* The scope of a request: knowledge bases, documents, the documents that     *)
(* mention an entity and those of a folder; each None or {} where not asked   *)
(* for. Only knowledge bases the user may read are searched.                  *)

Allowed(rq) == IF rq.bases = {} THEN rq.accessible ELSE rq.bases \cap rq.accessible

Narrowed(scope, documents) ==
    IF documents = None THEN scope
    ELSE IF scope = {} THEN documents ELSE scope \cap documents

(* An entity or a folder that leaves nothing ends the search: an empty scope  *)
(* would mean every document further on.                                      *)
LeavesNothing_Asked(scope, documents) == documents = {}

LeavesNothing(scope, documents) == documents # None /\ Narrowed(scope, documents) = {}

ScopeOf(rq) == Narrowed(Narrowed(rq.documents, rq.entity), rq.folder)

EmptyScope(rq) ==
    \/ LeavesNothing(rq.documents, rq.entity)
    \/ LeavesNothing(Narrowed(rq.documents, rq.entity), rq.folder)

(* The chunks that are searched: of documents in scope whose knowledge base   *)
(* is allowed, or of all that are.                                            *)
Corpus(rq) ==
    {c \in Chunks : Base(c) \in Allowed(rq) /\ (ScopeOf(rq) # {} => DocOf(c) \in ScopeOf(rq))}

Targets(rq) == {Base(c) : c \in Corpus(rq)}

-----------------------------------------------------------------------------
(* Keyword search. *)

Hits(c, terms) == MapThenSumSet(LAMBDA t : TermsOf(c)[t], terms)

Distinct(c, terms) == Cardinality({t \in terms : TermsOf(c)[t] > 0})

(* 0.7 for the share of the terms, 0.3 for up to twenty hits; in units of     *)
(* 1 / (200 * number of terms).                                               *)
KeywordScore(c, terms) ==
    Distinct(c, terms) * 140 + AtMost(Hits(c, terms), 20) * 3 * Cardinality(terms)

(* The full-text index wants every term, knows Latin words only, and ranks by *)
(* a relevance of its own.                                                    *)
KeywordFulltext(rq) ==
    [c \in {x \in Corpus(rq) : \A t \in rq.terms : TermsOf(x)[t] > 0} |-> Hits(c, rq.terms)]

(* Otherwise every chunk with any of the terms. *)
KeywordLikeScan(rq) ==
    [c \in {x \in Corpus(rq) : Distinct(x, rq.terms) > 0} |-> KeywordScore(c, rq.terms)]

UsesFulltext(rq) == rq.indexed /\ rq.terms \subseteq Latin /\ DOMAIN KeywordFulltext(rq) # {}

KeywordSearch(rq) ==
    IF rq.terms = {} THEN <<>>
    ELSE IF UsesFulltext(rq) THEN KeywordFulltext(rq) ELSE KeywordLikeScan(rq)

-----------------------------------------------------------------------------
(* Semantic search: the question is embedded once for each model, and         *)
(* compared with the chunks that model embedded.                              *)

(* The model a knowledge base is searched with; None: it is not. An explicit  *)
(* model leaves the others out, unless no base has it.                        *)
GroupModel(rq, b) ==
    IF rq.model = None THEN Policy(b).model
    ELSE IF Policy(b).model \in {rq.model, None} THEN rq.model
    ELSE IF \E x \in Targets(rq) : Policy(x).model \in {rq.model, None} THEN None
    ELSE rq.model

ModelsAsked(rq) == {GroupModel(rq, b) : b \in Targets(rq)} \ {None}

(* Chunks of another model are stale: their vectors say nothing here. *)
Comparable(c, m) == EmbeddedBy(c) = m

SemanticSearch(rq) ==
    [c \in {x \in Corpus(rq) :
               LET m == GroupModel(rq, Base(x))
               IN  m \notin rq.down \cup {None} /\ Comparable(x, m)}
        |-> Similarity(c)]

(* Nothing was found because no model answered. *)
SemanticFails(rq) == ModelsAsked(rq) # {} /\ ModelsAsked(rq) \subseteq rq.down

-----------------------------------------------------------------------------
(* run_retrieval *)

Bases == {Base(c) : c \in Chunks}

TopKOf == [b \in Bases |-> Policy(b).topK]

(* Attached documents skip the threshold. *)
AboveThreshold(rq, scores) ==
    IF ScopeOf(rq) # {} THEN scores
    ELSE IF rq.threshold # None THEN ApplyThreshold(scores, rq.threshold)
    ELSE ApplyGroupThresholds(scores)

SemanticOf_Page(rq) ==
    IF rq.type = "Keyword" \/ SemanticFails(rq) THEN <<>>
    ELSE TakeTopPerGroup(AboveThreshold(rq, SemanticSearch(rq)), [b \in Bases |-> rq.topK])

SemanticOf(rq) ==
    IF rq.type = "Keyword" \/ SemanticFails(rq) THEN <<>>
    ELSE TakeTopPerGroup(AboveThreshold(rq, SemanticSearch(rq)), TopKOf)

KeywordOf(rq) == IF rq.type = "Semantic" THEN <<>> ELSE TakeTopPerGroup(KeywordSearch(rq), TopKOf)

Fused(rq) ==
    LET scores == CASE rq.type = "Semantic" -> SemanticOf(rq)
                    [] rq.type = "Keyword" -> KeywordOf(rq)
                    [] OTHER -> FuseRRF(SemanticOf(rq), KeywordOf(rq))
    IN  ApplyIdentityWeights(scores, rq.weights)

(* Documents that were attached say something in any case: how they begin,    *)
(* all with the same score.                                                   *)
Excerpt_Documents(rq) == [c \in {x \in Chunks : DocOf(x) \in ScopeOf(rq)} |-> 1]

Excerpt(rq) ==
    LET Before(x, y) == PlaceOf(x) < PlaceOf(y) \/ (PlaceOf(x) = PlaceOf(y) /\ x < y)
        Earlier(c) == {x \in Corpus(rq) : Before(x, c)}
    IN  [c \in {x \in Corpus(rq) : Cardinality(Earlier(x)) < rq.topK} |-> 1]

Found(rq) ==
    OrderedNames(IF DOMAIN Fused(rq) = {} /\ ScopeOf(rq) # {} THEN Excerpt(rq) ELSE Fused(rq))

(* The answer, or "error": a semantic search no model answered. *)
RunRetrieval(rq) ==
    IF Allowed(rq) = {} \/ EmptyScope(rq) \/ Targets(rq) = {} THEN <<>>
    ELSE IF rq.type = "Semantic" /\ SemanticFails(rq) THEN "error"
    ELSE SlicePage(Found(rq), rq.offset, rq.topK)

(* Which path found a chunk. *)
RetrievalMethod(rq, c) ==
    CASE c \in DOMAIN SemanticOf(rq) /\ c \in DOMAIN KeywordOf(rq) -> "hybrid"
      [] c \in DOMAIN SemanticOf(rq) /\ c \notin DOMAIN KeywordOf(rq) -> "semantic"
      [] c \in DOMAIN KeywordOf(rq) /\ c \notin DOMAIN SemanticOf(rq) -> "keyword"
      [] OTHER -> "unknown"

(* What the diagnostics call degraded. *)
Degraded(rq) ==
    {r \in {"semantic_embedding_failed", "fulltext_empty_fell_back_to_like"} :
        \/ r = "semantic_embedding_failed" /\ rq.type # "Keyword" /\ ModelsAsked(rq) \cap rq.down # {}
        \/ r = "fulltext_empty_fell_back_to_like" /\ rq.type # "Semantic"
              /\ rq.terms # {} /\ rq.indexed /\ rq.terms \subseteq Latin /\ ~UsesFulltext(rq)}

-----------------------------------------------------------------------------
(* Packing: blocks are records of a document, a gist that near-duplicates     *)
(* share, and the lengths of header and content.                              *)

ChunksOverlap(a, b) == a.doc = b.doc /\ a.gist = b.gist

(* The length a block takes of what remains; 0: it does not fit. The first is *)
(* cut to fit, a later one only if an excerpt worth reading remains.          *)
FitBlock_Whole(block, remaining, force) ==
    LET whole == block.header + 1 + block.content
    IN  IF whole <= remaining THEN whole ELSE 0

FitBlock(block, remaining, force) ==
    LET overhead == block.header + 1
        available == remaining - overhead
    IN  IF available <= 0
        THEN IF force /\ remaining >= block.header THEN block.header ELSE 0
        ELSE IF block.content <= available THEN overhead + block.content
        ELSE IF force \/ available >= MinExcerpt THEN remaining ELSE 0

(* One more block: skipped if it repeats one that is kept, the last one if it *)
(* does not fit.                                                              *)
PackNext(limit, packed, block) ==
    LET first == packed.kept = <<>>
        cost == IF first THEN 0 ELSE Separator
        taken == FitBlock(block, limit - packed.used - cost, first)
    IN  IF packed.full \/ \E i \in 1..Len(packed.kept) : ChunksOverlap(packed.kept[i], block)
        THEN packed
        ELSE IF taken = 0 THEN [packed EXCEPT !.full = ~first]
        ELSE [kept |-> Append(packed.kept, block), used |-> packed.used + cost + taken,
              full |-> packed.used + cost + taken >= limit]

PackContextBlocks(blocks, limit) ==
    LET packed[i \in 0..Len(blocks)] ==
            IF i = 0 THEN [kept |-> <<>>, used |-> 0, full |-> limit <= 0]
            ELSE PackNext(limit, packed[i - 1], blocks[i])
    IN  packed[Len(blocks)]

(* The characters that the context window leaves, in tokens of four. *)
ContextLimit(limit, window, reserve) ==
    LET tokens == IF window - reserve - 512 > 256 THEN window - reserve - 512 ELSE 256
    IN  IF window = 0 THEN limit ELSE AtMost(limit, tokens * 4)

-----------------------------------------------------------------------------
(* Properties of a request or of blocks; Services says of which. *)

(* Whatever a request combines and whatever falls back, it is answered with   *)
(* chunks of knowledge bases the user may read and asked for, of the          *)
(* documents, the folder and the entity asked for (run_retrieval).            *)
StaysInScope(rq) ==
    LET answer == RunRetrieval(rq)
    IN  answer # "error" =>
            \A i \in 1..Len(answer) :
                LET c == answer[i]
                IN  /\ Base(c) \in rq.accessible
                    /\ rq.bases # {} => Base(c) \in rq.bases
                    /\ rq.documents # {} => DocOf(c) \in rq.documents
                    /\ rq.entity # None => DocOf(c) \in rq.entity
                    /\ rq.folder # None => DocOf(c) \in rq.folder

(* Turning the pages of an answer meets no chunk twice and leaves none out    *)
(* that a larger page would show, unless the answer is excerpts of the        *)
(* documents it was asked about (take_top_per_group, slice_page).             *)
PagesJoin(rq) ==
    LET PageAt(offset, k) == RunRetrieval([rq EXCEPT !.offset = offset, !.topK = k])
    IN  (DOMAIN Fused(rq) # {} \/ ScopeOf(rq) = {}) /\ PageAt(0, 2) # "error" =>
            PageAt(0, 2) = PageAt(0, 1) \o PageAt(1, 1)

(* A context fits its limit, quotes in the order of the ranking, repeats      *)
(* nothing, and is empty only if not even the smallest header fits            *)
(* (pack_context_blocks, RET-06).                                             *)
ContextSound(blocks, limit) ==
    LET packed == PackContextBlocks(blocks, limit)
    IN  /\ packed.used <= limit
        /\ \A i, j \in 1..Len(packed.kept) :
              ChunksOverlap(packed.kept[i], packed.kept[j]) => i = j
        /\ \E place \in [1..Len(packed.kept) -> 1..Len(blocks)] :
              /\ \A i, j \in 1..Len(packed.kept) : i < j => place[i] < place[j]
              /\ \A i \in 1..Len(packed.kept) : packed.kept[i] = blocks[place[i]]
        /\ packed.kept = <<>> => \A i \in 1..Len(blocks) : limit < blocks[i].header \/ limit <= 0
=============================================================================
