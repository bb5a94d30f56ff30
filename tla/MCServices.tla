----------------------------- MODULE MCServices -----------------------------
(* Services that decide something on their own, one case at a time: a case is *)
(* one of the state machines of Services, a question of search, routing,      *)
(* permissions or lists, or one text of a translation, which is judged where  *)
(* it stands.                                                                 *)
EXTENDS Services, TLC

CONSTANTS
    name, link, a, b, upper, n, brand,
    Space, Newline, Stop, Mark, Page, Escape

SeqsUpTo(S, k) == UNION {[1..m -> S] : m \in 0..k}

-----------------------------------------------------------------------------
(* Entities: a text with one value more than is kept, one that holds the      *)
(* relationship and its names, and one with the evidence of it only.          *)

MCEnds(l) == {name}
MCTexts == {{1, 2, link}, {name, link}}

-----------------------------------------------------------------------------
(* Providers. *)

MCTypeOf(m) == IF m = "chat" THEN "Chat" ELSE IF m = "embed" THEN "Embedding" ELSE None

-----------------------------------------------------------------------------
(* The tree: folder x with a file, the document made from it and a subfolder  *)
(* with a text document, and an empty folder y; operations in two sessions.   *)

InX == <<<<"x", 0>>>>
InY == <<<<"y", 0>>>>
InXY == <<<<"x", 0>>, <<"y", 0>>>>

MCStart ==
    [folders |-> {<<>>, InX, InY, InXY},
     files |-> [f1 |-> [folder |-> InX, owner |-> "d1"], f2 |-> None],
     docs |-> [d1 |-> [folder |-> InX, recorded |-> InX, src |-> "f1", name |-> <<"x", 0>>, rev |-> 0],
               d2 |-> [folder |-> InXY, recorded |-> InXY, src |-> None, name |-> <<"y", 0>>, rev |-> 0],
               d3 |-> None]]

Of(kind, fields) == [kind |-> kind] @@ fields

MCMoves ==
    UNION {
      {Of("CreateFolder", [to |-> p, name |-> <<"x", 0>>]) : p \in {InX, InY}},
      {Of("Upload", [to |-> InX, doc |-> d, name |-> <<"x", 0>>]) : d \in {None, "d2"}},
      {Of("NewDocument", [to |-> InX, file |-> f, name |-> <<"y", 0>>]) : f \in {None, "f1"}},
      {Of("MoveFile", [to |-> InY, file |-> "f1"])},
      {Of("CopyFile", [to |-> InXY, file |-> "f1"])},
      {Of("DeleteFile", [file |-> f]) : f \in {"f1", "f2"}},
      {Of("RenameDocument", [doc |-> "d1", name |-> <<"y", 0>>])},
      {Of("MoveDocument", [doc |-> d, to |-> p]) : d \in {"d1", "d2"}, p \in {InX, InY}},
      {Of("CopyDocument", [doc |-> "d1", to |-> p]) : p \in {InX, InXY}},
      {Of("DeleteDocument", [doc |-> d]) : d \in {"d1", "d3"}},
      {Of("RenameFolder", [path |-> InX, name |-> <<"x", 1>>])},
      {Of("MoveFolder", [path |-> p, to |-> InY]) : p \in {InX, InXY}},
      {Of("CopyFolder", [path |-> InX, to |-> InY])},
      {Of("DeleteFolder", [path |-> p]) : p \in {InX, InXY}},
      {Of("DeleteFiles", [path |-> InY])},
      {Of("Bulk", [nodes |-> <<Of("MoveDocument", [doc |-> "d2", to |-> InY]),
                               Of("MoveFolder", [path |-> InX, to |-> InY])>>])},
      {Of("Bulk", [nodes |-> <<Of("DeleteDocument", [doc |-> "d1"]),
                               Of("DeleteFolder", [path |-> InXY])>>])}}

-----------------------------------------------------------------------------
(* Searches: three documents in two bases, five chunks. *)

MCChunks == 1..5
MCDocOf(c) == <<"d1", "d1", "d2", "d3", "d3">>[c]
MCBaseOf(d) == IF d = "d3" THEN "b2" ELSE "b1"
MCPlaceOf(c) == <<2, 1, 1, 1, 2>>[c]
MCTermsOf(c) == <<[latin |-> 1, arab |-> 0], [latin |-> 2, arab |-> 0], [latin |-> 0, arab |-> 1],
                  [latin |-> 1, arab |-> 3], [latin |-> 0, arab |-> 0]>>[c]
MCEmbeddedBy(c) == <<"m1", "m1", "m2", "m2", "m2">>[c]
MCSimilarity(c) == <<1, 3, 3, 2, 2>>[c]
MCPolicy(base) == IF base = "b1" THEN [model |-> "m1", topK |-> 2, threshold |-> 2]
                  ELSE [model |-> "m2", topK |-> 1, threshold |-> 0]

AnyRequest ==
    [accessible |-> {"b1", "b2"}, bases |-> {}, documents |-> {}, entity |-> None, folder |-> None,
     type |-> "Hybrid", threshold |-> None, model |-> None, weights |-> None,
     terms |-> {"latin"}, indexed |-> TRUE, down |-> {}, topK |-> 2, offset |-> 0]

(* What is asked for, in every combination; *)
Scopes ==
    {[AnyRequest EXCEPT !.accessible = acc, !.bases = bases, !.documents = docs, !.entity = entity,
          !.folder = folder, !.down = down] :
        acc \in {{"b1"}, {"b1", "b2"}}, bases \in {{}, {"b1"}, {"b2"}},
        docs \in SUBSET {"d1", "d2", "d3"}, entity \in {None} \cup SUBSET {"d1", "d3"},
        folder \in {None} \cup SUBSET {"d1", "d2"}, down \in {{}, {"m1", "m2"}}}

(* and how it is ranked. *)
Rankings ==
    {[AnyRequest EXCEPT !.documents = docs, !.type = type, !.threshold = threshold, !.model = asked,
          !.weights = weights, !.terms = terms, !.indexed = indexed, !.down = down] :
        docs \in {{}, {"d2", "d3"}}, type \in {"Semantic", "Keyword", "Hybrid"}, threshold \in {None, 3},
        asked \in {None, "m1", "m3"}, weights \in {None, [b1 |-> 1, b2 |-> 2], [b1 |-> 0, b2 |-> 1]},
        terms \in SUBSET {"latin", "arab"}, indexed \in BOOLEAN, down \in {{}, {"m1"}, {"m1", "m2"}}}

MCSearches == Scopes \cup Rankings

MCContexts ==
    [blocks : SeqsUpTo([doc : {"d1", "d2"}, gist : {1, 2}, header : {1}, content : {2, 5}], 3),
     limit : {0, 1, 4, 6, 9, 20}]

-----------------------------------------------------------------------------
(* Calls: three models of two providers. *)

AModel(at, type, supports, enabled, preferred) ==
    [provider |-> at, type |-> type, supports |-> supports, enabled |-> enabled, default |-> preferred,
     runtime |-> "x", family |-> "f", size |-> "s", window |-> 8, dimensions |-> 0, maxTokens |-> 0,
     parameter |-> None]

Everything == {"streaming", "tools", "json_mode", "vision", "embeddings"}

Platforms ==
    {[models |-> <<AModel("p1", type1, supports1, enabled1, FALSE),
                   AModel(provider2, type2, supports2, enabled2, default2),
                   AModel("p2", "Vision", {"vision"}, TRUE, FALSE)>>,
      providers |-> [p1 |-> [enabled |-> TRUE, status |-> "Online", priority |-> 0, transports |-> Everything],
                     p2 |-> p2],
      configured |-> [t \in {"Chat", "Embedding", "Vision", "Completion"} |-> configured],
      refused |-> refused, maxTokens |-> 512] :
        type1 \in {"Chat", "Vision", "Embedding"}, type2 \in {"Chat", "Completion", "Vision", "Embedding"},
        supports1 \in {{"tools"}, {"tools", "vision"}}, supports2 \in {{}, {"tools"}, {"tools", "vision"}},
        enabled1 \in BOOLEAN, enabled2 \in BOOLEAN, default2 \in BOOLEAN, provider2 \in {"p1", "p2"},
        p2 \in [enabled : {TRUE}, status : {"Online", "Offline"}, priority : {20},
                transports : {Everything, {"vision"}}],
        configured \in {None, 2}, refused \in SUBSET {<<2, "tools">>}}

MCCalls ==
    [pf : Platforms,
     call : [model : {None, 1}, needs : {{}, {"tools"}, {"tools", "vision"}}, failover : {TRUE},
             maxTokens : {None}]]

MCVectors == [dimensions : {0, 2}, first : SeqsUpTo(0..2, 2), second : SeqsUpTo(0..2, 2)]

-----------------------------------------------------------------------------
(* Permissions: three bases, two agents, conversations and folders. *)

MCGrants(base) ==
    [public |-> base = "open", readers |-> IF base = "closed" THEN {} ELSE {"Reader", "Writer"},
     writers |-> IF base = "shared" THEN {"Writer"} ELSE {}]
MCAgentRoles(agent) == IF agent = "t2" THEN {"Reader"} ELSE {}
MCOwnerOf(conversation) ==
    IF conversation = "t1" THEN [user |-> "ann", owner |-> "bob"] ELSE [user |-> "bob", owner |-> "ann"]
MCListsFile(file, user) == file = "t1"
MCPermitsFile(file, user, ptype) == file = "t1" /\ ptype = "read"

MCOpenings ==
    [dt : A!DocTypes,
     user : [name : {"ann", "Administrator"},
             roles : SUBSET {"AI Auditor", "Reader"} \cup {{"AI Manager"}, {"Writer"}}]]

MCRows ==
    {[owner |-> owner, user |-> user, by |-> by, base |-> base, scope |-> scope[1], value |-> scope[2],
      tied |-> tied] :
        owner \in {"ann", "bob"}, user \in {"ann", "bob"}, by \in {"ann", "bob"},
        base \in {None, "open", "shared", "closed"}, tied \in {None, "t1", "t2"},
        scope \in {<<"Global", None>>, <<"User", "ann">>, <<"User", "bob">>, <<"Role", "Reader">>,
                   <<"Agent", "t1">>, <<"Agent", "t2">>}}

-----------------------------------------------------------------------------
(* Lists: views of up to five folders and seven documents, libraries of three *)
(* files, and panels of six folders.                                          *)

MCShared == <<8>>
MCAttachments == <<9>>

MCViews == [folders : 0..5, docs : SeqsUpTo(BOOLEAN, 7), search : BOOLEAN, readable : {TRUE}]

LibraryDocument(base) == [source : {"u"}, record : {None, 1, 2}, visible : BOOLEAN, base : base]

LibraryFiles ==
    [1..2 -> [url : {None, "u", "w"}, attached : {None, 1}]] \cup [1..3 -> [url : {"u", "w"}, attached : {None, 1}]]

MCLibraries ==
    [files : LibraryFiles, docs : [1..1 -> LibraryDocument({1})], recent : {<<1>>}]
    \cup [files : LibraryFiles, docs : {<<d, e>> : d \in LibraryDocument({1}), e \in LibraryDocument({1, 2})},
          recent : {<<1, 2>>, <<2, 1>>}]

Paths == {<<>>, <<1>>, <<2>>, <<1, 1>>, <<1, 2>>, <<1, 1, 1>>}

MCPanels ==
    [folders : {Paths}, readable : SUBSET Paths, favorites : {Paths, {<<1>>, <<9>>}},
     recent : {<<<<1>>, <<1, 1>>, <<2>>>>}, order : {<<<<1>>, <<2>>, <<1, 1>>>>}]

MCUploads ==
    {[fs |-> [folders |-> {<<>>} \cup more, readable |-> readable, writable |-> writable],
      up |-> [storage |-> storage, attached |-> attached, own |-> own, create |-> create]] :
        more \in SUBSET {<<1>>, <<8>>, <<9>>}, readable \in SUBSET {<<>>, <<1>>, <<8>>},
        writable \in SUBSET {<<>>, <<1>>}, storage \in {None, <<1>>}, attached \in {None, <<1>>, <<7>>},
        own \in {None, <<1>>}, create \in BOOLEAN}

-----------------------------------------------------------------------------
(* Translations. *)

MCSpans == <<{<<brand, brand>>}, {<<brand>>}, {<<a, n, n>>, <<a, n>>}, {<<n>>, <<n, n>>}>>
MCPenalty(i) == [empty |-> 100, placeholder_lost |-> 35, placeholder_unresolved |-> 32][i]
MCLower(c) == IF c = upper THEN a ELSE c

X == INSTANCE TranslationText WITH
        Letters <- {a, b, upper}, MinSegment <- 2, MaxSegment <- 3, Spans <- MCSpans,
        Penalty <- MCPenalty, Lower <- MCLower, ReviewThreshold <- 70

Layouts == SeqsUpTo({a, Space, Newline, Stop}, 5) \cup SeqsUpTo({a, Space, Newline, Page, Mark}, 4)
Answers == SeqsUpTo({a, n, brand, X!Sentinel(1), X!Sentinel(2), X!Sentinel(9)}, 3)
Noises == {<<>>, <<<<1, <<"noise", 0>>>>, <<7, <<"noise", 0>>>>>>}

GlossaryRows == [terms : [{"en", "he"} -> {<<>>, <<a>>, <<upper>>}], keep : BOOLEAN, exact : BOOLEAN]
Glossaries == [rows : {{r, s} : r \in GlossaryRows, s \in GlossaryRows}, text : SeqsUpTo({a, upper, Space}, 3)]

-----------------------------------------------------------------------------

ASSUME TextsAssumption == X!TranslationTextAssumption

Inputs ==
    \/ case \in [kind : {"layout"}, in : Layouts]
    \/ case \in [kind : {"masked"}, in : SeqsUpTo({a, n, brand, b}, 4)]
    \/ case \in [kind : {"load"}, in : SeqsUpTo(1..3, 4)]
    \/ case \in [kind : {"glossary"}, in : Glossaries]

MCInit ==
    \/ ServicesInit
    \/ Init /\ Inputs /\ NoChecks /\ NoTree

MCSpec == MCInit /\ [][ServicesNext]_allvars

-----------------------------------------------------------------------------
(* Segments join to the text they were cut from, each travels in one batch    *)
(* and gets its own answer, what must not be translated comes back or is      *)
(* reviewed, and a model is told of the terms it is judged by (segment_text,  *)
(* plan_batches, protect_placeholders, applicable_glossary).                  *)
TextsSound ==
    /\ case.kind = "layout" => \A limit \in 1..4 : X!LayoutSurvives(X!Normalised(case.in), limit)
    /\ case.kind = "masked" => X!PlaceholdersReturn(case.in, Answers)
    /\ case.kind = "load" =>
           \A characters \in 1..5, most \in 1..3, noise \in Noises :
               X!EachSegmentOnce(case.in, characters, most, noise)
    /\ case.kind = "glossary" =>
           \A translated \in {<<>>, <<a>>, <<upper>>, <<upper, a>>} :
               X!GlossaryTold(case.in.rows, "en", "he", case.in.text, translated)
=============================================================================
