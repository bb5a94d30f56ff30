----------------------------- MODULE TreeViews ------------------------------
(* What the tree of folders and documents shows: get_children of              *)
(* ai/document_tree.py, which sends folders and documents page by page, and   *)
(* the reading half of ai/folders.py. A list of Frappe holds the rows the     *)
(* user may see, in an order that does not change while pages are turned.     *)
(*                                                                            *)
(* A view v of get_children has the number of folders that match, and for     *)
(* each document that matches whether the user can read the folder it is in.  *)
(* Nodes are <<"folder", i>> and <<"document", i>>; a cursor is the kind and  *)
(* the position of a continuation, None when there is none, and position 0    *)
(* stands for the empty anchor too. A library lb has the rows the other lists *)
(* are made from. X_Y is X with a plausible mistake in it.                    *)
EXTENDS Integers, Sequences, FiniteSets, FiniteSetsExt

CONSTANTS
    ScanLimit,      \* _SEARCH_DOCUMENT_SCAN_LIMIT
    MinPage,        \* what get_children makes of a smaller limit: 10
    MaxPage,        \* MAX_PAGE_LENGTH
    TopTabs,        \* how many folders below Home get_tabs looks at: 12
    BaseScan,       \* how many documents of a knowledge base search looks at
    SharedFolder, AttachmentsFolder,    \* folders that uploads fall back to
    None

TreeViewsAssumption ==
    /\ MinPage \in Nat \ {0} /\ MaxPage \in Nat \ {0} /\ TopTabs \in Nat /\ BaseScan \in Nat
    /\ MinPage <= MaxPage /\ MaxPage < ScanLimit /\ ScanLimit \in Nat
    /\ None \notin {"folder", "document", "document_after"} \X Nat

(* What the rows are that lists are made from: every folder but Home lies in  *)
(* one, and documents are listed by the time of their change.                 *)
IsView(v) ==
    /\ v.folders \in Nat /\ v.docs \in Seq(BOOLEAN) /\ v.search \in BOOLEAN /\ v.readable \in BOOLEAN

IsLibrary(lb) ==
    /\ Len(lb.files) \in Nat /\ DOMAIN lb.files = 1..Len(lb.files)
    /\ Len(lb.docs) \in Nat /\ DOMAIN lb.docs = 1..Len(lb.docs)
    /\ DOMAIN lb.recent = DOMAIN lb.docs
    /\ None \notin DOMAIN lb.files \cup DOMAIN lb.docs
    /\ {lb.recent[i] : i \in DOMAIN lb.recent} = DOMAIN lb.docs

IsPanel(fs) ==
    /\ fs.folders \subseteq Seq(Nat) /\ IsFiniteSet(fs.folders) /\ fs.readable \subseteq fs.folders
    /\ \A p \in fs.folders : p # <<>> => SubSeq(p, 1, Len(p) - 1) \in fs.folders

IsUpload(fs) == <<>> \in fs.folders

AtMost(a, b) == IF a < b THEN a ELSE b

Take(seq, n) == SubSeq(seq, 1, AtMost(n, Len(seq)))

(* The numbers of a set in their order, and the first n places of a sequence  *)
(* at which a member is to be kept.                                           *)
InOrder(S) == [i \in 1..Cardinality(S) |-> CHOOSE x \in S : Cardinality({y \in S : y < x}) = i - 1]

FirstPlaces(seq, n, Keep(_)) ==
    {i \in DOMAIN seq : Keep(seq[i]) /\ Cardinality({j \in 1..i : Keep(seq[j])}) <= n}

-----------------------------------------------------------------------------
(* The pages of the tree. *)

First == <<"folder", 0>>

Numbered(kind, from, to) == [i \in 1..(IF to < from THEN 0 ELSE to - from + 1) |-> <<kind, from + i - 1>>]

FolderRows(v, start, length) == Numbered("folder", start + 1, AtMost(v.folders, start + length))

(* fetch_documents: children of a folder the user was found to read. *)
ChildDocuments_Fenced(v, start, length) ==
    LET rows == Numbered("document", start + 1, AtMost(Len(v.docs), start + length + 1))
    IN  [nodes |-> Take(rows, length), next |-> IF Len(rows) > length + 1 THEN <<"document", start + length>> ELSE None]

ChildDocuments(v, start, length) ==
    LET rows == Numbered("document", start + 1, AtMost(Len(v.docs), start + length + 1))
    IN  [nodes |-> Take(rows, length), next |-> IF Len(rows) > length THEN <<"document", start + length>> ELSE None]

(* fetch_search_documents: of the next ScanLimit matches, those whose folder  *)
(* the user can read. One more than asked for is looked for, and there is a   *)
(* continuation only if it is found.                                          *)
FoundDocuments(v, after, length) ==
    LET window == (after + 1)..AtMost(Len(v.docs), after + ScanLimit)
        visible == InOrder({i \in window : v.docs[i]})
    IN  [nodes |-> [i \in 1..AtMost(length, Len(visible)) |-> <<"document", visible[i]>>],
         next |-> IF Len(visible) <= length THEN None
                  ELSE <<"document_after", IF length = 0 THEN 0 ELSE visible[length]>>]

(* _tree_rows, for a cursor that fits the view. *)
TreeRows(v, cursor, length) ==
    LET at == cursor[2]
        rows == FolderRows(v, at, length + 1)
        remaining == length - Len(Take(rows, length))
        rest == IF v.search THEN FoundDocuments(v, 0, remaining) ELSE ChildDocuments(v, 0, remaining)
    IN  IF cursor[1] = "document_after" THEN FoundDocuments(v, at, length)
        ELSE IF cursor[1] = "document" THEN ChildDocuments(v, at, length)
        ELSE IF Len(rows) > length THEN [nodes |-> Take(rows, length), next |-> <<"folder", at + length>>]
        ELSE [nodes |-> rows \o rest.nodes, next |-> rest.next]

(* _decode_page, and the checks of _tree_rows: what is no continuation of     *)
(* this view is refused.                                                      *)
Continues(v, cursor) ==
    \/ cursor[1] = "folder"
    \/ cursor[1] = (IF v.search THEN "document_after" ELSE "document")

PageLength(limit) == AtMost(MaxPage, IF limit < MinPage THEN MinPage ELSE limit)

GetChildren(v, cursor, limit) ==
    IF v.readable /\ Continues(v, cursor) THEN TreeRows(v, cursor, PageLength(limit))
    ELSE [nodes |-> <<>>, next |-> None]

Shown(v) == InOrder({i \in 1..Len(v.docs) : v.search => v.docs[i]})

Visible(v) ==
    IF ~v.readable THEN <<>>
    ELSE [k \in 1..v.folders + Len(Shown(v)) |->
             IF k <= v.folders THEN <<"folder", k>> ELSE <<"document", Shown(v)[k - v.folders]>>]

(* The first n pages one after another. *)
Turned(v, limit) ==
    LET turned[n \in 0..(v.folders + Len(v.docs) + 1)] ==
            IF n = 0 THEN [nodes |-> <<>>, next |-> First, full |-> TRUE]
            ELSE LET before == turned[n - 1]
                     page == GetChildren(v, before.next, limit)
                 IN  IF before.next = None THEN before
                     ELSE [nodes |-> before.nodes \o page.nodes, next |-> page.next,
                           full |-> before.full /\ (page.next # None => Len(page.nodes) = PageLength(limit))]
    IN  turned[v.folders + Len(v.docs) + 1]

(* Turning the pages of the tree comes to an end and shows each visible node  *)
(* once and in order; a page that has a continuation is full. Nothing is left *)
(* out at the end, unless a search meets so many documents in folders that    *)
(* cannot be read that its scan may be cut: the code cuts it rather than tell *)
(* of hidden documents, and exactly these searches may lose something.        *)
TreePagesJoin(v, limit) ==
    LET turned == Turned(v, limit)
        visible == Visible(v)
        hidden == Cardinality({i \in DOMAIN v.docs : ~v.docs[i]})
    IN  /\ turned.next = None
        /\ turned.full
        /\ turned.nodes = Take(visible, Len(turned.nodes))
        /\ ~v.search \/ hidden + PageLength(limit) < ScanLimit => turned.nodes = visible

-----------------------------------------------------------------------------
(* The document a file is shown with. Files and documents are numbered in the *)
(* order of their creation; a file has a url and the document it is attached  *)
(* to, a document its source, the file it records, and whether the user can   *)
(* see it.                                                                    *)

FirstOf(S) == IF S = {} THEN None ELSE CHOOSE i \in S : \A j \in S : i <= j

Recording(lb, f) == {d \in DOMAIN lb.docs : lb.docs[d].visible /\ lb.docs[d].record = f}

(* Documents from before files were recorded go by the url. *)
Legacy(lb, f) ==
    {d \in DOMAIN lb.docs :
        /\ lb.docs[d].visible /\ lb.docs[d].record = None
        /\ lb.files[f].url # None /\ lb.docs[d].source = lb.files[f].url}

OnlyFile_Any(lb, f) == TRUE

OnlyFile(lb, f) == \A g \in DOMAIN lb.files : lb.files[g].url = lb.files[f].url => g = f

(* _visible_ai_document_for_file *)
DocumentOf(lb, f) ==
    IF Recording(lb, f) # {} THEN FirstOf(Recording(lb, f))
    ELSE IF lb.files[f].attached \in Legacy(lb, f) THEN lb.files[f].attached
    ELSE IF OnlyFile(lb, f) /\ Cardinality(Legacy(lb, f)) = 1 THEN FirstOf(Legacy(lb, f))
    ELSE None

(* A page of the files that match, in their order, and how many match. *)
PageOf(lb, matching, offset, limit) ==
    LET rows == InOrder(matching)
        page == SubSeq(rows, offset + 1, AtMost(Len(rows), offset + limit))
    IN  [items |-> [i \in DOMAIN page |-> [file |-> page[i], document |-> DocumentOf(lb, page[i])]],
         total |-> Len(rows)]

(* list_folder_contents *)
Contents(lb, offset, limit) == PageOf(lb, DOMAIN lb.files, offset, limit)

(* search in a knowledge base: of the documents of the base that the user can *)
(* see and that record a file, the BaseScan modified last.                    *)
Latest(lb, base) ==
    LET InBase(d) == lb.docs[d].visible /\ lb.docs[d].base = base /\ lb.docs[d].record # None
    IN  {lb.recent[i] : i \in FirstPlaces(lb.recent, BaseScan, InBase)}

SearchBase_Sources(lb, base, offset, limit) ==
    PageOf(lb, {f \in DOMAIN lb.files : \E d \in Latest(lb, base) : lb.files[f].url = lb.docs[d].source},
           offset, limit)

SearchBase(lb, base, offset, limit) ==
    PageOf(lb, {f \in DOMAIN lb.files : \E d \in Latest(lb, base) : f = lb.docs[d].record}, offset, limit)

(* A file never borrows the document of another: two files that share their   *)
(* content, and so their url, are shown with one document only where both are *)
(* attached to it, and nobody is shown with a document they cannot see. The   *)
(* pages of a folder count as many files as they have. A search in a          *)
(* knowledge base finds only files that a visible document of it was made     *)
(* from, all of them where the base is small enough.                          *)
NoBorrowedDocument(lb, limit) ==
    LET pages == [n \in 0..Len(lb.files) |-> Contents(lb, n * limit, limit)]
        Items(page) == {page.items[i] : i \in DOMAIN page.items}
        items == UNION {Items(pages[n]) : n \in DOMAIN pages}
        Sources(base) == {lb.docs[d].record : d \in {e \in DOMAIN lb.docs :
                             lb.docs[e].visible /\ lb.docs[e].base = base /\ lb.docs[e].record # None}}
    IN  /\ \A item \in items : item.document # None => lb.docs[item.document].visible
        /\ \A a, b \in items :
               a.file # b.file /\ a.document # None /\ a.document = b.document =>
                   lb.files[a.file].attached = a.document /\ lb.files[b.file].attached = a.document
        /\ Cardinality(items) = pages[0].total
        /\ \A base \in {lb.docs[d].base : d \in DOMAIN lb.docs} :
               LET found == {item.file : item \in Items(SearchBase(lb, base, 0, Len(lb.files)))}
               IN  /\ found \subseteq Sources(base)
                   /\ Len(lb.docs) <= BaseScan => found = Sources(base) \cap DOMAIN lb.files

-----------------------------------------------------------------------------
(* The folders of a navigation panel: a folder is the sequence of its names   *)
(* below Home. fs has the folders there are, those the user can read, the     *)
(* favorites, and the folders and files the user changed last.                *)

Prefix(p, q) == Len(p) <= Len(q) /\ SubSeq(q, 1, Len(p)) = p

ChildrenOf(fs, p) == {q \in fs.folders : Len(q) = Len(p) + 1 /\ Prefix(p, q)}

Descend_All(fs, level) == UNION {ChildrenOf(fs, p) : p \in level}

(* One more level of _build: the children that can be read. *)
Descend(fs, level) == UNION {ChildrenOf(fs, p) \cap fs.readable : p \in level}

(* get_tree *)
TreeOf(fs, root, depth) ==
    LET level[n \in 0..depth] == IF n = 0 THEN {root} \cap fs.readable ELSE Descend(fs, level[n - 1])
    IN  UNION {level[n] : n \in 0..depth}

(* list_favorites, get_recents and get_tabs. *)
Favorites(fs) == fs.favorites \cap fs.folders \cap fs.readable

Recents(fs, limit) ==
    LET last == Take(fs.recent, limit)
    IN  {last[i] : i \in DOMAIN last} \cap fs.readable

Tabs(fs) ==
    {fs.order[i] : i \in FirstPlaces(fs.order, TopTabs, LAMBDA p : Len(p) = 1)} \cap fs.readable

(* get_folder_path: the folders from Home to this one. *)
Breadcrumbs(fs, p) == {SubSeq(p, 1, n) : n \in 0..Len(p)} \cap fs.folders

(* get_folder_info: what Frappe lists of a folder and below it. The rows      *)
(* below a folder are those whose folder it is or is below it.                *)
FolderInfo(fs, p) ==
    [folders |-> Cardinality(ChildrenOf(fs, p) \cap fs.readable),
     descendants |-> Cardinality({q \in fs.folders \cap fs.readable : q # <<>> /\ Prefix(p, SubSeq(q, 1, Len(q) - 1))})]

(* get_default_folder: where an upload goes that names no folder; storage is  *)
(* the configured folder, attached and own are the folder of the record's     *)
(* attachments and of its DocType where the user can read the record.         *)
DefaultFolder(fs, up) ==
    LET MayCreate == up.create /\ <<>> \in fs.writable
    IN  IF up.storage \in fs.folders \cap fs.writable THEN up.storage
        ELSE IF up.attached \in fs.folders \cap fs.readable THEN up.attached
        ELSE IF up.own \in fs.folders \cap fs.readable THEN up.own
        ELSE IF SharedFolder \in fs.folders \/ MayCreate THEN SharedFolder
        ELSE IF AttachmentsFolder \in fs.folders THEN AttachmentsFolder
        ELSE <<>>

(* The panel shows folders the user can read and no others. Below the folder  *)
(* it starts from, the tree shows exactly those to which a way of readable    *)
(* folders leads, down to its depth. What a folder's statistics count below   *)
(* it is what its children count with what is below them.                     *)
PanelShowsReadable(fs, root, depth, limit) ==
    /\ Favorites(fs) \cup Recents(fs, limit) \cup Tabs(fs) \subseteq fs.readable
    /\ TreeOf(fs, root, depth) =
           {p \in fs.folders :
               /\ Prefix(root, p) /\ Len(p) - Len(root) <= depth
               /\ \A n \in Len(root)..Len(p) : SubSeq(p, 1, n) \in fs.readable}
    /\ \A p \in fs.folders :
           LET info == FolderInfo(fs, p)
           IN  /\ info.descendants =
                      info.folders + MapThenSumSet(LAMBDA q : FolderInfo(fs, q).descendants, ChildrenOf(fs, p))
               /\ \A q \in fs.folders : p \in Breadcrumbs(fs, q) <=> Prefix(p, q)

(* An upload that names no folder goes to one that exists, or that the user   *)
(* may create; to the configured folder only if the user may write there, and *)
(* to a folder the user cannot read only if all share it.                     *)
UploadHasFolder(fs, up) ==
    LET p == DefaultFolder(fs, up)
    IN  /\ p \in fs.folders \/ (p = SharedFolder /\ up.create /\ <<>> \in fs.writable)
        /\ p \in fs.readable \/ p \in {SharedFolder, AttachmentsFolder, <<>>} \/ (p = up.storage /\ p \in fs.writable)

=============================================================================
