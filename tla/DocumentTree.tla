---------------------------- MODULE DocumentTree ----------------------------
(***************************************************************************)
(* The tree of folders, files and AI Documents (ai/document_tree.py,       *)
(* ai/folders.py, utils/file_hooks.py, the lifecycle hooks of AI           *)
(* Document).                                                              *)
(*                                                                         *)
(* A folder is a File row whose name is its path; a path is here the       *)
(* sequence of its names below Home.  A file is a File row with a folder;  *)
(* a document has a folder, a denormalised copy of it (source_folder), a   *)
(* name that is unique in its folder and, when its source is a file, the   *)
(* File row of that source.                                                *)
(*                                                                         *)
(* An operation is a function of the rows that its transaction sees:       *)
(* Effects(v, op) holds the rows it would leave, and is empty when it      *)
(* refuses.  Every read of a transaction, those after its locks included,  *)
(* comes from the read view its first read has opened.  The locks order    *)
(* it after the transactions that hold the same rows, and MariaDB ends it  *)
(* with error 1020 when a row it locks or writes has changed since its     *)
(* view.  So a transaction is two steps: Begin takes the view, Finish      *)
(* takes the locks, writes and commits.                                    *)
(*                                                                         *)
(* An operator X_Y just before an operator X is X with a plausible mistake *)
(* in it.  The specification does not use it.                              *)
(***************************************************************************)
EXTENDS Naturals, SequencesExt

CONSTANTS
    MaxDepth,     \* the greatest depth of a folder below Home
    Files,        \* File rows that are no folders
    Docs,         \* AI Document rows
    Titles,       \* names people give to folders and documents
    Sessions,     \* web requests and background jobs that run at a time
    Start,        \* the rows at first
    Requests,     \* the operations people ask for
    MaxRequests,  \* bound: requests
    Gone,         \* no row
    NoFile,       \* the source of a document that is not file-backed
    NoDoc         \* the document of a file that is attached to none

(* A name and the number of its copy: <<t, 0>> is t, <<t, 1>> is t (Copy). *)
Copies == 0 .. Cardinality(Docs)
NodeNames == Titles \X Copies
Paths == UNION {[1 .. n -> NodeNames] : n \in 0 .. MaxDepth}
Home == <<>>

FileRow == [folder : Seq(NodeNames), owner : Docs \cup {NoDoc}]
DocRow == [folder : Seq(NodeNames), recorded : Seq(NodeNames), src : Files \cup {NoFile},
           name : NodeNames, rev : Nat]
Tree == [folders : SUBSET Paths, files : [Files -> FileRow \cup {Gone}],
         docs : [Docs -> DocRow \cup {Gone}]]

(* What people ask for.  Parts are what a bulk operation is made of.       *)
Part == [kind : {"MoveDocument"}, doc : Docs, to : Paths]
            \cup [kind : {"DeleteDocument"}, doc : Docs]
            \cup [kind : {"MoveFolder"}, path : Paths, to : Paths]
            \cup [kind : {"DeleteFolder"}, path : Paths]
Operation ==
    Part \cup [kind : {"Bulk"}, nodes : Seq(Part)]
         \cup [kind : {"CreateFolder"}, to : Paths, name : NodeNames]
         \cup [kind : {"Upload"}, to : Paths, doc : Docs \cup {NoDoc}, name : NodeNames]
         \cup [kind : {"MoveFile", "CopyFile"}, to : Paths, file : Files]
         \cup [kind : {"DeleteFile"}, file : Files]
         \cup [kind : {"NewDocument"}, to : Paths, file : Files \cup {NoFile}, name : NodeNames]
         \cup [kind : {"RenameDocument"}, doc : Docs, name : NodeNames]
         \cup [kind : {"CopyDocument"}, doc : Docs, to : Paths]
         \cup [kind : {"RenameFolder"}, path : Paths, name : NodeNames]
         \cup [kind : {"CopyFolder"}, path : Paths, to : Paths]
         \cup [kind : {"DeleteFiles"}, path : Paths]

(* The operations that may run in the background.                          *)
Recursive == {"MoveFolder", "CopyFolder", "DeleteFolder", "Bulk"}

VARIABLES
    db,        \* the committed rows
    open,      \* the open transaction of each session
    jobs,      \* recursive operations in the queue "long"
    used,      \* rows of documents and files that existed at some time
    missed,    \* history: rows in a folder a transaction had locked that it
               \* committed without having seen
    requests   \* operations asked for so far

vars == <<db, open, jobs, used, missed, requests>>

-----------------------------------------------------------------------------
(* The rows of a tree v.                                                   *)

Parent(p) == SubSeq(p, 1, Len(p) - 1)
Below(p, q) == Len(q) <= Len(p) /\ SubSeq(p, 1, Len(q)) = q

AllDocs(v) == {d \in Docs : v.docs[d] # Gone}
AllFiles(v) == {f \in Files : v.files[f] # Gone}
Subtree(v, p) == {q \in v.folders : Below(q, p)}
DocsIn(v, ps) == {d \in AllDocs(v) : v.docs[d].folder \in ps}
FilesIn(v, ps) == {f \in AllFiles(v) : v.files[f].folder \in ps}

SourceOf(v, f) == {d \in AllDocs(v) : v.docs[d].src = f}
AttachedTo(v, d) == {f \in AllFiles(v) : v.files[f].owner = d}
Collision(v, p, name, d) ==
    \E e \in DocsIn(v, {p}) \ {d} : v.docs[e].name = name

(* copy_name_candidates: the name, or the first copy of it that is free.   *)
(* Bound: Copies, more than there are documents; a folder is not copied    *)
(* when they are used up.                                                  *)
FirstFree(name, taken) ==
    LET free == ({name[1]} \X (Copies \ {0})) \ taken
    IN IF name \notin taken \/ free = {} THEN name
       ELSE CHOOSE c \in free : \A k \in 1 .. c[2] - 1 : <<name[1], k>> \in taken

Available(v, p, name) == FirstFree(name, {v.docs[d].name : d \in DocsIn(v, {p})})
AvailableFolder(v, p, name) ==
    FirstFree(name, {q[Len(q)] : q \in {r \in v.folders \ {Home} : Parent(r) = p}})

FolderRow(p) == <<"folder", p>>
FileKey(f) == <<"file", f>>
DocKey(d) == <<"doc", d>>
Keys(ps, fs, ds) ==
    {FolderRow(p) : p \in ps} \cup {FileKey(f) : f \in fs} \cup {DocKey(d) : d \in ds}

(* The rows in which the tree n differs from v.                            *)
Written(v, n) ==
    Keys((v.folders \ n.folders) \cup (n.folders \ v.folders),
         {f \in Files : v.files[f] # n.files[f]},
         {d \in Docs : v.docs[d] # n.docs[d]})

(* What a transaction with the view v that leaves n makes of the rows cur. *)
Merged(cur, v, n) ==
    [folders |-> (cur.folders \ (v.folders \ n.folders)) \cup (n.folders \ v.folders),
     files |-> [f \in Files |-> IF v.files[f] # n.files[f] THEN n.files[f] ELSE cur.files[f]],
     docs |-> [d \in Docs |-> IF v.docs[d] # n.docs[d] THEN n.docs[d] ELSE cur.docs[d]]]

NewDocs(v) == {d \in Docs : v.docs[d] = Gone /\ DocKey(d) \notin used}
NewFiles(v) == {f \in Files : v.files[f] = Gone /\ FileKey(f) \notin used}

Placed(row, p) == [row EXCEPT !.folder = p, !.recorded = p, !.rev = @ + 1]
Renamed(row, name) == [row EXCEPT !.name = name, !.rev = @ + 1]

When(condition, n) == IF condition THEN {n} ELSE {}

(* A folder, a file or a document lies in a folder that exists, save for   *)
(* the rows excused.                                                       *)
InFolders(v, excused) ==
    /\ \A p \in v.folders \ {Home} : Parent(p) \in v.folders \/ FolderRow(p) \in excused
    /\ \A f \in AllFiles(v) : v.files[f].folder \in v.folders \/ FileKey(f) \in excused
    /\ \A d \in AllDocs(v) : v.docs[d].folder \in v.folders \/ DocKey(d) \in excused

(* A file-backed document has its file and lies where the file lies; the   *)
(* folder that retrieval filters by is the folder of the document.         *)
WithSources(v, excused) ==
    \A d \in AllDocs(v) :
        LET row == v.docs[d]
        IN \/ DocKey(d) \in excused
           \/ /\ row.recorded = row.folder
              /\ row.src # NoFile =>
                    /\ row.src \in AllFiles(v)
                    /\ v.files[row.src].folder = row.folder

TreeAssumption ==
    /\ IsFiniteSet(Docs)
    /\ MaxDepth \in Nat
    /\ MaxRequests \in Nat
    /\ NoFile \notin Files
    /\ NoDoc \notin Docs
    /\ Gone \notin FileRow \cup DocRow
    /\ Start \in Tree /\ InFolders(Start, {}) /\ WithSources(Start, {})
    /\ Requests \subseteq Operation

-----------------------------------------------------------------------------
(* Operations on one file.  op.to is the target folder.                    *)

CreateFolder(v, op) ==
    LET p == Append(op.to, op.name)
    IN When(op.to \in v.folders /\ p \in Paths \ v.folders,
            [v EXCEPT !.folders = @ \cup {p}])

(* on_file_upload: a file that is attached to a document without a source  *)
(* becomes its source.                                                     *)
Upload(v, op) ==
    UNION {LET d == op.doc
               stored == [v EXCEPT !.files[f] = [folder |-> op.to, owner |-> d]]
           IN IF d = NoDoc \/ v.docs[d] = Gone THEN {stored}
              ELSE IF v.docs[d].src # NoFile THEN {stored}
              ELSE {[stored EXCEPT !.docs[d] =
                        [Placed(@, op.to) EXCEPT
                            !.src = f,
                            !.name = Available([v EXCEPT !.docs[d] = Gone], op.to, op.name)]]}
           : f \in When(op.to \in v.folders /\ NewFiles(v) # {},
                        CHOOSE f \in NewFiles(v) : TRUE)}

(* _update_document_folder_provenance                                      *)
FileMoved(v, f, p) ==
    [v EXCEPT !.files[f].folder = p,
              !.docs = [d \in Docs |-> IF d \in SourceOf(v, f)
                                       THEN Placed(v.docs[d], p) ELSE v.docs[d]]]

MoveFile(v, op) ==
    When(/\ op.to \in v.folders
         /\ op.file \in AllFiles(v)
         /\ v.files[op.file].folder # op.to,
         FileMoved(v, op.file, op.to))

CopyFile(v, op) ==
    {[v EXCEPT !.files[f] = [v.files[op.file] EXCEPT !.folder = op.to]]
        : f \in When(/\ op.to \in v.folders
                     /\ op.file \in AllFiles(v)
                     /\ NewFiles(v) # {},
                     CHOOSE f \in NewFiles(v) : TRUE)}

(* Frappe refuses to delete a row that a document links to.                *)
DeleteFile(v, op) ==
    When(op.file \in AllFiles(v) /\ SourceOf(v, op.file) = {},
         [v EXCEPT !.files[op.file] = Gone])

-----------------------------------------------------------------------------
(* Operations on one document.                                             *)

SourceFiles(v, d) == AllFiles(v) \cap {v.docs[d].src}

(* A file-backed document is placed where its file is.                     *)
NewDocument(v, op) ==
    LET p == IF op.file = NoFile THEN op.to ELSE v.files[op.file].folder
    IN {[v EXCEPT !.docs[d] = [folder |-> p, recorded |-> p, src |-> op.file,
                               name |-> op.name, rev |-> 0]]
           : d \in When(/\ op.file = NoFile \/ op.file \in AllFiles(v)
                        /\ op.file = NoFile => op.to \in v.folders
                        /\ ~Collision(v, p, op.name, NoDoc)
                        /\ NewDocs(v) # {},
                        CHOOSE d \in NewDocs(v) : TRUE)}

RenameDocument(v, op) ==
    When(op.doc \in AllDocs(v) /\ ~Collision(v, v.docs[op.doc].folder, op.name, op.doc),
         [v EXCEPT !.docs[op.doc] = Renamed(@, op.name)])

(* Other documents with the same source keep it: the moved one gets a copy *)
(* of the file, and the file that was attached to it goes to one of them.  *)
MoveApart(v, d, p) ==
    LET f == v.docs[d].src
        other == CHOOSE e \in SourceOf(v, f) \ {d} : TRUE
        g == CHOOSE g \in NewFiles(v) : TRUE
    IN When(NewFiles(v) # {},
            [v EXCEPT !.files[f].owner = IF @ = d THEN other ELSE @,
                      !.files[g] = [folder |-> p, owner |-> d],
                      !.docs[d] = [Placed(@, p) EXCEPT !.src = g]])

MoveDocument(v, op) ==
    LET d == op.doc
        row == v.docs[d]
    IN IF \/ d \notin AllDocs(v)
          \/ op.to \notin v.folders
          \/ row.src \notin AllFiles(v) \cup {NoFile}
       THEN {}
       ELSE IF row.folder = op.to THEN {v}
       ELSE IF Collision(v, op.to, row.name, d) THEN {}
       ELSE IF row.src = NoFile THEN {[v EXCEPT !.docs[d] = Placed(@, op.to)]}
       ELSE IF SourceOf(v, row.src) # {d} THEN MoveApart(v, d, op.to)
       ELSE {[FileMoved(v, row.src, op.to) EXCEPT !.docs[d] = Placed(@, op.to)]}

(* copy_document: an identity of its own, with a file of its own.          *)
CopiedTo(v, d, p, e, g) ==
    LET file == v.docs[d].src # NoFile
    IN [v EXCEPT !.docs[e] = [folder |-> p, recorded |-> p,
                              src |-> IF file THEN g ELSE NoFile,
                              name |-> Available(v, p, v.docs[d].name), rev |-> 0],
                 !.files = IF file THEN [@ EXCEPT ![g] = [folder |-> p, owner |-> e]] ELSE @]

Copied(v, d, p) ==
    When(/\ NewDocs(v) # {}
         /\ v.docs[d].src # NoFile => v.docs[d].src \in AllFiles(v) /\ NewFiles(v) # {},
         CopiedTo(v, d, p, CHOOSE e \in NewDocs(v) : TRUE, CHOOSE g \in NewFiles(v) : TRUE))

CopyDocument(v, op) ==
    IF op.doc \in AllDocs(v) /\ op.to \in v.folders THEN Copied(v, op.doc, op.to) ELSE {}

(* Frappe deletes the files that are attached to a document after it.      *)
DeleteDocument(v, op) ==
    When(/\ op.doc \in AllDocs(v)
         /\ \A f \in AttachedTo(v, op.doc) : SourceOf(v, f) \subseteq {op.doc},
         [v EXCEPT !.docs[op.doc] = Gone,
                   !.files = [f \in Files |-> IF f \in AttachedTo(v, op.doc)
                                              THEN Gone ELSE v.files[f]]])

-----------------------------------------------------------------------------
(* Operations on a folder and everything below it.                         *)

(* rename_doc follows the links to each folder; _sync_document_paths then  *)
(* follows in the documents.                                               *)
Rebased_Once(r, p, q) == IF Below(r, p) THEN q \o SubSeq(r, Len(p), Len(r)) ELSE r
Rebased(r, p, q) == IF Below(r, p) THEN q \o SubSeq(r, Len(p) + 1, Len(r)) ELSE r

Relocated(v, p, q) ==
    [folders |-> {Rebased(r, p, q) : r \in v.folders},
     files |-> [f \in Files |-> IF v.files[f] = Gone THEN Gone
                                ELSE [v.files[f] EXCEPT !.folder = Rebased(@, p, q)]],
     docs |-> [d \in Docs |-> IF d \in DocsIn(v, Subtree(v, p))
                              THEN Placed(v.docs[d], Rebased(v.docs[d].folder, p, q))
                              ELSE v.docs[d]]]

Movable(v, p, q) ==
    /\ p \in v.folders \ {Home}
    /\ Parent(p) \in v.folders
    /\ \A r \in Subtree(v, p) : Rebased(r, p, q) \in Paths \ v.folders

RenameFolder(v, op) ==
    LET q == Append(Parent(op.path), op.name)
    IN When(Movable(v, op.path, q), Relocated(v, op.path, q))

MoveFolder(v, op) ==
    LET p == op.path
        q == Append(op.to, p[Len(p)])
    IN IF ~(p \in v.folders \ {Home} /\ op.to \in v.folders /\ ~Below(op.to, p)) THEN {}
       ELSE IF op.to = Parent(p) THEN {Relocated(v, p, p)}
       ELSE When(Movable(v, p, q), Relocated(v, p, q))

(* The copies of the documents ds of v are made one after the other in the *)
(* tree made, which has the new folders.                                   *)
CopiedDocs(v, made, ds, p, q) ==
    LET after[i \in 0 .. Len(ds)] ==
            IF i = 0 THEN {made}
            ELSE UNION {Copied(u, ds[i], Rebased(v.docs[ds[i]].folder, p, q)) : u \in after[i - 1]}
    IN after[Len(ds)]

(* A folder whose parent was not copied before it ends the operation.      *)
CopyFolder(v, op) ==
    LET p == op.path
        q == Append(op.to, AvailableFolder(v, op.to, p[Len(p)]))
        source == Subtree(v, p)
    IN IF \/ p = Home \/ ~Movable(v, p, q)
          \/ op.to \notin v.folders \/ Below(op.to, p)
          \/ \E r \in source \ {p} : Parent(r) \notin source
       THEN {}
       ELSE CopiedDocs(v, [v EXCEPT !.folders = @ \cup {Rebased(r, p, q) : r \in source}],
                       SetToSeq(DocsIn(v, source)), p, q)

(* delete_folder of the tree refuses files that no document represents and *)
(* sources that documents elsewhere use.                                   *)
DeleteFolder(v, op) ==
    LET ps == Subtree(v, op.path)
        ds == DocsIn(v, ps)
        fs == FilesIn(v, ps)
        attached == UNION {AttachedTo(v, d) : d \in ds} \ fs
    IN When(/\ op.path \in v.folders \ {Home}
            /\ fs \subseteq {v.docs[d].src : d \in ds}
            /\ \A f \in fs \cup attached : SourceOf(v, f) \subseteq ds,
            [folders |-> v.folders \ ps,
             files |-> [f \in Files |-> IF f \in fs \cup attached THEN Gone ELSE v.files[f]],
             docs |-> [d \in Docs |-> IF d \in ds THEN Gone ELSE v.docs[d]]])

(* delete_folder of the folder service: Frappe's link checks protect the   *)
(* documents and their sources.                                            *)
DeleteFiles(v, op) ==
    LET ps == Subtree(v, op.path)
        fs == FilesIn(v, ps)
    IN When(/\ op.path \in v.folders \ {Home}
            /\ DocsIn(v, ps) = {}
            /\ \A f \in fs : SourceOf(v, f) = {},
            [v EXCEPT !.folders = @ \ ps,
                      !.files = [f \in Files |-> IF f \in fs THEN Gone ELSE v.files[f]]])

-----------------------------------------------------------------------------
(* Any operation.                                                          *)

Effect(v, op) ==
    CASE op.kind = "CreateFolder" -> CreateFolder(v, op)
      [] op.kind = "Upload" -> Upload(v, op)
      [] op.kind = "MoveFile" -> MoveFile(v, op)
      [] op.kind = "CopyFile" -> CopyFile(v, op)
      [] op.kind = "DeleteFile" -> DeleteFile(v, op)
      [] op.kind = "NewDocument" -> NewDocument(v, op)
      [] op.kind = "RenameDocument" -> RenameDocument(v, op)
      [] op.kind = "MoveDocument" -> MoveDocument(v, op)
      [] op.kind = "CopyDocument" -> CopyDocument(v, op)
      [] op.kind = "DeleteDocument" -> DeleteDocument(v, op)
      [] op.kind = "RenameFolder" -> RenameFolder(v, op)
      [] op.kind = "MoveFolder" -> MoveFolder(v, op)
      [] op.kind = "CopyFolder" -> CopyFolder(v, op)
      [] op.kind = "DeleteFolder" -> DeleteFolder(v, op)
      [] op.kind = "DeleteFiles" -> DeleteFiles(v, op)

(* bulk_move_nodes, bulk_delete_nodes: nodes below a selected folder go    *)
(* with it, the others one after the other in one transaction.             *)
WithAncestor(v, part, all) ==
    \E other \in all \ {part} :
        /\ other.kind \in {"MoveFolder", "DeleteFolder"}
        /\ \/ part.kind \in {"MoveFolder", "DeleteFolder"} /\ Below(part.path, other.path)
           \/ /\ part.kind \in {"MoveDocument", "DeleteDocument"}
              /\ part.doc \in AllDocs(v) /\ Below(v.docs[part.doc].folder, other.path)

Parts(v, op) ==
    IF op.kind = "Bulk" THEN {part \in Range(op.nodes) : ~WithAncestor(v, part, Range(op.nodes))}
    ELSE {op}

Bulk(v, op) ==
    LET after[i \in 0 .. Len(op.nodes)] ==
            IF i = 0 THEN {v}
            ELSE IF op.nodes[i] \notin Parts(v, op) THEN after[i - 1]
            ELSE UNION {Effect(u, op.nodes[i]) : u \in after[i - 1]}
    IN after[Len(op.nodes)]

Effects(v, op) == IF op.kind = "Bulk" THEN Bulk(v, op) ELSE Effect(v, op)

-----------------------------------------------------------------------------
(* What an operation locks, and the fingerprint of what it works on.       *)

OnSubtree == {"RenameFolder", "MoveFolder", "CopyFolder", "DeleteFolder", "DeleteFiles"}
OnDocument == {"RenameDocument", "MoveDocument", "CopyDocument", "DeleteDocument"}
OnFile == {"MoveFile", "CopyFile", "DeleteFile"}
WithTarget == {"CreateFolder", "Upload", "MoveFile", "CopyFile", "MoveDocument",
               "CopyDocument", "MoveFolder", "CopyFolder"}

OwnFiles(v, op) ==
    CASE op.kind \in OnFile -> {op.file} \cap AllFiles(v)
      [] op.kind = "NewDocument" -> {op.file} \cap AllFiles(v)
      [] op.kind = "DeleteDocument" -> SourceFiles(v, op.doc) \cup AttachedTo(v, op.doc)
      [] op.kind \in OnDocument \ {"DeleteDocument"} -> SourceFiles(v, op.doc)
      [] op.kind = "CopyFolder" ->
            UNION {SourceFiles(v, d) : d \in DocsIn(v, Subtree(v, op.path))}
      [] op.kind \in OnSubtree \ {"CopyFolder"} -> FilesIn(v, Subtree(v, op.path))
      [] OTHER -> {}

OwnDocs(v, op) ==
    CASE op.kind \in OnDocument -> {op.doc}
      [] op.kind = "Upload" -> {op.doc} \ {NoDoc}
      [] op.kind = "MoveFile" -> SourceOf(v, op.file)
      [] op.kind \in OnSubtree \ {"DeleteFiles"} -> DocsIn(v, Subtree(v, op.path))
      [] OTHER -> {}

OwnFolders(v, op) ==
    UNION {IF op.kind \in WithTarget THEN {op.to} ELSE {},
           IF op.kind \in OnSubtree THEN Subtree(v, op.path) \cup {op.path, Parent(op.path)} ELSE {},
           IF op.kind = "NewDocument" /\ op.file = NoFile THEN {op.to} ELSE {},
           IF op.kind \in {"CopyFile", "CopyDocument", "CopyFolder"} THEN {}
           ELSE {v.files[f].folder : f \in OwnFiles(v, op)},
           IF op.kind \in OnDocument THEN {v.docs[op.doc].folder} ELSE {}}

LockedFolders(v, op) == UNION {OwnFolders(v, part) : part \in Parts(v, op)}
LockedFiles(v, op) == UNION {OwnFiles(v, part) : part \in Parts(v, op)}
LockedDocs(v, op) == UNION {OwnDocs(v, part) : part \in Parts(v, op)}

Locks(v, op) == Keys(LockedFolders(v, op), LockedFiles(v, op), LockedDocs(v, op))

(* The rows that rename_doc finds linked to the folders it renames.  It    *)
(* updates them as they are now, not as the view shows them.               *)
LinkedTo(v, op) ==
    UNION {Keys({p \in db.folders : Below(p, part.path)},
                FilesIn(db, Subtree(v, part.path)), DocsIn(db, Subtree(v, part.path)))
           : part \in {x \in Parts(v, op) : x.kind \in {"RenameFolder", "MoveFolder"}}}

(* _subtree_state                                                          *)
Fingerprint(v, op) ==
    [folders |-> LockedFolders(v, op),
     files |-> [f \in LockedFiles(v, op) |-> v.files[f]],
     docs |-> [d \in LockedDocs(v, op) |-> v.docs[d]]]

-----------------------------------------------------------------------------
(* Transactions.                                                           *)

Direct == [folders |-> {}, files |-> <<>>, docs |-> <<>>]
Idle == [op |-> "none"]
Busy(s) == open[s] # Idle

Init ==
    /\ db = Start
    /\ open = [s \in Sessions |-> Idle]
    /\ jobs = {}
    /\ used = Keys({}, AllFiles(Start), AllDocs(Start))
    /\ missed = {}
    /\ requests = 0

(* checked: the fingerprint the rows must still have, if there is one.     *)
Begin(s, op, queue, checked) ==
    /\ ~Busy(s)
    /\ open' = [open EXCEPT ![s] = [op |-> op, queue |-> queue, checked |-> checked,
                                    view |-> db, changed |-> {}]]
    /\ UNCHANGED <<db, used, missed>>

(* People may ask for a recursive or bulk operation in the background.     *)
Request(s) ==
    /\ requests < MaxRequests
    /\ requests' = requests + 1
    /\ \E op \in Requests, queue \in BOOLEAN :
        /\ queue => op.kind \in Recursive
        /\ Effects(db, op) # {}
        /\ Begin(s, op, queue, Direct)
    /\ UNCHANGED jobs

TakeJob(s) ==
    /\ \E job \in jobs :
        /\ Begin(s, job.op, FALSE, job.checked)
        /\ jobs' = jobs \ {job}
    /\ UNCHANGED requests

(* _check_subtree_state                                                    *)
Unchanged_Names(s) ==
    LET t == open[s]
    IN t.checked = Direct \/ t.checked.folders = Fingerprint(t.view, t.op).folders
Unchanged(s) ==
    LET t == open[s]
    IN t.checked = Direct \/ t.checked = Fingerprint(t.view, t.op)

(* Error 1020: a row to lock or to write has changed since the view.       *)
Conflict(s, n) ==
    LET t == open[s]
    IN t.changed \cap (Locks(t.view, t.op) \cup Written(t.view, n) \cup LinkedTo(t.view, t.op)) # {}

(* Rows that were put into a locked folder after the view was taken, and   *)
(* documents that were made from a file that the transaction has written.  *)
Overlooked(s, u) ==
    LET t == open[s]
        ps == LockedFolders(t.view, t.op)
    IN t.changed \cap Keys({p \in db.folders \ {Home} : Parent(p) \in ps},
                           FilesIn(db, ps),
                           DocsIn(db, ps) \cup
                               {d \in AllDocs(db) : FileKey(db.docs[d].src) \in Written(t.view, u)})

(* A missed folder goes along when a folder above it is moved: a folder    *)
(* with its name, put where there was none or left without a parent.       *)
Carried(v, u) ==
    {FolderRow(p) : p \in {q \in u.folders \ {Home} :
        /\ q \notin v.folders \/ Parent(q) \notin u.folders
        /\ \E r \in Paths \ {Home} : FolderRow(r) \in missed /\ r[Len(r)] = q[Len(q)]}}

Seen(written) ==
    [s \in Sessions |-> IF Busy(s) THEN [open[s] EXCEPT !.changed = @ \cup written] ELSE Idle]

(* A queued operation has checked everything and written only its job.     *)
Enqueue(s) ==
    /\ Busy(s) /\ open[s].queue
    /\ ~Conflict(s, open[s].view)
    /\ jobs' = jobs \cup {[op |-> open[s].op,
                           checked |-> Fingerprint(open[s].view, open[s].op)]}
    /\ open' = [open EXCEPT ![s] = Idle]
    /\ UNCHANGED <<db, used, missed, requests>>

Finish(s) ==
    /\ Busy(s) /\ ~open[s].queue
    /\ \E n \in Effects(open[s].view, open[s].op) :
        /\ LockedFolders(open[s].view, open[s].op) \subseteq open[s].view.folders
        /\ Unchanged(s)
        /\ ~Conflict(s, n)
        /\ db' = Merged(db, open[s].view, n)
        /\ open' = [Seen(Written(open[s].view, n)) EXCEPT ![s] = Idle]
        /\ used' = used \cup Keys({}, AllFiles(n), AllDocs(n))
        /\ missed' = missed \cup Overlooked(s, n) \cup Carried(open[s].view, n)
    /\ UNCHANGED <<jobs, requests>>

(* A refusal, an error of the database, a missing permission, a killed     *)
(* process: the transaction leaves nothing.                                *)
Abort(s) ==
    /\ Busy(s)
    /\ open' = [open EXCEPT ![s] = Idle]
    /\ UNCHANGED <<db, jobs, used, missed, requests>>

Next == \E s \in Sessions : Request(s) \/ TakeJob(s) \/ Enqueue(s) \/ Finish(s) \/ Abort(s)

Spec == Init /\ [][Next]_vars

-----------------------------------------------------------------------------
(* Properties.                                                             *)

(* The rows are well formed, and so is what each transaction keeps.        *)
TypeOK ==
    /\ db \in Tree
    /\ \A s \in Sessions : Busy(s) => open[s].view \in Tree
    /\ missed \cup used \subseteq Keys(db.folders, Files, Docs) \cup missed
    /\ requests \in 0 .. MaxRequests

(* A folder, a file or a document lies in a folder that exists, whatever   *)
(* was renamed, moved or deleted meanwhile -- unless it was put there by a *)
(* transaction that the change of the folder did not see.                  *)
NothingOrphaned == InFolders(db, missed)

(* The same for a document and its file: the document lies where its file  *)
(* lies, and is filtered by the folder it is in.                           *)
SourcesFollow == WithSources(db, missed)

(* A background job removes or moves only documents that were in the       *)
(* folder when it was asked for, with the state they had then, save for    *)
(* documents that an operation before it should have seen and did not.     *)
OnlyConfirmed ==
    \A s \in Sessions :
        (Busy(s) /\ open'[s] = Idle /\ open[s].checked # Direct) =>
            \A d \in AllDocs(db) :
                db'.docs[d] # db.docs[d] =>
                    \/ DocKey(d) \in missed
                    \/ /\ d \in DOMAIN open[s].checked.docs
                       /\ open[s].checked.docs[d] = db.docs[d]

(* The locks "serialize child membership changes against recursive tree    *)
(* snapshots" (ai/folders.py:258): no folder is deleted under a file or a  *)
(* document.                                                               *)
MembershipSerialized ==
    /\ \A f \in AllFiles(db) : db.files[f].folder \in db.folders
    /\ \A d \in AllDocs(db) : db.docs[d].folder \in db.folders

(* The name of a document is unique in its folder.                         *)
NamesUnique ==
    \A d, e \in AllDocs(db) :
        d # e /\ db.docs[d].folder = db.docs[e].folder => db.docs[d].name # db.docs[e].name
=============================================================================
