------------------------------ MODULE Services ------------------------------
(* The services that change what they decide about later, one case at a time: *)
(* the scans of entities, the checks of providers with the discovery of their *)
(* models, and the operations on the tree of folders, files and documents;    *)
(* and what search, routing, permissions and lists answer, one question at a  *)
(* time.                                                                      *)
EXTENDS EntityScan, Sequences

CONSTANTS
    None,
    Providers, Models, TypeOf(_), Ticks, Checkers, Syncers, Interval, Threshold, MaxTime, MaxJobs, MaxChanges,
    Settings,
    MaxDepth, Files, Docs, Titles, Start, Requests, People, MaxMoves,
    Chunks, DocOf(_), BaseOf(_), PlaceOf(_), TermsOf(_), EmbeddedBy(_), Similarity(_), Policy(_), Latin,
    Depth, Unit, MinExcerpt, Separator,
    Grants(_), AgentRoles(_), OwnerOf(_), ListsFile(_, _), PermitsFile(_, _, _),
    ScanLimit, MinPage, MaxPage, TopTabs, BaseScan, SharedFolder, AttachmentsFolder,
    Searches, Contexts, Calls, Vectors,     \* what search and routing are asked,
    Openings, Guarded, Views, Libraries, Panels, Uploads,  \* and permissions and lists
    Limits      \* of a page, and of the depth of a panel

VARIABLES
    provider, model, default, job, runtime, now, begun, changes, lists,
    db, open, jobs, used, missed, moves,
    case        \* what the behaviour is about: kind and in

H == INSTANCE ProviderHealth

D == INSTANCE DocumentTree WITH
        Sessions <- People, MaxRequests <- MaxMoves,
        Gone <- None, NoFile <- None, NoDoc <- None, requests <- moves

R == INSTANCE Retrieval

Ro == INSTANCE Routing

A == INSTANCE Access

V == INSTANCE TreeViews

ASSUME ServicesAssumption == H!JobsAssumption /\ D!TreeAssumption

ASSUME RequestsAssumption ==
    /\ R!RetrievalAssumption
    /\ \A rq \in Searches : R!IsRequest(rq)
    /\ \A c \in Contexts : R!IsContext(c.blocks, c.limit)
    /\ \A c \in Calls : Ro!IsPlatform(c.pf) /\ Ro!IsCall(c.call)
    /\ Vectors \subseteq [dimensions : Nat, first : Seq(Nat), second : Seq(Nat)]

ASSUME ListsAssumption ==
    /\ V!TreeViewsAssumption
    /\ Limits \subseteq Nat \ {0}
    /\ \A row \in Guarded : A!IsRow(row)
    /\ A!FrappeAssumption(Guarded, {o.user : o \in Openings})
    /\ \A v \in Views : V!IsView(v)
    /\ \A lb \in Libraries : V!IsLibrary(lb)
    /\ \A fs \in Panels : V!IsPanel(fs)
    /\ \A u \in Uploads : V!IsUpload(u.fs)

checks == <<provider, model, default, job, runtime, now, begun, changes, lists>>
tree == <<db, open, jobs, used, missed, moves>>
allvars == <<vars, checks, tree, case>>

NoChecks ==
    /\ provider = None /\ model = None /\ default = None /\ job = None /\ runtime = None
    /\ now = None /\ begun = None /\ changes = None /\ lists = None
NoTree ==
    /\ db = None /\ open = None /\ jobs = None /\ used = None /\ missed = None /\ moves = None

(* What is asked changes nothing; it is judged where it stands.               *)
Asked ==
    \/ case \in [kind : {"search"}, in : Searches]
    \/ case \in [kind : {"context"}, in : Contexts]
    \/ case \in [kind : {"call"}, in : Calls]
    \/ case \in [kind : {"vectors"}, in : Vectors]
    \/ case \in [kind : {"opening"}, in : Openings]
    \/ case \in [kind : {"view"}, in : Views]
    \/ case \in [kind : {"library"}, in : Libraries]
    \/ case \in [kind : {"panel"}, in : Panels]
    \/ case \in [kind : {"upload"}, in : Uploads]

ServicesInit ==
    /\ Init
    /\ \/ case = [kind |-> "scanning", in |-> None] /\ NoChecks /\ NoTree
       \/ case = [kind |-> "health", in |-> None] /\ H!Init /\ NoTree
       \/ case = [kind |-> "tree", in |-> None] /\ D!Init /\ NoChecks
       \/ Asked /\ NoChecks /\ NoTree

ServicesNext ==
    \/ case.kind = "scanning" /\ Next /\ UNCHANGED <<checks, tree, case>>
    \/ case.kind = "health" /\ H!Next /\ UNCHANGED <<vars, tree, case>>
    \/ case.kind = "tree" /\ D!Next /\ UNCHANGED <<vars, checks, case>>

ServicesSpec == ServicesInit /\ [][ServicesNext]_allvars

-----------------------------------------------------------------------------
(* A row quotes the text it was found in, and a document that is marked as    *)
(* scanned has its rows, one each (scan_document, scan_document_semantic).    *)
RowsSound == RowsQuoteTheirText /\ MarkedIsComplete

(* Whatever is renamed, moved, copied or deleted meanwhile, a folder, a file  *)
(* or a document lies in a folder that exists, and a document lies with its   *)
(* file, save for what a deletion could not see (document_tree.py).           *)
TreeSound == case.kind = "tree" => D!NothingOrphaned /\ D!SourcesFollow

(* Failed checks are counted one by one, neither lost to a check beside them  *)
(* nor counted twice, and a provider that failed as often as the threshold is *)
(* offline (check_provider_health).                                           *)
FailuresCounted == case.kind = "health" => H!FailuresCounted

(* An answer stays in the scope that was asked for and may be read, its pages *)
(* join, and the context packed from it fits, keeps the order and repeats     *)
(* nothing (run_retrieval, pack_context_blocks).                              *)
SearchesSound ==
    /\ case.kind = "search" => R!StaysInScope(case.in) /\ R!PagesJoin(case.in)
    /\ case.kind = "context" => R!ContextSound(case.in.blocks, case.in.limit)

(* A call reaches every model that can serve it and no other, and the vectors *)
(* of one model have one width (resolve_model, resolve_failover_attempts,     *)
(* run_embedding).                                                            *)
AsksWhoeverCan ==
    /\ case.kind = "call" => Ro!AsksWhoeverCan(case.in.pf, case.in.call)
    /\ case.kind = "vectors" =>
           Ro!OneWidth([models |-> <<[dimensions |-> case.in.dimensions]>>], 1, case.in.first, case.in.second)

(* What a list shows to a user, the user can open (the two halves of          *)
(* utils/permissions.py); pages of the tree show every visible node once,     *)
(* files never borrow a document, panels show what can be read, and an upload *)
(* finds a folder (get_children, list_folder_contents, get_tree,              *)
(* get_default_folder).                                                       *)
ListsSound ==
    /\ case.kind = "opening" => \A row \in Guarded : A!ListedOpens(case.in.dt, row, case.in.user)
    /\ case.kind = "view" => \A limit \in Limits : V!TreePagesJoin(case.in, limit)
    /\ case.kind = "library" => \A limit \in Limits : V!NoBorrowedDocument(case.in, limit)
    /\ case.kind = "panel" => \A root \in case.in.folders, depth \in {0} \cup Limits, limit \in Limits :
                                  V!PanelShowsReadable(case.in, root, depth, limit)
    /\ case.kind = "upload" => V!UploadHasFolder(case.in.fs, case.in.up)

(* Nothing is written on the strength of what was read long before: a list of *)
(* models replaces no later list (sync_provider_models), no scheduler commits *)
(* a check within an interval of another one (claim_due_providers), and a     *)
(* background job touches only documents that are as they were when it was    *)
(* asked for (_check_subtree_state).                                          *)
NoStaleWrite ==
    [][/\ case.kind = "health" => H!LaterListWins /\ H!OncePerInterval
       /\ case.kind = "tree" => D!OnlyConfirmed]_allvars
=============================================================================
