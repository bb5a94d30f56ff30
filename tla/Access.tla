------------------------------- MODULE Access -------------------------------
(* Who sees and who may open a row: utils/permissions.py. Frappe asks the     *)
(* first half of the file for the condition a list is filtered by, and the    *)
(* second half about one document; the two are written apart, and the module  *)
(* header asks that they agree. The roles of Frappe decide about DocTypes and *)
(* are not in this module.                                                    *)
(*                                                                            *)
(* A row has the fields the two halves look at, None where it is empty: its   *)
(* owner, the user it is for, who asked for it, its base, its scope, and the  *)
(* roles, the folder or the conversation it is tied to. A user has a name and *)
(* roles. X_Y is X with a plausible mistake in it.                            *)
EXTENDS FiniteSets

CONSTANTS
    None,
    Grants(_),      \* per base: [public, readers, writers], the roles of each
    AgentRoles(_),  \* per agent: the roles it is open to
    OwnerOf(_),     \* per conversation: [user, owner]
    ListsFile(_, _),        \* what Frappe answers for a File and a user: that a
    PermitsFile(_, _, _)    \* list shows it, and that a permission is given

(* A memory or a skill that is not global says for whom it is (validate of    *)
(* both), and what Frappe lists of files can be read.                         *)
IsRow(row) == row.scope # "Global" => row.value # None

FrappeAssumption(rows, users) ==
    \A row \in rows, user \in users : ListsFile(row.tied, user) => PermitsFile(row.tied, user, "read")

Manager == {"System Manager", "AI Manager"}

IsManager(user) == user.name = "Administrator" \/ user.roles \cap Manager # {}

IsAuditor(user) == "AI Auditor" \in user.roles

IsRead(ptype) == ptype \in {"read", "select", "report", "export", "print", "email"}

(* DocTypes whose rows are a user's own, auditors reading all of them. *)
Audited ==
    [Candidate |-> "user", AutomationEvent |-> "by", PipelineRun |-> "by", ExecutionLog |-> "user",
     SearchQuery |-> "user", ToolInvocation |-> "user", ResourceDownload |-> "user"]

(* DocTypes that carry the base of the document they were made from. *)
Analysis == {"Chunk", "PatternEntity", "EntityRelationship"}

DocTypes ==
    DOMAIN Audited \cup Analysis \cup
    {"Conversation", "Message", "KnowledgeBase", "Document", "Translation", "Glossary", "Agent",
     "Memory", "Skill", "Task", "FolderSettings", "FolderFavorite"}

-----------------------------------------------------------------------------
(* What a list shows. *)

ListsBase(base, user) ==
    base # None /\ (Grants(base).public \/ Grants(base).readers \cap user.roles # {})

ListsAgent(agent, user) == AgentRoles(agent) = {} \/ AgentRoles(agent) \cap user.roles # {}

ListsScope(row, user) ==
    \/ IsAuditor(user)
    \/ row.scope = "Global"
    \/ row.scope = "User" /\ row.value = user.name
    \/ row.scope = "Role" /\ row.value \in user.roles
    \/ row.scope = "Agent" /\ ListsAgent(row.value, user)

Listed(dt, row, user) ==
    \/ IsManager(user)
    \/ dt \in DOMAIN Audited /\ (IsAuditor(user) \/ row[Audited[dt]] = user.name)
    \/ dt = "Task" /\ (IsAuditor(user) \/ user.name \in {row.owner, row.by})
    \/ dt \in {"Conversation", "FolderFavorite"} /\ row.user = user.name
    \/ dt = "Message" /\ row.tied # None /\ OwnerOf(row.tied).user = user.name
    \/ dt \in Analysis \cup {"Document", "KnowledgeBase"} /\ ListsBase(row.base, user)
    \/ dt = "Translation" /\ (user.name \in {row.owner, row.by} \/ ListsBase(row.base, user))
    \/ dt = "Glossary" /\ (row.base = None \/ ListsBase(row.base, user))
    \/ dt = "Agent" /\ ListsAgent(row.tied, user)
    \/ dt \in {"Memory", "Skill"} /\ ListsScope(row, user)
    \/ dt = "FolderSettings" /\ ListsFile(row.tied, user)

-----------------------------------------------------------------------------
(* What a document that is opened by name allows. *)

BaseAccess(base, user, write) ==
    /\ base # None
    /\ IF write THEN Grants(base).writers \cap user.roles # {}
       ELSE Grants(base).public \/ (Grants(base).readers \cap user.roles # {})

OwnedAccess(field, user, ptype) ==
    IF IsAuditor(user) THEN IsRead(ptype) ELSE field = user.name

ScopeApplies(row, user) ==
    \/ IsAuditor(user)
    \/ row.scope \in {"Global", None}
    \/ /\ row.value # None
       /\ \/ row.scope = "User" /\ row.value = user.name
          \/ row.scope = "Role" /\ row.value \in user.roles
          \/ row.scope = "Agent" /\ (AgentRoles(row.value) = {} \/ AgentRoles(row.value) \cap user.roles # {})

(* A favorite, and a download, is its user's to change, an auditor's too. *)
OwnOrAudited(row, user, ptype) ==
    (IsAuditor(user) /\ IsRead(ptype)) \/ row.user = user.name

TaskAccess_Owner(row, user, ptype) == OwnedAccess(row.owner, user, ptype)

TaskAccess(row, user, ptype) ==
    OwnedAccess(row.owner, user, ptype) \/ OwnedAccess(row.by, user, ptype)

Permitted(dt, row, user, ptype) ==
    \/ IsManager(user)
    \/ dt = "Conversation" /\ user.name \in {row.user, row.owner}
    \/ dt = "Message" /\ row.tied # None /\ user.name \in {OwnerOf(row.tied).user, OwnerOf(row.tied).owner}
    \/ dt \in Analysis \cup {"KnowledgeBase"} /\ IsRead(ptype) /\ BaseAccess(row.base, user, FALSE)
    \/ dt = "Document" /\ BaseAccess(row.base, user, ~IsRead(ptype))
    \/ dt = "Translation" /\ (user.name \in {row.owner, row.by} \/ BaseAccess(row.base, user, ~IsRead(ptype)))
    \/ dt = "Agent" /\ IsRead(ptype) /\ (AgentRoles(row.tied) = {} \/ AgentRoles(row.tied) \cap user.roles # {})
    \/ dt \in {"Memory", "Skill"} /\ IsRead(ptype) /\ ScopeApplies(row, user)
    \/ dt = "Task" /\ TaskAccess(row, user, ptype)
    \/ dt \in DOMAIN Audited \ {"ResourceDownload"} /\ OwnedAccess(row[Audited[dt]], user, ptype)
    \/ dt \in {"FolderFavorite", "ResourceDownload"} /\ OwnOrAudited(row, user, ptype)
    \/ dt = "FolderSettings" /\ PermitsFile(row.tied, user, IF IsRead(ptype) THEN "read" ELSE "write")

-----------------------------------------------------------------------------

(* Whatever a list shows to a user, the user can open: a row is never shown   *)
(* with its fields and then refused. The glossaries of translations are left  *)
(* out, which the second half of permissions.py does not know.                *)
ListedOpens(dt, row, user) ==
    dt # "Glossary" /\ Listed(dt, row, user) => Permitted(dt, row, user, "read")
=============================================================================
