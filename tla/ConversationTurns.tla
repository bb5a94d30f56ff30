------------------------- MODULE ConversationTurns -------------------------
(***************************************************************************)
(* Turns of AI Conversation: ai_fr_hg/ai/conversation.py and the turn of   *)
(* ai_fr_hg/ai/agent.py.                                                   *)
(*                                                                         *)
(* A turn is one request and one transaction.  It reads the history in its *)
(* view, reserves sequence numbers on the conversation row, calls the      *)
(* model and its tools, and commits the user's message, the answer and the *)
(* tool results together.  From its first write on it holds the row of the *)
(* conversation; a write to a row that was changed since the view fails    *)
(* with error 1020 and undoes the whole turn (docs/GAP_REGISTER.md,        *)
(* CHAT-09).  Only the cancel flag of a turn is outside the database.      *)
(*                                                                         *)
(* An operator X_Y just before an operator X is X with a plausible mistake *)
(* in it, to see that the properties notice; the specification uses X.     *)
(***************************************************************************)
EXTENDS Naturals, Sequences, FiniteSets

CONSTANTS
    Convs, Turns, Agents,
    HISTORY_LIMIT,
    FetchSlack,     \* rows read beyond the limit, 16 in the code
    MaxIterations,  \* AI Agent.max_tool_iterations
    MaxTools,       \* bound: tool calls of one answer
    MaxEdits,       \* bound: edits, deletions and cancellations
    MaxFailures     \* bound: requests that die or time out

ASSUME SetsAssumption == Convs # {} /\ Agents # {}
ASSUME LimitsAssumption ==
    /\ HISTORY_LIMIT \in Nat \ {0} /\ FetchSlack \in Nat
    /\ MaxIterations \in Nat /\ MaxTools \in Nat \ {0}
    /\ MaxEdits \in Nat /\ MaxFailures \in Nat

VARIABLES
    conv,      \* committed AI Conversation rows
    msgs,      \* committed AI Message rows of each conversation
    turn,      \* the requests that run turns
    flagged,   \* turns with a cancel flag in the cache
    edits, failures

vars == <<conv, msgs, turn, flagged, edits, failures>>

-----------------------------------------------------------------------------
Roles == {"User", "Assistant", "Tool"}
Final == {"Completed", "Failed", "Cancelled"}

None == "none"
Message == [seq : Nat, role : Roles, turn : Turns \cup {None}, status : Final]

Row == [exists : BOOLEAN, counter : Nat, count : Nat]

Turn == [pc : {"new", "ready", "asking", "calling", "closing", "over", "failed"},
         conv : Convs \cup {None},
         agent : Agents \cup {None},
         saw : SUBSET Nat,        \* sequences of the messages in its view
         stale : BOOLEAN,         \* the conversation row changed since the view
         agentStale : BOOLEAN,    \* and the row of the agent
         wrote : BOOLEAN,         \* it has written the conversation row
         base : Nat,              \* the last number given before its own
         mine : Seq(Roles),       \* messages it has saved, in order
         iteration : Nat,
         outcome : Final]

NewTurn ==
    [pc |-> "new", conv |-> None, agent |-> None,
     saw |-> {}, stale |-> FALSE,
     agentStale |-> FALSE, wrote |-> FALSE, base |-> 0, mine |-> <<>>, iteration |-> 0,
     outcome |-> "Completed"]

NoRow == [exists |-> FALSE, counter |-> 0, count |-> 0]

TypeOK ==
    /\ conv \in [Convs -> Row]
    /\ msgs \in [Convs -> SUBSET Message]
    /\ turn \in [Turns -> Turn]
    /\ flagged \subseteq Turns
    /\ edits \in 0 .. MaxEdits /\ failures \in 0 .. MaxFailures

Init ==
    /\ conv = [c \in Convs |-> NoRow]
    /\ msgs = [c \in Convs |-> {}]
    /\ turn = [t \in Turns |-> NewTurn]
    /\ flagged = {}
    /\ edits = 0 /\ failures = 0

-----------------------------------------------------------------------------
(* Rows and views.                                                         *)

Running(t) == turn[t].pc \in {"ready", "asking", "calling", "closing"}
RowFree(c) == ~ \E t \in Turns : Running(t) /\ turn[t].wrote /\ turn[t].conv = c

\* The turns q after a commit that wrote the row of conversation c (or of none)
\* and the rows of the agents as.
Outdated(q, c, as) ==
    [t \in Turns |->
        IF q[t].pc \in {"ready", "asking", "calling", "closing"}
        THEN [q[t] EXCEPT !.stale = @ \/ q[t].conv = c,
                          !.agentStale = @ \/ q[t].agent \in as]
        ELSE q[t]]

Edited == edits < MaxEdits /\ edits' = edits + 1

-----------------------------------------------------------------------------
(* Requests other than turns read and write the row at once: they see the  *)
(* current row or fail without effect.                                     *)

\* create_conversation counts the conversation on the agent and, when the agent
\* has a greeting, saves it as the first message.
CreateConversation(c, a, greeting) ==
    /\ ~ conv[c].exists /\ conv[c].counter = 0
    /\ conv' = [conv EXCEPT ![c].exists = TRUE,
                            ![c].counter = IF greeting THEN 1 ELSE 0]
    /\ msgs' = [msgs EXCEPT ![c] =
                   IF greeting
                   THEN {[seq |-> 1, role |-> "Assistant", turn |-> None, status |-> "Completed"]}
                   ELSE {}]
    /\ turn' = Outdated(turn, c, {a})
    /\ UNCHANGED <<flagged, edits, failures>>

\* rename, pin, archive, restore, summarise and update_conversation_config.
EditConversation(c) ==
    /\ Edited
    /\ conv[c].exists /\ RowFree(c)
    /\ turn' = Outdated(turn, c, {})
    /\ UNCHANGED <<conv, msgs, flagged, failures>>

DeleteConversation(c) ==
    /\ Edited
    /\ conv[c].exists /\ RowFree(c)
    /\ conv' = [conv EXCEPT ![c] = [NoRow EXCEPT !.counter = conv[c].counter]]
    /\ msgs' = [msgs EXCEPT ![c] = {}]
    /\ turn' = Outdated(turn, c, {})
    /\ UNCHANGED <<flagged, failures>>

\* cancel_turn looks for active messages of the turn as well, but those of a
\* running turn are not committed: only the flag reaches it.
CancelTurn(t) ==
    /\ Edited
    /\ Running(t)
    /\ flagged' = flagged \cup {t}
    /\ UNCHANGED <<conv, msgs, turn, failures>>

-----------------------------------------------------------------------------
(* What the model is shown.                                                *)

HISTORY_STATUSES == {"Completed", "Failed", "Draft"}

NewestFirst(ms) ==
    [i \in 1 .. Cardinality(ms) |->
        CHOOSE m \in ms : Cardinality({n \in ms : n.seq > m.seq}) = i - 1]

\* window_latest_messages: the newest rows, and further ones while the oldest
\* of them is the result of a tool.
Window_Cut(rows) == SubSeq(rows, 1, IF Len(rows) < HISTORY_LIMIT THEN Len(rows) ELSE HISTORY_LIMIT)
Window(rows) ==
    LET long(n) == n >= Len(rows) \/ rows[n].role # "Tool"
        start == IF Len(rows) < HISTORY_LIMIT THEN Len(rows) ELSE HISTORY_LIMIT
    IN  IF rows = <<>> THEN <<>>
        ELSE SubSeq(rows, 1, CHOOSE n \in start .. Len(rows) :
                                long(n) /\ \A k \in start .. n - 1 : ~ long(k))

History(ms) ==
    LET rows == NewestFirst({m \in ms : m.status \in HISTORY_STATUSES})
        fetched == IF Len(rows) <= HISTORY_LIMIT + FetchSlack THEN rows
                   ELSE SubSeq(rows, 1, HISTORY_LIMIT + FetchSlack)
    IN  Window(fetched)

-----------------------------------------------------------------------------
(* A turn.                                                                 *)

\* The view is opened, and sync_turn_configuration saves the selectors of the
\* turn when they differ from those of the conversation, which takes the row.
StartTurn(t, c, a, changes) ==
    /\ turn[t].pc = "new"
    /\ conv[c].exists
    /\ changes => RowFree(c)
    /\ turn' = [turn EXCEPT ![t] =
                  [NewTurn EXCEPT !.pc = "ready", !.conv = c, !.agent = a,
                                  !.saw = {m.seq : m \in msgs[c]},
                                  !.wrote = changes]]
    /\ UNCHANGED <<conv, msgs, flagged, edits, failures>>

\* allocate_sequence: the number comes from the counter of the row, which the
\* turn must hold and must have in its view.
CanAllocate_Unlocked(t) == turn[t].wrote \/ ~ turn[t].stale
CanAllocate_Refreshed(t) ==
    turn[t].wrote \/ (RowFree(turn[t].conv) /\ conv[turn[t].conv].exists)
CanAllocate(t) ==
    turn[t].wrote \/ (RowFree(turn[t].conv) /\ ~ turn[t].stale)

Save(t, roles) ==
    [turn EXCEPT ![t].wrote = TRUE,
                 ![t].base = IF turn[t].mine = <<>> THEN conv[turn[t].conv].counter ELSE @,
                 ![t].mine = @ \o roles]

\* The question and a placeholder for the answer.
AskModel(t) ==
    /\ turn[t].pc = "ready"
    /\ CanAllocate(t)
    /\ turn' = [Save(t, <<"User", "Assistant">>) EXCEPT ![t].pc = "asking"]
    /\ UNCHANGED <<conv, msgs, flagged, edits, failures>>

\* strict_grounding without context: the agent's own answer, no model, and no
\* count on the agent.
Fallback(t) ==
    /\ turn[t].pc = "ready"
    /\ CanAllocate(t)
    /\ turn' = [Save(t, <<"User", "Assistant">>) EXCEPT ![t].pc = "closing",
                                                       ![t].agent = None,
                                                       ![t].agentStale = FALSE]
    /\ UNCHANGED <<conv, msgs, flagged, edits, failures>>

\* Error 1020, or the lock wait timeout: the request fails, nothing remains.
Undo(t) == turn' = [turn EXCEPT ![t] = [NewTurn EXCEPT !.pc = "failed"]]

Refused(t) ==
    /\ turn[t].pc = "ready"
    /\ ~ CanAllocate(t)
    /\ Undo(t)
    /\ UNCHANGED <<conv, msgs, flagged, edits, failures>>

CallModel(t) ==
    /\ turn[t].pc = "asking"
    /\ turn' = [turn EXCEPT ![t] =
                  IF t \in flagged
                  THEN [@ EXCEPT !.pc = "closing", !.outcome = "Cancelled"]
                  ELSE [@ EXCEPT !.pc = "calling"]]
    /\ UNCHANGED <<conv, msgs, flagged, edits, failures>>

\* An answer; a stream that found the flag; a runtime that failed or an
\* exhausted budget.
Answers(t) ==
    /\ turn[t].pc = "calling"
    /\ \E o \in {"Completed", "Failed"} \cup (IF t \in flagged THEN {"Cancelled"} ELSE {}) :
          turn' = [turn EXCEPT ![t].pc = "closing", ![t].outcome = o]
    /\ UNCHANGED <<conv, msgs, flagged, edits, failures>>

\* Tools are offered while iterations are left; each result is a message.
CallsTools(t, n) ==
    /\ turn[t].pc = "calling"
    /\ turn[t].iteration < MaxIterations
    /\ turn' = [Save(t, [i \in 1 .. n |-> "Tool"]) EXCEPT ![t].pc = "asking",
                                                         ![t].iteration = @ + 1]
    /\ UNCHANGED <<conv, msgs, flagged, edits, failures>>

\* The rows of a turn: the placeholder has got its status, tool results and the
\* question are complete from the start.
Rows(t) ==
    {[seq |-> turn[t].base + i, role |-> turn[t].mine[i], turn |-> t,
      status |-> IF turn[t].mine[i] = "Assistant" THEN turn[t].outcome ELSE "Completed"]
        : i \in 1 .. Len(turn[t].mine)}

\* update_conversation_stats counts the rows in the view of the turn.
Counted(t) == Cardinality(turn[t].saw) + Len(turn[t].mine)

\* The answer, the counters of conversation and agent, and the commit.
FinishTurn(t) ==
    /\ turn[t].pc = "closing"
    /\ ~ turn[t].agentStale
    /\ LET c == turn[t].conv IN
       /\ msgs' = [msgs EXCEPT ![c] = @ \cup Rows(t)]
       /\ conv' = [conv EXCEPT ![c].counter = turn[t].base + Len(turn[t].mine),
                               ![c].count = Counted(t)]
       /\ turn' = Outdated([turn EXCEPT ![t] = [NewTurn EXCEPT !.pc = "over", !.conv = c, !.saw = turn[t].saw]], c, {turn[t].agent})
    /\ UNCHANGED <<flagged, edits, failures>>

\* update_agent_stats: the row of the agent changed since the view.
AgentConflict(t) ==
    /\ turn[t].pc = "closing"
    /\ turn[t].agentStale
    /\ Undo(t)
    /\ UNCHANGED <<conv, msgs, flagged, edits, failures>>

Dies(t) ==
    /\ failures < MaxFailures
    /\ Running(t)
    /\ failures' = failures + 1
    /\ Undo(t)
    /\ UNCHANGED <<conv, msgs, flagged, edits>>

\* The client sends the turn again under the same turn_id.
Resend(t) ==
    /\ turn[t].pc = "failed"
    /\ turn' = [turn EXCEPT ![t] = NewTurn]
    /\ UNCHANGED <<conv, msgs, flagged, edits, failures>>

-----------------------------------------------------------------------------
Next ==
    \/ \E c \in Convs, a \in Agents, b \in BOOLEAN : CreateConversation(c, a, b)
    \/ \E c \in Convs : DeleteConversation(c) \/ EditConversation(c)
    \/ \E t \in Turns :
          \/ \E c \in Convs, a \in Agents, b \in BOOLEAN : StartTurn(t, c, a, b)
          \/ CancelTurn(t) \/ AskModel(t) \/ Fallback(t) \/ Refused(t) \/ CallModel(t)
          \/ Answers(t) \/ (\E n \in 1 .. MaxTools : CallsTools(t, n))
          \/ FinishTurn(t) \/ AgentConflict(t) \/ Dies(t) \/ Resend(t)

Spec == Init /\ [][Next]_vars

-----------------------------------------------------------------------------
(* Properties.                                                             *)

\* CHAT-02: no two messages of a conversation have the same number, no number
\* is left out, and a deleted conversation has no messages: turns that fail
\* give their numbers back, and those of overlapping turns do not collide.
SequencesGapless ==
    \A c \in Convs :
        IF conv[c].exists
        THEN /\ {m.seq : m \in msgs[c]} = 1 .. conv[c].counter
             /\ Cardinality(msgs[c]) = conv[c].counter
        ELSE msgs[c] = {}

\* A turn that was committed had everything said before it in its view, and
\* nothing was said between its history and its question.
KnowsHistory ==
    \A t \in Turns :
        turn[t].pc = "over" =>
            \A m \in msgs[turn[t].conv] :
                m.turn = t /\ m.role = "User" => turn[t].saw = 1 .. m.seq - 1

\* message_count is right whenever a turn has set it.
CountTrue ==
    \A c \in Convs : conv[c].count # 0 => conv[c].count = Cardinality(msgs[c])

\* window_latest_messages keeps "a tool-call group intact": the window never
\* starts with tool results whose answer was left out, unless the rows that
\* were fetched end within the group or the turn was cancelled, whose answer
\* is not part of the history.
GroupsWhole ==
    \A c \in Convs :
        LET rows == History(msgs[c])
        IN  \A i \in 1 .. Len(rows) : rows[i].role = "Tool" =>
                \/ \E j \in 1 .. Len(rows) :
                      rows[j].role = "Assistant" /\ rows[j].turn = rows[i].turn
                \/ \E m \in msgs[c] : m.turn = rows[i].turn /\ m.status = "Cancelled"
                \/ Len(rows) = HISTORY_LIMIT + FetchSlack

\* Turns of different conversations do not undo each other: safe_set_value and
\* the counters of the agent are direct updates so that concurrent turns do not
\* conflict (ai_fr_hg/utils/db.py).
TurnsIndependent ==
    [][\A t \in Turns :
          turn[t].pc = "closing" /\ turn'[t].pc = "failed" /\ failures' = failures =>
              turn[t].stale]_vars
=============================================================================
