--------------------------- MODULE ProviderHealth ---------------------------
(* Health checks of providers and the discovery of their models:              *)
(* ai/monitoring.py with the scheduler events of tasks.py and update_model_   *)
(* metrics of ai/engine.py.                                                   *)
(*                                                                            *)
(* Ticks of several benches, people who press "Check Now" and "Discover       *)
(* Models" and the hourly sync work on the same rows, each in a transaction   *)
(* of its own that reads one view of the database. A row is locked from the   *)
(* first write to it until the commit; who comes to a row that changed after  *)
(* the own view was taken fails with error 1020 and loses the transaction.    *)
(* The runtimes change under all of them.                                     *)
(*                                                                            *)
(* An operator X_Y just before an operator X is X with a plausible mistake in *)
(* it, to see that the properties notice.                                     *)
EXTENDS Integers, FiniteSets

CONSTANTS
    Providers,
    Models,         \* names that runtimes report
    TypeOf(_),      \* _guess_model_type; None: not supported
    Ticks,          \* workers that run tasks.health_check
    Checkers,       \* people who check all providers
    Syncers,        \* workers that run sync_all_models
    Interval,       \* health_check_interval_minutes
    Threshold,      \* DEGRADED_THRESHOLD
    MaxTime,        \* bound: the clock
    MaxJobs,        \* bound: jobs and requests begun
    MaxChanges,     \* bound: models that appear in a runtime or vanish
    Settings,       \* the row of the platform settings
    None

Jobs == Ticks \cup Checkers \cup Syncers

(* by is history: the number of the list that the status goes back to. *)
ModelRow == [status : {"Available", "Missing"}, by : Nat]

JobsAssumption ==
    /\ Ticks \cap Checkers = {} /\ Syncers \cap (Ticks \cup Checkers) = {}
    /\ Interval \in Nat \ {0} /\ Threshold \in Nat \ {0}
    /\ MaxTime \in Nat /\ MaxJobs \in Nat /\ MaxChanges \in Nat
    /\ None \notin ModelRow

VARIABLES
    provider,   \* committed AI Provider rows
    model,      \* committed AI Model rows, None where there is none
    default,    \* default_chat_model of the settings
    job,
    runtime,    \* the models each provider has
    now, begun, changes,
    lists       \* history: how often a runtime was listed

vars == <<provider, model, default, job, runtime, now, begun, changes, lists>>

Records == Providers \X Models
Rows == Providers \cup Records \cup {Settings}

(* failed is history: committed checks in a row that failed. *)
ProviderRow == [enabled : BOOLEAN, status : {"Unknown", "Online", "Degraded", "Offline"},
                failures : Nat, checked : Int, failed : Nat]

(* A job: its view of the rows with its own writes in them, the rows of that  *)
(* view that nobody changed since, the rows it has written and locks, the     *)
(* providers still to do, and what the runtime it is on listed.            *)
Idle == [pc |-> "idle", view |-> None, fresh |-> {}, wrote |-> {}, todo |-> {}, at |-> 0, on |-> None,
         listed |-> {}, list |-> 0]

View == [provider : [Providers -> ProviderRow], model : [Records -> ModelRow \cup {None}],
         default : Records \cup {None}]

TypeOK ==
    /\ provider \in [Providers -> ProviderRow]
    /\ model \in [Records -> ModelRow \cup {None}]
    /\ default \in Records \cup {None}
    /\ job \in [Jobs -> [pc : {"idle", "claim", "check", "sync", "write"}, view : View \cup {None},
                         fresh : SUBSET Rows, wrote : SUBSET Rows, todo : SUBSET Providers,
                         at : Nat, on : Providers \cup {None}, listed : SUBSET Models, list : Nat]]
    /\ runtime \in [Providers -> SUBSET Models]
    /\ now \in Nat /\ begun \in Nat /\ changes \in Nat /\ lists \in Nat

Init ==
    /\ provider = [p \in Providers |-> [enabled |-> TRUE, status |-> "Unknown", failures |-> 0,
                                        checked |-> -Interval, failed |-> 0]]
    /\ model = [r \in Records |-> None]
    /\ default = None
    /\ job = [j \in Jobs |-> Idle]
    /\ runtime \in [Providers -> SUBSET Models]
    /\ now = 0 /\ begun = 0 /\ changes = 0 /\ lists = 0

-----------------------------------------------------------------------------
(* The database. *)

Committed == [provider |-> provider, model |-> model, default |-> default]

Locked(j, rows) == \E k \in Jobs \ {j} : job[k].wrote \cap rows # {}

(* Error 1020: a row that is written or read for update changed. *)
Conflict_Never(j, rows) == FALSE

Conflict(j, rows) == ~(rows \subseteq job[j].fresh)

Commit(j) ==
    LET v == job[j].view
        Took(r) == r \in job[j].wrote
    IN  /\ provider' = [p \in Providers |-> IF Took(p) THEN v.provider[p] ELSE provider[p]]
        /\ model' = [r \in Records |-> IF Took(r) THEN v.model[r] ELSE model[r]]
        /\ default' = IF Took(Settings) THEN v.default ELSE default
        /\ job' = [k \in Jobs |-> IF k = j THEN Idle ELSE [job[k] EXCEPT !.fresh = @ \ job[j].wrote]]

Abort(j) == job' = [job EXCEPT ![j] = Idle] /\ UNCHANGED <<provider, model, default>>

Begin(j, pc, todo) ==
    /\ job[j].pc = "idle" /\ begun < MaxJobs /\ begun' = begun + 1
    /\ job' = [job EXCEPT ![j] = [Idle EXCEPT !.pc = pc, !.view = Committed, !.fresh = Rows,
                                              !.todo = todo, !.at = now]]
    /\ UNCHANGED <<provider, model, default, runtime, now, changes, lists>>

Go(j, change) ==
    /\ job' = [job EXCEPT ![j] = change]
    /\ UNCHANGED <<provider, model, default, runtime, now, begun, changes, lists>>

Fails(j) == Abort(j) /\ UNCHANGED <<runtime, now, begun, changes, lists>>

Concludes(j) == Commit(j) /\ UNCHANGED <<runtime, now, begun, changes, lists>>

-----------------------------------------------------------------------------
(* Health checks. *)

(* Enabled, and not checked for an interval: as the view shows it. *)
Due_Always(row, at) == row.enabled

Due(row, at) == row.enabled /\ at - row.checked >= Interval

StartTick(j) == Begin(j, "claim", {p \in Providers : Due(provider[p], now)})

StartCheck(j) == Begin(j, "check", {p \in Providers : provider[p].enabled})

(* claim_due_providers: the rows one after the other, each locked, read again *)
(* and stamped. The locks are kept through the checks.                        *)
Claims(j) == job[j].todo \ job[j].wrote

Claim(j, p) ==
    /\ job[j].pc = "claim" /\ p \in Claims(j)
    /\ ~Locked(j, {p})
    /\ IF Conflict(j, {p}) THEN Fails(j)
       ELSE Go(j, [job[j] EXCEPT !.view.provider[p].checked = job[j].at, !.wrote = @ \cup {p}])

Claimed(j) ==
    /\ job[j].pc = "claim" /\ Claims(j) = {}
    /\ Go(j, [job[j] EXCEPT !.pc = "check"])

(* check_provider_health: what the runtime says is slow to come and written   *)
(* over what was read before.                                                 *)
Checked(row, status) ==
    LET failures == IF status = "Online" THEN 0 ELSE row.failures + 1
    IN  [row EXCEPT !.failures = failures, !.checked = now,
             !.status = IF failures >= Threshold THEN "Offline" ELSE status]

(* The count of the checks that failed, as of the last commit. *)
Observed(p, row, status) ==
    [Checked(row, status) EXCEPT !.failed = IF status = "Online" THEN 0 ELSE provider[p].failed + 1]

Check(j, p) ==
    /\ job[j].pc = "check" /\ p \in job[j].todo
    /\ ~Locked(j, {p})
    /\ IF Conflict(j, {p}) THEN Fails(j)
       ELSE \E status \in {"Online", "Degraded", "Offline"} :
                Go(j, [job[j] EXCEPT !.view.provider[p] = Observed(p, @, status),
                                     !.wrote = @ \cup {p}, !.todo = @ \ {p}])

(* Logs, audit records and mails go with the commit. *)
CheckEnds(j) == job[j].pc = "check" /\ job[j].todo = {} /\ Concludes(j)

-----------------------------------------------------------------------------
(* Discovery. *)

(* sync_all_models: every provider that is enabled and not offline. *)
Reachable(row) == row.enabled /\ row.status # "Offline"

StartSync(j) == Begin(j, "sync", {p \in Providers : Reachable(provider[p])})

(* The runtime lists its models; one that fails is left out. *)
List(j, p) ==
    /\ job[j].pc = "sync" /\ p \in job[j].todo
    /\ lists' = lists + 1
    /\ job' = [job EXCEPT ![j].pc = "write", ![j].listed = runtime[p], ![j].list = lists + 1,
                          ![j].todo = @ \ {p}, ![j].on = p]
    /\ UNCHANGED <<provider, model, default, runtime, now, begun, changes>>

ListFails(j, p) ==
    /\ job[j].pc = "sync" /\ p \in job[j].todo
    /\ Go(j, [job[j] EXCEPT !.todo = @ \ {p}])

(* Records of the provider by what its list means for them. *)
Registered(j) == {m \in Models : job[j].view.model[<<job[j].on, m>>] # None}
Created(j) == {m \in job[j].listed \ Registered(j) : TypeOf(m) # None}
Vanished(j) == Registered(j) \ job[j].listed

(* A record that another job created since: DuplicateEntryError, left alone.  *)
Fresh(j) == {m \in Created(j) : <<job[j].on, m>> \in job[j].fresh}

(* The first chat model becomes the default where there is none. *)
NewDefault(j) ==
    LET chats == {m \in Fresh(j) \cup Registered(j) : TypeOf(m) = "Chat"}
    IN  IF job[j].view.default # None THEN {job[j].view.default}
        ELSE IF chats = {} THEN {None} ELSE {job[j].on} \X chats

Reconciled(j) ==
    LET p == job[j].on
        Status(m) == IF m \in job[j].listed THEN "Available" ELSE "Missing"
        kept == Fresh(j) \cup Registered(j)
    IN  [r \in Records |-> IF r[1] = p /\ r[2] \in kept
                           THEN [status |-> Status(r[2]), by |-> job[j].list]
                           ELSE job[j].view.model[r]]

(* sync_provider_models after the list; in sync_all_models a conflict loses   *)
(* the providers done before and goes on with the next.                       *)
Write(j) ==
    LET p == job[j].on
        touched == ({p} \X Registered(j)) \cup
                       (IF job[j].view.default \notin NewDefault(j) THEN {Settings} ELSE {})
        written == touched \cup ({p} \X Fresh(j))
    IN  /\ job[j].pc = "write"
        /\ ~Locked(j, touched \cup ({p} \X Created(j)))
        /\ IF Conflict(j, touched)
           THEN Go(j, [job[j] EXCEPT !.pc = "sync", !.view = Committed, !.fresh = Rows, !.wrote = {}])
           ELSE \E d \in NewDefault(j) :
                    Go(j, [job[j] EXCEPT !.pc = "sync", !.view.model = Reconciled(j),
                                         !.view.default = d, !.wrote = @ \cup written])

SyncEnds(j) == job[j].pc = "sync" /\ job[j].todo = {} /\ Concludes(j)

-----------------------------------------------------------------------------
(* Others. *)

(* update_model_metrics: a model that answered is available, in one update    *)
(* that reads nothing.                                                        *)
Answered(r) ==
    /\ model[r] # None /\ model[r].status = "Missing"
    /\ ~\E j \in Jobs : r \in job[j].wrote
    /\ model' = [model EXCEPT ![r].status = "Available"]
    /\ job' = [j \in Jobs |-> [job[j] EXCEPT !.fresh = @ \ {r}]]
    /\ UNCHANGED <<provider, default, runtime, now, begun, changes, lists>>

(* Somebody saves a provider with enabled set or not. *)
Switch(p) ==
    /\ changes < MaxChanges /\ changes' = changes + 1
    /\ ~\E j \in Jobs : p \in job[j].wrote
    /\ provider' = [provider EXCEPT ![p].enabled = ~@]
    /\ job' = [j \in Jobs |-> [job[j] EXCEPT !.fresh = @ \ {p}]]
    /\ UNCHANGED <<model, default, runtime, now, begun, lists>>

RuntimeChanges(p, m) ==
    /\ changes < MaxChanges /\ changes' = changes + 1
    /\ runtime' = [runtime EXCEPT ![p] = IF m \in @ THEN @ \ {m} ELSE @ \cup {m}]
    /\ UNCHANGED <<provider, model, default, job, now, begun, lists>>

(* A worker is killed, or a request broken off: nothing of it remains. *)
Dies(j) == job[j].pc # "idle" /\ Fails(j)

Tick ==
    /\ now < MaxTime /\ now' = now + 1
    /\ UNCHANGED <<provider, model, default, job, runtime, begun, changes, lists>>

Next ==
    \/ \E j \in Ticks : StartTick(j) \/ Claimed(j)
    \/ \E j \in Ticks, p \in Providers : Claim(j, p)
    \/ \E j \in Checkers : StartCheck(j)
    \/ \E j \in Ticks \cup Checkers : CheckEnds(j)
    \/ \E j \in Ticks \cup Checkers, p \in Providers : Check(j, p)
    \/ \E j \in Syncers : StartSync(j) \/ Write(j) \/ SyncEnds(j)
    \/ \E j \in Syncers, p \in Providers : List(j, p) \/ ListFails(j, p)
    \/ \E r \in Records : Answered(r)
    \/ \E p \in Providers : Switch(p)
    \/ \E p \in Providers, m \in Models : RuntimeChanges(p, m)
    \/ \E j \in Jobs : Dies(j)
    \/ Tick

Spec == Init /\ [][Next]_vars

-----------------------------------------------------------------------------
(* Properties. *)

(* Checks that fail are counted one by one, neither lost to a check that ran  *)
(* beside them nor counted twice, and a provider that failed as often as the  *)
(* threshold is offline until a check succeeds (check_provider_health).       *)
FailuresCounted ==
    \A p \in Providers :
        /\ provider[p].failures = provider[p].failed
        /\ provider[p].failed >= Threshold => provider[p].status = "Offline"

(* Schedulers that overlap, a check by hand and a restart check no provider   *)
(* twice in an interval: what a tick commits was due when it began, and still *)
(* is (claim_due_providers, OPS-02).                                          *)
OncePerInterval ==
    \A j \in Ticks : CheckEnds(j) =>
        \A p \in job[j].wrote : job[j].at - provider[p].checked >= Interval

(* What a runtime listed never replaces what it listed later: a model that    *)
(* was found gone does not come back by a list from before, nor the reverse   *)
(* (sync_provider_models).                                                    *)
LaterListWins ==
    \A r \in Records : model[r] # None => model'[r] # None /\ model'[r].by >= model[r].by
=============================================================================
