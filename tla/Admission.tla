----------------------------- MODULE Admission -----------------------------
(***************************************************************************)
(* Admission control of model calls: ai_fr_hg/ai/limits.py and             *)
(* ai_fr_hg/ai/governance.py as ai_fr_hg/ai/engine.py uses them.           *)
(*                                                                         *)
(* Web requests and background jobs of all benches share one Redis.  A     *)
(* call that wants a model first reserves a share of its user's quota,     *)
(* then takes a lease on each concurrency limit that applies to it and one *)
(* place in the provider's rate window.  Each of these is one Lua script,  *)
(* so one step.  Redis entries carry an expiry and are never swept; the    *)
(* usage that the quota is compared with is read from the execution log in *)
(* MariaDB, where a call writes inside the transaction of its caller.      *)
(* Redis may fail to answer, processes may be killed, and a provider may   *)
(* take any time to answer.                                                *)
(*                                                                         *)
(* An operator X_Y just before an operator X is X with a plausible mistake *)
(* in it.  The specification does not use it: it is put in the place of X  *)
(* to see that the properties notice.                                      *)
(***************************************************************************)
EXTENDS Naturals, FiniteSets, FiniteSetsExt

CONSTANTS
    Chats,          \* calls of run_chat, one transaction each
    Streams,        \* the chats that have their answer streamed
    Embeds,         \* calls of run_embedding
    Users, UserOf,  \* the user of each call
    NTargets,       \* the requested model (1) and its failover substitutes
    Providers, ProviderOf,  \* the provider of each target
    Limit,          \* concurrent requests of a user, model, provider; 0: any
    RateLimit,      \* requests in a window for each provider; 0: any
    RequestLimit, TokenLimit,  \* hourly and daily quota of a user; 0: any
    Estimate,       \* max_tokens of each chat, what it reserves
    Answers,        \* total_tokens a provider may report for an answer
    MaxRetries,     \* of one attempt
    TTL,            \* of a lease: request_timeout, clamped to 30 .. 3600 s
    Grace,          \* a reservation outlives a lease by this
    Window,         \* of the rate limiter
    Patience,       \* a provider answers, or its socket times out, in this time
    Instant,        \* only waiting for a provider or a caller takes time
    Outages,        \* bound: Redis scripts and deletions that get no answer
    MaxCrashes,     \* bound: processes killed
    MaxTime         \* bound: the clock

Calls == Chats \cup Embeds
Targets == 1 .. NTargets
Scopes == ({"user"} \X Users) \cup ({"model"} \X Targets)
          \cup ({"provider"} \X Providers)

ASSUME CallsAssumption ==
    /\ Chats \cap Embeds = {} /\ Streams \subseteq Chats
    /\ IsFiniteSet(Calls)
    /\ UserOf \in [Calls -> Users]
    /\ NTargets \in Nat \ {0}
    /\ ProviderOf \in [Targets -> Providers]
    /\ Estimate \in [Chats -> Nat]
    /\ Answers \subseteq Nat

ASSUME LimitsAssumption ==
    /\ Limit \in [Scopes -> Nat]
    /\ RateLimit \in [Providers -> Nat]
    /\ RequestLimit \in Nat /\ TokenLimit \in Nat
    /\ MaxRetries \in Nat
    /\ TTL \in Nat \ {0} /\ Grace \in Nat /\ Window \in Nat \ {0}
    /\ Patience \in Nat /\ Instant \in BOOLEAN
    /\ Outages \in Nat /\ MaxCrashes \in Nat /\ MaxTime \in Nat

VARIABLES
    lease,    \* Redis: the entries of each semaphore
    rate,     \* Redis: the entries of each provider's window
    ledger,   \* Redis: the reservations of each user
    db,       \* committed AI Execution Log rows: their call and tokens
    c,        \* the calls
    dials,    \* history: the requests of the last window to rated providers
    now,
    outages, crashes   \* so far

vars == <<lease, rate, ledger, db, c, dials, now, outages, crashes>>

-----------------------------------------------------------------------------
(* Redis knows a lease by a token.  The entries that one attempt of a call *)
(* takes are told from its others by the attempt's number t; t is 0 for    *)
(* the user's lease that a chat holds throughout.                          *)
Entry == [call : Calls, t : 0 .. NTargets, exp : Nat]
Held == [scope : Scopes, exp : Nat]
RateEntry == [call : Calls, t : Targets, at : Nat]
Claim == [call : Calls, tokens : Nat, exp : Nat]
LogRow == [call : Calls, tokens : Nat]
Dial == [call : Calls, t : Targets, try : Nat, stream : BOOLEAN, at : Nat]

(* A call.  need are the scopes that acquire_leases has yet to take, user  *)
(* and slots the two LeaseSets, claim the expiry of the reservation (0 if  *)
(* there is none), clock the time at which acquire_leases or the request   *)
(* to the provider began, stream whether the answer to it is streamed,     *)
(* then where the call goes after its slots are released.  degraded and leaked are history: the call met a Redis        *)
(* outage; it ended without a try block around its leases.                 *)
Phases == {"idle", "reserve", "user", "log", "rate", "slots", "dial", "sent",
           "leave", "close", "free", "unreserve", "open", "end", "dead"}
CallState ==
    [pc : Phases, t : 0 .. NTargets, try : Nat, stream : BOOLEAN, clock : Nat,
     need : SUBSET Scopes, user : SUBSET Held, slots : SUBSET Held,
     claim : Nat, read : SUBSET LogRow, tokens : Nat,
     log : {"none", "running", "success", "failed"},
     then : Phases, degraded : BOOLEAN, leaked : BOOLEAN]

NewCall ==
    [pc |-> "idle", t |-> 0, try |-> 0, stream |-> FALSE, clock |-> 0,
     need |-> {}, user |-> {}, slots |-> {}, claim |-> 0, read |-> {}, tokens |-> 0,
     log |-> "none", then |-> "idle", degraded |-> FALSE, leaked |-> FALSE]

TypeOK ==
    /\ lease \in [Scopes -> SUBSET Entry]
    /\ rate \in [Providers -> SUBSET RateEntry]
    /\ ledger \in [Users -> SUBSET Claim]
    /\ db \subseteq LogRow
    /\ c \in [Calls -> CallState]
    /\ dials \subseteq Dial
    /\ now \in Nat /\ outages \in Nat /\ crashes \in Nat

Init ==
    /\ lease = [s \in Scopes |-> {}]
    /\ rate = [p \in Providers |-> {}]
    /\ ledger = [u \in Users |-> {}]
    /\ db = {}
    /\ c = [k \in Calls |-> NewCall]
    /\ dials = {}
    /\ now = 0 /\ outages = 0 /\ crashes = 0

-----------------------------------------------------------------------------
(* The primitives of ai/limits.py.                                         *)

\* A script or a deletion gets no answer: the caller goes on, whether Redis
\* carried it out or not.
Outage ==
    /\ outages < Outages
    /\ outages' = outages + 1
Answered == UNCHANGED outages
Noted(r) == [r EXCEPT !.degraded = r.degraded \/ outages' # outages]

Limited(S) == {s \in S : Limit[s] > 0}

\* acquire_leases takes its scopes in the order of their names.
Rank(s) == CASE s[1] = "model" -> 1 [] s[1] = "provider" -> 2 [] OTHER -> 3
First(S) == CHOOSE s \in S : \A r \in S : Rank(s) <= Rank(r)

\* LEASE_LUA, at the time its caller passes.
Live(s, at) == {e \in lease[s] : e.exp > at}
HasRoom(s, at) == Cardinality(Live(s, at)) < Limit[s]
Reap(s, at) == [lease EXCEPT ![s] = Live(s, at)]
Taken(k, s, at) ==
    [lease EXCEPT ![s] = Live(s, at) \cup
        {[call |-> k, t |-> c[k].t, exp |-> at + TTL]}]

\* LeaseSet.release deletes the tokens of the scopes in S from l.
Without_AnyToken(l, k, t, S) ==
    [s \in Scopes |-> IF s \in S THEN {} ELSE l[s]]
Without(l, k, t, S) ==
    [s \in Scopes |-> IF s \in S
                      THEN {e \in l[s] : ~(e.call = k /\ e.t = t)} ELSE l[s]]
ScopesOf(held) == {h.scope : h \in held}

\* Some deletions are lost in an outage; those entries stay until they expire.
Release(l, k, t, held) ==
    \/ /\ Answered
       /\ lease' = Without(l, k, t, ScopesOf(held))
    \/ /\ held # {} /\ Outage
       /\ \E lost \in SUBSET ScopesOf(held) :
             lease' = Without(l, k, t, ScopesOf(held) \ lost)

\* RATE_LUA
InWindow(p) == {e \in rate[p] : e.at + Window > now}
Counted(k, p) == [rate EXCEPT ![p] = InWindow(p) \cup
                     {[call |-> k, t |-> c[k].t, at |-> now]}]

\* RESERVE_LUA: committed usage as the caller read it, claims as they are.
LiveClaims(u) == {r \in ledger[u] : r.exp > now}
Tokens(S) == MapThenSumSet(LAMBDA r : r.tokens, S)
Fits_Committed(k, u) ==
    /\ RequestLimit > 0 => Cardinality(c[k].read) + 1 <= RequestLimit
    /\ TokenLimit > 0 => Tokens(c[k].read) + Estimate[k] <= TokenLimit
Fits(k, u) ==
    /\ RequestLimit > 0 =>
          Cardinality(c[k].read) + Cardinality(LiveClaims(u)) + 1
             <= RequestLimit
    /\ TokenLimit > 0 =>
          Tokens(c[k].read) + Tokens(LiveClaims(u)) + Estimate[k]
             <= TokenLimit
Claimed(k, u) == [ledger EXCEPT ![u] = LiveClaims(u) \cup
    {[call |-> k, tokens |-> Estimate[k], exp |-> now + TTL + Grace]}]

\* governance._committed_usage, within one hour of one day: the rows that are
\* counted and whose tokens are added up.
Committed(u) == {row \in db : UserOf[row.call] = u}

-----------------------------------------------------------------------------
(* The calls.                                                              *)

UserScopes(k) == {<<"user", UserOf[k]>>}
SlotScopes(k, t) ==
    {<<"model", t>>, <<"provider", ProviderOf[t]>>}
        \cup IF k \in Embeds THEN UserScopes(k) ELSE {}

\* Where acquire_leases leads when it has every lease.
Admitted(k, phase) ==
    IF phase = "user" \/ k \in Embeds THEN "log" ELSE "dial"

\* The call after it enters acquire_leases for the limited scopes of S.
Acquiring(k, r, phase, S) ==
    IF Limited(S) = {} THEN [r EXCEPT !.pc = Admitted(k, phase)]
    ELSE [r EXCEPT !.pc = phase, !.need = Limited(S), !.clock = now]

\* The call when it returned or raised, and its objects are gone.
Over(r, pc) == [NewCall EXCEPT !.pc = pc, !.log = r.log, !.tokens = r.tokens,
                               !.degraded = r.degraded, !.leaked = r.leaked]

\* A failed attempt goes to the next target, unless there is none or the
\* deadline or a cancellation ends the call.
After(k, r) ==
    {[r EXCEPT !.pc = "close"]}
        \cup IF r.t < NTargets
             THEN {[r EXCEPT !.pc = "rate", !.t = r.t + 1, !.try = 0]} ELSE {}

\* run_chat begins: _committed_usage is read before the script runs.
ReadUsage(k) ==
    /\ c[k].pc = "idle" /\ k \in Chats
    /\ c' = [c EXCEPT ![k] =
                IF RequestLimit = 0 /\ TokenLimit = 0
                THEN Acquiring(k, @, "user", UserScopes(k))
                ELSE [@ EXCEPT !.pc = "reserve", !.read = Committed(UserOf[k])]]
    /\ UNCHANGED <<lease, rate, ledger, db, dials, now, outages, crashes>>

\* limits.reserve_quota; without Redis it compares committed usage only.
OverCommitted(k) ==
    \/ RequestLimit > 0 /\ Cardinality(c[k].read) >= RequestLimit
    \/ TokenLimit > 0 /\ Tokens(c[k].read) >= TokenLimit

Reserve(k) ==
    LET u == UserOf[k]
        r == [c[k] EXCEPT !.read = {}]
    IN  /\ c[k].pc = "reserve"
        /\ \/ /\ Answered /\ Fits(k, u)
              /\ ledger' = Claimed(k, u)
              /\ c' = [c EXCEPT ![k] = Acquiring(k,
                          [r EXCEPT !.claim = now + TTL + Grace],
                          "user", UserScopes(k))]
           \/ /\ Answered /\ ~Fits(k, u)
              /\ ledger' = [ledger EXCEPT ![u] = LiveClaims(u)]
              /\ c' = [c EXCEPT ![k] = Over(r, "end")]
           \/ /\ Outage
              /\ \/ UNCHANGED ledger
                 \/ Fits(k, u) /\ ledger' = Claimed(k, u)
              /\ c' = [c EXCEPT ![k] =
                          IF OverCommitted(k)
                          THEN Over([r EXCEPT !.degraded = TRUE], "end")
                          ELSE Acquiring(k, [r EXCEPT !.degraded = TRUE],
                                         "user", UserScopes(k))]
        /\ UNCHANGED <<rate, lease, db, dials, now, crashes>>

\* One lease of acquire_leases.  A refusal gives up the ones it already took.
Refused(k) ==
    CASE c[k].pc = "user" -> {[c[k] EXCEPT !.pc = "unreserve", !.need = {}]}
      [] c[k].pc = "slots" /\ k \in Chats ->
            After(k, [c[k] EXCEPT !.need = {}, !.slots = {}])
      [] OTHER -> {Over(c[k], "end")}

Onward_FirstOnly(k, r, left) ==
    [r EXCEPT !.need = {}, !.pc = Admitted(k, r.pc)]
Onward(k, r, left) ==
    [r EXCEPT !.need = left,
              !.pc = IF left = {} THEN Admitted(k, r.pc) ELSE r.pc]

HaveLease(k, r, s) ==
    LET h == {[scope |-> s, exp |-> r.clock + TTL]}
    IN  Onward(k, IF r.pc = "user" THEN [r EXCEPT !.user = r.user \cup h]
                  ELSE [r EXCEPT !.slots = r.slots \cup h], r.need \ {s})
SkipLease(k, r, s) ==
    Onward(k, [r EXCEPT !.degraded = TRUE], r.need \ {s})

Acquire(k) ==
    LET s == First(c[k].need)
        at == c[k].clock
    IN  /\ c[k].pc \in {"user", "slots"}
        /\ \/ /\ Answered /\ HasRoom(s, at)
              /\ lease' = Taken(k, s, at)
              /\ c' = [c EXCEPT ![k] = HaveLease(k, @, s)]
           \/ /\ ~HasRoom(s, at)
              /\ Release(Reap(s, at), k, c[k].t, c[k].slots)
              /\ \E r \in Refused(k) : c' = [c EXCEPT ![k] = Noted(r)]
           \/ /\ Outage
              /\ \/ UNCHANGED lease
                 \/ HasRoom(s, at) /\ lease' = Taken(k, s, at)
              /\ c' = [c EXCEPT ![k] = SkipLease(k, @, s)]
        /\ UNCHANGED <<rate, ledger, db, dials, now, crashes>>

\* start_execution_log inserts a Running row; run_chat does so inside its
\* try ... finally, run_embedding does not.
StartLog_OutsideTry(k) ==
    /\ c[k].pc = "log"
    /\ \/ c' = [c EXCEPT ![k] =
                  [@ EXCEPT !.log = "running", !.t = 1,
                            !.pc = IF k \in Chats THEN "rate" ELSE "dial"]]
       \/ c' = [c EXCEPT ![k] = Over(@, "end")]
    /\ UNCHANGED <<lease, rate, ledger, db, dials, now, outages, crashes>>
StartLog(k) ==
    /\ c[k].pc = "log"
    /\ \/ c' = [c EXCEPT ![k] =
                  [@ EXCEPT !.log = "running", !.t = 1,
                            !.pc = IF k \in Chats THEN "rate" ELSE "dial"]]
       \/ c' = [c EXCEPT ![k] =
                  IF k \in Chats THEN [@ EXCEPT !.pc = "free"]
                  ELSE Over([@ EXCEPT !.leaked = TRUE], "end")]
    /\ UNCHANGED <<lease, rate, ledger, db, dials, now, outages, crashes>>

\* run_embedding begins with the rate limit of its only target.
StartEmbedding(k) ==
    /\ c[k].pc = "idle" /\ k \in Embeds
    /\ c' = [c EXCEPT ![k] = [@ EXCEPT !.pc = "rate", !.t = 1]]
    /\ UNCHANGED <<lease, rate, ledger, db, dials, now, outages, crashes>>

\* check_rate_limit, then acquire_leases for the model and its provider.
CheckRate(k) ==
    LET p == ProviderOf[c[k].t]
        Pass(r) == Acquiring(k, r, "slots", SlotScopes(k, c[k].t))
    IN  /\ c[k].pc = "rate"
        /\ \/ /\ RateLimit[p] = 0
              /\ c' = [c EXCEPT ![k] = Pass(@)]
              /\ UNCHANGED <<rate, outages>>
           \/ /\ RateLimit[p] > 0 /\ Cardinality(InWindow(p)) < RateLimit[p]
              /\ Answered
              /\ rate' = Counted(k, p)
              /\ c' = [c EXCEPT ![k] = Pass(@)]
           \/ /\ RateLimit[p] > 0 /\ Cardinality(InWindow(p)) >= RateLimit[p]
              /\ Answered
              /\ rate' = [rate EXCEPT ![p] = InWindow(p)]
              /\ \E r \in IF k \in Chats THEN After(k, c[k])
                          ELSE {Over(c[k], "end")} : c' = [c EXCEPT ![k] = r]
           \/ /\ RateLimit[p] > 0 /\ Outage
              /\ \/ UNCHANGED rate
                 \/ /\ Cardinality(InWindow(p)) < RateLimit[p]
                    /\ rate' = Counted(k, p)
              /\ c' = [c EXCEPT ![k] = Pass([@ EXCEPT !.degraded = TRUE])]
        /\ UNCHANGED <<lease, ledger, db, dials, now, crashes>>

\* The request goes to the provider.  A substitute that lacks a capability the
\* call needs is passed over; its options may even fail to build.
Requested(k, stream) ==
    dials \cup {d \in {[call |-> k, t |-> c[k].t, try |-> c[k].try,
                        stream |-> stream, at |-> now]} :
                  RateLimit[ProviderOf[d.t]] > 0}

Send(k) ==
    /\ c[k].pc = "dial"
    /\ \/ /\ c' = [c EXCEPT ![k] = [@ EXCEPT !.pc = "sent", !.clock = now,
                                             !.stream = k \in Streams]]
          /\ dials' = Requested(k, k \in Streams)
       \/ /\ k \in Chats /\ c[k].t > 1
          /\ \E r \in After(k, c[k]) \cup {[c[k] EXCEPT !.pc = "free"]} :
                c' = [c EXCEPT ![k] = [@ EXCEPT !.pc = "leave", !.then = r.pc]]
          /\ UNCHANGED dials
    /\ UNCHANGED <<lease, rate, ledger, db, now, outages, crashes>>

\* A stream that ends before its first token is asked for again in one piece.
Fallback(k) ==
    /\ c[k].pc = "sent" /\ c[k].stream
    /\ c' = [c EXCEPT ![k] = [@ EXCEPT !.clock = now, !.stream = FALSE]]
    /\ dials' = Requested(k, FALSE)
    /\ UNCHANGED <<lease, rate, ledger, db, now, outages, crashes>>

\* The provider answers: finish_execution_log, the metrics, the usage
\* snapshot.  If one of the latter raises, the attempt counts as failed.
Answer(k) ==
    /\ c[k].pc = "sent"
    /\ \E n \in Answers, r \in After(k, c[k]) \cup {[c[k] EXCEPT !.pc = "free"]} :
          /\ k \in Embeds => n = 0
          /\ c' = [c EXCEPT ![k] =
                [@ EXCEPT !.pc = "leave", !.log = "success", !.tokens = n,
                          !.then = IF k \in Embeds THEN "open" ELSE r.pc]]
    /\ UNCHANGED <<lease, rate, ledger, db, dials, now, outages, crashes>>

\* The provider fails.  A timeout or an offline host is retried.
NextTry_Same(k) == c[k].try
NextTry(k) == c[k].try + 1
MayRetry(k) == k \in Chats /\ c[k].try < MaxRetries
Retry(k) ==
    /\ c[k].pc = "sent" /\ MayRetry(k)
    /\ c' = [c EXCEPT ![k] = [@ EXCEPT !.pc = "dial", !.clock = 0,
                                       !.try = NextTry(k)]]
    /\ UNCHANGED <<lease, rate, ledger, db, dials, now, outages, crashes>>

Fail(k) ==
    /\ c[k].pc = "sent"
    /\ \E r \in After(k, c[k]) : c' = [c EXCEPT ![k] =
          IF k \in Chats THEN [@ EXCEPT !.pc = "leave", !.then = r.pc]
          ELSE [@ EXCEPT !.pc = "leave", !.log = "failed", !.then = "open"]]
    /\ UNCHANGED <<lease, rate, ledger, db, dials, now, outages, crashes>>

\* The finally block of an attempt, or of run_embedding.
Leave(k) ==
    /\ c[k].pc = "leave"
    /\ Release(lease, k, c[k].t, c[k].slots)
    /\ LET r == Noted([c[k] EXCEPT !.pc = c[k].then, !.then = "idle",
                                   !.slots = {}, !.clock = 0])
       IN  c' = [c EXCEPT ![k] =
                   CASE k \in Embeds -> Over(r, "open")
                     [] k \in Chats /\ r.pc = "rate" ->
                           [r EXCEPT !.t = r.t + 1, !.try = 0]
                     [] OTHER -> r]
    /\ UNCHANGED <<rate, ledger, db, dials, now, crashes>>

\* Every attempt failed: finish_execution_log with the last error.
Close(k) ==
    /\ c[k].pc = "close"
    /\ c' = [c EXCEPT ![k] = [@ EXCEPT !.pc = "free", !.log = "failed"]]
    /\ UNCHANGED <<lease, rate, ledger, db, dials, now, outages, crashes>>

\* The finally block of run_chat: the user's lease, then the reservation.
Free(k) ==
    /\ c[k].pc = "free"
    /\ Release(lease, k, 0, c[k].user)
    /\ c' = [c EXCEPT ![k] = Noted([@ EXCEPT !.pc = "unreserve", !.user = {}])]
    /\ UNCHANGED <<rate, ledger, db, dials, now, crashes>>

Unclaimed(k, u) == [ledger EXCEPT ![u] = {r \in @ : r.call # k}]
Unreserve(k) ==
    /\ c[k].pc = "unreserve"
    /\ \/ /\ c[k].claim > 0 /\ Answered
          /\ ledger' = Unclaimed(k, UserOf[k])
       \/ c[k].claim > 0 /\ Outage /\ UNCHANGED ledger
       \/ c[k].claim = 0 /\ Answered /\ UNCHANGED ledger
    /\ c' = [c EXCEPT ![k] =
                Over(Noted(@), IF c[k].log = "none" THEN "end" ELSE "open")]
    /\ UNCHANGED <<lease, rate, db, dials, now, crashes>>

\* The request or job around the call commits, or an error rolls it back.
EndTransaction(k) ==
    /\ c[k].pc = "open"
    /\ c' = [c EXCEPT ![k] = Over(@, "end")]
    /\ db' \in {db, db \cup {[call |-> k, tokens |-> c[k].tokens]}}
    /\ UNCHANGED <<lease, rate, ledger, dials, now, outages, crashes>>

\* The process is killed; MariaDB rolls back, Redis keeps what it has.
Crash(k) ==
    /\ crashes < MaxCrashes
    /\ c[k].pc \notin {"idle", "end", "dead"}
    /\ crashes' = crashes + 1
    /\ c' = [c EXCEPT ![k] = Over(@, "dead")]
    /\ UNCHANGED <<lease, rate, ledger, db, dials, now, outages>>

Tick ==
    /\ now < MaxTime
    /\ \A k \in Calls : c[k].pc = "sent" => now < c[k].clock + Patience
    /\ Instant => \A k \in Calls :
                      c[k].pc \in {"idle", "sent", "open", "end", "dead"}
    /\ now' = now + 1
    /\ dials' = {d \in dials : d.at + Window > now + 1}
    /\ UNCHANGED <<lease, rate, ledger, db, c, outages, crashes>>

Step(k) ==
    \/ ReadUsage(k) \/ Reserve(k) \/ StartEmbedding(k) \/ StartLog(k)
    \/ Acquire(k) \/ CheckRate(k)
    \/ Send(k) \/ Fallback(k) \/ Answer(k) \/ Retry(k) \/ Fail(k) \/ Leave(k)
    \/ Close(k) \/ Free(k) \/ Unreserve(k) \/ EndTransaction(k)

Next == Tick \/ \E k \in Calls : Step(k) \/ Crash(k)

Spec == Init /\ [][Next]_vars

\* A process that runs keeps running: Redis and the sockets of providers
\* have timeouts, no call waits for another.
FairSpec == Spec /\ \A k \in Calls : WF_vars(c[k].pc # "idle" /\ Step(k))

-----------------------------------------------------------------------------
(* Safety.                                                                 *)

\* k holds a lease on s that has not expired.
Occupies(k, s) ==
    \E h \in c[k].user \cup c[k].slots : h.scope = s /\ h.exp > now

(* Never do more calls hold a lease on a user, a model or a provider than  *)
(* its limit allows, whatever was released late, lost or left to expire    *)
(* (limits.acquire_leases).  A lease counts until it expires.              *)
SlotsBounded ==
    \A s \in Limited(Scopes) :
        Cardinality({k \in Calls : Occupies(k, s)}) <= Limit[s]

(* A request goes to a provider only from a call that holds all the leases *)
(* it needs: its user's throughout, and those of the model and provider    *)
(* that it talks to now, not of the ones it gave up on (engine.run_chat).  *)
HoldsAllSlots ==
    \A k \in Calls :
        c[k].pc \in {"dial", "sent"} /\ ~c[k].degraded =>
            ScopesOf(c[k].user \cup c[k].slots)
                = Limited(UserScopes(k) \cup SlotScopes(k, c[k].t))

(* No request goes out without its leases, and no lease is given out       *)
(* beyond its limit.                                                       *)
SlotsRespected == HoldsAllSlots /\ SlotsBounded

(* A call that returned or raised left nothing behind in Redis, on any of  *)
(* its paths: no lease and no reservation.  Two cases are known to do so:  *)
(* an outage, and an embedding whose log row could not be inserted.        *)
NothingLeftBehind ==
    \A k \in Calls :
        c[k].pc \in {"open", "end"} /\ ~c[k].degraded /\ ~c[k].leaked =>
            /\ \A s \in Scopes : \A e \in lease[s] : e.call # k
            /\ \A r \in ledger[UserOf[k]] : r.call # k

(* The calls of a user that hold a reservation never exceed the quota by   *)
(* themselves, neither in number nor in the tokens they may use: however   *)
(* their reads of committed usage interleave (limits.reserve_quota).       *)
InFlight(u) == {k \in Chats : UserOf[k] = u /\ c[k].claim > now}
InFlightWithinQuota ==
    \A u \in Users :
        /\ RequestLimit > 0 => Cardinality(InFlight(u)) <= RequestLimit
        /\ TokenLimit > 0 =>
              MapThenSumSet(LAMBDA k : Estimate[k], InFlight(u)) <= TokenLimit

(* No window of a provider holds more requests than its limit, if each     *)
(* attempt makes one request: the sliding window has no edge at which two  *)
(* bursts meet (limits.check_rate_limit).  Retries, and the fallback from  *)
(* a stream, are not counted by the code, and would break it.              *)
RequestsPerWindow ==
    \A p \in Providers :
        RateLimit[p] > 0 =>
            Cardinality({d \in dials : ProviderOf[d.t] = p}) <= RateLimit[p]

(* Liveness: a call that began returns or its process dies; retries and    *)
(* failover end (engine.run_chat).                                         *)
CallsReturn ==
    \A k \in Calls : c[k].pc # "idle" ~> c[k].pc \in {"end", "dead"}

-----------------------------------------------------------------------------
(* What the documentation says and the code does not do.                   *)

(* The calls of a user that wrote or will write a log row, together with   *)
(* the committed ones, stay within the hourly request limit                *)
(* (limits.reserve_quota, docs/CONFIGURATION.md).                          *)
RequestsWithinQuota ==
    RequestLimit > 0 =>
        \A u \in Users :
            Cardinality({k \in Calls :
                /\ UserOf[k] = u
                /\ \/ c[k].claim > 0
                   \/ c[k].pc = "open"
                   \/ \E row \in db : row.call = k}) <= RequestLimit

(* The calls of a user that are between acquiring and releasing the user's *)
(* lease stay within the limit (docs/CONFIGURATION.md: "Held for the whole *)
(* request, across failover").                                             *)
UserSlotHeldThroughout ==
    \A s \in Limited({"user"} \X Users) :
        Cardinality({k \in Calls :
                        s \in ScopesOf(c[k].user \cup c[k].slots)}) <= Limit[s]
=============================================================================
