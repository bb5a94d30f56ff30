------------------------- MODULE Admission_proofs -------------------------
(* Proofs about Admission, for any number of calls, users, providers and   *)
(* targets, any limits and lifetimes, and any number of outages and        *)
(* crashes: no concurrency limit is ever exceeded by leases in time, no    *)
(* request goes out without all the leases it needs, no call leaves        *)
(* anything behind in Redis, and the calls in flight of a user stay within *)
(* the user's quota.                                                       *)
EXTENDS Admission, FiniteSetTheorems, FunctionTheorems, WellFoundedInduction, TLAPS

-----------------------------------------------------------------------------
(* The inductive invariant.                                                *)

\* The semaphores that l holds at time n.
InTime(l, s, n) == {x \in l[s] : x.exp > n}
GoodLeases(l, n) ==
    /\ l \in [Scopes -> SUBSET Entry]
    /\ \A s \in Scopes :
          /\ IsFiniteSet(l[s])
          /\ Limit[s] > 0 => Cardinality(InTime(l, s, n)) <= Limit[s]

\* The shape of a call in each phase.
Trying == {"rate", "slots", "dial", "sent", "leave"}
ChatOnly == {"reserve", "user", "close", "free", "unreserve"}
Sane(k, r, n) ==
    /\ r \in CallState
    /\ r.clock <= n
    /\ r.pc \in {"idle", "reserve", "user"} => r.t = 0
    /\ r.pc \in Trying => r.t \in Targets
    /\ r.pc \in {"user", "slots"} => r.need # {}
    /\ r.pc = "leave" => /\ r.then \in {"rate", "close", "free", "open"}
                         /\ r.then = "open" <=> k \in Embeds
    /\ r.pc = "leave" /\ r.then = "rate" => r.t < NTargets
    /\ r.slots # {} => /\ r.t \in Targets
                       /\ \/ r.pc \in Trying \ {"rate"}
                          \/ k \in Embeds /\ r.pc = "log"
    /\ r.pc \in {"idle", "reserve", "open", "end", "dead"} => r.user = {}
    /\ k \in Embeds => /\ r.user = {}
                       /\ r.pc \notin ChatOnly
                       /\ r.pc \in {"rate", "slots", "log"} => r.t = 1

\* Unless it met an outage, a call has the leases of its phase.
Complete(k, r) ==
    ~r.degraded =>
        /\ r.pc = "user" => ScopesOf(r.user) \cup r.need = Limited(UserScopes(k))
        /\ k \in Chats /\ r.pc \in Trying \cup {"log", "close"} =>
              ScopesOf(r.user) = Limited(UserScopes(k))
        /\ r.pc = "slots" =>
              ScopesOf(r.slots) \cup r.need = Limited(SlotScopes(k, r.t))
        /\ r.pc \in {"dial", "sent"} \/ (k \in Embeds /\ r.pc = "log") =>
              ScopesOf(r.slots) = Limited(SlotScopes(k, r.t))

\* Redis still has the leases that a call holds, until they expire.
Backed(l, k, r, n) ==
    /\ \A h \in r.user : h.exp > n =>
          [call |-> k, t |-> 0, exp |-> h.exp] \in l[h.scope]
    /\ \A h \in r.slots : h.exp > n =>
          [call |-> k, t |-> r.t, exp |-> h.exp] \in l[h.scope]

Others ==
    /\ rate \in [Providers -> SUBSET RateEntry]
    /\ ledger \in [Users -> SUBSET Claim]
    /\ db \subseteq LogRow
    /\ dials \subseteq Dial
    /\ now \in Nat /\ outages \in Nat /\ crashes \in Nat

CallsInv ==
    /\ c \in [Calls -> CallState]
    /\ \A k \in Calls : Sane(k, c[k], now)
    /\ \A k \in Calls : Complete(k, c[k])
    /\ \A k \in Calls : Backed(lease, k, c[k], now)

IInv == Others /\ GoodLeases(lease, now) /\ CallsInv

-----------------------------------------------------------------------------
(* Scopes.                                                                 *)

LEMMA ScopeFacts ==
    ASSUME NEW k \in Calls
    PROVE  /\ UserOf[k] \in Users
           /\ UserScopes(k) \subseteq Scopes
           /\ \A t \in Targets : SlotScopes(k, t) \subseteq Scopes
           /\ \A S : Limited(S) \subseteq S
           /\ \A t \in Targets : ProviderOf[t] \in Providers
           /\ k \in Chats \/ k \in Embeds
           /\ ~(k \in Chats /\ k \in Embeds)
           /\ 1 \in Targets
<1>1. UserOf[k] \in Users /\ 1 \in Targets /\ \A t \in Targets : ProviderOf[t] \in Providers
  BY CallsAssumption DEF Targets
<1>2. UserScopes(k) \subseteq Scopes
  BY <1>1 DEF UserScopes, Scopes
<1>3. \A t \in Targets : SlotScopes(k, t) \subseteq Scopes
  BY <1>1, <1>2 DEF SlotScopes, Scopes
<1>4. \A S : Limited(S) \subseteq S
  BY DEF Limited
<1> QED  BY <1>1, <1>2, <1>3, <1>4, CallsAssumption DEF Calls

\* First names a member of a set of scopes.
LEMMA FirstIn ==
    ASSUME NEW S \in SUBSET Scopes, S # {}
    PROVE  First(S) \in S
<1>1. \A s \in S : Rank(s) \in 1 .. 3
  BY DEF Rank
<1>2. \E s \in S : \A r \in S : Rank(s) <= Rank(r)
  <2>1. CASE \E s \in S : Rank(s) = 1
    BY <2>1, <1>1
  <2>2. CASE ~(\E s \in S : Rank(s) = 1) /\ \E s \in S : Rank(s) = 2
    BY <2>2, <1>1
  <2>3. CASE ~(\E s \in S : Rank(s) = 1) /\ ~(\E s \in S : Rank(s) = 2)
    BY <2>3, <1>1
  <2> QED  BY <2>1, <2>2, <2>3
<1> QED  BY <1>2 DEF First

-----------------------------------------------------------------------------
(* What the steps do to the semaphores.                                    *)

\* Fewer entries.
LEMMA FewerLeases ==
    ASSUME NEW l, NEW m, NEW n \in Nat, GoodLeases(l, n),
           m \in [Scopes -> SUBSET Entry], \A s \in Scopes : m[s] \subseteq l[s]
    PROVE  GoodLeases(m, n)
<1> SUFFICES ASSUME NEW s \in Scopes
             PROVE  /\ IsFiniteSet(m[s])
                    /\ Limit[s] > 0 => Cardinality(InTime(m, s, n)) <= Limit[s]
  BY DEF GoodLeases
<1>1. IsFiniteSet(l[s]) /\ m[s] \in SUBSET l[s]
  BY DEF GoodLeases
<1>2. IsFiniteSet(m[s])
  BY <1>1, FS_Subset
<1>3. InTime(m, s, n) \in SUBSET InTime(l, s, n)
  BY <1>1 DEF InTime
<1>4. InTime(l, s, n) \in SUBSET l[s]
  BY DEF InTime
<1>5. IsFiniteSet(InTime(l, s, n))
  BY <1>1, <1>4, FS_Subset
<1>6. Cardinality(InTime(m, s, n)) <= Cardinality(InTime(l, s, n))
  BY <1>3, <1>5, FS_Subset
<1>7. IsFiniteSet(InTime(m, s, n))
  BY <1>3, <1>5, FS_Subset
<1>8. Cardinality(InTime(m, s, n)) \in Nat /\ Cardinality(InTime(l, s, n)) \in Nat
  BY <1>5, <1>7, FS_CardinalityType
<1>9. Limit[s] \in Nat /\ (Limit[s] > 0 => Cardinality(InTime(l, s, n)) <= Limit[s])
  BY LimitsAssumption DEF GoodLeases
<1> QED  BY <1>2, <1>6, <1>8, <1>9

\* Later, fewer of the same entries are in time.
LEMMA LaterLeases ==
    ASSUME NEW l, NEW n \in Nat, NEW m \in Nat, n <= m, GoodLeases(l, n)
    PROVE  GoodLeases(l, m)
<1> SUFFICES ASSUME NEW s \in Scopes, Limit[s] > 0
             PROVE  Cardinality(InTime(l, s, m)) <= Limit[s]
  BY DEF GoodLeases
<1>1. IsFiniteSet(l[s]) /\ l[s] \subseteq Entry
  BY DEF GoodLeases
<1>2. InTime(l, s, m) \in SUBSET InTime(l, s, n)
  BY <1>1 DEF InTime, Entry
<1>3. IsFiniteSet(InTime(l, s, n))
  BY <1>1, FS_Subset DEF InTime
<1>4. Cardinality(InTime(l, s, m)) <= Cardinality(InTime(l, s, n))
  BY <1>2, <1>3, FS_Subset
<1>5. Cardinality(InTime(l, s, m)) \in Nat /\ Cardinality(InTime(l, s, n)) \in Nat
  BY <1>2, <1>3, FS_Subset, FS_CardinalityType
<1>6. Limit[s] \in Nat /\ Cardinality(InTime(l, s, n)) <= Limit[s]
  BY LimitsAssumption DEF GoodLeases
<1> QED  BY <1>4, <1>5, <1>6

\* What stays when calls other than k are to keep their leases.
KeepsOthers(l, m, k, n) ==
    \A s \in Scopes : \A x \in l[s] : x.call # k /\ x.exp > n => x \in m[s]

LEMMA ReapFacts ==
    ASSUME IInv, NEW s \in Scopes, NEW at \in Nat, at <= now
    PROVE  /\ GoodLeases(Reap(s, at), now)
           /\ \A r \in Scopes : \A x \in lease[r] :
                 x.exp > now => x \in Reap(s, at)[r]
<1>1. now \in Nat /\ GoodLeases(lease, now) /\ lease \in [Scopes -> SUBSET Entry]
  BY DEF IInv, Others, GoodLeases
<1>2. Live(s, at) \subseteq lease[s] /\ Live(s, at) \subseteq Entry
  BY <1>1 DEF Live
<1>3. Reap(s, at) \in [Scopes -> SUBSET Entry]
  BY <1>1, <1>2 DEF Reap
<1>4. \A r \in Scopes : Reap(s, at)[r] \subseteq lease[r]
  BY <1>1, <1>2 DEF Reap
<1>5. GoodLeases(Reap(s, at), now)
  BY <1>1, <1>3, <1>4, FewerLeases
<1>6. ASSUME NEW r \in Scopes, NEW x \in lease[r], x.exp > now
      PROVE  x \in Reap(s, at)[r]
  <2>1. x.exp \in Nat
    BY <1>1 DEF Entry
  <2>2. x.exp > at
    BY <2>1, <1>1, <1>6
  <2> QED  BY <2>2, <1>1 DEF Reap, Live
<1> QED  BY <1>5, <1>6

LEMMA TakenFacts ==
    ASSUME IInv, NEW k \in Calls, NEW s \in Scopes, NEW at \in Nat, at <= now,
           HasRoom(s, at)
    PROVE  /\ GoodLeases(Taken(k, s, at), now)
           /\ \A r \in Scopes : \A x \in lease[r] :
                 x.exp > now => x \in Taken(k, s, at)[r]
           /\ [call |-> k, t |-> c[k].t, exp |-> at + TTL] \in Taken(k, s, at)[s]
<1> DEFINE e == [call |-> k, t |-> c[k].t, exp |-> at + TTL]
           m == Taken(k, s, at)
<1>1. /\ now \in Nat /\ GoodLeases(lease, now) /\ lease \in [Scopes -> SUBSET Entry]
      /\ TTL \in Nat /\ Limit[s] \in Nat
      /\ c[k] \in CallState
  BY LimitsAssumption DEF IInv, Others, GoodLeases, CallsInv
<1>2. e \in Entry
  BY <1>1 DEF Entry, CallState
<1>3. Live(s, at) \in SUBSET lease[s] /\ IsFiniteSet(lease[s])
  BY <1>1 DEF Live, GoodLeases
<1>4. IsFiniteSet(Live(s, at)) /\ Cardinality(Live(s, at)) \in Nat
  BY <1>3, FS_Subset, FS_CardinalityType
<1>5. IsFiniteSet(Live(s, at) \cup {e})
      /\ Cardinality(Live(s, at) \cup {e}) <= Limit[s]
  <2>1. IsFiniteSet(Live(s, at) \cup {e})
        /\ Cardinality(Live(s, at) \cup {e}) =
              IF e \in Live(s, at) THEN Cardinality(Live(s, at))
              ELSE Cardinality(Live(s, at)) + 1
    BY <1>4, FS_AddElement
  <2>2. Cardinality(Live(s, at)) < Limit[s]
    BY DEF HasRoom
  <2> QED  BY <2>1, <2>2, <1>4, <1>1
<1>6. m[s] = Live(s, at) \cup {e} /\ \A r \in Scopes \ {s} : m[r] = lease[r]
  BY <1>1 DEF Taken
<1>7. m \in [Scopes -> SUBSET Entry]
  BY <1>1, <1>2, <1>3 DEF Taken
<1>8. ASSUME NEW r \in Scopes
      PROVE  /\ IsFiniteSet(m[r])
             /\ Limit[r] > 0 => Cardinality(InTime(m, r, now)) <= Limit[r]
  <2>1. CASE r # s
    BY <2>1, <1>6, <1>1 DEF GoodLeases, InTime
  <2>2. CASE r = s
    <3>1. InTime(m, s, now) \in SUBSET (Live(s, at) \cup {e})
      BY <1>6 DEF InTime
    <3>2. /\ IsFiniteSet(InTime(m, s, now))
          /\ Cardinality(InTime(m, s, now)) <= Cardinality(Live(s, at) \cup {e})
      BY <3>1, <1>5, FS_Subset
    <3>3. Cardinality(InTime(m, s, now)) \in Nat
          /\ Cardinality(Live(s, at) \cup {e}) \in Nat
      BY <3>2, <1>5, FS_CardinalityType
    <3> QED  BY <2>2, <3>2, <3>3, <1>5, <1>6, <1>1
  <2> QED  BY <2>1, <2>2
<1>9. GoodLeases(m, now)
  BY <1>7, <1>8 DEF GoodLeases
<1>10. ASSUME NEW r \in Scopes, NEW x \in lease[r], x.exp > now
       PROVE  x \in m[r]
  <2>1. x.exp \in Nat
    BY <1>1 DEF Entry
  <2>2. x.exp > at
    BY <2>1, <1>1, <1>10
  <2> QED  BY <2>2, <1>6 DEF Live
<1>11. e \in m[s]
  BY <1>6
<1> QED  BY <1>9, <1>10, <1>11

LEMMA WithoutFacts ==
    ASSUME NEW l, now \in Nat, GoodLeases(l, now), NEW k \in Calls, NEW t, NEW S
    PROVE  /\ GoodLeases(Without(l, k, t, S), now)
           /\ \A s \in Scopes : \A x \in l[s] :
                 ~(x.call = k /\ x.t = t) => x \in Without(l, k, t, S)[s]
<1> DEFINE m == Without(l, k, t, S)
<1>1. l \in [Scopes -> SUBSET Entry]
  BY DEF GoodLeases
<1>2. \A s \in Scopes : m[s] \subseteq l[s]
  BY DEF Without
<1>3. m \in [Scopes -> SUBSET Entry]
  BY <1>1 DEF Without
<1>4. GoodLeases(m, now)
  BY <1>1, <1>2, <1>3, FewerLeases
<1>5. \A s \in Scopes : \A x \in l[s] : ~(x.call = k /\ x.t = t) => x \in m[s]
  BY DEF Without
<1> QED  BY <1>4, <1>5

\* A release takes nothing but entries of this call and this attempt.
LEMMA ReleaseFacts ==
    ASSUME NEW l, now \in Nat, GoodLeases(l, now), NEW k \in Calls, NEW t, NEW held,
           outages \in Nat, Release(l, k, t, held)
    PROVE  /\ GoodLeases(lease', now)
           /\ \A s \in Scopes : \A x \in l[s] :
                 ~(x.call = k /\ x.t = t) => x \in lease'[s]
           /\ held = {} => lease' = Without(l, k, t, {})
           /\ outages' \in Nat
<1>1. PICK S : lease' = Without(l, k, t, S) /\ (held = {} => S = {})
  BY DEF Release, ScopesOf
<1>2. outages' \in Nat
  BY DEF Release, Answered, Outage
<1> QED  BY <1>1, <1>2, WithoutFacts

-----------------------------------------------------------------------------
(* A step of one call.                                                     *)

LEMMA CallStep ==
    ASSUME IInv, Others', NEW k \in Calls, NEW r,
           c' = [c EXCEPT ![k] = r], now' = now,
           GoodLeases(lease', now), KeepsOthers(lease, lease', k, now),
           Sane(k, r, now), Complete(k, r), Backed(lease', k, r, now)
    PROVE  IInv'
<1>1. c \in [Calls -> CallState] /\ r \in CallState
  BY DEF IInv, CallsInv, Sane
<1>2. c' \in [Calls -> CallState] /\ c'[k] = r /\ \A j \in Calls \ {k} : c'[j] = c[j]
  BY <1>1
<1>3. \A j \in Calls : Sane(j, c'[j], now)
  BY <1>2 DEF IInv, CallsInv
<1>4. \A j \in Calls : Complete(j, c'[j])
  BY <1>2 DEF IInv, CallsInv
<1>5. ASSUME NEW j \in Calls PROVE Backed(lease', j, c'[j], now)
  <2>1. CASE j = k
    BY <2>1, <1>2
  <2>2. CASE j # k
    <3>1. c'[j] = c[j] /\ Backed(lease, j, c[j], now) /\ c[j] \in CallState
      BY <2>2, <1>1, <1>2 DEF IInv, CallsInv
    <3>2. \A h \in c[j].user \cup c[j].slots : h.scope \in Scopes /\ h.exp \in Nat
      BY <3>1 DEF CallState, Held
    <3>3. \A s \in Scopes : \A t, e : e > now /\ [call |-> j, t |-> t, exp |-> e] \in lease[s]
              => [call |-> j, t |-> t, exp |-> e] \in lease'[s]
      BY <2>2 DEF KeepsOthers
    <3> QED  BY <3>1, <3>2, <3>3 DEF Backed
  <2> QED  BY <2>1, <2>2
<1> QED  BY <1>2, <1>3, <1>4, <1>5 DEF IInv, CallsInv

\* A step that leaves the semaphores alone and gives up no lease.
LEMMA QuietStep ==
    ASSUME IInv, Others', NEW k \in Calls, NEW r,
           c' = [c EXCEPT ![k] = r], now' = now, lease' = lease,
           Sane(k, r, now), Complete(k, r),
           r.user \subseteq c[k].user,
           r.slots \subseteq c[k].slots, r.slots = {} \/ r.t = c[k].t
    PROVE  IInv'
<1>1. GoodLeases(lease', now) /\ KeepsOthers(lease, lease', k, now)
  BY DEF IInv, KeepsOthers
<1>2. Backed(lease', k, r, now)
  BY DEF IInv, CallsInv, Backed
<1> QED  BY <1>1, <1>2, CallStep

-----------------------------------------------------------------------------
(* The states that calls move to.                                          *)

LEMMA CallFacts ==
    ASSUME IInv, NEW k \in Calls
    PROVE  /\ c[k] \in CallState
           /\ Sane(k, c[k], now) /\ Complete(k, c[k])
           /\ Backed(lease, k, c[k], now)
           /\ now \in Nat /\ c[k].clock <= now
           /\ GoodLeases(lease, now)
           /\ outages \in Nat /\ crashes \in Nat
  BY DEF IInv, CallsInv, Others, Sane

LEMMA OverFacts ==
    ASSUME NEW k \in Calls, NEW r \in CallState, NEW pc \in {"open", "end", "dead"},
           now \in Nat
    PROVE  /\ Sane(k, Over(r, pc), now) /\ Complete(k, Over(r, pc))
           /\ Over(r, pc).user = {} /\ Over(r, pc).slots = {}
<1> DEFINE o == Over(r, pc)
<1>1. o = [NewCall EXCEPT !.pc = pc, !.log = r.log, !.tokens = r.tokens,
                          !.degraded = r.degraded, !.leaked = r.leaked]
  BY DEF Over
<1>2. /\ o.pc = pc /\ o.t = 0 /\ o.try = 0 /\ o.clock = 0 /\ o.need = {}
      /\ o.user = {} /\ o.slots = {}
  BY <1>1 DEF NewCall
<1>3. o \in CallState
  <2>1. NewCall \in CallState
    <3>1. 0 \in 0 .. NTargets
      BY CallsAssumption
    <3> QED  BY <3>1 DEF NewCall, CallState, Phases
  <2>2. /\ pc \in Phases /\ r.log \in {"none", "running", "success", "failed"}
        /\ r.tokens \in Nat /\ r.degraded \in BOOLEAN /\ r.leaked \in BOOLEAN
    BY DEF CallState, Phases
  <2> QED  BY <1>1, <2>1, <2>2 DEF CallState
<1>4. Sane(k, o, now)
  BY <1>2, <1>3 DEF Sane, Trying, ChatOnly
<1>5. Complete(k, o)
  BY <1>2 DEF Complete, Trying
<1> QED  BY <1>2, <1>4, <1>5

LEMMA AcquiringFacts ==
    ASSUME NEW k \in Calls, NEW r \in CallState, NEW S \in SUBSET Scopes,
           NEW phase \in {"user", "slots"}, now \in Nat
    PROVE  LET x == Acquiring(k, r, phase, S)
           IN  /\ x \in CallState
               /\ x.user = r.user /\ x.slots = r.slots /\ x.t = r.t
               /\ x.degraded = r.degraded
               /\ \/ /\ x.pc = phase /\ x.need = Limited(S) /\ Limited(S) # {}
                     /\ x.clock = now
                  \/ /\ x.pc = Admitted(k, phase) /\ Limited(S) = {}
                     /\ x.clock = r.clock
<1>1. CASE Limited(S) = {}
  BY <1>1 DEF Acquiring, Admitted, CallState, Phases
<1>2. CASE Limited(S) # {}
  BY <1>2 DEF Acquiring, Limited, CallState, Phases
<1> QED  BY <1>1, <1>2

LEMMA AfterFacts ==
    ASSUME NEW k \in Calls, NEW r \in CallState, NEW x \in After(k, r)
    PROVE  /\ x \in CallState
           /\ x.user = r.user /\ x.slots = r.slots /\ x.clock = r.clock
           /\ x.degraded = r.degraded
           /\ \/ x.pc = "close" /\ x.t = r.t
              \/ x.pc = "rate" /\ x.t = r.t + 1 /\ x.t \in Targets /\ r.t < NTargets
<1>1. NTargets \in Nat
  BY CallsAssumption
<1>2. CASE x = [r EXCEPT !.pc = "close"]
  BY <1>2 DEF CallState, Phases
<1>3. CASE x = [r EXCEPT !.pc = "rate", !.t = r.t + 1, !.try = 0] /\ r.t < NTargets
  <2>1. r.t \in 0 .. NTargets /\ r.t + 1 \in Targets /\ r.t + 1 \in 0 .. NTargets
    BY <1>1, <1>3 DEF CallState, Targets
  <2> QED  BY <1>3, <2>1 DEF CallState, Phases
<1> QED  BY <1>2, <1>3 DEF After

-----------------------------------------------------------------------------
(* The actions.                                                            *)

LEMMA OthersUnchanged ==
    ASSUME IInv, UNCHANGED <<rate, ledger, db, dials, now, crashes>>, outages' \in Nat
    PROVE  Others'
  BY DEF IInv, Others

LEMMA ReadUsageInv == ASSUME IInv, NEW k \in Calls, ReadUsage(k) PROVE IInv'
<1>1. k \in Chats /\ c[k].pc = "idle" /\ c[k].t = 0 /\ c[k].user = {} /\ c[k].slots = {}
      /\ c[k] \in CallState /\ now \in Nat /\ c[k].clock <= now
      /\ k \notin Embeds /\ UserScopes(k) \in SUBSET Scopes
  BY CallFacts, ScopeFacts DEF ReadUsage, Sane, Trying
<1>2. Others' /\ lease' = lease /\ now' = now
  BY OthersUnchanged DEF ReadUsage, IInv, Others
<1>3. CASE RequestLimit = 0 /\ TokenLimit = 0
  <2> DEFINE x == Acquiring(k, c[k], "user", UserScopes(k))
  <2>1. c' = [c EXCEPT ![k] = x]
    BY <1>3 DEF ReadUsage
  <2>2. /\ x \in CallState
        /\ x.user = {} /\ x.slots = {} /\ x.t = 0
        /\ \/ /\ x.pc = "user" /\ x.need = Limited(UserScopes(k)) /\ x.need # {}
              /\ x.clock = now
           \/ /\ x.pc = "log" /\ Limited(UserScopes(k)) = {}
              /\ x.clock = c[k].clock
    BY <1>1, AcquiringFacts DEF Admitted
  <2> HIDE DEF x
  <2>3. Sane(k, x, now)
    BY <1>1, <2>2 DEF Sane, Trying, ChatOnly
  <2>4. Complete(k, x)
    BY <1>1, <2>2 DEF Complete, Trying, ScopesOf
  <2> QED  BY <1>2, <2>1, <2>2, <2>3, <2>4, QuietStep
<1>4. CASE ~(RequestLimit = 0 /\ TokenLimit = 0)
  <2> DEFINE x == [c[k] EXCEPT !.pc = "reserve", !.read = Committed(UserOf[k])]
  <2>1. c' = [c EXCEPT ![k] = x]
    BY <1>4 DEF ReadUsage
  <2>2. Committed(UserOf[k]) \subseteq LogRow
    BY DEF Committed, IInv, Others
  <2>3. /\ x \in CallState /\ x.pc = "reserve" /\ x.t = 0
        /\ x.user = {} /\ x.slots = {} /\ x.clock = c[k].clock
    BY <1>1, <2>2 DEF CallState, Phases
  <2> HIDE DEF x
  <2>4. Sane(k, x, now) /\ Complete(k, x)
    BY <1>1, <2>3 DEF Sane, Complete, Trying, ChatOnly
  <2> QED  BY <1>2, <2>1, <2>3, <2>4, QuietStep
<1> QED  BY <1>3, <1>4

LEMMA ReserveInv == ASSUME IInv, NEW k \in Calls, Reserve(k) PROVE IInv'
<1> DEFINE u == UserOf[k]
<1>1. /\ c[k].pc = "reserve" /\ c[k].t = 0 /\ c[k].user = {} /\ c[k].slots = {}
      /\ c[k] \in CallState /\ now \in Nat /\ c[k].clock <= now
      /\ k \notin Embeds /\ k \in Chats
  BY CallFacts, ScopeFacts DEF Reserve, Sane, Trying, ChatOnly
<1>2. UserScopes(k) \in SUBSET Scopes /\ u \in Users
  BY ScopeFacts
<1>3. TTL \in Nat /\ Grace \in Nat /\ now + TTL + Grace \in Nat /\ Estimate[k] \in Nat
  BY <1>1, CallsAssumption, LimitsAssumption
<1>4. LiveClaims(u) \subseteq Claim /\ Claimed(k, u) \in [Users -> SUBSET Claim]
      /\ [ledger EXCEPT ![u] = LiveClaims(u)] \in [Users -> SUBSET Claim]
      /\ ledger \in [Users -> SUBSET Claim]
  <2>1. ledger \in [Users -> SUBSET Claim]
    BY DEF IInv, Others
  <2>2. LiveClaims(u) \subseteq Claim
    BY <1>2, <2>1 DEF LiveClaims
  <2>3. [call |-> k, tokens |-> Estimate[k], exp |-> now + TTL + Grace] \in Claim
    BY <1>3 DEF Claim
  <2> QED  BY <2>1, <2>2, <2>3, <1>2 DEF Claimed
<1>5. /\ lease' = lease /\ now' = now
      /\ ledger' \in [Users -> SUBSET Claim] /\ outages' \in Nat
      /\ UNCHANGED <<rate, db, dials, crashes>>
  BY <1>4, CallFacts DEF Reserve, Answered, Outage
<1>6. Others'
  BY <1>5 DEF IInv, Others
<1> DEFINE Good(r) == /\ r \in CallState /\ r.user = {} /\ r.slots = {} /\ r.t = 0
                      /\ r.clock = c[k].clock
           q == [c[k] EXCEPT !.read = {}]
<1>7. /\ Good([q EXCEPT !.claim = now + TTL + Grace])
      /\ Good([q EXCEPT !.degraded = TRUE]) /\ Good(q)
  BY <1>1, <1>3 DEF CallState
<1>8. PICK x : /\ c' = [c EXCEPT ![k] = x]
               /\ \/ \E r \in CallState : x = Over(r, "end")
                  \/ \E r : Good(r) /\ x = Acquiring(k, r, "user", UserScopes(k))
  <2>1. CASE \E r : Good(r) /\ c' = [c EXCEPT ![k] = Acquiring(k, r, "user", UserScopes(k))]
    BY <2>1
  <2>2. CASE \E r : Good(r) /\ c' = [c EXCEPT ![k] = Over(r, "end")]
    BY <2>2
  <2>3. \/ c' = [c EXCEPT ![k] = Acquiring(k, [q EXCEPT !.claim = now + TTL + Grace],
                                           "user", UserScopes(k))]
        \/ c' = [c EXCEPT ![k] = Over(q, "end")]
        \/ c' = [c EXCEPT ![k] = Over([q EXCEPT !.degraded = TRUE], "end")]
        \/ c' = [c EXCEPT ![k] = Acquiring(k, [q EXCEPT !.degraded = TRUE],
                                           "user", UserScopes(k))]
    BY DEF Reserve
  <2> HIDE DEF Good, q
  <2> QED  BY <2>1, <2>2, <2>3, <1>7
<1>9. CASE \E r \in CallState : x = Over(r, "end")
  BY <1>1, <1>5, <1>6, <1>8, <1>9, OverFacts, QuietStep
<1>10. CASE \E r : Good(r) /\ x = Acquiring(k, r, "user", UserScopes(k))
  <2>1. /\ x \in CallState
        /\ x.user = {} /\ x.slots = {} /\ x.t = 0
        /\ \/ /\ x.pc = "user" /\ x.need = Limited(UserScopes(k)) /\ x.need # {}
              /\ x.clock = now
           \/ /\ x.pc = "log" /\ Limited(UserScopes(k)) = {}
              /\ x.clock = c[k].clock
    BY <1>1, <1>2, <1>10, AcquiringFacts DEF Admitted
  <2>2. Sane(k, x, now)
    BY <1>1, <2>1 DEF Sane, Trying, ChatOnly
  <2>3. Complete(k, x)
    BY <1>1, <2>1 DEF Complete, Trying, ScopesOf
  <2> QED  BY <1>5, <1>6, <1>8, <2>1, <2>2, <2>3, QuietStep
<1> QED  BY <1>8, <1>9, <1>10

LEMMA StartEmbeddingInv == ASSUME IInv, NEW k \in Calls, StartEmbedding(k) PROVE IInv'
<1> DEFINE x == [c[k] EXCEPT !.pc = "rate", !.t = 1]
<1>1. /\ c[k].user = {} /\ c[k].slots = {} /\ c[k] \in CallState /\ c[k].clock <= now
      /\ k \notin Chats /\ 1 \in Targets /\ 1 \in 0 .. NTargets
  BY CallFacts, ScopeFacts, CallsAssumption DEF StartEmbedding, Sane, Trying, Targets
<1>2. /\ c' = [c EXCEPT ![k] = x] /\ lease' = lease /\ now' = now /\ Others'
  BY OthersUnchanged DEF StartEmbedding, IInv, Others
<1>3. /\ x \in CallState /\ x.pc = "rate" /\ x.t = 1 /\ x.clock = c[k].clock
      /\ x.user = {} /\ x.slots = {}
  BY <1>1 DEF CallState, Phases
<1> HIDE DEF x
<1>4. Sane(k, x, now) /\ Complete(k, x)
  BY <1>1, <1>3 DEF Sane, Complete, Trying, ChatOnly
<1> QED  BY <1>2, <1>3, <1>4, QuietStep

LEMMA StartLogInv == ASSUME IInv, NEW k \in Calls, StartLog(k) PROVE IInv'
<1>1. /\ c[k].pc = "log" /\ c[k] \in CallState /\ now \in Nat /\ c[k].clock <= now
      /\ Sane(k, c[k], now) /\ Complete(k, c[k])
      /\ 1 \in Targets /\ 1 \in 0 .. NTargets
      /\ k \in Chats <=> k \notin Embeds
  BY CallFacts, ScopeFacts, CallsAssumption DEF StartLog, Targets
<1>2. /\ lease' = lease /\ now' = now /\ Others'
  BY OthersUnchanged DEF StartLog, IInv, Others
<1>3. CASE c' = [c EXCEPT ![k] = [@ EXCEPT !.log = "running", !.t = 1,
                                     !.pc = IF k \in Chats THEN "rate" ELSE "dial"]]
  <2> DEFINE x == [c[k] EXCEPT !.log = "running", !.t = 1,
                               !.pc = IF k \in Chats THEN "rate" ELSE "dial"]
  <2>1. c' = [c EXCEPT ![k] = x]
    BY <1>3
  <2>2. /\ x \in CallState /\ x.t = 1 /\ x.clock = c[k].clock
        /\ x.pc = IF k \in Chats THEN "rate" ELSE "dial"
        /\ x.user = c[k].user /\ x.slots = c[k].slots /\ x.degraded = c[k].degraded
    BY <1>1 DEF CallState, Phases
  <2> HIDE DEF x
  <2>3. Sane(k, x, now)
    BY <1>1, <2>2 DEF Sane, Trying, ChatOnly
  <2>4. Complete(k, x)
    BY <1>1, <2>2 DEF Sane, Complete, Trying
  <2>5. x.slots = {} \/ x.t = c[k].t
    BY <1>1, <2>2 DEF Sane, Trying
  <2> QED  BY <1>2, <2>1, <2>2, <2>3, <2>4, <2>5, QuietStep
<1>4. CASE k \in Chats /\ c' = [c EXCEPT ![k] = [@ EXCEPT !.pc = "free"]]
  <2> DEFINE x == [c[k] EXCEPT !.pc = "free"]
  <2>1. /\ x \in CallState /\ x.t = c[k].t /\ x.clock = c[k].clock
        /\ x.pc = "free" /\ x.user = c[k].user /\ x.slots = c[k].slots
    BY <1>1 DEF CallState, Phases
  <2>2. c' = [c EXCEPT ![k] = x]
    BY <1>4
  <2> HIDE DEF x
  <2>3. Sane(k, x, now) /\ Complete(k, x)
    BY <1>1, <1>4, <2>1 DEF Sane, Complete, Trying, ChatOnly
  <2> QED  BY <1>2, <2>1, <2>2, <2>3, QuietStep
<1>5. CASE c' = [c EXCEPT ![k] = Over([@ EXCEPT !.leaked = TRUE], "end")]
  <2>1. [c[k] EXCEPT !.leaked = TRUE] \in CallState
    BY <1>1 DEF CallState
  <2> QED  BY <1>1, <1>2, <1>5, <2>1, OverFacts, QuietStep
<1>6. k \in Chats \/ c' = [c EXCEPT ![k] = Over([@ EXCEPT !.leaked = TRUE], "end")]
      \/ c' = [c EXCEPT ![k] = [@ EXCEPT !.log = "running", !.t = 1,
                                     !.pc = IF k \in Chats THEN "rate" ELSE "dial"]]
  BY DEF StartLog
<1>7. k \in Chats => \/ c' = [c EXCEPT ![k] = [@ EXCEPT !.pc = "free"]]
                     \/ c' = [c EXCEPT ![k] = [@ EXCEPT !.log = "running", !.t = 1,
                                     !.pc = IF k \in Chats THEN "rate" ELSE "dial"]]
  BY DEF StartLog
<1> QED  BY <1>3, <1>4, <1>5, <1>6, <1>7

LEMMA CloseInv == ASSUME IInv, NEW k \in Calls, Close(k) PROVE IInv'
<1> DEFINE x == [c[k] EXCEPT !.pc = "free", !.log = "failed"]
<1>1. /\ c[k].pc = "close" /\ c[k] \in CallState /\ Sane(k, c[k], now)
  BY CallFacts DEF Close
<1>2. /\ c' = [c EXCEPT ![k] = x] /\ lease' = lease /\ now' = now /\ Others'
  BY OthersUnchanged DEF Close, IInv, Others
<1>3. /\ x \in CallState /\ x.pc = "free" /\ x.t = c[k].t /\ x.clock = c[k].clock
      /\ x.user = c[k].user /\ x.slots = c[k].slots
  BY <1>1 DEF CallState, Phases
<1> HIDE DEF x
<1>4. Sane(k, x, now) /\ Complete(k, x)
  BY <1>1, <1>3 DEF Sane, Complete, Trying, ChatOnly
<1> QED  BY <1>2, <1>3, <1>4, QuietStep

LEMMA EndTransactionInv == ASSUME IInv, NEW k \in Calls, EndTransaction(k) PROVE IInv'
<1>1. c[k] \in CallState /\ now \in Nat /\ c[k].tokens \in Nat
  BY CallFacts DEF CallState
<1>2. /\ c' = [c EXCEPT ![k] = Over(c[k], "end")] /\ lease' = lease /\ now' = now
      /\ db' \subseteq db \cup {[call |-> k, tokens |-> c[k].tokens]}
      /\ UNCHANGED <<rate, ledger, dials, outages, crashes>>
  BY DEF EndTransaction
<1>3. Others'
  BY <1>1, <1>2 DEF IInv, Others, LogRow
<1> QED  BY <1>1, <1>2, <1>3, OverFacts, QuietStep

LEMMA CrashInv == ASSUME IInv, NEW k \in Calls, Crash(k) PROVE IInv'
<1>1. c[k] \in CallState /\ now \in Nat
  BY CallFacts
<1>2. /\ c' = [c EXCEPT ![k] = Over(c[k], "dead")] /\ lease' = lease /\ now' = now
      /\ UNCHANGED <<rate, ledger, db, dials, outages>> /\ crashes' = crashes + 1
  BY DEF Crash
<1>3. Others'
  BY <1>2 DEF IInv, Others
<1> QED  BY <1>1, <1>2, <1>3, OverFacts, QuietStep

LEMMA UnreserveInv == ASSUME IInv, NEW k \in Calls, Unreserve(k) PROVE IInv'
<1> DEFINE x == Noted(c[k])
           pc == IF c[k].log = "none" THEN "end" ELSE "open"
<1>1. c[k] \in CallState /\ now \in Nat /\ UserOf[k] \in Users
  BY CallFacts, ScopeFacts
<1>2. /\ c' = [c EXCEPT ![k] = Over(x, pc)] /\ lease' = lease /\ now' = now
      /\ UNCHANGED <<rate, db, dials, crashes>>
  <2>1. c \in [Calls -> CallState]
    BY DEF IInv, CallsInv
  <2>2. c' = [c EXCEPT ![k] = Over(x, pc)]
    BY <2>1 DEF Unreserve
  <2> QED  BY <2>2 DEF Unreserve
<1>3. x \in CallState /\ pc \in {"open", "end", "dead"}
  BY <1>1 DEF CallState, Noted
<1>4. ledger' \in [Users -> SUBSET Claim] /\ outages' \in Nat
  BY <1>1 DEF Unreserve, Unclaimed, Answered, Outage, IInv, Others
<1>5. Others'
  BY <1>2, <1>4 DEF IInv, Others
<1> HIDE DEF x, pc
<1> QED  BY <1>1, <1>2, <1>3, <1>5, OverFacts, QuietStep

\* The call that After describes, when its slots are given up or were never taken.
LEMMA NextTarget ==
    ASSUME IInv, NEW k \in Chats, c[k].pc \in Trying, NEW r \in CallState,
           r.user = c[k].user, r.slots = {}, r.t = c[k].t, r.clock = c[k].clock,
           r.degraded = c[k].degraded, NEW x \in After(k, r)
    PROVE  /\ Sane(k, x, now) /\ Complete(k, x)
           /\ x.user = c[k].user /\ x.slots = {}
<1>1. k \in Calls /\ k \notin Embeds
  BY CallsAssumption DEF Calls
<1>2. Sane(k, c[k], now) /\ Complete(k, c[k])
  BY <1>1, CallFacts
<1>3. /\ x \in CallState
      /\ x.user = c[k].user /\ x.slots = {} /\ x.clock = c[k].clock
      /\ x.degraded = c[k].degraded
      /\ \/ x.pc = "close"
         \/ x.pc = "rate" /\ x.t \in Targets
  BY <1>1, AfterFacts
<1>4. Sane(k, x, now)
  BY <1>1, <1>2, <1>3 DEF Sane, Trying, ChatOnly
<1>5. Complete(k, x)
  BY <1>1, <1>2, <1>3 DEF Complete, Trying
<1> QED  BY <1>3, <1>4, <1>5

LEMMA CheckRateInv == ASSUME IInv, NEW k \in Calls, CheckRate(k) PROVE IInv'
<1> DEFINE p == ProviderOf[c[k].t]
           S == SlotScopes(k, c[k].t)
<1>1. /\ c[k].pc = "rate" /\ c[k] \in CallState /\ now \in Nat /\ c[k].clock <= now
      /\ Sane(k, c[k], now) /\ Complete(k, c[k])
      /\ c[k].slots = {} /\ c[k].t \in Targets
      /\ p \in Providers /\ S \in SUBSET Scopes
      /\ k \in Chats <=> k \notin Embeds
  <2>1. c[k].pc = "rate" /\ c[k] \in CallState /\ Sane(k, c[k], now)
    BY CallFacts DEF CheckRate
  <2>2. c[k].slots = {} /\ c[k].t \in Targets
    BY <2>1 DEF Sane, Trying
  <2> QED  BY <2>1, <2>2, CallFacts, ScopeFacts
<1>2. Others' /\ lease' = lease /\ now' = now
  <2>1. rate \in [Providers -> SUBSET RateEntry]
    BY DEF IInv, Others
  <2>2. InWindow(p) \subseteq RateEntry
    BY <1>1, <2>1 DEF InWindow
  <2>3. [call |-> k, t |-> c[k].t, at |-> now] \in RateEntry
    BY <1>1 DEF RateEntry
  <2>4. Counted(k, p) \in [Providers -> SUBSET RateEntry]
        /\ [rate EXCEPT ![p] = InWindow(p)] \in [Providers -> SUBSET RateEntry]
    BY <2>1, <2>2, <2>3 DEF Counted
  <2>5. rate' \in [Providers -> SUBSET RateEntry] /\ outages' \in Nat
    BY <2>1, <2>4, CallFacts DEF CheckRate, Answered, Outage
  <2> QED  BY <2>5 DEF CheckRate, IInv, Others
<1> DEFINE Good(r) == /\ r \in CallState /\ r.user = c[k].user /\ r.slots = {}
                      /\ r.t = c[k].t /\ r.clock = c[k].clock
                      /\ r.degraded \/ r.degraded = c[k].degraded
<1>3. Good(c[k]) /\ Good([c[k] EXCEPT !.degraded = TRUE])
  BY <1>1 DEF CallState
<1>4. PICK x : /\ c' = [c EXCEPT ![k] = x]
               /\ \/ \E r : Good(r) /\ x = Acquiring(k, r, "slots", S)
                  \/ k \in Chats /\ x \in After(k, c[k])
                  \/ x = Over(c[k], "end")
  <2>1. \/ c' = [c EXCEPT ![k] = Acquiring(k, c[k], "slots", S)]
        \/ \E r \in IF k \in Chats THEN After(k, c[k]) ELSE {Over(c[k], "end")} :
              c' = [c EXCEPT ![k] = r]
        \/ c' = [c EXCEPT ![k] =
                    Acquiring(k, [c[k] EXCEPT !.degraded = TRUE], "slots", S)]
    BY DEF CheckRate
  <2> HIDE DEF Good, S
  <2>2. CASE c' = [c EXCEPT ![k] = Acquiring(k, c[k], "slots", S)]
    BY <2>2, <1>3
  <2>3. CASE c' = [c EXCEPT ![k] =
                    Acquiring(k, [c[k] EXCEPT !.degraded = TRUE], "slots", S)]
    BY <2>3, <1>3
  <2>4. CASE \E r \in IF k \in Chats THEN After(k, c[k]) ELSE {Over(c[k], "end")} :
              c' = [c EXCEPT ![k] = r]
    BY <2>4
  <2> QED  BY <2>1, <2>2, <2>3, <2>4
<1>5. CASE \E r : Good(r) /\ x = Acquiring(k, r, "slots", S)
  <2>1. PICK r : Good(r) /\ x = Acquiring(k, r, "slots", S)
    BY <1>5
  <2> HIDE DEF S
  <2>2. /\ x \in CallState
        /\ x.user = c[k].user /\ x.slots = {} /\ x.t = c[k].t
        /\ x.degraded \/ x.degraded = c[k].degraded
        /\ \/ /\ x.pc = "slots" /\ x.need = Limited(S) /\ x.need # {}
              /\ x.clock = now
           \/ /\ x.pc = Admitted(k, "slots") /\ Limited(S) = {}
              /\ x.clock = c[k].clock
    BY <1>1, <2>1, AcquiringFacts
  <2>3. Admitted(k, "slots") = IF k \in Embeds THEN "log" ELSE "dial"
    BY DEF Admitted
  <2>4. k \in Embeds => x.t = 1 \/ x.pc # "log"
    BY <1>1, <2>2, <2>3 DEF Sane
  <2>5. Sane(k, x, now)
    BY <1>1, <2>2, <2>3, <2>4 DEF Sane, Trying, ChatOnly
  <2>6. Complete(k, x)
    BY <1>1, <2>2, <2>3 DEF Complete, Trying, ScopesOf, S
  <2> QED  BY <1>2, <1>4, <2>2, <2>5, <2>6, QuietStep
<1>6. CASE k \in Chats /\ x \in After(k, c[k])
  <2>1. Sane(k, x, now) /\ Complete(k, x) /\ x.user = c[k].user /\ x.slots = {}
    BY <1>1, <1>6, NextTarget DEF Trying
  <2> QED  BY <1>2, <1>4, <2>1, QuietStep
<1>7. CASE x = Over(c[k], "end")
  BY <1>1, <1>2, <1>4, <1>7, OverFacts, QuietStep
<1> QED  BY <1>4, <1>5, <1>6, <1>7

\* A call whose request is over waits to release its slots; then is where it goes.
LEMMA Leaving ==
    ASSUME IInv, NEW k \in Calls, c[k].pc \in {"dial", "sent"},
           NEW x \in CallState, x.pc = "leave",
           x.then \in {"rate", "close", "free", "open"},
           x.then = "open" <=> k \in Embeds,
           x.then = "rate" => c[k].t < NTargets,
           x.t = c[k].t, x.clock = c[k].clock, x.degraded = c[k].degraded,
           x.user = c[k].user, x.slots = c[k].slots
    PROVE  Sane(k, x, now) /\ Complete(k, x)
<1>1. Sane(k, c[k], now) /\ Complete(k, c[k])
  BY CallFacts
<1>2. Sane(k, x, now)
  BY <1>1 DEF Sane, Trying, ChatOnly
<1>3. Complete(k, x)
  BY <1>1 DEF Complete, Trying
<1> QED  BY <1>2, <1>3

LEMMA RequestedFacts ==
    ASSUME IInv, NEW k \in Calls, c[k].t \in Targets, NEW stream \in BOOLEAN
    PROVE  Requested(k, stream) \subseteq Dial
<1>1. c[k] \in CallState /\ now \in Nat /\ dials \subseteq Dial
  BY CallFacts DEF IInv, Others
<1>2. [call |-> k, t |-> c[k].t, try |-> c[k].try, stream |-> stream, at |-> now] \in Dial
  BY <1>1 DEF Dial, CallState
<1> QED  BY <1>1, <1>2 DEF Requested

LEMMA SendInv == ASSUME IInv, NEW k \in Calls, Send(k) PROVE IInv'
<1> DEFINE streams == k \in Streams
<1>0. streams \in BOOLEAN
  OBVIOUS
<1>1. /\ c[k].pc = "dial" /\ c[k] \in CallState /\ now \in Nat
      /\ Sane(k, c[k], now) /\ Complete(k, c[k]) /\ c[k].t \in Targets
  BY CallFacts DEF Send, Sane, Trying
<1>2. Others' /\ lease' = lease /\ now' = now
  <2>1. dials' = dials \/ dials' = Requested(k, streams)
    BY DEF Send
  <2> HIDE DEF streams
  <2>2. Requested(k, streams) \subseteq Dial
    BY <1>0, <1>1, RequestedFacts
  <2> QED  BY <2>1, <2>2 DEF Send, IInv, Others
<1>3. CASE c' = [c EXCEPT ![k] = [@ EXCEPT !.pc = "sent", !.clock = now,
                                             !.stream = k \in Streams]]
  <2> DEFINE x == [c[k] EXCEPT !.pc = "sent", !.clock = now, !.stream = streams]
  <2> HIDE DEF streams
  <2>1. /\ x \in CallState /\ x.pc = "sent" /\ x.t = c[k].t /\ x.clock = now
        /\ x.user = c[k].user /\ x.slots = c[k].slots /\ x.degraded = c[k].degraded
    BY <1>0, <1>1 DEF CallState, Phases
  <2>2. c' = [c EXCEPT ![k] = x]
    BY <1>3 DEF streams
  <2> HIDE DEF x
  <2>3. Sane(k, x, now)
    BY <1>1, <2>1 DEF Sane, Trying, ChatOnly
  <2>4. Complete(k, x)
    BY <1>1, <2>1 DEF Complete, Trying
  <2> QED  BY <1>2, <2>1, <2>2, <2>3, <2>4, QuietStep
<1>4. CASE k \in Chats /\ \E r \in After(k, c[k]) \cup {[c[k] EXCEPT !.pc = "free"]} :
                c' = [c EXCEPT ![k] = [@ EXCEPT !.pc = "leave", !.then = r.pc]]
  <2>1. PICK r \in After(k, c[k]) \cup {[c[k] EXCEPT !.pc = "free"]} :
                c' = [c EXCEPT ![k] = [@ EXCEPT !.pc = "leave", !.then = r.pc]]
    BY <1>4
  <2>2. r.pc \in {"rate", "close", "free"} /\ (r.pc = "rate" => c[k].t < NTargets)
    <3>1. CASE r \in After(k, c[k])
      BY <1>1, <3>1, AfterFacts
    <3>2. CASE r = [c[k] EXCEPT !.pc = "free"]
      BY <1>1, <3>2 DEF CallState
    <3> QED  BY <3>1, <3>2, <2>1
  <2> DEFINE x == [c[k] EXCEPT !.pc = "leave", !.then = r.pc]
  <2>3. /\ x \in CallState /\ x.pc = "leave" /\ x.then = r.pc
        /\ x.t = c[k].t /\ x.clock = c[k].clock
        /\ x.user = c[k].user /\ x.slots = c[k].slots /\ x.degraded = c[k].degraded
    BY <1>1, <2>2 DEF CallState, Phases
  <2>4. c' = [c EXCEPT ![k] = x]
    BY <2>1
  <2> HIDE DEF x
  <2>5. Sane(k, x, now) /\ Complete(k, x)
    BY <1>1, <1>4, <2>2, <2>3, ScopeFacts, Leaving
  <2> QED  BY <1>2, <2>3, <2>4, <2>5, QuietStep
<1>5. \/ c' = [c EXCEPT ![k] = [@ EXCEPT !.pc = "sent", !.clock = now,
                                             !.stream = k \in Streams]]
      \/ k \in Chats /\ \E r \in After(k, c[k]) \cup {[c[k] EXCEPT !.pc = "free"]} :
                c' = [c EXCEPT ![k] = [@ EXCEPT !.pc = "leave", !.then = r.pc]]
  BY DEF Send
<1> QED  BY <1>3, <1>4, <1>5

LEMMA FallbackInv == ASSUME IInv, NEW k \in Calls, Fallback(k) PROVE IInv'
<1> DEFINE x == [c[k] EXCEPT !.clock = now, !.stream = FALSE]
<1>1. /\ c[k].pc = "sent" /\ c[k] \in CallState /\ now \in Nat
      /\ Sane(k, c[k], now) /\ Complete(k, c[k]) /\ c[k].t \in Targets
  BY CallFacts DEF Fallback, Sane, Trying
<1>2. c' = [c EXCEPT ![k] = x] /\ Others' /\ lease' = lease /\ now' = now
  BY <1>1, RequestedFacts DEF Fallback, IInv, Others
<1>3. /\ x \in CallState /\ x.pc = "sent" /\ x.t = c[k].t /\ x.clock = now
      /\ x.user = c[k].user /\ x.slots = c[k].slots /\ x.degraded = c[k].degraded
  BY <1>1 DEF CallState
<1> HIDE DEF x
<1>4. Sane(k, x, now)
  BY <1>1, <1>3 DEF Sane, Trying, ChatOnly
<1>5. Complete(k, x)
  BY <1>1, <1>3 DEF Complete, Trying
<1> QED  BY <1>2, <1>3, <1>4, <1>5, QuietStep

LEMMA AnswerInv == ASSUME IInv, NEW k \in Calls, Answer(k) PROVE IInv'
<1>1. c[k].pc = "sent" /\ c[k] \in CallState
  BY CallFacts DEF Answer
<1>2. Others' /\ lease' = lease /\ now' = now
  BY OthersUnchanged DEF Answer, IInv, Others
<1>3. PICK n \in Answers, r \in After(k, c[k]) \cup {[c[k] EXCEPT !.pc = "free"]} :
          c' = [c EXCEPT ![k] =
                [@ EXCEPT !.pc = "leave", !.log = "success", !.tokens = n,
                          !.then = IF k \in Embeds THEN "open" ELSE r.pc]]
  BY DEF Answer
<1> DEFINE then == IF k \in Embeds THEN "open" ELSE r.pc
           x == [c[k] EXCEPT !.pc = "leave", !.log = "success", !.tokens = n,
                             !.then = then]
<1>4. r.pc \in {"rate", "close", "free"} /\ (r.pc = "rate" => c[k].t < NTargets)
  <2>1. CASE r \in After(k, c[k])
    BY <1>1, <2>1, AfterFacts
  <2>2. CASE r = [c[k] EXCEPT !.pc = "free"]
    BY <1>1, <2>2 DEF CallState
  <2> QED  BY <1>3, <2>1, <2>2
<1>5. n \in Nat
  BY CallsAssumption
<1>6. /\ then \in {"rate", "close", "free", "open"} /\ (then = "rate" => c[k].t < NTargets)
      /\ then = "open" <=> k \in Embeds
  BY <1>4
<1> HIDE DEF then
<1>7. /\ x \in CallState /\ x.pc = "leave" /\ x.then = then
      /\ x.t = c[k].t /\ x.clock = c[k].clock
      /\ x.user = c[k].user /\ x.slots = c[k].slots /\ x.degraded = c[k].degraded
  BY <1>1, <1>5, <1>6 DEF CallState, Phases
<1>8. c' = [c EXCEPT ![k] = x]
  BY <1>3 DEF then
<1> HIDE DEF x
<1>9. Sane(k, x, now) /\ Complete(k, x)
  BY <1>1, <1>6, <1>7, Leaving
<1> QED  BY <1>2, <1>7, <1>8, <1>9, QuietStep

LEMMA RetryInv == ASSUME IInv, NEW k \in Calls, Retry(k) PROVE IInv'
<1> DEFINE x == [c[k] EXCEPT !.pc = "dial", !.clock = 0, !.try = NextTry(k)]
<1>1. /\ c[k].pc = "sent" /\ c[k] \in CallState /\ now \in Nat
      /\ Sane(k, c[k], now) /\ Complete(k, c[k])
  BY CallFacts DEF Retry
<1>2. c' = [c EXCEPT ![k] = x] /\ Others' /\ lease' = lease /\ now' = now
  BY OthersUnchanged DEF Retry, IInv, Others
<1>3. /\ x \in CallState /\ x.pc = "dial" /\ x.t = c[k].t /\ x.clock = 0
      /\ x.user = c[k].user /\ x.slots = c[k].slots /\ x.degraded = c[k].degraded
  <2>1. NextTry(k) \in Nat
    BY <1>1 DEF CallState, NextTry
  <2> QED  BY <1>1, <2>1 DEF CallState, Phases
<1> HIDE DEF x
<1>4. Sane(k, x, now)
  BY <1>1, <1>3 DEF Sane, Trying, ChatOnly
<1>5. Complete(k, x)
  BY <1>1, <1>3 DEF Complete, Trying
<1> QED  BY <1>2, <1>3, <1>4, <1>5, QuietStep

LEMMA FailInv == ASSUME IInv, NEW k \in Calls, Fail(k) PROVE IInv'
<1>1. c[k].pc = "sent" /\ c[k] \in CallState
  BY CallFacts DEF Fail
<1>2. Others' /\ lease' = lease /\ now' = now
  BY OthersUnchanged DEF Fail, IInv, Others
<1>3. PICK r \in After(k, c[k]) : c' = [c EXCEPT ![k] =
          IF k \in Chats THEN [@ EXCEPT !.pc = "leave", !.then = r.pc]
          ELSE [@ EXCEPT !.pc = "leave", !.log = "failed", !.then = "open"]]
  BY DEF Fail
<1> DEFINE x == IF k \in Chats THEN [c[k] EXCEPT !.pc = "leave", !.then = r.pc]
                ELSE [c[k] EXCEPT !.pc = "leave", !.log = "failed", !.then = "open"]
<1>4. r.pc \in {"rate", "close"} /\ (r.pc = "rate" => c[k].t < NTargets)
  BY <1>1, AfterFacts
<1>5. /\ x \in CallState /\ x.pc = "leave"
      /\ x.then \in {"rate", "close", "open"} /\ (x.then = "rate" => c[k].t < NTargets)
      /\ x.then = "open" <=> k \in Embeds
      /\ x.t = c[k].t /\ x.clock = c[k].clock
      /\ x.user = c[k].user /\ x.slots = c[k].slots /\ x.degraded = c[k].degraded
  <2>1. CASE k \in Chats
    BY <1>1, <1>4, <2>1, ScopeFacts DEF CallState, Phases
  <2>2. CASE k \notin Chats
    BY <1>1, <2>2, ScopeFacts DEF CallState, Phases
  <2> QED  BY <2>1, <2>2
<1>6. c' = [c EXCEPT ![k] = x]
  BY <1>3
<1> HIDE DEF x
<1>7. Sane(k, x, now) /\ Complete(k, x)
  BY <1>1, <1>5, Leaving
<1> QED  BY <1>2, <1>5, <1>6, <1>7, QuietStep

\* A step of k that releases leases, after a script that reaped some entries.
LEMMA ReleaseStep ==
    ASSUME IInv, Others', NEW k \in Calls, NEW r,
           c' = [c EXCEPT ![k] = r], now' = now,
           NEW l, GoodLeases(l, now),
           \A s \in Scopes : \A x \in lease[s] : x.exp > now => x \in l[s],
           NEW t, NEW held, Release(l, k, t, held),
           Sane(k, r, now), Complete(k, r),
           r.user \subseteq c[k].user, r.slots = {},
           r.user = {} \/ t # 0 \/ held = {}
    PROVE  IInv'
<1>1. now \in Nat /\ outages \in Nat /\ c[k] \in CallState /\ Backed(lease, k, c[k], now)
  BY CallFacts
<1>2. /\ GoodLeases(lease', now)
      /\ \A s \in Scopes : \A x \in l[s] : ~(x.call = k /\ x.t = t) => x \in lease'[s]
      /\ held = {} => lease' = Without(l, k, t, {})
  BY <1>1, ReleaseFacts
<1>3. KeepsOthers(lease, lease', k, now)
  BY <1>2 DEF KeepsOthers
<1>4. held = {} => \A s \in Scopes : lease'[s] = l[s]
  BY <1>2 DEF Without
<1>5. ASSUME NEW h \in r.user, h.exp > now
      PROVE  [call |-> k, t |-> 0, exp |-> h.exp] \in lease'[h.scope]
  <2>1. h \in c[k].user /\ h.scope \in Scopes
    BY <1>1 DEF CallState, Held
  <2>2. [call |-> k, t |-> 0, exp |-> h.exp] \in l[h.scope]
    BY <1>1, <1>5, <2>1 DEF Backed
  <2> QED  BY <1>2, <1>4, <2>1, <2>2
<1>6. Backed(lease', k, r, now)
  BY <1>5 DEF Backed
<1> QED  BY <1>2, <1>3, <1>6, CallStep

LEMMA LeaveInv == ASSUME IInv, NEW k \in Calls, Leave(k) PROVE IInv'
<1>1. /\ c[k].pc = "leave" /\ c[k] \in CallState /\ now \in Nat /\ outages \in Nat
      /\ Sane(k, c[k], now) /\ Complete(k, c[k]) /\ c[k].t \in Targets
      /\ GoodLeases(lease, now)
      /\ k \in Chats <=> k \notin Embeds
  BY CallFacts, ScopeFacts DEF Leave, Sane, Trying
<1>2. Release(lease, k, c[k].t, c[k].slots) /\ now' = now /\ c[k].t # 0
  BY <1>1 DEF Leave, Targets
<1>3. Others'
  BY <1>1, <1>2, ReleaseFacts, OthersUnchanged DEF Leave
<1> DEFINE r == Noted([c[k] EXCEPT !.pc = c[k].then, !.then = "idle",
                                   !.slots = {}, !.clock = 0])
           x == CASE k \in Embeds -> Over(r, "open")
                  [] k \in Chats /\ r.pc = "rate" ->
                        [r EXCEPT !.t = r.t + 1, !.try = 0]
                  [] OTHER -> r
<1>4. c' = [c EXCEPT ![k] = x]
  BY DEF Leave
<1>5. /\ r \in CallState /\ r.pc = c[k].then /\ r.t = c[k].t /\ r.clock = 0
      /\ r.slots = {} /\ r.user = c[k].user
      /\ r.degraded \/ r.degraded = c[k].degraded
  BY <1>1 DEF CallState, Phases, Noted
<1> HIDE DEF r
<1>6. CASE k \in Embeds
  <2>1. x = Over(r, "open")
    BY <1>1, <1>6
  <2> HIDE DEF x
  <2> QED  BY <1>1, <1>2, <1>3, <1>4, <1>5, <2>1, OverFacts, ReleaseStep
<1>7. CASE k \in Chats /\ r.pc = "rate"
  <2>1. x = [r EXCEPT !.t = r.t + 1, !.try = 0]
    BY <1>1, <1>7
  <2>2. NTargets \in Nat /\ c[k].t < NTargets
    BY <1>1, <1>5, <1>7, CallsAssumption DEF Sane
  <2>3. r.t + 1 \in 0 .. NTargets /\ r.t + 1 \in Targets
    BY <1>1, <1>5, <2>2 DEF Targets
  <2> HIDE DEF x
  <2>4. /\ x \in CallState /\ x.pc = "rate" /\ x.t \in Targets /\ x.clock = 0
        /\ x.slots = {} /\ x.user = c[k].user
        /\ x.degraded = r.degraded
    BY <1>5, <1>7, <2>1, <2>3 DEF CallState
  <2>5. Sane(k, x, now)
    BY <1>1, <1>7, <2>4 DEF Sane, Trying, ChatOnly
  <2>6. Complete(k, x)
    BY <1>1, <1>5, <1>7, <2>4 DEF Complete, Trying
  <2> QED  BY <1>1, <1>2, <1>3, <1>4, <2>4, <2>5, <2>6, ReleaseStep
<1>8. CASE k \in Chats /\ r.pc # "rate"
  <2>1. x = r
    BY <1>1, <1>8
  <2>2. r.pc \in {"close", "free"}
    BY <1>1, <1>5, <1>8 DEF Sane
  <2> HIDE DEF x
  <2>4. Sane(k, r, now)
    BY <1>1, <1>5, <1>8, <2>2 DEF Sane, Trying, ChatOnly
  <2>5. Complete(k, r)
    BY <1>1, <1>5, <1>8, <2>2 DEF Complete, Trying
  <2> QED  BY <1>1, <1>2, <1>3, <1>4, <1>5, <2>1, <2>4, <2>5, ReleaseStep
<1> QED  BY <1>1, <1>6, <1>7, <1>8

LEMMA FreeInv == ASSUME IInv, NEW k \in Calls, Free(k) PROVE IInv'
<1>1. /\ c[k].pc = "free" /\ c[k] \in CallState /\ now \in Nat /\ outages \in Nat
      /\ Sane(k, c[k], now) /\ GoodLeases(lease, now) /\ c[k].slots = {}
  <2>1. c[k].pc = "free" /\ Sane(k, c[k], now)
    BY CallFacts DEF Free
  <2>2. c[k].slots = {}
    BY <2>1 DEF Sane, Trying
  <2> QED  BY <2>1, <2>2, CallFacts
<1>2. Release(lease, k, 0, c[k].user) /\ now' = now
  BY DEF Free
<1>3. Others'
  BY <1>1, <1>2, ReleaseFacts, OthersUnchanged DEF Free
<1> DEFINE x == Noted([c[k] EXCEPT !.pc = "unreserve", !.user = {}])
<1>4. c' = [c EXCEPT ![k] = x]
  BY DEF Free
<1>5. /\ x \in CallState /\ x.pc = "unreserve" /\ x.t = c[k].t /\ x.clock = c[k].clock
      /\ x.slots = {} /\ x.user = {}
  BY <1>1 DEF CallState, Phases, Noted
<1> HIDE DEF x
<1>6. Sane(k, x, now) /\ Complete(k, x)
  BY <1>1, <1>5 DEF Sane, Complete, Trying, ChatOnly
<1> QED  BY <1>1, <1>2, <1>3, <1>4, <1>5, <1>6, ReleaseStep

\* A call that got a lease, or does without it in an outage, goes on.
LEMMA OnwardFacts ==
    ASSUME NEW k \in Calls, NEW r \in CallState, r.pc \in {"user", "slots"},
           NEW left \in SUBSET Scopes
    PROVE  LET x == Onward(k, r, left)
           IN  /\ x \in CallState
               /\ x.user = r.user /\ x.slots = r.slots /\ x.t = r.t
               /\ x.clock = r.clock /\ x.degraded = r.degraded /\ x.need = left
               /\ \/ x.pc = r.pc /\ left # {}
                  \/ /\ left = {}
                     /\ x.pc = IF r.pc = "user" \/ k \in Embeds THEN "log" ELSE "dial"
<1> DEFINE pc == IF left = {} THEN Admitted(k, r.pc) ELSE r.pc
<1>1. pc \in Phases /\ (left # {} => pc = r.pc)
      /\ (left = {} => pc = IF r.pc = "user" \/ k \in Embeds THEN "log" ELSE "dial")
  BY DEF Admitted, Phases
<1>2. Onward(k, r, left) = [r EXCEPT !.need = left, !.pc = pc]
  BY DEF Onward
<1> HIDE DEF pc
<1> QED  BY <1>1, <1>2 DEF CallState

LEMMA OnwardSane ==
    ASSUME NEW k \in Calls, NEW r \in CallState, r.pc \in {"user", "slots"},
           NEW left \in SUBSET Scopes, Sane(k, c[k], now),
           c[k].pc = r.pc, r.t = c[k].t, r.clock = c[k].clock,
           k \in Embeds => r.user = {},
           r.pc = "user" => r.slots = {}
    PROVE  Sane(k, Onward(k, r, left), now)
<1> DEFINE x == Onward(k, r, left)
<1>1. /\ x \in CallState
      /\ x.user = r.user /\ x.slots = r.slots /\ x.t = r.t
      /\ x.clock = r.clock /\ x.need = left
      /\ \/ x.pc = r.pc /\ left # {}
         \/ /\ left = {}
            /\ x.pc = IF r.pc = "user" \/ k \in Embeds THEN "log" ELSE "dial"
  BY OnwardFacts
<1>2. k \in Chats <=> k \notin Embeds
  BY ScopeFacts
<1> SUFFICES Sane(k, x, now)
  OBVIOUS
<1> HIDE DEF x
<1>3. CASE r.pc = "user"
  BY <1>1, <1>2, <1>3 DEF Sane, Trying, ChatOnly
<1>4. CASE r.pc = "slots"
  BY <1>1, <1>2, <1>4 DEF Sane, Trying, ChatOnly
<1> QED  BY <1>3, <1>4

LEMMA AcquireLease ==
    ASSUME IInv, NEW k \in Calls, Acquire(k), Others', HasRoom(First(c[k].need), c[k].clock),
           lease' = Taken(k, First(c[k].need), c[k].clock),
           c' = [c EXCEPT ![k] = HaveLease(k, c[k], First(c[k].need))]
    PROVE  IInv'
<1> DEFINE s == First(c[k].need)
           at == c[k].clock
           e == [call |-> k, t |-> c[k].t, exp |-> at + TTL]
           h == [scope |-> s, exp |-> at + TTL]
           left == c[k].need \ {s}
<1>1. /\ c[k].pc \in {"user", "slots"} /\ c[k] \in CallState /\ now \in Nat
      /\ Sane(k, c[k], now) /\ Complete(k, c[k]) /\ Backed(lease, k, c[k], now)
      /\ now' = now
      /\ at \in Nat /\ at <= now
  BY CallFacts DEF Acquire, CallState
<1>2. /\ c[k].need \in SUBSET Scopes /\ c[k].need # {}
      /\ k \in Chats <=> k \notin Embeds
  BY <1>1, ScopeFacts DEF Sane, CallState
<1>3. s \in c[k].need /\ s \in Scopes /\ left \in SUBSET Scopes
  BY <1>2, FirstIn
<1>4. /\ GoodLeases(lease', now)
      /\ \A r \in Scopes : \A x \in lease[r] : x.exp > now => x \in lease'[r]
      /\ e \in lease'[s]
  BY <1>1, <1>3, TakenFacts
<1>5. KeepsOthers(lease, lease', k, now)
  BY <1>4 DEF KeepsOthers
<1>6. h \in Held
  BY <1>1, <1>3, LimitsAssumption DEF Held
<1>7. /\ \A g \in c[k].user : g.exp > now =>
            [call |-> k, t |-> 0, exp |-> g.exp] \in lease'[g.scope]
      /\ \A g \in c[k].slots : g.exp > now =>
            [call |-> k, t |-> c[k].t, exp |-> g.exp] \in lease'[g.scope]
  <2>1. \A g \in c[k].user \cup c[k].slots : g.scope \in Scopes
    BY <1>1 DEF CallState, Held
  <2> QED  BY <1>1, <1>4, <2>1 DEF Backed
<1>8. h.scope = s /\ h.exp = at + TTL /\ ScopesOf({h}) = {s}
      /\ \A S : ScopesOf(S \cup {h}) = ScopesOf(S) \cup {s}
  BY DEF ScopesOf
<1>9. [call |-> k, t |-> c[k].t, exp |-> h.exp] \in lease'[h.scope]
  BY <1>4, <1>8
<1>10. left \cup {s} = c[k].need /\ (left = {} => c[k].need = {s})
  BY <1>3
<1>11. CASE c[k].pc = "user"
  <2> DEFINE r == [c[k] EXCEPT !.user = c[k].user \cup {h}]
             x == Onward(k, r, left)
  <2>1. c' = [c EXCEPT ![k] = x]
    BY <1>11 DEF HaveLease
  <2>2. /\ r \in CallState /\ r.pc = "user" /\ r.t = c[k].t /\ r.clock = c[k].clock
        /\ r.user = c[k].user \cup {h} /\ r.slots = c[k].slots
        /\ r.degraded = c[k].degraded
    BY <1>1, <1>6, <1>11 DEF CallState
  <2>3. k \notin Embeds /\ c[k].t = 0 /\ c[k].slots = {}
    BY <1>1, <1>11 DEF Sane, ChatOnly, Trying
  <2> HIDE DEF r, h, left, s, at
  <2>4. /\ x.user = r.user /\ x.slots = r.slots /\ x.t = r.t
        /\ x.degraded = r.degraded /\ x.need = left
        /\ \/ x.pc = "user" /\ left # {}
           \/ x.pc = "log" /\ left = {}
    BY <2>2, <1>3, OnwardFacts
  <2>5. Sane(k, x, now)
    BY <1>1, <1>3, <1>11, <2>2, <2>3, OnwardSane
  <2> HIDE DEF x
  <2>6. Complete(k, x)
    BY <1>1, <1>2, <1>8, <1>10, <1>11, <2>2, <2>3, <2>4 DEF Complete, Trying
  <2>7. Backed(lease', k, x, now)
    BY <1>7, <1>9, <2>2, <2>3, <2>4 DEF Backed
  <2> QED  BY <1>1, <1>4, <1>5, <2>1, <2>5, <2>6, <2>7, CallStep
<1>12. CASE c[k].pc = "slots"
  <2> DEFINE r == [c[k] EXCEPT !.slots = c[k].slots \cup {h}]
             x == Onward(k, r, left)
  <2>1. c' = [c EXCEPT ![k] = x]
    BY <1>12 DEF HaveLease
  <2>2. /\ r \in CallState /\ r.pc = "slots" /\ r.t = c[k].t /\ r.clock = c[k].clock
        /\ r.user = c[k].user /\ r.slots = c[k].slots \cup {h}
        /\ r.degraded = c[k].degraded
    BY <1>1, <1>6, <1>12 DEF CallState
  <2>3. k \in Embeds => c[k].user = {}
    BY <1>1 DEF Sane
  <2> HIDE DEF r, h, left, s, at
  <2>4. /\ x.user = r.user /\ x.slots = r.slots /\ x.t = r.t
        /\ x.degraded = r.degraded /\ x.need = left
        /\ \/ x.pc = "slots" /\ left # {}
           \/ x.pc = (IF k \in Embeds THEN "log" ELSE "dial") /\ left = {}
    BY <2>2, <1>3, OnwardFacts
  <2>5. Sane(k, x, now)
    BY <1>1, <1>3, <1>12, <2>2, <2>3, OnwardSane
  <2> HIDE DEF x
  <2>6. Complete(k, x)
    <3> SUFFICES ASSUME ~c[k].degraded PROVE Complete(k, x)
      BY <2>2, <2>4 DEF Complete
    <3>1. ScopesOf(c[k].slots) \cup c[k].need = Limited(SlotScopes(k, c[k].t))
          /\ (k \in Chats => ScopesOf(c[k].user) = Limited(UserScopes(k)))
      BY <1>1, <1>12 DEF Complete, Trying
    <3>2. ScopesOf(x.slots) = ScopesOf(c[k].slots) \cup {s}
      BY <1>8, <2>2, <2>4
    <3>3. ScopesOf(x.slots) \cup left = Limited(SlotScopes(k, x.t))
      BY <1>10, <2>2, <2>4, <3>1, <3>2
    <3> QED  BY <1>2, <2>2, <2>4, <3>1, <3>3 DEF Complete, Trying
  <2>7. Backed(lease', k, x, now)
    BY <1>7, <1>9, <2>2, <2>3, <2>4 DEF Backed
  <2> QED  BY <1>1, <1>4, <1>5, <2>1, <2>5, <2>6, <2>7, CallStep
<1> QED  BY <1>1, <1>11, <1>12

LEMMA AcquireRefused ==
    ASSUME IInv, NEW k \in Calls, Acquire(k), Others',
           Release(Reap(First(c[k].need), c[k].clock), k, c[k].t, c[k].slots),
           NEW r \in Refused(k), c' = [c EXCEPT ![k] = Noted(r)]
    PROVE  IInv'
<1> DEFINE s == First(c[k].need)
           at == c[k].clock
           x == Noted(r)
<1>1. /\ c[k].pc \in {"user", "slots"} /\ c[k] \in CallState /\ now \in Nat
      /\ Sane(k, c[k], now) /\ Complete(k, c[k]) /\ now' = now
      /\ at \in Nat /\ at <= now
      /\ k \in Chats <=> k \notin Embeds
  BY CallFacts, ScopeFacts DEF Acquire, CallState
<1>2. c[k].need \in SUBSET Scopes /\ c[k].need # {}
  BY <1>1 DEF Sane, CallState
<1>3. s \in Scopes
  BY <1>2, FirstIn
<1>4. /\ GoodLeases(Reap(s, at), now)
      /\ \A q \in Scopes : \A e \in lease[q] : e.exp > now => e \in Reap(s, at)[q]
  BY <1>1, <1>3, ReapFacts
<1>5. Release(Reap(s, at), k, c[k].t, c[k].slots)
  OBVIOUS
<1>6. r \in CallState => /\ x \in CallState /\ x.pc = r.pc /\ x.t = r.t /\ x.clock = r.clock
                         /\ x.user = r.user /\ x.slots = r.slots /\ x.then = r.then
                         /\ x.degraded \/ x.degraded = r.degraded
  BY DEF Noted, CallState
<1>7. c' = [c EXCEPT ![k] = x]
  OBVIOUS
<1> SUFFICES /\ Sane(k, x, now) /\ Complete(k, x)
             /\ x.user \subseteq c[k].user /\ x.slots = {}
             /\ x.user = {} \/ c[k].t # 0 \/ c[k].slots = {}
  <2> HIDE DEF x, s, at
  <2> QED  BY <1>1, <1>4, <1>5, <1>7, ReleaseStep
<1> HIDE DEF x
<1>8. CASE c[k].pc = "user"
  <2>1. r = [c[k] EXCEPT !.pc = "unreserve", !.need = {}]
    BY <1>8 DEF Refused
  <2>2. /\ r \in CallState /\ r.pc = "unreserve" /\ r.t = c[k].t /\ r.clock = c[k].clock
        /\ r.user = c[k].user /\ r.slots = c[k].slots
    BY <1>1, <2>1 DEF CallState, Phases
  <2>3. c[k].slots = {} /\ k \notin Embeds
    BY <1>1, <1>8 DEF Sane, Trying, ChatOnly
  <2>4. Sane(k, x, now) /\ Complete(k, x)
    BY <1>1, <1>6, <2>2, <2>3 DEF Sane, Complete, Trying, ChatOnly
  <2> QED  BY <1>6, <2>2, <2>3, <2>4
<1>9. CASE c[k].pc = "slots" /\ k \in Chats
  <2> DEFINE q == [c[k] EXCEPT !.need = {}, !.slots = {}]
  <2>1. r \in After(k, q)
    BY <1>9 DEF Refused
  <2>2. /\ q \in CallState /\ q.user = c[k].user /\ q.slots = {} /\ q.t = c[k].t
        /\ q.clock = c[k].clock /\ q.degraded = c[k].degraded
    BY <1>1 DEF CallState
  <2> HIDE DEF q
  <2>3. r \in CallState /\ Sane(k, r, now) /\ Complete(k, r)
        /\ r.user = c[k].user /\ r.slots = {}
    BY <1>1, <1>9, <2>1, <2>2, NextTarget, AfterFacts DEF Trying
  <2>4. r.pc \in {"close", "rate"} /\ c[k].t # 0
    <3>1. c[k].t \in Targets
      BY <1>1, <1>9 DEF Sane, Trying
    <3> QED  BY <3>1, <2>1, <2>2, AfterFacts DEF Targets
  <2>5. Sane(k, x, now) /\ Complete(k, x)
    BY <1>1, <1>6, <1>9, <2>3, <2>4 DEF Sane, Complete, Trying, ChatOnly
  <2> QED  BY <1>6, <2>3, <2>4, <2>5
<1>10. CASE c[k].pc = "slots" /\ k \in Embeds
  <2>1. r = Over(c[k], "end")
    BY <1>1, <1>10 DEF Refused
  <2>2. Sane(k, r, now) /\ Complete(k, r) /\ r.user = {} /\ r.slots = {}
    BY <1>1, <2>1, OverFacts
  <2>3. r \in CallState /\ r.pc = "end"
    BY <2>1, <2>2 DEF Sane, Over, NewCall
  <2>4. Sane(k, x, now) /\ Complete(k, x)
    BY <1>6, <2>2, <2>3 DEF Sane, Complete, Trying, ChatOnly
  <2> QED  BY <1>6, <2>2, <2>3, <2>4
<1> QED  BY <1>1, <1>8, <1>9, <1>10

LEMMA AcquireOutage ==
    ASSUME IInv, NEW k \in Calls, Acquire(k), Others',
           \/ lease' = lease
           \/ /\ HasRoom(First(c[k].need), c[k].clock)
              /\ lease' = Taken(k, First(c[k].need), c[k].clock),
           c' = [c EXCEPT ![k] = SkipLease(k, c[k], First(c[k].need))]
    PROVE  IInv'
<1> DEFINE s == First(c[k].need)
           r == [c[k] EXCEPT !.degraded = TRUE]
           left == c[k].need \ {s}
           x == Onward(k, r, left)
<1>1. /\ c[k].pc \in {"user", "slots"} /\ c[k] \in CallState /\ now \in Nat
      /\ Sane(k, c[k], now) /\ Complete(k, c[k]) /\ Backed(lease, k, c[k], now)
      /\ now' = now /\ GoodLeases(lease, now)
      /\ c[k].clock \in Nat /\ c[k].clock <= now
  BY CallFacts DEF Acquire, CallState
<1>2. /\ c[k].need \in SUBSET Scopes /\ c[k].need # {}
  BY <1>1 DEF Sane, CallState
<1>3. s \in Scopes /\ left \in SUBSET Scopes
  BY <1>2, FirstIn
<1>4. /\ GoodLeases(lease', now)
      /\ \A q \in Scopes : \A e \in lease[q] : e.exp > now => e \in lease'[q]
  BY <1>1, <1>3, TakenFacts
<1>5. KeepsOthers(lease, lease', k, now)
  BY <1>4 DEF KeepsOthers
<1>6. c' = [c EXCEPT ![k] = x]
  BY DEF SkipLease
<1>7. /\ r \in CallState /\ r.pc = c[k].pc /\ r.t = c[k].t /\ r.clock = c[k].clock
      /\ r.user = c[k].user /\ r.slots = c[k].slots /\ r.degraded = TRUE
  BY <1>1 DEF CallState
<1>8. (k \in Embeds => r.user = {}) /\ (r.pc = "user" => r.slots = {})
  BY <1>1, <1>7 DEF Sane, Trying
<1> HIDE DEF r, left, s
<1>9. Sane(k, x, now)
  BY <1>1, <1>3, <1>7, <1>8, OnwardSane
<1>10. x.user = c[k].user /\ x.slots = c[k].slots /\ x.t = c[k].t /\ x.degraded = TRUE
  BY <1>1, <1>3, <1>7, OnwardFacts
<1> HIDE DEF x
<1>11. Complete(k, x)
  BY <1>10 DEF Complete
<1>12. Backed(lease', k, x, now)
  <2>1. \A g \in c[k].user \cup c[k].slots : g.scope \in Scopes
    BY <1>1 DEF CallState, Held
  <2> QED  BY <1>1, <1>4, <1>10, <2>1 DEF Backed
<1> QED  BY <1>1, <1>4, <1>5, <1>6, <1>9, <1>11, <1>12, CallStep

LEMMA AcquireInv == ASSUME IInv, NEW k \in Calls, Acquire(k) PROVE IInv'
<1> DEFINE s == First(c[k].need)
           at == c[k].clock
<1>1. /\ now \in Nat /\ outages \in Nat /\ c[k] \in CallState
      /\ c[k].clock \in Nat /\ c[k].clock <= now /\ s \in Scopes
  <2>1. c[k] \in CallState /\ Sane(k, c[k], now) /\ c[k].pc \in {"user", "slots"}
    BY CallFacts DEF Acquire
  <2>2. c[k].need \in SUBSET Scopes /\ c[k].need # {}
    BY <2>1 DEF Sane, CallState
  <2> QED  BY <2>1, <2>2, CallFacts, FirstIn DEF CallState
<1>2. UNCHANGED <<rate, ledger, db, dials, now, crashes>>
  BY DEF Acquire
<1>3. outages' \in Nat
  BY <1>1 DEF Acquire, Answered, Outage, Release
<1>4. Others'
  BY <1>2, <1>3, OthersUnchanged
<1>5. CASE HasRoom(s, at) /\ lease' = Taken(k, s, at)
           /\ c' = [c EXCEPT ![k] = HaveLease(k, c[k], s)]
  BY <1>4, <1>5, AcquireLease
<1>6. CASE Release(Reap(s, at), k, c[k].t, c[k].slots)
           /\ \E r \in Refused(k) : c' = [c EXCEPT ![k] = Noted(r)]
  BY <1>4, <1>6, AcquireRefused
<1>7. CASE (lease' = lease \/ (HasRoom(s, at) /\ lease' = Taken(k, s, at)))
           /\ c' = [c EXCEPT ![k] = SkipLease(k, c[k], s)]
  BY <1>4, <1>7, AcquireOutage
<1> QED  BY <1>5, <1>6, <1>7 DEF Acquire

LEMMA TickInv == ASSUME IInv, Tick PROVE IInv'
<1>1. /\ now \in Nat /\ now' = now + 1 /\ now' \in Nat /\ now <= now'
      /\ UNCHANGED <<lease, rate, ledger, db, c, outages, crashes>>
      /\ dials' \subseteq dials
  BY DEF Tick, IInv, Others
<1>2. Others'
  BY <1>1 DEF IInv, Others
<1>3. GoodLeases(lease, now')
  BY <1>1, LaterLeases DEF IInv
<1>4. ASSUME NEW k \in Calls
      PROVE  Sane(k, c[k], now') /\ Complete(k, c[k]) /\ Backed(lease, k, c[k], now')
  <2>1. /\ Sane(k, c[k], now) /\ Complete(k, c[k]) /\ Backed(lease, k, c[k], now)
        /\ c[k] \in CallState
    BY CallFacts
  <2>2. c[k].clock \in Nat /\ c[k].clock <= now'
    BY <1>1, <2>1 DEF Sane, CallState
  <2>3. Sane(k, c[k], now')
    BY <2>1, <2>2 DEF Sane
  <2>4. \A h \in c[k].user \cup c[k].slots : h.exp \in Nat
    BY <2>1 DEF CallState, Held
  <2>5. \A h \in c[k].user \cup c[k].slots : h.exp > now' => h.exp > now
    BY <1>1, <2>4
  <2>6. Backed(lease, k, c[k], now')
    BY <2>1, <2>5 DEF Backed
  <2> QED  BY <2>1, <2>3, <2>6
<1>5. CallsInv'
  BY <1>1, <1>4 DEF CallsInv, IInv
<1> QED  BY <1>1, <1>2, <1>3, <1>5 DEF IInv

LEMMA InitInv == ASSUME Init PROVE IInv
<1>1. Others
  BY DEF Init, Others
<1>2. GoodLeases(lease, now)
  <2>1. lease \in [Scopes -> SUBSET Entry] /\ \A s \in Scopes : lease[s] = {}
    BY DEF Init
  <2>2. ASSUME NEW s \in Scopes
        PROVE  /\ IsFiniteSet(lease[s])
               /\ Limit[s] > 0 => Cardinality(InTime(lease, s, now)) <= Limit[s]
    <3>1. InTime(lease, s, now) = {} /\ lease[s] = {}
      BY <2>1 DEF InTime
    <3>2. IsFiniteSet({}) /\ Cardinality({}) = 0
      BY FS_EmptySet
    <3>3. Limit[s] \in Nat
      BY LimitsAssumption
    <3> QED  BY <3>1, <3>2, <3>3
  <2> QED  BY <2>1, <2>2 DEF GoodLeases
<1>3. NewCall \in CallState
  <2>1. 0 \in 0 .. NTargets
    BY CallsAssumption
  <2> QED  BY <2>1 DEF NewCall, CallState, Phases
<1>4. /\ NewCall.pc = "idle" /\ NewCall.t = 0 /\ NewCall.clock = 0
      /\ NewCall.user = {} /\ NewCall.slots = {}
  BY DEF NewCall
<1>5. ASSUME NEW k \in Calls
      PROVE  /\ c[k] = NewCall
             /\ Sane(k, NewCall, now) /\ Complete(k, NewCall)
             /\ Backed(lease, k, NewCall, now)
  <2>1. c[k] = NewCall /\ now = 0
    BY DEF Init
  <2>2. Sane(k, NewCall, now)
    BY <1>3, <1>4, <2>1 DEF Sane, Trying, ChatOnly
  <2>3. Complete(k, NewCall)
    BY <1>4 DEF Complete, Trying
  <2>4. Backed(lease, k, NewCall, now)
    BY <1>4 DEF Backed
  <2> QED  BY <2>1, <2>2, <2>3, <2>4
<1>6. c \in [Calls -> CallState]
  BY <1>3 DEF Init
<1> QED  BY <1>1, <1>2, <1>5, <1>6 DEF IInv, CallsInv

-----------------------------------------------------------------------------
(* The theorems.                                                           *)

(* The invariant holds in every reachable state, whatever the limits, the  *)
(* lifetimes, the outages and the crashes.                                 *)
THEOREM Invariant == Spec => []IInv
<1>1. Init => IInv
  BY InitInv
<1>2. IInv /\ [Next]_vars => IInv'
  <2> SUFFICES ASSUME IInv, [Next]_vars PROVE IInv'
    OBVIOUS
  <2>1. CASE Tick
    BY <2>1, TickInv
  <2>2. ASSUME NEW k \in Calls, Step(k) PROVE IInv'
    BY <2>2, ReadUsageInv, ReserveInv, StartEmbeddingInv, StartLogInv, AcquireInv,
       CheckRateInv, SendInv, FallbackInv, AnswerInv, RetryInv, FailInv, LeaveInv, CloseInv,
       FreeInv, UnreserveInv, EndTransactionInv DEF Step
  <2>3. ASSUME NEW k \in Calls, Crash(k) PROVE IInv'
    BY <2>3, CrashInv
  <2>4. CASE UNCHANGED vars
    BY <2>4 DEF vars, IInv, Others, CallsInv, GoodLeases, Sane, Complete, Backed, InTime
  <2> QED  BY <2>1, <2>2, <2>3, <2>4 DEF Next
<1> QED  BY <1>1, <1>2, PTL DEF Spec

(* Every variable keeps its type.                                          *)
THEOREM TypeCorrect == Spec => []TypeOK
<1>1. IInv => TypeOK
  BY DEF IInv, Others, GoodLeases, CallsInv, TypeOK
<1> QED  BY <1>1, Invariant, PTL

(* No call sends a request to a provider without all the leases it needs,  *)
(* unless Redis failed it (engine.run_chat, run_embedding).                *)
THEOREM HoldsAllSlotsAlways == Spec => []HoldsAllSlots
<1>1. IInv => HoldsAllSlots
  <2> SUFFICES ASSUME IInv, NEW k \in Calls,
                      c[k].pc \in {"dial", "sent"}, ~c[k].degraded
               PROVE  ScopesOf(c[k].user \cup c[k].slots)
                         = Limited(UserScopes(k) \cup SlotScopes(k, c[k].t))
    BY DEF HoldsAllSlots
  <2>1. Sane(k, c[k], now) /\ Complete(k, c[k]) /\ (k \in Chats <=> k \notin Embeds)
    BY CallFacts, ScopeFacts
  <2>2. ScopesOf(c[k].slots) = Limited(SlotScopes(k, c[k].t))
    BY <2>1 DEF Complete
  <2>3. ScopesOf(c[k].user \cup c[k].slots) = ScopesOf(c[k].user) \cup ScopesOf(c[k].slots)
    BY DEF ScopesOf
  <2>4. Limited(UserScopes(k) \cup SlotScopes(k, c[k].t))
          = Limited(UserScopes(k)) \cup Limited(SlotScopes(k, c[k].t))
    BY DEF Limited
  <2>5. CASE k \in Chats
    <3>1. ScopesOf(c[k].user) = Limited(UserScopes(k))
      BY <2>1, <2>5 DEF Complete, Trying
    <3> QED  BY <2>2, <2>3, <2>4, <3>1
  <2>6. CASE k \in Embeds
    <3>1. c[k].user = {} /\ UserScopes(k) \subseteq SlotScopes(k, c[k].t)
      BY <2>1, <2>6 DEF Sane, SlotScopes
    <3>2. ScopesOf(c[k].user) = {}
          /\ Limited(UserScopes(k)) \subseteq Limited(SlotScopes(k, c[k].t))
      BY <3>1 DEF ScopesOf, Limited
    <3> QED  BY <2>2, <2>3, <2>4, <3>2
  <2> QED  BY <2>1, <2>5, <2>6
<1> QED  BY <1>1, Invariant, PTL

\* Distinct calls hold distinct entries.
LEMMA HoldersBounded ==
    ASSUME IInv, NEW s \in Limited(Scopes)
    PROVE  Cardinality({k \in Calls : Occupies(k, s)}) <= Limit[s]
<1> DEFINE L == InTime(lease, s, now)
           K == {k \in Calls : Occupies(k, s)}
           C == {x.call : x \in L}
           f == [x \in L |-> x.call]
<1>1. /\ s \in Scopes /\ Limit[s] > 0 /\ Limit[s] \in Nat
      /\ IsFiniteSet(lease[s]) /\ lease[s] \subseteq Entry
      /\ Cardinality(L) <= Limit[s]
  BY LimitsAssumption DEF Limited, IInv, GoodLeases
<1>2. L \in SUBSET lease[s]
  BY DEF InTime
<1>3. IsFiniteSet(L) /\ Cardinality(L) \in Nat
  BY <1>1, <1>2, FS_Subset, FS_CardinalityType
<1>4. f \in Surjection(L, C)
  BY DEF Surjection
<1> HIDE DEF f
<1>5. IsFiniteSet(C) /\ Cardinality(C) <= Cardinality(L)
  BY <1>3, <1>4, FS_Surjection
<1>6. K \in SUBSET C
  <2> SUFFICES ASSUME NEW k \in Calls, Occupies(k, s) PROVE k \in C
    OBVIOUS
  <2>1. PICK h \in c[k].user \cup c[k].slots : h.scope = s /\ h.exp > now
    BY DEF Occupies
  <2>2. Backed(lease, k, c[k], now)
    BY CallFacts
  <2>3. PICK t : [call |-> k, t |-> t, exp |-> h.exp] \in lease[s]
    BY <2>1, <2>2 DEF Backed
  <2>4. [call |-> k, t |-> t, exp |-> h.exp] \in L
    BY <2>1, <2>3 DEF InTime
  <2>5. [call |-> k, t |-> t, exp |-> h.exp].call = k
    OBVIOUS
  <2> QED  BY <2>4, <2>5
<1>7. Cardinality(K) <= Cardinality(C) /\ IsFiniteSet(K)
  BY <1>5, <1>6, FS_Subset
<1>8. Cardinality(K) \in Nat /\ Cardinality(C) \in Nat
  BY <1>5, <1>7, FS_CardinalityType
<1> HIDE DEF K, C, L
<1>9. Cardinality(K) <= Limit[s]
  BY <1>1, <1>3, <1>5, <1>7, <1>8
<1> QED  BY <1>9 DEF K

(* No more calls hold a lease on a user, a model or a provider at a time   *)
(* than its limit allows (limits.acquire_leases, LEASE_LUA).               *)
THEOREM SlotsBoundedAlways == Spec => []SlotsBounded
<1>1. IInv => SlotsBounded
  BY HoldersBounded DEF SlotsBounded
<1> QED  BY <1>1, Invariant, PTL

(* Both together: whoever talks to a provider holds its leases, and there  *)
(* are never more of them than the limits allow.                           *)
THEOREM SlotsRespectedAlways == Spec => []SlotsRespected
<1>1. HoldsAllSlots /\ SlotsBounded => SlotsRespected
  BY DEF SlotsRespected
<1> QED  BY <1>1, HoldsAllSlotsAlways, SlotsBoundedAlways, PTL

-----------------------------------------------------------------------------
(* What a call leaves behind.  Whatever Redis has of a call, the call has  *)
(* to know until it gives it back: that, and in which phases a call has    *)
(* nothing, is the invariant LeftInv.                                      *)

\* What a call has not got yet, or has given back, in a phase.
Bare(k, r) ==
    /\ r.pc \in {"idle", "reserve", "open", "end"} \/ k \in Embeds => r.claim = 0
    /\ r.pc \in {"user", "unreserve"} => r.user = {}
    /\ r.pc = "user" => r.need \subseteq UserScopes(k)

\* The call knows the entry e of the semaphore s as its own.
Knows(r, s, e) ==
    \/ e.t = 0 /\ s \in ScopesOf(r.user)
    \/ e.t = r.t /\ s \in ScopesOf(r.slots)

\* Whatever Redis has of a call, the call still knows and will give back.
Accounted(l, g, k, r) ==
    ~r.degraded /\ ~r.leaked /\ r.pc # "dead" =>
        /\ \A s \in Scopes : \A e \in l[s] : e.call = k => Knows(r, s, e)
        /\ \A q \in g[UserOf[k]] : q.call = k => r.claim > 0

LeftInv == \A k \in Calls : Bare(k, c[k]) /\ Accounted(lease, ledger, k, c[k])

\* A step of the call k, which touches nothing of another call.
LEMMA LeftCall ==
    ASSUME IInv, LeftInv, NEW k \in Calls, NEW r, c' = [c EXCEPT ![k] = r],
           \A s \in Scopes : \A e \in lease'[s] : e.call # k => e \in lease[s],
           \A u \in Users : \A q \in ledger'[u] : q.call # k => q \in ledger[u],
           Bare(k, r), Accounted(lease', ledger', k, r)
    PROVE  LeftInv'
<1>1. c \in [Calls -> CallState]
  BY DEF IInv, CallsInv
<1>2. c'[k] = r /\ \A j \in Calls \ {k} : c'[j] = c[j]
  BY <1>1
<1>3. ASSUME NEW j \in Calls PROVE Bare(j, c'[j]) /\ Accounted(lease', ledger', j, c'[j])
  <2>1. CASE j = k
    BY <1>2, <2>1
  <2>2. CASE j # k
    <3>1. c'[j] = c[j] /\ Bare(j, c[j]) /\ Accounted(lease, ledger, j, c[j])
          /\ UserOf[j] \in Users
      BY <1>2, <2>2, ScopeFacts DEF LeftInv
    <3>2. Accounted(lease', ledger', j, c[j])
      BY <2>2, <3>1 DEF Accounted
    <3> QED  BY <3>1, <3>2
  <2> QED  BY <2>1, <2>2
<1> QED  BY <1>3 DEF LeftInv

\* A step that adds nothing to Redis, of a call that goes on knowing what it knew.
LEMMA LeftQuiet ==
    ASSUME IInv, LeftInv, NEW k \in Calls, NEW r, c' = [c EXCEPT ![k] = r],
           \A s \in Scopes : lease'[s] \subseteq lease[s],
           \A u \in Users : ledger'[u] \subseteq ledger[u],
           Bare(k, r),
           ~r.degraded /\ ~r.leaked /\ r.pc # "dead" =>
              /\ ~c[k].degraded /\ ~c[k].leaked /\ c[k].pc # "dead"
              /\ c[k].user \subseteq r.user
              /\ c[k].slots = {} \/ (c[k].slots \subseteq r.slots /\ r.t = c[k].t)
              /\ c[k].claim > 0 => r.claim > 0
    PROVE  LeftInv'
<1>1. Accounted(lease, ledger, k, c[k]) /\ UserOf[k] \in Users
  BY ScopeFacts DEF LeftInv
<1>2. ASSUME NEW s, NEW e, Knows(c[k], s, e), c[k].user \subseteq r.user,
             c[k].slots = {} \/ (c[k].slots \subseteq r.slots /\ r.t = c[k].t)
      PROVE  Knows(r, s, e)
  BY <1>2 DEF Knows, ScopesOf
<1>3. Accounted(lease', ledger', k, r)
  BY <1>1, <1>2 DEF Accounted
<1> QED  BY <1>3, LeftCall

\* acquire_leases leaves the reservation of its call alone.
LEMMA AcquiringKeeps ==
    ASSUME NEW k \in Calls, NEW r \in CallState, NEW S, NEW phase, now \in Nat
    PROVE  LET x == Acquiring(k, r, phase, S)
           IN  x.claim = r.claim /\ x.leaked = r.leaked
<1>1. CASE Limited(S) = {}
  BY <1>1 DEF Acquiring, CallState
<1>2. CASE Limited(S) # {}
  BY <1>2 DEF Acquiring, CallState
<1> QED  BY <1>1, <1>2

\* A call that is over knows of nothing in Redis.
LEMMA OverKeeps ==
    ASSUME NEW r \in CallState, NEW pc
    PROVE  LET x == Over(r, pc)
           IN  /\ x.pc = pc /\ x.claim = 0 /\ x.user = {} /\ x.slots = {}
               /\ x.degraded = r.degraded /\ x.leaked = r.leaked
  BY DEF Over, NewCall

\* What is known of a call that the invariants are about.
LEMMA LeftFacts ==
    ASSUME IInv, LeftInv, NEW k \in Calls
    PROVE  /\ c[k] \in CallState /\ Sane(k, c[k], now) /\ now \in Nat
           /\ Bare(k, c[k]) /\ Accounted(lease, ledger, k, c[k])
           /\ UserOf[k] \in Users /\ (k \in Chats <=> k \notin Embeds)
           /\ c \in [Calls -> CallState]
           /\ ledger \in [Users -> SUBSET Claim]
           /\ lease \in [Scopes -> SUBSET Entry]
           /\ outages \in Nat
  BY CallFacts, ScopeFacts DEF LeftInv, IInv, CallsInv, Others, GoodLeases

\* A call that ends with nothing in Redis.
LEMMA LeftOver ==
    ASSUME IInv, LeftInv, NEW k \in Calls, NEW r \in CallState, NEW pc \in {"open", "end"},
           c' = [c EXCEPT ![k] = Over(r, pc)],
           \A s \in Scopes : lease'[s] \subseteq lease[s],
           \A u \in Users : ledger'[u] \subseteq ledger[u],
           ~r.degraded /\ ~r.leaked =>
              /\ ~c[k].degraded /\ ~c[k].leaked /\ c[k].pc # "dead"
              /\ c[k].user = {} /\ c[k].slots = {} /\ c[k].claim = 0
    PROVE  LeftInv'
<1> DEFINE x == Over(r, pc)
<1>1. /\ x.pc = pc /\ x.claim = 0 /\ x.user = {} /\ x.slots = {}
      /\ x.degraded = r.degraded /\ x.leaked = r.leaked
  BY OverKeeps
<1>2. c' = [c EXCEPT ![k] = x]
  OBVIOUS
<1> HIDE DEF x
<1>3. Bare(k, x)
  BY <1>1 DEF Bare
<1> QED  BY <1>1, <1>2, <1>3, LeftQuiet

LEMMA ReadUsageLeft ==
    ASSUME IInv, LeftInv, NEW k \in Calls, ReadUsage(k) PROVE LeftInv'
<1>1. /\ k \in Chats /\ k \notin Embeds /\ c[k].pc = "idle" /\ c[k] \in CallState
      /\ c[k].user = {} /\ c[k].slots = {} /\ c[k].claim = 0 /\ now \in Nat
      /\ UserScopes(k) \in SUBSET Scopes
  BY LeftFacts, ScopeFacts DEF ReadUsage, Sane, Trying, Bare
<1>2. lease' = lease /\ ledger' = ledger
  BY DEF ReadUsage
<1>3. CASE RequestLimit = 0 /\ TokenLimit = 0
  <2> DEFINE x == Acquiring(k, c[k], "user", UserScopes(k))
  <2>1. c' = [c EXCEPT ![k] = x]
    BY <1>3 DEF ReadUsage
  <2>2. /\ x.user = {} /\ x.slots = {} /\ x.claim = 0
        /\ x.degraded = c[k].degraded /\ x.leaked = c[k].leaked
        /\ \/ x.pc = "user" /\ x.need = Limited(UserScopes(k))
           \/ x.pc = "log"
    BY <1>1, AcquiringFacts, AcquiringKeeps DEF Admitted
  <2> HIDE DEF x
  <2>3. Bare(k, x)
    BY <1>1, <2>2 DEF Bare, Limited
  <2> QED  BY <1>1, <1>2, <2>1, <2>2, <2>3, LeftQuiet
<1>4. CASE ~(RequestLimit = 0 /\ TokenLimit = 0)
  <2> DEFINE x == [c[k] EXCEPT !.pc = "reserve", !.read = Committed(UserOf[k])]
  <2>1. c' = [c EXCEPT ![k] = x]
    BY <1>4 DEF ReadUsage
  <2>2. /\ x.user = {} /\ x.slots = {} /\ x.claim = 0 /\ x.pc = "reserve"
        /\ x.degraded = c[k].degraded /\ x.leaked = c[k].leaked
    BY <1>1 DEF CallState
  <2> HIDE DEF x
  <2>3. Bare(k, x)
    BY <1>1, <2>2 DEF Bare
  <2> QED  BY <1>1, <1>2, <2>1, <2>2, <2>3, LeftQuiet
<1> QED  BY <1>3, <1>4

LEMMA ReserveLeft ==
    ASSUME IInv, LeftInv, NEW k \in Calls, Reserve(k) PROVE LeftInv'
<1> DEFINE u == UserOf[k]
           r == [c[k] EXCEPT !.read = {}]
           exp == now + TTL + Grace
<1>1. /\ c[k].pc = "reserve" /\ c[k] \in CallState /\ k \in Chats /\ k \notin Embeds
      /\ c[k].user = {} /\ c[k].slots = {} /\ c[k].claim = 0 /\ now \in Nat
      /\ Accounted(lease, ledger, k, c[k])
      /\ UserScopes(k) \in SUBSET Scopes /\ u \in Users
      /\ ledger \in [Users -> SUBSET Claim]
  BY LeftFacts, ScopeFacts DEF Reserve, Sane, Trying, ChatOnly, Bare
<1>2. lease' = lease
  BY DEF Reserve
<1>3. exp \in Nat /\ exp > 0
  BY <1>1, LimitsAssumption
<1>4. /\ r \in CallState /\ r.user = {} /\ r.slots = {} /\ r.claim = 0
      /\ r.degraded = c[k].degraded /\ r.leaked = c[k].leaked
      /\ [r EXCEPT !.claim = exp] \in CallState
      /\ [r EXCEPT !.degraded = TRUE] \in CallState
  BY <1>1, <1>3 DEF CallState
<1>5. \A v \in Users : \A q \in Claimed(k, u)[v] : q.call # k => q \in ledger[v]
  BY <1>1 DEF Claimed, LiveClaims
<1> HIDE DEF r, exp
\* The reservation is made and known.
<1>6. CASE /\ ledger' = Claimed(k, u)
           /\ c' = [c EXCEPT ![k] = Acquiring(k, [r EXCEPT !.claim = exp],
                                              "user", UserScopes(k))]
  <2> DEFINE y == [r EXCEPT !.claim = exp]
             x == Acquiring(k, y, "user", UserScopes(k))
  <2>1. c' = [c EXCEPT ![k] = x]
    BY <1>6
  <2>2. /\ y \in CallState /\ y.user = {} /\ y.slots = {} /\ y.claim = exp
        /\ y.degraded = c[k].degraded /\ y.leaked = c[k].leaked
    BY <1>4 DEF CallState
  <2> HIDE DEF y
  <2>3. /\ x.user = {} /\ x.slots = {} /\ x.claim = exp
        /\ x.degraded = c[k].degraded /\ x.leaked = c[k].leaked
        /\ \/ x.pc = "user" /\ x.need = Limited(UserScopes(k))
           \/ x.pc = "log"
    BY <1>1, <2>2, AcquiringFacts, AcquiringKeeps DEF Admitted
  <2> HIDE DEF x
  <2>4. Bare(k, x)
    BY <1>1, <2>3 DEF Bare, Limited
  <2>5. Accounted(lease', ledger', k, x)
    <3>1. ~x.degraded /\ ~x.leaked =>
             \A s \in Scopes : \A e \in lease[s] : e.call # k
      BY <1>1, <2>3 DEF Accounted, Knows, ScopesOf
    <3> QED  BY <1>2, <1>3, <2>3, <3>1 DEF Accounted
  <2> QED  BY <1>2, <1>5, <1>6, <2>1, <2>4, <2>5, LeftCall
\* The quota is used up.
<1>7. CASE /\ ledger' = [ledger EXCEPT ![u] = LiveClaims(u)]
           /\ c' = [c EXCEPT ![k] = Over(r, "end")]
  <2>1. \A v \in Users : ledger'[v] \subseteq ledger[v]
    BY <1>1, <1>7 DEF LiveClaims
  <2> QED  BY <1>1, <1>2, <1>4, <1>7, <2>1, LeftOver
\* Redis does not answer.
<1>8. CASE /\ ledger' = ledger \/ ledger' = Claimed(k, u)
           /\ \/ c' = [c EXCEPT ![k] = Over([r EXCEPT !.degraded = TRUE], "end")]
              \/ c' = [c EXCEPT ![k] = Acquiring(k, [r EXCEPT !.degraded = TRUE],
                                                 "user", UserScopes(k))]
  <2> DEFINE y == [r EXCEPT !.degraded = TRUE]
  <2>1. y \in CallState /\ y.user = {} /\ y.degraded
    BY <1>4 DEF CallState
  <2> HIDE DEF y
  <2>2. PICK x : /\ c' = [c EXCEPT ![k] = x]
                 /\ \/ x = Over(y, "end")
                    \/ x = Acquiring(k, y, "user", UserScopes(k))
    BY <1>8 DEF y
  <2>3. x.degraded /\ Bare(k, x)
    <3>1. CASE x = Over(y, "end")
      BY <2>1, <3>1, OverKeeps DEF Bare
    <3>2. CASE x = Acquiring(k, y, "user", UserScopes(k))
      <4>1. /\ x.user = {} /\ x.degraded
            /\ \/ x.pc = "user" /\ x.need = Limited(UserScopes(k))
               \/ x.pc = "log"
        BY <1>1, <2>1, <3>2, AcquiringFacts DEF Admitted
      <4> QED  BY <1>1, <4>1 DEF Bare, Limited
    <3> QED  BY <2>2, <3>1, <3>2
  <2>4. Accounted(lease', ledger', k, x)
    BY <2>3 DEF Accounted
  <2>5. \A v \in Users : \A q \in ledger'[v] : q.call # k => q \in ledger[v]
    BY <1>5, <1>8
  <2> QED  BY <1>2, <2>2, <2>3, <2>4, <2>5, LeftCall
<1> QED  BY <1>6, <1>7, <1>8 DEF Reserve, r, exp

LEMMA StartEmbeddingLeft ==
    ASSUME IInv, LeftInv, NEW k \in Calls, StartEmbedding(k) PROVE LeftInv'
<1> DEFINE x == [c[k] EXCEPT !.pc = "rate", !.t = 1]
<1>1. /\ c[k].pc = "idle" /\ c[k] \in CallState
      /\ c[k].user = {} /\ c[k].slots = {} /\ c[k].claim = 0
  BY LeftFacts DEF StartEmbedding, Sane, Trying, Bare
<1>2. c' = [c EXCEPT ![k] = x] /\ lease' = lease /\ ledger' = ledger
  BY DEF StartEmbedding
<1>3. /\ x.pc = "rate" /\ x.user = {} /\ x.slots = {} /\ x.claim = 0
      /\ x.degraded = c[k].degraded /\ x.leaked = c[k].leaked
  BY <1>1 DEF CallState
<1> HIDE DEF x
<1>4. Bare(k, x)
  BY <1>3 DEF Bare
<1> QED  BY <1>1, <1>2, <1>3, <1>4, LeftQuiet

LEMMA StartLogLeft ==
    ASSUME IInv, LeftInv, NEW k \in Calls, StartLog(k) PROVE LeftInv'
<1>1. /\ c[k].pc = "log" /\ c[k] \in CallState /\ Sane(k, c[k], now) /\ Bare(k, c[k])
      /\ (k \in Chats <=> k \notin Embeds)
  BY LeftFacts DEF StartLog
<1>2. lease' = lease /\ ledger' = ledger
  BY DEF StartLog
<1>3. PICK x : /\ c' = [c EXCEPT ![k] = x]
               /\ \/ x = [c[k] EXCEPT !.log = "running", !.t = 1,
                                      !.pc = IF k \in Chats THEN "rate" ELSE "dial"]
                  \/ k \in Chats /\ x = [c[k] EXCEPT !.pc = "free"]
                  \/ x = Over([c[k] EXCEPT !.leaked = TRUE], "end")
  BY DEF StartLog
<1>4. CASE x = Over([c[k] EXCEPT !.leaked = TRUE], "end")
  <2>1. [c[k] EXCEPT !.leaked = TRUE] \in CallState /\ [c[k] EXCEPT !.leaked = TRUE].leaked
    BY <1>1 DEF CallState
  <2> QED  BY <1>2, <1>3, <1>4, <2>1, LeftOver
<1>5. CASE x # Over([c[k] EXCEPT !.leaked = TRUE], "end")
  <2>1. /\ x.user = c[k].user /\ x.slots = c[k].slots /\ x.claim = c[k].claim
        /\ x.degraded = c[k].degraded /\ x.leaked = c[k].leaked
        /\ x.pc \in {"rate", "dial", "free"}
        /\ x.t = 1 \/ (k \in Chats /\ x.t = c[k].t)
    <3>1. CASE x = [c[k] EXCEPT !.log = "running", !.t = 1,
                                !.pc = IF k \in Chats THEN "rate" ELSE "dial"]
      BY <1>1, <3>1 DEF CallState
    <3>2. CASE k \in Chats /\ x = [c[k] EXCEPT !.pc = "free"]
      BY <1>1, <3>2 DEF CallState
    <3> QED  BY <1>3, <1>5, <3>1, <3>2
  <2>2. c[k].slots = {} \/ x.t = c[k].t
    BY <1>1, <2>1 DEF Sane, Trying
  <2>3. Bare(k, x)
    BY <1>1, <2>1 DEF Bare
  <2> QED  BY <1>1, <1>2, <1>3, <2>1, <2>2, <2>3, LeftQuiet
<1> QED  BY <1>4, <1>5

LEMMA CheckRateLeft ==
    ASSUME IInv, LeftInv, NEW k \in Calls, CheckRate(k) PROVE LeftInv'
<1> DEFINE S == SlotScopes(k, c[k].t)
<1>1. /\ c[k].pc = "rate" /\ c[k] \in CallState /\ c[k].slots = {} /\ c[k].t \in Targets
      /\ Bare(k, c[k]) /\ now \in Nat /\ (k \in Chats <=> k \notin Embeds)
      /\ k \in Embeds => c[k].user = {} /\ c[k].claim = 0
  BY LeftFacts DEF CheckRate, Sane, Trying, Bare
<1>2. lease' = lease /\ ledger' = ledger
  BY DEF CheckRate
<1>3. S \in SUBSET Scopes
  BY <1>1, ScopeFacts
<1> DEFINE y == [c[k] EXCEPT !.degraded = TRUE]
<1>4. y \in CallState /\ y.degraded /\ y.claim = c[k].claim
  BY <1>1 DEF CallState
<1> HIDE DEF S, y
<1>5. PICK x : /\ c' = [c EXCEPT ![k] = x]
               /\ \/ x = Acquiring(k, c[k], "slots", S)
                  \/ x = Acquiring(k, y, "slots", S)
                  \/ k \in Chats /\ x \in After(k, c[k])
                  \/ k \in Embeds /\ x = Over(c[k], "end")
  <2>1. \/ c' = [c EXCEPT ![k] = Acquiring(k, c[k], "slots", S)]
        \/ \E r \in IF k \in Chats THEN After(k, c[k]) ELSE {Over(c[k], "end")} :
              c' = [c EXCEPT ![k] = r]
        \/ c' = [c EXCEPT ![k] = Acquiring(k, y, "slots", S)]
    BY DEF CheckRate, S, y
  <2>2. CASE \E r \in IF k \in Chats THEN After(k, c[k]) ELSE {Over(c[k], "end")} :
              c' = [c EXCEPT ![k] = r]
    BY <1>1, <2>2
  <2> QED  BY <2>1, <2>2
<1>6. CASE x = Acquiring(k, c[k], "slots", S)
  <2>1. /\ x.user = c[k].user /\ x.slots = {} /\ x.claim = c[k].claim
        /\ x.degraded = c[k].degraded /\ x.leaked = c[k].leaked
        /\ x.pc \in {"slots", "log", "dial"}
    BY <1>1, <1>3, <1>6, AcquiringFacts, AcquiringKeeps DEF Admitted
  <2>2. Bare(k, x)
    BY <1>1, <2>1 DEF Bare
  <2> QED  BY <1>1, <1>2, <1>5, <2>1, <2>2, LeftQuiet
<1>7. CASE x = Acquiring(k, y, "slots", S)
  <2>1. /\ x.claim = c[k].claim /\ x.degraded
        /\ x.pc \in {"slots", "log", "dial"}
    BY <1>1, <1>3, <1>4, <1>7, AcquiringFacts, AcquiringKeeps DEF Admitted
  <2>2. Bare(k, x)
    BY <1>1, <2>1 DEF Bare
  <2> QED  BY <1>2, <1>5, <2>1, <2>2, LeftQuiet
<1>8. CASE k \in Chats /\ x \in After(k, c[k])
  <2>1. /\ x.user = c[k].user /\ x.slots = {} /\ x.claim = c[k].claim
        /\ x.degraded = c[k].degraded /\ x.leaked = c[k].leaked
        /\ x.pc \in {"close", "rate"}
    BY <1>1, <1>8 DEF After, CallState
  <2>2. Bare(k, x)
    BY <1>1, <1>8, <2>1 DEF Bare
  <2> QED  BY <1>1, <1>2, <1>5, <2>1, <2>2, LeftQuiet
<1>9. CASE k \in Embeds /\ x = Over(c[k], "end")
  BY <1>1, <1>2, <1>5, <1>9, LeftOver
<1> QED  BY <1>5, <1>6, <1>7, <1>8, <1>9

\* A step that changes neither Redis nor what the call has there.
LEMMA LeftSame ==
    ASSUME IInv, LeftInv, NEW k \in Calls, NEW r, c' = [c EXCEPT ![k] = r],
           lease' = lease, ledger' = ledger,
           c[k].pc \in {"dial", "sent", "close"},
           r.pc \in {"dial", "sent", "leave", "free"},
           r.user = c[k].user, r.slots = c[k].slots, r.t = c[k].t, r.claim = c[k].claim,
           r.degraded = c[k].degraded, r.leaked = c[k].leaked
    PROVE  LeftInv'
<1>1. Bare(k, c[k])
  BY LeftFacts
<1>2. Bare(k, r)
  BY <1>1 DEF Bare
<1> QED  BY <1>2, LeftQuiet

LEMMA RequestLeft ==
    ASSUME IInv, LeftInv, NEW k \in Calls,
           Send(k) \/ Fallback(k) \/ Answer(k) \/ Retry(k) \/ Fail(k) \/ Close(k)
    PROVE  LeftInv'
<1>1. c[k] \in CallState /\ c[k].pc \in {"dial", "sent", "close"}
  BY LeftFacts DEF Send, Fallback, Answer, Retry, Fail, Close
<1>2. lease' = lease /\ ledger' = ledger
  BY DEF Send, Fallback, Answer, Retry, Fail, Close
<1> DEFINE Same(r) == /\ r.pc \in {"dial", "sent", "leave", "free"}
                      /\ r.user = c[k].user /\ r.slots = c[k].slots
                      /\ r.t = c[k].t /\ r.claim = c[k].claim
                      /\ r.degraded = c[k].degraded /\ r.leaked = c[k].leaked
<1>3. \E r : Same(r) /\ c' = [c EXCEPT ![k] = r]
  <2>1. CASE Send(k)
    <3>1. CASE c' = [c EXCEPT ![k] = [c[k] EXCEPT !.pc = "sent", !.clock = now,
                                                  !.stream = k \in Streams]]
      <4> DEFINE r == [c[k] EXCEPT !.pc = "sent", !.clock = now, !.stream = k \in Streams]
      <4>1. Same(r)
        BY <1>1, <2>1 DEF CallState
      <4> QED  BY <3>1, <4>1
    <3>2. ASSUME NEW then,
                 c' = [c EXCEPT ![k] = [c[k] EXCEPT !.pc = "leave", !.then = then]]
          PROVE  \E r : Same(r) /\ c' = [c EXCEPT ![k] = r]
      <4> DEFINE r == [c[k] EXCEPT !.pc = "leave", !.then = then]
      <4>1. Same(r)
        BY <1>1 DEF CallState
      <4> QED  BY <3>2, <4>1
    <3> HIDE DEF Same
    <3> QED  BY <2>1, <3>1, <3>2 DEF Send
  <2>2. CASE Fallback(k)
    <3> DEFINE r == [c[k] EXCEPT !.clock = now, !.stream = FALSE]
    <3>1. Same(r)
      BY <1>1, <2>2 DEF CallState, Fallback
    <3> QED  BY <2>2, <3>1 DEF Fallback
  <2>3. CASE Answer(k)
    <3>1. PICK n, then : c' = [c EXCEPT ![k] =
              [@ EXCEPT !.pc = "leave", !.log = "success", !.tokens = n, !.then = then]]
      BY <2>3 DEF Answer
    <3> DEFINE r == [c[k] EXCEPT !.pc = "leave", !.log = "success", !.tokens = n,
                                 !.then = then]
    <3>2. Same(r)
      BY <1>1 DEF CallState
    <3> QED  BY <3>1, <3>2
  <2>4. CASE Retry(k)
    <3> DEFINE r == [c[k] EXCEPT !.pc = "dial", !.clock = 0, !.try = NextTry(k)]
    <3>1. Same(r)
      BY <1>1 DEF CallState
    <3> QED  BY <2>4, <3>1 DEF Retry
  <2>5. CASE Fail(k)
    <3>1. PICK then : c' = [c EXCEPT ![k] =
              IF k \in Chats THEN [@ EXCEPT !.pc = "leave", !.then = then]
              ELSE [@ EXCEPT !.pc = "leave", !.log = "failed", !.then = "open"]]
      BY <2>5 DEF Fail
    <3> DEFINE r == IF k \in Chats THEN [c[k] EXCEPT !.pc = "leave", !.then = then]
                    ELSE [c[k] EXCEPT !.pc = "leave", !.log = "failed", !.then = "open"]
    <3>2. Same(r)
      BY <1>1 DEF CallState
    <3> QED  BY <3>1, <3>2
  <2>6. CASE Close(k)
    <3> DEFINE r == [c[k] EXCEPT !.pc = "free", !.log = "failed"]
    <3>1. Same(r)
      BY <1>1 DEF CallState
    <3> QED  BY <2>6, <3>1 DEF Close
  <2> QED  BY <2>1, <2>2, <2>3, <2>4, <2>5, <2>6
<1> QED  BY <1>1, <1>2, <1>3, LeftSame

LEMMA CrashLeft ==
    ASSUME IInv, LeftInv, NEW k \in Calls, Crash(k) PROVE LeftInv'
<1> DEFINE x == Over(c[k], "dead")
<1>1. c[k] \in CallState
  BY LeftFacts
<1>2. x.pc = "dead" /\ x.claim = 0
  BY <1>1, OverKeeps
<1>3. c' = [c EXCEPT ![k] = x] /\ lease' = lease /\ ledger' = ledger
  BY DEF Crash
<1> HIDE DEF x
<1>4. Bare(k, x)
  BY <1>2 DEF Bare
<1> QED  BY <1>2, <1>3, <1>4, LeftQuiet

LEMMA EndTransactionLeft ==
    ASSUME IInv, LeftInv, NEW k \in Calls, EndTransaction(k) PROVE LeftInv'
<1>1. /\ c[k].pc = "open" /\ c[k] \in CallState
      /\ c[k].user = {} /\ c[k].slots = {} /\ c[k].claim = 0
  BY LeftFacts DEF EndTransaction, Sane, Trying, Bare
<1>2. c' = [c EXCEPT ![k] = Over(c[k], "end")] /\ lease' = lease /\ ledger' = ledger
  BY DEF EndTransaction
<1> QED  BY <1>1, <1>2, LeftOver

LEMMA UnreserveLeft ==
    ASSUME IInv, LeftInv, NEW k \in Calls, Unreserve(k) PROVE LeftInv'
<1> DEFINE r == Noted(c[k])
           pc == IF c[k].log = "none" THEN "end" ELSE "open"
           x == Over(r, pc)
<1>1. /\ c[k].pc = "unreserve" /\ c[k] \in CallState /\ UserOf[k] \in Users
      /\ c[k].user = {} /\ c[k].slots = {} /\ c[k].claim \in Nat /\ outages \in Nat
      /\ Accounted(lease, ledger, k, c[k]) /\ c \in [Calls -> CallState]
      /\ ledger \in [Users -> SUBSET Claim]
  BY LeftFacts DEF Unreserve, Sane, Trying, Bare, CallState
<1>2. c' = [c EXCEPT ![k] = x] /\ lease' = lease
  BY <1>1 DEF Unreserve
<1>3. /\ r \in CallState /\ r.leaked = c[k].leaked
      /\ r.degraded = (c[k].degraded \/ outages' # outages)
  BY <1>1 DEF Noted, CallState
<1> HIDE DEF r
<1>4. /\ x.pc \in {"open", "end"} /\ x.claim = 0 /\ x.user = {} /\ x.slots = {}
      /\ x.degraded = r.degraded /\ x.leaked = c[k].leaked
  BY <1>3, OverKeeps
<1>5. \A u \in Users : ledger'[u] \subseteq ledger[u]
  BY <1>1 DEF Unreserve, Unclaimed
<1>6. outages' = outages => \A q \in ledger'[UserOf[k]] : q.call = k => c[k].degraded \/ c[k].leaked
  <2>1. ~c[k].degraded /\ ~c[k].leaked => \A q \in ledger[UserOf[k]] : q.call = k => c[k].claim > 0
    BY <1>1 DEF Accounted
  <2>2. CASE c[k].claim > 0 /\ ledger' = Unclaimed(k, UserOf[k])
    BY <1>1, <2>2 DEF Unclaimed
  <2>3. CASE c[k].claim > 0 /\ Outage
    BY <1>1, <2>3 DEF Outage
  <2>4. CASE c[k].claim = 0 /\ ledger' = ledger
    BY <2>1, <2>4
  <2> QED  BY <2>2, <2>3, <2>4 DEF Unreserve
<1> HIDE DEF x
<1>7. Accounted(lease', ledger', k, x)
  BY <1>1, <1>2, <1>3, <1>4, <1>6 DEF Accounted, Knows, ScopesOf
<1>8. Bare(k, x)
  BY <1>4 DEF Bare
<1> QED  BY <1>2, <1>5, <1>7, <1>8, LeftCall

\* A release that Redis answered took all entries of that attempt.
LEMMA ReleaseLeft ==
    ASSUME IInv, NEW k \in Calls, NEW t, NEW held, NEW l, Release(l, k, t, held),
           \A s \in Scopes : l[s] \subseteq lease[s]
    PROVE  /\ \A s \in Scopes : lease'[s] \subseteq lease[s]
           /\ outages' = outages =>
                 \A s \in ScopesOf(held) : s \in Scopes =>
                     \A e \in lease'[s] : ~(e.call = k /\ e.t = t)
<1>1. PICK S : lease' = Without(l, k, t, S)
               /\ (outages' = outages => S = ScopesOf(held))
  <2>1. outages \in Nat
    BY DEF IInv, Others
  <2>2. CASE lease' = Without(l, k, t, ScopesOf(held))
    BY <2>2
  <2>3. CASE outages' = outages + 1
             /\ \E lost \in SUBSET ScopesOf(held) :
                   lease' = Without(l, k, t, ScopesOf(held) \ lost)
    BY <2>1, <2>3
  <2> QED  BY <2>2, <2>3 DEF Release, Outage
<1> QED  BY <1>1 DEF Without

LEMMA FreeLeft ==
    ASSUME IInv, LeftInv, NEW k \in Calls, Free(k) PROVE LeftInv'
<1> DEFINE x == Noted([c[k] EXCEPT !.pc = "unreserve", !.user = {}])
<1>1. /\ c[k].pc = "free" /\ c[k] \in CallState /\ c[k].slots = {}
      /\ Bare(k, c[k]) /\ Accounted(lease, ledger, k, c[k]) /\ c \in [Calls -> CallState]
  BY LeftFacts DEF Free, Sane, Trying
<1>2. Release(lease, k, 0, c[k].user) /\ c' = [c EXCEPT ![k] = x] /\ ledger' = ledger
  BY <1>1 DEF Free
<1>3. /\ \A s \in Scopes : lease'[s] \subseteq lease[s]
      /\ outages' = outages =>
                 \A s \in ScopesOf(c[k].user) : s \in Scopes =>
                     \A e \in lease'[s] : ~(e.call = k /\ e.t = 0)
  BY <1>2, ReleaseLeft
<1>4. /\ x.pc = "unreserve" /\ x.user = {} /\ x.slots = {} /\ x.claim = c[k].claim
      /\ x.leaked = c[k].leaked
      /\ x.degraded = (c[k].degraded \/ outages' # outages)
  BY <1>1 DEF CallState, Noted
<1> HIDE DEF x
<1>5. Bare(k, x)
  BY <1>1, <1>4 DEF Bare
<1>6. Accounted(lease', ledger', k, x)
  <2> SUFFICES ASSUME ~x.degraded, ~x.leaked
               PROVE  Accounted(lease', ledger', k, x)
    BY DEF Accounted
  <2>1. /\ \A s \in Scopes : \A e \in lease[s] : e.call = k => Knows(c[k], s, e)
        /\ \A q \in ledger[UserOf[k]] : q.call = k => c[k].claim > 0
    BY <1>1, <1>4 DEF Accounted
  <2>2. \A s \in Scopes : \A e \in lease'[s] : e.call # k
    <3> SUFFICES ASSUME NEW s \in Scopes, NEW e \in lease'[s], e.call = k PROVE FALSE
      OBVIOUS
    <3>1. Knows(c[k], s, e)
      BY <1>3, <2>1
    <3>2. e.t = 0 /\ s \in ScopesOf(c[k].user)
      BY <1>1, <3>1 DEF Knows, ScopesOf
    <3> QED  BY <1>3, <1>4, <3>2
  <2> QED  BY <1>2, <1>4, <2>1, <2>2 DEF Accounted
<1> QED  BY <1>2, <1>3, <1>5, <1>6, LeftCall

LEMMA LeaveLeft ==
    ASSUME IInv, LeftInv, NEW k \in Calls, Leave(k) PROVE LeftInv'
<1> DEFINE r == Noted([c[k] EXCEPT !.pc = c[k].then, !.then = "idle",
                                   !.slots = {}, !.clock = 0])
           x == CASE k \in Embeds -> Over(r, "open")
                  [] k \in Chats /\ r.pc = "rate" -> [r EXCEPT !.t = r.t + 1, !.try = 0]
                  [] OTHER -> r
<1>1. /\ c[k].pc = "leave" /\ c[k] \in CallState /\ c[k].t # 0
      /\ c[k].then \in {"rate", "close", "free", "open"}
      /\ Bare(k, c[k]) /\ Accounted(lease, ledger, k, c[k]) /\ c \in [Calls -> CallState]
      /\ (k \in Chats <=> k \notin Embeds) /\ (c[k].then = "open" <=> k \in Embeds)
      /\ (k \in Embeds => c[k].user = {} /\ c[k].claim = 0)
  BY LeftFacts DEF Leave, Sane, Trying, Bare, Targets
<1>2. Release(lease, k, c[k].t, c[k].slots) /\ c' = [c EXCEPT ![k] = x] /\ ledger' = ledger
  BY <1>1 DEF Leave
<1>3. /\ \A s \in Scopes : lease'[s] \subseteq lease[s]
      /\ outages' = outages =>
                 \A s \in ScopesOf(c[k].slots) : s \in Scopes =>
                     \A e \in lease'[s] : ~(e.call = k /\ e.t = c[k].t)
  BY <1>2, ReleaseLeft
<1>4. /\ r.pc = c[k].then /\ r.user = c[k].user /\ r.slots = {} /\ r.claim = c[k].claim
      /\ r.leaked = c[k].leaked /\ r \in CallState
      /\ r.degraded = (c[k].degraded \/ outages' # outages)
  BY <1>1 DEF CallState, Noted, Phases
<1> HIDE DEF r
<1>5. /\ x.user = c[k].user /\ x.slots = {} /\ x.claim = c[k].claim
      /\ x.pc \in {"rate", "close", "free", "open"} /\ (x.pc = "open" => x.claim = 0)
      /\ x.leaked = c[k].leaked /\ x.degraded = r.degraded
  <2>1. CASE k \in Embeds
    <3>1. x = Over(r, "open")
      BY <1>1, <2>1
    <3> HIDE DEF x
    <3>2. /\ x.pc = "open" /\ x.claim = 0 /\ x.user = {} /\ x.slots = {}
          /\ x.degraded = r.degraded /\ x.leaked = r.leaked
      BY <1>4, <3>1, OverKeeps
    <3> QED  BY <1>1, <1>4, <2>1, <3>2
  <2>2. CASE k \in Chats /\ r.pc = "rate"
    <3>1. x = [r EXCEPT !.t = r.t + 1, !.try = 0]
      BY <1>1, <2>2
    <3> HIDE DEF x
    <3>2. /\ x.user = r.user /\ x.slots = r.slots /\ x.claim = r.claim /\ x.pc = r.pc
          /\ x.leaked = r.leaked /\ x.degraded = r.degraded
      BY <1>4, <3>1 DEF CallState
    <3> QED  BY <1>4, <2>2, <3>2
  <2>3. CASE k \in Chats /\ r.pc # "rate"
    <3>1. x = r
      BY <1>1, <2>3
    <3> HIDE DEF x
    <3> QED  BY <1>1, <1>4, <2>3, <3>1
  <2> QED  BY <1>1, <2>1, <2>2, <2>3
<1> HIDE DEF x
<1>6. Bare(k, x)
  BY <1>1, <1>5 DEF Bare
<1>7. Accounted(lease', ledger', k, x)
  <2> SUFFICES ASSUME ~x.degraded, ~x.leaked
               PROVE  Accounted(lease', ledger', k, x)
    BY DEF Accounted
  <2>1. /\ \A s \in Scopes : \A e \in lease[s] : e.call = k => Knows(c[k], s, e)
        /\ \A q \in ledger[UserOf[k]] : q.call = k => c[k].claim > 0
        /\ outages' = outages
    BY <1>1, <1>4, <1>5 DEF Accounted
  <2>2. ASSUME NEW s \in Scopes, NEW e \in lease'[s], e.call = k PROVE Knows(x, s, e)
    <3>1. Knows(c[k], s, e)
      BY <1>3, <2>1, <2>2
    <3>2. ~(e.t = c[k].t /\ s \in ScopesOf(c[k].slots))
      BY <1>3, <2>1, <2>2
    <3> QED  BY <1>5, <3>1, <3>2 DEF Knows
  <2> QED  BY <1>2, <1>5, <2>1, <2>2 DEF Accounted
<1> QED  BY <1>2, <1>3, <1>6, <1>7, LeftCall

LEMMA AcquireLeaseLeft ==
    ASSUME IInv, LeftInv, NEW k \in Calls, c[k].pc \in {"user", "slots"}, ledger' = ledger,
           lease' = Taken(k, First(c[k].need), c[k].clock),
           c' = [c EXCEPT ![k] = HaveLease(k, c[k], First(c[k].need))]
    PROVE  LeftInv'
<1> DEFINE s == First(c[k].need)
           at == c[k].clock
           h == [scope |-> s, exp |-> at + TTL]
           left == c[k].need \ {s}
           r == IF c[k].pc = "user" THEN [c[k] EXCEPT !.user = c[k].user \cup {h}]
                ELSE [c[k] EXCEPT !.slots = c[k].slots \cup {h}]
           x == Onward(k, r, left)
<1>1. /\ c[k] \in CallState /\ Sane(k, c[k], now) /\ Bare(k, c[k])
      /\ Accounted(lease, ledger, k, c[k]) /\ at \in Nat
      /\ lease \in [Scopes -> SUBSET Entry]
      /\ c[k].need \in SUBSET Scopes /\ c[k].need # {}
  BY LeftFacts DEF CallState, Sane
<1>2. s \in c[k].need /\ s \in Scopes /\ left \in SUBSET Scopes
  BY <1>1, FirstIn
<1>3. h \in Held /\ h.scope = s
  BY <1>1, <1>2, LimitsAssumption DEF Held
<1>4. c' = [c EXCEPT ![k] = x]
  BY DEF HaveLease
<1>5. /\ r \in CallState /\ r.pc = c[k].pc /\ r.t = c[k].t /\ r.claim = c[k].claim
      /\ r.degraded = c[k].degraded /\ r.leaked = c[k].leaked
      /\ \/ c[k].pc = "user" /\ r.user = c[k].user \cup {h} /\ r.slots = c[k].slots
         \/ c[k].pc = "slots" /\ r.slots = c[k].slots \cup {h} /\ r.user = c[k].user
  BY <1>1, <1>3 DEF CallState
<1>6. \A q \in Scopes : \A e \in lease'[q] :
         \/ e \in lease[q]
         \/ q = s /\ e.call = k /\ e.t = c[k].t
  BY <1>1, <1>2 DEF Taken, Live
<1>7. c[k].pc = "user" => c[k].t = 0 /\ left = {}
  BY <1>1, <1>2 DEF Sane, Bare, UserScopes
<1> HIDE DEF r, h, left, s, at
<1>8. /\ x.user = r.user /\ x.slots = r.slots /\ x.t = r.t /\ x.degraded = r.degraded
      /\ \/ x.pc = c[k].pc /\ left # {}
         \/ left = {} /\ x.pc \in {"log", "dial"}
  BY <1>2, <1>5, OnwardFacts
<1>9. x.claim = r.claim /\ x.leaked = r.leaked
  BY <1>5 DEF Onward, CallState
<1> HIDE DEF x
<1>10. Bare(k, x)
  BY <1>1, <1>5, <1>7, <1>8, <1>9 DEF Bare
<1>11. ASSUME NEW q \in Scopes, NEW e \in lease'[q], e.call = k,
              \A f \in lease[q] : f.call = k => Knows(c[k], q, f)
       PROVE  Knows(x, q, e)
  <2>1. c[k].user \subseteq x.user /\ c[k].slots \subseteq x.slots /\ x.t = c[k].t
    BY <1>5, <1>8
  <2>2. CASE e \in lease[q]
    BY <1>11, <2>1, <2>2 DEF Knows, ScopesOf
  <2>3. CASE q = s /\ e.t = c[k].t
    <3>1. \/ h \in x.user /\ c[k].t = 0
          \/ h \in x.slots
      BY <1>5, <1>7, <1>8
    <3> QED  BY <1>3, <2>1, <2>3, <3>1 DEF Knows, ScopesOf
  <2> QED  BY <1>6, <1>11, <2>2, <2>3
<1>12. Accounted(lease', ledger', k, x)
  <2> SUFFICES ASSUME ~x.degraded, ~x.leaked
               PROVE  Accounted(lease', ledger', k, x)
    BY DEF Accounted
  <2>1. /\ \A q \in Scopes : \A e \in lease[q] : e.call = k => Knows(c[k], q, e)
        /\ \A q \in ledger[UserOf[k]] : q.call = k => c[k].claim > 0
    BY <1>1, <1>5, <1>8, <1>9 DEF Accounted
  <2> QED  BY <1>5, <1>9, <1>11, <2>1 DEF Accounted
<1> QED  BY <1>4, <1>6, <1>10, <1>12, LeftCall

LEMMA AcquireRefusedLeft ==
    ASSUME IInv, LeftInv, NEW k \in Calls, c[k].pc \in {"user", "slots"}, ledger' = ledger,
           Release(Reap(First(c[k].need), c[k].clock), k, c[k].t, c[k].slots),
           NEW r \in Refused(k), c' = [c EXCEPT ![k] = Noted(r)]
    PROVE  LeftInv'
<1> DEFINE l == Reap(First(c[k].need), c[k].clock)
           x == Noted(r)
<1>1. /\ c[k] \in CallState /\ Sane(k, c[k], now) /\ Bare(k, c[k])
      /\ Accounted(lease, ledger, k, c[k])
      /\ lease \in [Scopes -> SUBSET Entry]
      /\ (k \in Chats <=> k \notin Embeds)
      /\ (k \in Embeds => c[k].user = {} /\ c[k].claim = 0)
      /\ (c[k].pc = "user" => c[k].slots = {} /\ c[k].user = {} /\ k \in Chats)
  BY LeftFacts DEF Sane, Trying, ChatOnly, Bare
<1>2. \A q \in Scopes : l[q] \subseteq lease[q]
  BY <1>1 DEF Reap, Live
<1>3. Release(l, k, c[k].t, c[k].slots)
  OBVIOUS
<1> HIDE DEF l
<1>4. /\ \A q \in Scopes : lease'[q] \subseteq lease[q]
      /\ outages' = outages =>
                 \A q \in ScopesOf(c[k].slots) : q \in Scopes =>
                     \A e \in lease'[q] : ~(e.call = k /\ e.t = c[k].t)
  BY <1>2, <1>3, ReleaseLeft
<1>5. /\ r \in CallState /\ r.user = c[k].user /\ r.slots = {}
      /\ r.claim = c[k].claim
      /\ r.degraded = c[k].degraded /\ r.leaked = c[k].leaked
      /\ r.pc \in {"unreserve", "close", "rate", "end"}
      /\ (r.pc = "unreserve" => r.user = {}) /\ (r.pc = "end" => r.claim = 0)
  <2>1. CASE c[k].pc = "user"
    <3>1. r = [c[k] EXCEPT !.pc = "unreserve", !.need = {}]
      BY <2>1 DEF Refused
    <3> QED  BY <1>1, <2>1, <3>1 DEF CallState, Phases
  <2>2. CASE c[k].pc = "slots" /\ k \in Chats
    <3> DEFINE q == [c[k] EXCEPT !.need = {}, !.slots = {}]
    <3>1. r \in After(k, q)
      BY <2>2 DEF Refused
    <3>2. /\ q \in CallState /\ q.user = c[k].user /\ q.slots = {} /\ q.claim = c[k].claim
          /\ q.degraded = c[k].degraded /\ q.leaked = c[k].leaked
      BY <1>1 DEF CallState
    <3> HIDE DEF q
    <3>3. r \in CallState
      BY <3>1, <3>2, AfterFacts
    <3>4. \/ r = [q EXCEPT !.pc = "close"]
          \/ r = [q EXCEPT !.pc = "rate", !.t = q.t + 1, !.try = 0]
      BY <3>1 DEF After
    <3> QED  BY <3>2, <3>3, <3>4 DEF CallState
  <2>3. CASE c[k].pc = "slots" /\ k \in Embeds
    <3>1. r = Over(c[k], "end")
      BY <1>1, <2>3 DEF Refused
    <3>2. r \in CallState
      <4>1. now \in Nat
        BY LeftFacts
      <4>2. Sane(k, Over(c[k], "end"), now)
        BY <1>1, <4>1, OverFacts
      <4> QED  BY <3>1, <4>2 DEF Sane
    <3>3. /\ r.pc = "end" /\ r.claim = 0 /\ r.user = {} /\ r.slots = {}
          /\ r.degraded = c[k].degraded /\ r.leaked = c[k].leaked
      BY <1>1, <3>1, OverKeeps
    <3> QED  BY <1>1, <2>3, <3>2, <3>3
  <2> QED  BY <1>1, <2>1, <2>2, <2>3
<1>6. /\ x.pc = r.pc /\ x.user = r.user /\ x.slots = {} /\ x.claim = r.claim
      /\ x.leaked = c[k].leaked
      /\ x.degraded = (c[k].degraded \/ outages' # outages)
  BY <1>5 DEF Noted, CallState
<1>7. c' = [c EXCEPT ![k] = x]
  OBVIOUS
<1> HIDE DEF x
<1>8. Bare(k, x)
  BY <1>1, <1>5, <1>6 DEF Bare
<1>9. Accounted(lease', ledger', k, x)
  <2> SUFFICES ASSUME ~x.degraded, ~x.leaked
               PROVE  Accounted(lease', ledger', k, x)
    BY DEF Accounted
  <2>1. /\ \A q \in Scopes : \A e \in lease[q] : e.call = k => Knows(c[k], q, e)
        /\ \A q \in ledger[UserOf[k]] : q.call = k => c[k].claim > 0
        /\ outages' = outages
    BY <1>1, <1>6 DEF Accounted
  <2>2. ASSUME NEW q \in Scopes, NEW e \in lease'[q], e.call = k PROVE Knows(x, q, e)
    <3>1. Knows(c[k], q, e)
      BY <1>4, <2>1, <2>2
    <3>2. ~(e.t = c[k].t /\ q \in ScopesOf(c[k].slots))
      BY <1>4, <2>1, <2>2
    <3> QED  BY <1>5, <1>6, <3>1, <3>2 DEF Knows
  <2> QED  BY <1>5, <1>6, <2>1, <2>2 DEF Accounted
<1> QED  BY <1>4, <1>7, <1>8, <1>9, LeftCall

LEMMA AcquireOutageLeft ==
    ASSUME IInv, LeftInv, NEW k \in Calls, c[k].pc \in {"user", "slots"}, ledger' = ledger,
           \/ lease' = lease
           \/ lease' = Taken(k, First(c[k].need), c[k].clock),
           c' = [c EXCEPT ![k] = SkipLease(k, c[k], First(c[k].need))]
    PROVE  LeftInv'
<1> DEFINE s == First(c[k].need)
           r == [c[k] EXCEPT !.degraded = TRUE]
           left == c[k].need \ {s}
           x == Onward(k, r, left)
<1>1. /\ c[k] \in CallState /\ Sane(k, c[k], now) /\ Bare(k, c[k])
      /\ lease \in [Scopes -> SUBSET Entry]
      /\ c[k].need \in SUBSET Scopes /\ c[k].need # {}
  BY LeftFacts DEF CallState, Sane
<1>2. s \in c[k].need /\ s \in Scopes /\ left \in SUBSET Scopes
  BY <1>1, FirstIn
<1>3. c' = [c EXCEPT ![k] = x]
  BY DEF SkipLease
<1>4. /\ r \in CallState /\ r.pc = c[k].pc /\ r.claim = c[k].claim /\ r.degraded
  BY <1>1 DEF CallState
<1>5. \A q \in Scopes : \A e \in lease'[q] : e \in lease[q] \/ e.call = k
  BY <1>1, <1>2 DEF Taken, Live
<1>6. c[k].pc = "user" => left = {}
  BY <1>1, <1>2 DEF Bare, UserScopes
<1> HIDE DEF r, left, s
<1>7. /\ x.degraded
      /\ \/ x.pc = c[k].pc /\ left # {}
         \/ left = {} /\ x.pc \in {"log", "dial"}
  BY <1>2, <1>4, OnwardFacts
<1>8. x.claim = r.claim
  BY <1>4 DEF Onward, CallState
<1> HIDE DEF x
<1>9. Bare(k, x)
  BY <1>1, <1>4, <1>6, <1>7, <1>8 DEF Bare
<1>10. Accounted(lease', ledger', k, x)
  BY <1>7 DEF Accounted
<1> QED  BY <1>3, <1>5, <1>9, <1>10, LeftCall

LEMMA AcquireLeft ==
    ASSUME IInv, LeftInv, NEW k \in Calls, Acquire(k) PROVE LeftInv'
<1> DEFINE s == First(c[k].need)
           at == c[k].clock
<1>1. c[k].pc \in {"user", "slots"} /\ ledger' = ledger
  BY DEF Acquire
<1>2. CASE lease' = Taken(k, s, at) /\ c' = [c EXCEPT ![k] = HaveLease(k, c[k], s)]
  BY <1>1, <1>2, AcquireLeaseLeft
<1>3. CASE Release(Reap(s, at), k, c[k].t, c[k].slots)
           /\ \E r \in Refused(k) : c' = [c EXCEPT ![k] = Noted(r)]
  BY <1>1, <1>3, AcquireRefusedLeft
<1>4. CASE (lease' = lease \/ lease' = Taken(k, s, at))
           /\ c' = [c EXCEPT ![k] = SkipLease(k, c[k], s)]
  BY <1>1, <1>4, AcquireOutageLeft
<1> QED  BY <1>2, <1>3, <1>4 DEF Acquire

LEMMA LeftStep == ASSUME IInv, LeftInv, [Next]_vars PROVE LeftInv'
<1>1. ASSUME NEW k \in Calls, Step(k) PROVE LeftInv'
  BY <1>1, ReadUsageLeft, ReserveLeft, StartEmbeddingLeft, StartLogLeft, AcquireLeft,
     CheckRateLeft, RequestLeft, LeaveLeft, FreeLeft, UnreserveLeft, EndTransactionLeft
  DEF Step
<1>2. ASSUME NEW k \in Calls, Crash(k) PROVE LeftInv'
  BY <1>2, CrashLeft
<1>3. CASE Tick \/ UNCHANGED vars
  BY <1>3 DEF Tick, vars, LeftInv, Accounted
<1> QED  BY <1>1, <1>2, <1>3 DEF Next

LEMMA LeftInit == ASSUME Init PROVE LeftInv
<1>1. /\ NewCall.pc = "idle" /\ NewCall.claim = 0
  BY DEF NewCall
<1>2. \A k \in Calls : UserOf[k] \in Users
  BY ScopeFacts
<1> QED  BY <1>1, <1>2 DEF Init, LeftInv, Bare, Accounted

(* A call that returned or raised has no lease and no reservation in       *)
(* Redis, unless Redis failed it or it is an embedding whose log row could *)
(* not be inserted (the finally blocks of engine.run_chat and              *)
(* run_embedding).                                                         *)
THEOREM NothingLeftBehindAlways == Spec => []NothingLeftBehind
<1>1. Init => LeftInv
  BY LeftInit
<1>2. IInv /\ LeftInv /\ [Next]_vars => LeftInv'
  BY LeftStep
<1>3. IInv /\ LeftInv => NothingLeftBehind
  <2> SUFFICES ASSUME IInv, LeftInv, NEW k \in Calls,
                      c[k].pc \in {"open", "end"}, ~c[k].degraded, ~c[k].leaked
               PROVE  /\ \A s \in Scopes : \A e \in lease[s] : e.call # k
                      /\ \A r \in ledger[UserOf[k]] : r.call # k
    BY DEF NothingLeftBehind
  <2>1. c[k].user = {} /\ c[k].slots = {} /\ c[k].claim = 0
        /\ Accounted(lease, ledger, k, c[k])
    BY LeftFacts DEF Sane, Trying, Bare
  <2> QED  BY <2>1 DEF Accounted, Knows, ScopesOf
<1> QED  BY <1>1, <1>2, <1>3, Invariant, PTL DEF Spec

-----------------------------------------------------------------------------
(* Sums over finite sets.  The tokens of claims are added up with the      *)
(* recursion of the community modules, in an order that CHOOSE fixes; the  *)
(* quota needs that the order does not matter and that fewer claims add up *)
(* to less.  Both are inductions, over numbers and over subsets, that rest *)
(* on the least number of a set.                                           *)

\* Every nonempty set of numbers has a least one.
LEMMA LeastNumber ==
    ASSUME NEW T \in SUBSET Nat, T # {}
    PROVE  \E n \in T : \A m \in T : n <= m
<1> DEFINE R == OpToRel(<, Nat)
<1>1. IsWellFoundedOn(R, Nat)
  BY NatLessThanWellFounded
<1>2. \A m, n \in Nat : m < n => <<m, n>> \in R
  BY DEF OpToRel
<1> HIDE DEF R
<1>3. PICK n \in T : \A m \in T : ~(<<m, n>> \in R)
  BY <1>1, WFMin
<1>4. n \in Nat /\ \A m \in T : m \in Nat
  OBVIOUS
<1>5. \A m \in T : ~(m < n)
  BY <1>2, <1>3, <1>4
<1> QED  BY <1>4, <1>5

\* Induction over the numbers, about a set of them.
LEMMA Induction ==
    ASSUME NEW S, 0 \in S, \A n \in Nat : n \in S => n + 1 \in S
    PROVE  Nat \subseteq S
<1> DEFINE T == Nat \ S
<1> SUFFICES ASSUME T # {} PROVE FALSE
  OBVIOUS
<1>1. PICK n \in T : \A m \in T : n <= m
  BY LeastNumber
<1>2. n # 0 /\ n - 1 \in Nat /\ n - 1 < n /\ n = (n - 1) + 1
  BY <1>1
<1>3. n - 1 \in S
  BY <1>1, <1>2
<1> QED  BY <1>1, <1>2, <1>3

\* g adds up what F gives for the members of a subset of D, in some order.
AddsUp(g, F, D) ==
    /\ g[{}] = 0
    /\ \A s \in SUBSET D : s # {} => \E x \in s : g[s] = F[x] + g[s \ {x}]

\* A subset of a finite set, and what is left when a member goes.
LEMMA Fewer ==
    ASSUME NEW D, IsFiniteSet(D)
    PROVE  \A s \in SUBSET D :
              /\ IsFiniteSet(s) /\ Cardinality(s) \in Nat
              /\ Cardinality(s) = 0 <=> s = {}
              /\ \A x \in s : s \ {x} \in SUBSET D
                              /\ Cardinality(s \ {x}) = Cardinality(s) - 1
<1> SUFFICES ASSUME NEW s \in SUBSET D
             PROVE  /\ IsFiniteSet(s) /\ Cardinality(s) \in Nat
                    /\ Cardinality(s) = 0 <=> s = {}
                    /\ \A x \in s : s \ {x} \in SUBSET D
                                    /\ Cardinality(s \ {x}) = Cardinality(s) - 1
  OBVIOUS
<1>1. IsFiniteSet(s) /\ Cardinality(s) \in Nat
  BY FS_Subset, FS_CardinalityType
<1>2. Cardinality(s) = 0 <=> s = {}
  BY <1>1, FS_EmptySet
<1>3. \A x \in s : Cardinality(s \ {x}) = Cardinality(s) - 1
  BY <1>1, FS_RemoveElement
<1> QED  BY <1>1, <1>2, <1>3

\* The order does not matter.
LEMMA AnyOrder ==
    ASSUME NEW D, IsFiniteSet(D), NEW F, NEW g, AddsUp(g, F, D), \A x \in D : F[x] \in Nat
    PROVE  \A s \in SUBSET D : g[s] \in Nat /\ \A x \in s : g[s] = F[x] + g[s \ {x}]
<1> DEFINE Good(s) == g[s] \in Nat /\ \A x \in s : g[s] = F[x] + g[s \ {x}]
           K == {n \in Nat : \A s \in SUBSET D : Cardinality(s) <= n => Good(s)}
<1>1. \A s \in SUBSET D :
              /\ IsFiniteSet(s) /\ Cardinality(s) \in Nat
              /\ Cardinality(s) = 0 <=> s = {}
              /\ \A x \in s : s \ {x} \in SUBSET D
                              /\ Cardinality(s \ {x}) = Cardinality(s) - 1
  BY Fewer
<1>2. 0 \in K
  <2>1. ASSUME NEW s \in SUBSET D, Cardinality(s) <= 0 PROVE s = {}
    BY <1>1, <2>1
  <2>2. Good({})
    BY DEF AddsUp
  <2> QED  BY <2>1, <2>2
<1>3. ASSUME NEW n \in Nat, n \in K PROVE n + 1 \in K
  <2> SUFFICES ASSUME NEW s \in SUBSET D, Cardinality(s) <= n + 1 PROVE Good(s)
    OBVIOUS
  <2>0. ASSUME NEW r \in SUBSET D, Cardinality(r) <= n PROVE Good(r)
    BY <1>3, <2>0
  <2>1. CASE s = {}
    BY <2>1 DEF AddsUp
  <2>2. CASE s # {}
    <3> HIDE DEF Good
    <3>1. PICK x \in s : g[s] = F[x] + g[s \ {x}]
      BY <2>2 DEF AddsUp
    <3>2. ASSUME NEW z \in s
          PROVE  /\ s \ {z} \in SUBSET D /\ F[z] \in Nat
                 /\ Cardinality(s \ {z}) <= n /\ Good(s \ {z})
      BY <1>1, <2>0
    <3>3. g[s] \in Nat
      <4>1. F[x] \in Nat /\ g[s \ {x}] \in Nat
        BY <3>2 DEF Good
      <4> QED  BY <3>1, <4>1
    <3>4. ASSUME NEW y \in s, y # x PROVE g[s] = F[y] + g[s \ {y}]
      <4>1. g[s \ {x}] = F[y] + g[(s \ {x}) \ {y}]
        BY <3>2, <3>4 DEF Good
      <4>2. g[s \ {y}] = F[x] + g[(s \ {y}) \ {x}]
        BY <3>2, <3>4 DEF Good
      <4>3. (s \ {x}) \ {y} = (s \ {y}) \ {x}
        OBVIOUS
      <4>4. F[x] \in Nat /\ F[y] \in Nat
        BY <3>2
      <4>5. g[(s \ {x}) \ {y}] \in Nat
        <5>1. /\ (s \ {x}) \ {y} \in SUBSET D /\ y \in s \ {x}
              /\ Cardinality((s \ {x}) \ {y}) = Cardinality(s \ {x}) - 1
              /\ Cardinality(s \ {x}) \in Nat /\ Cardinality(s \ {x}) <= n
          BY <1>1, <3>2, <3>4
        <5>2. Cardinality((s \ {x}) \ {y}) <= n
          BY <5>1
        <5>3. Good((s \ {x}) \ {y})
          BY <2>0, <5>1, <5>2
        <5> QED  BY <5>3 DEF Good
      <4>6. PICK m \in Nat : /\ m = g[(s \ {x}) \ {y}]
                             /\ m = g[(s \ {y}) \ {x}]
        BY <4>3, <4>5
      <4>7. g[s \ {x}] = F[y] + m /\ g[s \ {y}] = F[x] + m
        BY <4>1, <4>2, <4>6
      <4>8. F[x] + (F[y] + m) = F[y] + (F[x] + m)
        BY <4>4, <4>6
      <4> QED  BY <3>1, <4>7, <4>8
    <3> QED  BY <3>1, <3>3, <3>4 DEF Good
  <2> QED  BY <2>1, <2>2
<1> HIDE DEF K
<1>4. Nat \subseteq K
  BY <1>2, <1>3, Induction
<1>5. ASSUME NEW s \in SUBSET D PROVE Good(s)
  <2>1. Cardinality(s) \in K /\ Cardinality(s) <= Cardinality(s)
    BY <1>1, <1>4
  <2> QED  BY <2>1 DEF K
<1> QED  BY <1>5

\* Induction over the subsets of a finite set.
LEMMA SetInduction ==
    ASSUME NEW D, IsFiniteSet(D), NEW P, {} \in P,
           \A s \in SUBSET D : s # {} /\ (\A x \in s : s \ {x} \in P) => s \in P
    PROVE  SUBSET D \subseteq P
<1> DEFINE K == {n \in Nat : \A s \in SUBSET D : Cardinality(s) = n => s \in P}
<1>1. \A s \in SUBSET D :
              /\ IsFiniteSet(s) /\ Cardinality(s) \in Nat
              /\ Cardinality(s) = 0 <=> s = {}
              /\ \A x \in s : s \ {x} \in SUBSET D
                              /\ Cardinality(s \ {x}) = Cardinality(s) - 1
  BY Fewer
<1>2. 0 \in K
  BY <1>1
<1>3. ASSUME NEW n \in Nat, n \in K PROVE n + 1 \in K
  <2> SUFFICES ASSUME NEW s \in SUBSET D, Cardinality(s) = n + 1 PROVE s \in P
    OBVIOUS
  <2>1. s # {}
    BY <1>1
  <2>2. ASSUME NEW x \in s PROVE s \ {x} \in P
    <3>1. s \ {x} \in SUBSET D /\ Cardinality(s \ {x}) = n
      BY <1>1
    <3> QED  BY <1>3, <3>1
  <2> QED  BY <2>1, <2>2
<1> HIDE DEF K
<1>4. Nat \subseteq K
  BY <1>2, <1>3, Induction
<1> QED  BY <1>1, <1>4 DEF K

\* Two sums of the same numbers agree where both are defined.
LEMMA SameSum ==
    ASSUME NEW D, NEW E, IsFiniteSet(E), D \subseteq E, NEW F, \A x \in E : F[x] \in Nat,
           NEW g, AddsUp(g, F, D), NEW h, AddsUp(h, F, E)
    PROVE  \A s \in SUBSET D : g[s] = h[s]
<1> DEFINE P == {s \in SUBSET D : g[s] = h[s]}
<1>1. IsFiniteSet(D)
  BY FS_Subset
<1>2. {} \in P
  BY DEF AddsUp
<1>3. ASSUME NEW s \in SUBSET D, s # {}, \A x \in s : s \ {x} \in P PROVE s \in P
  <2>1. PICK x \in s : g[s] = F[x] + g[s \ {x}]
    BY <1>3 DEF AddsUp
  <2>2. s \in SUBSET E
    OBVIOUS
  <2>3. h[s] = F[x] + h[s \ {x}]
    BY <2>2, AnyOrder
  <2> QED  BY <1>3, <2>1, <2>3
<1> HIDE DEF P
<1>4. SUBSET D \subseteq P
  BY <1>1, <1>2, <1>3, SetInduction
<1> QED  BY <1>4 DEF P

\* More members, no smaller a sum.
LEMMA MoreAddsUp ==
    ASSUME NEW D, IsFiniteSet(D), NEW F, \A x \in D : F[x] \in Nat, NEW g, AddsUp(g, F, D),
           NEW s \in SUBSET D, NEW r \in SUBSET s
    PROVE  g[r] <= g[s]
<1> DEFINE P == {q \in SUBSET D : r \subseteq q => g[r] <= g[q]}
<1>1. \A q \in SUBSET D : g[q] \in Nat /\ \A x \in q : g[q] = F[x] + g[q \ {x}]
  BY AnyOrder
<1>2. {} \in P
  <2>1. r \subseteq {} => r = {}
    OBVIOUS
  <2>2. g[{}] <= g[{}]
    BY DEF AddsUp
  <2> QED  BY <2>1, <2>2
<1>3. ASSUME NEW q \in SUBSET D, q # {}, \A x \in q : q \ {x} \in P PROVE q \in P
  <2> SUFFICES ASSUME r \subseteq q, r # q PROVE g[r] <= g[q]
    BY <1>1
  <2>1. PICK x \in q : x \notin r
    OBVIOUS
  <2>2. q \ {x} \in SUBSET D /\ r \subseteq q \ {x} /\ r \in SUBSET D
    BY <2>1
  <2>3. g[r] <= g[q \ {x}]
    BY <1>3, <2>2
  <2>4. g[r] \in Nat /\ g[q \ {x}] \in Nat /\ F[x] \in Nat /\ g[q] = F[x] + g[q \ {x}]
    BY <1>1, <2>2
  <2> QED  BY <2>3, <2>4
<1> HIDE DEF P
<1>4. SUBSET D \subseteq P
  BY <1>2, <1>3, SetInduction
<1> QED  BY <1>4 DEF P

\* The sum over the images of distinct members.
LEMMA SumOfImages ==
    ASSUME NEW D, IsFiniteSet(D), NEW F, \A x \in D : F[x] \in Nat, NEW g, AddsUp(g, F, D),
           NEW E, IsFiniteSet(E), NEW G, \A y \in E : G[y] \in Nat, NEW h, AddsUp(h, G, E),
           NEW J, \A x \in D : J[x] \in E /\ G[J[x]] = F[x],
           \A x, z \in D : J[x] = J[z] => x = z
    PROVE  g[D] <= h[E]
<1> DEFINE Image(s) == {J[x] : x \in s}
           P == {s \in SUBSET D : g[s] = h[Image(s)]}
<1>1. \A s \in SUBSET D : g[s] \in Nat /\ \A x \in s : g[s] = F[x] + g[s \ {x}]
  BY AnyOrder
<1>2. \A s \in SUBSET E : h[s] \in Nat /\ \A y \in s : h[s] = G[y] + h[s \ {y}]
  BY AnyOrder
<1>3. {} \in P
  <2>1. Image({}) = {}
    OBVIOUS
  <2> QED  BY <2>1 DEF AddsUp
<1>4. ASSUME NEW s \in SUBSET D, s # {}, \A x \in s : s \ {x} \in P PROVE s \in P
  <2>1. PICK x \in s : TRUE
    BY <1>4
  <2>2. Image(s) \in SUBSET E /\ J[x] \in Image(s)
    OBVIOUS
  <2>3. Image(s \ {x}) = Image(s) \ {J[x]}
    OBVIOUS
  <2>4. g[s \ {x}] = h[Image(s \ {x})]
    BY <1>4
  <2> HIDE DEF Image
  <2>5. h[Image(s)] = G[J[x]] + h[Image(s) \ {J[x]}]
    BY <1>2, <2>2
  <2>6. g[s] = F[x] + g[s \ {x}] /\ F[x] = G[J[x]]
    BY <1>1
  <2>7. g[s] = h[Image(s)]
    BY <2>3, <2>4, <2>5, <2>6
  <2> QED  BY <2>7
<1> HIDE DEF P
<1>5. SUBSET D \subseteq P
  BY <1>3, <1>4, SetInduction
<1>6. g[D] = h[Image(D)] /\ Image(D) \in SUBSET E
  BY <1>5 DEF P
<1> HIDE DEF Image
<1>7. h[Image(D)] <= h[E]
  BY <1>6, MoreAddsUp
<1> QED  BY <1>6, <1>7

\* g solves the recursion of MapThenFoldSet, where C chooses.
Solves(g, F, C, D) ==
    /\ g[{}] = 0
    /\ \A s \in SUBSET D : s # {} => g[s] = F[C[s]] + g[s \ {C[s]}]
    /\ g = [s \in SUBSET D |-> g[s]]

\* C chooses a member of each nonempty subset.
Chooses(C, D) == \A s \in SUBSET D : s # {} => C[s] \in s

\* The recursion of MapThenFoldSet has a solution on a finite set.
LEMMA SumExists ==
    ASSUME NEW D, IsFiniteSet(D), NEW F, \A x \in D : F[x] \in Nat,
           NEW C, Chooses(C, D)
    PROVE  \E g : Solves(g, F, C, D)
<1> DEFINE rhs(g, s) == IF s = {} THEN 0 ELSE F[C[s]] + g[s \ {C[s]}]
           Upto(g, n) == \A s \in SUBSET D : Cardinality(s) <= n => g[s] = rhs(g, s)
           K == {n \in Nat : \E g \in [SUBSET D -> Nat] : Upto(g, n)}
<1>1. \A s \in SUBSET D :
              /\ IsFiniteSet(s) /\ Cardinality(s) \in Nat
              /\ Cardinality(s) = 0 <=> s = {}
              /\ \A x \in s : s \ {x} \in SUBSET D
                              /\ Cardinality(s \ {x}) = Cardinality(s) - 1
  BY Fewer
<1>2. 0 \in K
  <2> DEFINE g == [s \in SUBSET D |-> 0]
  <2>1. \A s \in SUBSET D : Cardinality(s) <= 0 => s = {}
    BY <1>1
  <2>2. Upto(g, 0)
    BY <2>1
  <2> QED  BY <2>2
<1>3. ASSUME NEW n \in Nat, n \in K PROVE n + 1 \in K
  <2>1. PICK g \in [SUBSET D -> Nat] : Upto(g, n)
    BY <1>3
  <2> DEFINE h == [s \in SUBSET D |-> rhs(g, s)]
  <2>2. ASSUME NEW s \in SUBSET D PROVE rhs(g, s) \in Nat
    <3>1. CASE s = {}
      BY <3>1
    <3>2. CASE s # {}
      <4>1. C[s] \in s /\ s \ {C[s]} \in SUBSET D /\ C[s] \in D
        BY <3>2 DEF Chooses
      <4>2. F[C[s]] \in Nat /\ g[s \ {C[s]}] \in Nat
        BY <4>1
      <4> QED  BY <3>2, <4>2
    <3> QED  BY <3>1, <3>2
  <2>3. h \in [SUBSET D -> Nat]
    BY <2>2
  <2>4. ASSUME NEW s \in SUBSET D, Cardinality(s) <= n + 1 PROVE h[s] = rhs(h, s)
    <3>1. CASE s = {}
      BY <3>1
    <3>2. CASE s # {}
      <4>1. C[s] \in s /\ s \ {C[s]} \in SUBSET D /\ Cardinality(s \ {C[s]}) <= n
        BY <1>1, <2>4, <3>2 DEF Chooses
      <4>2. g[s \ {C[s]}] = rhs(g, s \ {C[s]})
        BY <2>1, <4>1
      <4>3. h[s \ {C[s]}] = rhs(g, s \ {C[s]})
        BY <4>1
      <4>4. h[s] = F[C[s]] + g[s \ {C[s]}]
        BY <3>2
      <4> HIDE DEF h
      <4> QED  BY <3>2, <4>2, <4>3, <4>4
    <3> QED  BY <3>1, <3>2
  <2> HIDE DEF h, rhs
  <2>5. Upto(h, n + 1)
    BY <2>4
  <2> HIDE DEF Upto
  <2> QED  BY <2>3, <2>5
<1> HIDE DEF K
<1>4. Nat \subseteq K
  BY <1>2, <1>3, Induction
<1>5. Cardinality(D) \in Nat /\ \A s \in SUBSET D : Cardinality(s) <= Cardinality(D)
  BY FS_Subset, FS_CardinalityType
<1>6. PICK g \in [SUBSET D -> Nat] : Upto(g, Cardinality(D))
  BY <1>4, <1>5 DEF K
<1>7. \A s \in SUBSET D : g[s] = rhs(g, s)
  BY <1>5, <1>6
<1>8. Solves(g, F, C, D)
  BY <1>7 DEF Solves
<1> QED  BY <1>8

\* What each claim or log row of S has of tokens.
TokensIn(S) == [r \in S |-> r.tokens]

\* For a record field that is a number.
LEMMA SumOfTokens ==
    ASSUME NEW S, IsFiniteSet(S), \A r \in S : r.tokens \in Nat
    PROVE  \E g : /\ Tokens(S) = g[S]
                  /\ AddsUp(g, TokensIn(S), S)
<1> DEFINE F == [r \in S |-> r.tokens]
           C == [s \in SUBSET S |-> CHOOSE x \in s : TRUE]
           Def(g) == g = [s \in SUBSET S |->
                          IF s = {} THEN 0
                          ELSE (CHOOSE x \in s : TRUE).tokens + g[s \ {CHOOSE x \in s : TRUE}]]
           sum == CHOOSE g : Def(g)
<1>1. \A s \in SUBSET S : s # {} => (CHOOSE x \in s : TRUE) \in s
  OBVIOUS
<1>2. PICK g : Solves(g, F, C, S)
  <2>1. Chooses(C, S)
    BY <1>1 DEF Chooses
  <2>2. \A x \in S : F[x] \in Nat
    OBVIOUS
  <2> HIDE DEF F, C, Def, sum
  <2> QED  BY <2>1, <2>2, SumExists
<1>3. ASSUME NEW s \in SUBSET S, s # {}
      PROVE  F[C[s]] + g[s \ {C[s]}]
               = (CHOOSE x \in s : TRUE).tokens + g[s \ {CHOOSE x \in s : TRUE}]
  <2>1. C[s] = CHOOSE x \in s : TRUE
    OBVIOUS
  <2>2. F[CHOOSE x \in s : TRUE] = (CHOOSE x \in s : TRUE).tokens
    BY <1>1, <1>3
  <2> QED  BY <2>1, <2>2
<1>4. Def(g)
  BY <1>2, <1>3 DEF Solves
<1>5. Def(sum)
  BY <1>4
<1>6. Tokens(S) = sum[S]
  BY DEF Tokens, MapThenSumSet, MapThenFoldSet
<1>7. AddsUp(sum, TokensIn(S), S)
  <2> HIDE DEF sum
  <2>1. sum[{}] = 0
    BY <1>5
  <2>2. ASSUME NEW s \in SUBSET S, s # {}
        PROVE  \E x \in s : sum[s] = F[x] + sum[s \ {x}]
    <3> DEFINE x == CHOOSE x \in s : TRUE
    <3>1. sum[s] = x.tokens + sum[s \ {x}]
      BY <1>5, <2>2
    <3>2. x \in s /\ F[x] = x.tokens
      BY <1>1, <2>2
    <3> HIDE DEF x
    <3> QED  BY <3>1, <3>2
  <2>3. F = TokensIn(S)
    BY DEF TokensIn
  <2> HIDE DEF F
  <2> QED  BY <2>1, <2>2, <2>3 DEF AddsUp
<1> QED  BY <1>6, <1>7

\* The same for what calls reserve of their quota.
LEMMA SumOfEstimates ==
    ASSUME NEW S \in SUBSET Chats, IsFiniteSet(S)
    PROVE  \E g : /\ MapThenSumSet(LAMBDA k : Estimate[k], S) = g[S]
                  /\ AddsUp(g, Estimate, S)
<1> DEFINE C == [s \in SUBSET S |-> CHOOSE x \in s : TRUE]
           Def(g) == g = [s \in SUBSET S |->
                          IF s = {} THEN 0
                          ELSE Estimate[CHOOSE x \in s : TRUE] + g[s \ {CHOOSE x \in s : TRUE}]]
           sum == CHOOSE g : Def(g)
<1>1. \A s \in SUBSET S : s # {} => (CHOOSE x \in s : TRUE) \in s
  OBVIOUS
<1>2. PICK g : Solves(g, Estimate, C, S)
  <2>1. Chooses(C, S)
    BY <1>1 DEF Chooses
  <2>2. \A x \in S : Estimate[x] \in Nat
    BY CallsAssumption
  <2> HIDE DEF C, Def, sum
  <2> QED  BY <2>1, <2>2, SumExists
<1>3. Def(g)
  <2>1. \A s \in SUBSET S : C[s] = CHOOSE x \in s : TRUE
    OBVIOUS
  <2> HIDE DEF C
  <2> QED  BY <1>2, <2>1 DEF Solves
<1>4. Def(sum)
  BY <1>3
<1>5. MapThenSumSet(LAMBDA k : Estimate[k], S) = sum[S]
  BY DEF MapThenSumSet, MapThenFoldSet
<1>6. AddsUp(sum, Estimate, S)
  <2> HIDE DEF sum
  <2>1. sum[{}] = 0
    BY <1>4
  <2>2. ASSUME NEW s \in SUBSET S, s # {}
        PROVE  \E x \in s : sum[s] = Estimate[x] + sum[s \ {x}]
    <3> DEFINE x == CHOOSE x \in s : TRUE
    <3>1. sum[s] = Estimate[x] + sum[s \ {x}]
      BY <1>4, <2>2
    <3>2. x \in s
      BY <1>1, <2>2
    <3> HIDE DEF x
    <3> QED  BY <3>1, <3>2
  <2> QED  BY <2>1, <2>2 DEF AddsUp
<1> QED  BY <1>5, <1>6

\* One function gives the tokens of all subsets.
LEMMA TokensOf ==
    ASSUME NEW S, IsFiniteSet(S), \A r \in S : r.tokens \in Nat
    PROVE  \E h : /\ AddsUp(h, TokensIn(S), S)
                  /\ \A T \in SUBSET S : Tokens(T) = h[T]
<1>1. PICK h : /\ Tokens(S) = h[S]
               /\ AddsUp(h, TokensIn(S), S)
  BY SumOfTokens
<1>2. ASSUME NEW T \in SUBSET S PROVE Tokens(T) = h[T]
  <2>1. IsFiniteSet(T)
    BY FS_Subset
  <2>2. PICK g : /\ Tokens(T) = g[T]
                 /\ AddsUp(g, TokensIn(T), T)
    BY <2>1, SumOfTokens
  <2>3. \A x \in T : TokensIn(T)[x] = TokensIn(S)[x]
    BY DEF TokensIn
  <2>4. AddsUp(g, TokensIn(S), T)
    BY <2>2, <2>3 DEF AddsUp
  <2>5. \A x \in S : TokensIn(S)[x] \in Nat
    BY DEF TokensIn
  <2>6. \A s \in SUBSET T : g[s] = h[s]
    BY <1>1, <2>4, <2>5, SameSum
  <2> QED  BY <2>2, <2>6
<1> QED  BY <1>1, <1>2

\* The tokens of a set of claims or of log rows.
LEMMA TokensFacts ==
    ASSUME NEW S, IsFiniteSet(S), \A r \in S : r.tokens \in Nat
    PROVE  /\ Tokens(S) \in Nat
           /\ Tokens({}) = 0
           /\ \A T \in SUBSET S : Tokens(T) \in Nat /\ Tokens(T) <= Tokens(S)
           /\ \A x \in S : Tokens(S) = x.tokens + Tokens(S \ {x})
<1> DEFINE F == TokensIn(S)
<1>1. PICK h : AddsUp(h, F, S) /\ \A T \in SUBSET S : Tokens(T) = h[T]
  BY TokensOf
<1>2. \A x \in S : F[x] = x.tokens /\ F[x] \in Nat
  BY DEF TokensIn
<1> HIDE DEF F
<1>3. \A s \in SUBSET S : h[s] \in Nat /\ \A x \in s : h[s] = F[x] + h[s \ {x}]
  BY <1>1, <1>2, AnyOrder
<1>4. \A T \in SUBSET S : h[T] <= h[S]
  BY <1>1, <1>2, MoreAddsUp
<1>5. h[{}] = 0
  BY <1>1 DEF AddsUp
<1>6. ASSUME NEW x \in S PROVE Tokens(S) = x.tokens + Tokens(S \ {x})
  <2>1. Tokens(S) = h[S] /\ Tokens(S \ {x}) = h[S \ {x}]
    BY <1>1
  <2> QED  BY <1>2, <1>3, <2>1
<1> QED  BY <1>1, <1>3, <1>4, <1>5, <1>6

-----------------------------------------------------------------------------
(* The quota.  A call that holds a reservation finds it among the live     *)
(* claims of its user, and these fit the quota whatever was read of the    *)
(* committed usage: that is the invariant QuotaInv.                        *)

\* A set of claims that a quota allows.
WithinQuota(S) ==
    /\ RequestLimit > 0 => Cardinality(S) <= RequestLimit
    /\ TokenLimit > 0 => Tokens(S) <= TokenLimit

\* The reservation of the call k.
ClaimOf(k, exp) == [call |-> k, tokens |-> Estimate[k], exp |-> exp]

\* The invariant.
QuotaInv ==
    /\ IsFiniteSet(db)
    /\ \A k \in Calls : IsFiniteSet(c[k].read)
    /\ \A k \in Calls : c[k].claim > now =>
          k \in Chats /\ ClaimOf(k, c[k].claim) \in ledger[UserOf[k]]
    /\ \A u \in Users : IsFiniteSet(ledger[u]) /\ WithinQuota(LiveClaims(u))

\* Fewer claims stay within a quota.
LEMMA FewerClaims ==
    ASSUME NEW S, IsFiniteSet(S), \A r \in S : r.tokens \in Nat, WithinQuota(S),
           NEW T \in SUBSET S
    PROVE  WithinQuota(T)
<1>1. /\ Cardinality(T) <= Cardinality(S)
      /\ Cardinality(T) \in Nat /\ Cardinality(S) \in Nat
  BY FS_Subset, FS_CardinalityType
<1>2. Tokens(T) \in Nat /\ Tokens(S) \in Nat /\ Tokens(T) <= Tokens(S)
  BY TokensFacts
<1> QED  BY <1>1, <1>2, LimitsAssumption DEF WithinQuota

\* Claims that expire or are given back leave a quota respected.
LEMMA QuotaShrinks ==
    ASSUME IInv, QuotaInv, \A u \in Users : ledger'[u] \subseteq ledger[u],
           now' \in Nat, now <= now'
    PROVE  \A u \in Users : IsFiniteSet(ledger'[u]) /\ WithinQuota(LiveClaims(u)')
<1> SUFFICES ASSUME NEW u \in Users
             PROVE  IsFiniteSet(ledger'[u]) /\ WithinQuota(LiveClaims(u)')
  OBVIOUS
<1>1. /\ IsFiniteSet(ledger[u]) /\ WithinQuota(LiveClaims(u)) /\ now \in Nat
      /\ ledger[u] \subseteq Claim
  BY DEF QuotaInv, IInv, Others
<1>2. IsFiniteSet(ledger'[u])
  BY <1>1, FS_Subset
<1>3. LiveClaims(u)' \in SUBSET LiveClaims(u)
  BY <1>1 DEF LiveClaims, Claim
<1>4. IsFiniteSet(LiveClaims(u)) /\ \A r \in LiveClaims(u) : r.tokens \in Nat
  BY <1>1, FS_Subset DEF LiveClaims, Claim
<1> HIDE DEF LiveClaims
<1>5. WithinQuota(LiveClaims(u)')
  BY <1>1, <1>3, <1>4, FewerClaims
<1> QED  BY <1>2, <1>5

\* A step of the call k, which touches no reservation of another call.
LEMMA QuotaCall ==
    ASSUME IInv, QuotaInv, NEW k \in Calls, NEW r, c' = [c EXCEPT ![k] = r],
           now' = now, IsFiniteSet(db'), IsFiniteSet(r.read),
           r.claim > now => k \in Chats /\ ClaimOf(k, r.claim) \in ledger'[UserOf[k]],
           \A u \in Users : \A q \in LiveClaims(u) : q.call # k => q \in ledger'[u],
           \A u \in Users : IsFiniteSet(ledger'[u]) /\ WithinQuota(LiveClaims(u)')
    PROVE  QuotaInv'
<1>1. c \in [Calls -> CallState]
  BY DEF IInv, CallsInv
<1>2. c'[k] = r /\ \A j \in Calls \ {k} : c'[j] = c[j]
  BY <1>1
<1>3. ASSUME NEW j \in Calls
      PROVE  /\ IsFiniteSet(c'[j].read)
             /\ c'[j].claim > now =>
                   j \in Chats /\ ClaimOf(j, c'[j].claim) \in ledger'[UserOf[j]]
  <2>1. CASE j = k
    BY <1>2, <2>1
  <2>2. CASE j # k
    <3>1. c'[j] = c[j] /\ IsFiniteSet(c[j].read) /\ UserOf[j] \in Users
      BY <1>2, <2>2, ScopeFacts DEF QuotaInv
    <3>2. ASSUME c[j].claim > now PROVE ClaimOf(j, c[j].claim) \in ledger'[UserOf[j]]
      <4> DEFINE q == ClaimOf(j, c[j].claim)
      <4>1. q \in ledger[UserOf[j]]
        BY <3>2 DEF QuotaInv
      <4>2. q.exp = c[j].claim /\ q.call = j
        BY DEF ClaimOf
      <4>3. q \in LiveClaims(UserOf[j])
        BY <3>2, <4>1, <4>2 DEF LiveClaims
      <4> QED  BY <2>2, <3>1, <4>2, <4>3
    <3>3. c[j].claim > now => j \in Chats
      BY DEF QuotaInv
    <3> QED  BY <3>1, <3>2, <3>3
  <2> QED  BY <2>1, <2>2
<1> QED  BY <1>3 DEF QuotaInv

\* What the call has reserved and read, it keeps or forgets.
Keeps(k, r) == r.claim \in {0, c[k].claim} /\ r.read \in {{}, c[k].read}

\* What is known of a call that reserves.
LEMMA QuotaFacts ==
    ASSUME IInv, QuotaInv, NEW k \in Calls
    PROVE  /\ c[k] \in CallState /\ c[k].claim \in Nat /\ IsFiniteSet(c[k].read)
           /\ now \in Nat /\ UserOf[k] \in Users /\ IsFiniteSet(db)
           /\ ledger \in [Users -> SUBSET Claim] /\ c \in [Calls -> CallState]
           /\ c[k].claim > now => k \in Chats /\ ClaimOf(k, c[k].claim) \in ledger[UserOf[k]]
           /\ Sane(k, c[k], now) /\ (k \in Chats <=> k \notin Embeds)
  BY CallFacts, ScopeFacts DEF QuotaInv, IInv, CallsInv, Others, CallState

\* A step that leaves the reservations alone.
LEMMA QuotaQuiet ==
    ASSUME IInv, QuotaInv, NEW k \in Calls, NEW r, c' = [c EXCEPT ![k] = r],
           ledger' = ledger, db' = db, now' = now, Keeps(k, r)
    PROVE  QuotaInv'
<1>1. /\ IsFiniteSet(db) /\ IsFiniteSet(r.read)
  BY QuotaFacts, FS_EmptySet DEF Keeps
<1>2. r.claim > now => k \in Chats /\ ClaimOf(k, r.claim) \in ledger'[UserOf[k]]
  BY QuotaFacts DEF Keeps
<1>3. \A u \in Users : LiveClaims(u) \subseteq ledger[u] /\ LiveClaims(u)' = LiveClaims(u)
  BY DEF LiveClaims
<1>4. \A u \in Users : IsFiniteSet(ledger[u]) /\ WithinQuota(LiveClaims(u))
  BY DEF QuotaInv
<1> HIDE DEF LiveClaims
<1>5. \A u \in Users : IsFiniteSet(ledger'[u]) /\ WithinQuota(LiveClaims(u)')
  BY <1>3, <1>4
<1>6. \A u \in Users : \A q \in LiveClaims(u) : q.call # k => q \in ledger'[u]
  BY <1>3
<1> QED  BY <1>1, <1>2, <1>5, <1>6, QuotaCall

\* What the ways a call goes on do to its reservation and its reading.
LEMMA CallKeeps ==
    ASSUME NEW k \in Calls, NEW r \in CallState
    PROVE  /\ \A phase, S : Acquiring(k, r, phase, S).claim = r.claim
                            /\ Acquiring(k, r, phase, S).read = r.read
           /\ \A pc : Over(r, pc).claim = 0 /\ Over(r, pc).read = {}
           /\ \A x \in After(k, r) : x.claim = r.claim /\ x.read = r.read
           /\ \A left : Onward(k, r, left).claim = r.claim
                        /\ Onward(k, r, left).read = r.read
           /\ Noted(r).claim = r.claim /\ Noted(r).read = r.read
<1>1. ASSUME NEW phase, NEW S
      PROVE  Acquiring(k, r, phase, S).claim = r.claim
             /\ Acquiring(k, r, phase, S).read = r.read
  <2>1. CASE Limited(S) = {}
    BY <2>1 DEF Acquiring, CallState
  <2>2. CASE Limited(S) # {}
    BY <2>2 DEF Acquiring, CallState
  <2> QED  BY <2>1, <2>2
<1>2. \A pc : Over(r, pc).claim = 0 /\ Over(r, pc).read = {}
  BY DEF Over, NewCall
<1>3. \A x \in After(k, r) : x.claim = r.claim /\ x.read = r.read
  BY DEF After, CallState
<1>4. \A left : Onward(k, r, left).claim = r.claim /\ Onward(k, r, left).read = r.read
  BY DEF Onward, CallState
<1>5. Noted(r).claim = r.claim /\ Noted(r).read = r.read
  BY DEF Noted, CallState
<1> QED  BY <1>1, <1>2, <1>3, <1>4, <1>5

LEMMA QuotaReadUsage ==
    ASSUME IInv, QuotaInv, NEW k \in Calls, ReadUsage(k) PROVE QuotaInv'
<1>1. /\ ledger' = ledger /\ db' = db /\ now' = now /\ c[k] \in CallState
      /\ c \in [Calls -> CallState]
  BY QuotaFacts DEF ReadUsage
<1>2. CASE RequestLimit = 0 /\ TokenLimit = 0
  <2> DEFINE x == Acquiring(k, c[k], "user", UserScopes(k))
  <2>1. Keeps(k, x)
    BY <1>1, CallKeeps DEF Keeps
  <2>2. c' = [c EXCEPT ![k] = x]
    BY <1>2 DEF ReadUsage
  <2> HIDE DEF x
  <2> QED  BY <1>1, <2>1, <2>2, QuotaQuiet
<1>3. CASE ~(RequestLimit = 0 /\ TokenLimit = 0)
  <2> DEFINE x == [c[k] EXCEPT !.pc = "reserve", !.read = Committed(UserOf[k])]
  <2>1. c' = [c EXCEPT ![k] = x]
    BY <1>3 DEF ReadUsage
  <2>2. x.read = Committed(UserOf[k]) /\ x.claim = c[k].claim
    BY <1>1 DEF CallState
  <2>3. IsFiniteSet(db) /\ IsFiniteSet(x.read)
    BY <2>2, QuotaFacts, FS_Subset DEF Committed
  <2> HIDE DEF x
  <2>4. x.claim > now => k \in Chats /\ ClaimOf(k, x.claim) \in ledger'[UserOf[k]]
    BY <1>1, <2>2, QuotaFacts
  <2>5. \A u \in Users : /\ LiveClaims(u) \subseteq ledger[u]
                         /\ LiveClaims(u)' = LiveClaims(u)
    BY <1>1 DEF LiveClaims
  <2>6. \A u \in Users : IsFiniteSet(ledger[u]) /\ WithinQuota(LiveClaims(u))
    BY DEF QuotaInv
  <2> HIDE DEF LiveClaims
  <2>7. \A u \in Users : IsFiniteSet(ledger'[u]) /\ WithinQuota(LiveClaims(u)')
    BY <1>1, <2>5, <2>6
  <2>8. \A u \in Users : \A q \in LiveClaims(u) : q.call # k => q \in ledger'[u]
    BY <1>1, <2>5
  <2> QED  BY <1>1, <2>1, <2>3, <2>4, <2>7, <2>8, QuotaCall
<1> QED  BY <1>2, <1>3

LEMMA QuotaStart ==
    ASSUME IInv, QuotaInv, NEW k \in Calls, StartEmbedding(k) \/ StartLog(k)
    PROVE  QuotaInv'
<1>1. /\ ledger' = ledger /\ db' = db /\ now' = now /\ c[k] \in CallState
  BY QuotaFacts DEF StartEmbedding, StartLog
<1>2. [c[k] EXCEPT !.leaked = TRUE] \in CallState
  BY <1>1 DEF CallState
<1>3. PICK x : /\ c' = [c EXCEPT ![k] = x]
               /\ \/ x = [c[k] EXCEPT !.pc = "rate", !.t = 1]
                  \/ x = [c[k] EXCEPT !.log = "running", !.t = 1,
                                      !.pc = IF k \in Chats THEN "rate" ELSE "dial"]
                  \/ x = [c[k] EXCEPT !.pc = "free"]
                  \/ x = Over([c[k] EXCEPT !.leaked = TRUE], "end")
  BY DEF StartEmbedding, StartLog
<1>4. Keeps(k, x)
  <2>1. CASE x = Over([c[k] EXCEPT !.leaked = TRUE], "end")
    <3> DEFINE z == [c[k] EXCEPT !.leaked = TRUE]
    <3>1. z \in CallState /\ x = Over(z, "end")
      BY <1>2, <2>1
    <3> HIDE DEF z
    <3>2. x.claim = 0 /\ x.read = {}
      BY <3>1, CallKeeps
    <3> QED  BY <3>2 DEF Keeps
  <2>2. CASE x # Over([c[k] EXCEPT !.leaked = TRUE], "end")
    <3> DEFINE pc == IF k \in Chats THEN "rate" ELSE "dial"
    <3>1. CASE x = [c[k] EXCEPT !.pc = "rate", !.t = 1]
      BY <1>1, <3>1 DEF Keeps, CallState
    <3>2. CASE x = [c[k] EXCEPT !.log = "running", !.t = 1, !.pc = pc]
      <4> HIDE DEF pc
      <4> QED  BY <1>1, <3>2 DEF Keeps, CallState
    <3>3. CASE x = [c[k] EXCEPT !.pc = "free"]
      BY <1>1, <3>3 DEF Keeps, CallState
    <3> QED  BY <1>3, <2>2, <3>1, <3>2, <3>3
  <2> QED  BY <2>1, <2>2
<1> QED  BY <1>1, <1>3, <1>4, QuotaQuiet

LEMMA QuotaAcquire ==
    ASSUME IInv, QuotaInv, NEW k \in Calls, Acquire(k) PROVE QuotaInv'
<1> DEFINE s == First(c[k].need)
           y == [c[k] EXCEPT !.degraded = TRUE]
           left == c[k].need \ {s}
<1>1. /\ ledger' = ledger /\ db' = db /\ now' = now /\ c[k] \in CallState
      /\ c[k].pc \in {"user", "slots"} /\ (k \in Chats <=> k \notin Embeds)
  BY QuotaFacts DEF Acquire
<1>2. CASE c' = [c EXCEPT ![k] = HaveLease(k, c[k], s)]
  <2> DEFINE h == {[scope |-> s, exp |-> c[k].clock + TTL]}
             r == IF c[k].pc = "user" THEN [c[k] EXCEPT !.user = c[k].user \cup h]
                  ELSE [c[k] EXCEPT !.slots = c[k].slots \cup h]
             x == Onward(k, r, left)
  <2>1. r.claim = c[k].claim /\ r.read = c[k].read
    BY <1>1 DEF CallState
  <2>2. c' = [c EXCEPT ![k] = x]
    BY <1>2 DEF HaveLease
  <2>3. x.claim = r.claim /\ x.read = r.read
    <3>1. r.claim = r.claim /\ DOMAIN r = DOMAIN c[k]
      BY <1>1 DEF CallState
    <3>2. x = [r EXCEPT !.need = left,
                        !.pc = IF left = {} THEN Admitted(k, r.pc) ELSE r.pc]
      BY DEF Onward
    <3>3. {"claim", "read"} \subseteq DOMAIN r
      BY <1>1, <3>1 DEF CallState
    <3> QED  BY <3>2, <3>3
  <2> HIDE DEF x, r
  <2> QED  BY <1>1, <2>1, <2>2, <2>3, QuotaQuiet DEF Keeps
<1>3. CASE \E r \in Refused(k) : c' = [c EXCEPT ![k] = Noted(r)]
  <2>1. PICK r \in Refused(k) : c' = [c EXCEPT ![k] = Noted(r)]
    BY <1>3
  <2>2. r \in CallState /\ Keeps(k, r)
    <3>1. CASE c[k].pc = "user"
      <4>1. r = [c[k] EXCEPT !.pc = "unreserve", !.need = {}]
        BY <2>1, <3>1 DEF Refused
      <4> QED  BY <1>1, <4>1 DEF CallState, Phases, Keeps
    <3>2. CASE c[k].pc = "slots" /\ k \in Chats
      <4> DEFINE q == [c[k] EXCEPT !.need = {}, !.slots = {}]
      <4>1. r \in After(k, q)
        BY <2>1, <3>2 DEF Refused
      <4>2. q \in CallState /\ q.claim = c[k].claim /\ q.read = c[k].read
        BY <1>1 DEF CallState
      <4> HIDE DEF q
      <4>3. r \in CallState
        BY <4>1, <4>2, AfterFacts
      <4>4. r.claim = q.claim /\ r.read = q.read
        BY <4>1, <4>2, CallKeeps
      <4> QED  BY <4>2, <4>3, <4>4 DEF Keeps
    <3>3. CASE c[k].pc = "slots" /\ k \in Embeds
      <4>1. r = Over(c[k], "end")
        BY <1>1, <2>1, <3>3 DEF Refused
      <4>2. now \in Nat /\ "end" \in {"open", "end", "dead"}
        BY QuotaFacts
      <4>3. Sane(k, Over(c[k], "end"), now)
        BY <1>1, <4>2, OverFacts
      <4>4. r.claim = 0 /\ r.read = {}
        BY <1>1, <4>1, CallKeeps
      <4> QED  BY <4>1, <4>3, <4>4 DEF Sane, Keeps
    <3> QED  BY <1>1, <3>1, <3>2, <3>3
  <2>3. Keeps(k, Noted(r))
    BY <2>2, CallKeeps DEF Keeps
  <2> QED  BY <1>1, <2>1, <2>3, QuotaQuiet
<1>4. CASE c' = [c EXCEPT ![k] = SkipLease(k, c[k], s)]
  <2> DEFINE x == Onward(k, y, left)
  <2>1. y \in CallState /\ y.claim = c[k].claim /\ y.read = c[k].read
    BY <1>1 DEF CallState
  <2>2. c' = [c EXCEPT ![k] = x]
    BY <1>4 DEF SkipLease
  <2> HIDE DEF y, left
  <2>3. Keeps(k, x)
    BY <2>1, CallKeeps DEF Keeps
  <2> HIDE DEF x
  <2> QED  BY <1>1, <2>2, <2>3, QuotaQuiet
<1> QED  BY <1>2, <1>3, <1>4 DEF Acquire

LEMMA QuotaCheckRate ==
    ASSUME IInv, QuotaInv, NEW k \in Calls, CheckRate(k) PROVE QuotaInv'
<1> DEFINE S == SlotScopes(k, c[k].t)
           y == [c[k] EXCEPT !.degraded = TRUE]
<1>1. /\ ledger' = ledger /\ db' = db /\ now' = now /\ c[k] \in CallState
  BY QuotaFacts DEF CheckRate
<1>2. y \in CallState /\ y.claim = c[k].claim /\ y.read = c[k].read
  BY <1>1 DEF CallState
<1> HIDE DEF S, y
<1>3. \/ c' = [c EXCEPT ![k] = Acquiring(k, c[k], "slots", S)]
      \/ \E r \in After(k, c[k]) \cup {Over(c[k], "end")} : c' = [c EXCEPT ![k] = r]
      \/ c' = [c EXCEPT ![k] = Acquiring(k, y, "slots", S)]
  BY DEF CheckRate, S, y
<1>4. /\ Keeps(k, Acquiring(k, c[k], "slots", S))
      /\ \A r \in After(k, c[k]) \cup {Over(c[k], "end")} : Keeps(k, r)
      /\ Keeps(k, Acquiring(k, y, "slots", S))
  BY <1>1, <1>2, CallKeeps DEF Keeps
<1> QED  BY <1>1, <1>3, <1>4, QuotaQuiet

LEMMA QuotaRequest ==
    ASSUME IInv, QuotaInv, NEW k \in Calls,
           Send(k) \/ Fallback(k) \/ Answer(k) \/ Retry(k) \/ Fail(k) \/ Close(k)
    PROVE  QuotaInv'
<1>1. c[k] \in CallState
  BY QuotaFacts
<1>2. ledger' = ledger /\ db' = db /\ now' = now
  BY DEF Send, Fallback, Answer, Retry, Fail, Close
<1> DEFINE Same(r) == r.claim = c[k].claim /\ r.read = c[k].read
<1>3. \E r : Same(r) /\ c' = [c EXCEPT ![k] = r]
  <2>1. CASE Send(k)
    <3>1. CASE c' = [c EXCEPT ![k] = [c[k] EXCEPT !.pc = "sent", !.clock = now,
                                                  !.stream = k \in Streams]]
      <4> DEFINE r == [c[k] EXCEPT !.pc = "sent", !.clock = now, !.stream = k \in Streams]
      <4>1. Same(r)
        BY <1>1, <2>1 DEF CallState
      <4> QED  BY <3>1, <4>1
    <3>2. ASSUME NEW then,
                 c' = [c EXCEPT ![k] = [c[k] EXCEPT !.pc = "leave", !.then = then]]
          PROVE  \E r : Same(r) /\ c' = [c EXCEPT ![k] = r]
      <4> DEFINE r == [c[k] EXCEPT !.pc = "leave", !.then = then]
      <4>1. Same(r)
        BY <1>1 DEF CallState
      <4> QED  BY <3>2, <4>1
    <3> HIDE DEF Same
    <3> QED  BY <2>1, <3>1, <3>2 DEF Send
  <2>2. CASE Fallback(k)
    <3> DEFINE r == [c[k] EXCEPT !.clock = now, !.stream = FALSE]
    <3>1. Same(r)
      BY <1>1, <2>2 DEF CallState, Fallback
    <3> QED  BY <2>2, <3>1 DEF Fallback
  <2>3. CASE Answer(k)
    <3>1. PICK n, then : c' = [c EXCEPT ![k] =
              [@ EXCEPT !.pc = "leave", !.log = "success", !.tokens = n, !.then = then]]
      BY <2>3 DEF Answer
    <3> DEFINE r == [c[k] EXCEPT !.pc = "leave", !.log = "success", !.tokens = n,
                                 !.then = then]
    <3>2. Same(r)
      BY <1>1 DEF CallState
    <3> QED  BY <3>1, <3>2
  <2>4. CASE Retry(k)
    <3> DEFINE r == [c[k] EXCEPT !.pc = "dial", !.clock = 0, !.try = NextTry(k)]
    <3>1. Same(r)
      BY <1>1 DEF CallState
    <3> QED  BY <2>4, <3>1 DEF Retry
  <2>5. CASE Fail(k)
    <3>1. PICK then : c' = [c EXCEPT ![k] =
              IF k \in Chats THEN [@ EXCEPT !.pc = "leave", !.then = then]
              ELSE [@ EXCEPT !.pc = "leave", !.log = "failed", !.then = "open"]]
      BY <2>5 DEF Fail
    <3> DEFINE r == IF k \in Chats THEN [c[k] EXCEPT !.pc = "leave", !.then = then]
                    ELSE [c[k] EXCEPT !.pc = "leave", !.log = "failed", !.then = "open"]
    <3>2. Same(r)
      BY <1>1 DEF CallState
    <3> QED  BY <3>1, <3>2
  <2>6. CASE Close(k)
    <3> DEFINE r == [c[k] EXCEPT !.pc = "free", !.log = "failed"]
    <3>1. Same(r)
      BY <1>1 DEF CallState
    <3> QED  BY <2>6, <3>1 DEF Close
  <2> QED  BY <2>1, <2>2, <2>3, <2>4, <2>5, <2>6
<1>4. PICK r : Same(r) /\ c' = [c EXCEPT ![k] = r]
  BY <1>3
<1> QED  BY <1>2, <1>4, QuotaQuiet DEF Keeps

LEMMA QuotaLeave ==
    ASSUME IInv, QuotaInv, NEW k \in Calls, Leave(k) PROVE QuotaInv'
<1> DEFINE y == [c[k] EXCEPT !.pc = c[k].then, !.then = "idle", !.slots = {}, !.clock = 0]
           r == Noted(y)
           x == CASE k \in Embeds -> Over(r, "open")
                  [] k \in Chats /\ r.pc = "rate" ->
                        [r EXCEPT !.t = r.t + 1, !.try = 0]
                  [] OTHER -> r
<1>1. /\ ledger' = ledger /\ db' = db /\ now' = now /\ c[k] \in CallState
      /\ (k \in Chats <=> k \notin Embeds)
  BY QuotaFacts DEF Leave
<1>2. c' = [c EXCEPT ![k] = x]
  BY DEF Leave
<1>3. r.claim = c[k].claim /\ r.read = c[k].read /\ r \in CallState
  BY <1>1 DEF CallState, Phases, Noted
<1> HIDE DEF r
<1>4. Keeps(k, x)
  <2>1. CASE k \in Embeds
    <3>1. x = Over(r, "open")
      BY <1>1, <2>1
    <3> HIDE DEF x
    <3> QED  BY <1>3, <3>1, CallKeeps DEF Keeps
  <2>2. CASE k \in Chats /\ r.pc = "rate"
    <3>1. x = [r EXCEPT !.t = r.t + 1, !.try = 0]
      BY <1>1, <2>2
    <3> HIDE DEF x
    <3>2. x.claim = r.claim /\ x.read = r.read
      BY <1>3, <3>1 DEF CallState
    <3> QED  BY <1>3, <3>2 DEF Keeps
  <2>3. CASE k \in Chats /\ r.pc # "rate"
    <3>1. x = r
      BY <1>1, <2>3
    <3> HIDE DEF x
    <3> QED  BY <1>3, <3>1 DEF Keeps
  <2> QED  BY <1>1, <2>1, <2>2, <2>3
<1> HIDE DEF x
<1> QED  BY <1>1, <1>2, <1>4, QuotaQuiet

LEMMA QuotaFree ==
    ASSUME IInv, QuotaInv, NEW k \in Calls, Free(k) PROVE QuotaInv'
<1> DEFINE y == [c[k] EXCEPT !.pc = "unreserve", !.user = {}]
<1>1. /\ ledger' = ledger /\ db' = db /\ now' = now /\ c[k] \in CallState
  BY QuotaFacts DEF Free
<1>2. y.claim = c[k].claim /\ y.read = c[k].read /\ y \in CallState
  BY <1>1 DEF CallState, Phases
<1>3. c' = [c EXCEPT ![k] = Noted(y)]
  BY DEF Free
<1> HIDE DEF y
<1>4. Keeps(k, Noted(y))
  BY <1>2, CallKeeps DEF Keeps
<1> QED  BY <1>1, <1>3, <1>4, QuotaQuiet

LEMMA QuotaCrash ==
    ASSUME IInv, QuotaInv, NEW k \in Calls, Crash(k) PROVE QuotaInv'
<1>1. /\ ledger' = ledger /\ db' = db /\ now' = now /\ c[k] \in CallState
      /\ c' = [c EXCEPT ![k] = Over(c[k], "dead")]
  BY QuotaFacts DEF Crash
<1>2. Keeps(k, Over(c[k], "dead"))
  BY <1>1, CallKeeps DEF Keeps
<1> QED  BY <1>1, <1>2, QuotaQuiet

LEMMA QuotaEndTransaction ==
    ASSUME IInv, QuotaInv, NEW k \in Calls, EndTransaction(k) PROVE QuotaInv'
<1> DEFINE x == Over(c[k], "end")
<1>1. /\ ledger' = ledger /\ now' = now /\ c[k] \in CallState
      /\ c' = [c EXCEPT ![k] = x] /\ now \in Nat
  BY QuotaFacts DEF EndTransaction
<1>2. x.claim = 0 /\ x.read = {}
  BY <1>1, CallKeeps
<1>3. ~(x.claim > now) /\ IsFiniteSet(x.read)
  BY <1>1, <1>2, FS_EmptySet
<1> HIDE DEF x
<1>4. IsFiniteSet(db')
  <2> DEFINE row == [call |-> k, tokens |-> c[k].tokens]
  <2>1. db' = db \/ db' = db \cup {row}
    BY DEF EndTransaction
  <2>2. IsFiniteSet(db)
    BY QuotaFacts
  <2> HIDE DEF row
  <2>3. IsFiniteSet(db \cup {row})
    BY <2>2, FS_AddElement
  <2> QED  BY <2>1, <2>2, <2>3
<1>5. \A u \in Users : /\ LiveClaims(u) \subseteq ledger[u]
                       /\ LiveClaims(u)' = LiveClaims(u)
  BY <1>1 DEF LiveClaims
<1>6. \A u \in Users : IsFiniteSet(ledger[u]) /\ WithinQuota(LiveClaims(u))
  BY DEF QuotaInv
<1> HIDE DEF LiveClaims
<1>7. \A u \in Users : IsFiniteSet(ledger'[u]) /\ WithinQuota(LiveClaims(u)')
  BY <1>1, <1>5, <1>6
<1>8. \A u \in Users : \A q \in LiveClaims(u) : q.call # k => q \in ledger'[u]
  BY <1>1, <1>5
<1> QED  BY <1>1, <1>3, <1>4, <1>7, <1>8, QuotaCall

LEMMA QuotaUnreserve ==
    ASSUME IInv, QuotaInv, NEW k \in Calls, Unreserve(k) PROVE QuotaInv'
<1> DEFINE r == Noted(c[k])
           pc == IF c[k].log = "none" THEN "end" ELSE "open"
           x == Over(r, pc)
<1>1. /\ db' = db /\ now' = now /\ c[k] \in CallState /\ now \in Nat /\ IsFiniteSet(db)
      /\ c' = [c EXCEPT ![k] = x] /\ ledger \in [Users -> SUBSET Claim]
      /\ UserOf[k] \in Users
  BY QuotaFacts DEF Unreserve
<1>2. r \in CallState
  BY <1>1 DEF CallState, Noted
<1> HIDE DEF r, pc
<1>3. x.claim = 0 /\ x.read = {}
  BY <1>2, CallKeeps
<1>4. ~(x.claim > now) /\ IsFiniteSet(x.read)
  BY <1>1, <1>3, FS_EmptySet
<1> HIDE DEF x
<1>5. ledger' = ledger \/ ledger' = Unclaimed(k, UserOf[k])
  BY DEF Unreserve
<1>6. \A u \in Users : /\ ledger'[u] \subseteq ledger[u]
                       /\ \A q \in ledger[u] : q.call # k => q \in ledger'[u]
  BY <1>1, <1>5 DEF Unclaimed
<1>7. \A u \in Users : \A q \in LiveClaims(u) : q.call # k => q \in ledger'[u]
  BY <1>6 DEF LiveClaims
<1>8. now' \in Nat /\ now <= now'
  BY <1>1
<1>9. \A u \in Users : IsFiniteSet(ledger'[u]) /\ WithinQuota(LiveClaims(u)')
  BY <1>6, <1>8, QuotaShrinks
<1> QED  BY <1>1, <1>4, <1>7, <1>9, QuotaCall

LEMMA QuotaTick ==
    ASSUME IInv, QuotaInv, Tick \/ UNCHANGED vars PROVE QuotaInv'
<1>1. c' = c /\ ledger' = ledger /\ db' = db /\ now \in Nat
      /\ now' \in Nat /\ now <= now'
  BY DEF Tick, vars, IInv, Others
<1>2. \A u \in Users : IsFiniteSet(ledger'[u]) /\ WithinQuota(LiveClaims(u)')
  BY <1>1, QuotaShrinks
<1>3. \A k \in Calls : c[k].claim > now' => c[k].claim > now
  BY <1>1, QuotaFacts
<1> QED  BY <1>1, <1>2, <1>3 DEF QuotaInv

\* A claim that fits is added to the live ones.
LEMMA ClaimedFacts ==
    ASSUME IInv, QuotaInv, NEW k \in Chats, Fits(k, UserOf[k])
    PROVE  LET u == UserOf[k]
               q == ClaimOf(k, now + TTL + Grace)
           IN  /\ q \in Claimed(k, u)[u]
               /\ \A v \in Users : \A x \in LiveClaims(v) : x \in Claimed(k, u)[v]
               /\ \A v \in Users : IsFiniteSet(Claimed(k, u)[v])
               /\ \A v \in Users \ {u} : Claimed(k, u)[v] = ledger[v]
               /\ Claimed(k, u)[u] = LiveClaims(u) \cup {q}
               /\ WithinQuota(Claimed(k, u)[u])
<1> DEFINE u == UserOf[k]
           q == ClaimOf(k, now + TTL + Grace)
<1>1. /\ k \in Calls /\ u \in Users /\ now \in Nat /\ ledger \in [Users -> SUBSET Claim]
      /\ IsFiniteSet(c[k].read) /\ c[k].read \in SUBSET LogRow
      /\ Estimate[k] \in Nat
  <2>1. k \in Calls
    BY DEF Calls
  <2>2. c[k].read \in SUBSET LogRow
    BY <2>1, QuotaFacts DEF CallState
  <2>3. Estimate[k] \in Nat
    BY CallsAssumption
  <2> QED  BY <2>1, <2>2, <2>3, QuotaFacts DEF QuotaInv
<1>2. /\ IsFiniteSet(ledger[u]) /\ WithinQuota(LiveClaims(u))
      /\ \A v \in Users : IsFiniteSet(ledger[v])
  BY <1>1 DEF QuotaInv
<1>3. LiveClaims(u) \in SUBSET ledger[u] /\ ledger[u] \in SUBSET Claim
  BY <1>1 DEF LiveClaims
<1>4. IsFiniteSet(LiveClaims(u)) /\ \A r \in LiveClaims(u) : r.tokens \in Nat
  BY <1>2, <1>3, FS_Subset DEF Claim
<1>5. q.tokens = Estimate[k] /\ q = [call |-> k, tokens |-> Estimate[k], exp |-> now + TTL + Grace]
  BY DEF ClaimOf
<1>6. Claimed(k, u) = [ledger EXCEPT ![u] = LiveClaims(u) \cup {q}]
  BY <1>5 DEF Claimed
<1> HIDE DEF q
<1>7. /\ Claimed(k, u)[u] = LiveClaims(u) \cup {q}
      /\ \A v \in Users \ {u} : Claimed(k, u)[v] = ledger[v]
  BY <1>1, <1>6
<1>8. /\ IsFiniteSet(LiveClaims(u) \cup {q})
      /\ q \notin LiveClaims(u) =>
            Cardinality(LiveClaims(u) \cup {q}) = Cardinality(LiveClaims(u)) + 1
      /\ Cardinality(LiveClaims(u)) \in Nat /\ Cardinality(c[k].read) \in Nat
  BY <1>1, <1>4, FS_AddElement, FS_CardinalityType
<1>9. \A r \in LiveClaims(u) \cup {q} : r.tokens \in Nat
  BY <1>1, <1>4, <1>5
<1>10. Tokens(LiveClaims(u)) \in Nat
  BY <1>4, TokensFacts
<1>11. Tokens(c[k].read) \in Nat
  <2>1. \A r \in c[k].read : r.tokens \in Nat
    BY <1>1 DEF LogRow
  <2> QED  BY <1>1, <2>1, TokensFacts
<1>12. q \notin LiveClaims(u) =>
          Tokens(LiveClaims(u) \cup {q}) = Estimate[k] + Tokens(LiveClaims(u))
  <2> SUFFICES ASSUME q \notin LiveClaims(u)
               PROVE  Tokens(LiveClaims(u) \cup {q}) = Estimate[k] + Tokens(LiveClaims(u))
    OBVIOUS
  <2> DEFINE S == LiveClaims(u) \cup {q}
  <2>1. S \ {q} = LiveClaims(u) /\ q \in S
    OBVIOUS
  <2>2. IsFiniteSet(S) /\ \A r \in S : r.tokens \in Nat
    BY <1>8, <1>9
  <2> HIDE DEF S
  <2>3. Tokens(S) = q.tokens + Tokens(S \ {q})
    BY <2>1, <2>2, TokensFacts
  <2> QED  BY <1>5, <2>1, <2>3 DEF S
<1>13. WithinQuota(LiveClaims(u) \cup {q})
  <2>1. CASE q \in LiveClaims(u)
    <3>1. LiveClaims(u) \cup {q} = LiveClaims(u)
      BY <2>1
    <3> QED  BY <1>2, <3>1
  <2>2. CASE q \notin LiveClaims(u)
    <3>1. Cardinality(LiveClaims(u) \cup {q}) = Cardinality(LiveClaims(u)) + 1
      BY <1>8, <2>2
    <3>2. Tokens(LiveClaims(u) \cup {q}) = Estimate[k] + Tokens(LiveClaims(u))
      BY <1>12, <2>2
    <3>3. /\ RequestLimit > 0 =>
                Cardinality(c[k].read) + Cardinality(LiveClaims(u)) + 1 <= RequestLimit
          /\ TokenLimit > 0 =>
                Tokens(c[k].read) + Tokens(LiveClaims(u)) + Estimate[k] <= TokenLimit
      BY DEF Fits
    <3>4. PICK n \in Nat : n = Cardinality(LiveClaims(u))
      BY <1>8
    <3>5. PICK m \in Nat : m = Cardinality(c[k].read)
      BY <1>8
    <3>6. PICK a \in Nat : a = Tokens(LiveClaims(u))
      BY <1>10
    <3>7. PICK b \in Nat : b = Tokens(c[k].read)
      BY <1>11
    <3>8. PICK e \in Nat : e = Estimate[k]
      BY <1>1
    <3>9. RequestLimit > 0 => n + 1 <= RequestLimit
      BY <3>3, <3>4, <3>5, LimitsAssumption
    <3>10. TokenLimit > 0 => e + a <= TokenLimit
      BY <3>3, <3>6, <3>7, <3>8, LimitsAssumption
    <3> QED  BY <3>1, <3>2, <3>4, <3>6, <3>8, <3>9, <3>10 DEF WithinQuota
  <2> QED  BY <2>1, <2>2
<1>14. \A v \in Users : \A x \in LiveClaims(v) : x \in Claimed(k, u)[v]
  <2>1. \A v \in Users : LiveClaims(v) \subseteq ledger[v]
    BY DEF LiveClaims
  <2> QED  BY <1>7, <2>1
<1>15. \A v \in Users : IsFiniteSet(Claimed(k, u)[v])
  BY <1>2, <1>7, <1>8
<1> QED  BY <1>7, <1>13, <1>14, <1>15 DEF q

\* The reservations after a claim that fits.
LEMMA QuotaClaimed ==
    ASSUME IInv, QuotaInv, NEW k \in Chats, Fits(k, UserOf[k]),
           ledger' = Claimed(k, UserOf[k]), now' = now
    PROVE  /\ ClaimOf(k, now + TTL + Grace) \in ledger'[UserOf[k]]
           /\ \A u \in Users : \A q \in LiveClaims(u) : q \in ledger'[u]
           /\ \A u \in Users : IsFiniteSet(ledger'[u]) /\ WithinQuota(LiveClaims(u)')
<1> DEFINE v == UserOf[k]
           q == ClaimOf(k, now + TTL + Grace)
<1>1. /\ q \in ledger'[v]
      /\ \A u \in Users : \A x \in LiveClaims(u) : x \in ledger'[u]
      /\ \A u \in Users : IsFiniteSet(ledger'[u])
      /\ \A u \in Users \ {v} : ledger'[u] = ledger[u]
      /\ ledger'[v] = LiveClaims(v) \cup {q}
      /\ WithinQuota(ledger'[v])
  BY ClaimedFacts
<1>2. /\ now \in Nat /\ TTL \in Nat /\ Grace \in Nat /\ TTL > 0
      /\ k \in Calls /\ Estimate[k] \in Nat /\ v \in Users
      /\ ledger \in [Users -> SUBSET Claim]
  <2>1. k \in Calls
    BY DEF Calls
  <2> QED  BY <2>1, QuotaFacts, LimitsAssumption, CallsAssumption
<1>3. ASSUME NEW u \in Users PROVE WithinQuota(LiveClaims(u)')
  <2>1. CASE u # v
    <3>1. LiveClaims(u)' = LiveClaims(u)
      BY <1>1, <2>1 DEF LiveClaims
    <3>2. WithinQuota(LiveClaims(u))
      BY DEF QuotaInv
    <3> QED  BY <3>1, <3>2
  <2>2. CASE u = v
    <3>1. LiveClaims(u)' \in SUBSET ledger'[v]
      BY <2>2 DEF LiveClaims
    <3>2. IsFiniteSet(ledger'[v])
      BY <1>1, <1>2
    <3>3. \A r \in ledger'[v] : r.tokens \in Nat
      <4>1. \A r \in LiveClaims(v) : r.tokens \in Nat
        BY <1>2 DEF LiveClaims, Claim
      <4>2. q.tokens \in Nat
        BY <1>2 DEF ClaimOf
      <4> HIDE DEF q
      <4> QED  BY <1>1, <4>1, <4>2
    <3> HIDE DEF LiveClaims
    <3> QED  BY <1>1, <3>1, <3>2, <3>3, FewerClaims
  <2> QED  BY <2>1, <2>2
<1> QED  BY <1>1, <1>3

LEMMA QuotaReserve ==
    ASSUME IInv, QuotaInv, NEW k \in Calls, Reserve(k) PROVE QuotaInv'
<1> DEFINE u == UserOf[k]
           r == [c[k] EXCEPT !.read = {}]
           exp == now + TTL + Grace
<1>1. /\ db' = db /\ now' = now /\ c[k] \in CallState /\ now \in Nat /\ IsFiniteSet(db)
      /\ ledger \in [Users -> SUBSET Claim] /\ u \in Users
      /\ k \in Chats
  BY QuotaFacts DEF Reserve, Sane, ChatOnly
<1>2. exp \in Nat
  BY <1>1, LimitsAssumption
<1>3. /\ r \in CallState /\ r.claim = c[k].claim /\ r.read = {}
      /\ [r EXCEPT !.claim = exp] \in CallState
      /\ [r EXCEPT !.claim = exp].claim = exp /\ [r EXCEPT !.claim = exp].read = {}
      /\ [r EXCEPT !.degraded = TRUE] \in CallState
      /\ [r EXCEPT !.degraded = TRUE].claim = c[k].claim
      /\ [r EXCEPT !.degraded = TRUE].read = {}
  BY <1>1, <1>2 DEF CallState
<1> DEFINE y == [r EXCEPT !.claim = exp]
           d == [r EXCEPT !.degraded = TRUE]
\* What becomes of the call, and of the reservations of its user.
<1>4. \/ /\ ledger' = Claimed(k, u) /\ Fits(k, u)
         /\ c' = [c EXCEPT ![k] = Acquiring(k, y, "user", UserScopes(k))]
      \/ /\ ledger' = [ledger EXCEPT ![u] = LiveClaims(u)]
         /\ c' = [c EXCEPT ![k] = Over(r, "end")]
      \/ /\ ledger' = ledger \/ (Fits(k, u) /\ ledger' = Claimed(k, u))
         /\ \/ c' = [c EXCEPT ![k] = Over(d, "end")]
            \/ c' = [c EXCEPT ![k] = Acquiring(k, d, "user", UserScopes(k))]
  BY DEF Reserve
<1>5. /\ y \in CallState /\ y.claim = exp /\ y.read = {}
      /\ d \in CallState /\ d.claim = c[k].claim /\ d.read = {}
  BY <1>3
<1> HIDE DEF y, d, r
<1>6. PICK x : /\ c' = [c EXCEPT ![k] = x]
               /\ x.read = {}
               /\ \/ x.claim \in {0, c[k].claim}
                  \/ x.claim = exp /\ Fits(k, u) /\ ledger' = Claimed(k, u)
  BY <1>3, <1>4, <1>5, CallKeeps
<1>7. \/ ledger' = ledger
      \/ ledger' = [ledger EXCEPT ![u] = LiveClaims(u)]
      \/ Fits(k, u) /\ ledger' = Claimed(k, u)
  BY <1>4
<1>8. /\ \A v \in Users : \A q \in LiveClaims(v) : q \in ledger'[v]
      /\ \A v \in Users : IsFiniteSet(ledger'[v]) /\ WithinQuota(LiveClaims(v)')
      /\ Fits(k, u) /\ ledger' = Claimed(k, u) => ClaimOf(k, exp) \in ledger'[u]
  <2>1. CASE Fits(k, u) /\ ledger' = Claimed(k, u)
    BY <1>1, <2>1, QuotaClaimed
  <2>2. CASE /\ ~(Fits(k, u) /\ ledger' = Claimed(k, u))
             /\ \/ ledger' = ledger
                \/ ledger' = [ledger EXCEPT ![u] = LiveClaims(u)]
    <3>1. \A v \in Users : LiveClaims(v) \subseteq ledger[v]
      BY DEF LiveClaims
    <3>2. \A v \in Users : ledger'[v] \in {ledger[v], LiveClaims(v)}
      BY <1>1, <2>2
    <3>3. \A v \in Users : ledger'[v] \subseteq ledger[v]
      BY <3>1, <3>2
    <3>4. now' \in Nat /\ now <= now'
      BY <1>1
    <3>5. \A v \in Users : IsFiniteSet(ledger'[v]) /\ WithinQuota(LiveClaims(v)')
      BY <3>3, <3>4, QuotaShrinks
    <3>6. \A v \in Users : \A q \in LiveClaims(v) : q \in ledger'[v]
      BY <3>1, <3>2
    <3> QED  BY <2>2, <3>5, <3>6
  <2> QED  BY <1>7, <2>1, <2>2
<1>9. ASSUME x.claim > now PROVE ClaimOf(k, x.claim) \in ledger'[u]
  <2>1. CASE x.claim = exp /\ Fits(k, u) /\ ledger' = Claimed(k, u)
    BY <1>8, <2>1
  <2>2. CASE x.claim \in {0, c[k].claim}
    <3>1. x.claim = c[k].claim /\ c[k].claim > now
      BY <1>1, <1>9, <2>2
    <3>2. ClaimOf(k, c[k].claim) \in LiveClaims(u)
      BY <1>1, <3>1, QuotaFacts DEF LiveClaims, ClaimOf
    <3> QED  BY <1>1, <1>8, <3>1, <3>2
  <2> QED  BY <1>6, <2>1, <2>2
<1>10. IsFiniteSet(db') /\ IsFiniteSet(x.read)
  BY <1>1, <1>6, FS_EmptySet
<1> HIDE DEF exp
<1> QED  BY <1>1, <1>6, <1>8, <1>9, <1>10, QuotaCall

LEMMA QuotaStep == ASSUME IInv, QuotaInv, [Next]_vars PROVE QuotaInv'
<1>1. ASSUME NEW k \in Calls, Step(k) PROVE QuotaInv'
  BY <1>1, QuotaReadUsage, QuotaReserve, QuotaStart, QuotaAcquire, QuotaCheckRate,
     QuotaRequest, QuotaLeave, QuotaFree, QuotaUnreserve, QuotaEndTransaction
  DEF Step
<1>2. ASSUME NEW k \in Calls, Crash(k) PROVE QuotaInv'
  BY <1>2, QuotaCrash
<1>3. CASE Tick \/ UNCHANGED vars
  BY <1>3, QuotaTick
<1> QED  BY <1>1, <1>2, <1>3 DEF Next

LEMMA QuotaInit == ASSUME Init PROVE QuotaInv
<1>1. /\ db = {} /\ now = 0 /\ ledger = [u \in Users |-> {}]
      /\ c = [k \in Calls |-> NewCall]
  BY DEF Init
<1>2. NewCall.read = {} /\ NewCall.claim = 0
  BY DEF NewCall
<1>3. \A k \in Calls : IsFiniteSet(c[k].read) /\ ~(c[k].claim > now)
  BY <1>1, <1>2, FS_EmptySet
<1>4. Cardinality({}) = 0
  BY FS_EmptySet
<1>5. Tokens({}) = 0
  BY FS_EmptySet, TokensFacts
<1>6. WithinQuota({})
  BY <1>4, <1>5, LimitsAssumption DEF WithinQuota
<1>7. ASSUME NEW u \in Users PROVE IsFiniteSet(ledger[u]) /\ WithinQuota(LiveClaims(u))
  <2>1. LiveClaims(u) = {} /\ ledger[u] = {}
    BY <1>1 DEF LiveClaims
  <2> QED  BY <1>6, <2>1, FS_EmptySet
<1>8. IsFiniteSet(db)
  BY <1>1, FS_EmptySet
<1> QED  BY <1>3, <1>7, <1>8 DEF QuotaInv

\* The calls in flight have as many claims, of as many tokens.
LEMMA InFlightBounded ==
    ASSUME IInv, QuotaInv, NEW u \in Users
    PROVE  /\ RequestLimit > 0 => Cardinality(InFlight(u)) <= RequestLimit
           /\ TokenLimit > 0 =>
                 MapThenSumSet(LAMBDA k : Estimate[k], InFlight(u)) <= TokenLimit
<1> DEFINE D == InFlight(u)
           E == LiveClaims(u)
           J == [k \in D |-> ClaimOf(k, c[k].claim)]
<1>1. /\ D \in SUBSET Chats /\ \A k \in D : k \in Calls /\ UserOf[k] = u /\ c[k].claim > now
      /\ IsFiniteSet(D)
  <2>1. D \in SUBSET Chats /\ \A k \in D : k \in Calls /\ UserOf[k] = u /\ c[k].claim > now
    BY DEF InFlight, Calls
  <2>2. D \subseteq Calls
    BY <2>1
  <2> QED  BY <2>1, <2>2, FS_Subset, CallsAssumption
<1>2. /\ IsFiniteSet(E) /\ \A r \in E : r.tokens \in Nat
      /\ WithinQuota(E)
  <2>1. /\ IsFiniteSet(ledger[u]) /\ WithinQuota(E) /\ ledger[u] \in SUBSET Claim
    BY DEF QuotaInv, IInv, Others
  <2>2. E \in SUBSET ledger[u]
    BY DEF LiveClaims
  <2> HIDE DEF E
  <2> QED  BY <2>1, <2>2, FS_Subset DEF Claim
<1>3. \A k \in D : J[k] \in E /\ J[k].tokens = Estimate[k] /\ J[k].call = k
  <2> SUFFICES ASSUME NEW k \in D
               PROVE  LET q == ClaimOf(k, c[k].claim)
                      IN  q \in E /\ q.tokens = Estimate[k] /\ q.call = k
    OBVIOUS
  <2>1. ClaimOf(k, c[k].claim) \in ledger[u]
    BY <1>1, QuotaFacts
  <2>2. c[k].claim > now
    BY <1>1
  <2> QED  BY <2>1, <2>2 DEF LiveClaims, ClaimOf
<1>4. J \in [D -> E]
  BY <1>3
<1>5. \A x, z \in D : J[x] = J[z] => x = z
  <2> HIDE DEF J
  <2> QED  BY <1>3
<1> HIDE DEF D, E, J
<1>6. /\ Cardinality(D) <= Cardinality(E)
      /\ Cardinality(D) \in Nat /\ Cardinality(E) \in Nat
  <2>1. J \in Injection(D, E)
    BY <1>4, <1>5 DEF Injection, IsInjective
  <2> QED  BY <1>1, <1>2, <2>1, FS_Injection, FS_CardinalityType
<1>7. PICK g : /\ MapThenSumSet(LAMBDA k : Estimate[k], D) = g[D]
               /\ AddsUp(g, Estimate, D)
  BY <1>1, SumOfEstimates
<1>8. PICK h : AddsUp(h, TokensIn(E), E) /\ \A T \in SUBSET E : Tokens(T) = h[T]
  BY <1>2, TokensOf
<1>9. \A k \in D : J[k] \in E /\ TokensIn(E)[J[k]] = Estimate[k]
  BY <1>3 DEF TokensIn
<1>10. \A k \in D : Estimate[k] \in Nat
  BY <1>1, CallsAssumption
<1>11. \A r \in E : TokensIn(E)[r] \in Nat
  BY <1>2 DEF TokensIn
<1>12. g[D] <= h[E]
  BY <1>1, <1>2, <1>5, <1>7, <1>8, <1>9, <1>10, <1>11, SumOfImages
<1>13. Tokens(E) = h[E] /\ Tokens(E) \in Nat
  BY <1>2, <1>8, TokensFacts
<1>14. g[D] \in Nat
  BY <1>1, <1>7, <1>10, AnyOrder
<1>15. RequestLimit > 0 => Cardinality(D) <= RequestLimit
  BY <1>2, <1>6, LimitsAssumption DEF WithinQuota
<1>16. TokenLimit > 0 => g[D] <= TokenLimit
  BY <1>2, <1>12, <1>13, <1>14, LimitsAssumption DEF WithinQuota
<1>17. TokenLimit > 0 => MapThenSumSet(LAMBDA k : Estimate[k], D) <= TokenLimit
  BY <1>7, <1>16
<1> QED  BY <1>15, <1>17 DEF D

(* The calls of a user that hold a reservation stay within the hourly      *)
(* quota by themselves, in number and in tokens, however their reads of    *)
(* committed usage interleave with the scripts of others                   *)
(* (limits.reserve_quota).                                                 *)
THEOREM InFlightWithinQuotaAlways == Spec => []InFlightWithinQuota
<1>1. Init => QuotaInv
  BY QuotaInit
<1>2. IInv /\ QuotaInv /\ [Next]_vars => QuotaInv'
  BY QuotaStep
<1>3. IInv /\ QuotaInv => InFlightWithinQuota
  BY InFlightBounded DEF InFlightWithinQuota
<1> QED  BY <1>1, <1>2, <1>3, Invariant, PTL DEF Spec
=============================================================================
