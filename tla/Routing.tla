------------------------------ MODULE Routing ------------------------------
(* Which models a call of run_chat may be sent to, and in which order:        *)
(* ai/capability.py with resolve_model, build_options and                     *)
(* resolve_failover_attempts of ai/engine.py, as operators on a platform.     *)
(*                                                                            *)
(* A platform is a record of models, a function on their numbers, in the      *)
(* order of creation and of names; of providers; of the configured default of *)
(* each type; of the capabilities that runtimes refused lately                *)
(* (capability_probe in Redis); and of max_tokens. supports are the           *)
(* capability fields that are set.                                            *)
EXTENDS Integers, Sequences, FiniteSets

CONSTANT None

(* What a platform is, and a call of it: chats need no embeddings. *)
IsPlatform(pf) ==
    /\ DOMAIN pf.models \subseteq Int /\ IsFiniteSet(DOMAIN pf.models) /\ None \notin DOMAIN pf.models
    /\ \A n \in DOMAIN pf.models :
          /\ pf.models[n].default \in BOOLEAN
          /\ pf.models[n].provider \in DOMAIN pf.providers
    /\ \A p \in DOMAIN pf.providers : pf.providers[p].priority \in Int

IsCall(call) == "embeddings" \notin call.needs

-----------------------------------------------------------------------------
(* ai/capability.py *)

Compatible(type) ==
    CASE type = "Chat" -> {"Chat", "Completion", "Vision"}
      [] type = "Completion" -> {"Chat", "Completion"}
      [] OTHER -> {type}

(* model_type_error finds none. *)
Serves_Any(type, m) == TRUE

Serves(type, m) ==
    \/ m.type \in Compatible(type)
    \/ type = "Vision" /\ m.type \in {"Chat", "Completion"} /\ "vision" \in m.supports

(* What the adapter transports, the model declares and no runtime refused. *)
Effective(pf, n, provider) ==
    LET Declares(cap) ==
            IF cap = "embeddings" THEN pf.models[n].type = "Embedding"
            ELSE cap \in pf.models[n].supports
    IN  {cap \in pf.providers[provider].transports : Declares(cap) /\ <<n, cap>> \notin pf.refused}

(* capability_error finds none. Streaming is not among what a call needs. *)
Able(pf, n, needs) == needs \subseteq Effective(pf, n, pf.models[n].provider)

(* The requirements on a substitute for a model; *)
Substitute(source, m, needs) ==
    /\ m.enabled
    /\ m.provider # source.provider
    /\ Serves(source.type, m)
    /\ source.type = "Embedding" => source.dimensions # 0 /\ m.dimensions = source.dimensions
    /\ \A cap \in needs : IF cap = "embeddings" THEN m.type = "Embedding" ELSE cap \in m.supports

(* and its score. Nothing compares it with MIN_FAILOVER_SCORE. *)
ScoreFailoverCandidate(pf, source, m) ==
    LET Points(points, same) == IF same THEN points ELSE 0
        priority == pf.providers[m.provider].priority
        Shared(x, y) == x # None /\ x = y
    IN  1 + Points(100, m.runtime = source.runtime) + Points(50, Shared(m.family, source.family))
          + Points(10, Shared(m.size, source.size)) + Points(5, m.window >= source.window)
          + Points(3, m.default)
          - (IF priority > 100 THEN 100 ELSE priority) \div 10

RankFailoverCandidates(pf, source, candidates) ==
    LET Score(n) == ScoreFailoverCandidate(pf, source, pf.models[n])
        Before(x, y) == Score(x) > Score(y) \/ (Score(x) = Score(y) /\ x < y)
        Rank(n) == 1 + Cardinality({x \in candidates : Before(x, n)})
    IN  [i \in 1..Cardinality(candidates) |-> CHOOSE n \in candidates : Rank(n) = i]

(* A refusal is remembered for an hour; other errors say nothing. *)
RecordProbeFailure(pf, n, cap) ==
    IF cap = None THEN pf ELSE [pf EXCEPT !.refused = @ \cup {<<n, cap>>}]

-----------------------------------------------------------------------------
(* ai/engine.py *)

ModelNames(pf) == DOMAIN pf.models

(* The best of those that are enabled: the default, or the oldest. *)
First(pf, allowed) ==
    LET found == {n \in ModelNames(pf) : pf.models[n].enabled /\ pf.models[n].type \in allowed}
        Before(x, y) == \/ pf.models[x].default /\ ~pf.models[y].default
                        \/ pf.models[x].default = pf.models[y].default /\ x < y
    IN  IF found = {} THEN None ELSE CHOOSE x \in found : \A y \in found \ {x} : Before(x, y)

Suits(pf, n, type) == pf.models[n].enabled /\ Serves(type, pf.models[n])

(* The model that is asked for, or the configured default, or one of the type *)
(* itself, or one that serves it. None: the call is refused.                  *)
ResolveModel(pf, asked, type) ==
    LET own == First(pf, {type})
    IN  IF asked # None THEN IF Suits(pf, asked, type) THEN asked ELSE None
        ELSE IF pf.configured[type] # None /\ Suits(pf, pf.configured[type], type)
             THEN pf.configured[type]
        ELSE IF own # None THEN own ELSE First(pf, Compatible(type))

(* Enabled providers that the last health check did not find offline. *)
FailoverProviders_Source(pf, exclude) == {p \in DOMAIN pf.providers : pf.providers[p].enabled} \ {exclude}

FailoverProviders(pf, exclude) ==
    {p \in DOMAIN pf.providers : pf.providers[p].enabled /\ pf.providers[p].status # "Offline"} \ {exclude}

(* Every enabled model of such a provider that may stand in for a model. *)
FailoverCandidates(pf, n, needs) ==
    {m \in ModelNames(pf) : /\ pf.models[m].provider \in FailoverProviders(pf, pf.models[n].provider)
                            /\ Substitute(pf.models[n], pf.models[m], needs)}

(* The models that a call is sent to, one after the other while each fails: a *)
(* substitute that turns out to be unable is passed over, wherever it ranks.  *)
Attempts(pf, call) ==
    LET primary == ResolveModel(pf, call.model, "Chat")
        able == {m \in FailoverCandidates(pf, primary, call.needs) : Able(pf, m, call.needs)}
    IN  IF primary = None \/ ~Able(pf, primary, call.needs) THEN <<>>
        ELSE <<primary>> \o (IF call.failover THEN RankFailoverCandidates(pf, pf.models[primary], able)
                             ELSE <<>>)

(* build_options: the model over the platform, its parameters over both, and  *)
(* the call over all; max_tokens of the model counts unless it is 0.          *)
MaxTokens(pf, n, call) ==
    IF call.maxTokens # None THEN call.maxTokens
    ELSE IF pf.models[n].parameter # None THEN pf.models[n].parameter
    ELSE IF pf.models[n].maxTokens # 0 THEN pf.models[n].maxTokens ELSE pf.maxTokens

(* _validate_embedding_response: vectors by their width, 0 for one that is no *)
(* vector of numbers that are finite and not all zero.                        *)
ValidEmbeddings(vectors, count, dimensions) ==
    /\ Len(vectors) = count
    /\ \A i \in 1..count :
          /\ vectors[i] # 0
          /\ vectors[i] = IF dimensions # 0 THEN dimensions ELSE vectors[1]

(* run_embedding keeps the width of the first vectors; there is no failover.  *)
EmbeddingDimensions(pf, n, vectors) ==
    IF vectors # <<>> /\ pf.models[n].dimensions = 0 THEN vectors[1] ELSE pf.models[n].dimensions

-----------------------------------------------------------------------------
(* Properties of a platform and a call. *)

Usable(pf, n) ==
    LET p == pf.providers[pf.models[n].provider] IN p.enabled /\ p.status # "Offline"

(* A chat model that fails is replaced by every model of another provider     *)
(* that is usable now and can do what the call needs, each once and by no     *)
(* other, whatever the ranking, the types and the refusals remembered leave   *)
(* out on the way (resolve_failover_attempts, run_chat). And a call that      *)
(* names no model and needs nothing is refused only if no enabled model could *)
(* serve it: a configured default that cannot is no obstacle (resolve_model). *)
AsksWhoeverCan(pf, call) ==
    LET attempts == Attempts(pf, call)
        Can(n) == /\ pf.models[n].enabled
                  /\ pf.models[n].type \in {"Chat", "Completion", "Vision"}
                  /\ \A cap \in call.needs :
                        /\ cap \in pf.models[n].supports
                        /\ cap \in pf.providers[pf.models[n].provider].transports
                        /\ <<n, cap>> \notin pf.refused
        others == {n \in ModelNames(pf) :
                      Can(n) /\ Usable(pf, n) /\ pf.models[n].provider # pf.models[attempts[1]].provider}
    IN  IF attempts = <<>>
        THEN call.model = None /\ call.needs = {} => ~\E n \in ModelNames(pf) : Can(n)
        ELSE call.failover /\ pf.models[attempts[1]].type = "Chat" =>
                 /\ {attempts[i] : i \in 2..Len(attempts)} = others
                 /\ Len(attempts) = 1 + Cardinality(others)

(* Vectors of one model that were accepted have one width, whoever comes      *)
(* first (_validate_embedding_response, run_embedding).                       *)
OneWidth(pf, n, first, second) ==
    LET before == pf.models[n].dimensions
        after == EmbeddingDimensions(pf, n, first)
    IN  first # <<>> /\ second # <<>>
        /\ ValidEmbeddings(first, Len(first), before) /\ ValidEmbeddings(second, Len(second), after)
            => \A i \in 1..Len(first), j \in 1..Len(second) : first[i] = second[j]
=============================================================================
