---------------------------- MODULE MCAdmission ----------------------------
(* Values for the constants of Admission.                                  *)
EXTENDS Admission, TLC

CONSTANTS a, b, d, e, ann, near, far

AllAnn == [k \in Calls |-> ann]
OneProvider == <<near>>
TwoProviders == <<near, far>>

\* Concurrency limits: of the user, of every model, of every provider.
Limits(user, model, provider) ==
    [s \in Scopes |-> CASE s[1] = "user" -> user
                        [] s[1] = "model" -> model
                        [] OTHER -> provider]
OneEach == Limits(1, 1, 1)
UserOnly == Limits(1, 0, 0)
NoLimits == Limits(0, 0, 0)
Rate(n) == [x \in Providers |-> n]
RateTwo == Rate(2)
NoRate == Rate(0)
Estimates(n) == [k \in Chats |-> n]
EstimateOne == Estimates(1)
EstimateTwo == Estimates(2)
Symmetry == Permutations(Chats)
=============================================================================
