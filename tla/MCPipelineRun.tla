--------------------------- MODULE MCPipelineRun ---------------------------
(* Values for the constants of PipelineRun.  Pipelines are written as the  *)
(* on_error policies and the retry counts of their steps.                  *)
EXTENDS PipelineRun, TLC

CONSTANTS p1, p2, c1, c2, k1, k2, u1, u2

MCChildOf == p1 :> c1
MCChildOf2 == p1 :> c1 @@ p2 :> c2

RetryContinueStop == <<"Retry", "Continue", "Stop">>
RetryStopContinue == <<"Retry", "Stop", "Continue">>
OneRetry3 == <<1, 0, 0>>

Symmetry == Permutations(Workers) \cup Permutations(Users)
=============================================================================
