------------------------------ MODULE MCGateway ------------------------------
(* The instance of Gateway for TLC: one request goes through every operation and every *)
(* flaw, a second one, sound, shares its quota, credential and scenario.               *)
EXTENDS Gateway

CONSTANTS r1, r2

(* Every operation, soundly called, and a mutation of each contract with every flaw. *)
Sweep == (Operations \X {"none"})
  \cup ({"CreateWebhook", "ShopeeCancelOrder", "TokopediaCancelOrder"} \X AllFlaws)

MCCalls == [r \in {r1, r2} |-> IF r = r1 THEN Sweep ELSE {<<"CreateWebhook", "none">>}]

(* None, a certain fault, every uncertain one at once, and a body Validate refuses. *)
MCScenarios ==
  { NoFaults,
    [NoFaults EXCEPT !.ForceRateLimit = TRUE],
    [NoFaults EXCEPT !.APIRandom500Probability = 50, !.APITimeoutProbability = 50,
                     !.APISlowMS = 60000, !.APISlowProbability = 100],
    [NoFaults EXCEPT !.APIRandom500Probability = 101] }
=============================================================================
