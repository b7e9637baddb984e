---------------------------- MODULE MCLLMClient ----------------------------
(***************************************************************************)
(* Instances of LLMClient for TLC: as many accounts as attempts, one of    *)
(* them without a URL and a model of its own, and fewer keys.              *)
(***************************************************************************)
EXTENDS LLMClient

CONSTANTS k1, k2, k3, e1, e2, own, u1, u2, default, m1, m2

MCPool == <<[key |-> k1, url |-> u1, model |-> m1],
            [key |-> k2, url |-> u2, model |-> m2],
            [key |-> k3, url |-> None, model |-> None]>>

MCEnvKeys == <<e1, e2>>

MCDefault == [key |-> None, url |-> default, model |-> m1]
=============================================================================
