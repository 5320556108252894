----------------------------- MODULE MCLlmGateway -----------------------------
(* LlmGateway on small instances.                                              *)
EXTENDS LlmGateway
CONSTANTS p1, p2
\* config/models.yaml orders the chain; here two of its providers have a key.
TwoKeys == <<p1, p2>>
==============================================================================
