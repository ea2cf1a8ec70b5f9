----------------------------- MODULE MCEndpoint -----------------------------
(* Two param ids and two param values. *)
EXTENDS Endpoint

MCParamIds == {"Props", "Route"}

MCPods == {"p", "q"}

=============================================================================
