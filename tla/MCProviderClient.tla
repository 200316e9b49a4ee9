-------------------------- MODULE MCProviderClient --------------------------
(* Two tenants share provider "p" with different limits; "q" has one user  *)
(* with the client's defaults (non-positive settings).                     *)
EXTENDS ProviderClient

MCConfigs ==
  { [provider |-> "p", circuitFailures |-> 1, circuitOpenTicks |-> 2],
    [provider |-> "p", circuitFailures |-> 2, circuitOpenTicks |-> 1],
    [provider |-> "q", circuitFailures |-> 0, circuitOpenTicks |-> 0] }
=============================================================================
