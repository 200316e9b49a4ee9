----------------------------- MODULE MCService ------------------------------
(* Tenant "a" has a configured policy; a second ID is free for either      *)
(* tenant.  Tenant "b" puts something long into its trace IDs, so that no  *)
(* decision made for it can be read back.                                  *)
EXTENDS Service

MCLong == {d \in Decisions : d.policy.tenant = "b"}

MCConfigured == {[id |-> "cfg", tenant |-> "a", budget |-> 1]}
=============================================================================
