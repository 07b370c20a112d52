------------------------ MODULE MCCardinalityGuard ------------------------
(* Two dimensions, as dimensions.yaml has them: tenants by volume, regions  *)
(* by name; a revision that renames a region and asks for a column spans_1m *)
(* does not group by, and one with a column it does not have.               *)
EXTENDS CardinalityGuard, TLC

CONSTANTS a, b, c

Region(v) == [source |-> "static", budget |-> 1, values |-> {v}]
Tenant == [source |-> "top_k", budget |-> 1, values |-> {}]

Revised == {("tenant_id" :> Tenant) @@ ("region" :> Region(a)),
            ("region" :> Region(b)) @@ ("spans" :> Tenant),
            ("tenant_id" :> Tenant) @@ ("gpu" :> Region(a))}

\* One registry that nobody edits: the tenants by volume.
Steady == {"tenant_id" :> Tenant}
=============================================================================
