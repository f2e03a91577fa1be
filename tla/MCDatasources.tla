--------------------------- MODULE MCDatasources ---------------------------
(* Instances of Datasources for TLC: two calls of the tenant that owns the *)
(* first datasource, and one of another tenant.                            *)
EXTENDS Datasources, TLC

CONSTANTS c1, c2, c3, acme, other, orders, users, pg

MCTenantOf == c1 :> acme @@ c2 :> acme @@ c3 :> other
MCPermissionsOf == c1 :> {"write", "test"} @@ c2 :> {"write"} @@ c3 :> {"write"}
MCFirstRow == [tenant |-> acme, name |-> orders, kind |-> pg]
=============================================================================
