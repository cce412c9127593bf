--------------------------- MODULE MCRouterLifecycle ---------------------------
EXTENDS RouterLifecycle

CONSTANTS a, b,  \* endpoints
          x      \* a malformed one

AnySpec == [r \in Routers |-> SUBSET Endpoints]

(* Router 2 takes and gives up an endpoint that router 1 has priority on. *)
Contended == [r \in Routers |-> IF r = 1 THEN {{a}} ELSE {{a}, {b}}]

(* Both want one endpoint; router 1 takes and gives up another one, and    *)
(* router 2 slips into a malformed one.                                    *)
Growing == [r \in Routers |-> IF r = 1 THEN {{a}, {a, b}} ELSE {{a}, {x}}]
================================================================================
