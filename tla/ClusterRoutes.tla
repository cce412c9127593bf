----------------------------- MODULE ClusterRoutes -----------------------------
(***************************************************************************)
(* The routes a Service with a DNS name gets on its router: the Service    *)
(* reconciler keeps one generated MikroTikRoute per next hop               *)
(* (internal/controller/cluster_routes.go), labelled with where the hop    *)
(* comes from, and the route reconciler puts each of them on the endpoints *)
(* it applies to: an endpoint with a routeGateway gets that gateway, one   *)
(* without gets all the nodes.                                             *)
(*                                                                         *)
(* The two reconcilers run side by side, read the generated routes from a  *)
(* cache that lags, and compute from a router and nodes that may change    *)
(* while they work.  The router, its endpoints and the Service's router    *)
(* reference stay the same here; ManagedResource has what happens when     *)
(* they do not.                                                            *)
(***************************************************************************)
EXTENDS Naturals, Sequences, FiniteSets, SequencesExt

CONSTANTS NumEndpoints,  \* endpoints of the router
          Addresses,     \* addresses of nodes and gateways
          Overrides,     \* bound: routeGateway values users set
          MaxChanges,    \* bound: changes by users, nodes and devices
          MaxFaults,     \* bound: failed calls and crashes
          None           \* no address

ASSUME ClusterRoutesAssumption ==
  /\ NumEndpoints \in Nat \ {0}
  /\ IsFiniteSet(Addresses)
  /\ Overrides \subseteq Addresses
  /\ MaxChanges \in Nat /\ MaxFaults \in Nat
  /\ None \notin Addresses

Endpoints == 1 .. NumEndpoints

VARIABLES service,   \* what the Service says
          nodes,     \* addresses of the nodes
          override,  \* routeGateway of each endpoint, or of its router
          route,     \* the generated route of each next hop
          cached,    \* the manager's cache of them
          due,       \* the Service is in the work queue
          pass,      \* the Service reconciler's pass
          work,      \* the route reconciler's pass
          routes,    \* next hops on each endpoint
          changes,   \* changes so far
          faults     \* faults so far

vars == <<service, nodes, override, route, cached, due, pass, work, routes, changes, faults>>
counts == <<changes, faults>>

(* A Service wants routes, or it does not (no DNS name, not a ClusterIP    *)
(* Service), or it has a DNS name but no address (ExternalName, headless,  *)
(* a NodePort Service without a node address), or it is gone.              *)
Services == {"wanted", "unwanted", "unaddressed", "gone"}

Origins == {"override", "nodes", "both"}

(* A generated route is new, has its finalizer ("kept"), or is deleted and *)
(* keeps the finalizer.                                                    *)
Absent == [phase |-> "absent", origin |-> "none"]
RouteStates == {Absent} \cup [phase: {"new", "kept", "deleted"}, origin: Origins]

Resting == [puts |-> <<>>, prune |-> <<>>, requeue |-> FALSE, running |-> FALSE]
NoWork == [gateway |-> None, origin |-> "none", override |-> [e \in Endpoints |-> None],
           op |-> "none", next |-> 1]

(* A pass of the Service reconciler: routes still to be written and to be  *)
(* deleted.                                                                *)
Puts == [gateway: Addresses, origin: Origins]
Passes == [puts: Seq(Puts), prune: Seq(Addresses), requeue: BOOLEAN, running: BOOLEAN]

(* A pass of the route reconciler, up to endpoint next. *)
Works == [gateway: Addresses \cup {None}, origin: Origins \cup {"none"},
          override: [Endpoints -> Overrides \cup {None}],
          op: {"none", "apply", "clean"}, next: 1 .. NumEndpoints + 1]

TypeOK ==
  /\ service \in Services
  /\ nodes \subseteq Addresses
  /\ override \in [Endpoints -> Overrides \cup {None}]
  /\ route \in [Addresses -> RouteStates]
  /\ cached \in [Addresses -> RouteStates]
  /\ due \in BOOLEAN
  /\ pass \in Passes
  /\ work \in Works
  /\ routes \in [Endpoints -> SUBSET Addresses]
  /\ changes \in 0 .. MaxChanges /\ faults \in 0 .. MaxFaults

Init ==
  /\ service = "wanted"
  /\ nodes \in {{g} : g \in Addresses}
  /\ override = [e \in Endpoints |-> None]
  /\ route = [g \in Addresses |-> Absent]
  /\ cached = route
  /\ due = TRUE
  /\ pass = Resting
  /\ work = NoWork
  /\ routes = [e \in Endpoints |-> {}]
  /\ changes = 0 /\ faults = 0

--------------------------------------------------------------------------------
(* The next hops. *)

\* Mutant: the first origin stays.
firstClusterRouteOrigin(existing, added) == existing

\* Mutant: the origins are listed instead of merged.
listClusterRouteOrigins(existing, added) == <<existing, added>>

mergeClusterRouteOrigin(existing, added) == IF existing = added THEN added ELSE "both"

NeedNodes == \E e \in Endpoints : override[e] = None

(* Next hops of the endpoints with a gateway, and of those without. *)
Gateways == {override[e] : e \in Endpoints} \ {None}
routeGateways == IF NeedNodes THEN nodes ELSE {}

desiredClusterRouteHops ==
  [g \in Gateways \cup routeGateways |->
     CASE g \notin routeGateways -> "override"
       [] g \notin Gateways -> "nodes"
       [] g \in Gateways \cap routeGateways -> mergeClusterRouteOrigin("override", "nodes")]

(* What the name is to stand for: a cluster address or that of a node. *)
HasAddress == service # "unaddressed"

(* routeGateways fails when it finds no address. *)
HopsFail == NeedNodes /\ nodes = {}

desiredClusterRouteCandidates == IF service = "wanted" THEN desiredClusterRouteHops ELSE <<>>

--------------------------------------------------------------------------------
(* The Service reconciler: reconcileOwnedClusterRoutes for a Service, or   *)
(* deleteLabeledClusterRoutes when it is gone.  A pass computes the        *)
(* candidates and lists the routes, then makes one API call after another. *)
(* With no address for its name, or no next hop, a pass ends before that,  *)
(* and the Service stays in the queue.                                     *)

StartPass ==
  LET hops == desiredClusterRouteCandidates
      stale == {g \in Addresses : cached[g] # Absent} \ DOMAIN hops
      put(g) == [gateway |-> g, origin |-> hops[g]]
  IN /\ due /\ ~pass.running
     /\ HasAddress
     /\ ~(service = "wanted" /\ HopsFail)
     /\ due' = FALSE
     /\ pass' = [puts |-> [i \in DOMAIN SetToSeq(DOMAIN hops) |-> put(SetToSeq(DOMAIN hops)[i])],
                 prune |-> SetToSeq(stale), requeue |-> service = "wanted", running |-> TRUE]
     /\ UNCHANGED <<service, nodes, override, route, cached, work, routes, counts>>

Fails == pass' = Resting /\ due' = TRUE

(* Get, then Create or Update.  Creating a route that the cache does not   *)
(* show yet is no error; updating an outdated copy is.                     *)
PutRoute ==
  LET put == Head(pass.puts)
      g == put.gateway
      done == pass' = [pass EXCEPT !.puts = Tail(@)] /\ UNCHANGED due
  IN /\ pass.puts # <<>>
     /\ \/ /\ cached[g] = Absent
           /\ route' = [route EXCEPT ![g] = IF @ = Absent THEN [phase |-> "new", origin |-> put.origin]
                                                          ELSE @]
           /\ done
        \/ /\ cached[g] # Absent /\ cached[g].origin = put.origin
           /\ done
           /\ UNCHANGED route
        \/ /\ cached[g] # Absent /\ cached[g].origin # put.origin /\ cached[g] = route[g]
           /\ route' = [route EXCEPT ![g].origin = put.origin]
           /\ done
        \/ /\ cached[g] # Absent /\ cached[g].origin # put.origin /\ cached[g] # route[g]
           /\ Fails
           /\ UNCHANGED route
     /\ UNCHANGED <<service, nodes, override, cached, work, routes, counts>>

(* What the API server makes of a deletion. *)
Deleted(r) == IF r.phase = "kept" THEN [r EXCEPT !.phase = "deleted"]
              ELSE IF r.phase = "new" THEN Absent ELSE r

DeleteRoute ==
  /\ pass.running /\ pass.puts = <<>> /\ pass.prune # <<>>
  /\ route' = [route EXCEPT ![Head(pass.prune)] = Deleted(@)]
  /\ pass' = [pass EXCEPT !.prune = Tail(@)]
  /\ UNCHANGED <<service, nodes, override, cached, due, work, routes, counts>>

(* The pass ends.  For a Service with a DNS name there is another one      *)
(* after driftCheckInterval; otherwise only events bring one.              *)
EndPass ==
  /\ pass.running /\ pass.puts = <<>> /\ pass.prune = <<>>
  /\ pass' = Resting
  /\ due' = (due \/ pass.requeue)
  /\ UNCHANGED <<service, nodes, override, route, cached, work, routes, counts>>

Fault == faults < MaxFaults /\ faults' = faults + 1 /\ UNCHANGED changes
Change == changes < MaxChanges /\ changes' = changes + 1 /\ UNCHANGED faults

PassStep == StartPass \/ PutRoute \/ DeleteRoute \/ EndPass

PassFails ==
  /\ Fault
  /\ pass.running
  /\ Fails
  /\ UNCHANGED <<service, nodes, override, route, cached, work, routes>>

--------------------------------------------------------------------------------
(* The route reconciler: one worker, one route at a time. *)

AddFinalizer(g) ==
  /\ work.op = "none"
  /\ cached[g].phase = "new" /\ route[g] = cached[g]
  /\ route' = [route EXCEPT ![g].phase = "kept"]
  /\ UNCHANGED <<service, nodes, override, cached, due, pass, work, routes, counts>>

Operation(r) == IF r.phase = "deleted" THEN "clean" ELSE "apply"

\* Mutant: the route is applied before its finalizer is stored.
ReadyAtOnce(r) == r # Absent

Ready(r) == r.phase \in {"kept", "deleted"}

StartWork(g) ==
  /\ work.op = "none"
  /\ Ready(cached[g])
  /\ work' = [gateway |-> g, origin |-> cached[g].origin, override |-> override,
              op |-> Operation(cached[g]), next |-> 1]
  /\ UNCHANGED <<service, nodes, override, route, cached, due, pass, routes, counts>>

clusterRouteAppliesToEndpoint(e) ==
  IF work.override[e] # None
    THEN work.gateway = work.override[e]
    ELSE work.origin \in {"nodes", "both"}

(* One endpoint: EnsureRouteWithDistance or DeleteRoute. *)
WorkEndpoint ==
  /\ work.op # "none" /\ work.next <= NumEndpoints
  /\ routes' = [routes EXCEPT ![work.next] =
                  IF work.op = "apply" /\ clusterRouteAppliesToEndpoint(work.next)
                    THEN @ \cup {work.gateway}
                    ELSE @ \ {work.gateway}]
  /\ work' = [work EXCEPT !.next = @ + 1]
  /\ UNCHANGED <<service, nodes, override, route, cached, due, pass, counts>>

(* The pass ends; after a cleanup with the removal of the finalizer, which *)
(* fails for a route that changed since it was read.                       *)
EndWork ==
  LET read == [phase |-> "deleted", origin |-> work.origin]
  IN /\ work.op # "none" /\ work.next > NumEndpoints
     /\ route' = IF work.op = "clean" /\ route[work.gateway] = read
                   THEN [route EXCEPT ![work.gateway] = Absent]
                   ELSE route
     /\ work' = NoWork
     /\ UNCHANGED <<service, nodes, override, cached, due, pass, routes, counts>>

WorkFails ==
  /\ Fault
  /\ work.op # "none"
  /\ work' = NoWork
  /\ UNCHANGED <<service, nodes, override, route, cached, due, pass, routes>>

--------------------------------------------------------------------------------
(* Events reach the cache; those of a route put its Service in the queue.  *)
Watch(g) ==
  /\ cached[g] # route[g]
  /\ cached' = [cached EXCEPT ![g] = route[g]]
  /\ due' = TRUE
  /\ UNCHANGED <<service, nodes, override, route, pass, work, routes, counts>>

Crash ==
  /\ Fault
  /\ pass' = Resting /\ work' = NoWork
  /\ cached' = route
  /\ due' = TRUE
  /\ UNCHANGED <<service, nodes, override, route, routes>>

(* Users and the cluster. *)
EditService ==
  /\ Change
  /\ service # "gone"
  /\ service' \in Services \ {service}
  /\ due' = TRUE
  /\ UNCHANGED <<nodes, override, route, cached, pass, work, routes>>

EditRouter ==
  /\ Change
  /\ \E e \in Endpoints, g \in Overrides \cup {None} :
       override[e] # g /\ override' = [override EXCEPT ![e] = g]
  /\ UNCHANGED <<service, nodes, route, cached, due, pass, work, routes>>

EditNodes ==
  /\ Change
  /\ \E g \in Addresses : nodes' = IF g \in nodes THEN nodes \ {g} ELSE nodes \cup {g}
  /\ UNCHANGED <<service, override, route, cached, due, pass, work, routes>>

(* A route is removed on the device. *)
RouteLost ==
  /\ Change
  /\ \E e \in Endpoints : \E g \in routes[e] : routes' = [routes EXCEPT ![e] = @ \ {g}]
  /\ UNCHANGED <<service, nodes, override, route, cached, due, pass, work>>

RouteStep == \E g \in Addresses : AddFinalizer(g) \/ StartWork(g)

Operator ==
  \/ PassStep
  \/ RouteStep \/ WorkEndpoint \/ EndWork
  \/ \E g \in Addresses : Watch(g)

Disturbance == PassFails \/ WorkFails \/ Crash \/ EditService \/ EditRouter \/ EditNodes \/ RouteLost

Next == Operator \/ Disturbance

Spec == Init /\ [][Next]_vars

(* Passes go on, events arrive, and the route reconciler comes back to     *)
(* every route: an event or the drift check queues its key, and the queue  *)
(* is served in turn.                                                      *)
Fairness ==
  /\ WF_vars(PassStep)
  /\ WF_vars(WorkEndpoint \/ EndWork)
  /\ \A g \in Addresses : WF_vars(Watch(g)) /\ SF_vars(AddFinalizer(g) \/ StartWork(g))

FairSpec == Spec /\ Fairness
--------------------------------------------------------------------------------
(* Whatever is on a device has a route object that keeps its finalizer, so *)
(* that deleting the Service, losing its DNS name or a change of gateways  *)
(* still takes it off, however late the cache and the passes are.          *)
RouteKept ==
  \A e \in Endpoints : \A g \in routes[e] : route[g].phase \in {"kept", "deleted"}

(* Why that is so.  A cached route with the finalizer still has it on the  *)
(* server: only a clean-up takes it away, and one is only begun on a       *)
(* deleted route, which never gets back to "kept" before it was absent in  *)
(* the cache, too.  While a route is applied, it keeps the finalizer; when *)
(* it has been cleaned, no endpoint has it.                                *)
CacheBehind ==
  \A g \in Addresses :
    /\ cached[g].phase = "kept" => route[g].phase \in {"kept", "deleted"}
    /\ cached[g].phase = "deleted" => route[g].phase # "kept"

WorkSafe ==
  /\ work.op # "none" => work.gateway \in Addresses
  /\ work.op = "apply" => route[work.gateway].phase \in {"kept", "deleted"}
  /\ work.op = "clean" =>
       /\ route[work.gateway].phase # "kept" /\ cached[work.gateway].phase # "kept"
       /\ \A e \in Endpoints : e < work.next => work.gateway \notin routes[e]

RouteInv == TypeOK /\ RouteKept /\ CacheBehind /\ WorkSafe

(* Each endpoint has the next hops it should have: its gateway or all the  *)
(* nodes, and nothing for a Service that wants no routes or is gone.  One  *)
(* that loses its address keeps the routes it has.                         *)
Settled ==
  CASE service \in {"unwanted", "gone"} ->
         \A e \in Endpoints : routes[e] = {}
    [] service = "wanted" /\ ~HopsFail ->
         \A e \in Endpoints : routes[e] = IF override[e] # None THEN {override[e]} ELSE nodes
    [] service = "wanted" /\ HopsFail -> TRUE
    [] service = "unaddressed" -> TRUE

(* After the last change by users, nodes or faults, every endpoint gets   *)
(* its next hops and keeps them: no pass that worked with an older         *)
(* router, older nodes or an older label has the last word, and the route  *)
(* a pass creates for a Service that is already gone is found and removed. *)
Converges == <>[]Settled
================================================================================
