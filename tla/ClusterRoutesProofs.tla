-------------------------- MODULE ClusterRoutesProofs --------------------------
(***************************************************************************)
(* Proofs about the generated routes of a Service, for any number of       *)
(* endpoints, any finite set of addresses and any number of changes and    *)
(* faults.                                                                 *)
(***************************************************************************)
EXTENDS ClusterRoutes, FiniteSetTheorems, TLAPS

(* A finite set in some order is a sequence of its elements. *)
LEMMA SetToSeqType ==
  ASSUME NEW S, IsFiniteSet(S)
  PROVE  SetToSeq(S) \in Seq(S)
<1>1. Cardinality(S) \in Nat /\ ExistsBijection(1 .. Cardinality(S), S)
  BY FS_CardinalityType
<1>2. \E f \in [1 .. Cardinality(S) -> S] : IsInjective(f)
  BY <1>1 DEF ExistsBijection, Bijection, Injection
<1>3. SetToSeq(S) \in [1 .. Cardinality(S) -> S]
  BY <1>2 DEF SetToSeq
<1> QED BY <1>1, <1>3

(* Next hops are addresses, and each has an origin. *)
LEMMA HopsType ==
  ASSUME TypeOK
  PROVE  /\ DOMAIN desiredClusterRouteCandidates \subseteq Addresses
         /\ \A g \in DOMAIN desiredClusterRouteCandidates :
              desiredClusterRouteCandidates[g] \in Origins
<1> USE ClusterRoutesAssumption
<1>1. CASE service = "wanted"
  <2>1. Gateways \cup routeGateways \subseteq Addresses
    BY DEF TypeOK, Gateways, routeGateways
  <2> QED BY <1>1, <2>1 DEF desiredClusterRouteCandidates, desiredClusterRouteHops,
                          mergeClusterRouteOrigin, Origins
<1>2. CASE service # "wanted"
  BY <1>2 DEF desiredClusterRouteCandidates
<1> QED BY <1>1, <1>2

(* Passes stay well formed. *)
LEMMA PassTypes ==
  /\ Resting \in Passes
  /\ NoWork \in Works
  /\ \A p \in Passes : p.puts # <<>> =>
       /\ Head(p.puts).gateway \in Addresses /\ Head(p.puts).origin \in Origins
       /\ [p EXCEPT !.puts = Tail(@)] \in Passes
  /\ \A p \in Passes : p.prune # <<>> =>
       /\ Head(p.prune) \in Addresses
       /\ [p EXCEPT !.prune = Tail(@)] \in Passes
<1> USE ClusterRoutesAssumption
<1>1. Resting \in Passes
  BY DEF Resting, Passes
<1>2. NoWork \in Works
  BY DEF NoWork, Works, Endpoints
<1>3. ASSUME NEW p \in Passes, p.puts # <<>>
      PROVE  /\ Head(p.puts).gateway \in Addresses /\ Head(p.puts).origin \in Origins
             /\ [p EXCEPT !.puts = Tail(@)] \in Passes
  <2>1. p.puts \in Seq(Puts)
    BY DEF Passes
  <2>2. Head(p.puts) \in Puts /\ Tail(p.puts) \in Seq(Puts)
    BY <2>1, <1>3
  <2> QED BY <2>2 DEF Passes, Puts
<1>4. ASSUME NEW p \in Passes, p.prune # <<>>
      PROVE  /\ Head(p.prune) \in Addresses
             /\ [p EXCEPT !.prune = Tail(@)] \in Passes
  <2>1. p.prune \in Seq(Addresses)
    BY DEF Passes
  <2>2. Head(p.prune) \in Addresses /\ Tail(p.prune) \in Seq(Addresses)
    BY <2>1, <1>4
  <2> QED BY <2>2 DEF Passes
<1> QED BY <1>1, <1>2, <1>3, <1>4

(* The empty table satisfies the invariant. *)
LEMMA RouteInitInv == Init => RouteInv
<1> SUFFICES ASSUME Init PROVE RouteInv
  OBVIOUS
<1> USE ClusterRoutesAssumption
<1>1. TypeOK
  BY DEF Init, TypeOK, Services, RouteStates, Absent, Resting, NoWork, Passes, Works, Puts, Origins, Endpoints
<1>2. RouteKept /\ CacheBehind /\ WorkSafe
  BY DEF Init, RouteKept, CacheBehind, WorkSafe, Absent, NoWork
<1> QED BY <1>1, <1>2 DEF RouteInv

(* What happens to the state of a route: it is created, relabelled, gets   *)
(* its finalizer, or is deleted.                                           *)
LEMMA CreatedState ==
  /\ Absent \in RouteStates /\ Absent.phase = "absent"
  /\ \A o \in Origins : [phase |-> "new", origin |-> o] \in RouteStates
BY DEF RouteStates, Absent

LEMMA RelabelledState ==
  ASSUME NEW r \in RouteStates, NEW o \in Origins, r # Absent
  PROVE  [r EXCEPT !.origin = o] \in RouteStates /\ [r EXCEPT !.origin = o].phase = r.phase
BY DEF RouteStates

LEMMA FinalizerState ==
  ASSUME NEW r \in RouteStates, r.phase = "new"
  PROVE  [r EXCEPT !.phase = "kept"] \in RouteStates /\ [r EXCEPT !.phase = "kept"].phase = "kept"
BY DEF RouteStates, Absent

LEMMA DeletedState ==
  ASSUME NEW r \in RouteStates
  PROVE  /\ Deleted(r) \in RouteStates
         /\ \/ Deleted(r) = r
            \/ r.phase = "kept" /\ Deleted(r).phase = "deleted"
            \/ r.phase = "new" /\ Deleted(r).phase = "absent"
BY DEF RouteStates, Absent, Deleted

LEMMA KeptOrigin ==
  ASSUME NEW r \in RouteStates, r.phase \in {"kept", "deleted"}
  PROVE  r.origin \in Origins
BY DEF RouteStates, Absent

(* The invariant holds on if only the passes and the surroundings change. *)
LEMMA RoutesUntouched ==
  ASSUME RouteInv, UNCHANGED <<route, cached, work, routes>>
  PROVE  RouteKept' /\ CacheBehind' /\ WorkSafe'
BY DEF RouteInv, RouteKept, CacheBehind, WorkSafe

(* The passes of the Service reconciler create, relabel and delete routes, *)
(* but never take away a finalizer or bring one back.                      *)
LEMMA PhaseChanges ==
  ASSUME RouteInv, UNCHANGED <<cached, work, routes>>,
         \A g \in Addresses :
           \/ route'[g].phase = route[g].phase
           \/ route[g].phase = "absent" /\ route'[g].phase = "new"
           \/ route[g].phase = "kept" /\ route'[g].phase = "deleted"
           \/ route[g].phase = "new" /\ route'[g].phase = "absent"
  PROVE  RouteKept' /\ CacheBehind' /\ WorkSafe'
<1>0. RouteKept /\ CacheBehind /\ WorkSafe /\ routes \in [Endpoints -> SUBSET Addresses]
  BY DEF RouteInv, TypeOK
<1>1. RouteKept'
  BY <1>0 DEF RouteKept
<1>2. CacheBehind'
  BY <1>0 DEF CacheBehind
<1>3. WorkSafe'
  BY <1>0 DEF WorkSafe
<1> QED BY <1>1, <1>2, <1>3

LEMMA PassInv ==
  ASSUME RouteInv, PassStep
  PROVE  RouteInv'
<1> USE ClusterRoutesAssumption
<1>0. TypeOK
  BY DEF RouteInv
<1>t. route \in [Addresses -> RouteStates] /\ pass \in Passes /\ due \in BOOLEAN
  BY <1>0 DEF TypeOK
<1>1. CASE StartPass
  <2> DEFINE hops == desiredClusterRouteCandidates
             stale == {g \in Addresses : cached[g] # Absent} \ DOMAIN hops
             order == SetToSeq(DOMAIN hops)
             puts == [i \in DOMAIN order |-> [gateway |-> order[i], origin |-> hops[order[i]]]]
  <2>1. /\ pass' = [puts |-> puts, prune |-> SetToSeq(stale),
                    requeue |-> service = "wanted", running |-> TRUE]
        /\ due' = FALSE
        /\ UNCHANGED <<service, nodes, override, route, cached, work, routes, changes, faults>>
    BY <1>1 DEF StartPass, counts
  <2>2. order \in Seq(DOMAIN hops)
    <3>1. IsFiniteSet(DOMAIN hops)
      BY <1>0, HopsType, FS_Subset
    <3> QED BY <3>1, SetToSeqType
  <2>3. SetToSeq(stale) \in Seq(stale) /\ stale \subseteq Addresses
    <3>1. IsFiniteSet(stale)
      BY FS_Subset
    <3> QED BY <3>1, SetToSeqType
  <2>4. DOMAIN hops \subseteq Addresses /\ \A g \in DOMAIN hops : hops[g] \in Origins
    BY <1>0, HopsType
  <2> HIDE DEF hops, stale
  <2>5. Len(order) \in Nat /\ DOMAIN order = 1 .. Len(order)
        /\ \A i \in 1 .. Len(order) : order[i] \in DOMAIN hops
    BY <2>2
  <2> HIDE DEF order
  <2>6. puts \in [1 .. Len(order) -> Puts]
    BY <2>4, <2>5 DEF Puts
  <2> HIDE DEF puts
  <2>7. puts \in Seq(Puts)
    BY <2>5, <2>6
  <2>8. SetToSeq(stale) \in Seq(Addresses)
    BY <2>3
  <2>9. pass' \in Passes
    BY <2>1, <2>7, <2>8 DEF Passes
  <2>10. TypeOK'
    BY <1>0, <2>1, <2>9 DEF TypeOK
  <2> QED BY <2>1, <2>10, RoutesUntouched DEF RouteInv
<1>2. CASE PutRoute
  <2> DEFINE put == Head(pass.puts)
             g == put.gateway
  <2>1. g \in Addresses /\ put.origin \in Origins
    BY <1>t, <1>2, PassTypes DEF PutRoute
  <2>2. UNCHANGED <<service, nodes, override, cached, work, routes, changes, faults>>
    BY <1>2 DEF PutRoute, counts
  <2>3. pass' \in Passes /\ due' \in BOOLEAN
    <3>1. pass.puts # <<>> /\ pass' \in {Resting, [pass EXCEPT !.puts = Tail(@)]}
          /\ due' \in {TRUE, due}
      BY <1>2 DEF PutRoute, Fails
    <3> QED BY <1>t, <3>1, PassTypes
  <2>4. PICK v \in RouteStates :
          /\ route' = [route EXCEPT ![g] = v]
          /\ v.phase = route[g].phase \/ (route[g].phase = "absent" /\ v.phase = "new")
    <3> DEFINE created == [phase |-> "new", origin |-> put.origin]
               relabelled == [route[g] EXCEPT !.origin = put.origin]
    <3>1. \/ route' = [route EXCEPT ![g] = route[g]]
          \/ route[g] = Absent /\ route' = [route EXCEPT ![g] = created]
          \/ route[g] # Absent /\ route' = [route EXCEPT ![g] = relabelled]
      BY <1>t, <1>2, <2>1 DEF PutRoute
    <3>2. route[g] \in RouteStates
      BY <1>t, <2>1
    <3>3. created \in RouteStates /\ created.phase = "new" /\ Absent.phase = "absent"
      BY <2>1, CreatedState
    <3>4. route[g] # Absent => relabelled \in RouteStates /\ relabelled.phase = route[g].phase
      BY <2>1, <3>2, RelabelledState
    <3> HIDE DEF created, relabelled, g
    <3>5. CASE route' = [route EXCEPT ![g] = route[g]]
      BY <3>2, <3>5
    <3>6. CASE route[g] = Absent /\ route' = [route EXCEPT ![g] = created]
      BY <3>3, <3>6
    <3>7. CASE route[g] # Absent /\ route' = [route EXCEPT ![g] = relabelled]
      BY <3>4, <3>7
    <3> QED BY <3>1, <3>5, <3>6, <3>7
  <2> HIDE DEF put, g
  <2>5. route' \in [Addresses -> RouteStates]
    BY <1>t, <2>1, <2>4
  <2>6. TypeOK'
    BY <1>0, <2>2, <2>3, <2>5 DEF TypeOK
  <2>7. \A h \in Addresses : \/ route'[h].phase = route[h].phase
                             \/ route[h].phase = "absent" /\ route'[h].phase = "new"
    BY <1>t, <2>1, <2>4
  <2> QED BY <2>2, <2>6, <2>7, PhaseChanges DEF RouteInv
<1>3. CASE DeleteRoute
  <2> DEFINE g == Head(pass.prune)
  <2>1. g \in Addresses /\ pass' \in Passes
    BY <1>t, <1>3, PassTypes DEF DeleteRoute
  <2>2. /\ route' = [route EXCEPT ![g] = Deleted(route[g])]
        /\ UNCHANGED <<service, nodes, override, cached, due, work, routes, changes, faults>>
    BY <1>3 DEF DeleteRoute, counts
  <2> HIDE DEF g
  <2>d. /\ Deleted(route[g]) \in RouteStates
        /\ \/ Deleted(route[g]) = route[g]
           \/ route[g].phase = "kept" /\ Deleted(route[g]).phase = "deleted"
           \/ route[g].phase = "new" /\ Deleted(route[g]).phase = "absent"
    BY <1>t, <2>1, DeletedState
  <2>3. route' \in [Addresses -> RouteStates]
    BY <1>t, <2>1, <2>2, <2>d
  <2>4. \A h \in Addresses : \/ route'[h].phase = route[h].phase
                             \/ route[h].phase = "kept" /\ route'[h].phase = "deleted"
                             \/ route[h].phase = "new" /\ route'[h].phase = "absent"
    BY <1>t, <2>1, <2>2, <2>d
  <2>5. TypeOK'
    BY <1>0, <2>1, <2>2, <2>3 DEF TypeOK
  <2> QED BY <2>2, <2>4, <2>5, PhaseChanges DEF RouteInv
<1>4. CASE EndPass
  <2>1. pass' = Resting /\ due' \in BOOLEAN
    BY <1>t, <1>4 DEF EndPass, Passes
  <2>2. UNCHANGED <<service, nodes, override, route, cached, work, routes, changes, faults>>
    BY <1>4 DEF EndPass, counts
  <2>3. TypeOK'
    BY <1>0, <2>1, <2>2, PassTypes DEF TypeOK
  <2> QED BY <2>2, <2>3, RoutesUntouched DEF RouteInv
<1> QED BY <1>1, <1>2, <1>3, <1>4 DEF PassStep

(* The route reconciler: a finalizer is stored before a route is applied,  *)
(* and removed after it was taken off every endpoint.                      *)
LEMMA WorkInv ==
  ASSUME RouteInv, RouteStep \/ WorkEndpoint \/ EndWork
  PROVE  RouteInv'
<1> USE ClusterRoutesAssumption
<1>0. TypeOK /\ RouteKept /\ CacheBehind /\ WorkSafe
  BY DEF RouteInv
<1>t. /\ route \in [Addresses -> RouteStates] /\ cached \in [Addresses -> RouteStates]
      /\ routes \in [Endpoints -> SUBSET Addresses]
      /\ work.op \in {"none", "apply", "clean"} /\ work.next \in 1 .. NumEndpoints + 1
  BY <1>0 DEF TypeOK, Works
<1>1. ASSUME NEW g \in Addresses, AddFinalizer(g) PROVE RouteInv'
  <2>1. /\ work.op = "none" /\ cached[g].phase = "new" /\ route[g].phase = "new"
        /\ route' = [route EXCEPT ![g] = [route[g] EXCEPT !.phase = "kept"]]
        /\ UNCHANGED <<service, nodes, override, cached, due, pass, work, routes,
                       changes, faults>>
    BY <1>1 DEF AddFinalizer, counts
  <2>a. /\ [route[g] EXCEPT !.phase = "kept"] \in RouteStates
        /\ [route[g] EXCEPT !.phase = "kept"].phase = "kept"
    BY <1>t, <2>1, FinalizerState
  <2>2. route' \in [Addresses -> RouteStates]
    BY <1>t, <2>1, <2>a
  <2>3. TypeOK'
    BY <1>0, <2>1, <2>2 DEF TypeOK
  <2>4. \A h \in Addresses : IF h = g THEN route'[h].phase = "kept" ELSE route'[h] = route[h]
    BY <1>t, <2>1, <2>a
  <2>5. RouteKept' /\ CacheBehind' /\ WorkSafe'
    BY <1>0, <1>t, <2>1, <2>4 DEF RouteKept, CacheBehind, WorkSafe
  <2> QED BY <2>3, <2>5 DEF RouteInv
<1>2. ASSUME NEW g \in Addresses, StartWork(g) PROVE RouteInv'
  <2>1. /\ cached[g].phase \in {"kept", "deleted"}
        /\ work' = [gateway |-> g, origin |-> cached[g].origin, override |-> override,
                    op |-> Operation(cached[g]), next |-> 1]
        /\ UNCHANGED <<service, nodes, override, route, cached, due, pass, routes,
                       changes, faults>>
    BY <1>2 DEF StartWork, Ready, counts
  <2>2. /\ work'.op = (IF cached[g].phase = "deleted" THEN "clean" ELSE "apply")
        /\ work'.gateway = g /\ work'.next = 1
    BY <2>1 DEF Operation
  <2>3. work' \in Works
    <3>1. cached[g].origin \in Origins
      BY <1>t, <2>1, KeptOrigin
    <3>2. override \in [Endpoints -> Overrides \cup {None}]
      BY <1>0 DEF TypeOK
    <3> QED BY <2>1, <3>1, <3>2 DEF Works, Operation
  <2>4. TypeOK'
    BY <1>0, <2>1, <2>3 DEF TypeOK
  <2>5. RouteKept' /\ CacheBehind'
    BY <1>0, <2>1 DEF RouteKept, CacheBehind
  <2>6. WorkSafe'
    BY <1>0, <2>1, <2>2 DEF CacheBehind, WorkSafe, Endpoints
  <2> QED BY <2>4, <2>5, <2>6 DEF RouteInv
<1>3. CASE WorkEndpoint
  <2> DEFINE n == work.next
  <2>1. /\ n \in Endpoints /\ work.op # "none"
        /\ work' = [work EXCEPT !.next = n + 1]
        /\ UNCHANGED <<service, nodes, override, route, cached, due, pass, changes, faults>>
    BY <1>3, <1>t DEF WorkEndpoint, Endpoints, counts
  <2>2. \/ work.op = "apply"
           /\ routes' = [routes EXCEPT ![n] = routes[n] \cup {work.gateway}]
        \/ routes' = [routes EXCEPT ![n] = routes[n] \ {work.gateway}]
    BY <1>3 DEF WorkEndpoint
  <2>3. /\ work' \in Works
        /\ work'.op = work.op /\ work'.gateway = work.gateway /\ work'.next = n + 1
    <3>1. work \in Works /\ n \in 1 .. NumEndpoints
      BY <1>0, <2>1 DEF TypeOK, Endpoints
    <3> QED BY <2>1, <3>1 DEF Works
  <2> HIDE DEF n
  <2>4. routes' \in [Endpoints -> SUBSET Addresses]
    BY <1>0, <1>t, <2>1, <2>2 DEF WorkSafe
  <2>5. TypeOK'
    BY <1>0, <2>1, <2>3, <2>4 DEF TypeOK
  <2>6. RouteKept' /\ CacheBehind'
    BY <1>0, <1>t, <2>1, <2>2 DEF RouteKept, CacheBehind, WorkSafe
  <2>7. WorkSafe'
    <3>1. work.op = "clean" => routes' = [routes EXCEPT ![n] = routes[n] \ {work.gateway}]
      BY <2>2
    <3>2. \A e \in Endpoints : e < n + 1 => e < n \/ e = n
      BY <2>1 DEF Endpoints
    <3> QED BY <1>0, <1>t, <2>1, <2>3, <3>1, <3>2 DEF WorkSafe, n
  <2> QED BY <2>5, <2>6, <2>7 DEF RouteInv
<1>4. CASE EndWork
  <2>1. /\ work.op # "none" /\ work.next > NumEndpoints
        /\ work' = NoWork
        /\ UNCHANGED <<service, nodes, override, cached, due, pass, routes, changes, faults>>
    BY <1>4 DEF EndWork, counts
  <2>2. WorkSafe'
    BY <2>1 DEF WorkSafe, NoWork
  <2>3. CASE route' = route
    <3>1. TypeOK'
      BY <1>0, <2>1, <2>3, PassTypes DEF TypeOK
    <3>2. RouteKept' /\ CacheBehind'
      BY <1>0, <2>1, <2>3 DEF RouteKept, CacheBehind
    <3> QED BY <2>2, <3>1, <3>2 DEF RouteInv
  <2>4. CASE work.op = "clean" /\ route' = [route EXCEPT ![work.gateway] = Absent]
    <3>1. work.gateway \in Addresses /\ route' \in [Addresses -> RouteStates]
      BY <1>0, <1>t, <2>4, CreatedState DEF WorkSafe
    <3>2. TypeOK'
      BY <1>0, <2>1, <3>1, PassTypes DEF TypeOK
    <3>3. \A e \in Endpoints : e < work.next
      BY <1>t, <2>1 DEF Endpoints
    <3>4. \A e \in Endpoints : work.gateway \notin routes[e]
      BY <1>0, <2>4, <3>3 DEF WorkSafe
    <3>5. RouteKept'
      BY <1>0, <1>t, <2>1, <2>4, <3>4 DEF RouteKept
    <3>6. CacheBehind'
      BY <1>0, <1>t, <2>1, <2>4, CreatedState DEF CacheBehind, WorkSafe
    <3> QED BY <2>2, <3>2, <3>5, <3>6 DEF RouteInv
  <2> QED BY <1>4, <2>3, <2>4 DEF EndWork
<1> QED BY <1>1, <1>2, <1>3, <1>4 DEF RouteStep

(* The watch, users, nodes, devices, failures and crashes. *)
LEMMA EnvironmentInv ==
  ASSUME RouteInv, Disturbance \/ \E g \in Addresses : Watch(g)
  PROVE  RouteInv'
<1> USE ClusterRoutesAssumption
<1>0. TypeOK /\ RouteKept /\ CacheBehind /\ WorkSafe
  BY DEF RouteInv
<1>t. /\ route \in [Addresses -> RouteStates] /\ cached \in [Addresses -> RouteStates]
      /\ routes \in [Endpoints -> SUBSET Addresses]
      /\ changes \in 0 .. MaxChanges /\ faults \in 0 .. MaxFaults
  BY <1>0 DEF TypeOK
<1>f. Fault => faults' \in 0 .. MaxFaults /\ changes' = changes
  BY <1>t DEF Fault
<1>c. Change => changes' \in 0 .. MaxChanges /\ faults' = faults
  BY <1>t DEF Change
<1>1. ASSUME NEW g \in Addresses, Watch(g) PROVE RouteInv'
  <2>1. /\ cached' = [cached EXCEPT ![g] = route[g]] /\ due' = TRUE
        /\ UNCHANGED <<service, nodes, override, route, pass, work, routes, changes, faults>>
    BY <1>1 DEF Watch, counts
  <2>2. TypeOK'
    BY <1>0, <1>t, <2>1 DEF TypeOK
  <2>3. RouteKept' /\ CacheBehind' /\ WorkSafe'
    BY <1>0, <1>t, <2>1 DEF RouteKept, CacheBehind, WorkSafe
  <2> QED BY <2>2, <2>3 DEF RouteInv
<1>2. CASE PassFails
  <2>1. UNCHANGED <<service, nodes, override, route, cached, work, routes>>
        /\ pass' = Resting /\ due' = TRUE /\ Fault
    BY <1>2 DEF PassFails, Fails
  <2>2. TypeOK'
    BY <1>0, <1>f, <2>1, PassTypes DEF TypeOK
  <2> QED BY <2>1, <2>2, RoutesUntouched DEF RouteInv
<1>3. CASE WorkFails
  <2>1. UNCHANGED <<service, nodes, override, route, cached, due, pass, routes>>
        /\ work' = NoWork /\ Fault
    BY <1>3 DEF WorkFails
  <2>2. TypeOK'
    BY <1>0, <1>f, <2>1, PassTypes DEF TypeOK
  <2>3. RouteKept' /\ CacheBehind' /\ WorkSafe'
    BY <1>0, <2>1 DEF RouteKept, CacheBehind, WorkSafe, NoWork
  <2> QED BY <2>2, <2>3 DEF RouteInv
<1>4. CASE Crash
  <2>1. UNCHANGED <<service, nodes, override, route, routes>>
        /\ pass' = Resting /\ work' = NoWork /\ cached' = route /\ due' = TRUE /\ Fault
    BY <1>4 DEF Crash
  <2>2. TypeOK'
    BY <1>0, <1>f, <2>1, PassTypes DEF TypeOK
  <2>3. RouteKept' /\ CacheBehind' /\ WorkSafe'
    BY <1>0, <2>1 DEF RouteKept, CacheBehind, WorkSafe, NoWork
  <2> QED BY <2>2, <2>3 DEF RouteInv
<1>5. CASE EditService
  <2>1. UNCHANGED <<nodes, override, route, cached, pass, work, routes>>
        /\ service' \in Services /\ due' = TRUE /\ Change
    BY <1>5 DEF EditService
  <2>2. TypeOK'
    BY <1>0, <1>c, <2>1 DEF TypeOK
  <2> QED BY <2>1, <2>2, RoutesUntouched DEF RouteInv
<1>6. CASE EditRouter
  <2>1. UNCHANGED <<service, nodes, route, cached, due, pass, work, routes>> /\ Change
    BY <1>6 DEF EditRouter
  <2>2. override' \in [Endpoints -> Overrides \cup {None}]
    BY <1>0, <1>6 DEF EditRouter, TypeOK
  <2>3. TypeOK'
    BY <1>0, <1>c, <2>1, <2>2 DEF TypeOK
  <2> QED BY <2>1, <2>3, RoutesUntouched DEF RouteInv
<1>7. CASE EditNodes
  <2>1. UNCHANGED <<service, override, route, cached, due, pass, work, routes>> /\ Change
    BY <1>7 DEF EditNodes
  <2>2. nodes' \subseteq Addresses
    BY <1>0, <1>7 DEF EditNodes, TypeOK
  <2>3. TypeOK'
    BY <1>0, <1>c, <2>1, <2>2 DEF TypeOK
  <2> QED BY <2>1, <2>3, RoutesUntouched DEF RouteInv
<1>8. CASE RouteLost
  <2>1. UNCHANGED <<service, nodes, override, route, cached, due, pass, work>> /\ Change
    BY <1>8 DEF RouteLost
  <2>2. PICK e \in Endpoints : \E g \in routes[e] : routes' = [routes EXCEPT ![e] = @ \ {g}]
    BY <1>8 DEF RouteLost
  <2>3. routes' \in [Endpoints -> SUBSET Addresses] /\ \A d \in Endpoints : routes'[d] \subseteq routes[d]
    BY <1>t, <2>2
  <2>4. TypeOK'
    BY <1>0, <1>c, <2>1, <2>3 DEF TypeOK
  <2>5. RouteKept' /\ CacheBehind' /\ WorkSafe'
    BY <1>0, <1>t, <2>1, <2>3 DEF RouteKept, CacheBehind, WorkSafe
  <2> QED BY <2>4, <2>5 DEF RouteInv
<1> QED BY <1>1, <1>2, <1>3, <1>4, <1>5, <1>6, <1>7, <1>8 DEF Disturbance

(* Type correctness, and the invariant that explains RouteKept. *)
THEOREM RouteInvariant == Spec => []RouteInv
<1>1. RouteInv /\ UNCHANGED vars => RouteInv'
  BY DEF vars, RouteInv, TypeOK, RouteKept, CacheBehind, WorkSafe
<1>2. RouteInv /\ [Next]_vars => RouteInv'
  BY <1>1, PassInv, WorkInv, EnvironmentInv DEF Next, Operator
<1> QED BY <1>2, RouteInitInv, PTL DEF Spec

(* Whatever next hop is on a device, the route object of it still has the  *)
(* finalizer that makes the route reconciler take it off: no order of the  *)
(* passes of the two reconcilers, of cache updates, crashes and changes to *)
(* the router or the Service leaves a route behind that nothing removes.   *)
THEOREM RoutesAreKept == Spec => []RouteKept
<1>1. RouteInv => RouteKept
  BY DEF RouteInv
<1> QED BY <1>1, RouteInvariant, PTL

(* Every variable keeps its type; in particular a pass only ever holds     *)
(* next hops that are addresses.                                           *)
THEOREM RouteTypes == Spec => []TypeOK
<1>1. RouteInv => TypeOK
  BY DEF RouteInv
<1> QED BY <1>1, RouteInvariant, PTL
================================================================================
