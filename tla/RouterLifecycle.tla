---------------------------- MODULE RouterLifecycle ----------------------------
(***************************************************************************)
(* The life of MikroTikRouter objects: RouterReconciler and the helpers of *)
(* internal/controller, together with the resource controllers that write  *)
(* to the routers' devices (withRouterConnections), the API server and its *)
(* watch, the users, and operator restarts.                                *)
(*                                                                         *)
(* The state of an object is a history: hist[r] is the sequence of         *)
(* versions the API server stored since the one in the operator's informer *)
(* cache, so its head is what every controller of the process reads and    *)
(* its last element is what the server holds.  An update by the operator   *)
(* succeeds only on the server's version (resourceVersion conflict).       *)
(*                                                                         *)
(* An endpoint is its endpointKey (address, port, TLS).  A device holds    *)
(* entries <<r, w>>: written by resource controller w while it worked on   *)
(* router r.  DeleteManagedConfiguration wipes a device whatever router    *)
(* its entries came from.                                                  *)
(***************************************************************************)
EXTENDS Naturals, Sequences, FiniteSets

CONSTANTS Routers,    \* object names, ordered as owners are sorted
          Endpoints,  \* endpoint keys
          Malformed,  \* endpoints with a blank address or secret name
          Specs,      \* bound: Specs[r], the specs users may give router r
          Workers,    \* resource controllers, one worker goroutine each
          MaxLag,     \* bound: versions the cache may be behind
          Nobody      \* no goroutine

ASSUME LifecycleAssumption ==
  /\ Routers \subseteq Nat \ {0}
  /\ Malformed \subseteq Endpoints
  /\ Specs \in [Routers -> SUBSET SUBSET Endpoints]
  /\ MaxLag \in Nat \ {0}
  /\ Nobody \notin Workers \cup {"router"}
  /\ "router" \notin Workers

VARIABLES hist,      \* hist[r]: versions from the cached to the stored one
          dev,       \* dev[e]: managed entries on the device
          fence,     \* fence[r]: holder of the routerOperationFences key
          queue,     \* keys in the work queue of the router controller
          rpc,       \* where RouterReconciler.Reconcile is
          rkey,      \* its request
          robj,      \* the object it read under the fence
          rfresh,    \* robj still carries the server's resourceVersion
          rtodo,     \* endpoints it has still to look at
          rown,      \* endpoints it found unclaimed and has to wipe
          wpc,       \* where each resource controller is
          wkey,      \* the router it works on
          wtodo,     \* endpoints of its connections not yet served
          left       \* left[e]: entries a sweep left to another claimant

apiVars == <<hist, queue>>
rVars == <<rpc, rkey, robj, rfresh, rtodo, rown>>
wVars == <<wpc, wkey, wtodo>>
devVars == <<dev, left>>
vars == <<hist, dev, fence, queue, rpc, rkey, robj, rfresh, rtodo, rown,
          wpc, wkey, wtodo, left>>

(* No request in progress. *)
NoRouter == 0

Version == [exists: BOOLEAN, deleting: BOOLEAN, fin: BOOLEAN,
            spec: SUBSET Endpoints, applied: SUBSET Endpoints,
            connected: BOOLEAN]

Absent == [exists |-> FALSE, deleting |-> FALSE, fin |-> FALSE,
           spec |-> {}, applied |-> {}, connected |-> FALSE]

New(spec) == [Absent EXCEPT !.exists = TRUE, !.spec = spec]

Cached(r) == Head(hist[r])
Stored(r) == hist[r][Len(hist[r])]
Versions(r) == {hist[r][i] : i \in DOMAIN hist[r]}

Entry == Routers \X Workers

(* What a sweep may dial. *)
WellFormed == Endpoints \ Malformed

TypeOK ==
  /\ hist \in [Routers -> Seq(Version) \ {<<>>}]
  /\ dev \in [Endpoints -> SUBSET Entry]
  /\ fence \in [Routers -> Workers \cup {"router", Nobody}]
  /\ queue \in SUBSET Routers
  /\ rpc \in {"idle", "waitApply", "waitDelete", "sweep", "wipe",
              "claims", "finalize", "fail", "failRecorded"}
  /\ rkey \in Routers \cup {NoRouter}
  /\ robj \in Version
  /\ rfresh \in BOOLEAN
  /\ rtodo \in SUBSET WellFormed
  /\ rown \in SUBSET WellFormed
  /\ wpc \in [Workers -> {"idle", "apply", "cleanup"}]
  /\ wkey \in [Workers -> Routers \cup {NoRouter}]
  /\ wtodo \in [Workers -> SUBSET Endpoints]
  /\ left \in [Endpoints -> SUBSET Entry]

LifecycleInit ==
  /\ hist = [r \in Routers |-> <<Absent>>]
  /\ dev = [e \in Endpoints |-> {}]
  /\ fence = [r \in Routers |-> Nobody]
  /\ queue = {}
  /\ rpc = "idle" /\ rkey = NoRouter /\ robj = Absent /\ rfresh = FALSE
  /\ rtodo = {} /\ rown = {}
  /\ wpc = [w \in Workers |-> "idle"]
  /\ wkey = [w \in Workers |-> NoRouter]
  /\ wtodo = [w \in Workers |-> {}]
  /\ left = [e \in Endpoints |-> {}]

--------------------------------------------------------------------------------
(* Predicates of the code over the cached objects. *)

validateRouterEndpoints(v) == v.spec # {} /\ v.spec \cap Malformed = {}

(* The other routers the cache shows as alive and naming endpoint e. *)
claimants(r, e) ==
  {c \in Routers \ {r} : Cached(c).exists /\ ~Cached(c).deleting /\ e \in Cached(c).spec}

endpointClaimedByOtherRouter(r, e) == claimants(r, e) # {}

(* The first claimant in name order owns the endpoint. *)
ensureRouterEndpointOwnership(r, v) ==
  \A e \in v.spec : \A c \in claimants(r, e) : r < c

routerHasDurableCurrentEndpoints(v) == v.applied = v.spec /\ v.spec # {}

ensureRouterActive(r, v) ==
  /\ ~v.deleting
  /\ v.fin
  /\ routerHasDurableCurrentEndpoints(v)
  /\ ensureRouterEndpointOwnership(r, v)

\* Mutant: clean up the endpoints of the spec, not of the history.
currentEndpoints(v) == v.spec \ Malformed

routerCleanupEndpoints(v) ==
  (IF v.applied = {} THEN v.spec ELSE v.applied) \ Malformed

durableRouterEndpointUnion(previous, current) == previous \cup current

\* Mutant: recorded endpoints with a blank address are swept like the others.
removedWithBlanks(v) == v.applied \ v.spec

removedEndpoints(v) == (v.applied \ Malformed) \ v.spec

--------------------------------------------------------------------------------
(* The API server. *)

(* A write the server accepts: a new version, which robj does not have. *)
Store(r, v) ==
  /\ hist' = [hist EXCEPT ![r] = Append(@, v)]
  /\ rfresh' = (rfresh /\ r # rkey)

(* Kubernetes removes an object that is deleting and has no finalizer. *)
Finalized(v) == IF v.deleting /\ ~v.fin THEN Absent ELSE v

(* Users create, edit and delete routers (kubectl or the admin UI). *)
UserCreate(r) ==
  /\ Len(hist[r]) <= MaxLag
  /\ ~Stored(r).exists
  /\ \E spec \in Specs[r] : Store(r, New(spec))
  /\ UNCHANGED <<devVars, fence, queue, rpc, rkey, robj, rtodo, rown, wVars>>

UserEdit(r) ==
  /\ Len(hist[r]) <= MaxLag
  /\ Stored(r).exists
  /\ \E spec \in Specs[r] \ {Stored(r).spec} :
       Store(r, [Stored(r) EXCEPT !.spec = spec])
  /\ UNCHANGED <<devVars, fence, queue, rpc, rkey, robj, rtodo, rown, wVars>>

UserDelete(r) ==
  /\ Len(hist[r]) <= MaxLag
  /\ Stored(r).exists /\ ~Stored(r).deleting
  /\ Store(r, Finalized([Stored(r) EXCEPT !.deleting = TRUE]))
  /\ UNCHANGED <<devVars, fence, queue, rpc, rkey, robj, rtodo, rown, wVars>>

(* The watch delivers the next version: the cache moves on and the key is  *)
(* enqueued (a delete event enqueues it too).                              *)
Deliver(r) ==
  /\ Len(hist[r]) > 1
  /\ hist' = [hist EXCEPT ![r] = Tail(@)]
  /\ queue' = queue \cup {r}
  /\ UNCHANGED <<devVars, fence, rVars, wVars>>

(* A delayed re-queueing of an earlier pass falls due; the cache may not   *)
(* show the last write yet.  (Nobody looks at the queue before the worker  *)
(* is idle, so that is early enough.)                                      *)
Wake(r) ==
  /\ rpc = "idle" /\ r \notin queue
  /\ queue' = queue \cup {r}
  /\ UNCHANGED <<hist, devVars, fence, rVars, wVars>>

(* The process dies or loses its lease and another one starts: fences and  *)
(* in-flight work are gone, the cache is filled by a list of the server's  *)
(* objects and every object found is enqueued.                             *)
Restart ==
  /\ hist' = [r \in Routers |-> <<Stored(r)>>]
  /\ queue' = {r \in Routers : Stored(r).exists}
  /\ fence' = [r \in Routers |-> Nobody]
  /\ rpc' = "idle" /\ rkey' = NoRouter /\ robj' = Absent /\ rfresh' = FALSE
  /\ rtodo' = {} /\ rown' = {}
  /\ wpc' = [w \in Workers |-> "idle"]
  /\ wkey' = [w \in Workers |-> NoRouter]
  /\ wtodo' = [w \in Workers |-> {}]
  /\ UNCHANGED devVars

--------------------------------------------------------------------------------
(* RouterReconciler.Reconcile before the fence.  Everything up to its one  *)
(* write works on the object read first, so it is one step: had the server *)
(* a newer version, the write would be refused.                            *)

StayIdle == UNCHANGED <<devVars, fence, rpc, rkey, robj, rtodo, rown, wVars>>

(* The update succeeds if the cache is current; it may fail in any case,   *)
(* and then the error puts the key back into the queue.  The success       *)
(* returns Result{}: the watch event of the write brings the key back.     *)
UpdateOrRetry(r, v) ==
  \/ /\ Len(hist[r]) = 1
     /\ Store(r, v)
     /\ queue' = queue \ {r}
  \/ UNCHANGED <<hist, queue, rfresh>>

\* Mutant: a failed router is not queued again.
failRouterForGood(r, v) ==
  /\ \/ /\ v.connected
        /\ Len(hist[r]) = 1
        /\ Store(r, [v EXCEPT !.connected = FALSE])
     \/ UNCHANGED <<hist, rfresh>>
  /\ queue' = queue \ {r}

(* failRouter: Connected becomes false; the key comes back in a minute. *)
failRouter(r, v) ==
  /\ \/ /\ v.connected
        /\ Len(hist[r]) = 1
        /\ Store(r, [v EXCEPT !.connected = FALSE])
     \/ UNCHANGED <<hist, rfresh>>
  /\ UNCHANGED queue

RouterGone(r) ==
  /\ rpc = "idle" /\ r \in queue
  /\ ~Cached(r).exists
  /\ queue' = queue \ {r}
  /\ UNCHANGED <<hist, rfresh>>
  /\ StayIdle

RouterRejected(r) ==
  /\ rpc = "idle" /\ r \in queue
  /\ Cached(r).exists /\ ~Cached(r).deleting
  /\ \/ ~validateRouterEndpoints(Cached(r))
     \/ Cached(r).fin /\ ~ensureRouterEndpointOwnership(r, Cached(r))
  /\ failRouter(r, Cached(r))
  /\ StayIdle

AddFinalizer(r) ==
  /\ rpc = "idle" /\ r \in queue
  /\ Cached(r).exists /\ ~Cached(r).deleting
  /\ validateRouterEndpoints(Cached(r))
  /\ ~Cached(r).fin
  /\ UpdateOrRetry(r, [Cached(r) EXCEPT !.fin = TRUE])
  /\ StayIdle

(* Past the checks, the endpoints about to be contacted become durable     *)
(* before anything is sent to them ...                                     *)
Accepted(r) ==
  /\ Cached(r).exists /\ ~Cached(r).deleting /\ Cached(r).fin
  /\ validateRouterEndpoints(Cached(r))
  /\ ensureRouterEndpointOwnership(r, Cached(r))

History(r) == durableRouterEndpointUnion(Cached(r).applied, Cached(r).spec)

RecordHistory(r) ==
  /\ rpc = "idle" /\ r \in queue
  /\ Accepted(r)
  /\ History(r) # Cached(r).applied
  /\ UpdateOrRetry(r, [Cached(r) EXCEPT !.applied = History(r)])
  /\ StayIdle

(* ... and a later pass waits for the fence, to apply or to finalize. *)
AwaitFence(r) ==
  /\ rpc = "idle" /\ r \in queue
  /\ \/ /\ Accepted(r) /\ History(r) = Cached(r).applied
        /\ rpc' = "waitApply"
     \/ /\ Cached(r).exists /\ Cached(r).deleting
        /\ rpc' = "waitDelete"
  /\ rkey' = r
  /\ queue' = queue \ {r}
  /\ UNCHANGED <<hist, devVars, fence, robj, rfresh, rtodo, rown, wVars>>

--------------------------------------------------------------------------------
(* Under the fence.  Taking it and reading the object again is one step:   *)
(* whoever holds it longer only delays others.                             *)

\* Mutant: the router controller does not take the fence.
ReadUnlocked(r) ==
  /\ robj' = Cached(r)
  /\ rfresh' = (Len(hist[r]) = 1)

ReadLocked(r) ==
  /\ fence[r] = Nobody
  /\ robj' = Cached(r)
  /\ rfresh' = (Len(hist[r]) = 1)

Leave(r, requeue) ==
  /\ rpc' = "idle" /\ rkey' = NoRouter
  /\ fence' = [fence EXCEPT ![r] = Nobody]
  /\ queue' = IF requeue THEN queue \cup {r} ELSE queue
  /\ rtodo' = {} /\ rown' = {} /\ robj' = Absent /\ rfresh' = FALSE

(* reconcileDeletionLocked begins. *)
BeginDeletion(r) ==
  /\ Cached(r).exists /\ Cached(r).deleting /\ Cached(r).fin
  /\ ReadLocked(r)
  /\ fence' = [fence EXCEPT ![r] = "router"]
  /\ rpc' = "claims"
  /\ rtodo' = routerCleanupEndpoints(Cached(r))
  /\ rown' = {}
  /\ UNCHANGED <<queue, rkey>>

(* Nothing to do under the fence: the object is gone or no longer deleting *)
(* (deletion path), or gone (apply path, which fails and comes back).      *)
NothingLocked(r) ==
  /\ \/ rpc = "waitDelete" /\ ~(Cached(r).exists /\ Cached(r).deleting /\ Cached(r).fin)
     \/ rpc = "waitApply" /\ ~Cached(r).exists
  /\ fence[r] = Nobody
  /\ Leave(r, rpc = "waitApply")

NotOwner(r) ==
  /\ rpc = "waitApply"
  /\ Cached(r).exists /\ ~Cached(r).deleting
  /\ ~ensureRouterEndpointOwnership(r, Cached(r))
  /\ ReadLocked(r)
  /\ rpc' = "fail"
  /\ UNCHANGED <<fence, queue, rkey, rtodo, rown>>

BeginSweep(r) ==
  /\ rpc = "waitApply"
  /\ Cached(r).exists /\ ~Cached(r).deleting
  /\ ensureRouterEndpointOwnership(r, Cached(r))
  /\ ReadLocked(r)
  /\ fence' = [fence EXCEPT ![r] = "router"]
  /\ rpc' = "sweep"
  /\ rtodo' = removedEndpoints(Cached(r))
  /\ UNCHANGED <<queue, rkey, rown>>

Lock ==
  /\ rpc \in {"waitApply", "waitDelete"}
  /\ \/ BeginDeletion(rkey)
     \/ NothingLocked(rkey)
     \/ NotOwner(rkey)
     \/ BeginSweep(rkey)
  /\ UNCHANGED <<hist, devVars, wVars>>

(* An endpoint another router claims is left alone, with what is on it. *)
LeaveToClaimant(e) ==
  left' = [left EXCEPT ![e] = @ \cup {x \in dev[e] : x[1] = rkey}]

(* DeleteManagedConfiguration removes every managed entry of the device. *)
DeleteManagedConfiguration(e) ==
  /\ dev' = [dev EXCEPT ![e] = {}]
  /\ left' = [left EXCEPT ![e] = {}]

(* ... or stops on an error with some of them gone. *)
DeleteManagedFails(e) ==
  \E rest \in SUBSET dev[e] :
    /\ dev' = [dev EXCEPT ![e] = rest]
    /\ left' = [left EXCEPT ![e] = @ \cap rest]

(* cleanupRemovedEndpoints, one endpoint after the other. *)
SweepCheck(e) ==
  /\ rpc = "sweep" /\ e \in rtodo
  /\ rtodo' = rtodo \ {e}
  /\ IF endpointClaimedByOtherRouter(rkey, e)
       THEN LeaveToClaimant(e) /\ UNCHANGED <<rpc, rown>>
       ELSE rpc' = "wipe" /\ rown' = {e} /\ UNCHANGED left
  /\ UNCHANGED <<apiVars, dev, fence, rkey, robj, rfresh, wVars>>

SweepDelete(e) ==
  /\ rpc = "wipe" /\ e \in rown
  /\ DeleteManagedConfiguration(e)
  /\ rpc' = "sweep" /\ rown' = {}
  /\ UNCHANGED <<apiVars, fence, rkey, robj, rfresh, rtodo, wVars>>

FailLocked ==
  /\ fence' = [fence EXCEPT ![rkey] = Nobody]
  /\ rtodo' = {} /\ rown' = {}

\* Mutant: a failed sweep still shrinks the history.
SweepFailureForgotten(e) ==
  /\ rpc = "wipe" /\ e \in rown
  /\ DeleteManagedFails(e)
  /\ rpc' = "failRecorded"
  /\ FailLocked
  /\ UNCHANGED <<apiVars, rkey, robj, rfresh, wVars>>

SweepFails(e) ==
  /\ rpc = "wipe" /\ e \in rown
  /\ DeleteManagedFails(e)
  /\ rpc' = "fail"
  /\ FailLocked
  /\ UNCHANGED <<apiVars, rkey, robj, rfresh, wVars>>

(* After the sweep the history shrinks to the current endpoints. *)
RecordCurrent ==
  /\ rpc = "sweep" /\ rtodo = {}
  /\ robj.applied # robj.spec
  /\ \/ /\ rfresh
        /\ Store(rkey, [robj EXCEPT !.applied = robj.spec])
        /\ Leave(rkey, FALSE)
     \/ /\ rpc' = "failRecorded"
        /\ FailLocked
        /\ UNCHANGED <<apiVars, rkey, robj, rfresh>>
  /\ UNCHANGED <<devVars, wVars>>

(* Nothing was removed: check that every endpoint answers. *)
Connect ==
  /\ rpc = "sweep" /\ rtodo = {}
  /\ robj.applied = robj.spec
  /\ robj.spec \cap Malformed = {}
  /\ \/ /\ robj.connected
        /\ Leave(rkey, TRUE)
        /\ UNCHANGED hist
     \/ /\ ~robj.connected /\ rfresh
        /\ Store(rkey, [robj EXCEPT !.connected = TRUE])
        /\ Leave(rkey, TRUE)
  /\ UNCHANGED <<devVars, wVars>>

ConnectFails ==
  /\ rpc = "sweep" /\ rtodo = {}
  /\ robj.applied = robj.spec
  /\ rpc' = "fail"
  /\ FailLocked
  /\ UNCHANGED <<apiVars, devVars, rkey, robj, rfresh, wVars>>

(* failRouter after the fence was released, with the object read under it  *)
(* and the history RecordCurrent already put into it.                      *)
FailAfterFence ==
  LET history == IF rpc = "failRecorded" THEN robj.spec ELSE robj.applied
      failed == [robj EXCEPT !.connected = FALSE, !.applied = history]
  IN /\ rpc \in {"fail", "failRecorded"}
     /\ \/ rfresh /\ failed # robj /\ Store(rkey, failed)
        \/ UNCHANGED hist
     /\ rpc' = "idle" /\ rkey' = NoRouter /\ robj' = Absent /\ rfresh' = FALSE
     /\ queue' = queue \cup {rkey}
     /\ UNCHANGED <<devVars, fence, rtodo, rown, wVars>>

--------------------------------------------------------------------------------
(* reconcileDeletionLocked: look for other claimants of every recorded     *)
(* endpoint, wipe the unclaimed ones, then give up the finalizer.          *)

FinalizeCheck(e) ==
  /\ rpc = "claims" /\ e \in rtodo
  /\ rtodo' = rtodo \ {e}
  /\ IF endpointClaimedByOtherRouter(rkey, e)
       THEN LeaveToClaimant(e) /\ UNCHANGED rown
       ELSE rown' = rown \cup {e} /\ UNCHANGED left
  /\ UNCHANGED <<apiVars, dev, fence, rpc, rkey, robj, rfresh, wVars>>

FinalizeDelete(e) ==
  /\ rpc \in {"claims", "finalize"} /\ rtodo = {} /\ e \in rown
  /\ DeleteManagedConfiguration(e)
  /\ rpc' = "finalize" /\ rown' = rown \ {e}
  /\ UNCHANGED <<apiVars, fence, rkey, robj, rfresh, rtodo, wVars>>

\* Mutant: a failed finalization is not retried.
FinalizeFailsForGood(e) ==
  /\ rpc \in {"claims", "finalize"} /\ rtodo = {} /\ e \in rown
  /\ DeleteManagedFails(e)
  /\ Leave(rkey, FALSE)
  /\ UNCHANGED <<hist, wVars>>

FinalizeFails(e) ==
  /\ rpc \in {"claims", "finalize"} /\ rtodo = {} /\ e \in rown
  /\ DeleteManagedFails(e)
  /\ Leave(rkey, TRUE)
  /\ UNCHANGED <<hist, wVars>>

\* Mutant: the finalizer is given up before the devices are wiped.
RemoveFinalizerUnswept ==
  /\ rpc \in {"claims", "finalize"} /\ rtodo = {}
  /\ \/ /\ rfresh
        /\ Store(rkey, Finalized([robj EXCEPT !.fin = FALSE]))
        /\ Leave(rkey, FALSE)
     \/ /\ Leave(rkey, TRUE)
        /\ UNCHANGED hist
  /\ UNCHANGED <<devVars, wVars>>

RemoveFinalizer ==
  /\ rpc \in {"claims", "finalize"} /\ rtodo = {} /\ rown = {}
  /\ \/ /\ rfresh
        /\ Store(rkey, Finalized([robj EXCEPT !.fin = FALSE]))
        /\ Leave(rkey, FALSE)
     \/ /\ Leave(rkey, TRUE)
        /\ UNCHANGED hist
  /\ UNCHANGED <<devVars, wVars>>

--------------------------------------------------------------------------------
(* withRouterConnections: the resource controllers, to apply               *)
(* (requireActive) or to clean up.                                         *)

WorkerLock(w, r, mode, endpoints) ==
  /\ wpc[w] = "idle"
  /\ fence[r] = Nobody
  /\ fence' = [fence EXCEPT ![r] = w]
  /\ wpc' = [wpc EXCEPT ![w] = mode]
  /\ wkey' = [wkey EXCEPT ![w] = r]
  /\ wtodo' = [wtodo EXCEPT ![w] = endpoints]
  /\ UNCHANGED <<apiVars, devVars, rVars>>

BeginApply(w, r) ==
  /\ Cached(r).exists
  /\ ensureRouterActive(r, Cached(r))
  /\ Cached(r).spec \cap Malformed = {}
  /\ WorkerLock(w, r, "apply", Cached(r).spec)

(* A clean-up connects to all recorded endpoints; those without an entry   *)
(* of its own, which stay so meanwhile, are left out of wtodo.             *)
BeginCleanup(w, r) ==
  /\ Cached(r).exists
  /\ routerCleanupEndpoints(Cached(r)) # {}
  /\ WorkerLock(w, r, "cleanup",
                {e \in routerCleanupEndpoints(Cached(r)) : <<r, w>> \in dev[e]})

ApplyEntry(w, e) ==
  /\ wpc[w] = "apply" /\ e \in wtodo[w]
  /\ dev' = [dev EXCEPT ![e] = @ \cup {<<wkey[w], w>>}]
  /\ left' = [left EXCEPT ![e] = @ \ {<<wkey[w], w>>}]
  /\ wtodo' = [wtodo EXCEPT ![w] = @ \ {e}]
  /\ UNCHANGED <<apiVars, fence, rVars, wpc, wkey>>

DeleteEntry(w, e) ==
  /\ wpc[w] = "cleanup" /\ e \in wtodo[w]
  /\ dev' = [dev EXCEPT ![e] = @ \ {<<wkey[w], w>>}]
  /\ left' = [left EXCEPT ![e] = @ \ {<<wkey[w], w>>}]
  /\ wtodo' = [wtodo EXCEPT ![w] = @ \ {e}]
  /\ UNCHANGED <<apiVars, fence, rVars, wpc, wkey>>

(* All endpoints served, or the first error. *)
WorkerLeave(w) ==
  /\ wpc[w] # "idle"
  /\ wpc' = [wpc EXCEPT ![w] = "idle"]
  /\ wkey' = [wkey EXCEPT ![w] = NoRouter]
  /\ wtodo' = [wtodo EXCEPT ![w] = {}]
  /\ fence' = [fence EXCEPT ![wkey[w]] = Nobody]
  /\ UNCHANGED <<apiVars, devVars, rVars>>

--------------------------------------------------------------------------------
UserStep == \E r \in Routers : UserCreate(r) \/ UserEdit(r) \/ UserDelete(r)

ReconcileStep(r) ==
  \/ RouterGone(r)
  \/ RouterRejected(r)
  \/ AddFinalizer(r)
  \/ RecordHistory(r)
  \/ AwaitFence(r)

LockedStep ==
  \/ Lock
  \/ \E e \in Endpoints : \/ SweepCheck(e) \/ SweepDelete(e) \/ SweepFails(e)
                          \/ FinalizeCheck(e) \/ FinalizeDelete(e) \/ FinalizeFails(e)
  \/ RecordCurrent
  \/ Connect
  \/ ConnectFails
  \/ FailAfterFence
  \/ RemoveFinalizer

WorkerStep(w) ==
  \/ \E r \in Routers : BeginApply(w, r) \/ BeginCleanup(w, r)
  \/ \E e \in Endpoints : ApplyEntry(w, e) \/ DeleteEntry(w, e)
  \/ WorkerLeave(w)

LifecycleNext ==
  \/ UserStep
  \/ Restart
  \/ \E r \in Routers : Deliver(r) \/ Wake(r) \/ ReconcileStep(r)
  \/ LockedStep
  \/ \E w \in Workers : WorkerStep(w)

LifecycleSpec == LifecycleInit /\ [][LifecycleNext]_vars

(* The watch delivers, the router controller takes the keys of its queue   *)
(* in turn and runs each request to its end, a fence that is free again    *)
(* and again is obtained (its waiters queue), and every resource operation *)
(* ends (RouterOS calls have a timeout).                                   *)
LifecycleFairness ==
  /\ \A r \in Routers : WF_vars(Deliver(r)) /\ SF_vars(ReconcileStep(r))
  /\ SF_vars(Lock)
  /\ WF_vars(LockedStep)
  /\ \A w \in Workers : WF_vars(WorkerLeave(w))

FairLifecycleSpec == LifecycleSpec /\ LifecycleFairness
--------------------------------------------------------------------------------
(* What the router's history is for: as long as an entry sits on a device, *)
(* every version of its router from the cached to the stored one has the   *)
(* finalizer and records the endpoint, so that a removed endpoint or a     *)
(* deleted router will be swept; the exception is an entry left to another *)
(* router that claims the endpoint.                                        *)
EntryRecorded ==
  \A e \in Endpoints : \A x \in dev[e] \ left[e] : \A v \in Versions(x[1]) :
    v.exists /\ v.fin /\ e \in v.applied

(* A resource controller that cleans up after its own entries through      *)
(* routerCleanupEndpoints misses none of the devices that have one.        *)
CleanupReaches ==
  \A w \in Workers : wpc[w] = "cleanup" =>
    \A e \in Endpoints : <<wkey[w], w>> \in dev[e] \ left[e] => e \in wtodo[w]

(* The sweep of a router never runs into an operation on the same router:  *)
(* while a resource controller writes through r, the stored object keeps   *)
(* what it writes to recorded.                                             *)
ApplyingRecorded ==
  \A w \in Workers : wpc[w] = "apply" =>
    /\ Stored(wkey[w]).fin
    /\ wtodo[w] \subseteq Stored(wkey[w]).applied

(* Why they hold.  Whoever works on a router has its fence. *)
FenceHeld ==
  /\ \A w \in Workers : wpc[w] # "idle" => wkey[w] \in Routers /\ fence[wkey[w]] = w
  /\ rpc # "idle" => rkey \in Routers
  /\ rpc \in {"sweep", "wipe", "claims", "finalize"} => fence[rkey] = "router"

(* A pass that will be allowed to write read the only version there is. *)
FreshIsStored ==
  /\ rfresh => rkey \in Routers /\ hist[rkey] = <<robj>>
  /\ rpc \in {"idle", "waitApply", "waitDelete"} => ~rfresh

(* Once a version could be applied, finalizer and history stay, until the  *)
(* watch has shown why not.                                                *)
Appliable(v) == v.exists /\ ~v.deleting /\ v.fin /\ v.applied = v.spec

HistoryKept ==
  \A r \in Routers : \A i, j \in DOMAIN hist[r] : i < j /\ Appliable(hist[r][i]) =>
    hist[r][j].exists /\ hist[r][j].fin /\ hist[r][i].applied \subseteq hist[r][j].applied

(* The endpoints with an entry of router r that was not left to others. *)
Occupied(r) == {e \in Endpoints : \E x \in dev[e] \ left[e] : x[1] = r}

(* A pass that will drop a record has nothing left there, or still has the *)
(* endpoint before it; no operation adds to it meanwhile.                  *)
SweepCovers ==
  /\ rpc \notin {"wipe", "claims", "finalize"} => rown = {}
  /\ rpc = "wipe" => \A e, f \in rown : e = f
  /\ rpc \in {"sweep", "wipe"} => Occupied(rkey) \subseteq rtodo \cup rown \cup robj.spec
  /\ rpc \in {"claims", "finalize"} =>
       robj.deleting /\ Occupied(rkey) \subseteq rtodo \cup rown
  /\ rpc = "failRecorded" /\ rfresh =>
       /\ robj.applied # robj.spec
       /\ Occupied(rkey) \subseteq robj.spec
       /\ \A w \in Workers : wpc[w] = "apply" => wkey[w] # rkey

(* While a resource controller writes, every version records what it       *)
(* writes to.                                                              *)
ApplyCovered ==
  \A w \in Workers : wpc[w] = "apply" =>
    /\ wtodo[w] \cap Malformed = {}
    /\ \A v \in Versions(wkey[w]) : v.exists /\ v.fin /\ wtodo[w] \subseteq v.applied

NothingMalformed == \A e \in Malformed : dev[e] = {}

LifecycleInv ==
  /\ TypeOK /\ EntryRecorded /\ CleanupReaches
  /\ FenceHeld /\ FreshIsStored /\ HistoryKept
  /\ SweepCovers /\ ApplyCovered /\ NothingMalformed

(* Failures of a device or of the API server, as opposed to conflicts. *)
Fault ==
  \/ \E e \in Endpoints : SweepFails(e) \/ FinalizeFails(e)
  \/ ConnectFails /\ robj.spec \cap Malformed = {}
  \/ RecordCurrent /\ rfresh /\ UNCHANGED hist
  \/ RemoveFinalizer /\ rfresh /\ UNCHANGED hist

(* What the operator does by itself.  A step that could be this or a       *)
(* disturbance (a restart just when the last event is due) counts as this. *)
SystemStep ==
  \/ \E r \in Routers : Deliver(r) \/ Wake(r) \/ ReconcileStep(r)
  \/ LockedStep /\ ~Fault
  \/ \E w \in Workers : WorkerStep(w)

(* Where a router has to end up: a deleted one is gone; a valid one that   *)
(* owns its endpoints has recorded them and is connected; any other one    *)
(* reports that it is not connected.                                       *)
Settled(r) ==
  LET v == Stored(r)
  IN v.exists =>
       /\ ~v.deleting
       /\ IF validateRouterEndpoints(v) /\ ensureRouterEndpointOwnership(r, v)
            THEN v.fin /\ v.applied = v.spec /\ v.connected
            ELSE ~v.connected

(* Once users, crashes and faults pause for good, every router settles and *)
(* stays settled: the re-queueing and the Result{} returns that rely on    *)
(* the watch lose no work.                                                 *)
Converges == <>[][SystemStep]_vars => <>[](\A r \in Routers : Settled(r))

(* docs/_reference/architecture.md: router objects retain appliedEndpoints *)
(* so that managed entries can be removed during deletion or when an       *)
(* endpoint is dropped.  So an endpoint with entries is recorded, or at    *)
(* least named, by some router.                                            *)
NoOrphan ==
  \A e \in Endpoints : dev[e] # {} =>
    \E r \in Routers : e \in Stored(r).applied \cup Stored(r).spec

(* A sweep spares what another live router, which claims the endpoint,     *)
(* has written to it: also a router that had given the endpoint up, still  *)
(* has it on record, and asks for it again after the check of the claim.   *)
SweepSparesClaimant ==
  rpc \in {"wipe", "claims", "finalize"} =>
    \A e \in rown : \A x \in dev[e] :
      x[1] # rkey => e \notin Cached(x[1]).spec \/ Cached(x[1]).deleting
================================================================================
