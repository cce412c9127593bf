---------------------------- MODULE ManagedResource ----------------------------
(***************************************************************************)
(* The life of one managed resource (MikroTikDNSRecord, MikroTikRoute,     *)
(* MikroTikFirewallRule or MikroTikPortForward): the four reconcilers of   *)
(* internal/controller that write to RouterOS, and how they keep track of  *)
(* the routers that may hold their entry while routerRef changes, routers  *)
(* come and go, updates conflict, and the operator restarts.               *)
(*                                                                         *)
(* As in RouterLifecycle, hist is the sequence of versions of the object   *)
(* from the one in the operator's cache to the one the server stores.      *)
(* Routers are seen as the cache shows them: absent, new (live, not yet    *)
(* usable for ensureRouterActive), active or deleting; RouterLifecycle     *)
(* models what is behind it.  dev[r] says whether a device of router r     *)
(* holds the entry with this resource's managed comment.                   *)
(***************************************************************************)
EXTENDS Naturals, Sequences, FiniteSets

CONSTANTS Kinds,    \* kinds of resource to consider
          Routers,  \* keys <<namespace, name>> of MikroTikRouters
          Home,     \* the namespace of the resource
          Refs,     \* routerRef: <<>>, <<name>> or <<namespace, name>>
          Steady,   \* bound: routers that are active throughout
          Drafts,   \* bound: router-targets in the YAML bodies of the admin UI
          MaxLag    \* bound: versions the cache may be behind

ASSUME ResourceAssumption ==
  /\ Kinds \subseteq {"dns", "route", "firewall", "portforward"}
  /\ IsFiniteSet(Routers)
  /\ \A r \in Routers : r = <<r[1], r[2]>>
  /\ <<>> \in Refs
  /\ Refs \subseteq {<<>>} \cup {<<r[2]>> : r \in Routers} \cup Routers
  /\ Steady \subseteq Routers
  /\ Drafts \subseteq SUBSET Routers
  /\ MaxLag \in Nat \ {0}

VARIABLES kind,     \* the kind of the resource
          rt,       \* rt[r]: router r in the cache
          dev,      \* dev[r]: a device of r holds the entry
          hist,     \* versions of the object, cached to stored
          queued,   \* the key is in the work queue
          pc,       \* where Reconcile is
          obj,      \* the object it works on
          fresh,    \* obj carries the server's resourceVersion
          todo,     \* router keys still to be cleaned
          then,     \* what follows the clean-up
          target,   \* the resolved router as a set (empty: none)
          lapse     \* lapse[r]: why the record of r's entry may be lost

routerVars == <<rt, dev, lapse>>
callVars == <<pc, obj, fresh, todo, then, target>>
vars == <<kind, rt, dev, hist, queued, pc, obj, fresh, todo, then, target, lapse>>

--------------------------------------------------------------------------------
(* References to routers. *)

routerKeyFromRef(ref) == IF Len(ref) = 1 THEN <<Home, ref[1]>> ELSE ref

(* The router a reference names, if it names one. *)
Named(ref) == IF ref = <<>> THEN {} ELSE {routerKeyFromRef(ref)}

Keys == Routers \cup UNION {Named(ref) : ref \in Refs}

Exists(r) == r \in Routers /\ rt[r] # "absent"

liveRouters == {r \in Routers : rt[r] \in {"new", "active"}}

Found(r) == [tag |-> "found", key |-> {r}]
NotFound == [tag |-> "notFound", key |-> {}]
ImplicitInvalid == [tag |-> "implicitInvalid", key |-> {}]

(* The only live router among the candidates, or an invalid selection. *)
OnlyOne(candidates) ==
  IF Cardinality(candidates) = 1
    THEN [tag |-> "found", key |-> candidates]
    ELSE ImplicitInvalid

resolveRouterReference(ref) ==
  CASE Len(ref) = 2 -> IF Exists(ref) THEN Found(ref) ELSE NotFound
    [] Len(ref) = 1 ->
         LET local == routerKeyFromRef(ref)
             named == {r \in liveRouters : r[2] = ref[1]}
         IN IF Exists(local) \/ named = {} THEN Found(local) ELSE OnlyOne(named)
    [] ref = <<>> ->
         LET local == {r \in liveRouters : r[1] = Home}
         IN OnlyOne(IF local # {} THEN local ELSE liveRouters)

--------------------------------------------------------------------------------
(* ann is the router-targets annotation, sref the set with               *)
(* status.routerRef, empty while it is not set.                            *)
Version == [exists: BOOLEAN, deleting: BOOLEAN, fin: BOOLEAN, ref: Refs,
            ann: SUBSET Keys, sref: {{}} \cup {{k} : k \in Keys}, applied: BOOLEAN]

NewResource(ref) ==
  [exists |-> TRUE, deleting |-> FALSE, fin |-> FALSE, ref |-> ref,
   ann |-> {}, sref |-> {}, applied |-> FALSE]

Absent == [NewResource(<<>>) EXCEPT !.exists = FALSE]

Cached == Head(hist)
Stored == hist[Len(hist)]
Versions == {hist[i] : i \in DOMAIN hist}

\* Mutant: the blank that splitting an empty annotation yields is kept.
blankTargets(v, additional) == v.ann \cup additional \cup {<<>>}

durableRouterTargets(v, additional) == v.ann \cup additional

(* Every router an entry may sit on, the one of the spec included. *)
AllTargets(v) == durableRouterTargets(v, v.sref \cup Named(v.ref))

TypeOK ==
  /\ kind \in Kinds
  /\ rt \in [Routers -> {"absent", "new", "active", "deleting"}]
  /\ dev \in [Routers -> BOOLEAN]
  /\ hist \in Seq(Version) /\ hist # <<>>
  /\ queued \in BOOLEAN
  /\ pc \in {"idle", "clean", "apply", "record"}
  /\ obj \in Version
  /\ fresh \in BOOLEAN
  /\ todo \in SUBSET Keys
  /\ then \in {"finalize", "compact", "status"}
  /\ target \in SUBSET Keys
  /\ lapse \in [Routers -> {"none", "secret", "stale", "draft"}]

ResourceInit ==
  /\ kind \in Kinds
  /\ rt = [r \in Routers |-> IF r \in Steady THEN "active" ELSE "absent"]
  /\ dev = [r \in Routers |-> FALSE]
  /\ hist = <<Absent>>
  /\ queued = FALSE
  /\ pc = "idle" /\ obj = Absent /\ fresh = FALSE
  /\ todo = {} /\ then = "status" /\ target = {}
  /\ lapse = [r \in Routers |-> "none"]

--------------------------------------------------------------------------------
(* The API server, the users and the routers. *)

Store(v) == hist' = Append(hist, v) /\ fresh' = FALSE

(* Kubernetes removes an object that is deleting and has no finalizer. *)
Finalized(v) == IF v.deleting /\ ~v.fin THEN Absent ELSE v

UserCreate(ref) ==
  /\ Len(hist) <= MaxLag
  /\ ~Stored.exists
  /\ Store(NewResource(ref))
  /\ UNCHANGED <<kind, routerVars, queued, pc, obj, todo, then, target>>

UserEdit(ref) ==
  /\ Len(hist) <= MaxLag
  /\ Stored.exists /\ ref # Stored.ref
  /\ Store([Stored EXCEPT !.ref = ref])
  /\ UNCHANGED <<kind, routerVars, queued, pc, obj, todo, then, target>>

UserDelete ==
  /\ Len(hist) <= MaxLag
  /\ Stored.exists /\ ~Stored.deleting
  /\ Store(Finalized([Stored EXCEPT !.deleting = TRUE]))
  /\ UNCHANGED <<kind, routerVars, queued, pc, obj, todo, then, target>>

\* Mutant: the finalizers are those of the body, which has none.
replaceFinalizers(existing, ref, annotations) ==
  [existing EXCEPT !.ref = ref, !.fin = FALSE,
                   !.ann = IF annotations = {} THEN @ ELSE UNION annotations]

(* PUT of the admin UI: the live object is read, what the body leaves out  *)
(* of its metadata is taken from it, and the update is refused if the      *)
(* object has changed, so that all of it is one step.  The server keeps    *)
(* the status.  The body has no annotations (annotations is empty) or some *)
(* (its element is the router-targets among them).                         *)
preserveManagedMetadata(existing, ref, annotations) ==
  [existing EXCEPT !.ref = ref,
                   !.ann = IF annotations = {} THEN @ ELSE UNION annotations]

updateResource(ref, annotations) ==
  LET updated == preserveManagedMetadata(Stored, ref, annotations)
  IN /\ Len(hist) <= MaxLag
     /\ Stored.exists /\ updated # Stored
     /\ Store(Finalized(updated))
     /\ lapse' = [r \in Routers |->
                    IF dev[r] /\ r \notin updated.ann THEN "draft" ELSE lapse[r]]
     /\ UNCHANGED <<kind, rt, dev, queued, pc, obj, todo, then, target>>

(* The watch delivers the next version and enqueues the key. *)
Deliver ==
  /\ Len(hist) > 1
  /\ hist' = Tail(hist)
  /\ queued' = TRUE
  /\ UNCHANGED <<kind, routerVars, callVars>>

(* The key is enqueued for another reason: a delayed re-queueing of an     *)
(* earlier pass falls due, or an owned route, the Service or the Pod       *)
(* changes.  The cache may not show the last write yet.                    *)
Wake ==
  /\ ~queued
  /\ queued' = TRUE
  /\ UNCHANGED <<kind, routerVars, hist, callVars>>

(* A router appears, becomes usable or stops being so, or is deleted. *)
RouterChanges(r, from, to) ==
  /\ rt[r] = from
  /\ rt' = [rt EXCEPT ![r] = to]
  /\ UNCHANGED <<kind, dev, lapse, hist, queued, callVars>>

(* Its finalization wipes its devices before the object goes. *)
RouterSwept(r) ==
  /\ rt[r] = "deleting"
  /\ rt' = [rt EXCEPT ![r] = "absent"]
  /\ dev' = [dev EXCEPT ![r] = FALSE]
  /\ lapse' = [lapse EXCEPT ![r] = "none"]
  /\ UNCHANGED <<kind, hist, queued, callVars>>

(* The operator dies: the cache starts from a list of the server's         *)
(* objects and every object found is enqueued.                             *)
Restart ==
  /\ hist' = <<Stored>>
  /\ queued' = Stored.exists
  /\ pc' = "idle" /\ obj' = Absent /\ fresh' = FALSE
  /\ todo' = {} /\ then' = "status" /\ target' = {}
  /\ UNCHANGED <<kind, routerVars>>

--------------------------------------------------------------------------------
(* Reconcile up to its first write, clean-up or apply: one step on the     *)
(* object read from the cache (a newer version refuses the write).         *)

Take == pc = "idle" /\ queued

Idle == UNCHANGED <<kind, routerVars, pc, obj, todo, then, target>>

(* An update, which returns Result{} and leaves the rest to the watch      *)
(* event; refused or failed, the error puts the key back.                  *)
UpdateOrRetry(v) ==
  /\ \/ Len(hist) = 1 /\ Store(v) /\ queued' = FALSE
     \/ UNCHANGED <<hist, fresh, queued>>
  /\ Idle

(* status(err): Applied becomes false, the key comes back in a minute. *)
Report(v) ==
  /\ \/ v.applied /\ Len(hist) = 1 /\ Store([v EXCEPT !.applied = FALSE])
     \/ UNCHANGED <<hist, fresh>>
  /\ UNCHANGED queued
  /\ Idle

BeginClean(targets, next, key) ==
  /\ pc' = "clean"
  /\ todo' = targets
  /\ then' = next
  /\ target' = key
  /\ obj' = Cached
  /\ fresh' = (Len(hist) = 1)
  /\ queued' = FALSE
  /\ UNCHANGED <<kind, routerVars, hist>>

ResourceGone ==
  /\ Take /\ ~Cached.exists
  /\ queued' = FALSE
  /\ UNCHANGED <<hist, fresh>>
  /\ Idle

BeginDeletion ==
  /\ Take /\ Cached.exists /\ Cached.deleting
  /\ BeginClean(AllTargets(Cached), "finalize", {})

(* Routes and firewall rules are checked before the finalizer is added. *)
SpecIncomplete ==
  /\ Take /\ Cached.exists /\ ~Cached.deleting
  /\ kind \in {"route", "firewall"}
  /\ Report(Cached)

AddFinalizer ==
  /\ Take /\ Cached.exists /\ ~Cached.deleting /\ ~Cached.fin
  /\ UpdateOrRetry([Cached EXCEPT !.fin = TRUE])

Active == Take /\ Cached.exists /\ ~Cached.deleting /\ Cached.fin

Resolved == resolveRouterReference(Cached.ref)

(* DNS records look at their Service once the router is resolved, port     *)
(* forwards at their Service or Pod before.                                *)
DependencyRead ==
  /\ Active
  /\ kind = "portforward" \/ (kind = "dns" /\ Resolved.tag = "found")

(* The Service or Pod is gone, or the Service has no address. *)
DependencyLost ==
  /\ DependencyRead
  /\ BeginClean(AllTargets(Cached), "status", {})

(* It cannot be read, or an address is not an IP. *)
DependencyUnusable ==
  /\ DependencyRead
  /\ Report(Cached)

RouterNotFound ==
  /\ Active /\ Resolved.tag = "notFound"
  /\ IF kind \in {"route", "firewall"}
       THEN Report(Cached)
       ELSE UNCHANGED <<hist, fresh, queued>> /\ Idle

(* No router, or several, to choose from implicitly.  The branch after the *)
(* two that look at the annotation, which would clear status.routerRef, is *)
(* never reached: one of the two applies whenever it is set.               *)
RememberStatusRouter ==
  /\ Active /\ Resolved.tag = "implicitInvalid"
  /\ Cached.ann = {} /\ Cached.sref # {}
  /\ UpdateOrRetry([Cached EXCEPT !.ann = durableRouterTargets(Cached, Cached.sref)])

LeaveAllRouters ==
  /\ Active /\ Resolved.tag = "implicitInvalid"
  /\ Cached.ann # {}
  /\ BeginClean(IF kind = "portforward"
                  THEN AllTargets(Cached)
                  ELSE durableRouterTargets(Cached, Cached.sref), "compact", {})

SelectionInvalid ==
  /\ Active /\ Resolved.tag = "implicitInvalid"
  /\ Cached.ann = {} /\ Cached.sref = {}
  /\ Report(Cached)

(* The router is resolved: it is recorded before anything is sent to it,   *)
(* the routers recorded besides it are cleaned, and only then is it used.  *)

\* Mutant: the annotation is overwritten with the new router.
PersistResolvedOnly ==
  /\ Active /\ Resolved.tag = "found"
  /\ Cached.ann # Resolved.key
  /\ UpdateOrRetry([Cached EXCEPT !.ann = Resolved.key])

PersistTarget ==
  LET targets == durableRouterTargets(Cached, Cached.sref \cup Resolved.key)
  IN /\ Active /\ Resolved.tag = "found"
     /\ Cached.ann # Resolved.key /\ Cached.ann # targets
     /\ UpdateOrRetry([Cached EXCEPT !.ann = targets])

LeaveOtherRouters ==
  LET targets == durableRouterTargets(Cached, Cached.sref \cup Resolved.key)
  IN /\ Active /\ Resolved.tag = "found"
     /\ Cached.ann # Resolved.key /\ Cached.ann = targets
     /\ BeginClean(targets \ Resolved.key, "compact", Resolved.key)

ForgetStatusRouter ==
  /\ Active /\ Resolved.tag = "found"
  /\ Cached.ann = Resolved.key
  /\ Cached.sref # {} /\ Cached.sref # Resolved.key
  /\ UpdateOrRetry([Cached EXCEPT !.sref = {}, !.applied = FALSE])

\* Mutant: it is enough that the router is among the recorded ones.
ReadyOnceRecorded ==
  /\ Active /\ Resolved.tag = "found"
  /\ Resolved.key \subseteq Cached.ann

ReadyToApply ==
  /\ Active /\ Resolved.tag = "found"
  /\ Cached.ann = Resolved.key
  /\ Cached.sref \in {{}, Resolved.key}

(* Another resource holds the hostname or the external port. *)
ClaimCollision ==
  /\ ReadyToApply /\ kind \in {"dns", "portforward"}
  /\ BeginClean(AllTargets(Cached), "status", {})

BeginApply ==
  /\ ReadyToApply
  /\ pc' = "apply"
  /\ target' = Resolved.key
  /\ obj' = Cached
  /\ fresh' = (Len(hist) = 1)
  /\ queued' = FALSE
  /\ UNCHANGED <<kind, routerVars, hist, todo, then>>

--------------------------------------------------------------------------------
(* Clean-up and apply, under the fence of the router they work on. *)

Finish(requeue) ==
  /\ pc' = "idle" /\ obj' = Absent
  /\ todo' = {} /\ then' = "status" /\ target' = {}
  /\ queued' = (queued \/ requeue)
  /\ UNCHANGED kind

WriteOrRetry(v) ==
  \/ fresh /\ Store(v) /\ Finish(FALSE)
  \/ UNCHANGED hist /\ fresh' = FALSE /\ Finish(TRUE)

ReportLater ==
  /\ \/ fresh /\ obj.applied /\ Store([obj EXCEPT !.applied = FALSE])
     \/ UNCHANGED hist /\ fresh' = FALSE
  /\ Finish(TRUE)

(* The entry is deleted from the devices of r; an absent router is passed  *)
(* over.                                                                   *)
CleanTarget(r) ==
  /\ pc = "clean" /\ r \in todo
  /\ todo' = todo \ {r}
  /\ dev' = [x \in Routers |-> dev[x] /\ x # r]
  /\ lapse' = [x \in Routers |-> IF x = r THEN "none" ELSE lapse[x]]
  /\ UNCHANGED <<kind, rt, hist, queued, pc, obj, fresh, then, target>>

(* The Secret with the credentials of r does not exist: connecting fails   *)
(* with NotFound, which the callers take for an absent router.  (Without   *)
(* an entry on r this is the same as CleanTarget.)                         *)
CleanWithoutSecret(r) ==
  /\ pc = "clean" /\ r \in todo /\ Exists(r) /\ dev[r]
  /\ todo' = todo \ {r}
  /\ lapse' = [lapse EXCEPT ![r] = "secret"]
  /\ UNCHANGED <<kind, rt, dev, hist, queued, pc, obj, fresh, then, target>>

(* A device of r cannot be reached, or fails after some were cleaned. *)
CleanFails(r) ==
  /\ pc = "clean" /\ r \in todo /\ Exists(r)
  /\ IF then = "finalize"
       THEN UNCHANGED hist /\ fresh' = FALSE /\ Finish(TRUE)
       ELSE ReportLater
  /\ UNCHANGED routerVars

Cleaned == pc = "clean" /\ todo = {}

\* Mutant: the finalizer goes with the first router that is clean.
RemoveFinalizerEarly ==
  /\ pc = "clean" /\ then = "finalize"
  /\ WriteOrRetry(Finalized([obj EXCEPT !.fin = FALSE]))
  /\ UNCHANGED routerVars

RemoveFinalizer ==
  /\ Cleaned /\ then = "finalize"
  /\ WriteOrRetry(Finalized([obj EXCEPT !.fin = FALSE]))
  /\ UNCHANGED routerVars

compactDurableRouterTarget ==
  /\ Cleaned /\ then = "compact"
  /\ WriteOrRetry([obj EXCEPT !.ann = target])
  /\ UNCHANGED routerVars

ReportCleaned ==
  /\ Cleaned /\ then = "status"
  /\ ReportLater
  /\ UNCHANGED routerVars

(* EnsureDNS, EnsureRoute..., on devices of an active router.  The lapse   *)
(* notes that the annotation has been emptied since obj was read.          *)
Written(r) ==
  /\ Exists(r) /\ rt[r] = "active"
  /\ dev' = [dev EXCEPT ![r] = TRUE]
  /\ lapse' = [lapse EXCEPT ![r] = IF \A v \in Versions : r \in v.ann THEN "none" ELSE "stale"]
  /\ UNCHANGED rt

ApplyEntry(r) ==
  /\ pc = "apply" /\ r \in target
  /\ Written(r)
  /\ pc' = "record"
  /\ UNCHANGED <<kind, hist, queued, obj, fresh, todo, then, target>>

(* The router is not usable, or one of its devices fails after others took *)
(* the entry.                                                              *)
ApplyFails(r) ==
  /\ pc = "apply" /\ r \in target
  /\ UNCHANGED routerVars \/ Written(r)
  /\ ReportLater

\* Mutant: an applied resource is not checked for drift.
RecordAppliedForGood ==
  LET done == [obj EXCEPT !.applied = TRUE, !.sref = target]
  IN /\ pc = "record"
     /\ \/ fresh /\ done # obj /\ Store(done)
        \/ UNCHANGED hist /\ fresh' = FALSE
     /\ Finish(FALSE)
     /\ UNCHANGED routerVars

RecordApplied ==
  LET done == [obj EXCEPT !.applied = TRUE, !.sref = target]
  IN /\ pc = "record"
     /\ \/ fresh /\ done # obj /\ Store(done)
        \/ UNCHANGED hist /\ fresh' = FALSE
     /\ Finish(TRUE)
     /\ UNCHANGED routerVars

--------------------------------------------------------------------------------
UserStep ==
  \/ \E ref \in Refs : UserCreate(ref) \/ UserEdit(ref)
  \/ UserDelete
  \/ \E ref \in Refs : \/ updateResource(ref, {})
                       \/ \E ann \in Drafts : updateResource(ref, {ann})

RouterStep(r) ==
  \/ RouterChanges(r, "absent", "new")
  \/ RouterChanges(r, "new", "active")
  \/ RouterChanges(r, "active", "new")
  \/ RouterChanges(r, "new", "deleting")
  \/ RouterChanges(r, "active", "deleting")
  \/ RouterSwept(r)

ReconcileStep ==
  \/ ResourceGone \/ BeginDeletion \/ AddFinalizer
  \/ RouterNotFound
  \/ RememberStatusRouter \/ LeaveAllRouters \/ SelectionInvalid
  \/ PersistTarget \/ LeaveOtherRouters \/ ForgetStatusRouter
  \/ BeginApply
  \/ \E r \in Keys : CleanTarget(r) \/ ApplyEntry(r) \/ ApplyFails(r)
  \/ RemoveFinalizer \/ compactDurableRouterTarget \/ ReportCleaned
  \/ RecordApplied

(* What the environment does to a reconciliation. *)
Setback ==
  \/ SpecIncomplete \/ DependencyLost \/ DependencyUnusable \/ ClaimCollision
  \/ \E r \in Keys : CleanWithoutSecret(r) \/ CleanFails(r)

ResourceNext ==
  \/ UserStep
  \/ Deliver
  \/ Wake
  \/ \E r \in Routers \ Steady : RouterStep(r)
  \/ Restart
  \/ ReconcileStep
  \/ Setback

ResourceSpec == ResourceInit /\ [][ResourceNext]_vars

(* The watch delivers and the controller's worker keeps running. *)
FairResourceSpec == ResourceSpec /\ WF_vars(Deliver) /\ WF_vars(ReconcileStep)
--------------------------------------------------------------------------------
(* The routers with an entry, but for the three known lapses. *)
Holders == {r \in Routers : dev[r] /\ lapse[r] = "none"}

(* What the router-targets annotation is for: while a device of router r   *)
(* holds the entry, every version of the resource from the cached to the   *)
(* stored one has the finalizer and lists r.  Not so only when a clean-up  *)
(* passed over r for want of its Secret, when the entry was written from a *)
(* cached version after the annotation had been emptied, or when the admin *)
(* UI stored a YAML draft with other annotations.                          *)
TargetRecorded ==
  \A r \in Holders : \A v \in Versions : v.exists /\ v.fin /\ r \in v.ann

(* A resource is never on two routers at once: the old router is cleaned   *)
(* before the new one is written to.                                       *)
SingleHome == \A r, s \in Holders : r = s

(* Why both hold.  An object with a finalizer keeps it until it is seen    *)
(* deleting: the pass that removes it needs the server's version, so that  *)
(* nothing newer is in the cache's future.                                 *)
FinalizerKept ==
  \A i, j \in DOMAIN hist :
    i < j /\ hist[i].exists /\ hist[i].fin /\ ~hist[i].deleting =>
      hist[j].exists /\ hist[j].fin

(* A pass that will be allowed to write read the only version there is. *)
FreshIsStored == fresh => hist = <<obj>>

(* A clean-up that will drop records has all holders before it, or keeps   *)
(* the record of the rest.                                                 *)
CleanCovers ==
  pc = "clean" =>
    /\ then = "finalize" => obj.deleting /\ Holders \subseteq todo
    /\ then = "compact" => Holders \subseteq todo \cup target

(* An apply has one target, which is the only holder there may be, and the *)
(* object cannot lose its finalizer meanwhile.                             *)
ApplyCovers ==
  pc \in {"apply", "record"} =>
    /\ \E k \in Keys : target = {k}
    /\ pc = "apply" => Holders \subseteq target
    /\ \A v \in Versions : v.exists /\ v.fin

ResourceInv ==
  /\ TypeOK /\ TargetRecorded /\ SingleHome
  /\ FinalizerKept /\ FreshIsStored /\ CleanCovers /\ ApplyCovers

(* Failures of devices and of the API server, as opposed to conflicts. *)
LostWrite ==
  /\ fresh /\ UNCHANGED hist
  /\ \/ RemoveFinalizer
     \/ compactDurableRouterTarget
     \/ obj.applied /\ (ReportCleaned \/ \E r \in Keys : ApplyFails(r))
     \/ RecordApplied /\ ~(obj.applied /\ obj.sref = target)

Fault == LostWrite \/ \E r \in Routers : ApplyFails(r) /\ rt[r] = "active"

(* What the operator does by itself.  A step that could be this or a       *)
(* disturbance (a restart just when the last event is due) counts as this. *)
SystemStep == Deliver \/ Wake \/ (ReconcileStep /\ ~Fault)

(* Where a resource has to end up: deleted, it is gone; on an active       *)
(* router, it is there and nowhere else, and says so; on a router that is  *)
(* not usable, it has left all others and reports the failure; with an     *)
(* invalid selection, it is nowhere.                                       *)
Settled ==
  LET selected == resolveRouterReference(Stored.ref)
      usable == \E r \in selected.key : Exists(r) /\ rt[r] = "active"
  IN Stored.exists =>
       /\ ~Stored.deleting
       /\ CASE selected.tag = "notFound" -> TRUE
            [] selected.tag = "implicitInvalid" -> Holders = {}
            [] selected.tag = "found" ->
                 IF usable
                   THEN /\ Holders = selected.key /\ Stored.sref = selected.key
                        /\ Stored.applied
                   ELSE Holders \subseteq selected.key /\ ~Stored.applied

(* Once users, routers, crashes and faults pause for good, the resource    *)
(* settles and stays settled.                                              *)
Converges == <>[][SystemStep]_vars => <>[]Settled

(* docs/_guide/troubleshooting.md: an implicit selection that is invalid   *)
(* shows as Ready=False.  So once things pause, a resource with an invalid *)
(* selection does not go on claiming that it is applied.                   *)
InvalidSelectionReported ==
  <>[][SystemStep]_vars =>
    <>[](Stored.exists /\ ~Stored.deleting
         /\ resolveRouterReference(Stored.ref).tag = "implicitInvalid" => ~Stored.applied)

(* .github/copilot-instructions.md: finalizers are removed only after      *)
(* clean-up succeeds or the referenced router is irrecoverably gone.  So a *)
(* resource that is gone has left no entry on the devices of a router that *)
(* exists.                                                                 *)
GoneIsClean == ~Stored.exists => \A r \in Routers : ~dev[r]

(* docs/_reference/architecture.md: the annotation is there so that        *)
(* clean-up still knows the last router.  So, missing Secrets aside, a     *)
(* router with an entry is among those that deleting the resource cleans.  *)
LastRouterKnown ==
  \A r \in Routers : dev[r] /\ lapse[r] # "secret" =>
    Stored.exists /\ r \in AllTargets(Stored)
================================================================================
