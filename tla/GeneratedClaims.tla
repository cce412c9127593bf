---------------------------- MODULE GeneratedClaims ----------------------------
(***************************************************************************)
(* Who gets a hostname, or a public port, on a router.  DNS records and    *)
(* port forwards come from two sides: users write them (direct), or the    *)
(* translators generate them as children of a Service, an Ingress or an    *)
(* HTTPRoute (generated).  Before a translator creates children, and       *)
(* before a record is applied to the devices, the claim is checked against *)
(* the other records, as the cache shows them, under a fence.              *)
(*                                                                         *)
(* The module is about one claim: one hostname (or public address, port    *)
(* and protocol) on one router.  An actor is a direct record or a source;  *)
(* the record of an actor is the direct record or the source's child.  A   *)
(* record may be re-pointed in place, to another claim and back: by its    *)
(* user, or by a source that updates its child.  Of the other claims the   *)
(* module says only that a record is away.                                 *)
(*                                                                         *)
(* hist is the sequence of versions of the records from the one in the     *)
(* operator's cache to the one the server stores: one informer delivers    *)
(* the changes to all records of a kind in their order.  How a record      *)
(* follows its router is the subject of ManagedResource.                   *)
(***************************************************************************)
EXTENDS Naturals, Sequences

CONSTANTS Direct,   \* records written by users
          Sources,  \* Services, Ingresses and HTTPRoutes
          Key,      \* Key[a]: position of a's key in the order of keys
          Casts,    \* bound: actors that may take part together, and the
                    \* movers among them, which may turn to another claim
          MaxLag    \* bound: versions the cache may be behind

Actors == Direct \cup Sources

ASSUME ClaimsAssumption ==
  /\ Direct \cap Sources = {}
  /\ Key \in [Actors -> Nat]
  /\ \A a, b \in Actors : Key[a] = Key[b] => a = b
  /\ Casts \subseteq [actors: SUBSET Actors, movers: SUBSET Actors]
  /\ MaxLag \in Nat \ {0}

VARIABLES cast,   \* the actors that take part, and the movers
          want,   \* what each source's specification asks for
          hist,   \* versions of the records, cached to stored
          dev,    \* the actors whose entry is on the devices
          fence,  \* the generatedClaimFences token: its holder as a set
          pass,   \* pass[s]: where the translator of source s is
          rec,    \* the pass of the worker that reconciles the records
          lapse   \* actors whose entry others may overlook

users == <<cast, want>>

vars == <<cast, want, hist, dev, fence, pass, rec, lapse>>

--------------------------------------------------------------------------------
(* prepared: the record has the finalizer and, in its annotation, the      *)
(* router.  yield is the actor named by a Ready=False condition that       *)
(* reports a collision.  here: the specification names this claim.         *)
Record == [phase: {"unborn", "live", "deleting", "gone"}, here: BOOLEAN,
           prepared: BOOLEAN, applied: BOOLEAN, yield: {{}} \cup {{a} : a \in Actors}]

Blank(phase) ==
  [phase |-> phase, here |-> TRUE, prepared |-> FALSE, applied |-> FALSE, yield |-> {}]

Wishes == {"none", "here", "away"}

Cached == Head(hist)
Stored == hist[Len(hist)]
Present(r) == r.phase \in {"live", "deleting"}

Idle == [actor |-> {}, obj |-> Blank("gone"), new |-> Blank("gone")]

TypeOK ==
  /\ cast \in Casts
  /\ want \in [Sources -> Wishes]
  /\ hist \in Seq([Actors -> Record]) /\ hist # <<>>
  /\ dev \subseteq Actors /\ lapse \subseteq dev
  /\ fence \in {{}} \cup {{a} : a \in Actors}
  /\ pass \in [Sources -> {"idle", "here", "away", "delete"}]
  /\ rec \in [actor: {{}} \cup {{a} : a \in Actors}, obj: Record, new: Record]

ClaimsInit ==
  /\ cast \in Casts
  /\ want = [s \in Sources |-> "none"]
  /\ hist = <<[a \in Actors |-> Blank(IF a \in Direct THEN "unborn" ELSE "gone")]>>
  /\ dev = {} /\ lapse = {}
  /\ fence = {}
  /\ pass = [s \in Sources |-> "idle"]
  /\ rec = Idle

--------------------------------------------------------------------------------
(* The API server, the users and crashes. *)

Store(a, r) ==
  /\ Len(hist) <= MaxLag
  /\ hist' = Append(hist, [Stored EXCEPT ![a] = r])

(* Deleting an object: it stays while it has the finalizer. *)
Removed(r) ==
  IF ~r.prepared THEN Blank("gone") ELSE [r EXCEPT !.phase = "deleting"]

(* A direct record has one life: a new one of the same name has a new UID, *)
(* and with it a new key.                                                  *)
UserCreate(d) ==
  /\ d \in cast.actors /\ Stored[d].phase = "unborn"
  /\ Store(d, Blank("live"))
  /\ UNCHANGED <<users, dev, fence, pass, rec, lapse>>

UserDelete(d) ==
  /\ Stored[d].phase = "live"
  /\ Store(d, Removed(Stored[d]))
  /\ UNCHANGED <<users, dev, fence, pass, rec, lapse>>

(* The specification of a record comes to name another claim, or this one  *)
(* again; its status stays.  An entry of it on the devices is a lapse.     *)
Repoint(a) ==
  /\ Store(a, [Stored[a] EXCEPT !.here = ~@])
  /\ lapse' = lapse \cup ({a} \cap dev)

UserEdit(d) ==
  /\ d \in cast.movers /\ Present(Stored[d])
  /\ Repoint(d)
  /\ UNCHANGED <<users, dev, fence, pass, rec>>

(* An annotation, a rule, a backend or a parent changes so that a source   *)
(* asks for the claim, for another one or for none.                        *)
UserChanges(s) ==
  /\ s \in cast.actors
  /\ \E wish \in Wishes \ {want[s]} :
       /\ wish = "away" => s \in cast.movers
       /\ want' = [want EXCEPT ![s] = wish]
  /\ UNCHANGED <<cast, hist, dev, fence, pass, rec, lapse>>

Deliver ==
  /\ Len(hist) > 1
  /\ hist' = Tail(hist)
  /\ UNCHANGED <<users, dev, fence, pass, rec, lapse>>

Restart ==
  /\ hist' = <<Stored>>
  /\ fence' = {}
  /\ pass' = [s \in Sources |-> "idle"]
  /\ rec' = Idle
  /\ UNCHANGED <<users, dev, lapse>>

--------------------------------------------------------------------------------
(* The check of a claim. *)

\* Mutant: the text of the condition is never recognised.
NeverYieldedTo(r, a) == FALSE

(* The record's Ready=False condition says that it lost to a. *)
generatedClaimHasYieldedTo(r, a) == ~r.applied /\ a \in r.yield

\* Mutant: a record that is being deleted no longer counts.
LiveConflicts(a, here) ==
  {e \in Actors \ {a} :
     /\ Cached[e].phase = "live" /\ Cached[e].here = here
     /\ ~generatedClaimHasYieldedTo(Cached[e], a)}

(* The records of others that stand against a's claim, here; or the ones   *)
(* that may, elsewhere.  One that is being deleted counts until it is gone.*)
Conflicts(a, here) ==
  {e \in Actors \ {a} :
     /\ Present(Cached[e]) /\ Cached[e].here = here
     /\ ~generatedClaimHasYieldedTo(Cached[e], a)}

(* Whether a loses to e or waits for e to yield; hasClaim says that a has  *)
(* a record already.                                                       *)
generatedOwnershipConflict(a, e, hasClaim) ==
  CASE a \in Direct /\ e \notin Direct -> "waiting"
    [] a \notin Direct /\ e \in Direct -> "collision"
    [] OTHER -> IF Key[a] < Key[e] /\ hasClaim THEN "waiting" ELSE "collision"

(* The list of records has no order: any conflict may be met first. *)
Loses(a, e, here, hasClaim) ==
  /\ e \in Conflicts(a, here)
  /\ generatedOwnershipConflict(a, e, hasClaim) = "collision"

--------------------------------------------------------------------------------
(* A pass of a translator.  A pass that changes nothing is left out: the   *)
(* child is there, there is none to delete, or the error says to wait for  *)
(* another to yield and puts the source back into the queue.               *)

HasChild(s, here) == Present(Cached[s]) /\ Cached[s].here = here

acquireGeneratedChildClaims(s) ==
  /\ pass[s] = "idle" /\ want[s] # "none" /\ fence = {}
  /\ ~HasChild(s, want[s] = "here")
  /\ want[s] = "here" => Conflicts(s, TRUE) = {}
  /\ fence' = {s}
  /\ pass' = [pass EXCEPT ![s] = want[s]]
  /\ UNCHANGED <<users, hist, dev, rec, lapse>>

cleanupGeneratedChildren(s) ==
  /\ Cached[s].phase = "live"
  /\ pass' = [pass EXCEPT ![s] = "delete"]
  /\ UNCHANGED <<users, hist, dev, fence, rec, lapse>>

(* Another record has the claim; the fence is only taken for the check. *)
SourceCollides(s) ==
  /\ pass[s] = "idle" /\ want[s] = "here" /\ fence = {}
  /\ \E e \in Actors : Loses(s, e, TRUE, HasChild(s, TRUE))
  /\ cleanupGeneratedChildren(s)

(* It has no candidates, or none for which the child goes by the same      *)
(* name: no claim is needed to prune what it owns.                         *)
SourceReleases(s) ==
  /\ pass[s] = "idle" /\ want[s] # "here"
  /\ want[s] = "away" => HasChild(s, TRUE)
  /\ cleanupGeneratedChildren(s)

(* Its candidates contradict each other, no router can be chosen, another  *)
(* owns a record of the child's name, or has the claim asked for elsewhere.*)
SourceAmbiguous(s) ==
  /\ pass[s] = "idle" /\ want[s] # "none"
  /\ cleanupGeneratedChildren(s)

EndCheck(s) ==
  /\ pass[s] \in {"here", "away"}
  /\ pass' = [pass EXCEPT ![s] = "idle"]
  /\ fence' = {}
  /\ UNCHANGED <<users, dev, rec>>

(* A child the cache does not show is created, unless it is there. *)
CreateChild(s) ==
  /\ EndCheck(s) /\ ~Present(Cached[s])
  /\ IF Present(Stored[s])
       THEN UNCHANGED hist
       ELSE Store(s, [Blank("live") EXCEPT !.here = pass[s] = "here"])
  /\ UNCHANGED lapse

(* One that it shows is updated in place, also when it is being deleted; a *)
(* newer version refuses that.                                             *)
UpdateChild(s) ==
  /\ EndCheck(s) /\ Present(Cached[s])
  /\ IF Stored[s] = Cached[s] /\ Stored[s].here # (pass[s] = "here")
       THEN Repoint(s)
       ELSE UNCHANGED <<hist, lapse>>

(* A read or a write fails, or the child is another's by now. *)
CreateFails(s) == EndCheck(s) /\ UNCHANGED <<hist, lapse>>

cleanupOwnedChildren(s) ==
  /\ pass[s] = "delete"
  /\ IF Present(Cached[s]) /\ Stored[s].phase = "live"
       THEN Store(s, Removed(Stored[s]))
       ELSE UNCHANGED hist
  /\ pass' = [pass EXCEPT ![s] = "idle"]
  /\ UNCHANGED <<users, dev, fence, rec, lapse>>

--------------------------------------------------------------------------------
(* A pass of the DNS or port forward reconciler over record a: one worker. *)
(* Nobody else touches the devices, so that the step that reads the cache  *)
(* also does what the pass does to them; the write that ends the pass is a *)
(* step of its own.  Again, a pass that changes nothing is left out.       *)

(* The finalizer is added, then the router recorded, each in a pass of its *)
(* own; nothing here depends on what is between (see ManagedResource).     *)
Prepare(a) ==
  /\ rec = Idle /\ Cached[a].phase = "live" /\ ~Cached[a].prepared
  /\ Stored[a] = Cached[a]
  /\ Store(a, [Cached[a] EXCEPT !.prepared = TRUE])
  /\ UNCHANGED <<users, dev, fence, pass, rec, lapse>>

Prepared(a) == rec = Idle /\ Cached[a].phase = "live" /\ Cached[a].prepared

(* Nothing to do: a device that has what it should is not written to, and *)
(* the status is the same.                                                 *)
InPlace(a) ==
  /\ Cached[a].applied
  /\ IF Cached[a].here THEN a \in dev \ lapse ELSE a \notin dev

(* The object that was read, and what it will be written back as. *)
Begin(a, new) == rec' = [actor |-> {a}, obj |-> Cached[a], new |-> new]

Applied(r) == [r EXCEPT !.applied = TRUE, !.yield = {}]

\* Mutant: the conditions of earlier collisions are kept.
FailedAgain(r, winner) == [r EXCEPT !.applied = FALSE, !.yield = @ \cup winner]

(* status(err): an error that is a collision names its winner. *)
Failed(r, winner) == [r EXCEPT !.applied = FALSE, !.yield = winner]

Appliable(r) == r.phase = "live" /\ r.prepared /\ r.here

(* A version of the record that the cache shows, or will show, names       *)
(* another claim, or says that it yields to a record that may be applied.  *)
Overlooked(a) ==
  \E i \in DOMAIN hist :
    \/ ~hist[i][a].here
    \/ \E e \in Actors \ {a} :
         Appliable(hist[i][e]) /\ generatedClaimHasYieldedTo(hist[i][a], e)

(* An entry written while the record may be overlooked, or while its       *)
(* status still names a winner from an earlier collision, is a lapse.      *)
Write(a) ==
  /\ dev' = dev \cup {a}
  /\ lapse' = IF Stored[a].yield # {} \/ Overlooked(a) THEN lapse \cup {a} ELSE lapse

Delete(a) == dev' = dev \ {a} /\ lapse' = lapse \ {a}

(* EnsureDNS or EnsurePortForward on every device: the rows that carry the *)
(* record's comment become the ones of the claim that the record names.    *)
Ensure(a) == IF Cached[a].here THEN Write(a) ELSE Delete(a)

(* The claim is free or yielded. *)
Free(a) == Cached[a].here => Conflicts(a, TRUE) = {}

(* The fence is kept until the status is written. *)
ApplyEntry(a) ==
  /\ Prepared(a) /\ fence = {}
  /\ Free(a) /\ ~InPlace(a)
  /\ fence' = {a}
  /\ Ensure(a)
  /\ Begin(a, Applied(Cached[a]))
  /\ UNCHANGED <<users, hist, pass>>

(* A device fails, before or after others took the entry. *)
ApplyFails(a) ==
  /\ Prepared(a) /\ fence = {}
  /\ Free(a)
  /\ fence' = {a}
  /\ Ensure(a) \/ UNCHANGED <<dev, lapse>>
  /\ Begin(a, Failed(Cached[a], {}))
  /\ UNCHANGED <<users, hist, pass>>

(* The claim is another's: the record's entry is deleted from the devices, *)
(* whatever claim it is for.                                               *)
RecordCollides(a) ==
  /\ Prepared(a) /\ fence = {}
  /\ \E e \in Actors :
       /\ Loses(a, e, Cached[a].here, TRUE)
       /\ a \in dev \/ Cached[a].yield # {e}
       /\ Begin(a, Failed(Cached[a], {e}))
  /\ Delete(a)
  /\ UNCHANGED <<users, hist, fence, pass>>

(* A device fails meanwhile: the condition names the winner all the same. *)
CollisionCleanupFails(a) ==
  /\ Prepared(a) /\ fence = {} /\ a \in dev
  /\ \E e \in Actors :
       /\ Loses(a, e, Cached[a].here, TRUE)
       /\ Begin(a, Failed(Cached[a], {e}))
  /\ lapse' = lapse \cup {a}
  /\ UNCHANGED <<users, hist, dev, fence, pass>>

(* The Service or Pod is gone: the entry is withdrawn, the claim is not,   *)
(* and a condition that named a winner no longer does.                     *)
DependencyLost(a) ==
  /\ Prepared(a)
  /\ Delete(a)
  /\ Begin(a, Failed(Cached[a], {}))
  /\ rec'.new # rec'.obj \/ dev' # dev
  /\ UNCHANGED <<users, hist, fence, pass>>

(* The finalizer goes when the devices are clean; before that, a failure   *)
(* changes nothing.                                                        *)
FinalizeEntry(a) ==
  /\ rec = Idle /\ Cached[a].phase = "deleting"
  /\ Delete(a)
  /\ Begin(a, Blank("gone"))
  /\ UNCHANGED <<users, hist, fence, pass>>

EndPass(a) ==
  /\ rec.actor = {a}
  /\ rec' = Idle
  /\ fence' = fence \ {a}
  /\ UNCHANGED <<users, dev, pass>>

(* The write that ends the pass; a newer version of the object refuses it. *)
(* A lapse ends with a pass whose check of the claim was up to date.       *)
WriteBack(a) ==
  /\ EndPass(a)
  /\ IF Stored[a] = rec.obj /\ rec.new # rec.obj
       THEN Store(a, rec.new)
       ELSE UNCHANGED hist
  /\ lapse' = IF Stored[a] = rec.obj /\ rec.new.applied /\ ~Overlooked(a)
                THEN lapse \ {a} ELSE lapse

WriteLost(a) == EndPass(a) /\ UNCHANGED <<hist, lapse>>

--------------------------------------------------------------------------------
UserStep ==
  \/ \E d \in Direct : UserCreate(d) \/ UserDelete(d) \/ UserEdit(d)
  \/ \E s \in Sources : UserChanges(s)

Reconcile(a) ==
  \/ Prepare(a) \/ ApplyEntry(a) \/ RecordCollides(a) \/ FinalizeEntry(a)

Translate(s) ==
  \/ acquireGeneratedChildClaims(s) \/ SourceCollides(s) \/ SourceReleases(s)
  \/ CreateChild(s) \/ UpdateChild(s) \/ cleanupOwnedChildren(s)

Setback ==
  \/ \E s \in Sources : SourceAmbiguous(s) \/ CreateFails(s)
  \/ \E a \in Actors :
       \/ DependencyLost(a) \/ ApplyFails(a) \/ CollisionCleanupFails(a)
       \/ WriteLost(a)

ClaimsNext ==
  \/ UserStep
  \/ Deliver
  \/ Restart
  \/ \E a \in Actors : Reconcile(a) \/ WriteBack(a)
  \/ \E s \in Sources : Translate(s)
  \/ Setback

ClaimsSpec == ClaimsInit /\ [][ClaimsNext]_vars

(* The watch delivers, and the work queues come back to every key: a pass  *)
(* ends in an error, a delayed re-queueing or a write that the watch will  *)
(* deliver.                                                                *)
FairClaimsSpec ==
  /\ ClaimsSpec
  /\ WF_vars(Deliver)
  /\ WF_vars(\E a \in Actors : WriteBack(a))
  /\ \A a \in Actors : SF_vars(Reconcile(a))
  /\ \A s \in Sources : WF_vars(Translate(s))

--------------------------------------------------------------------------------
(* A claim has one holder: two records do not have entries for the same    *)
(* hostname, or port, on the devices.  Three lapses are known: a record    *)
(* states that it yields though it failed to remove its entry; it has its  *)
(* entry before it withdraws an earlier such statement; it is re-pointed   *)
(* in place, which frees the claim before its next pass removes the entry. *)
OneHolder == \A a, b \in dev \ lapse : a = b

(* Why it holds.  Of two versions of a record, the earlier first: a record *)
(* is not unborn again; it was prepared while it was there; prepared, it   *)
(* stays so until it is seen deleting; deleting, it can only go.           *)
Follows(r, later) ==
  /\ later.phase = "unborn" => r.phase = "unborn"
  /\ later.prepared => Present(r)
  /\ r.phase = "live" /\ r.prepared => later.prepared
  /\ r.phase = "deleting" => later.phase \in {"deleting", "gone"}

Sound(r) ==
  /\ r.prepared => Present(r)
  /\ r.phase = "deleting" => r.prepared

(* A record that yields names one that wins over it for good. *)
Beats(a, e) == a # e /\ generatedOwnershipConflict(e, a, TRUE) = "collision"

RecordsOrdered ==
  \A a \in Actors : \A j \in DOMAIN hist :
    /\ Sound(hist[j][a])
    /\ \A y \in hist[j][a].yield : Beats(y, a)
    /\ \A i \in DOMAIN hist : i < j => Follows(hist[i][a], hist[j][a])

(* What the cache has yet to see of a record: it may come or go, and only  *)
(* a direct record may do both.                                            *)
ComesOrGoes ==
  \A a \in Actors : \A i, j, k \in DOMAIN hist : i < j /\ j < k =>
    /\ Present(hist[i][a]) /\ Present(hist[k][a]) => Present(hist[j][a])
    /\ a \in Sources /\ Present(hist[j][a]) =>
         Present(hist[i][a]) \/ Present(hist[k][a])

(* Whichever version is read, e stands against all that could be applied. *)
Held(e) == (\A i \in DOMAIN hist : hist[i][e].prepared) /\ ~Overlooked(e)

HoldersHeld == \A e \in dev \ lapse : Held(e) /\ Stored[e].yield = {}

(* What the pass of a record has found and will write. *)
PassSound ==
  \A a \in rec.actor :
    /\ \/ /\ rec.obj.phase = "live" /\ rec.obj.prepared
          /\ rec.new.phase = "live" /\ rec.new.prepared /\ rec.new.here = rec.obj.here
       \/ /\ rec.obj.phase = "deleting" /\ rec.new = Blank("gone") /\ a \notin dev
          /\ \A i \in DOMAIN hist : ~(hist[i][a].phase = "live" /\ hist[i][a].prepared)
    /\ \A y \in rec.new.yield : Beats(y, a) /\ a \notin dev \ lapse
    /\ rec.new.applied =>
         /\ rec.new.yield = {}
         /\ \A i \in DOMAIN hist : hist[i][a].prepared
         /\ IF rec.new.here THEN a \in dev /\ dev \ lapse \subseteq {a} ELSE a \notin dev

ClaimsInv ==
  /\ TypeOK /\ OneHolder
  /\ RecordsOrdered /\ ComesOrGoes /\ HoldersHeld /\ PassSound

SystemStep ==
  \/ Deliver
  \/ \E a \in Actors : Reconcile(a) \/ WriteBack(a)
  \/ \E s \in Sources : Translate(s)

(* A direct record has the claim if there is one, the first by key if      *)
(* there are several; or else one of the sources that ask for it.          *)
Settled ==
  LET live == {d \in Direct : Stored[d].phase = "live" /\ Stored[d].here}
      asking == {s \in Sources : want[s] = "here"}
      first == {d \in live : \A e \in live : Key[d] <= Key[e]}
  IN /\ \A a \in dev : Appliable(Stored[a]) /\ Stored[a].applied
     /\ CASE live # {} -> dev = first
          [] live = {} /\ asking # {} -> \E s \in asking : dev = {s}
          [] OTHER -> dev = {}

(* Once users, crashes and faults pause for good, the claim is settled and *)
(* stays so: nobody waits for ever for another to yield.                   *)
Converges == <>[][SystemStep]_vars => <>[]Settled
================================================================================
