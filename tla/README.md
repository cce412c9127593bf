# A TLA+ model of the MikroTik operator

The operator (`src/`) reconciles Kubernetes objects into RouterOS devices:
`MikroTikRouter` names the API endpoints of devices; `MikroTikDNSRecord`,
`MikroTikRoute`, `MikroTikFirewallRule` and `MikroTikPortForward` become entries
on them, marked with a managed comment; Services, Ingresses and HTTPRoutes are
translated into those kinds. What makes it hard is that the devices know nothing
about Kubernetes: whether an entry can ever be found and removed again depends
on records the operator keeps in object statuses and annotations, written
through an API server with optimistic concurrency, read back through a cache
that lags, by several controllers at once, in a process that may die between
any two calls.

This directory models that core, checks it with TLC on small instances, and
proves with TLAPS, for all instances, every safety property and both refinements
that the runs check. `PROJECT.json` maps each definition to the lines it models
and lists runs, mutants, findings, hazards and theorems.

## 1. Inventory

File names without a directory are in `src/internal/controller`; `rc` is
`router_controller.go`, `rh` is `router_helpers.go`.

| Component | State | Operations | Interacts with | What makes it correct |
|---|---|---|---|---|
| Fence registry (`router_fence.go`) | map key -> entry with token channel and reference count | `acquire`, `release`, cancellation | every goroutine that touches a router; two instances (operations, claims) | mutual exclusion per key across drop and re-creation; no leaked entry; no lost token |
| Router lifecycle (`rc` 38-282, `rh` 24-108, 260-339) | spec endpoints, `status.appliedEndpoints`, `status.connected`, finalizer | reconcile, sweep of removed endpoints, finalization | fences, devices, other routers (endpoint ownership), resource controllers | an entry on a device is always recorded; removed endpoints and deleted routers are swept; a claimed endpoint is spared; eventually settled |
| Router references (`rc` 554-636, `rh` 110-220) | `routerRef`, `router-targets` annotation, `status.routerRef` | resolve, persist, compact | routers in the cache | implicit choice only if unique; record before apply |
| Resource reconcilers (`rc` 284-515, 2570-3090) | the above, finalizer, `status.applied` | reconcile, move, clean up, finalize | references, fences, devices, Services, Pods, claims | each entry recorded; on one router only; cleaned before the object goes; eventually where the spec says |
| Generated-child claims (`rc` 1950-2266) | claim fences, status messages | preflight, yield | translators, DNS records, port forwards | one applied claimant per hostname or port; no deadlock with operation fences |
| Translators (`rc` 517-1948) | owned child objects, service-route annotations | desired children, prune | Services, Ingresses, Gateways, Nodes, claims | children match the source; no child survives it |
| Cluster routes (`cluster_routes.go`, `rc` 2504-2573) | generated `MikroTikRoute`s with an origin label | next hops, create, relabel, prune; filter per endpoint | Services, Nodes, routers, the route reconciler | each endpoint has its gateway or all the nodes; nothing survives its Service |
| RouterOS client (`internal/routeros/client.go`) | connection, rules of a device | Ensure*, Delete*, DeleteManagedConfiguration | device | success means the table is right; rows of others stay; safe to repeat after failure |
| Export and restore (`internal/routeros/export.go`) | the restore file on the device | export, split, import | device | the chunks run as the whole script would; no file is left |
| Admin UI API (`internal/uiapi`) | none | list, create, update, delete | API server, resource reconcilers | an update keeps the operator's metadata |
| Processes, API types, web UI, charts, tools | - | wiring, data | - | not modelled (section 7) |

The hard behaviours: the informer cache may be several versions behind and is
also what is read *under* the fence; updates conflict; a pass ends with
`Result{}` and relies on the watch event of its own write, while timers of
earlier passes may wake the key first; a restart drops fences and work in
progress; one of several devices fails; a device command may take effect although
it is reported as failed, at once or much later; administrators work in the same
tables; two routers name one device.

## 2. Modules

| Module | Models | Uses |
|---|---|---|
| `RouterMutex` | what a fence promises: a mutex per key with cancellation | - |
| `RouterFence` | `router_fence.go` lines 23-77 | refines `RouterMutex` |
| `RouterFenceProofs` | theorems about `RouterFence` | `RouterFence`, TLAPS |
| `RouterLifecycle` | `RouterReconciler`, endpoint ownership and history, `withRouterConnections` | the fence as an atomic lock, justified by `RouterFence` |
| `ManagedResource` | the four resource reconcilers and router references | routers by what the cache shows of them, justified by `RouterLifecycle` |
| `GeneratedClaims` | the claim check of `rc` 1950-2266 and the translators and records that go through it | the fence as an atomic lock; a record as `ManagedResource` leaves it |
| `ClusterRoutes` | the generated routes of a Service, from next hops to devices | the route reconciler by its finalizer, its endpoint filter and its clean-up |
| `RouterOSClient` | the calls of `client.go`, command by command | - |
| `ScriptRun` | what `Import` promises: the run of a script in one piece, which may break off | - |
| `RestoreImport` | `Import` of `export.go` | refines `ScriptRun` |
| `FoldProofs` | lemmas: what a fold over a sequence of any length computes | TLAPS and its library |
| `RouterLifecycleProofs`, `ManagedResourceProofs`, `GeneratedClaimsProofs`, `ClusterRoutesProofs`, `RouterOSClientProofs`, `RestoreImportProofs` | theorems about the module of that name | TLAPS and its library; `FoldProofs` |
| `MC*` | instances for TLC; `MCRouterOSClient` puts the two modules of a connection side by side | |

Definitions beginning with `\* Mutant:` are deliberate mistakes of the kind the
code could contain; no specification uses them. Each is substituted for one
definition to make sure that a property can fail.

**RouterFence.** `registry.mu` makes the first half of `acquire` and all of
`releaseReference` atomic, so these are single steps (`Acquire`,
`ReleaseReference`); sending and receiving the token happens outside and is a
step each (`TakeToken`, `ReturnToken`), as is the end of a waiter's context
(`ContextDone`). Entries are heap identities that are reused once nothing points
to them, so a stale pointer would be noticed.

**RouterLifecycle.** `hist[r]` is the sequence of versions of a router object
from the one in the cache to the one on the server. A write needs the server's
resourceVersion: before the fence this is "the cache is current" (`Len = 1`),
afterwards `rfresh`, which any later write clears. `Deliver` moves the cache and
enqueues; `Wake` enqueues without moving it (timers); `Restart` empties
everything but the server and the devices. `Reconcile` up to its first write is
one step on the object read; taking the fence and re-reading is one step; every
endpoint checked, wiped or written to is a step, so that anything can happen in
between. Resource controllers (`Workers`) apply or clean up through
`withRouterConnections`. `left` is a ghost: entries a sweep left to another
claimant.

**ManagedResource.** The same history for one resource of a kind in `Kinds`,
with `ann` (router-targets), `sref` (`status.routerRef`), `applied` and the
reference. One action per branch of `Reconcile`; the four reconcilers differ
only where a guard mentions `kind`. `rt[r]` is the router in the cache (absent,
new, active, deleting), and `RouterSwept` is a whole finalization. The Service,
the Pod, the completeness of the spec and the outcome of the claim check are
nondeterministic. `updateResource` is the PUT of the admin UI: it reads the live
object, copies the metadata the body leaves out (`preserveManagedMetadata`) and
stores the body; a body from the YAML drawer carries annotations, `Drafts` says
which. `lapse` is a ghost for the three known ways an entry loses its record:
findings 4 and 5, and such a draft. An entry is written without a record
(`"stale"`) when some version from the cached to the stored one does not list the
router.

**GeneratedClaims.** One hostname, or one public address, port and protocol, on
one router. An actor is a direct record or a source (Service, Ingress,
HTTPRoute), whose record is its generated child. `hist` is one history for all
records, as one informer serves a kind. A translator checks the claim and, still
holding the claim fence, creates the child or updates it in place (two steps); a
clean-up runs outside the fence. `here` says whether a record's specification
names this claim or another: a direct record is re-pointed by its user
(`UserEdit`), the `-dns` child of a Service and a port-forward child by their
source (`UpdateChild`; `rc` 855-859, 2458-2473), while a child of an Ingress or
HTTPRoute, whose name contains the hostname, is deleted and another created.
Such a record gives up its old claim at once, and the device keeps the old entry
until the record's next pass (`Ensure`). A pass of the record reconciler is two
steps: it reads the cache, checks the claim and works on the devices; it writes
the status. The steps on the devices can be merged with the read because one
worker per kind is the only one to touch these entries, while users,
translators, the watch and crashes come between the two. `yield` is the winner
that a Ready=False condition names: that is how a loser lets a winner go on.
`lapse` is a ghost: an actor whose entry is on the devices although others may
overlook its claim (section 4).

**ClusterRoutes.** One Service and one router. `route[g]` is the generated route
with next hop `g` on the server, `cached[g]` in the cache: new, with its
finalizer, or deleted, and its origin label. A pass of the Service reconciler
computes hops and lists routes when it starts (`StartPass`), then makes one API
call per step (`PutRoute`, `DeleteRoute`), so nodes, gateways and the Service
change under it. A Service that keeps its DNS name but has no address for it
(`HasAddress`; `rc` 780-804) leaves its routes as they are until it has one
again. The route reconciler reads a route and the router (`StartWork`), then
handles one endpoint per step: the route goes on it or, if it does not apply
there, off it. A Service that is gone has its routes found by label; that pass
and the one for a Service that wants no routes differ in the code only in how
the routes are listed.

**RouterOSClient.** One table of one device and one resource in it. `rows` is the
table in its order; a call is a record with what it has read so far and its
place in the code; each step is one command. Ids are the places of rows and
follow them (`Change`), so an id read earlier may be `Gone` when it is used. What
a print returns is the set of ids that match, `InOrder` where their order
matters. Four tables stand for `EnsureDNS`, `EnsureRoute`, `EnsurePortForward`
(two rules, one per NAT chain) and `EnsureFirewallRule` (with `placeBefore` for
the values in `Placed`), and for their Deletes; `BeginWipe` is the part of
`DeleteManagedConfiguration` that concerns the table. Comments are sequences of
tokens because what separates a resource from its neighbour is where a slash is
expected. `call.calm` remembers whether anyone interfered during the call.

**RestoreImport.** The lines of a script with their kind, size and unescaped
quotes, braces and trailing backslashes. `restoreStatements` and
`splitRestoreScript` are folds over lines and statements; the steps of
`importViaFile` are actions, each of which may fail or be the last. The device
(`Executed`) runs a chunk from the root menu. The reference for the split is the
same device running the whole script (`Whole`). An `/import` that takes longer
than `routerOSBackupTimeout` is given up, but the connection stays
(`runRouterOSOperation` resets its deadline): `running` is what the device may
still do of that chunk (`RunOn`), also after the call has ended. `ScriptRun`
knows no chunks, files or limits: commands run in order, each once, all of them
before success is reported, none of them in a call that refuses the script, and
some perhaps after a call that failed.

### Abstractions

- An endpoint is its `endpointKey`; `Malformed` endpoints have a blank address
  or Secret name, which CRD validation lets through. Credential rotation,
  duplicate endpoints and the order of lists are left out.
- Ready is written in the same updates as `connected` and `applied`, which stand
  for it. Updates that change a message only are left out.
- In `RouterLifecycle` a timer wakes a key only while the worker is idle (nobody
  looks at the queue before), and a clean-up skips devices without an entry of
  its own, where it would change nothing. Both only save states.
- Finalizers of others and forced removal of finalizers are excluded.
- Above `RouterOSClient` an entry is one thing per device and resource, put there
  or removed in one step that may be reported as failed; `SuccessIsReal` and
  `Repaired` are what justifies this.
- `RouterOSClient`: what a row says is one of `Values`; an empty TTL or
  distance, which matches anything, is left out. Rows are printed with the
  values they were added with: where RouterOS writes one differently (a
  duration, say), the comparisons of `client.go` fail and rows are replaced at
  every check, which `NoChurn` does not see. Of the srcnat rule the code
  compares chain, dst-address and action only (`client.go` 304); drift in its
  other fields is outside the model. The other tables of a sweep are not
  tracked. The user edits the spec only between calls, since a call works with
  the spec it was given.
- `RestoreImport`: scripts have the form of exports (section 7). CR and CRLF
  line ends are already newlines. A statement that ends with a backslash and an
  empty last line counts one byte more than in the code.
- `ClusterRoutes`: the reference to the router and the router's endpoints stay;
  what happens when they change is `ManagedResource`. Service, router and nodes
  are read as they are when a pass starts. Routes are in all-nodes mode.
  Kubernetes' garbage collection of owned routes is left out: the operator's own
  clean-up is enough.
- In `ManagedResource` the first of several routers with the same reference form
  is cleaned in any order; the code uses the order of the list.
- The third branch for an invalid implicit selection (`rc` 351-355) is left out:
  one of the two before it applies whenever `status.routerRef` is set.
- The route children that a DNS record of a ClusterIP Service owns are left out.
- In `GeneratedClaims`, the finalizer and the annotation are one step
  (`Prepare`), a record keeps its router, and passes that change nothing are
  left out. A direct record has one life, since its UID is part of its key. Of
  other claims the model says only that a record is away: a collision there may
  happen at any time, waiting there is a pass without effect that is taken to
  end, and what its entry there does is the same question about another claim. A
  record starts with this claim; one that starts with another and comes to this
  one is a record re-pointed before its first pass. A source has one child.
  Whether a source wants the claim (`want`) changes freely: accepted hostnames,
  backends and ports are not computed. A Service or Pod that is lost while a
  device fails at the same time is left out.

## 3. Runs

| Run | Instance | Shows |
|---|---|---|
| `fence` | 3 goroutines, 2 keys, 3 entries | `MutualExclusion`, `NoIdleEntry`, `FenceInv` (the invariant of the proofs), `WaitersServed`, `ImplementsMutex` (refinement) |
| `two_routers` | 2 routers on endpoint a, one of them also changing to b, a resource controller, lag 1 | `EntryRecorded`, `CleanupReaches`, `ApplyingRecorded` through changes of owner and sweeps that spare a claimant |
| `routers_converge` | 2 routers, a, b and a malformed x, lag 1 | `Converges`: take-over and recovery from a rejected spec included |
| `resource` | port forward and route, two local routers of which one stays active, implicit and qualified reference, UI drafts without router-targets, lag 1 | `TargetRecorded`, `SingleHome`, `Converges`, ambiguity included |
| `claims` | two direct records; a direct record and a source; two sources; three direct records; in the first two, one that is re-pointed; lag 1 | `OneHolder`; `Converges`: the claim goes to the one with priority, and each entry follows its specification |
| `client` | four tables, two contents (one with `placeBefore`), one row of others; 2,487 scripts of up to 5 lines, limit 3 | `SuccessIsReal`, `OthersUntouched`, `NoChurn`, `Repaired`; `ImportFaithful`, `WithinLimit`, `RefusedForCause`, `NothingLeft`, `ImplementsScriptRun` |
| `cluster_routes` | 2 endpoints, 2 addresses of which one is also a gateway, 2 changes, 1 fault | `RouteKept`; `Converges`: every endpoint gets its next hops |

Why the bounds are enough to be interesting: two goroutines suffice to drop and
re-create an entry, the third joins in between or works on the other key. A
router with two endpoints can be in the middle of a sweep with one wiped and one
not; two routers suffice for every ownership conflict, since a claim is by any
other router. `MaxLag` limits how many user edits may pile up unseen. `Specs`
limits what users write: together the instances have specs that add, remove and
replace an endpoint. `routers_converge` has no resource controller: that a fence
is always released and passed on is `WaitersServed`. `Steady` keeps one of two
routers active, so that a resource always has somewhere to go and the selection
alternates between unique and ambiguous. `Casts` limits who claims together, and
who of them may be re-pointed (the movers): each pair of sides (direct against
direct, direct against generated, generated against generated), and three direct
records, where a loser has two winners to name and its condition only room for
one. Fairness is for each actor (`FairClaimsSpec`); `FairCastSpec` says the same
with fewer conjuncts, since who takes part is fixed. More movers, three records
with one and two sources with one keep `OneHolder` as well (1.3 million states),
but liveness for them takes longer than is worth waiting for each time. The
operator's own writes need a current object, so they add at most one version.

In `client`, at most one interference per call (an edit, another resource's row,
a late command): two in one call can only make it fail or return a result nobody
promises, and across calls there is no limit. One foreign row (`MaxForeign`) is
enough to be in the way, to be mistaken for the resource's own, or to be the row
that a command names when it goes. With a limit of 3 bytes, paths of 1 and
commands of 1 to 3, statements fill a chunk exactly, with and without their path
line, and five lines make up to five chunks. In `cluster_routes`, two changes
suffice to bring in and take away a node or a gateway, or to change something
and delete the Service; three changes pass as well (1.6 million states) but take
longer than is worth waiting for each time.

Otherwise nothing is bounded: all passing runs exhaust their state spaces. Three
runs do not check for deadlock, because the system may stop: `claims` (nobody
wants the claim any more), `client` (an import is over) and `cluster_routes` (the
Service is gone, or has no next hop to offer, and everything is clean).

**Fairness.** The watch delivers; the controller takes queued keys in turn and
runs each request to its end; RouterOS calls have timeouts, so a holder
releases; a Go channel serves receivers in order, so a waiter that finds the
token available again and again gets it (strong fairness for taking a fence).
Likewise a work queue serves its keys in turn and a list has no fixed order, so
that a record whose pass is possible again and again gets it (strong fairness
for record passes in `GeneratedClaims`, and for the worker's visits to each route
in `ClusterRoutes`). A call on a connection goes on, each command ending by its
timeout at the latest, and its controller makes another one after an error or
the drift check (`ClientFairness`). With weak fairness alone three direct
records never settle: a loser that keeps re-wording its condition, now for one
winner, now for the other, occupies the one worker for ever.
Users, routers, restarts, faults, late commands and `Wake` are not fair.
`Converges` and `Repaired` read: if disturbances stop for good, the system
settles for good; in `ClusterRoutes` the bounds on changes and faults see to it
that they stop. A step that could be
either the operator's own or a disturbance counts as its own, which makes the
property stronger.

## 4. Findings (runs that expect a violation)

1. `orphaned_entries`: a sweep leaves an endpoint to another router that names
   it but never records it; its entries are then known to nobody (`rc` 151, 190).
2. `sweep_of_claimed_endpoint`: the claim check is stale by the time the device
   is wiped (`rc` 151-168, 190-206). The one router worker is in the sweep, so no
   router can record the endpoint meanwhile; but one that has it on record from
   before, dropped it from its spec and asks for it again, is applied to at once,
   and the entries its resources put there go too.
3. `invalid_selection_unreported`: an applied resource whose implicit selection
   becomes ambiguous alternates between two branches for ever and stays
   `Applied`; the error report is unreachable (`rc` 334-357).
4. `gone_with_entry_left`: a missing credentials Secret is taken for a missing
   router; the finalizer goes while the entry stays (`rh` 251).
5. `last_router_forgotten`: a timer wakes the key before the cache shows the
   emptied annotation, and the entry is applied with no record (`rc` 344-350).

The ghosts `left` (finding 1) and `lapse` (findings 4 and 5, and a UI draft with
old annotations, which no document rules out) exempt exactly these losses from
the invariants of the passing runs, which show that there is no other way to
lose the record of an entry within the bounds.

Findings 2 and 3 break no property of the passing runs.

Nor does an add that timed out and is carried out by the device after the
resource's deletion has found nothing and succeeded (`client.go` 226): the
finalizer is gone and the row stays. `RouterOSClient` has this behaviour, but
`Repaired` asks nothing of a resource that is gone; above it a late command is
not modelled, so `EntryRecorded` and `TargetRecorded` say nothing about it.

`OneHolder` has an exemption, too, which contradicts no document but is worth
knowing. Two entries for one hostname or port can be on a device

- (a) when a loser fails to remove its entry: the joined error still names the
  winner, who takes it for a yield (`rc` 434);
- (b) when a record that had yielded is applied again and its status update is
  lost, so that the old condition still names the former winner (`rc` 475);
- (c) when a record is re-pointed in place, by its user or by its source (`rc`
  855-859, 2458-2473): the claim check reads the new specification, so the old
  claim is free, while the device keeps the old entry until the record's next
  pass. The same goes for a pass that applies the old specification while the
  cache does not show the new one, and for one that comes back to the claim
  before a pass has checked it anew.

All heal in a later pass, as `Converges` shows. There is no other way: an entry
becomes exempt only when its own record loses the claim and cannot remove it, is
re-pointed, or is applied while a version of it, from the cached to the stored
one, yields or names another claim; and it stays exempt only until it is removed
or a pass that found the claim free has written its status.

## 5. Proofs

Each theorem is about the specification without fairness and holds for every
value of the constants that satisfies the named assumption of its module. The
assumptions say what the code or Kubernetes guarantees: there are finitely many
goroutines, routers and addresses; keys, kinds and references have their form;
a marker such as `None` or `Absent` is not a value; bounds are natural numbers.

Every invariant theorem has the same form. The inductive invariant is defined in
the module it is about, as a conjunction of named parts, and was checked by TLC
on the instances of the runs before it was proved (`FenceInv` still is, in
`fence`). A lemma per action, or per group of actions that touch the same
variables, shows that it is kept.

| Theorem | States | Because of |
|---|---|---|
| `FenceMutualExclusion`, `FenceNoIdleEntry` | the fence is a mutex per key and leaks no entry | `FenceInv` |
| `FenceRefinement` | `RouterFence` implements `RouterMutex` | the same |
| `EntriesAreRecorded`, `CleanupReachesAll`, `ApplyingIsRecorded` | `EntryRecorded`, `CleanupReaches`, `ApplyingRecorded` | `LifecycleInv` |
| `TargetsAreRecorded`, `ResourceHasOneHome` | `TargetRecorded`, `SingleHome` | `ResourceInv` |
| `ClaimHasOneHolder` | `OneHolder` | `ClaimsInv` |
| `RoutesAreKept` | `RouteKept` | `RouteInv` |
| `OthersAreUntouched` | `OthersUntouched` (action property) | `ClientInv` |
| `SuccessMeansDone`, `DriftCheckIsQuiet` | `SuccessIsReal`, `NoChurn` (action properties) | `ClientInv` and `CalmWork` |
| `NoFileLeft` | `NothingLeft` | `FilesTracked` |
| `SplitScript` | the chunks of a script do together what it does, and fit; a refusal has a cause | the folds, and `SplitSoFar` |
| `ImportIsFaithful`, `ChunksWithinLimit`, `RefusalHasCause` | `ImportFaithful`, `WithinLimit`, `RefusedForCause` | `ImportInv` (`ImportInvariant`) |
| `ImportRefinement` | `RestoreImport` implements `ScriptRun` | the same |
| `FenceTypes`, `LifecycleTypes`, `ResourceTypes`, `ClaimsTypes`, `RouteTypes`, `ClientTypes` | each module's `TypeOK` | part of the above |

**RouterFence.** Mutual exclusion is not inductive: two goroutines on one key
might hold tokens of two different entries. `FenceInv` adds why they cannot:
counts are exact (`RefsExact`), so an entry leaves the map only with its last
referrer; hence all goroutines on a key share its entry (`OneEntryPerKey`,
`EntriesDistinct`), whose one token is with at most one of them
(`TokenConserved`). The refinement follows step by step: `Acquire` is `Request`,
`TakeToken` is `Enter`, `ReturnToken` is `Leave`, `ContextDone` is `GiveUp`, and
`ReleaseReference` stutters.

**RouterLifecycle.** That an entry is recorded depends on who may drop a record
and what they have seen. Whoever works on a router has its fence (`FenceHeld`),
and a pass that may write has read the only version there is (`FreshIsStored`).
From the first version that could be applied, later ones keep the finalizer and
what it records (`HistoryKept`): this is why a worker may act on a stale cached
router. A sweep that will drop a record has nothing left outside what it still
has before it and the new spec (`SweepCovers`), and meanwhile nobody adds to it,
since an apply needs the fence and writes only what all versions record
(`ApplyCovered`).

**ManagedResource.** Here no fence orders the passes of one resource, but its
work queue does, and the object's version. A finalizer stays until it is seen
deleting (`FinalizerKept`); a clean-up after which records are dropped has all
holders before it (`CleanCovers`); an apply has one target, which is the only
holder there may be (`ApplyCovered`). Proving this showed that the ghost `lapse`
had been too narrow: it excused an entry written without a record only if the
stored annotation lacked the router, but with two unseen versions, the older of
which lacks it and the newer (a draft) has it, `TargetRecorded` fails as well.
The run's lag and drafts are too few to show it. The ghost now looks at every
version.

**GeneratedClaims.** The collision order is asymmetric (`BeatsAsymmetric`), and
whom a record yields to wins over it in every version (`RecordsOrdered`). A
holder is prepared in every version that may be read, and all of them name the
claim and none says that it yields (`HoldersHeld`), so whoever else makes the
claim check is refused, whatever version it reads. A record that finds its claim
free can be overlooked afterwards only because it is re-pointed itself
(`OverlookedByTurn`), which is when its entry becomes a lapse. `PassSound` says
the same of the one pass that is under way. The proof uses no fact about the
claim fence: with one worker per kind the fence orders translators among
themselves, while it is the check of the record's own pass that keeps holders
apart.

**ClusterRoutes.** A cached route with the finalizer still has it on the server,
and a clean-up is begun only on a deleted route, which cannot come back as
"kept" before the cache has shown it absent (`CacheBehind`, `WorkSafe`).

**RouterOSClient.** `OthersUntouched` needs that commands name only rows that
they may remove, however late they take effect: ids follow their rows, and a row
once recognised by its comment keeps it (`SafeCall`, `SafeCommand`). That
comments are told apart is proved, not assumed: `PrefixMatches` and `Owners` show
that prefix matching at a slash separates a resource from its neighbour and from
rows of others. `SuccessIsReal` needs, in addition, what a call knows while
nobody interferes (`CalmWork`): what is still to be removed is exactly what is
left, nothing is there when adding starts, and the first id of a chain is still
its first. Lists of rows have any length; where the proof needs the least id, or
the order in which ids are listed, it uses that every non-empty set of naturals
has a least element (`LeastExists`, `InOrderLists`).

**RestoreImport.** `FilesTracked`: whatever step fails, the call knows the one
file it has made, or has found it by name once leftovers are gone. The other
properties are about what folds compute: over the marks of a line, the lines of a
script, its statements, what a chunk runs, the chunks, and the bytes of each. The
library's induction theorems take an operator as a parameter, which the provers
cannot instantiate, so `FoldProofs` does without: a step is a function, a
statement about all sequences is a set that contains them, and the induction is
that a set of lengths without a least element is empty (`SequenceInduction`).
`FoldAppend` then says of each fold what one more element does.

The argument about the split is `SplitSoFar`, an invariant of the loop: what the
finished chunks and the one being filled do, each from the root menu, is what the
statements so far do; the path remembered is the menu that the script is in
(`Sound`), which is why a repeated path line puts a chunk's first command into
the right menu; and a refusal has its statement. `AddStatementSound` shows that
one turn of the loop keeps it, in both places where a statement can be refused or
a chunk flushed. `SplitScript` is the result.

`ImportInv` then carries it through the call (`ChunksFollow`): what has been run
and what the chunks still to come would run is, together, the script; every chunk
fits; the file holds the chunk that is about to be run; and only a call that has
failed, or will, leaves something running, which comes next in the script. This
is why a late `/import` cannot spoil the order: no chunk is written once one has
failed. In the refinement, a step that runs something is `RunSome`, the step that
ends the call is `EndRun`, and the others stutter. The assumption on scripts is
that they have the form of exports (section 7); their number, length and sizes,
and the limit, are arbitrary.

**What is only model-checked.** Liveness (`WaitersServed`, the `Converges` of
four modules, `Repaired`): fairness and ENABLED are beyond this prover. The
findings are counterexamples and need no proof. Every other property of a passing
run is a theorem.

## 6. Plan

The modules of section 2 are complete. What composes what: the modules above the
fence take it as an atomic lock; `ManagedResource` takes routers,
`GeneratedClaims` takes records and `ClusterRoutes` takes routes by what the
module below shows of them; all of them take a RouterOS call as the step that
`RouterOSClient` shows it to be once it succeeds. All safety properties are
proved. What could still be added is `RouterOSClient` as an implementation of
what the modules above assume, stated as an abstract specification of its own: a
calm call is one step on the set of a device's entries, a failed one leaves each
of its rows there or not.

## 7. Not modelled

- What the translators want: hostname acceptance, listeners, backends, reference
  grants and port-forward candidates are computed from objects with many fields
  and no state of their own; `GeneratedClaims` lets a source want its claim,
  another one or none at any moment, which includes whatever they compute.
- The two fence registries together: the claim fence is always taken first (`rc`
  1967, then 441), and nothing that runs under an operation fence asks for a
  claim, so they cannot wait for each other.
- Route children of DNS records, Ingresses and HTTPRoutes: the same function as
  for Services (`ClusterRoutes`) with another owner. A Service that is deleted
  and created again under its name before its routes are gone: the code refuses
  routes of another owner (`cluster_routes.go` 87) until Kubernetes or the
  finalizer has removed them.
- Single-node mode (`rc` 2558): the first node of an unordered list; nothing in
  the repository says that it stays the same.
- Dialling and closing connections (`client.go` 84-171): the library's
  asynchronous loop is not part of the repository. `EnsureRoutes` and
  `DeleteRoutesByPrefix` have no caller.
- `Export`, which joins the words of replies; restore scripts in which comments
  have quotes or braces, or a path line continues on the next line: RouterOS
  does not export them, and what it makes of them is not in the repository.
- Reads, discovery, decoding and limits of the UI API. Its refusal to edit owned
  objects keeps it away from generated children altogether.
- The backup kinds of `api/v1alpha1/backup_types.go` have no controller. Process
  wiring, the web front end, charts, manifests, generated code, end-to-end
  checkers and the skill skeletons hold no logic of the running operator.
