------------------------- MODULE ManagedResourceProofs -------------------------
(***************************************************************************)
(* Proofs about the life of a managed resource, for any finite set of      *)
(* routers, any references and drafts, and a cache that may be any number  *)
(* of versions behind.                                                     *)
(***************************************************************************)
EXTENDS ManagedResource, FiniteSetTheorems, SequenceTheorems, TLAPS

(* Resolving a reference yields one router or none. *)
LEMMA ResolvedIsOne ==
  ASSUME TypeOK, NEW ref \in Refs, resolveRouterReference(ref).tag = "found"
  PROVE  \E k \in Keys : resolveRouterReference(ref).key = {k}
<1> USE ResourceAssumption
<1>1. ASSUME NEW S, S \subseteq Routers, OnlyOne(S).tag = "found"
      PROVE  \E k \in Keys : OnlyOne(S).key = {k}
  <2>1. Cardinality(S) = 1 /\ OnlyOne(S).key = S
    BY <1>1 DEF OnlyOne, ImplicitInvalid
  <2>2. IsFiniteSet(S)
    BY <1>1, FS_Subset
  <2>3. PICK k : S = {k}
    BY <2>1, <2>2, FS_Singleton
  <2> QED BY <2>1, <2>3, <1>1 DEF Keys
<1>2. liveRouters \subseteq Routers
  BY DEF liveRouters
<1>3. CASE Len(ref) = 2
  <2>1. resolveRouterReference(ref) = IF Exists(ref) THEN Found(ref) ELSE NotFound
    BY <1>3 DEF resolveRouterReference
  <2> QED BY <2>1 DEF Exists, Found, NotFound, Keys
<1>4. CASE Len(ref) = 1
  <2> DEFINE local == routerKeyFromRef(ref)
             named == {r \in liveRouters : r[2] = ref[1]}
  <2>1. resolveRouterReference(ref) =
          IF Exists(local) \/ named = {} THEN Found(local) ELSE OnlyOne(named)
    BY <1>4 DEF resolveRouterReference
  <2>2. local \in Keys
    BY <1>4 DEF Keys, Named
  <2>3. named \subseteq Routers
    BY <1>2
  <2> HIDE DEF local, named
  <2>4. CASE Exists(local) \/ named = {}
    BY <2>1, <2>2, <2>4 DEF Found
  <2>5. CASE ~(Exists(local) \/ named = {})
    BY <2>1, <2>3, <2>5, <1>1
  <2> QED BY <2>4, <2>5
<1>5. CASE ref = <<>>
  <2> DEFINE local == {r \in liveRouters : r[1] = Home}
             chosen == IF local # {} THEN local ELSE liveRouters
  <2>1. resolveRouterReference(ref) = OnlyOne(chosen)
    BY <1>5 DEF resolveRouterReference
  <2>2. chosen \subseteq Routers
    BY <1>2
  <2> HIDE DEF chosen
  <2> QED BY <2>1, <2>2, <1>1
<1>6. Len(ref) = 2 \/ Len(ref) = 1 \/ ref = <<>>
  OBVIOUS
<1> QED BY <1>3, <1>4, <1>5, <1>6

(* What the operations make of a version is a version. *)
LEMMA VersionTypes ==
  /\ Absent \in Version
  /\ \A ref \in Refs : NewResource(ref) \in Version
  /\ \A v \in Version :
       /\ Finalized(v) \in Version
       /\ AllTargets(v) \subseteq Keys
       /\ durableRouterTargets(v, v.sref) \subseteq Keys
       /\ [v EXCEPT !.applied = FALSE] \in Version
       /\ [v EXCEPT !.fin = TRUE] \in Version
       /\ [v EXCEPT !.fin = FALSE] \in Version
       /\ [v EXCEPT !.deleting = TRUE] \in Version
       /\ [v EXCEPT !.sref = {}, !.applied = FALSE] \in Version
       /\ \A ref \in Refs : [v EXCEPT !.ref = ref] \in Version
       /\ \A keys \in SUBSET Keys : [v EXCEPT !.ann = keys] \in Version
       /\ \A k \in Keys : [v EXCEPT !.applied = TRUE, !.sref = {k}] \in Version
       /\ \A ref \in Refs, drafts \in SUBSET Drafts :
            preserveManagedMetadata(v, ref, drafts) \in Version
<1> USE ResourceAssumption
<1>1. \A ref \in Refs : NewResource(ref) \in Version
  BY DEF NewResource, Version
<1>2. Absent \in Version
  BY DEF NewResource, Version, Absent
<1>3. ASSUME NEW v \in Version
      PROVE  /\ Finalized(v) \in Version
             /\ AllTargets(v) \subseteq Keys
             /\ durableRouterTargets(v, v.sref) \subseteq Keys
  <2>1. v.ref \in Refs /\ v.ann \subseteq Keys /\ v.sref \subseteq Keys
    BY DEF Version
  <2>2. Named(v.ref) \subseteq Keys
    BY <2>1 DEF Keys
  <2> QED BY <1>2, <2>1, <2>2 DEF Finalized, AllTargets, durableRouterTargets
<1>4. ASSUME NEW v \in Version
      PROVE  /\ [v EXCEPT !.applied = FALSE] \in Version
             /\ [v EXCEPT !.fin = TRUE] \in Version
             /\ [v EXCEPT !.fin = FALSE] \in Version
             /\ [v EXCEPT !.deleting = TRUE] \in Version
             /\ [v EXCEPT !.sref = {}, !.applied = FALSE] \in Version
             /\ \A ref \in Refs : [v EXCEPT !.ref = ref] \in Version
             /\ \A keys \in SUBSET Keys : [v EXCEPT !.ann = keys] \in Version
             /\ \A k \in Keys : [v EXCEPT !.applied = TRUE, !.sref = {k}] \in Version
  BY DEF Version
<1>5. ASSUME NEW v \in Version, NEW ref \in Refs, NEW drafts \in SUBSET Drafts
      PROVE  preserveManagedMetadata(v, ref, drafts) \in Version
  <2>1. UNION drafts \in SUBSET Keys
    BY DEF Keys
  <2> QED BY <2>1 DEF preserveManagedMetadata, Version
<1> QED BY <1>1, <1>2, <1>3, <1>4, <1>5

(* The cached and the stored version are the first and the last. *)
LEMMA HistEnds ==
  ASSUME TypeOK
  PROVE  /\ Len(hist) \in Nat \ {0} /\ DOMAIN hist = 1 .. Len(hist)
         /\ Cached = hist[1] /\ Cached \in Version /\ Cached \in Versions
         /\ Stored = hist[Len(hist)] /\ Stored \in Version /\ Stored \in Versions
         /\ \A v \in Versions : v \in Version
         /\ Len(hist) = 1 => hist = <<Cached>> /\ Stored = Cached
<1>1. hist \in Seq(Version) /\ hist # <<>>
  BY DEF TypeOK
<1>2. Len(hist) \in Nat \ {0} /\ DOMAIN hist = 1 .. Len(hist)
  BY <1>1
<1>3. Cached = hist[1] /\ Cached \in Version /\ Stored = hist[Len(hist)] /\ Stored \in Version
  BY <1>1, <1>2 DEF Cached, Stored
<1>4. Len(hist) = 1 => hist = <<Cached>> /\ Stored = Cached
  BY <1>1, <1>2, <1>3
<1>5. Cached \in Versions /\ Stored \in Versions /\ \A v \in Versions : v \in Version
  BY <1>1, <1>2, <1>3 DEF Versions
<1> QED BY <1>2, <1>3, <1>4, <1>5

(* A write adds a version at the end. *)
LEMMA Appended ==
  ASSUME TypeOK, NEW v \in Version, hist' = Append(hist, v)
  PROVE  /\ hist' \in Seq(Version) /\ hist' # <<>>
         /\ Versions' = Versions \cup {v}
         /\ DOMAIN hist' = 1 .. Len(hist) + 1
         /\ \A i \in 1 .. Len(hist) : hist'[i] = hist[i]
         /\ hist'[Len(hist) + 1] = v
<1>1. hist \in Seq(Version) /\ hist # <<>>
  BY DEF TypeOK
<1>2. /\ hist' \in Seq(Version) /\ hist' # <<>>
      /\ DOMAIN hist' = 1 .. Len(hist) + 1
      /\ \A i \in 1 .. Len(hist) : hist'[i] = hist[i]
      /\ hist'[Len(hist) + 1] = v
  BY <1>1
<1>3. Versions' = Versions \cup {v}
  <2>1. DOMAIN hist = 1 .. Len(hist) /\ Len(hist) \in Nat
    BY <1>1
  <2>2. \A i \in DOMAIN hist' : i \in DOMAIN hist \/ i = Len(hist) + 1
    BY <1>2, <2>1
  <2>3. Len(hist) + 1 \in DOMAIN hist' /\ \A i \in DOMAIN hist : i \in DOMAIN hist'
    BY <1>2, <2>1
  <2> QED BY <1>2, <2>1, <2>2, <2>3 DEF Versions
<1> QED BY <1>2, <1>3

--------------------------------------------------------------------------------
(* The parts of the invariant, types aside. *)
Covered ==
  /\ TargetRecorded /\ SingleHome
  /\ FinalizerKept /\ FreshIsStored /\ CleanCovers /\ ApplyCovers

(* The pass ends, or goes on as it was. *)
PassEnds == pc' = "idle" /\ (fresh' => fresh /\ obj' = obj)
PassUntouched == UNCHANGED callVars

(* The holders after a step are recorded by the versions before it. *)
HoldersRecorded ==
  /\ \A r \in Holders' : \A v \in Versions : v.exists /\ v.fin /\ r \in v.ann
  /\ \A r, s \in Holders' : r = s

LEMMA FewerHolders ==
  ASSUME TargetRecorded, SingleHome, Holders' \subseteq Holders
  PROVE  HoldersRecorded
BY DEF TargetRecorded, SingleHome, HoldersRecorded

(* A step that writes no version. *)
LEMMA QuietStep ==
  ASSUME Covered, hist' = hist, HoldersRecorded,
         PassEnds \/ (PassUntouched /\ Holders' \subseteq Holders)
  PROVE  Covered'
<1>1. Versions' = Versions
  BY DEF Versions
<1>2. TargetRecorded' /\ SingleHome'
  BY <1>1 DEF HoldersRecorded, TargetRecorded, SingleHome
<1>3. FinalizerKept' /\ FreshIsStored'
  BY DEF Covered, FinalizerKept, FreshIsStored, PassEnds, PassUntouched, callVars
<1>4. CASE PassEnds
  <2>1. CleanCovers' /\ ApplyCovers'
    BY <1>4 DEF PassEnds, CleanCovers, ApplyCovers
  <2> QED BY <1>2, <1>3, <2>1 DEF Covered
<1>5. CASE PassUntouched /\ Holders' \subseteq Holders
  <2>1. CleanCovers'
    BY <1>5 DEF PassUntouched, callVars, CleanCovers, Covered
  <2>2. ApplyCovers'
    BY <1>1, <1>5 DEF PassUntouched, callVars, ApplyCovers, Covered
  <2> QED BY <1>2, <1>3, <2>1, <2>2 DEF Covered
<1> QED BY <1>4, <1>5

(* A write that keeps existence, finalizer and the records of the holders. *)
Keeps(v) == Stored.exists /\ Stored.fin => v.exists /\ v.fin

LEMMA StoreStep ==
  ASSUME TypeOK, Covered, NEW v \in Version, Store(v),
         Keeps(v), HoldersRecorded, \A r \in Holders' : r \in v.ann,
         \/ pc' = "idle"
         \/ /\ Holders' \subseteq Holders
            /\ UNCHANGED <<pc, obj, todo, then, target>>
  PROVE  Covered'
<1>1. hist' = Append(hist, v) /\ ~fresh'
  BY DEF Store
<1>a. /\ hist' \in Seq(Version) /\ hist' # <<>>
      /\ Versions' = Versions \cup {v}
      /\ DOMAIN hist' = 1 .. Len(hist) + 1
      /\ \A i \in 1 .. Len(hist) : hist'[i] = hist[i]
      /\ hist'[Len(hist) + 1] = v
  BY <1>1, Appended
<1>h. /\ Len(hist) \in Nat \ {0} /\ DOMAIN hist = 1 .. Len(hist)
      /\ Stored = hist[Len(hist)] /\ Stored \in Versions
  BY HistEnds
<1>2. TargetRecorded'
  <2>1. \A r \in Holders' : v.exists /\ v.fin /\ r \in v.ann
    BY <1>h DEF HoldersRecorded, Keeps
  <2> QED BY <2>1, <1>a DEF HoldersRecorded, TargetRecorded
<1>3. SingleHome'
  BY DEF HoldersRecorded, SingleHome
<1>4. FinalizerKept'
  <2> SUFFICES ASSUME NEW i \in 1 .. Len(hist) + 1, NEW j \in 1 .. Len(hist) + 1, i < j,
                      hist'[i].exists, hist'[i].fin, ~hist'[i].deleting
               PROVE  hist'[j].exists /\ hist'[j].fin
    BY <1>a DEF FinalizerKept
  <2>1. i \in DOMAIN hist /\ hist'[i] = hist[i]
    BY <1>a, <1>h
  <2>2. CASE j \in DOMAIN hist
    BY <2>1, <2>2, <1>a, <1>h DEF Covered, FinalizerKept
  <2>3. CASE j = Len(hist) + 1
    <3>1. Stored.exists /\ Stored.fin
      BY <2>1, <1>h DEF Covered, FinalizerKept
    <3> QED BY <3>1, <2>3, <1>a DEF Keeps
  <2> QED BY <2>2, <2>3, <1>h
<1>5. FreshIsStored'
  BY <1>1 DEF FreshIsStored
<1>6. CASE pc' = "idle"
  <2>1. CleanCovers' /\ ApplyCovers'
    BY <1>6 DEF CleanCovers, ApplyCovers
  <2> QED BY <1>2, <1>3, <1>4, <1>5, <2>1 DEF Covered
<1>7. CASE Holders' \subseteq Holders /\ UNCHANGED <<pc, obj, todo, then, target>>
  <2>1. CleanCovers'
    BY <1>7 DEF CleanCovers, Covered
  <2>2. ApplyCovers'
    BY <1>7, <1>a, <1>h DEF ApplyCovers, Covered, Keeps
  <2> QED BY <1>2, <1>3, <1>4, <1>5, <2>1, <2>2 DEF Covered
<1> QED BY <1>6, <1>7

(* A resource nobody has created satisfies the invariant. *)
LEMMA ResourceInitInv == ResourceInit => ResourceInv
<1> SUFFICES ASSUME ResourceInit PROVE ResourceInv
  OBVIOUS
<1>1. Absent \in Version
  BY VersionTypes
<1>2. TypeOK
  <2>1. <<Absent>> \in Seq(Version) /\ <<Absent>> # <<>>
    BY <1>1
  <2>2. /\ rt \in [Routers -> {"absent", "new", "active", "deleting"}]
        /\ dev \in [Routers -> BOOLEAN]
        /\ lapse \in [Routers -> {"none", "secret", "stale", "draft"}]
    BY DEF ResourceInit
  <2> QED BY <1>1, <2>1, <2>2 DEF ResourceInit, TypeOK
<1>3. Holders = {}
  BY DEF ResourceInit, Holders
<1>4. FinalizerKept
  BY DEF ResourceInit, FinalizerKept
<1>5. TargetRecorded /\ SingleHome /\ FreshIsStored /\ CleanCovers /\ ApplyCovers
  BY <1>3 DEF ResourceInit, TargetRecorded, SingleHome, FreshIsStored, CleanCovers, ApplyCovers
<1> QED BY <1>2, <1>4, <1>5 DEF ResourceInv

LEMMA InvParts == ResourceInv <=> TypeOK /\ Covered
BY DEF ResourceInv, Covered

(* Users create, edit and delete the resource, by kubectl or the admin UI. *)
LEMMA UserInv ==
  ASSUME ResourceInv, UserStep
  PROVE  ResourceInv'
<1>0. TypeOK /\ Covered /\ TargetRecorded /\ SingleHome
  BY InvParts DEF Covered
<1>h. Stored \in Version /\ Stored \in Versions /\ hist \in Seq(Version)
  BY <1>0, HistEnds DEF TypeOK
<1>s. ASSUME NEW v \in Version, Store(v), Keeps(v),
             Holders' \subseteq Holders, \A r \in Holders' : r \in v.ann,
             UNCHANGED <<pc, obj, todo, then, target>>
      PROVE  Covered'
  <2>1. HoldersRecorded
    BY <1>0, <1>s, FewerHolders
  <2> QED BY <2>1, <1>0, <1>s, StoreStep
<1>t. ASSUME NEW v \in Version, Store(v), UNCHANGED <<kind, rt, dev, queued, pc, obj, todo, then, target>>,
             lapse' \in [Routers -> {"none", "secret", "stale", "draft"}]
      PROVE  TypeOK'
  <2>1. hist' \in Seq(Version) /\ hist' # <<>> /\ fresh' \in BOOLEAN
    BY <1>0, <1>t, Appended DEF Store
  <2> QED BY <2>1, <1>0, <1>t DEF TypeOK
<1>u. lapse \in [Routers -> {"none", "secret", "stale", "draft"}]
  BY <1>0 DEF TypeOK
<1>a. Holders # {} => Stored.exists /\ Stored.fin
  BY <1>0, <1>h DEF TargetRecorded
<1>b. \A r \in Holders : r \in Stored.ann
  BY <1>0, <1>h DEF TargetRecorded
<1>1. ASSUME NEW ref \in Refs, UserCreate(ref) PROVE ResourceInv'
  <2> DEFINE v == NewResource(ref)
  <2>1. /\ v \in Version /\ Store(v) /\ ~Stored.exists
        /\ UNCHANGED <<kind, rt, dev, lapse, queued, pc, obj, todo, then, target>>
    BY <1>1, VersionTypes DEF UserCreate, routerVars
  <2>2. Keeps(v) /\ Holders' = Holders /\ Holders = {}
    BY <2>1, <1>a DEF Keeps, Holders
  <2> HIDE DEF v
  <2>3. TypeOK'
    BY <2>1, <1>t, <1>u
  <2>4. Covered'
    BY <2>1, <2>2, <1>s
  <2> QED BY <2>3, <2>4, InvParts DEF ResourceInv, Covered
<1>2. ASSUME NEW ref \in Refs, UserEdit(ref) PROVE ResourceInv'
  <2> DEFINE v == [Stored EXCEPT !.ref = ref]
  <2>1. /\ v \in Version /\ Store(v)
        /\ UNCHANGED <<kind, rt, dev, lapse, queued, pc, obj, todo, then, target>>
    BY <1>2, <1>h, VersionTypes DEF UserEdit, routerVars
  <2>2. v.exists = Stored.exists /\ v.fin = Stored.fin /\ v.ann = Stored.ann
    BY <1>h DEF Version
  <2>3. Keeps(v) /\ Holders' = Holders
    BY <2>1, <2>2 DEF Keeps, Holders
  <2> HIDE DEF v
  <2>4. TypeOK'
    BY <2>1, <1>t, <1>u
  <2>5. Covered'
    BY <2>1, <2>2, <2>3, <1>b, <1>s
  <2> QED BY <2>4, <2>5 DEF ResourceInv, Covered
<1>3. ASSUME UserDelete PROVE ResourceInv'
  <2> DEFINE w == [Stored EXCEPT !.deleting = TRUE]
             v == Finalized(w)
  <2>1. /\ v \in Version /\ Store(v)
        /\ UNCHANGED <<kind, rt, dev, lapse, queued, pc, obj, todo, then, target>>
    BY <1>3, <1>h, VersionTypes DEF UserDelete, routerVars
  <2>2. w.exists = Stored.exists /\ w.fin = Stored.fin /\ w.ann = Stored.ann
    BY <1>h DEF Version
  <2>3. Stored.fin => v = w
    BY <2>2 DEF Finalized
  <2> HIDE DEF v, w
  <2>4. Keeps(v) /\ Holders' = Holders
    BY <2>1, <2>2, <2>3 DEF Keeps, Holders
  <2>5. TypeOK'
    BY <2>1, <1>t, <1>u
  <2>6. \A r \in Holders' : r \in v.ann
    BY <2>2, <2>3, <2>4, <1>a, <1>b
  <2>7. Covered'
    BY <2>1, <2>4, <2>6, <1>s
  <2> QED BY <2>5, <2>7 DEF ResourceInv, Covered
<1>4. ASSUME NEW ref \in Refs, NEW drafts \in SUBSET Drafts, updateResource(ref, drafts)
      PROVE  ResourceInv'
  <2> DEFINE w == preserveManagedMetadata(Stored, ref, drafts)
             v == Finalized(w)
  <2>1. /\ v \in Version /\ Store(v)
        /\ lapse' = [r \in Routers |->
                       IF dev[r] /\ r \notin w.ann THEN "draft" ELSE lapse[r]]
        /\ UNCHANGED <<kind, rt, dev, queued, pc, obj, todo, then, target>>
    BY <1>4, <1>h, VersionTypes DEF updateResource
  <2>2. w.exists = Stored.exists /\ w.fin = Stored.fin
    BY <1>h DEF Version, preserveManagedMetadata
  <2>3. Stored.fin => v = w
    BY <2>2 DEF Finalized
  <2> HIDE DEF v, w
  <2>4. Keeps(v)
    BY <2>2, <2>3 DEF Keeps
  <2>5. Holders' \subseteq Holders /\ \A r \in Holders' : r \in w.ann
    BY <2>1 DEF Holders
  <2>6. \A r \in Holders' : r \in v.ann
    BY <2>3, <2>5, <1>a
  <2>7. lapse' \in [Routers -> {"none", "secret", "stale", "draft"}]
    BY <2>1, <1>u
  <2>8. TypeOK'
    BY <2>1, <2>7, <1>t
  <2>9. Covered'
    BY <2>1, <2>4, <2>5, <2>6, <1>s
  <2> QED BY <2>8, <2>9 DEF ResourceInv, Covered
<1> QED
  <2>1. {} \in SUBSET Drafts /\ \A ann \in Drafts : {ann} \in SUBSET Drafts
    OBVIOUS
  <2> QED BY <2>1, <1>1, <1>2, <1>3, <1>4 DEF UserStep

(* The watch, the routers, and restarts. *)
LEMMA EnvironmentInv ==
  ASSUME ResourceInv,
         Deliver \/ Wake \/ Restart \/ \E r \in Routers \ Steady : RouterStep(r)
  PROVE  ResourceInv'
<1>0. TypeOK /\ Covered /\ TargetRecorded /\ SingleHome
  BY InvParts DEF Covered
<1>h. /\ Len(hist) \in Nat \ {0} /\ DOMAIN hist = 1 .. Len(hist)
      /\ Stored \in Version /\ Stored \in Versions
      /\ hist \in Seq(Version)
  BY <1>0, HistEnds DEF TypeOK
<1>q. ASSUME hist' = hist, PassUntouched, Holders' \subseteq Holders
      PROVE  Covered'
  BY <1>0, <1>q, FewerHolders, QuietStep
<1>1. CASE Deliver
  <2>1. /\ Len(hist) > 1 /\ hist' = Tail(hist) /\ queued' = TRUE
        /\ UNCHANGED <<kind, rt, dev, lapse, pc, obj, fresh, todo, then, target>>
    BY <1>1 DEF Deliver, routerVars, callVars
  <2>2. /\ hist' \in Seq(Version) /\ hist' # <<>> /\ DOMAIN hist' = 1 .. Len(hist) - 1
        /\ \A i \in DOMAIN hist' : i + 1 \in DOMAIN hist /\ hist'[i] = hist[i + 1]
    <3>1. /\ hist' \in Seq(Version) /\ Len(hist') = Len(hist) - 1
          /\ \A i \in 1 .. Len(hist') : hist'[i] = hist[i + 1]
      BY <2>1, <1>h, HeadTailProperties
    <3>2. DOMAIN hist' = 1 .. Len(hist')
      BY <3>1
    <3>3. hist' # <<>>
      <4>1. Len(hist') # 0
        BY <3>1, <2>1, <1>h
      <4> QED BY <4>1
    <3>4. DOMAIN hist' = 1 .. Len(hist) - 1
      BY <3>1, <3>2
    <3>5. ASSUME NEW i \in 1 .. Len(hist) - 1 PROVE i + 1 \in 1 .. Len(hist)
      BY <1>h
    <3> QED BY <3>1, <3>3, <3>4, <3>5, <1>h
  <2>3. TypeOK'
    BY <2>1, <2>2, <1>0 DEF TypeOK
  <2>4. Versions' \subseteq Versions
    BY <2>2 DEF Versions
  <2>5. Holders' = Holders
    BY <2>1 DEF Holders
  <2>6. TargetRecorded' /\ SingleHome'
    BY <2>4, <2>5, <1>0 DEF TargetRecorded, SingleHome
  <2>7. FinalizerKept'
    BY <2>2, <1>0, <1>h DEF Covered, FinalizerKept
  <2>8. FreshIsStored'
    BY <2>1, <1>0 DEF Covered, FreshIsStored
  <2>9. CleanCovers'
    BY <2>1, <2>5, <1>0 DEF Covered, CleanCovers
  <2>10. ApplyCovers'
    BY <2>1, <2>4, <2>5, <1>0 DEF Covered, ApplyCovers
  <2> QED BY <2>3, <2>6, <2>7, <2>8, <2>9, <2>10 DEF ResourceInv
<1>2. CASE Wake
  <2>1. UNCHANGED <<kind, rt, dev, lapse, hist, pc, obj, fresh, todo, then, target>> /\ queued' = TRUE
    BY <1>2 DEF Wake, routerVars, callVars
  <2>2. TypeOK'
    BY <2>1, <1>0 DEF TypeOK
  <2>3. Holders' = Holders /\ PassUntouched
    BY <2>1 DEF Holders, PassUntouched, callVars
  <2>4. Covered'
    BY <2>1, <2>3, <1>q
  <2> QED BY <2>2, <2>4 DEF ResourceInv, Covered
<1>3. CASE Restart
  <2>1. /\ hist' = <<Stored>> /\ queued' \in BOOLEAN
        /\ pc' = "idle" /\ obj' = Absent /\ fresh' = FALSE
        /\ todo' = {} /\ then' = "status" /\ target' = {}
        /\ UNCHANGED <<kind, rt, dev, lapse>>
    BY <1>3, <1>h DEF Restart, routerVars, Version
  <2>2. TypeOK'
    <3>1. hist' \in Seq(Version) /\ hist' # <<>> /\ Absent \in Version
      <4>1. <<Stored>> \in Seq(Version) /\ <<Stored>> # <<>>
        BY <1>h
      <4> QED BY <4>1, <2>1, VersionTypes
    <3> QED BY <2>1, <3>1, <1>0 DEF TypeOK
  <2>3. Holders' = Holders
    BY <2>1 DEF Holders
  <2>4. Versions' = {Stored}
    BY <2>1 DEF Versions
  <2>5. TargetRecorded' /\ SingleHome'
    BY <2>3, <2>4, <1>0, <1>h DEF TargetRecorded, SingleHome
  <2>6. FinalizerKept' /\ FreshIsStored' /\ CleanCovers' /\ ApplyCovers'
    BY <2>1 DEF FinalizerKept, FreshIsStored, CleanCovers, ApplyCovers
  <2> QED BY <2>2, <2>5, <2>6 DEF ResourceInv
<1>4. ASSUME NEW r \in Routers, RouterStep(r) PROVE ResourceInv'
  <2>1. /\ rt' \in [Routers -> {"absent", "new", "active", "deleting"}]
        /\ dev' \in [Routers -> BOOLEAN]
        /\ lapse' \in [Routers -> {"none", "secret", "stale", "draft"}]
        /\ UNCHANGED <<kind, hist, queued, pc, obj, fresh, todo, then, target>>
        /\ \/ UNCHANGED <<dev, lapse>>
           \/ dev' = [dev EXCEPT ![r] = FALSE] /\ lapse' = [lapse EXCEPT ![r] = "none"]
    BY <1>4, <1>0 DEF RouterStep, RouterChanges, RouterSwept, TypeOK, callVars
  <2>2. TypeOK'
    BY <2>1, <1>0 DEF TypeOK
  <2>3. dev \in [Routers -> BOOLEAN] /\ lapse \in [Routers -> {"none", "secret", "stale", "draft"}]
    BY <1>0 DEF TypeOK
  <2>4. Holders' \subseteq Holders
    BY <2>1, <2>3 DEF Holders
  <2>5. Covered'
    BY <2>1, <2>4, <1>q DEF PassUntouched, callVars
  <2> QED BY <2>2, <2>5 DEF ResourceInv, Covered
<1> QED BY <1>1, <1>2, <1>3, <1>4

(* A pass reads the cache: it writes at once, or sets out to clean or to   *)
(* apply.                                                                  *)
LEMMA ReadInv ==
  ASSUME ResourceInv,
         \/ ResourceGone \/ BeginDeletion \/ AddFinalizer \/ RouterNotFound
         \/ RememberStatusRouter \/ LeaveAllRouters \/ SelectionInvalid
         \/ PersistTarget \/ LeaveOtherRouters \/ ForgetStatusRouter \/ BeginApply
         \/ SpecIncomplete \/ DependencyLost \/ DependencyUnusable \/ ClaimCollision
  PROVE  ResourceInv'
<1>0. TypeOK /\ Covered /\ TargetRecorded /\ SingleHome
  BY InvParts DEF Covered
<1>h. /\ Len(hist) \in Nat \ {0} /\ DOMAIN hist = 1 .. Len(hist) /\ Cached = hist[1]
      /\ Cached \in Version /\ Cached \in Versions
      /\ Len(hist) = 1 => hist = <<Cached>> /\ Stored = Cached
  BY <1>0, HistEnds
<1>a. \A r \in Holders : r \in Cached.ann
  BY <1>0, <1>h DEF TargetRecorded
<1>b. Cached.ann \subseteq Keys /\ Cached.sref \subseteq Keys /\ Cached.ref \in Refs
  BY <1>h DEF Version
<1>r. Resolved.tag = "found" => \E k \in Keys : Resolved.key = {k}
  BY <1>0, <1>b, ResolvedIsOne DEF Resolved
<1>q. ASSUME UNCHANGED <<hist, fresh>>, Idle, pc = "idle", queued' \in BOOLEAN
      PROVE  ResourceInv'
  <2>1. UNCHANGED <<kind, rt, dev, lapse, pc, obj, todo, then, target>>
    BY <1>q DEF Idle, routerVars
  <2>2. TypeOK'
    BY <2>1, <1>q, <1>0 DEF TypeOK
  <2>3. Holders' = Holders /\ PassUntouched
    BY <2>1, <1>q DEF Holders, PassUntouched, callVars
  <2>4. HoldersRecorded
    BY <2>3, <1>0, FewerHolders
  <2>5. Covered'
    BY <2>3, <2>4, <1>0, <1>q, QuietStep
  <2> QED BY <2>2, <2>5, InvParts DEF ResourceInv, Covered
<1>s. ASSUME NEW v \in Version, Store(v), Idle, Len(hist) = 1, queued' \in BOOLEAN,
             Cached.exists /\ Cached.fin => v.exists /\ v.fin, Cached.ann \subseteq v.ann
      PROVE  ResourceInv'
  <2>1. UNCHANGED <<kind, rt, dev, lapse, pc, obj, todo, then, target>>
    BY <1>s DEF Idle, routerVars
  <2>2. TypeOK'
    <3>1. hist' \in Seq(Version) /\ hist' # <<>> /\ fresh' \in BOOLEAN
      BY <1>0, <1>s, Appended DEF Store
    <3> QED BY <2>1, <3>1, <1>s, <1>0 DEF TypeOK
  <2>3. Holders' = Holders
    BY <2>1 DEF Holders
  <2>4. HoldersRecorded
    BY <2>3, <1>0, FewerHolders
  <2>5. Keeps(v) /\ \A r \in Holders' : r \in v.ann
    BY <2>3, <1>a, <1>h, <1>s DEF Keeps
  <2>6. Covered'
    BY <2>1, <2>3, <2>4, <2>5, <1>0, <1>s, StoreStep
  <2> QED BY <2>2, <2>6 DEF ResourceInv, Covered
<1>u. ASSUME NEW v \in Version, UpdateOrRetry(v), pc = "idle",
             Cached.exists /\ Cached.fin => v.exists /\ v.fin, Cached.ann \subseteq v.ann
      PROVE  ResourceInv'
  <2>1. queued \in BOOLEAN
    BY <1>0 DEF TypeOK
  <2>2. CASE Len(hist) = 1 /\ Store(v) /\ queued' = FALSE
    BY <2>2, <1>s, <1>u DEF UpdateOrRetry
  <2>3. CASE UNCHANGED <<hist, fresh, queued>>
    BY <2>1, <2>3, <1>q, <1>u DEF UpdateOrRetry
  <2> QED BY <2>2, <2>3, <1>u DEF UpdateOrRetry
<1>p. ASSUME Report(Cached), pc = "idle"
      PROVE  ResourceInv'
  <2> DEFINE v == [Cached EXCEPT !.applied = FALSE]
  <2>1. queued' \in BOOLEAN
    BY <1>p, <1>0 DEF TypeOK, Report
  <2>2. v \in Version /\ v.exists = Cached.exists /\ v.fin = Cached.fin /\ v.ann = Cached.ann
    BY <1>h DEF Version
  <2> HIDE DEF v
  <2>3. CASE Len(hist) = 1 /\ Store(v)
    BY <2>1, <2>2, <2>3, <1>s, <1>p DEF Report
  <2>4. CASE UNCHANGED <<hist, fresh>>
    BY <2>1, <2>4, <1>q, <1>p DEF Report
  <2> QED BY <2>3, <2>4, <1>p DEF Report, v
<1>c. ASSUME NEW targets \in SUBSET Keys, NEW next \in {"finalize", "compact", "status"},
             NEW key \in SUBSET Keys, BeginClean(targets, next, key),
             next = "finalize" => Cached.deleting /\ Holders \subseteq targets,
             next = "compact" => Holders \subseteq targets \cup key
      PROVE  ResourceInv'
  <2>1. /\ pc' = "clean" /\ todo' = targets /\ then' = next /\ target' = key
        /\ obj' = Cached /\ fresh' = (Len(hist) = 1) /\ queued' = FALSE
        /\ UNCHANGED <<kind, rt, dev, lapse, hist>>
    BY <1>c DEF BeginClean, routerVars
  <2>2. TypeOK'
    <3>1. fresh' \in BOOLEAN /\ obj' \in Version /\ then' \in {"finalize", "compact", "status"}
      BY <2>1, <1>h
    <3> QED BY <2>1, <3>1, <1>0 DEF TypeOK
  <2>3. Holders' = Holders /\ Versions' = Versions
    BY <2>1 DEF Holders, Versions
  <2>4. TargetRecorded' /\ SingleHome'
    BY <2>3, <1>0 DEF TargetRecorded, SingleHome
  <2>5. FinalizerKept' /\ FreshIsStored'
    BY <2>1, <1>h, <1>0 DEF FinalizerKept, FreshIsStored, Covered
  <2>6. CleanCovers' /\ ApplyCovers'
    BY <2>1, <2>3, <1>c DEF CleanCovers, ApplyCovers
  <2> QED BY <2>2, <2>4, <2>5, <2>6 DEF ResourceInv
<1>t. /\ AllTargets(Cached) \in SUBSET Keys
      /\ durableRouterTargets(Cached, Cached.sref) \in SUBSET Keys
      /\ Cached.ann \subseteq AllTargets(Cached)
      /\ Cached.ann \subseteq durableRouterTargets(Cached, Cached.sref)
  BY <1>h, VersionTypes DEF AllTargets, durableRouterTargets
<1>1. CASE ResourceGone
  BY <1>1, <1>q DEF ResourceGone, Take
<1>2. CASE BeginDeletion
  <2>1. Cached.deleting /\ BeginClean(AllTargets(Cached), "finalize", {})
    BY <1>2 DEF BeginDeletion
  <2> QED BY <2>1, <1>a, <1>c, <1>t
<1>3. CASE AddFinalizer
  <2> DEFINE v == [Cached EXCEPT !.fin = TRUE]
  <2>1. v \in Version /\ v.exists = Cached.exists /\ v.fin /\ v.ann = Cached.ann
    BY <1>h DEF Version
  <2>2. UpdateOrRetry(v) /\ pc = "idle"
    BY <1>3 DEF AddFinalizer, Take
  <2> HIDE DEF v
  <2> QED BY <2>1, <2>2, <1>u
<1>4. CASE RouterNotFound
  <2>1. pc = "idle" /\ queued \in BOOLEAN
    BY <1>4, <1>0 DEF RouterNotFound, Active, Take, TypeOK
  <2> QED BY <2>1, <1>4, <1>p, <1>q DEF RouterNotFound
<1>5. ASSUME NEW keys \in SUBSET Keys, Cached.ann \subseteq keys, Active,
             UpdateOrRetry([Cached EXCEPT !.ann = keys])
      PROVE  ResourceInv'
  <2> DEFINE v == [Cached EXCEPT !.ann = keys]
  <2>1. v \in Version /\ v.exists = Cached.exists /\ v.fin = Cached.fin /\ v.ann = keys
    BY <1>h DEF Version
  <2>2. UpdateOrRetry(v) /\ pc = "idle"
    BY <1>5 DEF Active, Take
  <2> HIDE DEF v
  <2> QED BY <2>1, <2>2, <1>5, <1>u
<1>6. CASE RememberStatusRouter
  BY <1>6, <1>5, <1>t DEF RememberStatusRouter
<1>7. CASE LeaveAllRouters
  <2> DEFINE targets == IF kind = "portforward" THEN AllTargets(Cached)
                          ELSE durableRouterTargets(Cached, Cached.sref)
  <2>1. targets \in SUBSET Keys /\ Cached.ann \subseteq targets
    BY <1>t
  <2>2. BeginClean(targets, "compact", {})
    BY <1>7 DEF LeaveAllRouters
  <2> HIDE DEF targets
  <2> QED BY <2>1, <2>2, <1>a, <1>c
<1>8. CASE SelectionInvalid \/ SpecIncomplete \/ DependencyUnusable
  BY <1>8, <1>p DEF SelectionInvalid, SpecIncomplete, DependencyUnusable, DependencyRead, Active, Take
<1>9. CASE PersistTarget
  <2> DEFINE targets == durableRouterTargets(Cached, Cached.sref \cup Resolved.key)
  <2>1. Active /\ Resolved.tag = "found" /\ UpdateOrRetry([Cached EXCEPT !.ann = targets])
    BY <1>9 DEF PersistTarget
  <2>2. targets \in SUBSET Keys /\ Cached.ann \subseteq targets
    BY <2>1, <1>b, <1>r DEF durableRouterTargets
  <2> HIDE DEF targets
  <2> QED BY <2>1, <2>2, <1>5
<1>10. CASE LeaveOtherRouters
  <2> DEFINE targets == durableRouterTargets(Cached, Cached.sref \cup Resolved.key)
  <2>1. /\ Active /\ Resolved.tag = "found" /\ Cached.ann = targets
        /\ BeginClean(targets \ Resolved.key, "compact", Resolved.key)
    BY <1>10 DEF LeaveOtherRouters
  <2> HIDE DEF targets
  <2>2. targets \ Resolved.key \in SUBSET Keys /\ Resolved.key \in SUBSET Keys
    BY <2>1, <1>b, <1>r
  <2>3. Holders \subseteq (targets \ Resolved.key) \cup Resolved.key
    BY <2>1, <1>a
  <2> QED BY <2>1, <2>2, <2>3, <1>c
<1>11. CASE ForgetStatusRouter
  <2> DEFINE v == [Cached EXCEPT !.sref = {}, !.applied = FALSE]
  <2>1. v \in Version /\ v.exists = Cached.exists /\ v.fin = Cached.fin /\ v.ann = Cached.ann
    BY <1>h DEF Version
  <2>2. UpdateOrRetry(v) /\ pc = "idle"
    BY <1>11 DEF ForgetStatusRouter, Active, Take
  <2> HIDE DEF v
  <2> QED BY <2>1, <2>2, <1>u
<1>12. CASE DependencyLost \/ ClaimCollision
  <2>1. BeginClean(AllTargets(Cached), "status", {})
    BY <1>12 DEF DependencyLost, ClaimCollision
  <2> QED BY <2>1, <1>c, <1>t
<1>13. CASE BeginApply
  <2>1. /\ pc' = "apply" /\ target' = Resolved.key /\ obj' = Cached
        /\ fresh' = (Len(hist) = 1) /\ queued' = FALSE
        /\ UNCHANGED <<kind, rt, dev, lapse, hist, todo, then>>
        /\ Resolved.tag = "found" /\ Cached.ann = Resolved.key
        /\ Cached.exists /\ ~Cached.deleting /\ Cached.fin
    BY <1>13 DEF BeginApply, ReadyToApply, Active, Take, routerVars
  <2>2. PICK k \in Keys : Resolved.key = {k}
    BY <2>1, <1>r
  <2>3. TypeOK'
    <3>1. fresh' \in BOOLEAN /\ obj' \in Version /\ target' \in SUBSET Keys
      BY <2>1, <2>2, <1>h
    <3> QED BY <2>1, <3>1, <1>0 DEF TypeOK
  <2>4. Holders' = Holders /\ Versions' = Versions
    BY <2>1 DEF Holders, Versions
  <2>5. TargetRecorded' /\ SingleHome'
    BY <2>4, <1>0 DEF TargetRecorded, SingleHome
  <2>6. FinalizerKept' /\ FreshIsStored' /\ CleanCovers'
    BY <2>1, <1>h, <1>0 DEF FinalizerKept, FreshIsStored, CleanCovers, Covered
  <2>7. \A v \in Versions : v.exists /\ v.fin
    <3>1. ASSUME NEW i \in 1 .. Len(hist) PROVE hist[i].exists /\ hist[i].fin
      <4>1. CASE i = 1
        BY <4>1, <2>1, <1>h
      <4>2. CASE 1 < i
        BY <4>2, <2>1, <1>h, <1>0 DEF Covered, FinalizerKept
      <4> QED BY <4>1, <4>2
    <3> QED BY <3>1, <1>h DEF Versions
  <2>8. Holders \subseteq Resolved.key
    BY <2>1, <1>a
  <2>9. ApplyCovers'
    BY <2>1, <2>2, <2>4, <2>7, <2>8 DEF ApplyCovers
  <2> QED BY <2>3, <2>5, <2>6, <2>9 DEF ResourceInv
<1> QED BY <1>1, <1>2, <1>3, <1>4, <1>6, <1>7, <1>8, <1>9, <1>10, <1>11, <1>12, <1>13

(* A pass cleans routers, applies the entry and writes back. *)
LEMMA DeviceInv ==
  ASSUME ResourceInv,
         \/ \E r \in Keys : \/ CleanTarget(r) \/ ApplyEntry(r) \/ ApplyFails(r)
                            \/ CleanWithoutSecret(r) \/ CleanFails(r)
         \/ RemoveFinalizer \/ compactDurableRouterTarget \/ ReportCleaned \/ RecordApplied
  PROVE  ResourceInv'
<1>0. TypeOK /\ Covered /\ TargetRecorded /\ SingleHome
  BY InvParts DEF Covered
<1>t. /\ rt \in [Routers -> {"absent", "new", "active", "deleting"}]
      /\ dev \in [Routers -> BOOLEAN]
      /\ lapse \in [Routers -> {"none", "secret", "stale", "draft"}]
      /\ obj \in Version /\ todo \in SUBSET Keys /\ target \in SUBSET Keys
      /\ queued \in BOOLEAN /\ kind \in Kinds
  BY <1>0 DEF TypeOK
<1>h. /\ Stored \in Versions /\ \A v \in Versions : v \in Version
      /\ Len(hist) \in Nat \ {0} /\ DOMAIN hist = 1 .. Len(hist)
  BY <1>0, HistEnds
<1>f. fresh => Stored = obj /\ Versions = {obj} /\ Len(hist) = 1
  BY <1>0 DEF Covered, FreshIsStored, Stored, Versions
<1>d. ASSUME UNCHANGED routerVars
      PROVE  /\ Holders' = Holders /\ HoldersRecorded
             /\ rt' \in [Routers -> {"absent", "new", "active", "deleting"}]
             /\ dev' \in [Routers -> BOOLEAN]
             /\ lapse' \in [Routers -> {"none", "secret", "stale", "draft"}]
  <2>1. Holders' = Holders
    BY <1>d DEF Holders, routerVars
  <2>2. HoldersRecorded
    BY <2>1, <1>0, FewerHolders
  <2> QED BY <2>1, <2>2, <1>d, <1>t DEF routerVars
(* The end of a pass, with or without a write. *)
<1>e. ASSUME UNCHANGED hist, fresh' = FALSE, NEW requeue \in BOOLEAN, Finish(requeue), HoldersRecorded,
             rt' \in [Routers -> {"absent", "new", "active", "deleting"}],
             dev' \in [Routers -> BOOLEAN],
             lapse' \in [Routers -> {"none", "secret", "stale", "draft"}]
      PROVE  ResourceInv'
  <2>1. /\ pc' = "idle" /\ obj' = Absent /\ todo' = {} /\ then' = "status" /\ target' = {}
        /\ queued' \in BOOLEAN /\ kind' = kind
    BY <1>e, <1>t DEF Finish
  <2>2. Absent \in Version
    BY VersionTypes
  <2>3. TypeOK'
    BY <2>1, <2>2, <1>e, <1>0 DEF TypeOK
  <2>4. PassEnds
    BY <2>1, <1>e DEF PassEnds
  <2>5. Covered'
    BY <2>4, <1>0, <1>e, QuietStep
  <2> QED BY <2>3, <2>5 DEF ResourceInv, Covered
<1>s. ASSUME NEW v \in Version, fresh, Store(v), NEW requeue \in BOOLEAN, Finish(requeue), HoldersRecorded,
             v.exists = obj.exists, v.fin = obj.fin, \A r \in Holders' : r \in v.ann,
             rt' \in [Routers -> {"absent", "new", "active", "deleting"}],
             dev' \in [Routers -> BOOLEAN],
             lapse' \in [Routers -> {"none", "secret", "stale", "draft"}]
      PROVE  ResourceInv'
  <2>1. /\ pc' = "idle" /\ obj' = Absent /\ todo' = {} /\ then' = "status" /\ target' = {}
        /\ queued' \in BOOLEAN /\ kind' = kind
    BY <1>s, <1>t DEF Finish
  <2>2. Absent \in Version
    BY VersionTypes
  <2>3. hist' \in Seq(Version) /\ hist' # <<>> /\ fresh' \in BOOLEAN
    BY <1>0, <1>s, Appended DEF Store
  <2>4. TypeOK'
    BY <2>1, <2>2, <2>3, <1>s, <1>0 DEF TypeOK
  <2>5. Keeps(v)
    BY <1>s, <1>f DEF Keeps
  <2>6. Covered'
    BY <2>1, <2>5, <1>0, <1>s, StoreStep
  <2> QED BY <2>4, <2>6 DEF ResourceInv, Covered
<1>r. ASSUME ReportLater, HoldersRecorded,
             rt' \in [Routers -> {"absent", "new", "active", "deleting"}],
             dev' \in [Routers -> BOOLEAN],
             lapse' \in [Routers -> {"none", "secret", "stale", "draft"}]
      PROVE  ResourceInv'
  <2> DEFINE v == [obj EXCEPT !.applied = FALSE]
  <2>1. v \in Version /\ v.exists = obj.exists /\ v.fin = obj.fin /\ v.ann = obj.ann
    BY <1>t DEF Version
  <2>2. Finish(TRUE)
    BY <1>r DEF ReportLater
  <2> HIDE DEF v
  <2>3. CASE fresh /\ Store(v)
    <3>1. \A r \in Holders' : r \in v.ann
      BY <2>1, <2>3, <1>f, <1>r DEF HoldersRecorded
    <3> QED BY <3>1, <2>1, <2>2, <2>3, <1>r, <1>s
  <2>4. CASE UNCHANGED hist /\ fresh' = FALSE
    BY <2>2, <2>4, <1>r, <1>e
  <2> QED BY <2>3, <2>4, <1>r DEF ReportLater, v
(* Passing over a router that is cleaned, or whose Secret is gone. *)
<1>1. ASSUME NEW r \in Keys, CleanTarget(r) \/ CleanWithoutSecret(r)
      PROVE  ResourceInv'
  <2>1. /\ pc = "clean" /\ todo' = todo \ {r}
        /\ UNCHANGED <<kind, rt, hist, queued, pc, obj, fresh, then, target>>
    BY <1>1 DEF CleanTarget, CleanWithoutSecret
  <2>2. /\ dev' \in [Routers -> BOOLEAN]
        /\ lapse' \in [Routers -> {"none", "secret", "stale", "draft"}]
    BY <1>1, <1>t DEF CleanTarget, CleanWithoutSecret
  <2>3. Holders' \subseteq Holders \ {r}
    <3>1. CASE CleanTarget(r)
      BY <3>1, <1>t DEF CleanTarget, Holders
    <3>2. CASE CleanWithoutSecret(r)
      BY <3>2, <1>t DEF CleanWithoutSecret, Holders, Exists
    <3> QED BY <3>1, <3>2, <1>1
  <2>4. TypeOK'
    <3>1. todo' \in SUBSET Keys
      BY <2>1, <1>t
    <3> QED BY <2>1, <2>2, <3>1, <1>0 DEF TypeOK
  <2>5. Versions' = Versions
    BY <2>1 DEF Versions
  <2>6. TargetRecorded' /\ SingleHome'
    BY <2>3, <2>5, <1>0 DEF TargetRecorded, SingleHome
  <2>7. FinalizerKept' /\ FreshIsStored'
    BY <2>1, <1>0 DEF FinalizerKept, FreshIsStored, Covered
  <2>8. CleanCovers'
    BY <2>1, <2>3, <1>0 DEF CleanCovers, Covered
  <2>9. ApplyCovers'
    BY <2>1 DEF ApplyCovers
  <2> QED BY <2>4, <2>6, <2>7, <2>8, <2>9 DEF ResourceInv
(* The only step that adds a holder. *)
<1>2. ASSUME NEW r \in Keys, pc = "apply", r \in target, Written(r)
      PROVE  /\ HoldersRecorded /\ Holders' \subseteq target
             /\ rt' \in [Routers -> {"absent", "new", "active", "deleting"}]
             /\ dev' \in [Routers -> BOOLEAN]
             /\ lapse' \in [Routers -> {"none", "secret", "stale", "draft"}]
  <2>1. /\ r \in Routers /\ rt' = rt
        /\ dev' = [dev EXCEPT ![r] = TRUE]
        /\ lapse' = [lapse EXCEPT ![r] = IF \A v \in Versions : r \in v.ann THEN "none" ELSE "stale"]
    BY <1>2 DEF Written, Exists
  <2>2. /\ rt' \in [Routers -> {"absent", "new", "active", "deleting"}]
        /\ dev' \in [Routers -> BOOLEAN]
        /\ lapse' \in [Routers -> {"none", "secret", "stale", "draft"}]
    BY <2>1, <1>t
  <2>3. /\ \E k \in Keys : target = {k}
        /\ Holders \subseteq target
        /\ \A v \in Versions : v.exists /\ v.fin
    BY <1>2, <1>0 DEF Covered, ApplyCovers
  <2>4. target = {r}
    BY <2>3, <1>2
  <2>5. \A x \in Holders' : x = r
    BY <2>1, <2>3, <2>4, <1>t DEF Holders
  <2>6. ASSUME r \in Holders' PROVE \A v \in Versions : r \in v.ann
    BY <2>1, <2>6, <1>t DEF Holders
  <2> QED BY <2>2, <2>3, <2>4, <2>5, <2>6 DEF HoldersRecorded
<1>3. ASSUME NEW r \in Keys, ApplyEntry(r) PROVE ResourceInv'
  <2>1. /\ pc = "apply" /\ r \in target /\ Written(r) /\ pc' = "record"
        /\ UNCHANGED <<kind, hist, queued, obj, fresh, todo, then, target>>
    BY <1>3 DEF ApplyEntry
  <2>2. /\ HoldersRecorded /\ Holders' \subseteq target
        /\ rt' \in [Routers -> {"absent", "new", "active", "deleting"}]
        /\ dev' \in [Routers -> BOOLEAN]
        /\ lapse' \in [Routers -> {"none", "secret", "stale", "draft"}]
    BY <2>1, <1>2
  <2>3. TypeOK'
    BY <2>1, <2>2, <1>0 DEF TypeOK
  <2>4. Versions' = Versions
    BY <2>1 DEF Versions
  <2>5. TargetRecorded' /\ SingleHome'
    BY <2>2, <2>4 DEF HoldersRecorded, TargetRecorded, SingleHome
  <2>6. FinalizerKept' /\ FreshIsStored' /\ CleanCovers'
    BY <2>1, <1>0 DEF FinalizerKept, FreshIsStored, CleanCovers, Covered
  <2>7. ApplyCovers'
    BY <2>1, <2>4, <1>0 DEF ApplyCovers, Covered
  <2> QED BY <2>3, <2>5, <2>6, <2>7 DEF ResourceInv
<1>4. ASSUME NEW r \in Keys, ApplyFails(r) PROVE ResourceInv'
  <2>1. CASE UNCHANGED routerVars
    BY <2>1, <1>4, <1>d, <1>r DEF ApplyFails
  <2>2. CASE Written(r)
    BY <2>2, <1>4, <1>2, <1>r DEF ApplyFails
  <2> QED BY <2>1, <2>2, <1>4 DEF ApplyFails
<1>5. ASSUME NEW r \in Keys, CleanFails(r) PROVE ResourceInv'
  BY <1>5, <1>d, <1>e, <1>r DEF CleanFails
<1>6. CASE RemoveFinalizer
  <2> DEFINE v == Finalized([obj EXCEPT !.fin = FALSE])
  <2>1. /\ pc = "clean" /\ todo = {} /\ then = "finalize"
        /\ WriteOrRetry(v) /\ UNCHANGED routerVars
    BY <1>6 DEF RemoveFinalizer, Cleaned
  <2>2. obj.deleting /\ Holders = {}
    BY <2>1, <1>0 DEF Covered, CleanCovers
  <2>3. [obj EXCEPT !.fin = FALSE] \in Version
    BY <1>t DEF Version
  <2>4. v \in Version
    BY <2>3, VersionTypes
  <2> HIDE DEF v
  <2>5. CASE fresh /\ Store(v) /\ Finish(FALSE)
    <3>1. /\ pc' = "idle" /\ obj' = Absent /\ todo' = {} /\ then' = "status" /\ target' = {}
          /\ queued' \in BOOLEAN /\ kind' = kind
      BY <2>5, <1>t DEF Finish
    <3>2. Absent \in Version
      BY VersionTypes
    <3>3. /\ hist' \in Seq(Version) /\ hist' # <<>> /\ fresh' \in BOOLEAN
          /\ DOMAIN hist' = 1 .. 2 /\ hist'[1] = hist[1]
      <4>1. hist' = Append(hist, v) /\ fresh' = FALSE /\ Len(hist) = 1
        BY <2>5, <1>f DEF Store
      <4>2. /\ hist' \in Seq(Version) /\ hist' # <<>>
            /\ DOMAIN hist' = 1 .. Len(hist) + 1
            /\ \A i \in 1 .. Len(hist) : hist'[i] = hist[i]
        BY <2>4, <4>1, <1>0, Appended
      <4>3. fresh' \in BOOLEAN
        BY <4>1
      <4>4. DOMAIN hist' = 1 .. 2
        BY <4>1, <4>2
      <4>5. hist'[1] = hist[1]
        BY <4>1, <4>2
      <4> QED BY <4>2, <4>3, <4>4, <4>5
    <3>4. Holders' = {} /\ rt' = rt /\ dev' = dev /\ lapse' = lapse
      BY <2>1, <2>2, <1>d DEF routerVars
    <3>5. TypeOK'
      BY <3>1, <3>2, <3>3, <3>4, <1>0 DEF TypeOK
    <3>6. TargetRecorded' /\ SingleHome'
      BY <3>4 DEF TargetRecorded, SingleHome
    <3>7. hist[1] = obj
      BY <2>5, <1>f DEF Stored
    <3>8. FinalizerKept'
      BY <3>3, <3>7, <2>2 DEF FinalizerKept
    <3>9. FreshIsStored' /\ CleanCovers' /\ ApplyCovers'
      BY <3>1, <2>5 DEF FreshIsStored, CleanCovers, ApplyCovers, Store
    <3> QED BY <3>5, <3>6, <3>8, <3>9 DEF ResourceInv
  <2>6. CASE UNCHANGED hist /\ fresh' = FALSE /\ Finish(TRUE)
    BY <2>1, <2>6, <1>d, <1>e
  <2> QED BY <2>1, <2>5, <2>6 DEF WriteOrRetry
<1>7. CASE compactDurableRouterTarget
  <2> DEFINE v == [obj EXCEPT !.ann = target]
  <2>1. /\ pc = "clean" /\ todo = {} /\ then = "compact"
        /\ WriteOrRetry(v) /\ UNCHANGED routerVars
    BY <1>7 DEF compactDurableRouterTarget, Cleaned
  <2>2. Holders \subseteq target
    BY <2>1, <1>0 DEF Covered, CleanCovers
  <2>3. v \in Version /\ v.exists = obj.exists /\ v.fin = obj.fin /\ v.ann = target
    BY <1>t DEF Version
  <2> HIDE DEF v
  <2>4. CASE fresh /\ Store(v) /\ Finish(FALSE)
    BY <2>1, <2>2, <2>3, <2>4, <1>d, <1>s
  <2>5. CASE UNCHANGED hist /\ fresh' = FALSE /\ Finish(TRUE)
    BY <2>1, <2>5, <1>d, <1>e
  <2> QED BY <2>1, <2>4, <2>5 DEF WriteOrRetry
<1>8. CASE ReportCleaned
  BY <1>8, <1>d, <1>r DEF ReportCleaned
<1>9. CASE RecordApplied
  <2> DEFINE v == [obj EXCEPT !.applied = TRUE, !.sref = target]
  <2>1. /\ pc = "record" /\ Finish(TRUE) /\ UNCHANGED routerVars
        /\ (fresh /\ Store(v)) \/ (UNCHANGED hist /\ fresh' = FALSE)
    BY <1>9 DEF RecordApplied
  <2>2. PICK k \in Keys : target = {k}
    BY <2>1, <1>0 DEF Covered, ApplyCovers
  <2>3. v \in Version /\ v.exists = obj.exists /\ v.fin = obj.fin /\ v.ann = obj.ann
    BY <2>2, <1>t DEF Version
  <2> HIDE DEF v
  <2>4. CASE fresh /\ Store(v)
    <3>1. \A r \in Holders' : r \in v.ann
      BY <2>1, <2>3, <2>4, <1>d, <1>f DEF HoldersRecorded
    <3> QED BY <3>1, <2>1, <2>3, <2>4, <1>d, <1>s
  <2>5. CASE UNCHANGED hist /\ fresh' = FALSE
    BY <2>1, <2>5, <1>d, <1>e
  <2> QED BY <2>1, <2>4, <2>5
<1> QED BY <1>1, <1>3, <1>4, <1>5, <1>6, <1>7, <1>8, <1>9

(* The inductive invariant: while any device holds the entry, unless one   *)
(* of the three lapses is noted, all versions of the resource record its   *)
(* router, a pass that will drop a record has that router still to clean,  *)
(* and a pass that will write has no other holder to fear.                 *)
THEOREM ResourceInvariant == ResourceSpec => []ResourceInv
<1>1. ResourceInit => ResourceInv
  BY ResourceInitInv
<1>2. ResourceInv /\ [ResourceNext]_vars => ResourceInv'
  <2> SUFFICES ASSUME ResourceInv, [ResourceNext]_vars PROVE ResourceInv'
    OBVIOUS
  <2>1. CASE UserStep
    BY <2>1, UserInv
  <2>2. CASE Deliver \/ Wake \/ Restart \/ \E r \in Routers \ Steady : RouterStep(r)
    BY <2>2, EnvironmentInv
  <2>3. CASE ReconcileStep \/ Setback
    BY <2>3, ReadInv, DeviceInv DEF ReconcileStep, Setback
  <2>4. CASE UNCHANGED vars
    BY <2>4 DEF vars, ResourceInv, TypeOK, TargetRecorded, SingleHome, Holders, Versions,
                FinalizerKept, FreshIsStored, CleanCovers, ApplyCovers
  <2> QED BY <2>1, <2>2, <2>3, <2>4 DEF ResourceNext
<1> QED BY <1>1, <1>2, PTL DEF ResourceSpec

(* durableRouterTargets and the finalizer: a router with an entry is       *)
(* listed by every version a pass may read or delete.                      *)
THEOREM TargetsAreRecorded == ResourceSpec => []TargetRecorded
BY ResourceInvariant, PTL DEF ResourceInv

(* The order of clean-up and apply: never on two routers at once. *)
THEOREM ResourceHasOneHome == ResourceSpec => []SingleHome
BY ResourceInvariant, PTL DEF ResourceInv

(* Every variable keeps its type. *)
THEOREM ResourceTypes == ResourceSpec => []TypeOK
BY ResourceInvariant, PTL DEF ResourceInv
================================================================================
