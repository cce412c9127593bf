------------------------- MODULE RouterLifecycleProofs -------------------------
(***************************************************************************)
(* Proofs about the life of routers, for any routers, endpoints and        *)
(* resource controllers, whatever specs users give, and a cache that may   *)
(* be any number of versions behind.                                       *)
(***************************************************************************)
EXTENDS RouterLifecycle, SequenceTheorems, TLAPS

(* What the operations make of a version is a version. *)
LEMMA VersionTypes ==
  /\ Absent \in Version
  /\ \A spec \in SUBSET Endpoints : New(spec) \in Version
  /\ \A v \in Version : Finalized(v) \in Version
<1>1. Absent \in Version
  BY DEF Absent, Version
<1>2. \A spec \in SUBSET Endpoints : New(spec) \in Version
  BY DEF New, Absent, Version
<1> QED BY <1>1, <1>2 DEF Finalized

(* The cached and the stored version are the first and the last. *)
LEMMA HistEnds ==
  ASSUME TypeOK, NEW r \in Routers
  PROVE  /\ hist[r] \in Seq(Version) /\ hist[r] # <<>>
         /\ Len(hist[r]) \in Nat \ {0} /\ DOMAIN hist[r] = 1 .. Len(hist[r])
         /\ Cached(r) = hist[r][1] /\ Cached(r) \in Version /\ Cached(r) \in Versions(r)
         /\ Stored(r) = hist[r][Len(hist[r])] /\ Stored(r) \in Version /\ Stored(r) \in Versions(r)
         /\ \A v \in Versions(r) : v \in Version
         /\ Len(hist[r]) = 1 => hist[r] = <<Cached(r)>> /\ Stored(r) = Cached(r)
<1>1. hist[r] \in Seq(Version) /\ hist[r] # <<>>
  BY DEF TypeOK
<1>2. Len(hist[r]) \in Nat \ {0} /\ DOMAIN hist[r] = 1 .. Len(hist[r])
  BY <1>1
<1>3. /\ Cached(r) = hist[r][1] /\ Cached(r) \in Version
      /\ Stored(r) = hist[r][Len(hist[r])] /\ Stored(r) \in Version
  BY <1>1, <1>2 DEF Cached, Stored
<1>4. Len(hist[r]) = 1 => hist[r] = <<Cached(r)>> /\ Stored(r) = Cached(r)
  BY <1>1, <1>2, <1>3
<1>5. Cached(r) \in Versions(r) /\ Stored(r) \in Versions(r) /\ \A v \in Versions(r) : v \in Version
  BY <1>1, <1>2, <1>3 DEF Versions
<1> QED BY <1>1, <1>2, <1>3, <1>4, <1>5

(* A write adds a version at the end of one history. *)
LEMMA StoreHist ==
  ASSUME TypeOK, NEW r \in Routers, NEW v \in Version, Store(r, v)
  PROVE  /\ hist' \in [Routers -> Seq(Version) \ {<<>>}]
         /\ \A q \in Routers \ {r} : hist'[q] = hist[q] /\ Versions(q)' = Versions(q)
         /\ Versions(r)' = Versions(r) \cup {v}
         /\ DOMAIN hist'[r] = 1 .. Len(hist[r]) + 1
         /\ \A i \in 1 .. Len(hist[r]) : hist'[r][i] = hist[r][i]
         /\ hist'[r][Len(hist[r]) + 1] = v
         /\ rfresh' \in BOOLEAN /\ (rfresh' => rfresh /\ r # rkey)
<1>t. hist \in [Routers -> Seq(Version) \ {<<>>}] /\ rfresh \in BOOLEAN
  BY DEF TypeOK
<1>h. hist[r] \in Seq(Version) /\ Len(hist[r]) \in Nat /\ DOMAIN hist[r] = 1 .. Len(hist[r])
  BY HistEnds
<1>1. /\ hist' = [hist EXCEPT ![r] = Append(hist[r], v)]
      /\ rfresh' = (rfresh /\ r # rkey)
  BY DEF Store
<1>2. Append(hist[r], v) \in Seq(Version) \ {<<>>}
  BY <1>h
<1>3. /\ hist' \in [Routers -> Seq(Version) \ {<<>>}]
      /\ hist'[r] = Append(hist[r], v)
      /\ \A q \in Routers \ {r} : hist'[q] = hist[q]
  BY <1>1, <1>2, <1>t
<1>4. /\ DOMAIN hist'[r] = 1 .. Len(hist[r]) + 1
      /\ \A i \in 1 .. Len(hist[r]) : hist'[r][i] = hist[r][i]
      /\ hist'[r][Len(hist[r]) + 1] = v
  BY <1>3, <1>h
<1>5. Versions(r)' = Versions(r) \cup {v}
  <2>1. \A i \in DOMAIN hist'[r] : i \in DOMAIN hist[r] \/ i = Len(hist[r]) + 1
    BY <1>4, <1>h
  <2>2. Len(hist[r]) + 1 \in DOMAIN hist'[r] /\ \A i \in DOMAIN hist[r] : i \in DOMAIN hist'[r]
    BY <1>4, <1>h
  <2> QED BY <2>1, <2>2, <1>4, <1>h DEF Versions
<1>6. \A q \in Routers \ {r} : Versions(q)' = Versions(q)
  BY <1>3 DEF Versions
<1>7. rfresh' \in BOOLEAN /\ (rfresh' => rfresh /\ r # rkey)
  BY <1>1, <1>t
<1> QED BY <1>3, <1>4, <1>5, <1>6, <1>7

--------------------------------------------------------------------------------
(* The invariant in two parts: what versions and devices record, and how   *)
(* far the pass of the router controller is.                               *)
Records ==
  EntryRecorded /\ CleanupReaches /\ HistoryKept /\ ApplyCovered /\ NothingMalformed

Passes == FenceHeld /\ FreshIsStored /\ SweepCovers

LEMMA InvParts == LifecycleInv <=> TypeOK /\ Records /\ Passes
BY DEF LifecycleInv, Records, Passes

(* A step that adds no entry. *)
Shrinks ==
  /\ dev' \in [Endpoints -> SUBSET Entry] /\ left' \in [Endpoints -> SUBSET Entry]
  /\ \A e \in Endpoints : /\ dev'[e] \subseteq dev[e]
                          /\ dev'[e] \ left'[e] \subseteq dev[e] \ left[e]

LEMMA NoneAdded ==
  ASSUME TypeOK, UNCHANGED devVars
  PROVE  Shrinks /\ \A r : Occupied(r)' = Occupied(r)
BY DEF TypeOK, Shrinks, devVars, Occupied

LEMMA FewerOccupied ==
  ASSUME Shrinks, NEW r
  PROVE  Occupied(r)' \subseteq Occupied(r)
BY DEF Shrinks, Occupied

(* No version is written. *)
LEMMA QuietRecords ==
  ASSUME TypeOK, Records, UNCHANGED hist, UNCHANGED wVars, Shrinks
  PROVE  Records'
<1>1. \A r : Versions(r)' = Versions(r)
  BY DEF Versions
<1>e. \A e \in Endpoints : dev[e] \subseteq Entry
  BY DEF TypeOK
<1>2. EntryRecorded'
  BY <1>1, <1>e DEF Records, EntryRecorded, Shrinks
<1>3. CleanupReaches'
  BY DEF Records, CleanupReaches, Shrinks, wVars
<1>4. HistoryKept'
  BY DEF Records, HistoryKept, Appliable
<1>5. ApplyCovered'
  BY <1>1 DEF Records, ApplyCovered, wVars
<1>6. NothingMalformed'
  BY LifecycleAssumption DEF Records, NothingMalformed, Shrinks
<1> QED BY <1>2, <1>3, <1>4, <1>5, <1>6 DEF Records

(* A write keeps what earlier versions promised ... *)
Keeps(r, v) ==
  Stored(r).exists /\ Stored(r).fin => v.exists /\ v.fin /\ Stored(r).applied \subseteq v.applied

(* ... or drops it with nothing in need of it. *)
MayDrop(r, v) ==
  /\ Len(hist[r]) = 1 /\ ~Appliable(Stored(r))
  /\ \A w \in Workers : wpc[w] = "apply" => wkey[w] # r
  /\ Occupied(r) # {} => v.exists /\ v.fin /\ Occupied(r) \subseteq v.applied

LEMMA StoreRecords ==
  ASSUME TypeOK, Records, FenceHeld, NEW r \in Routers, NEW v \in Version, Store(r, v),
         Keeps(r, v) \/ MayDrop(r, v), UNCHANGED devVars, UNCHANGED wVars
  PROVE  Records'
<1>0. EntryRecorded /\ CleanupReaches /\ HistoryKept /\ ApplyCovered /\ NothingMalformed
  BY DEF Records
<1>h. /\ Len(hist[r]) \in Nat \ {0} /\ DOMAIN hist[r] = 1 .. Len(hist[r])
      /\ Stored(r) = hist[r][Len(hist[r])] /\ Stored(r) \in Versions(r) /\ Stored(r) \in Version
  BY HistEnds
<1>s. /\ \A q \in Routers \ {r} : hist'[q] = hist[q] /\ Versions(q)' = Versions(q)
      /\ Versions(r)' = Versions(r) \cup {v}
      /\ DOMAIN hist'[r] = 1 .. Len(hist[r]) + 1
      /\ \A i \in 1 .. Len(hist[r]) : hist'[r][i] = hist[r][i]
      /\ hist'[r][Len(hist[r]) + 1] = v
  BY StoreHist
<1>u. UNCHANGED <<dev, left, wpc, wkey, wtodo>>
  BY DEF devVars, wVars
<1>1. EntryRecorded'
  <2> SUFFICES ASSUME NEW e \in Endpoints, NEW x \in dev[e] \ left[e], NEW u \in Versions(x[1])'
               PROVE  u.exists /\ u.fin /\ e \in u.applied
    BY <1>u DEF EntryRecorded
  <2>1. x[1] \in Routers
    BY DEF TypeOK, Entry
  <2>2. CASE u \in Versions(x[1])
    BY <2>2, <1>0 DEF EntryRecorded
  <2>3. CASE x[1] = r /\ u = v
    <3>1. e \in Occupied(r)
      BY <2>3 DEF Occupied
    <3>2. Stored(r).exists /\ Stored(r).fin /\ e \in Stored(r).applied
      BY <2>3, <1>0, <1>h DEF EntryRecorded
    <3> QED BY <2>3, <3>1, <3>2 DEF Keeps, MayDrop
  <2> QED BY <2>1, <2>2, <2>3, <1>s
<1>2. CleanupReaches' /\ NothingMalformed'
  BY <1>0, <1>u DEF CleanupReaches, NothingMalformed
<1>3. ApplyCovered'
  <2> SUFFICES ASSUME NEW w \in Workers, wpc[w] = "apply", NEW k, k = wkey[w]
               PROVE  /\ wtodo[w] \cap Malformed = {}
                      /\ \A u \in Versions(k)' : u.exists /\ u.fin /\ wtodo[w] \subseteq u.applied
    BY <1>u DEF ApplyCovered, Versions
  <2>1. /\ wtodo[w] \cap Malformed = {}
        /\ \A u \in Versions(k) : u.exists /\ u.fin /\ wtodo[w] \subseteq u.applied
        /\ k \in Routers
    BY <1>0 DEF ApplyCovered, FenceHeld
  <2>2. CASE k # r
    BY <2>1, <2>2, <1>s
  <2>3. CASE k = r
    BY <2>1, <2>3, <1>h, <1>s DEF Keeps, MayDrop
  <2> QED BY <2>2, <2>3
<1>4. HistoryKept'
  <2> SUFFICES ASSUME NEW q \in Routers, NEW i \in DOMAIN hist'[q], NEW j \in DOMAIN hist'[q],
                      i < j, Appliable(hist'[q][i])
               PROVE  hist'[q][j].exists /\ hist'[q][j].fin
                      /\ hist'[q][i].applied \subseteq hist'[q][j].applied
    BY DEF HistoryKept, Appliable
  <2>1. CASE q # r
    BY <2>1, <1>0, <1>s DEF HistoryKept
  <2>2. CASE q = r
    <3>1. i \in DOMAIN hist[r] /\ hist'[r][i] = hist[r][i]
      BY <2>2, <1>h, <1>s
    <3>2. CASE j \in DOMAIN hist[r]
      BY <2>2, <3>1, <3>2, <1>0, <1>h, <1>s DEF HistoryKept
    <3>3. CASE j = Len(hist[r]) + 1
      <4>1. i = Len(hist[r]) \/ i < Len(hist[r])
        BY <3>1, <1>h
      <4>2. /\ Stored(r).exists /\ Stored(r).fin
            /\ hist[r][i].applied \subseteq Stored(r).applied
        BY <2>2, <3>1, <4>1, <1>0, <1>h DEF HistoryKept, Appliable
      <4>3. ~MayDrop(r, v)
        BY <2>2, <3>1, <4>1, <1>h DEF MayDrop
      <4> QED BY <2>2, <3>1, <3>3, <4>2, <4>3, <1>s DEF Keeps
    <3> QED BY <2>2, <3>2, <3>3, <1>h, <1>s
  <2> QED BY <2>1, <2>2
<1> QED BY <1>1, <1>2, <1>3, <1>4 DEF Records

(* The pass of the router controller goes on as it was; others may clean   *)
(* up, and change the object so that its write will be refused.            *)
LEMMA SamePass ==
  ASSUME Passes, Shrinks, UNCHANGED <<fence, rpc, rkey, robj, rtodo, rown, wpc, wkey>>,
         rfresh' => rfresh /\ hist'[rkey] = hist[rkey]
  PROVE  Passes'
<1>1. FenceHeld' /\ FreshIsStored'
  BY DEF Passes, FenceHeld, FreshIsStored
<1>2. SweepCovers'
  <2>1. Occupied(rkey)' \subseteq Occupied(rkey)
    BY DEF Shrinks, Occupied
  <2> QED BY <2>1 DEF Passes, SweepCovers
<1> QED BY <1>1, <1>2 DEF Passes

(* A version is written by a user or by a pass before the fence. *)
LEMMA ApiStore ==
  ASSUME LifecycleInv, NEW r \in Routers, NEW v \in Version, Store(r, v), Keeps(r, v),
         queue' \in SUBSET Routers,
         UNCHANGED <<dev, left, fence, rpc, rkey, robj, rtodo, rown, wpc, wkey, wtodo>>
  PROVE  LifecycleInv'
<1>0. TypeOK /\ Records /\ Passes
  BY InvParts
<1>1. /\ hist' \in [Routers -> Seq(Version) \ {<<>>}]
      /\ \A q \in Routers \ {r} : hist'[q] = hist[q]
      /\ rfresh' \in BOOLEAN /\ (rfresh' => rfresh /\ r # rkey)
  BY <1>0, StoreHist
<1>2. TypeOK'
  BY <1>0, <1>1 DEF TypeOK
<1>3. Shrinks
  BY <1>0, NoneAdded DEF devVars
<1>4. rfresh' => rfresh /\ hist'[rkey] = hist[rkey]
  BY <1>0, <1>1 DEF Passes, FreshIsStored
<1>5. Passes'
  BY <1>0, <1>3, <1>4, SamePass
<1>6. Records'
  BY <1>0, StoreRecords DEF Passes, devVars, wVars
<1> QED BY <1>2, <1>5, <1>6 DEF LifecycleInv, Records, Passes

(* Nothing is written, and the pass has not begun. *)
LEMMA ApiQuiet ==
  ASSUME LifecycleInv, queue' \in SUBSET Routers,
         UNCHANGED <<hist, dev, left, fence, rpc, rkey, robj, rfresh, rtodo, rown, wpc, wkey, wtodo>>
  PROVE  LifecycleInv'
<1>0. TypeOK /\ Records /\ Passes
  BY InvParts
<1>1. TypeOK'
  BY <1>0 DEF TypeOK
<1>2. Shrinks
  BY <1>0, NoneAdded DEF devVars
<1>3. Passes'
  BY <1>0, <1>2, SamePass
<1>4. Records'
  BY <1>0, <1>2, QuietRecords DEF wVars
<1> QED BY <1>1, <1>3, <1>4 DEF LifecycleInv, Records, Passes

LEMMA LifecycleInitInv == LifecycleInit => LifecycleInv
<1> SUFFICES ASSUME LifecycleInit PROVE LifecycleInv
  OBVIOUS
<1>1. Absent \in Version
  BY VersionTypes
<1>2. <<Absent>> \in Seq(Version) \ {<<>>}
  BY <1>1
<1>3. TypeOK
  <2>1. hist \in [Routers -> Seq(Version) \ {<<>>}]
    BY <1>2 DEF LifecycleInit
  <2>2. /\ dev \in [Endpoints -> SUBSET Entry] /\ left \in [Endpoints -> SUBSET Entry]
        /\ fence \in [Routers -> Workers \cup {"router", Nobody}]
    BY DEF LifecycleInit
  <2>3. /\ wpc \in [Workers -> {"idle", "apply", "cleanup"}]
        /\ wkey \in [Workers -> Routers \cup {NoRouter}]
        /\ wtodo \in [Workers -> SUBSET Endpoints]
    BY DEF LifecycleInit
  <2> QED BY <2>1, <2>2, <2>3, <1>1 DEF LifecycleInit, TypeOK
<1>4. EntryRecorded /\ NothingMalformed
  BY LifecycleAssumption DEF LifecycleInit, EntryRecorded, NothingMalformed
<1>5. CleanupReaches /\ ApplyCovered /\ FenceHeld
  BY DEF LifecycleInit, CleanupReaches, ApplyCovered, FenceHeld
<1>6. HistoryKept
  BY DEF LifecycleInit, HistoryKept
<1>7. FreshIsStored /\ SweepCovers
  BY DEF LifecycleInit, FreshIsStored, SweepCovers
<1> QED BY <1>3, <1>4, <1>5, <1>6, <1>7 DEF LifecycleInv

(* Users create, edit and delete routers. *)
LEMMA UserInv ==
  ASSUME LifecycleInv, NEW r \in Routers, UserCreate(r) \/ UserEdit(r) \/ UserDelete(r)
  PROVE  LifecycleInv'
<1>0. TypeOK /\ queue \in SUBSET Routers
  BY InvParts DEF TypeOK
<1>h. Stored(r) \in Version
  BY <1>0, HistEnds
<1>u. /\ UNCHANGED <<dev, left, fence, rpc, rkey, robj, rtodo, rown, wpc, wkey, wtodo>>
      /\ queue' \in SUBSET Routers
  BY <1>0 DEF UserCreate, UserEdit, UserDelete, devVars, wVars
<1>s. \A spec \in Specs[r] : spec \in SUBSET Endpoints
  BY LifecycleAssumption
<1>1. CASE UserCreate(r)
  <2>1. PICK spec \in Specs[r] : Store(r, New(spec))
    BY <1>1 DEF UserCreate
  <2>2. New(spec) \in Version /\ ~Stored(r).exists
    BY <1>1, <1>s, VersionTypes DEF UserCreate
  <2>3. Keeps(r, New(spec))
    BY <2>2 DEF Keeps
  <2> QED BY <2>1, <2>2, <2>3, <1>u, ApiStore
<1>2. CASE UserEdit(r)
  <2>1. PICK spec \in Specs[r] : Store(r, [Stored(r) EXCEPT !.spec = spec])
    BY <1>2 DEF UserEdit
  <2> DEFINE v == [Stored(r) EXCEPT !.spec = spec]
  <2>2. /\ v \in Version /\ v.exists = Stored(r).exists /\ v.fin = Stored(r).fin
        /\ v.applied = Stored(r).applied
    BY <1>h, <1>s DEF Version
  <2>3. Store(r, v)
    BY <2>1
  <2> HIDE DEF v
  <2>4. Keeps(r, v)
    BY <2>2 DEF Keeps
  <2> QED BY <2>2, <2>3, <2>4, <1>u, ApiStore
<1>3. CASE UserDelete(r)
  <2> DEFINE u == [Stored(r) EXCEPT !.deleting = TRUE]
             v == Finalized(u)
  <2>1. /\ u \in Version /\ u.exists = Stored(r).exists /\ u.fin = Stored(r).fin
        /\ u.applied = Stored(r).applied
    BY <1>h DEF Version
  <2>2. v \in Version /\ Store(r, v)
    BY <2>1, <1>3, VersionTypes DEF UserDelete
  <2>3. Stored(r).fin => v = u
    BY <2>1 DEF Finalized
  <2> HIDE DEF u, v
  <2>4. Keeps(r, v)
    BY <2>1, <2>3 DEF Keeps
  <2> QED BY <2>2, <2>4, <1>u, ApiStore
<1> QED BY <1>1, <1>2, <1>3

(* The rest of a sequence. *)
LEMMA TailShifts ==
  ASSUME NEW S, NEW s \in Seq(S), Len(s) > 1
  PROVE  /\ Tail(s) \in Seq(S) \ {<<>>} /\ DOMAIN Tail(s) \subseteq Nat
         /\ \A i \in DOMAIN Tail(s) : i + 1 \in DOMAIN s /\ Tail(s)[i] = s[i + 1]
<1>1. Len(s) \in Nat /\ DOMAIN s = 1 .. Len(s) /\ s # <<>>
  OBVIOUS
<1>2. /\ Tail(s) \in Seq(S) /\ Len(Tail(s)) = Len(s) - 1
      /\ \A i \in 1 .. Len(Tail(s)) : Tail(s)[i] = s[i + 1]
  BY <1>1, HeadTailProperties
<1> DEFINE t == Tail(s)
<1>3. t \in Seq(S) /\ Len(t) = Len(s) - 1 /\ \A i \in 1 .. Len(t) : t[i] = s[i + 1]
  BY <1>2
<1> HIDE DEF t
<1>4. Len(t) \in Nat /\ DOMAIN t = 1 .. Len(t) /\ Len(t) # 0
  BY <1>1, <1>3
<1>5. t # <<>>
  BY <1>4
<1>6. \A i \in 1 .. Len(t) : i \in Nat /\ i + 1 \in 1 .. Len(s)
  BY <1>1, <1>3, <1>4
<1>7. /\ t \in Seq(S) \ {<<>>} /\ DOMAIN t \subseteq Nat
      /\ \A i \in DOMAIN t : i + 1 \in DOMAIN s /\ t[i] = s[i + 1]
  BY <1>1, <1>3, <1>4, <1>5, <1>6
<1> QED BY <1>7 DEF t

(* The watch, delayed keys, and restarts. *)
LEMMA EnvironmentInv ==
  ASSUME LifecycleInv, Restart \/ \E r \in Routers : Deliver(r) \/ Wake(r)
  PROVE  LifecycleInv'
<1>0. TypeOK /\ Records /\ Passes
  BY InvParts
<1>t. /\ hist \in [Routers -> Seq(Version) \ {<<>>}] /\ queue \in SUBSET Routers
      /\ \A e \in Endpoints : dev[e] \subseteq Entry
  BY <1>0 DEF TypeOK
<1>1. ASSUME NEW r \in Routers, Deliver(r) PROVE LifecycleInv'
  <2>1. /\ Len(hist[r]) > 1 /\ hist' = [hist EXCEPT ![r] = Tail(hist[r])]
        /\ queue' = queue \cup {r}
        /\ UNCHANGED <<dev, left, fence, rpc, rkey, robj, rfresh, rtodo, rown, wpc, wkey, wtodo>>
    BY <1>1 DEF Deliver, devVars, rVars, wVars
  <2>h. hist[r] \in Seq(Version)
    BY <1>0, HistEnds
  <2>2. /\ Tail(hist[r]) \in Seq(Version) \ {<<>>} /\ DOMAIN Tail(hist[r]) \subseteq Nat
        /\ \A i \in DOMAIN Tail(hist[r]) :
             i + 1 \in DOMAIN hist[r] /\ Tail(hist[r])[i] = hist[r][i + 1]
    BY <2>1, <2>h, TailShifts
  <2>5. /\ hist' \in [Routers -> Seq(Version) \ {<<>>}] /\ hist'[r] = Tail(hist[r])
        /\ \A q \in Routers \ {r} : hist'[q] = hist[q]
    BY <2>1, <2>2, <1>t
  <2>6. \A i \in DOMAIN hist'[r] : i \in Nat /\ i + 1 \in DOMAIN hist[r] /\ hist'[r][i] = hist[r][i + 1]
    BY <2>2, <2>5
  <2>7. TypeOK'
    <3>1. queue' \in SUBSET Routers
      BY <2>1, <1>t
    <3> QED BY <2>1, <2>5, <3>1, <1>0 DEF TypeOK
  <2>8. \A q \in Routers : Versions(q)' \subseteq Versions(q)
    <3>1. Versions(r)' \subseteq Versions(r)
      <4> SUFFICES ASSUME NEW i \in DOMAIN hist'[r] PROVE hist'[r][i] \in Versions(r)
        BY DEF Versions
      <4> QED BY <2>6 DEF Versions
    <3>2. \A q \in Routers \ {r} : Versions(q)' = Versions(q)
      BY <2>5 DEF Versions
    <3> QED BY <3>1, <3>2
  <2>9. EntryRecorded'
    BY <2>1, <2>8, <1>t, <1>0 DEF EntryRecorded, Records, Entry
  <2>10. CleanupReaches' /\ NothingMalformed'
    BY <2>1, <1>0 DEF CleanupReaches, NothingMalformed, Records
  <2>11. ApplyCovered'
    <3> SUFFICES ASSUME NEW w \in Workers, wpc[w] = "apply", NEW k, k = wkey[w]
                 PROVE  /\ wtodo[w] \cap Malformed = {}
                        /\ \A u \in Versions(k)' : u.exists /\ u.fin /\ wtodo[w] \subseteq u.applied
      <4>1. wpc' = wpc /\ wkey' = wkey /\ wtodo' = wtodo
        BY <2>1
      <4> QED BY <4>1 DEF ApplyCovered, Versions
    <3>1. /\ wtodo[w] \cap Malformed = {}
          /\ \A u \in Versions(k) : u.exists /\ u.fin /\ wtodo[w] \subseteq u.applied
          /\ k \in Routers
      BY <1>0 DEF ApplyCovered, FenceHeld, Records, Passes
    <3> QED BY <3>1, <2>8
  <2>12. HistoryKept'
    <3> SUFFICES ASSUME NEW q \in Routers, NEW i \in DOMAIN hist'[q], NEW j \in DOMAIN hist'[q],
                        i < j, Appliable(hist'[q][i])
                 PROVE  hist'[q][j].exists /\ hist'[q][j].fin
                        /\ hist'[q][i].applied \subseteq hist'[q][j].applied
      BY DEF HistoryKept, Appliable
    <3>1. CASE q # r
      BY <3>1, <2>5, <1>0 DEF HistoryKept, Records
    <3>2. CASE q = r
      <4>1. /\ i + 1 \in DOMAIN hist[r] /\ j + 1 \in DOMAIN hist[r] /\ i + 1 < j + 1
            /\ hist'[r][i] = hist[r][i + 1] /\ hist'[r][j] = hist[r][j + 1]
        BY <3>2, <2>6
      <4> QED BY <3>2, <4>1, <1>0 DEF HistoryKept, Records
    <3> QED BY <3>1, <3>2
  <2>13. rfresh => rkey # r
    <3>1. rfresh => Len(hist[rkey]) = 1
      BY <1>0 DEF Passes, FreshIsStored
    <3>2. Len(hist[r]) # 1
      <4>1. Len(hist[r]) > 1
        BY <2>1
      <4>2. ~(1 > 1)
        OBVIOUS
      <4> QED BY <4>1, <4>2, Zenon
    <3> QED BY <3>1, <3>2
  <2>14. Passes'
    <3>1. Shrinks
      BY <2>1, <1>0, NoneAdded DEF devVars
    <3>2. rfresh' => rfresh /\ hist'[rkey] = hist[rkey]
      BY <2>1, <2>5, <2>13, <1>0 DEF Passes, FreshIsStored
    <3> QED BY <2>1, <3>1, <3>2, <1>0, SamePass
  <2> QED BY <2>7, <2>9, <2>10, <2>11, <2>12, <2>14 DEF LifecycleInv, Passes
<1>2. ASSUME NEW r \in Routers, Wake(r) PROVE LifecycleInv'
  <2>1. /\ queue' = queue \cup {r}
        /\ UNCHANGED <<hist, dev, left, fence, rpc, rkey, robj, rfresh, rtodo, rown, wpc, wkey, wtodo>>
    BY <1>2 DEF Wake, devVars, rVars, wVars
  <2>2. queue' \in SUBSET Routers
    BY <2>1, <1>t
  <2> QED BY <2>1, <2>2, ApiQuiet
<1>3. CASE Restart
  <2>1. /\ hist' = [r \in Routers |-> <<Stored(r)>>]
        /\ queue' \in SUBSET Routers
        /\ fence' = [r \in Routers |-> Nobody]
        /\ rpc' = "idle" /\ rkey' = NoRouter /\ robj' = Absent /\ rfresh' = FALSE
        /\ rtodo' = {} /\ rown' = {}
        /\ wpc' = [w \in Workers |-> "idle"]
        /\ wkey' = [w \in Workers |-> NoRouter]
        /\ wtodo' = [w \in Workers |-> {}]
        /\ UNCHANGED <<dev, left>>
    BY <1>3 DEF Restart, devVars
  <2>2. \A r \in Routers : Stored(r) \in Version /\ Stored(r) \in Versions(r)
    BY <1>0, HistEnds
  <2>3. \A r \in Routers : <<Stored(r)>> \in Seq(Version) \ {<<>>}
    BY <2>2
  <2>4. hist' \in [Routers -> Seq(Version) \ {<<>>}] /\ \A r \in Routers : hist'[r] = <<Stored(r)>>
    BY <2>1, <2>3
  <2>5. TypeOK'
    <3>1. fence' \in [Routers -> Workers \cup {"router", Nobody}]
      BY <2>1
    <3>2. /\ wpc' \in [Workers -> {"idle", "apply", "cleanup"}]
          /\ wkey' \in [Workers -> Routers \cup {NoRouter}]
          /\ wtodo' \in [Workers -> SUBSET Endpoints]
      BY <2>1
    <3>3. Absent \in Version
      BY VersionTypes
    <3> QED BY <2>1, <2>4, <3>1, <3>2, <3>3, <1>0 DEF TypeOK
  <2>6. \A r \in Routers : Versions(r)' \subseteq Versions(r)
    BY <2>2, <2>4 DEF Versions
  <2>7. EntryRecorded' /\ NothingMalformed'
    BY <2>1, <2>6, <1>t, <1>0 DEF EntryRecorded, NothingMalformed, Records, Entry
  <2>8. CleanupReaches' /\ ApplyCovered'
    BY <2>1 DEF CleanupReaches, ApplyCovered
  <2>9. HistoryKept'
    BY <2>4 DEF HistoryKept
  <2>10. FenceHeld' /\ FreshIsStored' /\ SweepCovers'
    BY <2>1 DEF FenceHeld, FreshIsStored, SweepCovers
  <2> QED BY <2>5, <2>7, <2>8, <2>9, <2>10 DEF LifecycleInv
<1> QED BY <1>1, <1>2, <1>3
--------------------------------------------------------------------------------
(* The fence of k moves between its owners while no resource controller    *)
(* has it.                                                                 *)
LEMMA FenceMoves ==
  ASSUME TypeOK, FenceHeld, NEW k \in Routers, fence[k] \notin Workers,
         NEW h \in {"router", Nobody}, fence' = [fence EXCEPT ![k] = h], UNCHANGED wVars
  PROVE  /\ fence' \in [Routers -> Workers \cup {"router", Nobody}] /\ fence'[k] = h
         /\ \A w \in Workers : wpc'[w] # "idle" => wkey'[w] \in Routers /\ fence'[wkey'[w]] = w
<1>1. fence \in [Routers -> Workers \cup {"router", Nobody}]
  BY DEF TypeOK
<1>2. wpc' = wpc /\ wkey' = wkey
  BY DEF wVars
<1>3. \A w \in Workers : wpc[w] # "idle" => wkey[w] \in Routers /\ fence[wkey[w]] = w
  BY DEF FenceHeld
<1> QED BY <1>1, <1>2, <1>3

(* The pass of the router controller ends. *)
LEMMA EndPass ==
  ASSUME TypeOK, Passes, rpc' = "idle", rkey' = NoRouter, robj' = Absent, rfresh' = FALSE,
         rtodo' \in SUBSET WellFormed, rown' = {}, queue' \in SUBSET Routers,
         \/ fence' = fence
         \/ /\ rpc # "idle" /\ fence[rkey] \notin Workers
            /\ fence' = [fence EXCEPT ![rkey] = Nobody],
         UNCHANGED wVars, hist' \in [Routers -> Seq(Version) \ {<<>>}],
         dev' \in [Endpoints -> SUBSET Entry], left' \in [Endpoints -> SUBSET Entry]
  PROVE  TypeOK' /\ Passes'
<1>1. FenceHeld
  BY DEF Passes
<1>2. /\ fence' \in [Routers -> Workers \cup {"router", Nobody}]
      /\ \A w \in Workers : wpc'[w] # "idle" => wkey'[w] \in Routers /\ fence'[wkey'[w]] = w
  <2>1. CASE fence' = fence
    BY <2>1, <1>1 DEF TypeOK, FenceHeld, wVars
  <2>2. CASE fence' # fence
    BY <2>2, <1>1, FenceMoves DEF FenceHeld
  <2> QED BY <2>1, <2>2
<1>3. Absent \in Version
  BY VersionTypes
<1>4. TypeOK'
  BY <1>2, <1>3 DEF TypeOK, wVars
<1>5. FenceHeld' /\ FreshIsStored' /\ SweepCovers'
  BY <1>2 DEF FenceHeld, FreshIsStored, SweepCovers
<1> QED BY <1>4, <1>5 DEF Passes

(* Entries that were not left to others are recorded, on devices that can  *)
(* be reached.                                                             *)
LEMMA OccupiedRecorded ==
  ASSUME LifecycleInv, NEW k, NEW e \in Occupied(k)
  PROVE  e \notin Malformed /\ \A v \in Versions(k) : v.exists /\ v.fin /\ e \in v.applied
BY DEF LifecycleInv, Occupied, EntryRecorded, NothingMalformed

(* Reconcile before the fence. *)
LEMMA ReconcileInv ==
  ASSUME LifecycleInv, NEW r \in Routers, ReconcileStep(r)
  PROVE  LifecycleInv'
<1>0. TypeOK /\ Records /\ Passes /\ queue \in SUBSET Routers
  BY InvParts DEF TypeOK
<1>h. Cached(r) \in Version /\ (Len(hist[r]) = 1 => Stored(r) = Cached(r))
  BY <1>0, HistEnds
<1>s. ASSUME NEW v \in Version, v.exists = Cached(r).exists, Cached(r).fin => v.fin,
             Cached(r).applied \subseteq v.applied, Len(hist[r]) = 1
      PROVE  Keeps(r, v)
  BY <1>s, <1>h DEF Keeps
<1>u. StayIdle => UNCHANGED <<dev, left, fence, rpc, rkey, robj, rtodo, rown, wpc, wkey, wtodo>>
  BY DEF StayIdle, devVars, wVars
<1>q. queue \ {r} \in SUBSET Routers
  BY <1>0
<1>w. ASSUME NEW v \in Version, v.exists = Cached(r).exists, Cached(r).fin => v.fin,
             Cached(r).applied \subseteq v.applied, UpdateOrRetry(r, v), StayIdle
      PROVE  LifecycleInv'
  <2>1. CASE Len(hist[r]) = 1 /\ Store(r, v) /\ queue' = queue \ {r}
    BY <2>1, <1>s, <1>w, <1>u, <1>q, ApiStore
  <2>2. CASE UNCHANGED <<hist, queue, rfresh>>
    BY <2>2, <1>w, <1>u, <1>0, ApiQuiet
  <2> QED BY <2>1, <2>2, <1>w DEF UpdateOrRetry
<1>1. CASE RouterGone(r)
  BY <1>1, <1>u, <1>q, ApiQuiet DEF RouterGone
<1>2. CASE RouterRejected(r)
  <2> DEFINE v == [Cached(r) EXCEPT !.connected = FALSE]
  <2>1. /\ v \in Version /\ v.exists = Cached(r).exists /\ v.fin = Cached(r).fin
        /\ v.applied = Cached(r).applied
    BY <1>h DEF Version
  <2>2. /\ UNCHANGED queue /\ StayIdle
        /\ \/ Len(hist[r]) = 1 /\ Store(r, v)
           \/ UNCHANGED <<hist, rfresh>>
    BY <1>2 DEF RouterRejected, failRouter
  <2> HIDE DEF v
  <2>3. CASE Len(hist[r]) = 1 /\ Store(r, v)
    BY <2>1, <2>2, <2>3, <1>s, <1>u, <1>0, ApiStore
  <2>4. CASE UNCHANGED <<hist, rfresh>>
    BY <2>2, <2>4, <1>u, <1>0, ApiQuiet
  <2> QED BY <2>2, <2>3, <2>4
<1>3. CASE AddFinalizer(r)
  <2> DEFINE v == [Cached(r) EXCEPT !.fin = TRUE]
  <2>1. /\ v \in Version /\ v.exists = Cached(r).exists /\ v.fin
        /\ v.applied = Cached(r).applied
    BY <1>h DEF Version
  <2>2. UpdateOrRetry(r, v) /\ StayIdle
    BY <1>3 DEF AddFinalizer
  <2> HIDE DEF v
  <2> QED BY <2>1, <2>2, <1>w
<1>4. CASE RecordHistory(r)
  <2> DEFINE v == [Cached(r) EXCEPT !.applied = History(r)]
  <2>1. History(r) \in SUBSET Endpoints /\ Cached(r).applied \subseteq History(r)
    BY <1>h DEF Version, History, durableRouterEndpointUnion
  <2>2. /\ v \in Version /\ v.exists = Cached(r).exists /\ v.fin = Cached(r).fin
        /\ v.applied = History(r)
    BY <2>1, <1>h DEF Version
  <2>3. UpdateOrRetry(r, v) /\ StayIdle
    BY <1>4 DEF RecordHistory
  <2> HIDE DEF v
  <2> QED BY <2>1, <2>2, <2>3, <1>w
<1>5. CASE AwaitFence(r)
  <2>1. /\ rpc = "idle" /\ rpc' \in {"waitApply", "waitDelete"} /\ rkey' = r
        /\ queue' = queue \ {r}
        /\ UNCHANGED <<hist, dev, left, fence, robj, rfresh, rtodo, rown, wpc, wkey, wtodo>>
    BY <1>5 DEF AwaitFence, devVars, wVars
  <2>2. TypeOK'
    BY <2>1, <1>q, <1>0 DEF TypeOK
  <2>3. Records'
    <3>1. Shrinks
      BY <2>1, <1>0, NoneAdded DEF devVars
    <3> QED BY <2>1, <3>1, <1>0, QuietRecords DEF wVars
  <2>4. Passes'
    BY <2>1, <1>0 DEF Passes, FenceHeld, FreshIsStored, SweepCovers
  <2> QED BY <2>2, <2>3, <2>4 DEF LifecycleInv, Records, Passes
<1> QED BY <1>1, <1>2, <1>3, <1>4, <1>5 DEF ReconcileStep

(* The object is read again under the fence. *)
LEMMA LockInv ==
  ASSUME LifecycleInv, Lock
  PROVE  LifecycleInv'
<1>0. TypeOK /\ Records /\ Passes /\ FenceHeld /\ queue \in SUBSET Routers
  BY InvParts DEF TypeOK, Passes
<1>u. /\ rpc \in {"waitApply", "waitDelete"}
      /\ UNCHANGED <<hist, dev, left, wpc, wkey, wtodo>>
  BY DEF Lock, devVars, wVars
<1> DEFINE k == rkey
<1>k. k \in Routers /\ rown = {} /\ ~rfresh
  BY <1>u, <1>0 DEF Passes, FenceHeld, FreshIsStored, SweepCovers
<1>h. /\ Cached(k) \in Version /\ Cached(k) \in Versions(k)
      /\ Len(hist[k]) = 1 => hist[k] = <<Cached(k)>>
  BY <1>k, <1>0, HistEnds
<1>n. "router" \notin Workers /\ Nobody \notin Workers
  BY LifecycleAssumption
<1>s. Shrinks /\ UNCHANGED wVars /\ (rkey' = rkey => Occupied(rkey)' = Occupied(rkey))
  <2>1. Shrinks /\ UNCHANGED wVars
    BY <1>u, <1>0, NoneAdded DEF devVars, wVars
  <2>2. rkey' = rkey => Occupied(rkey)' = Occupied(rkey)
    BY <1>u DEF Occupied
  <2> QED BY <2>1, <2>2
<1>r. Records'
  BY <1>u, <1>s, <1>0, QuietRecords
<1>c. \A e \in Occupied(k) : e \notin Malformed /\ e \in Cached(k).applied
  BY <1>h, OccupiedRecorded
<1>t. Cached(k).spec \in SUBSET Endpoints /\ Cached(k).applied \in SUBSET Endpoints
  BY <1>h DEF Version
<1>1. CASE BeginDeletion(rkey)
  <2>1. /\ Cached(k).deleting /\ fence[k] = Nobody /\ robj' = Cached(k)
        /\ rfresh' = (Len(hist[k]) = 1) /\ fence' = [fence EXCEPT ![k] = "router"]
        /\ rpc' = "claims" /\ rtodo' = routerCleanupEndpoints(Cached(k)) /\ rown' = {}
        /\ UNCHANGED <<queue, rkey>>
    BY <1>1 DEF BeginDeletion, ReadLocked
  <2>2. rtodo' \in SUBSET WellFormed /\ Occupied(k) \subseteq rtodo'
    BY <2>1, <1>c, <1>t DEF routerCleanupEndpoints, WellFormed
  <2>3. /\ fence' \in [Routers -> Workers \cup {"router", Nobody}] /\ fence'[k] = "router"
        /\ \A w \in Workers : wpc'[w] # "idle" => wkey'[w] \in Routers /\ fence'[wkey'[w]] = w
    BY <2>1, <1>k, <1>n, <1>s, <1>0, FenceMoves
  <2>4. TypeOK'
    BY <2>1, <2>2, <2>3, <1>u, <1>h, <1>0 DEF TypeOK
  <2>5. FenceHeld' /\ FreshIsStored'
    BY <2>1, <2>3, <1>u, <1>k, <1>h DEF FenceHeld, FreshIsStored
  <2>6. SweepCovers'
    BY <2>1, <2>2, <1>s DEF SweepCovers
  <2> QED BY <2>4, <2>5, <2>6, <1>r DEF LifecycleInv, Records
<1>2. CASE NothingLocked(rkey)
  <2>1. /\ fence[k] = Nobody /\ rpc' = "idle" /\ rkey' = NoRouter
        /\ fence' = [fence EXCEPT ![k] = Nobody]
        /\ queue' \in {queue, queue \cup {k}}
        /\ rtodo' = {} /\ rown' = {} /\ robj' = Absent /\ rfresh' = FALSE
    BY <1>2 DEF NothingLocked, Leave
  <2>2. queue' \in SUBSET Routers
    BY <2>1, <1>k, <1>0
  <2>3. /\ hist' \in [Routers -> Seq(Version) \ {<<>>}]
        /\ dev' \in [Endpoints -> SUBSET Entry] /\ left' \in [Endpoints -> SUBSET Entry]
    BY <1>u, <1>0 DEF TypeOK
  <2>4. TypeOK' /\ Passes'
    BY <2>1, <2>2, <2>3, <1>u, <1>n, <1>s, <1>0, EndPass
  <2> QED BY <2>4, <1>r DEF LifecycleInv, Records, Passes
<1>3. CASE NotOwner(rkey)
  <2>1. /\ robj' = Cached(k) /\ rfresh' = (Len(hist[k]) = 1) /\ rpc' = "fail"
        /\ UNCHANGED <<fence, queue, rkey, rtodo, rown>>
    BY <1>3 DEF NotOwner, ReadLocked
  <2>2. TypeOK'
    BY <2>1, <1>u, <1>h, <1>0 DEF TypeOK
  <2>3. FenceHeld' /\ FreshIsStored'
    BY <2>1, <1>u, <1>k, <1>h, <1>0 DEF FenceHeld, FreshIsStored
  <2>4. SweepCovers'
    BY <2>1, <1>k DEF SweepCovers
  <2> QED BY <2>2, <2>3, <2>4, <1>r DEF LifecycleInv, Records
<1>4. CASE BeginSweep(rkey)
  <2>1. /\ fence[k] = Nobody /\ robj' = Cached(k)
        /\ rfresh' = (Len(hist[k]) = 1) /\ fence' = [fence EXCEPT ![k] = "router"]
        /\ rpc' = "sweep" /\ rtodo' = removedEndpoints(Cached(k))
        /\ UNCHANGED <<queue, rkey, rown>>
    BY <1>4 DEF BeginSweep, ReadLocked
  <2>2. rtodo' \in SUBSET WellFormed /\ Occupied(k) \subseteq rtodo' \cup robj'.spec
    BY <2>1, <1>c, <1>t DEF removedEndpoints, WellFormed
  <2>3. /\ fence' \in [Routers -> Workers \cup {"router", Nobody}] /\ fence'[k] = "router"
        /\ \A w \in Workers : wpc'[w] # "idle" => wkey'[w] \in Routers /\ fence'[wkey'[w]] = w
    BY <2>1, <1>k, <1>n, <1>s, <1>0, FenceMoves
  <2>4. TypeOK'
    BY <2>1, <2>2, <2>3, <1>u, <1>h, <1>0 DEF TypeOK
  <2>5. FenceHeld' /\ FreshIsStored'
    BY <2>1, <2>3, <1>u, <1>k, <1>h DEF FenceHeld, FreshIsStored
  <2>6. SweepCovers'
    BY <2>1, <2>2, <1>k, <1>s DEF SweepCovers
  <2> QED BY <2>4, <2>5, <2>6, <1>r DEF LifecycleInv, Records
<1> QED BY <1>1, <1>2, <1>3, <1>4 DEF Lock

--------------------------------------------------------------------------------
(* What a look at an endpoint and what a wipe do to the devices: no entry  *)
(* is added, and none of router k is left unaccounted for on endpoint e.   *)
LEMMA LeftToClaimant ==
  ASSUME TypeOK, NEW e \in Endpoints, LeaveToClaimant(e), UNCHANGED <<dev, rkey>>
  PROVE  Shrinks /\ Occupied(rkey)' \subseteq Occupied(rkey) \ {e}
<1>1. /\ dev \in [Endpoints -> SUBSET Entry] /\ left \in [Endpoints -> SUBSET Entry]
      /\ left' = [left EXCEPT ![e] = left[e] \cup {x \in dev[e] : x[1] = rkey}]
  BY DEF TypeOK, LeaveToClaimant
<1>2. /\ left' \in [Endpoints -> SUBSET Entry]
      /\ left'[e] = left[e] \cup {x \in dev[e] : x[1] = rkey}
      /\ \A f \in Endpoints \ {e} : left'[f] = left[f]
  BY <1>1
<1>3. Shrinks
  BY <1>1, <1>2 DEF Shrinks
<1>4. e \notin Occupied(rkey)'
  BY <1>2 DEF Occupied
<1> QED BY <1>3, <1>4 DEF Shrinks, Occupied

LEMMA Wiped ==
  ASSUME TypeOK, NEW e \in Endpoints, DeleteManagedConfiguration(e), UNCHANGED rkey
  PROVE  Shrinks /\ Occupied(rkey)' \subseteq Occupied(rkey) \ {e}
<1>1. /\ dev \in [Endpoints -> SUBSET Entry] /\ left \in [Endpoints -> SUBSET Entry]
      /\ dev' = [dev EXCEPT ![e] = {}] /\ left' = [left EXCEPT ![e] = {}]
  BY DEF TypeOK, DeleteManagedConfiguration
<1>2. /\ dev' \in [Endpoints -> SUBSET Entry] /\ left' \in [Endpoints -> SUBSET Entry]
      /\ dev'[e] = {} /\ \A f \in Endpoints \ {e} : dev'[f] = dev[f] /\ left'[f] = left[f]
  BY <1>1
<1>3. Shrinks
  BY <1>1, <1>2 DEF Shrinks
<1>4. e \notin Occupied(rkey)'
  BY <1>2 DEF Occupied
<1> QED BY <1>3, <1>4 DEF Shrinks, Occupied

LEMMA PartlyWiped ==
  ASSUME TypeOK, NEW e \in Endpoints, DeleteManagedFails(e)
  PROVE  Shrinks
<1>1. PICK rest \in SUBSET dev[e] : /\ dev' = [dev EXCEPT ![e] = rest]
                                    /\ left' = [left EXCEPT ![e] = left[e] \cap rest]
  BY DEF DeleteManagedFails
<1>2. dev \in [Endpoints -> SUBSET Entry] /\ left \in [Endpoints -> SUBSET Entry]
  BY DEF TypeOK
<1>3. /\ dev' \in [Endpoints -> SUBSET Entry] /\ left' \in [Endpoints -> SUBSET Entry]
      /\ dev'[e] = rest /\ left'[e] = left[e] \cap rest
      /\ \A f \in Endpoints \ {e} : dev'[f] = dev[f] /\ left'[f] = left[f]
  BY <1>1, <1>2
<1> QED BY <1>3 DEF Shrinks

(* The pass ends with an error and gives the fence back. *)
LEMMA FailLockedInv ==
  ASSUME LifecycleInv, rpc \in {"sweep", "wipe"}, FailLocked, rpc' \in {"fail", "failRecorded"},
         UNCHANGED <<hist, queue, rkey, robj, rfresh, wpc, wkey, wtodo>>, Shrinks,
         rpc' = "failRecorded" =>
           robj.applied # robj.spec /\ Occupied(rkey) \subseteq robj.spec
  PROVE  LifecycleInv'
<1>0. TypeOK /\ Records /\ Passes /\ FenceHeld /\ FreshIsStored
  BY InvParts DEF Passes
<1>1. rkey \in Routers /\ fence[rkey] = "router" /\ "router" \notin Workers
  BY <1>0, LifecycleAssumption DEF FenceHeld
<1>2. fence' = [fence EXCEPT ![rkey] = Nobody] /\ rtodo' = {} /\ rown' = {}
  BY DEF FailLocked
<1>3. /\ fence' \in [Routers -> Workers \cup {"router", Nobody}]
      /\ \A w \in Workers : wpc'[w] # "idle" => wkey'[w] \in Routers /\ fence'[wkey'[w]] = w
  BY <1>0, <1>1, <1>2, FenceMoves DEF wVars
<1>4. TypeOK'
  BY <1>0, <1>2, <1>3 DEF TypeOK, Shrinks
<1>5. Records'
  BY <1>0, QuietRecords DEF wVars
<1>6. FenceHeld' /\ FreshIsStored'
  BY <1>0, <1>1, <1>3 DEF FenceHeld, FreshIsStored
<1>7. SweepCovers'
  <2>1. \A w \in Workers : wpc[w] = "apply" => wkey[w] # rkey
    BY <1>0, <1>1 DEF FenceHeld
  <2>2. Occupied(rkey)' \subseteq Occupied(rkey)
    BY DEF Shrinks, Occupied
  <2> QED BY <1>2, <2>1, <2>2 DEF SweepCovers
<1> QED BY <1>4, <1>5, <1>6, <1>7 DEF LifecycleInv, Records

(* cleanupRemovedEndpoints and the loops of reconcileDeletionLocked. *)
LEMMA EndpointInv ==
  ASSUME LifecycleInv, NEW e \in Endpoints,
         \/ SweepCheck(e) \/ SweepDelete(e) \/ SweepFails(e)
         \/ FinalizeCheck(e) \/ FinalizeDelete(e) \/ FinalizeFails(e)
  PROVE  LifecycleInv'
<1>0. TypeOK /\ Records /\ Passes /\ FenceHeld /\ FreshIsStored /\ SweepCovers
  BY InvParts DEF Passes
<1>n. "router" \notin Workers
  BY LifecycleAssumption
<1>t. rtodo \in SUBSET WellFormed /\ rown \in SUBSET WellFormed /\ queue \in SUBSET Routers
  BY <1>0 DEF TypeOK
\* A step of the loops that goes on.
<1>g. ASSUME rpc \in {"sweep", "wipe", "claims", "finalize"},
             rpc' \in {"sweep", "wipe", "claims", "finalize"},
             rtodo' \in SUBSET WellFormed, rown' \in SUBSET WellFormed,
             UNCHANGED <<hist, queue, fence, rkey, robj, rfresh, wpc, wkey, wtodo>>,
             Shrinks, SweepCovers'
      PROVE  LifecycleInv'
  <2>1. TypeOK'
    BY <1>g, <1>0 DEF TypeOK, Shrinks
  <2>2. Records'
    BY <1>g, <1>0, QuietRecords DEF wVars
  <2>3. FenceHeld' /\ FreshIsStored'
    BY <1>g, <1>0 DEF FenceHeld, FreshIsStored
  <2> QED BY <2>1, <2>2, <2>3, <1>g DEF LifecycleInv, Records
<1>1. CASE SweepCheck(e)
  <2>1. /\ rpc = "sweep" /\ e \in rtodo /\ rtodo' = rtodo \ {e}
        /\ \/ LeaveToClaimant(e) /\ UNCHANGED <<rpc, rown>>
           \/ rpc' = "wipe" /\ rown' = {e} /\ UNCHANGED left
        /\ UNCHANGED <<hist, queue, dev, fence, rkey, robj, rfresh, wpc, wkey, wtodo>>
    BY <1>1 DEF SweepCheck, apiVars, wVars
  <2>2. rown = {} /\ Occupied(rkey) \subseteq rtodo \cup robj.spec
    BY <2>1, <1>0 DEF SweepCovers
  <2>3. CASE LeaveToClaimant(e) /\ UNCHANGED <<rpc, rown>>
    <3>1. Shrinks /\ Occupied(rkey)' \subseteq Occupied(rkey) \ {e}
      BY <2>1, <2>3, <1>0, LeftToClaimant
    <3>2. SweepCovers'
      BY <2>1, <2>2, <2>3, <3>1 DEF SweepCovers
    <3> QED BY <2>1, <2>3, <3>1, <3>2, <1>g, <1>t
  <2>4. CASE rpc' = "wipe" /\ rown' = {e} /\ UNCHANGED left
    <3>1. Shrinks /\ Occupied(rkey)' = Occupied(rkey)
      <4>1. UNCHANGED <<dev, left, rkey>>
        BY <2>1, <2>4
      <4> QED BY <4>1, <1>0, NoneAdded DEF devVars, Occupied
    <3>2. SweepCovers'
      BY <2>1, <2>2, <2>4, <3>1 DEF SweepCovers
    <3> QED BY <2>1, <2>4, <3>1, <3>2, <1>g, <1>t
  <2> QED BY <2>1, <2>3, <2>4
<1>2. CASE SweepDelete(e)
  <2>1. /\ rpc = "wipe" /\ e \in rown /\ DeleteManagedConfiguration(e)
        /\ rpc' = "sweep" /\ rown' = {}
        /\ UNCHANGED <<hist, queue, fence, rkey, robj, rfresh, rtodo, wpc, wkey, wtodo>>
    BY <1>2 DEF SweepDelete, apiVars, wVars
  <2>2. rown = {e} /\ Occupied(rkey) \subseteq rtodo \cup rown \cup robj.spec
    BY <2>1, <1>0 DEF SweepCovers
  <2>3. Shrinks /\ Occupied(rkey)' \subseteq Occupied(rkey) \ {e}
    BY <2>1, <1>0, Wiped
  <2>4. SweepCovers'
    BY <2>1, <2>2, <2>3 DEF SweepCovers
  <2> QED BY <2>1, <2>3, <2>4, <1>g, <1>t
<1>3. CASE SweepFails(e)
  <2>1. /\ rpc = "wipe" /\ DeleteManagedFails(e) /\ rpc' = "fail" /\ FailLocked
        /\ UNCHANGED <<hist, queue, rkey, robj, rfresh, wpc, wkey, wtodo>>
    BY <1>3 DEF SweepFails, apiVars, wVars
  <2>2. Shrinks
    BY <2>1, <1>0, PartlyWiped
  <2> QED BY <2>1, <2>2, FailLockedInv
<1>4. CASE FinalizeCheck(e)
  <2>1. /\ rpc = "claims" /\ e \in rtodo /\ rtodo' = rtodo \ {e} /\ UNCHANGED rpc
        /\ \/ LeaveToClaimant(e) /\ UNCHANGED rown
           \/ rown' = rown \cup {e} /\ UNCHANGED left
        /\ UNCHANGED <<hist, queue, dev, fence, rkey, robj, rfresh, wpc, wkey, wtodo>>
    BY <1>4 DEF FinalizeCheck, apiVars, wVars
  <2>2. robj.deleting /\ Occupied(rkey) \subseteq rtodo \cup rown
    BY <2>1, <1>0 DEF SweepCovers
  <2>3. CASE LeaveToClaimant(e) /\ UNCHANGED rown
    <3>1. Shrinks /\ Occupied(rkey)' \subseteq Occupied(rkey) \ {e}
      BY <2>1, <2>3, <1>0, LeftToClaimant
    <3>2. SweepCovers'
      BY <2>1, <2>2, <2>3, <3>1 DEF SweepCovers
    <3> QED BY <2>1, <2>3, <3>1, <3>2, <1>g, <1>t
  <2>4. CASE rown' = rown \cup {e} /\ UNCHANGED left
    <3>1. Shrinks /\ Occupied(rkey)' = Occupied(rkey)
      <4>1. UNCHANGED <<dev, left, rkey>>
        BY <2>1, <2>4
      <4> QED BY <4>1, <1>0, NoneAdded DEF devVars, Occupied
    <3>2. SweepCovers'
      BY <2>1, <2>2, <2>4, <3>1 DEF SweepCovers
    <3> QED BY <2>1, <2>4, <3>1, <3>2, <1>g, <1>t
  <2> QED BY <2>1, <2>3, <2>4
<1>5. CASE FinalizeDelete(e)
  <2>1. /\ rpc \in {"claims", "finalize"} /\ e \in rown /\ DeleteManagedConfiguration(e)
        /\ rpc' = "finalize" /\ rown' = rown \ {e}
        /\ UNCHANGED <<hist, queue, fence, rkey, robj, rfresh, rtodo, wpc, wkey, wtodo>>
    BY <1>5 DEF FinalizeDelete, apiVars, wVars
  <2>2. robj.deleting /\ Occupied(rkey) \subseteq rtodo \cup rown
    BY <2>1, <1>0 DEF SweepCovers
  <2>3. Shrinks /\ Occupied(rkey)' \subseteq Occupied(rkey) \ {e}
    BY <2>1, <1>0, Wiped
  <2>4. SweepCovers'
    BY <2>1, <2>2, <2>3 DEF SweepCovers
  <2> QED BY <2>1, <2>3, <2>4, <1>g, <1>t
<1>6. CASE FinalizeFails(e)
  <2>1. /\ rpc \in {"claims", "finalize"} /\ DeleteManagedFails(e)
        /\ rpc' = "idle" /\ rkey' = NoRouter /\ fence' = [fence EXCEPT ![rkey] = Nobody]
        /\ queue' = queue \cup {rkey}
        /\ rtodo' = {} /\ rown' = {} /\ robj' = Absent /\ rfresh' = FALSE
        /\ UNCHANGED <<hist, wVars>>
    BY <1>6 DEF FinalizeFails, Leave
  <2>2. rkey \in Routers /\ fence[rkey] \notin Workers
    BY <2>1, <1>n, <1>0 DEF FenceHeld
  <2>3. Shrinks
    BY <2>1, <1>0, PartlyWiped
  <2>4. Records'
    BY <2>1, <2>3, <1>0, QuietRecords
  <2>5. queue' \in SUBSET Routers /\ hist' \in [Routers -> Seq(Version) \ {<<>>}]
    BY <2>1, <2>2, <1>t, <1>0 DEF TypeOK
  <2>6. TypeOK' /\ Passes'
    BY <2>1, <2>2, <2>3, <2>5, <1>0, EndPass DEF Shrinks
  <2> QED BY <2>4, <2>6 DEF LifecycleInv, Records, Passes
<1> QED BY <1>1, <1>2, <1>3, <1>4, <1>5, <1>6

--------------------------------------------------------------------------------
(* The pass ends with a write of the object it read, or without one. *)
LEMMA EndWithStore ==
  ASSUME LifecycleInv, rfresh, NEW v \in Version, Store(rkey, v),
         \/ robj.exists /\ robj.fin => v.exists /\ v.fin /\ robj.applied \subseteq v.applied
         \/ MayDrop(rkey, v),
         rpc' = "idle", rkey' = NoRouter, robj' = Absent, rfresh' = FALSE,
         rtodo' \in SUBSET WellFormed, rown' = {}, queue' \in SUBSET Routers,
         \/ fence' = fence
         \/ /\ rpc # "idle" /\ fence[rkey] \notin Workers
            /\ fence' = [fence EXCEPT ![rkey] = Nobody],
         UNCHANGED devVars, UNCHANGED wVars
  PROVE  LifecycleInv'
<1>0. TypeOK /\ Records /\ Passes /\ FenceHeld /\ FreshIsStored
  BY InvParts DEF Passes
<1>1. rkey \in Routers /\ hist[rkey] = <<robj>>
  BY <1>0 DEF FreshIsStored
<1>2. Stored(rkey) = robj
  BY <1>1 DEF Stored
<1>3. Records'
  <2>1. Keeps(rkey, v) \/ MayDrop(rkey, v)
    BY <1>2 DEF Keeps
  <2> QED BY <2>1, <1>0, <1>1, StoreRecords
<1>4. hist' \in [Routers -> Seq(Version) \ {<<>>}]
  BY <1>0, <1>1, StoreHist
<1>5. dev' \in [Endpoints -> SUBSET Entry] /\ left' \in [Endpoints -> SUBSET Entry]
  BY <1>0 DEF TypeOK, devVars
<1>6. TypeOK' /\ Passes'
  BY <1>0, <1>4, <1>5, EndPass
<1> QED BY <1>3, <1>6 DEF LifecycleInv, Records, Passes

LEMMA EndQuietly ==
  ASSUME LifecycleInv, UNCHANGED hist,
         rpc' = "idle", rkey' = NoRouter, robj' = Absent, rfresh' = FALSE,
         rtodo' \in SUBSET WellFormed, rown' = {}, queue' \in SUBSET Routers,
         \/ fence' = fence
         \/ /\ rpc # "idle" /\ fence[rkey] \notin Workers
            /\ fence' = [fence EXCEPT ![rkey] = Nobody],
         UNCHANGED devVars, UNCHANGED wVars
  PROVE  LifecycleInv'
<1>0. TypeOK /\ Records /\ Passes
  BY InvParts
<1>1. Records'
  BY <1>0, NoneAdded, QuietRecords
<1>2. /\ hist' \in [Routers -> Seq(Version) \ {<<>>}]
      /\ dev' \in [Endpoints -> SUBSET Entry] /\ left' \in [Endpoints -> SUBSET Entry]
  BY <1>0 DEF TypeOK, devVars
<1>3. TypeOK' /\ Passes'
  BY <1>0, <1>2, EndPass
<1> QED BY <1>1, <1>3 DEF LifecycleInv, Records, Passes

(* What a pass under the fence may drop: the fence keeps the resource      *)
(* controllers away, and the object it read is the stored one.             *)
LEMMA FreshMayDrop ==
  ASSUME LifecycleInv, rfresh, ~Appliable(robj), NEW v \in Version,
         \A w \in Workers : wpc[w] = "apply" => wkey[w] # rkey,
         Occupied(rkey) # {} =>
           /\ Occupied(rkey) \subseteq v.applied
           /\ robj.exists /\ robj.fin => v.exists /\ v.fin
  PROVE  MayDrop(rkey, v)
<1>1. hist[rkey] = <<robj>>
  BY DEF LifecycleInv, FreshIsStored
<1>2. Len(hist[rkey]) = 1 /\ Stored(rkey) = robj /\ robj \in Versions(rkey)
  BY <1>1 DEF Stored, Versions
<1>3. Occupied(rkey) # {} => robj.exists /\ robj.fin
  BY <1>2, OccupiedRecorded
<1> QED BY <1>2, <1>3 DEF MayDrop

(* The ends of a pass. *)
LEMMA PassEndInv ==
  ASSUME LifecycleInv,
         RecordCurrent \/ Connect \/ ConnectFails \/ FailAfterFence \/ RemoveFinalizer
  PROVE  LifecycleInv'
<1>0. TypeOK /\ Records /\ Passes /\ FenceHeld /\ FreshIsStored /\ SweepCovers
  BY InvParts DEF Passes
<1>n. "router" \notin Workers
  BY LifecycleAssumption
<1>t. /\ robj \in Version /\ rtodo \in SUBSET WellFormed /\ queue \in SUBSET Routers
      /\ robj.spec \in SUBSET Endpoints /\ robj.applied \in SUBSET Endpoints
  BY <1>0 DEF TypeOK, Version
<1>k. rpc # "idle" => rkey \in Routers /\ queue \cup {rkey} \in SUBSET Routers
  BY <1>t, <1>0 DEF FenceHeld
<1>f. rpc \in {"sweep", "claims", "finalize"} =>
        /\ fence[rkey] \notin Workers
        /\ \A w \in Workers : wpc[w] = "apply" => wkey[w] # rkey
  BY <1>n, <1>0 DEF FenceHeld
<1>1. CASE RecordCurrent
  <2> DEFINE v == [robj EXCEPT !.applied = robj.spec]
  <2>1. /\ v \in Version /\ v.exists = robj.exists /\ v.fin = robj.fin /\ v.applied = robj.spec
    BY <1>t DEF Version
  <2>2. /\ rpc = "sweep" /\ rtodo = {} /\ robj.applied # robj.spec
        /\ \/ rfresh /\ Store(rkey, v) /\ Leave(rkey, FALSE)
           \/ /\ rpc' = "failRecorded" /\ FailLocked
              /\ UNCHANGED <<hist, queue, rkey, robj, rfresh>>
        /\ UNCHANGED devVars /\ UNCHANGED wVars
    BY <1>1 DEF RecordCurrent, apiVars
  <2> HIDE DEF v
  <2>3. Occupied(rkey) \subseteq robj.spec
    BY <2>2, <1>0 DEF SweepCovers
  <2>4. CASE rfresh /\ Store(rkey, v) /\ Leave(rkey, FALSE)
    <3>1. MayDrop(rkey, v)
      <4>1. ~Appliable(robj)
        BY <2>2 DEF Appliable
      <4> QED BY <2>1, <2>2, <2>3, <2>4, <4>1, <1>f, FreshMayDrop
    <3>2. /\ rpc' = "idle" /\ rkey' = NoRouter /\ fence' = [fence EXCEPT ![rkey] = Nobody]
          /\ queue' = queue /\ rtodo' = {} /\ rown' = {} /\ robj' = Absent /\ rfresh' = FALSE
      BY <2>4 DEF Leave
    <3> QED BY <2>1, <2>2, <2>4, <3>1, <3>2, <1>f, <1>t, EndWithStore
  <2>5. CASE /\ rpc' = "failRecorded" /\ FailLocked
             /\ UNCHANGED <<hist, queue, rkey, robj, rfresh>>
    BY <2>2, <2>3, <2>5, <1>0, NoneAdded, FailLockedInv DEF wVars
  <2> QED BY <2>2, <2>4, <2>5
<1>2. CASE Connect
  <2> DEFINE v == [robj EXCEPT !.connected = TRUE]
  <2>1. /\ v \in Version /\ v.exists = robj.exists /\ v.fin = robj.fin /\ v.applied = robj.applied
    BY <1>t DEF Version
  <2>2. /\ rpc = "sweep" /\ Leave(rkey, TRUE)
        /\ UNCHANGED hist \/ (rfresh /\ Store(rkey, v))
        /\ UNCHANGED devVars /\ UNCHANGED wVars
    BY <1>2 DEF Connect
  <2> HIDE DEF v
  <2>3. /\ rpc' = "idle" /\ rkey' = NoRouter /\ fence' = [fence EXCEPT ![rkey] = Nobody]
        /\ queue' = queue \cup {rkey}
        /\ rtodo' = {} /\ rown' = {} /\ robj' = Absent /\ rfresh' = FALSE
    BY <2>2 DEF Leave
  <2>4. CASE UNCHANGED hist
    BY <2>2, <2>3, <2>4, <1>f, <1>k, EndQuietly
  <2>5. CASE rfresh /\ Store(rkey, v)
    BY <2>1, <2>2, <2>3, <2>5, <1>f, <1>k, EndWithStore
  <2> QED BY <2>2, <2>4, <2>5
<1>3. CASE ConnectFails
  <2>1. /\ rpc = "sweep" /\ rpc' = "fail" /\ FailLocked
        /\ UNCHANGED <<hist, queue, rkey, robj, rfresh, wpc, wkey, wtodo>> /\ UNCHANGED devVars
    BY <1>3 DEF ConnectFails, apiVars, wVars, devVars
  <2> QED BY <2>1, <1>0, NoneAdded, FailLockedInv
<1>4. CASE FailAfterFence
  <2> DEFINE history == IF rpc = "failRecorded" THEN robj.spec ELSE robj.applied
             v == [robj EXCEPT !.connected = FALSE, !.applied = history]
  <2>1. /\ v \in Version /\ v.exists = robj.exists /\ v.fin = robj.fin /\ v.applied = history
    BY <1>t DEF Version
  <2>2. /\ rpc \in {"fail", "failRecorded"}
        /\ (rfresh /\ Store(rkey, v)) \/ UNCHANGED hist
        /\ rpc' = "idle" /\ rkey' = NoRouter /\ robj' = Absent /\ rfresh' = FALSE
        /\ queue' = queue \cup {rkey}
        /\ UNCHANGED <<fence, rtodo, rown>> /\ UNCHANGED devVars /\ UNCHANGED wVars
    BY <1>4 DEF FailAfterFence
  <2> HIDE DEF v
  <2>3. rown' = {} /\ rtodo' \in SUBSET WellFormed /\ queue' \in SUBSET Routers /\ fence' = fence
    BY <2>2, <1>t, <1>k, <1>0 DEF SweepCovers
  <2>4. CASE UNCHANGED hist
    BY <2>2, <2>3, <2>4, EndQuietly
  <2>5. CASE rfresh /\ Store(rkey, v) /\ rpc = "fail"
    <3>1. v.applied = robj.applied
      BY <2>1, <2>5
    <3> QED BY <2>1, <2>2, <2>3, <2>5, <3>1, EndWithStore
  <2>6. CASE rfresh /\ Store(rkey, v) /\ rpc = "failRecorded"
    <3>1. v.applied = robj.spec
      BY <2>1, <2>6
    <3>2. /\ robj.applied # robj.spec /\ Occupied(rkey) \subseteq robj.spec
          /\ \A w \in Workers : wpc[w] = "apply" => wkey[w] # rkey
      BY <2>6, <1>0 DEF SweepCovers
    <3>3. ~Appliable(robj)
      BY <3>2 DEF Appliable
    <3>4. MayDrop(rkey, v)
      BY <2>1, <2>6, <3>1, <3>2, <3>3, FreshMayDrop
    <3> QED BY <2>1, <2>2, <2>3, <2>6, <3>4, EndWithStore
  <2> QED BY <2>2, <2>4, <2>5, <2>6
<1>5. CASE RemoveFinalizer
  <2> DEFINE u == [robj EXCEPT !.fin = FALSE]
             v == Finalized(u)
  <2>1. u \in Version /\ v \in Version
    <3>1. u \in Version
      BY <1>t DEF Version
    <3> QED BY <3>1, VersionTypes
  <2>2. /\ rpc \in {"claims", "finalize"} /\ rtodo = {} /\ rown = {}
        /\ \/ rfresh /\ Store(rkey, v) /\ Leave(rkey, FALSE)
           \/ Leave(rkey, TRUE) /\ UNCHANGED hist
        /\ UNCHANGED devVars /\ UNCHANGED wVars
    BY <1>5 DEF RemoveFinalizer
  <2> HIDE DEF u, v
  <2>3. robj.deleting /\ Occupied(rkey) = {}
    BY <2>2, <1>0 DEF SweepCovers
  <2>4. CASE rfresh /\ Store(rkey, v) /\ Leave(rkey, FALSE)
    <3>1. MayDrop(rkey, v)
      <4>1. ~Appliable(robj)
        BY <2>3 DEF Appliable
      <4> QED BY <2>1, <2>2, <2>3, <2>4, <4>1, <1>f, FreshMayDrop
    <3>2. /\ rpc' = "idle" /\ rkey' = NoRouter /\ fence' = [fence EXCEPT ![rkey] = Nobody]
          /\ queue' = queue /\ rtodo' = {} /\ rown' = {} /\ robj' = Absent /\ rfresh' = FALSE
      BY <2>4 DEF Leave
    <3> QED BY <2>1, <2>2, <2>4, <3>1, <3>2, <1>f, <1>t, EndWithStore
  <2>5. CASE Leave(rkey, TRUE) /\ UNCHANGED hist
    <3>1. /\ rpc' = "idle" /\ rkey' = NoRouter /\ fence' = [fence EXCEPT ![rkey] = Nobody]
          /\ queue' = queue \cup {rkey}
          /\ rtodo' = {} /\ rown' = {} /\ robj' = Absent /\ rfresh' = FALSE
      BY <2>5 DEF Leave
    <3> QED BY <2>2, <2>5, <3>1, <1>f, <1>k, EndQuietly
  <2> QED BY <2>2, <2>4, <2>5
<1> QED BY <1>1, <1>2, <1>3, <1>4, <1>5

--------------------------------------------------------------------------------
(* A resource controller takes the fence of router r. *)
LEMMA WorkerLockInv ==
  ASSUME LifecycleInv, NEW w \in Workers, NEW r \in Routers, NEW mode \in {"apply", "cleanup"},
         NEW endpoints \in SUBSET Endpoints, WorkerLock(w, r, mode, endpoints),
         mode = "cleanup" =>
           \A e \in Endpoints : <<r, w>> \in dev[e] \ left[e] => e \in endpoints,
         mode = "apply" =>
           /\ endpoints \cap Malformed = {}
           /\ \A v \in Versions(r) : v.exists /\ v.fin /\ endpoints \subseteq v.applied
           /\ routerHasDurableCurrentEndpoints(Cached(r))
  PROVE  LifecycleInv'
<1>0. TypeOK /\ Records /\ FenceHeld /\ FreshIsStored /\ SweepCovers
  BY InvParts DEF Passes
<1>t. /\ fence \in [Routers -> Workers \cup {"router", Nobody}]
      /\ wpc \in [Workers -> {"idle", "apply", "cleanup"}]
      /\ wkey \in [Workers -> Routers \cup {NoRouter}]
      /\ wtodo \in [Workers -> SUBSET Endpoints]
  BY <1>0 DEF TypeOK
<1>n. "router" \notin Workers /\ Nobody \notin Workers /\ Nobody # "router"
  BY LifecycleAssumption
<1>1. /\ wpc[w] = "idle" /\ fence[r] = Nobody
      /\ fence' = [fence EXCEPT ![r] = w] /\ wpc' = [wpc EXCEPT ![w] = mode]
      /\ wkey' = [wkey EXCEPT ![w] = r] /\ wtodo' = [wtodo EXCEPT ![w] = endpoints]
      /\ UNCHANGED <<hist, queue, dev, left, rpc, rkey, robj, rfresh, rtodo, rown>>
  BY DEF WorkerLock, apiVars, devVars, rVars
<1>2. /\ fence' \in [Routers -> Workers \cup {"router", Nobody}] /\ fence'[r] = w
      /\ \A q \in Routers \ {r} : fence'[q] = fence[q]
  BY <1>1, <1>t
<1>3. /\ wpc' \in [Workers -> {"idle", "apply", "cleanup"}]
      /\ wkey' \in [Workers -> Routers \cup {NoRouter}]
      /\ wtodo' \in [Workers -> SUBSET Endpoints]
      /\ wpc'[w] = mode /\ wkey'[w] = r /\ wtodo'[w] = endpoints
      /\ \A u \in Workers \ {w} : wpc'[u] = wpc[u] /\ wkey'[u] = wkey[u] /\ wtodo'[u] = wtodo[u]
  BY <1>1, <1>t
<1>4. TypeOK'
  BY <1>0, <1>1, <1>2, <1>3 DEF TypeOK
<1>5. FenceHeld'
  <2>1. ASSUME NEW u \in Workers, wpc'[u] # "idle"
        PROVE  wkey'[u] \in Routers /\ fence'[wkey'[u]] = u
    <3>1. CASE u = w
      BY <3>1, <1>2, <1>3
    <3>2. CASE u # w
      <4>1. wkey[u] \in Routers /\ fence[wkey[u]] = u /\ wkey'[u] = wkey[u]
        BY <2>1, <3>2, <1>0, <1>3 DEF FenceHeld
      <4>2. wkey[u] # r
        BY <4>1, <1>1, <1>n
      <4> QED BY <4>1, <4>2, <1>2
    <3> QED BY <3>1, <3>2
  <2>2. rpc \in {"sweep", "wipe", "claims", "finalize"} => fence'[rkey] = "router"
    <3>1. rpc \in {"sweep", "wipe", "claims", "finalize"} => rkey \in Routers /\ fence[rkey] = "router"
      BY <1>0 DEF FenceHeld
    <3> QED BY <3>1, <1>1, <1>2, <1>n
  <2> QED BY <2>1, <2>2, <1>0, <1>1 DEF FenceHeld
<1>6. FreshIsStored'
  BY <1>0, <1>1 DEF FreshIsStored
<1>7. SweepCovers'
  <2>1. Occupied(rkey)' = Occupied(rkey)
    BY <1>1 DEF Occupied
  <2>2. ASSUME rpc = "failRecorded", rfresh, NEW u \in Workers, wpc'[u] = "apply"
        PROVE  wkey'[u] # rkey
    <3>1. CASE u # w
      BY <2>2, <3>1, <1>0, <1>3 DEF SweepCovers
    <3>2. CASE u = w
      <4>1. hist[rkey] = <<robj>> /\ robj.applied # robj.spec
        BY <2>2, <1>0 DEF FreshIsStored, SweepCovers
      <4>2. Cached(rkey) = robj
        BY <4>1 DEF Cached
      <4>3. Cached(r).applied = Cached(r).spec /\ wkey'[u] = r
        BY <2>2, <3>2, <1>3 DEF routerHasDurableCurrentEndpoints
      <4> QED BY <4>1, <4>2, <4>3
    <3> QED BY <3>1, <3>2
  <2> QED BY <2>1, <2>2, <1>0, <1>1 DEF SweepCovers
<1>8. EntryRecorded' /\ HistoryKept' /\ NothingMalformed'
  BY <1>0, <1>1 DEF Records, EntryRecorded, Versions, HistoryKept, Appliable, NothingMalformed
<1>9. CleanupReaches'
  <2> SUFFICES ASSUME NEW u \in Workers, wpc'[u] = "cleanup", NEW e \in Endpoints,
                      <<wkey'[u], u>> \in dev[e] \ left[e]
               PROVE  e \in wtodo'[u]
    BY <1>1 DEF CleanupReaches
  <2>1. CASE u = w
    BY <2>1, <1>3
  <2>2. CASE u # w
    BY <2>2, <1>0, <1>3 DEF Records, CleanupReaches
  <2> QED BY <2>1, <2>2
<1>10. ApplyCovered'
  <2> SUFFICES ASSUME NEW u \in Workers, wpc'[u] = "apply", NEW k, k = wkey'[u]
               PROVE  /\ wtodo'[u] \cap Malformed = {}
                      /\ \A v \in Versions(k) : v.exists /\ v.fin /\ wtodo'[u] \subseteq v.applied
    <3>1. hist' = hist
      BY <1>1
    <3> QED BY <3>1 DEF ApplyCovered, Versions
  <2>1. CASE u = w
    BY <2>1, <1>3
  <2>2. CASE u # w
    BY <2>2, <1>0, <1>3 DEF Records, ApplyCovered
  <2> QED BY <2>1, <2>2
<1> QED BY <1>4, <1>5, <1>6, <1>7, <1>8, <1>9, <1>10 DEF LifecycleInv

(* withRouterConnections begins. *)
LEMMA WorkerBeginInv ==
  ASSUME LifecycleInv, NEW w \in Workers, NEW r \in Routers,
         BeginApply(w, r) \/ BeginCleanup(w, r)
  PROVE  LifecycleInv'
<1>0. TypeOK /\ HistoryKept
  BY InvParts DEF Records
<1>h. /\ Cached(r) \in Version /\ Cached(r) \in Versions(r) /\ Cached(r) = hist[r][1]
      /\ Len(hist[r]) \in Nat \ {0} /\ DOMAIN hist[r] = 1 .. Len(hist[r])
      /\ Cached(r).spec \in SUBSET Endpoints /\ Cached(r).applied \in SUBSET Endpoints
  <2>1. /\ Cached(r) \in Version /\ Cached(r) \in Versions(r) /\ Cached(r) = hist[r][1]
        /\ Len(hist[r]) \in Nat \ {0} /\ DOMAIN hist[r] = 1 .. Len(hist[r])
    BY <1>0, HistEnds
  <2> QED BY <2>1 DEF Version
<1>1. CASE BeginApply(w, r)
  <2>1. /\ Cached(r).exists /\ ~Cached(r).deleting /\ Cached(r).fin
        /\ routerHasDurableCurrentEndpoints(Cached(r))
        /\ Cached(r).spec \cap Malformed = {} /\ WorkerLock(w, r, "apply", Cached(r).spec)
    BY <1>1 DEF BeginApply, ensureRouterActive
  <2>2. Appliable(hist[r][1]) /\ Cached(r).applied = Cached(r).spec
    BY <2>1, <1>h DEF Appliable, routerHasDurableCurrentEndpoints
  <2>3. ASSUME NEW v \in Versions(r)
        PROVE  v.exists /\ v.fin /\ Cached(r).spec \subseteq v.applied
    <3>1. PICK i \in DOMAIN hist[r] : v = hist[r][i]
      BY DEF Versions
    <3>2. CASE i = 1
      BY <2>1, <2>2, <3>1, <3>2, <1>h
    <3>3. CASE i # 1
      <4>1. 1 \in DOMAIN hist[r] /\ 1 < i
        BY <3>3, <1>h
      <4>2. hist[r][i].exists /\ hist[r][i].fin /\ hist[r][1].applied \subseteq hist[r][i].applied
        BY <2>2, <4>1, <1>0 DEF HistoryKept
      <4> QED BY <2>2, <3>1, <4>2, <1>h
    <3> QED BY <3>2, <3>3
  <2> QED BY <2>1, <2>3, <1>h, WorkerLockInv
<1>2. CASE BeginCleanup(w, r)
  <2> DEFINE own == {e \in routerCleanupEndpoints(Cached(r)) : <<r, w>> \in dev[e]}
  <2>1. WorkerLock(w, r, "cleanup", own)
    BY <1>2 DEF BeginCleanup
  <2>2. own \in SUBSET Endpoints
    BY <1>h DEF routerCleanupEndpoints
  <2>3. ASSUME NEW e \in Endpoints, <<r, w>> \in dev[e] \ left[e]
        PROVE  e \in own
    <3>1. e \in Occupied(r)
      BY <2>3 DEF Occupied
    <3>2. e \notin Malformed /\ e \in Cached(r).applied
      BY <3>1, <1>h, OccupiedRecorded
    <3> QED BY <2>3, <3>2 DEF routerCleanupEndpoints
  <2> HIDE DEF own
  <2> QED BY <2>1, <2>2, <2>3, WorkerLockInv
<1> QED BY <1>1, <1>2

(* withRouterConnections serves an endpoint or ends. *)
LEMMA WorkerWorkInv ==
  ASSUME LifecycleInv, NEW w \in Workers,
         WorkerLeave(w) \/ \E e \in Endpoints : ApplyEntry(w, e) \/ DeleteEntry(w, e)
  PROVE  LifecycleInv'
<1>0. TypeOK /\ Records /\ Passes /\ FenceHeld /\ FreshIsStored /\ SweepCovers
  BY InvParts DEF Passes
<1>r. EntryRecorded /\ CleanupReaches /\ HistoryKept /\ ApplyCovered /\ NothingMalformed
  BY <1>0 DEF Records
<1>t. /\ fence \in [Routers -> Workers \cup {"router", Nobody}]
      /\ wpc \in [Workers -> {"idle", "apply", "cleanup"}]
      /\ wkey \in [Workers -> Routers \cup {NoRouter}]
      /\ wtodo \in [Workers -> SUBSET Endpoints]
      /\ dev \in [Endpoints -> SUBSET Entry] /\ left \in [Endpoints -> SUBSET Entry]
  BY <1>0 DEF TypeOK
<1>n. "router" \notin Workers
  BY LifecycleAssumption
<1>1. ASSUME NEW e \in Endpoints, ApplyEntry(w, e) PROVE LifecycleInv'
  <2>1. /\ wpc[w] = "apply" /\ e \in wtodo[w]
        /\ dev' = [dev EXCEPT ![e] = dev[e] \cup {<<wkey[w], w>>}]
        /\ left' = [left EXCEPT ![e] = left[e] \ {<<wkey[w], w>>}]
        /\ wtodo' = [wtodo EXCEPT ![w] = wtodo[w] \ {e}]
        /\ UNCHANGED <<hist, queue, fence, rpc, rkey, robj, rfresh, rtodo, rown, wpc, wkey>>
    BY <1>1 DEF ApplyEntry, apiVars, rVars
  <2> DEFINE x == <<wkey[w], w>>
  <2>2. /\ wkey[w] \in Routers /\ fence[wkey[w]] = w /\ e \notin Malformed
        /\ \A v \in Versions(wkey[w]) : v.exists /\ v.fin /\ e \in v.applied
    BY <2>1, <1>r, <1>0 DEF FenceHeld, ApplyCovered
  <2>3. x \in Entry /\ x[1] = wkey[w] /\ x[2] = w
    BY <2>2 DEF Entry
  <2>4. /\ dev'[e] = dev[e] \cup {x} /\ left'[e] = left[e] \ {x}
        /\ \A f \in Endpoints \ {e} : dev'[f] = dev[f] /\ left'[f] = left[f]
        /\ wtodo'[w] = wtodo[w] \ {e} /\ \A u \in Workers \ {w} : wtodo'[u] = wtodo[u]
    BY <2>1, <1>t
  <2>5. /\ dev' \in [Endpoints -> SUBSET Entry] /\ left' \in [Endpoints -> SUBSET Entry]
        /\ wtodo' \in [Workers -> SUBSET Endpoints]
    BY <2>1, <2>3, <1>t
  <2>6. TypeOK'
    BY <2>1, <2>5, <1>0 DEF TypeOK
  <2>v. \A q : Versions(q)' = Versions(q)
    BY <2>1 DEF Versions
  <2>7. EntryRecorded'
    <3> SUFFICES ASSUME NEW f \in Endpoints, NEW y \in dev'[f] \ left'[f], NEW v \in Versions(y[1])
                 PROVE  v.exists /\ v.fin /\ f \in v.applied
      BY <2>v DEF EntryRecorded
    <3>1. CASE f = e /\ y = x
      BY <2>2, <2>3, <3>1
    <3>2. CASE y \in dev[f] \ left[f]
      BY <3>2, <1>r DEF EntryRecorded
    <3> QED BY <3>1, <3>2, <2>4
  <2>8. CleanupReaches'
    <3> SUFFICES ASSUME NEW u \in Workers, wpc[u] = "cleanup", NEW f \in Endpoints,
                        <<wkey[u], u>> \in dev'[f] \ left'[f]
                 PROVE  f \in wtodo'[u]
      BY <2>1 DEF CleanupReaches
    <3>1. u # w
      BY <2>1
    <3>2. <<wkey[u], u>> # x
      BY <3>1
    <3>3. <<wkey[u], u>> \in dev[f] \ left[f]
      BY <2>4, <3>2
    <3> QED BY <2>4, <3>1, <3>3, <1>r DEF CleanupReaches
  <2>9. HistoryKept'
    BY <2>1, <1>r DEF HistoryKept, Appliable
  <2>10. ApplyCovered'
    <3> SUFFICES ASSUME NEW u \in Workers, wpc[u] = "apply", NEW k, k = wkey[u]
                 PROVE  /\ wtodo'[u] \cap Malformed = {}
                        /\ \A v \in Versions(k) : v.exists /\ v.fin /\ wtodo'[u] \subseteq v.applied
      <4>1. wpc' = wpc /\ wkey' = wkey /\ hist' = hist
        BY <2>1
      <4> QED BY <4>1 DEF ApplyCovered, Versions
    <3>1. wtodo'[u] \subseteq wtodo[u]
      BY <2>4
    <3> QED BY <3>1, <1>r DEF ApplyCovered
  <2>11. NothingMalformed'
    BY <2>2, <2>4, <1>r, LifecycleAssumption DEF NothingMalformed
  <2>12. FenceHeld' /\ FreshIsStored'
    BY <2>1, <1>0 DEF FenceHeld, FreshIsStored
  <2>13. wkey[w] # rkey => Occupied(rkey)' \subseteq Occupied(rkey)
    <3> SUFFICES ASSUME wkey[w] # rkey, NEW f \in Endpoints, NEW y \in dev'[f] \ left'[f], y[1] = rkey
                 PROVE  y \in dev[f] \ left[f]
      BY <2>1 DEF Occupied
    <3>1. y # x
      BY <2>3
    <3> QED BY <2>4, <3>1
  <2>14. SweepCovers'
    <3>1. rpc \in {"sweep", "wipe", "claims", "finalize"} => wkey[w] # rkey
      BY <2>2, <1>n, <1>0 DEF FenceHeld
    <3>2. rpc = "failRecorded" /\ rfresh => wkey[w] # rkey
      BY <2>1, <1>0 DEF SweepCovers
    <3> QED BY <2>1, <2>13, <3>1, <3>2, <1>0 DEF SweepCovers
  <2> QED BY <2>6, <2>7, <2>8, <2>9, <2>10, <2>11, <2>12, <2>14 DEF LifecycleInv
<1>2. ASSUME NEW e \in Endpoints, DeleteEntry(w, e) PROVE LifecycleInv'
  <2>1. /\ wpc[w] = "cleanup" /\ e \in wtodo[w]
        /\ dev' = [dev EXCEPT ![e] = dev[e] \ {<<wkey[w], w>>}]
        /\ left' = [left EXCEPT ![e] = left[e] \ {<<wkey[w], w>>}]
        /\ wtodo' = [wtodo EXCEPT ![w] = wtodo[w] \ {e}]
        /\ UNCHANGED <<hist, queue, fence, rpc, rkey, robj, rfresh, rtodo, rown, wpc, wkey>>
    BY <1>2 DEF DeleteEntry, apiVars, rVars
  <2> DEFINE x == <<wkey[w], w>>
  <2>2. /\ dev'[e] = dev[e] \ {x} /\ left'[e] = left[e] \ {x}
        /\ \A f \in Endpoints \ {e} : dev'[f] = dev[f] /\ left'[f] = left[f]
        /\ wtodo'[w] = wtodo[w] \ {e} /\ \A u \in Workers \ {w} : wtodo'[u] = wtodo[u]
    BY <2>1, <1>t
  <2>3. /\ dev' \in [Endpoints -> SUBSET Entry] /\ left' \in [Endpoints -> SUBSET Entry]
        /\ wtodo' \in [Workers -> SUBSET Endpoints]
    BY <2>1, <1>t
  <2>4. TypeOK'
    BY <2>1, <2>3, <1>0 DEF TypeOK
  <2>5. Shrinks
    BY <2>2, <2>3 DEF Shrinks
  <2>6. Passes'
    BY <2>1, <2>5, <1>0, SamePass
  <2>v. \A q : Versions(q)' = Versions(q)
    BY <2>1 DEF Versions
  <2>7. EntryRecorded'
    BY <2>5, <2>v, <1>r DEF EntryRecorded, Shrinks
  <2>8. CleanupReaches'
    <3> SUFFICES ASSUME NEW u \in Workers, wpc[u] = "cleanup", NEW f \in Endpoints,
                        <<wkey[u], u>> \in dev'[f] \ left'[f]
                 PROVE  f \in wtodo'[u]
      BY <2>1 DEF CleanupReaches
    <3>1. f \in wtodo[u]
      BY <2>5, <1>r DEF CleanupReaches, Shrinks
    <3>2. u = w => f # e
      BY <2>2
    <3> QED BY <2>2, <3>1, <3>2
  <2>9. HistoryKept'
    BY <2>1, <1>r DEF HistoryKept, Appliable
  <2>10. ApplyCovered'
    <3> SUFFICES ASSUME NEW u \in Workers, wpc[u] = "apply", NEW k, k = wkey[u]
                 PROVE  /\ wtodo'[u] \cap Malformed = {}
                        /\ \A v \in Versions(k) : v.exists /\ v.fin /\ wtodo'[u] \subseteq v.applied
      <4>1. wpc' = wpc /\ wkey' = wkey /\ hist' = hist
        BY <2>1
      <4> QED BY <4>1 DEF ApplyCovered, Versions
    <3>1. wtodo'[u] \subseteq wtodo[u]
      BY <2>2
    <3> QED BY <3>1, <1>r DEF ApplyCovered
  <2>11. NothingMalformed'
    BY <2>5, <1>r, LifecycleAssumption DEF NothingMalformed, Shrinks
  <2> QED BY <2>4, <2>6, <2>7, <2>8, <2>9, <2>10, <2>11 DEF LifecycleInv, Passes
<1>3. CASE WorkerLeave(w)
  <2>1. /\ wpc[w] # "idle" /\ wpc' = [wpc EXCEPT ![w] = "idle"]
        /\ wkey' = [wkey EXCEPT ![w] = NoRouter] /\ wtodo' = [wtodo EXCEPT ![w] = {}]
        /\ fence' = [fence EXCEPT ![wkey[w]] = Nobody]
        /\ UNCHANGED <<hist, queue, dev, left, rpc, rkey, robj, rfresh, rtodo, rown>>
    BY <1>3 DEF WorkerLeave, apiVars, devVars, rVars
  <2>2. wkey[w] \in Routers /\ fence[wkey[w]] = w
    BY <2>1, <1>0 DEF FenceHeld
  <2>3. /\ fence' \in [Routers -> Workers \cup {"router", Nobody}]
        /\ \A q \in Routers \ {wkey[w]} : fence'[q] = fence[q]
    BY <2>1, <2>2, <1>t
  <2>4. /\ wpc' \in [Workers -> {"idle", "apply", "cleanup"}]
        /\ wkey' \in [Workers -> Routers \cup {NoRouter}]
        /\ wtodo' \in [Workers -> SUBSET Endpoints] /\ wpc'[w] = "idle"
        /\ \A u \in Workers \ {w} : wpc'[u] = wpc[u] /\ wkey'[u] = wkey[u] /\ wtodo'[u] = wtodo[u]
    BY <2>1, <1>t
  <2>5. TypeOK'
    BY <2>1, <2>3, <2>4, <1>0 DEF TypeOK
  <2>6. FenceHeld'
    <3>1. ASSUME NEW u \in Workers, wpc'[u] # "idle"
          PROVE  wkey'[u] \in Routers /\ fence'[wkey'[u]] = u
      <4>1. u # w /\ wkey[u] \in Routers /\ fence[wkey[u]] = u /\ wkey'[u] = wkey[u]
        BY <3>1, <2>4, <1>0 DEF FenceHeld
      <4> QED BY <4>1, <2>2, <2>3
    <3>2. rpc \in {"sweep", "wipe", "claims", "finalize"} => fence'[rkey] = "router"
      <4>1. rpc \in {"sweep", "wipe", "claims", "finalize"} => rkey \in Routers /\ fence[rkey] = "router"
        BY <1>0 DEF FenceHeld
      <4> QED BY <4>1, <2>2, <2>3, <1>n
    <3> QED BY <3>1, <3>2, <2>1, <1>0 DEF FenceHeld
  <2>7. FreshIsStored'
    BY <2>1, <1>0 DEF FreshIsStored
  <2>8. SweepCovers'
    <3>1. Occupied(rkey)' = Occupied(rkey)
      BY <2>1 DEF Occupied
    <3>2. \A u \in Workers : wpc'[u] = "apply" => wpc[u] = "apply" /\ wkey'[u] = wkey[u]
      BY <2>4
    <3> QED BY <3>1, <3>2, <2>1, <1>0 DEF SweepCovers
  <2>9. EntryRecorded' /\ HistoryKept' /\ NothingMalformed'
    BY <2>1, <1>r DEF EntryRecorded, Versions, HistoryKept, Appliable, NothingMalformed
  <2>10. CleanupReaches'
    <3> SUFFICES ASSUME NEW u \in Workers, wpc'[u] = "cleanup", NEW e \in Endpoints,
                        <<wkey'[u], u>> \in dev[e] \ left[e]
                 PROVE  e \in wtodo'[u]
      BY <2>1 DEF CleanupReaches
    <3> QED BY <2>4, <1>r DEF CleanupReaches
  <2>11. ApplyCovered'
    <3> SUFFICES ASSUME NEW u \in Workers, wpc'[u] = "apply", NEW k, k = wkey'[u]
                 PROVE  /\ wtodo'[u] \cap Malformed = {}
                        /\ \A v \in Versions(k) : v.exists /\ v.fin /\ wtodo'[u] \subseteq v.applied
      <4>1. hist' = hist
        BY <2>1
      <4> QED BY <4>1 DEF ApplyCovered, Versions
    <3> QED BY <2>4, <1>r DEF ApplyCovered
  <2> QED BY <2>5, <2>6, <2>7, <2>8, <2>9, <2>10, <2>11 DEF LifecycleInv
<1> QED BY <1>1, <1>2, <1>3

--------------------------------------------------------------------------------
(* The invariant holds of every reachable state: whatever users, the       *)
(* watch, the router controller, the resource controllers and restarts do. *)
THEOREM LifecycleInvariant == LifecycleSpec => []LifecycleInv
<1>1. LifecycleInv /\ [LifecycleNext]_vars => LifecycleInv'
  <2> SUFFICES ASSUME LifecycleInv, [LifecycleNext]_vars PROVE LifecycleInv'
    OBVIOUS
  <2>1. CASE UserStep
    BY <2>1, UserInv DEF UserStep
  <2>2. CASE Restart
    BY <2>2, EnvironmentInv
  <2>3. ASSUME NEW r \in Routers, Deliver(r) \/ Wake(r) \/ ReconcileStep(r)
        PROVE  LifecycleInv'
    BY <2>3, EnvironmentInv, ReconcileInv
  <2>4. CASE LockedStep
    BY <2>4, LockInv, EndpointInv, PassEndInv DEF LockedStep
  <2>5. ASSUME NEW w \in Workers, WorkerStep(w) PROVE LifecycleInv'
    BY <2>5, WorkerBeginInv, WorkerWorkInv DEF WorkerStep
  <2>6. CASE UNCHANGED vars
    <3>1. queue' = queue /\ queue \in SUBSET Routers
      BY <2>6, InvParts DEF vars, TypeOK
    <3>2. UNCHANGED <<hist, dev, left, fence, rpc, rkey, robj, rfresh, rtodo, rown, wpc, wkey, wtodo>>
      BY <2>6 DEF vars
    <3> QED BY <3>1, <3>2, ApiQuiet
  <2> QED BY <2>1, <2>2, <2>3, <2>4, <2>5, <2>6 DEF LifecycleNext
<1> QED BY <1>1, LifecycleInitInv, PTL DEF LifecycleSpec

(* Every variable keeps its type. *)
THEOREM LifecycleTypes == LifecycleSpec => []TypeOK
<1>1. LifecycleInv => TypeOK
  BY DEF LifecycleInv
<1> QED BY <1>1, LifecycleInvariant, PTL

(* An entry on a device that was not left to another claimant is recorded  *)
(* by every version of its router, from the cached to the stored one, and  *)
(* each of them has the finalizer.                                         *)
THEOREM EntriesAreRecorded == LifecycleSpec => []EntryRecorded
<1>1. LifecycleInv => EntryRecorded
  BY DEF LifecycleInv
<1> QED BY <1>1, LifecycleInvariant, PTL

(* A clean-up through routerCleanupEndpoints visits every device that has  *)
(* an entry of its resource controller.                                    *)
THEOREM CleanupReachesAll == LifecycleSpec => []CleanupReaches
<1>1. LifecycleInv => CleanupReaches
  BY DEF LifecycleInv
<1> QED BY <1>1, LifecycleInvariant, PTL

(* While a resource controller writes through a router, the stored object  *)
(* keeps the finalizer and the record of what is still to be written.      *)
THEOREM ApplyingIsRecorded == LifecycleSpec => []ApplyingRecorded
<1>1. LifecycleInv => ApplyingRecorded
  <2> SUFFICES ASSUME LifecycleInv, NEW w \in Workers, wpc[w] = "apply"
               PROVE  Stored(wkey[w]).fin /\ wtodo[w] \subseteq Stored(wkey[w]).applied
    BY DEF ApplyingRecorded
  <2>1. wkey[w] \in Routers /\ TypeOK
    BY DEF LifecycleInv, FenceHeld
  <2>2. Stored(wkey[w]) \in Versions(wkey[w])
    BY <2>1, HistEnds
  <2> QED BY <2>2 DEF LifecycleInv, ApplyCovered
<1> QED BY <1>1, LifecycleInvariant, PTL
================================================================================
