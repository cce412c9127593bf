--------------------------- MODULE RouterFenceProofs ---------------------------
(***************************************************************************)
(* Proofs about the fence registry, for any number of goroutines, routers  *)
(* and entries.  The reference counts are cardinalities of finite sets of  *)
(* goroutines; everything else is first-order reasoning about one step.    *)
(***************************************************************************)
EXTENDS RouterFence, FiniteSetTheorems, TLAPS

(* The goroutines that point to an entry are finitely many. *)
LEMMA ReferrersFinite ==
  \A e : IsFiniteSet(Referrers(e)) /\ Cardinality(Referrers(e)) \in Nat
<1> SUFFICES ASSUME NEW e PROVE IsFiniteSet(Referrers(e)) /\ Cardinality(Referrers(e)) \in Nat
  OBVIOUS
<1>1. Referrers(e) \subseteq Procs
  BY DEF Referrers
<1>2. IsFiniteSet(Referrers(e))
  BY <1>1, FenceAssumption, FS_Subset
<1> QED BY <1>2, FS_CardinalityType

IndInv == TypeOK /\ FenceInv

(* The empty registry satisfies the invariant. *)
LEMMA FenceInitInv == FenceInit => IndInv
<1> SUFFICES ASSUME FenceInit PROVE IndInv
  OBVIOUS
<1> USE FenceAssumption
<1>1. TypeOK
  BY DEF FenceInit, TypeOK, Locations
<1>2. RefsExact
  <2> SUFFICES ASSUME NEW e \in Entries PROVE refs[e] = Cardinality(Referrers(e))
    BY DEF RefsExact
  <2>1. Referrers(e) = {}
    BY DEF FenceInit, Referrers
  <2> QED BY <2>1, FS_EmptySet DEF FenceInit
<1>3. OneEntryPerKey /\ EntriesDistinct /\ TokenConserved /\ TokenNotLost
  BY DEF FenceInit, OneEntryPerKey, EntriesDistinct, TokenConserved, TokenNotLost
<1>4. CallsHaveEntries /\ NoIdleEntry
  BY DEF FenceInit, CallsHaveEntries, NoIdleEntry
<1> QED BY <1>1, <1>2, <1>3, <1>4 DEF IndInv, FenceInv

(* The entry just created for a key has its creator as only referrer. *)
LEMMA CreateInv ==
  ASSUME IndInv, NEW p \in Procs, NEW k \in Keys, NEW e \in Entries,
         pc[p] = "idle", Create(p, k, e),
         pc' = [pc EXCEPT ![p] = "waiting"], key' = [key EXCEPT ![p] = k]
  PROVE  IndInv'
<1> USE FenceAssumption
<1>0. /\ TypeOK /\ RefsExact /\ OneEntryPerKey /\ EntriesDistinct
      /\ TokenConserved /\ TokenNotLost /\ CallsHaveEntries /\ NoIdleEntry
  BY DEF IndInv, FenceInv
<1>a. /\ entries[k] = NoEntry
      /\ entries' = [entries EXCEPT ![k] = e]
      /\ token' = [token EXCEPT ![e] = 1]
      /\ refs' = [refs EXCEPT ![e] = 1]
      /\ ent' = [ent EXCEPT ![p] = e]
      /\ \A q \in Procs : ent[q] # e
      /\ \A l \in Keys : entries[l] # e
  BY DEF Create, Unreferenced, Referrers
<1>1. TypeOK'
  BY <1>0, <1>a DEF TypeOK, Locations
<1>2. RefsExact'
  <2> SUFFICES ASSUME NEW f \in Entries PROVE refs'[f] = Cardinality(Referrers(f)')
    BY DEF RefsExact
  <2>1. CASE f = e
    <3>1. Referrers(f)' = {p}
      BY <1>0, <1>a, <2>1 DEF TypeOK, Referrers
    <3> QED BY <3>1, <1>0, <1>a, <2>1, FS_Singleton DEF TypeOK
  <2>2. CASE f # e
    <3>1. Referrers(f)' = Referrers(f)
      BY <1>0, <1>a, <2>2 DEF TypeOK, Referrers, CallsHaveEntries
    <3> QED BY <3>1, <1>0, <1>a, <2>2 DEF TypeOK, RefsExact
  <2> QED BY <2>1, <2>2
<1>3. OneEntryPerKey'
  BY <1>0, <1>a DEF TypeOK, OneEntryPerKey, CallsHaveEntries
<1>4. EntriesDistinct'
  BY <1>0, <1>a DEF TypeOK, EntriesDistinct
<1>5. TokenConserved'
  BY <1>0, <1>a DEF TypeOK, TokenConserved, CallsHaveEntries
<1>6. TokenNotLost'
  BY <1>0, <1>a DEF TypeOK, TokenNotLost, CallsHaveEntries
<1>7. CallsHaveEntries'
  BY <1>0, <1>a DEF TypeOK, CallsHaveEntries
<1>8. NoIdleEntry'
  BY <1>0, <1>a DEF TypeOK, NoIdleEntry, CallsHaveEntries
<1> QED BY <1>1, <1>2, <1>3, <1>4, <1>5, <1>6, <1>7, <1>8 DEF IndInv, FenceInv

(* Joining a registered entry adds one referrer and one to the count. *)
LEMMA JoinInv ==
  ASSUME IndInv, NEW p \in Procs, NEW k \in Keys,
         pc[p] = "idle", Join(p, k),
         pc' = [pc EXCEPT ![p] = "waiting"], key' = [key EXCEPT ![p] = k]
  PROVE  IndInv'
<1> USE FenceAssumption
<1>0. /\ TypeOK /\ RefsExact /\ OneEntryPerKey /\ EntriesDistinct
      /\ TokenConserved /\ TokenNotLost /\ CallsHaveEntries /\ NoIdleEntry
  BY DEF IndInv, FenceInv
<1> DEFINE e == entries[k]
<1>a. /\ e \in Entries
      /\ refs' = [refs EXCEPT ![e] = refs[e] + 1]
      /\ ent' = [ent EXCEPT ![p] = e]
      /\ entries' = entries /\ token' = token
  BY <1>0 DEF Join, TypeOK
<1> HIDE DEF e
<1>1. TypeOK'
  BY <1>0, <1>a DEF TypeOK, Locations
<1>2. RefsExact'
  <2> SUFFICES ASSUME NEW f \in Entries PROVE refs'[f] = Cardinality(Referrers(f)')
    BY DEF RefsExact
  <2>1. CASE f = e
    <3>1. Referrers(f)' = Referrers(f) \cup {p} /\ p \notin Referrers(f)
      BY <1>0, <1>a, <2>1 DEF TypeOK, Referrers, CallsHaveEntries
    <3>2. Cardinality(Referrers(f)') = Cardinality(Referrers(f)) + 1
      BY <3>1, ReferrersFinite, FS_AddElement
    <3> QED BY <3>2, <1>0, <1>a, <2>1 DEF TypeOK, RefsExact
  <2>2. CASE f # e
    <3>1. Referrers(f)' = Referrers(f)
      BY <1>0, <1>a, <2>2 DEF TypeOK, Referrers, CallsHaveEntries
    <3> QED BY <3>1, <1>0, <1>a, <2>2 DEF TypeOK, RefsExact
  <2> QED BY <2>1, <2>2
<1>3. OneEntryPerKey'
  BY <1>0, <1>a DEF TypeOK, OneEntryPerKey, CallsHaveEntries, e
<1>4. EntriesDistinct'
  BY <1>0, <1>a DEF TypeOK, EntriesDistinct
<1>5. TokenConserved'
  BY <1>0, <1>a DEF TypeOK, TokenConserved, CallsHaveEntries
<1>6. TokenNotLost'
  BY <1>0, <1>a DEF TypeOK, TokenNotLost, CallsHaveEntries
<1>7. CallsHaveEntries'
  BY <1>0, <1>a DEF TypeOK, CallsHaveEntries
<1>8. NoIdleEntry'
  BY <1>0, <1>a DEF TypeOK, NoIdleEntry, CallsHaveEntries, e
<1> QED BY <1>1, <1>2, <1>3, <1>4, <1>5, <1>6, <1>7, <1>8 DEF IndInv, FenceInv

(* The channel operations move the token; they touch neither the map nor   *)
(* the counts.                                                             *)
LEMMA ChannelInv ==
  ASSUME IndInv, NEW p \in Procs,
         TakeToken(p) \/ ContextDone(p) \/ ReturnToken(p)
  PROVE  IndInv'
<1> USE FenceAssumption
<1>0. /\ TypeOK /\ RefsExact /\ OneEntryPerKey /\ EntriesDistinct
      /\ TokenConserved /\ TokenNotLost /\ CallsHaveEntries /\ NoIdleEntry
  BY DEF IndInv, FenceInv
<1>a. /\ entries' = entries /\ refs' = refs /\ key' = key /\ ent' = ent
      /\ pc[p] # "idle" /\ ent[p] \in Entries
  BY <1>0 DEF TakeToken, ContextDone, ReturnToken, CallsHaveEntries
<1>b. \A f : Referrers(f)' = Referrers(f)
  BY <1>a DEF Referrers
<1>1. TypeOK'
  BY <1>0, <1>a DEF TypeOK, Locations, TakeToken, ContextDone, ReturnToken
<1>2. RefsExact'
  BY <1>0, <1>a, <1>b DEF RefsExact
<1>3. EntriesDistinct' /\ NoIdleEntry'
  BY <1>0, <1>a DEF EntriesDistinct, NoIdleEntry
<1>4. OneEntryPerKey' /\ CallsHaveEntries'
  BY <1>0, <1>a DEF TypeOK, OneEntryPerKey, CallsHaveEntries,
                    TakeToken, ContextDone, ReturnToken
<1>5. TokenConserved'
  <2>1. CASE TakeToken(p)
    BY <1>0, <2>1 DEF TypeOK, TokenConserved, TakeToken, CallsHaveEntries
  <2>2. CASE ContextDone(p)
    BY <1>0, <2>2 DEF TypeOK, TokenConserved, ContextDone, CallsHaveEntries
  <2>3. CASE ReturnToken(p)
    BY <1>0, <1>a, <2>3 DEF TypeOK, TokenConserved, ReturnToken, CallsHaveEntries
  <2> QED BY <2>1, <2>2, <2>3
<1>6. TokenNotLost'
  <2>1. CASE TakeToken(p)
    BY <1>0, <1>a, <2>1 DEF TypeOK, TokenNotLost, TakeToken
  <2>2. CASE ContextDone(p)
    BY <1>0, <2>2 DEF TypeOK, TokenNotLost, ContextDone
  <2>3. CASE ReturnToken(p)
    BY <1>0, <1>a, <2>3 DEF TypeOK, TokenNotLost, ReturnToken
  <2> QED BY <2>1, <2>2, <2>3
<1> QED BY <1>1, <1>2, <1>3, <1>4, <1>5, <1>6 DEF IndInv, FenceInv

(* Dropping a reference: the entry leaves the map only if the count says   *)
(* that no other goroutine points to it.                                   *)
LEMMA ReleaseInv ==
  ASSUME IndInv, NEW p \in Procs, ReleaseReference(p)
  PROVE  IndInv'
<1> USE FenceAssumption
<1>0. /\ TypeOK /\ RefsExact /\ OneEntryPerKey /\ EntriesDistinct
      /\ TokenConserved /\ TokenNotLost /\ CallsHaveEntries /\ NoIdleEntry
  BY DEF IndInv, FenceInv
<1>a. PICK e \in Entries, k \in Keys :
        /\ e = ent[p] /\ k = key[p] /\ entries[k] = e
        /\ pc[p] \in {"returned", "cancelled"}
        /\ refs' = [refs EXCEPT ![e] = refs[e] - 1]
        /\ entries' = IF refs[e] = 1 THEN [entries EXCEPT ![k] = NoEntry] ELSE entries
        /\ pc' = [pc EXCEPT ![p] = "idle"]
        /\ key' = [key EXCEPT ![p] = NoKey]
        /\ ent' = [ent EXCEPT ![p] = NoEntry]
        /\ token' = token
  BY <1>0 DEF ReleaseReference, OneEntryPerKey, CallsHaveEntries
<1>b. /\ Referrers(e)' = Referrers(e) \ {p}
      /\ p \in Referrers(e)
      /\ \A f \in Entries \ {e} : Referrers(f)' = Referrers(f)
  BY <1>0, <1>a DEF TypeOK, Referrers
<1>c. Cardinality(Referrers(e) \ {p}) = Cardinality(Referrers(e)) - 1
  BY <1>b, ReferrersFinite, FS_RemoveElement
<1>d. IsFiniteSet(Referrers(e) \ {p})
  BY ReferrersFinite, FS_Subset
<1>e. refs[e] = 1 => \A q \in Procs \ {p} : ent[q] # e
  <2> SUFFICES ASSUME refs[e] = 1 PROVE Referrers(e) \ {p} = {}
    BY DEF Referrers
  <2>1. Cardinality(Referrers(e) \ {p}) = 0
    BY <1>0, <1>a, <1>c DEF RefsExact
  <2> QED BY <2>1, <1>d, FS_EmptySet
<1>f. refs[e] # 1 => \E q \in Procs \ {p} : ent[q] = e
  <2> SUFFICES ASSUME refs[e] # 1 PROVE Referrers(e) \ {p} # {}
    BY DEF Referrers
  <2>1. Cardinality(Referrers(e) \ {p}) # 0
    BY <1>0, <1>a, <1>c, ReferrersFinite DEF RefsExact
  <2> QED BY <2>1, FS_EmptySet
<1>g. refs[e] \in Nat /\ refs[e] - 1 \in Nat
  BY <1>0, <1>a, <1>c, <1>d, FS_CardinalityType, ReferrersFinite DEF TypeOK, RefsExact
<1>1. TypeOK'
  BY <1>0, <1>a, <1>g DEF TypeOK, Locations
<1>2. RefsExact'
  <2> SUFFICES ASSUME NEW f \in Entries PROVE refs'[f] = Cardinality(Referrers(f)')
    BY DEF RefsExact
  <2>1. CASE f = e
    BY <2>1, <1>0, <1>a, <1>b, <1>c DEF TypeOK, RefsExact
  <2>2. CASE f # e
    BY <2>2, <1>0, <1>a, <1>b DEF TypeOK, RefsExact
  <2> QED BY <2>1, <2>2
<1>3. OneEntryPerKey'
  BY <1>0, <1>a, <1>e DEF TypeOK, OneEntryPerKey, CallsHaveEntries
<1>4. EntriesDistinct'
  BY <1>0, <1>a DEF TypeOK, EntriesDistinct
<1>5. TokenConserved'
  BY <1>0, <1>a DEF TypeOK, TokenConserved, CallsHaveEntries
<1>6. TokenNotLost'
  BY <1>0, <1>a DEF TypeOK, TokenNotLost, CallsHaveEntries
<1>7. CallsHaveEntries'
  BY <1>0, <1>a DEF TypeOK, CallsHaveEntries
<1>8. NoIdleEntry'
  <2> SUFFICES ASSUME NEW l \in Keys
               PROVE  entries'[l] # NoEntry => \E q \in Procs : key'[q] = l
    BY DEF NoIdleEntry
  <2>1. CASE l # k
    BY <2>1, <1>0, <1>a DEF TypeOK, NoIdleEntry
  <2>2. CASE l = k /\ refs[e] = 1
    BY <2>2, <1>0, <1>a DEF TypeOK
  <2>3. CASE l = k /\ refs[e] # 1
    <3>1. PICK q \in Procs \ {p} : ent[q] = e
      BY <2>3, <1>f
    <3>2. key[q] \in Keys /\ entries[key[q]] = e
      BY <3>1, <1>0, <1>a DEF OneEntryPerKey, CallsHaveEntries
    <3>3. key[q] = k
      BY <3>2, <1>0, <1>a DEF EntriesDistinct
    <3> QED BY <3>1, <3>3, <2>3, <1>0, <1>a DEF TypeOK
  <2> QED BY <2>1, <2>2, <2>3
<1> QED BY <1>1, <1>2, <1>3, <1>4, <1>5, <1>6, <1>7, <1>8 DEF IndInv, FenceInv

(* One step of the registry preserves the invariant. *)
LEMMA FenceNextInv == IndInv /\ [FenceNext]_fenceVars => IndInv'
<1> SUFFICES ASSUME IndInv, [FenceNext]_fenceVars PROVE IndInv'
  OBVIOUS
<1>1. CASE UNCHANGED fenceVars
  BY <1>1 DEF fenceVars, IndInv, TypeOK, FenceInv, RefsExact, Referrers, OneEntryPerKey,
              EntriesDistinct, TokenConserved, TokenNotLost, CallsHaveEntries, NoIdleEntry
<1>2. ASSUME NEW p \in Procs, NEW k \in Keys, Acquire(p, k) PROVE IndInv'
  BY <1>2, CreateInv, JoinInv DEF Acquire
<1>3. ASSUME NEW p \in Procs, TakeToken(p) \/ ContextDone(p) \/ ReturnToken(p)
      PROVE  IndInv'
  BY <1>3, ChannelInv
<1>4. ASSUME NEW p \in Procs, ReleaseReference(p) PROVE IndInv'
  BY <1>4, ReleaseInv
<1> QED BY <1>1, <1>2, <1>3, <1>4 DEF FenceNext

(* Type correctness, and the invariant that explains the registry: counts  *)
(* are exact, goroutines on a key share one entry, its token is never lost *)
(* or doubled.  In particular the send in release never blocks.            *)
THEOREM FenceInvariant == FenceSpec => [](TypeOK /\ FenceInv)
<1>1. FenceSpec => []IndInv
  BY FenceInitInv, FenceNextInv, PTL DEF FenceSpec
<1>2. IndInv => TypeOK /\ FenceInv
  BY DEF IndInv
<1> QED BY <1>1, <1>2, PTL

(* The registry, its entries and the goroutines stay within their types. *)
THEOREM FenceTypes == FenceSpec => []TypeOK
BY FenceInvariant, PTL

(* The fence of a router is held by one goroutine at a time, however often *)
(* its entry is dropped by releaseReference and created again by acquire.  *)
THEOREM FenceMutualExclusion == FenceSpec => []MutualExclusion
<1>1. TypeOK /\ FenceInv => MutualExclusion
  BY DEF FenceInv, MutualExclusion, OneEntryPerKey, TokenConserved, TypeOK
<1> QED BY <1>1, FenceInvariant, PTL

(* The registry keeps no entry that no goroutine uses. *)
THEOREM FenceNoIdleEntry == FenceSpec => []NoIdleEntry
<1>1. TypeOK /\ FenceInv => NoIdleEntry
  BY DEF FenceInv
<1> QED BY <1>1, FenceInvariant, PTL

--------------------------------------------------------------------------------
(* Every step of the registry is a step of the plain mutex, or none. *)
LEMMA FenceStepSimulation ==
  IndInv /\ [FenceNext]_fenceVars => [Mutex!MutexNext]_(Mutex!mutexVars)
<1> SUFFICES ASSUME IndInv, [FenceNext]_fenceVars
             PROVE  [Mutex!MutexNext]_(Mutex!mutexVars)
  OBVIOUS
<1> USE FenceAssumption DEF WantView, OwnerView
<1>0. /\ TypeOK /\ OneEntryPerKey /\ TokenConserved /\ CallsHaveEntries
  BY DEF IndInv, FenceInv
<1>1. CASE UNCHANGED fenceVars
  BY <1>1 DEF fenceVars, Mutex!mutexVars
<1>2. ASSUME NEW p \in Procs, NEW k \in Keys, Acquire(p, k)
      PROVE  Mutex!Request(p, k)
  BY <1>0, <1>2 DEF Acquire, Mutex!Request, TypeOK, CallsHaveEntries
<1>3. ASSUME NEW p \in Procs, TakeToken(p) PROVE Mutex!Enter(p)
  <2>1. \A q \in Procs : pc[q] = "holding" => key[q] # key[p]
    BY <1>0, <1>3 DEF TakeToken, TypeOK, OneEntryPerKey, TokenConserved
  <2>2. key[p] \in Keys
    BY <1>0, <1>3 DEF TakeToken, CallsHaveEntries
  <2> QED BY <1>0, <1>3, <2>1, <2>2 DEF TakeToken, Mutex!Enter, TypeOK
<1>4. ASSUME NEW p \in Procs, ContextDone(p) PROVE Mutex!GiveUp(p)
  BY <1>0, <1>4 DEF ContextDone, Mutex!GiveUp, TypeOK, CallsHaveEntries
<1>5. ASSUME NEW p \in Procs, ReturnToken(p) PROVE Mutex!Leave(p)
  BY <1>0, <1>5 DEF ReturnToken, Mutex!Leave, TypeOK, CallsHaveEntries
<1>6. ASSUME NEW p \in Procs, ReleaseReference(p) PROVE UNCHANGED Mutex!mutexVars
  BY <1>0, <1>6 DEF ReleaseReference, Mutex!mutexVars, TypeOK
<1>7. CASE FenceNext
  BY <1>2, <1>3, <1>4, <1>5, <1>6, <1>7 DEF FenceNext, Mutex!MutexNext
<1> QED BY <1>1, <1>7

(* The reference-counted registry of one-slot channels implements the      *)
(* abstract fence: its callers may reason with RouterMutex alone.          *)
THEOREM FenceRefinement == FenceSpec => ImplementsMutex
<1>1. FenceInit => Mutex!MutexInit
  BY DEF FenceInit, Mutex!MutexInit, WantView, OwnerView
<1>2. FenceSpec => []IndInv
  BY FenceInitInv, FenceNextInv, PTL DEF FenceSpec
<1> QED BY <1>1, <1>2, FenceStepSimulation, PTL DEF FenceSpec, ImplementsMutex, Mutex!MutexSpec
================================================================================
