------------------------- MODULE GeneratedClaimsProofs -------------------------
(***************************************************************************)
(* Proofs about who holds a claim, for any number of direct records and    *)
(* sources, any order of their keys, and a cache that may be any number of *)
(* versions behind.                                                        *)
(***************************************************************************)
EXTENDS GeneratedClaims, SequenceTheorems, TLAPS

(* Of two actors, one wins over the other: nobody waits in a circle. *)
LEMMA BeatsAsymmetric ==
  ASSUME NEW a \in Actors, NEW b \in Actors, Beats(a, b)
  PROVE  ~Beats(b, a)
<1> SUFFICES ASSUME Beats(b, a) PROVE FALSE
  OBVIOUS
<1>1. Key[a] \in Nat /\ Key[b] \in Nat /\ a # b /\ Key[a] # Key[b]
  BY ClaimsAssumption DEF Beats
<1> QED BY <1>1 DEF Beats, generatedOwnershipConflict

(* The cached and the stored versions are the first and the last. *)
LEMMA HistEnds ==
  ASSUME TypeOK
  PROVE  /\ Len(hist) \in Nat \ {0} /\ DOMAIN hist = 1 .. Len(hist)
         /\ 1 \in DOMAIN hist /\ Len(hist) \in DOMAIN hist
         /\ Cached = hist[1] /\ Stored = hist[Len(hist)]
         /\ \A i \in DOMAIN hist : hist[i] \in [Actors -> Record]
<1>1. hist \in Seq([Actors -> Record]) /\ hist # <<>>
  BY DEF TypeOK
<1>2. Len(hist) \in Nat \ {0} /\ DOMAIN hist = 1 .. Len(hist)
  BY <1>1
<1> QED BY <1>1, <1>2 DEF Cached, Stored

(* A write adds a version that differs in one record. *)
LEMMA StoreHist ==
  ASSUME TypeOK, NEW a \in Actors, NEW r \in Record, Store(a, r)
  PROVE  /\ hist' \in Seq([Actors -> Record]) /\ hist' # <<>>
         /\ DOMAIN hist' = 1 .. Len(hist) + 1
         /\ \A i \in DOMAIN hist : hist'[i] = hist[i]
         /\ hist'[Len(hist) + 1][a] = r
         /\ \A b \in Actors \ {a} : hist'[Len(hist) + 1][b] = Stored[b]
         /\ Stored' = hist'[Len(hist) + 1]
<1> DEFINE v == [Stored EXCEPT ![a] = r]
<1>1. /\ Len(hist) \in Nat \ {0} /\ DOMAIN hist = 1 .. Len(hist)
      /\ Stored \in [Actors -> Record] /\ hist \in Seq([Actors -> Record])
  BY HistEnds DEF TypeOK
<1>2. v \in [Actors -> Record] /\ v[a] = r /\ \A b \in Actors \ {a} : v[b] = Stored[b]
  BY <1>1
<1>3. hist' = Append(hist, v)
  BY DEF Store
<1> HIDE DEF v
<1>4. /\ hist' \in Seq([Actors -> Record]) /\ hist' # <<>>
      /\ DOMAIN hist' = 1 .. Len(hist) + 1 /\ Len(hist') = Len(hist) + 1
      /\ \A i \in 1 .. Len(hist) : hist'[i] = hist[i]
      /\ hist'[Len(hist) + 1] = v
  BY <1>1, <1>2, <1>3
<1> QED BY <1>1, <1>2, <1>4 DEF Stored

(* What a write may make of the record of a. *)
May(a, r) ==
  /\ Sound(r)
  /\ \A y \in r.yield : Beats(y, a)
  /\ \A i \in DOMAIN hist : Follows(hist[i][a], r)
  /\ Present(r) =>
       \A i, j \in DOMAIN hist : i < j /\ Present(hist[i][a]) => Present(hist[j][a])
  /\ a \in Sources /\ ~Present(r) =>
       \A i, j \in DOMAIN hist : i < j /\ Present(hist[j][a]) => Present(hist[i][a])

LEMMA StoreOrdered ==
  ASSUME TypeOK, RecordsOrdered, ComesOrGoes,
         NEW a \in Actors, NEW r \in Record, Store(a, r), May(a, r)
  PROVE  RecordsOrdered' /\ ComesOrGoes'
<1> DEFINE n == Len(hist) + 1
<1>1. /\ DOMAIN hist' = 1 .. n
      /\ \A i \in DOMAIN hist : hist'[i] = hist[i]
      /\ hist'[n][a] = r
      /\ \A b \in Actors \ {a} : hist'[n][b] = Stored[b]
  BY StoreHist
<1>2. /\ Len(hist) \in Nat \ {0} /\ DOMAIN hist = 1 .. Len(hist) /\ Len(hist) \in DOMAIN hist
      /\ Stored = hist[Len(hist)]
  BY HistEnds
<1>3. /\ \A i \in DOMAIN hist' : i \in DOMAIN hist \/ i = n
      /\ \A i \in DOMAIN hist : i < n /\ i <= Len(hist) /\ i \in Nat
      /\ n \notin DOMAIN hist /\ n \in Nat /\ Len(hist) < n
  BY <1>1, <1>2
<1> HIDE DEF n
<1>4. RecordsOrdered'
  <2> SUFFICES ASSUME NEW b \in Actors, NEW j \in DOMAIN hist'
               PROVE  /\ Sound(hist'[j][b])
                      /\ \A y \in hist'[j][b].yield : Beats(y, b)
                      /\ \A i \in DOMAIN hist' : i < j => Follows(hist'[i][b], hist'[j][b])
    BY DEF RecordsOrdered, Sound, Follows, Present, Beats
  <2>1. CASE j \in DOMAIN hist
    <3>1. \A i \in DOMAIN hist' : i < j => i \in DOMAIN hist
      BY <2>1, <1>3
    <3> QED BY <3>1, <2>1, <1>1 DEF RecordsOrdered
  <2>2. CASE j = n /\ b = a
    <3>1. \A i \in DOMAIN hist' : i < j => i \in DOMAIN hist
      BY <2>2, <1>3
    <3> QED BY <3>1, <2>2, <1>1 DEF May
  <2>3. CASE j = n /\ b # a
    <3>1. /\ Sound(Stored[b]) /\ \A y \in Stored[b].yield : Beats(y, b)
          /\ \A i \in DOMAIN hist : i < Len(hist) => Follows(hist[i][b], Stored[b])
      BY <1>2 DEF RecordsOrdered
    <3>2. Follows(Stored[b], Stored[b])
      BY <3>1 DEF Follows, Sound
    <3>3. \A i \in DOMAIN hist : i < Len(hist) \/ i = Len(hist)
      BY <1>2, <1>3
    <3>4. \A i \in DOMAIN hist : Follows(hist[i][b], Stored[b])
      BY <3>1, <3>2, <3>3, <1>2
    <3>5. \A i \in DOMAIN hist' : i < j => i \in DOMAIN hist
      BY <2>3, <1>3
    <3> QED BY <3>1, <3>4, <3>5, <2>3, <1>1
  <2> QED BY <2>1, <2>2, <2>3, <1>3
<1>5. ComesOrGoes'
  <2> SUFFICES ASSUME NEW b \in Actors, NEW i \in DOMAIN hist', NEW j \in DOMAIN hist', NEW k \in DOMAIN hist',
                      i < j, j < k
               PROVE  /\ Present(hist'[i][b]) /\ Present(hist'[k][b]) => Present(hist'[j][b])
                      /\ b \in Sources /\ Present(hist'[j][b]) =>
                           Present(hist'[i][b]) \/ Present(hist'[k][b])
    BY DEF ComesOrGoes, Present
  <2>1. i \in DOMAIN hist /\ j \in DOMAIN hist /\ i \in Nat /\ j \in Nat /\ k \in Nat
    BY <1>1, <1>2, <1>3
  <2>2. CASE k \in DOMAIN hist
    BY <2>1, <2>2, <1>1 DEF ComesOrGoes
  <2>3. CASE k = n /\ b = a
    BY <2>1, <2>3, <1>1 DEF May
  <2>4. CASE k = n /\ b # a
    <3>1. hist'[k][b] = Stored[b] /\ hist'[i] = hist[i] /\ hist'[j] = hist[j]
      BY <2>1, <2>4, <1>1
    <3>2. CASE j = Len(hist)
      BY <3>1, <3>2, <1>2
    <3>3. CASE j < Len(hist)
      BY <3>1, <3>3, <2>1, <1>2 DEF ComesOrGoes
    <3> QED BY <3>2, <3>3, <2>1, <1>2, <1>3
  <2> QED BY <2>2, <2>3, <2>4, <1>3
<1> QED BY <1>4, <1>5

(* A holder stays held if the new version keeps it so. *)
LEMMA StoreHeld ==
  ASSUME TypeOK, NEW e \in Actors, Held(e),
         NEW a \in Actors, NEW r \in Record, Store(a, r),
         a = e => /\ r.prepared /\ r.here
                  /\ \/ r.yield = Stored[e].yield /\ r.applied = Stored[e].applied
                     \/ r.yield = {},
         a # e => Stored[e].yield = {}
  PROVE  Held(e)'
<1> DEFINE n == Len(hist) + 1
<1>1. /\ DOMAIN hist' = 1 .. n
      /\ \A i \in DOMAIN hist : hist'[i] = hist[i]
      /\ hist'[n][a] = r
      /\ \A b \in Actors \ {a} : hist'[n][b] = Stored[b]
  BY StoreHist
<1>2. /\ Len(hist) \in DOMAIN hist /\ Stored = hist[Len(hist)]
      /\ Len(hist) \in Nat /\ DOMAIN hist = 1 .. Len(hist)
  BY HistEnds
<1>3. \A i \in DOMAIN hist' : i \in DOMAIN hist \/ i = n
  BY <1>1, <1>2
<1> HIDE DEF n
<1>4. \A i \in DOMAIN hist :
        /\ hist[i][e].prepared /\ hist[i][e].here
        /\ \A b \in Actors \ {e} :
             Appliable(hist[i][b]) => ~generatedClaimHasYieldedTo(hist[i][e], b)
  BY DEF Held, Overlooked
<1>5. /\ hist'[n][e].prepared /\ hist'[n][e].here
      /\ \A b \in Actors \ {e} :
           Appliable(hist'[n][b]) => ~generatedClaimHasYieldedTo(hist'[n][e], b)
  <2>1. CASE a = e
    <3>1. hist'[n][e] = r /\ \A b \in Actors \ {e} : hist'[n][b] = Stored[b]
      BY <2>1, <1>1
    <3>2. \A b \in Actors \ {e} :
            Appliable(Stored[b]) => ~generatedClaimHasYieldedTo(Stored[e], b)
      BY <1>2, <1>4
    <3> QED BY <2>1, <3>1, <3>2 DEF generatedClaimHasYieldedTo
  <2>2. CASE a # e
    <3>1. hist'[n][e] = Stored[e] /\ Stored[e].prepared /\ Stored[e].here
      BY <2>2, <1>1, <1>2, <1>4
    <3> QED BY <2>2, <3>1 DEF generatedClaimHasYieldedTo
  <2> QED BY <2>1, <2>2
<1>6. \A i \in DOMAIN hist' :
        /\ hist'[i][e].prepared /\ hist'[i][e].here
        /\ \A b \in Actors \ {e} :
             Appliable(hist'[i][b]) => ~generatedClaimHasYieldedTo(hist'[i][e], b)
  BY <1>1, <1>3, <1>4, <1>5
<1> QED BY <1>6 DEF Held, Overlooked, Appliable, generatedClaimHasYieldedTo

--------------------------------------------------------------------------------
(* At first there is no record and no entry. *)
LEMMA ClaimsInitInv == ClaimsInit => ClaimsInv
<1> SUFFICES ASSUME ClaimsInit PROVE ClaimsInv
  OBVIOUS
<1> DEFINE first == [a \in Actors |-> Blank(IF a \in Direct THEN "unborn" ELSE "gone")]
<1>1. first \in [Actors -> Record]
  BY DEF Blank, Record
<1>2. hist = <<first>>
  BY DEF ClaimsInit
<1>3. \A a \in Actors : first[a] \in {Blank("unborn"), Blank("gone")}
  OBVIOUS
<1> HIDE DEF first
<1>4. hist \in Seq([Actors -> Record]) /\ hist # <<>> /\ DOMAIN hist = {1} /\ hist[1] = first
  BY <1>1, <1>2
<1>5. TypeOK
  <2>1. Blank("gone") \in Record
    BY DEF Blank, Record
  <2>2. rec \in [actor: {{}} \cup {{a} : a \in Actors}, obj: Record, new: Record]
    BY <2>1 DEF ClaimsInit, Idle
  <2>3. pass \in [Sources -> {"idle", "here", "away", "delete"}]
    BY DEF ClaimsInit
  <2>4. want \in [Sources -> Wishes]
    BY DEF ClaimsInit, Wishes
  <2> QED BY <2>2, <2>3, <2>4, <1>4 DEF ClaimsInit, TypeOK
<1>6. RecordsOrdered
  <2>1. \A a \in Actors : Sound(first[a]) /\ first[a].yield = {}
    BY <1>3 DEF Sound, Blank
  <2> QED BY <2>1, <1>4 DEF RecordsOrdered
<1>7. ComesOrGoes
  BY <1>4 DEF ComesOrGoes
<1>8. OneHolder /\ HoldersHeld /\ PassSound
  BY DEF ClaimsInit, OneHolder, HoldersHeld, PassSound, Idle
<1> QED BY <1>5, <1>6, <1>7, <1>8 DEF ClaimsInv

(* Versions may be dropped from the history. *)
LEMMA Selected ==
  ASSUME RecordsOrdered, ComesOrGoes, NEW f \in [DOMAIN hist' -> DOMAIN hist],
         \A i, j \in DOMAIN hist' : i < j => f[i] < f[j],
         \A i \in DOMAIN hist' : hist'[i] = hist[f[i]]
  PROVE  /\ RecordsOrdered' /\ ComesOrGoes'
         /\ \A e : Held(e) => Held(e)'
<1>1. RecordsOrdered'
  <2> SUFFICES ASSUME NEW b \in Actors, NEW j \in DOMAIN hist'
               PROVE  /\ Sound(hist'[j][b])
                      /\ \A y \in hist'[j][b].yield : Beats(y, b)
                      /\ \A i \in DOMAIN hist' : i < j => Follows(hist'[i][b], hist'[j][b])
    BY DEF RecordsOrdered, Sound, Follows, Present, Beats
  <2>1. f[j] \in DOMAIN hist /\ \A i \in DOMAIN hist' : f[i] \in DOMAIN hist
    OBVIOUS
  <2> QED BY <2>1 DEF RecordsOrdered
<1>2. ComesOrGoes'
  <2> SUFFICES ASSUME NEW b \in Actors, NEW i \in DOMAIN hist', NEW j \in DOMAIN hist', NEW k \in DOMAIN hist',
                      i < j, j < k
               PROVE  /\ Present(hist'[i][b]) /\ Present(hist'[k][b]) => Present(hist'[j][b])
                      /\ b \in Sources /\ Present(hist'[j][b]) =>
                           Present(hist'[i][b]) \/ Present(hist'[k][b])
    BY DEF ComesOrGoes, Present
  <2>1. /\ f[i] \in DOMAIN hist /\ f[j] \in DOMAIN hist /\ f[k] \in DOMAIN hist
        /\ f[i] < f[j] /\ f[j] < f[k]
    OBVIOUS
  <2> QED BY <2>1 DEF ComesOrGoes
<1>3. ASSUME NEW e, Held(e) PROVE Held(e)'
  <2>1. \A i \in DOMAIN hist' : f[i] \in DOMAIN hist /\ hist'[i] = hist[f[i]]
    OBVIOUS
  <2> QED BY <1>3, <2>1 DEF Held, Overlooked, Appliable, generatedClaimHasYieldedTo
<1> QED BY <1>1, <1>2, <1>3

(* A step that touches neither records nor devices nor the worker. *)
LEMMA QuietInv ==
  ASSUME ClaimsInv, UNCHANGED <<cast, hist, dev, rec, lapse>>,
         want' \in [Sources -> Wishes],
         fence' \in {{}} \cup {{a} : a \in Actors},
         pass' \in [Sources -> {"idle", "here", "away", "delete"}]
  PROVE  ClaimsInv'
<1>1. TypeOK'
  BY DEF ClaimsInv, TypeOK
<1>2. RecordsOrdered' /\ ComesOrGoes'
  <2> DEFINE f == [i \in DOMAIN hist' |-> i]
  <2>1. /\ f \in [DOMAIN hist' -> DOMAIN hist]
        /\ \A i, j \in DOMAIN hist' : i < j => f[i] < f[j]
        /\ \A i \in DOMAIN hist' : hist'[i] = hist[f[i]]
    OBVIOUS
  <2> HIDE DEF f
  <2> QED BY <2>1, Selected DEF ClaimsInv
<1>3. Stored' = Stored /\ \A e : Held(e)' <=> Held(e)
  BY DEF Stored, Held, Overlooked, Appliable, generatedClaimHasYieldedTo
<1>4. OneHolder' /\ HoldersHeld' /\ PassSound'
  BY <1>3 DEF ClaimsInv, OneHolder, HoldersHeld, PassSound, Beats
<1> QED BY <1>1, <1>2, <1>4 DEF ClaimsInv

(* A record is written by somebody other than the pass under way. *)
LEMMA StoreInv ==
  ASSUME ClaimsInv, NEW a \in Actors, NEW r \in Record, Store(a, r), May(a, r),
         Stored[a].prepared =>
           /\ r.prepared /\ r.yield = Stored[a].yield /\ r.applied = Stored[a].applied
           /\ r.here = Stored[a].here \/ a \notin dev \ lapse',
         r.phase = "live" /\ r.prepared =>
           rec = Idle \/ (Stored[a].phase = "live" /\ Stored[a].prepared),
         UNCHANGED <<cast, dev, rec>>, lapse \subseteq lapse', lapse' \subseteq dev,
         want' \in [Sources -> Wishes],
         fence' \in {{}} \cup {{b} : b \in Actors},
         pass' \in [Sources -> {"idle", "here", "away", "delete"}]
  PROVE  ClaimsInv'
<1> DEFINE n == Len(hist) + 1
<1>0. TypeOK /\ OneHolder /\ RecordsOrdered /\ ComesOrGoes /\ HoldersHeld /\ PassSound
  BY DEF ClaimsInv
<1>d. dev \subseteq Actors /\ rec.actor \subseteq Actors
  BY <1>0 DEF TypeOK
<1>1. /\ hist' \in Seq([Actors -> Record]) /\ hist' # <<>>
      /\ DOMAIN hist' = 1 .. n
      /\ \A i \in DOMAIN hist : hist'[i] = hist[i]
      /\ hist'[n][a] = r
      /\ \A b \in Actors \ {a} : hist'[n][b] = Stored[b]
      /\ Stored' = hist'[n]
  BY <1>0, StoreHist
<1>2. /\ Len(hist) \in DOMAIN hist /\ Stored = hist[Len(hist)]
      /\ Len(hist) \in Nat /\ DOMAIN hist = 1 .. Len(hist)
  BY <1>0, HistEnds
<1>3. \A i \in DOMAIN hist' : i \in DOMAIN hist \/ i = n
  BY <1>1, <1>2
<1> HIDE DEF n
<1>4. TypeOK'
  BY <1>0, <1>1 DEF TypeOK
<1>5. RecordsOrdered' /\ ComesOrGoes'
  BY <1>0, StoreOrdered
<1>6. OneHolder'
  BY <1>0 DEF OneHolder
<1>7. HoldersHeld'
  <2> SUFFICES ASSUME NEW e \in dev \ lapse' PROVE Held(e)' /\ Stored'[e].yield = {}
    BY DEF HoldersHeld
  <2>1. Held(e) /\ Stored[e].yield = {} /\ e \in Actors
    BY <1>0, <1>d DEF HoldersHeld
  <2>2. Stored[e].prepared /\ Stored[e].here
    BY <2>1, <1>2 DEF Held, Overlooked
  <2>3. Held(e)'
    BY <2>1, <2>2, <1>0, StoreHeld
  <2>4. Stored'[e].yield = {}
    BY <2>1, <2>2, <1>1
  <2> QED BY <2>3, <2>4
<1>8. PassSound'
  <2> SUFFICES ASSUME NEW b \in rec.actor
               PROVE  /\ \/ /\ rec.obj.phase = "live" /\ rec.obj.prepared
                            /\ rec.new.phase = "live" /\ rec.new.prepared /\ rec.new.here = rec.obj.here
                         \/ /\ rec.obj.phase = "deleting" /\ rec.new = Blank("gone") /\ b \notin dev
                            /\ \A i \in DOMAIN hist' : ~(hist'[i][b].phase = "live" /\ hist'[i][b].prepared)
                      /\ \A y \in rec.new.yield : Beats(y, b) /\ b \notin dev \ lapse'
                      /\ rec.new.applied =>
                           /\ rec.new.yield = {}
                           /\ \A i \in DOMAIN hist' : hist'[i][b].prepared
                           /\ IF rec.new.here THEN b \in dev /\ dev \ lapse' \subseteq {b}
                                             ELSE b \notin dev
    BY DEF PassSound, Beats
  <2>1. /\ \/ /\ rec.obj.phase = "live" /\ rec.obj.prepared
              /\ rec.new.phase = "live" /\ rec.new.prepared /\ rec.new.here = rec.obj.here
           \/ /\ rec.obj.phase = "deleting" /\ rec.new = Blank("gone") /\ b \notin dev
              /\ \A i \in DOMAIN hist : ~(hist[i][b].phase = "live" /\ hist[i][b].prepared)
        /\ \A y \in rec.new.yield : Beats(y, b) /\ b \notin dev \ lapse
        /\ rec.new.applied =>
             /\ rec.new.yield = {}
             /\ \A i \in DOMAIN hist : hist[i][b].prepared
             /\ IF rec.new.here THEN b \in dev /\ dev \ lapse \subseteq {b} ELSE b \notin dev
    BY <1>0 DEF PassSound
  <2>2. rec # Idle /\ b \in Actors
    BY <1>d DEF Idle
  <2>3. ASSUME \A i \in DOMAIN hist : hist[i][b].prepared
        PROVE  \A i \in DOMAIN hist' : hist'[i][b].prepared
    <3>1. Stored[b].prepared
      BY <2>3, <1>2
    <3>2. hist'[n][b].prepared
      BY <3>1, <2>2, <1>1
    <3> QED BY <3>2, <2>3, <1>1, <1>3
  <2>4. ASSUME \A i \in DOMAIN hist : ~(hist[i][b].phase = "live" /\ hist[i][b].prepared)
        PROVE  \A i \in DOMAIN hist' : ~(hist'[i][b].phase = "live" /\ hist'[i][b].prepared)
    <3>1. ~(Stored[b].phase = "live" /\ Stored[b].prepared)
      BY <2>4, <1>2
    <3>2. ~(hist'[n][b].phase = "live" /\ hist'[n][b].prepared)
      BY <3>1, <2>2, <1>1
    <3> QED BY <3>2, <2>4, <1>1, <1>3
  <2>5. \A y \in rec.new.yield : Beats(y, b) /\ b \notin dev \ lapse'
    BY <2>1
  <2>6. rec.new.applied =>
          /\ rec.new.yield = {} /\ \A i \in DOMAIN hist' : hist'[i][b].prepared
          /\ IF rec.new.here THEN b \in dev /\ dev \ lapse' \subseteq {b} ELSE b \notin dev
    BY <2>1, <2>3
  <2> QED BY <2>1, <2>4, <2>5, <2>6
<1> QED BY <1>4, <1>5, <1>6, <1>7, <1>8 DEF ClaimsInv

(* A record that is there in the first and the last version is there in    *)
(* all; one that was prepared has been there in all.                       *)
LEMMA ThereThroughout ==
  ASSUME ClaimsInv, NEW a \in Actors,
         \/ Stored[a].prepared
         \/ Present(Cached[a]) /\ Present(Stored[a])
  PROVE  \A i \in DOMAIN hist : Present(hist[i][a])
<1> SUFFICES ASSUME NEW i \in DOMAIN hist PROVE Present(hist[i][a])
  OBVIOUS
<1>1. /\ Len(hist) \in DOMAIN hist /\ Stored = hist[Len(hist)] /\ Cached = hist[1]
      /\ Len(hist) \in Nat /\ DOMAIN hist = 1 .. Len(hist) /\ 1 \in DOMAIN hist
  BY HistEnds DEF ClaimsInv
<1>2. i = Len(hist) \/ i < Len(hist)
  BY <1>1
<1>3. CASE Stored[a].prepared
  BY <1>1, <1>2, <1>3 DEF ClaimsInv, RecordsOrdered, Sound, Follows
<1>4. CASE Present(Cached[a]) /\ Present(Stored[a])
  <2>1. i = 1 \/ 1 < i
    BY <1>1
  <2> QED BY <2>1, <1>1, <1>2, <1>4 DEF ClaimsInv, ComesOrGoes
<1> QED BY <1>3, <1>4

(* What earlier versions of a record were, seen from the stored one. *)
LEMMA Earlier ==
  ASSUME ClaimsInv, NEW a \in Actors, NEW i \in DOMAIN hist
  PROVE  /\ hist[i][a] = Stored[a] \/ Follows(hist[i][a], Stored[a])
         /\ Sound(hist[i][a]) /\ Sound(Stored[a])
         /\ \A y \in Stored[a].yield : Beats(y, a)
<1>1. /\ Len(hist) \in DOMAIN hist /\ Stored = hist[Len(hist)]
      /\ Len(hist) \in Nat /\ DOMAIN hist = 1 .. Len(hist)
  BY HistEnds DEF ClaimsInv
<1>2. i = Len(hist) \/ i < Len(hist)
  BY <1>1
<1> QED BY <1>1, <1>2 DEF ClaimsInv, RecordsOrdered

(* Deleting a live record. *)
LEMMA RemovedMay ==
  ASSUME ClaimsInv, NEW a \in Actors, Stored[a] \in Record, Stored[a].phase = "live",
         a \in Sources => Present(Cached[a])
  PROVE  /\ Removed(Stored[a]) \in Record /\ May(a, Removed(Stored[a]))
         /\ Removed(Stored[a]).phase # "live"
         /\ Stored[a].prepared =>
              /\ Removed(Stored[a]).prepared
              /\ Removed(Stored[a]).yield = Stored[a].yield
              /\ Removed(Stored[a]).applied = Stored[a].applied
              /\ Removed(Stored[a]).here = Stored[a].here
<1> DEFINE r == Removed(Stored[a])
<1>e. \A i \in DOMAIN hist :
        /\ hist[i][a] = Stored[a] \/ Follows(hist[i][a], Stored[a])
        /\ Sound(hist[i][a]) /\ Sound(Stored[a])
        /\ \A y \in Stored[a].yield : Beats(y, a)
  BY Earlier
<1>n. DOMAIN hist # {}
  BY HistEnds DEF ClaimsInv
<1>1. CASE Stored[a].prepared
  <2>1. r = [Stored[a] EXCEPT !.phase = "deleting"]
    BY <1>1 DEF Removed
  <2>2. /\ r \in Record /\ r.phase = "deleting" /\ r.prepared
        /\ r.yield = Stored[a].yield /\ r.applied = Stored[a].applied /\ r.here = Stored[a].here
    BY <2>1, <1>1 DEF Record
  <2>3. \A i \in DOMAIN hist : Present(hist[i][a])
    BY <1>1, ThereThroughout
  <2> HIDE DEF r
  <2>4. Sound(r) /\ Present(r)
    BY <2>2 DEF Sound, Present
  <2>5. \A i \in DOMAIN hist : Follows(hist[i][a], r)
    BY <2>2, <2>3 DEF Follows
  <2>6. \A y \in r.yield : Beats(y, a)
    BY <2>2, <1>e, <1>n
  <2>7. May(a, r)
    BY <2>3, <2>4, <2>5, <2>6 DEF May
  <2> QED BY <2>2, <2>7 DEF r
<1>2. CASE ~Stored[a].prepared
  <2>1. r = Blank("gone")
    BY <1>2 DEF Removed
  <2>2. /\ r \in Record /\ r.phase = "gone" /\ ~r.prepared /\ r.yield = {}
    BY <2>1 DEF Blank, Record
  <2> HIDE DEF r
  <2>3. Sound(r) /\ ~Present(r)
    BY <2>2 DEF Sound, Present
  <2>4. \A i \in DOMAIN hist : Follows(hist[i][a], r)
    BY <2>2, <1>2, <1>e DEF Follows
  <2>5. a \in Sources => \A i \in DOMAIN hist : Present(hist[i][a])
    BY ThereThroughout DEF Present
  <2>6. May(a, r)
    BY <2>2, <2>3, <2>4, <2>5 DEF May
  <2> QED BY <2>2, <2>6, <1>2 DEF r
<1> QED BY <1>1, <1>2

(* Re-pointing a record in place: an entry it has is a lapse from here on. *)
LEMMA RepointInv ==
  ASSUME ClaimsInv, NEW a \in Actors, Present(Stored[a]), Repoint(a),
         UNCHANGED <<cast, want, dev, rec>>,
         fence' \in {{}} \cup {{b} : b \in Actors},
         pass' \in [Sources -> {"idle", "here", "away", "delete"}]
  PROVE  ClaimsInv'
<1> DEFINE r == [Stored[a] EXCEPT !.here = ~@]
<1>0. TypeOK /\ RecordsOrdered /\ ComesOrGoes
  BY DEF ClaimsInv
<1>h. /\ Len(hist) \in DOMAIN hist /\ Stored = hist[Len(hist)]
      /\ Len(hist) \in Nat \ {0} /\ DOMAIN hist = 1 .. Len(hist)
      /\ Stored \in [Actors -> Record]
  BY <1>0, HistEnds
<1>1. Store(a, r) /\ lapse' = lapse \cup ({a} \cap dev)
  BY DEF Repoint
<1>2. Stored[a] \in Record
  BY <1>h
<1>3. /\ r \in Record /\ r.phase = Stored[a].phase /\ r.prepared = Stored[a].prepared
      /\ r.yield = Stored[a].yield /\ r.applied = Stored[a].applied
  BY <1>2 DEF Record
<1> HIDE DEF r
<1>4. \A i \in DOMAIN hist :
        /\ hist[i][a] = Stored[a] \/ Follows(hist[i][a], Stored[a])
        /\ Sound(hist[i][a]) /\ Sound(Stored[a])
        /\ \A y \in Stored[a].yield : Beats(y, a)
  BY Earlier
<1>5. Sound(r) /\ \A y \in r.yield : Beats(y, a)
  BY <1>3, <1>4, <1>h DEF Sound, Present
<1>6. \A i \in DOMAIN hist : Follows(hist[i][a], r)
  BY <1>3, <1>4 DEF Follows, Sound
<1>7. Present(r)
  BY <1>3 DEF Present
<1>8. ASSUME NEW i \in DOMAIN hist, NEW j \in DOMAIN hist, i < j, Present(hist[i][a])
      PROVE  Present(hist[j][a])
  <2>1. j = Len(hist) \/ j < Len(hist)
    BY <1>h
  <2> QED BY <2>1, <1>8, <1>h, <1>0 DEF ComesOrGoes
<1>9. May(a, r)
  BY <1>5, <1>6, <1>7, <1>8 DEF May
<1>10. /\ lapse \subseteq lapse' /\ lapse' \subseteq dev /\ a \notin dev \ lapse'
       /\ want' \in [Sources -> Wishes]
  BY <1>1, <1>0 DEF TypeOK
<1> QED BY <1>1, <1>3, <1>9, <1>10, StoreInv

--------------------------------------------------------------------------------
(* Users, the watch, and restarts. *)
LEMMA EnvironmentInv ==
  ASSUME ClaimsInv, UserStep \/ Deliver \/ Restart
  PROVE  ClaimsInv'
<1>0. TypeOK /\ OneHolder /\ RecordsOrdered /\ ComesOrGoes /\ HoldersHeld /\ PassSound
  BY DEF ClaimsInv
<1>t. /\ want \in [Sources -> Wishes] /\ fence \in {{}} \cup {{a} : a \in Actors}
      /\ pass \in [Sources -> {"idle", "here", "away", "delete"}]
      /\ hist \in Seq([Actors -> Record]) /\ dev \subseteq Actors /\ lapse \subseteq dev
  BY <1>0 DEF TypeOK
<1>h. /\ Len(hist) \in DOMAIN hist /\ Stored = hist[Len(hist)]
      /\ Len(hist) \in Nat \ {0} /\ DOMAIN hist = 1 .. Len(hist)
      /\ \A i \in DOMAIN hist : hist[i] \in [Actors -> Record]
  BY <1>0, HistEnds
<1>1. ASSUME NEW d \in Direct, UserCreate(d) PROVE ClaimsInv'
  <2> DEFINE r == Blank("live")
  <2>1. /\ Stored[d].phase = "unborn" /\ Store(d, r) /\ d \in Actors
        /\ UNCHANGED <<cast, want, dev, fence, pass, rec, lapse>>
    BY <1>1 DEF UserCreate, users, Actors
  <2>2. r \in Record /\ r.phase = "live" /\ ~r.prepared /\ r.yield = {}
    BY DEF Blank, Record
  <2> HIDE DEF r
  <2>3. \A i \in DOMAIN hist : hist[i][d].phase = "unborn" /\ Sound(hist[i][d])
    BY <2>1, Earlier DEF Follows
  <2>4. \A i \in DOMAIN hist : ~Present(hist[i][d]) /\ ~hist[i][d].prepared
    BY <2>3 DEF Present, Sound
  <2>5. Sound(r) /\ \A i \in DOMAIN hist : Follows(hist[i][d], r)
    BY <2>2, <2>3, <2>4 DEF Sound, Follows
  <2>6. May(d, r)
    BY <2>1, <2>2, <2>4, <2>5 DEF May, Present
  <2>7. ~Stored[d].prepared
    BY <2>4, <1>h
  <2>8. lapse \subseteq lapse' /\ lapse' \subseteq dev
    BY <2>1, <1>t
  <2> QED BY <2>1, <2>2, <2>6, <2>7, <2>8, <1>t, StoreInv
<1>2. ASSUME NEW d \in Direct, UserDelete(d) PROVE ClaimsInv'
  <2>1. /\ Stored[d].phase = "live" /\ Store(d, Removed(Stored[d])) /\ d \in Actors
        /\ d \notin Sources /\ Stored[d] \in Record
        /\ UNCHANGED <<cast, want, dev, fence, pass, rec, lapse>>
    BY <1>2, <1>h, ClaimsAssumption DEF UserDelete, users, Actors
  <2>2. /\ Removed(Stored[d]) \in Record /\ May(d, Removed(Stored[d]))
        /\ Removed(Stored[d]).phase # "live"
        /\ Stored[d].prepared =>
             /\ Removed(Stored[d]).prepared
             /\ Removed(Stored[d]).yield = Stored[d].yield
             /\ Removed(Stored[d]).applied = Stored[d].applied
             /\ Removed(Stored[d]).here = Stored[d].here
    BY <2>1, RemovedMay
  <2>3. lapse \subseteq lapse' /\ lapse' \subseteq dev
    BY <2>1, <1>t
  <2> QED BY <2>1, <2>2, <2>3, <1>t, StoreInv
<1>3. ASSUME NEW s \in Sources, UserChanges(s) PROVE ClaimsInv'
  <2>1. PICK wish \in Wishes : want' = [want EXCEPT ![s] = wish]
    BY <1>3 DEF UserChanges
  <2>2. want' \in [Sources -> Wishes]
    BY <2>1, <1>t
  <2>3. UNCHANGED <<cast, hist, dev, fence, pass, rec, lapse>>
    BY <1>3 DEF UserChanges
  <2> QED BY <2>2, <2>3, <1>t, QuietInv
<1>4. CASE Deliver
  <2>1. /\ Len(hist) > 1 /\ hist' = Tail(hist)
        /\ UNCHANGED <<cast, want, dev, fence, pass, rec, lapse>>
    BY <1>4 DEF Deliver, users
  <2>2. /\ hist' \in Seq([Actors -> Record]) /\ Len(hist') = Len(hist) - 1
        /\ \A i \in 1 .. Len(hist') : hist'[i] = hist[i + 1]
    <3>1. hist # <<>>
      BY <2>1, <1>h
    <3> QED BY <2>1, <3>1, <1>t, HeadTailProperties
  <2>3. /\ DOMAIN hist' = 1 .. Len(hist') /\ Len(hist') \in Nat \ {0}
    BY <2>1, <2>2, <1>h
  <2>4. hist' # <<>>
    BY <2>3
  <2>5. \A i \in DOMAIN hist' : i \in Nat /\ i + 1 \in DOMAIN hist /\ hist'[i] = hist[i + 1]
    BY <2>2, <2>3, <1>h
  <2>6. Stored' = Stored
    <3>1. hist'[Len(hist')] = hist[Len(hist)]
      BY <2>2, <2>3, <1>h
    <3> QED BY <3>1 DEF Stored
  <2>7. TypeOK'
    BY <2>1, <2>2, <2>4, <1>0 DEF TypeOK
  <2>8. RecordsOrdered' /\ ComesOrGoes' /\ \A e : Held(e) => Held(e)'
    <3> DEFINE f == [i \in DOMAIN hist' |-> i + 1]
    <3>1. /\ f \in [DOMAIN hist' -> DOMAIN hist]
          /\ \A i, j \in DOMAIN hist' : i < j => f[i] < f[j]
          /\ \A i \in DOMAIN hist' : hist'[i] = hist[f[i]]
      BY <2>5
    <3> HIDE DEF f
    <3> QED BY <3>1, <1>0, Selected
  <2>11. OneHolder' /\ HoldersHeld'
    BY <2>1, <2>6, <2>8, <1>0 DEF OneHolder, HoldersHeld
  <2>12. PassSound'
    <3>1. \A b : (\A i \in DOMAIN hist : ~(hist[i][b].phase = "live" /\ hist[i][b].prepared)) =>
                 (\A i \in DOMAIN hist' : ~(hist'[i][b].phase = "live" /\ hist'[i][b].prepared))
      BY <2>5
    <3>2. \A b : (\A i \in DOMAIN hist : hist[i][b].prepared) =>
                 (\A i \in DOMAIN hist' : hist'[i][b].prepared)
      BY <2>5
    <3> QED BY <2>1, <3>1, <3>2, <1>0 DEF PassSound, Beats
  <2> QED BY <2>7, <2>8, <2>11, <2>12 DEF ClaimsInv
<1>5. CASE Restart
  <2>1. /\ hist' = <<Stored>> /\ fence' = {} /\ pass' = [s \in Sources |-> "idle"]
        /\ rec' = Idle /\ UNCHANGED <<cast, want, dev, lapse>>
    BY <1>5 DEF Restart, users
  <2>2. Stored \in [Actors -> Record]
    BY <1>h
  <2>3. /\ hist' \in Seq([Actors -> Record]) /\ hist' # <<>> /\ DOMAIN hist' = {1}
        /\ hist'[1] = Stored
    BY <2>1, <2>2
  <2>4. Stored' = Stored
    BY <2>1 DEF Stored
  <2>5. TypeOK'
    <3>1. Blank("gone") \in Record
      BY DEF Blank, Record
    <3>2. rec' \in [actor: {{}} \cup {{a} : a \in Actors}, obj: Record, new: Record]
      BY <2>1, <3>1 DEF Idle
    <3>3. pass' \in [Sources -> {"idle", "here", "away", "delete"}]
      BY <2>1
    <3> QED BY <2>1, <2>3, <3>2, <3>3, <1>0 DEF TypeOK
  <2>6. RecordsOrdered' /\ ComesOrGoes' /\ \A e : Held(e) => Held(e)'
    <3> DEFINE f == [i \in DOMAIN hist' |-> Len(hist)]
    <3>1. /\ f \in [DOMAIN hist' -> DOMAIN hist]
          /\ \A i, j \in DOMAIN hist' : i < j => f[i] < f[j]
          /\ \A i \in DOMAIN hist' : hist'[i] = hist[f[i]]
      BY <2>3, <1>h
    <3> HIDE DEF f
    <3> QED BY <3>1, <1>0, Selected
  <2>8. OneHolder' /\ HoldersHeld'
    BY <2>1, <2>4, <2>6, <1>0 DEF OneHolder, HoldersHeld
  <2>9. PassSound'
    BY <2>1 DEF PassSound, Idle
  <2> QED BY <2>5, <2>6, <2>8, <2>9 DEF ClaimsInv
<1>6. ASSUME NEW d \in Direct, UserEdit(d) PROVE ClaimsInv'
  <2>1. /\ Present(Stored[d]) /\ Repoint(d) /\ d \in Actors
        /\ UNCHANGED <<cast, want, dev, fence, pass, rec>>
    BY <1>6 DEF UserEdit, users, Actors
  <2> QED BY <2>1, <1>t, RepointInv
<1> QED BY <1>1, <1>2, <1>3, <1>4, <1>5, <1>6 DEF UserStep

(* A pass of a translator. *)
LEMMA TranslatorInv ==
  ASSUME ClaimsInv, NEW s \in Sources, Translate(s) \/ SourceAmbiguous(s) \/ CreateFails(s)
  PROVE  ClaimsInv'
<1>0. TypeOK /\ OneHolder /\ RecordsOrdered /\ ComesOrGoes /\ HoldersHeld /\ PassSound
  BY DEF ClaimsInv
<1>t. /\ want \in [Sources -> Wishes] /\ fence \in {{}} \cup {{a} : a \in Actors}
      /\ pass \in [Sources -> {"idle", "here", "away", "delete"}] /\ s \in Actors /\ lapse \subseteq dev
  BY <1>0 DEF TypeOK, Actors
<1>h. /\ Len(hist) \in DOMAIN hist /\ Stored = hist[Len(hist)] /\ Cached = hist[1]
      /\ Len(hist) \in Nat \ {0} /\ DOMAIN hist = 1 .. Len(hist) /\ 1 \in DOMAIN hist
      /\ \A i \in DOMAIN hist : hist[i] \in [Actors -> Record]
  BY <1>0, HistEnds
<1>1. CASE \/ acquireGeneratedChildClaims(s) \/ SourceCollides(s) \/ SourceReleases(s)
           \/ SourceAmbiguous(s) \/ CreateFails(s)
  <2>1. /\ UNCHANGED <<cast, want, hist, dev, rec, lapse>>
        /\ fence' = {s} \/ fence' = fence \/ fence' = {}
        /\ \E p \in {"idle", "here", "away", "delete"} : pass' = [pass EXCEPT ![s] = p]
    BY <1>1, <1>t DEF acquireGeneratedChildClaims, SourceCollides, SourceReleases, SourceAmbiguous,
                cleanupGeneratedChildren, CreateFails, EndCheck, users, Wishes
  <2>2. /\ fence' \in {{}} \cup {{a} : a \in Actors}
        /\ pass' \in [Sources -> {"idle", "here", "away", "delete"}]
    BY <2>1, <1>t
  <2> QED BY <2>1, <2>2, <1>t, QuietInv
<1>2. CASE CreateChild(s)
  <2> DEFINE r == [Blank("live") EXCEPT !.here = pass[s] = "here"]
  <2>1. /\ UNCHANGED <<cast, want, dev, rec, lapse>> /\ fence' = {}
        /\ pass' = [pass EXCEPT ![s] = "idle"]
        /\ \/ ~Present(Cached[s]) /\ ~Present(Stored[s]) /\ Store(s, r)
           \/ UNCHANGED hist
    BY <1>2 DEF CreateChild, EndCheck, users
  <2>2. pass' \in [Sources -> {"idle", "here", "away", "delete"}]
    BY <2>1, <1>t
  <2>3. CASE UNCHANGED hist
    BY <2>1, <2>2, <2>3, <1>t, QuietInv
  <2>4. CASE ~Present(Cached[s]) /\ ~Present(Stored[s]) /\ Store(s, r)
    <3>1. r \in Record /\ r.phase = "live" /\ ~r.prepared /\ r.yield = {}
      BY DEF Blank, Record
    <3> HIDE DEF r
    <3>2. ASSUME NEW i \in DOMAIN hist PROVE ~Present(hist[i][s])
      <4>1. CASE i = 1 \/ i = Len(hist)
        BY <4>1, <2>4, <1>h
      <4>2. CASE 1 < i /\ i < Len(hist)
        BY <4>2, <2>4, <1>h, <1>0, <1>t DEF ComesOrGoes
      <4> QED BY <4>1, <4>2, <1>h
    <3>3. \A i \in DOMAIN hist : ~hist[i][s].prepared /\ hist[i][s].phase # "deleting"
      BY <3>2, <1>0, <1>t DEF RecordsOrdered, Sound, Present
    <3>4. Sound(r) /\ \A i \in DOMAIN hist : Follows(hist[i][s], r)
      BY <3>1, <3>3 DEF Sound, Follows
    <3>5. May(s, r)
      BY <3>1, <3>2, <3>4 DEF May, Present
    <3>6. ~Stored[s].prepared
      BY <3>3, <1>h
    <3>7. lapse \subseteq lapse' /\ lapse' \subseteq dev
      BY <2>1, <1>t
    <3> QED BY <2>1, <2>2, <2>4, <3>1, <3>5, <3>6, <3>7, <1>t, StoreInv
  <2> QED BY <2>1, <2>3, <2>4
<1>3. CASE cleanupOwnedChildren(s)
  <2>1. /\ UNCHANGED <<cast, want, dev, fence, rec, lapse>>
        /\ pass' = [pass EXCEPT ![s] = "idle"]
        /\ \/ Present(Cached[s]) /\ Stored[s].phase = "live" /\ Store(s, Removed(Stored[s]))
           \/ UNCHANGED hist
    BY <1>3 DEF cleanupOwnedChildren, users
  <2>2. pass' \in [Sources -> {"idle", "here", "away", "delete"}]
    BY <2>1, <1>t
  <2>3. CASE UNCHANGED hist
    BY <2>1, <2>2, <2>3, <1>t, QuietInv
  <2>4. CASE Present(Cached[s]) /\ Stored[s].phase = "live" /\ Store(s, Removed(Stored[s]))
    <3>1. Stored[s] \in Record
      BY <1>h, <1>t
    <3>2. /\ Removed(Stored[s]) \in Record /\ May(s, Removed(Stored[s]))
          /\ Removed(Stored[s]).phase # "live"
          /\ Stored[s].prepared =>
               /\ Removed(Stored[s]).prepared
               /\ Removed(Stored[s]).yield = Stored[s].yield
               /\ Removed(Stored[s]).applied = Stored[s].applied
               /\ Removed(Stored[s]).here = Stored[s].here
      BY <2>4, <3>1, <1>t, RemovedMay
    <3>3. lapse \subseteq lapse' /\ lapse' \subseteq dev
      BY <2>1, <1>t
    <3> QED BY <2>1, <2>2, <2>4, <3>2, <3>3, <1>t, StoreInv
  <2> QED BY <2>1, <2>3, <2>4
<1>4. CASE UpdateChild(s)
  <2>1. /\ UNCHANGED <<cast, want, dev, rec>> /\ fence' = {}
        /\ pass' = [pass EXCEPT ![s] = "idle"] /\ Present(Cached[s])
        /\ \/ Stored[s] = Cached[s] /\ Repoint(s)
           \/ UNCHANGED <<hist, lapse>>
    BY <1>4 DEF UpdateChild, EndCheck, users
  <2>2. pass' \in [Sources -> {"idle", "here", "away", "delete"}]
    BY <2>1, <1>t
  <2>3. CASE UNCHANGED <<hist, lapse>>
    BY <2>1, <2>2, <2>3, <1>t, QuietInv
  <2>4. CASE Stored[s] = Cached[s] /\ Repoint(s)
    <3>1. Present(Stored[s])
      BY <2>1, <2>4
    <3> QED BY <2>1, <2>2, <2>4, <3>1, <1>t, RepointInv
  <2> QED BY <2>1, <2>3, <2>4
<1> QED BY <1>1, <1>2, <1>3, <1>4 DEF Translate

--------------------------------------------------------------------------------
(* A record that finds no conflict is the only holder: every other one     *)
(* would have stood against it.                                            *)
LEMMA FreeClaim ==
  ASSUME ClaimsInv, NEW a \in Actors, Cached[a].phase = "live", Cached[a].prepared
  PROVE  /\ \A i \in DOMAIN hist : hist[i][a].prepared
         /\ Cached[a].here /\ Conflicts(a, TRUE) = {} => dev \ lapse \subseteq {a}
<1>0. TypeOK /\ RecordsOrdered /\ HoldersHeld /\ dev \subseteq Actors
  BY DEF ClaimsInv, TypeOK
<1>h. /\ Cached = hist[1] /\ 1 \in DOMAIN hist /\ DOMAIN hist = 1 .. Len(hist)
      /\ Len(hist) \in Nat
  BY <1>0, HistEnds
<1>1. ASSUME NEW i \in DOMAIN hist PROVE hist[i][a].prepared
  <2>1. i = 1 \/ 1 < i
    BY <1>h
  <2> QED BY <2>1, <1>h, <1>0 DEF RecordsOrdered, Follows
<1>2. ASSUME Cached[a].here, Conflicts(a, TRUE) = {}, NEW e \in dev \ lapse, e # a PROVE FALSE
  <2>1. /\ Cached[e].prepared /\ Cached[e].here /\ e \in Actors
        /\ Appliable(Cached[a]) => ~generatedClaimHasYieldedTo(Cached[e], a)
    BY <1>2, <1>h, <1>0 DEF HoldersHeld, Held, Overlooked
  <2>2. Present(Cached[e])
    BY <2>1, <1>h, <1>0 DEF RecordsOrdered, Sound
  <2> QED BY <2>1, <2>2, <1>2 DEF Conflicts, Appliable
<1> QED BY <1>1, <1>2

(* Only re-pointing makes a record that finds its claim free one that may  *)
(* be overlooked: if no version names another claim, whoever it says it    *)
(* yields to is there, wins over it and so has not yielded to it.          *)
LEMMA OverlookedByTurn ==
  ASSUME ClaimsInv, NEW a \in Actors, Conflicts(a, TRUE) = {},
         \A i \in DOMAIN hist : \A e \in Actors : hist[i][e].here
  PROVE  ~Overlooked(a)
<1>0. TypeOK /\ RecordsOrdered
  BY DEF ClaimsInv
<1>h. /\ Cached = hist[1] /\ 1 \in DOMAIN hist /\ DOMAIN hist = 1 .. Len(hist)
      /\ Len(hist) \in Nat
  BY <1>0, HistEnds
<1>c. \A e \in Actors \ {a} : Present(Cached[e]) => generatedClaimHasYieldedTo(Cached[e], a)
  BY <1>h DEF Conflicts
<1> SUFFICES ASSUME NEW i \in DOMAIN hist, NEW e \in Actors \ {a},
                    Appliable(hist[i][e]), generatedClaimHasYieldedTo(hist[i][a], e)
             PROVE  FALSE
  BY DEF Overlooked
<1>1. i = 1 \/ 1 < i
  BY <1>h
<1>2. Beats(e, a)
  BY <1>0 DEF generatedClaimHasYieldedTo, RecordsOrdered
<1>3. Present(Cached[e])
  BY <1>1, <1>h, <1>0 DEF Appliable, RecordsOrdered, Follows, Sound
<1>4. Beats(a, e)
  BY <1>3, <1>c, <1>h, <1>0 DEF generatedClaimHasYieldedTo, RecordsOrdered
<1> QED BY <1>2, <1>4, BeatsAsymmetric

(* A pass over a record begins. *)
LEMMA BeginInv ==
  ASSUME ClaimsInv, NEW a \in Actors, NEW new \in Record,
         UNCHANGED <<cast, want, hist, pass>>, Begin(a, new),
         fence' = fence \/ fence' = {a},
         dev' \subseteq Actors, lapse' \subseteq dev',
         \A e \in dev' \ lapse' : \/ e \in dev \ lapse
                                  \/ e = a /\ Held(a) /\ Stored[a].yield = {},
         dev' \ lapse' \subseteq dev \ lapse \/ dev' \ lapse' \subseteq {a},
         \/ /\ Cached[a].phase = "live" /\ Cached[a].prepared
            /\ new.phase = "live" /\ new.prepared /\ new.here = Cached[a].here
         \/ Cached[a].phase = "deleting" /\ new = Blank("gone") /\ a \notin dev',
         \A y \in new.yield : Beats(y, a) /\ a \notin dev' \ lapse',
         new.applied =>
           /\ new.yield = {} /\ \A i \in DOMAIN hist : hist[i][a].prepared
           /\ IF new.here THEN a \in dev' /\ dev' \ lapse' \subseteq {a} ELSE a \notin dev'
  PROVE  ClaimsInv'
<1>0. TypeOK /\ OneHolder /\ RecordsOrdered /\ ComesOrGoes /\ HoldersHeld /\ PassSound
  BY DEF ClaimsInv
<1>h. /\ Cached = hist[1] /\ 1 \in DOMAIN hist /\ DOMAIN hist = 1 .. Len(hist)
      /\ Len(hist) \in Nat /\ Cached \in [Actors -> Record]
  BY <1>0, HistEnds
<1>1. RecordsOrdered' /\ ComesOrGoes'
  <2> DEFINE f == [i \in DOMAIN hist' |-> i]
  <2>1. /\ f \in [DOMAIN hist' -> DOMAIN hist]
        /\ \A i, j \in DOMAIN hist' : i < j => f[i] < f[j]
        /\ \A i \in DOMAIN hist' : hist'[i] = hist[f[i]]
    OBVIOUS
  <2> HIDE DEF f
  <2> QED BY <2>1, <1>0, Selected
<1>2. Stored' = Stored /\ \A e : Held(e)' <=> Held(e)
  BY DEF Stored, Held, Overlooked, Appliable, generatedClaimHasYieldedTo
<1>3. rec' = [actor |-> {a}, obj |-> Cached[a], new |-> new]
  BY DEF Begin
<1>4. TypeOK'
  <2>1. rec' \in [actor: {{}} \cup {{b} : b \in Actors}, obj: Record, new: Record]
    BY <1>3, <1>h
  <2>2. fence' \in {{}} \cup {{b} : b \in Actors}
    BY <1>0 DEF TypeOK
  <2> QED BY <2>1, <2>2, <1>0 DEF TypeOK
<1>5. OneHolder'
  BY <1>0 DEF OneHolder
<1>6. HoldersHeld'
  BY <1>0, <1>2 DEF HoldersHeld
<1>7. ASSUME Cached[a].phase = "deleting"
      PROVE  \A i \in DOMAIN hist : ~(hist[i][a].phase = "live" /\ hist[i][a].prepared)
  <2> SUFFICES ASSUME NEW i \in DOMAIN hist PROVE hist[i][a].phase # "live"
    OBVIOUS
  <2>1. i = 1 \/ 1 < i
    BY <1>h
  <2> QED BY <2>1, <1>7, <1>h, <1>0 DEF RecordsOrdered, Follows
<1>8. PassSound'
  <2>1. rec'.actor = {a} /\ rec'.obj = Cached[a] /\ rec'.new = new /\ hist' = hist
    BY <1>3
  <2> QED BY <2>1, <1>7 DEF PassSound, Beats
<1> QED BY <1>1, <1>4, <1>5, <1>6, <1>8 DEF ClaimsInv

(* The pass of the worker over a record, up to its last write. *)
LEMMA PassInv ==
  ASSUME ClaimsInv, NEW a \in Actors,
         \/ Prepare(a) \/ ApplyEntry(a) \/ RecordCollides(a) \/ FinalizeEntry(a)
         \/ DependencyLost(a) \/ ApplyFails(a) \/ CollisionCleanupFails(a)
  PROVE  ClaimsInv'
<1>0. TypeOK /\ OneHolder /\ RecordsOrdered /\ ComesOrGoes /\ HoldersHeld /\ PassSound
  BY DEF ClaimsInv
<1>t. /\ want \in [Sources -> Wishes] /\ fence \in {{}} \cup {{b} : b \in Actors}
      /\ pass \in [Sources -> {"idle", "here", "away", "delete"}]
      /\ dev \subseteq Actors /\ lapse \subseteq dev
  BY <1>0 DEF TypeOK
<1>h. /\ Len(hist) \in DOMAIN hist /\ Stored = hist[Len(hist)] /\ Cached = hist[1]
      /\ Len(hist) \in Nat \ {0} /\ DOMAIN hist = 1 .. Len(hist) /\ 1 \in DOMAIN hist
      /\ Cached \in [Actors -> Record] /\ Stored \in [Actors -> Record]
  BY <1>0, HistEnds
<1>r. Cached[a] \in Record
  BY <1>h
<1>a. /\ Applied(Cached[a]) \in Record /\ Applied(Cached[a]).yield = {}
      /\ Applied(Cached[a]).phase = Cached[a].phase
      /\ Applied(Cached[a]).prepared = Cached[a].prepared
      /\ Applied(Cached[a]).here = Cached[a].here
  BY <1>r DEF Applied, Record
<1>f. ASSUME NEW w \in {{}} \cup {{e} : e \in Actors}
      PROVE  /\ Failed(Cached[a], w) \in Record /\ Failed(Cached[a], w).yield = w
             /\ ~Failed(Cached[a], w).applied
             /\ Failed(Cached[a], w).phase = Cached[a].phase
             /\ Failed(Cached[a], w).prepared = Cached[a].prepared
             /\ Failed(Cached[a], w).here = Cached[a].here
  BY <1>r DEF Failed, Record
<1>g. /\ Blank("gone") \in Record /\ Blank("gone").yield = {} /\ ~Blank("gone").applied
  BY DEF Blank, Record
<1>d. ASSUME Delete(a)
      PROVE  /\ dev' \subseteq Actors /\ lapse' \subseteq dev' /\ a \notin dev'
             /\ dev' \ lapse' \subseteq dev \ lapse
  BY <1>d, <1>t DEF Delete
<1>w. ASSUME Write(a)
      PROVE  /\ dev' \subseteq Actors /\ lapse' \subseteq dev'
             /\ a \in dev' /\ dev' \ lapse' \subseteq (dev \ lapse) \cup {a}
             /\ \A e \in dev' \ lapse' :
                  e \in dev \ lapse \/ (e = a /\ Stored[a].yield = {} /\ ~Overlooked(a))
  BY <1>w, <1>t DEF Write
<1>1. CASE Prepare(a)
  <2> DEFINE r == [Cached[a] EXCEPT !.prepared = TRUE]
  <2>1. /\ rec = Idle /\ Cached[a].phase = "live" /\ ~Cached[a].prepared
        /\ Stored[a] = Cached[a] /\ Store(a, r)
        /\ UNCHANGED <<cast, want, dev, fence, pass, rec, lapse>>
    BY <1>1 DEF Prepare, users
  <2>2. /\ r \in Record /\ r.phase = "live" /\ r.prepared
        /\ r.yield = Stored[a].yield /\ r.applied = Stored[a].applied
    BY <2>1, <1>r DEF Record
  <2> HIDE DEF r
  <2>3. \A i \in DOMAIN hist : Present(hist[i][a])
    BY <2>1, ThereThroughout DEF Present
  <2>4. \A i \in DOMAIN hist : hist[i][a].phase # "deleting"
    BY <2>1, Earlier DEF Follows
  <2>5. Sound(r) /\ Present(r) /\ \A i \in DOMAIN hist : Follows(hist[i][a], r)
    BY <2>2, <2>3, <2>4 DEF Sound, Present, Follows
  <2>6. \A y \in r.yield : Beats(y, a)
    BY <2>2, <1>h, Earlier
  <2>7. May(a, r)
    BY <2>3, <2>5, <2>6 DEF May
  <2>8. lapse \subseteq lapse' /\ lapse' \subseteq dev /\ r.here = Stored[a].here
    BY <2>1, <1>t, <1>r DEF r, Record
  <2> QED BY <2>1, <2>2, <2>7, <2>8, <1>t, StoreInv
<1>e. ASSUME Cached[a].phase = "live", Cached[a].prepared, Free(a), Ensure(a)
      PROVE  /\ dev' \subseteq Actors /\ lapse' \subseteq dev'
             /\ \A e \in dev' \ lapse' :
                  e \in dev \ lapse \/ (e = a /\ Held(a) /\ Stored[a].yield = {})
             /\ dev' \ lapse' \subseteq dev \ lapse \/ dev' \ lapse' \subseteq {a}
             /\ \A i \in DOMAIN hist : hist[i][a].prepared
             /\ IF Cached[a].here THEN a \in dev' /\ dev' \ lapse' \subseteq {a}
                                  ELSE a \notin dev'
  <2>1. /\ \A i \in DOMAIN hist : hist[i][a].prepared
        /\ Cached[a].here /\ Conflicts(a, TRUE) = {} => dev \ lapse \subseteq {a}
    BY <1>e, FreeClaim
  <2>2. CASE Cached[a].here
    <3>1. Write(a) /\ dev \ lapse \subseteq {a}
      BY <1>e, <2>1, <2>2 DEF Ensure, Free
    <3>2. /\ dev' \subseteq Actors /\ lapse' \subseteq dev'
          /\ a \in dev' /\ dev' \ lapse' \subseteq (dev \ lapse) \cup {a}
          /\ \A e \in dev' \ lapse' :
               e \in dev \ lapse \/ (e = a /\ Stored[a].yield = {} /\ ~Overlooked(a))
      BY <3>1, <1>w
    <3>3. ~Overlooked(a) => Held(a)
      BY <2>1 DEF Held
    <3> QED BY <2>1, <2>2, <3>1, <3>2, <3>3
  <2>3. CASE ~Cached[a].here
    <3>1. Delete(a)
      BY <1>e, <2>3 DEF Ensure
    <3> QED BY <2>1, <2>3, <3>1, <1>d
  <2> QED BY <2>2, <2>3
<1>2. CASE ApplyEntry(a)
  <2> DEFINE new == Applied(Cached[a])
  <2>1. /\ Cached[a].phase = "live" /\ Cached[a].prepared /\ Free(a)
        /\ fence' = {a} /\ Ensure(a) /\ Begin(a, new)
        /\ UNCHANGED <<cast, want, hist, pass>>
    BY <1>2 DEF ApplyEntry, Prepared, users
  <2>2. /\ new \in Record /\ new.yield = {} /\ new.phase = "live" /\ new.prepared
        /\ new.here = Cached[a].here
    BY <2>1, <1>a
  <2> HIDE DEF new
  <2>3. /\ dev' \subseteq Actors /\ lapse' \subseteq dev'
        /\ \A e \in dev' \ lapse' :
             e \in dev \ lapse \/ (e = a /\ Held(a) /\ Stored[a].yield = {})
        /\ dev' \ lapse' \subseteq dev \ lapse \/ dev' \ lapse' \subseteq {a}
        /\ \A i \in DOMAIN hist : hist[i][a].prepared
        /\ IF new.here THEN a \in dev' /\ dev' \ lapse' \subseteq {a} ELSE a \notin dev'
    BY <2>1, <2>2, <1>e
  <2> QED BY <2>1, <2>2, <2>3, BeginInv
<1>3. CASE ApplyFails(a)
  <2> DEFINE new == Failed(Cached[a], {})
  <2>1. /\ Cached[a].phase = "live" /\ Cached[a].prepared /\ Free(a)
        /\ fence' = {a} /\ (Ensure(a) \/ UNCHANGED <<dev, lapse>>) /\ Begin(a, new)
        /\ UNCHANGED <<cast, want, hist, pass>>
    BY <1>3 DEF ApplyFails, Prepared, users
  <2>2. /\ new \in Record /\ new.yield = {} /\ ~new.applied /\ new.phase = "live" /\ new.prepared
        /\ new.here = Cached[a].here
    BY <2>1, <1>f
  <2> HIDE DEF new
  <2>3. /\ dev' \subseteq Actors /\ lapse' \subseteq dev'
        /\ \A e \in dev' \ lapse' :
             e \in dev \ lapse \/ (e = a /\ Held(a) /\ Stored[a].yield = {})
        /\ dev' \ lapse' \subseteq dev \ lapse \/ dev' \ lapse' \subseteq {a}
    BY <2>1, <1>e, <1>t
  <2> QED BY <2>1, <2>2, <2>3, BeginInv
<1>4. CASE RecordCollides(a)
  <2>1. PICK e \in Actors :
          /\ Cached[a].phase = "live" /\ Cached[a].prepared /\ Loses(a, e, Cached[a].here, TRUE)
          /\ Delete(a) /\ Begin(a, Failed(Cached[a], {e}))
          /\ UNCHANGED <<cast, want, hist, fence, pass>>
    BY <1>4 DEF RecordCollides, Prepared, users
  <2> DEFINE new == Failed(Cached[a], {e})
  <2>2. Beats(e, a)
    BY <2>1 DEF Loses, Conflicts, Beats
  <2>3. /\ new \in Record /\ new.yield = {e} /\ ~new.applied /\ new.phase = "live" /\ new.prepared
        /\ new.here = Cached[a].here
    BY <2>1, <1>f
  <2> HIDE DEF new
  <2> QED BY <2>1, <2>2, <2>3, <1>d, BeginInv DEF new
<1>5. CASE CollisionCleanupFails(a)
  <2>1. PICK e \in Actors :
          /\ Cached[a].phase = "live" /\ Cached[a].prepared /\ Loses(a, e, Cached[a].here, TRUE) /\ a \in dev
          /\ lapse' = lapse \cup {a} /\ Begin(a, Failed(Cached[a], {e}))
          /\ UNCHANGED <<cast, want, hist, dev, fence, pass>>
    BY <1>5 DEF CollisionCleanupFails, Prepared, users
  <2> DEFINE new == Failed(Cached[a], {e})
  <2>2. Beats(e, a)
    BY <2>1 DEF Loses, Conflicts, Beats
  <2>3. /\ new \in Record /\ new.yield = {e} /\ ~new.applied /\ new.phase = "live" /\ new.prepared
        /\ new.here = Cached[a].here
    BY <2>1, <1>f
  <2> HIDE DEF new
  <2>4. /\ dev' \subseteq Actors /\ lapse' \subseteq dev' /\ a \notin dev' \ lapse'
        /\ dev' \ lapse' \subseteq dev \ lapse
    BY <2>1, <1>t
  <2> QED BY <2>1, <2>2, <2>3, <2>4, BeginInv DEF new
<1>6. CASE DependencyLost(a)
  <2> DEFINE new == Failed(Cached[a], {})
  <2>1. /\ Cached[a].phase = "live" /\ Cached[a].prepared /\ Delete(a) /\ Begin(a, new)
        /\ UNCHANGED <<cast, want, hist, fence, pass>>
    BY <1>6 DEF DependencyLost, Prepared, users
  <2>2. /\ new \in Record /\ new.yield = {} /\ ~new.applied /\ new.phase = "live" /\ new.prepared
        /\ new.here = Cached[a].here
    BY <2>1, <1>f
  <2> HIDE DEF new
  <2> QED BY <2>1, <2>2, <1>d, BeginInv
<1>7. CASE FinalizeEntry(a)
  <2>1. /\ Cached[a].phase = "deleting" /\ Delete(a) /\ Begin(a, Blank("gone"))
        /\ UNCHANGED <<cast, want, hist, fence, pass>>
    BY <1>7 DEF FinalizeEntry, users
  <2> QED BY <2>1, <1>d, <1>g, BeginInv
<1> QED BY <1>1, <1>2, <1>3, <1>4, <1>5, <1>6, <1>7

(* The write that ends a pass. *)
LEMMA WriteInv ==
  ASSUME ClaimsInv, NEW a \in Actors, WriteBack(a) \/ WriteLost(a)
  PROVE  ClaimsInv'
<1> DEFINE new == rec.new
<1>0. TypeOK /\ OneHolder /\ RecordsOrdered /\ ComesOrGoes /\ HoldersHeld /\ PassSound
  BY DEF ClaimsInv
<1>t. /\ fence \in {{}} \cup {{b} : b \in Actors}
      /\ dev \subseteq Actors /\ lapse \subseteq dev /\ new \in Record /\ rec.obj \in Record
  BY <1>0 DEF TypeOK
<1>1. /\ rec.actor = {a} /\ rec' = Idle /\ fence' = fence \ {a}
      /\ UNCHANGED <<cast, want, dev, pass>>
  BY DEF WriteBack, WriteLost, EndPass, users
<1>2. /\ \/ /\ rec.obj.phase = "live" /\ rec.obj.prepared /\ new.phase = "live" /\ new.prepared
            /\ new.here = rec.obj.here
         \/ /\ rec.obj.phase = "deleting" /\ new = Blank("gone") /\ a \notin dev
            /\ \A i \in DOMAIN hist : ~(hist[i][a].phase = "live" /\ hist[i][a].prepared)
      /\ \A y \in new.yield : Beats(y, a) /\ a \notin dev \ lapse
      /\ new.applied =>
           /\ new.yield = {} /\ \A i \in DOMAIN hist : hist[i][a].prepared
           /\ IF new.here THEN a \in dev /\ dev \ lapse \subseteq {a} ELSE a \notin dev
  BY <1>0, <1>1 DEF PassSound
<1> HIDE DEF new
<1>3. PassSound'
  BY <1>1 DEF PassSound, Idle
<1>4. /\ fence' \in {{}} \cup {{b} : b \in Actors}
      /\ rec' \in [actor: {{}} \cup {{b} : b \in Actors}, obj: Record, new: Record]
  <2>1. Blank("gone") \in Record
    BY DEF Blank, Record
  <2> QED BY <2>1, <1>1, <1>t DEF Idle
<1>l. ASSUME NEW e \in dev \ lapse'
      PROVE  /\ e \in Actors
             /\ \/ Held(e) /\ Stored[e].yield = {}
                \/ e = a /\ Held(a) /\ new.applied /\ Stored[a] = rec.obj
  <2>1. CASE e \in dev \ lapse
    BY <2>1, <1>0, <1>t DEF HoldersHeld
  <2>2. CASE e \in lapse
    <3>1. e = a /\ new.applied /\ Stored[a] = rec.obj /\ ~Overlooked(a)
      BY <2>2, <1>l DEF WriteBack, WriteLost, new
    <3> QED BY <3>1, <1>2, <1>t, <1>l DEF Held
  <2> QED BY <2>1, <2>2, <1>l
<1>o. OneHolder' /\ lapse' \subseteq dev'
  <2>1. lapse' \subseteq lapse
    BY DEF WriteBack, WriteLost
  <2>2. dev \ lapse' \subseteq dev \ lapse \/ dev \ lapse' \subseteq {a}
    <3>1. lapse' = lapse \/ (lapse' = lapse \ {a} /\ new.applied)
      BY DEF WriteBack, WriteLost, new
    <3> QED BY <3>1, <1>2, <1>t
  <2> QED BY <2>1, <2>2, <1>0, <1>1, <1>t DEF OneHolder
<1>5. CASE UNCHANGED hist /\ (lapse' = lapse \/ new = rec.obj)
  <2>1. RecordsOrdered' /\ ComesOrGoes'
    <3> DEFINE f == [i \in DOMAIN hist' |-> i]
    <3>1. /\ f \in [DOMAIN hist' -> DOMAIN hist]
          /\ \A i, j \in DOMAIN hist' : i < j => f[i] < f[j]
          /\ \A i \in DOMAIN hist' : hist'[i] = hist[f[i]]
      BY <1>5
    <3> HIDE DEF f
    <3> QED BY <3>1, <1>0, Selected
  <2>2. Stored' = Stored /\ \A e : Held(e)' <=> Held(e)
    BY <1>5 DEF Stored, Held, Overlooked, Appliable, generatedClaimHasYieldedTo
  <2>3. TypeOK'
    BY <1>0, <1>1, <1>4, <1>5, <1>o DEF TypeOK
  <2>4. HoldersHeld'
    <3> SUFFICES ASSUME NEW e \in dev \ lapse' PROVE Held(e) /\ Stored[e].yield = {}
      BY <2>2, <1>1 DEF HoldersHeld
    <3>1. CASE lapse' = lapse
      BY <3>1, <1>0 DEF HoldersHeld
    <3>2. CASE new = rec.obj
      BY <3>2, <1>2, <1>l
    <3> QED BY <3>1, <3>2, <1>5
  <2> QED BY <2>1, <2>3, <2>4, <1>3, <1>o DEF ClaimsInv
<1>6. CASE Stored[a] = rec.obj /\ Store(a, new)
  <2>1. Sound(Stored[a]) /\ \A i \in DOMAIN hist :
          /\ hist[i][a] = Stored[a] \/ Follows(hist[i][a], Stored[a])
          /\ Sound(hist[i][a])
    <3>1. DOMAIN hist # {}
      BY <1>0, HistEnds
    <3> QED BY <3>1, Earlier
  <2>2. Stored[a].prepared
    BY <2>1, <1>2, <1>6 DEF Sound
  <2>3. \A i \in DOMAIN hist : Present(hist[i][a])
    BY <2>2, ThereThroughout
  <2>4. Sound(new) /\ \A i \in DOMAIN hist : Follows(hist[i][a], new)
    <3>1. CASE new.phase = "live" /\ new.prepared /\ rec.obj.phase = "live"
      <4>1. \A i \in DOMAIN hist : hist[i][a].phase # "deleting"
        BY <2>1, <3>1, <1>6 DEF Follows
      <4> QED BY <4>1, <3>1, <2>3 DEF Sound, Follows, Present
    <3>2. CASE new = Blank("gone") /\ \A i \in DOMAIN hist : ~(hist[i][a].phase = "live" /\ hist[i][a].prepared)
      BY <3>2 DEF Sound, Follows, Blank
    <3> QED BY <3>1, <3>2, <1>2
  <2>5. May(a, new)
    BY <2>3, <2>4, <1>2 DEF May
  <2>6. RecordsOrdered' /\ ComesOrGoes'
    BY <2>5, <1>0, <1>6, <1>t, StoreOrdered
  <2>7. /\ hist' \in Seq([Actors -> Record]) /\ hist' # <<>>
        /\ Stored'[a] = new /\ \A b \in Actors \ {a} : Stored'[b] = Stored[b]
    BY <1>0, <1>6, <1>t, StoreHist
  <2>8. TypeOK'
    <3> QED BY <2>7, <1>0, <1>1, <1>4, <1>o DEF TypeOK
  <2>10. HoldersHeld'
    <3> SUFFICES ASSUME NEW e \in dev \ lapse' PROVE Held(e)' /\ Stored'[e].yield = {}
      BY <1>1 DEF HoldersHeld
    <3>1. CASE e = a
      <4>1. Held(a) /\ a \in dev
        BY <3>1, <1>l
      <4>2. rec.obj.here /\ rec.obj.prepared
        <5>1. Stored[a].here /\ Stored[a].prepared
          BY <4>1, <1>0, HistEnds DEF Held, Overlooked
        <5> QED BY <5>1, <1>6
      <4>3. new.prepared /\ new.here
        BY <4>1, <4>2, <1>2, <1>6
      <4>4. new.yield = {}
        <5>1. CASE new.applied
          BY <5>1, <1>2
        <5>2. CASE ~new.applied
          <6>1. a \in dev \ lapse
            BY <3>1, <5>2 DEF WriteBack, WriteLost, new
          <6> QED BY <6>1, <1>2
        <5> QED BY <5>1, <5>2
      <4>5. Held(a)'
        BY <4>1, <4>3, <4>4, <1>0, <1>6, <1>t, StoreHeld
      <4> QED BY <3>1, <4>4, <4>5, <2>7
    <3>2. CASE e # a
      <4>1. Held(e) /\ Stored[e].yield = {} /\ e \in Actors
        BY <3>2, <1>l
      <4>2. Held(e)'
        BY <3>2, <4>1, <1>0, <1>6, <1>t, StoreHeld
      <4> QED BY <3>2, <4>1, <4>2, <2>7
    <3> QED BY <3>1, <3>2
  <2> QED BY <2>6, <2>8, <2>10, <1>3, <1>o DEF ClaimsInv
<1> QED BY <1>5, <1>6 DEF WriteBack, WriteLost, new

(* The inductive invariant: whichever version of the records is read, a    *)
(* holder that has not lapsed stands against every record that could be    *)
(* applied, and a pass writes nothing that would let two through.          *)
THEOREM ClaimsInvariant == ClaimsSpec => []ClaimsInv
<1>1. ClaimsInit => ClaimsInv
  BY ClaimsInitInv
<1>2. ClaimsInv /\ [ClaimsNext]_vars => ClaimsInv'
  <2> SUFFICES ASSUME ClaimsInv, [ClaimsNext]_vars PROVE ClaimsInv'
    OBVIOUS
  <2>1. CASE UserStep \/ Deliver \/ Restart
    BY <2>1, EnvironmentInv
  <2>2. ASSUME NEW s \in Sources, Translate(s) \/ SourceAmbiguous(s) \/ CreateFails(s)
        PROVE  ClaimsInv'
    BY <2>2, TranslatorInv
  <2>3. ASSUME NEW a \in Actors,
               \/ Reconcile(a) \/ DependencyLost(a) \/ ApplyFails(a) \/ CollisionCleanupFails(a)
        PROVE  ClaimsInv'
    BY <2>3, PassInv DEF Reconcile
  <2>4. ASSUME NEW a \in Actors, WriteBack(a) \/ WriteLost(a) PROVE ClaimsInv'
    BY <2>4, WriteInv
  <2>5. CASE UNCHANGED vars
    <3>1. /\ UNCHANGED <<cast, hist, dev, rec, lapse>>
          /\ want' = want /\ fence' = fence /\ pass' = pass
      BY <2>5 DEF vars
    <3>2. /\ want \in [Sources -> Wishes] /\ fence \in {{}} \cup {{a} : a \in Actors}
          /\ pass \in [Sources -> {"idle", "here", "away", "delete"}]
      BY DEF ClaimsInv, TypeOK
    <3> QED BY <3>1, <3>2, QuietInv
  <2> QED BY <2>1, <2>2, <2>3, <2>4, <2>5 DEF ClaimsNext, Setback
<1> QED BY <1>1, <1>2, PTL DEF ClaimsSpec

(* The claim check before every apply: no two records have entries for the *)
(* same hostname or port, lapses aside.                                    *)
THEOREM ClaimHasOneHolder == ClaimsSpec => []OneHolder
BY ClaimsInvariant, PTL DEF ClaimsInv

(* Every variable keeps its type. *)
THEOREM ClaimsTypes == ClaimsSpec => []TypeOK
BY ClaimsInvariant, PTL DEF ClaimsInv
================================================================================
