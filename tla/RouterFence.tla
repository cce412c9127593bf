------------------------------ MODULE RouterFence ------------------------------
(***************************************************************************)
(* The fence registry of internal/controller/router_fence.go: a map from   *)
(* router keys to reference-counted entries, each with a one-slot channel  *)
(* that carries the token of the critical section.  Entries are created on *)
(* first use and dropped by the last goroutine that refers to them, so a   *)
(* key is guarded by a different entry every time it falls out of use:     *)
(* mutual exclusion per key rests on the reference counts.                 *)
(*                                                                         *)
(* registry.mu makes the bodies of acquire (up to the select) and of       *)
(* releaseReference atomic; the channel operations happen outside it, so   *)
(* each is a step of its own.  Two registries exist (routerOperationFences *)
(* and generatedClaimFences); this module is one of them.                  *)
(***************************************************************************)
EXTENDS Naturals, FiniteSets

CONSTANTS Procs,    \* goroutines: one worker per controller
          Keys,     \* namespaced names of MikroTikRouters
          Entries,  \* identities of *routerFenceEntry on the heap
          NoEntry,  \* the nil entry
          NoKey     \* "no key", for the abstract view

ASSUME FenceAssumption ==
  /\ IsFiniteSet(Procs)
  /\ NoEntry \notin Entries
  /\ NoKey \notin Keys

VARIABLES entries,  \* registry.entries
          token,    \* token[e]: number of tokens in the channel of entry e
          refs,     \* refs[e]: entry.refs
          pc,       \* where each goroutine is in acquire / release
          key,      \* the key of its call
          ent       \* the entry its call works on

fenceVars == <<entries, token, refs, pc, key, ent>>

Locations == {"idle", "waiting", "holding", "returned", "cancelled"}

TypeOK ==
  /\ entries \in [Keys -> Entries \cup {NoEntry}]
  /\ token \in [Entries -> 0 .. 1]
  /\ refs \in [Entries -> Nat]
  /\ pc \in [Procs -> Locations]
  /\ key \in [Procs -> Keys \cup {NoKey}]
  /\ ent \in [Procs -> Entries \cup {NoEntry}]

(* The goroutines that hold a pointer to entry e. *)
Referrers(e) == {p \in Procs : ent[p] = e}

(* Memory a new entry may occupy: nothing refers to it any more. *)
Unreferenced == {e \in Entries : Referrers(e) = {} /\ \A k \in Keys : entries[k] # e}

FenceInit ==
  /\ entries = [k \in Keys |-> NoEntry]
  /\ token = [e \in Entries |-> 0]
  /\ refs = [e \in Entries |-> 0]
  /\ pc = [p \in Procs |-> "idle"]
  /\ key = [p \in Procs |-> NoKey]
  /\ ent = [p \in Procs |-> NoEntry]

--------------------------------------------------------------------------------
(* acquire, the section under registry.mu: create the entry, or join it. *)

\* Mutant: the channel of an entry is made with two tokens.
CreateTwoTokens(p, k, e) ==
  /\ entries[k] = NoEntry
  /\ e \in Unreferenced
  /\ entries' = [entries EXCEPT ![k] = e]
  /\ token' = [token EXCEPT ![e] = 2]
  /\ refs' = [refs EXCEPT ![e] = 1]
  /\ ent' = [ent EXCEPT ![p] = e]

Create(p, k, e) ==
  /\ entries[k] = NoEntry
  /\ e \in Unreferenced
  /\ entries' = [entries EXCEPT ![k] = e]
  /\ token' = [token EXCEPT ![e] = 1]
  /\ refs' = [refs EXCEPT ![e] = 1]
  /\ ent' = [ent EXCEPT ![p] = e]

\* Mutant: refs++ only where the entry is created.
JoinUncounted(p, k) ==
  /\ entries[k] # NoEntry
  /\ ent' = [ent EXCEPT ![p] = entries[k]]
  /\ UNCHANGED <<entries, token, refs>>

Join(p, k) ==
  /\ entries[k] # NoEntry
  /\ refs' = [refs EXCEPT ![entries[k]] = @ + 1]
  /\ ent' = [ent EXCEPT ![p] = entries[k]]
  /\ UNCHANGED <<entries, token>>

Acquire(p, k) ==
  /\ pc[p] = "idle"
  /\ (\E e \in Entries : Create(p, k, e)) \/ Join(p, k)
  /\ pc' = [pc EXCEPT ![p] = "waiting"]
  /\ key' = [key EXCEPT ![p] = k]

(* The select of acquire: receive the token, or see the context done. *)

\* Mutant: acquire looks at the channel without receiving from it.
PeekToken(p) ==
  /\ pc[p] = "waiting"
  /\ token[ent[p]] = 1
  /\ pc' = [pc EXCEPT ![p] = "holding"]
  /\ UNCHANGED <<entries, token, refs, key, ent>>

\* Mutant: acquire goes on without waiting for the token.
EnterAnyway(p) ==
  /\ pc[p] = "waiting"
  /\ token' = [token EXCEPT ![ent[p]] = 0]
  /\ pc' = [pc EXCEPT ![p] = "holding"]
  /\ UNCHANGED <<entries, refs, key, ent>>

TakeToken(p) ==
  /\ pc[p] = "waiting"
  /\ token[ent[p]] = 1
  /\ token' = [token EXCEPT ![ent[p]] = 0]
  /\ pc' = [pc EXCEPT ![p] = "holding"]
  /\ UNCHANGED <<entries, refs, key, ent>>

ContextDone(p) ==
  /\ pc[p] = "waiting"
  /\ pc' = [pc EXCEPT ![p] = "cancelled"]
  /\ UNCHANGED <<entries, token, refs, key, ent>>

(* The release closure: send the token back, which blocks while the one    *)
(* slot of the channel is taken; then drop the reference.                  *)

\* Mutant: release drops the reference and keeps the token.
KeepToken(p) ==
  /\ pc[p] = "holding"
  /\ pc' = [pc EXCEPT ![p] = "returned"]
  /\ UNCHANGED <<entries, token, refs, key, ent>>

ReturnToken(p) ==
  /\ pc[p] = "holding"
  /\ token[ent[p]] = 0
  /\ token' = [token EXCEPT ![ent[p]] = 1]
  /\ pc' = [pc EXCEPT ![p] = "returned"]
  /\ UNCHANGED <<entries, refs, key, ent>>

\* Mutant: the last goroutine leaves the entry in the map.
ReleaseKeepsEntry(p) ==
  /\ pc[p] \in {"returned", "cancelled"}
  /\ refs' = [refs EXCEPT ![ent[p]] = @ - 1]
  /\ pc' = [pc EXCEPT ![p] = "idle"]
  /\ key' = [key EXCEPT ![p] = NoKey]
  /\ ent' = [ent EXCEPT ![p] = NoEntry]
  /\ UNCHANGED <<entries, token>>

ReleaseReference(p) ==
  LET e == ent[p]
      k == key[p]
  IN /\ pc[p] \in {"returned", "cancelled"}
     /\ refs' = [refs EXCEPT ![e] = @ - 1]
     /\ entries' = IF refs[e] = 1 /\ entries[k] = e
                     THEN [entries EXCEPT ![k] = NoEntry]
                     ELSE entries
     /\ pc' = [pc EXCEPT ![p] = "idle"]
     /\ key' = [key EXCEPT ![p] = NoKey]
     /\ ent' = [ent EXCEPT ![p] = NoEntry]
     /\ UNCHANGED token

FenceNext ==
  \E p \in Procs :
    \/ \E k \in Keys : Acquire(p, k)
    \/ TakeToken(p)
    \/ ContextDone(p)
    \/ ReturnToken(p)
    \/ ReleaseReference(p)

FenceSpec == FenceInit /\ [][FenceNext]_fenceVars

(* A holder runs its operation to the end (every RouterOS call has a       *)
(* timeout) and releases; a goroutine queued on a Go channel receives the  *)
(* token if it keeps becoming available (receivers are served in order).   *)
FenceFairness ==
  \A p \in Procs :
    /\ WF_fenceVars(ReturnToken(p))
    /\ WF_fenceVars(ReleaseReference(p))
    /\ SF_fenceVars(TakeToken(p))

FairFenceSpec == FenceSpec /\ FenceFairness

--------------------------------------------------------------------------------
(* Every entry is counted exactly: refs is the number of goroutines that   *)
(* still point to it (acquire increments, releaseReference decrements).    *)
RefsExact == \A e \in Entries : refs[e] = Cardinality(Referrers(e))

(* A goroutine inside acquire or release works on the entry registered for *)
(* its key: nobody is left waiting on an entry that a later acquire of the *)
(* same key would not find.                                                *)
OneEntryPerKey == \A p \in Procs : pc[p] # "idle" => entries[key[p]] = ent[p]

(* An entry serves one key only. *)
EntriesDistinct ==
  \A k, l \in Keys : entries[k] = entries[l] /\ entries[k] # NoEntry => k = l

(* The token of a registered entry is in its channel or with one holder. *)
TokenConserved ==
  \A p \in Procs :
    pc[p] = "holding" =>
      /\ token[ent[p]] = 0
      /\ \A q \in Procs \ {p} : pc[q] = "holding" => ent[q] # ent[p]

(* An entry whose token is out of the channel has a holder. *)
TokenNotLost ==
  \A k \in Keys : entries[k] # NoEntry =>
     \/ token[entries[k]] = 1
     \/ \E p \in Procs : pc[p] = "holding" /\ ent[p] = entries[k]

(* What the callers rely on: two goroutines never hold the fence of the    *)
(* same router, however often its entry is dropped and created again.      *)
MutualExclusion ==
  \A p, q \in Procs :
    pc[p] = "holding" /\ pc[q] = "holding" /\ key[p] = key[q] => p = q

(* The registry holds no entry nobody uses: it would grow with every       *)
(* router ever seen.                                                       *)
NoIdleEntry ==
  \A k \in Keys : entries[k] # NoEntry => \E p \in Procs : key[p] = k

(* A goroutine points to an entry and carries a key exactly while it is in *)
(* a call.                                                                 *)
CallsHaveEntries ==
  \A p \in Procs :
    /\ pc[p] # "idle" => ent[p] \in Entries /\ key[p] \in Keys
    /\ pc[p] = "idle" => ent[p] = NoEntry /\ key[p] = NoKey

(* Why the fence works, as one inductive invariant: counts are exact, so   *)
(* an entry leaves the map only with its last goroutine, so all goroutines *)
(* on a key share one entry and its one token.                             *)
FenceInv ==
  /\ RefsExact
  /\ OneEntryPerKey
  /\ EntriesDistinct
  /\ TokenConserved
  /\ TokenNotLost
  /\ CallsHaveEntries
  /\ NoIdleEntry

(* Whoever waits for a fence gets it or sees its context done. *)
WaitersServed ==
  \A p \in Procs : pc[p] = "waiting" ~> pc[p] \in {"holding", "cancelled"}

(* The registry implements a plain mutual exclusion per key. *)
WantView == [p \in Procs |->
  IF pc[p] \in {"waiting", "holding"} THEN key[p] ELSE NoKey]
OwnerView == [p \in Procs |-> IF pc[p] = "holding" THEN key[p] ELSE NoKey]

Mutex == INSTANCE RouterMutex WITH want <- WantView, owner <- OwnerView

ImplementsMutex == Mutex!MutexSpec
================================================================================
