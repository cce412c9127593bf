------------------------------ MODULE RouterMutex ------------------------------
(***************************************************************************)
(* What the fence registry of internal/controller/router_fence.go promises *)
(* to its callers, with no registry, no reference counts and no channels:  *)
(* for every key at most one goroutine is between the return of acquire    *)
(* and its call of release, and a goroutine whose context ends while it    *)
(* waits goes away without having entered.                                 *)
(***************************************************************************)
CONSTANTS Procs, Keys,
          NoKey  \* not a key: p wants or holds nothing

VARIABLES want,   \* want[p]: the key p asked for and has not left yet
          owner   \* owner[p]: the key p holds

mutexVars == <<want, owner>>

MutexInit ==
  /\ want = [p \in Procs |-> NoKey]
  /\ owner = [p \in Procs |-> NoKey]

Request(p, k) ==
  /\ want[p] = NoKey
  /\ want' = [want EXCEPT ![p] = k]
  /\ UNCHANGED owner

Enter(p) ==
  /\ want[p] # NoKey
  /\ \A q \in Procs : owner[q] # want[p]
  /\ owner' = [owner EXCEPT ![p] = want[p]]
  /\ UNCHANGED want

Leave(p) ==
  /\ owner[p] # NoKey
  /\ owner' = [owner EXCEPT ![p] = NoKey]
  /\ want' = [want EXCEPT ![p] = NoKey]

GiveUp(p) ==
  /\ want[p] # NoKey
  /\ owner[p] = NoKey
  /\ want' = [want EXCEPT ![p] = NoKey]
  /\ UNCHANGED owner

MutexNext ==
  \E p \in Procs :
    \/ \E k \in Keys : Request(p, k)
    \/ Enter(p)
    \/ Leave(p)
    \/ GiveUp(p)

MutexSpec == MutexInit /\ [][MutexNext]_mutexVars
================================================================================
