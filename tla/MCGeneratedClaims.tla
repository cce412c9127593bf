--------------------------- MODULE MCGeneratedClaims ---------------------------
EXTENDS GeneratedClaims

CONSTANTS d1, d2, d3, s1, s2

(* Keys are compared among direct records, and among sources. *)
Ranked == [a \in Actors |->
             CASE a = s1 -> 1 [] a = d1 -> 2 [] a = d2 -> 3 [] a = d3 -> 4 [] a = s2 -> 5]

Playing(actors, movers) == [actors |-> actors, movers |-> movers]

(* Every pair of kinds, with one that is re-pointed for each way to be, and *)
(* three records.                                                          *)
Contenders ==
  {Playing({d1, d2}, {d2}), Playing({d1, s2}, {s2}), Playing({s1, s2}, {}),
   Playing({d1, d2, d3}, {})}

(* FairClaimsSpec, with less to check: whom a slot stands for is fixed by  *)
(* the cast, which has one actor of each slot at most, and actors outside  *)
(* the cast never act.                                                     *)
Slot == [a \in Actors |-> CASE a \in {d1, s1} -> 1 [] a \in {d2, s2} -> 2 [] a = d3 -> 3]

FairCastSpec ==
  /\ ClaimsSpec
  /\ WF_vars(Deliver)
  /\ WF_vars(\E a \in Actors : WriteBack(a))
  /\ \A i \in {1, 2, 3} : SF_vars(\E a \in Actors : Slot[a] = i /\ Reconcile(a))
  /\ \A i \in {1, 2} : WF_vars(\E s \in Sources : Slot[s] = i /\ Translate(s))
================================================================================
