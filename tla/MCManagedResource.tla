--------------------------- MODULE MCManagedResource ---------------------------
EXTENDS ManagedResource

(* Routers in the namespace of the resource and elsewhere, with equal and  *)
(* different names.                                                        *)
OneLocal == {<<"app", "main">>}
SameNamespace == {<<"app", "edge">>, <<"app", "main">>}
EdgeOnly == {<<"app", "edge">>}

(* References: none, a bare name, a qualified one. *)
ImplicitRef == {<<>>}
LocalRefs == {<<>>, <<"main">>}
MainRefs == {<<>>, <<"app", "main">>}
================================================================================
