--------------------------- MODULE MC_RoleBindings ---------------------------
EXTENDS RoleBindings, TLC

MC_NsOrder == <<"n1", "n2">>
\* One namespace: the member listing reads one namespace at a time.
MC_OneNs == <<"n1">>
MC_Symmetry == Permutations(Users)
====
