--------------------------- MODULE MC_GlobalRoles ---------------------------
EXTENDS GlobalRoles, TLC
====
