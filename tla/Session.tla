------------------------------ MODULE Session ------------------------------
(***************************************************************************)
(* What a bearer credential promises, independent of how tokens are        *)
(* encoded or tracked.  A credential names the account it was issued to.   *)
(* Credentials are produced by a grant, and a grant for account u needs     *)
(* either u to be Active or a live credential of u to be presented.  A      *)
(* live credential may stop being honoured at any time (expiry,             *)
(* revocation, cache loss).  Presenting a credential authenticates          *)
(* exactly when it is honoured and its account exists, and then yields      *)
(* the account it names.                                                    *)
(***************************************************************************)
CONSTANTS Users,      \* account names
          Creds,      \* every credential value
          Owner(_),   \* the account a credential names
          NoUser      \* the identity of a refused authentication

VARIABLES handedOut,  \* credentials returned to clients
          honoured,   \* handed-out credentials that would be accepted now
          account,    \* account u: "Active", "Inactive" or "Absent"
          lastAuth    \* the outcome of the latest authentication

vars == <<handedOut, honoured, account, lastAuth>>

AccountStates == {"Active", "Inactive", "Absent"}
NoAuth == [cred |-> NoUser, user |-> NoUser]

CredsOf(u) == {c \in Creds : Owner(c) = u}

\* u may obtain credentials: it is Active, or a live credential of u is shown.
MayGrant(u) ==
    \/ account[u] = "Active"
    \/ \E c \in honoured : Owner(c) = u

Init ==
    /\ handedOut = {}
    /\ honoured = {}
    /\ account \in [Users -> AccountStates]
    /\ lastAuth = NoAuth

\* A grant for u hands out credentials of u (none, when it fails) and
\* makes live some credentials of u: new ones, or ones u was already given.
Grant(u) ==
    /\ MayGrant(u)
    /\ handedOut \subseteq handedOut'
    /\ handedOut' \ handedOut \subseteq CredsOf(u)
    /\ honoured \subseteq honoured'
    /\ honoured' \ honoured \subseteq CredsOf(u) \cap handedOut'
    /\ UNCHANGED <<account, lastAuth>>

Revoke ==
    /\ honoured' \subseteq honoured
    /\ UNCHANGED <<handedOut, account, lastAuth>>

Authenticate(c) ==
    /\ c \in handedOut
    /\ lastAuth' = IF c \in honoured /\ account[Owner(c)] # "Absent"
                     THEN [cred |-> c, user |-> Owner(c)]
                     ELSE [cred |-> c, user |-> NoUser]
    /\ UNCHANGED <<handedOut, honoured, account>>

AccountChange(u) ==
    /\ account' \in [Users -> AccountStates]
    /\ \A v \in Users \ {u} : account'[v] = account[v]
    /\ UNCHANGED <<handedOut, honoured, lastAuth>>

Next ==
    \/ \E u \in Users : Grant(u) \/ AccountChange(u)
    \/ Revoke
    \/ \E c \in Creds : Authenticate(c)

Spec == Init /\ [][Next]_vars
=============================================================================
