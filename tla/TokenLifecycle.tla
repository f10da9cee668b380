--------------------------- MODULE TokenLifecycle ---------------------------
(***************************************************************************)
(* The token subsystem: tokenOperator.IssueTo and Verify over the token     *)
(* cache (pkg/middles/auth/token.go), the password, refresh_token and       *)
(* static-token endpoints (pkg/aiapis/oauth/handler.go) and bearer          *)
(* authentication (authoricators/jwttoken/jwt_token.go).                    *)
(*                                                                         *)
(* The JWT issuer and the cache implementation are not in this repository;  *)
(* they are modelled from the specification: a token is a self-describing  *)
(* signed string that encodes its subject, kind, issue second and expiry,  *)
(* so two tokens with equal claims are the same string; a cache key lives  *)
(* until its TTL has elapsed.                                               *)
(***************************************************************************)
EXTENDS Naturals, FiniteSets

CONSTANTS Users,       \* account names
          MaxAge,      \* OAuthOptions.AccessTokenMaxAge, in seconds (0: never expire)
          Inactivity,  \* OAuthOptions.AccessTokenInactivityTimeout, in seconds
          Skew,        \* MaximumClockSkew tolerated by the expiry check
          MaxTime,     \* last second explored
          NoExpiry,    \* the expiry of a token issued with expiresIn 0
          NoUser       \* identity of a refused bearer authentication

ASSUME MaxAge \in Nat /\ Inactivity \in Nat /\ Skew \in Nat /\ MaxTime \in Nat

VARIABLES userState,   \* User objects as the API server's informer lists them
          cache,       \* token cache entries [tok, deadline]
          held,        \* tokens returned to clients by a successful request
          lastAuth,    \* outcome of the latest bearer authentication
          clock        \* current second

vars == <<userState, cache, held, lastAuth, clock>>

\* "None": created, not yet reconciled (Status.State nil); "Absent": no User.
UserStates == {"Absent", "None", "Active", "Disabled", "AuthLimitExceeded"}
Kinds == {"access_token", "refresh_token", "static_token"}
Expiries == 0..(MaxTime + MaxAge + Inactivity) \cup {NoExpiry}
Token == [sub : Users, kind : Kinds, iat : 0..MaxTime, exp : Expiries]
NoAuth == [tok |-> NoUser, user |-> NoUser]

(***************************************************************************)
(* Issuer (specification): IssueTo mints the claims; Verify checks the     *)
(* signature and the expiry with the clock-skew leeway.                     *)
(***************************************************************************)
MintMillis(u, kind, expiresIn) ==
    [sub |-> u, kind |-> kind, iat |-> clock,
     exp |-> IF expiresIn = 0 THEN NoExpiry ELSE clock + expiresIn * 1000]

Mint(u, kind, expiresIn) ==
    [sub |-> u, kind |-> kind, iat |-> clock,
     exp |-> IF expiresIn = 0 THEN NoExpiry ELSE clock + expiresIn]

SignatureValid(t) == IF t.exp = NoExpiry THEN TRUE ELSE clock <= t.exp + Skew

(***************************************************************************)
(* Cache (specification): Set replaces the key and its TTL, Exists sees a  *)
(* key until its TTL has elapsed.  The key ai:user:<name>:token:<token>    *)
(* is determined by the token, which names its subject.                    *)
(***************************************************************************)
Cached(t) == \E e \in cache : e.tok = t

CacheSetLongTTL(c, t, d) == {e \in c : e.tok # t} \cup {[tok |-> t, deadline |-> clock + d + 1]}

CacheSet(c, t, d) == {e \in c : e.tok # t} \cup {[tok |-> t, deadline |-> clock + d]}

(***************************************************************************)
(* tokenOperator.Verify: the issuer's check, then the cache membership     *)
(* check unless max age is 0 or the token is static.                        *)
(***************************************************************************)
Verify(t) ==
    /\ SignatureValid(t)
    /\ \/ MaxAge = 0
       \/ t.kind = "static_token"
       \/ Cached(t)

BearerOkNoUserCheck(t) == Verify(t)

\* tokenAuthenticator.AuthenticateToken: Verify, then the User must be listed.
BearerOk(t) == Verify(t) /\ userState[t.sub] # "Absent"

(***************************************************************************)
(* tokenOperator.IssueTo.  A static token is requested with explicit ages  *)
(* 0 and 0.  Both tokens are cached only when the access age is positive;  *)
(* the two Sets are separate calls, and a failing one ends IssueTo with an *)
(* error after what was already cached.  The result is                      *)
(* [cache |-> new cache, issued |-> tokens returned to the client].         *)
(***************************************************************************)
Outcomes(static) ==
    IF static THEN {"ok"} ELSE
    IF MaxAge > 0 THEN {"ok", "accessSetFailed", "refreshSetFailed"} ELSE {"ok"}

IssueTo(u, static, outcome) ==
    LET accessExpiresIn  == IF static THEN 0 ELSE MaxAge
        refreshExpiresIn == accessExpiresIn + (IF static THEN 0 ELSE Inactivity)
        access  == Mint(u, IF static THEN "static_token" ELSE "access_token", accessExpiresIn)
        refresh == Mint(u, "refresh_token", refreshExpiresIn)
        c1 == CacheSet(cache, access, accessExpiresIn)
        c2 == CacheSet(c1, refresh, refreshExpiresIn)
    IN  CASE accessExpiresIn = 0        -> [cache |-> cache, issued |-> {access, refresh}]
          [] outcome = "accessSetFailed"  -> [cache |-> cache, issued |-> {}]
          [] outcome = "refreshSetFailed" -> [cache |-> c1, issued |-> {}]
          [] OTHER                        -> [cache |-> c2, issued |-> {access, refresh}]

ApplyIssue(r) ==
    /\ cache' = r.cache
    /\ held' = held \cup r.issued

(***************************************************************************)
(* Endpoints.                                                               *)
(***************************************************************************)

\* handler.passwordGrant with the correct password: DescribeUser, then
\* Authenticate refuses every state but Active, then IssueTo.  A wrong
\* password issues nothing here (its LoginRecord is AccountLockout's).
PasswordGrant(u, outcome) ==
    /\ userState[u] = "Active"
    /\ ApplyIssue(IssueTo(u, FALSE, outcome))
    /\ UNCHANGED <<userState, lastAuth, clock>>

\* handler.refreshTokenGrant: Verify the presented token, IssueTo its subject.
RefreshGrant(t, outcome) ==
    /\ t \in held
    /\ Verify(t)
    /\ ApplyIssue(IssueTo(t.sub, FALSE, outcome))
    /\ UNCHANGED <<userState, lastAuth, clock>>

\* handler.createToken (POST /oauth/statictoken) for the request's user,
\* authenticated by Basic (password of an Active User) or by a bearer token.
CreateStaticToken(u) ==
    /\ \/ userState[u] = "Active"
       \/ \E t \in held : t.sub = u /\ BearerOk(t)
    /\ ApplyIssue(IssueTo(u, TRUE, "ok"))
    /\ UNCHANGED <<userState, lastAuth, clock>>

\* A request presenting "Authorization: Bearer <t>".
BearerAuthenticate(t) ==
    /\ t \in held
    /\ lastAuth' = IF BearerOk(t) THEN [tok |-> t, user |-> t.sub]
                                  ELSE [tok |-> t, user |-> NoUser]
    /\ UNCHANGED <<userState, cache, held, clock>>

(***************************************************************************)
(* Environment: administrators and the User controller change Users; a    *)
(* cache key is deleted (forced revocation) or the in-memory cache is lost *)
(* with its process; time passes and TTLs elapse.                          *)
(***************************************************************************)
SetUserState(u) ==
    /\ \E s \in UserStates \ {userState[u]} : userState' = [userState EXCEPT ![u] = s]
    /\ UNCHANGED <<cache, held, lastAuth, clock>>

RevokeToken(t) ==
    /\ Cached(t)
    /\ cache' = {e \in cache : e.tok # t}
    /\ UNCHANGED <<userState, held, lastAuth, clock>>

CacheLost ==
    /\ cache # {}
    /\ cache' = {}
    /\ UNCHANGED <<userState, held, lastAuth, clock>>

Tick ==
    /\ clock < MaxTime
    /\ clock' = clock + 1
    /\ cache' = {e \in cache : e.deadline > clock + 1}
    /\ UNCHANGED <<userState, held, lastAuth>>

Init ==
    /\ userState \in [Users -> UserStates]
    /\ cache = {}
    /\ held = {}
    /\ lastAuth = NoAuth
    /\ clock = 0

Next ==
    \/ \E u \in Users, o \in Outcomes(FALSE) : PasswordGrant(u, o)
    \/ \E t \in held, o \in Outcomes(FALSE) : RefreshGrant(t, o)
    \/ \E u \in Users : CreateStaticToken(u) \/ SetUserState(u)
    \/ \E t \in held : BearerAuthenticate(t) \/ RevokeToken(t)
    \/ CacheLost
    \/ Tick

Spec == Init /\ [][Next]_vars

(***************************************************************************)
(* Properties.                                                              *)
(***************************************************************************)
TypeOK ==
    /\ userState \in [Users -> UserStates]
    /\ cache \subseteq [tok : Token, deadline : Nat]
    /\ held \subseteq Token
    /\ lastAuth \in {NoAuth} \cup [tok : Token, user : Users \cup {NoUser}]
    /\ clock \in 0..MaxTime

\* Refinement: IssueTo/Verify over the cache implement the Session promise.
\* A token is honoured when Verify accepts it; the account states the code
\* refuses at login ("None", "Disabled", "AuthLimitExceeded") are Inactive.
AbstractAccount(s) == IF s \in {"Active", "Absent"} THEN s ELSE "Inactive"

Abstract == INSTANCE Session
    WITH Creds <- Token,
         Owner <- LAMBDA t : t.sub,
         handedOut <- held,
         honoured <- {t \in held : Verify(t)},
         account <- [u \in Users |-> AbstractAccount(userState[u])],
         lastAuth <- IF lastAuth = NoAuth THEN [cred |-> NoUser, user |-> NoUser]
                     ELSE [cred |-> lastAuth.tok, user |-> lastAuth.user]

\* Bearer authentication accepts exactly the honoured tokens of existing
\* accounts, tokens are produced only for an Active account or on a live
\* token of the same account, and nothing else makes a token live.
ImplementsSession == Abstract!Spec

\* With a positive AccessTokenMaxAge, the cache TTLs set by IssueTo bound
\* how long Verify accepts an access token (MaxAge) or a refresh token
\* (MaxAge + inactivity timeout), although the JWT expiry check tolerates
\* MaximumClockSkew more.
Lifetime(kind) == IF kind = "access_token" THEN MaxAge ELSE MaxAge + Inactivity

HonouredWithinLifetime ==
    MaxAge > 0 =>
        \A t \in held :
            (Verify(t) /\ t.kind # "static_token") => clock < t.iat + Lifetime(t.kind)

\* The specification: a static token is exempt from refresh semantics
\* (only a refresh token should be exchanged at the refresh_token grant).
\* handler.refreshTokenGrant calls Verify, which accepts every kind.
RefreshOnlyWithRefreshToken ==
    [][\A t \in held, o \in Outcomes(FALSE) :
          RefreshGrant(t, o) => t.kind = "refresh_token"]_vars

=============================================================================
