------------------------------ MODULE AuthChain ------------------------------
(***************************************************************************)
(* One request through the authentication and authorization filters that   *)
(* APIServer.buildHandlerChain installs (pkg/aiserver/aiserver.go):         *)
(* WithAuthentication over the union of the anonymous, Basic and bearer    *)
(* authenticators, then WithAuthorization over the union of the path       *)
(* allowlist and the role-binding authorizer.                               *)
(*                                                                         *)
(* Request classification is RequestClassifier's; here it has succeeded    *)
(* and the attributes reach the authorizers.  The store state a request    *)
(* meets is chosen in Init, the request is served in one step.  The k8s    *)
(* authenticator union, the anonymous and bearer header authenticators,    *)
(* WithAuthentication and the role-binding authorizer are not in this      *)
(* repository: they are modelled from the specification.                   *)
(***************************************************************************)
EXTENDS Naturals, Sequences, SequencesExt

CONSTANTS Users,          \* account names
          Orders,         \* member orders of the authenticator union explored
          AllowPaths,     \* alwaysAllowPaths given to path.NewAuthorizer
          PathChars,      \* characters of request paths
          MaxPathLen,     \* longest request path explored
          CookiePaths,    \* paths explored for requests that carry a Cookie
          Anonymous,      \* system:anonymous
          NoUser          \* identity of an unauthenticated outcome

ASSUME Orders \subseteq Seq({"anonymous", "basic", "bearer"})

VARIABLES authenticators, \* the authenticator union's members, in order
          userState,   \* Users as the users lister returns them
          hasPassword, \* Spec.EncryptedPassword # ""
          rbacAllows,  \* whether the bound roles of an identity cover the request
          rbacErr,     \* the role-binding store fails to answer
          req,         \* the request
          resp         \* the response written, NoResp until served

vars == <<authenticators, userState, hasPassword, rbacAllows, rbacErr, req, resp>>

UserStates == {"Absent", "None", "Active", "Disabled", "AuthLimitExceeded"}
Identities == Users \cup {Anonymous}

\* The members of buildHandlerChain's unions, in the order they are given.
ShippedAuthenticators == <<"anonymous", "basic", "bearer">>
AuthzMembersRbacFirst == <<"rbac", "path">>
AuthzMembers == <<"path", "rbac">>

\* A credential the request carries: no Authorization header, a Basic
\* header (password right, wrong or empty) or a bearer token naming its
\* subject and whether tokenOperator.Verify accepts it.
Creds ==
    {[kind |-> "none"]}
    \cup [kind : {"basic"}, user : Users, pwd : {"right", "wrong", ""}]
    \cup [kind : {"bearer"}, sub : Users, valid : BOOLEAN]

Paths == {<<"/">> \o s : s \in BoundedSeq(PathChars, MaxPathLen - 1)}

\* An element of the Cookie header: X-Ai-Authorization=<token> (a token as
\* in Creds) or any other cookie. The browser joins the elements with "; ",
\* so every element after the first starts with a space. A cookie whose
\* value merely contains the marker yields a token that never verifies,
\* which is a token with valid = FALSE.
CookieElems == {[tok |-> FALSE]} \cup [tok : {TRUE}, sub : Users, valid : BOOLEAN]
Cookies == BoundedSeq(CookieElems, 2)

\* A request: its path, its Authorization header (kind "none" when it has
\* none), whether it asks for a websocket Upgrade, and its Cookie header.
\* Requests without cookies are explored on every path, those with a
\* cookie on CookiePaths.
Requests ==
    [path : Paths, cred : Creds, upgrade : {FALSE}, cookie : {<<>>}]
    \cup [path : CookiePaths, cred : Creds, upgrade : BOOLEAN, cookie : Cookies]
NoResp == [code |-> 0]

(***************************************************************************)
(* WithRequestInfo: a websocket request without an Authorization header    *)
(* gets one made from its cookie.                                           *)
(***************************************************************************)
\* stringutils.GetAuthorizationFromCookie: "Bearer " and the first element
\* containing the marker, with the marker cut out; "" when there is none.
\* Past the first element the leading space stays, the header reads
\* "Bearer  <token>" and the bearer authenticator's split on single spaces
\* finds an empty token: such a header matches no authenticator.
GetAuthorizationFromCookie(cookie) ==
    LET marked == {i \in DOMAIN cookie : cookie[i].tok}
    IN  IF marked = {} THEN [kind |-> "none"]
        ELSE LET i == Min(marked)
             IN  IF i = 1 THEN [kind |-> "bearer", sub |-> cookie[i].sub, valid |-> cookie[i].valid]
                 ELSE [kind |-> "emptyBearer"]

AuthorizationHeaderAlways(r) ==
    IF r.upgrade /\ GetAuthorizationFromCookie(r.cookie).kind # "none"
    THEN GetAuthorizationFromCookie(r.cookie) ELSE r.cred

\* The Authorization header the authenticators see.
AuthorizationHeader(r) ==
    IF r.upgrade /\ r.cred.kind = "none" /\ GetAuthorizationFromCookie(r.cookie).kind # "none"
    THEN GetAuthorizationFromCookie(r.cookie) ELSE r.cred

(***************************************************************************)
(* Authentication.  A member's result: whether it matched, whether it      *)
(* returned an error, the identity, and the usernames it recorded a failed *)
(* login for.                                                               *)
(***************************************************************************)
NoMatch == [ok |-> FALSE, err |-> FALSE, user |-> NoUser, rec |-> {}]
Failed(rec) == [NoMatch EXCEPT !.err = TRUE, !.rec = rec]
Matched(u) == [NoMatch EXCEPT !.ok = TRUE, !.user = u]

\* passwordAuthenticator.Authenticate for a username found by name.
PasswordOutcome(u, pwd) ==
    CASE pwd = ""                                      -> "IncorrectPassword"
      [] userState[u] \in {"None", "Disabled"}         -> "AccountIsNotActive"
      [] userState[u] = "AuthLimitExceeded"            -> "RateLimitExceeded"
      [] userState[u] = "Active" /\ hasPassword[u]     ->
             IF pwd = "right" THEN "ok" ELSE "IncorrectPassword"
      [] OTHER                                         -> "IncorrectPassword"

RecordsRateLimit(o) == o = "RateLimitExceeded"

\* basicAuthenticator records a failed login only for IncorrectPasswordError.
RecordsFailure(o) == o = "IncorrectPassword"

\* basictoken.Authenticator over basicAuthenticator.AuthenticatePassword.
BasicResult(c) ==
    IF c.kind # "basic" THEN NoMatch
    ELSE LET o == PasswordOutcome(c.user, c.pwd)
         IN  IF o = "ok" THEN Matched(c.user)
             ELSE Failed(IF RecordsFailure(o) THEN {c.user} ELSE {})

BearerResultNoLister(c) ==
    CASE c.kind # "bearer" -> NoMatch
      [] ~c.valid          -> Failed({})
      [] OTHER             -> Matched(c.sub)

\* bearertoken.Authenticator over tokenAuthenticator.AuthenticateToken:
\* Verify, then the users lister must find the subject.
BearerResult(c) ==
    CASE c.kind # "bearer"             -> NoMatch
      [] ~c.valid                      -> Failed({})
      [] userState[c.sub] = "Absent"   -> Failed({})
      [] OTHER                         -> Matched(c.sub)

AuthnMember(m, c) ==
    CASE m = "anonymous" -> Matched(Anonymous)
      [] m = "basic"     -> BasicResult(c)
      [] m = "bearer"    -> BearerResult(c)

\* The k8s authenticator union: a member's error is kept and the next one
\* is tried; the first match without error wins; otherwise no match, with
\* the errors aggregated.  Failed logins recorded on the way persist.
RECURSIVE AuthnFrom(_, _, _)
AuthnFrom(i, c, acc) ==
    IF i > Len(authenticators) THEN acc
    ELSE LET r    == AuthnMember(authenticators[i], c)
             next == [acc EXCEPT !.err = acc.err \/ r.err, !.rec = acc.rec \cup r.rec]
         IN  IF ~r.err /\ r.ok THEN [next EXCEPT !.ok = TRUE, !.user = r.user]
             ELSE AuthnFrom(i + 1, c, next)

AuthenticateRequest(c) == AuthnFrom(1, c, NoMatch)

(***************************************************************************)
(* Authorization.                                                           *)
(***************************************************************************)
TrimSlash(s) == IF s # <<>> /\ Head(s) = "/" THEN Tail(s) ELSE s

\* path.NewAuthorizer: an entry ending in * is a prefix, any other one
\* (the empty one, for "/", included) an exact path.
IsPrefixEntry(p) == p # <<>> /\ Last(p) = "*"

AllowExact == {TrimSlash(p) : p \in {p \in AllowPaths : ~IsPrefixEntry(TrimSlash(p))}}

AllowPrefixesShort == {SubSeq(TrimSlash(p), 1, Len(TrimSlash(p)) - 2) :
                           p \in {p \in AllowPaths : IsPrefixEntry(TrimSlash(p))}}

AllowPrefixes == {Front(TrimSlash(p)) : p \in {p \in AllowPaths : IsPrefixEntry(TrimSlash(p))}}

PathAuthorize(path) ==
    LET pth == TrimSlash(path)
    IN  IF pth \in AllowExact \/ \E pre \in AllowPrefixes : IsPrefix(pre, pth)
        THEN [decision |-> "Allow", err |-> FALSE]
        ELSE [decision |-> "NoOpinion", err |-> FALSE]

\* The role-binding authorizer (specification): Allow when a bound role
\* covers the request, otherwise NoOpinion; a store failure is an error.
RbacAuthorize(u) ==
    IF rbacErr THEN [decision |-> "NoOpinion", err |-> TRUE]
    ELSE [decision |-> IF rbacAllows[u] THEN "Allow" ELSE "NoOpinion", err |-> FALSE]

AuthzMember(m, path, u) ==
    IF m = "path" THEN PathAuthorize(path) ELSE RbacAuthorize(u)

\* unionAuthzHandler.Authorize: the first Allow or Deny is returned with
\* its own error; after all NoOpinion, NoOpinion with the errors aggregated.
RECURSIVE AuthzFrom(_, _, _, _, _)
AuthzFrom(i, path, u, err, asked) ==
    IF i > Len(AuthzMembers)
    THEN [decision |-> "NoOpinion", err |-> err, asked |-> asked]
    ELSE LET r == AuthzMember(AuthzMembers[i], path, u)
         IN  IF r.decision \in {"Allow", "Deny"}
             THEN [decision |-> r.decision, err |-> r.err,
                   asked |-> asked \cup {AuthzMembers[i]}]
             ELSE AuthzFrom(i + 1, path, u, err \/ r.err, asked \cup {AuthzMembers[i]})

Authorize(path, u) == AuthzFrom(1, path, u, FALSE, {})

(***************************************************************************)
(* The filters.  WithAuthentication (specification) answers 401 when the   *)
(* union does not match; WithAuthorization serves an Allow, answers 500    *)
(* for an error and 403 otherwise.                                          *)
(***************************************************************************)
Handle(r) ==
    LET a == AuthenticateRequest(AuthorizationHeader(r))
    IN  IF ~a.ok THEN [code |-> 401, user |-> NoUser, rec |-> a.rec, asked |-> {}]
        ELSE LET z == Authorize(r.path, a.user)
             IN  [code  |-> CASE z.decision = "Allow" -> 200
                              [] z.err                -> 500
                              [] OTHER                -> 403,
                  user  |-> a.user,
                  rec   |-> a.rec,
                  asked |-> z.asked]

Init ==
    /\ authenticators \in Orders
    /\ userState \in [Users -> UserStates]
    /\ hasPassword \in [Users -> BOOLEAN]
    /\ rbacAllows \in [Identities -> BOOLEAN]
    /\ rbacErr \in BOOLEAN
    /\ req \in Requests
    /\ resp = NoResp

Serve ==
    /\ resp = NoResp
    /\ resp' = Handle(req)
    /\ UNCHANGED <<authenticators, userState, hasPassword, rbacAllows, rbacErr, req>>

Next == Serve

Spec == Init /\ [][Next]_vars

(***************************************************************************)
(* Properties.                                                              *)
(***************************************************************************)
\* The allowlist as the specification states it: a path matches an entry
\* exactly, or starts with what precedes the entry's trailing *; the
\* entry's leading / is optional (request paths always have one).
Rooted(p) == IF p # <<>> /\ Head(p) = "/" THEN p ELSE <<"/">> \o p

Allowlisted(path) ==
    \E p \in AllowPaths :
        \/ path = Rooted(p)
        \/ Last(Rooted(p)) = "*" /\ IsPrefix(Front(Rooted(p)), path)

\* Nothing is served unless the allowlist covers its path or the identity
\* the authentication union produced holds a role covering it: the filter
\* order, both unions' short-circuits and WithAuthorization's error branch
\* together must not let a request through otherwise.
ServedOnlyIfAuthorized ==
    resp.code = 200 =>
        \/ Allowlisted(req.path)
        \/ ~rbacErr /\ rbacAllows[resp.user]

\* Specification scenario E: a request to an allowlisted path is served,
\* whatever credentials it carries, without consulting the role-binding
\* store (so it is served even while that store is failing).
AllowlistNeedsNoStore ==
    resp # NoResp /\ Allowlisted(req.path) =>
        resp.code = 200 /\ "rbac" \notin resp.asked

\* The credential the authenticators see verifies: a correct password of
\* an Active account that has one, or a token Verify accepts whose User
\* exists.
Verified(c) ==
    \/ c.kind = "basic" /\ c.pwd = "right"
       /\ userState[c.user] = "Active" /\ hasPassword[c.user]
    \/ c.kind = "bearer" /\ c.valid /\ userState[c.sub] # "Absent"

Owner(c) == IF c.kind = "basic" THEN c.user ELSE c.sub

\* The authentication chain tries the verifiers and yields the identity of
\* a verified credential; only a request without one is anonymous, and no
\* request is refused at authentication while Anonymous is a member.
AuthenticatedAsPresented ==
    resp # NoResp =>
        /\ resp.code # 401
        /\ resp.user = IF Verified(AuthorizationHeader(req))
                       THEN Owner(AuthorizationHeader(req)) ELSE Anonymous

AnonymousLast == authenticators # <<>> /\ Last(authenticators) = "anonymous"

\* With Anonymous as the last resort (the one order in which the union
\* treats a request as anonymous only when no other verifier matches, as
\* specification section 4.2 requires), the Basic and bearer
\* authenticators give a request the identity of its verified credential,
\* and only the others are anonymous.
AsPresentedWhenAnonymousLast == AnonymousLast => AuthenticatedAsPresented

\* Lockout depends on every wrong Basic password of an Active account being
\* recorded by basicAuthenticator once the chain reaches it (Anonymous
\* last), and on no other account ever being charged.
WrongPasswordRecorded ==
    resp # NoResp =>
        /\ resp.rec \subseteq (IF req.cred.kind = "basic" THEN {req.cred.user} ELSE {})
        /\ AnonymousLast /\ req.cred.kind = "basic" /\ req.cred.pwd # "right"
           /\ userState[req.cred.user] = "Active" => resp.rec # {}
\* The subjects of the X-Ai-Authorization cookies a request carries, and
\* the accounts it claims: the owner of its Authorization header, or, for
\* a websocket upgrade without that header, the subject of a cookie.
CookieSubjects(r) == {r.cookie[i].sub : i \in {j \in DOMAIN r.cookie : r.cookie[j].tok}}
Claimed(r) ==
    IF r.cred.kind # "none" THEN {Owner(r.cred)}
    ELSE IF r.upgrade THEN CookieSubjects(r) ELSE {}

\* A request is served as an account it claims or as Anonymous: the cookie
\* that WithRequestInfo turns into a header for websocket requests never
\* outranks an Authorization header the request carries, and is ignored on
\* every other request.
ServedAsClaimed ==
    resp # NoResp => resp.user \in Claimed(req) \cup {Anonymous, NoUser}
=============================================================================
