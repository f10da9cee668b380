# TLA+ models of go-restful-template's request trust boundary

This directory holds TLA+ specifications of the authentication and authorization
core of `src/`, the TLC configurations that check them, and `PROJECT.json`. That file
records:

- the components;
- the runs;
- the mutants that show each property can fail;
- the map from every definition to the source lines it translates;
- the findings;
- the hazards.

Run a check from this directory:

```
tlasany AccountLockout.tla
tlc -workers 2 -config AccountLockout_fair.cfg MC_AccountLockout
```

## 1. The system

### Components, their state and operations

| Component | Source | State it keeps | Operations |
|---|---|---|---|
| RequestClassifier | `pkg/aiserver/request/requestinfo.go`, `filters/requestinfo.go` | none (pure) | `NewRequestInfo`: path and method to verb, resource, scope, namespace |
| Authentication chain | `pkg/aiserver/aiserver.go` (`buildHandlerChain`), `authentication/request/basictoken` | member list (fixed) | union of anonymous, Basic (password) and Bearer (JWT) authenticators |
| PasswordVerifier | `pkg/middles/auth/authenticator.go` | reads the User informer | `Authenticate`: state check, then bcrypt check of `Spec.EncryptedPassword` |
| LoginRecorder | `pkg/middles/auth/login_recorder.go`, `basic/basic.go`, `aiapis/oauth/handler.go` | LoginRecord objects in the API store | `RecordLogin` from the token endpoint (failures and successes) and from Basic authentication (failures) |
| AccountLockState (User controller) | `pkg/controllers/user/user_controller.go` | `User.status` (`state`, `lastTransitionTime`, `lastLoginTime`), finalizer, password hash | `Reconcile`: finalizer, deletion cascade, `encryptPassword`, `syncUserStatus` |
| LoginRecord controller | `pkg/controllers/loginrecord/loginrecord_controller.go` | `User.status.lastLoginTime` | `Reconcile`: `updateUserLastLoginTime`, retention delete after 168 h |
| Token subsystem | `pkg/middles/auth/token.go`, `jwttoken/jwt_token.go`, `token/issuer.go`, `client/cache` | token cache `ai:user:<name>:token:<token>` with TTL | `IssueTo`, `Verify`, refresh grant, static tokens, bearer authentication |
| Authorization chain | `authorization/union`, `authorization/path`, `filters/authorization.go` | member list (fixed) | path allowlist, then RBAC; first Allow/Deny wins |
| Access manager | `pkg/middles/iam/am/am.go`, `aiapis/iam/v1/handler.go`, GlobalRoleBinding controller | role bindings in the API store, read through listers | create/replace global, cluster and namespace bindings; namespace admin transfer; member removal |
| Identity manager | `pkg/middles/iam/im/im.go` | User objects | `UpdateUser`, `ModifyPassword`, `PasswordVerify`, `DescribeUser` |
| Resource getters and list queries | `middles/resources/v1alpha3`, `api/types.go`, `utils/sliceutil` | reads the informers | `DefaultList` (filter, sort, page), `WithListAndFilter` (metadata filters, index removal) |
| GlobalRoleBinding controller | `controllers/globalrolebinding` | `<user>-cluster-admin` ClusterRoleBindings | `Reconcile`: a `platform-admin` binding gets its user cluster-admin, owned by the binding |
| Health controller and reconciler group | `controllers/core/health_controller.go`, `controllers/common/reconciler.go` | `Health.status.components`, the work queue | `FeaturedReconcilerGroup.Init` (gate ranking), `Reconcile`: pod lists, HTTP probes, status write, requeue after `Spec.Interval` |
| Server wiring, config, clients, utilities | `cmd/ai-server`, `aiserver/config`, `client/*`, `utils/*` | — | flag and file parsing |

### How they interact

A request passes through three stages in `buildHandlerChain`:

1. The RequestClassifier turns it into attributes.
2. The authentication union gives it an identity.
3. The authorization union decides on it.

Password logins reach the PasswordVerifier in two ways:

- the OAuth token endpoint (`/oauth/token`, grant `password`);
- Basic authentication.

Both read the User through the API server's informer (its local copy of the API store). An incorrect password produces a LoginRecord, as does a successful token grant. The account's lock state is then computed elsewhere, by two controllers in the controller manager. Each controller reads through its own informer:

- **LoginRecord controller:** copies the record's creation time into the User's `lastLoginTime`. That write is the only thing that wakes the User controller after a login.
- **User controller:** counts the failed records of the last 10 minutes. It locks the account at 10, and unlocks it 10 minutes after the lock.

Every write is an optimistic-concurrency write: the apiserver refuses it when the writer's copy has an old `resourceVersion`.

### What is hard

The hard behaviours are these:

- **Lagging caches:** three caches (the API server informer and two controller informers) lag one store.
- **Conflicting writers:** two controllers write the same status subresource.
- **Wake-ups:** the User controller is woken only by User events.
- **Timestamps:** they have one-second resolution.
- **Time-based transitions:** nothing schedules the time-based unlock.
- **Ordering and partial failure:** the same concerns recur in the token cache (two writes per issue) and in the role-binding operations (several writes per request, decided from a lagging lister).

`PROJECT.json` lists each hazard at its source line.

### What makes each component correct

- **PasswordVerifier:** a locked or inactive account is refused before the secret is checked.
- **AccountLockState:**
  - the lock is entered only with 10 failures in the window (soundness);
  - every 10 failures in the window do lock the account (completeness);
  - the lock is lifted only after, and soon after, the cooldown;
  - Disabled is a trap for the pipeline;
  - plain passwords are hashed.
- **LoginRecorder:** every failed attempt counts towards the account it was made against.
- **Tokens:**
  - a refresh yields tokens only from a valid refresh token;
  - revocation through the cache is honoured for non-static tokens;
  - a disabled account gets no new tokens.
- **Authentication chain:** the chain consults the configured verifiers in order, so a presented credential is not silently ignored.
- **Authorization chain:**
  - the first Allow or Deny decides;
  - NoOpinion becomes Forbidden;
  - the allowlist never widens.
- **RequestClassifier:** namespace and scope agree.
- **Access manager:**
  - a user has at most one global role;
  - a namespace keeps exactly one admin across a transfer;
  - a platform admin holds cluster-admin, and loses it with the role.
- **Health controller:** it runs only where the feature list and gate admit it, and the status comes to report every named component as it is.
- **Resource getters:** a list holds exactly the objects its filters select, in the order its query asks for.

## 2. Plan

Modules, in the order they are built:

1. **`AccountLockout`** (built). It covers:
   - the PasswordVerifier and the LoginRecorder;
   - the User controller (`encryptPassword`, `syncUserStatus`);
   - the LoginRecord controller;
   - the three informers and the two work queues.
2. **`TokenLifecycle`** (built, with the abstract `Session`). It covers:
   - `IssueTo` and `Verify` over a TTL cache;
   - the password, refresh and `createToken` grants;
   - bearer authentication.

   The abstract `Session` specification states what a token promises. `TokenLifecycle` is shown to implement it through `INSTANCE ... WITH` a refinement mapping. The JWT issuer and the cache implementation are not in this repository and are modelled from the specification.
3. **`AuthChain`** (built). It covers:
   - the authentication union in its configured order;
   - the path allowlist;
   - the authorization union;
   - the `WithAuthorization` filter.

   It will compose with the lock state of `AccountLockout` through a shared account state.
4. **`RequestClassifier`** (built). `NewRequestInfo` is written as a RECURSIVE operator over path segments and checked against a reference classification, over all paths of bounded length built from a small alphabet of segments.
5. **`RoleBindings`** (built, namespace part). It covers:
   - `CreateNamespaceRoleBinding` (member change and admin transfer) and `RemoveUserFromNamespace`, one step per API call;
   - the `DeleteUser` handler's admin check over the informer cache;
   - the User controller's finalizer and deletion cascade.

   Global role bindings are module 7.
6. **`ListQuery`** (built). `DefaultList`'s filter and sort, `DefaultObjectMetaCompare`, and `WithListAndFilter` with `RemoveSubSlice`, as operators. `sort.Slice` is written as the insertion sort Go runs for up to 12 elements.
7. **`GlobalRoles`** (built). It covers:
   - `CreateGlobalRoleBinding` from the lagging lister, reached from the `CreateUser` and `UpdateUser` handlers;
   - `GetGlobalRoleOfUser` (through `ListQuery`) and the authenticator's `findGlobalRole`;
   - the GlobalRoleBinding controller, garbage collection by owner reference, and the global part of the User controller's cascade.

8. **`Health`** (built). It covers:
   - `FeaturedReconcilerGroup.Init` with `gateMap` and `getGateValue`;
   - `HealthReconciler.Reconcile` over the informer's copy, its status write and the deferred `RegularReconcile`;
   - the watch and the `RequeueAfter` timer.

Modules 1–8 are built (4 before 3, since the authorization chain consumes its output). `AuthChain` does not yet share account state with `AccountLockout`: it records the failed logins a request causes, which is what `AccountLockout` consumes.

The project has twelve runs, the most the checking budget allows: seven passing runs and five violation runs, one per finding. The refresh-grant finding gave its slot to `health_fair`; it is kept below as a one-off result (section 4). `ListQuery` is checked inside `globalroles_fair`, on the bindings the informer holds. Further modules therefore have to share a passing run with a module they interact with, or take the slot of a violation run.

The read paths joined the modules holding their state in the last sitting: the namespace member listings are in `RoleBindings` (`rolebindings_serial`), and the global and cluster listings and the user read handlers are in `GlobalRoles` (`globalroles_fair`).

Left for later sittings:

## 3. `AccountLockout`

### State

| Variable | Code |
|---|---|
| `user[u]` | the User object in the API store: `Status.State` (`"None"` for nil), the finalizer, whether `Spec.EncryptedPassword` is a bcrypt hash, the ages of `LastTransitionTime` and `LastLoginTime` |
| `apiUser`, `apiFresh` | the API server's User informer and whether its copy has the stored `resourceVersion` |
| `ctrlUser`, `ctrlFresh` | the controller manager's User informer, the same way |
| `records[i]` | LoginRecord `i`: its `UserReferenceLabel`, the account attacked, `Spec.Success`, the age of `CreationTimestamp` |
| `ctrlRecords` | LoginRecords in the controller manager's cache |
| `userQueue`, `recordQueue` | the two controllers' work queues (sets, as client-go's queue de-duplicates keys) |
| `clock` | parity of the current second |

Time is relative. `Tick` ages every timestamp by one second.

- `lastTransitionTime` ages are capped at `Window + 1`. That is "more than 10 minutes ago", and it is all that the cooldown test distinguishes.
- Records are dropped once they are `Window` seconds old. The window count no longer sees them, and the `lastLoginTime` comparison ranks them below every live record.

Freshness flags stand in for `resourceVersion`. A write that changes the object makes every cached copy stale. An apiserver no-op write changes nothing.

### Actions

Each action is one handler:

- **`PasswordLogin(u, correct, endpoint, issued)`:** `handler.Token`/`passwordGrant` or `basicAuthenticator.AuthenticatePassword`, by user name. Each endpoint calls `Authenticate`, then `RecordLogin`. The grant records a success only after `IssueTo` succeeds (`issued`). Basic authentication is reached only by a union that consults it before Anonymous; the shipped order never does (see `AuthChain`).
- **`ModifyPasswordHandler(u, allowed, current)`:** `iamHandler.ModifyPassword`, then `imOperator.ModifyPassword` (`ModifyPassword(u)`). A caller the authorizer allows may leave the current password empty. Any other caller, and one that gives it, must pass `imOperator.PasswordVerify` (`PasswordVerify`): a bcrypt comparison against the API server's informer copy that looks at neither the account state nor the login records. A failed check answers an error, records nothing and changes nothing, so it is a stuttering step.
- **`UserReconcile(u)`:** `UserReconciler.Reconcile`, with its three writes in code order:
  1. the finalizer `Update`, which refreshes the object in place;
  2. `encryptPassword`, which writes a DeepCopy;
  3. `syncUserStatus`, which writes from the original object and therefore conflicts after step 2.

  A refused write ends the reconcile with an error, and the key stays queued.
- **`LoginRecordReconcile(i)`:** `LoginRecordController.Reconcile` / `updateUserLastLoginTime`, which uses the strict `Before` at one-second resolution.
- **`ApiUserSync`, `CtrlUserSync`, `CtrlRecordSync`:** the informers catch up. The controller manager's informers enqueue the key.
- **`Resync`:** the manager's periodic resync (default `SyncPeriod` 10 h).
- **`DisableUser`:** an administrator sets Disabled. No code path of the repository does this.
- **`Tick`:** one second passes. It happens only when the pipeline is idle (`Quiescent`), because the controllers react in milliseconds against a 10-minute window.

### Runs

All runs use one user, `Threshold = 2` and `Window = 2`. The passing run uses 2 record ids and the violation run uses 3. The code's values are 10 and 10 minutes. Smaller values keep the same comparisons (`>=` threshold, strict `Before`/`After`) while reaching lock, relock, cooldown and expiry within a few steps. Two record ids are enough for a lock (two failures) and, once a record has left the window and its id is free again, for a relock. A third id adds only more interleavings of the same events. With it, the passing run needs 2.1 M states and 4.5 minutes under fairness.

| Run | Expect | What it shows |
|---|---|---|
| `lockout_fair` | pass (107 k states, under `FairSpec`) | `LockoutSound`: every AuthLimitExceeded write is justified by ≥ Threshold failures against the account in the store. `LockoutNotLiftedEarly`: unlock only after the cooldown. `DisabledIsTrap`: no controller write leaves Disabled. All hold despite stale copies, because the conflict check refuses stale status writes. `PlainPasswordEventuallyEncrypted` and `LockEventuallyLifted` under fair controllers and the resync. The conflict `encryptPassword` provokes is resolved by the retry. |
| `lockout_same_second_failures` | violation | Two failures in one second, with the second cached after the User reconcile, leave the account Active with the threshold reached. |

`LastLoginTimeRetained` is violated too: every status write of `syncUserStatus` builds a fresh status without `LastLoginTime`, so the LoginRecord controller's timestamp is erased until the next record reconcile. TLC finds it in 6 steps (a record reconcile, then a User reconcile) with the violation cfg's constants. Its run was given up for `globalroles_fair`; the hazard at `user_controller.go:197` keeps it.

Each property of a passing run has a mutant in `PROJECT.json` that TLC kills:

- a record created without its user label;
- a cooldown test that is off by one;
- counting successful records as failures;
- dropping the Disabled early return;
- a flipped nil check in the unlock branch;
- an `encryptPassword` that drops the hash.

### Fairness

The liveness runs assume the following:

- **Informers and controllers:** weak fairness on every informer and controller action. controller-runtime keeps informers running and drains work queues.
- **Resync:** weak fairness on `Resync`. The manager resyncs every `SyncPeriod`.
- **Time:** ticks happen infinitely often (`[]<><<Tick>>_vars`), i.e. time is not Zeno.

Users and administrators promise nothing. `LockEventuallyLifted` holds only because of the resync, which comes up to 10 h later rather than the 10 minutes the specification promises. Nothing re-queues a locked User when its cooldown ends (`syncUserStatus` never returns `RequeueAfter`), so in an idle system a lock outlives its cooldown until the next User event or resync. No run states the 10-minute bound: the specification recomputes the state lazily on reconcile.

### Not modelled here

- **Deletion:** the User deletion branch (the role-binding cascade) is modelled in `RoleBindings`; the login-record part of it is not.
- **Retention:** the 168 h LoginRecord retention delete.
- **Create errors:** `RecordLogin` Create failures are treated as no record.
- **Password identity:** the model knows whether a password is hashed and whether a caller gives the right one, not which password it is. It therefore cannot show that `PasswordVerify`, reading a stale informer copy, still accepts the previous password right after a change (hazard `im.go:109`).
- **Global role:** `findGlobalRole`, which is read-only.
- **Logins by e-mail address:** the OAuth grant starts with `DescribeUser`, a Get by name, so an e-mail address fails there before anything is recorded. Only Basic authentication accepts one, and the shipped union never consults Basic. Were it consulted, `RecordLogin` would label the failure with the e-mail, which names no User, so such failures would never count (hazard `login_recorder.go:32`, latent).

Neither controller is registered by `cmd/`. The model describes them as `SetupWithManager` wires them.

## 4. `TokenLifecycle` and `Session`

### What `Session` promises

`Session` is the abstract specification of a bearer credential. Its state:

- `handedOut`: the credentials returned to clients;
- `honoured`: those that would be accepted now;
- `account`: each account as Active, Inactive or Absent;
- `lastAuth`: the outcome of the latest authentication.

Its actions:

- **`Grant(u)`:** credentials of `u` are handed out and made live. A grant needs `u` Active, or a live credential of `u` presented. It may make live again a credential that `u` was already given.
- **`Revoke`:** any live credentials stop being honoured (expiry, revocation, cache loss).
- **`Authenticate(c)`:** succeeds exactly when `c` is honoured and its account exists, and yields the account `c` names.

### State

| Variable | Code |
|---|---|
| `userState[u]` | the User as the API server's informer lists it. `"None"` is a nil `Status.State`; `"Absent"` is no User. Authenticate, DescribeUser and the bearer authenticator all read this one informer. |
| `cache` | the token cache: entries `[tok, deadline]` under key `ai:user:<name>:token:<token>` |
| `held` | tokens returned to clients by a request that succeeded |
| `lastAuth` | the outcome of the latest bearer authentication |
| `clock` | the current second |

A token is the record of claims the issuer encodes: subject, kind, issue second and expiry (`NoExpiry` for `expiresIn` 0). Two tokens with equal claims are the same string.

### Actions

- **`PasswordGrant(u, outcome)`:** `passwordGrant` with the correct password, for an Active User. A wrong password issues nothing; its LoginRecord is modelled in `AccountLockout`.
- **`RefreshGrant(t, outcome)`:** `refreshTokenGrant`. It calls `Verify(t)`, then `IssueTo(t.sub)`.
- **`CreateStaticToken(u)`:** `createToken` (`POST /oauth/statictoken`) for a caller authenticated by password or by a bearer token. RBAC on this path is not modelled.
- **`BearerAuthenticate(t)`:** `AuthenticateToken`. It calls `Verify`, then looks the User up in the lister.
- **`IssueTo`:** within the grants. Its two cache `Set` calls can fail separately (`outcome`). A failure returns an error, after the access token may already be cached.
- **Environment actions:**
  - `SetUserState`: administrators and the User controller;
  - `RevokeToken`: a cache `Del`, i.e. forced revocation;
  - `CacheLost`: the in-memory cache is lost with its process;
  - `Tick`: one second passes and TTLs elapse.

### Runs

The runs use one user, `MaxAge = 1`, `Inactivity = 1`, `Skew = 1` and 3 seconds of time (0..2). These values reach every combination of the following:

- an access token at and past its TTL;
- a refresh token within and past its TTL;
- a JWT still inside the skew leeway after its cache entry is gone;
- static tokens that never expire.

A second user adds no case that the mapping or the properties distinguish, because every token names its own subject. It also multiplies the state space beyond reach.

| Run | Expect | What it shows |
|---|---|---|
| `token_session` | pass (22 k states) | `ImplementsSession`: the code implements `Session` under the mapping `honoured = {t in held : Verify(t)}`, across cache-write failures, cache loss, revocation and account changes. `HonouredWithinLifetime`: the cache TTLs, not the skewed JWT check, bound tracked lifetimes. |

Mutants killed:

- the JWT expiry computed in milliseconds (`TypeOK`);
- a cache TTL one second too long (`HonouredWithinLifetime`);
- bearer authentication without the User lookup (`ImplementsSession`).

A one-off check of `RefreshOnlyWithRefreshToken` (a refresh grant yields tokens only from a valid refresh token) under the `token_session` bounds finds it violated in one step. `refreshTokenGrant` (`oauth/handler.go:126`) passes the presented token to `Verify`, which accepts every kind, so a static token (or an access token) is exchanged for a fresh pair, although the specification exempts static tokens from refresh. The trace's last step is labelled `PasswordGrant` because it produces the same state as the refresh grant. The property stays in `TokenLifecycle.tla`; the hazard at `handler.go:126` records the result.

Only the password path reads `User.Status.State`. `Verify`, the refresh grant and bearer authentication do not (bearer authentication checks only that the User exists). So a Disabled User holding a live token keeps obtaining tokens. That includes a static token, which never expires and is never cached, so no revocation reaches it. `ImplementsSession` admits this, as the code does. No run states the stricter promise.

### Not modelled here

- **Global role claim:** the `Extra` global-role claim a static token carries.
- **RBAC:** RBAC on `/oauth/statictoken`.
- **The `Token` handler's preliminaries:** the ConfigMap read and the AES decrypt at the start of `Token`. Both are I/O that changes no state.
- **Token collisions:** `ImplementsSession` deliberately allows a grant to make live again a token of the same account. It thereby admits two same-second grants yielding one token string, whose cache key a revocation and a later Set would share. The issuer is not in the repository, so whether tokens can collide is not known.

## 5. `RequestClassifier`

`NewRequestInfo` is a pure function, and the module writes it as operators:

- `SplitPath`;
- `MethodVerb`;
- `ResourceInfo` for everything after the API version;
- `NewRequestInfo` for the prefix and group checks and the early returns.

Each keeps the code's order of consumption and its length checks. The state machine only enumerates inputs. `Init` picks a request and `Classify` (`WithRequestInfo`) computes `info`. Classification of one request ends there, so deadlock is not checked.

A request is made of three parts:

- **Path:** `<<"">> \o segments`, optionally followed by `""` for a trailing slash. The first segment comes from `{api, apis, ai-apis, x}`. The others come from `{x, watch, proxy, workspaces, namespaces, status}`. There are at most 5 segments.
- **Method:** one of GET, DELETE, POST or OPTIONS. OPTIONS stands for a method with no verb.
- **Query:** it is abstracted to:
  - the `watch` value (absent, `true`, `false`, and `1` in `classifier_watch_value`);
  - whether another list option is malformed;
  - a `metadata.name` field selector;
  - an `ai.io/workspace` label selector.

These reach every branch: both roots, too-short grouped paths, the bare special verb, both scope markers with and without a following segment, the `status` subresource skip, proxy without subresource, and the list/watch/deletecollection corrections.

The run explores 1.2 M states.

| Run | Expect | What it shows |
|---|---|---|
| `classifier_spec` | pass | `ClassifiedAsSpecified`: the code's result agrees with `SpecClassify`. That is an independent reading of specification §4.1, written with segment indices rather than repeated slicing. The run covers the watch values absent, `true` and `false`; other values are where the two disagree, which `classifier_watch_value` shows. The label selector is left out of this run. |
| `classifier_watch_value` | violation | `ClassifiedAsSpecified` with `watch=1`. `GET /api/watch/x?watch=1` is classified as a watch; the specification makes it a list. |
| `classifier_selector_scope` | violation | `ScopeMatchesNamespace`: with an `ai.io/workspace=` label selector, a watch that names a namespace gets scope Workspace. The counterexample is `POST /api/watch/watch/namespaces/watch` (version `watch`, then the special verb). |

Mutants killed:

- `splitPath` trimming only the leading slash (`ClassifiedAsSpecified`);
- an unknown method kept as the verb (`TypeOK`).

The specification says "watch if a `watch=true` query parameter is present". On a parse failure it says to "only honor an explicit `watch=true`". The code follows apimachinery's conversion, where any value but `0`/`false` is true, and its own fallback after a decoding failure (`requestinfo.go:156-161`) applies the same test. A value such as `1` or `yes` therefore makes a watch that the specification does not. `classifier_watch_value` finds it in one step.

## 6. `AuthChain`

One request passes through the filters `buildHandlerChain` installs (`aiserver.go:104-143`):

1. `WithAuthentication` over `unionauth.New(anonymous, basictoken(basic), bearertoken(jwttoken))`;
2. `WithAuthorization` over `unionauthorizer.New(path allowlist, rbac)`.

`WithRequestInfo`, installed outermost, first gives a websocket request without an `Authorization` header one made from its `X-Ai-Authorization` cookie. Classification itself has already succeeded (that is `RequestClassifier`'s business). `Init` chooses the request and the store state it meets, and `Serve` computes the response (`Handle`):

- the HTTP code (200, 401, 403 or 500);
- the identity;
- the accounts a failed login was recorded for;
- the authorizers consulted.

| Model | Code |
|---|---|
| `PasswordOutcome` | `passwordAuthenticator.Authenticate`. The empty-password check comes first, then the state checks, then the password comparison. |
| `BasicResult`, `RecordsFailure` | `basicAuthenticator.AuthenticatePassword`. A failed login is recorded only for `IncorrectPasswordError`. |
| `BearerResult` | `tokenAuthenticator.AuthenticateToken`. `Verify` (abstracted to `valid`, see `TokenLifecycle`) runs, then the users lister. |
| `AuthnFrom` | The k8s union (specification). A member's error is kept and the next member is tried; the first clean match wins. |
| `AllowExact`, `AllowPrefixes`, `PathAuthorize` | `path.NewAuthorizer`, over paths as character strings. |
| `AuthzFrom` | `unionAuthzHandler.Authorize`. |
| `RbacAuthorize` | The role-binding authorizer. It is not in the repository, so it is modelled from the specification: one answer per identity, plus a store failure. |
| `Handle` | `WithAuthorization`. Allow is served, an error is 500, anything else is 403. |
| `GetAuthorizationFromCookie` | `stringutils.GetAuthorizationFromCookie`. The cookie is a sequence of elements; the first one containing the marker gives `Bearer <token>`. Past the first element the browser's leading space stays, the header reads `Bearer  <token>`, and the k8s bearer authenticator, splitting on single spaces, finds an empty token and does not match (`emptyBearer`). |
| `AuthorizationHeader` | `WithRequestInfo`: the cookie header is used only for a websocket upgrade without an `Authorization` header. |

**Bounds.** The model explores:

- two users in every state, with or without a stored password;
- no credential, Basic (right, wrong or empty password) or bearer (accepted or not) for either user;
- every path up to 4 characters over `/`, `a`, `b`;
- both authenticator orders (the violation run uses only the shipped one);
- on the path `/b`, which the allowlist does not cover, requests with and without a websocket upgrade that carry a cookie of up to two elements, each another cookie or an `X-Ai-Authorization` token (accepted or not) of either user. The violation run explores no cookies.

The allowlist `{"/a", "/a/*", "b/*"}` has the shapes of the shipped one:

- an exact path beside its sub-tree (`/apidocs`, `/apidocs/*`);
- a prefix-only sub-tree;
- an entry without the leading slash.

This reaches these cases: `/ab` (sibling of a prefix), `/b` (a prefix without its slash), `/b/` and `//a`. The passing run explores 5.6 M states in about 30 s.

| Run | Expect | What it shows |
|---|---|---|
| `authchain_chain` | pass | `Init` takes the authenticator order from two candidates: the shipped one, and Anonymous last, the one order in which a request is anonymous only when no other verifier matches, as specification §4.2 requires (§4.2 itself lists Anonymous first). For both, `ServedOnlyIfAuthorized` and `AllowlistNeedsNoStore` (specification scenario E) hold. With Anonymous last, `AsPresentedWhenAnonymousLast` holds: the Basic and bearer code yields exactly the identity of a verified credential. `WrongPasswordRecorded` also holds: a wrong Basic password of an Active account is recorded against that account only, and no order charges another account. `ServedAsClaimed` holds: a request is served as the owner of its `Authorization` header, as the subject of a cookie only when it is a websocket upgrade without that header, or as Anonymous; the cookie never outranks the header. The second order is not the shipped one. It is what exercises the authenticator code that the shipped order never reaches. |
| `authchain_credentials_ignored` | violation | `AuthenticatedAsPresented` fails with the shipped order. `anonymous` comes first and always matches, so a valid bearer token (or password) is ignored and the request is `system:anonymous`. The comment "authenticators are unordered" is wrong: the union is ordered. A consequence is that wrong Basic passwords are never recorded, so Basic attempts never count toward lockout. |

Mutants killed:

- a prefix cut one character short (`ServedOnlyIfAuthorized`);
- the role-binding authorizer placed first (`AllowlistNeedsNoStore`);
- bearer authentication without the user lookup (`AsPresentedWhenAnonymousLast`);
- recording on the wrong error (`WrongPasswordRecorded`);
- `WithRequestInfo` reading the cookie even when the request has an `Authorization` header (`ServedAsClaimed`).

A websocket request whose valid token is in a cookie after the first is served as Anonymous (with Anonymous last; as everything, with the shipped order). A one-off check of "a websocket request without a header, whose first marked cookie holds a valid token of an existing user, is served as that user" (`CookieTokenHonoured`) is violated by an initial state: cookie `other; X-Ai-Authorization=<token of u2>`, answered 403 as Anonymous. It is not a run for lack of a slot; the hazard at `string.go:68` keeps it.

**Not modelled:**

- lookup by e-mail address and the global-role hint of `Authenticate` (see `AccountLockout`, "Not modelled here");
- a malformed `Bearer` header other than the one the cookie path produces, which behaves as no credential;
- the role-binding decision itself: the authorizer is not in this repository, and `RoleBindings` models the bindings it would read, not the decision.

## 7. `RoleBindings`

A namespace's members are the RoleBindings named `<user>-<role>` and labelled `ai.io/user=<user>` that `CreateNamespaceRoleBinding` writes (`am.go:481-563`). The namespace's manager is named by its `ai.io/creator` annotation.

A member change reads the namespace, deletes the member's binding (`DeleteNamespaceRoleBindingByUser`: List, then the first binding with the label, then Delete), and creates the new one. Making someone admin of a namespace someone else manages goes on to demote the manager: delete their binding, create `<manager>-operator`, set the annotation and Update the namespace read at the start.

Each of these API calls is one step of a request (`pc`, `loc`), so requests and the User controller interleave between calls.

| Model | Code |
|---|---|
| `BeginMember`, `BeginRemove` | `CreateNamespaceMembers` / `UpdateNamespaceMember`, and `RemoveNamespaceMember` (`handler.go:334-386`). `CreateNamespaceMembers` is a loop that stops at the first error, so it is a sequence of single-member requests. |
| `GetNamespace`, `RemoveRefused`, `DemoteRefused` | The `Get` and the manager checks of `RemoveUserFromNamespace` and `CreateNamespaceRoleBinding`: a manager is neither removed nor demoted. |
| `ListOwn`, `DelOwn`, `ListMgr`, `DelMgr` | `DeleteNamespaceRoleBindingByUser` for the member and for the manager. `FirstLabelled` is the first binding in name order whose label equals the name. A failing List is logged and read as "no binding" (fault `"list"`). A Delete that meets NotFound ends the request. |
| `CreateMember`, `CreateOperator`, `UpdateNamespace` | The two Creates (AlreadyExists ends the request; without a creator annotation the `-operator` binding's User subject has an empty name, which the API server refuses) and the Update, which conflicts if the namespace changed since the Get. |
| `CallFails` | Any Get, Delete, Create or Update returning an error (fault `"call"`): the request ends after what it already did. |
| `DeleteUser`, `AdminCheckPasses` | The handler. It lists the user's bindings from the informer cache and refuses only if the first one is `-admin`. The list is ordered by creation time, which the model does not track, so any binding may come first: the check passes unless every cached binding is an admin binding. The model keeps only that fact of the cache (`cachedAdminOnly`), refreshed by `SyncCache`. |
| `AddFinalizer`, `CascadeNamespace`, `CascadeFails`, `RemoveFinalizer` | `UserReconciler.Reconcile`. It adds the finalizer to a live User. For a deleting User it runs `deleteRoleBindings`: DeleteAllOf the user's bindings in each namespace, in list order (`NsOrder`). A failure requeues the Reconcile, which starts over. It then removes the finalizer. A User deleted before it has the finalizer is gone at once. |
| `CreateUser` | The `CreateUser` handler, as far as the User object goes. The global role binding it also creates is outside this module. |
| `ListAllUsersInNamespace`, `RangeBindings`, `Skips`, `contains`, `UserExists` | `usersGetter.listAllUsersInNamespace` (`user.go:87-133, 231-237`). It walks the informer's bindings in the lister's order and passes over a binding of another role. It takes each user subject once, under the role of the first binding naming it. A subject whose User is NotFound is an orphan and is skipped. |
| `ListNamespaceMembers`, `DescribeNamespaceMember` | The handlers (`handler.go:155-188`). Describe lists the members with a names filter and returns the first item, or NotFound. |

`Init` puts every namespace in the state its creator left it in: either the creator's admin binding, or, for a namespace without the annotation, one unlabelled binding the platform did not write.

**Bounds.** The model uses:

- two users. The violation runs use two namespaces, the fewest in which a user can be a manager in one and a member in another. `rolebindings_serial` uses one namespace (`MC_OneNs`). Its property reads one namespace at a time, and the orphan case it is about (the cascade passes a namespace, then a request writes to it) needs only one;
- one request at a time in the runs. With one request no Update can conflict, so `RvMod = 1`; for concurrent requests the one-off checks below use `RvMod = 4`.

The passing run explores 54 k states in a few seconds, with symmetry over the users (user names are model values and are never compared or ordered). With one namespace `CascadeFails` resets the cascade to where it already is, so that step adds no state there.

| Run | Expect | What it shows |
|---|---|---|
| `rolebindings_serial` | pass | Requests are served one at a time. Any Get, Delete, Create or Update may fail, but a List does not. Deletions and the cascade run concurrently. `MemberListAgrees` holds: for each role, the member list shows exactly the existing Users holding a binding of that role there, and `DescribeNamespaceMember` reports the role of the binding `GetNamespaceRoleBindingByUser` finds. A binding re-created for a user the cascade has already deleted (the `GoneUserUnbound` violation below) is an orphan, and the listings hide it. The property relies on each user holding at most one binding per namespace, which these bounds give. A List failure or two concurrent requests break that (see below), so the specification's "one binding per subject per scope" (`OneBindingPerUser`) is not stated by a passing run. With one binding per user the lister's order changes nothing, so one order is checked. |
| `rolebindings_admin_deleted` | violation | `ManagerHoldsAdmin`. User `a` manages `n1` and is added to `n2` as a viewer. `DeleteUser(a)` passes the check because the viewer binding may be listed first. The cascade deletes `a-admin`, and `n1`'s annotation names a deleted user with no admin binding left. |

Mutant killed:

- the listing keeps orphan subjects (`SkipsKeepsOrphans`): the binding that outlives a deleted user is then listed.

Further violations were found with one-off configurations of the same module. They are recorded as hazards, because the project has no run slot left for them:

- **`OneBindingPerUser` fails with `Faults = {"list"}`.** A failed List is taken for "no binding", so the new binding is created beside the old one.
- **`OneBindingPerUser` and `OnlyManagerIsAdmin` fail with two concurrent requests.** Two member changes both create; two transfers leave two admins.
- **`OnlyManagerIsAdmin` fails with `Faults = {"call"}`.** A transfer that fails after creating the new admin binding leaves two admins.
- **`UnlabelledKept` fails for a namespace without a creator annotation.** The manager is `""`, so an admin grant deletes an unlabelled binding and then fails to create `-operator`. The annotation stays empty, and the next grant adds a second admin.
- **`GoneUserUnbound` fails.** A member request for a user being deleted creates a binding in a namespace the cascade has already passed. The binding outlives the user, and a new user of the same name inherits it.

**Not modelled:**

- global role bindings: see `GlobalRoles`; cluster role bindings other than the controller's cluster-admin binding (no handler calls `CreateClusterRoleBinding`);
- `CreateRoleBinding` (generated names);
- the login-record part of the cascade (see `AccountLockout`);
- the generic `DefaultObjectList` sorting and filtering of the member list: it is `ListQuery`'s, checked there.


## 8. `ListQuery`

The listers behind the API (`middles/resources/v1alpha3`) all end in `DefaultList`: keep the objects every filter of the query selects, then `sort.Slice` them with the getter's compare function, descending unless the query asks for ascending (then the closure is the negated compare). Most getters compare with `DefaultObjectMetaCompare`: by name, or by `CreationTimestamp` with ties broken by name. The IAM handlers then pass lists through `Result.WithListAndFilter`, which collects the indices of the items its metadata filters reject and removes them with `sliceutil.RemoveSubSlice`.

| Model | Code |
|---|---|
| `SortSlice(s, Less)` | `sort.Slice`: for up to 12 elements Go runs an insertion sort that moves element `i` left while `Less(j, j-1)`. The closure sees the slice and two positions, as Go's does. |
| `DefaultObjectMetaCompare` | `interface.go:99-116`. Names compare by rank, as `strings.Compare` orders them; timestamps are whole seconds. |
| `DefaultList(objects, q, selected)` | `interface.go:56-96`. The filters are abstracted to the set of objects they select. Pagination belongs to the `query` package, which is not in this repository; no modelled caller pages. |
| `RemoveSubSliceLess`, `RemoveSubSlice` | `sliceutil.go:19-31`. The closure is `i > j` over **positions**, not the indices stored there. |
| `WithListAndFilter(list, matched)` | `types.go:87-143`, with the filters abstracted to the set of items they match. |

`RemoveSubSlice` is correct only by accident. Given a closure that is always true inside its loop, insertion sort reverses the slice, and `toDels` is built increasing, so the indices are removed from the highest down. For more than 12 indices `pdqsort` runs instead, and the outcome depends on the Go library (hazard at `sliceutil.go:20`).

The properties are checked in `globalroles_fair` as state invariants over the bindings the informer holds in each reachable state. For every order the lister may return them in (the order of a map's iteration), every query (both sort keys, both directions) and every subset the filters may select:

- `DefaultListSortsAsPromised` compares `DefaultList` with `SortSeq` under the order the query promises.
- `WithListAndFilterKeepsMatches` compares `WithListAndFilter` with `SelectSeq`.

Since `DefaultList`'s result does not depend on the lister's order, `GlobalRoles` lists the informer in one fixed order (`SetToSeq`).

Mutants killed:

- the ascending branch without the negation (`DefaultListAscendingUnnegated`);
- a closure comparing the stored indices in increasing order (`RemoveSubSliceLessByValue`), which removes a low index first and shifts the rest.

The model's bindings have distinct creation numbers, so the name tie-break of the timestamp order is not exercised in this run.

## 9. `GlobalRoles`

A user's platform role is a GlobalRoleBinding `<user>-<role>`, labelled with the user. There are two request paths:

- `CreateUser` creates the User, then calls `CreateGlobalRoleBinding(user, role)`.
- `UpdateUser` goes through `updateGlobalRoleBinding`. It returns early when `GetGlobalRoleOfUser` already reports the role. Otherwise it checks that the operator may update users, then calls `CreateGlobalRoleBinding`.

`CreateGlobalRoleBinding` lists the user's bindings from the informer. It walks that list, newest first: if a binding already has the role it returns; otherwise it deletes the binding by name, skipping NotFound. It then creates the new binding, and an AlreadyExists is the request's error.

The GlobalRoleBinding controller gives the user of a `platform-admin` binding a `<user>-cluster-admin` ClusterRoleBinding, with the binding as controller owner. An AlreadyExists counts as success. Garbage collection deletes the ClusterRoleBinding when its owner is gone. When a User is deleted, the User controller's `deleteRoleBindings` first runs DeleteAllOf on the user's global bindings.

| Model | Code |
|---|---|
| `ImCreateUser`, `ImUpdateUser` | `im.go:135-142, 47-64`: the Create fails while the name is taken, including while the User is being deleted; the Update fetches the User and fails once it is gone. |
| `BeginCreate`, `CreateUser` | `handler.go:190-210`. `im.CreateUser` fails unless the name is free; `GetGlobalRole("")` fails for a user created without the annotation. |
| `BeginUpdate`, `UpdateUser` | `handler.go:218-245` and `updateGlobalRoleBinding` (`388-414`). The User is gone: NotFound. The role is already reported: done. The authorizer's decision is a free choice. |
| `ListBindings`, `DeleteListed`, `CreateBinding` | `CreateGlobalRoleBinding` (`am.go:320-370`), one step per API call. |
| `ListGlobalRoleBindings`, `GetGlobalRoleOfUser`, `SubjectsContain`, `NewQuery` | `am.go:100-118, 208-223, 259-273`. `query.New()` leaves the sort key and direction at their zero values, so the list is by creation time, newest first. |
| `FindGlobalRole` | `authenticator.go:130-148`. A login is granted admin, then self-provisioner, then regular, whichever binding exists, read from the API itself. `HasPlatformAdmin` is defined through it. |
| `Reconcile`, `AssignClusterAdminRole` | `globalrolebinding_controller.go:25-97`. `crb[u]` is the owner's creation number, 0 for no owner, or `None`. |
| `DeleteUser`, `AddFinalizer`, `DeleteGlobalRoleBindings`, `RemoveFinalizer` | `im.DeleteUser` and `UserReconciler` (`user_controller.go:47-77, 100-106`). The handler's checks and the namespace part are in `RoleBindings`. |
| `ListAllUsersByGlobalRole`, `ListAllUsersInCluster`, `UsersGetterList`, `ImListUsers` | `user.go:30-56, 135-229` and `im.go:91-106`. `List` takes the cluster branch when `cluster=true`, the global-role branch for a `globalrole` filter, and otherwise lists every User. Each listing skips orphan subjects and takes a user once. The only ClusterRoleBindings with a User subject are the controller's `<u>-cluster-admin` ones, read as they are in the API. |
| `ListUsers`, `AppendGlobalRoleAnnotation`, `DescribeUser`, `GetUserDetail` | `handler.go:59-137`. Each handler annotates the User with `GetGlobalRoleOfUser`, read from the informer, when it finds a role. `GetUserDetail` reads the role's name even when it finds none; the model's `"panic"` stands for that nil dereference. |
| `ListClusterRoleBindings`, `GetClusterRole`, `GetClusterRoleOfUser` | `am.go:158-206, 702-709`: the first ClusterRoleBinding naming the user, and its role. |
| `CollectGarbage`, `Resync`, `SyncInformer` | The Kubernetes garbage collector, the informer's periodic resync, and the informer catching up. None of them is in this repository. |

`created` numbers the bindings in creation order. It stands for both the CreationTimestamp and the uid an owner reference names.

**Bounds.** The run uses one user, one request at a time, and `MaxUid = 4` bindings in a behaviour. A request starts only if it leaves room for the binding it may create. Four bindings are enough for these sequences:

- a role change before the informer saw the last one;
- a platform-admin binding re-created while the old cluster-admin binding still exists;
- a user deleted and created again.

Two users or two concurrent requests multiply the state space past what a five-minute run can explore under liveness checking (over 3 M states). The properties are per user, and users share nothing but the informer.

**Fairness.** Every request runs to its end (`WF` per process). The User controller and the garbage collector act on each user (`WF` per user). The workqueue serves every queued binding name (`WF` per key, since a key is never starved), and the resync and the informer keep running. Resync always fires, as the controller-runtime default `SyncPeriod` does. User actions (create, update, delete) carry no fairness.

| Run | Expect | What it shows |
|---|---|---|
| `globalroles_fair` | pass (220 k states, about 100 s) | `ClusterAdminFollowsPlatformAdmin`: a user who logs in as platform admin comes to hold a cluster-admin binding owned by their current binding. This holds even when the AlreadyExists shortcut kept one owned by an earlier binding: garbage collection removes that one, and the resync brings the binding to the controller again. `ClusterAdminRevoked`: once the user is no longer platform admin, the cluster-admin binding goes. `DescribedAdminGetsClusterRole` holds too. A user whom `DescribeUser` reports as platform admin, from the lagging informer, comes to be reported with `cluster-admin` by `GetClusterRoleOfUser` and listed by `ListUsers?cluster=true&clusterrole=cluster-admin`, unless the report changes first. The `ListQuery` invariants and `TypeOK` (binding names unique) also hold. |

Mutants killed:

- a create that ignores AlreadyExists;
- a controller that does nothing (`ReconcileNoSubject`);
- a controller that leaves out `SetControllerReference` (`ReconcileUnowned`). The cluster-admin binding then outlives the role;
- a cluster listing with its role test turned round (`ListAllUsersInClusterInverted`). The cluster-admin user is then never listed.

One-off checks of the same configuration found four violations. They are recorded as hazards, because no run slot is left:

- **One global role per user, once requests are done and the informer has caught up, fails in 12 steps, serially.** A user is made admin, then changed again before the informer saw the first change. The second request deletes the stale binding (NotFound) and creates its own, leaving two bindings. `GetGlobalRoleOfUser` shows the newest, but `findGlobalRole` grants the admin role, so the demotion does not take effect at login.
- **A gone user keeps no binding fails in 9 steps.** A role change lists, then the user is deleted, and the cascade's DeleteAllOf runs before the request's Create. The new binding outlives the user, and a new user of that name inherits it.
- **`ListUsers?globalrole=r` lists only users annotated with `r` fails.** It is reached through the two-binding state above. The getter lists the user under the old role, and the handler overwrites the annotation with the newest binding's role from `GetGlobalRoleOfUser`.
- **`GetUserDetail` never panics fails in 3 steps.** `DeleteUser`, then the cascade's DeleteAllOf of the global bindings, then the informer catches up. The User still exists under its finalizer, `GetGlobalRoleOfUser` is NotFound, and `globalRole.Name` dereferences nil. The same happens for a user created without a role.

**Not modelled here:**

- `NamePrefix` is taken empty. With a prefix, the controller's comparison with the bare `platform-admin` never matches; the handlers' `ReplaceStringOnce` on the role's name is then left out too.
- The ClusterRoleBinding informer the cluster listing reads is taken to be current. A lag there would only delay `DescribedAdminGetsClusterRole`, as the GlobalRoleBinding informer's lag already does.
- `im.UpdateUser` sends the fetched object rather than the request's, so a user's other fields are never updated; the model keeps no such fields.
- This repository registers neither the GlobalRoleBinding nor the User controller with a manager; the model assumes they run, as their `SetupWithManager` methods intend.

## 10. `Health`

`FeaturedReconcilerGroup.Init` walks the configured feature list. For each feature it sets up the group's reconcilers of that feature whose gate the configured gate admits. `getGateValue` lowercases a gate and ranks it `release` 1, `beta` 2, `alpha` 3, or -1 if unknown. A reconciler is skipped when either gate is unknown or the configured gate ranks below its own. The health reconciler is group `core`, gate `alpha`, so only the gate `alpha` (in any letter case) admits it. The repository builds no such group in its `main`; the model takes the feature list and the gate as inputs.

`HealthReconciler.Reconcile` gets the Health object from the manager's cache. It returns at once if neither `ComponentSelectors` nor `ServiceProbes` is set. Otherwise it writes one status entry per selector key: the pods the selector matches, or the parse error. It then writes one entry per probe key, overwriting a selector entry of the same key: "ok", or the `HTTPCheck` error. `HTTPCheck` reports ok for a probe without `HTTPGet`. Then it calls `Status().Update`. The deferred `RegularReconcile` turns an interval of 0 into 30 s and, without an error, asks to be requeued after it. controller-runtime requeues after a positive `RequeueAfter`, requeues rate-limited after an error, and forgets the key otherwise.

| Model | Code |
|---|---|
| `GateMap`, `GetGateValue`, `Admits`, `GroupInit`, `HealthReconciler` | `reconciler.go:30-86`, `health_controller.go:23-37`. An unknown gate is 0 rather than -1 (every known rank is positive). `LowerCase` is `strings.ToLower` on the gates of the configuration. |
| `Reconcile` (`Named`, `SelectorPass`, `ProbePass`, `HTTPCheck`, `RegularReconcile`) | `health_controller.go:44-155`, one step. It works on `cachedSpec` and `cachedStatus`. A write from a stale copy is a Conflict, an error. A write that changes the status bumps the `resourceVersion` (`fresh` becomes false). |
| `CacheSync` | The informer catching up; `For(&Health{})` (`SetupWithManager`, `172-177`) queues the key on every change. |
| `TimerFire` | The `RequeueAfter` timer expiring. |
| `EditSpec`, `PodChange`, `ProbeFlip` | A user's edit of a key's selector and probe, a change in the matched pods, a probed service going up or down. |

A selector is absent, parsable or not; a probe is absent, HTTP or another kind; the pods a selector matches are one of `PodStates`; a service is up or down. Pod names, restart counts (`getPodRestartCount`) and the URL that `HTTPCheck` formats are left out: no property tells them apart.

**Bounds.** One component key, two pod states, `MaxChanges = 4`. The feature lists are `{"core"}` and `{"iam"}`. The gates are `Alpha`, `alpha`, `beta` and the unknown `stable`. One key already reaches the early return, the probe overriding the selector, a stale copy and a conflict. Four changes let an edit, a pod change and a probe flip interleave with a pending timer and a stale copy. Two keys with two changes reach 10.6 M states and take six minutes; keys share nothing but the status write.

**Fairness.** The controller's worker serves the queued key (`WF` on `Reconcile`), the informer keeps watching (`WF` on `CacheSync`), and a timer that is set fires (`WF` on `TimerFire`). Users, pods and services promise nothing. Deadlock is not checked: a controller that is not set up, or a key forgotten after a negative interval, stays idle, as the code does.

| Run | Expect | What it shows |
|---|---|---|
| `health_fair` | pass (166 k states, about 8 s) | `DisabledNeverReports`: without the core feature and the alpha gate, no status is ever written. `StatusEventuallyReflects`: with the feature enabled and an interval that is not negative, the status eventually reports, and keeps reporting, every named component as it is. Pods are never watched, so only the requeue timer notices their changes. |

Mutants killed:

- the gate comparison turned round (`DisabledNeverReports`): a beta gate then starts the controller;
- `RegularReconcile` without the 30 s default (`StatusEventuallyReflects`): a zero interval is never requeued, so a pod change after the last reconcile is never reported;
- the selector text written as the error message (`TypeOK`).

A one-off check (status entries of keys no longer named are absent once the controller is idle) is violated in three steps. A probe is reported, then the user removes the key's probe. With nothing named, `Reconcile` returns before touching the status. Even while other keys are named, the loops only add entries, so a removed component is reported forever (hazard). A negative interval is forgotten after one reconcile, and a probe that is not HTTP is always ok; both follow directly from one line of the code, so the run leaves them out (`StatusEventuallyReflects` assumes a non-negative interval).

**Not modelled here:** the `Get` returning NotFound (the object deleted), a `List` error from the pod cache, and a stale pod cache (the pods are read as they are). They only delay what the timer already retries.
