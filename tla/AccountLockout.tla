--------------------------- MODULE AccountLockout ---------------------------
(***************************************************************************)
(* Password authentication with brute-force lockout, as the code splits    *)
(* it between the API server and two controllers:                          *)
(*                                                                         *)
(*  - the API server authenticates passwords against its informer copy of *)
(*    the User (passwordAuthenticator.Authenticate) and records every      *)
(*    IncorrectPassword, and every successful token grant, as a           *)
(*    LoginRecord (loginRecorder.RecordLogin);                             *)
(*  - the LoginRecord controller copies the record's creation time into   *)
(*    User.status.lastLoginTime (updateUserLastLoginTime);                 *)
(*  - the User controller encrypts plain passwords and recomputes the     *)
(*    account state from the failed records of the trailing window        *)
(*    (encryptPassword, syncUserStatus).                                   *)
(*                                                                         *)
(* `user' is the object in the API store, `apiUser' and `ctrlUser' the    *)
(* informer caches of the API server and of the controller manager.       *)
(* Every write is an optimistic-concurrency write: it is refused when the *)
(* writer's copy is not the stored object (resourceVersion conflict).     *)
(* Time is relative: a tick ages every timestamp by one second; ages are  *)
(* capped where the code can no longer tell them apart.                   *)
(***************************************************************************)
EXTENDS Naturals, FiniteSets, FiniteSetsExt

CONSTANTS
    Users,          \* user names (model values)
    RecordIds,      \* identities of LoginRecord objects, 1..n
    Threshold,      \* failed attempts that lock an account (10 in the code)
    Window,         \* trailing window and cooldown, in ticks (10 min in the code)
    NoTime,         \* a nil *metav1.Time
    Endpoints       \* the password endpoints attackers use, see LoginEndpoints

ASSUME Threshold \in Nat \ {0}
ASSUME Window \in Nat \ {0}
ASSUME RecordIds \subseteq Nat /\ RecordIds # {}

\* The OAuth password grant, and Basic authentication.  The grant starts
\* with DescribeUser, a Get by name, so an e-mail address never gets past
\* it.  Basic authentication is reached only by a union that consults it
\* before Anonymous (AuthChain checks both orders; the shipped one never
\* reaches it); there a login by e-mail is labelled with a name no User
\* has and is not counted, which this module leaves out.
LoginEndpoints == {"oauthToken", "basicAuthName"}

ASSUME Endpoints \subseteq LoginEndpoints /\ Endpoints # {}

VARIABLES
    user,          \* user[u]: the User object in the API store
    apiUser,       \* the API server's informer copy (user lister)
    ctrlUser,      \* the controller manager's informer copy
    records,       \* records[i]: LoginRecord i in the API store, or NoRecord
    ctrlRecords,   \* ids of the LoginRecords in the controller manager's cache
    userQueue,     \* work queue of the User controller
    recordQueue,   \* work queue of the LoginRecord controller
    apiFresh,      \* apiFresh[u]: apiUser[u] has the stored resourceVersion
    ctrlFresh,     \* ctrlFresh[u]: ctrlUser[u] has the stored resourceVersion
    clock          \* parity of the current second: every tick is a step

vars == <<user, apiUser, ctrlUser, records, ctrlRecords, userQueue, recordQueue, apiFresh, ctrlFresh, clock>>

-----------------------------------------------------------------------------
(* Data.                                                                   *)

\* Status.State; "None" is a nil State (a user not yet reconciled).
States == {"None", "Active", "Disabled", "AuthLimitExceeded"}

\* Age of LastTransitionTime: Window + 1 stands for "more than Window ago",
\* which is all the cooldown check (Add(10min).Before(now)) distinguishes.
TransitionAges == 0..(Window + 1)

\* Age of LastLoginTime: it is only compared with the creation time of a
\* live record, whose age is below Window.
LoginAges == 0..Window

UserObj == [state     : States,
            finalizer : BOOLEAN,                  \* the controller's finalizer is set
            encrypted : BOOLEAN,                  \* Spec.EncryptedPassword is a bcrypt hash
            ltt       : TransitionAges \cup {NoTime},
            lastLogin : LoginAges \cup {NoTime}]

NoRecord == [user |-> NoTime]

\* A LoginRecord: its UserReferenceLabel, the account the attempt was made
\* against (not stored; it is what the properties speak about),
\* Spec.Success and the age of its CreationTimestamp. Records older than
\* Window are dropped (see Tick).
Record == [user    : Users,
           account : Users,
           success : BOOLEAN,
           age     : 0..(Window - 1)]

Live == {i \in RecordIds : records[i] # NoRecord}

Aged(a, cap) == IF a = NoTime THEN NoTime ELSE IF a < cap THEN a + 1 ELSE cap

-----------------------------------------------------------------------------
(* PasswordVerifier and LoginRecorder (API server).                        *)

\* The outcome of passwordAuthenticator.Authenticate for the informer copy
\* c of an existing user and a password that is or is not the right one.
\* State is checked before the secret; a stored password that is not yet
\* a bcrypt hash fails bcrypt.CompareHashAndPassword.
Authenticate(c, correct) ==
    CASE c.state = "AuthLimitExceeded"         -> "RateLimitExceeded"
      [] c.state # "Active"                    -> "AccountIsNotActive"
      [] ~c.encrypted \/ ~correct              -> "IncorrectPassword"
      [] OTHER                                 -> "Authenticated"

\* loginRecorder.RecordLogin: a record labelled with the login name,
\* Success unless there is an authentication error.
RecordLoginUnlabelled(name, u, failed) ==
    [account |-> u, success |-> ~failed, age |-> 0]

RecordLogin(name, u, failed) ==
    [user |-> name, account |-> u, success |-> ~failed, age |-> 0]

\* handler.passwordGrant: only IncorrectPassword is recorded as a failure;
\* a success is recorded after IssueTo, and not when IssueTo fails.
PasswordGrant(u, result, issued) ==
    CASE result = "IncorrectPassword"          -> {RecordLogin(u, u, TRUE)}
      [] result = "Authenticated" /\ issued    -> {RecordLogin(u, u, FALSE)}
      [] OTHER                                 -> {}

\* basicAuthenticator.AuthenticatePassword: records IncorrectPassword
\* under the name the client sent, and no success.
AuthenticatePassword(name, u, result) ==
    IF result = "IncorrectPassword" THEN {RecordLogin(name, u, TRUE)} ELSE {}

FreeIds == RecordIds \ Live

\* One password attempt against u, by name, through an endpoint: both
\* reach u's informer copy. Attempts that create no record change no
\* state and are stuttering steps; so are failures of the record Create.
\* The record takes the least free id: GenerateName makes names unique,
\* and which name it picks is immaterial.
PasswordLogin(u, correct, endpoint, issued) ==
    LET result == Authenticate(apiUser[u], correct)
        rec    == IF endpoint = "oauthToken" THEN PasswordGrant(u, result, issued)
                  ELSE AuthenticatePassword(u, u, result)
    IN  /\ rec # {}
        /\ FreeIds # {}
        /\ records' = [records EXCEPT ![Min(FreeIds)] = CHOOSE r \in rec : TRUE]
        /\ UNCHANGED <<user, apiUser, ctrlUser, ctrlRecords, userQueue, recordQueue, apiFresh, ctrlFresh, clock>>

\* A write of obj as user u. A write that changes the object bumps its
\* resourceVersion, which makes every cached copy stale; the apiserver
\* drops a write that changes nothing. Writers check the freshness of
\* their copy first: the apiserver refuses an Update whose
\* resourceVersion is not the stored one (a Conflict error).
StoreWrite(u, obj) ==
    /\ user' = [user EXCEPT ![u] = obj]
    /\ apiFresh' = [apiFresh EXCEPT ![u] = @ /\ obj = user[u]]
    /\ ctrlFresh' = [ctrlFresh EXCEPT ![u] = @ /\ obj = user[u]]

\* imOperator.ModifyPassword: the new plain password is written into
\* Spec.EncryptedPassword of the API server's copy; the User controller
\* encrypts it later. The write leaves the status subresource alone; a
\* conflict returns an error and changes nothing.
ModifyPassword(u) ==
    /\ apiFresh[u]
    /\ StoreWrite(u, [apiUser[u] EXCEPT !.encrypted = FALSE])
    /\ UNCHANGED <<apiUser, ctrlUser, records, ctrlRecords, userQueue, recordQueue, clock>>

\* auth.PasswordVerify over the API server's informer copy c: a bcrypt
\* comparison only, so a password not yet hashed never verifies. It does
\* not consult the account state and records no login.
PasswordVerify(c, current) == c.encrypted /\ current = "right"

\* iamHandler.ModifyPassword: a caller the authorizer allows to update
\* users/password may leave the current password empty; any other caller,
\* and one that gives it, must pass imOperator.PasswordVerify. A failed
\* check (or a failing authorizer or lister) answers an error and changes
\* nothing; otherwise imOperator.ModifyPassword writes.
ModifyPasswordHandler(u, allowed, current) ==
    /\ \/ allowed /\ current = ""
       \/ PasswordVerify(apiUser[u], current)
    /\ ModifyPassword(u)

\* An administrator disables the account by writing the status directly
\* (no code path of the repository sets Disabled; it is set from outside).
DisableUser(u) ==
    /\ user[u].state # "Disabled"
    /\ StoreWrite(u, [user[u] EXCEPT !.state = "Disabled"])
    /\ UNCHANGED <<apiUser, ctrlUser, records, ctrlRecords, userQueue, recordQueue, clock>>

-----------------------------------------------------------------------------
(* Informers: each cache catches up with the store; the controller        *)
(* manager's informers put the key of every changed object in the queue.  *)

ApiUserSync(u) ==
    /\ ~apiFresh[u]
    /\ apiUser' = [apiUser EXCEPT ![u] = user[u]]
    /\ apiFresh' = [apiFresh EXCEPT ![u] = TRUE]
    /\ UNCHANGED <<user, ctrlUser, records, ctrlRecords, userQueue, recordQueue, ctrlFresh, clock>>

CtrlUserSync(u) ==
    /\ ~ctrlFresh[u]
    /\ ctrlUser' = [ctrlUser EXCEPT ![u] = user[u]]
    /\ ctrlFresh' = [ctrlFresh EXCEPT ![u] = TRUE]
    /\ userQueue' = userQueue \cup {u}
    /\ UNCHANGED <<user, apiUser, records, ctrlRecords, recordQueue, apiFresh, clock>>

CtrlRecordSync(i) ==
    /\ i \in Live \ ctrlRecords
    /\ ctrlRecords' = ctrlRecords \cup {i}
    /\ recordQueue' = recordQueue \cup {i}
    /\ UNCHANGED <<user, apiUser, ctrlUser, records, userQueue, apiFresh, ctrlFresh, clock>>

\* Every informer is in step with the store and the work queues are empty. The controllers react within
\* milliseconds and the window is ten minutes, so the clock only moves,
\* and the resync only comes, when the pipeline is idle.
Quiescent ==
    /\ \A u \in Users : apiFresh[u] /\ ctrlFresh[u]
    /\ ctrlRecords = Live
    /\ userQueue = {} /\ recordQueue = {}

\* The manager's periodic resync re-queues every cached object. Its
\* period (SyncPeriod, 10 hours by default) dwarfs the window.
Resync ==
    /\ Quiescent
    /\ ~(userQueue = Users /\ recordQueue = ctrlRecords)
    /\ userQueue' = Users
    /\ recordQueue' = ctrlRecords
    /\ UNCHANGED <<user, apiUser, ctrlUser, records, ctrlRecords, apiFresh, ctrlFresh, clock>>

-----------------------------------------------------------------------------
(* User controller (UserReconciler.Reconcile).                             *)

\* The failed records of u in the controller's cache created less than
\* Window ago (the List by user label and the loop that counts them).
FailedLoginAttemptsAll(u) ==
    Quantify(ctrlRecords, LAMBDA i : /\ records[i].user = u
                                     /\ records[i].age < Window)

FailedLoginAttempts(u) ==
    Quantify(ctrlRecords, LAMBDA i : /\ records[i].user = u
                                     /\ ~records[i].success
                                     /\ records[i].age < Window)

\* syncUserStatus on copy c: <<does it write, the object it writes>>.
\* Every write replaces the whole status, LastLoginTime included.
SyncUserStatusCooldownAtWindow(c, u) ==
    LET write(s) == <<TRUE, [c EXCEPT !.state = s, !.ltt = 0, !.lastLogin = NoTime]>>
    IN  CASE c.state = "Disabled"                                    -> <<FALSE, c>>
          [] c.encrypted /\ c.state = "None"                         -> write("Active")
          [] c.state = "AuthLimitExceeded" /\ c.ltt # NoTime
                /\ c.ltt >= Window                                   -> write("Active")
          [] FailedLoginAttempts(u) >= Threshold                     -> write("AuthLimitExceeded")
          [] OTHER                                                   -> <<FALSE, c>>

SyncUserStatusNilCheckFlipped(c, u) ==
    LET write(s) == <<TRUE, [c EXCEPT !.state = s, !.ltt = 0, !.lastLogin = NoTime]>>
    IN  CASE c.state = "Disabled"                                    -> <<FALSE, c>>
          [] c.encrypted /\ c.state = "None"                         -> write("Active")
          [] c.state = "AuthLimitExceeded" /\ c.ltt = NoTime         -> write("Active")
          [] FailedLoginAttempts(u) >= Threshold                     -> write("AuthLimitExceeded")
          [] OTHER                                                   -> <<FALSE, c>>

SyncUserStatusNoDisabledReturn(c, u) ==
    LET write(s) == <<TRUE, [c EXCEPT !.state = s, !.ltt = 0, !.lastLogin = NoTime]>>
    IN  CASE c.encrypted /\ c.state = "None"                         -> write("Active")
          [] c.state = "AuthLimitExceeded" /\ c.ltt # NoTime
                /\ c.ltt > Window                                    -> write("Active")
          [] FailedLoginAttempts(u) >= Threshold                     -> write("AuthLimitExceeded")
          [] OTHER                                                   -> <<FALSE, c>>

SyncUserStatus(c, u) ==
    LET write(s) == <<TRUE, [c EXCEPT !.state = s, !.ltt = 0, !.lastLogin = NoTime]>>
    IN  CASE c.state = "Disabled"                                    -> <<FALSE, c>>
          [] c.encrypted /\ c.state = "None"                         -> write("Active")
          [] c.state = "AuthLimitExceeded" /\ c.ltt # NoTime
                /\ c.ltt > Window                                    -> write("Active")
          [] FailedLoginAttempts(u) >= Threshold                     -> write("AuthLimitExceeded")
          [] OTHER                                                   -> <<FALSE, c>>

\* encryptPassword: the object it writes for copy c (a DeepCopy of c
\* with the bcrypt hash of the plain password).
EncryptPasswordHashDropped(c) == c

EncryptPassword(c) == [c EXCEPT !.encrypted = TRUE]

\* One reconcile of u from the cached copy c. Three writes in order, each
\* refused when its copy is stale, and each refusal ends the reconcile
\* with an error that re-queues the key:
\*  1. the finalizer is added; Update refreshes c in place, so c is then
\*     fresh;
\*  2. encryptPassword writes a DeepCopy of c, so c itself stays behind;
\*  3. syncUserStatus writes a status computed from c, which is stale
\*     whenever step 2 wrote.
UserReconcile(u) ==
    LET c      == ctrlUser[u]
        finOk  == c.finalizer \/ ctrlFresh[u]
        c0     == [c EXCEPT !.finalizer = TRUE]
        s1     == IF c.finalizer THEN user[u] ELSE c0
        fresh0 == ~c.finalizer \/ ctrlFresh[u]
        encOk  == c0.encrypted \/ fresh0
        s2     == IF c0.encrypted THEN s1 ELSE EncryptPassword(c0)
        sync   == SyncUserStatus(c0, u)
        statOk == ~sync[1] \/ (fresh0 /\ c0.encrypted)
    IN  /\ u \in userQueue
        /\ StoreWrite(u, IF ~finOk THEN user[u]
                         ELSE IF ~encOk THEN s1
                         ELSE IF sync[1] /\ statOk THEN sync[2]
                         ELSE s2)
        /\ userQueue' = IF finOk /\ encOk /\ statOk THEN userQueue \ {u} ELSE userQueue
        /\ UNCHANGED <<apiUser, ctrlUser, records, ctrlRecords, recordQueue, clock>>

-----------------------------------------------------------------------------
(* LoginRecord controller (LoginRecordController.Reconcile).               *)

\* Reconcile of record i: updateUserLastLoginTime gives the cached user
\* the record's creation time when it has none or an earlier one
\* (strictly Before, at the one-second resolution of metav1.Time). The
\* retention-delete path is not reached: records leave the model once
\* they are outside the window and the pipeline is idle. A record whose
\* label names no User fails with NotFound and stays queued (no step).
LoginRecordReconcile(i) ==
    LET u     == records[i].user
        c     == ctrlUser[u]
        later == IF c.lastLogin = NoTime THEN TRUE ELSE c.lastLogin > records[i].age
    IN  /\ i \in recordQueue
        /\ u \in Users
        /\ \/ /\ ~later
              /\ recordQueue' = recordQueue \ {i}
              /\ UNCHANGED <<user, apiFresh, ctrlFresh>>
           \/ /\ later /\ ctrlFresh[u]
              /\ StoreWrite(u, [c EXCEPT !.lastLogin = records[i].age])
              /\ recordQueue' = recordQueue \ {i}
           \/ /\ later /\ ~ctrlFresh[u]
              /\ UNCHANGED <<user, recordQueue, apiFresh, ctrlFresh>>
        /\ UNCHANGED <<apiUser, ctrlUser, records, ctrlRecords, userQueue, clock>>

-----------------------------------------------------------------------------
(* Time.                                                                   *)

AgeUser(o) == [o EXCEPT !.ltt = Aged(@, Window + 1), !.lastLogin = Aged(@, Window)]

\* One second passes. Records leaving the window are dropped: nothing the
\* properties observe depends on them any more.
Tick ==
    /\ Quiescent
    /\ user' = [u \in Users |-> AgeUser(user[u])]
    /\ apiUser' = [u \in Users |-> AgeUser(apiUser[u])]
    /\ ctrlUser' = [u \in Users |-> AgeUser(ctrlUser[u])]
    /\ records' = [i \in RecordIds |->
                     IF records[i] = NoRecord \/ records[i].age + 1 >= Window
                     THEN NoRecord
                     ELSE [records[i] EXCEPT !.age = @ + 1]]
    /\ ctrlRecords' = {i \in ctrlRecords : records[i].age + 1 < Window}
    /\ recordQueue' = {i \in recordQueue : records[i].age + 1 < Window}
    /\ clock' = 1 - clock
    /\ UNCHANGED <<userQueue, apiFresh, ctrlFresh>>

-----------------------------------------------------------------------------
(* Specification.                                                          *)

\* Users as they are right after creation (nil state, plain password, the
\* creation event queued), after their first reconciles, or disabled.
InitUsers ==
    {[state |-> "None", finalizer |-> FALSE, encrypted |-> FALSE, ltt |-> NoTime, lastLogin |-> NoTime],
     [state |-> "Active", finalizer |-> TRUE, encrypted |-> TRUE, ltt |-> Window + 1, lastLogin |-> NoTime],
     [state |-> "Disabled", finalizer |-> TRUE, encrypted |-> TRUE, ltt |-> Window + 1, lastLogin |-> NoTime]}

Init ==
    /\ user \in [Users -> InitUsers]
    /\ apiUser = user
    /\ ctrlUser = user
    /\ records = [i \in RecordIds |-> NoRecord]
    /\ ctrlRecords = {}
    /\ userQueue = {u \in Users : user[u].state = "None"}
    /\ recordQueue = {}
    /\ apiFresh = [u \in Users |-> TRUE]
    /\ ctrlFresh = [u \in Users |-> TRUE]
    /\ clock = 0

Next ==
    \/ \E u \in Users, correct, issued \in BOOLEAN, endpoint \in Endpoints :
          PasswordLogin(u, correct, endpoint, issued)
    \/ \E u \in Users, allowed \in BOOLEAN, current \in {"", "right", "wrong"} :
          ModifyPasswordHandler(u, allowed, current)
    \/ \E u \in Users : DisableUser(u) \/ ApiUserSync(u) \/ CtrlUserSync(u) \/ UserReconcile(u)
    \/ \E i \in RecordIds : CtrlRecordSync(i) \/ LoginRecordReconcile(i)
    \/ Resync
    \/ Tick

Spec == Init /\ [][Next]_vars

\* The controllers, informers and the periodic resync never stop, and
\* time is not Zeno: ticks happen without bound however the users act.
\* The users and the administrator promise nothing.
FairSpec ==
    /\ Spec
    /\ \A u \in Users : WF_vars(ApiUserSync(u)) /\ WF_vars(CtrlUserSync(u)) /\ WF_vars(UserReconcile(u))
    /\ \A i \in RecordIds : WF_vars(CtrlRecordSync(i)) /\ WF_vars(LoginRecordReconcile(i))
    /\ WF_vars(Resync)
    /\ []<><<Tick>>_vars

-----------------------------------------------------------------------------
(* Properties.                                                             *)

TypeOK ==
    /\ user \in [Users -> UserObj]
    /\ apiUser \in [Users -> UserObj]
    /\ ctrlUser \in [Users -> UserObj]
    /\ records \in [RecordIds -> Record \cup {NoRecord}]
    /\ ctrlRecords \subseteq Live
    /\ userQueue \subseteq Users
    /\ recordQueue \subseteq RecordIds
    /\ apiFresh \in [Users -> BOOLEAN]
    /\ ctrlFresh \in [Users -> BOOLEAN]
    /\ clock \in {0, 1}

\* The failed attempts against account u the store holds from the window,
\* whatever name they were made with.
StoreFailures(u) ==
    Quantify(Live, LAMBDA i : records[i].account = u /\ ~records[i].success)

\* Locking is sound: whenever syncUserStatus writes AuthLimitExceeded
\* (entering the lock or renewing its transition time), the store holds
\* at least Threshold failed attempts of that user from the window, even
\* though the controller counted them in its own cache.
LockoutSound ==
    [][\A u \in Users :
         (/\ user'[u].state = "AuthLimitExceeded"
          /\ user'[u].ltt = 0
          /\ user'[u] # user[u]) => StoreFailures(u) >= Threshold]_vars

\* The cooldown is respected: a locked account becomes unlocked only when
\* the stored LastTransitionTime is more than the window old, even when
\* the User controller decided from an older copy of the account.
LockoutNotLiftedEarly ==
    [][\A u \in Users :
         (/\ user[u].state = "AuthLimitExceeded"
          /\ user'[u].state = "Active") => user[u].ltt > Window]_vars

\* Disabled is a trap for the pipeline: neither controller's status write,
\* computed from a possibly stale copy, ever moves an account out of
\* Disabled.
DisabledIsTrap ==
    [][\A u \in Users : user[u].state = "Disabled" => user'[u].state = "Disabled"]_vars

\* encryptPassword's promise "plain text password won't be kept anywhere":
\* a plain password written by ModifyPassword or at creation is hashed
\* eventually.
PlainPasswordEventuallyEncrypted ==
    \A u \in Users : ~user[u].encrypted ~> user[u].encrypted

\* A locked account does not stay locked: the User controller eventually
\* lifts AuthLimitExceeded (or an administrator disables the account).
LockEventuallyLifted ==
    \A u \in Users : user[u].state = "AuthLimitExceeded" ~> user[u].state # "AuthLimitExceeded"

\* Threshold failures lock the account: once the pipeline is idle, no
\* account is still Active while the store holds Threshold failed attempts
\* from the window (Scenario C: the next attempt returns RateLimitExceeded).
ThresholdFailuresLocked ==
    Quiescent => \A u \in Users :
        user[u].state = "Active" => StoreFailures(u) < Threshold

\* LastLoginTime, "last login attempt timestamp", once set by the
\* LoginRecord controller, is never erased again.
LastLoginTimeRetained ==
    [][\A u \in Users : user[u].lastLogin # NoTime => user'[u].lastLogin # NoTime]_vars

=============================================================================
