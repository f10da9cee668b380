------------------------------ MODULE GlobalRoles ------------------------------
(***************************************************************************)
(* Platform roles.  A user's global role is a GlobalRoleBinding named      *)
(* "<user>-<role>" and labelled with the user.  CreateUser and UpdateUser  *)
(* (pkg/aiapis/iam/v1/handler.go) set it through CreateGlobalRoleBinding   *)
(* (pkg/middles/iam/am/am.go), which decides from the informer's list of  *)
(* the user's bindings which ones to delete before it creates the new one. *)
(* The GlobalRoleBinding controller gives the user of a "platform-admin"   *)
(* binding the ClusterRoleBinding "<user>-cluster-admin", with the binding *)
(* as its controller owner, so that garbage collection removes it with the *)
(* binding.  The User controller deletes a deleted user's bindings.        *)
(*                                                                         *)
(* Each API call of a request is one step; the controllers, the garbage    *)
(* collector and the informer take their own steps in between.  A binding  *)
(* is [user, role, created]: created numbers the bindings in the order they *)
(* were created, and stands for both its CreationTimestamp and its uid.    *)
(***************************************************************************)
EXTENDS Naturals, Sequences, FiniteSets, Functions, ListQuery

CONSTANTS Users,       \* user names
          Procs,       \* requests served concurrently
          MaxUid,      \* how many bindings may be created in a behaviour
          None         \* no role; no ClusterRoleBinding

ASSUME MaxUid \in Nat /\ MaxUid <= MaxInsertion

VARIABLES grb,         \* the GlobalRoleBindings in the API
          created,     \* how many bindings have been created
          cache,       \* the informer's copy of grb, read by its lister
          crb,         \* crb[u]: the owner (created) of "<u>-cluster-admin",
                       \* 0 if it has none, or None if it does not exist
          queue,       \* binding names [user, role] queued for the controller
          phase,       \* phase[u]: the User object's life cycle
          cascaded,    \* cascaded[u]: the User controller deleted u's bindings
          pc,          \* pc[p]: the next call of request p
          loc          \* loc[p]: the request's parameters and what it listed

vars == <<grb, created, cache, crb, queue, phase, cascaded, pc, loc>>

PlatformAdmin == "platform-admin"
GlobalRoleNames == {"platform-admin", "platform-regular", "platform-self-provisioner"}
\* strings.Compare order of "<user>-<role>" among one user's bindings.
NameRank == [r \in GlobalRoleNames |->
                CASE r = "platform-admin" -> 1 [] r = "platform-regular" -> 2
                  [] r = "platform-self-provisioner" -> 3]
Binding == [user : Users, role : GlobalRoleNames, created : 1..MaxUid]
Key(b) == [user |-> b.user, role |-> b.role]
\* "new": created, the User controller has not added its finalizer yet.
Phases == {"new", "live", "deleting", "gone"}
Idle == [op |-> "none", u |-> None, role |-> None, todo |-> <<>>]

\* The binding named "<u>-<r>", as a set of at most one.
Named(bs, u, r) == {b \in bs : b.user = u /\ b.role = r}

(***************************************************************************)
(* Reads.                                                                   *)
(***************************************************************************)

\* query.New(): no filter and no pagination, sortBy and ascending at their
\* zero values, so DefaultList orders by CreationTimestamp, newest first.
NewQuery == [ascending |-> FALSE, sortBy |-> "creationTimestamp"]

\* contains(subjects, username, nil): a binding's only subject is the User
\* it was created for; no groups are passed.
SubjectsContain(b, username) == b.user = username

\* ListGlobalRoleBindings(u): the informer's bindings in DefaultList order,
\* those whose subjects name u.
ListGlobalRoleBindings(bs, u) ==
    LET metas == SetToSeq({[name |-> NameRank[b.role], created |-> b.created,
                            obj |-> b] : b \in bs})
        listed == DefaultList(metas, NewQuery, Range(metas))
        mine == SelectSeq(listed, LAMBDA o : SubjectsContain(o.obj, u))
    IN  [k \in DOMAIN mine |-> mine[k].obj]

\* findGlobalRole(u), the role a password login is granted: Get
\* "<u>-platform-admin", then "-platform-self-provisioner", then
\* "-platform-regular", from the API itself.
FindGlobalRole(u) ==
    CASE Named(grb, u, "platform-admin") # {}            -> "platform-admin"
      [] Named(grb, u, "platform-self-provisioner") # {} -> "platform-self-provisioner"
      [] Named(grb, u, "platform-regular") # {}          -> "platform-regular"
      [] OTHER                                           -> None

\* GetGlobalRoleOfUser(u): the role of the first binding listed.
GetGlobalRoleOfUser(u) ==
    LET l == ListGlobalRoleBindings(cache, u)
    IN  IF l = <<>> THEN None ELSE l[1].role

\* The read handlers (pkg/aiapis/iam/v1/handler.go) and the users getter
\* (pkg/middles/resources/v1alpha3/user/user.go).  Its User lister's Get
\* of a removed User is NotFound: the subject is an orphan.  The cluster
\* role bindings are read as they are in the API (crb).
UserExists(u) == phase[u] # "gone"
ClusterAdmin == "cluster-admin"
\* A listed User: the role the getter annotates it with (global or
\* cluster role, None for neither) and the global role the handler adds.
Entry(u, role) == [user |-> u, role |-> role, globalRole |-> None]

\* contains(users, username).
contains(users, username) == \E i \in DOMAIN users : users[i].user = username

\* listAllUsersByGlobalRole(globalRole) over the informer's bindings in
\* the lister's order: the user subject of each binding of that role,
\* once, unless the User is NotFound.
ListAllUsersByGlobalRole(order, globalRole) ==
    LET Add(users, b) ==
            IF b.role # globalRole \/ contains(users, b.user) \/ ~UserExists(b.user)
            THEN users ELSE Append(users, Entry(b.user, b.role))
    IN  FoldLeft(Add, <<>>, order)

\* The ClusterRoleBindings with a user subject: "<u>-cluster-admin".
ClusterRoleBindings == {[user |-> u, role |-> ClusterAdmin] : u \in {v \in Users : crb[v] # None}}

\* listAllUsersInCluster with its role test turned round.
ListAllUsersInClusterInverted(order, clusterRole) ==
    LET Add(users, b) ==
            IF \/ clusterRole # None /\ b.role = clusterRole
               \/ contains(users, b.user) \/ ~UserExists(b.user)
            THEN users ELSE Append(users, Entry(b.user, b.role))
    IN  FoldLeft(Add, <<>>, order)

\* listAllUsersInCluster(clusterRole): as listAllUsersByGlobalRole, over
\* the ClusterRoleBindings; an empty clusterRole takes every binding.
ListAllUsersInCluster(order, clusterRole) ==
    LET Add(users, b) ==
            IF \/ clusterRole # None /\ b.role # clusterRole
               \/ contains(users, b.user) \/ ~UserExists(b.user)
            THEN users ELSE Append(users, Entry(b.user, b.role))
    IN  FoldLeft(Add, <<>>, order)

\* usersGetter.List without a namespace filter (RoleBindings has that
\* branch): cluster=true, else a global-role filter, else every User.
\* Which bindings share a user and role decides nothing here, so one
\* lister order stands for all.
UsersGetterList(q) ==
    CASE q.cluster -> ListAllUsersInCluster(SetToSeq(ClusterRoleBindings), q.clusterRole)
      [] q.globalRole # None -> ListAllUsersByGlobalRole(SetToSeq(cache), q.globalRole)
      [] OTHER -> SetToSeq({Entry(u, None) : u \in {v \in Users : UserExists(v)}})

\* im.ListUsers: the getter's list, each User with its password blanked
\* (ensurePasswordNotOutput; passwords are not modelled here).
ImListUsers(q) == UsersGetterList(q)

\* appendGlobalRoleAnnotation.
AppendGlobalRoleAnnotation(item, globalRole) == [item EXCEPT !.globalRole = globalRole]

\* ListUsers: the getter's list, each User annotated with
\* GetGlobalRoleOfUser when it finds one.  WithListAndFilter, applied to
\* the result after that, is ListQuery's and left out here.
ListUsers(q) ==
    LET items == ImListUsers(q)
    IN  [i \in DOMAIN items |->
            IF GetGlobalRoleOfUser(items[i].user) = None THEN items[i]
            ELSE AppendGlobalRoleAnnotation(items[i], GetGlobalRoleOfUser(items[i].user))]

\* DescribeUser: im.DescribeUser (NotFound once the User is gone), then
\* the annotation from GetGlobalRoleOfUser, when it finds one.
DescribeUser(u) ==
    IF ~UserExists(u) THEN "NotFound"
    ELSE AppendGlobalRoleAnnotation(Entry(u, None), GetGlobalRoleOfUser(u)).globalRole

\* GetUserDetail: as DescribeUser, but it reads the role's name whether or
\* not GetGlobalRoleOfUser found one; without one that is a nil pointer
\* dereference, which the container's recover handler answers with 500.
GetUserDetail(u) ==
    CASE ~UserExists(u)                -> "NotFound"
      [] GetGlobalRoleOfUser(u) = None -> "panic"
      [] OTHER                         -> GetGlobalRoleOfUser(u)

\* ListClusterRoleBindings(u): the ClusterRoleBindings whose subjects
\* contain u, in DefaultList order.
ListClusterRoleBindings(u) == SetToSeq({b \in ClusterRoleBindings : b.user = u})

\* GetClusterRole(name): the informer's ClusterRole; of the roles bound
\* here, only the built-in cluster-admin exists.
GetClusterRole(name) == name = ClusterAdmin

\* GetClusterRoleOfUser(u): the role of the first of them (a conflict is
\* only logged), an error when that ClusterRole is missing; NotFound
\* without a binding.
GetClusterRoleOfUser(u) ==
    CASE ListClusterRoleBindings(u) = <<>>                     -> "NotFound"
      [] ~GetClusterRole(ListClusterRoleBindings(u)[1].role) -> "error"
      [] OTHER                                                -> ListClusterRoleBindings(u)[1].role

(***************************************************************************)
(* Requests.  A request ends (pc = "idle") on success or on its first error. *)
(***************************************************************************)
Goto(p, l) == pc' = [pc EXCEPT ![p] = l]
Done(p) == /\ pc' = [pc EXCEPT ![p] = "idle"]
           /\ loc' = [loc EXCEPT ![p] = Idle]

\* A request creates at most one binding: it starts only when the bound
\* leaves room for it and for the requests in flight.
Room == created + Cardinality({q \in Procs : pc[q] # "idle"}) < MaxUid

\* UpdateUser(u) with the global-role annotation set to role.
BeginUpdate(p, u, role) ==
    /\ pc[p] = "idle" /\ Room
    /\ Goto(p, "update")
    /\ loc' = [loc EXCEPT ![p] = [Idle EXCEPT !.op = "update", !.u = u, !.role = role]]
    /\ UNCHANGED <<grb, created, cache, crb, queue, phase, cascaded>>

\* CreateUser(u) with the global-role annotation role (None: not set).
BeginCreate(p, u, role) ==
    /\ pc[p] = "idle" /\ Room
    /\ Goto(p, "createUser")
    /\ loc' = [loc EXCEPT ![p] = [Idle EXCEPT !.op = "create", !.u = u, !.role = role]]
    /\ UNCHANGED <<grb, created, cache, crb, queue, phase, cascaded>>

\* im.UpdateUser: fetch the User (NotFound once it is gone) and Update the
\* fetched object, unchanged.
ImUpdateUser(u) == phase[u] # "gone"

\* im.UpdateUser (NotFound once the User is gone), then
\* updateGlobalRoleBinding: nothing to do when GetGlobalRoleOfUser already
\* reports the role; otherwise the operator must be allowed to update users.
UpdateUser(p) ==
    LET l == loc[p]
    IN  /\ pc[p] = "update"
        /\ \/ ~ImUpdateUser(l.u) /\ Done(p)
           \/ /\ ImUpdateUser(l.u)
              /\ GetGlobalRoleOfUser(l.u) = l.role
              /\ Done(p)
           \/ /\ ImUpdateUser(l.u)
              /\ GetGlobalRoleOfUser(l.u) # l.role
              /\ \E allowed \in BOOLEAN :
                    IF allowed THEN Goto(p, "list") /\ UNCHANGED loc
                               ELSE Done(p)
        /\ UNCHANGED <<grb, created, cache, crb, queue, phase, cascaded>>

\* im.CreateUser: Create refuses a name that is taken (AlreadyExists),
\* also while the User is being deleted.
ImCreateUser(u) == phase[u] = "gone"

\* GetGlobalRole(r): the informer's GlobalRole; only the built-in ones exist.
GetGlobalRole(r) == r \in GlobalRoleNames

\* im.CreateUser (AlreadyExists unless the name is free), then
\* CreateGlobalRoleBinding(u, role), whose GetGlobalRole fails for "".
CreateUser(p) ==
    LET l == loc[p]
    IN  /\ pc[p] = "createUser"
        /\ IF ImCreateUser(l.u)
           THEN /\ phase' = [phase EXCEPT ![l.u] = "new"]
                /\ IF GetGlobalRole(l.role) THEN Goto(p, "list") /\ UNCHANGED loc
                                            ELSE Done(p)
           ELSE Done(p) /\ UNCHANGED phase
        /\ UNCHANGED <<grb, created, cache, crb, queue, cascaded>>

\* CreateGlobalRoleBinding: ListGlobalRoleBindings(u), from the informer.
ListBindings(p) ==
    LET l == ListGlobalRoleBindings(cache, loc[p].u)
    IN  /\ pc[p] = "list"
        /\ loc' = [loc EXCEPT ![p].todo = l]
        /\ Goto(p, IF l = <<>> THEN "create" ELSE "delete")
        /\ UNCHANGED <<grb, created, cache, crb, queue, phase, cascaded>>

\* The loop over the listed bindings: the role asked for is bound already
\* (return nil), or the binding of that name is deleted (NotFound skipped).
DeleteListed(p) ==
    LET l == loc[p]
        b == Head(l.todo)
    IN  /\ pc[p] = "delete"
        /\ \/ b.role = l.role /\ Done(p) /\ UNCHANGED grb
           \/ /\ b.role # l.role
              /\ grb' = grb \ Named(grb, b.user, b.role)
              /\ loc' = [loc EXCEPT ![p].todo = Tail(l.todo)]
              /\ Goto(p, IF Tail(l.todo) = <<>> THEN "create" ELSE "delete")
        /\ UNCHANGED <<created, cache, crb, queue, phase, cascaded>>

\* A Create that does not refuse a name already taken.
CreateBindingNoConflict(p) ==
    LET l == loc[p]
    IN  /\ pc[p] = "create"
        /\ grb' = grb \cup {[user |-> l.u, role |-> l.role, created |-> created + 1]}
        /\ created' = created + 1
        /\ queue' = queue \cup {[user |-> l.u, role |-> l.role]}
        /\ Done(p)
        /\ UNCHANGED <<cache, crb, phase, cascaded>>

\* Create "<u>-<role>": AlreadyExists is the request's error.  The
\* controller hears of the new binding.
CreateBinding(p) ==
    LET l == loc[p]
    IN  /\ pc[p] = "create"
        /\ IF Named(grb, l.u, l.role) # {}
           THEN UNCHANGED <<grb, created, queue>>
           ELSE /\ grb' = grb \cup {[user |-> l.u, role |-> l.role, created |-> created + 1]}
                /\ created' = created + 1
                /\ queue' = queue \cup {[user |-> l.u, role |-> l.role]}
        /\ Done(p)
        /\ UNCHANGED <<cache, crb, phase, cascaded>>

(***************************************************************************)
(* The User's life cycle and the User controller.                          *)
(***************************************************************************)

\* DeleteUser(u) once the handler's checks passed (RoleBindings models
\* them): a User without the controller's finalizer is gone at once.
DeleteUser(u) ==
    /\ phase[u] \in {"new", "live"}
    /\ phase' = [phase EXCEPT ![u] = IF @ = "new" THEN "gone" ELSE "deleting"]
    /\ UNCHANGED <<grb, created, cache, crb, queue, cascaded, pc, loc>>

AddFinalizer(u) ==
    /\ phase[u] = "new"
    /\ phase' = [phase EXCEPT ![u] = "live"]
    /\ UNCHANGED <<grb, created, cache, crb, queue, cascaded, pc, loc>>

\* deleteRoleBindings, first call: DeleteAllOf the GlobalRoleBindings
\* labelled u.
DeleteGlobalRoleBindings(u) ==
    /\ phase[u] = "deleting" /\ ~cascaded[u]
    /\ grb' = {b \in grb : b.user # u}
    /\ cascaded' = [cascaded EXCEPT ![u] = TRUE]
    /\ UNCHANGED <<created, cache, crb, queue, phase, pc, loc>>

\* The namespaces' bindings and the login records deleted (RoleBindings and
\* AccountLockout model those), the finalizer removed: the User is gone.
RemoveFinalizer(u) ==
    /\ phase[u] = "deleting" /\ cascaded[u]
    /\ phase' = [phase EXCEPT ![u] = "gone"]
    /\ cascaded' = [cascaded EXCEPT ![u] = FALSE]
    /\ UNCHANGED <<grb, created, cache, crb, queue, pc, loc>>

(***************************************************************************)
(* The GlobalRoleBinding controller, the garbage collector, the informer.  *)
(***************************************************************************)

\* Reconcile(k) when findExpectUsername finds no User subject: nothing.
ReconcileNoSubject(k) ==
    /\ k \in queue
    /\ queue' = queue \ {k}
    /\ UNCHANGED <<grb, created, cache, crb, phase, cascaded, pc, loc>>

\* assignClusterAdminRole with SetControllerReference left out: the
\* ClusterRoleBinding has no owner (0).
ReconcileUnowned(k) ==
    /\ k \in queue
    /\ queue' = queue \ {k}
    /\ IF Named(grb, k.user, k.role) # {} /\ k.role = PlatformAdmin /\ crb[k.user] = None
       THEN crb' = [crb EXCEPT ![k.user] = 0]
       ELSE UNCHANGED crb
    /\ UNCHANGED <<grb, created, cache, phase, cascaded, pc, loc>>

\* assignClusterAdminRole(b): the subject's "<user>-cluster-admin", with b
\* as controller owner; AlreadyExists counts as success, whoever owns it.
AssignClusterAdminRole(b) ==
    IF crb[b.user] = None THEN crb' = [crb EXCEPT ![b.user] = b.created]
                          ELSE UNCHANGED crb

\* Reconcile(k): Get the binding (NotFound ends); a platform-admin binding
\* gets its user the cluster-admin ClusterRoleBinding.
Reconcile(k) ==
    /\ k \in queue
    /\ queue' = queue \ {k}
    /\ IF Named(grb, k.user, k.role) # {} /\ k.role = PlatformAdmin
       THEN AssignClusterAdminRole(CHOOSE b \in Named(grb, k.user, k.role) : TRUE)
       ELSE UNCHANGED crb
    /\ UNCHANGED <<grb, created, cache, phase, cascaded, pc, loc>>

\* The cache's periodic resync hands the controller every binding again;
\* it fires forever, whether or not anything is new.
Resync ==
    /\ queue' = queue \cup {Key(b) : b \in grb}
    /\ UNCHANGED <<grb, created, cache, crb, phase, cascaded, pc, loc>>

\* Garbage collection deletes a ClusterRoleBinding whose owner is gone.
CollectGarbage(u) ==
    /\ crb[u] \in 1..MaxUid
    /\ \A b \in grb : b.created # crb[u]
    /\ crb' = [crb EXCEPT ![u] = None]
    /\ UNCHANGED <<grb, created, cache, queue, phase, cascaded, pc, loc>>

\* The informer catches up with the API.
SyncInformer ==
    /\ cache # grb
    /\ cache' = grb
    /\ UNCHANGED <<grb, created, crb, queue, phase, cascaded, pc, loc>>

(***************************************************************************)
(* The specification.  Initially every user exists with one binding, as    *)
(* CreateUser leaves it, and the controller has handled them.              *)
(***************************************************************************)
Init ==
    \E role \in [Users -> GlobalRoleNames],
      order \in Bijection(Users, 1..Cardinality(Users)) :
        /\ grb = {[user |-> u, role |-> role[u], created |-> order[u]] : u \in Users}
        /\ created = Cardinality(Users)
        /\ cache = grb
        /\ crb = [u \in Users |-> IF role[u] = PlatformAdmin THEN order[u] ELSE None]
        /\ queue = {}
        /\ phase = [u \in Users |-> "live"]
        /\ cascaded = [u \in Users |-> FALSE]
        /\ pc = [p \in Procs |-> "idle"]
        /\ loc = [p \in Procs |-> Idle]

RequestStep(p) ==
    \/ UpdateUser(p) \/ CreateUser(p) \/ ListBindings(p)
    \/ DeleteListed(p) \/ CreateBinding(p)

Next ==
    \/ \E p \in Procs, u \in Users, r \in GlobalRoleNames : BeginUpdate(p, u, r)
    \/ \E p \in Procs, u \in Users, r \in GlobalRoleNames \cup {None} : BeginCreate(p, u, r)
    \/ \E p \in Procs : RequestStep(p)
    \/ \E u \in Users : \/ DeleteUser(u) \/ AddFinalizer(u)
                        \/ DeleteGlobalRoleBindings(u) \/ RemoveFinalizer(u)
                        \/ CollectGarbage(u)
    \/ \E k \in queue : Reconcile(k)
    \/ Resync
    \/ SyncInformer

\* A request runs to its end; the controllers, the garbage collector and
\* the informer keep running, and the workqueue serves every queued name.  Users act when they like.
Fairness ==
    /\ \A p \in Procs : WF_vars(RequestStep(p))
    /\ \A u \in Users : /\ WF_vars(AddFinalizer(u))
                        /\ WF_vars(DeleteGlobalRoleBindings(u))
                        /\ WF_vars(RemoveFinalizer(u))
                        /\ WF_vars(CollectGarbage(u))
    /\ \A k \in [user : Users, role : GlobalRoleNames] : WF_vars(Reconcile(k))
    /\ WF_vars(Resync)
    /\ WF_vars(SyncInformer)

Spec == Init /\ [][Next]_vars /\ Fairness

-----------------------------------------------------------------------------
(***************************************************************************)
(* Properties.                                                              *)
(***************************************************************************)
\* The type of every variable; the API keeps binding names unique.
TypeOK ==
    /\ grb \subseteq Binding /\ cache \subseteq Binding
    /\ \A u \in Users, r \in GlobalRoleNames : Cardinality(Named(grb, u, r)) <= 1
    /\ created \in 0..MaxUid
    /\ crb \in [Users -> {None} \cup 0..MaxUid]
    /\ queue \subseteq [user : Users, role : GlobalRoleNames]
    /\ phase \in [Users -> Phases]
    /\ cascaded \in [Users -> BOOLEAN]
    /\ pc \in [Procs -> {"idle", "update", "createUser", "list", "delete", "create"}]

\* u logs in as platform admin.
HasPlatformAdmin(u) == FindGlobalRole(u) = PlatformAdmin
OwnedByPlatformAdmin(u) == crb[u] \in {b.created : b \in Named(grb, u, PlatformAdmin)}

\* A platform-admin binding that stays leads to the cluster-admin
\* ClusterRoleBinding owned by it: the controller's AlreadyExists shortcut
\* may keep one owned by an earlier binding, which garbage collection then
\* removes, and only the resync brings the binding to the controller again.
ClusterAdminFollowsPlatformAdmin ==
    \A u \in Users : HasPlatformAdmin(u) ~> (OwnedByPlatformAdmin(u) \/ ~HasPlatformAdmin(u))

\* Demoted or deleted: once u has no platform-admin binding, its
\* cluster-admin ClusterRoleBinding goes, through the owner reference the
\* controller sets, unless u is made platform admin again meanwhile.
ClusterAdminRevoked ==
    \A u \in Users : ~HasPlatformAdmin(u) ~> (crb[u] = None \/ HasPlatformAdmin(u))

\* The query ListUsers?cluster=true&clusterrole=cluster-admin.
ClusterAdminQuery == [cluster |-> TRUE, clusterRole |-> ClusterAdmin, globalRole |-> None]

\* A user whom DescribeUser reports as platform admin (from the lagging
\* informer) comes to be reported with the cluster-admin ClusterRole by
\* GetClusterRoleOfUser and listed by ListUsers?cluster=true&clusterrole=
\* cluster-admin, unless the report changes first: what the read handlers
\* show agrees once the controller, the garbage collector and the informer
\* have caught up.
DescribedAdminGetsClusterRole ==
    \A u \in Users :
        DescribeUser(u) = PlatformAdmin ~>
            \/ /\ GetClusterRoleOfUser(u) = ClusterAdmin
               /\ \E i \in DOMAIN ListUsers(ClusterAdminQuery) : ListUsers(ClusterAdminQuery)[i].user = u
            \/ DescribeUser(u) # PlatformAdmin

\* The informer's bindings as objects with metadata, in every order the
\* lister may return them (the order of a map's iteration).
CachedMetas == {[name |-> NameRank[b.role], created |-> b.created, obj |-> b] : b \in cache}

\* Whatever order the lister returns, whatever the query and whichever
\* bindings its filters select, DefaultList returns them in the order it
\* promises: GetGlobalRoleOfUser's "first" is the newest binding.
DefaultListSortsAsPromised ==
    \A objs \in SetToSeqs(CachedMetas), q \in Queries, selected \in SUBSET CachedMetas :
        SortedAsPromised(objs, q, selected)

\* WithListAndFilter keeps exactly the objects its filters match, in the
\* order listed, whatever that order.
WithListAndFilterKeepsMatches ==
    \A objs \in SetToSeqs(CachedMetas), matched \in SUBSET CachedMetas :
        KeepsMatches(objs, matched)
=============================================================================
