----------------------------- MODULE RoleBindings -----------------------------
(***************************************************************************)
(* Namespace membership (pkg/middles/iam/am/am.go): the role bindings      *)
(* CreateNamespaceRoleBinding and RemoveUserFromNamespace write, the       *)
(* namespace's creator annotation that names its manager, the DeleteUser   *)
(* handler's admin check (pkg/aiapis/iam/v1/handler.go) and the User       *)
(* controller's deletion cascade (pkg/controllers/user).                   *)
(*                                                                         *)
(* Each API call is one step, so requests served concurrently interleave   *)
(* between calls, and calls may fail as Faults allows.  A binding is     *)
(* named "<user>-<role>" and labelled with its user; the API lists a       *)
(* namespace's bindings in name order.                                      *)
(***************************************************************************)
EXTENDS Naturals, Sequences, FiniteSets, SequencesExt

CONSTANTS Users,       \* user names
          NsOrder,     \* the namespaces, in the order the API lists them
          Procs,       \* requests served concurrently
          Faults,      \* the failures that may happen: "call", "list"
          RvMod,       \* resourceVersions are told apart modulo RvMod
          None         \* the empty string: no creator annotation, no label

VARIABLES rb,          \* rb[ns]: the role bindings of namespace ns
          creator,     \* creator[ns]: the ai.io/creator annotation
          nsRv,        \* nsRv[ns]: resourceVersion of the namespace
          phase,       \* phase[u]: the User object's life cycle
          cascade,     \* cascade[u]: how many namespaces the cascade has done
          cachedAdminOnly, \* the informer lists bindings of u, all "-admin"
          pc,          \* pc[p]: the next call of request p
          loc          \* loc[p]: the request's parameters and the values it read

Namespaces == {NsOrder[i] : i \in DOMAIN NsOrder}

\* A stale Update is refused unless a multiple of RvMod other updates of
\* the namespace came in between (RvMod = 1 when one request runs at a time).
ASSUME RvMod \in Nat \ {0}

vars == <<rb, creator, nsRv, phase, cascade, cachedAdminOnly, pc, loc>>

Roles == {"admin", "operator", "viewer", "system"}
\* Roles a member can be given; "operator" is what a former manager gets.
MemberRoles == {"admin", "viewer"}
\* Name order of "<user>-<role>" for one user.
RoleRank == [r \in Roles |-> CASE r = "admin" -> 1 [] r = "operator" -> 2
                                 [] r = "system" -> 3 [] r = "viewer" -> 4]
Binding == [user : Users \cup {None}, role : Roles]

\* "new": created, the controller has not added its finalizer yet.
Phases == {"new", "live", "deleting", "gone"}

NoBinding == [user |-> None, role |-> "none"]
Idle == [op |-> "none", u |-> None, ns |-> None, role |-> "none",
         mgr |-> None, rv |-> 0, victim |-> NoBinding]

(***************************************************************************)
(* Reads.                                                                   *)
(***************************************************************************)
LabelledIn(bs, u) == {b \in bs : b.user = u}

\* GetNamespaceRoleBindingByUser: the first listed binding whose user label
\* equals the name; the empty name matches every binding without a label.
FirstLabelled(ns, u) ==
    IF LabelledIn(rb[ns], u) = {} THEN NoBinding
    ELSE CHOOSE b \in LabelledIn(rb[ns], u) :
             \A c \in LabelledIn(rb[ns], u) : RoleRank[b.role] <= RoleRank[c.role]

\* The users getter (pkg/middles/resources/v1alpha3/user/user.go) reads the
\* namespace's bindings in the order its lister returns them, and the User
\* lister, whose Get of a removed User is NotFound.
UserExists(u) == phase[u] # "gone"

\* contains(users, username).
contains(users, username) == \E i \in DOMAIN users : users[i].user = username

\* The tests listAllUsersInNamespace passes a binding over by, the orphan
\* check left out.
SkipsKeepsOrphans(users, b, role) ==
    \/ role # None /\ b.role # role
    \/ b.user = None
    \/ contains(users, b.user)

\* The tests listAllUsersInNamespace passes a binding over by: a binding of
\* another role (when role is not empty); one without a user label, which
\* has no User subject; a user subject already taken (the first binding
\* naming it wins); and an orphan subject, whose User is NotFound.
Skips(users, b, role) ==
    \/ role # None /\ b.role # role
    \/ b.user = None
    \/ contains(users, b.user)
    \/ ~UserExists(b.user)

\* The loop over the listed bindings: each binding not passed over
\* appends its user subject, annotated with the binding's role.
RECURSIVE RangeBindings(_, _, _)
RangeBindings(users, order, role) ==
    IF order = <<>> THEN users
    ELSE LET b == Head(order)
         IN  RangeBindings(IF Skips(users, b, role) THEN users
                           ELSE Append(users, [user |-> b.user, role |-> b.role]),
                           Tail(order), role)

\* listAllUsersInNamespace(ns, role) over the bindings listed in `order'.
ListAllUsersInNamespace(order, role) == RangeBindings(<<>>, order, role)

\* usersGetter.List with the namespace filter: the namespace branch takes
\* the role filter and drops both, DefaultObjectList applies what is left.
\* ListNamespaceMembers sets the namespace filter; the order of the items
\* is DefaultList's (ListQuery) and left out here.
ListNamespaceMembers(order, role) == Range(ListAllUsersInNamespace(order, role))

\* DescribeNamespaceMember over the namespace's members listed without a
\* role: the same List with the names filter as well,
\* which DefaultObjectMetaFilter matches against the User's name; the
\* first item is the answer, NotFound without one.
DescribeNamespaceMember(members, u) ==
    LET items == SelectSeq(members, LAMBDA e : e.user = u)
    IN  IF items = <<>> THEN "NotFound" ELSE items[1].role

(***************************************************************************)
(* Requests.  A request ends (pc = "idle") on success or on the first error *)
(* it meets.                                                                *)
(***************************************************************************)
Goto(p, l) == pc' = [pc EXCEPT ![p] = l]
Done(p) == /\ pc' = [pc EXCEPT ![p] = "idle"]
           /\ loc' = [loc EXCEPT ![p] = Idle]

\* CreateNamespaceMembers / UpdateNamespaceMember for one member.
BeginMember(p, u, ns, role) ==
    /\ pc[p] = "idle"
    /\ Goto(p, "get")
    /\ loc' = [loc EXCEPT ![p] = [Idle EXCEPT !.op = "member", !.u = u, !.ns = ns, !.role = role]]
    /\ UNCHANGED <<rb, creator, nsRv, phase, cascade, cachedAdminOnly>>

\* RemoveNamespaceMember.
BeginRemove(p, u, ns) ==
    /\ pc[p] = "idle"
    /\ Goto(p, "get")
    /\ loc' = [loc EXCEPT ![p] = [Idle EXCEPT !.op = "remove", !.u = u, !.ns = ns]]
    /\ UNCHANGED <<rb, creator, nsRv, phase, cascade, cachedAdminOnly>>

\* RemoveUserFromNamespace refuses to remove the namespace's manager.
RemoveRefused(l, mgr) == l.op = "remove" /\ mgr = l.u

\* CreateNamespaceRoleBinding refuses to give the manager a role other
\* than admin.
DemoteRefused(l, mgr) == l.op = "member" /\ mgr = l.u /\ l.role # "admin"

\* Namespaces().Get: read the manager; a member who manages the namespace
\* is neither demoted nor removed before another manager is named.
GetNamespace(p) ==
    LET l == loc[p]
        mgr == creator[l.ns]
    IN  /\ pc[p] = "get"
        /\ IF RemoveRefused(l, mgr) \/ DemoteRefused(l, mgr)
           THEN Done(p)
           ELSE /\ Goto(p, "listOwn")
                /\ loc' = [loc EXCEPT ![p].mgr = mgr, ![p].rv = nsRv[l.ns]]
        /\ UNCHANGED <<rb, creator, nsRv, phase, cascade, cachedAdminOnly>>

\* DeleteNamespaceRoleBindingByUser(ns, u), the List.  A failing List is
\* logged and taken as "no binding".
ListOwn(p) ==
    LET l == loc[p]
        v == IF "list" \in Faults THEN {FirstLabelled(l.ns, l.u), NoBinding}
                       ELSE {FirstLabelled(l.ns, l.u)}
    IN  /\ pc[p] = "listOwn"
        /\ \E victim \in v :
              /\ loc' = [loc EXCEPT ![p].victim = victim]
              /\ Goto(p, IF victim # NoBinding THEN "delOwn"
                         ELSE IF l.op = "member" THEN "create" ELSE "idle")
        /\ UNCHANGED <<rb, creator, nsRv, phase, cascade, cachedAdminOnly>>

Unbind(ns, b) == rb' = [rb EXCEPT ![ns] = @ \ {b}]
Bind(ns, b)   == rb' = [rb EXCEPT ![ns] = @ \cup {b}]

\* RoleBindings(ns).Delete(victim.Name): NotFound ends the request with
\* the error.  Then the member's binding is created, or the removal ends.
DelOwn(p) ==
    LET l == loc[p]
    IN  /\ pc[p] = "delOwn"
        /\ IF l.victim \in rb[l.ns]
           THEN /\ Unbind(l.ns, l.victim)
                /\ IF l.op = "member" THEN /\ Goto(p, "create")
                                           /\ UNCHANGED loc
                                      ELSE Done(p)
           ELSE /\ Done(p)
                /\ UNCHANGED rb
        /\ UNCHANGED <<creator, nsRv, phase, cascade, cachedAdminOnly>>

\* Create "<u>-<role>" (AlreadyExists ends the request); a member made
\* admin of a namespace someone else manages goes on to demote the manager.
CreateMember(p) ==
    LET l == loc[p]
        b == [user |-> l.u, role |-> l.role]
    IN  /\ pc[p] = "create"
        /\ IF b \in rb[l.ns]
           THEN /\ Done(p)
                /\ UNCHANGED rb
           ELSE /\ Bind(l.ns, b)
                /\ IF l.role = "admin" /\ l.mgr # l.u
                   THEN Goto(p, "listMgr") /\ UNCHANGED loc
                   ELSE Done(p)
        /\ UNCHANGED <<creator, nsRv, phase, cascade, cachedAdminOnly>>

\* DeleteNamespaceRoleBindingByUser(ns, manager), the List.
ListMgr(p) ==
    LET l == loc[p]
        v == IF "list" \in Faults THEN {FirstLabelled(l.ns, l.mgr), NoBinding}
                       ELSE {FirstLabelled(l.ns, l.mgr)}
    IN  /\ pc[p] = "listMgr"
        /\ \E victim \in v :
              /\ loc' = [loc EXCEPT ![p].victim = victim]
              /\ Goto(p, IF victim # NoBinding THEN "delMgr" ELSE "createOp")
        /\ UNCHANGED <<rb, creator, nsRv, phase, cascade, cachedAdminOnly>>

\* ... and its Delete.
DelMgr(p) ==
    LET l == loc[p]
    IN  /\ pc[p] = "delMgr"
        /\ IF l.victim \in rb[l.ns]
           THEN Unbind(l.ns, l.victim) /\ Goto(p, "createOp") /\ UNCHANGED loc
           ELSE Done(p) /\ UNCHANGED rb
        /\ UNCHANGED <<creator, nsRv, phase, cascade, cachedAdminOnly>>

\* Create "<manager>-operator".  With no creator annotation its User
\* subject has an empty name, which the API server refuses as invalid.
CreateOperator(p) ==
    LET l == loc[p]
        b == [user |-> l.mgr, role |-> "operator"]
    IN  /\ pc[p] = "createOp"
        /\ IF l.mgr = None \/ b \in rb[l.ns]
           THEN Done(p) /\ UNCHANGED rb
           ELSE Bind(l.ns, b) /\ Goto(p, "updNs") /\ UNCHANGED loc
        /\ UNCHANGED <<creator, nsRv, phase, cascade, cachedAdminOnly>>

\* Namespaces().Update of the object read by Get, with the annotation set
\* to the new manager: a Conflict if the namespace changed since.
UpdateNamespace(p) ==
    LET l == loc[p]
    IN  /\ pc[p] = "updNs"
        /\ IF nsRv[l.ns] = l.rv
           THEN /\ creator' = [creator EXCEPT ![l.ns] = l.u]
                /\ nsRv' = [nsRv EXCEPT ![l.ns] = (@ + 1) % RvMod]
           ELSE UNCHANGED <<creator, nsRv>>
        /\ Done(p)
        /\ UNCHANGED <<rb, phase, cascade, cachedAdminOnly>>

\* Any of the request's Get, Delete, Create and Update calls fails (the
\* server is unavailable, a timeout): the request ends with the error,
\* after what its earlier calls did.
CallFails(p) ==
    /\ "call" \in Faults
    /\ pc[p] \in {"get", "delOwn", "create", "delMgr", "createOp", "updNs"}
    /\ Done(p)
    /\ UNCHANGED <<rb, creator, nsRv, phase, cascade, cachedAdminOnly>>

(***************************************************************************)
(* Users.                                                                   *)
(***************************************************************************)

\* The DeleteUser handler: GetRoleBindingOfUser lists the informer's copy
\* of every namespace; the deletion is refused only when the first listed
\* binding is "-admin".  The list is ordered by creation time, which the
\* model does not track: any of the user's bindings may come first.  The check
\* is thus refused only when every listed binding is an admin binding,
\* which is what the model keeps of the informer's copy.
RolesOf(u) == {b.role : b \in UNION {LabelledIn(rb[ns], u) : ns \in Namespaces}}
AdminOnly == [u \in Users |-> RolesOf(u) = {"admin"}]

AdminCheckPasses(u) == ~cachedAdminOnly[u]

\* im.DeleteUser: without the finalizer the User is gone at once.
DeleteUser(u) ==
    /\ phase[u] \in {"new", "live"}
    /\ AdminCheckPasses(u)
    /\ phase' = [phase EXCEPT ![u] = IF @ = "new" THEN "gone" ELSE "deleting"]
    /\ UNCHANGED <<rb, creator, nsRv, cascade, cachedAdminOnly, pc, loc>>

\* The CreateUser handler creates a User of a free name.
CreateUser(u) ==
    /\ phase[u] = "gone"
    /\ phase' = [phase EXCEPT ![u] = "new"]
    /\ UNCHANGED <<rb, creator, nsRv, cascade, cachedAdminOnly, pc, loc>>

(***************************************************************************)
(* The User controller.                                                     *)
(***************************************************************************)

\* Reconcile of a live User without the finalizer adds it.
AddFinalizer(u) ==
    /\ phase[u] = "new"
    /\ phase' = [phase EXCEPT ![u] = "live"]
    /\ UNCHANGED <<rb, creator, nsRv, cascade, cachedAdminOnly, pc, loc>>

\* deleteRoleBindings: DeleteAllOf the user's bindings in the next
\* namespace of the list.  A failing call ends the Reconcile with the
\* error; the requeued Reconcile starts the list again.
CascadeNamespace(u) ==
    LET ns == NsOrder[cascade[u] + 1]
    IN  /\ phase[u] = "deleting"
        /\ cascade[u] < Len(NsOrder)
        /\ rb' = [rb EXCEPT ![ns] = @ \ LabelledIn(@, u)]
        /\ cascade' = [cascade EXCEPT ![u] = @ + 1]
        /\ UNCHANGED <<creator, nsRv, phase, cachedAdminOnly, pc, loc>>

\* A DeleteAllOf (or the namespace List before them) fails.
CascadeFails(u) ==
    /\ "call" \in Faults
    /\ phase[u] = "deleting"
    /\ cascade[u] < Len(NsOrder)
    /\ cascade' = [cascade EXCEPT ![u] = 0]
    /\ UNCHANGED <<rb, creator, nsRv, phase, cachedAdminOnly, pc, loc>>

\* After the last namespace (and the login records), the finalizer is
\* removed and the User is gone.
RemoveFinalizer(u) ==
    /\ phase[u] = "deleting"
    /\ cascade[u] = Len(NsOrder)
    /\ phase' = [phase EXCEPT ![u] = "gone"]
    /\ cascade' = [cascade EXCEPT ![u] = 0]
    /\ UNCHANGED <<rb, creator, nsRv, cachedAdminOnly, pc, loc>>

\* The role-binding informer catches up with the store.
SyncCache ==
    /\ cachedAdminOnly # AdminOnly
    /\ cachedAdminOnly' = AdminOnly
    /\ UNCHANGED <<rb, creator, nsRv, phase, cascade, pc, loc>>

(***************************************************************************)
(* Specification.  Every namespace starts as its creator made it: the      *)
(* creator's admin binding, or, without a creator annotation, one binding  *)
(* without a user label that the platform did not write.                   *)
(***************************************************************************)
InitialBindings(m) ==
    IF m = None THEN {[user |-> None, role |-> "system"]}
    ELSE {[user |-> m, role |-> "admin"]}

Init ==
    /\ creator \in [Namespaces -> Users \cup {None}]
    /\ rb = [ns \in Namespaces |-> InitialBindings(creator[ns])]
    /\ nsRv = [ns \in Namespaces |-> 0]
    /\ phase = [u \in Users |-> "live"]
    /\ cascade = [u \in Users |-> 0]
    /\ cachedAdminOnly = AdminOnly
    /\ pc = [p \in Procs |-> "idle"]
    /\ loc = [p \in Procs |-> Idle]

Next ==
    \/ \E p \in Procs :
          \/ \E u \in Users, ns \in Namespaces :
                \/ \E r \in MemberRoles : BeginMember(p, u, ns, r)
                \/ BeginRemove(p, u, ns)
          \/ GetNamespace(p) \/ ListOwn(p) \/ DelOwn(p) \/ CreateMember(p)
          \/ ListMgr(p) \/ DelMgr(p) \/ CreateOperator(p) \/ UpdateNamespace(p)
          \/ CallFails(p)
    \/ \E u \in Users :
          \/ DeleteUser(u) \/ CreateUser(u)
          \/ AddFinalizer(u) \/ CascadeNamespace(u) \/ CascadeFails(u)
          \/ RemoveFinalizer(u)
    \/ SyncCache

Spec == Init /\ [][Next]_vars

(***************************************************************************)
(* Properties.                                                              *)
(***************************************************************************)
Quiescent == \A p \in Procs : pc[p] = "idle"

\* The specification's "exactly one binding per subject per scope": every
\* membership call deletes the member's binding before it creates the new
\* one, and an admin transfer demotes the old manager the same way, so no
\* user ever holds two bindings in a namespace, whatever call fails and
\* whatever the deletion cascade does meanwhile.
OneBindingPerUser ==
    \A ns \in Namespaces, u \in Users : Cardinality(LabelledIn(rb[ns], u)) <= 1

\* When no request is in flight, the user a namespace's creator annotation
\* names as its manager holds the namespace's admin binding: RemoveUser-
\* FromNamespace refuses the manager, a demotion of the manager is refused,
\* and DeleteUser refuses a user who is "admin of a project".
ManagerHoldsAdmin ==
    Quiescent =>
        \A ns \in Namespaces :
            creator[ns] \in Users => [user |-> creator[ns], role |-> "admin"] \in rb[ns]

\* When no request is in flight, an admin binding of a managed namespace is
\* its manager's: an admin transfer demotes the previous manager.
OnlyManagerIsAdmin ==
    Quiescent =>
        \A ns \in Namespaces : \A b \in rb[ns] :
            (creator[ns] \in Users /\ b.role = "admin") => b.user = creator[ns]

\* No step removes a binding without a user label: the platform deletes
\* only the bindings it labelled with a user.
UnlabelledKept ==
    [][\A ns \in Namespaces : LabelledIn(rb[ns], None) \subseteq LabelledIn(rb'[ns], None)]_vars

\* A removed User holds no binding: the deletion cascade removed them all
\* before the finalizer was lifted.
GoneUserUnbound ==
    \A u \in Users : phase[u] = "gone" => \A ns \in Namespaces : LabelledIn(rb[ns], u) = {}

\* One order in which a lister may return the set S.
RECURSIVE ListerOrder(_)
ListerOrder(S) ==
    IF S = {} THEN <<>>
    ELSE LET x == CHOOSE x \in S : TRUE IN <<x>> \o ListerOrder(S \ {x})

\* The member
\* list (filtered by role) and DescribeNamespaceMember show a User that
\* exists exactly when it holds a binding there, under the role of the
\* binding GetNamespaceRoleBindingByUser finds, the one the next
\* membership call replaces; a User removed while a request re-created its
\* binding is not shown.  The listing keeps the first binding it meets per
\* user, so this rests on every call replacing, never adding, a binding
\* (OneBindingPerUser), which holds while requests run one at a time and
\* no List fails; with one binding per user the informer's order decides
\* nothing, and one order stands for all.
MemberListAgrees ==
    \A ns \in Namespaces :
        LET order   == ListerOrder(rb[ns])
            members == ListAllUsersInNamespace(order, None)
        IN  /\ \A u \in Users :
                  DescribeNamespaceMember(members, u) =
                      IF UserExists(u) /\ FirstLabelled(ns, u) # NoBinding
                      THEN FirstLabelled(ns, u).role ELSE "NotFound"
            /\ \A r \in MemberRoles :
                  {e.user : e \in ListNamespaceMembers(order, r)} =
                      {u \in Users : UserExists(u) /\ FirstLabelled(ns, u).role = r}

TypeOK ==
    /\ rb \in [Namespaces -> SUBSET Binding]
    /\ cachedAdminOnly \in [Users -> BOOLEAN]
    /\ creator \in [Namespaces -> Users \cup {None}]
    /\ phase \in [Users -> Phases]
====
