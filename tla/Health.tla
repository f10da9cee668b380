------------------------------- MODULE Health -------------------------------
(***************************************************************************)
(* The health controller (pkg/controllers/core/health_controller.go) and   *)
(* the feature-gated reconciler group that starts it                       *)
(* (pkg/controllers/common/reconciler.go).                                 *)
(*                                                                         *)
(* One Health object names components: a label selector over pods, a       *)
(* service probe, or both, per key.  HealthReconciler.Reconcile reads the  *)
(* object from the manager's cache, reports every named component in the  *)
(* status subresource and asks to be queued again after Spec.Interval.    *)
(* Pods are not watched: only the requeue timer notices that they change. *)
(*                                                                         *)
(* `spec' and `status' are the stored object, `cachedSpec',               *)
(* `cachedStatus' the informer's copy and `fresh' whether that copy has    *)
(* the stored resourceVersion.  A status write from a stale copy is        *)
(* refused (Conflict).  The work queue holds the object's key (`queued')  *)
(* and a pending RequeueAfter timer (`timer').                             *)
(***************************************************************************)
EXTENDS Naturals, FiniteSets

CONSTANTS
    Keys,           \* component keys of the Health object
    PodStates,      \* what the pods a selector matches look like
    FeatureSlices,  \* feature lists given to FeaturedReconcilerGroup.Init
    FeatureGates,   \* feature gates given to it
    LowerCase,      \* strings.ToLower over FeatureGates
    MaxChanges,     \* bound on the changes made from outside
    None            \* no status entry for a key

ASSUME MaxChanges \in Nat
ASSUME None \notin PodStates

VARIABLES features, featureGate, started,
          spec, status, cachedSpec, cachedStatus, fresh,
          pods, up, queued, timer, changes

vars == <<features, featureGate, started, spec, status, cachedSpec, cachedStatus,
          fresh, pods, up, queued, timer, changes>>

-----------------------------------------------------------------------------
(* The reconciler group.                                                   *)

\* gateMap.
GateMap == [release |-> 1, beta |-> 2, alpha |-> 3]

\* getGateValue: the gate's rank, case-insensitive; -1 when unknown
\* (written 0 here: every known rank is positive).
GetGateValue(name) ==
    IF LowerCase[name] \in DOMAIN GateMap THEN GateMap[LowerCase[name]] ELSE 0

\* NewHealthReconciler: its feature group, name and gate.
HealthReconciler == [group |-> "core", name |-> "health", gate |-> "alpha"]

\* featuredReconcilers.init with the comparison turned round.
AdmitsReversed(featureGate0, r) ==
    /\ GetGateValue(featureGate0) # 0
    /\ GetGateValue(r.gate) # 0
    /\ GetGateValue(featureGate0) <= GetGateValue(r.gate)

\* featuredReconcilers.init: a reconciler of the feature is set up unless
\* either gate is unknown or the configured gate ranks below its own.
Admits(featureGate0, r) ==
    /\ GetGateValue(featureGate0) # 0
    /\ GetGateValue(r.gate) # 0
    /\ GetGateValue(featureGate0) >= GetGateValue(r.gate)

\* FeaturedReconcilerGroup.Init over the group holding the health
\* reconciler: it is set up when a listed feature is its group.
GroupInit(featureSlice, featureGate0) ==
    \E feature \in featureSlice :
        feature = HealthReconciler.group /\ Admits(featureGate0, HealthReconciler)

-----------------------------------------------------------------------------
(* The Health object.                                                      *)

\* HealthSpec: per key, a selector (absent, parsable or not) and a probe
\* (absent, an HTTPGet probe, or another kind), and the interval's sign.
Selectors == {"none", "valid", "invalid"}
Probes == {"none", "http", "other"}
Intervals == {"zero", "positive", "negative"}
Specs == [sel : [Keys -> Selectors], probe : [Keys -> Probes], interval : Intervals]

\* Component: the message ("ok" or an error's text) and the pod list.
Components == [msg : {"ok", "parseError", "probeError"}, pods : PodStates \cup {None}]

\* HTTPCheck: nil HTTPGet is no error; otherwise the GET must answer 200.
HTTPCheck(kind, k) == kind = "other" \/ up[k]

\* RegularReconcile: a zero interval becomes 30 s; without an error the
\* object is queued again after it.  controller-runtime queues after a
\* positive RequeueAfter only, and again at once after an error.
RegularReconcileNoDefault(interval, err) ==
    CASE err                     -> "error"
      [] interval = "positive"   -> "after"
      [] OTHER                   -> "forget"

RegularReconcile(interval, err) ==
    CASE err                                 -> "error"
      [] interval \in {"zero", "positive"}   -> "after"
      [] OTHER                               -> "forget"

\* SelectorPass with the selector itself, not the parse error, as message.
SelectorPassSelectorText(s, st) ==
    [k \in Keys |->
        CASE s.sel[k] = "valid"   -> [msg |-> "ok", pods |-> pods[k]]
          [] s.sel[k] = "invalid" -> [msg |-> s.sel[k], pods |-> None]
          [] OTHER                -> st[k]]

\* The Components map Reconcile writes from the copy (s, st): first every
\* selector key, then every probe key, each loop overwriting the entry.
SelectorPass(s, st) ==
    [k \in Keys |->
        CASE s.sel[k] = "valid"   -> [msg |-> "ok", pods |-> pods[k]]
          [] s.sel[k] = "invalid" -> [msg |-> "parseError", pods |-> None]
          [] OTHER                -> st[k]]

ProbePass(s, st) ==
    [k \in Keys |->
        IF s.probe[k] = "none" THEN st[k]
        ELSE [msg |-> IF HTTPCheck(s.probe[k], k) THEN "ok" ELSE "probeError",
              pods |-> None]]

Named(s) == {k \in Keys : s.sel[k] # "none" \/ s.probe[k] # "none"}

\* HealthReconciler.Reconcile, with the deferred RegularReconcile.  With
\* no selector and no probe it returns at once, writing nothing; otherwise
\* the status write succeeds only from a fresh copy.  A write that changes
\* the object bumps its resourceVersion, which the watch reports.
Reconcile ==
    /\ started
    /\ queued
    /\ LET early   == Named(cachedSpec) = {}
           written == ProbePass(cachedSpec, SelectorPass(cachedSpec, cachedStatus))
           err     == ~early /\ ~fresh
           result  == RegularReconcile(cachedSpec.interval, err)
       IN  /\ status' = IF early \/ err THEN status ELSE written
           /\ fresh' = (fresh /\ status' = status)
           /\ queued' = (result = "error")
           /\ timer' = (timer \/ result = "after")
    /\ UNCHANGED <<features, featureGate, started, spec, cachedSpec, cachedStatus, pods, up, changes>>

\* The informer catches up; SetupWithManager's For(&Health{}) queues the
\* key for every change it sees.
CacheSync ==
    /\ ~fresh
    /\ cachedSpec' = spec
    /\ cachedStatus' = status
    /\ fresh' = TRUE
    /\ queued' = started
    /\ UNCHANGED <<features, featureGate, started, spec, status, pods, up, timer, changes>>

\* A RequeueAfter timer expires and the key is queued.
TimerFire ==
    /\ timer
    /\ timer' = FALSE
    /\ queued' = TRUE
    /\ UNCHANGED <<features, featureGate, started, spec, status, cachedSpec, cachedStatus, fresh, pods, up, changes>>

-----------------------------------------------------------------------------
(* Changes made from outside, up to MaxChanges of them.                    *)

Change == /\ changes < MaxChanges
          /\ changes' = changes + 1

\* A user edits the selector and the probe of key k.
EditSpec(k, sel, probe) ==
    /\ <<sel, probe>> # <<spec.sel[k], spec.probe[k]>>
    /\ Change
    /\ spec' = [spec EXCEPT !.sel[k] = sel, !.probe[k] = probe]
    /\ fresh' = FALSE
    /\ UNCHANGED <<features, featureGate, started, status, cachedSpec, cachedStatus, pods, up, queued, timer>>

\* The pods a selector matches change (a restart, a phase change).
PodChange(k, p) ==
    /\ p # pods[k]
    /\ Change
    /\ pods' = [pods EXCEPT ![k] = p]
    /\ UNCHANGED <<features, featureGate, started, spec, status, cachedSpec, cachedStatus, fresh, up, queued, timer>>

\* A probed service goes up or down.
ProbeFlip(k) ==
    /\ Change
    /\ up' = [up EXCEPT ![k] = ~@]
    /\ UNCHANGED <<features, featureGate, started, spec, status, cachedSpec, cachedStatus, fresh, pods, queued, timer>>

-----------------------------------------------------------------------------
(* Specification.                                                          *)

\* A Health object created before the manager starts: no status yet; the
\* informer's initial list queues it once the controller is set up.
Init ==
    /\ features \in FeatureSlices
    /\ featureGate \in FeatureGates
    /\ started = GroupInit(features, featureGate)
    /\ spec \in Specs
    /\ status = [k \in Keys |-> None]
    /\ cachedSpec = spec
    /\ cachedStatus = status
    /\ fresh = TRUE
    /\ pods \in [Keys -> PodStates]
    /\ up \in [Keys -> BOOLEAN]
    /\ queued = started
    /\ timer = FALSE
    /\ changes = 0

Next ==
    \/ Reconcile
    \/ CacheSync
    \/ TimerFire
    \/ \E k \in Keys :
          \/ \E sel \in Selectors, probe \in Probes : EditSpec(k, sel, probe)
          \/ \E p \in PodStates : PodChange(k, p)
          \/ ProbeFlip(k)

Spec == Init /\ [][Next]_vars

\* The controller's worker drains the queue, the informer keeps watching
\* and the timers fire; users, pods and services promise nothing.
FairSpec ==
    /\ Spec
    /\ WF_vars(Reconcile)
    /\ WF_vars(CacheSync)
    /\ WF_vars(TimerFire)

-----------------------------------------------------------------------------
(* Properties.                                                             *)

TypeOK ==
    /\ features \in FeatureSlices
    /\ featureGate \in FeatureGates
    /\ started \in BOOLEAN
    /\ spec \in Specs /\ cachedSpec \in Specs
    /\ status \in [Keys -> Components \cup {None}]
    /\ cachedStatus \in [Keys -> Components \cup {None}]
    /\ fresh \in BOOLEAN
    /\ pods \in [Keys -> PodStates]
    /\ up \in [Keys -> BOOLEAN]
    /\ queued \in BOOLEAN /\ timer \in BOOLEAN
    /\ changes \in 0..MaxChanges

\* The health feature is enabled when "core" is among the features and the
\* configured gate, in any letter case, is "alpha": the health reconciler
\* is an alpha feature, and alpha is the least stable gate.
Enabled == "core" \in features /\ LowerCase[featureGate] = "alpha"

\* What a component's entry should say now: a probe's answer wins over a
\* selector's pods; an unparsable selector is an error.
Observed(k) ==
    CASE spec.probe[k] = "http"  -> [msg |-> IF up[k] THEN "ok" ELSE "probeError", pods |-> None]
      [] spec.probe[k] = "other" -> [msg |-> "ok", pods |-> None]
      [] spec.sel[k] = "valid"   -> [msg |-> "ok", pods |-> pods[k]]
      [] OTHER                   -> [msg |-> "parseError", pods |-> None]

Reflects == \A k \in Named(spec) : status[k] = Observed(k)

\* A gate the health reconciler does not admit (beta, release, or an
\* unknown word) keeps the controller out: the group's gate comparison
\* never lets it write a status.
DisabledNeverReports == ~Enabled => status = [k \in Keys |-> None]

\* With the feature enabled and an interval that is not negative, the
\* status eventually reports, and keeps reporting, every named component
\* as it is once the changes stop, although pods are never watched: the
\* requeue after Interval (30 s when zero) is what notices them.
StatusEventuallyReflects ==
    Enabled /\ spec.interval # "negative" => <>[]Reflects
=============================================================================
