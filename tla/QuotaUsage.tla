----------------------------- MODULE QuotaUsage -----------------------------
(***************************************************************************)
(* What a quota counts, and that its two ways of counting agree.           *)
(* Admission charges a request with the usage of its object (CheckRequest, *)
(* kube/plugin/pkg/admission/resourcequota/controller.go); the controller  *)
(* recounts the objects that exist (CalculateUsage,                        *)
(* kube/pkg/quota/v1/resources.go) when the monitor tells it of a release. *)
(* Both ask the evaluators of pods, services, persistent volume claims and *)
(* counted objects (kube/pkg/quota/v1/evaluator/core, .../generic).        *)
(*                                                                         *)
(* One quota over one namespace, where a request is checked, charged and   *)
(* carried out in one step: how the steps of several of them interleave is *)
(* the subject of AccountQuotaAdmission and QuotaController.               *)
(***************************************************************************)
EXTENDS ResourceLists, Sums

CONSTANTS
  Ids,          \* names of objects
  ContainerSpecs, \* [requests, limits]
  PodSpecs,     \* [kind, containers, inits, deadline, priority, status]
  ServiceSpecs, \* [kind, type, ports]
  ClaimSpecs,   \* [kind, class, size]
  Things,       \* [kind]: objects that are only counted
  Quotas,       \* [hard, scopes, selector] an administrator may ask for
  None,
  MaxCalls,     \* bound: creations and updates
  MaxEdits,     \* bound: changes of the quota
  MaxFailures   \* bound: recounts for which a lister fails

VARIABLES
  spec,         \* Spec.Quota
  hard,         \* Status.Total.Hard
  used,         \* Status.Total.Used
  objs,         \* [Ids -> stored object or None]
  notified,     \* whether the quota waits in the controller's queue
  unseen,       \* history: changes since the last recount nobody reacts to
  exceeded,     \* history: names above their limit, or unknown, at the last recount
  calls, edits, failures

boundVars == <<calls, edits, failures>>
vars == <<spec, hard, used, objs, notified, unseen, exceeded, boundVars>>

-----------------------------------------------------------------------------
(* Resource names *)

Requests(r) == <<"requests.">> \o r
Limits(r) == <<"limits.">> \o r
Count(kind) == <<"count/", kind>>
StorageClass == ".storageclass.storage.k8s.io/"
ByClass(class, r) == class \o <<StorageClass>> \o r

Cpu == <<"cpu">>
Memory == <<"memory">>
Ephemeral == <<"ephemeral-storage">>
PodCount == <<"pods">>
Claims == <<"persistentvolumeclaims">>
Storage == Requests(<<"storage">>)
NodePorts == <<"services.nodeports">>
LoadBalancers == <<"services.loadbalancers">>

Has(r, part) == \E i \in DOMAIN r : r[i] = part
Slashed(r) == Has(r, "/") \/ Has(r, "count/") \/ Has(r, StorageClass)
IsNativeResource(r) == Slashed(r) => Has(r, "kubernetes.io")
IsExtendedResourceName(r) == ~IsNativeResource(r) /\ Head(r) # "requests."
IsExtendedResourceNameForQuota(r) == ~IsNativeResource(r) /\ Head(r) = "requests."
IsQuotaHugePage(r) == IsPrefix(<<"hugepages-">>, r) \/ IsPrefix(Requests(<<"hugepages-">>), r)

PodResources ==
  {Count("pods"), PodCount, Cpu, Memory, Ephemeral}
    \cup {Requests(r) : r \in {Cpu, Memory, Ephemeral}}
    \cup {Limits(r) : r \in {Cpu, Memory, Ephemeral}}
ServiceResources == {Count("services"), <<"services">>, NodePorts, LoadBalancers}
ClaimResources == {Claims, Storage}

\* The kinds of legacyObjectCountAliases.
CountedKinds == {"configmaps", "resourcequotas", "replicationcontrollers", "secrets"}
Evaluators == {"pods", "services", "persistentvolumeclaims"} \cup CountedKinds

MatchingResources(e, names) ==
  CASE e = "pods" ->
         {r \in names : r \in PodResources \/ IsQuotaHugePage(r)
                          \/ IsExtendedResourceNameForQuota(r)}
    [] e = "services" -> names \cap ServiceResources
    [] e = "persistentvolumeclaims" ->
         {r \in names : \/ r \in ClaimResources \cup {Count(e)}
                        \/ \E c \in ClaimResources : IsSuffix(<<StorageClass>> \o c, r)}
    [] OTHER -> names \cap {Count(e), <<e>>}

-----------------------------------------------------------------------------
(* What can be stored.  The API server lets pass what is well-formed: a    *)
(* name is not empty, the word before a storage class's resource follows   *)
(* the class and comes once, and no container asks for "requests.x".       *)

ResourceName(r) == r \in Seq(Range(r)) /\ r # <<>>
QuotaName(r) ==
  /\ ResourceName(r)
  /\ r[1] # StorageClass
  /\ \A i, j \in DOMAIN r : r[i] = StorageClass /\ r[j] = StorageClass => i = j
ContainerList(a) ==
  /\ IsList(a, Nat)
  /\ \A r \in DOMAIN a : ResourceName(r) /\ Head(r) # "requests."

PodStatus == {"live", "grace", "stuck", "ended"}
Pods(status) ==
  [kind : {"pods"}, containers : Seq(ContainerSpecs), inits : Seq(ContainerSpecs),
   deadline : BOOLEAN, priority : STRING, status : status]
NewObjects == PodSpecs \cup ServiceSpecs \cup ClaimSpecs \cup Things
Storable == Pods(PodStatus) \cup ServiceSpecs \cup ClaimSpecs \cup Things

ASSUME UsageAssumption ==
  /\ IsFiniteSet(Ids)
  /\ \A c \in ContainerSpecs :
       /\ c = [requests |-> c.requests, limits |-> c.limits]
       /\ ContainerList(c.requests) /\ ContainerList(c.limits)
  /\ PodSpecs \subseteq Pods({"live"})
  /\ ServiceSpecs \subseteq [kind : {"services"}, type : STRING, ports : Nat]
  /\ ClaimSpecs \subseteq
       [kind : {"persistentvolumeclaims"}, class : Seq(STRING), size : Nat \cup {None}]
  /\ Things \subseteq [kind : CountedKinds]
  /\ None \notin Nat /\ None \notin Storable
  /\ \A q \in Quotas : IsList(q.hard, Int) /\ \A r \in DOMAIN q.hard : QuotaName(r)
  /\ MaxCalls \in Nat /\ MaxEdits \in Nat /\ MaxFailures \in Nat

TypeOK ==
  /\ spec \in Quotas
  /\ IsList(hard, Nat) /\ IsList(used, Nat)
  /\ DOMAIN used \subseteq DOMAIN hard
  /\ objs \in [Ids -> Storable \cup {None}]
  /\ notified \in BOOLEAN
  /\ unseen \subseteq {"deadline", "ports", "grace", "scopes"}
  /\ exceeded \subseteq DOMAIN hard
  /\ calls \in 0..MaxCalls /\ edits \in 0..MaxEdits /\ failures \in 0..MaxFailures

-----------------------------------------------------------------------------
(* Validation of a quota (pkg/apis/config/validation/resourcequota.go)     *)

StandardQuotaResources ==
  (PodResources \ {Count("pods")})
    \cup (ServiceResources \ {Count("services")})
    \cup ClaimResources \cup {<<k>> : k \in CountedKinds}
IsStandardQuotaResourceName(r) == r \in StandardQuotaResources \/ IsQuotaHugePage(r)

PodScopes == {"Terminating", "NotTerminating", "BestEffort", "NotBestEffort"}
ComputeQuotaResources == {Cpu, Memory} \cup {Requests(r) : r \in {Cpu, Memory}}
                           \cup {Limits(r) : r \in {Cpu, Memory}}
ScopeValidForResource(s, r) ==
  r = PodCount \/ (s # "BestEffort" /\ r \in ComputeQuotaResources)

ValidScopes(scopes, names) ==
  /\ scopes \subseteq PodScopes \cup {"PriorityClass"}
  /\ \A s \in scopes, r \in names :
       IsStandardQuotaResourceName(r) => ScopeValidForResource(s, r)
  /\ ~ {"BestEffort", "NotBestEffort"} \subseteq scopes
  /\ ~ {"Terminating", "NotTerminating"} \subseteq scopes

ValidRequirement(m) ==
  /\ m.scope \in PodScopes => m.op = "Exists"
  /\ \/ m.op \in {"In", "NotIn"} /\ m.values # {}
     \/ m.op \in {"Exists", "DoesNotExist"} /\ m.values = {}

ValidateResourceQuotaSpec(q) ==
  /\ \A r \in DOMAIN q.hard :
       /\ Slashed(r) \/ IsStandardQuotaResourceName(r)
       /\ q.hard[r] >= 0
  /\ ValidScopes(q.scopes, DOMAIN q.hard)
  /\ ValidScopes({m.scope : m \in q.selector}, DOMAIN q.hard)
  /\ \A m \in q.selector : ValidRequirement(m)

-----------------------------------------------------------------------------
(* Scopes *)

Containers(p) == Range(p.containers) \cup Range(p.inits)

\* GetPodQOS, as far as a scope asks for it: nobody requests or limits any
\* cpu or memory.
IsBestEffort(p) ==
  \A c \in Containers(p), r \in {Cpu, Memory} :
    Quantity(c.requests, r) <= 0 /\ Quantity(c.limits, r) <= 0

PodMatchesSelector(p, m) ==
  CASE m.op = "In" -> p.priority # "" /\ p.priority \in m.values
    [] m.op = "NotIn" -> p.priority = "" \/ p.priority \notin m.values
    [] m.op = "Exists" -> p.priority # ""
    [] m.op = "DoesNotExist" -> p.priority = ""

PodMatchesScope(m, p) ==
  CASE m.scope = "Terminating" -> p.deadline
    [] m.scope = "NotTerminating" -> ~p.deadline
    [] m.scope = "BestEffort" -> IsBestEffort(p)
    [] m.scope = "NotBestEffort" -> ~IsBestEffort(p)
    [] m.scope = "PriorityClass" -> PodMatchesSelector(p, m)

\* The scopes as requirements: admission gives them an operator, a recount
\* leaves it out.
ScopeRequirements(q, op) ==
  {[scope |-> s, op |-> op, values |-> {}] : s \in q.scopes} \cup q.selector

\* Objects that are not pods match no scope.
MatchesScopes(q, op, o) ==
  \A m \in ScopeRequirements(q, op) : o.kind = "pods" /\ PodMatchesScope(m, o)

\* ScopedResourceSelectorRequirementsAsSelector knows four operators.
ScopeError(q, op) ==
  \E m \in ScopeRequirements(q, op) :
    m.scope = "PriorityClass" /\ m.op \notin {"In", "NotIn", "Exists", "DoesNotExist"}

-----------------------------------------------------------------------------
(* Usage of an object *)

\* The names a request for r is charged to.
RequestNames(r) ==
  (IF r \in {Cpu, Memory, Ephemeral} \/ IsPrefix(<<"hugepages-">>, r) THEN {r, Requests(r)} ELSE {})
    \cup (IF IsExtendedResourceName(r) THEN {Requests(r)} ELSE {})
LimitNames(r) == IF r \in {Cpu, Memory, Ephemeral} THEN {Limits(r)} ELSE {}

\* Give every quantity of a the names of Names(_).
Renamed(a, Names(_)) ==
  [n \in UNION {Names(r) : r \in DOMAIN a} |-> a[CHOOSE r \in DOMAIN a : n \in Names(r)]]

PodComputeUsageHelper(requests, limits) ==
  Add(Add([r \in {PodCount} |-> 1], Renamed(requests, RequestNames)), Renamed(limits, LimitNames))

\* A pod in its grace period is still charged, a stuck or ended one is not.
QuotaV1Pod(p) == p.status \in {"live", "grace"}

RequestsOf(s) == [i \in DOMAIN s |-> s[i].requests]
LimitsOf(s) == [i \in DOMAIN s |-> s[i].limits]
Total(inits, containers) ==
  MaxAll(inits, DOMAIN inits, AddAll(containers, DOMAIN containers, Empty))

PodUsage(p) ==
  LET one == [r \in {Count("pods")} |-> 1]
  IN  IF QuotaV1Pod(p)
        THEN Add(one, PodComputeUsageHelper(Total(RequestsOf(p.inits), RequestsOf(p.containers)),
                                            Total(LimitsOf(p.inits), LimitsOf(p.containers))))
        ELSE one

ServiceUsage(s) ==
  [r \in ServiceResources |->
     CASE r = NodePorts -> IF s.type \in {"NodePort", "LoadBalancer"} THEN s.ports ELSE 0
       [] r = LoadBalancers -> IF s.type = "LoadBalancer" THEN 1 ELSE 0
       [] OTHER -> 1]

\* size None: the claim requests no storage.
ClaimUsage(c) ==
  LET one == [r \in {Claims, Count("persistentvolumeclaims")} |-> 1]
      Size(name) == IF c.size = None THEN Empty ELSE [r \in {name} |-> c.size]
      classed == IF c.class = <<>> THEN Empty
                 ELSE Add([r \in {ByClass(c.class, Claims)} |-> 1], Size(ByClass(c.class, Storage)))
  IN  Add(Add(one, Size(Storage)), classed)

Usage(o) ==
  CASE o.kind = "pods" -> PodUsage(o)
    [] o.kind = "services" -> ServiceUsage(o)
    [] o.kind = "persistentvolumeclaims" -> ClaimUsage(o)
    [] OTHER -> [r \in {Count(o.kind), <<o.kind>>} |-> 1]

-----------------------------------------------------------------------------
(* Admission: CheckRequest *)

ValidationSet == ComputeQuotaResources

\* Constraints: every container states what a quota of cpu or memory needs.
Constraints(o, required) ==
  o.kind = "pods" =>
    \A c \in Containers(o) :
      required \cap ValidationSet \subseteq DOMAIN PodComputeUsageHelper(c.requests, c.limits)

\* Mutant of Handles: a service is only looked at when it is created.
HandlesCreate(kind, op) == op = "create"

Handles(kind, op) ==
  \/ op = "create"
  \/ op = "update" /\ kind \in {"services", "persistentvolumeclaims"}

Matches(o) ==
  MatchingResources(o.kind, DOMAIN hard) # {} /\ MatchesScopes(spec, "Exists", o)

HasUsageStats(names) == \A r \in DOMAIN hard \cap names : r \in DOMAIN used

\* An update is charged with the difference.
DeltaUsage(old, new) ==
  IF old = None THEN Usage(new) ELSE SubtractWithNonNegativeResult(Usage(new), Usage(old))

\* The usage after the request.
Charge(op, old, new) ==
  IF Handles(new.kind, op) /\ Matches(new)
    THEN Add(used, Mask(DeltaUsage(old, new), DOMAIN hard)) ELSE used

\* Nothing is asked of an update that takes nothing more, once the object is
\* well-formed and its resources have been counted.
Forbidden(op, old, new) ==
  LET restricted == MatchingResources(new.kind, DOMAIN hard)
      delta == DeltaUsage(old, new)
      after == Mask(Charge(op, old, new), DOMAIN delta \cap DOMAIN hard)
  IN  /\ Handles(new.kind, op)
      /\ \/ IsNegative(Usage(new)) # {}
         \/ Matches(new) /\ ~Constraints(new, restricted)
         \/ Matches(new) /\ ~HasUsageStats(restricted)
         \/ Matches(new) /\ ~IsZero(delta) /\ ~LessThanOrEqual(after, hard)

-----------------------------------------------------------------------------
(* The controller's recount *)

Stored == {i \in Ids : objs[i] # None}

\* CalculateUsageStats: nothing is counted once a scope cannot be parsed.
UsageStats(e, names) ==
  LET zero == [r \in names |-> 0]
      items == {i \in Stored : objs[i].kind = e /\ MatchesScopes(spec, "", objs[i])}
  IN  IF e = "pods" /\ ScopeError(spec, "") THEN zero
      ELSE AddAll([i \in items |-> Usage(objs[i])], items, zero)

\* Mutant of CalculateUsage: what could not be listed counts as nothing.
CalculateUsageZero(failed) ==
  LET names == DOMAIN spec.hard
      stats == [e \in Evaluators |-> IF e \in failed THEN [r \in MatchingResources(e, names) |-> 0]
                                     ELSE UsageStats(e, MatchingResources(e, names))]
  IN  Mask(AddAll(stats, Evaluators, Empty), names)

\* The names of the evaluators in failed are left out.
CalculateUsage(failed) ==
  LET names == DOMAIN spec.hard
      lost == UNION {MatchingResources(e, names) : e \in failed}
      stats == [e \in Evaluators |-> UsageStats(e, MatchingResources(e, names))]
  IN  Mask(AddAll(stats, Evaluators \ failed, Empty), names \ lost)

\* Mutant of NotifyUpdate: a service does not give anything back.
NotifyUpdatePods(old, new) ==
  old.kind = "pods" /\ QuotaV1Pod(old) /\ ~QuotaV1Pod(new)

GetQuotaServiceType(s) == IF s.type \in {"NodePort", "LoadBalancer"} THEN s.type ELSE ""

\* UpdateFunc of the monitor.
NotifyUpdate(old, new) ==
  \/ old.kind = "pods" /\ QuotaV1Pod(old) /\ ~QuotaV1Pod(new)
  \/ old.kind = "services" /\ GetQuotaServiceType(old) # GetQuotaServiceType(new)

\* replenishQuota: the quota is queued if it tracks the kind.
Replenish(kind, noticed) ==
  notified' = (notified \/ (noticed /\ MatchingResources(kind, DOMAIN hard) # {}))

-----------------------------------------------------------------------------
(* Steps *)

\* A new quota: its status is empty and addQuota has queued it.
Init ==
  /\ spec \in {q \in Quotas : ValidateResourceQuotaSpec(q)}
  /\ hard = Empty /\ used = Empty
  /\ objs = [i \in Ids |-> None]
  /\ notified = TRUE
  /\ unseen = {} /\ exceeded = {}
  /\ calls = 0 /\ edits = 0 /\ failures = 0

Create(i, o) ==
  /\ calls < MaxCalls
  /\ calls' = calls + 1
  /\ objs[i] = None
  /\ ~Forbidden("create", None, o)
  /\ used' = Charge("create", None, o)
  /\ objs' = [objs EXCEPT ![i] = o]
  /\ UNCHANGED <<spec, hard, notified, unseen, exceeded, edits, failures>>

\* What the API server lets an update, or the kubelet, make of an object.
Versions(o) ==
  CASE o.kind = "pods" ->
         {[o EXCEPT !.status = s] :
            s \in (CASE o.status = "live" -> {"grace", "ended"}
                     [] o.status = "grace" -> {"ended"}
                     [] OTHER -> {})}
           \cup {[o EXCEPT !.deadline = TRUE]}
    [] o.kind = "services" -> ServiceSpecs
    [] o.kind = "persistentvolumeclaims" ->
         {c \in ClaimSpecs : c.class = o.class /\ o.size # None /\ c.size # None /\ c.size > o.size}
    [] OTHER -> {}

\* Changes of usage that neither admission nor the monitor looks at: a pod
\* gets a deadline, and so another scope; a service keeps its type and gives
\* up ports.
Overlooked(old, new) ==
  CASE old.kind = "pods" -> IF old.deadline # new.deadline THEN {"deadline"} ELSE {}
    [] old.kind = "services" ->
         IF old.type = new.type /\ new.ports < old.ports THEN {"ports"} ELSE {}
    [] OTHER -> {}

Update(i, o) ==
  /\ calls < MaxCalls
  /\ calls' = calls + 1
  /\ i \in Stored /\ o # objs[i]
  /\ ~Forbidden("update", objs[i], o)
  /\ used' = Charge("update", objs[i], o)
  /\ objs' = [objs EXCEPT ![i] = o]
  /\ Replenish(o.kind, NotifyUpdate(objs[i], o))
  /\ unseen' = unseen \cup Overlooked(objs[i], o)
  /\ UNCHANGED <<spec, hard, exceeded, edits, failures>>

\* The grace period of a deleted pod ends: no event.
GraceExpires(i) ==
  /\ i \in Stored /\ objs[i].kind = "pods" /\ objs[i].status = "grace"
  /\ objs' = [objs EXCEPT ![i].status = "stuck"]
  /\ unseen' = unseen \cup {"grace"}
  /\ UNCHANGED <<spec, hard, used, notified, exceeded, boundVars>>

\* DeleteFunc of the monitor.
Delete(i) ==
  /\ i \in Stored
  /\ objs' = [objs EXCEPT ![i] = None]
  /\ Replenish(objs[i].kind, TRUE)
  /\ UNCHANGED <<spec, hard, used, unseen, exceeded, boundVars>>

\* UpdateFunc of the AccountQuotas compares the limits, not the scopes.
EditQuota(q) ==
  /\ edits < MaxEdits
  /\ edits' = edits + 1
  /\ q # spec /\ ValidateResourceQuotaSpec(q)
  /\ spec' = q
  /\ notified' = (notified \/ q.hard # spec.hard)
  /\ unseen' = unseen \cup (IF q.scopes = spec.scopes /\ q.selector = spec.selector
                            THEN {} ELSE {"scopes"})
  /\ UNCHANGED <<hard, used, objs, exceeded, calls, failures>>

\* syncAccountQuota: what could not be counted keeps its old usage, and the
\* quota is queued again.
Recalculate(failed) ==
  /\ failed # {} => failures < MaxFailures
  /\ failures' = failures + (IF failed = {} THEN 0 ELSE 1)
  /\ hard' = spec.hard
  /\ used' = Mask(Overwrite(used, CalculateUsage(failed)), DOMAIN spec.hard)
  /\ notified' = (failed # {})
  /\ unseen' = IF failed = {} THEN {} ELSE unseen
  /\ exceeded' = {r \in DOMAIN hard' : r \notin DOMAIN used' \/ used'[r] > hard'[r]}
  /\ UNCHANGED <<spec, objs, calls, edits>>

Next ==
  \/ \E i \in Ids :
       \/ \E o \in NewObjects : Create(i, o)
       \/ i \in Stored /\ \E o \in Versions(objs[i]) : Update(i, o)
       \/ GraceExpires(i)
       \/ Delete(i)
  \/ \E q \in Quotas : EditQuota(q)
  \/ \E failed \in {{}} \cup {{e} : e \in Evaluators} : Recalculate(failed)

Spec == Init /\ [][Next]_vars

-----------------------------------------------------------------------------
(* Properties.  What the objects demand of a resource is defined from      *)
(* their life, and not from the code.                                      *)

\* The most of x that the containers of a pod ask for at any one time: the
\* init containers run one by one, then the containers all together.
Peak(inits, containers, x) ==
  Max({SumOver([i \in DOMAIN containers |-> Quantity(containers[i], x)], DOMAIN containers)}
        \cup {Quantity(inits[i], x) : i \in DOMAIN inits})

PodDemand(p, r) ==
  IF r = Count("pods") THEN 1
  ELSE IF p.status \notin {"live", "grace"} THEN 0
  ELSE CASE r = PodCount -> 1
         [] Head(r) = "requests." -> Peak(RequestsOf(p.inits), RequestsOf(p.containers), Tail(r))
         [] Head(r) = "limits." -> Peak(LimitsOf(p.inits), LimitsOf(p.containers), Tail(r))
         [] OTHER -> Peak(RequestsOf(p.inits), RequestsOf(p.containers), r)

Demand(o, r) ==
  CASE o.kind = "pods" -> PodDemand(o, r)
    [] o.kind = "services" ->
         IF r = NodePorts THEN IF o.type \in {"NodePort", "LoadBalancer"} THEN o.ports ELSE 0
         ELSE IF r = LoadBalancers /\ o.type # "LoadBalancer" THEN 0 ELSE 1
    [] o.kind = "persistentvolumeclaims" ->
         IF Has(r, StorageClass) /\ ~IsPrefix(o.class \o <<StorageClass>>, r) THEN 0
         ELSE IF Last(r) = "storage" THEN IF o.size = None THEN 0 ELSE o.size ELSE 1
    [] OTHER -> 1

InScope(o) == MatchesScopes(spec, "Exists", o)

\* What the objects in the quota's scope demand of r.
Demanded(r) ==
  SumOver([i \in Stored |-> Demand(objs[i], r)],
          {i \in Stored : r \in MatchingResources(objs[i].kind, {r}) /\ InScope(objs[i])})

\* The recount understands the scopes.
Countable == ~ScopeError(spec, "")

\* Status.Total.Used never falls short of what the objects demand, however
\* creations, updates, releases, edits of the quota and recounts that fail
\* for some kinds follow each other: PodUsageFunc, CheckRequest's difference
\* and CalculateUsage neither forget nor undercount an object.  (A pod that
\* changes its scope, and an edit of the scopes, wait for the next recount.)
NeverUndercharged ==
  Countable /\ unseen \cap {"deadline", "scopes"} = {} =>
    \A r \in DOMAIN hard \cap DOMAIN used : Demanded(r) <= used[r]

\* The monitor's filter of events is fine enough: unless the quota is queued,
\* what was released has been given back.  (Ports given up by a service that
\* keeps its type, and a grace period that ends, are not noticed.)
ReleaseNoticed ==
  Countable /\ unseen = {} /\ ~notified =>
    \A r \in DOMAIN used : used[r] = Demanded(r)

\* The limit holds for the objects themselves, and not just for the numbers
\* in the status: a resource that was within its limit at the last recount
\* stays within it.
LimitsHold ==
  Countable /\ unseen \cap {"deadline", "scopes"} = {} =>
    \A r \in DOMAIN hard \ exceeded : Demanded(r) <= hard[r]
=============================================================================
