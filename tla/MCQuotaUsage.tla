---------------------------- MODULE MCQuotaUsage ----------------------------
(* Two objects of any kind under quotas with and without scopes.           *)
EXTENDS QuotaUsage

Gpu == <<"vendor", "/", "gpu">>
Huge == <<"hugepages-", "2Mi">>
Gold == <<"gold">>

C(requests, limits) == [requests |-> requests, limits |-> limits]
Pod(containers, inits, deadline, priority) ==
  [kind |-> "pods", containers |-> containers, inits |-> inits,
   deadline |-> deadline, priority |-> priority, status |-> "live"]

\* A pod whose init container asks for more, and for something else; one of
\* two containers; one that asks for nothing.
MCPodSpecs ==
  {Pod(<<C(Cpu :> 1, Cpu :> 1)>>, <<C(Cpu :> 2 @@ Gpu :> 1, Cpu :> 2), C(Cpu :> 1 @@ Huge :> 1, Cpu :> 1)>>, FALSE, "high"),
   Pod(<<C(Cpu :> 1, Cpu :> 2), C(Cpu :> 1 @@ Gpu :> 1, Cpu :> 1)>>, <<>>, TRUE, ""),
   Pod(<<C(Empty, Empty)>>, <<>>, FALSE, "low")}
MCContainerSpecs == UNION {Range(p.containers) \cup Range(p.inits) : p \in MCPodSpecs}
MCServiceSpecs ==
  {[kind |-> "services", type |-> "NodePort", ports |-> n] : n \in {1, 2}}
    \cup {[kind |-> "services", type |-> t, ports |-> 1] : t \in {"ClusterIP", "LoadBalancer"}}
MCClaimSpecs ==
  {[kind |-> "persistentvolumeclaims", class |-> Gold, size |-> n] : n \in {1, 2}}
    \cup {[kind |-> "persistentvolumeclaims", class |-> <<>>, size |-> 1]}
MCThings == {[kind |-> "configmaps"]}

Q(limits, scopes, selector) == [hard |-> limits, scopes |-> scopes, selector |-> selector]
Match(scope, op, values) == [scope |-> scope, op |-> op, values |-> values]

MCQuotas ==
  {Q(PodCount :> 2 @@ Count("pods") :> 2 @@ Requests(Cpu) :> 3 @@ NodePorts :> 3
       @@ LoadBalancers :> 1 @@ Storage :> 3 @@ ByClass(Gold, Storage) :> 2
       @@ <<"configmaps">> :> 1, {}, {}),
   Q(PodCount :> 1 @@ Requests(Gpu) :> 1 @@ Huge :> 1, {}, {}),
   Q(PodCount :> 1 @@ Limits(Cpu) :> 3, {"NotBestEffort"}, {}),
   Q(PodCount :> 1 @@ Limits(Cpu) :> 3, {"BestEffort"}, {}),
   Q(PodCount :> 1, {"BestEffort"}, {}),
   Q(PodCount :> 1 @@ Cpu :> 2, {"NotTerminating"}, {Match("PriorityClass", "In", {"high"})}),
   Q(PodCount :> 1 @@ Cpu :> 2, {"Terminating"}, {Match("PriorityClass", "NotIn", {"high"})}),
   Q(PodCount :> 1, {"PriorityClass"}, {}),
   Q(<<"services">> :> 1, {"PriorityClass"}, {})}

Symmetry == Permutations(Ids)
=============================================================================
