--------------------------- MODULE MCAuthorization ---------------------------
(***************************************************************************)
(* Three users (one a service account), two namespaces, of which one has a *)
(* role and a role binding, a cluster role with a cluster role binding and *)
(* one account.  The rules have a wildcard of every kind.                  *)
(***************************************************************************)
EXTENDS Authorization

Robot == [kind |-> "ServiceAccount", name |-> <<"robot">>, ns |-> "blue"]
LocalRobot == [Robot EXCEPT !.ns = ""]
Ann == [kind |-> "User", name |-> <<"ann">>, ns |-> ""]
RobotUser == [kind |-> "User", name |-> MakeUsername("blue", <<"robot">>), ns |-> ""]
Devs == [kind |-> "Group", name |-> <<"devs">>, ns |-> ""]
\* A user who has the name of the group.
DevsUser == [Devs EXCEPT !.kind = "User"]

MCSubjects == {Robot, LocalRobot, Ann, RobotUser, Devs, DevsUser}
MCSubjectSets == {{}, {Robot}, {LocalRobot}, {RobotUser}, {DevsUser}, {Ann, Devs}}

MCUsers ==
  {[name |-> <<"ann">>, groups |-> {}],
   [name |-> <<"bob">>, groups |-> {<<"devs">>, <<"ops">>}],
   [name |-> MakeUsername("blue", <<"robot">>), groups |-> {}]}

MCNamespaces == {"blue", "green"}
MCAccounts == {"acme"}

Rule(v, g, r, n, u) == [verbs |-> v, groups |-> g, resources |-> r, names |-> n, urls |-> u]
Plain(res) == [res |-> res, sub |-> ""]
Url(p, s) == [path |-> p, star |-> s]

MCRuleSets ==
  {{Rule({"get"}, {""}, {Plain("namespaces")}, {"blue"}, {}),
    Rule({"get"}, {""}, {[res |-> "namespaces", sub |-> "status"]}, {"blue"}, {})},
   {Rule({"get"}, {""}, {Plain("namespaces")}, {}, {})},
   {Rule({Star}, {Star}, {ResourceAll}, {}, {Url(<<>>, TRUE)})},
   {Rule({"get"}, {""}, {Plain("namespaces"), [res |-> Star, sub |-> "status"]}, {},
         {Url(<<"healthz">>, TRUE)}),
    Rule({"edit"}, {""}, {Plain("namespaces")}, {"blue", "red"},
         {Url(<<"healthz", "ping">>, FALSE)}),
    Rule({"get", "edit"}, {"tenancy.kiosk.sh"}, {Plain("accounts")}, {}, {})}}

MCRoles ==
  {[kind |-> "ClusterRole", ns |-> "", name |-> "viewer"],
   [kind |-> "Role", ns |-> "blue", name |-> "viewer"]}

MCBindings ==
  {[id |-> 1, ns |-> "", roleRef |-> [kind |-> "ClusterRole", name |-> "viewer"]],
   [id |-> 2, ns |-> "blue", roleRef |-> [kind |-> "Role", name |-> "viewer"]],
   [id |-> 3, ns |-> "blue", roleRef |-> [kind |-> "ClusterRole", name |-> "viewer"]]}

NoUser == [name |-> <<"nobody">>, groups |-> {}]
MCRequests ==
  {[Attributes(NoUser, v, g, r, "", n) EXCEPT !.sub = s] :
     v \in {"get", "edit"}, g \in {"", "tenancy.kiosk.sh"},
     r \in {"namespaces", "accounts"}, n \in {"blue", "green"}, s \in {"", "status"}}
  \cup
  {[Attributes(NoUser, v, "", "", "", "") EXCEPT !.resourceRequest = FALSE, !.path = p] :
     v \in {"get", "edit"}, p \in {<<"healthz">>, <<"healthz", "ping">>, <<"api">>}}
=============================================================================
