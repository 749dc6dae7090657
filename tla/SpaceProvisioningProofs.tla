----------------------- MODULE SpaceProvisioningProofs -----------------------
(***************************************************************************)
(* For any number of names, accounts, clients and creations: access is     *)
(* granted only after the templates were seen deployed, a success is       *)
(* ready, no error path forgets a namespace that is initializing, and      *)
(* Create takes no account past its limit but for the races.               *)
(*                                                                         *)
(* It has to be known which namespace is whose: the calls name a namespace *)
(* that may have been deleted and created again, and Identity is what      *)
(* keeps the two apart.  Progress follows the namespace of a request       *)
(* through the calls of Create, as long as it is there; what it says at    *)
(* the last call is what SuccessIsReady says from then on.                 *)
(*                                                                         *)
(* For the limit every step is shown to add nothing to what an account     *)
(* claims, except counting (which happens below the limit, whoever the     *)
(* spaces come from) and a change of owner; creating turns a claim into a  *)
(* space.                                                                  *)
(***************************************************************************)
EXTENDS SpaceProvisioning, FiniteSetTheorems, TLAPS

-----------------------------------------------------------------------------
(* Types.                                                                  *)

\* The template of an entry is one of Templates.
LEMMA EntryTemplate ==
  ASSUME NEW a \in Accounts, NEW k \in DOMAIN Instances[a], Instances[a][k] # NoTemplate
  PROVE  Instances[a][k] \in Templates
<1>1. Instances[a][k] \in {Instances[a][l] : l \in DOMAIN Instances[a]}
  OBVIOUS
<1>2. {Instances[a][l] : l \in DOMAIN Instances[a]} \in {{Instances[b][l] : l \in DOMAIN Instances[b]} : b \in Accounts}
  BY Zenon
<1>3. Instances[a][k] \in UNION {{Instances[b][l] : l \in DOMAIN Instances[b]} : b \in Accounts}
  BY <1>1, <1>2, Zenon
<1> QED BY <1>3 DEF Templates

\* A namespace in which one field is changed is still the same namespace.
LEMMA FieldTypes ==
  ASSUME NEW s \in Space
  PROVE  /\ \A o \in Accounts \cup {NoAccount} : [s EXCEPT !.owner = o, !.moved = TRUE] \in Space
         /\ [s EXCEPT !.initializing = FALSE] \in Space
         /\ [s EXCEPT !.terminating = TRUE] \in Space
         /\ \A f \in {"creating", "ok", "failed", "left"} : [s EXCEPT !.fate = f] \in Space
         /\ \A i \in SUBSET [name : InstName, status : InstStatus], d \in SUBSET InstName :
              [s EXCEPT !.insts = i, !.deployed = d] \in Space
         /\ \A i \in SUBSET [name : InstName, status : InstStatus] : [s EXCEPT !.insts = i] \in Space
         /\ \A b \in SUBSET [by : 1..MaxUid, account : Accounts, owner : Accounts \cup {NoAccount}] :
              [s EXCEPT !.bindings = b] \in Space
BY DEF Space

\* One namespace is changed.
LEMMA ChangeTypes ==
  ASSUME SpacesTyped, NEW m \in Names, NEW s \in Space, s.uid <= uids', uids \in Nat, uids' \in Nat,
         uids <= uids', spaces' = [spaces EXCEPT ![m] = s]
  PROVE  SpacesTyped'
BY DEF SpacesTyped, Exists, Space

\* How a creation went is recorded, in whichever state the namespaces are.
LEMMA SettledTypes ==
  ASSUME NEW now, DOMAIN now = Names, \A n \in Names : now[n] # Gone => now[n] \in Space /\ now[n].uid <= uids,
         NEW c, NEW result \in {"ok", "failed", "left"}, spaces' = Settled(now, c, result), uids' = uids
  PROVE  SpacesTyped'
<1>1. ASSUME NEW n \in Names, now[n] \in Space
      PROVE  [now[n] EXCEPT !.fate = result] \in Space /\ [now[n] EXCEPT !.fate = result].uid = now[n].uid
  BY <1>1 DEF Space
<1> QED BY <1>1 DEF SpacesTyped, Settled, Exists

\* A namespace is deleted.
LEMMA TerminatedTypes ==
  ASSUME SpacesTyped, NEW m \in Names
  PROVE  DOMAIN Terminated(m) = Names /\ \A n \in Names : Terminated(m)[n] # Gone => Terminated(m)[n] \in Space /\ Terminated(m)[n].uid <= uids
<1>1. ASSUME spaces[m] \in Space
      PROVE  [spaces[m] EXCEPT !.terminating = TRUE] \in Space /\ [spaces[m] EXCEPT !.terminating = TRUE].uid = spaces[m].uid
  BY <1>1 DEF Space
<1> QED BY <1>1 DEF SpacesTyped, Terminated, Exists

\* A request ends.
LEMMA ReturnTypes ==
  ASSUME RequestsTyped, NEW c \in Clients, Return(c), uids \in Nat, uids' = uids \/ uids' = uids + 1
  PROVE  RequestsTyped'
<1>1. /\ pc'[c] = "idle" /\ uid'[c] = 0 /\ req'[c] = NoRequest /\ made'[c] = <<>>
      /\ \A d \in Clients \ {c} : pc'[d] = pc[d] /\ uid'[d] = uid[d] /\ req'[d] = req[d] /\ made'[d] = made[d]
      /\ pc' \in [Clients -> Labels] /\ req' \in [Clients -> Request \cup {NoRequest}] /\ DOMAIN made' = Clients
  BY DEF RequestsTyped, Return, Goto, Labels
<1>2. uid' \in [Clients -> 0..uids']
  <2>1. uid' \in [Clients -> 0..uids]
    BY DEF RequestsTyped, Return
  <2> QED BY <2>1
<1>3. ASSUME NEW d \in Clients
      PROVE  /\ DOMAIN made'[d] \subseteq Nat /\ \A k \in DOMAIN made'[d] : made'[d][k] \in InstName
             /\ Working(d)' => uid'[d] > 0 /\ req'[d] \in Request /\ req'[d].account # NoAccount
             /\ pc'[d] # "idle" => req'[d] \in Request
  BY <1>1 DEF RequestsTyped, Working
<1> QED BY <1>1, <1>2, <1>3 DEF RequestsTyped

\* A request goes on, with no namespace yet or with the one it has created.
LEMMA GotoTypes ==
  ASSUME RequestsTyped, NEW c \in Clients, NEW label \in Labels, Goto(c, label), UNCHANGED <<uids, req, uid, made>>,
         Working(c) \/ (pc[c] # "idle" /\ ~Working(c)')
  PROVE  RequestsTyped'
<1>1. pc' \in [Clients -> Labels] /\ pc'[c] = label /\ \A d \in Clients \ {c} : pc'[d] = pc[d]
  BY DEF RequestsTyped, Goto
<1> QED BY <1>1 DEF RequestsTyped, Working

\* The steps of a request keep the types,
LEMMA StepTypes ==
  ASSUME SpaceAssumption, TypeOK, NEW c \in Clients, Step(c)
  PROVE  TypeOK'
<1>0. /\ accounts \subseteq Accounts /\ uids \in 0..MaxUid /\ uids \in Nat /\ MaxUid \in Nat
      /\ SpacesTyped /\ RequestsTyped
      /\ {"count", "create", "instances", "poll", "bind", "patch", "rollback", "access"} \subseteq Labels
  BY SpaceAssumption DEF TypeOK, Labels, SpaceAssumption
<1>1. pc[c] # "idle" /\ req[c] \in Request /\ SpaceOf(c) \in Names
  BY <1>0 DEF Step, CountSpaces, CreateNamespace, CreateInstance, Poll, PollTimeout, CreateRoleBinding,
              PatchNamespace, WaitForAccess, Rollback, Delete, RequestsTyped, Request, SpaceOf
<1>2. ASSUME UNCHANGED <<spaces, uids>>
      PROVE  SpacesTyped'
  BY <1>0, <1>2 DEF SpacesTyped, Exists
<1>3. ASSUME NEW s \in Space, s.uid <= uids, spaces' = [spaces EXCEPT ![SpaceOf(c)] = s], UNCHANGED uids
      PROVE  SpacesTyped'
  <2>1. s.uid <= uids' /\ uids' \in Nat /\ uids <= uids'
    BY <1>0, <1>3
  <2> QED BY <1>0, <1>1, <1>3, <2>1, ChangeTypes
<1>4. Exists(SpaceOf(c)) => spaces[SpaceOf(c)] \in Space /\ spaces[SpaceOf(c)].uid <= uids
  BY <1>0, <1>1 DEF SpacesTyped
<1>5. CASE CountSpaces(c)
  BY <1>0, <1>2, <1>5, ReturnTypes, GotoTypes DEF CountSpaces, TypeOK, Working, RequestsTyped, Goto
<1>6. CASE CreateNamespace(c)
  <2>1. CASE Return(c) /\ UNCHANGED <<spaces, uids>>
    BY <1>0, <1>2, <1>6, <2>1, ReturnTypes DEF CreateNamespace, TypeOK
  <2>2. CASE uids < MaxUid /\ uids' = uids + 1
             /\ \E fate \in {"creating", "ok", "left"} : spaces' = [spaces EXCEPT ![SpaceOf(c)] = NewSpace(c, fate)]
             /\ (Return(c) \/ /\ req[c].account # NoAccount /\ uid' = [uid EXCEPT ![c] = uids + 1]
                              /\ Goto(c, "instances") /\ UNCHANGED <<req, made>>)
    <3>1. PICK fate \in {"creating", "ok", "left"} : spaces' = [spaces EXCEPT ![SpaceOf(c)] = NewSpace(c, fate)]
      BY <2>2
    <3>2. NewSpace(c, fate) \in Space /\ NewSpace(c, fate).uid = uids + 1 /\ uids + 1 \in 1..MaxUid
      BY <1>0, <1>1, <2>2 DEF NewSpace, Space, Request
    <3>3. SpacesTyped'
      <4>1. NewSpace(c, fate).uid <= uids' /\ uids' \in Nat /\ uids <= uids'
        BY <1>0, <2>2, <3>2
      <4> QED BY <1>0, <1>1, <3>1, <3>2, <4>1, ChangeTypes
    <3>4. RequestsTyped'
      <4>1. CASE Return(c)
        BY <1>0, <2>2, <4>1, ReturnTypes
      <4>2. CASE req[c].account # NoAccount /\ uid' = [uid EXCEPT ![c] = uids + 1] /\ Goto(c, "instances") /\ UNCHANGED <<req, made>>
        <5>1. pc' \in [Clients -> Labels] /\ uid' \in [Clients -> 0..uids'] /\ \A d \in Clients \ {c} : pc'[d] = pc[d] /\ uid'[d] = uid[d]
          BY <1>0, <2>2, <4>2 DEF RequestsTyped, Goto
        <5>2. uid'[c] > 0
          BY <1>0, <4>2 DEF RequestsTyped
        <5> QED BY <1>1, <1>0, <4>2, <5>1, <5>2 DEF RequestsTyped, Working
      <4> QED BY <2>2, <4>1, <4>2
    <3> QED BY <1>0, <1>6, <2>2, <3>2, <3>3, <3>4 DEF CreateNamespace, TypeOK
  <2> QED BY <1>6, <2>1, <2>2 DEF CreateNamespace
<1>7. CASE CreateInstance(c)
  <2>1. CASE UNCHANGED <<spaces, made>> /\ (Goto(c, "poll") \/ Goto(c, "rollback"))
    BY <1>0, <1>2, <1>7, <2>1, GotoTypes DEF CreateInstance, TypeOK, Working
  <2>2. ASSUME NEW k \in ToCreate(c), Active(SpaceOf(c)), AddInstance(SpaceOf(c), NameFor(c, k)), UNCHANGED pc,
               made' = [made EXCEPT ![c] = [l \in DOMAIN @ \cup {k} |-> IF l = k THEN NameFor(c, k) ELSE @[l]]]
        PROVE  TypeOK'
    <3>1. req[c].account \in Accounts /\ uid[c] \in 0..uids
      BY <1>0, <1>7 DEF RequestsTyped, CreateInstance, Working, Request
    <3>2. k \in Nat /\ NameFor(c, k) \in InstName
      <4>1. k \in DOMAIN Instances[req[c].account] /\ Instances[req[c].account][k] # NoTemplate
        BY DEF ToCreate, Entries
      <4>2. Instances[req[c].account][k] \in Templates
        BY <3>1, <4>1, EntryTemplate
      <4>3. DOMAIN Instances[req[c].account] = 1..Len(Instances[req[c].account])
        BY <3>1, SpaceAssumption DEF SpaceAssumption
      <4>4. uid[c] \in 0..MaxUid /\ 0 \in 0..MaxUid
        BY <1>0, <3>1
      <4> QED BY <4>1, <4>2, <4>3, <4>4 DEF NameFor, InstName
    <3>3. SpacesTyped'
      <4> DEFINE i == [name |-> NameFor(c, k), status |-> "Pending"]
                 s == [spaces[SpaceOf(c)] EXCEPT !.insts = @ \cup {i}]
      <4>1. i \in [name : InstName, status : InstStatus]
        BY <3>2 DEF InstStatus
      <4>2. s \in Space /\ s.uid = spaces[SpaceOf(c)].uid
        BY <1>4, <2>2, <4>1 DEF Active, Space
      <4> QED BY <1>3, <1>4, <1>7, <2>2, <4>2 DEF AddInstance, Active, CreateInstance
    <3>4. RequestsTyped'
      BY <1>0, <1>7, <2>2, <3>2 DEF RequestsTyped, CreateInstance, Working
    <3> QED BY <1>0, <1>7, <3>3, <3>4 DEF TypeOK, CreateInstance
  <2> QED BY <1>7, <2>1, <2>2 DEF CreateInstance
<1>8. CASE Poll(c) \/ PollTimeout(c)
  BY <1>0, <1>2, <1>8, GotoTypes DEF Poll, PollTimeout, TypeOK, Working
<1>9. CASE CreateRoleBinding(c)
  <2>1. RequestsTyped'
    BY <1>0, <1>9, GotoTypes DEF CreateRoleBinding, Working
  <2>2. CASE UNCHANGED spaces
    BY <1>0, <1>2, <1>9, <2>1, <2>2 DEF CreateRoleBinding, TypeOK
  <2>3. CASE Active(SpaceOf(c)) /\ spaces' = [spaces EXCEPT ![SpaceOf(c)].bindings = @ \cup {NewBinding(c)}]
    <3> DEFINE s == [spaces[SpaceOf(c)] EXCEPT !.bindings = @ \cup {NewBinding(c)}]
    <3>1. NewBinding(c) \in [by : 1..MaxUid, account : Accounts, owner : Accounts \cup {NoAccount}]
      BY <1>0, <1>9 DEF NewBinding, CreateRoleBinding, RequestsTyped, Working, Request
    <3>2. s \in Space /\ s.uid = spaces[SpaceOf(c)].uid
      BY <1>4, <2>3, <3>1 DEF Active, Space
    <3> QED BY <1>0, <1>3, <1>4, <1>9, <2>1, <2>3, <3>2 DEF CreateRoleBinding, TypeOK, Active
  <2> QED BY <1>9, <2>2, <2>3 DEF CreateRoleBinding
<1>10. CASE PatchNamespace(c)
  <2>1. RequestsTyped'
    BY <1>0, <1>10, GotoTypes DEF PatchNamespace, Working
  <2>2. CASE UNCHANGED spaces
    BY <1>0, <1>2, <1>10, <2>1, <2>2 DEF PatchNamespace, TypeOK
  <2>3. CASE Exists(SpaceOf(c)) /\ spaces' = [spaces EXCEPT ![SpaceOf(c)].initializing = FALSE]
    <3> DEFINE s == [spaces[SpaceOf(c)] EXCEPT !.initializing = FALSE]
    <3>1. s \in Space /\ s.uid = spaces[SpaceOf(c)].uid
      BY <1>4, <2>3 DEF Space
    <3> QED BY <1>0, <1>3, <1>4, <1>10, <2>1, <2>3, <3>1 DEF PatchNamespace, TypeOK
  <2> QED BY <1>10, <2>2, <2>3 DEF PatchNamespace
<1>11. CASE WaitForAccess(c) \/ Rollback(c) \/ Delete(c)
  <2>1. RequestsTyped' /\ UNCHANGED <<accounts, uids>>
    BY <1>0, <1>11, ReturnTypes DEF WaitForAccess, Rollback, Delete
  <2>2. ASSUME NEW result \in {"ok", "failed", "left"}, spaces' = Settled(spaces, c, result)
        PROVE  SpacesTyped'
    BY <1>0, <2>1, <2>2, SettledTypes DEF SpacesTyped, Exists
  <2>3. ASSUME spaces' = Settled(Terminated(SpaceOf(c)), c, "failed") \/ spaces' = Terminated(SpaceOf(c))
        PROVE  SpacesTyped'
    BY <1>0, <1>1, <2>1, <2>3, TerminatedTypes, SettledTypes DEF SpacesTyped, Exists
  <2> QED BY <1>0, <1>2, <1>11, <2>1, <2>2, <2>3 DEF WaitForAccess, Rollback, Delete, TypeOK
<1> QED BY <1>5, <1>6, <1>7, <1>8, <1>9, <1>10, <1>11 DEF Step

\* those of a client that starts a request,
LEMMA StartTypes ==
  ASSUME SpaceAssumption, TypeOK, NEW c \in Clients, Start(c)
  PROVE  TypeOK'
<1>0. SpacesTyped /\ RequestsTyped /\ uids \in Nat
  BY SpaceAssumption DEF TypeOK, SpaceAssumption
<1>1. PICK n \in Names : \/ \E a \in Accounts \cup {NoAccount} : CreateStart(c, n, a)
                         \/ \E a \in Accounts \cup {NoAccount} : UpdateOwner(c, n, a)
                         \/ DeleteStart(c, n)
  BY DEF Start
<1>2. ASSUME pc[c] = "idle", NEW a \in Accounts \cup {NoAccount}, NEW label \in {"count", "create", "delete"},
             req' = [req EXCEPT ![c] = [name |-> n, account |-> a]], Goto(c, label),
             UNCHANGED <<accounts, spaces, uids, uid, made>>
      PROVE  TypeOK'
  <2>1. /\ pc'[c] = label /\ req'[c] = [name |-> n, account |-> a]
        /\ \A d \in Clients \ {c} : pc'[d] = pc[d] /\ req'[d] = req[d]
        /\ pc' \in [Clients -> Labels] /\ req' \in [Clients -> Request \cup {NoRequest}]
    BY <1>0, <1>2 DEF RequestsTyped, Goto, Labels, Request
  <2>2. ASSUME NEW d \in Clients
        PROVE  /\ Working(d)' => uid[d] > 0 /\ req'[d] \in Request /\ req'[d].account # NoAccount
               /\ pc'[d] # "idle" => req'[d] \in Request
    BY <1>0, <1>2, <2>1 DEF RequestsTyped, Working, Request
  <2>3. RequestsTyped'
    BY <1>0, <1>2, <2>1, <2>2 DEF RequestsTyped
  <2>4. SpacesTyped'
    BY <1>0, <1>2 DEF SpacesTyped, Exists
  <2> QED BY <1>2, <2>3, <2>4 DEF TypeOK
<1>3. CASE \E a \in Accounts \cup {NoAccount} : CreateStart(c, n, a)
  BY <1>2, <1>3 DEF CreateStart
<1>4. CASE DeleteStart(c, n)
  BY <1>2, <1>4 DEF DeleteStart
<1>5. ASSUME NEW a \in Accounts \cup {NoAccount}, UpdateOwner(c, n, a)
      PROVE  TypeOK'
  <2> DEFINE s == [spaces[n] EXCEPT !.owner = a, !.moved = TRUE]
  <2>1. s \in Space /\ s.uid <= uids' /\ uids' \in Nat /\ uids <= uids'
    BY <1>0, <1>5 DEF UpdateOwner, SpacesTyped, Space
  <2>2. SpacesTyped'
    <3>1. spaces' = [spaces EXCEPT ![n] = s]
      BY <1>0, <1>5 DEF UpdateOwner, SpacesTyped, Space
    <3> HIDE DEF s
    <3> QED BY <1>0, <2>1, <3>1, ChangeTypes
  <2>3. RequestsTyped'
    BY <1>0, <1>5 DEF UpdateOwner, RequestsTyped, clientVars, Working
  <2> QED BY <1>5, <2>2, <2>3 DEF TypeOK, UpdateOwner
<1> QED BY <1>1, <1>3, <1>4, <1>5

\* and all the others.
LEMMA NextTypes ==
  ASSUME SpaceAssumption, TypeOK, [Next]_vars
  PROVE  TypeOK'
<1>0. SpacesTyped /\ RequestsTyped /\ uids \in Nat
  BY SpaceAssumption DEF TypeOK, SpaceAssumption
<1>1. ASSUME NEW c \in Clients, Crash(c)
      PROVE  TypeOK'
  <2>1. SpacesTyped'
    BY <1>0, <1>1, SettledTypes DEF Crash, SpacesTyped, Exists
  <2> QED BY <1>0, <1>1, <2>1, ReturnTypes DEF Crash, TypeOK
<1>2. CASE Environment
  <2>1. RequestsTyped' /\ uids' = uids
    BY <1>0, <1>2 DEF Environment, DeleteAccount, Finalize, Collect, DecideInstance, RequestsTyped, Working, clientVars
  <2>2. ASSUME NEW n \in Names, NEW s \in Space, Exists(n), s.uid = spaces[n].uid, spaces' = [spaces EXCEPT ![n] = s]
        PROVE  SpacesTyped'
    <3>1. s.uid <= uids' /\ uids' \in Nat /\ uids <= uids'
      BY <1>0, <2>1, <2>2 DEF SpacesTyped
    <3> QED BY <1>0, <2>1, <2>2, <3>1, ChangeTypes
  <2>3. ASSUME NEW a \in Accounts, DeleteAccount(a)
        PROVE  TypeOK'
    BY <1>0, <2>1, <2>3 DEF DeleteAccount, TypeOK, SpacesTyped, Exists
  <2>4. ASSUME NEW n \in Names, Finalize(n)
        PROVE  TypeOK'
    BY <1>0, <2>1, <2>4 DEF Finalize, TypeOK, SpacesTyped, Exists
  <2>5. ASSUME NEW n \in Names, Collect(n)
        PROVE  TypeOK'
    <3> DEFINE bindings == spaces[n].bindings \ Dependents(n)
               s == [spaces[n] EXCEPT !.bindings = bindings]
    <3>1. spaces[n] \in Space
      BY <1>0, <2>5 DEF Collect, SpacesTyped
    <3>2. bindings \in SUBSET [by : 1..MaxUid, account : Accounts, owner : Accounts \cup {NoAccount}]
      BY <3>1 DEF Space
    <3>3. s \in Space /\ s.uid = spaces[n].uid
      <4> HIDE DEF bindings
      <4> QED BY <3>1, <3>2 DEF Space
    <3>4. spaces' = [spaces EXCEPT ![n] = s]
      BY <2>5 DEF Collect
    <3> HIDE DEF s
    <3> QED BY <2>1, <2>2, <2>5, <3>3, <3>4 DEF Collect, TypeOK
  <2>6. ASSUME NEW n \in Names, NEW x \in spaces[n].insts, NEW status \in InstStatus, Exists(n), DecideInstance(n, x, status)
        PROVE  TypeOK'
    <3> DEFINE insts == (spaces[n].insts \ {x}) \cup {[x EXCEPT !.status = status]}
               deployed == IF status = "Deployed" THEN spaces[n].deployed \cup {x.name} ELSE spaces[n].deployed
               s == [spaces[n] EXCEPT !.insts = insts, !.deployed = deployed]
    <3>1. spaces[n] \in Space /\ x \in [name : InstName, status : InstStatus]
      BY <1>0, <2>6 DEF SpacesTyped, Space
    <3>2. insts \in SUBSET [name : InstName, status : InstStatus] /\ deployed \in SUBSET InstName
      BY <3>1 DEF Space
    <3>3. s \in Space /\ s.uid = spaces[n].uid
      <4> HIDE DEF insts, deployed
      <4> QED BY <3>1, <3>2 DEF Space
    <3>4. spaces' = [spaces EXCEPT ![n] = s]
      BY <2>6 DEF DecideInstance
    <3> HIDE DEF s
    <3> QED BY <2>1, <2>2, <2>6, <3>3, <3>4 DEF DecideInstance, TypeOK
  <2> QED BY <1>2, <2>3, <2>4, <2>5, <2>6 DEF Environment
<1>3. CASE UNCHANGED vars
  BY <1>3 DEF TypeOK, SpacesTyped, RequestsTyped, Exists, Working, vars
<1> QED BY <1>1, <1>2, <1>3, StepTypes, StartTypes DEF Next

\* The initial state is well typed.
LEMMA InitTypes ==
  ASSUME SpaceAssumption, Init
  PROVE  TypeOK
<1>1. SpacesTyped
  BY DEF Init, SpacesTyped, Exists
<1>2. RequestsTyped
  BY DEF Init, RequestsTyped, Labels, Working
<1> QED BY <1>1, <1>2, SpaceAssumption DEF Init, TypeOK, SpaceAssumption

-----------------------------------------------------------------------------
(* What happens to a namespace after it was created.                       *)

\* The namespace is the one that the request has created.
Mine(c, n) == Exists(n) /\ spaces[n].uid = uid[c]

\* Who is who: no two namespaces and no two requests have the same uid, and the
\* namespace a request has created is found under the name it asked for.
Identity ==
  /\ \A n, m \in Names : Exists(n) /\ Exists(m) /\ spaces[n].uid = spaces[m].uid => n = m
  /\ \A c, d \in Clients : uid[c] = uid[d] /\ uid[c] # 0 => c = d
  /\ \A c \in Clients : uid[c] # 0 <=> Working(c)
  /\ \A c \in Clients, n \in Names : Mine(c, n) => n = SpaceOf(c)

\* The instances a request has created are those of its account's entries, all
\* of them when it polls.
MadeFor ==
  \A c \in Clients :
    /\ Working(c) => \A k \in DOMAIN made[c] : made[c][k].template = Instances[req[c].account][k]
    /\ pc[c] = "poll" => Entries(req[c].account) \subseteq DOMAIN made[c]
    /\ ~Working(c) => made[c] = <<>>

\* The history of deployments is complete.
Recorded ==
  \A n \in Names : Exists(n) =>
    \A x \in spaces[n].insts : x.status = "Deployed" => x.name \in spaces[n].deployed

AllSeen(n, a) ==
  \A k \in Entries(a) : \E i \in spaces[n].deployed : i.template = Instances[a][k]
Bound(n) ==
  \A a \in HasRole \cap accounts : spaces[n].owner = a /\ ~spaces[n].moved =>
    \E b \in spaces[n].bindings : b.by = spaces[n].uid /\ b.owner = a

\* How far the namespace of a request is, if it is still there.
Progress ==
  \A c \in Clients, n \in Names : Mine(c, n) =>
    /\ spaces[n].fate = "creating"
    /\ ~spaces[n].moved => spaces[n].owner = req[c].account
    /\ pc[c] = "bind" => AllSeen(n, req[c].account)
    /\ pc[c] \in {"patch", "access"} => Bound(n)
    /\ pc[c] = "access" => ~spaces[n].initializing

\* The fields of a namespace.
LEMMA Fields ==
  ASSUME NEW s \in Space
  PROVE  {"uid", "owner", "initializing", "terminating", "moved", "fate", "insts", "deployed", "bindings"}
           = DOMAIN s
BY DEF Space

\* What SuccessIsReady says of role bindings, and who owns them.
SuccessBound == \A n \in Names : Active(n) /\ spaces[n].fate = "ok" => Bound(n)

\* A step never undoes any of this in a namespace that was there before.
Evolves(n) ==
  /\ Exists(n) /\ spaces'[n].uid = spaces[n].uid
  /\ spaces[n].deployed \subseteq spaces'[n].deployed
  /\ ~spaces'[n].moved => ~spaces[n].moved /\ spaces'[n].owner = spaces[n].owner
  /\ \A b \in spaces[n].bindings : b.owner \in accounts' => b \in spaces'[n].bindings
  /\ spaces'[n].initializing => spaces[n].initializing
  /\ spaces[n].terminating => spaces'[n].terminating
Old ==
  /\ accounts' \subseteq accounts
  /\ \A n \in Names : Exists(n)' => Evolves(n)
SameFates == \A n \in Names : Exists(n)' => spaces'[n].fate = spaces[n].fate

\* What was bound or seen deployed stays so.
LEMMA EvolvesKeeps ==
  ASSUME accounts' \subseteq accounts, NEW n \in Names, Evolves(n)
  PROVE  /\ Bound(n) => Bound(n)'
         /\ \A a : AllSeen(n, a) => AllSeen(n, a)'
BY DEF Evolves, Bound, AllSeen, Entries

\* A request ends, or goes on; it gets to the role binding and beyond only when
\* what it has waited for is the case.
Ended(d) == uid'[d] = 0 /\ ~Working(d)'
GoesOn(d) ==
  /\ uid'[d] = uid[d] /\ req'[d] = req[d] /\ (Working(d)' <=> Working(d))
  /\ pc'[d] = "bind" => pc[d] = "bind" \/ \A n \in Names : Mine(d, n) => AllSeen(n, req[d].account)
  /\ pc'[d] \in {"patch", "access"} =>
       pc[d] \in {"patch", "access"} \/ \A n \in Names : Mine(d, n)' => Bound(n)'
  /\ pc'[d] = "access" => pc[d] = "access" \/ \A n \in Names : Mine(d, n)' => ~spaces'[n].initializing
RequestsGoOn == \A d \in Clients : Ended(d) \/ GoesOn(d)

\* Steps by which nobody becomes anybody else.
LEMMA IdentityKept ==
  ASSUME TypeOK, Identity, Old,
         \A d \in Clients : \/ Ended(d)
                            \/ uid'[d] = uid[d] /\ req'[d] = req[d] /\ (Working(d)' <=> Working(d))
  PROVE  Identity'
<1>1. \A n \in Names : Exists(n) => spaces[n].uid > 0
  BY DEF TypeOK, SpacesTyped, Space
<1>2. \A n \in Names : Exists(n)' => Exists(n) /\ spaces'[n].uid = spaces[n].uid
  BY DEF Old, Evolves
<1>3. \A c \in Clients, n \in Names : Mine(c, n)' => Mine(c, n) /\ ~Ended(c)
  BY <1>1, <1>2 DEF Mine, Ended
<1>4. /\ \A n, m \in Names : (Exists(n) /\ Exists(m) /\ spaces[n].uid = spaces[m].uid)' => n = m
  BY <1>2 DEF Identity
<1>5. \A c, d \in Clients : uid'[c] = uid'[d] /\ uid'[c] # 0 => c = d
  BY DEF Identity, Ended
<1>6. \A c \in Clients : uid'[c] # 0 <=> Working(c)'
  BY DEF Identity, Ended
<1>7. \A c \in Clients, n \in Names : Mine(c, n)' => n = SpaceOf(c)'
  BY <1>3 DEF Identity, SpaceOf
<1> QED BY <1>4, <1>5, <1>6, <1>7 DEF Identity

\* Steps that neither create a namespace nor end a creation.
LEMMA OldKeeps ==
  ASSUME TypeOK, Identity, Progress, SuccessBound, NoneForgotten, Old, SameFates, RequestsGoOn
  PROVE  Identity' /\ Progress' /\ SuccessBound' /\ NoneForgotten'
<1>1. Identity'
  BY IdentityKept DEF RequestsGoOn, GoesOn
<1>2. ASSUME NEW c \in Clients, NEW n \in Names, Mine(c, n)'
      PROVE  /\ spaces'[n].fate = "creating"
             /\ ~spaces'[n].moved => spaces'[n].owner = req'[c].account
             /\ pc'[c] = "bind" => AllSeen(n, req[c].account)' /\ req'[c] = req[c]
             /\ pc'[c] \in {"patch", "access"} => Bound(n)'
             /\ pc'[c] = "access" => ~spaces'[n].initializing
  <2>1. Evolves(n)
    BY <1>2 DEF Old, Mine
  <2>2. ~Ended(c) /\ GoesOn(c) /\ Mine(c, n)
    <3>1. spaces[n].uid > 0
      BY <2>1 DEF TypeOK, SpacesTyped, Space, Evolves
    <3>2. spaces[n].uid = uid'[c]
      BY <1>2, <2>1 DEF Mine, Evolves
    <3>3. ~Ended(c)
      BY <3>1, <3>2 DEF Ended
    <3>4. GoesOn(c)
      BY <3>3 DEF RequestsGoOn
    <3> QED BY <2>1, <3>2, <3>3, <3>4 DEF Mine, Evolves, GoesOn
  <2>3. /\ spaces[n].fate = "creating"
        /\ ~spaces[n].moved => spaces[n].owner = req[c].account
        /\ pc[c] = "bind" => AllSeen(n, req[c].account)
        /\ pc[c] \in {"patch", "access"} => Bound(n)
        /\ pc[c] = "access" => ~spaces[n].initializing
    BY <2>2 DEF Progress
  <2>4. accounts' \subseteq accounts /\ spaces'[n].fate = spaces[n].fate /\ req'[c] = req[c]
    BY <1>2, <2>2 DEF Old, SameFates, Mine, GoesOn
  <2>5. pc'[c] = "bind" => AllSeen(n, req[c].account)
    BY <2>2, <2>3 DEF GoesOn
  <2>6. pc'[c] \in {"patch", "access"} => Bound(n)'
    BY <1>2, <2>1, <2>2, <2>3, <2>4, EvolvesKeeps DEF GoesOn
  <2>7. pc'[c] = "access" => ~spaces'[n].initializing
    BY <1>2, <2>1, <2>2, <2>3 DEF GoesOn, Evolves
  <2>8. pc'[c] = "bind" => AllSeen(n, req[c].account)'
    BY <2>1, <2>4, <2>5 DEF Evolves, AllSeen, Entries
  <2> QED BY <2>1, <2>3, <2>4, <2>6, <2>7, <2>8 DEF Evolves
<1>3. Progress'
  BY <1>2 DEF Progress
<1>4. ASSUME NEW n \in Names, Active(n)'
      PROVE  Active(n) /\ Evolves(n) /\ spaces'[n].fate = spaces[n].fate
  BY <1>4 DEF Active, Old, Evolves, SameFates
<1>5. SuccessBound'
  BY <1>4, EvolvesKeeps DEF Old, SuccessBound
<1>6. NoneForgotten'
  BY <1>4 DEF NoneForgotten, Evolves
<1> QED BY <1>1, <1>3, <1>5, <1>6

\* Creations end: what is recorded of one concerns its own namespace only.  It
\* is a success when the annotation is gone and the role binding is there, and
\* a failure when the namespace is deleted.
LEMMA SettledKeepsAll ==
  ASSUME TypeOK, Identity, Progress, SuccessBound, NoneForgotten, NEW c \in Clients, Return(c), UNCHANGED <<accounts, uids>>,
         NEW result, NEW now, spaces' = Settled(now, c, result),
         \/ now = spaces /\ result = "left"
         \/ now = spaces /\ result = "ok" /\ pc[c] = "access"
         \/ now = Terminated(SpaceOf(c)) /\ result = "failed"
  PROVE  Old /\ Identity' /\ Progress' /\ SuccessBound' /\ NoneForgotten'
<1>0. /\ \A n \in Names : Exists(n) => spaces[n] \in Space /\ spaces[n].uid > 0
      /\ DOMAIN spaces = Names
  BY DEF TypeOK, SpacesTyped, Space
<1>1. /\ pc'[c] = "idle" /\ uid'[c] = 0
      /\ \A d \in Clients \ {c} : pc'[d] = pc[d] /\ uid'[d] = uid[d] /\ req'[d] = req[d]
  BY DEF Return, Goto, TypeOK, RequestsTyped
<1>2. ASSUME NEW n \in Names, Exists(n)'
      PROVE  /\ Exists(n)
             /\ spaces'[n].uid = spaces[n].uid
             /\ spaces'[n].owner = spaces[n].owner /\ spaces'[n].moved = spaces[n].moved
             /\ spaces'[n].bindings = spaces[n].bindings /\ spaces'[n].deployed = spaces[n].deployed
             /\ spaces'[n].initializing = spaces[n].initializing
             /\ spaces[n].terminating => spaces'[n].terminating
             /\ n = SpaceOf(c) /\ result = "failed" => spaces'[n].terminating
             /\ spaces'[n].fate = IF Mine(c, n) THEN result ELSE spaces[n].fate
  <2>1. /\ now[n] # Gone
        /\ spaces'[n] = IF now[n].uid = uid[c] THEN [now[n] EXCEPT !.fate = result] ELSE now[n]
    BY <1>2 DEF Settled, Exists
  <2>2. CASE now = spaces /\ result # "failed"
    BY <1>0, <2>1, <2>2 DEF Exists, Mine, Space
  <2>3. CASE now = Terminated(SpaceOf(c)) /\ result = "failed"
    <3>1. \/ now[n] = spaces[n] /\ (n # SpaceOf(c) \/ ~Exists(n))
          \/ now[n] = [spaces[n] EXCEPT !.terminating = TRUE] /\ Exists(n)
      BY <1>0, <2>3 DEF Terminated, Exists
    <3>2. Exists(n) /\ spaces[n] \in Space
      BY <1>0, <2>1, <3>1 DEF Exists
    <3>3. /\ now[n] \in Space /\ now[n].uid = spaces[n].uid /\ now[n].owner = spaces[n].owner
          /\ now[n].moved = spaces[n].moved /\ now[n].bindings = spaces[n].bindings
          /\ now[n].deployed = spaces[n].deployed /\ now[n].initializing = spaces[n].initializing
          /\ now[n].fate = spaces[n].fate
          /\ spaces[n].terminating => now[n].terminating
          /\ n = SpaceOf(c) => now[n].terminating
      BY <3>1, <3>2 DEF Space
    <3>4. CASE Mine(c, n)
      <4>1. spaces'[n] = [now[n] EXCEPT !.fate = result]
        BY <2>1, <3>3, <3>4 DEF Mine
      <4> QED BY <3>2, <3>3, <3>4, <4>1 DEF Space
    <3>5. CASE ~Mine(c, n)
      <4>1. spaces'[n] = now[n]
        BY <2>1, <3>2, <3>3, <3>5 DEF Mine
      <4> QED BY <3>2, <3>3, <3>5, <4>1
    <3> QED BY <3>4, <3>5
  <2> QED BY <2>2, <2>3
<1>3. Old
  BY <1>2 DEF Old, Evolves
<1>4. Identity'
  BY <1>1, <1>3, IdentityKept DEF Ended, Working
<1>5. ASSUME NEW d \in Clients, NEW n \in Names, Mine(d, n)'
      PROVE  /\ spaces'[n].fate = "creating"
             /\ ~spaces'[n].moved => spaces'[n].owner = req'[d].account
             /\ pc'[d] = "bind" => AllSeen(n, req[d].account)'
             /\ pc'[d] \in {"patch", "access"} => Bound(n)'
             /\ pc'[d] = "access" => ~spaces'[n].initializing
             /\ req'[d] = req[d]
  <2>1. d # c /\ Exists(n)
    BY <1>0, <1>1, <1>2, <1>5 DEF Mine
  <2>2. Mine(d, n) /\ ~Mine(c, n)
    BY <1>0, <1>1, <1>2, <1>5, <2>1 DEF Mine, Identity
  <2>3. Evolves(n)
    BY <1>3, <1>5 DEF Old, Mine
  <2>4. AllSeen(n, req[d].account) => AllSeen(n, req[d].account)'
    BY <1>1, <2>1, <2>3 DEF Evolves, AllSeen, Entries
  <2> QED BY <1>1, <1>2, <1>3, <1>5, <2>1, <2>2, <2>3, <2>4, EvolvesKeeps DEF Progress, Mine, Old
<1>6. Progress'
  BY <1>5 DEF Progress
<1>7. ASSUME NEW n \in Names, Active(n)'
      PROVE  /\ Active(n) /\ Evolves(n)
             /\ spaces'[n].fate = "ok" => Bound(n) /\ ~spaces[n].initializing
             /\ spaces'[n].fate # "failed"
             /\ spaces'[n].initializing => spaces'[n].fate \in {"creating", "left"}
  <2>1. Active(n) /\ Evolves(n)
    BY <1>3, <1>7 DEF Old, Active, Evolves
  <2>2. CASE ~Mine(c, n)
    BY <1>2, <1>7, <2>1, <2>2 DEF SuccessBound, NoneForgotten, Active
  <2>3. CASE Mine(c, n)
    <3>1. n = SpaceOf(c) /\ spaces'[n].fate = result /\ result # "failed"
      BY <1>2, <1>7, <2>3 DEF Identity, Active
    <3>2. result = "ok" => Bound(n) /\ ~spaces[n].initializing
      BY <2>3, <3>1 DEF Progress
    <3> QED BY <1>2, <1>7, <2>1, <3>1, <3>2 DEF Active
  <2> QED BY <2>2, <2>3
<1>8. SuccessBound'
  BY <1>3, <1>7, EvolvesKeeps DEF SuccessBound, Old
<1>9. NoneForgotten'
  BY <1>7 DEF NoneForgotten
<1> QED BY <1>3, <1>4, <1>6, <1>8, <1>9

\* A namespace is created: it has a uid that nobody has, and nothing in it.
LEMMA CreatedKeepsAll ==
  ASSUME TypeOK, Identity, Progress, SuccessBound, NoneForgotten, NEW c \in Clients, SpaceAssumption,
         pc[c] = "create", ~Exists(SpaceOf(c)), uids' = uids + 1, UNCHANGED accounts,
         NEW fate, spaces' = [spaces EXCEPT ![SpaceOf(c)] = NewSpace(c, fate)],
         \/ /\ req[c].account # NoAccount /\ fate = "creating" /\ uid' = [uid EXCEPT ![c] = uids + 1]
            /\ Goto(c, "instances") /\ UNCHANGED <<req, made>>
         \/ fate = "ok" /\ req[c].account = NoAccount /\ Return(c)
         \/ fate = "left" /\ Return(c)
  PROVE  Identity' /\ Progress' /\ SuccessBound' /\ NoneForgotten'
<1> DEFINE m == SpaceOf(c)
<1>0. /\ m \in Names /\ DOMAIN spaces = Names /\ uids \in Nat
      /\ \A n \in Names : Exists(n) => spaces[n].uid \in 1..uids
      /\ \A d \in Clients : uid[d] \in 0..uids
      /\ uid[c] = 0
  BY SpaceAssumption DEF TypeOK, SpacesTyped, RequestsTyped, Space, Request, SpaceOf, Identity, Working, SpaceAssumption
<1>1. /\ spaces'[m] = NewSpace(c, fate) /\ spaces'[m].uid = uids + 1
      /\ \A n \in Names \ {m} : spaces'[n] = spaces[n]
  BY <1>0 DEF NewSpace
<1>2. /\ \A d \in Clients \ {c} : pc'[d] = pc[d] /\ uid'[d] = uid[d] /\ req'[d] = req[d]
      /\ \/ pc'[c] = "instances" /\ uid'[c] = uids + 1 /\ req'[c] = req[c] /\ fate = "creating"
         \/ pc'[c] = "idle" /\ uid'[c] = 0 /\ (fate = "left" \/ (fate = "ok" /\ req[c].account = NoAccount))
  BY DEF TypeOK, RequestsTyped, Return, Goto
<1>3. Identity'
  <2>1. ASSUME NEW n \in Names, NEW l \in Names, Exists(n)', Exists(l)', spaces'[n].uid = spaces'[l].uid
        PROVE  n = l
    BY <1>0, <1>1, <2>1 DEF Identity, Exists
  <2>2. ASSUME NEW d \in Clients, NEW e \in Clients, uid'[d] = uid'[e], uid'[d] # 0
        PROVE  d = e
    BY <1>0, <1>2, <2>2 DEF Identity
  <2>3. ASSUME NEW d \in Clients
        PROVE  uid'[d] # 0 <=> Working(d)'
    BY <1>0, <1>2 DEF Identity, Working
  <2>4. ASSUME NEW d \in Clients, NEW n \in Names, Mine(d, n)'
        PROVE  n = SpaceOf(d)'
    BY <1>0, <1>1, <1>2, <2>4 DEF Identity, Mine, Exists, SpaceOf
  <2> QED BY <2>1, <2>2, <2>3, <2>4 DEF Identity
<1>4. ASSUME NEW d \in Clients, NEW n \in Names, Mine(d, n)'
      PROVE  /\ spaces'[n].fate = "creating"
             /\ ~spaces'[n].moved => spaces'[n].owner = req'[d].account
             /\ pc'[d] = "bind" => AllSeen(n, req[d].account)' /\ req'[d] = req[d]
             /\ pc'[d] \in {"patch", "access"} => Bound(n)'
             /\ pc'[d] = "access" => ~spaces'[n].initializing
  <2>1. CASE n = m
    <3>1. d = c /\ pc'[c] = "instances" /\ fate = "creating" /\ req'[c] = req[c]
      BY <1>0, <1>1, <1>2, <1>4, <2>1 DEF Mine
    <3> QED BY <1>1, <2>1, <3>1 DEF NewSpace
  <2>2. CASE n # m
    <3>1. d # c /\ Mine(d, n) /\ spaces'[n] = spaces[n]
      BY <1>0, <1>1, <1>2, <1>4, <2>2 DEF Mine, Exists
    <3>2. AllSeen(n, req[d].account)' <=> AllSeen(n, req[d].account)
      <4>1. req'[d] = req[d] /\ spaces'[n] = spaces[n]
        BY <1>2, <3>1
      <4> QED BY <4>1 DEF AllSeen, Entries
    <3>3. Bound(n)' <=> Bound(n)
      BY <3>1 DEF Bound
    <3> QED BY <1>2, <3>1, <3>2, <3>3 DEF Progress
  <2> QED BY <2>1, <2>2
<1>5. Progress'
  BY <1>4 DEF Progress
<1>6. SuccessBound'
  <2>1. ASSUME NEW n \in Names, Active(n)', spaces'[n].fate = "ok"
        PROVE  Bound(n)'
    <3>1. CASE n = m
      <4>1. spaces'[m].owner = NoAccount
        BY <1>1, <1>2, <2>1, <3>1 DEF NewSpace
      <4> QED BY <3>1, <4>1, SpaceAssumption DEF Bound, SpaceAssumption
    <3>2. CASE n # m
      BY <1>1, <2>1, <3>2 DEF SuccessBound, Active, Exists, Bound
    <3> QED BY <3>1, <3>2
  <2> QED BY <2>1 DEF SuccessBound
<1>7. NoneForgotten'
  <2>1. ASSUME NEW n \in Names, Active(n)'
        PROVE  /\ spaces'[n].fate # "failed"
               /\ spaces'[n].initializing => spaces'[n].fate \in {"creating", "left"}
    <3>1. CASE n = m
      <4>1. spaces'[n].fate = fate /\ fate \in {"creating", "left", "ok"}
        BY <1>1, <1>2, <3>1 DEF NewSpace
      <4>2. ~spaces'[n].initializing \/ req[c].account # NoAccount
        <5>1. spaces'[m].initializing = (req[c].account # NoAccount)
          BY <1>1 DEF NewSpace
        <5>2. CASE req[c].account = NoAccount
          <6>1. (req[c].account # NoAccount) = FALSE
            BY <5>2
          <6> QED BY <3>1, <5>1, <6>1
        <5> QED BY <5>2
      <4> QED BY <1>2, <4>1, <4>2
    <3>2. CASE n # m
      BY <1>1, <2>1, <3>2 DEF NoneForgotten, Active, Exists
    <3> QED BY <3>1, <3>2
  <2> QED BY <2>1 DEF NoneForgotten
<1> QED BY <1>3, <1>5, <1>6, <1>7

-----------------------------------------------------------------------------
(* The instances a request has created, and the history of deployments.    *)

\* Requests that create nothing and do not begin to poll.
LEMMA MadeForKept ==
  ASSUME MadeFor,
         \A d \in Clients : \/ ~Working(d)' /\ made'[d] = <<>>
                            \/ made'[d] = made[d] /\ req'[d] = req[d] /\ pc'[d] = pc[d]
  PROVE  MadeFor'
BY DEF MadeFor, Working, Entries

\* Namespaces in which no instance is added or decided.
LEMMA RecordedKept ==
  ASSUME Recorded,
         \A n \in Names : Exists(n)' =>
           \/ spaces'[n].insts = {}
           \/ Exists(n) /\ spaces'[n].insts = spaces[n].insts /\ spaces'[n].deployed = spaces[n].deployed
  PROVE  Recorded'
BY DEF Recorded

\* Namespaces to which no role binding is added.
LEMMA AccessKept ==
  ASSUME AccessAfterTemplates,
         \A n \in Names : Exists(n)' =>
           \/ spaces'[n].bindings = {}
           \/ Evolves(n) /\ spaces'[n].bindings \subseteq spaces[n].bindings
  PROVE  AccessAfterTemplates'
<1> SUFFICES ASSUME NEW n \in Names, Exists(n)', NEW b \in spaces'[n].bindings, b.by = spaces'[n].uid,
                    NEW k \in Entries(b.account)
             PROVE  \E i \in spaces'[n].deployed : i.template = Instances[b.account][k]
  BY DEF AccessAfterTemplates, Entries
<1> QED BY DEF AccessAfterTemplates, Evolves

-----------------------------------------------------------------------------
(* Every step again.                                                       *)

SpaceInv ==
  /\ Identity /\ MadeFor /\ Recorded /\ Progress
  /\ SuccessBound /\ NoneForgotten /\ AccessAfterTemplates

\* A step after which the namespaces are as they were.
LEMMA SameSpaces ==
  ASSUME SpaceInv, UNCHANGED spaces, accounts' \subseteq accounts
  PROVE  Old /\ SameFates /\ Recorded' /\ AccessAfterTemplates'
<1>1. Old /\ SameFates
  BY DEF Old, Evolves, SameFates, Exists
<1>2. Recorded' /\ AccessAfterTemplates'
  BY DEF SpaceInv, Recorded, AccessAfterTemplates, Exists, Entries
<1> QED BY <1>1, <1>2

\* A request that ends touches nobody else.
LEMMA ReturnGoesOn ==
  ASSUME TypeOK, MadeFor, NEW c \in Clients, Return(c)
  PROVE  RequestsGoOn /\ MadeFor'
<1>1. /\ pc'[c] = "idle" /\ uid'[c] = 0
      /\ \A d \in Clients \ {c} : pc'[d] = pc[d] /\ uid'[d] = uid[d] /\ req'[d] = req[d] /\ made'[d] = made[d]
  BY DEF Return, Goto, TypeOK, RequestsTyped
<1>2. RequestsGoOn
  BY <1>1 DEF RequestsGoOn, Ended, GoesOn, Working
<1>3. MadeFor'
  <2>1. ~Working(c)' /\ made'[c] = <<>>
    BY <1>1 DEF Working, Return, TypeOK, RequestsTyped
  <2> QED BY <1>1, <2>1, MadeForKept
<1> QED BY <1>2, <1>3

\* Neither does one that goes on; the condition is what it has waited for.
LEMMA GotoGoesOn ==
  ASSUME TypeOK, MadeFor, NEW c \in Clients, NEW label, Goto(c, label), UNCHANGED <<uid, req, made>>,
         Working(c)' <=> Working(c),
         label = "poll" => Entries(req[c].account) \subseteq DOMAIN made[c],
         label = "bind" => \A n \in Names : Mine(c, n) => AllSeen(n, req[c].account),
         label \in {"patch", "access"} => pc[c] \in {"patch", "access"} \/ \A n \in Names : Mine(c, n)' => Bound(n)',
         label = "access" => pc[c] = "access" \/ \A n \in Names : Mine(c, n)' => ~spaces'[n].initializing
  PROVE  RequestsGoOn /\ MadeFor'
<1>1. pc'[c] = label /\ \A d \in Clients \ {c} : pc'[d] = pc[d]
  BY DEF Goto, TypeOK, RequestsTyped
<1>2. \A d \in Clients : Working(d)' <=> Working(d)
  BY <1>1 DEF Working
<1>3. GoesOn(c) /\ \A d \in Clients \ {c} : GoesOn(d)
  BY <1>1, <1>2 DEF GoesOn
<1>4. MadeFor'
  BY <1>1, <1>2 DEF MadeFor, Entries
<1> QED BY <1>3, <1>4 DEF RequestsGoOn

\* Requests that do nothing at all.
LEMMA IdleGoOn ==
  ASSUME MadeFor, UNCHANGED clientVars
  PROVE  RequestsGoOn /\ MadeFor'
BY DEF RequestsGoOn, GoesOn, Working, MadeFor, Entries, clientVars

\* Requests that start, and those that fail before they have created anything.
LEMMA StartKeepsAll ==
  ASSUME SpaceAssumption, TypeOK, SpaceInv, NEW c \in Clients, Start(c)
  PROVE  SpaceInv'
<1> USE DEF SpaceInv
<1>1. ASSUME pc[c] = "idle", UNCHANGED <<accounts, spaces, uid, made>>,
             NEW n, NEW a, req' = [req EXCEPT ![c] = [name |-> n, account |-> a]],
             NEW label \in {"count", "create", "delete"}, Goto(c, label)
      PROVE  SpaceInv'
  <2>1. /\ pc'[c] = label /\ uid'[c] = 0
        /\ \A d \in Clients \ {c} : pc'[d] = pc[d] /\ req'[d] = req[d]
    BY <1>1 DEF Goto, TypeOK, RequestsTyped, Identity, Working
  <2>2. RequestsGoOn
    BY <1>1, <2>1 DEF RequestsGoOn, Ended, GoesOn, Working
  <2>3. MadeFor'
    <3>1. ~Working(c)' /\ made'[c] = <<>>
      BY <1>1, <2>1 DEF Working, MadeFor
    <3> QED BY <1>1, <2>1, <3>1, MadeForKept
  <2> QED BY <1>1, <2>2, <2>3, SameSpaces, OldKeeps
<1>2. ASSUME NEW n \in Names, NEW a \in Accounts \cup {NoAccount}, CreateStart(c, n, a)
      PROVE  SpaceInv'
  BY <1>1, <1>2 DEF CreateStart
<1>3. ASSUME NEW n \in Names, DeleteStart(c, n)
      PROVE  SpaceInv'
  BY <1>1, <1>3 DEF DeleteStart
<1>4. ASSUME NEW n \in Names, NEW a \in Accounts \cup {NoAccount}, UpdateOwner(c, n, a)
      PROVE  SpaceInv'
  <2>1. ASSUME NEW m \in Names, Exists(m)'
        PROVE  /\ Evolves(m) /\ spaces'[m].fate = spaces[m].fate /\ spaces'[m].insts = spaces[m].insts
               /\ spaces'[m].bindings = spaces[m].bindings /\ spaces'[m].deployed = spaces[m].deployed
    BY <1>4, <2>1 DEF UpdateOwner, TypeOK, SpacesTyped, Evolves, Exists, Space
  <2>2. Old /\ SameFates
    BY <1>4, <2>1 DEF UpdateOwner, Old, SameFates
  <2>3. Recorded' /\ AccessAfterTemplates'
    BY <2>1, RecordedKept, AccessKept DEF Evolves
  <2>4. RequestsGoOn /\ MadeFor'
    BY <1>4, IdleGoOn DEF UpdateOwner
  <2> QED BY <2>2, <2>3, <2>4, OldKeeps
<1> QED BY <1>2, <1>3, <1>4 DEF Start

\* A template instance is created, by a request that goes on to the next.
LEMMA AddInstanceKeepsAll ==
  ASSUME SpaceAssumption, TypeOK, SpaceInv, NEW c \in Clients, NEW k \in ToCreate(c), Working(c), pc[c] # "poll",
         Active(SpaceOf(c)), AddInstance(SpaceOf(c), NameFor(c, k)), UNCHANGED <<accounts, uid, req, pc>>,
         made' = [made EXCEPT ![c] = [l \in DOMAIN @ \cup {k} |-> IF l = k THEN NameFor(c, k) ELSE @[l]]]
  PROVE  SpaceInv'
<1> USE DEF SpaceInv
<1>1. ASSUME NEW n \in Names, Exists(n)'
      PROVE  /\ Evolves(n) /\ spaces'[n].fate = spaces[n].fate
             /\ spaces'[n].bindings = spaces[n].bindings /\ spaces'[n].deployed = spaces[n].deployed
             /\ \A x \in spaces'[n].insts : x \in spaces[n].insts \/ x.status = "Pending"
  <2>1. CASE n = SpaceOf(c)
    <3>1. spaces[n] \in Space /\ spaces'[n] = [spaces[n] EXCEPT !.insts = @ \cup {[name |-> NameFor(c, k), status |-> "Pending"]}]
      BY <2>1 DEF TypeOK, SpacesTyped, AddInstance, Active
    <3> QED BY <2>1, <3>1 DEF Evolves, Exists, Active, Space
  <2>2. CASE n # SpaceOf(c)
    <3>1. spaces'[n] = spaces[n]
      BY <2>2 DEF AddInstance, TypeOK, SpacesTyped
    <3> QED BY <1>1, <3>1 DEF Evolves, Exists
  <2> QED BY <2>1, <2>2
<1>2. Old /\ SameFates
  BY <1>1 DEF Old, SameFates
<1>3. Recorded'
  BY <1>1 DEF Recorded, Evolves
<1>4. AccessAfterTemplates'
  BY <1>1, AccessKept
<1>5. RequestsGoOn
  BY DEF RequestsGoOn, GoesOn, Working
<1>6. MadeFor'
  <2>1. /\ DOMAIN made'[c] = DOMAIN made[c] \cup {k} /\ made'[c][k] = NameFor(c, k)
        /\ \A l \in DOMAIN made[c] \ {k} : made'[c][l] = made[c][l]
        /\ \A d \in Clients \ {c} : made'[d] = made[d]
    BY DEF TypeOK, RequestsTyped
  <2>2. NameFor(c, k).template = Instances[req[c].account][k]
    BY DEF NameFor
  <2>3. \A l \in DOMAIN made'[c] : made'[c][l].template = Instances[req[c].account][l]
    BY <2>1, <2>2 DEF MadeFor
  <2>4. ASSUME NEW d \in Clients
        PROVE  /\ Working(d)' => \A l \in DOMAIN made'[d] : made'[d][l].template = Instances[req'[d].account][l]
               /\ pc'[d] = "poll" => Entries(req[d].account) \subseteq DOMAIN made'[d]
               /\ ~Working(d)' => made'[d] = <<>>
    <3>1. CASE d = c
      BY <2>3, <3>1 DEF Working
    <3>2. CASE d # c
      BY <2>1, <3>2 DEF MadeFor, Working
    <3> QED BY <3>1, <3>2
  <2> QED BY <2>4 DEF MadeFor, Entries
<1> QED BY <1>2, <1>3, <1>4, <1>5, <1>6, OldKeeps

\* The poll ends when every instance of the account was seen deployed, in the
\* namespace of that name.
LEMMA PollSeesAll ==
  ASSUME TypeOK, SpaceInv, NEW c \in Clients, pc[c] = "poll", AllDeployed(c), NEW n \in Names, Mine(c, n)
  PROVE  AllSeen(n, req[c].account)
<1> SUFFICES ASSUME NEW k \in Entries(req[c].account)
             PROVE  \E i \in spaces[n].deployed : i.template = Instances[req[c].account][k]
  BY DEF AllSeen
<1>1. n = SpaceOf(c) /\ Exists(n)
  BY DEF SpaceInv, Identity, Mine
<1>2. k \in DOMAIN made[c] /\ made[c][k].template = Instances[req[c].account][k]
  BY DEF SpaceInv, MadeFor, Working
<1>3. StatusIn(n, made[c][k]) = "Deployed"
  BY <1>1, <1>2 DEF AllDeployed, Undeployed
<1>4. PICK x \in spaces[n].insts : x.name = made[c][k] /\ x.status = "Deployed"
  <2>1. Taken(n, made[c][k])
    BY <1>1, <1>3 DEF StatusIn
  <2>2. \E x \in spaces[n].insts : x.name = made[c][k]
    BY <2>1 DEF Taken
  <2>3. (CHOOSE x \in spaces[n].insts : x.name = made[c][k]).status = "Deployed"
    BY <1>1, <1>3, <2>1 DEF StatusIn
  <2> QED BY <2>2, <2>3
<1>5. made[c][k] \in spaces[n].deployed
  BY <1>1, <1>4 DEF SpaceInv, Recorded
<1> QED BY <1>2, <1>5

\* The role binding: only where the templates were seen deployed is it the
\* namespace's own, and with it the namespace is bound.
LEMMA BindKeepsAll ==
  ASSUME SpaceAssumption, TypeOK, SpaceInv, NEW c \in Clients, CreateRoleBinding(c)
  PROVE  SpaceInv'
<1> USE DEF SpaceInv
<1>0. /\ pc[c] = "bind" /\ UNCHANGED <<accounts, uids, req, uid, made>>
      /\ req[c].account \in Accounts
  BY DEF CreateRoleBinding, TypeOK, RequestsTyped, Working, Request
<1>1. CASE Goto(c, "rollback") /\ UNCHANGED spaces
  <2>1. Working(c)' <=> Working(c)
    BY <1>0, <1>1 DEF Goto, Working, TypeOK, RequestsTyped
  <2> QED BY <1>0, <1>1, <2>1, GotoGoesOn, SameSpaces, OldKeeps
<1>2. CASE req[c].account \notin HasRole /\ Goto(c, "patch") /\ UNCHANGED spaces
  <2>1. Working(c)' <=> Working(c)
    BY <1>0, <1>2 DEF Goto, Working, TypeOK, RequestsTyped
  <2>2. ASSUME NEW n \in Names, Mine(c, n)'
        PROVE  Bound(n)'
    <3>1. Mine(c, n) /\ spaces'[n] = spaces[n] /\ accounts' = accounts
      BY <1>0, <1>2, <2>2 DEF Mine, Exists
    <3>2. ~spaces[n].moved => spaces[n].owner = req[c].account
      BY <3>1 DEF Progress
    <3> QED BY <1>2, <3>1, <3>2 DEF Bound
  <2>3. RequestsGoOn /\ MadeFor'
    BY <1>0, <1>2, <2>1, <2>2, GotoGoesOn
  <2> QED BY <1>0, <1>2, <2>3, SameSpaces, OldKeeps
<1>3. CASE /\ Active(SpaceOf(c)) /\ spaces' = [spaces EXCEPT ![SpaceOf(c)].bindings = @ \cup {NewBinding(c)}]
           /\ Goto(c, "patch") \/ Goto(c, "rollback")
  <2>1. Working(c)' <=> Working(c)
    BY <1>0, <1>3 DEF Goto, Working, TypeOK, RequestsTyped
  <2>2. ASSUME NEW n \in Names, Exists(n)'
        PROVE  /\ Evolves(n) /\ spaces'[n].fate = spaces[n].fate
               /\ spaces'[n].insts = spaces[n].insts /\ spaces'[n].deployed = spaces[n].deployed
               /\ spaces'[n].moved = spaces[n].moved /\ spaces'[n].owner = spaces[n].owner
               /\ n # SpaceOf(c) => spaces'[n].bindings = spaces[n].bindings
               /\ n = SpaceOf(c) => spaces'[n].bindings = spaces[n].bindings \cup {NewBinding(c)}
    <3>1. CASE n = SpaceOf(c)
      <4>1. spaces[n] \in Space /\ spaces'[n] = [spaces[n] EXCEPT !.bindings = @ \cup {NewBinding(c)}]
        BY <1>3, <3>1 DEF TypeOK, SpacesTyped, Active
      <4> QED BY <1>3, <3>1, <4>1 DEF Evolves, Exists, Active, Space
    <3>2. CASE n # SpaceOf(c)
      <4>1. spaces'[n] = spaces[n]
        BY <1>3, <3>2 DEF TypeOK, SpacesTyped
      <4> QED BY <2>2, <3>2, <4>1 DEF Evolves, Exists
    <3> QED BY <3>1, <3>2
  <2>3. Old /\ SameFates
    BY <1>0, <2>2 DEF Old, SameFates
  <2>4. Recorded'
    BY <2>2, RecordedKept DEF Evolves
  <2>5. AccessAfterTemplates'
    <3> SUFFICES ASSUME NEW n \in Names, Exists(n)', NEW b \in spaces'[n].bindings, b.by = spaces'[n].uid,
                        NEW k \in Entries(b.account)
                 PROVE  \E i \in spaces'[n].deployed : i.template = Instances[b.account][k]
      BY DEF AccessAfterTemplates, Entries
    <3>1. Exists(n) /\ spaces'[n].uid = spaces[n].uid /\ spaces'[n].deployed = spaces[n].deployed
      BY <2>2 DEF Evolves
    <3>2. CASE b \in spaces[n].bindings
      <4>1. b.by = spaces[n].uid
        BY <3>1
      <4>2. \E i \in spaces[n].deployed : i.template = Instances[b.account][k]
        <5>1. AccessAfterTemplates
          OBVIOUS
        <5> QED BY <3>1, <3>2, <4>1, <5>1, Zenon DEF AccessAfterTemplates
      <4> QED BY <3>1, <4>2
    <3>3. CASE n = SpaceOf(c) /\ b = NewBinding(c)
      <4>1. Mine(c, n) /\ b.account = req[c].account
        BY <3>1, <3>3 DEF Mine, NewBinding
      <4>2. AllSeen(n, req[c].account)
        BY <1>0, <4>1 DEF Progress
      <4> QED BY <3>1, <4>1, <4>2 DEF AllSeen
    <3> QED BY <2>2, <3>2, <3>3
  <2>6. ASSUME NEW n \in Names, Mine(c, n)'
        PROVE  Bound(n)'
    <3>1. Mine(c, n) /\ Exists(n)' /\ spaces'[n].uid = uid[c]
      BY <1>0, <2>2, <2>6 DEF Mine, Evolves
    <3>2. n = SpaceOf(c) /\ (~spaces[n].moved => spaces[n].owner = req[c].account)
      BY <3>1 DEF Identity, Progress
    <3>3. NewBinding(c) \in spaces'[n].bindings /\ NewBinding(c).by = uid[c] /\ NewBinding(c).owner = req[c].account
      BY <2>2, <3>1, <3>2 DEF NewBinding
    <3> QED BY <2>2, <3>1, <3>2, <3>3 DEF Bound
  <2>7. RequestsGoOn /\ MadeFor'
    BY <1>0, <1>3, <2>1, <2>6, GotoGoesOn
  <2> QED BY <2>3, <2>4, <2>5, <2>7, OldKeeps
<1> QED BY <1>1, <1>2, <1>3 DEF CreateRoleBinding

\* The annotation is removed.
LEMMA PatchKeepsAll ==
  ASSUME SpaceAssumption, TypeOK, SpaceInv, NEW c \in Clients, PatchNamespace(c)
  PROVE  SpaceInv'
<1> USE DEF SpaceInv
<1>0. pc[c] = "patch" /\ UNCHANGED <<accounts, uids, req, uid, made>> /\ (Working(c)' <=> Working(c))
  BY DEF PatchNamespace, TypeOK, RequestsTyped, Working, Goto
<1>1. CASE Goto(c, "rollback") /\ UNCHANGED spaces
  BY <1>0, <1>1, GotoGoesOn, SameSpaces, OldKeeps
<1>2. CASE Exists(SpaceOf(c)) /\ spaces' = [spaces EXCEPT ![SpaceOf(c)].initializing = FALSE] /\ Goto(c, "access")
  <2>1. ASSUME NEW n \in Names, Exists(n)'
        PROVE  /\ Evolves(n) /\ spaces'[n].fate = spaces[n].fate
               /\ spaces'[n].insts = spaces[n].insts /\ spaces'[n].deployed = spaces[n].deployed
               /\ spaces'[n].bindings = spaces[n].bindings
               /\ n = SpaceOf(c) => ~spaces'[n].initializing
    <3>1. CASE n = SpaceOf(c)
      <4>1. spaces[n] \in Space /\ spaces'[n] = [spaces[n] EXCEPT !.initializing = FALSE]
        BY <1>2, <3>1 DEF TypeOK, SpacesTyped
      <4> QED BY <1>2, <3>1, <4>1 DEF Evolves, Exists, Space
    <3>2. CASE n # SpaceOf(c)
      <4>1. spaces'[n] = spaces[n]
        BY <1>2, <3>2 DEF TypeOK, SpacesTyped
      <4> QED BY <2>1, <3>2, <4>1 DEF Evolves, Exists
    <3> QED BY <3>1, <3>2
  <2>2. Old /\ SameFates
    BY <1>0, <2>1 DEF Old, SameFates
  <2>3. Recorded' /\ AccessAfterTemplates'
    BY <2>1, RecordedKept, AccessKept DEF Evolves
  <2>4. \A n \in Names : Mine(c, n)' => ~spaces'[n].initializing
    BY <1>0, <2>1 DEF Identity, Mine, Evolves
  <2>5. RequestsGoOn /\ MadeFor'
    BY <1>0, <1>2, <2>4, GotoGoesOn
  <2> QED BY <2>2, <2>3, <2>5, OldKeeps
<1> QED BY <1>1, <1>2 DEF PatchNamespace

\* A namespace is deleted by its name.
LEMMA DeleteKeepsAll ==
  ASSUME SpaceAssumption, TypeOK, SpaceInv, NEW c \in Clients, Delete(c)
  PROVE  SpaceInv'
<1> USE DEF SpaceInv
<1>1. ASSUME NEW n \in Names, Exists(n)'
      PROVE  /\ Evolves(n) /\ spaces'[n].fate = spaces[n].fate
             /\ spaces'[n].insts = spaces[n].insts /\ spaces'[n].deployed = spaces[n].deployed
             /\ spaces'[n].bindings = spaces[n].bindings
  <2>1. \/ spaces'[n] = spaces[n]
        \/ Exists(n) /\ spaces'[n] = [spaces[n] EXCEPT !.terminating = TRUE]
    BY DEF Delete, Terminated, TypeOK, SpacesTyped
  <2>2. Exists(n) /\ spaces[n] \in Space /\ accounts' = accounts
    BY <1>1, <2>1 DEF Delete, TypeOK, SpacesTyped, Exists
  <2>3. {"uid", "owner", "initializing", "terminating", "moved", "fate", "insts", "deployed", "bindings"}
          = DOMAIN spaces[n]
    BY <2>2, Fields
  <2> QED BY <2>1, <2>2, <2>3 DEF Evolves
<1>2. Old /\ SameFates
  BY <1>1 DEF Old, SameFates, Delete
<1>3. Recorded' /\ AccessAfterTemplates'
  BY <1>1, RecordedKept, AccessKept DEF Evolves
<1>4. RequestsGoOn /\ MadeFor'
  BY ReturnGoesOn DEF Delete
<1> QED BY <1>2, <1>3, <1>4, OldKeeps

\* A request ends with what is recorded of its namespace: success, failure or
\* neither.
LEMMA EndKeepsAll ==
  ASSUME SpaceAssumption, TypeOK, SpaceInv, NEW c \in Clients, WaitForAccess(c) \/ Rollback(c) \/ Crash(c)
  PROVE  SpaceInv'
<1> USE DEF SpaceInv
<1>0. Return(c) /\ UNCHANGED <<accounts, uids>>
  BY DEF WaitForAccess, Rollback, Crash
<1>1. ASSUME NEW now, NEW result, spaces' = Settled(now, c, result),
             \/ now = spaces /\ result = "left"
             \/ now = spaces /\ result = "ok" /\ pc[c] = "access"
             \/ now = Terminated(SpaceOf(c)) /\ result = "failed"
      PROVE  SpaceInv'
  <2>1. Old /\ Identity' /\ Progress' /\ SuccessBound' /\ NoneForgotten'
    BY <1>0, <1>1, SettledKeepsAll
  <2>2. MadeFor'
    BY <1>0, ReturnGoesOn
  <2>3. ASSUME NEW n \in Names, Exists(n)'
        PROVE  /\ Evolves(n) /\ spaces'[n].insts = spaces[n].insts
               /\ spaces'[n].deployed = spaces[n].deployed /\ spaces'[n].bindings = spaces[n].bindings
    <3>1. Evolves(n) /\ Exists(n) /\ spaces[n] \in Space
      BY <2>1, <2>3 DEF Old, Evolves, TypeOK, SpacesTyped
    <3>2. now[n] \in {spaces[n], [spaces[n] EXCEPT !.terminating = TRUE]}
      BY <1>1 DEF Terminated, TypeOK, SpacesTyped
    <3>3. spaces'[n] \in {now[n], [now[n] EXCEPT !.fate = result]}
      BY <1>1 DEF Settled
    <3>4. {"uid", "owner", "initializing", "terminating", "moved", "fate", "insts", "deployed", "bindings"}
            = DOMAIN spaces[n]
      BY <3>1, Fields
    <3>5. /\ now[n].insts = spaces[n].insts /\ now[n].deployed = spaces[n].deployed
          /\ now[n].bindings = spaces[n].bindings /\ DOMAIN now[n] = DOMAIN spaces[n]
      BY <3>2, <3>4
    <3> QED BY <3>1, <3>3, <3>4, <3>5
  <2>4. Recorded' /\ AccessAfterTemplates'
    BY <2>3, RecordedKept, AccessKept DEF Evolves
  <2> QED BY <2>1, <2>2, <2>4
<1>2. CASE WaitForAccess(c)
  BY <1>1, <1>2 DEF WaitForAccess
<1>3. CASE Rollback(c)
  BY <1>1, <1>3 DEF Rollback
<1>4. CASE Crash(c)
  BY <1>1, <1>4 DEF Crash
<1> QED BY <1>2, <1>3, <1>4

\* The steps of a request.
LEMMA StepKeepsAll ==
  ASSUME SpaceAssumption, TypeOK, SpaceInv, NEW c \in Clients, Step(c)
  PROVE  SpaceInv'
<1> USE DEF SpaceInv
<1>1. ASSUME UNCHANGED <<spaces, accounts>>, Return(c)
      PROVE  SpaceInv'
  BY <1>1, ReturnGoesOn, SameSpaces, OldKeeps
<1>2. ASSUME UNCHANGED <<spaces, accounts, uid, req, made>>, NEW label \in {"create", "poll", "rollback", "bind"}, Goto(c, label),
             Working(c) <=> label # "create",
             label = "poll" => Entries(req[c].account) \subseteq DOMAIN made[c],
             label = "bind" => pc[c] = "poll" /\ AllDeployed(c)
      PROVE  SpaceInv'
  <2>1. Working(c)' <=> Working(c)
    BY <1>2 DEF Goto, Working, TypeOK, RequestsTyped
  <2>2. label = "bind" => \A n \in Names : Mine(c, n) => AllSeen(n, req[c].account)
    BY <1>2, PollSeesAll
  <2>3. RequestsGoOn /\ MadeFor'
    BY <1>2, <2>1, <2>2, GotoGoesOn
  <2> QED BY <1>2, <2>3, SameSpaces, OldKeeps
<1>3. CASE CountSpaces(c)
  BY <1>1, <1>2, <1>3 DEF CountSpaces, Working
<1>4. CASE CreateNamespace(c)
  <2>1. CASE Return(c) /\ UNCHANGED <<spaces, uids>>
    BY <1>1, <1>4, <2>1 DEF CreateNamespace
  <2>2. ASSUME ~Exists(SpaceOf(c)), uids' = uids + 1, NEW fate, spaces' = [spaces EXCEPT ![SpaceOf(c)] = NewSpace(c, fate)],
               \/ /\ req[c].account # NoAccount /\ fate = "creating" /\ uid' = [uid EXCEPT ![c] = uids + 1]
                  /\ Goto(c, "instances") /\ UNCHANGED <<req, made>>
               \/ fate = "ok" /\ req[c].account = NoAccount /\ Return(c)
               \/ fate = "left" /\ Return(c)
        PROVE  SpaceInv'
    <3>1. pc[c] = "create" /\ UNCHANGED accounts
      BY <1>4 DEF CreateNamespace
    <3>2. Identity' /\ Progress' /\ SuccessBound' /\ NoneForgotten'
      BY <2>2, <3>1, CreatedKeepsAll
    <3>3. ASSUME NEW n \in Names, Exists(n)'
          PROVE  \/ spaces'[n].insts = {} /\ spaces'[n].bindings = {}
                 \/ Exists(n) /\ spaces'[n] = spaces[n]
      BY <2>2, <3>3 DEF TypeOK, SpacesTyped, NewSpace, Exists
    <3>4. \A n \in Names : Exists(n) /\ spaces'[n] = spaces[n] => Evolves(n)
      BY <3>1 DEF Evolves
    <3>5. Recorded' /\ AccessAfterTemplates'
      BY <3>3, <3>4, RecordedKept, AccessKept
    <3>6. MadeFor'
      <4>1. CASE Return(c)
        BY <4>1, ReturnGoesOn
      <4>2. CASE Goto(c, "instances") /\ UNCHANGED <<req, made>>
        <5>1. pc'[c] = "instances" /\ \A d \in Clients \ {c} : pc'[d] = pc[d]
          BY <4>2 DEF Goto, TypeOK, RequestsTyped
        <5>2. made[c] = <<>>
          BY <3>1 DEF MadeFor, Working
        <5> QED BY <4>2, <5>1, <5>2 DEF MadeFor, Working, Entries
      <4> QED BY <2>2, <4>1, <4>2
    <3> QED BY <3>2, <3>5, <3>6
  <2> QED BY <1>4, <2>1, <2>2 DEF CreateNamespace
<1>5. CASE CreateInstance(c)
  <2>1. pc[c] = "instances" /\ UNCHANGED <<accounts, uids, req, uid>>
    BY <1>5 DEF CreateInstance
  <2>2. CASE ToCreate(c) = {} /\ Goto(c, "poll") /\ UNCHANGED <<spaces, made>>
    BY <1>2, <2>1, <2>2 DEF ToCreate, Working
  <2>3. CASE Goto(c, "rollback") /\ UNCHANGED <<spaces, made>>
    BY <1>2, <2>1, <2>3 DEF Working
  <2>4. ASSUME NEW k \in ToCreate(c), Active(SpaceOf(c)), AddInstance(SpaceOf(c), NameFor(c, k)), UNCHANGED pc,
               made' = [made EXCEPT ![c] = [l \in DOMAIN @ \cup {k} |-> IF l = k THEN NameFor(c, k) ELSE @[l]]]
        PROVE  SpaceInv'
    BY <2>1, <2>4, AddInstanceKeepsAll DEF Working
  <2> QED BY <1>5, <2>2, <2>3, <2>4 DEF CreateInstance
<1>6. CASE Poll(c) \/ PollTimeout(c)
  BY <1>2, <1>6 DEF Poll, PollTimeout, Working
<1> QED BY <1>3, <1>4, <1>5, <1>6, BindKeepsAll, PatchKeepsAll, EndKeepsAll, DeleteKeepsAll DEF Step

\* The other actors: accounts are deleted, terminating namespaces disappear,
\* role bindings are collected, and instances are decided.
LEMMA EnvironmentKeepsAll ==
  ASSUME SpaceAssumption, TypeOK, SpaceInv, Environment
  PROVE  SpaceInv'
<1> USE DEF SpaceInv
<1>0. UNCHANGED clientVars /\ accounts' \subseteq accounts
  BY DEF Environment, DeleteAccount, Finalize, Collect, DecideInstance
<1>1. RequestsGoOn /\ MadeFor'
  BY <1>0, IdleGoOn
<1>2. ASSUME Recorded', \A n \in Names : Exists(n)' => Evolves(n) /\ spaces'[n].fate = spaces[n].fate
                                                     /\ spaces'[n].bindings \subseteq spaces[n].bindings
      PROVE  SpaceInv'
  <2>1. Old /\ SameFates
    BY <1>0, <1>2 DEF Old, SameFates
  <2>2. AccessAfterTemplates'
    BY <1>2, AccessKept
  <2> QED BY <1>1, <1>2, <2>1, <2>2, OldKeeps
<1>3. ASSUME NEW a \in Accounts, DeleteAccount(a)
      PROVE  SpaceInv'
  BY <1>0, <1>1, <1>3, SameSpaces, OldKeeps DEF DeleteAccount
<1>4. ASSUME NEW m \in Names, Finalize(m)
      PROVE  SpaceInv'
  <2>1. \A n \in Names : Exists(n)' => Exists(n) /\ spaces'[n] = spaces[n]
    BY <1>4 DEF Finalize, TypeOK, SpacesTyped, Exists
  <2>2. Recorded'
    BY <2>1, RecordedKept
  <2> QED BY <1>2, <2>1, <2>2 DEF Evolves
<1>5. ASSUME NEW m \in Names, Collect(m)
      PROVE  SpaceInv'
  <2>1. ASSUME NEW n \in Names, Exists(n)'
        PROVE  /\ Evolves(n) /\ spaces'[n].fate = spaces[n].fate
               /\ spaces'[n].insts = spaces[n].insts /\ spaces'[n].deployed = spaces[n].deployed
               /\ spaces'[n].bindings \subseteq spaces[n].bindings
    <3>1. /\ accounts' = accounts
          /\ \/ spaces'[n] = spaces[n]
             \/ n = m /\ Exists(n) /\ spaces'[n] = [spaces[n] EXCEPT !.bindings = @ \ Dependents(n)]
      BY <1>5 DEF Collect, TypeOK, SpacesTyped
    <3>2. Exists(n) /\ spaces[n] \in Space
      BY <2>1, <3>1 DEF TypeOK, SpacesTyped, Exists
    <3>3. \A b \in Dependents(n) : b.owner \notin accounts
      BY DEF Dependents
    <3>4. {"uid", "owner", "initializing", "terminating", "moved", "fate", "insts", "deployed", "bindings"}
            = DOMAIN spaces[n]
      BY <3>2, Fields
    <3>5. /\ spaces'[n].uid = spaces[n].uid /\ spaces'[n].owner = spaces[n].owner
          /\ spaces'[n].initializing = spaces[n].initializing
          /\ spaces'[n].terminating = spaces[n].terminating
          /\ spaces'[n].moved = spaces[n].moved /\ spaces'[n].fate = spaces[n].fate
          /\ spaces'[n].insts = spaces[n].insts /\ spaces'[n].deployed = spaces[n].deployed
      BY <3>1, <3>4
    <3>6. spaces'[n].bindings \in {spaces[n].bindings, spaces[n].bindings \ Dependents(n)}
      BY <3>1, <3>4
    <3>7. \A b \in spaces[n].bindings : b.owner \in accounts' => b \in spaces'[n].bindings
      BY <3>1, <3>3, <3>6
    <3> QED BY <3>2, <3>5, <3>6, <3>7 DEF Evolves
  <2>2. Recorded'
    BY <2>1, RecordedKept DEF Evolves
  <2> QED BY <1>2, <2>1, <2>2
<1>6. ASSUME NEW m \in Names, Exists(m), NEW x \in spaces[m].insts, NEW status \in InstStatus, DecideInstance(m, x, status)
      PROVE  SpaceInv'
  <2>1. ASSUME NEW n \in Names, Exists(n)'
        PROVE  /\ Evolves(n) /\ spaces'[n].fate = spaces[n].fate
               /\ spaces'[n].bindings = spaces[n].bindings
               /\ \A y \in spaces'[n].insts :
                    y \in spaces[n].insts \/ (y.status = "Deployed" => y.name \in spaces'[n].deployed)
    <3> DEFINE insts == (spaces[n].insts \ {x}) \cup {[x EXCEPT !.status = status]}
               deployed == IF status = "Deployed" THEN spaces[n].deployed \cup {x.name} ELSE spaces[n].deployed
    <3>1. CASE n = m
      <4>1. spaces[n] \in Space /\ x \in [name : InstName, status : InstStatus]
        BY <1>6, <3>1 DEF TypeOK, SpacesTyped, Space
      <4>2. spaces'[n] = [spaces[n] EXCEPT !.insts = insts, !.deployed = deployed]
        BY <1>6, <3>1 DEF DecideInstance, TypeOK, SpacesTyped
      <4>3. /\ spaces[n].deployed \subseteq deployed
            /\ \A y \in insts : y \in spaces[n].insts \/ (y.status = "Deployed" => y.name \in deployed)
        BY <4>1
      <4> HIDE DEF insts, deployed
      <4>4. accounts' = accounts
        BY <1>6 DEF DecideInstance
      <4> QED BY <1>6, <3>1, <4>1, <4>2, <4>3, <4>4 DEF Evolves, Space
    <3>2. CASE n # m
      <4>1. spaces'[n] = spaces[n]
        BY <1>6, <3>2 DEF DecideInstance, TypeOK, SpacesTyped
      <4> QED BY <2>1, <4>1 DEF Evolves, Exists
    <3> QED BY <3>1, <3>2
  <2>2. Recorded'
    BY <2>1 DEF Recorded, Evolves
  <2> QED BY <1>2, <2>1, <2>2
<1> QED BY <1>3, <1>4, <1>5, <1>6 DEF Environment

\* Together: SpaceInv is an inductive invariant.
LEMMA SpaceInvariant == Spec => [](TypeOK /\ SpaceInv)
<1>1. Init => TypeOK /\ SpaceInv
  <2> SUFFICES ASSUME Init PROVE TypeOK /\ SpaceInv
    OBVIOUS
  <2>1. TypeOK
    BY InitTypes, SpaceAssumption
  <2>2. \A n \in Names : ~Exists(n)
    BY DEF Init, Exists
  <2>3. \A c \in Clients : pc[c] = "idle" /\ uid[c] = 0 /\ made[c] = <<>>
    BY DEF Init
  <2> QED BY <2>1, <2>2, <2>3
          DEF SpaceInv, Identity, MadeFor, Recorded, Progress, SuccessBound, NoneForgotten, AccessAfterTemplates,
              Mine, Active, Working
<1>2. TypeOK /\ SpaceInv /\ [Next]_vars => (TypeOK /\ SpaceInv)'
  <2> SUFFICES ASSUME TypeOK, SpaceInv, [Next]_vars PROVE (TypeOK /\ SpaceInv)'
    OBVIOUS
  <2>1. TypeOK'
    BY NextTypes, SpaceAssumption
  <2>2. CASE UNCHANGED vars
    <3>1. RequestsGoOn /\ MadeFor' /\ UNCHANGED <<spaces, accounts>>
      BY <2>2, IdleGoOn DEF SpaceInv, vars, clientVars
    <3> QED BY <2>1, <3>1, SameSpaces, OldKeeps DEF SpaceInv
  <2> QED BY <2>1, <2>2, SpaceAssumption, StartKeepsAll, StepKeepsAll, EndKeepsAll, EnvironmentKeepsAll DEF Next
<1> QED BY <1>1, <1>2, PTL DEF Spec

-----------------------------------------------------------------------------
(* The limit.                                                              *)

\* What every step is shown to do: the body of LimitHolds.
LimitStep ==
  \A a \in Accounts : Limit[a] # NoLimit /\ Claims(a)' > Claims(a) =>
    Claims(a)' <= Limit[a] + Cardinality(Clients) - 1 \/ GivenTo(a)

\* Both parts of what is claimed are finite.
LEMMA ClaimsFinite ==
  ASSUME SpaceAssumption, NEW a
  PROVE  /\ IsFiniteSet(Owned(a)) /\ IsFiniteSet(Asking(a)) /\ IsFiniteSet(Clients)
         /\ IsFiniteSet(Owned(a)') /\ IsFiniteSet(Asking(a)')
         /\ Cardinality(Owned(a)) \in Nat /\ Cardinality(Asking(a)) \in Nat
         /\ Cardinality(Owned(a)') \in Nat /\ Cardinality(Asking(a)') \in Nat
         /\ Cardinality(Clients) \in Nat
<1>1. IsFiniteSet(Names) /\ IsFiniteSet(Clients)
  BY DEF SpaceAssumption
<1>2. /\ Owned(a) \in SUBSET Names /\ Owned(a)' \in SUBSET Names
      /\ Asking(a) \in SUBSET Clients /\ Asking(a)' \in SUBSET Clients
  BY DEF Owned, Asking
<1>3. /\ IsFiniteSet(Owned(a)) /\ IsFiniteSet(Asking(a))
      /\ IsFiniteSet(Owned(a)') /\ IsFiniteSet(Asking(a)')
  BY <1>1, <1>2, FS_Subset
<1> QED BY <1>1, <1>3, FS_CardinalityType

\* A step that adds neither a space nor a request adds no claim.
LEMMA NoMoreClaims ==
  ASSUME SpaceAssumption, NEW a, Owned(a)' \subseteq Owned(a), Asking(a)' \subseteq Asking(a)
  PROVE  ~(Claims(a)' > Claims(a))
<1>1. /\ Cardinality(Owned(a)') <= Cardinality(Owned(a))
      /\ Cardinality(Asking(a)') <= Cardinality(Asking(a))
  BY ClaimsFinite, FS_Subset
<1> QED BY <1>1, ClaimsFinite DEF Claims

\* What most steps do to the namespaces, and to the requests.
KeepsOwners ==
  \A n \in Names : Exists(n)' => Exists(n) /\ spaces'[n].owner = spaces[n].owner

AddsNoRequest ==
  \A c \in Clients : pc'[c] = "create" /\ req'[c].account \in Accounts /\ Limit[req'[c].account] # NoLimit =>
    pc[c] = "create" /\ req'[c] = req[c]

LEMMA KeepsClaims ==
  ASSUME SpaceAssumption, KeepsOwners, AddsNoRequest
  PROVE  LimitStep
<1> SUFFICES ASSUME NEW a \in Accounts, Limit[a] # NoLimit
             PROVE  ~(Claims(a)' > Claims(a))
  BY DEF LimitStep
<1>1. Owned(a)' \subseteq Owned(a)
  BY DEF KeepsOwners, Owned
<1>2. Asking(a)' \subseteq Asking(a)
  BY DEF AddsNoRequest, Asking
<1> QED BY <1>1, <1>2, NoMoreClaims

\* Recording how a creation went leaves owners alone,
LEMMA SettledOwners ==
  ASSUME TypeOK, NEW c, NEW result, spaces' = Settled(spaces, c, result)
  PROVE  KeepsOwners
BY DEF TypeOK, SpacesTyped, Space, KeepsOwners, Settled, Exists

\* and so does a change of anything else of a namespace.
LEMMA ChangeOwners ==
  ASSUME TypeOK, NEW m, NEW s, spaces' = [spaces EXCEPT ![m] = s],
         m \in Names => Exists(m) /\ s.owner = spaces[m].owner
  PROVE  KeepsOwners
<1> SUFFICES ASSUME NEW n \in Names, Exists(n)'
             PROVE  Exists(n) /\ spaces'[n].owner = spaces[n].owner
  BY DEF KeepsOwners
<1>1. spaces'[n] = spaces[n] \/ (n = m /\ spaces'[n] = s)
  BY DEF TypeOK, SpacesTyped
<1> QED BY <1>1 DEF Exists

\* A request that ends is not among those that have counted,
LEMMA ReturnAddsNone ==
  ASSUME TypeOK, NEW c \in Clients, Return(c)
  PROVE  AddsNoRequest
BY DEF TypeOK, RequestsTyped, AddsNoRequest, Return, Goto

\* nor is one that goes on from there.
LEMMA GotoAddsNone ==
  ASSUME TypeOK, NEW c \in Clients, NEW label, Goto(c, label), label # "create", UNCHANGED req
  PROVE  AddsNoRequest
BY DEF TypeOK, RequestsTyped, AddsNoRequest, Goto

\* A request is counted when its account is below the limit, with all the
\* spaces that the account owns.
LEMMA CountTakesOne ==
  ASSUME SpaceAssumption, TypeOK, NEW c \in Clients, CountSpaces(c)
  PROVE  LimitStep
<1>0. KeepsOwners
  BY DEF CountSpaces, KeepsOwners, Exists
<1>1. CASE Return(c)
  BY <1>0, <1>1, ReturnAddsNone, KeepsClaims
<1>2. CASE ~AtLimit(req[c].account) /\ Goto(c, "create") /\ UNCHANGED <<req, uid, made>>
  <2> SUFFICES ASSUME NEW a \in Accounts, Limit[a] # NoLimit
               PROVE  Claims(a)' > Claims(a) => Claims(a)' <= Limit[a] + Cardinality(Clients) - 1
    BY DEF LimitStep
  <2>1. Owned(a)' = Owned(a) /\ Limit[a] \in Nat
    BY SpaceAssumption DEF CountSpaces, Owned, Exists, SpaceAssumption
  <2>2. CASE req[c].account = a
    <3>1. Cardinality(Owned(a)) < Limit[a]
      BY <1>2, <2>1, <2>2, ClaimsFinite DEF AtLimit
    <3>2. Cardinality(Asking(a)') <= Cardinality(Clients)
      <4>1. Asking(a)' \in SUBSET Clients
        BY DEF Asking
      <4> QED BY <4>1, ClaimsFinite, FS_Subset
    <3> QED BY <2>1, <3>1, <3>2, ClaimsFinite DEF Claims
  <2>3. CASE req[c].account # a
    <3>1. Asking(a)' = Asking(a)
      BY <1>2, <2>3 DEF Asking, Goto, TypeOK, RequestsTyped
    <3> QED BY <2>1, <3>1, NoMoreClaims
  <2> QED BY <2>2, <2>3
<1> QED BY <1>1, <1>2 DEF CountSpaces

\* A claim becomes a space.
LEMMA CreateTakesNone ==
  ASSUME SpaceAssumption, TypeOK, NEW c \in Clients, NEW fate,
         pc[c] = "create", ~Exists(SpaceOf(c)),
         spaces' = [spaces EXCEPT ![SpaceOf(c)] = NewSpace(c, fate)],
         pc'[c] # "create", \A d \in Clients \ {c} : pc'[d] = pc[d] /\ req'[d] = req[d]
  PROVE  LimitStep
<1> SUFFICES ASSUME NEW a \in Accounts, Limit[a] # NoLimit
             PROVE  ~(Claims(a)' > Claims(a))
  BY DEF LimitStep
<1>1. Asking(a)' = Asking(a) \ {c}
  BY DEF Asking
<1>2. CASE req[c].account = a
  <2>1. Owned(a)' \in SUBSET (Owned(a) \cup {SpaceOf(c)})
    BY DEF TypeOK, SpacesTyped, Owned, Exists
  <2>2. /\ IsFiniteSet(Owned(a) \cup {SpaceOf(c)})
        /\ Cardinality(Owned(a) \cup {SpaceOf(c)}) \in Nat
        /\ Cardinality(Owned(a) \cup {SpaceOf(c)}) <= Cardinality(Owned(a)) + 1
    <3>1. /\ IsFiniteSet(Owned(a) \cup {SpaceOf(c)})
          /\ \/ Cardinality(Owned(a) \cup {SpaceOf(c)}) = Cardinality(Owned(a))
             \/ Cardinality(Owned(a) \cup {SpaceOf(c)}) = Cardinality(Owned(a)) + 1
      BY ClaimsFinite, FS_AddElement
    <3> QED BY <3>1, ClaimsFinite
  <2>3. Cardinality(Owned(a)') <= Cardinality(Owned(a) \cup {SpaceOf(c)})
    BY <2>1, <2>2, FS_Subset
  <2>4. Cardinality(Asking(a)') = Cardinality(Asking(a)) - 1
    <3>1. c \in Asking(a)
      BY <1>2 DEF Asking
    <3>2. IsFiniteSet(Asking(a))
      BY ClaimsFinite
    <3>3. Cardinality(Asking(a) \ {c}) = Cardinality(Asking(a)) - 1
      BY <3>1, <3>2, FS_RemoveElement
    <3> QED BY <1>1, <3>3
  <2> QED BY <2>2, <2>3, <2>4, ClaimsFinite DEF Claims
<1>3. CASE req[c].account # a
  <2>1. Owned(a)' \subseteq Owned(a)
    BY <1>3 DEF TypeOK, SpacesTyped, Owned, Exists, NewSpace
  <2>2. Asking(a)' \subseteq Asking(a)
    BY <1>1
  <2> QED BY <2>1, <2>2, NoMoreClaims
<1> QED BY <1>2, <1>3

\* A change of owner gives a space to its new account and takes it from the old.
LEMMA UpdateGives ==
  ASSUME SpaceAssumption, TypeOK, NEW c \in Clients, NEW m \in Names, NEW b \in Accounts \cup {NoAccount},
         UpdateOwner(c, m, b)
  PROVE  LimitStep
<1> SUFFICES ASSUME NEW a \in Accounts, ~GivenTo(a)
             PROVE  ~(Claims(a)' > Claims(a))
  BY DEF LimitStep
<1>1. Owned(a)' \subseteq Owned(a)
  <2> SUFFICES ASSUME NEW n \in Owned(a)', n \notin Owned(a)
               PROVE  Exists(n)
    BY DEF GivenTo
  <2>1. n \in Names /\ (n = m \/ spaces'[n] = spaces[n])
    BY DEF UpdateOwner, Owned, TypeOK, SpacesTyped
  <2> QED BY <2>1 DEF UpdateOwner, Owned, Exists
<1>2. Asking(a)' = Asking(a)
  BY DEF UpdateOwner, clientVars, Asking
<1> QED BY <1>1, <1>2, NoMoreClaims

\* The steps of a request, from the list of namespaces to its answer.
LEMMA StepLimit ==
  ASSUME SpaceAssumption, TypeOK, NEW c \in Clients, Step(c)
  PROVE  LimitStep
<1>0. \A n \in Names : Exists(n) => spaces[n] \in Space
  BY DEF TypeOK, SpacesTyped
<1>1. ASSUME UNCHANGED spaces, AddsNoRequest
      PROVE  LimitStep
  <2>1. KeepsOwners
    BY <1>1 DEF KeepsOwners, Exists
  <2> QED BY <1>1, <2>1, KeepsClaims
<1>2. CASE CreateNamespace(c)
  <2>1. CASE Return(c) /\ UNCHANGED <<spaces, uids>>
    BY <1>1, <2>1, ReturnAddsNone
  <2>2. CASE /\ ~Exists(SpaceOf(c))
             /\ \E fate \in {"creating", "ok", "left"} :
                  spaces' = [spaces EXCEPT ![SpaceOf(c)] = NewSpace(c, fate)]
             /\ (Goto(c, "instances") /\ UNCHANGED req) \/ Return(c)
    <3>1. /\ pc'[c] # "create"
          /\ \A d \in Clients \ {c} : pc'[d] = pc[d] /\ req'[d] = req[d]
      BY <2>2 DEF TypeOK, RequestsTyped, Goto, Return
    <3>2. pc[c] = "create"
      BY <1>2 DEF CreateNamespace
    <3> QED BY <2>2, <3>1, <3>2, CreateTakesNone
  <2> QED BY <1>2, <2>1, <2>2 DEF CreateNamespace
<1>3. CASE CreateInstance(c)
  <2>1. AddsNoRequest
    BY <1>3, GotoAddsNone DEF CreateInstance, AddsNoRequest
  <2>2. ASSUME NEW i, Active(SpaceOf(c)), AddInstance(SpaceOf(c), i)
        PROVE  KeepsOwners
    <3> DEFINE m == SpaceOf(c)
               s == [spaces[m] EXCEPT !.insts = @ \cup {[name |-> i, status |-> "Pending"]}]
    <3>1. Exists(m) /\ spaces' = [spaces EXCEPT ![m] = s]
      BY <2>2 DEF AddInstance, Active
    <3>2. m \in Names => s.owner = spaces[m].owner
      BY <1>0, <3>1 DEF Space
    <3> HIDE DEF m, s
    <3> QED BY <3>1, <3>2, ChangeOwners
  <2> QED BY <1>1, <1>3, <2>1, <2>2, KeepsClaims DEF CreateInstance
<1>4. CASE Poll(c) \/ PollTimeout(c)
  BY <1>1, <1>4, GotoAddsNone DEF Poll, PollTimeout
<1>5. CASE CreateRoleBinding(c)
  <2>1. AddsNoRequest
    BY <1>5, GotoAddsNone DEF CreateRoleBinding
  <2>2. ASSUME Active(SpaceOf(c)),
               spaces' = [spaces EXCEPT ![SpaceOf(c)].bindings = @ \cup {NewBinding(c)}]
        PROVE  KeepsOwners
    <3> DEFINE m == SpaceOf(c)
               s == [spaces[m] EXCEPT !.bindings = @ \cup {NewBinding(c)}]
    <3>1. Exists(m) /\ spaces' = [spaces EXCEPT ![m] = s]
      BY <2>2 DEF Active
    <3>2. m \in Names => s.owner = spaces[m].owner
      BY <1>0, <3>1 DEF Space
    <3> HIDE DEF m, s
    <3> QED BY <3>1, <3>2, ChangeOwners
  <2> QED BY <1>1, <1>5, <2>1, <2>2, KeepsClaims DEF CreateRoleBinding
<1>6. CASE PatchNamespace(c)
  <2>1. AddsNoRequest
    BY <1>6, GotoAddsNone DEF PatchNamespace
  <2>2. ASSUME Exists(SpaceOf(c)), spaces' = [spaces EXCEPT ![SpaceOf(c)].initializing = FALSE]
        PROVE  KeepsOwners
    <3> DEFINE m == SpaceOf(c)
               s == [spaces[m] EXCEPT !.initializing = FALSE]
    <3>1. Exists(m) /\ spaces' = [spaces EXCEPT ![m] = s]
      BY <2>2
    <3>2. m \in Names => s.owner = spaces[m].owner
      BY <1>0, <3>1 DEF Space
    <3> HIDE DEF m, s
    <3> QED BY <3>1, <3>2, ChangeOwners
  <2> QED BY <1>1, <1>6, <2>1, <2>2, KeepsClaims DEF PatchNamespace
<1>7. CASE WaitForAccess(c)
  BY <1>7, SettledOwners, ReturnAddsNone, KeepsClaims DEF WaitForAccess
<1>8. CASE Rollback(c) \/ Delete(c)
  <2>1. AddsNoRequest
    BY <1>8, ReturnAddsNone DEF Rollback, Delete
  <2>2. ASSUME spaces' = Settled(Terminated(SpaceOf(c)), c, "failed") \/ spaces' = Terminated(SpaceOf(c))
        PROVE  KeepsOwners
    <3> SUFFICES ASSUME NEW n \in Names, Exists(n)'
                 PROVE  Exists(n) /\ spaces'[n].owner = spaces[n].owner
      BY DEF KeepsOwners
    <3> DEFINE now == Terminated(SpaceOf(c))[n]
    <3>1. now \in {spaces[n], [spaces[n] EXCEPT !.terminating = TRUE]} /\ (now = spaces[n] \/ Exists(n))
      BY DEF Terminated, TypeOK, SpacesTyped
    <3>2. spaces'[n] = now \/ (now # Gone /\ spaces'[n] = [now EXCEPT !.fate = "failed"])
      BY <2>2 DEF Settled
    <3>3. Exists(n) /\ {"owner", "fate"} \subseteq DOMAIN spaces[n]
      BY <1>0, <3>1, <3>2 DEF Exists, Space
    <3>4. now.owner = spaces[n].owner /\ DOMAIN now = DOMAIN spaces[n]
      BY <3>1, <3>3
    <3> HIDE DEF now
    <3> QED BY <3>2, <3>3, <3>4
  <2> QED BY <1>1, <1>8, <2>1, <2>2, SettledOwners, KeepsClaims DEF Rollback, Delete
<1> QED
  BY <1>2, <1>3, <1>4, <1>5, <1>6, <1>7, <1>8, CountTakesOne DEF Step

\* All steps: new requests, crashes and the other actors as well.
LEMMA NextLimit ==
  ASSUME SpaceAssumption, TypeOK, [Next]_vars
  PROVE  LimitStep
<1>0. \A n \in Names : Exists(n) => spaces[n] \in Space
  BY DEF TypeOK, SpacesTyped
<1>1. ASSUME UNCHANGED spaces, AddsNoRequest
      PROVE  LimitStep
  <2>1. KeepsOwners
    BY <1>1 DEF KeepsOwners, Exists
  <2> QED BY <1>1, <2>1, KeepsClaims
<1>2. ASSUME NEW c \in Clients, NEW n \in Names, NEW a \in Accounts \cup {NoAccount}, CreateStart(c, n, a)
      PROVE  LimitStep
  <2>1. AddsNoRequest
    BY <1>2, SpaceAssumption DEF CreateStart, AddsNoRequest, Goto, TypeOK, RequestsTyped, SpaceAssumption
  <2> QED BY <1>1, <1>2, <2>1 DEF CreateStart
<1>3. ASSUME NEW c \in Clients, NEW n \in Names, DeleteStart(c, n)
      PROVE  LimitStep
  <2>1. AddsNoRequest
    BY <1>3 DEF DeleteStart, AddsNoRequest, Goto, TypeOK, RequestsTyped
  <2> QED BY <1>1, <1>3, <2>1 DEF DeleteStart
<1>4. ASSUME NEW c \in Clients, Crash(c)
      PROVE  LimitStep
  BY <1>4, SettledOwners, ReturnAddsNone, KeepsClaims DEF Crash
<1>5. CASE Environment
  <2>1. AddsNoRequest
    BY <1>5 DEF Environment, DeleteAccount, Finalize, Collect, DecideInstance, clientVars, AddsNoRequest
  <2>2. ASSUME NEW m \in Names, Finalize(m)
        PROVE  KeepsOwners
    BY <2>2 DEF Finalize, KeepsOwners, TypeOK, SpacesTyped, Exists
  <2>3. ASSUME NEW m \in Names, Collect(m)
        PROVE  KeepsOwners
    <3> DEFINE s == [spaces[m] EXCEPT !.bindings = @ \ Dependents(m)]
    <3>1. Exists(m) /\ spaces' = [spaces EXCEPT ![m] = s]
      BY <2>3 DEF Collect
    <3>2. s.owner = spaces[m].owner
      BY <1>0, <3>1 DEF Space
    <3> HIDE DEF s
    <3> QED BY <3>1, <3>2, ChangeOwners
  <2>4. ASSUME NEW m \in Names, NEW x, NEW status, DecideInstance(m, x, status)
        PROVE  KeepsOwners
    <3> DEFINE s == [spaces[m] EXCEPT
                       !.insts = (@ \ {x}) \cup {[x EXCEPT !.status = status]},
                       !.deployed = IF status = "Deployed" THEN @ \cup {x.name} ELSE @]
    <3>1. Exists(m) /\ spaces' = [spaces EXCEPT ![m] = s]
      BY <2>4 DEF DecideInstance
    <3>2. s.owner = spaces[m].owner
      BY <1>0, <3>1 DEF Space
    <3> HIDE DEF s
    <3> QED BY <3>1, <3>2, ChangeOwners
  <2> QED BY <1>1, <1>5, <2>1, <2>2, <2>3, <2>4, KeepsClaims DEF Environment, DeleteAccount
<1>6. CASE UNCHANGED vars
  BY <1>1, <1>6 DEF vars, AddsNoRequest
<1> QED
  BY <1>2, <1>3, <1>4, <1>5, <1>6, UpdateGives, StepLimit DEF Next, Start

\* Create's check of the limit, for any number of names, accounts, clients,
\* creations, failures, crashes and changes of owner: only a change of owner
\* takes the spaces that a limited account owns, with those about to be created
\* for it, past its limit and one for each other request in progress.
THEOREM LimitKept == Spec => LimitHolds
<1>1. TypeOK /\ [Next]_vars => [LimitStep]_vars
  BY NextLimit, SpaceAssumption
<1>2. LimitHolds <=> [][LimitStep]_vars
  BY DEF LimitHolds, LimitStep
<1> QED BY <1>1, <1>2, SpaceInvariant, PTL DEF Spec

\* Every variable of the storage of spaces keeps its type, whatever requests
\* and crashes there are; a request that has created a namespace has its uid.
THEOREM SpacesTypeCorrect == Spec => []TypeOK
BY SpaceInvariant, PTL

\* initializeSpace, however often the namespace is deleted and created again
\* under the same name: a role binding that a request has put into its own
\* namespace is there only after every template instance of the account was
\* seen deployed in it.
THEOREM AccessComesLast == Spec => []AccessAfterTemplates
<1>1. SpaceInv => AccessAfterTemplates
  BY DEF SpaceInv
<1> QED BY <1>1, SpaceInvariant, PTL

\* Create answers with success only for a space that is set up, and nothing but
\* its deletion, a change of its owner or the end of its account undoes it.
THEOREM SuccessStaysReady == Spec => []SuccessIsReady
<1>1. SpaceInv => SuccessIsReady
  BY DEF SpaceInv, SuccessBound, NoneForgotten, SuccessIsReady, Bound
<1> QED BY <1>1, SpaceInvariant, PTL

\* No error path of Create leaves an initializing namespace behind, except when
\* its process ends or the deletion itself fails.
THEOREM NobodyForgotten == Spec => []NoneForgotten
<1>1. SpaceInv => NoneForgotten
  BY DEF SpaceInv
<1> QED BY <1>1, SpaceInvariant, PTL

=============================================================================
