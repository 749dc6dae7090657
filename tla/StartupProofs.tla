---------------------------- MODULE StartupProofs ----------------------------
(***************************************************************************)
(* For any number of replicas, certificates, definitions and faults: the   *)
(* replicas that have settled on a certificate have the one in the secret  *)
(* (OneCertificate), and none serves before the definitions are            *)
(* established (ServesEstablished).                                        *)
(*                                                                         *)
(* Neither is inductive.  A settled secret survives because it is valid,   *)
(* so that only a Delete meant for another can hit it: SettledValid says   *)
(* so, and that what is about to be created is a certificate.  The         *)
(* definitions a replica has ticked off while it waits must be established *)
(* already: WaitedFor.                                                     *)
(***************************************************************************)
EXTENDS Startup, TLAPS

\* What a replica is about to create, or has settled on, is a certificate.
SettledValid ==
  \A r \in Replicas :
    /\ pc[r] = "create" => files[r][kind[r]] \in Certs
    /\ \A k \in Kinds : Settled(r, k) => files[r][k] \in Certs

\* A definition a replica no longer waits for is established.
WaitedFor ==
  \A r \in Replicas : pc[r] = "waitCrd" => Crds \ todo[r] \subseteq Established

-----------------------------------------------------------------------------
(* Types.                                                                  *)

\* The values that Exit resets are of their types.
LEMMA ExitTypes ==
  ASSUME TypeOK, NEW r \in Replicas, Exit(r)
  PROVE  /\ pc' \in [Replicas -> {"down", "get", "delete", "generate", "create", "list",
                                  "createCrd", "waitCrd", "run"}]
         /\ files' \in [Replicas -> [Kinds -> Certs \cup {NoCert}]]
         /\ lead' \in [Replicas -> {"follow", "read", "write", "done"}]
         /\ regKind' \in [Replicas -> Kinds] /\ kind' \in [Replicas -> Kinds]
         /\ seen' \in [Replicas -> Nat]
         /\ todo' \in [Replicas -> SUBSET Crds] /\ ready' \in [Replicas -> SUBSET Crds]
BY DEF TypeOK, Exit, Kinds

\* So are those that NextKind sets.
LEMMA NextKindTypes ==
  ASSUME TypeOK, NEW r \in Replicas, NextKind(r)
  PROVE  /\ pc' \in [Replicas -> {"down", "get", "delete", "generate", "create", "list",
                                  "createCrd", "waitCrd", "run"}]
         /\ kind' \in [Replicas -> Kinds]
<1>1. kind[r] = LastKind \/ kind[r] + 1 \in Kinds
  BY DEF TypeOK, Kinds, LastKind
<1> QED BY <1>1 DEF TypeOK, NextKind

\* A certificate that is generated is one of Certs.
LEMMA NewCertIsCert ==
  ASSUME Certs \ Held # {}
  PROVE  NewCert \in Certs
BY DEF NewCert

\* The initial state is well typed.
LEMMA InitTypes == Init => TypeOK
<1> SUFFICES ASSUME Init PROVE TypeOK
  OBVIOUS
<1>1. secret \in [Kinds -> Certs \cup {Absent, Invalid}]
  BY SecretsStart DEF Init
<1>2. reg \in [Kinds -> [ver : Nat, ca : Certs \cup {NoCert}]]
  BY DEF Init
<1>3. faults \in 0..MaxFaults
  BY FaultsBounded DEF Init
<1>4. 1 \in Kinds
  BY DEF Kinds
<1> QED BY <1>1, <1>2, <1>3, <1>4 DEF Init, TypeOK

\* The steps of ensureSecret keep the types,
LEMMA SecretStepTypes ==
  ASSUME TypeOK, SettledValid, NEW r \in Replicas,
         Start(r) \/ GetSecret(r) \/ DeleteSecret(r) \/ GenerateCertificate(r) \/ CreateSecret(r)
  PROVE  TypeOK'
<1>1. CASE Start(r)
  BY <1>1 DEF TypeOK, Start, crdVars, leadVars, Kinds
<1>2. CASE GetSecret(r)
  <2>1. CASE secret[kind[r]] \in Certs /\ files' = [files EXCEPT ![r][kind[r]] = secret[kind[r]]] /\ NextKind(r)
    BY <1>2, <2>1, NextKindTypes DEF TypeOK, GetSecret, crdVars, leadVars
  <2>2. CASE pc' = [pc EXCEPT ![r] = "generate"] /\ UNCHANGED <<files, kind>>
    BY <1>2, <2>2 DEF TypeOK, GetSecret, crdVars, leadVars
  <2>3. CASE pc' = [pc EXCEPT ![r] = "delete"] /\ UNCHANGED <<files, kind>>
    BY <1>2, <2>3 DEF TypeOK, GetSecret, crdVars, leadVars
  <2> QED BY <1>2, <2>1, <2>2, <2>3 DEF GetSecret
<1>3. CASE DeleteSecret(r)
  <2>1. CASE Exit(r) /\ UNCHANGED <<secret, stolen, crd, reg, lease>>
    BY <1>3, <2>1, ExitTypes DEF TypeOK, DeleteSecret
  <2>2. CASE /\ secret' = [secret EXCEPT ![kind[r]] = Absent]
             /\ stolen' = (stolen \/ secret[kind[r]] # Invalid)
             /\ pc' = [pc EXCEPT ![r] = "generate"]
             /\ UNCHANGED <<files, kind, crdVars, leadVars>>
    BY <1>3, <2>2 DEF TypeOK, DeleteSecret, crdVars, leadVars
  <2> QED BY <1>3, <2>1, <2>2 DEF DeleteSecret
<1>4. CASE GenerateCertificate(r)
  <2>1. files' \in [Replicas -> [Kinds -> Certs \cup {NoCert}]]
    <3>1. CASE UNCHANGED files
      BY <3>1 DEF TypeOK
    <3>2. CASE NewCert \in Certs /\ files' = [files EXCEPT ![r][kind[r]] = NewCert]
      BY <3>2 DEF TypeOK
    <3> QED BY <1>4, <3>1, <3>2, NewCertIsCert DEF GenerateCertificate
  <2>2. pc' = [pc EXCEPT ![r] = "create"] /\ UNCHANGED <<secret, kind, stolen, crdVars, leadVars, faults>>
    BY <1>4 DEF GenerateCertificate
  <2> QED BY <2>1, <2>2 DEF TypeOK, crdVars, leadVars
<1>5. CASE CreateSecret(r)
  <2>1. CASE files[r][kind[r]] \in Certs /\ secret' = [secret EXCEPT ![kind[r]] = files[r][kind[r]]] /\ NextKind(r)
    BY <1>5, <2>1, NextKindTypes DEF TypeOK, CreateSecret, crdVars, leadVars
  <2>2. CASE pc' = [pc EXCEPT ![r] = "get"] /\ UNCHANGED <<secret, kind>>
    BY <1>5, <2>2 DEF TypeOK, CreateSecret, crdVars, leadVars
  <2> QED BY <1>5, <2>1, <2>2 DEF CreateSecret, SettledValid
<1> QED BY <1>1, <1>2, <1>3, <1>4, <1>5

\* those of CreateCRDs,
LEMMA CrdStepTypes ==
  ASSUME TypeOK, NEW r \in Replicas,
         ListCrds(r) \/ CreateCrd(r) \/ RelistCrds(r) \/ WaitCrd(r) \/ WaitCrdTimeout(r) \/ Serve(r)
  PROVE  TypeOK'
<1> USE DEF secretVars, leadVars
<1>1. CASE ListCrds(r)
  BY <1>1 DEF TypeOK, ListCrds, Established
<1>2. CASE CreateCrd(r)
  BY <1>2 DEF TypeOK, CreateCrd
<1>3. CASE RelistCrds(r)
  BY <1>3 DEF TypeOK, RelistCrds, Established
<1>4. CASE WaitCrd(r)
  BY <1>4 DEF TypeOK, WaitCrd
<1>5. CASE WaitCrdTimeout(r)
  <2>1. faults' \in 0..MaxFaults
    BY <1>5, FaultsBounded DEF TypeOK, WaitCrdTimeout
  <2> QED BY <1>5, <2>1, ExitTypes DEF TypeOK, WaitCrdTimeout
<1>6. CASE Serve(r)
  BY <1>6 DEF TypeOK, Serve, crdVars
<1> QED BY <1>1, <1>2, <1>3, <1>4, <1>5, <1>6

\* those of the leader,
LEMMA LeaderStepTypes ==
  ASSUME TypeOK, NEW r \in Replicas, Leader(r)
  PROVE  TypeOK'
<1> USE DEF secretVars, crdVars
<1>1. CASE AcquireLease(r)
  BY <1>1 DEF TypeOK, AcquireLease
<1>2. CASE StopLeading(r)
  BY <1>2, ExitTypes DEF TypeOK, StopLeading
<1>3. CASE ReadRegistration(r)
  <2>1. reg[regKind[r]].ver \in Nat
    BY DEF TypeOK
  <2>2. seen' \in [Replicas -> Nat]
    <3>1. \E ver \in Nat : seen' = [seen EXCEPT ![r] = ver]
      BY <1>3, <2>1 DEF ReadRegistration
    <3> QED BY <3>1 DEF TypeOK
  <2>3. faults' \in 0..MaxFaults
    BY <1>3, FaultsBounded DEF TypeOK, ReadRegistration
  <2> QED BY <1>3, <2>2, <2>3 DEF TypeOK, ReadRegistration
<1>4. CASE WriteRegistration(r)
  <2>1. CASE Exit(r) /\ UNCHANGED <<secret, stolen, crd, reg>>
    BY <1>4, <2>1, ExitTypes DEF TypeOK, WriteRegistration
  <2>2. CASE /\ reg' = [reg EXCEPT ![regKind[r]] = [ver |-> reg[regKind[r]].ver + 1, ca |-> files[r][regKind[r]]]]
             /\ NextRegistration(r)
             /\ UNCHANGED <<seen, pc, secretVars, crdVars>>
    <3>1. [ver |-> reg[regKind[r]].ver + 1, ca |-> files[r][regKind[r]]] \in [ver : Nat, ca : Certs \cup {NoCert}]
      BY DEF TypeOK
    <3>2. reg' \in [Kinds -> [ver : Nat, ca : Certs \cup {NoCert}]]
      BY <2>2, <3>1 DEF TypeOK
    <3>3. regKind' \in [Replicas -> Kinds] /\ lead' \in [Replicas -> {"follow", "read", "write", "done"}]
      <4>1. regKind[r] = LastKind \/ regKind[r] + 1 \in Kinds
        BY DEF TypeOK, Kinds, LastKind
      <4>2. NextRegistration(r)
        BY <2>2
      <4>3. CASE regKind' = [regKind EXCEPT ![r] = @ + 1] /\ lead' = [lead EXCEPT ![r] = "read"]
                 /\ regKind[r] # LastKind
        BY <4>1, <4>3 DEF TypeOK
      <4>4. CASE regKind' = regKind /\ lead' = [lead EXCEPT ![r] = "done"]
        BY <4>4 DEF TypeOK
      <4> QED BY <4>2, <4>3, <4>4 DEF NextRegistration
    <3>4. UNCHANGED <<secret, files, kind, stolen, crd, todo, ready, seen, pc, lease, faults>>
      BY <1>4, <2>2 DEF WriteRegistration
    <3> QED BY <3>2, <3>3, <3>4 DEF TypeOK
  <2> QED BY <1>4, <2>1, <2>2 DEF WriteRegistration
<1> QED BY <1>1, <1>2, <1>3, <1>4 DEF Leader

\* and so does every step.
LEMMA NextTypes ==
  ASSUME TypeOK, SettledValid, [Next]_vars
  PROVE  TypeOK'
<1>1. ASSUME NEW r \in Replicas, Main(r)
      PROVE  TypeOK'
  BY <1>1, SecretStepTypes, CrdStepTypes DEF Main
<1>2. ASSUME NEW r \in Replicas, Crash(r)
      PROVE  TypeOK'
  <2>1. faults' \in 0..MaxFaults
    BY <1>2, FaultsBounded DEF TypeOK, Crash
  <2> QED BY <1>2, <2>1, ExitTypes DEF TypeOK, Crash
<1>3. ASSUME NEW c \in Crds, Establish(c)
      PROVE  TypeOK'
  BY <1>3 DEF TypeOK, Establish, secretVars, leadVars
<1>4. CASE LeaseExpires
  <2>1. faults' \in 0..MaxFaults
    BY <1>4, FaultsBounded DEF TypeOK, LeaseExpires
  <2> QED BY <1>4, <2>1 DEF TypeOK, LeaseExpires, secretVars, crdVars
<1>5. CASE UNCHANGED vars
  BY <1>5 DEF TypeOK, vars
<1> QED BY <1>1, <1>2, <1>3, <1>4, <1>5, CrdStepTypes, LeaderStepTypes DEF Next

-----------------------------------------------------------------------------
(* What a step does to the secrets and to the definitions.                 *)

SecretInv == SettledValid /\ OneCertificate
CrdInv == WaitedFor /\ ServesEstablished

\* A replica that ends is settled on nothing and serves nothing; the others
\* are not concerned.
LEMMA ExitKeeps ==
  ASSUME TypeOK, SecretInv, CrdInv, NEW r \in Replicas, Exit(r), UNCHANGED <<secret, stolen, crd>>
  PROVE  SecretInv' /\ CrdInv'
<1>1. pc'[r] = "down" /\ \A k \in Kinds : ~Settled(r, k)'
  BY DEF TypeOK, Exit, Settled
<1>2. ASSUME NEW p \in Replicas, p # r
      PROVE  /\ pc'[p] = pc[p] /\ kind'[p] = kind[p] /\ files'[p] = files[p] /\ todo'[p] = todo[p]
             /\ \A k \in Kinds : Settled(p, k)' = Settled(p, k)
  BY <1>2 DEF TypeOK, Exit, Settled
<1>3. SecretInv'
  BY <1>1, <1>2 DEF SecretInv, SettledValid, OneCertificate
<1>4. CrdInv'
  BY <1>1, <1>2 DEF CrdInv, WaitedFor, ServesEstablished, Established
<1> QED BY <1>3, <1>4

\* A step that leaves the secrets, the folders and where everybody is alone.
LEMMA SameSecrets ==
  ASSUME SecretInv, UNCHANGED <<secretVars, pc>>
  PROVE  SecretInv'
BY DEF SecretInv, SettledValid, OneCertificate, Settled, secretVars

\* A step of CreateCRDs: settled it was and settled it is.
LEMMA CrdStepKeepsSecrets ==
  ASSUME TypeOK, SecretInv, NEW r \in Replicas, UNCHANGED secretVars,
         pc[r] \in {"list", "createCrd", "waitCrd"},
         NEW label \in {"createCrd", "waitCrd", "run"}, pc' = [pc EXCEPT ![r] = label]
  PROVE  SecretInv'
BY DEF TypeOK, SecretInv, SettledValid, OneCertificate, Settled, secretVars

\* A definition that is established stays so.
LEMMA EstablishedStays ==
  ASSUME TypeOK, [Next]_vars
  PROVE  Established \subseteq Established'
<1>1. ASSUME NEW r \in Replicas, CreateCrd(r)
      PROVE  Established \subseteq Established'
  BY <1>1 DEF TypeOK, CreateCrd, Established
<1>2. ASSUME NEW c \in Crds, Establish(c)
      PROVE  Established \subseteq Established'
  BY <1>2 DEF TypeOK, Establish, Established
<1>3. CASE UNCHANGED crd
  BY <1>3 DEF Established
<1> QED BY <1>1, <1>2, <1>3
        DEF Next, Main, Leader, vars, Start, GetSecret, DeleteSecret, GenerateCertificate, CreateSecret,
            ListCrds, RelistCrds, WaitCrd, Serve, Crash, WaitCrdTimeout, LeaseExpires, AcquireLease,
            StopLeading, ReadRegistration, WriteRegistration, crdVars

\* A replica that waits has the same list to wait for or a shorter one.
LEMMA OthersKeepCrds ==
  ASSUME TypeOK, CrdInv, Established \subseteq Established',
         \A r \in Replicas : pc'[r] \in {"waitCrd", "run"} => pc'[r] = pc[r] /\ todo'[r] = todo[r]
  PROVE  CrdInv'
<1>1. Established' \subseteq Crds
  BY DEF Established
<1> QED BY <1>1 DEF CrdInv, WaitedFor, ServesEstablished

-----------------------------------------------------------------------------
(* Every step.                                                             *)

\* The steps of ensureSecret.  What they change in a folder or of a secret is
\* of the kind they are about, which its replica has not settled yet.
LEMMA SecretStepKeeps ==
  ASSUME TypeOK, SecretInv, CrdInv, NEW r \in Replicas,
         Start(r) \/ GetSecret(r) \/ DeleteSecret(r) \/ GenerateCertificate(r) \/ CreateSecret(r)
  PROVE  SecretInv'
<1> DEFINE k == kind[r]
<1> USE DEF SecretInv
<1>0. k \in Kinds /\ Kinds = {1, LastKind} /\ (k = 1 \/ k = LastKind) /\ ~(k < k)
  BY DEF TypeOK, Kinds, LastKind
<1>1. CASE Start(r)
  <2>1. \A p \in Replicas, j \in Kinds : Settled(p, j)' => Settled(p, j)
    BY <1>1 DEF TypeOK, Start, Settled, Kinds
  <2>2. \A p \in Replicas : pc'[p] = "create" => pc[p] = "create" /\ kind'[p] = kind[p]
    BY <1>1 DEF TypeOK, Start
  <2> QED BY <1>1, <2>1, <2>2 DEF Start, SettledValid, OneCertificate
\* The next kind, or the definitions, when this one has been settled.
<1>2. ASSUME pc[r] \in {"get", "create"}, NextKind(r)
      PROVE  /\ pc'[r] # "create"
             /\ \A j \in Kinds : Settled(r, j)' => Settled(r, j) \/ j = k
             /\ \A p \in Replicas \ {r} : pc'[p] = pc[p] /\ kind'[p] = kind[p]
  BY <1>2 DEF TypeOK, NextKind, Settled, Kinds, LastKind
<1>3. CASE GetSecret(r)
  <2>1. CASE secret[k] \in Certs /\ files' = [files EXCEPT ![r][k] = secret[k]] /\ NextKind(r)
    <3>1. pc[r] = "get" /\ UNCHANGED <<secret, stolen>>
      BY <1>3 DEF GetSecret
    <3>2. /\ files'[r][k] = secret[k] /\ \A j \in Kinds \ {k} : files'[r][j] = files[r][j]
          /\ \A p \in Replicas \ {r} : files'[p] = files[p]
      BY <1>0, <2>1 DEF TypeOK
    <3>3. \A p \in Replicas \ {r}, j \in Kinds : Settled(p, j)' = Settled(p, j)
      BY <1>2, <2>1, <3>1 DEF Settled
    <3>4. SettledValid'
      BY <1>2, <2>1, <3>1, <3>2, <3>3 DEF SettledValid
    <3>5. OneCertificate'
      BY <1>2, <2>1, <3>1, <3>2, <3>3 DEF OneCertificate
    <3> QED BY <3>4, <3>5
  <2>2. ASSUME NEW label \in {"generate", "delete"}, pc' = [pc EXCEPT ![r] = label], UNCHANGED <<files, kind>>
        PROVE  SecretInv'
    <3>1. \A p \in Replicas, j \in Kinds : Settled(p, j)' = Settled(p, j)
      BY <1>3, <2>2 DEF TypeOK, GetSecret, Settled
    <3>2. \A p \in Replicas : pc'[p] = "create" => pc[p] = "create"
      BY <2>2 DEF TypeOK
    <3> QED BY <1>3, <2>2, <3>1, <3>2 DEF GetSecret, SettledValid, OneCertificate
  <2> QED BY <1>3, <2>1, <2>2 DEF GetSecret
<1>4. CASE DeleteSecret(r)
  <2>1. CASE Exit(r) /\ UNCHANGED <<secret, stolen, crd, reg, lease>>
    BY <2>1, ExitKeeps
  <2>2. CASE /\ secret[k] # Absent
             /\ secret' = [secret EXCEPT ![k] = Absent]
             /\ stolen' = (stolen \/ secret[k] # Invalid)
             /\ pc' = [pc EXCEPT ![r] = "generate"]
             /\ UNCHANGED <<files, kind, crdVars, leadVars>>
    <3>1. \A p \in Replicas, j \in Kinds : Settled(p, j)' = Settled(p, j)
      BY <1>4, <2>2 DEF TypeOK, DeleteSecret, Settled
    <3>2. \A p \in Replicas : pc'[p] = "create" => pc[p] = "create"
      BY <2>2 DEF TypeOK
    <3>3. SettledValid'
      BY <2>2, <3>1, <3>2 DEF SettledValid
    <3>4. ASSUME ~stolen', NEW p \in Replicas, NEW j \in Kinds, Settled(p, j)
          PROVE  files[p][j] = secret'[j]
      <4>1. secret[k] = Invalid /\ files[p][j] = secret[j] /\ files[p][j] \in Certs
        BY <2>2, <3>4 DEF SettledValid, OneCertificate
      <4>2. j # k
        BY <4>1, CertsAreCerts
      <4> QED BY <1>0, <2>2, <4>1, <4>2 DEF TypeOK
    <3>5. OneCertificate'
      BY <2>2, <3>1, <3>4 DEF OneCertificate
    <3> QED BY <3>3, <3>5
  <2> QED BY <1>4, <2>1, <2>2 DEF DeleteSecret
<1>5. CASE GenerateCertificate(r)
  <2>1. pc[r] = "generate" /\ pc' = [pc EXCEPT ![r] = "create"] /\ UNCHANGED <<secret, kind, stolen>>
    BY <1>5 DEF GenerateCertificate
  <2>2. /\ \A p \in Replicas, j \in Kinds : Settled(p, j)' = Settled(p, j)
        /\ \A p \in Replicas \ {r} : pc'[p] = pc[p]
    BY <2>1 DEF TypeOK, Settled
  <2>3. /\ files'[r][k] \in Certs /\ \A j \in Kinds \ {k} : files'[r][j] = files[r][j]
        /\ \A p \in Replicas \ {r} : files'[p] = files[p]
    <3>1. CASE files[r][k] # NoCert /\ UNCHANGED files
      BY <1>0, <3>1 DEF TypeOK
    <3>2. CASE NewCert \in Certs /\ files' = [files EXCEPT ![r][k] = NewCert]
      BY <1>0, <3>2 DEF TypeOK
    <3> QED BY <1>5, <3>1, <3>2, NewCertIsCert DEF GenerateCertificate
  <2>4. ~Settled(r, k)
    BY <1>0, <2>1 DEF Settled
  <2>5. SettledValid'
    BY <2>1, <2>2, <2>3, <2>4 DEF SettledValid
  <2>6. OneCertificate'
    BY <2>1, <2>2, <2>3, <2>4 DEF OneCertificate
  <2> QED BY <2>5, <2>6
<1>6. CASE CreateSecret(r)
  <2>1. pc[r] = "create" /\ UNCHANGED <<files, stolen>> /\ files[r][k] \in Certs
    BY <1>6 DEF CreateSecret, SettledValid
  <2>2. CASE secret[k] = Absent /\ secret' = [secret EXCEPT ![k] = files[r][k]] /\ NextKind(r)
    <3>1. \A p \in Replicas \ {r}, j \in Kinds : Settled(p, j)' = Settled(p, j)
      BY <1>2, <2>1, <2>2 DEF Settled
    <3>2. SettledValid'
      BY <1>2, <2>1, <2>2, <3>1 DEF SettledValid
    <3>3. secret'[k] = files[r][k] /\ \A j \in Kinds \ {k} : secret'[j] = secret[j]
      BY <1>0, <2>2 DEF TypeOK
    <3>4. ASSUME ~stolen, NEW p \in Replicas, NEW j \in Kinds, Settled(p, j)
          PROVE  files[p][j] = secret[j] /\ j # k
      BY <2>2, <3>4, CertsAreCerts DEF SettledValid, OneCertificate
    <3>5. OneCertificate'
      BY <1>2, <2>1, <2>2, <3>1, <3>3, <3>4 DEF OneCertificate
    <3> QED BY <3>2, <3>5
  <2>3. CASE pc' = [pc EXCEPT ![r] = "get"] /\ UNCHANGED <<secret, kind>>
    <3>1. \A p \in Replicas, j \in Kinds : Settled(p, j)' = Settled(p, j)
      BY <2>1, <2>3 DEF TypeOK, Settled
    <3>2. \A p \in Replicas : pc'[p] = "create" => pc[p] = "create"
      BY <2>3 DEF TypeOK
    <3> QED BY <2>1, <2>3, <3>1, <3>2 DEF SettledValid, OneCertificate
  <2> QED BY <1>6, <2>2, <2>3 DEF CreateSecret
<1> QED BY <1>1, <1>3, <1>4, <1>5, <1>6

\* The steps of CreateCRDs: what is crossed off the list is established.
LEMMA CrdStepKeeps ==
  ASSUME TypeOK, SecretInv, CrdInv, NEW r \in Replicas,
         ListCrds(r) \/ CreateCrd(r) \/ RelistCrds(r) \/ WaitCrd(r) \/ Serve(r),
         Established \subseteq Established'
  PROVE  SecretInv' /\ CrdInv'
<1>0. Established \subseteq Crds /\ Established' \subseteq Crds
  BY DEF Established
<1>1. SecretInv'
  <2>1. CASE UNCHANGED <<pc, secretVars>>
    BY <2>1, SameSecrets
  <2>2. CASE /\ pc[r] \in {"list", "createCrd", "waitCrd"} /\ UNCHANGED secretVars
             /\ \E label \in {"createCrd", "waitCrd", "run"} : pc' = [pc EXCEPT ![r] = label]
    BY <2>2, CrdStepKeepsSecrets
  <2> QED BY <2>1, <2>2 DEF ListCrds, CreateCrd, RelistCrds, WaitCrd, Serve
<1>2. CASE ListCrds(r)
  BY <1>0, <1>1, <1>2, OthersKeepCrds DEF TypeOK, ListCrds
<1>3. CASE CreateCrd(r)
  BY <1>0, <1>1, <1>3, OthersKeepCrds DEF TypeOK, CreateCrd
<1>4. CASE RelistCrds(r)
  <2>1. /\ pc'[r] = "waitCrd" /\ todo'[r] = Crds \ Established
        /\ \A p \in Replicas \ {r} : pc'[p] = pc[p] /\ todo'[p] = todo[p]
    BY <1>4 DEF TypeOK, RelistCrds
  <2>2. WaitedFor'
    BY <2>1, <1>0 DEF CrdInv, WaitedFor
  <2>3. ServesEstablished'
    BY <2>1, <1>0 DEF CrdInv, ServesEstablished
  <2> QED BY <1>1, <2>2, <2>3 DEF CrdInv
<1>5. CASE WaitCrd(r)
  <2>1. PICK c \in todo[r] : crd[c] = "established" /\ todo' = [todo EXCEPT ![r] = @ \ {c}]
    BY <1>5 DEF WaitCrd
  <2>2. c \in Established
    BY <2>1 DEF TypeOK, Established
  <2>3. /\ todo'[r] = todo[r] \ {c} /\ \A p \in Replicas \ {r} : todo'[p] = todo[p]
        /\ UNCHANGED pc
    BY <1>5, <2>1 DEF TypeOK, WaitCrd
  <2> QED BY <1>0, <1>1, <2>2, <2>3 DEF CrdInv, WaitedFor, ServesEstablished
<1>6. CASE Serve(r)
  <2>1. /\ pc[r] = "waitCrd" /\ todo[r] = {} /\ pc'[r] = "run" /\ UNCHANGED todo
        /\ \A p \in Replicas \ {r} : pc'[p] = pc[p]
    BY <1>6 DEF TypeOK, Serve, crdVars
  <2> QED BY <1>0, <1>1, <2>1 DEF CrdInv, WaitedFor, ServesEstablished
<1> QED BY <1>2, <1>3, <1>4, <1>5, <1>6

\* All of it is inductive.
LEMMA NextKeepsStart ==
  ASSUME TypeOK, SecretInv, CrdInv, [Next]_vars
  PROVE  SecretInv' /\ CrdInv'
<1>0. Established \subseteq Established'
  BY EstablishedStays
\* The steps that touch neither secrets nor lists.
<1>1. ASSUME UNCHANGED <<secretVars, pc, todo>>
      PROVE  SecretInv' /\ CrdInv'
  BY <1>0, <1>1, SameSecrets, OthersKeepCrds
<1>2. ASSUME NEW r \in Replicas, Start(r) \/ GetSecret(r) \/ GenerateCertificate(r) \/ CreateSecret(r)
      PROVE  SecretInv' /\ CrdInv'
  <2>1. SecretInv'
    BY <1>2, SecretStepKeeps
  <2>2. \A p \in Replicas : pc'[p] \in {"waitCrd", "run"} => pc'[p] = pc[p] /\ todo'[p] = todo[p]
    BY <1>2 DEF TypeOK, Start, GetSecret, GenerateCertificate, CreateSecret, NextKind, crdVars
  <2> QED BY <1>0, <2>1, <2>2, OthersKeepCrds
<1>3. ASSUME NEW r \in Replicas, DeleteSecret(r)
      PROVE  SecretInv' /\ CrdInv'
  <2>1. SecretInv'
    BY <1>3, SecretStepKeeps
  <2>2. CASE Exit(r) /\ UNCHANGED <<secret, stolen, crd>>
    BY <2>2, ExitKeeps
  <2>3. CASE pc' = [pc EXCEPT ![r] = "generate"] /\ UNCHANGED crdVars
    BY <1>0, <2>1, <2>3, OthersKeepCrds DEF TypeOK, crdVars
  <2> QED BY <1>3, <2>2, <2>3 DEF DeleteSecret
<1>4. ASSUME NEW r \in Replicas, Main(r)
      PROVE  SecretInv' /\ CrdInv'
  BY <1>0, <1>2, <1>3, <1>4, CrdStepKeeps DEF Main
<1>5. ASSUME NEW r \in Replicas, Exit(r) /\ UNCHANGED <<secret, stolen, crd>>
      PROVE  SecretInv' /\ CrdInv'
  BY <1>5, ExitKeeps
<1>6. ASSUME NEW r \in Replicas, Leader(r)
      PROVE  SecretInv' /\ CrdInv'
  BY <1>1, <1>5, <1>6
     DEF Leader, AcquireLease, StopLeading, ReadRegistration, WriteRegistration, crdVars
<1>7. ASSUME NEW r \in Replicas, Crash(r) \/ WaitCrdTimeout(r)
      PROVE  SecretInv' /\ CrdInv'
  BY <1>5, <1>7 DEF Crash, WaitCrdTimeout
<1> QED BY <1>1, <1>4, <1>6, <1>7 DEF Next, Establish, LeaseExpires, vars, crdVars, secretVars

\* Nobody has settled on anything in the beginning.
LEMMA InitStart == Init => SecretInv /\ CrdInv
BY DEF Init, SecretInv, SettledValid, OneCertificate, Settled, CrdInv, WaitedFor, ServesEstablished

\* So it holds in every state.
LEMMA StartInvariant == Spec => [](TypeOK /\ SecretInv /\ CrdInv)
<1>1. Init => TypeOK /\ SecretInv /\ CrdInv
  BY InitTypes, InitStart
<1>2. TypeOK /\ SecretInv /\ CrdInv /\ [Next]_vars => (TypeOK /\ SecretInv /\ CrdInv)'
  BY NextTypes, NextKeepsStart DEF SecretInv
<1> QED BY <1>1, <1>2, PTL DEF Spec

\* Every variable keeps its type; that a secret holds a certificate or nothing
\* needs what is about to be created to be one.
THEOREM StartupTyped == Spec => []TypeOK
BY StartInvariant, PTL

\* ensureSecret, for any number of replicas, certificates, crashes and
\* restarts: unless a Delete has hit a secret that was valid, every replica
\* that has gone past a secret serves with the certificate in it.
THEOREM OneCertificateServed == Spec => []OneCertificate
<1>1. SecretInv => OneCertificate
  BY DEF SecretInv
<1> QED BY <1>1, StartInvariant, PTL

\* CreateCRDs and waitCRD, for any set of definitions: a replica that serves
\* has seen every one of them established, and they stay so.
THEOREM EstablishedFirst == Spec => []ServesEstablished
<1>1. CrdInv => ServesEstablished
  BY DEF CrdInv
<1> QED BY <1>1, StartInvariant, PTL

=============================================================================
