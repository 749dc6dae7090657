------------------------------- MODULE Startup -------------------------------
(***************************************************************************)
(* The start of kiosk's replicas: the certificates they share through two  *)
(* secrets (pkg/util/secret), the custom resource definitions they install *)
(* (pkg/store/crd), and the registration of the webhook and of the API     *)
(* service, which only the leader carries out (pkg/leaderelection,         *)
(* pkg/store).  The API server trusts the certificate that is registered;  *)
(* every replica serves with the one in its own folder, so that all must   *)
(* have ended up with the same.  An error anywhere ends the process, and   *)
(* the kubelet starts it again with an empty folder.                       *)
(***************************************************************************)
EXTENDS Naturals, FiniteSets

CONSTANTS
  Replicas,       \* processes of the deployment
  Certs,          \* certificates that can be generated
  Crds,           \* custom resource definitions kiosk needs
  InitialSecrets, \* what a secret may be before the first start
  MaxFaults       \* crashes, stale reads, leases that end under a leader

ASSUME CrdsFinite == IsFiniteSet(Crds)
ASSUME FaultsBounded == MaxFaults \in Nat

\* The two secrets, in the order of EnsureCertSecrets: webhook, API service.
Kinds == 1..2
LastKind == 2
Absent == "absent"
Invalid == "invalid"    \* not of type TLS, or a key is missing
NoCert == "none"
NoReplica == "nobody"

ASSUME SecretsStart == InitialSecrets \subseteq {Absent, Invalid}
ASSUME CertsAreCerts == Certs \cap {Absent, Invalid, NoCert} = {}
ASSUME NobodyIsNoReplica == NoReplica \notin Replicas

VARIABLES
  secret,    \* the two secrets in the API server
  files,     \* the certificate in each replica's two folders
  crd,       \* "absent", "pending" (created) or "established"
  reg,       \* the webhook configuration and the API service: version and CA
  lease,     \* the holder recorded in the election's config map
  pc,        \* where main() of a replica is
  kind,      \* the secret it is ensuring
  todo,      \* definitions it still has to create or to wait for
  ready,     \* what GetReadyCRDs returned to it
  lead,      \* where OnStartedLeading of a replica is
  regKind,   \* what it is registering
  seen,      \* the version it has read for that
  faults,    \* how many faults there have been
  stolen     \* history: a Delete has hit a secret other than the one read

secretVars == <<secret, files, kind, stolen>>
crdVars == <<crd, todo, ready>>
leadVars == <<reg, lease, lead, regKind, seen>>
vars == <<secret, files, crd, reg, lease, pc, kind, todo, ready, lead, regKind,
          seen, faults, stolen>>

TypeOK ==
  /\ secret \in [Kinds -> Certs \cup {Absent, Invalid}]
  /\ files \in [Replicas -> [Kinds -> Certs \cup {NoCert}]]
  /\ crd \in [Crds -> {"absent", "pending", "established"}]
  /\ reg \in [Kinds -> [ver : Nat, ca : Certs \cup {NoCert}]]
  /\ lease \in Replicas \cup {NoReplica}
  /\ pc \in [Replicas -> {"down", "get", "delete", "generate", "create", "list",
                          "createCrd", "waitCrd", "run"}]
  /\ kind \in [Replicas -> Kinds]
  /\ todo \in [Replicas -> SUBSET Crds]
  /\ ready \in [Replicas -> SUBSET Crds]
  /\ lead \in [Replicas -> {"follow", "read", "write", "done"}]
  /\ regKind \in [Replicas -> Kinds]
  /\ seen \in [Replicas -> Nat]
  /\ faults \in 0..MaxFaults
  /\ stolen \in BOOLEAN

\* The webhook configuration and the API service may be there from an earlier
\* installation, with a CA that is no longer in use.
Init ==
  /\ secret \in [Kinds -> InitialSecrets]
  /\ files = [r \in Replicas |-> [k \in Kinds |-> NoCert]]
  /\ crd = [c \in Crds |-> "absent"]
  /\ reg \in [Kinds -> {[ver |-> 0, ca |-> NoCert], [ver |-> 1, ca |-> NoCert]}]
  /\ lease = NoReplica
  /\ pc = [r \in Replicas |-> "down"]
  /\ kind = [r \in Replicas |-> 1]
  /\ todo = [r \in Replicas |-> {}]
  /\ ready = [r \in Replicas |-> {}]
  /\ lead = [r \in Replicas |-> "follow"]
  /\ regKind = [r \in Replicas |-> 1]
  /\ seen = [r \in Replicas |-> 0]
  /\ faults = 0
  /\ stolen = FALSE

-----------------------------------------------------------------------------
(* The process *)

\* A container starts: EnsureCertSecrets creates the namespace (it exists, the
\* container runs in it) and begins with the webhook's secret.
Start(r) ==
  /\ pc[r] = "down"
  /\ pc' = [pc EXCEPT ![r] = "get"]
  /\ kind' = [kind EXCEPT ![r] = 1]
  /\ UNCHANGED <<secret, files, stolen, crdVars, leadVars, faults>>

\* os.Exit, klog.Fatal or a crash: everything the process holds is gone, its
\* files included; the lease stays as it is recorded.
Exit(r) ==
  /\ pc' = [pc EXCEPT ![r] = "down"]
  /\ files' = [files EXCEPT ![r] = [k \in Kinds |-> NoCert]]
  /\ lead' = [lead EXCEPT ![r] = "follow"]
  /\ regKind' = [regKind EXCEPT ![r] = 1]
  /\ seen' = [seen EXCEPT ![r] = 0]
  /\ todo' = [todo EXCEPT ![r] = {}]
  /\ ready' = [ready EXCEPT ![r] = {}]
  /\ kind' = [kind EXCEPT ![r] = 1]

\* A crash at any point, or a call that fails, carried out before or not.
Crash(r) ==
  /\ pc[r] # "down"
  /\ faults < MaxFaults
  /\ faults' = faults + 1
  /\ Exit(r)
  /\ UNCHANGED <<secret, stolen, crd, reg, lease>>

-----------------------------------------------------------------------------
(* ensureSecret *)

\* The secret is settled: go on with the next, or with the definitions.
NextKind(r) ==
  IF kind[r] = LastKind
  THEN /\ pc' = [pc EXCEPT ![r] = "list"]
       /\ UNCHANGED kind
  ELSE /\ pc' = [pc EXCEPT ![r] = "get"]
       /\ kind' = [kind EXCEPT ![r] = kind[r] + 1]

\* client.Get; a valid secret is written to the folder (getDataFromSecret).
GetSecret(r) ==
  LET s == secret[kind[r]] IN
  /\ pc[r] = "get"
  /\ \/ /\ s \in Certs
        /\ files' = [files EXCEPT ![r][kind[r]] = s]
        /\ NextKind(r)
     \/ /\ s = Absent
        /\ pc' = [pc EXCEPT ![r] = "generate"]
        /\ UNCHANGED <<files, kind>>
     \/ /\ s = Invalid
        /\ pc' = [pc EXCEPT ![r] = "delete"]
        /\ UNCHANGED <<files, kind>>
  /\ UNCHANGED <<secret, stolen, crdVars, leadVars, faults>>

\* client.Delete has no precondition: it deletes what now has the name.  A
\* secret that is gone is an error.
DeleteSecret(r) ==
  LET k == kind[r] IN
  /\ pc[r] = "delete"
  /\ \/ /\ secret[k] # Absent
        /\ secret' = [secret EXCEPT ![k] = Absent]
        /\ stolen' = (stolen \/ secret[k] # Invalid)
        /\ pc' = [pc EXCEPT ![r] = "generate"]
        /\ UNCHANGED <<files, kind, crdVars, leadVars>>
     \/ /\ secret[k] = Absent
        /\ Exit(r)
        /\ UNCHANGED <<secret, stolen, crd, reg, lease>>
  /\ UNCHANGED faults

\* A new key differs from all the others that somebody still holds.
Held == {files[r][k] : r \in Replicas, k \in Kinds}
          \cup {secret[k] : k \in Kinds} \cup {reg[k].ca : k \in Kinds}
NewCert == CHOOSE c \in Certs : c \notin Held

\* generateCertificate keeps a key that is already in the folder.  Keys do not
\* run out; that one of Certs is free is a bound of the model.
GenerateCertificate(r) ==
  /\ pc[r] = "generate"
  /\ \/ files[r][kind[r]] # NoCert /\ UNCHANGED files
     \/ /\ files[r][kind[r]] = NoCert
        /\ Certs \ Held # {}
        /\ files' = [files EXCEPT ![r][kind[r]] = NewCert]
  /\ pc' = [pc EXCEPT ![r] = "create"]
  /\ UNCHANGED <<secret, kind, stolen, crdVars, leadVars, faults>>

\* Mutant of CreateSecret: a secret that exists is taken for one's own.
CreateSecretRegardless(r) ==
  /\ pc[r] = "create"
  /\ secret' = [secret EXCEPT ![kind[r]] = IF @ = Absent THEN files[r][kind[r]] ELSE @]
  /\ NextKind(r)
  /\ UNCHANGED <<files, stolen, crdVars, leadVars, faults>>

\* client.Create; if somebody was faster the secret is read again.
CreateSecret(r) ==
  LET k == kind[r] IN
  /\ pc[r] = "create"
  /\ \/ /\ secret[k] = Absent
        /\ secret' = [secret EXCEPT ![k] = files[r][k]]
        /\ NextKind(r)
     \/ /\ secret[k] # Absent
        /\ pc' = [pc EXCEPT ![r] = "get"]
        /\ UNCHANGED <<secret, kind>>
  /\ UNCHANGED <<files, stolen, crdVars, leadVars, faults>>

-----------------------------------------------------------------------------
(* CreateCRDs *)

Established == {c \in Crds : crd[c] = "established"}

ListCrds(r) ==
  /\ pc[r] = "list"
  /\ ready' = [ready EXCEPT ![r] = Established]
  /\ todo' = [todo EXCEPT ![r] = Crds]
  /\ pc' = [pc EXCEPT ![r] = "createCrd"]
  /\ UNCHANGED <<crd, secretVars, leadVars, faults>>

\* createCRD: one that was ready is skipped, one that exists is good enough.
CreateCrd(r) ==
  /\ pc[r] = "createCrd"
  /\ \E c \in todo[r] :
       /\ crd' = IF c \notin ready[r] /\ crd[c] = "absent"
                 THEN [crd EXCEPT ![c] = "pending"] ELSE crd
       /\ todo' = [todo EXCEPT ![r] = @ \ {c}]
  /\ UNCHANGED <<ready, pc, secretVars, leadVars, faults>>

\* Mutant of RelistCrds: a definition that exists counts as ready.
RelistCrdsExisting(r) ==
  /\ pc[r] = "createCrd"
  /\ todo[r] = {}
  /\ ready' = [ready EXCEPT ![r] = {}]
  /\ todo' = [todo EXCEPT ![r] = {c \in Crds : crd[c] = "absent"}]
  /\ pc' = [pc EXCEPT ![r] = "waitCrd"]
  /\ UNCHANGED <<crd, secretVars, leadVars, faults>>

\* The second GetReadyCRDs; what it does not list is waited for.
RelistCrds(r) ==
  /\ pc[r] = "createCrd"
  /\ todo[r] = {}
  /\ ready' = [ready EXCEPT ![r] = {}]
  /\ todo' = [todo EXCEPT ![r] = Crds \ Established]
  /\ pc' = [pc EXCEPT ![r] = "waitCrd"]
  /\ UNCHANGED <<crd, secretVars, leadVars, faults>>

\* waitCRD: polls until the definition is established.
WaitCrd(r) ==
  /\ pc[r] = "waitCrd"
  /\ \E c \in todo[r] :
       /\ crd[c] = "established"
       /\ todo' = [todo EXCEPT ![r] = @ \ {c}]
  /\ UNCHANGED <<crd, ready, pc, secretVars, leadVars, faults>>

\* waitCRD gives up after a minute, and main ends the process.
WaitCrdTimeout(r) ==
  /\ pc[r] = "waitCrd"
  /\ todo[r] # {}
  /\ faults < MaxFaults
  /\ faults' = faults + 1
  /\ Exit(r)
  /\ UNCHANGED <<secret, stolen, crd, reg, lease>>

\* The manager, the webhook server and the API server start, and the election.
Serve(r) ==
  /\ pc[r] = "waitCrd"
  /\ todo[r] = {}
  /\ pc' = [pc EXCEPT ![r] = "run"]
  /\ UNCHANGED <<secretVars, crdVars, leadVars, faults>>

\* The API server establishes a definition in the background.
Establish(c) ==
  /\ crd[c] = "pending"
  /\ crd' = [crd EXCEPT ![c] = "established"]
  /\ UNCHANGED <<todo, ready, pc, secretVars, leadVars, faults>>

-----------------------------------------------------------------------------
(* Leader election and registration *)

\* A free lease is taken.  The identity is the pod's name, so a container that
\* was restarted finds its own lease and goes on with it.
AcquireLease(r) ==
  /\ pc[r] = "run"
  /\ lead[r] = "follow"
  /\ lease \in {NoReplica, r}
  /\ lease' = r
  /\ lead' = [lead EXCEPT ![r] = "read"]
  /\ UNCHANGED <<reg, regKind, seen, pc, secretVars, crdVars, faults>>

\* A lease that is not renewed runs out: the holder is down, or it is paused or
\* cut off, which counts as a fault.
LeaseExpires ==
  /\ lease # NoReplica
  /\ \/ lead[lease] = "follow" /\ UNCHANGED faults
     \/ lead[lease] # "follow" /\ faults < MaxFaults /\ faults' = faults + 1
  /\ lease' = NoReplica
  /\ UNCHANGED <<reg, lead, regKind, seen, pc, secretVars, crdVars>>

\* OnStoppedLeading.
StopLeading(r) ==
  /\ lead[r] # "follow"
  /\ lease # r
  /\ Exit(r)
  /\ UNCHANGED <<secret, stolen, crd, reg, lease, faults>>

\* EnsureValidatingWebhookConfiguration and EnsureAPIService: Get, through the
\* manager's cache, which may be a version behind (a fault) ...
ReadRegistration(r) ==
  LET ver == reg[regKind[r]].ver IN
  /\ lead[r] = "read"
  /\ \/ seen' = [seen EXCEPT ![r] = ver] /\ UNCHANGED faults
     \/ /\ ver > 0 /\ faults < MaxFaults
        /\ seen' = [seen EXCEPT ![r] = ver - 1]
        /\ faults' = faults + 1
  /\ lead' = [lead EXCEPT ![r] = "write"]
  /\ UNCHANGED <<reg, lease, regKind, pc, secretVars, crdVars>>

\* Registered: go on with the next kind, or register the controllers.
NextRegistration(r) ==
  \/ /\ regKind[r] # LastKind
     /\ regKind' = [regKind EXCEPT ![r] = @ + 1]
     /\ lead' = [lead EXCEPT ![r] = "read"]
  \/ /\ regKind[r] = LastKind
     /\ lead' = [lead EXCEPT ![r] = "done"]
     /\ UNCHANGED regKind

\* Mutant of WriteRegistration: what is registered already is left alone.
WriteRegistrationOnce(r) ==
  LET k == regKind[r] IN
  /\ lead[r] = "write"
  /\ reg' = IF reg[k].ver = 0
            THEN [reg EXCEPT ![k] = [ver |-> 1, ca |-> files[r][k]]] ELSE reg
  /\ NextRegistration(r)
  /\ UNCHANGED <<seen, pc, secretVars, crdVars, lease, faults>>

\* ... then Create or Update with the CA in the folder.  AlreadyExists and
\* Conflict end the process.
WriteRegistration(r) ==
  LET k == regKind[r] IN
  /\ lead[r] = "write"
  /\ \/ /\ seen[r] = reg[k].ver
        /\ reg' = [reg EXCEPT ![k] = [ver |-> reg[k].ver + 1, ca |-> files[r][k]]]
        /\ NextRegistration(r)
        /\ UNCHANGED <<seen, pc, secretVars, crdVars>>
     \/ /\ seen[r] # reg[k].ver
        /\ Exit(r)
        /\ UNCHANGED <<secret, stolen, crd, reg>>
  /\ UNCHANGED <<lease, faults>>

-----------------------------------------------------------------------------
Main(r) ==
  \/ Start(r) \/ GetSecret(r) \/ DeleteSecret(r) \/ GenerateCertificate(r)
  \/ CreateSecret(r) \/ ListCrds(r) \/ CreateCrd(r) \/ RelistCrds(r)
  \/ WaitCrd(r) \/ Serve(r)

Leader(r) ==
  AcquireLease(r) \/ StopLeading(r) \/ ReadRegistration(r) \/ WriteRegistration(r)

Next ==
  \/ \E r \in Replicas : Main(r) \/ Leader(r) \/ Crash(r) \/ WaitCrdTimeout(r)
  \/ \E c \in Crds : Establish(c)
  \/ LeaseExpires

Spec == Init /\ [][Next]_vars

\* Processes run and are restarted, the API server establishes definitions, and
\* the lease of somebody who is gone runs out.
FairSpec ==
  /\ Spec
  /\ \A r \in Replicas : WF_vars(Main(r)) /\ WF_vars(Leader(r))
  /\ \A c \in Crds : WF_vars(Establish(c))
  /\ WF_vars(LeaseExpires)

-----------------------------------------------------------------------------
(* Properties *)

\* Replica r has the certificate it will serve kind k with.
Settled(r, k) ==
  \/ pc[r] \in {"list", "createCrd", "waitCrd", "run"}
  \/ pc[r] \in {"get", "delete", "generate", "create"} /\ k < kind[r]

\* However starts, crashes and restarts interleave, all replicas serve with the
\* same certificate, the one in the secret: the webhook and the API service
\* are reached through a service that picks any replica.  The exception is a
\* replica whose Delete of an invalid secret hits the valid one another replica
\* has put in its place (ensureSecret deletes by name).
OneCertificate ==
  ~stolen => \A r \in Replicas, k \in Kinds :
               Settled(r, k) => files[r][k] = secret[k]

\* No replica serves before every definition is established, since the caches
\* of its manager could not be filled (installCRDS before NewManager).
ServesEstablished ==
  \A r \in Replicas : pc[r] = "run" => Established = Crds

\* Once faults end, every replica serves, and the CA the leader has registered
\* is the certificate all of them serve with: old registrations are replaced,
\* also when the first leader ends half way (main.go's election callback).
TrustConverges ==
  <>[](stolen \/ \A r \in Replicas, k \in Kinds :
                    pc[r] = "run" /\ reg[k].ca = files[r][k])
=============================================================================
