# Formal specification of kiosk

kiosk gives the users of a Kubernetes cluster self-service namespaces
("spaces") that belong to accounts. It is an API server extension, a set of
controllers and an admission webhook in one process, usually in several
replicas. These TLA+ modules model the parts in which steps of several actors
meet: quota admission, the controllers, the watches, the creation of spaces and
the start of replicas; and the two bodies of pure logic on which the others rely:
what a quota counts, and who may see what. TLC checks them on small instances;
TLAPS proves the safety properties for every value of the constants.

Paths below are relative to the repository (`src/` in `PROJECT.json`).

## The system

| Component | State | Operations | Talks to |
| --- | --- | --- | --- |
| Quota evaluator `kube/plugin/pkg/admission/resourcequota/controller.go` | `work`, `dirtyWork`, `inProgress`, a workqueue of namespaces | `Evaluate`, `addWork`, `getWork`, `completeWork`, `doWork` | webhook (callers), accessor |
| Quota admission (same file, `pkg/manager/quota/{accessor,admission,util}.go`, `pkg/util/locks.go`) | look-aside LRU of own writes, named locks | `checkAttributes`, `checkQuotas`, `CheckRequest`, `GetQuotas`, `UpdateQuotaStatus`, lock acquisition | API server, informers |
| Blocking cache client `pkg/manager/blockingcacheclient` | none | write, then wait until the cache shows it, at most two seconds | used by all controllers and by admission |
| AccountQuota controller `pkg/manager/quota/controller` | two workqueues, the monitors' event queue | event handlers, `syncAccountQuota`, `replenishQuota`, timer, rediscovery of kinds | API server, informers |
| Account controller `pkg/manager/controllers/account_controller.go` | workqueue | `Reconcile`: role bindings, cluster role, cluster role binding, status | API server, caches |
| TemplateInstance controller and merge `.../templateinstance_controller.go`, `pkg/manager/merge` | workqueue, delayed retries | `Reconcile`, `deploy`, `Merge`, `setFailed` | API server, caches |
| Space storage `pkg/apiserver/registry/space` | none (the namespaces are the state) | `Create` with `initializeSpace`, `waitForAccess` and rollback, `Update`, `Delete`, `Get`, `List`, `Watch` | API server, authorizer, template instances |
| Account storage `pkg/apiserver/registry/account` | none | the same for accounts | API server |
| Watch registry `pkg/watch`, the two `watcher.go` | subscribed watchers, a lock each | `Subscribe`, `Unsubscribe`, `OnAdd/OnUpdate/OnDelete`, `Observe`, `Stop` | shared informers, watch clients |
| Authorizer, filtered lister, rule algebra `pkg/authorization`, `kube/pkg/registry/rbac`, `kube/pkg/apis/rbac` | none (the indexed caches of roles and bindings) | `Authorize`, `VisitRulesFor`, `List`, `Covers`, `CompactRules` | storages, watchers |
| Usage evaluators, resource lists `kube/pkg/quota/v1` | none | `Usage`, `Matches`, `Constraints`, `CalculateUsage`, `Add`, `Max`, `Mask`, ... | admission, controller, monitor |
| Start-up: `cmd/kiosk/main.go`, `pkg/util/secret`, `pkg/store`, `pkg/leaderelection` | certificates in two secrets and in each replica's folder, definitions, registrations, the lease | `EnsureCertSecrets`, `CreateCRDs`, election, `EnsureValidatingWebhookConfiguration`, `EnsureAPIService` | API server, other replicas |
| Validation, webhooks, helm, parameters | none | field checks, HTTP decoding, text | API server, external binaries |

What is hard about it:

* **Everything shared is in the API server, everything is read from caches.**
  Each informer lags on its own; writes are protected by resource versions only.
  Admission runs in every replica, the controllers in one.
* **Sequences of calls without transactions.** Space creation, reconciliation
  and merging make many calls, each of which can fail, be carried out and yet
  report an error, or be the last one of the process.
* **Two levels of locking** in the evaluator (its own lock and the
  workqueue's), in the watch registry (its lock, each watcher's, and a blocking
  channel) and in admission (one lock per quota).
* **Names instead of identities**: after the creation of a namespace every call
  names it; it may have been deleted and created again. The same is true of the
  certificate secret.
* **The same question answered twice.** Admission charges what an object uses and
  the controller recounts it; a list, a read and a watch each decide who may see a
  space; bindings are found through an index and matched once more. The answers
  have to agree.

`PROJECT.json` lists the hazards, each at its line with the properties that
cover it.

## Modules

| Module | Models | Checked by | Proved in |
| --- | --- | --- | --- |
| `BatchAdmission` | what batching promises: a line of requests per namespace, answered in order, each once | as `ImplementsLine` | |
| `QuotaEvaluator` | the evaluator's maps, lock and workqueue | `MCQuotaEvaluator` | `QuotaEvaluatorProofs` |
| `AccountQuotaAdmission` | checking and charging a batch in several replicas | `MCAccountQuotaAdmission` | `AccountQuotaAdmissionProofs` |
| `QuotaController` | the recalculation of an AccountQuota, against admission and administrators | `MCQuotaController` | `QuotaUsageProofs` |
| `WatchRegistry` | watches over spaces and accounts | `MCWatchRegistry` | `AuthorizationProofs` |
| `AccountReconciler` | the account controller | `MCAccountReconciler` | |
| `TemplateInstance` | the template instance controller with the merge | `MCTemplateInstance` | `TemplateInstanceProofs` |
| `SpaceProvisioning` | space creation, update and deletion, account deletion | `MCSpaceProvisioning` | `SpaceProvisioningProofs` |
| `Startup` | certificates, definitions, election and registration of several replicas | `MCStartup` | `StartupProofs` |
| `RbacRules` | matching, covering, breaking down and compacting RBAC rules | through `Authorization` | `AuthorizationProofs` |
| `Authorization` | kiosk's indexed authorizer, the lists, reads and watches that ask it, and the one of Kubernetes it has to agree with | `MCAuthorization` | `AuthorizationProofs` |
| `Sums` | sums over finite sets | through the three quota modules | `SumProofs` |
| `ResourceLists` | arithmetic on resource lists | through `QuotaUsage` | `QuotaUsageProofs` |
| `QuotaUsage` | what a quota counts: evaluators, scopes, validation, `CheckRequest` and `CalculateUsage` | `MCQuotaUsage` | `QuotaUsageProofs` |

The modules meet at their borders. `QuotaEvaluator` shows that one goroutine at
a time decides batches of a namespace, which is a process of
`AccountQuotaAdmission`. `QuotaController` has admission as an actor that
charges the status it recalculates. `SpaceProvisioning` has the template
controller as an actor that decides instances, and `TemplateInstance!Decided`
says that it does; `AccountReconciler` has space creation as an actor that adds
role bindings built from an old account. `QuotaUsage` computes the amounts that
are given to `AccountQuotaAdmission` and counted in `QuotaController`;
`Authorization` the decisions that `SpaceProvisioning` and `WatchRegistry` take
as given.

### How state and actions correspond to the code

A variable is a field, a map, a queue or a lock of the code, an informer's cache
(the version it has), or the program counter and locals of a goroutine. An action
is the code between two points at which another actor can interfere: a lock, a
channel, a call to the API server, a read of a cache. `PROJECT.json` maps every
definition to its lines. Definitions commented as *Mutant of ...* are wrong
variants used to show that the properties notice; no specification uses them.

* **QuotaEvaluator.** `addWork` and `completeWork` call the workqueue under
  `workLock`, but the workqueue has a lock of its own, so a worker may pop the
  namespace between the halves: `AddWorkQueue`/`AddWorkFile` and
  `CompleteWorkDone`/`CompleteWorkSwap`. A caller that gives up after ten
  seconds leaves its waiter behind.
* **AccountQuotaAdmission.** A goroutine goes through `checkCache`, the locks,
  `checkQuotas`, one update per quota (re-reading the quota, writing, waiting
  for the cache) and the retries. The API server keeps all versions of a quota;
  an informer and a look-aside cache hold positions in that history.
* **QuotaController.** The namespace, quota and object caches advance one event
  at a time and run the handlers in the same step; `QueuesFor` is the choice of
  `addQuota`, in which a usage that was never stored is not told from a usage of
  zero, so that both queues are possible then; the two workers read all three,
  count and store with a resource version.
* **WatchRegistry.** The informer's goroutine walks the watchers; `Observe`
  takes the watcher's lock and sends; the watch request receives, leaves and
  runs `Stop` step by step.
* **AccountReconciler.** One pass of `Reconcile` is a step per call. Objects
  have histories as above, caches advance object by object.
* **TemplateInstance.** A pass reads the instance and the template from caches,
  renders, visits the objects in the merge one by one, deletes the rest, stores
  the status or fails. The status keeps the manifests of the last success, which
  the next merge starts from.
* **SpaceProvisioning.** A client is a request in progress. `fate`, `moved` and
  `deployed` in the record of a namespace are history, used by properties only.
* **Startup.** `pc` is where `main` of a replica is, `lead` where its election
  callback is. Each call on a secret is a step; an error ends the process, and a
  restarted container has an empty folder and the old lease. `stolen` is history:
  a deletion by name has hit a secret that another replica had just created.
* **Authorization.** The state is what the caches hold: namespaces, the subjects
  of bindings and accounts, the rules of roles. A step is a change by an
  administrator that validation lets through; decisions are functions of the
  state, so every configuration is judged.
* **QuotaUsage.** The state is a quota with its status and the stored objects. A
  creation or update is checked, charged and stored in one step, since the
  interleavings are the subject of the other quota modules. `Demanded` defines
  what objects take from their life (init containers run one by one, then the
  containers together) and not from the evaluators. `unseen` and `exceeded` are
  history.

### Abstractions

* Quota, outside `QuotaUsage`: one counted resource, an amount per request and
  quota; all quotas of an
  account are read from the caches in one step. The limits of the stored status
  do not change in `AccountQuotaAdmission` (they do in `QuotaController`); nor
  are quotas or accounts deleted there, and a replica does not restart.
* Watches of the informers miss no events, except that the registry may get a
  deletion as `DeletedFinalStateUnknown`. The registry's slice of watchers is a
  set; no property distinguishes orders.
* The API server stores nothing for an update that changes nothing; generated
  names are never reused, and the two that one request gets for two entries of
  its account differ.
* A rendered template is the content of its objects, or an error; nobody but the
  controller changes them. Parameters, helm and the text of manifests are left
  out.
* Outside `Authorization`, a user is allowed something in a namespace with
  cluster-wide rights or by a role binding of an account.
* In `QuotaUsage` quantities are integers, resource names and in `Authorization`
  user names are sequences of their parts, so that a name that is put together
  is a concatenation. There is one quota over one namespace; the configuration of
  limited resources, which kiosk leaves empty, is left out.
* In `Startup` a certificate is its identity: a new one differs from all that are
  still held. The secrets are read from the API server, the registrations through
  the manager's cache, which may be one version behind.
* Labels, annotations, table output, logging and conversions between API
  versions are left out, the account label and the initializing annotation
  excepted.

## Runs

Passing runs:

| Run | Instance | Shows |
| --- | --- | --- |
| `QuotaEvaluator` | 2 workers, 5 requests in 2 namespaces, one not tracked | `ExclusiveNamespace`, `NoLostWakeup`, `DeleteDropsNothing`, and that the detailed evaluator implements `BatchAdmission` with its liveness |
| `AdmissionBatch` | 1 replica, 2 goroutines, 2 quotas, 3 requests (one dry run that a quota refuses), 1 retry | `NoLostCharge`, `ChargesAlone`, `AdmittedIsCharged`, `BatchesEnd` (locks are taken in one order) |
| `AdmissionReplicas` | 2 replicas, 3 goroutines, 4 requests (one in a namespace of nobody) for a quota with room for 2, an LRU that evicts | `NamespacesAddUp`, `WithinHard` |
| `WatchRegistry` | 2 watches, 3 events | `NoSendOnClosed`, `GapFree`, `StopReturns` |
| `QuotaController` | 1 namespace, 1 object, a quota without limits in its status yet, 1 move, 1 edit of the limit, 1 error | `LimitsDue`, `ReplacesWhatItRead`, `Converges` |
| `AccountReconciler` | 1 namespace, 1 role binding, 2 lists of subjects, 2 edits, 1 error | `SubjectsConverge`, `RoleConverges`, `StatusConverges` |
| `TemplateInstance` | 3 objects (native, custom, kept), 2 versions of the template, a broken one, 2 edits, 1 error | `RecordedIsApplied`, `FollowsTemplate`, `Decided` |
| `SpaceProvisioning` | 2 requests at a time, 1 name, 2 creations, 2 accounts, 1 template; every call may fail and every process end | `LimitHolds`, `AccessAfterTemplates`, `SuccessIsReady`, `NoneForgotten`, `Answered`, `AccessEnds` |
| `Startup` | 2 replicas, both secrets absent or invalid, both registrations absent or old, 1 definition, 2 faults (crash, timeout, stale read, lost lease) | `OneCertificate`, `ServesEstablished`, `TrustConverges` |
| `Authorization` | 3 users (one a service account), 2 namespaces, 2 roles, 3 bindings, 1 account; rules with every kind of wildcard | `IndexIsExact`, `OneView`, `MembersReachSpaces`, `NoEscalation`, `BreakdownExact` |
| `QuotaUsage` | 2 objects at a time of pods with init containers, services, claims and counted objects, quotas with and without scopes, 3 calls, 1 edit, 1 failing lister | `NeverUndercharged`, `ReleaseNoticed`, `LimitsHold` |

`TypeOK` is checked in `AdmissionBatch`, where it says which versions of a quota
may be held and a mutant of it is a plausible bug; the types of the other modules
are proved (except in `AccountReconciler`), part of what the proofs rest on.

What some of them show:

* `LimitsDue`: while the limits in the status are not those of the spec, something
  is left that will store them without the timer: a version in the watch, a queue
  that has the quota, or a worker whose copy differs. The handler of updates
  ignores those that leave the spec alone, so a worker that conflicts with a
  charge has to retry. `Converges`: whatever order the caches, admission and the
  two workers get their turns in, limits and total usage are right once the cluster
  rests; from lost replenishments (the status had no limits yet, the namespace's
  label was late) the timer recovers. Usage per namespace does not converge (a
  finding, below).
* `LimitHolds`: what an account claims is the spaces it owns, however it came by
  them, and one for each request that has counted and not yet created. No step
  takes that past the limit and one for each other request in progress, except a
  change of owner, which looks at no limit (a finding, below). Spaces an account
  was given count at its next creation.
* `OneCertificate`: whichever replica wins, all serve with the certificate in the
  secret, unless a deletion by name has hit a valid secret (a finding, below).
  `TrustConverges`: once faults end, the CA that is registered is the one that
  all serve with, also after a leader has ended between its two registrations.
* `IndexIsExact`: the authorizer that goes through the index decides like the
  one that looks at every binding, for service accounts with and without a
  namespace and for users and groups of the same name. `OneView`: what a list
  shows, a read and a watch show. `MembersReachSpaces`: a subject that validation
  accepts in an account is reached by the role bindings made for it.
  `NoEscalation`, `BreakdownExact`: `Covers` accepts only what allows no new
  request, and breaking down and compacting rules changes no decision.
* `NeverUndercharged`: the usage in the status is at least what the stored objects
  demand, in any order of creations, updates, releases, edits and recounts that
  fail in part. `ReleaseNoticed`: unless the quota waits to be recounted, what was
  given up has been given back. `LimitsHold`: the limit holds for the objects
  themselves. Each names the changes the code does not look at (`unseen`):
  a pod that gets a deadline and so another scope, ports that a service of the
  same type gives up, the end of a grace period, and an edit of the scopes; these
  wait for the timer of the full recount.

Bounds. Two of each concurrent actor is what the races need: a third worker,
replica or request repeats a role. Batches hold up to two requests, so that one
can be admitted and another refused in a batch. `MaxErrors`, `MaxEdits`,
`MaxMoves`, `MaxEvents` and `MaxUid` count what happens from outside; the values
let every path happen at least once, and an error combined with an edit. In
`AccountReconciler` the API server has more names than edits and errors can use
up. The run `SpaceProvisioning` has one name, so that it is always contended.
For the limit of one space the two requests that have both counted before either
creates are what matters, and so is a space that is given to the account in
between; a check that comes one space late is noticed with one name already. The
theorem `LimitKept` covers any number of names. `QuotaController` starts without
limits in the status, the state in which nothing is charged and replenishments
are dropped. It has one namespace, which moves: a second one repeats the loop
over namespaces, and its theorems are about any number. In `Startup` the secrets
are independent but go through the same code, so one definition and two secrets
suffice; six certificates are more than two replicas with two faults can hold at
once. `QuotaUsage` has one object specification for each branch of the
evaluators, and two objects so that one can be released while another stays.
`QuotaEvaluator` ends in a state in which all is answered, where its workers
wait; in `WatchRegistry` the code can block (see below), in `SpaceProvisioning`
nobody may have anything left to ask for and in `Startup` all replicas serve in
the end, so their runs do not check for deadlock.

One run is expected to fail and shows where the code and its documentation part:

| Run | Property | What happens |
| --- | --- | --- |
| `AdmissionRetryVerdict` | `RejectionIsFinal` | `checkQuotas` calls itself with the quotas whose update conflicted and sets the result of a waiter that asks nothing of those to nil, also when the first pass had rejected it: the request is let through uncharged |

`AdmittedIsCharged` is affected by this: it holds in its run because no request
there is refused by one quota and does not concern another.

Further findings have no run of their own. Those the model-checker has confirmed:

* `StopReturns` needs its two exceptions (`Blocked`): a client leaves while
  `Observe` sends to it, so that `Stop` waits for the lock the send holds; and
  `Stop` and `Observe` take the watcher's and the registry's lock in opposite
  orders. Either stops the informer's goroutine and every other watch for good.
* `OneCertificate` needs `~stolen`: two replicas find an invalid secret, one
  replaces it, the other deletes the replacement.
* `NeverUndercharged` and `LimitsHold` need `Countable`: a quota with the scope
  `PriorityClass` is recounted as zero, since the recount builds the requirement
  without an operator and drops the error.
* A per-namespace usage stored from lagging caches is never corrected once the
  total agrees: `QuotaController` has convergence of the total only.
* A space that is moved to an account which has reached its limit is taken, since
  `Update` stores the new owner and compares nothing: an account may own more
  spaces than the limit's comment allows, and `LimitHolds` excepts the step.
* After a merge that failed half way, or a status update that conflicted, objects
  are in the cluster that no record knows of, and they stay when the template is
  taken back: `TemplateInstance` has no property that objects follow the template.
* An edit of a quota's scopes is not recounted until the timer.

Found while reading: a status update that is stored but times out is charged
again; the options of a request lose `DryRun` and `Preconditions` on their way to
the API server; a watch starts with the next event, whatever `resourceVersion` it
asks for; changing the account of a space does not change role bindings;
initialisation goes by the namespace's name.

## Fairness

Weak fairness, of: every goroutine that has something to do (Go's scheduler runs
it, and API calls have timeouts, so a call ends one way or the other); the events
of every cache (a watch reconnects and catches up); timers that are running; the
garbage collector. Nothing is assumed of users, administrators, errors or
crashes. In `SpaceProvisioning` nothing is assumed of the template controller
either, so `Answered` rests on the deadline of the poll alone. Errors and edits
are bounded in the convergence runs: `<>[]` says what holds once the cluster
rests. In `WatchRegistry` a client is fair only until it leaves. In `Startup`
containers are restarted and the lease of a process that is gone runs out.

## Proofs

For every value of the constants that the named assumptions admit. The assumptions
say what type a constant has, and besides: in `AccountQuotaAdmission` that the
namespaces are finitely many (a sum is taken over them); in `QuotaController` that
the namespaces and the objects are; in `QuotaUsage` that objects have finitely
many names, and what the API server lets be stored: no resource name is empty, a
container asks for natural quantities and for no name that begins with
`requests.`, and in the name of a limit by storage class the class comes first and
is followed once by the word for it; in `SpaceProvisioning` that the names and the
requests at a time are; in `Startup` that the definitions are and that the secrets
are absent or invalid at first; in `TemplateInstance` that templates render to
what is not "broken" or "absent"; in `Authorization` that names are sequences of
words and that rules are of the form of a `PolicyRule`. Every invariant named here
was checked by TLC before it was proved.

* `QuotaEvaluatorProofs`: `TypeCorrect`, `Exclusive`, `WakeupNotLost`,
  `NothingDropped`. The inductive invariant `IInv` adds that the queue holds
  each namespace once, only dirty ones and none in processing; that a worker owns
  its namespace in the workqueue from `Get` to `Done` and in `inProgress` from
  the end of `getWork` to the end of `completeWork`, alone; and that a caller
  between the halves of `addWork` has its namespace awaited. `NoLostWakeup` alone
  is not inductive: what makes it true after `completeWork` is who owns
  `inProgress`. `LineImplemented` is the safety half of the refinement: the line
  of a namespace is the batch being decided, then `work`, then `dirtyWork`, and
  every step of the evaluator either takes a step of `BatchAdmission` on it or
  leaves all lines alone. That needs the exclusion from `IInv`: two workers in
  one namespace would answer its requests out of order.
* `AccountQuotaAdmissionProofs`, about every number of replicas, namespaces,
  quotas and requests:
  * `TypeCorrect`: besides the types, every version that a cache or a goroutine
    holds is one the API server has stored.
  * `ChargesKept`: the stored total is the sum of what was charged. Inductive
    with the types, since an update is stored on the latest version only.
  * `LimitsKept`, with `HardInv`: every version that was ever stored and every
    running total of a goroutine is within the limit, since caches may bring back
    any of them.
  * `OneCharger`, with `LockInv`: whoever charges holds all locks of its replica.
  * `UsageAddsUp`, with `VersionsAddUp`: in every version ever stored the usage per
    namespace adds up to the total. `UpdateQuotaStatus` adds the difference to the
    version it has read, so it has to be true of old versions too.
  * `AdmittedCharged`: what the requests let through ask together is charged to
    each quota. `PaidInv` follows a request from the batch to its answer:
    `RunningCovers` (the running quota exceeds the quota seen by at least what the
    requests looked at in this pass ask, and by all of the batch during the
    updates), `PassedFree` (who was let through before the updates asks nothing of
    the quotas of the pass), `InScope` (a retry is about quotas of the first pass),
    `BatchesOwn` (a request is in one batch), and `SpentCovers`: for each quota, the
    admitted requests and those of the batches that have been charged to it are
    covered by what was spent. The hypothesis is `RejectionIsFinal`, which the
    code does not keep (see the run `AdmissionRetryVerdict`); the proof uses of it
    only that a rejected request that asks for something is not let through
    (`Kept`), so that defect is the only way to get in without a charge.
  * `UniformCharged`: without that hypothesis, when every request that asks
    something of one quota of the account asks something of all. An account with
    one quota is such a case: the defect needs two quotas for different resources.
* `QuotaUsageProofs`, about all objects, quotas, scopes and limits:
  `NothingForgotten`, `GivenBack`, `ObjectsWithinLimits` and `TypeCorrect`. The
  three properties compare the status with `Demanded`, which looks at an object's
  life and never at the evaluators; so the proof has two halves.
  * What an object is charged is what it demands. `PodUsageFunc` adds up lists
    container by container, takes the larger list at each init container and
    renames the result; `Demand` takes the larger of two numbers for each name.
    The lemmas on `AddAll`, `MaxAll` and `Renamed` say what the loops make of
    one name (a quantity is found under each of its names, and under no other's);
    for claims, that a name determines the storage class it speaks of, although
    a class may contain the words of other names.
  * The status and the objects move together. `IInv` says that the status covers
    the sum of the objects' shares (`Covered`), equals it once no recount is due
    (`Settled`), that its names are a quota's and some evaluator counts them
    (`Tracked`), and that a limit that held at the last recount has been kept since
    (`Kept`). An operation changes the share of one object and charges the
    difference if there is one; a recount replaces what it could count by the new
    sum and keeps the rest. None of the three properties is inductive alone: they
    say nothing of names without a limit, which an edit may bring back, nor of a
    quota that the validation would refuse, whose scopes may not select what the
    recount selects.
  * And of `QuotaController`, for any number of namespaces and objects:
    `ControllerTyped`; the action property `NothingUnseenReplaced`, with
    `HeldPast`: whatever a cache, a watch or a worker holds is no newer than the
    stored quota, and is the stored quota if it has its version. Without it,
    comparing versions would say nothing about what is overwritten. And
    `EditsRemembered`, with `DueInv`: the cache lags by the versions the watch has
    yet to deliver (`Lag`); the limits of the stored status are those of each
    version from the cached one on, or those its spec asks for (`Stands`), because
    a sync stores limits from the newest version only, and then the cache has it;
    so whoever sees in the cache that the limits are not stored is due to store
    them (`Due`).
* `AuthorizationProofs`, its last part about the watches of `WatchRegistry`:
  `RegistryTyped`; `ClosedIsSilent`, with `WalkInv` (the
  rest of a walk is subscribed, and who has unsubscribed is not): the registry's
  write lock in `Unsubscribe` excludes a walk in progress, although `Observe` does
  not look at `stopped`. `NoGaps`, with `GapInv`: a client that is
  still there has received all it is owed, but for the event of a walk that has
  yet to reach it; a watcher stays subscribed until `Stop` holds both locks; and a
  notification in the listener names the handler that fits the change.
* `SpaceProvisioningProofs`: `SpacesTypeCorrect`; `LimitKept`, an action property (a
  request that passes the check adds one to what is claimed by fewer than the limit
  spaces and the other requests, creating turns its claim into a space, a change of
  owner gives a space, and nothing else adds to the claims); and with
  `SpaceInv`, `AccessComesLast`, `SuccessStaysReady` and `NobodyForgotten`. It says
  which namespace is a request's own (names are used again, uids are not), which
  instances the request has created, and how far that namespace is at each point
  of `Create`: whose it is, whether its instances were seen deployed, whether the
  role binding is there.
* `StartupProofs`: `StartupTyped`; `OneCertificateServed`, with `SecretInv`
  (what a replica is about to create, or has settled on, is a certificate: so a
  secret that somebody has settled on is valid, and only a stolen deletion removes
  it); `EstablishedFirst`, with `CrdInv` (a definition that a replica no longer
  waits for is established).
* `TemplateInstanceProofs`: `DeploymentTyped`; `RecordsWhatItApplied`, an action
  property, with `DeployInv`: what `Reconcile` knows at each of its steps. The
  objects the merge has visited are in the cluster as rendered, those it has
  pruned are gone, and the status in memory has the manifests of the version read
  or, after a write that failed, those just applied, which `setFailed` may store.
* `AuthorizationProofs`, its first part: `ValidatedIndexed` (a subject that
  validation lets into an account or a cluster role binding has a key in the index,
  and the same one from every namespace), and of every configuration
  of bindings, roles and accounts: `IndexFaithful`, `MembersReach`, `ViewsAgree`,
  `NothingEscalates` and `TakenApartExactly`. The last two rest on lemmas about
  the rule algebra: a rule allows a request if and only if one of its pieces does
  (`BreakdownAllows`), a rule that covers a piece allows what the piece allows
  (`CoversAllows`), and compacting unites the verbs of rules that agree in
  everything else (`CompactAllows`).
* `SumProofs`: what the sums in the other modules need: adding or removing an
  element, unions, subsets, two functions that agree or differ in one place. A
  sum is a fold, which the library defines by recursion over subsets; that the
  recursion has one solution is proved by induction over the cardinality, as the
  existence of a least counterexample, and everything else follows from the
  equation.

Only model-checked: liveness and fairness (all properties with `<>` or `~>`, and
with them the liveness half of `ImplementsLine`), which are out of the prover's
reach and are all that `AccountReconciler` states. Every invariant and every
action property of the passing runs is a theorem. The proofs about
`QuotaController` and about `WatchRegistry` stand next to others that extend a
second component, which is why the definitions of these two have names of their
own (`ControllerInit`, `WatchNext`).

Changes the proofs led to: in `QuotaUsage` the demand of a pod had two cases that
both applied to a pod that has ended, and `CHOOSE` between them is not what was
meant: it asks one question after the other now; resource names had to be said to
be sequences, and what can be stored to be well-formed, before anything followed
from them; and the recount overwrites the old usage by an operator of its own.
`QuotaController` says that its objects are finitely many. `Startup` generates a
certificate only while there is one that nobody holds (`Certs \ Held`, a bound: in
the code every certificate is new); `SpaceProvisioning` keeps the name of each
instance a request has created, as a function over the entries of the account.

## Not modelled

* Rediscovery of resource kinds (`Sync`, `resyncMonitors`, `workerLock`) and the
  start and stop of monitors: planned.
* `Create` and `Update` of accounts, which hand the converted object through.
* The wiring of managers and controllers in `main`: it has no state of its own.
* Webhook decoding, helm, template parameters, the formats of names and labels,
  the cryptography of certificates: I/O, text and libraries.
* Generated code, which is most of the lines of the repository's own packages
  (`openapi_generated.go` alone is two thirds, besides deep copies, conversions,
  clients and registrations): there is nothing in it to model.

## Plan

1. **QuotaMonitors**: `SyncMonitors`, `StartMonitors`, `IsSynced` and the
   `workerLock` of `Sync` against the workers.
2. **AccountReconciler**: an abstract specification of what a reconciliation
   promises for one pass, as a safety property next to the convergence of many.
