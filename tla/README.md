# provider-nifi in TLA+

provider-nifi is a Crossplane provider: custom resources of Kubernetes describe
components of Apache NiFi, and controllers keep the two in step. This directory
models the controllers, the reconcile loop they run in and the part of NiFi they
depend on, checks the models with TLC and proves what matters most with TLAPS.

Contents: [the system](#the-system), [what is hard](#what-is-hard),
[modules](#modules), [abstractions](#abstractions), [runs](#runs),
[fairness](#fairness), [proofs](#proofs), [findings](#findings),
[not modelled](#not-modelled), [plan](#plan).

## The system

| Component | Source | State | Operations |
|---|---|---|---|
| Reconcile loop | crossplane-runtime, wired up by every `Setup` in `internal/controller/*` | the stored resource (finalizer, external name, creation annotations), informer cache, working copy | observe, then create, update, delete or rest |
| Processor controller | `internal/controller/processor/processor.go` | `status.atProvider`: run status, revision | Observe, Create, Update (stop, refresh, put, start), Delete (stop, refresh, delete) |
| ControllerService controller | `internal/controller/controllerservice/controllerservice.go` | state, revision | Observe, Create (+ enable), Update (disable, refresh, put, enable), Delete |
| ProcessGroup controller | `internal/controller/processgroup/processgroup.go` | counts of running and stopped processors, revision | Observe, Create, Update (put, start or stop), Delete (stop, refresh, delete) |
| RegistryFlow controller | `internal/controller/registryflow/registryflow.go` | current version, revision | Observe (two calls), Create (import, start), Update (change version, start or stop), Delete |
| Connection controller | `internal/controller/connection/connection.go` | revision | Observe, Create, Update, Delete: one call each |
| ParameterContext controller | `internal/controller/parametercontext/parametercontext.go` | revision, bound groups | Observe, Create, Update, Delete: one call each |
| NiFi client | `internal/clients/nifi.go` | none | typed wrappers of the REST calls, classification of errors |
| Provider configuration | `internal/clients/connector.go`, `internal/controller/config` | a configuration with its finalizer and count of users, the usages of either kind, the secret with the credentials | Connect (record the usage, read the configuration, make a client); count the usages, add or remove the finalizer, report the users |

Every reconcile of a resource begins with `Connect`, which records that the
resource uses its provider configuration, reads the configuration and the
secret it names, and makes a client; the configuration's own controller keeps it
while it counts such records. A controller is then called by the loop with a copy of the resource taken from the
informer cache. Its `Observe` asks NiFi for the component the external name
names, fills `status.atProvider`, and says whether the component exists and is
up to date. The loop then adds the finalizer, announces and makes a creation,
calls `Update`, or, for a resource being deleted, calls `Delete` and removes the
finalizer when the component is gone. Every later call of the same reconcile
reads the `status.atProvider` that Observe left in that copy. A change sent to
NiFi carries the revision the client believes to be current, and NiFi refuses
any other one.

What makes each part correct:

- the loop: at most one component per resource, none forgotten, the resource
  does not go before its component;
- the provider configuration: one that is deleted stays as long as a resource that its
  controller has heard of needs it to remove its component, and goes afterwards;
- every controller: what it reports of a component is true as far as it can read NiFi's
  answers, its calls carry the
  revision its own calls moved on, a finished Update leaves what the spec asks
  for, a component that must be at rest to be changed or removed is brought
  there first, and in the end the component matches the spec or is gone.

## What is hard

`PROJECT.json` lists the hazards with their lines. The classes are:

- *Several replicas.* Leader election is off by default (`cmd/provider/main.go:40`)
  and a rollout overlaps pods: two processes reconcile one resource, each from a
  cache that may be old.
- *Lost replies and crashes* between NiFi's side effect and the write of the name.
- *Status read earlier and used later*: revision, run status, state and counts of
  Observe steer an Update or Delete several calls on.
- *NiFi's own time*: threads finish after a stop is accepted, services are
  enabled and disabled in the background, a change of version goes on after
  the call has returned.
- *Errors read as absence*: any error text with 404 in it passes for the answer that
  there is no such component (`internal/clients/nifi.go:500`).
- *Half-finished updates*: a processor is stopped, its put refused.
- *Resources that depend on each other*: NiFi removes a processor only without
  connections, and a connection only between processors at rest with nothing queued.
- *A configuration going while it is needed*: the record of its use, the deletion
  and the count come from three processes and through two caches.
- *Convergence*: whatever drift detection does not read is never repaired.

## Modules

| Module | What it is |
|---|---|
| `ManagedComponent` | the promise: one resource manages at most one component, one it lost track of never comes back, nothing is managed once the resource is gone |
| `ManagedReconciler` | the loop of crossplane-runtime for one resource and any number of replicas, with the client left open |
| `NiFiClient` | the calls of `clients/nifi.go` and NiFi's revisions; extends the loop |
| `Processor`, `ControllerService`, `ProcessGroup`, `RegistryFlow`, `ParameterContext`, `Connection` | one controller each: its client as one action per call, the behaviour of that kind of component in NiFi, its properties; each extends `NiFiClient` |
| `Pipeline` | a processor and the connection that leads to it, each with its controller: two instances, of `Processor` and `Connection`, and what NiFi makes of the pair |
| `ProviderConfig` | `Connect` of each resource, and the controller that counts the usages of their configuration |
| `MC*` | the constants of the small instances |
| `NiFiClientProofs` | theorems about the loop, and the lemmas about the calls that every kind shares |
| `ProcessorProofs`, `ControllerServiceProofs`, `ProcessGroupProofs`, `RegistryFlowProofs`, `ParameterContextProofs`, `ConnectionProofs` | theorems about one controller each; each extends the controller and `NiFiClientProofs` |
| `CompositionProofs` | theorems about resources that depend on each other: those that share a configuration (`ProviderConfig`), and a processor with its connection (`Pipeline`), from what `ProcessorProofs` and `ConnectionProofs` say of each alone |

The pieces compose in three directions. A controller *extends* the loop and the
client, so its runs interleave the calls of one replica with those of another,
with the informer, the user, NiFi and its other users. And it *implements* the
loop: `ImplementsReconciler`, proved of all six kinds, says that forgetting
the data of the component leaves a behaviour of `ManagedReconciler`, whose
`LifecycleRefined` in turn maps to `ManagedComponent` (managed: the live
components not lost track of; finished: the resource is gone). What is
guaranteed of the loop for any client is thereby guaranteed of each controller.
Third, `Pipeline` *instantiates* two controllers side by side. Neither knows of the
other; NiFi ties them, by refusing to remove a processor that has a connection and
by letting the processor's run state decide what happens to the queue. It keeps of
each controller the workers, the informers, one user who deletes, and crashes; edits
and outside changes are in the runs of the kinds alone.

`ProviderConfig` is a system of its own: of a resource it keeps the finalizer and how
far it has got, and takes what follows `Connect` in a reconcile for one step.

How the variables correspond to the program:

- `cr` is the stored resource; `cache[w]`, `mem[w]` the copies of replica `w`.
  A resourceVersion is only compared with the stored one, so `cacheFresh[w]` and
  `fresh[w]` hold the outcome of the comparison.
- `pc[w]` is the next call of the reconcile; `seen[w]` the answer of Observe. The loop
  reads `misread` as it reads `absent`: it is the answer of a client that took an error for
  a missing component, and only the model knows the two apart.
- `live` are the ids NiFi holds of the components made for the resource, `used`
  those it ever gave away, `abandoned` those that track was lost of: by a crash, a lost
  reply, a resource deleted before it had its finalizer, or a misread error on which the
  loop made another component or let the resource go.
- `comp` is what NiFi holds of each; `status[w]` is `status.atProvider` of the
  copy: `observed` the run status, state, counts or version that later calls
  read; `current` whether `version` is NiFi's revision.
- `status[w].clean` is not in the code: it is true while nobody else has touched
  the component since Observe, and only properties read it.
- `spelling` (Processor) is how NiFi spells run statuses, chosen once and for all.
- `recorded` (RegistryFlow) is `currentVersion` of the stored status, which the
  next Observe starts from.

- `ends` (Connection) says whether the source and the destination run; `Pipeline`
  replaces the latter by the state of its processor.
- In `ProviderConfig`, `config`, `configCache` and `copy` are the configuration as
  stored, cached and worked on, with `cacheFresh` and `fresh` as above; `usages[k]` are
  the resources with a usage of kind `k`, and `wpc`, `cpc` say where the reconciles of
  a resource and of the configuration are. `heard` is not in the code: the resources
  that may have a component to remove and whose usages had reached the controller's
  informer when the configuration, with its finalizer on, was deleted; one leaves the set
  when it is gone.

An action that ends a reconcile with an error and one that ends it well look the
same: the loop comes back either way. `Leave` is the former and `UpdateReturns`
the latter, which is where `UpdateEstablishesSpec` looks.

## Abstractions

- One resource at a time. Resources share NiFi's components; what another
  resource or a user does to this one's is `ForeignEdit` and `ForeignDelete`.
- The fields of a spec are grouped into what drift detection reads (`Checked`),
  what it does not (`Unchecked`) and the desired state. `buildXEntity` always
  overwrites both groups, which is exact as long as no property is removed from
  the spec and no value is null: such removals are never sent, and belong to the
  drift functions still to be modelled.
- Of a connection's fields those that `isConnectionUpToDate` reads are a function, in
  which the spec may leave fields out; the others, the ends among them, are one value
  that the spec always gives. NiFi's refusal to move an end that runs is `Crash`.
- A secret with credentials is what its fields amount to: a URL or none, a token that is
  valid or not, a user whose password is right or wrong. Of the sources of credentials
  only a secret is modelled.
- `IsProcessorUpToDate` assumes that the entity has its component, config and
  status, as every answer of NiFi has.
- `ParameterContext` keeps the list of parameters as a set; names are taken to be distinct, which the CRD does not
  enforce. Of NiFi it assumes that a put changes what it sends, the description of every
  parameter included, and leaves the rest alone, a parameter that is not sent included, and that a GET does not show the value
  of a sensitive parameter. A NiFi that showed a mask instead would make every context
  with a sensitive value differ for ever.
- A call whose reply is lost is the call followed by `Crash`; a call refused for a
  reason outside the model is `Crash` before it. Both spend from
  `MaxDisturbances`.
- An error is misread when a GET fails before NiFi answers and its text has a 404 in it, as
  that of any refused connection has that names a host, a port or an id with these digits.
  Which error it is does not matter to the code, so `MisreadAsNotFound` allows it of any
  component; it spends from `MaxDisturbances`.
- A creation whose outcome was not recorded blocks the resource, as in the
  library; that a human may remove the annotation, and the 30 seconds of grace
  after a successful creation, are not modelled.
- The status of a reconcile is kept from Observe to the end of that reconcile. Of
  what is stored of it only RegistryFlow's version is ever read by a later one;
  the model stores it at once, at the end of Observe.
- NiFi: a processor with threads still finishing is STOPPING and refuses
  changes while its run status shows stopped; stopping a disabled processor
  enables it; a service changes only while disabled; a group may go only when
  nothing in it runs; a group being changed to another version refuses another
  change. That NiFi stops and restarts processors during a change of version is
  left out.

## Runs

`MaxDisturbances` bounds crashes, refusals and lost replies of a creation,
misread errors, failed second readings and failed stops that nobody notices, edits of the spec and changes by others, and in `ProviderConfig`
crashes, failed calls, and configurations and secrets written; `MaxCrashes` bounds the
crashes and failed calls of each controller in `Pipeline`; everything else is unbounded. Only the `Reconciler` run, which has no liveness, uses symmetry, under
permutations of its replicas and ids.

| Run | Question | Bounds |
|---|---|---|
| `Reconciler` | `AtMostOneManaged`, `Accounted`, `LifecycleRefined` and the inductive invariant, for a client free to do anything the loop allows | 2 replicas, 3 ids, 2 disturbances |
| `Processor` | `ClientTypeOK`, `RevisionsCurrent`, `UpdateEstablishesSpec`, `EventuallyApplied`, `DeletionCompletes`, of a NiFi that spells run statuses in upper case and of one that does not | 1 replica, 2 ids, 2 values of the checked fields, 2 disturbances |
| `Service` | `RevisionsCurrent`, `DisabledForChange`, `UpdateEstablishesSpec`, `ImplementsReconciler`, `EventuallyApplied`, `DeletionCompletes` | 1 replica, 3 ids, 2 disturbances |
| `Group` | `UpdateEstablishesSpec`, `StopsBeforeDelete`, `ImplementsReconciler`, `EventuallyApplied`, `DeletionCompletes`, with DISABLED among the desired states | 1 replica, 2 ids, 2 disturbances |
| `Flow` | `UpdateEstablishesSpec`, `ImplementsReconciler`, `EventuallyApplied`, `DeletionCompletes`, with readings and stops that fail unnoticed | 1 replica, 2 ids, 2 versions, 1 disturbance |
| `Parameters` | `UpToDateMeansMatching`, `UpdateEstablishesSpec`, `ImplementsReconciler`, `EventuallyApplied`, for contexts with parameters that NiFi holds or not, with a value, without, or sensitive, with a description or without | 1 replica, 2 ids, 2 parameters, 2 values, 2 descriptions and the empty one, 4 specs, 25 contexts, 2 disturbances |
| `Connection` | `UpdateEstablishesSpec`, `ImplementsReconciler`, `EventuallyApplied` while a queue fills and empties, `DeletionCompletes` once the connection is out of use | 1 replica, 2 ids, 1 field with 2 values or left out, 2 values of the rest, 3 specs, 2 disturbances |
| `Pipeline` | a processor and its connection deleted at any moment: `NoneLeftBehind`, `PipelineGoes`, `StrandedForGood`, for either spelling of run statuses | 1 replica, 1 id of each kind, 1 crash or misread error of each, from a flow that is there |
| `Config` | the inductive invariant `ConfigInv`, `UsersKeepConfig`, `ConfigGoes`, `ResourceGoes`, `UsersReported` | 1 resource, 6 secrets, 3 disturbances |

Why these bounds are enough. With two replicas two copies of the resource can be old
in different ways, and three ids allow a component, its replacement, and one lost on
the way; the proofs remove these bounds, and those of the safety properties of every kind.
What they leave to the bounds is liveness, of one replica by intention (see below). Two
disturbances let a crash meet an edit, a removal or a misread error. In `Flow` one is what
the state space affords: one reading or one stop that fails, or one misread error, and every
interleaving with the change of version; two were checked with a single id. The single field of a connection
is one that `isConnectionUpToDate` compares; fields do not influence each other, and the proof
has any number of them. A pipeline is about removal, where each component goes once
and for all, so one id of each is all it needs; its safety is proved for any number. A configuration with one user has
each interleaving of a Connect with its controller; several users at once are
in the `ClusterConfig` run, and in the proof of `UsersKeepConfig`. Three disturbances
let a secret go bad and good again around a crash, or a configuration be written anew
after one.

Deadlock is not checked: a resource that is gone with everything it had, or one
with an open creation, leaves nothing to do.

`DeletionCompletes` and `EventuallyApplied` except a resource with an open
creation, which the loop refuses to touch on purpose. Both are checked of one
replica: two that are unlucky for ever can make each other's revisions old for
ever, since every Update begins with a stop that moves the revision. A deletion is owed of a
processor unless it is found running by a NiFi whose spelling Delete does not expect
(`RunsUnseen`): Delete then never stops it, and it is `ProcessorMixedCase` that shows the code
at odds with its comment. The deletion of a
connection is owed only when it is not in use again and again, as Delete neither stops
nor empties anything; that of a pipeline (`PipelineGoes`: not only one of the
two goes but both) excepts a source that keeps running, a processor that runs unseen, a component
left to itself, and what is stranded, of which `StrandedForGood` says that nothing frees it.

The runs that look for a violation are listed under [findings](#findings).

## Fairness

`FairSpec` of each controller assumes weak fairness of each replica's steps and of its
informer: a controller-runtime worker takes up every queued resource, is polled
again after `PollInterval` and retries after errors, and a watch delivers. Of
NiFi it assumes that threads of a stopped processor finish, that services finish
being enabled or disabled, that a change of version ends, and that a running
destination takes what is queued. `ProviderConfig` adds the garbage collector,
which removes the usage of a resource that is gone. Nothing is assumed of
users, other clients or crashes. Fairness is on a replica's whole step and not on
single branches: in liveness runs the choice between success and refusal is
either bounded by `MaxDisturbances` or decided by NiFi's state.

## Proofs

Everything is proved for all values of the constants that satisfy the named
assumptions, in particular for any number of replicas, ids and disturbances.

*The loop* (`NiFiClientProofs`, first part). `AtMostOneManaged` is not inductive: that a
second replica cannot create depends on why it thinks it may. `ReconcilerInv` adds

- `CopiesTrue`: a copy taken for the stored resource is the stored resource;
- `NamesUsed`: no copy names an id that NiFi has not given away yet;
- `WorkingCopies`: who may still write works on a resource without an open
  creation, and what it truly found absent stays absent;
- `CreationGuarded`: from the announcement of a creation to its record the resource
  stays, manages nothing that lives but what the creating replica misread for absent, and
  no other replica creates;
- `Accounted`.

`InvStep` proves it action by action and conjunct by conjunct; `AtMostOneCorrect`,
`AccountedCorrect` and the refinement `LifecycleCorrect` follow.

`AloneCorrect` is about a resource that took a component over, and that nobody edits nor
reaches past into NiFi, and of which no error is misread before it is deleted. `Kept` is what such a resource has on top of `ReconcilerInv`: its
component is there until it is deleted, no replica is ever about to create one, nothing
is lost, and a copy that speaks of a deletion is right. It is inductive only together
with `ReconcilerInv`: that no replica creates rests on `CopiesTrue` and `WorkingCopies`,
which make what a replica found absent be absent still when it announces the creation.
`KeptOnly` says what a step may then do to the resource: keep its name, and never take a
deletion back while the component is there.

*The client* (`NiFiClientProofs`, second part). Lemmas that all six controllers use, one
for each of the calls they are made of:

- `...Refines`: the call is a step the loop allows, an Observe that takes an error for a
  missing component included (`ObserveRefines`);
- `...Type`: it keeps the types of what NiFi holds and of what a replica knows;
- `...Undisturbs` and `OthersStay`: it leaves every other replica where it is, and either
  leaves the component that one works on alone or takes away its `clean`. This is what
  lets a proof about an Update look at one replica only;
- `...Effect`, `...Leads`, `LoopStays`: what it makes of the component, of the status and
  of the replica that makes it.

*The controllers.* Each proof has one inductive invariant (`ProcessorInv`, `ServiceInv`,
`GroupInv`, `FlowInv`, `ContextInv`, `ConnectionInv`): the types, and for each replica
that is still `clean` where its reconcile has got to (`OnCourse`). The properties are
not inductive by themselves, since each speaks of the end of a sequence of calls whose
steps rest on what Observe read several calls before. Each invariant was checked by TLC on
the instance of its run before it was proved.

| Kind | What the invariant follows along the calls | Theorems |
|---|---|---|
| Processor | the observed run status is still NiFi's when the loop decides; after the stop the processor is stopping or stopped, before the start configured; the revision is the one the last call moved on | `RevisionsCorrect`, `ClientTypeCorrect`, `UpdateCorrect`, `StopsWhatItSeesCorrect`, `StopsBeforeDeleteCorrect` |
| ControllerService | the same, with a state that NiFi goes on changing: past the disabling it is disabling or disabled, before the enabling configured and disabled | `RevisionsCorrect`, `DisabledCorrect`, `UpdateCorrect` |
| ProcessGroup | the counts of Observe are still NiFi's when the put is sent, so what they lead to (start, stop or nothing) is what the desired state asks for; past the stop of a Delete nothing runs | `UpdateCorrect`, `StopsBeforeDeleteCorrect` |
| RegistryFlow | past the change of version the target is the spec's, or the flow is not versioned; a change that NiFi completes moves the revision, which every replica that works on the flow finds out (`VersionChangedOK`); the stored version is one that was deployed (`RecordedType`) | `UpdateCorrect` |
| ParameterContext | what Observe found up to date is so while the loop decides; the put leaves what drift detection takes for the spec | `UpToDateCorrect`, `UpdateCorrect` |
| Connection | what a put leaves matches the spec, in the fields drift detection reads and the others; that what flows through disturbs nothing is `FlowOK` | `UpdateCorrect` |

All have `ImplementsCorrect`, the refinement of the loop step by step, and, from it
and the theorems of the loop, `...ManagesOne`: at most one component, none forgotten, not
counting those that track was lost of, and a life that `ManagedComponent` allows. A misread
error is within the contract because the code makes it, not because it does no harm: the
theorems say how much it does. It costs the one component it hides, which the
loop leaves behind when it makes another or lets the resource go; that a second one is ever
managed, or that another is forgotten, does not follow from it.

Two lemmas about lists of parameters carry the ParameterContext. `SameNames`: when two
lists that name nothing twice are of one length and each name of the first is found in
the second, they have the same names; this is why comparing the lengths and one
direction is enough (`UpToDateMatches`). `PutSettles`: what a put leaves passes the
comparison unless NiFi holds a name that the spec does not.

The hypotheses, beyond the assumptions that the modules name:

- A processor's `UpdateCorrect` excepts the desired state DISABLED, which is never applied
  (see [findings](#findings)).
- A processor's `StopsBeforeDeleteCorrect` assumes that NiFi spells run statuses in upper
  case (`Spellings = {"upper"}`), which it does not. `StopsWhatItSeesCorrect` does without: no processor that is
  *reported* `RUNNING` is deleted running. Together they say that the finding of
  `ProcessorMixedCase` is one of spelling and of nothing else.
- `ContextAssumption` takes the contexts that NiFi may hold to include what a creation or
  a put makes of one of them, and their lists to be finite and to name nothing twice.

*The provider configuration* (`CompositionProofs`, first part), for a `ProviderConfig`, whose
usages the provider records (of a `ClusterProviderConfig` it is false, see
[findings](#findings)). `UsersKeepConfig` speaks of the resources whose usages had reached the
controller when the configuration was deleted, which is as far as the code protects anybody:
`Connect` records a usage and goes on to NiFi without waiting for the controller to see it, and
a configuration that is deleted in between goes although a component needs it. (It may also be
deleted before the controller has put a finalizer on it.) That the configuration stays for the
others is not inductive: why the controller may not release it depends on what it has read. `ConfigInv`
adds

- `CopiesTrue`: a copy taken for the stored configuration is the stored one;
- `TrackedFirst`: a resource that has, or is about to have, something to remove from NiFi
  has its usage recorded;
- `HeardSeen`: the usages of those the configuration is kept for are in the
  controller's cache;
- `HeardCounted`: a controller that counted none with a copy that is still stored was right.

`ConfigInvCorrect` and `UsersKeepConfigCorrect` follow, for any number of resources.

*The processor and its connection* (`CompositionProofs`, second part), for any number of
replicas, ids and crashes and any run of the source. `PipelineInv` takes of each of the two
its controller's invariant, `ReconcilerInv` and `Kept`, and adds one thing about both:
while a connection is there, the processor that the resource names is. The argument:

- `PipelineSteps`: a step of the pipeline is one of the processor's controller with
  the connection as it is, one of the connection's with the processor as it is, or the
  source's. `Same...` say that the instances `Proc` and `Conn` of `Pipeline` take the
  steps of `PP` and `CP`, the instances of the proof modules, whose every lemma can
  thereby be cited;
- `ProcessorActsAlone`, `ConnectionActsAlone`: each does only what a resource left alone
  does. A Delete that NiFi refuses because of the other is, to the loop, a call that
  failed; `ConnectionAnyEnds` says the same of the ends of the connection, which change
  with every step of the processor: the connection's proofs allow for ends of any kind;
- `MisreadLate` keeps `Pipeline` to its subject: an error misread while a resource is not yet
  deleted makes the controller create a second component, which `ManagedReconciler` and
  the kinds allow for, but a flow with one of each does not. Misread
  later, the error lets the resource go and its component stays, which is what `Lost` says;
- `AttachedKeeps`: no processor is removed while a connection is there.

`PipelineCorrect` follows, from it `NoneLeftBehindCorrect`, and `PipelineImplements`: each
controller still implements the loop and its lifecycle. `StrandedForGoodCorrect` needs
the invariant for this: what is queued belongs to the one connection that its resource
names (`Accounted`, `Kept`), and while it is there the processor is, so neither
deletion is taken back (`KeptOnly`) and no copy brings up a reconcile that has not heard
of it (`HeardStays`). None of the calls that are left starts the processor (`NobodyStarts`;
an Update under way when the resource is deleted still may, which is why `Heard` is asked
for), and NiFi refuses to remove a connection with something in its queue (`QueuedStays`).
`StrandedNeverGoes` draws the conclusion: from then on for ever, under any scheduling, unless
one of the resources goes on a misread error and leaves its component behind.
`PipelineGoes`, which TLC checks, is the other half: where nothing is stranded or
lost, the source does not run again and again and no processor runs unseen, the two go.

They hold under `PipelineAssumption` alone, which says of the constants what `Processor`
and `Connection` assume of theirs, and which TLC evaluates in the `Pipeline` run.

Only model-checked: all liveness (`EventuallyApplied`, `DeletionCompletes`, `PipelineGoes`,
`ConfigGoes`, `ResourceGoes`, `UsersReported`), which the prover cannot handle under
fairness. Every invariant and every action property of the passing runs is proved.

## Findings

Each of these runs shows the code at odds with its own documentation.

| Run | What it shows |
|---|---|
| `ProcessorMixedCase` | `processor.go:209` compares the run status with `RUNNING`; NiFi says `Running`, as the comment at line 158 knows. A running processor is never stopped by Delete, so its deletion is refused for ever. |
| `FlowRunState` | a desired state that changes alone is never applied to a registry flow (`registryflow.go:261`), though `registryflow_types.go:40` calls it the desired run status |
| `ClusterConfig` | every `Setup` records usages as `ProviderConfigUsage` (`processor.go:44`), while the controller of a `ClusterProviderConfig` counts `ClusterProviderConfigUsage` (`config.go:48`): such a configuration goes at once while resources need it |

Noticed while modelling, and not checked by a run of their own: the desired state
DISABLED of a processor (`processor_types.go:37`) is never applied, so its Update
repeats for ever (`processor.go:194`); any error text with 404 in it, a URL included, is
taken for a missing component (`nifi.go:500`), and a component left behind or made twice for
it; the error of the stop before a registry flow is deleted is dropped (`registryflow.go:238`),
which only delays the deletion (`DeletionCompletes` of `Flow`); a configuration that is deleted
before the usage of a resource has reached its controller goes while the resource needs it
(`config.go:40`); a processor and a connection that are
deleted together never go when something stays queued before a destination that has
stopped (`StrandedForGood`); a token that was given wins over the password beside it, also
when it has expired (`nifi.go:86`); drift detection of a processor
reads only part of what Update sends (`processor.go:276`); a service that is
ENABLING is not disabled before its deletion (`controllerservice.go:213`), which
NiFi then refuses until the enabling is done; a group with running processors is up
to date for the desired state DISABLED (`processgroup.go:269`); `currentVersion`
outlives a failed reading and the end of version control
(`registryflow.go:119`); a parameter taken out of a spec is never sent for removal,
while the comparison counts it (`parametercontext.go:203` and `:258`), so such a context
is written at every poll; a parameter's sensitivity, the inherited contexts, and a new
value where NiFi shows none are not compared (`parametercontext.go:275`).

## Not modelled

TLS and HTTP (I/O); API types, generated code, CRDs, templates and
CI (no behaviour); the binary's flags and wiring, but for the two replicas that
its default allows; rate limits, back-off, metrics, change logs, conditions and
events. Of the provider configuration: sources of credentials other than a secret, a
resource that moves from one configuration to another, several configurations.

## Plan

In order of what is at stake:

1. *Done:* the loop and its promise; the client; the six controllers; the provider
   configuration and its users; a processor and its connection together; the proofs of
   the loop, of all six controllers, of the provider configuration and of the pair.
2. `RevisionsCurrent` for the kinds that have no such property yet: ProcessGroup and
   RegistryFlow schedule without a revision, and read one again before they delete.
3. The drift functions as pure operators: properties as functions, removed and null
   values, masked values, and a reference definition of "matches".
4. A composition of a ProcessGroup that is to run and the Processors in it that are to
   stop, as in `examples/composition/composition.yaml`, and whether they ever agree.
