# Elpio in TLA+

Elpio runs Cloud-Run-like workloads on Kubernetes: an operator (kopf) turns four
custom resources (`ElpioService`, `ElpioFunction`, `ElpioTask`, `ElpioTenant`)
into Knative, KEDA, Tekton and plain Kubernetes objects, dispatcher pods move
messages from a broker to a handler service, and a management API writes
services into a fleet of clusters. This directory holds TLA+ modules that model
those parts, TLC configurations that check them on small instances, and TLAPS
proofs of the properties that matter most, for all values of the constants.
Paths below are relative to `src/src/elpio/`.

## Inventory

| Component | State | Operations | Hard behaviour | What makes it correct |
|---|---|---|---|---|
| dispatcher loop, `dispatcher/core.py` | where a worker is in `step`, the `Message` it holds and its `attempts` | `step`: poll, POST, then ack, nack or dead_letter; `run` repeats it | several pods; a POST that times out after the work was done; any exception of a broker call ends the process with a message in hand | no message is lost, none is processed twice without a fault, retries are bounded |
| Redis broker, `dispatcher/brokers.py` | a list and a dead-letter list | LPOP, RPUSH; ack does nothing | the only copy of a polled message is in the worker's memory; a repeated RPUSH | damage stays with the message in hand when a fault struck |
| RabbitMQ broker | ready and unacknowledged deliveries, commands on each connection | basic_get, basic_ack, basic_nack, basic_publish (no confirms) | commands are lost with a connection; redelivery while the first worker is still posting; restarts of the server | a forgotten message was processed or dead-lettered; a delivery is outstanding at one place |
| NATS broker | the consumer's pending deliveries, acks and naks on the wire | fetch, ack, nak, publish; each through `_run`, which swallows exceptions | the ack wait equals the POST's timeout, so late answers settle a later delivery; lost acks | the same, but for dead letters whose publish failed |
| ElpioFunction reconciler, `operator/function_handlers.py`, `function.py` | `.status`, the PipelineRun, the published ElpioService | `reconcile_function` (create, update, resume), `settle_function` (timer) | the two run concurrently on copies of the status; restarts and failed calls between apply and patch; the API server may refuse what is published | published after the build only, and only what the policy of that moment takes; what the status says is true; both ends of a build are reported |
| ElpioService reconciler, `operator/handlers.py`, `engines/`, `status.py` | `.status` with its Ready condition, the engine's objects and the readiness they report | `reconcile`, `settle_service` (timer) | stale readiness; partial applies; late patches made from old conditions; specs that are stored and cannot be read | observed means applied in full; the status converges to the truth; the condition's time is that of its last flip |
| ElpioTask and ElpioTenant reconcilers, `operator/task_handlers.py`, `operator/tenant_handlers.py`, `task.py`, `tenant.py` | `.status`, the objects, the dispatchers' `replicas` | `reconcile_task`, `reconcile_tenant` | two writers of `replicas` (the operator and KEDA); one broker address for two readers; a list of objects that stops anywhere or is superseded | guardrails before access; the queue is served |
| management API, `api/app.py`, `api/gateway.py`, `k8s.py` | the fleet registry, the process-wide default Kubernetes configuration, the caches of clients | `add_cluster`, `create_service`, `list_services` in a pool of threads; records that hold a token, name a Secret, or name a context | no lock anywhere; a Configuration that two threads load | a service reaches the cluster its record names, a Secret is read at home |
| file state store, `providers/state.py` | the dictionary, the JSON file | `put`, `delete`, loading | crash or power failure inside a flush; two flushes at once | the file is never torn; what is acknowledged is saved |
| admission webhook, `webhook/`, and the CRD | the policy (environment variables) | decides on one request and patches it | a policy that changes between a build and its publication; three readers of one image field (policy, schema, model) | what runs keeps the list of registries and the ban of mutable tags |
| identity, `providers/identity.py` | none | `authenticate`, `authorize` | the default reviewer needs what only an authorized request sets up | a request can be served |
| metrics, mailer, CLI, dispatcher entry point | none of interest | I/O and formatting | none | not modelled |
| in-memory broker | a deque | the tests' double | no deployment runs it | not modelled |

The operator applies objects which other controllers act on: an ElpioTask becomes
the Deployment of the dispatchers, a KEDA ScaledObject that starts and stops them,
and perhaps a CronJob; a function's build becomes an ElpioService, which the
service reconciler picks up. `attempts`, `handled` and the brokers' contents are
never shared between the operator and the dispatchers. The management API only
writes ElpioServices. So each of these is a module of its own, and the only
compositions are dispatcher with broker, API with store, and function reconciler
with admission.

## Modules

    AtLeastOnce            the contract of Broker: forgotten only if processed or parked
      ^ refined by (Contract == INSTANCE AtLeastOnce WITH ...)
    Dispatcher             the worker's half of step(), without the broker
      <- RedisBroker       (EXTENDS) + MCRedis     + RedisProofs
      <- RabbitMQBroker    (EXTENDS) + MCRabbitMQ  + RabbitMQProofs
      <- NatsBroker        (EXTENDS) + MCNats      + NatsProofs
      <- DispatcherProofs  lemmas about the local steps, used by the three
    Admission              the webhook's policy, the CRD's schema, the models' reading
      <- FunctionReconcile (EXTENDS) one ElpioFunction + MCFunction + FunctionProofs
    ServiceReconcile       one ElpioService               + ServiceProofs
    TaskTenantReconcile    one ElpioTask or ElpioTenant   + TaskTenantProofs
    FileStateStore         the JSON file
      <- ManagementApi     (EXTENDS) + MCApi       + ApiProofs

**Dispatcher.** `pc` is the line of `step` a worker is at, `msg` and `attempts`
its local `Message`. `PostAccepted` is a 2xx; `PostFailed` is every other
answer, a refused connection or a timeout (status 0), after which the handler
may or may not have done the work. `Settled` is the return of `step`, `Dies` an
exception that leaves `run`, or a killed pod. The broker modules conjoin these
with what the call made at that point does. `MaxAttempts` is per worker, because
two generations of a Deployment, or two tasks on one queue, differ in it.

**RedisBroker.** `queue` is the list. `Poll` pops; an undecodable body then
ends the process and the message is gone. `PollReplyLost` and `PushReplyLost`
are calls the server did and the client did not see; the client library repeats
them or raises. `struck` records the messages in hand during a fault. `queue`
starts as any enumeration of `Messages`.

**RabbitMQBroker.** Fire-and-forget commands travel on a FIFO `wire` per
connection; `basic_get` is synchronous, so `Poll` waits for an empty wire. The
server is external: `Receive`, `ConnectionLost`, `ServerRestart`. A broken
connection returns its deliveries to their old places, which is why messages
are numbers and `Oldest` is polled.

**NatsBroker.** `pending` are deliveries whose ack wait runs. `_run` swallows
exceptions: `Send` may fail silently, `FetchLost` looks like an empty queue, and
`DeadLetterPublish` may fail and still be followed by the ack. `Expire` of a
delivery somebody still works on is a late answer and counts as a fault.

**The reconcilers.** kopf runs one change handler of an object at a time, for as
long as the spec differs from the one handled last (`handled`), and once more
after a start (`resume`). A handler is split at every call of the Kubernetes
API and at its end, where kopf merges `patch.status`; it works on the body it
was started with (`change`, `tick`). Any API call may fail: the handler starts
again from the beginning. In `get_object` a failed call reads as a missing
object. `Edit` is the user, `BuildEnds` is Tekton, `ChildReports` are Knative
and KEDA, `ScaleUp` and `Rescale` KEDA's scaling. One object stands for the
several that behave alike.

**TaskTenantReconcile.** `broker` is the task's `spec.broker`; it is chosen in the
initial state and no edit changes it. Its `address` is either what the clients of
`brokers.py` connect to, a host and a port (`Connects`), or what KEDA is to ask for
the depth of the queue (`TriggerReads`): the same over Redis, a URI over RabbitMQ,
the monitoring port over NATS. The trigger gets no credentials and no TLS, which
over Redis it would need if the server asks for them. By a trigger it cannot read
KEDA scales nothing (`Scaled`), and without a connection no message is dispatched
(`Dispatch`, in which the whole of `step` and `run` is one step that empties the
queue).

**Admission.** Operators without state: `evaluate` is `policy.py`, `patched` the
default it adds, `schema_accepts` the CRD, `from_cr` what the models read back.
A text is the sequence of its pieces, cut wherever a comparison may end, so the
prefix match of the allowed registries is `IsPrefix` (`Listed`): an entry may be a
registry, a registry and a part of the path, or too short. A name is what stands
before its first colon (`head`) and the rest (`tail`), which is empty unless the
registry has a port; a string is split there, and `Cuts` says when the policy
therefore sees another name and tag than the container runs.
The CRD is a variable of `FunctionReconcile` with two values, the one that is
shipped (`image` is an object) and the one its own description promises (an
object or a string); it never changes. `TickRefused` is the answer of the API
server to what the policy or the schema refuses: the handler raises, and kopf's
timer comes back. `Reconfigure` is an administrator who changes the policy.

**ServiceReconcile.** A spec that `from_cr` refuses (`valid = FALSE`) starts no
handler that gets anywhere: both raise at their first line. The Ready condition
is a pair of its status and `timed`, whether its `lastTransitionTime` is the
time of its last flip. A handler holds the pair it was started with;
`merge_conditions` works on that copy, and a flip makes every copy's time an old
one (`Aged`).

**FileStateStore, ManagementApi.** A mutation is cut at each step of `_flush`
where another thread or a failure can come in between: change the dictionary,
dump, fsync, rename, return. `file` is what a process sees, `disk` what a power
failure leaves of it; the rename itself is not synced, so either file may
survive. `client_for` is cut between `load_kube_config`, which sets a
process-wide default, and `ApiClient()`, which reads it; so is `client()`, with
which the Secrets of records are read at `Home`. `reviewer` says who answers
`authorize`: the provider's default asks the cluster of the default
Configuration, an injected one does not.

## Runs

| Run | Bounds | Shows |
|---|---|---|
| `redis` | 2 workers (limits 1 and 2), 3 messages, one never accepted and one undecodable; 2 faults, 2 counted failures | `LossConfined`, `NoCopies`, `NeverDeadLettered`, `NoStarvation`, `ContractSpec` |
| `rabbitmq` | 2 workers (1 and 2), 3 messages, the last undecodable; 2 faults, 1 server restart, 1 counted failure | `NoLoss`, `OnePlace`, `NoDuplicateWithoutFault`, `EventuallySettled`, `ContractSpec` |
| `nats` | 2 workers (1 and 2), 2 messages, 2 faults, 2 counted failures | `NoSilentLoss`, `NoDuplicateWithoutFault`, `EventuallySettled`, `ContractSpec` |
| `function` | 2 builds (a pinned image and one without a tag), 2 configurations, 2 policies (an open one; a list of registries with a ban of mutable tags), both CRDs, 2 edits of spec or policy, 2 faults | `PublishedAfterBuild`, `RecordSound`, `VerdictSound`, `RecordFreezes`, `FailureReported`, `PublishedEventually` |
| `service` | both engines, specs that can be read and not, 1 edit, 3 changes of readiness, 2 faults | `ObservedApplied`, `AppliesForward`, `TimedUnlessOvertaken`, `Converges` |
| `task_tenant` | all choices of optional objects, every broker with either address, secured or not, `minReplicas` 0, 1 edit, 2 fillings of the queue, 2 faults | `ObservedApplied`, `GuardedBeforeGranted`, `Settles`, `TaskServed` |
| `api` | both reviewers, 2 threads, 2 clusters beside the home one, 2 names, all kinds of records, 2 registrations, 2 faults | `NeverTorn`, `AloneIsSaved`, `WrongOnlyAfterRace` |
| `redis_attempts` | no faults | finding: retries are not bounded |
| `function_building` | no edit, 1 restart | finding: a published function says "build in progress" for ever |
| `service_optimistic` | as `service` | finding: Ready is reported for a generation the engine has not seen |
| `task_tenant_idempotent` | a task, 2 faults | finding: re-applying an unchanged task stops its dispatchers |
| `api_crossed` | 2 threads, no faults | finding: a client for one context talks to another's cluster |

Each passing run checks its module's type invariant too.

Why the bounds are enough. Every hazard of the inventory needs two actors and one
or two faults: a stale ack needs one expiry and one redelivery, a duplicate one
lost reply, a late patch one overlap of two handlers, a crossed client two
threads. A worker with limit 1 reaches the dead-letter code and one with limit 2
does not, which is all the limit can change, since attempts start at 0 with each
poll. The third message of Redis and RabbitMQ is there for the order. After an
edit the earlier spec can be in force in an object, in a handler and in the status
at once, and `MaxFaults = 2` lets a retry fail again. Two registrations are two
records side by side, or one that replaces another; what a third would add, an
undisturbed mutation after two that crossed, is in the theorem `AloneSaved`.
Two policies are enough, since to the handlers a policy only takes an image or
refuses it, and the edit of it uses the same bound as the edit of a spec; which
images a list or a ban lets through is in the theorems about `Admission`. The failure
counts are only a bound on how long a handler that recovers fails: for the safety
properties the proofs below remove all of these bounds. With symmetry (threads and clusters are
interchangeable in `Next` and in every invariant) only invariants are checked.

`CHECK_DEADLOCK FALSE` everywhere: with an empty queue, a settled status or the
bounds used up there is nothing left to do.

## Fairness

* A worker's steps are weakly fair: `run` loops for ever and each POST has a
  timeout of 30 s. When no worker runs, one is started: KEDA does not leave the
  Deployment at zero while there are messages, provided it can read the trigger or
  does not have to (`minReplicas` above 0), which is an assumption of the three
  broker modules and modelled in `TaskTenantReconcile`. A worker that died need not come
  back while another one runs, so each liveness property holds with one pod,
  whatever its attempt limit; this is what makes starvation possible in a wrong
  broker (an LPUSH in place of the RPUSH of `nack`).
* What is sent arrives unless a (bounded) fault takes it; a RabbitMQ server drops
  the connection of a dead peer; a JetStream delivery nobody answers for expires.
* kopf calls a handler that is due until it succeeds, and each timer every 15 s.
  A change of a PipelineRun's spec may be refused for ever, so
  `FunctionReconcile` asks for no fairness of that application. A service that is
  refused is published only if the last spec and the last policy agree, and
  `PublishedEventually` says so. A spec that `from_cr` refuses disables both
  handlers of `ServiceReconcile`, so `Converges` promises nothing of it.
* Tekton ends a build (its default timeout is one hour). KEDA polls a trigger it
  can read every 30 s; the fairness of `ScaleUp` asks nothing of one it cannot, where
  that action is not enabled.

No fairness is assumed of faults, edits, reports, `Rescale`, or of the answers of
a handler: a handler may fail until the bound on its failures, and messages in
`Rejected` for ever.

## Proofs

The theorems hold for any messages, workers, threads, clusters and specs, any
attempt limits, and any bounds on edits, faults, failures and restarts. They rest
only on the `ASSUME`s of the modules (types of the constants; `None` and `Torn` are
not values of the program). TLC has checked each inductive invariant first.

* **Types** (all modules but the pure operators). `TypeCorrect`; with the types come
  the bounds: no generation beyond the edits made, no counter beyond its limit.
* **Redis** (`RedisProofs`). `LossIsConfined`, `DuplicationIsConfined`,
  `KeepsContract`. The invariant adds `WorkerInv`: what a worker holds at each `pc`.
  The lemmas `TailPlaces` and `AppendPlaces` say what LPOP and RPUSH do to the places
  of a message in the list; the rest is a case per action.
* **RabbitMQ** (`RabbitMQProofs`). `TypeCorrect`, `NothingLost`, `OnePlaceHolds`,
  `KeepsContract`. `NoLoss` is not inductive: whether an ack in flight may be
  obeyed depends on what its sender knew. `WireInv` lists what a wire can carry
  (one settlement of one unacknowledged delivery: an ack of a processed or
  parked message, a nack, or a publish with or without the ack that follows
  it), and `WorkerInv` what the worker knows at each `pc`. `NeverBack` follows from
  the refinement: no nack, broken connection or restart brings a settled message back.
  `ContractMeansNoLoss` proves `NoLoss` once more from the contract alone, without
  looking at a broker: it is what any other that refines `AtLeastOnce` would give.
* **NATS** (`NatsProofs`). `NothingLostSilently`, `KeepsContract`. An ack may
  arrive when the message has been delivered to somebody else, so the invariant
  says of every ack on the wire that its message was answered. `DeadLettersKept` is
  the other side of the observation about dead letters below: with a stream that
  captures them, and until a first fault, none is lost (`PreservedWithoutFault`).
* **Refinement.** `KeepsContract` maps the queue to `outstanding`: the initial
  state maps to the contract's, each step to `Handle`, `Park`, `Forget`, `Bury`
  or a stutter. Over Redis the queue is the list and the hands of the workers, and
  the messages that a fault struck or that cannot be decoded stay in it for good
  (`Kept`): of those the contract promises nothing, and `LossConfined` says that no
  other message leaves without an answer. The step that needs an argument is a
  message that moves between the list and a hand: `OtherHolders` says that the
  messages in no hand of the worker's stay where they are, and `KeptStep` that this
  is enough.
* **No duplicates without faults** (RabbitMQ and NATS). `NoDuplicates`, for
  `NoDuplicateWithoutFault`. While the counters of faults are 0 a second invariant,
  `QuietInv`, holds next to the first. Over NATS: a message in somebody's hands is in
  nobody else's and pending, an answer on the wire is the only one and to a delivery
  nobody works on any more, and a message with a 2xx is about to be acknowledged, has
  its ack on the wire, or has left the stream; so what is fetched, and what expires
  with nobody to answer for it, never had a 2xx. Over RabbitMQ: only a dead worker's
  connection may be gone, and it carries nothing; a message with a 2xx is never in
  the queue. A body that cannot be decoded ends a process without a fault being
  counted, which is why dead workers are in the invariant at all.
* **Retries** (all three). `DeadLettersUnreachable`: a worker whose limit is two
  or more never reaches `dead_letter`. `FreshInv` in `DispatcherProofs` says that
  a message in hand before its POST has no attempts.
* **Function** (`FunctionProofs`). `NothingPublishedEarly`, `RecordIsSound`,
  `VerdictIsSound`, `FrozenOnceRecorded`. `TickInv` is what a tick in progress knows
  and why it stays true: a build that has ended does not change, a service is not
  taken back, and only the timer sets `serviceApplied`.
  `FrozenOnceRecorded`, for `RecordFreezes`, is the general form of finding 2: once
  `serviceApplied` is set the ElpioService never changes again, and the status can
  only go back to "Building", where it stays. Of the admission operators themselves,
  over any registries and manifests: `PinnedWhenRun` (a ban of mutable tags is kept by
  what runs, or the name has a port), `AllowedWhenRun` (the name that is run starts
  with an entry of the list, also when the policy has only looked at what is before
  the port) and `PatchIsNeutral` (the webhook's default changes nothing
  of what the operator reads, and what was admitted is admitted again as it was
  stored).
* **Service** (`ServiceProofs`). `TypeCorrect`, `ObservedIsApplied`,
  `HandlersAgree`, `TransitionTimes`, `NeverBackwards`. `GenerationsInv` says that
  nothing is ahead of the spec. `ChangeInv` is what the change handler knows: nothing in the cluster or
  the status is newer than the body it works on, and the objects it has been through
  carry that body's generation, so its final patch may record it. `NeverBackwards`
  is an action property: each application is of a generation at least the object's.
  So is `TransitionTimes`: a patch whose copy of the conditions is the stored one
  keeps their time or flips the status, and only the two patches touch it.
  `ReadyNotMadeUp` is what remains true next to finding 3: the Ready in the status
  may be about an earlier generation, but there is none before a controller has
  reported on an applied object (`ReadyIsReported`, whatever is overtaken).
* **Task and tenant** (`TaskTenantProofs`). `ObservedIsApplied`, `GuardedFirst`,
  `NeverBackwards`, by the same `GenerationsInv` and `ChangeInv`. `GuardedFirst` rests
  on the order in which `render_tenant` lists the objects: `TenantFacts` proves, for
  every choice of optional objects, that each guardrail has a place before the
  RoleBinding's. Since no object is ever of a newer generation than the body in hand,
  a RoleBinding of the spec's generation was applied from the spec's own list, after
  its guardrails, and nothing has taken those back (`NeverBackwards`).
* **API and store** (`ApiProofs`). `TypeCorrect`, `FileNeverTorn`, `AloneSaved`,
  `WrongOnlyAfterARace`. `StoreStepInv` proves the store's invariant for every step
  the API makes of it: `SyncedInv` (what is renamed has been synced) and `AloneInv`
  (a mutation that is alone has dumped the data as they are). `ClientInv` is the
  argument about clients: until a race, a thread that has loaded a Configuration
  finds its own, so what it puts into the cache is right.

Every invariant and every action property that a run checks is a theorem, and so are
the three refinements. Only model-checked: liveness (`NoStarvation`,
`EventuallySettled`, `FailureReported`, `PublishedEventually`, `Converges`, `Settles`,
`TaskServed`), which the prover does not do.

## Findings

Five runs end in a violation of what a comment or docstring of the repository says.

1. `redis_attempts`: `poll` makes a `Message` with `attempts = 0` each time
   (`brokers.py:171`, 229, 332), so with the default `maxAttempts` of 3 a failing
   message is retried for ever and nothing is ever dead-lettered; with 1, the
   first failure is final.
2. `function_building`: `settle_function` returns at once when `serviceApplied`
   is set, and `reconcile_function` resets the phase without clearing it.
3. `service_optimistic`: the child's Ready condition is read right after the
   apply, when it is still about the generation before.
4. `task_tenant_idempotent`: `replicas` of a Deployment that KEDA scales is set
   with force to `minReplicas` on every apply.
5. `api_crossed`: `load_kube_config` and `ApiClient()` communicate through a
   process-wide default, and `lru_cache` keeps the wrong client.

Observed while modelling, without a run:

* `FileStateStore!AtRestSaved`: of two concurrent `put`s the older dump may
  replace the newer one, so an acknowledged `put` is gone after a restart.
* `ServiceReconcile!OneAutoscaler`: a metric that changes between cpu and
  concurrency leaves the other autoscaler behind, and both scale the Deployment.
  No reconciler deletes an object that is no longer rendered (CronJob,
  NetworkPolicy, the RoleBinding of an earlier role).
* `FunctionReconcile!PublishedAsBuilt`: the PipelineRun keeps its name, so an
  edit after the build publishes an ElpioService with an image that was not built.
* `NatsBroker!DeadLettersPreserved`: when no stream captures `<queue>.dead` the
  publish fails silently and the ack removes the message.
* RabbitMQ: a nacked message returns to the head of the queue, so with (1) a
  message that is rejected for ever starves those behind it; a body that cannot be
  decoded stops every worker. Dead letters are published as transient, and a
  restart of the server drops them (`ServerRestart` empties `dlq`).
* `merge_conditions` takes the time of a condition from the status the handler was
  started with (`status.py:55`), so after the other handler's patch it may restore
  an older time, or move the time though the status has not flipped:
  `TimedUnlessOvertaken` says that this is the only way. It happens on the first
  reconcile already, when the timer reads before `reconcile` patches and patches
  after it, and lasts until the next flip.
* The function reconciler renders `spec.image` as a string. The CRD has it as an
  object (`deploy/crds/elpioservice.yaml:44`), though its description two lines
  above, the top-level README and `ImageRef` say "object or string", and
  `models/service.py` asks to keep the two in sync. With that CRD no function is
  ever served (`FunctionReconcile!StringsAreImages` says what the description does,
  and fails as soon as a build succeeds), and its status says "build in progress"
  as long as it is tried; `PublishedEventually` says nothing there. The same
  happens under `ELPIO_REQUIRE_REQUESTS`, since the rendered service has no resources.
* Policy and model split a string image at its first colon, so in `host:5000/app`
  the name is `host`: an entry of the allowed registries that has the port does not
  match it, an entry `host` admits every port and path of that host, and the ban of
  mutable tags takes `5000/app` for a tag (`Cuts`, `PinnedWhenRun`).
* A spec that the CRD and the webhook accept and `from_cr` refuses (percents that do
  not sum to 100, two sources of one env entry) makes both handlers raise on every
  call; the status keeps what it said of the last good spec, ready or not.
* With the default reviewer, `authorize` asks the cluster of a Configuration that
  only `client` and `client_for` load, after their own request was authorized:
  every request is answered 500: the guard `Authorized` of `ManagementApi`, with
  `reviewer = "cluster"`, is false in every state that can be reached. An application
  that injects a reviewer, or loads a Configuration first, is not affected.
* `TaskTenantReconcile!ServedOverAnyBroker`: `broker.address` is both the address
  the dispatchers connect to and the one in KEDA's trigger (`task.py:27-57`), so over
  RabbitMQ and NATS a task with `minReplicas` 0 has either no dispatchers or
  dispatchers that cannot connect; the tests write it both ways
  (`test_task_render.py:53` and :90). Over Redis the trigger has no credentials.
* After a race in which `client()` took another context's Configuration, every
  record with a Secret fails until the process is restarted.
* The webhook is called for every UPDATE of an ElpioService, so after the policy is
  tightened it also refuses kopf's own annotations and the removal of its finalizer.
* `set_services_ready` of the metrics is never called.

## Not modelled, and why

* Authentication, TLS, credentials and URLs (but for what a task's broker needs of
  them), environment variables, wording, labels, events, metrics: no property here
  tells them apart.
* Durability of the Redis server, and unbounded queues of new messages.
* `list_clusters`, the mailer and the CLI: they change nothing, or are I/O. Tokens
  are verified by a library.
* A record of a cluster with neither a token nor a context, which stands for the home
  cluster: `client_for(None)` keeps a second cache over that of `client()`.
* `on_delete`, finalizers and owner references: Kubernetes collects the garbage.
* `rateLimit`: a delay only. Of `lastTransitionTime` only whether it is the time of
  the last flip, to the second.
* More than one replica of the operator: its Deployment has one, and kopf would
  need peering.

## Plan

Done: the dispatcher and its three brokers, the reconcilers, the store and the API,
admission, transition times, specs that cannot be read, secret references and the
default reviewer, with the runs above; a theorem for each safety property of a run;
the refinement of `AtLeastOnce` by each broker; whether a task's broker is reached by
KEDA and by the clients. Next:

1. The safety parts of the liveness arguments as theorems, where they are not in the
   code line by line: what a failed build can still turn into, which status a settled
   task or tenant has.
2. The findings that are violations, each as a theorem about when it does not happen
   (`NotOptimistic` when the child's report is about the spec; one autoscaler while
   the metric does not change), as `ReadyNotMadeUp` and `DeadLettersKept` begin to.
