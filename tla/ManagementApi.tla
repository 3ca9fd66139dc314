----------------------------- MODULE ManagementApi -----------------------------
(***************************************************************************)
(* The management API: POST /clusters registers a cluster in the fleet     *)
(* registry, POST /clusters/{cluster}/services writes an ElpioService into *)
(* the cluster its record leads to (api/app.py, api/gateway.py, k8s.py,    *)
(* providers/identity.py).                                                 *)
(*                                                                         *)
(* The endpoints are plain functions, which FastAPI runs in a pool of      *)
(* threads.  Authentication, validation and the answers 401, 403, 404 and  *)
(* 422 change nothing and are left out; listing services takes the steps   *)
(* of creating one, with a read at the end.                                *)
(***************************************************************************)
EXTENDS Integers, FileStateStore

CONSTANTS Targets,     (* Kubernetes clusters, each named by a kubeconfig      *)
                       (* context                                              *)
          Home,        (* the cluster the API runs in, or the current context   *)
          MaxPuts,     (* BOUND: registrations                                 *)
          MaxFaults    (* BOUND: restarts and failed calls                     *)

VARIABLES reviewer,   (* who answers authorize: the OIDC provider's default,   *)
                      (* which asks a cluster, or a reviewer that was injected *)
          request,    (* per thread: None, or the service it is creating       *)
          config,     (* the kubernetes package's default Configuration        *)
          cache,      (* the lru_caches of client (at Home) and client_for:    *)
                      (* the cluster each one's client talks to                *)
          raced,      (* auxiliary: a load of the Configuration overwrote one  *)
                      (* that its thread had not used yet                      *)
          puts, faults

apiVars == <<reviewer, request, config, cache, raced>>
vars == <<storeVars, apiVars, puts, faults>>

Places == Targets \cup {Home}

(* How a record leads to its cluster: server and token, server and a token *)
(* in a Secret at Home, or a context.                                      *)
ApiRecords == [via : {"token", "secret", "context"}, to : Targets]

Requests ==
    [at : {"checked"}, cluster : Keys] \cup
    [at : {"missed", "loaded"}, record : ApiRecords] \cup
    [at : {"reading", "connected"}, record : ApiRecords, client : Places]

ASSUME ApiAssumption ==
    /\ Records = ApiRecords
    /\ Home \notin Targets
    /\ None \notin ApiRecords \cup Requests \cup Flushes \cup Places
    /\ Torn # None /\ Torn \notin Contents
    /\ MaxPuts \in Nat /\ MaxFaults \in Nat

TypeOK ==
    /\ StoreTypeOK
    /\ reviewer \in {"cluster", "injected"}
    /\ request \in [Threads -> Requests \cup {None}]
    /\ config \in Places \cup {None}
    /\ cache \in [Places -> Places \cup {None}]
    /\ raced \in BOOLEAN
    /\ puts \in 0..MaxPuts
    /\ faults \in 0..MaxFaults

Init ==
    /\ StoreInit
    /\ reviewer \in {"cluster", "injected"}
    /\ request = [t \in Threads |-> None]
    /\ config = None
    /\ cache = [c \in Places |-> None]
    /\ raced = FALSE
    /\ puts = 0
    /\ faults = 0

Idle(t) == flush[t] = None /\ request[t] = None
At(t, step) == request[t] # None /\ request[t].at = step
Fault == faults < MaxFaults /\ faults' = faults + 1

(* authorize: the default reviewer asks the cluster of the Configuration.  *)
(* While nothing has loaded one the question raises, and the answer is 500.*)
Authorized == reviewer = "cluster" => config # None

(* add_cluster, FleetRegistry.register: a new record, or one that replaces *)
(* the cluster's.                                                          *)
Register(t) ==
    /\ Idle(t)
    /\ Authorized
    /\ puts < MaxPuts
    /\ puts' = puts + 1
    /\ \E k \in Keys, r \in Records : Mutate(t, k, r)
    /\ UNCHANGED <<apiVars, faults>>

(* create_service: the cluster is known.                                   *)
CreateService(t) ==
    /\ Idle(t)
    /\ Authorized
    /\ \E k \in Keys :
          /\ data[k] # None
          /\ request' = [request EXCEPT ![t] = [at |-> "checked", cluster |-> k]]
    /\ UNCHANGED <<storeVars, reviewer, config, cache, raced, puts, faults>>

Connected(r, c) == [at |-> "connected", record |-> r, client |-> c]

(* What client_for or client has to load for a record: its context, or     *)
(* where its Secret is.                                                    *)
Wanted(r) == IF r.via = "secret" THEN Home ELSE r.to

(* What is done with a client for it: the Secret is read, or the service   *)
(* is applied.                                                             *)
With(r, c) == [at |-> IF r.via = "secret" THEN "reading" ELSE "connected",
               record |-> r, client |-> c]

(* Mutant of Connect: a client that is not in the cache is taken from it.  *)
ConnectNoMiss(t) ==
    /\ At(t, "checked")
    /\ LET r == data[request[t].cluster]
       IN  request' = [request EXCEPT ![t] =
               IF r.via = "token" THEN Connected(r, r.to) ELSE With(r, cache[Wanted(r)])]
    /\ UNCHANGED <<storeVars, reviewer, config, cache, raced, puts, faults>>

(* KubeCRGateway._client reads the record again, which may be another by   *)
(* now; resolve_secrets, then client_for_record.  A client made from a     *)
(* token has a Configuration of its own.                                   *)
Connect(t) ==
    /\ At(t, "checked")
    /\ LET r == data[request[t].cluster]
       IN  request' = [request EXCEPT ![t] =
               IF r.via = "token" THEN Connected(r, r.to)
               ELSE IF cache[Wanted(r)] # None THEN With(r, cache[Wanted(r)])
               ELSE [at |-> "missed", record |-> r]]
    /\ UNCHANGED <<storeVars, reviewer, config, cache, raced, puts, faults>>

(* Mutant of LoadConfig: a configuration that was loaded once is kept.     *)
LoadConfigOnce(t) ==
    /\ At(t, "missed")
    /\ config' = IF config = None THEN Wanted(request[t].record) ELSE config
    /\ request' = [request EXCEPT ![t].at = "loaded"]
    /\ UNCHANGED <<storeVars, reviewer, cache, raced, puts, faults>>

(* client_for and client, after a miss: load_kube_config and               *)
(* load_incluster_config set the default Configuration of the process.     *)
LoadConfig(t) ==
    /\ At(t, "missed")
    /\ config' = Wanted(request[t].record)
    /\ raced' = (raced \/ \E u \in Threads \ {t} :
                              At(u, "loaded") /\ Wanted(request[u].record) # config')
    /\ request' = [request EXCEPT ![t].at = "loaded"]
    /\ UNCHANGED <<storeVars, reviewer, cache, puts, faults>>

(* ApiClient() takes the default Configuration, and the client is kept     *)
(* until the process ends.  When another thread has made one meanwhile,    *)
(* the bounded cache of client keeps the first, the unbounded one of       *)
(* client_for the last.                                                    *)
MakeClient(t) ==
    /\ At(t, "loaded")
    /\ LET r == request[t].record
       IN  /\ request' = [request EXCEPT ![t] = With(r, config)]
           /\ cache' = [cache EXCEPT ![Wanted(r)] =
                            IF Wanted(r) = Home /\ @ # None THEN @ ELSE config]
    /\ UNCHANGED <<storeVars, reviewer, config, raced, puts, faults>>

(* _default_secret_reader, and the client made with what it found.  The    *)
(* Secret may not be there, as it is not in any other cluster: the answer  *)
(* is 500.                                                                 *)
ReadSecret(t) ==
    /\ At(t, "reading")
    /\ \/ /\ request[t].client = Home
          /\ LET r == request[t].record
             IN  request' = [request EXCEPT ![t] = Connected(r, r.to)]
       \/ request' = [request EXCEPT ![t] = None]
    /\ UNCHANGED <<storeVars, reviewer, config, cache, raced, puts, faults>>

(* apply_object: the service is in the cluster the client talks to.        *)
ApplyService(t) ==
    /\ At(t, "connected")
    /\ request' = [request EXCEPT ![t] = None]
    /\ UNCHANGED <<storeVars, reviewer, config, cache, raced, puts, faults>>

(* A step of a request raises, and the answer is 500.                      *)
RequestFails(t) ==
    /\ Fault
    /\ \/ /\ FlushFails(t)
          /\ UNCHANGED request
       \/ /\ request[t] # None
          /\ request' = [request EXCEPT ![t] = None]
          /\ UNCHANGED storeVars
    /\ UNCHANGED <<reviewer, config, cache, raced, puts>>

(* The process or the machine fails and the API is started again.          *)
Restart ==
    /\ Fault
    /\ Crash \/ PowerFailure
    /\ request' = [t \in Threads |-> None]
    /\ config' = None
    /\ cache' = [c \in Places |-> None]
    /\ raced' = FALSE
    /\ UNCHANGED <<reviewer, puts>>

Save(t) == Flush(t) /\ UNCHANGED <<apiVars, puts, faults>>

Next ==
    \/ \E t \in Threads :
          \/ Register(t) \/ Save(t)
          \/ CreateService(t) \/ Connect(t)
          \/ LoadConfig(t) \/ MakeClient(t) \/ ReadSecret(t) \/ ApplyService(t)
          \/ RequestFails(t)
    \/ WriteBack /\ UNCHANGED <<apiVars, puts, faults>>
    \/ Restart

Spec == Init /\ [][Next]_vars
-----------------------------------------------------------------------------
(* A service reaches the cluster its record names, and a Secret is looked  *)
(* for at Home, unless two threads have loaded Configurations at the same  *)
(* time since the process started; and a service always reaches its        *)
(* cluster if the record has a token or a Secret.                          *)
WrongOnlyAfterRace ==
    \A t \in Threads :
        /\ At(t, "connected") /\ request[t].client # request[t].record.to =>
               raced /\ request[t].record.via = "context"
        /\ At(t, "reading") /\ request[t].client # Home => raced

(* k8s.py:45-47: "a context name selects that entry from the kubeconfig -- *)
(* this is how the management API reaches each cluster in the fleet".      *)
RightCluster ==
    \A t \in Threads :
        At(t, "connected") => request[t].client = request[t].record.to
=============================================================================
