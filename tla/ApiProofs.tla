------------------------------- MODULE ApiProofs -------------------------------
(***************************************************************************)
(* Theorems about ManagementApi and the FileStateStore in it, for any      *)
(* threads, clusters, names and numbers of faults: the store's file is     *)
(* never torn, a mutation nobody overlapped is saved, and a service        *)
(* reaches a wrong cluster only after two clients were made at once.       *)
(***************************************************************************)
EXTENDS ManagementApi, TLAPS

(* Only whole and synced files are renamed over the target.                *)
SyncedInv ==
    /\ file.synced = TRUE
    /\ \A t \in Threads : flush[t] # None =>
          /\ flush[t].temp.content \in Contents
          /\ flush[t].at \in {"synced", "replaced"} => flush[t].temp.synced = TRUE

(* A mutation that is alone has dumped the data as they are.               *)
AloneInv ==
    \A t \in Threads : flush[t] # None /\ flush[t].alone = TRUE =>
        /\ \A u \in Threads \ {t} : flush[u] = None
        /\ flush[t].at \in {"dumped", "synced"} => flush[t].temp.content = data

StoreInv == StoreTypeOK /\ NeverTorn /\ SyncedInv /\ AloneInv /\ AloneIsSaved

(* Steps of the store, as the API makes them.                              *)
StoreStep ==
    \/ \E t \in Threads, k \in Keys, r \in Records : Mutate(t, k, r)
    \/ \E t \in Threads : Flush(t) \/ FlushFails(t)
    \/ WriteBack \/ Crash \/ PowerFailure
    \/ UNCHANGED storeVars

-----------------------------------------------------------------------------
(* The fields of a mutation under way.                                     *)
LEMMA FlushFacts ==
  ASSUME NEW f \in Flushes
  PROVE  /\ f # None
         /\ f.at \in {"mutated", "dumped", "synced", "replaced"}
         /\ f.temp \in Files /\ f.alone \in BOOLEAN
         /\ f.temp.content \in Contents \cup {Torn} /\ f.temp.synced \in BOOLEAN
  BY ApiAssumption DEF ApiAssumption, Flushes, Files

(* The store starts empty and saved.                                       *)
LEMMA StoreInitInv == StoreInit => StoreInv
<1> SUFFICES ASSUME StoreInit PROVE StoreInv
  OBVIOUS
<1> USE ApiAssumption DEF StoreInit, ApiAssumption
<1>1. Empty \in Contents /\ Empty # Torn
  BY DEF Empty, Contents
<1>2. StoreTypeOK
  BY <1>1 DEF StoreTypeOK, Files
<1>3. QED
  BY <1>1, <1>2 DEF StoreInv, NeverTorn, SyncedInv, AloneInv, AloneIsSaved

(* A mutation begins, and no other one is alone any more.                  *)
LEMMA MutateInv ==
  ASSUME StoreInv, NEW t \in Threads, NEW k \in Keys, NEW r \in Records, Mutate(t, k, r)
  PROVE  StoreInv'
<1> USE ApiAssumption DEF ApiAssumption, StoreInv, StoreTypeOK
<1>1. /\ flush[t] = None /\ UNCHANGED <<file, disk>>
      /\ data' = [data EXCEPT ![k] = r]
      /\ flush' = Begun(t, "mutated", Empty)
  BY DEF Mutate
<1>2. data' \in Contents
  BY <1>1 DEF Contents
<1>3. \A u \in Threads \ {t} :
          flush'[u] = IF flush[u] = None THEN None ELSE [flush[u] EXCEPT !.alone = FALSE]
  BY <1>1 DEF Begun
<1>4. /\ flush'[t].at = "mutated" /\ flush'[t].temp = [content |-> Empty, synced |-> FALSE]
      /\ flush'[t].alone = (\A o \in Threads \ {t} : flush[o] = None)
  BY <1>1 DEF Begun
<1>5. Empty \in Contents
  BY DEF Empty, Contents
<1>6. flush'[t] \in Flushes
  <2>1. flush'[t] = [at |-> "mutated", temp |-> [content |-> Empty, synced |-> FALSE],
                     alone |-> \A o \in Threads \ {t} : flush[o] = None]
    BY <1>1 DEF Begun
  <2>2. (\A o \in Threads \ {t} : flush[o] = None) \in BOOLEAN
    OBVIOUS
  <2>3. [content |-> Empty, synced |-> FALSE] \in Files
    BY <1>5 DEF Files
  <2>4. \A b \in BOOLEAN :
            [at |-> "mutated", temp |-> [content |-> Empty, synced |-> FALSE], alone |-> b]
                \in Flushes
    BY <2>3 DEF Flushes
  <2> HIDE DEF StoreInv, StoreTypeOK
  <2>5. QED
    BY <2>1, <2>2, <2>4, Zenon
<1>7. \A u \in Threads \ {t} : flush[u] # None =>
          /\ flush'[u] \in Flushes /\ flush'[u].alone = FALSE
          /\ flush'[u].at = flush[u].at /\ flush'[u].temp = flush[u].temp
  <2>1. SUFFICES ASSUME NEW u \in Threads \ {t}, flush[u] # None
                 PROVE  /\ flush'[u] \in Flushes /\ flush'[u].alone = FALSE
                        /\ flush'[u].at = flush[u].at /\ flush'[u].temp = flush[u].temp
    OBVIOUS
  <2>a. flush \in [Threads -> Flushes \cup {None}]
    BY Zenon
  <2>2. flush[u] \in Flushes
    BY <2>a, <2>1, Zenon
  <2>3. flush'[u] = [flush[u] EXCEPT !.alone = FALSE]
    BY <1>3, <2>1
  <2> HIDE DEF StoreInv, StoreTypeOK
  <2>4. ASSUME NEW f \in Flushes, NEW g, g = [f EXCEPT !.alone = FALSE]
        PROVE  g \in Flushes /\ g.alone = FALSE /\ g.at = f.at /\ g.temp = f.temp
    BY <2>4 DEF Flushes
  <2>5. QED
    BY <2>2, <2>3, <2>4
<1>8. flush' \in [Threads -> Flushes \cup {None}]
  <2>1. DOMAIN flush' = Threads /\ flush' = [u \in Threads |-> flush'[u]]
    BY <1>1 DEF Begun
  <2>2. \A u \in Threads : flush'[u] \in Flushes \cup {None}
    BY <1>3, <1>6, <1>7
  <2>3. QED
    BY <2>1, <2>2
<1>9. StoreTypeOK' /\ NeverTorn'
  BY <1>1, <1>2, <1>8 DEF NeverTorn
<1>10. SyncedInv'
  <2>1. /\ flush'[t].temp.content \in Contents
        /\ flush'[t].at \notin {"synced", "replaced"}
    BY <1>4, <1>5
  <2>2. \A u \in Threads \ {t} : flush'[u] # None =>
            /\ flush'[u].temp.content \in Contents
            /\ flush'[u].at \in {"synced", "replaced"} => flush'[u].temp.synced = TRUE
    <3>1. SUFFICES ASSUME NEW u \in Threads \ {t}, flush'[u] # None
                   PROVE  /\ flush'[u].temp.content \in Contents
                          /\ flush'[u].at \in {"synced", "replaced"} =>
                                flush'[u].temp.synced = TRUE
      OBVIOUS
    <3>2. flush[u] # None
      BY <1>3, <3>1
    <3>3. QED
      BY <1>7, <3>1, <3>2 DEF SyncedInv
  <2>3. QED
    BY <1>1, <2>1, <2>2 DEF SyncedInv
<1>11. AloneInv' /\ AloneIsSaved'
  <2>1. \A u \in Threads : flush'[u] # None /\ flush'[u].alone = TRUE =>
            u = t /\ flush'[u].at = "mutated" /\ \A o \in Threads \ {t} : flush[o] = None
    BY <1>3, <1>4, <1>7
  <2>2. \A u \in Threads : flush'[u] # None => flush'[u] \in Flushes
    BY <1>8
  <2>3. QED
    BY <1>3, <2>1, <2>2, FlushFacts DEF AloneInv, AloneIsSaved
<1>12. QED
  BY <1>9, <1>10, <1>11

(* A mutation comes a step further: what its temporary file holds and what *)
(* others see depends on the step.                                         *)
LEMMA AdvanceFacts ==
  ASSUME flush \in [Threads -> Flushes \cup {None}],
         NEW t \in Threads, flush[t] # None,
         NEW step \in {"mutated", "dumped", "synced", "replaced"}, NEW temp \in Files,
         Advance(t, step, temp)
  PROVE  /\ flush' \in [Threads -> Flushes \cup {None}]
         /\ flush'[t] # None /\ flush'[t].at = step /\ flush'[t].temp = temp
         /\ flush'[t].alone = flush[t].alone
         /\ \A u \in Threads \ {t} : flush'[u] = flush[u]
<1> DEFINE new == [at |-> step, temp |-> temp, alone |-> flush[t].alone]
<1>1. new \in Flushes /\ new # None
  BY FlushFacts, ApiAssumption DEF Flushes, ApiAssumption
<1>2. flush' = [flush EXCEPT ![t] = new]
  BY DEF Advance
<1>3. new.at = step /\ new.temp = temp /\ new.alone = flush[t].alone
  OBVIOUS
<1> HIDE DEF new
<1>4. QED
  BY <1>1, <1>2, <1>3

(* The data are dumped into the temporary file.                            *)
LEMMA DumpInv == ASSUME StoreInv, NEW t \in Threads, Dump(t) PROVE StoreInv'
<1> USE ApiAssumption DEF ApiAssumption, StoreInv, StoreTypeOK
<1>1. /\ flush[t] # None /\ flush[t].at = "mutated"
      /\ Advance(t, "dumped", [content |-> data, synced |-> FALSE])
      /\ UNCHANGED <<data, file, disk>>
  BY DEF Dump
<1>2. [content |-> data, synced |-> FALSE] \in Files
  BY DEF Files
<1>3. /\ flush' \in [Threads -> Flushes \cup {None}]
      /\ flush'[t].at = "dumped" /\ flush'[t].temp.content = data
      /\ flush'[t].alone = flush[t].alone
      /\ \A u \in Threads \ {t} : flush'[u] = flush[u]
  BY <1>1, <1>2, AdvanceFacts
<1>4. StoreTypeOK' /\ NeverTorn'
  BY <1>1, <1>3 DEF NeverTorn
<1>5. SyncedInv' /\ AloneInv' /\ AloneIsSaved'
  BY <1>1, <1>3 DEF SyncedInv, AloneInv, AloneIsSaved
<1>6. QED
  BY <1>4, <1>5

(* The temporary file is synced.                                           *)
LEMMA SyncInv == ASSUME StoreInv, NEW t \in Threads, Sync(t) PROVE StoreInv'
<1> USE ApiAssumption DEF ApiAssumption, StoreInv, StoreTypeOK
<1> DEFINE temp == [content |-> flush[t].temp.content, synced |-> TRUE]
<1>1. /\ flush[t] # None /\ flush[t].at = "dumped"
      /\ Advance(t, "synced", temp)
      /\ UNCHANGED <<data, file, disk>>
  BY DEF Sync
<1>2. flush[t].temp.content \in Contents /\ temp \in Files
  BY <1>1 DEF Files, SyncedInv
<1>3. /\ flush' \in [Threads -> Flushes \cup {None}]
      /\ flush'[t].at = "synced" /\ flush'[t].temp = temp
      /\ flush'[t].alone = flush[t].alone
      /\ \A u \in Threads \ {t} : flush'[u] = flush[u]
  BY <1>1, <1>2, AdvanceFacts
<1>a. flush'[t].temp.content = flush[t].temp.content /\ flush'[t].temp.synced = TRUE
  BY <1>3
<1> HIDE DEF temp
<1>4. StoreTypeOK' /\ NeverTorn'
  BY <1>1, <1>3 DEF NeverTorn
<1>5. SyncedInv' /\ AloneInv' /\ AloneIsSaved'
  BY <1>1, <1>2, <1>3, <1>a DEF SyncedInv, AloneInv, AloneIsSaved
<1>6. QED
  BY <1>4, <1>5

(* The temporary file, whole and synced, becomes the target.               *)
LEMMA ReplaceInv == ASSUME StoreInv, NEW t \in Threads, Replace(t) PROVE StoreInv'
<1> USE ApiAssumption DEF ApiAssumption, StoreInv, StoreTypeOK
<1>1. /\ flush[t] # None /\ flush[t].at = "synced"
      /\ Advance(t, "replaced", flush[t].temp)
      /\ file' = flush[t].temp
      /\ UNCHANGED <<data, disk>>
  BY DEF Replace
<1>2. /\ flush[t].temp \in Files /\ flush[t].temp.content \in Contents
      /\ flush[t].temp.synced = TRUE
  BY <1>1, FlushFacts DEF SyncedInv
<1>3. /\ flush' \in [Threads -> Flushes \cup {None}]
      /\ flush'[t].at = "replaced" /\ flush'[t].temp = flush[t].temp
      /\ flush'[t].alone = flush[t].alone
      /\ \A u \in Threads \ {t} : flush'[u] = flush[u]
  BY <1>1, <1>2, AdvanceFacts
<1>4. StoreTypeOK' /\ NeverTorn'
  BY <1>1, <1>2, <1>3 DEF NeverTorn
<1>5. SyncedInv'
  BY <1>1, <1>2, <1>3 DEF SyncedInv
<1>6. AloneInv'
  BY <1>1, <1>3 DEF AloneInv
<1>7. AloneIsSaved'
  <2>1. SUFFICES ASSUME NEW u \in Threads, flush'[u] # None, flush'[u].at = "replaced",
                        flush'[u].alone
                 PROVE  file'.content = data'
    BY DEF AloneIsSaved
  <2>2. u = t
    BY <1>1, <1>3, <2>1 DEF AloneInv
  <2>3. QED
    BY <1>1, <1>3, <2>1, <2>2 DEF AloneInv
<1>8. QED
  BY <1>4, <1>5, <1>6, <1>7

(* A mutation returns or fails, which takes nothing from the others.       *)
LEMMA EndInv ==
  ASSUME StoreInv, NEW t \in Threads, Return(t) \/ FlushFails(t) PROVE StoreInv'
<1> USE ApiAssumption DEF ApiAssumption, StoreInv, StoreTypeOK
<1>1. flush' = [flush EXCEPT ![t] = None] /\ UNCHANGED <<data, file, disk>>
  BY DEF Return, FlushFails
<1>2. QED
  BY <1>1 DEF NeverTorn, SyncedInv, AloneInv, AloneIsSaved

(* The directory is written; a new process loads what is there.            *)
LEMMA OutsideInv == ASSUME StoreInv, WriteBack \/ Crash \/ PowerFailure PROVE StoreInv'
<1> USE ApiAssumption DEF ApiAssumption, StoreInv, StoreTypeOK
<1>1. file.content \in Contents /\ disk \in Contents /\ file.synced = TRUE
  BY DEF NeverTorn, SyncedInv, Files
<1>2. CASE WriteBack
  BY <1>1, <1>2 DEF WriteBack, NeverTorn, SyncedInv, AloneInv, AloneIsSaved
<1>3. ASSUME NEW c \in Contents, Load(c), disk' \in Contents PROVE StoreInv'
  <2>1. /\ data' = c /\ file' = [content |-> c, synced |-> TRUE]
        /\ flush' = [t \in Threads |-> None]
    BY <1>3 DEF Load
  <2>2. file' \in Files /\ file'.content = c /\ file'.synced = TRUE
    BY <2>1 DEF Files
  <2>3. QED
    BY <1>3, <2>1, <2>2 DEF NeverTorn, SyncedInv, AloneInv, AloneIsSaved
<1>4. CASE Crash
  BY <1>1, <1>3, <1>4 DEF Crash
<1>5. CASE PowerFailure
  <2>1. Survivors \subseteq Contents
    BY <1>1 DEF Survivors
  <2>2. QED
    BY <1>3, <1>5, <2>1 DEF PowerFailure
<1>6. QED
  BY <1>2, <1>4, <1>5

(* Every step of the store preserves its invariant.                        *)
LEMMA StoreStepInv == StoreInv /\ StoreStep => StoreInv'
<1> SUFFICES ASSUME StoreInv, StoreStep PROVE StoreInv'
  OBVIOUS
<1>1. CASE \E t \in Threads, k \in Keys, r \in Records : Mutate(t, k, r)
  BY <1>1, MutateInv
<1>2. CASE \E t \in Threads : Flush(t) \/ FlushFails(t)
  BY <1>2, DumpInv, SyncInv, ReplaceInv, EndInv DEF Flush
<1>3. CASE WriteBack \/ Crash \/ PowerFailure
  BY <1>3, OutsideInv
<1>4. CASE UNCHANGED storeVars
  BY <1>4 DEF storeVars, StoreInv, StoreTypeOK, NeverTorn, SyncedInv, AloneInv, AloneIsSaved
<1>5. QED
  BY <1>1, <1>2, <1>3, <1>4 DEF StoreStep

-----------------------------------------------------------------------------
(* A cluster that was found stays in the registry while a request needs    *)
(* it: nothing is deleted.                                                 *)
CheckedInv == \A t \in Threads : At(t, "checked") => data[request[t].cluster] # None

(* Until a race the clients in the cache are right, and a thread that has  *)
(* loaded a Configuration finds its own.                                   *)
ClientInv ==
    /\ \A t \in Threads : At(t, "missed") \/ At(t, "loaded") =>
          request[t].record.via # "token"
    /\ \A t \in Threads : At(t, "loaded") =>
          /\ config \in Places
          /\ ~raced => config = Wanted(request[t].record)
    /\ ~raced => \A c \in Places : cache[c] \in {None, c}

IInv == TypeOK /\ StoreInv /\ CheckedInv /\ ClientInv /\ WrongOnlyAfterRace

(* The shapes of a request under way.                                      *)
LEMMA RequestFacts ==
  ASSUME NEW q \in Requests
  PROVE  /\ q # None
         /\ q.at \in {"checked", "missed", "loaded", "reading", "connected"}
         /\ q.at = "checked" => q.cluster \in Keys
         /\ q.at \in {"missed", "loaded", "reading", "connected"} =>
               /\ q.record \in ApiRecords
               /\ q.record.to \in Targets /\ q.record.via \in {"token", "secret", "context"}
         /\ q.at \in {"reading", "connected"} => q.client \in Places
  BY ApiAssumption DEF ApiAssumption, Requests, ApiRecords

(* The shapes of a request, as they are made.                              *)
LEMMA MakeRequests ==
  /\ \A k \in Keys : [at |-> "checked", cluster |-> k] \in Requests
  /\ \A r \in ApiRecords : [at |-> "missed", record |-> r] \in Requests
  /\ \A r \in ApiRecords : [at |-> "loaded", record |-> r] \in Requests
  /\ \A r \in ApiRecords, c \in Places : Connected(r, c) \in Requests
  /\ \A r \in ApiRecords, c \in Places : With(r, c) \in Requests
  BY DEF Requests, Connected, With

(* A request goes on: its thread's entry is new, the others' are not.      *)
LEMMA RequestSet ==
  ASSUME request \in [Threads -> Requests \cup {None}], NEW t \in Threads,
         NEW q \in Requests \cup {None}, request' = [request EXCEPT ![t] = q]
  PROVE  /\ request' \in [Threads -> Requests \cup {None}]
         /\ request'[t] = q
         /\ \A u \in Threads \ {t} : request'[u] = request[u]
  OBVIOUS

(* The invariant holds initially.                                          *)
LEMMA InitIInv == Init => IInv
<1> SUFFICES ASSUME Init PROVE IInv
  OBVIOUS
<1>1. StoreInv
  BY StoreInitInv DEF Init
<1>2. /\ request = [t \in Threads |-> None] /\ cache = [c \in Places |-> None]
      /\ config = None /\ raced = FALSE
  BY Zenon DEF Init
<1>3. puts \in 0..MaxPuts /\ faults \in 0..MaxFaults
  BY ApiAssumption DEF Init, ApiAssumption
<1>4. TypeOK
  <2>1. StoreTypeOK
    BY <1>1 DEF StoreInv
  <2>2. raced \in BOOLEAN /\ reviewer \in {"cluster", "injected"}
    BY <1>2, Zenon DEF Init
  <2>3. /\ request \in [Threads -> Requests \cup {None}]
        /\ cache \in [Places -> Places \cup {None}] /\ config \in Places \cup {None}
    BY <1>2
  <2>4. QED
    BY <1>3, <2>1, <2>2, <2>3, Zenon DEF TypeOK
<1>5. CheckedInv /\ ClientInv /\ WrongOnlyAfterRace
  BY <1>2 DEF CheckedInv, ClientInv, WrongOnlyAfterRace, At
<1>6. QED
  BY <1>1, <1>4, <1>5 DEF IInv

(* Every step of the API is one of the store, or leaves the store alone.   *)
LEMMA StoreKept == IInv /\ [Next]_vars => StoreInv'
<1> SUFFICES ASSUME IInv, [Next]_vars PROVE StoreInv'
  OBVIOUS
<1>1. StoreStep
  <2>1. CASE Next
    BY <2>1 DEF Next, StoreStep, Register, Save, RequestFails, Restart, CreateService,
       Connect, LoadConfig, MakeClient, ReadSecret, ApplyService
  <2>2. CASE UNCHANGED vars
    BY <2>2 DEF vars, StoreStep
  <2>3. QED
    BY <2>1, <2>2
<1>2. QED
  BY <1>1, StoreStepInv DEF IInv

(* A registration, and the steps of its flush.                             *)
LEMMA RegistryInv ==
  ASSUME IInv, StoreInv', NEW t \in Threads, Register(t) \/ Save(t) PROVE IInv'
<1> USE ApiAssumption DEF ApiAssumption, IInv
<1>1. UNCHANGED <<reviewer, request, config, cache, raced, faults>>
  BY DEF Register, Save, apiVars
<1>2. puts' \in 0..MaxPuts
  BY DEF Register, Save, TypeOK
<1>3. StoreTypeOK'
  BY DEF StoreInv
<1>4. TypeOK'
  BY <1>1, <1>2, <1>3 DEF TypeOK
<1>5. \A k \in Keys : data[k] # None => data'[k] # None
  <2>1. CASE Register(t)
    <3>1. PICK k \in Keys, r \in Records : Mutate(t, k, r)
      BY <2>1 DEF Register
    <3>2. data' = [data EXCEPT ![k] = r] /\ r # None
      BY <3>1 DEF Mutate
    <3>3. data \in [Keys -> Records \cup {None}]
      BY DEF TypeOK, StoreTypeOK, Contents
    <3>4. QED
      BY <3>2, <3>3
  <2>2. CASE Save(t)
    BY <2>2 DEF Save, Flush, Dump, Sync, Replace, Return
  <2>3. QED
    BY <2>1, <2>2
<1>6. CheckedInv'
  <2>1. SUFFICES ASSUME NEW u \in Threads, At(u, "checked")
                 PROVE  data'[request[u].cluster] # None
    BY <1>1 DEF CheckedInv, At
  <2>2. request[u] \in Requests /\ request[u].cluster \in Keys
    BY <2>1, RequestFacts DEF At, TypeOK
  <2>3. QED
    BY <1>5, <2>1, <2>2 DEF CheckedInv
<1>7. ClientInv' /\ WrongOnlyAfterRace'
  BY <1>1 DEF ClientInv, WrongOnlyAfterRace, At
<1>8. QED
  BY <1>4, <1>6, <1>7

(* What a request may come to when the Configuration and the cache stay as *)
(* they are.                                                               *)
Sound(q) ==
    q # None =>
        /\ q.at \in {"checked", "missed", "reading", "connected"}
        /\ q.at = "checked" => data[q.cluster] # None
        /\ q.at = "missed" => q.record.via # "token"
        /\ q.at = "connected" /\ q.client # q.record.to =>
              raced /\ q.record.via = "context"
        /\ q.at = "reading" /\ q.client # Home => raced

(* A connection to the record's own cluster.                               *)
LEMMA SoundConnected ==
  ASSUME NEW r \in ApiRecords
  PROVE  Connected(r, r.to) \in Requests /\ Sound(Connected(r, r.to))
<1>1. r.to \in Places
  BY DEF ApiRecords, Places
<1>2. Connected(r, r.to) \in Requests
  BY <1>1, MakeRequests
<1>3. /\ Connected(r, r.to).at = "connected"
      /\ Connected(r, r.to).client = r.to /\ Connected(r, r.to).record = r
  BY DEF Connected
<1>4. QED
  BY <1>2, <1>3 DEF Sound

(* A client from the cache or a new one, which is right until a race.      *)
LEMMA SoundWith ==
  ASSUME NEW r \in ApiRecords, r.via # "token", NEW c \in Places, c # Wanted(r) => raced
  PROVE  With(r, c) \in Requests /\ Sound(With(r, c))
<1>1. With(r, c) \in Requests
  BY MakeRequests
<1>2. /\ With(r, c).client = c /\ With(r, c).record = r
      /\ With(r, c).at = IF r.via = "secret" THEN "reading" ELSE "connected"
  BY DEF With
<1>3. r.via = "secret" \/ r.via = "context"
  BY DEF ApiRecords
<1>4. CASE r.via = "secret"
  BY <1>1, <1>2, <1>4 DEF Sound, Wanted
<1>5. CASE r.via = "context"
  BY <1>1, <1>2, <1>5 DEF Sound, Wanted
<1>6. QED
  BY <1>3, <1>4, <1>5

(* A step that changes one thread's request and nothing that the others    *)
(* look at.                                                                *)
LEMMA RequestChange ==
  ASSUME IInv, StoreInv', NEW t \in Threads, NEW q \in Requests \cup {None}, Sound(q),
         request' = [request EXCEPT ![t] = q] \/ UNCHANGED request,
         UNCHANGED <<data, reviewer, config, cache, raced, puts>>, faults' \in 0..MaxFaults
  PROVE  IInv'
<1> USE ApiAssumption DEF ApiAssumption, IInv
<1>1. PICK T \in SUBSET Threads :
          /\ request' \in [Threads -> Requests \cup {None}]
          /\ \A u \in T : request'[u] = q
          /\ \A u \in Threads \ T : request'[u] = request[u]
  <2>1. CASE request' = [request EXCEPT ![t] = q]
    <3>1. /\ request' \in [Threads -> Requests \cup {None}]
          /\ request'[t] = q
          /\ \A u \in Threads \ {t} : request'[u] = request[u]
      BY <2>1, RequestSet DEF TypeOK
    <3>2. {t} \in SUBSET Threads
      OBVIOUS
    <3>3. QED
      BY <3>1, <3>2
  <2>2. CASE UNCHANGED request
    <3>1. {} \in SUBSET Threads
      OBVIOUS
    <3>2. QED
      BY <2>2, <3>1 DEF TypeOK
  <2>3. QED
    BY <2>1, <2>2
<1>2. TypeOK'
  BY <1>1 DEF TypeOK, StoreInv
<1>3. CheckedInv'
  BY <1>1 DEF CheckedInv, At, Sound
<1>4. ClientInv'
  BY <1>1 DEF ClientInv, At, Sound
<1>5. WrongOnlyAfterRace'
  BY <1>1 DEF WrongOnlyAfterRace, At, Sound
<1>6. QED
  BY <1>2, <1>3, <1>4, <1>5

(* create_service finds its cluster.                                       *)
LEMMA CreateServiceInv ==
  ASSUME IInv, StoreInv', NEW t \in Threads, CreateService(t) PROVE IInv'
<1>1. PICK k \in Keys : /\ data[k] # None
                        /\ request' = [request EXCEPT ![t] = [at |-> "checked", cluster |-> k]]
  BY DEF CreateService
<1> DEFINE q == [at |-> "checked", cluster |-> k]
<1>2. q \in Requests /\ q.at = "checked" /\ q.cluster = k
  BY MakeRequests
<1>3. request' = [request EXCEPT ![t] = q]
  BY <1>1
<1> HIDE DEF q
<1>4. Sound(q)
  BY <1>1, <1>2 DEF Sound
<1>5. UNCHANGED <<data, reviewer, config, cache, raced, puts>> /\ faults' \in 0..MaxFaults
  BY DEF CreateService, storeVars, IInv, TypeOK
<1>6. QED
  BY <1>2, <1>3, <1>4, <1>5, RequestChange

(* The client for the record: of a token, from the cache, or still to be   *)
(* made.                                                                   *)
LEMMA ConnectInv ==
  ASSUME IInv, StoreInv', NEW t \in Threads, Connect(t) PROVE IInv'
<1> USE ApiAssumption DEF ApiAssumption, IInv
<1>1. UNCHANGED <<data, reviewer, config, cache, raced, puts>> /\ faults' \in 0..MaxFaults
  BY DEF Connect, storeVars, TypeOK
<1>2. /\ request \in [Threads -> Requests \cup {None}]
      /\ cache \in [Places -> Places \cup {None}]
  BY DEF TypeOK
<1> DEFINE r == data[request[t].cluster]
<1>3. r \in ApiRecords
  <2>1. At(t, "checked")
    BY DEF Connect
  <2>2. request[t] \in Requests /\ request[t].cluster \in Keys
    BY <1>2, <2>1, RequestFacts DEF At
  <2>3. data \in [Keys -> Records \cup {None}] /\ r # None
    BY <2>1 DEF TypeOK, StoreTypeOK, Contents, CheckedInv
  <2>4. QED
    BY <2>2, <2>3
<1>4. Wanted(r) \in Places
  BY <1>3 DEF ApiRecords, Wanted, Places
<1>5. request' = [request EXCEPT ![t] =
          IF r.via = "token" THEN Connected(r, r.to)
          ELSE IF cache[Wanted(r)] # None THEN With(r, cache[Wanted(r)])
          ELSE [at |-> "missed", record |-> r]]
  BY DEF Connect
<1> HIDE DEF r
<1>6. CASE r.via = "token"
  <2>1. request' = [request EXCEPT ![t] = Connected(r, r.to)]
    BY <1>5, <1>6
  <2>2. Connected(r, r.to) \in Requests /\ Sound(Connected(r, r.to))
    BY <1>3, SoundConnected
  <2>3. QED
    BY <1>1, <2>1, <2>2, RequestChange
<1>7. CASE r.via # "token" /\ cache[Wanted(r)] # None
  <2> DEFINE c == cache[Wanted(r)]
  <2>1. request' = [request EXCEPT ![t] = With(r, c)]
    BY <1>5, <1>7
  <2>2. c \in Places
    BY <1>2, <1>4, <1>7
  <2>3. c # Wanted(r) => raced
    BY <1>4, <1>7 DEF ClientInv
  <2> HIDE DEF c
  <2>4. With(r, c) \in Requests /\ Sound(With(r, c))
    BY <1>3, <1>7, <2>2, <2>3, SoundWith
  <2>5. QED
    BY <1>1, <2>1, <2>4, RequestChange
<1>8. CASE r.via # "token" /\ cache[Wanted(r)] = None
  <2> DEFINE q == [at |-> "missed", record |-> r]
  <2>1. request' = [request EXCEPT ![t] = q]
    BY <1>5, <1>8
  <2>2. q \in Requests /\ q.at = "missed" /\ q.record = r
    BY <1>3, MakeRequests
  <2> HIDE DEF q
  <2>3. Sound(q)
    BY <1>8, <2>2 DEF Sound
  <2>4. QED
    BY <1>1, <2>1, <2>2, <2>3, RequestChange
<1>9. QED
  BY <1>6, <1>7, <1>8

(* The Secret is read, or it is not there.                                 *)
LEMMA ReadSecretInv ==
  ASSUME IInv, StoreInv', NEW t \in Threads, ReadSecret(t) PROVE IInv'
<1> DEFINE r == request[t].record
<1>1. UNCHANGED <<data, reviewer, config, cache, raced, puts>> /\ faults' \in 0..MaxFaults
  BY DEF ReadSecret, storeVars, IInv, TypeOK
<1>2. CASE request' = [request EXCEPT ![t] = Connected(r, r.to)]
  <2>1. request[t] \in Requests /\ request[t].at = "reading"
    BY DEF ReadSecret, At, IInv, TypeOK
  <2>2. r \in ApiRecords
    BY <2>1, RequestFacts
  <2> HIDE DEF r
  <2>3. Connected(r, r.to) \in Requests /\ Sound(Connected(r, r.to))
    BY <2>2, SoundConnected
  <2>4. QED
    BY <1>1, <1>2, <2>3, RequestChange
<1>3. CASE request' = [request EXCEPT ![t] = None]
  BY <1>1, <1>3, RequestChange DEF Sound
<1>4. QED
  BY <1>2, <1>3 DEF ReadSecret

(* The end of a request, or of a registration that fails.                  *)
LEMMA EndRequestInv ==
  ASSUME IInv, StoreInv', NEW t \in Threads, ApplyService(t) \/ RequestFails(t)
  PROVE  IInv'
<1>1. request' = [request EXCEPT ![t] = None] \/ UNCHANGED request
  BY DEF ApplyService, RequestFails
<1>2. UNCHANGED <<data, reviewer, config, cache, raced, puts>>
  BY DEF ApplyService, RequestFails, FlushFails, storeVars
<1>3. faults' \in 0..MaxFaults
  BY ApiAssumption DEF ApiAssumption, ApplyService, RequestFails, Fault, IInv, TypeOK
<1>4. Sound(None)
  BY DEF Sound
<1>5. QED
  BY <1>1, <1>2, <1>3, <1>4, RequestChange

(* A Configuration is loaded: whoever has loaded another and not used it   *)
(* yet makes this a race.                                                  *)
LEMMA LoadConfigInv ==
  ASSUME IInv, StoreInv', NEW t \in Threads, LoadConfig(t) PROVE IInv'
<1> USE ApiAssumption DEF ApiAssumption, IInv
<1> DEFINE r == request[t].record
           q == [at |-> "loaded", record |-> r]
           overwritten == \E u \in Threads \ {t} :
                              At(u, "loaded") /\ Wanted(request[u].record) # config'
<1>1. /\ request \in [Threads -> Requests \cup {None}]
      /\ At(t, "missed")
  BY DEF LoadConfig, TypeOK
<1>2. r \in ApiRecords /\ Wanted(r) \in Places /\ r.via # "token"
  <2>1. request[t] \in Requests /\ r \in ApiRecords /\ r.via # "token"
    BY <1>1, RequestFacts DEF At, ClientInv
  <2>2. QED
    BY <2>1 DEF Wanted, Places, ApiRecords
<1>3. q \in Requests /\ q # None /\ q.at = "loaded" /\ q.record = r
  BY <1>2, MakeRequests
<1>4. request' = [request EXCEPT ![t] = q]
  <2>1. request[t] \in [at : {"missed", "loaded"}, record : ApiRecords]
    BY <1>1 DEF At, Requests
  <2>2. request' = [request EXCEPT ![t].at = "loaded"]
    BY DEF LoadConfig
  <2>3. [request[t] EXCEPT !.at = "loaded"] = q
    BY <2>1
  <2>4. QED
    BY <1>1, <2>2, <2>3, Zenon
<1>5. /\ UNCHANGED <<data, reviewer, cache, puts, faults>>
      /\ config' = Wanted(r)
  BY DEF LoadConfig, storeVars
<1>6. raced' = (raced \/ overwritten)
  BY Zenon DEF LoadConfig
<1>7. raced' \in BOOLEAN /\ (raced => raced') /\ (overwritten => raced')
  BY <1>6, Zenon
<1> HIDE DEF q
<1>8. /\ request' \in [Threads -> Requests \cup {None}]
      /\ request'[t] = q
      /\ \A u \in Threads \ {t} : request'[u] = request[u]
  BY <1>1, <1>3, <1>4, RequestSet
<1> HIDE DEF r
<1>9. TypeOK'
  <2>1. StoreTypeOK'
    BY DEF StoreInv
  <2>2. config' \in Places \cup {None} /\ cache' \in [Places -> Places \cup {None}]
        /\ puts' \in 0..MaxPuts /\ faults' \in 0..MaxFaults
        /\ reviewer' \in {"cluster", "injected"}
    BY <1>2, <1>5 DEF TypeOK
  <2>3. QED
    BY <1>7, <1>8, <2>1, <2>2, Zenon DEF TypeOK
<1>10. CheckedInv'
  BY <1>3, <1>5, <1>8 DEF CheckedInv, At
<1>11. ClientInv'
  <2>1. ASSUME NEW u \in Threads, At(u, "missed")' \/ At(u, "loaded")'
        PROVE  request'[u].record.via # "token"
    BY <1>2, <1>3, <1>8, <2>1 DEF ClientInv, At
  <2>2. ASSUME NEW u \in Threads, At(u, "loaded")', ~raced'
        PROVE  config' = Wanted(request'[u].record)
    BY <1>3, <1>5, <1>7, <1>8, <2>2 DEF At
  <2>3. config' \in Places
    BY <1>2, <1>5
  <2>4. ~raced' => \A c \in Places : cache'[c] \in {None, c}
    BY <1>5, <1>7 DEF ClientInv
  <2>5. QED
    BY <2>1, <2>2, <2>3, <2>4, Zenon DEF ClientInv
<1>12. WrongOnlyAfterRace'
  BY <1>3, <1>7, <1>8 DEF WrongOnlyAfterRace, At
<1>13. QED
  BY <1>9, <1>10, <1>11, <1>12

(* A client is made from the Configuration there is.                       *)
LEMMA MakeClientInv ==
  ASSUME IInv, StoreInv', NEW t \in Threads, MakeClient(t) PROVE IInv'
<1> USE ApiAssumption DEF ApiAssumption, IInv
<1> DEFINE r == request[t].record
           q == With(r, config)
           kept == IF Wanted(r) = Home /\ cache[Wanted(r)] # None THEN cache[Wanted(r)] ELSE config
<1>1. /\ request \in [Threads -> Requests \cup {None}]
      /\ cache \in [Places -> Places \cup {None}]
      /\ At(t, "loaded")
  BY DEF MakeClient, TypeOK
<1>2. r \in ApiRecords /\ Wanted(r) \in Places /\ r.via # "token"
  <2>1. request[t] \in Requests /\ r \in ApiRecords /\ r.via # "token"
    BY <1>1, RequestFacts DEF At, ClientInv
  <2>2. QED
    BY <2>1 DEF Wanted, Places, ApiRecords
<1>3. config \in Places /\ (~raced => config = Wanted(r))
  BY <1>1 DEF ClientInv
<1>4. /\ request' = [request EXCEPT ![t] = q]
      /\ cache' = [cache EXCEPT ![Wanted(r)] = kept]
      /\ UNCHANGED <<data, reviewer, config, raced, puts, faults>>
  BY DEF MakeClient, storeVars
<1> HIDE DEF r
<1>5. q \in Requests /\ Sound(q)
  BY <1>2, <1>3, SoundWith
<1>a. kept \in Places /\ (~raced => kept = Wanted(r))
  BY <1>1, <1>2, <1>3 DEF ClientInv
<1> HIDE DEF q, kept
<1>6. /\ request' \in [Threads -> Requests \cup {None}]
      /\ request'[t] = q
      /\ \A u \in Threads \ {t} : request'[u] = request[u]
  BY <1>1, <1>4, <1>5, RequestSet
<1>7. cache' \in [Places -> Places \cup {None}]
  BY <1>1, <1>4, <1>a
<1>8. TypeOK'
  BY <1>4, <1>6, <1>7 DEF TypeOK, StoreInv
<1>9. CheckedInv'
  BY <1>4, <1>5, <1>6 DEF CheckedInv, At, Sound
<1>10. ~raced => \A c \in Places : cache'[c] \in {None, c}
  BY <1>1, <1>2, <1>4, <1>a DEF ClientInv
<1>11. ClientInv'
  BY <1>4, <1>5, <1>6, <1>10 DEF ClientInv, At, Sound
<1>12. WrongOnlyAfterRace'
  BY <1>4, <1>5, <1>6 DEF WrongOnlyAfterRace, At, Sound
<1>13. QED
  BY <1>8, <1>9, <1>11, <1>12

(* The API is started again: no request, no client, nothing loaded.        *)
LEMMA RestartInv == ASSUME IInv, StoreInv', Restart PROVE IInv'
<1> USE ApiAssumption DEF ApiAssumption, IInv
<1>1. /\ request' = [t \in Threads |-> None] /\ cache' = [c \in Places |-> None]
      /\ config' = None /\ raced' = FALSE
  BY Zenon DEF Restart
<1>2. puts' \in 0..MaxPuts /\ faults' \in 0..MaxFaults
  BY DEF Restart, Fault, TypeOK
<1>3. TypeOK'
  <2>1. StoreTypeOK'
    BY DEF StoreInv
  <2>2. raced' \in BOOLEAN /\ reviewer' \in {"cluster", "injected"}
    BY <1>1, Zenon DEF Restart, TypeOK
  <2>3. /\ request' \in [Threads -> Requests \cup {None}]
        /\ cache' \in [Places -> Places \cup {None}] /\ config' \in Places \cup {None}
    BY <1>1
  <2>4. QED
    BY <1>2, <2>1, <2>2, <2>3, Zenon DEF TypeOK
<1>4. CheckedInv' /\ ClientInv' /\ WrongOnlyAfterRace'
  BY <1>1 DEF CheckedInv, ClientInv, WrongOnlyAfterRace, At
<1>5. QED
  BY <1>3, <1>4

(* Nothing of the API changes, nor the registry.                           *)
LEMMA ApiStutter ==
  ASSUME IInv, StoreInv', UNCHANGED <<data, apiVars, puts, faults>> PROVE IInv'
BY DEF IInv, StoreInv, TypeOK, apiVars, CheckedInv, ClientInv, WrongOnlyAfterRace, At

(* Every step keeps the invariant.                                         *)
LEMMA InductiveStep == IInv /\ [Next]_vars => IInv'
<1> SUFFICES ASSUME IInv, [Next]_vars PROVE IInv'
  OBVIOUS
<1>1. StoreInv'
  BY StoreKept
<1>2. CASE \E t \in Threads : Register(t) \/ Save(t)
  BY <1>1, <1>2, RegistryInv
<1>3. CASE \E t \in Threads : CreateService(t)
  BY <1>1, <1>3, CreateServiceInv
<1>4. CASE \E t \in Threads : Connect(t)
  BY <1>1, <1>4, ConnectInv
<1>5. CASE \E t \in Threads : LoadConfig(t)
  BY <1>1, <1>5, LoadConfigInv
<1>6. CASE \E t \in Threads : MakeClient(t)
  BY <1>1, <1>6, MakeClientInv
<1>a. CASE \E t \in Threads : ReadSecret(t)
  BY <1>1, <1>a, ReadSecretInv
<1>7. CASE \E t \in Threads : ApplyService(t) \/ RequestFails(t)
  BY <1>1, <1>7, EndRequestInv
<1>8. CASE WriteBack /\ UNCHANGED <<apiVars, puts, faults>>
  BY <1>1, <1>8, ApiStutter DEF WriteBack
<1>9. CASE Restart
  BY <1>1, <1>9, RestartInv
<1>10. CASE UNCHANGED vars
  BY <1>1, <1>10, ApiStutter DEF vars, storeVars
<1>11. QED
  BY <1>2, <1>3, <1>4, <1>5, <1>6, <1>7, <1>8, <1>9, <1>10, <1>a DEF Next

(* The invariant of the API and its store.                                 *)
THEOREM Inductive == Spec => []IInv
<1>1. Init => IInv
  BY InitIInv
<1>2. IInv /\ [Next]_vars => IInv'
  BY InductiveStep
<1>3. QED
  BY <1>1, <1>2, PTL DEF Spec

(* Every variable keeps its type.                                          *)
THEOREM TypeCorrect == Spec => []TypeOK
<1>1. IInv => TypeOK
  BY DEF IInv
<1>2. QED
  BY <1>1, Inductive, PTL

(* However many threads write the registry at once, and wherever the       *)
(* process or the machine fails, its file is never found half-written:     *)
(* what is renamed over it has been synced (state.py's _flush).            *)
THEOREM FileNeverTorn == Spec => []NeverTorn
<1>1. IInv => NeverTorn
  BY DEF IInv, StoreInv
<1>2. QED
  BY <1>1, Inductive, PTL

(* A registration that no other one overlapped has its whole registry in   *)
(* the file when it is acknowledged.                                       *)
THEOREM AloneSaved == Spec => []AloneIsSaved
<1>1. IInv => AloneIsSaved
  BY DEF IInv, StoreInv
<1>2. QED
  BY <1>1, Inductive, PTL

(* A service goes to another cluster than its record's only if, since the  *)
(* process started, one thread has loaded a Configuration over another     *)
(* thread's, and only for a record that has a context (k8s.py's            *)
(* client_for).                                                            *)
THEOREM WrongOnlyAfterARace == Spec => []WrongOnlyAfterRace
<1>1. IInv => WrongOnlyAfterRace
  BY DEF IInv
<1>2. QED
  BY <1>1, Inductive, PTL
=============================================================================
