---------------------------- MODULE FileStateStore ----------------------------
(***************************************************************************)
(* The JSON file store of the fleet registry (providers/state.py).  A      *)
(* mutation changes the dictionary in memory, dumps all of it into a       *)
(* temporary file, syncs that and renames it over the target.  There is no *)
(* lock: the threads of the API server go through these steps side by side.*)
(*                                                                         *)
(* The registry has one collection, so a dump of it is one step: sort_keys *)
(* makes json.dump take the items of a dictionary at once.                 *)
(***************************************************************************)
CONSTANTS Threads,     (* threads of the API server                            *)
          Keys,        (* keys of the collection: names of clusters            *)
          Records,     (* values                                               *)
          Torn,        (* what a power failure leaves of a file never synced   *)
          None

VARIABLES data,     (* self._data                                              *)
          file,     (* the target file, and whether its content is on the disk *)
          disk,     (* the content its name on the disk leads to: the rename   *)
                    (* itself is not synced                                    *)
          flush     (* per thread: None, or how far its mutation has come      *)

storeVars == <<data, file, disk, flush>>

Contents == [Keys -> Records \cup {None}]
Empty == [k \in Keys |-> None]

Files == [content : Contents \cup {Torn}, synced : BOOLEAN]

(* alone: no other mutation has been under way since this one began.  (An  *)
(* auxiliary field: no step depends on it.)                                *)
Flushes == [at : {"mutated", "dumped", "synced", "replaced"},
            temp : Files, alone : BOOLEAN]

StoreTypeOK ==
    /\ data \in Contents
    /\ file \in Files
    /\ disk \in Contents \cup {Torn}
    /\ flush \in [Threads -> Flushes \cup {None}]

(* A missing file reads as an empty store.                                 *)
StoreInit ==
    /\ data = Empty
    /\ file = [content |-> Empty, synced |-> TRUE]
    /\ disk = Empty
    /\ flush = [t \in Threads |-> None]

(* The record of a mutation at the given step, which takes the others'     *)
(* claim to be alone.                                                      *)
Begun(t, step, content) ==
    [u \in Threads |->
        IF u = t
        THEN [at |-> step, temp |-> [content |-> content, synced |-> FALSE],
              alone |-> \A o \in Threads \ {t} : flush[o] = None]
        ELSE IF flush[u] = None THEN None ELSE [flush[u] EXCEPT !.alone = FALSE]]

(* Mutant of Mutate: the dump is taken before the change is made.          *)
MutateAfterDump(t, k, v) ==
    /\ flush[t] = None
    /\ flush' = Begun(t, "dumped", data)
    /\ data' = [data EXCEPT ![k] = v]
    /\ UNCHANGED <<file, disk>>

(* put, and with None delete: the dictionary changes at once, for every    *)
(* reader, whatever becomes of the file.                                   *)
Mutate(t, k, v) ==
    /\ flush[t] = None
    /\ flush' = Begun(t, "mutated", Empty)
    /\ data' = [data EXCEPT ![k] = v]
    /\ UNCHANGED <<file, disk>>

(* The mutation has come a step further, with its temporary file.          *)
Advance(t, step, temp) ==
    flush' = [flush EXCEPT ![t] = [at |-> step, temp |-> temp, alone |-> @.alone]]

Dump(t) ==
    /\ flush[t] # None /\ flush[t].at = "mutated"
    /\ Advance(t, "dumped", [content |-> data, synced |-> FALSE])
    /\ UNCHANGED <<data, file, disk>>

(* Mutant of Sync: the file is not synced.                                 *)
SyncForgotten(t) ==
    /\ flush[t] # None /\ flush[t].at = "dumped"
    /\ Advance(t, "synced", flush[t].temp)
    /\ UNCHANGED <<data, file, disk>>

Sync(t) ==
    /\ flush[t] # None /\ flush[t].at = "dumped"
    /\ Advance(t, "synced", [content |-> flush[t].temp.content, synced |-> TRUE])
    /\ UNCHANGED <<data, file, disk>>

Replace(t) ==
    /\ flush[t] # None /\ flush[t].at = "synced"
    /\ file' = flush[t].temp
    /\ Advance(t, "replaced", flush[t].temp)
    /\ UNCHANGED <<data, disk>>

(* The call returns.                                                       *)
Return(t) ==
    /\ flush[t] # None /\ flush[t].at = "replaced"
    /\ flush' = [flush EXCEPT ![t] = None]
    /\ UNCHANGED <<data, file, disk>>

(* Writing fails: the temporary file is removed and the call raises; the   *)
(* dictionary keeps the change.                                            *)
FlushFails(t) ==
    /\ flush[t] # None /\ flush[t].at # "replaced"
    /\ flush' = [flush EXCEPT ![t] = None]
    /\ UNCHANGED <<data, file, disk>>

(* The operating system writes the directory to the disk some time.        *)
WriteBack ==
    /\ file.synced
    /\ disk' = file.content
    /\ UNCHANGED <<data, file, flush>>

(* What the file may hold after a power failure.                           *)
Survivors == {disk, IF file.synced THEN file.content ELSE Torn}

(* A new process loads what the old one left.  (It would end at once if    *)
(* the file were torn; NeverTorn says that it never is.)                   *)
Load(content) ==
    /\ data' = content
    /\ flush' = [t \in Threads |-> None]
    /\ file' = [content |-> content, synced |-> TRUE]

Crash ==
    /\ Load(file.content)
    /\ UNCHANGED disk

PowerFailure ==
    \E content \in Survivors :
        /\ Load(content)
        /\ disk' = content

Flush(t) == Dump(t) \/ Sync(t) \/ Replace(t) \/ Return(t)
-----------------------------------------------------------------------------
(* state.py:66-68: "a crash mid-write never leaves a half-written or empty *)
(* file", neither a crash of the process nor one of the machine.           *)
NeverTorn == Torn \notin {file.content, disk}

(* When a mutation that no other one overlapped is acknowledged, the file  *)
(* holds all that the memory holds, and what earlier mutations that failed *)
(* or overlapped left out of it.                                           *)
AloneIsSaved ==
    \A t \in Threads :
        flush[t] # None /\ flush[t].at = "replaced" /\ flush[t].alone =>
            file.content = data

(* state.py:62: a store "that survives process restarts".  Once no call is *)
(* under way, and none has failed, a restart finds what was put.           *)
AtRestSaved == (\A t \in Threads : flush[t] = None) => file.content = data
=============================================================================
