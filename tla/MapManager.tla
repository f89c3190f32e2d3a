----------------------------- MODULE MapManager -----------------------------
(***************************************************************************)
(* backend::MapManager and the MapStorage behind it: a container of maps,  *)
(* each with a handle that owns the map and its mutex, shared by all       *)
(* threads of the process.                                                 *)
(*                                                                         *)
(* Source: backend/map-manager/include/map-manager/map-manager-inl.h and   *)
(* map-storage-inl.h; the accesses are those of maplab-common/monitor.h.   *)
(*                                                                         *)
(* The container mutex and the mutexes of the maps are ReaderWriterMutex   *)
(* objects: readers share, a writer is alone, and a waiting writer keeps   *)
(* new readers out.  A thread asks for a lock in one step and is granted   *)
(* it in another.  A CHECK that fails (a key that does not exist, a key    *)
(* that does already) ends the process, as the headers say it does.        *)
(***************************************************************************)
EXTENDS Integers, FiniteSets

CONSTANTS
  Threads,
  Keys,
  NoHandle,    \* a key that is not in the container
  Operations,  \* the operations the threads call
  MergePairs,  \* the pairs <<base, from>> that mergeMaps is called with
  MaxCalls     \* bound: the number of calls

ASSUME ConstantsAssumption ==
  /\ IsFiniteSet(Threads) /\ IsFiniteSet(Keys)
  /\ NoHandle \notin Nat
  /\ MergePairs \subseteq Keys \X Keys
  /\ \A pair \in MergePairs : pair[1] # pair[2]
  /\ MaxCalls \in Nat

VARIABLES
  storage,     \* map_storage_container_
  held,        \* the locks each thread holds
  wants,       \* the lock each thread waits for, if any
  call,        \* the call each thread is in
  stage,       \* how far the call has got
  added,       \* how many maps have been added, which numbers their handles
  calls, crash

vars == <<storage, held, wants, call, stage, added, calls, crash>>

Container == 0              \* the container mutex; the others are numbered by handle
Handles   == 1 .. (MaxCalls * Cardinality(Keys))
Locks     == {Container} \cup Handles
Lock      == [lock : Locks, mode : {"read", "write"}]
Nothing   == [lock |-> -1, mode |-> "none"]
Read(l)   == [lock |-> l, mode |-> "read"]
Write(l)  == [lock |-> l, mode |-> "write"]
NoCall    == [op |-> "none"]

Init == /\ storage = [k \in Keys |-> NoHandle]
        /\ held = [t \in Threads |-> {}]
        /\ wants = [t \in Threads |-> Nothing]
        /\ call = [t \in Threads |-> NoCall]
        /\ stage = [t \in Threads |-> "idle"]
        /\ added = 0
        /\ calls = 0 /\ crash = FALSE
-----------------------------------------------------------------------------
(***************************************************************************)
(* Locks                                                                   *)
(***************************************************************************)
InUse(l) == \E t \in Threads : wants[t].lock = l \/ \E a \in held[t] : a.lock = l

Grantable(a) ==
  IF a.mode = "read"
  THEN \A t \in Threads : Write(a.lock) \notin held[t] /\ Write(a.lock) # wants[t]
  ELSE \A t \in Threads : Write(a.lock) \notin held[t] /\ Read(a.lock) \notin held[t]

Grant(t) ==
  /\ wants[t] # Nothing
  /\ Grantable(wants[t])
  /\ held' = [held EXCEPT ![t] = @ \cup {wants[t]}]
  /\ wants' = [wants EXCEPT ![t] = Nothing]
  /\ UNCHANGED <<storage, call, stage, added, calls, crash>>

\* Thread t gives up and then asks for locks, and is at the next stage of its call.
GiveUp(t, locks)  == held' = [held EXCEPT ![t] = @ \ locks]
Ask(t, lock)      == wants' = [wants EXCEPT ![t] = lock]
Goto(t, where)    == stage' = [stage EXCEPT ![t] = where]

\* Thread t has the locks it asked for and runs at the given stage.
RunsAt(t, where)  == stage[t] = where /\ wants[t] = Nothing

Return(t) == /\ held' = [held EXCEPT ![t] = {}]
             /\ call' = [call EXCEPT ![t] = NoCall]
             /\ Goto(t, "idle")
             /\ UNCHANGED wants

Fail == crash' = TRUE /\ UNCHANGED <<storage, held, wants, call, stage, added, calls>>
-----------------------------------------------------------------------------
(***************************************************************************)
(* Every call begins with the container mutex.                             *)
(***************************************************************************)
Begin(t, c, mode, where) ==
  /\ stage[t] = "idle"
  /\ calls < MaxCalls
  /\ calls' = calls + 1
  /\ call' = [call EXCEPT ![t] = c]
  /\ Ask(t, [lock |-> Container, mode |-> mode])
  /\ Goto(t, where)
  /\ UNCHANGED <<storage, held, added, crash>>

Call(t) ==
  \/ \E op \in {"getMapReadAccess", "getMapWriteAccess", "copyMap"} \cap Operations,
        k \in Keys : Begin(t, [op |-> op, key |-> k], "read", "look up")
  \/ \E pair \in MergePairs :
       /\ "mergeMaps" \in Operations
       /\ Begin(t, [op |-> "mergeMaps", key |-> pair[1], from |-> pair[2]],
                "read", "look up")
  \/ \E op \in {"hasMap"} \cap Operations, k \in Keys :
       Begin(t, [op |-> op, key |-> k], "read", "query")
  \/ \E op \in {"saveMapToFolder"} \cap Operations, k \in Keys :
       Begin(t, [op |-> op, key |-> k], "read", "test")
  \/ \E op \in {"saveAllMapsToFolder"} \cap Operations :
       Begin(t, [op |-> op, left |-> Keys], "read", "save next")
  \/ \E op \in {"addMap", "loadMapFromFolder"} \cap Operations, k \in Keys :
       Begin(t, [op |-> op, key |-> k], "write", "add")
  \/ \E op \in {"loadAllMapsFromFolder"} \cap Operations, ks \in SUBSET Keys :
       Begin(t, [op |-> op, keys |-> ks], "write", "add all")
  \/ \E op \in {"releaseMap"} \cap Operations, k \in Keys :
       Begin(t, [op |-> op, key |-> k], "write", "take out")
  \/ \E op \in {"renameMap"} \cap Operations, k, new \in Keys :
       Begin(t, [op |-> op, key |-> k, new |-> new], "write", "rename")
-----------------------------------------------------------------------------
(***************************************************************************)
(* getMapReadAccess and getMapWriteAccess wait for the mutex of the map    *)
(* while they hold the container, and give the container back afterwards.  *)
(* So do copyMap, mergeMaps and saveMapToFolder.                           *)
(***************************************************************************)
AccessMode(t) == IF call[t].op \in {"getMapReadAccess", "copyMap"} THEN "read" ELSE "write"

KeepContainerNot(t) == GiveUp(t, {Read(Container)})
KeepContainer(t) == UNCHANGED held

\* The handles a call looks up: mergeMaps tests that both maps exist.
Needed(t) == {call[t].key} \cup (IF call[t].op = "mergeMaps" THEN {call[t].from} ELSE {})

LookUp(t) ==
  /\ RunsAt(t, "look up")
  /\ IF \E k \in Needed(t) : storage[k] = NoHandle
     THEN Fail
     ELSE /\ call' = [call EXCEPT ![t] =
                       [op |-> @.op, maps |-> [k \in Needed(t) |-> storage[k]], key |-> @.key,
                        from |-> IF @.op = "mergeMaps" THEN @.from ELSE @.key]]
          /\ KeepContainer(t)
          /\ Goto(t, "found")
          /\ UNCHANGED <<storage, wants, added, calls, crash>>

AskForMap(t) ==
  /\ RunsAt(t, "found")
  /\ Ask(t, [lock |-> call[t].maps[call[t].key], mode |-> AccessMode(t)])
  /\ Goto(t, IF call[t].op = "mergeMaps" THEN "second map" ELSE "attach")
  /\ UNCHANGED <<storage, held, call, added, calls, crash>>

\* mergeMaps: write access to the base, then read access to the other map.
AskForSecondMap(t) ==
  /\ RunsAt(t, "second map")
  /\ Ask(t, Read(call[t].maps[call[t].from]))
  /\ Goto(t, "attach")
  /\ UNCHANGED <<storage, held, call, added, calls, crash>>

TestBeforeSavingNotUnlocked(t) ==
  /\ RunsAt(t, "test")
  /\ IF storage[call[t].key] = NoHandle
     THEN call' = [call EXCEPT ![t] = NoCall] /\ Goto(t, "idle")
     ELSE Goto(t, "look up") /\ UNCHANGED call
  /\ UNCHANGED <<storage, held, wants, added, calls, crash>>
TestBeforeSaving(t) ==
  /\ RunsAt(t, "test")
  /\ IF storage[call[t].key] = NoHandle
     THEN Return(t)
     ELSE Goto(t, "look up") /\ UNCHANGED <<call, held, wants>>
  /\ UNCHANGED <<storage, added, calls, crash>>

\* hasMap and the other queries look at the container only.
Query(t) ==
  /\ RunsAt(t, "query")
  /\ Return(t)
  /\ UNCHANGED <<storage, added, calls, crash>>

GiveContainerBack(t) ==
  /\ RunsAt(t, "attach")
  /\ GiveUp(t, {Read(Container)})
  /\ Goto(t, IF call[t].op = "copyMap" THEN "copy" ELSE "use")
  /\ UNCHANGED <<storage, wants, call, added, calls, crash>>

\* The access goes out of scope.
EndAccess(t) ==
  /\ RunsAt(t, "use")
  /\ Return(t)
  /\ UNCHANGED <<storage, added, calls, crash>>

\* saveAllMapsToFolder keeps the container over all maps and locks one at a time.
SaveNext(t) ==
  /\ RunsAt(t, "save next")
  /\ \/ \E k \in call[t].left :
          /\ storage[k] # NoHandle
          /\ call' = [call EXCEPT ![t].left = @ \ {k}]
          /\ GiveUp(t, held[t] \ {Read(Container)})
          /\ Ask(t, Write(storage[k]))
          /\ UNCHANGED stage
     \/ /\ \A k \in call[t].left : storage[k] = NoHandle
        /\ Return(t)
  /\ UNCHANGED <<storage, added, calls, crash>>
-----------------------------------------------------------------------------
(***************************************************************************)
(* The operations that change the container.                               *)
(***************************************************************************)
Insert(key) == /\ added' = added + 1
               /\ storage' = [storage EXCEPT ![key] = added + 1]

\* addMap, and loadMapFromFolder, which has read the map from the folder before.
AddMap(t) ==
  /\ RunsAt(t, "add")
  /\ \/ /\ storage[call[t].key] # NoHandle /\ call[t].op = "addMap"
        /\ Fail
     \/ /\ storage[call[t].key] # NoHandle /\ call[t].op = "loadMapFromFolder"
        /\ Return(t)
        /\ UNCHANGED <<storage, added, calls, crash>>
     \/ /\ storage[call[t].key] = NoHandle
        /\ Insert(call[t].key)
        /\ Return(t)
        /\ UNCHANGED <<calls, crash>>

\* loadAllMapsFromFolder adds all maps of a folder, or none.
AddAllMaps(t) ==
  /\ RunsAt(t, "add all")
  /\ LET ks == call[t].keys
     IN  IF \E k \in ks : storage[k] # NoHandle
         THEN UNCHANGED <<storage, added>>
         ELSE /\ added' = added + Cardinality(ks)
              /\ \E new \in [ks -> (added + 1) .. added'] :
                   /\ \A k, l \in ks : new[k] = new[l] => k = l
                   /\ storage' = [k \in Keys |-> IF k \in ks THEN new[k] ELSE storage[k]]
  /\ Return(t)
  /\ UNCHANGED <<calls, crash>>

\* copyMap keeps its read access to the source while it asks for the container.
AskForContainer(t) ==
  /\ RunsAt(t, "copy")
  /\ Ask(t, Write(Container))
  /\ Goto(t, "add copy")
  /\ UNCHANGED <<storage, held, call, added, calls, crash>>

AddCopy(t) ==
  /\ RunsAt(t, "add copy")
  /\ \E target \in Keys :
       IF storage[target] # NoHandle
       THEN Fail
       ELSE /\ Insert(target)
            /\ Return(t)
            /\ UNCHANGED <<calls, crash>>

\* renameMap
Renamed(old, new) == [storage EXCEPT ![new] = storage[old], ![old] = NoHandle]

RenameMap(t) ==
  /\ RunsAt(t, "rename")
  /\ LET old == call[t].key
         new == call[t].new
     IN  IF storage[new] # NoHandle \/ storage[old] = NoHandle
         THEN Fail
         ELSE /\ storage' = Renamed(old, new)
              /\ Return(t)
              /\ UNCHANGED <<added, calls, crash>>

\* releaseMap takes the handle out of the container, gives the container back, and
\* waits until nobody uses the mutex of the map; then the handle is destroyed.
TakeOut(t) ==
  /\ RunsAt(t, "take out")
  /\ LET k == call[t].key
     IN  IF storage[k] = NoHandle
         THEN Fail
         ELSE /\ storage' = [storage EXCEPT ![k] = NoHandle]
              /\ call' = [call EXCEPT ![t] = [op |-> "releaseMap", handle |-> storage[k]]]
              /\ GiveUp(t, {Write(Container)})
              /\ Goto(t, "wait until unused")
              /\ UNCHANGED <<wants, added, calls, crash>>

DestroyHandle(t) ==
  /\ RunsAt(t, "wait until unused")
  /\ ~InUse(call[t].handle)
  /\ Return(t)
  /\ UNCHANGED <<storage, added, calls, crash>>
-----------------------------------------------------------------------------
Run(t) == \/ Grant(t) \/ LookUp(t) \/ AskForMap(t) \/ AskForSecondMap(t) \/ TestBeforeSaving(t)
          \/ Query(t) \/ GiveContainerBack(t) \/ EndAccess(t) \/ SaveNext(t)
          \/ AddMap(t) \/ AddAllMaps(t) \/ AskForContainer(t) \/ AddCopy(t) \/ RenameMap(t) \/ TakeOut(t)
          \/ DestroyHandle(t)

Ended == /\ crash \/ \A t \in Threads : stage[t] = "idle"
         /\ UNCHANGED vars

Next == \/ ~crash /\ \E t \in Threads : Call(t) \/ Run(t)
        \/ Ended

\* A thread goes on whenever it can; accesses go out of scope.
Fairness == \A t \in Threads : WF_vars(~crash /\ Run(t))

Spec     == Init /\ [][Next]_vars
FairSpec == Spec /\ Fairness
-----------------------------------------------------------------------------
TypeOK ==
  /\ storage \in [Keys -> Handles \cup {NoHandle}]
  /\ held \in [Threads -> SUBSET Lock]
  /\ wants \in [Threads -> Lock \cup {Nothing}]
  /\ \A t \in Threads : (call[t] = NoCall) = (stage[t] = "idle")
  /\ added \in 0 .. (MaxCalls * Cardinality(Keys))
  /\ calls \in 0 .. MaxCalls /\ crash \in BOOLEAN

\* A map has one owner: one key, or one call of releaseMap.
Owners(h) == {k \in Keys : storage[k] = h} \cup
             {t \in Threads : "handle" \in DOMAIN call[t] /\ call[t].handle = h}
OneOwner == \A h \in Handles : Cardinality(Owners(h)) <= 1

\* A handle lives as long as a thread holds its mutex, waits for it or has looked the
\* handle up to lock it, although releaseMap tests the mutex without the container.
Uses(t, h) ==
  \/ wants[t].lock = h \/ \E a \in held[t] : a.lock = h
  \/ stage[t] \in {"found", "second map"} /\ \E k \in DOMAIN call[t].maps : call[t].maps[k] = h
AccessIsOwned ==
  \A t \in Threads, h \in Handles : Uses(t, h) => Owners(h) # {}

\* Nobody uses a map that is gone or that two owners could destroy.
MapsOwned == TypeOK /\ OneOwner /\ AccessIsOwned
-----------------------------------------------------------------------------
\* "If thread safe access is desired, the methods in MapManager should be used": every
\* call of every thread comes to its end.
CallsReturn == \A t \in Threads : stage[t] # "idle" ~> (stage[t] = "idle" \/ crash)

\* Every call comes to its end unless copyMap is under way, which may wait forever and
\* have others wait: no other operation does, as long as merges agree on an order.
Copying == \E t \in Threads : call[t].op = "copyMap"
CallsReturnUnlessCopying ==
  \A t \in Threads : stage[t] # "idle" ~> (stage[t] = "idle" \/ crash \/ Copying)
=============================================================================
