-------------------------- MODULE MapManagerProofs --------------------------
(***************************************************************************)
(* Theorems about MapManager for every finite set of threads and keys, all *)
(* operations and any number of calls.                                     *)
(***************************************************************************)
EXTENDS MapManager, FiniteSetTheorems, TLAPS

Stages == {"idle", "look up", "found", "second map", "attach", "copy", "add copy", "use",
           "test", "query", "save next", "add", "add all", "take out", "wait until unused",
           "rename"}
AnyLock == [lock : Nat, mode : {"read", "write"}]

\* The shape of the state; a handle is any number.
ShapeInv ==
  /\ storage \in [Keys -> (Nat \ {0}) \cup {NoHandle}]
  /\ held \in [Threads -> SUBSET AnyLock]
  /\ wants \in [Threads -> AnyLock \cup {Nothing}]
  /\ stage \in [Threads -> Stages]
  /\ DOMAIN call = Threads
  /\ added \in Nat /\ calls \in 0 .. MaxCalls /\ crash \in BOOLEAN

\* What a thread knows and holds at each stage of a call.
Reads(t) == \/ /\ stage[t] \in {"look up", "test", "query", "save next"}
               /\ wants[t] # Read(Container)
            \/ stage[t] \in {"found", "second map", "attach"}
StageInv(t) ==
  /\ stage[t] = "idle" => call[t] = NoCall /\ held[t] = {} /\ wants[t] = Nothing
  /\ stage[t] # "idle" => call[t].op # "none"
  /\ "handle" \in DOMAIN call[t] <=> stage[t] = "wait until unused"
  /\ Reads(t) => Read(Container) \in held[t]
  /\ stage[t] \in {"add", "add all", "take out", "rename", "add copy"}
       => \/ wants[t] = Write(Container)
          \/ wants[t] = Nothing /\ Write(Container) \in held[t]
  /\ stage[t] \in {"look up", "test", "add", "take out", "rename"} => call[t].key \in Keys
  /\ stage[t] \in {"look up", "test"} /\ call[t].op = "mergeMaps" => call[t].from \in Keys
  /\ stage[t] = "save next" => "left" \in DOMAIN call[t] /\ call[t].left \subseteq Keys
  /\ stage[t] = "add all" => call[t].keys \subseteq Keys
  /\ stage[t] = "rename" => call[t].new \in Keys
  /\ stage[t] \in {"found", "second map"} =>
       /\ call[t].key \in DOMAIN call[t].maps /\ call[t].from \in DOMAIN call[t].maps
       /\ DOMAIN call[t].maps \subseteq Keys

LocksExclude ==
  \A t, u \in Threads : \A a \in held[t], b \in held[u] :
    a.lock = b.lock /\ a.mode = "write" => t = u /\ a = b

\* What a thread has looked up stays so until it gives the container back.
LookupsCurrent ==
  \A t \in Threads : stage[t] \in {"found", "second map"} =>
    \A k \in DOMAIN call[t].maps :
      call[t].maps[k] = storage[k] /\ storage[k] # NoHandle

Releases(t, h) == stage[t] = "wait until unused" /\ call[t].handle = h
Owned(h) == (\E k \in Keys : storage[k] = h) \/ (\E t \in Threads : Releases(t, h))

HandlesInv ==
  /\ \A k \in Keys : storage[k] # NoHandle => storage[k] <= added
  /\ \A t \in Threads : stage[t] = "wait until unused" =>
       call[t].handle \in 1 .. added /\ \A k \in Keys : storage[k] # call[t].handle
  /\ \A k, l \in Keys : storage[k] = storage[l] /\ storage[k] # NoHandle => k = l
  /\ \A t, u \in Threads :
       stage[t] = "wait until unused" /\ Releases(u, call[t].handle) => t = u

LocksOwned ==
  \A t \in Threads :
    /\ wants[t] # Nothing /\ wants[t].lock # Container => Owned(wants[t].lock)
    /\ \A a \in held[t] : a.lock # Container => Owned(a.lock)

\* A call adds a number of maps at once, at its end.
Open == {t \in Threads : stage[t] # "idle"}
AddedInv == added + Cardinality(Open) * Cardinality(Keys) <= calls * Cardinality(Keys)

IInv == /\ ShapeInv /\ \A t \in Threads : StageInv(t)
        /\ LocksExclude /\ LookupsCurrent /\ HandlesInv /\ LocksOwned /\ AddedInv
-----------------------------------------------------------------------------
Moves(t) ==
  \A u \in Threads : u # t => /\ held'[u] = held[u] /\ wants'[u] = wants[u]
                              /\ call'[u] = call[u] /\ stage'[u] = stage[u]

\* A step of thread t keeps the shape of the state.
Local(t) == ShapeInv' /\ Moves(t)

\* Locks are told apart by their number and their mode.
LEMMA LockValues ==
  /\ Container \in Nat /\ Container = 0
  /\ \A l \in Nat : Read(l) \in AnyLock /\ Write(l) \in AnyLock
                    /\ Read(l) # Nothing /\ Write(l) # Nothing
  /\ Nothing \notin AnyLock
  /\ \A l, m : Read(l) # Write(m) /\ (Read(l) = Read(m) <=> l = m)
               /\ (Write(l) = Write(m) <=> l = m)
  /\ \A l : Read(l).lock = l /\ Write(l).lock = l /\ Read(l).mode = "read"
            /\ Write(l).mode = "write"
  /\ \A a \in AnyLock : a = Read(a.lock) \/ a = Write(a.lock)
BY DEF Container, AnyLock, Read, Write, Nothing

\* Only a releaseMap that waits has a handle of its own.
LEMMA CallValues ==
  /\ NoCall.op = "none" /\ "handle" \notin DOMAIN NoCall
  /\ \A op, k : "handle" \notin DOMAIN [op |-> op, key |-> k]
  /\ \A op, k, l : "handle" \notin DOMAIN [op |-> op, key |-> k, from |-> l]
  /\ \A op, k, l : "handle" \notin DOMAIN [op |-> op, key |-> k, new |-> l]
  /\ \A op, ks : "handle" \notin DOMAIN [op |-> op, keys |-> ks]
  /\ \A op, ks : "handle" \notin DOMAIN [op |-> op, left |-> ks]
                 /\ "left" \in DOMAIN [op |-> op, left |-> ks]
  /\ \A op, ms, k, l : "handle" \notin DOMAIN [op |-> op, maps |-> ms, key |-> k, from |-> l]
  /\ \A op, h : "handle" \in DOMAIN [op |-> op, handle |-> h]
BY DEF NoCall

\* The calls and where they begin.
Starts(c, mode, where) ==
  /\ mode \in {"read", "write"} /\ c.op # "none" /\ "handle" \notin DOMAIN c
  /\ \/ /\ mode = "read" /\ where \in {"look up", "test"} /\ c.key \in Keys
        /\ c.op = "mergeMaps" => c.from \in Keys
     \/ mode = "read" /\ where = "query"
     \/ mode = "read" /\ where = "save next" /\ "left" \in DOMAIN c /\ c.left \subseteq Keys
     \/ mode = "write" /\ where \in {"add", "take out"} /\ c.key \in Keys
     \/ mode = "write" /\ where = "rename" /\ c.key \in Keys /\ c.new \in Keys
     \/ mode = "write" /\ where = "add all" /\ c.keys \subseteq Keys

\* The start of a call.
LEMMA BeginLocal ==
  ASSUME ShapeInv, NEW t \in Threads, NEW c, NEW mode, NEW where,
         Begin(t, c, mode, where), Starts(c, mode, where)
  PROVE  Local(t) /\ StageInv(t)'
<1>1. ShapeInv'
  <2>1. [lock |-> Container, mode |-> mode] \in AnyLock
    BY DEF AnyLock, Container, Starts
  <2>2. where \in Stages
    BY DEF Stages, Starts
  <2>3. wants' \in [Threads -> AnyLock \cup {Nothing}] /\ stage' \in [Threads -> Stages]
        /\ DOMAIN call' = Threads
    BY <2>1, <2>2 DEF ShapeInv, Begin, Ask, Goto
  <2>4. calls' \in 0 .. MaxCalls
    <3>1. calls < MaxCalls /\ calls' = calls + 1
      BY DEF Begin
    <3>2. MaxCalls \in Nat /\ calls \in Nat
      BY ConstantsAssumption DEF ShapeInv
    <3> QED BY <3>1, <3>2
  <2> QED BY <2>3, <2>4 DEF ShapeInv, Begin
<1>2. Moves(t) /\ call'[t] = c /\ stage'[t] = where /\ held'[t] = held[t]
      /\ wants'[t] = [lock |-> Container, mode |-> mode]
  BY DEF ShapeInv, Begin, Ask, Goto, Moves
<1>3. /\ mode = "read" => wants'[t] = Read(Container)
      /\ mode = "write" => wants'[t] = Write(Container)
  BY <1>2 DEF Read, Write
<1>4. StageInv(t)'
  BY <1>2, <1>3 DEF StageInv, Reads, Starts
<1> QED BY <1>1, <1>2, <1>4 DEF Local

\* Every operation starts with what its first stage needs.
LEMMA CallLocal == ASSUME ShapeInv, NEW t \in Threads, Call(t) PROVE Local(t) /\ StageInv(t)'
<1>1. ASSUME NEW op \in {"getMapReadAccess", "getMapWriteAccess", "copyMap"}, NEW k \in Keys,
             NEW c, c = [op |-> op, key |-> k],
             Begin(t, c, "read", "look up")
      PROVE  Local(t) /\ StageInv(t)'
  <2>1. c.op # "none" /\ "handle" \notin DOMAIN c
    BY <1>1, CallValues
  <2>2. Begin(t, c, "read", "look up")
    BY <1>1
  <2> QED BY <1>1, <2>1, <2>2, BeginLocal DEF Starts
<1>2. ASSUME NEW pair \in MergePairs,
             NEW c, c = [op |-> "mergeMaps", key |-> pair[1], from |-> pair[2]],
             Begin(t, c, "read", "look up")
      PROVE  Local(t) /\ StageInv(t)'
  <2>0. pair[1] \in Keys /\ pair[2] \in Keys
    BY ConstantsAssumption
  <2>1. c.op # "none" /\ "handle" \notin DOMAIN c
    BY <1>2, CallValues
  <2>2. Begin(t, c, "read", "look up")
    BY <1>2
  <2> QED BY <1>2, <2>0, <2>1, <2>2, BeginLocal DEF Starts
<1>3. ASSUME NEW k \in Keys, NEW c, c = [op |-> "hasMap", key |-> k],
             Begin(t, c, "read", "query")
      PROVE  Local(t) /\ StageInv(t)'
  <2>1. c.op # "none"
    BY <1>3
  <2>2. "handle" \notin DOMAIN c
    BY <1>3, CallValues
  <2>3. Begin(t, c, "read", "query")
    BY <1>3
  <2> QED BY <1>3, <2>1, <2>2, <2>3, BeginLocal DEF Starts
<1>4. ASSUME NEW k \in Keys, NEW c, c = [op |-> "saveMapToFolder", key |-> k],
             Begin(t, c, "read", "test")
      PROVE  Local(t) /\ StageInv(t)'
  <2>1. c.op # "none" /\ "handle" \notin DOMAIN c
    BY <1>4, CallValues
  <2>2. Begin(t, c, "read", "test")
    BY <1>4
  <2> QED BY <1>4, <2>1, <2>2, BeginLocal DEF Starts
<1>5. ASSUME NEW c, c = [op |-> "saveAllMapsToFolder", left |-> Keys],
             Begin(t, c, "read", "save next")
      PROVE  Local(t) /\ StageInv(t)'
  <2>1. c.op # "none" /\ "handle" \notin DOMAIN c /\ "left" \in DOMAIN c
    BY <1>5, CallValues
  <2>2. Begin(t, c, "read", "save next")
    BY <1>5
  <2> QED BY <1>5, <2>1, <2>2, BeginLocal DEF Starts
<1>6. ASSUME NEW op \in {"addMap", "loadMapFromFolder"}, NEW k \in Keys,
             NEW c, c = [op |-> op, key |-> k],
             Begin(t, c, "write", "add")
      PROVE  Local(t) /\ StageInv(t)'
  <2>1. c.op # "none" /\ "handle" \notin DOMAIN c
    BY <1>6, CallValues
  <2>2. Begin(t, c, "write", "add")
    BY <1>6
  <2> QED BY <1>6, <2>1, <2>2, BeginLocal DEF Starts
<1>7. ASSUME NEW ks \in SUBSET Keys,
             NEW c, c = [op |-> "loadAllMapsFromFolder", keys |-> ks],
             Begin(t, c, "write", "add all")
      PROVE  Local(t) /\ StageInv(t)'
  <2>1. c.op # "none" /\ "handle" \notin DOMAIN c
    BY <1>7, CallValues
  <2>2. Begin(t, c, "write", "add all")
    BY <1>7
  <2> QED BY <1>7, <2>1, <2>2, BeginLocal DEF Starts
<1>8. ASSUME NEW k \in Keys, NEW c, c = [op |-> "releaseMap", key |-> k],
             Begin(t, c, "write", "take out")
      PROVE  Local(t) /\ StageInv(t)'
  <2>1. c.op # "none" /\ "handle" \notin DOMAIN c
    BY <1>8, CallValues
  <2>2. Begin(t, c, "write", "take out")
    BY <1>8
  <2> QED BY <1>8, <2>1, <2>2, BeginLocal DEF Starts
<1>9. ASSUME NEW k \in Keys, NEW new \in Keys,
             NEW c, c = [op |-> "renameMap", key |-> k, new |-> new],
             Begin(t, c, "write", "rename")
      PROVE  Local(t) /\ StageInv(t)'
  <2>1. c.op # "none" /\ "handle" \notin DOMAIN c
    BY <1>9, CallValues
  <2>2. Begin(t, c, "write", "rename")
    BY <1>9
  <2> QED BY <1>9, <2>1, <2>2, BeginLocal DEF Starts
<1> QED BY <1>1, <1>2, <1>3, <1>4, <1>5, <1>6, <1>7, <1>8, <1>9 DEF Call

\* The shape of the part that Begin and Return do not mention.
StorageShape == storage \in [Keys -> (Nat \ {0}) \cup {NoHandle}] /\ added \in Nat

\* The end of a call.
LEMMA ReturnLocal ==
  ASSUME ShapeInv, NEW t \in Threads, Return(t), StorageShape', UNCHANGED <<calls, crash>>
  PROVE  Local(t) /\ stage'[t] = "idle" /\ held'[t] = {} /\ wants'[t] = wants[t]
         /\ call'[t] = NoCall
<1>1. /\ DOMAIN call' = Threads /\ held' \in [Threads -> SUBSET AnyLock]
      /\ stage' \in [Threads -> Stages] /\ UNCHANGED wants
  BY DEF ShapeInv, Return, Goto, Stages
<1>2. ShapeInv'
  BY <1>1 DEF ShapeInv, StorageShape
<1>3. Moves(t) /\ stage'[t] = "idle" /\ held'[t] = {} /\ call'[t] = NoCall
  BY DEF ShapeInv, Return, Goto, Moves
<1> QED BY <1>1, <1>2, <1>3 DEF Local

\* A thread whose call has ended knows and holds nothing.
LEMMA ReturnStage ==
  ASSUME ShapeInv, NEW t \in Threads, Return(t), StorageShape', UNCHANGED <<calls, crash>>,
         wants[t] = Nothing
  PROVE  Local(t) /\ StageInv(t)'
BY ReturnLocal, CallValues DEF StageInv, Reads

\* Every stage of a call leaves what the next one needs.
LEMMA RunLocal ==
  ASSUME ShapeInv, NEW t \in Threads, StageInv(t), LookupsCurrent, Run(t), ~crash'
  PROVE  Local(t) /\ StageInv(t)'
<1> DEFINE Goal == Local(t) /\ StageInv(t)'
<1>0. StorageShape
  BY DEF ShapeInv, StorageShape
<1>1. CASE Grant(t)
  <2>1. /\ Moves(t) /\ wants[t] # Nothing /\ wants[t] \in AnyLock
        /\ held'[t] = held[t] \cup {wants[t]} /\ wants'[t] = Nothing
        /\ call'[t] = call[t] /\ stage'[t] = stage[t]
    BY <1>1 DEF Grant, ShapeInv, Moves
  <2>2. ShapeInv'
    BY <1>1, <2>1 DEF Grant, ShapeInv
  <2>3. StageInv(t)'
    BY <2>1 DEF StageInv, Reads
  <2> QED BY <2>1, <2>2, <2>3 DEF Local
<1>2. CASE LookUp(t)
  <2>1. PICK ms, from :
          /\ call' = [call EXCEPT ![t] = [op |-> call[t].op, maps |-> ms,
                                          key |-> call[t].key, from |-> from]]
          /\ ms = [k \in Needed(t) |-> storage[k]]
          /\ from = IF call[t].op = "mergeMaps" THEN call[t].from ELSE call[t].key
    BY <1>2 DEF LookUp, Fail
  <2>2. RunsAt(t, "look up") /\ Goto(t, "found")
        /\ UNCHANGED <<storage, held, wants, added, calls, crash>>
    BY <1>2 DEF LookUp, Fail, KeepContainer
  <2>3. /\ Moves(t) /\ held'[t] = held[t] /\ wants'[t] = wants[t] /\ wants[t] = Nothing
        /\ stage[t] = "look up" /\ stage'[t] = "found"
        /\ call'[t] = [op |-> call[t].op, maps |-> ms, key |-> call[t].key, from |-> from]
    BY <2>1, <2>2 DEF RunsAt, Goto, ShapeInv, Moves
  <2>4. ShapeInv'
    BY <2>1, <2>2 DEF Goto, ShapeInv, Stages
  <2>5. /\ call'[t].op = call[t].op /\ call'[t].maps = ms /\ call'[t].key = call[t].key
        /\ call'[t].from = from
    <3> DEFINE c == [op |-> call[t].op, maps |-> ms, key |-> call[t].key, from |-> from]
    <3>1. c.op = call[t].op /\ c.maps = ms /\ c.key = call[t].key /\ c.from = from
      OBVIOUS
    <3>2. call'[t] = c
      BY <2>3
    <3> QED BY <3>1, <3>2, Zenon
  <2>6. DOMAIN ms \subseteq Keys /\ call[t].key \in DOMAIN ms /\ from \in DOMAIN ms
    BY <2>1, <2>3 DEF Needed, StageInv
  <2>7. Read(Container) \in held[t]
    BY <2>3, LockValues DEF StageInv, Reads
  <2>8. "handle" \notin DOMAIN call'[t]
    BY <2>3, CallValues
  <2>9. StageInv(t)'
    BY <2>3, <2>5, <2>6, <2>7, <2>8 DEF StageInv, Reads
  <2> QED BY <2>3, <2>4, <2>9 DEF Local
<1>3. CASE AskForMap(t)
  <2>1. /\ stage[t] = "found" /\ UNCHANGED <<storage, held, call, added, calls, crash>>
        /\ wants' = [wants EXCEPT ![t] =
             [lock |-> call[t].maps[call[t].key], mode |-> AccessMode(t)]]
        /\ stage' = [stage EXCEPT ![t] = IF call[t].op = "mergeMaps" THEN "second map"
                                         ELSE "attach"]
    BY <1>3 DEF AskForMap, RunsAt, Ask, Goto
  <2>2. call[t].maps[call[t].key] \in Nat \ {0}
    <3>1. call[t].key \in DOMAIN call[t].maps /\ call[t].key \in Keys
      BY <2>1 DEF StageInv
    <3> QED BY <2>1, <3>1 DEF LookupsCurrent, ShapeInv
  <2>3. [lock |-> call[t].maps[call[t].key], mode |-> AccessMode(t)] \in AnyLock
    BY <2>2 DEF AnyLock, AccessMode
  <2>4. ShapeInv'
    BY <2>1, <2>3 DEF ShapeInv, Stages
  <2>5. Moves(t) /\ stage'[t] \in {"second map", "attach"} /\ held'[t] = held[t]
        /\ call'[t] = call[t]
    BY <2>1 DEF ShapeInv, Moves
  <2>6. StageInv(t)'
    BY <2>1, <2>5 DEF StageInv, Reads
  <2> QED BY <2>4, <2>5, <2>6 DEF Local
<1>4. CASE AskForSecondMap(t)
  <2>1. /\ stage[t] = "second map" /\ UNCHANGED <<storage, held, call, added, calls, crash>>
        /\ wants' = [wants EXCEPT ![t] = Read(call[t].maps[call[t].from])]
        /\ stage' = [stage EXCEPT ![t] = "attach"]
    BY <1>4 DEF AskForSecondMap, RunsAt, Ask, Goto
  <2>2. call[t].maps[call[t].from] \in Nat \ {0}
    <3>1. call[t].from \in DOMAIN call[t].maps /\ call[t].from \in Keys
      BY <2>1 DEF StageInv
    <3> QED BY <2>1, <3>1 DEF LookupsCurrent, ShapeInv
  <2>3. Read(call[t].maps[call[t].from]) \in AnyLock
    BY <2>2, LockValues
  <2>4. ShapeInv'
    BY <2>1, <2>3 DEF ShapeInv, Stages
  <2>5. Moves(t) /\ stage'[t] = "attach" /\ held'[t] = held[t] /\ call'[t] = call[t]
    BY <2>1 DEF ShapeInv, Moves
  <2>6. StageInv(t)'
    BY <2>1, <2>5 DEF StageInv, Reads
  <2> QED BY <2>4, <2>5, <2>6 DEF Local
<1>5. CASE TestBeforeSaving(t)
  <2>1. /\ stage[t] = "test" /\ wants[t] = Nothing
        /\ UNCHANGED <<storage, added, calls, crash>>
        /\ \/ Return(t)
           \/ Goto(t, "look up") /\ UNCHANGED <<call, held, wants>>
    BY <1>5 DEF TestBeforeSaving, RunsAt
  <2>2. CASE Return(t)
    BY <1>0, <2>1, <2>2, ReturnStage DEF StorageShape
  <2>3. CASE Goto(t, "look up") /\ UNCHANGED <<call, held, wants>>
    <3>1. ShapeInv' /\ Moves(t) /\ stage'[t] = "look up" /\ held'[t] = held[t]
          /\ wants'[t] = wants[t] /\ call'[t] = call[t]
      BY <2>1, <2>3 DEF Goto, ShapeInv, Moves, Stages
    <3> QED BY <2>1, <3>1 DEF StageInv, Reads, Local
  <2> QED BY <2>1, <2>2, <2>3
<1>6. CASE Query(t) \/ EndAccess(t) \/ DestroyHandle(t)
  <2>1. /\ Return(t) /\ UNCHANGED <<storage, added, calls, crash>> /\ wants[t] = Nothing
    BY <1>6 DEF Query, EndAccess, DestroyHandle, RunsAt
  <2> QED BY <1>0, <2>1, ReturnStage DEF StorageShape
<1>7. CASE GiveContainerBack(t)
  <2>1. /\ stage[t] = "attach" /\ UNCHANGED <<storage, wants, call, added, calls, crash>>
        /\ held' = [held EXCEPT ![t] = @ \ {Read(Container)}]
        /\ stage' = [stage EXCEPT ![t] = IF call[t].op = "copyMap" THEN "copy" ELSE "use"]
    BY <1>7 DEF GiveContainerBack, RunsAt, GiveUp, Goto
  <2>2. ShapeInv' /\ Moves(t) /\ stage'[t] \in {"copy", "use"} /\ call'[t] = call[t]
    BY <2>1 DEF ShapeInv, Moves, Stages
  <2>3. StageInv(t)'
    BY <2>1, <2>2 DEF StageInv, Reads
  <2> QED BY <2>2, <2>3 DEF Local
<1>8. CASE SaveNext(t)
  <2>1. /\ stage[t] = "save next" /\ wants[t] = Nothing
        /\ UNCHANGED <<storage, added, calls, crash>>
    BY <1>8 DEF SaveNext, RunsAt
  <2>2. CASE Return(t)
    BY <1>0, <2>1, <2>2, ReturnStage DEF StorageShape
  <2>3. ASSUME NEW k \in call[t].left, storage[k] # NoHandle,
               call' = [call EXCEPT ![t].left = @ \ {k}],
               GiveUp(t, held[t] \ {Read(Container)}),
               Ask(t, Write(storage[k])), UNCHANGED stage
        PROVE  Goal
    <3>1. k \in Keys /\ storage[k] \in Nat \ {0}
      BY <2>1, <2>3 DEF StageInv, ShapeInv
    <3>2. Write(storage[k]) \in AnyLock
      BY <3>1, LockValues
    <3>3. Read(Container) \in held[t]
      BY <2>1, LockValues DEF StageInv, Reads
    <3>4. ShapeInv' /\ Moves(t) /\ held'[t] = {Read(Container)}
      BY <2>1, <2>3, <3>2, <3>3 DEF ShapeInv, Moves, GiveUp, Ask
    <3>5. /\ call'[t].op = call[t].op /\ DOMAIN call'[t] = DOMAIN call[t]
          /\ call'[t].left \subseteq Keys
      <4>1. call'[t] = [call[t] EXCEPT !.left = call[t].left \ {k}]
        BY <2>3 DEF ShapeInv
      <4>2. "left" \in DOMAIN call[t] /\ call[t].left \subseteq Keys
        BY <2>1 DEF StageInv
      <4> QED BY <4>1, <4>2
    <3> QED BY <2>1, <2>3, <3>4, <3>5 DEF StageInv, Reads, Local
  <2> QED BY <1>8, <2>2, <2>3 DEF SaveNext
<1>9. CASE AddMap(t)
  <2>1. /\ stage[t] = "add" /\ wants[t] = Nothing /\ Return(t) /\ UNCHANGED <<calls, crash>>
        /\ UNCHANGED <<storage, added>> \/ Insert(call[t].key)
    BY <1>9 DEF AddMap, RunsAt, Fail
  <2>2. StorageShape'
    BY <1>0, <2>1 DEF StorageShape, Insert
  <2> QED BY <2>1, <2>2, ReturnStage
<1>10. CASE AddAllMaps(t)
  <2>1. /\ stage[t] = "add all" /\ wants[t] = Nothing /\ Return(t) /\ UNCHANGED <<calls, crash>>
    BY <1>10 DEF AddAllMaps, RunsAt
  <2>2. StorageShape'
    <3> DEFINE ks == call[t].keys
    <3>1. ks \subseteq Keys /\ Cardinality(ks) \in Nat
      BY <2>1, ConstantsAssumption, FS_Subset, FS_CardinalityType DEF StageInv
    <3>2. CASE UNCHANGED <<storage, added>>
      BY <1>0, <3>2 DEF StorageShape
    <3>3. ASSUME added' = added + Cardinality(ks),
                 NEW new \in [ks -> (added + 1) .. added'],
                 storage' = [k \in Keys |-> IF k \in ks THEN new[k] ELSE storage[k]]
          PROVE  StorageShape'
      <4>1. \A k \in ks : new[k] \in Nat \ {0}
        BY <1>0, <3>1, <3>3 DEF StorageShape
      <4> QED BY <1>0, <3>1, <3>3, <4>1 DEF StorageShape
    <3> QED BY <1>10, <3>2, <3>3 DEF AddAllMaps
  <2> QED BY <2>1, <2>2, ReturnStage
<1>11. CASE AskForContainer(t)
  <2>1. /\ stage[t] = "copy" /\ UNCHANGED <<storage, held, call, added, calls, crash>>
        /\ wants' = [wants EXCEPT ![t] = Write(Container)]
        /\ stage' = [stage EXCEPT ![t] = "add copy"]
    BY <1>11 DEF AskForContainer, RunsAt, Ask, Goto
  <2>2. ShapeInv' /\ Moves(t) /\ stage'[t] = "add copy" /\ call'[t] = call[t]
        /\ wants'[t] = Write(Container)
    BY <2>1, LockValues DEF ShapeInv, Moves, Stages
  <2>3. StageInv(t)'
    BY <2>1, <2>2 DEF StageInv, Reads
  <2> QED BY <2>2, <2>3 DEF Local
<1>12. CASE AddCopy(t)
  <2>1. PICK target \in Keys : Insert(target) /\ Return(t) /\ UNCHANGED <<calls, crash>>
    BY <1>12 DEF AddCopy, Fail
  <2>2. StorageShape'
    BY <1>0, <2>1 DEF StorageShape, Insert
  <2>3. wants[t] = Nothing
    BY <1>12 DEF AddCopy, RunsAt
  <2> QED BY <2>1, <2>2, <2>3, ReturnStage
<1>13. CASE RenameMap(t)
  <2>1. /\ wants[t] = Nothing /\ Return(t) /\ UNCHANGED <<added, calls, crash>>
        /\ stage[t] = "rename" /\ storage' = Renamed(call[t].key, call[t].new)
    BY <1>13 DEF RenameMap, RunsAt, Fail
  <2>2. StorageShape'
    BY <1>0, <2>1 DEF StorageShape, Renamed, StageInv
  <2> QED BY <2>1, <2>2, ReturnStage
<1>14. CASE TakeOut(t)
  <2>1. /\ stage[t] = "take out" /\ UNCHANGED <<wants, added, calls, crash>>
        /\ storage' = [storage EXCEPT ![call[t].key] = NoHandle]
        /\ call' = [call EXCEPT ![t] = [op |-> "releaseMap", handle |-> storage[call[t].key]]]
        /\ held' = [held EXCEPT ![t] = @ \ {Write(Container)}]
        /\ stage' = [stage EXCEPT ![t] = "wait until unused"]
    BY <1>14 DEF TakeOut, RunsAt, GiveUp, Goto, Fail
  <2>2. ShapeInv' /\ Moves(t) /\ stage'[t] = "wait until unused"
    BY <2>1 DEF ShapeInv, Moves, Stages
  <2>3. call'[t].op = "releaseMap" /\ "handle" \in DOMAIN call'[t]
    BY <2>1, CallValues DEF ShapeInv
  <2>4. StageInv(t)'
    BY <2>2, <2>3 DEF StageInv, Reads
  <2> QED BY <2>2, <2>4 DEF Local
<1> QED BY <1>1, <1>2, <1>3, <1>4, <1>5, <1>6, <1>7, <1>8, <1>9, <1>10, <1>11, <1>12, <1>13,
           <1>14 DEF Run
-----------------------------------------------------------------------------
\* A step of thread t that takes no lock, looks nothing up and touches no map.
Plain(t) ==
  /\ UNCHANGED <<storage, added>>
  /\ held'[t] \subseteq held[t]
  /\ wants'[t] \in {wants[t], Nothing, Read(Container), Write(Container)}
  /\ stage[t] # "wait until unused"
  /\ stage'[t] \notin {"wait until unused", "found", "second map"}

\* Thread t adds maps under keys that are free.
Adds(t) ==
  \E ks \in SUBSET Keys :
    /\ stage[t] \notin {"idle", "wait until unused"}
    /\ Write(Container) \in held[t] /\ Return(t)
    /\ \A k \in ks : storage[k] = NoHandle
    /\ added' = added + Cardinality(ks)
    /\ \E new \in [ks -> (added + 1) .. added'] :
         /\ \A k, l \in ks : new[k] = new[l] => k = l
         /\ storage' = [k \in Keys |-> IF k \in ks THEN new[k] ELSE storage[k]]

\* The number of the next handle.
LEMMA OneAbove == \A n \in Nat : \A m : m = n + 1 => n + 1 \in (n + 1) .. m
OBVIOUS

\* A single map that is added.
LEMMA InsertAdds ==
  ASSUME ShapeInv, NEW t \in Threads, NEW key \in Keys, Insert(key), storage[key] = NoHandle,
         stage[t] \notin {"idle", "wait until unused"}, Write(Container) \in held[t], Return(t)
  PROVE  Adds(t)
<1> DEFINE new == [k \in {key} |-> added + 1]
<1>1. added' = added + Cardinality({key}) /\ added' = added + 1 /\ added \in Nat
  BY FS_Singleton DEF Insert, ShapeInv
<1>2. new \in [{key} -> (added + 1) .. added']
  <2>1. added + 1 \in (added + 1) .. added'
    BY <1>1, OneAbove
  <2> QED BY <2>1, Zenon
<1>3. \A k, l \in {key} : new[k] = new[l] => k = l
  OBVIOUS
<1>4. storage' = [k \in Keys |-> IF k \in {key} THEN new[k] ELSE storage[k]]
  BY DEF Insert, ShapeInv
<1>5. {key} \in SUBSET Keys /\ \A k \in {key} : storage[k] = NoHandle
  OBVIOUS
<1> HIDE DEF new
<1> QED BY <1>1, <1>2, <1>3, <1>4, <1>5 DEF Adds

\* The start of a call changes no map.
LEMMA CallIsPlain ==
  ASSUME ShapeInv, NEW t \in Threads, Call(t)
  PROVE  Plain(t) /\ stage[t] = "idle" /\ stage'[t] # "idle" /\ calls' = calls + 1
         /\ held'[t] = held[t]
<1>1. ASSUME NEW c, NEW mode \in {"read", "write"}, NEW where \in Stages,
             where \notin {"idle", "wait until unused", "found", "second map"},
             Begin(t, c, mode, where)
      PROVE  Plain(t) /\ stage[t] = "idle" /\ stage'[t] # "idle" /\ calls' = calls + 1
             /\ held'[t] = held[t]
  <2>1. [lock |-> Container, mode |-> mode] \in {Read(Container), Write(Container)}
    BY DEF Read, Write
  <2>2. /\ wants'[t] = [lock |-> Container, mode |-> mode] /\ stage'[t] = where
        /\ stage[t] = "idle" /\ calls' = calls + 1
        /\ UNCHANGED <<storage, held, added>>
    BY <1>1 DEF Begin, Ask, Goto, ShapeInv
  <2> QED BY <1>1, <2>1, <2>2 DEF Plain
<1> QED BY <1>1 DEF Call, Stages

\* The steps by what they do to maps and locks.
LEMMA RunKinds ==
  ASSUME ShapeInv, NEW t \in Threads, StageInv(t), Run(t), ~crash'
  PROVE  \/ Plain(t) /\ stage[t] # "idle"
         \/ Grant(t) \/ LookUp(t) \/ AskForMap(t) \/ AskForSecondMap(t)
         \/ SaveNext(t) \/ DestroyHandle(t) \/ Adds(t) \/ RenameMap(t) \/ TakeOut(t)
<1>1. CASE TestBeforeSaving(t)
  <2>1. /\ stage[t] = "test" /\ UNCHANGED <<storage, added>>
        /\ \/ Return(t)
           \/ Goto(t, "look up") /\ UNCHANGED <<call, held, wants>>
    BY <1>1 DEF TestBeforeSaving, RunsAt
  <2>2. held'[t] \subseteq held[t] /\ wants'[t] = wants[t] /\ stage'[t] \in {"idle", "look up"}
    BY <2>1 DEF Return, Goto, ShapeInv
  <2> QED BY <2>1, <2>2 DEF Plain
<1>2. CASE Query(t) \/ EndAccess(t)
  <2>1. /\ stage[t] \in {"query", "use"} /\ UNCHANGED <<storage, added>> /\ Return(t)
    BY <1>2 DEF Query, EndAccess, RunsAt
  <2>2. held'[t] = {} /\ wants'[t] = wants[t] /\ stage'[t] = "idle"
    BY <2>1 DEF Return, Goto, ShapeInv
  <2> QED BY <2>1, <2>2 DEF Plain
<1>3. CASE GiveContainerBack(t)
  <2>1. /\ stage[t] = "attach" /\ UNCHANGED <<storage, added, wants>>
        /\ held' = [held EXCEPT ![t] = @ \ {Read(Container)}]
        /\ stage' = [stage EXCEPT ![t] = IF call[t].op = "copyMap" THEN "copy" ELSE "use"]
    BY <1>3 DEF GiveContainerBack, RunsAt, GiveUp, Goto
  <2>2. held'[t] \subseteq held[t] /\ stage'[t] \in {"copy", "use"}
    BY <2>1 DEF ShapeInv
  <2> QED BY <2>1, <2>2 DEF Plain
<1>4. CASE AskForContainer(t)
  <2>1. /\ stage[t] = "copy" /\ UNCHANGED <<storage, added, held>>
        /\ wants'[t] = Write(Container) /\ stage'[t] = "add copy"
    BY <1>4 DEF AskForContainer, RunsAt, Ask, Goto, ShapeInv
  <2> QED BY <2>1 DEF Plain
<1>5. CASE AddMap(t)
  <2>1. /\ stage[t] = "add" /\ wants[t] = Nothing /\ Return(t)
        /\ \/ UNCHANGED <<storage, added>>
           \/ storage[call[t].key] = NoHandle /\ Insert(call[t].key)
    BY <1>5 DEF AddMap, RunsAt, Fail
  <2>2. Write(Container) \in held[t] /\ call[t].key \in Keys
    BY <2>1, LockValues DEF StageInv
  <2>3. CASE UNCHANGED <<storage, added>>
    <3>1. held'[t] = {} /\ wants'[t] = wants[t] /\ stage'[t] = "idle"
      BY <2>1 DEF Return, Goto, ShapeInv
    <3> QED BY <2>1, <2>3, <3>1 DEF Plain
  <2> QED BY <2>1, <2>2, <2>3, InsertAdds
<1>6. CASE AddCopy(t)
  <2>1. PICK target \in Keys : storage[target] = NoHandle /\ Insert(target) /\ Return(t)
    BY <1>6 DEF AddCopy, Fail
  <2>2. stage[t] = "add copy" /\ wants[t] = Nothing
    BY <1>6 DEF AddCopy, RunsAt
  <2>3. Write(Container) \in held[t]
    BY <2>2, LockValues DEF StageInv
  <2> QED BY <2>1, <2>2, <2>3, InsertAdds
<1>7. CASE AddAllMaps(t)
  <2>1. stage[t] = "add all" /\ wants[t] = Nothing /\ Return(t)
    BY <1>7 DEF AddAllMaps, RunsAt
  <2>2. Write(Container) \in held[t] /\ call[t].keys \in SUBSET Keys
    BY <2>1, LockValues DEF StageInv
  <2>3. CASE UNCHANGED <<storage, added>>
    <3>1. held'[t] = {} /\ wants'[t] = wants[t] /\ stage'[t] = "idle"
      BY <2>1 DEF Return, Goto, ShapeInv
    <3> QED BY <2>1, <2>3, <3>1 DEF Plain
  <2>4. CASE ~UNCHANGED <<storage, added>>
    BY <1>7, <2>1, <2>2, <2>4 DEF AddAllMaps, Adds
  <2> QED BY <2>3, <2>4
<1> QED BY <1>1, <1>2, <1>3, <1>4, <1>5, <1>6, <1>7 DEF Run
-----------------------------------------------------------------------------
\* A CHECK that fails changes nothing but crash.
LEMMA FailKeeps ==
  ASSUME NEW t \in Threads, ~crash, Call(t) \/ Run(t), crash'
  PROVE  UNCHANGED <<storage, held, wants, call, stage, added, calls>>
<1>1. CASE Call(t)
  BY <1>1 DEF Call, Begin
<1>2. CASE Grant(t) \/ AskForMap(t) \/ AskForSecondMap(t) \/ TestBeforeSaving(t) \/ Query(t)
           \/ GiveContainerBack(t) \/ EndAccess(t) \/ SaveNext(t) \/ AddAllMaps(t)
           \/ AskForContainer(t) \/ DestroyHandle(t)
  BY <1>2 DEF Grant, AskForMap, AskForSecondMap, TestBeforeSaving, Query, GiveContainerBack,
              EndAccess, SaveNext, AddAllMaps, AskForContainer, DestroyHandle
<1>3. CASE LookUp(t) \/ AddMap(t) \/ AddCopy(t) \/ RenameMap(t) \/ TakeOut(t)
  BY <1>3 DEF LookUp, AddMap, AddCopy, RenameMap, TakeOut, Fail
<1> QED BY <1>1, <1>2, <1>3 DEF Run

\* The steps that do not take out a map, destroy one or add one.
Quiet(t) ==
  /\ UNCHANGED <<storage, added>>
  /\ stage[t] # "wait until unused" /\ stage'[t] # "wait until unused"

\* The same with respect to owners; a step takes locks only in Grant.
LEMMA StepKinds ==
  ASSUME IInv, NEW t \in Threads, Call(t) \/ Run(t), ~crash'
  PROVE  /\ \/ Quiet(t) \/ Grant(t) \/ DestroyHandle(t) \/ Adds(t) \/ RenameMap(t)
            \/ TakeOut(t)
         /\ Grant(t) \/ held'[t] \subseteq held[t]
<1>1. ShapeInv /\ StageInv(t)
  BY DEF IInv
<1>2. CASE Plain(t)
  BY <1>2 DEF Plain, Quiet
<1>3. CASE LookUp(t)
  <2>1. stage[t] = "look up" /\ stage'[t] = "found" /\ UNCHANGED <<storage, added, held>>
    BY <1>1, <1>3 DEF LookUp, RunsAt, Fail, Goto, KeepContainer, ShapeInv
  <2> QED BY <2>1 DEF Quiet
<1>4. CASE AskForMap(t)
  <2>1. stage[t] = "found" /\ stage'[t] \in {"second map", "attach"}
        /\ UNCHANGED <<storage, added, held>>
    BY <1>1, <1>4 DEF AskForMap, RunsAt, Goto, ShapeInv
  <2> QED BY <2>1 DEF Quiet
<1>5. CASE AskForSecondMap(t)
  <2>1. stage[t] = "second map" /\ stage'[t] = "attach" /\ UNCHANGED <<storage, added, held>>
    BY <1>1, <1>5 DEF AskForSecondMap, RunsAt, Goto, ShapeInv
  <2> QED BY <2>1 DEF Quiet
<1>6. CASE SaveNext(t)
  <2>1. stage[t] = "save next" /\ UNCHANGED <<storage, added>>
    BY <1>6 DEF SaveNext, RunsAt
  <2>2. stage'[t] \in {"save next", "idle"} /\ held'[t] \subseteq held[t]
    BY <1>1, <1>6, <2>1 DEF SaveNext, Return, Goto, GiveUp, ShapeInv
  <2> QED BY <2>1, <2>2 DEF Quiet
<1>7. Return(t) => held'[t] \subseteq held[t]
  BY <1>1 DEF Return, ShapeInv
<1>8. Adds(t) \/ RenameMap(t) \/ DestroyHandle(t) => Return(t)
  BY DEF Adds, RenameMap, DestroyHandle, Fail
<1>9. TakeOut(t) => held'[t] \subseteq held[t]
  <2>1. TakeOut(t) => held' = held \/ held' = [held EXCEPT ![t] = @ \ {Write(Container)}]
    BY DEF TakeOut, GiveUp, Fail
  <2>2. held \in [Threads -> SUBSET AnyLock]
    BY <1>1 DEF ShapeInv
  <2> QED BY <2>1, <2>2
<1>10. \/ Plain(t) \/ Grant(t) \/ LookUp(t) \/ AskForMap(t) \/ AskForSecondMap(t)
       \/ SaveNext(t) \/ DestroyHandle(t) \/ Adds(t) \/ RenameMap(t) \/ TakeOut(t)
  BY <1>1, RunKinds, CallIsPlain
<1> QED BY <1>2, <1>3, <1>4, <1>5, <1>6, <1>7, <1>8, <1>9, <1>10

\* A lock is granted only to a thread that excludes nobody.
LEMMA StepExclude ==
  ASSUME IInv, NEW t \in Threads, Call(t) \/ Run(t), ~crash', Local(t)
  PROVE  LocksExclude'
<1>1. LocksExclude /\ ShapeInv
  BY DEF IInv
<1>2. \A u \in Threads : u # t => held'[u] = held[u]
  BY DEF Local, Moves
<1>3. CASE held'[t] \subseteq held[t]
  <2>1. \A u \in Threads : held'[u] \subseteq held[u]
    BY <1>2, <1>3
  <2> QED BY <1>1, <2>1 DEF LocksExclude
<1>4. CASE Grant(t)
  <2> DEFINE w == wants[t]
  <2>1. w \in AnyLock /\ Grantable(w) /\ held'[t] = held[t] \cup {w}
    BY <1>1, <1>4 DEF Grant, ShapeInv
  <2>2. \A u \in Threads : \A a \in held[u] :
        a.lock = w.lock => a.mode = "read" /\ w.mode = "read"
    <3> SUFFICES ASSUME NEW u \in Threads, NEW a \in held[u], a.lock = w.lock
                 PROVE  a.mode = "read" /\ w.mode = "read"
      OBVIOUS
    <3>1. a \in AnyLock /\ (a = Read(w.lock) \/ a = Write(w.lock))
      BY <1>1, LockValues DEF ShapeInv
    <3>2. a # Write(w.lock) /\ (w.mode # "read" => a # Read(w.lock))
      BY <2>1 DEF Grantable
    <3>3. w.mode \in {"read", "write"}
      BY <2>1 DEF AnyLock
    <3> QED BY <3>1, <3>2, <3>3, LockValues
  <2>3. \A u \in Threads : \A a \in held'[u] : a \in held[u] \/ (u = t /\ a = w)
    BY <1>2, <2>1
  <2> HIDE DEF w
  <2>4. ASSUME NEW u \in Threads, NEW v \in Threads, NEW a \in held'[u], NEW b \in held'[v],
               a.lock = b.lock, a.mode = "write"
        PROVE  u = v /\ a = b
    <3>1. CASE a \in held[u] /\ b \in held[v]
      BY <1>1, <2>4, <3>1 DEF LocksExclude
    <3>2. CASE a \in held[u] /\ v = t /\ b = w
      BY <2>2, <2>4, <3>2
    <3>3. CASE u = t /\ a = w /\ b \in held[v]
      BY <2>2, <2>4, <3>3
    <3> QED BY <2>3, <3>1, <3>2, <3>3
  <2> QED BY <2>4 DEF LocksExclude
<1> QED BY <1>3, <1>4, StepKinds
\* Only a thread that holds the container for writing changes it.
LEMMA OnlyWritersChange ==
  ASSUME IInv, NEW t \in Threads, Call(t) \/ Run(t), ~crash'
  PROVE  UNCHANGED storage \/ Write(Container) \in held[t]
<1>1. StageInv(t)
  BY DEF IInv
<1>2. CASE RenameMap(t) \/ TakeOut(t)
  <2>1. stage[t] \in {"rename", "take out"} /\ wants[t] = Nothing
    BY <1>2 DEF RenameMap, TakeOut, RunsAt
  <2> QED BY <1>1, <2>1, LockValues DEF StageInv
<1>3. Quiet(t) \/ Grant(t) \/ DestroyHandle(t) => UNCHANGED storage
  BY DEF Quiet, Grant, DestroyHandle
<1>4. Adds(t) => Write(Container) \in held[t]
  BY DEF Adds
<1> QED BY <1>2, <1>3, <1>4, StepKinds

\* A thread that has just looked maps up, or that goes on after it has.
LEMMA LooksUp ==
  ASSUME IInv, NEW t \in Threads, Call(t) \/ Run(t), ~crash', Local(t),
         stage'[t] \in {"found", "second map"}
  PROVE  /\ UNCHANGED storage
         /\ \/ stage[t] \in {"found", "second map"} /\ call'[t] = call[t]
            \/ \A k \in DOMAIN call'[t].maps :
                 call'[t].maps[k] = storage[k] /\ storage[k] # NoHandle
<1>1. ShapeInv /\ StageInv(t)
  BY DEF IInv
<1>2. CASE Grant(t)
  BY <1>1, <1>2 DEF Grant
<1>3. CASE LookUp(t)
  <2>1. \A k \in Needed(t) : storage[k] # NoHandle
    BY <1>3 DEF LookUp, Fail
  <2>2. PICK c : call' = [call EXCEPT ![t] = c] /\ c.maps = [k \in Needed(t) |-> storage[k]]
    <3> DEFINE d == [op |-> call[t].op, maps |-> [k \in Needed(t) |-> storage[k]],
                     key |-> call[t].key,
                     from |-> IF call[t].op = "mergeMaps" THEN call[t].from ELSE call[t].key]
    <3>1. call' = [call EXCEPT ![t] = d]
      BY <1>3 DEF LookUp, Fail
    <3>2. d.maps = [k \in Needed(t) |-> storage[k]]
      OBVIOUS
    <3> HIDE DEF d
    <3> QED BY <3>1, <3>2
  <2>3. call'[t] = c
    BY <1>1, <2>2 DEF ShapeInv
  <2>4. UNCHANGED storage
    BY <1>3 DEF LookUp, Fail
  <2> QED BY <2>1, <2>2, <2>3, <2>4
<1>4. CASE AskForMap(t)
  BY <1>4 DEF AskForMap, RunsAt
<1>5. CASE AskForSecondMap(t)
  <2>1. stage'[t] = "attach"
    BY <1>1, <1>5 DEF AskForSecondMap, Goto, ShapeInv
  <2> QED BY <2>1
<1>6. CASE SaveNext(t)
  <2>1. stage'[t] \in {"save next", "idle"}
    BY <1>1, <1>6 DEF SaveNext, RunsAt, Return, Goto, ShapeInv
  <2> QED BY <2>1
<1>7. CASE Return(t)
  <2>1. stage'[t] = "idle"
    BY <1>1, <1>7 DEF Return, Goto, ShapeInv
  <2> QED BY <2>1
<1>8. CASE TakeOut(t)
  <2>1. stage'[t] = "wait until unused"
    BY <1>1, <1>8 DEF TakeOut, Fail, Goto, ShapeInv
  <2> QED BY <2>1
<1>9. ~Plain(t)
  BY DEF Plain
<1>10. Adds(t) \/ RenameMap(t) \/ DestroyHandle(t) => Return(t)
  BY DEF Adds, RenameMap, DestroyHandle, Fail
<1>11. \/ Plain(t) \/ Grant(t) \/ LookUp(t) \/ AskForMap(t) \/ AskForSecondMap(t)
       \/ SaveNext(t) \/ DestroyHandle(t) \/ Adds(t) \/ RenameMap(t) \/ TakeOut(t)
  BY <1>1, RunKinds, CallIsPlain
<1> QED BY <1>1, <1>2, <1>3, <1>4, <1>5, <1>6, <1>7, <1>8, <1>9, <1>10, <1>11

\* A thread that has looked a map up keeps the container for reading, so nobody changes
\* the container meanwhile.
LEMMA StepLookups ==
  ASSUME IInv, NEW t \in Threads, Call(t) \/ Run(t), ~crash', Local(t)
  PROVE  LookupsCurrent'
<1> SUFFICES ASSUME NEW u \in Threads, stage'[u] \in {"found", "second map"},
                    NEW k \in DOMAIN call'[u].maps
             PROVE  call'[u].maps[k] = storage'[k] /\ storage'[k] # NoHandle
  BY DEF LookupsCurrent
<1>1. LookupsCurrent /\ LocksExclude /\ StageInv(u)
  BY DEF IInv
<1>2. CASE u = t
  <2>1. \/ stage[t] \in {"found", "second map"} /\ call'[t] = call[t]
        \/ \A l \in DOMAIN call'[t].maps :
             call'[t].maps[l] = storage[l] /\ storage[l] # NoHandle
    BY <1>2, LooksUp
  <2>2. storage' = storage
    BY <1>2, LooksUp
  <2> QED BY <1>1, <1>2, <2>1, <2>2 DEF LookupsCurrent
<1>3. CASE u # t
  <2>1. stage'[u] = stage[u] /\ call'[u] = call[u]
    BY <1>3 DEF Local, Moves
  <2>2. call[u].maps[k] = storage[k] /\ storage[k] # NoHandle
    BY <1>1, <2>1 DEF LookupsCurrent
  <2>3. Read(Container) \in held[u]
    BY <1>1, <2>1 DEF StageInv, Reads
  <2>4. Write(Container) \notin held[t]
    <3>1. /\ Write(Container).lock = Read(Container).lock
          /\ Write(Container).mode = "write"
      BY LockValues
    <3> QED BY <1>1, <1>3, <2>3, <3>1 DEF LocksExclude
  <2>5. storage' = storage
    BY <2>4, OnlyWritersChange
  <2> QED BY <2>1, <2>2, <2>5
<1> QED BY <1>2, <1>3
\* The numbers up to the newest handle.
LEMMA UpTo ==
  ASSUME NEW n \in Nat
  PROVE  /\ \A m \in Nat : m # 0 /\ m <= n => m \in 1 .. n
         /\ \A m \in Nat, i \in 1 .. n : n <= m => i \in 1 .. m
         /\ \A m \in Nat, i \in 1 .. n : m > n => m # i
OBVIOUS

\* A handle is in the container under one key, or one releaseMap is destroying it.
LEMMA StepHandles ==
  ASSUME IInv, NEW t \in Threads, Call(t) \/ Run(t), ~crash', Local(t)
  PROVE  HandlesInv'
<1>1. ShapeInv /\ StageInv(t) /\ HandlesInv
  BY DEF IInv
<1>2. \A u \in Threads : u # t => stage'[u] = stage[u] /\ call'[u] = call[u]
  BY DEF Local, Moves
<1>3. ASSUME UNCHANGED <<storage, added>>,
             stage'[t] = "wait until unused" => stage[t] = "wait until unused"
                                                /\ call'[t] = call[t]
      PROVE  HandlesInv'
  <2>1. \A u \in Threads : stage'[u] = "wait until unused" =>
          stage[u] = "wait until unused" /\ call'[u] = call[u]
    BY <1>2, <1>3
  <2> QED BY <1>1, <1>3, <2>1 DEF HandlesInv, Releases
<1>4. CASE Quiet(t)
  BY <1>3, <1>4 DEF Quiet
<1>5. CASE Grant(t)
  BY <1>3, <1>5 DEF Grant
<1>6. CASE DestroyHandle(t)
  <2>1. stage'[t] = "idle" /\ UNCHANGED <<storage, added>>
    BY <1>1, <1>6 DEF DestroyHandle, Return, Goto, ShapeInv
  <2> QED BY <1>3, <2>1
<1>7. CASE Adds(t)
  <2>1. PICK ks \in SUBSET Keys :
          /\ added' = added + Cardinality(ks)
          /\ \E new \in [ks -> (added + 1) .. added'] :
               /\ \A k, l \in ks : new[k] = new[l] => k = l
               /\ storage' = [k \in Keys |-> IF k \in ks THEN new[k] ELSE storage[k]]
    BY <1>7 DEF Adds
  <2>2. PICK new \in [ks -> (added + 1) .. added'] :
          /\ \A k, l \in ks : new[k] = new[l] => k = l
          /\ storage' = [k \in Keys |-> IF k \in ks THEN new[k] ELSE storage[k]]
    BY <2>1
  <2>3. added \in Nat /\ added' \in Nat /\ added <= added'
    <3>1. Cardinality(ks) \in Nat
      BY ConstantsAssumption, FS_Subset, FS_CardinalityType
    <3> QED BY <1>1, <2>1, <3>1 DEF ShapeInv
  <2>4. \A k \in ks : storage'[k] = new[k] /\ new[k] \in Nat /\ new[k] > added
                      /\ new[k] <= added'
    BY <2>2, <2>3
  <2>5. \A k \in Keys \ ks : storage'[k] = storage[k]
    BY <2>2
  <2>6. \A k \in Keys : storage[k] # NoHandle => storage[k] \in Nat /\ storage[k] <= added
    BY <1>1 DEF ShapeInv, HandlesInv
  <2>7. \A u \in Threads : stage'[u] = "wait until unused" =>
          stage[u] = "wait until unused" /\ call'[u] = call[u]
    <3>1. stage'[t] = "idle"
      BY <1>1, <1>7 DEF Adds, Return, Goto, ShapeInv
    <3> QED BY <1>2, <3>1
  <2>8. \A k \in Keys : storage'[k] # NoHandle => storage'[k] <= added'
    BY <2>3, <2>4, <2>5, <2>6
  <2>9. \A u \in Threads : stage'[u] = "wait until unused" =>
          call'[u].handle \in 1 .. added' /\ \A k \in Keys : storage'[k] # call'[u].handle
    <3> SUFFICES ASSUME NEW u \in Threads, stage'[u] = "wait until unused"
                 PROVE  call'[u].handle \in 1 .. added'
                        /\ \A k \in Keys : storage'[k] # call'[u].handle
      OBVIOUS
    <3>1. /\ call'[u] = call[u] /\ call[u].handle \in 1 .. added
          /\ \A k \in Keys : storage[k] # call[u].handle
      BY <1>1, <2>7 DEF HandlesInv
    <3> DEFINE h == call[u].handle
    <3>2. h \in 1 .. added
      BY <3>1
    <3> HIDE DEF h
    <3>3. h \in 1 .. added' /\ \A n \in Nat : n > added => n # h
      BY <2>3, <3>2, UpTo
    <3>4. \A k \in Keys : storage'[k] # h
      <4>1. \A k \in ks : storage'[k] # h
        BY <2>4, <3>3
      <4>2. \A k \in Keys \ ks : storage'[k] # h
        BY <2>5, <3>1 DEF h
      <4> QED BY <4>1, <4>2
    <3> QED BY <3>1, <3>3, <3>4 DEF h
  <2>10. \A k, l \in Keys : storage'[k] = storage'[l] /\ storage'[k] # NoHandle => k = l
    <3> SUFFICES ASSUME NEW k \in Keys, NEW l \in Keys, storage'[k] = storage'[l],
                        storage'[k] # NoHandle
                 PROVE  k = l
      OBVIOUS
    <3>1. CASE k \in ks /\ l \in ks
      BY <2>2, <2>4, <3>1
    <3>2. CASE k \notin ks /\ l \notin ks
      BY <1>1, <2>5, <3>2 DEF HandlesInv
    <3>3. CASE k \in ks /\ l \notin ks
      BY <2>3, <2>4, <2>5, <2>6, <3>3
    <3>4. CASE k \notin ks /\ l \in ks
      BY <2>3, <2>4, <2>5, <2>6, <3>4
    <3> QED BY <3>1, <3>2, <3>3, <3>4
  <2>11. \A u, v \in Threads :
           stage'[u] = "wait until unused" /\ stage'[v] = "wait until unused"
             /\ call'[v].handle = call'[u].handle => u = v
    BY <1>1, <2>7 DEF HandlesInv, Releases
  <2> QED BY <2>8, <2>9, <2>10, <2>11 DEF HandlesInv, Releases
<1>8. CASE RenameMap(t)
  <2> DEFINE old == call[t].key
             new == call[t].new
  <2>1. /\ stage[t] = "rename" /\ Return(t) /\ UNCHANGED added
        /\ storage[new] = NoHandle /\ storage[old] # NoHandle
        /\ storage' = [storage EXCEPT ![new] = storage[old], ![old] = NoHandle]
    BY <1>8 DEF RenameMap, RunsAt, Fail, Renamed
  <2>2. old \in Keys /\ new \in Keys /\ old # new
    BY <1>1, <2>1 DEF StageInv
  <2> HIDE DEF old, new
  <2>3. /\ storage'[new] = storage[old] /\ storage'[old] = NoHandle
        /\ \A k \in Keys : k \notin {old, new} => storage'[k] = storage[k]
    BY <1>1, <2>1, <2>2 DEF ShapeInv
  <2>4. \A u \in Threads : stage'[u] = "wait until unused" =>
          stage[u] = "wait until unused" /\ call'[u] = call[u]
    <3>1. stage'[t] = "idle"
      BY <1>1, <2>1 DEF Return, Goto, ShapeInv
    <3> QED BY <1>2, <3>1
  <2>5. \A k \in Keys : storage'[k] # NoHandle =>
          \E l \in Keys : storage'[k] = storage[l] /\ l = (IF k = new THEN old ELSE k)
    BY <2>2, <2>3
  <2>6. \A k \in Keys : storage'[k] # NoHandle => storage'[k] <= added'
    <3>1. \A l \in Keys : storage[l] # NoHandle => storage[l] <= added
      BY <1>1 DEF HandlesInv
    <3> QED BY <2>1, <2>5, <3>1
  <2>7. \A u \in Threads : stage'[u] = "wait until unused" =>
          /\ call'[u].handle \in 1 .. added' /\ call'[u].handle # NoHandle
          /\ \A k \in Keys : storage[k] # call'[u].handle
    <3>1. \A n \in 1 .. added : n # NoHandle
      BY <1>1, ConstantsAssumption DEF ShapeInv
    <3>2. \A u \in Threads : stage[u] = "wait until unused" =>
            call[u].handle \in 1 .. added /\ \A k \in Keys : storage[k] # call[u].handle
      BY <1>1 DEF HandlesInv
    <3> QED BY <2>1, <2>4, <3>1, <3>2
  <2>8. \A u \in Threads : stage'[u] = "wait until unused" =>
          \A k \in Keys : storage'[k] # call'[u].handle
    BY <2>5, <2>7
  <2>9. \A k, l \in Keys : storage'[k] = storage'[l] /\ storage'[k] # NoHandle => k = l
    <3> SUFFICES ASSUME NEW k \in Keys, NEW l \in Keys, storage'[k] = storage'[l],
                        storage'[k] # NoHandle
                 PROVE  k = l
      OBVIOUS
    <3>1. k # old /\ l # old
      BY <2>3
    <3>2. \A m, n \in Keys : storage[m] = storage[n] /\ storage[m] # NoHandle => m = n
      BY <1>1 DEF HandlesInv
    <3>3. CASE k = new
      BY <2>2, <2>3, <3>1, <3>2, <3>3
    <3>4. CASE k # new
      BY <2>2, <2>3, <3>1, <3>2, <3>4
    <3> QED BY <3>3, <3>4
  <2>10. \A u, v \in Threads :
           stage'[u] = "wait until unused" /\ stage'[v] = "wait until unused"
             /\ call'[v].handle = call'[u].handle => u = v
    BY <1>1, <2>4 DEF HandlesInv, Releases
  <2> QED BY <2>6, <2>7, <2>8, <2>9, <2>10 DEF HandlesInv, Releases
<1>9. CASE TakeOut(t)
  <2> DEFINE k == call[t].key
             h == storage[k]
  <2>1. /\ stage[t] = "take out" /\ UNCHANGED added /\ h # NoHandle
        /\ storage' = [storage EXCEPT ![k] = NoHandle]
        /\ call' = [call EXCEPT ![t] = [op |-> "releaseMap", handle |-> h]]
    BY <1>9 DEF TakeOut, RunsAt, Fail
  <2>2. k \in Keys /\ call'[t].handle = h
    BY <1>1, <2>1 DEF StageInv, ShapeInv
  <2>3. /\ storage'[k] = NoHandle
        /\ \A l \in Keys : l # k => storage'[l] = storage[l]
    BY <1>1, <2>1, <2>2 DEF ShapeInv
  <2>4. h \in Nat /\ h # 0 /\ h <= added /\ added \in Nat /\ added' = added
    BY <1>1, <2>1, <2>2 DEF ShapeInv, HandlesInv
  <2>5. \A l \in Keys : storage'[l] # h
    <3>1. \A l \in Keys : storage[l] = storage[k] => l = k
      BY <1>1, <2>1, <2>2 DEF HandlesInv
    <3> QED BY <2>1, <2>3, <3>1
  <2>6. \A u \in Threads : u # t /\ stage[u] = "wait until unused" => call[u].handle # h
    BY <1>1, <2>2 DEF HandlesInv
  <2>7. stage[t] # "wait until unused"
    BY <2>1
  <2>8. \A u \in Threads : stage[u] = "wait until unused" => call[u].handle # NoHandle
    <3>1. \A n \in 1 .. added : n # NoHandle
      BY <2>4, ConstantsAssumption
    <3> QED BY <1>1, <3>1 DEF HandlesInv
  <2> HIDE DEF k, h
  <2>9. \A l \in Keys : storage'[l] # NoHandle => storage'[l] <= added'
    BY <1>1, <2>3, <2>4 DEF HandlesInv
  <2>10. \A u \in Threads : stage'[u] = "wait until unused" =>
           call'[u].handle \in 1 .. added' /\ \A l \in Keys : storage'[l] # call'[u].handle
    <3> SUFFICES ASSUME NEW u \in Threads, stage'[u] = "wait until unused"
                 PROVE  call'[u].handle \in 1 .. added'
                        /\ \A l \in Keys : storage'[l] # call'[u].handle
      OBVIOUS
    <3>1. CASE u = t
      <4>1. h \in 1 .. added'
        BY <2>4, UpTo
      <4> QED BY <2>2, <2>5, <3>1, <4>1
    <3>2. CASE u # t
      BY <1>1, <1>2, <2>3, <2>4, <2>8, <3>2 DEF HandlesInv
    <3> QED BY <3>1, <3>2
  <2>11. \A l, m \in Keys : storage'[l] = storage'[m] /\ storage'[l] # NoHandle => l = m
    BY <1>1, <2>3 DEF HandlesInv
  <2>12. \A u, v \in Threads :
           stage'[u] = "wait until unused" /\ stage'[v] = "wait until unused"
             /\ call'[v].handle = call'[u].handle => u = v
    <3>1. \A u, v \in Threads :
            stage[u] = "wait until unused" /\ stage[v] = "wait until unused"
              /\ call[v].handle = call[u].handle => u = v
      BY <1>1 DEF HandlesInv, Releases
    <3> QED BY <1>2, <2>2, <2>6, <3>1
  <2> QED BY <2>9, <2>10, <2>11, <2>12 DEF HandlesInv, Releases
<1> QED BY <1>4, <1>5, <1>6, <1>7, <1>8, <1>9, StepKinds
\* A map that somebody has locked or waits for keeps its owner: releaseMap waits.
LEMMA OwnersStay ==
  ASSUME IInv, NEW t \in Threads, Call(t) \/ Run(t), ~crash', Local(t),
         NEW h \in Nat, Owned(h), DestroyHandle(t) => call[t].handle # h
  PROVE  Owned(h)'
<1>1. ShapeInv /\ StageInv(t) /\ HandlesInv
  BY DEF IInv
<1>2. \A u \in Threads : u # t => stage'[u] = stage[u] /\ call'[u] = call[u]
  BY DEF Local, Moves
<1>3. h # NoHandle
  BY ConstantsAssumption
<1>4. ASSUME NEW u \in Threads, stage[u] = "wait until unused", call[u].handle = h
      PROVE  Owned(h)'
  <2>1. CASE u # t
    BY <1>2, <1>4, <2>1 DEF Owned, Releases
  <2>2. CASE u = t
    <3>1. CASE Grant(t)
      BY <1>4, <2>2, <3>1 DEF Grant, Owned, Releases
    <3>2. ~Quiet(t) /\ ~Adds(t) /\ ~DestroyHandle(t)
      BY <1>4, <2>2 DEF Quiet, Adds
    <3>3. ~RenameMap(t) /\ ~TakeOut(t)
      BY <1>4, <2>2 DEF RenameMap, TakeOut, RunsAt
    <3> QED BY <3>1, <3>2, <3>3, StepKinds
  <2> QED BY <2>1, <2>2
<1>5. ASSUME NEW k \in Keys, storage[k] = h
      PROVE  Owned(h)'
  <2>1. CASE UNCHANGED storage
    BY <1>5, <2>1 DEF Owned
  <2>2. CASE Adds(t)
    <3>1. storage'[k] = storage[k]
      BY <1>3, <1>5, <2>2 DEF Adds
    <3> QED BY <1>5, <3>1 DEF Owned
  <2>3. CASE RenameMap(t)
    <3> DEFINE old == call[t].key
               new == call[t].new
    <3>1. /\ stage[t] = "rename" /\ storage[new] = NoHandle
          /\ storage' = [storage EXCEPT ![new] = storage[old], ![old] = NoHandle]
          /\ storage[old] # NoHandle
      BY <2>3 DEF RenameMap, RunsAt, Fail, Renamed
    <3>2. old \in Keys /\ new \in Keys /\ old # new
      BY <1>1, <3>1 DEF StageInv
    <3> HIDE DEF old, new
    <3>3. storage'[new] = storage[old] /\ \A l \in Keys : l \notin {old, new} =>
                                            storage'[l] = storage[l]
      BY <1>1, <3>1, <3>2 DEF ShapeInv
    <3>4. CASE k = old
      BY <1>5, <3>2, <3>3, <3>4 DEF Owned
    <3>5. CASE k # old
      BY <1>3, <1>5, <3>1, <3>3, <3>5 DEF Owned
    <3> QED BY <3>4, <3>5
  <2>4. CASE TakeOut(t)
    <3> DEFINE key == call[t].key
    <3>1. /\ stage[t] = "take out"
          /\ storage' = [storage EXCEPT ![key] = NoHandle]
          /\ call' = [call EXCEPT ![t] = [op |-> "releaseMap", handle |-> storage[key]]]
          /\ stage' = [stage EXCEPT ![t] = "wait until unused"]
      BY <2>4 DEF TakeOut, RunsAt, Fail, Goto
    <3>2. CASE k = key
      <4>1. stage'[t] = "wait until unused" /\ call'[t].handle = storage[key]
        BY <1>1, <3>1 DEF ShapeInv
      <4> QED BY <1>5, <3>2, <4>1 DEF Owned, Releases
    <3>3. CASE k # key
      <4>1. storage'[k] = storage[k]
        BY <1>1, <3>1, <3>3 DEF ShapeInv
      <4> QED BY <1>5, <4>1 DEF Owned
    <3> QED BY <3>2, <3>3
  <2>5. Quiet(t) \/ Grant(t) \/ DestroyHandle(t) => UNCHANGED storage
    BY DEF Quiet, Grant, DestroyHandle
  <2> QED BY <2>1, <2>2, <2>3, <2>4, <2>5, StepKinds
<1> QED BY <1>4, <1>5 DEF Owned, Releases

\* What a thread asks for is the container, or a map that it has looked up.
LEMMA AsksForOwned ==
  ASSUME IInv, NEW t \in Threads, Call(t) \/ Run(t), ~crash', Local(t)
  PROVE  \/ wants'[t] \in {wants[t], Nothing, Read(Container), Write(Container)}
         \/ /\ UNCHANGED storage
            /\ \E k \in Keys : wants'[t].lock = storage[k]
<1>1. ShapeInv /\ StageInv(t) /\ LookupsCurrent
  BY DEF IInv
<1>2. CASE Plain(t)
  BY <1>2 DEF Plain
<1>3. CASE Grant(t)
  BY <1>1, <1>3 DEF Grant, ShapeInv
<1>4. CASE LookUp(t) \/ TakeOut(t)
  BY <1>4 DEF LookUp, TakeOut, Fail
<1>5. CASE AskForMap(t)
  <2>1. /\ stage[t] = "found" /\ UNCHANGED storage
        /\ wants'[t] = [lock |-> call[t].maps[call[t].key], mode |-> AccessMode(t)]
    BY <1>1, <1>5 DEF AskForMap, RunsAt, Ask, ShapeInv
  <2>2. call[t].key \in DOMAIN call[t].maps /\ call[t].key \in Keys
    BY <1>1, <2>1 DEF StageInv
  <2>3. call[t].maps[call[t].key] = storage[call[t].key]
    BY <1>1, <2>1, <2>2 DEF LookupsCurrent
  <2>4. wants'[t].lock = call[t].maps[call[t].key]
    BY <2>1
  <2> QED BY <2>1, <2>2, <2>3, <2>4
<1>6. CASE AskForSecondMap(t)
  <2>1. /\ stage[t] = "second map" /\ UNCHANGED storage
        /\ wants'[t] = Read(call[t].maps[call[t].from])
    BY <1>1, <1>6 DEF AskForSecondMap, RunsAt, Ask, ShapeInv
  <2>2. call[t].from \in DOMAIN call[t].maps /\ call[t].from \in Keys
    BY <1>1, <2>1 DEF StageInv
  <2>3. call[t].maps[call[t].from] = storage[call[t].from]
    BY <1>1, <2>1, <2>2 DEF LookupsCurrent
  <2>4. wants'[t].lock = call[t].maps[call[t].from]
    BY <2>1, LockValues
  <2> QED BY <2>1, <2>2, <2>3, <2>4
<1>7. CASE SaveNext(t)
  <2>1. CASE Return(t)
    BY <2>1 DEF Return
  <2>2. ASSUME NEW k \in call[t].left, Ask(t, Write(storage[k]))
        PROVE  (\E l \in Keys : wants'[t].lock = storage[l])
    <3>1. k \in Keys
      BY <1>1, <1>7, <2>2 DEF SaveNext, RunsAt, StageInv
    <3>2. wants'[t] = Write(storage[k])
      BY <1>1, <2>2 DEF Ask, ShapeInv
    <3>3. wants'[t].lock = storage[k]
      BY <3>2, LockValues
    <3> QED BY <3>1, <3>3
  <2>3. UNCHANGED storage
    BY <1>7 DEF SaveNext
  <2> QED BY <1>7, <2>1, <2>2, <2>3 DEF SaveNext
<1>8. CASE Return(t)
  BY <1>8 DEF Return
<1>9. Adds(t) \/ RenameMap(t) \/ DestroyHandle(t) => Return(t)
  BY DEF Adds, RenameMap, DestroyHandle, Fail
<1> QED BY <1>1, <1>2, <1>3, <1>4, <1>5, <1>6, <1>7, <1>8, <1>9, RunKinds, CallIsPlain

\* No lock that is held or waited for loses its owner.
LEMMA StepOwned ==
  ASSUME IInv, NEW t \in Threads, Call(t) \/ Run(t), ~crash', Local(t)
  PROVE  LocksOwned'
<1>1. ShapeInv /\ LocksOwned
  BY DEF IInv
<1>2. \A u \in Threads : u # t => wants'[u] = wants[u] /\ held'[u] = held[u]
  BY DEF Local, Moves
<1>3. ShapeInv'
  BY DEF Local
<1>4. ASSUME NEW h \in Nat, h # Container, Owned(h),
             \E u \in Threads : wants[u].lock = h \/ \E a \in held[u] : a.lock = h
      PROVE  Owned(h)'
  <2>1. InUse(h)
    BY <1>4 DEF InUse
  <2>2. DestroyHandle(t) => call[t].handle # h
    BY <2>1 DEF DestroyHandle
  <2> QED BY <1>4, <2>2, OwnersStay
<1>5. ASSUME NEW u \in Threads, NEW a \in AnyLock, a.lock # Container,
             a = wants[u] \/ a \in held[u]
      PROVE  Owned(a.lock)'
  <2>1. a.lock \in Nat /\ a # Nothing
    BY <1>5, LockValues DEF AnyLock
  <2>2. Owned(a.lock)
    BY <1>1, <1>5, <2>1 DEF LocksOwned
  <2> QED BY <1>4, <1>5, <2>1, <2>2
<1>6. ASSUME NEW u \in Threads, NEW a, a = wants'[u], a # Nothing, a.lock # Container
      PROVE  Owned(a.lock)'
  <2>1. a \in AnyLock
    BY <1>3, <1>6 DEF ShapeInv
  <2>2. CASE a = wants[u]
    BY <1>5, <1>6, <2>1, <2>2
  <2>3. CASE u = t /\ UNCHANGED storage /\ \E k \in Keys : a.lock = storage[k]
    BY <2>3 DEF Owned
  <2>4. a \notin {Nothing, Read(Container), Write(Container)}
    BY <1>6, LockValues
  <2> QED BY <1>2, <1>6, <2>2, <2>3, <2>4, AsksForOwned
<1>7. ASSUME NEW u \in Threads, NEW a \in held'[u], a.lock # Container
      PROVE  Owned(a.lock)'
  <2>1. a \in AnyLock
    BY <1>3, <1>7 DEF ShapeInv
  <2>2. a \in held[u] \/ a = wants[u]
    <3>1. Grant(t) => held'[t] = held[t] \cup {wants[t]}
      BY <1>1 DEF Grant, ShapeInv
    <3> QED BY <1>2, <1>7, <3>1, StepKinds
  <2> QED BY <1>5, <1>7, <2>1, <2>2
<1> QED BY <1>6, <1>7 DEF LocksOwned
\* Products of natural numbers.
LEMMA Products ==
  /\ \A m, n, k \in Nat : m <= n => m * k <= n * k
  /\ \A n, k \in Nat : n * k \in Nat /\ (n + 1) * k = n * k + k
<1>1. \A n, k \in Nat : n * k \in Nat /\ (n + 1) * k = n * k + k
  OBVIOUS
<1>2. ASSUME NEW m \in Nat, NEW n \in Nat, NEW k \in Nat, m <= n PROVE m * k <= n * k
  <2>1. PICK d \in Nat : n = m + d
    <3>1. n - m \in Nat /\ n = m + (n - m)
      BY <1>2
    <3> QED BY <3>1
  <2>2. n * k = m * k + d * k
    BY <2>1
  <2>3. m * k \in Nat /\ d * k \in Nat
    BY <1>1
  <2> QED BY <2>2, <2>3
<1> QED BY <1>1, <1>2

\* The sets that are counted are finite.
LEMMA Sizes ==
  /\ IsFiniteSet(Keys) /\ Cardinality(Keys) \in Nat
  /\ \A ks \in SUBSET Keys : Cardinality(ks) \in Nat /\ Cardinality(ks) <= Cardinality(Keys)
  /\ IsFiniteSet(Open) /\ Cardinality(Open) \in Nat
<1>1. Open \subseteq Threads
  BY DEF Open
<1> QED BY <1>1, ConstantsAssumption, FS_Subset, FS_CardinalityType

\* Every call adds at most as many maps as there are keys, in the step in which it ends.
LEMMA StepAdded ==
  ASSUME IInv, NEW t \in Threads, Call(t) \/ Run(t), ~crash', Local(t)
  PROVE  AddedInv'
<1>1. ShapeInv /\ AddedInv
  BY DEF IInv
<1>2. \A u \in Threads : u # t => stage'[u] = stage[u]
  BY DEF Local, Moves
<1> DEFINE K == Cardinality(Keys)
           o == Cardinality(Open)
<1>3. /\ K \in Nat /\ o \in Nat /\ added \in Nat /\ calls \in Nat
      /\ added + o * K <= calls * K
      /\ IsFiniteSet(Open)
  BY <1>1, Sizes DEF ShapeInv, AddedInv
<1>4. CASE Call(t)
  <2>1. Plain(t) /\ stage[t] = "idle" /\ stage'[t] # "idle" /\ calls' = calls + 1
    BY <1>1, <1>4, CallIsPlain
  <2>2. Open' = Open \cup {t} /\ t \notin Open
    BY <1>2, <2>1 DEF Open
  <2>3. Cardinality(Open') = o + 1
    BY <1>3, <2>2, FS_AddElement
  <2>4. added' = added
    BY <2>1 DEF Plain
  <2> HIDE DEF K, o
  <2>5. added + (o + 1) * K <= (calls + 1) * K
    <3>1. (o + 1) * K = o * K + K /\ (calls + 1) * K = calls * K + K
          /\ o * K \in Nat /\ calls * K \in Nat
      BY <1>3, Products
    <3> QED BY <1>3, <3>1
  <2> QED BY <2>1, <2>3, <2>4, <2>5 DEF AddedInv, K
<1>5. CASE Run(t)
  <2>1. calls' = calls
    BY <1>1, <1>5 DEF Run, Grant, LookUp, AskForMap, AskForSecondMap, TestBeforeSaving, Query,
      GiveContainerBack, EndAccess, SaveNext, AddMap, AddAllMaps, AskForContainer, AddCopy,
      RenameMap, TakeOut, DestroyHandle, Fail
  <2>2. CASE Adds(t)
    <3>1. PICK ks \in SUBSET Keys : added' = added + Cardinality(ks)
      BY <2>2 DEF Adds
    <3>2. stage[t] # "idle" /\ stage'[t] = "idle"
      BY <1>1, <2>2 DEF Adds, Return, Goto, ShapeInv
    <3>3. Open' = Open \ {t} /\ t \in Open
      BY <1>2, <3>2 DEF Open
    <3>4. IsFiniteSet(Open') /\ Cardinality(Open') = o - 1 /\ Cardinality(Open') \in Nat
      BY <1>3, <3>3, FS_RemoveElement, FS_CardinalityType
    <3> DEFINE p == Cardinality(Open')
               n == Cardinality(ks)
    <3>5. p \in Nat /\ o = p + 1 /\ n \in Nat /\ n <= K /\ added' = added + n
      BY <1>3, <3>1, <3>4, Sizes
    <3> HIDE DEF K, o, p, n
    <3>6. added' + p * K <= calls * K
      <4>1. o * K = p * K + K /\ p * K \in Nat /\ calls * K \in Nat
        BY <1>3, <3>5, Products
      <4> QED BY <1>3, <3>5, <4>1
    <3> QED BY <2>1, <3>6 DEF AddedInv, K, p
  <2>3. CASE added' = added
    <3>1. stage'[t] # "idle" => stage[t] # "idle"
      BY <1>1, <1>5 DEF Run, Grant, LookUp, AskForMap, AskForSecondMap, TestBeforeSaving, Query,
        GiveContainerBack, EndAccess, SaveNext, AddMap, AddAllMaps, AskForContainer, AddCopy,
        RenameMap, TakeOut, DestroyHandle, Fail, RunsAt
    <3>2. Open' \subseteq Open
      BY <1>2, <3>1 DEF Open
    <3>3. Cardinality(Open') \in Nat /\ Cardinality(Open') <= o
      BY <1>3, <3>2, FS_Subset, FS_CardinalityType
    <3> DEFINE p == Cardinality(Open')
    <3> HIDE DEF K, o, p
    <3>4. p \in Nat /\ p <= o
      BY <3>3 DEF p
    <3>5. added + p * K <= calls * K
      <4>1. p * K <= o * K /\ p * K \in Nat /\ o * K \in Nat /\ calls * K \in Nat
        BY <1>3, <3>4, Products
      <4> QED BY <1>3, <4>1
    <3> QED BY <2>1, <2>3, <3>5 DEF AddedInv, K, p
  <2>4. Quiet(t) \/ Grant(t) \/ DestroyHandle(t) \/ RenameMap(t) \/ TakeOut(t)
          => added' = added
    BY DEF Quiet, Grant, DestroyHandle, RenameMap, TakeOut, Fail
  <2> QED BY <2>2, <2>3, <2>4, StepKinds
<1> QED BY <1>4, <1>5
-----------------------------------------------------------------------------
\* The container is empty and nobody is in a call.
LEMMA Initially == Init => IInv
<1> SUFFICES ASSUME Init PROVE IInv
  OBVIOUS
<1>1. ShapeInv
  <2>1. /\ storage \in [Keys -> (Nat \ {0}) \cup {NoHandle}]
        /\ held \in [Threads -> SUBSET AnyLock]
        /\ wants \in [Threads -> AnyLock \cup {Nothing}]
        /\ stage \in [Threads -> Stages]
        /\ DOMAIN call = Threads
    BY DEF Init, Stages
  <2>2. added \in Nat /\ calls \in 0 .. MaxCalls /\ crash \in BOOLEAN
    <3>1. added = 0 /\ calls = 0 /\ crash = FALSE
      BY DEF Init
    <3>2. \A n \in Nat : 0 \in 0 .. n
      OBVIOUS
    <3> QED BY <3>1, <3>2, ConstantsAssumption
  <2> QED BY <2>1, <2>2 DEF ShapeInv
<1>2. \A t \in Threads : StageInv(t)
  BY CallValues DEF Init, StageInv, Reads
<1>3. LocksExclude /\ LookupsCurrent /\ HandlesInv
  BY DEF Init, LocksExclude, LookupsCurrent, HandlesInv, Releases
<1>4. LocksOwned
  BY DEF Init, LocksOwned
<1>5. AddedInv
  <2>1. Open = {}
    BY DEF Init, Open
  <2>2. Cardinality(Open) = 0 /\ added = 0 /\ calls = 0 /\ Cardinality(Keys) \in Nat
    BY <2>1, FS_EmptySet, Sizes DEF Init
  <2> QED BY <2>2 DEF AddedInv
<1> QED BY <1>1, <1>2, <1>3, <1>4, <1>5 DEF IInv

\* Every step keeps the invariant.
LEMMA Inductive == IInv /\ [Next]_vars => IInv'
<1> SUFFICES ASSUME IInv, [Next]_vars PROVE IInv'
  OBVIOUS
<1>1. ASSUME UNCHANGED <<storage, held, wants, call, stage, added, calls>>, crash' \in BOOLEAN
      PROVE  IInv'
  <2>1. ShapeInv'
    BY <1>1 DEF IInv, ShapeInv
  <2>2. \A t \in Threads : StageInv(t)'
    BY <1>1 DEF IInv, StageInv, Reads
  <2>3. LocksExclude' /\ LookupsCurrent' /\ HandlesInv'
    BY <1>1 DEF IInv, LocksExclude, LookupsCurrent, HandlesInv, Releases
  <2>4. LocksOwned'
    BY <1>1 DEF IInv, LocksOwned, Owned, Releases
  <2>5. AddedInv'
    BY <1>1 DEF IInv, AddedInv, Open
  <2> QED BY <2>1, <2>2, <2>3, <2>4, <2>5 DEF IInv
<1>2. ASSUME NEW t \in Threads, ~crash, Call(t) \/ Run(t)
      PROVE  IInv'
  <2>1. CASE crash'
    <3>1. UNCHANGED <<storage, held, wants, call, stage, added, calls>>
      BY <1>2, <2>1, FailKeeps
    <3>2. crash' \in BOOLEAN
      BY <1>2 DEF IInv, ShapeInv, Call, Begin, Run, Grant, LookUp, AskForMap, AskForSecondMap,
        TestBeforeSaving, Query, GiveContainerBack, EndAccess, SaveNext, AddMap, AddAllMaps,
        AskForContainer, AddCopy, RenameMap, TakeOut, DestroyHandle, Fail
    <3> QED BY <1>1, <3>1, <3>2
  <2>2. CASE ~crash'
    <3>1. ShapeInv /\ StageInv(t) /\ LookupsCurrent /\ \A u \in Threads : StageInv(u)
      BY DEF IInv
    <3>2. Local(t) /\ StageInv(t)'
      BY <1>2, <2>2, <3>1, CallLocal, RunLocal
    <3>3. \A u \in Threads : StageInv(u)'
      <4>1. ASSUME NEW u \in Threads, u # t PROVE StageInv(u)'
        <5>1. /\ held'[u] = held[u] /\ wants'[u] = wants[u]
              /\ call'[u] = call[u] /\ stage'[u] = stage[u]
          BY <3>2, <4>1 DEF Local, Moves
        <5> QED BY <3>1, <5>1 DEF StageInv, Reads
      <4> QED BY <3>2, <4>1
    <3>4. LocksExclude' /\ LookupsCurrent' /\ HandlesInv'
      BY <1>2, <2>2, <3>2, StepExclude, StepLookups, StepHandles
    <3>5. LocksOwned' /\ AddedInv'
      BY <1>2, <2>2, <3>2, StepOwned, StepAdded
    <3> QED BY <3>2, <3>3, <3>4, <3>5 DEF IInv, Local
  <2> QED BY <2>1, <2>2
<1>3. CASE Ended \/ UNCHANGED vars
  BY <1>1, <1>3 DEF Ended, vars, IInv, ShapeInv
<1> QED BY <1>2, <1>3 DEF Next
-----------------------------------------------------------------------------
\* A handle that has an owner was given to a map, and it has one owner only.
LEMMA HandlesNumbered ==
  ASSUME IInv
  PROVE  /\ added \in 0 .. (MaxCalls * Cardinality(Keys))
         /\ \A n \in 1 .. added : n \in Handles
<1> DEFINE K == Cardinality(Keys)
           o == Cardinality(Open)
<1>1. /\ K \in Nat /\ o \in Nat /\ added \in Nat /\ calls \in Nat /\ MaxCalls \in Nat
      /\ calls <= MaxCalls /\ added + o * K <= calls * K
  BY ConstantsAssumption, Sizes DEF IInv, ShapeInv, AddedInv
<1> HIDE DEF K, o
<1>2. o * K \in Nat /\ calls * K \in Nat /\ MaxCalls * K \in Nat /\ calls * K <= MaxCalls * K
  BY <1>1, Products
<1> DEFINE m == MaxCalls * K
<1>3. added \in Nat /\ m \in Nat /\ added <= m
  BY <1>1, <1>2
<1> HIDE DEF m
<1>4. added \in 0 .. m /\ \A n \in 1 .. added : n \in 1 .. m
  BY <1>3
<1> QED BY <1>4 DEF m, K, Handles

\* The type invariant: no handle is beyond the bound.
LEMMA TypeFollows == IInv => TypeOK
<1> SUFFICES ASSUME IInv PROVE TypeOK
  OBVIOUS
<1>1. /\ ShapeInv /\ HandlesInv /\ LocksOwned /\ \A t \in Threads : StageInv(t)
      /\ added \in 0 .. (MaxCalls * Cardinality(Keys)) /\ added \in Nat
      /\ \A n \in 1 .. added : n \in Handles
  BY HandlesNumbered DEF IInv, ShapeInv
<1>2. \A k \in Keys : storage[k] # NoHandle => storage[k] \in 1 .. added
  <2>1. \A k \in Keys : storage[k] # NoHandle => storage[k] \in Nat /\ storage[k] # 0
                                                 /\ storage[k] <= added
    BY <1>1 DEF ShapeInv, HandlesInv
  <2> QED BY <1>1, <2>1, UpTo
<1>3. storage \in [Keys -> Handles \cup {NoHandle}]
  BY <1>1, <1>2 DEF ShapeInv
<1>4. ASSUME NEW h \in Nat, Owned(h) PROVE h \in Handles
  <2>1. h # NoHandle
    BY ConstantsAssumption
  <2>2. h \in 1 .. added
    <3>1. CASE \E k \in Keys : storage[k] = h
      BY <1>2, <2>1, <3>1
    <3>2. ASSUME NEW t \in Threads, stage[t] = "wait until unused", call[t].handle = h
          PROVE  h \in 1 .. added
      <4>1. call[t].handle \in 1 .. added
        BY <1>1, <3>2 DEF HandlesInv
      <4> QED BY <3>2, <4>1
    <3> QED BY <1>4, <3>1, <3>2 DEF Owned, Releases
  <2> QED BY <1>1, <2>2
<1>5. ASSUME NEW a \in AnyLock, a.lock # Container => Owned(a.lock) PROVE a \in Lock
  <2>1. a.lock \in Nat
    BY DEF AnyLock
  <2>2. a.lock \in Locks
    BY <1>4, <1>5, <2>1 DEF Locks
  <2> QED BY <2>2 DEF AnyLock, Lock
<1>6. held \in [Threads -> SUBSET Lock]
  <2>1. \A t \in Threads : \A a \in held[t] : a \in Lock
    BY <1>1, <1>5 DEF ShapeInv, LocksOwned
  <2> QED BY <1>1, <2>1 DEF ShapeInv
<1>7. wants \in [Threads -> Lock \cup {Nothing}]
  <2>1. \A t \in Threads : wants[t] # Nothing => wants[t] \in Lock
    BY <1>1, <1>5 DEF ShapeInv, LocksOwned
  <2> QED BY <1>1, <2>1 DEF ShapeInv
<1>8. \A t \in Threads : (call[t] = NoCall) = (stage[t] = "idle")
  <2>1. \A t \in Threads : call[t] = NoCall <=> stage[t] = "idle"
    BY <1>1, CallValues DEF StageInv
  <2> QED BY <2>1
<1> QED BY <1>1, <1>3, <1>6, <1>7, <1>8 DEF TypeOK, ShapeInv

\* Owners, which counts keys and releaseMaps, has at most one member, and has one if Owned.
LEMMA OwnersAre ==
  ASSUME IInv, NEW h \in Handles
  PROVE  /\ Owners(h) # {} <=> Owned(h)
         /\ \A x, y \in Owners(h) : x = y
<1>1. HandlesInv /\ \A t \in Threads : StageInv(t)
  BY DEF IInv
<1>2. h \in Nat /\ h # NoHandle
  BY ConstantsAssumption DEF Handles
<1>3. \A t \in Threads : "handle" \in DOMAIN call[t] <=> stage[t] = "wait until unused"
  BY <1>1 DEF StageInv
<1>4. Owners(h) = {k \in Keys : storage[k] = h} \cup {t \in Threads : Releases(t, h)}
  BY <1>3 DEF Owners, Releases
<1>5. Owners(h) # {} <=> Owned(h)
  BY <1>4 DEF Owned
<1>6. \A k, l \in Keys : storage[k] = h /\ storage[l] = h => k = l
  BY <1>1, <1>2 DEF HandlesInv
<1>7. \A k \in Keys, t \in Threads : ~(storage[k] = h /\ Releases(t, h))
  BY <1>1 DEF HandlesInv, Releases
<1>8. \A t, u \in Threads : Releases(t, h) /\ Releases(u, h) => t = u
  BY <1>1 DEF HandlesInv, Releases
<1> QED BY <1>4, <1>5, <1>6, <1>7, <1>8

\* One owner for each handle.
LEMMA OneOwnerFollows == IInv => OneOwner
<1> SUFFICES ASSUME IInv, NEW h \in Handles PROVE Cardinality(Owners(h)) <= 1
  BY DEF OneOwner
<1>1. \A x, y \in Owners(h) : x = y
  BY OwnersAre
<1>2. CASE Owners(h) = {}
  BY <1>2, FS_EmptySet
<1>3. CASE Owners(h) # {}
  <2>1. PICK x : Owners(h) = {x}
    BY <1>1, <1>3
  <2>2. Cardinality(Owners(h)) = 1
    BY <2>1, FS_Singleton
  <2> QED BY <2>2
<1> QED BY <1>2, <1>3

\* An owner for each handle in use.
LEMMA AccessFollows == IInv => AccessIsOwned
<1> SUFFICES ASSUME IInv, NEW t \in Threads, NEW h \in Handles, Uses(t, h)
             PROVE  Owners(h) # {}
  BY DEF AccessIsOwned
<1>1. LocksOwned /\ LookupsCurrent /\ StageInv(t)
  BY DEF IInv
<1>2. h # Container /\ h # Nothing.lock
  BY DEF Handles, Container, Nothing
<1>3. CASE wants[t].lock = h \/ \E a \in held[t] : a.lock = h
  BY <1>1, <1>2, <1>3, OwnersAre DEF LocksOwned
<1>4. ASSUME stage[t] \in {"found", "second map"}, NEW k \in DOMAIN call[t].maps,
             call[t].maps[k] = h
      PROVE  Owners(h) # {}
  <2>1. k \in Keys /\ storage[k] = h
    BY <1>1, <1>4 DEF StageInv, LookupsCurrent
  <2> QED BY <2>1, OwnersAre DEF Owned
<1> QED BY <1>3, <1>4 DEF Uses

\* Whatever the threads call, in whatever order their locks are granted: the container and
\* the releaseMaps under way own each map once, and no thread holds, waits for or is about
\* to lock the mutex of a map that nobody owns any more.
THEOREM MapsHaveOwners == Spec => []MapsOwned
<1>1. IInv => MapsOwned
  BY TypeFollows, OneOwnerFollows, AccessFollows DEF MapsOwned
<1> QED BY <1>1, Initially, Inductive, PTL DEF Spec
=============================================================================
