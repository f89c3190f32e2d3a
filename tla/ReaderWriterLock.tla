-------------------------- MODULE ReaderWriterLock --------------------------
(***************************************************************************)
(* What a reader-writer lock promises to the threads that use it: any      *)
(* number of readers or a single writer, and a reader that may turn into   *)
(* the writer while it is the only reader.  ReaderWriterMutex implements   *)
(* it, and MapManager relies on it.                                        *)
(***************************************************************************)
CONSTANT Threads

VARIABLES readers,   \* the threads with read access
          writers    \* the thread with write access, if any

Init == readers = {} /\ writers = {}

StartReading(t) == /\ writers = {}
                   /\ t \notin readers
                   /\ readers' = readers \cup {t}
                   /\ UNCHANGED writers

StopReading(t)  == /\ t \in readers
                   /\ readers' = readers \ {t}
                   /\ UNCHANGED writers

StartWriting(t) == /\ readers = {} /\ writers = {}
                   /\ writers' = {t}
                   /\ UNCHANGED readers

StopWriting(t)  == /\ writers = {t}
                   /\ writers' = {}
                   /\ UNCHANGED readers

Upgrade(t)      == /\ readers = {t} /\ writers = {}
                   /\ readers' = {}
                   /\ writers' = {t}

Next == \E t \in Threads : \/ StartReading(t) \/ StopReading(t)
                           \/ StartWriting(t) \/ StopWriting(t) \/ Upgrade(t)

Spec == Init /\ [][Next]_<<readers, writers>>
=============================================================================
