----------------------------- MODULE ChunkStore -----------------------------
(***************************************************************************)
(* What a store of chunks promises to the thread that saves and loads:     *)
(* a chunk changes only while it is being saved, what was reported as      *)
(* saved is what loading gives, and a crash takes back no more than the    *)
(* saves that had not reached the disk.  Some chunks it may lose, and      *)
(* promises nothing of these from then on.                                 *)
(***************************************************************************)
EXTENDS Integers

CONSTANTS Chunks, None, Nothing, Spoiled

VARIABLES
    now,                \* what loading a chunk gives: a version, Nothing or Spoiled
    disk,               \* what loading it would give after a crash
    reported,           \* the chunks whose last save was reported a success
    busy,               \* the chunk being saved, or None
    saves,              \* saves begun; numbers the versions
    lost                \* the chunks that have been lost

store == <<now, disk, reported, busy, saves, lost>>

Init ==
    /\ now = [c \in Chunks |-> Nothing] /\ disk = now
    /\ reported = Chunks /\ busy = None /\ saves = 0 /\ lost = {}

\* Closing the file: what was written reaches the disk; a save that failed may be undone.
Settles(c) ==
    \/ now'[c] = now[c] /\ disk'[c] \in {disk[c], now[c]}
    \/ c \notin reported /\ now'[c] = disk[c] /\ disk'[c] = disk[c]

Settle == \A c \in Chunks \ lost' : Settles(c)

Maps == [Chunks -> 0..saves' \cup {Nothing, Spoiled}]

Begin(c) ==
    /\ busy = None /\ saves' = saves + 1
    /\ busy' = c /\ reported' = reported \ {c}
    /\ Settle

\* Only the chunk that is being saved changes, to what is being written or to nothing
\* that can be loaded.
Write(c) ==
    /\ busy = c
    /\ c \in lost' \/ /\ now'[c] \in {now[c], saves, Spoiled}
                      /\ disk'[c] \in {disk[c], saves, Spoiled}
    /\ \A d \in Chunks \ (lost' \cup {c}) : now'[d] = now[d] /\ disk'[d] = disk[d]
    /\ UNCHANGED <<reported, busy, saves>>

\* The save ends; the table of the file, and with it the other chunks', reaches the disk.
Others(c) ==
    \A d \in Chunks \ (lost \cup {c}) : now'[d] = now[d] /\ disk'[d] \in {disk[d], now[d]}

Succeed(c) ==
    /\ busy = c /\ busy' = None
    /\ c \in lost \/ (now'[c] = saves /\ disk'[c] \in {disk[c], saves})
    /\ Others(c)
    /\ reported' = reported \cup {c} /\ UNCHANGED <<saves, lost>>

Fail(c) ==
    /\ busy = c /\ busy' = None
    /\ c \in lost \/ /\ now'[c] \in {now[c], saves, Spoiled}
                     /\ disk'[c] \in {disk[c], saves, Spoiled}
    /\ Others(c)
    /\ UNCHANGED <<reported, saves, lost>>

\* The file cannot be opened.
Refuse(c) ==
    /\ busy = None /\ reported' = reported \ {c}
    /\ Settle /\ UNCHANGED <<busy, saves>>

Rest == busy = None /\ Settle /\ UNCHANGED <<reported, busy, saves>>

Crash ==
    /\ now' = disk'
    /\ \A c \in Chunks \ lost : disk'[c] = disk[c] \/ (c = busy /\ disk'[c] = Spoiled)
    /\ reported' = Chunks /\ busy' = None /\ UNCHANGED <<saves, lost>>

Next ==
    /\ now' \in Maps /\ disk' \in Maps /\ lost \subseteq lost' /\ lost' \subseteq Chunks
    /\ \/ \E c \in Chunks : Begin(c) \/ Write(c) \/ Succeed(c) \/ Fail(c) \/ Refuse(c)
       \/ Rest
       \/ Crash

Spec == Init /\ [][Next]_store
=============================================================================
