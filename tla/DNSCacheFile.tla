---------------------------- MODULE DNSCacheFile ----------------------------
(***************************************************************************)
(* The DNS cache kept in the cache file (experimental/cachefile/           *)
(* dns_cache.go): responses are queued in memory and written behind by one *)
(* goroutine per key, while queries read, the cache is cleared and the     *)
(* clean-up removes what has expired.  The responses for a key are         *)
(* numbered in the order in which they are queued.                         *)
(***************************************************************************)
EXTENDS Integers, FiniteSets

CONSTANTS
    Keys,           \* transport, name and type of a question
    Flushers,       \* goroutines; bound: how many may exist at a time
    MaxVersion,     \* bound: responses queued for a key
    MaxClears,      \* bound: calls of ClearDNSCache
    SaveFails,      \* transactions of SaveDNSCache may fail
    Nil

ASSUME DNSCacheFileAssumption ==
    /\ {MaxVersion, MaxClears} \subseteq Nat
    /\ SaveFails \in BOOLEAN
    /\ Nil \notin Keys

VARIABLES
    pending,    \* saveDNSCache
    flusher,    \* flusher[g]: a goroutine in flushPendingDNSCacheWith
    disk,       \* disk[k]: the response in the bucket, 0 for none
    expired,    \* expired[k]: responses whose time, with the optimistic timeout, is over
    clearing,   \* within ClearDNSCache, between the memory and the file
    clears,
    queued,     \* history: queued[k], the latest response for the key
    lost        \* history: keys for which a save failed or that were cleared

vars == <<pending, flusher, disk, expired, clearing, clears, queued, lost>>

Version == 1..MaxVersion
Entry == [version : Version, sequence : 1..MaxVersion]
NoEntry == [version |-> 0, sequence |-> 0]
FlusherType == [pc : {"idle", "read", "save", "check"}, key : Keys \cup {Nil},
                entry : Entry \cup {NoEntry}]

(* An entry exists only while it is being saved, so that the code's flag   *)
(* saving is its presence.                                                 *)
TypeOK ==
    /\ pending \in [Keys -> Entry \cup {NoEntry}]
    /\ flusher \in [Flushers -> FlusherType]
    /\ disk \in [Keys -> 0..MaxVersion]
    /\ expired \in [Keys -> SUBSET Version]
    /\ clearing \in BOOLEAN /\ clears \in 0..MaxClears
    /\ queued \in [Keys -> 0..MaxVersion]
    /\ lost \subseteq Keys

IdleFlusher == [pc |-> "idle", key |-> Nil, entry |-> NoEntry]

Init ==
    /\ pending = [k \in Keys |-> NoEntry]
    /\ flusher = [g \in Flushers |-> IdleFlusher]
    /\ disk = [k \in Keys |-> 0]
    /\ expired = [k \in Keys |-> {}]
    /\ clearing = FALSE /\ clears = 0
    /\ queued = [k \in Keys |-> 0]
    /\ lost = {}

(* LoadDNSCache, 0 for none. *)
LoadDNSCache(k) == IF pending[k] # NoEntry THEN pending[k].version ELSE disk[k]

-----------------------------------------------------------------------------
(* Fault: the sequence number is not advanced. *)
SequenceKept(entry) == IF entry = NoEntry THEN 1 ELSE entry.sequence

Sequence(entry) == entry.sequence + 1

StartFlush(entry) == entry = NoEntry

(* SaveDNSCacheAsync: the response is queued, and a flush started unless   *)
(* one is under way.                                                       *)
SaveDNSCacheAsync(k, g) ==
    /\ queued[k] < MaxVersion
    /\ queued' = [queued EXCEPT ![k] = @ + 1]
    /\ pending' = [pending EXCEPT ![k] = [version |-> queued[k] + 1, sequence |-> Sequence(@)]]
    /\ IF StartFlush(pending[k])
       THEN /\ flusher[g].pc = "idle"
            /\ flusher' = [flusher EXCEPT ![g] = [IdleFlusher EXCEPT !.pc = "read", !.key = k]]
       ELSE UNCHANGED flusher
    /\ UNCHANGED <<disk, expired, clearing, clears, lost>>

(* flushPendingDNSCacheWith: the entry is read. *)
Read(g) ==
    LET entry == pending[flusher[g].key]
    IN  /\ flusher[g].pc = "read"
        /\ flusher' = [flusher EXCEPT ![g] = IF entry = NoEntry THEN IdleFlusher
                          ELSE [flusher[g] EXCEPT !.pc = "save", !.entry = entry]]
        /\ UNCHANGED <<pending, disk, expired, clearing, clears, queued, lost>>

(* SaveDNSCache; its error is only logged. *)
Save(g) ==
    LET k == flusher[g].key
    IN  /\ flusher[g].pc = "save"
        /\ flusher' = [flusher EXCEPT ![g].pc = "check"]
        /\ \/ disk' = [disk EXCEPT ![k] = flusher[g].entry.version] /\ UNCHANGED lost
           \/ SaveFails /\ lost' = lost \cup {k} /\ UNCHANGED disk
        /\ UNCHANGED <<pending, expired, clearing, clears, queued>>

(* Fault: a newer entry is left to nobody. *)
AgainNever(current, entry) == FALSE

(* A response was queued while this one was being saved. *)
Again(current, entry) == current # NoEntry /\ current.sequence # entry.sequence

(* The entry is removed, unless it has gone or a newer one is to be saved. *)
Check(g) ==
    LET k == flusher[g].key
        again == Again(pending[k], flusher[g].entry)
        same == pending[k].sequence = flusher[g].entry.sequence
    IN  /\ flusher[g].pc = "check"
        /\ flusher' = [flusher EXCEPT ![g] =
                         IF again THEN [IdleFlusher EXCEPT !.pc = "read", !.key = k]
                                  ELSE IdleFlusher]
        /\ pending' = IF same THEN [pending EXCEPT ![k] = NoEntry] ELSE pending
        /\ UNCHANGED <<disk, expired, clearing, clears, queued, lost>>

Queued == {k \in Keys : queued[k] > 0}

(* ClearDNSCache: the entries in memory. *)
ClearPending ==
    /\ ~clearing /\ clears < MaxClears
    /\ clearing' = TRUE
    /\ clears' = clears + 1
    /\ pending' = [k \in Keys |-> NoEntry]
    /\ lost' = lost \cup Queued
    /\ UNCHANGED <<flusher, disk, expired, queued>>

(* ClearDNSCache: the bucket. *)
ClearDisk ==
    /\ clearing
    /\ clearing' = FALSE
    /\ disk' = [k \in Keys |-> 0]
    /\ lost' = lost \cup Queued
    /\ UNCHANGED <<pending, flusher, expired, clears, queued>>

(* Time passes: each response has a lifetime of its own. *)
Expire(k, version) ==
    /\ version <= queued[k]
    /\ expired' = [expired EXCEPT ![k] = @ \cup {version}]
    /\ UNCHANGED <<pending, flusher, disk, clearing, clears, queued, lost>>

Removable(k) == disk[k] \in expired[k]

(* cleanupDNSCache, in one transaction. *)
Cleanup ==
    /\ disk' = [k \in Keys |-> IF Removable(k) THEN 0 ELSE disk[k]]
    /\ UNCHANGED <<pending, flusher, expired, clearing, clears, queued, lost>>

Flush(g) == Read(g) \/ Save(g) \/ Check(g)

Next ==
    \/ \E k \in Keys, g \in Flushers : SaveDNSCacheAsync(k, g)
    \/ \E g \in Flushers : Flush(g)
    \/ ClearPending \/ ClearDisk \/ Cleanup
    \/ \E k \in Keys, version \in Version : Expire(k, version)

(* The goroutines are scheduled; nothing else need happen. *)
Spec == Init /\ [][Next]_vars /\ \A g \in Flushers : WF_vars(Flush(g))

-----------------------------------------------------------------------------
(* Properties. *)

(* Every queued entry has a goroutine that will look at it again: whatever *)
(* is queued while a save is under way is not left behind in saveDNSCache, *)
(* where it would hide the file for ever and never be flushed again.       *)
PendingHasFlusher ==
    \A k \in Keys : pending[k] # NoEntry =>
        \E g \in Flushers : flusher[g].pc # "idle" /\ flusher[g].key = k

(* A key is written by one goroutine at a time, unless it was cleared.     *)
OneWriter ==
    \A g, h \in Flushers :
        g # h /\ flusher[g].pc # "idle" /\ flusher[g].key \notin lost => flusher[h].key # flusher[g].key

(* A query sees the latest response that was queued for its key, wherever  *)
(* it is between queue and file, until the response has expired: unless a  *)
(* save failed or the cache was cleared.                                   *)
LatestVisible ==
    \A k \in Keys \ lost :
        LoadDNSCache(k) = queued[k] \/ (LoadDNSCache(k) = 0 /\ queued[k] \in expired[k])

(* When responses stop coming (MaxVersion), everything that is queued      *)
(* leaves the queue, even if saves fail and the cache is cleared meanwhile. *)
Drained == \A k \in Keys : []<>(pending[k] = NoEntry)
=============================================================================
