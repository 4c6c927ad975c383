------------------------------- MODULE FakeIP -------------------------------
(***************************************************************************)
(* The FakeIP store (dns/transport/fakeip) on the cache file               *)
(* (experimental/cachefile/fakeip.go) or on its memory storage: queries    *)
(* allocate addresses one after the other, the cursor is written to the    *)
(* cache file by a timer and by Close, and a restart reads it back.        *)
(* An address is a number in its family; a range is a prefix as            *)
(* configured, whose address need not be the first of the network.         *)
(***************************************************************************)
EXTENDS Integers, Sequences, FiniteSets

CONSTANTS
    Domains, Callers,
    Configs,        \* configurations a start may meet: [Families -> ranges or None]
    Top,            \* the largest address of the configured ranges
    Stores,         \* values of store_fakeip: whether the cache file is the storage
    StorageFails,   \* transactions of the cache file may fail
    MaxRestarts,    \* bound: restarts
    None

Families == {4, 6}

ASSUME FakeIPAssumption ==
    /\ Stores \subseteq BOOLEAN /\ StorageFails \in BOOLEAN
    /\ {Top, MaxRestarts} \subseteq Nat
    /\ \A c \in Configs : \E f \in Families : c[f] # None

VARIABLES
    storeFakeIP, \* which storage; never changes
    stage,      \* "down", "loaded" (within Start), "up", "closed" (Store.Close is done)
    config,     \* inet4Range and inet6Range
    cursor,     \* inet4Current and inet6Current
    loaded,     \* the metadata that Start has read, or None
    disk,       \* the storage
    timer,      \* saveMetadataTimer
    caller,     \* caller[p]: a query in Create
    promised,   \* history: promised[f], the latest allocations of the range
    restarts

vars == <<storeFakeIP, stage, config, cursor, loaded, disk, timer, caller, promised, restarts>>

Last(r) == r.net + r.size - 1           \* broadcastAddress
Contains(r, a) == a \in r.net..Last(r)

Address == 0..Top
Metadata == [config : Configs, cursor : [Families -> Address \cup {None}]]
Bucket(f) == IF f = 4 THEN "domain4" ELSE "domain6"
Buckets == {"address", "domain4", "domain6"}

TypeOK ==
    /\ storeFakeIP \in Stores
    /\ stage \in {"down", "loaded", "up", "closed"}
    /\ config \in Configs
    /\ cursor \in [Families -> Address \cup {None}]
    /\ loaded \in Metadata \cup {None}
    /\ disk.buckets \subseteq Buckets
    /\ disk.domain \in [Families -> [Address -> Domains \cup {None}]]
    /\ disk.address \in [Families -> [Domains -> Address \cup {None}]]
    /\ disk.metadata \in Metadata \cup {None}
    /\ timer \in [captured : Metadata \cup {None}, armed : BOOLEAN]
    /\ \A p \in Callers : caller[p].pc \in {"idle", "lock", "done"}
    /\ restarts \in 0..MaxRestarts

EmptyDisk == [buckets |-> {}, metadata |-> None,
              domain |-> [f \in Families |-> [a \in Address |-> None]],
              address |-> [f \in Families |-> [d \in Domains |-> None]]]
NoTimer == [captured |-> None, armed |-> FALSE]
IdleCaller == [pc |-> "idle", domain |-> None, family |-> 4, answer |-> None]
NoPromise == [f \in Families |-> <<>>]

-----------------------------------------------------------------------------
(* Storage. *)

(* bbolt's DeleteBucket fails for a bucket that does not exist, and the     *)
(* failure of one call rolls the transaction back.                          *)
DeleteBuckets(d, names) == IF names \subseteq d.buckets THEN EmptyDisk ELSE d

FakeIPReset(d) == IF storeFakeIP THEN DeleteBuckets(d, Buckets) ELSE EmptyDisk

Unmap(map, old) == IF old = None THEN map ELSE [map EXCEPT ![old] = None]

FakeIPStore(d, f, a, domain) ==
    [d EXCEPT !.buckets = @ \cup {"address", Bucket(f)},
              !.domain[f][a] = domain,
              !.address[f] = [Unmap(@, d.domain[f][a]) EXCEPT ![domain] = a]]

(* FakeIPMetadata deletes the metadata that it reads. *)
Forget(d) == [d EXCEPT !.metadata = None]

FakeIPSaveMetadata(d, m) ==
    IF storeFakeIP THEN [d EXCEPT !.buckets = @ \cup {"address"}, !.metadata = m] ELSE d

(* The first call captures its metadata for every firing of the timer. *)
FakeIPSaveMetadataAsync(m) ==
    IF ~storeFakeIP THEN timer
    ELSE [captured |-> IF timer.captured = None THEN m ELSE timer.captured, armed |-> TRUE]

Outcomes == IF StorageFails /\ storeFakeIP THEN BOOLEAN ELSE {TRUE}

-----------------------------------------------------------------------------
(* The store. *)

Init ==
    /\ storeFakeIP \in Stores
    /\ stage = "down"
    /\ config \in Configs
    /\ cursor = [f \in Families |-> None]
    /\ loaded = None
    /\ disk = EmptyDisk
    /\ timer = NoTimer
    /\ caller = [p \in Callers |-> IdleCaller]
    /\ promised = NoPromise
    /\ restarts = 0

(* Store.Start: the metadata is read, in a transaction of its own. *)
Load(c) ==
    /\ stage = "down"
    /\ stage' = "loaded"
    /\ config' = c
    /\ loaded' = disk.metadata
    /\ disk' = Forget(disk)
    /\ cursor' = [f \in Families |-> None]
    /\ UNCHANGED <<storeFakeIP, timer, caller, promised, restarts>>

FirstCursor(c) == [f \in Families |-> IF c[f] = None THEN None ELSE c[f].addr + 1]

(* Fault: the cursor is taken over whatever the ranges are. *)
SameRangesAny(m) == m # None

SameRanges(m) == m # None /\ m.config = config

(* Store.Start: the cursor is restored, or starts afresh with a reset. *)
Start ==
    /\ stage = "loaded"
    /\ stage' = "up"
    /\ IF SameRanges(loaded)
       THEN cursor' = loaded.cursor /\ UNCHANGED <<disk, promised>>
       ELSE /\ cursor' = FirstCursor(config)
            /\ disk' = FakeIPReset(disk)
            /\ promised' = NoPromise
    /\ UNCHANGED <<storeFakeIP, config, loaded, timer, caller, restarts>>

(* Create: the first look, without the lock. *)
Create(p, domain, f) ==
    /\ stage \in {"up", "closed"}
    /\ caller[p].pc = "idle"
    /\ config[f] # None
    /\ LET known == disk.address[f][domain]
       IN  caller' = [caller EXCEPT ![p] = [domain |-> domain, family |-> f, answer |-> known,
                                            pc |-> IF known = None THEN "lock" ELSE "done"]]
    /\ UNCHANGED <<storeFakeIP, stage, config, cursor, loaded, disk, timer, promised, restarts>>

NextAddress(r, current) ==
    LET next == current + 1
    IN  IF next = Last(r) \/ ~Contains(r, next) THEN r.addr + 2 ELSE next

(* Fault: no second look under the lock. *)
RecheckNone(domain, f) == None

Recheck(domain, f) == disk.address[f][domain]

(* The number of addresses that NextAddress goes through. *)
Usable(r) == Last(r) - r.addr - 2

Promise(f, a, domain) ==
    LET all == Append(promised[f], [address |-> a, domain |-> domain])
        n == Usable(config[f])
    IN  IF Len(all) <= n THEN all ELSE SubSeq(all, Len(all) - n + 1, Len(all))

(* Create under addressAccess.  Transactions of other goroutines commute   *)
(* with it: they can only remove the domain's address, which it has found  *)
(* to be absent.                                                            *)
Allocate(p) ==
    LET f == caller[p].family
        domain == caller[p].domain
        known == Recheck(domain, f)
        a == NextAddress(config[f], cursor[f])
    IN  /\ caller[p].pc = "lock"
        /\ caller' = [caller EXCEPT ![p].pc = "done",
                                    ![p].answer = IF known # None THEN known ELSE a]
        /\ IF known # None
           THEN UNCHANGED <<cursor, disk, timer, promised>>
           ELSE /\ cursor' = [cursor EXCEPT ![f] = a]
                /\ \E ok \in Outcomes :
                     /\ disk' = IF ok THEN FakeIPStore(disk, f, a, domain) ELSE disk
                     /\ promised' = IF stage = "up"
                                    THEN [promised EXCEPT ![f] =
                                            Promise(f, a, IF ok THEN domain ELSE None)]
                                    ELSE NoPromise
                /\ timer' = FakeIPSaveMetadataAsync([config |-> config, cursor |-> cursor'])
        /\ UNCHANGED <<storeFakeIP, stage, config, loaded, restarts>>

(* The query has its answer. *)
Reply(p) ==
    /\ caller[p].pc = "done"
    /\ caller' = [caller EXCEPT ![p] = IdleCaller]
    /\ UNCHANGED <<storeFakeIP, stage, config, cursor, loaded, disk, timer, promised, restarts>>

(* POST /cache/fakeip/flush, which resets the cache file only. *)
Flush ==
    /\ storeFakeIP
    /\ stage \in {"up", "closed"}
    /\ disk' = FakeIPReset(disk)
    /\ promised' = IF disk' = EmptyDisk THEN NoPromise ELSE promised
    /\ UNCHANGED <<storeFakeIP, stage, config, cursor, loaded, timer, caller, restarts>>

(* The timer fires; its error is dropped.  Once Store.Close is done this    *)
(* overwrites what it has written.                                          *)
SaveMetadata ==
    /\ timer.armed
    /\ timer' = [timer EXCEPT !.armed = FALSE]
    /\ \E ok \in Outcomes :
         disk' = IF ok THEN FakeIPSaveMetadata(disk, timer.captured) ELSE disk
    /\ promised' = IF stage = "up" THEN promised ELSE NoPromise
    /\ UNCHANGED <<storeFakeIP, stage, config, cursor, loaded, caller, restarts>>

(* Fault: Close writes the metadata that the timer has captured. *)
FinalMetadataStale ==
    IF timer.captured # None THEN timer.captured ELSE [config |-> config, cursor |-> cursor]

FinalMetadata == [config |-> config, cursor |-> cursor]

(* Store.Close *)
Close ==
    /\ stage = "up"
    /\ stage' = "closed"
    /\ \E ok \in Outcomes :
         /\ disk' = IF ok THEN FakeIPSaveMetadata(disk, FinalMetadata) ELSE disk
         /\ promised' = IF ok /\ storeFakeIP THEN promised ELSE NoPromise
    /\ UNCHANGED <<storeFakeIP, config, cursor, loaded, timer, caller, restarts>>

(* The process ends, after Close or by a crash: what was only in memory is  *)
(* lost.                                                                    *)
Exit ==
    /\ stage \in {"loaded", "up", "closed"}
    /\ restarts < MaxRestarts
    /\ restarts' = restarts + 1
    /\ stage' = "down"
    /\ loaded' = None
    /\ timer' = NoTimer
    /\ caller' = [p \in Callers |-> IdleCaller]
    /\ cursor' = [f \in Families |-> None]
    /\ disk' = IF storeFakeIP THEN disk ELSE EmptyDisk
    /\ promised' = IF stage = "closed" THEN promised ELSE NoPromise
    /\ UNCHANGED <<storeFakeIP, config>>

Next ==
    \/ \E c \in Configs : Load(c)
    \/ Start \/ Flush \/ SaveMetadata \/ Close \/ Exit
    \/ \E p \in Callers : \/ \E domain \in Domains, f \in Families : Create(p, domain, f)
                          \/ Allocate(p) \/ Reply(p)

Spec == Init /\ [][Next]_vars

-----------------------------------------------------------------------------
(* Properties. *)

(* The two directions of the storage agree: a domain's address leads back  *)
(* to the domain, so that the connection a client opens to a FakeIP        *)
(* address goes to the domain it asked for; and no address is held by a    *)
(* domain that has another one.                                            *)
MapsAgree ==
    \A f \in Families, a \in Address, d \in Domains :
        (disk.address[f][d] = a) <=> (disk.domain[f][a] = d)

(* An allocated address leads to its domain until the rest of the range    *)
(* has been used up: through concurrent queries, failed flushes and        *)
(* restarts, unless the storage was reset or failed, the process crashed,  *)
(* or something was written after Store.Close.                             *)
AnswersResolve ==
    stage = "up" => \A f \in Families : \A i \in 1..Len(promised[f]) :
        LET e == promised[f][i]
        IN  e.domain # None => disk.domain[f][e.address] = e.domain

(* Answers lie in the configured range, where Contains finds them when a   *)
(* client connects.                                                        *)
AnswersInRange ==
    \A p \in Callers :
        caller[p].pc = "done" => Contains(config[caller[p].family], caller[p].answer)

(* The cursor that Start restores or sets is one of the running            *)
(* configuration's ranges, whatever ranges the cache file was written for. *)
(* The state is of its types.                                              *)
CursorInRange ==
    /\ TypeOK
    /\ stage \in {"up", "closed"} => \A f \in Families :
          IF config[f] = None THEN cursor[f] = None ELSE Contains(config[f], cursor[f])
=============================================================================
