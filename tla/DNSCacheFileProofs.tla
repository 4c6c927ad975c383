------------------------- MODULE DNSCacheFileProofs -------------------------
(***************************************************************************)
(* Proofs about DNSCacheFile for any keys, goroutines and bounds, with     *)
(* failing saves and clearings.                                            *)
(***************************************************************************)
EXTENDS DNSCacheFile, TLAPS

(* The SMT solver gets a minute for a leaf that names no other prover. *)
USE SMTT(60)

Busy(g) == flusher[g].pc # "idle"

(* The key of a goroutine is set exactly while it runs. *)
Keyed == \A g \in Flushers : flusher[g].key \in Keys <=> Busy(g)

(* A queued entry is the latest response, and its sequence number counts   *)
(* some of the responses queued so far.                                    *)
Numbered ==
    \A k \in Keys :
        /\ pending[k].sequence <= queued[k]
        /\ pending[k] # NoEntry => pending[k].version = queued[k]
        /\ expired[k] \subseteq 1..queued[k]

TypeInv == TypeOK /\ Keyed /\ Numbered

(* The latest response is in the file, or it was there and has expired. *)
Settled(k) == disk[k] = queued[k] \/ (disk[k] = 0 /\ queued[k] \in expired[k])

(* The entry that a goroutine works on is still queued, perhaps in a newer *)
(* form; if in no newer form, it is the latest response, and is in the     *)
(* file once it was saved.                                                 *)
Working(g) ==
    LET k == flusher[g].key
    IN  Busy(g) /\ k \notin lost =>
          /\ pending[k] # NoEntry
          /\ flusher[g].pc \in {"save", "check"} =>
                /\ flusher[g].entry.sequence <= pending[k].sequence
                /\ flusher[g].entry.sequence = pending[k].sequence =>
                      flusher[g].entry.version = queued[k]
          /\ flusher[g].pc = "check" /\ flusher[g].entry.sequence = pending[k].sequence =>
                Settled(k)

(* The inductive invariant behind LatestVisible. *)
Inv ==
    /\ TypeInv
    /\ OneWriter
    /\ \A g \in Flushers : Working(g)
    /\ \A k \in Keys \ lost : pending[k] = NoEntry => Settled(k)

-----------------------------------------------------------------------------
(* What the records are made of. *)
LEMMA Records ==
    /\ NoEntry.version = 0 /\ NoEntry.sequence = 0
    /\ IdleFlusher \in FlusherType /\ IdleFlusher.pc = "idle" /\ IdleFlusher.key = Nil
    /\ NoEntry \notin Entry
    /\ \A e \in Entry : e.version \in Version /\ e.sequence \in Version
    /\ \A e \in Entry \cup {NoEntry} : e.version \in 0..MaxVersion /\ e.sequence \in 0..MaxVersion
    /\ \A v, s \in Version : [version |-> v, sequence |-> s] \in Entry
    /\ \A f \in FlusherType : f.pc \in {"idle", "read", "save", "check"} /\ f.entry \in Entry \cup {NoEntry}
  BY DNSCacheFileAssumption DEF NoEntry, IdleFlusher, FlusherType, Entry, Version

(* The state after a goroutine has been started for a key. *)
LEMMA Started ==
    ASSUME NEW k \in Keys
    PROVE  LET f == [IdleFlusher EXCEPT !.pc = "read", !.key = k]
           IN  f \in FlusherType /\ f.pc = "read" /\ f.key = k
  BY Zenon DEF IdleFlusher, FlusherType, NoEntry

(* Type correctness, and the numbering of responses: preserved by every step. *)
LEMMA TypeStep == TypeInv /\ [Next]_vars => TypeInv'
<1> SUFFICES ASSUME TypeInv, [Next]_vars PROVE TypeInv'
  OBVIOUS
<1> USE DNSCacheFileAssumption, Records
<1>1. ASSUME NEW k \in Keys, NEW g \in Flushers, SaveDNSCacheAsync(k, g) PROVE TypeInv'
  <2> DEFINE e == [version |-> queued[k] + 1, sequence |-> Sequence(pending[k])]
             f == [IdleFlusher EXCEPT !.pc = "read", !.key = k]
  <2>0. queued[k] \in 0..MaxVersion /\ pending[k] \in Entry \cup {NoEntry} /\ queued[k] < MaxVersion
    BY <1>1 DEF TypeInv, TypeOK, SaveDNSCacheAsync
  <2>1. e \in Entry /\ e.version = queued[k] + 1 /\ e.sequence <= queued[k] + 1
    <3>1. /\ queued[k] + 1 \in Version /\ pending[k].sequence + 1 \in Version
          /\ pending[k].sequence + 1 <= queued[k] + 1
      BY <2>0 DEF TypeInv, Numbered, Version
    <3>2. e = [version |-> queued[k] + 1, sequence |-> pending[k].sequence + 1]
      BY DEF Sequence
    <3>3. e \in Entry
      BY <3>1, <3>2 DEF Entry, Version
    <3> QED
      BY <3>1, <3>2, <3>3
  <2>2. f \in FlusherType /\ f.pc = "read" /\ f.key = k
    BY Started, Zenon
  <2> HIDE DEF e, f
  <2>3. pending' = [pending EXCEPT ![k] = e] /\ queued' = [queued EXCEPT ![k] = queued[k] + 1]
    BY <1>1 DEF SaveDNSCacheAsync, e
  <2>4. flusher' = flusher \/ flusher' = [flusher EXCEPT ![g] = f]
    BY <1>1 DEF SaveDNSCacheAsync, f
  <2>5. TypeOK'
    BY <1>1, <2>0, <2>1, <2>2, <2>3, <2>4 DEF TypeInv, TypeOK, SaveDNSCacheAsync
  <2>6. Keyed'
    BY <2>2, <2>4 DEF TypeInv, TypeOK, Keyed, Busy
  <2>7. Numbered'
    BY <1>1, <2>0, <2>1, <2>3 DEF TypeInv, TypeOK, Numbered, SaveDNSCacheAsync
  <2> QED
    BY <2>5, <2>6, <2>7 DEF TypeInv
<1>2. ASSUME NEW g \in Flushers, Read(g) PROVE TypeInv'
  <2> DEFINE k == flusher[g].key
             f == [flusher[g] EXCEPT !.pc = "save", !.entry = pending[k]]
  <2>1. k \in Keys /\ flusher[g] \in FlusherType /\ pending[k] \in Entry \cup {NoEntry}
    BY <1>2 DEF Read, TypeInv, TypeOK, Keyed, Busy
  <2>2. f \in FlusherType /\ f.pc = "save" /\ f.key \in Keys
    BY <2>1, Zenon DEF FlusherType
  <2>3. flusher' = [flusher EXCEPT ![g] = IdleFlusher] \/ flusher' = [flusher EXCEPT ![g] = f]
    BY <1>2, Zenon DEF Read
  <2> HIDE DEF f
  <2>4. TypeOK'
    BY <1>2, <2>2, <2>3 DEF TypeInv, TypeOK, Read
  <2>5. Keyed'
    BY <2>2, <2>3 DEF TypeInv, TypeOK, Keyed, Busy
  <2>6. Numbered'
    BY <1>2 DEF TypeInv, Numbered, Read
  <2> QED
    BY <2>4, <2>5, <2>6 DEF TypeInv
<1>3. ASSUME NEW g \in Flushers, Save(g) PROVE TypeInv'
  <2> DEFINE k == flusher[g].key
             f == [flusher[g] EXCEPT !.pc = "check"]
  <2>1. k \in Keys /\ flusher[g] \in FlusherType
    BY <1>3 DEF Save, TypeInv, TypeOK, Keyed, Busy
  <2>2. f \in FlusherType /\ f.pc = "check" /\ f.key \in Keys
    BY <2>1 DEF FlusherType
  <2>3. flusher' = [flusher EXCEPT ![g] = f]
    BY <1>3 DEF Save, TypeInv, TypeOK
  <2> HIDE DEF f
  <2>4. flusher[g].entry.version \in 0..MaxVersion
    BY <2>1
  <2>5. disk' \in [Keys -> 0..MaxVersion] /\ lost' \subseteq Keys
    BY <1>3, <2>1, <2>4 DEF TypeInv, TypeOK, Save
  <2>6. TypeOK'
    BY <1>3, <2>2, <2>3, <2>5 DEF TypeInv, TypeOK, Save
  <2>7. Keyed'
    BY <2>2, <2>3 DEF TypeInv, TypeOK, Keyed, Busy
  <2>8. Numbered'
    BY <1>3 DEF TypeInv, Numbered, Save
  <2> QED
    BY <2>6, <2>7, <2>8 DEF TypeInv
<1>4. ASSUME NEW g \in Flushers, Check(g) PROVE TypeInv'
  <2> DEFINE k == flusher[g].key
             f == [IdleFlusher EXCEPT !.pc = "read", !.key = k]
  <2>1. k \in Keys /\ flusher[g] \in FlusherType
    BY <1>4 DEF Check, TypeInv, TypeOK, Keyed, Busy
  <2>2. f \in FlusherType /\ f.pc = "read" /\ f.key \in Keys
    BY <2>1, Started, Zenon
  <2>3. flusher' = [flusher EXCEPT ![g] = IdleFlusher] \/ flusher' = [flusher EXCEPT ![g] = f]
    BY <1>4, Zenon DEF Check
  <2>4. pending' = pending \/ pending' = [pending EXCEPT ![k] = NoEntry]
    BY <1>4 DEF Check
  <2> HIDE DEF f, k
  <2>5. TypeOK'
    BY <1>4, <2>1, <2>2, <2>3, <2>4, ZenonT(60) DEF TypeInv, TypeOK, Check
  <2>6. Keyed'
    BY <2>2, <2>3 DEF TypeInv, TypeOK, Keyed, Busy
  <2>7. Numbered'
    BY <1>4, <2>1, <2>4 DEF TypeInv, TypeOK, Numbered, Check
  <2> QED
    BY <2>5, <2>6, <2>7 DEF TypeInv
<1>5. ASSUME ClearPending PROVE TypeInv'
  BY <1>5 DEF TypeInv, TypeOK, Keyed, Busy, Numbered, ClearPending, Queued
<1>6. ASSUME ClearDisk PROVE TypeInv'
  BY <1>6, Zenon DEF TypeInv, TypeOK, Keyed, Busy, Numbered, ClearDisk, Queued
<1>7. ASSUME Cleanup PROVE TypeInv'
  BY <1>7 DEF TypeInv, TypeOK, Keyed, Busy, Numbered, Cleanup
<1>8. ASSUME NEW k \in Keys, NEW version \in Version, Expire(k, version) PROVE TypeInv'
  BY <1>8 DEF TypeInv, TypeOK, Keyed, Busy, Numbered, Expire, Version
<1>9. CASE UNCHANGED vars
  BY <1>9 DEF TypeInv, TypeOK, Keyed, Busy, Numbered, vars
<1> QED
  BY <1>1, <1>2, <1>3, <1>4, <1>5, <1>6, <1>7, <1>8, <1>9 DEF Next, Flush

(* A queued response always has a goroutine that will look at it again: a  *)
(* goroutine of flushPendingDNSCacheWith ends only when it finds no entry  *)
(* or removes the one it has saved.                                        *)
LEMMA FlusherStep == TypeInv /\ PendingHasFlusher /\ [Next]_vars => PendingHasFlusher'
<1> SUFFICES ASSUME TypeInv, PendingHasFlusher, [Next]_vars,
                    NEW j \in Keys, pending'[j] # NoEntry
             PROVE  \E h \in Flushers : (flusher[h].pc # "idle" /\ flusher[h].key = j)'
  BY DEF PendingHasFlusher
<1> USE DNSCacheFileAssumption, Records
<1>0. pending[j] # NoEntry => \E h \in Flushers : flusher[h].pc # "idle" /\ flusher[h].key = j
  BY DEF PendingHasFlusher
<1>1. ASSUME NEW k \in Keys, NEW g \in Flushers, SaveDNSCacheAsync(k, g)
      PROVE  \E h \in Flushers : (flusher[h].pc # "idle" /\ flusher[h].key = j)'
  <2> DEFINE f == [IdleFlusher EXCEPT !.pc = "read", !.key = k]
  <2>1. f.pc = "read" /\ f.key = k
    BY Started, Zenon
  <2>2. k # j => pending'[j] = pending[j]
    BY <1>1 DEF SaveDNSCacheAsync, TypeInv, TypeOK
  <2>3. CASE pending[k] = NoEntry
    <3>1. flusher[g].pc = "idle" /\ flusher' = [flusher EXCEPT ![g] = f]
      BY <1>1, <2>3 DEF SaveDNSCacheAsync, StartFlush
    <3> HIDE DEF f
    <3>2. CASE k = j
      BY <2>1, <3>1, <3>2 DEF TypeInv, TypeOK
    <3>3. CASE k # j
      BY <1>0, <2>2, <3>1, <3>3 DEF TypeInv, TypeOK
    <3> QED
      BY <3>2, <3>3
  <2>4. CASE pending[k] # NoEntry
    <3>1. flusher' = flusher /\ pending[j] # NoEntry
      BY <1>1, <2>2, <2>4 DEF SaveDNSCacheAsync, StartFlush
    <3> QED
      BY <1>0, <3>1
  <2> QED
    BY <2>3, <2>4
<1>2. ASSUME NEW g \in Flushers, Read(g)
      PROVE  \E h \in Flushers : (flusher[h].pc # "idle" /\ flusher[h].key = j)'
  <2> DEFINE f == [flusher[g] EXCEPT !.pc = "save", !.entry = pending[flusher[g].key]]
  <2>1. f.pc = "save" /\ f.key = flusher[g].key
    BY DEF TypeInv, TypeOK, FlusherType
  <2>2. /\ pending'[j] = pending[j]
        /\ flusher' = [flusher EXCEPT ![g] = IF pending[flusher[g].key] = NoEntry THEN IdleFlusher ELSE f]
    BY <1>2 DEF Read
  <2> HIDE DEF f
  <2> QED
    BY <1>0, <2>1, <2>2 DEF TypeInv, TypeOK
<1>3. ASSUME NEW g \in Flushers, Save(g)
      PROVE  \E h \in Flushers : (flusher[h].pc # "idle" /\ flusher[h].key = j)'
  <2> DEFINE f == [flusher[g] EXCEPT !.pc = "check"]
  <2>1. f.pc = "check" /\ f.key = flusher[g].key
    BY DEF TypeInv, TypeOK, FlusherType
  <2>2. pending'[j] = pending[j] /\ flusher' = [flusher EXCEPT ![g] = f]
    BY <1>3 DEF Save
  <2> HIDE DEF f
  <2> QED
    BY <1>0, <2>1, <2>2 DEF TypeInv, TypeOK
<1>4. ASSUME NEW g \in Flushers, Check(g)
      PROVE  \E h \in Flushers : (flusher[h].pc # "idle" /\ flusher[h].key = j)'
  <2> DEFINE k == flusher[g].key
             f == [IdleFlusher EXCEPT !.pc = "read", !.key = k]
             again == Again(pending[k], flusher[g].entry)
  <2>1. k \in Keys
    BY <1>4 DEF Check, TypeInv, Keyed, Busy
  <2>2. f.pc = "read" /\ f.key = k
    BY <2>1, Started, Zenon
  <2>3. /\ flusher' = [flusher EXCEPT ![g] = IF again THEN f ELSE IdleFlusher]
        /\ pending' = pending \/ pending' = [pending EXCEPT ![k] = NoEntry]
    BY <1>4 DEF Check
  <2>4. pending'[k] = NoEntry \/ again
    BY <1>4, <2>1 DEF Check, Again, TypeInv, TypeOK
  <2>5. pending[j] # NoEntry
    BY <2>1, <2>3 DEF TypeInv, TypeOK
  <2> HIDE DEF f, k, again
  <2>6. CASE k = j
    BY <2>2, <2>3, <2>4, <2>6 DEF TypeInv, TypeOK
  <2>7. CASE k # j
    BY <1>0, <2>3, <2>5, <2>7 DEF TypeInv, TypeOK, k
  <2> QED
    BY <2>6, <2>7
<1>5. ASSUME ClearPending PROVE FALSE
  BY <1>5 DEF ClearPending
<1>6. ASSUME ClearDisk \/ Cleanup \/ (\E k \in Keys, version \in Version : Expire(k, version)) \/ UNCHANGED vars
      PROVE  \E h \in Flushers : (flusher[h].pc # "idle" /\ flusher[h].key = j)'
  BY <1>0, <1>6 DEF ClearDisk, Cleanup, Expire, vars
<1> QED
  BY <1>1, <1>2, <1>3, <1>4, <1>5, <1>6 DEF Next, Flush

LEMMA TypeInit == Init => TypeInv
<1> SUFFICES ASSUME Init PROVE TypeInv
  OBVIOUS
<1> USE DNSCacheFileAssumption, Records
<1>1. /\ pending \in [Keys -> Entry \cup {NoEntry}] /\ flusher \in [Flushers -> FlusherType]
      /\ disk \in [Keys -> 0..MaxVersion] /\ queued \in [Keys -> 0..MaxVersion]
  BY DEF Init
<1>2. clears \in 0..MaxClears /\ clearing \in BOOLEAN /\ lost \subseteq Keys
  <2>1. clears \in 0..MaxClears
    BY DEF Init
  <2>2. clearing \in BOOLEAN /\ lost \subseteq Keys
    BY Zenon DEF Init
  <2> QED
    BY <2>1, <2>2
<1>3. expired \in [Keys -> SUBSET Version]
  <2>1. {} \in SUBSET Version
    OBVIOUS
  <2> QED
    BY <2>1 DEF Init
<1>4. Keyed
  BY DEF Init, Keyed, Busy
<1>5. Numbered
  BY DEF Init, Numbered
<1> QED
  BY <1>1, <1>2, <1>3, <1>4, <1>5 DEF TypeInv, TypeOK

(* Type correctness of the queue, its goroutines and the file. *)
THEOREM TypeCorrect == Spec => []TypeOK
<1>1. TypeInv => TypeOK
  BY DEF TypeInv
<1> QED
  BY <1>1, TypeInit, TypeStep, PTL DEF Spec

(* A response queued by SaveDNSCacheAsync is never left to nobody, also    *)
(* when saves fail and the cache is cleared meanwhile.                     *)
THEOREM NoneLeftBehind == Spec => []PendingHasFlusher
<1>1. Init => PendingHasFlusher
  BY DEF Init, PendingHasFlusher
<1> QED
  BY <1>1, TypeInit, TypeStep, FlusherStep, PTL DEF Spec

-----------------------------------------------------------------------------
(* The goroutine that a step leaves alone, on a key that it leaves alone. *)
LEMMA WorkingSame ==
    ASSUME NEW g \in Flushers, Working(g), flusher'[g] = flusher[g],
           LET k == flusher[g].key
           IN  /\ pending'[k] = pending[k] /\ queued'[k] = queued[k]
               /\ k \notin lost' => k \notin lost
               /\ Settled(k) => Settled(k)'
    PROVE  Working(g)'
  BY DEF Working, Busy

(* One goroutine per key, and it works on what is queued: preserved by     *)
(* every step, for the keys that no clearing or failed save has disturbed. *)
LEMMA InvStep == Inv /\ [Next]_vars => Inv'
<1> SUFFICES ASSUME Inv, [Next]_vars
             PROVE  /\ OneWriter' /\ \A g \in Flushers : Working(g)'
                    /\ \A k \in Keys \ lost' : pending'[k] = NoEntry => Settled(k)'
  BY TypeStep DEF Inv
<1> USE DNSCacheFileAssumption, Records
<1>0. /\ TypeInv /\ OneWriter /\ \A g \in Flushers : Working(g)
      /\ \A k \in Keys \ lost : pending[k] = NoEntry => Settled(k)
  BY DEF Inv
<1>a. /\ \A k \in Keys : pending[k] \in Entry \cup {NoEntry} /\ queued[k] \in 0..MaxVersion
      /\ \A g \in Flushers : flusher[g] \in FlusherType /\ flusher[g].entry.sequence \in 0..MaxVersion
  BY <1>0 DEF TypeInv, TypeOK
<1>1. ASSUME NEW k \in Keys, NEW g \in Flushers, SaveDNSCacheAsync(k, g)
      PROVE  /\ OneWriter' /\ \A h \in Flushers : Working(h)'
             /\ \A j \in Keys \ lost' : pending'[j] = NoEntry => Settled(j)'
  <2> DEFINE e == [version |-> queued[k] + 1, sequence |-> Sequence(pending[k])]
             f == [IdleFlusher EXCEPT !.pc = "read", !.key = k]
  <2>1. e.sequence = pending[k].sequence + 1 /\ e.version = queued[k] + 1 /\ e # NoEntry
    BY <1>a DEF Sequence, NoEntry
  <2>2. f.pc = "read" /\ f.key = k
    BY Started, Zenon
  <2>3. pending' = [pending EXCEPT ![k] = e] /\ queued' = [queued EXCEPT ![k] = queued[k] + 1]
    BY <1>1 DEF SaveDNSCacheAsync
  <2>4. /\ IF pending[k] = NoEntry THEN flusher[g].pc = "idle" /\ flusher' = [flusher EXCEPT ![g] = f]
                                   ELSE flusher' = flusher
        /\ disk' = disk /\ expired' = expired /\ lost' = lost
    BY <1>1 DEF SaveDNSCacheAsync, StartFlush
  <2> HIDE DEF e, f
  <2>5. \A j \in Keys \ {k} : pending'[j] = pending[j] /\ queued'[j] = queued[j] /\ (Settled(j) => Settled(j)')
    BY <2>3, <2>4, <1>0 DEF TypeInv, TypeOK, Settled
  <2>6. pending'[k] = e
    BY <2>3, <1>0 DEF TypeInv, TypeOK
  <2>7. \A j \in Keys \ lost' : pending'[j] = NoEntry => Settled(j)'
    BY <1>0, <2>1, <2>4, <2>5, <2>6
  <2>8. \A h \in Flushers : Busy(h) /\ flusher[h].key = k /\ k \notin lost => pending[k] # NoEntry
    BY <1>0 DEF Working
  <2>9. OneWriter'
    BY <1>0, <2>2, <2>4, <2>8 DEF OneWriter, TypeInv, TypeOK, Keyed, Busy
  <2>10. ASSUME NEW h \in Flushers PROVE Working(h)'
    <3>1. CASE flusher'[h] # flusher[h]
      <4>1. flusher'[h] = f
        BY <3>1, <2>4, <1>0 DEF TypeInv, TypeOK
      <4> QED
        BY <4>1, <2>1, <2>2, <2>6 DEF Working
    <3>2. CASE flusher'[h] = flusher[h] /\ flusher[h].key # k
      <4>1. CASE Busy(h)
        BY <4>1, <3>2, <1>0, <2>4, <2>5, WorkingSame DEF TypeInv, Keyed
      <4>2. CASE ~Busy(h)
        BY <4>2, <3>2 DEF Busy, Working
      <4> QED
        BY <4>1, <4>2
    <3>3. CASE flusher'[h] = flusher[h] /\ flusher[h].key = k
      <4>1. \/ ~Busy(h) \/ k \in lost
            \/ flusher[h].pc \notin {"save", "check"}
            \/ flusher[h].entry.sequence <= pending[k].sequence
        BY <1>0, <3>3 DEF Working
      <4>2. \/ ~Busy(h) \/ k \in lost
            \/ flusher[h].pc \notin {"save", "check"}
            \/ flusher[h].entry.sequence < e.sequence
        BY <4>1, <1>a, <2>1
      <4> QED
        BY <4>2, <3>3, <2>1, <2>4, <2>6, <1>a DEF Working, Busy
    <3> QED
      BY <3>1, <3>2, <3>3
  <2> QED
    BY <2>7, <2>9, <2>10
<1>2. ASSUME NEW g \in Flushers, Read(g)
      PROVE  /\ OneWriter' /\ \A h \in Flushers : Working(h)'
             /\ \A j \in Keys \ lost' : pending'[j] = NoEntry => Settled(j)'
  <2> DEFINE k == flusher[g].key
             f == [flusher[g] EXCEPT !.pc = "save", !.entry = pending[k]]
  <2>1. k \in Keys /\ Busy(g)
    BY <1>0, <1>2 DEF Read, TypeInv, Keyed, Busy
  <2>2. f.pc = "save" /\ f.key = k /\ f.entry = pending[k]
    BY <1>a DEF FlusherType
  <2>3. /\ flusher' = [flusher EXCEPT ![g] = IF pending[k] = NoEntry THEN IdleFlusher ELSE f]
        /\ UNCHANGED <<pending, disk, expired, queued, lost>>
    BY <1>2 DEF Read
  <2> HIDE DEF f, k
  <2>4. \A j \in Keys : Settled(j) => Settled(j)'
    BY <2>3 DEF Settled
  <2>5. OneWriter'
    BY <1>0, <2>1, <2>2, <2>3 DEF OneWriter, TypeInv, TypeOK, Keyed, Busy, k
  <2>6. ASSUME NEW h \in Flushers PROVE Working(h)'
    <3>1. CASE h # g
      <4>1. flusher'[h] = flusher[h]
        BY <3>1, <2>3, <1>0 DEF TypeInv, TypeOK
      <4>2. Busy(h) => flusher[h].key \in Keys
        BY <1>0 DEF TypeInv, Keyed
      <4> QED
        BY <4>1, <4>2, <1>0, <2>3, <2>4 DEF Working, Busy
    <3>2. CASE h = g /\ pending[k] = NoEntry
      BY <3>2, <2>3, <1>0 DEF TypeInv, TypeOK, Working, Busy
    <3>3. CASE h = g /\ pending[k] # NoEntry
      <4>1. flusher'[h] = f
        BY <3>3, <2>3, <1>0 DEF TypeInv, TypeOK
      <4>2. pending[k].version = queued[k] /\ pending[k].sequence \in 0..MaxVersion
        BY <3>3, <2>1, <1>0, <1>a DEF TypeInv, Numbered
      <4> QED
        BY <4>1, <4>2, <3>3, <2>2, <2>3 DEF Working
    <3> QED
      BY <3>1, <3>2, <3>3
  <2> QED
    BY <1>0, <2>3, <2>4, <2>5, <2>6
<1>3. ASSUME NEW g \in Flushers, Save(g)
      PROVE  /\ OneWriter' /\ \A h \in Flushers : Working(h)'
             /\ \A j \in Keys \ lost' : pending'[j] = NoEntry => Settled(j)'
  <2>0. PICK k \in Keys : k = flusher[g].key
    BY <1>0, <1>3 DEF Save, TypeInv, Keyed, Busy
  <2>e. PICK e \in Entry \cup {NoEntry} : e = flusher[g].entry
    BY <1>a
  <2> DEFINE f == [flusher[g] EXCEPT !.pc = "check"]
  <2>1. Busy(g) /\ flusher[g].pc = "save"
    BY <1>3 DEF Save, Busy
  <2>2. f.pc = "check" /\ f.key = k /\ f.entry = e
    BY <1>a, <2>0, <2>e DEF FlusherType
  <2>3. flusher' = [flusher EXCEPT ![g] = f] /\ UNCHANGED <<pending, expired, queued>>
    BY <1>3 DEF Save
  <2>4. \/ disk' = [disk EXCEPT ![k] = e.version] /\ lost' = lost
        \/ disk' = disk /\ lost' = lost \cup {k}
    BY <1>3, <2>0, <2>e DEF Save
  <2>5. k \notin lost =>
          /\ pending[k] # NoEntry
          /\ e.sequence <= pending[k].sequence
          /\ e.sequence = pending[k].sequence => e.version = queued[k]
    BY <1>0, <2>0, <2>1, <2>e DEF Working
  <2> HIDE DEF f
  <2>6. \A j \in Keys \ {k} : Settled(j) => Settled(j)'
    BY <1>0, <2>3, <2>4 DEF TypeInv, TypeOK, Settled
  <2>7. \A j \in Keys \ lost' : pending'[j] = NoEntry => Settled(j)'
    <3>1. k \notin lost' => pending'[k] # NoEntry
      BY <2>3, <2>4, <2>5
    <3>2. lost \subseteq lost' /\ pending' = pending
      BY <2>3, <2>4
    <3> QED
      BY <1>0, <3>1, <3>2, <2>6
  <2>8. OneWriter'
    BY <1>0, <2>0, <2>1, <2>2, <2>3, <2>4 DEF OneWriter, TypeInv, TypeOK, Keyed, Busy
  <2>9. ASSUME NEW h \in Flushers PROVE Working(h)'
    <3>1. CASE h # g
      <4>1. flusher'[h] = flusher[h]
        BY <3>1, <2>3, <1>0 DEF TypeInv, TypeOK
      <4>2. Busy(h) => flusher[h].key \in Keys /\ (flusher[h].key # k \/ k \in lost)
        BY <3>1, <1>0, <2>0, <2>1 DEF TypeInv, Keyed, OneWriter, Busy
      <4> QED
        BY <4>1, <4>2, <1>0, <2>3, <2>4, <2>6 DEF Working, Busy
    <3>2. CASE h = g
      <4>1. flusher'[h] = f
        BY <3>2, <2>3, <1>0 DEF TypeInv, TypeOK
      <4>2. k \notin lost' => k \notin lost /\ disk'[k] = e.version
        BY <1>0, <2>1, <2>4 DEF TypeInv, TypeOK
      <4>3. k \notin lost' /\ e.sequence = pending[k].sequence => Settled(k)'
        BY <4>2, <2>3, <2>5 DEF Settled
      <4> QED
        BY <4>1, <4>2, <4>3, <2>2, <2>3, <2>5 DEF Working
    <3> QED
      BY <3>1, <3>2
  <2> QED
    BY <2>7, <2>8, <2>9
<1>4. ASSUME NEW g \in Flushers, Check(g)
      PROVE  /\ OneWriter' /\ \A h \in Flushers : Working(h)'
             /\ \A j \in Keys \ lost' : pending'[j] = NoEntry => Settled(j)'
  <2> DEFINE k == flusher[g].key
             f == [IdleFlusher EXCEPT !.pc = "read", !.key = k]
             again == Again(pending[k], flusher[g].entry)
             same == pending[k].sequence = flusher[g].entry.sequence
  <2>1. k \in Keys /\ Busy(g) /\ flusher[g].pc = "check"
    BY <1>0, <1>4 DEF Check, TypeInv, Keyed, Busy
  <2>2. f.pc = "read" /\ f.key = k
    BY <2>1, Started, Zenon
  <2>3. /\ flusher' = [flusher EXCEPT ![g] = IF again THEN f ELSE IdleFlusher]
        /\ pending' = IF same THEN [pending EXCEPT ![k] = NoEntry] ELSE pending
        /\ UNCHANGED <<disk, expired, queued, lost>>
    BY <1>4 DEF Check
  <2>4. k \notin lost => pending[k] # NoEntry /\ (same => Settled(k))
    BY <1>0, <2>1 DEF Working
  <2>5. again => ~same /\ pending[k] # NoEntry
    BY DEF Again
  <2> HIDE DEF f, k, again, same
  <2>6. \A j \in Keys : Settled(j) => Settled(j)'
    BY <2>3 DEF Settled
  <2>7. \A j \in Keys : j # k \/ ~same => pending'[j] = pending[j]
    BY <1>0, <2>3 DEF TypeInv, TypeOK
  <2>8. \A j \in Keys \ lost' : pending'[j] = NoEntry => Settled(j)'
    BY <1>0, <2>3, <2>4, <2>6, <2>7
  <2>9. OneWriter'
    BY <1>0, <2>1, <2>2, <2>3 DEF OneWriter, TypeInv, TypeOK, Keyed, Busy, k
  <2>10. ASSUME NEW h \in Flushers PROVE Working(h)'
    <3>1. CASE h # g
      <4>1. flusher'[h] = flusher[h]
        BY <3>1, <2>3, <1>0 DEF TypeInv, TypeOK
      <4>2. Busy(h) => flusher[h].key \in Keys /\ (flusher[h].key # k \/ k \in lost)
        BY <3>1, <1>0, <2>1 DEF TypeInv, Keyed, OneWriter, Busy, k
      <4> QED
        BY <4>1, <4>2, <1>0, <2>3, <2>6, <2>7 DEF Working, Busy
    <3>2. CASE h = g /\ again
      <4>1. flusher'[h] = f
        BY <3>2, <2>3, <1>0 DEF TypeInv, TypeOK
      <4> QED
        BY <4>1, <3>2, <2>1, <2>2, <2>5, <2>7 DEF Working
    <3>3. CASE h = g /\ ~again
      BY <3>3, <2>3, <1>0 DEF TypeInv, TypeOK, Working, Busy
    <3> QED
      BY <3>1, <3>2, <3>3
  <2> QED
    BY <2>8, <2>9, <2>10
<1>5. ASSUME ClearPending \/ ClearDisk
      PROVE  /\ OneWriter' /\ \A h \in Flushers : Working(h)'
             /\ \A j \in Keys \ lost' : pending'[j] = NoEntry => Settled(j)'
  <2>1. /\ UNCHANGED <<flusher, expired, queued>> /\ lost' = lost \cup Queued
        /\ disk' = disk \/ disk' = [j \in Keys |-> 0]
    BY <1>5 DEF ClearPending, ClearDisk
  <2>2. \A j \in Keys \ lost' : j \notin lost /\ queued[j] = 0 /\ pending[j] = NoEntry
    BY <1>0, <1>a, <2>1 DEF TypeInv, Numbered, Queued, Version
  <2>3. \A j \in Keys \ lost' : Settled(j)'
    BY <1>0, <2>1, <2>2 DEF Settled
  <2>4. \A h \in Flushers : Busy(h) => flusher[h].key \in lost'
    BY <1>0, <2>2 DEF TypeInv, Keyed, Working
  <2>5. \A h \in Flushers : Working(h)'
    BY <2>1, <2>4 DEF Working, Busy
  <2>6. OneWriter'
    BY <1>0, <2>1, <2>4 DEF OneWriter, Busy
  <2> QED
    BY <2>3, <2>5, <2>6
<1>6. ASSUME Cleanup \/ (\E k \in Keys, version \in Version : Expire(k, version)) \/ UNCHANGED vars
      PROVE  /\ OneWriter' /\ \A h \in Flushers : Working(h)'
             /\ \A j \in Keys \ lost' : pending'[j] = NoEntry => Settled(j)'
  <2>1. UNCHANGED <<flusher, pending, queued, lost>>
    BY <1>6 DEF Cleanup, Expire, vars
  <2>2. \A j \in Keys : expired[j] \subseteq expired'[j]
    BY <1>6, <1>0 DEF Cleanup, Expire, vars, TypeInv, TypeOK
  <2>3. \A j \in Keys : disk'[j] = disk[j] \/ (disk'[j] = 0 /\ disk[j] \in expired[j])
    BY <1>6 DEF Cleanup, Removable, Expire, vars
  <2>4. \A j \in Keys : Settled(j) => Settled(j)'
    BY <2>1, <2>2, <2>3, <1>0 DEF Settled, TypeInv, TypeOK, Version
  <2>5. \A h \in Flushers : Working(h)'
    BY <1>0, <2>1, <2>4 DEF Working, Busy, TypeInv, Keyed
  <2> QED
    BY <1>0, <2>1, <2>4, <2>5 DEF OneWriter
<1> QED
  BY <1>1, <1>2, <1>3, <1>4, <1>5, <1>6 DEF Next, Flush

LEMMA InvInit == Init => Inv
<1> SUFFICES ASSUME Init PROVE Inv
  OBVIOUS
<1>1. TypeInv
  BY TypeInit
<1>2. OneWriter /\ \A g \in Flushers : Working(g)
  BY Records DEF Init, OneWriter, Working, Busy
<1>3. \A k \in Keys \ lost : pending[k] = NoEntry => Settled(k)
  BY DEF Init, Settled
<1> QED
  BY <1>1, <1>2, <1>3 DEF Inv

(* The write-behind goroutines of a key never overlap, as long as no       *)
(* clearing or failed save has disturbed the key.                          *)
THEOREM OneWriterAlways == Spec => []OneWriter
<1>1. Inv => OneWriter
  BY DEF Inv
<1> QED
  BY <1>1, InvInit, InvStep, PTL DEF Spec

(* LoadDNSCache finds the latest response of an undisturbed key, in the    *)
(* queue or in the file, until it has expired.                             *)
THEOREM LatestAlwaysVisible == Spec => []LatestVisible
<1>1. Inv => LatestVisible
  <2> SUFFICES ASSUME Inv, NEW k \in Keys \ lost
               PROVE  \/ LoadDNSCache(k) = queued[k]
                      \/ LoadDNSCache(k) = 0 /\ queued[k] \in expired[k]
    BY DEF LatestVisible
  <2>1. CASE pending[k] = NoEntry
    BY <2>1 DEF Inv, Settled, LoadDNSCache
  <2>2. CASE pending[k] # NoEntry
    BY <2>2 DEF Inv, TypeInv, Numbered, LoadDNSCache
  <2> QED
    BY <2>1, <2>2
<1> QED
  BY <1>1, InvInit, InvStep, PTL DEF Spec
=============================================================================
