--------------------------- MODULE ConnPoolSlots ----------------------------
(***************************************************************************)
(* The slots of the dial semaphore are conserved, and ConnPool is          *)
(* type-correct, the number of free slots included.                        *)
(***************************************************************************)
EXTENDS ConnPoolTypes, FiniteSetTheorems

(* The SMT solver gets a minute for a leaf that names no other prover. *)
USE SMTT(60)

LEMMA OneMore ==
    ASSUME NEW S, IsFiniteSet(S), NEW x, x \notin S
    PROVE  Cardinality(S \cup {x}) = Cardinality(S) + 1
    BY FS_AddElement

LEMMA OneLess ==
    ASSUME NEW S, IsFiniteSet(S), NEW x \in S
    PROVE  Cardinality(S \ {x}) = Cardinality(S) - 1
    BY FS_RemoveElement

(* The callers that occupy a slot of the semaphore. *)
BusyPc == {"dial", "install", "closefail"}
Busy == {u \in Callers : caller[u].pc \in BusyPc}

LEMMA BusyFinite == IsFiniteSet(Busy) /\ Cardinality(Busy) \in Nat
    BY PoolAssumption, FS_Subset, FS_CardinalityType DEF Busy

(* How one caller's move changes the set. *)
LEMMA BusyMove ==
    ASSUME Types, NEW u \in Callers, NEW r, SetCaller(u, r)
    PROVE  /\ u \notin Busy /\ r.pc \notin BusyPc => Busy' = Busy
           /\ u \in Busy /\ r.pc \in BusyPc => Busy' = Busy
           /\ u \notin Busy /\ r.pc \in BusyPc => Busy' = Busy \cup {u}
           /\ u \in Busy /\ r.pc \notin BusyPc => Busy' = Busy \ {u}
    BY DEF Types, CallTypes, SetCaller, Busy, BusyPc

LEMMA BusyHelpers ==
    ASSUME Types, NEW u \in Callers
    PROVE  /\ \A c, label : Goto(u, label, c) =>
                  /\ u \notin Busy /\ label \notin BusyPc => Busy' = Busy
                  /\ u \in Busy /\ label \in BusyPc => Busy' = Busy
                  /\ u \notin Busy /\ label \in BusyPc => Busy' = Busy \cup {u}
           /\ (\E err : Return(u, err)) \/ (\E c, new : ReturnConn(u, c, new)) \/ Retry(u) =>
                  /\ u \notin Busy => Busy' = Busy
                  /\ u \in Busy => Busy' = Busy \ {u}
<1>1. /\ \A c, label : [caller[u] EXCEPT !.pc = label, !.conn = c].pc = label
      /\ IdleCaller.pc = "idle"
      /\ \A c : [IdleCaller EXCEPT !.pc = "hold", !.conn = c].pc = "hold"
      /\ [IdleCaller EXCEPT !.pc = "acquire", !.ctx = caller[u].ctx].pc = "acquire"
    BY DEF Types, CallTypes, CallerOK, CallerType, IdleCaller
<1>2. ASSUME NEW c, NEW label, Goto(u, label, c)
      PROVE  /\ u \notin Busy /\ label \notin BusyPc => Busy' = Busy
             /\ u \in Busy /\ label \in BusyPc => Busy' = Busy
             /\ u \notin Busy /\ label \in BusyPc => Busy' = Busy \cup {u}
    <2> DEFINE r == [caller[u] EXCEPT !.pc = label, !.conn = c]
    <2>1. SetCaller(u, r) /\ r.pc = label
        BY <1>1, <1>2 DEF Goto
    <2> HIDE DEF r
    <2> QED
        BY <2>1, BusyMove
<1>3. ASSUME NEW r, SetCaller(u, r), r.pc \in {"idle", "hold", "acquire"}
      PROVE  /\ u \notin Busy => Busy' = Busy
             /\ u \in Busy => Busy' = Busy \ {u}
    BY <1>3, BusyMove DEF BusyPc
<1>4. ASSUME (\E err : Return(u, err)) \/ (\E c, new : ReturnConn(u, c, new)) \/ Retry(u)
      PROVE  /\ u \notin Busy => Busy' = Busy
             /\ u \in Busy => Busy' = Busy \ {u}
    <2>1. CASE \E err : Return(u, err)
        BY <1>1, <1>3, <2>1 DEF Return
    <2>2. CASE \E c, new : ReturnConn(u, c, new)
        BY <1>1, <1>3, <2>2, Zenon DEF ReturnConn
    <2>3. CASE Retry(u)
        BY <1>1, <1>3, <2>3, ZenonT(60) DEF Retry
    <2> QED
        BY <1>4, <2>1, <2>2, <2>3
<1> QED
    BY <1>2, <1>4

(* A step takes a slot and one caller more is busy, or gives one back and  *)
(* one caller less is, or changes neither.                                 *)
LEMMA SlotStep ==
    ASSUME Types, NEW u \in Callers, MaxInflight > 0,
           Acquire(u) \/ CancelContext(u) \/ CallStep(u) \/ UseStep(u)
    PROVE  \/ sem' = sem /\ Busy' = Busy
           \/ sem' = sem - 1 /\ u \notin Busy /\ Busy' = Busy \cup {u}
           \/ sem' = sem + 1 /\ u \in Busy /\ Busy' = Busy \ {u}
<1> USE BusyHelpers
<1>0. /\ caller[u] \in CallerType
      /\ u \in Busy <=> caller[u].pc \in {"dial", "install", "closefail"}
    BY DEF Types, CallTypes, CallerOK, Busy, BusyPc
<1>1. CASE Acquire(u) \/ AcquireJoin(u) \/ AcquireStart(u) \/ AcquireDial(u)
    <2>1. u \notin Busy /\ sem' = sem
        BY <1>0, <1>1 DEF Acquire, AcquireJoin, AcquireStart, AcquireDial, At
    <2>2. CASE Acquire(u)
        <3> DEFINE r == [caller[u] EXCEPT !.pc = "acquire"]
        <3>1. SetCaller(u, r) /\ r.pc = "acquire"
            BY <1>0, <2>2 DEF Acquire, CallerType
        <3> QED
            BY <2>1, <3>1, BusyMove, Zenon DEF BusyPc
    <2>3. CASE AcquireJoin(u)
        <3> DEFINE r == [caller[u] EXCEPT !.pc = "wait", !.gen = gen,
                                          !.conn = current.connecting]
        <3>1. SetCaller(u, r) /\ r.pc = "wait"
            BY <1>0, <2>3 DEF AcquireJoin, CallerType
        <3> QED
            BY <2>1, <3>1, BusyMove, Zenon DEF BusyPc
    <2>4. CASE AcquireStart(u)
        <3> DEFINE r == [caller[u] EXCEPT !.pc = "wait", !.gen = gen,
                                          !.conn = dials + 1, !.start = TRUE]
        <3>1. SetCaller(u, r) /\ r.pc = "wait"
            BY <1>0, <2>4 DEF AcquireStart, CallerType
        <3> QED
            BY <2>1, <3>1, BusyMove, Zenon DEF BusyPc
    <2>5. CASE AcquireDial(u)
        <3> DEFINE r == [caller[u] EXCEPT !.pc = "slot", !.gen = gen]
        <3>1. SetCaller(u, r) /\ r.pc = "slot"
            BY <1>0, <2>5 DEF AcquireDial, CallerType
        <3> QED
            BY <2>1, <3>1, BusyMove, Zenon DEF BusyPc
    <2> QED
        BY <1>1, <2>2, <2>3, <2>4, <2>5
<1>9. CASE CancelContext(u)
    <2>1. [caller[u] EXCEPT !.ctx = TRUE].pc = caller[u].pc
        BY <1>0 DEF CallerType
    <2> QED
        BY <1>0, <1>9, <2>1, BusyMove, Zenon DEF CancelContext, BusyPc
<1>2. CASE AcquireClosed(u) \/ WaitContext(u) \/ WaitState(u) \/ acquireSlotFail(u)
    BY <1>0, <1>2 DEF AcquireClosed, WaitContext, WaitState, acquireSlotFail, At
<1>3. CASE AcquireShared(u) \/ WaitDone(u)
    BY <1>0, <1>3 DEF AcquireShared, WaitDone, UseShared, Claim, At, BusyPc
<1>4. CASE AcquireIdle(u) \/ CloseRemoved(u)
    BY <1>0, <1>4, ZenonT(60) DEF AcquireIdle, CloseRemoved, At, BusyPc
<1>5. CASE acquireSlot(u)
    BY <1>0, <1>5 DEF acquireSlot, takeSlot, At, BusyPc
<1>6. CASE DialOrdered(u)
    <2>1. CASE sem' = sem
        BY <1>0, <1>6, <2>1 DEF DialOrdered, releaseSlot, At, BusyPc
    <2>2. CASE sem' = sem + 1 /\ \E err : Return(u, err)
        BY <1>0, <1>6, <2>2 DEF DialOrdered, At, BusyPc
    <2> QED
        BY <1>6, <2>1, <2>2 DEF DialOrdered, releaseSlot
<1>7. CASE InstallOrdered(u)
    <2>1. u \in Busy
        BY <1>0, <1>7 DEF InstallOrdered, At
    <2>2. CASE Retired(caller[u].gen)
        BY <1>7, <2>1, <2>2 DEF InstallOrdered, BusyPc
    <2>3. CASE ~Retired(caller[u].gen)
        <3>1. ReturnConn(u, caller[u].conn, TRUE) /\ releaseSlot
            BY <1>7, <2>3, ZenonT(60) DEF InstallOrdered
        <3>2. sem' = sem + 1
            BY <3>1 DEF releaseSlot
        <3> QED
            BY <2>1, <3>1, <3>2, Zenon
    <2> QED
        BY <2>2, <2>3
<1>10. CASE CloseFail(u)
    BY <1>0, <1>10 DEF CloseFail, releaseSlot, At
<1>8. CASE UseStep(u)
    BY <1>0, <1>8 DEF UseStep, Release, Invalidate, At, BusyPc
<1> QED
    BY <1>1, <1>2, <1>3, <1>4, <1>5, <1>6, <1>7, <1>8, <1>9, <1>10 DEF CallStep

(* The slots in use and the free ones add up to MaxInflight. *)
LEMMA NextSlots == Types /\ SlotsConserved /\ [Next]_vars => SlotsConserved'
<1> SUFFICES ASSUME Types, SlotsConserved, [Next]_vars, MaxInflight > 0
             PROVE  sem' + Cardinality(Busy') = MaxInflight
    BY DEF SlotsConserved, Busy, BusyPc
<1>0. sem + Cardinality(Busy) = MaxInflight /\ sem \in Nat
    BY DEF SlotsConserved, Busy, BusyPc, Types
<1>1. ASSUME sem' = sem, Busy' = Busy
      PROVE  sem' + Cardinality(Busy') = MaxInflight
    BY <1>0, <1>1
<1>2. ASSUME NEW u \in Callers,
             Acquire(u) \/ CancelContext(u) \/ CallStep(u) \/ UseStep(u)
      PROVE  sem' + Cardinality(Busy') = MaxInflight
    <2>1. CASE sem' = sem /\ Busy' = Busy
        BY <1>1, <2>1
    <2>2. CASE sem' = sem - 1 /\ u \notin Busy /\ Busy' = Busy \cup {u}
        <3>1. Cardinality(Busy') = Cardinality(Busy) + 1
            BY <2>2, BusyFinite, OneMore
        <3> QED
            BY <1>0, <2>2, <3>1, BusyFinite
    <2>3. CASE sem' = sem + 1 /\ u \in Busy /\ Busy' = Busy \ {u}
        <3>1. Cardinality(Busy') = Cardinality(Busy) - 1
            BY <2>3, BusyFinite, OneLess
        <3> QED
            BY <1>0, <2>3, <3>1, BusyFinite
    <2> QED
        BY <1>2, <2>1, <2>2, <2>3, SlotStep
<1>3. CASE \/ \E d \in Conns : ConnectStep(d) \/ ConnDies(d)
           \/ Reset \/ Close \/ closeStateStep \/ UNCHANGED vars
    <2>1. sem' = sem /\ caller' = caller
        BY <1>3, Zenon DEF ConnectStep, ConnectDial, ConnectInstall, ConnectDone, ConnDies,
           Reset, Close, closeStateStep, closeStateCancel, closeStateConn, vars,
           callVars
    <2> QED
        BY <1>1, <2>1 DEF Busy
<1> QED
    BY <1>2, <1>3 DEF Next

LEMMA InitSlots == Init => SlotsConserved
<1> SUFFICES ASSUME Init PROVE sem + Cardinality(Busy) = MaxInflight
    BY DEF SlotsConserved, Busy, BusyPc
<1>1. Busy = {}
    BY DEF Init, Busy, BusyPc, IdleCaller
<1> QED
    BY <1>1, FS_EmptySet, ConstantTypes DEF Init

(* No return path of dialAndInstall loses a slot of the semaphore or gives *)
(* one back twice, for any number of callers and any MaxInflight.          *)
THEOREM SlotsTheorem == Spec => []SlotsConserved
<1>1. Init => Types /\ SlotsConserved
    BY InitTypes, InitSlots
<1>2. Types /\ SlotsConserved /\ [Next]_vars => (Types /\ SlotsConserved)'
    BY NextTypes, NextSlots
<1> QED
    BY <1>1, <1>2, PTL DEF Spec

(* Every variable of the pool keeps its type, the number of free slots its *)
(* bounds included.                                                        *)
THEOREM TypeTheorem == Spec => []TypeOK
<1>1. Init => Types /\ SlotsConserved /\ (MaxInflight = 0 => sem = 0)
    BY InitTypes, InitSlots DEF Init
<1>2. Types /\ SlotsConserved /\ (MaxInflight = 0 => sem = 0) /\ [Next]_vars
          => (Types /\ SlotsConserved /\ (MaxInflight = 0 => sem = 0))'
    <2> SUFFICES ASSUME Types, SlotsConserved, MaxInflight = 0, sem = 0, [Next]_vars
                 PROVE  sem' = 0
        BY NextTypes, NextSlots
    <2> QED
        BY ZenonT(60) DEF Next, CallStep, UseStep, ConnectStep, closeStateStep, Acquire,
           CancelContext, AcquireClosed, AcquireShared, AcquireJoin, AcquireStart,
           WaitDone, WaitContext, WaitState, AcquireIdle, AcquireDial, acquireSlot,
           acquireSlotFail, DialOrdered, InstallOrdered, CloseFail, Release,
           Invalidate, CloseRemoved, ConnectDial, ConnectInstall, ConnectDone,
           ConnDies, Reset, Close, closeStateCancel, closeStateConn, takeSlot,
           releaseSlot, vars
<1>3. Types /\ SlotsConserved /\ (MaxInflight = 0 => sem = 0) => TypeOK
    <2> SUFFICES ASSUME Types, SlotsConserved, MaxInflight = 0 => sem = 0
                 PROVE  TypeOK
        OBVIOUS
    <2>1. sem \in 0..MaxInflight
        BY BusyFinite, ConstantTypes DEF Types, SlotsConserved, Busy, BusyPc
    <2>2. caller \in [Callers -> CallerType]
        BY DEF Types, CallTypes, CallerOK
    <2> QED
        BY <2>1, <2>2 DEF Types, PoolTypes, CallTypes, DialTypes, RestTypes, TypeOK
<1> QED
    BY <1>1, <1>2, <1>3, PTL DEF Spec
=============================================================================
