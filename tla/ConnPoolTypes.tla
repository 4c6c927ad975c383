--------------------------- MODULE ConnPoolTypes ----------------------------
(***************************************************************************)
(* The type invariant of ConnPool in its inductive form, for every number  *)
(* of callers, dials and resets and for both modes.                        *)
(***************************************************************************)
EXTENDS ConnPool, TLAPS

(* The SMT solver gets a minute for a leaf that names no other prover. *)
USE SMTT(60)

LEMMA ConstantTypes ==
    /\ MaxInflight \in Nat /\ MaxDials \in Nat /\ MaxResets \in Nat
    /\ MaxCalls \in Nat /\ MaxDeaths \in Nat
    BY PoolAssumption

(* Taking a connection off an idle list leaves a list of connections. *)
LEMMA UnlistType ==
    ASSUME NEW s \in Seq(Conns), NEW c
    PROVE  Unlist(s, c) \in Seq(Conns)
<1>1. CASE c \notin Range(s)
    BY <1>1 DEF Unlist
<1>2. CASE c \in Range(s)
    <2> DEFINE i == CHOOSE j \in DOMAIN s : s[j] = c
    <2>1. i \in DOMAIN s
        BY <1>2 DEF Range
    <2>2. i \in 1..Len(s)
        BY <2>1
    <2> HIDE DEF i
    <2>3. SubSeq(s, 1, i - 1) \in Seq(Conns)
        BY <2>2
    <2>4. SubSeq(s, i + 1, Len(s)) \in Seq(Conns)
        BY <2>2
    <2>5. Unlist(s, c) = SubSeq(s, 1, i - 1) \o SubSeq(s, i + 1, Len(s))
        BY <1>2, Zenon DEF Unlist, i
    <2> QED
        BY <2>3, <2>4, <2>5
<1> QED
    BY <1>1, <1>2

(* The initial records have their types. *)
LEMMA InitialRecords ==
    /\ NewState \in StateType
    /\ NoDialer \in DialerType
    /\ IdleCaller \in CallerType
<1>1. 0 \in Gens
    BY ConstantTypes DEF Gens
<1>2. NewState \in StateType
    BY DEF NewState, StateType, NoConn
<1>3. NoDialer \in DialerType
    BY <1>1 DEF NoDialer, DialerType, NoConn, Errors
<1>4. IdleCaller \in CallerType
    BY <1>1 DEF IdleCaller, CallerType, NoConn, CallPc
<1> QED
    BY <1>2, <1>3, <1>4

(* TypeOK without the upper bound of the semaphore, which is not inductive *)
(* by itself: that no path releases a slot it did not take is the subject  *)
(* of SlotsConserved.  Past the lookups a caller has a connection in hand. *)
CallerOK == {r \in CallerType :
                r.pc \notin {"idle", "acquire", "slot"} => r.conn \in Conns}
PoolTypes ==
    /\ closed \in BOOLEAN
    /\ gen \in Gens
    /\ state \in [Gens -> StateType]
    /\ cancelled \subseteq Gens
    /\ sharedDone \subseteq Conns
CallTypes ==
    /\ caller \in [Callers -> CallerOK]
    /\ ret \in Errors
    /\ calm \subseteq Callers
    /\ created \in [Conns -> Nat]
DialTypes ==
    /\ dials \in 0..MaxDials
    /\ dialer \in [Conns -> DialerType]
RestTypes ==
    /\ sweep \subseteq Conns
    /\ status \in [Conns -> {"none", "alive", "dead", "closed"}]
    /\ env \in [mode : Modes, calls : 0..MaxCalls, deaths : 0..MaxDeaths]
Types == PoolTypes /\ CallTypes /\ DialTypes /\ RestTypes /\ sem \in Nat

LEMMA InitTypes == Init => Types
<1> SUFFICES ASSUME Init PROVE Types
    OBVIOUS
<1>1. PoolTypes
    <2>1. gen \in Gens
        BY ConstantTypes DEF Init, Gens
    <2>2. state \in [Gens -> StateType]
        BY InitialRecords DEF Init
    <2> QED
        BY <2>1, <2>2, Zenon DEF Init, PoolTypes
<1>2. CallTypes
    BY InitialRecords DEF Init, CallTypes, Errors, CallerOK, IdleCaller
<1>3. DialTypes
    BY InitialRecords, ConstantTypes DEF Init, DialTypes
<1>4. RestTypes
    BY ConstantTypes DEF Init, RestTypes
<1> QED
    BY <1>1, <1>2, <1>3, <1>4, ConstantTypes DEF Init, Types

(* Storing a well-typed record keeps the type of the function. *)
LEMMA SetTypes ==
    ASSUME Types
    PROVE  /\ \A g \in Gens : \A r \in StateType :
                  SetState(g, r) => state' \in [Gens -> StateType]
           /\ \A d \in Conns : \A r \in DialerType :
                  SetDialer(d, r) => dialer' \in [Conns -> DialerType]
           /\ \A u \in Callers : \A r \in CallerOK :
                  SetCaller(u, r) => caller' \in [Callers -> CallerOK]
    BY DEF Types, PoolTypes, DialTypes, CallTypes, SetState, SetDialer, SetCaller

(* The helpers that move a caller keep the callers' types. *)
LEMMA CallHelpers ==
    ASSUME Types, NEW u \in Callers
    PROVE  /\ Goto(u, "idle", NoConn) => CallTypes'
           /\ \A c \in Conns, label \in CallPc \cup {"close"} :
                  Goto(u, label, c) => CallTypes'
           /\ \A err \in Errors : Return(u, err) => CallTypes'
           /\ \A c \in Conns, new \in BOOLEAN : ReturnConn(u, c, new) => CallTypes'
           /\ Retry(u) => CallTypes'
<1> USE SetTypes
<1>0. 0 \in Gens /\ caller[u] \in CallerType
    BY ConstantTypes DEF Gens, Types, CallTypes, CallerOK
<1>1. ASSUME Goto(u, "idle", NoConn)
      PROVE  CallTypes'
    <2>1. [caller[u] EXCEPT !.pc = "idle", !.conn = NoConn] \in CallerOK
        BY <1>0, Zenon DEF CallerType, CallerOK
    <2> QED
        BY <1>1, <2>1 DEF Goto, Types, CallTypes
<1>2. ASSUME NEW c \in Conns, NEW label \in CallPc \cup {"close"}, Goto(u, label, c)
      PROVE  CallTypes'
    <2>1. [caller[u] EXCEPT !.pc = label, !.conn = c] \in CallerOK
        BY <1>0, Zenon DEF CallerType, CallerOK
    <2> QED
        BY <1>2, <2>1 DEF Goto, Types, CallTypes
<1>3. ASSUME NEW err \in Errors, Return(u, err)
      PROVE  CallTypes'
    <2>1. IdleCaller \in CallerOK
        BY InitialRecords DEF IdleCaller, CallerOK
    <2> QED
        BY <1>3, <2>1 DEF Return, Types, CallTypes
<1>4. ASSUME NEW c \in Conns, NEW new \in BOOLEAN, ReturnConn(u, c, new)
      PROVE  CallTypes'
    <2>1. [IdleCaller EXCEPT !.pc = "hold", !.conn = c] \in CallerOK
        BY <1>0, Zenon DEF IdleCaller, CallerType, CallerOK
    <2>2. created' \in [Conns -> Nat]
        <3>1. created' = created \/ created' = [created EXCEPT ![c] = @ + 1]
            BY <1>4 DEF ReturnConn
        <3>2. \A d \in Conns : created[d] + 1 \in Nat
            BY DEF Types, CallTypes
        <3>3. [created EXCEPT ![c] = @ + 1] \in [Conns -> Nat]
            BY <3>2 DEF Types, CallTypes
        <3> QED
            BY <3>1, <3>3 DEF Types, CallTypes
    <2> QED
        BY <1>4, <2>1, <2>2 DEF ReturnConn, Errors, Types, CallTypes
<1>5. ASSUME Retry(u)
      PROVE  CallTypes'
    <2>1. [IdleCaller EXCEPT !.pc = "acquire", !.ctx = caller[u].ctx] \in CallerOK
        BY <1>0, Zenon DEF IdleCaller, CallerType, CallPc, NoConn, CallerOK
    <2> QED
        BY <1>5, <2>1 DEF Retry, Types, CallTypes
<1> QED
    BY <1>1, <1>2, <1>3, <1>4, <1>5

LEMMA SlotTypes ==
    Types /\ (takeSlot \/ releaseSlot) => sem' \in Nat
    BY DEF Types, takeSlot, releaseSlot

LEMMA RemoveTypes ==
    ASSUME Types, NEW c \in Conns, removeConn(c)
    PROVE  PoolTypes'
<1>1. current \in StateType /\ gen \in Gens
    BY DEF Types, PoolTypes, current
<1>2. [current EXCEPT !.all = @ \ {c}, !.idle = Unlist(@, c)] \in StateType
    BY <1>1, UnlistType, Zenon DEF StateType
<1>3. [current EXCEPT !.all = @ \ {c}] \in StateType
    BY <1>1 DEF StateType
<1>4. [current EXCEPT !.all = @ \ {c}, !.shared = NoConn, !.claimed = FALSE]
          \in StateType
    BY <1>1, Zenon DEF StateType
<1>5. state' \in [Gens -> StateType]
    BY <1>1, <1>2, <1>3, <1>4, SetTypes DEF removeConn
<1>6. sharedDone' \subseteq Conns
    BY DEF removeConn, sharedCancel, Types, PoolTypes
<1> QED
    BY <1>5, <1>6 DEF removeConn, Types, PoolTypes

LEMMA UseSharedTypes ==
    ASSUME Types, NEW u \in Callers, current.shared # NoConn, UseShared(u)
    PROVE  PoolTypes' /\ CallTypes'
<1>1. current \in StateType /\ gen \in Gens /\ current.shared \in Conns
      /\ current.claimed \in BOOLEAN
    BY DEF Types, PoolTypes, current, StateType
<1>2. CASE Claim(u)
    <2>1. [current EXCEPT !.claimed = TRUE] \in StateType
        BY <1>1, Zenon DEF StateType
    <2>2. PoolTypes'
        BY <1>1, <1>2, <2>1, SetTypes DEF Claim, Types, PoolTypes
    <2> QED
        BY <1>1, <1>2, <2>2, CallHelpers, Zenon DEF Claim
<1>3. CASE removeConn(current.shared) /\ Goto(u, "closeretry", current.shared)
    BY <1>1, <1>3, RemoveTypes, CallHelpers DEF CallPc
<1> QED
    BY <1>2, <1>3 DEF UseShared

(* Every action of a caller keeps the types. *)
LEMMA CallerStepTypes ==
    ASSUME Types, NEW u \in Callers,
           Acquire(u) \/ CancelContext(u) \/ CallStep(u) \/ UseStep(u)
    PROVE  Types'
<1> USE SetTypes, CallHelpers
<1>0. /\ caller[u] \in CallerType /\ caller[u] \in CallerOK
      /\ caller[u].pc \notin {"idle", "acquire", "slot"} => caller[u].conn \in Conns
      /\ caller[u].gen \in Gens /\ current \in StateType /\ gen \in Gens
      /\ dials < MaxDials => dials + 1 \in Conns /\ dials + 1 \in 0..MaxDials
    BY ConstantTypes DEF Types, PoolTypes, CallTypes, DialTypes, CallerType,
       CallerOK, current, Conns
<1>1. CASE Acquire(u)
    <2>1. [caller[u] EXCEPT !.pc = "acquire"] \in CallerOK
        BY <1>0 DEF CallerType, CallPc, CallerOK
    <2>2. env' \in [mode : Modes, calls : 0..MaxCalls, deaths : 0..MaxDeaths]
        BY <1>1, ConstantTypes DEF Acquire, Types, RestTypes
    <2> QED
        BY <1>1, <2>1, <2>2 DEF Acquire, Types, PoolTypes, CallTypes, DialTypes,
           RestTypes, poolVars, dialVars
<1>2. CASE CancelContext(u)
    <2>1. [caller[u] EXCEPT !.ctx = TRUE] \in CallerOK
        BY <1>0, Zenon DEF CallerType, CallerOK
    <2>2. \A d \in Conns :
              [dialer[d] EXCEPT !.ctx = @ \/ dialer[d].by = u] \in DialerType
        BY ZenonT(60) DEF Types, DialTypes, DialerType
    <2>3. dialer' \in [Conns -> DialerType]
        BY <1>2, <2>2 DEF CancelContext
    <2> QED
        BY <1>2, <2>1, <2>3 DEF CancelContext, Types, PoolTypes, CallTypes,
           DialTypes, RestTypes, poolVars
<1>3. CASE AcquireClosed(u)
    BY <1>3 DEF AcquireClosed, Errors, Types, PoolTypes, DialTypes, RestTypes,
       poolVars, dialVars
<1>4. CASE AcquireShared(u)
    BY <1>4, UseSharedTypes DEF AcquireShared, Types, DialTypes, RestTypes, dialVars
<1>5. CASE AcquireJoin(u)
    <2>1. [caller[u] EXCEPT !.pc = "wait", !.gen = gen,
                            !.conn = current.connecting] \in CallerOK
        BY <1>0, <1>5, Zenon DEF CallerType, CallPc, StateType, CallerOK, AcquireJoin, Dialing
    <2> QED
        BY <1>5, <2>1 DEF AcquireJoin, Types, PoolTypes, CallTypes, DialTypes,
           RestTypes, poolVars, dialVars
<1>6. CASE AcquireStart(u)
    <2>1. [caller[u] EXCEPT !.pc = "wait", !.gen = gen, !.conn = dials + 1,
                            !.start = TRUE] \in CallerOK
        BY <1>0, <1>6, ZenonT(60) DEF CallerType, CallPc, CallerOK, AcquireStart
    <2>2. [current EXCEPT !.connecting = dials + 1] \in StateType
        BY <1>0, <1>6 DEF StateType, AcquireStart
    <2>3. [pc |-> "dialing", gen |-> gen, by |-> u, ctx |-> caller[u].ctx,
           err |-> "none"] \in DialerType
        BY <1>0 DEF DialerType, CallerType, Errors
    <2>4. PoolTypes' /\ CallTypes' /\ DialTypes'
        BY <1>0, <1>6, <2>1, <2>2, <2>3 DEF AcquireStart, Types, PoolTypes,
           CallTypes, DialTypes
    <2> QED
        BY <1>6, <2>4 DEF AcquireStart, Types, RestTypes
<1>7. CASE WaitDone(u)
    <2>1. caller[u].conn \in Conns
        BY <1>0, <1>7 DEF WaitDone, At
    <2>2. dialer[caller[u].conn].err \in Errors
        BY <2>1 DEF Types, DialTypes, DialerType
    <2>3. PoolTypes' /\ CallTypes'
        BY <1>7, <2>2, UseSharedTypes, ZenonT(60) DEF WaitDone, Errors, Types, PoolTypes, poolVars
    <2> QED
        BY <1>7, <2>3, ZenonT(60) DEF WaitDone, Types, DialTypes, RestTypes, dialVars
<1>8. CASE WaitContext(u)
    BY <1>8 DEF WaitContext, Errors, Types, PoolTypes, DialTypes, RestTypes,
       poolVars, dialVars
<1>9. CASE WaitState(u)
    BY <1>9 DEF WaitState, Errors, Types, PoolTypes, DialTypes, RestTypes,
       poolVars, dialVars
<1>10. CASE AcquireIdle(u)
    <2> DEFINE c == Head(current.idle)
    <2>1. current.idle \in Seq(Conns) /\ current.idle # << >>
        BY <1>0, <1>10 DEF AcquireIdle, StateType
    <2>2. c \in Conns /\ Tail(current.idle) \in Seq(Conns)
        BY <2>1
    <2> HIDE DEF c
    <2>3. [current EXCEPT !.idle = popIdle,
                          !.all = IF IsAlive(c) THEN @ ELSE @ \ {c}] \in StateType
        BY <1>0, <2>2, Zenon DEF StateType, popIdle
    <2>4. PoolTypes' /\ CallTypes'
        BY <1>0, <1>10, <2>2, <2>3, Zenon DEF AcquireIdle, CallPc, Types, PoolTypes, c
    <2> QED
        BY <1>10, <2>4 DEF AcquireIdle, Types, DialTypes, RestTypes, dialVars
<1>11. CASE AcquireDial(u)
    <2>1. [caller[u] EXCEPT !.pc = "slot", !.gen = gen] \in CallerOK
        BY <1>0, Zenon DEF CallerType, CallPc, CallerOK
    <2> QED
        BY <1>11, <2>1 DEF AcquireDial, Types, PoolTypes, CallTypes, DialTypes,
           RestTypes, poolVars, dialVars
<1>12. CASE acquireSlot(u)
    <2>1. [NoDialer EXCEPT !.gen = caller[u].gen] \in DialerType
        BY <1>0, InitialRecords DEF DialerType
    <2>2. sem' \in Nat
        BY <1>12, SlotTypes DEF acquireSlot
    <2>3. CallTypes' /\ DialTypes'
        BY <1>0, <1>12, <2>1 DEF acquireSlot, CallPc, DialTypes
    <2> QED
        BY <1>12, <2>2, <2>3 DEF acquireSlot, Types, PoolTypes, RestTypes, poolVars
<1>13. CASE acquireSlotFail(u)
    BY <1>13 DEF acquireSlotFail, SlotError, Errors, Types, PoolTypes, DialTypes,
       RestTypes, poolVars, dialVars
<1>14. CASE DialOrdered(u)
    <2>1. caller[u].conn \in Conns
        BY <1>0, <1>14 DEF DialOrdered, At
    <2>2. DialCauses(caller[u].ctx, caller[u].gen) \subseteq Errors
        BY DEF DialCauses, Errors
    <2>3. CallTypes'
        BY <1>14, <2>1, <2>2 DEF DialOrdered, Errors, CallPc
    <2>4. RestTypes' /\ sem' \in Nat
        BY <1>14, SlotTypes DEF DialOrdered, Discard, CloseConn, Types, RestTypes
    <2> QED
        BY <1>14, <2>3, <2>4 DEF DialOrdered, Types, PoolTypes, DialTypes, poolVars,
           dialVars
<1>15. CASE InstallOrdered(u)
    <2>1. caller[u].conn \in Conns /\ state[caller[u].gen] \in StateType
        BY <1>0, <1>15 DEF InstallOrdered, At, Types, PoolTypes
    <2>2. [state[caller[u].gen] EXCEPT !.all = @ \cup {caller[u].conn}] \in StateType
        BY <2>1 DEF StateType
    <2>3. PoolTypes'
        BY <1>0, <1>15, <2>2, Zenon DEF InstallOrdered, Types, PoolTypes
    <2>4. CallTypes'
        BY <1>15, <2>1, Zenon DEF InstallOrdered, CallPc
    <2>5. sem' \in Nat
        BY <1>15, SlotTypes, Zenon DEF InstallOrdered, Types
    <2> QED
        BY <1>15, <2>3, <2>4, <2>5 DEF InstallOrdered, Types, DialTypes, RestTypes, dialVars
<1>16. CASE CloseFail(u)
    <2>1. RestTypes' /\ sem' \in Nat
        BY <1>16, SlotTypes, ZenonT(60) DEF CloseFail, CloseConn, Types, RestTypes
    <2> QED
        BY <1>16, <2>1 DEF CloseFail, Errors, Types, PoolTypes, DialTypes, poolVars,
           dialVars
<1>17. CASE CloseRemoved(u)
    <2>1. RestTypes' /\ CallTypes'
        BY <1>17, ZenonT(60) DEF CloseRemoved, CloseConn, Types, RestTypes
    <2> QED
        BY <1>17, <2>1 DEF CloseRemoved, Types, PoolTypes, DialTypes, poolVars, dialVars
<1>18. CASE Invalidate(u)
    <2>1. caller[u].conn \in Conns
        BY <1>0, <1>18 DEF Invalidate, At
    <2>2. PoolTypes' /\ CallTypes'
        BY <1>18, <2>1, RemoveTypes DEF Invalidate, Types, PoolTypes, poolVars
    <2> QED
        BY <1>18, <2>2 DEF Invalidate, Types, DialTypes, RestTypes, dialVars
<1>19. CASE \E reuse \in BOOLEAN : Release(u, reuse)
    <2>1. PICK reuse \in BOOLEAN : Release(u, reuse)
        BY <1>19
    <2>2. caller[u].conn \in Conns
        BY <1>0, <2>1 DEF Release, At
    <2>3. [current EXCEPT !.idle = Append(@, caller[u].conn)] \in StateType
        <3>1. Append(current.idle, caller[u].conn) \in Seq(Conns)
            BY <1>0, <2>2 DEF StateType
        <3> QED
            BY <1>0, <3>1, Zenon DEF StateType
    <2>4. PoolTypes' /\ CallTypes'
        BY <1>0, <2>1, <2>2, <2>3, RemoveTypes DEF Release, Types, PoolTypes, poolVars
    <2> QED
        BY <2>1, <2>4 DEF Release, Types, DialTypes, RestTypes, dialVars
<1> QED
    BY <1>1, <1>2, <1>3, <1>4, <1>5, <1>6, <1>7, <1>8, <1>9, <1>10, <1>11, <1>12,
       <1>13, <1>14, <1>15, <1>16, <1>17, <1>18, <1>19 DEF CallStep, UseStep

(* So does every step of the specification. *)
LEMMA NextTypes == Types /\ [Next]_vars => Types'
<1> SUFFICES ASSUME Types, [Next]_vars PROVE Types'
    OBVIOUS
<1> USE SetTypes
<1>1. ASSUME NEW d \in Conns, ConnectDial(d)
      PROVE  Types'
    <2>1. dialer[d] \in DialerType /\ DialCauses(dialer[d].ctx, dialer[d].gen) \subseteq Errors
        BY DEF Types, DialTypes, DialCauses, Errors
    <2>2. \A err \in Errors : [dialer[d] EXCEPT !.pc = "lock", !.by = NoConn,
                                  !.ctx = FALSE, !.err = err] \in DialerType
        BY <2>1, ZenonT(60) DEF DialerType
    <2>3. DialTypes'
        BY <1>1, <2>1, <2>2, Zenon DEF ConnectDial, Types, DialTypes, Errors
    <2>4. RestTypes'
        BY <1>1, Zenon DEF ConnectDial, Discard, CloseConn, Types, RestTypes
    <2> QED
        BY <1>1, <2>3, <2>4, Zenon DEF ConnectDial, Types, PoolTypes, CallTypes, poolVars,
           callVars
<1>2. ASSUME NEW d \in Conns, ConnectInstall(d)
      PROVE  Types'
    <2> DEFINE g == dialer[d].gen
    <2> DEFINE st == [state[g] EXCEPT !.connecting = NoConn]
    <2>1. dialer[d] \in DialerType /\ g \in Gens /\ dialer[d].err \in Errors
        BY DEF Types, DialTypes, DialerType
    <2>2. st \in StateType /\ [st EXCEPT !.all = @ \cup {d}, !.shared = d] \in StateType
        <3>1. state[g] \in StateType
            BY <2>1 DEF Types, PoolTypes
        <3>2. st \in StateType
            BY <3>1 DEF StateType
        <3> QED
            BY <3>2, Zenon DEF StateType
    <2>3. \A err \in Errors, label \in {"finish", "abort"} :
              [dialer[d] EXCEPT !.pc = label, !.err = err] \in DialerType
        BY <2>1, Zenon DEF DialerType
    <2>4. PoolTypes'
        BY <1>2, <2>1, <2>2 DEF ConnectInstall, Types, PoolTypes
    <2>5. DialTypes'
        BY <1>2, <2>1, <2>3, ZenonT(60) DEF ConnectInstall, Types, DialTypes, Errors
    <2> QED
        BY <1>2, <2>4, <2>5 DEF ConnectInstall, Types, CallTypes, RestTypes, callVars
<1>3. ASSUME NEW d \in Conns, ConnectDone(d)
      PROVE  Types'
    <2>1. [dialer[d] EXCEPT !.pc = "done"] \in DialerType
        BY DEF Types, DialTypes, DialerType
    <2> QED
        BY <1>3, <2>1 DEF ConnectDone, closeDone, CloseConn, Types, PoolTypes,
           CallTypes, DialTypes, RestTypes, poolVars, callVars
<1>4. ASSUME NEW c \in Conns, ConnDies(c)
      PROVE  Types'
    <2>1. env' \in [mode : Modes, calls : 0..MaxCalls, deaths : 0..MaxDeaths]
        BY <1>4, ConstantTypes DEF ConnDies, Types, RestTypes
    <2> QED
        BY <1>4, <2>1 DEF ConnDies, Types, PoolTypes, CallTypes, DialTypes, RestTypes,
           poolVars, dialVars, callVars
<1>5. CASE Reset
    <2>1. gen' \in Gens
        BY <1>5, ConstantTypes DEF Reset, Types, PoolTypes, Gens
    <2> QED
        BY <1>5, <2>1 DEF Reset, Types, PoolTypes, CallTypes, DialTypes, RestTypes, dialVars
<1>6. CASE Close
    BY <1>6 DEF Close, Types, PoolTypes, CallTypes, DialTypes, RestTypes, dialVars
<1>7. ASSUME NEW g \in Gens, closeStateCancel(g)
      PROVE  Types'
    <2>1. Swept(g) \subseteq Conns
        BY DEF Swept, Types, PoolTypes, StateType
    <2> QED
        BY <1>7, <2>1 DEF closeStateCancel, Types, PoolTypes, CallTypes, DialTypes,
           RestTypes, dialVars, callVars
<1>8. ASSUME NEW c \in Conns, closeStateConn(c)
      PROVE  Types'
    BY <1>8 DEF closeStateConn, CloseConn, Types, PoolTypes, CallTypes, DialTypes,
       RestTypes, poolVars, dialVars, callVars
<1>9. CASE UNCHANGED vars
    BY <1>9 DEF vars, poolVars, dialVars, callVars, Types, PoolTypes, CallTypes,
       DialTypes, RestTypes
<1> QED
    BY <1>1, <1>2, <1>3, <1>4, <1>5, <1>6, <1>7, <1>8, <1>9, CallerStepTypes
       DEF Next, ConnectStep, closeStateStep
=============================================================================
