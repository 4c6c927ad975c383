--------------------------- MODULE ConnPoolLeaks ----------------------------
(***************************************************************************)
(* ConnPool leaks no connection.                                           *)
(***************************************************************************)
EXTENDS ConnPoolTypes

(* The SMT solver gets a minute for a leaf that names no other prover. *)
USE SMTT(60)

(* No connection leaks.  What makes NoLeak inductive: only generations that *)
(* were retired are cancelled, so a connection is never installed in a      *)
(* generation that has been swept; and a dial that has not begun has no     *)
(* goroutine, so starting it takes no connection out of one's hands.        *)
Supports ==
    /\ \A g \in cancelled : g <= gen /\ Retired(g)
    /\ \A d \in Conns : d > dials => dialer[d].pc = "none"

(* The four ways to be owned. *)
Tracked(c) == \E g \in Gens \ cancelled : c \in state[g].all
DialerHas(c) ==
    dialer[c].pc = "abort" \/ (dialer[c].pc = "lock" /\ dialer[c].err = "none")
HandPc == {"close", "closeretry", "install", "closefail"}
Passes(r, c) == r.conn = c /\ r.pc \in HandPc
InHand(u, c) == Passes(caller[u], c)

LEMMA OwnedParts ==
    ASSUME NEW c
    PROVE  /\ Owned(c) <=> \/ Tracked(c) \/ c \in sweep \/ DialerHas(c)
                            \/ \E u \in Callers : InHand(u, c)
           /\ Owned(c)' <=> \/ Tracked(c)' \/ c \in sweep' \/ DialerHas(c)'
                             \/ \E u \in Callers : InHand(u, c)'
    BY DEF Owned, Tracked, DialerHas, InHand, HandPc, Passes

(* A caller never retires or cancels a generation. *)
LEMMA CallerFrame ==
    ASSUME NEW u, Acquire(u) \/ CancelContext(u) \/ CallStep(u) \/ UseStep(u)
    PROVE  UNCHANGED <<closed, gen, cancelled, sweep>>
<1>1. CASE AcquireShared(u) \/ WaitDone(u)
    BY <1>1 DEF AcquireShared, WaitDone, UseShared, Claim, removeConn, poolVars
<1>2. CASE UseStep(u)
    BY <1>2 DEF UseStep, Release, Invalidate, removeConn, poolVars
<1> QED
    BY <1>1, <1>2, ZenonT(60) DEF CallStep, Acquire, CancelContext, AcquireClosed, AcquireJoin,
       AcquireStart, WaitContext, WaitState, AcquireIdle, AcquireDial, acquireSlot,
       acquireSlotFail, DialOrdered, InstallOrdered, CloseFail, CloseRemoved, poolVars

LEMMA NextSupports == Types /\ Supports /\ [Next]_vars => Supports'
<1> SUFFICES ASSUME Types, Supports, [Next]_vars PROVE Supports'
    OBVIOUS
<1>0. gen \in Nat /\ cancelled \subseteq Nat /\ dials \in Nat /\ Conns \subseteq Nat
      /\ DOMAIN dialer = Conns /\ dialer \in [Conns -> DialerType]
    BY ConstantTypes DEF Types, PoolTypes, DialTypes, Gens, Conns
<1>1. \A g \in cancelled' : g <= gen' /\ Retired(g)'
    <2>1. CASE Reset
        BY <1>0, <2>1 DEF Reset, Supports, Retired
    <2>2. CASE Close
        BY <2>2 DEF Close, Supports, Retired
    <2>3. ASSUME NEW g \in Gens, closeStateCancel(g) PROVE \A h \in cancelled' : h <= gen' /\ Retired(h)'
        BY <2>3 DEF closeStateCancel, Supports, Retired
    <2>4. CASE UNCHANGED <<closed, gen, cancelled>>
        BY <2>4 DEF Supports, Retired
    <2> QED
        BY <2>1, <2>2, <2>3, <2>4, CallerFrame, ZenonT(60) DEF Next, ConnectStep, closeStateStep,
           ConnectDial, ConnectInstall, ConnectDone, ConnDies, closeStateConn, vars,
           poolVars
<1>2. \A d \in Conns : d > dials' => dialer'[d].pc = "none"
    <2>1. CASE UNCHANGED dialVars
        BY <2>1 DEF dialVars, Supports
    <2>2. ASSUME NEW u \in Callers, AcquireStart(u) \/ acquireSlot(u)
          PROVE  \A d \in Conns : d > dials' => dialer'[d].pc = "none"
        BY <1>0, <2>2 DEF AcquireStart, acquireSlot, SetDialer, Supports
    <2>3. ASSUME NEW u \in Callers, CancelContext(u)
          PROVE  \A d \in Conns : d > dials' => dialer'[d].pc = "none"
        <3>1. \A d \in Conns : dialer'[d].pc = dialer[d].pc
            BY <1>0, <2>3 DEF CancelContext, DialerType
        <3> QED
            BY <2>3, <3>1 DEF CancelContext, Supports
    <2>4. ASSUME NEW d \in Conns, ConnectStep(d)
          PROVE  \A e \in Conns : e > dials' => dialer'[e].pc = "none"
        BY <1>0, <2>4, Zenon DEF ConnectStep, ConnectDial, ConnectInstall, ConnectDone,
           closeDone, SetDialer, Supports
    <2> QED
        BY <2>1, <2>2, <2>3, <2>4, ZenonT(60) DEF Next, CallStep, UseStep, closeStateStep,
           Acquire, AcquireClosed, AcquireShared, AcquireJoin, WaitDone, WaitContext,
           WaitState, AcquireIdle, AcquireDial, acquireSlotFail, DialOrdered,
           InstallOrdered, CloseFail, Release, Invalidate, CloseRemoved, ConnDies,
           Reset, Close, closeStateCancel, closeStateConn, vars
<1> QED
    BY <1>1, <1>2 DEF Supports

(* Taking x off the current generation leaves the others tracked. *)
LEMMA TrackedRemove ==
    ASSUME Types, NEW x, NEW c \in Conns, Tracked(c), c # x,
           removeConn(x)
    PROVE  Tracked(c)'
<1>1. PICK g \in Gens \ cancelled : c \in state[g].all
    BY DEF Tracked
<1>2. current \in StateType /\ current = state[gen] /\ gen \in Gens
    BY DEF Types, PoolTypes, current
<1>3. \A r : SetState(gen, r) /\ r.all = current.all \ {x} => c \in state'[g].all
    BY <1>1, <1>2 DEF SetState, Types, PoolTypes
<1>4. /\ [current EXCEPT !.all = @ \ {x}, !.shared = NoConn, !.claimed = FALSE].all
             = current.all \ {x}
      /\ [current EXCEPT !.all = @ \ {x}].all = current.all \ {x}
      /\ [current EXCEPT !.all = @ \ {x}, !.idle = Unlist(@, x)].all = current.all \ {x}
    BY <1>2 DEF StateType
<1>5. c \in state'[g].all /\ cancelled' = cancelled
    BY <1>3, <1>4, Zenon DEF removeConn
<1> QED
    BY <1>1, <1>5 DEF Tracked

(* A record that keeps the tracked connections keeps them tracked. *)
LEMMA TrackedSet ==
    ASSUME Types, NEW g \in Gens, NEW r, SetState(g, r), cancelled' = cancelled,
           NEW c \in Conns
    PROVE  /\ Tracked(c) /\ (c \in state[g].all => c \in r.all) => Tracked(c)'
           /\ c \in r.all /\ g \notin cancelled => Tracked(c)'
    BY DEF Tracked, SetState, Types, PoolTypes

LEMMA CallerNoLeak ==
    ASSUME Types, Supports, NoLeak, NEW u \in Callers, NEW c \in Conns,
           Acquire(u) \/ CancelContext(u) \/ CallStep(u) \/ UseStep(u)
    PROVE  Open(c)' => Owned(c)'
<1>0. /\ Open(c) => Owned(c)
      /\ caller[u] \in CallerType /\ caller[u] \in CallerOK
      /\ gen \in Gens /\ current \in StateType
      /\ UNCHANGED <<closed, gen, cancelled, sweep>>
    BY CallerFrame DEF NoLeak, Types, PoolTypes, CallTypes, CallerOK, current
<1>f. /\ status' = status => (Open(c)' <=> Open(c))
      /\ state' = state => (Tracked(c)' <=> Tracked(c))
      /\ dialer' = dialer => (DialerHas(c)' <=> DialerHas(c))
    BY <1>0 DEF Open, Tracked, DialerHas
(* A move keeps c owned when what the caller gives up it passes on. *)
<1>m. ASSUME NEW r, SetCaller(u, r),
             Open(c)' => Open(c) \/ Passes(r, c),
             DialerHas(c) => DialerHas(c)',
             Tracked(c) => Tracked(c)' \/ Passes(r, c),
             InHand(u, c) => Tracked(c)' \/ ~Open(c)' \/ Passes(r, c)
      PROVE  Open(c)' => Owned(c)'
    <2>1. InHand(u, c)' <=> Passes(r, c)
        BY <1>m DEF InHand, Passes, SetCaller, Types, CallTypes
    <2>2. \A v \in Callers : v # u => (InHand(v, c)' <=> InHand(v, c))
        BY <1>m DEF InHand, Passes, SetCaller, Types, CallTypes
    <2>3. Open(c) => Tracked(c) \/ c \in sweep \/ DialerHas(c)
                     \/ \E v \in Callers : InHand(v, c)
        BY <1>0, OwnedParts
    <2>4. Open(c)' => Tracked(c)' \/ c \in sweep' \/ DialerHas(c)'
                      \/ \E v \in Callers : InHand(v, c)'
        BY <1>0, <1>m, <2>1, <2>2, <2>3
    <2> QED
        BY <2>4, OwnedParts
(* Nothing but the caller moves, and it gives up nothing. *)
<1>1. ASSUME NEW r, SetCaller(u, r), state' = state, status' = status,
             dialer' = dialer, InHand(u, c) => Passes(r, c)
      PROVE  Open(c)' => Owned(c)'
    BY <1>m, <1>1, <1>f
<1>2. CASE Acquire(u)
    <2> DEFINE r == [caller[u] EXCEPT !.pc = "acquire"]
    <2>1. SetCaller(u, r) /\ ~InHand(u, c)
        BY <1>2 DEF Acquire, At, InHand, Passes, HandPc
    <2> QED
        BY <1>1, <1>2, <2>1 DEF Acquire, poolVars, dialVars
<1>3. CASE CancelContext(u)
    <2> DEFINE r == [caller[u] EXCEPT !.ctx = TRUE]
    <2>1. SetCaller(u, r) /\ r.conn = caller[u].conn /\ r.pc = caller[u].pc
        BY <1>0, <1>3 DEF CancelContext, CallerType
    <2>2. dialer'[c].pc = dialer[c].pc /\ dialer'[c].err = dialer[c].err
        BY <1>3 DEF CancelContext, Types, DialTypes, DialerType
    <2>3. status' = status /\ state' = state /\ (DialerHas(c)' <=> DialerHas(c))
        BY <1>3, <2>2 DEF CancelContext, poolVars, DialerHas
    <2>4. InHand(u, c) => Passes(r, c)
        BY <2>1 DEF InHand, Passes
    <2> HIDE DEF r
    <2> QED
        BY <1>m, <1>f, <2>1, <2>3, <2>4
<1>4. CASE AcquireClosed(u) \/ WaitContext(u) \/ WaitState(u) \/ acquireSlotFail(u)
    <2>1. ~InHand(u, c)
        BY <1>4, Zenon DEF AcquireClosed, WaitContext, WaitState, acquireSlotFail, At, InHand,
           Passes, HandPc
    <2>2. \E r : SetCaller(u, r)
        BY <1>4 DEF AcquireClosed, WaitContext, WaitState, acquireSlotFail, Return, Retry
    <2> QED
        BY <1>1, <1>4, <2>1, <2>2 DEF AcquireClosed, WaitContext, WaitState,
           acquireSlotFail, poolVars, dialVars
<1>5. CASE AcquireJoin(u) \/ AcquireDial(u)
    <2>1. ~InHand(u, c)
        BY <1>5 DEF AcquireJoin, AcquireDial, At, InHand, Passes, HandPc
    <2>2. \E r : SetCaller(u, r)
        BY <1>5 DEF AcquireJoin, AcquireDial
    <2> QED
        BY <1>1, <1>5, <2>1, <2>2 DEF AcquireJoin, AcquireDial, poolVars, dialVars
<1>6. CASE AcquireStart(u)
    <2> DEFINE r == [caller[u] EXCEPT !.pc = "wait", !.gen = gen,
                                      !.conn = dials + 1, !.start = TRUE]
    <2> DEFINE st == [current EXCEPT !.connecting = dials + 1]
    <2>1. SetCaller(u, r) /\ ~InHand(u, c)
        BY <1>6 DEF AcquireStart, At, InHand, Passes, HandPc
    <2>2. SetState(gen, st) /\ st.all = state[gen].all
        BY <1>0, <1>6 DEF AcquireStart, StateType, current
    <2>3. Tracked(c) => Tracked(c)'
        BY <1>0, <2>2, TrackedSet, Zenon
    <2>4. dials + 1 > dials
        BY DEF Types, DialTypes
    <2>5. DialerHas(c) => DialerHas(c)'
        BY <1>6, <2>4 DEF AcquireStart, SetDialer, DialerHas, Supports, Types, DialTypes
    <2>6. status' = status
        BY <1>6 DEF AcquireStart
    <2> HIDE DEF r, st
    <2> QED
        BY <1>m, <1>f, <2>1, <2>3, <2>5, <2>6
<1>7. ASSUME UseShared(u), UNCHANGED <<status, dialer>>, current.shared # NoConn,
             ~InHand(u, c)
      PROVE  Open(c)' => Owned(c)'
    <2>1. CASE Claim(u)
        <3> DEFINE r == [IdleCaller EXCEPT !.pc = "hold", !.conn = current.shared]
        <3> DEFINE st == [current EXCEPT !.claimed = TRUE]
        <3>1. SetCaller(u, r) /\ SetState(gen, st) /\ st.all = state[gen].all
            BY <1>0, <2>1 DEF Claim, ReturnConn, StateType, current
        <3>2. Tracked(c) => Tracked(c)'
            BY <1>0, <3>1, TrackedSet, Zenon
        <3> HIDE DEF r, st
        <3> QED
            BY <1>m, <1>f, <1>7, <3>1, <3>2
    <2>2. CASE removeConn(current.shared) /\ Goto(u, "closeretry", current.shared)
        <3> DEFINE r == [caller[u] EXCEPT !.pc = "closeretry", !.conn = current.shared]
        <3>1. SetCaller(u, r) /\ r.pc = "closeretry" /\ r.conn = current.shared
            BY <1>0, <2>2 DEF Goto, CallerType
        <3>2. Tracked(c) => Tracked(c)' \/ c = current.shared
            BY <2>2, TrackedRemove
        <3> HIDE DEF r
        <3> QED
            BY <1>m, <1>f, <1>7, <3>1, <3>2 DEF Passes, HandPc
    <2> QED
        BY <1>7, <2>1, <2>2 DEF UseShared
<1>8. CASE AcquireShared(u)
    BY <1>7, <1>8 DEF AcquireShared, At, InHand, Passes, HandPc, dialVars
<1>9. CASE WaitDone(u)
    <2>1. ~InHand(u, c)
        BY <1>9 DEF WaitDone, At, InHand, Passes, HandPc
    <2>2. CASE UseShared(u) /\ current.shared # NoConn
        BY <1>7, <1>9, <2>1, <2>2, ZenonT(60) DEF WaitDone, dialVars
    <2>3. CASE UNCHANGED poolVars /\ \E r : SetCaller(u, r)
        BY <1>1, <1>9, <2>1, <2>3, ZenonT(60) DEF WaitDone, poolVars, dialVars
    <2> QED
        BY <1>9, <2>2, <2>3 DEF WaitDone, Return, Retry
<1>10. CASE AcquireIdle(u)
    <2> DEFINE x == Head(current.idle)
    <2> DEFINE st == [current EXCEPT !.idle = popIdle,
                                     !.all = IF IsAlive(x) THEN @ ELSE @ \ {x}]
    <2>1. ~InHand(u, c) /\ SetState(gen, st) /\ status' = status /\ dialer' = dialer
        BY <1>10 DEF AcquireIdle, At, InHand, Passes, HandPc, dialVars
    <2>2. st.all = IF IsAlive(x) THEN state[gen].all ELSE state[gen].all \ {x}
        BY <1>0 DEF StateType, current
    <2> HIDE DEF x, st
    <2>3. Tracked(c) => Tracked(c)' \/ (c = x /\ ~IsAlive(x))
        <3>1. c \in state[gen].all => c \in st.all \/ (c = x /\ ~IsAlive(x))
            BY <2>2
        <3> QED
            BY <1>0, <2>1, <3>1, TrackedSet
    <2>4. CASE IsAlive(x)
        <3>1. PICK r : SetCaller(u, r)
            BY <1>10, <2>4 DEF AcquireIdle, ReturnConn, x
        <3> QED
            BY <1>m, <1>f, <2>1, <2>3, <2>4, <3>1
    <2>5. CASE ~IsAlive(x)
        <3> DEFINE r == [caller[u] EXCEPT !.pc = "closeretry", !.conn = x]
        <3>1. SetCaller(u, r) /\ r.pc = "closeretry" /\ r.conn = x
            BY <1>0, <1>10, <2>5 DEF AcquireIdle, Goto, CallerType, x
        <3> HIDE DEF r
        <3> QED
            BY <1>m, <1>f, <2>1, <2>3, <3>1 DEF Passes, HandPc
    <2> QED
        BY <2>4, <2>5
<1>11. CASE acquireSlot(u)
    <2>1. PICK r : SetCaller(u, r)
        BY <1>11 DEF acquireSlot, Goto
    <2>2. ~InHand(u, c) /\ status' = status /\ state' = state
        BY <1>11 DEF acquireSlot, At, InHand, Passes, HandPc, poolVars
    <2>3. dials + 1 > dials
        BY DEF Types, DialTypes
    <2>4. DialerHas(c) => DialerHas(c)'
        BY <1>11, <2>3 DEF acquireSlot, SetDialer, DialerHas, Supports, Types, DialTypes
    <2> QED
        BY <1>m, <1>f, <2>1, <2>2, <2>4
<1>12. CASE DialOrdered(u)
    <2>1. ~InHand(u, c) /\ state' = state /\ dialer' = dialer
        BY <1>12, Zenon DEF DialOrdered, At, InHand, Passes, HandPc, poolVars, dialVars
    <2>2. CASE \E err : Return(u, err) /\ (UNCHANGED status \/ Discard(caller[u].conn))
        <3>1. PICK r : SetCaller(u, r)
            BY <2>2 DEF Return
        <3>2. Open(c)' => Open(c)
            BY <2>2 DEF Discard, CloseConn, Open, Types, RestTypes
        <3> QED
            BY <1>m, <1>f, <2>1, <3>1, <3>2
    <2>3. CASE /\ Goto(u, "install", caller[u].conn)
               /\ status' = [status EXCEPT ![caller[u].conn] = "alive"]
        <3> DEFINE r == [caller[u] EXCEPT !.pc = "install", !.conn = caller[u].conn]
        <3>1. SetCaller(u, r) /\ r.pc = "install" /\ r.conn = caller[u].conn
            BY <1>0, <2>3 DEF Goto, CallerType
        <3>2. Open(c)' => Open(c) \/ c = caller[u].conn
            BY <2>3 DEF Open, Types, RestTypes
        <3> HIDE DEF r
        <3> QED
            BY <1>m, <1>f, <2>1, <3>1, <3>2, Zenon DEF Passes, HandPc
    <2> QED
        BY <1>12, <2>2, <2>3 DEF DialOrdered
<1>13. CASE InstallOrdered(u)
    <2>1. status' = status /\ dialer' = dialer /\ caller[u].gen \in Gens
        BY <1>0, <1>13 DEF InstallOrdered, dialVars, CallerType
    <2>2. CASE Retired(caller[u].gen)
        <3> DEFINE r == [caller[u] EXCEPT !.pc = "closefail", !.conn = caller[u].conn]
        <3>1. SetCaller(u, r) /\ r.pc = "closefail" /\ r.conn = caller[u].conn
              /\ state' = state
            BY <1>0, <1>13, <2>2 DEF InstallOrdered, Goto, CallerType
        <3>2. InHand(u, c) => Passes(r, c)
            BY <3>1 DEF InHand, Passes, HandPc
        <3> HIDE DEF r
        <3> QED
            BY <1>m, <1>f, <2>1, <3>1, <3>2, Zenon
    <2>3. CASE ~Retired(caller[u].gen)
        <3> DEFINE st == [state[caller[u].gen] EXCEPT !.all = @ \cup {caller[u].conn}]
        <3>1. PICK r : SetCaller(u, r)
            BY <1>13, <2>3 DEF InstallOrdered, ReturnConn
        <3>2. SetState(caller[u].gen, st)
              /\ st.all = state[caller[u].gen].all \cup {caller[u].conn}
            BY <1>13, <2>1, <2>3 DEF InstallOrdered, Types, PoolTypes, StateType
        <3>3. caller[u].gen \notin cancelled
            BY <2>3 DEF Supports
        <3> HIDE DEF st
        <3>4. (Tracked(c) => Tracked(c)') /\ (InHand(u, c) => Tracked(c)')
            BY <1>0, <2>1, <3>2, <3>3, TrackedSet, ZenonT(60) DEF InHand, Passes
        <3> QED
            BY <1>m, <1>f, <2>1, <3>1, <3>4
    <2> QED
        BY <2>2, <2>3
<1>14. CASE CloseFail(u) \/ CloseRemoved(u)
    <2>1. CloseConn(caller[u].conn) /\ state' = state /\ dialer' = dialer
        BY <1>14, Zenon DEF CloseFail, CloseRemoved, poolVars, dialVars
    <2>2. PICK r : SetCaller(u, r)
        BY <1>14 DEF CloseFail, CloseRemoved, Return, Goto, Retry
    <2>3. (Open(c)' => Open(c)) /\ (InHand(u, c) => ~Open(c)')
        BY <2>1 DEF CloseConn, Open, InHand, Passes, Types, RestTypes
    <2> QED
        BY <1>m, <1>f, <2>1, <2>2, <2>3
(* Release and Invalidate: the connection that is removed is in hand. *)
<1>15. ASSUME At(u, "hold"), UNCHANGED <<status, dialer>>,
              \/ removeConn(caller[u].conn) /\ Goto(u, "close", caller[u].conn)
              \/ UNCHANGED state /\ \E label, x : Goto(u, label, x)
       PROVE  Open(c)' => Owned(c)'
    <2>1. ~InHand(u, c)
        BY <1>15 DEF At, InHand, Passes, HandPc
    <2>2. CASE removeConn(caller[u].conn) /\ Goto(u, "close", caller[u].conn)
        <3> DEFINE r == [caller[u] EXCEPT !.pc = "close", !.conn = caller[u].conn]
        <3>1. SetCaller(u, r) /\ r.pc = "close" /\ r.conn = caller[u].conn
            BY <1>0, <2>2 DEF Goto, CallerType
        <3>2. Tracked(c) => Tracked(c)' \/ c = caller[u].conn
            BY <2>2, TrackedRemove
        <3> HIDE DEF r
        <3> QED
            BY <1>m, <1>f, <1>15, <2>1, <3>1, <3>2, ZenonT(60) DEF Passes, HandPc
    <2>3. CASE UNCHANGED state /\ \E label, x : Goto(u, label, x)
        <3>1. PICK r : SetCaller(u, r)
            BY <2>3 DEF Goto
        <3> QED
            BY <1>m, <1>f, <1>15, <2>1, <2>3, <3>1
    <2> QED
        BY <1>15, <2>2, <2>3
<1>16. CASE Invalidate(u)
    BY <1>15, <1>16, Zenon DEF Invalidate, poolVars, dialVars
<1>17. ASSUME NEW reuse, Release(u, reuse)
       PROVE  Open(c)' => Owned(c)'
    <2>1. At(u, "hold") /\ status' = status /\ dialer' = dialer
        BY <1>17 DEF Release, dialVars
    <2>2. CASE \/ removeConn(caller[u].conn) /\ Goto(u, "close", caller[u].conn)
               \/ UNCHANGED state /\ \E label, x : Goto(u, label, x)
        BY <1>15, <2>1, <2>2
    <2>3. CASE /\ SetState(gen, [current EXCEPT !.idle = Append(@, caller[u].conn)])
               /\ Goto(u, "idle", NoConn)
        <3> DEFINE st == [current EXCEPT !.idle = Append(@, caller[u].conn)]
        <3>1. SetState(gen, st) /\ st.all = state[gen].all
            BY <1>0, <2>3 DEF StateType, current
        <3>2. PICK r : SetCaller(u, r)
            BY <2>3 DEF Goto
        <3>3. ~InHand(u, c)
            BY <2>1 DEF At, InHand, Passes, HandPc
        <3> HIDE DEF st
        <3>4. Tracked(c) => Tracked(c)'
            BY <1>0, <3>1, TrackedSet, ZenonT(60)
        <3> QED
            BY <1>m, <1>f, <2>1, <3>2, <3>3, <3>4
    <2> QED
        BY <1>17, <2>2, <2>3 DEF Release, poolVars
<1> QED
    BY <1>2, <1>3, <1>4, <1>5, <1>6, <1>8, <1>9, <1>10, <1>11, <1>12, <1>13, <1>14,
       <1>16, <1>17 DEF CallStep, UseStep

LEMMA NextNoLeak == Types /\ Supports /\ NoLeak /\ [Next]_vars => NoLeak'
<1> SUFFICES ASSUME Types, Supports, NoLeak, [Next]_vars, NEW c \in Conns
             PROVE  Open(c)' => Owned(c)'
    BY DEF NoLeak
<1>0. /\ Open(c) => Tracked(c) \/ c \in sweep \/ DialerHas(c)
                     \/ \E u \in Callers : InHand(u, c)
      /\ Tracked(c)' \/ c \in sweep' \/ DialerHas(c)'
                     \/ (\E u \in Callers : InHand(u, c)') => Owned(c)'
    BY OwnedParts DEF NoLeak
<1>f. /\ status' = status => (Open(c)' <=> Open(c))
      /\ state' = state /\ cancelled' = cancelled => (Tracked(c)' <=> Tracked(c))
      /\ dialer' = dialer => (DialerHas(c)' <=> DialerHas(c))
      /\ caller' = caller => \A u \in Callers : InHand(u, c)' <=> InHand(u, c)
    BY DEF Open, Tracked, DialerHas, InHand, Passes
<1>1. ASSUME NEW d \in Conns, ConnectDial(d)
      PROVE  Open(c)' => Owned(c)'
    <2>1. UNCHANGED <<state, cancelled, sweep, caller>>
        BY <1>1, ZenonT(60) DEF ConnectDial, poolVars, callVars
    <2>2. CASE c # d
        <3>1. dialer'[c] = dialer[c] /\ status'[c] = status[c]
            BY <1>1, <2>2, ZenonT(60) DEF ConnectDial, SetDialer, Discard, CloseConn, Types,
               DialTypes, RestTypes
        <3>2. (DialerHas(c)' <=> DialerHas(c)) /\ (Open(c)' <=> Open(c))
            BY <3>1 DEF DialerHas, Open
        <3> QED
            BY <1>0, <1>f, <2>1, <3>2
    <2>3. CASE c = d /\ (status' = status \/ CloseConn(c))
        <3>1. ~DialerHas(c) /\ (Open(c)' => Open(c))
            BY <1>1, <2>3, Zenon DEF ConnectDial, DialerHas, CloseConn, Open, Types, RestTypes
        <3> QED
            BY <1>0, <1>f, <2>1, <3>1
    <2>4. CASE /\ c = d
               /\ SetDialer(d, [dialer[d] EXCEPT !.pc = "lock", !.by = NoConn,
                                                 !.ctx = FALSE, !.err = "none"])
        <3>1. DialerHas(c)'
            BY <2>4 DEF SetDialer, DialerHas, Types, DialTypes, DialerType
        <3> QED
            BY <1>0, <3>1
    <2> QED
        BY <1>1, <2>2, <2>3, <2>4, ZenonT(60) DEF ConnectDial, Discard
<1>2. ASSUME NEW d \in Conns, ConnectInstall(d)
      PROVE  Open(c)' => Owned(c)'
    <2> DEFINE g == dialer[d].gen
    <2>0. UNCHANGED <<cancelled, sweep, status, caller>> /\ g \in Gens
          /\ dialer[d] \in DialerType /\ state[g] \in StateType
        BY <1>2 DEF ConnectInstall, callVars, Types, PoolTypes, DialTypes, DialerType
    <2> DEFINE st == [state[g] EXCEPT !.connecting = NoConn]
    <2> DEFINE installed == dialer[d].err = "none" /\ ~Retired(g)
    <2> DEFINE r == IF installed THEN [st EXCEPT !.all = @ \cup {d}, !.shared = d]
                                 ELSE st
    <2>1. /\ SetState(g, r)
          /\ r.all = IF installed THEN state[g].all \cup {d} ELSE state[g].all
          /\ installed \/ dialer[d].err # "none" \/ dialer'[d].pc = "abort"
        <3>1. st.all = state[g].all
              /\ [st EXCEPT !.all = @ \cup {d}, !.shared = d].all = state[g].all \cup {d}
            BY <2>0 DEF StateType
        <3>2. SetState(g, r)
            BY <1>2 DEF ConnectInstall
        <3>3. dialer[d].err = "none" /\ Retired(g) => dialer'[d].pc = "abort"
            BY <1>2, <2>0, ZenonT(60) DEF ConnectInstall, SetDialer, DialerType, Types, DialTypes
        <3> QED
            BY <3>1, <3>2, <3>3
    <2> HIDE DEF r
    <2>2. Tracked(c) => Tracked(c)'
        BY <2>0, <2>1, TrackedSet
    <2>3. DialerHas(c) => DialerHas(c)' \/ Tracked(c)'
        <3>1. CASE c # d
            <4>1. dialer'[c] = dialer[c]
                BY <1>2, <3>1 DEF ConnectInstall, SetDialer, Types, DialTypes
            <4> QED
                BY <4>1 DEF DialerHas
        <3>2. CASE c = d
            <4>1. DialerHas(c) => dialer[d].err = "none"
                BY <1>2, <3>2 DEF ConnectInstall, DialerHas
            <4>2. ~Retired(g) => g \notin cancelled
                BY DEF Supports
            <4>3. c \in r.all /\ g \notin cancelled => Tracked(c)'
                BY <2>0, <2>1, TrackedSet, ZenonT(60)
            <4>4. dialer'[d].pc = "abort" => DialerHas(c)'
                BY <3>2 DEF DialerHas
            <4> QED
                BY <2>1, <3>2, <4>1, <4>2, <4>3, <4>4, ZenonT(60)
        <3> QED
            BY <3>1, <3>2
    <2> QED
        BY <1>0, <1>f, <2>0, <2>2, <2>3
<1>3. ASSUME NEW d \in Conns, ConnectDone(d)
      PROVE  Open(c)' => Owned(c)'
    <2>1. UNCHANGED <<state, cancelled, sweep, caller>>
        BY <1>3 DEF ConnectDone, poolVars, callVars
    <2>2. Open(c)' => Open(c)
        BY <1>3 DEF ConnectDone, CloseConn, Open, Types, RestTypes
    <2>3. DialerHas(c) => DialerHas(c)' \/ ~Open(c)'
        BY <1>3 DEF ConnectDone, closeDone, SetDialer, CloseConn, DialerHas, Open,
           Types, RestTypes, DialTypes
    <2> QED
        BY <1>0, <1>f, <2>1, <2>2, <2>3
<1>4. ASSUME NEW x \in Conns, ConnDies(x)
      PROVE  Open(c)' => Owned(c)'
    <2>1. Open(c)' => Open(c)
        BY <1>4 DEF ConnDies, Open, Types, RestTypes
    <2> QED
        BY <1>0, <1>4, <1>f, <2>1 DEF ConnDies, poolVars, dialVars, callVars
<1>5. CASE Reset \/ Close \/ UNCHANGED vars
    BY <1>0, <1>5, <1>f DEF Reset, Close, vars, poolVars, dialVars, callVars
<1>6. ASSUME NEW g \in Gens, closeStateCancel(g)
      PROVE  Open(c)' => Owned(c)'
    <2>1. Tracked(c) => Tracked(c)' \/ c \in sweep'
        BY <1>6, Zenon DEF closeStateCancel, Swept, Tracked
    <2>2. sweep \subseteq sweep' /\ UNCHANGED <<status, dialer, caller>>
        BY <1>6 DEF closeStateCancel, dialVars, callVars
    <2> QED
        BY <1>0, <1>f, <2>1, <2>2
<1>7. ASSUME NEW x \in Conns, closeStateConn(x)
      PROVE  Open(c)' => Owned(c)'
    <2>1. UNCHANGED <<state, cancelled, dialer, caller>> /\ (c # x => (c \in sweep <=> c \in sweep'))
        BY <1>7 DEF closeStateConn, poolVars, dialVars, callVars
    <2>2. (Open(c)' => Open(c)) /\ (c = x => ~Open(c)')
        BY <1>7 DEF closeStateConn, CloseConn, Open, Types, RestTypes
    <2> QED
        BY <1>0, <1>f, <2>1, <2>2
<1> QED
    BY <1>1, <1>2, <1>3, <1>4, <1>5, <1>6, <1>7, CallerNoLeak DEF Next, ConnectStep,
       closeStateStep

(* No interleaving of Acquire, Release, Invalidate, Reset and Close loses  *)
(* sight of an open connection, for any number of callers, dials, resets.  *)
THEOREM NoLeakTheorem == Spec => []NoLeak
<1>1. Init => Types /\ Supports /\ NoLeak
    <2>1. Init => Supports
        BY ConstantTypes DEF Init, Supports, NoDialer
    <2>2. Init => NoLeak
        BY DEF Init, NoLeak, Open
    <2> QED
        BY <2>1, <2>2, InitTypes
<1>2. Types /\ Supports /\ NoLeak /\ [Next]_vars => (Types /\ Supports /\ NoLeak)'
    BY NextTypes, NextSupports, NextNoLeak
<1> QED
    BY <1>1, <1>2, PTL DEF Spec
=============================================================================
