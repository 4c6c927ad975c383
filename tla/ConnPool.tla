------------------------------ MODULE ConnPool ------------------------------
(***************************************************************************)
(* The connection pool of the UDP, TLS and QUIC DNS transports             *)
(* (dns/transport/conn_pool.go).  In "single" mode all callers share one   *)
(* connection, dialled by a goroutine of its own (connectSingle); in       *)
(* "ordered" mode a connection belongs to one caller at a time and rests   *)
(* on a FIFO list of idle connections in between.                          *)
(*                                                                         *)
(* The pool's mutable part is a connPoolState, a generation here: Reset    *)
(* and Close replace it under the lock and take the old one down outside   *)
(* the lock.  Every critical section of p.access is one step; what the     *)
(* code does after unlocking (closing a connection, cancelling a           *)
(* generation's context, closing a done channel) is a step of its own.     *)
(* A dial and the connection it may yield have the same identity.          *)
(***************************************************************************)
EXTENDS Integers, Sequences, FiniteSets, Functions

CONSTANTS Callers,      \* goroutines that use the pool, one call at a time
          Modes,        \* the modes a pool may have been built with
          MaxInflight,  \* concurrent dials in ordered mode; 0 for no limit
          MaxDials,     \* bound: dials in a behaviour
          MaxResets,    \* bound: calls of Reset
          MaxCalls,     \* bound: calls of Acquire
          MaxDeaths     \* bound: connections that die by themselves

ASSUME PoolAssumption ==
    /\ Modes \subseteq {"single", "ordered"}
    /\ {MaxInflight, MaxDials, MaxResets, MaxCalls, MaxDeaths} \subseteq Nat
    /\ IsFiniteSet(Callers)

Conns  == 1..MaxDials
Gens   == 0..MaxResets
NoConn == 0

VARIABLES
    closed,     \* p.closed
    gen,        \* p.state, as the number of the current generation
    state,      \* state[g]: the connPoolState of generation g
    cancelled,  \* generations whose context is cancelled
    sharedDone, \* connections whose sharedCancel has been called
    sem,        \* free slots of the semaphore
    sweep,      \* connections closeState still has to close
    status,     \* status[c]: a connection's life
    dials,      \* dials started so far
    dialer,     \* dialer[d]: the goroutine of connectSingle
    caller,     \* caller[u]: a caller's place in the code and its locals
    ret,        \* the error of the call that returned last
    calm,       \* history: callers whose call saw no Reset and no Close
    created,    \* history: how often c was handed out with created = true
    env         \* the mode of the pool; calls and deaths so far, for the bounds

poolVars == <<closed, gen, state, cancelled, sharedDone>>
dialVars == <<dials, dialer>>
callVars == <<caller, ret, calm, created>>
vars == <<poolVars, sem, sweep, status, dialVars, callVars, env>>

Mode == env.mode   \* "single" or "ordered" (ConnPoolMode)

CallPc == {"acquire", "wait", "closeretry", "slot", "dial", "install",
           "closefail"}
Errors == {"none", "ErrClosed", "ctx", "dial"}

StateType  == [all : SUBSET Conns, idle : Seq(Conns), shared : Conns \cup {NoConn},
               claimed : BOOLEAN, connecting : Conns \cup {NoConn}]
DialerType == [pc : {"none", "dialing", "lock", "abort", "finish", "done"},
               gen : Gens, by : Callers \cup {NoConn}, ctx : BOOLEAN,
               err : Errors]
CallerType == [pc : CallPc \cup {"idle", "hold", "close"},
               conn : Conns \cup {NoConn}, gen : Gens, start : BOOLEAN,
               ctx : BOOLEAN]

TypeOK ==
    /\ closed \in BOOLEAN
    /\ gen \in Gens
    /\ state \in [Gens -> StateType]
    /\ cancelled \subseteq Gens
    /\ sharedDone \subseteq Conns
    /\ sem \in 0..MaxInflight
    /\ sweep \subseteq Conns
    /\ status \in [Conns -> {"none", "alive", "dead", "closed"}]
    /\ dials \in 0..MaxDials
    /\ dialer \in [Conns -> DialerType]
    /\ caller \in [Callers -> CallerType]
    /\ ret \in Errors
    /\ calm \subseteq Callers
    /\ created \in [Conns -> Nat]
    /\ env \in [mode : Modes, calls : 0..MaxCalls, deaths : 0..MaxDeaths]

NewState  == [all |-> {}, idle |-> << >>, shared |-> NoConn, claimed |-> FALSE,
              connecting |-> NoConn]
NoDialer  == [pc |-> "none", gen |-> 0, by |-> NoConn, ctx |-> FALSE,
              err |-> "none"]
IdleCaller == [pc |-> "idle", conn |-> NoConn, gen |-> 0, start |-> FALSE,
               ctx |-> FALSE]

Init ==
    /\ closed = FALSE
    /\ gen = 0
    /\ state = [g \in Gens |-> NewState]
    /\ cancelled = {}
    /\ sharedDone = {}
    /\ sem = MaxInflight
    /\ sweep = {}
    /\ status = [c \in Conns |-> "none"]
    /\ dials = 0
    /\ dialer = [d \in Conns |-> NoDialer]
    /\ caller = [u \in Callers |-> IdleCaller]
    /\ ret = "none"
    /\ calm = {}
    /\ created = [c \in Conns |-> 0]
    /\ env \in [mode : Modes, calls : {0}, deaths : {0}]

-----------------------------------------------------------------------------
(* What the code does inside a critical section, and the return paths. *)

current == state[gen]
At(u, label) == caller[u].pc = label
IsAlive(c) == status[c] = "alive"
SetState(g, r)  == state' = [state EXCEPT ![g] = r]
SetDialer(d, r) == dialer' = [dialer EXCEPT ![d] = r]
SetCaller(u, r) == caller' = [caller EXCEPT ![u] = r]

(* Fault: only closed is looked at. *)
RetiredClosedOnly(g) == closed

(* closed, or p.state is no longer this generation. *)
Retired(g) == closed \/ g < gen

(* Fault: sharedCancel is forgotten. *)
sharedCancelSkipped(c) == UNCHANGED sharedDone

sharedCancel(c) == sharedDone' = sharedDone \cup {c}

(* The idle list without a connection that is on it at most once. *)
Unlist(s, c) ==
    IF c \in Range(s)
    THEN LET i == CHOOSE j \in DOMAIN s : s[j] = c
         IN  SubSeq(s, 1, i - 1) \o SubSeq(s, i + 1, Len(s))
    ELSE s

(* removeConn, with p.access held, on the current generation. *)
removeConn(c) ==
    /\ IF Mode = "single"
       THEN IF current.shared = c
            THEN /\ SetState(gen, [current EXCEPT !.all = @ \ {c},
                                   !.shared = NoConn, !.claimed = FALSE])
                 /\ sharedCancel(c)
            ELSE /\ SetState(gen, [current EXCEPT !.all = @ \ {c}])
                 /\ UNCHANGED sharedDone
       ELSE /\ SetState(gen, [current EXCEPT !.all = @ \ {c},
                                             !.idle = Unlist(@, c)])
            /\ UNCHANGED sharedDone
    /\ UNCHANGED <<closed, gen, cancelled>>

Goto(u, label, c) ==
    /\ SetCaller(u, [caller[u] EXCEPT !.pc = label, !.conn = c])
    /\ UNCHANGED <<ret, calm, created>>

Return(u, err) ==
    /\ SetCaller(u, IdleCaller)
    /\ ret' = err
    /\ calm' = calm \ {u}
    /\ UNCHANGED created

ReturnConn(u, c, isNew) ==
    /\ SetCaller(u, [IdleCaller EXCEPT !.pc = "hold", !.conn = c])
    /\ ret' = "none"
    /\ calm' = calm \ {u}
    /\ created' = IF isNew THEN [created EXCEPT ![c] = @ + 1] ELSE created

(* Back to the top of the acquire loop. *)
Retry(u) ==
    /\ SetCaller(u, [IdleCaller EXCEPT !.pc = "acquire", !.ctx = caller[u].ctx])
    /\ UNCHANGED <<ret, calm, created>>

(* Fault: the claim is not recorded. *)
ClaimUnrecorded(u) ==
    ReturnConn(u, current.shared, ~current.claimed) /\ UNCHANGED poolVars

(* The sharedClaimed test-and-set of both lookups of the shared connection. *)
Claim(u) ==
    /\ ReturnConn(u, current.shared, ~current.claimed)
    /\ SetState(gen, [current EXCEPT !.claimed = TRUE])
    /\ UNCHANGED <<closed, gen, cancelled, sharedDone>>

(* The shared connection is there: take it, or remove it if it is dead. *)
UseShared(u) ==
    IF IsAlive(current.shared)
    THEN Claim(u)
    ELSE removeConn(current.shared) /\ Goto(u, "closeretry", current.shared)

(* Fault: nothing is closed. *)
CloseConnSkipped(c) == UNCHANGED status

(* options.Close *)
CloseConn(c) == status' = [status EXCEPT ![c] = "closed"]

(* A cancelled dial closes the connection it yields, if it yields one. *)
Discard(c) == UNCHANGED status \/ CloseConn(c)

takeSlot == IF MaxInflight = 0 THEN UNCHANGED sem ELSE sem > 0 /\ sem' = sem - 1

(* Fault: the slot is never given back. *)
releaseSlotSkipped == UNCHANGED sem

releaseSlot == sem' = IF MaxInflight = 0 THEN sem ELSE sem + 1

(* Why a dial was cancelled: the caller's context, or the generation's; *)
(* when both are done, whichever came first.                            *)
DialCauses(ctxDone, g) ==
    (IF ctxDone THEN {"ctx"} ELSE {})
        \cup (IF g \in cancelled THEN {"ErrClosed"} ELSE {})

-----------------------------------------------------------------------------
(* Acquire and AcquireShared. *)

Acquire(u) ==
    /\ At(u, "idle")
    /\ env.calls < MaxCalls
    /\ env' = [env EXCEPT !.calls = @ + 1]
    /\ SetCaller(u, [caller[u] EXCEPT !.pc = "acquire"])
    /\ calm' = IF closed THEN calm ELSE calm \cup {u}
    /\ UNCHANGED <<poolVars, sem, sweep, status, dialVars, ret, created>>

(* The caller's context ends, and with it the dials that derive from it. *)
CancelContext(u) ==
    /\ caller[u].pc \in CallPc
    /\ ~caller[u].ctx
    /\ SetCaller(u, [caller[u] EXCEPT !.ctx = TRUE])
    /\ dialer' = [d \in Conns |->
                    [dialer[d] EXCEPT !.ctx = @ \/ dialer[d].by = u]]
    /\ UNCHANGED <<poolVars, sem, sweep, status, dials, ret, calm, created, env>>

AcquireClosed(u) ==
    /\ At(u, "acquire")
    /\ closed
    /\ Return(u, "ErrClosed")
    /\ UNCHANGED <<poolVars, sem, sweep, status, dialVars, env>>

(* acquireShared: the shared connection is there. *)
AcquireShared(u) ==
    /\ At(u, "acquire")
    /\ Mode = "single" /\ ~closed
    /\ current.shared # NoConn
    /\ UseShared(u)
    /\ UNCHANGED <<sem, sweep, status, dialVars, env>>

Dialing == current.connecting # NoConn

(* acquireShared: no shared connection, but a dial is under way. *)
AcquireJoin(u) ==
    /\ At(u, "acquire")
    /\ Mode = "single" /\ ~closed
    /\ current.shared = NoConn
    /\ Dialing
    /\ SetCaller(u, [caller[u] EXCEPT !.pc = "wait", !.gen = gen,
                                      !.conn = current.connecting])
    /\ UNCHANGED <<poolVars, sem, sweep, status, dialVars, ret, calm, created, env>>

(* acquireShared: nothing there, so this caller starts connectSingle. *)
AcquireStart(u) ==
    LET d == dials + 1
    IN  /\ At(u, "acquire")
        /\ Mode = "single" /\ ~closed
        /\ current.shared = NoConn
        /\ ~Dialing
        /\ dials < MaxDials
        /\ dials' = d
        /\ SetState(gen, [current EXCEPT !.connecting = d])
        /\ SetDialer(d, [pc |-> "dialing", gen |-> gen, by |-> u,
                          ctx |-> caller[u].ctx, err |-> "none"])
        /\ SetCaller(u, [caller[u] EXCEPT !.pc = "wait", !.gen = gen, !.conn = d,
                                          !.start = TRUE])
        /\ UNCHANGED <<closed, gen, cancelled, sharedDone, sem, sweep, status,
                       ret, calm, created, env>>

(* Fault: everybody gets the error of the dial. *)
ErrorIsForAll(u) == TRUE

(* collectShared reports the dial's error to the caller that started it. *)
ErrorIsFor(u) == caller[u].start

(* The select of acquireShared: the dial is done, collectShared. *)
WaitDone(u) ==
    LET d == dialer[caller[u].conn]
    IN  /\ At(u, "wait")
        /\ d.pc = "done"
        /\ \/ /\ d.err # "none"
              /\ IF ErrorIsFor(u) THEN Return(u, d.err) ELSE Retry(u)
              /\ UNCHANGED poolVars
           \/ /\ d.err = "none" /\ Retired(caller[u].gen)
              /\ Return(u, "ErrClosed")
              /\ UNCHANGED poolVars
           \/ /\ d.err = "none" /\ ~Retired(caller[u].gen)
              /\ current.shared = NoConn
              /\ Retry(u)
              /\ UNCHANGED poolVars
           \/ /\ d.err = "none" /\ ~Retired(caller[u].gen)
              /\ current.shared # NoConn
              /\ UseShared(u)
        /\ UNCHANGED <<sem, sweep, status, dialVars, env>>

(* The select of acquireShared: the caller's own context is done. *)
WaitContext(u) ==
    /\ At(u, "wait")
    /\ caller[u].ctx
    /\ Return(u, "ctx")
    /\ UNCHANGED <<poolVars, sem, sweep, status, dialVars, env>>

(* The select of acquireShared: the generation's context is done. *)
WaitState(u) ==
    /\ At(u, "wait")
    /\ caller[u].gen \in cancelled
    /\ IF closed THEN Return(u, "ErrClosed") ELSE Retry(u)
    /\ UNCHANGED <<poolVars, sem, sweep, status, dialVars, env>>

(* Fault: the front of the idle list is looked at but stays. *)
popIdlePeeks == current.idle

popIdle == Tail(current.idle)

(* acquireOrdered: take the front of the idle list; a dead connection is *)
(* forgotten, closed after unlocking, and the loop goes on.              *)
AcquireIdle(u) ==
    LET c == Head(current.idle)
    IN  /\ At(u, "acquire")
        /\ Mode = "ordered" /\ ~closed
        /\ current.idle # << >>
        /\ SetState(gen, [current EXCEPT !.idle = popIdle,
                                    !.all = IF IsAlive(c) THEN @ ELSE @ \ {c}])
        /\ IF IsAlive(c) THEN ReturnConn(u, c, FALSE) ELSE Goto(u, "closeretry", c)
        /\ UNCHANGED <<closed, gen, cancelled, sharedDone, sem, sweep, status,
                       dialVars, env>>

(* acquireOrdered: no idle connection, on to dialAndInstall. *)
AcquireDial(u) ==
    /\ At(u, "acquire")
    /\ Mode = "ordered" /\ ~closed
    /\ current.idle = << >>
    /\ SetCaller(u, [caller[u] EXCEPT !.pc = "slot", !.gen = gen])
    /\ UNCHANGED <<poolVars, sem, sweep, status, dialVars, ret, calm, created, env>>

(* acquireSlot succeeds, and the dial begins. *)
acquireSlot(u) ==
    LET d == dials + 1
    IN  /\ At(u, "slot")
        /\ dials < MaxDials
        /\ takeSlot
        /\ dials' = d
        /\ SetDialer(d, [NoDialer EXCEPT !.gen = caller[u].gen])
        /\ Goto(u, "dial", d)
        /\ UNCHANGED <<poolVars, sweep, status, env>>

(* The caller's own context is reported first. *)
SlotError(u) == IF caller[u].ctx THEN "ctx" ELSE "ErrClosed"

(* acquireSlot gives up. *)
acquireSlotFail(u) ==
    /\ At(u, "slot")
    /\ MaxInflight > 0
    /\ caller[u].ctx \/ caller[u].gen \in cancelled
    /\ Return(u, SlotError(u))
    /\ UNCHANGED <<poolVars, sem, sweep, status, dialVars, env>>

(* dialAndInstall: dial returns an error, a connection that comes too late, *)
(* or a connection to install.                                              *)
DialOrdered(u) ==
    LET c == caller[u].conn
        causes == DialCauses(caller[u].ctx, caller[u].gen)
    IN  /\ At(u, "dial")
        /\ \/ causes = {} /\ Return(u, "dial") /\ releaseSlot /\ UNCHANGED status
           \/ /\ \E cause \in causes : Return(u, cause)
              /\ releaseSlot
              /\ Discard(c)
           \/ /\ causes = {}
              /\ status' = [status EXCEPT ![c] = "alive"]
              /\ Goto(u, "install", c)
              /\ UNCHANGED sem
        /\ UNCHANGED <<poolVars, sweep, dialVars, env>>

(* dialAndInstall: the critical section that tracks the new connection. *)
InstallOrdered(u) ==
    LET c == caller[u].conn
        g == caller[u].gen
    IN  /\ At(u, "install")
        /\ IF Retired(g)
           THEN Goto(u, "closefail", c) /\ UNCHANGED <<state, sem>>
           ELSE /\ SetState(g, [state[g] EXCEPT !.all = @ \cup {c}])
                /\ ReturnConn(u, c, TRUE)
                /\ releaseSlot
        /\ UNCHANGED <<closed, gen, cancelled, sharedDone, sweep, status,
                       dialVars, env>>

(* dialAndInstall: the generation went away during the dial. *)
CloseFail(u) ==
    /\ At(u, "closefail")
    /\ CloseConn(caller[u].conn)
    /\ Return(u, "ErrClosed")
    /\ releaseSlot
    /\ UNCHANGED <<poolVars, sweep, dialVars, env>>

(* Release, by a caller that is done with the connection. *)
Release(u, reuse) ==
    LET c == caller[u].conn
        tracked == ~closed /\ c \in current.all
    IN  /\ At(u, "hold")
        /\ \/ ~tracked /\ Goto(u, "close", c) /\ UNCHANGED poolVars
           \/ /\ tracked /\ (~reuse \/ ~IsAlive(c))
              /\ removeConn(c)
              /\ Goto(u, "close", c)
           \/ /\ tracked /\ reuse /\ IsAlive(c)
              /\ IF Mode = "ordered" /\ c \notin Range(current.idle)
                 THEN SetState(gen, [current EXCEPT !.idle = Append(@, c)])
                 ELSE UNCHANGED state
              /\ Goto(u, "idle", NoConn)
              /\ UNCHANGED <<closed, gen, cancelled, sharedDone>>
        /\ UNCHANGED <<sem, sweep, status, dialVars, env>>

(* Fault: whatever connection is shared now is removed. *)
InvalidateAny(u) ==
    /\ At(u, "hold")
    /\ IF closed \/ current.shared = NoConn THEN UNCHANGED poolVars
                                            ELSE removeConn(current.shared)
    /\ Goto(u, "close", caller[u].conn)
    /\ UNCHANGED <<sem, sweep, status, dialVars, env>>

(* Invalidate, by a caller whose use of the connection failed. *)
Invalidate(u) ==
    LET c == caller[u].conn
    IN  /\ At(u, "hold")
        /\ \/ closed /\ Goto(u, "close", c) /\ UNCHANGED poolVars
           \/ /\ ~closed /\ c \notin current.all
              /\ Goto(u, "idle", NoConn)
              /\ UNCHANGED poolVars
           \/ /\ ~closed /\ c \in current.all
              /\ removeConn(c)
              /\ Goto(u, "close", c)
        /\ UNCHANGED <<sem, sweep, status, dialVars, env>>

(* options.Close after unlocking: the end of Release or Invalidate, or the *)
(* way back into the loop of an acquire that met a dead connection.        *)
CloseRemoved(u) ==
    /\ caller[u].pc \in {"close", "closeretry"}
    /\ CloseConn(caller[u].conn)
    /\ IF At(u, "close") THEN Goto(u, "idle", NoConn) ELSE Retry(u)
    /\ UNCHANGED <<poolVars, sem, sweep, dialVars, env>>

-----------------------------------------------------------------------------
(* connectSingle.  The dial's own context ends with dialCancel as soon as  *)
(* dial has returned.                                                      *)

ConnectDial(d) ==
    LET causes == DialCauses(dialer[d].ctx, dialer[d].gen)
        returned(err) == SetDialer(d, [dialer[d] EXCEPT !.pc = "lock",
                             !.by = NoConn, !.ctx = FALSE, !.err = err])
    IN  /\ dialer[d].pc = "dialing"
        /\ \/ causes = {} /\ returned("dial") /\ UNCHANGED status
           \/ (\E cause \in causes : returned(cause)) /\ Discard(d)
           \/ /\ causes = {} /\ returned("none")
              /\ status' = [status EXCEPT ![d] = "alive"]
        /\ UNCHANGED <<poolVars, sem, sweep, dials, callVars, env>>

(* The critical section of connectSingle. *)
ConnectInstall(d) ==
    LET g == dialer[d].gen
        st == [state[g] EXCEPT !.connecting = NoConn]
        leave(label, err) ==
            SetDialer(d, [dialer[d] EXCEPT !.pc = label, !.err = err])
    IN  /\ dialer[d].pc = "lock"
        /\ \/ /\ dialer[d].err # "none"
              /\ SetState(g, st) /\ leave("finish", dialer[d].err)
           \/ /\ dialer[d].err = "none" /\ Retired(g)
              /\ SetState(g, st) /\ leave("abort", "ErrClosed")
           \/ /\ dialer[d].err = "none" /\ ~Retired(g)
              /\ SetState(g, [st EXCEPT !.all = @ \cup {d}, !.shared = d])
              /\ leave("finish", "none")
        /\ UNCHANGED <<closed, gen, cancelled, sharedDone, sem, sweep, status,
                       dials, callVars, env>>

(* Fault: only a dial that succeeded closes the channel. *)
closeDoneOnSuccess(d) ==
    IF dialer[d].err = "none" THEN SetDialer(d, [dialer[d] EXCEPT !.pc = "done"])
                              ELSE UNCHANGED dialer

closeDone(d) == SetDialer(d, [dialer[d] EXCEPT !.pc = "done"])

(* After unlocking: close what could not be installed, then close(done). *)
ConnectDone(d) ==
    /\ dialer[d].pc \in {"abort", "finish"}
    /\ IF dialer[d].pc = "abort" THEN CloseConn(d) ELSE UNCHANGED status
    /\ closeDone(d)
    /\ UNCHANGED <<poolVars, sem, sweep, dials, callVars, env>>

-----------------------------------------------------------------------------
(* Reset and Close retire the generation under the lock; closeState, after *)
(* unlocking, cancels its context and closes its connections one by one.   *)

Reset ==
    /\ ~closed
    /\ gen < MaxResets
    /\ gen' = gen + 1
    /\ calm' = {}
    /\ UNCHANGED <<closed, state, cancelled, sharedDone, sem, sweep, status,
                   dialVars, caller, ret, created, env>>

Close ==
    /\ ~closed
    /\ closed' = TRUE
    /\ calm' = {}
    /\ UNCHANGED <<gen, state, cancelled, sharedDone, sem, sweep, status,
                   dialVars, caller, ret, created, env>>

(* Fault: only the idle connections are closed. *)
SweptIdleOnly(g) == Range(state[g].idle)

Swept(g) == state[g].all

closeStateCancel(g) ==
    /\ g <= gen /\ Retired(g)
    /\ g \notin cancelled
    /\ cancelled' = cancelled \cup {g}
    /\ sweep' = sweep \cup Swept(g)
    /\ UNCHANGED <<closed, gen, state, sharedDone, sem, status, dialVars,
                   callVars, env>>

closeStateConn(c) ==
    /\ c \in sweep
    /\ sweep' = sweep \ {c}
    /\ CloseConn(c)
    /\ UNCHANGED <<poolVars, sem, dialVars, callVars, env>>

(* The peer or the network ends a connection: IsAlive turns false. *)
ConnDies(c) ==
    /\ status[c] = "alive"
    /\ env.deaths < MaxDeaths
    /\ status' = [status EXCEPT ![c] = "dead"]
    /\ env' = [env EXCEPT !.deaths = @ + 1]
    /\ UNCHANGED <<poolVars, sem, sweep, dialVars, callVars>>

-----------------------------------------------------------------------------
CallStep(u) ==
    \/ AcquireClosed(u) \/ AcquireShared(u) \/ AcquireJoin(u)
    \/ AcquireStart(u) \/ WaitDone(u) \/ WaitContext(u) \/ WaitState(u)
    \/ AcquireIdle(u) \/ AcquireDial(u) \/ acquireSlot(u) \/ acquireSlotFail(u)
    \/ DialOrdered(u) \/ InstallOrdered(u) \/ CloseFail(u) \/ CloseRemoved(u)

UseStep(u) == Invalidate(u) \/ \E reuse \in BOOLEAN : Release(u, reuse)

ConnectStep(d) == ConnectDial(d) \/ ConnectInstall(d) \/ ConnectDone(d)

closeStateStep ==
    (\E g \in Gens : closeStateCancel(g)) \/ (\E c \in Conns : closeStateConn(c))

Next ==
    \/ \E u \in Callers :
          Acquire(u) \/ CancelContext(u) \/ CallStep(u) \/ UseStep(u)
    \/ \E d \in Conns : ConnectStep(d) \/ ConnDies(d)
    \/ Reset \/ Close
    \/ closeStateStep

Spec == Init /\ [][Next]_vars

(* Goroutines run, a dial ends (it has a context), a caller that holds a   *)
(* connection gives it back; nobody has to call, reset, close or die.      *)
Fairness ==
    /\ \A u \in Callers : WF_vars(CallStep(u)) /\ WF_vars(UseStep(u))
    /\ \A d \in Conns : WF_vars(ConnectStep(d))
    /\ WF_vars(closeStateStep)

FairSpec == Spec /\ Fairness

-----------------------------------------------------------------------------
(* Properties. *)

Open(c) == status[c] \in {"alive", "dead"}

Holds(u, c) == At(u, "hold") /\ caller[u].conn = c

(* The step in which u's call returns this error. *)
Fails(u, err) ==
    caller[u].pc \in CallPc /\ caller'[u].pc = "idle" /\ ret' = err

(* Somebody is bound to close c: a generation that has not been taken down *)
(* tracks it, or a goroutine has it in hand on a path that closes it.      *)
Owned(c) ==
    \/ \E g \in Gens \ cancelled : c \in state[g].all
    \/ c \in sweep
    \/ dialer[c].pc = "abort"
    \/ dialer[c].pc = "lock" /\ dialer[c].err = "none"
    \/ \E u \in Callers :
          /\ caller[u].conn = c
          /\ caller[u].pc \in {"close", "closeretry", "install", "closefail"}

(* No connection leaks: whatever the interleaving of Acquire, Release,     *)
(* Invalidate, Reset and Close, an open connection is tracked by a         *)
(* generation closeState will still sweep, or is in the hands of a         *)
(* goroutine that installs or closes it (conn_pool.go, closeState).        *)
NoLeak == \A c \in Conns : Open(c) => Owned(c)

(* Exactly one of the callers that share a connection is told created =    *)
(* true, and nobody holds a connection that has no such caller: the UDP    *)
(* transport starts its only receive loop on that answer (sharedClaimed).  *)
ClaimedOnce ==
    \A c \in Conns :
        /\ created[c] <= 1
        /\ (\E u \in Callers : Holds(u, c)) => created[c] = 1

(* Ordered mode: a connection has one holder, and an idle one has none.    *)
Exclusive ==
    Mode = "ordered" =>
        \A u \in Callers, c \in Conns : Holds(u, c) =>
            /\ \A g \in Gens : c \notin Range(state[g].idle)
            /\ \A v \in Callers : Holds(v, c) => v = u

(* An error has its cause.  A caller sees a context error only when its    *)
(* own context is done, though the dial it waits for runs under the        *)
(* context of another caller (collectShared retries for a caller that did  *)
(* not start the dial).  net.ErrClosed is returned only by a call during   *)
(* which, or before which, the pool was closed, or during which it was     *)
(* reset.                                                                  *)
ErrorHasCause ==
    [][\A u \in Callers : /\ Fails(u, "ctx") => caller[u].ctx
                          /\ Fails(u, "ErrClosed") => u \notin calm]_vars

(* Slots of the semaphore are neither lost nor invented on any return path *)
(* of dialAndInstall.                                                      *)
SlotsConserved ==
    MaxInflight > 0 =>
        sem + Cardinality({u \in Callers :
                  caller[u].pc \in {"dial", "install", "closefail"}}) = MaxInflight

(* Nobody touches the connections of a retired generation, so closeState   *)
(* may range over state.all without the lock.                              *)
RetiredFrozen ==
    [][\A g \in Gens : closed \/ g < gen => state'[g].all = state[g].all]_vars

(* Single mode: the live shared connection is removed only by a caller     *)
(* that holds this very connection; giving back or invalidating one of an  *)
(* earlier life never tears it down (the test shared == conn).             *)
NoStaleTeardown ==
    [][\A c \in Conns :
          (/\ Mode = "single" /\ ~Retired(gen)' /\ gen' = gen
           /\ current.shared = c /\ IsAlive(c) /\ state'[gen].shared # c)
          => \E u \in Callers : Holds(u, c) /\ caller'[u].pc = "close"]_vars

(* An Acquire returns, whatever is reset, closed or cancelled meanwhile    *)
(* (dials is the bound of the model, not of the code).                     *)
AcquireReturns ==
    \A u \in Callers :
        caller[u].pc \in CallPc ~>
            \/ caller[u].pc \notin CallPc
            \/ caller[u].pc \in {"acquire", "slot"} /\ dials = MaxDials

(* After Reset or Close, every connection of the old generation is closed, *)
(* those still being dialled or installed included.                        *)
RetiredClosed ==
    LET lingering == {c \in Conns : Open(c) /\ Retired(dialer[c].gen)}
    IN  lingering # {} ~> lingering = {}

(* Single mode: holders of a connection that was closed under them are     *)
(* told so through its context (sharedCtx, a child of the generation's).   *)
HoldersNotified ==
    LET unaware == {c \in Conns : /\ Mode = "single" /\ created[c] > 0
                                  /\ status[c] = "closed"
                                  /\ c \notin sharedDone
                                  /\ dialer[c].gen \notin cancelled}
    IN  unaware # {} ~> unaware = {}
=============================================================================
