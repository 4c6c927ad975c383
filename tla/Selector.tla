------------------------------ MODULE Selector ------------------------------
(***************************************************************************)
(* The selector outbound (protocol/group/selector.go) with its interrupt   *)
(* group (common/interrupt) and the selection kept in the cache file.      *)
(* Selections come concurrently from the Clash API and the daemon;         *)
(* connections are dialled through the outbound that was selected when the *)
(* dial began and join the group when it ends.                             *)
(***************************************************************************)
EXTENDS Integers, Sequences, FiniteSets, Functions

CONSTANTS
    Order,        \* the outbounds a configuration may list, in order
    Callers,      \* goroutines that call SelectOutbound
    Conns,        \* connections
    MaxSelects,   \* bound: selections that change something
    MaxRestarts,  \* bound: restarts
    None

Outbounds == Range(Order)

(* The configurations for which Start does not fail: the outbounds, the     *)
(* default one (default) or None, and interrupt_exist_connections.          *)
Options ==
    {o \in [outbounds : SUBSET Outbounds \ {{}}, default : Outbounds \cup {None},
            interruptExternal : BOOLEAN] : o.default \in o.outbounds \cup {None}}

VARIABLES
    options,    \* the running configuration
    selected,
    persisted,  \* the tag in the cache file, or None
    caller,     \* caller[p]: place in SelectOutbound, and its tag
    conn,       \* conn[c]
    group,      \* the connections listed in the interrupt group
    unsure,     \* history: since the start StoreSelected has failed, or calls
                \* of SelectOutbound have overlapped
    selects, restarts

vars == <<options, selected, persisted, caller, conn, group, unsure, selects, restarts>>

(* overlapped (history): the selection changed while this dial was in flight. *)
ConnType == [pc : {"idle", "dialing", "open", "closed"}, via : Outbounds \cup {None},
             external : BOOLEAN, overlapped : BOOLEAN]
CallerType == [pc : {"idle", "store", "interrupt"}, tag : Outbounds \cup {None}]

TypeOK ==
    /\ options \in Options
    /\ selected \in options.outbounds
    /\ persisted \in Outbounds \cup {None}
    /\ caller \in [Callers -> CallerType]
    /\ conn \in [Conns -> ConnType]
    /\ group \subseteq Conns
    /\ unsure \in BOOLEAN
    /\ selects \in 0..MaxSelects /\ restarts \in 0..MaxRestarts

IdleConn == [pc |-> "idle", via |-> None, external |-> FALSE, overlapped |-> FALSE]
IdleCaller == [pc |-> "idle", tag |-> None]

First(set) == SelectSeq(Order, LAMBDA o : o \in set)[1]
Default(o) == IF o.default # None THEN o.default ELSE First(o.outbounds)

(* What Start selects: the tag of the cache file if it is still listed, the *)
(* configured default, or the first outbound.                               *)
Initial(o, tag) == IF tag \in o.outbounds THEN tag ELSE Default(o)

Init ==
    /\ options \in Options
    /\ persisted = None
    /\ selected = Initial(options, None)
    /\ caller = [p \in Callers |-> IdleCaller]
    /\ conn = [c \in Conns |-> IdleConn]
    /\ group = {}
    /\ unsure = FALSE
    /\ selects = 0 /\ restarts = 0

-----------------------------------------------------------------------------
Quiet == \A p \in Callers : caller[p].pc = "idle"

(* SelectOutbound: the swap.  Choosing the selected outbound ends here. *)
Swap(p, tag) ==
    /\ caller[p].pc = "idle"
    /\ tag \in options.outbounds
    /\ tag # selected
    /\ selects < MaxSelects
    /\ selects' = selects + 1
    /\ selected' = tag
    /\ caller' = [caller EXCEPT ![p] = [pc |-> "store", tag |-> tag]]
    /\ conn' = [c \in Conns |-> [conn[c] EXCEPT
                  !.overlapped = @ \/ conn[c].pc = "dialing"]]
    /\ unsure' = (unsure \/ ~Quiet)
    /\ UNCHANGED <<options, persisted, group, restarts>>

(* Fault: a tag that is already stored is kept. *)
PersistOnce(tag) == IF persisted = None THEN tag ELSE persisted

Persist(tag) == tag

(* StoreSelected; its error is only logged. *)
StoreSelected(p) ==
    /\ caller[p].pc = "store"
    /\ caller' = [caller EXCEPT ![p].pc = "interrupt"]
    /\ \/ persisted' = Persist(caller[p].tag) /\ UNCHANGED unsure
       \/ unsure' = TRUE /\ UNCHANGED persisted
    /\ UNCHANGED <<options, selected, conn, group, selects, restarts>>


Affected(c) == ~conn[c].external \/ options.interruptExternal

Unlist(set) == group \ set

(* interruptGroup.Interrupt *)
Interrupt(p) ==
    LET hit == {c \in group : Affected(c)}
    IN  /\ caller[p].pc = "interrupt"
        /\ caller' = [caller EXCEPT ![p] = IdleCaller]
        /\ conn' = [c \in Conns |-> IF c \in hit THEN [conn[c] EXCEPT !.pc = "closed"]
                                                 ELSE conn[c]]
        /\ group' = Unlist(hit)
        /\ UNCHANGED <<options, selected, persisted, unsure, selects, restarts>>

-----------------------------------------------------------------------------
(* DialContext and ListenPacket: the dial begins. *)
DialContext(c, external) ==
    /\ conn[c].pc = "idle"
    /\ conn' = [conn EXCEPT ![c] = [IdleConn EXCEPT !.pc = "dialing", !.via = selected,
                                                    !.external = external]]
    /\ UNCHANGED <<options, selected, persisted, caller, group, unsure, selects, restarts>>

(* The dial ends: interruptGroup.NewConn, or an error. *)
NewConn(c) ==
    /\ conn[c].pc = "dialing"
    /\ \/ conn' = [conn EXCEPT ![c].pc = "open"] /\ group' = group \cup {c}
       \/ conn' = [conn EXCEPT ![c] = IdleConn] /\ UNCHANGED group
    /\ UNCHANGED <<options, selected, persisted, caller, unsure, selects, restarts>>

(* Conn.Close by its owner, who may do so after an interruption too. *)
CloseConn(c) ==
    /\ conn[c].pc \in {"open", "closed"}
    /\ conn' = [conn EXCEPT ![c] = IdleConn]
    /\ group' = Unlist({c})
    /\ UNCHANGED <<options, selected, persisted, caller, unsure, selects, restarts>>

(* The process ends and starts again, perhaps with other outbounds listed. *)
Restart(o) ==
    /\ restarts < MaxRestarts
    /\ restarts' = restarts + 1
    /\ options' = o
    /\ selected' = Initial(o, persisted)
    /\ caller' = [p \in Callers |-> IdleCaller]
    /\ conn' = [c \in Conns |-> IdleConn]
    /\ group' = {}
    /\ unsure' = FALSE
    /\ UNCHANGED <<persisted, selects>>

Next ==
    \/ \E p \in Callers : \/ \E tag \in Outbounds : Swap(p, tag)
                          \/ StoreSelected(p) \/ Interrupt(p)
    \/ \E c \in Conns : \/ \E external \in BOOLEAN : DialContext(c, external)
                        \/ NewConn(c) \/ CloseConn(c)
    \/ \E o \in Options : Restart(o)

Spec == Init /\ [][Next]_vars

-----------------------------------------------------------------------------
(* Properties. *)

MustEnd(c) == ~conn[c].external \/ options.interruptExternal


(* A restart would select what is selected now, unless calls of            *)
(* SelectOutbound have overlapped or the cache file failed.                *)
PersistedCurrent == Quiet /\ ~unsure => Initial(options, persisted) = selected
=============================================================================
