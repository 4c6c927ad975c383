------------------------------ MODULE MCGroups ------------------------------
(***************************************************************************)
(* The outbound groups for model checking: the selector, the selection of  *)
(* a URL test group, and the life of its tests.  They share no state, so   *)
(* each behaviour is one of one of them, and the others stay as they were. *)
(***************************************************************************)
EXTENDS Integers

CONSTANTS
    Callers, Conns, MaxSelects, MaxRestarts, None,   \* of Selector
    Delays, Tolerance, Nil,                          \* of URLTestSelect
    Interval, IdleTimeout, Tickers, NoTicker         \* of URLTestGroup

VARIABLES
    part,
    options, selected, persisted, caller, conn, group, unsure, selects, restarts,
    history, fastest, updated, interrupts,
    started, age, ticker, clock, loop, other, checking, closed, over, late

TwoOutbounds == <<"a", "b">>
ThreeOutbounds == <<"a", "b", "c">>
(* One outbound without UDP. *)
MixedNetworks == [a |-> {"tcp", "udp"}, b |-> {"tcp"}, c |-> {"tcp", "udp"}]

Sel == INSTANCE Selector WITH Order <- TwoOutbounds
Best == INSTANCE URLTestSelect
            WITH Outbounds <- ThreeOutbounds, Networks <- MixedNetworks, selected <- fastest
Life == INSTANCE URLTestGroup

ASSUME Best!SelectAssumption /\ Life!GroupAssumption

selVars == <<options, selected, persisted, caller, conn, group, unsure, selects, restarts>>
bestVars == <<history, fastest, updated, interrupts>>
lifeVars == <<started, age, ticker, clock, loop, other, checking, closed, over, late>>
vars == <<part, selVars, bestVars, lifeVars>>

Init ==
    /\ part \in {"selector", "selection", "life"}
    /\ Sel!Init /\ Best!Init /\ Life!Init
    /\ part = "selector" \/ options = CHOOSE o \in Sel!Options : TRUE

Next ==
    \/ part = "selector" /\ Sel!Next /\ UNCHANGED <<part, bestVars, lifeVars>>
    \/ part = "selection" /\ Best!Next /\ UNCHANGED <<part, selVars, lifeVars>>
    \/ part = "life" /\ Life!Next /\ UNCHANGED <<part, selVars, bestVars>>

Spec == Init /\ [][Next]_vars

(* Life!Fairness, for the behaviours of Life. *)
Fairness ==
    /\ WF_lifeVars(part = "life" /\ Life!Tick)
    /\ \A t \in Tickers : WF_lifeVars(part = "life" /\ Life!LoopStep(t))
    /\ \A x \in Life!Others : WF_lifeVars(part = "life" /\ Life!RoundEnds(x))

FairSpec == Spec /\ Fairness

-----------------------------------------------------------------------------
(* The properties of the three modules, by their names there. *)


(* Selector: a restart would select what is selected now. *)
PersistedCurrent == Sel!PersistedCurrent

(* URLTestSelect: after a round nothing is faster by more than the tolerance. *)
WithinTolerance == Best!WithinTolerance

(* URLTestSelect: the selection changes only for a gain above the tolerance. *)
NoFlapping == Best!NoFlapping

(* URLTestGroup: rounds of tests exclude each other. *)
OneRound == Life!OneRound

(* URLTestGroup: the group's ticker has a goroutine, and the converse. *)
TickerHasLoop == Life!TickerHasLoop

(* URLTestGroup: while there is traffic the members are tested again and again. *)
TrafficTests == part = "life" => Life!TrafficTests

(* URLTestGroup: without traffic, and after Close, the group comes to rest. *)
IdleStops == Life!IdleStops
=============================================================================
