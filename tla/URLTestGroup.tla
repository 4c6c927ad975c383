---------------------------- MODULE URLTestGroup ----------------------------
(***************************************************************************)
(* The life of a URL test group (protocol/group/urltest.go): traffic       *)
(* (Touch) starts a ticker and a goroutine that tests the members at every *)
(* interval and stops after idleTimeout without traffic; Close stops it.   *)
(* Rounds of tests come from these goroutines, from PostStart and from the *)
(* API, and exclude one another.                                           *)
(*                                                                         *)
(* Time is the age of lastActive, which saturates past idleTimeout, and    *)
(* the time left until a ticker's next tick, so behaviours are unbounded.  *)
(***************************************************************************)
EXTENDS Integers, FiniteSets

CONSTANTS
    Interval, IdleTimeout,
    Tickers,      \* identities of tickers and their goroutines, reused
    NoTicker

Others == {"post", "api"}   \* PostStart's goroutine and the API

(* NewURLTestGroup refuses an interval above the idle timeout. *)
GroupAssumption ==
    /\ Interval \in Nat \ {0} /\ IdleTimeout \in Nat
    /\ Interval <= IdleTimeout

VARIABLES
    started,   \* PostStart has run
    age,       \* time since lastActive
    ticker,    \* g.ticker
    clock,     \* clock[t]: stopped, the time left, or a tick in the channel
    loop,      \* loop[t]: where t's loopCheck is
    other,     \* other[x]: where a round that is not of a loop is
    checking,  \* g.checking
    closed,    \* g.close is closed
    over,      \* Close has been called
    late       \* history: a connection was dialled after Close

vars == <<started, age, ticker, clock, loop, other, checking, closed, over, late>>

LoopPc == {"none", "begin", "select", "tick", "stop", "testing"}

TypeOK ==
    /\ started \in BOOLEAN
    /\ age \in 0..(IdleTimeout + 1)
    /\ ticker \in Tickers \cup {NoTicker}
    /\ clock \in [Tickers -> [runs : BOOLEAN, left : 1..Interval, fired : BOOLEAN]]
    /\ loop \in [Tickers -> LoopPc]
    /\ other \in [Others -> {"none", "testing"}]
    /\ checking \in BOOLEAN /\ closed \in BOOLEAN /\ over \in BOOLEAN /\ late \in BOOLEAN

Stopped == [runs |-> FALSE, left |-> Interval, fired |-> FALSE]

Init ==
    /\ started = FALSE
    /\ age = 0
    /\ ticker = NoTicker
    /\ clock = [t \in Tickers |-> Stopped]
    /\ loop = [t \in Tickers |-> "none"]
    /\ other = [x \in Others |-> "none"]
    /\ checking = FALSE /\ closed = FALSE /\ over = FALSE /\ late = FALSE

-----------------------------------------------------------------------------
(* Fault: a round starts although another one is under way. *)
FreeAlways == TRUE

(* g.checking.Swap(true) found false. *)
Free == ~checking

FirstActive == 0

PostStart ==
    /\ ~started /\ ~over
    /\ started' = TRUE
    /\ age' = FirstActive
    /\ IF Free
       THEN checking' = TRUE /\ other' = [other EXCEPT !["post"] = "testing"]
       ELSE UNCHANGED <<checking, other>>
    /\ UNCHANGED <<ticker, clock, loop, closed, over, late>>

(* URLTest and CheckOutbounds, called through the API. *)
URLTest ==
    /\ started
    /\ other["api"] = "none"
    /\ Free
    /\ checking' = TRUE
    /\ other' = [other EXCEPT !["api"] = "testing"]
    /\ UNCHANGED <<started, age, ticker, clock, loop, closed, over, late>>

(* The end of a round: performUpdateCheck, and the flag is cleared. *)
RoundEnds(x) ==
    /\ other[x] = "testing"
    /\ other' = [other EXCEPT ![x] = "none"]
    /\ checking' = FALSE
    /\ UNCHANGED <<started, age, ticker, clock, loop, closed, over, late>>

(* Fault: every Touch starts a ticker. *)
NoLoopAlways == TRUE

NoLoop == ticker = NoTicker

Touch ==
    /\ started
    /\ late' = over
    /\ IF NoLoop
       THEN \E t \in Tickers :
               /\ loop[t] = "none" /\ ~clock[t].runs
               /\ ticker' = t
               /\ clock' = [clock EXCEPT ![t] = [Stopped EXCEPT !.runs = TRUE]]
               /\ loop' = [loop EXCEPT ![t] = "begin"]
               /\ UNCHANGED age
       ELSE age' = 0 /\ UNCHANGED <<ticker, clock, loop>>
    /\ UNCHANGED <<started, other, checking, closed, over>>

(* Fault: the ticker is stopped and the goroutine is not told. *)
CloseChannelKept == UNCHANGED closed

CloseChannel == closed' = TRUE

(* Close; the channel is closed only when there is a ticker. *)
Close ==
    /\ ~over
    /\ over' = TRUE
    /\ IF ticker = NoTicker
       THEN UNCHANGED <<ticker, clock, closed>>
       ELSE /\ clock' = [clock EXCEPT ![ticker] = Stopped]
            /\ ticker' = NoTicker
            /\ CloseChannel
    /\ UNCHANGED <<started, age, loop, other, checking, late>>

-----------------------------------------------------------------------------
(* loopCheck.  CheckOutbounds runs the round in this goroutine. *)
CheckOutbounds(t) ==
    IF Free THEN checking' = TRUE /\ loop' = [loop EXCEPT ![t] = "testing"]
            ELSE loop' = [loop EXCEPT ![t] = "select"] /\ UNCHANGED checking

LoopBegin(t) ==
    /\ loop[t] = "begin"
    /\ IF age > Interval
       THEN age' = 0 /\ CheckOutbounds(t)
       ELSE loop' = [loop EXCEPT ![t] = "select"] /\ UNCHANGED <<age, checking>>
    /\ UNCHANGED <<started, ticker, clock, other, closed, over, late>>

LoopSelect(t) ==
    /\ loop[t] = "select"
    /\ \/ closed /\ loop' = [loop EXCEPT ![t] = "none"] /\ UNCHANGED clock
       \/ /\ clock[t].fired
          /\ clock' = [clock EXCEPT ![t].fired = FALSE]
          /\ loop' = [loop EXCEPT ![t] = "tick"]
    /\ UNCHANGED <<started, age, ticker, other, checking, closed, over, late>>

(* A tick: the group is idle, or a round. *)
LoopTick(t) ==
    /\ loop[t] = "tick"
    /\ IF age > IdleTimeout
       THEN loop' = [loop EXCEPT ![t] = "stop"] /\ UNCHANGED checking
       ELSE CheckOutbounds(t)
    /\ UNCHANGED <<started, age, ticker, clock, other, closed, over, late>>

(* Fault: the stopped ticker is left in the group. *)
ForgetKept == UNCHANGED ticker

Forget == ticker' = NoTicker

(* The idle goroutine takes the lock; a Touch may have come in between. *)
LoopStop(t) ==
    /\ loop[t] = "stop"
    /\ IF ticker = t
       THEN clock' = [clock EXCEPT ![t] = Stopped] /\ Forget
       ELSE UNCHANGED <<clock, ticker>>
    /\ loop' = [loop EXCEPT ![t] = "none"]
    /\ UNCHANGED <<started, age, other, checking, closed, over, late>>

LoopRoundEnds(t) ==
    /\ loop[t] = "testing"
    /\ loop' = [loop EXCEPT ![t] = "select"]
    /\ checking' = FALSE
    /\ UNCHANGED <<started, age, ticker, clock, other, closed, over, late>>

LoopStep(t) ==
    LoopBegin(t) \/ LoopSelect(t) \/ LoopTick(t) \/ LoopStop(t) \/ LoopRoundEnds(t)

(* Time passes; a ticker that is due puts a tick into its channel of one. *)
Tick ==
    /\ age' = IF age > IdleTimeout THEN age ELSE age + 1
    /\ clock' = [t \in Tickers |->
          IF ~clock[t].runs THEN clock[t]
          ELSE IF clock[t].left = 1
          THEN [clock[t] EXCEPT !.left = Interval, !.fired = TRUE]
          ELSE [clock[t] EXCEPT !.left = @ - 1]]
    /\ UNCHANGED <<started, ticker, loop, other, checking, closed, over, late>>

Next ==
    \/ PostStart \/ URLTest \/ Touch \/ Close \/ Tick
    \/ \E x \in Others : RoundEnds(x)
    \/ \E t \in Tickers : LoopStep(t)

Spec == Init /\ [][Next]_vars

(* Time passes, goroutines run, and a round ends with its tests' timeout. *)
Fairness ==
    /\ WF_vars(Tick)
    /\ \A t \in Tickers : WF_vars(LoopStep(t))
    /\ \A x \in Others : WF_vars(RoundEnds(x))

FairSpec == Spec /\ Fairness

-----------------------------------------------------------------------------
(* Properties. *)

Testing == {t \in Tickers : loop[t] = "testing"} \cup {x \in Others : other[x] = "testing"}

(* Rounds of tests exclude each other, and the flag is set during one.     *)
(* The state is of its types.                                              *)
OneRound == TypeOK /\ Cardinality(Testing) <= 1 /\ (checking <=> Testing # {})

(* A ticker that runs is the group's: nothing else could stop it.  Until   *)
(* the group is closed its ticker has a goroutine, and a goroutine that    *)
(* will wait again has the group's ticker: none waits on a ticker that was *)
(* stopped, and Touch never relies on one that ended.                      *)
TickerHasLoop ==
    /\ \A t \in Tickers : clock[t].runs => t = ticker
    /\ ~closed => /\ ticker # NoTicker => loop[ticker] # "none"
                  /\ \A t \in Tickers : loop[t] # "none" => t = ticker

(* As long as traffic never pauses for idleTimeout the members are tested  *)
(* again and again.                                                        *)
TrafficTests == <>[](age <= IdleTimeout /\ ~over) => []<>(Testing # {})

(* Without traffic, and after Close, the group comes to rest: its          *)
(* goroutines end for good and its ticker is stopped, unless a connection  *)
(* was dialled after Close.                                                *)
IdleStops ==
    <>[][~Touch]_vars => <>[](/\ \A t \in Tickers : loop[t] = "none"
                              /\ ticker = NoTicker \/ late)
=============================================================================
