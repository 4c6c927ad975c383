--------------------------- MODULE URLTestSelect ---------------------------
(***************************************************************************)
(* Which outbound a URL test group uses (protocol/group/urltest.go):       *)
(* Select over the test history, performUpdateCheck at the end of a round  *)
(* of tests, and the dials that use the selection and forget the history   *)
(* of an outbound that fails.  The history is shared with other groups and *)
(* the API, which change it between rounds.                                *)
(***************************************************************************)
EXTENDS Integers, Sequences, FiniteSets, Functions

CONSTANTS
    Outbounds,   \* the members, in order
    Networks,    \* Networks[o]: the networks o supports
    Delays,      \* measured delays, in milliseconds
    Tolerance,
    Nil

Members == Range(Outbounds)
AllNetworks == {"tcp", "udp"}
Uint16 == 65536

SelectAssumption ==
    /\ Outbounds # <<>>
    /\ Networks \in [Members -> SUBSET AllNetworks]
    /\ Delays \subseteq 0..(Uint16 - 1) /\ Tolerance \in 1..(Uint16 - 1)

VARIABLES
    history,    \* history[o]: the delay of o, or Nil
    selected,   \* selected[n]: selectedOutboundTCP and selectedOutboundUDP
    updated,    \* history: performUpdateCheck was the last step
    interrupts  \* the connections were interrupted by the last step

vars == <<history, selected, updated, interrupts>>

TypeOK ==
    /\ history \in [Members -> Delays \cup {Nil}]
    /\ \A n \in AllNetworks :
          selected[n] = Nil \/ (selected[n] \in Members /\ n \in Networks[selected[n]])
    /\ updated \in BOOLEAN /\ interrupts \in BOOLEAN

Init ==
    /\ history = [o \in Members |-> Nil]
    /\ selected = [n \in AllNetworks |-> Nil]
    /\ updated = FALSE /\ interrupts = FALSE

-----------------------------------------------------------------------------
Sum16(a, b) == (a + b) % Uint16

(* Fault: the tolerance is counted twice. *)
BetterDouble(delay, min) == min = 0 \/ min > Sum16(delay, 2 * Tolerance)

(* minDelay == 0 || minDelay > history.Delay + tolerance *)
Better(delay, min) == min = 0 \/ min > Sum16(delay, Tolerance)

(* Fault: the selected outbound has no precedence. *)
StartFresh(n) == [outbound |-> Nil, delay |-> 0]

(* What the loop of Select starts from: the selection, if it has a history. *)
StartFrom(n) ==
    IF selected[n] # Nil /\ history[selected[n]] # Nil
    THEN [outbound |-> selected[n], delay |-> history[selected[n]]]
    ELSE [outbound |-> Nil, delay |-> 0]

Supported(n) == SelectSeq(Outbounds, LAMBDA o : n \in Networks[o])

(* Select: the minimum after the first i supported outbounds; whether it has *)
(* a history; and what is returned when nothing has one.                     *)
Select(n) ==
    LET supported == Supported(n)
        min[i \in 0..Len(supported)] ==
            IF i = 0 THEN StartFrom(n)
            ELSE LET o == supported[i]
                 IN  IF history[o] # Nil /\ Better(history[o], min[i - 1].delay)
                     THEN [outbound |-> o, delay |-> history[o]] ELSE min[i - 1]
        best == min[Len(supported)].outbound
    IN  [exists |-> best # Nil,
         outbound |-> IF best # Nil THEN best
                      ELSE IF supported = <<>> THEN Nil ELSE supported[1]]

(* Whether performUpdateCheck takes what Select returns. *)
Adopt(n) ==
    LET s == Select(n)
    IN  s.outbound # Nil /\ (selected[n] = Nil \/ (s.exists /\ s.outbound # selected[n]))

performUpdateCheck ==
    /\ selected' = [n \in AllNetworks |-> IF Adopt(n) THEN Select(n).outbound ELSE selected[n]]
    /\ interrupts' = \E n \in AllNetworks : Adopt(n) /\ selected[n] # Nil
    /\ updated' = TRUE
    /\ UNCHANGED history

-----------------------------------------------------------------------------
(* A test of this or of another group ends: a delay, or no history. *)
TestEnds(o, delay) ==
    /\ history' = [history EXCEPT ![o] = delay]
    /\ updated' = FALSE /\ interrupts' = FALSE
    /\ UNCHANGED selected

(* DialContext: the selection, or what Select returns before the first      *)
(* round; when the dial fails its history is deleted.                       *)
Dialed(n) == IF selected[n] # Nil THEN selected[n] ELSE Select(n).outbound

DialFails(n) ==
    /\ Dialed(n) # Nil
    /\ history' = [history EXCEPT ![Dialed(n)] = Nil]
    /\ updated' = FALSE /\ interrupts' = FALSE
    /\ UNCHANGED selected

Next ==
    \/ performUpdateCheck
    \/ \E o \in Members, delay \in Delays \cup {Nil} : TestEnds(o, delay)
    \/ \E n \in AllNetworks : DialFails(n)

Spec == Init /\ [][Next]_vars

-----------------------------------------------------------------------------
(* Properties. *)

Tested(n) == {o \in Members : n \in Networks[o] /\ history[o] # Nil}

(* After a round the selected outbound is tested, if one is, and none is   *)
(* faster by more than the tolerance.  It supports its network (TypeOK).   *)
WithinTolerance ==
    /\ TypeOK
    /\ updated => \A n \in AllNetworks : Tested(n) # {} =>
          /\ selected[n] \in Tested(n)
          /\ \A o \in Tested(n) : history[selected[n]] <= history[o] + Tolerance

(* The group does not flap: connections are interrupted, and a selection   *)
(* that has a history is given up, only for an outbound that is faster by  *)
(* more than the tolerance.                                                *)
NoFlapping ==
    [][\A n \in AllNetworks :
         selected[n] # Nil /\ selected'[n] # selected[n] =>
            /\ interrupts'
            /\ history[selected'[n]] # Nil
            /\ history[selected[n]] # Nil =>
                  history[selected[n]] > history[selected'[n]] + Tolerance]_vars
=============================================================================
