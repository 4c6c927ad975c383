-------------------------- MODULE ConnectionManager --------------------------
(***************************************************************************)
(* The connection manager (route/conn.go): for each connection that an     *)
(* inbound accepts it dials the remote end, reports the handshake, and     *)
(* relays with one goroutine for each direction until both have ended.     *)
(* Remote connections are tracked, so that CloseAll, which runs when the   *)
(* network changes, can close them under the goroutines that use them.     *)
(***************************************************************************)
EXTENDS Integers, FiniteSets

CONSTANTS
    Relays,         \* connections accepted by inbounds
    MaxCloseAll     \* bound: calls of CloseAll

ASSUME ConnectionManagerAssumption == MaxCloseAll \in Nat

Sides == {"local", "remote"}
Directions == {"upload", "download"}
Kinds == {"tcp", "udp"}
Source(d) == IF d = "upload" THEN "local" ELSE "remote"
Destination(d) == IF d = "upload" THEN "remote" ELSE "local"
Other(d) == IF d = "upload" THEN "download" ELSE "upload"

VARIABLES
    kind,       \* kind[r]: NewConnection or NewPacketConnection
    duplex,     \* duplex[r][s]: the end can close its write side alone
    pc,         \* pc[r]: place in NewConnection
    open,       \* open[r][s]
    eof,        \* eof[r][s]: the peer at this end has finished sending
    copy,       \* copy[r][d]: the goroutine of a direction
    done,       \* done[r]: the flag the two goroutines share
    calls,      \* calls[r]: how often onClose was called
    tracked,    \* m.connections, by relay
    closing,    \* taken off the list by CloseAll, not yet closed
    closeAlls,
    failed      \* history: relays with an error other than the end of a stream

vars == <<kind, duplex, pc, open, eof, copy, done, calls, tracked, closing, closeAlls, failed>>

TypeOK ==
    /\ kind \in [Relays -> Kinds]
    /\ duplex \in [Relays -> [Sides -> BOOLEAN]]
    /\ pc \in [Relays -> {"idle", "dial", "report", "upload", "download", "relay", "over"}]
    /\ open \in [Relays -> [Sides -> BOOLEAN]]
    /\ eof \in [Relays -> [Sides -> BOOLEAN]]
    /\ copy \in [Relays -> [Directions -> {"none", "copying", "swap", "close", "done"}]]
    /\ done \in [Relays -> BOOLEAN]
    /\ calls \in [Relays -> 0..1]
    /\ tracked \subseteq Relays /\ closing \subseteq Relays /\ failed \subseteq Relays
    /\ closeAlls \in 0..MaxCloseAll

Init ==
    /\ kind \in [Relays -> Kinds]
    /\ duplex \in [Relays -> [Sides -> BOOLEAN]]
    /\ pc = [r \in Relays |-> "idle"]
    /\ open = [r \in Relays |-> [s \in Sides |-> FALSE]]
    /\ eof = [r \in Relays |-> [s \in Sides |-> FALSE]]
    /\ copy = [r \in Relays |-> [d \in Directions |-> "none"]]
    /\ done = [r \in Relays |-> FALSE]
    /\ calls = [r \in Relays |-> 0]
    /\ tracked = {} /\ closing = {} /\ closeAlls = 0 /\ failed = {}

-----------------------------------------------------------------------------
Goto(r, label) == pc' = [pc EXCEPT ![r] = label]
OnClose(r) == calls' = [calls EXCEPT ![r] = @ + 1]

(* Fault: a closed connection stays on the list. *)
UntrackNone(r) == tracked

Untrack(r) == tracked \ {r}

(* common.Close on ends of a relay; the remote one leaves the list.        *)
CloseEnds(r, sides) ==
    /\ open' = [open EXCEPT ![r] = [s \in Sides |-> open[r][s] /\ s \notin sides]]
    /\ tracked' = IF "remote" \in sides THEN Untrack(r) ELSE tracked

(* An inbound hands over a stream or a packet connection. *)
Accept(r) ==
    /\ pc[r] = "idle"
    /\ Goto(r, "dial")
    /\ open' = [open EXCEPT ![r]["local"] = TRUE]
    /\ UNCHANGED <<kind, duplex, eof, copy, done, calls, tracked, closing, closeAlls, failed>>

NewConnection(r) == kind[r] = "tcp" /\ Accept(r)
NewPacketConnection(r) == kind[r] = "udp" /\ Accept(r)

Track(r) == tracked \cup {r}

(* The dial succeeds, and the dialer tracks the connection. *)
Dialed(r) ==
    /\ pc[r] = "dial"
    /\ Goto(r, "report")
    /\ open' = [open EXCEPT ![r]["remote"] = TRUE]
    /\ tracked' = Track(r)
    /\ UNCHANGED <<kind, duplex, eof, copy, done, calls, closing, closeAlls, failed>>

(* The dial fails: CloseOnHandshakeFailure. *)
DialFails(r) ==
    /\ pc[r] = "dial"
    /\ Goto(r, "over")
    /\ CloseEnds(r, {"local"})
    /\ OnClose(r)
    /\ UNCHANGED <<kind, duplex, eof, copy, done, closing, closeAlls, failed>>

StartCopies(r) ==
    /\ Goto(r, "relay")
    /\ copy' = [copy EXCEPT ![r] = [d \in Directions |-> "copying"]]

(* The handshake is reported. *)
ReportConn(r) ==
    /\ pc[r] = "report" /\ kind[r] = "tcp"
    /\ Goto(r, "upload")
    /\ UNCHANGED <<kind, duplex, open, eof, copy, done, calls, tracked, closing, closeAlls, failed>>

(* The handshake is reported, and packets are relayed at once. *)
ReportPacketConn(r) ==
    /\ pc[r] = "report" /\ kind[r] = "udp"
    /\ StartCopies(r)
    /\ UNCHANGED <<kind, duplex, open, eof, done, calls, tracked, closing, closeAlls, failed>>

(* The report, or the TLS spoofing set up next, fails.  NewPacketConnection *)
(* does not call onClose here.                                              *)
ReportFails(r) ==
    /\ pc[r] = "report"
    /\ Goto(r, "over")
    /\ CloseEnds(r, Sides)
    /\ IF kind[r] = "tcp" THEN OnClose(r) ELSE UNCHANGED calls
    /\ UNCHANGED <<kind, duplex, eof, copy, done, closing, closeAlls, failed>>

(* kickWriteHandshake for one direction after the other, which has nothing *)
(* to do, or succeeds, or fails in a way that may be ignored.               *)
Kick(r) ==
    /\ pc[r] \in Directions
    /\ IF pc[r] = "upload" THEN Goto(r, "download") /\ UNCHANGED copy ELSE StartCopies(r)
    /\ UNCHANGED <<kind, duplex, open, eof, done, calls, tracked, closing, closeAlls, failed>>

KickFails(r) ==
    /\ pc[r] \in Directions
    /\ Goto(r, "over")
    /\ done' = [done EXCEPT ![r] = TRUE]
    /\ IF done[r] THEN UNCHANGED calls ELSE OnClose(r)
    /\ CloseEnds(r, Sides)
    /\ UNCHANGED <<kind, duplex, eof, copy, closing, closeAlls, failed>>

-----------------------------------------------------------------------------
(* The peer at an end finishes sending. *)
PeerEnds(r, s) ==
    /\ open[r][s] /\ ~eof[r][s]
    /\ pc[r] = "relay"
    /\ eof' = [eof EXCEPT ![r][s] = TRUE]
    /\ UNCHANGED <<kind, duplex, pc, open, copy, done, calls, tracked, closing, closeAlls, failed>>

(* Fault: the destination is closed at the end of the source. *)
EndOfStreamCloses(r, d) == {Destination(d)}

(* What connectionCopy closes when the source has ended: nothing but the   *)
(* write side, if it can.                                                  *)
EndOfStream(r, d) == IF duplex[r][Destination(d)] THEN {} ELSE {Destination(d)}

(* A direction ends without an error. *)
CopyEnds(r, d) ==
    /\ copy[r][d] = "copying"
    /\ eof[r][Source(d)]
    /\ open[r][Source(d)] /\ open[r][Destination(d)]
    /\ copy' = [copy EXCEPT ![r][d] = "swap"]
    /\ CloseEnds(r, IF kind[r] = "tcp" THEN EndOfStream(r, d) ELSE {})
    /\ UNCHANGED <<kind, duplex, pc, eof, done, calls, closing, closeAlls, failed>>

(* Fault: the ends stay open after an error. *)
AfterErrorNone(r) == {}

AfterError(r) == IF kind[r] = "tcp" THEN Sides ELSE {}

(* A direction ends with an error: a connection was closed under it, or     *)
(* fails, or its write side cannot be closed.                               *)
CopyFails(r, d) ==
    /\ copy[r][d] = "copying"
    /\ copy' = [copy EXCEPT ![r][d] = "swap"]
    /\ failed' = failed \cup {r}
    /\ CloseEnds(r, AfterError(r))
    /\ UNCHANGED <<kind, duplex, pc, eof, done, calls, closing, closeAlls>>

(* Fault: the first of two streams does, too. *)
CallsOnCloseFirst(r) == ~done[r]

(* done.Swap: the last of two streams calls onClose, the first of two       *)
(* packet directions does.                                                  *)
CallsOnClose(r) == IF kind[r] = "tcp" THEN done[r] ELSE ~done[r]

(* The last of two streams, and both packet directions, close the ends. *)
AfterSwap(r) == IF kind[r] = "tcp" /\ ~done[r] THEN "done" ELSE "close"

Swap(r, d) ==
    /\ copy[r][d] = "swap"
    /\ done' = [done EXCEPT ![r] = TRUE]
    /\ IF CallsOnClose(r) THEN OnClose(r) ELSE UNCHANGED calls
    /\ copy' = [copy EXCEPT ![r][d] = AfterSwap(r)]
    /\ UNCHANGED <<kind, duplex, pc, open, eof, tracked, closing, closeAlls, failed>>

(* The closing of both ends afterwards. *)
Close(r, d) ==
    /\ copy[r][d] = "close"
    /\ copy' = [copy EXCEPT ![r][d] = "done"]
    /\ CloseEnds(r, Sides)
    /\ UNCHANGED <<kind, duplex, pc, eof, done, calls, closing, closeAlls, failed>>

-----------------------------------------------------------------------------
(* CloseAll empties the list ... *)
CloseAll ==
    /\ closeAlls < MaxCloseAll
    /\ closeAlls' = closeAlls + 1
    /\ closing' = closing \cup tracked
    /\ tracked' = {}
    /\ UNCHANGED <<kind, duplex, pc, open, eof, copy, done, calls, failed>>

(* ... and closes what was on it, one after the other. *)
CloseOne(r) ==
    /\ r \in closing
    /\ closing' = closing \ {r}
    /\ open' = [open EXCEPT ![r]["remote"] = FALSE]
    /\ UNCHANGED <<kind, duplex, pc, eof, copy, done, calls, tracked, closeAlls, failed>>

Broken(r) == \E s \in Sides : ~open[r][s]

(* What a goroutine does by itself, without an event of the network. *)
Step(r, d) == CopyEnds(r, d) \/ (Broken(r) /\ CopyFails(r, d)) \/ Swap(r, d) \/ Close(r, d)

Next ==
    \/ \E r \in Relays :
         \/ NewConnection(r) \/ NewPacketConnection(r) \/ Dialed(r) \/ DialFails(r)
         \/ ReportConn(r) \/ ReportPacketConn(r) \/ ReportFails(r)
         \/ Kick(r) \/ KickFails(r) \/ CloseOne(r)
         \/ \E s \in Sides : PeerEnds(r, s)
         \/ \E d \in Directions : Step(r, d) \/ CopyFails(r, d)
    \/ CloseAll

(* Goroutines are scheduled; peers and the network need do nothing. *)
Spec == /\ Init /\ [][Next]_vars
        /\ \A r \in Relays : WF_vars(CloseOne(r))
        /\ \A r \in Relays, d \in Directions : WF_vars(Step(r, d))

-----------------------------------------------------------------------------
(* Properties. *)

Relayed(r) == pc[r] = "relay"
Ended(r) == pc[r] = "over" \/ (Relayed(r) /\ \A d \in Directions : copy[r][d] = "done")

(* onClose, which releases what the inbound holds for the connection, is   *)
(* called once at most, whichever goroutine ends first and however; and    *)
(* for a stream only when neither goroutine copies any more.  When all is  *)
(* over, it was called and both ends are closed.  The one exception is a   *)
(* packet connection whose handshake report failed.                        *)
OnCloseOnce ==
    \A r \in Relays :
        /\ calls[r] <= 1
        /\ calls[r] = 1 /\ kind[r] = "tcp" => \A d \in Directions : copy[r][d] # "copying"
        /\ Ended(r) => /\ ~open[r]["local"] /\ ~open[r]["remote"]
                       /\ kind[r] = "tcp" \/ Relayed(r) => calls[r] = 1

(* A stream that ends in one direction leaves the other alone: while       *)
(* nothing has failed and CloseAll has not run, both ends stay open until  *)
(* both directions have ended, if they can close their write sides.        *)
HalfClose ==
    \A r \in Relays :
        Relayed(r) /\ kind[r] = "tcp" /\ r \notin failed /\ closeAlls = 0
        /\ (\A s \in Sides : duplex[r][s]) /\ (\E d \in Directions : copy[r][d] = "copying")
            => \A s \in Sides : open[r][s]

(* CloseAll reaches every open remote connection, and the list keeps none  *)
(* that is closed.  The state is of its types.                             *)
TrackedOpen ==
    /\ TypeOK
    /\ \A r \in tracked : open[r]["remote"]
    /\ \A r \in Relays : open[r]["remote"] => r \in tracked \cup closing

(* Once a direction has failed, or an end was closed under the goroutines, *)
(* by CloseAll or because it cannot half-close, the whole relay comes to   *)
(* its end, although the other direction may be blocked in a read.         *)
TornDown == \A r \in Relays : (Relayed(r) /\ (Broken(r) \/ r \in failed)) ~> Ended(r)
==============================================================================
