---------------------------- MODULE UDPTransport ----------------------------
(***************************************************************************)
(* The DNS over UDP transport (dns/transport/udp.go): queries share one    *)
(* connection of the pool, are told apart by a 16 bit ID that the          *)
(* transport gives out, and are answered by the receive loop of the        *)
(* connection over a network that loses, delays, reorders and duplicates.  *)
(* The pool is the single-connection pool of ConnPool, by what it          *)
(* promises: at most one tracked connection, one receive loop for each.    *)
(* Queries are numbered as they register; the number stands for the        *)
(* question.                                                               *)
(***************************************************************************)
EXTENDS Integers, FiniteSets

CONSTANTS
    Callers,        \* goroutines in exchange
    Conns,          \* connections, each used once; bound
    Limits,         \* bounds, of which each behaviour has one:
                    \*   ids: number of query IDs (65536 in the code)
                    \*   sizes: EDNS UDP sizes; the smallest is the initial udpSize
                    \*   queries: queries that register
    None

ASSUME UDPAssumption ==
    \A l \in Limits : /\ {l.ids, l.queries} \subseteq Nat \ {0}
                      /\ l.sizes \subseteq Nat /\ l.sizes # {}

Min(S) == CHOOSE x \in S : \A y \in S : x <= y

VARIABLES
    limits,     \* the bounds of this behaviour
    udpSize,
    queryId,    \* the ID given out last
    callbacks,  \* callbacks[i]: the caller registered under the ID, or None
    caller,     \* caller[p]
    shared,     \* the connection the pool tracks, or None
    conn,       \* conn[c]: the connection and its receive loop
    net,        \* responses on their way
    queries     \* queries that have registered

vars == <<limits, udpSize, queryId, callbacks, caller, shared, conn, net, queries>>

IdSpace == limits.ids
Sizes == limits.sizes
MaxQueries == limits.queries
Ids == 0..(IdSpace - 1)

(* closes: how often the done channel was closed. *)
CallerType == [pc : {"idle", "reset", "acquire", "register", "write", "wait"},
               size : Sizes \cup {0}, conn : Conns \cup {None}, id : Ids,
               query : 0..MaxQueries, response : 0..MaxQueries, closes : Nat]
(* owner, query: the callback object the loop has found, and message: the  *)
(* response it has read.                                                   *)
ConnType == [open : BOOLEAN, loop : {"none", "alloc", "read", "deliver"}, buffer : Sizes \cup {0},
             owner : Callers \cup {None}, query : 0..MaxQueries, message : 0..MaxQueries]
Packet == [conn : Conns, id : Ids, query : 1..MaxQueries, size : Sizes]

TypeOK ==
    /\ limits \in Limits
    /\ udpSize \in Sizes
    /\ queryId \in Ids
    /\ callbacks \in [Ids -> Callers \cup {None}]
    /\ caller \in [Callers -> CallerType]
    /\ shared \in Conns \cup {None}
    /\ conn \in [Conns -> ConnType]
    /\ net \subseteq Packet
    /\ queries \in 0..MaxQueries

IdleCaller == [pc |-> "idle", size |-> 0, conn |-> None, id |-> 0, query |-> 0,
               response |-> 0, closes |-> 0]
NewConn == [open |-> FALSE, loop |-> "none", buffer |-> 0, owner |-> None, query |-> 0,
            message |-> 0]

Init ==
    /\ limits \in Limits
    /\ udpSize = Min(Sizes)
    /\ queryId = 0
    /\ callbacks = [i \in Ids |-> None]
    /\ caller = [p \in Callers |-> IdleCaller]
    /\ shared = None
    /\ conn = [c \in Conns |-> NewConn]
    /\ net = {}
    /\ queries = 0

-----------------------------------------------------------------------------
(* The pool: the tracked connection is dropped and closed, and the context *)
(* of its users cancelled.                                                 *)
Drop(c) ==
    /\ shared' = IF shared = c THEN None ELSE shared
    /\ conn' = IF c = None THEN conn ELSE [conn EXCEPT ![c].open = FALSE]

(* Fault: the connection with the small buffer is kept. *)
GrownKeeps == "acquire"

Grown == "reset"

Larger(size) == IF size > udpSize THEN size ELSE udpSize

(* exchange: udpSize is raised to the size of the query; whoever raises it *)
(* resets the pool.                                                        *)
Exchange(p, size) ==
    /\ caller[p].pc = "idle"
    /\ queries < MaxQueries
    /\ udpSize' = Larger(size)
    /\ caller' = [caller EXCEPT ![p] = [IdleCaller EXCEPT
                    !.pc = IF size > udpSize THEN Grown ELSE "acquire", !.size = size]]
    /\ UNCHANGED <<limits, queryId, callbacks, shared, conn, net, queries>>

ResetPool(p) ==
    /\ caller[p].pc = "reset"
    /\ caller' = [caller EXCEPT ![p].pc = "acquire"]
    /\ Drop(shared)
    /\ UNCHANGED <<limits, udpSize, queryId, callbacks, net, queries>>

(* AcquireShared: the tracked connection, or a new one with its receive    *)
(* loop, or an error.                                                      *)
Acquire(p) ==
    /\ caller[p].pc = "acquire"
    /\ \/ /\ shared # None
          /\ caller' = [caller EXCEPT ![p].pc = "register", ![p].conn = shared]
          /\ UNCHANGED <<shared, conn>>
       \/ /\ shared = None
          /\ \E c \in Conns :
               /\ conn[c] = NewConn
               /\ shared' = c
               /\ conn' = [conn EXCEPT ![c].open = TRUE, ![c].loop = "alloc"]
               /\ caller' = [caller EXCEPT ![p].pc = "register", ![p].conn = c]
       \/ /\ shared = None
          /\ caller' = [caller EXCEPT ![p] = IdleCaller]
          /\ UNCHANGED <<shared, conn>>
    /\ UNCHANGED <<limits, udpSize, queryId, callbacks, net, queries>>


(* The k-th ID that nextAvailableQueryId tries. *)
Candidate(k) == (queryId + k) % IdSpace

Free(k) == callbacks[Candidate(k)] = None

(* nextAvailableQueryId, and the registration under callbackAccess.        *)
Register(p) ==
    LET free == {k \in 1..IdSpace : Free(k)}
        id == Candidate(Min(free))
    IN  /\ caller[p].pc = "register"
        /\ IF free = {}
           THEN /\ caller' = [caller EXCEPT ![p] = IdleCaller]
                /\ UNCHANGED <<queryId, callbacks, queries>>
           ELSE /\ queries < MaxQueries
                /\ queries' = queries + 1
                /\ queryId' = id
                /\ callbacks' = [callbacks EXCEPT ![id] = p]
                /\ caller' = [caller EXCEPT ![p].pc = "write", ![p].id = id,
                                            ![p].query = queries + 1]
        /\ UNCHANGED <<limits, udpSize, shared, conn, net>>

(* Fault: the callback of a failed query stays. *)
ReturnKeeps(p) == UNCHANGED callbacks /\ caller' = [caller EXCEPT ![p] = IdleCaller]

(* exchange returns; its callback is deleted. *)
Return(p) ==
    /\ callbacks' = [callbacks EXCEPT ![caller[p].id] = None]
    /\ caller' = [caller EXCEPT ![p] = IdleCaller]

(* The request is written; the server's response, if there is one, is on   *)
(* its way.                                                                *)
Write(p) ==
    /\ caller[p].pc = "write"
    /\ conn[caller[p].conn].open
    /\ caller' = [caller EXCEPT ![p].pc = "wait"]
    /\ \E size \in {s \in Sizes : s <= caller[p].size} :
         net' = net \cup {[conn |-> caller[p].conn, id |-> caller[p].id,
                           query |-> caller[p].query, size |-> size]}
    /\ UNCHANGED <<limits, udpSize, queryId, callbacks, shared, conn, queries>>

(* The write fails: the connection is invalidated. *)
WriteFails(p) ==
    /\ caller[p].pc = "write"
    /\ Drop(caller[p].conn)
    /\ Return(p)
    /\ UNCHANGED <<limits, udpSize, queryId, net, queries>>

(* The response, or the end of the connection. *)
Answered(p) == caller[p].pc = "wait" /\ caller[p].closes > 0


ConnEnded(p) == caller[p].pc = "wait" /\ ~conn[caller[p].conn].open

Finish(p) ==
    /\ Answered(p) \/ ConnEnded(p)
    /\ Return(p)
    /\ UNCHANGED <<limits, udpSize, queryId, shared, conn, net, queries>>

(* ctx is done first. *)
Timeout(p) ==
    /\ caller[p].pc = "wait"
    /\ Return(p)
    /\ UNCHANGED <<limits, udpSize, queryId, shared, conn, net, queries>>

-----------------------------------------------------------------------------
(* recvLoop: the buffer is allocated before the read. *)
Alloc(c) ==
    /\ conn[c].loop = "alloc"
    /\ conn' = [conn EXCEPT ![c].loop = "read", ![c].buffer = udpSize]
    /\ UNCHANGED <<limits, udpSize, queryId, callbacks, caller, shared, net, queries>>

(* Bound: a response that is this late is lost.  Only then can its ID have *)
(* come round: all others were given out or in use meanwhile.              *)
Late(m) ==
    /\ queries > m.query
    /\ queries - m.query > IdSpace - Cardinality(Callers)

(* A response is read; it may come again.  One that does not fit is        *)
(* malformed, one nobody waits for is dropped.                             *)
Receive(c, m) ==
    LET owner == callbacks[m.id]
    IN  /\ conn[c].loop = "read" /\ conn[c].open
        /\ m \in net /\ m.conn = c /\ ~Late(m)
        /\ \/ net' = net \ {m} \/ UNCHANGED net
        /\ conn' = [conn EXCEPT ![c] =
                      IF m.size > conn[c].buffer \/ owner = None
                      THEN [@ EXCEPT !.loop = "alloc"]
                      ELSE [@ EXCEPT !.loop = "deliver", !.owner = owner,
                                     !.query = caller[owner].query, !.message = m.query]]
        /\ UNCHANGED <<limits, udpSize, queryId, callbacks, caller, shared, queries>>

First(p) == caller[p].closes = 0

(* The callback gets the response, if it has none; its query may be over.  *)
Deliver(c) ==
    LET p == conn[c].owner
    IN  /\ conn[c].loop = "deliver"
        /\ conn' = [conn EXCEPT ![c].loop = "alloc", ![c].owner = None,
                                ![c].query = 0, ![c].message = 0]
        /\ caller' = IF caller[p].query = conn[c].query /\ First(p)
                     THEN [caller EXCEPT ![p].response = conn[c].message, ![p].closes = @ + 1]
                     ELSE caller
        /\ UNCHANGED <<limits, udpSize, queryId, callbacks, shared, net, queries>>

(* The read fails: the loop ends and the connection is invalidated.  An    *)
(* open connection may fail at any time.                                   *)
ReadFails(c) ==
    /\ conn[c].loop = "read"
    /\ shared' = IF shared = c THEN None ELSE shared
    /\ conn' = [conn EXCEPT ![c].open = FALSE, ![c].loop = "none"]
    /\ UNCHANGED <<limits, udpSize, queryId, callbacks, caller, net, queries>>

(* The network loses a response. *)
Lose(m) ==
    /\ net' = net \ {m}
    /\ UNCHANGED <<limits, udpSize, queryId, callbacks, caller, shared, conn, queries>>

(* Reset by the network manager. *)
Reset ==
    /\ shared # None
    /\ Drop(shared)
    /\ UNCHANGED <<limits, udpSize, queryId, callbacks, caller, net, queries>>

QueryStep(p) == ResetPool(p) \/ Acquire(p) \/ Register(p) \/ Write(p) \/ WriteFails(p) \/ Finish(p)
LoopStep(c) == Alloc(c) \/ Deliver(c) \/ (~conn[c].open /\ ReadFails(c))

Next ==
    \/ \E p \in Callers : \/ \E size \in Sizes : Exchange(p, size)
                          \/ QueryStep(p) \/ Timeout(p)
    \/ \E c \in Conns : LoopStep(c) \/ ReadFails(c) \/ \E m \in net : Receive(c, m)
    \/ \E m \in net : Lose(m)
    \/ Reset

(* The goroutines are scheduled; queries need not time out, nor responses  *)
(* arrive.                                                                 *)
Spec == /\ Init /\ [][Next]_vars
        /\ \A p \in Callers : WF_vars(QueryStep(p))
        /\ \A c \in Conns : WF_vars(LoopStep(c))

-----------------------------------------------------------------------------
(* Properties. *)

InFlight(p) == caller[p].pc \in {"write", "wait"}


(* The callbacks are those of the queries in flight, each under its own    *)
(* ID: none is lost to a second query, none stays behind to use up IDs.    *)
(* The state is of its types.                                              *)
CallbacksInFlight ==
    /\ TypeOK
    /\ \A i \in Ids, p \in Callers :
          (callbacks[i] = p) <=> (InFlight(p) /\ caller[p].id = i)

(* Once the pool was reset, no query waits on a connection whose loop      *)
(* reads into a buffer smaller than the size that the query has announced. *)
BufferFits ==
    (\A p \in Callers : caller[p].pc # "reset") =>
        \A p \in Callers :
            caller[p].pc = "wait" /\ conn[caller[p].conn].open /\ conn[caller[p].conn].loop = "read"
                => caller[p].size <= conn[caller[p].conn].buffer

=============================================================================
