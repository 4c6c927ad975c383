----------------------------- MODULE DNSClient -----------------------------
(***************************************************************************)
(* The cache of the DNS client (dns/client.go), for one cache key: a       *)
(* question asked of one transport.  Keys do not interact.  A query runs   *)
(* lookupToExchange and Exchange; queries for one key coalesce on          *)
(* cacheLock, expired answers may be served while one goroutine refreshes  *)
(* them (optimistic caching), and rejected answers are remembered (RDRC).  *)
(*                                                                         *)
(* An answer's body is "in" or "out" for a NOERROR or NXDOMAIN answer that *)
(* a response checker accepts or rejects, and "servfail" for every other   *)
(* rcode.  Each access of a shared map or of the cache is a step.          *)
(***************************************************************************)
EXTENDS Integers, FiniteSets

CONSTANTS
    Queries,         \* goroutines that ask this question, one call at a time
    Options,         \* the option records a query may have, see OptionType
    TTLs,            \* lifetimes of answers
    Optimistic,      \* optimisticTimeout; 0 when it is off
    DisableExpire,   \* ClientOptions.DisableExpire
    Persistent,      \* answers are kept in the cache file, not in memory
    HasRDRC,         \* a rejected-response cache is configured
    MaxTime,         \* bound: the clock
    MaxCalls         \* bound: queries in a behaviour

NoOne == "noone"
NoAnswer == [body |-> "none", expire |-> 0]
Bodies == {"in", "out", "servfail"}

(* Some query has not left an answer in the cache, or an answer was lost   *)
(* or grew old: exchanges are not counted any more.                        *)
Disturbed == -1

(* cache: caching is not disabled; simple: isSimpleRequest; lookup: through  *)
(* lookupToExchange rather than Exchange; checked: a responseChecker is      *)
(* given; strict: DisableOptimisticCache; loop: the context already carries  *)
(* this transport.                                                           *)
OptionType == [cache : BOOLEAN, simple : BOOLEAN, lookup : BOOLEAN,
               checked : BOOLEAN, strict : BOOLEAN, loop : BOOLEAN]

ASSUME ClientAssumption ==
    /\ NoOne \notin Queries
    /\ Options \subseteq OptionType
    /\ TTLs \subseteq Nat
    /\ {Optimistic, MaxTime, MaxCalls} \subseteq Nat
    /\ {DisableExpire, Persistent, HasRDRC} \subseteq BOOLEAN

VARIABLES
    now,        \* time.Now
    entry,      \* the cached answer
    cacheLock,  \* whose channel is stored under the key, or NoOne
    refreshing, \* the key is in backgroundRefresh
    rdrc,       \* the key is in the rejected-response cache
    query,      \* query[q]: place in the code and locals
    refresh,    \* refresh[q]: the goroutine started by q's backgroundRefreshDNS
    exchanges,  \* history: exchanges sent by cached queries, or Disturbed
    calls       \* calls so far, for the bound

vars == <<now, entry, cacheLock, refreshing, rdrc, query, refresh, exchanges, calls>>

AnswerType == [body : Bodies \cup {"none"}, expire : Nat]
QueryPc == {"idle", "question", "qremove", "lock", "wait", "load", "remove",
            "stale", "check", "exchange", "answered", "unlock", "close"}
QueryType == [pc : QueryPc, opt : OptionType, cond : Queries \cup {NoOne},
              answer : AnswerType]
RefreshType == [pc : {"none", "exchange", "answered"}, checked : BOOLEAN,
                answer : AnswerType]

TypeOK ==
    /\ now \in 0..MaxTime
    /\ entry \in AnswerType
    /\ cacheLock \in Queries \cup {NoOne}
    /\ refreshing \in BOOLEAN /\ rdrc \in BOOLEAN
    /\ query \in [Queries -> QueryType]
    /\ refresh \in [Queries -> RefreshType]
    /\ exchanges \in Disturbed..MaxCalls /\ calls \in 0..MaxCalls

NoOptions == [cache |-> FALSE, simple |-> FALSE, lookup |-> FALSE,
              checked |-> FALSE, strict |-> FALSE, loop |-> FALSE]
IdleQuery == [pc |-> "idle", opt |-> NoOptions, cond |-> NoOne,
              answer |-> NoAnswer]
NoRefresh == [pc |-> "none", checked |-> FALSE, answer |-> NoAnswer]

Init ==
    /\ now = 0
    /\ entry = NoAnswer
    /\ cacheLock = NoOne
    /\ refreshing = FALSE /\ rdrc = FALSE
    /\ query = [q \in Queries |-> IdleQuery]
    /\ refresh = [q \in Queries |-> NoRefresh]
    /\ exchanges = 0 /\ calls = 0

-----------------------------------------------------------------------------
At(q, label) == query[q].pc = label
SetQuery(q, r) == query' = [query EXCEPT ![q] = r]
Goto(q, label) == SetQuery(q, [query[q] EXCEPT !.pc = label])

(* disableCache in Exchange, which a lookup's first look does not consider. *)
Cached(opt) == opt.cache /\ opt.simple
Enter(opt) == IF Cached(opt) THEN "lock" ELSE "check"

(* What loadResponse and loadPersistentResponse make of the entry. *)
Loaded ==
    IF entry = NoAnswer THEN "none"
    ELSE IF DisableExpire \/ now <= entry.expire THEN "fresh"
    ELSE IF now < entry.expire + Optimistic THEN "stale"
    ELSE IF Persistent THEN "none" ELSE "expired"

(* Fault: a query that failed leaves its channel in the map. *)
LeaveFailing(q, result) ==
    IF cacheLock = q /\ result # "error" THEN "unlock" ELSE "idle"

(* The deferred unlocking, for the query that stored the channel. *)
Leave(q, result) == IF cacheLock = q THEN "unlock" ELSE "idle"

(* A query returns: its locals die. *)
Return(q, result) == SetQuery(q, [IdleQuery EXCEPT !.pc = Leave(q, result)])

(* Fault: an answer of any rcode is cached. *)
CacheableAny(answer) == TRUE

Cacheable(answer) == answer.body # "servfail"

(* A responseChecker is never asked about a failing rcode. *)
Rejected(checked, answer) == checked /\ answer.body # "in"

(* storeCache, with the answer's lifetime. *)
storeCache(answer) ==
    \E ttl \in TTLs :
        entry' = IF ttl = 0 THEN entry ELSE [answer EXCEPT !.expire = now + ttl]

-----------------------------------------------------------------------------
(* A call: Exchange, or lookupToExchange which looks into the cache first. *)
Exchange(q, opt) ==
    /\ At(q, "idle")
    /\ calls < MaxCalls
    /\ calls' = calls + 1
    /\ SetQuery(q, [IdleQuery EXCEPT !.opt = opt,
           !.pc = IF opt.lookup /\ opt.cache THEN "question" ELSE Enter(opt)])
    /\ UNCHANGED <<now, entry, cacheLock, refreshing, rdrc, refresh, exchanges>>

(* The entry is served: at once when it is fresh, after backgroundRefreshDNS *)
(* when it is stale.                                                         *)
Serve(q) ==
    \/ Loaded = "fresh" /\ Return(q, "ok")
    \/ /\ Loaded = "stale" /\ ~query[q].opt.strict
       /\ Goto(q, "stale")

Missed(q) == \/ Loaded = "none"
             \/ Loaded = "stale" /\ query[q].opt.strict

(* questionCache, without the lock. *)
questionCache(q) ==
    /\ At(q, "question")
    /\ \/ Serve(q)
       \/ Missed(q) /\ Goto(q, Enter(query[q].opt))
       \/ Loaded = "expired" /\ Goto(q, "qremove")
    /\ UNCHANGED <<now, entry, cacheLock, refreshing, rdrc, refresh, exchanges, calls>>

(* cacheLock.LoadOrStore *)
LoadOrStore(q) ==
    /\ At(q, "lock")
    /\ IF cacheLock = NoOne
       THEN cacheLock' = q /\ Goto(q, "load")
       ELSE /\ SetQuery(q, [query[q] EXCEPT !.pc = "wait", !.cond = cacheLock])
            /\ UNCHANGED cacheLock
    /\ UNCHANGED <<now, entry, refreshing, rdrc, refresh, exchanges, calls>>

(* Fault: a query that waited does not look into the cache again. *)
WokenExchanges(q) == "check"

Woken(q) == "load"

(* The channel was closed. *)
Wait(q) ==
    /\ At(q, "wait")
    /\ query[q].cond = NoOne
    /\ Goto(q, Woken(q))
    /\ UNCHANGED <<now, entry, cacheLock, refreshing, rdrc, refresh, exchanges, calls>>

(* The caller's context ended first. *)
Cancel(q) ==
    /\ At(q, "wait")
    /\ Return(q, "error")
    /\ UNCHANGED <<now, entry, cacheLock, refreshing, rdrc, refresh, exchanges, calls>>

loadResponse(q) ==
    /\ At(q, "load")
    /\ \/ Serve(q)
       \/ Missed(q) /\ Goto(q, "check")
       \/ Loaded = "expired" /\ Goto(q, "remove")
    /\ UNCHANGED <<now, entry, cacheLock, refreshing, rdrc, refresh, exchanges, calls>>

(* loadResponse: cache.Remove, after the entry was found to be too old. *)
Remove(q) ==
    /\ query[q].pc \in {"remove", "qremove"}
    /\ entry' = NoAnswer
    /\ Goto(q, IF At(q, "remove") THEN "check" ELSE Enter(query[q].opt))
    /\ UNCHANGED <<now, cacheLock, refreshing, rdrc, refresh, exchanges, calls>>

RefreshIdle == ~refreshing

(* backgroundRefreshDNS, and the stale answer is returned. *)
backgroundRefreshDNS(q) ==
    /\ At(q, "stale")
    /\ IF RefreshIdle
       THEN /\ refreshing' = TRUE
            /\ refresh' = [refresh EXCEPT ![q] =
                 [NoRefresh EXCEPT !.pc = "exchange", !.checked = query[q].opt.checked]]
       ELSE UNCHANGED <<refreshing, refresh>>
    /\ Return(q, "ok")
    /\ UNCHANGED <<now, entry, cacheLock, rdrc, exchanges, calls>>

(* The loopback check and LoadRDRC, before the transport is asked. *)
Check(q) ==
    LET opt == query[q].opt
    IN  /\ At(q, "check")
        /\ \/ opt.loop /\ Return(q, "loopback") /\ exchanges' = Disturbed
           \/ /\ ~opt.loop /\ Cached(opt) /\ opt.checked /\ HasRDRC /\ rdrc
              /\ Return(q, "rejectedCached")
              /\ UNCHANGED exchanges
           \/ /\ ~opt.loop /\ ~(Cached(opt) /\ opt.checked /\ HasRDRC /\ rdrc)
              /\ Goto(q, "exchange")
              /\ exchanges' = IF Cached(opt) /\ exchanges # Disturbed THEN exchanges + 1 ELSE exchanges
        /\ UNCHANGED <<now, entry, cacheLock, refreshing, rdrc, refresh, calls>>

(* exchangeToTransport: an answer of some body, an rcode error, or failure. *)
exchangeToTransport(q) ==
    /\ At(q, "exchange")
    /\ \/ /\ \E body \in Bodies :
                SetQuery(q, [query[q] EXCEPT !.pc = "answered", !.answer.body = body])
          /\ UNCHANGED exchanges
       \/ Return(q, "error") /\ exchanges' = Disturbed
    /\ UNCHANGED <<now, entry, cacheLock, refreshing, rdrc, refresh, calls>>

(* The rest of Exchange: reject and remember, or store and return. *)
Answered(q) ==
    LET answer == query[q].answer
        cached == Cached(query[q].opt) /\ Cacheable(answer)
    IN  /\ At(q, "answered")
        /\ IF Rejected(query[q].opt.checked, answer)
           THEN /\ rdrc' = (rdrc \/ (cached /\ HasRDRC))
                /\ Return(q, "rejected")
                /\ UNCHANGED entry
           ELSE /\ IF cached THEN storeCache(answer) ELSE UNCHANGED entry
                /\ Return(q, "ok")
                /\ UNCHANGED rdrc
        /\ exchanges' = IF Cached(query[q].opt) /\ entry' = entry THEN Disturbed ELSE exchanges
        /\ UNCHANGED <<now, cacheLock, refreshing, refresh, calls>>

(* The deferred cacheLock.Delete. *)
Unlock(q) ==
    /\ At(q, "unlock")
    /\ cacheLock' = NoOne
    /\ Goto(q, "close")
    /\ UNCHANGED <<now, entry, refreshing, rdrc, refresh, exchanges, calls>>

(* The deferred close(cond) wakes whoever waits on this channel. *)
CloseCond(q) ==
    /\ At(q, "close")
    /\ query' = [w \in Queries |->
                   IF w = q THEN [query[q] EXCEPT !.pc = "idle"]
                   ELSE IF At(w, "wait") /\ query[w].cond = q
                   THEN [query[w] EXCEPT !.cond = NoOne] ELSE query[w]]
    /\ UNCHANGED <<now, entry, cacheLock, refreshing, rdrc, refresh, exchanges, calls>>

-----------------------------------------------------------------------------
(* The goroutine of backgroundRefreshDNS. *)

(* The deferred backgroundRefresh.Delete. *)
RefreshDone(q) ==
    /\ refresh' = [refresh EXCEPT ![q] = NoRefresh]
    /\ refreshing' = FALSE

RefreshExchange(q) ==
    /\ refresh[q].pc = "exchange"
    /\ \/ /\ \E body \in Bodies :
                refresh' = [refresh EXCEPT ![q] = [@ EXCEPT !.pc = "answered",
                               !.answer = [NoAnswer EXCEPT !.body = body]]]
          /\ UNCHANGED refreshing
       \/ RefreshDone(q)
    /\ UNCHANGED <<now, entry, cacheLock, rdrc, query, exchanges, calls>>

RefreshAnswered(q) ==
    LET answer == refresh[q].answer
    IN  /\ refresh[q].pc = "answered"
        /\ \/ /\ Rejected(refresh[q].checked, answer)
              /\ rdrc' = (rdrc \/ HasRDRC)
              /\ UNCHANGED entry
           \/ /\ ~Rejected(refresh[q].checked, answer) /\ ~Cacheable(answer)
              /\ UNCHANGED <<rdrc, entry>>
           \/ /\ ~Rejected(refresh[q].checked, answer) /\ Cacheable(answer)
              /\ storeCache(answer)
              /\ UNCHANGED rdrc
        /\ RefreshDone(q)
        /\ UNCHANGED <<now, cacheLock, query, exchanges, calls>>

-----------------------------------------------------------------------------
(* ClearCache; an eviction by the bounded cache looks the same to this key. *)
ClearCache ==
    /\ entry # NoAnswer
    /\ entry' = NoAnswer
    /\ exchanges' = Disturbed
    /\ UNCHANGED <<now, cacheLock, refreshing, rdrc, query, refresh, calls>>

Tick ==
    /\ now < MaxTime
    /\ now' = now + 1
    /\ exchanges' = Disturbed
    /\ UNCHANGED <<entry, cacheLock, refreshing, rdrc, query, refresh, calls>>

QueryStep(q) ==
    \/ questionCache(q) \/ LoadOrStore(q) \/ Wait(q) \/ loadResponse(q) \/ Remove(q)
    \/ backgroundRefreshDNS(q) \/ Check(q) \/ exchangeToTransport(q) \/ Answered(q)
    \/ Unlock(q) \/ CloseCond(q)

RefreshStep(q) == RefreshExchange(q) \/ RefreshAnswered(q)

Next ==
    \/ \E q \in Queries : \/ \E opt \in Options : Exchange(q, opt)
                          \/ QueryStep(q) \/ Cancel(q) \/ RefreshStep(q)
    \/ ClearCache \/ Tick

Spec == Init /\ [][Next]_vars

(* Goroutines run, and a transport's exchange ends with its timeout. *)
Fairness == \A q \in Queries : WF_vars(QueryStep(q)) /\ WF_vars(RefreshStep(q))

FairSpec == Spec /\ Fairness

-----------------------------------------------------------------------------
(* Properties. *)

(* An answer other than NOERROR and NXDOMAIN never gets into the cache,    *)
(* neither from Exchange nor from the background refresh, whether or not a *)
(* response checker is given.  The state is of its types.                  *)
FailuresNotCached == TypeOK /\ entry.body # "servfail"

(* The purpose of cacheLock: as long as queries leave an answer in the     *)
(* cache, and it is neither cleared nor grows old, the queries that may    *)
(* use the cache send one exchange between them, however they overlap.     *)
(* The stale answers they are served start one refresh at a time, which    *)
(* holds the key in backgroundRefresh as long as it runs.                  *)
Coalesced ==
    /\ exchanges <= 1
    /\ Cardinality({q \in Queries : refresh[q].pc # "none"}) = IF refreshing THEN 1 ELSE 0

(* Every query returns, whether it exchanges, waits for another query that *)
(* fails, or is served a stale answer: no wake-up is lost between the      *)
(* Delete on cacheLock, the close and the next LoadOrStore.  A refresh     *)
(* ends too, and with it its claim on the key.                             *)
ExchangeReturns ==
    /\ \A q \in Queries : ~At(q, "idle") ~> At(q, "idle")
    /\ refreshing ~> ~refreshing
=============================================================================
