------------------------ MODULE DNSTransportManager ------------------------
(***************************************************************************)
(* The registry of DNS servers (dns/transport_manager.go): a list, a map   *)
(* by tag, reverse dependencies, the default server and the fake-ip        *)
(* server, kept consistent by Create, Remove, Start and Close.  The calls  *)
(* are made one after another; a server may fail to start or to close.     *)
(* What startTransports starts is taken from its reference in StartOrder.  *)
(***************************************************************************)
EXTENDS Integers, Sequences, FiniteSets, Functions

CONSTANTS
    Tags,        \* tags of servers
    Local,       \* the tag of the fallback server, created by Start
    DefaultTag,  \* the configured default server, or None
    DepLists,    \* the dependencies a server may have
    MaxObjects,  \* bound: servers constructed
    None

Ids == 1..MaxObjects

ASSUME ManagerAssumption ==
    /\ Local \in Tags /\ None \notin Tags
    /\ DefaultTag \in Tags \cup {None}
    /\ DepLists \subseteq Seq(Tags)
    /\ MaxObjects \in Nat

VARIABLES
    objs,        \* the servers constructed so far, by id
    transports,  \* ids in order
    byTag,       \* transportByTag; 0 for an absent key
    dependBy,    \* dependByTag
    default,     \* defaultTransport, 0 for nil
    fakeip,      \* fakeIPTransport, 0 for nil
    started, stage,
    closed,      \* Close has run: the registry is not used any more
    blamed       \* history: servers an operation returned an error about

registry == <<transports, byTag, dependBy, default, fakeip>>
lifecycle == <<started, stage, closed>>
vars == <<objs, transports, byTag, dependBy, default, fakeip, started, stage, closed, blamed>>

Object == [tag : Tags, fakeip : BOOLEAN, deps : DepLists \cup {<<>>},
           life : {"new", "running", "closed"}]

TypeOK ==
    /\ objs \in Seq(Object) /\ Len(objs) <= MaxObjects
    /\ Range(transports) \subseteq 1..Len(objs) /\ IsInjective(transports)
    /\ byTag \in [Tags -> 0..Len(objs)]
    /\ dependBy \in [Tags -> Seq(Tags)]
    /\ default \in 0..Len(objs) /\ fakeip \in 0..Len(objs)
    /\ started \in BOOLEAN /\ stage \in 0..4 /\ closed \in BOOLEAN
    /\ blamed \subseteq 1..Len(objs)

Init ==
    /\ objs = <<>>
    /\ transports = <<>>
    /\ byTag = [t \in Tags |-> 0]
    /\ dependBy = [t \in Tags |-> <<>>]
    /\ default = 0 /\ fakeip = 0
    /\ started = FALSE /\ stage = 0 /\ closed = FALSE
    /\ blamed = {}

-----------------------------------------------------------------------------
(* Fault: a replaced server stays in the list. *)
WithoutKept(list, id) == list

Without(list, id) == SelectSeq(list, LAMBDA other : other # id)

(* Fault: a server of a running registry is not closed. *)
StoppedKept(all, id) == all

(* common.Close in a registry that is started. *)
Stopped(all, id) == IF started THEN [all EXCEPT ![id].life = "closed"] ELSE all

(* dependByTag after the removal of a server; a single entry is deleted     *)
(* whatever it is.                                                          *)
Independent(tag, deps) ==
    [t \in Tags |-> IF t \notin Range(deps) THEN dependBy[t]
                    ELSE IF Len(dependBy[t]) = 1 THEN <<>>
                    ELSE SelectSeq(dependBy[t], LAMBDA other : other # tag)]

Dependent(tag, deps) ==
    [t \in Tags |-> IF t \in Range(deps) THEN Append(dependBy[t], tag) ELSE dependBy[t]]

Listed(list, id) == Append(list, id)

(* Create, with the errors of a new server that does not start and of a     *)
(* replaced one that does not close; both return before the registry        *)
(* changes.  The errors about fake-ip come after it has.                    *)
CreateFails(object, exists) ==
    /\ started
    /\ \/ /\ objs' = Append(objs, [object EXCEPT !.life = "running"])
          /\ blamed' = blamed \cup {Len(objs) + 1}
       \/ /\ exists # 0
          /\ objs' = [Append(objs, [object EXCEPT !.life = "running"])
                         EXCEPT ![exists].life = "closed"]
          /\ blamed' = blamed \cup {Len(objs) + 1, exists}
    /\ UNCHANGED registry

CreateRegisters(object, exists) ==
    LET id == Len(objs) + 1
        all == Append(objs, [object EXCEPT !.life = IF started THEN "running" ELSE "new"])
        wanted == \/ object.tag = DefaultTag
                  \/ DefaultTag = None /\ default = 0
    IN  /\ objs' = IF exists = 0 THEN all ELSE Stopped(all, exists)
        /\ transports' = Listed(Without(transports, exists), id)
        /\ byTag' = [byTag EXCEPT ![object.tag] = id]
        /\ dependBy' = Dependent(object.tag, object.deps)
        /\ default' = IF wanted /\ ~object.fakeip THEN id ELSE default
        /\ fakeip' = IF object.fakeip /\ ~wanted /\ fakeip = 0 THEN id ELSE fakeip
        /\ blamed' = IF object.fakeip /\ (wanted \/ fakeip # 0)
                     THEN blamed \cup {id} ELSE blamed

Create(object) ==
    /\ ~closed
    /\ Len(objs) < MaxObjects
    /\ CreateFails(object, byTag[object.tag]) \/ CreateRegisters(object, byTag[object.tag])
    /\ UNCHANGED lifecycle

(* The next server is refused unless it is a fake-ip server. *)
NextDefaultRefused(id) == ~objs[id].fakeip

Remove(tag) ==
    LET id == byTag[tag]
        list == Without(transports, id)
        refused == default = id /\ list # <<>> /\ NextDefaultRefused(list[1])
        failed == refused \/ dependBy[tag] # <<>>
    IN  /\ ~closed
        /\ id # 0
        /\ byTag' = [byTag EXCEPT ![tag] = 0]
        /\ transports' = list
        /\ default' = IF default # id \/ refused THEN default
                      ELSE IF list = <<>> THEN 0 ELSE list[1]
        /\ IF failed
           THEN blamed' = blamed \cup {id} /\ UNCHANGED <<objs, dependBy>>
           ELSE /\ dependBy' = Independent(tag, objs[id].deps)
                /\ objs' = Stopped(objs, id)
                /\ UNCHANGED blamed
        /\ UNCHANGED <<fakeip, lifecycle>>

-----------------------------------------------------------------------------
(* The servers of the list, by tag; the largest set of tags whose members  *)
(* all wait for each other or for a missing tag.                           *)
Stuck(all, list) ==
    LET tags == {all[id].tag : id \in Range(list)}
        depsOf(t) == UNION {Range(all[id].deps) : id \in {i \in Range(list) : all[i].tag = t}}
    IN  UNION {s \in SUBSET tags : \A t \in s : ~(depsOf(t) \subseteq tags \ s)}

(* Start(StartStateStart): the default server, then startTransports, which  *)
(* stops at the first server that fails to start.                           *)
StartTransports ==
    LET needed == default = 0
        fallback == [tag |-> Local, fakeip |-> FALSE, deps |-> <<>>, life |-> "new"]
        all == IF needed THEN Append(objs, fallback) ELSE objs
        list == IF needed THEN Append(transports, Len(objs) + 1) ELSE transports
        runs == {id \in Range(list) : all[id].tag \notin Stuck(all, list)}
    IN  IF needed /\ DefaultTag # None
        THEN UNCHANGED <<objs, registry>>
        ELSE /\ Len(all) <= MaxObjects
             /\ \E ran \in SUBSET runs :
                  /\ \A id \in ran : Range(all[id].deps) \subseteq {all[i].tag : i \in ran}
                  /\ objs' = [id \in 1..Len(all) |->
                       IF id \in ran THEN [all[id] EXCEPT !.life = "running"] ELSE all[id]]
             /\ transports' = list
             /\ byTag' = IF needed THEN [byTag EXCEPT ![Local] = Len(all)] ELSE byTag
             /\ default' = IF needed THEN Len(all) ELSE default
             /\ UNCHANGED <<dependBy, fakeip>>

(* The next stage.  An error while the servers are created is the end of    *)
(* box.New, and there is no Start.                                          *)
Start ==
    /\ ~closed /\ stage < 4
    /\ stage < 2 => blamed = {}
    /\ started' = TRUE /\ stage' = stage + 1
    /\ IF stage = 1 THEN StartTransports ELSE UNCHANGED <<objs, registry>>
    /\ UNCHANGED <<closed, blamed>>

Close ==
    /\ started
    /\ started' = FALSE /\ closed' = TRUE
    /\ transports' = <<>>
    /\ objs' = [id \in DOMAIN objs |-> IF id \in Range(transports)
                  THEN [objs[id] EXCEPT !.life = "closed"] ELSE objs[id]]
    /\ UNCHANGED <<byTag, dependBy, default, fakeip, stage, blamed>>

Next ==
    \/ \E tag \in Tags, isFakeIP \in BOOLEAN, deps \in DepLists :
          Create([tag |-> tag, fakeip |-> isFakeIP, deps |-> deps, life |-> "new"])
    \/ \E tag \in Tags : Remove(tag)
    \/ Start \/ Close

Spec == Init /\ [][Next]_vars

-----------------------------------------------------------------------------
(* Properties. *)

(* The list and the map hold the same servers under their own tags, after  *)
(* every error path too: the index that Remove and Create look for exists, *)
(* and they do not panic.  The state is of its types.                      *)
ListMatchesMap ==
    /\ TypeOK
    /\ ~closed =>
          /\ Range(transports) = {byTag[t] : t \in Tags} \ {0}
          /\ \A t \in Tags : byTag[t] # 0 => objs[byTag[t]].tag = t

(* A server that runs can be reached to be closed, unless an error was     *)
(* returned about it: replacing, removing and closing leave none behind.   *)
NoSilentLeak ==
    \A id \in 1..Len(objs) :
        objs[id].life = "running" => id \in Range(transports) \cup blamed

(* The default server is not the fake-ip server.                           *)
DefaultNotFakeIP == default # 0 => ~objs[default].fakeip
=============================================================================
