---------------------------- MODULE StartOrder -----------------------------
(***************************************************************************)
(* Starting members in the order of their dependencies:                    *)
(* startOutbounds (adapter/outbound/manager.go) and startTransports        *)
(* (dns/transport_manager.go), which are the same loop.  Passes over the   *)
(* list start every member whose dependencies are started; a pass that     *)
(* starts nothing ends the loop, and a walk along unstarted dependencies   *)
(* finds out what to report.                                               *)
(*                                                                         *)
(* Tags are distinct, as checkOutbounds and the registries ensure.  The    *)
(* list of startOutbounds ends with the endpoints, which the walk does not *)
(* find in outboundByTag; startTransports has none.                        *)
(***************************************************************************)
EXTENDS Integers, Sequences, FiniteSets, SequencesExt

CONSTANTS
    Members,     \* the tags that may be in the list, as a sequence
    Ghost,       \* a tag that no member has
    MaxDeps,     \* bound: dependencies of a member
    MaxFailing   \* bound: members whose Start returns an error

Tags == ToSet(Members)

ASSUME StartAssumption ==
    /\ Members \in Seq(Tags) /\ IsInjective(Members)
    /\ Ghost \notin Tags
    /\ {MaxDeps, MaxFailing} \subseteq Nat

VARIABLES
    list,        \* the members to start, in order
    byTag,       \* the tags the walk finds: those of outboundByTag
    deps,        \* deps[t]: Dependencies of t
    failing,     \* members whose Start fails
    started,     \* the map of the same name
    order,       \* history: members in the order they were started
    index,       \* the member the pass is at
    canContinue, \* this pass started a member
    tree,        \* oTree of the walk
    result       \* what the loop returned

config == <<list, byTag, deps, failing>>
vars == <<list, byTag, deps, failing, started, order, index, canContinue, tree, result>>

DepLists == UNION {{s \in [1..n -> Tags \cup {Ghost}] : IsInjective(s)} : n \in 0..MaxDeps}
Results == {"running", "ok", "failed", "circular", "notfound"}

TypeOK ==
    /\ started \in SUBSET ToSet(list)
    /\ ToSet(order) \subseteq started /\ IsInjective(order)
    /\ index \in 1..(Len(list) + 1)
    /\ canContinue \in BOOLEAN
    /\ ToSet(tree) \subseteq ToSet(list)
    /\ result \in Results

Init ==
    /\ \E n \in 0..Len(Members) : \E outbounds \in 0..n :
          /\ list = SubSeq(Members, 1, n)
          /\ byTag = ToSet(SubSeq(Members, 1, outbounds))
    /\ deps \in [ToSet(list) -> DepLists]
    /\ failing \in {s \in SUBSET ToSet(list) : Cardinality(s) <= MaxFailing}
    /\ started = {}
    /\ order = <<>>
    /\ index = 1
    /\ canContinue = FALSE
    /\ tree = <<>>
    /\ result = "running"

-----------------------------------------------------------------------------
Passing == result = "running" /\ tree = <<>>

(* Fault: one started dependency is enough. *)
ReadyAny(t) == deps[t] = <<>> \/ ToSet(deps[t]) \cap started # {}

Ready(t) == ToSet(deps[t]) \subseteq started

Skip(t) == t \in started

(* The body of the loop for one member: skipped, put off or started. *)
StartOne ==
    /\ Passing
    /\ index <= Len(list)
    /\ LET t == list[index]
       IN  IF Skip(t) \/ ~Ready(t)
           THEN index' = index + 1 /\ UNCHANGED <<started, order, canContinue, result>>
           ELSE /\ started' = started \cup {t}
                /\ order' = Append(order, t)
                /\ canContinue' = TRUE
                /\ index' = index + 1
                /\ result' = IF t \in failing THEN "failed" ELSE result
    /\ UNCHANGED <<config, tree>>

(* Fault: passes are made until everything is started. *)
AnotherAlways == TRUE

Another == canContinue

(* Fault: the endpoints are not counted. *)
CompleteOutbounds == Cardinality(started) >= Cardinality(byTag)

Complete == Cardinality(started) = Len(list)

(* The end of a pass: done, another one, or the walk starts. *)
EndPass ==
    /\ Passing
    /\ index = Len(list) + 1
    /\ IF Complete
       THEN result' = "ok" /\ UNCHANGED <<index, canContinue, tree>>
       ELSE /\ IF Another
               THEN index' = 1 /\ canContinue' = FALSE /\ UNCHANGED tree
               ELSE /\ tree' = <<SelectSeq(list, LAMBDA t : t \notin started)[1]>>
                    /\ UNCHANGED <<index, canContinue>>
            /\ UNCHANGED result
    /\ UNCHANGED <<config, started, order>>

(* The first dependency that is not started. *)
Problem(t) == SelectSeq(deps[t], LAMBDA d : d \notin started)[1]

Visited(t) == t \in ToSet(tree)

(* One call of lintOutbound. *)
Lint ==
    /\ result = "running"
    /\ tree # <<>>
    /\ LET problem == Problem(Last(tree))
       IN  IF Visited(problem)
           THEN result' = "circular" /\ UNCHANGED tree
           ELSE IF problem \notin byTag
           THEN result' = "notfound" /\ UNCHANGED tree
           ELSE tree' = Append(tree, problem) /\ UNCHANGED result
    /\ UNCHANGED <<config, started, order, index, canContinue>>

Next == StartOne \/ EndPass \/ Lint

Spec == Init /\ [][Next]_vars
FairSpec == Spec /\ WF_vars(Next)

-----------------------------------------------------------------------------
(* Properties. *)

(* No nonempty set of members holds one another back: every set has a      *)
(* member all of whose dependencies are members outside it.                *)
WellFounded ==
    \A s \in SUBSET ToSet(list) \ {{}} :
        \E t \in s : ToSet(deps[t]) \subseteq ToSet(list) \ s

(* Each member is started once, after all its dependencies.                *)
DependenciesFirst ==
    \A i \in 1..Len(order) :
        ToSet(deps[order[i]]) \subseteq {order[j] : j \in 1..(i - 1)}

(* The passes start everything exactly when the dependencies are           *)
(* well-founded, whatever the order of the list; a failing member is       *)
(* reported as such.  A reported circle is one: each tag of the walk       *)
(* depends on the next, the last one on an earlier one, and none of them   *)
(* is started.  The state is of its types.                                 *)
ResultCorrect ==
    /\ TypeOK
    /\ result = "ok" => WellFounded /\ ToSet(order) = ToSet(list) /\ failing = {}
    /\ result \in {"circular", "notfound"} => ~WellFounded
    /\ result = "failed" => failing \cap ToSet(order) # {}
    /\ result = "circular" =>
          /\ \A i \in 1..(Len(tree) - 1) : tree[i + 1] \in ToSet(deps[tree[i]])
          /\ ToSet(deps[Last(tree)]) \cap ToSet(tree) # {}
          /\ ToSet(tree) \cap started = {}

(* The loop and the walk end, whatever the dependencies are.               *)
Terminates == <>(result # "running")
=============================================================================
