-------------------------- MODULE StartOrderProofs --------------------------
(***************************************************************************)
(* Members are started after their dependencies, for every list and every  *)
(* dependency relation.  The invariant ties the map started, which the     *)
(* code consults, to the order in which members really were started.       *)
(***************************************************************************)
EXTENDS StartOrder, TLAPS

(* The SMT solver gets a minute for a leaf that names no other prover. *)
USE SMTT(60)

(* The first n members of a sequence. *)
Earlier(s, n) == {s[j] : j \in 1..n}

Ordered ==
    /\ order \in Seq(Tags)
    /\ started = Earlier(order, Len(order))
    /\ \A i \in 1..Len(order) : ToSet(deps[order[i]]) \subseteq Earlier(order, i - 1)

Listed == list \in Seq(Tags) /\ index \in 1..(Len(list) + 1)

(* The list is a part of Members, and nothing has been started. *)
LEMMA InitOrdered == Init => Listed /\ Ordered
<1> SUFFICES ASSUME Init PROVE Listed /\ Ordered
    OBVIOUS
<1>1. Listed
  <2>1. PICK n \in 0..Len(Members) : list = SubSeq(Members, 1, n)
    BY DEF Init
  <2> QED
    BY <2>1, StartAssumption DEF Listed, Init
<1>2. order = <<>> /\ started = {}
  BY DEF Init
<1>3. Ordered
  BY <1>2 DEF Ordered, Earlier
<1> QED
  BY <1>1, <1>3

(* What appending a member does to the earlier ones. *)
LEMMA AppendEarlier ==
    ASSUME NEW s \in Seq(Tags), NEW t \in Tags
    PROVE  /\ Append(s, t) \in Seq(Tags)
           /\ Len(Append(s, t)) = Len(s) + 1
           /\ Append(s, t)[Len(s) + 1] = t
           /\ \A i \in 1..Len(s) : Append(s, t)[i] = s[i]
           /\ \A n \in 0..Len(s) : Earlier(Append(s, t), n) = Earlier(s, n)
           /\ Earlier(Append(s, t), Len(s) + 1) = Earlier(s, Len(s)) \cup {t}
<1>1. /\ Append(s, t) \in Seq(Tags)
      /\ Len(Append(s, t)) = Len(s) + 1
      /\ Append(s, t)[Len(s) + 1] = t
      /\ \A i \in 1..Len(s) : Append(s, t)[i] = s[i]
      /\ Len(s) \in Nat
  OBVIOUS
<1>2. ASSUME NEW n \in 0..Len(s) PROVE Earlier(Append(s, t), n) = Earlier(s, n)
  BY <1>1 DEF Earlier
<1>3. Earlier(Append(s, t), Len(s) + 1) = Earlier(s, Len(s)) \cup {t}
  BY <1>1 DEF Earlier
<1> QED
  BY <1>1, <1>2, <1>3

(* Only StartOne starts a member, and what Ready finds in started was      *)
(* started earlier.                                                        *)
LEMMA NextOrdered == ASSUME Listed, Ordered, [Next]_vars PROVE Listed' /\ Ordered'
<1> USE DEF config
<1>1. CASE StartOne
  <2> DEFINE t == list[index]
  <2>1. Listed' /\ deps' = deps /\ t \in Tags
    BY <1>1 DEF StartOne, Listed
  <2>2. CASE UNCHANGED <<started, order>>
    BY <2>1, <2>2 DEF Ordered
  <2>3. CASE started' = started \cup {t} /\ order' = Append(order, t) /\ Ready(t)
    <3> HIDE DEF t
    <3>1. order \in Seq(Tags) /\ Len(order) \in Nat
      BY DEF Ordered
    <3>2. order' \in Seq(Tags) /\ started' = Earlier(order', Len(order'))
      BY <2>1, <2>3, <3>1, AppendEarlier DEF Ordered
    <3>3. ASSUME NEW i \in 1..Len(order')
          PROVE ToSet(deps[order'[i]]) \subseteq Earlier(order', i - 1)
      <4>1. CASE i = Len(order) + 1
        <5>1. order'[i] = t /\ Earlier(order', i - 1) = started
          BY <4>1, <2>1, <2>3, <3>1, AppendEarlier DEF Ordered
        <5> QED
          BY <5>1, <2>3 DEF Ready
      <4>2. CASE i \in 1..Len(order)
        <5>1. order'[i] = order[i] /\ Earlier(order', i - 1) = Earlier(order, i - 1)
          BY <4>2, <2>1, <2>3, <3>1, AppendEarlier
        <5> QED
          BY <5>1, <4>2 DEF Ordered
      <4> QED
        BY <4>1, <4>2, <2>1, <2>3, <3>1, AppendEarlier
    <3> QED
      BY <2>1, <3>2, <3>3 DEF Ordered
  <2> QED
    BY <1>1, <2>2, <2>3 DEF StartOne
<1>2. CASE EndPass \/ Lint \/ UNCHANGED vars
  <2>1. UNCHANGED <<list, deps, started, order>> /\ (UNCHANGED index \/ index' = 1)
    BY <1>2 DEF EndPass, Lint, vars
  <2> QED
    BY <2>1 DEF Listed, Ordered
<1> QED
  BY <1>1, <1>2 DEF Next

(* No member is started before one of its dependencies, whatever the list  *)
(* and the dependencies are: startOutbounds and startTransports.           *)
THEOREM DependenciesFirstTheorem ==
    Spec => []DependenciesFirst
<1>1. Init => Listed /\ Ordered
  BY InitOrdered
<1>2. (Listed /\ Ordered) /\ [Next]_vars => (Listed /\ Ordered)'
  BY NextOrdered
<1>3. Listed /\ Ordered => DependenciesFirst
  BY Zenon DEF Ordered, Earlier, DependenciesFirst
<1> QED
  BY <1>1, <1>2, <1>3, PTL DEF Spec
=============================================================================
