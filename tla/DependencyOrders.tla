-------------------------- MODULE DependencyOrders --------------------------
(* The two orders a deploy works in: AppSpec::startup_order, in which an     *)
(* app's services start, and AmosManifest::build_order, in which its images  *)
(* are built.  Both are shorter than the list they order when it has a cycle,*)
(* which the code answers with an error.                                     *)
EXTENDS Naturals, Sequences, FiniteSets
LOCAL INSTANCE SequencesExt

\* One service after the other from the front of the queue, in which those
\* that wait for nothing else any more line up by name.
StartupOrder(byName, Needs) ==
  LET among(S) == SelectSeq(byName, LAMBDA s : s \in S)
      freed(s, placed) == {c \in DOMAIN Needs : s \in Needs[c] /\ Needs[c] \ ToSet(placed) = {s}}
      run[k \in 0..Len(byName)] ==
        IF k = 0 THEN [queue |-> among({s \in DOMAIN Needs : Needs[s] = {}}), order |-> <<>>]
        ELSE LET now == run[k - 1] IN
          IF now.queue = <<>> THEN now
          ELSE LET s == Head(now.queue) IN
               [queue |-> Tail(now.queue) \o among(freed(s, now.order)),
                order |-> Append(now.order, s)]
  IN run[Len(byName)].order

\* validate: there are services, and they need services that are there.
ValidSpec(byName, Needs) ==
  /\ byName # <<>> /\ \A s \in DOMAIN Needs : Needs[s] \subseteq DOMAIN Needs
  /\ Len(StartupOrder(byName, Needs)) = Len(byName)

\* Passes over what is left of the manifest's list, until it is empty or a
\* pass places nothing.
BuildOrder(listed, BaseOf, None) ==
  LET place(order, s) ==
        IF s \notin ToSet(order) /\ BaseOf[s] \in ToSet(order) \cup {None}
        THEN Append(order, s) ELSE order
      pass[k \in 0..Len(listed)] == IF k = 0 THEN <<>> ELSE FoldLeft(place, pass[k - 1], listed)
  IN pass[Len(listed)]

\* parse: there are services, and their bases are declared.
ValidManifest(listed, BaseOf, None) ==
  listed # <<>> /\ \A s \in ToSet(listed) : BaseOf[s] \in ToSet(listed) \cup {None}

-----------------------------------------------------------------------------
(* The reference: an order of a finite graph that has no cycle.              *)

Acyclic(Needs) ==
  \A S \in SUBSET DOMAIN Needs \ {{}} : \E s \in S : Needs[s] \cap S = {}

Sorts(order, Needs) ==
  /\ \A i, j \in DOMAIN order : order[i] = order[j] => i = j
  /\ \A j \in DOMAIN order : Needs[order[j]] \subseteq {order[i] : i \in 1..(j - 1)}

Three == <<1, 2, 3>>
Four == <<2, 4, 1, 3>>

\* Dependencies start first, and a specification is refused only for a cycle.
ASSUME StartupOrderSorts ==
  \A Needs \in [1..3 -> SUBSET (1..3)] :
    /\ Sorts(StartupOrder(Three, Needs), Needs)
    /\ ValidSpec(Three, Needs) <=> Acyclic(Needs)

\* Bases are built first, and a manifest is refused only for a cycle; 0 is no
\* base.
ASSUME BuildOrderSorts ==
  \A BaseOf \in [1..4 -> 0..4] :
    LET Needs == [s \in 1..4 |-> {BaseOf[s]} \ {0}]
        order == BuildOrder(Four, BaseOf, 0)
    IN
    /\ ValidManifest(Four, BaseOf, 0) /\ Sorts(order, Needs)
    /\ Len(order) = 4 <=> Acyclic(Needs)
=============================================================================
