------------------------------ MODULE NodeDrain ------------------------------
(***************************************************************************)
(* Cordon, uncordon and drain of the apiserver's nodes (dayto.rs).         *)
(*                                                                         *)
(* A drain lists the node's pods, cordons the node and asks an eviction of *)
(* each listed pod in turn, by name.  Each of these is a request of its    *)
(* own, and meanwhile the controllers put pods back, the scheduler places  *)
(* them, somebody uncordons, and another page may drain too.  The cluster  *)
(* is external; its eviction is two steps, as dayto.rs says of rustkube:   *)
(* the budget is checked, then the pod deleted.                            *)
(***************************************************************************)
EXTENDS Integers, FiniteSets

CONSTANTS
  Nodes,
  Managed,        \* pods of a controller that puts them back, under one budget
  Solo,           \* pods with no controller
  MinAvailable,   \* the budget: managed pods that stay available
  Drains,         \* drain requests that can be under way at once
  NoPod           \* no pod of that name

\* The budget is one the pods can meet, and a pod has a controller or has none.
ASSUME PodsAssumption == IsFiniteSet(Managed) /\ Managed \cap Solo = {}
ASSUME BudgetAssumption == MinAvailable \in 0..Cardinality(Managed)
ASSUME DrainsAssumption == IsFiniteSet(Drains) /\ Drains # {}
ASSUME NoPodAssumption == NoPod \notin [node : Nodes, ready : BOOLEAN, going : BOOLEAN]

VARIABLES
  cordoned,       \* the apiserver: nodes that take no new pod
  pod,            \* the apiserver: NoPod, or [node, ready, going]
  drain           \* the drain requests

vars == <<cordoned, pod, drain>>

\* A DaemonSet's pods, the node's own and finished ones stay: they are left out.
Pods == Managed \cup Solo
On(n) == {p \in Pods : pod[p] # NoPod /\ pod[p].node = n}
Available == {p \in Managed : pod[p] # NoPod /\ pod[p].ready /\ ~pod[p].going}

Idle == [pc |-> "idle"]

Init ==
  /\ cordoned = {}
  /\ pod \in [Pods -> [node : Nodes, ready : {TRUE}, going : {FALSE}]]
  /\ drain = [d \in Drains |-> Idle]

-----------------------------------------------------------------------------
(* The cluster. *)

\* The controller makes the pod again and the scheduler finds it a node.
PodPlaced(p, n) ==
  /\ p \in Managed
  /\ pod[p] = NoPod
  /\ n \notin cordoned
  /\ pod' = [pod EXCEPT ![p] = [node |-> n, ready |-> FALSE, going |-> FALSE]]
  /\ UNCHANGED <<cordoned, drain>>

PodReady(p) ==
  /\ pod[p] # NoPod
  /\ ~pod[p].ready
  /\ pod' = [pod EXCEPT ![p].ready = TRUE]
  /\ UNCHANGED <<cordoned, drain>>

\* A pod without a controller is deleted, by whoever it belongs to.
PodDeleted(p) ==
  /\ p \in Solo
  /\ pod[p] # NoPod
  /\ ~pod[p].going
  /\ pod' = [pod EXCEPT ![p].going = TRUE]
  /\ UNCHANGED <<cordoned, drain>>

\* An evicted pod has stopped.  `same` is history: the listed pods still the ones
\* that were listed.
PodGone(p) ==
  /\ pod[p] # NoPod
  /\ pod[p].going
  /\ pod' = [pod EXCEPT ![p] = NoPod]
  /\ drain' = [d \in Drains |-> IF drain[d].pc = "idle" THEN Idle
                                ELSE [drain[d] EXCEPT !.same = @ \ {p}]]
  /\ UNCHANGED cordoned

-----------------------------------------------------------------------------
(* The console. *)

\* What a drain does with a pod (fate): it evicts it, leaves it, or passes it over.
Evictable(p) == p \in Managed /\ ~pod[p].going
Unmanaged(p) == p \in Solo /\ ~pod[p].going

At(d, pc) == drain[d].pc = pc

\* Cordon and uncordon: somebody's, from the node's page.  A request that is
\* refused or fails changes nothing.
Cordoning(n, on) ==
  /\ cordoned' = IF on THEN cordoned \cup {n} ELSE cordoned \ {n}
  /\ cordoned' # cordoned
  /\ drain' = [d \in Drains |-> IF drain[d].pc = "idle" \/ on THEN drain[d]
                                ELSE IF drain[d].node = n THEN [drain[d] EXCEPT !.kept = FALSE]
                                ELSE drain[d]]
  /\ UNCHANGED pod

\* Mutant: a node that is cordoned already is taken for drained.
ListUncordoned(d, n, withUnmanaged) ==
  /\ At(d, "idle")
  /\ LET solo == {p \in On(n) : Unmanaged(p)}
         todo == IF n \in cordoned THEN {} ELSE {p \in On(n) : Evictable(p)}
     IN  drain' = [drain EXCEPT ![d] =
           [pc |-> "listed", node |-> n, todo |-> todo,
            left |-> IF withUnmanaged THEN {} ELSE solo,
            asking |-> {}, passed |-> {}, evicted |-> {}, blocked |-> {},
            same |-> todo, kept |-> TRUE]]
  /\ UNCHANGED <<cordoned, pod>>

\* The pods are listed first, and sorted by what they are now.
ListPods(d, n, withUnmanaged) ==
  /\ At(d, "idle")
  /\ LET solo == {p \in On(n) : Unmanaged(p)}
         todo == {p \in On(n) : Evictable(p)} \cup IF withUnmanaged THEN solo ELSE {}
     IN  drain' = [drain EXCEPT ![d] =
           [pc |-> "listed", node |-> n, todo |-> todo,
            left |-> IF withUnmanaged THEN {} ELSE solo,
            asking |-> {}, passed |-> {}, evicted |-> {}, blocked |-> {},
            same |-> todo, kept |-> TRUE]]
  /\ UNCHANGED <<cordoned, pod>>

\* Mutant: a node that could not be cordoned is drained all the same.
CordonedAnyway(d) ==
  /\ At(d, "listed")
  /\ drain' = [drain EXCEPT ![d].pc = "evicting"]
  /\ UNCHANGED <<cordoned, pod>>

CordonFirst(d) ==
  /\ At(d, "listed")
  /\ cordoned' = cordoned \cup {drain[d].node}
  /\ drain' = [drain EXCEPT ![d].pc = "evicting"]
  /\ UNCHANGED pod

\* Refused, or the answer lost once it took effect: the drain ends there.
CordonFailed(d) ==
  /\ At(d, "listed")
  /\ cordoned' \in {cordoned, cordoned \cup {drain[d].node}}
  /\ drain' = [drain EXCEPT ![d] = Idle]
  /\ UNCHANGED pod

\* Mutant: all evictions are sent at once.
AskAllAtOnce(d, p) ==
  /\ At(d, "evicting")
  /\ p \in drain[d].todo
  /\ drain' = [drain EXCEPT ![d].todo = @ \ {p}, ![d].asking = @ \cup {p}]
  /\ UNCHANGED <<cordoned, pod>>

\* One at a time.
AskEviction(d, p) ==
  /\ At(d, "evicting")
  /\ drain[d].asking = {}
  /\ p \in drain[d].todo
  /\ drain' = [drain EXCEPT ![d].todo = @ \ {p}, ![d].asking = {p}]
  /\ UNCHANGED <<cordoned, pod>>

Asked(d, p)  == At(d, "evicting") /\ p \in drain[d].asking
Passed(d, p) == Asked(d, p) /\ p \in drain[d].passed

Answered(d, p, as) ==
  [drain EXCEPT ![d].asking = @ \ {p}, ![d].passed = @ \ {p},
                ![d].evicted = IF as = "evicted" THEN @ \cup {p} ELSE @,
                ![d].blocked = IF as = "blocked" THEN @ \cup {p} ELSE @]

\* A 404 is a pod that went by itself.
Missing(d, p) ==
  /\ Asked(d, p)
  /\ pod[p] = NoPod
  /\ drain' = Answered(d, p, "evicted")
  /\ UNCHANGED <<cordoned, pod>>

Protected(p) == p \in Managed

BudgetAllows(d, p) ==
  /\ Asked(d, p) /\ ~Passed(d, p)
  /\ pod[p] # NoPod
  /\ Protected(p) => Cardinality(Available) > MinAvailable
  /\ drain' = [drain EXCEPT ![d].passed = @ \cup {p}]
  /\ UNCHANGED <<cordoned, pod>>

\* Mutant: a refusal of the budget is not told.
RefusalUntold(d, p) ==
  /\ Asked(d, p) /\ ~Passed(d, p)
  /\ pod[p] # NoPod
  /\ Protected(p) /\ Cardinality(Available) <= MinAvailable
  /\ drain' = Answered(d, p, "evicted")
  /\ UNCHANGED <<cordoned, pod>>

BudgetRefuses(d, p) ==
  /\ Asked(d, p) /\ ~Passed(d, p)
  /\ pod[p] # NoPod
  /\ Protected(p) /\ Cardinality(Available) <= MinAvailable
  /\ drain' = Answered(d, p, "blocked")
  /\ UNCHANGED <<cordoned, pod>>

Going(p) == IF pod[p] = NoPod THEN pod ELSE [pod EXCEPT ![p].going = TRUE]

Evicted(d, p) ==
  /\ Passed(d, p)
  /\ pod' = Going(p)
  /\ drain' = Answered(d, p, "evicted")
  /\ UNCHANGED cordoned

\* The eviction is refused, or its answer lost once it took effect.
EvictionFails(d, p) ==
  /\ Asked(d, p)
  /\ \/ pod' = pod
     \/ Passed(d, p) /\ pod' = Going(p)
  /\ drain' = Answered(d, p, "blocked")
  /\ UNCHANGED cordoned

Done(d) ==
  /\ At(d, "evicting")
  /\ drain[d].todo = {} /\ drain[d].asking = {}
  /\ drain' = [drain EXCEPT ![d].pc = "done"]
  /\ UNCHANGED <<cordoned, pod>>

Leave(d) ==
  /\ At(d, "done")
  /\ drain' = [drain EXCEPT ![d] = Idle]
  /\ UNCHANGED <<cordoned, pod>>

-----------------------------------------------------------------------------
ClusterStep ==
  \E p \in Pods : PodReady(p) \/ PodDeleted(p) \/ PodGone(p) \/ \E n \in Nodes : PodPlaced(p, n)

Start(d) == \E n \in Nodes, withUnmanaged \in BOOLEAN : ListPods(d, n, withUnmanaged)

DrainAgain(d) == \E n \in cordoned : ListPods(d, n, FALSE)

Evictions(d) ==
  \E p \in Pods : \/ AskEviction(d, p) \/ Missing(d, p) \/ BudgetAllows(d, p)
                  \/ BudgetRefuses(d, p) \/ Evicted(d, p) \/ EvictionFails(d, p)

Request(d) == CordonFirst(d) \/ CordonFailed(d) \/ Evictions(d) \/ Done(d)

Next ==
  \/ ClusterStep
  \/ \E n \in Nodes, on \in BOOLEAN : Cordoning(n, on)
  \/ \E d \in Drains : Start(d) \/ Request(d) \/ Leave(d)

Spec == Init /\ [][Next]_vars

\* The cluster keeps working, a request runs to its end, somebody drains a cordoned node
\* again, and the apiserver that is asked again and again does what it is asked some time.
FairSpec ==
  /\ Spec
  /\ \A p \in Managed : WF_vars(PodReady(p) \/ PodGone(p) \/ \E n \in Nodes : PodPlaced(p, n))
  /\ \A d \in Drains :
       /\ WF_vars(Request(d)) /\ WF_vars(Leave(d))
       /\ SF_vars(DrainAgain(d))
       /\ SF_vars(CordonFirst(d))
       /\ \A p \in Managed : SF_vars(BudgetAllows(d, p)) /\ SF_vars(Evicted(d, p))

-----------------------------------------------------------------------------
(* Properties. *)

Pod      == [node : Nodes, ready : BOOLEAN, going : BOOLEAN]
DrainRec == [pc : {"listed", "evicting", "done"}, node : Nodes, todo : SUBSET Pods,
             left : SUBSET Pods, asking : SUBSET Pods, passed : SUBSET Pods,
             evicted : SUBSET Pods, blocked : SUBSET Pods, same : SUBSET Pods,
             kept : BOOLEAN]

\* Every variable has its type; a drain has a pod in one list only.
TypeOK ==
  /\ cordoned \in SUBSET Nodes
  /\ pod \in [Pods -> Pod \cup {NoPod}]
  /\ drain \in [Drains -> DrainRec \cup {Idle}]
  /\ \A d \in Drains : ~At(d, "idle") =>
       /\ drain[d].passed \subseteq drain[d].asking
       /\ drain[d].evicted \cap drain[d].blocked = {}
       /\ drain[d].todo \cap (drain[d].asking \cup drain[d].evicted \cup drain[d].blocked) = {}
       /\ drain[d].asking \cap (drain[d].evicted \cup drain[d].blocked) = {}

\* "One at a time: ... two at once could both pass" the budget's check: while nothing
\* but a drain disrupts the managed pods, as many as the budget says stay available.
BudgetKept == Cardinality(Available) >= MinAvailable

\* "What could not be evicted is listed": a pod the drain listed to be evicted, and
\* that is still the same pod, has gone, is going, or is told as blocked.
ListedOrGone ==
  \A d \in Drains : At(d, "done") =>
    \A p \in drain[d].same : pod[p].going \/ p \in drain[d].blocked

\* The first thing an operator reads off the answer: with the node kept cordoned, what
\* was told evicted does not run on it any more, though its controller put it back.
EvictedIsElsewhere ==
  \A d \in Drains : At(d, "done") /\ drain[d].kept =>
    \A p \in drain[d].evicted \cap Managed : p \in On(drain[d].node) => pod[p].going

\* "Draining again is how it is retried": a node that stays cordoned, with the rest
\* taking work, is rid of its managed pods in the end, whatever the budget refused
\* on the way.
DrainedInTheEnd ==
  \A n \in Nodes : <>[](cordoned = {n}) => <>[](On(n) \cap Managed = {})

=============================================================================
