--------------------------- MODULE NodeDrainProofs ---------------------------
(***************************************************************************)
(* What a drain tells is so, and how far it may go below the budget, for   *)
(* any nodes, pods and number of drains at once.                           *)
(***************************************************************************)
EXTENDS NodeDrain, FiniteSetTheorems, TLAPS

\* None before the node is cordoned, one eviction at a time, and a drain that is done has
\* asked all of them.
OneAtATime(d) ==
  /\ At(d, "listed") => drain[d].evicted = {}
  /\ \A p, q \in drain[d].asking : p = q
  /\ At(d, "done") => drain[d].todo = {} /\ drain[d].asking = {}

\* A listed pod that is still the one listed is going, or on one of the lists.
Followed(d) ==
  \A p \in drain[d].same :
    /\ pod[p] # NoPod
    /\ pod[p].going \/ p \in drain[d].todo \cup drain[d].asking \cup drain[d].blocked

\* While nobody uncordons it, a drained node gets back nothing it was rid of.
Vacated(d) ==
  ~At(d, "listed") /\ drain[d].kept =>
    /\ drain[d].node \in cordoned
    /\ \A p \in drain[d].evicted \cap Managed : p \in On(drain[d].node) => pod[p].going

\* The pods whose eviction has passed the budget's check and is not done yet.
Doomed == UNION {drain[d].passed : d \in {e \in Drains : ~At(e, "idle")}}

\* Each drain has one eviction past the check, so with the last of them still to come
\* the budget is short of one pod for every other drain at most.
Covered == Cardinality(Available \ Doomed) + Cardinality(Drains) > MinAvailable

Steady(d) == ~At(d, "idle") => OneAtATime(d) /\ Followed(d) /\ Vacated(d)
DrainInv == \A d \in Drains : Steady(d)
IInv == TypeOK /\ DrainInv /\ Covered

\* The budget's own check counts for each drain: that many drains but one go below it.
OverrunBounded == Cardinality(Available) + Cardinality(Drains) > MinAvailable

-----------------------------------------------------------------------------
\* A drain in progress, and its lists do not overlap.
Apart(r) ==
  /\ r.passed \subseteq r.asking
  /\ r.evicted \cap r.blocked = {}
  /\ r.todo \cap (r.asking \cup r.evicted \cup r.blocked) = {}
  /\ r.asking \cap (r.evicted \cup r.blocked) = {}

LEMMA DrainType ==
  ASSUME TypeOK, NEW d \in Drains, ~At(d, "idle")
  PROVE  drain[d] \in DrainRec /\ Apart(drain[d])
BY DEF TypeOK, At, Idle, Apart

LEMMA ARecordIsNotIdle == \A r \in DrainRec : r # Idle /\ r.pc # "idle"
BY DEF DrainRec, Idle

LEMMA OneMoves ==
  ASSUME TypeOK, NEW d \in Drains, NEW r \in DrainRec \cup {Idle}, r \in DrainRec => Apart(r),
         drain' = [drain EXCEPT ![d] = r],
         cordoned' \in SUBSET Nodes, pod' \in [Pods -> Pod \cup {NoPod}]
  PROVE  TypeOK'
BY ARecordIsNotIdle DEF TypeOK, At, Idle, Apart

\* What an answered request leaves of a drain.
AnsweredRec(r, p, as) ==
  [r EXCEPT !.asking = @ \ {p}, !.passed = @ \ {p},
            !.evicted = IF as = "evicted" THEN @ \cup {p} ELSE @,
            !.blocked = IF as = "blocked" THEN @ \cup {p} ELSE @]

LEMMA AnsweredType ==
  ASSUME TypeOK, NEW d \in Drains, NEW p \in Pods, NEW as \in {"evicted", "blocked"}, Asked(d, p)
  PROVE  /\ AnsweredRec(drain[d], p, as) \in DrainRec
         /\ Apart(AnsweredRec(drain[d], p, as))
         /\ Answered(d, p, as) = [drain EXCEPT ![d] = AnsweredRec(drain[d], p, as)]
<1>1. drain[d] \in DrainRec /\ Apart(drain[d]) /\ p \in drain[d].asking
  BY DrainType DEF Asked, At
<1>2. drain \in [Drains -> DrainRec \cup {Idle}]
  BY DEF TypeOK
<1>3. AnsweredRec(drain[d], p, as) \in DrainRec
  BY <1>1 DEF AnsweredRec, DrainRec
<1>4. Apart(AnsweredRec(drain[d], p, as))
  <2> DEFINE r == AnsweredRec(drain[d], p, as)
  <2>1. /\ r.todo = drain[d].todo /\ r.asking = drain[d].asking \ {p} /\ r.passed = drain[d].passed \ {p}
        /\ r.evicted = IF as = "evicted" THEN drain[d].evicted \cup {p} ELSE drain[d].evicted
        /\ r.blocked = IF as = "blocked" THEN drain[d].blocked \cup {p} ELSE drain[d].blocked
    BY <1>1 DEF AnsweredRec, DrainRec
  <2> HIDE DEF r
  <2>2. ASSUME as = "evicted" PROVE Apart(r)
    BY <1>1, <2>1, <2>2 DEF Apart
  <2>3. ASSUME as = "blocked" PROVE Apart(r)
    BY <1>1, <2>1, <2>3 DEF Apart
  <2> QED
    BY <2>2, <2>3 DEF r
<1>5. Answered(d, p, as) = [drain EXCEPT ![d] = AnsweredRec(drain[d], p, as)]
  BY <1>1, <1>2 DEF AnsweredRec, Answered
<1> QED
  BY <1>3, <1>4, <1>5

LEMMA GoingType ==
  ASSUME TypeOK, NEW p \in Pods
  PROVE  /\ Going(p) \in [Pods -> Pod \cup {NoPod}]
         /\ \A q \in Pods : Going(p)[q] = NoPod <=> pod[q] = NoPod
         /\ \A q \in Pods \ {p} : Going(p)[q] = pod[q]
         /\ pod[p] # NoPod => Going(p)[p].node = pod[p].node /\ Going(p)[p].going
<1>1. pod \in [Pods -> Pod \cup {NoPod}]
  BY DEF TypeOK
<1>2. \A q \in Pods : pod[q] # NoPod => pod[q] \in Pod
  BY <1>1
<1> QED
  BY <1>1, <1>2, NoPodAssumption DEF Going, Pod

LEMMA TypeInit == Init => TypeOK
<1> SUFFICES ASSUME Init PROVE TypeOK
  OBVIOUS
<1>1. pod \in [Pods -> Pod \cup {NoPod}] /\ cordoned \in SUBSET Nodes
  BY DEF Init, Pod
<1>2. drain \in [Drains -> DrainRec \cup {Idle}]
  BY DEF Init
<1>3. \A d \in Drains : At(d, "idle")
  BY DEF Init, At, Idle
<1> QED
  BY <1>1, <1>2, <1>3 DEF TypeOK

LEMMA ClusterType == TypeOK /\ ClusterStep => TypeOK'
<1> SUFFICES ASSUME TypeOK, NEW p \in Pods,
                    PodReady(p) \/ PodDeleted(p) \/ PodGone(p) \/ \E n \in Nodes : PodPlaced(p, n)
             PROVE  TypeOK'
  BY DEF ClusterStep
<1>1. pod \in [Pods -> Pod \cup {NoPod}]
  BY DEF TypeOK
<1>2. CASE PodReady(p)
  <2>1. pod' \in [Pods -> Pod \cup {NoPod}]
    BY <1>1, <1>2 DEF PodReady, Pod
  <2> QED
    BY <1>2, <2>1 DEF PodReady, TypeOK, At
<1>3. CASE PodDeleted(p)
  <2>1. pod' \in [Pods -> Pod \cup {NoPod}]
    BY <1>1, <1>3 DEF PodDeleted, Pod
  <2> QED
    BY <1>3, <2>1 DEF PodDeleted, TypeOK, At
<1>4. CASE PodGone(p)
  <2>1. pod' \in [Pods -> Pod \cup {NoPod}]
    BY <1>1, <1>4 DEF PodGone
  <2>2. \A d \in Drains : At(d, "idle") => drain'[d] = Idle
    BY <1>4 DEF PodGone, At
  <2>3. \A d \in Drains : ~At(d, "idle") =>
          drain'[d] = [drain[d] EXCEPT !.same = @ \ {p}]
    BY <1>4 DEF PodGone, At
  <2>4. \A d \in Drains : ~At(d, "idle") => drain'[d] \in DrainRec /\ Apart(drain'[d])
    <3> SUFFICES ASSUME NEW d \in Drains, ~At(d, "idle") PROVE drain'[d] \in DrainRec /\ Apart(drain'[d])
      OBVIOUS
    <3>1. drain[d] \in DrainRec /\ Apart(drain[d]) /\ drain'[d] = [drain[d] EXCEPT !.same = @ \ {p}]
      BY <2>3, DrainType
    <3> QED
      BY <3>1 DEF DrainRec, Apart
  <2>5. drain' \in [Drains -> DrainRec \cup {Idle}]
    BY <1>4, <2>2, <2>4 DEF PodGone
  <2> QED
    BY <1>4, <2>1, <2>2, <2>4, <2>5 DEF PodGone, TypeOK, At, Idle, Apart
<1>5. ASSUME NEW n \in Nodes, PodPlaced(p, n) PROVE TypeOK'
  <2>1. pod' \in [Pods -> Pod \cup {NoPod}]
    BY <1>1, <1>5 DEF PodPlaced, Pod
  <2> QED
    BY <1>5, <2>1 DEF PodPlaced, TypeOK, At
<1> QED
  BY <1>2, <1>3, <1>4, <1>5

LEMMA CordoningType == ASSUME TypeOK, NEW n \in Nodes, NEW on \in BOOLEAN, Cordoning(n, on) PROVE TypeOK'
<1>1. cordoned' \in SUBSET Nodes /\ pod' \in [Pods -> Pod \cup {NoPod}]
  BY DEF Cordoning, TypeOK
<1>2. \A d \in Drains : drain'[d] = drain[d] \/ (~At(d, "idle") /\ drain'[d] = [drain[d] EXCEPT !.kept = FALSE])
  BY DEF Cordoning, At
<1>3. \A d \in Drains : ~At(d, "idle") => drain'[d] \in DrainRec /\ Apart(drain'[d])
  <2> SUFFICES ASSUME NEW d \in Drains, ~At(d, "idle") PROVE drain'[d] \in DrainRec /\ Apart(drain'[d])
    OBVIOUS
  <2>1. drain[d] \in DrainRec /\ Apart(drain[d])
    BY DrainType
  <2>2. [drain[d] EXCEPT !.kept = FALSE] \in DrainRec /\ Apart([drain[d] EXCEPT !.kept = FALSE])
    BY <2>1 DEF DrainRec, Apart
  <2> QED
    BY <1>2, <2>1, <2>2
<1>4. \A d \in Drains : At(d, "idle") => drain'[d] = Idle
  BY <1>2, ARecordIsNotIdle DEF TypeOK, At
<1>5. drain' \in [Drains -> DrainRec \cup {Idle}]
  BY <1>3, <1>4 DEF Cordoning
<1> QED
  BY <1>1, <1>3, <1>4, <1>5 DEF TypeOK, At, Idle, Apart

\* What a drain's own step makes of it.
ListedRec(n, todo, left) ==
  [pc |-> "listed", node |-> n, todo |-> todo, left |-> left,
   asking |-> {}, passed |-> {}, evicted |-> {}, blocked |-> {}, same |-> todo, kept |-> TRUE]

AskingRec(r, p) == [r EXCEPT !.todo = @ \ {p}, !.asking = {p}]

LEMMA ListRec ==
  ASSUME NEW d \in Drains, NEW n \in Nodes, NEW w \in BOOLEAN, ListPods(d, n, w)
  PROVE  \E todo, left \in SUBSET Pods :
           /\ \A p \in todo : p \in On(n) /\ ~pod[p].going
           /\ drain' = [drain EXCEPT ![d] = ListedRec(n, todo, left)]
<1> DEFINE solo == {p \in On(n) : Unmanaged(p)}
           todo == {p \in On(n) : Evictable(p)} \cup IF w THEN solo ELSE {}
           left == IF w THEN {} ELSE solo
<1>1. todo \in SUBSET Pods /\ left \in SUBSET Pods /\ \A p \in todo : p \in On(n) /\ ~pod[p].going
  BY DEF On, Evictable, Unmanaged
<1>2. drain' = [drain EXCEPT ![d] = ListedRec(n, todo, left)]
  BY DEF ListPods, ListedRec
<1> QED
  BY <1>1, <1>2

LEMMA RequestRec ==
  ASSUME TypeOK, NEW d \in Drains
  PROVE  /\ \A p \in Pods : AskEviction(d, p) =>
              drain' = [drain EXCEPT ![d] = AskingRec(drain[d], p)]
         /\ CordonFirst(d) => drain' = [drain EXCEPT ![d] = [drain[d] EXCEPT !.pc = "evicting"]]
         /\ Done(d) => drain' = [drain EXCEPT ![d] = [drain[d] EXCEPT !.pc = "done"]]
         /\ \A p \in Pods : BudgetAllows(d, p) =>
              drain' = [drain EXCEPT ![d] = [drain[d] EXCEPT !.passed = @ \cup {p}]]
<1>1. drain \in [Drains -> DrainRec \cup {Idle}]
  BY DEF TypeOK
<1>2. \A p \in Pods : AskEviction(d, p) => drain' = [drain EXCEPT ![d] = AskingRec(drain[d], p)]
  BY <1>1 DEF AskEviction, AskingRec
<1>3. CordonFirst(d) => drain' = [drain EXCEPT ![d] = [drain[d] EXCEPT !.pc = "evicting"]]
  BY <1>1 DEF CordonFirst
<1>4. Done(d) => drain' = [drain EXCEPT ![d] = [drain[d] EXCEPT !.pc = "done"]]
  BY <1>1 DEF Done
<1>5. \A p \in Pods : BudgetAllows(d, p) =>
              drain' = [drain EXCEPT ![d] = [drain[d] EXCEPT !.passed = @ \cup {p}]]
  BY <1>1 DEF BudgetAllows
<1> QED
  BY <1>2, <1>3, <1>4, <1>5

LEMMA DrainStepType ==
  ASSUME TypeOK, NEW d \in Drains, Start(d) \/ Request(d) \/ Leave(d) PROVE TypeOK'
<1>0. cordoned \in SUBSET Nodes /\ pod \in [Pods -> Pod \cup {NoPod}]
  BY DEF TypeOK
<1>1. ASSUME NEW n \in Nodes, NEW w \in BOOLEAN, ListPods(d, n, w) PROVE TypeOK'
  <2>1. PICK todo, left \in SUBSET Pods : drain' = [drain EXCEPT ![d] = ListedRec(n, todo, left)]
    BY <1>1, ListRec
  <2>2. ListedRec(n, todo, left) \in DrainRec /\ Apart(ListedRec(n, todo, left))
    BY DEF ListedRec, DrainRec, Apart
  <2> QED
    BY <1>0, <1>1, <2>1, <2>2, OneMoves DEF ListPods
<1>2. CASE CordonFirst(d)
  <2> DEFINE r == [drain[d] EXCEPT !.pc = "evicting"]
  <2>1. r \in DrainRec /\ Apart(r) /\ drain[d].node \in Nodes
    BY <1>2, DrainType DEF CordonFirst, At, DrainRec, Apart
  <2> QED
    BY <1>0, <1>2, <2>1, RequestRec, OneMoves DEF CordonFirst
<1>3. CASE CordonFailed(d)
  <2>1. drain[d].node \in Nodes
    BY <1>3, DrainType DEF CordonFailed, At, DrainRec
  <2> QED
    BY <1>0, <1>3, <2>1, ARecordIsNotIdle, OneMoves DEF CordonFailed
<1>4. ASSUME NEW p \in Pods, AskEviction(d, p) PROVE TypeOK'
  <2>1. drain[d] \in DrainRec /\ Apart(drain[d]) /\ p \in drain[d].todo
    BY <1>4, DrainType DEF AskEviction, At
  <2>2. AskingRec(drain[d], p) \in DrainRec /\ drain[d].asking = {}
    BY <1>4, <2>1 DEF AskEviction, DrainRec, AskingRec
  <2>3. Apart(AskingRec(drain[d], p))
    BY <2>1, <2>2 DEF DrainRec, Apart, AskingRec
  <2>4. drain' = [drain EXCEPT ![d] = AskingRec(drain[d], p)]
    BY <1>4, RequestRec
  <2> QED
    BY <1>0, <1>4, <2>2, <2>3, <2>4, OneMoves DEF AskEviction
<1>5. ASSUME NEW p \in Pods, Missing(d, p) \/ BudgetRefuses(d, p) \/ Evicted(d, p) \/ EvictionFails(d, p)
      PROVE  TypeOK'
  <2>1. Asked(d, p) /\ cordoned' = cordoned /\ pod' \in {pod, Going(p)}
    BY <1>5 DEF Missing, BudgetRefuses, Evicted, EvictionFails, Passed
  <2>2. PICK as \in {"evicted", "blocked"} : drain' = Answered(d, p, as)
    BY <1>5 DEF Missing, BudgetRefuses, Evicted, EvictionFails
  <2> DEFINE r == AnsweredRec(drain[d], p, as)
  <2>3. r \in DrainRec /\ Apart(r) /\ drain' = [drain EXCEPT ![d] = r]
    BY <2>1, <2>2, AnsweredType
  <2>4. pod' \in [Pods -> Pod \cup {NoPod}]
    BY <1>0, <2>1, GoingType
  <2> HIDE DEF r
  <2> QED
    BY <1>0, <2>1, <2>3, <2>4, OneMoves
<1>6. ASSUME NEW p \in Pods, BudgetAllows(d, p) PROVE TypeOK'
  <2> DEFINE r == [drain[d] EXCEPT !.passed = @ \cup {p}]
  <2>1. r \in DrainRec /\ Apart(r)
    BY <1>6, DrainType DEF BudgetAllows, Asked, At, DrainRec, Apart
  <2> QED
    BY <1>0, <1>6, <2>1, RequestRec, OneMoves DEF BudgetAllows
<1>7. CASE Done(d)
  <2> DEFINE r == [drain[d] EXCEPT !.pc = "done"]
  <2>1. r \in DrainRec /\ Apart(r)
    BY <1>7, DrainType DEF Done, At, DrainRec, Apart
  <2> QED
    BY <1>0, <1>7, <2>1, RequestRec, OneMoves DEF Done
<1>8. CASE Leave(d)
  BY <1>0, <1>8, ARecordIsNotIdle, OneMoves DEF Leave
<1> QED
  BY <1>1, <1>2, <1>3, <1>4, <1>5, <1>6, <1>7, <1>8 DEF Start, Request, Evictions

LEMMA TypeStep == TypeOK /\ [Next]_vars => TypeOK'
<1> SUFFICES ASSUME TypeOK, [Next]_vars PROVE TypeOK'
  OBVIOUS
<1>1. CASE UNCHANGED vars
  BY <1>1 DEF vars, TypeOK, At
<1> QED
  BY <1>1, ClusterType, CordoningType, DrainStepType DEF Next

\* Every variable keeps its type, and no pod is on two lists of one drain.
THEOREM TypeCorrect == Spec => []TypeOK
BY TypeInit, TypeStep, PTL DEF Spec

-----------------------------------------------------------------------------
LEMMA DrainInvInit == Init => DrainInv
BY DEF Init, DrainInv, Steady, At, Idle

\* The pods stay where they are, and what is going goes on.
Onward ==
  \A q \in Pods : /\ pod'[q] = NoPod <=> pod[q] = NoPod
                  /\ pod[q] # NoPod => pod'[q].node = pod[q].node /\ (pod[q].going => pod'[q].going)

LEMMA GoingIsOnward == ASSUME TypeOK, NEW p \in Pods, pod' \in {pod, Going(p)} PROVE Onward
<1>1. CASE pod' = pod
  BY <1>1 DEF Onward
<1>2. CASE pod' = Going(p)
  BY <1>2, GoingType DEF Onward
<1> QED
  BY <1>1, <1>2

\* A drain that does not move is not disturbed by the others.
LEMMA OthersSteady ==
  ASSUME TypeOK, DrainInv, Onward,
         NEW e \in Drains, drain'[e] = drain[e], cordoned \subseteq cordoned'
  PROVE  Steady(e)'
<1> SUFFICES ASSUME ~At(e, "idle") PROVE (OneAtATime(e) /\ Followed(e) /\ Vacated(e))'
  BY DEF Steady, At
<1>1. OneAtATime(e) /\ Followed(e) /\ Vacated(e) /\ drain[e] \in DrainRec
  BY DrainType DEF DrainInv, Steady
<1>3. OneAtATime(e)'
  BY <1>1 DEF OneAtATime, At
<1>4. Followed(e)'
  BY <1>1 DEF Followed, DrainRec, Onward
<1>5. Vacated(e)'
  BY <1>1 DEF Vacated, At, On, Onward, Pods
<1> QED
  BY <1>3, <1>4, <1>5

LEMMA ClusterInv == TypeOK /\ DrainInv /\ ClusterStep => DrainInv'
<1> SUFFICES ASSUME TypeOK, DrainInv, NEW p \in Pods,
                    PodReady(p) \/ PodDeleted(p) \/ PodGone(p) \/ \E n \in Nodes : PodPlaced(p, n),
                    NEW d \in Drains, ~At(d, "idle")'
             PROVE  (OneAtATime(d) /\ Followed(d) /\ Vacated(d))'
  BY DEF ClusterStep, DrainInv, Steady
<1>1. pod \in [Pods -> Pod \cup {NoPod}] /\ cordoned' = cordoned
  BY DEF TypeOK, PodReady, PodDeleted, PodGone, PodPlaced
<1>2. drain'[d] = drain[d] \/ (PodGone(p) /\ ~At(d, "idle") /\ drain'[d] = [drain[d] EXCEPT !.same = @ \ {p}])
  <2>1. CASE PodGone(p)
    <3>1. drain'[d] = IF At(d, "idle") THEN Idle ELSE [drain[d] EXCEPT !.same = @ \ {p}]
      BY <2>1 DEF PodGone, At
    <3>2. ~At(d, "idle")
      BY <3>1 DEF At, Idle
    <3> QED
      BY <2>1, <3>1, <3>2
  <2>2. CASE ~PodGone(p)
    BY <2>2 DEF PodReady, PodDeleted, PodPlaced
  <2> QED
    BY <2>1, <2>2
<1>3. ~At(d, "idle")
  BY <1>2 DEF At
<1>4. OneAtATime(d) /\ Followed(d) /\ Vacated(d) /\ drain[d] \in DrainRec
  BY <1>3, DrainType DEF DrainInv, Steady
<1>5. /\ drain'[d].pc = drain[d].pc /\ drain'[d].node = drain[d].node /\ drain'[d].kept = drain[d].kept
      /\ drain'[d].todo = drain[d].todo /\ drain'[d].asking = drain[d].asking
      /\ drain'[d].blocked = drain[d].blocked /\ drain'[d].evicted = drain[d].evicted
      /\ drain'[d].same = IF PodGone(p) THEN drain[d].same \ {p} ELSE drain[d].same
  <2>1. CASE PodGone(p)
    BY <1>3, <1>4, <2>1 DEF PodGone, At, DrainRec
  <2>2. CASE ~PodGone(p)
    BY <1>2, <2>2
  <2> QED
    BY <2>1, <2>2
<1>6. OneAtATime(d)'
  BY <1>4, <1>5 DEF OneAtATime, At
<1>7. Followed(d)'
  <2> SUFFICES ASSUME NEW q \in drain'[d].same
               PROVE  pod'[q] # NoPod /\ (pod'[q].going \/ q \in drain[d].todo \cup drain[d].asking \cup drain[d].blocked)
    BY <1>5 DEF Followed
  <2>1. q \in Pods /\ pod[q] \in Pod /\ pod[q] # NoPod /\ (PodGone(p) => q # p)
        /\ (pod[q].going \/ q \in drain[d].todo \cup drain[d].asking \cup drain[d].blocked)
    BY <1>1, <1>4, <1>5 DEF Followed, DrainRec
  <2>2. pod'[q] # NoPod /\ (pod[q].going => pod'[q].going)
    <3>1. CASE PodReady(p)
      BY <1>1, <2>1, <3>1, NoPodAssumption DEF PodReady, Pod
    <3>2. CASE PodDeleted(p)
      BY <1>1, <2>1, <3>2, NoPodAssumption DEF PodDeleted, Pod
    <3>3. CASE PodGone(p)
      BY <1>1, <2>1, <3>3 DEF PodGone
    <3>4. CASE \E n \in Nodes : PodPlaced(p, n)
      BY <1>1, <2>1, <3>4 DEF PodPlaced
    <3> QED
      BY <3>1, <3>2, <3>3, <3>4
  <2> QED
    BY <2>1, <2>2
<1>8. Vacated(d)'
  <2> SUFFICES ASSUME ~At(d, "listed"), drain[d].kept
               PROVE  /\ drain[d].node \in cordoned
                      /\ \A q \in drain[d].evicted \cap Managed : q \in On(drain[d].node)' => pod'[q].going
    BY <1>1, <1>5 DEF Vacated, At
  <2>1. drain[d].node \in cordoned
    BY <1>4 DEF Vacated
  <2>2. ASSUME NEW q \in drain[d].evicted \cap Managed, q \in On(drain[d].node)'
        PROVE  pod'[q].going
    <3>1. q \in Pods /\ pod'[q] # NoPod /\ pod'[q].node = drain[d].node
      BY <1>5, <2>2 DEF On, Pods
    <3>2. pod[q] # NoPod /\ pod[q].node = drain[d].node
      BY <1>1, <2>1, <3>1 DEF PodReady, PodDeleted, PodGone, PodPlaced, Pod
    <3>3. pod[q].going /\ pod[q] \in Pod
      BY <1>1, <1>4, <2>2, <3>1, <3>2 DEF Vacated, On
    <3> QED
      BY <1>1, <3>1, <3>2, <3>3 DEF PodReady, PodDeleted, PodGone, PodPlaced, Pod
  <2> QED
    BY <2>1, <2>2
<1> QED
  BY <1>6, <1>7, <1>8

LEMMA CordoningInv ==
  ASSUME TypeOK, DrainInv, NEW n \in Nodes, NEW on \in BOOLEAN, Cordoning(n, on) PROVE DrainInv'
<1> SUFFICES ASSUME NEW d \in Drains, ~At(d, "idle")' PROVE (OneAtATime(d) /\ Followed(d) /\ Vacated(d))'
  BY DEF DrainInv, Steady
<1>1. \/ drain'[d] = drain[d] /\ (on \/ drain[d].node # n)
      \/ drain'[d] = [drain[d] EXCEPT !.kept = FALSE] /\ ~At(d, "idle")
  BY DEF Cordoning, At
<1>2. ~At(d, "idle")
  BY <1>1 DEF At
<1>3. OneAtATime(d) /\ Followed(d) /\ Vacated(d) /\ drain[d] \in DrainRec
  BY <1>2, DrainType DEF DrainInv, Steady
<1>4. CASE drain'[d] = drain[d] /\ (on \/ drain[d].node # n)
  <2>1. drain[d].node \in cordoned => drain[d].node \in cordoned'
    BY <1>4 DEF Cordoning
  <2> QED
    BY <1>3, <1>4, <2>1 DEF Cordoning, OneAtATime, Followed, Vacated, At, On
<1>5. CASE drain'[d] = [drain[d] EXCEPT !.kept = FALSE]
  BY <1>3, <1>5 DEF Cordoning, OneAtATime, Followed, Vacated, At, DrainRec
<1> QED
  BY <1>1, <1>4, <1>5

\* What is to be shown of the drain that moves: its lists are right of the pods as they are then.
SteadyRec(r, taken, is) ==
  /\ r.pc = "listed" => r.evicted = {}
  /\ r.pc = "done" => r.todo = {} /\ r.asking = {}
  /\ \A p, q \in r.asking : p = q
  /\ \A p \in r.same : is[p] # NoPod /\ (is[p].going \/ p \in r.todo \cup r.asking \cup r.blocked)
  /\ r.pc # "listed" /\ r.kept =>
       /\ r.node \in taken
       /\ \A p \in r.evicted \cap Managed : is[p] # NoPod /\ is[p].node = r.node => is[p].going

LEMMA MoverSteady ==
  ASSUME TypeOK, DrainInv, NEW d \in Drains, NEW r \in DrainRec, drain' = [drain EXCEPT ![d] = r],
         SteadyRec(r, cordoned', pod'), Onward, cordoned \subseteq cordoned'
  PROVE  DrainInv'
<1>1. drain'[d] = r /\ \A e \in Drains \ {d} : drain'[e] = drain[e]
  BY DEF TypeOK
<1>2. Steady(d)'
  BY <1>1 DEF Steady, SteadyRec, OneAtATime, Followed, Vacated, At, On, Pods
<1>3. \A e \in Drains \ {d} : Steady(e)'
  BY <1>1, OthersSteady
<1> QED
  BY <1>2, <1>3 DEF DrainInv

LEMMA SteadyNow ==
  ASSUME TypeOK, DrainInv, NEW d \in Drains, ~At(d, "idle")
  PROVE  SteadyRec(drain[d], cordoned, pod) /\ drain[d] \in DrainRec /\ Apart(drain[d])
BY DrainType DEF DrainInv, Steady, SteadyRec, OneAtATime, Followed, Vacated, At, On, Pods

\* A request that was answered: a listed pod is told as blocked, or it is going.
LEMMA AnsweredInv ==
  ASSUME TypeOK, DrainInv, NEW d \in Drains, NEW p \in Pods, NEW as \in {"evicted", "blocked"},
         Asked(d, p), drain' = Answered(d, p, as), pod' \in {pod, Going(p)}, cordoned' = cordoned,
         as = "evicted" => pod'[p] = NoPod \/ pod'[p].going
  PROVE  DrainInv'
<1> DEFINE r == AnsweredRec(drain[d], p, as)
<1>1. r \in DrainRec /\ drain' = [drain EXCEPT ![d] = r]
  BY AnsweredType
<1>2. SteadyRec(drain[d], cordoned, pod) /\ drain[d] \in DrainRec /\ At(d, "evicting") /\ p \in drain[d].asking
  BY SteadyNow DEF Asked, At
<1>3. Onward
  BY GoingIsOnward
<1>4. /\ r.pc = "evicting" /\ r.node = drain[d].node /\ r.kept = drain[d].kept /\ r.todo = drain[d].todo
      /\ r.same = drain[d].same /\ r.asking = drain[d].asking \ {p}
      /\ r.evicted \subseteq IF as = "evicted" THEN drain[d].evicted \cup {p} ELSE drain[d].evicted
      /\ drain[d].blocked \subseteq r.blocked /\ (as = "blocked" => p \in r.blocked)
  BY <1>2 DEF AnsweredRec, DrainRec, At
<1> HIDE DEF r
<1>5. ASSUME NEW q \in r.same
      PROVE  pod'[q] # NoPod /\ (pod'[q].going \/ q \in r.todo \cup r.asking \cup r.blocked)
  <2>1. q \in Pods /\ pod[q] # NoPod /\ (pod[q].going \/ q \in drain[d].todo \cup drain[d].asking \cup drain[d].blocked)
    BY <1>2, <1>4, <1>5 DEF SteadyRec, DrainRec
  <2>2. CASE q # p
    BY <1>3, <1>4, <2>1, <2>2 DEF Onward
  <2>3. CASE q = p
    BY <1>3, <1>4, <2>1, <2>3 DEF Onward
  <2> QED
    BY <2>2, <2>3
<1>6. ASSUME r.kept, NEW q \in r.evicted \cap Managed, pod'[q] # NoPod, pod'[q].node = r.node
      PROVE  pod'[q].going
  <2>1. q \in Pods /\ pod[q] # NoPod /\ pod[q].node = drain[d].node
    BY <1>3, <1>4, <1>6 DEF Pods, Onward
  <2>2. CASE q \in drain[d].evicted
    BY <1>2, <1>3, <1>4, <1>6, <2>1, <2>2 DEF SteadyRec, On, At, Onward
  <2>3. CASE q = p /\ as = "evicted"
    BY <1>6, <2>3
  <2> QED
    BY <1>4, <1>6, <2>2, <2>3
<1>7. r.kept => r.node \in cordoned
  BY <1>2, <1>4 DEF SteadyRec, At
<1>8. SteadyRec(r, cordoned', pod')
  BY <1>2, <1>4, <1>5, <1>6, <1>7 DEF SteadyRec, On
<1> QED
  BY <1>1, <1>3, <1>8, MoverSteady

LEMMA DrainStepInv ==
  ASSUME TypeOK, DrainInv, NEW d \in Drains, Start(d) \/ Request(d) \/ Leave(d) PROVE DrainInv'
<1>0. UNCHANGED pod => Onward
  BY DEF Onward
<1>1. ASSUME NEW n \in Nodes, NEW w \in BOOLEAN, ListPods(d, n, w) PROVE DrainInv'
  <2>1. PICK todo, left \in SUBSET Pods :
          /\ \A p \in todo : p \in On(n) /\ ~pod[p].going
          /\ drain' = [drain EXCEPT ![d] = ListedRec(n, todo, left)]
    BY <1>1, ListRec
  <2> DEFINE r == ListedRec(n, todo, left)
  <2>2. r \in DrainRec /\ UNCHANGED <<cordoned, pod>>
    BY <1>1 DEF ListedRec, DrainRec, ListPods
  <2>3. SteadyRec(r, cordoned', pod')
    BY <2>1, <2>2 DEF SteadyRec, ListedRec, On
  <2> QED
    BY <1>0, <2>1, <2>2, <2>3, MoverSteady
<1>2. CASE CordonFirst(d)
  <2> DEFINE r == [drain[d] EXCEPT !.pc = "evicting"]
  <2>1. SteadyRec(drain[d], cordoned, pod) /\ drain[d] \in DrainRec /\ Apart(drain[d]) /\ drain[d].pc = "listed"
    BY <1>2, SteadyNow DEF CordonFirst, At
  <2>2. r \in DrainRec /\ cordoned \subseteq cordoned' /\ UNCHANGED pod
    BY <1>2, <2>1 DEF CordonFirst, DrainRec
  <2>3. drain[d].evicted = {}
    BY <2>1 DEF SteadyRec
  <2>4. SteadyRec(r, cordoned', pod')
    BY <1>2, <2>1, <2>2, <2>3 DEF SteadyRec, CordonFirst, DrainRec
  <2> QED
    BY <1>0, <1>2, <2>2, <2>4, RequestRec, MoverSteady
<1>3. CASE CordonFailed(d) \/ Leave(d)
  <2>1. drain' = [drain EXCEPT ![d] = Idle] /\ cordoned \subseteq cordoned' /\ UNCHANGED pod
    BY <1>3 DEF CordonFailed, Leave
  <2>2. \A e \in Drains \ {d} : Steady(e)'
    BY <1>0, <2>1, OthersSteady DEF TypeOK
  <2>3. Steady(d)'
    BY <2>1 DEF TypeOK, Steady, At, Idle
  <2> QED
    BY <2>2, <2>3 DEF DrainInv
<1>4. ASSUME NEW p \in Pods, AskEviction(d, p) PROVE DrainInv'
  <2> DEFINE r == AskingRec(drain[d], p)
  <2>1. SteadyRec(drain[d], cordoned, pod) /\ drain[d] \in DrainRec /\ drain[d].pc = "evicting" /\ UNCHANGED <<cordoned, pod>>
        /\ drain[d].asking = {}
    BY <1>4, SteadyNow DEF AskEviction, At
  <2>2. r \in DrainRec
    BY <1>4, <2>1 DEF AskingRec, DrainRec
  <2>3. SteadyRec(r, cordoned', pod')
    BY <2>1 DEF SteadyRec, AskingRec, DrainRec, On
  <2>4. drain' = [drain EXCEPT ![d] = r]
    BY <1>4, RequestRec
  <2> QED
    BY <1>0, <2>1, <2>2, <2>3, <2>4, MoverSteady
<1>5. ASSUME NEW p \in Pods, Missing(d, p) \/ BudgetRefuses(d, p) \/ Evicted(d, p) \/ EvictionFails(d, p)
      PROVE  DrainInv'
  <2>1. Asked(d, p) /\ cordoned' = cordoned /\ pod' \in {pod, Going(p)}
    BY <1>5 DEF Missing, BudgetRefuses, Evicted, EvictionFails, Passed
  <2>2. \/ drain' = Answered(d, p, "blocked")
        \/ drain' = Answered(d, p, "evicted") /\ (pod'[p] = NoPod \/ pod'[p].going)
    BY <1>5, GoingType DEF Missing, BudgetRefuses, Evicted, EvictionFails
  <2> QED
    BY <2>1, <2>2, AnsweredInv
<1>6. ASSUME NEW p \in Pods, BudgetAllows(d, p) PROVE DrainInv'
  <2> DEFINE r == [drain[d] EXCEPT !.passed = @ \cup {p}]
  <2>1. SteadyRec(drain[d], cordoned, pod) /\ drain[d] \in DrainRec /\ UNCHANGED <<cordoned, pod>>
    BY <1>6, SteadyNow DEF BudgetAllows, Asked, At
  <2>2. r \in DrainRec /\ SteadyRec(r, cordoned', pod')
    BY <2>1 DEF SteadyRec, DrainRec, On
  <2>3. drain' = [drain EXCEPT ![d] = r]
    BY <1>6, RequestRec
  <2> QED
    BY <1>0, <2>1, <2>2, <2>3, MoverSteady
<1>7. CASE Done(d)
  <2> DEFINE r == [drain[d] EXCEPT !.pc = "done"]
  <2>1. SteadyRec(drain[d], cordoned, pod) /\ drain[d] \in DrainRec /\ UNCHANGED <<cordoned, pod>>
        /\ drain[d].pc = "evicting" /\ drain[d].todo = {} /\ drain[d].asking = {}
    BY <1>7, SteadyNow DEF Done, At
  <2>2. r \in DrainRec /\ SteadyRec(r, cordoned', pod')
    BY <2>1 DEF SteadyRec, DrainRec, On
  <2>3. drain' = [drain EXCEPT ![d] = r]
    BY <1>7, RequestRec
  <2> QED
    BY <1>0, <2>1, <2>2, <2>3, MoverSteady
<1> QED
  BY <1>1, <1>2, <1>3, <1>4, <1>5, <1>6, <1>7 DEF Start, Request, Evictions

LEMMA DrainInvStep == TypeOK /\ DrainInv /\ [Next]_vars => DrainInv'
<1> SUFFICES ASSUME TypeOK, DrainInv, [Next]_vars PROVE DrainInv'
  OBVIOUS
<1>1. CASE UNCHANGED vars
  BY <1>1 DEF vars, DrainInv, Steady, OneAtATime, Followed, Vacated, At, On
<1> QED
  BY <1>1, ClusterInv, CordoningInv, DrainStepInv DEF Next

-----------------------------------------------------------------------------
(* The budget. *)

DoomedFew == IsFiniteSet(Doomed) /\ Cardinality(Doomed) <= Cardinality(Drains)

LEMMA FewDoomed == TypeOK /\ DrainInv => DoomedFew
<1> SUFFICES ASSUME TypeOK, DrainInv PROVE DoomedFew
  OBVIOUS
<1> DEFINE one == [d \in Drains |-> CHOOSE p \in drain[d].passed : TRUE]
           T   == {one[d] : d \in Drains}
<1>1. one \in Surjection(Drains, T)
  BY DEF Surjection
<1>2. IsFiniteSet(T) /\ Cardinality(T) <= Cardinality(Drains)
  BY <1>1, FS_Surjection, DrainsAssumption
<1>3. ASSUME NEW p \in Doomed PROVE p \in T
  <2>1. PICK d \in Drains : ~At(d, "idle") /\ p \in drain[d].passed
    BY <1>3 DEF Doomed
  <2>2. \A q \in drain[d].passed : q = p
    BY <2>1, DrainType DEF DrainInv, Steady, OneAtATime, Apart
  <2>3. one[d] = p
    BY <2>1, <2>2
  <2> QED
    BY <2>3
<1>4. Doomed \in SUBSET T
  BY <1>3
<1> HIDE DEF T
<1> QED
  BY <1>2, <1>4, FS_Subset, FS_CardinalityType, DrainsAssumption DEF DoomedFew

LEMMA Counted ==
  /\ IsFiniteSet(Available) /\ Cardinality(Available) \in Nat
  /\ \A S : S \subseteq Available => IsFiniteSet(S) /\ Cardinality(S) \in Nat /\ Cardinality(S) <= Cardinality(Available)
  /\ Cardinality(Drains) \in Nat /\ Cardinality(Drains) > 0 /\ MinAvailable \in Nat
<1>1. Available \in SUBSET Managed /\ IsFiniteSet(Managed)
  BY PodsAssumption DEF Available
<1>2. IsFiniteSet(Available)
  BY <1>1, FS_Subset
<1>3. \A S : S \subseteq Available => IsFiniteSet(S) /\ Cardinality(S) <= Cardinality(Available)
  BY <1>2, FS_Subset
<1>4. Cardinality(Drains) \in Nat /\ Cardinality(Drains) # 0
  BY DrainsAssumption, FS_CardinalityType, FS_EmptySet
<1>5. MinAvailable \in Nat
  BY BudgetAssumption
<1> QED
  BY <1>2, <1>3, <1>4, <1>5, FS_CardinalityType

LEMMA CoveredInit == Init => Covered
<1> SUFFICES ASSUME Init PROVE Covered
  OBVIOUS
<1>1. Available = Managed
  BY NoPodAssumption DEF Init, Available, Pods
<1>2. Doomed = {}
  BY DEF Init, Doomed, At, Idle
<1>3. Cardinality(Managed) \in Nat /\ MinAvailable <= Cardinality(Managed) /\ MinAvailable \in Nat
  BY PodsAssumption, BudgetAssumption, FS_CardinalityType
<1>4. Managed \ {} = Managed
  OBVIOUS
<1> QED
  BY <1>1, <1>2, <1>3, <1>4, Counted DEF Covered

\* What is available and not doomed stays so, but for a pod that passes the check.
LEMMA StaysCovered ==
  ASSUME Covered, Available \ Doomed \subseteq Available' \ Doomed' PROVE Covered'
<1>1. IsFiniteSet(Available') /\ Cardinality(Drains) \in Nat /\ MinAvailable \in Nat
  <2>1. Available' \in SUBSET Managed
    BY DEF Available
  <2> QED
    BY <2>1, FS_Subset, PodsAssumption, Counted
<1>2. IsFiniteSet(Available' \ Doomed')
  BY <1>1, FS_Difference
<1>3. Cardinality(Available \ Doomed) <= Cardinality(Available' \ Doomed')
  BY <1>2, FS_Subset
<1>4. Cardinality(Available \ Doomed) \in Nat /\ Cardinality(Available' \ Doomed') \in Nat
  BY <1>2, FS_CardinalityType, Counted
<1> QED
  BY <1>1, <1>3, <1>4 DEF Covered

LEMMA CoveredStep ==
  TypeOK /\ DrainInv /\ Covered /\ TypeOK' /\ DrainInv' /\ [Next]_vars => Covered'
<1> SUFFICES ASSUME TypeOK, DrainInv, Covered, TypeOK', DrainInv', [Next]_vars PROVE Covered'
  OBVIOUS
<1>0. drain \in [Drains -> DrainRec \cup {Idle}] /\ pod \in [Pods -> Pod \cup {NoPod}] /\ Managed \subseteq Pods
  BY DEF TypeOK, Pods
<1>1. CASE UNCHANGED vars
  <2>1. Available' = Available /\ Doomed' = Doomed
    BY <1>1 DEF vars, Available, Doomed, At
  <2> QED
    BY <2>1, StaysCovered
<1>2. CASE ClusterStep
  <2>1. PICK p \in Pods : PodReady(p) \/ PodDeleted(p) \/ PodGone(p) \/ \E n \in Nodes : PodPlaced(p, n)
    BY <1>2 DEF ClusterStep
  <2>2. Doomed' \subseteq Doomed
    <3>1. CASE PodGone(p)
      <4>1. \A d \in Drains : ~At(d, "idle")' => ~At(d, "idle") /\ drain'[d].passed = drain[d].passed
        <5> SUFFICES ASSUME NEW d \in Drains, ~At(d, "idle")'
                     PROVE  ~At(d, "idle") /\ drain'[d].passed = drain[d].passed
          OBVIOUS
        <5>1. drain'[d] = IF At(d, "idle") THEN Idle ELSE [drain[d] EXCEPT !.same = @ \ {p}]
          BY <3>1 DEF PodGone, At
        <5>2. ~At(d, "idle")
          BY <5>1 DEF At, Idle
        <5> QED
          BY <5>1, <5>2, DrainType DEF DrainRec
      <4> QED
        BY <4>1 DEF Doomed
    <3>2. CASE ~PodGone(p)
      BY <2>1, <3>2 DEF PodReady, PodDeleted, PodPlaced, Doomed, At
    <3> QED
      BY <3>1, <3>2
  <2>3. Available \subseteq Available'
    <3> SUFFICES ASSUME NEW q \in Available PROVE q \in Available'
      OBVIOUS
    <3>1. q \in Managed /\ q \notin Solo /\ pod[q] # NoPod /\ pod[q].ready /\ ~pod[q].going /\ pod[q] \in Pod
      BY <1>0, PodsAssumption DEF Available
    <3>2. q # p => pod'[q] = pod[q]
      <4>1. PICK to : pod' = [pod EXCEPT ![p] = to]
        <5>1. CASE PodReady(p)
          BY <5>1 DEF PodReady
        <5>2. CASE PodDeleted(p)
          BY <5>2 DEF PodDeleted
        <5>3. CASE PodGone(p)
          BY <5>3 DEF PodGone
        <5>4. CASE \E n \in Nodes : PodPlaced(p, n)
          BY <5>4 DEF PodPlaced
        <5> QED
          BY <2>1, <5>1, <5>2, <5>3, <5>4
      <4> QED
        BY <1>0, <3>1, <4>1
    <3>3. q # p
      BY <2>1, <3>1 DEF PodReady, PodDeleted, PodGone, PodPlaced
    <3> QED
      BY <3>1, <3>2, <3>3 DEF Available
  <2> QED
    BY <2>2, <2>3, StaysCovered
<1>3. ASSUME NEW n \in Nodes, NEW on \in BOOLEAN, Cordoning(n, on) PROVE Covered'
  <2>1. \A d \in Drains : \/ drain'[d] = drain[d]
                          \/ ~At(d, "idle") /\ drain'[d] = [drain[d] EXCEPT !.kept = FALSE]
    BY <1>3 DEF Cordoning, At
  <2>2. \A d \in Drains : ~At(d, "idle")' => ~At(d, "idle") /\ drain'[d].passed = drain[d].passed
    BY <2>1, DrainType DEF At, DrainRec
  <2>3. Doomed' \subseteq Doomed /\ Available' = Available
    BY <1>3, <2>2 DEF Doomed, Cordoning, Available
  <2> QED
    BY <2>3, StaysCovered
<1>4. ASSUME NEW d \in Drains, Start(d) \/ CordonFirst(d) \/ CordonFailed(d) \/ Done(d) \/ Leave(d)
                               \/ \E p \in Pods : AskEviction(d, p)
      PROVE  Covered'
  <2>1. pod' = pod /\ \A e \in Drains \ {d} : drain'[e] = drain[e]
    BY <1>0, <1>4 DEF Start, ListPods, CordonFirst, CordonFailed, Done, Leave, AskEviction
  <2>2. ~At(d, "idle")' => drain'[d].passed = {} \/ (~At(d, "idle") /\ drain'[d].passed = drain[d].passed)
    <3>1. CASE Start(d)
      BY <1>0, <3>1 DEF Start, ListPods
    <3>2. CASE CordonFirst(d) \/ Done(d) \/ \E p \in Pods : AskEviction(d, p)
      <4>1. ~At(d, "idle")
        BY <3>2 DEF CordonFirst, Done, AskEviction, At
      <4>2. drain'[d].passed = drain[d].passed
        <5>1. drain[d] \in DrainRec
          BY <4>1, DrainType
        <5>2. CASE CordonFirst(d)
          BY <1>0, <5>1, <5>2 DEF CordonFirst, DrainRec
        <5>3. CASE Done(d)
          BY <1>0, <5>1, <5>3 DEF Done, DrainRec
        <5>4. CASE \E p \in Pods : AskEviction(d, p)
          <6>1. PICK p \in Pods : drain' = [drain EXCEPT ![d] = AskingRec(drain[d], p)]
            BY <5>4, RequestRec
          <6> QED
            BY <1>0, <5>1, <6>1 DEF AskingRec, DrainRec
        <5> QED
          BY <3>2, <5>2, <5>3, <5>4
      <4> QED
        BY <4>1, <4>2
    <3>3. CASE CordonFailed(d) \/ Leave(d)
      BY <1>0, <3>3 DEF CordonFailed, Leave, At, Idle
    <3> QED
      BY <1>4, <3>1, <3>2, <3>3
  <2>3. Doomed' \subseteq Doomed /\ Available' = Available
    BY <2>1, <2>2 DEF Doomed, Available, At
  <2> QED
    BY <2>3, StaysCovered
<1>5. ASSUME NEW d \in Drains, NEW p \in Pods,
             Missing(d, p) \/ BudgetRefuses(d, p) \/ Evicted(d, p) \/ EvictionFails(d, p)
      PROVE  Covered'
  <2>1. PICK as \in {"evicted", "blocked"} : Asked(d, p) /\ drain' = Answered(d, p, as)
    BY <1>5 DEF Missing, BudgetRefuses, Evicted, EvictionFails, Passed
  <2>2. drain' = [drain EXCEPT ![d] = AnsweredRec(drain[d], p, as)] /\ drain[d] \in DrainRec /\ ~At(d, "idle")
    BY <2>1, AnsweredType, DrainType DEF Asked, At
  <2>3. drain'[d].passed = drain[d].passed \ {p} /\ \A e \in Drains \ {d} : drain'[e] = drain[e]
    BY <1>0, <2>2 DEF AnsweredRec, DrainRec
  <2>4. Doomed' \subseteq Doomed
    <3>1. \A e \in Drains : ~At(e, "idle")' => ~At(e, "idle") /\ drain'[e].passed \subseteq drain[e].passed
      BY <2>2, <2>3 DEF At
    <3> QED
      BY <3>1 DEF Doomed
  <2>5. CASE pod' = pod
    BY <2>4, <2>5, StaysCovered DEF Available
  <2>6. CASE Passed(d, p) /\ pod' = Going(p)
    <3>1. p \in Doomed
      BY <2>2, <2>6 DEF Doomed, Passed
    <3>2. ASSUME NEW q \in Available, q # p PROVE q \in Available'
      BY <1>0, <2>6, <3>2, GoingType DEF Available
    <3> QED
      BY <2>4, <3>1, <3>2, StaysCovered
  <2> QED
    BY <1>5, <2>5, <2>6 DEF Missing, BudgetRefuses, Evicted, EvictionFails
<1>6. ASSUME NEW d \in Drains, NEW p \in Pods, BudgetAllows(d, p) PROVE Covered'
  <2>1. Available' = Available
    BY <1>6 DEF BudgetAllows, Available
  <2>2. CASE p \in Managed
    <3>1. Cardinality(Available) > MinAvailable
      BY <1>6, <2>2 DEF BudgetAllows, Protected
    <3>2. IsFiniteSet(Doomed') /\ Cardinality(Doomed') <= Cardinality(Drains)
      <4>1. DoomedFew'
        BY FewDoomed, PTL
      <4> QED
        BY <4>1 DEF DoomedFew
    <3>3. Cardinality(Available \ Doomed') = Cardinality(Available) - Cardinality(Available \cap Doomed')
      BY FS_Difference, Counted
    <3>4. Cardinality(Available \cap Doomed') <= Cardinality(Doomed') /\ Cardinality(Available \cap Doomed') \in Nat
      BY <3>2, FS_Subset, FS_CardinalityType
    <3>5. Cardinality(Doomed') \in Nat
      BY <3>2, FS_CardinalityType
    <3> QED
      BY <2>1, <3>1, <3>2, <3>3, <3>4, <3>5, Counted DEF Covered
  <2>3. CASE p \notin Managed
    <3>1. Doomed' \subseteq Doomed \cup {p}
      <4>1. \A e \in Drains : ~At(e, "idle")' => ~At(e, "idle") /\ drain'[e].passed \subseteq drain[e].passed \cup {p}
        <5>1. drain' = [drain EXCEPT ![d] = [drain[d] EXCEPT !.passed = @ \cup {p}]] /\ ~At(d, "idle")
          BY <1>6, RequestRec DEF BudgetAllows, Asked, At
        <5> QED
          BY <1>0, <5>1, DrainType DEF At, DrainRec
      <4> QED
        BY <4>1 DEF Doomed
    <3> QED
      BY <2>1, <2>3, <3>1, StaysCovered DEF Available
  <2> QED
    BY <2>2, <2>3
<1> QED
  BY <1>1, <1>2, <1>3, <1>4, <1>5, <1>6 DEF Next, Request, Evictions

LEMMA InvStep == IInv /\ [Next]_vars => IInv'
BY TypeStep, DrainInvStep, CoveredStep DEF IInv

LEMMA Invariant == Spec => []IInv
<1>1. Init => IInv
  BY TypeInit, DrainInvInit, CoveredInit DEF IInv
<1> QED
  BY <1>1, InvStep, PTL DEF Spec

LEMMA Bounded == IInv => OverrunBounded
<1>1. Available \ Doomed \subseteq Available
  OBVIOUS
<1> QED
  BY <1>1, Counted DEF IInv, Covered, OverrunBounded

\* However many drains run at once, the managed pods that stay available fall below the
\* budget by fewer than there are drains: each has one eviction under way, and each of
\* those was checked.
THEOREM OverrunIsBounded == Spec => []OverrunBounded
BY Invariant, Bounded, PTL

\* One drain at a time never goes below the budget, as the comment on the loop says of
\* asking one eviction after another.
THEOREM OneDrainKeepsBudget == ASSUME Cardinality(Drains) = 1 PROVE Spec => []BudgetKept
<1>1. OverrunBounded => BudgetKept
  BY Counted DEF OverrunBounded, BudgetKept
<1> QED
  BY <1>1, OverrunIsBounded, PTL

\* A pod that was listed is gone, going, or told as blocked once the drain is done.
THEOREM ListedAreAccountedFor == Spec => []ListedOrGone
<1>1. IInv => ListedOrGone
  BY DEF IInv, DrainInv, Steady, OneAtATime, Followed, ListedOrGone, At
<1> QED
  BY <1>1, Invariant, PTL

\* While the node is kept cordoned, what was told evicted does not run on it any more.
THEOREM EvictedStayAway == Spec => []EvictedIsElsewhere
<1>1. IInv => EvictedIsElsewhere
  BY DEF IInv, DrainInv, Steady, Vacated, EvictedIsElsewhere, At
<1> QED
  BY <1>1, Invariant, PTL

=============================================================================
