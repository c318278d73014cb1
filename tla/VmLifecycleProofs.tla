-------------------------- MODULE VmLifecycleProofs --------------------------
(***************************************************************************)
(* What a confirmed stop and a confirmed restart of a virtual machine have *)
(* done, for any number of requests at once and of instances.              *)
(***************************************************************************)
EXTENDS VmLifecycle, TLAPS

\* A request follows the plan of its verb: a stop and a restart delete the instance, and
\* the switch a stop writes says no.
Planned(r) ==
  /\ r.pc = "phase" => r.verb # "delete"
  /\ r.pc = "undefine" => r.verb = "delete"
  /\ r.pc = "switch" => r.verb # "delete" /\ r.plan.running # None
  /\ r.pc \in {"switch", "delete", "confirmed"} /\ r.verb # "delete" =>
       /\ r.plan \in Plans \ {None}
       /\ r.verb = "stop" => r.plan.running \in {FALSE, None}
       /\ r.verb \in {"stop", "restart"} => r.plan.delete = TRUE
  /\ r.pc = "delete" /\ r.verb # "delete" => r.plan.delete = TRUE

\* What a request past its switch may rely on: a stop nobody disturbed left a definition
\* that says no, so nothing comes up behind the delete; and no instance is as old as the
\* one a restart found.
Standing(r, d, i, m) ==
  /\ r.old <= m
  /\ /\ r.verb = "stop" /\ r.pc \in {"delete", "confirmed"}
     /\ r.alone = TRUE /\ r.plan.running # None
     => d = FALSE /\ (r.pc = "confirmed" => i = None)
  /\ r.verb = "restart" /\ r.pc = "confirmed" => i = None \/ i.id > r.old

Underway == {o \in Requests : ~At(o, "idle")}
IInv ==
  /\ TypeOK
  /\ \A o \in Underway : Planned(op[o]) /\ Standing(op[o], def, inst, made)

-----------------------------------------------------------------------------
LEMMA IdleIsNoRequest == \A r \in Request : r.pc # "idle" /\ r # Idle
BY DEF Request, Idle

LEMMA UnderwayType ==
  ASSUME IInv, NEW o \in Requests, ~At(o, "idle")
  PROVE  /\ op[o] \in Request
         /\ Planned(op[o])
         /\ Standing(op[o], def, inst, made)
BY DEF IInv, TypeOK, At, Idle, Underway

\* What becomes of the instances in a step: as it was, gone, or a new one.
Later(i, m) ==
  /\ m >= made
  /\ i = None \/ (inst # None /\ i.id = inst.id) \/ i.id \in (made + 1)..m

\* Nobody but a controller comes between an undisturbed request and its claim, and the
\* controller starts nothing under a definition that says no.
LEMMA UndisturbedStands ==
  ASSUME NEW r \in Request, Standing(r, def, inst, made), made \in 0..MaxInst,
         NEW i, NEW m \in 0..MaxInst, Later(i, m),
         i = None \/ inst # None \/ def # FALSE
  PROVE  Standing(r, def, i, m)
<1>1. r.old <= m
  BY DEF Standing, Later, Request
<1>2. r.verb = "restart" /\ r.pc = "confirmed" => i = None \/ i.id > r.old
  <2> SUFFICES ASSUME r.verb = "restart", r.pc = "confirmed", i # None PROVE i.id > r.old
    OBVIOUS
  <2>1. CASE i.id \in (made + 1)..m
    BY <2>1 DEF Standing, Request
  <2>2. CASE inst # None /\ i.id = inst.id
    BY <2>2 DEF Standing
  <2> QED
    BY <2>1, <2>2 DEF Later
<1>3. /\ r.verb = "stop" /\ r.pc \in {"delete", "confirmed"}
      /\ r.alone = TRUE /\ r.plan.running # None
      => def = FALSE /\ (r.pc = "confirmed" => i = None)
  BY DEF Standing
<1> QED
  BY <1>1, <1>2, <1>3 DEF Standing

\* A disturbed request has its claim about the instances it found, and no other.
LEMMA DisturbedStands ==
  ASSUME NEW r \in Request, Standing(r, def, inst, made), made \in 0..MaxInst,
         NEW d, NEW i, NEW m \in 0..MaxInst, Later(i, m)
  PROVE  Standing([r EXCEPT !.alone = FALSE], d, i, m)
<1> DEFINE s == [r EXCEPT !.alone = FALSE]
<1>1. /\ s \in Request /\ s.alone = FALSE /\ s.old = r.old /\ s.verb = r.verb
      /\ s.pc = r.pc
  BY DEF Request
<1>2. r.old <= m
  BY DEF Standing, Later, Request
<1>3. r.verb = "restart" /\ r.pc = "confirmed" => i = None \/ i.id > r.old
  <2> SUFFICES ASSUME r.verb = "restart", r.pc = "confirmed", i # None PROVE i.id > r.old
    OBVIOUS
  <2>1. CASE i.id \in (made + 1)..m
    BY <2>1 DEF Standing, Request
  <2>2. CASE inst # None /\ i.id = inst.id
    BY <2>2 DEF Standing
  <2> QED
    BY <2>1, <2>2 DEF Later
<1> HIDE DEF s
<1>4. Standing(s, d, i, m)
  BY <1>1, <1>2, <1>3 DEF Standing
<1> QED
  BY <1>4 DEF s

LEMMA DisturbedRec ==
  ASSUME NEW r \in Request, Planned(r), NEW a \in BOOLEAN
  PROVE  [r EXCEPT !.alone = a] \in Request /\ Planned([r EXCEPT !.alone = a])
BY DEF Request, Planned

\* A step keeps the invariant when it does for every request there then is.
LEMMA EachKept ==
  ASSUME IInv,
         def' \in BOOLEAN \cup {None},
         inst' \in [id : 1..MaxInst, phase : Phases, owned : BOOLEAN] \cup {None},
         made' \in 0..MaxInst, seenDef' \in BOOLEAN, seenPhase' \in Phases \cup {None},
         op' \in [Requests -> Request \cup {Idle}],
         \A o \in Requests : op'[o] \in Request =>
           Planned(op'[o]) /\ Standing(op'[o], def', inst', made')
  PROVE  IInv'
<1>1. \A o \in Requests : ~At(o, "idle")' => op'[o] \in Request
  BY DEF At, Idle
<1>2. \A o \in Requests : /\ At(o, "switch")' => op'[o].plan.running # None
                          /\ At(o, "delete")' /\ op'[o].verb # "delete" => op'[o].plan.delete
  BY <1>1 DEF At, Planned
<1> QED
  BY <1>1, <1>2 DEF IInv, TypeOK, Underway, At

\* A step of one request, alone in what it writes or disturbing the others.
Others(o, w) ==
  \A q \in Requests \ {o} :
    op'[q] = IF w /\ op[q].pc # "idle" THEN [op[q] EXCEPT !.alone = FALSE] ELSE op[q]

LEMMA MovesKept ==
  ASSUME IInv, NEW o, NEW w \in BOOLEAN, Others(o, w),
         def' \in BOOLEAN \cup {None},
         inst' \in [id : 1..MaxInst, phase : Phases, owned : BOOLEAN] \cup {None},
         made' \in 0..MaxInst, UNCHANGED <<seenDef, seenPhase>>,
         op' \in [Requests -> Request \cup {Idle}],
         Later(inst', made'),
         ~w => def' = def /\ (inst' = None \/ inst # None \/ def # FALSE),
         o \in Requests /\ op'[o] \in Request =>
           Planned(op'[o]) /\ Standing(op'[o], def', inst', made')
  PROVE  IInv'
<1>1. made \in 0..MaxInst /\ seenDef \in BOOLEAN /\ seenPhase \in Phases \cup {None}
  BY DEF IInv, TypeOK
<1>2. ASSUME NEW q \in Requests \ {o}, op'[q] \in Request
      PROVE  Planned(op'[q]) /\ Standing(op'[q], def', inst', made')
  <2>1. ~At(q, "idle")
    BY <1>2, IdleIsNoRequest DEF Others, At
  <2>2. op[q] \in Request /\ Planned(op[q]) /\ Standing(op[q], def, inst, made)
    BY <2>1, UnderwayType
  <2>3. CASE w
    <3>1. op'[q] = [op[q] EXCEPT !.alone = FALSE]
      BY <2>1, <2>3 DEF Others, At
    <3>2. Standing([op[q] EXCEPT !.alone = FALSE], def', inst', made')
      BY <1>1, <2>2, DisturbedStands
    <3> QED
      BY <2>2, <3>1, <3>2, DisturbedRec
  <2>4. CASE ~w
    <3>1. op'[q] = op[q]
      BY <2>4 DEF Others
    <3>2. Standing(op[q], def, inst', made')
      BY <1>1, <2>2, <2>4, UndisturbedStands
    <3> QED
      BY <2>2, <2>4, <3>1, <3>2
  <2> QED
    BY <2>3, <2>4
<1>3. \A q \in Requests : op'[q] \in Request =>
        Planned(op'[q]) /\ Standing(op'[q], def', inst', made')
  BY <1>2
<1> QED
  BY <1>1, <1>3, EachKept

LEMMA DisturbedOthers ==
  ASSUME IInv, NEW o
  PROVE  /\ Disturbed(op, o) \in [Requests -> Request \cup {Idle}]
         /\ \A q \in Requests \ {o} : Disturbed(op, o)[q] =
              IF op[q].pc # "idle" THEN [op[q] EXCEPT !.alone = FALSE] ELSE op[q]
         /\ o \in Requests /\ op[o].pc # "idle" =>
              Disturbed(op, o)[o] = [op[o] EXCEPT !.alone = TRUE]
<1>1. \A q \in Requests : Disturbed(op, o)[q] = IF op[q].pc = "idle" THEN op[q]
                                                ELSE [op[q] EXCEPT !.alone = (q = o)]
  BY DEF Disturbed
<1>2. ASSUME NEW q \in Requests PROVE Disturbed(op, o)[q] \in Request \cup {Idle}
  <2>1. CASE op[q].pc = "idle"
    BY <1>1, <2>1 DEF IInv, TypeOK
  <2>2. CASE op[q].pc # "idle"
    <3>1. op[q] \in Request
      BY <2>2, UnderwayType DEF At
    <3>2. [op[q] EXCEPT !.alone = (q = o)] \in Request
      BY <3>1 DEF Request
    <3> QED
      BY <1>1, <2>2, <3>2
  <2> QED
    BY <2>1, <2>2
<1>3. Disturbed(op, o) \in [Requests -> Request \cup {Idle}]
  BY <1>2 DEF Disturbed
<1>4. ASSUME NEW q \in Requests \ {o}
      PROVE  Disturbed(op, o)[q] =
               IF op[q].pc # "idle" THEN [op[q] EXCEPT !.alone = FALSE] ELSE op[q]
  <2>1. (q = o) = FALSE
    OBVIOUS
  <2> QED
    BY <1>1, <2>1
<1>5. o \in Requests /\ op[o].pc # "idle" => Disturbed(op, o)[o] = [op[o] EXCEPT !.alone = TRUE]
  <2>1. (o = o) = TRUE
    OBVIOUS
  <2> QED
    BY <1>1, <2>1
<1> QED
  BY <1>3, <1>4, <1>5

LEMMA ReaderKept ==
  ASSUME IInv, NEW o \in Requests, NEW r \in Request \cup {Idle},
         op' = [op EXCEPT ![o] = r], inst' \in {inst, None},
         UNCHANGED <<def, made, watched>>,
         r \in Request => Planned(r) /\ Standing(r, def, inst', made)
  PROVE  IInv'
<1>1. /\ op \in [Requests -> Request \cup {Idle}] /\ made \in 0..MaxInst
      /\ def \in BOOLEAN \cup {None}
      /\ inst \in [id : 1..MaxInst, phase : Phases, owned : BOOLEAN] \cup {None}
  BY DEF IInv, TypeOK
<1>2. op' \in [Requests -> Request \cup {Idle}] /\ op'[o] = r
  BY <1>1
<1>3. Others(o, FALSE)
  BY <1>1 DEF Others
<1>4. Later(inst', made')
  BY <1>1 DEF Later
<1> QED
  BY <1>1, <1>2, <1>3, <1>4, MovesKept DEF watched

LEMMA WriterKept ==
  ASSUME IInv, NEW o \in Requests, NEW r \in Request \cup {Idle},
         op' = [Disturbed(op, o) EXCEPT ![o] = r], def' \in BOOLEAN \cup {None},
         UNCHANGED <<inst, made, watched>>,
         r \in Request => Planned(r) /\ Standing(r, def', inst, made)
  PROVE  IInv'
<1>1. /\ op \in [Requests -> Request \cup {Idle}] /\ made \in 0..MaxInst
      /\ inst \in [id : 1..MaxInst, phase : Phases, owned : BOOLEAN] \cup {None}
  BY DEF IInv, TypeOK
<1>2. op' \in [Requests -> Request \cup {Idle}] /\ op'[o] = r
  BY DisturbedOthers
<1>3. Others(o, TRUE)
  BY DisturbedOthers DEF Others
<1>4. Later(inst', made')
  BY <1>1 DEF Later
<1> QED
  BY <1>1, <1>2, <1>3, <1>4, MovesKept DEF watched

-----------------------------------------------------------------------------
LEMMA InitKept == Init => IInv
<1> SUFFICES ASSUME Init PROVE IInv
  OBVIOUS
<1>1. inst \in [id : 1..MaxInst, phase : Phases, owned : BOOLEAN] \cup {None}
  <2>1. 1 \in 1..MaxInst /\ (def # None) \in BOOLEAN
    BY InstancesAssumption
  <2>2. inst = None \/ inst \in [id : {1}, phase : Phases, owned : {def # None}]
    BY DEF Init
  <2>3. \E b \in BOOLEAN : inst = None \/ inst \in [id : {1}, phase : Phases, owned : {b}]
    BY <2>1, <2>2, Zenon
  <2>4. PICK b \in BOOLEAN : inst = None \/ inst \in [id : {1}, phase : Phases, owned : {b}]
    BY <2>3
  <2> QED
    BY <2>1, <2>4
<1>2. seenPhase \in Phases \cup {None}
  BY <1>1 DEF Init, Phase
<1>4. \A o \in Requests : At(o, "idle")
  BY DEF Init, At, Idle
<1>5. /\ def \in BOOLEAN \cup {None} /\ made \in 0..MaxInst /\ seenDef \in BOOLEAN
      /\ op \in [Requests -> Request \cup {Idle}]
  BY InstancesAssumption DEF Init
<1> QED
  BY <1>1, <1>2, <1>4, <1>5 DEF IInv, TypeOK, Underway, At

LEMMA OutsideKept == IInv /\ (KubeVirt \/ Outside) => IInv'
<1> SUFFICES ASSUME IInv, KubeVirt \/ Outside PROVE IInv'
  OBVIOUS
<1>0. /\ op \in [Requests -> Request \cup {Idle}] /\ made \in 0..MaxInst
      /\ def \in BOOLEAN \cup {None}
      /\ inst \in [id : 1..MaxInst, phase : Phases, owned : BOOLEAN] \cup {None}
  BY DEF IInv, TypeOK
<1>1. CASE ControllerStarts
  <2>1. Later(inst', made') /\ made' \in 0..MaxInst
    BY <1>0, <1>1, InstancesAssumption DEF ControllerStarts, NewInstance, Later
  <2>2. inst' \in [id : 1..MaxInst, phase : Phases, owned : BOOLEAN]
    BY <1>0, <1>1, InstancesAssumption DEF ControllerStarts, NewInstance, Phases
  <2>3. Others(None, FALSE)
    BY <1>1 DEF ControllerStarts, Others
  <2>4. def' = def /\ def # FALSE /\ op' = op /\ UNCHANGED <<seenDef, seenPhase>>
    BY <1>1 DEF ControllerStarts, watched
  <2> QED
    BY <1>0, <2>1, <2>2, <2>3, <2>4, NoneAssumption, MovesKept
<1>2. CASE ControllerStops \/ InstanceMoves
  <2>1. Later(inst', made')
    BY <1>0, <1>2 DEF ControllerStops, InstanceMoves, Later
  <2>2. inst' \in [id : 1..MaxInst, phase : Phases, owned : BOOLEAN] \cup {None}
    BY <1>0, <1>2 DEF ControllerStops, InstanceMoves, Phases
  <2>3. Others(None, FALSE)
    BY <1>2 DEF ControllerStops, InstanceMoves, Others
  <2>4. /\ def' = def /\ made' = made /\ op' = op /\ UNCHANGED <<seenDef, seenPhase>>
        /\ inst # None
    BY <1>2 DEF ControllerStops, InstanceMoves, watched
  <2> QED
    BY <1>0, <2>1, <2>2, <2>3, <2>4, NoneAssumption, MovesKept
<1>3. CASE Outside
  <2>1. op' = Disturbed(op, None) /\ UNCHANGED <<seenDef, seenPhase>>
    BY <1>3 DEF Outside, OutsideDefines, OutsideInstance, watched
  <2>2. def' \in BOOLEAN \cup {None}
    BY <1>0, <1>3 DEF Outside, OutsideDefines, OutsideInstance
  <2>3. /\ inst' \in [id : 1..MaxInst, phase : Phases, owned : BOOLEAN] \cup {None}
        /\ Later(inst', made') /\ made' \in 0..MaxInst
    <3>1. CASE OutsideDefines
      BY <1>0, <3>1 DEF OutsideDefines, Later
    <3>2. CASE OutsideInstance
      BY <1>0, <3>2, InstancesAssumption DEF OutsideInstance, NewInstance, Later, Phases
    <3> QED
      BY <1>3, <3>1, <3>2 DEF Outside
  <2>4. Others(None, TRUE) /\ op' \in [Requests -> Request \cup {Idle}]
    BY <2>1, DisturbedOthers DEF Others
  <2> QED
    BY <2>1, <2>2, <2>3, <2>4, NoneAssumption, MovesKept
<1> QED
  BY <1>1, <1>2, <1>3 DEF KubeVirt

LEMMA WatchKept == IInv /\ (Watch \/ UNCHANGED vars) => IInv'
<1> SUFFICES ASSUME IInv, Watch \/ UNCHANGED vars PROVE IInv'
  OBVIOUS
<1>1. UNCHANGED <<def, inst, made, op>>
  BY DEF Watch, WatchDefinition, WatchInstance, vars, watched
<1>2. seenDef' \in BOOLEAN
  BY DEF IInv, TypeOK, Watch, WatchDefinition, WatchInstance, vars, watched
<1>3. seenPhase' \in Phases \cup {None}
  BY DEF IInv, TypeOK, Watch, WatchDefinition, WatchInstance, vars, watched, Phase
<1> QED
  BY <1>1, <1>2, <1>3 DEF IInv, TypeOK, Underway, At

LEMMA ArriveKept ==
  ASSUME IInv, NEW o \in Requests, NEW verb \in Verbs, Arrive(o, verb)
  PROVE  IInv'
<1> DEFINE r == [pc |-> IF verb = "delete" /\ seenDef THEN "undefine"
                        ELSE IF verb = "delete" THEN "delete" ELSE "phase",
                 verb |-> verb, defined |-> seenDef, plan |-> None,
                 old |-> made, alone |-> TRUE]
<1>1. seenDef \in BOOLEAN /\ made \in 0..MaxInst
  BY DEF IInv, TypeOK
<1>2. r \in Request
  BY <1>1 DEF Request, Plans
<1>3. Planned(r) /\ Standing(r, def, inst, made)
  BY <1>1 DEF Planned, Standing, Verbs
<1>4. op' = [op EXCEPT ![o] = r] /\ UNCHANGED <<def, inst, made, watched>>
  BY DEF Arrive
<1> HIDE DEF r
<1> QED
  BY <1>2, <1>3, <1>4, ReaderKept

LEMMA GoneKept ==
  ASSUME IInv, NEW o \in Requests, op' = Fail(o), inst' \in {inst, None},
         UNCHANGED <<def, made, watched>>
  PROVE  IInv'
BY ReaderKept, IdleIsNoRequest DEF Fail

\* A plan the code can make.
LEMMA PlanType ==
  ASSUME NEW verb \in Verbs \ {"delete"}, NEW defined \in BOOLEAN, NEW phase,
         Plan(verb, defined, phase) # None
  PROVE  /\ Plan(verb, defined, phase) \in Plans \ {None}
         /\ verb = "stop" => Plan(verb, defined, phase).running \in {FALSE, None}
         /\ verb \in {"stop", "restart"} => Plan(verb, defined, phase).delete = TRUE
         /\ Plan(verb, defined, phase).running = None => Plan(verb, defined, phase).delete = TRUE
<1>1. Plan(verb, defined, phase) =
        [running |-> IF defined THEN verb # "stop" ELSE None,
         delete  |-> verb # "start" \/ phase \notin {None, "Running"}]
  BY DEF Plan
<1>2. (verb # "stop") \in BOOLEAN /\ (verb # "start" \/ phase \notin {None, "Running"}) \in BOOLEAN
  OBVIOUS
<1>3. /\ Plan(verb, defined, phase).running = IF defined THEN verb # "stop" ELSE None
      /\ Plan(verb, defined, phase).delete = (verb # "start" \/ phase \notin {None, "Running"})
  BY <1>1
<1>4. Plan(verb, defined, phase) \in Plans
  BY <1>1, <1>2 DEF Plans
<1>5. verb = "stop" => (verb # "stop") = FALSE
  OBVIOUS
<1>6. verb # "start" => (verb # "start" \/ phase \notin {None, "Running"}) = TRUE
  OBVIOUS
<1>7. defined => Plan(verb, defined, phase).running \in BOOLEAN
  BY <1>2, <1>3
<1>8. ~defined => verb = "stop"
  BY DEF Plan
<1> QED
  BY <1>3, <1>4, <1>5, <1>6, <1>7, <1>8, NoneAssumption

LEMMA MakePlanKept ==
  ASSUME IInv, NEW o \in Requests, MakePlan(o)
  PROVE  IInv'
<1> DEFINE p == Plan(op[o].verb, op[o].defined, seenPhase)
           r == [op[o] EXCEPT !.plan = p, !.pc = IF p.running = None THEN "delete" ELSE "switch"]
<1>1. /\ op[o] \in Request /\ Planned(op[o]) /\ Standing(op[o], def, inst, made)
      /\ op[o].pc = "phase"
  BY UnderwayType DEF MakePlan, At
<1>2. UNCHANGED <<def, inst, made, watched>>
  BY DEF MakePlan
<1>3. CASE p = None
  BY <1>2, <1>3, GoneKept DEF MakePlan
<1>4. CASE p # None
  <2>1. op' = [op EXCEPT ![o] = r]
    <3>1. op' = [op EXCEPT ![o].plan = p, ![o].pc = IF p.running = None THEN "delete" ELSE "switch"]
      BY <1>4 DEF MakePlan
    <3> HIDE DEF p
    <3> QED
      BY <3>1
  <2>2. op[o].verb \in Verbs \ {"delete"} /\ op[o].defined \in BOOLEAN
    BY <1>1 DEF Request, Planned
  <2>3. /\ p \in Plans \ {None}
        /\ op[o].verb = "stop" => p.running \in {FALSE, None}
        /\ op[o].verb \in {"stop", "restart"} => p.delete = TRUE
        /\ p.running = None => p.delete = TRUE
    BY <1>4, <2>2, PlanType
  <2> HIDE DEF p
  <2>4. r \in Request
    BY <1>1, <2>3 DEF Request
  <2>5. /\ r.verb = op[o].verb /\ r.plan = p /\ r.old = op[o].old
        /\ r.pc = IF p.running = None THEN "delete" ELSE "switch"
    BY <1>1 DEF Request
  <2> HIDE DEF r
  <2>6. Planned(r)
    BY <2>2, <2>3, <2>5 DEF Planned
  <2>7. Standing(r, def, inst, made)
    <3>1. r.old <= made
      BY <1>1, <2>5 DEF Standing
    <3>2. r.pc # "confirmed"
      BY <2>5
    <3>3. ~(r.verb = "stop" /\ r.pc \in {"delete", "confirmed"} /\ r.plan.running # None)
      BY <2>5
    <3> QED
      BY <3>1, <3>2, <3>3 DEF Standing
  <2> QED
    BY <1>2, <2>1, <2>4, <2>6, <2>7, ReaderKept
<1> QED
  BY <1>3, <1>4

\* The switch is written: the claim of this request starts over, on what it wrote.
LEMMA SwitchKept ==
  ASSUME IInv, NEW o \in Requests, SwitchWritten(o) \/ SwitchUnknown(o)
  PROVE  IInv'
<1>1. /\ op[o] \in Request /\ Planned(op[o]) /\ Standing(op[o], def, inst, made)
      /\ op[o].pc = "switch"
  BY UnderwayType DEF SwitchWritten, SwitchUnknown, At
<1>2. /\ UNCHANGED <<inst, made, watched>> /\ def' = op[o].plan.running
  BY DEF SwitchWritten, SwitchUnknown
<1>3. def' \in BOOLEAN /\ (op[o].verb = "stop" => def' = FALSE)
  BY <1>1, <1>2 DEF Planned, Plans
<1>4. CASE SwitchUnknown(o)
  BY <1>2, <1>3, <1>4, IdleIsNoRequest, WriterKept DEF SwitchUnknown
<1>5. CASE SwitchWritten(o)
  <2> DEFINE r == [op[o] EXCEPT !.alone = TRUE,
                     !.pc = IF op[o].plan.delete THEN "delete" ELSE "confirmed"]
  <2>1. op' = [Disturbed(op, o) EXCEPT ![o] = r]
    <3>1. Disturbed(op, o)[o] = [op[o] EXCEPT !.alone = TRUE]
      BY <1>1, DisturbedOthers
    <3> QED
      BY <1>1, <1>5, <3>1, DisturbedOthers DEF SwitchWritten, AfterSwitch
  <2>2. r \in Request
    BY <1>1 DEF Request
  <2>3. /\ r.verb = op[o].verb /\ r.plan = op[o].plan /\ r.old = op[o].old
        /\ r.pc = IF op[o].plan.delete THEN "delete" ELSE "confirmed"
    BY <1>1 DEF Request
  <2> HIDE DEF r
  <2>4. /\ op[o].plan \in Plans \ {None} /\ op[o].verb # "delete"
        /\ op[o].verb = "stop" => op[o].plan.running \in {FALSE, None}
        /\ op[o].verb \in {"stop", "restart"} => op[o].plan.delete = TRUE
        /\ op[o].old <= made
    BY <1>1 DEF Planned, Standing
  <2>5. op[o].plan.delete \in BOOLEAN
    BY <2>4 DEF Plans
  <2>6. Planned(r)
    BY <2>3, <2>4, <2>5 DEF Planned
  <2>7. Standing(r, def', inst, made)
    BY <1>3, <2>3, <2>4, <2>5 DEF Standing
  <2> QED
    BY <1>2, <1>3, <2>1, <2>2, <2>6, <2>7, WriterKept
<1> QED
  BY <1>4, <1>5

\* The instance is not there any more, deleted or found gone.
LEMMA DeletedKept ==
  ASSUME IInv, NEW o \in Requests, At(o, "delete"), inst' = None,
         op' = Confirm(o), UNCHANGED <<def, made, watched>>
  PROVE  IInv'
<1> DEFINE r == [op[o] EXCEPT !.pc = "confirmed"]
<1>1. /\ op[o] \in Request /\ Planned(op[o]) /\ Standing(op[o], def, inst, made)
      /\ op[o].pc = "delete"
  BY UnderwayType DEF At
<1>2. op' = [op EXCEPT ![o] = r]
  BY DEF Confirm
<1>3. r \in Request /\ r = [op[o] EXCEPT !.pc = "confirmed"]
  BY <1>1 DEF Request
<1> HIDE DEF r
<1>4. /\ r.verb = op[o].verb /\ r.plan = op[o].plan /\ r.old = op[o].old
      /\ r.pc = "confirmed" /\ r.alone = op[o].alone
  BY <1>1, <1>3 DEF Request
<1>5. Planned(r)
  BY <1>1, <1>4 DEF Planned
<1>6. Standing(r, def, inst', made)
  BY <1>1, <1>4 DEF Standing
<1> QED
  BY <1>2, <1>3, <1>5, <1>6, ReaderKept

LEMMA InstanceGoneKept ==
  ASSUME IInv, NEW o \in Requests, InstanceGone(o)
  PROVE  IInv'
<1>1. CASE op' = Confirm(o)
  BY <1>1, DeletedKept DEF InstanceGone
<1>2. CASE op' = Fail(o)
  BY <1>2, GoneKept DEF InstanceGone
<1> QED
  BY <1>1, <1>2 DEF InstanceGone

LEMMA UndefineKept ==
  ASSUME IInv, NEW o \in Requests, Undefined(o) \/ UndefineFailed(o)
  PROVE  IInv'
<1>1. /\ op[o] \in Request /\ Planned(op[o]) /\ Standing(op[o], def, inst, made)
      /\ op[o].pc = "undefine"
  BY UnderwayType DEF Undefined, UndefineFailed, At
<1>2. def' \in BOOLEAN \cup {None} /\ UNCHANGED <<inst, made, watched>>
  BY DEF Undefined, UndefineFailed, IInv, TypeOK
\* Wherever a request for a deletion stands, it claims nothing.
<1>3. ASSUME NEW pc \in {"delete", "confirmed"}, NEW a \in BOOLEAN, NEW d
      PROVE  LET r == [op[o] EXCEPT !.alone = a, !.pc = pc]
             IN  r \in Request /\ Planned(r) /\ Standing(r, d, inst, made)
  <2> DEFINE r == [op[o] EXCEPT !.alone = a, !.pc = pc]
  <2>1. r \in Request
    BY <1>1 DEF Request
  <2>2. r.verb = "delete" /\ r.old = op[o].old /\ r.pc = pc
    BY <1>1 DEF Request, Planned
  <2> HIDE DEF r
  <2>3. Planned(r) /\ Standing(r, d, inst, made)
    BY <1>1, <2>2 DEF Planned, Standing
  <2> QED
    BY <2>1, <2>3 DEF r
<1>4. ASSUME NEW pc \in {"delete", "confirmed"}, op' = [Disturbed(op, o) EXCEPT ![o].pc = pc]
      PROVE  IInv'
  <2> DEFINE r == [op[o] EXCEPT !.alone = TRUE, !.pc = pc]
  <2>1. Disturbed(op, o)[o] = [op[o] EXCEPT !.alone = TRUE]
    BY <1>1, DisturbedOthers
  <2>2. op' = [Disturbed(op, o) EXCEPT ![o] = r]
    BY <1>4, <2>1, DisturbedOthers
  <2>3. r \in Request /\ Planned(r) /\ Standing(r, def', inst, made)
    BY <1>3
  <2> HIDE DEF r
  <2> QED
    BY <1>2, <2>2, <2>3, WriterKept
<1>5. ASSUME def' = def, op' = [op EXCEPT ![o].pc = "delete"]
      PROVE  IInv'
  <2> DEFINE r == [op[o] EXCEPT !.alone = op[o].alone, !.pc = "delete"]
  <2>1. op' = [op EXCEPT ![o] = r]
    BY <1>1, <1>5 DEF Request
  <2>2. r \in Request /\ Planned(r) /\ Standing(r, def, inst, made)
    <3>1. op[o].alone \in BOOLEAN
      BY <1>1 DEF Request
    <3> QED
      BY <1>3, <3>1
  <2> HIDE DEF r
  <2> QED
    BY <1>2, <1>5, <2>1, <2>2, ReaderKept
<1>6. CASE Undefined(o)
  BY <1>4, <1>6 DEF Undefined
<1>7. CASE UndefineFailed(o)
  BY <1>4, <1>5, <1>7 DEF UndefineFailed
<1> QED
  BY <1>6, <1>7

-----------------------------------------------------------------------------
LEMMA NextKept == IInv /\ [Next]_vars => IInv'
<1> SUFFICES ASSUME IInv, [Next]_vars PROVE IInv'
  OBVIOUS
<1>1. CASE KubeVirt \/ Outside
  BY <1>1, OutsideKept
<1>2. CASE Watch \/ UNCHANGED vars
  BY <1>2, WatchKept
<1>3. ASSUME NEW o \in Requests, Handler(o) \/ Page(o) PROVE IInv'
  <2>1. CASE MakePlan(o)
    BY <2>1, MakePlanKept
  <2>2. CASE SwitchWritten(o) \/ SwitchUnknown(o)
    BY <2>2, SwitchKept
  <2>3. CASE SwitchFailed(o) \/ DeleteFailed(o) \/ Leave(o)
    BY <2>3, GoneKept DEF SwitchFailed, DeleteFailed, Leave, Fail
  <2>4. CASE DeleteInstance(o)
    BY <2>4, DeletedKept DEF DeleteInstance
  <2>5. CASE InstanceGone(o)
    BY <2>5, InstanceGoneKept
  <2>6. CASE Undefined(o) \/ UndefineFailed(o)
    BY <2>6, UndefineKept
  <2>7. CASE \E verb \in Verbs : Arrive(o, verb)
    BY <2>7, ArriveKept
  <2> QED
    BY <1>3, <2>1, <2>2, <2>3, <2>4, <2>5, <2>6, <2>7 DEF Handler, Page
<1> QED
  BY <1>1, <1>2, <1>3 DEF Next

LEMMA Inductive == Spec => []IInv
<1>1. Init => IInv
  BY InitKept
<1>2. IInv /\ [Next]_vars => IInv'
  BY NextKept
<1> QED
  BY <1>1, <1>2, PTL DEF Spec

\* Every variable has its type, and no request writes anything before its plan is made.
THEOREM TypeCorrect == Spec => []TypeOK
<1>1. IInv => TypeOK
  BY DEF IInv
<1> QED
  BY <1>1, Inductive, PTL

\* The switch goes first, so a confirmed stop lasts: however many requests are under way
\* and whatever the controller does between the switch and the delete, the machine is
\* down until somebody else writes it.
THEOREM StoppedStaysDown == Spec => []StopStops
<1>1. IInv => StopStops
  BY DEF IInv, Underway, Standing, StopStops, Told, At, TypeOK, Request, Idle
<1> QED
  BY <1>1, Inductive, PTL

\* A confirmed restart has replaced the instance it found, for any number of instances
\* that came and went meanwhile and however stale the watch was.
THEOREM RestartedIsAnother == Spec => []RestartReplaces
<1>1. IInv => RestartReplaces
  BY DEF IInv, Underway, Standing, RestartReplaces, Told, At
<1> QED
  BY <1>1, Inductive, PTL

=============================================================================
