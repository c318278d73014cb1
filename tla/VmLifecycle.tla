----------------------------- MODULE VmLifecycle -----------------------------
(***************************************************************************)
(* Start, stop, restart and delete of one virtual machine (vm/lifecycle.rs *)
(* and the handlers of vm/lib.rs), several requests at once.               *)
(*                                                                         *)
(* A handler reads whether the machine is defined and its instance's phase *)
(* from the watch cache, makes a plan, writes the definition's switch and  *)
(* deletes the instance: two requests to the apiserver, each of which may  *)
(* be refused, or take effect and lose its answer.  KubeVirt is external:  *)
(* its controller makes an instance for a definition that says running,    *)
(* removes the one of a definition that does not, and an instance goes     *)
(* through its phases by itself.                                           *)
(***************************************************************************)
EXTENDS Integers

CONSTANTS
  Requests,     \* the console's requests that can be under way
  MaxInst,      \* bound: how many instances are ever made
  None          \* no definition, no instance, no switch to write

ASSUME InstancesAssumption == MaxInst \in Nat \ {0}
ASSUME NoneAssumption == None \notin BOOLEAN \cup Requests

VARIABLES
  def,          \* the apiserver's VirtualMachine: None, or what spec.running says
  inst,         \* the apiserver's VirtualMachineInstance: None, or [id, phase, owned]
  made,         \* how many instances have been made: the last id
  seenDef,      \* Store "vm": is the definition there
  seenPhase,    \* Store "vmi": the instance's phase, None when it is not there
  op            \* the requests

watched == <<seenDef, seenPhase>>
vars    == <<def, inst, made, seenDef, seenPhase, op>>

Verbs  == {"start", "stop", "restart", "delete"}
Phases == {"Scheduling", "Running", "Failed"}
Phase(i) == IF i = None THEN None ELSE i.phase

-----------------------------------------------------------------------------
(* The plan: what a verb writes to the switch, and whether the instance is  *)
(* deleted.  None: refused, there is nothing to start it from.              *)

\* Mutant: a restart deletes the instance the watch shows.
PlanDeletesSeen(verb, defined, phase) ==
  IF ~defined /\ verb # "stop" THEN None
  ELSE [running |-> IF defined THEN verb # "stop" ELSE None,
        delete  |-> phase # None /\ (verb # "start" \/ phase # "Running")]

Plan(verb, defined, phase) ==
  IF ~defined /\ verb # "stop" THEN None
  ELSE [running |-> IF defined THEN verb # "stop" ELSE None,
        delete  |-> verb # "start" \/ phase \notin {None, "Running"}]

-----------------------------------------------------------------------------
Idle == [pc |-> "idle"]

Init ==
  /\ def \in BOOLEAN \cup {None}
  /\ inst \in {None} \cup [id : {1}, phase : Phases, owned : {def # None}]
  /\ made = IF inst = None THEN 0 ELSE 1
  /\ seenDef = (def # None)
  /\ seenPhase = Phase(inst)
  /\ op = [o \in Requests |-> Idle]

\* Whoever writes the machine disturbs every request but their own, whose claim
\* about it starts over.
Disturbed(ops, by) ==
  [o \in Requests |-> IF ops[o].pc = "idle" THEN ops[o]
                      ELSE [ops[o] EXCEPT !.alone = (o = by)]]

-----------------------------------------------------------------------------
(* KubeVirt, kubectl and the watch. *)

NewInstance(owned) ==
  /\ inst = None
  /\ made < MaxInst
  /\ made' = made + 1
  /\ inst' = [id |-> made + 1, phase |-> "Scheduling", owned |-> owned]

ControllerStarts ==
  /\ def = TRUE
  /\ NewInstance(TRUE)
  /\ UNCHANGED <<def, watched, op>>

ControllerStops ==
  /\ inst # None
  /\ \/ def = FALSE
     \/ def = None /\ inst.owned
  /\ inst' = None
  /\ UNCHANGED <<def, made, watched, op>>

InstanceMoves ==
  /\ inst # None
  /\ \E to \in {"Running", "Failed"} :
       /\ inst.phase # "Failed" /\ inst.phase # to
       /\ inst' = [inst EXCEPT !.phase = to]
  /\ UNCHANGED <<def, made, watched, op>>

OutsideDefines ==
  /\ \E d \in BOOLEAN \cup {None} : d # def /\ def' = d
  /\ op' = Disturbed(op, None)
  /\ UNCHANGED <<inst, made, watched>>

OutsideInstance ==
  /\ def = None
  /\ NewInstance(FALSE)
  /\ op' = Disturbed(op, None)
  /\ UNCHANGED <<def, watched>>

\* The watch of either kind brings the store up to date.
WatchDefinition ==
  /\ seenDef # (def # None)
  /\ seenDef' = (def # None)
  /\ UNCHANGED <<def, inst, made, seenPhase, op>>

WatchInstance ==
  /\ seenPhase # Phase(inst)
  /\ seenPhase' = Phase(inst)
  /\ UNCHANGED <<def, inst, made, seenDef, op>>

-----------------------------------------------------------------------------
(* A request. *)

At(o, pc)    == op[o].pc = pc
Confirm(o)   == [op EXCEPT ![o].pc = "confirmed"]
Fail(o)      == [op EXCEPT ![o] = Idle]

Arrive(o, verb) ==
  /\ At(o, "idle")
  /\ op' = [op EXCEPT ![o] =
       [pc |-> IF verb = "delete" /\ seenDef THEN "undefine"
               ELSE IF verb = "delete" THEN "delete" ELSE "phase",
        verb |-> verb, defined |-> seenDef, plan |-> None,
        old |-> made, alone |-> TRUE]]
  /\ UNCHANGED <<def, inst, made, watched>>

\* The second look into the store, and the plan it makes.
MakePlan(o) ==
  /\ At(o, "phase")
  /\ LET p == Plan(op[o].verb, op[o].defined, seenPhase)
     IN  op' = IF p = None THEN Fail(o)
               ELSE [op EXCEPT ![o].plan = p,
                               ![o].pc = IF p.running = None THEN "delete" ELSE "switch"]
  /\ UNCHANGED <<def, inst, made, watched>>

\* What follows the switch: the delete, if the plan has one.
AfterSwitch(o) ==
  LET ops == Disturbed(op, o)
  IN  IF op[o].plan.delete THEN [ops EXCEPT ![o].pc = "delete"]
      ELSE [ops EXCEPT ![o].pc = "confirmed"]

SwitchWritten(o) ==
  /\ At(o, "switch")
  /\ def # None
  /\ def' = op[o].plan.running
  /\ op' = AfterSwitch(o)
  /\ UNCHANGED <<inst, made, watched>>

\* Mutant: a switch that could not be written does not end the request.
SwitchFailureIgnored(o) ==
  /\ At(o, "switch")
  /\ op' = [op EXCEPT ![o].pc = "delete"]
  /\ UNCHANGED <<def, inst, made, watched>>

\* Refused, not found or unreachable: the request ends here.
SwitchFailed(o) ==
  /\ At(o, "switch")
  /\ op' = Fail(o)
  /\ UNCHANGED <<def, inst, made, watched>>

\* Written, and the answer lost.
SwitchUnknown(o) ==
  /\ At(o, "switch")
  /\ def # None
  /\ def' = op[o].plan.running
  /\ op' = [Disturbed(op, o) EXCEPT ![o] = Idle]
  /\ UNCHANGED <<inst, made, watched>>

DeleteInstance(o) ==
  /\ At(o, "delete")
  /\ inst # None
  /\ inst' = None
  /\ op' = Confirm(o)
  /\ UNCHANGED <<def, made, watched>>

\* A 404 is no error where the switch was written.
InstanceGone(o) ==
  /\ At(o, "delete")
  /\ inst = None
  /\ op' = IF op[o].plan # None /\ op[o].plan.running # None THEN Confirm(o) ELSE Fail(o)
  /\ UNCHANGED <<def, inst, made, watched>>

DeleteFailed(o) ==
  /\ At(o, "delete")
  /\ inst' \in {inst, None}
  /\ op' = Fail(o)
  /\ UNCHANGED <<def, made, watched>>

\* Delete takes the definition first, and with it the instance ...
Undefined(o) ==
  /\ At(o, "undefine")
  /\ def # None
  /\ def' = None
  /\ op' = [Disturbed(op, o) EXCEPT ![o].pc = "confirmed"]
  /\ UNCHANGED <<inst, made, watched>>

\* ... and whatever else became of that request, goes on to the instance.
UndefineFailed(o) ==
  /\ At(o, "undefine")
  /\ def' \in {def, None}
  /\ op' = [IF def' = def THEN op ELSE Disturbed(op, o) EXCEPT ![o].pc = "delete"]
  /\ UNCHANGED <<inst, made, watched>>

Leave(o) ==
  /\ At(o, "confirmed")
  /\ op' = [op EXCEPT ![o] = Idle]
  /\ UNCHANGED <<def, inst, made, watched>>

-----------------------------------------------------------------------------
KubeVirt == ControllerStarts \/ ControllerStops \/ InstanceMoves
Outside  == OutsideDefines \/ OutsideInstance
Watch    == WatchDefinition \/ WatchInstance

Handler(o) ==
  \/ MakePlan(o)
  \/ SwitchWritten(o) \/ SwitchFailed(o) \/ SwitchUnknown(o)
  \/ DeleteInstance(o) \/ InstanceGone(o) \/ DeleteFailed(o)
  \/ Undefined(o) \/ UndefineFailed(o)

Page(o) == Leave(o) \/ \E verb \in Verbs : Arrive(o, verb)

Next == KubeVirt \/ Outside \/ Watch \/ \E o \in Requests : Handler(o) \/ Page(o)

Spec == Init /\ [][Next]_vars

\* KubeVirt's controller keeps up; nothing is asked of the console or of the watch.
FairSpec == Spec /\ WF_vars(ControllerStarts)

-----------------------------------------------------------------------------
(* Properties. *)

Plans   == [running : BOOLEAN \cup {None}, delete : BOOLEAN] \cup {None}
Request == [pc : {"phase", "switch", "undefine", "delete", "confirmed"}, verb : Verbs,
            defined : BOOLEAN, plan : Plans, old : 0..MaxInst, alone : BOOLEAN]

\* Every variable has its type; a request that is not a delete has its plan before
\* it writes anything.
TypeOK ==
  /\ def \in BOOLEAN \cup {None}
  /\ inst \in [id : 1..MaxInst, phase : Phases, owned : BOOLEAN] \cup {None}
  /\ made \in 0..MaxInst
  /\ seenDef \in BOOLEAN
  /\ seenPhase \in Phases \cup {None}
  /\ op \in [Requests -> Request \cup {Idle}]
  /\ \A o \in Requests :
       /\ At(o, "switch") => op[o].plan.running # None
       /\ At(o, "delete") /\ op[o].verb # "delete" => op[o].plan.delete

Told(o, verb) == At(o, "confirmed") /\ op[o].verb = verb /\ op[o].alone

\* "The switch first: an instance deleted under a definition that still says running
\* comes straight back, which is a restart and not a stop": a machine a stop was
\* confirmed for, through its definition, is down and stays so until somebody else
\* writes the machine - whatever the controller did between the two requests.
StopStops ==
  \A o \in Requests : Told(o, "stop") /\ op[o].plan.running # None => inst = None

\* A confirmed restart replaced the instance: the one that ran when the request
\* came is gone, whatever its phase was and however stale the watch.
RestartReplaces ==
  \A o \in Requests : Told(o, "restart") => inst = None \/ inst.id > op[o].old

\* "The dead instance is deleted so the definition puts a fresh one back": once a
\* restart is confirmed, a new instance comes, unless somebody writes the machine
\* again or instances ran out of the bound.
FreshInstance ==
  \A o \in Requests :
    Told(o, "restart") ~> \/ ~Told(o, "restart")
                          \/ inst # None /\ inst.id > op[o].old
                          \/ made = MaxInst

=============================================================================
