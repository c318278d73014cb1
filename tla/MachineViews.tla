---------------------------- MODULE MachineViews ----------------------------
(***************************************************************************)
(* What the console shows and offers of one virtual machine: its row, its  *)
(* network, its snapshots, its two console doors, remote desktop and what  *)
(* its guest is told of itself (vm/components.rs, network.rs, snapshots.rs,*)
(* console.rs, rdp.rs, identity.rs and their handlers in vm/lib.rs).       *)
(*                                                                         *)
(* The state is what the caches and probes hold, and one event of the      *)
(* watch, a probe, a clock or a sign-in changes one part of it; every page *)
(* is computed anew from it, and so is every refusal.                      *)
(***************************************************************************)
EXTENDS FiniteSets

CONSTANT None       \* not there, not reported, not said

VARIABLES
  card,             \* the part of the page that is looked at
  world             \* what the caches and probes hold

vars == <<card, world>>

Flag == BOOLEAN

\* The parts that change while a card is looked at; the others are as in Quiet.
Varies(c) ==
  CASE c = "row"      -> {"vm", "vmi", "seen"}
    [] c = "backup"   -> {"vm", "vmi", "snap", "crd", "write", "hidden"}
    [] c = "doors"    -> {"stormvm", "asked", "write", "hidden", "signed"}
    [] c = "identity" -> {"vmi", "answers", "kubelet", "hidden"}

Cards == {"row", "backup", "doors", "identity"}

Quiet ==
  [vm |-> [running |-> TRUE, bridge |-> FALSE],
   vmi |-> [phase |-> "Running", placed |-> TRUE, did |-> "masquerade", wants |-> "pod",
            addressed |-> TRUE],
   seen |-> None, snap |-> None, crd |-> TRUE, stormvm |-> "up", asked |-> "both",
   answers |-> {"answered"}, kubelet |-> TRUE, write |-> TRUE, hidden |-> FALSE, signed |-> TRUE]

Instances ==
  [phase : {"Scheduling", "Running", "Succeeded", "Failed", "Unknown"},
   placed : Flag, did : {None, "user", "host-bridge", "bridge", "masquerade"},
   wants : {"pod", "bridge"}, addressed : Flag]

\* Away from the row, only where it is placed and whether it has an address matter.
PlainInstances == {[Quiet.vmi EXCEPT !.placed = p, !.addressed = a] : p \in Flag, a \in Flag}

\* Every address is its own question; the machine that answers may be another.
AnswerOf(status, own) ==
  CASE status = 200 -> IF own THEN "answered" ELSE "another"
    [] status = 404 -> "nobody"
    [] status = 503 -> "wait"
    [] status \in {401, 403} -> "refused"
    [] OTHER -> "unknown"

ValuesOf(p) ==
  CASE p = "vm"      -> {None} \cup [running : Flag \cup {None}, bridge : Flag]
    [] p = "vmi"     -> {None} \cup (IF card = "row" THEN Instances ELSE PlainInstances)
    [] p = "seen"    -> {None} \cup [lifecycle : Flag, freeze : Flag, serial : Flag, vnc : Flag]
    [] p = "snap"    -> {None} \cup [mine : Flag, phase : {None, "InProgress", "Succeeded", "Failed"},
                                     ready : Flag, old : Flag]
    [] p = "stormvm" -> {"none", "silent", "up"}
    [] p = "asked"   -> {"silent", "not started", "no such", "serial", "vnc", "both", "neither"}
    [] p = "answers" -> SUBSET {AnswerOf(s, own) : s \in {200, 404, 503, 401, 403, 500}, own \in Flag}
    [] OTHER         -> Flag

Init == card \in Cards /\ world = Quiet

Event(p) ==
  /\ p \in Varies(card)
  /\ \E v \in ValuesOf(p) : world' = [world EXCEPT ![p] = v]
  /\ UNCHANGED card

Next == \E p \in DOMAIN world : Event(p)

Spec == Init /\ [][Next]_vars

-----------------------------------------------------------------------------
(* The row. *)

Defined(w) == w.vm # None
Live(w)    == w.vmi # None

InstanceHealth(phase) ==
  CASE phase = "Running"    -> "Ok"
    [] phase = "Scheduling" -> "Warn"
    [] phase = "Succeeded"  -> "Idle"
    [] phase = "Failed"     -> "Error"
    [] OTHER                -> "Unknown"

Health(w) ==
  CASE Live(w)                                  -> InstanceHealth(w.vmi.phase)
    [] ~Live(w) /\ w.vm.running = TRUE          -> "Warn"
    [] OTHER                                    -> "Idle"

\* One identity, running or not; a bare instance has its own.
Id(w) == IF Defined(w) THEN "machine" ELSE "instance"

\* What the instance was asked for: its own annotations, and on the page the
\* definition's after them.
AskedBridge(w, page) == w.vmi.wants = "bridge" \/ (page /\ Defined(w) /\ w.vm.bridge)

\* Whether an address anybody else can use is on the interface.
Reach(w, page) ==
  CASE ~Live(w)                      -> "stopped"
    [] w.vmi.did = None              -> "pending"
    [] w.vmi.did = "user"            -> "nat"
    [] ~w.vmi.addressed              -> "none"
    [] w.vmi.did = "host-bridge"     -> "segment"
    [] w.vmi.did = "bridge" /\ AskedBridge(w, page) -> "segment"
    [] OTHER                         -> "pod"

\* Mutant: only the binding is looked at, as before the node said host-bridge.
OutsideByBinding(w) == IF w.vmi.did = "user" THEN "nat" ELSE None

\* No policy reaches a machine behind the hypervisor's NAT or on the node's bridge.
OutsidePolicy(w) ==
  CASE w.vmi.did = "user"                                 -> "nat"
    [] w.vmi.did = "host-bridge"                          -> "bridge"
    [] w.vmi.did = "bridge" /\ w.vmi.wants = "bridge"     -> "bridge"
    [] OTHER                                              -> None

Relations(w) ==
  {"namespace"}
  \cup (IF Live(w) /\ w.vmi.placed THEN {"node"} ELSE {})
  \cup (IF Live(w) /\ OutsidePolicy(w) = None THEN {"endpoint"} ELSE {})

\* Mutant: what a machine can do does not depend on its definition.
VerbsWhateverDefined(w) ==
  IF Live(w) THEN {"restart", "stop"} \cup (IF w.vmi.phase # "Running" THEN {"start"} ELSE {})
  ELSE {"start", "restart"} \cup (IF w.vm.running = TRUE THEN {"stop"} ELSE {})

\* The lifecycle verbs the row enables.
Verbs(w) ==
  IF Live(w)
  THEN {"stop"} \cup (IF Defined(w) THEN {"restart"} ELSE {})
                \cup (IF Defined(w) /\ w.vmi.phase # "Running" THEN {"start"} ELSE {})
  ELSE {"start", "restart"} \cup (IF w.vm.running = TRUE THEN {"stop"} ELSE {})

\* And the ones stormvm last said this machine can take.
Controls(w) ==
  IF ~Live(w) \/ w.seen = None THEN {}
  ELSE (IF w.seen.lifecycle THEN {"softreboot", "pause", "unpause", "reset"} ELSE {})
       \cup (IF w.seen.freeze THEN {"freeze", "thaw"} ELSE {})

ConsoleButton(w) ==
  CASE ~Live(w) \/ w.seen = None         -> None
    [] w.seen.vnc                        -> "screen"
    [] w.seen.serial                     -> "serial"
    [] OTHER                             -> None

Rows(w) == IF Defined(w) \/ Live(w) THEN 1 ELSE 0

Danger(w, verb) ==
  verb \in {"delete", "reset", "freeze"} \/ (verb = "stop" /\ ~(Live(w) /\ Defined(w)))

\* The row, and which of its verbs are asked about twice.
Row(w) ==
  IF Rows(w) = 0 THEN None
  ELSE [id |-> Id(w), health |-> Health(w), relations |-> Relations(w),
        verbs |-> Verbs(w), controls |-> Controls(w), console |-> ConsoleButton(w),
        danger |-> {v \in Verbs(w) \cup Controls(w) \cup {"delete"} : Danger(w, v)}]

-----------------------------------------------------------------------------
(* What a request is refused for, before anything is sent. *)

Exists(w) == Defined(w) \/ Live(w)

VerbRefused(w, verb) ==
  \/ w.hidden
  \/ ~Defined(w) /\ verb \in {"start", "restart"}
  \/ verb \notin {"start", "restart", "stop", "delete"}

ControlRefused(w, verb) ==
  \/ w.hidden
  \/ verb \notin {"pause", "unpause", "softreboot", "reset", "freeze", "thaw"}
  \/ w.stormvm = "none"

\* What happened to it: the events of both its objects, as if there were no such
\* machine for whoever may not see it.
EventsAbout(w) ==
  IF w.hidden THEN {}
  ELSE (IF Defined(w) THEN {"VirtualMachine"} ELSE {})
       \cup (IF Live(w) THEN {"VirtualMachineInstance"} ELSE {})

\* What the machine's page says of it, the definition and the instance together;
\* a policy is only said of a running machine it does not reach.
Page(w) ==
  IF w.hidden \/ ~Exists(w) THEN None
  ELSE [hasDefinition |-> Defined(w), running |-> Live(w), disksEditable |-> Defined(w) /\ w.write,
        outside |-> IF Live(w) THEN OutsidePolicy(w) ELSE None, events |-> EventsAbout(w)]

\* A definition is edited, never an instance (patch_machine).
EditRefused(w) == ~w.write \/ w.hidden \/ ~Defined(w)

-----------------------------------------------------------------------------
(* Snapshots. *)

SnapState(s) ==
  CASE s.phase = "Succeeded" /\ s.ready -> "ready"
    [] s.phase = "Succeeded"            -> "failed"
    [] s.phase = "Failed"               -> "failed"
    [] s.phase # None                   -> "progress"
    [] s.old                            -> "waiting"
    [] OTHER                            -> "scheduled"

\* None: no such page.
Backup(w) ==
  IF w.hidden \/ ~Exists(w) THEN None
  ELSE [available |-> w.crd,
        snapshots |-> IF w.crd /\ w.snap # None /\ w.snap.mine THEN {w.snap} ELSE {},
        states    |-> IF w.crd /\ w.snap # None /\ w.snap.mine THEN {SnapState(w.snap)} ELSE {},
        blocked   |-> ~Defined(w) \/ Live(w)]

\* The buttons of a snapshot's line, as VmBackup.svelte enables them.
RestoreOffered(w) ==
  LET held == Backup(w)
  IN  held # None /\ w.write /\ \E s \in held.snapshots : s.ready /\ ~held.blocked

TakeRefused(w) == w.hidden \/ ~Exists(w)

\* The first reason against a restore, readiness before running.
RestoreRefusal(w) ==
  CASE w.hidden                        -> "hidden"
    [] w.snap = None \/ ~w.snap.mine   -> "no such"
    [] ~Defined(w)                     -> "no definition"
    [] ~w.snap.ready                   -> "not ready"
    [] Live(w)                         -> "running"
    [] OTHER                           -> None

DeleteSnapRefused(w) == w.hidden \/ w.snap = None \/ ~w.snap.mine

-----------------------------------------------------------------------------
(* The two doors, and remote desktop. *)

Shut(reason) == [serial |-> FALSE, vnc |-> FALSE, write |-> FALSE, reason |-> reason]

\* Asked of stormvm for the one machine, once the probe says it answers.
Capabilities(w) ==
  CASE w.stormvm = "none"                  -> Shut("none")
    [] w.stormvm = "silent"                -> Shut("silent")
    [] w.asked = "no such"                 -> Shut("no such")
    [] w.asked \in {"silent", "not started"} -> Shut("silent")
    [] OTHER -> [serial |-> w.asked \in {"serial", "both"}, vnc |-> w.asked \in {"vnc", "both"},
                 write |-> w.write, reason |-> w.asked]

\* A door is opened whatever the page said: a token is asked for, and the socket
\* carries what it carries.
DoorRefused(w) == w.hidden \/ w.stormvm = "none"

\* What the relay lets through from the browser: a reader's keys are dropped, its
\* keepalives and its goodbye are not.
Relayed(w, msg) == msg \in {"ping", "pong"} \/ (msg \in {"text", "binary"} /\ w.write)

Door(w) ==
  IF DoorRefused(w) THEN None ELSE {m \in {"ping", "pong", "text", "binary"} : Relayed(w, m)}

RdpRefusal(w) == CASE ~w.write -> "role" [] ~w.signed -> "identity" [] OTHER -> None

RdpTarget(w) == w.asked \in {"vnc", "both"}

RdpStatus(w) ==
  IF w.hidden THEN None
  ELSE [available |-> RdpTarget(w) /\ RdpRefusal(w) = None,
        reason    |-> IF ~RdpTarget(w) THEN w.asked ELSE RdpRefusal(w)]

LoginRefused(w)   == w.hidden \/ RdpRefusal(w) # None
SessionRefused(w) == w.hidden \/ RdpRefusal(w) # None

-----------------------------------------------------------------------------
(* What the guest is told of itself. *)

Verdict(live, rows) ==
  CASE ~live                                            -> "stopped"
    [] live /\ rows = {}                                -> "noaddress"
    [] live /\ "another" \in rows                       -> "another"
    [] live /\ "another" \notin rows /\ "answered" \in rows -> "answered"
    [] live /\ rows \cap {"another", "answered"} = {} /\ "refused" \in rows -> "refused"
    [] OTHER -> IF "wait" \in rows THEN "wait" ELSE IF "nobody" \in rows THEN "nobody" ELSE "unknown"

IdentityRows(w) ==
  CASE ~w.vmi.addressed               -> {}
    [] ~w.kubelet \/ ~w.vmi.placed    -> {"unknown"}
    [] OTHER                          -> w.answers

Identity(w) ==
  CASE w.hidden \/ ~Exists(w) -> None
    [] ~Live(w)               -> Verdict(FALSE, {})
    [] OTHER                  -> Verdict(TRUE, IdentityRows(w))

-----------------------------------------------------------------------------
(* Properties. *)

\* Whatever a card enables, its handler takes: a machine, its instance, its snapshot
\* and its doors come and go one by one, and a button "that exists in order to be
\* refused is worse than no button".
OfferedIsTaken ==
  LET w == world IN
  CASE card = "row" ->
         Row(w) # None => /\ \A v \in Row(w).verbs \cup {"delete"} : ~VerbRefused(w, v)
                          /\ \A v \in Row(w).controls : ~ControlRefused(w, v)
    [] card = "backup" ->
         /\ RestoreOffered(w) => RestoreRefusal(w) = None
         /\ Page(w) # None => (Page(w).disksEditable => ~EditRefused(w))
         /\ Backup(w) # None => ~TakeRefused(w) /\ \A s \in Backup(w).snapshots : ~DeleteSnapRefused(w)
    [] card = "doors" ->
         /\ RdpStatus(w) # None /\ RdpStatus(w).available => ~LoginRefused(w) /\ ~SessionRefused(w)
         /\ ~w.hidden /\ (Capabilities(w).serial \/ Capabilities(w).vnc) =>
              /\ Door(w) # None
              /\ Capabilities(w).write => "text" \in Door(w)
    [] OTHER -> TRUE

\* "A machine must not read as inside policy when it is not": a row shows an endpoint,
\* whose policies are listed as its own, exactly where its address is not the
\* hypervisor's or the segment's.
FenceIsReal ==
  card = "row" /\ Live(world) /\ Reach(world, FALSE) \in {"nat", "segment", "pod"} =>
    ("endpoint" \in Row(world).relations <=> Reach(world, FALSE) = "pod")

\* The guest is said to be answered for only if every address that answered is its own.
AnsweredIsOwn ==
  card = "identity" /\ Identity(world) = "answered" => "another" \notin IdentityRows(world)

=============================================================================
