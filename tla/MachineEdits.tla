---------------------------- MODULE MachineEdits ----------------------------
(***************************************************************************)
(* Edits of one virtual machine's definition: its settings, its network,   *)
(* its disks and the keys it names (vm/settings.rs, disks.rs, network.rs   *)
(* and their handlers in vm/lib.rs), several requests at once.             *)
(*                                                                         *)
(* A handler reads the definition from the watch cache, makes a JSON merge *)
(* patch, and sends it with no version: what the patch does not name stays *)
(* as the apiserver has it, and an array is replaced whole by one made     *)
(* from what the cache held.  The running instance was made from the       *)
(* definition as it was when the machine started.                          *)
(***************************************************************************)
EXTENDS Naturals, Sequences, TLC

CONSTANTS
  Requests,      \* the console's requests that can be under way
  Fields,        \* the settings the form is used on
  Sizes,         \* the vCPUs and the memory a machine is made with
  Values,        \* what a field is given: quantities, buses, bridges, names
  Names,         \* the names disks are added under
  Secrets,       \* the key Secrets a machine can name
  Multus,        \* the named networks spec.networks may say
  Blank,         \* nothing: an absent field, an empty form value
  Bad,           \* a form value no field takes
  None,          \* no definition, no instance, no patch
  MaxWrites      \* bound: how many writes of the definition are made

RequestSymmetry == Permutations(Requests)

VARIABLES
  def,           \* the apiserver's VirtualMachine: None, or its parts
  inst,          \* the VirtualMachineInstance: None, or the parts it runs with
  seen,          \* Store "vm"
  writes,        \* how many writes there were
  op             \* the requests

vars == <<def, inst, seen, writes, op>>

-----------------------------------------------------------------------------
(* What a form reads from a definition or from an instance. *)

AllFields == {"cores", "memory", "memory_floor", "bus", "network", "hostname",
              "ssh_key", "display", "vga_memory", "secure_boot", "node"}

\* Two spellings: the guest's memory, or the request where that is all there is.
Memory(s) == IF s.guest # Blank THEN s.guest ELSE s.request

\* The annotation of the first interface, the plain one, then its network; where no
\* interface is named, any network at all reads as the pod's.
Network(s) ==
  CASE s.iface /\ s.ifbridge # Blank -> s.ifbridge
    [] s.bridge # Blank              -> s.bridge
    [] s.iface                       -> s.net
    [] OTHER                         -> IF s.net = Blank THEN Blank ELSE "pod"

Read(f, s) ==
  CASE f = "cores"        -> s.cores
    [] f = "memory"       -> Memory(s)
    [] f = "memory_floor" -> IF s.request = Memory(s) THEN Blank ELSE s.request
    [] f = "bus"          -> IF s.disks = <<>> THEN Blank ELSE s.disks[1].bus
    [] f = "network"      -> Network(s)
    [] f = "hostname"     -> s.hostname
    [] f = "display"      -> IF ~s.screen THEN Blank ELSE IF s.vga = Blank THEN "virtio" ELSE s.vga
    [] f = "vga_memory"   -> s.vgamem
    [] f = "secure_boot"  -> s.secure
    [] f = "node"         -> s.node
    [] OTHER              -> Blank

\* The definition is what is shown; the instance, where there is no definition.
Shown(f, d, i) == Read(f, IF d # None THEN d ELSE i)

\* A number that was never said compares as null, which is never pending.
Pending(d, i) ==
  IF i = None THEN {}
  ELSE {f \in AllFields \ {"ssh_key"} :
          /\ Read(f, i) # Shown(f, d, i)
          /\ ~(f \in {"cores", "memory"} /\ Read(f, i) = Blank)}

Applies(f, i) ==
  CASE i = None                    -> "when it starts"
    [] f \in {"hostname", "ssh_key"} -> "next boot"
    [] OTHER                       -> "on restart"

\* Editable where there is something durable to write to, and the viewer may.
Settings(d, i, may) ==
  [editable |-> d # None /\ may,
   pending  |-> Pending(d, i),
   fields   |-> [f \in AllFields |-> [value |-> Shown(f, d, i), applies |-> Applies(f, i)]]]

\* The row says so too: a machine that is well is only a warning then.
RowHealth(health, settings) ==
  IF settings.pending # {} /\ health = "Ok" THEN "Warn" ELSE health

-----------------------------------------------------------------------------
(* What an edit sends. *)

NeedsValue == {"cores", "memory", "bus"}
TakesAny   == {"hostname", "secure_boot", "node", "network"}

Accepted(f, v) ==
  /\ f # "ssh_key"
  /\ v = Bad   => f \in TakesAny
  /\ v = Blank => f \notin NeedsValue

\* The parts one field's patch names, and what it gives them.  A blank network or the
\* pod's removes the annotation; an interface the cache shows loses its own.
SetParts(s, f, v) ==
  CASE f = "cores"        -> [cores |-> v]
    [] f = "memory"       -> [guest |-> v]
    [] f = "memory_floor" -> [request |-> v]
    [] f = "bus"          -> [disks |-> <<[name |-> None, bus |-> v]>>]
    [] f = "hostname"     -> [hostname |-> v]
    [] f = "display"      -> [vga |-> v, screen |-> v # Blank]
    [] f = "vga_memory"   -> [vgamem |-> v]
    [] f = "secure_boot"  -> [secure |-> v \in Values]
    [] f = "node"         -> [node |-> v]
    [] OTHER ->
         LET bridge == IF v = "pod" THEN Blank ELSE v
         IN  IF s.iface THEN [bridge |-> bridge, ifbridge |-> Blank] ELSE [bridge |-> bridge]

NameOf(x)      == x.name
Named(list)    == {NameOf(list[i]) : i \in DOMAIN list}

\* What else the list holds, in its order.
Without(list, n) ==
  LET kept == {i \in DOMAIN list : NameOf(list[i]) # n}
      at   == CHOOSE f \in UNION {[1..k -> kept] : k \in 0..Len(list)} :
                /\ kept = {f[i] : i \in DOMAIN f}
                /\ \A i, j \in DOMAIN f : i < j => f[i] < f[j]
  IN  [i \in DOMAIN at |-> list[at[i]]]

AddRefused(s, n) == n = Bad \/ n \in Named(s.disks) \cup Named(s.volumes)
AddParts(s, n)   == [disks   |-> Append(s.disks, [name |-> n, bus |-> "virtio"]),
                     volumes |-> Append(s.volumes, [name |-> n])]

RemoveRefused(s, n) == n \notin Named(s.disks) \/ n \in {"root", "seed"}

\* Mutant: only the disk is taken out.
RemoveDiskOnly(s, n) == [disks |-> Without(s.disks, n), volumes |-> s.volumes]

RemoveParts(s, n) == [disks |-> Without(s.disks, n), volumes |-> Without(s.volumes, n)]

\* Every disk the machine will have or does have, by name.
Merged(d, i) ==
  LET want == IF d = None THEN {} ELSE Named(d.disks)
      have == IF i = None THEN {} ELSE Named(i.disks)
  IN  {[name      |-> n,
        attached  |-> i = None \/ n \in have,
        written   |-> d = None \/ n \in want,
        removable |-> n \notin {"root", "seed"}] : n \in want \cup have}

\* None: refused before anything is sent.
Body(s, e) ==
  CASE e.kind = "set"    -> IF Accepted(e.field, e.value) THEN SetParts(s, e.field, e.value) ELSE None
    [] e.kind = "add"    -> IF AddRefused(s, e.value) THEN None ELSE AddParts(s, e.value)
    [] e.kind = "remove" -> IF RemoveRefused(s, e.value) THEN None ELSE RemoveParts(s, e.value)
    [] e.kind = "keys"   -> IF e.value \in s.creds THEN None ELSE [creds |-> s.creds \cup {e.value}]

\* A merge patch: the parts it names are replaced, the others stay.
Merge(s, body) == [p \in DOMAIN s |-> IF p \in DOMAIN body THEN body[p] ELSE s[p]]

Edits ==
  [kind : {"set"}, field : Fields, value : Values \cup {Blank, Bad, "pod"}]
  \cup [kind : {"add", "remove"}, field : {"disks"}, value : Names \cup {"root", Bad}]
  \cup [kind : {"keys"}, field : {"creds"}, value : Secrets]

\* An edit its form can send: only the network's says "pod".
Sensible(e) == e.value = "pod" => e.field = "network"

-----------------------------------------------------------------------------
Idle == [pc |-> "idle"]

\* A machine as the create form makes one: a root disk and a seed, one interface.
Created ==
  [cores : Sizes, guest : Sizes, request : {Blank}, hostname : {Blank},
   screen : {FALSE}, vga : {Blank}, vgamem : {Blank}, secure : {FALSE}, node : {Blank},
   iface : {TRUE}, bridge : {Blank}, ifbridge : {Blank}, net : {"pod"} \cup Multus,
   disks : {<<[name |-> "root", bus |-> "virtio"], [name |-> "seed", bus |-> "virtio"]>>},
   volumes : {<<[name |-> "root"], [name |-> "seed"]>>}, creds : {{}}]

Init ==
  /\ def \in Created
  /\ inst \in {None, def}
  /\ seen = def
  /\ writes = 0
  /\ op = [o \in Requests |-> Idle]

\* Whoever writes the definition, what others were told no longer describes it.
Disturbed(ops) ==
  [o \in Requests |-> IF ops[o].pc = "told" THEN [ops[o] EXCEPT !.alone = FALSE] ELSE ops[o]]

-----------------------------------------------------------------------------
(* KubeVirt, kubectl and the watch. *)

Start ==
  /\ def # None /\ inst = None
  /\ inst' = def
  /\ UNCHANGED <<def, seen, writes, op>>

Stop ==
  /\ inst # None
  /\ inst' = None
  /\ UNCHANGED <<def, seen, writes, op>>

\* kubectl: an interface of its own, a bridge for it, a disk, or the whole definition.
OutsideParts(s) ==
  {[iface |-> ~s.iface]} \cup {[iface |-> TRUE, ifbridge |-> v] : v \in Values}
  \cup {AddParts(s, n) : n \in Names \ Named(s.volumes)}

OutsideEdit ==
  /\ def # None /\ writes < MaxWrites
  /\ \/ \E body \in OutsideParts(def) : def' = Merge(def, body)
     \/ def' = None
  /\ writes' = writes + 1
  /\ op' = Disturbed(op)
  /\ UNCHANGED <<inst, seen>>

WatchDefinition ==
  /\ seen # def
  /\ seen' = def
  /\ UNCHANGED <<def, inst, writes, op>>

-----------------------------------------------------------------------------
(* A request. *)

At(o, pc) == op[o].pc = pc
Fail(o)   == [op EXCEPT ![o] = Idle]

\* What the cache holds, and the patch made of it.  The instance is looked at
\* only to word the answer.
Ask(o, e) ==
  /\ At(o, "idle")
  /\ seen # None
  /\ LET body == Body(seen, e)
     IN  /\ body # None
         /\ op' = [op EXCEPT ![o] = [pc |-> "patch", edit |-> e, body |-> body]]
  /\ UNCHANGED <<def, inst, seen, writes>>

\* Mutant: the network's answer is not read back.
TakenUnread(e, d) == TRUE

\* The network is read back from what the apiserver returned, and said to be written
\* only if it reads as asked.
Taken(e, d) ==
  e.field = "network" => Network(d) = IF e.value = Blank THEN "pod" ELSE e.value

\* Written, and seen at once by the page's next read.
Patched(o) ==
  /\ At(o, "patch")
  /\ def # None /\ writes < MaxWrites
  /\ def' = Merge(def, op[o].body)
  /\ seen' = def'
  /\ writes' = writes + 1
  /\ op' = IF Taken(op[o].edit, def')
           THEN [Disturbed(op) EXCEPT ![o] =
                   [pc |-> "told", edit |-> op[o].edit, alone |-> TRUE]]
           ELSE [Disturbed(op) EXCEPT ![o] = Idle]
  /\ UNCHANGED <<inst>>

\* Refused or unreachable; or written, and the answer lost.
PatchFailed(o) ==
  /\ At(o, "patch")
  /\ \/ UNCHANGED <<def, writes>> /\ op' = Fail(o)
     \/ /\ def # None /\ writes < MaxWrites
        /\ def' = Merge(def, op[o].body)
        /\ writes' = writes + 1
        /\ op' = [Disturbed(op) EXCEPT ![o] = Idle]
  /\ UNCHANGED <<inst, seen>>

Leave(o) ==
  /\ At(o, "told")
  /\ op' = Fail(o)
  /\ UNCHANGED <<def, inst, seen, writes>>

-----------------------------------------------------------------------------
KubeVirt == Start \/ Stop

Handler(o) == Patched(o) \/ PatchFailed(o)
Page(o)    == Leave(o) \/ \E e \in Edits : Sensible(e) /\ Ask(o, e)

Next == KubeVirt \/ OutsideEdit \/ WatchDefinition \/ \E o \in Requests : Handler(o) \/ Page(o)

Spec == Init /\ [][Next]_vars

-----------------------------------------------------------------------------
(* Properties. *)

Distinct(list) == \A i, j \in DOMAIN list : NameOf(list[i]) = NameOf(list[j]) => i = j

\* "A disk is two things that have to agree": whatever requests overlap, on whatever
\* stale copy each made its arrays, every disk of the definition has its volume and
\* every volume its disk, no name is used twice, and the machine has its root.
DisksPaired ==
  def # None => /\ Named(def.disks) = Named(def.volumes)
                /\ Distinct(def.disks) /\ Distinct(def.volumes)
                /\ "root" \in Named(def.disks)

Asked(e) ==
  CASE e.field = "secure_boot"                        -> e.value \in Values
    [] e.field = "network" /\ e.value = Blank         -> "pod"
    [] OTHER                                          -> e.value

\* A setting said to be written is what the form shows of the definition until
\* somebody writes it again, and where the instance runs something else it is pending:
\* an edit never "looked as if nothing had happened".  A floor the size of the machine
\* is none.
EditShows ==
  \A o \in Requests :
    At(o, "told") /\ op[o].alone /\ op[o].edit.kind = "set" /\ def # None =>
      LET f == op[o].edit.field
          v == Asked(op[o].edit)
      IN  \/ f = "memory_floor" /\ v = Memory(def)
          \/ /\ Shown(f, def, inst) = v
             /\ inst # None /\ Read(f, inst) # v => f \in Settings(def, inst, TRUE).pending

=============================================================================
