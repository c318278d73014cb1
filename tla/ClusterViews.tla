---------------------------- MODULE ClusterViews ----------------------------
(***************************************************************************)
(* What the console shows of the cluster's objects and what its routes     *)
(* answer about them (kubernetes/components.rs, network.rs, netview.rs,    *)
(* apply.rs, objevents.rs and the handlers of lib.rs): the rows and what   *)
(* they offer, a pod's network, the network card, the policy and endpoint  *)
(* tables, one object's page with its save, and an import.                 *)
(*                                                                         *)
(* The state is what the watch cache holds of one project and around it,   *)
(* and who looks; one event changes one part, and every answer is computed *)
(* anew from the whole.                                                    *)
(***************************************************************************)
EXTENDS Naturals, FiniteSets

CONSTANT None       \* not there, not said

VARIABLES
  card,             \* the page that is looked at
  world             \* what the cache holds, and the viewer

vars == <<card, world>>

Flag == BOOLEAN

\* What changes while a page is looked at; the rest is as in Quiet.
Varies(c) ==
  CASE c = "row"    -> {"obj", "others", "hidden", "admin", "grants"}
    [] c = "pod"    -> {"net", "ep", "pod", "cid", "policy", "hidden"}
    [] c = "cni"    -> {"net", "served", "eps", "nodes", "agent"}
    [] c = "ask"    -> {"kind", "there", "client", "write", "hidden", "grants", "now"}
    [] c = "import" -> {"docs", "system", "client", "admin", "hidden", "project"}

Cards == {"row", "pod", "cni", "ask", "import"}

Phases == {"Running", "Pending", "Succeeded", "Failed", "Unknown"}

Quiet ==
  [obj |-> [kind |-> "job", active |-> TRUE, succeeded |-> FALSE, failed |-> FALSE],
   others |-> {}, hidden |-> FALSE, admin |-> TRUE, grants |-> TRUE, net |-> "cilium",
   ep |-> None, pod |-> [labels |-> {"app"}], cid |-> None, policy |-> None,
   served |-> TRUE, eps |-> [ready |-> 1, others |-> {}], nodes |-> 1, agent |-> "Ok",
   kind |-> "pod", there |-> TRUE, client |-> TRUE, write |-> TRUE, now |-> "same",
   docs |-> <<"pod">>, system |-> FALSE, project |-> TRUE]

\* Rows that are listed, and can be neither well nor unwell.
Plain == {"cm", "quota", "limits", "nad", "sc", "crd", "crole"}

Objects ==
  [kind : {"pod"}, phase : Phases, ready : Flag, placed : Flag]
  \cup [kind : {"node"}, ready : Flag, cordoned : Flag]
  \cup [kind : {"deploy", "sts", "ds"}, want : 0..2, have : 0..2]
  \cup [kind : {"container"}, state : {None, "ready", "starting", "waiting", "crashing", "done", "died"}]
  \cup [kind : {"job"}, active : Flag, succeeded : Flag, failed : Flag]
  \cup [kind : {"cronjob"}, suspended : Flag]
  \cup [kind : {"pvc"}, phase : {None, "Pending", "Bound", "Lost"}, class : {None, "named"},
        volume : Flag]
  \cup [kind : {"cn"}, pool : 0..2, used : 0..2]
  \cup [kind : {"pv"}, phase : {"Bound", "Available", "Released", "Failed", "Other"}, claimed : Flag]
  \cup [kind : {"ns"}, phase : {None, "Active", "Terminating"}]
  \cup [kind : {"cnp", "ccnp", "fsnp", "fscnp", "netpol", "svc", "route"} \cup Plain]

\* A policy: of this project, of another or of the cluster, in one spec or in a list of them.
Policies ==
  [scope : {"project", "another", "cluster"}, many : Flag, selects : {{}, {"app"}}, expr : Flag]

\* What a document of an import is.
Docs == {"pod", "clusterrole", "homeless"}

ValuesOf(p) ==
  CASE p = "obj"    -> Objects
    [] p = "others" -> SUBSET {"sc", "waits", "default", "svc"}
    [] p = "net"    -> {"cilium", "flowsdn", "unknown"}
    [] p = "ep"     -> {None} \cup [of : {"cep", "fsep"}, id : Flag, state : {"ready", "", "bad"}]
    [] p = "pod"    -> {None} \cup [labels : {{"app"}, {"other"}}]
    [] p = "cid"    -> {None, {"app"}, {"other"}}
    [] p = "policy" -> {None} \cup Policies
    [] p = "eps"    -> [ready : 0..1, others : SUBSET {"Warn", "Error", "Unknown"}]
    [] p = "nodes"  -> 0..1
    [] p = "agent"  -> {None, "Ok", "Warn", "Error", "Idle", "Unknown"}
    [] p = "kind"   -> {"pod", "node", "ns", "nosuch"}
    [] p = "now"    -> {"same", "changed", "refused", "gone"}
    [] p = "docs"   -> {<<>>} \cup {<<a>> : a \in Docs} \cup {<<a, b>> : a \in Docs, b \in Docs}
    [] OTHER        -> Flag

Init == card \in Cards /\ world = Quiet

Event(p) ==
  /\ p \in Varies(card)
  /\ \E v \in ValuesOf(p) : world' = [world EXCEPT ![p] = v]
  /\ UNCHANGED card

Next == \E p \in DOMAIN world : Event(p)

Spec == Init /\ [][Next]_vars

-----------------------------------------------------------------------------
(* The rows. *)

\* Of the kinds that are watched; a pod's containers are rows of their own and none of them.
Namespaced(kind) == kind \notin {"node", "pv", "ns", "ccnp", "fscnp", "container", "cn", "sc", "crd", "crole"}

\* A container the kubelet has not reported is listed all the same.
ContainerHealth(state) ==
  CASE state = None       -> "Unknown"
    [] state = "ready"    -> "Ok"
    [] state \in {"starting", "waiting"} -> "Warn"
    [] state = "done"     -> "Idle"
    [] state \in {"crashing", "died"}    -> "Error"

PodHealth(phase, ready) ==
  CASE phase = "Running" -> IF ready THEN "Ok" ELSE "Warn"
    [] phase = "Succeeded" -> "Idle"
    [] phase = "Pending"   -> "Warn"
    [] phase = "Failed"    -> "Error"
    [] OTHER               -> "Unknown"

NodeHealth(ready, cordoned) == IF ~ready THEN "Error" ELSE IF cordoned THEN "Warn" ELSE "Ok"

WorkloadHealth(want, have) ==
  CASE want = 0                  -> "Idle"
    [] want > 0 /\ have >= want  -> "Ok"
    [] want > 0 /\ have = 0      -> "Error"
    [] OTHER                     -> "Warn"

JobHealth(o) ==
  CASE o.failed -> "Error"
    [] ~o.failed /\ o.active -> "Ok"
    [] OTHER -> IF o.succeeded THEN "Idle" ELSE "Unknown"

\* A claim that names no class has the cluster's default, where there is one.
HasClass(o, w) == o.class # None \/ "default" \in w.others

\* Nothing is provisioned for it until a pod or a machine mounts it.
Waits(o, w) ==
  o.phase \in {None, "Pending"} /\ HasClass(o, w) /\ {"sc", "waits"} \subseteq w.others

ClaimHealth(o, w) ==
  CASE o.phase = "Bound"                   -> "Ok"
    [] o.phase \in {None, "Pending"}       -> IF Waits(o, w) THEN "Idle" ELSE "Warn"
    [] o.phase = "Lost"                    -> "Error"

VolumeHealth(phase) ==
  CASE phase = "Bound" -> "Ok" [] phase = "Available" -> "Idle" [] phase = "Released" -> "Warn"
    [] phase = "Failed" -> "Error" [] OTHER -> "Unknown"

\* A node with no address left to give is a warning before its pods say anything.
Ipam(pool, used) == IF pool > 0 /\ used >= pool THEN "Warn" ELSE "Ok"

Health(o, w) ==
  CASE o.kind = "pod"                     -> PodHealth(o.phase, o.ready)
    [] o.kind = "node"                    -> NodeHealth(o.ready, o.cordoned)
    [] o.kind \in {"deploy", "sts", "ds"} -> WorkloadHealth(o.want, o.have)
    [] o.kind = "job"                     -> JobHealth(o)
    [] o.kind = "cn"                      -> Ipam(o.pool, o.used)
    [] o.kind = "container"               -> ContainerHealth(o.state)
    [] o.kind = "cronjob"                 -> IF o.suspended THEN "Idle" ELSE "Ok"
    [] o.kind = "pvc"                     -> ClaimHealth(o, w)
    [] o.kind = "pv"                      -> VolumeHealth(o.phase)
    [] o.kind = "ns"                      -> IF o.phase = "Terminating" THEN "Warn" ELSE "Ok"
    [] OTHER                              -> "Ok"

Link(to) == [to |-> to]

Relations(o, w) ==
  (IF Namespaced(o.kind) THEN {Link("ns")} ELSE {})
  \cup (IF o.kind = "pod" /\ o.placed THEN {Link("node")} ELSE {})
  \cup (IF o.kind = "container" THEN {Link("pod")} ELSE {})
  \cup (IF o.kind = "route" /\ "svc" \in w.others THEN {Link("svc")} ELSE {})
  \cup (IF o.kind = "pvc" /\ HasClass(o, w) /\ "sc" \in w.others THEN {Link("sc")} ELSE {})
  \cup (IF o.kind = "pvc" /\ o.volume THEN {Link("pv")} ELSE {})
  \cup (IF o.kind = "pv" /\ o.claimed THEN {Link("pvc")} ELSE {})

\* What a row can do, before anybody in particular looks at it.
Scalable == {"deploy", "sts"}

Actions(o, w) ==
  CASE o.kind = "pod"      -> {"logs", "delete pod"}
    [] o.kind = "node"     -> {IF o.cordoned THEN "uncordon" ELSE "cordon", "drain"}
    [] o.kind \in Scalable -> {"scale"}
    [] o.kind = "pvc" /\ Waits(o, w) -> {"attach"}
    [] o.kind \in {"cnp", "ccnp", "fsnp", "fscnp", "netpol"} -> {"delete raw"}
    [] OTHER -> {}

\* What an action asks of the apiserver, and so what it is withheld for.
Need(a) ==
  CASE a \in {"cordon", "uncordon", "drain"} -> "nodes"
    [] a = "logs"                            -> None
    [] OTHER                                 -> "project"

NodeRefused(w) == ~w.admin \/ ~w.grants

Offers(a, w) ==
  CASE Need(a) = None    -> TRUE
    [] Need(a) = "nodes" -> ~NodeRefused(w)
    [] OTHER             -> w.grants

\* Mutant: what is in a namespace is hidden, the namespace itself is not.
VisibleByKey(kind, w) == ~(w.hidden /\ Namespaced(kind))

\* visible_to: a namespace hides itself and what is in it, nothing else.
VisibleTo(kind, w) == ~(w.hidden /\ (kind = "ns" \/ Namespaced(kind)))

\* The row as its viewer gets it: relations to what is not there for them are left out.
Row(o, w) ==
  IF ~VisibleTo(o.kind, w) THEN None
  ELSE [health    |-> Health(o, w),
        relations |-> {r \in Relations(o, w) : VisibleTo(r.to, w)},
        actions   |-> {a \in Actions(o, w) : Offers(a, w)}]

\* What the console's own handler refuses a row's action for.
ActionRefused(a, o, w) ==
  CASE a \in {"cordon", "uncordon", "drain"} -> NodeRefused(w)
    [] a = "scale"                           -> w.hidden \/ o.kind \notin {"deploy", "sts"}
    [] OTHER                                 -> w.hidden /\ Namespaced(o.kind)

-----------------------------------------------------------------------------
(* Which network this is: the other's objects are not read out. *)

ReadOut(kind, w) ==
  CASE kind = "cep"  -> w.net # "flowsdn"
    [] kind = "fsep" -> w.net # "cilium"

EndpointSeen(w) == w.ep # None /\ ReadOut(w.ep.of, w)

\* A selector chooses by labels; one with expressions is not evaluated, an empty one
\* chooses every pod.
Selects(p, labels) == ~p.expr /\ (p.selects = {} \/ p.selects \subseteq labels)

\* The pod's row reads a policy's one spec against the labels of the pod's identity.
RowPolicies(w) ==
  IF EndpointSeen(w) /\ w.ep.id /\ w.policy # None /\ ~w.policy.many
     /\ w.policy.scope # "another"
     /\ Selects(w.policy, IF w.cid = None THEN {} ELSE w.cid)
  THEN 1 ELSE 0

DatapathTone(state) ==
  CASE state = "ready" -> "ok" [] state = "creating" -> "warn" [] state = "" -> None [] OTHER -> "error"

\* describe: what the network knows of a pod, on the pod.
PodNetwork(w) ==
  IF ~EndpointSeen(w) \/ w.pod = None \/ w.hidden THEN None
  ELSE [tone     |-> DatapathTone(w.ep.state),
        identity |-> w.ep.id /\ w.cid # None,
        policies |-> RowPolicies(w)]

\* The policies page reads every spec against the labels of the pods themselves.
PolicyRow(w) ==
  IF w.policy = None \/ (w.hidden /\ w.policy.scope = "project") THEN None
  ELSE LET hit == /\ w.pod # None
                  /\ w.policy.scope # "another"
                  /\ Selects(w.policy, w.pod.labels)
       IN  [appliesTo   |-> IF hit /\ ~w.hidden THEN {"pod"} ELSE {},
            withheld    |-> IF hit /\ w.hidden THEN 1 ELSE 0,
            unevaluated |-> w.policy.expr]

\* An endpoint without its pod is a machine's.
EndpointRow(w) ==
  IF ~EndpointSeen(w) \/ w.hidden THEN None
  ELSE [kind |-> IF w.pod # None THEN "Pod" ELSE "VM", ready |-> w.ep.state = "ready",
        from |-> w.ep.of]

-----------------------------------------------------------------------------
(* The network card: what the objects say, and what this node's agent says. *)

EndpointCount(w) == w.eps.ready + Cardinality(w.eps.others)

ObjectsSay(w) ==
  CASE EndpointCount(w) = 0 /\ w.nodes = 0       -> "Idle"
    [] EndpointCount(w) > 0 /\ w.eps.ready = 0   -> "Error"
    [] w.eps.ready > 0 /\ w.eps.others # {}      -> "Warn"
    [] OTHER                                     -> "Ok"

Severity(h) ==
  CASE h = "Error" -> 0 [] h = "Warn" -> 1 [] h = "Ok" -> 2 [] h = "Idle" -> 3 [] h = "Unknown" -> 4

\* Asked on a node of this network only.
AgentSays(w) == IF w.net = "cilium" THEN w.agent ELSE None

CniHealth(w) ==
  IF AgentSays(w) \in {None, "Ok", "Unknown"} THEN ObjectsSay(w)
  ELSE IF Severity(w.agent) < Severity(ObjectsSay(w)) THEN w.agent ELSE ObjectsSay(w)

CniServed(w) == w.served /\ w.net # "flowsdn"

CniCard(w) ==
  IF ~CniServed(w) /\ AgentSays(w) \notin {"Ok", "Warn"} THEN None
  ELSE CniHealth(IF CniServed(w) THEN w ELSE [w EXCEPT !.eps = [ready |-> 0, others |-> {}], !.nodes = 0])

-----------------------------------------------------------------------------
(* One object: its page, its save, its removal, its events. *)

Known(kind) == kind # "nosuch"

\* A hidden namespace is asked about by the key: its own, or the one before the slash.
KeyRefused(w) == w.hidden /\ (w.kind = "ns" \/ (Known(w.kind) /\ Namespaced(w.kind)))

MayEdit(w) == Known(w.kind) /\ w.write /\ w.grants

ObjectPage(w) ==
  IF KeyRefused(w) \/ ~w.there \/ ~Known(w.kind) THEN None
  ELSE [editable |-> MayEdit(w)]

\* A replace carries the version the editor was given; a document that names another
\* object is not saved.
Save(w, renamed) ==
  CASE KeyRefused(w)            -> "no project"
    [] ~KeyRefused(w) /\ ~w.client -> "no apiserver"
    [] ~KeyRefused(w) /\ w.client /\ ~Known(w.kind) -> "unknown kind"
    [] ~KeyRefused(w) /\ w.client /\ Known(w.kind) /\ renamed -> "another name"
    [] OTHER -> CASE w.now = "same" -> "saved" [] w.now = "changed" -> "conflict"
                  [] w.now = "refused" -> "refused" [] OTHER -> "gone"

DeleteRaw(w) ==
  CASE ~w.client                -> "no apiserver"
    [] w.client /\ w.hidden /\ Namespaced(w.kind) -> "no project"
    [] OTHER -> IF w.now = "refused" THEN "refused" ELSE "deleted"

\* A project's page: its own object, then what it holds.
ProjectPage(w) == IF w.hidden \/ ~w.there THEN None ELSE [editable |-> MayEdit([w EXCEPT !.kind = "ns"])]

ObjectEvents(w) ==
  CASE ~Known(w.kind)                          -> None
    [] Known(w.kind) /\ ~w.client              -> None
    [] w.hidden /\ Known(w.kind) /\ w.client /\ Namespaced(w.kind) -> {}
    [] OTHER                                   -> {"events"}

\* The dock and the events page drop the events of hidden namespaces.
Ticker(w) == IF w.hidden /\ Namespaced(w.kind) THEN {} ELSE {"events"}

-----------------------------------------------------------------------------
(* An import: every document has its line, and one that fails stops nothing. *)

\* A document of a project that names none goes to the one that was chosen.
Target(doc, w) ==
  CASE doc = "clusterrole" -> "cluster"
    [] doc = "pod"         -> "project"
    [] doc = "homeless"    -> IF w.project THEN "project" ELSE None

DocResult(doc, w) ==
  CASE Target(doc, w) = None -> "names no project"
    [] Target(doc, w) = "project" /\ w.system /\ ~w.admin -> "a system project"
    [] Target(doc, w) = "project" /\ w.hidden /\ (~w.system \/ w.admin) -> "no project"
    [] OTHER -> "created"

Import(w) ==
  IF ~w.client \/ w.docs = <<>> THEN [refused |-> TRUE, lines |-> <<>>, failed |-> TRUE]
  ELSE LET lines == [i \in DOMAIN w.docs |-> DocResult(w.docs[i], w)]
       IN  [refused |-> FALSE, lines |-> lines, failed |-> \E i \in DOMAIN lines : lines[i] # "created"]

-----------------------------------------------------------------------------
(* Properties. *)

\* What a row enables for a viewer the console does not itself refuse them; a page
\* that says it is editable saves, unless somebody changed the object or the
\* apiserver says no.
OfferedIsTaken ==
  LET w == world IN
  CASE card = "row" -> Row(w.obj, w) # None =>
                         \A a \in Row(w.obj, w).actions : ~ActionRefused(a, w.obj, w)
    [] card = "ask" -> ObjectPage(w) # None /\ ObjectPage(w).editable /\ w.client =>
                         Save(w, FALSE) \in {"saved", "conflict", "refused", "gone"}
    [] OTHER -> TRUE

\* Of the kinds that are watched nothing of a hidden project is pointed at: no row, no
\* relation of any row to one, no pod in a table, no page, no write and no event, whatever
\* else is there and whoever asks.  A container is no watched kind, so visible_to takes its id
\* for a cluster-scoped one and its row IS sent (lib.rs:593, against server.rs:318-319): the row
\* is not covered here, only that its relation to its pod is dropped.
HiddenUnreferenced ==
  LET w == world IN
  w.hidden =>
    CASE card = "row" -> Row(w.obj, w) # None =>
                           w.obj.kind # "ns" /\ ~Namespaced(w.obj.kind) /\ \A r \in Row(w.obj, w).relations :
                             r.to # "ns" /\ ~Namespaced(r.to)
      [] card = "pod" -> /\ PodNetwork(w) = None /\ EndpointRow(w) = None
                         /\ PolicyRow(w) # None => PolicyRow(w).appliesTo = {}
      [] card = "ask" -> /\ w.kind \in {"pod", "ns"} => ObjectPage(w) = None /\ Save(w, FALSE) = "no project"
                         /\ ProjectPage(w) = None
                         /\ w.kind = "pod" => DeleteRaw(w) \in {"no project", "no apiserver"}
                         /\ w.kind = "pod" => ObjectEvents(w) \in {None, {}} /\ Ticker(w) = {}
      [] card = "import" -> \A i \in DOMAIN Import(w).lines :
                              Import(w).lines[i] = "created" => w.docs[i] = "clusterrole"
      [] OTHER -> TRUE

\* The network's card is never better than anything this node's agent complains of; the pod's row
\* and the policies page, which read other objects, agree on what selects it; and an
\* import says it failed exactly if one of its documents did.
SaidIsSo ==
  LET w == world IN
  CASE card = "cni" -> CniCard(w) # None /\ w.net = "cilium" /\ w.agent \in {"Error", "Warn", "Idle"} =>
                       Severity(CniCard(w)) <= Severity(w.agent)
    [] card = "pod" -> /\ w.pod # None /\ w.cid = w.pod.labels /\ EndpointSeen(w) /\ w.ep.id
                       /\ w.policy # None /\ ~w.policy.many /\ ~w.hidden
                       => (RowPolicies(w) = 1 <=> PolicyRow(w).appliesTo = {"pod"})
    [] card = "import" -> Import(w).failed <=>
                            (~w.client \/ w.docs = <<>> \/
                             \E i \in DOMAIN Import(w).lines : Import(w).lines[i] # "created")
    [] OTHER -> TRUE

=============================================================================
