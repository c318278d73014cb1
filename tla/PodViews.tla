------------------------------- MODULE PodViews -------------------------------
(***************************************************************************)
(* One pod, all of it (kubernetes/pod.rs, podpage.rs, env.rs, exec.rs and  *)
(* flows.rs): which of its routes answer whom, its containers and where    *)
(* their images are from, its probes as they were last seen, the Services  *)
(* in front of it, its volumes and owners, its environment as it comes to, *)
(* and the flows of its project.                                           *)
(*                                                                         *)
(* The state is what the cache, the apiserver and the node say; an event   *)
(* changes one part of it, and every answer is computed from the whole.    *)
(***************************************************************************)
EXTENDS Naturals, Sequences, FiniteSets

CONSTANT None       \* not there, not said

VARIABLES
  card,
  world

vars == <<card, world>>

Flag == BOOLEAN

Varies(c) ==
  CASE c = "door"  -> {"there", "hidden", "write", "identity", "client", "answer", "container", "run",
                       "host", "node", "metrics"}
    [] c = "image" -> {"image", "status", "policy", "cloned", "built", "central", "restarts"}
    [] c = "probe" -> {"state", "ready", "started", "failure"}
    [] c = "front" -> {"labels", "selector", "eps"}
    [] c = "under" -> {"claim", "asked"}
    [] c = "over"  -> {"owner", "dns", "resources"}
    [] c = "env"   -> {"from", "first", "second", "maps", "secrets", "identity"}
    [] c = "flow"  -> {"source", "target", "sees", "scope", "pod", "relay"}

Cards == {"door", "image", "probe", "front", "under", "over", "env", "flow"}

\* The parts a card does not vary are as here.
Quiet ==
  [there |-> TRUE, hidden |-> FALSE, write |-> TRUE, identity |-> TRUE, client |-> TRUE, answer |-> "ok",
   container |-> TRUE, run |-> FALSE, host |-> FALSE, node |-> TRUE, metrics |-> "bytes",
   image |-> "tagged", status |-> None, policy |-> None, cloned |-> None, built |-> {"new"}, central |-> "ok",
   restarts |-> 0, resources |-> [request |-> {}, limit |-> {}],
   state |-> None, ready |-> FALSE, started |-> None, failure |-> None,
   labels |-> {"app"}, selector |-> None, eps |-> {}, asked |-> None, claim |-> None, owner |-> <<>>,
   dns |-> [policy |-> "ClusterFirst", host |-> FALSE],
   from |-> <<>>, first |-> None, second |-> None, maps |-> "read", secrets |-> "read",
   source |-> "mine", target |-> "theirs", sees |-> {"mine"}, scope |-> None, pod |-> None, relay |-> "cilium"]

\* Where one of the pod's addresses may be in a Service's Endpoints.
Places == {"this ready", "this not ready", "another ready"}

\* An owner, and whether the console can look it up: watched, asked for, or neither.
Owners == {"ReplicaSet", "Deployment", "Job", "CronJob", "Machine"}

\* An entry of a container's environment: a name, and what it is made of.
Entries == [name : {"A", "B"}, how : {"text", "$(A)", "$$(A)", "secret", "map", "no key", "field"}]

\* An end of a flow: in the viewer's project, in one they may not see or the console has
\* not heard of, in none; one that is the pod asked for, or begins with its name.
Ends == {None, "mine", "mine, web", "mine, web-2", "theirs", "host"}

ValuesOf(p) ==
  CASE p = "answer"    -> {"ok", "refused", "silent"}
    [] p = "metrics"   -> {"bytes", "all", "none", "refused", "silent"}
    [] p = "image"     -> {"tagged", "latest", "bare", "digest", "golden"}
    [] p = "status"    -> {None, "with digest", "without"}
    [] p = "policy"    -> {None, "Never"}
    [] p = "cloned"    -> {None, "old", "new", "elsewhere"}
    [] p = "built"     -> SUBSET {"old", "new"}
    [] p = "central"   -> {None, "ok", "silent"}
    [] p = "restarts"  -> 0..1
    [] p = "resources" -> [request : SUBSET {"cpu", "memory"}, limit : SUBSET {"cpu", "memory", "disk"}]
    [] p = "state"     -> {None, "waiting", "running", "terminated"}
    [] p = "started"   -> {None, TRUE, FALSE}
    [] p = "failure"   -> {None} \cup [probe : {"startup", "liveness", "readiness"}, in : {"this run", "an earlier run"}]
    [] p = "labels"    -> {{}, {"app"}, {"app", "tier"}}
    [] p = "selector"  -> {None, {}, {"app"}, {"app", "tier"}}
    [] p = "eps"       -> {None} \cup SUBSET Places
    [] p = "asked"     -> {None} \cup [project : {"own", "another"}, exists : Flag, got : Flag]
    [] p = "claim"     -> {None} \cup [found : Flag, volume : Flag, mounts : SUBSET {"init", "app", "debug"}]
    [] p = "owner"     -> {<<>>, <<"ReplicaSet">>, <<"ReplicaSet", "Deployment">>, <<"Job", "CronJob">>,
                           <<"Machine", "Deployment">>}
    [] p = "dns"       -> [policy : {"ClusterFirst", "Default"}, host : Flag]
    [] p = "from"      -> {<<>>, <<"secret">>, <<"map">>, <<"secret", "map">>, <<"map", "secret">>}
    [] p \in {"first", "second"} -> {None} \cup Entries
    [] p \in {"maps", "secrets"} -> {"read", "refused"}
    [] p \in {"source", "target"} -> Ends
    [] p = "sees"      -> {None, {}, {"mine"}}
    [] p = "scope"     -> {None, "mine", "theirs"}
    [] p = "pod"       -> {None, "web"}
    [] p = "relay"     -> {None, "cilium", "silent"}
    [] OTHER           -> Flag

Init == card \in Cards /\ world = Quiet

Event(p) ==
  /\ p \in Varies(card)
  /\ \E v \in ValuesOf(p) : world' = [world EXCEPT ![p] = v]
  /\ UNCHANGED card

Next == \E p \in DOMAIN world : Event(p)

Spec == Init /\ [][Next]_vars

-----------------------------------------------------------------------------
(* The routes of a pod, each through the same door. *)

\* the_pod: a hidden project is answered before the cache is looked in.
ThePod(w) ==
  CASE w.hidden -> "no project"
    [] ~w.hidden /\ ~w.there -> "no pod"
    [] OTHER -> "pod"

Through(w, answer) == [door |-> ThePod(w), answer |-> IF ThePod(w) = "pod" THEN answer ELSE None]

\* A shell goes as the person; without one the console's word would be used.
ShellRefusal(w) ==
  CASE ~w.write -> "role"
    [] w.write /\ ~w.identity -> "identity"
    [] OTHER -> None

Exec(w) ==
  Through(w, CASE ShellRefusal(w) # None -> ShellRefusal(w)
               [] ShellRefusal(w) = None /\ ~w.container -> "no container"
               [] OTHER -> "upgraded")

\* Once upgraded, a refusal is told in the terminal's own words, and only its typing
\* and its size go on to the other end.
SaidInside(w) == IF ~w.client \/ w.answer # "ok" THEN {"failure"} ELSE {"output"}

FromBrowser(frame) == frame \in {"stdin", "resize"}

Session(w) ==
  IF Exec(w).answer # "upgraded" THEN None
  ELSE [says |-> SaidInside(w), takes |-> {f \in {"stdin", "resize", "ping"} : FromBrowser(f)}]

Events(w) == IF w.client /\ w.answer = "ok" THEN [available |-> TRUE] ELSE [available |-> FALSE]

EventsRoute(w) == Through(w, Events(w))

LogRoute(w) ==
  Through(w, CASE ~w.client -> "no apiserver"
               [] w.client /\ w.answer = "silent"  -> "did not answer"
               [] w.client /\ w.answer = "refused" -> "refused"    \* in the apiserver's words
               [] OTHER -> "log")

RunRoute(w) == Through(w, IF w.run THEN "run" ELSE "not kept")

\* The node's own counters: whether there are any of this pod's, and which.
Traffic(w) ==
  CASE w.host                         -> [available |-> FALSE, reason |-> "the node's"]
    [] ~w.host /\ ~w.node             -> [available |-> FALSE, reason |-> "no node"]
    [] ~w.host /\ w.node /\ w.metrics \in {"refused", "silent"} -> [available |-> FALSE, reason |-> w.metrics]
    [] ~w.host /\ w.node /\ w.metrics = "none" -> [available |-> FALSE, reason |-> "no interface"]
    [] OTHER -> [available |-> TRUE, missing |-> IF w.metrics = "all" THEN {} ELSE {"packets"}]

TrafficRoute(w) == Through(w, Traffic(w))

\* A Secret is asked for as the person, who may be refused it, or not at all.
SecretsRead(w) == IF w.identity THEN w.secrets ELSE "not asked"

EnvRoute(w) == Through(w, IF w.container THEN "vars" ELSE "no container")

-----------------------------------------------------------------------------
(* A container's image: what was asked for, what runs, where it is from. *)

Reported(w) == w.status # None

Digest(w) == w.status = "with digest" \/ w.image = "digest"

\* A pull policy that is not said is the apiserver's default for the reference.
PullPolicy(w) ==
  CASE w.policy # None -> [policy |-> w.policy, defaulted |-> FALSE]
    [] w.policy = None /\ w.image \in {"latest", "bare", "golden"} -> [policy |-> "Always", defaulted |-> TRUE]
    [] OTHER -> [policy |-> "IfNotPresent", defaulted |-> TRUE]

\* The golden it was cloned from, by the node's word; without that the newest that was
\* built for it, and it is not said to be the one.
Golden(w) ==
  CASE w.central \in {None, "silent"} -> None
    [] w.central = "ok" /\ w.cloned # None ->
         IF w.cloned \in w.built THEN [name |-> w.cloned, confirmed |-> TRUE] ELSE None
    [] OTHER -> IF w.built = {} THEN None
                ELSE [name |-> IF "new" \in w.built THEN "new" ELSE "old", confirmed |-> FALSE]

\* What the page cannot show, each said.
Gaps(w) ==
  (IF Reported(w) /\ ~Digest(w) THEN {"digest"} ELSE {})
  \cup {"build info", "last checked"}
  \cup (IF Reported(w) /\ w.restarts > 0 THEN {"last termination"} ELSE {})

Container(w) ==
  [digest |-> Digest(w), policy |-> PullPolicy(w), golden |-> IF w.image = "golden" THEN Golden(w) ELSE None,
   restarts |-> IF Reported(w) THEN w.restarts ELSE 0, gaps |-> Gaps(w)]

-----------------------------------------------------------------------------
(* Its probes: a failure is an event, a pass is only a flag. *)

\* A container that has no start has its last failure for its present run's.
FailingNow(w, probe) ==
  /\ w.failure # None /\ w.failure.probe = probe
  /\ w.failure.in = "this run" \/ w.state \in {None, "waiting"}

Probe(w, probe) ==
  CASE probe = "readiness" -> IF w.ready THEN "passing" ELSE IF FailingNow(w, probe) THEN "failing" ELSE "not passing"
    [] probe = "startup"   -> IF w.started = TRUE THEN "passed" ELSE IF FailingNow(w, probe) THEN "failing" ELSE "not yet"
    [] probe = "liveness"  -> IF w.state # "running" THEN "not running"
                              ELSE IF FailingNow(w, probe) THEN "failing" ELSE "passing"

-----------------------------------------------------------------------------
(* What is in front of it, under it and over it. *)

\* A Service without a selector chooses nothing: its Endpoints are written by hand.
ServiceSelects(w) == w.selector \notin {None, {}} /\ w.selector \subseteq w.labels

\* Selected, and taking traffic, are two different facts.
EndpointsSummary(w) ==
  IF w.eps = None THEN None
  ELSE [ready    |-> Cardinality(w.eps \cap {"this ready", "another ready"}),
        notReady |-> Cardinality(w.eps \cap {"this not ready"}),
        thisPod  |-> CASE "this ready" \in w.eps -> "ready"
                       [] "this ready" \notin w.eps /\ "this not ready" \in w.eps -> "notReady"
                       [] OTHER -> "absent"]

Services(w) == IF ServiceSelects(w) THEN {EndpointsSummary(w)} ELSE {}

\* A network it asked for, and what came of it.
Attachment(w) ==
  IF w.asked = None THEN None
  ELSE [inProject |-> w.asked.project = "own", exists |-> w.asked.exists, attached |-> w.asked.got]

\* A claim, its volume, and who mounts it; a debug container's mounts are its own.
Volume(w) ==
  IF w.claim = None THEN None
  ELSE [found |-> w.claim.found, volume |-> w.claim.found /\ w.claim.volume, mounts |-> w.claim.mounts \ {"debug"}]

\* Whose owner's owner is known: a watched kind's from the cache, a ReplicaSet's from
\* the apiserver.
FollowedUp(kind) == kind # "Machine"

OwnerChain(w) ==
  LET stop == {i \in DOMAIN w.owner : ~FollowedUp(w.owner[i])}
  IN  IF stop = {} THEN w.owner ELSE SubSeq(w.owner, 1, CHOOSE i \in stop : \A j \in stop : i <= j)

\* Its quality of service, where the node does not say it.
Qos(w) ==
  LET full(r) == r \in w.resources.limit    \* a request left out is the limit
  IN  CASE /\ \A r \in {"cpu", "memory"} : full(r)      -> "Guaranteed"
        [] /\ \E r \in {"cpu", "memory"} : ~full(r)
           /\ w.resources.request \cup w.resources.limit # {} -> "Burstable"
        [] OTHER -> "BestEffort"

EffectiveDns(w) == IF w.dns.host /\ w.dns.policy = "ClusterFirst" THEN "Default" ELSE w.dns.policy

Page(w) ==
  Through(w, [terminal |-> ShellRefusal(w), attachment |-> Attachment(w), volume |-> Volume(w),
              owners |-> OwnerChain(w), qos |-> Qos(w), dns |-> EffectiveDns(w)])

-----------------------------------------------------------------------------
(* Its environment: envFrom in turn, then env, a later name over an earlier. *)

\* A value: what it is made of.  The name A is a key of the map and of the Secret.
Var(value, hidden) == [value |-> value, hidden |-> hidden]

NotShown == Var(None, TRUE)

Empty == [n \in {"A", "B"} |-> None]

FromAll(vars0, source, w) ==
  CASE source = "map"    -> IF w.maps = "read" THEN [vars0 EXCEPT !["A"] = Var({"map"}, FALSE)] ELSE vars0
    [] source = "secret" -> IF SecretsRead(w) = "read" THEN [vars0 EXCEPT !["A"] = NotShown] ELSE vars0

\* $(A) of the variables before; left as it is where there is none that is shown.
Expand(known) ==
  IF known["A"] = None \/ known["A"].hidden \/ known["A"].value = None THEN {"$(A)"} ELSE known["A"].value

Made(e, known, w) ==
  CASE e.how = "text"   -> Var({"text"}, FALSE)
    [] e.how = "$$(A)"  -> Var({"$(A)"}, FALSE)
    [] e.how = "$(A)"   -> Var(Expand(known), FALSE)
    [] e.how = "secret" -> NotShown
    [] e.how = "field"  -> Var({"field"}, FALSE)
    [] e.how = "map"    -> Var(IF w.maps = "read" THEN {"map"} ELSE None, FALSE)
    [] e.how = "no key" -> Var(None, FALSE)

SetVar(known, e, w) == IF e = None THEN known ELSE [known EXCEPT ![e.name] = Made(e, known, w)]

\* resolve
Environment(w) ==
  LET one  == IF Len(w.from) > 0 THEN FromAll(Empty, w.from[1], w) ELSE Empty
      all  == IF Len(w.from) > 1 THEN FromAll(one, w.from[2], w) ELSE one
  IN  SetVar(SetVar(all, w.first, w), w.second, w)

-----------------------------------------------------------------------------
(* Flows: each end for itself, by what the viewer may see and not by what is *)
(* known to be hidden.                                                       *)

ProjectOf(end) ==
  CASE end \in {"mine", "mine, web", "mine, web-2"} -> "mine"
    [] end = "theirs" -> "theirs"
    [] OTHER -> ""

Mine(end, seen) == end # None /\ ProjectOf(end) \in seen

Side(end, seen) ==
  IF seen # None /\ ProjectOf(end) # "" /\ ProjectOf(end) \notin seen THEN [hidden |-> TRUE] ELSE [end |-> end]

\* A name is a prefix at the relay, so the exact one is held to here.
ThisPod(w) == "mine, web" \in {w.source, w.target}

FlowRow(w) ==
  IF w.sees # None /\ ~Mine(w.source, w.sees) /\ ~Mine(w.target, w.sees) THEN None
  ELSE [source |-> Side(w.source, w.sees), target |-> Side(w.target, w.sees)]

\* What the relay is asked: the project, the pod in it, or whatever may be seen.
FlowScope(w) ==
  CASE w.scope # None /\ w.sees # None /\ w.scope \notin w.sees -> "refused"
    [] w.scope = None /\ w.sees = {} -> "nothing"
    [] OTHER -> "query"

Flows(w) ==
  CASE w.relay = None -> [available |-> FALSE, items |-> {}]
    [] w.relay # None /\ FlowScope(w) = "refused" -> [available |-> FALSE, items |-> {}]
    [] w.relay # None /\ FlowScope(w) = "nothing" -> [available |-> TRUE, items |-> {}]
    [] w.relay = "silent" /\ FlowScope(w) = "query" -> [available |-> FALSE, items |-> {}]
    [] OTHER -> [available |-> TRUE,
                 items |-> IF w.scope # None /\ w.pod # None /\ ~ThisPod(w) THEN {} ELSE {FlowRow(w)} \ {None}]

-----------------------------------------------------------------------------
(* Properties. *)

\* A terminal the page offers is opened for any container the pod has.
OfferedIsTaken ==
  card = "door" /\ Page(world).door = "pod" /\ Page(world).answer.terminal = None /\ world.container
    => Session(world) # None

\* Nothing of a hidden project is answered by any of a pod's routes, and of a flow's
\* hidden end only that it is one: though the other end be the viewer's.
HiddenUnreferenced ==
  LET w == world IN
  CASE card = "door" -> w.hidden => {Page(w), EventsRoute(w), LogRoute(w), RunRoute(w), TrafficRoute(w), EnvRoute(w), Exec(w)}
                                      = {[door |-> "no project", answer |-> None]}
    [] card = "flow" -> \A row \in Flows(w).items :
                          w.sees # None => \A side \in {row.source, row.target} :
                            "end" \in DOMAIN side => ProjectOf(side.end) \in w.sees \cup {""}
    [] OTHER -> TRUE

\* The last entry that names it, in the order the kubelet takes them.
Entry(w, n) ==
  CASE w.second # None /\ w.second.name = n -> w.second
    [] (w.second = None \/ w.second.name # n) /\ w.first # None /\ w.first.name = n -> w.first
    [] OTHER -> None

\* What is said of a pod is so.  A variable that is shown is the last that was given, and
\* nothing of a Secret; a probe that is said to fail does, in a container that has begun;
\* a golden is called the one that runs only on the node's word; and a pod is said to
\* take a Service's traffic exactly where it is among the ready.
SaidIsSo ==
  LET w == world IN
  CASE card = "env" -> \A n \in {"A", "B"} : Environment(w)[n] # None =>
                         /\ Environment(w)[n].value # None => "secret" \notin Environment(w)[n].value
                         /\ Entry(w, n) # None /\ Entry(w, n).how = "secret" => Environment(w)[n].hidden
                         /\ Entry(w, n) # None /\ Entry(w, n).how = "text" => Environment(w)[n].value = {"text"}
    [] card = "probe" -> \A p \in {"startup", "liveness", "readiness"} :
                           /\ Probe(w, p) = "failing" /\ w.state \in {"running", "terminated"} => w.failure.in = "this run"
                           /\ p = "readiness" => (Probe(w, p) = "passing" <=> w.ready)
    [] card = "image" -> LET g == Container(w).golden IN
                           g # None /\ g.confirmed => g.name = w.cloned
    [] card = "over" -> LET owners == Page(w).answer.owners IN
                          \A i \in DOMAIN owners : i < Len(owners) => FollowedUp(owners[i])
    [] card = "under" -> LET v == Page(w).answer.volume IN v # None /\ v.volume => v.found
    [] card = "front" -> \A s \in Services(w) : s # None => (s.thisPod = "ready" <=> "this ready" \in w.eps)
    [] OTHER -> TRUE

=============================================================================
