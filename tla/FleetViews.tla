----------------------------- MODULE FleetViews -----------------------------
(***************************************************************************)
(* The machines of the fleet and how they are reached: a node's row with   *)
(* what its verifier, its drives and its services last said (fleet/lib.rs, *)
(* verification.rs), the page a node is asked for (fleet/node.rs), which   *)
(* machine a name heard on the log group is and which lines are its own    *)
(* (logs/scope.rs, logs/lib.rs), and how a port is asked while a node      *)
(* moves to TLS (console-core/dial.rs).                                    *)
(*                                                                         *)
(* What the machines do changes one part at a time; what the console       *)
(* remembers of them changes only when it asks.                            *)
(***************************************************************************)
EXTENDS Naturals, FiniteSets, Sequences

CONSTANT None       \* not there, not said, not known

VARIABLES
  card,             \* what is looked at
  world             \* the machines, and what is remembered of them

vars == <<card, world>>

Flag == BOOLEAN

Healths == {"Error", "Warn", "Ok", "Idle", "Unknown"}

Rank(h) ==
  CASE h = "Error" -> 0 [] h = "Warn" -> 1 [] h = "Ok" -> 2 [] h = "Idle" -> 3 [] OTHER -> 4

Worse(a, b) == IF Rank(a) < Rank(b) THEN a ELSE b
Worst(hs, none) == IF hs = {} THEN none ELSE CHOOSE h \in hs : \A x \in hs : Rank(h) <= Rank(x)

\* What changes on its own while a card is looked at.
Varies(c) ==
  CASE c = "row"   -> {"heard", "addr", "local", "says", "storage", "raid"}
    [] c = "daemon" -> {"heard", "local", "stormd"}
    [] c = "port"  -> {"heard", "addr", "local", "asked", "answer", "feed"}
    [] c = "names" -> {"members", "lines", "order"}
    [] c = "dial"  -> {"serves", "word"}

Cards == {"row", "daemon", "port", "names", "dial"}

Quiet ==
  [heard |-> "now", addr |-> TRUE, local |-> FALSE, says |-> None, storage |-> None, raid |-> None,
   stormd |-> "none", verified |-> None, service |-> None, refused |-> FALSE,
   asked |-> [port |-> "layout", read |-> TRUE, between |-> FALSE], answer |-> "feed",
   feed |-> [system |-> None, parts |-> {}],
   members |-> [m \in {"k", "m"} |-> None], lines |-> [n \in {"here", "m", "old"} |-> None],
   order |-> <<"here", "m", "old">>,
   serves |-> "plain", word |-> FALSE, memory |-> None,
   dial |-> [files |-> "none", require |-> FALSE, https |-> FALSE, loopback |-> FALSE]]

Addresses == {"x", "y"}

ValuesOf(p) ==
  CASE p = "heard"   -> {None, "now", "minutes", "old", "never", "unreadable"}
    [] p = "says"    -> {None, "pass", "incomplete", "fail", "first"}
    [] p = "storage" -> {None, "Error", "Idle"}
    [] p = "raid"    -> {None, "clean", "degraded", "failed"}
    [] p = "stormd"  -> {"none", "untrusted"} \cup Healths
    [] p = "asked"   -> [port : {"layout", "stormcluster", "elsewhere"}, read : Flag, between : Flag]
    [] p = "answer"  -> {"untrusted", "down", "not for you", "error", "unreadable", "feed"}
    [] p = "feed"    -> [system : {None, "Ok", "Error"}, parts : SUBSET {"Error", "Idle"}]
    [] p = "members" -> [{"k", "m"} -> {None} \cup SUBSET Addresses]
    [] p = "lines"   -> [{"here", "m", "old"} -> {None, ""} \cup Addresses]
    \* which of the names was heard last, the newest at the end
    [] p = "order"   -> {<<"here", "m", "old">>, <<"here", "old", "m">>}
    [] p = "serves"  -> {"tls", "plain", "untrusted", "mute", "slow", "down"}
    [] OTHER         -> Flag

\* [node_tls], or a section of its own that knows no plain fallback, or neither.
Dials ==
  [files : {"none", "unreadable", "read"}, require : Flag, https : Flag, loopback : Flag]

Init ==
  /\ card \in Cards
  /\ \/ card # "dial" /\ world = Quiet
     \/ card = "dial" /\ \E d \in Dials : world = [Quiet EXCEPT !.dial = d]

Event(p) ==
  /\ p \in Varies(card)
  /\ \E v \in ValuesOf(p) : world' = [world EXCEPT ![p] = v]
  /\ UNCHANGED card

-----------------------------------------------------------------------------
(* A machine of the cluster, and its row. *)

\* The node this console runs on is one whether or not it is heard.
Row(w) == w.heard # None \/ w.local

\* Where it is asked: this node at the address the console was pointed at.
Address(w) ==
  CASE w.heard # None /\ w.addr -> "its own"
    [] w.local /\ (w.heard = None \/ ~w.addr) -> "as configured"
    [] ~w.local /\ w.heard # None /\ ~w.addr -> ""
    [] OTHER -> None

\* Every node is asked for its verdict; one that does not answer keeps its last, and
\* one that is no node any more keeps none.
PollVerification ==
  /\ card = "row"
  /\ world' = [world EXCEPT !.verified =
       CASE Address(world) \in {None, ""} -> None
         [] world.says # None /\ Address(world) \notin {None, ""} ->
              [result |-> world.says, answering |-> TRUE]
         [] OTHER -> IF @ = None THEN None ELSE [@ EXCEPT !.answering = FALSE]]
  /\ UNCHANGED card

\* One port of this node's layout, asked until a stormd is behind it.
Discover ==
  /\ card = "daemon" /\ world.local /\ world.service = None
  /\ world' =
       IF world.stormd = "untrusted" THEN [world EXCEPT !.refused = TRUE]
       ELSE [world EXCEPT !.refused = FALSE,
                          !.service = IF world.stormd \in Healths THEN "found" ELSE None]
  /\ UNCHANGED card

\* What the service's feed says of itself, its card standing in when it is down.
ServiceHealth(w) == IF w.stormd \in Healths THEN w.stormd ELSE "Error"

\* How long ago it was heard.
Heard(w) ==
  CASE w.heard = "now"        -> "Ok"
    [] w.heard = "minutes"    -> "Warn"
    [] w.heard = "never"      -> "Idle"
    [] w.heard = "unreadable" -> "Unknown"
    [] w.heard = "old"        -> "Error"
    [] w.heard = None         -> IF w.service = None THEN "Idle" ELSE "Ok"

VerdictHealth(v) == IF v.result = "fail" THEN {"Error"} ELSE IF v.result = "incomplete" THEN {"Warn"} ELSE {}

RaidHealth(state) == CASE state = "clean" -> {} [] state = "failed" -> {"Error"} [] OTHER -> {"Warn"}

\* What is told of it besides how lately it was heard.
Told(w) ==
  (IF w.storage = None THEN {} ELSE {w.storage})
  \cup (IF w.verified = None THEN {} ELSE VerdictHealth(w.verified))
  \cup (IF w.local /\ w.raid # None THEN RaidHealth(w.raid) ELSE {})

RowHealth(w) == Worst(Told(w) \cup {Heard(w)}, "Unknown")

\* The plugin's own card: a port that was refused is not nothing.
FleetHealth(w) ==
  LET begun == IF w.refused THEN "Warn" ELSE IF w.service = None THEN "Idle" ELSE "Ok"
  IN  IF w.service = None THEN begun ELSE Worse(ServiceHealth(w), begun)

\* The services found here, which its row has and its page lists.
Services(w) == IF w.local /\ w.service # None THEN {"service"} ELSE {}

-----------------------------------------------------------------------------
(* A node's page, asked when it is opened. *)

\* What one port says: a service, silence, or why it must not be read.
Probe(w) ==
  CASE w.answer = "untrusted"   -> "refused"
    [] w.answer = "not for you" -> IF w.asked.port = "stormcluster" THEN "refused" ELSE "silent"
    [] w.answer = "feed"        -> "service"
    [] OTHER                    -> "silent"

\* The daemon's verdict on itself, or the worst of what it serves.
Summary(f) == IF f.system # None THEN f.system ELSE Worst(f.parts, "Idle")

NodePage(w) ==
  CASE Address(w) = None -> [found |-> FALSE]
    [] Address(w) = ""   -> [found |-> TRUE, services |-> {}, reachable |-> FALSE]
    [] OTHER -> LET services == IF w.asked.port # "elsewhere" /\ Probe(w) = "service"
                                THEN {[at |-> Address(w), port |-> w.asked.port, health |-> Summary(w.feed)]}
                                ELSE {}
                IN  [found |-> TRUE, services |-> services, reachable |-> services # {}]

\* Only an address that was heard, or this node's own.
HeardAt(at, w) == at = "as configured" \/ (w.heard # None /\ w.addr /\ at = "its own")

\* Behind stormcluster's port are its reads, and nothing that is between stormclusters.
ProxyAllows(asked) == asked.port = "stormcluster" => asked.read /\ ~asked.between

NodeProxy(at, asked, w) ==
  CASE ~HeardAt(at, w)           -> "not a node"
    [] asked.port = "elsewhere"  -> "not in the layout"
    [] ~ProxyAllows(asked)       -> "not offered"
    [] OTHER                     -> "forwarded"

Verification(w) ==
  CASE Address(w) = None -> "no node"
    [] Address(w) = ""   -> "not said where it is"
    [] OTHER             -> IF w.says = None THEN "no answer" ELSE "answered"

-----------------------------------------------------------------------------
(* Which machine a name is. *)

Here == "here"
Heards(w) == {n \in DOMAIN w.lines : w.lines[n] # None}
HeardFrom(n, w) == IF n \in Heards(w) THEN w.lines[n] ELSE ""
Members(w) == {m \in DOMAIN w.members : w.members[m] # None}

\* This node, as the apiserver names it if that differs from its hostname.
IsLocal(m, w) == HeardFrom(Here, w) # "" /\ HeardFrom(Here, w) \in w.members[m]
NameOf(m, w) == IF IsLocal(m, w) THEN Here ELSE m

Nodes(w) == {NameOf(m, w) : m \in Members(w)} \cup {Here}

\* The members' own names, and this node's.
Own(w) == [n \in Members(w) \cup {Here} |-> IF n = Here THEN Here ELSE NameOf(n, w)]

\* Who has an address: this node first, then the last member to list it, then the first
\* of the members' names that is heard from it.
HolderOf(x, w) ==
  LET listed == {m \in Members(w) : x \in w.members[m]}
      heardAt == {n \in Heards(w) \cap DOMAIN Own(w) : w.lines[n] = x}
  IN  CASE x = ""                    -> None
        [] x # "" /\ HeardFrom(Here, w) = x -> Here
        [] OTHER -> CASE listed # {} -> NameOf(IF "m" \in listed THEN "m" ELSE "k", w)
                      [] listed = {} /\ heardAt # {} -> Own(w)[CHOOSE n \in heardAt : TRUE]
                      [] OTHER -> None

\* The node a name means, or None for a machine that is not shown here.
NodeOf(n, w) ==
  IF n \in DOMAIN Own(w) THEN Own(w)[n]
  ELSE IF n \in Heards(w) THEN HolderOf(w.lines[n], w) ELSE None

NamesOf(node, w) == {n \in Heards(w) : NodeOf(n, w) = node}

Newest(w, names) == CHOOSE i \in DOMAIN w.order :
  w.order[i] \in names /\ \A j \in DOMAIN w.order : w.order[j] \in names => j <= i

\* One row a node, what was heard of it merged; a member not heard yet has one too.
RowNames(w) == ({NodeOf(n, w) : n \in Heards(w)} \ {None}) \cup {NameOf(m, w) : m \in Members(w)}

RowOf(node, w) ==
  LET names == NamesOf(node, w)
  IN  IF names = {} THEN [lines |-> {}, last |-> None]
      ELSE [lines |-> names, last |-> w.order[Newest(w, names)]]

\* The lines that are asked of one name, by the page and by its live tail.
Admits(line, host, w) ==
  NodeOf(line, w) # None /\ (host = None \/ NodeOf(host, w) = NodeOf(line, w))

Streams(line, host, w) ==
  /\ NodeOf(line, w) # None
  /\ host # None => NodeOf(host, w) = NodeOf(line, w)

\* A beacon sent under another name stands only until the node's own is heard.
BeaconOf(node, w) ==
  LET names == NamesOf(node, w) IN IF node \in names THEN {node} ELSE names

-----------------------------------------------------------------------------
(* How a port is asked. *)

\* What asking /healthz over TLS comes to: nothing there, a certificate that is not
\* trusted, or not TLS.
AskedSecurely(serves) ==
  CASE serves = "tls" -> "answered" [] serves = "untrusted" -> "untrusted"
    [] serves \in {"slow", "down"} -> "down" [] OTHER -> "other"

AsGiven(w) == IF w.dial.https THEN "secure" ELSE "plain"

Route(w) ==
  LET tls == AskedSecurely(w.serves)
  IN  CASE w.dial.files = "none"       -> [to |-> AsGiven(w), memory |-> w.memory]
        [] w.dial.files = "unreadable" -> [to |-> "refused", memory |-> w.memory]
        [] w.dial.files = "read" /\ w.memory # None ->
             [to |-> IF w.memory THEN "secure" ELSE AsGiven(w), memory |-> w.memory]
        [] OTHER ->
             CASE tls = "answered"  -> [to |-> "secure", memory |-> TRUE]
               [] tls = "down"      -> [to |-> AsGiven(w), memory |-> None]
               [] tls = "untrusted" -> [to |-> "refused", memory |-> None]
               [] tls = "other"     ->
                    IF w.dial.require \/ w.serves # "plain" THEN [to |-> "refused", memory |-> None]
                    ELSE [to |-> AsGiven(w), memory |-> FALSE]

\* A credential goes over TLS or stays on this machine.
MayCarry(to, w) == to = "secure" \/ w.dial.loopback

Reach(w) ==
  LET to == Route(w).to
  IN  IF to = "refused" THEN [to |-> to, bearer |-> FALSE, withheld |-> FALSE]
      ELSE [to |-> to, bearer |-> w.word /\ MayCarry(to, w), withheld |-> w.word /\ ~MayCarry(to, w)]

Ask ==
  /\ card = "dial"
  /\ world' = [world EXCEPT !.memory = Route(world).memory]
  /\ UNCHANGED card

\* What a port answered is used for half a minute.
Forget ==
  /\ card = "dial"
  /\ world' = [world EXCEPT !.memory = None]
  /\ UNCHANGED card

-----------------------------------------------------------------------------
Next ==
  \/ \E p \in DOMAIN world : Event(p)
  \/ PollVerification
  \/ Discover
  \/ Ask
  \/ Forget

Spec == Init /\ [][Next]_vars

-----------------------------------------------------------------------------
(* Properties. *)

\* A row opens a page, and what a node's page links to is forwarded.
OfferedIsTaken ==
  LET w == world IN
  CASE card = "row"  -> Row(w) => Address(w) # None /\ Verification(w) # "no node"
    [] card = "port" -> NodePage(w).found =>
                          \A s \in NodePage(w).services :
                            NodeProxy(s.at, [port |-> s.port, read |-> TRUE, between |-> FALSE], w) = "forwarded"
    [] OTHER -> TRUE

\* Whose address it is, listed or heard.
NodesAt(x, w) ==
  {NameOf(m, w) : m \in {m \in Members(w) : x \in w.members[m]}}
  \cup {Own(w)[n] : n \in {n \in Heards(w) \cap DOMAIN Own(w) : w.lines[n] = x}}

\* A node is never shown better than anything that is told of it, a port is read or said to
\* be refused and never both, and the card says so; every line that is shown is in the row of
\* one node, and the live tail is the query it follows; a name is of a node that is at its
\* address, if one is, whatever the name.  Of a port's route: where TLS is required it is
\* plain only to a port that did not answer over TLS in time (Failed::Down, dial.rs:143, taken
\* before `require` is looked at), never to one that answers and does not speak TLS; one that
\* is distrusted is refused unless it had answered plainly just before; and a bearer goes
\* over TLS or stays on this machine.
SaidIsSo ==
  LET w == world IN
  CASE card = "row"   ->
         /\ \A h \in Told(w) : Rank(RowHealth(w)) <= Rank(h)
    [] card = "daemon" ->
         /\ ~(w.refused /\ w.service # None)
         /\ w.refused => Rank(FleetHealth(w)) <= Rank("Warn")
    [] card = "names" ->
         /\ \A line \in Heards(w) :
              NodeOf(line, w) # None <=>
                \E r \in RowNames(w) : line \in RowOf(r, w).lines /\ Admits(line, r, w)
         /\ \A line \in Heards(w) : \A host \in DOMAIN w.lines \cup {"k", None} :
              Admits(line, host, w) <=> Streams(line, host, w)
         /\ \A n \in Heards(w) : w.lines[n] # "" =>
              IF NodesAt(w.lines[n], w) = {} THEN NodeOf(n, w) = None
              ELSE NodeOf(n, w) \in NodesAt(w.lines[n], w)
         /\ RowNames(w) \subseteq Nodes(w)
         /\ \A n, m \in Nodes(w) : n # m => BeaconOf(n, w) \cap BeaconOf(m, w) = {}
    [] card = "dial"  ->
         /\ w.dial.files = "read" /\ w.dial.require /\ Route(w).to = "plain" =>
              AskedSecurely(w.serves) = "down"
         /\ w.dial.files = "read" /\ w.serves = "untrusted" /\ Route(w).to # "refused" => w.memory # None
         /\ Reach(w).bearer => Reach(w).to = "secure" \/ w.dial.loopback
    [] OTHER -> TRUE

=============================================================================
