------------------------------- MODULE Drives --------------------------------
(***************************************************************************)
(* The drives of every node (plugins/stormdrive): which stormdrives are    *)
(* read, as members come, go and move; the format page, its short cache    *)
(* and a format of several drives of several nodes, which destroys what is *)
(* on them; and what a viewer is told of whose volumes are on a drive.     *)
(***************************************************************************)
EXTENDS Naturals, Sequences, SequencesExt, FiniteSets

CONSTANT None

VARIABLES
  card,             \* "format", "usage" or "nodes"
  world

vars == <<card, world>>

Hosts == {"here", "there"}
Drive == {"da", "db", "dc"}                           \* each by its id
Home == [d \in Drive |-> IF d = "dc" THEN "there" ELSE "here"]
Formats == {"4096", "512"}
Addresses == 1..2

NoFormat == [drives |-> [d \in Drive |-> [serial |-> <<d, 1>>, state |-> "idle"]], known |-> Hosts, up |-> Hosts,
             cache |-> None, reader |-> None, page |-> None, moved |-> {},
             op |-> [stage |-> "none", ids |-> <<>>, as |-> <<>>, left |-> <<>>, results |-> <<>>, confirm |-> 0]]

NoUsage == [hidden |-> FALSE, consumer |-> "volume", cache |-> None, reader |-> None, page |-> None]

NoNodes == [at |-> None, static |-> None, feed |-> None, rows |-> {}]

Init ==
  \/ card = "format" /\ \E d \in {"db", "dc"}, is \in {"idle", "in the fleet"} :
                          world = [NoFormat EXCEPT !.drives[d].state = is]
  \/ card = "usage"  /\ world = NoUsage
  \/ card = "nodes"  /\ \E static \in {None} \cup Addresses : world = [NoNodes EXCEPT !.static = static]

-----------------------------------------------------------------------------
(* The nodes that are read.  This one is read on loopback, and once.       *)

\* A member is discovered at an address, or no longer is.
Discover ==
  /\ card = "nodes"
  /\ \E at \in {None} \cup Addresses : world' = [world EXCEPT !.at = at]
  /\ UNCHANGED card

\* wanted: where it is configured to be, before where it is heard.
Wanted(w) == IF w.static # None THEN w.static ELSE w.at

\* refresh_nodes: a feed is kept as long as it is of that address, with what it holds.
Refresh ==
  /\ card = "nodes"
  /\ world' = [world EXCEPT !.feed = IF Wanted(world) = None THEN None
                                     ELSE IF @ # None /\ @.base = Wanted(world) THEN @
                                     ELSE [base |-> Wanted(world), rows |-> {}]]
  /\ UNCHANGED card

\* Its drives, or no answer: a host with no stormdrive adds no rows.
PollFeed ==
  /\ card = "nodes" /\ world.feed # None
  /\ \E found \in BOOLEAN :
       world' = [world EXCEPT !.feed.rows = IF found THEN {<<"drive", world.feed.base>>} ELSE {}]
  /\ UNCHANGED card

\* components: this node's drives and every other's, each said to be of its node.
Components(w) ==
  {[id |-> "here", node |-> "here", from |-> 0]}
    \cup (IF w.feed = None THEN {} ELSE {[id |-> "there", node |-> "there", from |-> r[2]] : r \in w.feed.rows})

\* detail: how many nodes answer, and how many there are without a stormdrive.
Answering(w) == 1 + (IF w.feed # None /\ w.feed.rows # {} THEN 1 ELSE 0)
Silent(w) == (IF w.feed = None THEN 0 ELSE 1) + 1 - Answering(w)

\* node_proxy: an action on a drive goes to where its node is read.
ProxyBase(w, node) == IF node = "here" THEN 0 ELSE IF w.feed = None THEN None ELSE w.feed.base

-----------------------------------------------------------------------------
(* The format page.                                                        *)

\* What has been made of the format asked for.
Stage(w) == w.op.stage

\* The phrase has been held against the serials; the bays whose drive is another one since
\* are remembered in `moved`, which nothing but the properties reads.
Checked(w) == Stage(w) \notin {"none", "asked"}

\* Another drive in the bay, under the id of the first, at any time.
Swap ==
  /\ card = "format"
  /\ \E d \in {"da", "dc"} :
       /\ world.drives[d].serial[2] = 1
       /\ world' = [world EXCEPT !.drives[d] = [serial |-> <<d, 2>>, state |-> "idle"],
                                 !.moved = IF Checked(world) THEN @ \cup {d} ELSE @]
  /\ UNCHANGED card

\* A node is no member any more, or does not answer.
Leave ==
  /\ card = "format"
  /\ \/ world' = [world EXCEPT !.known = (Hosts \ @) \cup {"here"}]
     \/ world' = [world EXCEPT !.up = (Hosts \ @) \cup {"here"}]
  /\ UNCHANGED card

\* reduce: one record for each drive of the nodes that answer.
Reduced(w) == [d \in {e \in Drive : Home[e] \in w.known \cap w.up} |-> w.drives[d]]

\* formats_route: one page reads, the others wait for what it gets.
OpenPage ==
  /\ card = "format" /\ world.reader = None
  /\ world' = IF world.cache # None THEN [world EXCEPT !.page = world.cache]
              ELSE [world EXCEPT !.reader = Reduced(world)]
  /\ UNCHANGED card

PageRead ==
  /\ card = "format" /\ world.reader # None
  /\ world' = [world EXCEPT !.cache = world.reader, !.page = world.reader, !.reader = None]
  /\ UNCHANGED card

CacheAges ==
  /\ card = "format" /\ world.cache # None /\ world.reader = None
  /\ world' = [world EXCEPT !.cache = None]
  /\ UNCHANGED card

\* What is typed: a drive's serial, or for several how many.
Phrase(serials) == IF Len(serials) = 1 THEN serials[1] ELSE Len(serials)

\* why_not: what the page says before anyone asks.
WhyNot(drive) == drive.state # "idle"

\* The viewer formats drives of the page, typing what it says.
AskFormat ==
  /\ card = "format" /\ Stage(world) = "none" /\ world.page # None
  /\ LET free == {d \in DOMAIN world.page : ~WhyNot(world.page[d])} IN
     \E ids \in (SUBSET free) \ {{}}, one \in Formats :
       LET ask == SetToSeq(ids)
           as == [d \in ids |-> IF d = "db" THEN one ELSE "4096"]
       IN  world' = [world EXCEPT !.op = [stage |-> "asked", ids |-> ask, as |-> as, left |-> <<>>, results |-> <<>>,
                                          confirm |-> Phrase([i \in DOMAIN ask |-> world.page[ask[i]].serial])]]
  /\ UNCHANGED card

\* batches: one request for each node and format.
Batches(ids, as) ==
  SetToSeq({{e \in ToSet(ids) : Home[e] = Home[d] /\ as[e] = as[d]} : d \in ToSet(ids)})

\* format_start reads again, and the phrase is held against what it reads.
CheckFormat ==
  /\ card = "format" /\ Stage(world) = "asked"
  /\ LET now == Reduced(world)
         op == world.op
         found == ToSet(op.ids) \subseteq DOMAIN now
         phrase == Phrase([i \in DOMAIN op.ids |-> now[op.ids[i]].serial])
     IN  world' = [world EXCEPT !.op =
                     IF ~found THEN [@ EXCEPT !.stage = "404"]
                     ELSE IF op.confirm # phrase THEN [@ EXCEPT !.stage = "428"]
                     ELSE [@ EXCEPT !.stage = "sending", !.left = Batches(op.ids, op.as)]]
  /\ UNCHANGED card

\* stormdrive takes all of a request or none of it, by the drives' ids: it looks again at
\* what why_not says and is told no serial.
Takes(w, batch) == \A d \in batch : ~WhyNot(w.drives[d])

\* The next request.  A node that is no longer known is passed over; one that does not
\* answer in time may have begun all the same.
SendFormat ==
  /\ card = "format" /\ Stage(world) = "sending" /\ world.op.left # <<>>
  /\ LET batch == Head(world.op.left)
         node == Home[CHOOSE d \in batch : TRUE]
         begun == [d \in Drive |-> IF d \in batch THEN [world.drives[d] EXCEPT !.state = "formatting"] ELSE world.drives[d]]
         said(ok) == [world EXCEPT !.op.left = Tail(@), !.op.results = Append(@, [drives |-> batch, ok |-> ok])]
     IN  IF node \notin world.known THEN world' = [world EXCEPT !.op.left = Tail(@)]
         ELSE \/ node \in world.up /\ ~Takes(world, batch) /\ world' = said(FALSE)
              \/ node \in world.up /\ Takes(world, batch) /\ world' = [said(TRUE) EXCEPT !.drives = begun]
              \/ node \in world.up /\ Takes(world, batch) /\ world' = [said(FALSE) EXCEPT !.drives = begun]
              \/ node \notin world.up /\ world' = said(FALSE)
  /\ UNCHANGED card

\* What is kept of the page is dropped, which waits for whoever is reading it.
AnswerFormat ==
  /\ card = "format" /\ Stage(world) = "sending" /\ world.op.left = <<>>
  /\ world.reader = None
  /\ world' = [world EXCEPT !.cache = None, !.page = None,
                            !.op.stage = IF \A i \in DOMAIN world.op.results : world.op.results[i].ok THEN "200" ELSE "207"]
  /\ UNCHANGED card

-----------------------------------------------------------------------------
(* Whose volumes are on a drive.                                           *)

\* The viewer is shut out of the consumer's project, or let in again; an older
\* stormdrive reports no volumes, and a drive may have one, unclaimed, or none.
Hide ==
  /\ card = "usage"
  /\ world' = [world EXCEPT !.hidden = ~@]
  /\ UNCHANGED card

Reports ==
  /\ card = "usage"
  /\ \E c \in {"volume", "unclaimed", "none here", "not reported", "no answer"} : world' = [world EXCEPT !.consumer = c]
  /\ UNCHANGED card

\* node_answer and reduce: what is absent is not empty.
NodeAnswer(consumer) == IF consumer = "no answer" THEN [ok |-> FALSE] ELSE [ok |-> TRUE, volumes |-> consumer]

\* for_viewer: done past the cache, which is kept for everyone.
ForViewer(answer, hidden) ==
  IF answer.ok /\ answer.volumes = "volume" /\ hidden THEN [answer EXCEPT !.volumes = "of a hidden project"] ELSE answer

\* usage_route, for somebody who sees everything or for the viewer: what is hidden of
\* them is asked first, then the answer kept is waited for, or made.
AskUsage ==
  /\ card = "usage" /\ world.reader = None
  /\ \E root \in BOOLEAN : world' = [world EXCEPT !.reader = [root |-> root, hidden |-> ~root /\ world.hidden]]
  /\ UNCHANGED card

AnswerUsage ==
  /\ card = "usage" /\ world.reader # None
  /\ LET answer == IF world.cache # None THEN world.cache ELSE NodeAnswer(world.consumer)
     IN  world' = [world EXCEPT !.cache = answer, !.reader = None,
                                !.page = [for |-> world.reader, shows |-> ForViewer(answer, world.reader.hidden)]]
  /\ UNCHANGED card

UsageAges ==
  /\ card = "usage" /\ world.cache # None
  /\ world' = [world EXCEPT !.cache = None]
  /\ UNCHANGED card

-----------------------------------------------------------------------------
Next ==
  \/ Discover \/ Refresh \/ PollFeed
  \/ Swap \/ Leave \/ OpenPage \/ PageRead \/ CacheAges \/ AskFormat \/ CheckFormat \/ SendFormat \/ AnswerFormat
  \/ Hide \/ Reports \/ AskUsage \/ AnswerUsage \/ UsageAges

Spec == Init /\ [][Next]_vars

\* A format does what it says, as far as the console sees to it.  A drive is formatted only
\* in a bay that was asked for and, where one serial was typed, only the drive of that
\* serial: what is read again before anything is sent is what the phrase is held against.
\* The serial does not go with the request, so a drive put in the bay after that is
\* formatted unseen.  Every drive that is said to be taken has begun, unless it was pulled
\* since; every drive a 200 is for was taken unless its node had left, each with those of
\* its node and format; and the first page after shows what runs, though one was being read.
FormatIsTrue ==
  card = "format" /\ Stage(world) # "none" =>
    LET op == world.op
        asked == ToSet(op.ids)
        ok == UNION {op.results[i].drives : i \in {j \in DOMAIN op.results : op.results[j].ok}}
        told == UNION {op.results[i].drives : i \in DOMAIN op.results}
    IN  /\ \A i \in DOMAIN op.results : \A d, e \in op.results[i].drives : <<Home[d], op.as[d]>> = <<Home[e], op.as[e]>>
        /\ \A d \in Drive : world.drives[d].state = "formatting" =>
             d \in asked /\ (Len(op.ids) = 1 => op.confirm = world.drives[d].serial \/ d \in world.moved)
        /\ \A d \in ok : world.drives[d].state = "formatting" \/ d \in world.moved
        /\ op.stage = "200" => \A d \in asked : d \in ok \/ (d \notin told /\ Home[d] # "here")
        /\ op.stage \in {"200", "207"} /\ world.page # None =>
             \A d \in ok \cap DOMAIN world.page : WhyNot(world.page[d]) \/ d \in world.moved

\* A node's rows are from where its actions go, and it is counted once.
RowsAreReached ==
  card = "nodes" =>
    /\ \A c \in Components(world) : ProxyBase(world, c.node) = c.from
    /\ Cardinality(Components(world)) = Answering(world)
    /\ Silent(world) \in 0..1

\* A consumer in a project the viewer may not see is not named, whoever read it first,
\* and one who sees everything is told the same as before.
ConsumersHidden ==
  card = "usage" /\ world.page # None =>
    LET p == world.page IN
    /\ p.for.hidden => p.shows # [ok |-> TRUE, volumes |-> "volume"]
    /\ ~p.for.hidden => p.shows # [ok |-> TRUE, volumes |-> "of a hidden project"]

=============================================================================
