------------------------------ MODULE FeedPush ------------------------------
(***************************************************************************)
(* The component feed from an upstream to the pages: a feed plugin polls   *)
(* its daemon (feed.rs), the registry rebuilds the aggregate on its own    *)
(* cadence and publishes what changed (registry.rs), each websocket sends  *)
(* the feed as its viewer may see it (server.rs), and the page shows what  *)
(* it was sent last, with a REST fetch for the first paint and a socket    *)
(* that dials again (stores.svelte.js, api.js).                            *)
(*                                                                         *)
(* Two plugins stand for all: a feed plugin with a daemon's rows, and the  *)
(* Kubernetes plugin with one pod in each project, which limits the viewer *)
(* of the pages to the projects they hold a role in.  What the viewer may  *)
(* see is asked as of the moment; how old an answer may be is the matter   *)
(* of ProjectAccess.                                                       *)
(***************************************************************************)
EXTENDS Integers, Sequences, FiniteSets

CONSTANTS
  Rows,        \* what the daemon's feed may hold
  Projects,    \* projects, each with a pod of its own
  Pages,       \* browser pages of one viewer
  QueueCap,    \* the broadcast channel's capacity (16 in the code)
  WireCap,     \* bound: frames a socket holds on their way to the page
  MaxEvents,   \* bound: changes outside the console and connections that break
  NoFeed       \* nothing read, nothing shown

ASSUME CapAssumption == QueueCap \in Nat \ {0} /\ WireCap \in Nat \ {0}

Feed == [health : {"unknown", "ok", "error"}, rows : SUBSET Rows, pods : SUBSET Projects]

ASSUME NoFeedAssumption == NoFeed \notin [feed : Feed, at : Nat]

VARIABLES
  outside,     \* the daemon, the cluster and who may see what
  held,        \* the Kubernetes plugin's cache: its pods and its projects
  feed,        \* FeedState: the feed plugin's health and rows
  build,       \* Registry::refresh, under way
  snapshot,    \* the aggregate, and how often it was replaced
  socket,      \* the pages' websockets, the server's end and the wire
  page,        \* what the pages show
  events       \* changes and breaks so far

feedVars == <<outside, held, feed, build, snapshot, socket, page, events>>

Empty  == [health |-> "unknown", rows |-> {}, pods |-> {}]
Closed == [pc |-> "closed", queue |-> 0, lagged |-> FALSE, read |-> NoFeed, wire |-> <<>>]
BlankPage  == [fetch |-> "none", read |-> NoFeed, shown |-> NoFeed, live |-> FALSE]

\* The outside starts as it likes; the console as a process starts.
FeedInit ==
  /\ outside \in [up : BOOLEAN, rows : SUBSET Rows, pods : SUBSET Projects,
                  projects : {Projects}, permitted : SUBSET Projects]
  /\ held = [pods |-> {}, known |-> {}]
  /\ feed = [health |-> "unknown", rows |-> {}]
  /\ build = [pc |-> "slice"]
  /\ snapshot = [feed |-> Empty, at |-> 0]
  /\ socket = [p \in Pages |-> Closed]
  /\ page = [p \in Pages |-> BlankPage]
  /\ events = 0

(***************************************************************************)
(* Outside the console.                                                    *)
(***************************************************************************)
OutsideChanges(to) ==
  /\ events < MaxEvents
  /\ outside' = to
  /\ events' = events + 1
  /\ UNCHANGED <<held, feed, build, snapshot, socket, page>>

DaemonChanges ==
  \E up \in BOOLEAN, rows \in SUBSET Rows :
    <<up, rows>> # <<outside.up, outside.rows>> /\ OutsideChanges([outside EXCEPT !.up = up, !.rows = rows])

RoleChanges(n) ==
  OutsideChanges([outside EXCEPT !.permitted = IF n \in @ THEN @ \ {n} ELSE @ \cup {n}])

PodChanges(n) == OutsideChanges([outside EXCEPT !.pods = IF n \in @ THEN @ \ {n} ELSE @ \cup {n}])

\* Pods and namespaces are watched each by its own task: see WatchCache.
WatchPods ==
  /\ held.pods # outside.pods
  /\ held' = [held EXCEPT !.pods = outside.pods]
  /\ UNCHANGED <<outside, feed, build, snapshot, socket, page, events>>

WatchProjects ==
  /\ held.known # outside.projects
  /\ held' = [held EXCEPT !.known = outside.projects]
  /\ UNCHANGED <<outside, feed, build, snapshot, socket, page, events>>

(***************************************************************************)
(* Feed::poll: one look at the daemon, told in one write.                  *)
(***************************************************************************)

Polled == IF outside.up THEN [health |-> "ok", rows |-> outside.rows]
                        ELSE [health |-> "error", rows |-> {}]

Poll ==
  /\ feed # Polled
  /\ feed' = Polled
  /\ UNCHANGED <<outside, held, build, snapshot, socket, page, events>>

(***************************************************************************)
(* Registry::refresh: each plugin's components, then its health for the    *)
(* card, and so on for the next plugin; publish what changed.              *)
(***************************************************************************)
Slice ==
  /\ build.pc = "slice"
  /\ build' = [pc |-> "card", rows |-> feed.rows]
  /\ UNCHANGED <<outside, held, feed, snapshot, socket, page, events>>

Card ==
  /\ build.pc = "card"
  /\ build' = [pc |-> "built",
               feed |-> [health |-> feed.health, rows |-> build.rows, pods |-> held.pods]]
  /\ UNCHANGED <<outside, held, feed, snapshot, socket, page, events>>

\* Nothing changed: the next refresh.
Unchanged ==
  /\ build.pc = "built" /\ build.feed = snapshot.feed
  /\ build' = [pc |-> "slice"]
  /\ UNCHANGED <<outside, held, feed, snapshot, socket, page, events>>

Publish ==
  /\ build.pc = "built" /\ build.feed # snapshot.feed
  /\ snapshot' = [feed |-> build.feed, at |-> snapshot.at + 1]
  /\ build' = [pc |-> "send"]
  /\ UNCHANGED <<outside, held, feed, socket, page, events>>

QueuedIfWaiting(s) ==
  IF s.pc # "waiting" THEN s
  ELSE IF s.queue < QueueCap THEN [s EXCEPT !.queue = @ + 1]
  ELSE [s EXCEPT !.lagged = TRUE]

\* broadcast: a receiver that is QueueCap messages behind loses the oldest.
Queued(s) ==
  IF s.pc = "closed" THEN s
  ELSE IF s.queue < QueueCap THEN [s EXCEPT !.queue = @ + 1]
  ELSE [s EXCEPT !.lagged = TRUE]

Send ==
  /\ build.pc = "send"
  /\ socket' = [p \in Pages |-> Queued(socket[p])]
  /\ build' = [pc |-> "slice"]
  /\ UNCHANGED <<outside, held, feed, snapshot, page, events>>

(***************************************************************************)
(* push_snapshots: subscribe, send the feed, then send it again for every  *)
(* message; a receiver that lagged closes the socket.                      *)
(***************************************************************************)
SocketStep(p, s) ==
  /\ socket' = [socket EXCEPT ![p] = s]
  /\ UNCHANGED <<outside, held, feed, build, snapshot, page, events>>

Connect(p) ==
  /\ socket[p].pc = "closed"
  /\ SocketStep(p, [Closed EXCEPT !.pc = "reading"])

\* scoped_for reads the snapshot, then asks what the viewer may see of it.
ReadFeed(p) ==
  /\ socket[p].pc = "reading"
  /\ SocketStep(p, [socket[p] EXCEPT !.pc = "scoping", !.read = snapshot])

Hidden == held.known \ outside.permitted

Scoped(read) == [read EXCEPT !.feed.pods = @ \ Hidden]

SendFrame(p) ==
  /\ socket[p].pc = "scoping"
  /\ Len(socket[p].wire) < WireCap
  /\ SocketStep(p, [socket[p] EXCEPT !.pc = "waiting", !.read = NoFeed,
                                     !.wire = Append(@, Scoped(socket[p].read))])

Notified(p) ==
  /\ socket[p].pc = "waiting" /\ socket[p].queue > 0 /\ ~socket[p].lagged
  /\ SocketStep(p, [socket[p] EXCEPT !.pc = "reading", !.queue = @ - 1])

Lagged(p) ==
  /\ socket[p].pc = "waiting" /\ socket[p].lagged
  /\ SocketStep(p, Closed)

\* The connection breaks, from either end or between.
Break(p) ==
  /\ socket[p].pc # "closed" /\ events < MaxEvents
  /\ socket' = [socket EXCEPT ![p] = Closed]
  /\ events' = events + 1
  /\ UNCHANGED <<outside, held, feed, build, snapshot, page>>

(***************************************************************************)
(* The page.                                                               *)
(***************************************************************************)
PageStep(p, to) ==
  /\ page' = [page EXCEPT ![p] = to]
  /\ UNCHANGED <<outside, held, feed, build, snapshot, socket, events>>

\* onmessage: the feed, and from then on live.
Receive(p) ==
  /\ socket[p].wire # <<>>
  /\ page' = [page EXCEPT ![p].shown = Head(socket[p].wire), ![p].live = TRUE]
  /\ socket' = [socket EXCEPT ![p].wire = Tail(@)]
  /\ UNCHANGED <<outside, held, feed, build, snapshot, events>>

\* The REST fetch for the first paint: the feed, scoped as a socket's is, on its way
\* for as long as it takes; it counts only on a page that shows nothing yet.
Fetch(p) ==
  /\ page[p].fetch = "none"
  /\ PageStep(p, [page[p] EXCEPT !.fetch = "answered", !.read = Scoped(snapshot)])

FetchFailed(p) ==
  /\ page[p].fetch = "answered"
  /\ PageStep(p, [page[p] EXCEPT !.fetch = "done", !.read = NoFeed])

PaintedAnyway(p) == page[p].read

Painted(p) == IF page[p].shown = NoFeed THEN page[p].read ELSE page[p].shown

FirstPaint(p) ==
  /\ page[p].fetch = "answered"
  /\ PageStep(p, [page[p] EXCEPT !.fetch = "done", !.read = NoFeed, !.shown = Painted(p)])

-----------------------------------------------------------------------------
Outside == DaemonChanges \/ \E n \in Projects : RoleChanges(n) \/ PodChanges(n)

Refresh == Slice \/ Card \/ Unchanged \/ Publish \/ Send

Serve(p) ==
  \/ Connect(p) \/ ReadFeed(p) \/ SendFrame(p) \/ Notified(p) \/ Lagged(p) \/ Receive(p)

Paint(p) == Fetch(p) \/ FetchFailed(p) \/ FirstPaint(p)

FeedNext ==
  \/ Outside \/ WatchPods \/ WatchProjects \/ Poll \/ Refresh
  \/ \E p \in Pages : Serve(p) \/ Break(p) \/ Paint(p)

FeedSpec == FeedInit /\ [][FeedNext]_feedVars

\* Polls, watches, refreshes, sockets and their reconnection all run on timers and
\* loops of their own; a poll or a watch that caught up waits for the next change, so
\* one condition does for them together.
FeedFairSpec ==
  /\ FeedSpec
  /\ WF_feedVars(Poll \/ WatchPods \/ WatchProjects) /\ WF_feedVars(Refresh)
  /\ \A p \in Pages : WF_feedVars(Serve(p)) /\ WF_feedVars(Receive(p))

(***************************************************************************)
(* Properties.                                                             *)
(***************************************************************************)
Shown == [feed : Feed, at : 0..snapshot.at]

FeedTypeOK ==
  /\ snapshot.feed \in Feed
  /\ feed \in [health : {"unknown", "ok", "error"}, rows : SUBSET Rows]
  /\ build.pc \in {"slice", "card", "built", "send"}
  /\ \A p \in Pages :
       /\ socket[p].queue \in 0..QueueCap
       /\ socket[p].read \in Shown \cup {NoFeed}
       /\ (socket[p].read # NoFeed) = (socket[p].pc = "scoping")
       /\ \A i \in DOMAIN socket[p].wire : socket[p].wire[i] \in Shown
       /\ page[p].shown \in Shown \cup {NoFeed}
       /\ page[p].live => page[p].shown # NoFeed

\* Consumers always hold a complete picture and there is no merging: a live page
\* never goes back to an older snapshot than it showed, over reconnections and a
\* first paint that comes late.
NeverGoesBack ==
  [][\A p \in Pages : page[p].live => page'[p].shown.at >= page[p].shown.at]_feedVars

\* No publication is missed: once the outside rests, every page ends up with the feed
\* as it then is, through breaks, lag and the daemon's failures - as far as what the
\* viewer may see does not change.
UpToDate(p) ==
  /\ page[p].shown # NoFeed
  /\ page[p].shown.feed.health = (IF outside.up THEN "ok" ELSE "error")
  /\ page[p].shown.feed.rows = (IF outside.up THEN outside.rows ELSE {})
  /\ page[p].shown.feed.pods \cap outside.permitted = outside.pods \cap outside.permitted

KeepsUp ==
  \A permitted \in SUBSET Projects, p \in Pages :
    [](outside.permitted = permitted) => <>[]UpToDate(p)

=============================================================================
