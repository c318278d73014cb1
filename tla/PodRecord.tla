------------------------------ MODULE PodRecord ------------------------------
(***************************************************************************)
(* What the console itself keeps of a pod, because nobody else does: the   *)
(* runs of a container before the current one (kubernetes/logruns.rs) and  *)
(* the samples of its node's kubelet (stats.rs).  Both are read on a timer *)
(* while the pod restarts, is put back under its name, or is not answered  *)
(* for.                                                                    *)
(***************************************************************************)
EXTENDS Naturals, Sequences, SequencesExt

CONSTANT None

VARIABLES
  card,             \* "runs" or "stats"
  world

vars == <<card, world>>

KEEP == 2           \* runs kept of a container (five in the program)
MaxRestarts == 4    \* times a container restarts
MaxPods == 2        \* pods there are under the one name
WINDOW == 2         \* how far back a page may ask, in scrapes
Extra == 1          \* samples kept beyond the window (four in the program)
MaxTime == 5        \* when a behaviour ends

\* The container as it is, as the cache has it, the record, and the answer waited for.
NoRuns == [pod |-> [uid |-> 1, rc |-> 0], held |-> None, tracks |-> <<None, None>>, job |-> None]

\* Samples of the pod's counter, what the last scrape said, when the record began.
NoStats == [now |-> 1, due |-> TRUE, pod |-> [uid |-> 1, cpu |-> 0], placed |-> TRUE, samples |-> None,
            read |-> None, since |-> None, answered |-> {}, host |-> FALSE, serves |-> {}]

Init ==
  \/ card = "runs"  /\ world = NoRuns
  \/ card = "stats" /\ \E host \in BOOLEAN, serves \in SUBSET {"network"} :
                         world = [NoStats EXCEPT !.host = host, !.serves = serves]

-----------------------------------------------------------------------------
(* The runs of a container. *)

\* The container's run ends and another begins; the node keeps the one before.
Restart ==
  /\ card = "runs" /\ world.pod.rc < MaxRestarts
  /\ world' = [world EXCEPT !.pod.rc = @ + 1]
  /\ UNCHANGED card

\* A pod of a StatefulSet is put back under its name.
Replace ==
  /\ card = "runs" /\ world.pod.uid < MaxPods
  /\ world' = [world EXCEPT !.pod = [uid |-> @.uid + 1, rc |-> 0]]
  /\ UNCHANGED card

\* The watch catches up, or says between two pods that there is none.
Observe ==
  /\ card = "runs"
  /\ \E held \in {world.pod, None} : world' = [world EXCEPT !.held = held]
  /\ UNCHANGED card


Missed(t, rc) == rc - t.last - 1

\* due: who is gone takes its record with it; a count that moved is fetched for, and
\* one seen for the first time with a count already.
Due(w) ==
  LET live == IF w.held = None THEN {} ELSE {w.held.uid}
      kept == [u \in DOMAIN w.tracks |-> IF u \in live THEN w.tracks[u] ELSE None]
  IN  IF live = {} THEN [w EXCEPT !.tracks = kept]
      ELSE LET u == w.held.uid
               rc == w.held.rc
               t == kept[u]
               job(missed) == [uid |-> u, rc |-> rc, missed |-> missed]
           IN  [w EXCEPT
                  !.tracks = [kept EXCEPT ![u] = IF t = None THEN [last |-> rc, runs |-> <<>>]
                                                 ELSE [t EXCEPT !.last = IF rc > t.last THEN rc ELSE t.last]],
                  !.job = CASE t = None              -> IF rc > 0 THEN job(0) ELSE None
                            [] t # None /\ rc > t.last -> job(Missed(t, rc))
                            [] OTHER                   -> None]

Look ==
  /\ card = "runs" /\ world.job = None
  /\ world' = Due(world)
  /\ UNCHANGED card

\* keep: the newest at the end, the oldest gone first.
Keep(runs, run) ==
  LET all == Append(runs, run) IN SubSeq(all, IF Len(all) > KEEP THEN Len(all) - KEEP + 1 ELSE 1, Len(all))

\* `previous` is asked for by the pod's name, so it is answered for whoever has that
\* name now, with the run before the one that is now.
Fetch ==
  /\ card = "runs" /\ world.job # None
  /\ \/ /\ world.pod.rc > 0
        /\ LET run == [run |-> world.job.rc - 1, missed |-> world.job.missed,
                       of |-> world.pod.uid, text |-> world.pod.rc - 1]
           IN  world' = [world EXCEPT !.job = None, !.tracks[world.job.uid].runs = Keep(@, run)]
     \/ world' = [world EXCEPT !.job = None]      \* not kept: refused, or not there
  /\ UNCHANGED card

\* The pod's page: the runs kept under the uid it shows.
RunsOf(w) ==
  IF w.held = None \/ w.tracks[w.held.uid] = None THEN <<>> ELSE w.tracks[w.held.uid].runs

\* One kept run is asked for by its number: the first that has it.
RunText(w, n) ==
  LET hits == {i \in DOMAIN RunsOf(w) : RunsOf(w)[i].run = n}
  IN  IF hits = {} THEN None ELSE RunsOf(w)[CHOOSE i \in hits : \A j \in hits : i <= j]

-----------------------------------------------------------------------------
(* The samples of its kubelet. *)

Tick ==
  /\ card = "stats" /\ world.now < MaxTime
  /\ \E used \in 0..1 :
       world' = [world EXCEPT !.now = @ + 1, !.due = TRUE, !.pod.cpu = IF @ < 2 THEN @ + used ELSE @]
  /\ UNCHANGED card

\* Its counter starts over with it.
Recreate ==
  /\ card = "stats" /\ world.pod.uid < MaxPods
  /\ world' = [world EXCEPT !.pod = [uid |-> @.uid + 1, cpu |-> 0]]
  /\ UNCHANGED card

Place ==
  /\ card = "stats"
  /\ world' = [world EXCEPT !.placed = ~@]
  /\ UNCHANGED card

Retained(samples, now) ==
  IF samples = None \/ now - Last(samples).at > WINDOW THEN None ELSE samples

\* record: the newest sample at the end, no more than the window's worth and some.
Record(samples, s) ==
  LET all == Append(IF samples = None THEN <<>> ELSE samples, s)
      most == WINDOW + Extra
  IN  SubSeq(all, IF Len(all) > most THEN Len(all) - most + 1 ELSE 1, Len(all))

\* What one answer says of the pod; what the kubelet does not serve is not there, and
\* never nothing.
Sample(w) ==
  [at |-> w.now, cpu |-> w.pod.cpu, of |-> w.pod.uid,
   network |-> IF w.host THEN {} ELSE w.serves]

\* One scrape of its node, then what is older than the window forgotten.  The next is
\* not before the interval is over, which is a tick.
Scrape ==
  /\ card = "stats" /\ world.due
  /\ \E answer \in {"ok", "without it", "refused", "silent"} :
       LET has == answer = "ok" /\ world.placed
           said == answer \in {"ok", "without it"}
           now == IF has THEN Record(world.samples, Sample(world)) ELSE world.samples
       IN  world' = [world EXCEPT
                       !.samples = Retained(now, world.now),
                       !.read = IF said THEN "ok" ELSE answer,
                       !.since = IF said /\ @ = None THEN world.now ELSE @,
                       !.answered = IF has THEN @ \cup {world.now} ELSE @,
                       !.due = FALSE]
  /\ UNCHANGED card

\* A counter that went back has no rate there.
Rate(a, b) == IF b.at > a.at /\ b.cpu >= a.cpu THEN b.cpu - a.cpu ELSE None

\* series: the samples of the window, each with the rate since the one before it, be
\* that outside the window.
Series(samples, from) ==
  LET rate(i) == IF i = 1 THEN None ELSE Rate(samples[i - 1], samples[i])
  IN  {[at |-> samples[i].at, rate |-> rate(i)] : i \in {j \in DOMAIN samples : samples[j].at >= from}}

\* What no sample has, and why.
Missing(w) ==
  IF w.host THEN {"the node's own network"}
  ELSE IF \E i \in DOMAIN w.samples : w.samples[i].network # {} THEN {} ELSE {"no interface"}

\* view: the series, or why there is none.
View(w, window) ==
  CASE w.samples # None -> [available |-> TRUE, missing |-> Missing(w),
                            points |-> Series(w.samples, IF w.now > window THEN w.now - window ELSE 0)]
    [] w.samples = None -> [available |-> FALSE,
                            reason |-> CASE ~w.placed -> "not on a node"
                                         [] w.placed /\ w.read = None -> "not read yet"
                                         [] w.placed /\ w.read = "ok" -> "none for this pod yet"
                                         [] OTHER -> w.read]

-----------------------------------------------------------------------------
Next ==
  \/ Restart \/ Replace \/ Observe \/ Look \/ Fetch
  \/ Tick \/ Recreate \/ Place \/ Scrape

Spec == Init /\ [][Next]_vars

\* What is shown of a pod's earlier runs: of this pod and of no other that had its name,
\* once the cache has it; in order, none twice, never a run before the one it is called,
\* and of those in between never more called missed than there were.
RunsAreItsOwn ==
  LET runs == RunsOf(world) IN
  card = "runs" =>
    /\ \A i \in DOMAIN runs :
         /\ world.held.uid = world.pod.uid => runs[i].of = world.pod.uid
         /\ runs[i].of = world.held.uid => runs[i].text >= runs[i].run
         /\ RunText(world, runs[i].run) = runs[i]
    /\ \A i \in DOMAIN runs : i > 1 =>
         /\ runs[i].run > runs[i - 1].run
         /\ runs[i].run - runs[i - 1].run - 1 >= runs[i].missed

\* A chart is whole: each answer of the window is a point of it, though what is kept is
\* counted and not timed; a pod nobody answered for in the window has none, and a chart
\* that names no gap in the network has points of it.
WindowIsWhole ==
  LET v == View(world, WINDOW) IN
  card = "stats" =>
    IF v.available
      THEN /\ {t \in world.answered : t + WINDOW >= world.now} = {p.at : p \in v.points}
           /\ v.missing = {} <=> ~world.host /\ world.serves # {}
      ELSE ~\E t \in world.answered : t + WINDOW >= world.now

=============================================================================
