------------------------------ MODULE Registry -------------------------------
(***************************************************************************)
(* The registry's pages (plugins/sbregistry): who holds what, worked out   *)
(* from the engine's volumes, the machines' claims and the catalog, and    *)
(* the registry's card with its catalog and the fetches under way, from a  *)
(* registry that is warming up, refuses, or is not there.                  *)
(***************************************************************************)
EXTENDS Naturals, FiniteSets

CONSTANT None

VARIABLES
  card,             \* "holdings" or "registry"
  world

vars == <<card, world>>

Volumes == 1..4
NoVolume == 0
Gone == 5            \* in place of an image: a volume the engine has not got
Steps == 6          \* how far up a volume's parents are followed (64 in the program)

\* Each volume the engine lists: a sealed image, a machine's own sealed image or a clone,
\* what it was made from, and who holds it.
Vol(is, parent, held) == [is |-> is, parent |-> parent, held |-> held]

Held == {"machine", "hidden", "open", "nobody"}

Listings ==
  {<<first, second, third, fourth>> :
     first \in {Vol("image", NoVolume, None), Vol("gone", NoVolume, None)},
     second \in {Vol("image", p, None) : p \in {NoVolume, 1}} \cup {Vol("host", 1, None)}
                  \cup {Vol("clone", p, h) : p \in {NoVolume, 1, 3}, h \in {"hidden", "nobody"}},
     third \in {Vol("clone", p, h) : p \in {NoVolume, 1, 2, 4}, h \in Held},
     fourth \in {Vol("clone", p, h) : p \in {2, 3}, h \in {"hidden", "open"}}}

Init ==
  \/ card = "holdings" /\ \E vols \in Listings : world = [vols |-> vols, kept |-> None]
  \/ card = "registry" /\ world = [health |-> "unknown", note |-> FALSE, rows |-> {}, said |-> None]

-----------------------------------------------------------------------------
(* Who holds what.                                                         *)

\* machines: a machine's own image is known for one by the machines' list alone.
HostImages(vols, hosts) == {v \in Volumes : vols[v].is = "host" /\ hosts}

\* holder: the machine whose claim it is, who owns it, or nobody; a boot clone that is not
\* being served has the machines' list alone to say so.
Holder(vols, hosts, v) ==
  IF vols[v].held = "machine" /\ ~hosts THEN "nobody" ELSE vols[v].held

ImagesOf(vols, hosts) == {v \in Volumes : vols[v].is \in {"image", "host"}} \ HostImages(vols, hosts)

Listed(vols) == {v \in Volumes : vols[v].is # "gone"}

\* Up to the image: the image, NoVolume for one made empty or for parents that go round,
\* Gone where the engine has no such volume; and the clones passed on the way.
Climb(vols, hosts) ==
  LET images == ImagesOf(vols, hosts)
      from[n \in 0..Steps, p \in Volumes \cup {NoVolume}] ==
        CASE p = NoVolume \/ n = Steps       -> [image |-> NoVolume, via |-> {}]
          [] n < Steps /\ p \in images       -> [image |-> p, via |-> {}]
          [] n < Steps /\ p # NoVolume /\ p \notin Listed(vols) -> [image |-> Gone, via |-> {}]
          [] OTHER -> LET up == from[n + 1, vols[p].parent]
                      IN  [up EXCEPT !.via = IF p \in HostImages(vols, hosts) THEN @ ELSE @ \cup {p}]
  IN  [v \in Volumes |-> from[0, vols[v].parent]]

\* build: a clone of each volume that was made from something, and the counts.
Build(vols, hosts) ==
  LET up == Climb(vols, hosts)
      clones == {[id |-> v, name |-> v, image |-> up[v].image, via |-> up[v].via, holder |-> Holder(vols, hosts, v), withheld |-> FALSE]
                   : v \in {c \in Volumes : vols[c].is = "clone" /\ up[c].image # NoVolume}}
      in(i) == {c \in clones : c.image = i}
  IN  [clones |-> clones,
       images |-> [i \in ImagesOf(vols, hosts) |->
                     [clones |-> Cardinality(in(i)),
                      orphans |-> Cardinality({c \in in(i) : c.holder = "nobody"}),
                      builtOnIt |-> Cardinality({v \in ImagesOf(vols, hosts) : vols[v].parent = i})]],
       unparented |-> in(Gone)]

\* for_viewer: a holder in a project they may not see is counted and not named.
ForViewer(h, hidden) ==
  LET scrub(c) == IF hidden /\ c.holder = "hidden"
                  THEN [c EXCEPT !.name = None, !.via = {}, !.holder = "somebody", !.withheld = TRUE] ELSE c
  IN  [h EXCEPT !.clones = {scrub(c) : c \in @}, !.unparented = {scrub(c) : c \in @}]

\* read_holdings: the engine's volumes, without which there is nothing to show; the
\* machines, without whom it is said that boot clones look like nobody's.
ReadHoldings ==
  /\ card = "holdings" /\ world.kept = None
  /\ \E engine, hosts \in BOOLEAN :
       world' = [world EXCEPT !.kept = IF engine THEN [error |-> FALSE, noted |-> ~hosts, holdings |-> Build(world.vols, hosts)]
                                       ELSE [error |-> TRUE]]
  /\ UNCHANGED card

HoldingsAge ==
  /\ card = "holdings" /\ world.kept # None
  /\ world' = [world EXCEPT !.kept = None]
  /\ UNCHANGED card

-----------------------------------------------------------------------------
(* The registry's card.                                                    *)

\* readiness: ready with a step of the warm-up failed is a warning.
Readiness(ready) == IF ready \in {"step failed", "not ready"} THEN "warn" ELSE "ok"

Active(phase) == phase \in {"fetching", "importing", "failed"}

Progress(phase) == CASE phase = "failed" -> "error" [] phase \in {"fetching", "importing"} -> "warn" [] OTHER -> "ok"

\* image: what a fetch of it says comes before what is sealed.
ImageRow(sealed, job) ==
  [row |-> "image", job |-> Active(job), health |-> IF Active(job) THEN Progress(job) ELSE IF sealed THEN "ok" ELSE "warn"]

\* orphan_job: a fetch with no image to belong to yet.
OrphanJob(job, known) ==
  IF Active(job) /\ ~known THEN {[row |-> "job", job |-> TRUE, health |-> Progress(job)]} ELSE {}

\* repository_rows: a row for each repository the engine's answer told of.
RepositoryRows(engine) == IF engine THEN {[row |-> "repository", job |-> FALSE, health |-> "ok"]} ELSE {}

\* refused: a 401 or a 403 is said in words; the catalog says any other failure too.
Refused(answer) == answer = "refused"
CatalogNote(catalog) == catalog \notin {"listed", "without it"}

\* items: a list, and the first refusal among the lists.
Items(answer, list, nothing) == IF answer = "listed" THEN list ELSE nothing

\* poll: whether it is ready, its catalog, its fetches, and its other lists; the engine's
\* answer is there whether or not the registry is.  A refusal of any of them is noted.
\* Nothing of the poll before is left, so one is enough.
PollRegistry ==
  /\ card = "registry" /\ world.said = None
  /\ \E ready \in {"ready", "warming", "step failed", "not ready", "unreachable"},
        catalog \in {"listed", "without it", "predates", "refused", "failing", "silent"},
        jobs \in {"listed", "refused", "silent"}, job \in {"fetching", "failed", "done"},
        lists \in {"listed", "refused"}, sealed, engine \in BOOLEAN :
       LET repos == RepositoryRows(engine)
           known == catalog = "listed"
           fetched == Items(jobs, job, "done")
           note == CatalogNote(catalog) \/ Refused(jobs) \/ Refused(lists)
           said == [ready |-> ready, catalog |-> catalog, jobs |-> jobs, job |-> job, lists |-> lists, engine |-> engine]
       IN  world' = IF ready = "unreachable"
                      THEN [health |-> "error", note |-> FALSE, rows |-> repos, said |-> said]
                      ELSE [health |-> IF note /\ Readiness(ready) = "ok" THEN "warn" ELSE Readiness(ready), note |-> note,
                            rows |-> repos \cup (IF known THEN {ImageRow(sealed, fetched)} ELSE {}) \cup OrphanJob(fetched, known),
                            said |-> said]
  /\ UNCHANGED card

-----------------------------------------------------------------------------
Next == ReadHoldings \/ HoldingsAge \/ PollRegistry

Spec == Init /\ [][Next]_vars

Answered == card = "holdings" /\ world.kept # None /\ ~world.kept.error

\* Every clone is in one place, where what it was made from is, and in no place if it was
\* made empty, however its parents go; an image's counts are of its clones; a machine's
\* clone is nobody's only where it is said that the machines could not be read.
HoldersAreTrue ==
  Answered =>
    LET h == world.kept.holdings
        place(v) == {c \in h.clones : c.id = v}
        clones == {v \in Volumes : world.vols[v].is = "clone"}
    IN  /\ \A v \in clones :
             LET p == world.vols[v].parent IN
             /\ Cardinality(place(v)) <= 1
             /\ p \in DOMAIN h.images => {c.image : c \in place(v)} = {p}
             /\ p \in clones => {c.image : c \in place(v)} = {c.image : c \in place(p)}
             /\ p = NoVolume => place(v) = {}
        /\ h.unparented = {c \in h.clones : c.image \notin DOMAIN h.images}
        /\ \A i \in DOMAIN h.images :
             h.images[i].clones = Cardinality({c \in h.clones : c.image = i}) /\ h.images[i].orphans <= h.images[i].clones
        /\ \A c \in h.clones : c.holder = "nobody" => world.vols[c.id].held = "nobody" \/ world.kept.noted

\* A clone whose holder is not this viewer's to see is not named in a row of its own, though
\* the answer is kept for everyone, and every clone is counted.  A hidden
\* clone's name among what a visible one was made through (`via`) is not covered: it IS sent
\* (holdings.rs:308, against 352-353).
HoldersHidden ==
  Answered =>
    LET h == world.kept.holdings
        seen == ForViewer(h, TRUE)
    IN  /\ \A c \in seen.clones \cup seen.unparented : c.name # None => world.vols[c.name].held # "hidden"
        /\ seen.images = h.images
        /\ {<<c.id, c.image>> : c \in seen.clones} = {<<c.id, c.image>> : c \in h.clones}
        /\ ForViewer(h, FALSE) = h

\* A registry that refuses never looks empty and well; a fetch under way, or one that
\* failed, is on one row, whatever the catalog has of it; and what the engine alone can
\* say is there without the registry.
RefusalIsSaid ==
  card = "registry" /\ world.said # None =>
    LET s == world.said IN
    /\ s.ready # "unreachable" /\ {s.catalog, s.jobs, s.lists} \cap {"refused", "failing", "predates"} # {}
         => world.note /\ world.health # "ok"
    /\ s.ready = "unreachable" => world.health = "error"
    /\ s.ready # "unreachable" /\ s.jobs = "listed" /\ Active(s.job)
         => Cardinality({r \in world.rows : r.job}) = 1 /\ \A r \in world.rows : r.job => r.health = Progress(s.job)
    /\ s.engine => \E r \in world.rows : r.row = "repository"

=============================================================================
