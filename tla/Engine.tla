------------------------------- MODULE Engine --------------------------------
(***************************************************************************)
(* The block engine's pages (plugins/stormblock): the rows of a poll, the  *)
(* page of RAID sets made of four lists read at once, the volumes on each  *)
(* drive, and what a volume runs on, whose image's digest may be costly to *)
(* ask for.  The engine is external.                                       *)
(***************************************************************************)
EXTENDS Naturals, FiniteSets

CONSTANT None       \* not there, not said

VARIABLES
  card,             \* "poll", "raid", "placement" or "image"
  world

vars == <<card, world>>

Catalog == INSTANCE Registry

-----------------------------------------------------------------------------
(* What the engine can say.                                                *)

Volumes == 1..2
SetStates == {"clean", "rebuilding", "degraded", "failed"}

\* A volume of an engine that says what it is and who uses it, or of one before that.
EngineVolumes ==
  [kind : {"volume", "golden"}, sealed : {FALSE}, parent : BOOLEAN, use : BOOLEAN, served : BOOLEAN, health : {"healthy", "degraded"}]
  \cup [kind : {None}, sealed : BOOLEAN, parent : BOOLEAN, use : {None}, served : {FALSE}, health : {"healthy", "failed"}]

Slabs == [total : {0, 100}, free : {0, 4, 14, 15}, serial : {None, "s1", "s2"}]
EngineSlabs == {s \in Slabs : s.free <= s.total}

EngineDrives ==
  [offer : {None, "ours", "blank", "foreign"}, confirm : BOOLEAN, system : BOOLEAN]

Members == {"active", "spare", "rebuilding", "degraded", "failed"}

QuietVolume == [kind |-> "volume", sealed |-> FALSE, parent |-> FALSE, use |-> TRUE, served |-> TRUE, health |-> "healthy"]
QuietSlab == [total |-> 100, free |-> 15, serial |-> "s1"]
QuietDrive == [offer |-> None, confirm |-> FALSE, system |-> FALSE]

Polled(vols, sets, slabs, drive, member) ==
  [vols |-> vols, sets |-> sets, slabs |-> slabs, drive |-> drive, member |-> member, raid |-> None, page |-> None]

Lists == {"shelves", "arrays", "spares", "drives"}
Drives == {"d1", "d2"}
Unread == [l \in Lists |-> [was |-> "unread", is |-> {}]]

Hold == 3           \* ticks an image that did not answer is left alone (300 s in the program)
Budget == 1         \* ticks an ask waits (3 s)
MaxTime == 6        \* bound on the clock
Pages == {"p1", "p2"}

Init ==
  \/ card = "poll" /\ \E vol \in EngineVolumes, set \in SetStates \cup {None} :
       world = Polled(<<vol, QuietVolume>>, <<set, "clean">>, <<QuietSlab, QuietSlab>>, QuietDrive, "active")
  \/ card = "poll" /\ \E set1, set2 \in SetStates \cup {None}, member \in Members, drive \in EngineDrives :
       world = Polled(<<QuietVolume, QuietVolume>>, <<set1, set2>>, <<QuietSlab, QuietSlab>>, drive, member)
  \/ card = "poll" /\ \E slab1, slab2 \in EngineSlabs :
       world = Polled(<<QuietVolume, QuietVolume>>, <<"clean", "clean">>, <<slab1, slab2>>, QuietDrive, "active")
  \/ card = "raid" /\ \E of \in [Drives -> {"nobody", "spare", "member"}], shelf \in BOOLEAN :
       world = [of |-> of, shelf |-> shelf, read |-> Unread, moved |-> FALSE, page |-> None]
  \/ card = "placement" /\ \E on \in [Volumes -> {None} \cup [Drives -> SUBSET {"ok", "failed", "draining"}]] :
       world = [on |-> on, kept |-> None]
  \/ card = "image" /\ \E vols \in Catalog!Listings : world = [vols |-> vols]
  \/ card = "digest" /\ world = [clock |-> 0, held |-> None, gave |-> None,
                                 ask |-> [p \in Pages |-> [at |-> None, after |-> None]]]

-----------------------------------------------------------------------------
(* The rows of a poll.                                                     *)

\* volume_kind: the engine's word first, else what is sealed and what has a parent.
VolumeKind(v) ==
  CASE v.kind = "volume" -> IF v.parent THEN "clone" ELSE "volume"
    [] v.kind = None     -> IF v.sealed THEN "golden" ELSE IF v.parent THEN "clone" ELSE "volume"
    [] OTHER             -> v.kind

\* place: an image, or a volume that something uses, that nothing does, or of which it is not said.
Place(v) ==
  CASE (IF v.kind # None THEN v.kind # "volume" ELSE v.sealed) -> "image"
    [] OTHER -> CASE v.use = None -> "volume" [] v.use = TRUE -> "attached" [] v.use = FALSE -> "unattached"

\* volume: a button that can only fail is not offered.
VolumeRow(v) ==
  [kind |-> VolumeKind(v), place |-> Place(v),
   health |-> CASE v.health = "healthy" -> "ok" [] v.health = "degraded" -> "warn" [] OTHER -> "error",
   attached |-> CASE v.served -> "served"
                  [] v.use = FALSE /\ ~v.served /\ Place(v) # "image" -> "nothing"
                  [] OTHER -> None,
   delete |-> v.use # TRUE]

\* slab: how full it is.
SlabHealth(s) ==
  CASE s.total = 0 -> "unknown"
    [] s.total # 0 /\ s.free * 100 < s.total * 5 -> "error"
    [] s.total # 0 /\ s.free * 100 >= s.total * 5 /\ s.free * 100 < s.total * 15 -> "warn"
    [] OTHER -> "ok"

\* drive_use: the slabs of each drive that is named, with what they have free.
DriveUse(slabs) ==
  [serial \in {slabs[i].serial : i \in DOMAIN slabs} \ {None} |->
     LET mine == {i \in DOMAIN slabs : slabs[i].serial = serial}
     IN  [slabs |-> Cardinality(mine),
          free |-> (IF 1 \in mine THEN slabs[1].free ELSE 0) + (IF 2 \in mine THEN slabs[2].free ELSE 0)]]

Rank(state) == CASE state = "failed" -> 3 [] state = "degraded" -> 2 [] state = "rebuilding" -> 1 [] OTHER -> 0

\* worst: of the sets that say their state; of several as bad, the last.
Worst(sets) ==
  LET say == {i \in DOMAIN sets : sets[i] # None}
      bad == {i \in say : \A j \in say : Rank(sets[j]) <= Rank(sets[i])}
  IN  IF say = {} THEN None ELSE sets[CHOOSE i \in bad : \A j \in bad : j <= i]

RaidHealth(state) == CASE state \in {"clean", None} -> "ok" [] state = "failed" -> "error" [] OTHER -> "warn"

\* array_members: only a member that is in use is there to be failed; which drive replaces
\* one is for another page, so that is never enabled here.
MemberRow(state) ==
  [health |-> CASE state \in {"active", "spare"} -> "ok" [] state = "failed" -> "error" [] OTHER -> "warn",
   fail |-> state = "active", replace |-> FALSE]

\* drive: offered to be formatted with a word to type, unless the system is on it.
DriveRow(d) ==
  LET offered == d.offer \in {"blank", "foreign"}
  IN  [offered |-> offered, format |-> offered /\ d.confirm /\ ~d.system]

\* The engine's card: a set that is not clean is its health too.
EngineHealth(rows, state) ==
  CASE RaidHealth(state) = "error" -> "error"
    [] RaidHealth(state) # "error" /\ ((\E v \in DOMAIN rows : rows[v].health # "ok") \/ RaidHealth(state) = "warn") -> "warn"
    [] OTHER -> "ok"

\* poll: without the volumes there is a card that says so; any other list that does not
\* answer is empty.  What the node's row is told of the sets is left when it is not reached.
Poll ==
  /\ card = "poll"
  /\ \E volumes, arrays, slabs \in BOOLEAN :
       LET sets == IF arrays THEN world.sets ELSE <<>>
           held == IF slabs THEN world.slabs ELSE <<>>
           rows == [v \in Volumes |-> VolumeRow(world.vols[v])]
       IN  world' = IF ~volumes THEN [world EXCEPT !.page = [health |-> "error", rows |-> <<>>]]
                    ELSE [world EXCEPT
                            !.raid = Worst(sets),
                            !.page = [health |-> EngineHealth(rows, Worst(sets)), rows |-> rows, raid |-> Worst(sets),
                                      sets |-> [i \in DOMAIN sets |-> RaidHealth(sets[i])],
                                      slabs |-> [i \in DOMAIN held |-> SlabHealth(held[i])], use |-> DriveUse(held),
                                      drive |-> DriveRow(world.drive),
                                      members |-> IF arrays THEN {MemberRow(world.member)} ELSE {}]]
  /\ UNCHANGED card

-----------------------------------------------------------------------------
(* The RAID sets page.                                                     *)

Of(who) == {d \in Drives : world.of[d] = who}

\* The engine: a blank drive is made a spare, a spare takes a member's place, a member is lost.
Move(d) ==
  /\ card = "raid"
  /\ \E to \in {"nobody", "spare", "member"} :
       /\ <<world.of[d], to>> \in {<<"nobody", "spare">>, <<"spare", "member">>, <<"member", "nobody">>}
       /\ world' = [world EXCEPT !.of[d] = to, !.moved = @ \/ world.read # Unread]
  /\ UNCHANGED card

\* raid_route asks for all four at once: each is answered at a time of its own, or not.
ReadList(l) ==
  /\ card = "raid" /\ world.page = None /\ world.read[l].was = "unread"
  /\ \E answered \in BOOLEAN :
       world' = [world EXCEPT !.read[l] =
                   IF ~answered THEN [was |-> "failed", is |-> {}]
                   ELSE [was |-> "answered",
                         is |-> CASE l = "spares" -> Of("spare") [] l = "drives" -> Drives [] OTHER -> Of("member")]]
  /\ UNCHANGED card

\* A list that did not answer is taken for an empty one.
Default(list) == list.is

\* set_view: a set's members, wherever the set is.
SetView(members) == [members |-> members]

\* view: the shelves' sets from one list and the sets of no shelf from another; free is what
\* is offered blank and is neither a spare nor in a set.
View(read, shelf) ==
  LET arrays == Default(read["arrays"])
  IN  [shelves |-> IF shelf /\ read["shelves"].was = "answered" THEN {SetView(read["shelves"].is)} ELSE {},
       arrays |-> IF shelf THEN {} ELSE {SetView(arrays)},
       free |-> Default(read["drives"]) \ (Default(read["spares"]) \cup arrays)]

RaidAnswer ==
  /\ card = "raid" /\ world.page = None /\ \A l \in Lists : world.read[l].was # "unread"
  /\ world' = [world EXCEPT !.page = IF world.read["arrays"].was = "failed" THEN [error |-> TRUE]
                                     ELSE [error |-> FALSE, view |-> View(world.read, world.shelf)]]
  /\ UNCHANGED card

-----------------------------------------------------------------------------
(* The volumes on each drive.                                              *)

\* The worst of a volume's slabs on one drive.
WorstOf(states) ==
  CASE "failed" \in states -> "failed"
    [] "failed" \notin states /\ "draining" \in states -> "draining"
    [] OTHER -> "ok"

\* by_drive: the engine's placements turned inside out.
ByDrive(on) ==
  LET placed == {v \in Volumes : on[v] # None}
      at(d) == {v \in placed : on[v][d] # {}}
  IN  [placed |-> Cardinality(placed),
       drives |-> [d \in {x \in Drives : at(x) # {}} |-> {[volume |-> v, state |-> WorstOf(on[v][d])] : v \in at(d)}]]

\* placement_route: the answer, also that there was none, is kept for a while.
AskPlacement ==
  /\ card = "placement" /\ world.kept = None
  /\ \E answered \in BOOLEAN :
       world' = [world EXCEPT !.kept = IF answered THEN [error |-> FALSE, by |-> ByDrive(world.on)]
                                       ELSE [error |-> TRUE, by |-> [placed |-> 0, drives |-> <<>>]]]
  /\ UNCHANGED card

PlacementAges ==
  /\ card = "placement" /\ world.kept # None
  /\ world' = [world EXCEPT !.kept = None]
  /\ UNCHANGED card

-----------------------------------------------------------------------------
(* What a volume runs on.                                                  *)

\* image_of: the nearest sealed volume, past a machine's own; None where there is none.
ImageOf(vols, v) ==
  LET sealed == {x \in DOMAIN vols : vols[x].is \in {"image", "host"}}
      listed == {x \in DOMAIN vols : vols[x].is # "gone"}
      from[n \in 0..Catalog!Steps, x \in DOMAIN vols] ==
        LET p == vols[x].parent IN
        CASE n = Catalog!Steps \/ p \notin listed -> None
          [] n < Catalog!Steps /\ p \in listed /\ vols[p].is = "image" -> p
          [] OTHER -> from[n + 1, p]
  IN  IF v \in sealed THEN v ELSE from[0, v]

\* may_ask: not while an image that did not answer is left alone.
MayAsk(p) ==
  /\ card = "digest" /\ world.ask[p].at = None
  /\ LET held == IF world.held # None /\ world.clock - world.held >= Hold THEN None ELSE world.held IN
     /\ held = None
     /\ world' = [world EXCEPT !.held = held, !.ask[p] = [at |-> world.clock, after |-> world.gave]]
  /\ UNCHANGED card

\* cloned_from: the digest came in its budget.
Digest(p) ==
  /\ card = "digest" /\ world.ask[p].at # None
  /\ world' = [world EXCEPT !.ask[p] = [at |-> None, after |-> None]]
  /\ UNCHANGED card

\* started: it did not, and the engine's read goes on.
Started(p) ==
  /\ card = "digest" /\ world.ask[p].at # None
  /\ world' = [world EXCEPT !.held = world.ask[p].at, !.ask[p] = [at |-> None, after |-> None],
                            !.gave = IF @ = None \/ @ < world.ask[p].at THEN world.ask[p].at ELSE @]
  /\ UNCHANGED card

Tick ==
  /\ card = "digest" /\ world.clock < MaxTime
  /\ \A p \in Pages : world.ask[p].at # None => world.clock - world.ask[p].at < Budget
  /\ world' = [world EXCEPT !.clock = @ + 1]
  /\ UNCHANGED card

-----------------------------------------------------------------------------
Next ==
  \/ Poll
  \/ \E d \in Drives : Move(d)
  \/ \E l \in Lists : ReadList(l)
  \/ RaidAnswer
  \/ AskPlacement \/ PlacementAges
  \/ \E p \in Pages : MayAsk(p) \/ Digest(p) \/ Started(p)
  \/ Tick

Spec == Init /\ [][Next]_vars

-----------------------------------------------------------------------------
(* Properties.                                                             *)

Reached == card = "poll" /\ world.page # None /\ world.page.rows # <<>>

\* The engine takes what its rows offer: it deletes no volume that is in use, fails no member
\* that is not active, and formats neither its own drives nor the system's.
OfferedIsTaken ==
  Reached =>
    /\ \A v \in Volumes : world.page.rows[v].delete => ~(world.vols[v].use = TRUE)
    /\ \A m \in world.page.members : m.fail => world.member = "active"
    /\ world.page.drive.format => world.drive.offer \notin {None, "ours"} /\ ~world.drive.system

Better(h, than) == <<h, than>> \in {<<"ok", "warn">>, <<"ok", "error">>, <<"warn", "error">>}

\* The engine's card is no better than its sets, nor well where a volume is not; what the
\* node's row is told is what the card says; and the drives are not said to have more
\* free than the slabs have.
PollIsTrue ==
  /\ card = "poll" /\ world.page # None /\ ~Reached => world.page.health = "error"
  /\ Reached =>
       LET page == world.page IN
       /\ \A i \in DOMAIN page.sets : ~Better(page.health, page.sets[i])
       /\ (\E v \in Volumes : page.rows[v].health # "ok") => page.health # "ok"
       /\ world.raid = page.raid
       /\ \A v \in Volumes : page.rows[v].kind = "clone" => page.rows[v].place # "image"
       /\ \A s \in DOMAIN page.use : page.use[s].free <= world.slabs[1].free + world.slabs[2].free
       /\ \A i \in DOMAIN page.slabs : world.slabs[i].serial # None => world.slabs[i].serial \in DOMAIN page.use

\* A drive that is offered as free and is not became somebody's while the lists were read, or
\* is a spare of an engine that did not list them; a set is on the page once, where it belongs.
FreeIsFree ==
  card = "raid" /\ world.page # None /\ ~world.page.error /\ ~world.moved =>
    LET view == world.page.view IN
    /\ view.free \cap Of("member") = {}
    /\ world.read["spares"].was = "answered" => view.free \cap Of("spare") = {}
    /\ world.read["drives"].was = "answered" => Of("nobody") \subseteq view.free
    /\ view.shelves \cup view.arrays \subseteq {SetView(Of("member"))}
    /\ world.read["shelves"].was = "answered" => Cardinality(view.shelves) + Cardinality(view.arrays) = 1

\* Each volume is on every drive that has a leg of it, as bad there as its worst slab, and an
\* engine that did not answer is not one with nothing on its drives.
PlacedIsThere ==
  card = "placement" /\ world.kept # None /\ ~world.kept.error =>
    LET by == world.kept.by IN
    /\ \A v \in Volumes, d \in Drives :
         LET slabs == IF world.on[v] = None THEN {} ELSE world.on[v][d]
             here  == IF d \in DOMAIN by.drives THEN {r \in by.drives[d] : r.volume = v} ELSE {}
         IN  /\ Cardinality(here) = (IF slabs = {} THEN 0 ELSE 1)
             /\ \A r \in here : r.state = "ok" => slabs = {"ok"}
    /\ by.placed = 0 => \A v \in Volumes : world.on[v] = None

\* A volume's image is the one its registry page has it under.
SameImage ==
  card = "image" =>
    \A v \in {x \in DOMAIN world.vols : world.vols[x].is = "clone"} :
      LET up == Catalog!Climb(world.vols, TRUE)[v].image
      IN  ImageOf(world.vols, v) = IF up \in Catalog!ImagesOf(world.vols, TRUE) THEN up ELSE None

\* An image that did not answer is left alone, whichever page asked: the next ask is at least
\* the hold-off later than any that was given up before it, less the budget of one ask.
LeftAlone ==
  card = "digest" =>
    \A p \in Pages : LET ask == world.ask[p] IN
      ask.at # None /\ ask.after # None => ask.at + Budget >= ask.after + Hold

\* What the pages of the engine say is so.
SaidIsSo == PollIsTrue /\ FreeIsFree /\ PlacedIsThere /\ LeftAlone

=============================================================================
