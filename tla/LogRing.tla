------------------------------- MODULE LogRing -------------------------------
(***************************************************************************)
(* The fleet log ring (the logs plugin's store.rs, collector.rs, lib.rs).  *)
(*                                                                         *)
(* One redb file holds the entries in receive order, an index of the entry *)
(* each line occupies, and aggregates kept in step with both.  Two tasks   *)
(* use it: the collector stores batches of lines and announces them to     *)
(* followers, the sweeper prunes on a timer.  Every operation is one       *)
(* transaction; an I/O error poisons the handle until some operation       *)
(* closes it, reopens the file and sheds half.  Making room on the disk is *)
(* a count, a shed and a compaction, each on its own.  redb, the disk and  *)
(* the clock are external.                                                 *)
(*                                                                         *)
(* A line is its host and its severity; its text, and what fingerprint     *)
(* strips from it, are left out.  The waits RECOVER_EVERY_MS and           *)
(* ROOM_EVERY_MS are over when RecoverWaitEnds and RoomWaitEnds say so.    *)
(***************************************************************************)
EXTENDS Integers, FiniteSets, Sequences, FiniteSetsExt, SequencesExt

CONSTANTS
  Hosts, Severities,
  Cap,            \* entries the ring may hold
  Retain,         \* how long an entry is kept after it was last seen; 0: no limit
  NotifyEvery,    \* NOTIFY_INTERVAL_MS
  PruneEvery,     \* inserts after which the collector prunes (4096)
  RoomEvery,      \* ROOM_EVERY
  BatchMax,       \* BATCH
  ShareBase,      \* a shed takes 1 to ShareBase - 1 parts in ShareBase (10)
  Dedups,         \* the values `dedup` may be configured to,
  FirstDedups,    \* and those of the ring's first boot
  MaxTime, MaxSeq,  \* bounds: instants, and lines received
  Troubles,       \* what may go wrong: of "fault" (an I/O error), "restart", "clock" (set back)
  MaxTrouble      \* bound: how often anything goes wrong

ASSUME RingAssumption ==
  /\ {Cap, PruneEvery, RoomEvery, BatchMax} \subseteq Nat \ {0}
  /\ {Retain, NotifyEvery, MaxTime, MaxSeq, MaxTrouble} \subseteq Nat
  /\ ShareBase \in Nat \ {0, 1}
  /\ Dedups \subseteq BOOLEAN /\ FirstDedups \subseteq Dedups
  /\ Troubles \subseteq {"fault", "restart", "clock"}

VARIABLES
  ring,           \* the file's five tables
  db,             \* the handle: "none" before open, "open", "poisoned", "closed", "dead"
  task,           \* the collector and the sweeper, each in its own operation
  stage,          \* since boot: "opening", "unswept" before the first sweep, "swept"
  since,          \* since_prune
  unsaid,         \* lines stored whose announcement is due: insert_many's result
  care,           \* whether a recovery may be tried, and the hold-off after a futile shed
  dedup, clock, spent

vars == <<ring, db, task, stage, since, unsaid, care, dedup, clock, spent>>

Lines == Hosts \X Severities
Batches == UNION {[1..k -> Lines] : k \in 1..BatchMax}
Tasks == {"collector", "sweeper"}
Idle == [pc |-> "idle", mode |-> "first", at |-> 0, rec |-> 0, batch |-> <<>>,
         force |-> FALSE, n |-> 0]
Fresh == [mayRecover |-> TRUE, holdOff |-> "none"]
NoSummary == [count |-> 0, entries |-> 0]
EmptyRing ==
  [events |-> <<>>, index |-> [l \in Lines |-> 0], hosts |-> [h \in Hosts |-> NoSummary],
   severity |-> [s \in Severities |-> 0], occurrences |-> 0, next |-> 1]
Seqs(r) == DOMAIN r.events

Init ==
  /\ ring = EmptyRing
  /\ db = "none"
  /\ task = [t \in Tasks |-> Idle]
  /\ stage = "opening"
  /\ since = 0
  /\ unsaid = {}
  /\ care = Fresh
  /\ dedup \in FirstDedups
  /\ clock = 0
  /\ spent = [faults |-> 0, crashes |-> 0, back |-> 0]

-----------------------------------------------------------------------------
(* What the transactions do to the tables. *)

\* The entries a line leaves alone: a repeat removes the one it was in.
Kept(r, old, repeat) == Seqs(r) \ (IF repeat THEN {old} ELSE {})

\* Mutant: a repeat is counted in place.
PlaceOfOld(r, old, repeat) == IF repeat THEN old ELSE r.next

\* A line, a repeat too, goes to a fresh seq.
Place(r, old, repeat) == r.next

\* One line of a batch; an index row whose entry is gone counts as a new line.
StoreLine(acc, l, at) ==
  LET r == acc.ring
      old == r.index[l]
      repeat == dedup /\ old \in Seqs(r)
      seq == Place(r, old, repeat)
      notify == ~repeat \/ at - r.events[old].told >= NotifyEvery
      entry == [line |-> l, count |-> 1 + (IF repeat THEN r.events[old].count ELSE 0),
                seen |-> at, told |-> IF notify THEN at ELSE r.events[old].told]
  IN [ring |-> [events |-> [s \in Kept(r, old, repeat) \cup {seq} |->
                              IF s = seq THEN entry ELSE r.events[s]],
                index |-> [r.index EXCEPT ![l] = seq],
                hosts |-> [r.hosts EXCEPT ![l[1]].count = @ + 1,
                                          ![l[1]].entries = @ + (IF repeat THEN 0 ELSE 1)],
                severity |-> [r.severity EXCEPT ![l[2]] = @ + 1],
                occurrences |-> r.occurrences + 1,
                next |-> r.next + 1],
      said |-> IF notify THEN acc.said \cup {l} ELSE acc.said]

Stored(r, batch, at) ==
  FoldLeft(LAMBDA acc, l : StoreLine(acc, l, at), [ring |-> r, said |-> {}], batch)

\* Mutant: only the cap is looked at.
GoneOver(r, now, shed) ==
  LET over == Max({Cardinality(Seqs(r)) - Cap, shed})
  IN {s \in Seqs(r) : Cardinality({t \in Seqs(r) : t < s}) < over}

\* Both bounds and `shed` more, from the oldest entry to the first one still wanted.
Gone(r, now, shed) ==
  LET over == Max({Cardinality(Seqs(r)) - Cap, shed})
      Unwanted(s) == \/ Cardinality({t \in Seqs(r) : t < s}) < over
                     \/ Retain > 0 /\ r.events[s].seen < now - Retain
  IN {s \in Seqs(r) : \A t \in Seqs(r) : t <= s => Unwanted(t)}

\* Mutant: the index row of every line that lost an entry is cleared.
UnindexedLines(r, gone) ==
  [l \in Lines |-> IF \E s \in gone : r.events[s].line = l THEN 0 ELSE r.index[l]]

\* An index row is cleared only if it still points at an entry that goes.
Unindexed(r, gone) == [l \in Lines |-> IF r.index[l] \in gone THEN 0 ELSE r.index[l]]

\* Mutant: an entry counts once, however often its line came.
CountOfEntries(r, V) == Cardinality(V)

\* The arrivals collapsed into some entries.
CountOf(r, V) == MapThenSumSet(LAMBDA s : r.events[s].count, V)

Less(n, k) == Max({0, n - k})

\* One transaction of prune_in; a host without entries loses its row.
Pruned(r, now, shed) ==
  LET gone == Gone(r, now, shed)
      Of(i, x) == {s \in gone : r.events[s].line[i] = x}
      Left(h) == [count |-> Less(r.hosts[h].count, CountOf(r, Of(1, h))),
                  entries |-> Less(r.hosts[h].entries, Cardinality(Of(1, h)))]
  IN [r EXCEPT !.events = [s \in Seqs(r) \ gone |-> r.events[s]],
               !.index = Unindexed(r, gone),
               !.hosts = [h \in Hosts |-> IF Left(h).entries = 0 THEN NoSummary ELSE Left(h)],
               !.severity = [s \in Severities |-> Less(@[s], CountOf(r, Of(2, s)))],
               !.occurrences = Less(@, CountOf(r, gone))]

-----------------------------------------------------------------------------
(* An operation: tried, on an error recovered and tried once more. *)

Up == db \notin {"none", "dead"}
Trying(t, pc) == task[t].pc = pc /\ task[t].mode \in {"first", "retry"}
Goto(t, pc) ==
  task' = [task EXCEPT ![t] = [Idle EXCEPT !.pc = pc, !.at = IF pc = "prune" THEN task[t].at ELSE 0]]
Ended(t) == task' = [task EXCEPT ![t] = Idle]

\* The sweeper's task also does the make_room of open, before anything is received.
StageAfter(t) ==
  IF t = "collector" THEN stage ELSE IF stage = "opening" THEN "unswept" ELSE "swept"

Failed(t) == Ended(t) /\ stage' = StageAfter(t)
Stumbled(t) ==
  \/ task[t].mode = "first" /\ task' = [task EXCEPT ![t].mode = "recover"] /\ UNCHANGED stage
  \/ task[t].mode = "retry" /\ Failed(t)

Troubled(kind) == kind \in Troubles /\ spent.faults + spent.crashes + spent.back < MaxTrouble

Fault == Troubled("fault") /\ spent' = [spent EXCEPT !.faults = @ + 1]

\* What the operation would leave, had its transaction reached the disk.
Written(t) ==
  CASE task[t].pc = "insert" -> Stored(ring, task[t].batch, task[t].at).ring
    [] task[t].pc = "prune" -> Pruned(ring, task[t].at, 0)
    [] task[t].pc = "shed" -> Pruned(ring, task[t].at, task[t].n)
    [] OTHER -> ring

\* An I/O error: the commit may or may not have reached the disk.
Poisons(t) ==
  /\ \E pc \in {"insert", "prune", "count", "shed"} : Trying(t, pc)
  /\ db = "open"
  /\ Fault
  /\ db' = "poisoned"
  /\ ring' \in {ring, Written(t)}
  /\ Stumbled(t)
  /\ UNCHANGED <<since, unsaid, care, dedup, clock>>

Refused(t) ==
  /\ \E pc \in {"insert", "prune", "count", "shed"} : Trying(t, pc)
  /\ db \in {"poisoned", "closed"}
  /\ Stumbled(t)
  /\ UNCHANGED <<ring, db, since, unsaid, care, dedup, clock, spent>>

\* Mutant: only a poisoned handle is recovered, not a closed one.
RecoverablePoisoned == db = "poisoned"

Recoverable == Up

\* The gate of recover: one try in RECOVER_EVERY_MS.
Claim(t) ==
  /\ task[t].mode = "recover"
  /\ \/ /\ Recoverable /\ care.mayRecover
        /\ care' = [care EXCEPT !.mayRecover = FALSE]
        /\ task' = [task EXCEPT ![t].mode = "reopen", ![t].rec = clock]
        /\ UNCHANGED stage
     \/ ~(Recoverable /\ care.mayRecover) /\ Failed(t) /\ UNCHANGED care
  /\ UNCHANGED <<ring, db, since, unsaid, dedup, clock, spent>>

\* With the file reopened half is shed; else the ring starts over, or stays closed.
Reopen(t) ==
  /\ task[t].mode = "reopen"
  /\ \/ /\ db' = "open"
        /\ \/ /\ ring' = Pruned(ring, task[t].rec, Cardinality(Seqs(ring)) \div 2)
              /\ UNCHANGED spent
           \/ Fault /\ ring' = EmptyRing
        /\ task' = [task EXCEPT ![t].mode = "retry", ![t].rec = 0]
        /\ UNCHANGED stage
     \/ /\ Fault
        /\ db' = "closed"
        /\ ring' \in {ring, EmptyRing}
        /\ Failed(t)
  /\ UNCHANGED <<since, unsaid, care, dedup, clock>>

-----------------------------------------------------------------------------
(* The operations. *)

Finish(t) ==
  \/ t = "collector" /\ Goto(t, "tell") /\ UNCHANGED stage
  \/ t = "sweeper" /\ Ended(t) /\ stage' = StageAfter(t)

\* Mutant: a look at the disk goes before a prune that is due.
AfterInsertRoomFirst(was, n) ==
  IF was \div RoomEvery # n \div RoomEvery THEN "look"
  ELSE IF n >= PruneEvery THEN "prune" ELSE "tell"

AfterInsert(was, n) ==
  IF n >= PruneEvery THEN "prune"
  ELSE IF was \div RoomEvery # n \div RoomEvery THEN "look" ELSE "tell"

\* since_prune starts over when a prune is due.
Counted(n) == IF n >= PruneEvery THEN 0 ELSE n

\* The batch is stored, and counted towards the next prune or look at the disk.
Insert(t) ==
  LET out == Stored(ring, task[t].batch, task[t].at)
      n == since + Len(task[t].batch)
  IN /\ Trying(t, "insert")
     /\ db = "open"
     /\ ring' = out.ring
     /\ unsaid' = out.said
     /\ since' = Counted(n)
     /\ Goto(t, AfterInsert(since, n))
     /\ UNCHANGED <<db, stage, care, dedup, clock, spent>>

\* prune goes on to make room, whatever the hold-off says.
Prune(t) ==
  /\ Trying(t, "prune")
  /\ db = "open"
  /\ ring' = Pruned(ring, task[t].at, 0)
  /\ task' = [task EXCEPT ![t] = [Idle EXCEPT !.pc = "look", !.force = TRUE]]
  /\ UNCHANGED <<db, stage, since, unsaid, care, dedup, clock, spent>>

\* make_room: the disk is under its floor, or the file past half of what it may occupy.
Look(t) ==
  /\ Trying(t, "look")
  /\ \E short \in BOOLEAN :
       IF short /\ (task[t].force \/ care.holdOff # "held")
       THEN /\ care' = [care EXCEPT !.holdOff = IF @ = "none" THEN @ ELSE "held"]
            /\ task' = [task EXCEPT ![t].pc = "count", ![t].at = clock, ![t].force = FALSE]
            /\ UNCHANGED stage
       ELSE Finish(t) /\ UNCHANGED care
  /\ UNCHANGED <<ring, db, since, unsaid, dedup, clock, spent>>

\* How many to shed: a share of the entries there are now, rounded up.
Count(t) ==
  /\ Trying(t, "count")
  /\ db = "open"
  /\ LET e == Cardinality(Seqs(ring))
     IN \E share \in 1..(ShareBase - 1) :
          task' = [task EXCEPT ![t].pc = "shed", ![t].mode = "first",
                               ![t].n = (e * share + ShareBase - 1) \div ShareBase]
  /\ UNCHANGED <<ring, db, stage, since, unsaid, care, dedup, clock, spent>>

Shed(t) ==
  /\ Trying(t, "shed")
  /\ db = "open"
  /\ ring' = Pruned(ring, task[t].at, task[t].n)
  /\ Goto(t, "compact")
  /\ UNCHANGED <<db, stage, since, unsaid, care, dedup, clock, spent>>

\* The compaction is not tried again; a closed ring has nothing to compact.
Compact(t) ==
  /\ Trying(t, "compact")
  /\ \/ /\ db \in {"open", "closed"}
        /\ \E futile \in BOOLEAN :
             care' = [care EXCEPT !.holdOff = IF futile THEN "held" ELSE "none"]
        /\ Finish(t)
        /\ UNCHANGED <<db, spent>>
     \/ db = "open" /\ Fault /\ db' = "poisoned" /\ Failed(t) /\ UNCHANGED care
     \/ db = "poisoned" /\ Failed(t) /\ UNCHANGED <<db, care, spent>>
  /\ UNCHANGED <<ring, since, unsaid, dedup, clock>>

\* Everything waiting on the socket, stamped once.
Receive(batch) ==
  /\ Up /\ stage # "opening"
  /\ task["collector"].pc = "idle"
  /\ ring.next + Len(batch) <= MaxSeq + 1
  /\ task' = [task EXCEPT !["collector"] =
                [Idle EXCEPT !.pc = "insert", !.at = clock, !.batch = batch]]
  /\ unsaid' = {}
  /\ UNCHANGED <<ring, db, stage, since, care, dedup, clock, spent>>

\* What insert_many answered goes to the live followers.
Tell ==
  /\ task["collector"].pc = "tell"
  /\ unsaid' = {}
  /\ Ended("collector")
  /\ UNCHANGED <<ring, db, stage, since, care, dedup, clock, spent>>

Sweep ==
  /\ Up /\ stage # "opening"
  /\ task["sweeper"].pc = "idle"
  /\ task' = [task EXCEPT !["sweeper"] = [Idle EXCEPT !.pc = "prune", !.at = clock]]
  /\ UNCHANGED <<ring, db, stage, since, unsaid, care, dedup, clock, spent>>

\* A file that will not open is replaced; if that fails too the plugin stops.
Open ==
  /\ db = "none"
  /\ \/ db' = "open" /\ UNCHANGED <<ring, spent>>
     \/ Fault /\ db' \in {"open", "dead"} /\ ring' = EmptyRing
  /\ task' = IF db' = "dead" THEN task
             ELSE [task EXCEPT !["sweeper"] = [Idle EXCEPT !.pc = "look", !.force = TRUE]]
  /\ UNCHANGED <<stage, since, unsaid, care, dedup, clock>>

-----------------------------------------------------------------------------
(* The environment. *)

\* The console stops, to be started again with the configuration of that time.
Crash ==
  /\ db # "none"
  /\ Troubled("restart")
  /\ spent' = [spent EXCEPT !.crashes = @ + 1]
  /\ db' = "none"
  /\ task' = [t \in Tasks |-> Idle]
  /\ stage' = "opening"
  /\ since' = 0
  /\ unsaid' = {}
  /\ care' = Fresh
  /\ dedup' \in Dedups
  /\ UNCHANGED <<ring, clock>>

Tick ==
  /\ clock < MaxTime
  /\ clock' = clock + 1
  /\ UNCHANGED <<ring, db, task, stage, since, unsaid, care, dedup, spent>>

\* The wall clock is set back.
SetBack ==
  /\ Troubled("clock")
  /\ clock' \in 0..(clock - 1)
  /\ spent' = [spent EXCEPT !.back = @ + 1]
  /\ UNCHANGED <<ring, db, task, stage, since, unsaid, care, dedup>>

RecoverWaitEnds ==
  /\ ~care.mayRecover
  /\ care' = [care EXCEPT !.mayRecover = TRUE]
  /\ UNCHANGED <<ring, db, task, stage, since, unsaid, dedup, clock, spent>>

RoomWaitEnds ==
  /\ care.holdOff = "held"
  /\ care' = [care EXCEPT !.holdOff = "over"]
  /\ UNCHANGED <<ring, db, task, stage, since, unsaid, dedup, clock, spent>>

Step(t) ==
  \/ Insert(t) \/ Prune(t) \/ Look(t) \/ Count(t) \/ Shed(t) \/ Compact(t)
  \/ Poisons(t) \/ Refused(t) \/ Claim(t) \/ Reopen(t)

Next ==
  \/ \E t \in Tasks : Step(t)
  \/ \E batch \in Batches : Receive(batch)
  \/ Tell \/ Sweep \/ Open
  \/ Crash \/ Tick \/ SetBack \/ RecoverWaitEnds \/ RoomWaitEnds

Spec == Init /\ [][Next]_vars

\* The two tasks go on - the sweeper's once open, on its timer - and waits end.
Fairness ==
  /\ WF_vars(Step("collector") \/ Tell)
  /\ WF_vars(Open \/ Sweep \/ Step("sweeper"))
  /\ WF_vars(RecoverWaitEnds)

FairSpec == Spec /\ Fairness

-----------------------------------------------------------------------------
(* Properties. *)

TypeOK ==
  /\ Seqs(ring) \subseteq 1..(ring.next - 1)
  /\ ring.next \in 1..(MaxSeq + 1 + BatchMax * (MaxTrouble + 1))
  /\ \A s \in Seqs(ring) :
       ring.events[s] \in [line : Lines, count : Nat \ {0}, seen : 0..MaxTime, told : 0..MaxTime]
  /\ ring.index \in [Lines -> 0..(ring.next - 1)]
  /\ ring.hosts \in [Hosts -> [count : Nat, entries : Nat]]
  /\ ring.severity \in [Severities -> Nat]
  /\ ring.occurrences \in Nat
  /\ db \in {"none", "open", "poisoned", "closed", "dead"}
  /\ \A t \in Tasks :
       /\ task[t].pc \in {"idle", "insert", "prune", "look", "count", "shed", "compact", "tell"}
       /\ task[t].mode \in {"first", "recover", "reopen", "retry"}
       /\ {task[t].at, task[t].rec} \subseteq 0..MaxTime
       /\ task[t].batch \in Batches \cup {<<>>}
       /\ task[t].force \in BOOLEAN
       /\ task[t].n \in Nat
  /\ stage \in {"opening", "unswept", "swept"}
  /\ since \in 0..(PruneEvery - 1)
  /\ unsaid \subseteq Lines
  /\ care \in [mayRecover : BOOLEAN, holdOff : {"none", "held", "over"}]
  /\ dedup \in Dedups
  /\ clock \in 0..MaxTime
  /\ spent \in [faults : 0..MaxTrouble, crashes : 0..MaxTrouble, back : 0..MaxTrouble]

\* The aggregates insert and prune maintain are what counting the ring would give, after
\* any mix of repeats, prunes, sheds, recoveries, restarts and changes of configuration.
AggregatesAgree ==
  LET Of(i, x) == {s \in Seqs(ring) : ring.events[s].line[i] = x}
      Sum(V) == MapThenSumSet(LAMBDA s : ring.events[s].count, V)
  IN /\ ring.occurrences = Sum(Seqs(ring))
     /\ \A h \in Hosts : ring.hosts[h] = [count |-> Sum(Of(1, h)), entries |-> Cardinality(Of(1, h))]
     /\ \A s \in Severities : ring.severity[s] = Sum(Of(2, s))

\* Every line in the ring is indexed by its newest entry, an entry that is there and is of
\* that line, so that its next repeat finds it.
IndexFollows ==
  \A s \in Seqs(ring) :
    LET l == ring.events[s].line
    IN /\ ring.index[l] >= s
       /\ ring.index[l] \in Seqs(ring)
       /\ ring.events[ring.index[l]].line = l

\* Where deduplication is never off a line has one entry, the one its repeats add to.
OneEntryEach ==
  FALSE \notin Dedups =>
    \A s, t \in Seqs(ring) : ring.events[s].line = ring.events[t].line => s = t

\* A prune leaves nothing that was last seen before its cutoff, although it stops at the
\* first entry still wanted - as long as the clock is never set back.
PruneLeavesNothingOld ==
  [][\A t \in Tasks :
       Retain > 0 /\ Trying(t, "prune") /\ task'[t].pc = "look" /\ spent.back = 0 =>
         \A s \in Seqs(ring') : ring'.events[s].seen >= task[t].at - Retain]_vars

\* Once swept since boot, an open ring holds at most its cap and what came since the
\* collector last pruned, however prunes and recoveries fail and overlap.
RingBounded ==
  stage = "swept" /\ db = "open" =>
    Cardinality(Seqs(ring)) <=
      Cap + (IF task["collector"].pc = "prune" THEN PruneEvery - 1 + BatchMax ELSE since)

\* However often the disk failed, the ring is open again unless the console stopped.
RingComesBack == db \in {"poisoned", "closed"} ~> (db = "open" \/ ~Up)

\* A quiet fleet too expires what it left behind.
OldGoes ==
  \A s \in 1..MaxSeq :
    (s \in Seqs(ring) /\ Retain > 0 /\ ring.events[s].seen + Retain < clock) ~>
      (s \notin Seqs(ring) \/ ring.events[s].seen + Retain >= clock \/ ~Up)

=============================================================================
