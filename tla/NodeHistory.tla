----------------------------- MODULE NodeHistory -----------------------------
(***************************************************************************)
(* What a node tells of itself: its boots, put back together from what two *)
(* writers left under two names, its drives' records over the months, the  *)
(* volume they are all on, which a handover pauses (plugins/history), and  *)
(* the state of every API on it, from PID 1's summary or else from each    *)
(* stormd (plugins/apihealth).                                             *)
(***************************************************************************)
EXTENDS Naturals, Integers, Sequences, SequencesExt

CONSTANT None

VARIABLES
  card,             \* "boots", "lines", "volume" or "apis"
  world

vars == <<card, world>>

SLACK == 1          \* how far the clock may move back as a node boots (two minutes)
WITHIN == 3         \* how long PID 1 may take to start (fifteen minutes)
MaxBoots == 2       \* boots recorded
MONTH == 3          \* lines read of a month (16 MiB in the program)
LAST == 2           \* lines read of it for the latest record (256 KiB)
MaxLines == 5       \* lines written, over at most MaxMonths months
MaxMonths == 2
STALE == 1          \* ticks a summary may go without being rewritten
MaxAge == 2         \* where ages stop being told apart

APIs == {"volumes", "catalog"}    \* one that PID 1 probes, one of a container's stormd
States == {"healthy", "slow", "stalled"}

NoApis == [is |-> [a \in APIs |-> "unknown"], runs |-> TRUE, sick |-> [a \in APIs |-> 0],
           file |-> None, due |-> TRUE, snap |-> [source |-> "none", apis |-> <<>>, stale |-> FALSE]]

Init ==
  \/ card = "boots"  /\ world = <<>>
  \/ card = "lines"  /\ world = [months |-> <<<<>>>>, next |-> 1, torn |-> FALSE]
  \/ card = "volume" /\ \E disk \in {"records", "empty", "gone"} :
                          world = [disk |-> disk, paused |-> FALSE, available |-> disk = "records", asked |-> None]
  \/ card = "apis"   /\ world = NoApis

-----------------------------------------------------------------------------
(* The boots of the node.  The record is stormblock's, the directory and   *)
(* the timeline in it PID 1's, who starts second or not at all.            *)

\* A machine boots again right after the boot before began, within the slack of it, or later.
Begins(bs) ==
  IF bs = <<>> THEN {1}
  ELSE IF Last(bs).wall = None THEN {Last(bs).at + 1} ELSE {Last(bs).wall + 1, Last(bs).wall + SLACK + 1}

\* stormblock's record is by the time, or says which boot it is of, or is in that
\* boot's directory; one cut short is told by its name alone.
Begin ==
  /\ card = "boots" /\ Len(world) < MaxBoots
  /\ \E rec \in {"none", "flat", "cut", "names", "inside"}, cmd \in {"a", "b"}, at \in Begins(world) :
       world' = Append(world, [at |-> at, cmd |-> cmd, rec |-> rec, dir |-> rec = "inside",
                               wall |-> None, header |-> None, end |-> None])
  /\ UNCHANGED card

\* PID 1 starts, whether or not there is a record; and finds what is left of the boot before.
Start ==
  /\ card = "boots" /\ world # <<>>
  /\ LET n == Len(world)
         b == world[n]
     IN  /\ b.wall = None
         /\ \E gap \in {-SLACK, WITHIN, WITHIN + 1}, header \in {"whole", "bare", "torn"}, crash \in BOOLEAN :
              /\ b.at + gap > 0
              /\ crash => n > 1 /\ world[n - 1].wall # None /\ world[n - 1].end = None
              /\ world' = [i \in 1..n |->
                             IF i = n THEN [b EXCEPT !.dir = TRUE, !.wall = b.at + gap, !.header = header]
                             ELSE IF i = n - 1 /\ crash THEN [world[i] EXCEPT !.end = "crashed"]
                             ELSE world[i]]
  /\ UNCHANGED card

ShutDown ==
  /\ card = "boots" /\ world # <<>>
  /\ Last(world).wall # None /\ Last(world).end = None
  /\ world' = [world EXCEPT ![Len(world)].end = "shutdown"]
  /\ UNCHANGED card

\* What is read of a header, and of a record.
Wall(b) == IF b.header \in {"whole", "bare"} THEN b.wall ELSE None
HeaderCmd(b) == IF b.header = "whole" THEN b.cmd ELSE None
RecordCmd(b) == IF b.rec = "cut" THEN None ELSE b.cmd

SameCmdline(b, d) == RecordCmd(b) = None \/ HeaderCmd(d) = None \/ RecordCmd(b) = HeaderCmd(d)

\* Mutant: a timeline that has its record may get another's.
NearTaken(bs, r, taken) ==
  {d \in DOMAIN bs : /\ bs[d].dir /\ Wall(bs[d]) # None
                     /\ Wall(bs[d]) - bs[r].at \in -SLACK..WITHIN
                     /\ SameCmdline(bs[r], bs[d])}

\* The directories whose timeline may be of this record's boot.
Near(bs, r, taken) ==
  {d \in DOMAIN bs : /\ bs[d].dir /\ taken[d] = 0 /\ Wall(bs[d]) # None
                     /\ Wall(bs[d]) - bs[r].at \in -SLACK..WITHIN
                     /\ SameCmdline(bs[r], bs[d])}

\* found: for each directory the record it is joined with, 0 for none.  Those that name
\* their boot first, then the others, the newest first, each to the nearest timeline.
Paired(bs) ==
  LET n == Len(bs)
      named == [d \in 1..n |-> IF bs[d].dir /\ bs[d].rec \in {"inside", "names"} THEN d ELSE 0]
      alone(r) == bs[r].rec # "none" /\ named[r] # r
      taken[r \in 1..n + 1] ==
        IF r = n + 1 THEN named
        ELSE LET t == taken[r + 1]
                 near == Near(bs, r, t)
             IN  IF ~alone(r) \/ near = {} THEN t
                 ELSE [t EXCEPT ![CHOOSE d \in near : \A e \in near : Wall(bs[d]) <= Wall(bs[e])] = r]
  IN  taken[1]

\* A row is a directory, with its record if there is one, or a record alone.
Row(bs, d, r) ==
  [dir |-> d, rec |-> r,
   at |-> IF d # 0 /\ Wall(bs[d]) # None THEN Wall(bs[d]) ELSE IF r # 0 THEN bs[r].at ELSE 0,
   end |-> CASE d # 0 /\ bs[d].end = "crashed"  -> "crashed"
             [] d = Len(bs)                     -> "running"
             [] d # 0 /\ d # Len(bs) /\ bs[d].end = "shutdown" -> "shut down"
             [] d = 0 \/ (d # Len(bs) /\ bs[d].wall = None)    -> "no timeline"
             [] OTHER                           -> "no clean end"]

Boots(bs) ==
  LET pair == Paired(bs)
      dirs == {d \in DOMAIN bs : bs[d].dir}
      joined == {pair[d] : d \in dirs}
      rows == {Row(bs, d, pair[d]) : d \in dirs}
                \cup {Row(bs, 0, r) : r \in {q \in DOMAIN bs : bs[q].rec # "none"} \ joined}
  IN  SetToSortSeq(rows, LAMBDA a, b : a.at > b.at \/ (a.at = b.at /\ a.dir > b.dir))

\* One boot, by the name of its directory or by stormblock's.
Find(bs, name) ==
  LET hits == SelectSeq(Boots(bs), LAMBDA row : name \in {<<"dir", row.dir>>, <<"rec", row.rec>>})
  IN  IF hits = <<>> THEN None ELSE hits[1]

-----------------------------------------------------------------------------
(* A drive's records, a line each, a file for each month.                  *)

Write(line, torn, used) ==
  /\ world' = [months |-> [world.months EXCEPT ![Len(world.months)] = line], next |-> world.next + used, torn |-> torn]
  /\ UNCHANGED card

This == world.months[Len(world.months)]

\* A record is written; after a line cut short it is the end of that line, and both are lost.
AppendLine ==
  /\ card = "lines" /\ world.next <= MaxLines
  /\ Write(IF world.torn THEN This ELSE Append(This, world.next), FALSE, 1)

\* Half of a line is there: it is being written, or will never be whole.
TearLine ==
  /\ card = "lines" /\ ~world.torn /\ world.next <= MaxLines
  /\ Write(Append(This, 0), TRUE, 0)

FinishLine ==
  /\ card = "lines" /\ world.torn
  /\ Write([This EXCEPT ![Len(This)] = world.next], FALSE, 1)

NextMonth ==
  /\ card = "lines" /\ Len(world.months) < MaxMonths
  /\ world' = [world EXCEPT !.months = Append(@, <<>>), !.torn = FALSE]
  /\ UNCHANGED card

\* tail, and its lines that parse.
TailOf(month, most) == SubSeq(month, IF Len(month) > most THEN Len(month) - most + 1 ELSE 1, Len(month))
Readable(lines) == SelectSeq(lines, LAMBDA l : l # 0)

\* newest_lines: from the newest month back until there are as many as were asked for.
NewestLines(months, limit) ==
  LET n == Len(months)
      step[m \in 1..n + 1] ==
        IF m = n + 1 THEN [out |-> <<>>, cut |-> FALSE]
        ELSE LET s == step[m + 1]
                 lines == Reverse(Readable(TailOf(months[m], MONTH)))
                 room == limit - Len(s.out)
             IN  IF room = 0 THEN s
                 ELSE [out |-> s.out \o SubSeq(lines, 1, IF Len(lines) < room THEN Len(lines) ELSE room),
                       cut |-> s.cut \/ Len(months[m]) > MONTH]
  IN  step[1]

\* drive_row: the latest record, of the newest month that has one at its end.
LatestRecord(months) ==
  LET ends == {m \in DOMAIN months : Readable(TailOf(months[m], LAST)) # <<>>}
  IN  IF ends = {} THEN None
      ELSE Last(Readable(TailOf(months[CHOOSE m \in ends : \A k \in ends : k <= m], LAST)))

-----------------------------------------------------------------------------
(* The volume itself.                                                      *)

Pause ==
  /\ card = "volume"
  /\ world' = [world EXCEPT !.paused = ~@]
  /\ UNCHANGED card

\* A node keeps a record, or there is an empty directory, or nothing.
Available(w) == w.disk = "records"

\* refresh: a read that does not end leaves what was read before.
Refresh ==
  /\ card = "volume"
  /\ world' = [world EXCEPT !.available = IF world.paused THEN @ ELSE Available(world)]
  /\ UNCHANGED card

\* One record, by its name.
Missed(what) ==
  CASE what = "one" -> "200" [] what = "none such" -> "404" [] what = "no name" -> "400" [] what = "unreadable" -> "500"

\* What a request is told: the status, and whether there is a record to read at all.
Answer(w, what) ==
  LET said(status, available) == [status |-> status, available |-> available] IN
  CASE w.paused                                    -> said("503", TRUE)
    [] ~w.paused /\ what = "list"                  -> said("200", Available(w))
    [] ~w.paused /\ what # "list" /\ ~Available(w) -> said("404", FALSE)
    [] ~w.paused /\ what # "list" /\ Available(w)  -> said(Missed(what), TRUE)

Ask ==
  /\ card = "volume"
  /\ \E what \in {"list", "one", "none such", "no name", "unreadable"} :
       world' = [world EXCEPT !.asked = Answer(world, what)]
  /\ UNCHANGED card

-----------------------------------------------------------------------------
(* The APIs of the node.                                                   *)

Alerting(api) == api.state = "stalled" /\ api.running # FALSE

Rank(state) == CASE state = "healthy" -> 0 [] state = "unknown" -> 1 [] state = "slow" -> 2 [] state = "stalled" -> 3

\* One entry, whichever of the two wrote it: only PID 1 knows whether a unit runs.
FromValue(w, a) ==
  [api |-> a, state |-> w.is[a], running |-> IF a = "volumes" THEN w.runs ELSE None]

Becomes(a, state, runs) ==
  world' = [world EXCEPT !.is[a] = state, !.runs = runs,
                         !.sick[a] = IF state = "stalled" /\ runs = world.runs THEN @ ELSE 0]

\* An API comes to be as it is; the one that PID 1 probes is of a unit that may not run.
Change ==
  /\ card = "apis"
  /\ \/ \E s \in States : Becomes("volumes", s, world.runs)
     \/ \E s \in {"healthy", "stalled"} : Becomes("catalog", s, world.runs)
     \/ Becomes("volumes", world.is["volumes"], ~world.runs)
  /\ UNCHANGED card

\* PID 1 rewrites its summary, or it is not there to read.
Rewrite ==
  /\ card = "apis"
  /\ world' = [world EXCEPT !.file = [age |-> 0, apis |-> {FromValue(world, a) : a \in APIs}]]
  /\ UNCHANGED card

Unreadable ==
  /\ card = "apis" /\ world.file # None
  /\ world' = [world EXCEPT !.file = None]
  /\ UNCHANGED card

\* Time goes by; the next read is due.
Pass ==
  /\ card = "apis" /\ ~world.due
  /\ LET older(n) == IF n < MaxAge THEN n + 1 ELSE n IN
     world' = [world EXCEPT !.due = TRUE,
                            !.sick = [a \in APIs |-> IF Alerting(FromValue(world, a)) THEN older(@[a]) ELSE 0],
                            !.file = IF @ = None THEN None ELSE [@ EXCEPT !.age = older(@)]]
  /\ UNCHANGED card

\* order: alerts first, then the worst, then by name.
Order(apis) ==
  LET key(x) == 10 * (IF Alerting(x) THEN 1 ELSE 0) + Rank(x.state)
  IN  SetToSortSeq(apis, LAMBDA x, y : key(x) > key(y) \/ (key(x) = key(y) /\ x.api = "catalog" /\ y.api = "volumes"))

\* The stormds, asked each on its own: one that says nothing is passed over.
Stormds(w, answer) == IF answer = "200" THEN {FromValue(w, "catalog")} ELSE {}

Poll ==
  /\ card = "apis" /\ world.due
  /\ \E answer \in {"200", "404", "silent"} :
       world' = [world EXCEPT !.due = FALSE,
         !.snap = IF world.file # None
                    THEN [source |-> "summary", apis |-> Order(world.file.apis), stale |-> world.file.age > STALE]
                    ELSE [source |-> "stormd", apis |-> Order(Stormds(world, answer)), stale |-> FALSE]]
  /\ UNCHANGED card

\* Snapshot::health: the word, and the API the sentence names.
Health(s) ==
  LET word(w, of) == [word |-> w, of |-> of]
      live(state) == \E i \in DOMAIN s.apis : s.apis[i].state = state /\ s.apis[i].running # FALSE
      alerts == SelectSeq(s.apis, Alerting)
  IN  IF s.source = "none" THEN word("unknown", None)
      ELSE IF s.stale THEN word("error", "summary")
      ELSE IF alerts # <<>> THEN word("error", alerts[1].api)
      ELSE IF s.apis = <<>> THEN word("unknown", None)
      ELSE IF live("slow") THEN word("warn", None) ELSE word("ok", None)

-----------------------------------------------------------------------------
Next ==
  \/ Begin \/ Start \/ ShutDown
  \/ AppendLine \/ TearLine \/ FinishLine \/ NextMonth
  \/ Pause \/ Refresh \/ Ask
  \/ Change \/ Rewrite \/ Unreadable \/ Pass \/ Poll

Spec == Init /\ [][Next]_vars

\* What joining a record and a timeline by their times takes for granted: the timeline of
\* the boot before is more than the slack older than the record, and a boot with a timeline
\* has a record.
Apart(bs) ==
  \A b \in DOMAIN bs : /\ b > 1 /\ bs[b - 1].wall # None => bs[b].at > bs[b - 1].wall + SLACK
                       /\ bs[b].wall # None => bs[b].rec # "none"

\* Where the times are apart, a row is of one boot and a boot has one row, the newest first,
\* whichever of the two writers knew of it and though one may never have started, as long
\* as the clock and the command line can be told; and either of its names finds it.
\* However the times are, only the boot before a crash is said to have crashed, and every
\* record is found by its name.  Times that are not apart may be paired across two boots: the
\* smallest gap may be a negative one (store.rs:446-461, against 433-434).
BootsAreWhole ==
  LET rows == Boots(world)
      of(row) == IF row.dir = 0 THEN row.rec ELSE row.dir
      told(b) == b.wall = None \/ b.rec \in {"inside", "names"} \/ (Wall(b) # None /\ b.wall - b.at <= WITHIN)
  IN  card = "boots" =>
        /\ \A i \in DOMAIN rows :
             /\ Apart(world) /\ rows[i].dir # 0 /\ rows[i].rec # 0 => rows[i].dir = rows[i].rec
             /\ rows[i].end = "crashed" => of(rows[i]) < Len(world)
             /\ Apart(world) => \A j \in DOMAIN rows :
                  i < j /\ told(world[of(rows[i])]) /\ told(world[of(rows[j])]) => of(rows[i]) > of(rows[j])
        /\ \A b \in DOMAIN world : world[b].rec # "none" =>
             /\ Find(world, <<"rec", b>>) # None
             /\ Apart(world) /\ told(world[b]) /\ world[b].dir =>
                  Find(world, <<"dir", b>>) = Find(world, <<"rec", b>>)

\* The newest records are shown, none missed out and none twice, though a line was cut
\* short; if not, it is said that an older part was not read.
LinesAreNewest ==
  LET all == Reverse(Readable(FlattenSeq(world.months))) IN
  card = "lines" => \A limit \in 1..MaxLines :
    LET shown == NewestLines(world.months, limit) IN
    /\ shown.out # SubSeq(all, 1, IF Len(all) < limit THEN Len(all) ELSE limit) => shown.cut
    /\ limit = 1 /\ Readable(TailOf(Last(world.months), LAST)) # <<>>
         => shown.out = <<LatestRecord(world.months)>>

\* A node with records is never said to have none, be its volume paused.
RecordsAreKnown ==
  card = "volume" => (world.disk = "records" => world.available /\ (world.asked # None => world.asked.available))

\* What stalls is said: within the time a summary may be late, be it PID 1 that hangs,
\* and by the name of one that does.
StallIsSaid ==
  LET s == world.snap
      h == Health(s)
      stalled == {a \in APIs : world.sick[a] > STALE}
  IN  card = "apis" /\ ~world.due /\ s.source = "summary" =>
        /\ stalled # {} => h.word = "error"
        /\ h.word = "error" /\ ~s.stale => \E i \in DOMAIN s.apis : s.apis[i].api = h.of /\ Alerting(s.apis[i])

=============================================================================
