----------------------------- MODULE WatchCache -----------------------------
(***************************************************************************)
(* One resource kind of the Kubernetes plugin's cache: the list+watch loop *)
(* (cache.rs, watch_resource), the stream it reads (client.rs, watch), the *)
(* task that applies the stream to the store, and the writers that put the *)
(* object a save returned straight into the store (Store::observe).        *)
(*                                                                         *)
(* The apiserver is external: a log of revisions, each one put or delete   *)
(* of one key, with the objects it left.  An object is its resourceVersion *)
(* - the revision that wrote it - and 0 where there is none.  Kinds share  *)
(* no state but the store's locks, so one kind is the whole of the loop.   *)
(***************************************************************************)
EXTENDS Integers, Sequences, FiniteSets

CONSTANTS
  Keys,       \* the objects' names in the kind's map
  MaxRev,     \* bound: how many revisions the apiserver ever reaches
  ChanCap,    \* the applier's channel capacity (256 in the code)
  Optional    \* ResourceSpec::optional: the CRD may not be installed

ASSUME ConstantsAssumption ==
  /\ MaxRev \in Nat
  /\ ChanCap \in Nat \ {0}
  /\ Optional \in BOOLEAN

VARIABLES
  log,        \* the apiserver: log[r] is what revision r did and left
  served,     \* the apiserver: does it serve this kind at all
  responses,  \* revisions of the console's own writes, answered, not yet observed
  cancelled,  \* the shutdown token
  pc,         \* where the watch_resource loop is
  listRev,    \* the resourceVersion of the list the loop holds
  cursor,     \* the last revision the open stream has put in the channel
  chan,       \* the mpsc channel between the stream and the applier
  backoff,    \* seconds the next sleep takes
  present,    \* Store.objects has this kind's key
  objects,    \* Store.objects of this kind: key -> resourceVersion, 0 if none
  synced,     \* Store.synced of this kind
  absent      \* Store.absent of this kind

server == <<log, served>>
store  == <<present, objects, synced, absent>>
loop   == <<pc, listRev, cursor, backoff>>
vars   == <<log, served, responses, cancelled, pc, listRev, cursor, chan,
            backoff, present, objects, synced, absent>>

-----------------------------------------------------------------------------
(* The apiserver's history. *)

Nothing == [k \in Keys |-> 0]
Rev     == Len(log)
At(r)   == IF r = 0 THEN Nothing ELSE log[r].objects

\* The watch event of revision r.
Event(r) == [type |-> log[r].type, key |-> log[r].key, rev |-> r]

\* How far the store has come: what the stream has sent less what is queued.
Applied == cursor - Len(chan)

-----------------------------------------------------------------------------
Init ==
  /\ log = <<>>
  /\ served \in IF Optional THEN BOOLEAN ELSE {TRUE}
  /\ responses = {}
  /\ cancelled = FALSE
  /\ pc = "top"
  /\ listRev = 0
  /\ cursor = 0
  /\ chan = <<>>
  /\ backoff = 1
  /\ present = FALSE
  /\ objects = Nothing
  /\ synced = FALSE
  /\ absent = FALSE

-----------------------------------------------------------------------------
(* The apiserver and everybody who writes to it. *)

Commit(k, type, by) ==
  log' = Append(log,
           [key |-> k, type |-> type, by |-> by,
            objects |-> [At(Rev) EXCEPT ![k] = IF type = "DELETED" THEN 0
                                                                  ELSE Rev + 1]])

\* Somebody creates or changes k.  A write of the console's gets its object
\* back, to be observed when the answer arrives.
ServerPut(k, by) ==
  /\ served
  /\ Rev < MaxRev
  /\ Commit(k, IF At(Rev)[k] = 0 THEN "ADDED" ELSE "MODIFIED", by)
  /\ responses' = IF by = "console" THEN responses \cup {Rev + 1} ELSE responses
  /\ UNCHANGED <<served, cancelled, loop, chan, store>>

ServerDelete(k) ==
  /\ served
  /\ Rev < MaxRev
  /\ At(Rev)[k] # 0
  /\ Commit(k, "DELETED", "other")
  /\ UNCHANGED <<served, responses, cancelled, loop, chan, store>>

\* A CRD is installed, or removed once its last object is gone.
ServerInstall ==
  /\ ~served
  /\ served' = TRUE
  /\ UNCHANGED <<log, responses, cancelled, loop, chan, store>>

ServerUninstall ==
  /\ Optional
  /\ served
  /\ At(Rev) = Nothing
  /\ served' = FALSE
  /\ UNCHANGED <<log, responses, cancelled, loop, chan, store>>

Cancel ==
  /\ ~cancelled
  /\ cancelled' = TRUE
  /\ UNCHANGED <<server, responses, loop, chan, store>>

-----------------------------------------------------------------------------
(* watch_resource: the loop's own steps.  Store::replace and set_absent    *)
(* take three locks one after another, so they are three steps: a reader   *)
(* or an observe can come between them.                                    *)

Stop ==
  /\ cancelled
  /\ pc \in {"top", "sleep"}
  /\ pc' = "done"
  /\ UNCHANGED <<server, responses, cancelled, listRev, cursor, chan, backoff, store>>

\* Mutant: the top of the loop does not look at the shutdown token.
SendListAnyway ==
  /\ pc = "top"
  /\ pc' = "list"
  /\ UNCHANGED <<server, responses, cancelled, listRev, cursor, chan, backoff, store>>

SendList ==
  /\ pc = "top"
  /\ ~cancelled
  /\ pc' = "list"
  /\ UNCHANGED <<server, responses, cancelled, listRev, cursor, chan, backoff, store>>

ListAnswered ==
  /\ pc = "list"
  /\ served
  /\ listRev' = Rev
  /\ backoff' = 1
  /\ pc' = "replace"
  /\ UNCHANGED <<server, responses, cancelled, cursor, chan, store>>

ListMissing ==
  /\ pc = "list"
  /\ ~served
  /\ pc' = "absent"
  /\ UNCHANGED <<server, responses, cancelled, listRev, cursor, chan, backoff, store>>

\* Any other answer, or none: the apiserver may be down at any time.
ListFailed ==
  /\ pc = "list"
  /\ synced' = FALSE
  /\ backoff' = IF backoff * 2 < 30 THEN backoff * 2 ELSE 30
  /\ pc' = "sleep"
  /\ UNCHANGED <<server, responses, cancelled, listRev, cursor, chan, present, objects, absent>>

\* Mutant: a list is merged into what is held, so what it leaves out stays.
MergeObjects ==
  /\ pc = "replace"
  /\ present' = TRUE
  /\ objects' = [k \in Keys |-> IF At(listRev)[k] # 0 THEN At(listRev)[k] ELSE objects[k]]
  /\ cursor' = listRev
  /\ pc' = "replace_synced"
  /\ UNCHANGED <<server, responses, cancelled, listRev, chan, backoff, synced, absent>>

ReplaceObjects ==
  /\ pc = "replace"
  /\ present' = TRUE
  /\ objects' = At(listRev)
  /\ cursor' = listRev
  /\ pc' = "replace_synced"
  /\ UNCHANGED <<server, responses, cancelled, listRev, chan, backoff, synced, absent>>

ReplaceSynced ==
  /\ pc = "replace_synced"
  /\ synced' = TRUE
  /\ pc' = "replace_absent"
  /\ UNCHANGED <<server, responses, cancelled, listRev, cursor, chan, backoff, present, objects, absent>>

ReplaceAbsent ==
  /\ pc = "replace_absent"
  /\ absent' = FALSE
  /\ pc' = "watch"
  /\ UNCHANGED <<server, responses, cancelled, listRev, cursor, chan, backoff, present, objects, synced>>

AbsentObjects ==
  /\ pc = "absent"
  /\ present' = FALSE
  /\ objects' = Nothing
  /\ pc' = "absent_synced"
  /\ UNCHANGED <<server, responses, cancelled, listRev, cursor, chan, backoff, synced, absent>>

AbsentSynced ==
  /\ pc = "absent_synced"
  /\ synced' = TRUE
  /\ pc' = "absent_absent"
  /\ UNCHANGED <<server, responses, cancelled, listRev, cursor, chan, backoff, present, objects, absent>>

AbsentAbsent ==
  /\ pc = "absent_absent"
  /\ absent' = TRUE
  /\ backoff' = 60
  /\ pc' = "sleep"
  /\ UNCHANGED <<server, responses, cancelled, listRev, cursor, chan, present, objects, synced>>

\* The stream puts its next event in the channel, waiting for room in it.
StreamEvent ==
  /\ pc = "watch"
  /\ cursor < Rev
  /\ Len(chan) < ChanCap
  /\ chan' = Append(chan, Event(cursor + 1))
  /\ cursor' = cursor + 1
  /\ UNCHANGED <<server, responses, cancelled, pc, listRev, backoff, store>>

\* The stream ends: refused, broken, timed out by the apiserver, or shutdown.
StreamEnds ==
  /\ pc = "watch"
  /\ pc' = "drain"
  /\ UNCHANGED <<server, responses, cancelled, listRev, cursor, chan, backoff, store>>

\* The loop waits for the applier to empty the channel.
ApplierDone == pc = "drain" /\ chan = <<>>

\* Mutant: a broken watch goes to its backoff without marking the kind stale.
DrainedSilently ==
  /\ ApplierDone
  /\ ~cancelled
  /\ pc' = "sleep"
  /\ UNCHANGED <<server, responses, cancelled, listRev, cursor, chan, backoff, store>>

Drained ==
  /\ ApplierDone
  /\ ~cancelled
  /\ synced' = FALSE
  /\ pc' = "sleep"
  /\ UNCHANGED <<server, responses, cancelled, listRev, cursor, chan, backoff, present, objects, absent>>

DrainedAtShutdown ==
  /\ ApplierDone
  /\ cancelled
  /\ pc' = "done"
  /\ UNCHANGED <<server, responses, cancelled, listRev, cursor, chan, backoff, store>>

Wake ==
  /\ pc = "sleep"
  /\ pc' = "top"
  /\ UNCHANGED <<server, responses, cancelled, listRev, cursor, chan, backoff, store>>

-----------------------------------------------------------------------------
(* The applier task, and a writer whose save was answered. *)

Apply ==
  /\ chan # <<>>
  /\ LET ev == Head(chan)
     IN  objects' = [objects EXCEPT ![ev.key] = IF ev.type = "DELETED" THEN 0 ELSE ev.rev]
  /\ present' = TRUE
  /\ chan' = Tail(chan)
  /\ UNCHANGED <<server, responses, cancelled, loop, synced, absent>>

\* Mutant: a response goes in whatever version is held.
ObservedAnyway(v) ==
  IF present THEN [objects EXCEPT ![log[v].key] = v] ELSE objects

\* What Store::observe makes of the object revision v wrote: nothing when the
\* kind is not held or the version held is no older, else it goes in.
Observed(v) ==
  IF present /\ objects[log[v].key] < v
  THEN [objects EXCEPT ![log[v].key] = v]
  ELSE objects

Observe(v) ==
  /\ objects' = Observed(v)
  /\ responses' = responses \ {v}
  /\ UNCHANGED <<server, cancelled, loop, chan, present, synced, absent>>

\* The answer never arrives: the connection broke after the write.
LoseResponse(v) ==
  /\ responses' = responses \ {v}
  /\ UNCHANGED <<server, cancelled, loop, chan, store>>

-----------------------------------------------------------------------------
Server ==
  \/ \E k \in Keys, by \in {"console", "other"} : ServerPut(k, by)
  \/ \E k \in Keys : ServerDelete(k)
  \/ ServerInstall
  \/ ServerUninstall

Loop ==
  \/ Stop \/ SendList \/ ListAnswered \/ ListMissing \/ ListFailed
  \/ ReplaceObjects \/ ReplaceSynced \/ ReplaceAbsent
  \/ AbsentObjects \/ AbsentSynced \/ AbsentAbsent
  \/ StreamEvent \/ StreamEnds \/ Drained \/ DrainedAtShutdown \/ Wake

Writer == \E v \in responses : Observe(v) \/ LoseResponse(v)

Next == Server \/ Cancel \/ Loop \/ Apply \/ Writer

Spec == Init /\ [][Next]_vars

(***************************************************************************)
(* The tokio tasks run: the loop's steps, the applier and a writer whose   *)
(* answer is in hand.  Of the environment: an apiserver that keeps being   *)
(* asked answers a list some time (strong fairness: it may be down in      *)
(* between), and a stream is ended some time, because the apiserver ends   *)
(* every watch at its own request timeout.                                 *)
(***************************************************************************)
LoopFairness ==
  /\ WF_vars(Stop) /\ WF_vars(SendList) /\ WF_vars(Wake)
  /\ WF_vars(ListMissing \/ ListFailed \/ ListAnswered)
  /\ WF_vars(ReplaceObjects) /\ WF_vars(ReplaceSynced) /\ WF_vars(ReplaceAbsent)
  /\ WF_vars(AbsentObjects) /\ WF_vars(AbsentSynced) /\ WF_vars(AbsentAbsent)
  /\ WF_vars(StreamEvent)
  /\ WF_vars(Drained) /\ WF_vars(DrainedAtShutdown)
  /\ WF_vars(Apply)
  /\ WF_vars(Writer)

ServerFairness ==
  /\ SF_vars(ListAnswered)
  /\ SF_vars(ListMissing)
  /\ WF_vars(StreamEnds)

FairSpec == Spec /\ LoopFairness /\ ServerFairness

-----------------------------------------------------------------------------
(* Properties. *)

Revs      == 0..MaxRev
EventType == {"ADDED", "MODIFIED", "DELETED"}
Entry     == [key : Keys, type : EventType, by : {"console", "other"}, objects : [Keys -> Revs]]
Locations == {"top", "list", "replace", "replace_synced", "replace_absent", "absent",
              "absent_synced", "absent_absent", "watch", "drain", "sleep", "done"}

\* Every variable has its type, the channel never holds more than its capacity
\* and a response is a revision the server has reached.
TypeOK ==
  /\ log \in Seq(Entry)
  /\ Rev \in Revs
  /\ served \in BOOLEAN
  /\ responses \in SUBSET (1..Rev)
  /\ cancelled \in BOOLEAN
  /\ pc \in Locations
  /\ listRev \in 0..Rev
  /\ cursor \in 0..Rev
  /\ chan \in Seq([type : EventType, key : Keys, rev : Revs])
  /\ Len(chan) <= ChanCap
  /\ backoff \in {1, 2, 4, 8, 16, 30, 60}
  /\ present \in BOOLEAN
  /\ objects \in [Keys -> Revs]
  /\ synced \in BOOLEAN
  /\ absent \in BOOLEAN

\* The two ways a key may hold something other than what the server held at the
\* applied revision, both an object one of the console's own writes made: one the watch
\* has not brought yet, and an OLDER one put back after the watch applied its deletion.
\* observe compares versions only where the map has an entry (cache.rs:395), and a
\* deletion leaves none, so the second happens, although cache.rs:386-387 says it "never
\* replaces a newer resourceVersion the watch has already delivered".
Ahead(v)          == v > Applied
BroughtBack(k, v) == v <= Applied /\ At(Applied)[k] = 0

ConsoleWrote(k, v) ==
  /\ v \in 1..Rev
  /\ log[v].key = k
  /\ log[v].by = "console"
  /\ Ahead(v) \/ BroughtBack(k, v)

\* How far the cache is a consistent snapshot ("the components mapping reads a consistent
\* snapshot", cache.rs:3): at every moment each key holds what the server held at ONE
\* revision, the applied one, or what the console itself wrote to it, newer than that
\* revision or of an object that revision has no more.  An object that is there at the
\* applied revision is never shown older than it, and no event is lost, repeated,
\* reordered or carried across a re-list.
ConsistentSnapshot ==
  present => \A k \in Keys : \/ objects[k] = At(Applied)[k]
                             \/ ConsoleWrote(k, objects[k])

\* What the store says of a kind beside its objects.  "Absent" and "present and empty"
\* have to be tellable apart by anything reading the snapshot (set_absent): outside the
\* moment between two of the store's locks a kind marked absent has no key, however
\* often its CRD comes and goes and its list fails in between.  And synced is "whether
\* the initial list has completed since the last break": a kind held as synced has its
\* stream open or being drained, or is known not to be served, or its task was shut down.
FlagsHonest ==
  /\ absent /\ present => pc \in {"replace_synced", "replace_absent"}
  /\ synced => \/ pc \in {"replace_synced", "replace_absent", "watch", "drain", "done"}
               \/ absent \/ ~present

\* The store converges after any interruption (cache.rs:4): once nobody writes any
\* more, the cache ends up holding exactly what the server holds and stays so,
\* provided the kind goes on being served and the console is not shut down.  A kind
\* whose CRD stays away ends up told absent and without a key, and one that is served
\* ends up told served, although it was absent before.
Quiet     == <>[][FALSE]_server
Watched   == served /\ ~cancelled
InStep    == present /\ objects = At(Rev)
Converges ==
  /\ Quiet /\ <>[]Watched => <>[]InStep
  /\ <>[]Watched => <>[](~absent)
  /\ <>[](~served /\ ~cancelled) => <>[](absent /\ ~present)

\* Shutdown ends the task, whatever it is doing.
ShutdownEnds == cancelled ~> pc = "done"

=============================================================================
