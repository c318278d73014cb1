# A verification project for stormconsole

`stormconsole` is the web console of a StormCOS cluster: one Rust binary that
watches the cluster's apiserver and daemons, keeps what they say in memory (and
the fleet's logs in one redb file), pushes it to pages over websockets, and
carries what a viewer does upstream as that viewer.

This directory holds TLA+ modules that model the parts of it that are hard to
test, the configurations TLC checks them with, proofs TLAPS checks, and
`PROJECT.json`, which says line by line what models what.  Every definition was
written from the source; where a comment of the source says something else, the
model does what the code does.

To check a model: `tlc -workers 2 -config MCNodeDrain.cfg MCNodeDrain`.
To check a proof: `tlapm CacheToPageProofs.tla` (twenty minutes from nothing; the others take less).

## Contents

1. [The system](#the-system): its components, their state and how they interact
2. [What is modelled](#what-is-modelled): modules and their correspondence to the code
3. [What is checked](#what-is-checked): runs, bounds, fairness
4. [What is proved](#what-is-proved)
5. [Where the code and its comments differ](#where-the-code-and-its-comments-differ)
6. [What is not modelled, and the plan](#what-is-not-modelled-and-the-plan)

## The system

The host (`crates/stormconsole`) owns the listener, sign-in, the gate and the
websocket; the core (`crates/console-core`) owns the registry of plugins, the feed
they fill and everything that reaches another daemon; each plugin
(`crates/plugins/*`) reads one upstream and adds its routes.  The browser
(`web/`) paints what it is sent.  Almost everything is an async task or a
request handler on a multi-threaded runtime, and state is shared through locks
that are *not* held across an await, so any two steps of any two of them
interleave there.

| Component | State it keeps | Operations | Talks to | Hard about it | Correct when |
|---|---|---|---|---|---|
| Watch cache (`kubernetes/cache.rs`, `client.rs`) | objects, synced and absent flags per kind | list, watch, apply, observe a saved object, shut down | apiserver; every page reads it | stream and applier are two tasks on a bounded channel; saves write into the same map; kinds come and go | each kind is a snapshot of one revision, converges, ends at shutdown |
| Who may see what (`kubernetes/authz.rs`) | an answer per bearer, 30 s | ask, hide, verdict, forget | apiserver reviews, watch cache | many questions per answer, each at its own instant, some failing | a role taken away is hidden within the window; a failed question is not a no |
| Projects (`kubernetes/projects.rs`) | none | create, add and remove members, delete | apiserver, `authz.rs` | invalidation races the answers under way | who was let in sees, who was put out does not |
| Drain and cordon (`kubernetes/dayto.rs`) | none | cordon, uncordon, drain | apiserver | many requests per drain with the cluster acting between them | the budget is kept; what was not evicted is listed; a drain again finishes |
| VM lifecycle (`vm/lifecycle.rs`, `vm/lib.rs`) | none | start, stop, restart, delete | apiserver, watch cache | two writes per verb, planned from a stale phase | a confirmed stop stops, a restart replaces |
| SSH key store (`vm/keystore.rs`, `keys.rs`) | a Secret at home, copies per namespace | add, remove, attach | apiserver | read-edit-write with a second read; copies written one by one | copies are lists the home had; an edit reaches them; no edit is lost |
| Followed files (`token.rs`, `tls.rs`, `apiserver.rs`, `auth.rs`, `listen.rs`) | what was read and its modification time | look, read, store, answer | files renewed by others | stat, read and store without one lock; a pair renewed file by file | what is kept under a time is what the file held then; settles |
| Storage gate, sessions, sign-in (`auth.rs`, `storage.rs`) | sessions, kept reviews | sign in and out, name the viewer, gate, review, forward | apiserver, token files, proxies | credentials change between naming and gate; reviews overlap | readers do not write; destruction is the viewer's own, and currently allowed |
| Feed, registry, push (`feed.rs`, `registry.rs`, `server.rs`, `stores.svelte.js`) | a plugin's rows, the published snapshot, each page | poll, refresh, subscribe, send, paint | daemons, pages | poll, refresh, socket and REST paint all overlap; slow sockets lag | no publication missed, a page never goes back |
| Log ring (`logs/store.rs`, `collector.rs`) | entries, index, aggregates in redb | insert, prune, make room, recover, open | disk, multicast, followers | two tasks, I/O errors with unknown commits, restarts with another configuration, the clock | aggregates and index agree with entries; bounded; comes back |
| Log scope (`logs/scope.rs`, `beacon.rs`) | what was heard of each host | hear, decide which host is ours, rows, query, tail | multicast, apiserver | a name and an address that disagree | a line is in one node's row; the tail is the query |
| Dialling a node (`dial.rs`, `upstream.rs`) | what is known of a port's TLS | route, ask, forget | daemons | what is remembered outlives what was asked | plain only where the configuration lets it |
| VM settings, disks, networks (`vm/settings.rs`, `disks.rs`, `network.rs`) | none | read, patch | apiserver, watch cache | patches of whole arrays built from a cached spec, two at once | every disk has its volume; what was written is shown or pending |
| VM creation, images (`vm/create.rs`, `images.rs`) | the last list of images | offer, wait for a digest, place, write the objects | apiserver, image operator | several objects of which one fails; an image that is built while the form is open | what a machine names is there, or will be a volume |
| VM rows, snapshots, doors (`vm/components.rs`, `snapshots.rs`, `console.rs`, `rdp.rs`, `identity.rs`) | a probe of stormvm | rows, take, restore, open a door | watch cache, stormvm, kubelet | what is offered is judged again when it is asked | what is offered is taken; what is said of policy and identity is so |
| Object views, import (`kubernetes/components.rs`, `network.rs`, `netview.rs`, `objevents.rs`, `apply.rs`) | none | rows, pages, save, delete, import | watch cache, apiserver | the same object in many answers, each of which hides | nothing of a hidden project is in any of them |
| Pod page (`pod.rs`, `podpage.rs`, `env.rs`, `exec.rs`, `flows.rs`) | none | the page and its routes | watch cache, apiserver, node | as above | as above; a Secret's value is never shown |
| Runs and samples of a pod (`logruns.rs`, `stats.rs`) | earlier runs of each container, samples of two hours | look, fetch, keep, scrape | kubelets | a pod put back under its name, a container that restarts between two looks | what is kept is of this pod and this run or newer |
| Node history, API health (`history`, `apihealth`) | the volume last read, the last snapshot | refresh, answer, poll, fall back | files two writers leave; PID 1, stormds | two names of one boot, a volume that is paused, a line torn | a boot is one row; a stall is said |
| Fleet nodes (`fleet`) | verdicts, feeds | discover, poll, page, proxy | node daemons | what is last known of what stopped answering | a node is shown no better than what is told of it |
| Drives (`stormdrive`) | feeds, formats, usage, each a short while | discover, format several nodes, usage | drive daemons | one request per node, each may fail; answers kept for everyone and hidden for one | a format is what was asked for and says what began |
| Registry page (`sbregistry`) | holdings, a short while | read, hide, poll | registry, engine, apiserver | three sources that disagree, one of which fails | holders are true; the hidden are hidden |
| Engine pages (`stormblock`) | the last poll, placement, who waits for a digest | poll, four lists, placement, digest | block engine | four lists read at once while a spare takes over | a row offers what the engine takes; a card is no better than its sets |
| Datastore, pod network, metrics, cluster, machines, update and storage pages | at most the last answer | JSON to rows, a form passed on | daemons | — | not modelled: one answer each |
| Configuration, audit, mounts, static files, browser layout, scripts | read once | — | — | — | not modelled |

How they meet: the watch cache feeds the Kubernetes plugin's rows and the list of
projects `authz.rs` asks about; `authz.rs` scopes the feed for every socket;
handlers of the vm plugin read the watch cache and write to the apiserver, whose
events come back through the watch; whatever leaves the process goes with a
bearer a followed file holds, or with the viewer's own, as the gate decided.
Modules cut along these lines, and each takes its neighbour as an external party
at the level its own code can tell: to `ProjectAccess` the watch cache is a set of
known projects that lags; to `VmLifecycle` it is a phase that may be old.
Creation shares the keys with the key store, so `VmCreate` extends `KeyStore`; the engine's pages and the
registry's name the same images, so `Engine` takes `Registry` as a catalog.

## What is modelled

| Module | Models | State ↔ code | Actions ↔ code |
|---|---|---|---|
| `WatchCache` | one kind's list and watch loop, the stream it reads, the applier, writers that observe their saves | `present`, `objects`, `synced`, `absent` = `Store`'s four maps; `chan` the mpsc channel; `pc` the place in `watch_resource`; `log` the apiserver's revisions (external) | one per await or lock of the loop: `SendList`, `ListAnswered`, `ReplaceObjects`/`ReplaceSynced`/`ReplaceAbsent` (three locks, three steps), `StreamEvent`, `Apply`, `Observed`, … |
| `ProjectAccess` | one viewer's asking, the answers kept, the project handlers | `cache` = `Authorizer.cache`; `req` an asking under way; `known` = `Store::namespaces`; roles and projects external | `Hit`/`Miss`, `ClusterReviewed`, `ProjectReviewed`, `Reviewed`, the settling questions, `Keep`; `AddMember`, `RemoveMember`, `CreateProject`, `Forget` |
| `VmLifecycle` | the four verbs of a machine, two requests at a time, KubeVirt | `op` a handler under way with its plan; `def`, `inst` the apiserver's objects; `seen*` the watch's | `MakePlan` is `lifecycle::plan`, then `SwitchWritten`/`SwitchFailed`/`SwitchUnknown`, `InstanceGone`/`DeleteFailed`, `Undefined` |
| `KeyStore` | add, remove and attach, with the copies | `secret` each namespace's list; `op` a request | `Read`, `Write`, `Refused`, `WriteUnknown`, `ListCopies`, `NextCopy` |
| `VmCreate` | creating a machine beside the edits of the keys it carries (extends `KeyStore`) | `seed`, `vm` the apiserver's objects; `make` what a creation has settled | `CreateAsked`, `CreateFailed`, `Seed`/`SeedUnknown`, `CopyStep`/`Copied`, `Own`, `Machine`, `CreateLeft`, `DeleteMachine` |
| `RootDisks` | what a machine can boot from, and the name one choice becomes | `offered` = `images::Cache`; `form` a creation at its wait; `image`, `onNode`, `placing` the operator's and the node's | `Poll` (`fetch` and `put`), `Submit`, `Golden`, `WaitDigest`, `Deadline`, `Place`, `Leave` |
| `MachineEdits` | settings, disks and networks of one machine, two requests at once | `def`, `inst` the apiserver's; `seen` the watch's; `op` a handler with the patch it made | `Ask`, `Taken`, `Patched`, `PatchFailed`, `Leave`; `Start`, `Stop`, `OutsideEdit`, `WatchDefinition` |
| `NodeDrain` | cordon, uncordon and drain, and the cluster | `drain` a drain's lists; `cordoned`, `pod` external | `ListPods`, `CordonFirst`, `AskEviction`, `BudgetAllows`, `BudgetRefuses`, `Evicted`, `EvictionFails` |
| `FollowedFiles` | six followers of files, several threads | `seen` what a follower keeps; `call` a thread's place; `file` external, with a modification time that never repeats | `Stat`, `CheckMoved`/`CheckSame`, `Read`, `ReadFails`, `Store`, `Use`; which of them a mutex spans differs by follower (`Locks`, `StatsFirst`, `Rereads`, `Retries`) |
| `RenewedWord` | what following a file promises: an abstract register | `word` what is held, `ask` what each thread may be answered | `Renew`, `Begin`, `Fault`, `Answer`, `Leave` |
| `StorageGate` | sign-in, sessions, naming, the gate, the review of destructive storage, whose bearer goes upstream | `session` = `Sessions.inner`; `cache` = `Reviewer.cache`; `req` a request or a page; `files` the token files' words; `admins` external | `Login`, `SessionEnds`, `Arrive` (viewer), `LetIn`/`Unauthorized` (gate), `Kept`/`NotKept`/`Ask`/`Keep` (review), `Forward` |
| `FeedPush` | a plugin's poll, the registry's refresh, sockets, pages | `feed` the plugin's, `snapshot` the registry's, `build` the refresh under way, `socket` with its broadcast queue and wire, `page` | `Poll`, `Slice`/`Card`/`Publish`/`Send`, `Connect`, `ReadFeed`, `SendFrame`, `Notified`, `Lagged`, `Fetch`, `FirstPaint` |
| `LogRing` | the redb ring and its two tasks | `ring` the committed tables, `db` the handle's state, `task` each task's operation and place, `stage`, `since`, `spent` | `Insert`, `Prune`, `Look`/`Count`/`Shed`/`Compact` (make_room), `Claim`/`Reopen`/`Finish` (recover), `Open`, `Crash`, `Tick`, `SetBack` |

The pages keep no state in common, so `MCPages` is one page at a time and each page's state
is in two variables: `world`, what the caches, probes, kept answers and other
daemons hold, and `card`, the part of the page that is looked at.  Where a page is
computed anew from the caches on every request, one event of `world` changes one
part of it and the operators named after the functions of the code compute the answer
and each refusal; where the plugin keeps something, or a request has several steps, those are actions.

| Module | Models | Steps |
|---|---|---|
| `MachineViews` | a machine's row and its buttons, how far policy reaches it, backup, the two console doors, remote desktop, what its guest is told | an `Event` of KubeVirt, stormvm, a probe or a sign-in |
| `ClusterViews` | rows of every kind with health, relations, actions and scope; a pod's network; policies and endpoints; the network card; one object's page, save, deletion, events; an import document by document | an `Event` of the apiserver or of who looks |
| `FleetViews` | a node's row and page, what it proxies; which host is whose in the logs, the query and the tail; the route of a port and what is remembered of it | `Event`, `PollVerification`, `Discover`, `Ask`, `Forget` |
| `PodViews` | the routes of a pod behind one door, image, probes, Services, volumes, owners, environment, flows | an `Event` |
| `PodRecord` | the earlier runs of a container and the samples of a pod | `Observe`, `Look`, `Fetch`, `Scrape`; `Restart`, `Replace`, `Recreate`, `Place`, `Tick` |
| `NodeHistory` | boots paired, newest lines of a torn file, drive records, a volume that is paused, the states of the APIs and their fallback | `Refresh`, `Ask`, `Poll`; `Begin`, `Start`, `AppendLine`, `TearLine`, `Pause`, `Change`, `Rewrite`, … |
| `Drives` | a format of several drives of several nodes, the usage kept for everyone, which drive daemons are read | `OpenPage`, `AskFormat`, `CheckFormat`, `SendFormat`, `AnswerFormat`, `AskUsage`, `AnswerUsage`, `Discover`, `Refresh`, `PollFeed` |
| `Registry` | who holds which image, and the registry's card | `ReadHoldings`, `HoldingsAge`, `PollRegistry` |
| `Engine` | the engine's rows, the RAID page from four lists, placement, an image's digest | `Poll`, `ReadList`, `RaidAnswer`, `AskPlacement`, `MayAsk`, `Digest`, `Started` |

A module named `<M>Proofs` holds the theorems about module `<M>` and their proofs:
`ProjectAccessProofs`, `VmLifecycleProofs`, `VmCreateProofs` (which
covers `KeyStore` too), `NodeDrainProofs`, `FollowedFilesProofs`, `StorageGateProofs` and
`LogRingProofs`.  `CacheToPageProofs` is about the way from the apiserver to a page and
back: `WatchCache`, `FeedPush` and, through `MCPages`, `MachineEdits`, `RootDisks` and every page.  The `MC*`
modules give symmetry sets, and `MCPages` puts the pages side by side.

Conventions.  A message, name or payload is a model value; a version is a number
or an identity where order matters.  What a handler reads before an await it
keeps in its record, and what it does later it does with that.  A write to the
apiserver that can fail has three outcomes: done, refused, and done with the
answer lost.  A definition named as a *mutant* is a plausible bug: put in place
of the definition it precedes, it breaks the property `PROJECT.json` names, which is how
every property is known to be able to fail.

## What is checked

All runs pass except `vm_create_seed`.  Each takes up to two and a half minutes on two
workers.

| Run | Bounds | Shows |
|---|---|---|
| `watch_cache` | two objects, three revisions, a channel of two, one kind that may be absent | `ConsistentSnapshot`; `FlagsHonest`: an absent kind has no key, a synced one has its stream; `Converges`, `ShutdownEnds` under fairness |
| `project_access` | one viewer, one project, one page request, a window of one tick, an asking of one | `TakenAwayIsHidden`, `HeldIsShown` |
| `vm_lifecycle` | two requests on one machine, two instances of it | `StopStops`, `RestartReplaces`; `FreshInstance` if the controller keeps up |
| `vm_create` | two requests, each an edit of the keys or a creation; two keys, the home Secret and one namespace with a machine | `CopyOfHome`, `EditReachesCopies`, `AttachedIsCurrent`, `NamedIsThere` |
| `vm_create_seed` | the same | **violation**: `SeedCarriesKeys` |
| `node_drain` | one drain at a time, two nodes, two pods under a budget of one, one solo pod that may be deleted at any moment | `BudgetKept`, `ListedOrGone`, `EvictedIsElsewhere`; `DrainedInTheEnd` under fairness |
| `followed_files` | two threads on any one of the six followers, two writes after the first, one failing read | `KeptIsContent`, `AnswerWasHeld`, and that `FileToken` implements `RenewedWord` (`TokenIsRegister`); `SettledIsKept` under fairness |
| `storage_gate` | one user with no identity upstream, one install token, the console's token and a certificate, one session, one request and one page at once | `ReviewIsCurrent`, `ActsAsItself`, `ReaderNeverWrites` |
| `feed_push` | a daemon that goes up and down, one project with its pod, one page, a queue and a wire of one, one change outside or broken connection | `NeverGoesBack`; `KeepsUp` under fairness |
| `log_ring` | one host, two severities, a cap of two, three instants, three sequence numbers, one trouble of each behaviour: an I/O error, a restart that may turn dedup (first on) off, or the clock set back | `AggregatesAgree`, `IndexFollows`, `RingBounded`, `PruneLeavesNothingOld` |
| `log_ring_live` | one line, two I/O errors | `RingComesBack`, `OldGoes` under fairness |
| `pages` | one page of one part at a time; two edits of a machine with two values and two definition writes, two images and one medium, and for the other pages the small sets their modules define | `DisksPaired`, `EditShows`, `NamesAVolume`, `OfferedIsTaken`, `SaidIsSo`, `FoundIsSo`, `HiddenUnreferenced` |

The last four of `pages` say one thing of every page it is true of; the page's own module
has the words.  What `SaidIsSo` says, page by page: a machine shows an endpoint exactly where policy reaches
it, and a guest is called answered only if every address was its own; the network card is no better than what its agent complains of; a
node is no better than what is told of it and a log line is in one node's row; a
Secret is never in a pod's environment and a failing probe is of this run; a kept run is
of this pod, and a chart has every sample of its window; a volume that is paused is not said to hold nothing; a
format did what it says, for every drive that was not changed for another since its serial was checked; a
port is asked plainly under `require` only where it did not answer, and a bearer goes out in the clear only to this
host; a registry that shows nothing says why; a
RAID word is the worst of its sets and a
spare called free was free in the lists.  `FoundIsSo` is what a page finds by walking through
many things: where boots are further apart than the slack (`Apart`) a
boot is one row with its own timeline, and either of its names finds it, and however near they are its record does; the newest lines are shown and none is missed out unsaid, an API that
stalls is in the card, a clone is in one place on the registry's page, and there the engine's page has it too.

What `HiddenUnreferenced` covers: rows of watched kinds, relations, pages, events, saves and deletions of a hidden
project's objects, what a drive's usage says, and the holders and clones on the registry's page by their own
rows.  Two leaks the code has are outside it: a container's row, and the names a clone's
parents go by (`via`); both are noted [below](#where-the-code-and-its-comments-differ).

`followed_files` checks its module's `TypeOK`, mutual exclusion with it.  The other modules that have one
state it for the proofs, which is where it is established.

**Why the bounds are enough.**  Two requests (or threads) are what a race needs:
every race found or excluded here is between two steps of one and one step of
the other.  Where a run has one actor of a kind, the race is with another kind:
in `node_drain` between a drain and the cluster, in `project_access` between one
asking and the handlers and the kept answers of earlier askings, in
`storage_gate` between the request, a page with the same identity, and the
changes of its credentials.  Three revisions let an
object be made, deleted and made again across a re-list.  A channel of two can
hold an old event behind another and can be full.  A ring capped at two prunes,
sheds and reuses an index row within three inserts.  Windows of one tick
separate "within the window" from "after it", and `AskTicks` lets the window pass
during an asking.  In `log_ring` the troubles come one per behaviour, so
that, say, an I/O error after a restart is only covered where the restart
changes nothing the error depends on: the file.  In `pages` an event changes one part at a
time, and every combination of what one card looks at is reached; what a card does not
look at stands still, because no operator of that card reads it.

**Bounds in guards.** `MaxRev` (WatchCache) stops the outside writing,
`MaxInst` the controller making instances, `MaxWrites` and `MaxFails` (FollowedFiles)
renewals and failing reads, `MaxWrites` (MachineEdits) the writes of a definition, `MaxEvents` (FeedPush) changes outside, `MaxSeq`, `MaxTime`
and `MaxTrouble` (LogRing) lines, ticks and troubles, `AskTicks` how long an
asking lasts.  The theorems hold for any value of them.  None bounds the console's own retries.

**Symmetry** is used only in runs without liveness, over sets whose members the module
treats alike.

**Deadlock** is checked, except in `watch_cache` (a kind whose watch was shut
down stops), the two log ring runs (a ring that cannot be opened at boot stops
the plugin) and `pages` (a page that was answered, and a request that ended, ask nothing more).

**Fairness**, and why the code justifies it:

- `WatchCache`: each step of the loop and of the applier (one task each, no step
  waits for anything else); the apiserver that is asked again and again answers a
  list some time (strong, because it may be down in between), and ends a stream
  some time (it has a request timeout of its own).
- `VmLifecycle`: KubeVirt's controller starts a machine that is to run.  The
  console's requests need no fairness: the property is about confirmed ones.
- `NodeDrain`: pods come up and go, a request runs to its end, somebody drains a
  cordoned node again ("draining again is how it is retried"), and an apiserver
  asked again and again does what it is asked some time.  Without the
  last two the property would be about the operator's patience.
- `FollowedFiles`: a thread that asked goes on, and others ask.

  The refinement needs no fairness: `TokenIsRegister` maps the file's word and each
  thread's call to `RenewedWord`, where a thread may be answered any word held since it began.
  It is proved as well (below).  It holds of `FileToken` only: the others answer what they keep, and `Conn::token` may
  answer a word older than its call (below).
- `FeedPush`: poll, watches, refresh, each socket and each page's reconnection
  run on timers or loops of their own.
- `LogRing`: the two tasks run, the sweeper on its timer, and the wait between
  recoveries ends.  No fairness on the disk: it may stay bad as long as the
  bound lets it.

## What is proved

TLAPS proves the following for every value of the constants, from the named
assumptions on them only.  The assumptions say that the bounds are natural numbers
(positive where zero would mean no window, no instance, no room), that the finite sets of a count are
finite, and that the value that stands for "none" is none of the others;
`MinAvailable` is at most the managed pods there are, which is what the apiserver
can honour at all.  The properties of the runs that no row names are in the last
paragraph of this section.

| Theorem | States | From |
|---|---|---|
| `CacheToPageProofs!TypeCorrect` | `Spec => []TypeOK` | `ConstantsAssumption` |
| `CacheToPageProofs!SnapshotConsistent` | `Spec => []ConsistentSnapshot` | the same |
| `CacheToPageProofs!FlagsStayHonest` | `Spec => []FlagsHonest` | the same |
| `CacheToPageProofs!PushTypeCorrect` | `FeedSpec => []FeedTypeOK` | `CapAssumption`, `NoFeedAssumption` |
| `CacheToPageProofs!PageNeverGoesBack` | `FeedSpec => NeverGoesBack`, an action property | the same |
| `CacheToPageProofs!DisksStayPaired` | `"bus" \notin Fields` implies `PagesSpec => []DisksPaired` | none |
| `CacheToPageProofs!EditsShow` | `PagesSpec => []EditShows` | `EditAssumption` |
| `CacheToPageProofs!MadeOfAVolume` | `PagesSpec => []NamesAVolume` | none |
| `CacheToPageProofs!OffersAreTaken` | `PagesSpec => []OfferedIsTaken` | `NoneAssumption` |
| `CacheToPageProofs!HiddenStaysHidden` | `PagesSpec => []HiddenUnreferenced` | none |
| `CacheToPageProofs!WhatIsSaidIsSo` | `PagesSpec => []SaidIsSo` | `NoneAssumption` |
| `ProjectAccessProofs!TypeCorrect` | `Spec => []TypeOK` | `TimeAssumption`, `NoAnswerAssumption` |
| `ProjectAccessProofs!NothingTakenAwayIsShown` | `Spec => []TakenAwayIsHidden` | the same |
| `ProjectAccessProofs!NothingHeldIsMissing` | `Spec => []HeldIsShown` | the same |
| `VmLifecycleProofs!TypeCorrect` | `Spec => []TypeOK` | `InstancesAssumption`, `NoneAssumption` |
| `VmLifecycleProofs!StoppedStaysDown` | `Spec => []StopStops` | the same |
| `VmLifecycleProofs!RestartedIsAnother` | `Spec => []RestartReplaces` | the same |
| `VmCreateProofs!KeyTypesCorrect` | `CreateSpec => []TypeOK` | `HomeAssumption`, `NoneAssumption`, `MakersAssumption` |
| `VmCreateProofs!CopiesComeFromHome` | `CreateSpec => []CopyOfHome` | the same |
| `VmCreateProofs!EditsReachCopies` | `CreateSpec => []EditReachesCopies` | the same |
| `VmCreateProofs!AttachesAreCurrent` | `CreateSpec => []AttachedIsCurrent` | the same |
| `VmCreateProofs!NamedExists` | `CreateSpec => []NamedIsThere` | the same |
| `NodeDrainProofs!TypeCorrect` | `Spec => []TypeOK` | `PodsAssumption`, `BudgetAssumption`, `DrainsAssumption`, `NoPodAssumption` |
| `NodeDrainProofs!OverrunIsBounded` | `Spec => []OverrunBounded` | the same |
| `NodeDrainProofs!OneDrainKeepsBudget` | `Cardinality(Drains) = 1` implies `Spec => []BudgetKept` | the same |
| `NodeDrainProofs!ListedAreAccountedFor` | `Spec => []ListedOrGone` | the same |
| `NodeDrainProofs!EvictedStayAway` | `Spec => []EvictedIsElsewhere` | the same |
| `FollowedFilesProofs!TypeCorrect` | `Spec => []TypeOK`, with mutual exclusion of the followers that hold a mutex | `FollowersAssumption`, `BoundsAssumption`, `WordsAssumption`, `ValueAssumption` |
| `FollowedFilesProofs!KeptCorrect` | `Spec => []KeptIsContent` | the same |
| `FollowedFilesProofs!AnsweredWasHeld` | `Spec => []AnswerWasHeld` | the same |
| `FollowedFilesProofs!TokenImplementsRegister` | `Spec => TokenIsRegister`, the refinement of `RenewedWord` | the same |
| `StorageGateProofs!TypeCorrect` | `Spec => []TypeOK` | `TimeAssumption`, `UserAssumption`, `NameAssumption` |
| `StorageGateProofs!ReviewsAreCurrent` | `Spec => []ReviewIsCurrent` | the same |
| `StorageGateProofs!DestroysAsItself` | `Spec => []ActsAsItself` | the same |
| `StorageGateProofs!ReadersDoNotWrite` | `Spec => []ReaderNeverWrites` | the same |
| `LogRingProofs!LinesAreFound` | `Spec => []IndexFollows` | `RingAssumption` |
| `LogRingProofs!LinesStoredOnce` | `Spec => []OneEntryEach`: where deduplication is never off no line has two entries | the same |
| `LogRingProofs!AggregatesStayTrue` | `Spec => []AggregatesAgree` | the same |
| `LogRingProofs!RingStaysBounded` | `Spec => []RingBounded` | the same |
| `LogRingProofs!PrunesLeaveNothingOld` | `Spec => PruneLeavesNothingOld`, an action property | the same |

Each proof module opens with its strengthening, `IInv` and its named parts; then one
lemma per action (or per group that changes the same variables), one each for the initial states
and for `Next`, and last the theorems.  Each `IInv` was checked by TLC on the instance of the
module's run before it was proved.

**The snapshot.**  `ConsistentSnapshot` says every key holds what the server held
at the applied revision, or something the console itself wrote to it that is newer than that (`Ahead`) or of a
key that revision has nothing of (`BroughtBack`: an *older* object, put back by `observe` after the watch
applied its deletion).  So no object that is there is ever shown older than the applied revision; that a
deleted one may come back is the code's, and TLC's traces reach it (noted below).  The property is not
inductive: applying an event is right only if that event is the next one.  The
invariant adds that the log is what its entries say (`LogSteps`), that what a
revision wrote is at any later revision gone or no older (`NeverOlder`, which is
why `observe`'s comparison with the entry in the map is enough), that the channel
holds exactly the events after the applied revision, in order, and is empty
outside watch and drain (`ChannelInOrder`), and that an answered write was the
console's (`ResponsesOwn`).  The proof of preservation goes conjunct by conjunct
(`LogStep`, `ChannelStep`, `ResponsesStep`, `SnapshotStep`), with the two actions that write
the map in lemmas of their own: `ApplySnapshot` and `ObserveSnapshot`.  `FlagsHonest`
needs of that only that no event waits while a kind is being marked absent, so nothing brings a key
back between the two locks.

**The push.**  `NeverGoesBack` compares what a page shows with what it is painted with next,
and those come by two ways: a frame off its socket, a fetch at its first paint.  `PushInv` puts all that is on its way to a
page in one order (`InOrder`): frames on the wire are in the order they were published, none newer than what the
socket has read, none older than what a live page shows; what the socket has read or a fetch holds is no
newer than the registry's.  A socket that lags reads again and so keeps the order; one that breaks
drops its wire, and its page is not live until it is painted anew.  The queue's and the wire's
capacities are any positive numbers.

**Edits.**  A disk and its volume are two arrays, each replaced whole, from a cache that may be old.
`DisksPaired` holds because every patch says both arrays or neither (`PairedBody`), and each of the three places a
definition is in (the server, the cache, a request's plan) holds a pair that agrees: a stale pair is
still a pair, so what is lost with it is a disk *and* its volume.  An edit of the bus says one of them only and without
a name, which is why the theorem, like the run, leaves that field out.  `EditShows` follows a
setting from the patch that says it (`SaysIt`) to the definition that holds it until another write
disturbs it (`Fits`).

**The root disk.**  `DiskInv` says what a choice may be by where it is in the handler: a reference only
until it is placed, a local name only where it is pinned, and then the copy was asked for; and that what is
offered as a volume is sealed, which images stay.

**The pages.**  Most of what a page says is computed from its caches in one step, so
`OfferedIsTaken`, `HiddenUnreferenced` and `SaidIsSo` need of the state only its shape, and the proof is about the
operators: `ViewKept` and `SaidKept` are that shape, page by page, and a lemma for each page
(`ClusterHides`, `MachineOffers`, `PodSays`, ...) compares the two functions of the code that decide the
same thing in two places.  Where a page keeps something the invariant is about steps:

- *Formats* (`FormatInv`): every drive asked for is still to be asked of its node, was, or is of
  a node that had left (`Covered`); nothing is begun but what was asked for and, alone, held against its serial,
  or a drive that was put in that bay since the check (`Begun`); and no page, kept or shown, is older than what it is shown beside (`Shows`).
- *Runs* (`RunsTrue`): what is kept of a pod's container is of that pod or of one put back under its name
  later, in order, each run later than the one before it by more than was missed; what a fetch under way
  was started for, its track knows nothing of yet.
- *Charts* (`StatsTrue`): samples are at least as far apart in time as in the list, so one the cap drops has left
  the window, and every answer in the window is a sample.
- *RAID* (`RaidTrue`): while nothing has moved, every list that was read is what is; a page made of
  lists is the view of exactly those, failed ones empty.
- *Digests* (`DigestTrue`): an ask waits no longer than its budget, and one that was given up is as far behind as
  the hold-off, so an image is left alone between two reads.
- *Polls and placement* (`PollTrue`, `PlacementTrue`): a card is made of the lists that came, and what is
  kept of the placements is those placements turned inside out.

**Access.**  The two properties bound an answer's age by the window and two askings, and neither is inductive:
what a request holds halfway is right only for the projects that did not
change since it began.  The invariant says so project by project (`Still`, the ticks since
a project changed against the age of the request): what reviews have come in are those the roles of
an unchanged project give (`RightsInTime`), what is shown so far is held and what is held is shown or
still to be asked (`SeenInTime`), an answer promises both (`AnswerInTime`), and an
entry of the cache promises them for its own age and the asking it came from (`CacheInv`).
A grant or a revocation sets `quiet` of its project to zero, which makes every
promise about it void; a tick ages both sides alike.

**Stop and restart.**  `IInv` says that a request follows the plan of its verb (`Planned`) and what it may rely
on past its switch (`Standing`): after a stop's switch that nobody disturbed the
definition says no, so nothing comes up behind its delete; and no instance is as old as the one a
restart found, since identities only grow.

**Keys and creations.**  `EditReachesCopies` speaks of a finished edit; the invariant follows it from
its listing on: while a request is alone the home Secret holds its list and every copy outside those it has still to
visit (`Behind`) holds that list or is not there (`Current`).  A list on its way
to a copy is one the home Secret has held, overlapped or not (`Sound`), which is all
`CopyOfHome` needs.  A creation adds `Prepared`: what the definition is going to name has been
written before, and nothing of the console deletes it.  `Alone` says two
requests are never both marked as alone while under way.

**The drain.**  `BudgetKept` counts: a drain has at most one eviction that passed the budget's check
and is not done (`OneAtATime`), so without those pods the budget is short of one for each
drain at most (`Covered`).  With one drain that is the budget; with several it is what
`OverrunBounded` says, which is exactly how far the two-at-once race noted below can
go.  `ListedOrGone` and `EvictedIsElsewhere` hold of any number of drains, from what each
drain's lists say of the pods that are still the ones it listed (`Followed`) and of a node nobody uncordoned (`Vacated`).

**The followed file.**  `KeptIsContent` says what is kept under a file's present modification
time is its present word.  It needs that no time was seen before it was given out
(`Behind`), and that what a call has read is the file's word if the file
is still the one it took the time of *before* reading (`ReadAfterStat`): the order
stat, then read, is the whole argument, and no lock is needed for it.

`AnswerWasHeld` relates the threads: what another thread got and may store under the time this one found was held
during this call too, because it was read after that time was found, or is of that very file
(`CallsAgree`); what is kept by then under that time was held (`CallsHonest`).  The refinement follows step for step:
an answer of `FileToken` is allowed by the register, every other step is a `Begin`, a
`Fault`, a `Miss`, a `Leave`, a `Renew` or a stutter.  The attempt to prove it showed a
refinement without `Miss` to be false: a file that comes up between a thread's stat and
its read is kept under "no time", and another thread that finds it gone again is answered its word.  That
takes three writes, one more than the run has, so TLC had not shown it; `RenewedWord` now says what the code
does, and `AnswerWasHeld` is about the calls that found their file.

**The gate.**  `ReaderNeverWrites` and `ActsAsItself` need that the request still is who it was named
(`Named`: what named it was presented with it, and a session is never handed to somebody else,
`SessionInv`) and what it has passed (`Passed`).  `ReviewIsCurrent` adds up ages: an answer on its
way to the cache is as old as its asking, one in it as much and its age (`KeptInTime`), one taken out as much and the age
of the request besides (`InTime`).

**The ring.**  `IndexFollows` and `AggregatesAgree` are inductive with the types of the tables (`Rows`)
and the rule that a row of the index points at an entry of its own line or at none
(`Indexed`, from which `OneEntryEach` follows as well); a line stands for its digest, so that two lines never share
one is assumed; `OrderInv` says that a clock never set back stamps the entries in order, so that
stopping at the first live entry leaves nothing old; `BoundInv` counts what may be in the ring while the sweeper, the collector and a
recovery overlap (`Swept`, `Allowed`): until the collector has tried the prune that is due,
`since_prune` does not count its lines.  What `insert` and `prune` compute is a fold over a batch
and sums over sets of entries.  The library's induction theorems are out of reach here, so
the few facts about them go by least elements instead: a set of naturals with zero in it,
and with each number the next, is all of them (`Least`, `Induction`, from the library's
`NatLessThanWellFounded` and `WFMin`), applied to the set of batch lengths or cardinalities for which the fact holds.
The bounds `MaxTime` and `MaxSeq` play no part: `TypesInv` and `Rows` carry the types.

What the proofs changed in the models, besides `Miss`: operators whose `CASE` arms
overlap or cover nothing, where TLC takes the first arm and the logic says nothing, are conditionals
(`After` of `KeyStore`, `Viewer` of `StorageGate`, `StageAfter` and `AfterInsert` of `LogRing`);
`PruneLeavesNothingOld` is about a ring that has a retention (`Retain = 0` keeps
lines for good, and the run has `Retain = 1`); what a list of disks holds without one of them is given by the places it keeps, in their order (`Without`
of `MachineEdits`), that no name is twice in it by comparing places (`Distinct`), a run's text by the first place that has
its number (`RunText`) and a chart by a set of points (`Series`), where filters and counts had said the same by
recursion; the arms of `Verdict` exclude each other; what a format asks is one record (`op` of `Drives`); and assumptions that were tacit are
named, those on "none" above all: in `NoneAssumption` it is told apart from every value it stands beside.

**Only model-checked.**  Everything under fairness (`Converges`, `ShutdownEnds`,
`FreshInstance`, `DrainedInTheEnd`, `SettledIsKept`, `KeepsUp`, `RingComesBack`,
`OldGoes`), which is out of this prover's reach; and `FoundIsSo`, which speaks of what walks through lists, months
and parents compute: recursive functions and sorted sequences, which would need an
induction over their data, or be unrolled to the bounds of the model and so be proved of those only.  It was one invariant with `SaidIsSo` and is
apart from it so that the rest could be proved.  `SeedCarriesKeys` is false, and a run shows it.

## Where the code and its comments differ

One of these is kept as a run, `vm_create_seed`: a seed Secret that is there
already, answered with a 409, is used as it is (`vm/create.rs:563-567`), so a machine made again
under its name boots with the keys of the earlier one, although
`vm/create.rs:588-590` says "the seed already carries every key, and that is what puts them in the
guest today".  TLC shows a creation that counts a key its seed does not carry.

Those that follow were met while modelling, each with a counterexample, and are noted here
so that the properties' preconditions can be read against them.  Of the first five the models
hold the behaviour, and the formula that is false of it is given: TLC refutes it as an INVARIANT of the module named.

- **`kubernetes/src/cache.rs:395`** Store::observe compares resourceVersions
  only with the entry still in the map, so when the watch has already delivered
  the object's deletion there is nothing to compare with and the older object is
  inserted; the comment at kubernetes/src/cache.rs:386-387 says "Never replaces
  a newer `resourceVersion` the watch has already delivered." TLC shows a
  write, its deletion by somebody else, the watch applying both and the observe
  bringing the object back, where it stays until the next event of it or list.  In
  `WatchCache`: `present => \A k \in Keys : objects[k] # At(Applied)[k] => Ahead(objects[k])`.
- **`console-core/src/dial.rs:143`** With `[node_tls] require` on, a port that did not answer the
  question over TLS is handed back as it was given, so it is asked plainly where it was given as http;
  config/config.toml:199 says "true: no port is read plainly", and README.md:236 "plain only while `require`
  is off". The bearer is withheld.  In `FleetViews`:
  `card = "dial" /\ world.dial.files = "read" /\ world.dial.require => Route(world).to # "plain"`.
- **`kubernetes/src/lib.rs:593`** visible_to reads off an id whether its row is withheld, and takes a
  kind that is not watched for a cluster-scoped one; containers are not, so the rows of a hidden project's
  containers are sent.  The comment at stormconsole/src/server.rs:318-319 says "a viewer's
  socket never carries a component they may not see."  In `ClusterViews`:
  `card = "row" /\ world.hidden /\ world.obj.kind = "container" => Row(world.obj, world) = None`.
- **`sbregistry/src/holdings.rs:308`** A clone's `via` names the volumes between it and its image, whoever
  holds those, and for_viewer clears it only on the rows of hidden holders; the comment at
  sbregistry/src/holdings.rs:352-353 says of a hidden holder "counted and not named. The clone's own name goes
  too".  In `Registry`: `Answered => LET s == ForViewer(world.kept.holdings, TRUE) IN
  \A c \in s.clones \cup s.unparented : \A v \in c.via : world.vols[v].held # "hidden"`.
- **`history/src/store.rs:453`** Pairing takes the smallest gap from minus the slack on, so the record of a boot
  within two minutes of the start of the one before can be joined with that one's timeline although its own is
  at or after it; the comment at history/src/store.rs:433-434 says "the newest record to the earliest timeline at
  or after it."  In `NodeHistory`: `BootsAreWhole` without `Apart`.
- **`kubernetes/src/cache.rs:407`** Store::apply inserts an ADDED or MODIFIED
  object without comparing resourceVersions, and Store::replace
  (cache.rs:361-366) replaces the map whole, so an older event in the channel,
  or a list answered before the save, puts the old value back after observe; the
  comment at kubernetes/src/cache.rs:384-386 says "A page that re-reads right
  after a save otherwise races the watch and can show the old value", as what
  observe prevents. TLC showed the old value shown again after the save.
- **`kubernetes/src/authz.rs:295`** Authorizer::answer asks without the lock and
  inserts what it got when it is done, so an asking under way while add_member
  calls forget (authz.rs:283) stores the older answer after the clear and serves
  it for the whole window; the comment at kubernetes/src/projects.rs:538 says
  "Whoever was just let in should see it now, not in 30 seconds."
- **`kubernetes/src/authz.rs:290`** Authorizer::answer asks only about the
  namespaces the watch cache knows; a request between create_project's forget
  and the watch event of the new namespace stores an answer without the project,
  which then hides it from its maker for 30 seconds; the comment at
  kubernetes/src/authz.rs:280-282 says forget is called when the console itself
  changed who may see what: "a project made — so the person just let in is not
  shut out for the rest of the cache window".
- **`kubernetes/src/authz.rs:571`** visible computes hidden from one reading of
  the namespaces and filters a second reading with it, so a project that the
  watch brings in between is named although nobody asked the apiserver about it;
  the comment at kubernetes/src/authz.rs:564-565 says it is "the same answer as
  [`hidden`](Self::hidden), for a query that has to name them".
- **`vm/src/lib.rs:651`** lifecycle_verb plans from the phase the watch last
  brought and deletes the instance by name, so a start planned on a Failed phase
  takes down the instance that has replaced it and is up; the comment at
  vm/src/lib.rs:612 says "A stale answer costs little: the switch is written to
  a definition that is not there (the apiserver's 404, passed on), or the
  instance delete finds nothing, which is not an error."
- **`vm/src/lib.rs:627`** With the definition not yet in the watch cache the
  plan of a stop has no switch and deletes only the instance; the definition,
  still saying running, brings it back and the viewer was told stopped; the
  comment at vm/src/lib.rs:612 says "A stale answer costs little".
- **`vm/src/lib.rs:761`** When the delete of the definition fails the handler
  still deletes the instance and answers deleted on its success, while the
  definition is there and brings the instance back; the comment at
  vm/src/lib.rs:743 says "The definition first, because deleting it takes the
  instance with it. Then the instance, for a machine that never had one. A 404
  on the definition is not an error here: it is the ordinary case."
- **`vm/src/keystore.rs:80`** store lists the copies after writing home, and an
  attach that read the older list may create its copy after that listing; the
  comment at vm/src/keys.rs:9-10 says "an edit on the Account page reaches every
  one of them."
- **`kubernetes/src/dayto.rs:275`** Only the evictions of one drain are asked
  one at a time; nothing keeps two drain requests, of the same node or of two,
  from evicting at once; the comment at kubernetes/src/dayto.rs:11 says "One at
  a time: rustkube's budget check and delete are not one step, and two at once
  could both pass it."
- **`kubernetes/src/dayto.rs:267`** drain lists the pods first and cordons
  after, so a pod the scheduler places in between is neither evicted nor listed;
  the comment at kubernetes/src/dayto.rs:258 says "cordon, then evict. What
  could not be evicted is listed, not an error: draining again is how it is
  retried."
- **`console-core/src/apiserver.rs:118`** Conn::token looks, reloads without
  holding the lock, and looks again, so a slower reload of an older read
  overwrites the newer bearer and the call answers a bearer the file did not
  hold during the call; the comment at console-core/src/apiserver.rs:110 says
  "The console's own bearer, as of now."
- **`stormconsole/src/auth.rs:66`** ConsoleToken::current stats before it locks
  and compares: with no file there is no mtime, and the word read if the file
  appears meanwhile is kept under "no mtime", which compares equal when the file
  is gone again; the comment at stormconsole/src/auth.rs:29 says "while it is
  **missing or empty the console is closed**, not open".
- **`stormconsole/src/auth.rs:66`** ConsoleToken::current keeps the outcome of a
  failed read under the file's mtime and reads again only when that moves, so
  the console has no bearer although the file holds one; the comment at
  stormconsole/src/auth.rs:58 says "The bearer as of now; `None` while the file
  is missing or empty."
- **`console-core/src/registry.rs:357`** Registry::refresh reads a plugin's
  components and then, in a second read, its health, so a poll between the two
  publishes a snapshot whose card says error while the rows of the reachable
  daemon are still listed; the comment at console-core/src/feed.rs:80-81 says
  "An upstream that cannot be reached shows as an error with no components —
  stale rows would say the opposite of the truth."
- **`kubernetes/src/authz.rs:587`** What is hidden is computed from the
  namespaces the console's own watch has brought, and pods are watched by
  another task, so while the namespace list lags behind the pods (at start-up,
  or a new project) their pods are in nobody's hidden set; the comment at
  stormconsole/src/server.rs:318-319 says "The stream is filtered per
  connection, not per render: a viewer's socket never carries a component they
  may not see."
- **`stormconsole/src/server.rs:330`** A socket scopes the feed again only when
  a snapshot is published, so on a feed that does not change an open page goes
  on showing what a role that was taken away had allowed; the comment at
  kubernetes/src/authz.rs:45-46 says of how long an answer stands that it is
  "Short enough that a RoleBinding takes effect while somebody is still looking
  at the screen."
- **`logs/src/store.rs:777`** last_seen is wall-clock time, so once the clock is
  set back an entry stamped before the step stands, in seq order, in front of
  entries stamped earlier, and prune_in, which stops at the first live entry,
  leaves those past the retention window; the comment at
  logs/src/store.rs:756-758 says "Both `seq` and `last_seen` increase together,
  so walking from the oldest entry and stopping at the first one that is still
  wanted visits only what it removes."
- **`logs/src/store.rs:647`** insert_many stores the batch and then answers Err
  when the prune or make_room that happened to be due fails, so the collector
  counts the whole batch as failed and sends none of it to the live followers
  although every line is in the ring; the comment at logs/src/collector.rs:1-2
  says "join the stormcast group, parse each datagram, store it and fan it out
  to live followers."
- **`logs/src/store.rs:589`** make_room counts the entries, sheds its share of
  that count and compacts in three separate operations, and nothing keeps the
  sweeper's and the collector's apart, so both take their share of one count and
  the second shed empties the ring; the comment at logs/src/store.rs:585-587
  says "at most nine tenths, because what filled the disk may not be the ring at
  all."
- **`logs/src/lib.rs:340`** When open_with fails the plugin reports the error
  and waits for shutdown: no collector, no sweeper and so no operation that
  would try again, unlike a reopen that fails while running; the comment at
  logs/src/store.rs:54-58 says "One I/O error is not the end of it (#128). After
  a failed write redb refuses every later transaction [...] and a ring that
  never reopened stayed broken for the rest of the run."

These are in the models as they are in the code; what a property says is stated around them.

- **Keys.** A handler of the key store reads the list, edits it, and `store` reads the Secret a
  second time for the version it replaces, so of two edits at once one can be
  lost with no conflict, although `vm/keystore.rs:40-41` says "a 409 rather than one silently lost".
  A creation refused because the name is taken has still replaced that
  machine's own keys Secret.
- **Machine edits.** A new bus replaces the whole array of disks from the cache
  (`vm/settings.rs:463-466`), and two disks added from stale caches lose one.  Cores
  are read back as cores × sockets × threads; a definition that never said cores or memory is never pending.
- **Machine pages.** A machine's interfaces are read with the template's annotations, the
  policy verdict with the instance's only, so after the template changes the two can differ.
  Deleting or restoring a snapshot checks the cache and acts by name.
- **Images.** When the operator is silent the list becomes the imported disks only;
  when `/images` fails and `/catalog` answers, references already built are offered again.
- **Objects.** A hidden object and an absent one are answered differently.  Two default storage classes
  make an arbitrary one the default.
- **Logs.** The live tail ignores `search`, which the page filters itself; lines that arrive
  between the query's answer and the tail's opening are in neither.
- **Pods.** A `previous` log that could not be fetched is not counted as missed; it is fetched by the pod's
  name, so the text may be a later run's than its label, or, until the next look, another pod's.
  Samples are kept by name, so a pod made again mixes with the one before.  A waiting
  container with an old failure reads as failing in this run.  In an environment, an optional
  key that is missing replaces an earlier value with none.
- **History.** A boot whose PID 1 took more than fifteen minutes, or whose header is torn, is two rows.
- **API health.** The card is well when every API is unknown or not running, against "its
  worst API"; in the fallback a stormd that stalls is left out and its alerts with it.
- **Drives.** A format reads the nodes again after its check and passes over one that has gone
  (`stormdrive/lib.rs:483`), so its drives are in no result of a 200; a request that timed
  out may have begun.  The serial is compared with what is read then, and the request names ids only
  (`stormdrive/lib.rs:464-503`), so a drive put into the bay after the check is formatted although nobody typed its
  serial; stormdrive checks again what `why_not` previews, not the serial (`format.rs:24-26`).  The model lets the bay
  change at any moment and remembers it (`moved`), and `FormatIsTrue` says the rest of every drive that stayed.
- **Registry.** A list that fails otherwise than by 401 or 403 is an empty list
  with no word (`sbregistry/lib.rs:399`).
- **Engine.** `worst` takes the last of equal ranks and ranks an unknown state with clean, so
  an unknown one before a clean one is masked.  A failed list is an empty one
  (`stormblock/lib.rs:232`): no sets is a healthy card, no spares offers a spare as free.  Two pages at once may
  start two whole-image reads.  A drive's label prefers its name to its path, against
  `stormblock/lib.rs:952-953`.

## What is not modelled, and the plan

Left out for good: pages that are one answer of another daemon put in rows (datastore,
pod network, metrics, cluster, machines, update, storage), byte pumps (consoles,
remote desktop, exec), wiring and configuration read once, what the browser
lays out, generated protocol code, and the scripts that deploy and probe the console.
`PROJECT.json` lists each with its reason.  Inside the modelled components the following is left
out: what a line of log is parsed into and how it is normalised, the text of
answers and of most metrics, which request is destructive (`classify`) and the typed word, passwords
and their hashes, TLS handshakes, the rules language of an access review (a
review is a set of permitted verbs), quantities beyond larger and smaller, quotas and
other objects a project is made with.

Not said by any property, because the code lets it happen: the hazards without a property in
`PROJECT.json` (an eviction by a pod's name, a bearer kept under "no time", a
scope that outlives its role on a quiet feed), each with its reason.

What is left, in this order:

1. **Proofs.**  `FoundIsSo`: what `NewestLines`, `Boots`, `Order` and `Climb` compute, each by least elements as
   the folds of the log ring were done.
2. **The refinement.** The same register for `ConsoleToken` while its file is there.
3. **More abstract specifications.** The watch cache as a view that jumps from revision to
   revision; the push as a view of the published snapshots.
4. **Access, exactly.** `classify` and the rules of a review as operators checked
   against reference definitions over small inputs.
