--------------------------- MODULE ProjectAccess ---------------------------
(***************************************************************************)
(* What a viewer may see and do (authz.rs): the answer the console gets by *)
(* asking the apiserver as the viewer, how long it keeps it, and what the  *)
(* project handlers that change who may see what (projects.rs) do to it.   *)
(*                                                                         *)
(* Several page requests ask at once, each question reaches the apiserver  *)
(* at its own instant, and roles, projects and the console's own list of   *)
(* projects (the watch cache's) change in between.  The apiserver is       *)
(* external: who holds which role.  A set of rules is the verbs it permits *)
(* on pods ("list" is seeing into a project), with "projects" for listing  *)
(* every project.  Time passes in ticks.                                   *)
(***************************************************************************)
EXTENDS Integers, FiniteSets

CONSTANTS
  Tokens, Projects,
  Requests,     \* page requests that can be under way at once
  TTL,          \* ticks an answer stands (TTL, 30 s)
  AskTicks,     \* bound: ticks a request lasts (every question times out in 5 s)
  NoRules,      \* a review that failed or was not asked: Option::None
  NoAnswer      \* no entry, or no answer yet

ASSUME TimeAssumption == TTL \in Nat \ {0} /\ AskTicks \in Nat

VARIABLES
  cluster,      \* the apiserver: the role each token holds cluster-wide
  role,         \* the apiserver: the role each token holds in each project
  exists,       \* the apiserver: the projects there are
  known,        \* Store::namespaces, which the watch keeps in step in its time
  cache,        \* Authorizer.cache: each token's answer and its age
  req,          \* the page requests
  change,       \* the project handler under way, and its result while it stands
  quiet         \* history: ticks since anything about a project changed

apiserver == <<cluster, role, exists>>
vars      == <<cluster, role, exists, known, cache, req, change, quiet>>

Window == TTL + 2 * AskTicks

-----------------------------------------------------------------------------
(* The apiserver's side. *)

RoleVerbs    == [none |-> {}, view |-> {"list"}, edit |-> {"list", "delete"}]
ClusterVerbs == [none |-> {}, reader |-> {"projects", "list"},
                 everything |-> {"projects", "list", "delete"}]

Held(t, n) == RoleVerbs[role[t][n]] \cup ClusterVerbs[cluster[t]]
CanSee(t, n) == Held(t, n) \cap {"projects", "list"} # {}

\* What a rules review may answer where `verbs` are held: all of them, or with the
\* mark that it could not read everything, none or all.
Reviews(verbs) == [verbs : {verbs}, incomplete : {FALSE}]
             \cup [verbs : {{}, verbs}, incomplete : {TRUE}]

-----------------------------------------------------------------------------
(* Rights: what an answer says. *)

Granted(rights, n, verb) ==
  \/ verb \in rights.cluster.verbs
  \/ rights.projects[n] # NoRules /\ verb \in rights.projects[n].verbs

May(rights, n, verb) ==
  \/ Granted(rights, n, verb)
  \/ rights.cluster.incomplete
  \/ rights.projects[n] = NoRules
  \/ rights.projects[n].incomplete

Seen(rights, n) == "projects" \in rights.cluster.verbs \/ Granted(rights, n, "list")

\* Mutant: an incomplete answer settles a no.
SettledIfReviewed(rights, n) == rights.projects[n] # NoRules

\* Do the rules settle that n is not seen?
Settled(rights, n) ==
  /\ ~rights.cluster.incomplete
  /\ rights.projects[n] # NoRules
  /\ ~rights.projects[n].incomplete

Everything(rules) == rules.verbs = {"projects", "list", "delete"}

-----------------------------------------------------------------------------
Idle(t) == [pc |-> "idle", token |-> t, known |-> {}, left |-> {}, rights |-> NoRules,
            seen |-> {}, whole |-> TRUE, age |-> 0, answer |-> NoAnswer]

Init ==
  /\ cluster \in [Tokens -> {"none", "reader", "everything"}]
  /\ role = [t \in Tokens |-> [n \in Projects |-> "none"]]
  /\ exists \in SUBSET Projects
  /\ known = exists
  /\ cache = [t \in Tokens |-> NoAnswer]
  /\ \E t \in Tokens : req = [r \in Requests |-> Idle(t)]
  /\ change = [pc |-> "idle"]
  /\ quiet = [n \in Projects |-> Window]

Disturb(n) == quiet' = [quiet EXCEPT ![n] = 0]

-----------------------------------------------------------------------------
(* The cluster, and the projects page's handlers. *)

\* Somebody changes a role with kubectl.
OutsideBinds(t, n, as) ==
  /\ n \in exists
  /\ role[t][n] # as
  /\ role' = [role EXCEPT ![t][n] = as]
  /\ Disturb(n)
  /\ change' = [pc |-> "idle"]
  /\ UNCHANGED <<cluster, exists, known, cache, req>>

ProjectGoes(n) ==
  /\ n \in exists
  /\ exists' = exists \ {n}
  /\ role' = [t \in Tokens |-> [role[t] EXCEPT ![n] = "none"]]
  /\ Disturb(n)
  /\ change' = [pc |-> "idle"]
  /\ UNCHANGED <<cluster, known, cache, req>>

WatchDelivers(n) ==
  /\ (n \in exists) # (n \in known)
  /\ known' = IF n \in exists THEN known \cup {n} ELSE known \ {n}
  /\ Disturb(n)
  /\ UNCHANGED <<apiserver, cache, req, change>>

\* The write a handler carries to the apiserver succeeds: a member of a project
\* added or removed, or a project made with its requester as admin.
Ready == change.pc \in {"idle", "done"}

AddMember(t, n, as) ==
  /\ Ready
  /\ n \in exists
  /\ as # "none"
  /\ role' = [role EXCEPT ![t][n] = as]
  /\ change' = [pc |-> "written", op |-> "member", token |-> t, project |-> n]
  /\ Disturb(n)
  /\ UNCHANGED <<cluster, exists, known, cache, req>>

RemoveMember(t, n) ==
  /\ Ready
  /\ role[t][n] # "none"
  /\ role' = [role EXCEPT ![t][n] = "none"]
  /\ change' = [pc |-> "written", op |-> "removal", token |-> t, project |-> n]
  /\ Disturb(n)
  /\ UNCHANGED <<cluster, exists, known, cache, req>>

CreateProject(t, n) ==
  /\ Ready
  /\ n \notin exists
  /\ exists' = exists \cup {n}
  /\ role' = [role EXCEPT ![t][n] = "edit"]
  /\ change' = [pc |-> "written", op |-> "project", token |-> t, project |-> n]
  /\ Disturb(n)
  /\ UNCHANGED <<cluster, known, cache, req>>

\* The handler has its answer: every cached answer is dropped, then it replies.
Forget ==
  /\ change.pc = "written"
  /\ cache' = [t \in Tokens |-> NoAnswer]
  /\ change' = [change EXCEPT !.pc = "done"]
  /\ UNCHANGED <<apiserver, known, req, quiet>>

-----------------------------------------------------------------------------
(* A page request asks: NamespaceAccess::hidden, Authorizer::answer, ask. *)

At(r, pc)    == req[r].pc = pc
Step(r, rec) == req' = [req EXCEPT ![r] = rec]
Fresh(entry) == entry # NoAnswer /\ entry.age < TTL

Start(r, t) ==
  /\ At(r, "idle")
  /\ Step(r, [Idle(t) EXCEPT !.pc = "lookup", !.known = known])
  /\ UNCHANGED <<apiserver, known, cache, change, quiet>>

\* Mutant: an answer stands until it is forgotten.
HitAnyAge(r) ==
  /\ At(r, "lookup")
  /\ cache[req[r].token] # NoAnswer
  /\ Step(r, [req[r] EXCEPT !.pc = "answered", !.answer = cache[req[r].token].answer])
  /\ UNCHANGED <<apiserver, known, cache, change, quiet>>

Hit(r) ==
  /\ At(r, "lookup")
  /\ Fresh(cache[req[r].token])
  /\ Step(r, [req[r] EXCEPT !.pc = "answered", !.answer = cache[req[r].token].answer])
  /\ UNCHANGED <<apiserver, known, cache, change, quiet>>

Miss(r) ==
  /\ At(r, "lookup")
  /\ ~Fresh(cache[req[r].token])
  /\ Step(r, [req[r] EXCEPT !.pc = "cluster"])
  /\ UNCHANGED <<apiserver, known, cache, change, quiet>>

\* The review with no namespace.  A cluster-admin's answer ends the asking.
ClusterReviewed(r) ==
  /\ At(r, "cluster")
  /\ \E rules \in Reviews(ClusterVerbs[cluster[req[r].token]]) :
       Step(r, [req[r] EXCEPT
                  !.pc = "reviews",
                  !.rights = [cluster |-> rules, projects |-> [n \in Projects |-> NoRules]],
                  !.left = IF Everything(rules) THEN {} ELSE req[r].known])
  /\ UNCHANGED <<apiserver, known, cache, change, quiet>>

ProjectReviewed(r, n) ==
  /\ At(r, "reviews")
  /\ n \in req[r].left
  /\ \E rules \in Reviews(RoleVerbs[role[req[r].token][n]]) \cup {NoRules} :
       Step(r, [req[r] EXCEPT !.left = @ \ {n},
                              !.whole = @ /\ rules # NoRules,
                              !.rights.projects[n] = rules])
  /\ UNCHANGED <<apiserver, known, cache, change, quiet>>

\* Every review is in: what the rules show is seen, what they leave open is asked.
Reviewed(r) ==
  /\ At(r, "reviews")
  /\ req[r].left = {}
  /\ LET rights == req[r].rights
         shown  == {n \in req[r].known : Seen(rights, n)}
     IN  Step(r, [req[r] EXCEPT !.pc = "settle", !.seen = shown,
                                !.left = {n \in req[r].known \ shown : ~Settled(rights, n)}])
  /\ UNCHANGED <<apiserver, known, cache, change, quiet>>

\* One SelfSubjectAccessReview, or one probe.  Anything but a yes is a no.
Asked(r, n, pc) ==
  /\ At(r, pc)
  /\ n \in req[r].left
  /\ \E answered \in BOOLEAN :
       Step(r, [req[r] EXCEPT
                  !.left = @ \ {n},
                  !.whole = @ /\ answered,
                  !.seen = IF answered /\ "list" \in Held(req[r].token, n)
                           THEN @ \cup {n} ELSE @])
  /\ UNCHANGED <<apiserver, known, cache, change, quiet>>

\* The answer goes into the cache, over whatever is there by now, and expired
\* entries out of it.
Conclude(r, answer) ==
  /\ Step(r, [Idle(req[r].token) EXCEPT !.pc = "answered", !.known = req[r].known,
                                       !.age = req[r].age, !.answer = answer])
  /\ cache' = [t \in Tokens |->
                 IF t = req[r].token THEN [answer |-> answer, age |-> 0]
                 ELSE IF Fresh(cache[t]) THEN cache[t] ELSE NoAnswer]
  /\ UNCHANGED <<apiserver, known, change, quiet>>

SettledAll(r) ==
  /\ At(r, "settle")
  /\ req[r].left = {}
  /\ Conclude(r, [seen |-> req[r].seen, source |-> "Reviewed",
                  rights |-> req[r].rights, whole |-> req[r].whole])

Unasked(seen, source) ==
  [seen |-> seen, source |-> source, rights |-> NoRules, whole |-> FALSE]

Unreachable(r) ==
  /\ \/ At(r, "cluster")
     \/ At(r, "list")
  /\ Conclude(r, Unasked({}, "Unavailable"))

\* No review is served: the list of every project, then on a 403 one probe each.
NotAnswered(r) ==
  /\ At(r, "cluster")
  /\ Step(r, [req[r] EXCEPT !.pc = "list"])
  /\ UNCHANGED <<apiserver, known, cache, change, quiet>>

Listed(r) ==
  /\ At(r, "list")
  /\ "projects" \in ClusterVerbs[cluster[req[r].token]]
  /\ Conclude(r, Unasked(exists, "Listed"))

ListRefused(r) ==
  /\ At(r, "list")
  /\ "projects" \notin ClusterVerbs[cluster[req[r].token]]
  /\ Step(r, [req[r] EXCEPT !.pc = "probe", !.left = req[r].known])
  /\ UNCHANGED <<apiserver, known, cache, change, quiet>>

\* A 401: the identity itself is not accepted, and nothing more is asked.
NotAccepted(r) ==
  /\ At(r, "list")
  /\ Conclude(r, Unasked({}, "Probed"))

ProbedAll(r) ==
  /\ At(r, "probe")
  /\ req[r].left = {}
  /\ Conclude(r, Unasked(req[r].seen, "Probed"))

Finish(r) ==
  /\ At(r, "answered")
  /\ Step(r, Idle(req[r].token))
  /\ UNCHANGED <<apiserver, known, cache, change, quiet>>

\* What the page does with the answer: NamespaceAccess::hidden and visible.
Hidden(r) ==
  IF req[r].answer.source = "Unavailable" THEN {}
  ELSE req[r].known \ req[r].answer.seen

-----------------------------------------------------------------------------
Tick ==
  /\ \A r \in Requests : At(r, "idle") \/ req[r].age < AskTicks
  /\ req' = [r \in Requests |-> IF At(r, "idle") THEN req[r]
                                ELSE [req[r] EXCEPT !.age = @ + 1]]
  /\ cache' = [t \in Tokens |-> IF Fresh(cache[t]) THEN [cache[t] EXCEPT !.age = @ + 1]
                                ELSE cache[t]]
  /\ quiet' = [n \in Projects |-> IF quiet[n] = Window THEN Window ELSE quiet[n] + 1]
  /\ UNCHANGED <<apiserver, known, change>>

Cluster ==
  \E n \in Projects :
    \/ ProjectGoes(n)
    \/ WatchDelivers(n)
    \/ \E t \in Tokens :
         \/ CreateProject(t, n)
         \/ RemoveMember(t, n)
         \/ \E as \in DOMAIN RoleVerbs : OutsideBinds(t, n, as) \/ AddMember(t, n, as)

Ask(r) ==
  \/ \E t \in Tokens : Start(r, t)
  \/ Hit(r) \/ Miss(r)
  \/ ClusterReviewed(r) \/ Reviewed(r) \/ SettledAll(r)
  \/ \E n \in Projects : ProjectReviewed(r, n) \/ Asked(r, n, "settle") \/ Asked(r, n, "probe")
  \/ NotAnswered(r) \/ Unreachable(r) \/ Listed(r) \/ ListRefused(r)
  \/ NotAccepted(r) \/ ProbedAll(r)
  \/ Finish(r)

Next == Cluster \/ Forget \/ (\E r \in Requests : Ask(r)) \/ Tick

Spec == Init /\ [][Next]_vars

-----------------------------------------------------------------------------
(* Properties. *)

Rules   == [verbs : SUBSET {"projects", "list", "delete"}, incomplete : BOOLEAN]
Rights  == [cluster : Rules, projects : [Projects -> Rules \cup {NoRules}]]
Answer  == [seen : SUBSET Projects, source : {"Reviewed", "Listed", "Probed", "Unavailable"},
            rights : Rights \cup {NoRules}, whole : BOOLEAN]
Request == [pc : {"idle", "lookup", "cluster", "reviews", "settle", "list", "probe", "answered"},
            token : Tokens, known : SUBSET Projects, left : SUBSET Projects,
            rights : Rights \cup {NoRules}, seen : SUBSET Projects, whole : BOOLEAN,
            age : 0..AskTicks, answer : Answer \cup {NoAnswer}]
Change  == [pc : {"idle"}]
      \cup [pc : {"written", "done"}, op : {"member", "removal", "project"},
            token : Tokens, project : Projects]

\* What stands for no answer is none.
ASSUME NoAnswerAssumption == NoAnswer \notin Answer

\* Every variable has its type; a request asks only of the projects it read, and
\* what it holds is an answer exactly once it is answered.
TypeOK ==
  /\ cluster \in [Tokens -> DOMAIN ClusterVerbs]
  /\ role \in [Tokens -> [Projects -> DOMAIN RoleVerbs]]
  /\ exists \in SUBSET Projects
  /\ known \in SUBSET Projects
  /\ cache \in [Tokens -> [answer : Answer, age : 0..TTL] \cup {NoAnswer}]
  /\ req \in [Requests -> Request]
  /\ change \in Change
  /\ quiet \in [Projects -> 0..Window]
  /\ \A r \in Requests : /\ req[r].left \subseteq req[r].known
                         /\ (req[r].answer # NoAnswer) = At(r, "answered")

\* An answer stands 30 seconds ("short enough that a RoleBinding takes effect while
\* somebody is still looking", TTL): a project the viewer has held nothing in for
\* longer than that and the asking is hidden from every page, however its asking
\* overlapped the change and whatever failed - unless nobody could be asked.
TakenAwayIsHidden ==
  \A r \in Requests : At(r, "answered") /\ req[r].answer.source # "Unavailable" =>
    \A n \in known \cap req[r].known :
      quiet[n] = Window /\ ~CanSee(req[r].token, n) => n \in Hidden(r)

\* The other way round: a project long held and long known is on the page, if the
\* reviews answered; an incomplete answer never reads as a no (Rights::sees).  And
\* an action the viewer has been allowed throughout is offered even when reviews
\* failed: "yes unless the apiserver's whole answer says no" (Rights::may).
HeldIsShown ==
  \A r \in Requests, n \in known :
    At(r, "answered") /\ quiet[n] = Window =>
      LET answer == req[r].answer
          held   == Held(req[r].token, n)
      IN  /\ answer.whole /\ CanSee(req[r].token, n) => n \notin Hidden(r)
          /\ answer.rights # NoRules /\ "delete" \in held => May(answer.rights, n, "delete")

=============================================================================
