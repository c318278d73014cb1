------------------------- MODULE ProjectAccessProofs -------------------------
(***************************************************************************)
(* What a viewer may see and do, and how old the answer may be that says   *)
(* so, for any number of viewers, projects and requests and any lengths of *)
(* time.  What an answer says of a project is held to what the apiserver   *)
(* holds unless the project changed since the answer was begun: whatever   *)
(* is proved of an answer is proved project by project, up to its age.     *)
(***************************************************************************)
EXTENDS ProjectAccess, TLAPS

\* Nothing about n has changed for longer than `age` ticks.
Still(n, age) == quiet[n] > age

\* The rules of token t that came in within the last `age` ticks.
RightsInTime(rights, t, age) ==
  /\ rights \in Rights
  /\ rights.cluster \in Reviews(ClusterVerbs[cluster[t]])
  /\ \A n \in Projects :
       Still(n, age) => rights.projects[n] \in Reviews(RoleVerbs[role[t][n]]) \cup {NoRules}

\* What is shown is held; what is held and known is shown if everything was answered, or
\* is among what is left to be asked.
SeenInTime(seen, left, whole, t, age) ==
  \A n \in Projects : Still(n, age) =>
    /\ n \in seen => CanSee(t, n)
    /\ whole /\ n \in known /\ CanSee(t, n) => n \in seen \cup left

\* What an answer promises of every project that did not change since it was begun.
AnswerInTime(answer, t, age) ==
  /\ SeenInTime(answer.seen, {}, answer.whole, t, age)
  /\ \A n \in Projects : Still(n, age) /\ answer.rights # NoRules /\ "delete" \in Held(t, n) =>
       May(answer.rights, n, "delete")

\* A page request that has record r.
ReqInv(r) ==
  /\ r.pc \notin {"idle", "answered"} =>
       \A n \in Projects : Still(n, r.age) => (n \in r.known <=> n \in known)
  /\ r.pc \in {"lookup", "cluster", "reviews", "list"} => r.seen = {}
  /\ r.pc \in {"reviews", "settle"} => RightsInTime(r.rights, r.token, r.age)
  /\ r.pc = "reviews" /\ r.whole =>
       Everything(r.rights.cluster) \/ \A n \in r.known \ r.left : r.rights.projects[n] # NoRules
  /\ r.pc = "settle" => SeenInTime(r.seen, r.left, r.whole, r.token, r.age)
  /\ r.pc = "probe"  => SeenInTime(r.seen, {}, FALSE, r.token, r.age)
  /\ r.pc = "answered" => AnswerInTime(r.answer, r.token, AskTicks + TTL - 1 + r.age)

\* An entry is as old as its age and the asking it came from.
CacheInv ==
  \A t \in Tokens : Fresh(cache[t]) => AnswerInTime(cache[t].answer, t, AskTicks + cache[t].age)

IInv == TypeOK /\ CacheInv /\ \A r \in Requests : ReqInv(req[r])

-----------------------------------------------------------------------------
(* Types, and what the roles permit. *)

Entry == [answer : Answer, age : 0..TTL]

\* A role in a project says nothing of listing projects, and whoever may list them all
\* may list what is in them.
LEMMA VerbsOf ==
  /\ \A x \in DOMAIN RoleVerbs : RoleVerbs[x] \subseteq {"list", "delete"}
  /\ \A x \in DOMAIN ClusterVerbs :
       /\ ClusterVerbs[x] \subseteq {"projects", "list", "delete"}
       /\ "projects" \in ClusterVerbs[x] => "list" \in ClusterVerbs[x]
BY DEF RoleVerbs, ClusterVerbs

LEMMA VerbsHeld ==
  ASSUME TypeOK, NEW t \in Tokens
  PROVE  /\ ClusterVerbs[cluster[t]] \in SUBSET {"projects", "list", "delete"}
         /\ "projects" \in ClusterVerbs[cluster[t]] => "list" \in ClusterVerbs[cluster[t]]
         /\ \A n \in Projects :
              /\ RoleVerbs[role[t][n]] \in SUBSET {"projects", "list", "delete"}
              /\ "projects" \notin RoleVerbs[role[t][n]]
              /\ CanSee(t, n) <=> "list" \in Held(t, n)
<1>1. cluster[t] \in DOMAIN ClusterVerbs /\ \A n \in Projects : role[t][n] \in DOMAIN RoleVerbs
  BY DEF TypeOK
<1>2. /\ ClusterVerbs[cluster[t]] \in SUBSET {"projects", "list", "delete"}
      /\ "projects" \in ClusterVerbs[cluster[t]] => "list" \in ClusterVerbs[cluster[t]]
  BY <1>1, VerbsOf
<1>3. \A n \in Projects : /\ RoleVerbs[role[t][n]] \in SUBSET {"projects", "list", "delete"}
                          /\ "projects" \notin RoleVerbs[role[t][n]]
  BY <1>1, VerbsOf
<1> QED
  BY <1>2, <1>3 DEF CanSee, Held

\* What a review answers is rules, with nothing in them that is not held, and with all
\* that is held unless they are marked.
LEMMA ReviewsAre ==
  ASSUME NEW verbs \in SUBSET {"projects", "list", "delete"}, NEW rules \in Reviews(verbs)
  PROVE  /\ rules \in Rules /\ rules.verbs \subseteq verbs
         /\ ~rules.incomplete => rules.verbs = verbs
BY DEF Reviews, Rules

LEMMA IdleType ==
  ASSUME NEW t \in Tokens
  PROVE  /\ Idle(t) \in Request
         /\ Idle(t).pc = "idle" /\ Idle(t).token = t /\ Idle(t).known = {} /\ Idle(t).left = {}
         /\ Idle(t).seen = {} /\ Idle(t).age = 0 /\ Idle(t).answer = NoAnswer
BY TimeAssumption DEF Idle, Request

LEMMA RequestType ==
  ASSUME IInv, NEW q \in Requests
  PROVE  /\ req[q] \in Request /\ req[q].age \in 0..AskTicks /\ req[q].token \in Tokens
         /\ req[q].left \subseteq req[q].known /\ req[q].known \subseteq Projects
         /\ req[q].answer # NoAnswer <=> req[q].pc = "answered"
         /\ ReqInv(req[q])
BY DEF IInv, TypeOK, Request, At

LEMMA Times ==
  /\ TTL \in Nat \ {0} /\ AskTicks \in Nat /\ Window \in Nat
  /\ TypeOK => \A n \in Projects : quiet[n] \in 0..Window
BY TimeAssumption DEF Window, TypeOK

-----------------------------------------------------------------------------
(* What was in time stays so. *)

LEMMA Older ==
  ASSUME TypeOK, NEW answer, NEW t \in Tokens, NEW age \in Nat, NEW later \in Nat, age <= later,
         AnswerInTime(answer, t, age)
  PROVE  AnswerInTime(answer, t, later)
<1>1. \A n \in Projects : Still(n, later) => Still(n, age)
  BY Times DEF Still
<1> QED
  BY <1>1 DEF AnswerInTime, SeenInTime

\* A step that changes nothing about a project that is still from `later` on.
Carries(age, later) ==
  \A n \in Projects : Still(n, later)' =>
    /\ Still(n, age)
    /\ n \in known' <=> n \in known
    /\ \A t \in Tokens : role'[t][n] = role[t][n]

LEMMA Carried ==
  ASSUME cluster' = cluster, NEW age, NEW later, Carries(age, later), NEW t \in Tokens
  PROVE  /\ \A rights : RightsInTime(rights, t, age) => RightsInTime(rights, t, later)'
         /\ \A seen, left, whole :
              SeenInTime(seen, left, whole, t, age) => SeenInTime(seen, left, whole, t, later)'
         /\ \A answer : AnswerInTime(answer, t, age) => AnswerInTime(answer, t, later)'
<1>1. \A n \in Projects : Still(n, later)' =>
        /\ Still(n, age) /\ Held(t, n)' = Held(t, n) /\ CanSee(t, n)' = CanSee(t, n)
        /\ n \in known' <=> n \in known
        /\ role'[t][n] = role[t][n]
  BY DEF Carries, Held, CanSee
<1>2. ASSUME NEW rights, RightsInTime(rights, t, age) PROVE RightsInTime(rights, t, later)'
  BY <1>1, <1>2 DEF RightsInTime
<1>3. ASSUME NEW seen, NEW left, NEW whole, SeenInTime(seen, left, whole, t, age)
      PROVE  SeenInTime(seen, left, whole, t, later)'
  BY <1>1, <1>3 DEF SeenInTime
<1>4. ASSUME NEW answer, AnswerInTime(answer, t, age) PROVE AnswerInTime(answer, t, later)'
  BY <1>1, <1>3, <1>4 DEF AnswerInTime
<1> QED
  BY <1>2, <1>3, <1>4

\* A request that only grew older, if at all.
LEMMA ReqCarried ==
  ASSUME cluster' = cluster, NEW r \in Request, ReqInv(r), NEW s \in Request,
         s.pc = r.pc, s.token = r.token, s.known = r.known, s.left = r.left,
         s.rights = r.rights, s.seen = r.seen, s.whole = r.whole, s.answer = r.answer,
         Carries(r.age, s.age), Carries(AskTicks + TTL - 1 + r.age, AskTicks + TTL - 1 + s.age)
  PROVE  ReqInv(s)'
<1>1. r.token \in Tokens
  BY DEF Request
<1>2. s.pc \notin {"idle", "answered"} =>
        \A n \in Projects : Still(n, s.age)' => (n \in s.known <=> n \in known')
  BY DEF ReqInv, Carries
<1>3. /\ s.pc \in {"reviews", "settle"} => RightsInTime(s.rights, s.token, s.age)'
      /\ s.pc = "settle" => SeenInTime(s.seen, s.left, s.whole, s.token, s.age)'
      /\ s.pc = "probe"  => SeenInTime(s.seen, {}, FALSE, s.token, s.age)'
  BY <1>1, Carried DEF ReqInv
<1>4. s.pc = "answered" => AnswerInTime(s.answer, s.token, AskTicks + TTL - 1 + s.age)'
  BY <1>1, Carried DEF ReqInv
<1> QED
  BY <1>2, <1>3, <1>4 DEF ReqInv

-----------------------------------------------------------------------------
(* The cluster, the handlers and the watch. *)

\* A step after which n has just changed, and no other project.
LEMMA ProjectChanges ==
  ASSUME IInv, NEW n \in Projects, Disturb(n), UNCHANGED <<cluster, cache, req>>,
         role' \in [Tokens -> [Projects -> DOMAIN RoleVerbs]],
         exists' \subseteq Projects, known' \subseteq Projects, change' \in Change,
         \A m \in Projects \ {n} : /\ m \in known' <=> m \in known
                                   /\ \A t \in Tokens : role'[t][m] = role[t][m]
  PROVE  IInv'
<1>1. \A m \in Projects : quiet'[m] = IF m = n THEN 0 ELSE quiet[m]
  BY DEF IInv, TypeOK, Disturb
<1>2. quiet' \in [Projects -> 0..Window]
  BY Times DEF IInv, TypeOK, Disturb
<1>3. TypeOK'
  BY <1>2 DEF IInv, TypeOK, At
<1>4. \A age \in Nat : Carries(age, age)
  BY <1>1 DEF Carries, Still
<1>5. CacheInv'
  <2> SUFFICES ASSUME NEW t \in Tokens, Fresh(cache[t])
               PROVE  AnswerInTime(cache[t].answer, t, AskTicks + cache[t].age)'
    BY DEF CacheInv, Fresh
  <2>1. AskTicks + cache[t].age \in Nat
    BY Times DEF IInv, TypeOK, Fresh
  <2>2. Carries(AskTicks + cache[t].age, AskTicks + cache[t].age)
    BY <1>4, <2>1
  <2>3. ASSUME NEW answer, NEW age, Carries(age, age), AnswerInTime(answer, t, age)
        PROVE  AnswerInTime(answer, t, age)'
    BY <2>3, Carried
  <2> QED
    BY <2>2, <2>3 DEF IInv, CacheInv
<1>6. ASSUME NEW r \in Request, ReqInv(r) PROVE ReqInv(r)'
  <2>1. r.age \in Nat /\ AskTicks + TTL - 1 + r.age \in Nat
    BY Times DEF Request
  <2> QED
    BY <1>4, <1>6, <2>1, ReqCarried
<1>7. (\A q \in Requests : ReqInv(req[q]))'
  BY <1>6, RequestType
<1> QED
  BY <1>3, <1>5, <1>7 DEF IInv

LEMMA RoleType ==
  ASSUME TypeOK, NEW t \in Tokens, NEW n \in Projects, NEW as \in DOMAIN RoleVerbs,
         role' = [role EXCEPT ![t][n] = as]
  PROVE  /\ role' \in [Tokens -> [Projects -> DOMAIN RoleVerbs]]
         /\ \A m \in Projects \ {n}, u \in Tokens : role'[u][m] = role[u][m]
BY DEF TypeOK

LEMMA ClusterKept ==
  ASSUME IInv, Cluster
  PROVE  IInv'
<1>1. ASSUME NEW t \in Tokens, NEW n \in Projects, NEW as \in DOMAIN RoleVerbs,
             OutsideBinds(t, n, as) \/ AddMember(t, n, as)
      PROVE  IInv'
  <2>1. /\ role' = [role EXCEPT ![t][n] = as] /\ Disturb(n)
        /\ UNCHANGED <<cluster, exists, known, cache, req>> /\ change' \in Change
    <3>1. CASE OutsideBinds(t, n, as)
      BY <3>1 DEF OutsideBinds, Change
    <3>2. CASE AddMember(t, n, as)
      BY <3>2 DEF AddMember, Change
    <3> QED
      BY <1>1, <3>1, <3>2
  <2> QED
    BY <2>1, RoleType, ProjectChanges DEF IInv, TypeOK
<1>2. ASSUME NEW t \in Tokens, NEW n \in Projects, RemoveMember(t, n)
      PROVE  IInv'
  <2>1. /\ role' = [role EXCEPT ![t][n] = "none"] /\ Disturb(n) /\ "none" \in DOMAIN RoleVerbs
        /\ UNCHANGED <<cluster, exists, known, cache, req>> /\ change' \in Change
    BY <1>2 DEF RemoveMember, Change, RoleVerbs
  <2> QED
    BY <2>1, RoleType, ProjectChanges DEF IInv, TypeOK
<1>3. ASSUME NEW t \in Tokens, NEW n \in Projects, CreateProject(t, n)
      PROVE  IInv'
  <2>1. /\ role' = [role EXCEPT ![t][n] = "edit"] /\ Disturb(n) /\ "edit" \in DOMAIN RoleVerbs
        /\ UNCHANGED <<cluster, known, cache, req>> /\ change' \in Change
        /\ exists' = exists \cup {n}
    BY <1>3 DEF CreateProject, Change, RoleVerbs
  <2>2. exists' \subseteq Projects
    BY <2>1 DEF IInv, TypeOK
  <2> QED
    BY <2>1, <2>2, RoleType, ProjectChanges DEF IInv, TypeOK
<1>4. ASSUME NEW n \in Projects, ProjectGoes(n)
      PROVE  IInv'
  <2>1. /\ role' = [t \in Tokens |-> [role[t] EXCEPT ![n] = "none"]] /\ Disturb(n)
        /\ "none" \in DOMAIN RoleVerbs
        /\ UNCHANGED <<cluster, known, cache, req>> /\ change' \in Change
        /\ exists' \subseteq Projects /\ known' \subseteq Projects
    BY <1>4 DEF ProjectGoes, Change, RoleVerbs, IInv, TypeOK
  <2>2. /\ role' \in [Tokens -> [Projects -> DOMAIN RoleVerbs]]
        /\ \A m \in Projects \ {n}, u \in Tokens : role'[u][m] = role[u][m]
    BY <2>1 DEF IInv, TypeOK
  <2> QED
    BY <2>1, <2>2, ProjectChanges
<1>5. ASSUME NEW n \in Projects, WatchDelivers(n)
      PROVE  IInv'
  <2>1. /\ Disturb(n) /\ UNCHANGED <<cluster, role, exists, cache, req, change>>
        /\ known' = known \cup {n} \/ known' = known \ {n}
    BY <1>5 DEF WatchDelivers, apiserver
  <2> QED
    BY <2>1, ProjectChanges DEF IInv, TypeOK
<1> QED
  BY <1>1, <1>2, <1>3, <1>4, <1>5 DEF Cluster

LEMMA ForgetKept ==
  ASSUME IInv, Forget
  PROVE  IInv'
<1>1. /\ UNCHANGED <<cluster, role, exists, known, req, quiet>>
      /\ cache' = [t \in Tokens |-> NoAnswer] /\ change' \in Change
  BY DEF Forget, apiserver, IInv, TypeOK, Change
<1>2. CacheInv'
  BY <1>1 DEF CacheInv, Fresh
<1>3. TypeOK'
  <2>1. cache' \in [Tokens -> Entry \cup {NoAnswer}]
    BY <1>1, Zenon
  <2> QED
    BY <1>1, <2>1 DEF IInv, TypeOK, Entry, At
<1>4. cluster' = cluster /\ \A age : Carries(age, age)
  BY <1>1 DEF Carries, Still
<1>5. ASSUME NEW r \in Request, ReqInv(r) PROVE ReqInv(r)'
  BY <1>4, <1>5, ReqCarried
<1>6. \A q \in Requests : req'[q] = req[q] /\ req[q] \in Request /\ ReqInv(req[q])
  BY <1>1 DEF IInv, TypeOK
<1> QED
  BY <1>2, <1>3, <1>5, <1>6 DEF IInv

-----------------------------------------------------------------------------
(* A request's own steps. *)

\* One request moves, and what the cache then keeps is in time.
LEMMA OneSteps ==
  ASSUME IInv, NEW q \in Requests, NEW r \in Request, Step(q, r),
         UNCHANGED <<apiserver, known, change, quiet>>,
         cache' \in [Tokens -> Entry \cup {NoAnswer}], CacheInv',
         ReqInv(r), r.left \subseteq r.known, (r.answer # NoAnswer) = (r.pc = "answered")
  PROVE  IInv'
<1>1. req' = [req EXCEPT ![q] = r] /\ UNCHANGED <<cluster, role, exists, known, change, quiet>>
  BY DEF Step, apiserver
<1>2. /\ req \in [Requests -> Request] /\ req' \in [Requests -> Request]
      /\ \A x \in Requests : req'[x] = IF x = q THEN r ELSE req[x]
  BY <1>1 DEF IInv, TypeOK
<1>3. TypeOK'
  BY <1>1, <1>2 DEF IInv, TypeOK, Entry, At
<1>4. ASSUME NEW s \in Request, ReqInv(s) PROVE ReqInv(s)'
  BY <1>1, <1>4 DEF ReqInv, RightsInTime, SeenInTime, AnswerInTime, Still, CanSee, Held
<1>5. \A x \in Requests : req'[x] \in Request /\ ReqInv(req'[x])
  BY <1>2 DEF IInv
<1>6. (\A x \in Requests : ReqInv(req[x]))'
  BY <1>4, <1>5
<1> QED
  BY <1>3, <1>6 DEF IInv

\* ... and leaves the cache alone.
LEMMA OneStepsApart ==
  ASSUME IInv, NEW q \in Requests, NEW r \in Request, Step(q, r),
         UNCHANGED <<apiserver, known, cache, change, quiet>>,
         ReqInv(r), r.left \subseteq r.known, (r.answer # NoAnswer) = (r.pc = "answered")
  PROVE  IInv'
<1>1. UNCHANGED <<cluster, role, exists, known, cache, change, quiet>>
  BY DEF apiserver
<1>2. CacheInv'
  BY <1>1 DEF IInv, CacheInv, Fresh, AnswerInTime, SeenInTime, Still, CanSee, Held
<1> QED
  BY <1>1, <1>2, OneSteps DEF IInv, TypeOK, Entry

LEMMA StartKept ==
  ASSUME IInv, NEW q \in Requests, NEW t \in Tokens, Start(q, t)
  PROVE  IInv'
<1> DEFINE r == [Idle(t) EXCEPT !.pc = "lookup", !.known = known]
<1>1. Step(q, r) /\ UNCHANGED <<apiserver, known, cache, change, quiet>>
  BY DEF Start, apiserver
<1>2. r \in Request /\ r.pc = "lookup" /\ r.known = known /\ r.left = {} /\ r.seen = {}
      /\ r.answer = NoAnswer
  <2>1. known \in SUBSET Projects
    BY DEF IInv, TypeOK
  <2>2. Idle(t) \in Request /\ Idle(t).left = {} /\ Idle(t).seen = {} /\ Idle(t).answer = NoAnswer
    BY IdleType
  <2> QED
    BY <2>1, <2>2 DEF Request
<1> HIDE DEF r
<1>3. ReqInv(r)
  BY <1>2 DEF ReqInv
<1> QED
  BY <1>1, <1>2, <1>3, OneStepsApart

LEMMA HitKept ==
  ASSUME IInv, NEW q \in Requests, Hit(q)
  PROVE  IInv'
<1> DEFINE old    == req[q]
           answer == cache[old.token].answer
           r      == [old EXCEPT !.pc = "answered", !.answer = answer]
<1>1. Step(q, r) /\ UNCHANGED <<apiserver, known, cache, change, quiet>>
      /\ Fresh(cache[old.token]) /\ old.pc = "lookup"
  BY DEF Hit, apiserver, At
<1>2. old \in Request /\ old.token \in Tokens /\ old.age \in 0..AskTicks /\ old.left \subseteq old.known
  BY RequestType
<1>3. cache[old.token] \in Entry /\ cache[old.token].age < TTL
  BY <1>1, <1>2 DEF IInv, TypeOK, Fresh, Entry
<1>4. answer \in Answer /\ cache[old.token].age \in 0..TTL
  BY <1>3 DEF Entry
<1>5. /\ r \in Request /\ r.pc = "answered" /\ r.token = old.token /\ r.known = old.known
      /\ r.left = old.left /\ r.age = old.age /\ r.answer = answer
  BY <1>2, <1>4 DEF Request
<1>6. AnswerInTime(answer, old.token, AskTicks + cache[old.token].age)
  BY <1>1, <1>2 DEF IInv, CacheInv
<1>7. /\ AskTicks + cache[old.token].age \in Nat /\ AskTicks + TTL - 1 + old.age \in Nat
      /\ AskTicks + cache[old.token].age <= AskTicks + TTL - 1 + old.age
  BY <1>2, <1>3, <1>4, Times
<1> HIDE DEF old, answer, r
<1>8. AnswerInTime(answer, old.token, AskTicks + TTL - 1 + old.age)
  BY <1>2, <1>6, <1>7, Older DEF IInv
<1>9. ReqInv(r)
  BY <1>5, <1>8 DEF ReqInv
<1> QED
  BY <1>1, <1>2, <1>4, <1>5, <1>9, OneStepsApart, NoAnswerAssumption

LEMMA MissKept ==
  ASSUME IInv, NEW q \in Requests, Miss(q)
  PROVE  IInv'
<1> DEFINE old == req[q]
           r   == [old EXCEPT !.pc = "cluster"]
<1>1. Step(q, r) /\ UNCHANGED <<apiserver, known, cache, change, quiet>> /\ old.pc = "lookup"
  BY DEF Miss, apiserver, At
<1>2. old \in Request /\ ReqInv(old) /\ old.left \subseteq old.known /\ old.answer = NoAnswer
  BY <1>1, RequestType
<1>3. /\ r \in Request /\ r.pc = "cluster" /\ r.known = old.known /\ r.left = old.left
      /\ r.seen = old.seen /\ r.age = old.age /\ r.answer = old.answer
  BY <1>2 DEF Request
<1> HIDE DEF old, r
<1>4. ReqInv(r)
  BY <1>1, <1>2, <1>3 DEF ReqInv
<1> QED
  BY <1>1, <1>2, <1>3, <1>4, OneStepsApart

LEMMA NotAnsweredKept ==
  ASSUME IInv, NEW q \in Requests, NotAnswered(q)
  PROVE  IInv'
<1> DEFINE old == req[q]
           r   == [old EXCEPT !.pc = "list"]
<1>1. Step(q, r) /\ UNCHANGED <<apiserver, known, cache, change, quiet>> /\ old.pc = "cluster"
  BY DEF NotAnswered, apiserver, At
<1>2. old \in Request /\ ReqInv(old) /\ old.left \subseteq old.known /\ old.answer = NoAnswer
  BY <1>1, RequestType
<1>3. /\ r \in Request /\ r.pc = "list" /\ r.known = old.known /\ r.left = old.left
      /\ r.seen = old.seen /\ r.age = old.age /\ r.answer = old.answer
  BY <1>2 DEF Request
<1> HIDE DEF old, r
<1>4. ReqInv(r)
  BY <1>1, <1>2, <1>3 DEF ReqInv
<1> QED
  BY <1>1, <1>2, <1>3, <1>4, OneStepsApart

LEMMA ListRefusedKept ==
  ASSUME IInv, NEW q \in Requests, ListRefused(q)
  PROVE  IInv'
<1> DEFINE old == req[q]
           r   == [old EXCEPT !.pc = "probe", !.left = old.known]
<1>1. Step(q, r) /\ UNCHANGED <<apiserver, known, cache, change, quiet>> /\ old.pc = "list"
  BY DEF ListRefused, apiserver, At
<1>2. old \in Request /\ ReqInv(old) /\ old.left \subseteq old.known /\ old.answer = NoAnswer
  BY <1>1, RequestType
<1>3. /\ r \in Request /\ r.pc = "probe" /\ r.known = old.known /\ r.left = old.known
      /\ r.seen = old.seen /\ r.age = old.age /\ r.answer = old.answer
  BY <1>2 DEF Request
<1> HIDE DEF old, r
<1>4. ReqInv(r)
  BY <1>1, <1>2, <1>3 DEF ReqInv, SeenInTime
<1> QED
  BY <1>1, <1>2, <1>3, <1>4, OneStepsApart

LEMMA FinishKept ==
  ASSUME IInv, NEW q \in Requests, Finish(q)
  PROVE  IInv'
<1>1. Step(q, Idle(req[q].token)) /\ UNCHANGED <<apiserver, known, cache, change, quiet>>
  BY DEF Finish, apiserver
<1>2. ReqInv(Idle(req[q].token))
  BY RequestType, IdleType DEF ReqInv
<1> QED
  BY <1>1, <1>2, RequestType, IdleType, OneStepsApart

-----------------------------------------------------------------------------
(* The asking: two rounds of reviews, then one question a project. *)

LEMMA ClusterReviewedKept ==
  ASSUME IInv, NEW q \in Requests, ClusterReviewed(q)
  PROVE  IInv'
<1> DEFINE old == req[q]
<1>1. PICK rules \in Reviews(ClusterVerbs[cluster[old.token]]) :
        Step(q, [old EXCEPT !.pc = "reviews",
                            !.rights = [cluster |-> rules, projects |-> [n \in Projects |-> NoRules]],
                            !.left = IF Everything(rules) THEN {} ELSE old.known])
  BY DEF ClusterReviewed
<1> DEFINE rights == [cluster |-> rules, projects |-> [n \in Projects |-> NoRules]]
           left   == IF Everything(rules) THEN {} ELSE old.known
           r      == [old EXCEPT !.pc = "reviews", !.rights = rights, !.left = left]
<1>2. Step(q, r) /\ UNCHANGED <<apiserver, known, cache, change, quiet>> /\ old.pc = "cluster"
  BY <1>1 DEF ClusterReviewed, apiserver, At
<1>3. /\ old \in Request /\ ReqInv(old) /\ old.left \subseteq old.known /\ old.answer = NoAnswer
      /\ old.token \in Tokens /\ old.known \subseteq Projects
  BY <1>2, RequestType
<1>4. rules \in Rules
  BY <1>3, VerbsHeld, ReviewsAre DEF IInv
<1>5. rights \in Rights /\ left \subseteq old.known /\ (left = {} => Everything(rules) \/ old.known = {})
      /\ (~Everything(rules) => left = old.known)
  BY <1>4 DEF Rights
<1>6. rights.cluster = rules /\ \A n \in Projects : rights.projects[n] = NoRules
  OBVIOUS
<1> HIDE DEF rights, left
<1>7. /\ r \in Request /\ r.pc = "reviews" /\ r.token = old.token /\ r.known = old.known
      /\ r.left = left /\ r.rights = rights /\ r.seen = old.seen /\ r.age = old.age
      /\ r.answer = old.answer
  BY <1>3, <1>5 DEF Request
<1> HIDE DEF old, r
<1>8. RightsInTime(rights, old.token, old.age)
  BY <1>1, <1>5, <1>6 DEF RightsInTime
<1>9. ReqInv(r)
  BY <1>2, <1>3, <1>5, <1>6, <1>7, <1>8 DEF ReqInv
<1> QED
  BY <1>2, <1>3, <1>5, <1>7, <1>9, OneStepsApart

LEMMA ProjectReviewedKept ==
  ASSUME IInv, NEW q \in Requests, NEW n \in Projects, ProjectReviewed(q, n)
  PROVE  IInv'
<1> DEFINE old == req[q]
<1>1. PICK rules \in Reviews(RoleVerbs[role[old.token][n]]) \cup {NoRules} :
        Step(q, [old EXCEPT !.left = @ \ {n}, !.whole = @ /\ rules # NoRules,
                            !.rights.projects[n] = rules])
  BY DEF ProjectReviewed
<1> DEFINE rights == [old.rights EXCEPT !.projects = [old.rights.projects EXCEPT ![n] = rules]]
           left   == old.left \ {n}
           whole  == old.whole /\ rules # NoRules
           r      == [old EXCEPT !.left = left, !.whole = whole, !.rights = rights]
<1>2. Step(q, r) /\ UNCHANGED <<apiserver, known, cache, change, quiet>> /\ old.pc = "reviews"
  BY <1>1 DEF ProjectReviewed, apiserver, At
<1>3. /\ old \in Request /\ ReqInv(old) /\ old.left \subseteq old.known /\ old.answer = NoAnswer
      /\ old.token \in Tokens /\ old.known \subseteq Projects
  BY <1>2, RequestType
<1>4. rules \in Rules \cup {NoRules}
  BY <1>3, VerbsHeld, ReviewsAre DEF IInv
<1>5. RightsInTime(old.rights, old.token, old.age)
  BY <1>2, <1>3, SMTT(40) DEF ReqInv
<1>6. /\ rights \in Rights /\ rights.cluster = old.rights.cluster
      /\ \A m \in Projects : rights.projects[m] = IF m = n THEN rules ELSE old.rights.projects[m]
  BY <1>4, <1>5 DEF RightsInTime, Rights
<1>7. whole \in BOOLEAN /\ (whole => old.whole /\ rules # NoRules)
  BY <1>3 DEF Request
<1>8. left \subseteq old.left /\ left \in SUBSET Projects /\ \A m \in old.known \ left : m \in old.known \ old.left \/ m = n
  BY <1>3
<1> HIDE DEF rights, left, whole
<1>9. /\ r \in Request /\ r.pc = "reviews" /\ r.token = old.token /\ r.known = old.known
      /\ r.left = left /\ r.rights = rights /\ r.seen = old.seen /\ r.age = old.age
      /\ r.answer = old.answer /\ r.whole = whole
  BY <1>2, <1>3, <1>6, <1>7, <1>8 DEF Request
<1> HIDE DEF old, r
<1>10. RightsInTime(rights, old.token, old.age)
  BY <1>1, <1>5, <1>6 DEF RightsInTime
<1>11. whole => Everything(rights.cluster) \/ \A m \in old.known \ left : rights.projects[m] # NoRules
  BY <1>2, <1>3, <1>6, <1>7, <1>8 DEF ReqInv
<1>12. ReqInv(r)
  BY <1>2, <1>3, <1>9, <1>10, <1>11 DEF ReqInv
<1> QED
  BY <1>2, <1>3, <1>8, <1>9, <1>12, OneStepsApart

\* What the rules of a project that did not change show is held, what they settle and do
\* not show is not, and what is held they allow.
LEMMA RulesTell ==
  ASSUME TypeOK, NEW t \in Tokens, NEW rights, NEW age, RightsInTime(rights, t, age),
         NEW n \in Projects, Still(n, age)
  PROVE  /\ Seen(rights, n) => CanSee(t, n)
         /\ Settled(rights, n) /\ CanSee(t, n) => Seen(rights, n)
         /\ \A verb \in Held(t, n) : May(rights, n, verb)
<1> DEFINE ofCluster == ClusterVerbs[cluster[t]]
           ofProject == RoleVerbs[role[t][n]]
<1>1. /\ ofCluster \in SUBSET {"projects", "list", "delete"} /\ ("projects" \in ofCluster => "list" \in ofCluster)
      /\ ofProject \in SUBSET {"projects", "list", "delete"} /\ "projects" \notin ofProject
      /\ CanSee(t, n) <=> "list" \in Held(t, n)
  BY VerbsHeld
<1>2. Held(t, n) = ofProject \cup ofCluster
  BY DEF Held
<1>3. /\ rights.cluster \in Reviews(ofCluster)
      /\ rights.projects[n] \in Reviews(ofProject) \cup {NoRules}
  BY DEF RightsInTime
<1> HIDE DEF ofCluster, ofProject
<1>4. /\ rights.cluster.verbs \subseteq ofCluster
      /\ ~rights.cluster.incomplete => rights.cluster.verbs = ofCluster
  BY <1>1, <1>3, ReviewsAre
<1>5. rights.projects[n] # NoRules =>
        /\ rights.projects[n].verbs \subseteq ofProject
        /\ ~rights.projects[n].incomplete => rights.projects[n].verbs = ofProject
  BY <1>1, <1>3, ReviewsAre
<1> QED
  BY <1>1, <1>2, <1>4, <1>5 DEF Seen, Settled, May, Granted

LEMMA ReviewedKept ==
  ASSUME IInv, NEW q \in Requests, Reviewed(q)
  PROVE  IInv'
<1> DEFINE old   == req[q]
           shown == {n \in old.known : Seen(old.rights, n)}
           left  == {n \in old.known \ shown : ~Settled(old.rights, n)}
           r     == [old EXCEPT !.pc = "settle", !.seen = shown, !.left = left]
<1>1. /\ Step(q, r) /\ UNCHANGED <<apiserver, known, cache, change, quiet>>
      /\ old.pc = "reviews" /\ old.left = {}
  BY DEF Reviewed, apiserver, At
<1>2. /\ old \in Request /\ ReqInv(old) /\ old.answer = NoAnswer
      /\ old.token \in Tokens /\ old.known \subseteq Projects
  BY <1>1, RequestType
<1>3. RightsInTime(old.rights, old.token, old.age)
  BY <1>1, <1>2 DEF ReqInv
<1>4. /\ r \in Request /\ r.pc = "settle" /\ r.token = old.token /\ r.known = old.known
      /\ r.left = left /\ r.rights = old.rights /\ r.seen = shown /\ r.age = old.age
      /\ r.answer = old.answer /\ r.whole = old.whole
  <2>1. shown \in SUBSET Projects /\ left \in SUBSET Projects
    BY <1>2
  <2> HIDE DEF shown, left
  <2> QED
    BY <1>2, <2>1 DEF Request
<1>5. ASSUME NEW n \in Projects, Still(n, old.age)
      PROVE  /\ n \in shown => CanSee(old.token, n)
             /\ old.whole /\ n \in known /\ CanSee(old.token, n) => n \in shown \cup left
  <2>1. /\ Seen(old.rights, n) => CanSee(old.token, n)
        /\ Settled(old.rights, n) /\ CanSee(old.token, n) => Seen(old.rights, n)
    BY <1>2, <1>3, <1>5, RulesTell DEF IInv
  <2>2. n \in known => n \in old.known
    BY <1>1, <1>2, <1>5 DEF ReqInv
  <2> QED
    BY <2>1, <2>2
<1>6. SeenInTime(shown, left, old.whole, old.token, old.age)
  BY <1>5 DEF SeenInTime
<1>7. left \subseteq old.known
  OBVIOUS
<1> HIDE DEF old, r, shown, left
<1>8. ReqInv(r)
  BY <1>1, <1>2, <1>3, <1>4, <1>6 DEF ReqInv
<1> QED
  BY <1>1, <1>2, <1>4, <1>7, <1>8, OneStepsApart

LEMMA AskedKept ==
  ASSUME IInv, NEW q \in Requests, NEW n \in Projects, NEW pc \in {"settle", "probe"}, Asked(q, n, pc)
  PROVE  IInv'
<1> DEFINE old == req[q]
<1>1. PICK answered \in BOOLEAN :
        Step(q, [old EXCEPT !.left = @ \ {n}, !.whole = @ /\ answered,
                            !.seen = IF answered /\ "list" \in Held(old.token, n)
                                     THEN @ \cup {n} ELSE @])
  BY DEF Asked
<1> DEFINE left  == old.left \ {n}
           whole == old.whole /\ answered
           seen  == IF answered /\ "list" \in Held(old.token, n) THEN old.seen \cup {n} ELSE old.seen
           r     == [old EXCEPT !.left = left, !.whole = whole, !.seen = seen]
<1>2. Step(q, r) /\ UNCHANGED <<apiserver, known, cache, change, quiet>> /\ old.pc = pc
  BY <1>1 DEF Asked, apiserver, At
<1>3. /\ old \in Request /\ ReqInv(old) /\ old.left \subseteq old.known /\ old.answer = NoAnswer
      /\ old.token \in Tokens /\ old.known \subseteq Projects /\ old.seen \subseteq Projects
  BY <1>2, RequestType DEF Request
<1>4. CanSee(old.token, n) <=> "list" \in Held(old.token, n)
  BY <1>3, VerbsHeld DEF IInv
<1>5. whole \in BOOLEAN /\ (whole => old.whole /\ answered)
  BY <1>3 DEF Request
<1>6. /\ seen \in SUBSET Projects /\ left \in SUBSET Projects /\ left \subseteq old.known
      /\ old.seen \subseteq seen /\ \A m \in seen : m \in old.seen \/ (m = n /\ CanSee(old.token, n))
      /\ answered /\ CanSee(old.token, n) => n \in seen
      /\ \A m \in old.left : m \in left \/ m = n
  BY <1>3, <1>4
<1> HIDE DEF seen, left, whole
<1>7. /\ r \in Request /\ r.pc = pc /\ r.token = old.token /\ r.known = old.known
      /\ r.left = left /\ r.rights = old.rights /\ r.seen = seen /\ r.age = old.age
      /\ r.answer = old.answer /\ r.whole = whole
  BY <1>2, <1>3, <1>5, <1>6 DEF Request
<1> HIDE DEF old, r
<1>8. pc = "settle" => SeenInTime(seen, left, whole, old.token, old.age)
  BY <1>2, <1>3, <1>5, <1>6 DEF ReqInv, SeenInTime
<1>9. pc = "probe" => SeenInTime(seen, {}, FALSE, old.token, old.age)
  BY <1>2, <1>3, <1>6 DEF ReqInv, SeenInTime
<1>10. ReqInv(r)
  BY <1>2, <1>3, <1>7, <1>8, <1>9 DEF ReqInv
<1> QED
  BY <1>2, <1>3, <1>6, <1>7, <1>10, OneStepsApart

-----------------------------------------------------------------------------
(* The answer, which the page gets and the cache keeps. *)

LEMMA ConcludeKept ==
  ASSUME IInv, NEW q \in Requests, NEW answer \in Answer, Conclude(q, answer),
         AnswerInTime(answer, req[q].token, req[q].age)
  PROVE  IInv'
<1> DEFINE old == req[q]
           r   == [Idle(old.token) EXCEPT !.pc = "answered", !.known = old.known,
                                          !.age = old.age, !.answer = answer]
           new == [answer |-> answer, age |-> 0]
<1>1. /\ Step(q, r) /\ UNCHANGED <<apiserver, known, change, quiet>>
      /\ cache' = [t \in Tokens |-> IF t = old.token THEN new
                                    ELSE IF Fresh(cache[t]) THEN cache[t] ELSE NoAnswer]
  BY DEF Conclude, apiserver
<1>2. /\ old \in Request /\ old.token \in Tokens /\ old.known \in SUBSET Projects
      /\ old.age \in 0..AskTicks
  BY RequestType
<1>3. /\ r \in Request /\ r.pc = "answered" /\ r.token = old.token /\ r.known = old.known
      /\ r.left = {} /\ r.age = old.age /\ r.answer = answer
  <2>1. /\ Idle(old.token) \in Request /\ Idle(old.token).token = old.token
        /\ Idle(old.token).left = {}
    BY <1>2, IdleType
  <2> QED
    BY <1>2, <2>1 DEF Request
<1>4. new \in Entry /\ new.answer = answer /\ new.age = 0
  BY Times DEF Entry
<1>5. /\ AskTicks \in Nat /\ old.age \in Nat /\ old.age <= AskTicks + 0
      /\ AskTicks + TTL - 1 + old.age \in Nat /\ old.age <= AskTicks + TTL - 1 + old.age
      /\ AskTicks + 0 \in Nat
  BY <1>2, Times
<1> HIDE DEF old, r, new
<1>6. AnswerInTime(answer, old.token, old.age)
  BY DEF old
<1>7. /\ AnswerInTime(answer, old.token, AskTicks + 0)
      /\ AnswerInTime(answer, old.token, AskTicks + TTL - 1 + old.age)
  BY <1>2, <1>5, <1>6, Older DEF IInv
<1>8. cache' \in [Tokens -> Entry \cup {NoAnswer}]
  BY <1>1, <1>4 DEF IInv, TypeOK, Entry
<1>9. UNCHANGED <<cluster, role, exists, known, quiet>>
  BY <1>1 DEF apiserver
<1>10. CacheInv'
  <2> SUFFICES ASSUME NEW t \in Tokens, Fresh(cache'[t])
               PROVE  AnswerInTime(cache[t].answer, t, AskTicks + cache[t].age)'
    BY DEF CacheInv, Fresh
  <2>1. ASSUME NEW a, NEW age, AnswerInTime(a, t, age) PROVE AnswerInTime(a, t, age)'
    BY <1>9, <2>1 DEF AnswerInTime, SeenInTime, Still, CanSee, Held
  <2>2. CASE t = old.token
    <3>1. cache'[t] = new
      BY <1>1, <2>2
    <3>2. AnswerInTime(answer, t, AskTicks + 0)'
      BY <1>7, <2>1, <2>2
    <3> QED
      BY <1>4, <3>1, <3>2
  <2>3. CASE t # old.token
    <3>1. cache'[t] = cache[t] /\ Fresh(cache[t])
      BY <1>1, <2>3 DEF Fresh
    <3> QED
      BY <2>1, <3>1 DEF IInv, CacheInv
  <2> QED
    BY <2>2, <2>3
<1>11. ReqInv(r)
  BY <1>3, <1>7 DEF ReqInv
<1> QED
  BY <1>1, <1>3, <1>8, <1>10, <1>11, OneSteps, NoAnswerAssumption

LEMMA SettledAllKept ==
  ASSUME IInv, NEW q \in Requests, SettledAll(q)
  PROVE  IInv'
<1> DEFINE answer == [seen |-> req[q].seen, source |-> "Reviewed",
                      rights |-> req[q].rights, whole |-> req[q].whole]
<1>1. /\ req[q] \in Request /\ ReqInv(req[q]) /\ req[q].pc = "settle" /\ req[q].left = {}
      /\ req[q].token \in Tokens
  BY RequestType DEF SettledAll, At
<1>2. /\ answer \in Answer /\ answer.seen = req[q].seen /\ answer.rights = req[q].rights
      /\ answer.whole = req[q].whole
  BY <1>1 DEF Answer, Request
<1>3. Conclude(q, answer)
  BY DEF SettledAll
<1> HIDE DEF answer
<1>4. /\ RightsInTime(req[q].rights, req[q].token, req[q].age)
      /\ SeenInTime(req[q].seen, {}, req[q].whole, req[q].token, req[q].age)
  BY <1>1 DEF ReqInv
<1>5. \A n \in Projects : Still(n, req[q].age) /\ "delete" \in Held(req[q].token, n) =>
        May(req[q].rights, n, "delete")
  BY <1>1, <1>4, RulesTell DEF IInv
<1>6. AnswerInTime(answer, req[q].token, req[q].age)
  BY <1>2, <1>4, <1>5 DEF AnswerInTime
<1> QED
  BY <1>2, <1>3, <1>6, ConcludeKept

\* An answer no reviews are behind promises that what it shows is held.
LEMMA UnaskedKept ==
  ASSUME IInv, NEW q \in Requests, NEW seen \in SUBSET Projects,
         NEW source \in {"Listed", "Probed", "Unavailable"}, Conclude(q, Unasked(seen, source)),
         \A n \in seen : Still(n, req[q].age) => CanSee(req[q].token, n)
  PROVE  IInv'
<1> DEFINE answer == Unasked(seen, source)
<1>1. answer \in Answer /\ answer.seen = seen /\ answer.rights = NoRules /\ answer.whole = FALSE
  BY DEF Unasked, Answer
<1> HIDE DEF answer
<1>2. AnswerInTime(answer, req[q].token, req[q].age)
  BY <1>1 DEF AnswerInTime, SeenInTime
<1>3. Conclude(q, answer)
  BY DEF answer
<1> QED
  BY <1>1, <1>2, <1>3, ConcludeKept

LEMMA UnreviewedKept ==
  ASSUME IInv, NEW q \in Requests,
         Unreachable(q) \/ Listed(q) \/ NotAccepted(q) \/ ProbedAll(q)
  PROVE  IInv'
<1>1. CASE Unreachable(q) \/ NotAccepted(q)
  BY <1>1, UnaskedKept DEF Unreachable, NotAccepted
<1>2. CASE Listed(q)
  <2>1. exists \in SUBSET Projects /\ Conclude(q, Unasked(exists, "Listed"))
    BY <1>2 DEF Listed, IInv, TypeOK
  <2>2. \A n \in exists : CanSee(req[q].token, n)
    BY <1>2 DEF Listed, CanSee, Held
  <2> QED
    BY <2>1, <2>2, UnaskedKept
<1>3. CASE ProbedAll(q)
  <2>1. /\ req[q].seen \in SUBSET Projects /\ Conclude(q, Unasked(req[q].seen, "Probed"))
        /\ SeenInTime(req[q].seen, {}, FALSE, req[q].token, req[q].age)
    BY <1>3, RequestType DEF ProbedAll, At, ReqInv, Request
  <2> QED
    BY <2>1, UnaskedKept DEF SeenInTime
<1> QED
  BY <1>1, <1>2, <1>3

-----------------------------------------------------------------------------
\* What is held of a project, what is kept of it and the request that has it grow old
\* together.
LEMMA TickKept ==
  ASSUME IInv, Tick
  PROVE  IInv'
<1>1. /\ UNCHANGED <<cluster, role, exists, known, change>>
      /\ TTL \in Nat \ {0} /\ AskTicks \in Nat /\ Window \in Nat
      /\ req \in [Requests -> Request] /\ cache \in [Tokens -> Entry \cup {NoAnswer}]
      /\ quiet \in [Projects -> 0..Window]
  BY Times DEF Tick, apiserver, IInv, TypeOK, Entry
<1>2. /\ req' = [r \in Requests |-> IF At(r, "idle") THEN req[r] ELSE [req[r] EXCEPT !.age = @ + 1]]
      /\ cache' = [t \in Tokens |-> IF Fresh(cache[t]) THEN [cache[t] EXCEPT !.age = @ + 1] ELSE cache[t]]
      /\ quiet' = [n \in Projects |-> IF quiet[n] = Window THEN Window ELSE quiet[n] + 1]
      /\ \A r \in Requests : At(r, "idle") \/ req[r].age < AskTicks
  BY DEF Tick
<1>3. quiet' \in [Projects -> 0..Window] /\ \A n \in Projects : quiet'[n] <= quiet[n] + 1
  <2>1. ASSUME NEW n \in Projects
        PROVE  /\ (IF quiet[n] = Window THEN Window ELSE quiet[n] + 1) \in 0..Window
               /\ (IF quiet[n] = Window THEN Window ELSE quiet[n] + 1) <= quiet[n] + 1
    <3>1. quiet[n] \in 0..Window
      BY <1>1
    <3> QED
      BY <1>1, <3>1
  <2> QED
    BY <1>2, <2>1
<1>4. ASSUME NEW age \in Nat, NEW later \in Nat, later = age + 1
      PROVE  Carries(age, later)
  <2>1. ASSUME NEW n \in Projects, quiet'[n] > later PROVE quiet[n] > age
    <3>1. quiet[n] \in Nat /\ quiet'[n] \in Nat /\ quiet'[n] <= quiet[n] + 1
      BY <1>1, <1>3
    <3> QED
      BY <1>4, <2>1, <3>1
  <2> QED
    BY <1>1, <2>1 DEF Carries, Still
<1>5. ASSUME NEW t \in Tokens, Fresh(cache[t])
      PROVE  /\ cache[t] \in Entry /\ cache'[t] \in Entry /\ cache'[t].answer = cache[t].answer
             /\ cache'[t].age = cache[t].age + 1
  <2>1. cache[t] \in Entry /\ cache[t].age < TTL /\ cache'[t] = [cache[t] EXCEPT !.age = @ + 1]
    BY <1>1, <1>2, <1>5 DEF Fresh
  <2> QED
    BY <1>1, <2>1 DEF Entry
<1>6. cache' \in [Tokens -> Entry \cup {NoAnswer}]
  BY <1>1, <1>2, <1>5
<1>7. CacheInv'
  <2> SUFFICES ASSUME NEW t \in Tokens, Fresh(cache'[t])
               PROVE  AnswerInTime(cache[t].answer, t, AskTicks + cache[t].age)'
    BY DEF CacheInv, Fresh
  <2>1. Fresh(cache[t])
    BY <1>2 DEF Fresh
  <2>2. /\ AskTicks + cache[t].age \in Nat /\ AskTicks + cache'[t].age \in Nat
        /\ AskTicks + cache'[t].age = (AskTicks + cache[t].age) + 1
    BY <1>1, <1>5, <2>1 DEF Entry
  <2>3. ASSUME NEW answer, NEW age \in Nat, NEW later \in Nat, later = age + 1,
               AnswerInTime(answer, t, age)
        PROVE  AnswerInTime(answer, t, later)'
    BY <1>1, <1>4, <2>3, Carried
  <2>4. AnswerInTime(cache[t].answer, t, AskTicks + cache[t].age)
    BY <2>1 DEF IInv, CacheInv
  <2>5. cache'[t].answer = cache[t].answer
    BY <1>5, <2>1
  <2> QED
    BY <2>2, <2>3, <2>4, <2>5
<1>8. ASSUME NEW q \in Requests, ~At(q, "idle")
      PROVE  /\ req'[q] \in Request /\ req'[q].pc = req[q].pc /\ req'[q].token = req[q].token
             /\ req'[q].known = req[q].known /\ req'[q].left = req[q].left
             /\ req'[q].rights = req[q].rights /\ req'[q].seen = req[q].seen
             /\ req'[q].whole = req[q].whole /\ req'[q].answer = req[q].answer
             /\ req'[q].age = req[q].age + 1
  <2>1. req'[q] = [req[q] EXCEPT !.age = @ + 1]
    BY <1>2, <1>8
  <2>2. req[q] \in Request /\ req[q].age + 1 \in 0..AskTicks
    BY <1>1, <1>2, <1>8 DEF Request
  <2> QED
    BY <2>1, <2>2 DEF Request
<1>9. ASSUME NEW r \in Request, ReqInv(r), NEW s \in Request,
             s.pc = r.pc, s.token = r.token, s.known = r.known, s.left = r.left,
             s.rights = r.rights, s.seen = r.seen, s.whole = r.whole, s.answer = r.answer,
             s.age = r.age + 1
      PROVE  ReqInv(s)'
  <2>1. /\ r.age \in Nat /\ s.age \in Nat
        /\ AskTicks + TTL - 1 + r.age \in Nat /\ AskTicks + TTL - 1 + s.age \in Nat
        /\ AskTicks + TTL - 1 + s.age = (AskTicks + TTL - 1 + r.age) + 1
    BY <1>1, <1>9 DEF Request
  <2>2. Carries(r.age, s.age) /\ Carries(AskTicks + TTL - 1 + r.age, AskTicks + TTL - 1 + s.age)
    BY <1>4, <1>9, <2>1
  <2> QED
    BY <1>1, <1>9, <2>2, ReqCarried
<1>10. ASSUME NEW r \in Request, ReqInv(r), r.pc = "idle" PROVE ReqInv(r)'
  BY <1>10 DEF ReqInv
<1>11. ASSUME NEW q \in Requests
       PROVE  /\ ReqInv(req[q])' /\ req'[q] \in Request
              /\ req'[q].left = req[q].left /\ req'[q].known = req[q].known
              /\ req'[q].pc = req[q].pc /\ req'[q].answer = req[q].answer
  <2>1. req[q] \in Request /\ ReqInv(req[q])
    BY RequestType
  <2>2. CASE At(q, "idle")
    <3>1. req'[q] = req[q]
      BY <1>2, <2>2
    <3> QED
      BY <1>10, <2>1, <2>2, <3>1 DEF At
  <2>3. CASE ~At(q, "idle")
    BY <1>8, <1>9, <2>1, <2>3
  <2> QED
    BY <2>2, <2>3
<1>12. req' \in [Requests -> Request]
  BY <1>2, <1>11
<1>13. TypeOK'
  <2>1. \A q \in Requests : req'[q].left \subseteq req'[q].known
                            /\ (req'[q].answer # NoAnswer) = (req'[q].pc = "answered")
    BY <1>11 DEF IInv, TypeOK, At
  <2> QED
    BY <1>1, <1>3, <1>6, <1>12, <2>1 DEF IInv, TypeOK, Entry, At
<1> QED
  BY <1>7, <1>11, <1>13 DEF IInv

-----------------------------------------------------------------------------
LEMMA InitKept == Init => IInv
<1> SUFFICES ASSUME Init PROVE IInv
  OBVIOUS
<1>1. PICK t \in Tokens : req = [r \in Requests |-> Idle(t)]
  BY DEF Init
<1>2. \A r \in Requests : req[r] = Idle(t)
  BY <1>1
<1>3. req \in [Requests -> Request] /\ \A r \in Requests : ReqInv(req[r])
  BY <1>1, <1>2, IdleType DEF ReqInv
<1>4. Window \in 0..Window
  BY Times
<1>5. /\ cluster \in [Tokens -> DOMAIN ClusterVerbs]
      /\ role \in [Tokens -> [Projects -> DOMAIN RoleVerbs]] /\ change \in Change
  BY DEF Init, ClusterVerbs, RoleVerbs, Change
<1>6. TypeOK
  <2>1. \A r \in Requests : req[r].left \subseteq req[r].known
                            /\ (req[r].answer # NoAnswer) = At(r, "answered")
    BY <1>2, IdleType DEF At
  <2> QED
    BY <1>3, <1>4, <1>5, <2>1 DEF Init, TypeOK
<1>7. CacheInv
  BY DEF Init, CacheInv, Fresh
<1> QED
  BY <1>3, <1>6, <1>7 DEF IInv

LEMMA NextKept == IInv /\ [Next]_vars => IInv'
<1> SUFFICES ASSUME IInv, [Next]_vars PROVE IInv'
  OBVIOUS
<1>1. CASE Cluster
  BY <1>1, ClusterKept
<1>2. CASE Forget
  BY <1>2, ForgetKept
<1>3. ASSUME NEW q \in Requests, Ask(q) PROVE IInv'
  BY <1>3, StartKept, HitKept, MissKept, ClusterReviewedKept, ReviewedKept, SettledAllKept,
     ProjectReviewedKept, AskedKept, NotAnsweredKept, UnreviewedKept, ListRefusedKept, FinishKept
  DEF Ask
<1>4. CASE Tick
  BY <1>4, TickKept
<1>5. CASE UNCHANGED vars
  <2>1. UNCHANGED <<cluster, role, exists, known, cache, req, change, quiet>>
    BY <1>5 DEF vars
  <2>2. TypeOK' /\ CacheInv'
    BY <2>1 DEF IInv, TypeOK, At, CacheInv, Fresh, AnswerInTime, SeenInTime, Still, CanSee, Held
  <2>3. \A age : Carries(age, age)
    BY <2>1 DEF Carries, Still
  <2>4. ASSUME NEW r \in Request, ReqInv(r) PROVE ReqInv(r)'
    BY <2>1, <2>3, <2>4, ReqCarried
  <2>5. \A q \in Requests : req'[q] = req[q] /\ req[q] \in Request /\ ReqInv(req[q])
    BY <2>1 DEF IInv, TypeOK
  <2> QED
    BY <2>2, <2>4, <2>5 DEF IInv
<1> QED
  BY <1>1, <1>2, <1>3, <1>4, <1>5 DEF Next

LEMMA Inductive == Spec => []IInv
<1> QED
  BY InitKept, NextKept, PTL DEF Spec

\* What an answered request has is in time to within the window.
LEMMA AnsweredInTime ==
  ASSUME IInv, NEW q \in Requests, At(q, "answered"), NEW n \in Projects, quiet[n] = Window
  PROVE  LET answer == req[q].answer
             t      == req[q].token
         IN  /\ n \in answer.seen => CanSee(t, n)
             /\ answer.whole /\ n \in known /\ CanSee(t, n) => n \in answer.seen
             /\ answer.rights # NoRules /\ "delete" \in Held(t, n) => May(answer.rights, n, "delete")
<1>1. /\ req[q].age \in 0..AskTicks
      /\ AnswerInTime(req[q].answer, req[q].token, AskTicks + TTL - 1 + req[q].age)
  BY RequestType DEF ReqInv, At
<1>2. Still(n, AskTicks + TTL - 1 + req[q].age)
  BY <1>1, Times DEF Still, Window
<1> QED
  BY <1>1, <1>2 DEF AnswerInTime, SeenInTime

\* Every variable has its type, a request asks only of the projects it read, and has an
\* answer exactly once it is answered.
THEOREM TypeCorrect == Spec => []TypeOK
<1>1. IInv => TypeOK
  BY DEF IInv
<1> QED
  BY <1>1, Inductive, PTL

\* A project the viewer has held nothing in for longer than an answer stands and two
\* requests last is on no page of theirs: whatever failed, was marked incomplete or came in
\* between the questions, and whoever else's asking put an older answer into the cache.
THEOREM NothingTakenAwayIsShown == Spec => []TakenAwayIsHidden
<1>1. IInv => TakenAwayIsHidden
  <2> SUFFICES ASSUME IInv, NEW q \in Requests, At(q, "answered"),
                      req[q].answer.source # "Unavailable", NEW n \in known \cap req[q].known,
                      quiet[n] = Window, ~CanSee(req[q].token, n)
               PROVE  n \in Hidden(q)
    BY DEF TakenAwayIsHidden
  <2>1. n \in Projects
    BY DEF IInv, TypeOK
  <2>2. n \notin req[q].answer.seen
    BY <2>1, AnsweredInTime
  <2> QED
    BY <2>2 DEF Hidden
<1> QED
  BY <1>1, Inductive, PTL

\* A project held and known for as long is on the page if every question was answered, and
\* what the viewer may do in it is offered whatever failed.
THEOREM NothingHeldIsMissing == Spec => []HeldIsShown
<1>1. IInv => HeldIsShown
  <2> SUFFICES ASSUME IInv, NEW q \in Requests, NEW n \in known, At(q, "answered"), quiet[n] = Window
               PROVE  /\ req[q].answer.whole /\ CanSee(req[q].token, n) => n \notin Hidden(q)
                      /\ req[q].answer.rights # NoRules /\ "delete" \in Held(req[q].token, n) =>
                           May(req[q].answer.rights, n, "delete")
    BY DEF HeldIsShown
  <2>1. n \in Projects
    BY DEF IInv, TypeOK
  <2>2. /\ req[q].answer.whole /\ CanSee(req[q].token, n) => n \in req[q].answer.seen
        /\ req[q].answer.rights # NoRules /\ "delete" \in Held(req[q].token, n) =>
             May(req[q].answer.rights, n, "delete")
    BY <2>1, AnsweredInTime
  <2> QED
    BY <2>2 DEF Hidden
<1> QED
  BY <1>1, Inductive, PTL
=============================================================================
