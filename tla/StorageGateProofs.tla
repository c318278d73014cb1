-------------------------- MODULE StorageGateProofs --------------------------
(***************************************************************************)
(* Who writes to storage, as whom, and how old the answer may be that let  *)
(* them, for any number of users, tokens, sessions, requests and pages and *)
(* for any lengths of time.                                                *)
(***************************************************************************)
EXTENDS StorageGate, TLAPS

\* A session is somebody's from its sign-in on, and nobody else's.
SessionInv == \A c \in Cookies : session[c].live => session[c].who # None

\* Who the request of record r is: what named them was presented with it.
Named(r) ==
  /\ r.cred.cookie # None => session[r.cred.cookie].who # None
  /\ signIn =>
       \/ r.who \in {Cert, Anonymous}
       \/ r.who \in Tokens /\ r.who = r.cred.bearer
       \/ r.cred.cookie # None /\ r.who = session[r.cred.cookie].who

\* What a request has passed: the gate, and for destructive storage the review.
Passed(r) ==
  /\ r.pc \notin {"idle", "gate"} /\ signIn => MayWrite(r.who) \/ r.cred.bearer \in Tokens
  /\ r.pc \in {"decided", "sent"} /\ r.kind = "destroy" /\ r.decision = "yes" =>
       r.who \in Bearers \cup {Root}
  /\ r.pc = "sent" /\ r.kind = "destroy" => r.decision = "yes" /\ r.as = UpstreamBearer(r.who)

\* An answer is what the apiserver holds, or held at most `age` ago.
True(decision, b, age) == decision \in {Answer(b), "unanswered"} \/ quiet[b] <= age

\* One asking old on its way to the cache, as much and its own age in it, and the age of
\* the request it was taken out for besides.
InTime(r) ==
  /\ r.pc = "keep" => r.decision \in Decisions /\ True(r.decision, r.who, r.age)
  /\ r.pc \in {"decided", "sent"} /\ r.kind # "write" /\ r.who \in Bearers =>
       True(r.decision, r.who, AskTicks + TTL - 1 + r.age)

KeptInTime == \A b \in Bearers : cache[b] # None => True(cache[b].decision, b, AskTicks + cache[b].age)

ReqInv(r) ==
  /\ r.kind = "page" => r.pc # "sent" /\ r.pc # "gate"
  /\ r.pc # "idle" /\ r.kind # "page" => Named(r) /\ Passed(r)
  /\ InTime(r)

IInv == TypeOK /\ SessionInv /\ KeptInTime /\ \A q \in Asking : ReqInv(req[q])

-----------------------------------------------------------------------------
Rec == [pc : {"idle", "gate", "review", "ask", "keep", "decided", "sent"},
        kind : {"page", "write", "destroy", None}, cred : Credentials,
        who : Signers \cup {Cert, Anonymous, Root},
        decision : Decisions \cup {None}, as : Bearers \cup {Own, None}, age : 0..AskTicks]
Entries == [decision : Decisions, age : 0..(TTL - 1)]

LEMMA RecType ==
  ASSUME IInv, NEW q \in Asking
  PROVE  req[q] \in Rec /\ ReqInv(req[q])
BY DEF IInv, TypeOK, Rec

LEMMA BearersAreNamed ==
  \A b \in Bearers : b # None /\ b # Own /\ b \notin {Cert, Anonymous, Root} /\ b \in Signers
BY UserAssumption, NameAssumption DEF Bearers, Signers, Tokens

LEMMA IdentityOf ==
  /\ \A who : Identity(who) # None <=> who \in Bearers
  /\ \A who \in Bearers : Identity(who) = who
BY BearersAreNamed DEF Identity

LEMMA IdleType == Idle \in Rec /\ Idle.pc = "idle" /\ Idle.kind = None
BY TimeAssumption DEF Idle, Rec, NoCredential, Credentials

LEMMA IdleFields ==
  /\ DOMAIN Idle = {"pc", "kind", "cred", "who", "decision", "as", "age"}
  /\ Idle.cred = NoCredential
BY DEF Idle

\* A step of one request or page.
LEMMA OneSteps ==
  ASSUME IInv, NEW q \in Asking, NEW r \in Rec, req' = [req EXCEPT ![q] = r],
         UNCHANGED <<config, files, session, admins, quiet>>,
         cache' \in [Bearers -> Entries \cup {None}], KeptInTime',
         ReqInv(r), r.pc \in {"ask", "keep"} => r.who \in Bearers
  PROVE  IInv'
<1>1. req \in [Asking -> Rec] /\ req' \in [Asking -> Rec]
  BY DEF IInv, TypeOK, Rec
<1>2. \A x \in Asking : req'[x] = IF x = q THEN r ELSE req[x]
  BY <1>1
<1>3. TypeOK'
  BY <1>1, <1>2 DEF IInv, TypeOK, Rec, Entries, config
<1>4. SessionInv'
  BY DEF IInv, SessionInv
<1>5. UNCHANGED <<signIn, writers, files, session, admins, quiet>>
  BY DEF config
<1>6. ASSUME NEW x \in Asking PROVE ReqInv(req'[x])
  BY <1>2 DEF IInv
<1>7. ASSUME NEW s \in Rec, ReqInv(s)
      PROVE  ReqInv(s)'
  BY <1>5, <1>7 DEF ReqInv, Named, Passed, MayWrite, InTime, True, Answer
<1>8. (\A x \in Asking : ReqInv(req[x]))'
  BY <1>1, <1>6, <1>7
<1> QED
  BY <1>3, <1>4, <1>8 DEF IInv

\* ... that leaves what is kept alone.
LEMMA OneStepsApart ==
  ASSUME IInv, NEW q \in Asking, NEW r \in Rec, Step(q, r), UNCHANGED cache,
         ReqInv(r), r.pc \in {"ask", "keep"} => r.who \in Bearers
  PROVE  IInv'
<1>1. req' = [req EXCEPT ![q] = r] /\ UNCHANGED <<config, files, session, admins, quiet>>
  BY DEF Step
<1>2. cache' \in [Bearers -> Entries \cup {None}]
  BY DEF IInv, TypeOK, Entries
<1>3. KeptInTime'
  BY <1>1 DEF IInv, KeptInTime, True, Answer
<1> QED
  BY <1>1, <1>2, <1>3, OneSteps

-----------------------------------------------------------------------------
LEMMA ArriveKept ==
  ASSUME IInv, NEW q \in Requests, NEW kind \in {"write", "destroy"}, NEW cred \in Credentials,
         Arrive(q, kind, cred)
  PROVE  IInv'
<1> DEFINE r == [Idle EXCEPT !.pc = "gate", !.kind = kind, !.cred = cred, !.who = Viewer(cred)]
<1>1. /\ q \in Asking /\ Step(q, r) /\ UNCHANGED cache
      /\ cred.cookie # None => session[cred.cookie].who # None
  BY DEF Arrive, Asking
<1>2. /\ session \in [Cookies -> [who : Signers \cup {None}, live : BOOLEAN]]
      /\ files \subseteq Tokens
  BY DEF IInv, TypeOK
<1>3. Good(cred.cookie) => cred.cookie # None /\ session[cred.cookie].who \in Signers
  BY <1>1, <1>2 DEF Good, Credentials
<1>4. Viewer(cred) \in Signers \cup {Cert, Anonymous, Root}
  BY <1>2, <1>3 DEF Viewer, Signers
<1>5. signIn => \/ Viewer(cred) \in {Cert, Anonymous}
                \/ Viewer(cred) \in Tokens /\ Viewer(cred) = cred.bearer
                \/ cred.cookie # None /\ Viewer(cred) = session[cred.cookie].who
  BY <1>2, <1>3 DEF Viewer
<1>6. r = [Idle EXCEPT !.pc = "gate", !.kind = kind, !.cred = cred, !.who = Viewer(cred)]
  OBVIOUS
<1> HIDE DEF r
<1>7. /\ r \in Rec /\ r.pc = "gate" /\ r.kind = kind /\ r.cred = cred /\ r.who = Viewer(cred)
  BY <1>4, <1>6, IdleType DEF Rec
<1>8. ReqInv(r)
  BY <1>1, <1>5, <1>7 DEF ReqInv, Named, Passed, InTime
<1> QED
  BY <1>1, <1>7, <1>8, OneStepsApart

LEMMA FillKept ==
  ASSUME IInv, NEW p \in Pages, NEW b \in Bearers, Fill(p, b)
  PROVE  IInv'
<1> DEFINE r == [Idle EXCEPT !.pc = "review", !.kind = "page", !.cred = NoCredential, !.who = b]
<1>1. p \in Asking /\ Step(p, r) /\ UNCHANGED cache
  <2>1. [Idle EXCEPT !.pc = "review", !.kind = "page", !.who = b] = r
    BY IdleFields
  <2> QED
    BY <2>1 DEF Fill, Asking
<1> HIDE DEF r
<1>2. r \in Rec /\ r.pc = "review" /\ r.kind = "page" /\ r.who = b
  <2>1. NoCredential \in Credentials /\ b \in Signers
    BY BearersAreNamed DEF NoCredential, Credentials
  <2>2. r = [Idle EXCEPT !.pc = "review", !.kind = "page", !.cred = NoCredential, !.who = b]
    BY DEF r
  <2> HIDE DEF NoCredential
  <2> QED
    BY <2>1, <2>2, IdleType DEF Rec
<1>3. ReqInv(r)
  BY <1>2 DEF ReqInv, InTime
<1> QED
  BY <1>1, <1>2, <1>3, OneStepsApart

LEMMA EndsKept ==
  ASSUME IInv, NEW q \in Asking, Step(q, Idle), UNCHANGED cache
  PROVE  IInv'
<1>1. ReqInv(Idle)
  BY IdleType DEF ReqInv, InTime
<1> QED
  BY <1>1, IdleType, OneStepsApart

\* Past the gate: a token beside it, or a viewer who may write.
LEMMA LetInKept ==
  ASSUME IInv, NEW q \in Requests, LetIn(q)
  PROVE  IInv'
<1> DEFINE w == [req[q] EXCEPT !.pc = "sent", !.as = Own]
           v == [req[q] EXCEPT !.pc = "review"]
<1>1. q \in Asking /\ req[q] \in Rec /\ ReqInv(req[q]) /\ req[q].pc = "gate"
  BY RecType DEF LetIn, At, Asking
<1>2. req[q].kind # "page" /\ Named(req[q])
  BY <1>1 DEF ReqInv
<1>3. signIn => MayWrite(req[q].who) \/ req[q].cred.bearer \in Tokens
  BY DEF LetIn, Opens, IInv, TypeOK
<1>4. UNCHANGED cache
  BY DEF LetIn
<1>5. CASE req[q].kind = "write"
  <2>1. Step(q, w)
    BY <1>5 DEF LetIn
  <2>2. /\ w \in Rec /\ w.pc = "sent" /\ w.kind = "write" /\ w.cred = req[q].cred
        /\ w.who = req[q].who
    BY <1>1, <1>5 DEF Rec
  <2> HIDE DEF w
  <2>3. ReqInv(w)
    BY <1>2, <1>3, <2>2 DEF ReqInv, Named, Passed, InTime
  <2> QED
    BY <1>1, <1>4, <2>1, <2>2, <2>3, OneStepsApart
<1>6. CASE req[q].kind # "write"
  <2>1. Step(q, v)
    BY <1>6 DEF LetIn
  <2>2. /\ v \in Rec /\ v.pc = "review" /\ v.kind = req[q].kind /\ v.cred = req[q].cred
        /\ v.who = req[q].who
    BY <1>1 DEF Rec
  <2> HIDE DEF v
  <2>3. ReqInv(v)
    BY <1>2, <1>3, <2>2 DEF ReqInv, Named, Passed, InTime
  <2> QED
    BY <1>1, <1>4, <2>1, <2>2, <2>3, OneStepsApart
<1> QED
  BY <1>5, <1>6

-----------------------------------------------------------------------------
(* The review. *)

\* A record whose review is over: what is left is how old the decision is.
LEMMA DecidedType ==
  ASSUME IInv, NEW q \in Asking, req[q].pc \in {"review", "keep"},
         NEW decision \in Decisions,
         decision = "yes" => req[q].who \in Bearers \cup {Root},
         req[q].kind # "write" /\ req[q].who \in Bearers =>
           True(decision, req[q].who, AskTicks + TTL - 1 + req[q].age)
  PROVE  LET r == [req[q] EXCEPT !.pc = "decided", !.decision = decision]
         IN  r \in Rec /\ ReqInv(r) /\ r.pc = "decided"
<1> DEFINE r == [req[q] EXCEPT !.pc = "decided", !.decision = decision]
<1>1. req[q] \in Rec /\ ReqInv(req[q])
  BY RecType
<1>2. r \in Rec
  BY <1>1 DEF Rec
<1>3. /\ r.pc = "decided" /\ r.decision = decision /\ r.kind = req[q].kind /\ r.cred = req[q].cred
      /\ r.who = req[q].who /\ r.age = req[q].age
  BY <1>1 DEF Rec
<1> HIDE DEF r
<1>4. ReqInv(r)
  BY <1>1, <1>3 DEF ReqInv, Named, Passed, InTime
<1> QED
  BY <1>2, <1>3, <1>4 DEF r

LEMMA NeedsNoAskingKept ==
  ASSUME IInv, NEW q \in Requests, NeedsNoAsking(q)
  PROVE  IInv'
<1> DEFINE decision == IF req[q].who = Root THEN "yes" ELSE "no"
           r == [req[q] EXCEPT !.pc = "decided", !.decision = decision]
<1>1. q \in Asking /\ req[q].pc = "review" /\ req[q].who \notin Bearers
      /\ Step(q, r) /\ UNCHANGED cache
  BY IdentityOf DEF NeedsNoAsking, At, Decide, Asking
<1>2. decision \in Decisions /\ (decision = "yes" => req[q].who \in Bearers \cup {Root})
  BY DEF Decisions
<1> HIDE DEF decision
<1>3. r \in Rec /\ ReqInv(r) /\ r.pc = "decided"
  BY <1>1, <1>2, DecidedType
<1> QED
  BY <1>1, <1>3, OneStepsApart

\* A kept answer is one asking and its own age old.
LEMMA KeptKept ==
  ASSUME IInv, NEW q \in Asking, Kept(q)
  PROVE  IInv'
<1> DEFINE b == req[q].who
           decision == cache[b].decision
           r == [req[q] EXCEPT !.pc = "decided", !.decision = decision]
<1>1. /\ req[q].pc = "review" /\ b \in Bearers /\ cache[b] # None
      /\ Step(q, r) /\ UNCHANGED cache
  BY IdentityOf DEF Kept, At, Decide, Fresh
<1>2. cache[b] \in Entries /\ req[q].age \in 0..AskTicks /\ quiet[b] \in 0..Window
  BY <1>1 DEF IInv, TypeOK, Entries
<1>3. True(decision, b, AskTicks + cache[b].age)
  BY <1>1 DEF IInv, KeptInTime
<1>4. decision \in Decisions /\ cache[b].age \in 0..(TTL - 1)
  BY <1>2 DEF Entries
<1>5. True(decision, b, AskTicks + TTL - 1 + req[q].age)
  <2>1. quiet[b] \in Int /\ TTL \in Int /\ AskTicks \in Int
    BY <1>2, TimeAssumption DEF Window
  <2>2. quiet[b] <= AskTicks + cache[b].age => quiet[b] <= AskTicks + TTL - 1 + req[q].age
    BY <1>2, <1>4, <2>1, SMTT(40)
  <2> QED
    BY <1>3, <2>2 DEF True
<1> HIDE DEF decision
<1>6. r \in Rec /\ ReqInv(r) /\ r.pc = "decided"
  BY <1>1, <1>4, <1>5, DecidedType
<1> QED
  BY <1>1, <1>6, OneStepsApart

LEMMA NotKeptKept ==
  ASSUME IInv, NEW q \in Asking, NotKept(q)
  PROVE  IInv'
<1> DEFINE r == [req[q] EXCEPT !.pc = "ask"]
<1>1. /\ req[q] \in Rec /\ ReqInv(req[q]) /\ req[q].pc = "review"
      /\ req[q].who \in Bearers /\ Step(q, r) /\ UNCHANGED cache
  BY RecType, IdentityOf DEF NotKept, At
<1>2. /\ r \in Rec /\ r.pc = "ask" /\ r.kind = req[q].kind /\ r.cred = req[q].cred
      /\ r.who = req[q].who
  BY <1>1 DEF Rec
<1> HIDE DEF r
<1>3. ReqInv(r)
  BY <1>1, <1>2 DEF ReqInv, Named, Passed, InTime
<1> QED
  BY <1>1, <1>2, <1>3, OneStepsApart

LEMMA AskKept ==
  ASSUME IInv, NEW q \in Asking, Ask(q)
  PROVE  IInv'
<1>1. PICK decision \in {Answer(req[q].who), "unanswered"} :
        Step(q, [req[q] EXCEPT !.pc = "keep", !.decision = decision])
  BY DEF Ask
<1> DEFINE r == [req[q] EXCEPT !.pc = "keep", !.decision = decision]
<1>2. req[q] \in Rec /\ ReqInv(req[q]) /\ req[q].pc = "ask" /\ Step(q, r) /\ UNCHANGED cache
      /\ req[q].who \in Bearers
  BY <1>1, RecType DEF Ask, At, IInv, TypeOK
<1>3. decision \in Decisions
  BY DEF Answer, Decisions
<1>4. /\ r \in Rec /\ r.pc = "keep" /\ r.kind = req[q].kind /\ r.cred = req[q].cred
      /\ r.who = req[q].who /\ r.decision = decision
  BY <1>2, <1>3 DEF Rec
<1> HIDE DEF r
<1>5. ReqInv(r)
  BY <1>2, <1>3, <1>4 DEF ReqInv, Named, Passed, InTime, True
<1> QED
  BY <1>2, <1>4, <1>5, OneStepsApart

\* The answer is kept from now on, as old as its asking.
LEMMA KeepKept ==
  ASSUME IInv, NEW q \in Asking, Keep(q)
  PROVE  IInv'
<1> DEFINE b == req[q].who
           decision == req[q].decision
           r == [req[q] EXCEPT !.pc = "decided", !.decision = decision]
           entry == [decision |-> decision, age |-> 0]
<1>1. /\ req[q] \in Rec /\ ReqInv(req[q]) /\ req[q].pc = "keep" /\ b \in Bearers
      /\ Step(q, r) /\ cache' = [cache EXCEPT ![b] = entry]
  BY RecType DEF Keep, At, Decide, IInv, TypeOK
<1>2. True(decision, b, req[q].age)
  BY <1>1 DEF ReqInv, InTime
<1>3. /\ req[q].age \in 0..AskTicks /\ quiet[b] \in 0..Window
      /\ cache \in [Bearers -> Entries \cup {None}]
  BY <1>1 DEF IInv, TypeOK, Rec, Entries
<1>4. decision \in Decisions
  BY <1>1 DEF ReqInv, InTime
<1>5. /\ quiet[b] \in Int /\ TTL \in Int /\ TTL > 0 /\ AskTicks \in Int
  BY <1>3, TimeAssumption DEF Window
<1>6. True(decision, b, AskTicks + TTL - 1 + req[q].age) /\ True(decision, b, AskTicks + 0)
  BY <1>2, <1>3, <1>5 DEF True
<1>7. UNCHANGED <<config, files, session, admins, quiet>> /\ req' = [req EXCEPT ![q] = r]
  BY <1>1 DEF Step
<1>8. entry \in Entries /\ entry.decision = decision /\ entry.age = 0
  BY <1>4, <1>5 DEF Entries
<1> HIDE DEF entry, decision
<1>9. cache' \in [Bearers -> Entries \cup {None}]
  BY <1>1, <1>3, <1>8
<1>10. KeptInTime'
  <2> SUFFICES ASSUME NEW x \in Bearers, cache'[x] # None
               PROVE  True(cache'[x].decision, x, AskTicks + cache'[x].age)
    BY <1>7 DEF KeptInTime, True, Answer
  <2>1. CASE x = b
    <3>1. cache'[x] = entry
      BY <1>1, <1>3, <2>1
    <3> QED
      BY <1>6, <1>8, <2>1, <3>1
  <2>2. CASE x # b
    <3>1. cache'[x] = cache[x]
      BY <1>1, <1>3, <2>2
    <3>2. True(cache[x].decision, x, AskTicks + cache[x].age)
      BY <3>1 DEF IInv, KeptInTime
    <3> QED
      BY <3>1, <3>2
  <2> QED
    BY <2>1, <2>2
<1>11. r \in Rec /\ ReqInv(r) /\ r.pc = "decided"
  BY <1>1, <1>4, <1>6, DecidedType
<1> QED
  BY <1>7, <1>9, <1>10, <1>11, OneSteps

-----------------------------------------------------------------------------
(* What becomes of it, and everything around it. *)

LEMMA ForwardKept ==
  ASSUME IInv, NEW q \in Requests, Forward(q)
  PROVE  IInv'
<1> DEFINE as == UpstreamBearer(req[q].who)
           r == [req[q] EXCEPT !.pc = "sent", !.as = as]
<1>1. /\ q \in Asking /\ req[q] \in Rec /\ ReqInv(req[q]) /\ req[q].pc = "decided"
      /\ req[q].kind = "destroy" /\ req[q].decision = "yes" /\ Step(q, r) /\ UNCHANGED cache
  BY RecType DEF Forward, At, Asking
<1>2. as \in Bearers \cup {Own}
  BY IdentityOf DEF UpstreamBearer
<1>3. as = UpstreamBearer(req[q].who)
  OBVIOUS
<1> HIDE DEF as
<1>4. /\ r \in Rec /\ r.pc = "sent" /\ r.kind = req[q].kind /\ r.cred = req[q].cred
      /\ r.who = req[q].who /\ r.decision = req[q].decision /\ r.age = req[q].age /\ r.as = as
  BY <1>1, <1>2 DEF Rec
<1> HIDE DEF r
<1>5. ReqInv(r)
  BY <1>1, <1>3, <1>4 DEF ReqInv, Named, Passed, InTime
<1> QED
  BY <1>1, <1>4, <1>5, OneStepsApart

\* Sessions and files change what the next request is, not who one under way was.
LEMMA SignInsKept ==
  ASSUME IInv,
         (\E c \in Cookies : SessionEnds(c) \/ \E who \in Signers : Login(c, who)) \/ FileChanges
  PROVE  IInv'
<1>1. /\ session \in [Cookies -> [who : Signers \cup {None}, live : BOOLEAN]]
      /\ files \subseteq Tokens
  BY DEF IInv, TypeOK
<1>2. UNCHANGED <<signIn, writers, admins, cache, req, quiet>>
  BY DEF SessionEnds, Login, FileChanges, config
<1>3. /\ session' \in [Cookies -> [who : Signers \cup {None}, live : BOOLEAN]]
      /\ \A c \in Cookies : session[c].who # None => session'[c].who = session[c].who
      /\ SessionInv'
  <2>1. ASSUME NEW c \in Cookies, SessionEnds(c)
        PROVE  /\ session' \in [Cookies -> [who : Signers \cup {None}, live : BOOLEAN]]
               /\ \A x \in Cookies : session'[x].who = session[x].who
               /\ \A x \in Cookies : session'[x].live => session[x].live
    BY <1>1, <2>1 DEF SessionEnds
  <2>2. ASSUME NEW c \in Cookies, NEW who \in Signers, Login(c, who)
        PROVE  /\ session' \in [Cookies -> [who : Signers \cup {None}, live : BOOLEAN]]
               /\ \A x \in Cookies : x # c => session'[x] = session[x]
               /\ session[c].who = None /\ session'[c].who = who /\ who # None
    <3>1. who # None
      BY <1>1, <2>2, UserAssumption, NameAssumption DEF Login, Signers, Tokens
    <3> QED
      BY <1>1, <2>2, <3>1 DEF Login
  <2>3. CASE FileChanges
    BY <1>1, <2>3 DEF FileChanges, IInv, SessionInv
  <2>4. CASE \E c \in Cookies : SessionEnds(c)
    BY <2>1, <2>4 DEF IInv, SessionInv
  <2>5. CASE \E c \in Cookies : \E who \in Signers : Login(c, who)
    BY <2>2, <2>5 DEF IInv, SessionInv
  <2> QED
    BY <2>3, <2>4, <2>5
<1>4. files' \subseteq Tokens
  BY <1>1 DEF SessionEnds, Login, FileChanges
<1>5. TypeOK'
  BY <1>2, <1>3, <1>4 DEF IInv, TypeOK
<1>6. KeptInTime'
  BY <1>2 DEF IInv, KeptInTime, True, Answer
<1>7. ASSUME NEW q \in Asking PROVE ReqInv(req[q])'
  <2>1. req[q] \in Rec /\ ReqInv(req[q])
    BY RecType
  <2>2. req[q].cred.cookie # None => req[q].cred.cookie \in Cookies
    BY <2>1 DEF Rec, Credentials
  <2>3. Named(req[q]) => Named(req[q])'
    BY <1>2, <1>3, <2>2 DEF Named
  <2> QED
    BY <1>2, <2>1, <2>3 DEF ReqInv, Passed, MayWrite, InTime, True, Answer
<1> QED
  BY <1>2, <1>3, <1>5, <1>6, <1>7 DEF IInv

LEMMA RoleChangesKept ==
  ASSUME IInv, NEW b \in Bearers, RoleChanges(b)
  PROVE  IInv'
<1>1. /\ UNCHANGED <<signIn, writers, files, session, cache, req>>
      /\ quiet' = [quiet EXCEPT ![b] = 0] /\ admins' \subseteq Bearers
      /\ \A x \in Bearers : x # b => (x \in admins' <=> x \in admins)
  BY DEF RoleChanges, config, IInv, TypeOK
<1>2. quiet \in [Bearers -> 0..Window] /\ Window \in Nat /\ TTL \in Nat \ {0} /\ AskTicks \in Nat
  BY TimeAssumption DEF IInv, TypeOK, Window
<1>3. quiet'[b] = 0 /\ \A x \in Bearers : x # b => quiet'[x] = quiet[x]
  BY <1>1, <1>2
<1>4. TypeOK'
  BY <1>1, <1>2 DEF IInv, TypeOK
\* For b nothing is too old; for the others nothing changes.
<1>5. ASSUME NEW decision, NEW x \in Bearers, NEW age \in Nat, True(decision, x, age)
      PROVE  True(decision, x, age)'
  BY <1>1, <1>3, <1>5 DEF True, Answer
<1>6. KeptInTime'
  <2> SUFFICES ASSUME NEW x \in Bearers, cache[x] # None
               PROVE  True(cache[x].decision, x, AskTicks + cache[x].age)'
    BY <1>1 DEF KeptInTime
  <2>1. cache[x] \in Entries
    BY DEF IInv, TypeOK, Entries
  <2>2. AskTicks + cache[x].age \in Nat
    BY <1>2, <2>1 DEF Entries
  <2> QED
    BY <1>1, <1>5, <2>2 DEF IInv, KeptInTime
<1>7. ASSUME NEW q \in Asking PROVE ReqInv(req[q])'
  <2>1. req[q] \in Rec /\ ReqInv(req[q])
    BY RecType
  <2>2. req[q].age \in Nat /\ AskTicks + TTL - 1 + req[q].age \in Nat
    BY <1>2, <2>1 DEF Rec
  <2>3. req[q].pc = "keep" => req[q].who \in Bearers
    BY DEF IInv, TypeOK
  <2>4. InTime(req[q])'
    BY <1>1, <1>5, <2>1, <2>2, <2>3 DEF ReqInv, InTime
  <2> QED
    BY <1>1, <2>1, <2>4 DEF ReqInv, Named, Passed, MayWrite
<1> QED
  BY <1>1, <1>4, <1>6, <1>7 DEF IInv, SessionInv

\* An answer, what is kept of it and the request that has it grow old together.
LEMMA TickKept ==
  ASSUME IInv, Tick
  PROVE  IInv'
<1>1. UNCHANGED <<signIn, writers, files, session, admins>>
  BY DEF Tick, config
<1>2. /\ Window \in Nat /\ TTL \in Nat \ {0} /\ AskTicks \in Nat
      /\ quiet \in [Bearers -> 0..Window] /\ cache \in [Bearers -> Entries \cup {None}]
      /\ req \in [Asking -> Rec]
  BY TimeAssumption DEF IInv, TypeOK, Window, Entries, Rec
<1>3. /\ cache' = [b \in Bearers |-> Aged(cache[b])]
      /\ req' = [q \in Asking |-> IF At(q, "idle") THEN Idle ELSE [req[q] EXCEPT !.age = @ + 1]]
      /\ quiet' = [b \in Bearers |-> IF quiet[b] = Window THEN Window ELSE quiet[b] + 1]
      /\ \A q \in Asking : req[q].age < AskTicks
  BY DEF Tick
<1>4. quiet' \in [Bearers -> 0..Window] /\ \A b \in Bearers : quiet'[b] <= quiet[b] + 1
  <2>1. ASSUME NEW b \in Bearers
        PROVE  /\ quiet[b] \in 0..Window
               /\ (IF quiet[b] = Window THEN Window ELSE quiet[b] + 1) \in 0..Window
               /\ (IF quiet[b] = Window THEN Window ELSE quiet[b] + 1) <= quiet[b] + 1
    <3>1. quiet[b] \in 0..Window
      BY <1>2
    <3> QED
      BY <1>2, <3>1
  <2> QED
    BY <1>3, <2>1
<1>5. ASSUME NEW decision, NEW b \in Bearers, NEW age \in Nat, True(decision, b, age)
      PROVE  True(decision, b, age + 1)'
  <2>1. quiet[b] \in Int /\ quiet'[b] \in Int /\ quiet'[b] <= quiet[b] + 1
    BY <1>2, <1>4
  <2>2. quiet[b] <= age => quiet'[b] <= age + 1
    BY <2>1
  <2> QED
    BY <1>1, <1>5, <2>2 DEF True, Answer
<1>6. ASSUME NEW b \in Bearers, cache'[b] # None
      PROVE  /\ cache[b] \in Entries /\ cache'[b] \in Entries
             /\ cache'[b].decision = cache[b].decision /\ cache'[b].age = cache[b].age + 1
             /\ cache[b] # None
  <2>1. cache[b] # None /\ ~(cache[b].age + 1 >= TTL) /\ cache'[b] = [cache[b] EXCEPT !.age = @ + 1]
    BY <1>3, <1>6 DEF Aged
  <2> QED
    BY <1>2, <2>1 DEF Entries
<1>7. cache' \in [Bearers -> Entries \cup {None}]
  BY <1>3, <1>6
<1>8. KeptInTime'
  <2> SUFFICES ASSUME NEW b \in Bearers, cache'[b] # None
               PROVE  cache'[b].decision \in {Answer(b), "unanswered"}
                        \/ quiet'[b] <= AskTicks + cache'[b].age
    BY <1>1 DEF KeptInTime, True, Answer
  <2>1. /\ cache[b] \in Entries /\ cache[b] # None /\ cache'[b].decision = cache[b].decision
        /\ cache'[b].age = cache[b].age + 1
    BY <1>6
  <2>2. True(cache[b].decision, b, AskTicks + cache[b].age)
    BY <2>1 DEF IInv, KeptInTime
  <2>3. cache[b].age \in Nat /\ AskTicks + cache[b].age \in Nat
    BY <1>2, <2>1 DEF Entries
  <2>4. quiet[b] <= AskTicks + cache[b].age => quiet'[b] <= AskTicks + (cache[b].age + 1)
    <3>1. quiet[b] \in Int /\ quiet'[b] \in Int /\ quiet'[b] <= quiet[b] + 1
      BY <1>2, <1>4
    <3> QED
      BY <1>2, <2>3, <3>1
  <2> QED
    BY <2>1, <2>2, <2>4 DEF True
<1>9. ASSUME NEW q \in Asking, ~At(q, "idle")
      PROVE  /\ req'[q] \in Rec /\ req'[q].pc = req[q].pc /\ req'[q].kind = req[q].kind
             /\ req'[q].cred = req[q].cred /\ req'[q].who = req[q].who
             /\ req'[q].decision = req[q].decision /\ req'[q].as = req[q].as
             /\ req'[q].age = req[q].age + 1
  <2>1. req'[q] = [req[q] EXCEPT !.age = @ + 1]
    BY <1>3, <1>9
  <2>2. req[q] \in Rec /\ req[q].age + 1 \in 0..AskTicks
    BY <1>2, <1>3 DEF Rec
  <2> QED
    BY <2>1, <2>2 DEF Rec
<1>10. ASSUME NEW r \in Rec, ReqInv(r), r.pc \in {"ask", "keep"} => r.who \in Bearers,
              NEW s \in Rec, s.pc = r.pc, s.kind = r.kind, s.cred = r.cred, s.who = r.who,
              s.decision = r.decision, s.as = r.as, s.age = r.age + 1
       PROVE  ReqInv(s)'
  <2>1. r.age \in Nat /\ AskTicks + TTL - 1 + r.age \in Nat
        /\ (AskTicks + TTL - 1 + r.age) + 1 = AskTicks + TTL - 1 + s.age
    BY <1>2, <1>10 DEF Rec
  <2>2. s.pc = "keep" => s.decision \in Decisions /\ True(s.decision, s.who, s.age)'
    BY <1>5, <1>10, <2>1 DEF ReqInv, InTime
  <2>3. s.pc \in {"decided", "sent"} /\ s.kind # "write" /\ s.who \in Bearers =>
          True(s.decision, s.who, AskTicks + TTL - 1 + s.age)'
    BY <1>5, <1>10, <2>1 DEF ReqInv, InTime
  <2>4. InTime(s)'
    BY <1>1, <2>2, <2>3 DEF InTime
  <2> QED
    BY <1>1, <1>10, <2>4 DEF ReqInv, Named, Passed, MayWrite
<1>11. ReqInv(Idle)'
  BY IdleType DEF ReqInv, InTime
<1>12. ASSUME NEW q \in Asking PROVE ReqInv(req[q])' /\ req'[q] \in Rec
                                   /\ (req'[q].pc \in {"ask", "keep"} => req'[q].who \in Bearers)
  <2>1. req[q] \in Rec /\ ReqInv(req[q]) /\ (req[q].pc \in {"ask", "keep"} => req[q].who \in Bearers)
    BY RecType DEF IInv, TypeOK
  <2>2. CASE At(q, "idle")
    <3>1. req'[q] = Idle
      BY <1>3, <2>2
    <3> QED
      BY <1>11, <3>1, IdleType
  <2>3. CASE ~At(q, "idle")
    BY <1>9, <1>10, <2>1, <2>3
  <2> QED
    BY <2>2, <2>3
<1>13. req' \in [Asking -> Rec]
  BY <1>3, <1>12
<1>14. TypeOK'
  BY <1>1, <1>4, <1>7, <1>12, <1>13 DEF IInv, TypeOK, Rec, Entries
<1> QED
  BY <1>1, <1>8, <1>12, <1>14 DEF IInv, SessionInv

-----------------------------------------------------------------------------
LEMMA InitKept == Init => IInv
<1> SUFFICES ASSUME Init PROVE IInv
  OBVIOUS
<1>1. \A q \in Asking : req[q] = Idle
  BY DEF Init
<1>2. \A q \in Asking : ReqInv(req[q]) /\ req[q].pc = "idle"
  BY <1>1, IdleType DEF ReqInv, InTime
<1>3. req \in [Asking -> Rec]
  BY IdleType DEF Init
<1>4. writers \subseteq Users \cup {Cert} /\ files \subseteq Tokens
  BY UserAssumption DEF Init
<1>5. Window \in Nat
  BY TimeAssumption DEF Window
<1>6. TypeOK
  BY <1>2, <1>3, <1>4, <1>5 DEF Init, TypeOK, Rec
<1>7. SessionInv /\ KeptInTime
  BY DEF Init, SessionInv, KeptInTime
<1> QED
  BY <1>2, <1>6, <1>7 DEF IInv

LEMMA NextKept == IInv /\ [Next]_vars => IInv'
<1> SUFFICES ASSUME IInv, [Next]_vars PROVE IInv'
  OBVIOUS
<1>1. CASE (\E c \in Cookies : SessionEnds(c) \/ \E who \in Signers : Login(c, who)) \/ FileChanges
  BY <1>1, SignInsKept
<1>2. CASE \E b \in Bearers : RoleChanges(b)
  BY <1>2, RoleChangesKept
<1>3. ASSUME NEW q \in Requests,
             \/ \E kind \in {"write", "destroy"}, cred \in Credentials : Arrive(q, kind, cred)
             \/ LetIn(q) \/ Unauthorized(q) \/ NeedsNoAsking(q) \/ Forward(q)
      PROVE  IInv'
  BY <1>3, ArriveKept, LetInKept, NeedsNoAskingKept, ForwardKept, EndsKept DEF Unauthorized, Asking
<1>4. ASSUME NEW p \in Pages, NEW b \in Bearers, Fill(p, b) PROVE IInv'
  BY <1>4, FillKept
<1>5. ASSUME NEW q \in Asking, Kept(q) \/ NotKept(q) \/ Ask(q) \/ Keep(q) \/ Finish(q) PROVE IInv'
  BY <1>5, KeptKept, NotKeptKept, AskKept, KeepKept, EndsKept DEF Finish
<1>6. CASE Tick
  BY <1>6, TickKept
<1>7. CASE UNCHANGED vars
  BY <1>7 DEF vars, config, IInv, TypeOK, SessionInv, KeptInTime, ReqInv, Named, Passed, MayWrite,
              InTime, True, Answer
<1> QED
  BY <1>1, <1>2, <1>3, <1>4, <1>5, <1>6, <1>7 DEF Next

LEMMA Inductive == Spec => []IInv
<1>1. Init => IInv
  BY InitKept
<1>2. IInv /\ [Next]_vars => IInv'
  BY NextKept
<1> QED
  BY <1>1, <1>2, PTL DEF Spec

\* Every variable has its type, and only who has an identity upstream is asked about.
THEOREM TypeCorrect == Spec => []TypeOK
<1>1. IInv => TypeOK
  BY DEF IInv
<1> QED
  BY <1>1, Inductive, PTL

\* What a review decides is what the apiserver holds of that viewer, or held less than an
\* answer's life and two askings ago: for any TTL and any length of a request, however
\* many askings of one credential overlap and put their answers into the cache.
THEOREM ReviewsAreCurrent == Spec => []ReviewIsCurrent
<1>1. IInv => ReviewIsCurrent
  <2> SUFFICES ASSUME IInv, NEW q \in Asking, NEW b \in Bearers,
                      req[q].pc \in {"decided", "sent"}, req[q].kind # "write",
                      req[q].who = b, quiet[b] = Window
               PROVE  req[q].decision \in {Answer(b), "unanswered"}
    BY DEF ReviewIsCurrent
  <2>1. req[q] \in Rec /\ True(req[q].decision, b, AskTicks + TTL - 1 + req[q].age)
    BY RecType DEF ReqInv, InTime
  <2>2. req[q].age \in 0..AskTicks
    BY <2>1 DEF Rec
  <2>3. ~(Window <= AskTicks + TTL - 1 + req[q].age)
    BY <2>2, TimeAssumption DEF Window
  <2> QED
    BY <2>1, <2>3 DEF True
<1> QED
  BY <1>1, Inductive, PTL

\* Destructive storage goes upstream with a credential of what the request presented, and
\* with the console's own only where nobody signs in.
THEOREM DestroysAsItself == Spec => []ActsAsItself
<1>1. IInv => ActsAsItself
  <2> SUFFICES ASSUME IInv, NEW q \in Requests, At(q, "sent"), req[q].kind = "destroy", signIn
               PROVE  LET cred == req[q].cred
                      IN  /\ req[q].as # Own
                          /\ \/ req[q].as = cred.bearer
                             \/ cred.cookie # None /\ req[q].as = session[cred.cookie].who
    BY DEF ActsAsItself
  <2>1. /\ req[q] \in Rec /\ Named(req[q]) /\ req[q].decision = "yes"
        /\ req[q].who \in Bearers \cup {Root} /\ req[q].as = UpstreamBearer(req[q].who)
    BY RecType DEF ReqInv, Passed, At, Asking
  <2>2. /\ session \in [Cookies -> [who : Signers \cup {None}, live : BOOLEAN]]
        /\ req[q].cred.cookie # None => req[q].cred.cookie \in Cookies
    BY <2>1 DEF IInv, TypeOK, Rec, Credentials
  <2>3. req[q].who # Root
    <3>1. Root \notin Signers /\ Root \notin {Cert, Anonymous} /\ Tokens \subseteq Signers
      BY NameAssumption DEF Signers, Tokens
    <3>2. req[q].cred.cookie # None => session[req[q].cred.cookie].who \in Signers
      BY <2>1, <2>2 DEF Named
    <3> QED
      BY <2>1, <3>1, <3>2 DEF Named
  <2>4. req[q].who \in Bearers /\ req[q].as = req[q].who
    BY <2>1, <2>3, IdentityOf, BearersAreNamed DEF UpstreamBearer
  <2> QED
    BY <2>1, <2>4, BearersAreNamed DEF Named
<1> QED
  BY <1>1, Inductive, PTL

\* With sign-in on nothing that writes goes upstream for a viewer without a writing role,
\* unless it carried a token a file held when it passed the gate.
THEOREM ReadersDoNotWrite == Spec => []ReaderNeverWrites
<1>1. IInv => ReaderNeverWrites
  BY DEF IInv, ReqInv, Passed, ReaderNeverWrites, At, Asking
<1> QED
  BY <1>1, Inductive, PTL

=============================================================================
