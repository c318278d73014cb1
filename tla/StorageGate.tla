---------------------------- MODULE StorageGate ----------------------------
(***************************************************************************)
(* Who a request is and what it may do to storage (auth.rs, storage.rs):   *)
(* sessions, the console's own token, install tokens and certificates name *)
(* the viewer; the gate keeps readers from writing; and a destructive      *)
(* request, like the page that offers it, is put to the apiserver as the   *)
(* viewer, by a Reviewer that keeps each answer for a while.               *)
(*                                                                         *)
(* A viewer is named by the credential behind them.  The credential of a   *)
(* user upstream is named as the user, an install token is its own, and    *)
(* Own is the console's token and its credential upstream.  Token files,   *)
(* sessions and what the apiserver grants change between any two steps.    *)
(***************************************************************************)
EXTENDS Integers, FiniteSets

CONSTANTS
  Users,          \* [[api.users]]
  Identified,     \* those of them with a kube_token
  InstallTokens,
  WriterConfigs,  \* the users, and the certificate rule, that may have a writing role
  Own, Cert, Anonymous, Root,
  Cookies,
  Requests,       \* writes that can be under way at once
  Pages,          \* and pages being filled, whose viewers stay who they were
  TTL,            \* ticks an answer stands (TTL, 30 s)
  AskTicks,       \* bound: ticks a request lasts (a review times out in 5 s)
  None

ASSUME TimeAssumption == TTL \in Nat \ {0} /\ AskTicks \in Nat
ASSUME UserAssumption ==
  Identified \subseteq Users /\ WriterConfigs \subseteq SUBSET (Users \cup {Cert})
ASSUME NameAssumption ==
  /\ {None, Cert, Anonymous, Root} \cap (Users \cup InstallTokens \cup {Own}) = {}
  /\ Own \notin Users \cup InstallTokens
  /\ Root \notin {Cert, Anonymous}

VARIABLES
  signIn,         \* AppState.auth_required
  writers,        \* those that have one
  files,          \* the tokens the two token files carry, as they are read
  session,        \* Sessions.inner: who each cookie is, and whether it stands
  admins,         \* the apiserver: the credentials that hold the storage verb
  cache,          \* Reviewer.cache: the decision kept for a credential, its age
  req,            \* the requests and pages under way
  quiet           \* history: ticks since what a credential holds changed

config == <<signIn, writers>>
vars   == <<signIn, writers, files, session, admins, cache, req, quiet>>

Window  == TTL + 2 * AskTicks
Tokens  == InstallTokens \cup {Own}
Signers == Users \cup Tokens
Bearers == Identified \cup InstallTokens

-----------------------------------------------------------------------------
(* The viewer: who a request is, what they may do, whom they are upstream. *)

\* An install token's session is good only while the file still carries it.
Good(c) == c # None /\ session[c].live /\ (session[c].who \in InstallTokens => session[c].who \in files)

Viewer(cred) ==
  IF ~signIn THEN Root
  ELSE IF Good(cred.cookie) THEN session[cred.cookie].who
  ELSE IF cred.bearer \in files THEN cred.bearer
  ELSE IF cred.cert THEN Cert ELSE Anonymous

MayWrite(who)   == who \in {Root} \cup Tokens \cup writers
Identity(who)   == IF who \in Bearers THEN who ELSE None

Credentials == [cookie : Cookies \cup {None}, bearer : Tokens \cup {None}, cert : BOOLEAN]

NoCredential == [cookie |-> None, bearer |-> None, cert |-> FALSE]
Idle == [pc |-> "idle", kind |-> None, cred |-> NoCredential, who |-> Anonymous,
         decision |-> None, as |-> None, age |-> 0]
Asking == Requests \cup Pages

Init ==
  /\ signIn \in BOOLEAN
  /\ writers \in IF signIn THEN WriterConfigs ELSE {{}}
  /\ files \in IF signIn THEN SUBSET Tokens ELSE {{}}
  /\ session = [c \in Cookies |-> [who |-> None, live |-> FALSE]]
  /\ admins \in SUBSET Bearers
  /\ cache = [b \in Bearers |-> None]
  /\ req = [q \in Asking |-> Idle]
  /\ quiet = [b \in Bearers |-> Window]

-----------------------------------------------------------------------------
(* Sessions, the token files and the apiserver. *)

\* A user signs in with their password, anybody with a token a file carries.
Login(c, who) ==
  /\ signIn
  /\ session[c].who = None
  /\ who \in Users \cup files
  /\ session' = [session EXCEPT ![c] = [who |-> who, live |-> TRUE]]
  /\ UNCHANGED <<config, files, admins, cache, req, quiet>>

\* Logged out, or 24 hours old.
SessionEnds(c) ==
  /\ session[c].live
  /\ session' = [session EXCEPT ![c].live = FALSE]
  /\ UNCHANGED <<config, files, admins, cache, req, quiet>>

FileChanges ==
  /\ signIn
  /\ files' \in (SUBSET Tokens) \ {files}
  /\ UNCHANGED <<config, session, admins, cache, req, quiet>>

RoleChanges(b) ==
  /\ admins' = IF b \in admins THEN admins \ {b} ELSE admins \cup {b}
  /\ quiet' = [quiet EXCEPT ![b] = 0]
  /\ UNCHANGED <<config, files, session, cache, req>>

-----------------------------------------------------------------------------
(* A request that writes, or is destructive storage, and a page that is    *)
(* filled for somebody with an identity.                                   *)

At(q, pc)    == req[q].pc = pc
Step(q, rec) == /\ req' = [req EXCEPT ![q] = rec]
                /\ UNCHANGED <<config, files, session, admins, quiet>>

\* gate names the viewer first, from what it reads of sessions and files now.
Arrive(q, kind, cred) ==
  /\ At(q, "idle")
  /\ cred.cookie # None => session[cred.cookie].who # None
  /\ Step(q, [Idle EXCEPT !.pc = "gate", !.kind = kind, !.cred = cred, !.who = Viewer(cred)])
  /\ UNCHANGED cache

\* components_for: what would be offered in vain is dropped (strip_storage).
Fill(p, b) ==
  /\ At(p, "idle")
  /\ Step(p, [Idle EXCEPT !.pc = "review", !.kind = "page", !.who = b])
  /\ UNCHANGED cache

\* Mutant: a session is not asked for its role.
OpensToAnySession(q) ==
  LET cred == req[q].cred
  IN \/ ~signIn
     \/ cred.bearer \in files
     \/ Good(cred.cookie)
     \/ cred.cert /\ MayWrite(req[q].who)

\* It reads them again to let the request in: a token that is good now, or a session
\* or a certificate whose viewer is no reader (refuse_read_only).
Opens(q) ==
  LET cred == req[q].cred
  IN \/ ~signIn
     \/ cred.bearer \in files
     \/ (Good(cred.cookie) \/ cred.cert) /\ MayWrite(req[q].who)

\* Destructive storage is guarded; any other write goes upstream as the console.
LetIn(q) ==
  /\ At(q, "gate")
  /\ Opens(q)
  /\ Step(q, IF req[q].kind = "write" THEN [req[q] EXCEPT !.pc = "sent", !.as = Own]
                                      ELSE [req[q] EXCEPT !.pc = "review"])
  /\ UNCHANGED cache

Unauthorized(q) ==
  /\ At(q, "gate")
  /\ ~Opens(q)
  /\ Step(q, Idle)
  /\ UNCHANGED cache

-----------------------------------------------------------------------------
(* Reviewer::review: root may, nobody may without an identity, and the rest *)
(* is what the apiserver answered within the last TTL.                      *)

Fresh(b) == cache[b] # None

Decide(q, decision) == Step(q, [req[q] EXCEPT !.pc = "decided", !.decision = decision])

NeedsNoAsking(q) ==
  /\ At(q, "review")
  /\ Identity(req[q].who) = None
  /\ Decide(q, IF req[q].who = Root THEN "yes" ELSE "no")
  /\ UNCHANGED cache

Kept(q) ==
  /\ At(q, "review")
  /\ Identity(req[q].who) # None
  /\ Fresh(req[q].who)
  /\ Decide(q, cache[req[q].who].decision)
  /\ UNCHANGED cache

NotKept(q) ==
  /\ At(q, "review")
  /\ Identity(req[q].who) # None
  /\ ~Fresh(req[q].who)
  /\ Step(q, [req[q] EXCEPT !.pc = "ask"])
  /\ UNCHANGED cache

Answer(b) == IF b \in admins THEN "yes" ELSE "no"

\* "Anything but an explicit allowed: true is a refusal": no answer is one too.
Ask(q) ==
  /\ At(q, "ask")
  /\ \E decision \in {Answer(req[q].who), "unanswered"} :
       Step(q, [req[q] EXCEPT !.pc = "keep", !.decision = decision])
  /\ UNCHANGED cache

\* The answer is kept from now on, not from when it was given.
Keep(q) ==
  /\ At(q, "keep")
  /\ Decide(q, req[q].decision)
  /\ cache' = [cache EXCEPT ![req[q].who] = [decision |-> req[q].decision, age |-> 0]]

-----------------------------------------------------------------------------
(* What becomes of it. *)

\* Mutant: the proxy carries the console's credential, as for any other request.
UpstreamAsConsole(who) == Own

\* upstream_bearer, given the viewer's ActAs.
UpstreamBearer(who) == IF Identity(who) = None THEN Own ELSE who

\* Allowed, and the object's name was typed as the feed has it.
Forward(q) ==
  /\ At(q, "decided")
  /\ req[q].kind = "destroy"
  /\ req[q].decision = "yes"
  /\ Step(q, [req[q] EXCEPT !.pc = "sent", !.as = UpstreamBearer(req[q].who)])
  /\ UNCHANGED cache

\* Refused, not typed, answered, or the page is shown.
Finish(q) ==
  /\ req[q].pc \in {"decided", "sent"}
  /\ Step(q, Idle)
  /\ UNCHANGED cache

\* Mutant: an answer stands for good.
AgedForGood(entry) == entry

\* An answer that is TTL old is asked for again.
Aged(entry) ==
  IF entry = None \/ entry.age + 1 >= TTL THEN None ELSE [entry EXCEPT !.age = @ + 1]

Tick ==
  /\ \A q \in Asking : req[q].age < AskTicks
  /\ cache' = [b \in Bearers |-> Aged(cache[b])]
  /\ req' = [q \in Asking |-> IF At(q, "idle") THEN Idle ELSE [req[q] EXCEPT !.age = @ + 1]]
  /\ quiet' = [b \in Bearers |-> IF quiet[b] = Window THEN Window ELSE quiet[b] + 1]
  /\ UNCHANGED <<config, files, session, admins>>

Next ==
  \/ \E c \in Cookies : SessionEnds(c) \/ \E who \in Signers : Login(c, who)
  \/ FileChanges
  \/ \E b \in Bearers : RoleChanges(b)
  \/ \E q \in Requests :
       \/ \E kind \in {"write", "destroy"}, cred \in Credentials : Arrive(q, kind, cred)
       \/ LetIn(q) \/ Unauthorized(q) \/ NeedsNoAsking(q) \/ Forward(q)
  \/ \E p \in Pages, b \in Bearers : Fill(p, b)
  \/ \E q \in Asking : Kept(q) \/ NotKept(q) \/ Ask(q) \/ Keep(q) \/ Finish(q)
  \/ Tick

Spec == Init /\ [][Next]_vars

-----------------------------------------------------------------------------
Decisions == {"yes", "no", "unanswered"}

TypeOK ==
  /\ signIn \in BOOLEAN /\ writers \subseteq Users \cup {Cert} /\ files \subseteq Tokens /\ admins \subseteq Bearers
  /\ session \in [Cookies -> [who : Signers \cup {None}, live : BOOLEAN]]
  /\ cache \in [Bearers -> [decision : Decisions, age : 0..(TTL - 1)] \cup {None}]
  /\ quiet \in [Bearers -> 0..Window]
  /\ req \in [Asking ->
       [pc : {"idle", "gate", "review", "ask", "keep", "decided", "sent"},
        kind : {"page", "write", "destroy", None}, cred : Credentials,
        who : Signers \cup {Cert, Anonymous, Root},
        decision : Decisions \cup {None}, as : Bearers \cup {Own, None}, age : 0..AskTicks]]
  /\ \A q \in Asking : req[q].pc \in {"ask", "keep"} => req[q].who \in Bearers

\* "Short enough that a binding takes effect while somebody is still looking" (TTL):
\* what a review decides for a viewer is what the apiserver holds of that very viewer,
\* or held less than the window ago, however askings overlap - a destructive request
\* goes on only for one who may, and one who may is told no only if unasked.
ReviewIsCurrent ==
  \A q \in Asking, b \in Bearers :
    /\ req[q].pc \in {"decided", "sent"} /\ req[q].kind # "write"
    /\ req[q].who = b /\ quiet[b] = Window
    => req[q].decision \in {Answer(b), "unanswered"}

\* "Done as the user ... never the console's": destructive storage goes upstream with
\* a credential of what the request presented, its session ended meanwhile or not, and
\* with the console's own only where nobody signs in.
ActsAsItself ==
  \A q \in Requests : At(q, "sent") /\ req[q].kind = "destroy" =>
    LET cred == req[q].cred
    IN  \/ ~signIn
        \/ req[q].as # Own /\ (req[q].as = cred.bearer \/ (cred.cookie # None /\ req[q].as = session[cred.cookie].who))

\* "A reader may not write" (refuse_read_only): what goes upstream with sign-in on is
\* from a viewer with a writing role, or carried a token beside what named its viewer,
\* whatever ended or came between the naming and the gate.
ReaderNeverWrites ==
  \A q \in Requests : At(q, "sent") /\ signIn =>
    MayWrite(req[q].who) \/ req[q].cred.bearer \in Tokens

=============================================================================
