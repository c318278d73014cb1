----------------------------- MODULE FollowedFiles -----------------------------
(***************************************************************************)
(* What the console keeps from files that are renewed under it, and how it *)
(* notices.  Every follower compares modification times and reads again    *)
(* when one moved; they differ in what they hold locked meanwhile:         *)
(*                                                                         *)
(*   token     FileToken::get (token.rs): stat, look, read, store          *)
(*   console   ConsoleToken, InstallToken (auth.rs): stat, then the rest   *)
(*             under a mutex                                               *)
(*   conn      Conn::token (apiserver.rs): look, reload, look again        *)
(*   ca        Conn::http: the same, and a failed build is tried again     *)
(*   client    tls::Client (tls.rs): the same, and the old client is kept  *)
(*             while a build fails                                         *)
(*   listener  listen.rs Tls::current: all of it under a mutex             *)
(*                                                                         *)
(* client and listener build one thing from several files (a certificate   *)
(* and its key), read one after another; the others follow one file.       *)
(***************************************************************************)
EXTENDS Integers, FiniteSets

CONSTANTS
  Readers,      \* the threads that ask
  Followers,    \* the followers of this instance, of the six above
  TokenFile,    \* the file that holds a bearer, or a CA
  Pair,         \* the files of a pair; they fit when they hold the same word
  Words,        \* what a file may hold
  NoWord,       \* a file that is missing or empty, or could not be read
  NoValue,      \* a follower that has nothing
  MaxWrites,    \* bound: renewals and removals of the files
  MaxFails      \* bound: reads that fail

Kinds == {"token", "console", "conn", "ca", "client", "listener"}

ASSUME FollowersAssumption == Followers \subseteq Kinds
ASSUME BoundsAssumption == MaxWrites \in Nat \ {0} /\ MaxFails \in Nat
ASSUME WordsAssumption == NoWord \notin Words
ASSUME ValueAssumption == \A fs \in {Pair, {TokenFile}} : NoValue \notin [fs -> Words]

VARIABLES
  file,         \* [stamp, word] of each file
  clock,        \* the last modification time given out
  seen,         \* what each follower keeps: [stamp, value, failed]
  call,         \* the calls under way, or answered
  fails,        \* reads that failed so far
  asked         \* the follower this behaviour asks: one is as good as all, for they
                \* keep nothing of each other's

vars == <<file, clock, seen, call, fails, asked>>

Missing == 0    \* no modification time: there is no file
Never   == -1   \* not looked at yet

Watched(k)    == IF k \in {"client", "listener"} THEN Pair ELSE {TokenFile}
StatsFirst(k) == k \in {"token", "console"}        \* the stat is outside the lock
Locks(k)      == k \in {"console", "listener"}     \* a mutex, held to the end
Retries(k)    == k \in {"token", "ca", "client"}   \* a failure is no answer to keep
Rereads(k)    == k \in {"conn", "ca", "client"}    \* answers what is kept by then

Files == UNION {Watched(k) : k \in Followers}

Idle == [pc |-> "idle"]
None(k) == [f \in Watched(k) |-> Never]
NoWords(k) == [f \in Watched(k) |-> NoWord]

\* Nothing is read before the first call.  (Some constructors make that call.)
Init ==
  /\ clock = 1
  /\ file \in [Files -> {[stamp |-> Missing, word |-> NoWord]} \cup
                        [stamp : {1}, word : Words \cup {NoWord}]]
  /\ seen = [k \in Followers |-> [stamp |-> None(k), value |-> NoValue, failed |-> TRUE]]
  /\ call = [c \in Readers |-> Idle]
  /\ fails = 0
  /\ asked \in Followers
  /\ \A f \in Files \ Watched(asked) : file[f].stamp = Missing

-----------------------------------------------------------------------------
(* The files: minted, renewed in place, caught half-written, removed.  Two *)
(* writes never carry one modification time.                               *)

\* `held` is history: the words of the token file since the call began.
HeldSince(held, f, w) == IF f = TokenFile THEN held \cup {w} ELSE held

Change(f, to) ==
  /\ clock < MaxWrites
  /\ clock' = clock + 1
  /\ file' = [file EXCEPT ![f] = to]
  /\ call' = [c \in Readers |->
       IF call[c].pc = "idle" THEN Idle
       ELSE [call[c] EXCEPT !.held = HeldSince(@, f, to.word)]]
  /\ UNCHANGED <<seen, fails>>

Write(f) == \E w \in Words \cup {NoWord} : Change(f, [stamp |-> clock + 1, word |-> w])

Remove(f) == file[f].stamp # Missing /\ Change(f, [stamp |-> Missing, word |-> NoWord])

-----------------------------------------------------------------------------
(* A call. *)

At(c, pc) == call[c].pc = pc

\* The files are taken in one order, the same for every call.
First(fs) == CHOOSE f \in fs : TRUE

Go(c, pc) == call' = [call EXCEPT ![c].pc = pc]

Begin(c, k) ==
  /\ At(c, "idle")
  /\ call' = [call EXCEPT ![c] =
       [pc |-> IF StatsFirst(k) THEN "stat" ELSE "check", k |-> k,
        stamp |-> None(k), got |-> NoWords(k), todo |-> Watched(k),
        answer |-> NoValue, failed |-> FALSE, held |-> {file[f].word : f \in Files \cap {TokenFile}}]]
  /\ UNCHANGED <<file, clock, seen, fails>>

\* The modification times, taken one file after another.
Stat(c, f) ==
  /\ At(c, "stat")
  /\ f \in call[c].todo /\ f = First(call[c].todo)
  /\ LET k    == call[c].k
         todo == call[c].todo \ {f}
     IN  call' = [call EXCEPT
           ![c].stamp[f] = file[f].stamp,
           ![c].todo = IF todo = {} THEN Watched(k) ELSE todo,
           ![c].pc = IF todo # {} THEN "stat" ELSE IF StatsFirst(k) THEN "check" ELSE "read"]
  /\ UNCHANGED <<file, clock, seen, fails>>

\* A mutex is held from the check to the store.
Holding(c, k) ==
  /\ Locks(k)
  /\ call[c].pc \in {"read", "store"} \cup IF StatsFirst(k) THEN {} ELSE {"stat"}
  /\ call[c].k = k

\* Mutant: the mutex is given up before the file is read.
FreeAlways(c) == TRUE

Free(c) == \A o \in Readers \ {c} : ~Holding(o, call[c].k)

\* Mutant: the file is read once, at the start.
MovedOnce(c) == seen[call[c].k].stamp = None(call[c].k)

\* What the follower keeps is not of the files as they are.
Moved(c) ==
  LET k == call[c].k
      stamp == IF StatsFirst(k) THEN call[c].stamp ELSE [f \in Watched(k) |-> file[f].stamp]
  IN  seen[k].stamp # stamp \/ (Retries(k) /\ seen[k].failed)

CheckMoved(c) ==
  /\ At(c, "check")
  /\ Free(c)
  /\ Moved(c)
  /\ Go(c, IF StatsFirst(call[c].k) THEN "read" ELSE "stat")
  /\ UNCHANGED <<file, clock, seen, fails>>

CheckSame(c) ==
  /\ At(c, "check")
  /\ Free(c)
  /\ ~Moved(c)
  /\ call' = IF Rereads(call[c].k) THEN [call EXCEPT ![c].pc = "use"]
             ELSE [call EXCEPT ![c].pc = "answered", ![c].answer = seen[call[c].k].value]
  /\ UNCHANGED <<file, clock, seen, fails>>

GotFrom(c, f, w) ==
  LET todo == call[c].todo \ {f}
  IN  [call EXCEPT ![c].got[f] = w, ![c].todo = todo,
                   ![c].pc = IF todo = {} THEN "store" ELSE "read"]

\* A file is read at one instant; one that is empty or gone has no word.
Read(c, f) ==
  /\ At(c, "read")
  /\ f \in call[c].todo /\ f = First(call[c].todo)
  /\ call' = GotFrom(c, f, file[f].word)
  /\ UNCHANGED <<file, clock, seen, fails>>

\* A read that fails for another reason (no descriptor left, an I/O error).
ReadFails(c, f) ==
  /\ At(c, "read")
  /\ f \in call[c].todo /\ f = First(call[c].todo)
  /\ fails < MaxFails
  /\ fails' = fails + 1
  /\ call' = [GotFrom(c, f, NoWord) EXCEPT ![c].failed = TRUE]
  /\ UNCHANGED <<file, clock, seen>>

\* A pair that does not fit is an error, like a file with no word.
Builds(got) == (\A f \in DOMAIN got : got[f] # NoWord) /\ (\A f, g \in DOMAIN got : got[f] = got[g])

Kept(k, built, got) ==
  IF built THEN got ELSE IF k = "client" THEN seen[k].value ELSE NoValue

\* Mutant: the modification time is taken once the file is read.
StoreRestamped(c) ==
  /\ At(c, "store")
  /\ LET k     == call[c].k
         built == Builds(call[c].got)
         kept  == Kept(k, built, call[c].got)
     IN  /\ seen' = [seen EXCEPT ![k] = [stamp |-> [f \in Watched(k) |-> file[f].stamp],
                                        value |-> kept, failed |-> ~built]]
         /\ call' = [call EXCEPT ![c].pc = IF Rereads(k) THEN "use" ELSE "answered",
                                 ![c].answer = IF Rereads(k) THEN NoValue ELSE kept,
                                 ![c].got = NoWords(k)]
  /\ UNCHANGED <<file, clock, fails>>

Store(c) ==
  /\ At(c, "store")
  /\ LET k     == call[c].k
         built == Builds(call[c].got)
         kept  == Kept(k, built, call[c].got)
     IN  /\ seen' = [seen EXCEPT ![k] = [stamp |-> call[c].stamp, value |-> kept, failed |-> ~built]]
         /\ call' = [call EXCEPT ![c].pc = IF Rereads(k) THEN "use" ELSE "answered",
                                 ![c].answer = IF Rereads(k) THEN NoValue ELSE kept,
                                 ![c].got = NoWords(k)]
  /\ UNCHANGED <<file, clock, fails>>

\* What is kept by then, whoever stored it.
Use(c) ==
  /\ At(c, "use")
  /\ call' = [call EXCEPT ![c].pc = "answered", ![c].answer = seen[call[c].k].value]
  /\ UNCHANGED <<file, clock, seen, fails>>

Leave(c) ==
  /\ At(c, "answered")
  /\ call' = [call EXCEPT ![c] = Idle]
  /\ UNCHANGED <<file, clock, seen, fails>>

-----------------------------------------------------------------------------
\* The files nobody asks for rest.
FilesChange == \E f \in Files : f \in Watched(asked) /\ (Write(f) \/ Remove(f))

Ask(c) ==
  \/ \E k \in Followers : asked = k /\ Begin(c, k)
  \/ \E f \in Files : Stat(c, f) \/ Read(c, f) \/ ReadFails(c, f)
  \/ CheckMoved(c) \/ CheckSame(c) \/ Store(c) \/ Use(c) \/ Leave(c)

Next ==
  /\ FilesChange \/ \E c \in Readers : Ask(c)
  /\ UNCHANGED asked

Spec == Init /\ [][Next]_vars

\* A request of the console ends, and others come that ask again.
FairSpec == Spec /\ \A c \in Readers : WF_vars(Ask(c) /\ UNCHANGED asked)

-----------------------------------------------------------------------------
(* Properties. *)

Stamps == Never..MaxWrites
Values(k) == [Watched(k) -> Words] \cup {NoValue}
Keeps(k) == [stamp : [Watched(k) -> Stamps], value : Values(k), failed : BOOLEAN]
Calls(k) ==
  [pc : {"stat", "check", "read", "store", "use", "answered"}, k : {k},
   stamp : [Watched(k) -> Stamps], got : [Watched(k) -> Words \cup {NoWord}],
   todo : SUBSET Watched(k), answer : Values(k), failed : BOOLEAN,
   held : SUBSET (Words \cup {NoWord})]

\* Every variable has its type, no file is ahead of the clock, and a mutex
\* has one holder.
TypeOK ==
  /\ clock \in 1..MaxWrites
  /\ fails \in 0..MaxFails
  /\ file \in [Files -> [stamp : Missing..clock, word : Words \cup {NoWord}]]
  /\ DOMAIN seen = Followers
  /\ \A k \in Followers : seen[k] \in Keeps(k)
  /\ DOMAIN call = Readers
  /\ \A c \in Readers : call[c] = Idle \/ \E k \in Followers : call[c] \in Calls(k)
  /\ \A k \in Followers, c, d \in Readers : Holding(c, k) /\ Holding(d, k) => c = d

\* The stat comes before the read, so what a follower keeps under a file's own
\* modification time is what that file holds: a stale word is always found out by the
\* next look, however many threads reload at once and in whatever order they store.
KeptIsContent ==
  \A k \in Followers : ~seen[k].failed =>
    \A f \in Watched(k) :
      (file[f].stamp # Missing /\ seen[k].stamp[f] = file[f].stamp) => seen[k].value[f] = file[f].word

Answered(c, ks) == At(c, "answered") /\ call[c].k \in ks
WordIn(v) == IF v = NoValue THEN NoWord ELSE v[TokenFile]

\* A bearer a call of FileToken or ConsoleToken answers, having seen the file there, is
\* one the file held at some time during that very call, never an older one; and
\* FileToken says there is none only if there was none then, or this call could not
\* read the file itself.
AnswerWasHeld ==
  \A c \in Readers :
    /\ Answered(c, {"token", "console"})
    /\ IF call[c].answer = NoValue
         THEN call[c].k = "token" /\ ~call[c].failed
         ELSE call[c].stamp[TokenFile] # Missing
    => WordIn(call[c].answer) \in call[c].held

\* What a call of FileToken is to its caller.
AskOf(r) ==
  IF r.pc = "idle" THEN Idle
  ELSE IF r.pc = "answered" THEN [pc |-> "answered", word |-> WordIn(r.answer)]
  ELSE [pc |-> "asking", held |-> r.held, failed |-> r.failed, missed |-> r.stamp[TokenFile] = Missing]

RegisterWord == IF asked = "token" THEN file[TokenFile].word ELSE NoWord
RegisterAsk  == [c \in Readers |-> IF asked = "token" THEN AskOf(call[c]) ELSE Idle]

\* FileToken implements the abstract promise: a behaviour that asks it is one of
\* RenewedWord, step for step, and nothing is asked of it in the others.
Register == INSTANCE RenewedWord WITH word <- RegisterWord, ask <- RegisterAsk

TokenIsRegister == Register!Spec

HoldsWord(k) == Builds([f \in Watched(k) |-> file[f].word])

\* Picked up with no restart: once the files rest and hold something that fits, the
\* follower keeps just that for good - through reads that failed, where it keeps no
\* failure, and otherwise as far as none did.
SettledIsKept ==
  <>[](HoldsWord(asked) /\ (Retries(asked) \/ fails = 0))
    => <>[](seen[asked].value = [f \in Watched(asked) |-> file[f].word])

=============================================================================
